------------------------------- MODULE MCMedia -------------------------------
(***************************************************************************)
(* Media with a disk of three two-byte blocks under pages of four bytes    *)
(* (so that the last page is short), discs of four and eight bytes and one *)
(* whose size no block size divides.                                       *)
(***************************************************************************)
EXTENDS Media

MCDiscs == {"A", "B", "odd"}
MCDiscBytes == [d \in MCDiscs |-> CASE d = "A" -> 4 [] d = "B" -> 4 [] d = "odd" -> 6]
MCDiskImage == [i \in 0..5 |-> 1]

Cdb(op, lba, count, flag) == [op |-> op, whole |-> TRUE, lba |-> lba, count |-> count,
                              flag |-> flag]
Cut(op) == [op |-> op, whole |-> FALSE, lba |-> 0, count |-> 1, flag |-> TRUE]
Plain(op) == Cdb(op, 0, 1, TRUE)

MCDiskCdbs ==
    {Plain(op) : op \in {"test", "sense", "inquiry", "mode sense", "capacity",
                         "defects", "format"}}
    \cup {Cdb("inquiry", 0, 0, TRUE), Cdb("defects", 0, 1, FALSE), Cut("read")}
    \cup {Cdb("start", 0, 0, flag) : flag \in BOOLEAN}
    \cup {Cdb("read", 0, 0, TRUE), Cdb("read6", 1, 0, TRUE), Cdb("read", 2, 1, TRUE),
          Cdb("read", 2, 2, TRUE)}
    \cup {Cdb("write", lba, count, TRUE) : lba \in 0..2, count \in 1..2}
    \cup {Cdb("write6", 0, 0, TRUE)}

MCDriveCdbs ==
    {Plain(op) : op \in {"test", "sense", "inquiry", "mode sense", "capacity", "toc",
                         "write", "to cdrom", "eject", "format"}}
    \cup {Cdb("mode select", 0, count, TRUE) : count \in 0..1}
    \cup {Cdb("mode select", 0, 1, FALSE), Cdb("toc", 0, 1, FALSE), Cut("capacity"),
          Cdb("prevent", 1, 0, TRUE)}
    \cup {Cdb("start", 0, eject, start) : eject \in 0..1, start \in BOOLEAN}
    \cup {Cdb("prevent", 0, 0, flag) : flag \in BOOLEAN}
    \cup {Cdb("read", lba, 1, TRUE) : lba \in 0..2}
    \cup {Cdb("read6", 0, 0, TRUE), Cdb("read", 0, 0, TRUE)}
=============================================================================
