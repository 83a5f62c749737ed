------------------------------ MODULE MCFrontend ------------------------------
(***************************************************************************)
(* Frontend on a host with a PROM, a disk and a CD-ROM image, a stored     *)
(* machine, and a first start with none.                                   *)
(***************************************************************************)
EXTENDS Frontend

MCTargets == {1}
MCLuns == {0}
MCHostPaths == {"prom", "disk"}

Property(id, value) == [of |-> "property", id |-> id, value |-> value, device |-> ""]
Attachment(id, device) == [of |-> "attachment", id |-> id, value |-> Text(""), device |-> device]

MCEdits ==
  {Property(FIRMWARE_PATH, Text("prom")), Property(MemoryProperty(0), Integer(0)),
   Attachment(ScsiLun(1, 0), SCSI_DISK), Attachment(ScsiLun(1, 0), SCSI_CDROM),
   Property(ScsiMedium(1, 0), Text("disk")), Attachment(PortNode(2), "")}

\* Five address bits: network 8/2 has the hosts 9..14, two of them the DHCP pool.
Network(dhcp, tftp, forwards) ==
  [subnet |-> Subnet(8, 2), gateway |-> 9, dns |-> 10, dhcpStart |-> dhcp,
   tftpRoot |-> tftp, bootfile |-> "", rootPath |-> "", forwards |-> forwards]
MCNetworkTexts ==
  <<Network(11, "", <<>>),
    Network(11, "boot", <<Rule("tcp", 0, 1, 12, 2), Rule("tcp", 16, 1, 12, 3)>>),
    Network(11, "boot", <<Rule("tcp", 17, 1, 12, 2), Rule("udp", 17, 1, 12, 2)>>)>>
MCDirectories == {"boot"}

AllThere == [p \in MCHostPaths |-> HostFile(TRUE, TRUE, 1)]
MCHosts ==
  {AllThere, [AllThere EXCEPT !["prom"] = NoFile],
   [AllThere EXCEPT !["disk"] = HostFile(FALSE, TRUE, 2)]}

WithFirmware == ApplyEdit(DefaultDraft, Property(FIRMWARE_PATH, Text("prom")))
MCStarts == {[draft |-> DefaultDraft, net |-> 1], [draft |-> WithFirmware, net |-> 1]}

Budget(edits, nets, ops, changes, restarts) ==
  [edits |-> edits, nets |-> nets, ops |-> ops, changes |-> changes, restarts |-> restarts]
MCBudgets == {Budget(2, 0, 2, 0, 1), Budget(1, 1, 2, 0, 0), Budget(1, 0, 2, 1, 0), Budget(1, 0, 4, 0, 0)}
=============================================================================
