---------------------------- MODULE MediaProofs ----------------------------
(***************************************************************************)
(* Proofs about Media, for every disk image, page and block size, every    *)
(* set of discs and commands, and every number of sessions and failures.   *)
(***************************************************************************)
EXTENDS Media, TLAPS, FiniteSetTheorems

-----------------------------------------------------------------------------
(* The inductive invariant.  What holds of the running machine holds of    *)
(* the machine a snapshot retains, so its parts are predicates.            *)

Offsets == DOMAIN DiskImage
ImageSize == SizeOf(DiskImage)

\* The contents of a file of the size of the disk image.
Image(f) == f = [i \in Offsets |-> f[i]]

Slots == Discs \cup {NoDisc}
Kinds == {"none", "immediate", "select", "read", "write"}
Transfers == [kind : Kinds, offset : Nat, remaining : Nat, list : Nat]
Buses == [target : {NoTarget, "disk", "drive"}, done : BOOLEAN, txn : Transfers]

\* Only the disk is written, only the drive has parameters to select, and a
\* storage transfer stays inside its medium.
BusFits(b, medium) ==
    /\ b \in Buses
    /\ b.txn.kind = "write" => b.target = "disk"
    /\ b.txn.kind = "select" => b.target = "drive"
    /\ b.txn.kind \in {"read", "write"} =>
         b.txn.offset + b.txn.remaining <= IF b.target = "drive" THEN medium ELSE ImageSize

DiskOK(d) == d \in Disks /\ d.blocks * SmallBlock = ImageSize

ValidSlot(sl) == sl \in Slots /\ (sl # NoDisc => MediumSizeValid(Bytes(sl)))

DriveOK(d, sl) ==
    /\ d \in Drives /\ ValidSlot(sl)
    /\ d.medium = Bytes(sl) /\ Divides(d.block, d.medium)

\* The guest knows the medium, or will be told before it gets any of it.
Told(d, sl, aw, b) ==
    /\ aw \in Slots
    /\ d.attention \/ aw = sl
    /\ b.target = "drive" /\ b.txn.kind = "read" => aw = sl

MachineOK(dk, dr, sl, b, aw) ==
    DiskOK(dk) /\ DriveOK(dr, sl) /\ BusFits(b, Bytes(sl)) /\ Told(dr, sl, aw, b)

\* The overlay holds pages of the file, each of its length.
PagesOK(pages) ==
    /\ pages = [p \in DOMAIN pages |-> pages[p]]
    /\ \A p \in DOMAIN pages :
         /\ p \in Nat /\ PageOffset(p) < ImageSize
         /\ DOMAIN pages[p] = 0 .. PageLength(p, ImageSize) - 1

Contents(pages, image, fl) ==
    PagesOK(pages) /\ Image(image) /\ Image(fl) /\ View(pages, image) = fl

Pages == IF Overlaid THEN overlay.pages ELSE NoPages

RecordOK ==
    /\ ValidSlot(recorded.disc) /\ Image(recorded.image)
    /\ Overlaid => base = recorded.image /\ slot \in {recorded.disc, NoDisc}

SnapshotOK ==
    snapshot.taken =>
        /\ MachineOK(snapshot.disk, snapshot.drive, snapshot.slot, snapshot.bus, snapshot.aware)
        /\ snapshot.slot \in {recorded.disc, NoDisc}
        /\ Contents(snapshot.pages, recorded.image, snapshot.flat)

Inv ==
    /\ MachineOK(disk, drive, slot, bus, aware)
    /\ generation \in 1 .. MaxGeneration
    /\ overlay = [pages |-> overlay.pages, failed |-> overlay.failed]
    /\ Contents(Pages, base, flat)
    /\ RecordOK
    /\ SnapshotOK

-----------------------------------------------------------------------------
(* Arithmetic.                                                             *)

LEMMA DivMod ==
    \A a \in Nat, b \in Nat \ {0} :
        /\ a = (a \div b) * b + (a % b)
        /\ a \div b \in Nat /\ a % b \in 0 .. b - 1
        /\ (a \div b) * b <= a /\ a < (a \div b) * b + b
OBVIOUS

\* Multiplying keeps the order.
LEMMA MulMonotone ==
    \A a, b, k \in Nat : a <= b => a * k <= b * k
<1>1. SUFFICES ASSUME NEW a \in Nat, NEW b \in Nat, NEW k \in Nat, a <= b
               PROVE  a * k <= b * k
  OBVIOUS
<1>2. (b - a) * k >= 0
  BY <1>1
<1> QED BY <1>1, <1>2

\* A multiple has no remainder.
LEMMA MultipleMod ==
    \A q \in Nat, b \in Nat \ {0} : (q * b) % b = 0
<1>1. SUFFICES ASSUME NEW q \in Nat, NEW b \in Nat \ {0}
               PROVE  (q * b) % b = 0
  OBVIOUS
<1> DEFINE a == q * b
           d == a \div b
           r == a % b
<1>2. a \in Nat
  OBVIOUS
<1>3. a = d * b + r /\ d \in Nat /\ r \in 0 .. b - 1
  BY <1>2, DivMod
<1> HIDE DEF d, r
<1>4. (q - d) * b = r
  BY <1>3
<1>5. q - d = 0
  <2>1. CASE q - d >= 1
    <3>1. (q - d - 1) * b >= 0
      BY <1>3, <2>1
    <3> QED BY <1>3, <1>4, <3>1
  <2>2. CASE q - d <= -1
    <3>1. (d - q - 1) * b >= 0
      BY <1>3, <2>2
    <3> QED BY <1>3, <1>4, <3>1
  <2> QED BY <1>3, <2>1, <2>2
<1>6. r = 0
  BY <1>3, <1>4, <1>5
<1> QED BY <1>6 DEF r

\* A page index of a byte, and the bytes of a page.
LEMMA PageOfByte ==
    \A i \in Nat :
        /\ PageOf(i) \in Nat
        /\ i = PageOffset(PageOf(i)) + (i % PageBytes) /\ i % PageBytes \in 0 .. PageBytes - 1
        /\ PageOffset(PageOf(i)) <= i /\ i < PageOffset(PageOf(i)) + PageBytes
BY DivMod, PageAssumption DEF PageOf, PageOffset

LEMMA PageOrder ==
    \A p, q \in Nat : p < q => PageOffset(p) + PageBytes <= PageOffset(q)
<1>1. SUFFICES ASSUME NEW p \in Nat, NEW q \in Nat, p < q
               PROVE  PageOffset(p) + PageBytes <= PageOffset(q)
  OBVIOUS
<1>2. (p + 1) * PageBytes <= q * PageBytes
  BY <1>1, MulMonotone, PageAssumption
<1>3. (p + 1) * PageBytes = p * PageBytes + PageBytes
  BY PageAssumption
<1> QED BY <1>2, <1>3 DEF PageOffset

LEMMA PageMonotone ==
    \A i, j \in Nat : i <= j => PageOf(i) <= PageOf(j)
<1>1. SUFFICES ASSUME NEW i \in Nat, NEW j \in Nat, i <= j, ~ (PageOf(i) <= PageOf(j))
               PROVE  FALSE
  OBVIOUS
<1>2. PageOf(i) \in Nat /\ PageOf(j) \in Nat
  BY PageOfByte
<1>3. PageOffset(PageOf(j)) + PageBytes <= PageOffset(PageOf(i))
  BY <1>1, <1>2, PageOrder
<1>4. PageOffset(PageOf(i)) <= i /\ j < PageOffset(PageOf(j)) + PageBytes
  BY PageOfByte
<1>5. PageOffset(PageOf(i)) \in Nat /\ PageOffset(PageOf(j)) \in Nat
  BY <1>2, PageAssumption DEF PageOffset
<1> QED BY <1>1, <1>3, <1>4, <1>5, PageAssumption

-----------------------------------------------------------------------------
(* Sizes.                                                                  *)

LEMMA SizeIsNat == ImageSize \in Nat \ {0} /\ Offsets = 0 .. ImageSize - 1
<1>1. ImageSize \in Nat
  BY FS_CardinalityType, MediaAssumption DEF ImageSize, SizeOf
<1> QED BY <1>1, MediaAssumption, DiskImageAccepted DEF DiskSizeValid, ImageSize, Offsets

LEMMA ImageSized ==
    ASSUME NEW f, Image(f)
    PROVE  SizeOf(f) = ImageSize /\ DOMAIN f = Offsets
<1>1. DOMAIN f = Offsets
  BY DEF Image
<1> QED BY <1>1 DEF SizeOf, ImageSize, Offsets

LEMMA FirstImage == Image(DiskImage)
BY MediaAssumption DEF Image, Offsets

\* The host file after a write is one of the same size.
LEMMA HostWriteImage ==
    ASSUME NEW f, Image(f), NEW offset, NEW data, NEW n
    PROVE  Image(HostWrite(f, offset, data, n))
BY ImageSized DEF Image, HostWrite

\* A medium ScsiCdrom accepts has a whole number of blocks of either size, and
\* fits the drive.
LEMMA MediumFits ==
    ASSUME NEW bytes \in Nat, MediumSizeValid(bytes)
    PROVE  /\ bytes \in 1 .. LbaLimit * SmallBlock
           /\ \A b \in SupportedBlocks : b \in Nat \ {0} /\ Divides(b, bytes)
<1>1. /\ SmallBlock \in Nat \ {0} /\ LargeBlock \in Nat \ {0} /\ LbaLimit \in Nat
      /\ LargeBlock % SmallBlock = 0
  BY TargetConstants
<1> DEFINE k == bytes \div LargeBlock
           j == LargeBlock \div SmallBlock
<1>2. bytes = k * LargeBlock /\ k \in Nat
  BY <1>1, DivMod DEF MediumSizeValid, Divides
<1>3. LargeBlock = j * SmallBlock /\ j \in Nat
  BY <1>1, DivMod
<1> HIDE DEF k, j
<1>4. bytes = (k * j) * SmallBlock /\ k * j \in Nat
  BY <1>1, <1>2, <1>3
<1>5. bytes % SmallBlock = 0
  BY <1>1, <1>4, MultipleMod
<1>6. bytes = (bytes \div SmallBlock) * SmallBlock /\ bytes \div SmallBlock \in Nat
  BY <1>1, <1>5, DivMod
<1>7. bytes <= LbaLimit * SmallBlock
  BY <1>1, <1>6, MulMonotone DEF MediumSizeValid
<1> QED BY <1>1, <1>5, <1>7 DEF MediumSizeValid, Divides, SupportedBlocks

LEMMA SlotBytes ==
    ASSUME NEW sl, ValidSlot(sl)
    PROVE  /\ Bytes(sl) \in 0 .. LbaLimit * SmallBlock
           /\ Bytes(sl) = 0 <=> sl = NoDisc
           /\ \A b \in SupportedBlocks : b \in Nat \ {0} /\ Divides(b, Bytes(sl))
<1>1. CASE sl = NoDisc
  <2>1. \A b \in SupportedBlocks : b \in Nat \ {0} /\ 0 % b = 0
    BY TargetConstants DEF SupportedBlocks
  <2>2. LbaLimit * SmallBlock \in Nat
    BY TargetConstants
  <2> QED BY <1>1, <2>1, <2>2 DEF Bytes, Divides
<1>2. CASE sl # NoDisc
  <2>1. Bytes(sl) \in Nat /\ MediumSizeValid(Bytes(sl))
    BY <1>2, MediaAssumption DEF ValidSlot, Slots, Bytes
  <2> QED BY <1>2, <2>1, MediumFits
<1> QED BY <1>1, <1>2

LEMMA ConfiguredValid ==
    /\ ValidSlot(NoDisc)
    /\ \A disc \in ColdDiscs : ValidSlot(disc)
    /\ \A disc \in ConfiguredDiscs : ValidSlot(disc)
<1>1. ValidSlot(NoDisc)
  BY DEF ValidSlot, Slots
<1>2. \A disc \in ColdDiscs : ValidSlot(disc)
  BY MediaAssumption DEF ValidSlot, Slots, Bytes
<1> QED BY <1>1, <1>2 DEF ConfiguredDiscs

-----------------------------------------------------------------------------
(* The overlay.                                                            *)

\* The byte the machine sees at an offset.
Seen(pages, image, i) ==
    IF PageOf(i) \in DOMAIN pages THEN pages[PageOf(i)][i % PageBytes] ELSE image[i]

LEMMA ViewSeen ==
    ASSUME NEW pages, NEW image, Image(image)
    PROVE  View(pages, image) = [i \in Offsets |-> Seen(pages, image, i)]
<1>1. SizeOf(image) = ImageSize /\ Offsets = 0 .. ImageSize - 1 /\ ImageSize \in Nat
  BY ImageSized, SizeIsNat
<1>2. \A i \in Offsets : 0 + i = i
  BY <1>1
<1>3. View(pages, image) = [i \in Offsets |->
          IF PageOf(0 + i) \in DOMAIN pages THEN pages[PageOf(0 + i)][(0 + i) % PageBytes]
          ELSE image[0 + i]]
  BY <1>1 DEF View, OverlayRead
<1> QED BY <1>2, <1>3 DEF Seen

LEMMA NoPagesView ==
    ASSUME NEW image, Image(image)
    PROVE  Contents(NoPages, image, image)
<1>1. DOMAIN NoPages = {} /\ NoPages = [p \in DOMAIN NoPages |-> NoPages[p]]
  BY DEF NoPages
<1>2. PagesOK(NoPages)
  BY <1>1 DEF PagesOK
<1>3. \A i \in Offsets : Seen(NoPages, image, i) = image[i]
  BY <1>1 DEF Seen
<1>4. View(NoPages, image) = [i \in Offsets |-> image[i]]
  BY <1>3, ViewSeen
<1> QED BY <1>2, <1>4 DEF Contents, Image

\* The page a byte of the file lies in.
LEMMA BytePage ==
    ASSUME NEW i \in Offsets
    PROVE  LET p == PageOf(i)
               r == i % PageBytes
           IN /\ i \in Nat /\ p \in Nat /\ PageOffset(p) \in Nat /\ r \in Nat
              /\ i = PageOffset(p) + r /\ PageOffset(p) < ImageSize
              /\ r \in 0 .. PageLength(p, ImageSize) - 1
<1>1. i \in Nat /\ i < ImageSize /\ ImageSize \in Nat
  BY SizeIsNat
<1>2. /\ PageOf(i) \in Nat
      /\ i = PageOffset(PageOf(i)) + (i % PageBytes) /\ i % PageBytes \in 0 .. PageBytes - 1
      /\ PageOffset(PageOf(i)) <= i
  BY <1>1, PageOfByte
<1>3. PageOffset(PageOf(i)) \in Nat
  BY <1>2, PageAssumption DEF PageOffset
<1> QED BY <1>1, <1>2, <1>3, PageAssumption DEF PageLength, Least

\* What a write copies into the pages it reaches.
LEMMA OverlayWriteOK ==
    ASSUME NEW pages, PagesOK(pages), NEW image, Image(image), NEW offset \in Nat,
           NEW n \in Nat \ {0}, offset + n <= ImageSize, NEW bad,
           NEW data, data = [i \in 1 .. n |-> GuestData]
    PROVE  LET touched == PagesOf(offset, n)
               new == OverlayWrite(pages, image, offset, data, bad)
           IN /\ PagesOK(new)
              /\ \A i \in Offsets :
                   Seen(new, image, i) =
                       IF i \in offset .. offset + n - 1 /\ PageOf(i) \in Reached(pages, touched, bad)
                       THEN GuestData ELSE Seen(pages, image, i)
<1> DEFINE touched == PagesOf(offset, n)
           reached == Reached(pages, touched, bad)
           new == OverlayWrite(pages, image, offset, data, bad)
<1>1. Len(data) = n
  OBVIOUS
<1>2. touched = PageOf(offset) .. PageOf(offset + n - 1) /\ offset + n - 1 \in Nat
  BY DEF PagesOf
<1>3. /\ DOMAIN new = DOMAIN pages \cup reached
      /\ new = [p \in DOMAIN new |-> new[p]]
      /\ \A p \in reached : new[p] = Written(p, FirstContents(pages, image, p), offset, data)
      /\ \A p \in DOMAIN pages \ reached : new[p] = pages[p]
  <2>1. reached \subseteq touched
    BY DEF Reached
  <2>2. new = [p \in DOMAIN pages \cup reached |->
                 IF p \in touched /\ p \in reached
                 THEN Written(p, FirstContents(pages, image, p), offset, data)
                 ELSE pages[p]]
    BY <1>1 DEF OverlayWrite
  <2> HIDE DEF new, reached, touched
  <2> QED BY <2>1, <2>2
<1>4. \A p \in touched : p \in Nat /\ PageOffset(p) \in Nat /\ PageOffset(p) < ImageSize
  <2>1. PageOf(offset) \in Nat /\ PageOf(offset + n - 1) \in Nat
        /\ PageOffset(PageOf(offset + n - 1)) <= offset + n - 1
    BY <1>2, PageOfByte
  <2>2. ASSUME NEW p \in touched PROVE p \in Nat /\ PageOffset(p) \in Nat /\ PageOffset(p) < ImageSize
    <3>1. p \in Nat /\ p <= PageOf(offset + n - 1)
      BY <1>2, <2>1
    <3>2. PageOffset(p) <= PageOffset(PageOf(offset + n - 1))
      BY <2>1, <3>1, MulMonotone, PageAssumption DEF PageOffset
    <3>3. PageOffset(p) \in Nat /\ PageOffset(PageOf(offset + n - 1)) \in Nat
      BY <2>1, <3>1, PageAssumption DEF PageOffset
    <3> QED BY <2>1, <3>1, <3>2, <3>3, SizeIsNat
  <2> QED BY <2>2
<1>5. \A p \in reached : DOMAIN FirstContents(pages, image, p) = 0 .. PageLength(p, ImageSize) - 1
  BY ImageSized DEF FirstContents, PagesOK, BaseRead
<1>6. \A p : DOMAIN Written(p, FirstContents(pages, image, p), offset, data) = DOMAIN FirstContents(pages, image, p)
  BY DEF Written
<1>7. reached \subseteq touched
  BY DEF Reached
<1>8. PagesOK(new)
  <2> HIDE DEF new, reached, touched
  <2>1. \A p \in DOMAIN new : p \in Nat /\ PageOffset(p) < ImageSize
    BY <1>3, <1>4, <1>7 DEF PagesOK
  <2>2. \A p \in DOMAIN new : DOMAIN new[p] = 0 .. PageLength(p, ImageSize) - 1
    BY <1>3, <1>5, <1>6 DEF PagesOK
  <2> QED BY <1>3, <2>1, <2>2 DEF PagesOK
<1>9. ASSUME NEW i \in Offsets
      PROVE  Seen(new, image, i) =
                 IF i \in offset .. offset + n - 1 /\ PageOf(i) \in reached
                 THEN GuestData ELSE Seen(pages, image, i)
  <2> DEFINE p == PageOf(i)
             r == i % PageBytes
             first == FirstContents(pages, image, p)
  <2>1. /\ i \in Nat /\ p \in Nat /\ PageOffset(p) \in Nat /\ r \in Nat
        /\ i = PageOffset(p) + r /\ r \in 0 .. PageLength(p, ImageSize) - 1
    BY BytePage
  <2> HIDE DEF new, reached, touched, r
  <2>2. CASE p \in reached
    <3>1. r \in DOMAIN first
      BY <1>5, <2>1, <2>2
    <3>2. first[r] = Seen(pages, image, i)
      <4>1. CASE p \in DOMAIN pages
        BY <4>1 DEF FirstContents, Seen, r
      <4>2. CASE p \notin DOMAIN pages
        BY <2>1, <4>2, ImageSized DEF FirstContents, BaseRead, Seen
      <4> QED BY <4>1, <4>2
    <3>3. new[p][r] = IF PageOffset(p) + r \in offset .. offset + Len(data) - 1
                      THEN data[PageOffset(p) + r - offset + 1] ELSE first[r]
      BY <1>3, <2>2, <3>1, SMTT(30) DEF Written
    <3>4. i \in offset .. offset + n - 1 => data[i - offset + 1] = GuestData
      <4>1. i \in offset .. offset + n - 1 => i - offset + 1 \in 1 .. n
        BY <2>1
      <4> QED BY <4>1
    <3>5. Seen(new, image, i) = new[p][r]
      BY <1>3, <2>2 DEF Seen, r
    <3> QED BY <1>1, <2>1, <2>2, <3>2, <3>3, <3>4, <3>5
  <2>3. CASE p \notin reached
    BY <1>3, <2>3 DEF Seen
  <2> QED BY <2>2, <2>3
<1> QED BY <1>8, <1>9

\* A write through the overlay is a write to the plain array.
LEMMA OverlayWritten ==
    ASSUME NEW pages, NEW image, NEW fl, Contents(pages, image, fl), NEW offset \in Nat,
           NEW n \in Nat \ {0}, offset + n <= ImageSize,
           NEW data, data = [i \in 1 .. n |-> GuestData]
    PROVE  Contents(OverlayWrite(pages, image, offset, data, -1), image,
                    HostWrite(fl, offset, data, n))
<1> DEFINE touched == PagesOf(offset, n)
           new == OverlayWrite(pages, image, offset, data, -1)
           written == HostWrite(fl, offset, data, n)
<1>1. /\ PagesOK(new)
      /\ \A i \in Offsets :
           Seen(new, image, i) =
               IF i \in offset .. offset + n - 1 /\ PageOf(i) \in Reached(pages, touched, -1)
               THEN GuestData ELSE Seen(pages, image, i)
  BY OverlayWriteOK DEF Contents
<1>2. fl = [i \in Offsets |-> Seen(pages, image, i)] /\ DOMAIN fl = Offsets
  BY ViewSeen DEF Contents
<1>3. Reached(pages, touched, -1) = touched
  <2>1. touched \subseteq Nat
    <3>1. offset + n - 1 \in Nat
      OBVIOUS
    <3>2. PageOf(offset) \in Nat /\ PageOf(offset + n - 1) \in Nat
      BY <3>1, PageOfByte
    <3> QED BY <3>2 DEF PagesOf
  <2>2. -1 \notin touched
    BY <2>1
  <2> QED BY <2>2 DEF Reached
<1>4. \A i \in Offsets : i \in offset .. offset + n - 1 => PageOf(i) \in touched
  <2>1. ASSUME NEW i \in Offsets, i \in offset .. offset + n - 1 PROVE PageOf(i) \in touched
    <3>1. i \in Nat /\ offset <= i /\ i <= offset + n - 1 /\ offset + n - 1 \in Nat
      BY <2>1, SizeIsNat
    <3>2. PageOf(offset) <= PageOf(i) /\ PageOf(i) <= PageOf(offset + n - 1)
      BY <3>1, PageMonotone
    <3>3. PageOf(i) \in Nat /\ PageOf(offset) \in Nat /\ PageOf(offset + n - 1) \in Nat
      BY <3>1, PageOfByte
    <3> QED BY <3>2, <3>3 DEF PagesOf
  <2> QED BY <2>1
<1>5. written = [i \in Offsets |-> IF i \in offset .. offset + n - 1 THEN data[i - offset + 1] ELSE fl[i]]
  BY <1>2 DEF HostWrite
<1>6. \A i \in Offsets : i \in offset .. offset + n - 1 => data[i - offset + 1] = GuestData
  BY SizeIsNat
<1> HIDE DEF new, written, touched
<1>7. \A i \in Offsets : Seen(new, image, i) = written[i]
  BY <1>1, <1>2, <1>3, <1>4, <1>5, <1>6
<1>8. Image(written) /\ Image(image)
  BY HostWriteImage DEF Contents, written
<1>9. View(new, image) = written
  BY <1>7, <1>8, ViewSeen DEF Image
<1> QED BY <1>1, <1>8, <1>9 DEF Contents, new, written

\* A write that fails at page `bad` has changed exactly the bytes before it.
LEMMA OverlayFailed ==
    ASSUME NEW pages, NEW image, NEW fl, Contents(pages, image, fl), NEW offset \in Nat,
           NEW n \in Nat \ {0}, offset + n <= ImageSize,
           NEW data, data = [i \in 1 .. n |-> GuestData],
           NEW bad \in PagesOf(offset, n) \ DOMAIN pages
    PROVE  Contents(OverlayWrite(pages, image, offset, data, bad), image,
                    HostWrite(fl, offset, data,
                              IF PageOffset(bad) > offset THEN PageOffset(bad) - offset ELSE 0))
<1> DEFINE touched == PagesOf(offset, n)
           new == OverlayWrite(pages, image, offset, data, bad)
           m == IF PageOffset(bad) > offset THEN PageOffset(bad) - offset ELSE 0
           written == HostWrite(fl, offset, data, m)
<1>1. /\ PagesOK(new)
      /\ \A i \in Offsets :
           Seen(new, image, i) =
               IF i \in offset .. offset + n - 1 /\ PageOf(i) \in Reached(pages, touched, bad)
               THEN GuestData ELSE Seen(pages, image, i)
  BY OverlayWriteOK DEF Contents
<1>2. fl = [i \in Offsets |-> Seen(pages, image, i)] /\ DOMAIN fl = Offsets
  BY ViewSeen DEF Contents
<1>3. /\ PageOf(offset) \in Nat /\ PageOf(offset + n - 1) \in Nat
      /\ PageOffset(PageOf(offset + n - 1)) <= offset + n - 1 /\ offset + n - 1 \in Nat
  <2>1. offset + n - 1 \in Nat
    OBVIOUS
  <2> QED BY <2>1, PageOfByte
<1>4. bad \in Nat /\ PageOffset(bad) \in Nat /\ bad <= PageOf(offset + n - 1)
  BY <1>3, PageAssumption DEF PagesOf, PageOffset
<1>5. PageOffset(bad) <= offset + n - 1
  <2>1. PageOffset(bad) <= PageOffset(PageOf(offset + n - 1))
    BY <1>3, <1>4, MulMonotone, PageAssumption DEF PageOffset
  <2>2. PageOffset(PageOf(offset + n - 1)) \in Nat
    BY <1>3, PageAssumption DEF PageOffset
  <2> QED BY <1>3, <1>4, <2>1, <2>2
<1>6. Reached(pages, touched, bad) = {p \in touched : p < bad}
  BY DEF Reached
<1>7. ASSUME NEW i \in Offsets
      PROVE  /\ (i \in offset .. offset + n - 1 /\ PageOf(i) \in Reached(pages, touched, bad))
                   <=> i \in offset .. offset + m - 1
             /\ i \in offset .. offset + m - 1 => data[i - offset + 1] = GuestData
  <2>0. i \in Nat
    BY SizeIsNat
  <2>1. i \in Nat /\ PageOf(i) \in Nat
    BY <2>0, PageOfByte
  <2>2. PageOf(i) < bad <=> i < PageOffset(bad)
    <3>1. /\ PageOffset(PageOf(i)) <= i /\ i < PageOffset(PageOf(i)) + PageBytes
          /\ PageOffset(PageOf(i)) \in Nat
      <4>1. PageOffset(PageOf(i)) \in Nat
        BY <2>1, PageAssumption DEF PageOffset
      <4> QED BY <2>1, <4>1, PageOfByte
    <3>2. CASE PageOf(i) < bad
      BY <1>4, <2>1, <3>1, <3>2, PageOrder, PageAssumption
    <3>3. CASE ~ (PageOf(i) < bad)
      <4>1. bad <= PageOf(i)
        BY <1>4, <2>1, <3>3
      <4>2. PageOffset(bad) <= PageOffset(PageOf(i))
        BY <1>4, <2>1, <4>1, MulMonotone, PageAssumption DEF PageOffset
      <4> QED BY <1>4, <2>1, <3>1, <3>3, <4>2
    <3> QED BY <3>2, <3>3
  <2>3. i \in offset .. offset + n - 1 => PageOf(i) \in touched
    <3>1. ASSUME i \in offset .. offset + n - 1 PROVE PageOf(i) \in touched
      <4>1. offset <= i /\ i <= offset + n - 1
        BY <2>1, <3>1
      <4>2. PageOf(offset) <= PageOf(i) /\ PageOf(i) <= PageOf(offset + n - 1)
        BY <1>3, <2>1, <4>1, PageMonotone
      <4> QED BY <1>3, <2>1, <4>2 DEF PagesOf
    <3> QED BY <3>1
  <2>4. (i \in offset .. offset + n - 1 /\ i < PageOffset(bad)) <=> i \in offset .. offset + m - 1
    BY <1>4, <1>5, <2>1
  <2>5. i \in offset .. offset + m - 1 => i - offset + 1 \in 1 .. n
    BY <1>4, <1>5, <2>1
  <2> HIDE DEF touched, m
  <2> QED BY <1>6, <2>2, <2>3, <2>4, <2>5
<1>8. written = [i \in Offsets |-> IF i \in offset .. offset + m - 1 THEN data[i - offset + 1] ELSE fl[i]]
  BY <1>2 DEF HostWrite
<1> HIDE DEF new, written, touched, m
<1>9. \A i \in Offsets : Seen(new, image, i) = written[i]
  BY <1>1, <1>2, <1>7, <1>8
<1>10. Image(written) /\ Image(image)
  BY HostWriteImage DEF Contents, written
<1>11. View(new, image) = written
  BY <1>9, <1>10, ViewSeen DEF Image
<1> QED BY <1>1, <1>10, <1>11 DEF Contents, new, written, m
-----------------------------------------------------------------------------
(* The targets.                                                            *)

\* A plan that moves bytes of a medium moves bytes it has.
WithinMedium(plan, size) ==
    plan.offset \in Nat /\ plan.bytes \in Nat /\ plan.offset + plan.bytes <= size

DiskPlan(plan) ==
    \/ plan.plan = "complete"
    \/ plan.plan \in {"read", "write"} /\ WithinMedium(plan, ImageSize)

DrivePlan(plan, size) ==
    \/ plan.plan = "complete"
    \/ plan.plan = "receive" /\ plan.bytes \in Nat
    \/ plan.plan = "read" /\ WithinMedium(plan, size)

DiskGood(r) == DiskOK(r.target) /\ DiskPlan(r.plan)

\* A command leaves the medium and a pending unit attention alone.
DriveGood(d, sl, r) ==
    /\ DriveOK(r.target, sl) /\ r.target.attention = d.attention
    /\ DrivePlan(r.plan, Bytes(sl))

\* (a + b) blocks of k bytes that fit into c blocks fit into their bytes.
LEMMA BlocksFit ==
    \A a, b, c, k \in Nat :
        a + b <= c => /\ a * k \in Nat /\ b * k \in Nat /\ c * k \in Nat
                      /\ a * k + b * k <= c * k
<1>1. SUFFICES ASSUME NEW a \in Nat, NEW b \in Nat, NEW c \in Nat, NEW k \in Nat, a + b <= c
               PROVE  /\ a * k \in Nat /\ b * k \in Nat /\ c * k \in Nat
                      /\ a * k + b * k <= c * k
  OBVIOUS
<1>2. (a + b) * k <= c * k
  BY <1>1, MulMonotone
<1>3. (a + b) * k = a * k + b * k
  OBVIOUS
<1> QED BY <1>2, <1>3

LEMMA ExactBlocks ==
    \A m \in Nat, k \in Nat \ {0} : m % k = 0 => m = (m \div k) * k /\ m \div k \in Nat
BY DivMod

LEMMA CdbFields ==
    \A cdb \in DiskCdbs \cup DriveCdbs :
        /\ cdb.lba \in Nat /\ cdb.count \in Nat /\ cdb.flag \in BOOLEAN
        /\ Blocks(cdb) \in Nat
BY MediaAssumption, TargetConstants DEF Blocks

LEMMA DiskChecks ==
    ASSUME NEW d, DiskOK(d), NEW s \in SenseCodes
    PROVE  DiskGood(Check(d, s)) /\ DiskOK([d EXCEPT !.sense = s])
<1>1. [d EXCEPT !.sense = s] \in Disks /\ [d EXCEPT !.sense = s].blocks = d.blocks
  BY DEF DiskOK, Disks
<1> QED BY <1>1 DEF DiskOK, DiskGood, DiskPlan, Check, Returns, Complete

LEMMA DiskCompletes ==
    ASSUME NEW d, DiskOK(d), NEW data
    PROVE  DiskGood(Returns(d, CompleteGood(data)))
BY DEF DiskGood, DiskPlan, Returns, CompleteGood, Complete

LEMMA DiskMoves ==
    ASSUME NEW d, DiskOK(d), NEW cdb \in DiskCdbs
    PROVE  DiskGood(DiskReadBlocks(d, cdb)) /\ DiskGood(DiskWriteBlocks(d, cdb))
<1>1. cdb.lba \in Nat /\ Blocks(cdb) \in Nat /\ SmallBlock \in Nat /\ d.blocks \in Nat
  BY CdbFields, TargetConstants DEF DiskOK, Disks
<1>2. DiskGood(Check(d, "not ready")) /\ DiskGood(Check(d, "out of range"))
      /\ DiskGood(Returns(d, CompleteGood(<<>>)))
  <2>1. "not ready" \in SenseCodes /\ "out of range" \in SenseCodes
    BY DEF SenseCodes
  <2> QED BY <2>1, DiskChecks, DiskCompletes
<1>3. ASSUME cdb.lba + Blocks(cdb) <= d.blocks
      PROVE  /\ DiskGood(Returns(d, ReadStorage(cdb.lba * SmallBlock, Blocks(cdb) * SmallBlock)))
             /\ DiskGood(Returns(d, WriteStorage(cdb.lba * SmallBlock, Blocks(cdb) * SmallBlock)))
  <2>1. /\ cdb.lba * SmallBlock \in Nat /\ Blocks(cdb) * SmallBlock \in Nat
        /\ cdb.lba * SmallBlock + Blocks(cdb) * SmallBlock <= ImageSize
    BY <1>1, <1>3, BlocksFit DEF DiskOK
  <2> QED BY <2>1 DEF DiskGood, DiskPlan, WithinMedium, Returns, ReadStorage, WriteStorage
<1>4. cdb.lba + Blocks(cdb) > d.blocks \/ cdb.lba + Blocks(cdb) <= d.blocks
  BY <1>1
<1> QED BY <1>2, <1>3, <1>4 DEF DiskReadBlocks, DiskWriteBlocks, DiskTransfer

LEMMA DiskExecutes ==
    ASSUME NEW d, DiskOK(d), NEW cdb \in DiskCdbs
    PROVE  DiskGood(DiskExecute(d, cdb))
<1>1. /\ "none" \in SenseCodes /\ "unsupported opcode" \in SenseCodes
      /\ "invalid field" \in SenseCodes /\ "not ready" \in SenseCodes
  BY DEF SenseCodes
<1>2. /\ DiskGood(Check(d, "unsupported opcode")) /\ DiskGood(Check(d, "invalid field"))
      /\ DiskGood(Check(d, "not ready")) /\ DiskOK([d EXCEPT !.sense = "none"])
  BY <1>1, DiskChecks
<1>3. \A data : DiskGood(Returns(d, CompleteGood(data)))
  BY DiskCompletes
<1>4. DiskGood(RequestSense(d, cdb))
  BY <1>2, DiskCompletes DEF RequestSense
<1>5. DiskGood(DiskStartStop(d, cdb))
  <2>1. [d EXCEPT !.ready = cdb.flag] \in Disks /\ [d EXCEPT !.ready = cdb.flag].blocks = d.blocks
    BY CdbFields DEF DiskOK, Disks
  <2>2. DiskOK([d EXCEPT !.ready = cdb.flag])
    BY <2>1 DEF DiskOK
  <2> QED BY <2>2, DiskCompletes DEF DiskStartStop
<1>6. /\ DiskGood(DiskTestUnitReady(d)) /\ DiskGood(DiskInquiry(d, cdb))
      /\ DiskGood(DiskModeSense(d, cdb)) /\ DiskGood(DiskReadCapacity(d))
      /\ DiskGood(DiskReadDefectData(d, cdb))
  BY <1>2, <1>3 DEF DiskTestUnitReady, DiskInquiry, DiskModeSense, DiskReadCapacity,
                    DiskReadDefectData
<1>7. DiskGood(DiskReadBlocks(d, cdb)) /\ DiskGood(DiskWriteBlocks(d, cdb))
  BY DiskMoves
<1>8. cdb.whole \in BOOLEAN
  BY MediaAssumption
<1> QED BY <1>2, <1>4, <1>5, <1>6, <1>7, <1>8 DEF DiskExecute, DiskOpcodes

LEMMA DriveChecks ==
    ASSUME NEW d, NEW sl, DriveOK(d, sl), NEW s \in SenseCodes
    PROVE  /\ DriveGood(d, sl, Check(d, s))
           /\ DriveOK([d EXCEPT !.sense = s], sl) /\ [d EXCEPT !.sense = s].attention = d.attention
<1>1. /\ [d EXCEPT !.sense = s] \in Drives /\ [d EXCEPT !.sense = s].medium = d.medium
      /\ [d EXCEPT !.sense = s].block = d.block /\ [d EXCEPT !.sense = s].attention = d.attention
  BY DEF DriveOK, Drives
<1> QED BY <1>1 DEF DriveOK, DriveGood, DrivePlan, Check, Returns, Complete

LEMMA DriveCompletes ==
    ASSUME NEW d, NEW sl, NEW e, DriveOK(e, sl), e.attention = d.attention, NEW data
    PROVE  DriveGood(d, sl, Returns(e, CompleteGood(data)))
BY DEF DriveGood, DrivePlan, Returns, CompleteGood, Complete

\* The flags a command sets.
LEMMA DriveFlags ==
    ASSUME NEW d, NEW sl, DriveOK(d, sl), NEW flag \in BOOLEAN
    PROVE  /\ DriveOK([d EXCEPT !.started = flag], sl)
           /\ DriveOK([d EXCEPT !.prevented = flag], sl)
           /\ DriveOK([d EXCEPT !.attention = flag], sl)
           /\ [d EXCEPT !.started = flag].attention = d.attention
           /\ [d EXCEPT !.prevented = flag].attention = d.attention
           /\ [d EXCEPT !.attention = flag].attention = flag
<1>1. /\ [d EXCEPT !.started = flag] \in Drives /\ [d EXCEPT !.started = flag].medium = d.medium
      /\ [d EXCEPT !.started = flag].block = d.block /\ [d EXCEPT !.started = flag].attention = d.attention
  BY DEF DriveOK, Drives
<1>2. /\ [d EXCEPT !.prevented = flag] \in Drives /\ [d EXCEPT !.prevented = flag].medium = d.medium
      /\ [d EXCEPT !.prevented = flag].block = d.block /\ [d EXCEPT !.prevented = flag].attention = d.attention
  BY DEF DriveOK, Drives
<1>3. /\ [d EXCEPT !.attention = flag] \in Drives /\ [d EXCEPT !.attention = flag].medium = d.medium
      /\ [d EXCEPT !.attention = flag].block = d.block /\ [d EXCEPT !.attention = flag].attention = flag
  BY DEF DriveOK, Drives
<1> QED BY <1>1, <1>2, <1>3 DEF DriveOK

LEMMA DriveReads ==
    ASSUME NEW d, NEW sl, DriveOK(d, sl), NEW cdb \in DriveCdbs
    PROVE  DriveGood(d, sl, DriveReadBlocks(d, cdb))
<1>1. /\ cdb.lba \in Nat /\ Blocks(cdb) \in Nat /\ d.block \in Nat \ {0}
      /\ d.medium \in Nat /\ d.medium % d.block = 0 /\ d.medium = Bytes(sl)
  <2>1. d.block \in Nat \ {0}
    BY TargetConstants DEF DriveOK, Drives, SupportedBlocks
  <2>2. d.medium \in Nat
    BY TargetConstants DEF DriveOK, Drives
  <2> QED BY <2>1, <2>2, CdbFields DEF DriveOK, Divides
<1>2. d.medium = (d.medium \div d.block) * d.block /\ d.medium \div d.block \in Nat
  BY <1>1, ExactBlocks
<1>3. /\ DriveGood(d, sl, Check(d, "no medium")) /\ DriveGood(d, sl, Check(d, "not ready"))
      /\ DriveGood(d, sl, Check(d, "out of range"))
      /\ DriveGood(d, sl, Returns(d, CompleteGood(<<>>)))
  <2>1. "no medium" \in SenseCodes /\ "not ready" \in SenseCodes /\ "out of range" \in SenseCodes
    BY DEF SenseCodes
  <2> QED BY <2>1, DriveChecks, DriveCompletes
<1>4. ASSUME cdb.lba + Blocks(cdb) <= d.medium \div d.block
      PROVE  DriveGood(d, sl, Returns(d, ReadStorage(cdb.lba * d.block, Blocks(cdb) * d.block)))
  <2>1. /\ cdb.lba * d.block \in Nat /\ Blocks(cdb) * d.block \in Nat
        /\ cdb.lba * d.block + Blocks(cdb) * d.block <= Bytes(sl)
    <3> DEFINE a == cdb.lba
               b == Blocks(cdb)
               c == d.medium \div d.block
               k == d.block
    <3>1. a \in Nat /\ b \in Nat /\ c \in Nat /\ k \in Nat /\ a + b <= c /\ c * k = Bytes(sl)
      BY <1>1, <1>2, <1>4
    <3> HIDE DEF a, b, c, k
    <3>2. a * k \in Nat /\ b * k \in Nat /\ a * k + b * k <= Bytes(sl)
      BY <3>1, BlocksFit
    <3> QED BY <3>2 DEF a, b, k
  <2> QED BY <2>1 DEF DriveGood, DrivePlan, WithinMedium, Returns, ReadStorage
<1>5. cdb.lba + Blocks(cdb) > d.medium \div d.block \/ cdb.lba + Blocks(cdb) <= d.medium \div d.block
  BY <1>1, <1>2
<1> QED BY <1>3, <1>4, <1>5 DEF DriveReadBlocks, Ready

\* A command the drive carries out: only a read moves bytes of the medium.
LEMMA DriveCommands ==
    ASSUME NEW d, NEW sl, DriveOK(d, sl), NEW cdb \in DriveCdbs,
           DriveCommand(d, cdb).plan # EjectPlan
    PROVE  /\ DriveGood(d, sl, DriveCommand(d, cdb))
           /\ cdb.op \in {"inquiry", "sense"} => DriveCommand(d, cdb).plan.plan = "complete"
<1>1. \A s \in {"none", "unsupported opcode", "invalid field", "not ready", "no medium",
               "out of range", "removal prevented", "write protected"} : s \in SenseCodes
  BY DEF SenseCodes
<1>2. /\ DriveGood(d, sl, Check(d, "unsupported opcode")) /\ DriveGood(d, sl, Check(d, "invalid field"))
      /\ DriveGood(d, sl, Check(d, "not ready")) /\ DriveGood(d, sl, Check(d, "no medium"))
      /\ DriveGood(d, sl, Check(d, "out of range")) /\ DriveGood(d, sl, Check(d, "removal prevented"))
      /\ DriveGood(d, sl, Check(d, "write protected"))
      /\ DriveOK([d EXCEPT !.sense = "none"], sl) /\ [d EXCEPT !.sense = "none"].attention = d.attention
  BY <1>1, DriveChecks
<1>3. \A data : DriveGood(d, sl, Returns(d, CompleteGood(data)))
  BY DriveCompletes
<1>4. DriveGood(d, sl, RequestSense(d, cdb))
  BY <1>2, DriveCompletes DEF RequestSense
<1>5. cdb.flag \in BOOLEAN /\ cdb.count \in Nat /\ cdb.whole \in BOOLEAN
  BY MediaAssumption
<1>6. DriveGood(d, sl, Returns([d EXCEPT !.started = cdb.flag], CompleteGood(<<>>)))
      /\ DriveGood(d, sl, DrivePreventAllow(d, cdb))
  <2>1. /\ DriveOK([d EXCEPT !.started = cdb.flag], sl)
        /\ [d EXCEPT !.started = cdb.flag].attention = d.attention
        /\ DriveOK([d EXCEPT !.prevented = cdb.flag], sl)
        /\ [d EXCEPT !.prevented = cdb.flag].attention = d.attention
    <3>1. \A flag \in BOOLEAN : /\ DriveOK([d EXCEPT !.started = flag], sl)
                               /\ [d EXCEPT !.started = flag].attention = d.attention
                               /\ DriveOK([d EXCEPT !.prevented = flag], sl)
                               /\ [d EXCEPT !.prevented = flag].attention = d.attention
      BY DriveFlags
    <3> QED BY <1>5, <3>1, Zenon
  <2>2. DriveGood(d, sl, Returns([d EXCEPT !.started = cdb.flag], CompleteGood(<<>>)))
    BY <2>1, DriveCompletes
  <2>3. DriveGood(d, sl, Returns([d EXCEPT !.prevented = cdb.flag], CompleteGood(<<>>)))
    BY <2>1, DriveCompletes
  <2> QED BY <1>2, <2>2, <2>3 DEF DrivePreventAllow
<1>7. RequestEjection(d).plan # EjectPlan => DriveGood(d, sl, RequestEjection(d))
  <2>1. Returns(d, EjectPlan).plan = EjectPlan
    BY DEF Returns
  <2> QED BY <2>1, <1>2, <1>3 DEF RequestEjection
<1>8. DriveStartStop(d, cdb).plan # EjectPlan => DriveGood(d, sl, DriveStartStop(d, cdb))
  BY <1>6, <1>7 DEF DriveStartStop
<1>9. DriveGood(d, sl, DriveModeSelect(d, cdb))
  <2>1. DriveGood(d, sl, Returns(d, ReceiveDataOut(cdb.count)))
    BY <1>5 DEF DriveGood, DrivePlan, Returns, ReceiveDataOut
  <2> QED BY <1>2, <2>1 DEF DriveModeSelect
<1>10. /\ DriveGood(d, sl, DriveTestUnitReady(d)) /\ DriveGood(d, sl, DriveInquiry(d, cdb))
       /\ DriveGood(d, sl, DriveModeSense(d, cdb)) /\ DriveGood(d, sl, DriveReadCapacity(d))
       /\ DriveGood(d, sl, DriveReadToc(d, cdb))
  BY <1>2, <1>3 DEF DriveTestUnitReady, DriveInquiry, DriveModeSense, DriveReadCapacity,
                    DriveReadToc, Ready
<1>11. DriveGood(d, sl, DriveReadBlocks(d, cdb))
  BY DriveReads
<1>12. DriveGood(d, sl, DriveCommand(d, cdb))
  BY <1>2, <1>3, <1>4, <1>5, <1>6, <1>7, <1>8, <1>9, <1>10, <1>11 DEF DriveCommand, DriveOpcodes
<1>13. cdb.op \in {"inquiry", "sense"} => DriveCommand(d, cdb).plan.plan = "complete"
  <2>1. /\ Check(d, "invalid field").plan.plan = "complete"
        /\ RequestSense(d, cdb).plan.plan = "complete" /\ DriveInquiry(d, cdb).plan.plan = "complete"
    BY DEF Check, RequestSense, DriveInquiry, Returns, CompleteGood, Complete
  <2> QED BY <1>5, <2>1 DEF DriveCommand, DriveOpcodes
<1> QED BY <1>12, <1>13

\* A pending unit attention is reported by the command that clears it, and no
\* byte of the medium moves before.
LEMMA DriveExecutes ==
    ASSUME NEW d, NEW sl, DriveOK(d, sl), NEW cdb \in DriveCdbs,
           DriveExecute(d, cdb).plan # EjectPlan
    PROVE  LET r == DriveExecute(d, cdb) IN
           /\ DriveOK(r.target, sl) /\ DrivePlan(r.plan, Bytes(sl))
           /\ \/ r.target.attention = d.attention
              \/ /\ d.attention /\ ~r.target.attention
                 /\ r.plan.plan = "complete" /\ r.plan.status = "check"
           /\ r.plan.plan = "read" => ~d.attention
<1>1. SUFFICES ASSUME NEW r, r = DriveExecute(d, cdb)
               PROVE  /\ DriveOK(r.target, sl) /\ DrivePlan(r.plan, Bytes(sl))
                      /\ \/ r.target.attention = d.attention
                         \/ /\ d.attention /\ ~r.target.attention
                            /\ r.plan.plan = "complete" /\ r.plan.status = "check"
                      /\ r.plan.plan = "read" => ~d.attention
  OBVIOUS
<1>2. d.attention \in BOOLEAN
  BY DEF DriveOK, Drives
<1>3. CASE d.attention /\ cdb.op \notin {"inquiry", "sense"}
  <2> DEFINE e == [d EXCEPT !.attention = FALSE]
  <2>1. DriveOK(e, sl) /\ e.attention = FALSE
    BY DriveFlags
  <2>2. r = Check(e, "medium changed")
    BY <1>1, <1>3 DEF DriveExecute
  <2> HIDE DEF e
  <2>3. "medium changed" \in SenseCodes
    BY DEF SenseCodes
  <2>4. DriveGood(e, sl, r)
    BY <2>1, <2>2, <2>3, DriveChecks
  <2>5. r.plan.plan = "complete" /\ r.plan.status = "check"
    BY <2>2 DEF Check, Returns, Complete
  <2> QED BY <1>3, <2>1, <2>4, <2>5 DEF DriveGood
<1>4. CASE ~ (d.attention /\ cdb.op \notin {"inquiry", "sense"})
  <2>1. r = DriveCommand(d, cdb)
    BY <1>1, <1>4 DEF DriveExecute
  <2>2. DriveGood(d, sl, r) /\ (cdb.op \in {"inquiry", "sense"} => r.plan.plan = "complete")
    BY <1>1, <2>1, DriveCommands
  <2> QED BY <1>2, <1>4, <2>2 DEF DriveGood
<1> QED BY <1>3, <1>4
\* The end of a transfer keeps the medium and a pending unit attention.
LEMMA DiskEnds ==
    ASSUME NEW d, DiskOK(d)
    PROVE  DiskOK(CompleteStorage(d, FALSE).target)
<1>1. "host error" \in SenseCodes
  BY DEF SenseCodes
<1> QED BY <1>1, DiskChecks DEF CompleteStorage

LEMMA DriveEnds ==
    ASSUME NEW d, NEW sl, DriveOK(d, sl)
    PROVE  LET e == CompleteStorage(d, FALSE).target
           IN  DriveOK(e, sl) /\ e.attention = d.attention
<1>1. "host error" \in SenseCodes
  BY DEF SenseCodes
<1> QED BY <1>1, DriveChecks DEF CompleteStorage

LEMMA ModeSelected ==
    ASSUME NEW d, NEW sl, DriveOK(d, sl), NEW p
    PROVE  LET e == CompleteModeSelect(d, p).target
           IN  DriveOK(e, sl) /\ e.attention = d.attention
<1>1. "invalid parameters" \in SenseCodes
  BY DEF SenseCodes
<1>2. CASE \/ p \notin SupportedBlocks
           \/ d.medium # 0 /\ ~Divides(p, d.medium)
  BY <1>1, <1>2, DriveChecks DEF CompleteModeSelect
<1>3. CASE ~ \/ p \notin SupportedBlocks
             \/ d.medium # 0 /\ ~Divides(p, d.medium)
  <2>1. CompleteModeSelect(d, p).target = [d EXCEPT !.block = p]
    BY <1>3 DEF CompleteModeSelect
  <2>2. /\ [d EXCEPT !.block = p] \in Drives /\ [d EXCEPT !.block = p].medium = d.medium
        /\ [d EXCEPT !.block = p].block = p /\ [d EXCEPT !.block = p].attention = d.attention
    BY <1>3 DEF DriveOK, Drives
  <2>3. Divides(p, Bytes(sl))
    BY <1>3, SlotBytes DEF DriveOK
  <2> QED BY <2>1, <2>2, <2>3 DEF DriveOK
<1> QED BY <1>2, <1>3

-----------------------------------------------------------------------------
(* The bus.                                                                *)

LEMMA BusFree ==
    ASSUME NEW medium
    PROVE  BusFits(FreeBus, medium) /\ FreeBus.target = "none" /\ FreeBus.txn.kind = "none"
BY DEF BusFits, Buses, Transfers, Kinds, FreeBus, NoTransfer, NoTarget

LEMMA BusDone ==
    ASSUME bus \in Buses, NEW medium
    PROVE  BusFits(Done, medium) /\ Done.target = bus.target /\ Done.txn.kind = "none"
<1>1. NoTransfer \in Transfers /\ NoTransfer.kind = "none"
  BY DEF NoTransfer, Transfers, Kinds
<1>2. Done \in Buses /\ Done.target = bus.target /\ Done.txn = NoTransfer
  BY <1>1 DEF Done, Buses
<1> QED BY <1>1, <1>2 DEF BusFits

LEMMA BusBegins ==
    ASSUME bus \in Buses, NEW kind \in Kinds, NEW offset \in Nat, NEW bytes \in Nat
    PROVE  LET b == Begin(kind, offset, bytes)
           IN  /\ b \in Buses /\ b.target = bus.target /\ b.txn.kind = kind
               /\ b.txn.offset = offset /\ b.txn.remaining = bytes
<1> DEFINE txn == [kind |-> kind, offset |-> offset, remaining |-> bytes, list |-> 0]
           b == [bus EXCEPT !.txn = txn]
<1>1. txn \in Transfers /\ txn.kind = kind /\ txn.offset = offset /\ txn.remaining = bytes
  BY DEF Transfers
<1>2. Begin(kind, offset, bytes) = b
  BY DEF Begin
<1> HIDE DEF txn
<1>3. b \in Buses /\ b.target = bus.target /\ b.txn = txn
  BY <1>1 DEF Buses
<1> QED BY <1>1, <1>2, <1>3

LEMMA BusMoves ==
    ASSUME NEW medium \in Nat, BusFits(bus, medium), NEW n \in Nat, n <= bus.txn.remaining
    PROVE  /\ BusFits(Moved(n), medium) /\ Moved(n).target = bus.target
           /\ Moved(n).txn.kind \in {bus.txn.kind, "none"}
<1>1. bus \in Buses /\ bus.txn \in Transfers
  BY DEF BusFits, Buses
<1>2. CASE n = bus.txn.remaining
  BY <1>1, <1>2, BusDone DEF Moved
<1>3. CASE n # bus.txn.remaining
  <2> DEFINE b == [bus EXCEPT !.txn.offset = @ + n, !.txn.remaining = @ - n]
             txn == [bus.txn EXCEPT !.offset = @ + n, !.remaining = @ - n]
  <2>1. Moved(n) = b
    BY <1>3 DEF Moved
  <2>2. b \in Buses /\ b.target = bus.target /\ b.txn = txn
    <3>1. txn \in Transfers
      <4>1. bus.txn.offset \in Nat /\ bus.txn.remaining \in Nat
        BY <1>1 DEF Transfers
      <4>2. bus.txn.offset + n \in Nat /\ bus.txn.remaining - n \in Nat
        BY <4>1
      <4> QED BY <1>1, <4>2 DEF Transfers
    <3>2. b = [bus EXCEPT !.txn = txn]
      BY <1>1 DEF Buses, Transfers
    <3> HIDE DEF txn, b
    <3> QED BY <1>1, <3>1, <3>2 DEF Buses
  <2>3. /\ txn.kind = bus.txn.kind /\ txn.offset = bus.txn.offset + n
        /\ txn.remaining = bus.txn.remaining - n
    BY <1>1 DEF Transfers
  <2>4. txn.offset + txn.remaining = bus.txn.offset + bus.txn.remaining
    BY <1>1, <2>3 DEF Transfers
  <2> HIDE DEF b, txn
  <2> QED BY <1>1, <2>1, <2>2, <2>3, <2>4 DEF BusFits
<1> QED BY <1>2, <1>3

LEMMA ChunkFits ==
    ASSUME bus \in Buses, NEW n \in Chunks
    PROVE  n \in Nat \ {0} /\ n <= bus.txn.remaining
<1>1. bus.txn.remaining \in Nat
  BY DEF Buses, Transfers
<1> QED BY <1>1, MediaAssumption DEF Chunks

\* The disk begins what its plan says.
LEMMA DiskStarts ==
    ASSUME NEW medium, bus \in Buses, bus.target = "disk", NEW r, DiskGood(r)
    PROVE  LET s == Start(r, ImageSize)
           IN  DiskOK(s.target) /\ BusFits(s.bus, medium) /\ s.bus.target = "disk"
<1>1. SUFFICES ASSUME NEW s, s = Start(r, ImageSize)
               PROVE  DiskOK(s.target) /\ BusFits(s.bus, medium) /\ s.bus.target = "disk"
  OBVIOUS
<1>2. CASE r.plan.plan = "complete"
  <2>1. s = [target |-> r.target,
             bus |-> IF r.plan.data = <<>> THEN Done ELSE Begin("immediate", 0, 1)]
    BY <1>1, <1>2 DEF Start
  <2>2. /\ Begin("immediate", 0, 1) \in Buses /\ Begin("immediate", 0, 1).target = "disk"
        /\ Begin("immediate", 0, 1).txn.kind = "immediate"
    BY BusBegins DEF Kinds
  <2> QED BY <2>1, <2>2, BusDone DEF DiskGood, BusFits
<1>3. CASE r.plan.plan \in {"read", "write"}
  <2>1. /\ r.plan.offset \in Nat /\ r.plan.bytes \in Nat
        /\ r.plan.offset + r.plan.bytes <= ImageSize
    BY <1>3 DEF DiskGood, DiskPlan, WithinMedium
  <2> DEFINE b == Begin(r.plan.plan, r.plan.offset, r.plan.bytes)
  <2>2. s = [target |-> r.target, bus |-> b]
    BY <1>1, <1>3, <2>1 DEF Start, StartsIn
  <2>3. /\ b \in Buses /\ b.target = "disk" /\ b.txn.kind = r.plan.plan
        /\ b.txn.offset = r.plan.offset /\ b.txn.remaining = r.plan.bytes
    BY <1>3, <2>1, BusBegins, SMTT(30) DEF Kinds
  <2> HIDE DEF b
  <2> QED BY <1>3, <2>1, <2>2, <2>3 DEF DiskGood, BusFits
<1> QED BY <1>2, <1>3 DEF DiskGood, DiskPlan

LEMMA DriveStarts ==
    ASSUME NEW sl, bus \in Buses, bus.target = "drive", NEW r,
           DriveOK(r.target, sl), DrivePlan(r.plan, Bytes(sl))
    PROVE  LET s == Start(r, Bytes(sl))
           IN  /\ DriveOK(s.target, sl) /\ s.target.attention = r.target.attention
               /\ BusFits(s.bus, Bytes(sl)) /\ s.bus.target = "drive"
               /\ s.bus.txn.kind = "read" => r.plan.plan = "read"
<1>1. SUFFICES ASSUME NEW s, s = Start(r, Bytes(sl))
               PROVE  /\ DriveOK(s.target, sl) /\ s.target.attention = r.target.attention
                      /\ BusFits(s.bus, Bytes(sl)) /\ s.bus.target = "drive"
                      /\ s.bus.txn.kind = "read" => r.plan.plan = "read"
  OBVIOUS
<1>2. CASE r.plan.plan = "complete"
  <2>1. s = [target |-> r.target,
             bus |-> IF r.plan.data = <<>> THEN Done ELSE Begin("immediate", 0, 1)]
    BY <1>1, <1>2 DEF Start
  <2>2. /\ Begin("immediate", 0, 1) \in Buses /\ Begin("immediate", 0, 1).target = "drive"
        /\ Begin("immediate", 0, 1).txn.kind = "immediate"
    BY BusBegins, SMTT(30) DEF Kinds
  <2> QED BY <2>1, <2>2, BusDone DEF BusFits
<1>3. CASE r.plan.plan = "receive"
  <2>1. r.plan.bytes \in Nat
    BY <1>3 DEF DrivePlan
  <2> DEFINE b == Begin("select", 0, r.plan.bytes)
             e == CompleteModeSelect(r.target, 0).target
  <2>2. s = IF r.plan.bytes = 0 THEN [target |-> e, bus |-> Done]
            ELSE [target |-> r.target, bus |-> b]
    BY <1>1, <1>3 DEF Start
  <2>3. b \in Buses /\ b.target = "drive" /\ b.txn.kind = "select"
    BY <2>1, BusBegins DEF Kinds
  <2>4. DriveOK(e, sl) /\ e.attention = r.target.attention
    BY ModeSelected
  <2> HIDE DEF b, e
  <2> QED BY <2>2, <2>3, <2>4, BusDone DEF BusFits
<1>4. CASE r.plan.plan = "read"
  <2>1. /\ r.plan.offset \in Nat /\ r.plan.bytes \in Nat
        /\ r.plan.offset + r.plan.bytes <= Bytes(sl)
    BY <1>4 DEF DrivePlan, WithinMedium
  <2> DEFINE b == Begin("read", r.plan.offset, r.plan.bytes)
  <2>2. s = [target |-> r.target, bus |-> b]
    BY <1>1, <1>4, <2>1 DEF Start, StartsIn
  <2>3. /\ b \in Buses /\ b.target = "drive" /\ b.txn.kind = "read"
        /\ b.txn.offset = r.plan.offset /\ b.txn.remaining = r.plan.bytes
    BY <2>1, BusBegins DEF Kinds
  <2> HIDE DEF b
  <2> QED BY <1>4, <2>1, <2>2, <2>3 DEF BusFits
<1> QED BY <1>2, <1>3, <1>4 DEF DrivePlan
-----------------------------------------------------------------------------
(* The drive's slot.                                                       *)

LEMMA Inserts ==
    ASSUME NEW d \in Drives, NEW disc, ValidSlot(disc), NEW origin
    PROVE  LET e == MediumInserted(d, Bytes(disc), origin)
           IN  DriveOK(e, disc) /\ (origin = "External" => e.attention)
                                /\ (origin # "External" => e.attention = d.attention)
<1> DEFINE told == d.attention \/ origin = "External"
           e == [d EXCEPT !.medium = Bytes(disc), !.started = TRUE, !.attention = told]
<1>1. MediumInserted(d, Bytes(disc), origin) = e
  BY DEF MediumInserted
<1>2. told \in BOOLEAN
  OBVIOUS
<1>3. (origin = "External" => told) /\ (origin # "External" => told = d.attention)
  BY DEF Drives
<1> HIDE DEF told
<1>4. Bytes(disc) \in 0 .. LbaLimit * SmallBlock
  BY SlotBytes
<1>5. /\ e \in Drives /\ e.medium = Bytes(disc) /\ e.block = d.block /\ e.attention = told
      /\ d.block \in SupportedBlocks
  BY <1>2, <1>4 DEF Drives
<1>6. Divides(d.block, Bytes(disc))
  BY <1>5, SlotBytes
<1> HIDE DEF e
<1> QED BY <1>1, <1>3, <1>5, <1>6 DEF DriveOK

LEMMA Removes ==
    ASSUME NEW d \in Drives, NEW origin
    PROVE  LET e == MediumRemoved(d, origin)
           IN  DriveOK(e, NoDisc) /\ (origin = "External" => e.attention)
                                  /\ (origin # "External" => e.attention = d.attention)
<1> DEFINE told == d.attention \/ origin = "External"
           e == [d EXCEPT !.medium = 0, !.started = FALSE, !.attention = told]
<1>1. MediumRemoved(d, origin) = e
  BY DEF MediumRemoved
<1>2. told \in BOOLEAN
  OBVIOUS
<1>3. (origin = "External" => told) /\ (origin # "External" => told = d.attention)
  BY DEF Drives
<1> HIDE DEF told
<1>4. ValidSlot(NoDisc) /\ Bytes(NoDisc) = 0
  BY ConfiguredValid DEF Bytes
<1>5. 0 \in 0 .. LbaLimit * SmallBlock
  BY <1>4, SlotBytes
<1>6. /\ e \in Drives /\ e.medium = 0 /\ e.block = d.block /\ e.attention = told
      /\ d.block \in SupportedBlocks
  BY <1>2, <1>5 DEF Drives
<1>7. Divides(d.block, 0)
  BY <1>4, <1>6, SlotBytes
<1> HIDE DEF e
<1> QED BY <1>1, <1>3, <1>4, <1>6, <1>7 DEF DriveOK

LEMMA ColdDrives ==
    ASSUME NEW disc, ValidSlot(disc)
    PROVE  DriveOK(ColdDrive(disc), disc)
<1>1. Bytes(disc) \in 0 .. LbaLimit * SmallBlock /\ 0 \in 0 .. LbaLimit * SmallBlock
  BY SlotBytes, ConfiguredValid DEF Bytes
<1>2. EmptyDrive \in Drives
  BY <1>1 DEF EmptyDrive, Drives, SupportedBlocks, SenseCodes
<1>3. NewDrive(Bytes(disc)) \in Drives
  BY <1>1, <1>2 DEF NewDrive, Drives
<1> QED BY <1>2, <1>3, Inserts, Removes DEF ColdDrive

\* The disk of an accepted image.
LEMMA ColdDisks ==
    ASSUME NEW image, Image(image)
    PROVE  DiskOK(NewDisk(SizeOf(image)))
<1>1. SizeOf(image) = ImageSize /\ ImageSize \in Nat \ {0}
  BY ImageSized, SizeIsNat
<1>2. ImageSize % SmallBlock = 0 /\ ImageSize \div SmallBlock <= LbaLimit
  BY DiskImageAccepted DEF DiskSizeValid, Divides, ImageSize
<1>3. SmallBlock \in Nat \ {0} /\ LbaLimit \in Nat
  BY TargetConstants
<1> DEFINE k == ImageSize \div SmallBlock
<1>4. ImageSize = k * SmallBlock /\ k \in Nat
  BY <1>1, <1>2, <1>3, ExactBlocks
<1>5. k <= LbaLimit
  BY <1>2
<1> HIDE DEF k
<1>6. k # 0
  BY <1>1, <1>3, <1>4
<1>7. k \in 1 .. LbaLimit
  BY <1>3, <1>4, <1>5, <1>6
<1>8. NewDisk(SizeOf(image)) = [blocks |-> k, ready |-> TRUE, sense |-> "none"]
  BY <1>1 DEF NewDisk, k
<1> QED BY <1>4, <1>7, <1>8 DEF DiskOK, Disks, SenseCodes

LEMMA ColdMachines ==
    ASSUME NEW disc, ValidSlot(disc), Image(base), ColdMachine(disc)
    PROVE  MachineOK(disk, drive, slot, bus, aware)'
<1>1. DiskOK(disk')
  BY ColdDisks DEF ColdMachine, ColdDisk
<1>2. DriveOK(drive', slot')
  BY ColdDrives DEF ColdMachine
<1>3. BusFits(bus', Bytes(slot)') /\ bus'.target = "none"
  BY BusFree DEF ColdMachine
<1>4. Told(drive', slot', aware', bus')
  BY <1>3 DEF ColdMachine, Told, ValidSlot
<1> QED BY <1>1, <1>2, <1>3, <1>4 DEF MachineOK
-----------------------------------------------------------------------------
(* The steps.  Two lemmas say what is left to show for a step that         *)
(* installs no machine.                                                    *)

\* The disk's bytes change, the session does not.
LEMMA ContentsStep ==
    ASSUME Inv, MachineOK(disk, drive, slot, bus, aware)',
           UNCHANGED <<mode, generation, recorded, snapshot>>,
           overlay' = [pages |-> overlay'.pages, failed |-> overlay'.failed],
           Contents(Pages', base', flat'),
           Overlaid => base' = base,
           ~Overlaid \/ slot' \in {slot, NoDisc}
    PROVE  Inv'
<1>1. Overlaid' = Overlaid
  BY DEF Overlaid
<1>2. RecordOK'
  BY <1>1 DEF Inv, RecordOK
<1>3. SnapshotOK'
  BY DEF Inv, SnapshotOK
<1> QED BY <1>2, <1>3 DEF Inv

\* Neither changes.
LEMMA MachineStep ==
    ASSUME Inv, MachineOK(disk, drive, slot, bus, aware)',
           UNCHANGED <<mode, generation, recorded, snapshot, overlay, base, flat>>,
           ~Overlaid \/ slot' \in {slot, NoDisc}
    PROVE  Inv'
<1>1. Pages' = Pages
  BY DEF Pages, Overlaid
<1> QED BY <1>1, ContentsStep DEF Inv

\* The parts of the invariant about the machine.
LEMMA MachineParts ==
    ASSUME Inv
    PROVE  /\ DiskOK(disk) /\ DriveOK(drive, slot) /\ BusFits(bus, Bytes(slot))
           /\ Told(drive, slot, aware, bus) /\ bus \in Buses /\ drive \in Drives
           /\ Bytes(slot) \in Nat /\ ValidSlot(slot) /\ Image(base)
           /\ drive.attention \in BOOLEAN
<1>1. DriveOK(drive, slot) /\ BusFits(bus, Bytes(slot))
  BY DEF Inv, MachineOK
<1>2. Bytes(slot) \in Nat
  BY <1>1, SlotBytes, TargetConstants DEF DriveOK
<1>3. drive.attention \in BOOLEAN
  BY <1>1 DEF DriveOK, Drives
<1> QED BY <1>1, <1>2, <1>3 DEF Inv, MachineOK, BusFits, DriveOK, Contents

\* A step of the bus alone that begins no transfer.
LEMMA BusStep ==
    ASSUME Inv, UNCHANGED <<mode, generation, recorded, snapshot, overlay, base, flat,
                            disk, drive, slot, aware>>,
           BusFits(bus', Bytes(slot)),
           bus'.target = "drive" /\ bus'.txn.kind = "read" =>
               bus.target = "drive" /\ bus.txn.kind = "read"
    PROVE  Inv'
<1>1. MachineOK(disk, drive, slot, bus, aware)'
  BY MachineParts DEF MachineOK, Told
<1> QED BY <1>1, MachineStep

LEMMA InstallNormalInv ==
    ASSUME Inv, NEW disc, ValidSlot(disc), InstallNormal(disc)
    PROVE  Inv'
<1>1. Image(base) /\ ~Overlaid'
  BY MachineParts DEF InstallNormal, Overlaid
<1>2. MachineOK(disk, drive, slot, bus, aware)'
  BY <1>1, ColdMachines DEF InstallNormal
<1>3. Contents(NoPages, base, base)
  BY <1>1, NoPagesView
<1>4. Contents(Pages', base', flat')
  BY <1>1, <1>3 DEF InstallNormal, Pages
<1>5. RecordOK' /\ SnapshotOK'
  BY <1>1 DEF Inv, RecordOK, SnapshotOK, InstallNormal
<1>6. generation' \in 1 .. MaxGeneration
  BY MediaAssumption DEF Inv, InstallNormal, Installable
<1>7. overlay' = [pages |-> overlay'.pages, failed |-> overlay'.failed]
  BY DEF InstallNormal, NoOverlay
<1> QED BY <1>2, <1>4, <1>5, <1>6, <1>7 DEF Inv

LEMMA InstallRecordingInv ==
    ASSUME Inv, NEW disc, ValidSlot(disc), InstallRecording(disc)
    PROVE  Inv'
<1>1. Image(base) /\ Overlaid'
  BY MachineParts DEF InstallRecording, Overlaid
<1>2. MachineOK(disk, drive, slot, bus, aware)'
  BY <1>1, ColdMachines DEF InstallRecording
<1>3. Contents(NoPages, base, base)
  BY <1>1, NoPagesView
<1>4. Contents(Pages', base', flat')
  BY <1>1, <1>3 DEF InstallRecording, Pages, NoOverlay
<1>5. RecordOK'
  BY <1>1 DEF RecordOK, InstallRecording, ColdMachine
<1>6. SnapshotOK'
  BY DEF SnapshotOK, InstallRecording, NoSnapshot
<1>7. generation' \in 1 .. MaxGeneration
  BY MediaAssumption DEF Inv, InstallRecording, Installable
<1>8. overlay' = [pages |-> overlay'.pages, failed |-> overlay'.failed]
  BY DEF InstallRecording, NoOverlay
<1> QED BY <1>2, <1>4, <1>5, <1>6, <1>7, <1>8 DEF Inv

LEMMA InstallReplayInv ==
    ASSUME Inv, InstallReplay
    PROVE  Inv'
<1>1. Image(base) /\ Overlaid' /\ ValidSlot(recorded.disc)
  BY MachineParts DEF InstallReplay, Overlaid, Inv, RecordOK
<1>2. MachineOK(disk, drive, slot, bus, aware)'
  BY <1>1, ColdMachines DEF InstallReplay
<1>3. Contents(NoPages, base, base)
  BY <1>1, NoPagesView
<1>4. Contents(Pages', base', flat')
  BY <1>1, <1>3 DEF InstallReplay, Pages, NoOverlay
<1>5. RecordOK'
  BY DEF Inv, RecordOK, InstallReplay, ReplayInstallable, ColdMachine
<1>6. SnapshotOK'
  BY DEF Inv, SnapshotOK, InstallReplay
<1>7. generation' \in 1 .. MaxGeneration
  BY MediaAssumption DEF Inv, InstallReplay, ReplayInstallable, Installable
<1>8. overlay' = [pages |-> overlay'.pages, failed |-> overlay'.failed]
  BY DEF InstallReplay, NoOverlay
<1> QED BY <1>2, <1>4, <1>5, <1>6, <1>7, <1>8 DEF Inv

\* The medium a restored machine holds is the one the snapshot held: an empty
\* drive has no capacity, and a medium has one.
LEMMA SlotRestored ==
    ASSUME Inv, snapshot.taken
    PROVE  RestoredSlot(recorded.disc, snapshot) = snapshot.slot
<1>1. /\ DriveOK(snapshot.drive, snapshot.slot) /\ snapshot.slot \in {recorded.disc, NoDisc}
  BY DEF Inv, SnapshotOK, MachineOK
<1>2. snapshot.drive.medium = 0 <=> snapshot.slot = NoDisc
  BY <1>1, SlotBytes DEF DriveOK
<1> QED BY <1>1, <1>2 DEF RestoredSlot

LEMMA InstallSnapshotInv ==
    ASSUME Inv, InstallSnapshot
    PROVE  Inv'
<1>1. snapshot.taken /\ Overlaid' /\ base = recorded.image /\ snapshot' = snapshot
      /\ recorded' = recorded /\ base' = base
  BY DEF InstallSnapshot, ReplayInstallable, Overlaid
<1>2. slot' = snapshot.slot
  BY <1>1, SlotRestored DEF InstallSnapshot
<1>3. MachineOK(disk, drive, slot, bus, aware)'
  BY <1>1, <1>2 DEF Inv, SnapshotOK, InstallSnapshot
<1>4. Contents(Pages', base', flat')
  BY <1>1 DEF Inv, SnapshotOK, InstallSnapshot, Pages
<1>5. RecordOK' /\ SnapshotOK'
  BY <1>1, <1>2 DEF Inv, SnapshotOK, RecordOK
<1>6. generation' \in 1 .. MaxGeneration
  BY MediaAssumption DEF Inv, InstallSnapshot, ReplayInstallable, Installable
<1>7. overlay' = [pages |-> overlay'.pages, failed |-> overlay'.failed]
  BY DEF InstallSnapshot
<1> QED BY <1>3, <1>4, <1>5, <1>6, <1>7 DEF Inv

LEMMA TakeSnapshotInv ==
    ASSUME Inv, TakeSnapshot
    PROVE  Inv'
<1>1. Overlaid /\ Overlaid' /\ Pages' = Pages /\ Pages = overlay.pages
  BY DEF TakeSnapshot, Overlaid, Pages
<1>2. UNCHANGED <<generation, disk, drive, slot, bus, aware, base, overlay, recorded, flat>>
  BY DEF TakeSnapshot, machine
<1>3. MachineOK(disk, drive, slot, bus, aware)'
  BY <1>2 DEF Inv
<1>4. RecordOK'
  BY <1>1, <1>2 DEF Inv, RecordOK
<1>5. SnapshotOK'
  <2>1. base = recorded.image /\ slot \in {recorded.disc, NoDisc}
    BY <1>1 DEF Inv, RecordOK
  <2>2. Contents(overlay.pages, recorded.image, flat)
    BY <1>1, <2>1 DEF Inv
  <2>3. /\ snapshot'.disk = disk /\ snapshot'.drive = drive /\ snapshot'.slot = slot
        /\ snapshot'.bus = bus /\ snapshot'.aware = aware /\ snapshot'.pages = overlay.pages
        /\ snapshot'.flat = flat
    BY DEF TakeSnapshot
  <2> QED BY <1>2, <2>1, <2>2, <2>3 DEF SnapshotOK, Inv
<1> QED BY <1>1, <1>2, <1>3, <1>4, <1>5 DEF Inv

LEMMA ModeInv ==
    ASSUME Inv, FinishSession \/ NoticeFailure
    PROVE  Inv'
<1>1. UNCHANGED <<generation, disk, drive, slot, bus, aware, base, overlay, recorded, flat, snapshot>>
  BY DEF FinishSession, NoticeFailure, machine
<1>2. Overlaid /\ Overlaid'
  BY DEF FinishSession, NoticeFailure, Overlaid
<1>3. Pages' = Pages
  BY <1>1, <1>2 DEF Pages
<1>4. MachineOK(disk, drive, slot, bus, aware)'
  BY <1>1 DEF Inv
<1>5. RecordOK' /\ SnapshotOK'
  BY <1>1, <1>2 DEF Inv, RecordOK, SnapshotOK
<1> QED BY <1>1, <1>3, <1>4, <1>5 DEF Inv

LEMMA MenuInv ==
    ASSUME Inv, RebuildMediaMenu
    PROVE  Inv'
<1>1. UNCHANGED <<mode, generation, disk, drive, slot, bus, aware, base, overlay, recorded, flat, snapshot>>
  BY DEF RebuildMediaMenu, machine
<1>2. MachineOK(disk, drive, slot, bus, aware)'
  BY <1>1 DEF Inv
<1> QED BY <1>1, <1>2, MachineStep
-----------------------------------------------------------------------------
(* The host changes the medium.                                            *)

LEMMA InsertionAllowed ==
    ASSUME NEW key, NEW disc, NEW opens, InsertOutcome(key, disc, opens) = "changed"
    PROVE  mode = "Normal" /\ ~Busy /\ MediumSizeValid(Bytes(disc))
<1>1. RequireMediaChange(key) = "allowed" /\ MachineInserts(key, disc) = "changed"
  BY DEF InsertOutcome, ResolveMediaSlot, RequireMediaChange
<1>2. mode = "Normal"
  BY <1>1 DEF RequireMediaChange
<1>3. InsertMedium(disc) = "changed"
  BY <1>1 DEF MachineInserts, MachineMediaError
<1> QED BY <1>2, <1>3 DEF InsertMedium

LEMMA EjectionAllowed ==
    ASSUME NEW key, NEW force, EjectOutcome(key, force) = "changed"
    PROVE  mode = "Normal" /\ ~Busy
<1>1. RequireMediaChange(key) = "allowed" /\ MachineEjects(key, force) = "changed"
  BY DEF EjectOutcome, ResolveMediaSlot, RequireMediaChange
<1>2. mode = "Normal"
  BY <1>1 DEF RequireMediaChange
<1>3. EjectMedium(force) = "changed"
  BY <1>1 DEF MachineEjects, MachineMediaError
<1> QED BY <1>2, <1>3 DEF EjectMedium

\* The host changed the medium of a free bus: a unit attention is pending.
LEMMA ExchangeStep ==
    ASSUME Inv, UNCHANGED <<mode, generation, recorded, snapshot, overlay, base, flat,
                            disk, bus, aware>>,
           mode = "Normal", ~Busy, DriveOK(drive', slot'), drive'.attention
    PROVE  Inv'
<1>1. bus = FreeBus /\ ~Overlaid
  BY DEF Busy, Overlaid
<1>2. BusFits(bus', Bytes(slot)') /\ bus'.target = "none"
  BY <1>1, BusFree
<1>3. Told(drive', slot', aware', bus')
  BY <1>2, MachineParts DEF Told
<1>4. MachineOK(disk, drive, slot, bus, aware)'
  BY <1>2, <1>3, MachineParts DEF MachineOK
<1> QED BY <1>1, <1>4, MachineStep

LEMMA HostInsertsInv ==
    ASSUME Inv, NEW key, NEW disc \in Discs, NEW opens, HostInserts(key, disc, opens)
    PROVE  Inv'
<1>1. UNCHANGED <<mode, generation, disk, bus, base, overlay, recorded, snapshot, aware, flat>>
  BY DEF HostInserts, Chosen
<1>2. CASE InsertOutcome(key, disc, opens) = "changed"
  <2>1. mode = "Normal" /\ ~Busy /\ MediumSizeValid(Bytes(disc))
    BY <1>2, InsertionAllowed
  <2>2. slot' = disc /\ drive' = MediumInserted(drive, Bytes(disc), "External")
    BY <1>2 DEF HostInserts, InsertedByHost
  <2>3. ValidSlot(disc)
    BY <2>1 DEF ValidSlot, Slots
  <2>4. DriveOK(drive', slot') /\ drive'.attention
    BY <2>2, <2>3, Inserts, MachineParts
  <2> QED BY <1>1, <2>1, <2>4, ExchangeStep
<1>3. CASE InsertOutcome(key, disc, opens) # "changed"
  <2>1. UNCHANGED <<slot, drive>>
    BY <1>3 DEF HostInserts
  <2> QED BY <1>1, <2>1, BusStep, MachineParts
<1> QED BY <1>2, <1>3

LEMMA HostEjectsInv ==
    ASSUME Inv, NEW key, NEW offer, HostEjects(key, offer)
    PROVE  Inv'
<1>1. UNCHANGED <<mode, generation, disk, bus, base, overlay, recorded, snapshot, aware, flat>>
  BY DEF HostEjects, Chosen
<1>2. CASE EjectOutcome(key, offer = "force") = "changed"
  <2>1. mode = "Normal" /\ ~Busy
    BY <1>2, EjectionAllowed
  <2> DEFINE d == IF offer = "force" THEN ReleaseRemovalPrevention(drive) ELSE drive
  <2>2. slot' = NoDisc /\ drive' = MediumRemoved(d, "External")
    BY <1>2 DEF HostEjects
  <2>3. d \in Drives
    BY MachineParts DEF ReleaseRemovalPrevention, Drives
  <2> HIDE DEF d
  <2>4. DriveOK(drive', slot') /\ drive'.attention
    BY <2>2, <2>3, Removes
  <2> QED BY <1>1, <2>1, <2>4, ExchangeStep
<1>3. CASE EjectOutcome(key, offer = "force") # "changed"
  <2>1. UNCHANGED <<slot, drive>>
    BY <1>3 DEF HostEjects
  <2> QED BY <1>1, <2>1, BusStep, MachineParts
<1> QED BY <1>2, <1>3

-----------------------------------------------------------------------------
(* The guest.                                                              *)

LEMMA SelectInv ==
    ASSUME Inv, NEW target \in {"disk", "drive"}, Select(target)
    PROVE  Inv'
<1>1. /\ bus' = [FreeBus EXCEPT !.target = target]
      /\ UNCHANGED <<mode, generation, recorded, snapshot, overlay, base, flat, disk, drive, slot, aware>>
  BY DEF Select
<1>2. bus' \in Buses /\ bus'.txn.kind = "none"
  BY <1>1 DEF FreeBus, NoTransfer, NoTarget, Buses, Transfers, Kinds
<1>3. BusFits(bus', Bytes(slot))
  BY <1>2 DEF BusFits
<1> QED BY <1>1, <1>2, <1>3, BusStep

LEMMA FreedInv ==
    ASSUME Inv, Release \/ Cancel
    PROVE  Inv'
<1>1. /\ bus' = FreeBus
      /\ UNCHANGED <<mode, generation, recorded, snapshot, overlay, base, flat, disk, drive, slot, aware>>
  BY DEF Release, Cancel
<1>2. BusFits(bus', Bytes(slot)) /\ bus'.target = "none"
  BY <1>1, BusFree
<1> QED BY <1>1, <1>2, BusStep

LEMMA DiskCommandInv ==
    ASSUME Inv, NEW cdb \in DiskCdbs, DiskCommand(cdb)
    PROVE  Inv'
<1>1. /\ bus.target = "disk"
      /\ UNCHANGED <<mode, generation, recorded, snapshot, overlay, base, flat, drive, slot, aware>>
  BY DEF DiskCommand, CommandDue
<1>2. PICK s \in {Start(DiskExecute(disk, cdb), SizeOf(base))} : disk' = s.target /\ bus' = s.bus
  BY DEF DiskCommand
<1>3. SizeOf(base) = ImageSize
  BY MachineParts, ImageSized
<1>4. DiskGood(DiskExecute(disk, cdb))
  BY MachineParts, DiskExecutes
<1>5. DiskOK(disk') /\ BusFits(bus', Bytes(slot)) /\ bus'.target = "disk"
  BY <1>1, <1>2, <1>3, <1>4, MachineParts, DiskStarts
<1>6. Told(drive', slot', aware', bus')
  BY <1>1, <1>5, MachineParts DEF Told
<1>7. MachineOK(disk, drive, slot, bus, aware)'
  BY <1>1, <1>5, <1>6, MachineParts DEF MachineOK
<1> QED BY <1>1, <1>7, MachineStep

LEMMA DriveCommandInv ==
    ASSUME Inv, NEW cdb \in DriveCdbs, DriveCommandStep(cdb)
    PROVE  Inv'
<1>1. /\ bus.target = "drive"
      /\ UNCHANGED <<mode, generation, recorded, snapshot, overlay, base, flat, disk, slot>>
  BY DEF DriveCommandStep, CommandDue
<1>2. PICK r \in {DriveExecute(drive, cdb)} :
          /\ r.plan # EjectPlan
          /\ \E s \in {Start(r, Bytes(slot))} : drive' = s.target /\ bus' = s.bus
          /\ aware' = IF drive.attention /\ ~r.target.attention /\ r.plan.plan = "complete"
                         /\ r.plan.status = "check"
                      THEN slot ELSE aware
  BY DEF DriveCommandStep
<1>3. PICK s \in {Start(r, Bytes(slot))} : drive' = s.target /\ bus' = s.bus
  BY <1>2
<1>4. /\ DriveOK(r.target, slot) /\ DrivePlan(r.plan, Bytes(slot))
      /\ \/ r.target.attention = drive.attention
         \/ /\ drive.attention /\ ~r.target.attention
            /\ r.plan.plan = "complete" /\ r.plan.status = "check"
      /\ r.plan.plan = "read" => ~drive.attention
  BY <1>2, MachineParts, DriveExecutes
<1>5. /\ DriveOK(drive', slot) /\ drive'.attention = r.target.attention
      /\ BusFits(bus', Bytes(slot)) /\ bus'.target = "drive"
      /\ bus'.txn.kind = "read" => r.plan.plan = "read"
  BY <1>1, <1>3, <1>4, MachineParts, DriveStarts
<1>6. Told(drive', slot', aware', bus')
  <2>1. Told(drive, slot, aware, bus) /\ slot \in Slots /\ drive.attention \in BOOLEAN
    BY MachineParts DEF ValidSlot
  <2>2. aware' \in {aware, slot}
    BY <1>2
  <2>3. drive'.attention \/ aware' = slot
    BY <1>2, <1>4, <1>5, <2>1 DEF Told
  <2>4. bus'.txn.kind = "read" => aware' = slot
    BY <1>4, <1>5, <2>1, <2>2 DEF Told
  <2> QED BY <1>1, <2>1, <2>2, <2>3, <2>4 DEF Told
<1>7. MachineOK(disk, drive, slot, bus, aware)'
  BY <1>1, <1>5, <1>6, MachineParts DEF MachineOK
<1> QED BY <1>1, <1>7, MachineStep

LEMMA GuestEjectsInv ==
    ASSUME Inv, NEW cdb, GuestEjects(cdb)
    PROVE  Inv'
<1>1. /\ slot' = NoDisc /\ bus' = Done /\ aware' = NoDisc
      /\ drive' = IF slot = NoDisc THEN drive ELSE MediumRemoved(drive, "GuestCommand")
      /\ UNCHANGED <<mode, generation, recorded, snapshot, overlay, base, flat, disk>>
  BY DEF GuestEjects
<1>2. DriveOK(drive', slot')
  BY <1>1, MachineParts, Removes
<1>3. BusFits(bus', Bytes(slot)') /\ bus'.txn.kind = "none"
  BY <1>1, MachineParts, BusDone
<1>4. Told(drive', slot', aware', bus')
  BY <1>1, <1>3 DEF Told, Slots
<1>5. MachineOK(disk, drive, slot, bus, aware)'
  BY <1>1, <1>2, <1>3, <1>4, MachineParts DEF MachineOK
<1> QED BY <1>1, <1>5, MachineStep

LEMMA MoveInv ==
    ASSUME Inv, NEW n \in Chunks, MoveImmediate(n) \/ MoveIn(n)
    PROVE  Inv'
<1>1. /\ bus' = Moved(n)
      /\ UNCHANGED <<mode, generation, recorded, snapshot, overlay, base, flat, disk, drive, slot, aware>>
  BY DEF MoveImmediate, MoveIn
<1>2. n \in Nat /\ n <= bus.txn.remaining
  BY ChunkFits, MachineParts
<1>3. /\ BusFits(bus', Bytes(slot)) /\ bus'.target = bus.target
      /\ bus'.txn.kind \in {bus.txn.kind, "none"}
  BY <1>1, <1>2, BusMoves, MachineParts
<1> QED BY <1>1, <1>3, BusStep

LEMMA MoveParametersInv ==
    ASSUME Inv, NEW n \in Chunks, NEW p, MoveParameters(n, p)
    PROVE  Inv'
<1>1. /\ bus' = Moved(n) /\ bus.txn.kind = "select"
      /\ drive' = drive \/ drive' = CompleteModeSelect(drive, p).target
      /\ UNCHANGED <<mode, generation, recorded, snapshot, overlay, base, flat, disk, slot, aware>>
  BY DEF MoveParameters
<1>2. n \in Nat /\ n <= bus.txn.remaining
  BY ChunkFits, MachineParts
<1>3. /\ BusFits(bus', Bytes(slot)) /\ bus'.target = bus.target
      /\ bus'.txn.kind \in {"select", "none"}
  BY <1>1, <1>2, BusMoves, MachineParts
<1>4. DriveOK(drive', slot) /\ drive'.attention = drive.attention
  BY <1>1, MachineParts, ModeSelected
<1>5. Told(drive', slot', aware', bus')
  BY <1>1, <1>3, <1>4, MachineParts DEF Told
<1>6. MachineOK(disk, drive, slot, bus, aware)'
  BY <1>1, <1>3, <1>4, <1>5, MachineParts DEF MachineOK
<1> QED BY <1>1, <1>6, MachineStep

-----------------------------------------------------------------------------
(* Transfers of the disk's bytes, and their failures.                      *)

\* A failure of the storage leaves the machine as it has to be.
LEMMA FailedMachine ==
    ASSUME Inv, NEW target, StorageFails(target), UNCHANGED <<slot, aware>>
    PROVE  MachineOK(disk, drive, slot, bus, aware)'
<1>1. BusFits(bus', Bytes(slot)) /\ bus'.txn.kind = "none"
  BY MachineParts, BusDone DEF StorageFails
<1>2. DiskOK(disk')
  BY MachineParts, DiskEnds DEF StorageFails
<1>3. DriveOK(drive', slot) /\ drive'.attention = drive.attention
  BY MachineParts, DriveEnds DEF StorageFails
<1>4. Told(drive', slot', aware', bus')
  BY <1>1, <1>3, MachineParts DEF Told
<1> QED BY <1>1, <1>2, <1>3, <1>4 DEF MachineOK

LEMMA WriteRefusedInv ==
    ASSUME Inv, WriteRefused
    PROVE  Inv'
<1>1. UNCHANGED <<mode, generation, recorded, snapshot, overlay, base, flat, slot, aware>>
  BY DEF WriteRefused
<1>2. MachineOK(disk, drive, slot, bus, aware)'
  BY <1>1, FailedMachine DEF WriteRefused
<1> QED BY <1>1, <1>2, MachineStep

LEMMA ReadFailsInv ==
    ASSUME Inv, ReadFails
    PROVE  Inv'
<1>1. /\ UNCHANGED <<mode, generation, recorded, snapshot, base, flat, slot, aware>>
      /\ overlay' = [overlay EXCEPT !.failed = @ \/ (Overlaid /\ bus.target = "disk")]
  BY DEF ReadFails
<1>2. MachineOK(disk, drive, slot, bus, aware)'
  BY <1>1, FailedMachine DEF ReadFails
<1>3. /\ overlay'.pages = overlay.pages
      /\ overlay' = [pages |-> overlay'.pages, failed |-> overlay'.failed]
  BY <1>1 DEF Inv
<1>4. Pages' = Pages
  BY <1>1, <1>3 DEF Pages, Overlaid
<1>5. Contents(Pages', base', flat')
  BY <1>1, <1>4 DEF Inv
<1> QED BY <1>1, <1>2, <1>3, <1>5, ContentsStep

\* Where a write of the guest goes.
LEMMA WriteBounds ==
    ASSUME Inv, NEW n \in Chunks, bus.txn.kind = "write"
    PROVE  /\ n \in Nat \ {0} /\ n <= bus.txn.remaining /\ bus.txn.offset \in Nat
           /\ bus.txn.offset + n <= ImageSize
<1>1. n \in Nat \ {0} /\ n <= bus.txn.remaining
  BY ChunkFits, MachineParts
<1>2. bus.txn.offset \in Nat /\ bus.txn.remaining \in Nat
  BY MachineParts DEF Buses, Transfers
<1>3. bus.txn.offset + bus.txn.remaining <= ImageSize
  BY MachineParts DEF BusFits
<1> QED BY <1>1, <1>2, <1>3, SizeIsNat

\* A Normal session writes the host file.
LEMMA HostWritten ==
    ASSUME Inv, ~Overlaid, NEW offset, NEW data, NEW n
    PROVE  Contents(NoPages, HostWrite(base, offset, data, n), HostWrite(flat, offset, data, n))
<1>1. Image(base) /\ View(NoPages, base) = flat
  BY DEF Inv, Contents, Pages
<1>2. flat = base
  BY <1>1, NoPagesView DEF Contents
<1>3. Image(HostWrite(base, offset, data, n))
  BY <1>1, HostWriteImage
<1> QED BY <1>2, <1>3, NoPagesView

LEMMA MoveOutInv ==
    ASSUME Inv, NEW n \in Chunks, MoveOut(n)
    PROVE  Inv'
<1>1. /\ bus' = Moved(n) /\ bus.txn.kind = "write"
      /\ UNCHANGED <<mode, generation, disk, drive, slot, recorded, snapshot, aware>>
  BY DEF MoveOut
<1>2. PICK data \in {[i \in 1..n |-> GuestData]} :
          /\ IF Overlaid
             THEN /\ overlay' = [overlay EXCEPT !.pages =
                                    OverlayWrite(@, base, bus.txn.offset, data, -1)]
                  /\ UNCHANGED base
             ELSE /\ base' = HostWrite(base, bus.txn.offset, data, n)
                  /\ UNCHANGED overlay
          /\ flat' = HostWrite(flat, bus.txn.offset, data, n)
  BY DEF MoveOut
<1>3. /\ n \in Nat \ {0} /\ n <= bus.txn.remaining /\ bus.txn.offset \in Nat
      /\ bus.txn.offset + n <= ImageSize
  BY <1>1, WriteBounds
<1>4. /\ BusFits(bus', Bytes(slot)) /\ bus'.txn.kind \in {"write", "none"}
  BY <1>1, <1>3, BusMoves, MachineParts
<1>5. MachineOK(disk, drive, slot, bus, aware)'
  BY <1>1, <1>4, MachineParts DEF MachineOK, Told
<1>6. Overlaid' = Overlaid
  BY <1>1 DEF Overlaid
<1>7. CASE Overlaid
  <2>1. /\ overlay' = [pages |-> overlay'.pages, failed |-> overlay'.failed]
        /\ overlay'.pages = OverlayWrite(overlay.pages, base, bus.txn.offset, data, -1)
        /\ base' = base
    BY <1>2, <1>7 DEF Inv
  <2>2. Contents(overlay.pages, base, flat)
    BY <1>7 DEF Inv, Pages
  <2>3. Contents(overlay'.pages, base, flat')
    BY <1>2, <1>3, <2>1, <2>2, OverlayWritten
  <2>4. Contents(Pages', base', flat')
    BY <1>6, <1>7, <2>1, <2>3 DEF Pages
  <2> QED BY <1>1, <1>5, <2>1, <2>4, ContentsStep
<1>8. CASE ~Overlaid
  <2>1. Contents(NoPages, base', flat') /\ overlay' = overlay
    BY <1>2, <1>8, HostWritten
  <2>2. Contents(Pages', base', flat')
    BY <1>6, <1>8, <2>1 DEF Pages
  <2>3. overlay' = [pages |-> overlay'.pages, failed |-> overlay'.failed]
    BY <2>1 DEF Inv
  <2> QED BY <1>1, <1>5, <1>8, <2>2, <2>3, ContentsStep
<1> QED BY <1>7, <1>8

LEMMA WriteFailsInv ==
    ASSUME Inv, NEW n \in Chunks, NEW bad, WriteFails(n, bad)
    PROVE  Inv'
<1>1. /\ bus.txn.kind = "write" /\ StorageFails("disk")
      /\ UNCHANGED <<mode, generation, slot, recorded, snapshot, aware>>
  BY DEF WriteFails
<1>2. PICK data \in {[i \in 1..n |-> GuestData]} :
          IF Overlaid
          THEN /\ bad \in PagesOf(bus.txn.offset, n) \ DOMAIN overlay.pages
               /\ overlay' = [pages |-> OverlayWrite(overlay.pages, base, bus.txn.offset,
                                                     data, bad),
                              failed |-> TRUE]
               /\ flat' = HostWrite(flat, bus.txn.offset, data,
                                    IF PageOffset(bad) > bus.txn.offset
                                    THEN PageOffset(bad) - bus.txn.offset ELSE 0)
               /\ UNCHANGED base
          ELSE /\ bad \in 0..n
               /\ base' = HostWrite(base, bus.txn.offset, data, bad)
               /\ flat' = HostWrite(flat, bus.txn.offset, data, bad)
               /\ UNCHANGED overlay
  BY DEF WriteFails
<1>3. /\ n \in Nat \ {0} /\ bus.txn.offset \in Nat /\ bus.txn.offset + n <= ImageSize
  BY <1>1, WriteBounds
<1>4. MachineOK(disk, drive, slot, bus, aware)'
  BY <1>1, FailedMachine
<1>5. Overlaid' = Overlaid
  BY <1>1 DEF Overlaid
<1>6. CASE Overlaid
  <2>1. /\ overlay' = [pages |-> overlay'.pages, failed |-> overlay'.failed]
        /\ overlay'.pages = OverlayWrite(overlay.pages, base, bus.txn.offset, data, bad)
        /\ base' = base
    BY <1>2, <1>6
  <2>2. Contents(overlay.pages, base, flat)
    BY <1>6 DEF Inv, Pages
  <2>3. Contents(overlay'.pages, base, flat')
    BY <1>2, <1>3, <1>6, <2>1, <2>2, OverlayFailed
  <2>4. Contents(Pages', base', flat')
    BY <1>5, <1>6, <2>1, <2>3 DEF Pages
  <2> QED BY <1>1, <1>4, <2>1, <2>4, ContentsStep
<1>7. CASE ~Overlaid
  <2>1. Contents(NoPages, base', flat') /\ overlay' = overlay
    BY <1>2, <1>7, HostWritten
  <2>2. Contents(Pages', base', flat')
    BY <1>5, <1>7, <2>1 DEF Pages
  <2>3. overlay' = [pages |-> overlay'.pages, failed |-> overlay'.failed]
    BY <2>1 DEF Inv
  <2> QED BY <1>1, <1>4, <1>7, <2>2, <2>3, ContentsStep
<1> QED BY <1>6, <1>7
-----------------------------------------------------------------------------
(* The theorems.                                                           *)

Works == work \in {"disk", "drive"}

LEMMA InitInv == Init => Inv /\ Works
<1>1. SUFFICES ASSUME Init PROVE Inv /\ Works
  OBVIOUS
<1>2. PICK disc \in ConfiguredDiscs :
          /\ drive = ColdDrive(disc)
          /\ slot = disc
          /\ aware = disc
          /\ recorded = IF mode = "Normal" THEN NoRecord
                        ELSE [exists |-> TRUE, disc |-> disc, image |-> DiskImage]
  BY <1>1 DEF Init
<1>3. ValidSlot(disc) /\ ValidSlot(NoDisc) /\ Image(DiskImage)
  BY ConfiguredValid, FirstImage
<1>4. DiskOK(disk)
  BY <1>1, <1>3, ColdDisks DEF Init
<1>5. DriveOK(drive, slot)
  BY <1>2, <1>3, ColdDrives
<1>6. BusFits(bus, Bytes(slot)) /\ bus.target = "none"
  BY <1>1, BusFree DEF Init
<1>7. Told(drive, slot, aware, bus)
  BY <1>2, <1>3, <1>6 DEF Told, ValidSlot
<1>8. Contents(NoPages, base, flat)
  BY <1>1, <1>3, NoPagesView DEF Init
<1>9. Pages = NoPages /\ overlay = [pages |-> overlay.pages, failed |-> overlay.failed]
  BY <1>1 DEF Init, Pages, NoOverlay
<1>10. RecordOK
  BY <1>1, <1>2, <1>3 DEF Init, RecordOK, NoRecord, Overlaid
<1>11. SnapshotOK
  BY <1>1 DEF Init, SnapshotOK, NoSnapshot
<1>12. generation \in 1 .. MaxGeneration
  BY <1>1, MediaAssumption DEF Init
<1>13. Works
  BY <1>1 DEF Init, Works
<1> QED BY <1>4, <1>5, <1>6, <1>7, <1>8, <1>9, <1>10, <1>11, <1>12, <1>13 DEF Inv, MachineOK

LEMMA TransfersInv ==
    ASSUME Inv, GuestTransfers
    PROVE  Inv'
<1>1. CASE \E n \in Chunks :
              \/ MoveImmediate(n)
              \/ \E p \in Parameters : MoveParameters(n, p)
              \/ MoveIn(n)
              \/ MoveOut(n)
              \/ \E bad \in 0 .. SizeOf(base) : WriteFails(n, bad)
  BY <1>1, MoveInv, MoveParametersInv, MoveOutInv, WriteFailsInv
<1>2. CASE ReadFails
  BY <1>2, ReadFailsInv
<1>3. CASE WriteRefused
  BY <1>3, WriteRefusedInv
<1> QED BY <1>1, <1>2, <1>3 DEF GuestTransfers

\* No step changes which target the guest addresses.
LEMMA WorkStays == [Next]_vars => work' = work
<1>1. GuestTransfers => work' = work
  BY DEF GuestTransfers, MoveImmediate, MoveParameters, MoveIn, MoveOut, WriteFails, ReadFails,
         WriteRefused
<1>2. \A key, disc, opens, offer : HostInserts(key, disc, opens) \/ HostEjects(key, offer) => work' = work
  BY DEF HostInserts, HostEjects, Chosen
<1> QED BY <1>1, <1>2
        DEF Next, vars, InstallNormal, InstallRecording, InstallReplay, InstallSnapshot,
            TakeSnapshot, FinishSession, NoticeFailure, RebuildMediaMenu, Select, DiskCommand,
            DriveCommandStep, GuestEjects, Release, Cancel

LEMMA StepInv == Inv /\ Works /\ [Next]_vars => Inv' /\ Works'
<1>1. SUFFICES ASSUME Inv, Works, [Next]_vars PROVE Inv'
  BY WorkStays DEF Works
<1>2. CASE \E disc \in ConfiguredDiscs : InstallNormal(disc) \/ InstallRecording(disc)
  BY <1>1, <1>2, ConfiguredValid, InstallNormalInv, InstallRecordingInv
<1>3. CASE InstallReplay \/ InstallSnapshot \/ TakeSnapshot
  BY <1>1, <1>3, InstallReplayInv, InstallSnapshotInv, TakeSnapshotInv
<1>4. CASE FinishSession \/ NoticeFailure \/ RebuildMediaMenu
  BY <1>1, <1>4, ModeInv, MenuInv
<1>5. CASE \E key \in {CdromSlot} :
              \/ \E disc \in Discs, opens \in BOOLEAN : HostInserts(key, disc, opens)
              \/ \E offer \in {"eject", "force"} : HostEjects(key, offer)
  BY <1>1, <1>5, HostInsertsInv, HostEjectsInv
<1>6. CASE Select(work)
  BY <1>1, <1>6, SelectInv DEF Works
<1>7. CASE \E cdb \in DiskCdbs : DiskCommand(cdb)
  BY <1>1, <1>7, DiskCommandInv
<1>8. CASE \E cdb \in DriveCdbs : DriveCommandStep(cdb) \/ GuestEjects(cdb)
  BY <1>1, <1>8, DriveCommandInv, GuestEjectsInv
<1>9. CASE GuestTransfers
  BY <1>1, <1>9, TransfersInv
<1>10. CASE Release \/ Cancel
  BY <1>1, <1>10, FreedInv
<1>11. CASE UNCHANGED vars
  BY <1>1, <1>11 DEF vars, Inv, RecordOK, SnapshotOK, Pages, Overlaid
<1> QED BY <1>1, <1>2, <1>3, <1>4, <1>5, <1>6, <1>7, <1>8, <1>9, <1>10, <1>11 DEF Next

\* The inductive invariant holds in every reachable state.
THEOREM MediaInv == Spec => []Inv
<1>1. Inv /\ Works /\ [Next]_vars => Inv' /\ Works'
  BY StepInv
<1> QED BY InitInv, <1>1, PTL DEF Spec

\* Whatever the host inserts or ejects, the guest gets no byte of a medium it
\* has not been told of: until it is told a unit attention of the drive is
\* pending (ScsiCdrom::execute, medium_inserted, medium_removed).
THEOREM MediaSwaps == Spec => []SwapAnnounced
<1>1. Inv => SwapAnnounced
  BY DEF Inv, MachineOK, Told, SwapAnnounced
<1> QED BY <1>1, MediaInv, PTL

LEMMA InvTypeOK == Inv => TypeOK
<1>1. SUFFICES ASSUME Inv PROVE TypeOK
  OBVIOUS
<1>2. disk \in Disks /\ drive \in Drives /\ slot \in Slots /\ aware \in Slots
  BY <1>1, MachineParts DEF DiskOK, ValidSlot, Told
<1>3. bus.target \in {NoTarget, "disk", "drive"} /\ generation \in 1 .. MaxGeneration
  BY <1>1, MachineParts DEF Buses, Inv
<1>4. \A disc : InsertMedium(disc) \in ScsiMediaErrors \cup {"changed"}
  BY DEF InsertMedium, ScsiMediaErrors
<1>5. \A x \in ScsiMediaErrors \cup {"changed"} :
          MachineMediaError(x) \in MachineMediaErrors \cup {"changed"}
  BY DEF ScsiMediaErrors, MachineMediaErrors, MachineMediaError
<1>6. \A key, disc : MachineInserts(key, disc) \in MachineMediaErrors \cup {"changed"}
  <2>1. "UnknownSlot" \in MachineMediaErrors
    BY DEF MachineMediaErrors
  <2> QED BY <1>4, <1>5, <2>1 DEF MachineInserts
<1>7. \A key, disc, opens : InsertOutcome(key, disc, opens) \in SessionMediaErrors \cup {"changed"}
  <2>1. {"StaleHandle", "UnknownSlot", "OpenMedium", "MutationUnavailable"} \subseteq SessionMediaErrors
        /\ MachineMediaErrors \subseteq SessionMediaErrors
    BY DEF SessionMediaErrors, RuntimeMediaErrors, MachineMediaErrors
  <2>2. \A key : ResolveMediaSlot(key) \in {"StaleHandle", "UnknownSlot", "resolved"}
    BY DEF ResolveMediaSlot
  <2>3. \A key : RequireMediaChange(key) \in {"StaleHandle", "UnknownSlot", "MutationUnavailable", "allowed"}
    BY DEF RequireMediaChange
  <2> QED BY <1>6, <2>1, <2>2, <2>3 DEF InsertOutcome
<1> QED BY <1>2, <1>3, <1>4, <1>7 DEF TypeOK, Slots

\* The bus, the target and the host file agree on the bytes of a medium, a
\* transfer stays inside it, and the guest reads from its disk what it wrote,
\* through the overlay of a Recording or Replay and after a failed write too
\* (ScsiBus, ScsiDisk, ScsiCdrom, RecordingStorage, ReplayStorage).
THEOREM MediaAgreement == Spec => []MediaAgree
<1>1. Inv => MediaAgree
  <2>1. SUFFICES ASSUME Inv PROVE MediaAgree
    OBVIOUS
  <2>2. TypeOK
    BY <2>1, InvTypeOK
  <2>3. SizeOf(base) = ImageSize
    BY <2>1, MachineParts, ImageSized
  <2>4. SlotAndTargetAgree
    BY <2>1, <2>2, <2>3, MachineParts DEF SlotAndTargetAgree, DriveOK, DiskOK, BusFits
  <2>5. DiskReadsBack
    BY <2>1 DEF Inv, Contents, Pages, RecordOK, DiskReadsBack
  <2> QED BY <2>4, <2>5 DEF MediaAgree
<1> QED BY <1>1, MediaInv, PTL

\* A snapshot of a Replay is accepted by the machine its Record configures, and
\* the restored machine has the medium and the disk contents of the one the
\* snapshot was taken from (ScsiBus::restore_snapshot, backing_accepts_snapshot,
\* validate_snapshot_transaction).
THEOREM MediaRestored == Spec => []SnapshotRestoresMedia
<1>1. Inv => SnapshotRestoresMedia
  <2>1. SUFFICES ASSUME Inv, snapshot.taken
                 PROVE  /\ Accepts(recorded.disc, snapshot)
                        /\ RestoredSlot(recorded.disc, snapshot) = snapshot.slot
                        /\ View(snapshot.pages, recorded.image) = snapshot.flat
    BY DEF SnapshotRestoresMedia
  <2>2. /\ DiskOK(snapshot.disk) /\ DriveOK(snapshot.drive, snapshot.slot)
        /\ BusFits(snapshot.bus, Bytes(snapshot.slot))
        /\ snapshot.slot \in {recorded.disc, NoDisc}
        /\ Contents(snapshot.pages, recorded.image, snapshot.flat)
        /\ ValidSlot(recorded.disc) /\ Image(base)
    BY <2>1, MachineParts DEF Inv, SnapshotOK, MachineOK, RecordOK
  <2>3. SizeOf(base) = ImageSize
    BY <2>2, ImageSized
  <2>4. DiskAccepts(ColdDisk, snapshot.disk)
    <3>1. DiskOK(ColdDisk)
      BY <2>2, ColdDisks DEF ColdDisk
    <3> DEFINE a == snapshot.disk.blocks
               b == ColdDisk.blocks
    <3>2. a \in Nat /\ b \in Nat /\ a * SmallBlock = b * SmallBlock /\ SmallBlock \in Nat \ {0}
      BY <2>2, <3>1, TargetConstants DEF DiskOK, Disks
    <3> HIDE DEF a, b
    <3>3. (a - b) * SmallBlock = 0
      BY <3>2
    <3>4. a = b
      BY <3>2, <3>3
    <3> QED BY <3>4 DEF DiskAccepts, a, b
  <2>5. snapshot.drive.medium = 0 \/ snapshot.slot = recorded.disc
    BY <2>2, SlotBytes DEF DriveOK
  <2>6. DriveOK(ColdDrive(recorded.disc), recorded.disc)
    BY <2>2, ColdDrives
  <2>7. DriveAccepts(ColdDrive(recorded.disc), snapshot.drive) /\ BackingAccepts(recorded.disc, snapshot.drive)
    BY <2>2, <2>5, <2>6 DEF DriveAccepts, BackingAccepts, DriveOK, Drives
  <2>8. TransactionFits(snapshot)
    BY <2>2, <2>3 DEF TransactionFits, BusFits, DriveOK
  <2> QED BY <2>1, <2>2, <2>4, <2>7, <2>8, SlotRestored DEF Accepts, Contents
<1> QED BY <1>1, MediaInv, PTL
=============================================================================
