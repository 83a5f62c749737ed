--------------------------------- MODULE Lg1 ----------------------------------
(* The video controller (lg1/vc1.rs): the timing of the raster, the tables of  *)
(* display identifiers, and the cursor.  Its memories hold only what is not    *)
(* zero.                                                                       *)
EXTENDS Rex1

CONSTANTS
    CursorExtent,                   \* 32: the cursor's rows and columns
    CursorXOffset, CursorYOffset,   \* 140 and 39
    MaxFrameTableEntries,           \* 256
    LineTime                        \* LINE_PERIOD: the time of a scan line

\* The registers the model names, and the bits of the system control register.
VID_EP == 0
VID_LC == 2
VID_FC == 16
CUR_EP == 32
CUR_XL == 34
CUR_YL == 36
CUR_MODE == 38
CUR_LY == 40
DID_EP == 64
DID_HOR_MOD == 69
SramBytes == 65536
ControlBytes == 256
XmapBytes == 128
TestBytes == 8
SystemControl == {"VTG", "VC1", "DID", "CURSOR"}

NewVc1 ==
    [sram |-> <<>>, control |-> <<>>, xmap |-> <<>>, test |-> (5 :> 2), system_control |-> {"VTG"},
     address |-> 0, frame_elapsed |-> 0, frame_counter |-> 0, total_lines |-> DisplayHeight]

SignalState(c) ==
    IF "VTG" \in c.system_control THEN "NoSignal" ELSE IF "VC1" \in c.system_control THEN "Active" ELSE "Blanked"

ControlWord(c, address) == Lookup(c.control, address % 256) * 256 + Lookup(c.control, (address + 1) % 256)
Beyond == -1
SramWord(c, address) ==
    IF address + 1 >= SramBytes THEN Beyond ELSE Lookup(c.sram, address) * 256 + Lookup(c.sram, address + 1)

DisplayMode(c, identifier) == Lookup(c.xmap, identifier * 2) * 256 + Lookup(c.xmap, identifier * 2 + 1)

\* A line's table is its entries' boundaries and the identifiers that begin there;
\* an entry that does not go forward is skipped.
RECURSIVE IdentifierAt(_, _, _, _, _)
IdentifierAt(x, entries, start, identifier, has_boundary) ==
    IF entries = <<>> THEN identifier
    ELSE LET boundary == Min({Head(entries) \div 32, DisplayWidth}) IN
         IF has_boundary /\ boundary <= start THEN IdentifierAt(x, Tail(entries), start, identifier, TRUE)
         ELSE IF x < boundary THEN identifier
         ELSE IdentifierAt(x, Tail(entries), boundary, Head(entries) % 32, TRUE)

LineEntries(c, table) ==
    LET words == [i \in 1..Min({SramWord(c, table), DisplayWidth}) |-> SramWord(c, table + 2 * i)]
        readable == {i \in DOMAIN words : \A j \in 1..i : words[j] # Beyond}
    IN SubSeq(words, 1, Cardinality(readable))

DisplayIdentifier(c, x, y) ==
    LET table == SramWord(c, (ControlWord(c, DID_EP) % 32768) + 2 * y) IN
    IF "DID" \notin c.system_control \/ table = Beyond THEN 0
    ELSE IF SramWord(c, table) = Beyond THEN 0
    ELSE IdentifierAt(x, LineEntries(c, table), 0, 0, FALSE)

\* The cursor's place, colors and bitmap, two planes one after the other.
CursorRowBytes == (CursorExtent + 7) \div 8
CursorLeft(c) == ControlWord(c, CUR_XL) - CursorXOffset
CursorTop(c) == ControlWord(c, CUR_YL) - CursorYOffset
CursorPalette(c) == ((ControlWord(c, CUR_MODE) \div 64) \div 16 % 64) * 16
CursorBit(c, plane, row, column) ==
    LET byte == (ControlWord(c, CUR_EP) + plane * CursorExtent * CursorRowBytes
                   + row * CursorRowBytes + column \div 8) % SramBytes
    IN 7 - (column % 8) \in Bits(Lookup(c.sram, byte))

CurrentLine(c) == Min({c.frame_elapsed \div LineTime, c.total_lines - 1})
FramePeriod(c) == c.total_lines * LineTime
InVerticalBlanking(c) == CurrentLine(c) >= DisplayHeight

\* Completed frames, and the controller after them.
CompletedFrames(c, elapsed) ==
    IF SignalState(c) = "NoSignal" THEN 0 ELSE (c.frame_elapsed + elapsed) \div FramePeriod(c)
AdvanceVc1(c, elapsed) ==
    IF SignalState(c) = "NoSignal" THEN c
    ELSE [c EXCEPT !.frame_elapsed = (@ + elapsed) % FramePeriod(c),
                   !.frame_counter = (@ + CompletedFrames(c, elapsed)) % 65536]

Vc1Times(c) ==
    LET blanking_start == Min({DisplayHeight, c.total_lines}) * LineTime
        next == IF c.frame_elapsed < blanking_start THEN blanking_start ELSE FramePeriod(c)
    IN IF SignalState(c) = "NoSignal" THEN {} ELSE {next - c.frame_elapsed}

\* The frame table: a count of lines every third byte, until a zero.
RECURSIVE FrameTotalLines(_, _, _, _)
FrameTotalLines(c, offset, lines, entries) ==
    LET count == Lookup(c.sram, offset) IN
    IF entries = 0 \/ offset >= SramBytes THEN 0
    ELSE IF count = 0 THEN lines
    ELSE FrameTotalLines(c, offset + 3, lines + count, entries - 1)

\* A table that cannot be decoded leaves the timing alone.
ReloadFrameTotalLines(c) ==
    LET lines == FrameTotalLines(c, (ControlWord(c, VID_EP) % 32768) + 1, 0, MaxFrameTableEntries) IN
    IF lines = 0 THEN c ELSE [c EXCEPT !.total_lines = lines, !.frame_elapsed = @ % (lines * LineTime)]

ControlByteValue(address, value) ==
    CASE address \in {CUR_XL, CUR_LY, DID_HOR_MOD} -> value % 8
      [] address = CUR_YL -> value % 16
      [] OTHER -> value
\* Mutant: the entry pointer of the identifier tables is left out.
ControlByteAffectsCursor(address) == address \in CUR_EP..CUR_MODE + 1
ControlByteAffectsComposition(address) == address \in CUR_EP..CUR_MODE + 1 \/ address \in {DID_EP, DID_EP + 1}

AdvanceAddress(c) == [c EXCEPT !.address = (@ + 1) % 65536]

\* A write through a selector: the controller, and whether the picture changed.
WriteVc1(c, selector, value) ==
    CASE selector = "AddressLow" -> [vc1 |-> [c EXCEPT !.address = (@ \div 256) * 256 + value], changed |-> FALSE]
      [] selector = "AddressHigh" -> [vc1 |-> [c EXCEPT !.address = (@ % 256) + value * 256], changed |-> FALSE]
      [] selector = "SystemControl" ->
           [vc1 |-> [c EXCEPT !.system_control = value],
            changed |-> c.system_control \cap {"DID", "CURSOR"} # value \cap {"DID", "CURSOR"}]
      [] selector = "Control" ->
           LET address == c.address % ControlBytes
               updated == ControlByteValue(address, value)
           IN [vc1 |-> ReloadFrameTotalLines(AdvanceAddress([c EXCEPT !.control = Store(@, address, updated)])),
               changed |-> Lookup(c.control, address) # updated /\ ControlByteAffectsComposition(address)]
      [] selector = "XmapMode" ->
           LET address == c.address % XmapBytes IN
           [vc1 |-> AdvanceAddress([c EXCEPT !.xmap = Store(@, address, value)]),
            changed |-> Lookup(c.xmap, address) # value]
      [] selector = "Sram" ->
           [vc1 |-> ReloadFrameTotalLines(AdvanceAddress([c EXCEPT !.sram = Store(@, c.address, value)])),
            changed |-> Lookup(c.sram, c.address) # value]
      [] selector = "Test" ->
           [vc1 |-> AdvanceAddress([c EXCEPT !.test = Store(@, c.address % TestBytes, value)]), changed |-> FALSE]

\* Reading a memory also moves the address on.
ReadVc1(c, selector) ==
    IF selector \in {"AddressLow", "AddressHigh", "SystemControl"} THEN c ELSE AdvanceAddress(c)
Vc1Value(c, selector) ==
    CASE selector = "AddressLow" -> c.address % 256
      [] selector = "AddressHigh" -> c.address \div 256
      [] selector = "Control" ->
           LET address == c.address % ControlBytes IN
           CASE address = VID_LC -> CurrentLine(c) \div 256 [] address = VID_LC + 1 -> CurrentLine(c) % 256
             [] address = VID_FC -> c.frame_counter \div 256 [] address = VID_FC + 1 -> c.frame_counter % 256
             [] OTHER -> Lookup(c.control, address)
      [] selector = "XmapMode" -> Lookup(c.xmap, c.address % XmapBytes)
      [] selector = "Sram" -> Lookup(c.sram, c.address)
      [] selector = "Test" -> Lookup(c.test, c.address % TestBytes)
      [] OTHER -> 0

------------------------------------------------------------------------------
(* The palette DAC (lg1/bt479.rs).  Colors go in and out one component at a     *)
(* time; the palette holds only the entries that are not black.                *)

Black == <<0, 0, 0>>
CommandRegister0 == 130

Color(d, index) == IF index % 1024 \in DOMAIN d.palette THEN d.palette[index % 1024] ELSE Black
OverlayColor(d, index) == IF index % 16 \in DOMAIN d.overlay THEN d.overlay[index % 16] ELSE Black
StoreColor(f, k, color) ==
    IF color = Black THEN [i \in DOMAIN f \ {k} |-> f[i]] ELSE (k :> color) @@ f

NewBt479 ==
    [palette |-> <<>>, overlay |-> <<>>, control |-> <<>>, address |-> 0, overlay_address |-> 0, read_mask |-> 0,
     component |-> 0, staged |-> <<0, 0>>, prefetched |-> Black,
     overlay_component |-> 0, overlay_staged |-> <<0, 0>>, overlay_prefetched |-> Black]

\* The bank in the command register extends the eight address bits.
HostEntry(d) == ((Lookup(d.control, CommandRegister0) \div 16) % 4) * 256 + d.address
NextAddress(a) == (a + 1) % 256

Prefetch(d) == [d EXCEPT !.prefetched = Color(d, HostEntry(d)), !.address = NextAddress(@)]
PrefetchOverlay(d) ==
    [d EXCEPT !.overlay_prefetched = OverlayColor(d, d.overlay_address), !.overlay_address = NextAddress(@)]

\* The third component stores the color.
WriteColor(d, value) ==
    LET color == <<d.staged[1], d.staged[2], value>> IN
    IF d.component < 2
    THEN [dac |-> [d EXCEPT !.staged[d.component + 1] = value, !.component = @ + 1], changed |-> FALSE]
    ELSE [dac |-> [d EXCEPT !.palette = StoreColor(@, HostEntry(d), color), !.address = NextAddress(@),
                            !.component = 0],
          changed |-> Color(d, HostEntry(d)) # color]
WriteOverlayColor(d, value) ==
    IF d.overlay_component < 2
    THEN [d EXCEPT !.overlay_staged[d.overlay_component + 1] = value, !.overlay_component = @ + 1]
    ELSE [d EXCEPT !.overlay = StoreColor(@, d.overlay_address % 16,
                                          <<d.overlay_staged[1], d.overlay_staged[2], value>>),
                   !.overlay_address = NextAddress(@), !.overlay_component = 0]

\* A write: the DAC, and whether the picture changed.
WriteBt479(d, selector, value) ==
    CASE selector = "WriteAddress" -> [dac |-> [d EXCEPT !.address = value, !.component = 0], changed |-> FALSE]
      [] selector = "ReadAddress" ->
           [dac |-> Prefetch([d EXCEPT !.address = value, !.component = 0]), changed |-> FALSE]
      [] selector = "PaletteData" -> WriteColor(d, value)
      [] selector = "PixelReadMask" -> [dac |-> [d EXCEPT !.read_mask = value], changed |-> FALSE]
      [] selector = "ControlData" ->
           [dac |-> [d EXCEPT !.control = Store(@, d.address, value), !.address = NextAddress(@)], changed |-> FALSE]
      [] selector = "OverlayWriteAddress" ->
           [dac |-> [d EXCEPT !.overlay_address = value, !.overlay_component = 0], changed |-> FALSE]
      [] selector = "OverlayReadAddress" ->
           [dac |-> PrefetchOverlay([d EXCEPT !.overlay_address = value, !.overlay_component = 0]), changed |-> FALSE]
      [] selector = "OverlayData" -> [dac |-> WriteOverlayColor(d, value), changed |-> FALSE]

\* A read of a color takes a component; the third one prefetches the next color.
ReadBt479(d, selector) ==
    CASE selector = "PaletteData" ->
           IF d.component = 2 THEN Prefetch([d EXCEPT !.component = 0]) ELSE [d EXCEPT !.component = @ + 1]
      [] selector = "OverlayData" ->
           IF d.overlay_component = 2 THEN PrefetchOverlay([d EXCEPT !.overlay_component = 0])
           ELSE [d EXCEPT !.overlay_component = @ + 1]
      [] selector = "ControlData" -> [d EXCEPT !.address = NextAddress(@)]
      [] OTHER -> d
Bt479Value(d, selector) ==
    CASE selector \in {"WriteAddress", "ReadAddress"} -> d.address
      [] selector = "PaletteData" -> d.prefetched[d.component + 1]
      [] selector = "PixelReadMask" -> d.read_mask
      [] selector = "ControlData" -> Lookup(d.control, d.address)
      [] selector = "OverlayData" -> d.overlay_prefetched[d.overlay_component + 1]
      [] OTHER -> d.overlay_address

-----------------------------------------------------------------------------
(* The entry graphics board (lg1.rs, lg1/display.rs): raster engine, planes,   *)
(* video controller and DAC, and the frame composed of them at the end of a    *)
(* raster when something it shows has changed.  A board is a record; a frame   *)
(* is the color of every displayed pixel.  Reuse of frame allocations and the  *)
(* routing of register addresses are left out.                                 *)

NoFrame == [nothing |-> TRUE]
NewLg1 ==
    [rex |-> NewRex1, vc1 |-> NewVc1, dac |-> NewBt479, vram |-> NewVram,
     frame |-> NoFrame, composition_dirty |-> FALSE, display_changed |-> FALSE]

-----------------------------------------------------------------------------
(* Composition *)

OverlayPaletteBase == 784
\* A display mode takes all eight bits of a pixel, or one of its halves.
ColorIndex(mode, pixel) ==
    IF mode % 2 = 0 THEN ((mode \div 4) % 4) * 256 + pixel
    ELSE ((mode \div 4) % 4) * 256 + ((mode \div 16) % 16) * 16
           + (IF (mode \div 2) % 2 = 0 THEN pixel % 16 ELSE pixel \div 16)

\* The cursor's two planes choose its foreground, its background, or neither.
CursorCode(c, x, y) ==
    LET row == y - CursorTop(c)
        column == x - CursorLeft(c)
    IN IF "CURSOR" \notin c.system_control \/ row \notin 0..CursorExtent - 1 \/ column \notin 0..CursorExtent - 1
       THEN 0
       ELSE (IF CursorBit(c, 0, row, column) THEN 1 ELSE 0) + (IF CursorBit(c, 1, row, column) THEN 2 ELSE 0)

ComposedPixel(b, x, y) ==
    LET overlay == ReadVram(b.vram, "Overlay", x, y) % 4
        cursor == CursorCode(b.vc1, x, y)
    IN CASE cursor \in {1, 2} -> Color(b.dac, CursorPalette(b.vc1) + cursor)
         [] cursor \in {0, 3} /\ overlay # 0 -> Color(b.dac, OverlayPaletteBase + overlay)
         [] OTHER -> Color(b.dac, ColorIndex(DisplayMode(b.vc1, DisplayIdentifier(b.vc1, x, y)),
                                             ReadVram(b.vram, "Pixel", x, y)))
Compose(b) == [p \in (0..DisplayWidth - 1) \X (0..DisplayHeight - 1) |-> ComposedPixel(b, p[1], p[2])]

ComposeFrame(b) ==
    [b EXCEPT !.frame = [pixels |-> Compose(b)], !.vram.dirty = FALSE, !.composition_dirty = FALSE,
              !.display_changed = TRUE]

\* A frame is composed when a raster ends, the signal is active and the last
\* frame no longer shows what is in the planes, the tables and the palette.
AfterFrames(b, completed) ==
    IF completed = 0 \/ SignalState(b.vc1) # "Active" THEN b
    ELSE IF b.frame # NoFrame /\ ~b.composition_dirty /\ ~b.vram.dirty THEN b
    ELSE ComposeFrame(b)
AdvanceLg1(b, elapsed) ==
    AfterFrames([b EXCEPT !.vc1 = AdvanceVc1(@, elapsed)], CompletedFrames(b.vc1, elapsed))

NoSignal == [signal |-> "NoSignal"]
Blank == [signal |-> "Blank"]
Active(frame) == [signal |-> "Active", pixels |-> frame.pixels]
DisplayState(b) ==
    CASE SignalState(b.vc1) = "NoSignal" -> NoSignal
      [] SignalState(b.vc1) = "Blanked" -> Blank
      [] SignalState(b.vc1) = "Active" -> IF b.frame = NoFrame THEN Blank ELSE Active(b.frame)

RetraceAsserted(b) == SignalState(b.vc1) # "NoSignal" /\ InVerticalBlanking(b.vc1)

-----------------------------------------------------------------------------
(* Register accesses *)

Vc1Selector(configsel) ==
    CASE configsel = 0 -> "Control" [] configsel = 1 -> "XmapMode" [] configsel = 2 -> "Sram" [] configsel = 3 -> "Test"
      [] configsel = 4 -> "AddressLow" [] configsel = 5 -> "AddressHigh" [] OTHER -> "SystemControl"
DacSelector(configsel) ==
    CASE configsel = 0 -> "WriteAddress" [] configsel = 1 -> "PaletteData" [] configsel = 2 -> "PixelReadMask"
      [] configsel = 3 -> "ReadAddress" [] configsel = 4 -> "OverlayWriteAddress" [] configsel = 5 -> "OverlayData"
      [] configsel = 6 -> "ControlData" [] OTHER -> "OverlayReadAddress"

\* The board after a peripheral took a byte: losing or regaining the signal
\* changes what the monitor shows at once, and losing it drops the frame.
SignalChanged(before, b) ==
    IF SignalState(before) = SignalState(b.vc1) THEN b
    ELSE [b EXCEPT !.frame = IF SignalState(b.vc1) = "NoSignal" THEN NoFrame ELSE @, !.display_changed = TRUE]
Vc1Written(b, w) == SignalChanged(b.vc1, [b EXCEPT !.vc1 = w.vc1, !.composition_dirty = @ \/ w.changed])
DacWritten(b, w) == [b EXCEPT !.dac = w.dac, !.composition_dirty = @ \/ w.changed]

\* `byte` is the value written, as bits for the system control register.
WritePeripheral(b, register, byte, bits) ==
    LET selector == Vc1Selector(b.rex.config.configsel) IN
    CASE register = "RWVC1" -> Vc1Written(b, WriteVc1(b.vc1, selector, IF selector = "SystemControl" THEN bits ELSE byte))
      [] register = "RWDAC" -> DacWritten(b, WriteBt479(b.dac, DacSelector(b.rex.config.configsel), byte))
      [] OTHER -> b

\* The value read is the last one received; the access fetches the next.
ReadPeripheral(b, register) ==
    LET configsel == b.rex.config.configsel IN
    CASE register = "RWVC1" ->
           [b EXCEPT !.vc1 = ReadVc1(@, Vc1Selector(configsel)),
                     !.rex.config.rwvc1 = Vc1Value(b.vc1, Vc1Selector(configsel))]
      [] register = "RWDAC" ->
           [b EXCEPT !.dac = ReadBt479(@, DacSelector(configsel)),
                     !.rex.config.rwdac = Bt479Value(b.dac, DacSelector(configsel))]
      [] register = "WCLOCK" -> [b EXCEPT !.rex.config.wclock = IF configsel = 4 THEN 1 ELSE @]

Drew(b, x) == [b EXCEPT !.rex = x.rex, !.vram = x.vram]
Go(b) == Drew(b, Execute(b.rex, b.vram))

WriteLg1(b, w) ==
    CASE w.window = "Drawing" -> [b EXCEPT !.rex = WriteDrawing(@, w)]
      [] w.window = "DrawingGo" -> Go([b EXCEPT !.rex = WriteDrawing(@, w)])
      [] w.window = "Config" -> [b EXCEPT !.rex = WriteConfig(@, w)]
      [] w.window = "ConfigGo" ->
           IF w.register \in {"RWVC1", "RWDAC", "WCLOCK"}
           THEN WritePeripheral([b EXCEPT !.rex = WriteConfig(@, w)], w.register, w.value, w.bits)
           ELSE [b EXCEPT !.rex = WriteConfig(@, w)]
ReadLg1(b, r) ==
    CASE r.window = "DrawingGo" -> Go(b)
      [] r.window = "ConfigGo" -> ReadPeripheral(b, r.register)
      [] OTHER -> b

\* DMA moves whole words through the host data port.
Words(bytes) == [i \in 1..Len(bytes) \div 4 |-> SubSeq(bytes, 4 * i - 3, 4 * i)]
WriteDma(b, bytes) ==
    FoldLeft(LAMBDA c, word : Go([c EXCEPT !.rex = WriteHostData(@, word)]), b, Words(bytes))
ReadDma(b, length) ==
    FoldLeft(LAMBDA a, i : [board |-> Go(a.board), bytes |-> a.bytes \o a.board.rex.current.rwaux1],
             [board |-> b, bytes |-> <<>>], [i \in 1..length \div 4 |-> i])
=============================================================================
