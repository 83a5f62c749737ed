-------------------------------- MODULE Rex1 --------------------------------
(* The raster engine (lg1/rex1.rs) and the planes it draws in (lg1/vram.rs).   *)
(* The engine is a record [current, next, config]: a SET access writes `next`, *)
(* a GO access draws with it and latches it into `current`, which is what      *)
(* reads return.  A command word is its opcode and the set of its flags, a     *)
(* pattern the set of its bits, the host data word its four bytes.  A plane    *)
(* holds only the pixels that are not zero.                                    *)
EXTENDS Integers, Sequences, SequencesExt, FiniteSetsExt, Functions, TLC

CONSTANTS
    FbWidth, FbHeight,          \* 1024 by 816: the frame buffer's storage
    DisplayWidth, DisplayHeight,\* 1024 by 768: what the monitor shows
    MaxPixels                   \* MAX_COMMAND_PIXELS

ASSUME Rex1Assumption ==
    /\ {FbWidth, FbHeight, DisplayWidth, DisplayHeight, MaxPixels} \subseteq Nat \ {0}
    /\ DisplayWidth <= FbWidth /\ DisplayHeight <= FbHeight

PlaneGroup == {"None", "Pixel", "Overlay", "Cid"}
One == 32768            \* a pixel, in the fixed point of the start coordinates
FullCoordinates == 4096 * One
Bias == 2048
ColorOne == 2048        \* an intensity step, in the fixed point of the colors

Lookup(f, k) == IF k \in DOMAIN f THEN f[k] ELSE 0
Store(f, k, v) ==
    IF v = 0 THEN [i \in DOMAIN f \ {k} |-> f[i]] ELSE (k :> v) @@ f

\* Bit positions of a byte, and back.
Bits(v) == {b \in 0..7 : (v \div 2^b) % 2 = 1}
Value(bits) == SumSet({2^b : b \in bits})

-----------------------------------------------------------------------------
(* The planes *)

NewVram == [planes |-> [g \in PlaneGroup |-> <<>>], dirty |-> FALSE]
ValueMask(group) == CASE group = "None" -> {} [] group = "Pixel" -> 0..7 [] OTHER -> {0, 1}

InStorage(x, y) == x \in 0..FbWidth - 1 /\ y \in 0..FbHeight - 1
ReadVram(v, group, x, y) == IF InStorage(x, y) THEN Lookup(v.planes[group], <<x, y>>) ELSE 0

\* Only a change of a displayed plane on a displayed line calls for a new frame.
WriteMasked(v, group, x, y, value, mask) ==
    LET planes == mask \cap ValueMask(group)
        previous == ReadVram(v, group, x, y)
        updated == Value((Bits(previous) \ planes) \cup (Bits(value) \cap planes))
    IN IF ~InStorage(x, y) \/ planes = {} THEN v
       ELSE [planes |-> [v.planes EXCEPT ![group] = Store(@, <<x, y>>, updated)],
             dirty |-> v.dirty \/ (previous # updated /\ y < DisplayHeight /\ group \in {"Pixel", "Overlay"})]

-----------------------------------------------------------------------------
(* Registers *)

NewRegisters ==
    [opcode |-> "NOP", flags |-> {}, shared |-> {}, source_rop |-> 0, aux1 |-> {},
     group |-> "None", masks |-> {}, inside |-> {},
     xstart |-> 0, ystart |-> 0, xend |-> 0, yend |-> 0, xsave |-> 0, minorslope |-> 0, xymove |-> <<0, 0>>,
     color |-> <<0, 0, 0>>, slope |-> <<0, 0, 0>>, colorback |-> 0,
     zpattern |-> {}, lspattern |-> {}, lslength |-> 17, lsrepeat |-> 1,
     rwaux1 |-> <<0, 0, 0, 0>>, rwmask |-> {}, smask1 |-> <<0, 0, 0, 0>>]
NewConfig == [smask |-> [m \in 2..4 |-> <<0, 0, 0, 0>>], rwdac |-> 0, rwvc1 |-> 0, wclock |-> 0,
              configsel |-> 0, xywin |-> <<0, 0>>]
NewRex1 == [current |-> NewRegisters, next |-> NewRegisters, config |-> NewConfig]

\* Flags of the command that XSTATE can also write.
SharedFlags == {"LOGICSRC", "COLORAUX", "LSOPAQUE", "ZOPAQUE"}

\* A sign and a magnitude become two's complement of the register's width.
SignedSlope(negative, value, half) ==
    IF negative THEN -(value % half)
    ELSE IF value % (2 * half) >= half THEN (value % (2 * half)) - 2 * half ELSE value % (2 * half)
MinorSlope(negative, value) == SignedSlope(negative, value, 2 * One)

\* The same for a color, whose bit 19 also sets bit 20.
ColorSlope(negative, value) ==
    LET v == (IF negative THEN -(value % 2^20) ELSE value) % 2^21 IN
    IF v < 2^19 THEN v ELSE IF v < 2^20 THEN v - 2^20 ELSE v - 2^21

\* A register write: `w` names the register and carries its fields.
WriteRegister(r, w) ==
    CASE w.register = "COMMAND" ->
           [r EXCEPT !.opcode = w.opcode, !.flags = w.flags, !.source_rop = w.rop,
                     !.shared = w.flags \cap SharedFlags]
      [] w.register = "AUX1" -> [r EXCEPT !.aux1 = w.flags]
      [] w.register = "AUX2" -> [r EXCEPT !.group = w.group, !.masks = w.masks, !.inside = w.inside]
      [] w.register = "XSTATE" ->
           [r EXCEPT !.color[1] = w.value * ColorOne, !.colorback = w.back, !.rwmask = w.bits,
                     !.source_rop = w.rop, !.shared = w.flags]
      [] w.register = "XSTART" -> [r EXCEPT !.xstart = w.value % FullCoordinates,
                                            !.xsave = (w.value % FullCoordinates) \div One]
      [] w.register = "YSTART" -> [r EXCEPT !.ystart = w.value % FullCoordinates]
      [] w.register = "XEND" -> [r EXCEPT !.xend = w.value % 4096]
      [] w.register = "YEND" -> [r EXCEPT !.yend = w.value % 4096]
      [] w.register = "XSAVE" -> [r EXCEPT !.xsave = w.value % 4096]
      [] w.register = "MINORSLOPE" -> [r EXCEPT !.minorslope = MinorSlope(w.negative, w.value)]
      [] w.register = "XYMOVE" -> [r EXCEPT !.xymove = w.pair]
      [] w.register = "COLOR" -> [r EXCEPT !.color[w.component] = w.value % (512 * ColorOne)]
      [] w.register = "SLOPE" -> [r EXCEPT !.slope[w.component] = ColorSlope(w.negative, w.value)]
      [] w.register = "COLORBACK" -> [r EXCEPT !.colorback = w.value % 256]
      [] w.register = "ZPATTERN" -> [r EXCEPT !.zpattern = w.bits]
      [] w.register = "LSPATTERN" -> [r EXCEPT !.lspattern = w.bits]
      [] w.register = "LSMODE" -> [r EXCEPT !.lslength = w.length + 17,
                                            !.lsrepeat = IF w.repeat = 0 THEN 1 ELSE w.repeat]
      [] w.register = "RWAUX1" -> [r EXCEPT !.rwaux1 = w.word]
      [] w.register = "RWMASK" -> [r EXCEPT !.rwmask = w.bits]
      [] w.register = "SMASK1" -> [r EXCEPT !.smask1 = w.rectangle]

-----------------------------------------------------------------------------
(* One pixel *)

\* The window offset is added in twelve bits and the bias taken away.
FramebufferCoordinate(e, axis, v) == ((v + e.config.xywin[axis]) % 4096) - Bias

Within(m, x, y) == x \in m[1]..m[2] /\ y \in m[3]..m[4]
MaskOf(e, m) == IF m = 1 THEN e.next.smask1 ELSE e.config.smask[m]

\* Mask 1 decides alone; of the others, those that admit their inside admit the union.
ScreenMasksAdmit(e, x, y) ==
    LET others == e.next.masks \ {1}
        admitting == others \cap e.next.inside
    IN /\ 1 \in e.next.masks => (Within(MaskOf(e, 1), x, y) <=> 1 \in e.next.inside)
       /\ \A m \in others \ e.next.inside : ~Within(MaskOf(e, m), x, y)
       /\ admitting # {} => \E m \in admitting : Within(MaskOf(e, m), x, y)

\* With double buffering the pixel planes hold two buffers of four bits.
Doubled(r, group) == group = "Pixel" /\ "DOUBLE" \in r.aux1
ReadPixelValue(r, group, pixel) ==
    IF ~Doubled(r, group) THEN pixel ELSE IF "READONE" \in r.aux1 THEN pixel \div 16 ELSE pixel % 16
SourcePixelValue(r, group, pixel) == IF Doubled(r, group) THEN pixel % 16 ELSE pixel
Nibble == 0..3
StoredMask(r, group) ==
    IF ~Doubled(r, group) THEN r.rwmask
    ELSE (IF "WRITEZERO" \in r.aux1 THEN r.rwmask \cap Nibble ELSE {})
           \cup (IF "WRITEONE" \in r.aux1 THEN {b + 4 : b \in r.rwmask \cap Nibble} ELSE {})
StoredResult(r, group, result) == IF Doubled(r, group) THEN (result % 16) * 17 ELSE result

ColorComparisonPasses(r, source, destination) ==
    "COLORCOMP" \in r.flags =>
        \/ "LT" \in r.aux1 /\ source < destination
        \/ "EQ" \in r.aux1 /\ source = destination
        \/ "GT" \in r.aux1 /\ source > destination

\* Whether the bit of the result is set for a source bit s and a destination bit d:
\* operations 0 to 7 are zero, and, s and not d, s, d and not s, d, xor, or; the
\* other eight are their complements in the reverse order.
LogicBit(operation, s, d) ==
    CASE operation = 0 -> FALSE [] operation = 1 -> s /\ d [] operation = 2 -> s /\ ~d [] operation = 3 -> s
      [] operation = 4 -> ~s /\ d [] operation = 5 -> d [] operation = 6 -> s # d [] operation = 7 -> s \/ d
      [] operation = 8 -> ~(s \/ d) [] operation = 9 -> s = d [] operation = 10 -> ~d [] operation = 11 -> s \/ ~d
      [] operation = 12 -> ~s [] operation = 13 -> ~s \/ d [] operation = 14 -> ~(s /\ d) [] OTHER -> TRUE
LogicOperation(operation, source, destination) ==
    Value({b \in 0..7 : LogicBit(operation, b \in Bits(source), b \in Bits(destination))})

ReadPixel(e, v, x, y) ==
    LET fx == FramebufferCoordinate(e, 1, x)
        fy == FramebufferCoordinate(e, 2, y)
    IN IF fx < 0 \/ fy < 0 THEN 0
       ELSE ReadPixelValue(e.next, e.next.group, ReadVram(v, e.next.group, fx, fy))

WriteAt(e, v, x, y, source) ==
    LET r == e.next
        destination == ReadPixelValue(r, r.group, ReadVram(v, r.group, x, y))
        value == SourcePixelValue(r, r.group, source)
    IN IF ColorComparisonPasses(r, value, destination)
       THEN WriteMasked(v, r.group, x, y,
                        StoredResult(r, r.group, LogicOperation(r.source_rop, value, destination)),
                        StoredMask(r, r.group))
       ELSE v

WritePixel(e, v, x, y, source) ==
    LET fx == FramebufferCoordinate(e, 1, x)
        fy == FramebufferCoordinate(e, 2, y)
    IN IF fx >= 0 /\ fy >= 0 /\ ScreenMasksAdmit(e, fx, fy) THEN WriteAt(e, v, fx, fy, source) ELSE v

-----------------------------------------------------------------------------
(* Colors *)

DitherMatrix == << <<0, 8, 2, 10>>, <<12, 4, 14, 6>>, <<3, 11, 1, 9>>, <<15, 7, 13, 5>> >>
Top(component, bits) == component \div 2^(8 - bits)
Dither(component, bits, threshold) ==
    LET scaled == component \div 2^(4 - bits) - component \div 16
    IN scaled \div 16 + (IF scaled % 16 > threshold THEN 1 ELSE 0)

\* Three bits of red, two of blue and three of green, or one, two and one.
RgbPixel(r, rgb, x, y) ==
    LET t == DitherMatrix[(y % 4) + 1][(x % 4) + 1]
        dithered == "DITHER" \in r.flags /\ "DITHERRANGE" \in r.aux1
        Stored(c, bits) == IF dithered THEN Dither(rgb[c], bits, t) ELSE Top(rgb[c], bits)
    IN IF "DOUBLE" \in r.aux1 THEN Stored(1, 1) * 8 + Stored(2, 2) * 2 + Stored(3, 1)
       ELSE Stored(1, 3) * 32 + Stored(3, 2) * 8 + Stored(2, 3)

\* Shading adds the slope at every pixel and clamps.
ColorComponent(r, component, step) ==
    LET color == r.color[component] + (IF "SHADE" \in r.flags THEN r.slope[component] * step ELSE 0)
    IN Max({0, Min({color, 256 * ColorOne - 1})}) \div ColorOne
SourceColor(r, step, x, y) ==
    IF "RGBMODE" \in r.flags THEN RgbPixel(r, [c \in 1..3 |-> ColorComponent(r, c, step)], x, y)
    ELSE ColorComponent(r, 1, step)

-----------------------------------------------------------------------------
(* Primitives *)

\* A pixel of a primitive: drawn with a source, or copied from where it says.
Dot(x, y, source) == [x |-> x, y |-> y, from |-> <<>>, source |-> source]
Moved(x, y, from) == [x |-> x, y |-> y, from |-> from, source |-> 0]

Plot(e, v, dot) ==
    WritePixel(e, v, dot.x, dot.y,
               IF dot.from = <<>> THEN dot.source
               ELSE IF dot.from[1] < 0 \/ dot.from[2] < 0 THEN 0 ELSE ReadPixel(e, v, dot.from[1], dot.from[2]))
PlotAll(e, v, dots) == FoldLeft(LAMBDA w, dot : Plot(e, w, dot), v, dots)

Toward(a, b, i) == IF a <= b THEN a + i ELSE a - i
Distance(a, b) == IF a <= b THEN b - a ELSE a - b
SignedCoordinate(v) == IF v % 2048 >= 1024 THEN (v % 2048) - 2048 ELSE v % 2048

\* A pattern bit that is clear draws the background, or nothing.
Patterned(r, set, opaque, step, x, y) ==
    IF set THEN <<Dot(x, y, SourceColor(r, step, x, y))>>
    ELSE IF opaque THEN <<Dot(x, y, r.colorback)>> ELSE <<>>

\* A line steps one pixel along its major axis and the slope along the other.
LineDots(r, x_major, end) ==
    LET start == (IF x_major THEN r.xstart ELSE r.ystart) \div One
        steps == Min({Distance(start, end), MaxPixels - 1})
        major == IF start <= end THEN One ELSE -One
        At(i) == LET x == (r.xstart + i * (IF x_major THEN major ELSE r.minorslope)) % FullCoordinates
                     y == (r.ystart + i * (IF x_major THEN r.minorslope ELSE major)) % FullCoordinates
                     set == "ENLSPATTERN" \notin r.flags
                              \/ 31 - ((i \div r.lsrepeat) % r.lslength) \in r.lspattern
                 IN Patterned(r, set, "LSOPAQUE" \in r.shared, i, x \div One, y \div One)
    IN FlattenSeq([i \in 1..steps + 1 |-> At(i - 1)])

RectangleDots(r, x0, y0, x1, y1) ==
    LET width == Distance(x0, x1) + 1
        count == Min({width * (Distance(y0, y1) + 1), MaxPixels})
        At(i) == LET x == Toward(x0, x1, i % width)
                     y == Toward(y0, y1, i \div width)
                 IN IF "LOGICSRC" \in r.shared
                    THEN Moved(x, y, <<x + SignedCoordinate(r.xymove[1]), y + SignedCoordinate(r.xymove[2])>>)
                    ELSE Dot(x, y, SourceColor(r, i % width, x, y))
    IN [i \in 1..count |-> At(i - 1)]

PatternCount(r, x0) ==
    LET length == IF "LENGTH32" \in r.flags THEN 32 ELSE 16 IN
    IF "STOPONX" \in r.flags THEN Max({0, Min({length, r.xend + 1 - x0})}) ELSE length
PatternDots(r, x0, y) ==
    FlattenSeq([i \in 1..PatternCount(r, x0) |->
        Patterned(r, 32 - i \in r.zpattern, "ZOPAQUE" \in r.shared, i - 1, x0 + i - 1, y)])

StippleDots(r, x0, y) ==
    FlattenSeq([i \in 1..Min({Distance(x0, r.xend) + 1, MaxPixels}) |->
        Patterned(r, 31 - ((i - 1) % r.lslength) \in r.lspattern, "LSOPAQUE" \in r.shared, i - 1,
                  Toward(x0, r.xend, i - 1), y)])

\* The next row: the saved column returns to the left edge.
NextRow(r, y) == [r EXCEPT !.ystart = (IF y > r.yend THEN Max({y - 1, 0}) ELSE y + 1) * One, !.xsave = r.xstart \div One]

Rectangular(r) == {"BLOCK", "QUADMODE", "XYCONTINUE"} \subseteq r.flags
TiledSpan(r) == r.flags \cap {"BLOCK", "QUADMODE", "XYCONTINUE", "STOPONX"} = {"QUADMODE", "STOPONX"}

\* The lanes of a packed access that fall on the row, and whether it ends there.
PackedLanes(r, x) ==
    LET left == IF r.xstart \div One <= r.xend THEN r.xend - x ELSE x - r.xend
        stops == Rectangular(r) \/ "STOPONX" \in r.flags
    IN IF stops /\ left \in 0..3 THEN [count |-> left + 1, ends |-> TRUE]
       ELSE IF ~Rectangular(r) /\ stops /\ left < 0 THEN [count |-> 0, ends |-> TRUE]
       ELSE [count |-> 4, ends |-> FALSE]

PackedDots(r, x, y, count) ==
    [i \in 1..count |-> Dot(IF r.xstart \div One <= r.xend THEN x + i - 1 ELSE x - i + 1, y, r.rwaux1[i])]
TiledDots(r, y) ==
    LET origin == r.xstart \div One IN
    [i \in 1..Min({Distance(origin, r.xend) + 1, MaxPixels}) |->
        Dot(Toward(origin, r.xend, i - 1), y, r.rwaux1[((i - 1) % 4) + 1])]

\* Mutant: the padding of a line's last word is counted as pixels.
AfterPackedWord(r, x, y) == [r EXCEPT !.xsave = IF r.xstart \div One <= r.xend THEN x + 4 ELSE x - 4]
\* Where the next access of a rectangle or a span goes on.
AfterPacked(r, x, y) ==
    LET lanes == PackedLanes(r, x)
        origin == r.xstart \div One
        row == IF lanes.ends /\ Rectangular(r) /\ y # r.yend THEN Toward(y, r.yend, 1) ELSE y
    IN [r EXCEPT !.ystart = row * One,
                 !.xsave = IF lanes.ends THEN origin
                           ELSE IF origin <= r.xend THEN x + lanes.count ELSE x - lanes.count]

AfterHostRgb(r, x, y) ==
    LET rectangle == {"BLOCK", "XYCONTINUE"} \subseteq r.flags
        origin == r.xstart \div One
    IN IF rectangle /\ x = r.xend
       THEN [r EXCEPT !.xsave = origin, !.ystart = IF y # r.yend THEN Toward(y, r.yend, 1) * One ELSE @]
       ELSE [r EXCEPT !.xsave = (IF rectangle /\ origin > r.xend THEN x - 1 ELSE x + 1) % 4096]

\* What a command draws and the registers it leaves, decided in the code's order.
Drawn(r, x, y) ==
    CASE "COLORAUX" \in r.shared /\ "RGBMODE" \in r.flags ->
           [dots |-> <<Dot(x, y, RgbPixel(r, Tail(r.rwaux1), x, y))>>, next |-> AfterHostRgb(r, x, y)]
      [] "COLORAUX" \in r.shared /\ "RGBMODE" \notin r.flags /\ TiledSpan(r) ->
           [dots |-> TiledDots(r, y), next |-> [r EXCEPT !.xsave = r.xstart \div One]]
      [] "COLORAUX" \in r.shared /\ "RGBMODE" \notin r.flags /\ ~TiledSpan(r) ->
           [dots |-> PackedDots(r, x, y, PackedLanes(r, x).count), next |-> AfterPacked(r, x, y)]
      [] "COLORAUX" \notin r.shared /\ "ENZPATTERN" \in r.flags ->
           [dots |-> PatternDots(r, x, y),
            next |-> IF {"BLOCK", "STOPONX"} \subseteq r.flags /\ x + PatternCount(r, x) > r.xend THEN NextRow(r, y)
                     ELSE [r EXCEPT !.xsave = x + PatternCount(r, x)]]
      [] OTHER ->
           LET mode == r.flags \cap {"XMAJOR", "QUADMODE", "STOPONX", "STOPONY"} IN
           IF mode = {"XMAJOR", "STOPONX"} THEN [dots |-> LineDots(r, TRUE, r.xend), next |-> r]
           ELSE IF mode = {"STOPONY"} THEN [dots |-> LineDots(r, FALSE, r.yend), next |-> r]
           ELSE IF {"ENLSPATTERN", "QUADMODE", "STOPONX"} \subseteq r.flags
                THEN [dots |-> StippleDots(r, x, y),
                      next |-> IF Rectangular(r) THEN NextRow(r, y) ELSE r]
           ELSE IF r.flags \cap {"BLOCK", "QUADMODE", "STOPONX", "STOPONY"} = {"QUADMODE", "STOPONX"}
                THEN [dots |-> RectangleDots(r, x, y, r.xend, y), next |-> r]
           ELSE IF {"BLOCK", "QUADMODE", "STOPONX", "STOPONY"} \subseteq r.flags
                THEN [dots |-> RectangleDots(r, x, y, r.xend, r.yend), next |-> r]
           ELSE [dots |-> <<Dot(x, y, SourceColor(r, 0, x, y))>>, next |-> r]

\* Without XYCONTINUE a command starts at XSTART, with it at the saved column.
Started(r) == IF "XYCONTINUE" \in r.flags THEN r ELSE [r EXCEPT !.xsave = r.xstart \div One]

LoadedLanes(r, x) ==
    LET left == IF r.xstart \div One <= r.xend THEN r.xend - x ELSE x - r.xend IN
    IF Rectangular(r) /\ left \in 0..3 THEN [count |-> left + 1, ends |-> TRUE] ELSE [count |-> 4, ends |-> FALSE]

\* LDPIXEL: up to four pixels are loaded into the host data word.
Loaded(e, v, x, y) ==
    LET r == e.next
        lanes == LoadedLanes(r, x)
        back == Rectangular(r) /\ r.xstart \div One > r.xend
        word == [i \in 1..4 |-> IF i <= lanes.count THEN ReadPixel(e, v, IF back THEN x - i + 1 ELSE x + i - 1, y)
                                ELSE r.rwaux1[i]]
    IN [r EXCEPT !.rwaux1 = word,
                 !.xsave = IF lanes.ends THEN r.xstart \div One ELSE IF back THEN x - lanes.count ELSE x + lanes.count,
                 !.ystart = (IF lanes.ends /\ y # r.yend THEN Toward(y, r.yend, 1) ELSE y) * One]

Latch(e, next) == [e EXCEPT !.next = next, !.current = next]

\* A GO access: the engine and the planes after it.
ExecuteDraw(e, v, d) == [rex |-> Latch(e, d.next), vram |-> PlotAll(e, v, d.dots)]
Execute(e, v) ==
    CASE e.next.opcode = "DRAW" ->
           ExecuteDraw(e, v, Drawn(Started(e.next), Started(e.next).xsave, e.next.ystart \div One))
      [] e.next.opcode = "LDPIXEL" ->
           [rex |-> Latch(e, Loaded(e, v, IF "XYCONTINUE" \in e.next.flags THEN e.next.xsave
                                          ELSE e.next.xstart \div One, e.next.ystart \div One)),
            vram |-> v]
      [] OTHER -> [rex |-> Latch(e, e.next), vram |-> v]

WriteDrawing(e, w) == [e EXCEPT !.next = WriteRegister(@, w)]
WriteHostData(e, word) == [e EXCEPT !.next.rwaux1 = word]

WriteConfig(e, w) ==
    CASE w.register = "SMASK" -> [e EXCEPT !.config.smask[w.mask] = w.rectangle]
      [] w.register = "AUX2" -> WriteDrawing(e, w)
      [] w.register = "XYWIN" -> [e EXCEPT !.config.xywin = w.pair]
      [] w.register = "CONFIGSEL" -> [e EXCEPT !.config.configsel = w.value % 8]
      [] w.register = "RWDAC" -> [e EXCEPT !.config.rwdac = w.value]
      [] w.register = "RWVC1" -> [e EXCEPT !.config.rwvc1 = w.value]
      [] w.register = "WCLOCK" -> [e EXCEPT !.config.wclock = w.value]
      [] w.register = "TOGGLECTXT" -> Latch(e, e.next)
=============================================================================
