----------------------------- MODULE MCGraphics -----------------------------
(* Prepared boards, descriptor chains and driver scripts for Graphics.         *)
EXTENDS Graphics

Compute1 == [kind |-> "none"]
Reg(window, register, value) == [kind |-> "write", window |-> window, register |-> register, value |-> value, bits |-> {}]
Select(n) == Reg("Config", "CONFIGSEL", n)
ToVc1(value) == Reg("ConfigGo", "RWVC1", value)
Control(bits) == [ToVc1(0) EXCEPT !.bits = bits]
ToDac(value) == Reg("ConfigGo", "RWDAC", value)
From(window, register) == [kind |-> "read", window |-> window, register |-> register]

\* Bytes to a VC1 memory from an address on; the bank of the palette.
Poke(ram, address, bytes) ==
    <<Select(5), ToVc1(address \div 256), Select(4), ToVc1(address % 256), Select(ram)>>
        \o [i \in 1..Len(bytes) |-> ToVc1(bytes[i])]
Bank(n) == <<Select(0), ToDac(CommandRegister0), Select(6), ToDac(16 * n)>>

Command(window, opcode, flags) ==
    [kind |-> "write", window |-> window, register |-> "COMMAND", opcode |-> opcode, flags |-> flags, rop |-> 3]
Planes(group, masks, inside) ==
    [kind |-> "write", window |-> "Drawing", register |-> "AUX2", group |-> group, masks |-> masks, inside |-> inside]
Aux1(flags) == [kind |-> "write", window |-> "Drawing", register |-> "AUX1", flags |-> flags]
Set(register, bits) == [kind |-> "write", window |-> "Drawing", register |-> register, bits |-> bits]
Colored(component, value) ==
    [kind |-> "write", window |-> "Drawing", register |-> "COLOR", component |-> component, value |-> value * ColorOne]
At(register, pixel) == Reg("Drawing", register, (Bias + pixel) * One)
End(register, pixel) == Reg("Drawing", register, Bias + pixel)
Area(x0, y0, x1, y1) == <<At("XSTART", x0), At("YSTART", y0), End("XEND", x1), End("YEND", y1)>>
Screen(register, window) ==
    [kind |-> "write", window |-> window, register |-> register, mask |-> 2, rectangle |-> <<0, 1, 0, 1>>]
Window(x, y) == [kind |-> "write", window |-> "Config", register |-> "XYWIN", pair |-> <<x, y>>]
Word(window, bytes) == [kind |-> "write", window |-> window, register |-> "RWAUX1", word |-> bytes]

\* What a driver leaves behind: a raster of three lines, two display modes and
\* their tables, a palette of two banks, and a cursor of one dot.
BootedVc1 ==
    [NewVc1 EXCEPT
        !.sram = (1 :> 3) @@ (17 :> 32) @@ (19 :> 32) @@ (33 :> 1) @@ (35 :> 2 * 32 + 1) @@ (48 :> 128),
        !.control = (DID_EP + 1 :> 16) @@ (CUR_EP + 1 :> 48) @@ (CUR_XL + 1 :> 1) @@ (CUR_YL + 1 :> 1),
        !.xmap = (3 :> 4), !.total_lines = 3]
BootedDac ==
    [NewBt479 EXCEPT !.palette = (1 :> <<10, 0, 0>>) @@ (2 :> <<20, 0, 0>>) @@ (257 :> <<30, 0, 0>>)
                                   @@ (OverlayPaletteBase + 1 :> <<40, 0, 0>>)]
BootedRegisters == [NewRegisters EXCEPT !.group = "Pixel", !.rwmask = 0..7, !.color[1] = ColorOne, !.opcode = "DRAW"]
BootedRex == [NewRex1 EXCEPT !.next = BootedRegisters, !.current = BootedRegisters]
Booted == [NewLg1 EXCEPT !.vc1 = BootedVc1, !.dac = BootedDac, !.rex = BootedRex]
Lit == [Booted EXCEPT !.vc1.system_control = {"VC1", "DID", "CURSOR"}]
Board(b, script) == FoldLeft(WriteLg1, b, script)

Memory(bytes) ==
    [c \in {<<1, i>> : i \in DOMAIN bytes} |-> bytes[c[2]]]
NoDescriptors == <<>>
Scenario(b, script, ops, extra) ==
    [board |-> b, pic |-> P!NewPic1, modules |-> [i \in 1..4 |-> IF i = 1 THEN MemoryUnit ELSE 0],
     memory |-> Memory([i \in 8..23 |-> i]), descriptors |-> NoDescriptors,
     script |-> script, ops |-> ops, limit |-> Len(script) + extra, upload |-> <<>>]

-----------------------------------------------------------------------------
\* Drawing: every kind of primitive, in every group of planes, under masks.
Go1(flags) == Command("DrawingGo", "DRAW", flags)
Primitives ==
    {Go1({}), Go1({"XMAJOR", "STOPONX"}), Go1({"STOPONY"}), Go1({"QUADMODE", "STOPONX"}),
     Go1({"BLOCK", "QUADMODE", "STOPONX", "STOPONY", "LOGICSRC"}), Go1({"BLOCK", "STOPONX", "ENZPATTERN", "ZOPAQUE"}),
     Go1({"ENLSPATTERN", "QUADMODE", "STOPONX"}), Go1({"BLOCK", "COLORAUX", "RGBMODE", "XYCONTINUE"}),
     Go1({"COLORAUX", "QUADMODE", "STOPONX"}), Command("DrawingGo", "LDPIXEL", {})}
Drawing ==
    {Scenario(Board(Lit, Area(0, 0, 2, 1) \o <<Set("ZPATTERN", {31, 29}), Set("LSPATTERN", {31}),
                                                Word("Drawing", <<1, 0, 2, 1>>), Aux1(aux), Screen("SMASK", "Config"),
                                                Planes(group, masks, inside)>>),
              <<Compute1, Compute1>>, Primitives \cup {Compute1, At("YSTART", 1), Colored(1, 2)}, 3)
        : group \in {"Pixel", "Overlay", "Cid"}, aux \in {{}, {"DOUBLE", "WRITEONE"}},
          masks \in {{2}}, inside \in {{}, {2}}}

\* The registers that shape a primitive, and commands that depend on them.
Signed(register, component, negative, value) ==
    [kind |-> "write", window |-> "Drawing", register |-> register, component |-> component,
     negative |-> negative, value |-> value]
Shaping ==
    {Signed("MINORSLOPE", 1, FALSE, One), Signed("MINORSLOPE", 1, TRUE, One), Signed("SLOPE", 1, TRUE, ColorOne),
     Signed("SLOPE", 1, FALSE, 2^19), [kind |-> "write", window |-> "Drawing", register |-> "XYMOVE", pair |-> <<1, 0>>],
     [kind |-> "write", window |-> "Drawing", register |-> "XSTATE", value |-> 2, back |-> 1, bits |-> 0..7, rop |-> 6,
      flags |-> {"LSOPAQUE"}],
     [kind |-> "write", window |-> "Drawing", register |-> "LSMODE", length |-> 0, repeat |-> 0],
     [kind |-> "write", window |-> "Drawing", register |-> "SMASK1", rectangle |-> <<1, 2, 0, 1>>],
     Reg("Drawing", "COLORBACK", 2), Reg("Drawing", "XSAVE", Bias + 1), Reg("ConfigGo", "TOGGLECTXT", 0),
     Go1({"XMAJOR", "STOPONX", "ENLSPATTERN", "SHADE"}), Go1({"BLOCK", "QUADMODE", "STOPONX", "STOPONY", "COLORCOMP", "SHADE"}),
     Go1({"QUADMODE", "STOPONX", "RGBMODE", "DITHER"}), Go1({"BLOCK", "QUADMODE", "STOPONX", "STOPONY", "LOGICSRC"}),
     Go1({"BLOCK", "QUADMODE", "XYCONTINUE", "STOPONX", "ENLSPATTERN"})}
Shaded ==
    {Scenario(Board(Lit, Area(0, 0, 2, 1) \o <<Set("LSPATTERN", {31, 30}), Aux1(aux), Planes("Pixel", {1}, inside), Colored(1, 1)>>),
              <<Compute1>>, Shaping \cup {Compute1}, 3)
        : aux \in {{"DITHERRANGE", "EQ"}, {"DOUBLE", "WRITEZERO", "WRITEONE", "READONE", "GT", "DITHERRANGE"}}, inside \in {{}, {1}}}

\* The tables the frame is composed of, and the signal, written in any order.
Tables ==
    {Scenario(Board(Lit, Area(0, 0, 2, 1) \o <<Go1({"BLOCK", "QUADMODE", "STOPONX", "STOPONY"})>> \o prepared),
              <<Compute1, Compute1>>, ops \cup {Compute1}, 4)
        : <<prepared, ops>> \in
            {<<Poke(0, DID_EP + 1, <<>>), {ToVc1(17), ToVc1(16), From("ConfigGo", "RWVC1")}>>,
             <<Poke(0, CUR_XL + 1, <<>>), {ToVc1(2), ToVc1(1)}>>,
             <<Poke(0, CUR_MODE, <<>>), {ToVc1(4), ToVc1(0)}>>,
             <<Poke(1, 1, <<>>), {ToVc1(4), ToVc1(0), ToVc1(3)}>>,
             <<Poke(2, 34, <<>>), {ToVc1(0), ToVc1(32), From("ConfigGo", "RWVC1")}>>,
             <<Poke(2, 1, <<>>), {ToVc1(4), ToVc1(1), ToVc1(0)}>>,
             <<Poke(3, 1, <<>>), {ToVc1(1)}>>,
             <<Poke(0, VID_LC, <<>>), {From("ConfigGo", "RWVC1")}>>,
             <<<<Select(6)>>, {Control({"VTG"}), Control({}), Control({"VC1"}), Control({"VC1", "DID", "CURSOR"})}>>,
             <<Bank(1) \o <<Select(0), ToDac(1), Select(1)>>, {ToDac(5), ToDac(0), From("ConfigGo", "RWDAC")}>>,
             <<<<Select(3)>>, {ToDac(1), Select(1), From("ConfigGo", "RWDAC")}>>,
             <<<<Select(5)>>, {ToDac(3), From("ConfigGo", "RWDAC"), Select(7), Select(4), Select(2)}>>,
             <<<<Select(4)>>, {From("ConfigGo", "WCLOCK"), Reg("ConfigGo", "WCLOCK", 2), Window(1, 0)}>>}}

-----------------------------------------------------------------------------
\* Chains of descriptors that upload a rectangle two pixels wide, or fail.
Descriptor(buffer, width, mode, lines, next, last) ==
    [buffer |-> buffer, full_page |-> FALSE, width |-> width, mode |-> mode, destination |-> 0, host_stride |-> 1,
     graphics_stride |-> 4, line_increment |-> FALSE, stride_increment |-> FALSE, lines |-> lines, next |-> next,
     last |-> last]
Pic(kind, fields) == fields @@ [kind |-> "pic", register |-> kind]
CpuControl(sync, interrupt, initialize) ==
    Pic("CPU_CONTROL", [sync |-> sync, interrupt |-> interrupt, initialize |-> initialize])
Base(address) == Pic("DESCRIPTOR_ARRAY_BASE", [address |-> address])
StartUp == Pic("GRAPHICS_START", [value |-> 0])
Configure(window) == Pic("MEMORY_CONFIGURATION", [index |-> 1, window |-> window])
Receiving == {"BLOCK", "QUADMODE", "XYCONTINUE", "COLORAUX"}
Uploading(b, descriptors, script, ops, extra, upload) ==
    [Scenario(b, script, ops, extra) EXCEPT !.descriptors = descriptors, !.upload = upload,
         !.pic = [P!NewPic1 EXCEPT !.base = 32]]
Canvas(opcode) == Board(Lit, Area(1, 0, 2, 2) \o <<Command("Drawing", opcode, Receiving)>>)
Other == {Compute1, From("Config", "AUX2"), CpuControl(TRUE, TRUE, FALSE), Configure(<<0, 1>>)}

Uploads ==
    {Uploading(Canvas("DRAW"), (32 :> Descriptor(8, 2, 0, first, 40, first = 2)) @@ (40 :> Descriptor(17, 2, 0, 1 - (first % 2), 0, TRUE)),
               <<Compute1, StartUp, StartUp>>, Other, 6, <<[descriptor |-> 32, x |-> 1, y |-> 0, width |-> 2]>>)
        : first \in 0..2}

\* The port of a wrong address, a mode with no direction, a descriptor across a
\* page or past memory, a line past memory, lines of nothing and of a page.
Failures ==
    {Uploading(b, descriptors, <<Base(base), Configure(window), CpuControl(TRUE, TRUE, FALSE), StartUp>>,
               {Compute1, CpuControl(FALSE, FALSE, FALSE), Pic("CLEAR_ERROR", [value |-> 0])}, 4, <<>>)
        : b \in {Canvas("DRAW"), NoBoard}, base \in {32, 30, 60, 200}, window \in {<<0, 1>>, <<1, 1>>},
          descriptors \in {32 :> d : d \in {[Descriptor(8, 2, 0, 0, 0, TRUE) EXCEPT !.destination = 4],
                                           [Descriptor(8, 2, 0, 1, 0, TRUE) EXCEPT !.stride_increment = TRUE],
                                           Descriptor(8, 2, 3, 0, 0, TRUE), Descriptor(62, 3, 0, 0, 0, TRUE),
                                           Descriptor(8, 0, 0, 1, 0, TRUE),
                                           [Descriptor(8, 1, 2, 0, 0, TRUE) EXCEPT !.full_page = TRUE]}}}
Readback ==
    {Uploading(Canvas("LDPIXEL"), 32 :> Descriptor(buffer, 4, 2, 1, 0, TRUE), <<StartUp>>,
               {Compute1, From("DrawingGo", "RWAUX1")}, 4, <<>>) : buffer \in {24, 60}}

Usual == Drawing \cup Shaded \cup Tables \cup Uploads \cup Failures \cup Readback

\* A machine reset by the guest: with nothing on the screen, with the picture the
\* board has shown since the last raster, and without a board.
Rebooting == {Compute1, CpuControl(FALSE, FALSE, TRUE)}
Resets == {Scenario(Booted, <<Compute1>>, Rebooting \cup {StartUp}, 3),
           Scenario(Board(Lit, Area(0, 0, 2, 1) \o <<Go1({"BLOCK", "QUADMODE", "STOPONX", "STOPONY"})>>),
                    <<Compute1, Compute1, Select(6)>>, Rebooting \cup {Select(6), Control({"VTG"}), Control({"VC1", "DID"})}, 6),
           Scenario(NoBoard, <<CpuControl(TRUE, FALSE, FALSE), StartUp>>, Rebooting, 3)}
AllScenarios == Usual \cup Resets

=============================================================================
