------------------------------- MODULE MCCards -------------------------------
(* The storage and graphics cards, one per rig; a behaviour is one rig's. *)
EXTENDS Mirage, GraphicsBoards, CirrusBlit, Blitter, Renderer, Introspect

VARIABLE rig

MCCatalog == {[width |-> 2, height |-> 2, format |-> "RGB_565"],
              [width |-> 1, height |-> 3, format |-> "RGBX_8888"]}

MCModes == [width : {1}, height : {0, 3}, height_hi : 0..1, pitch : {2, 3}, pitch_hi : 0..1,
            start : {0, 1}, depth : {"Bpp8"}]

(* A copy, forwards or backwards, close enough to overlap; a raster operation
   and a colour key. *)
Copies ==
    {[NoBlit EXCEPT !.width = w, !.height = 2, !.dst_pitch = dp, !.src_pitch = sp, !.dst = d,
          !.src = s, !.backwards = b, !.transparent = t, !.pixel_bytes = n, !.rop = o,
          !.key = <<1, 2>>, !.keymask = <<2, 0>>] :
        w \in 2..4, dp \in {3, 4}, sp \in {2, 4}, d \in {5, 9}, s \in {4, 5, 7, 10},
        b \in BOOLEAN, t \in BOOLEAN, n \in 1..2, o \in {"S", "S^D", "Sd"}}

(* Fills: a pattern of pixels or of bits, opaque, transparent or solid. *)
Fills ==
    {[NoBlit EXCEPT !.width = w, !.height = h, !.dst_pitch = 5, !.dst = d, !.src = 9,
          !.pattern = TRUE, !.expand = e, !.transparent = t, !.invert = i, !.solid = f,
          !.pixel_bytes = n, !.rop = o, !.fg = <<1, 2>>, !.bg = <<3, 0>>] :
        w \in {1, 4, 5}, h \in {1, 3}, d \in {0, 1}, e \in BOOLEAN, t \in BOOLEAN, i \in BOOLEAN,
        f \in BOOLEAN, n \in 1..2, o \in {"S", "SD", "0"}}

(* Bitmaps expanded from VRAM. *)
Bitmaps ==
    {[NoBlit EXCEPT !.width = w, !.height = h, !.dst_pitch = 4, !.src_pitch = 1, !.dst = d, !.src = s,
          !.backwards = b, !.expand = TRUE, !.transparent = t, !.invert = i, !.pixel_bytes = n,
          !.rop = o, !.fg = <<1, 2>>, !.bg = <<3, 0>>] :
        w \in {1, 3, 4}, h \in 1..3, d \in {0, 11}, s \in {3, 15}, b \in BOOLEAN, t \in BOOLEAN,
        i \in BOOLEAN, n \in 1..2, o \in {"S", "S+D", "~S"}}

(* Bytes fed by the guest, as pixels or as bits. *)
Feeds ==
    {[NoBlit EXCEPT !.width = w, !.height = h, !.dst_pitch = 4, !.dst = 2, !.system = TRUE,
          !.expand = e, !.transparent = t, !.dword = g, !.pixel_bytes = n, !.rop = "S",
          !.fg = <<1, 2>>, !.bg = <<3, 0>>, !.key = <<1, 1>>] :
        w \in {1, 3}, h \in 1..2, e \in BOOLEAN, t \in BOOLEAN, g \in BOOLEAN, n \in 1..2}

MCBlitConfigs == Copies \cup Fills \cup Bitmaps \cup Feeds

(* Area blits in a small bitmap: one, two or three sources, shifted and
   masked, both directions, with and without fill, near enough to overlap. *)
COOKIE == {<<1, 1, 0>>, <<1, 1, 1>>, <<0, 0, 1>>, <<0, 1, 1>>}
COPY == {<<1, b, c>> : b \in {0, 1}, c \in {0, 1}}

MCAreaBlits ==
    {[mode |-> "area", use |-> u[1], lf |-> u[2], ash |-> n, bsh |-> 2, desc |-> d, fill |-> f,
      fci |-> c, bltafwm |-> <<0, 1, 1, 1>>, bltalwm |-> m, width_words |-> w, height_rows |-> 2,
      pt |-> [A |-> a, B |-> 3, C |-> 6, D |-> 6], modulo |-> [A |-> 0, B |-> 1, C |-> o, D |-> o],
      dat |-> [A |-> <<1, 1, 0, 1>>, B |-> <<1, 0, 1, 0>>, C |-> <<0, 1, 1, 0>>],
      zero |-> TRUE, bltddat |-> Blank] :
        u \in {<<{"A", "D"}, COPY>>, <<{"A", "B", "C", "D"}, COOKIE>>, <<{"C", "D"}, COOKIE>>,
               <<{"A"}, COPY>>},
        n \in 0..W - 1, d \in BOOLEAN, f \in {"no", "ife", "efe"}, c \in 0..1,
        m \in {<<1, 1, 0, 1>>, <<1, 1, 1, 1>>}, w \in 1..2, a \in {5, 6, 7, 11}, o \in {0, 1}}

(* Lines from the middle of a bitmap of three words a row, in every octant. *)
MCLineBlits ==
    {[mode |-> "line", sud |-> o[1], sul |-> o[2], aul |-> o[3], sing |-> s, lf |-> l, ash |-> x,
      bsh |-> b, cpt |-> 7, bplmod |-> 3, acc |-> 4 * d[2] - 2 * d[1],
      sign |-> 4 * d[2] - 2 * d[1] < 0, amod |-> 4 * (d[2] - d[1]), bmod |-> 4 * d[2],
      adat |-> <<1, 0, 0, 0>>, bltafwm |-> Solid, bdat |-> t, height_rows |-> d[1] + 1,
      major |-> d[1], minor |-> d[2], zero |-> TRUE, bltddat |-> Blank] :
        o \in BOOLEAN \X BOOLEAN \X BOOLEAN, s \in BOOLEAN,
        l \in {COOKIE, {<<1, 1, 0>>, <<0, 0, 1>>, <<0, 1, 1>>}},
        x \in {0, 2, 3}, b \in {0, 1}, d \in {<<1, 0>>, <<1, 1>>, <<2, 1>>, <<3, 1>>, <<3, 2>>},
        t \in {<<1, 1, 1, 1>>, <<1, 0, 0, 1>>}}

(* Bitplane memory, and screens: two planes, one plane high resolution, an
   interlaced one whose modulo skips the other field's rows, a scrolled one,
   and one not yet switched on. *)
MCPlaneRam == [a \in 0..39 |-> [i \in 1..4 |-> ((a * a + i * (a + 2)) \div 3) % 2]]

MCSprite == [vstart |-> 2, vstop |-> 4, hstart |-> 5, rows |-> <<<<0, 1, 2, 3>>, <<3, 0, 0, 1>>>>]

Screen == [bplpt |-> <<2, 20>>, hires |-> FALSE, planes |-> 2, lace |-> FALSE, pf1h |-> 0,
           mod |-> <<0, 1>>, vstart |-> 1, vstop |-> 6, hstart |-> 1, hstop |-> 0, ddfstrt |-> 2,
           ddfstop |-> 4, color |-> [c \in 0..7 |-> c], dmacon |-> {"DMAEN", "BPLEN"},
           cop1lc |-> 1, cop2lc |-> 3]

MCScreens == {Screen,
              [Screen EXCEPT !.hires = TRUE, !.planes = 1, !.ddfstrt = 3],
              [Screen EXCEPT !.lace = TRUE, !.vstop = 4, !.mod = <<2, 2>>],
              [Screen EXCEPT !.hstart = 5, !.pf1h = 1, !.planes = 3],
              [Screen EXCEPT !.dmacon = {"DMAEN"}]}

Move(r, v) == [op |-> "move", reg |-> r, val |-> v]

Firsts == <<<<[op |-> "wait", vp |-> 2, ve |-> 7], [op |-> "move", reg |-> "color", index |-> 0, val |-> 8]>>,
            <<[op |-> "move", reg |-> "dmacon", set |-> FALSE, val |-> {"BPLEN"}],
              [op |-> "wait", vp |-> 1, ve |-> 1]>>>>

MCLists == {Firsts[1], Firsts[2]}

MCInstructions ==
    {[op |-> "wait", vp |-> 2, ve |-> 7], [op |-> "wait", vp |-> 3, ve |-> 7],
     [op |-> "wait", vp |-> 4, ve |-> 4],
     [op |-> "move", reg |-> "color", index |-> 0, val |-> 9],
     [op |-> "move", reg |-> "dmacon", set |-> TRUE, val |-> {"BPLEN"}],
     Move("mod", <<1, 0>>), Move("planes", 1), Move("cop1lc", 2),
     [op |-> "copjmp1"], [op |-> "copjmp2"], [op |-> "end"]}

(* A machine's boot: Exec at 4 with its lists, chip and perhaps fast RAM in
   the free list, the libraries, the boards' ConfigDevs (the input board's
   beside hostblk's), the driver, a boot node and what DOS mounts. *)
E == 4
Obj == [ready1 |-> 36, wait1 |-> 42, proc |-> 48, chipmem |-> 54, fastmem |-> 62, expansion |-> 70,
        dos |-> 78, root |-> 84, info |-> 86, devnode |-> 88, volume |-> 94, fssm |-> 100,
        port |-> 102, bootnode |-> 104, other |-> 110, hostblkdev |-> 116, slots |-> 124,
        inputcd |-> 130, hostblkcd |-> 140, residents |-> 150, rt |-> 153, copy |-> 156]
MCTasks == {Obj.ready1, Obj.wait1, Obj.proc}
MCStrings == (200 :> "expansion.library") @@ (201 :> "dos.library") @@ (202 :> "hostblk.device")
                @@ (204 :> "DH0") @@ (206 :> "Work") @@ (208 :> "a task")
MCBoards == [hostblk |-> 160, input |-> 164, pcibridge |-> 168]
MCSignature == [hostblk |-> 91, input |-> 92]
MCProduct == [hostblk |-> 1, input |-> 2, pcibridge |-> 3]
Node(n, type, name) == <<<<n + node.LN_TYPE, type>>, <<n + node.LN_NAME, name>>>>
FillOp(tag, cells) == [op |-> "fill", tag |-> tag, cells |-> cells]
InsertOp(l, n, k) == [op |-> "insert", list |-> l, node |-> n, k |-> k]
NewOp(l, type) == [op |-> "new", list |-> l, type |-> type]
TaskCells(t, type) == Node(t, type, 208) \o <<<<t + task.TC_STATE, 4>>>>
ConfigDevOp(board, cd) ==
    FillOp(board, <<<<cd + configdev.CD_ROM + expansionrom.ER_TYPE, 209>>,
                    <<cd + configdev.CD_ROM + expansionrom.ER_PRODUCT, MCProduct[board]>>,
                    <<cd + configdev.CD_ROM + expansionrom.ER_MANUFACTURER, 77>>,
                    <<cd + configdev.CD_ROM + expansionrom.ER_RESERVED_0C, 0>>,
                    <<cd + configdev.CD_BOARD_SIZE, 16>>,
                    <<cd + configdev.CD_BOARD_ADDR, MCBoards[board]>>>>)
FastRam == <<FillOp("fast", Node(Obj.fastmem, 10, 208) \o <<<<Obj.fastmem + memheader.MH_ATTRIBUTES, 5>>>>),
             InsertOp(E + execbase.MEM_LIST, Obj.fastmem, 1)>>
MCBoot(memory) ==
    <<NewOp(E + execbase.MEM_LIST, 10), NewOp(E + execbase.DEVICE_LIST, NT_DEVICE),
      NewOp(E + execbase.LIB_LIST, NT_LIBRARY), NewOp(E + execbase.TASK_READY, NT_TASK),
      NewOp(E + execbase.TASK_WAIT, NT_TASK),
      FillOp("tasks", TaskCells(Obj.ready1, NT_TASK) \o TaskCells(Obj.wait1, NT_TASK)
                        \o TaskCells(Obj.proc, NT_PROCESS)),
      FillOp("chip", Node(Obj.chipmem, 10, 208) \o <<<<Obj.chipmem + memheader.MH_ATTRIBUTES, 3>>>>),
      FillOp("residents", <<<<Obj.rt, resident.MATCH_WORD>>, <<Obj.rt + resident.RT_NAME, 201>>,
                            <<Obj.residents, Obj.rt>>, <<Obj.residents + 1, 0>>,
                            <<E + execbase.RES_MODULES, Obj.residents>>>>),
      FillOp("exec", <<<<E + node.LN_TYPE, NT_LIBRARY>>, <<E + execbase.CHK_BASE, OpenBus - E>>,
                       <<SYSBASE, E>>>>),
      InsertOp(E + execbase.MEM_LIST, Obj.chipmem, 1),
      NewOp(Obj.expansion + EXPANSIONBASE_MOUNT_LIST, 0),
      FillOp("lib", Node(Obj.expansion, NT_LIBRARY, 200)),
      InsertOp(E + execbase.LIB_LIST, Obj.expansion, 1)>>
    \o memory \o
    <<ConfigDevOp("input", Obj.inputcd), ConfigDevOp("hostblk", Obj.hostblkcd),
      FillOp("diag", <<<<Obj.copy, 91>>, <<Obj.copy + DIAG_MARKER_OFFSET, PROTOCOL_VERSION>>,
                       <<Obj.copy + BOOT_MARKER_OFFSET, 0>>,
                       <<Obj.hostblkcd + configdev.CD_ROM + expansionrom.ER_RESERVED_0C, Obj.copy>>>>),
      FillOp("driver", Node(Obj.hostblkdev, NT_DEVICE, 202)
                        \o <<<<Obj.hostblkdev + device.DEV_CAPACITY, 2>>,
                             <<Obj.hostblkdev + device.DEV_SLOTBASE, Obj.slots>>,
                             <<Obj.slots, 0>>, <<Obj.slots + 1, 0>>, <<Obj.slots + 3, 0>>,
                             <<Obj.slots + 4, 0>>>>),
      InsertOp(E + execbase.DEVICE_LIST, Obj.hostblkdev, 1),
      FillOp("devnode", <<<<Obj.devnode + doslist.DOL_TYPE, 0>>, <<Obj.devnode + doslist.DOL_TASK, 0>>,
                          <<Obj.devnode + doslist.DOL_NAME, 102>>,
                          <<Obj.devnode + doslist.DOL_STARTUP, Obj.fssm \div 2>>,
                          <<Obj.fssm, 1>>, <<Obj.fssm + 1, 9>>,
                          <<Obj.bootnode + BOOTNODE_BN_DEVICE_NODE, Obj.devnode>>,
                          <<Obj.other + BOOTNODE_BN_DEVICE_NODE, Obj.devnode>>>>),
      InsertOp(MountList, Obj.bootnode, 1), InsertOp(MountList, Obj.other, 1),
      FillOp("dos", Node(Obj.dos, NT_LIBRARY, 201)
                    \o <<<<Obj.dos + dosbase.DL_ROOT, Obj.root>>, <<Obj.root, Obj.info \div 2>>>>),
      [op |-> "chain", list |-> DosInfo], InsertOp(E + execbase.LIB_LIST, Obj.dos, 2),
      [op |-> "mount", list |-> DosInfo, node |-> Obj.devnode],
      FillOp("request", <<<<Obj.slots, 2>>, <<Obj.slots + 1, 5>>, <<Obj.slots + 2, Obj.proc>>>>),
      FillOp("mounting", <<<<Obj.port, Obj.proc>>, <<Obj.devnode + doslist.DOL_TASK, Obj.port>>,
                           <<Obj.volume + doslist.DOL_TYPE, 2>>, <<Obj.volume + doslist.DOL_TASK, Obj.port>>,
                           <<Obj.volume + doslist.DOL_NAME, 103>>>>),
      [op |-> "mount", list |-> DosInfo, node |-> Obj.volume],
      FillOp("alert", <<<<E + execbase.LAST_ALERT, 162>>>>)>>
MCBootsOf == {MCBoot(<< >>), MCBoot(FastRam)}

Rig(name, next, others) == rig = name /\ next /\ UNCHANGED <<rig, others>>

CardsInit ==
    /\ rig \in {"mirage", "rtg", "scanout", "blit", "blitter", "renderer", "inspect"}
    /\ MirageInit /\ RtgInit /\ CirrusInit /\ BlitInit /\ BlitterInit /\ RendererInit
    /\ IntrospectInit
    /\ rig # "renderer" => chip = Screen /\ copper = Firsts[1]
    /\ rig # "inspect" => gmem[0] = 0 /\ boot = MCBoot(<< >>)
    /\ (gmem[0] = 0) = (boot = MCBoot(<< >>))

CardsNext ==
    \/ Rig("mirage", MirageNext, <<rtg, cirrusVars, blitVars, blitterVars, rendererVars, introspectVars>>)
    \/ Rig("rtg", RtgNext, <<mirageVars, cirrusVars, blitVars, blitterVars, rendererVars, introspectVars>>)
    \/ Rig("scanout", ScanNext, <<mirageVars, rtg, blitVars, blitterVars, rendererVars, introspectVars>>)
    \/ Rig("blit", BlitNext, <<mirageVars, rtg, cirrusVars, blitterVars, rendererVars, introspectVars>>)
    \/ Rig("blitter", BlitterNext, <<mirageVars, rtg, cirrusVars, blitVars, rendererVars, introspectVars>>)
    \/ Rig("renderer", RendererNext, <<mirageVars, rtg, cirrusVars, blitVars, blitterVars, introspectVars>>)
    \/ Rig("inspect", IntrospectNext, <<mirageVars, rtg, cirrusVars, blitVars, blitterVars, rendererVars>>)

CardsSpec == CardsInit /\ [][CardsNext]_<<rig, mirageVars, rtg, cirrusVars, blitVars, blitterVars, rendererVars, introspectVars>>

(* --inspect reports the structures the guest had linked, wherever the run
   stopped it. *)
ReportIsTheGuests == rig = "inspect" => ReportMatches

=============================================================================
