----------------------------- MODULE MCChipset ------------------------------
(***************************************************************************)
(* Instances of Chipset for TLC: words of four pixels, a chip RAM of 32    *)
(* words, frames of 11 lines of 20 clocks.  As in the machine, a frame has *)
(* more lines and a line more clocks than the copper can compare.          *)
(***************************************************************************)
EXTENDS Picture, TLC

Write(register, value)          == [register |-> register, index |-> 0, value |-> value]
WriteAt(register, index, value) == [register |-> register, index |-> index, value |-> value]

(* Chip RAM holds no two words alike next to each other. *)
Pattern == [a \in 0 .. RamWords - 1 |-> {x \in 0 .. 3 : (7 * a + 3 * x + a * x) % 5 < 2}]

ZeroPair == [op |-> "ZERO"]
NoLists == [copper |-> <<>>, control |-> <<>>, copinit |-> 0, later |-> {}]

BlitSetup(writes) == [ram |-> Pattern, program |-> writes] @@ NoLists

-----------------------------------------------------------------------------
(* Area blits *)

Con0(use, ash, minterm) ==
  Write("BLTCON0", [use |-> use, ash |-> ash, minterm |-> minterm])
Con1(bits, bsh) == Write("BLTCON1", [bits |-> bits, bsh |-> bsh])

CopyA == 4 .. 7             \* minterm $F0
CookieCut == {1, 3, 6, 7}   \* minterm $CA
Exclusive == {1, 3, 4, 6}   \* minterm $5A
Majority == {3, 5, 6, 7}    \* minterm $E8

Descending(desc) == IF desc THEN {1} ELSE {}

(* Moves of a block, onto itself among others, between rows of any pitch.  *)
Moves ==
  {<<Con0({"A", "D"}, ash, CopyA), Con1(Descending(desc), 0),
     Write("BLTAFWM", mask[1]), Write("BLTALWM", mask[2]),
     WriteAt("BLTPT", "A", 24), WriteAt("BLTPT", "D", 24 + distance),
     WriteAt("BLTMOD", "A", modulo), WriteAt("BLTMOD", "D", modulo),
     Write("BLTSIZE", <<size[1], size[2]>>)>> :
     ash \in {0, 1, 3}, desc \in BOOLEAN, mask \in {<<0 .. 3, 0 .. 3>>, <<{0, 1}, {1, 2, 3}>>},
     distance \in {-4, -2, 0, 2, 6, 32}, modulo \in {-2, 0, 4},
     size \in {<<1, 1>>, <<1, 3>>, <<2, 2>>, <<3, 1>>, <<2, 3>>}}

Mixes ==
  {<<Con0({"A", "B", "C", "D"}, ash, minterm), Con1(Descending(desc), bsh),
     WriteAt("BLTPT", "A", 8), WriteAt("BLTPT", "B", 20),
     WriteAt("BLTPT", "C", 40), WriteAt("BLTPT", "D", 40),
     WriteAt("BLTMOD", "B", 2), WriteAt("BLTMOD", "D", 2),
     Write("BLTSIZV", 2), Write("BLTSIZH", width)>> :
     ash \in {0, 2}, bsh \in {0, 3}, minterm \in {CookieCut, Exclusive, Majority},
     desc \in BOOLEAN, width \in 1 .. 2}

(* Channels that are off take their data registers.  The minterm is set    *)
(* again through the low byte of BLTCON0.                                  *)
Constants ==
  {<<Con0(use, 1, CopyA), Con1(Descending(desc), bsh), Write("BLTCON0L", Majority),
     Write("BLTADAT", {0, 3}), Write("BLTBDAT", {1, 2}), Write("BLTBDAT", {0, 2}),
     Write("BLTCDAT", {1, 3}),
     WriteAt("BLTPT", "A", 16), WriteAt("BLTPT", "B", 16), WriteAt("BLTPT", "C", 30),
     WriteAt("BLTPT", "D", 40), Write("BLTSIZE", <<2, width>>)>> :
     use \in {{"D"}, {"B", "D"}, {"C", "D"}, {"A"}, {"A", "C", "D"}},
     bsh \in {0, 1}, desc \in BOOLEAN, width \in 1 .. 2}

Fills ==
  {<<Con0({"A", "D"}, 0, CopyA), Con1(Descending(desc) \cup mode \cup carry, 0),
     WriteAt("BLTPT", "A", source), WriteAt("BLTPT", "D", target),
     Write("BLTSIZE", <<2, width>>)>> :
     desc \in BOOLEAN, mode \in {{3}, {4}, {3, 4}}, carry \in {{}, {2}},
     source \in {14, 22}, target \in {22, 50}, width \in 1 .. 3}

-----------------------------------------------------------------------------
(* Lines on a raster of eight by six pixels, two words to a row *)

Size(n) == IF n < 0 THEN -n ELSE n

LineProgram(x, y, dx, dy, texture, mode, minterm) ==
  LET wide  == Size(dx) >= Size(dy)
      major == IF wide THEN Size(dx) ELSE Size(dy)
      minor == IF wide THEN Size(dy) ELSE Size(dx)
      start == 4 * y + 2 * (x \div 4) + 8
      bits  == {0} \cup mode
               \cup (IF wide THEN {4} ELSE {})
               \cup (IF (IF wide THEN dx ELSE dy) < 0 THEN {2} ELSE {})
               \cup (IF (IF wide THEN dy ELSE dx) < 0 THEN {3} ELSE {})
               \cup (IF 2 * minor < major THEN {6} ELSE {})
  IN  <<Con0({"A", "C", "D"}, x % 4, minterm), Con1(bits, texture[1]),
        Write("BLTADAT", {3}), Write("BLTBDAT", texture[2]),
        WriteAt("BLTPT", "A", (4 * minor - 2 * major) % 65536),
        WriteAt("BLTPT", "C", start), WriteAt("BLTPT", "D", start),
        WriteAt("BLTMOD", "A", 4 * (minor - major)), WriteAt("BLTMOD", "B", 4 * minor),
        WriteAt("BLTMOD", "C", 4), Write("BLTSIZE", <<major + 1, 2>>)>>

DrawnLines ==
  UNION {{LineProgram(p[1], p[2], x - p[1], y - p[2], texture, mode, minterm) :
            x \in 0 .. 7, y \in 0 .. 5} :
           p \in {<<0, 0>>, <<7, 5>>, <<3, 2>>},
           texture \in {<<0, 0 .. 3>>, <<1, {0, 2, 3}>>}, mode \in {{}, {1}},
           minterm \in {CookieCut, {1, 3, 6}}}

-----------------------------------------------------------------------------
(* Frames *)

Move(register, index, value) == [op |-> "MOVE"] @@ WriteAt(register, index, value)
Beam(op, v, h) == [op |-> op, v |-> v, h |-> h, vmask |-> 0 .. 2, hmask |-> 0 .. 3]
Colour(n) == Move("COLOR00", 0, n)

(* A list that sets the pointers, then does what body says, at an address. *)
List(body) ==
  <<Move("BPLPT", 0, 16), Move("BPLPT", 1, 100), Move("SPRPT", 0, 0), Move("SPRPT", 1, 60)>>
    \o body

(* Two lists in memory, the second at address 24. *)
Memory(first, second) ==
  [a \in 0 .. 50 |-> IF a < Len(first) THEN first[a + 1]
                     ELSE IF a - 24 \in 0 .. Len(second) - 1 THEN second[a - 23]
                     ELSE ZeroPair]

EndOfList == Beam("WAIT", 7, 15)

(* Something in memory behind the end of a list. *)
PastTheEnd == <<Beam("WAIT", 3, 5), Colour(1), EndOfList, Colour(3)>>

(* Two colours for one line; the copper comes to the second WAIT when the  *)
(* beam is past its place, in the part of the line HorBits do not count.   *)
LateWait == <<Beam("WAIT", 3, 10), Colour(1), Beam("WAIT", 3, 12), Colour(2), EndOfList>>

(* A colour at each of two places, in order down the screen. *)
Bands ==
  {<<Beam("WAIT", v[1], h), Colour(1), Beam("WAIT", v[2], g), Colour(2), EndOfList>> :
     v \in {<<3, 3>>, <<3, 4>>, <<4, 6>>, <<2, 7>>}, h \in {0, 5}, g \in {11, 15}}
  \cup {PastTheEnd, LateWait}

Branching ==
  {<<Beam("WAIT", 3, 2), Colour(1), Colour(2), Beam("SKIP", v, 6), Colour(3),
     Move("BPLPT", 0, 40), Move("DSKPTH", 0, 1), Beam("WAIT", 5, 9), Colour(1),
     Move("COPJMP2", 0, 0)>> : v \in 2 .. 4}
  \cup {<<Colour(3), [Beam("WAIT", 1, 9) EXCEPT !.vmask = {}], Colour(1),
          [Beam("WAIT", 4, 3) EXCEPT !.hmask = {0, 1}], Colour(2), EndOfList>>,
          <<Beam("WAIT", 3, 15), Colour(1), Beam("WAIT", 3, 12), Colour(2), Colour(3), Colour(1),
            EndOfList>>}

Second == <<Colour(1), Beam("WAIT", 6, 3), Move("BPLPT", 1, 16), Colour(2), EndOfList>>

(* The control words of sprite lists: images of two or more lines. *)
Controls(images, words, base) ==
  LET at[n \in 0 .. Len(images)] ==
        IF n = 0 THEN base
        ELSE at[n - 1] + 4 + 4 * words * (images[n][2] - images[n][1])
  IN  [n \in {at[k] : k \in 0 .. Len(images)} |->
         LET k == CHOOSE k \in 0 .. Len(images) : at[k] = n
         IN  IF k = Len(images) THEN [vstart |-> 0, vstop |-> 0]
                                ELSE [vstart |-> images[k + 1][1], vstop |-> images[k + 1][2]]]

ImageLists ==
  {<<>>} \cup ({<<<<a, b>>>> : a \in 3 .. 5, b \in {6, 7, 9}} \ {<<<<5, 6>>>>})
  \cup {<<<<3, 5>>, <<6, 8>>>>, <<<<3, 6>>, <<8, 10>>>>}

Program(window, fetch, modulo, words, start) ==
  <<Write("BPLCON0", [planes |-> 2, hires |-> window.hires]),
    Write("DIWSTRT", <<2, window.left>>), Write("DIWSTOP", <<window.bottom, window.right>>),
    Write("DDFSTRT", fetch[1]), Write("DDFSTOP", fetch[2]),
    Write("BPL1MOD", modulo[1]), Write("BPL2MOD", modulo[2]), Write("FMODE", words),
    Write("COP1LC", 0), Write("COP2LC", 24),
    Write("DMACON", [set |-> TRUE, bits |-> {"MASTER", "COPPER", "BITPLANE"}])>> \o start

Strobe == <<Write("COPJMP1", 0)>>

FrameSetup(writes, body, images, words, copinit, later) ==
  [ram |-> Pattern, program |-> writes,
   copper |-> Memory(List(body), List(Second)),
   control |-> Controls(images, words, 0) @@ Controls(<<<<4, 7>>>>, words, 60),
   copinit |-> copinit, later |-> later]

Windows == {[hires |-> FALSE, left |-> 4, right |-> 4, bottom |-> 7],
            [hires |-> FALSE, left |-> 7, right |-> 6, bottom |-> 1],
            [hires |-> TRUE, left |-> 5, right |-> 2, bottom |-> 6]}

Wide == CHOOSE w \in Windows : w.hires

(* Windows, fetches and modulos under one list. *)
Screens ==
  {FrameSetup(Program(w, fetch, modulo, 1, Strobe),
              <<Beam("WAIT", 4, 5), Move("BPLPT", 0, 64), EndOfList>>, <<>>, 1, 0, {}) :
     w \in Windows, fetch \in {<<0, 0>>, <<2, 4>>, <<1, 5>>, <<4, 2>>},
     modulo \in {<<0, 0>>, <<6, -4>>}}

(* Lists, started by a strobe or by the next frame, with a guest that      *)
(* starts one again, changes lists between frames, or stops all DMA.       *)
Later == {<<Write("COPJMP1", 0)>>, <<Write("COP1LC", 24)>>,
          <<Write("DMACON", [set |-> FALSE, bits |-> {"COPPER", "BITPLANE", "SPRITE"}])>>,
          <<Write("DMACON", [set |-> TRUE, bits |-> {"COPPER", "BITPLANE"}]),
            Write("COPJMP2", 0),
            Write("INTREQ", [set |-> FALSE, bits |-> {"VERTB"}]),
            Write("INTENA", [set |-> TRUE, bits |-> {"VERTB"}])>>}

Copperlists ==
  {FrameSetup(Program(Wide, <<2, 4>>, <<0, 0>>, 1, start), body, <<>>, 1, 0, {}) :
     body \in Bands \cup Branching, start \in {Strobe, <<>>}}
  \cup {FrameSetup(Program(Wide, <<2, 4>>, <<2, 2>>, 1, <<>>),
                   <<Beam("WAIT", 3, 5), Colour(1), Beam("WAIT", 6, 11), Colour(2), EndOfList>>,
                   <<>>, 1, copinit, {[line |-> line, writes |-> one],
                                      [line |-> 10, writes |-> other]}) :
          copinit \in {0, 24}, line \in {2, 5}, one \in Later, other \in Later}

SpriteSetups ==
  {FrameSetup(Program(Wide, <<2, 4>>, <<0, 0>>, words, Strobe), <<EndOfList>>, images, words,
              0, {}) :
     images \in ImageLists, words \in {1, 2, 4}}

MCSetups ==
  {BlitSetup(p) : p \in Moves \cup Mixes \cup Constants \cup Fills \cup DrawnLines}
    \cup Screens \cup Copperlists \cup SpriteSetups
=============================================================================
