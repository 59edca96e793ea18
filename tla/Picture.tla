------------------------------ MODULE Picture -------------------------------
(***************************************************************************)
(* What the custom chips promise: the result of a blit, of a line, of a    *)
(* copper list and of a sprite list, each defined without the sequence of  *)
(* steps the code computes it by, and the properties that say Chipset      *)
(* keeps these promises.                                                   *)
(***************************************************************************)
EXTENDS Chipset

LOCAL INSTANCE FiniteSetsExt

-----------------------------------------------------------------------------
(* Area blits as a function of the memory before them *)

Direction(b) == IF B!DESC \in b.con1 THEN -1 ELSE 1

(* Where channel k is for the n-th word of the blit. *)
Address(b, k, n) == b.pt[k] + Direction(b) * (2 * n + (n \div b.hsize) * b.mod[k])

(* Bit x of the n-th word of a channel whose words form one stream of      *)
(* pixels, delayed by shift pixels; the stream begins with zeros.          *)
StreamBit(word(_), n, x, shift, desc) ==
  LET q == n * WordBits + (IF desc THEN x ELSE WordBits - 1 - x) - shift
  IN  q >= 0 /\ (IF desc THEN q % WordBits ELSE WordBits - 1 - (q % WordBits))
                   \in word(q \div WordBits)

(* The logic function's output, before any filling. *)
LogicBit(b, ram, n, x) ==
  LET desc     == B!DESC \in b.con1
      aWord(i) == IF "A" \in b.use THEN ram[B!Cell(Address(b, "A", i))] ELSE b.adat
      a(i)     == {y \in aWord(i) : /\ i % b.hsize = 0 => y \in b.afwm
                                    /\ (i + 1) % b.hsize = 0 => y \in b.alwm}
      bWord(i) == ram[B!Cell(Address(b, "B", i))]
      inA      == StreamBit(a, n, x, b.ash, desc)
      inB      == IF "B" \in b.use THEN StreamBit(bWord, n, x, b.bsh, desc) ELSE x \in b.bhold
      inC      == x \in (IF "C" \in b.use THEN ram[B!Cell(Address(b, "C", n))] ELSE b.cdat)
  IN  (IF inA THEN 4 ELSE 0) + (IF inB THEN 2 ELSE 0) + (IF inC THEN 1 ELSE 0) \in b.minterm

(* The words a blit writes.  Filling sets what lies between two edges of a *)
(* row, counted from where the row begins: the inclusive fill keeps both   *)
(* edges, the exclusive one drops the second.                              *)
AreaWords(b, ram) ==
  LET logic == [n \in 0 .. b.vsize * b.hsize - 1 |->
                  {x \in B!Bits : LogicBit(b, ram, n, x)}]
      edges(n, x) == Cardinality({p \in ((n - (n % b.hsize)) .. n) \X B!Bits :
                                      /\ p[2] \in logic[p[1]]
                                      /\ p[1] < n \/ p[2] < x})
      open(n, x) == (edges(n, x) % 2 = 1) # (B!FCI \in b.con1)
      filled(n) == {x \in B!Bits :
                      IF B!IFE \in b.con1 THEN x \in logic[n] \/ open(n, x)
                                          ELSE (x \in logic[n]) # open(n, x)}
  IN  [n \in DOMAIN logic |-> IF b.con1 \cap {B!IFE, B!EFE} = {} THEN logic[n] ELSE filled(n)]

(* No word is overwritten before it is read: a result reaches memory after *)
(* the sources of the next word have been read.                            *)
ReadsAhead(b) ==
  \A m, n \in 0 .. b.vsize * b.hsize - 1 :
     m + 1 < n => \A k \in b.use \ {"D"} :
                     B!Cell(Address(b, "D", m)) # B!Cell(Address(b, k, n))

AreaResult(b, ram) ==
  LET words   == AreaWords(b, ram)
      writers == [c \in DOMAIN ram |->
                    {n \in DOMAIN words : "D" \in b.use /\ B!Cell(Address(b, "D", n)) = c}]
  IN  [c \in DOMAIN ram |-> IF writers[c] = {} THEN ram[c] ELSE words[Max(writers[c])]]

-----------------------------------------------------------------------------
(* Lines *)

(* A blitter set up to draw a line as the hardware manual says, for major  *)
(* steps one way and, in all, minor steps across.                          *)
LineSet(b) ==
  LET major == b.vsize - 1
      minor == b.mod["B"] \div 4
  IN  /\ B!LINE \in b.con1 /\ b.use = {"A", "C", "D"} /\ b.hsize = 2
      /\ b.mod["B"] % 4 = 0 /\ minor \in 0 .. major
      /\ b.mod["A"] = 4 * (minor - major)
      /\ b.pt["A"] = B!Wrap(4 * minor - 2 * major)
      /\ (B!SIGN \in b.con1) = (2 * minor < major)
      /\ b.pt["C"] = b.pt["D"] /\ b.afwm = B!Bits /\ b.adat = {WordBits - 1}
      /\ b.minterm \cap 0 .. 3 = {1, 3}

(* The line's k-th pixel is the nearest to the ideal line, half a pixel    *)
(* rounded away from its start.                                            *)
MinorOffset(b, k) ==
  LET major == b.vsize - 1
  IN  IF major = 0 THEN 0 ELSE (2 * k * (b.mod["B"] \div 4) + major) \div (2 * major)

RowOf(b, k) == IF B!SUD \in b.con1 THEN MinorOffset(b, k) ELSE k

(* The pixel's place, all rows of chip RAM laid out one after another. *)
PixelOf(b, k) ==
  LET row(n)    == n * b.mod["C"] * (WordBits \div 2)
      start     == (b.pt["C"] \div 2) * WordBits + b.ash
      toward(f) == IF f \in b.con1 THEN -1 ELSE 1
  IN  start + (IF B!SUD \in b.con1
               THEN toward(B!AUL) * k + row(toward(B!SUL) * MinorOffset(b, k))
               ELSE row(toward(B!AUL) * k) + toward(B!SUL) * MinorOffset(b, k))

(* With one dot to a row, only the first of a row's pixels is drawn. *)
LinePixels(b) == {k \in 0 .. b.vsize - 1 :
                    B!SING \notin b.con1 \/ k = 0 \/ RowOf(b, k) # RowOf(b, k - 1)}

LineResult(b, ram) ==
  [c \in DOMAIN ram |->
     {x \in B!Bits :
        LET at == {k \in LinePixels(b) : PixelOf(b, k) = c * WordBits + WordBits - 1 - x}
        IN  IF at = {} THEN x \in ram[c]
            ELSE LET k == CHOOSE k \in at : TRUE
                 IN  4 + (IF (b.bsh - k) % WordBits \in b.bdat THEN 2 ELSE 0)
                       + (IF x \in ram[c] THEN 1 ELSE 0) \in b.minterm}]

-----------------------------------------------------------------------------
(* The blitter as the write that starts it finds it. *)
StartedBlitter == [machine.blitter EXCEPT !.vsize = machine'.blitter.vsize,
                                          !.hsize = machine'.blitter.hsize]

StartsBlit == /\ program # <<>> /\ program' = Tail(program)
              /\ Head(program).register \in BlitStarters

(* A blit that overwrites nothing it has yet to read leaves in memory what *)
(* its minterm makes of the memory before it - shifted across words and    *)
(* rows, masked at both edges, filled between the edges of each row - and  *)
(* nothing else, also when it moves a block onto itself; its pointers end  *)
(* behind the last row, and it asks for its interrupt.                     *)
AreaBlits ==
  [][StartsBlit /\ B!LINE \notin StartedBlitter.con1 /\ ReadsAhead(StartedBlitter)
       => /\ machine'.ram = AreaResult(StartedBlitter, machine.ram)
          /\ \A k \in machine.blitter.use :
               machine'.blitter.pt[k] =
                 B!Wrap(Address(StartedBlitter, k, machine'.blitter.vsize * machine'.blitter.hsize))
          /\ "BLIT" \in machine'.intreq]_vars

(* A line in any octant has one pixel for each step along its major axis,  *)
(* each the nearest to the ideal line, drawn in the texture's phase and,   *)
(* in single-dot mode, once in a row; nothing else in memory changes.      *)
LinesDrawn ==
  [][StartsBlit /\ LineSet(StartedBlitter)
       => machine'.ram = LineResult(StartedBlitter, machine.ram)]_vars

-----------------------------------------------------------------------------
(* The copper's run through its list, instruction by instruction *)

(* Time counts clocks from the start of a frame, whose line Lines is the   *)
(* next frame's line 0.                                                    *)
BeamLine(t) == (t \div Clocks) % Lines
BeamClock(t) == t % Clocks
EndOfLine(line) == (line + 1) * Clocks - 1

(* A place of the beam as one number, in the bits an instruction keeps: the *)
(* line before the clock.                                                  *)
Place(i, v, h) == C!Kept(v, i.vmask \cup {VertBits - 1}) * (Clocks + 2^HorBits) + h

(* The beam, of whose line the copper has VertBits bits and of whose clock *)
(* HorBits bits, is at or past the place a WAIT or SKIP names.             *)
Reached(i, t) ==
  Place(i, BeamLine(t) % 2^VertBits, C!Kept(BeamClock(t), i.hmask))
    >= Place(i, i.v, C!Kept(i.h, i.hmask))

(* The writes the list makes until a time: three clocks to an instruction, *)
(* a WAIT as long as the beam has not met its place.                       *)
Never == EndOfLine(Lines) + 3

Run(until) ==
  LET run[n \in 0 .. (Never \div 3) + 1] ==
        IF n = 0 THEN [pc |-> pass.list, t |-> pass.from, writes |-> <<>>]
        ELSE LET s    == run[n - 1]
                 i    == setup.copper[s.pc]
                 at   == s.t + 2
                 met  == {t \in at .. until : Reached(i, t)}
             IN  IF at > until THEN s
                 ELSE IF i.op = "ZERO" THEN [s EXCEPT !.t = Never]
                 ELSE IF i.op = "MOVE"
                 THEN [s EXCEPT !.t = at + 1,
                                !.pc = IF i.register = "COPJMP2" THEN pass.second ELSE @ + 1,
                                !.writes = Append(@, [line |-> at \div Clocks, write |-> i])]
                 ELSE IF i.op = "SKIP"
                 THEN [s EXCEPT !.t = at + 1, !.pc = IF Reached(i, at) THEN @ + 2 ELSE @ + 1]
                 ELSE [s EXCEPT !.t = IF met = {} THEN Never ELSE Min(met) + 1,
                                !.pc = @ + 1]
  IN  run[(Never \div 3) + 1]

(* The last of these writes to a register, or none. *)
LastWrite(writes, register, index) ==
  LET found == {n \in DOMAIN writes : /\ writes[n].write.op = "MOVE"
                                      /\ writes[n].write.register = register
                                      /\ writes[n].write.index = index}
  IN  IF found = {} THEN <<>> ELSE <<writes[Max(found)]>>

ExpectedColour(writes) ==
  LET w == LastWrite(writes, "COLOR00", 0)
  IN  IF w = <<>> THEN pass.playfield.colour ELSE w[1].write.value

(* The address at which plane k's row for a line begins: one stride, all   *)
(* the fetched words and the modulo, for every line of the window since    *)
(* the pointer was set.                                                    *)
ExpectedRow(writes, k, line) ==
  LET w      == LastWrite(writes, "BPLPT", k)
      base   == IF w = <<>> THEN pass.playfield.pt[k] ELSE w[1].write.value
      since  == IF w = <<>> THEN pass.from \div Clocks ELSE w[1].line
      window == P!Window(pass.playfield)
      top    == IF since > window.top THEN since ELSE window.top
      bottom == IF line < window.bottom THEN line ELSE window.bottom
      rows   == IF bottom > top THEN bottom - top ELSE 0
      modulo == IF k % 2 = 0 THEN pass.playfield.mod1 ELSE pass.playfield.mod2
  IN  base + rows * (2 * P!FetchWords(pass.playfield) + modulo)

ExpectedPixel(writes, line, x) ==
  LET p      == pass.playfield
      window == P!Window(p)
      column == LeftEdge + (x \div 2)
      source == P!SourcePixel(p, x)
      word   == source \div WordBits
  IN  IF /\ p.planes > 0 /\ DmaOn(machine, "BITPLANE")
         /\ line \in window.top .. window.bottom - 1
         /\ column \in window.left .. window.right - 1
         /\ word < P!FetchWords(p)
      THEN [data |-> [k \in 0 .. p.planes - 1 |-> ExpectedRow(writes, k, line) + 2 * word],
            bit  |-> WordBits - 1 - (source % WordBits)]
      ELSE P!Background

DrawsLine == machine'.vpos # machine.vpos /\ InPicture(machine')
LineDrawn == framebuffer'[machine'.vpos - P!Window(machine'.playfield).top]


-----------------------------------------------------------------------------
(* Sprite lists *)

(* The images of a list at an address, and where the first of them is: one *)
(* follows the other, control words first, up to a pair that is zero.      *)
RECURSIVE Images(_, _)
Images(address, words) ==
  LET control == setup.control[address]
      height  == control.vstop - control.vstart
  IN  IF control.vstop = 0 THEN <<>>
      ELSE <<[top |-> control.vstart, bottom |-> control.vstop, image |-> address + 4]>>
             \o Images(address + 4 + height * S!ImageBytes(words), words)

(* A list the scanline handler copes with: the first image begins below    *)
(* the first line of the picture, each later one leaves a line to fetch    *)
(* its control words in, and none has just one line.                       *)
Displayable(images, first) ==
  /\ \A n \in DOMAIN images : images[n].bottom >= images[n].top + 2
  /\ images # <<>> => images[1].top > first
  /\ \A n \in 1 .. Len(images) - 1 : images[n + 1].top > images[n].bottom

ExpectedImage(images, words, line) ==
  LET shown == {n \in DOMAIN images : line \in images[n].top .. images[n].bottom - 1}
  IN  IF shown = {} THEN NoImage
      ELSE LET i == images[CHOOSE n \in shown : TRUE]
           IN  i.image + (line - i.top) * S!ImageBytes(words)

(* A sprite whose pointer the copper sets above the picture shows, on each *)
(* line, the line of the image its list has there, and shows nothing on    *)
(* the others, however often it is used again down the screen.             *)
SpritesShown ==
  [][DrawsLine /\ pass # NoPass
       => LET writes == Run(EndOfLine(machine'.vpos)).writes
              first  == P!Window(pass.playfield).top
          IN  \A i \in Sprite :
                LET w      == LastWrite(writes, "SPRPT", i)
                    images == Images(w[1].write.value, machine.fmode)
                IN  w # <<>> /\ w[1].line <= first /\ Displayable(images, first)
                      => LineDrawn.images[i] = ExpectedImage(images, machine.fmode, machine'.vpos)]_vars
=============================================================================
