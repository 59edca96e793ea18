------------------------------ MODULE Chipset -------------------------------
(***************************************************************************)
(* The custom chips as the emulator's frame loop drives them               *)
(* (crates/rumiga-core/src/emulator.rs, with chipset.rs): register writes  *)
(* of the guest's program and of the copper, and the scanline that moves   *)
(* the beam, runs the copper, draws a line and ends the frame.  The        *)
(* subsystems are the modules Blitter, Copper, Playfield and Sprites; the  *)
(* CIAs, the keyboard and the floppy, which the scanline also serves, are  *)
(* modules of their own.                                                   *)
(*                                                                         *)
(* A frame is Lines lines of Clocks clocks.  Pointers are written whole:   *)
(* chip RAM is small enough for their high words to stay zero.             *)
(***************************************************************************)
EXTENDS Integers, Sequences, FiniteSets

CONSTANTS WordBits, RamWords, VertBits, HorBits, Protected, NoImage,
          WindowBits, LeftEdge, LineWidth, StandardPhase, DefaultWords,
          Lines,          \* scanlines of a frame: 312 or 262
          Clocks,         \* colour clocks of a line: 227
          ActiveHeight,   \* lines of the framebuffer the standard shows
          Sprite,         \* the sprites: 0 .. 7 in the machine
          Setups,         \* what the guest has in memory, and its program
          NoPass

ASSUME FrameAssumption == /\ Lines \in Nat /\ Lines > 2^(VertBits - 1)
                          /\ Clocks \in Nat /\ Clocks > 2
                          /\ WordBits \in Nat \ {0} /\ RamWords \in Nat \ {0}
                          /\ 65536 % (2 * RamWords) = 0 /\ NoImage \notin Nat

B == INSTANCE Blitter
C == INSTANCE Copper
S == INSTANCE Sprites
P == INSTANCE Playfield WITH PixelBits <- WordBits

VARIABLES
  machine,       \* the registers of all the chips, chip RAM and the beam
  framebuffer,   \* the lines of the picture
  setup,         \* lists and sprite data in memory, fixed while it runs
  program,       \* register writes the guest's program has yet to make
  pass           \* the copper's run through its list, for the properties

vars == <<machine, framebuffer, setup, program, pass>>

BlankLine == [colour |-> 0, row |-> <<>>, images |-> [i \in Sprite |-> NoImage]]

MachineOff(ram) ==
  [blitter |-> B!PowerOn, ram |-> ram, copper |-> C!CopperOff, playfield |-> P!PlayfieldOff,
   sprites |-> [i \in Sprite |-> S!SpriteOff], fmode |-> 1, vpos |-> 0,
   dmacon |-> {}, intena |-> {}, intreq |-> {}]

-----------------------------------------------------------------------------
(* Register writes *)

(* dmaen, apply_set_clear *)
DmaOn(m, channel) == {channel, "MASTER"} \subseteq m.dmacon
SetClear(bits, value) == IF value.set THEN bits \cup value.bits ELSE bits \ value.bits

(* start_blitter_execution: the blit is over, and its interrupt requested, *)
(* before the write that started it returns.                               *)
RunBlit(m, b) == LET done == B!Blit(b, m.ram)
                 IN  [m EXCEPT !.blitter = done.blitter, !.ram = done.ram,
                               !.intreq = @ \cup {"BLIT"}]

(* dispatch_blitter_write *)
BlitterWrite(m, w) ==
  CASE w.register = "BLTCON0"  -> [m EXCEPT !.blitter.use = w.value.use,
                                            !.blitter.ash = w.value.ash,
                                            !.blitter.minterm = w.value.minterm]
    [] w.register = "BLTCON0L" -> [m EXCEPT !.blitter.minterm = w.value]
    [] w.register = "BLTCON1"  -> [m EXCEPT !.blitter.con1 = w.value.bits,
                                            !.blitter.bsh = w.value.bsh]
    [] w.register = "BLTAFWM"  -> [m EXCEPT !.blitter.afwm = w.value]
    [] w.register = "BLTALWM"  -> [m EXCEPT !.blitter.alwm = w.value]
    [] w.register = "BLTPT"    -> [m EXCEPT !.blitter.pt[w.index] = w.value]
    [] w.register = "BLTMOD"   -> [m EXCEPT !.blitter.mod[w.index] = w.value]
    [] w.register = "BLTADAT"  -> [m EXCEPT !.blitter.adat = w.value]
    [] w.register = "BLTBDAT"  -> [m EXCEPT !.blitter = B!LoadB(@, w.value)]
    [] w.register = "BLTCDAT"  -> [m EXCEPT !.blitter.cdat = w.value]
    [] w.register = "BLTSIZE"  -> RunBlit(m, B!LegacySize(m.blitter, w.value[1], w.value[2]))
    [] w.register = "BLTSIZV"  -> [m EXCEPT !.blitter = B!VerticalSize(@, w.value)]
    [] w.register = "BLTSIZH"  -> RunBlit(m, B!HorizontalSize(m.blitter, w.value))

BlitterRegisters == {"BLTCON0", "BLTCON0L", "BLTCON1", "BLTAFWM", "BLTALWM", "BLTPT",
                     "BLTMOD", "BLTADAT", "BLTBDAT", "BLTCDAT", "BLTSIZE", "BLTSIZV",
                     "BLTSIZH"}
BlitStarters == {"BLTSIZE", "BLTSIZH"}

(* dispatch_register_write.  The playfield's registers are also kept in a  *)
(* shadow every scanline reads back: it always holds the last value        *)
(* written.  A write of a sprite's pointer turns sprite DMA on.            *)
Dispatch(m, w) ==
  CASE w.register = "BPLCON0" -> [m EXCEPT !.playfield.planes = w.value.planes,
                                           !.playfield.hires = w.value.hires]
    [] w.register = "DIWSTRT" -> [m EXCEPT !.playfield.vstart = w.value[1],
                                           !.playfield.hstart = w.value[2]]
    [] w.register = "DIWSTOP" -> [m EXCEPT !.playfield.vstop = w.value[1],
                                           !.playfield.hstop = w.value[2]]
    [] w.register = "DDFSTRT" -> [m EXCEPT !.playfield.ddfstrt = w.value]
    [] w.register = "DDFSTOP" -> [m EXCEPT !.playfield.ddfstop = w.value]
    [] w.register = "BPL1MOD" -> [m EXCEPT !.playfield.mod1 = w.value]
    [] w.register = "BPL2MOD" -> [m EXCEPT !.playfield.mod2 = w.value]
    [] w.register = "BPLPT"   -> [m EXCEPT !.playfield.pt[w.index] = w.value]
    [] w.register = "COLOR00" -> [m EXCEPT !.playfield.colour = w.value]
    [] w.register = "FMODE"   -> [m EXCEPT !.fmode = w.value]
    [] w.register = "SPRPT"   -> [m EXCEPT !.sprites[w.index] = S!Pointed(@, w.value),
                                           !.dmacon = @ \cup {"SPRITE"}]
    [] w.register = "DMACON"  ->
         LET n == [m EXCEPT !.dmacon = SetClear(@, w.value)]
         IN  [n EXCEPT !.copper.enabled = DmaOn(n, "COPPER")]
    [] w.register = "INTENA"  -> [m EXCEPT !.intena = SetClear(@, w.value)]
    [] w.register = "INTREQ"  -> [m EXCEPT !.intreq = SetClear(@, w.value)]
    [] w.register = "COP1LC"  -> [m EXCEPT !.copper.lc1 = w.value]
    [] w.register = "COP2LC"  -> [m EXCEPT !.copper.lc2 = w.value]
    [] w.register = "COPJMP1" -> [m EXCEPT !.copper = C!Restart(@, @.lc1)]
    [] w.register = "COPJMP2" -> [m EXCEPT !.copper = C!Restart(@, @.lc2)]
    [] w.register \in BlitterRegisters -> BlitterWrite(m, w)

(* The copper's run through its list from a given line on. *)
PassFrom(m, line) ==
  IF m.copper.enabled THEN [list |-> m.copper.pc, from |-> line * Clocks,
                            playfield |-> m.playfield, second |-> m.copper.lc2]
                      ELSE NoPass

(* A write of the guest's program, in the processor's part of a scanline.  *)
(* A strobe starts the copper with the next line.  Unless the write leaves *)
(* the picture alone, what the rest of the pass should show is not said.   *)
GuestWrite ==
  /\ program # <<>>
  /\ \E w \in {Head(program)} : \E m \in {Dispatch(machine, w)} :
       /\ machine' = m
       /\ pass' = CASE w.register \in {"COPJMP1", "COPJMP2"} -> PassFrom(m, m.vpos + 1)
                    [] w.register \in BlitterRegisters \cup {"COP1LC", "INTENA", "INTREQ"}
                         -> pass
                    [] OTHER -> NoPass
  /\ program' = Tail(program)
  /\ UNCHANGED <<framebuffer, setup>>

-----------------------------------------------------------------------------
(* The scanline *)

(* The copper's clocks of line vpos.  A jump takes effect at once, every   *)
(* other write waits until the clocks of the line are over.                *)
CopperLine(copper, vpos) ==
  LET run[h \in 0 .. Clocks] ==
        IF h = 0 THEN [copper |-> copper, queue |-> <<>>]
        ELSE LET s    == run[h - 1]
                 step == C!Cycle(s.copper, setup.copper, vpos, h - 1)
                 w    == step.writes
             IN  IF w # <<>> /\ w[1].register = "COPJMP1"
                 THEN [s EXCEPT !.copper = C!Restart(step.copper, step.copper.lc1)]
                 ELSE IF w # <<>> /\ w[1].register = "COPJMP2"
                 THEN [s EXCEPT !.copper = C!Restart(step.copper, step.copper.lc2)]
                 ELSE [copper |-> step.copper, queue |-> s.queue \o w]
  IN  run[Clocks]

Dispatched(m, queue) ==
  LET run[n \in 0 .. Len(queue)] == IF n = 0 THEN m ELSE Dispatch(run[n - 1], queue[n])
  IN  run[Len(queue)]

AfterCopper(m) ==
  IF ~m.copper.enabled THEN m
  ELSE LET line == CopperLine(m.copper, m.vpos)
       IN  Dispatched([m EXCEPT !.copper = line.copper], line.queue)

(* A line belongs to the picture from the window's top on, for as many     *)
(* lines as the framebuffer has.                                           *)
InPicture(m) == /\ m.vpos >= P!Window(m.playfield).top
                /\ m.vpos - P!Window(m.playfield).top < ActiveHeight

(* With bitplane DMA off the line is drawn as if it had no planes, and no  *)
(* pointer moves.                                                          *)
PlayfieldLine(m) ==
  LET dma      == DmaOn(m, "BITPLANE")
      window   == P!Window(m.playfield)
      drawn    == P!RenderLine([m.playfield EXCEPT !.planes = IF dma THEN @ ELSE 0], m.vpos)
      moved    == [m.playfield EXCEPT !.pt = drawn.pt]
      modulo   == dma /\ m.vpos >= window.top /\ m.vpos < window.bottom
  IN  [row |-> drawn.row,
       playfield |-> IF modulo THEN [moved EXCEPT !.pt = P!WithModulo(moved)] ELSE moved]

SpriteLines(m) ==
  [i \in Sprite |-> IF DmaOn(m, "SPRITE")
                    THEN S!SpriteLine(m.sprites[i], m.vpos, setup.control, m.fmode)
                    ELSE [sprite |-> m.sprites[i], image |-> NoImage]]

(* The end of the frame.  The emulator sets COP1LC to the copper list of   *)
(* the guest's graphics library, when it finds one in memory.              *)
VerticalBlank(m) ==
  LET lc1 == IF setup.copinit > 0 THEN setup.copinit ELSE m.copper.lc1
  IN  [m EXCEPT !.intreq = @ \cup {"VERTB"},
                !.copper = C!Restart([@ EXCEPT !.lc1 = lc1], lc1),
                !.sprites = [i \in Sprite |-> [m.sprites[i] EXCEPT !.active = FALSE,
                                                                   !.armed = FALSE]]]

(* run_scanline, once the processor has had its part of the line: the beam *)
(* moves, the copper runs, the line is drawn as its writes left the chips, *)
(* and line 0 ends the frame.                                              *)
BeamMoved == [machine EXCEPT !.vpos = IF @ >= Lines - 1 THEN 0 ELSE @ + 1]

Drawn(m, bitmap, sprites) ==
  IF InPicture(m) THEN [m EXCEPT !.playfield = bitmap.playfield,
                                 !.sprites = [i \in Sprite |-> sprites[i].sprite]]
                  ELSE m

PictureLine(m, bitmap, sprites) ==
  IF InPicture(m)
  THEN [framebuffer EXCEPT ![m.vpos - P!Window(m.playfield).top] =
          [colour |-> m.playfield.colour, row |-> bitmap.row,
           images |-> [i \in Sprite |-> sprites[i].image]]]
  ELSE framebuffer

Scanline ==
  /\ program = <<>>
  /\ \E m \in {AfterCopper(BeamMoved)} :
     \E bitmap \in {PlayfieldLine(m)}, sprites \in {SpriteLines(m)} :
     \E drawn \in {Drawn(m, bitmap, sprites)} :
     \E ended \in {IF m.vpos = 0 THEN VerticalBlank(drawn) ELSE drawn} :
       /\ machine' = ended
       /\ framebuffer' = PictureLine(m, bitmap, sprites)
       /\ pass' = IF m.vpos = 0 THEN PassFrom(ended, 1) ELSE pass
  /\ UNCHANGED <<setup, program>>

(* The guest's program goes on: some of its writes may follow a given line *)
(* of every frame.                                                         *)
GuestResumes ==
  /\ program = <<>>
  /\ \E part \in setup.later : /\ part.line = machine.vpos
                               /\ program' = part.writes
  /\ UNCHANGED <<machine, framebuffer, setup, pass>>

Init ==
  /\ setup \in Setups
  /\ machine = MachineOff(setup.ram)
  /\ framebuffer = [n \in 0 .. ActiveHeight - 1 |-> BlankLine]
  /\ program = setup.program
  /\ pass = NoPass

Next == GuestWrite \/ Scanline \/ GuestResumes

Spec == Init /\ [][Next]_vars
=============================================================================
