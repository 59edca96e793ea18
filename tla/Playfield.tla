----------------------------- MODULE Playfield ------------------------------
(***************************************************************************)
(* The playfield (crates/rumiga-core/src/playfield.rs): display window,    *)
(* data fetch and the drawing of one scanline.                             *)
(*                                                                         *)
(* A pixel of the picture is the background colour or a bit of the words   *)
(* the planes have fetched; a word is known by its address, so a pixel     *)
(* says which words it came from and which bit of them it is.  What the    *)
(* palette or a HAM mode makes of the bits is not modelled.                *)
(***************************************************************************)
EXTENDS Integers, Sequences

CONSTANTS PixelBits,       \* pixels in a bitplane word: PIXELS_PER_WORD
          WindowBits,      \* bits of DIWSTRT's and DIWSTOP's positions: 8 in the machine
          LeftEdge,        \* DISPLAY_LEFT_HPOS
          LineWidth,       \* DISPLAY_WIDTH
          StandardPhase,   \* STANDARD_DIW_START_HPOS - STANDARD_DDF_START_HPOS
          DefaultWords     \* words fetched when neither fetch register is set

Planes == 0 .. 7

PlayfieldOff == [planes |-> 0, hires |-> FALSE, hstart |-> 0, hstop |-> 0, vstart |-> 0,
                 vstop |-> 0, ddfstrt |-> 0, ddfstop |-> 0, mod1 |-> 0, mod2 |-> 0,
                 pt |-> [p \in Planes |-> 0], colour |-> 0]

(* display_window, without DIWHIGH: the stop position has no ninth bit, so *)
(* horizontally it is always past the middle, and vertically it is the     *)
(* complement of the eighth.                                               *)
Window(p) == [left   |-> p.hstart,
              right  |-> p.hstop + 2^WindowBits,
              top    |-> p.vstart,
              bottom |-> IF p.vstop < 2^(WindowBits - 1) THEN p.vstop + 2^WindowBits
                                                         ELSE p.vstop]

(* data_fetch_words: a word takes PixelBits / 2 clocks in low resolution.  *)
FetchWords(p) ==
  IF p.ddfstrt = 0 /\ p.ddfstop = 0
  THEN (IF p.hires THEN 2 * DefaultWords ELSE DefaultWords)
  ELSE IF p.ddfstop < p.ddfstrt THEN 0
  ELSE IF p.hires THEN ((p.ddfstop - p.ddfstrt) \div (PixelBits \div 4)) + 2
                  ELSE ((p.ddfstop - p.ddfstrt) \div (PixelBits \div 2)) + 1

(* horizontal_source_pixel_offset: pixels fetched before the window opens. *)
LOCAL Above(x, y) == IF x > y THEN x - y ELSE 0
HiddenPixels(p) ==
  IF p.ddfstrt = 0 /\ p.ddfstop = 0 THEN 0
  ELSE LET hidden == Above(Above(p.hstart, p.ddfstrt), StandardPhase) \div 2
       IN  IF p.hires THEN 2 * hidden + PixelBits ELSE hidden

(* The pixel of the fetched row that column x of the picture shows. *)
SourcePixel(p, x) ==
  LET column == LeftEdge + (x \div 2) - p.hstart
  IN  HiddenPixels(p) + (IF p.hires THEN 2 * column + (x % 2) ELSE column)

(* fetch_bitplane_word for every plane in use, until n words are fetched   *)
(* on this line: the words of the last turn stay in the data registers.    *)
Fetched(s, p, n) ==
  [s EXCEPT !.count = n,
            !.pt    = [k \in Planes |-> IF k < p.planes THEN @[k] + 2 * (n - s.count)
                                                        ELSE @[k]],
            !.data  = [k \in 0 .. p.planes - 1 |-> s.pt[k] + 2 * (n - s.count - 1)]]

Background == [data |-> <<>>, bit |-> 0]

(* render_scanline: the pixels of line vpos, left to right, and the        *)
(* pointers after the words the window leaves unused have been fetched     *)
(* too.  A line outside the window is all background and fetches nothing.  *)
RenderLine(p, vpos) ==
  LET window  == Window(p)
      visible == vpos >= window.top /\ vpos < window.bottom
      words   == FetchWords(p)
      shows(x) == /\ visible
                  /\ p.planes > 0
                  /\ LeftEdge + (x \div 2) >= window.left
                  /\ LeftEdge + (x \div 2) < window.right
                  /\ SourcePixel(p, x) \div PixelBits < words
      run[x \in 0 .. LineWidth] ==
        IF x = 0 THEN [count |-> 0, pt |-> p.pt, data |-> <<>>, row |-> <<>>]
        ELSE LET s      == run[x - 1]
                 source == SourcePixel(p, x - 1)
                 word   == source \div PixelBits
                 ready  == IF s.count <= word THEN Fetched(s, p, word + 1) ELSE s
             IN  IF shows(x - 1)
                 THEN [ready EXCEPT !.row = Append(@, [data |-> ready.data,
                                                       bit  |-> PixelBits - 1
                                                                  - (source % PixelBits)])]
                 ELSE [s EXCEPT !.row = Append(@, Background)]
      drawn == run[LineWidth]
      ended == IF visible /\ drawn.count < words THEN Fetched(drawn, p, words) ELSE drawn
  IN  [row |-> drawn.row, pt |-> ended.pt]

(* The modulos the emulator adds at the end of a line of the window, to    *)
(* the first six planes only: BPL1MOD to the odd ones, BPL2MOD to the      *)
(* even ones, as they are numbered from one.                               *)
WithModulo(p) ==
  LET window == Window(p)
  IN  [k \in Planes |-> IF k < p.planes /\ k < 6
                        THEN p.pt[k] + (IF k % 2 = 0 THEN p.mod1 ELSE p.mod2)
                        ELSE p.pt[k]]
=============================================================================
