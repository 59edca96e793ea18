------------------------------ MODULE Sprites -------------------------------
(***************************************************************************)
(* The sprites (crates/rumiga-core/src/sprites.rs) and what the scanline   *)
(* of the emulator does with them.                                         *)
(*                                                                         *)
(* An image word is known by its address; what a line of the picture shows *)
(* of a sprite is the address of its image line, or NoImage.  The pair of  *)
(* words SPRxPOS and SPRxCTL is decoded when it is fetched; of the two,    *)
(* the lines matter here and the horizontal position does not.             *)
(***************************************************************************)
EXTENDS Integers

CONSTANT NoImage

SpriteOff == [pt |-> 0, vstart |-> 0, vstop |-> 0, armed |-> FALSE, active |-> FALSE]

(* A write of SPRxPTL: the sprite looks for its control words again. *)
Pointed(s, address) == [s EXCEPT !.pt = address, !.armed = FALSE, !.active = FALSE]

(* Bytes a line of the image takes: FMODE fetches 1, 2 or 4 words a plane. *)
ImageBytes(words) == 4 * words

(* fetch_data, its two uses *)
FetchImage(s, words) == [s EXCEPT !.pt = @ + ImageBytes(words)]
FetchControl(s, control) ==
  [s EXCEPT !.pt = @ + 4, !.vstart = control[s.pt].vstart, !.vstop = control[s.pt].vstop]

(* Mutant: a sprite that has ended stays armed, and does not fetch the     *)
(* control words that follow its image.                                    *)
WrongSpriteLine(s, vpos, control, words) ==
  IF s.active
  THEN [sprite |-> [FetchImage(s, words) EXCEPT !.active = vpos + 1 # s.vstop],
        image  |-> s.pt]
  ELSE IF ~s.armed
  THEN [sprite |-> [FetchControl(s, control) EXCEPT !.armed = TRUE], image |-> NoImage]
  ELSE IF vpos = s.vstart
  THEN [sprite |-> [FetchImage(s, words) EXCEPT !.active = TRUE], image |-> s.pt]
  ELSE [sprite |-> s, image |-> NoImage]

(* The sprite after a scanline of the picture, and the image line shown.   *)
SpriteLine(s, vpos, control, words) ==
  IF s.active
  THEN LET ends == vpos + 1 = s.vstop
       IN  [sprite |-> [FetchImage(s, words) EXCEPT !.active = ~ends, !.armed = ~ends],
            image  |-> s.pt]
  ELSE IF ~s.armed
  THEN [sprite |-> [FetchControl(s, control) EXCEPT !.armed = TRUE], image |-> NoImage]
  ELSE IF vpos = s.vstart
  THEN [sprite |-> [FetchImage(s, words) EXCEPT !.active = TRUE], image |-> s.pt]
  ELSE [sprite |-> s, image |-> NoImage]
=============================================================================
