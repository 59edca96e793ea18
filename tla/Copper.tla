------------------------------- MODULE Copper -------------------------------
(***************************************************************************)
(* The copper (crates/rumiga-core/src/copper.rs), one DMA cycle at a time. *)
(*                                                                         *)
(* A list in chip RAM is a sequence of instructions, and an address counts *)
(* instructions.  The two words of one are fetched in two cycles and       *)
(* decoded here when the second arrives; nothing rewrites a list while it  *)
(* is being fetched.  A position has VertBits and HorBits bits of its      *)
(* line and clock, a mask is the set of the bits it keeps.                 *)
(***************************************************************************)
EXTENDS Integers, FiniteSetsExt

CONSTANTS VertBits,    \* bits of the line a WAIT compares: 8 in the machine
          HorBits,     \* bits of the clock a WAIT compares: 7 in the machine
          Protected    \* registers below SAFE_REG_MIN

Kept(x, mask) == MapThenSumSet(LAMBDA b : 2^b * ((x \div 2^b) % 2), mask)

(* CopperState::new.  The danger bit belongs to COPCON, which the machine  *)
(* does not decode: it stays clear.                                        *)
CopperOff == [lc1 |-> 0, lc2 |-> 0, pc |-> 0, ir |-> [op |-> "NONE"],
              state |-> "Idle", enabled |-> FALSE, danger |-> FALSE]

(* restart_vertical_blank, strobe_cop1 and strobe_cop2 *)
Restart(c, list) == [c EXCEPT !.pc = list, !.state = "FetchFirst"]


(* The beam has reached the position of a WAIT or SKIP.  The top bit of    *)
(* the line always counts.                                                 *)
Met(ir, vpos, hpos) ==
  LET lines  == ir.vmask \cup {VertBits - 1}
      beam   == Kept(vpos, lines)
      target == Kept(ir.v, lines)
  IN  \/ beam > target
      \/ beam = target /\ Kept(hpos, ir.hmask) >= Kept(ir.h, ir.hmask)

(* execute: the state after a decoded instruction, and the register write  *)
(* it asks for.  A pair of zero words ends the list.                       *)
Execute(c, vpos, hpos) ==
  LET ir   == c.ir
      next == [c EXCEPT !.state = "FetchFirst"]
  IN  CASE ir.op = "ZERO" -> [copper |-> [c EXCEPT !.state = "Idle"], writes |-> <<>>]
        [] ir.op = "MOVE" ->
             [copper |-> next,
              writes |-> IF ir.register \in Protected /\ ~c.danger THEN <<>>
                         ELSE <<ir>>]
        [] ir.op = "SKIP" ->
             [copper |-> IF Met(ir, vpos, hpos) THEN [next EXCEPT !.pc = @ + 1] ELSE next,
              writes |-> <<>>]
        [] ir.op = "WAIT" ->
             [copper |-> IF Met(ir, vpos, hpos) THEN next ELSE c, writes |-> <<>>]

(* cycle: memory is what an address of chip RAM holds. *)
Cycle(c, memory, vpos, hpos) ==
  IF ~c.enabled \/ c.state = "Idle" THEN [copper |-> c, writes |-> <<>>]
  ELSE IF c.state = "FetchFirst"
  THEN [copper |-> [c EXCEPT !.state = "FetchSecond"], writes |-> <<>>]
  ELSE IF c.state = "FetchSecond"
  THEN [copper |-> [c EXCEPT !.ir = memory[c.pc], !.pc = @ + 1, !.state = "Execute"],
        writes |-> <<>>]
  ELSE Execute(c, vpos, hpos)
=============================================================================
