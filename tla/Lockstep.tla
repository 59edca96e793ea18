------------------------------ MODULE Lockstep ------------------------------
(***************************************************************************)
(* The two processors of the repository side by side: the m68k core of the   *)
(* emulated machine and the m68000 crate, which tests/cpu_differential.rs    *)
(* uses as its oracle.  Both start from the same machine and execute the     *)
(* same program one instruction at a time; an interrupt reaches both before  *)
(* the same instruction.  The test follows four instructions of one program; *)
(* here a machine is any member of Families.  What a step does to the two    *)
(* processors is a parameter, which the model takes from Processors: TLC's   *)
(* coverage would otherwise unfold both instruction sets at every use.       *)
(***************************************************************************)
EXTENDS Processors

CONSTANTS
  StepBoth(_, _),            \* one instruction on both (Executed in Processors)
  InterruptBoth(_, _, _),    \* an interrupt, then an instruction on both (Preempted)
  Families,    \* sets of initial machines: registers, memory and program; of each the
               \* number of instructions executed and the interrupt levels requested
  Nesting      \* bound: interrupts in service at once

ASSUME LockstepAssumption ==
  /\ Nesting \in Nat
  /\ \A family \in Families : \A m \in family : m.length \in Nat /\ m.levels \subseteq 1 .. 7

VARIABLES
  reference,    \* the m68000 crate
  core,         \* the m68k core
  ignored,      \* what is not compared after the last step, on which the two may differ
  left,         \* bound: instructions still to be executed
  levels,       \* the interrupt levels requested
  suspended     \* what the interrupts in service interrupted, the latest last

vars == <<reference, core, ignored, left, levels, suspended>>

Init ==
  /\ \E family \in Families : \E m \in family :
       reference = ReferenceOf(m) /\ core = CoreOf(m) /\ left = m.length /\ levels = m.levels
  /\ ignored = {} /\ suspended = << >>
-----------------------------------------------------------------------------
\* What a handler gives back.
Context(k) == [dar |-> k.dar, usp |-> Core!GetUsp(k), pc |-> k.pc, sr |-> Core!GetSr(k)]

\* A return from the frame of the latest interrupt.
Returning(k) ==
  /\ suspended # << >> /\ CodeAt(k.code, k.pc) = 20083 /\ k.S
  /\ k.dar[15] = suspended[Len(suspended)].frame

After(step) ==
  /\ reference' = step.reference /\ core' = step.core /\ ignored' = step.ignored
  /\ left' = left - 1 /\ UNCHANGED levels

Instruction ==
  /\ ignored = {} /\ left > 0 /\ ~core.stop
  /\ After(StepBoth(reference, core))
  /\ suspended' = IF Returning(core) THEN SubSeq(suspended, 1, Len(suspended) - 1) ELSE suspended

Interrupt(level) ==
  /\ ignored = {} /\ left > 0 /\ Len(suspended) < Nesting
  /\ level = 7 \/ level > core.mask
  /\ After(InterruptBoth(reference, core, level))
  /\ suspended' =
       Append(suspended, [context |-> Context(core),
                          frame |-> Wrap((IF core.S THEN core.dar[15] ELSE core.sp[TRUE]) - 6, "L")])

Next == Instruction \/ \E level \in levels : Interrupt(level)
Spec == Init /\ [][Next]_vars

-----------------------------------------------------------------------------
(* Properties *)

\* The two cores agree after every step: on every register, both stack pointers, the
\* status register, the memory and whether they stopped (the assertions of
\* cpu_differential.rs, and more), but for what the step leaves open.
CoresAgree ==
  /\ "rest" \notin ignored =>
       /\ core.run = "normal" /\ core.pc = reference.pc /\ core.stop = reference.stop
       /\ \A i \in 0 .. 7 : core.dar[i] = reference.d[i]
       /\ \A i \in 0 .. 6 : core.dar[8 + i] = reference.a[i]
       /\ core.dar[15] = Reference!AReg(reference, 7)
       /\ Core!GetUsp(core) = reference.usp /\ (core.S \/ core.sp[TRUE] = reference.ssp)
       /\ <<core.T, core.S, core.mask, core.X>>
          = <<reference.T, reference.S, reference.mask, reference.X>>
       /\ core.mem = reference.mem
  /\ "N" \notin ignored => core.N = reference.N
  /\ "Z" \notin ignored => core.Z = reference.Z
  /\ "V" \notin ignored => (core.v = Core!VSet) = reference.V /\ core.v \in {0, Core!VSet}
  /\ "C" \notin ignored => core.C = reference.C

\* A return from an interrupt gives the interrupted program its registers, its stack
\* pointer, its status register and its program counter back, whatever came between
\* (take_exception, service_interrupt, set_s_flag and Rte).
HandlersReturn ==
  [][Len(suspended') < Len(suspended) =>
       Context(core') = suspended[Len(suspended)].context]_vars

\* An instruction takes a program from user to supervisor mode by an exception only:
\* the program counter comes from a vector, and the status register it had, with its
\* mode, is on the supervisor's stack (the checks of every privileged instruction).
\* What an instruction still does after an address error is not held to this, nor a
\* traced one, which may take two exceptions.
SupervisorByException ==
  [][Len(suspended') <= Len(suspended) /\ ~core.S /\ ~core.T /\ core'.S /\ "fault" \notin ignored' =>
       /\ core'.dar[15] = Wrap(core.sp[TRUE] - 6, "L")
       /\ \E vector \in 4 .. 255 : core'.pc = LoadFrom(core'.mem, 4 * vector, "L")
       /\ LoadFrom(core'.mem, core'.dar[15], "W") \div Modulus["B"]
          = Core!GetSr(core) \div Modulus["B"]]_vars
=============================================================================
