----------------------------- MODULE InputReplay -----------------------------
(***************************************************************************)
(* crates/rumiga-core/src/replay.rs and the input entry points of           *)
(* emulator.rs, driven by the loop of desktop/src/main.rs: a session whose   *)
(* input is recorded, the file the recording is kept in and may be edited    *)
(* in, and a second machine that replays it.                                *)
(*                                                                         *)
(* A machine is what input can reach: the key queue, the motion of the      *)
(* frame, the free-running mouse counter and the buttons (one axis stands   *)
(* for both).  The guest is deterministic, so the frames in which it takes  *)
(* a key are the same in both runs: `takes`, chosen once.                   *)
(***************************************************************************)
EXTENDS BoundedQueue, Integers, FiniteSets

CONSTANTS
  Capacity,   \* MAX_KEY_EVENTS
  Key,        \* keys, each with its direction
  MaxMotion,  \* greatest delta of one mouse_move
  Limit,      \* i16::MAX: the motion of a frame saturates
  Modulus,    \* the mouse counter is a byte
  Button,
  MaxFrames,  \* bound on the frames of a run
  MaxCalls    \* bound on the calls of key_event and mouse_move

ASSUME ReplayAssumption ==
  /\ Capacity \in Nat /\ Limit \in Nat /\ Modulus \in Nat \ {0}
  /\ MaxMotion \in Nat /\ MaxFrames \in Nat /\ MaxCalls \in Nat
  /\ "none" \notin Button

VARIABLES
  mode,       \* "recording", "saved", "replaying" or "refused"
  windowed,   \* the replay runs in the window's loop, not as a capture run
  polled,     \* the loop has called mouse_button in this iteration
  machine,    \* see Fresh
  frame,      \* frames_run
  events,     \* the recording
  file,       \* the lines of the recording's file, after the header
  lastButtons,\* of the recorder; {"none"} before the first call
  cursor,     \* events applied
  takes,
  \* history
  calls,
  swapped,    \* two lines of the file were exchanged
  first,      \* the input each frame of the session ran with
  second      \* the same for the replay

vars == <<mode, windowed, polled, machine, frame, events, file, lastButtons, cursor, takes,
          calls, swapped, first, second>>

Fresh ==
  [keys |-> New(Capacity, "RejectNewest"), motion |-> 0, counter |-> 0,
   buttons |-> {}]

Init ==
  /\ mode = "recording" /\ windowed = FALSE /\ polled = FALSE /\ machine = Fresh /\ frame = 0
  /\ events = << >> /\ file = << >> /\ lastButtons = {"none"} /\ cursor = 0
  /\ takes \in SUBSET (0 .. MaxFrames - 1)
  /\ calls = 0 /\ swapped = FALSE /\ first = << >> /\ second = << >>
-----------------------------------------------------------------------------
(* Input to a machine: apply_key_event, apply_mouse_move, apply_mouse_buttons *)

Motion == -MaxMotion .. MaxMotion

Pressed(k)  == [kind |-> "key", key |-> k]
Moved(d)    == [kind |-> "move", motion |-> d]
Held(b)     == [kind |-> "buttons", held |-> b]
InputEvent  == {Pressed(k) : k \in Key} \cup {Moved(d) : d \in Motion}
                 \cup {Held(b) : b \in SUBSET Button}

Saturate(n) == IF n > Limit THEN Limit ELSE IF n < -Limit - 1 THEN -Limit - 1 ELSE n

Apply(m, e) ==
  CASE e.kind = "key"     -> [m EXCEPT !.keys = Push(@, e.key)]
    [] e.kind = "move"    -> [m EXCEPT !.motion = Saturate(@ + e.motion),
                                       !.counter = (@ + e.motion) % Modulus]
    [] e.kind = "buttons" -> [m EXCEPT !.buttons = e.held]

\* The guest's frame: a key taken, and the motion cleared by the vertical blank.
AfterFrame(m) ==
  [m EXCEPT !.keys = IF frame \in takes /\ @.items # << >> THEN Pop(@) ELSE @,
            !.motion = 0]
-----------------------------------------------------------------------------
(* The recorded session *)

WrongForgetsRelease(e) ==
  CASE e.kind = "move"    -> e.motion # 0
    [] e.kind = "buttons" -> e.held # lastButtons /\ e.held # {}
    [] OTHER -> TRUE

\* Motion of zero and buttons that did not change leave no record.
IsRecorded(e) ==
  CASE e.kind = "move"    -> e.motion # 0
    [] e.kind = "buttons" -> e.held # lastButtons
    [] OTHER -> TRUE

Record(e) ==
  /\ events' = IF IsRecorded(e) THEN Append(events, [frame |-> frame, event |-> e])
                                ELSE events
  /\ lastButtons' = IF e.kind = "buttons" THEN e.held ELSE lastButtons

Deliver(e) ==
  /\ Record(e)
  /\ machine' = Apply(machine, e)
  /\ UNCHANGED <<mode, windowed, frame, file, cursor, takes, swapped, first, second>>

\* The loop passes keys and motion on as they come, then the buttons as they are.
PassInput ==
  /\ mode = "recording" /\ ~polled
  /\ calls < MaxCalls /\ calls' = calls + 1
  /\ \E k \in Key : Deliver(Pressed(k))
     \/ \E d \in Motion : Deliver(Moved(d))
  /\ UNCHANGED polled

PollButtons ==
  /\ mode = "recording" /\ ~polled /\ polled' = TRUE
  /\ frame < MaxFrames
  /\ \E b \in SUBSET Button : Deliver(Held(b))
  /\ UNCHANGED calls

RunFrame ==
  /\ mode = "recording" /\ polled /\ polled' = FALSE
  /\ first' = Append(first, machine)
  /\ machine' = AfterFrame(machine) /\ frame' = frame + 1
  /\ UNCHANGED <<mode, windowed, events, file, lastButtons, cursor, takes, calls, swapped, second>>

-----------------------------------------------------------------------------
(* The recording's file *)

\* to_text: the motion as a number, a button as 1 or 0, a key as its code and direction.
Line(at, word, field) == [frame |-> at, word |-> word, field |-> field]
Comment == Line(0, "#", 0)

Written(r) ==
  CASE r.event.kind = "key"     -> Line(r.frame, "key", r.event.key)
    [] r.event.kind = "move"    -> Line(r.frame, "mouse", r.event.motion)
    [] r.event.kind = "buttons" ->
         Line(r.frame, "buttons", [b \in Button |-> IF b \in r.event.held THEN 1 ELSE 0])

Read(line) ==
  [frame |-> line.frame,
   event |-> CASE line.word = "key"     -> Pressed(line.field)
               [] line.word = "mouse"   -> Moved(line.field)
               [] line.word = "buttons" -> Held({b \in Button : line.field[b] = 1})]

WrongInOrder(recorded) == TRUE

\* from_events and parse refuse a frame that is lower than the one before it.
InOrder(recorded) ==
  \A i \in 1 .. Len(recorded) - 1 : recorded[i].frame <= recorded[i + 1].frame

\* parse: comments are passed over, and the k-th of the other lines is the k-th event.
Told(lines)    == {i \in 1 .. Len(lines) : lines[i].word # "#"}
Rank(lines, i) == Cardinality({j \in Told(lines) : j <= i})
Parsed(lines)  ==
  [k \in 1 .. Cardinality(Told(lines)) |->
     Read(lines[CHOOSE i \in Told(lines) : Rank(lines, i) = k])]

\* The session ends: write_input_recording_if_requested.
FinishRecording ==
  /\ mode = "recording" /\ ~polled
  /\ IF InOrder(events)
     THEN mode' = "saved" /\ file' = [i \in 1 .. Len(events) |-> Written(events[i])]
     ELSE mode' = "refused" /\ UNCHANGED file
  /\ UNCHANGED <<windowed, polled, machine, frame, events, lastButtons, cursor, takes, calls,
                 swapped, first, second>>

\* Somebody puts a comment into the file, or two of its lines in the other order.
EditFile ==
  /\ mode = "saved" /\ ~swapped /\ Len(file) = Len(events)
  /\ \/ /\ UNCHANGED swapped
        /\ \E i \in 0 .. Len(file) :
             file' = SubSeq(file, 1, i) \o <<Comment>> \o SubSeq(file, i + 1, Len(file))
     \/ /\ swapped' = TRUE
        /\ \E i \in 1 .. Len(file) - 1 :
             file' = [file EXCEPT ![i] = file[i + 1], ![i + 1] = file[i]]
  /\ UNCHANGED <<mode, windowed, polled, machine, frame, events, lastButtons, cursor, takes,
                 calls, first, second>>

\* A machine of its own reads the file and attaches the recording before its first
\* frame; a file it refuses ends the process.  The file is not read again.
StartReplay ==
  /\ mode = "saved"
  /\ LET recording == Parsed(file)
     IN  IF InOrder(recording)
         THEN mode' = "replaying" /\ events' = recording
         ELSE mode' = "refused" /\ UNCHANGED events
  /\ windowed' \in BOOLEAN /\ file' = << >>
  /\ machine' = Fresh /\ frame' = 0
  /\ UNCHANGED <<polled, lastButtons, cursor, takes, calls, swapped, first, second>>
-----------------------------------------------------------------------------
(* The replay *)

\* The window's loop calls mouse_button here as well; nobody holds a button.
PollIdle ==
  /\ mode = "replaying" /\ windowed /\ ~polled /\ polled' = TRUE
  /\ frame < MaxFrames
  /\ machine' = Apply(machine, Held({}))
  /\ UNCHANGED <<mode, windowed, frame, events, file, lastButtons, cursor, takes, calls, swapped,
                 first, second>>

Ready == mode = "replaying" /\ frame < MaxFrames /\ (windowed => polled)

\* The event at the cursor belongs to this frame.
Due ==
  cursor < Len(events) /\ events[cursor + 1].frame = frame

\* apply_replayed_input, one event of its loop; run_frame begins with it.
ReplayEvent ==
  /\ Ready /\ Due
  /\ machine' = Apply(machine, events[cursor + 1].event) /\ cursor' = cursor + 1
  /\ UNCHANGED <<mode, windowed, polled, frame, events, file, lastButtons, takes, calls, swapped,
                 first, second>>

RunReplayed ==
  /\ Ready /\ ~Due
  /\ second' = Append(second, machine)
  /\ machine' = AfterFrame(machine) /\ frame' = frame + 1 /\ polled' = FALSE
  /\ UNCHANGED <<mode, windowed, events, file, lastButtons, cursor, takes, calls, swapped, first>>

Next ==
  \/ PassInput \/ PollButtons \/ RunFrame \/ FinishRecording \/ EditFile \/ StartReplay
  \/ PollIdle \/ ReplayEvent \/ RunReplayed

Spec == Init /\ [][Next]_vars
-----------------------------------------------------------------------------
Machine ==
  [keys : Queue(Key), motion : -Limit - 1 .. Limit, counter : 0 .. Modulus - 1,
   buttons : SUBSET Button]

\* A recorded input is replayed deterministically: the guest sees, frame by
\* frame, the input of the session it was recorded from (usage of --replay-input).
DeterministicReplay ==
  \A i \in 1 .. Len(second) : i <= Len(first) => second[i] = first[i]

\* A capture run keeps that promise, also of a recording that was commented on in its
\* file: the same keys queued and the same keys lost, the same motion, counter and
\* buttons - although zero motion and unchanged buttons were never recorded.
ReplayFaithful == ~windowed /\ ~swapped => DeterministicReplay

\* In the window, too, where the loop reports idle buttons before every frame, the keys,
\* the motion and the counter are those of the session.  And no recording that is
\* attached, edited or not, leaves an event behind the machine: the cursor would stay
\* at it and nothing after it would reach the guest (apply_replayed_input).
DrivenInputFaithful ==
  /\ ~swapped => \A i \in 1 .. Len(second) : i <= Len(first) =>
       [second[i] EXCEPT !.buttons = {}] = [first[i] EXCEPT !.buttons = {}]
  /\ mode = "replaying" /\ cursor < Len(events) => frame <= events[cursor + 1].frame
=============================================================================
