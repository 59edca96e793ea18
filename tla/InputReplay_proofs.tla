------------------------ MODULE InputReplay_proofs ------------------------
(***************************************************************************)
(* Proofs about InputReplay, for every capacity of the key queue, every      *)
(* width of the motion and of the mouse counter, and every length of the     *)
(* session: whatever was recorded, written out, commented on and read back,  *)
(* the guest of the replay sees the input of the session.                   *)
(***************************************************************************)
EXTENDS InputReplay, SequenceTheorems, FiniteSetTheorems, TLAPS

RecordedInput == [frame : Nat, event : InputEvent]

\* Everything has its type, and a cursor only moves once there is a recording.
TypeInv ==
  /\ mode \in {"recording", "saved", "replaying", "refused"}
  /\ windowed \in BOOLEAN /\ (mode # "replaying" /\ mode # "refused" => ~windowed)
  /\ machine \in Machine /\ frame \in Nat
  /\ events \in Seq(RecordedInput) /\ cursor \in 0 .. Len(events)
  /\ first \in Seq(Machine) /\ second \in Seq(Machine)
  /\ mode # "replaying" => cursor = 0 /\ second = << >>
-----------------------------------------------------------------------------
(* One machine *)

\* The queue keeps its type.
LEMMA PushType ==
  ASSUME NEW q \in Queue(Key), NEW k \in Key
  PROVE  Push(q, k) \in Queue(Key)
<1>1. /\ q.items \in Seq(Key) /\ Len(q.items) \in Nat /\ q.capacity \in Nat
      /\ q.highWater \in Nat /\ q.dropped \in 0 .. DroppedMax /\ q.policy \in OverflowPolicy
  BY DEF Queue
<1>2. SaturatingSucc(q.dropped) \in 0 .. DroppedMax
  BY <1>1, DroppedMaxAssumption DEF SaturatingSucc
<1>3. CASE Admission(q) = "Accepted"
  <2>1. /\ Append(q.items, k) \in Seq(Key)
        /\ (IF q.highWater > Len(q.items) THEN q.highWater ELSE Len(q.items) + 1) \in Nat
    BY <1>1
  <2> HIDE DEF Queue
  <2> QED  BY <1>3, <2>1 DEF Push, Queue
<1>4. CASE Admission(q) = "Rejected"
  BY <1>2, <1>4 DEF Push, Queue
<1>5. CASE Admission(q) = "AcceptedEvictingOldest"
  <2>1. q.items # << >>
    BY <1>1, <1>5 DEF Admission, IsFull
  <2>2. Append(Tail(q.items), k) \in Seq(Key)
    <3>1. Tail(q.items) \in Seq(Key)  BY <1>1, <2>1, HeadTailProperties
    <3> QED  BY <3>1
  <2> QED  BY <1>2, <1>5, <2>2 DEF Push, Queue
<1> QED  BY <1>3, <1>4, <1>5 DEF Admission

LEMMA PopType ==
  ASSUME NEW q \in Queue(Key), q.items # << >>
  PROVE  Pop(q) \in Queue(Key)
<1>1. Tail(q.items) \in Seq(Key)  BY HeadTailProperties DEF Queue
<1> QED  BY <1>1 DEF Pop, Queue

\* The arithmetic of the bounds, as ReplayAssumption has them.
LEMMA Widths ==
  /\ Limit \in Nat /\ Modulus \in Nat \ {0} /\ MaxMotion \in Nat
  /\ \A n \in Int : Saturate(n) \in -Limit - 1 .. Limit
  /\ \A n \in Int : n % Modulus \in 0 .. Modulus - 1
  /\ \A n \in -Limit - 1 .. Limit : Saturate(n) = n
  /\ \A n \in 0 .. Modulus - 1 : n % Modulus = n
<1>1. Limit \in Nat /\ Modulus \in Nat \ {0} /\ MaxMotion \in Nat
  BY ReplayAssumption
<1>2. \A n \in Int : n % Modulus \in 0 .. Modulus - 1  BY <1>1
<1>3. \A n \in 0 .. Modulus - 1 : n % Modulus = n  BY <1>1
<1> QED  BY <1>1, <1>2, <1>3 DEF Saturate

LEMMA FreshType == Fresh \in Machine
<1>1. New(Capacity, "RejectNewest") \in Queue(Key)
  BY ReplayAssumption, DroppedMaxAssumption DEF New, Queue, OverflowPolicy
<1>2. 0 \in -Limit - 1 .. Limit /\ 0 \in 0 .. Modulus - 1
  BY Widths
<1> HIDE DEF New, Queue
<1> QED  BY <1>1, <1>2 DEF Fresh, Machine

\* Every event leaves a machine a machine.
LEMMA ApplyType ==
  ASSUME NEW m \in Machine, NEW e \in InputEvent
  PROVE  Apply(m, e) \in Machine
<1> HIDE DEF Queue
<1>1. CASE \E k \in Key : e = Pressed(k)
  <2>1. PICK k \in Key : e = Pressed(k)  BY <1>1
  <2>2. Push(m.keys, k) \in Queue(Key)  BY PushType DEF Machine
  <2>3. Apply(m, e) = [m EXCEPT !.keys = Push(m.keys, k)]
    BY <2>1 DEF Apply, Pressed
  <2> QED  BY <2>2, <2>3 DEF Machine
<1>2. CASE \E d \in Motion : e = Moved(d)
  <2>1. PICK d \in Motion : e = Moved(d)  BY <1>2
  <2>2. m.motion \in Int /\ m.counter \in Int /\ d \in Int
    BY Widths DEF Machine, Motion
  <2>3. /\ Saturate(m.motion + d) \in -Limit - 1 .. Limit
        /\ (m.counter + d) % Modulus \in 0 .. Modulus - 1
    <3>1. m.motion + d \in Int /\ m.counter + d \in Int  BY <2>2
    <3>2. Saturate(m.motion + d) \in -Limit - 1 .. Limit  BY <3>1, Widths
    <3>3. (m.counter + d) % Modulus \in 0 .. Modulus - 1  BY <3>1, Widths
    <3> QED  BY <3>2, <3>3
  <2>4. Apply(m, e) = [m EXCEPT !.motion = Saturate(m.motion + d),
                                !.counter = (m.counter + d) % Modulus]
    BY <2>1 DEF Apply, Moved
  <2> QED  BY <2>3, <2>4 DEF Machine
<1>3. CASE \E b \in SUBSET Button : e = Held(b)
  <2>1. PICK b \in SUBSET Button : e = Held(b)  BY <1>3
  <2>2. Apply(m, e) = [m EXCEPT !.buttons = b]
    BY <2>1 DEF Apply, Held
  <2> QED  BY <2>2 DEF Machine
<1> QED  BY <1>1, <1>2, <1>3 DEF InputEvent

\* What the guest leaves of a machine it ran the frame f with.
Resumed(tk, m, f) ==
  [m EXCEPT !.keys = IF f \in tk /\ @.items # << >> THEN Pop(@) ELSE @, !.motion = 0]

LEMMA ResumedType ==
  ASSUME NEW tk, NEW m \in Machine, NEW f
  PROVE  Resumed(tk, m, f) \in Machine /\ Resumed(tk, m, f).buttons = m.buttons
<1> HIDE DEF Queue
<1>1. 0 \in -Limit - 1 .. Limit  BY Widths
<1>2. m.keys \in Queue(Key) /\ (m.keys.items # << >> => Pop(m.keys) \in Queue(Key))
  BY PopType DEF Machine
<1> QED  BY <1>1, <1>2 DEF Resumed, Machine

\* Motion of zero and the buttons as they are change nothing, so nothing is lost
\* when they are not recorded.
LEMMA UnrecordedChangesNothing ==
  ASSUME NEW m \in Machine, NEW e \in InputEvent, ~IsRecorded(e),
         lastButtons = m.buttons \/ lastButtons = {"none"}
  PROVE  Apply(m, e) = m
<1>1. CASE \E k \in Key : e = Pressed(k)
  BY <1>1 DEF IsRecorded, Pressed
<1>2. CASE \E d \in Motion : e = Moved(d)
  <2>1. PICK d \in Motion : e = Moved(d)  BY <1>2
  <2>2. d = 0  BY <2>1 DEF IsRecorded, Moved
  <2>3. Apply(m, e) = [m EXCEPT !.motion = Saturate(m.motion + d),
                                !.counter = (m.counter + d) % Modulus]
    BY <2>1 DEF Apply, Moved
  <2>4. Saturate(m.motion + d) = m.motion /\ (m.counter + d) % Modulus = m.counter
    <3>1. m.motion \in -Limit - 1 .. Limit /\ m.counter \in 0 .. Modulus - 1
      BY DEF Machine
    <3>2. Limit \in Nat /\ Modulus \in Nat  BY Widths
    <3>3. m.motion + d = m.motion /\ m.counter + d = m.counter
      BY <2>2, <3>1, <3>2
    <3>4. Saturate(m.motion) = m.motion  BY <3>1, Widths
    <3>5. m.counter % Modulus = m.counter  BY <3>1, Widths
    <3> QED  BY <3>3, <3>4, <3>5
  <2> QED  BY <2>3, <2>4 DEF Machine
<1>3. CASE \E b \in SUBSET Button : e = Held(b)
  <2>1. PICK b \in SUBSET Button : e = Held(b)  BY <1>3
  <2>2. b = lastButtons  BY <2>1 DEF IsRecorded, Held
  <2>3. b # {"none"}  BY <2>1, ReplayAssumption
  <2>4. Apply(m, e) = [m EXCEPT !.buttons = b]
    BY <2>1 DEF Apply, Held
  <2> QED  BY <2>2, <2>3, <2>4 DEF Machine
<1> QED  BY <1>1, <1>2, <1>3 DEF InputEvent
-----------------------------------------------------------------------------
(* The invariant *)

\* The machine at the beginning of a frame of the session, whose frames ran with the
\* input fr and took keys in the frames tk.
Start(fr, tk, f) == IF f = 0 THEN Fresh ELSE Resumed(tk, fr[f], f - 1)

\* The machine in frame f when i of the events ev are behind it; after[i] is what event
\* i left.
Reached(ev, fr, tk, after, i, f) ==
  IF i > 0 /\ ev[i].frame = f THEN after[i] ELSE Start(fr, tk, f)

\* Event i is the last one before the guest runs frame f.
Final(ev, i, f) == /\ i > 0 => ev[i].frame <= f
                   /\ i < Len(ev) => ev[i + 1].frame > f

\* The recording ev explains the session: applied in their frames, its events lead from
\* one frame's input to the next one's.
Session(ev, fr, tk, after) ==
  /\ after \in [1 .. Len(ev) -> Machine]
  /\ \A i \in 1 .. Len(ev) : ev[i].frame <= Len(fr)
  /\ \A i, j \in 1 .. Len(ev) : i <= j => ev[i].frame <= ev[j].frame
  /\ \A i \in 1 .. Len(ev) :
       after[i] = Apply(Reached(ev, fr, tk, after, i - 1, ev[i].frame), ev[i].event)
  /\ \A i \in 0 .. Len(ev), f \in 0 .. Len(fr) - 1 :
       Final(ev, i, f) => fr[f + 1] = Reached(ev, fr, tk, after, i, f)

\* While it is recorded, the session stands where the recording ends.
Recording(after) ==
  /\ frame = Len(first)
  /\ machine = Reached(events, first, takes, after, Len(events), frame)
  /\ lastButtons = machine.buttons \/ lastButtons = {"none"}
  /\ ~swapped

\* Equal to the guest; in the window, equal but for the buttons.
Alike(inWindow, m, n) ==
  /\ ~inWindow => m = n
  /\ m.keys = n.keys /\ m.motion = n.motion /\ m.counter = n.counter

\* The replay stands where the session stood after as many events in the same frame.
Replaying(after) ==
  /\ frame = Len(second) /\ (cursor > 0 => events[cursor].frame <= frame)
  /\ frame <= Len(first) => 
       Alike(windowed, machine, Reached(events, first, takes, after, cursor, frame))
  /\ \A i \in 1 .. Len(second) : i <= Len(first) => Alike(windowed, second[i], first[i])

\* What is attached is in order and the cursor never falls behind.
OnTime ==
  mode = "replaying" =>
    InOrder(events) /\ (cursor < Len(events) => frame <= events[cursor + 1].frame)

Lines(recorded) == [i \in 1 .. Len(recorded) |-> Written(recorded[i])]

\* The file reads back as the recording until its lines are exchanged.
FileInv ==
  mode = "saved" =>
    /\ Parsed(file) \in Seq(RecordedInput)
    /\ ~swapped => /\ Parsed(file) = events
                   /\ Len(file) = Len(events) => file = Lines(events)

\* The recording still is the session's.
Kept == mode = "recording" \/ mode = "saved" \/ (mode = "replaying" /\ ~swapped)

SessionInv ==
  Kept => \E after : /\ Session(events, first, takes, after)
                     /\ (mode = "recording" => Recording(after))
                     /\ (mode = "replaying" => Replaying(after))

IInv == TypeInv /\ OnTime /\ FileInv /\ SessionInv
-----------------------------------------------------------------------------
(* The session *)

\* One more entry of a sequence.
LEMMA OneMore ==
  ASSUME NEW S, NEW s \in Seq(S), NEW x \in S
  PROVE  /\ Append(s, x) \in Seq(S) /\ Len(s) \in Nat
         /\ Len(Append(s, x)) = Len(s) + 1
         /\ \A i \in 1 .. Len(s) : Append(s, x)[i] = s[i] /\ s[i] \in S
         /\ Append(s, x)[Len(s) + 1] = x
  OBVIOUS

\* Recording an event: what it left is what it leads to.
LEMMA RecordingExtends ==
  ASSUME NEW ev \in Seq(RecordedInput), NEW fr \in Seq(Machine), NEW tk, NEW after,
         Session(ev, fr, tk, after), NEW e \in InputEvent, NEW m \in Machine,
         m = Apply(Reached(ev, fr, tk, after, Len(ev), Len(fr)), e)
  PROVE  LET ev2 == Append(ev, [frame |-> Len(fr), event |-> e])
         IN  /\ ev2 \in Seq(RecordedInput)
             /\ \E a : /\ Session(ev2, fr, tk, a)
                       /\ Reached(ev2, fr, tk, a, Len(ev2), Len(fr)) = m
<1> DEFINE n == Len(ev)
           r == [frame |-> Len(fr), event |-> e]
           new == Append(ev, r)
           a == [i \in 1 .. n + 1 |-> IF i <= n THEN after[i] ELSE m]
<1>1. /\ n \in Nat /\ Len(fr) \in Nat
      /\ \A i \in 1 .. n : ev[i] \in RecordedInput
  OBVIOUS
<1>2. \A i \in 1 .. n : ev[i].frame \in Nat  BY <1>1 DEF RecordedInput
<1>3. r \in RecordedInput /\ r.frame = Len(fr) /\ r.event = e  BY <1>1 DEF RecordedInput
<1> HIDE DEF r
<1>4. /\ new \in Seq(RecordedInput) /\ Len(new) = n + 1
      /\ \A i \in 1 .. n : new[i] = ev[i]
      /\ new[n + 1] = r
  BY <1>3, OneMore
<1>5. /\ after \in [1 .. n -> Machine]
      /\ \A i \in 1 .. n : ev[i].frame <= Len(fr)
      /\ \A i, j \in 1 .. n : i <= j => ev[i].frame <= ev[j].frame
  BY DEF Session
<1>6. /\ a \in [1 .. n + 1 -> Machine]
      /\ \A i \in 1 .. n : a[i] = after[i]
      /\ a[n + 1] = m
  BY <1>1, <1>5
<1> HIDE DEF a, new
<1>7. ASSUME NEW i \in 0 .. n, NEW f
      PROVE  Reached(new, fr, tk, a, i, f) = Reached(ev, fr, tk, after, i, f)
  BY <1>1, <1>4, <1>6 DEF Reached
<1>8. Reached(new, fr, tk, a, n + 1, Len(fr)) = m
  BY <1>1, <1>3, <1>4, <1>6 DEF Reached
<1>9. ASSUME NEW i \in 1 .. n + 1
      PROVE  a[i] = Apply(Reached(new, fr, tk, a, i - 1, new[i].frame), new[i].event)
  <2>1. i - 1 \in 0 .. n  BY <1>1
  <2>2. Reached(new, fr, tk, a, i - 1, new[i].frame)
          = Reached(ev, fr, tk, after, i - 1, new[i].frame)
    BY <1>7, <2>1
  <2>3. CASE i \in 1 .. n
    BY <1>4, <1>6, <2>2, <2>3 DEF Session
  <2>4. CASE i = n + 1
    BY <1>1, <1>3, <1>4, <1>6, <2>2, <2>4
  <2> QED  BY <1>1, <2>3, <2>4
<1>10. ASSUME NEW i \in 0 .. n + 1, NEW f \in 0 .. Len(fr) - 1, Final(new, i, f)
       PROVE  fr[f + 1] = Reached(new, fr, tk, a, i, f)
  <2>1. /\ i > 0 => new[i].frame <= f
        /\ i < n + 1 => new[i + 1].frame > f
    BY <1>4, <1>10 DEF Final
  <2>2. i # n + 1  BY <1>1, <1>3, <1>4, <2>1
  <2>3. i \in 0 .. n  BY <1>1, <2>2
  <2>4. Final(ev, i, f)  BY <1>1, <1>4, <2>1, <2>3 DEF Final
  <2>5. fr[f + 1] = Reached(ev, fr, tk, after, i, f)  BY <2>3, <2>4 DEF Session
  <2> QED  BY <1>7, <2>3, <2>5
<1>11. \A i, j \in 1 .. n + 1 : i <= j => new[i].frame <= new[j].frame
  BY <1>1, <1>2, <1>3, <1>4, <1>5
<1>12. \A i \in 1 .. n + 1 : new[i].frame <= Len(fr)
  BY <1>1, <1>2, <1>3, <1>4, <1>5
<1>13. Session(new, fr, tk, a)
  BY <1>4, <1>6, <1>9, <1>10, <1>11, <1>12 DEF Session
<1> QED  BY <1>4, <1>8, <1>13 DEF new, r

\* Running a frame: its input is where the events of the frame led to.
LEMMA SessionExtends ==
  ASSUME NEW ev \in Seq(RecordedInput), NEW fr \in Seq(Machine), NEW tk, NEW after,
         Session(ev, fr, tk, after), NEW m \in Machine,
         m = Reached(ev, fr, tk, after, Len(ev), Len(fr))
  PROVE  LET fr2 == Append(fr, m)
         IN  /\ fr2 \in Seq(Machine) /\ Len(fr2) = Len(fr) + 1
             /\ Session(ev, fr2, tk, after)
             /\ Reached(ev, fr2, tk, after, Len(ev), Len(fr) + 1) = Resumed(tk, m, Len(fr))
<1> DEFINE n == Len(ev)
           k == Len(fr)
           new == Append(fr, m)
<1>1. /\ n \in Nat /\ k \in Nat
      /\ \A i \in 1 .. n : ev[i] \in RecordedInput
  OBVIOUS
<1>2. \A i \in 1 .. n : ev[i].frame \in Nat  BY <1>1 DEF RecordedInput
<1>3. /\ new \in Seq(Machine) /\ Len(new) = k + 1
      /\ \A i \in 1 .. k : new[i] = fr[i]
      /\ new[k + 1] = m
  BY OneMore
<1>4. /\ after \in [1 .. n -> Machine]
      /\ \A i \in 1 .. n : ev[i].frame <= k
      /\ \A i, j \in 1 .. n : i <= j => ev[i].frame <= ev[j].frame
  BY DEF Session
<1> HIDE DEF new
<1>5. ASSUME NEW f \in 0 .. k  PROVE Start(new, tk, f) = Start(fr, tk, f)
  BY <1>1, <1>3 DEF Start
<1>6. ASSUME NEW i \in 0 .. n, NEW f \in 0 .. k
      PROVE  Reached(ev, new, tk, after, i, f) = Reached(ev, fr, tk, after, i, f)
  BY <1>5 DEF Reached
<1>7. ASSUME NEW i \in 1 .. n
      PROVE  after[i] = Apply(Reached(ev, new, tk, after, i - 1, ev[i].frame), ev[i].event)
  <2>1. i - 1 \in 0 .. n /\ ev[i].frame \in 0 .. k  BY <1>1, <1>2, <1>4
  <2>2. Reached(ev, new, tk, after, i - 1, ev[i].frame)
          = Reached(ev, fr, tk, after, i - 1, ev[i].frame)
    BY <1>6, <2>1
  <2> QED  BY <2>2 DEF Session
<1>8. ASSUME NEW i \in 0 .. n, NEW f \in 0 .. k, Final(ev, i, f)
      PROVE  new[f + 1] = Reached(ev, new, tk, after, i, f)
  <2>1. Reached(ev, new, tk, after, i, f) = Reached(ev, fr, tk, after, i, f)
    BY <1>6
  <2>2. CASE f < k
    <3>1. f \in 0 .. k - 1 /\ f + 1 \in 1 .. k  BY <1>1, <2>2
    <3>2. fr[f + 1] = Reached(ev, fr, tk, after, i, f)  BY <1>8, <3>1 DEF Session
    <3> QED  BY <1>3, <2>1, <3>1, <3>2
  <2>3. CASE f = k
    <3>1. i = n
      <4> SUFFICES ASSUME i < n  PROVE FALSE
        BY <1>1
      <4>1. ev[i + 1].frame > k  BY <1>8, <2>3 DEF Final
      <4>2. i + 1 \in 1 .. n  BY <1>1
      <4> QED  BY <1>1, <1>2, <1>4, <4>1, <4>2
    <3> QED  BY <1>3, <2>1, <2>3, <3>1
  <2> QED  BY <1>1, <2>2, <2>3
<1>9. Session(ev, new, tk, after)
  <2>1. \A i \in 1 .. n : ev[i].frame <= Len(new)  BY <1>1, <1>2, <1>3, <1>4
  <2>2. Len(new) - 1 = k  BY <1>1, <1>3
  <2> QED  BY <1>4, <1>7, <1>8, <2>1, <2>2 DEF Session
<1>10. Reached(ev, new, tk, after, n, k + 1) = Resumed(tk, m, k)
  <2>1. n > 0 => ev[n].frame # k + 1  BY <1>1, <1>2, <1>4
  <2>2. k + 1 # 0 /\ (k + 1) - 1 = k  BY <1>1
  <2> QED  BY <1>3, <2>1, <2>2 DEF Reached, Start
<1> QED  BY <1>3, <1>9, <1>10 DEF new
-----------------------------------------------------------------------------
(* The file *)

\* A line read is what was written, and no comment.
LEMMA ReadWritten ==
  ASSUME NEW r \in RecordedInput
  PROVE  Read(Written(r)) = r /\ Written(r).word # "#"
<1>1. r = [frame |-> r.frame, event |-> r.event] /\ r.event \in InputEvent
  BY DEF RecordedInput
<1>2. CASE \E k \in Key : r.event = Pressed(k)
  <2>1. PICK k \in Key : r.event = Pressed(k)  BY <1>2
  <2>2. Written(r) = Line(r.frame, "key", k)  BY <2>1 DEF Written, Pressed
  <2>3. Read(Written(r)) = [frame |-> r.frame, event |-> Pressed(k)]
    BY <2>2 DEF Read, Line
  <2> QED  BY <1>1, <2>1, <2>2, <2>3 DEF Line
<1>3. CASE \E d \in Motion : r.event = Moved(d)
  <2>1. PICK d \in Motion : r.event = Moved(d)  BY <1>3
  <2>2. Written(r) = Line(r.frame, "mouse", d)  BY <2>1 DEF Written, Moved
  <2>3. Read(Written(r)) = [frame |-> r.frame, event |-> Moved(d)]
    BY <2>2 DEF Read, Line
  <2> QED  BY <1>1, <2>1, <2>2, <2>3 DEF Line
<1>4. CASE \E b \in SUBSET Button : r.event = Held(b)
  <2>1. PICK b \in SUBSET Button : r.event = Held(b)  BY <1>4
  <2> DEFINE bits == [c \in Button |-> IF c \in b THEN 1 ELSE 0]
  <2>2. Written(r) = Line(r.frame, "buttons", bits)  BY <2>1 DEF Written, Held
  <2>3. {c \in Button : bits[c] = 1} = b  OBVIOUS
  <2> HIDE DEF bits
  <2>4. Read(Written(r)) = [frame |-> r.frame, event |-> Held({c \in Button : bits[c] = 1})]
    BY <2>2 DEF Read, Line
  <2> QED  BY <1>1, <2>1, <2>2, <2>3, <2>4 DEF Line
<1> QED  BY <1>1, <1>2, <1>3, <1>4 DEF InputEvent

\* A file without a comment is read line by line.
LEMMA PlainParsed ==
  ASSUME NEW lines, NEW n \in Nat, Len(lines) = n,
         \A i \in 1 .. n : lines[i].word # "#"
  PROVE  Parsed(lines) = [k \in 1 .. n |-> Read(lines[k])]
<1>1. Told(lines) = 1 .. n  BY DEF Told
<1>2. Cardinality(Told(lines)) = n  BY <1>1, FS_Interval
<1>3. ASSUME NEW i \in 1 .. n  PROVE Rank(lines, i) = i
  <2>1. {j \in Told(lines) : j <= i} = 1 .. i  BY <1>1
  <2>2. Cardinality(1 .. i) = i  BY FS_Interval
  <2> QED  BY <2>1, <2>2 DEF Rank
<1> DEFINE at(k) == CHOOSE i \in Told(lines) : Rank(lines, i) = k
<1>4. ASSUME NEW k \in 1 .. n  PROVE at(k) = k
  <2>1. \A i \in Told(lines) : Rank(lines, i) = k <=> i = k  BY <1>1, <1>3
  <2>2. k \in Told(lines) /\ Rank(lines, k) = k  BY <1>1, <1>3
  <2> QED  BY <2>1, <2>2
<1>5. Parsed(lines) = [k \in 1 .. n |-> Read(lines[at(k)])]  BY <1>2 DEF Parsed
<1> HIDE DEF at
<1> QED  BY <1>4, <1>5

\* Neither does a comment anywhere change what is read: the n lines but the one after p.
ReadPast(lines, n, p) == [k \in 1 .. n |-> Read(lines[IF k <= p THEN k ELSE k + 1])]

LEMMA CommentParsed ==
  ASSUME NEW lines, NEW n \in Nat, NEW p \in 0 .. n, Len(lines) = n + 1,
         \A i \in 1 .. n + 1 : lines[i].word # "#" <=> i # p + 1
  PROVE  Parsed(lines) = ReadPast(lines, n, p)
<1>1. Told(lines) = (1 .. n + 1) \ {p + 1}  BY DEF Told
<1>2. /\ IsFiniteSet(1 .. n + 1) /\ Cardinality(1 .. n + 1) = n + 1
      /\ p + 1 \in 1 .. n + 1
  BY FS_Interval
<1>3. Cardinality(Told(lines)) = n
  <2>1. Cardinality((1 .. n + 1) \ {p + 1}) = Cardinality(1 .. n + 1) - 1
    BY <1>2, FS_RemoveElement
  <2> QED  BY <1>1, <1>2, <2>1
<1>4. ASSUME NEW i \in Told(lines)
      PROVE  Rank(lines, i) = IF i <= p THEN i ELSE i - 1
  <2>1. i \in 1 .. n + 1 /\ i # p + 1  BY <1>1
  <2>2. IsFiniteSet(1 .. i) /\ Cardinality(1 .. i) = i  BY <2>1, FS_Interval
  <2>3. CASE i <= p
    <3>1. {j \in Told(lines) : j <= i} = 1 .. i  BY <1>1, <2>1, <2>3
    <3> QED  BY <2>2, <2>3, <3>1 DEF Rank
  <2>4. CASE ~(i <= p)
    <3>1. {j \in Told(lines) : j <= i} = (1 .. i) \ {p + 1}  BY <1>1, <2>1, <2>4
    <3>2. p + 1 \in 1 .. i  BY <2>1, <2>4
    <3>3. Cardinality((1 .. i) \ {p + 1}) = i - 1
      BY <2>2, <3>2, FS_RemoveElement
    <3> QED  BY <2>4, <3>1, <3>3 DEF Rank
  <2> QED  BY <2>3, <2>4
<1> DEFINE at(k) == CHOOSE i \in Told(lines) : Rank(lines, i) = k
<1>5. ASSUME NEW k \in 1 .. n  PROVE at(k) = IF k <= p THEN k ELSE k + 1
  <2> DEFINE told == IF k <= p THEN k ELSE k + 1
  <2>1. told \in Told(lines)  BY <1>1
  <2>2. \A i \in Told(lines) : Rank(lines, i) = k <=> i = told
    <3> SUFFICES ASSUME NEW i \in Told(lines)  PROVE Rank(lines, i) = k <=> i = told
      OBVIOUS
    <3>1. i \in 1 .. n + 1 /\ i # p + 1  BY <1>1
    <3>2. Rank(lines, i) = IF i <= p THEN i ELSE i - 1  BY <1>4
    <3> QED  BY <3>1, <3>2
  <2> HIDE DEF told
  <2>3. at(k) = told  BY <2>1, <2>2
  <2> QED  BY <2>3 DEF told
<1>6. Parsed(lines) = [k \in 1 .. n |-> Read(lines[at(k)])]  BY <1>3 DEF Parsed
<1> HIDE DEF at
<1> QED  BY <1>5, <1>6 DEF ReadPast

\* The lines of a recording are a file of as many lines, which reads back as it.
LEMMA LinesParsed ==
  ASSUME NEW ev \in Seq(RecordedInput), NEW lines, Len(lines) = Len(ev),
         \A i \in 1 .. Len(ev) : lines[i] = Written(ev[i])
  PROVE  Parsed(lines) = ev
<1>1. Len(ev) \in Nat /\ \A i \in 1 .. Len(ev) : ev[i] \in RecordedInput
  OBVIOUS
<1>2. \A i \in 1 .. Len(ev) : lines[i].word # "#" /\ Read(lines[i]) = ev[i]
  BY <1>1, ReadWritten
<1>3. Parsed(lines) = [k \in 1 .. Len(ev) |-> Read(lines[k])]
  BY <1>1, <1>2, PlainParsed
<1>4. ev = [k \in 1 .. Len(ev) |-> ev[k]]  OBVIOUS
<1> QED  BY <1>2, <1>3, <1>4

LEMMA LinesOf ==
  ASSUME NEW ev \in Seq(RecordedInput)
  PROVE  /\ Lines(ev) \in Seq({Written(r) : r \in RecordedInput})
         /\ Len(Lines(ev)) = Len(ev)
         /\ \A i \in 1 .. Len(ev) : Lines(ev)[i] = Written(ev[i])
<1>1. Len(ev) \in Nat /\ \A i \in 1 .. Len(ev) : ev[i] \in RecordedInput
  OBVIOUS
<1> QED  BY <1>1 DEF Lines

\* An element put into a sequence of length n after its first p.
PutAfter(s, n, p, x) == SubSeq(s, 1, p) \o <<x>> \o SubSeq(s, p + 1, n)

LEMMA Inserted ==
  ASSUME NEW S, NEW s \in Seq(S), NEW x \in S, NEW n \in Nat, Len(s) = n, NEW p \in 0 .. n
  PROVE  /\ Len(PutAfter(s, n, p, x)) = n + 1
         /\ \A i \in 1 .. p : PutAfter(s, n, p, x)[i] = s[i]
         /\ PutAfter(s, n, p, x)[p + 1] = x
         /\ \A i \in p + 1 .. n : PutAfter(s, n, p, x)[i + 1] = s[i]
<1> DEFINE t == PutAfter(s, n, p, x)
           a == SubSeq(s, 1, p)
           b == <<x>>
           c == SubSeq(s, p + 1, n)
           d == a \o b
<1>0. p \in Nat /\ p <= n /\ \A i \in 1 .. n : s[i] \in S  OBVIOUS
<1>1. a \in Seq(S) /\ Len(a) = p /\ \A i \in 1 .. p : a[i] = s[i]
  <2>1. \A i \in 1 .. p : s[i] \in S  BY <1>0
  <2> QED  BY <1>0, <2>1, SubSeqProperties
<1>2. c \in Seq(S) /\ Len(c) = n - p /\ \A i \in 1 .. n - p : c[i] = s[p + i]
  <2>1. \A i \in p + 1 .. n : s[i] \in S  BY <1>0
  <2>2. /\ c \in Seq(S) /\ Len(c) = IF p + 1 <= n THEN n - (p + 1) + 1 ELSE 0
        /\ \A i \in 1 .. n - (p + 1) + 1 : c[i] = s[(p + 1) + i - 1]
    BY <1>0, <2>1, SubSeqProperties
  <2> HIDE DEF c
  <2>3. Len(c) = n - p  BY <1>0, <2>2
  <2>4. ASSUME NEW i \in 1 .. n - p  PROVE c[i] = s[p + i]
    <3>1. i \in 1 .. n - (p + 1) + 1 /\ (p + 1) + i - 1 = p + i  BY <1>0
    <3> QED  BY <2>2, <3>1
  <2> QED  BY <2>2, <2>3, <2>4
<1>3. b \in Seq(S) /\ Len(b) = 1 /\ b[1] = x  OBVIOUS
<1> HIDE DEF a, b, c, t
<1>4. /\ d \in Seq(S) /\ Len(d) = p + 1
      /\ \A i \in 1 .. p : d[i] = s[i]
      /\ d[p + 1] = x
  <2>1. /\ d \in Seq(S) /\ Len(d) = Len(a) + Len(b)
        /\ \A i \in 1 .. Len(a) + Len(b) : d[i] = IF i <= Len(a) THEN a[i] ELSE b[i - Len(a)]
    BY <1>1, <1>3, ConcatProperties
  <2> HIDE DEF d
  <2>2. p + 1 \in 1 .. p + 1 /\ (p + 1) - p = 1 /\ ~(p + 1 <= p)  BY <1>0
  <2>3. d[p + 1] = x  BY <1>1, <1>3, <2>1, <2>2
  <2>4. \A i \in 1 .. p : i \in 1 .. p + 1 /\ i <= p  BY <1>0
  <2>5. \A i \in 1 .. p : d[i] = s[i]  BY <1>1, <1>3, <2>1, <2>4
  <2> QED  BY <1>1, <1>3, <2>1, <2>3, <2>5
<1> HIDE DEF d
<1>5. /\ Len(t) = (p + 1) + (n - p)
      /\ \A i \in 1 .. (p + 1) + (n - p) :
           t[i] = IF i <= p + 1 THEN d[i] ELSE c[i - (p + 1)]
  <2>1. t = d \o c  BY DEF a, b, c, d, t, PutAfter
  <2>2. /\ Len(d \o c) = Len(d) + Len(c)
        /\ \A i \in 1 .. Len(d) + Len(c) :
             (d \o c)[i] = IF i <= Len(d) THEN d[i] ELSE c[i - Len(d)]
    BY <1>2, <1>4, ConcatProperties
  <2>3. Len(d) = p + 1 /\ Len(c) = n - p  BY <1>2, <1>4
  <2> QED  BY <2>1, <2>2, <2>3
<1>6. (p + 1) + (n - p) = n + 1  BY <1>0
<1>7. ASSUME NEW i \in 1 .. p  PROVE t[i] = s[i]
  <2>1. i \in 1 .. n + 1 /\ i <= p + 1  BY <1>0
  <2> QED  BY <1>4, <1>5, <1>6, <2>1
<1>8. t[p + 1] = x
  <2>1. p + 1 \in 1 .. n + 1 /\ p + 1 <= p + 1  BY <1>0
  <2> QED  BY <1>4, <1>5, <1>6, <2>1
<1>9. ASSUME NEW i \in p + 1 .. n  PROVE t[i + 1] = s[i]
  <2> DEFINE k == i - p
  <2>1. i + 1 \in 1 .. n + 1 /\ ~(i + 1 <= p + 1) /\ (i + 1) - (p + 1) = k
        /\ k \in 1 .. n - p /\ p + k = i
    BY <1>0
  <2> HIDE DEF k
  <2>2. t[i + 1] = c[(i + 1) - (p + 1)]  BY <1>5, <1>6, <2>1
  <2>3. c[k] = s[p + k]  BY <1>2, <2>1
  <2> QED  BY <2>1, <2>2, <2>3
<1> QED  BY <1>5, <1>6, <1>7, <1>8, <1>9 DEF t

\* A comment put between two lines, and two lines exchanged.
LEMMA CommentPut ==
  ASSUME NEW ev \in Seq(RecordedInput), NEW p \in 0 .. Len(ev), NEW lines,
         lines = SubSeq(Lines(ev), 1, p) \o <<Comment>> \o SubSeq(Lines(ev), p + 1, Len(ev))
  PROVE  Len(lines) = Len(ev) + 1 /\ Parsed(lines) = ev
<1> DEFINE S == {Written(r) : r \in RecordedInput} \cup {Comment}
           old == Lines(ev)
           n == Len(ev)
<1>1. n \in Nat /\ \A i \in 1 .. n : ev[i] \in RecordedInput  OBVIOUS
<1>2. Len(old) = n /\ \A i \in 1 .. n : old[i] = Written(ev[i])  BY LinesOf
<1>3. old \in Seq(S)
  <2>1. old \in Seq({Written(r) : r \in RecordedInput})  BY LinesOf
  <2> HIDE DEF old
  <2> QED  BY <2>1
<1>4. Comment \in S  OBVIOUS
<1> HIDE DEF S, old
<1>5. lines = SubSeq(old, 1, p) \o <<Comment>> \o SubSeq(old, p + 1, n)  BY DEF old
<1> HIDE DEF n
<1>0. p \in 0 .. n /\ p \in Nat  BY DEF n
<1>6. /\ Len(lines) = n + 1
      /\ \A i \in 1 .. p : lines[i] = old[i]
      /\ lines[p + 1] = Comment
      /\ \A i \in p + 1 .. n : lines[i + 1] = old[i]
  <2>1. lines = PutAfter(old, n, p, Comment)  BY <1>5 DEF PutAfter
  <2>2. Len(old) = n  BY <1>2
  <2>3. /\ Len(PutAfter(old, n, p, Comment)) = n + 1
        /\ \A i \in 1 .. p : PutAfter(old, n, p, Comment)[i] = old[i]
        /\ PutAfter(old, n, p, Comment)[p + 1] = Comment
        /\ \A i \in p + 1 .. n : PutAfter(old, n, p, Comment)[i + 1] = old[i]
    BY <1>0, <1>1, <1>3, <1>4, <2>2, Inserted
  <2> QED  BY <2>1, <2>3
<1>7. \A i \in 1 .. n : old[i].word # "#" /\ Read(old[i]) = ev[i]
  BY <1>1, <1>2, ReadWritten
<1>8. Comment.word = "#"  BY DEF Comment, Line
<1>9. ASSUME NEW i \in 1 .. n + 1  PROVE lines[i].word # "#" <=> i # p + 1
  <2>1. CASE i <= p
    <3>1. i \in 1 .. p /\ i \in 1 .. n /\ i # p + 1  BY <1>0, <1>1, <2>1
    <3> QED  BY <1>6, <1>7, <3>1
  <2>2. CASE i = p + 1  BY <1>6, <1>8, <2>2
  <2>3. CASE i > p + 1
    <3>1. PICK k \in p + 1 .. n : i = k + 1
      <4>1. i - 1 \in p + 1 .. n /\ i = (i - 1) + 1  BY <1>0, <1>1, <2>3
      <4> QED  BY <4>1
    <3>2. k \in 1 .. n /\ i # p + 1  BY <1>0, <1>1, <2>3
    <3> QED  BY <1>6, <1>7, <3>1, <3>2
  <2>4. i \in Int /\ p \in Int  BY <1>0, <1>1
  <2>5. i <= p \/ i = p + 1 \/ i > p + 1  BY <2>4
  <2> QED  BY <2>1, <2>2, <2>3, <2>5
<1>10. Parsed(lines) = ReadPast(lines, n, p)
  <2>1. \A i \in 1 .. n + 1 : lines[i].word # "#" <=> i # p + 1  BY <1>9
  <2>2. Len(lines) = n + 1  BY <1>6
  <2> QED  BY <1>0, <1>1, <2>1, <2>2, CommentParsed
<1>11. ASSUME NEW k \in 1 .. n  PROVE Read(lines[IF k <= p THEN k ELSE k + 1]) = ev[k]
  <2>1. CASE k <= p
    <3>1. k \in 1 .. p  BY <2>1, <1>0
    <3> QED  BY <1>6, <1>7, <2>1, <3>1
  <2>2. CASE ~(k <= p)
    <3>1. k \in p + 1 .. n  BY <1>0, <1>1, <2>2
    <3> QED  BY <1>6, <1>7, <2>2, <3>1
  <2> QED  BY <2>1, <2>2
<1>12. ev = [k \in 1 .. n |-> ev[k]]  BY DEF n
<1>13. Parsed(lines) = ev  BY <1>10, <1>11, <1>12 DEF ReadPast
<1> QED  BY <1>6, <1>13 DEF n

LEMMA LinesSwapped ==
  ASSUME NEW ev \in Seq(RecordedInput), NEW i \in 1 .. Len(ev) - 1, NEW lines,
         lines = [Lines(ev) EXCEPT ![i] = Lines(ev)[i + 1], ![i + 1] = Lines(ev)[i]]
  PROVE  Parsed(lines) \in Seq(RecordedInput)
<1> DEFINE n == Len(ev)
           old == Lines(ev)
           new == [k \in 1 .. n |-> IF k = i THEN ev[i + 1] ELSE IF k = i + 1 THEN ev[i]
                                    ELSE ev[k]]
<1>1. /\ n \in Nat /\ \A k \in 1 .. n : ev[k] \in RecordedInput
      /\ i \in 1 .. n /\ i + 1 \in 1 .. n
      /\ old \in Seq({Written(r) : r \in RecordedInput}) /\ Len(old) = n
      /\ \A k \in 1 .. n : old[k] = Written(ev[k])
  <2>1. n \in Nat /\ \A k \in 1 .. n : ev[k] \in RecordedInput  OBVIOUS
  <2>2. i \in 1 .. n /\ i + 1 \in 1 .. n  BY <2>1
  <2>3. /\ old \in Seq({Written(r) : r \in RecordedInput}) /\ Len(old) = n
        /\ \A k \in 1 .. n : old[k] = Written(ev[k])
    BY LinesOf
  <2> QED  BY <2>1, <2>2, <2>3
<1>2. /\ new \in Seq(RecordedInput) /\ Len(new) = n
      /\ \A k \in 1 .. n : new[k] = IF k = i THEN ev[i + 1] ELSE IF k = i + 1 THEN ev[i]
                                    ELSE ev[k]
  <2>1. \A k \in 1 .. n : new[k] \in RecordedInput  BY <1>1
  <2> QED  BY <1>1, <2>1
<1> HIDE DEF old, new
<1>3. /\ Len(lines) = n
      /\ \A k \in 1 .. n : lines[k] = IF k = i + 1 THEN old[i] ELSE IF k = i THEN old[i + 1]
                                      ELSE old[k]
  BY <1>1 DEF old
<1>4. \A k \in 1 .. n : lines[k] = Written(new[k])
  BY <1>1, <1>2, <1>3
<1> QED  BY <1>1, <1>2, <1>3, <1>4, LinesParsed
-----------------------------------------------------------------------------
(* Two machines given the same input *)

\* What is reached in a session is a machine.
LEMMA ReachedType ==
  ASSUME NEW ev \in Seq(RecordedInput), NEW fr \in Seq(Machine), NEW tk, NEW after,
         Session(ev, fr, tk, after), NEW i \in 0 .. Len(ev), NEW f \in 0 .. Len(fr)
  PROVE  Reached(ev, fr, tk, after, i, f) \in Machine
<1>1. Len(ev) \in Nat /\ Len(fr) \in Nat /\ \A j \in 1 .. Len(fr) : fr[j] \in Machine
  OBVIOUS
<1>2. i > 0 => after[i] \in Machine
  <2>1. after \in [1 .. Len(ev) -> Machine]  BY DEF Session
  <2>2. i > 0 => i \in 1 .. Len(ev)  BY <1>1
  <2> QED  BY <2>1, <2>2
<1>3. Start(fr, tk, f) \in Machine
  <2>1. CASE f = 0  BY <2>1, FreshType DEF Start
  <2>2. CASE f # 0
    <3>1. f \in 1 .. Len(fr)  BY <1>1, <2>2
    <3>2. fr[f] \in Machine  BY <1>1, <3>1
    <3> QED  BY <2>2, <3>2, ResumedType DEF Start
  <2> QED  BY <2>1, <2>2
<1> QED  BY <1>2, <1>3 DEF Reached

\* An event sets the buttons or leaves them alone.
LEMMA ButtonsAfter ==
  ASSUME NEW m \in Machine, NEW e \in InputEvent
  PROVE  Apply(m, e).buttons = IF e.kind = "buttons" THEN e.held ELSE m.buttons
<1>1. CASE \E k \in Key : e = Pressed(k)
  <2>1. PICK k \in Key : e = Pressed(k)  BY <1>1
  <2>2. Apply(m, e) = [m EXCEPT !.keys = Push(m.keys, k)] /\ e.kind = "key"
    BY <2>1 DEF Apply, Pressed
  <2> QED  BY <2>2 DEF Machine
<1>2. CASE \E d \in Motion : e = Moved(d)
  <2>1. PICK d \in Motion : e = Moved(d)  BY <1>2
  <2>2. /\ Apply(m, e) = [m EXCEPT !.motion = Saturate(m.motion + d),
                                   !.counter = (m.counter + d) % Modulus]
        /\ e.kind = "move"
    BY <2>1 DEF Apply, Moved
  <2> QED  BY <2>2 DEF Machine
<1>3. CASE \E b \in SUBSET Button : e = Held(b)
  <2>1. PICK b \in SUBSET Button : e = Held(b)  BY <1>3
  <2>2. Apply(m, e) = [m EXCEPT !.buttons = b] /\ e.kind = "buttons" /\ e.held = b
    BY <2>1 DEF Apply, Held
  <2> QED  BY <2>2 DEF Machine
<1> QED  BY <1>1, <1>2, <1>3 DEF InputEvent

\* Machines that are alike stay so under an event,
LEMMA AlikeApply ==
  ASSUME NEW w, NEW m \in Machine, NEW n \in Machine, NEW e \in InputEvent, Alike(w, m, n)
  PROVE  Alike(w, Apply(m, e), Apply(n, e))
<1>1. CASE \E k \in Key : e = Pressed(k)
  <2>1. PICK k \in Key : e = Pressed(k)  BY <1>1
  <2>2. /\ Apply(m, e) = [m EXCEPT !.keys = Push(m.keys, k)]
        /\ Apply(n, e) = [n EXCEPT !.keys = Push(n.keys, k)]
    BY <2>1 DEF Apply, Pressed
  <2> QED  BY <2>2 DEF Machine, Alike
<1>2. CASE \E d \in Motion : e = Moved(d)
  <2>1. PICK d \in Motion : e = Moved(d)  BY <1>2
  <2>2. /\ Apply(m, e) = [m EXCEPT !.motion = Saturate(m.motion + d),
                                   !.counter = (m.counter + d) % Modulus]
        /\ Apply(n, e) = [n EXCEPT !.motion = Saturate(n.motion + d),
                                   !.counter = (n.counter + d) % Modulus]
    BY <2>1 DEF Apply, Moved
  <2> QED  BY <2>2 DEF Machine, Alike
<1>3. CASE \E b \in SUBSET Button : e = Held(b)
  <2>1. PICK b \in SUBSET Button : e = Held(b)  BY <1>3
  <2>2. /\ Apply(m, e) = [m EXCEPT !.buttons = b]
        /\ Apply(n, e) = [n EXCEPT !.buttons = b]
    BY <2>1 DEF Apply, Held
  <2> QED  BY <2>2 DEF Machine, Alike
<1> QED  BY <1>1, <1>2, <1>3 DEF InputEvent

\* under a frame of the guest,
LEMMA AlikeResumed ==
  ASSUME NEW w, NEW m \in Machine, NEW n \in Machine, NEW tk, NEW f, Alike(w, m, n)
  PROVE  Alike(w, Resumed(tk, m, f), Resumed(tk, n, f))
BY DEF Alike, Resumed, Machine

\* and in the window under the idle buttons that only one of them is told.
LEMMA AlikeIdle ==
  ASSUME NEW w, w, NEW m \in Machine, NEW n, Alike(w, m, n)
  PROVE  Alike(w, Apply(m, Held({})), n)
<1>1. Apply(m, Held({})) = [m EXCEPT !.buttons = {}]  BY DEF Apply, Held
<1> QED  BY <1>1 DEF Alike, Machine
-----------------------------------------------------------------------------
(* The steps *)

LEMMA InitInv == Init => IInv
<1> SUFFICES ASSUME Init  PROVE IInv
  OBVIOUS
<1> DEFINE none == [i \in 1 .. 0 |-> Fresh]
<1>1. TypeInv
  <2>1. /\ mode = "recording" /\ windowed = FALSE /\ machine = Fresh /\ frame = 0
        /\ events = << >> /\ cursor = 0 /\ first = << >> /\ second = << >>
    BY DEF Init
  <2>2. /\ << >> \in Seq(RecordedInput) /\ << >> \in Seq(Machine)
        /\ Len(<< >>) = 0 /\ 0 \in 0 .. 0
    OBVIOUS
  <2>3. machine \in Machine  BY <2>1, FreshType
  <2> HIDE DEF Machine, RecordedInput
  <2> QED  BY <2>1, <2>2, <2>3 DEF TypeInv
<1>2. OnTime /\ FileInv  BY DEF Init, OnTime, FileInv
<1>3. Session(events, first, takes, none)  BY DEF Init, Session
<1>4. Recording(none)  BY DEF Init, Recording, Reached, Start, Fresh
<1>5. mode = "recording"  BY DEF Init
<1> HIDE DEF none
<1>6. SessionInv  BY <1>3, <1>4, <1>5 DEF SessionInv
<1> QED  BY <1>1, <1>2, <1>6 DEF IInv

LEMMA StutterInv == IInv /\ UNCHANGED vars => IInv'
BY DEF IInv, vars, TypeInv, OnTime, FileInv, SessionInv, Kept, Recording, Replaying

LEMMA DeliverInv ==
  ASSUME IInv, mode = "recording", NEW e \in InputEvent, Deliver(e)
  PROVE  IInv'
<1>1. /\ machine \in Machine /\ frame \in Nat /\ events \in Seq(RecordedInput)
      /\ first \in Seq(Machine) /\ second = << >> /\ cursor = 0 /\ ~windowed
  BY DEF IInv, TypeInv
<1>2. PICK after : Session(events, first, takes, after) /\ Recording(after)
  BY DEF IInv, SessionInv, Kept
<1>3. /\ mode' = mode /\ windowed' = windowed /\ frame' = frame /\ file' = file
      /\ cursor' = cursor /\ takes' = takes /\ swapped' = swapped
      /\ first' = first /\ second' = second
      /\ machine' = Apply(machine, e)
      /\ events' = IF IsRecorded(e) THEN Append(events, [frame |-> frame, event |-> e])
                                    ELSE events
      /\ lastButtons' = IF e.kind = "buttons" THEN e.held ELSE lastButtons
  BY DEF Deliver, Record
<1>4. /\ frame = Len(first) /\ ~swapped
      /\ machine = Reached(events, first, takes, after, Len(events), Len(first))
      /\ lastButtons = machine.buttons \/ lastButtons = {"none"}
  BY <1>2 DEF Recording
<1>5. machine' \in Machine  BY <1>1, <1>3, ApplyType
<1>6. lastButtons' = machine'.buttons \/ lastButtons' = {"none"}
  BY <1>1, <1>3, <1>4, ButtonsAfter
<1>7. /\ events' \in Seq(RecordedInput)
      /\ \E a : /\ Session(events', first, takes, a)
                /\ Reached(events', first, takes, a, Len(events'), Len(first)) = machine'
  <2>1. CASE IsRecorded(e)
    <3>1. machine' = Apply(Reached(events, first, takes, after, Len(events), Len(first)), e)
      BY <1>3, <1>4
    <3>2. events' = Append(events, [frame |-> Len(first), event |-> e])
      BY <1>3, <1>4, <2>1
    <3> QED  BY <1>1, <1>2, <1>5, <3>1, <3>2, RecordingExtends
  <2>2. CASE ~IsRecorded(e)
    <3>1. machine' = machine  BY <1>1, <1>3, <1>4, <2>2, UnrecordedChangesNothing
    <3> QED  BY <1>1, <1>2, <1>3, <1>4, <2>2, <3>1
  <2> QED  BY <2>1, <2>2
<1>8. PICK a : /\ Session(events', first, takes, a)
               /\ Reached(events', first, takes, a, Len(events'), Len(first)) = machine'
  BY <1>7
<1>9. TypeInv'
  <2>1. 0 \in 0 .. Len(events')  BY <1>7
  <2> QED  BY <1>1, <1>3, <1>5, <1>7, <2>1 DEF IInv, TypeInv
<1>10. OnTime' /\ FileInv'  BY <1>3 DEF OnTime, FileInv
<1>11. SessionInv'
  <2>1. Recording(a)'  BY <1>3, <1>4, <1>6, <1>8 DEF Recording
  <2> QED  BY <1>3, <1>8, <2>1 DEF SessionInv
<1> QED  BY <1>9, <1>10, <1>11 DEF IInv

LEMMA RunFrameInv == IInv /\ RunFrame => IInv'
<1> SUFFICES ASSUME IInv, RunFrame  PROVE IInv'
  OBVIOUS
<1>1. /\ machine \in Machine /\ frame \in Nat /\ events \in Seq(RecordedInput)
      /\ first \in Seq(Machine) /\ second = << >> /\ cursor = 0 /\ ~windowed
  BY DEF IInv, TypeInv, RunFrame
<1>2. PICK after : Session(events, first, takes, after) /\ Recording(after)
  BY DEF IInv, SessionInv, Kept, RunFrame
<1>3. /\ mode = "recording"
      /\ mode' = mode /\ windowed' = windowed /\ frame' = frame + 1 /\ file' = file
      /\ cursor' = cursor /\ takes' = takes /\ swapped' = swapped /\ events' = events
      /\ first' = Append(first, machine) /\ second' = second
      /\ lastButtons' = lastButtons
  BY DEF RunFrame
<1>4. machine' = Resumed(takes, machine, frame)  BY DEF RunFrame, AfterFrame, Resumed
<1>5. /\ frame = Len(first) /\ ~swapped
      /\ machine = Reached(events, first, takes, after, Len(events), Len(first))
      /\ lastButtons = machine.buttons \/ lastButtons = {"none"}
  BY <1>2 DEF Recording
<1>6. /\ first' \in Seq(Machine) /\ Len(first') = Len(first) + 1
      /\ Session(events, first', takes, after)
      /\ Reached(events, first', takes, after, Len(events), Len(first) + 1)
           = Resumed(takes, machine, Len(first))
  BY <1>1, <1>2, <1>3, <1>5, SessionExtends
<1>7. machine' \in Machine /\ machine'.buttons = machine.buttons
  BY <1>1, <1>4, ResumedType
<1>8. TypeInv'  BY <1>1, <1>3, <1>6, <1>7 DEF IInv, TypeInv
<1>9. OnTime' /\ FileInv'  BY <1>3 DEF OnTime, FileInv
<1>10. SessionInv'
  <2>1. Recording(after)'  BY <1>3, <1>4, <1>5, <1>6, <1>7 DEF Recording
  <2> QED  BY <1>3, <1>6, <2>1 DEF SessionInv
<1> QED  BY <1>8, <1>9, <1>10 DEF IInv

LEMMA FinishInv == IInv /\ FinishRecording => IInv'
<1> SUFFICES ASSUME IInv, FinishRecording  PROVE IInv'
  OBVIOUS
<1>1. /\ machine \in Machine /\ frame \in Nat /\ events \in Seq(RecordedInput)
      /\ first \in Seq(Machine) /\ second = << >> /\ cursor = 0
      /\ ~windowed /\ windowed \in BOOLEAN /\ Len(events) \in Nat /\ cursor \in 0 .. Len(events)
      /\ second \in Seq(Machine)
  BY DEF IInv, TypeInv, FinishRecording
<1>2. PICK after : Session(events, first, takes, after) /\ Recording(after)
  BY DEF IInv, SessionInv, Kept, FinishRecording
<1>3. /\ windowed' = windowed /\ frame' = frame /\ machine' = machine
      /\ cursor' = cursor /\ takes' = takes /\ swapped' = swapped /\ events' = events
      /\ first' = first /\ second' = second
      /\ mode' = "refused" \/ (mode' = "saved" /\ file' = Lines(events))
  BY DEF FinishRecording, Lines
<1>4. TypeInv'  BY <1>1, <1>3 DEF TypeInv
<1>5. OnTime'  BY <1>3 DEF OnTime
<1>6. FileInv'
  <2> SUFFICES ASSUME mode' = "saved"  PROVE Parsed(file') = events /\ file' = Lines(events)
    BY <1>1, <1>3 DEF FileInv
  <2>1. file' = Lines(events)  BY <1>3
  <2>2. Parsed(Lines(events)) = events  BY <1>1, LinesOf, LinesParsed
  <2> QED  BY <2>1, <2>2
<1>7. SessionInv'  BY <1>2, <1>3 DEF SessionInv, Kept
<1> QED  BY <1>4, <1>5, <1>6, <1>7 DEF IInv

LEMMA EditInv == IInv /\ EditFile => IInv'
<1> SUFFICES ASSUME IInv, EditFile  PROVE IInv'
  OBVIOUS
<1>1. /\ machine \in Machine /\ frame \in Nat /\ events \in Seq(RecordedInput)
      /\ first \in Seq(Machine) /\ second = << >> /\ cursor = 0
      /\ ~windowed /\ windowed \in BOOLEAN /\ Len(events) \in Nat /\ cursor \in 0 .. Len(events)
      /\ second \in Seq(Machine)
  BY DEF IInv, TypeInv, EditFile
<1>2. PICK after : Session(events, first, takes, after)
  BY DEF IInv, SessionInv, Kept, EditFile
<1>3. /\ mode = "saved" /\ mode' = mode
      /\ windowed' = windowed /\ frame' = frame /\ machine' = machine
      /\ cursor' = cursor /\ takes' = takes /\ events' = events
      /\ first' = first /\ second' = second /\ ~swapped
  BY DEF EditFile
<1>4. file = Lines(events) /\ Len(file) = Len(events)  BY <1>3 DEF IInv, FileInv, EditFile
<1>5. TypeInv'  BY <1>1, <1>3 DEF TypeInv
<1>6. OnTime'  BY <1>3 DEF OnTime
<1>7. FileInv'
  <2>1. CASE \E i \in 0 .. Len(file) :
               file' = SubSeq(file, 1, i) \o <<Comment>> \o SubSeq(file, i + 1, Len(file))
    <3>1. Len(file') = Len(events) + 1 /\ Parsed(file') = events
      BY <1>1, <1>4, <2>1, CommentPut
    <3>2. Len(file') # Len(events)  BY <1>1, <3>1
    <3> QED  BY <1>1, <1>3, <3>1, <3>2 DEF FileInv
  <2>2. CASE /\ swapped'
             /\ \E i \in 1 .. Len(file) - 1 :
                  file' = [file EXCEPT ![i] = file[i + 1], ![i + 1] = file[i]]
    <3>1. Parsed(file') \in Seq(RecordedInput)
      BY <1>1, <1>4, <2>2, LinesSwapped
    <3> QED  BY <2>2, <3>1 DEF FileInv
  <2> QED  BY <2>1, <2>2 DEF EditFile
<1>8. SessionInv'  BY <1>2, <1>3 DEF SessionInv, Kept
<1> QED  BY <1>5, <1>6, <1>7, <1>8 DEF IInv

LEMMA StartInv == IInv /\ StartReplay => IInv'
<1> SUFFICES ASSUME IInv, StartReplay  PROVE IInv'
  OBVIOUS
<1>1. /\ first \in Seq(Machine) /\ second = << >> /\ cursor = 0
      /\ events \in Seq(RecordedInput) /\ Parsed(file) \in Seq(RecordedInput)
      /\ (~swapped => Parsed(file) = events)
  BY DEF IInv, TypeInv, FileInv, StartReplay
<1>2. PICK after : Session(events, first, takes, after)
  BY DEF IInv, SessionInv, Kept, StartReplay
<1>3. /\ windowed' \in BOOLEAN /\ frame' = 0 /\ machine' = Fresh
      /\ cursor' = cursor /\ takes' = takes /\ swapped' = swapped
      /\ first' = first /\ second' = second
      /\ \/ mode' = "refused" /\ events' = events
         \/ mode' = "replaying" /\ events' = Parsed(file) /\ InOrder(events')
  BY DEF StartReplay
<1>4. events' \in Seq(RecordedInput) /\ Len(events') \in Nat /\ 0 \in 0 .. Len(events')
  BY <1>1, <1>3
<1>5. TypeInv'  BY <1>1, <1>3, <1>4, FreshType DEF TypeInv
<1>6. OnTime'
  <2> SUFFICES ASSUME mode' = "replaying", 0 < Len(events')  PROVE 0 <= events'[1].frame
    BY <1>1, <1>3 DEF OnTime
  <2>1. events'[1] \in RecordedInput  BY <1>4
  <2> QED  BY <2>1 DEF RecordedInput
<1>7. FileInv'  BY <1>3 DEF FileInv
<1>8. SessionInv'
  <2> SUFFICES ASSUME mode' = "replaying", ~swapped
               PROVE  Session(events', first', takes', after) /\ Replaying(after)'
    BY <1>3 DEF SessionInv, Kept
  <2>1. Session(events', first', takes', after)  BY <1>1, <1>2, <1>3
  <2>2. Reached(events', first', takes', after, 0, 0) = Fresh  BY DEF Reached, Start
  <2> QED  BY <1>1, <1>3, <2>1, <2>2 DEF Replaying, Alike
<1> QED  BY <1>5, <1>6, <1>7, <1>8 DEF IInv

LEMMA PollIdleInv == IInv /\ PollIdle => IInv'
<1> SUFFICES ASSUME IInv, PollIdle  PROVE IInv'
  OBVIOUS
<1>1. machine \in Machine /\ windowed  BY DEF IInv, TypeInv, PollIdle
<1>2. /\ mode = "replaying" /\ mode' = mode /\ machine' = Apply(machine, Held({}))
      /\ windowed' = windowed /\ frame' = frame /\ events' = events
      /\ cursor' = cursor /\ takes' = takes /\ swapped' = swapped
      /\ first' = first /\ second' = second
  BY DEF PollIdle
<1>3. machine' \in Machine
  <2>1. Held({}) \in InputEvent  BY DEF InputEvent
  <2> QED  BY <1>1, <1>2, <2>1, ApplyType
<1>4. TypeInv'  BY <1>2, <1>3 DEF IInv, TypeInv
<1>5. OnTime'  BY <1>2 DEF IInv, OnTime
<1>6. FileInv'  BY <1>2 DEF FileInv
<1>7. SessionInv'
  <2> SUFFICES ASSUME ~swapped  PROVE SessionInv'
    BY <1>2 DEF SessionInv, Kept
  <2>1. PICK after : Session(events, first, takes, after) /\ Replaying(after)
    BY <1>2 DEF IInv, SessionInv, Kept
  <2>2. frame <= Len(first) =>
          Alike(windowed, machine', Reached(events, first, takes, after, cursor, frame))
    BY <1>1, <1>2, <2>1, AlikeIdle DEF Replaying
  <2>3. Replaying(after)'  BY <1>2, <2>1, <2>2 DEF Replaying
  <2> QED  BY <1>2, <2>1, <2>3 DEF SessionInv
<1> QED  BY <1>4, <1>5, <1>6, <1>7 DEF IInv

LEMMA ReplayEventInv == IInv /\ ReplayEvent => IInv'
<1> SUFFICES ASSUME IInv, ReplayEvent  PROVE IInv'
  OBVIOUS
<1> DEFINE next == events[cursor + 1]
<1>1. /\ machine \in Machine /\ frame \in Nat /\ events \in Seq(RecordedInput)
      /\ cursor \in 0 .. Len(events) /\ Len(events) \in Nat /\ first \in Seq(Machine)
  BY DEF IInv, TypeInv
<1>2. /\ mode = "replaying" /\ mode' = mode /\ machine' = Apply(machine, next.event)
      /\ windowed' = windowed /\ frame' = frame /\ events' = events
      /\ cursor' = cursor + 1 /\ takes' = takes /\ swapped' = swapped
      /\ first' = first /\ second' = second
      /\ cursor < Len(events) /\ next.frame = frame
  BY DEF ReplayEvent, Ready, Due
<1>3. /\ cursor \in Nat /\ cursor + 1 \in 1 .. Len(events) /\ (cursor + 1) - 1 = cursor
      /\ cursor + 1 > 0
  BY <1>1, <1>2
<1>4. next \in RecordedInput  BY <1>1, <1>3
<1>5. machine' \in Machine  BY <1>1, <1>2, <1>4, ApplyType DEF RecordedInput
<1>6. TypeInv'
  <2>1. cursor + 1 \in 0 .. Len(events)  BY <1>3
  <2> QED  BY <1>2, <1>5, <2>1 DEF IInv, TypeInv
<1>7. OnTime'
  <2>1. InOrder(events)  BY <1>2 DEF IInv, OnTime
  <2> SUFFICES ASSUME cursor + 1 < Len(events)  PROVE frame <= events[(cursor + 1) + 1].frame
    BY <1>2, <2>1 DEF OnTime
  <2>2. cursor + 1 \in 1 .. Len(events) - 1  BY <1>1, <1>3
  <2> QED  BY <1>2, <2>1, <2>2 DEF InOrder
<1>8. FileInv'  BY <1>2 DEF FileInv
<1>9. SessionInv'
  <2> SUFFICES ASSUME ~swapped  PROVE SessionInv'
    BY <1>2 DEF SessionInv, Kept
  <2>1. PICK after : Session(events, first, takes, after) /\ Replaying(after)
    BY <1>2 DEF IInv, SessionInv, Kept
  <2> DEFINE R == Reached(events, first, takes, after, cursor, frame)
  <2>2. frame <= Len(first)  BY <1>2, <1>3, <2>1 DEF Session
  <2>3. Alike(windowed, machine, R)  BY <2>1, <2>2 DEF Replaying
  <2>4. R \in Machine
    <3>1. frame \in 0 .. Len(first)  BY <1>1, <2>2
    <3> QED  BY <1>1, <2>1, <3>1, ReachedType
  <2>5. after[cursor + 1] = Apply(R, next.event)
    BY <1>2, <1>3, <2>1 DEF Session
  <2>6. Reached(events, first, takes, after, cursor + 1, frame) = after[cursor + 1]
    BY <1>2, <1>3 DEF Reached
  <2>7. next.event \in InputEvent  BY <1>4 DEF RecordedInput
  <2> HIDE DEF R, next
  <2>8. Alike(windowed, Apply(machine, next.event), Apply(R, next.event))
    BY <1>1, <2>3, <2>4, <2>7, AlikeApply
  <2>9. Alike(windowed, machine', Reached(events, first, takes, after, cursor + 1, frame))
    BY <1>2, <2>5, <2>6, <2>8
  <2>10. frame = Len(second) /\ events[cursor + 1].frame <= frame
    BY <1>1, <1>2, <2>1 DEF Replaying, next
  <2>11. Replaying(after)'  BY <1>2, <2>1, <2>9, <2>10 DEF Replaying
  <2> QED  BY <1>2, <2>1, <2>11 DEF SessionInv
<1> QED  BY <1>6, <1>7, <1>8, <1>9 DEF IInv

LEMMA RunReplayedInv == IInv /\ RunReplayed => IInv'
<1> SUFFICES ASSUME IInv, RunReplayed  PROVE IInv'
  OBVIOUS
<1>1. /\ machine \in Machine /\ frame \in Nat /\ events \in Seq(RecordedInput)
      /\ cursor \in 0 .. Len(events) /\ Len(events) \in Nat
      /\ first \in Seq(Machine) /\ second \in Seq(Machine)
      /\ Len(first) \in Nat /\ Len(second) \in Nat /\ cursor \in Nat
  BY DEF IInv, TypeInv
<1>2. /\ mode = "replaying" /\ mode' = mode
      /\ windowed' = windowed /\ frame' = frame + 1 /\ events' = events
      /\ cursor' = cursor /\ takes' = takes /\ swapped' = swapped
      /\ first' = first /\ second' = Append(second, machine)
  BY DEF RunReplayed, Ready
<1>3. machine' = Resumed(takes, machine, frame)  BY DEF RunReplayed, AfterFrame, Resumed
<1>4. machine' \in Machine  BY <1>1, <1>3, ResumedType
<1>5. /\ second' \in Seq(Machine) /\ Len(second') = Len(second) + 1
      /\ \A i \in 1 .. Len(second) : second'[i] = second[i]
      /\ second'[Len(second) + 1] = machine
  BY <1>1, <1>2, OneMore
<1>6. \A i \in 1 .. Len(events) : events[i].frame \in Nat
  <2>1. \A i \in 1 .. Len(events) : events[i] \in RecordedInput  BY <1>1
  <2> QED  BY <2>1 DEF RecordedInput
<1>7. cursor < Len(events) => events[cursor + 1].frame > frame
  <2> SUFFICES ASSUME cursor < Len(events)  PROVE events[cursor + 1].frame > frame
    OBVIOUS
  <2>1. events[cursor + 1].frame # frame  BY DEF RunReplayed, Due
  <2>2. frame <= events[cursor + 1].frame  BY <1>2 DEF IInv, OnTime
  <2>3. events[cursor + 1].frame \in Nat  BY <1>1, <1>6
  <2> QED  BY <1>1, <2>1, <2>2, <2>3
<1>8. TypeInv'
  <2>1. frame + 1 \in Nat  BY <1>1
  <2> QED  BY <1>1, <1>2, <1>4, <1>5, <2>1 DEF IInv, TypeInv
<1>9. OnTime'
  <2>1. InOrder(events)  BY <1>2 DEF IInv, OnTime
  <2>2. cursor < Len(events) => frame + 1 <= events[cursor + 1].frame
    <3>1. cursor < Len(events) => events[cursor + 1].frame \in Nat  BY <1>1, <1>6
    <3> QED  BY <1>1, <1>7, <3>1
  <2> QED  BY <1>2, <2>1, <2>2 DEF OnTime
<1>10. FileInv'  BY <1>2 DEF FileInv
<1>11. SessionInv'
  <2> SUFFICES ASSUME ~swapped  PROVE SessionInv'
    BY <1>2 DEF SessionInv, Kept
  <2>1. PICK after : Session(events, first, takes, after) /\ Replaying(after)
    BY <1>2 DEF IInv, SessionInv, Kept
  <2>2. /\ frame = Len(second) /\ (cursor > 0 => events[cursor].frame <= frame)
        /\ frame <= Len(first) =>
             Alike(windowed, machine, Reached(events, first, takes, after, cursor, frame))
        /\ \A i \in 1 .. Len(second) : i <= Len(first) => Alike(windowed, second[i], first[i])
    BY <2>1 DEF Replaying
  <2>3. cursor > 0 => /\ events[cursor].frame <= frame + 1
                      /\ events[cursor].frame # frame + 1
    <3>1. cursor > 0 => events[cursor].frame \in Nat  BY <1>1, <1>6
    <3> QED  BY <1>1, <2>2, <3>1
  <2>4. ASSUME frame + 1 <= Len(first)
        PROVE  /\ Alike(windowed, machine, first[frame + 1])
               /\ Alike(windowed, machine',
                        Reached(events, first, takes, after, cursor, frame + 1))
    <3>1. Final(events, cursor, frame)  BY <1>7, <2>2 DEF Final
    <3>2. frame \in 0 .. Len(first) - 1 /\ frame <= Len(first) /\ frame + 1 \in 1 .. Len(first)
      BY <1>1, <2>4
    <3>3. first[frame + 1] = Reached(events, first, takes, after, cursor, frame)
      BY <1>1, <2>1, <3>1, <3>2 DEF Session
    <3>4. first[frame + 1] \in Machine  BY <1>1, <3>2
    <3>5. Alike(windowed, machine, first[frame + 1])  BY <2>2, <3>2, <3>3
    <3>6. Reached(events, first, takes, after, cursor, frame + 1)
            = Resumed(takes, first[frame + 1], frame)
      <4>1. frame + 1 # 0 /\ (frame + 1) - 1 = frame  BY <1>1
      <4> QED  BY <2>3, <4>1 DEF Reached, Start
    <3> QED  BY <1>1, <1>3, <3>4, <3>5, <3>6, AlikeResumed
  <2>5. ASSUME NEW i \in 1 .. Len(second) + 1, i <= Len(first)
        PROVE  Alike(windowed, second'[i], first[i])
    <3>1. CASE i \in 1 .. Len(second)  BY <1>5, <2>2, <2>5, <3>1
    <3>2. CASE i = Len(second) + 1  BY <1>5, <2>2, <2>4, <2>5, <3>2
    <3> QED  BY <1>1, <3>1, <3>2
  <2>6. Replaying(after)'
    <3>1. frame + 1 = Len(second')  BY <1>5, <2>2
    <3> QED  BY <1>2, <1>5, <2>3, <2>4, <2>5, <3>1 DEF Replaying
  <2> QED  BY <1>2, <2>1, <2>6 DEF SessionInv
<1> QED  BY <1>8, <1>9, <1>10, <1>11 DEF IInv

LEMMA NextInv == IInv /\ [Next]_vars => IInv'
<1> SUFFICES ASSUME IInv, [Next]_vars  PROVE IInv'
  OBVIOUS
<1>1. CASE PassInput
  <2>1. PICK e \in InputEvent : Deliver(e)  BY <1>1 DEF PassInput, InputEvent
  <2> QED  BY <1>1, <2>1, DeliverInv DEF PassInput
<1>2. CASE PollButtons
  <2>1. PICK e \in InputEvent : Deliver(e)  BY <1>2 DEF PollButtons, InputEvent
  <2> QED  BY <1>2, <2>1, DeliverInv DEF PollButtons
<1> QED  BY <1>1, <1>2, RunFrameInv, FinishInv, EditInv, StartInv, PollIdleInv, ReplayEventInv,
            RunReplayedInv, StutterInv DEF Next
-----------------------------------------------------------------------------
LEMMA IInvHolds == Spec => []IInv
BY InitInv, NextInv, PTL DEF Spec

\* The guest of a capture run sees, frame by frame, the input of the session that was
\* recorded (replay.rs and the input entry points of emulator.rs), however long the
\* session, and whatever comment was put into the file.
THEOREM ReplayIsFaithful == Spec => []ReplayFaithful
<1>1. IInv => ReplayFaithful
  <2> SUFFICES ASSUME IInv, ~windowed, ~swapped, NEW i \in 1 .. Len(second), i <= Len(first)
               PROVE  second[i] = first[i]
    BY DEF ReplayFaithful, DeterministicReplay
  <2>1. mode = "replaying"  BY DEF IInv, TypeInv
  <2>2. Alike(windowed, second[i], first[i])
    BY <2>1 DEF IInv, SessionInv, Kept, Replaying
  <2> QED  BY <2>2 DEF Alike
<1> QED  BY <1>1, IInvHolds, PTL

\* In the window the replay is that of the session but for the buttons, and no recording
\* that is attached, edited or not, leaves an event behind the machine.
THEOREM DrivenInputIsFaithful == Spec => []DrivenInputFaithful
<1>1. IInv => DrivenInputFaithful
  <2> SUFFICES ASSUME IInv  PROVE DrivenInputFaithful
    OBVIOUS
  <2>1. ASSUME ~swapped, NEW i \in 1 .. Len(second), i <= Len(first)
        PROVE  [second[i] EXCEPT !.buttons = {}] = [first[i] EXCEPT !.buttons = {}]
    <3>1. mode = "replaying"  BY <2>1 DEF IInv, TypeInv
    <3>2. Alike(windowed, second[i], first[i])
      BY <2>1, <3>1 DEF IInv, SessionInv, Kept, Replaying
    <3>3. second[i] \in Machine /\ first[i] \in Machine
      <4>1. first \in Seq(Machine) /\ second \in Seq(Machine)  BY DEF IInv, TypeInv
      <4>2. i \in 1 .. Len(first)  BY <2>1, <4>1
      <4> QED  BY <4>1, <4>2
    <3> QED  BY <3>2, <3>3 DEF Alike, Machine
  <2>2. mode = "replaying" /\ cursor < Len(events) => frame <= events[cursor + 1].frame
    BY DEF IInv, OnTime
  <2> QED  BY <2>1, <2>2 DEF DrivenInputFaithful
<1> QED  BY <1>1, IInvHolds, PTL
=============================================================================
