------------------------- MODULE DesktopShell_proofs -------------------------
(***************************************************************************)
(* The safety invariants of DesktopShell, for any number of API calls,      *)
(* drives, files and setting values.                                        *)
(***************************************************************************)
EXTENDS DesktopShell, TLAPS

\* Only the command phase has a batch in progress.
BatchInCommands == phase # "commands" => batch = << >>

\* The clone taken for the frame is current unless a PUT has queued a command.
CloneCurrent ==
  phase = "publish" /\ ~Mentions(pending, "network") => clone = reported["network"]

\* A flush path always names the disk in the drive.
PathNamesDisk == \A d \in Drive : flushPath[d] # NoDisk => flushPath[d] = inDrive[d]

IInv ==
  /\ TypeOK
  /\ BatchInCommands
  /\ ConfigAgreement
  /\ CommandsInOrder
  /\ CloneCurrent
  /\ NetworkViewCurrent
  /\ PausedStandsStill
  /\ PathNamesDisk
  /\ FlushTargetsOwner
-----------------------------------------------------------------------------
(* Sequences of commands *)

LEMMA ConcatFacts ==
  ASSUME NEW S, NEW q \in Seq(S), NEW r \in Seq(S)
  PROVE  /\ q \o r \in Seq(S)
         /\ Len(q \o r) = Len(q) + Len(r)
         /\ \A i \in 1 .. Len(q) : (q \o r)[i] = q[i]
         /\ \A i \in 1 .. Len(r) : (q \o r)[Len(q) + i] = r[i]
  OBVIOUS

LEMMA TailFacts ==
  ASSUME NEW S, NEW q \in Seq(S), q # << >>
  PROVE  /\ Tail(q) \in Seq(S) /\ Len(Tail(q)) = Len(q) - 1 /\ Len(q) >= 1
         /\ Head(q) = q[1] /\ Head(q) \in S
         /\ \A i \in 1 .. Len(q) - 1 : Tail(q)[i] = q[i + 1]
  OBVIOUS

\* The commands Enqueue appends.
Numbered(ops) == [i \in 1 .. Len(ops) |-> [id |-> accepted + i, op |-> ops[i]]]

LEMMA NumberedFacts ==
  ASSUME NEW ops \in Seq(Op), accepted \in Nat
  PROVE  /\ Numbered(ops) \in Seq(Command)
         /\ Len(Numbered(ops)) = Len(ops)
         /\ \A i \in 1 .. Len(ops) : /\ Numbered(ops)[i].id = accepted + i
                                     /\ Numbered(ops)[i].op = ops[i]
<1>1. \A i \in 1 .. Len(ops) : [id |-> accepted + i, op |-> ops[i]] \in Command
  <2> TAKE i \in 1 .. Len(ops)
  <2>1. ops[i] \in Op /\ accepted + i \in Nat
    OBVIOUS
  <2> QED BY <2>1 DEF Command
<1>2. Len(ops) \in Nat
  OBVIOUS
<1>3. Numbered(ops) \in [1 .. Len(ops) -> Command]
  BY <1>1 DEF Numbered
<1>4. Numbered(ops) \in Seq(Command) /\ Len(Numbered(ops)) = Len(ops)
  BY <1>2, <1>3
<1> QED BY <1>4 DEF Numbered

\* Commands are never forgotten by appending others.
LEMMA MentionsAppend ==
  ASSUME NEW q \in Seq(Command), NEW r \in Seq(Command), NEW s
  PROVE  /\ Mentions(q, s) => Mentions(q \o r, s)
         /\ Mentions(r, s) => Mentions(q \o r, s)
<1>1. Len(q) \in Nat /\ Len(r) \in Nat
  OBVIOUS
<1>2. ASSUME NEW i \in 1 .. Len(r) PROVE Len(q) + i \in 1 .. Len(q \o r)
  BY <1>1, ConcatFacts
<1>3. ASSUME NEW i \in 1 .. Len(q) PROVE i \in 1 .. Len(q \o r)
  BY <1>1, ConcatFacts
<1> QED BY <1>2, <1>3, ConcatFacts, SMTT(20) DEF Mentions

\* Executing the head of the batch drops at most the head's own setting.
LEMMA MentionsTail ==
  ASSUME NEW q \in Seq(Command), q # << >>, NEW s, Mentions(q, s),
         ~(Head(q).op.kind = "Update" /\ Head(q).op.setting = s)
  PROVE  Mentions(Tail(q), s)
<1>1. PICK i \in 1 .. Len(q) : q[i].op.kind = "Update" /\ q[i].op.setting = s
  BY DEF Mentions
<1>2. i # 1
  BY <1>1, TailFacts
<1>3. i - 1 \in 1 .. Len(Tail(q)) /\ Tail(q)[i - 1] = q[i]
  <2>1. /\ Len(q) \in Nat /\ i \in Nat /\ i - 1 \in 1 .. Len(q) - 1
        /\ (i - 1) + 1 = i
    BY <1>2, TailFacts
  <2> QED BY <2>1, TailFacts
<1> QED BY <1>1, <1>3 DEF Mentions
-----------------------------------------------------------------------------
(* Queueing *)

LEMMA EnqueueFacts ==
  ASSUME TypeOK, NEW ops \in Seq(Op), Enqueue(ops)
  PROVE  /\ pending' \in Seq(Command) /\ accepted' \in Nat
         /\ accepted' = accepted + Len(ops)
         /\ Len(pending') = Len(pending) + Len(ops)
         /\ \A i \in 1 .. Len(pending) : pending'[i] = pending[i]
         /\ \A i \in 1 .. Len(ops) :
              /\ pending'[Len(pending) + i].id = accepted + i
              /\ pending'[Len(pending) + i].op = ops[i]
         /\ \A s : Mentions(pending, s) => Mentions(pending', s)
<1>1. pending \in Seq(Command) /\ accepted \in Nat /\ Len(ops) \in Nat
  BY DEF TypeOK
<1>2. pending' = pending \o Numbered(ops) /\ accepted' = accepted + Len(ops)
  BY DEF Enqueue, Numbered
<1>3. /\ Numbered(ops) \in Seq(Command) /\ Len(Numbered(ops)) = Len(ops)
      /\ \A i \in 1 .. Len(ops) : /\ Numbered(ops)[i].id = accepted + i
                                  /\ Numbered(ops)[i].op = ops[i]
  BY <1>1, NumberedFacts
<1> HIDE DEF Numbered
<1>4. /\ pending' \in Seq(Command)
      /\ Len(pending') = Len(pending) + Len(ops)
      /\ \A i \in 1 .. Len(pending) : pending'[i] = pending[i]
      /\ \A i \in 1 .. Len(ops) : pending'[Len(pending) + i] = Numbered(ops)[i]
  <2> DEFINE r == Numbered(ops)
  <2>1. /\ pending \o r \in Seq(Command)
        /\ Len(pending \o r) = Len(pending) + Len(r)
        /\ \A i \in 1 .. Len(pending) : (pending \o r)[i] = pending[i]
        /\ \A i \in 1 .. Len(r) : (pending \o r)[Len(pending) + i] = r[i]
    <3>1. r \in Seq(Command)
      BY <1>3
    <3> HIDE DEF r
    <3> QED BY <1>1, <3>1, ConcatFacts
  <2>2. pending' = pending \o r /\ Len(r) = Len(ops)
    BY <1>2, <1>3
  <2> HIDE DEF r
  <2>3. QED BY <2>1, <2>2 DEF r
<1>5. \A s : Mentions(pending, s) => Mentions(pending', s)
  BY <1>1, <1>2, <1>3, MentionsAppend
<1>6. accepted' \in Nat
  BY <1>1, <1>2
<1> QED BY <1>2, <1>3, <1>4, <1>5, <1>6

\* Appending the next numbers keeps the outstanding commands consecutive.
LEMMA EnqueueInOrder ==
  ASSUME TypeOK, CommandsInOrder, NEW ops \in Seq(Op), Enqueue(ops),
         UNCHANGED <<batch, executed>>
  PROVE  CommandsInOrder'
<1> DEFINE n == Len(batch)
           k == Len(pending)
           m == Len(ops)
<1>1. /\ n \in Nat /\ k \in Nat /\ m \in Nat /\ executed \in Nat /\ accepted \in Nat
      /\ accepted = executed + n + k
  BY DEF TypeOK, CommandsInOrder
<1>2. /\ accepted' = accepted + m /\ Len(pending') = k + m
      /\ \A i \in 1 .. k : pending'[i] = pending[i]
      /\ \A i \in 1 .. m : pending'[k + i].id = accepted + i
  BY EnqueueFacts
<1>3. ASSUME NEW i \in 1 .. k + m PROVE pending'[i].id = executed + n + i
  <2>1. CASE i \in 1 .. k
    BY <1>2, <2>1 DEF CommandsInOrder
  <2>2. CASE i \notin 1 .. k
    <3>1. i - k \in 1 .. m /\ k + (i - k) = i /\ accepted + (i - k) = executed + n + i
      BY <1>1, <2>2
    <3> QED BY <1>2, <3>1
  <2> QED BY <2>1, <2>2
<1>4. accepted' = executed + n + (k + m)
  BY <1>1, <1>2
<1> QED BY <1>2, <1>3, <1>4 DEF CommandsInOrder

LEMMA UpdateIsOp ==
  ASSUME NEW s \in Setting, NEW v \in Value PROVE Update(s, v) \in Op
  BY DEF Update, Op

\* The operations a PUT queues name every setting it changes.
ConfigOps(config) ==
  Changed("floppySpeed", config) \o Changed("separation", config)
    \o Changed("network", config)

LEMMA ConfigOpsFacts ==
  ASSUME NEW config \in [Setting -> Value]
  PROVE  /\ ConfigOps(config) \in Seq(Op)
         /\ \A s \in Setting : reported[s] # config[s] =>
              \E i \in 1 .. Len(ConfigOps(config)) :
                ConfigOps(config)[i] = Update(s, config[s])
<1> DEFINE f == Changed("floppySpeed", config)
           a == Changed("separation", config)
           n == Changed("network", config)
           Has(q, s) == \E i \in 1 .. Len(q) : q[i] = Update(s, config[s])
<1>1. ASSUME NEW s \in Setting
      PROVE  /\ Changed(s, config) \in Seq(Op)
             /\ reported[s] # config[s] => Has(Changed(s, config), s)
  <2>1. Update(s, config[s]) \in Op
    BY UpdateIsOp
  <2>2. CASE reported[s] # config[s]
    <3>1. Changed(s, config) = <<Update(s, config[s])>>
      BY <2>2 DEF Changed
    <3>2. Len(<<Update(s, config[s])>>) = 1 /\ <<Update(s, config[s])>>[1] = Update(s, config[s])
      OBVIOUS
    <3>3. 1 \in 1 .. Len(Changed(s, config))
      BY <3>1, <3>2
    <3>4. <<Update(s, config[s])>> \in Seq(Op)
      BY <2>1
    <3> QED BY <3>1, <3>2, <3>3, <3>4
  <2>3. CASE reported[s] = config[s]
    BY <2>3 DEF Changed
  <2> QED BY <2>2, <2>3
<1>2. ASSUME NEW q \in Seq(Op), NEW r \in Seq(Op), NEW s
      PROVE  /\ q \o r \in Seq(Op)
             /\ Has(q, s) => Has(q \o r, s)
             /\ Has(r, s) => Has(q \o r, s)
  <2>1. Len(q) \in Nat /\ Len(r) \in Nat
    OBVIOUS
  <2>2. ASSUME NEW i \in 1 .. Len(r) PROVE Len(q) + i \in 1 .. Len(q \o r)
    BY <2>1, ConcatFacts
  <2>3. ASSUME NEW i \in 1 .. Len(q) PROVE i \in 1 .. Len(q \o r)
    BY <2>1, ConcatFacts
  <2> QED BY <2>2, <2>3, ConcatFacts
<1>3. f \in Seq(Op) /\ a \in Seq(Op) /\ n \in Seq(Op)
  BY <1>1 DEF Setting
<1>4. f \o a \in Seq(Op) /\ (f \o a) \o n \in Seq(Op)
  BY <1>2, <1>3
<1>5. ConfigOps(config) = (f \o a) \o n
  BY DEF ConfigOps
<1> HIDE DEF f, a, n, Has
<1>6. ASSUME NEW s \in Setting, reported[s] # config[s] PROVE Has(ConfigOps(config), s)
  <2>1. CASE s = "floppySpeed"
    BY <1>1, <1>2, <1>3, <1>4, <1>5, <1>6, <2>1 DEF f
  <2>2. CASE s = "separation"
    BY <1>1, <1>2, <1>3, <1>4, <1>5, <1>6, <2>2 DEF a
  <2>3. CASE s = "network"
    BY <1>1, <1>2, <1>3, <1>4, <1>5, <1>6, <2>3 DEF n
  <2> QED BY <2>1, <2>2, <2>3 DEF Setting
<1> QED BY <1>4, <1>5, <1>6 DEF Has
-----------------------------------------------------------------------------
(* Each action preserves the invariant *)

LEMMA InitInv == Init => IInv
<1> SUFFICES ASSUME Init PROVE IInv
  OBVIOUS
<1>1. /\ pending = << >> /\ batch = << >>
      /\ Len(pending) = 0 /\ Len(batch) = 0
      /\ pending \in Seq(Command) /\ batch \in Seq(Command)
  BY DEF Init
<1>2. TypeOK
  BY <1>1 DEF Init, TypeOK, Setting, Policy, Media
<1>3. CommandsInOrder
  BY <1>1 DEF Init, CommandsInOrder
<1>4. ConfigAgreement /\ NetworkViewCurrent /\ CloneCurrent
  BY DEF Init, ConfigAgreement, NetworkViewCurrent, CloneCurrent
<1>5. BatchInCommands /\ PausedStandsStill /\ PathNamesDisk /\ FlushTargetsOwner
  BY DEF Init, BatchInCommands, PausedStandsStill, PathNamesDisk, FlushTargetsOwner
<1> QED BY <1>2, <1>3, <1>4, <1>5 DEF IInv

\* A PUT reports new values, and queues a command for every one it changed.
LEMMA PutConfigInv ==
  ASSUME IInv, NEW config \in [Setting -> Value], NEW disks \in [Drive -> Media],
         NEW policy \in Policy, PutConfig(config, disks, policy)
  PROVE  IInv'
<1>1. /\ ConfigOps(config) \in Seq(Op) /\ Enqueue(ConfigOps(config))
      /\ TypeOK /\ CommandsInOrder
  BY ConfigOpsFacts DEF PutConfig, ConfigOps, IInv
<1>2. /\ UNCHANGED <<phase, batch, clone, launchPolicy, executed, running, status>>
      /\ UNCHANGED <<applied, inDrive, dirty, flushPath, hdfDirty, hdfWritten, flushed, window>>
      /\ reported' = config /\ reportedDisk' = disks /\ reportedPolicy' = policy
      /\ calls' = calls + 1
  BY DEF PutConfig, Call, machine, host
<1>3. /\ pending' \in Seq(Command) /\ accepted' \in Nat
      /\ \A s : Mentions(pending, s) => Mentions(pending', s)
  BY <1>1, EnqueueFacts
<1>4. TypeOK'
  BY <1>1, <1>2, <1>3 DEF TypeOK
<1>5. CommandsInOrder'
  BY <1>1, <1>2, EnqueueInOrder
<1>6. ASSUME NEW s \in Setting, reported[s] # config[s] PROVE Mentions(pending', s)
  <2>1. PICK i \in 1 .. Len(ConfigOps(config)) :
          ConfigOps(config)[i] = Update(s, config[s])
    BY <1>6, ConfigOpsFacts
  <2>2. /\ pending'[Len(pending) + i].op = Update(s, config[s])
        /\ Len(pending') = Len(pending) + Len(ConfigOps(config))
    BY <1>1, <2>1, EnqueueFacts
  <2>3. Len(pending) \in Nat /\ Len(ConfigOps(config)) \in Nat
    BY <1>1 DEF TypeOK
  <2>4. Len(pending) + i \in 1 .. Len(pending')
    BY <2>1, <2>2, <2>3
  <2> QED BY <2>2, <2>4 DEF Mentions, Update
<1>7. ASSUME NEW s \in Setting, ~Mentions(pending', s)
      PROVE  ~Mentions(pending, s) /\ reported'[s] = reported[s]
  BY <1>2, <1>3, <1>6, <1>7
<1>8. ConfigAgreement'
  <2>1. \A s \in Setting : Mentions(batch', s) <=> Mentions(batch, s)
    BY <1>2 DEF Mentions
  <2> QED BY <1>2, <1>7, <2>1 DEF IInv, ConfigAgreement
<1>9. NetworkViewCurrent' /\ CloneCurrent'
  <2>1. Mentions(batch', "network") <=> Mentions(batch, "network")
    BY <1>2 DEF Mentions
  <2> QED BY <1>2, <1>7, <2>1 DEF IInv, NetworkViewCurrent, CloneCurrent, Setting
<1>10. BatchInCommands' /\ PausedStandsStill' /\ PathNamesDisk' /\ FlushTargetsOwner'
  BY <1>2 DEF IInv, BatchInCommands, PausedStandsStill, PathNamesDisk, FlushTargetsOwner
<1> QED BY <1>4, <1>5, <1>8, <1>9, <1>10 DEF IInv

\* A POST only queues.
LEMMA PostInv ==
  ASSUME IInv, NEW op \in PostedOp, Post(op)
  PROVE  IInv'
<1>1. /\ <<op>> \in Seq(Op) /\ Enqueue(<<op>>) /\ TypeOK /\ CommandsInOrder
  BY DEF Post, PostedOp, IInv
<1>2. /\ UNCHANGED <<phase, batch, clone, launchPolicy, executed, running, status>>
      /\ UNCHANGED <<applied, inDrive, dirty, flushPath, hdfDirty, hdfWritten, flushed, window>>
      /\ UNCHANGED <<reported, reportedDisk, reportedPolicy>>
      /\ calls' = calls + 1
  BY DEF Post, Call, machine, host
<1>3. /\ pending' \in Seq(Command) /\ accepted' \in Nat
      /\ \A s : Mentions(pending, s) => Mentions(pending', s)
  BY <1>1, EnqueueFacts
<1>4. TypeOK'
  BY <1>1, <1>2, <1>3 DEF TypeOK
<1>5. CommandsInOrder'
  BY <1>1, <1>2, EnqueueInOrder
<1>6. \A s : Mentions(batch', s) <=> Mentions(batch, s)
  BY <1>2 DEF Mentions
<1>7. ConfigAgreement' /\ NetworkViewCurrent' /\ CloneCurrent'
  BY <1>2, <1>3, <1>6 DEF IInv, ConfigAgreement, NetworkViewCurrent, CloneCurrent
<1>8. BatchInCommands' /\ PausedStandsStill' /\ PathNamesDisk' /\ FlushTargetsOwner'
  BY <1>2 DEF IInv, BatchInCommands, PausedStandsStill, PathNamesDisk, FlushTargetsOwner
<1> QED BY <1>4, <1>5, <1>7, <1>8 DEF IInv

\* Taking the queue moves every outstanding command from pending to the batch.
LEMMA TakeCommandsInv == IInv /\ TakeCommands => IInv'
<1> SUFFICES ASSUME IInv, TakeCommands PROVE IInv'
  OBVIOUS
<1>1. /\ batch' = pending /\ pending' = << >> /\ phase' = "commands" /\ phase = "top"
      /\ UNCHANGED <<running, reported, status, reportedDisk, reportedPolicy, clone,
                     launchPolicy, calls, accepted, executed, applied, inDrive, dirty,
                     flushPath, hdfDirty, hdfWritten, flushed, window>>
  BY DEF TakeCommands, machine, host
<1>2. batch = << >> /\ Len(batch) = 0 /\ Len(pending') = 0
  BY <1>1 DEF IInv, BatchInCommands
<1>3. TypeOK'
  BY <1>1 DEF IInv, TypeOK
<1>4. CommandsInOrder'
  <2>1. Len(pending) \in Nat /\ executed \in Nat
    BY DEF IInv, TypeOK
  <2>2. /\ accepted = executed + 0 + Len(pending)
        /\ \A i \in 1 .. Len(pending) : pending[i].id = executed + 0 + i
    BY <1>2 DEF IInv, CommandsInOrder
  <2> QED BY <1>1, <1>2, <2>1, <2>2 DEF CommandsInOrder
<1>5. /\ \A s : ~Mentions(batch, s)
      /\ \A s : Mentions(batch', s) <=> Mentions(pending, s)
  BY <1>1, <1>2 DEF Mentions
<1>6. ConfigAgreement' /\ NetworkViewCurrent'
  BY <1>1, <1>5 DEF IInv, ConfigAgreement, NetworkViewCurrent
<1>7. CloneCurrent' /\ BatchInCommands' /\ PausedStandsStill' /\ PathNamesDisk'
      /\ FlushTargetsOwner'
  BY <1>1 DEF IInv, CloneCurrent, BatchInCommands, PausedStandsStill, PathNamesDisk,
              FlushTargetsOwner
<1> QED BY <1>3, <1>4, <1>6, <1>7 DEF IInv

\* What executing a command of any kind does to the outstanding commands.
LEMMA ExecuteFacts ==
  ASSUME IInv, NEW kind, Execute(kind)
  PROVE  /\ Head(batch) \in Command /\ Head(batch).op.kind = kind
         /\ phase = "commands" /\ phase' = phase
         /\ batch' \in Seq(Command) /\ executed' \in Nat
         /\ CommandsInOrder' /\ BatchInCommands' /\ PausedStandsStill'
         /\ CloneCurrent' /\ FlushTargetsOwner'
         /\ \A s : Mentions(pending', s) <=> Mentions(pending, s)
         /\ \A s : Mentions(batch, s) /\ ~Mentions(batch', s) =>
                   Head(batch).op.kind = "Update" /\ Head(batch).op.setting = s
<1>1. /\ batch \in Seq(Command) /\ batch # << >> /\ batch' = Tail(batch)
      /\ executed' = executed + 1 /\ phase = "commands"
      /\ Head(batch).op.kind = kind
      /\ UNCHANGED <<pending, phase, accepted, clone, flushed, hdfWritten>>
  BY DEF IInv, TypeOK, Execute, host
<1>2. /\ Tail(batch) \in Seq(Command) /\ Len(Tail(batch)) = Len(batch) - 1
      /\ Len(batch) >= 1 /\ Head(batch) = batch[1] /\ Head(batch) \in Command
      /\ \A i \in 1 .. Len(batch) - 1 : Tail(batch)[i] = batch[i + 1]
  BY <1>1, TailFacts
<1>3. CommandsInOrder'
  <2> DEFINE t == Tail(batch)
             n == Len(batch)
             k == Len(pending)
  <2>1. /\ n \in Nat /\ k \in Nat /\ executed \in Nat /\ accepted = executed + n + k
        /\ \A i \in 1 .. n : batch[i].id = executed + i
        /\ \A i \in 1 .. k : pending[i].id = executed + n + i
    BY <1>1 DEF IInv, TypeOK, CommandsInOrder
  <2>2. Len(t) = n - 1 /\ \A i \in 1 .. n - 1 : t[i] = batch[i + 1]
    BY <1>2
  <2>3. ASSUME NEW i \in 1 .. n - 1 PROVE t[i].id = (executed + 1) + i
    <3>1. i + 1 \in 1 .. n /\ executed + (i + 1) = (executed + 1) + i
      BY <2>1
    <3> QED BY <2>1, <2>2, <3>1
  <2>4. ASSUME NEW i \in 1 .. k PROVE pending[i].id = (executed + 1) + (n - 1) + i
    <3>1. (executed + 1) + (n - 1) + i = executed + n + i
      BY <2>1
    <3> QED BY <2>1, <3>1
  <2>5. accepted = (executed + 1) + (n - 1) + k
    BY <2>1
  <2>6. batch' = t /\ Len(batch') = n - 1
    BY <1>1, <2>2
  <2> HIDE DEF t, n
  <2>7. UNCHANGED <<pending, accepted>> /\ executed' = executed + 1
    BY <1>1
  <2> QED BY <2>3, <2>4, <2>5, <2>6, <2>7 DEF CommandsInOrder
<1>4. executed' \in Nat
  BY <1>1 DEF IInv, TypeOK
<1>5. BatchInCommands' /\ PausedStandsStill' /\ CloneCurrent' /\ FlushTargetsOwner'
  BY <1>1 DEF IInv, BatchInCommands, PausedStandsStill, CloneCurrent, FlushTargetsOwner
<1>6. \A s : Mentions(pending', s) <=> Mentions(pending, s)
  BY <1>1 DEF Mentions
<1>7. ASSUME NEW s, Mentions(batch, s), ~Mentions(batch', s)
      PROVE  Head(batch).op.kind = "Update" /\ Head(batch).op.setting = s
  BY <1>1, <1>7, MentionsTail
<1> QED BY <1>1, <1>2, <1>3, <1>4, <1>5, <1>6, <1>7

\* A command that is not an update leaves the settings and their views alone.
LEMMA NotUpdateInv ==
  ASSUME IInv, NEW kind, kind # "Update", Execute(kind),
         UNCHANGED <<reported, applied, status>>
  PROVE  ConfigAgreement' /\ NetworkViewCurrent'
<1>1. /\ \A s : Mentions(pending', s) <=> Mentions(pending, s)
      /\ \A s : Mentions(batch, s) => Mentions(batch', s)
  BY ExecuteFacts
<1> QED BY <1>1 DEF IInv, ConfigAgreement, NetworkViewCurrent

LEMMA ExecuteResetInv == IInv /\ ExecuteReset => IInv'
<1> SUFFICES ASSUME IInv, ExecuteReset PROVE IInv'
  OBVIOUS
<1>1. /\ Execute("Reset") /\ TypeOK
      /\ UNCHANGED <<running, reported, status, reportedDisk, applied, inDrive, flushPath>>
  BY DEF ExecuteReset, IInv
<1>2. ConfigAgreement' /\ NetworkViewCurrent'
  BY <1>1, NotUpdateInv
<1>3. TypeOK'
  BY <1>1, ExecuteFacts DEF TypeOK, Execute, host
<1>4. PathNamesDisk'
  BY <1>1 DEF IInv, PathNamesDisk
<1> QED BY <1>1, <1>2, <1>3, <1>4, ExecuteFacts DEF IInv

LEMMA ExecutePauseResumeInv == IInv /\ ExecutePauseResume => IInv'
<1> SUFFICES ASSUME IInv, ExecutePauseResume PROVE IInv'
  OBVIOUS
<1>1. PICK kind \in {"Pause", "Resume"} : Execute(kind) /\ running' \in BOOLEAN
  BY DEF ExecutePauseResume
<1>2. TypeOK /\ UNCHANGED <<reported, status, reportedDisk, applied, inDrive, flushPath>>
  BY DEF ExecutePauseResume, IInv
<1>3. ConfigAgreement' /\ NetworkViewCurrent'
  BY <1>1, <1>2, NotUpdateInv
<1>4. TypeOK'
  BY <1>1, <1>2, ExecuteFacts DEF TypeOK, Execute, host
<1>5. PathNamesDisk'
  BY <1>2 DEF IInv, PathNamesDisk
<1> QED BY <1>1, <1>3, <1>4, <1>5, ExecuteFacts DEF IInv

\* Insert updates the drive and its flush path together.
LEMMA ExecuteInsertInv == IInv /\ ExecuteInsert => IInv'
<1> SUFFICES ASSUME IInv, ExecuteInsert PROVE IInv'
  OBVIOUS
<1> DEFINE d == Head(batch).op.drive
           p == Head(batch).op.path
<1>1. /\ Execute("InsertFloppy") /\ TypeOK
      /\ inDrive'      = [inDrive EXCEPT ![d] = p]
      /\ reportedDisk' = [reportedDisk EXCEPT ![d] = p]
      /\ flushPath'    = [flushPath EXCEPT ![d] = p]
      /\ UNCHANGED <<running, reported, status, applied>>
  BY DEF ExecuteInsert, IInv
<1>2. d \in Drive /\ p \in Path
  <2>1. Head(batch).op \in Op /\ Head(batch).op.kind = "InsertFloppy"
    BY <1>1, ExecuteFacts DEF Command
  <2> QED BY <2>1 DEF Op
<1> HIDE DEF d, p
<1>3. ConfigAgreement' /\ NetworkViewCurrent'
  BY <1>1, NotUpdateInv
<1>4. TypeOK'
  BY <1>1, <1>2, ExecuteFacts DEF TypeOK, Execute, host, Media
<1>5. PathNamesDisk'
  BY <1>1, <1>2 DEF IInv, PathNamesDisk, TypeOK
<1> QED BY <1>1, <1>3, <1>4, <1>5, ExecuteFacts DEF IInv

\* Eject forgets the flush path, so the disk left in the drive has none.
LEMMA ExecuteEjectInv == IInv /\ ExecuteEject => IInv'
<1> SUFFICES ASSUME IInv, ExecuteEject PROVE IInv'
  OBVIOUS
<1> DEFINE d == Head(batch).op.drive
<1>1. /\ Execute("EjectFloppy") /\ TypeOK
      /\ reportedDisk' = [reportedDisk EXCEPT ![d] = NoDisk]
      /\ flushPath'    = [flushPath EXCEPT ![d] = NoDisk]
      /\ UNCHANGED <<running, reported, status, applied, inDrive>>
  BY DEF ExecuteEject, IInv
<1>2. d \in Drive
  <2>1. Head(batch).op \in Op /\ Head(batch).op.kind = "EjectFloppy"
    BY <1>1, ExecuteFacts DEF Command
  <2> QED BY <2>1 DEF Op
<1> HIDE DEF d
<1>3. ConfigAgreement' /\ NetworkViewCurrent'
  BY <1>1, NotUpdateInv
<1>4. TypeOK'
  BY <1>1, <1>2, ExecuteFacts DEF TypeOK, Execute, host, Media
<1>5. PathNamesDisk'
  BY <1>1, <1>2 DEF IInv, PathNamesDisk, TypeOK
<1> QED BY <1>1, <1>3, <1>4, <1>5, ExecuteFacts DEF IInv

\* An update leaves machine and report equal in its own setting.
LEMMA ExecuteUpdateInv == IInv /\ ExecuteUpdate => IInv'
<1> SUFFICES ASSUME IInv, ExecuteUpdate PROVE IInv'
  OBVIOUS
<1> DEFINE s == Head(batch).op.setting
           v == Head(batch).op.value
<1>1. /\ Execute("Update") /\ TypeOK
      /\ applied'  = [applied EXCEPT ![s] = v]
      /\ reported' = [reported EXCEPT ![s] = v]
      /\ status' = IF s = "network" THEN v ELSE status
      /\ UNCHANGED <<running, reportedDisk, inDrive, flushPath>>
  BY DEF ExecuteUpdate, IInv
<1>2. s \in Setting /\ v \in Value
  <2>1. Head(batch).op \in Op /\ Head(batch).op.kind = "Update"
    BY <1>1, ExecuteFacts DEF Command
  <2> QED BY <2>1 DEF Op
<1>3. /\ \A z : Mentions(pending', z) <=> Mentions(pending, z)
      /\ \A z : Mentions(batch, z) /\ ~Mentions(batch', z) => z = s
  BY <1>1, ExecuteFacts
<1> HIDE DEF s, v
<1>4. ConfigAgreement'
  BY <1>1, <1>2, <1>3 DEF IInv, ConfigAgreement, TypeOK
<1>5. NetworkViewCurrent'
  BY <1>1, <1>2, <1>3 DEF IInv, NetworkViewCurrent, TypeOK
<1>6. TypeOK'
  BY <1>1, <1>2, ExecuteFacts DEF TypeOK, Execute, host
<1>7. PathNamesDisk'
  BY <1>1 DEF IInv, PathNamesDisk
<1> QED BY <1>1, <1>4, <1>5, <1>6, <1>7, ExecuteFacts DEF IInv

LEMMA ReadRunningInv == IInv /\ ReadRunning => IInv'
<1> SUFFICES ASSUME IInv, ReadRunning PROVE IInv'
  OBVIOUS
<1>1. /\ phase' = IF running THEN "frame" ELSE "top"
      /\ batch = << >> /\ batch' = batch
      /\ UNCHANGED <<clone, launchPolicy, calls, accepted, executed>>
      /\ UNCHANGED shared /\ UNCHANGED machine /\ UNCHANGED host
  BY DEF ReadRunning
<1>2. TypeOK'
  BY <1>1 DEF IInv, TypeOK, shared, machine, host
<1>3. BatchInCommands' /\ PausedStandsStill' /\ CloneCurrent'
  BY <1>1 DEF BatchInCommands, PausedStandsStill, CloneCurrent, shared
<1>4. ConfigAgreement' /\ CommandsInOrder' /\ NetworkViewCurrent'
  BY <1>1 DEF IInv, ConfigAgreement, CommandsInOrder, NetworkViewCurrent,
              Mentions, shared, machine
<1>5. PathNamesDisk' /\ FlushTargetsOwner'
  BY <1>1 DEF IInv, PathNamesDisk, FlushTargetsOwner, machine, host
<1> QED BY <1>2, <1>3, <1>4, <1>5 DEF IInv

\* The clone is taken here, so it is current here.
LEMMA RunFrameInv == IInv /\ RunFrame => IInv'
<1> SUFFICES ASSUME IInv, RunFrame PROVE IInv'
  OBVIOUS
<1>1. /\ phase = "frame" /\ phase' = "publish"
      /\ dirty' \in [Drive -> BOOLEAN]
      /\ hdfDirty' \in BOOLEAN
      /\ clone' = reported["network"]
      /\ UNCHANGED <<batch, launchPolicy, applied, inDrive, flushPath, calls,
                     accepted, executed>>
      /\ UNCHANGED shared /\ UNCHANGED host
  BY DEF RunFrame, IInv, TypeOK
<1>2. TypeOK'
  <2>1. clone' \in Value
    BY <1>1 DEF IInv, TypeOK, Setting
  <2> QED BY <1>1, <2>1 DEF IInv, TypeOK, shared, host
<1>3. BatchInCommands' /\ PausedStandsStill' /\ CloneCurrent'
  BY <1>1 DEF IInv, BatchInCommands, PausedStandsStill, CloneCurrent, shared
<1>4. ConfigAgreement' /\ CommandsInOrder' /\ NetworkViewCurrent'
  BY <1>1 DEF IInv, ConfigAgreement, CommandsInOrder, NetworkViewCurrent,
              Mentions, shared
<1>5. PathNamesDisk' /\ FlushTargetsOwner'
  BY <1>1 DEF IInv, PathNamesDisk, FlushTargetsOwner, host
<1> QED BY <1>2, <1>3, <1>4, <1>5 DEF IInv

\* A stale clone can be published only while its PUT's command is queued.
LEMMA PublishFrameInv == IInv /\ PublishFrame => IInv'
<1> SUFFICES ASSUME IInv, PublishFrame PROVE IInv'
  OBVIOUS
<1>1. /\ phase = "publish" /\ phase' = "top" /\ status' = clone
      /\ UNCHANGED <<pending, running, reported, reportedDisk, reportedPolicy,
                     batch, clone, launchPolicy, calls, accepted, executed,
                     hdfWritten, flushed>>
      /\ UNCHANGED machine /\ window' \in {window, "seen"}
  BY DEF PublishFrame
<1>2. TypeOK'
  BY <1>1 DEF IInv, TypeOK, machine
<1>3. BatchInCommands' /\ PausedStandsStill' /\ CloneCurrent'
  BY <1>1 DEF IInv, BatchInCommands, PausedStandsStill, CloneCurrent
<1>4. ConfigAgreement' /\ CommandsInOrder'
  BY <1>1 DEF IInv, ConfigAgreement, CommandsInOrder, Mentions, machine
<1>5. NetworkViewCurrent'
  BY <1>1 DEF IInv, CloneCurrent, NetworkViewCurrent, Mentions
<1>6. PathNamesDisk' /\ FlushTargetsOwner'
  BY <1>1 DEF IInv, PathNamesDisk, FlushTargetsOwner, machine
<1> QED BY <1>2, <1>3, <1>4, <1>5, <1>6 DEF IInv

\* The steps that end the loop, or only note that the window is to close.
LEMMA LeaveInv ==
  IInv /\ (Quit \/ PresentFails \/ AbandonExit \/ CloseWindow) => IInv'
<1> SUFFICES ASSUME IInv, Quit \/ PresentFails \/ AbandonExit \/ CloseWindow
             PROVE  IInv'
  OBVIOUS
<1>1. /\ \/ phase' \in {"exit", "done"} /\ phase \in {"top", "publish", "exit"}
         \/ phase' = phase
      /\ window' \in {window, "closing"}
      /\ UNCHANGED <<batch, clone, launchPolicy, calls, accepted, executed,
                     hdfWritten, flushed>>
      /\ UNCHANGED shared /\ UNCHANGED machine
  BY DEF Quit, PresentFails, AbandonExit, CloseWindow, host
<1>2. TypeOK'
  BY <1>1 DEF IInv, TypeOK, shared, machine
<1>3. BatchInCommands' /\ PausedStandsStill' /\ CloneCurrent'
  BY <1>1 DEF IInv, BatchInCommands, PausedStandsStill, CloneCurrent, Mentions, shared
<1>4. ConfigAgreement' /\ CommandsInOrder' /\ NetworkViewCurrent'
  BY <1>1 DEF IInv, ConfigAgreement, CommandsInOrder, NetworkViewCurrent,
              Mentions, shared, machine
<1>5. PathNamesDisk' /\ FlushTargetsOwner'
  BY <1>1 DEF IInv, PathNamesDisk, FlushTargetsOwner, machine
<1> QED BY <1>2, <1>3, <1>4, <1>5 DEF IInv

\* Every write of the exit goes to the path of a drive, and so to its disk.
LEMMA FlushDirtyMediaInv == IInv /\ FlushDirtyMedia => IInv'
<1> SUFFICES ASSUME IInv, FlushDirtyMedia PROVE IInv'
  OBVIOUS
<1>1. /\ phase = "exit" /\ phase' = "done"
      /\ UNCHANGED <<batch, clone, launchPolicy, applied, inDrive, flushPath,
                     window, calls, accepted, executed>>
      /\ UNCHANGED shared
  BY DEF FlushDirtyMedia
<1>2. PICK done \in SUBSET {d \in Drive : flushPath[d] # NoDisk} :
        /\ flushed' = flushed \cup {<<flushPath[d], inDrive[d]>> : d \in done}
        /\ dirty' = [d \in Drive |-> dirty[d] /\ d \notin done]
  BY DEF FlushDirtyMedia
<1>3. hdfWritten' \in BOOLEAN /\ hdfDirty' \in BOOLEAN
  BY DEF FlushDirtyMedia
<1>4. \A d \in done : flushPath[d] \in Path /\ flushPath[d] = inDrive[d]
  BY DEF IInv, TypeOK, PathNamesDisk, Media
<1>5. \A w \in flushed' : w \in Path \X Path /\ w[1] = w[2]
  <2>1. SUFFICES ASSUME NEW d \in done
                 PROVE  LET w == <<flushPath[d], inDrive[d]>>
                        IN  w \in Path \X Path /\ w[1] = w[2]
    BY <1>2 DEF IInv, TypeOK, FlushTargetsOwner
  <2> QED BY <1>4
<1>6. TypeOK'
  <2>1. dirty' \in [Drive -> BOOLEAN]
    BY <1>2 DEF IInv, TypeOK
  <2> QED BY <1>1, <1>3, <1>5, <2>1 DEF IInv, TypeOK, shared
<1>7. BatchInCommands' /\ PausedStandsStill' /\ CloneCurrent'
  BY <1>1 DEF IInv, BatchInCommands, PausedStandsStill, CloneCurrent
<1>8. ConfigAgreement' /\ CommandsInOrder' /\ NetworkViewCurrent'
  BY <1>1 DEF IInv, ConfigAgreement, CommandsInOrder, NetworkViewCurrent,
              Mentions, shared
<1>9. PathNamesDisk' /\ FlushTargetsOwner'
  BY <1>1, <1>5 DEF IInv, PathNamesDisk, FlushTargetsOwner
<1> QED BY <1>6, <1>7, <1>8, <1>9 DEF IInv

LEMMA StutterInv == IInv /\ UNCHANGED vars => IInv'
<1> SUFFICES ASSUME IInv, UNCHANGED vars PROVE IInv'
  OBVIOUS
<1>1. TypeOK' /\ BatchInCommands' /\ PausedStandsStill' /\ CloneCurrent'
  BY DEF IInv, TypeOK, BatchInCommands, PausedStandsStill, CloneCurrent, Mentions, vars
<1>2. ConfigAgreement' /\ CommandsInOrder' /\ NetworkViewCurrent'
  BY DEF IInv, ConfigAgreement, CommandsInOrder, NetworkViewCurrent, Mentions, vars
<1>3. PathNamesDisk' /\ FlushTargetsOwner'
  BY DEF IInv, PathNamesDisk, FlushTargetsOwner, vars
<1> QED BY <1>1, <1>2, <1>3 DEF IInv

\* Every step of a handler or of the main loop preserves IInv.
LEMMA IInvInductive == IInv /\ [Next]_vars => IInv'
<1> SUFFICES ASSUME IInv, [Next]_vars PROVE IInv'
  OBVIOUS
<1>1. CASE Handler
  BY <1>1, PutConfigInv, PostInv DEF Handler
<1>2. CASE MainLoop
  BY <1>2, TakeCommandsInv, ExecuteResetInv, ExecutePauseResumeInv,
     ExecuteInsertInv, ExecuteEjectInv, ExecuteUpdateInv, ReadRunningInv,
     RunFrameInv, PublishFrameInv, LeaveInv, FlushDirtyMediaInv DEF MainLoop
<1>3. CASE PresentFails \/ CloseWindow
  BY <1>3, LeaveInv
<1>4. CASE UNCHANGED vars
  BY <1>4, StutterInv
<1> QED BY <1>1, <1>2, <1>3, <1>4 DEF Next
-----------------------------------------------------------------------------

\* The variables keep their types.
THEOREM TypeCorrect == Spec => []TypeOK
<1>1. IInv => TypeOK
  BY DEF IInv
<1> QED BY <1>1, InitInv, IInvInductive, PTL DEF Spec

\* get_config reports what the machine runs with, unless a command for that
\* setting is on its way.
THEOREM ReportMatchesMachine == Spec => []ConfigAgreement
<1>1. IInv => ConfigAgreement
  BY DEF IInv
<1> QED BY <1>1, InitInv, IInvInductive, PTL DEF Spec

\* The loop executes exactly the commands the handlers accepted, in order.
THEOREM CommandsExecutedOnceInOrder == Spec => []CommandsInOrder
<1>1. IInv => CommandsInOrder
  BY DEF IInv
<1> QED BY <1>1, InitInv, IInvInductive, PTL DEF Spec

\* A status computed from a stale clone never outlives the network command
\* that made it stale.
THEOREM NetworkStatusCurrent == Spec => []NetworkViewCurrent
<1>1. IInv => NetworkViewCurrent
  BY DEF IInv
<1> QED BY <1>1, InitInv, IInvInductive, PTL DEF Spec

\* No frame is run while `running` reads false.
THEOREM PauseHolds == Spec => []PausedStandsStill
<1>1. IInv => PausedStandsStill
  BY DEF IInv
<1> QED BY <1>1, InitInv, IInvInductive, PTL DEF Spec

\* The exit writes every floppy image to the file it was read from.
THEOREM NoForeignFlush == Spec => []FlushTargetsOwner
<1>1. IInv => FlushTargetsOwner
  BY DEF IInv
<1> QED BY <1>1, InitInv, IInvInductive, PTL DEF Spec
=============================================================================
