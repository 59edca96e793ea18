---------------------------- MODULE DesktopShell ----------------------------
(***************************************************************************)
(* desktop/src/main.rs: the REST handlers of the HTTP thread and the        *)
(* emulator loop of the main thread, which share one Mutex<SharedState>.    *)
(*                                                                         *)
(* Each handler holds the mutex once, so it is one action.  The main loop   *)
(* takes it many times per iteration - to take the queued commands, to      *)
(* publish the effect of each, to read `running`, to clone the network      *)
(* configuration, to publish the frame - and handlers run in between, so    *)
(* each of those is an action of its own.  What a command does to the       *)
(* machine itself is invisible to handlers and belongs to the same action   *)
(* as the publication that follows it.                                      *)
(*                                                                         *)
(* Payloads that put_config or a handler rejects change nothing and are     *)
(* left out: Value and Path hold valid payloads.                            *)
(***************************************************************************)
EXTENDS Naturals, Sequences
LOCAL INSTANCE TLC

CONSTANTS
  Drive,        \* floppy drives (DF0 .. DF3)
  Path,         \* ADF files of the media store
  NoDisk,       \* None
  Value,        \* values of a machine setting
  MaxCalls      \* bound on the API calls of one behaviour

ASSUME ShellAssumption == NoDisk \notin Path /\ MaxCalls \in Nat

\* The settings a PUT /api/machine/config applies to a running machine.
Setting == {"floppySpeed", "separation", "network"}
Policy  == {"ReadOnly", "Writeback"}
Media   == Path \cup {NoDisk}

\* ApiCommand, numbered in the order the handlers accepted them.
Op == [kind : {"Reset", "Pause", "Resume"}]
        \cup [kind : {"InsertFloppy"}, drive : Drive, path : Path]
        \cup [kind : {"EjectFloppy"}, drive : Drive]
        \cup [kind : {"Update"}, setting : Setting, value : Value]
Command == [id : Nat, op : Op]

VARIABLES
  \* SharedState, under the mutex
  pending,      \* pending_commands
  running,
  reported,     \* floppy_speed_percent, stereo_separation, network
  status,       \* the network configuration network_status was computed from
  reportedDisk, \* floppy
  reportedPolicy, \* hdf_write_policy
  \* the main thread
  phase,        \* where its loop is
  batch,        \* commands taken and not yet executed
  clone,        \* the network configuration cloned for the frame's status
  applied,      \* settings in force in the emulator and the network backend
  inDrive,      \* disk in each drive, named by the file it was read from
  dirty,        \* Drive::dirty
  flushPath,    \* floppy_paths: where a dirty disk is written on exit
  launchPolicy, \* launch_args.hdf_write_policy
  hdfDirty,
  \* the host: its files and the window
  hdfWritten,   \* the HDF source file was overwritten
  flushed,      \* <<file, disk>>: the image of disk was written to file
  window,       \* "open", "closing" (Escape or the close button), or "seen" to be
  \* history
  calls, accepted, executed

shared  == <<pending, running, reported, status, reportedDisk, reportedPolicy>>
machine == <<applied, inDrive, dirty, flushPath, hdfDirty>>
host    == <<hdfWritten, flushed, window>>
vars == <<pending, running, reported, status, reportedDisk, reportedPolicy,
          phase, batch, clone, applied, inDrive, dirty, flushPath, launchPolicy,
          hdfDirty, hdfWritten, flushed, window, calls, accepted, executed>>

Init ==
  /\ pending = << >> /\ batch = << >> /\ phase = "top" /\ running = TRUE
  /\ applied \in [Setting -> Value] /\ reported = applied
  /\ status = applied["network"] /\ clone = status
  /\ inDrive \in [Drive -> Media] /\ reportedDisk = inDrive /\ flushPath = inDrive
  /\ dirty = [d \in Drive |-> FALSE]
  /\ launchPolicy \in Policy /\ reportedPolicy = launchPolicy
  /\ hdfDirty = FALSE /\ hdfWritten = FALSE /\ flushed = {} /\ window = "open"
  /\ calls = 0 /\ accepted = 0 /\ executed = 0
-----------------------------------------------------------------------------
(* The HTTP thread *)

\* pending_commands.push, once per operation.
Enqueue(ops) ==
  /\ pending' = pending \o [i \in 1 .. Len(ops) |->
                             [id |-> accepted + i, op |-> ops[i]]]
  /\ accepted' = accepted + Len(ops)

\* A request is served for as long as the process lives.
Call ==
  /\ calls < MaxCalls /\ calls' = calls + 1
  /\ phase # "done"
  /\ UNCHANGED <<phase, batch, clone, launchPolicy, executed>>
  /\ UNCHANGED machine /\ UNCHANGED host

Update(s, v) == [kind |-> "Update", setting |-> s, value |-> v]

\* put_config: queue a command for each setting that differs from the reported
\* one, in this order, then overwrite everything reported.
Changed(s, config) ==
  IF reported[s] # config[s] THEN <<Update(s, config[s])>> ELSE << >>

PutConfig(config, disks, policy) ==
  /\ Call
  /\ Enqueue(Changed("floppySpeed", config) \o Changed("separation", config)
               \o Changed("network", config))
  /\ reported' = config /\ reportedDisk' = disks /\ reportedPolicy' = policy
  /\ UNCHANGED <<running, status>>

\* post_reset, post_pause and post_resume (start and stop are aliases),
\* post_floppy_insert and post_floppy_eject, and post_audio_separation only
\* queue: what is reported changes when the command is executed.
Post(op) ==
  /\ Call
  /\ Enqueue(<<op>>)
  /\ UNCHANGED <<running, reported, status, reportedDisk, reportedPolicy>>

PostedOp == { op \in Op : op.kind = "Update" => op.setting = "separation" }

Handler ==
  \/ \E config \in [Setting -> Value], disks \in [Drive -> Media], policy \in Policy :
       PutConfig(config, disks, policy)
  \/ \E op \in PostedOp : Post(op)
-----------------------------------------------------------------------------
(* The main thread *)

WrongTakeCopies ==
  /\ phase = "top" /\ window # "seen"
  /\ batch' = pending /\ phase' = "commands"
  /\ UNCHANGED shared /\ UNCHANGED machine /\ UNCHANGED host
  /\ UNCHANGED <<clone, launchPolicy, calls, accepted, executed>>

\* std::mem::take of the queue at the top of an iteration, once is_open and
\* is_key_down have not ended the loop.
TakeCommands ==
  /\ phase = "top" /\ window # "seen"
  /\ batch' = pending /\ pending' = << >> /\ phase' = "commands"
  /\ UNCHANGED <<running, reported, status, reportedDisk, reportedPolicy, clone,
                 launchPolicy, calls, accepted, executed>>
  /\ UNCHANGED machine /\ UNCHANGED host

\* One arm of the match, after which the command leaves the batch.
Execute(kind) ==
  /\ phase = "commands" /\ batch # << >> /\ Head(batch).op.kind = kind
  /\ batch' = Tail(batch) /\ executed' = executed + 1
  /\ UNCHANGED <<pending, phase, clone, launchPolicy, reportedPolicy, hdfDirty,
                 dirty, calls, accepted>>
  /\ UNCHANGED host

\* Reset restarts the CPU and nothing else of what is modelled here.
ExecuteReset ==
  /\ Execute("Reset")
  /\ UNCHANGED <<running, reported, status, reportedDisk, applied, inDrive, flushPath>>

ExecutePauseResume ==
  /\ \/ Execute("Pause")  /\ running' = FALSE
     \/ Execute("Resume") /\ running' = TRUE
  /\ UNCHANGED <<reported, status, reportedDisk, applied, inDrive, flushPath>>

WrongInsertKeepsPath ==
  LET op == Head(batch).op IN
  /\ Execute("InsertFloppy")
  /\ inDrive'      = [inDrive EXCEPT ![op.drive] = op.path]
  /\ reportedDisk' = [reportedDisk EXCEPT ![op.drive] = op.path]
  /\ flushPath'    = [flushPath EXCEPT ![op.drive] = IF @ = NoDisk THEN op.path ELSE @]
  /\ UNCHANGED <<running, reported, status, applied>>

\* insert_disk replaces the image and leaves Drive::dirty as it was.
ExecuteInsert ==
  LET op == Head(batch).op IN
  /\ Execute("InsertFloppy")
  /\ inDrive'      = [inDrive EXCEPT ![op.drive] = op.path]
  /\ reportedDisk' = [reportedDisk EXCEPT ![op.drive] = op.path]
  /\ flushPath'    = [flushPath EXCEPT ![op.drive] = op.path]
  /\ UNCHANGED <<running, reported, status, applied>>

\* extract_floppy copies the image out; the disk stays in the drive.
ExecuteEject ==
  LET op == Head(batch).op IN
  /\ Execute("EjectFloppy")
  /\ reportedDisk' = [reportedDisk EXCEPT ![op.drive] = NoDisk]
  /\ flushPath'    = [flushPath EXCEPT ![op.drive] = NoDisk]
  /\ UNCHANGED <<running, reported, status, applied, inDrive>>

WrongUpdateUnreported ==
  LET op == Head(batch).op IN
  /\ Execute("Update")
  /\ applied'  = [applied EXCEPT ![op.setting] = op.value]
  /\ status' = IF op.setting = "network" THEN op.value ELSE status
  /\ UNCHANGED <<running, reported, reportedDisk, inDrive, flushPath>>

WrongUpdateKeepsStatus ==
  LET op == Head(batch).op IN
  /\ Execute("Update")
  /\ applied'  = [applied EXCEPT ![op.setting] = op.value]
  /\ reported' = [reported EXCEPT ![op.setting] = op.value]
  /\ UNCHANGED <<running, status, reportedDisk, inDrive, flushPath>>

\* Apply to the machine, then report the value of the command; the network
\* command also recomputes network_status.
ExecuteUpdate ==
  LET op == Head(batch).op IN
  /\ Execute("Update")
  /\ applied'  = [applied EXCEPT ![op.setting] = op.value]
  /\ reported' = [reported EXCEPT ![op.setting] = op.value]
  /\ status' = IF op.setting = "network" THEN op.value ELSE status
  /\ UNCHANGED <<running, reportedDisk, inDrive, flushPath>>

\* With the batch done, `running` decides whether this iteration has a frame.
ReadRunning ==
  /\ phase = "commands" /\ batch = << >>
  /\ phase' = IF running THEN "frame" ELSE "top"
  /\ UNCHANGED <<batch, clone, launchPolicy, calls, accepted, executed>>
  /\ UNCHANGED shared /\ UNCHANGED machine /\ UNCHANGED host

\* run_frame, in which the guest may write to any disk present and to the HDF,
\* then the network configuration is cloned under the mutex.
RunFrame ==
  /\ phase = "frame" /\ phase' = "publish"
  /\ \E written \in SUBSET {d \in Drive : inDrive[d] # NoDisk} :
       dirty' = [d \in Drive |-> dirty[d] \/ d \in written]
  /\ hdfDirty' \in {hdfDirty, TRUE}
  /\ clone' = reported["network"]
  /\ UNCHANGED <<batch, launchPolicy, applied, inDrive, flushPath, calls, accepted,
                 executed>>
  /\ UNCHANGED shared /\ UNCHANGED host

\* present_frame, in which minifb handles the events of the window, and then the
\* screenshot and the network status computed from the clone.
PublishFrame ==
  /\ phase = "publish" /\ phase' = "top"
  /\ status' = clone
  /\ window' = IF window = "closing" THEN "seen" ELSE window
  /\ UNCHANGED <<pending, running, reported, reportedDisk, reportedPolicy, batch,
                 clone, launchPolicy, calls, accepted, executed, hdfWritten, flushed>>
  /\ UNCHANGED machine

\* A frame that cannot be prepared or presented ends the loop.
PresentFails ==
  /\ phase = "publish" /\ phase' = "exit"
  /\ UNCHANGED <<batch, clone, launchPolicy, calls, accepted, executed>>
  /\ UNCHANGED shared /\ UNCHANGED machine /\ UNCHANGED host

\* The user closes the window or presses Escape; the program sees it when the
\* window's events are handled.
CloseWindow ==
  /\ window = "open" /\ phase # "done" /\ window' = "closing"
  /\ UNCHANGED <<phase, batch, clone, launchPolicy, calls, accepted, executed,
                 hdfWritten, flushed>>
  /\ UNCHANGED shared /\ UNCHANGED machine

\* The loop ends at its top.
Quit ==
  /\ phase = "top" /\ window = "seen" /\ phase' = "exit"
  /\ UNCHANGED <<batch, clone, launchPolicy, calls, accepted, executed>>
  /\ UNCHANGED shared /\ UNCHANGED machine /\ UNCHANGED host

\* flush_dirty_media: the HDF under the policy of the command line, then every
\* dirty floppy whose file is known; a write that fails leaves its disk dirty.
FlushDirtyMedia ==
  /\ phase = "exit" /\ phase' = "done"
  /\ \E failed \in SUBSET Drive, hdfFails \in BOOLEAN :
       LET wanted == {d \in Drive : flushPath[d] # NoDisk /\ dirty[d]
                                      /\ inDrive[d] # NoDisk}
           done   == wanted \ failed
       IN  /\ flushed' = flushed \cup {<<flushPath[d], inDrive[d]>> : d \in done}
           /\ dirty' = [d \in Drive |-> dirty[d] /\ d \notin done]
           /\ hdfWritten' = (hdfDirty /\ launchPolicy = "Writeback" /\ ~hdfFails)
           /\ hdfDirty' = (hdfDirty /\ launchPolicy = "Writeback" /\ hdfFails)
  /\ UNCHANGED <<batch, clone, launchPolicy, applied, inDrive, flushPath, window,
                 calls, accepted, executed>>
  /\ UNCHANGED shared

\* write_hdf_snapshot_if_requested fails: the process exits with the dirty media
\* unwritten.
AbandonExit ==
  /\ phase = "exit" /\ phase' = "done"
  /\ UNCHANGED <<batch, clone, launchPolicy, calls, accepted, executed>>
  /\ UNCHANGED shared /\ UNCHANGED machine /\ UNCHANGED host

MainLoop ==
  \/ TakeCommands \/ ExecuteReset \/ ExecutePauseResume \/ ExecuteInsert
  \/ ExecuteEject \/ ExecuteUpdate \/ ReadRunning \/ RunFrame \/ PublishFrame
  \/ Quit \/ AbandonExit \/ FlushDirtyMedia

Next == Handler \/ MainLoop \/ PresentFails \/ CloseWindow

\* The main thread is a loop that never waits for a handler beyond the mutex,
\* which every handler releases.  Nobody has to call, or to quit.
Fairness == WF_vars(MainLoop)

Spec == Init /\ [][Next]_vars /\ Fairness
-----------------------------------------------------------------------------
\* Commands queued or taken that have not been executed yet.
Outstanding == batch \o pending

\* A command for setting s is among them.
Mentions(commands, s) ==
  \E i \in 1 .. Len(commands) :
    commands[i].op.kind = "Update" /\ commands[i].op.setting = s

\* Every variable has its type: what is under the mutex, in the loop, on disk.
TypeOK ==
  /\ pending \in Seq(Command) /\ batch \in Seq(Command)
  /\ running \in BOOLEAN
  /\ reported \in [Setting -> Value] /\ applied \in [Setting -> Value]
  /\ status \in Value /\ clone \in Value
  /\ reportedDisk \in [Drive -> Media] /\ inDrive \in [Drive -> Media]
  /\ flushPath \in [Drive -> Media] /\ dirty \in [Drive -> BOOLEAN]
  /\ reportedPolicy \in Policy /\ launchPolicy \in Policy
  /\ phase \in {"top", "commands", "frame", "publish", "exit", "done"}
  /\ hdfDirty \in BOOLEAN /\ hdfWritten \in BOOLEAN
  /\ flushed \subseteq Path \X Path /\ window \in {"open", "closing", "seen"}
  /\ calls \in Nat /\ accepted \in Nat /\ executed \in Nat

\* What GET config reports of a setting is what the machine runs with, unless a
\* command for that setting is on its way; whatever PUTs and POSTs raced with
\* the loop that executes them.
ConfigAgreement ==
  \A s \in Setting :
    ~Mentions(batch, s) /\ ~Mentions(pending, s) => reported[s] = applied[s]

\* Every accepted command is executed once and in the order of acceptance: the
\* commands outstanding are exactly those accepted and not yet executed.
CommandsInOrder ==
  /\ accepted = executed + Len(batch) + Len(pending)
  /\ \A i \in 1 .. Len(batch) : batch[i].id = executed + i
  /\ \A i \in 1 .. Len(pending) :
       pending[i].id = executed + Len(batch) + i

\* The network status is about the network configuration reported beside it,
\* unless a network command is on its way: a status computed from a clone that a
\* PUT has made old never outlives the command of that PUT.
NetworkViewCurrent ==
  ~Mentions(batch, "network") /\ ~Mentions(pending, "network")
    => status = reported["network"]

\* A frame runs only while the machine is reported as running: a client that
\* has read `running = false` can rely on the guest standing still.
PausedStandsStill == phase = "frame" => running

\* No disk's data is ever written over another disk's file, however inserts,
\* ejects and configuration PUTs interleave before the exit.
FlushTargetsOwner == \A w \in flushed : w[1] = w[2]

-----------------------------------------------------------------------------
(* For TLC: setting values are interchangeable, and so are the ADF files;   *)
(* no property singles one out.                                             *)
Interchangeable == Permutations(Value) \cup Permutations(Path)
=============================================================================
