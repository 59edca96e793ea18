----------------------------- MODULE MediaStore -----------------------------
(***************************************************************************)
(* desktop/src/storage.rs with the upload and delete handlers of            *)
(* desktop/src/main.rs: concurrent uploads into one directory.              *)
(*                                                                         *)
(* An upload is an asynchronous handler.  It opens a temporary file, streams *)
(* the body into it, syncs it, hard-links it under its media name and        *)
(* removes the temporary name.  Opening, linking and removing run on a      *)
(* blocking thread (tokio::fs) while the handler waits: a handler whose      *)
(* client disconnects is dropped at any wait, and the operation it waited    *)
(* for still happens.  The process may die, and the host may lose power and  *)
(* with it the data that was written and not synced; directory operations    *)
(* are taken to survive, in the order they were made.                       *)
(*                                                                         *)
(* Names that validated_relative_path or require_extension refuse change     *)
(* nothing and are left out.  An upload u is also its file: it creates one.  *)
(***************************************************************************)
EXTENDS Naturals

CONSTANTS
  Name,       \* media names directly under the root
  Upload,     \* upload requests, each made once
  NoFile,
  Limit,      \* upload_limit_bytes, in chunks
  MaxPowerLoss \* bound on the power losses of one behaviour

ASSUME StoreAssumption ==
  NoFile \notin Upload /\ Limit \in Nat \ {0} /\ MaxPowerLoss \in Nat

Stage == {"new", "opening", "streaming", "syncing", "linking", "removing", "over"}
Reply == {"none", "ok", "exists", "too_large", "failed"}

VARIABLES
  \* the handlers
  stage,      \* where each is
  name,       \* destination
  body,       \* length of the body its client sends, in chunks
  written,    \* bytes_written
  reply,      \* the answer its client got
  task,       \* operation under way on the blocking thread
  \* the directory
  entry,      \* the file under each media name
  temps,      \* files that have a temporary name
  stored,     \* chunks in the file
  synced,     \* chunks that survive a loss of power
  \* history
  published,  \* uploads that were linked
  losses      \* power losses so far

handler == <<name, body, written>>
data    == <<stored, synced>>
vars == <<stage, name, body, written, reply, task, entry, temps, stored, synced,
          published, losses>>

Init ==
  /\ stage = [u \in Upload |-> "new"]
  /\ name \in [Upload -> Name]
  /\ body \in [Upload -> 0 .. Limit + 1]
  /\ written = [u \in Upload |-> 0]
  /\ reply = [u \in Upload |-> "none"]
  /\ task = [u \in Upload |-> "none"]
  /\ entry = [n \in Name |-> NoFile]
  /\ temps = {}
  /\ stored = [u \in Upload |-> 0] /\ synced = [u \in Upload |-> 0]
  /\ published = {} /\ losses = 0
-----------------------------------------------------------------------------
(* The handler ends *)

\* Drop for PendingUpload: from the open on it owns the temporary name, and
\* tries to remove it; a failure to remove is ignored.
Owns(u) == stage[u] \in {"streaming", "syncing", "linking", "removing"}

DropUpload(u) ==
  temps' \in IF Owns(u) THEN {temps \ {u}, temps} ELSE {temps}

Answer(u, r) ==
  /\ reply' = [reply EXCEPT ![u] = r]
  /\ stage' = [stage EXCEPT ![u] = "over"]

\* An error is returned to the client and the PendingUpload is dropped.
Refuse(u, r) == Answer(u, r) /\ DropUpload(u)

\* The client disconnects: axum drops the handler where it waits.
Cancel(u) ==
  /\ stage[u] \notin {"new", "over"}
  /\ stage' = [stage EXCEPT ![u] = "over"]
  /\ DropUpload(u)
  /\ UNCHANGED <<reply, task, entry, published, losses>>
  /\ UNCHANGED handler /\ UNCHANGED data
-----------------------------------------------------------------------------
(* post_upload up to the commit *)

\* begin_upload: refuse a name in use, else open a new temporary file.
BeginUpload(u) ==
  /\ stage[u] = "new"
  /\ \/ /\ entry[name[u]] # NoFile
        /\ Refuse(u, "exists") /\ UNCHANGED task
     \/ /\ entry[name[u]] = NoFile
        /\ stage' = [stage EXCEPT ![u] = "opening"]
        /\ task' = [task EXCEPT ![u] = "open"]
        /\ UNCHANGED <<reply, temps>>
  /\ UNCHANGED <<entry, published, losses>>
  /\ UNCHANGED handler /\ UNCHANGED data

\* The file is created.  A handler dropped meanwhile never learns of it.
OpenTemp(u) ==
  /\ task[u] = "open" /\ task' = [task EXCEPT ![u] = "none"]
  /\ \/ /\ temps' = temps \cup {u}
        /\ stage' = IF stage[u] = "opening" THEN [stage EXCEPT ![u] = "streaming"]
                                            ELSE stage
        /\ UNCHANGED reply
     \/ /\ IF stage[u] = "opening" THEN Answer(u, "failed")
                                   ELSE UNCHANGED <<stage, reply>>
        /\ UNCHANGED temps
  /\ UNCHANGED <<entry, published, losses>>
  /\ UNCHANGED handler /\ UNCHANGED data

\* write_chunk: the limit is tested before anything is written.  The chunk may
\* still be on its way to the file when the next one is awaited.
WriteChunk(u) ==
  /\ stage[u] = "streaming" /\ written[u] < body[u]
  /\ \/ /\ written[u] + 1 > Limit
        /\ Refuse(u, "too_large")
        /\ UNCHANGED <<written, stored>>
     \/ /\ written[u] + 1 <= Limit
        /\ written' = [written EXCEPT ![u] = @ + 1]
        /\ \E reached \in {written[u], written[u] + 1} :
             stored' = [stored EXCEPT ![u] = reached]
        /\ UNCHANGED <<stage, reply, temps>>
  /\ UNCHANGED <<name, body, task, entry, synced, published, losses>>

\* A malformed stream, a second field, or a write that fails.
BreakUpload(u) ==
  /\ stage[u] = "streaming"
  /\ Refuse(u, "failed")
  /\ UNCHANGED <<task, entry, published, losses>>
  /\ UNCHANGED handler /\ UNCHANGED data

\* The body is complete and the handler calls commit.
EndBody(u) ==
  /\ stage[u] = "streaming" /\ written[u] = body[u]
  /\ stage' = [stage EXCEPT ![u] = "syncing"]
  /\ UNCHANGED <<reply, task, entry, temps, published, losses>>
  /\ UNCHANGED handler /\ UNCHANGED data
-----------------------------------------------------------------------------
(* commit *)

WrongNoSync(u) ==
  /\ stage[u] = "syncing"
  /\ stored' = [stored EXCEPT ![u] = written[u]]
  /\ stage' = [stage EXCEPT ![u] = "linking"]
  /\ task' = [task EXCEPT ![u] = "link"]
  /\ UNCHANGED <<reply, temps, synced, entry, published, losses>>
  /\ UNCHANGED handler

\* flush and sync_all, then the link is handed to the blocking thread.
SyncUpload(u) ==
  /\ stage[u] = "syncing"
  /\ \/ /\ stored' = [stored EXCEPT ![u] = written[u]]
        /\ synced' = [synced EXCEPT ![u] = written[u]]
        /\ stage' = [stage EXCEPT ![u] = "linking"]
        /\ task' = [task EXCEPT ![u] = "link"]
        /\ UNCHANGED <<reply, temps>>
     \/ /\ Refuse(u, "failed")
        /\ UNCHANGED <<task, stored, synced>>
  /\ UNCHANGED <<entry, published, losses>>
  /\ UNCHANGED handler

\* rename in place of hard_link and remove_file: it replaces what is there.
WrongRename(u) ==
  /\ task[u] = "link" /\ u \in temps
  /\ entry' = [entry EXCEPT ![name[u]] = u]
  /\ temps' = temps \ {u}
  /\ published' = published \cup {u}
  /\ task' = [task EXCEPT ![u] = "none"]
  /\ IF stage[u] = "linking" THEN Answer(u, "ok") ELSE UNCHANGED <<stage, reply>>
  /\ UNCHANGED losses
  /\ UNCHANGED handler /\ UNCHANGED data

WrongLinkRetries(u) ==
  /\ task[u] = "link"
  /\ entry[name[u]] = NoFile
  /\ entry' = [entry EXCEPT ![name[u]] = u]
  /\ published' = published \cup {u}
  /\ stage' = [stage EXCEPT ![u] = IF @ = "linking" THEN "removing" ELSE @]
  /\ task' = [task EXCEPT ![u] = IF stage[u] = "linking" THEN "remove" ELSE "none"]
  /\ UNCHANGED <<reply, temps, losses>>
  /\ UNCHANGED handler /\ UNCHANGED data

\* hard_link fails if the name is taken, or if a dropped handler has removed
\* the temporary name already.
HardLink(u) ==
  /\ task[u] = "link"
  /\ \/ /\ entry[name[u]] = NoFile /\ u \in temps
        /\ entry' = [entry EXCEPT ![name[u]] = u]
        /\ published' = published \cup {u}
        /\ IF stage[u] = "linking"
           THEN /\ stage' = [stage EXCEPT ![u] = "removing"]
                /\ task' = [task EXCEPT ![u] = "remove"]
           ELSE /\ task' = [task EXCEPT ![u] = "none"]
                /\ UNCHANGED stage
        /\ UNCHANGED <<reply, temps>>
     \/ /\ task' = [task EXCEPT ![u] = "none"]
        /\ IF stage[u] = "linking"
           THEN Refuse(u, IF entry[name[u]] # NoFile THEN "exists" ELSE "failed")
           ELSE UNCHANGED <<stage, reply, temps>>
        /\ UNCHANGED <<entry, published>>
  /\ UNCHANGED losses
  /\ UNCHANGED handler /\ UNCHANGED data

WrongRemoveIgnored(u) ==
  /\ task[u] = "remove" /\ task' = [task EXCEPT ![u] = "none"]
  /\ temps' \in {temps, temps \ {u}}
  /\ IF stage[u] = "removing" THEN Answer(u, "ok") ELSE UNCHANGED <<stage, reply>>
  /\ UNCHANGED <<entry, published, losses>>
  /\ UNCHANGED handler /\ UNCHANGED data

\* remove_file of the temporary name; if it fails the upload is an error to its
\* client although it is published, and Drop tries once more.
RemoveTemp(u) ==
  /\ task[u] = "remove" /\ task' = [task EXCEPT ![u] = "none"]
  /\ \/ /\ temps' = temps \ {u}
        /\ IF stage[u] = "removing" THEN Answer(u, "ok")
                                    ELSE UNCHANGED <<stage, reply>>
     \/ IF stage[u] = "removing" THEN Refuse(u, "failed")
                                 ELSE UNCHANGED <<stage, reply, temps>>
  /\ UNCHANGED <<entry, published, losses>>
  /\ UNCHANGED handler /\ UNCHANGED data
-----------------------------------------------------------------------------
\* delete_file.
DeleteFile(n) ==
  /\ entry[n] # NoFile
  /\ entry' = [entry EXCEPT ![n] = NoFile]
  /\ UNCHANGED <<stage, reply, task, temps, published, losses>>
  /\ UNCHANGED handler /\ UNCHANGED data

\* The process ends, or the host does: every handler and every operation not
\* yet made is gone; without power so is any data that was not synced.
Die(kept) ==
  /\ stage' = [u \in Upload |-> IF stage[u] = "new" THEN "new" ELSE "over"]
  /\ task' = [u \in Upload |-> "none"]
  /\ stored' = kept
  /\ UNCHANGED <<reply, entry, temps, synced, published>>
  /\ UNCHANGED handler

Restart == Die(stored) /\ UNCHANGED losses /\ stage' # stage

PowerLoss ==
  /\ losses < MaxPowerLoss /\ losses' = losses + 1
  /\ \E kept \in [Upload -> 0 .. Limit] :
       /\ \A u \in Upload : synced[u] <= kept[u] /\ kept[u] <= stored[u]
       /\ Die(kept)

Serve(u) ==
  \/ BeginUpload(u) \/ WriteChunk(u) \/ EndBody(u) \/ BreakUpload(u)
  \/ SyncUpload(u) \/ Cancel(u)

Blocking(u) == OpenTemp(u) \/ HardLink(u) \/ RemoveTemp(u)

Next ==
  \/ \E u \in Upload : Serve(u) \/ Blocking(u)
  \/ \E n \in Name : DeleteFile(n)
  \/ Restart \/ PowerLoss

\* The runtime polls a handler that can proceed and the blocking thread works
\* off its queue; clients need not send, and nobody has to delete or to die.
Fairness == \A u \in Upload : WF_vars(SyncUpload(u)) /\ WF_vars(Blocking(u))

Spec == Init /\ [][Next]_vars /\ Fairness
-----------------------------------------------------------------------------
\* Every variable has its type, and no file grows beyond the limit.
TypeOK ==
  /\ stage \in [Upload -> Stage] /\ reply \in [Upload -> Reply]
  /\ name \in [Upload -> Name] /\ body \in [Upload -> 0 .. Limit + 1]
  /\ written \in [Upload -> 0 .. Limit]
  /\ task \in [Upload -> {"none", "open", "link", "remove"}]
  /\ entry \in [Name -> Upload \cup {NoFile}]
  /\ temps \subseteq Upload /\ published \subseteq Upload
  /\ stored \in [Upload -> 0 .. Limit] /\ synced \in [Upload -> 0 .. Limit]
  /\ losses \in Nat

\* A media name never shows a partial or oversized file: whatever is under it
\* is the complete body of one upload within the limit - while other uploads
\* stream, after a client has gone, after a crash, and after a loss of power.
PublishedWhole ==
  \A n \in Name :
    LET u == entry[n] IN
    u # NoFile => /\ u \in published /\ name[u] = n
                  /\ stored[u] = body[u] /\ body[u] <= Limit

\* The answer is true: `ok` only for an upload that was published and left no
\* temporary file; "already exists" and "too large" only for one that was not.
AnswersTrue ==
  \A u \in Upload :
    /\ reply[u] = "ok" => u \in published /\ u \notin temps
    /\ reply[u] \in {"exists", "too_large"} => u \notin published

\* A handler that reached the commit is answered, unless its client or the
\* process goes first: no commit waits forever on another upload.
CommitAnswered ==
  \A u \in Upload : stage[u] = "syncing" ~> stage[u] = "over"

\* The store implements the catalogue: crashes, cancellations and unsynced data
\* are invisible in it.
Catalog ==
  INSTANCE MediaCatalog
    WITH catalog <- [n \in Name |->
                       IF entry[n] # NoFile /\ stored[entry[n]] = body[entry[n]]
                       THEN entry[n] ELSE NoFile],
         used <- published
CatalogSpec == Catalog!Spec
=============================================================================
