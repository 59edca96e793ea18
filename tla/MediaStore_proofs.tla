-------------------------- MODULE MediaStore_proofs --------------------------
(***************************************************************************)
(* MediaStore publishes whole bodies only and implements MediaCatalog, for  *)
(* any number of names, uploads, chunks and losses of power.                *)
(***************************************************************************)
EXTENDS MediaStore, TLAPS

\* What the blocking thread does for an upload agrees with what its handler
\* waits for, unless the handler is gone; an answered upload has nothing left.
TaskFitsStage ==
  \A u \in Upload :
    /\ task[u] = "open"   => stage[u] \in {"opening", "over"}
    /\ task[u] = "link"   => stage[u] \in {"linking", "over"}
    /\ task[u] = "remove" => stage[u] \in {"removing", "over"}
    /\ stage[u] # "over"  => reply[u] = "none"
    /\ reply[u] # "none"  => task[u] = "none"

\* From the end of the stream on the body has been written, and from the sync
\* on it is in the file and stays there without power.
WholeBeforeLink ==
  \A u \in Upload :
    /\ stage[u] = "syncing" => written[u] = body[u]
    /\ task[u] = "link" \/ u \in published =>
         stored[u] = body[u] /\ synced[u] = body[u] /\ body[u] <= Limit

\* Only the link publishes, once.
PublishedOnce ==
  \A u \in Upload :
    /\ u \in published => /\ stage[u] \in {"removing", "over"}
                          /\ task[u] \notin {"open", "link"}
    /\ task[u] = "remove" => u \in published

IInv ==
  /\ TypeOK
  /\ TaskFitsStage
  /\ WholeBeforeLink
  /\ PublishedOnce
  /\ PublishedWhole
  /\ AnswersTrue
-----------------------------------------------------------------------------
LEMMA InitInv == Init => IInv
  BY StoreAssumption DEF Init, IInv, TypeOK, Stage, Reply, TaskFitsStage, WholeBeforeLink,
     PublishedOnce, PublishedWhole, AnswersTrue

\* A step of one upload that publishes nothing, starts no link and writes no
\* data keeps the invariant if its answer is true.
LEMMA QuietInv ==
  ASSUME IInv, NEW u \in Upload,
         NEW s \in Stage, stage' = [stage EXCEPT ![u] = s],
         NEW r \in Reply, reply' = [reply EXCEPT ![u] = r],
         NEW t \in {"none", "open", "link", "remove"}, task' = [task EXCEPT ![u] = t],
         t = "open" => s \in {"opening", "over"},
         t \in {"link", "remove"} => t = task[u] /\ s = "over",
         s # "over" => r = "none",
         r # "none" => t = "none",
         r = "ok" => u \in published /\ u \notin temps',
         r \in {"exists", "too_large"} => u \notin published,
         s = "syncing" => written[u] = body[u],
         u \in published => s \in {"removing", "over"} /\ t \notin {"open", "link"},
         temps' \subseteq temps,
         UNCHANGED <<entry, published, losses>>, UNCHANGED handler, UNCHANGED data
  PROVE  IInv'
<1>1. TypeOK'
  BY DEF IInv, TypeOK, handler, data
<1>2. TaskFitsStage'
  BY DEF IInv, TypeOK, TaskFitsStage
<1>3. WholeBeforeLink'
  BY DEF IInv, TypeOK, WholeBeforeLink, handler, data
<1>4. PublishedOnce'
  BY DEF IInv, TypeOK, PublishedOnce
<1>5. PublishedWhole'
  BY DEF IInv, PublishedWhole, handler, data
<1>6. AnswersTrue'
  BY DEF IInv, TypeOK, AnswersTrue
<1> QED BY <1>1, <1>2, <1>3, <1>4, <1>5, <1>6 DEF IInv

LEMMA DropShrinks == ASSUME NEW u, DropUpload(u) PROVE temps' \subseteq temps
  BY DEF DropUpload

\* Writing f[x] back into f changes nothing.
LEMMA SameValue ==
  ASSUME NEW S, NEW T, NEW f \in [S -> T], NEW x \in S
  PROVE  f = [f EXCEPT ![x] = f[x]]
  OBVIOUS
-----------------------------------------------------------------------------
(* The steps *)

\* What the invariant says of one upload's control variables.
LEMMA Facts ==
  ASSUME IInv, NEW u \in Upload
  PROVE  /\ stage[u] \in Stage /\ reply[u] \in Reply
         /\ task[u] \in {"none", "open", "link", "remove"}
         /\ stage = [stage EXCEPT ![u] = stage[u]]
         /\ reply = [reply EXCEPT ![u] = reply[u]]
         /\ task = [task EXCEPT ![u] = task[u]]
         /\ task[u] = "open"   => stage[u] \in {"opening", "over"}
         /\ task[u] = "link"   => stage[u] \in {"linking", "over"}
         /\ task[u] = "remove" => stage[u] \in {"removing", "over"}
         /\ stage[u] # "over"  => reply[u] = "none"
         /\ reply[u] # "none"  => task[u] = "none"
         /\ u \in published =>
              stage[u] \in {"removing", "over"} /\ task[u] \notin {"open", "link"}
<1>1. /\ stage \in [Upload -> Stage] /\ reply \in [Upload -> Reply]
      /\ task \in [Upload -> {"none", "open", "link", "remove"}]
  BY DEF IInv, TypeOK
<1>2. /\ stage = [stage EXCEPT ![u] = stage[u]]
      /\ reply = [reply EXCEPT ![u] = reply[u]]
      /\ task = [task EXCEPT ![u] = task[u]]
  BY <1>1, SameValue
<1> QED BY <1>1, <1>2 DEF IInv, TaskFitsStage, PublishedOnce

LEMMA CancelInv == ASSUME IInv, NEW u \in Upload, Cancel(u) PROVE IInv'
<1>1. /\ stage[u] \notin {"new", "over"}
      /\ stage' = [stage EXCEPT ![u] = "over"]
      /\ temps' \subseteq temps
      /\ UNCHANGED <<reply, task, entry, published, losses>>
      /\ UNCHANGED handler /\ UNCHANGED data
  BY DropShrinks DEF Cancel
<1>2. reply[u] = "none" /\ task' = [task EXCEPT ![u] = task[u]]
      /\ reply' = [reply EXCEPT ![u] = "none"]
  BY <1>1, Facts
<1> QED BY <1>1, <1>2, Facts, QuietInv DEF Stage, Reply

LEMMA BeginUploadInv == ASSUME IInv, NEW u \in Upload, BeginUpload(u) PROVE IInv'
<1>1. /\ stage[u] = "new" /\ reply[u] = "none" /\ task[u] = "none"
      /\ u \notin published
      /\ UNCHANGED <<entry, published, losses>>
      /\ UNCHANGED handler /\ UNCHANGED data
  BY Facts DEF BeginUpload
<1>2. CASE Refuse(u, "exists") /\ UNCHANGED task
  <2>1. /\ reply' = [reply EXCEPT ![u] = "exists"]
        /\ stage' = [stage EXCEPT ![u] = "over"]
        /\ task' = [task EXCEPT ![u] = "none"]
        /\ temps' \subseteq temps
    BY <1>1, <1>2, Facts, DropShrinks DEF Refuse, Answer
  <2> QED BY <1>1, <2>1, QuietInv DEF Stage, Reply
<1>3. CASE /\ stage' = [stage EXCEPT ![u] = "opening"]
           /\ task' = [task EXCEPT ![u] = "open"]
           /\ UNCHANGED <<reply, temps>>
  <2>1. reply' = [reply EXCEPT ![u] = "none"]
    BY <1>1, <1>3, Facts
  <2> QED BY <1>1, <1>3, <2>1, QuietInv DEF Stage, Reply
<1> QED BY <1>2, <1>3 DEF BeginUpload

\* Creating the temporary file is the one step that adds to temps.
LEMMA OpenTempInv == ASSUME IInv, NEW u \in Upload, OpenTemp(u) PROVE IInv'
<1>1. /\ task[u] = "open" /\ reply[u] = "none" /\ u \notin published
      /\ stage[u] \in {"opening", "over"}
      /\ task' = [task EXCEPT ![u] = "none"]
      /\ UNCHANGED <<entry, published, losses>>
      /\ UNCHANGED handler /\ UNCHANGED data
  BY Facts DEF OpenTemp
<1>2. CASE /\ temps' = temps \cup {u}
           /\ stage' = IF stage[u] = "opening" THEN [stage EXCEPT ![u] = "streaming"]
                                               ELSE stage
           /\ UNCHANGED reply
  <2>1. PICK s \in {"streaming", "over"} : stage' = [stage EXCEPT ![u] = s]
    BY <1>1, <1>2, Facts
  <2>2. TypeOK'
    BY <1>1, <1>2, <2>1 DEF IInv, TypeOK, Stage, handler, data
  <2>3. TaskFitsStage'
    BY <1>1, <1>2, <2>1 DEF IInv, TypeOK, TaskFitsStage
  <2>4. WholeBeforeLink'
    BY <1>1, <2>1 DEF IInv, TypeOK, WholeBeforeLink, handler, data
  <2>5. PublishedOnce'
    BY <1>1, <2>1 DEF IInv, TypeOK, PublishedOnce
  <2>6. PublishedWhole' /\ AnswersTrue'
    BY <1>1, <1>2 DEF IInv, PublishedWhole, AnswersTrue, handler, data
  <2> QED BY <2>2, <2>3, <2>4, <2>5, <2>6 DEF IInv
<1>3. CASE /\ IF stage[u] = "opening" THEN Answer(u, "failed")
                                       ELSE UNCHANGED <<stage, reply>>
           /\ UNCHANGED temps
  <2>1. PICK r \in {"none", "failed"} : /\ reply' = [reply EXCEPT ![u] = r]
                                        /\ stage' = [stage EXCEPT ![u] = "over"]
    BY <1>1, <1>3, Facts DEF Answer
  <2> QED BY <1>1, <1>3, <2>1, QuietInv DEF Stage, Reply
<1> QED BY <1>2, <1>3 DEF OpenTemp

LEMMA WriteChunkInv == ASSUME IInv, NEW u \in Upload, WriteChunk(u) PROVE IInv'
<1>1. /\ stage[u] = "streaming" /\ reply[u] = "none" /\ task[u] = "none"
      /\ u \notin published
      /\ UNCHANGED <<name, body, task, entry, synced, published, losses>>
  BY Facts DEF WriteChunk
<1>2. CASE Refuse(u, "too_large") /\ UNCHANGED <<written, stored>>
  <2>1. /\ reply' = [reply EXCEPT ![u] = "too_large"]
        /\ stage' = [stage EXCEPT ![u] = "over"]
        /\ task' = [task EXCEPT ![u] = "none"]
        /\ temps' \subseteq temps
    BY <1>1, <1>2, Facts, DropShrinks DEF Refuse, Answer
  <2> QED BY <1>1, <1>2, <2>1, QuietInv DEF Stage, Reply, handler, data
<1>3. CASE /\ written[u] + 1 <= Limit
           /\ written' = [written EXCEPT ![u] = @ + 1]
           /\ \E reached \in {written[u], written[u] + 1} :
                stored' = [stored EXCEPT ![u] = reached]
           /\ UNCHANGED <<stage, reply, temps>>
  <2>1. written[u] \in 0 .. Limit /\ written[u] + 1 \in 0 .. Limit
    BY <1>3, StoreAssumption DEF IInv, TypeOK
  <2>2. PICK reached \in 0 .. Limit : stored' = [stored EXCEPT ![u] = reached]
    BY <1>3, <2>1
  <2>3. TypeOK'
    BY <1>1, <1>3, <2>1, <2>2 DEF IInv, TypeOK
  <2>4. TaskFitsStage' /\ PublishedOnce' /\ AnswersTrue'
    BY <1>1, <1>3 DEF IInv, TaskFitsStage, PublishedOnce, AnswersTrue
  <2>5. WholeBeforeLink'
    BY <1>1, <1>3, <2>2 DEF IInv, TypeOK, WholeBeforeLink
  <2>6. PublishedWhole'
    BY <1>1, <2>2 DEF IInv, TypeOK, PublishedWhole
  <2> QED BY <2>3, <2>4, <2>5, <2>6 DEF IInv
<1> QED BY <1>2, <1>3 DEF WriteChunk

LEMMA BreakUploadInv == ASSUME IInv, NEW u \in Upload, BreakUpload(u) PROVE IInv'
<1>1. /\ stage[u] = "streaming" /\ task[u] = "none" /\ u \notin published
      /\ reply' = [reply EXCEPT ![u] = "failed"]
      /\ stage' = [stage EXCEPT ![u] = "over"]
      /\ task' = [task EXCEPT ![u] = "none"]
      /\ temps' \subseteq temps
      /\ UNCHANGED <<entry, published, losses>>
      /\ UNCHANGED handler /\ UNCHANGED data
  BY Facts, DropShrinks DEF BreakUpload, Refuse, Answer
<1> QED BY <1>1, QuietInv DEF Stage, Reply

LEMMA EndBodyInv == ASSUME IInv, NEW u \in Upload, EndBody(u) PROVE IInv'
<1>1. /\ stage[u] = "streaming" /\ reply[u] = "none" /\ task[u] = "none"
      /\ u \notin published /\ written[u] = body[u]
      /\ stage' = [stage EXCEPT ![u] = "syncing"]
      /\ reply' = [reply EXCEPT ![u] = "none"]
      /\ task' = [task EXCEPT ![u] = "none"]
      /\ UNCHANGED <<entry, temps, published, losses>>
      /\ UNCHANGED handler /\ UNCHANGED data
  BY Facts DEF EndBody
<1> QED BY <1>1, QuietInv DEF Stage, Reply

\* The sync establishes WholeBeforeLink for the link it starts.
LEMMA SyncUploadInv == ASSUME IInv, NEW u \in Upload, SyncUpload(u) PROVE IInv'
<1>1. /\ stage[u] = "syncing" /\ reply[u] = "none" /\ task[u] = "none"
      /\ u \notin published /\ written[u] = body[u]
      /\ UNCHANGED <<entry, published, losses>> /\ UNCHANGED handler
  BY Facts DEF SyncUpload, IInv, WholeBeforeLink
<1>2. CASE /\ stored' = [stored EXCEPT ![u] = written[u]]
           /\ synced' = [synced EXCEPT ![u] = written[u]]
           /\ stage' = [stage EXCEPT ![u] = "linking"]
           /\ task' = [task EXCEPT ![u] = "link"]
           /\ UNCHANGED <<reply, temps>>
  <2>1. written[u] \in 0 .. Limit /\ body[u] <= Limit
    BY <1>1, StoreAssumption DEF IInv, TypeOK
  <2>2. TypeOK'
    BY <1>1, <1>2, <2>1 DEF IInv, TypeOK, Stage, handler
  <2>3. TaskFitsStage' /\ PublishedOnce' /\ AnswersTrue'
    BY <1>1, <1>2 DEF IInv, TypeOK, TaskFitsStage, PublishedOnce, AnswersTrue
  <2>4. WholeBeforeLink'
    BY <1>1, <1>2, <2>1 DEF IInv, TypeOK, WholeBeforeLink, handler
  <2>5. PublishedWhole'
    BY <1>1, <1>2 DEF IInv, TypeOK, PublishedWhole, handler
  <2> QED BY <2>2, <2>3, <2>4, <2>5 DEF IInv
<1>3. CASE Refuse(u, "failed") /\ UNCHANGED <<task, stored, synced>>
  <2>1. /\ reply' = [reply EXCEPT ![u] = "failed"]
        /\ stage' = [stage EXCEPT ![u] = "over"]
        /\ task' = [task EXCEPT ![u] = "none"]
        /\ temps' \subseteq temps
    BY <1>1, <1>3, Facts, DropShrinks DEF Refuse, Answer
  <2> QED BY <1>1, <1>3, <2>1, QuietInv DEF Stage, Reply, data
<1> QED BY <1>2, <1>3 DEF SyncUpload

LEMMA HardLinkInv == ASSUME IInv, NEW u \in Upload, HardLink(u) PROVE IInv'
<1>1. /\ task[u] = "link" /\ reply[u] = "none" /\ u \notin published
      /\ stage[u] \in {"linking", "over"}
      /\ stored[u] = body[u] /\ synced[u] = body[u] /\ body[u] <= Limit
      /\ UNCHANGED losses /\ UNCHANGED handler /\ UNCHANGED data
  BY Facts DEF HardLink, IInv, WholeBeforeLink
<1>2. CASE /\ entry[name[u]] = NoFile /\ u \in temps
           /\ entry' = [entry EXCEPT ![name[u]] = u]
           /\ published' = published \cup {u}
           /\ IF stage[u] = "linking"
              THEN /\ stage' = [stage EXCEPT ![u] = "removing"]
                   /\ task' = [task EXCEPT ![u] = "remove"]
              ELSE /\ task' = [task EXCEPT ![u] = "none"]
                   /\ UNCHANGED stage
           /\ UNCHANGED <<reply, temps>>
  <2>1. PICK s \in {"removing", "over"}, t \in {"remove", "none"} :
          /\ stage' = [stage EXCEPT ![u] = s] /\ task' = [task EXCEPT ![u] = t]
          /\ t = "remove" => s = "removing"
    BY <1>1, <1>2, Facts
  <2>2. TypeOK'
    BY <1>1, <1>2, <2>1 DEF IInv, TypeOK, Stage, handler, data
  <2>3. TaskFitsStage' /\ PublishedOnce'
    BY <1>1, <1>2, <2>1 DEF IInv, TypeOK, TaskFitsStage, PublishedOnce
  <2>4. WholeBeforeLink'
    BY <1>1, <1>2, <2>1 DEF IInv, TypeOK, WholeBeforeLink, handler, data
  <2>5. PublishedWhole'
    BY <1>1, <1>2 DEF IInv, TypeOK, PublishedWhole, handler, data
  <2>6. AnswersTrue'
    BY <1>1, <1>2 DEF IInv, TypeOK, AnswersTrue
  <2> QED BY <2>2, <2>3, <2>4, <2>5, <2>6 DEF IInv
<1>3. CASE /\ task' = [task EXCEPT ![u] = "none"]
           /\ IF stage[u] = "linking"
              THEN Refuse(u, IF entry[name[u]] # NoFile THEN "exists" ELSE "failed")
              ELSE UNCHANGED <<stage, reply, temps>>
           /\ UNCHANGED <<entry, published>>
  <2>1. PICK r \in {"none", "exists", "failed"} :
          /\ reply' = [reply EXCEPT ![u] = r]
          /\ stage' = [stage EXCEPT ![u] = "over"]
          /\ temps' \subseteq temps
    BY <1>1, <1>3, Facts, DropShrinks DEF Refuse, Answer
  <2> QED BY <1>1, <1>3, <2>1, QuietInv DEF Stage, Reply
<1> QED BY <1>2, <1>3 DEF HardLink

LEMMA RemoveTempInv == ASSUME IInv, NEW u \in Upload, RemoveTemp(u) PROVE IInv'
<1>1. /\ task[u] = "remove" /\ reply[u] = "none"
      /\ stage[u] \in {"removing", "over"}
      /\ task' = [task EXCEPT ![u] = "none"]
      /\ UNCHANGED <<entry, published, losses>>
      /\ UNCHANGED handler /\ UNCHANGED data
  BY Facts DEF RemoveTemp
<1>2. u \in published
  BY <1>1 DEF IInv, PublishedOnce
<1>3. PICK r \in {"none", "ok", "failed"} :
        /\ reply' = [reply EXCEPT ![u] = r]
        /\ stage' = [stage EXCEPT ![u] = "over"]
        /\ temps' \subseteq temps
        /\ r = "ok" => u \notin temps'
  BY <1>1, Facts, DropShrinks DEF RemoveTemp, Refuse, Answer
<1> QED BY <1>1, <1>2, <1>3, QuietInv DEF Stage, Reply
LEMMA DeleteFileInv == ASSUME IInv, NEW n \in Name, DeleteFile(n) PROVE IInv'
<1>1. /\ entry' = [entry EXCEPT ![n] = NoFile]
      /\ UNCHANGED <<stage, reply, task, temps, published, losses>>
      /\ UNCHANGED handler /\ UNCHANGED data
  BY DEF DeleteFile
<1>2. TypeOK'
  BY <1>1 DEF IInv, TypeOK, handler, data
<1>3. TaskFitsStage' /\ WholeBeforeLink' /\ PublishedOnce' /\ AnswersTrue'
  BY <1>1 DEF IInv, TaskFitsStage, WholeBeforeLink, PublishedOnce, AnswersTrue,
              handler, data
<1>4. PublishedWhole'
  BY <1>1 DEF IInv, TypeOK, PublishedWhole, handler, data
<1> QED BY <1>2, <1>3, <1>4 DEF IInv

\* A crash breaks nothing if it keeps what was published.
LEMMA DieInv ==
  ASSUME IInv, NEW kept \in [Upload -> 0 .. Limit], Die(kept), losses' \in Nat,
         \A u \in published : kept[u] = stored[u]
  PROVE  IInv'
<1>1. /\ stage' = [u \in Upload |-> IF stage[u] = "new" THEN "new" ELSE "over"]
      /\ task' = [u \in Upload |-> "none"]
      /\ stored' = kept
      /\ UNCHANGED <<reply, entry, temps, synced, published>>
      /\ UNCHANGED handler
  BY DEF Die
<1>2. TypeOK'
  BY <1>1 DEF IInv, TypeOK, Stage, handler
<1>3. TaskFitsStage' /\ PublishedOnce' /\ AnswersTrue'
  BY <1>1 DEF IInv, TaskFitsStage, PublishedOnce, AnswersTrue
<1>4. WholeBeforeLink'
  BY <1>1 DEF IInv, TypeOK, WholeBeforeLink, handler
<1>5. PublishedWhole'
  BY <1>1 DEF IInv, PublishedWhole, handler
<1> QED BY <1>2, <1>3, <1>4, <1>5 DEF IInv

LEMMA RestartInv == ASSUME IInv, Restart PROVE IInv'
<1>1. stored \in [Upload -> 0 .. Limit] /\ Die(stored) /\ losses' \in Nat
  BY DEF Restart, IInv, TypeOK
<1> QED BY <1>1, DieInv

\* Everything published was synced whole.
LEMMA PowerLossInv == ASSUME IInv, PowerLoss PROVE IInv'
<1>1. PICK kept \in [Upload -> 0 .. Limit] :
        /\ \A u \in Upload : synced[u] <= kept[u] /\ kept[u] <= stored[u]
        /\ Die(kept)
  BY DEF PowerLoss
<1>2. losses' \in Nat
  BY DEF PowerLoss, IInv, TypeOK
<1>3. ASSUME NEW u \in published PROVE kept[u] = stored[u]
  <2>1. u \in Upload
    BY DEF IInv, TypeOK
  <2>2. /\ stored[u] = synced[u] /\ stored[u] \in Nat /\ kept[u] \in Nat
        /\ synced[u] <= kept[u] /\ kept[u] <= stored[u]
    BY <1>1, <2>1, StoreAssumption DEF IInv, TypeOK, WholeBeforeLink
  <2> QED BY <2>2
<1> QED BY <1>1, <1>2, <1>3, DieInv

LEMMA StutterInv == ASSUME IInv, UNCHANGED vars PROVE IInv'
  BY DEF IInv, TypeOK, TaskFitsStage, WholeBeforeLink, PublishedOnce, PublishedWhole,
         AnswersTrue, vars

LEMMA IInvInductive == IInv /\ [Next]_vars => IInv'
<1> SUFFICES ASSUME IInv, [Next]_vars PROVE IInv'
  OBVIOUS
<1>1. ASSUME NEW u \in Upload, Serve(u) PROVE IInv'
  BY <1>1, BeginUploadInv, WriteChunkInv, EndBodyInv, BreakUploadInv,
     SyncUploadInv, CancelInv DEF Serve
<1>2. ASSUME NEW u \in Upload, Blocking(u) PROVE IInv'
  BY <1>2, OpenTempInv, HardLinkInv, RemoveTempInv DEF Blocking
<1>3. ASSUME NEW n \in Name, DeleteFile(n) PROVE IInv'
  BY <1>3, DeleteFileInv
<1>4. Restart => IInv'
  BY RestartInv
<1>5. PowerLoss => IInv'
  BY PowerLossInv
<1>6. UNCHANGED vars => IInv'
  BY StutterInv
<1> QED BY <1>1, <1>2, <1>3, <1>4, <1>5, <1>6 DEF Next
-----------------------------------------------------------------------------
\* The variables keep their types, and no file grows past the upload limit.
THEOREM TypeCorrect == Spec => []TypeOK
<1>1. IInv => TypeOK
  BY DEF IInv
<1> QED BY <1>1, InitInv, IInvInductive, PTL DEF Spec

\* Whatever a media name shows is one complete upload, after crashes and losses
\* of power too.
THEOREM NothingPartialIsPublished == Spec => []PublishedWhole
<1>1. IInv => PublishedWhole
  BY DEF IInv
<1> QED BY <1>1, InitInv, IInvInductive, PTL DEF Spec

\* `ok`, "already exists" and "too large" tell the client what happened.
THEOREM AnswersAreTrue == Spec => []AnswersTrue
<1>1. IInv => AnswersTrue
  BY DEF IInv
<1> QED BY <1>1, InitInv, IInvInductive, PTL DEF Spec
-----------------------------------------------------------------------------
(* The refinement *)

\* Under the invariant every file in the directory is whole, so the refinement
\* mapping is the directory itself.
View == [n \in Name |-> IF entry[n] # NoFile /\ stored[entry[n]] = body[entry[n]]
                        THEN entry[n] ELSE NoFile]

LEMMA ViewIsEntry == ASSUME IInv PROVE View = entry
<1>1. entry \in [Name -> Upload \cup {NoFile}]
  BY DEF IInv, TypeOK
<1>2. ASSUME NEW n \in Name PROVE View[n] = entry[n]
  BY DEF View, IInv, PublishedWhole
<1> QED BY <1>1, <1>2 DEF View

LEMMA CatalogStep ==
  ASSUME IInv, IInv', [Next]_vars
  PROVE  [Catalog!Next]_<<View, published>>
<1>1. View = entry /\ View' = entry'
  <2>1. View = entry
    BY ViewIsEntry
  <2>2. (IInv => View = entry)'
    BY ViewIsEntry, PTL
  <2> QED BY <2>1, <2>2
<1>2. CASE UNCHANGED <<entry, published>>
  BY <1>1, <1>2
<1>3. ASSUME NEW u \in Upload, HardLink(u), ~UNCHANGED <<entry, published>>,
             NEW n \in Name, n = name[u]
      PROVE  Catalog!Publish(u, n)
  <2>1. /\ u \notin published /\ entry[n] = NoFile
        /\ entry' = [entry EXCEPT ![n] = u]
        /\ published' = published \cup {u}
    BY <1>3, Facts DEF HardLink, IInv, TypeOK
  <2> QED BY <1>1, <2>1 DEF Catalog!Publish, View
<1>4. ASSUME NEW n \in Name, DeleteFile(n) PROVE Catalog!Remove(n)
  BY <1>1, <1>4 DEF DeleteFile, Catalog!Remove, View
<1>5. ASSUME NEW u \in Upload, Serve(u) \/ OpenTemp(u) \/ RemoveTemp(u)
      PROVE  UNCHANGED <<entry, published>>
  BY <1>5 DEF Serve, BeginUpload, WriteChunk, EndBody, BreakUpload, SyncUpload,
              Cancel, OpenTemp, RemoveTemp
<1>6. Restart \/ PowerLoss \/ UNCHANGED vars => UNCHANGED <<entry, published>>
  BY DEF Restart, PowerLoss, Die, vars
<1>7. CASE ~UNCHANGED <<entry, published>>
  <2>1. CASE \E u \in Upload : HardLink(u)
    <3>1. PICK u \in Upload : HardLink(u)
      BY <2>1
    <3>2. PICK n \in Name : n = name[u]
      BY DEF IInv, TypeOK
    <3>3. Catalog!Publish(u, n)
      BY <1>3, <1>7, <3>1, <3>2
    <3> QED BY <3>3 DEF Catalog!Next
  <2>2. CASE \E n \in Name : DeleteFile(n)
    BY <1>4, <2>2 DEF Catalog!Next
  <2> QED BY <1>5, <1>6, <1>7, <2>1, <2>2 DEF Next, Blocking
<1> QED BY <1>2, <1>7

\* The upload protocol implements the catalogue: every step publishes one whole
\* upload under a free name, removes one, or changes nothing a client can see.
THEOREM StoreImplementsCatalog == Spec => CatalogSpec
<1>1. Init => Catalog!Init
  BY DEF Init, Catalog!Init
<1> QED BY <1>1, InitInv, IInvInductive, CatalogStep, PTL
        DEF Spec, CatalogSpec, Catalog!Spec, View
=============================================================================
