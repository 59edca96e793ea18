---------------------------- MODULE MediaCatalog ----------------------------
(***************************************************************************)
(* What the media store of desktop/src/storage.rs promises a client: a      *)
(* catalogue of names, in which a name that is free can be given the whole  *)
(* body of one upload, and a name in use can only be freed.  Nothing is     *)
(* overwritten, nothing is half there, and nothing is published twice.      *)
(***************************************************************************)
CONSTANTS Name, Upload, NoFile

VARIABLES
  catalog,    \* the upload whose whole body a name holds, or NoFile
  used        \* uploads published so far

Init ==
  /\ catalog = [n \in Name |-> NoFile]
  /\ used = {}

Publish(u, n) ==
  /\ u \notin used /\ catalog[n] = NoFile
  /\ catalog' = [catalog EXCEPT ![n] = u]
  /\ used' = used \cup {u}

Remove(n) ==
  /\ catalog[n] # NoFile
  /\ catalog' = [catalog EXCEPT ![n] = NoFile]
  /\ UNCHANGED used

Next ==
  \/ \E u \in Upload, n \in Name : Publish(u, n)
  \/ \E n \in Name : Remove(n)

Spec == Init /\ [][Next]_<<catalog, used>>
=============================================================================
