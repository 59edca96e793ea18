------------------------------- MODULE Volume -------------------------------
(***************************************************************************)
(* What a hard drive promises its driver: a request is carried out at once   *)
(* on the image, as a whole, or not at all when the driver gives it up.      *)
(***************************************************************************)
EXTENDS Integers, Sequences

CONSTANTS
  None,                \* no request
  Requests,            \* records with write (BOOLEAN), lba, count and data
  Load(_, _, _),       \* the bytes of count sectors from lba on
  Store(_, _, _)       \* the image with bytes stored from sector lba on

VARIABLES image, request, answer

Submit ==
  /\ request = None
  /\ request' \in Requests
  /\ UNCHANGED <<image, answer>>

Write ==
  /\ request # None /\ request.write
  /\ image' = Store(image, request.lba, request.data)
  /\ request' = None /\ UNCHANGED answer

Read ==
  /\ request # None /\ ~request.write
  /\ answer' = Load(image, request.lba, request.count)
  /\ request' = None /\ UNCHANGED image

GiveUp == request # None /\ request' = None /\ UNCHANGED <<image, answer>>

Init == request = None /\ answer = << >>
Next == Submit \/ Write \/ Read \/ GiveUp
Spec == Init /\ [][Next]_<<image, request, answer>>
=============================================================================
