------------------------- MODULE SubmissionContract -------------------------
(***************************************************************************)
(* What submitting a chunk promises its recipients and its owner, whatever  *)
(* workers, vendors and recovery jobs take part:                             *)
(*   - a request is issued only while the chunk is open or its result is     *)
(*     unknown, and only if no earlier request was or may yet be accepted;   *)
(*   - the chunk is concluded as failed only when nothing was or can be       *)
(*     accepted, and as submitted only when something was;                   *)
(*   - an unknown result is never reopened.                                  *)
(***************************************************************************)
VARIABLES
  request,  \* the request that counts: "no", "sent" or "accepted"
  verdict   \* "open", "unknown", "submitted" or "failed"

cvars == <<request, verdict>>

CInit == request = "no" /\ verdict = "open"

Issue ==
  /\ verdict \in {"open", "unknown"} /\ request = "no"
  /\ request' = "sent" /\ UNCHANGED verdict

Accept == request = "sent" /\ request' = "accepted" /\ UNCHANGED verdict
Refuse == request = "sent" /\ request' = "no" /\ UNCHANGED verdict

ConcludeSubmitted ==
  /\ verdict \in {"open", "unknown"} /\ request = "accepted"
  /\ verdict' = "submitted" /\ UNCHANGED request

ConcludeFailed ==
  /\ verdict = "open" /\ request = "no"
  /\ verdict' = "failed" /\ UNCHANGED request

LoseTrack == verdict = "open" /\ verdict' = "unknown" /\ UNCHANGED request

CNext == Issue \/ Accept \/ Refuse \/ ConcludeSubmitted \/ ConcludeFailed
           \/ LoseTrack

CSpec == CInit /\ [][CNext]_cvars
=============================================================================
