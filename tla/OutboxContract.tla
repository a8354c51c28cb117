--------------------------- MODULE OutboxContract ---------------------------
(***************************************************************************)
(* What the outbox promises the code that enqueues an event: the event is   *)
(* tried a bounded number of times, is done only after it was tried, and a  *)
(* settled event stays settled until it is armed again.  Leases, fencing    *)
(* tokens, the broker and its faults are all hidden.                        *)
(***************************************************************************)
EXTENDS Integers

CONSTANTS
  Events,
  MaxAttempts  \* tries an event is given each time it is armed

VARIABLES
  life,  \* "absent", "open", "done" or "dead"
  tries  \* executions begun since the event was last armed

vars == <<life, tries>>

Init ==
  /\ life = [e \in Events |-> "absent"]
  /\ tries = [e \in Events |-> 0]

(* The event is enqueued, or a settled event is armed again.                *)
Arm(e) ==
  /\ life[e] \in {"absent", "done", "dead"}
  /\ life' = [life EXCEPT ![e] = "open"]
  /\ tries' = [tries EXCEPT ![e] = 0]

Begin(e) ==
  /\ life[e] = "open" /\ tries[e] < MaxAttempts[e]
  /\ tries' = [tries EXCEPT ![e] = @ + 1]
  /\ UNCHANGED life

(* A deferred execution gives its try back.                                 *)
GiveBack(e) ==
  /\ life[e] = "open" /\ tries[e] > 0
  /\ tries' = [tries EXCEPT ![e] = @ - 1]
  /\ UNCHANGED life

Finish(e) ==
  /\ life[e] = "open" /\ tries[e] > 0
  /\ life' = [life EXCEPT ![e] = "done"]
  /\ UNCHANGED tries

(* One sweep may give up several events.                                    *)
GiveUp ==
  /\ \A e \in Events : life'[e] # life[e] => life[e] = "open" /\ life'[e] = "dead"
  /\ life' \in [Events -> {"absent", "open", "done", "dead"}]
  /\ UNCHANGED tries

Next ==
  \/ \E e \in Events : Arm(e) \/ Begin(e) \/ GiveBack(e) \/ Finish(e)
  \/ GiveUp

Spec == Init /\ [][Next]_vars

=============================================================================
