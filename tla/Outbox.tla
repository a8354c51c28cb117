------------------------------- MODULE Outbox -------------------------------
(***************************************************************************)
(* The transactional outbox: the table outbox_event with its lease CASes   *)
(* (services/outbox_repository.py), the dispatcher and the executor that    *)
(* drive it (services/outbox.py), and the Redis broker between the two.     *)
(*                                                                         *)
(* An event row is leased by a dispatcher coroutine, published to the       *)
(* broker, claimed by the consumer that receives the message, and then      *)
(* completed, failed or deferred under the consumer's lease.  Leases        *)
(* expire, messages are duplicated and lost, dispatchers and consumers      *)
(* crash at any point.                                                      *)
(*                                                                         *)
(* A lease_id (a fresh UUID per lease) is represented by the actor that     *)
(* took it: an actor holds one lease at a time and forgets it on a crash,   *)
(* so the actor's name compares equal exactly when the UUID would.          *)
(***************************************************************************)
EXTENDS Integers, FiniteSets

CONSTANTS
  Events,       \* outbox_event rows, one per dedup_key
  Dispatchers,  \* publish_worker coroutines of OutboxDispatcher
  Executors,    \* consumers running OutboxExecutor.run
  NoOne,        \* lease_id IS NULL
  NoEvent,      \* an actor that holds no event
  EventType,    \* event_type of each row
  MaxAttempts,  \* max_attempts of each row
  MaxRearms,    \* bound: operator or reconciler re-arms of a row
  MaxDefers     \* bound: calendar deferrals of a row between re-arms

ASSUME ActorsAssumption ==
  /\ Dispatchers \cap Executors = {}
  /\ NoOne \notin Dispatchers \cup Executors
  /\ NoEvent \notin Events

ASSUME ContractAssumption ==
  /\ EventType \in [Events -> {"chunk.ready", "batch.ready", "other"}]
  /\ MaxAttempts \in [Events -> Nat \ {0}]
  /\ MaxRearms \in Nat
  /\ MaxDefers \in Nat

VARIABLES
  state,     \* outbox_event.state
  attempts,  \* outbox_event.attempts
  lease,     \* outbox_event.lease_id
  expired,   \* lease_expires_at <= now()
  due,       \* next_attempt_at <= now()
  msgs,      \* events with a message in the broker
  dEv, dPc,  \* the event a dispatcher works on, and where it is
  xEv, xPc,  \* the event an executor works on, and where it is
  xLost,     \* the executor's lease_lost flag
  begun,     \* history: claims less deferrals since the row was last armed
  defers,    \* history: deferrals since the row was last armed
  rearms,    \* history: re-arms of the row
  overrun    \* history: the executor's lease expired while it was running

rowVars == <<state, attempts, lease, expired, due>>
dVars == <<dEv, dPc>>
xVars == <<xEv, xPc, xLost, overrun>>
histVars == <<begun, defers, rearms>>
vars == <<rowVars, msgs, dVars, xVars, histVars>>

Leasable == {"leased", "published", "processing"}
Open == {"pending"} \cup Leasable

Init ==
  /\ state = [e \in Events |-> "absent"]
  /\ attempts = [e \in Events |-> 0]
  /\ lease = [e \in Events |-> NoOne]
  /\ expired = [e \in Events |-> FALSE]
  /\ due = [e \in Events |-> FALSE]
  /\ msgs = {}
  /\ dEv = [d \in Dispatchers |-> NoEvent]
  /\ dPc = [d \in Dispatchers |-> "idle"]
  /\ xEv = [w \in Executors |-> NoEvent]
  /\ xPc = [w \in Executors |-> "idle"]
  /\ xLost = [w \in Executors |-> FALSE]
  /\ begun = [e \in Events |-> 0]
  /\ defers = [e \in Events |-> 0]
  /\ rearms = [e \in Events |-> 0]
  /\ overrun = [w \in Executors |-> FALSE]

-----------------------------------------------------------------------------
(* Producers and the re-arming of settled rows.                             *)

(* INSERT ... ON CONFLICT (dedup_key): a second enqueue of the same key     *)
(* leaves the row as it is.  An event may be enqueued with a delay.         *)
enqueue_outbox(e) ==
  /\ state[e] = "absent"
  /\ state' = [state EXCEPT ![e] = "pending"]
  /\ \E now \in BOOLEAN : due' = [due EXCEPT ![e] = now]
  /\ UNCHANGED <<attempts, lease, expired, msgs, dVars, xVars, histVars>>

Arm(e) ==
  /\ rearms[e] < MaxRearms
  /\ state' = [state EXCEPT ![e] = "pending"]
  /\ attempts' = [attempts EXCEPT ![e] = 0]
  /\ lease' = [lease EXCEPT ![e] = NoOne]
  /\ expired' = [expired EXCEPT ![e] = FALSE]
  /\ due' = [due EXCEPT ![e] = TRUE]
  /\ begun' = [begun EXCEPT ![e] = 0]
  /\ defers' = [defers EXCEPT ![e] = 0]
  /\ rearms' = [rearms EXCEPT ![e] = @ + 1]
  /\ UNCHANGED <<msgs, dVars, xVars>>

(* An operator retries a dead event.                                        *)
retry_dead(e) == state[e] = "dead" /\ Arm(e)

(* The reconciler and the send worker re-arm chunk.ready and batch.ready    *)
(* events whose chunk or batch still has work to do.                        *)
enqueue_ready(e) ==
  /\ EventType[e] \in {"chunk.ready", "batch.ready"}
  /\ state[e] \in {"completed", "dead"}
  /\ Arm(e)

-----------------------------------------------------------------------------
(* The dispatcher.                                                          *)

(* The row's lease, if it has one, is over.                                 *)
LeaseOver(e) == state[e] \in Leasable /\ (lease[e] = NoOne \/ expired[e])

Exhausted(e) ==
  /\ attempts[e] >= MaxAttempts[e]
  /\ state[e] = "pending" \/ LeaseOver(e)

DueRowPendingOnly(e) == attempts[e] < MaxAttempts[e] /\ state[e] = "pending" /\ due[e]

DueRow(e) ==
  /\ attempts[e] < MaxAttempts[e]
  /\ \/ state[e] = "pending" /\ due[e]
     \/ state[e] \in Leasable /\ expired[e]

(* The transaction of lease_due: every exhausted row dies, then one due row *)
(* (limit=1) is leased; got is that row, or {} when there is none.          *)
LeaseRows(d, got) ==
  /\ state' = [e \in Events |->
       IF Exhausted(e) THEN "dead" ELSE IF e \in got THEN "leased" ELSE state[e]]
  /\ attempts' = [e \in Events |-> IF e \in got THEN attempts[e] + 1 ELSE attempts[e]]
  /\ lease' = [e \in Events |->
       IF Exhausted(e) THEN NoOne ELSE IF e \in got THEN d ELSE lease[e]]
  /\ expired' = [e \in Events |-> expired[e] /\ ~Exhausted(e) /\ e \notin got]
  /\ due' = [e \in Events |-> due[e] /\ e \notin got]

lease_due(d) ==
  /\ dPc[d] = "idle"
  /\ \/ \E e \in Events :
          /\ DueRow(e)
          /\ LeaseRows(d, {e})
          /\ dEv' = [dEv EXCEPT ![d] = e]
          /\ dPc' = [dPc EXCEPT ![d] = "leased"]
     \/ /\ \A e \in Events : ~DueRow(e)
        /\ \E e \in Events : Exhausted(e)
        /\ LeaseRows(d, {})
        /\ UNCHANGED dVars
  /\ UNCHANGED <<msgs, xVars, histVars>>

(* publisher.publish returns, or raises: a publish that raised may still    *)
(* have reached the broker.                                                 *)
publish(d) ==
  /\ dPc[d] = "leased"
  /\ \/ /\ dPc' = [dPc EXCEPT ![d] = "sent"]
        /\ msgs' = msgs \cup {dEv[d]}
     \/ /\ dPc' = [dPc EXCEPT ![d] = "unsent"]
        /\ msgs' \in {msgs, msgs \cup {dEv[d]}}
  /\ UNCHANGED <<rowVars, dEv, xVars, histVars>>

DispatcherIdle(d) ==
  /\ dEv' = [dEv EXCEPT ![d] = NoEvent]
  /\ dPc' = [dPc EXCEPT ![d] = "idle"]

HoldsPublishLeaseAlways(d) == TRUE

(* The CAS both marks share: state='leased' AND lease_id=:lease_id AND      *)
(* lease_expires_at>now().                                                  *)
HoldsPublishLease(d) ==
  LET e == dEv[d] IN state[e] = "leased" /\ lease[e] = d /\ ~expired[e]

(* A lost CAS changes nothing, whether the code tolerates it (the row is    *)
(* processing or completed) or raises OutboxLeaseLost.                      *)
mark_published(d) ==
  /\ dPc[d] = "sent"
  /\ state' = IF HoldsPublishLease(d)
                THEN [state EXCEPT ![dEv[d]] = "published"] ELSE state
  /\ DispatcherIdle(d)
  /\ UNCHANGED <<attempts, lease, expired, due, msgs, xVars, histVars>>

(* 'dead' once the attempts are used up, 'pending' before that.             *)
AfterFailure(e) == IF attempts[e] >= MaxAttempts[e] THEN "dead" ELSE "pending"

ReleaseRow(e, s) ==
  /\ state' = [state EXCEPT ![e] = s]
  /\ lease' = [lease EXCEPT ![e] = NoOne]
  /\ expired' = [expired EXCEPT ![e] = FALSE]

mark_publish_failed(d) ==
  /\ dPc[d] = "unsent"
  /\ IF HoldsPublishLease(d)
       THEN ReleaseRow(dEv[d], AfterFailure(dEv[d]))
       ELSE UNCHANGED <<state, lease, expired>>
  /\ DispatcherIdle(d)
  /\ UNCHANGED <<attempts, due, msgs, xVars, histVars>>

(* A dispatcher process dies, or its round is cancelled because the mark of *)
(* a sibling coroutine raised.                                              *)
DispatcherCrash(d) ==
  /\ dPc[d] # "idle"
  /\ DispatcherIdle(d)
  /\ UNCHANGED <<rowVars, msgs, xVars, histVars>>

-----------------------------------------------------------------------------
(* The broker (external): at-least-once, with losses.                       *)

(* Redis loses a message.                                                   *)
LoseMessage(e) ==
  /\ e \in msgs
  /\ msgs' = msgs \ {e}
  /\ UNCHANGED <<rowVars, dVars, xVars, histVars>>

-----------------------------------------------------------------------------
(* The executor.                                                            *)

(* A delivery whose row is not leased or published: run returns 0.          *)
ClaimNothing(w, e) ==
  /\ e \in msgs /\ xPc[w] = "idle"
  /\ state[e] \notin {"leased", "published"}
  /\ msgs' = msgs \ {e}
  /\ UNCHANGED <<rowVars, dVars, xVars, histVars>>

ClaimUnlessSettled(w, e) ==
  /\ e \in msgs /\ xPc[w] = "idle"
  /\ state[e] \in Leasable
  /\ msgs' \in {msgs, msgs \ {e}}
  /\ state' = [state EXCEPT ![e] = "processing"]
  /\ lease' = [lease EXCEPT ![e] = w]
  /\ expired' = [expired EXCEPT ![e] = FALSE]
  /\ xEv' = [xEv EXCEPT ![w] = e]
  /\ xPc' = [xPc EXCEPT ![w] = "running"]
  /\ begun' = [begun EXCEPT ![e] = @ + 1]
  /\ UNCHANGED <<attempts, due, dVars, xLost, overrun, defers, rearms>>

(* The claim looks at the state alone: any message of the event will do,    *)
(* whichever lease published it.  The message may be delivered again.       *)
claim_execution(w, e) ==
  /\ e \in msgs /\ xPc[w] = "idle"
  /\ state[e] \in {"leased", "published"}
  /\ msgs' \in {msgs, msgs \ {e}}
  /\ state' = [state EXCEPT ![e] = "processing"]
  /\ lease' = [lease EXCEPT ![e] = w]
  /\ expired' = [expired EXCEPT ![e] = FALSE]
  /\ xEv' = [xEv EXCEPT ![w] = e]
  /\ xPc' = [xPc EXCEPT ![w] = "running"]
  /\ begun' = [begun EXCEPT ![e] = @ + 1]
  /\ UNCHANGED <<attempts, due, dVars, xLost, overrun, defers, rearms>>

(* The CAS of every update an executor makes: state='processing' AND        *)
(* lease_id=:lease_id.                                                      *)
HoldsExecutionLease(w) ==
  LET e == xEv[w] IN state[e] = "processing" /\ lease[e] = w

(* The background task renews the lease, whether or not it had expired; it  *)
(* is stopped before complete, but only after a failure or a deferral.      *)
heartbeat(w) ==
  /\ xPc[w] \in {"running", "error", "deferred"} /\ ~xLost[w]
  /\ HoldsExecutionLease(w)
  /\ expired' = [expired EXCEPT ![xEv[w]] = FALSE]
  /\ UNCHANGED <<state, attempts, lease, due, msgs, dVars, xVars, histVars>>

(* The renewal found another owner, or could not reach the database.        *)
heartbeat_lost(w) ==
  /\ xPc[w] = "running" /\ ~xLost[w]
  /\ xLost' = [xLost EXCEPT ![w] = TRUE]
  /\ UNCHANGED <<rowVars, msgs, dVars, xEv, xPc, overrun, histVars>>

ExecutorIdle(w) ==
  /\ xEv' = [xEv EXCEPT ![w] = NoEvent]
  /\ xPc' = [xPc EXCEPT ![w] = "idle"]
  /\ xLost' = [xLost EXCEPT ![w] = FALSE]
  /\ overrun' = [overrun EXCEPT ![w] = FALSE]

(* The effect ends.  An executor that has lost its lease raises             *)
(* OutboxLeaseLost and writes nothing; a deferral of anything but a         *)
(* chunk.ready event is failed as InvalidDeferral.                          *)
EffectEnds(w, how) ==
  LET e == xEv[w] IN
  /\ xPc[w] = "running"
  /\ how = "deferred" => defers[e] < MaxDefers
  /\ IF xLost[w]
       THEN ExecutorIdle(w)
       ELSE /\ xPc' = [xPc EXCEPT ![w] =
                 IF how = "deferred" /\ EventType[e] # "chunk.ready" THEN "error" ELSE how]
            /\ UNCHANGED <<xEv, xLost, overrun>>
  /\ UNCHANGED <<rowVars, msgs, dVars, histVars>>

complete(w) ==
  /\ xPc[w] = "ok"
  /\ IF HoldsExecutionLease(w)
       THEN ReleaseRow(xEv[w], "completed")
       ELSE UNCHANGED <<state, lease, expired>>
  /\ ExecutorIdle(w)
  /\ UNCHANGED <<attempts, due, msgs, dVars, histVars>>

fail_execution(w) ==
  /\ xPc[w] = "error"
  /\ IF HoldsExecutionLease(w)
       THEN ReleaseRow(xEv[w], AfterFailure(xEv[w]))
       ELSE UNCHANGED <<state, lease, expired>>
  /\ ExecutorIdle(w)
  /\ UNCHANGED <<attempts, due, msgs, dVars, histVars>>

(* The calendar wait gives the attempt back.                                *)
defer_execution(w) ==
  LET e == xEv[w] IN
  /\ xPc[w] = "deferred"
  /\ IF HoldsExecutionLease(w) /\ ~expired[e]
       THEN /\ ReleaseRow(e, "pending")
            /\ attempts' = [attempts EXCEPT ![e] = IF @ > 0 THEN @ - 1 ELSE 0]
            /\ due' = [due EXCEPT ![e] = FALSE]
            /\ begun' = [begun EXCEPT ![e] = @ - 1]
            /\ defers' = [defers EXCEPT ![e] = @ + 1]
       ELSE UNCHANGED <<rowVars, begun, defers>>
  /\ ExecutorIdle(w)
  /\ UNCHANGED <<msgs, dVars, rearms>>

(* A consumer is killed or cancelled; with acks_late and                    *)
(* reject_on_worker_lost its message comes back, unless Redis lost it.      *)
ExecutorCrash(w) ==
  /\ xPc[w] # "idle"
  /\ msgs' \in {msgs, msgs \cup {xEv[w]}}
  /\ ExecutorIdle(w)
  /\ UNCHANGED <<rowVars, dVars, histVars>>

-----------------------------------------------------------------------------
(* Time.                                                                    *)

LeaseExpires(e) ==
  /\ lease[e] # NoOne /\ ~expired[e]
  /\ expired' = [expired EXCEPT ![e] = TRUE]
  /\ overrun' = [w \in Executors |-> overrun[w] \/ (lease[e] = w /\ xEv[w] = e)]
  /\ UNCHANGED <<state, attempts, lease, due, msgs, dVars, xEv, xPc, xLost, histVars>>

BackoffElapses(e) ==
  /\ state[e] = "pending" /\ ~due[e]
  /\ due' = [due EXCEPT ![e] = TRUE]
  /\ UNCHANGED <<state, attempts, lease, expired, msgs, dVars, xVars, histVars>>

-----------------------------------------------------------------------------
DispatcherStep(d) ==
  lease_due(d) \/ publish(d) \/ mark_published(d) \/ mark_publish_failed(d)

ExecutorStep(w) ==
  \/ \E e \in Events : ClaimNothing(w, e) \/ claim_execution(w, e)
  \/ \E how \in {"ok", "error", "deferred"} : EffectEnds(w, how)
  \/ complete(w) \/ fail_execution(w) \/ defer_execution(w)

RowStep(e) ==
  \/ enqueue_outbox(e) \/ retry_dead(e) \/ enqueue_ready(e)
  \/ LoseMessage(e) \/ LeaseExpires(e) \/ BackoffElapses(e)

Next ==
  \/ \E e \in Events : RowStep(e)
  \/ \E d \in Dispatchers : DispatcherStep(d) \/ DispatcherCrash(d)
  \/ \E w \in Executors :
       ExecutorStep(w) \/ heartbeat(w) \/ heartbeat_lost(w) \/ ExecutorCrash(w)

Spec == Init /\ [][Next]_vars

(* Dispatch rounds are scheduled every few seconds, Celery gives every      *)
(* consumer its turn and kills a task after task_time_limit, and clocks     *)
(* advance.  Nothing is assumed of crashes, losses, heartbeats or re-arms.  *)
Fairness ==
  /\ \A d \in Dispatchers : WF_vars(DispatcherStep(d))
  /\ \A w \in Executors : WF_vars(ExecutorStep(w))
  /\ \A e \in Events : WF_vars(LeaseExpires(e)) /\ WF_vars(BackoffElapses(e))

FairSpec == Spec /\ Fairness

-----------------------------------------------------------------------------
(* Properties.                                                              *)

(* Every variable keeps its type: the states of outbox_event, the holders a *)
(* lease can name, and the program points of the actors.                    *)
TypeOK ==
  /\ state \in [Events -> {"absent", "completed", "dead"} \cup Open]
  /\ attempts \in [Events -> Nat]
  /\ lease \in [Events -> Dispatchers \cup Executors \cup {NoOne}]
  /\ expired \in [Events -> BOOLEAN]
  /\ due \in [Events -> BOOLEAN]
  /\ msgs \subseteq Events
  /\ dEv \in [Dispatchers -> Events \cup {NoEvent}]
  /\ dPc \in [Dispatchers -> {"idle", "leased", "sent", "unsent"}]
  /\ xEv \in [Executors -> Events \cup {NoEvent}]
  /\ xPc \in [Executors -> {"idle", "running", "ok", "error", "deferred"}]
  /\ xLost \in [Executors -> BOOLEAN]
  /\ overrun \in [Executors -> BOOLEAN]
  /\ begun \in [Events -> Nat]
  /\ defers \in [Events -> Nat]
  /\ rearms \in [Events -> Nat]

(* However often the broker redelivers a message and however many leases    *)
(* are lost, the effect of an event is begun at most max_attempts times     *)
(* between two re-arms (deferrals give their attempt back), and never more  *)
(* often than lease_due handed the row out.                                 *)
ExecutionBudget ==
  \A e \in Events :
    /\ begun[e] <= attempts[e]
    /\ attempts[e] <= MaxAttempts[e]

(* A consumer that keeps its lease is alone and is waited for.  "Duplicate  *)
(* delivery executes only once": two consumers run the effect of the same    *)
(* event together only if the execution lease of one of them ran out while   *)
(* it was running, i.e. its heartbeats failed to renew it.  And an event is  *)
(* given up only when its attempts are used up, never while a consumer that  *)
(* has kept its lease is still running it.                                  *)
OverlapNeedsOverrun ==
  \A w1, w2 \in Executors :
    (w1 # w2 /\ xPc[w1] # "idle" /\ xEv[w1] = xEv[w2]) => overrun[w1] \/ overrun[w2]
DeadIsExhausted ==
  \A e \in Events : state[e] = "dead" =>
    /\ attempts[e] >= MaxAttempts[e]
    /\ \A w \in Executors : xPc[w] # "idle" /\ xEv[w] = e => overrun[w]
(* Both: what the leases of outbox_event protect a consumer from.           *)
LeaseProtects == OverlapNeedsOverrun /\ DeadIsExhausted

(* Who may hold a row: a dispatcher while it is leased or published, a      *)
(* consumer while it is processing, nobody otherwise; and a consumer that   *)
(* is running either still holds the row it claimed or has overrun.         *)
LeaseDiscipline ==
  /\ \A e \in Events :
       /\ state[e] \in {"leased", "published"} <=> lease[e] \in Dispatchers
       /\ state[e] = "processing" <=> lease[e] \in Executors
       /\ expired[e] => lease[e] # NoOne
  /\ \A d \in Dispatchers : dPc[d] = "idle" <=> dEv[d] = NoEvent
  /\ \A w \in Executors :
       /\ xPc[w] = "idle" <=> xEv[w] = NoEvent
       /\ xPc[w] # "idle" => lease[xEv[w]] = w \/ overrun[w]
       /\ \A e \in Events : xEv[w] = e /\ lease[e] = w /\ expired[e] => overrun[w]

(* What the states of a row say about its attempts and the claims made.     *)
AttemptsMatchState ==
  \A e \in Events :
    /\ begun[e] <= attempts[e] /\ attempts[e] <= MaxAttempts[e]
    /\ state[e] = "absent" => attempts[e] = 0
    /\ state[e] = "pending" => attempts[e] < MaxAttempts[e]
    /\ state[e] \in {"leased", "published"} => begun[e] < attempts[e]
    /\ state[e] = "processing" => begun[e] > 0
    /\ state[e] = "dead" => attempts[e] >= MaxAttempts[e]

(* The life of an event, as the code that enqueued it sees it.              *)
Life == [e \in Events |->
  CASE state[e] \in Open -> "open"
    [] state[e] = "completed" -> "done"
    [] OTHER -> state[e]]

(* The contract the rest of the system relies on; tries are the claims.     *)
Contract == INSTANCE OutboxContract WITH life <- Life, tries <- begun

(* The lease protocol implements the contract: no redelivery, stale owner   *)
(* or crash reopens a settled event or runs it beyond its budget.           *)
ImplementsContract == Contract!Spec

(* Every event that enters the outbox is eventually completed or dead.      *)
Settles ==
  \A e \in Events : state[e] \in Open ~> state[e] \in {"completed", "dead"}

=============================================================================
