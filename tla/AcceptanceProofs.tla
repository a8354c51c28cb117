-------------------------- MODULE AcceptanceProofs --------------------------
(***************************************************************************)
(* Proofs about what the transaction of an acceptance leaves behind: the   *)
(* event of the batch and the capacity it holds.                           *)
(*                                                                         *)
(* Outbox, for any set of events, dispatchers and consumers and any        *)
(* max_attempts: the type invariant, the safety properties, and that the   *)
(* lease protocol implements OutboxContract.                               *)
(*                                                                         *)
(* SendInflight, for any number of reservations and any limits: a live     *)
(* batch holds its reservation, the triggers refuse only stale writes, and *)
(* the balance grows only within the limit.                                *)
(***************************************************************************)
EXTENDS Outbox, SendInflight, TLAPS

----------------------------------------------------------------------------
(* The events *)

(* The inductive invariant: the types, who may hold a row, and what a row's *)
(* state says about its attempts.                                           *)
OutboxInv == TypeOK /\ LeaseDiscipline /\ AttemptsMatchState

(* The table starts empty and nobody holds anything.                        *)
LEMMA InitInv == Init => OutboxInv
BY ActorsAssumption, ContractAssumption
  DEF Init, OutboxInv, TypeOK, LeaseDiscipline, AttemptsMatchState, Open, Leasable

(* The rows lease_due hands out were due.                                   *)
LEMMA LeasedRows ==
  ASSUME NEW d \in Dispatchers, lease_due(d)
  PROVE \E got \in SUBSET Events : LeaseRows(d, got) /\ \A e \in got : DueRow(e)
<1>1. ASSUME NEW e \in Events, DueRow(e), LeaseRows(d, {e})
      PROVE \E got \in SUBSET Events : LeaseRows(d, got) /\ \A f \in got : DueRow(f)
  <2> WITNESS {e} \in SUBSET Events
  <2> QED BY Zenon, <1>1
<1>2. ASSUME LeaseRows(d, {})
      PROVE \E got \in SUBSET Events : LeaseRows(d, got) /\ \A f \in got : DueRow(f)
  <2> WITNESS {} \in SUBSET Events
  <2> QED BY Zenon, <1>2
<1> QED BY Zenon, <1>1, <1>2 DEF lease_due

(* Every step of a producer, the broker, a dispatcher, a consumer or the    *)
(* clock keeps the types.                                                   *)
LEMMA TypeInductive == OutboxInv /\ [Next]_vars => TypeOK'
<1> SUFFICES ASSUME OutboxInv, [Next]_vars PROVE TypeOK'
  OBVIOUS
<1> USE DEF Open, Leasable
<1>1. ASSUME NEW e \in Events, enqueue_outbox(e) PROVE TypeOK'
  BY Zenon, <1>1 DEF OutboxInv, TypeOK, enqueue_outbox, dVars, xVars, histVars
<1>2. ASSUME NEW e \in Events, retry_dead(e) PROVE TypeOK'
  BY <1>2 DEF OutboxInv, TypeOK, retry_dead, Arm, dVars, xVars
<1>3. ASSUME NEW e \in Events, enqueue_ready(e) PROVE TypeOK'
  BY <1>3 DEF OutboxInv, TypeOK, enqueue_ready, Arm, dVars, xVars
<1>4. ASSUME NEW e \in Events, LoseMessage(e) PROVE TypeOK'
  BY Zenon, <1>4 DEF OutboxInv, TypeOK, LoseMessage, rowVars, dVars, xVars, histVars
<1>5. ASSUME NEW e \in Events, LeaseExpires(e) PROVE TypeOK'
  BY Zenon, <1>5 DEF OutboxInv, TypeOK, LeaseExpires, dVars, histVars
<1>6. ASSUME NEW e \in Events, BackoffElapses(e) PROVE TypeOK'
  BY Zenon, <1>6 DEF OutboxInv, TypeOK, BackoffElapses, dVars, xVars, histVars
<1>7. ASSUME NEW d \in Dispatchers, lease_due(d) PROVE TypeOK'
  <2>1. /\ dEv' \in [Dispatchers -> Events \cup {NoEvent}]
        /\ dPc' \in [Dispatchers -> {"idle", "leased", "sent", "unsent"}]
    BY Zenon, <1>7 DEF lease_due, dVars, OutboxInv, TypeOK
  <2>2. PICK got \in SUBSET Events : LeaseRows(d, got)
    BY Zenon, <1>7, LeasedRows
  <2>3. state' \in [Events -> {"absent", "completed", "dead"} \cup Open]
    BY Zenon, <2>2 DEF LeaseRows, OutboxInv, TypeOK
  <2>4. attempts' \in [Events -> Nat]
    BY <2>2 DEF LeaseRows, OutboxInv, TypeOK
  <2>5. lease' \in [Events -> Dispatchers \cup Executors \cup {NoOne}]
    BY Zenon, <2>2 DEF LeaseRows, OutboxInv, TypeOK
  <2>6. expired' \in [Events -> BOOLEAN] /\ due' \in [Events -> BOOLEAN]
    BY Zenon, <2>2 DEF LeaseRows, OutboxInv, TypeOK
  <2> QED
    BY Zenon, <1>7, <2>1, <2>3, <2>4, <2>5, <2>6
      DEF lease_due, xVars, histVars, OutboxInv, TypeOK
<1>8. ASSUME NEW d \in Dispatchers, publish(d) PROVE TypeOK'
  BY <1>8 DEF OutboxInv, TypeOK, LeaseDiscipline, publish, rowVars, xVars,
    histVars
<1>9. ASSUME NEW d \in Dispatchers, mark_published(d) PROVE TypeOK'
  BY Zenon, <1>9 DEF OutboxInv, TypeOK, LeaseDiscipline, mark_published,
    HoldsPublishLease, DispatcherIdle, xVars, histVars
<1>10. ASSUME NEW d \in Dispatchers, mark_publish_failed(d) PROVE TypeOK'
  <2>1. CASE HoldsPublishLease(d)
    BY Zenon, <1>10, <2>1 DEF OutboxInv, TypeOK, mark_publish_failed, DispatcherIdle,
      ReleaseRow, AfterFailure, xVars, histVars
  <2>2. CASE ~HoldsPublishLease(d)
    BY Zenon, <1>10, <2>2 DEF OutboxInv, TypeOK, mark_publish_failed, DispatcherIdle,
      xVars, histVars
  <2> QED BY Zenon, <2>1, <2>2
<1>11. ASSUME NEW d \in Dispatchers, DispatcherCrash(d) PROVE TypeOK'
  BY Zenon, <1>11 DEF OutboxInv, TypeOK, DispatcherCrash, DispatcherIdle, rowVars,
    xVars, histVars
<1>12. ASSUME NEW w \in Executors, NEW e \in Events, ClaimNothing(w, e)
      PROVE TypeOK'
  BY Zenon, <1>12 DEF OutboxInv, TypeOK, ClaimNothing, rowVars, dVars, xVars, histVars
<1>13. ASSUME NEW w \in Executors, NEW e \in Events, claim_execution(w, e)
      PROVE TypeOK'
  BY <1>13 DEF OutboxInv, TypeOK, claim_execution, dVars
<1>14. ASSUME NEW w \in Executors, complete(w) PROVE TypeOK'
  <2>1. CASE HoldsExecutionLease(w)
    BY Zenon, <1>14, <2>1 DEF OutboxInv, TypeOK, complete, ExecutorIdle, ReleaseRow,
      dVars, histVars
  <2>2. CASE ~HoldsExecutionLease(w)
    BY Zenon, <1>14, <2>2 DEF OutboxInv, TypeOK, complete, ExecutorIdle, dVars, histVars
  <2> QED BY Zenon, <2>1, <2>2
<1>15. ASSUME NEW w \in Executors, fail_execution(w) PROVE TypeOK'
  <2>1. CASE HoldsExecutionLease(w)
    BY Zenon, <1>15, <2>1 DEF OutboxInv, TypeOK, fail_execution, ExecutorIdle, ReleaseRow,
      AfterFailure, dVars, histVars
  <2>2. CASE ~HoldsExecutionLease(w)
    BY Zenon, <1>15, <2>2
      DEF OutboxInv, TypeOK, fail_execution, ExecutorIdle, dVars, histVars
  <2> QED BY Zenon, <2>1, <2>2
<1>16. ASSUME NEW w \in Executors, defer_execution(w) PROVE TypeOK'
  <2>1. CASE HoldsExecutionLease(w) /\ ~expired[xEv[w]]
    <3>1. xEv[w] \in Events /\ begun[xEv[w]] - 1 \in Nat
      BY <1>16, <2>1 DEF OutboxInv, TypeOK, LeaseDiscipline, AttemptsMatchState,
        HoldsExecutionLease, defer_execution
    <3>2. /\ attempts' \in [Events -> Nat]
          /\ begun' \in [Events -> Nat]
          /\ defers' \in [Events -> Nat]
      BY <1>16, <2>1, <3>1 DEF OutboxInv, TypeOK, defer_execution
    <3>3. ReleaseRow(xEv[w], "pending") /\ due' = [due EXCEPT ![xEv[w]] = FALSE]
      BY Zenon, <1>16, <2>1 DEF defer_execution
    <3>4. /\ state' \in [Events -> {"absent", "completed", "dead"} \cup Open]
          /\ lease' \in [Events -> Dispatchers \cup Executors \cup {NoOne}]
          /\ expired' \in [Events -> BOOLEAN]
          /\ due' \in [Events -> BOOLEAN]
      BY Zenon, <3>1, <3>3 DEF OutboxInv, TypeOK, ReleaseRow
    <3> QED
      BY Zenon, <1>16, <3>2, <3>4
        DEF OutboxInv, TypeOK, defer_execution, ExecutorIdle, dVars
  <2>2. CASE ~(HoldsExecutionLease(w) /\ ~expired[xEv[w]])
    BY Zenon, <1>16, <2>2
      DEF OutboxInv, TypeOK, defer_execution, ExecutorIdle, rowVars, dVars
  <2> QED BY Zenon, <2>1, <2>2
<1>17. ASSUME NEW w \in Executors, heartbeat(w) PROVE TypeOK'
  BY Zenon, <1>17 DEF OutboxInv, TypeOK, LeaseDiscipline, heartbeat,
    HoldsExecutionLease, dVars, xVars, histVars
<1>18. ASSUME NEW w \in Executors, heartbeat_lost(w) PROVE TypeOK'
  BY Zenon, <1>18 DEF OutboxInv, TypeOK, heartbeat_lost, rowVars, dVars, histVars
<1>19. ASSUME NEW w \in Executors, ExecutorCrash(w) PROVE TypeOK'
  BY <1>19 DEF OutboxInv, TypeOK, LeaseDiscipline, ExecutorCrash, ExecutorIdle,
    rowVars, dVars, histVars
<1>20. ASSUME NEW w \in Executors, NEW how \in {"ok", "error", "deferred"}, EffectEnds(w, how)
      PROVE TypeOK'
  <2>1. CASE xLost[w]
    BY Zenon, <1>20, <2>1
      DEF OutboxInv, TypeOK, EffectEnds, ExecutorIdle, rowVars, dVars, histVars
  <2>2. CASE ~xLost[w]
    BY <1>20, <2>2 DEF OutboxInv, TypeOK, EffectEnds, rowVars, dVars, histVars
  <2> QED BY Zenon, <2>1, <2>2
<1>21. CASE UNCHANGED vars
  BY Zenon, <1>21 DEF OutboxInv, TypeOK, vars, rowVars, dVars, xVars, histVars
<1> QED
  BY Zenon, <1>1, <1>2, <1>3, <1>4, <1>5, <1>6, <1>7, <1>8, <1>9, <1>10, <1>11,
    <1>12, <1>13, <1>14, <1>15, <1>16, <1>17, <1>18, <1>19, <1>20, <1>21 DEF
    Next, RowStep, DispatcherStep, ExecutorStep

(* No step lets two parties hold a row, or a consumer run on unnoticed      *)
(* after its lease is over.                                                 *)
LEMMA LeaseInductive == OutboxInv /\ [Next]_vars => LeaseDiscipline'
<1> SUFFICES ASSUME OutboxInv, [Next]_vars PROVE LeaseDiscipline'
  OBVIOUS
<1> USE ActorsAssumption, ContractAssumption DEF Open, Leasable
<1>1. ASSUME NEW e \in Events, enqueue_outbox(e) PROVE LeaseDiscipline'
  BY <1>1 DEF OutboxInv, TypeOK, LeaseDiscipline, enqueue_outbox, dVars, xVars,
    histVars
<1>2. ASSUME NEW e \in Events, retry_dead(e) PROVE LeaseDiscipline'
  BY <1>2 DEF OutboxInv, TypeOK, LeaseDiscipline, retry_dead, Arm, dVars, xVars
<1>3. ASSUME NEW e \in Events, enqueue_ready(e) PROVE LeaseDiscipline'
  BY <1>3 DEF OutboxInv, TypeOK, LeaseDiscipline, enqueue_ready, Arm, dVars,
    xVars
<1>4. ASSUME NEW e \in Events, LoseMessage(e) PROVE LeaseDiscipline'
  BY Zenon, <1>4 DEF OutboxInv, TypeOK, LeaseDiscipline, LoseMessage, rowVars, dVars,
    xVars, histVars
<1>5. ASSUME NEW e \in Events, LeaseExpires(e) PROVE LeaseDiscipline'
  <2> USE <1>5 DEF OutboxInv, TypeOK, LeaseDiscipline, LeaseExpires, dVars, histVars
  <2>1. \A w \in Executors : overrun'[w] <=> overrun[w] \/ (lease[e] = w /\ xEv[w] = e)
    BY Zenon
  <2>2. ASSUME NEW w \in Executors
        PROVE xPc'[w] # "idle" => lease'[xEv'[w]] = w \/ overrun'[w]
    BY Zenon, <2>1
  <2>3. ASSUME NEW w \in Executors, NEW f \in Events,
               xEv'[w] = f, lease'[f] = w, expired'[f]
        PROVE overrun'[w]
    BY Zenon, <2>1, <2>3
  <2>4. ASSUME NEW f \in Events
        PROVE /\ state'[f] \in {"leased", "published"} <=> lease'[f] \in Dispatchers
              /\ state'[f] = "processing" <=> lease'[f] \in Executors
              /\ expired'[f] => lease'[f] # NoOne
    OBVIOUS
  <2>5. /\ \A d \in Dispatchers : dPc'[d] = "idle" <=> dEv'[d] = NoEvent
        /\ \A w \in Executors : xPc'[w] = "idle" <=> xEv'[w] = NoEvent
    OBVIOUS
  <2> QED BY Zenon, <2>2, <2>3, <2>4, <2>5
<1>6. ASSUME NEW e \in Events, BackoffElapses(e) PROVE LeaseDiscipline'
  BY Zenon, <1>6 DEF OutboxInv, TypeOK, LeaseDiscipline, BackoffElapses, dVars, xVars,
    histVars
<1>7. ASSUME NEW d \in Dispatchers, lease_due(d) PROVE LeaseDiscipline'
  <2>1. PICK got \in SUBSET Events : LeaseRows(d, got) /\ \A e \in got : DueRow(e)
    BY Zenon, <1>7, LeasedRows
  <2>2. ASSUME NEW e \in Events
        PROVE /\ state'[e] \in {"leased", "published"} <=> lease'[e] \in Dispatchers
              /\ state'[e] = "processing" <=> lease'[e] \in Executors
              /\ expired'[e] => lease'[e] # NoOne
    <3>1. CASE e \in got
      <4>1. ~Exhausted(e)
        BY <2>1, <3>1 DEF DueRow, Exhausted, OutboxInv, TypeOK
      <4> QED BY Zenon, <2>1, <3>1, <4>1 DEF LeaseRows
    <3>2. CASE Exhausted(e)
      BY Zenon, <2>1, <3>2 DEF LeaseRows
    <3>3. CASE e \notin got /\ ~Exhausted(e)
      BY Zenon, <2>1, <3>3 DEF LeaseRows, OutboxInv, LeaseDiscipline
    <3> QED BY Zenon, <3>1, <3>2, <3>3
  <2>3. \A f \in Dispatchers : dPc'[f] = "idle" <=> dEv'[f] = NoEvent
    <3>1. CASE UNCHANGED dVars
      BY Zenon, <3>1 DEF dVars, OutboxInv, LeaseDiscipline
    <3>2. ASSUME NEW e \in Events, dEv' = [dEv EXCEPT ![d] = e],
                 dPc' = [dPc EXCEPT ![d] = "leased"]
          PROVE \A f \in Dispatchers : dPc'[f] = "idle" <=> dEv'[f] = NoEvent
      BY <3>2 DEF OutboxInv, LeaseDiscipline, TypeOK
    <3> QED BY Zenon, <1>7, <3>1, <3>2 DEF lease_due
  <2>4. ASSUME NEW w \in Executors
        PROVE /\ xPc'[w] = "idle" <=> xEv'[w] = NoEvent
              /\ xPc'[w] # "idle" => lease'[xEv'[w]] = w \/ overrun'[w]
              /\ \A e \in Events :
                   xEv'[w] = e /\ lease'[e] = w /\ expired'[e] => overrun'[w]
    <3>1. \A e \in Events : lease[e] = w /\ (e \in got \/ Exhausted(e)) => expired[e]
      BY <2>1 DEF DueRow, Exhausted, LeaseOver, OutboxInv, TypeOK, LeaseDiscipline
    <3>2. UNCHANGED <<xEv, xPc, overrun>>
      BY Zenon, <1>7 DEF lease_due, xVars
    <3> QED
      BY <2>1, <3>1, <3>2 DEF LeaseRows, OutboxInv, TypeOK, LeaseDiscipline
  <2> QED BY Zenon, <2>2, <2>3, <2>4 DEF LeaseDiscipline
<1>8. ASSUME NEW d \in Dispatchers, publish(d) PROVE LeaseDiscipline'
  BY <1>8 DEF OutboxInv, TypeOK, LeaseDiscipline, publish, rowVars, xVars,
    histVars
<1>9. ASSUME NEW d \in Dispatchers, mark_published(d) PROVE LeaseDiscipline'
  BY <1>9 DEF OutboxInv, TypeOK, LeaseDiscipline, mark_published,
    HoldsPublishLease, DispatcherIdle, xVars, histVars
<1>10. ASSUME NEW d \in Dispatchers, mark_publish_failed(d)
      PROVE LeaseDiscipline'
  BY <1>10 DEF OutboxInv, TypeOK, LeaseDiscipline, mark_publish_failed,
    HoldsPublishLease, DispatcherIdle, ReleaseRow, AfterFailure, xVars,
    histVars
<1>11. ASSUME NEW d \in Dispatchers, DispatcherCrash(d) PROVE LeaseDiscipline'
  BY <1>11 DEF OutboxInv, TypeOK, LeaseDiscipline, DispatcherCrash,
    DispatcherIdle, rowVars, xVars, histVars
<1>12. ASSUME NEW w \in Executors, NEW e \in Events, ClaimNothing(w, e)
      PROVE LeaseDiscipline'
  BY Zenon, <1>12 DEF OutboxInv, TypeOK, LeaseDiscipline, ClaimNothing, rowVars, dVars,
    xVars, histVars
<1>13. ASSUME NEW w \in Executors, NEW e \in Events, claim_execution(w, e)
      PROVE LeaseDiscipline'
  BY <1>13 DEF OutboxInv, TypeOK, LeaseDiscipline, claim_execution, dVars
<1>14. ASSUME NEW w \in Executors, complete(w) PROVE LeaseDiscipline'
  BY <1>14 DEF OutboxInv, TypeOK, LeaseDiscipline, complete, HoldsExecutionLease,
    ExecutorIdle, ReleaseRow, dVars, histVars
<1>15. ASSUME NEW w \in Executors, fail_execution(w) PROVE LeaseDiscipline'
  BY <1>15 DEF OutboxInv, TypeOK, LeaseDiscipline, fail_execution,
    HoldsExecutionLease, ExecutorIdle, ReleaseRow, AfterFailure, dVars,
    histVars
<1>16. ASSUME NEW w \in Executors, defer_execution(w) PROVE LeaseDiscipline'
  BY <1>16 DEF OutboxInv, TypeOK, LeaseDiscipline, AttemptsMatchState,
    defer_execution, HoldsExecutionLease, ExecutorIdle, ReleaseRow, rowVars,
    dVars
<1>17. ASSUME NEW w \in Executors, heartbeat(w) PROVE LeaseDiscipline'
  BY <1>17 DEF OutboxInv, TypeOK, LeaseDiscipline, heartbeat,
    HoldsExecutionLease, dVars, xVars, histVars
<1>18. ASSUME NEW w \in Executors, heartbeat_lost(w) PROVE LeaseDiscipline'
  BY Zenon, <1>18 DEF OutboxInv, TypeOK, LeaseDiscipline, heartbeat_lost, rowVars,
    dVars, histVars
<1>19. ASSUME NEW w \in Executors, ExecutorCrash(w) PROVE LeaseDiscipline'
  BY <1>19 DEF OutboxInv, TypeOK, LeaseDiscipline, ExecutorCrash, ExecutorIdle,
    rowVars, dVars, histVars
<1>20. ASSUME NEW w \in Executors, NEW how \in {"ok", "error", "deferred"}, EffectEnds(w, how)
      PROVE LeaseDiscipline'
  BY <1>20 DEF OutboxInv, TypeOK, LeaseDiscipline, EffectEnds, ExecutorIdle,
    rowVars, dVars, histVars
<1>21. CASE UNCHANGED vars
  BY Zenon, <1>21 DEF OutboxInv, TypeOK, LeaseDiscipline, vars, rowVars, dVars, xVars,
    histVars
<1> QED
  BY Zenon, <1>1, <1>2, <1>3, <1>4, <1>5, <1>6, <1>7, <1>8, <1>9, <1>10, <1>11,
    <1>12, <1>13, <1>14, <1>15, <1>16, <1>17, <1>18, <1>19, <1>20, <1>21 DEF
    Next, RowStep, DispatcherStep, ExecutorStep

(* No step loses count of the attempts.                                     *)
LEMMA AttemptsInductive == OutboxInv /\ [Next]_vars => AttemptsMatchState'
<1> SUFFICES ASSUME OutboxInv, [Next]_vars PROVE AttemptsMatchState'
  OBVIOUS
<1> USE ContractAssumption DEF Open, Leasable
<1>1. ASSUME NEW e \in Events, enqueue_outbox(e) PROVE AttemptsMatchState'
  BY <1>1 DEF OutboxInv, TypeOK, LeaseDiscipline, AttemptsMatchState,
    enqueue_outbox, dVars, xVars, histVars
<1>2. ASSUME NEW e \in Events, retry_dead(e) PROVE AttemptsMatchState'
  BY <1>2 DEF OutboxInv, TypeOK, LeaseDiscipline, AttemptsMatchState, retry_dead,
    Arm, dVars, xVars
<1>3. ASSUME NEW e \in Events, enqueue_ready(e) PROVE AttemptsMatchState'
  BY <1>3 DEF OutboxInv, TypeOK, LeaseDiscipline, AttemptsMatchState,
    enqueue_ready, Arm, dVars, xVars
<1>4. ASSUME NEW e \in Events, LoseMessage(e) PROVE AttemptsMatchState'
  BY Zenon, <1>4 DEF OutboxInv, TypeOK, LeaseDiscipline, AttemptsMatchState,
    LoseMessage, rowVars, dVars, xVars, histVars
<1>5. ASSUME NEW e \in Events, LeaseExpires(e) PROVE AttemptsMatchState'
  BY Zenon, <1>5 DEF OutboxInv, TypeOK, LeaseDiscipline, AttemptsMatchState,
    LeaseExpires, dVars, histVars
<1>6. ASSUME NEW e \in Events, BackoffElapses(e) PROVE AttemptsMatchState'
  BY Zenon, <1>6 DEF OutboxInv, TypeOK, LeaseDiscipline, AttemptsMatchState,
    BackoffElapses, dVars, xVars, histVars
<1>7. ASSUME NEW d \in Dispatchers, lease_due(d) PROVE AttemptsMatchState'
  <2>1. PICK got \in SUBSET Events : LeaseRows(d, got) /\ \A e \in got : DueRow(e)
    BY Zenon, <1>7, LeasedRows
  <2>2. UNCHANGED begun
    BY Zenon, <1>7 DEF lease_due, histVars
  <2> QED
    BY <2>1, <2>2 DEF LeaseRows, DueRow, Exhausted, LeaseOver, OutboxInv, TypeOK,
      AttemptsMatchState
<1>8. ASSUME NEW d \in Dispatchers, publish(d) PROVE AttemptsMatchState'
  BY Zenon, <1>8 DEF OutboxInv, TypeOK, LeaseDiscipline, AttemptsMatchState, publish,
    rowVars, xVars, histVars
<1>9. ASSUME NEW d \in Dispatchers, mark_published(d) PROVE AttemptsMatchState'
  BY <1>9 DEF OutboxInv, TypeOK, LeaseDiscipline, AttemptsMatchState,
    mark_published, HoldsPublishLease, DispatcherIdle, xVars, histVars
<1>10. ASSUME NEW d \in Dispatchers, mark_publish_failed(d)
      PROVE AttemptsMatchState'
  BY <1>10 DEF OutboxInv, TypeOK, LeaseDiscipline, AttemptsMatchState,
    mark_publish_failed, HoldsPublishLease, DispatcherIdle, ReleaseRow,
    AfterFailure, xVars, histVars
<1>11. ASSUME NEW d \in Dispatchers, DispatcherCrash(d)
      PROVE AttemptsMatchState'
  BY Zenon, <1>11 DEF OutboxInv, TypeOK, LeaseDiscipline, AttemptsMatchState,
    DispatcherCrash, DispatcherIdle, rowVars, xVars, histVars
<1>12. ASSUME NEW w \in Executors, NEW e \in Events, ClaimNothing(w, e)
      PROVE AttemptsMatchState'
  BY Zenon, <1>12 DEF OutboxInv, TypeOK, LeaseDiscipline, AttemptsMatchState,
    ClaimNothing, rowVars, dVars, xVars, histVars
<1>13. ASSUME NEW w \in Executors, NEW e \in Events, claim_execution(w, e)
      PROVE AttemptsMatchState'
  BY <1>13 DEF OutboxInv, TypeOK, LeaseDiscipline, AttemptsMatchState,
    claim_execution, dVars
<1>14. ASSUME NEW w \in Executors, complete(w) PROVE AttemptsMatchState'
  BY <1>14 DEF OutboxInv, TypeOK, LeaseDiscipline, AttemptsMatchState, complete,
    HoldsExecutionLease, ExecutorIdle, ReleaseRow, dVars, histVars
<1>15. ASSUME NEW w \in Executors, fail_execution(w) PROVE AttemptsMatchState'
  BY <1>15 DEF OutboxInv, TypeOK, LeaseDiscipline, AttemptsMatchState,
    fail_execution, HoldsExecutionLease, ExecutorIdle, ReleaseRow,
    AfterFailure, dVars, histVars
<1>16. ASSUME NEW w \in Executors, defer_execution(w) PROVE AttemptsMatchState'
  BY <1>16 DEF OutboxInv, TypeOK, LeaseDiscipline, AttemptsMatchState,
    defer_execution, HoldsExecutionLease, ExecutorIdle, ReleaseRow, rowVars,
    dVars
<1>17. ASSUME NEW w \in Executors, heartbeat(w) PROVE AttemptsMatchState'
  BY Zenon, <1>17 DEF OutboxInv, TypeOK, LeaseDiscipline, AttemptsMatchState, heartbeat,
    HoldsExecutionLease, dVars, xVars, histVars
<1>18. ASSUME NEW w \in Executors, heartbeat_lost(w) PROVE AttemptsMatchState'
  BY Zenon, <1>18 DEF OutboxInv, TypeOK, LeaseDiscipline, AttemptsMatchState,
    heartbeat_lost, rowVars, dVars, histVars
<1>19. ASSUME NEW w \in Executors, ExecutorCrash(w) PROVE AttemptsMatchState'
  BY Zenon, <1>19 DEF OutboxInv, TypeOK, LeaseDiscipline, AttemptsMatchState,
    ExecutorCrash, ExecutorIdle, rowVars, dVars, histVars
<1>20. ASSUME NEW w \in Executors, NEW how \in {"ok", "error", "deferred"}, EffectEnds(w, how)
      PROVE AttemptsMatchState'
  BY Zenon, <1>20 DEF OutboxInv, TypeOK, LeaseDiscipline, AttemptsMatchState,
    EffectEnds, ExecutorIdle, rowVars, dVars, histVars
<1>21. CASE UNCHANGED vars
  BY Zenon, <1>21 DEF OutboxInv, TypeOK, LeaseDiscipline, AttemptsMatchState, vars,
    rowVars, dVars, xVars, histVars
<1> QED
  BY Zenon, <1>1, <1>2, <1>3, <1>4, <1>5, <1>6, <1>7, <1>8, <1>9, <1>10, <1>11,
    <1>12, <1>13, <1>14, <1>15, <1>16, <1>17, <1>18, <1>19, <1>20, <1>21 DEF
    Next, RowStep, DispatcherStep, ExecutorStep

(* The inductive invariant holds in every reachable state.                  *)
THEOREM OutboxInvariance == Spec => []OutboxInv
<1>1. OutboxInv /\ [Next]_vars => OutboxInv'
  BY Zenon, TypeInductive, LeaseInductive, AttemptsInductive DEF OutboxInv
<1> QED BY InitInv, <1>1, PTL DEF Spec

(* Every variable keeps its type.                                           *)
THEOREM TypeCorrect == Spec => []TypeOK
<1>1. OutboxInv => TypeOK BY Zenon DEF OutboxInv
<1> QED BY OutboxInvariance, <1>1, PTL

(* The effect of an event is begun at most max_attempts times between two   *)
(* re-arms, whatever the broker and the leases do.                          *)
THEOREM BudgetKept == Spec => []ExecutionBudget
<1>1. OutboxInv => ExecutionBudget BY Zenon DEF OutboxInv, AttemptsMatchState, ExecutionBudget
<1> QED BY OutboxInvariance, <1>1, PTL

(* Two consumers run one event together only after an overrun, and an event *)
(* dies only when its attempts are used up and no consumer runs it under a   *)
(* lease it kept.                                                           *)
THEOREM LeaseProtected == Spec => []LeaseProtects
<1>1. OutboxInv => OverlapNeedsOverrun
  BY DEF OutboxInv, TypeOK, LeaseDiscipline, OverlapNeedsOverrun
<1>2. OutboxInv => DeadIsExhausted
  BY ActorsAssumption
    DEF OutboxInv, TypeOK, LeaseDiscipline, AttemptsMatchState, DeadIsExhausted, Open,
      Leasable
<1> QED BY OutboxInvariance, <1>1, <1>2, PTL DEF LeaseProtects

(* The life of every event is always one of the contract's four.            *)
LEMMA LifeType ==
  ASSUME OutboxInv, [Next]_vars
  PROVE Life' \in [Events -> {"absent", "open", "done", "dead"}]
<1>1. TypeOK' BY Zenon, TypeInductive
<1> QED BY Zenon, <1>1 DEF TypeOK, Life, Open, Leasable

(* Every step of the lease protocol is a step of the contract or leaves the *)
(* lives and the tries alone.                                               *)
LEMMA StepRefines == OutboxInv /\ [Next]_vars => [Contract!Next]_(Contract!vars)
<1> SUFFICES ASSUME OutboxInv, [Next]_vars PROVE [Contract!Next]_(Contract!vars)
  OBVIOUS
<1>1. ASSUME NEW e \in Events, enqueue_outbox(e) PROVE Contract!Arm(e)
  <2>1. begun[e] = 0
    BY <1>1 DEF OutboxInv, TypeOK, AttemptsMatchState, enqueue_outbox
  <2>2. begun' = [begun EXCEPT ![e] = 0]
    BY Zenon, <1>1, <2>1 DEF OutboxInv, TypeOK, enqueue_outbox, histVars
  <2> QED
    BY Zenon, <1>1, <2>2
      DEF OutboxInv, TypeOK, enqueue_outbox, Life, Open, Leasable, Contract!Arm
<1>2. ASSUME NEW e \in Events, retry_dead(e) PROVE Contract!Arm(e)
  BY Zenon, <1>2 DEF OutboxInv, TypeOK, retry_dead, Arm, Life, Open, Leasable, Contract!Arm
<1>3. ASSUME NEW e \in Events, enqueue_ready(e) PROVE Contract!Arm(e)
  BY Zenon, <1>3
    DEF OutboxInv, TypeOK, enqueue_ready, Arm, Life, Open, Leasable, Contract!Arm
<1>4. ASSUME NEW e \in Events, LoseMessage(e) PROVE UNCHANGED Contract!vars
  BY <1>4 DEF LoseMessage, rowVars, histVars, Life, Contract!vars
<1>5. ASSUME NEW e \in Events, LeaseExpires(e) PROVE UNCHANGED Contract!vars
  BY <1>5 DEF LeaseExpires, histVars, Life, Contract!vars
<1>6. ASSUME NEW e \in Events, BackoffElapses(e) PROVE UNCHANGED Contract!vars
  BY <1>6 DEF BackoffElapses, histVars, Life, Contract!vars
<1>7. ASSUME NEW d \in Dispatchers, lease_due(d) PROVE Contract!GiveUp
  <2>1. PICK got \in SUBSET Events : LeaseRows(d, got) /\ \A e \in got : DueRow(e)
    BY Zenon, <1>7, LeasedRows
  <2>2. UNCHANGED begun
    BY Zenon, <1>7 DEF lease_due, histVars
  <2>3. \A e \in Events : Life'[e] # Life[e] => Life[e] = "open" /\ Life'[e] = "dead"
    BY Zenon, <2>1
      DEF LeaseRows, DueRow, Exhausted, LeaseOver, Life, Open, Leasable, OutboxInv, TypeOK
  <2> QED BY Zenon, <2>2, <2>3, LifeType DEF Contract!GiveUp
<1>8. ASSUME NEW d \in Dispatchers, publish(d) PROVE UNCHANGED Contract!vars
  BY <1>8 DEF publish, rowVars, histVars, Life, Contract!vars
<1>9. ASSUME NEW d \in Dispatchers, mark_published(d)
      PROVE UNCHANGED Contract!vars
  <2>1. \A e \in Events : Life'[e] = Life[e]
    BY Zenon, <1>9
      DEF mark_published, HoldsPublishLease, Life, Open, Leasable, OutboxInv, TypeOK
  <2> QED BY Zenon, <1>9, <2>1 DEF mark_published, histVars, Life, Contract!vars
<1>10. ASSUME NEW d \in Dispatchers, mark_publish_failed(d)
      PROVE Contract!GiveUp
  <2>1. \A e \in Events : Life'[e] # Life[e] => Life[e] = "open" /\ Life'[e] = "dead"
    BY <1>10 DEF mark_publish_failed, HoldsPublishLease, ReleaseRow, AfterFailure, Life,
      Open, Leasable, OutboxInv, TypeOK
  <2> QED BY Zenon, <1>10, <2>1, LifeType DEF mark_publish_failed, histVars, Contract!GiveUp
<1>11. ASSUME NEW d \in Dispatchers, DispatcherCrash(d)
      PROVE UNCHANGED Contract!vars
  BY <1>11 DEF DispatcherCrash, rowVars, histVars, Life, Contract!vars
<1>12. ASSUME NEW w \in Executors, NEW e \in Events, ClaimNothing(w, e)
      PROVE UNCHANGED Contract!vars
  BY <1>12 DEF ClaimNothing, rowVars, histVars, Life, Contract!vars
<1>13. ASSUME NEW w \in Executors, NEW e \in Events, claim_execution(w, e)
      PROVE Contract!Begin(e)
  <2>1. Life' = Life
    BY Zenon, <1>13 DEF claim_execution, Life, Open, Leasable, OutboxInv, TypeOK
  <2>2. begun[e] < MaxAttempts[e]
    <3>1. state[e] \in {"leased", "published"}
      BY Zenon, <1>13 DEF claim_execution
    <3>2. begun[e] < attempts[e] /\ attempts[e] <= MaxAttempts[e]
      BY Zenon, <3>1 DEF OutboxInv, AttemptsMatchState
    <3>3. begun[e] \in Nat /\ attempts[e] \in Nat /\ MaxAttempts[e] \in Nat
      BY Zenon, ContractAssumption DEF OutboxInv, TypeOK
    <3> QED BY <3>2, <3>3
  <2>3. Life[e] = "open"
    BY Zenon, <1>13 DEF claim_execution, Life, Open, Leasable
  <2> QED BY Zenon, <1>13, <2>1, <2>2, <2>3 DEF claim_execution, Contract!Begin
<1>14. ASSUME NEW w \in Executors, complete(w)
      PROVE Contract!Finish(xEv[w]) \/ UNCHANGED Contract!vars
  <2>1. CASE HoldsExecutionLease(w)
    BY <1>14, <2>1 DEF complete, HoldsExecutionLease, ReleaseRow, histVars, Life, Open,
      Leasable, OutboxInv, TypeOK, AttemptsMatchState, LeaseDiscipline, Contract!Finish
  <2>2. CASE ~HoldsExecutionLease(w)
    BY <1>14, <2>2 DEF complete, histVars, Life, Contract!vars
  <2> QED BY Zenon, <2>1, <2>2
<1>15. ASSUME NEW w \in Executors, fail_execution(w) PROVE Contract!GiveUp
  <2>1. \A e \in Events : Life'[e] # Life[e] => Life[e] = "open" /\ Life'[e] = "dead"
    BY <1>15 DEF fail_execution, HoldsExecutionLease, ReleaseRow, AfterFailure, Life,
      Open, Leasable, OutboxInv, TypeOK
  <2> QED BY Zenon, <1>15, <2>1, LifeType DEF fail_execution, histVars, Contract!GiveUp
<1>16. ASSUME NEW w \in Executors, defer_execution(w)
      PROVE Contract!GiveBack(xEv[w]) \/ UNCHANGED Contract!vars
  <2>1. CASE HoldsExecutionLease(w) /\ ~expired[xEv[w]]
    <3>1. \A e \in Events : Life'[e] = Life[e]
      BY <1>16, <2>1 DEF defer_execution, HoldsExecutionLease, ReleaseRow, Life, Open,
        Leasable, OutboxInv, TypeOK
    <3> QED
      BY <1>16, <2>1, <3>1 DEF defer_execution, HoldsExecutionLease, Life, Open, Leasable,
        OutboxInv, TypeOK, AttemptsMatchState, LeaseDiscipline, Contract!GiveBack
  <2>2. CASE ~(HoldsExecutionLease(w) /\ ~expired[xEv[w]])
    BY <1>16, <2>2 DEF defer_execution, rowVars, Life, Contract!vars
  <2> QED BY Zenon, <2>1, <2>2
<1>17. ASSUME NEW w \in Executors, heartbeat(w) PROVE UNCHANGED Contract!vars
  BY <1>17 DEF heartbeat, histVars, Life, Contract!vars
<1>18. ASSUME NEW w \in Executors, heartbeat_lost(w)
      PROVE UNCHANGED Contract!vars
  BY <1>18 DEF heartbeat_lost, rowVars, histVars, Life, Contract!vars
<1>19. ASSUME NEW w \in Executors, ExecutorCrash(w)
      PROVE UNCHANGED Contract!vars
  BY <1>19 DEF ExecutorCrash, rowVars, histVars, Life, Contract!vars
<1>20. ASSUME NEW w \in Executors, NEW how \in {"ok", "error", "deferred"}, EffectEnds(w, how)
      PROVE UNCHANGED Contract!vars
  BY <1>20 DEF EffectEnds, rowVars, histVars, Life, Contract!vars
<1>21. CASE UNCHANGED vars
  BY <1>21 DEF vars, rowVars, histVars, Life, Contract!vars
<1>22. ASSUME NEW w \in Executors, complete(w) \/ defer_execution(w)
      PROVE Contract!Next \/ UNCHANGED Contract!vars
  <2>1. xEv[w] \in Events
    BY <1>22 DEF complete, defer_execution, OutboxInv, TypeOK, LeaseDiscipline
  <2> QED BY Zenon, <1>22, <1>14, <1>16, <2>1 DEF Contract!Next
<1> QED
  BY Zenon, <1>1, <1>2, <1>3, <1>4, <1>5, <1>6, <1>7, <1>8, <1>9, <1>10, <1>11,
    <1>12, <1>13, <1>14, <1>15, <1>16, <1>17, <1>18, <1>19, <1>20, <1>21,
    <1>22 DEF Next, RowStep, DispatcherStep, ExecutorStep, Contract!Next

(* The lease protocol, with its broker faults, expiries and crashes,        *)
(* implements the contract: no redelivery or stale owner reopens a settled  *)
(* event, finishes one that was never tried, or tries one too often.        *)
THEOREM Refinement == Spec => ImplementsContract
<1>1. Init => Contract!Init
  BY Zenon DEF Init, Contract!Init, Life, Open, Leasable
<1> QED
  BY <1>1, StepRefines, OutboxInvariance, PTL DEF Spec, ImplementsContract, Contract!Spec

----------------------------------------------------------------------------
(* The capacity in flight *)

\* Facts about finite sets, which only the proofs below need.
INSTANCE FiniteSetTheorems

\* Where acceptor, batch, reservation and worker of one acceptance stand to each
\* other.  A worker that prepares the chunks knows the reservation as it is.
FlowOf(r) ==
  /\ acc[r] = "idle" => res[r].state = "none"
  /\ batch[r] = "queued" <=> res[r].state = "batch_bound"
  /\ batch[r] = "sending" <=> res[r].state = "materialized"
  /\ batch[r] = "terminal" => res[r].state = "released"
  /\ res[r].state \in {"none", "reserved", "batch_bound"} => occ[r] = 0
  /\ batch[r] = "none" => peek[r] = 0
  /\ batch[r] = "queued" /\ peek[r] # 0 => peek[r] = res[r].chunks
  /\ batch[r] = "sending" => peek[r] < MaxChunks

Flow == \A r \in R : FlowOf(r)

\* The inductive invariant: what the triggers ask always holds, and no round
\* finds an ended batch that still holds its reservation.
InflightInv ==
  /\ InflightTypeOK
  /\ Admitted(balance, res, occ)
  /\ Flow
  /\ snap.terminals = {}
  /\ OnlyStaleWritesRefused

----------------------------------------------------------------------------
(* Sums *)

Reservations == [R -> Reservation]

\* What one reservation adds to the balance.
Weight(row) == IF row.state \in Active THEN row.chunks ELSE 0

\* The units of any reservations are finitely many, so they can be counted.
LEMMA UnitsFinite ==
  ASSUME NEW rs \in Reservations, NEW S \in SUBSET R
  PROVE  /\ Units(rs, S) \in SUBSET (R \X (1..MaxChunks))
         /\ IsFiniteSet(Units(rs, S))
         /\ Chunks(rs, S) \in 0..(Cardinality(R) * MaxChunks)
<1>1. \A r \in R : rs[r].chunks \in 0..MaxChunks
  BY Zenon DEF Reservations, Reservation
<1>2. MaxChunks \in Nat /\ IsFiniteSet(R)
  BY Zenon, SendInflightAssumption
<1>3. Units(rs, S) \in SUBSET (R \X (1..MaxChunks))
  <2> SUFFICES ASSUME NEW r \in S, NEW u \in {r} \X (1..rs[r].chunks)
               PROVE  u \in R \X (1..MaxChunks)
    BY Zenon DEF Units
  <2>1. rs[r].chunks \in 0..MaxChunks
    BY Zenon, <1>1
  <2> QED
    BY <1>2, <2>1
<1>4. IsFiniteSet(1..MaxChunks) /\ Cardinality(1..MaxChunks) = MaxChunks
  BY <1>2, FS_Interval
<1>5. /\ IsFiniteSet(R \X (1..MaxChunks))
      /\ Cardinality(R \X (1..MaxChunks)) = Cardinality(R) * MaxChunks
  BY Zenon, <1>2, <1>4, FS_Product
<1>6. IsFiniteSet(Units(rs, S)) /\ Cardinality(Units(rs, S)) <= Cardinality(R) * MaxChunks
  BY <1>3, <1>5, FS_Subset
<1>7. Cardinality(Units(rs, S)) \in Nat /\ Cardinality(R) \in Nat
  BY Zenon, <1>2, <1>6, FS_CardinalityType
<1>8. Cardinality(R) * MaxChunks \in Nat
  BY <1>2, <1>7
<1> QED
  BY <1>3, <1>6, <1>7, <1>8 DEF Chunks

\* The sum over one reservation, if it is active.
LEMMA UnitsOfOne ==
  ASSUME NEW r, NEW n \in Nat
  PROVE  IsFiniteSet({r} \X (1..n)) /\ Cardinality({r} \X (1..n)) = n
<1>1. IsFiniteSet({r}) /\ Cardinality({r}) = 1
  BY Zenon, FS_Singleton
<1>2. IsFiniteSet(1..n) /\ Cardinality(1..n) = n
  BY FS_Interval
<1>3. /\ IsFiniteSet({r} \X (1..n))
      /\ Cardinality({r} \X (1..n)) = Cardinality({r}) * Cardinality(1..n)
  BY Zenon, <1>1, <1>2, FS_Product
<1> QED
  BY <1>1, <1>2, <1>3

\* The sum splits into the others and one.
LEMMA SumSplits ==
  ASSUME NEW rs \in Reservations, NEW r \in R
  PROVE  ActiveSum(rs) = Chunks(rs, Live(rs) \ {r}) + Weight(rs[r])
<1> DEFINE O == Units(rs, Live(rs) \ {r})
           P == {r} \X (1..Weight(rs[r]))
<1>1. rs[r].chunks \in Nat /\ Weight(rs[r]) \in Nat
  BY DEF Reservations, Reservation, Weight
<1>2. IsFiniteSet(P) /\ Cardinality(P) = Weight(rs[r])
  BY Zenon, <1>1, UnitsOfOne
<1>3. Live(rs) \in SUBSET R /\ Live(rs) \ {r} \in SUBSET R
  BY Zenon DEF Live
<1>4. IsFiniteSet(O) /\ Cardinality(O) = Chunks(rs, Live(rs) \ {r}) /\ Cardinality(O) \in Nat
  BY Zenon, <1>3, UnitsFinite, FS_CardinalityType DEF Chunks
<1>5. Units(rs, Live(rs)) = O \cup P
  <2>1. CASE r \in Live(rs)
    <3>1. Weight(rs[r]) = rs[r].chunks
      BY Zenon, <2>1 DEF Live, Weight
    <3> QED
      BY Zenon, <2>1, <3>1 DEF Units
  <2>2. CASE r \notin Live(rs)
    <3>1. Weight(rs[r]) = 0
      BY Zenon, <2>2 DEF Live, Weight
    <3>2. P = {}
      BY <3>1
    <3>3. Live(rs) \ {r} = Live(rs)
      BY Zenon, <2>2
    <3> QED
      BY Zenon, <3>2, <3>3
  <2> QED
    BY Zenon, <2>1, <2>2
<1>6. O \cap P = {}
  BY DEF Units
<1> HIDE DEF O, P
<1>7. Cardinality(O \cup P) = Cardinality(O) + Cardinality(P)
  <2>1. Cardinality(O \cup P) = Cardinality(O) + Cardinality(P) - Cardinality(O \cap P)
    BY Zenon, <1>2, <1>4, FS_Union
  <2>2. Cardinality(O \cap P) = 0
    BY Zenon, <1>6, FS_EmptySet
  <2> QED
    BY <1>1, <1>2, <1>4, <2>1, <2>2
<1> QED
  BY Zenon, <1>2, <1>4, <1>5, <1>7 DEF ActiveSum, Chunks

\* Writing one row changes the sum by the difference of its weights.
LEMMA SumChanges ==
  ASSUME NEW rs \in Reservations, NEW ns \in Reservations, NEW r \in R,
         \A q \in R : q # r => ns[q] = rs[q]
  PROVE  /\ ActiveSum(ns) = ActiveSum(rs) - Weight(rs[r]) + Weight(ns[r])
         /\ ActiveSum(ns) \in 0..(Cardinality(R) * MaxChunks)
<1>1. Live(rs) \ {r} = Live(ns) \ {r}
  BY Zenon DEF Live
<1>2. Units(rs, Live(rs) \ {r}) = Units(ns, Live(ns) \ {r})
  <2>1. \A q \in Live(rs) \ {r} : ns[q] = rs[q]
    BY Zenon DEF Live
  <2> QED
    BY Zenon, <1>1, <2>1 DEF Units
<1>3. Chunks(rs, Live(rs) \ {r}) = Chunks(ns, Live(ns) \ {r})
  BY Zenon, <1>2 DEF Chunks
<1>4. /\ ActiveSum(rs) = Chunks(rs, Live(rs) \ {r}) + Weight(rs[r])
      /\ ActiveSum(ns) = Chunks(ns, Live(ns) \ {r}) + Weight(ns[r])
  BY Zenon, SumSplits
<1>5. Live(rs) \ {r} \in SUBSET R /\ Live(ns) \in SUBSET R
  BY Zenon DEF Live
<1>6. /\ Chunks(rs, Live(rs) \ {r}) \in 0..(Cardinality(R) * MaxChunks)
      /\ ActiveSum(ns) \in 0..(Cardinality(R) * MaxChunks)
  BY Zenon, <1>5, UnitsFinite DEF ActiveSum
<1>7. Weight(rs[r]) \in Nat /\ Weight(ns[r]) \in Nat
  BY DEF Reservations, Reservation, Weight
<1> QED
  BY <1>3, <1>4, <1>6, <1>7

\* A round that releases rows, or lowers them, does not raise the sum.
LEMMA SumFalls ==
  ASSUME NEW rs \in Reservations, NEW ns \in Reservations,
         \A r \in R : ns[r].state \in Active
                        => rs[r].state \in Active /\ ns[r].chunks <= rs[r].chunks
  PROVE  /\ ActiveSum(ns) <= ActiveSum(rs)
         /\ ActiveSum(ns) \in 0..(Cardinality(R) * MaxChunks)
<1>1. Live(rs) \in SUBSET R /\ Live(ns) \in SUBSET R
  BY Zenon DEF Live
<1>2. Units(ns, Live(ns)) \in SUBSET Units(rs, Live(rs))
  <2> SUFFICES ASSUME NEW r \in Live(ns), NEW u \in {r} \X (1..ns[r].chunks)
               PROVE  r \in Live(rs) /\ u \in {r} \X (1..rs[r].chunks)
    BY DEF Units
  <2>1. r \in R /\ ns[r].state \in Active
    BY Zenon DEF Live
  <2>2. ns[r].chunks \in Nat /\ rs[r].chunks \in Nat /\ ns[r].chunks <= rs[r].chunks
    BY <2>1 DEF Reservations, Reservation
  <2> QED
    BY <2>1, <2>2 DEF Live
<1>3. IsFiniteSet(Units(rs, Live(rs)))
  BY Zenon, <1>1, UnitsFinite
<1>4. Cardinality(Units(ns, Live(ns))) <= Cardinality(Units(rs, Live(rs)))
  BY Zenon, <1>2, <1>3, FS_Subset
<1> QED
  BY Zenon, <1>1, <1>4, UnitsFinite DEF ActiveSum, Chunks
----------------------------------------------------------------------------
(* Steps of one acceptance *)

\* What every step has to do.
InflightGood == InflightInv' /\ (balance' > balance => balance' <= limit)

\* A transaction that writes the balance by the difference of the row it writes is
\* admitted, if its chunks fit.
LEMMA OneAdmitted ==
  ASSUME InflightInv, NEW r \in R, NEW rs \in Reservations, NEW oc, NEW bal,
         \A q \in R : q # r => rs[q] = res[q] /\ oc[q] = occ[q],
         rs[r].state \in Active => oc[r] <= rs[r].chunks,
         bal = balance - Weight(res[r]) + Weight(rs[r])
  PROVE  Admitted(bal, rs, oc)
<1>1. res \in Reservations /\ balance = ActiveSum(res)
  BY Zenon DEF InflightInv, InflightTypeOK, Reservations, Admitted
<1>2. ActiveSum(rs) = bal
  BY Zenon, <1>1, SumChanges
<1>3. \A q \in R : rs[q].state \in Active => oc[q] <= rs[q].chunks
  BY Zenon DEF InflightInv, Admitted
<1> QED
  BY Zenon, <1>2, <1>3 DEF Admitted

Others(r) ==
  \A q \in R : q # r => /\ res'[q] = res[q] /\ batch'[q] = batch[q] /\ occ'[q] = occ[q]
                        /\ acc'[q] = acc[q] /\ peek'[q] = peek[q]

\* The types that steps of one acceptance disturb.
Typed ==
  /\ res \in Reservations
  /\ batch \in [R -> {"none", "queued", "sending", "terminal"}]
  /\ occ \in [R -> 0..MaxChunks]
  /\ acc \in [R -> {"idle", "held", "unsure", "release", "accepted", "gone"}]
  /\ peek \in [R -> 0..MaxChunks]

\* A step of one acceptance: the flow of the others stays, and the invariant
\* follows from the step's own row.
LEMMA OneStep ==
  ASSUME InflightInv, NEW r \in R, Others(r), Typed', FlowOf(r)', Admitted(balance, res, occ)',
         UNCHANGED <<limit, snap>>, refused' \subseteq {"split", "reconcile"}
  PROVE  InflightInv'
<1>1. Flow'
  <2>1. ASSUME NEW q \in R, q # r PROVE FlowOf(q)'
    BY <2>1 DEF InflightInv, Flow, FlowOf, Others
  <2> QED
    BY Zenon, <2>1 DEF Flow
<1>2. Live(res') \in SUBSET R
  BY Zenon DEF Live
<1>3. balance' \in 0..(Cardinality(R) * MaxChunks)
  BY Zenon, <1>2, UnitsFinite DEF Admitted, ActiveSum, Typed
<1>4. InflightTypeOK'
  BY Zenon, <1>3 DEF InflightInv, InflightTypeOK, Typed, Reservations
<1>5. snap'.terminals = {} /\ OnlyStaleWritesRefused'
  BY Zenon DEF InflightInv, OnlyStaleWritesRefused
<1> QED
  BY Zenon, <1>1, <1>4, <1>5 DEF InflightInv

\* The largest balance is a number: every acceptance with all its chunks.
LEMMA NatProduct == ASSUME NEW m \in Nat, NEW n \in Nat PROVE m * n \in Nat
  OBVIOUS

\* A step that leaves the balance alone lets nothing grow.
LEMMA StaysGood == ASSUME balance \in Nat, UNCHANGED balance, InflightInv' PROVE InflightGood
  BY DEF InflightGood

\* What the invariant says about one acceptance, for the lemmas below.
LEMMA TypesOf ==
  ASSUME InflightInv
  PROVE  /\ Typed /\ refused \subseteq {"split", "reconcile"} /\ balance \in Nat
         /\ limit \in Nat
         /\ \A r \in R : /\ FlowOf(r)
                         /\ res[r] \in Reservation
                         /\ res[r].chunks \in 0..MaxChunks
                         /\ occ[r] \in 0..MaxChunks /\ peek[r] \in 0..MaxChunks
                         /\ res[r].state \in Active => occ[r] <= res[r].chunks
         /\ MaxChunks \in Nat /\ MaxEstimate \in Nat \ {0} /\ MaxEstimate <= MaxChunks
<1>1. MaxChunks \in Nat /\ MaxEstimate \in Nat \ {0} /\ MaxEstimate <= MaxChunks
  BY Zenon, SendInflightAssumption
<1>2. limit \in Nat
  BY Zenon, SendInflightAssumption DEF InflightInv, InflightTypeOK
<1>3. Cardinality(R) \in Nat
  BY Zenon, SendInflightAssumption, FS_CardinalityType
<1>4. balance \in Nat
  BY <1>1, <1>3 DEF InflightInv, InflightTypeOK
<1>5. Typed /\ refused \subseteq {"split", "reconcile"}
  BY Zenon DEF InflightInv, InflightTypeOK, Typed, Reservations, OnlyStaleWritesRefused
<1>6. ASSUME NEW r \in R
      PROVE  /\ FlowOf(r) /\ res[r] \in Reservation /\ res[r].chunks \in 0..MaxChunks
             /\ occ[r] \in 0..MaxChunks /\ peek[r] \in 0..MaxChunks
             /\ res[r].state \in Active => occ[r] <= res[r].chunks
  BY Zenon, <1>5 DEF InflightInv, Typed, Reservations, Reservation, Flow, Admitted
<1> QED
  BY Zenon, <1>1, <1>2, <1>4, <1>5, <1>6

States == {"none", "reserved", "batch_bound", "materialized", "released"}

\* ns is rs with the row of r in state st and with n chunks.
Written(ns, rs, r, st, n) ==
  /\ ns \in Reservations
  /\ ns[r].state = st /\ ns[r].chunks = n
  /\ \A q \in R : q # r => ns[q] = rs[q]

\* The forms in which the operations write one row.
LEMMA RowWritten ==
  ASSUME NEW r \in R, res \in Reservations, NEW st \in States, NEW n \in 0..MaxChunks
  PROVE  /\ Written([res EXCEPT ![r].state = st, ![r].chunks = n], res, r, st, n)
         /\ Written([res EXCEPT ![r].state = st], res, r, st, res[r].chunks)
         /\ Written([res EXCEPT ![r].chunks = n], res, r, res[r].state, n)
         /\ Written(Released(res, {r}), res, r, "released", res[r].chunks)
<1>1. res[r] \in Reservation
  BY Zenon DEF Reservations
<1>2. ASSUME NEW ns, NEW row \in Reservation, ns = [res EXCEPT ![r] = row]
      PROVE  ns \in Reservations /\ ns[r] = row /\ \A q \in R : q # r => ns[q] = res[q]
  BY Zenon, <1>2 DEF Reservations
<1>3. Written([res EXCEPT ![r].state = st, ![r].chunks = n], res, r, st, n)
  <2> DEFINE row == [res[r] EXCEPT !.state = st, !.chunks = n]
  <2>1. row \in Reservation /\ row.state = st /\ row.chunks = n
    BY Zenon, <1>1 DEF Reservation, States
  <2>2. [res EXCEPT ![r].state = st, ![r].chunks = n] = [res EXCEPT ![r] = row]
    BY Zenon DEF Reservations
  <2> HIDE DEF row
  <2> QED
    BY Zenon, <1>2, <2>1, <2>2 DEF Written
<1>4. Written([res EXCEPT ![r].state = st], res, r, st, res[r].chunks)
  <2> DEFINE row == [res[r] EXCEPT !.state = st]
  <2>1. row \in Reservation /\ row.state = st /\ row.chunks = res[r].chunks
    BY Zenon, <1>1 DEF Reservation, States
  <2>2. [res EXCEPT ![r].state = st] = [res EXCEPT ![r] = row]
    BY Zenon DEF Reservations
  <2> HIDE DEF row
  <2> QED
    BY Zenon, <1>2, <2>1, <2>2 DEF Written
<1>5. Written([res EXCEPT ![r].chunks = n], res, r, res[r].state, n)
  <2> DEFINE row == [res[r] EXCEPT !.chunks = n]
  <2>1. row \in Reservation /\ row.state = res[r].state /\ row.chunks = n
    BY Zenon, <1>1 DEF Reservation, States
  <2>2. [res EXCEPT ![r].chunks = n] = [res EXCEPT ![r] = row]
    BY Zenon DEF Reservations
  <2> HIDE DEF row
  <2> QED
    BY Zenon, <1>2, <2>1, <2>2 DEF Written
<1>6. Written(Released(res, {r}), res, r, "released", res[r].chunks)
  <2> DEFINE row == [res[r] EXCEPT !.state = "released"]
  <2>1. row \in Reservation /\ row.state = "released" /\ row.chunks = res[r].chunks
    BY Zenon, <1>1 DEF Reservation
  <2>2. Released(res, {r}) = [res EXCEPT ![r] = row]
    BY Zenon DEF Released, Reservations
  <2> HIDE DEF row
  <2> QED
    BY Zenon, <1>2, <2>1, <2>2 DEF Written
<1> QED
  BY Zenon, <1>3, <1>4, <1>5, <1>6

\* The steps of the acceptances, the workers and the reconciliation: one lemma
\* per action.  Each shows what its commit presents to the triggers.
LEMMA ReserveStep == ASSUME InflightInv, NEW r \in R, Reserve(r) PROVE InflightGood
<1>1. PICK n \in 1..MaxEstimate :
        /\ balance + n <= limit
        /\ Commit("reserve", balance + n,
                  [res EXCEPT ![r].state = "reserved", ![r].chunks = n], occ, batch)
  BY Zenon DEF Reserve
<1> DEFINE rs == [res EXCEPT ![r].state = "reserved", ![r].chunks = n]
<1>2. /\ Typed /\ FlowOf(r) /\ res[r] \in Reservation /\ n \in 0..MaxChunks
      /\ refused \subseteq {"split", "reconcile"}
  BY TypesOf
<1>3. Written(rs, res, r, "reserved", n)
  BY Zenon, <1>2, RowWritten DEF Typed, States
<1> HIDE DEF rs
<1>4. rs[r].state = "reserved" /\ rs[r].chunks = n /\ \A q \in R : q # r => rs[q] = res[q]
  BY Zenon, <1>3 DEF Written
<1>5. rs \in Reservations
  BY Zenon, <1>3 DEF Written
<1>6. acc[r] = "idle" /\ res[r].state = "none" /\ occ[r] = 0 /\ batch[r] = "none" /\ peek[r] = 0
  BY Zenon, <1>2 DEF Reserve, FlowOf, Typed
<1>7. balance + n = balance - Weight(res[r]) + Weight(rs[r])
  BY <1>4, <1>6, TypesOf DEF Weight, Active
<1>8. Admitted(balance + n, rs, occ)
  <2>1. occ[r] <= rs[r].chunks
    BY <1>4, <1>6
  <2> QED
    BY Zenon, <1>4, <1>5, <1>7, <2>1, OneAdmitted
<1>9. balance' = balance + n /\ res' = rs /\ UNCHANGED <<occ, batch, refused>>
  BY Zenon, <1>1, <1>8 DEF Commit, rs
<1>10. /\ \E next \in {"held", "gone"} : acc' = [acc EXCEPT ![r] = next]
       /\ UNCHANGED <<limit, peek, snap>>
  BY Zenon DEF Reserve
<1>11. Typed' /\ Others(r) /\ acc'[r] # "idle"
  BY Zenon, <1>2, <1>4, <1>5, <1>9, <1>10 DEF Typed, Others
<1>12. FlowOf(r)'
  BY Zenon, <1>4, <1>6, <1>9, <1>10, <1>11 DEF FlowOf
<1>13. InflightInv'
  BY Zenon, <1>2, <1>8, <1>9, <1>10, <1>11, <1>12, OneStep
<1> QED
  BY Zenon, <1>1, <1>9, <1>13 DEF InflightGood

LEMMA SaveStep == ASSUME InflightInv, NEW r \in R, Save(r) PROVE InflightGood
<1> DEFINE rs == [res EXCEPT ![r].state = "batch_bound"]
           bt == [batch EXCEPT ![r] = "queued"]
<1>1. /\ acc[r] = "held" /\ res[r].state = "reserved"
      /\ Commit("bind", balance, rs, occ, bt)
      /\ \E next \in {"accepted", "unsure", "release"} : acc' = [acc EXCEPT ![r] = next]
      /\ UNCHANGED <<limit, peek, snap>>
  BY Zenon DEF Save, Bindable
<1>2. /\ Typed /\ FlowOf(r) /\ res[r] \in Reservation /\ res[r].chunks \in Nat
      /\ balance \in Nat /\ refused \subseteq {"split", "reconcile"}
  BY TypesOf
<1>3. Written(rs, res, r, "batch_bound", res[r].chunks)
  BY Zenon, <1>2, TypesOf, RowWritten DEF Typed, States
<1> HIDE DEF rs
<1>4. /\ rs[r].state = "batch_bound" /\ rs[r].chunks = res[r].chunks
      /\ \A q \in R : q # r => rs[q] = res[q]
  BY Zenon, <1>3 DEF Written
<1>5. rs \in Reservations
  BY Zenon, <1>3 DEF Written
<1>6. occ[r] = 0 /\ batch[r] = "none" /\ peek[r] = 0
  BY Zenon, <1>1, <1>2 DEF FlowOf, Typed
<1>7. balance = balance - Weight(res[r]) + Weight(rs[r])
  BY <1>1, <1>2, <1>4 DEF Weight, Active
<1>8. Admitted(balance, rs, occ)
  <2>1. occ[r] <= rs[r].chunks
    BY <1>2, <1>4, <1>6
  <2> QED
    BY Zenon, <1>4, <1>5, <1>7, <2>1, OneAdmitted
<1>9. balance' = balance /\ res' = rs /\ batch' = bt /\ UNCHANGED <<occ, refused>>
  BY Zenon, <1>1, <1>8 DEF Commit
<1>10. Typed' /\ Others(r) /\ acc'[r] # "idle" /\ batch'[r] = "queued"
  BY <1>1, <1>2, <1>4, <1>5, <1>9 DEF Typed, Others
<1>11. FlowOf(r)'
  BY Zenon, <1>1, <1>4, <1>6, <1>9, <1>10 DEF FlowOf
<1>12. InflightInv'
  BY Zenon, <1>1, <1>2, <1>8, <1>9, <1>10, <1>11, OneStep
<1> QED
  BY <1>2, <1>9, <1>12 DEF InflightGood

\* A release of an active reservation is admitted.
LEMMA ReleaseAdmitted ==
  ASSUME InflightInv, NEW r \in R, res[r].state \in Active, NEW bt,
         Commit("release", balance - res[r].chunks, Released(res, {r}), occ, bt)
  PROVE  /\ balance' = balance - res[r].chunks /\ batch' = bt /\ UNCHANGED <<occ, refused>>
         /\ Written(res', res, r, "released", res[r].chunks)
         /\ Admitted(balance, res, occ)' /\ balance' <= balance
<1> DEFINE rs == Released(res, {r})
<1>1. Typed /\ balance \in Nat /\ res[r].chunks \in Nat /\ res[r].chunks \in 0..MaxChunks
  BY TypesOf
<1>2. Written(rs, res, r, "released", res[r].chunks)
  BY Zenon, <1>1, RowWritten DEF Typed, States
<1> HIDE DEF rs
<1>3. /\ rs[r].state = "released" /\ rs \in Reservations /\ \A q \in R : q # r => rs[q] = res[q]
      /\ ~(rs[r].state \in Active)
  BY Zenon, <1>2 DEF Written, Active
<1>4. balance - res[r].chunks = balance - Weight(res[r]) + Weight(rs[r])
  BY <1>1, <1>3 DEF Weight
<1>5. Admitted(balance - res[r].chunks, rs, occ)
  BY Zenon, <1>3, <1>4, OneAdmitted
<1>6. balance' = balance - res[r].chunks /\ res' = rs /\ batch' = bt /\ UNCHANGED <<occ, refused>>
  BY Zenon, <1>5 DEF Commit, rs
<1>7. balance' <= balance
  BY <1>1, <1>6
<1> QED
  BY Zenon, <1>2, <1>5, <1>6, <1>7 DEF Admitted

LEMMA GiveBackStep == ASSUME InflightInv, NEW r \in R, GiveBack(r) PROVE InflightGood
<1>1. /\ acc[r] = "release" /\ acc' = [acc EXCEPT ![r] = "gone"]
      /\ UNCHANGED <<limit, peek, snap>>
  BY Zenon DEF GiveBack
<1>2. Typed /\ FlowOf(r) /\ refused \subseteq {"split", "reconcile"} /\ balance \in Nat
  BY Zenon, TypesOf
<1>3. CASE res[r].state = "reserved"
  <2>1. /\ batch' = batch /\ UNCHANGED <<occ, refused>> /\ balance' <= balance
        /\ Written(res', res, r, "released", res[r].chunks) /\ Admitted(balance, res, occ)'
    BY Zenon, <1>3, ReleaseAdmitted DEF GiveBack, Active
  <2>2. /\ res'[r].state = "released" /\ res' \in Reservations /\ \A q \in R : q # r => res'[q] = res[q]
    BY Zenon, <2>1 DEF Written
  <2>3. Typed' /\ Others(r) /\ acc'[r] = "gone"
    BY Zenon, <1>1, <1>2, <2>1, <2>2 DEF Typed, Others
  <2>4. FlowOf(r)'
    BY Zenon, <1>1, <1>2, <1>3, <2>1, <2>2, <2>3 DEF FlowOf
  <2>5. InflightInv'
    BY Zenon, <1>1, <1>2, <2>1, <2>3, <2>4, OneStep
  <2>6. balance' \in Int
    BY <1>2, <2>5, TypesOf DEF InflightInv, InflightTypeOK
  <2> QED
    BY <1>2, <2>1, <2>5, <2>6 DEF InflightGood
<1>4. CASE res[r].state # "reserved"
  <2>1. UNCHANGED <<balance, res, occ, batch, refused>>
    BY Zenon, <1>4 DEF GiveBack, books
  <2>2. Typed' /\ Others(r) /\ acc'[r] = "gone"
    BY Zenon, <1>1, <1>2, <2>1 DEF Typed, Others
  <2>3. FlowOf(r)'
    BY Zenon, <1>1, <1>2, <2>1, <2>2 DEF FlowOf
  <2>4. Admitted(balance, res, occ)'
    BY Zenon, <2>1 DEF InflightInv, Admitted, ActiveSum, Chunks, Units, Live
  <2>5. InflightInv'
    BY Zenon, <1>1, <1>2, <2>1, <2>2, <2>3, <2>4, OneStep
  <2> QED
    BY Zenon, <1>2, <2>1, <2>5, StaysGood
<1> QED
  BY Zenon, <1>3, <1>4

LEMMA BatchEndsStep == ASSUME InflightInv, NEW r \in R, BatchEnds(r) PROVE InflightGood
<1>1. /\ batch[r] \in {"queued", "sending"} /\ peek[r] = 0
      /\ UNCHANGED <<limit, acc, peek, snap>>
  BY Zenon DEF BatchEnds
<1>2. Typed /\ FlowOf(r) /\ refused \subseteq {"split", "reconcile"} /\ balance \in Nat
  BY Zenon, TypesOf
<1>3. res[r].state \in {"batch_bound", "materialized"} /\ acc[r] # "idle"
  BY Zenon, <1>1, <1>2 DEF FlowOf
<1>4. Commit("release", balance - res[r].chunks, Released(res, {r}), occ,
             [batch EXCEPT ![r] = "terminal"])
  BY Zenon, <1>3 DEF BatchEnds, Active
<1>5. /\ batch' = [batch EXCEPT ![r] = "terminal"] /\ UNCHANGED <<occ, refused>>
      /\ balance' <= balance
      /\ Written(res', res, r, "released", res[r].chunks) /\ Admitted(balance, res, occ)'
  BY Zenon, <1>3, <1>4, ReleaseAdmitted DEF Active
<1>6. /\ res'[r].state = "released" /\ res' \in Reservations /\ \A q \in R : q # r => res'[q] = res[q]
  BY Zenon, <1>5 DEF Written
<1>7. Typed' /\ Others(r) /\ batch'[r] = "terminal"
  BY Zenon, <1>1, <1>2, <1>5, <1>6 DEF Typed, Others
<1>8. FlowOf(r)'
  BY Zenon, <1>1, <1>2, <1>3, <1>5, <1>6, <1>7 DEF FlowOf
<1>9. InflightInv'
  BY Zenon, <1>1, <1>2, <1>5, <1>7, <1>8, OneStep
<1>10. balance' \in Int
  BY <1>9 DEF InflightInv, InflightTypeOK
<1> QED
  BY <1>2, <1>5, <1>9, <1>10 DEF InflightGood

\* Steps that touch neither the balance nor the rows it is the sum of.
LEMMA QuietStep ==
  ASSUME InflightInv, NEW r \in R,
         AcceptFails(r) \/ ResolveSave(r) \/ AcceptCrash(r) \/ Read(r) \/ ChunkFails(r)
  PROVE  InflightGood
<1>1. UNCHANGED <<limit, balance, res, batch, refused, snap>>
  BY Zenon DEF AcceptFails, ResolveSave, AcceptCrash, Read, ChunkFails, books
<1>2. /\ Typed /\ FlowOf(r) /\ refused \subseteq {"split", "reconcile"} /\ balance \in Nat
      /\ occ[r] \in 0..MaxChunks /\ peek[r] \in 0..MaxChunks /\ MaxChunks \in Nat
      /\ res[r].state \in Active => occ[r] <= res[r].chunks
      /\ res[r].chunks \in 0..MaxChunks
  BY Zenon, TypesOf
<1>3. CASE AcceptFails(r) \/ ResolveSave(r) \/ AcceptCrash(r)
  <2>1. UNCHANGED <<occ, peek>> /\ acc[r] # "idle"
    BY Zenon, <1>3 DEF AcceptFails, ResolveSave, AcceptCrash, books
  <2>2. PICK next \in {"unsure", "release", "accepted", "gone"} : acc' = [acc EXCEPT ![r] = next]
    BY Zenon, <1>3 DEF AcceptFails, ResolveSave, ResolveSaveKnown, AcceptCrash
  <2>3. Typed' /\ Others(r) /\ acc'[r] # "idle"
    BY Zenon, <1>1, <1>2, <2>1, <2>2 DEF Typed, Others
  <2>4. FlowOf(r)'
    BY Zenon, <1>1, <1>2, <2>1, <2>3 DEF FlowOf
  <2>5. Admitted(balance, res, occ)'
    BY Zenon, <1>1, <2>1 DEF InflightInv, Admitted, ActiveSum, Chunks, Units, Live
  <2>6. InflightInv'
    BY Zenon, <1>1, <1>2, <2>3, <2>4, <2>5, OneStep
  <2> QED
    BY Zenon, <1>1, <1>2, <2>6, StaysGood
<1>4. CASE Read(r)
  <2>1. /\ UNCHANGED <<occ, acc>> /\ peek' = [peek EXCEPT ![r] = res[r].chunks]
        /\ batch[r] \in {"queued", "sending"}
        /\ batch[r] = "sending" => res[r].chunks < MaxChunks
    BY Zenon, <1>4 DEF Read, books
  <2>2. Typed' /\ Others(r) /\ peek'[r] = res[r].chunks
    BY Zenon, <1>1, <1>2, <2>1 DEF Typed, Others
  <2>3. FlowOf(r)'
    BY Zenon, <1>1, <1>2, <2>1, <2>2 DEF FlowOf
  <2>4. Admitted(balance, res, occ)'
    BY Zenon, <1>1, <2>1 DEF InflightInv, Admitted, ActiveSum, Chunks, Units, Live
  <2>5. InflightInv'
    BY Zenon, <1>1, <1>2, <2>2, <2>3, <2>4, OneStep
  <2> QED
    BY Zenon, <1>1, <1>2, <2>5, StaysGood
<1>5. CASE ChunkFails(r)
  <2>1. /\ UNCHANGED <<acc, peek>> /\ occ' = [occ EXCEPT ![r] = @ - 1] /\ occ[r] > 1
        /\ batch[r] = "sending"
    BY Zenon, <1>5 DEF ChunkFails
  <2>2. occ'[r] = occ[r] - 1 /\ occ'[r] \in 0..MaxChunks
    BY <1>2, <2>1 DEF Typed
  <2>3. Typed' /\ Others(r)
    BY Zenon, <1>1, <1>2, <2>1, <2>2 DEF Typed, Others
  <2>4. FlowOf(r)'
    BY Zenon, <1>1, <1>2, <2>1 DEF FlowOf
  <2>5. Admitted(balance, res, occ)'
    <3>1. \A q \in R : res[q].state \in Active => occ'[q] <= res[q].chunks
      <4>1. /\ occ[r] \in Nat /\ res[r].chunks \in Nat
            /\ res[r].state \in Active => occ[r] <= res[r].chunks
        <5>1. /\ occ[r] \in 0..MaxChunks /\ res[r].chunks \in 0..MaxChunks
              /\ res[r].state \in Active => occ[r] <= res[r].chunks
          BY Zenon, TypesOf
        <5> QED
          BY <5>1
      <4>2. res[r].state \in Active => occ'[r] <= res[r].chunks
        <5>1. occ'[r] = occ[r] - 1
          BY Zenon, <2>2
        <5> QED
          BY <4>1, <5>1
      <4>3. \A q \in R : q # r => (res[q].state \in Active => occ'[q] <= res[q].chunks)
        BY Zenon, <1>2, <2>3, TypesOf DEF Others
      <4> QED BY Zenon, <4>2, <4>3
    <3>2. balance = ActiveSum(res)
      BY Zenon DEF InflightInv, Admitted
    <3> QED
      BY Zenon, <1>1, <3>1, <3>2 DEF Admitted, ActiveSum, Chunks, Units, Live
  <2>6. InflightInv'
    BY Zenon, <1>1, <1>2, <2>3, <2>4, <2>5, OneStep
  <2> QED
    BY Zenon, <1>1, <1>2, <2>6, StaysGood
<1> QED
  BY Zenon, <1>3, <1>4, <1>5
LEMMA ExpireStep == ASSUME InflightInv, NEW r \in R, Expire(r) PROVE InflightGood
<1> DEFINE row == [res[r] EXCEPT !.expired = TRUE]
<1>1. UNCHANGED <<limit, balance, batch, occ, acc, peek, snap, refused>>
  BY Zenon DEF Expire
<1>2. /\ Typed /\ FlowOf(r) /\ refused \subseteq {"split", "reconcile"} /\ balance \in Nat
      /\ res[r] \in Reservation /\ res[r].chunks \in Nat /\ occ[r] \in Nat
      /\ res[r].state \in Active => occ[r] <= res[r].chunks
  BY TypesOf
<1>3. row \in Reservation /\ row.state = res[r].state /\ row.chunks = res[r].chunks
  BY Zenon, <1>2 DEF Reservation
<1>4. res' = [res EXCEPT ![r] = row]
  BY Zenon, <1>2 DEF Expire, Typed, Reservations
<1> HIDE DEF row
<1>5. res' \in Reservations /\ res'[r] = row /\ \A q \in R : q # r => res'[q] = res[q]
  BY Zenon, <1>2, <1>3, <1>4 DEF Typed, Reservations
<1>6. Typed' /\ Others(r)
  BY Zenon, <1>1, <1>2, <1>5 DEF Typed, Others
<1>7. balance = balance - Weight(res[r]) + Weight(res'[r])
  BY <1>2, <1>3, <1>5 DEF Weight
<1>8. Admitted(balance, res', occ)
  BY Zenon, <1>2, <1>3, <1>5, <1>7, OneAdmitted
<1>9. Admitted(balance, res, occ)'
  BY Zenon, <1>1, <1>8 DEF Admitted
<1>10. FlowOf(r)'
  BY Zenon, <1>1, <1>2, <1>3, <1>5 DEF FlowOf
<1>11. InflightInv'
  BY Zenon, <1>1, <1>2, <1>6, <1>9, <1>10, OneStep
<1> QED
  BY Zenon, <1>1, <1>2, <1>11, StaysGood

\* The preparation replaces the estimate, under the limit where it is larger.
LEMMA MaterializeStep == ASSUME InflightInv, NEW r \in R, Materialize(r) PROVE InflightGood
<1>1. /\ peek[r] # 0 /\ batch[r] = "queued" /\ peek' = [peek EXCEPT ![r] = 0]
      /\ UNCHANGED <<limit, acc, snap>>
  BY Zenon DEF Materialize
<1>2. /\ Typed /\ FlowOf(r) /\ refused \subseteq {"split", "reconcile"} /\ balance \in Nat
      /\ limit \in Nat /\ res[r].chunks \in 0..MaxChunks
      /\ MaxChunks \in Nat /\ MaxEstimate \in Nat \ {0} /\ MaxEstimate <= MaxChunks
  BY Zenon, TypesOf
<1>3. peek[r] = res[r].chunks /\ res[r].state = "batch_bound" /\ acc[r] # "idle"
  BY Zenon, <1>1, <1>2 DEF FlowOf
<1>4. PICK n \in 0..MaxEstimate :
        LET need == IF n = 0 THEN 1 ELSE n
            bal  == balance + need - peek[r]
            rs   == [res EXCEPT ![r].state = "materialized", ![r].chunks = need]
        IN  IF need = peek[r] \/ bal <= limit
            THEN Commit("materialize", bal, rs, [occ EXCEPT ![r] = n],
                        [batch EXCEPT ![r] = "sending"])
            ELSE UNCHANGED books
  BY Zenon DEF Materialize
<1> DEFINE need == IF n = 0 THEN 1 ELSE n
           bal  == balance + need - peek[r]
           rs   == [res EXCEPT ![r].state = "materialized", ![r].chunks = need]
           oc   == [occ EXCEPT ![r] = n]
           bt   == [batch EXCEPT ![r] = "sending"]
<1>5. /\ need \in 1..MaxChunks /\ need \in 0..MaxChunks
      /\ n \in 0..MaxChunks /\ n <= need
  BY <1>2
<1>6. Written(rs, res, r, "materialized", need)
  <2> HIDE DEF need
  <2>1. res \in Reservations /\ "materialized" \in States /\ need \in 0..MaxChunks
    BY Zenon, <1>2, <1>5 DEF Typed, States
  <2> QED
    BY Zenon, <2>1, RowWritten
<1>7. CASE need = peek[r] \/ bal <= limit
  <2>1. Commit("materialize", bal, rs, oc, bt)
    BY Zenon, <1>4, <1>7
  <2>2. oc \in [R -> 0..MaxChunks] /\ oc[r] = n /\ \A q \in R : q # r => oc[q] = occ[q]
    BY Zenon, <1>2, <1>5 DEF Typed
  <2>3. /\ bt \in [R -> {"none", "queued", "sending", "terminal"}] /\ bt[r] = "sending"
        /\ \A q \in R : q # r => bt[q] = batch[q]
    BY Zenon, <1>2 DEF Typed
  <2> HIDE DEF need, rs, oc, bt
  <2>4. /\ rs \in Reservations /\ rs[r].state = "materialized" /\ rs[r].chunks = need
        /\ \A q \in R : q # r => rs[q] = res[q]
    BY Zenon, <1>6 DEF Written
  <2>5. bal = balance - Weight(res[r]) + Weight(rs[r])
    <3>1. Weight(res[r]) = peek[r] /\ Weight(rs[r]) = need /\ peek[r] \in Nat
      <4>1. res[r].chunks \in Nat
        BY <1>2
      <4> QED
        BY Zenon, <1>3, <2>4, <4>1 DEF Weight, Active
    <3>2. balance \in Nat /\ need \in 1..MaxChunks
      BY Zenon, <1>2, <1>5
    <3> QED
      BY <3>1, <3>2
  <2> HIDE DEF bal
  <2>6. oc[r] <= rs[r].chunks
    BY Zenon, <1>5, <2>2, <2>4
  <2>7. Admitted(bal, rs, oc)
    BY Zenon, <2>2, <2>4, <2>5, <2>6, OneAdmitted
  <2>8. balance' = bal /\ res' = rs /\ occ' = oc /\ batch' = bt /\ UNCHANGED refused
    BY Zenon, <2>1, <2>7 DEF Commit
  <2>9. Typed' /\ Others(r) /\ peek'[r] = 0
    <3>1. 0 \in 0..MaxChunks
      BY <1>2
    <3>2. Typed'
      BY Zenon, <1>1, <1>2, <2>2, <2>3, <2>4, <2>8, <3>1 DEF Typed
    <3>3. peek'[r] = 0 /\ \A q \in R : q # r => peek'[q] = peek[q] /\ acc'[q] = acc[q]
      BY Zenon, <1>1, <1>2 DEF Typed
    <3> QED
      BY Zenon, <2>2, <2>3, <2>4, <2>8, <3>2, <3>3 DEF Others
  <2>10. FlowOf(r)'
    <3>1. 0 < MaxChunks
      BY <1>2, <1>5
    <3>2. res'[r].state = "materialized" /\ batch'[r] = "sending" /\ acc'[r] = acc[r]
      BY Zenon, <1>1, <2>3, <2>4, <2>8
    <3>3. acc[r] # "idle"
      BY Zenon, <1>2, <1>3 DEF FlowOf
    <3> QED
      BY Zenon, <2>9, <3>1, <3>2, <3>3 DEF FlowOf
  <2>11. Admitted(balance, res, occ)'
    BY Zenon, <2>7, <2>8 DEF Admitted
  <2>12. InflightInv'
    BY Zenon, <1>1, <1>2, <2>8, <2>9, <2>10, <2>11, OneStep
  <2>13. balance' > balance => balance' <= limit
    <3>1. balance \in Nat /\ balance' = bal /\ (need = peek[r] \/ bal <= limit)
      BY Zenon, <1>2, <1>7, <2>8
    <3>2. need \in 1..MaxChunks
      BY Zenon, <1>5
    <3> QED
      BY <3>1, <3>2 DEF bal
  <2> QED
    BY Zenon, <2>12, <2>13 DEF InflightGood
<1>8. CASE ~(need = peek[r] \/ bal <= limit)
  <2>1. UNCHANGED <<balance, res, occ, batch, refused>>
    BY Zenon, <1>4, <1>8 DEF books
  <2>2. Typed' /\ Others(r) /\ peek'[r] = 0
    <3>1. 0 \in 0..MaxChunks
      BY <1>2
    <3> QED
      BY Zenon, <1>1, <1>2, <2>1, <3>1 DEF Typed, Others
  <2>3. FlowOf(r)'
    BY Zenon, <1>1, <1>2, <2>1, <2>2 DEF FlowOf
  <2>4. Admitted(balance, res, occ)'
    BY Zenon, <2>1 DEF InflightInv, Admitted, ActiveSum, Chunks, Units, Live
  <2>5. InflightInv'
    BY Zenon, <1>1, <1>2, <2>1, <2>2, <2>3, <2>4, OneStep
  <2> QED
    BY Zenon, <1>2, <2>1, <2>5, StaysGood
<1> QED
  BY Zenon, <1>7, <1>8

\* A split works from a count read earlier, and may be refused for it.
LEMMA SplitStep == ASSUME InflightInv, NEW r \in R, Split(r) PROVE InflightGood
<1> DEFINE rs == [res EXCEPT ![r].chunks = peek[r] + 1]
           oc == [occ EXCEPT ![r] = @ + 1]
<1>1. /\ peek[r] # 0 /\ batch[r] = "sending" /\ peek' = [peek EXCEPT ![r] = 0]
      /\ UNCHANGED <<limit, acc, snap>>
      /\ IF balance + 1 <= limit THEN Commit("split", balance + 1, rs, oc, batch)
         ELSE UNCHANGED books
  BY Zenon DEF Split
<1>2. /\ Typed /\ FlowOf(r) /\ refused \subseteq {"split", "reconcile"} /\ balance \in Nat
      /\ limit \in Nat /\ res[r].chunks \in 0..MaxChunks /\ occ[r] \in 0..MaxChunks
      /\ peek[r] \in 0..MaxChunks /\ MaxChunks \in Nat
  BY Zenon, TypesOf
<1>3. res[r].state = "materialized" /\ acc[r] # "idle" /\ peek[r] + 1 \in 0..MaxChunks
  BY <1>1, <1>2 DEF FlowOf
<1>4. Written(rs, res, r, res[r].state, peek[r] + 1)
  BY Zenon, <1>2, <1>3, RowWritten DEF Typed, States
<1> HIDE DEF rs
<1>5. /\ rs \in Reservations /\ rs[r].state = "materialized" /\ rs[r].chunks = peek[r] + 1
      /\ \A q \in R : q # r => rs[q] = res[q]
  BY Zenon, <1>3, <1>4 DEF Written
<1>6. oc[r] = occ[r] + 1 /\ \A q \in R : q # r => oc[q] = occ[q]
  BY Zenon, <1>2 DEF Typed
<1>7. CASE balance + 1 <= limit /\ Admitted(balance + 1, rs, oc)
  <2>1. balance' = balance + 1 /\ res' = rs /\ occ' = oc /\ UNCHANGED <<batch, refused>>
    BY Zenon, <1>1, <1>7 DEF Commit
  <2>2. oc[r] <= peek[r] + 1
    BY Zenon, <1>5, <1>7 DEF Admitted, Active
  <2>3. oc[r] \in 0..MaxChunks
    BY <1>2, <1>3, <1>6, <2>2
  <2>4. oc \in [R -> 0..MaxChunks]
    BY Zenon, <1>2, <1>6, <2>3 DEF Typed
  <2> HIDE DEF oc
  <2>5. Typed' /\ Others(r) /\ peek'[r] = 0
    <3>1. 0 \in 0..MaxChunks
      BY <1>2
    <3>2. Typed'
      BY Zenon, <1>1, <1>2, <1>5, <2>1, <2>4, <3>1 DEF Typed
    <3>3. peek'[r] = 0 /\ \A q \in R : q # r => peek'[q] = peek[q] /\ acc'[q] = acc[q]
      BY Zenon, <1>1, <1>2 DEF Typed
    <3> QED
      BY Zenon, <1>5, <1>6, <2>1, <3>2, <3>3 DEF Others
  <2>6. MaxChunks > 0
    BY <1>2, <1>3
  <2>7. FlowOf(r)'
    BY Zenon, <1>1, <1>2, <1>3, <1>5, <2>1, <2>5, <2>6 DEF FlowOf
  <2>8. Admitted(balance, res, occ)'
    BY Zenon, <1>7, <2>1 DEF Admitted
  <2>9. InflightInv'
    BY Zenon, <1>1, <1>2, <2>1, <2>5, <2>7, <2>8, OneStep
  <2> QED
    BY Zenon, <1>7, <2>1, <2>9 DEF InflightGood
<1>8. CASE ~(balance + 1 <= limit /\ Admitted(balance + 1, rs, oc))
  <2>1. UNCHANGED <<balance, res, occ, batch>> /\ refused' \subseteq {"split", "reconcile"}
    BY Zenon, <1>1, <1>2, <1>8 DEF Commit, books
  <2>2. Typed' /\ Others(r) /\ peek'[r] = 0
    <3>1. 0 \in 0..MaxChunks
      BY <1>2
    <3> QED
      BY Zenon, <1>1, <1>2, <2>1, <3>1 DEF Typed, Others
  <2>3. MaxChunks > 0
    BY <1>2, <1>3
  <2>4. FlowOf(r)'
    BY Zenon, <1>1, <1>2, <1>3, <2>1, <2>2, <2>3 DEF FlowOf
  <2>5. Admitted(balance, res, occ)'
    BY Zenon, <2>1 DEF InflightInv, Admitted, ActiveSum, Chunks, Units, Live
  <2>6. InflightInv'
    BY Zenon, <1>1, <1>2, <2>1, <2>2, <2>4, <2>5, OneStep
  <2> QED
    BY Zenon, <1>2, <2>1, <2>6, StaysGood
<1> QED
  BY Zenon, <1>7, <1>8
----------------------------------------------------------------------------
(* Reconciliation and the limit *)

LEMMA SnapshotStep == ASSUME InflightInv, Snapshot PROVE InflightGood
<1>1. UNCHANGED <<limit, balance, res, occ, batch, refused, acc, peek>>
  BY Zenon DEF Snapshot, books
<1>2. {r \in R : res[r].state \in Active /\ batch[r] = "terminal"} = {}
  BY Zenon DEF InflightInv, Flow, FlowOf, Active
<1>3. /\ snap'.terminals = {}
      /\ snap' \in [taken : BOOLEAN, orphans : SUBSET R, terminals : SUBSET R,
                    seen : [R -> 0..MaxChunks]]
  <2>1. \A r \in R : (IF res[r].state = "materialized" THEN res[r].chunks ELSE 0)
                       \in 0..MaxChunks
    BY TypesOf
  <2> QED
    BY Zenon, <1>2, <2>1 DEF Snapshot
<1>4. InflightTypeOK'
  BY Zenon, <1>1, <1>3 DEF InflightInv, InflightTypeOK
<1>5. Admitted(balance, res, occ)'
  BY Zenon, <1>1 DEF InflightInv, Admitted, ActiveSum, Chunks, Units, Live
<1>6. Flow' /\ OnlyStaleWritesRefused'
  BY Zenon, <1>1 DEF InflightInv, Flow, FlowOf, OnlyStaleWritesRefused
<1>7. InflightInv' /\ balance \in Nat
  BY Zenon, <1>1, <1>3, <1>4, <1>5, <1>6, TypesOf DEF InflightInv
<1> QED
  BY Zenon, <1>1, <1>7, StaysGood

LEMMA SetLimitStep == ASSUME InflightInv, SetLimit PROVE InflightGood
<1>1. UNCHANGED <<balance, res, occ, batch, refused, acc, peek, snap>> /\ limit' \in Limits
  BY Zenon DEF SetLimit, books
<1>2. InflightTypeOK'
  BY Zenon, <1>1 DEF InflightInv, InflightTypeOK
<1>3. Admitted(balance, res, occ)'
  BY Zenon, <1>1 DEF InflightInv, Admitted, ActiveSum, Chunks, Units, Live
<1>4. Flow' /\ OnlyStaleWritesRefused' /\ snap'.terminals = {}
  BY Zenon, <1>1 DEF InflightInv, Flow, FlowOf, OnlyStaleWritesRefused
<1> QED
  BY <1>1, <1>2, <1>3, <1>4, TypesOf DEF InflightInv, InflightGood

LEMMA StutterStep == ASSUME InflightInv, UNCHANGED inflightVars PROVE InflightGood
<1>1. UNCHANGED <<limit, balance, res, occ, batch, refused, acc, peek, snap>>
  BY Zenon DEF inflightVars
<1>2. InflightTypeOK'
  BY Zenon, <1>1 DEF InflightInv, InflightTypeOK
<1>3. Admitted(balance, res, occ)'
  BY Zenon, <1>1 DEF InflightInv, Admitted, ActiveSum, Chunks, Units, Live
<1>4. Flow' /\ OnlyStaleWritesRefused' /\ snap'.terminals = {}
  BY Zenon, <1>1 DEF InflightInv, Flow, FlowOf, OnlyStaleWritesRefused
<1> QED
  BY <1>1, <1>2, <1>3, <1>4, TypesOf DEF InflightInv, InflightGood

\* A round releases only unbound reservations and never raises one: what it takes
\* for a drifted row is a row the snapshot shows as it was before a split.
LEMMA ReconcileStep == ASSUME InflightInv, Reconcile PROVE InflightGood
<1> DEFINE gone  == {r \in snap.orphans : res[r].state = "reserved" /\ res[r].expired}
                      \cup {r \in snap.terminals : res[r].state \in Active}
           freed == Released(res, gone)
           grown == Drifted(freed)
           rs    == [r \in R |-> IF r \in grown THEN [freed[r] EXCEPT !.chunks = occ[r]]
                                 ELSE freed[r]]
           sum   == balance - Chunks(res, gone)
                      + Cardinality(UNION {{r} \X ((snap.seen[r] + 1)..occ[r]) : r \in grown})
<1>1. /\ \/ Commit("balance", ActiveSum(rs), rs, occ, batch)
         \/ Commit("reconcile", sum, rs, occ, batch)
      /\ snap' = NoSnap /\ UNCHANGED <<limit, acc, peek>>
  BY Zenon DEF Reconcile
<1>2. /\ Typed /\ refused \subseteq {"split", "reconcile"} /\ balance \in Nat
      /\ limit \in Nat /\ res \in Reservations /\ MaxChunks \in Nat
  BY Zenon, TypesOf DEF Typed
<1>3. \A r \in R : r \in gone => res[r].state = "reserved"
  BY Zenon DEF InflightInv
<1> HIDE DEF gone
<1>4. ASSUME NEW r \in R
      PROVE  /\ freed[r] \in Reservation /\ freed[r].chunks = res[r].chunks
             /\ r \in gone => freed[r].state = "released"
             /\ r \notin gone => freed[r].state = res[r].state
  <2>1. res[r] \in Reservation
    BY Zenon, TypesOf
  <2>2. CASE r \in gone
    <3>1. freed[r] = [res[r] EXCEPT !.state = "released"]
      BY Zenon, <2>2 DEF Released
    <3> QED
      BY Zenon, <2>1, <2>2, <3>1 DEF Reservation
  <2>3. CASE r \notin gone
    BY Zenon, <2>1, <2>3 DEF Released
  <2> QED
    BY Zenon, <2>2, <2>3
<1> HIDE DEF freed
<1>5. ASSUME NEW r \in R, r \in grown PROVE freed[r].state = "materialized"
  BY Zenon, <1>5 DEF Drifted
<1> HIDE DEF grown
<1>6. ASSUME NEW r \in R
      PROVE  /\ rs[r] \in Reservation
             /\ rs[r].state = freed[r].state
             /\ r \in grown => rs[r].chunks = occ[r]
             /\ r \notin grown => rs[r].chunks = res[r].chunks
  <2>1. freed[r] \in Reservation /\ freed[r].chunks = res[r].chunks /\ occ[r] \in 0..MaxChunks
    BY Zenon, <1>4, TypesOf
  <2>2. CASE r \in grown
    <3>1. rs[r] = [freed[r] EXCEPT !.chunks = occ[r]]
      BY Zenon, <2>2
    <3> QED
      BY Zenon, <2>1, <2>2, <3>1 DEF Reservation
  <2>3. CASE r \notin grown
    <3>1. rs[r] = freed[r]
      BY Zenon, <2>3
    <3> QED
      BY Zenon, <2>1, <2>3, <3>1
  <2> QED
    BY Zenon, <2>2, <2>3
<1>7. rs \in Reservations
  BY Zenon, <1>6 DEF Reservations
<1> HIDE DEF rs, sum
<1>8. ASSUME NEW r \in R
      PROVE  \/ rs[r].state = "released" /\ res[r].state = "reserved"
             \/ /\ rs[r].state = res[r].state
                /\ res[r].state # "materialized" => rs[r].chunks = res[r].chunks
  BY Zenon, <1>3, <1>4, <1>5, <1>6
<1>9. ASSUME NEW r \in R, rs[r].state \in Active
      PROVE  /\ res[r].state \in Active
             /\ rs[r].chunks <= res[r].chunks /\ occ[r] <= rs[r].chunks
  <2>1. res[r].state \in Active
    BY Zenon, <1>8, <1>9 DEF Active
  <2>2. occ[r] <= res[r].chunks /\ occ[r] \in Nat /\ res[r].chunks \in Nat
    BY <2>1, TypesOf
  <2>3. rs[r].chunks = occ[r] \/ rs[r].chunks = res[r].chunks
    BY Zenon, <1>6
  <2> QED
    BY <2>1, <2>2, <2>3
<1>10. ActiveSum(rs) <= balance /\ ActiveSum(rs) \in 0..(Cardinality(R) * MaxChunks)
  <2>1. balance = ActiveSum(res)
    BY Zenon DEF InflightInv, Admitted
  <2> QED
    BY Zenon, <1>2, <1>7, <1>9, <2>1, SumFalls
<1>11. Admitted(ActiveSum(rs), rs, occ)
  BY Zenon, <1>9 DEF Admitted
<1>12. \/ balance' = ActiveSum(rs) /\ res' = rs /\ UNCHANGED <<occ, batch, refused>>
       \/ /\ UNCHANGED <<balance, res, occ, batch>>
          /\ refused' = refused \cup {"reconcile"}
  <2>1. CASE Commit("balance", ActiveSum(rs), rs, occ, batch)
    BY Zenon, <1>11, <2>1 DEF Commit
  <2>2. CASE Commit("reconcile", sum, rs, occ, batch)
    <3>1. CASE Admitted(sum, rs, occ)
      BY Zenon, <2>2, <3>1 DEF Commit, Admitted
    <3>2. CASE ~Admitted(sum, rs, occ)
      BY Zenon, <2>2, <3>2 DEF Commit
    <3> QED
      BY Zenon, <3>1, <3>2
  <2> QED
    BY Zenon, <1>1, <2>1, <2>2
<1>13. /\ snap'.terminals = {}
       /\ snap' \in [taken : BOOLEAN, orphans : SUBSET R, terminals : SUBSET R,
                     seen : [R -> 0..MaxChunks]]
  BY <1>1, <1>2 DEF NoSnap
<1>14. CASE balance' = ActiveSum(rs) /\ res' = rs /\ UNCHANGED <<occ, batch, refused>>
  <2>1. InflightTypeOK'
    BY Zenon, <1>1, <1>7, <1>10, <1>13, <1>14 DEF InflightInv, InflightTypeOK, Reservations
  <2>2. Admitted(balance, res, occ)'
    BY Zenon, <1>11, <1>14 DEF Admitted
  <2>3. ASSUME NEW r \in R PROVE FlowOf(r)'
    <3>1. FlowOf(r) /\ batch[r] \in {"none", "queued", "sending", "terminal"}
      BY Zenon, <1>2, TypesOf DEF Typed
    <3> QED
      BY Zenon, <1>1, <1>8, <1>14, <3>1 DEF FlowOf
  <2>4. Flow' /\ OnlyStaleWritesRefused'
    BY Zenon, <1>14, <2>3 DEF InflightInv, Flow, OnlyStaleWritesRefused
  <2>5. InflightInv'
    BY Zenon, <1>13, <2>1, <2>2, <2>4 DEF InflightInv
  <2>6. ~(balance' > balance)
    BY <1>2, <1>10, <1>14
  <2> QED
    BY Zenon, <2>5, <2>6 DEF InflightGood
<1>15. CASE /\ UNCHANGED <<balance, res, occ, batch>>
            /\ refused' = refused \cup {"reconcile"}
  <2>1. InflightTypeOK'
    BY Zenon, <1>1, <1>13, <1>15 DEF InflightInv, InflightTypeOK
  <2>2. Admitted(balance, res, occ)'
    BY Zenon, <1>15 DEF InflightInv, Admitted, ActiveSum, Chunks, Units, Live
  <2>3. Flow' /\ OnlyStaleWritesRefused'
    BY Zenon, <1>1, <1>15 DEF InflightInv, Flow, FlowOf, OnlyStaleWritesRefused
  <2>4. InflightInv'
    BY Zenon, <1>13, <2>1, <2>2, <2>3 DEF InflightInv
  <2> QED
    BY Zenon, <1>2, <1>15, <2>4, StaysGood
<1> QED
  BY Zenon, <1>12, <1>14, <1>15

\* Nothing is reserved at first.
LEMMA InflightInitInv == InflightInit => InflightInv
<1> SUFFICES ASSUME InflightInit PROVE InflightInv
  OBVIOUS
<1>1. MaxChunks \in Nat /\ IsFiniteSet(R) /\ Cardinality(R) \in Nat
  BY Zenon, SendInflightAssumption, FS_CardinalityType
<1>2. \A r \in R : res[r] = [state |-> "none", chunks |-> 0, expired |-> FALSE]
  BY Zenon DEF InflightInit
<1>3. balance \in 0..(Cardinality(R) * MaxChunks)
  <2>1. Cardinality(R) * MaxChunks \in Nat
    BY Zenon, <1>1, NatProduct
  <2> QED
    BY <2>1 DEF InflightInit
<1>4. InflightTypeOK
  BY <1>1, <1>3 DEF InflightInit, InflightTypeOK, Reservation, NoSnap
<1>5. Admitted(balance, res, occ)
  <2>1. \A r \in R : ~(res[r].state \in Active)
    BY <1>2 DEF Active
  <2>2. Live(res) = {}
    BY Zenon, <2>1 DEF Live
  <2>3. Units(res, Live(res)) = {}
    BY Zenon, <2>2 DEF Units
  <2>4. ActiveSum(res) = 0
    BY Zenon, <2>3, FS_EmptySet DEF ActiveSum, Chunks
  <2> QED
    BY Zenon, <2>1, <2>4 DEF Admitted, InflightInit
<1>6. Flow
  <2> SUFFICES ASSUME NEW r \in R PROVE FlowOf(r)
    BY Zenon DEF Flow
  <2>1. acc[r] = "idle" /\ batch[r] = "none" /\ occ[r] = 0 /\ peek[r] = 0
    BY Zenon DEF InflightInit
  <2> QED
    BY <1>2, <2>1 DEF FlowOf
<1> QED
  BY Zenon, <1>4, <1>5, <1>6 DEF InflightInv, InflightInit, NoSnap, OnlyStaleWritesRefused

\* Every step keeps the invariant and grows the balance only within the limit.
LEMMA NextGood == InflightInv /\ [InflightNext]_inflightVars => InflightGood
<1> SUFFICES ASSUME InflightInv, [InflightNext]_inflightVars PROVE InflightGood
  OBVIOUS
<1>1. ASSUME NEW r \in R,
             \/ Reserve(r) \/ Save(r) \/ AcceptFails(r) \/ ResolveSave(r)
             \/ GiveBack(r) \/ AcceptCrash(r) \/ Expire(r) \/ Read(r)
             \/ Materialize(r) \/ Split(r) \/ ChunkFails(r) \/ BatchEnds(r)
      PROVE  InflightGood
  BY Zenon, <1>1, ReserveStep, SaveStep, GiveBackStep, BatchEndsStep, QuietStep, ExpireStep,
     MaterializeStep, SplitStep
<1> QED
  BY Zenon, <1>1, SnapshotStep, ReconcileStep, SetLimitStep, StutterStep DEF InflightNext

----------------------------------------------------------------------------
(* Results *)

\* At every commit the balance is the sum of the active reservations and no batch
\* occupies more than it reserved, which is what the triggers ask.
THEOREM InflightInvariant == InflightSpec => []InflightInv
<1>1. InflightInv /\ [InflightNext]_inflightVars => InflightInv'
  BY Zenon, NextGood DEF InflightGood
<1> QED
  BY InflightInitInv, <1>1, PTL DEF InflightSpec

\* A batch that is not finished holds its reservation, and an ended one holds none,
\* for any number of acceptances: neither release_unbound_acceptance_reservation in
\* the finally block of an acceptor that lost the answer to its commit, nor a
\* reconciliation that works from old rows, takes a bound reservation away.
THEOREM LiveBatchesHold == InflightSpec => []HeldWhileLive
<1>1. InflightInv => HeldWhileLive
  BY Zenon DEF InflightInv, Flow, FlowOf, HeldWhileLive
<1> QED
  BY InflightInvariant, <1>1, PTL

\* The deferred triggers refuse only a split or a reconciliation that worked from
\* rows it read before the balance lock: accepting, preparing and releasing always
\* commit.
THEOREM RefusalsAreStale == InflightSpec => []OnlyStaleWritesRefused
<1>1. InflightInv => OnlyStaleWritesRefused
  BY Zenon DEF InflightInv
<1> QED
  BY InflightInvariant, <1>1, PTL

\* No step raises the balance above max_in_flight_chunks, the repair of drifted
\* rows included, which asks for no room.
THEOREM GrowthIsLimited == InflightSpec => GrowthWithinLimit
<1>1. InflightInv /\ [InflightNext]_inflightVars => [balance' > balance => balance' <= limit]_inflightVars
  BY Zenon, NextGood DEF InflightGood
<1> QED
  BY InflightInvariant, <1>1, PTL DEF InflightSpec, GrowthWithinLimit

=============================================================================
