--------------------------- MODULE SendInflight ---------------------------
(***************************************************************************)
(* How many chunks an application may have in flight.  Every accepted batch  *)
(* holds a reservation                                                      *)
(*     reserved -> batch_bound -> materialized -> released                  *)
(* and the balance of the application is the sum of the active ones.  The    *)
(* acceptor reserves before it screens the recipients, binds in the           *)
(* transaction that saves the batch and otherwise gives the reservation      *)
(* back.  A worker corrects the estimate when it makes the chunks and grows  *)
(* it by one for each split.  The end of the batch releases it.  A periodic   *)
(* reconciliation releases what acceptors left behind.                      *)
(*                                                                         *)
(* Deferred constraint triggers refuse a transaction that would leave the    *)
(* balance different from the sum, or more occupying chunks than reserved.    *)
(* A transaction that reads the reservation before it has the balance lock   *)
(* is two actions; the others are one.  Worker transactions keep the lock on *)
(* the batch row between their two actions.                                 *)
(*                                                                         *)
(* The generation of a reservation changes only when it is released, which   *)
(* is for good, so comparing generations is asking whether it was released.   *)
(* One application; reservation, acceptor and batch share a name.            *)
(***************************************************************************)
EXTENDS Integers, FiniteSets

CONSTANTS
  R,            \* the reservations, one for each acceptance
  Limits,       \* the values max_in_flight_chunks is given
  MaxEstimate,  \* bound on the estimated chunks of a batch
  MaxChunks     \* bound on the chunks of a batch after splits

ASSUME SendInflightAssumption ==
  /\ IsFiniteSet(R)
  /\ Limits # {} /\ Limits \subseteq Nat \ {0}
  /\ MaxEstimate \in Nat \ {0} /\ MaxChunks \in Nat /\ MaxEstimate <= MaxChunks

VARIABLES
  limit,     \* app.max_in_flight_chunks
  balance,   \* send_inflight_balance.reserved_chunks
  res,       \* the reservations: state, chunks, and whether expires_at passed
  batch,     \* status of the batch of each reservation
  occ,       \* its chunks in an occupying state
  acc,       \* where each acceptor is
  peek,      \* the reserved_chunks a worker transaction has read, 0 if none
  snap,      \* the rows a reconciliation round works from
  refused    \* operations whose commit a trigger refused

inflightVars == <<limit, balance, res, batch, occ, acc, peek, snap, refused>>
books == <<balance, res, occ, batch, refused>>

NoSnap == [taken |-> FALSE, orphans |-> {}, terminals |-> {},
           seen |-> [r \in R |-> 0]]

Reservation ==
  [state : {"none", "reserved", "batch_bound", "materialized", "released"},
   chunks : 0..MaxChunks, expired : BOOLEAN]

\* Every variable keeps its type; occupancy and reservations stay within their bounds.
InflightTypeOK ==
  /\ limit \in Limits
  /\ balance \in 0..(Cardinality(R) * MaxChunks)
  /\ res \in [R -> Reservation]
  /\ batch \in [R -> {"none", "queued", "sending", "terminal"}]
  /\ occ \in [R -> 0..MaxChunks]
  /\ acc \in [R -> {"idle", "held", "unsure", "release", "accepted", "gone"}]
  /\ peek \in [R -> 0..MaxChunks]
  /\ snap \in [taken : BOOLEAN, orphans : SUBSET R, terminals : SUBSET R,
               seen : [R -> 0..MaxChunks]]
  /\ refused \subseteq {"reserve", "bind", "release", "materialize", "split",
                        "reconcile", "balance"}

Active == {"reserved", "batch_bound", "materialized"}
Live(rs) == {r \in R : rs[r].state \in Active}

\* SUM(reserved_chunks) over S, taken as the number of chunks, each named by its
\* reservation and its place in it.
Units(rs, S) == UNION {{r} \X (1..rs[r].chunks) : r \in S}
Chunks(rs, S) == Cardinality(Units(rs, S))

ActiveSum(rs) == Chunks(rs, Live(rs))

\* What the two deferred triggers ask of the rows a transaction leaves.
Admitted(bal, rs, oc) ==
  /\ bal = ActiveSum(rs)
  /\ \A r \in R : rs[r].state \in Active => oc[r] <= rs[r].chunks

\* Commit of the operation op with the rows it leaves, or its refusal.
Commit(op, bal, rs, oc, bt) ==
  IF Admitted(bal, rs, oc)
  THEN balance' = bal /\ res' = rs /\ occ' = oc /\ batch' = bt /\ UNCHANGED refused
  ELSE UNCHANGED <<balance, res, occ, batch>> /\ refused' = refused \cup {op}

InflightInit ==
  /\ limit \in Limits
  /\ balance = 0
  /\ res = [r \in R |-> [state |-> "none", chunks |-> 0, expired |-> FALSE]]
  /\ batch = [r \in R |-> "none"]
  /\ occ = [r \in R |-> 0]
  /\ acc = [r \in R |-> "idle"]
  /\ peek = [r \in R |-> 0]
  /\ snap = NoSnap
  /\ refused = {}

Released(rs, S) ==
  [r \in R |-> IF r \in S THEN [rs[r] EXCEPT !.state = "released"] ELSE rs[r]]

-----------------------------------------------------------------------------
(* The acceptor.                                                            *)

\* Reserve the estimate, if it fits.  When the answer to the commit is lost
\* the acceptor knows no reservation and gives up.
Reserve(r) ==
  /\ acc[r] = "idle"
  /\ \E n \in 1..MaxEstimate :
       /\ balance + n <= limit
       /\ Commit("reserve", balance + n,
                 [res EXCEPT ![r].state = "reserved", ![r].chunks = n], occ, batch)
  /\ \E next \in {"held", "gone"} : acc' = [acc EXCEPT ![r] = next]
  /\ UNCHANGED <<limit, peek, snap>>

Bindable(r) == res[r].state = "reserved" /\ ~res[r].expired

\* The transaction that saves the batch binds the reservation and commits; the
\* acceptor hears of it, gets an error instead, or is cancelled.
Save(r) ==
  /\ acc[r] = "held"
  /\ Bindable(r)
  /\ Commit("bind", balance, [res EXCEPT ![r].state = "batch_bound"], occ,
            [batch EXCEPT ![r] = "queued"])
  /\ \E next \in {"accepted", "unsure", "release"} : acc' = [acc EXCEPT ![r] = next]
  /\ UNCHANGED <<limit, peek, snap>>

\* The acceptance fails before the save, or the save is rolled back.
AcceptFails(r) ==
  /\ acc[r] = "held"
  /\ \E next \in {"unsure", "release"} : acc' = [acc EXCEPT ![r] = next]
  /\ UNCHANGED <<limit, books, peek, snap>>

\* resolve_ambiguous_acceptance_commit: UNBOUND is released, a bound batch is
\* the answer, UNKNOWN leaves everything as it is.
ResolveSaveKnown(r) == IF batch[r] # "none" THEN "accepted" ELSE "release"
ResolveSave(r) ==
  /\ acc[r] = "unsure"
  /\ \E next \in {ResolveSaveKnown(r), "gone"} : acc' = [acc EXCEPT ![r] = next]
  /\ UNCHANGED <<limit, books, peek, snap>>

\* A release that does not ask whether the reservation was bound.
GiveBackAny(r) ==
  /\ acc[r] = "release"
  /\ acc' = [acc EXCEPT ![r] = "gone"]
  /\ IF res[r].state \in Active
     THEN Commit("release", balance - res[r].chunks, Released(res, {r}), occ, batch)
     ELSE UNCHANGED books
  /\ UNCHANGED <<limit, peek, snap>>

\* A release that does not ask whether the reservation still counts.
GiveBackTwice(r) ==
  /\ acc[r] = "release"
  /\ acc' = [acc EXCEPT ![r] = "gone"]
  /\ IF batch[r] = "none"
     THEN Commit("release", balance - res[r].chunks, Released(res, {r}), occ, batch)
     ELSE UNCHANGED books
  /\ UNCHANGED <<limit, peek, snap>>

\* release_unbound_acceptance_reservation in the finally block.
GiveBack(r) ==
  /\ acc[r] = "release"
  /\ acc' = [acc EXCEPT ![r] = "gone"]
  /\ IF res[r].state = "reserved"
     THEN Commit("release", balance - res[r].chunks, Released(res, {r}), occ, batch)
     ELSE UNCHANGED books
  /\ UNCHANGED <<limit, peek, snap>>

\* The process ends, or the release itself fails.
AcceptCrash(r) ==
  /\ acc[r] \in {"held", "unsure", "release"}
  /\ acc' = [acc EXCEPT ![r] = "gone"]
  /\ UNCHANGED <<limit, books, peek, snap>>

\* Fifteen minutes pass.
Expire(r) ==
  /\ res[r].state = "reserved" /\ ~res[r].expired
  /\ res' = [res EXCEPT ![r].expired = TRUE]
  /\ UNCHANGED <<limit, balance, batch, occ, acc, peek, snap, refused>>

-----------------------------------------------------------------------------
(* Workers.                                                                 *)

\* A transaction that makes the chunks, or splits one, has locked the batch
\* and reads the reservation.
Read(r) ==
  /\ peek[r] = 0
  /\ res[r].state \in {"batch_bound", "materialized"}
  /\ \/ batch[r] = "queued"
     \/ batch[r] = "sending" /\ occ[r] > 0 /\ res[r].chunks < MaxChunks
  /\ peek' = [peek EXCEPT ![r] = res[r].chunks]
  /\ UNCHANGED <<limit, books, acc, snap>>

\* prepare_chunks: n chunks are made and the estimate corrected.  Over the
\* limit the transaction is rolled back.
Materialize(r) ==
  /\ peek[r] # 0 /\ batch[r] = "queued"
  /\ peek' = [peek EXCEPT ![r] = 0]
  /\ \E n \in 0..MaxEstimate :
       LET need == IF n = 0 THEN 1 ELSE n
           bal  == balance + need - peek[r]
           rs   == [res EXCEPT ![r].state = "materialized", ![r].chunks = need]
       IN  IF need = peek[r] \/ bal <= limit
           THEN Commit("materialize", bal, rs, [occ EXCEPT ![r] = n],
                       [batch EXCEPT ![r] = "sending"])
           ELSE UNCHANGED books
  /\ UNCHANGED <<limit, acc, snap>>

\* A split that does not ask for room.
SplitUnbounded(r) ==
  /\ peek[r] # 0 /\ batch[r] = "sending"
  /\ peek' = [peek EXCEPT ![r] = 0]
  /\ Commit("split", balance + 1, [res EXCEPT ![r].chunks = peek[r] + 1],
            [occ EXCEPT ![r] = @ + 1], batch)
  /\ UNCHANGED <<limit, acc, snap>>

\* complete_vendor_split: two children replace the parent.  Without room the
\* parent stays, split_capacity_blocked, and is tried again.
Split(r) ==
  /\ peek[r] # 0 /\ batch[r] = "sending"
  /\ peek' = [peek EXCEPT ![r] = 0]
  /\ IF balance + 1 <= limit
     THEN Commit("split", balance + 1, [res EXCEPT ![r].chunks = peek[r] + 1],
                 [occ EXCEPT ![r] = @ + 1], batch)
     ELSE UNCHANGED books
  /\ UNCHANGED <<limit, acc, snap>>

\* One of several chunks fails; its messages are final, others are not.
ChunkFails(r) ==
  /\ batch[r] = "sending" /\ peek[r] = 0 /\ occ[r] > 1
  /\ occ' = [occ EXCEPT ![r] = @ - 1]
  /\ UNCHANGED <<limit, balance, res, refused, batch, acc, peek, snap>>

\* The batch is completed, cancelled, rejected or expired, and in the same
\* transaction its reservation is released.
BatchEnds(r) ==
  /\ batch[r] \in {"queued", "sending"} /\ peek[r] = 0
  /\ LET ended == [batch EXCEPT ![r] = "terminal"]
     IN  IF res[r].state \in Active
         THEN Commit("release", balance - res[r].chunks, Released(res, {r}), occ, ended)
         ELSE batch' = ended /\ UNCHANGED <<balance, res, occ, refused>>
  /\ UNCHANGED <<limit, acc, peek, snap>>

-----------------------------------------------------------------------------
(* Reconciliation.                                                          *)

\* A round that knows only the reservations of batches.
SnapshotBatches ==
  /\ ~snap.taken
  /\ snap' = [taken |-> TRUE, orphans |-> {},
              terminals |-> {r \in R : res[r].state \in Active /\ batch[r] = "terminal"},
              seen |-> [r \in R |-> IF res[r].state = "materialized"
                                    THEN res[r].chunks ELSE 0]]
  /\ UNCHANGED <<limit, books, acc, peek>>

\* The rows a round works from are read before any lock is taken.
Snapshot ==
  /\ ~snap.taken
  /\ snap' = [taken |-> TRUE,
              orphans |-> {r \in R : res[r].state = "reserved" /\ res[r].expired},
              terminals |-> {r \in R : res[r].state \in Active /\ batch[r] = "terminal"},
              seen |-> [r \in R |-> IF res[r].state = "materialized"
                                    THEN res[r].chunks ELSE 0]]
  /\ UNCHANGED <<limit, books, acc, peek>>

\* Materialized reservations that the snapshot shows below their occupancy.
Drifted(rs) ==
  {r \in R : snap.seen[r] > 0 /\ occ[r] > snap.seen[r] /\ rs[r].state = "materialized"}

\* Under the balance lock: expired reservations that are still unbound and
\* those of ended batches are released, drifted ones set to their occupancy,
\* and the balance to the sum if the application is among the hundred that the
\* round balances.
Reconcile ==
  /\ snap.taken
  /\ LET gone  == {r \in snap.orphans : res[r].state = "reserved" /\ res[r].expired}
                    \cup {r \in snap.terminals : res[r].state \in Active}
         freed == Released(res, gone)
         grown == Drifted(freed)
         rs    == [r \in R |-> IF r \in grown THEN [freed[r] EXCEPT !.chunks = occ[r]]
                               ELSE freed[r]]
         sum   == balance - Chunks(res, gone)
                    + Cardinality(UNION {{r} \X ((snap.seen[r] + 1)..occ[r]) : r \in grown})
     IN  \/ Commit("balance", ActiveSum(rs), rs, occ, batch)
         \/ Commit("reconcile", sum, rs, occ, batch)
  /\ snap' = NoSnap
  /\ UNCHANGED <<limit, acc, peek>>

SetLimit ==
  /\ \E l \in Limits : limit' = l
  /\ UNCHANGED <<books, acc, peek, snap>>

InflightNext ==
  \/ \E r \in R : \/ Reserve(r) \/ Save(r) \/ AcceptFails(r) \/ ResolveSave(r)
                  \/ GiveBack(r) \/ AcceptCrash(r) \/ Expire(r) \/ Read(r)
                  \/ Materialize(r) \/ Split(r) \/ ChunkFails(r) \/ BatchEnds(r)
  \/ Snapshot \/ Reconcile \/ SetLimit

InflightSpec == InflightInit /\ [][InflightNext]_inflightVars

\* Time passes and the reconciliation runs every minute; nothing else is sure
\* to happen.
InflightFairSpec ==
  /\ InflightSpec
  /\ \A r \in R : WF_inflightVars(Expire(r))
  /\ WF_inflightVars(Snapshot) /\ WF_inflightVars(Reconcile)

-----------------------------------------------------------------------------
(* Properties.                                                              *)

\* A batch that is not finished holds its reservation, whatever the acceptor
\* that saved it believes and whenever the fifteen minutes end: neither the
\* finally block nor the reconciliation takes it away.  The end of the batch
\* frees what it held, and no later write of a worker or of the reconciliation,
\* working from what it read before, takes it again.
HeldWhileLive ==
  \A r \in R :
    /\ batch[r] \in {"queued", "sending"} =>
         res[r].state \in {"batch_bound", "materialized"}
    /\ batch[r] = "terminal" => res[r].state = "released"

\* The triggers never stand in the way of accepting, preparing or releasing.
\* They may refuse a split that read the reservation before a reconciliation
\* changed it, and a reconciliation that does not balance the application.
OnlyStaleWritesRefused == refused \subseteq {"split", "reconcile"}

\* The balance grows only within the limit, the repair of drifted rows, which
\* has no limit, included.
GrowthWithinLimit == [][balance' > balance => balance' <= limit]_inflightVars

\* What an acceptor left behind is released in the end.
OrphansReclaimed ==
  \A r \in R : (acc[r] = "gone" /\ res[r].state = "reserved")
                 ~> res[r].state = "released"

\* reconcile_split_occupancy_drift says of itself that it only grows a
\* reservation.
RepairOnlyGrows ==
  [][\A r \in R : (snap.taken /\ ~snap'.taken /\ res'[r].state = "materialized")
                     => res'[r].chunks >= res[r].chunks]_inflightVars
=============================================================================
