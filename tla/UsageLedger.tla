---------------------------- MODULE UsageLedger ----------------------------
(***************************************************************************)
(* The PostgreSQL fact ledger behind daily quotas and phone frequency      *)
(* limits (services/usage_ledger*.py), for one Shanghai day.  An           *)
(* acceptance opens a reservation row under its request key, books a       *)
(* frequency entry and three quota entries in it, and turns it into a      *)
(* committed charge in the transaction that inserts the batch.  Failed     *)
(* acceptances, ended batches and orphan recovery release it again.        *)
(*                                                                         *)
(* Every engine.begin() block is one action.  The projection rows of       *)
(* usage_projection are "value"; what Redis makes of them is module        *)
(* UsageProjection, and here only the outcome of writing it matters.       *)
(***************************************************************************)
EXTENDS Integers, FiniteSets

CONSTANTS
  Requests,      \* acceptance attempts
  Rows,          \* ids of usage_reservation
  Keys,          \* request keys: one per idempotent request and day
  Apps, Phones,  \* what quota and frequency are counted per
  Dept,          \* the department all applications belong to
  KeyOf,         \* [Requests -> Keys]
  AppOf,         \* [Keys -> Apps]
  PhoneOf,       \* [Keys -> Phones]
  Notices,       \* which keys may be of category notice: no frequency limit
  Costs,         \* billed segments of one request
  AppLimit, DeptLimit,  \* daily limits, 0 for none
  FreqLimit,     \* accepted messages per phone and day
  MaxAborts,     \* recovery rounds cut short by a running rebuild
  NoRow

ASSUME UsageLedgerAssumption ==
  /\ IsFiniteSet(Rows) /\ Keys # {}
  /\ KeyOf \in [Requests -> Keys]
  /\ AppOf \in [Keys -> Apps]
  /\ PhoneOf \in [Keys -> Phones]
  /\ Notices \subseteq SUBSET Keys
  /\ Costs \subseteq Nat \ {0}
  /\ {AppLimit, DeptLimit, FreqLimit, MaxAborts} \subseteq Nat
  /\ NoRow \notin Rows
  /\ Apps \cap Phones = {}
  /\ Dept \notin Apps \cup Phones

VARIABLES
  res,      \* usage_reservation and its entries
  batch,    \* the sms_batch that names the reservation
  value,    \* usage_projection.value by dimension
  req,      \* acceptance attempts: control point, reservation, retries
  orphans,  \* ids the recovery task has read and not yet handled
  aborts,
  notice    \* the keys whose category is notice

vars == <<res, batch, value, req, orphans, aborts, notice>>

Dims == Apps \cup {Dept} \cup Phones

Active == {"reserved", "committed", "uncertain"}

Pcs == {"start", "drain", "freq", "freq_apply", "quota", "quota_apply",
        "commit", "release", "over"}

Reservation ==
  [state: Active \cup {"none", "release_requested", "released"},
   key: Keys, cost: Costs \cup {0}, freq: {"none", "counted", "filtered"}]

\* Every variable keeps its type; no usage value becomes negative.
TypeOK ==
  /\ res \in [Rows -> Reservation]
  /\ batch \in [Rows -> {"none", "live", "ended"}]
  /\ value \in [Dims -> Nat]
  /\ req \in [Requests -> [pc: Pcs, r: Rows \cup {NoRow}, drained: 0..2]]
  /\ orphans \subseteq Rows
  /\ aborts \in 0..MaxAborts
  /\ notice \in Notices

Init ==
  /\ res = [r \in Rows |-> [state |-> "none", key |-> CHOOSE k \in Keys : TRUE,
                            cost |-> 0, freq |-> "none"]]
  /\ batch = [r \in Rows |-> "none"]
  /\ value = [d \in Dims |-> 0]
  /\ req = [p \in Requests |-> [pc |-> "start", r |-> NoRow, drained |-> 0]]
  /\ orphans = {}
  /\ aborts = 0
  /\ notice \in Notices

QuotaDims(k) == {AppOf[k], Dept}

\* What the entries of a reservation count for in a dimension.
Amount(e, d) ==
  (IF d \in QuotaDims(e.key) THEN e.cost ELSE 0)
  + (IF d = PhoneOf[e.key] /\ e.freq = "counted" THEN 1 ELSE 0)

Goto(p, pc) == req' = [req EXCEPT ![p].pc = pc]

Linked(r) == batch[r] # "none"

----------------------------------------------------------------------------
(* Acceptance *)

\* INSERT ... ON CONFLICT(request_key) WHERE state is not released: the active
\* row of the key is reused, an uncertain one is drained first, at most once.
StartReservation(p) ==
  LET k == KeyOf[p]
      held == {r \in Rows : res[r].state \in Active /\ res[r].key = k}
      Take(r) == req' = [req EXCEPT ![p].pc = IF k \in notice THEN "quota" ELSE "freq",
                                    ![p].r = r]
  IN  /\ req[p].pc = "start"
      /\ \/ /\ held = {}
            /\ \E r \in Rows :
                 /\ res[r].state = "none"
                 /\ res' = [res EXCEPT ![r] = [state |-> "reserved", key |-> k,
                                               cost |-> 0, freq |-> "none"]]
                 /\ Take(r)
         \/ \E r \in held :
              /\ UNCHANGED res
              /\ IF res[r].state = "uncertain"
                 THEN req' = [req EXCEPT ![p].pc = "drain", ![p].r = r]
                 ELSE Take(r)
      /\ UNCHANGED <<batch, value, orphans, aborts, notice>>

\* _request_release on an active row: one release fact, and the entries leave
\* the projection in the same transaction.
RequestRelease(r) ==
  /\ res' = [res EXCEPT ![r].state = "release_requested"]
  /\ value' = [d \in Dims |->
                 IF value[d] > Amount(res[r], d) THEN value[d] - Amount(res[r], d) ELSE 0]

\* Mutant: the batch link is not looked up under the row lock.
ReleaseAnyActive(r) ==
  IF res[r].state \in Active THEN RequestRelease(r) ELSE UNCHANGED <<res, value>>

\* request_unlinked_release: nothing for a row a batch names, nothing but a
\* repeated event or a conflict for one that is released already.
ReleaseUnlinked(r) ==
  IF ~Linked(r) /\ res[r].state \in Active
  THEN RequestRelease(r)
  ELSE UNCHANGED <<res, value>>

\* The second round of start_reservation's loop, or its final conflict.
Drain(p) ==
  /\ req[p].pc = "drain"
  /\ ReleaseUnlinked(req[p].r)
  /\ req' = [req EXCEPT ![p] = [pc |-> IF req[p].drained = 1 THEN "over" ELSE "start",
                                r |-> NoRow, drained |-> req[p].drained + 1]]
  /\ UNCHANGED <<batch, orphans, aborts, notice>>

\* The frequency entries of a phone that count.
Counted(phone) ==
  {r \in Rows : /\ res[r].state \in Active
                /\ res[r].freq = "counted"
                /\ PhoneOf[res[r].key] = phone}

\* Mutant: the message itself is not counted against the limit.
AllowFrequencyLate(p) ==
  LET r == req[p].r
      phone == PhoneOf[res[r].key]
  IN  /\ req[p].pc = "freq"
      /\ res[r].state = "reserved"
      /\ res[r].freq = "none"
      /\ Cardinality(Counted(phone)) <= FreqLimit
      /\ res' = [res EXCEPT ![r].freq = "counted"]
      /\ value' = [value EXCEPT ![phone] = @ + 1]
      /\ Goto(p, "freq_apply")
      /\ UNCHANGED <<batch, orphans, aborts, notice>>

\* The decision counts facts, not the projection; a repeated call replays it.
AllowFrequency(p) ==
  LET r == req[p].r
      phone == PhoneOf[res[r].key]
      allowed == Cardinality(Counted(phone)) + 1 <= FreqLimit
  IN  /\ req[p].pc = "freq"
      /\ \/ /\ res[r].state # "reserved"
            /\ Goto(p, "release")
            /\ UNCHANGED <<res, value>>
         \/ /\ res[r].state = "reserved"
            /\ res[r].freq # "none"
            /\ Goto(p, "freq_apply")
            /\ UNCHANGED <<res, value>>
         \/ /\ res[r].state = "reserved"
            /\ res[r].freq = "none"
            /\ res' = [res EXCEPT ![r].freq = IF allowed THEN "counted" ELSE "filtered"]
            /\ value' = [value EXCEPT ![phone] = IF allowed THEN @ + 1 ELSE @]
            /\ Goto(p, "freq_apply")
      /\ UNCHANGED <<batch, orphans, aborts, notice>>

\* Both quota dimensions are decided under their locks; a row that has entries
\* only accepts the same contract again.
ReserveQuota(p, c) ==
  LET r == req[p].r
      e == res[r]
      Fits(d, limit) == limit = 0 \/ value[d] + c <= limit
      fits == Fits(AppOf[e.key], AppLimit) /\ Fits(Dept, DeptLimit)
  IN  /\ req[p].pc = "quota"
      /\ \/ /\ \/ e.state # "reserved"
               \/ e.cost \notin {0, c}
               \/ e.cost = 0 /\ ~fits
            /\ Goto(p, "release")
            /\ UNCHANGED <<res, value>>
         \/ /\ e.state = "reserved"
            /\ e.cost = c
            /\ Goto(p, "quota_apply")
            /\ UNCHANGED <<res, value>>
         \/ /\ e.state = "reserved"
            /\ e.cost = 0
            /\ fits
            /\ res' = [res EXCEPT ![r].cost = c]
            /\ value' = [d \in Dims |-> IF d \in QuotaDims(e.key) THEN value[d] + c ELSE value[d]]
            /\ Goto(p, "quota_apply")
      /\ UNCHANGED <<batch, orphans, aborts, notice>>

\* Redis took the rows: on to quota, to the filtered exit, or to the commit.
Applied(p) ==
  /\ \/ /\ req[p].pc = "freq_apply"
        /\ Goto(p, IF res[req[p].r].freq = "counted" THEN "quota" ELSE "release")
     \/ /\ req[p].pc = "quota_apply"
        /\ Goto(p, "commit")
  /\ UNCHANGED <<res, batch, value, orphans, aborts, notice>>

\* Redis did not: _mark_uncertain, then the acceptance fails.
ApplyFailed(p) ==
  LET r == req[p].r
  IN  /\ req[p].pc \in {"freq_apply", "quota_apply"}
      /\ res' = [res EXCEPT ![r].state = IF @ = "reserved" THEN "uncertain" ELSE @]
      /\ Goto(p, "release")
      /\ UNCHANGED <<batch, value, orphans, aborts, notice>>

\* Projection not ready, claim ownership lost, rebuild running.
WorkFailed(p) ==
  /\ req[p].pc \in {"freq", "quota", "commit"}
  /\ Goto(p, "release")
  /\ UNCHANGED <<res, batch, value, orphans, aborts, notice>>

\* The batch transaction.  Its answer may be lost, and then the acceptance
\* goes on to release what it may or may not have committed.
CommitBatch(p) ==
  LET r == req[p].r
      ok == res[r].state = "reserved" /\ ~Linked(r)
  IN  /\ req[p].pc = "commit"
      /\ IF ok
         THEN /\ batch' = [batch EXCEPT ![r] = "live"]
              /\ res' = [res EXCEPT ![r].state = "committed"]
              /\ \E pc \in {"over", "release"} : Goto(p, pc)
         ELSE /\ UNCHANGED <<batch, res>>
              /\ Goto(p, "release")
      /\ UNCHANGED <<value, orphans, aborts, notice>>

\* _release_usage; its own failure is logged and left to the recovery task.
ReleaseUsage(p) ==
  /\ req[p].pc = "release"
  /\ \/ ReleaseUnlinked(req[p].r)
     \/ UNCHANGED <<res, value>>
  /\ Goto(p, "over")
  /\ UNCHANGED <<batch, orphans, aborts, notice>>

Crash(p) ==
  /\ req[p].pc # "over"
  /\ Goto(p, "over")
  /\ UNCHANGED <<res, batch, value, orphans, aborts, notice>>

----------------------------------------------------------------------------
(* Release, recovery *)

\* Cancelled, rejected, expired, or confirmed unsent: the business transaction
\* that ends the batch releases its charge.
EndBatch(r) ==
  /\ batch[r] = "live"
  /\ batch' = [batch EXCEPT ![r] = "ended"]
  /\ IF res[r].state \in Active THEN RequestRelease(r) ELSE UNCHANGED <<res, value>>
  /\ UNCHANGED <<req, orphans, aborts, notice>>

\* apply_release, from the Outbox or from the recovery of stuck rows.
ApplyRelease(r) ==
  /\ res[r].state = "release_requested"
  /\ res' = [res EXCEPT ![r].state = "released"]
  /\ UNCHANGED <<batch, value, req, orphans, aborts, notice>>

\* Mutant: rows whose projection write failed are not looked for.
ScanReservedOnly(r) ==
  /\ res[r].state = "reserved"
  /\ orphans' = orphans \cup {r}
  /\ UNCHANGED <<res, batch, value, req, aborts, notice>>

\* recover_orphans reads the ids first.  The age threshold is no lease: the
\* acceptance that holds the row may still be running.
ScanOrphan(r) ==
  /\ res[r].state \in {"reserved", "uncertain"}
  /\ orphans' = orphans \cup {r}
  /\ UNCHANGED <<res, batch, value, req, aborts, notice>>

RecoverOrphan(r) ==
  /\ r \in orphans
  /\ ReleaseUnlinked(r)
  /\ orphans' = orphans \ {r}
  /\ UNCHANGED <<batch, req, aborts, notice>>

\* A rebuild holds the writer lock: UsageProjectionUnavailable ends the round.
RecoverAborted ==
  /\ orphans # {}
  /\ aborts < MaxAborts
  /\ orphans' = {}
  /\ aborts' = aborts + 1
  /\ UNCHANGED <<res, batch, value, req, notice>>

Acceptance(p) ==
  \/ StartReservation(p) \/ Drain(p) \/ AllowFrequency(p)
  \/ \E c \in Costs : ReserveQuota(p, c)
  \/ Applied(p) \/ ApplyFailed(p) \/ WorkFailed(p)
  \/ CommitBatch(p) \/ ReleaseUsage(p) \/ Crash(p)

Recovery(r) == ApplyRelease(r) \/ ScanOrphan(r) \/ RecoverOrphan(r)

Next ==
  \/ \E p \in Requests : Acceptance(p)
  \/ \E r \in Rows : EndBatch(r) \/ Recovery(r)
  \/ RecoverAborted

Spec == Init /\ [][Next]_vars

\* Beat runs the recovery, the Outbox runs the release effect; nobody promises
\* that an acceptance ends.
FairSpec == Spec /\ WF_vars(\E r \in Rows : Recovery(r))

----------------------------------------------------------------------------
(* Properties *)

\* What the entries of the active reservations count for together: the number of
\* units, each named by its reservation and its place in it.
Units(rs, d) ==
  UNION {{r} \X (1..Amount(rs[r], d)) : r \in {q \in Rows : rs[q].state \in Active}}
Booked(d) == Cardinality(Units(res, d))

\* Concurrent acceptances never book more than the application, department and
\* phone limits together allow (reserve_quota, _insert_frequency_decisions), and
\* the value a decision reads is the sum of the entries of the active
\* reservations in every dimension, whatever was replayed, released twice,
\* drained or recovered (usage_ledger_release.py: 重复消费不得二次回补).
WithinLimits ==
  /\ \A d \in Dims : value[d] = Booked(d)
  /\ \A a \in Apps : AppLimit = 0 \/ Booked(a) <= AppLimit
  /\ DeptLimit = 0 \/ Booked(Dept) <= DeptLimit
  /\ \A ph \in Phones : Booked(ph) <= FreqLimit

\* A batch that may be sent keeps its charge: neither a retry of its request, nor
\* a failed answer to its own commit, nor the orphan recovery that read its row
\* before the commit releases it (recover_orphans: 无绑定检查的释放会造成配额双花).
LiveBatchCharged ==
  \A r \in Rows : batch[r] = "live" => res[r].state = "committed" /\ res[r].cost > 0

\* A reservation whose acceptance crashed, hung or could not write Redis does not
\* occupy quota for ever: it is committed to a batch or released, again and again
\* until no row is left in between.
OrphansReleased ==
  []<>(\A r \in Rows : res[r].state \in {"none", "committed", "released"})

=============================================================================
