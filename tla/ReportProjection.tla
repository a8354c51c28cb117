-------------------------- MODULE ReportProjection --------------------------
(***************************************************************************)
(* How delivery reports, the send result, the blacklist check, the         *)
(* uncertain sweep and the report timeout together move the messages of    *)
(* one batch, and how the counters and the status kept on sms_batch follow *)
(* them (services/report_repository.py, report_projection.py and the other *)
(* writers of sms_message.status).                                         *)
(*                                                                         *)
(* Every writer runs in one transaction that locks chunk, batch and        *)
(* message in this order, and is one action.  Reports arrive in any order  *)
(* and any number of times: a raw response is replayed until it is marked  *)
(* processed.  The timeout sweep claims a batch in a first transaction and *)
(* works in a second one.                                                  *)
(***************************************************************************)
EXTENDS Integers, FiniteSets

CONSTANTS
  Messages,    \* the messages of the batch
  Chunks,
  ChunkOf,     \* [Messages -> Chunks]
  Events,      \* reports the vendors deliver: msg, status, time and key
  Drifted,     \* messages an older version set back to sent under a report
  Sweepers,    \* runs of the timeout task
  SweepLimit,  \* message_limit_per_batch
  MaxFaults,   \* sweeps that fail, die, or outlive their lease
  Null

ReportStatuses == {0, 1, 2, 3, 99}

\* A batch has a message: acceptance refuses one whose recipients are all filtered.
ASSUME ReportProjectionAssumption ==
  /\ ChunkOf \in [Messages -> Chunks]
  /\ IsFiniteSet(Messages)
  /\ Messages # {}
  /\ \A e \in Events : /\ e.msg \in Messages
                       /\ e.status \in ReportStatuses
                       /\ e.time \in Nat
                       /\ e.key \in Nat
  /\ \A e, f \in Events : e.key = f.key => e = f
  /\ Drifted \subseteq {e.msg : e \in Events}
  /\ SweepLimit \in Nat \ {0}
  /\ MaxFaults \in Nat
  /\ Null \notin Events
  /\ Null \notin Nat

VARIABLES
  msg,        \* sms_message: status and the report it shows
  projected,  \* report_event_projection: the events applied so far
  chunk,      \* sms_chunk.status
  batch,      \* sms_batch: counters and status
  timeout,    \* sms_batch: report_timeout_generation and _next_attempt_at
  sweep,      \* timeout tasks: idle, or working under a generation
  faults

reportVars == <<msg, projected, chunk, batch, timeout, sweep, faults>>

ActiveStatuses == {"pending", "sent"}
MessageStatuses == ActiveStatuses \cup {"delivered", "failed", "unknown", "other"}
ChunkStatuses == {"ready", "submitting", "submitted", "failed", "uncertain",
                  "unknown_terminal"}

Message == [status: MessageStatuses, report: Events \cup {Null}]

\* The counters and the status; an active count of Null is not valid.
Batch == [delivered: Nat, failed: Nat, unknown: Nat, active: Nat \cup {Null},
          status: {"sending", "completed", "completed_unknown"}]

\* Every variable keeps its type; no counter becomes negative.
ReportTypeOK ==
  /\ msg \in [Messages -> Message]
  /\ projected \subseteq Events
  /\ chunk \in [Chunks -> ChunkStatuses]
  /\ batch \in Batch
  /\ timeout \in [gen: Nat, next: {"null", "later", "due"}]
  /\ sweep \in [Sweepers -> Nat \cup {Null}]
  /\ faults \in 0..MaxFaults

\* _message_status
StatusOf(e) ==
  CASE e.status = 1 -> "delivered"
    [] e.status \in {2, 99} -> "failed"
    [] e.status = 0 -> "unknown"
    [] OTHER -> "other"

----------------------------------------------------------------------------
(* Which report a message shows *)

Class(s) == CASE s = 1 -> 4 [] s \in {2, 99} -> 3 [] s = 0 -> 1 [] OTHER -> 2

Rank(s) == CASE s = 1 -> 40 [] s = 99 -> 35 [] s = 2 -> 30 [] s = 3 -> 20
             [] s = 0 -> 10 [] OTHER -> 15

\* Mutant: the later report wins whatever it says.
LatestWins(e, old) == IF old = Null THEN TRUE ELSE e.time > old.time

\* The WHERE of apply_report's UPDATE: e replaces the report old.
Supersedes(e, old) ==
  \/ old = Null
  \/ /\ old # Null
     /\ old.status # 1 \/ e.status \notin {2, 99}
     /\ \/ Class(e.status) > Class(old.status)
        \/ /\ Class(e.status) = Class(old.status)
           /\ \/ e.time > old.time
              \/ /\ e.time = old.time
                 /\ \/ Rank(e.status) > Rank(old.status)
                    \/ Rank(e.status) = Rank(old.status) /\ e.key > old.key

----------------------------------------------------------------------------
(* Counters *)

Count(ms, S) == Cardinality({m \in Messages : ms[m].status \in S})

\* The status rule: the batch is complete once nothing is active.
EndedStatus(b, active) ==
  IF active = 0 /\ b.status # "completed_unknown" THEN "completed" ELSE b.status

\* The full recount, with the status rule of the writer: unknowns is TRUE for
\* terminalize_unknown, which tells completed_unknown from completed.
Recount(b, ms, unknowns) ==
  LET active == Count(ms, ActiveStatuses)
      unknown == Count(ms, {"unknown"})
  IN  [delivered |-> Count(ms, {"delivered"}),
       failed |-> Count(ms, {"failed"}),
       unknown |-> unknown,
       active |-> active,
       status |-> IF active = 0 /\ unknowns /\ unknown > 0
                  THEN "completed_unknown" ELSE EndedStatus(b, active)]

Was(b) == IF b THEN 1 ELSE 0

\* Mutant: the old status is not taken off its counter.
DeltaAddOnly(b, old, new, n, ms) ==
  LET Diff(S) == n * (Was(new \in S) - Was(old \in S))
  IN  IF b.active = Null
      THEN Recount(b, ms, FALSE)
      ELSE [delivered |-> b.delivered + n * Was(new = "delivered"),
            failed |-> b.failed + n * Was(new = "failed"),
            unknown |-> b.unknown + n * Was(new = "unknown"),
            active |-> b.active + Diff(ActiveStatuses),
            status |-> EndedStatus(b, b.active + Diff(ActiveStatuses))]

\* _refresh_batch after n messages went from old to new: the difference is added
\* to a valid active count, and otherwise everything is counted again.
Delta(b, old, new, n, ms) ==
  LET Diff(S) == n * (Was(new \in S) - Was(old \in S))
  IN  IF b.active = Null
      THEN Recount(b, ms, FALSE)
      ELSE [delivered |-> b.delivered + Diff({"delivered"}),
            failed |-> b.failed + Diff({"failed"}),
            unknown |-> b.unknown + Diff({"unknown"}),
            active |-> b.active + Diff(ActiveStatuses),
            status |-> EndedStatus(b, b.active + Diff(ActiveStatuses))]

Drift(m) == msg[m].report # Null /\ msg[m].status # StatusOf(msg[m].report)

\* repair_message_projection_from_report: the status of the report it shows.
Repaired(ms, S) ==
  [m \in Messages |->
     IF m \in S /\ Drift(m) THEN [ms[m] EXCEPT !.status = StatusOf(ms[m].report)] ELSE ms[m]]

Move(S, from, to) ==
  [m \in Messages |->
     IF m \in S /\ msg[m].status \in from THEN [msg[m] EXCEPT !.status = to] ELSE msg[m]]

In(c) == {m \in Messages : ChunkOf[m] = c}

----------------------------------------------------------------------------

\* A batch being sent.  A drifted message carries a report that an older version
\* overwrote with "sent"; its chunk was submitted then.
ReportInit ==
  /\ \E shown \in [Drifted -> Events] :
       /\ \A m \in Drifted : shown[m].msg = m
       /\ projected = {shown[m] : m \in Drifted}
       /\ msg = [m \in Messages |->
                   IF m \in Drifted THEN [status |-> "sent", report |-> shown[m]]
                                    ELSE [status |-> "pending", report |-> Null]]
  /\ chunk = [c \in Chunks |->
                IF \E m \in Drifted : ChunkOf[m] = c THEN "submitted" ELSE "ready"]
  /\ batch = [delivered |-> 0, failed |-> 0, unknown |-> 0, active |-> Null,
              status |-> "sending"]
  /\ timeout = [gen |-> 0, next |-> "null"]
  /\ sweep = [s \in Sweepers |-> Null]
  /\ faults = 0

\* The chunk is claimed for submission; module ChunkSend has the whole of it.
Submit(c) ==
  /\ chunk[c] = "ready"
  /\ chunk' = [chunk EXCEPT ![c] = "submitting"]
  /\ UNCHANGED <<msg, projected, batch, timeout, sweep, faults>>

\* decide_dispatch: recipients found on the blacklist leave the chunk as "other".
Exclude(c, S) ==
  /\ chunk[c] \in {"ready", "submitting"}
  /\ S # {}
  /\ \A m \in S : msg[m].status = "pending"
  /\ msg' = Move(S, {"pending"}, "other")
  /\ batch' = Recount(batch, msg', FALSE)
  /\ chunk' = [chunk EXCEPT
                 ![c] = IF @ = "ready" /\ \A m \in In(c) : msg'[m].status # "pending"
                        THEN "failed" ELSE @]
  /\ UNCHANGED <<projected, timeout, sweep, faults>>

\* Mutant: the confirmation overwrites what a faster report has said.
ConfirmAll(c) ==
  /\ chunk[c] = "submitting"
  /\ chunk' = [chunk EXCEPT ![c] = "submitted"]
  /\ msg' = Move(In(c), MessageStatuses, "sent")
  /\ UNCHANGED <<projected, batch, timeout, sweep, faults>>

\* mark_submitted, or the submitted branch of the attempt's finalization.
Confirm(c) ==
  /\ chunk[c] = "submitting"
  /\ chunk' = [chunk EXCEPT ![c] = "submitted"]
  /\ msg' = Move({m \in In(c) : msg[m].report = Null}, {"pending"}, "sent")
  /\ UNCHANGED <<projected, batch, timeout, sweep, faults>>

\* _finalize_failed_messages; without a message to fail nothing is recounted.
Fail(c) ==
  LET hit == {m \in In(c) : msg[m].report = Null /\ msg[m].status \in ActiveStatuses}
  IN  /\ chunk[c] = "submitting"
      /\ chunk' = [chunk EXCEPT ![c] = "failed"]
      /\ msg' = Move(hit, ActiveStatuses, "failed")
      /\ batch' = IF hit = {} THEN batch ELSE Recount(batch, msg', FALSE)
      /\ UNCHANGED <<projected, timeout, sweep, faults>>

LoseAnswer(c) ==
  /\ chunk[c] = "submitting"
  /\ chunk' = [chunk EXCEPT ![c] = "uncertain"]
  /\ UNCHANGED <<msg, projected, batch, timeout, sweep, faults>>

\* resolve_submitted: evidence that the vendor had the chunk.
Resolve(c) ==
  /\ chunk[c] = "uncertain"
  /\ chunk' = [chunk EXCEPT ![c] = "submitted"]
  /\ msg' = Move(In(c), {"pending"}, "sent")
  /\ UNCHANGED <<projected, batch, timeout, sweep, faults>>

\* terminalize_unknown: no evidence in time.
Terminalize(c) ==
  /\ chunk[c] = "uncertain"
  /\ chunk' = [chunk EXCEPT ![c] = "unknown_terminal"]
  /\ msg' = Move(In(c), ActiveStatuses, "unknown")
  /\ batch' = Recount(batch, msg', TRUE)
  /\ UNCHANGED <<projected, timeout, sweep, faults>>

----------------------------------------------------------------------------

\* apply_report: a known event only repairs a drifted message; a new one is
\* recorded, and shown if it supersedes the report shown so far.
Apply(e) ==
  LET m == e.msg
      old == msg[m]
  IN  /\ chunk[ChunkOf[m]] # "ready"
      /\ projected' = projected \cup {e}
      /\ \/ /\ e \in projected
            /\ msg' = Repaired(msg, {m})
            /\ batch' = IF Drift(m) THEN Recount(batch, msg', FALSE) ELSE batch
         \/ /\ e \notin projected
            /\ ~Supersedes(e, old.report)
            /\ UNCHANGED <<msg, batch>>
         \/ /\ e \notin projected
            /\ Supersedes(e, old.report)
            /\ msg' = [msg EXCEPT ![m] = [status |-> StatusOf(e), report |-> e]]
            /\ batch' = IF Drift(m) THEN Recount(batch, msg', FALSE)
                                    ELSE Delta(batch, old.status, StatusOf(e), 1, msg')
      /\ UNCHANGED <<chunk, timeout, sweep, faults>>

\* A writer of an older version updates the counters: the trigger drops the count
\* whose token it did not renew.
LegacyWrite ==
  /\ batch.active # Null
  /\ batch' = [batch EXCEPT !.active = Null]
  /\ UNCHANGED <<msg, projected, chunk, timeout, sweep, faults>>

----------------------------------------------------------------------------
(* The report timeout *)

Due == {m \in Messages : msg[m].status = "sent" /\ chunk[ChunkOf[m]] = "submitted"}

\* Mutant: only a batch without a next attempt is due, not one whose time has come.
ClaimFresh(s) ==
  /\ sweep[s] = Null
  /\ Due # {}
  /\ timeout.next = "null"
  /\ timeout' = [gen |-> timeout.gen + 1, next |-> "later"]
  /\ sweep' = [sweep EXCEPT ![s] = timeout.gen + 1]
  /\ UNCHANGED <<msg, projected, chunk, batch, faults>>

\* _claim_due_timeout_batch
ClaimTimeout(s) ==
  /\ sweep[s] = Null
  /\ Due # {}
  /\ timeout.next # "later"
  /\ timeout' = [gen |-> timeout.gen + 1, next |-> "later"]
  /\ sweep' = [sweep EXCEPT ![s] = timeout.gen + 1]
  /\ UNCHANGED <<msg, projected, chunk, batch, faults>>

\* _expire_one_due_batch under a generation that is still current: the messages
\* picked are repaired from their report, and expire if they have none.
Expire(s) ==
  /\ sweep[s] = timeout.gen
  /\ \E S \in SUBSET Due :
       LET silent == {m \in S : msg[m].report = Null}
           repaired == Repaired(msg, S)
           recounted == IF silent # S THEN Recount(batch, repaired, FALSE) ELSE batch
       IN  /\ Cardinality(S) <= SweepLimit
           /\ S = Due \/ Cardinality(S) = SweepLimit
           /\ msg' = [m \in Messages |-> IF m \in silent
                                         THEN [msg[m] EXCEPT !.status = "unknown"]
                                         ELSE repaired[m]]
           /\ batch' = IF silent # {}
                       THEN Delta(recounted, "sent", "unknown", Cardinality(silent), msg')
                       ELSE recounted
  /\ timeout' = [timeout EXCEPT !.next = "null"]
  /\ sweep' = [sweep EXCEPT ![s] = Null]
  /\ UNCHANGED <<projected, chunk, faults>>

\* Another run has taken the batch over: the sweep leaves everything to it.
ExpireStale(s) ==
  /\ sweep[s] \notin {Null, timeout.gen}
  /\ sweep' = [sweep EXCEPT ![s] = Null]
  /\ UNCHANGED <<msg, projected, chunk, batch, timeout, faults>>

\* The transaction fails and rolls back; _record_timeout_failure backs off, unless
\* the generation has moved on or nothing is left to expire.
ExpireFailed(s) ==
  /\ sweep[s] # Null
  /\ faults < MaxFaults
  /\ timeout' = IF /\ sweep[s] = timeout.gen
                   /\ timeout.next # "null"
                   /\ \E m \in Messages : msg[m].status = "sent"
                THEN [gen |-> timeout.gen + 1, next |-> "later"]
                ELSE timeout
  /\ sweep' = [sweep EXCEPT ![s] = Null]
  /\ faults' = faults + 1
  /\ UNCHANGED <<msg, projected, chunk, batch>>

\* The task dies, the round is cancelled, or another transaction holds the batch.
ExpireAbandoned(s) ==
  /\ sweep[s] # Null
  /\ faults < MaxFaults
  /\ sweep' = [sweep EXCEPT ![s] = Null]
  /\ faults' = faults + 1
  /\ UNCHANGED <<msg, projected, chunk, batch, timeout>>

\* The lease of 150 seconds, or the backoff, has passed; a sweep that has not ended
\* by then is late.
Elapse ==
  LET late == \E s \in Sweepers : sweep[s] = timeout.gen
  IN  /\ timeout.next = "later"
      /\ late => faults < MaxFaults
      /\ timeout' = [timeout EXCEPT !.next = "due"]
      /\ faults' = IF late THEN faults + 1 ELSE faults
      /\ UNCHANGED <<msg, projected, chunk, batch, sweep>>

----------------------------------------------------------------------------

Sending(c) ==
  \/ Submit(c) \/ (\E S \in SUBSET In(c) : Exclude(c, S))
  \/ Confirm(c) \/ Fail(c) \/ LoseAnswer(c) \/ Resolve(c) \/ Terminalize(c)

Sweep(s) ==
  \/ ClaimTimeout(s) \/ Expire(s) \/ ExpireStale(s) \/ ExpireFailed(s) \/ ExpireAbandoned(s)

ReportNext ==
  \/ \E c \in Chunks : Sending(c)
  \/ \E e \in Events : Apply(e)
  \/ LegacyWrite
  \/ \E s \in Sweepers : Sweep(s)
  \/ Elapse

ReportSpec == ReportInit /\ [][ReportNext]_reportVars

\* Beat starts the sweep for ever and a sweep that is not abandoned ends; nothing
\* is promised of the vendors' reports.
Fairness ==
  /\ WF_reportVars(Elapse)
  /\ WF_reportVars(\E s \in Sweepers : ClaimTimeout(s))
  /\ \A s \in Sweepers : WF_reportVars(Expire(s) \/ ExpireStale(s))

ReportFairSpec == ReportSpec /\ Fairness

----------------------------------------------------------------------------
(* Properties *)

SortKey(e) == <<Class(e.status), e.time, Rank(e.status), e.key>>

Before(a, b) ==
  \E i \in 1..4 : a[i] < b[i] /\ \A j \in 1..(i - 1) : a[j] = b[j]

\* A message shows the report that ranks highest among all reports applied to it,
\* so the outcome does not depend on the order in which reports arrive, on
\* duplicates, or on timeouts and confirmations in between (apply_report); and
\* its status is that report's: no confirmation, failure, terminal sweep or
\* timeout overrides it (NO_REPORT_EVIDENCE).  Only what an older version had
\* overwritten is "sent" until it is repaired.
BestReportDecides ==
  /\ \A e \in projected :
       LET shown == msg[e.msg].report
       IN  /\ shown \in projected
           /\ shown.msg = e.msg
           /\ e = shown \/ Before(SortKey(e), SortKey(shown))
  /\ \A m \in Messages :
       msg[m].report # Null =>
         \/ msg[m].status = StatusOf(msg[m].report)
         \/ m \in Drifted /\ msg[m].status = "sent"

\* The counters kept by difference are what a recount would give, whichever writers
\* met and however often an older version invalidated the count (_refresh_batch).
\* The batch is complete exactly when none of its messages is pending or sent: it
\* neither announces completion early nor hangs after the last message has ended.
BatchIsExact ==
  /\ batch.delivered = Count(msg, {"delivered"})
  /\ batch.failed = Count(msg, {"failed"})
  /\ batch.unknown = Count(msg, {"unknown"})
  /\ batch.active \in {Null, Count(msg, ActiveStatuses)}
  /\ batch.status # "sending" <=> Count(msg, ActiveStatuses) = 0

\* A message that has ended never becomes active again, a delivered one stays
\* delivered, and a batch never leaves completed_unknown nor reopens; the sweep of
\* an uncertain chunk may still turn completed into completed_unknown.
EndsStay ==
  [][/\ \A m \in Messages :
          /\ msg[m].status \notin ActiveStatuses => msg'[m].status \notin ActiveStatuses
          /\ msg[m].status = "delivered" => msg'[m].status = "delivered"
     /\ batch.status # "sending" => batch'.status # "sending"
     /\ batch.status = "completed_unknown" => batch'.status = "completed_unknown"]_reportVars

\* A message that was handed to the vendor ends, though its report may never come
\* and sweeps fail, die or overtake each other.
SentSettles ==
  \A m \in Messages : msg[m].status = "sent" ~> msg[m].status \notin ActiveStatuses

=============================================================================
