---------------------------- MODULE BatchLifecycle ----------------------------
(****************************************************************************)
(* The life of one batch before its numbers go out: acceptance, the approval *)
(* by a second person, scheduling, cancellation and rescheduling, the        *)
(* marketing window, the "batch ready" events that start the planning of its *)
(* chunks, and the pause and resumption of the queues when the balance with  *)
(* the vendor is used up.                                                    *)
(*                                                                           *)
(* A point in time is told apart only by whether it has come: scheduled_at   *)
(* is null, later or due, an approval is fresh or has expired, the marketing *)
(* window is open or closed.  Every action is one database transaction, or   *)
(* one Redis script.                                                         *)
(****************************************************************************)
EXTENDS Naturals, FiniteSets

CONSTANTS
  Kinds,      \* the batches accepted: [web, market, review]
  Approvers,  \* the accounts with the role to decide; the applicant may be one
  Applicant,
  Views,      \* bound: who looks at the page of which generation of the approval
  Chunks,
  MaxPlans,   \* bound: how often a batch is rescheduled
  MaxPauses,  \* bound: how often the balance runs out
  Broke,      \* bound: the kinds of batch during which the balance runs out
  MaxFaults,  \* bound: crashes, failed attempts and other accidents
  Null

ASSUME KindsAssumption ==
  /\ Kinds \subseteq [web: BOOLEAN, market: BOOLEAN, review: BOOLEAN]
  /\ \A k \in Kinds : k.review => k.web
  /\ Broke \subseteq Kinds
ASSUME ViewsAssumption == Views \subseteq Approvers \X (1..MaxPlans + 1)

VARIABLES
  kind,       \* channel and category of the batch, and whether it needs approval
  batch,      \* sms_batch.status, "none" before the batch is accepted
  sched,      \* sms_batch.scheduled_at: null, later or due
  plan,       \* how often the time was set: what an approver agrees to
  open,       \* the marketing window is open
  approval,   \* the approval row: status, generation, fresh, by, and the plan seen
  page,       \* per account: the approval page it looks at, and how far it got
  ready,      \* outbox events batch.ready by dedup key
  chunk,      \* sms_chunk.status
  paused,     \* queue:paused:*: 0, or the number of the stop signal
  stopping,   \* a worker is about to pause the queues
  pauses,
  resume,     \* the operator's queue_resume: how far, and the stop signal seen
  released,   \* why the usage reservation of the batch was released
  faults

planVars == <<kind, sched, plan, open>>
approvalVars == <<approval, page>>
queueVars == <<paused, stopping, pauses, resume>>
lifeVars == <<planVars, batch, approvalVars, ready, chunk, queueVars, released, faults>>

Ended == {"completed", "completed_unknown", "cancelled", "rejected", "expired"}
Sendable == {"queued", "sending"}
Keys == {"accept", "approval", "scheduled", "resume"}
NoResume == [step |-> "idle", saw |-> 0, hit |-> FALSE]
NoPage == [stage |-> "none", gen |-> 0, plan |-> 0]

\* Every variable keeps its type.
LifeTypeOK ==
  /\ kind \in Kinds
  /\ batch \in {"none", "pending_approval", "scheduled", "balance_blocked"}
                 \cup Sendable \cup Ended
  /\ sched \in {"null", "later", "due"} /\ plan \in 0..MaxPlans + 1
  /\ open \in BOOLEAN
  /\ approval \in [status: {"none", "pending", "approved", "rejected", "expired"},
                   gen: 0..MaxPlans + 1, fresh: BOOLEAN, by: Approvers \cup {Null},
                   plan: 0..MaxPlans + 1]
  /\ page \in [Approvers -> [stage: {"none", "seen", "checked"}, gen: 0..MaxPlans + 1,
                          plan: 0..MaxPlans + 1]]
  /\ ready \in [Keys -> {"none", "pending", "completed", "dead"}]
  /\ chunk \in [Chunks -> {"none", "pending", "submitted", "failed", "uncertain",
                           "unknown_terminal"}]
  /\ paused \in 0..MaxPauses /\ stopping \in BOOLEAN /\ pauses \in 0..MaxPauses
  /\ resume \in [step: {"idle", "checked", "clear", "send"}, saw: 0..MaxPauses,
                 hit: BOOLEAN]
  /\ released \subseteq {"cancelled", "rejected", "expired", "unused"}
  /\ faults \in 0..MaxFaults

LifeInit ==
  /\ kind \in Kinds /\ batch = "none" /\ sched = "null" /\ plan = 0
  /\ open \in BOOLEAN /\ (~kind.market => open)
  /\ approval = [status |-> "none", gen |-> 0, fresh |-> FALSE, by |-> Null, plan |-> 0]
  /\ page = [a \in Approvers |-> NoPage]
  /\ ready = [k \in Keys |-> "none"]
  /\ chunk = [c \in Chunks |-> "none"]
  /\ paused = 0 /\ stopping = FALSE /\ pauses = 0
  /\ resume = NoResume
  /\ released = {} /\ faults = 0

----------------------------------------------------------------------------
(* Events and ends *)

\* enqueue_outbox: a dedup key that exists already is left alone.
Enqueue(k) == [ready EXCEPT ![k] = IF @ = "none" THEN "pending" ELSE @]

\* What cancel, reject and expire do in the transaction that ends the batch: the
\* final callback, the release of the in-flight chunks, and of the usage.
EndBatch(why) ==
  /\ batch' = why
  /\ released' = released \cup {why}

\* coerce_market_dispatch without a time: a marketing batch waits for its window.
MustWait == kind.market /\ ~open

----------------------------------------------------------------------------
(* Acceptance *)

\* _commit and create_batch: the status of the new batch, its approval row, and
\* the event that starts it at once.
Accept(at) ==
  LET wait == at = "later" \/ MustWait
      status == IF kind.review THEN "pending_approval"
                ELSE IF wait THEN "scheduled" ELSE "queued"
  IN  /\ batch = "none"
      /\ batch' = status
      /\ sched' = IF wait THEN "later" ELSE "null"
      /\ plan' = 1
      /\ approval' = IF kind.review
                     THEN [status |-> "pending", gen |-> 1, fresh |-> TRUE,
                           by |-> Null, plan |-> 0]
                     ELSE approval
      /\ ready' = IF status = "queued" THEN Enqueue("accept") ELSE ready
      /\ UNCHANGED <<kind, open, page, chunk, queueVars, released, faults>>

----------------------------------------------------------------------------
(* Approval *)

\* get_detail: the approver's page shows the generation and the time.
View(a) ==
  /\ approval.status = "pending" /\ <<a, approval.gen>> \in Views
  /\ page' = [page EXCEPT ![a] = [stage |-> "seen", gen |-> approval.gen,
                                  plan |-> plan]]
  /\ UNCHANGED <<planVars, batch, approval, ready, chunk, queueVars, released, faults>>

\* decide: what the service checks before it opens the transaction.
Check(a) ==
  /\ page[a].stage = "seen"
  /\ page' = [page EXCEPT ![a] = IF /\ approval.status = "pending"
                                    /\ a # Applicant
                                    /\ approval.gen = page[a].gen
                                 THEN [@ EXCEPT !.stage = "checked"] ELSE NoPage]
  /\ UNCHANGED <<planVars, batch, approval, ready, chunk, queueVars, released, faults>>

\* Mutant: the transaction trusts the generation the service has read.
DecidableByStatus(a) ==
  approval.status = "pending" /\ a # Applicant /\ batch = "pending_approval"

\* The WHERE of transition's UPDATE.
Decidable(a) ==
  /\ approval.status = "pending" /\ approval.fresh
  /\ approval.gen = page[a].gen
  /\ a # Applicant
  /\ batch = "pending_approval"

Approve(a) ==
  LET wait == sched # "null" \/ MustWait
  IN  /\ page[a].stage = "checked" /\ Decidable(a)
      /\ approval' = [approval EXCEPT !.status = "approved", !.by = a,
                                      !.plan = page[a].plan]
      /\ batch' = IF wait THEN "scheduled" ELSE "queued"
      /\ sched' = IF wait /\ sched = "null" THEN "later" ELSE sched
      /\ ready' = IF wait THEN ready ELSE Enqueue("approval")
      /\ page' = [page EXCEPT ![a] = NoPage]
      /\ UNCHANGED <<kind, plan, open, chunk, queueVars, released, faults>>

Reject(a) ==
  /\ page[a].stage = "checked" /\ Decidable(a)
  /\ approval' = [approval EXCEPT !.status = "rejected", !.by = a]
  /\ EndBatch("rejected")
  /\ page' = [page EXCEPT ![a] = NoPage]
  /\ UNCHANGED <<planVars, ready, chunk, queueVars, faults>>

\* transition finds no row to update: StateConflict.
Refused(a) ==
  /\ page[a].stage = "checked" /\ ~Decidable(a)
  /\ page' = [page EXCEPT ![a] = NoPage]
  /\ UNCHANGED <<planVars, batch, approval, ready, chunk, queueVars, released, faults>>

\* expire_due, for one approval; the batch is expired whatever its status is.
ExpireDue ==
  /\ approval.status = "pending" /\ ~approval.fresh
  /\ approval' = [approval EXCEPT !.status = "expired"]
  /\ EndBatch("expired")
  /\ UNCHANGED <<planVars, page, ready, chunk, queueVars, faults>>

----------------------------------------------------------------------------
(* Scheduling *)

\* claim_due: a marketing batch outside its window is put off, any other starts.
ClaimDue ==
  /\ batch = "scheduled" /\ sched = "due"
  /\ IF MustWait
     THEN sched' = "later" /\ UNCHANGED <<batch, ready>>
     ELSE batch' = "queued" /\ ready' = Enqueue("scheduled") /\ UNCHANGED sched
  /\ UNCHANGED <<kind, plan, open, approvalVars, chunk, queueVars, released, faults>>

Cancel ==
  /\ batch = "scheduled"
  /\ EndBatch("cancelled")
  /\ UNCHANGED <<planVars, approvalVars, ready, chunk, queueVars, faults>>

\* needs_reapproval
NeedsReapproval == kind.web /\ approval.status # "none"

Reschedule ==
  /\ batch = "scheduled" /\ plan <= MaxPlans
  /\ plan' = plan + 1 /\ sched' = "later"
  /\ IF NeedsReapproval
     THEN /\ batch' = "pending_approval"
          /\ approval' = [status |-> "pending", gen |-> approval.gen + 1,
                          fresh |-> TRUE, by |-> Null, plan |-> 0]
     ELSE UNCHANGED <<batch, approval>>
  /\ UNCHANGED <<kind, open, page, ready, chunk, queueVars, released, faults>>

----------------------------------------------------------------------------
(* Starting the batch *)

\* prepare_chunks refuses a batch that waits; anything that may go is planned.
Deliver(k) ==
  /\ ready[k] = "pending"
  /\ batch \in Sendable \cup Ended
  /\ IF batch \in Sendable
     THEN /\ batch' = "sending"
          /\ chunk' = [c \in Chunks |-> IF chunk[c] = "none" THEN "pending" ELSE chunk[c]]
     ELSE UNCHANGED <<batch, chunk>>
  /\ ready' = [ready EXCEPT ![k] = "completed"]
  /\ UNCHANGED <<planVars, approvalVars, queueVars, released, faults>>

\* The attempts of the event are used up: the batch was blocked all the while, or
\* the worker failed again and again.
DeliverFails(k) ==
  /\ ready[k] = "pending"
  /\ batch \in Sendable => faults < MaxFaults
  /\ faults' = IF batch \in Sendable THEN faults + 1 ELSE faults
  /\ ready' = [ready EXCEPT ![k] = "dead"]
  /\ UNCHANGED <<planVars, batch, approvalVars, chunk, queueVars, released>>

\* The reconciler, for a batch queued for five minutes: its event is entered, or
\* opened again.
Requeue ==
  /\ batch = "queued" /\ ready["accept"] # "pending"
  /\ ready' = [ready EXCEPT !["accept"] = "pending"]
  /\ UNCHANGED <<planVars, batch, approvalVars, chunk, queueVars, released, faults>>

----------------------------------------------------------------------------
(* Balance *)

\* A chunk meets code 999: balance_blocked, then pause_queues.
OutOfBalance(c) ==
  /\ chunk[c] = "pending" /\ batch \in Sendable
  /\ kind \in Broke /\ pauses < MaxPauses /\ ~stopping
  /\ batch' = "balance_blocked"
  /\ stopping' = TRUE /\ pauses' = pauses + 1
  /\ UNCHANGED <<planVars, approvalVars, ready, chunk, paused, resume, released, faults>>

\* Each stop signal has a generation of its own.
PauseQueues ==
  /\ stopping /\ stopping' = FALSE
  /\ paused' = pauses
  /\ UNCHANGED <<planVars, batch, approvalVars, ready, chunk, pauses, resume, released,
                 faults>>

\* The worker dies before it pauses the queues.
PauseLost ==
  /\ stopping /\ stopping' = FALSE /\ faults < MaxFaults /\ faults' = faults + 1
  /\ UNCHANGED <<planVars, batch, approvalVars, ready, chunk, paused, pauses, resume,
                 released>>

\* queue_resume reads the stop signal and the balance; force skips the check.
ResumeCheck ==
  /\ resume.step = "idle" /\ (paused # 0 \/ batch = "balance_blocked")
  /\ resume' = [step |-> "checked", saw |-> paused, hit |-> FALSE]
  /\ UNCHANGED <<planVars, batch, approvalVars, ready, chunk, paused, stopping, pauses,
                 released, faults>>

\* resume_batches
ResumeBatches ==
  /\ resume.step = "checked"
  /\ batch' = IF batch = "balance_blocked" THEN "queued" ELSE batch
  /\ resume' = [resume EXCEPT !.step = "clear", !.hit = batch = "balance_blocked"]
  /\ UNCHANGED <<planVars, approvalVars, ready, chunk, paused, stopping, pauses,
                 released, faults>>

\* clear_queue_pauses removes exactly the stop signal that was checked; with a
\* newer one the operator gets a conflict, and the batches stay queued.
ClearPauses ==
  /\ resume.step = "clear"
  /\ IF paused = resume.saw
     THEN paused' = 0 /\ resume' = [resume EXCEPT !.step = "send"]
     ELSE paused' = paused /\ resume' = NoResume
  /\ UNCHANGED <<planVars, batch, approvalVars, ready, chunk, stopping, pauses,
                 released, faults>>

\* OutboxBatchSender.send_batch, under a key of its own.
ResumeSend ==
  /\ resume.step = "send"
  /\ ready' = IF resume.hit THEN [ready EXCEPT !["resume"] = "pending"] ELSE ready
  /\ resume' = NoResume
  /\ UNCHANGED <<planVars, batch, approvalVars, chunk, paused, stopping, pauses,
                 released, faults>>

ResumeCrash ==
  /\ resume.step # "idle" /\ faults < MaxFaults
  /\ faults' = faults + 1
  /\ resume' = NoResume
  /\ UNCHANGED <<planVars, batch, approvalVars, ready, chunk, paused, stopping, pauses,
                 released>>

----------------------------------------------------------------------------
(* Time *)

TimeComes ==
  /\ sched = "later" /\ batch \in {"scheduled", "pending_approval"}
  /\ sched' = "due"
  /\ UNCHANGED <<kind, plan, open, batch, approvalVars, ready, chunk, queueVars,
                 released, faults>>

ApprovalAges ==
  /\ approval.status = "pending" /\ approval.fresh
  /\ approval' = [approval EXCEPT !.fresh = FALSE]
  /\ UNCHANGED <<planVars, batch, page, ready, chunk, queueVars, released, faults>>

\* The window opens and closes while it matters.
WindowTurns ==
  /\ kind.market /\ batch \in {"none", "scheduled", "pending_approval"}
  /\ open' = ~open
  /\ UNCHANGED <<kind, sched, plan, batch, approvalVars, ready, chunk, queueVars,
                 released, faults>>

LifeNext ==
  \/ \E at \in {"now", "later"} : Accept(at)
  \/ \E a \in Approvers : View(a) \/ Check(a) \/ Approve(a) \/ Reject(a) \/ Refused(a)
  \/ ExpireDue \/ ClaimDue \/ Cancel \/ Reschedule
  \/ \E k \in Keys : Deliver(k) \/ DeliverFails(k)
  \/ Requeue
  \/ \E c \in Chunks : OutOfBalance(c)
  \/ PauseQueues \/ PauseLost \/ ResumeCheck \/ ResumeBatches \/ ClearPauses \/ ResumeSend \/ ResumeCrash
  \/ TimeComes \/ ApprovalAges \/ WindowTurns

----------------------------------------------------------------------------

\* A batch that needs approval waits exactly while its approval row is pending,
\* and what is scheduled, queued or sent was approved by somebody other than its
\* applicant who saw the time it now has: a decision taken on an older page, a
\* decision after expiry, and a reschedule after the approval never let a batch
\* through (decide, transition, reschedule, expire_due).
SentAsApproved ==
  /\ approval.status = "pending" <=> batch = "pending_approval"
  /\ kind.review /\ batch \notin {"none", "pending_approval", "rejected", "expired"} =>
       /\ approval.status = "approved"
       /\ approval.by # Applicant
       /\ approval.plan = plan
=============================================================================
