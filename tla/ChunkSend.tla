----------------------------- MODULE ChunkSend -----------------------------
(***************************************************************************)
(* Submission of one chunk to the vendors: SendWorker (tasks/send.py), the  *)
(* chunk store it drives (tasks/send_repository*.py), the routing and        *)
(* failover rules (vendor/routing.py, vendor/failover.py), the reconciler    *)
(* that closes abandoned submissions (services/reconcile_repository.py) and  *)
(* the resolution of chunks whose result is unknown                          *)
(* (services/uncertain_repository.py).                                       *)
(*                                                                         *)
(* Any number of workers may run the same chunk at once: its outbox event    *)
(* can be delivered twice and its lease can expire while a worker runs.      *)
(* A worker may stop after any statement; its HTTP request stays at the      *)
(* vendor.  One database transaction is one step.                            *)
(*                                                                         *)
(* The attempt history sms_vendor_attempt is indexed by generation;          *)
(* generation g exists when g \in 1..gens.  failover_from_attempt_id is the  *)
(* attempt of generation route: the two columns are written together.        *)
(***************************************************************************)
EXTENDS Integers, FiniteSets, Sequences

CONSTANTS
  Workers,       \* tasks running process_chunk for this chunk
  Registry,      \* the registered vendors, in routing order
  NoVendor,      \* next_vendor IS NULL
  RetryLimit,    \* length of BACKOFF_DELAYS_S
  DelayedLimit,  \* DELAYED_RETRY_LIMIT
  PhoneCount,    \* numbers in the chunk
  MaxGen,        \* bound: vendor attempts of the chunk
  Legacy         \* the chunk may have been left rejected+submitting by an old release

Vendors == {Registry[i] : i \in DOMAIN Registry}
Gen == 1..MaxGen

ASSUME ChunkSendAssumption ==
  /\ Registry \in Seq(Vendors) /\ Registry # <<>>
  /\ NoVendor \notin Vendors
  /\ RetryLimit \in Nat /\ DelayedLimit \in Nat /\ RetryLimit <= DelayedLimit
  /\ PhoneCount \in Nat \ {0}
  /\ MaxGen \in Nat \ {0}
  /\ Legacy \in BOOLEAN

VARIABLES
  status,                 \* sms_chunk.status
  retry,                  \* sms_chunk.retry_count
  due,                    \* retry_not_before IS NULL OR <= now()
  route,                  \* sms_chunk.route_generation
  next,                   \* sms_chunk.next_vendor
  children,               \* the two split children exist
  batch,                  \* sms_batch.status: live, blocked or done
  paused,                 \* a queue:paused:* key is set in Redis
  gens,                   \* number of sms_vendor_attempt rows
  outcome, vendor, safe,  \* their outcome, vendor_id, safe_to_failover
  req,                    \* what became of the HTTP request of a generation
  sends,                  \* history: HTTP requests started for a generation
  pc, seen, vend, hold, want  \* per worker: position, retry_count read,
                          \* vendor chosen, generation held, result to persist

chunkVars == <<status, retry, due, route, next, children>>
attemptVars == <<gens, outcome, vendor, safe>>
vendorVars == <<req, sends>>
envVars == <<batch, paused>>
workerVars == <<pc, seen, vend, hold, want>>
vars == <<chunkVars, attemptVars, vendorVars, envVars, workerVars>>

Statuses == {"pending", "retrying", "failover_pending", "submitting",
             "submitted", "uncertain", "unknown_terminal", "failed",
             "split_capacity_blocked"}
IRREVERSIBLE_OUTCOMES == {"submitted", "uncertain", "invoking"}
HOLD_OUTCOMES == {"retry_scheduled", "delayed", "paused"}
BLOCKING_ATTEMPT_OUTCOMES == IRREVERSIBLE_OUTCOMES \cup {"inconsistent"}
Outcomes == {"none", "rejected", "failed"} \cup HOLD_OUTCOMES
              \cup BLOCKING_ATTEMPT_OUTCOMES
\* What the worker asks finalize_vendor_attempt to record.  "hold" and
\* "balance" are result paused for a code that pauses the queues; "safe" is
\* result rejected for a code of SAFE_TO_FAILOVER_CODES; the last two are
\* the aborts before the HTTP request.
Wants == {"submitted", "uncertain", "retry_scheduled", "delayed", "hold",
          "balance", "safe", "rejected", "abort_paused", "abort_rejected"}
Pcs == {"idle", "loaded", "routed", "cleared", "claimed", "failover",
        "failover_cleared", "authorized", "checked", "waiting", "splitting",
        "finalizing", "reload", "pausing"}

Claimable == {"pending", "retrying"}
PRE_SEND == {"pending", "retrying", "submitting", "failover_pending"}

Init ==
  /\ gens \in (IF Legacy THEN {0, 1} ELSE {0})
  /\ status = IF gens = 1 THEN "submitting" ELSE "pending"
  /\ route = gens
  /\ outcome = [g \in Gen |-> IF g = gens THEN "rejected" ELSE "none"]
  /\ safe = [g \in Gen |-> g = gens]
  /\ vendor = [g \in Gen |-> IF g = gens THEN Registry[1] ELSE NoVendor]
  /\ req = [g \in Gen |-> IF g = gens THEN "refused" ELSE "none"]
  /\ sends = [g \in Gen |-> IF g = gens THEN 1 ELSE 0]
  /\ retry = 0 /\ due = TRUE /\ next = NoVendor /\ children = FALSE
  /\ batch = "live" /\ paused = FALSE
  /\ pc = [w \in Workers |-> "idle"]
  /\ seen = [w \in Workers |-> 0]
  /\ vend = [w \in Workers |-> NoVendor]
  /\ hold = [w \in Workers |-> 0]
  /\ want = [w \in Workers |-> "uncertain"]

-----------------------------------------------------------------------------
(* Routing: vendor/routing.py decide, with every registered vendor healthy. *)

Rejected == {vendor[g] : g \in {h \in 1..gens : outcome[h] = "rejected"}}

FirstCandidate(excluded) ==
  LET open == {i \in DOMAIN Registry : Registry[i] \notin excluded}
  IN  IF open = {} THEN NoVendor
      ELSE Registry[CHOOSE i \in open : \A j \in open : i <= j]

Decide ==
  IF \E g \in 1..gens : outcome[g] \in IRREVERSIBLE_OUTCOMES THEN NoVendor
  ELSE IF gens > 0 /\ outcome[gens] \in HOLD_OUTCOMES THEN vendor[gens]
  ELSE IF gens > 0 /\ outcome[gens] = "rejected" /\ ~safe[gens] THEN NoVendor
  ELSE FirstCandidate(Rejected)

Blocked == \E g \in 1..gens : outcome[g] \in BLOCKING_ATTEMPT_OUTCOMES

-----------------------------------------------------------------------------
(* The worker up to its authorization to call the vendor.                   *)

Go(w, to) == pc' = [pc EXCEPT ![w] = to]
Stop(w) ==
  /\ pc' = [pc EXCEPT ![w] = "idle"]
  /\ seen' = [seen EXCEPT ![w] = 0]
  /\ vend' = [vend EXCEPT ![w] = NoVendor]
  /\ hold' = [hold EXCEPT ![w] = 0]
  /\ want' = [want EXCEPT ![w] = "uncertain"]

\* load_chunk, the pause check of _run_chunk, and for a failover_pending chunk
\* the FinalizeReport that submit builds from the row.
LoadChunk(w) ==
  /\ pc[w] = "idle"
  /\ batch = "live" /\ ~paused
  /\ status = "pending" \/ (status \in {"retrying", "failover_pending"} /\ due)
  /\ seen' = [seen EXCEPT ![w] = retry]
  /\ IF status = "failover_pending"
     THEN /\ Go(w, "failover")
          /\ vend' = [vend EXCEPT ![w] = next]
          /\ hold' = [hold EXCEPT ![w] = route]
     ELSE Go(w, "loaded") /\ UNCHANGED <<vend, hold>>
  /\ UNCHANGED <<chunkVars, attemptVars, vendorVars, envVars, want>>

\* submit: the history is read in its own query, then routed.
RouteChunk(w) ==
  /\ pc[w] = "loaded"
  /\ ~paused /\ Decide # NoVendor
  /\ vend' = [vend EXCEPT ![w] = Decide]
  /\ Go(w, "routed")
  /\ UNCHANGED <<chunkVars, attemptVars, vendorVars, envVars, seen, hold, want>>

\* _preflight_before_invoke, repeated once the token bucket has granted.
Preflight(w) ==
  /\ pc[w] \in {"routed", "failover"}
  /\ ~paused
  /\ Go(w, IF pc[w] = "routed" THEN "cleared" ELSE "failover_cleared")
  /\ UNCHANGED <<chunkVars, attemptVars, vendorVars, envVars, seen, vend, hold,
                 want>>

\* A batch whose last active message settles is completed.
BatchMaySettle == batch' \in {batch, "done"}
\* _settle_batch of decide_dispatch completes only a queued or sending batch.
DispatchMaySettle ==
  batch' \in IF batch = "live" /\ status \in PRE_SEND THEN {"live", "done"}
                                                     ELSE {batch}

\* reject_disallowed_recipient, from either preflight of a live test.
RejectRecipient(w) ==
  /\ pc[w] \in {"routed", "failover"}
  /\ Stop(w)
  /\ IF status \in {"pending", "retrying", "failover_pending"} /\ batch = "live"
     THEN status' = "failed" /\ due' = TRUE /\ BatchMaySettle
     ELSE UNCHANGED <<status, due, batch>>
  /\ UNCHANGED <<retry, route, next, children, attemptVars, vendorVars, paused>>

\* Variant: the chunk is failed under the worker that submits it.
DispatchEmptyAnyStatus(w) ==
  /\ pc[w] = "cleared"
  /\ status \in PRE_SEND
  /\ Stop(w)
  /\ status' = "failed" /\ due' = TRUE
  /\ DispatchMaySettle
  /\ UNCHANGED <<retry, route, next, children, attemptVars, vendorVars, paused>>

\* phones_for_invoke in _claim_after_token finds every number blacklisted:
\* decide_dispatch fails the chunk unless another worker is submitting it.
DispatchEmpty(w) ==
  /\ pc[w] = "cleared"
  /\ status \in PRE_SEND
  /\ Stop(w)
  /\ IF status = "submitting" THEN UNCHANGED <<status, due>>
     ELSE status' = "failed" /\ due' = TRUE
  /\ DispatchMaySettle
  /\ UNCHANGED <<retry, route, next, children, attemptVars, vendorVars, paused>>

Claims(w) ==
  status \in Claimable /\ retry = seen[w] /\ batch = "live" /\ due

\* claim_submission; a stale claim returns the token and ends the task.
ClaimSubmission(w) ==
  /\ pc[w] = "cleared"
  /\ IF Claims(w)
     THEN /\ status' = "submitting" /\ due' = TRUE
          /\ Go(w, "claimed") /\ UNCHANGED <<seen, vend, hold, want>>
     ELSE Stop(w) /\ UNCHANGED <<status, due>>
  /\ UNCHANGED <<retry, route, next, children, attemptVars, vendorVars, envVars>>

\* The row that authorizes the HTTP request of generation g.
InsertInvoking(w, g, v) ==
  /\ gens' = g /\ route' = g
  /\ outcome' = [outcome EXCEPT ![g] = "invoking"]
  /\ vendor' = [vendor EXCEPT ![g] = v]
  /\ hold' = [hold EXCEPT ![w] = g]
  /\ Go(w, "authorized")

\* begin_vendor_invoke; a RuntimeError ends the task.
BeginVendorInvoke(w) ==
  /\ pc[w] = "claimed"
  /\ gens < MaxGen
  /\ IF status = "submitting" /\ ~Blocked
     THEN InsertInvoking(w, gens + 1, vend[w]) /\ UNCHANGED <<seen, vend, want>>
     ELSE Stop(w) /\ UNCHANGED <<gens, route, outcome, vendor>>
  /\ UNCHANGED <<status, retry, due, next, children, safe, vendorVars, envVars>>

\* claim_denied_reason is None and the conditional UPDATE hits its row.
FailoverGranted(w) ==
  /\ status = "failover_pending" /\ batch = "live" /\ due
  /\ route = hold[w] /\ next = vend[w] /\ vend[w] # NoVendor
  /\ hold[w] \in 1..gens
  /\ outcome[hold[w]] = "rejected" /\ safe[hold[w]]
  /\ hold[w] + 1 > gens
  /\ ~Blocked

\* claim_next_vendor_invoke; denied and already handled both end the task.
ClaimNextVendorInvoke(w) ==
  /\ pc[w] = "failover_cleared"
  /\ gens < MaxGen
  /\ IF FailoverGranted(w)
     THEN /\ InsertInvoking(w, hold[w] + 1, vend[w])
          /\ status' = "submitting"
          /\ UNCHANGED <<due, seen, vend, want>>
     ELSE Stop(w) /\ UNCHANGED <<status, due, gens, route, outcome, vendor>>
  /\ UNCHANGED <<retry, next, children, safe, vendorVars, envVars>>

-----------------------------------------------------------------------------
(* _invoke_authorized: the last check, the HTTP request and its result.     *)

\* The preflight and phones_for_invoke both pass.
CheckBeforeHttp(w) ==
  /\ pc[w] = "authorized"
  /\ ~paused /\ status \in PRE_SEND
  /\ Go(w, "checked")
  /\ UNCHANGED <<chunkVars, attemptVars, vendorVars, envVars, seen, vend, hold,
                 want>>

\* _abort_before_http with outcome PAUSED.
AbortPaused(w) ==
  /\ pc[w] = "authorized"
  /\ Go(w, "finalizing")
  /\ want' = [want EXCEPT ![w] = "abort_paused"]
  /\ UNCHANGED <<chunkVars, attemptVars, vendorVars, envVars, seen, vend, hold>>

\* _abort_before_http with outcome REJECTED: the recipients are denied, or
\* phones_for_invoke just excluded the last number and settled the batch.
AbortRejected(w) ==
  /\ pc[w] = "authorized"
  /\ Go(w, "finalizing")
  /\ want' = [want EXCEPT ![w] = "abort_rejected"]
  /\ DispatchMaySettle
  /\ UNCHANGED <<chunkVars, attemptVars, vendorVars, paused, seen, vend, hold>>

\* gateway.send puts the request on the wire.
SendHttp(w) ==
  /\ pc[w] = "checked"
  /\ req' = [req EXCEPT ![hold[w]] = "sent"]
  /\ sends' = [sends EXCEPT ![hold[w]] = @ + 1]
  /\ Go(w, "waiting")
  /\ UNCHANGED <<chunkVars, attemptVars, envVars, seen, vend, hold, want>>

\* The vendor decides on a request it received, whoever still waits for it.
VendorAccepts(g) ==
  /\ req[g] = "sent"
  /\ req' = [req EXCEPT ![g] = "accepted"]
  /\ UNCHANGED <<chunkVars, attemptVars, sends, envVars, workerVars>>
VendorRefuses(g) ==
  /\ req[g] = "sent"
  /\ req' = [req EXCEPT ![g] = "refused"]
  /\ UNCHANGED <<chunkVars, attemptVars, sends, envVars, workerVars>>

ToFinalize(w, result) ==
  /\ Go(w, "finalizing")
  /\ want' = [want EXCEPT ![w] = result]
  /\ UNCHANGED <<chunkVars, attemptVars, vendorVars, envVars, seen, vend, hold>>

ReplyAccepted(w) ==
  pc[w] = "waiting" /\ req[hold[w]] = "accepted" /\ ToFinalize(w, "submitted")

\* Variants: a lost answer is retried, or taken for a success.
ReplyLostRetried(w) == pc[w] = "waiting" /\ ToFinalize(w, "hold")
\* VendorTransportError, VendorProtocolError, cancellation: whatever happened.
ReplyLost(w) == pc[w] = "waiting" /\ ToFinalize(w, "uncertain")

\* _handle_terminal_api_error: the policy of the code (vendor/codes.py) picks
\* the result; backoff codes past the last delay are plain rejections.
ReplyRefused(w) ==
  /\ pc[w] = "waiting" /\ req[hold[w]] = "refused"
  /\ \/ ToFinalize(w, IF seen[w] < RetryLimit THEN "retry_scheduled"
                                              ELSE "rejected")
     \/ \E result \in {"delayed", "hold", "balance", "safe", "rejected"} :
          ToFinalize(w, result)
     \/ /\ Go(w, "splitting")
        /\ UNCHANGED <<chunkVars, attemptVars, vendorVars, envVars, seen, vend,
                       hold, want>>

-----------------------------------------------------------------------------
(* finalize_vendor_attempt and what the worker does with its report.        *)

OutcomeOf(result) ==
  CASE result \in {"hold", "balance", "abort_paused"} -> "paused"
    [] result \in {"safe", "rejected", "abort_rejected"} -> "rejected"
    [] OTHER -> result

\* Every compare-and-set of _finalize_vendor_attempt_once hits.
FinalizeHits(w) ==
  /\ outcome[hold[w]] = "invoking" /\ route = hold[w]
  /\ status = "submitting"
  /\ want[w] = "retry_scheduled" => retry = seen[w] /\ retry < RetryLimit

DelayExhausted(w) == want[w] = "delayed" /\ retry >= DelayedLimit

\* next_action_after_safe_reject, with this attempt already rejected.
NextAfterReject(w) ==
  IF want[w] = "safe" THEN FirstCandidate(Rejected \cup {vendor[hold[w]]})
                      ELSE NoVendor

FinalStatus(w) ==
  IF want[w] \in {"submitted", "uncertain"} THEN want[w]
  ELSE IF OutcomeOf(want[w]) \in HOLD_OUTCOMES /\ ~DelayExhausted(w) THEN "retrying"
  ELSE IF NextAfterReject(w) # NoVendor THEN "failover_pending"
  ELSE "failed"

\* The one transaction that settles the attempt and the chunk.
FinalizeWrite(w) ==
  /\ outcome' = [outcome EXCEPT ![hold[w]] =
                   IF DelayExhausted(w) THEN "failed" ELSE OutcomeOf(want[w])]
  /\ safe' = [safe EXCEPT ![hold[w]] = want[w] \in {"safe", "hold", "balance"}]
  /\ status' = FinalStatus(w)
  /\ retry' = IF want[w] \in {"retry_scheduled", "delayed"} /\ ~DelayExhausted(w)
              THEN retry + 1 ELSE retry
  /\ due' = (want[w] \notin {"retry_scheduled", "delayed"} \/ DelayExhausted(w))
  /\ next' = IF OutcomeOf(want[w]) = "rejected" \/ DelayExhausted(w)
             THEN NextAfterReject(w) ELSE next
  /\ batch' \in IF want[w] = "balance" THEN {"blocked"}
                ELSE IF FinalStatus(w) = "failed" THEN {batch, "done"} ELSE {batch}
  /\ UNCHANGED <<route, children, gens, vendor, vendorVars, paused>>

NothingWritten == UNCHANGED <<chunkVars, attemptVars, vendorVars, envVars>>

\* classify_finalize_conflict: attempt and chunk agree on the result.
SameResult(o) ==
  \/ o = "submitted" /\ status = "submitted"
  \/ o = "uncertain" /\ status = "uncertain"
  \/ o \in HOLD_OUTCOMES /\ status = "retrying"
  \/ o \in {"rejected", "failed"} /\ status = "failed"
  \/ o = "rejected" /\ status = "failover_pending"

\* followup_allowed: pause the queues, take the next vendor, or end.
Followup(w, allowed, s, nv, g) ==
  CASE allowed /\ want[w] \in {"hold", "balance"} ->
         Go(w, "pausing") /\ UNCHANGED <<seen, vend, hold, want>>
    [] allowed /\ want[w] \in {"safe", "rejected"} /\ s = "failover_pending" ->
         /\ Go(w, "failover")
         /\ vend' = [vend EXCEPT ![w] = nv]
         /\ hold' = [hold EXCEPT ![w] = g]
         /\ UNCHANGED <<seen, want>>
    [] OTHER -> Stop(w)

\* Applied and acknowledged, or refused by a compare-and-set (LOST_CAS,
\* STATE_CORRUPTION, RECOVERY_MARKED_UNCERTAIN: nothing is written).
Finalize(w) ==
  /\ pc[w] = "finalizing"
  /\ IF FinalizeHits(w)
     THEN /\ FinalizeWrite(w)
          /\ Followup(w, TRUE, FinalStatus(w), NextAfterReject(w), hold[w])
     ELSE /\ NothingWritten
          /\ Followup(w, /\ outcome[hold[w]] = OutcomeOf(want[w])
                         /\ SameResult(outcome[hold[w]]), status, next, route)

\* The transaction raised, and the worker cannot know whether it committed.
FinalizeRaises(w) ==
  /\ pc[w] = "finalizing"
  /\ Go(w, "reload") /\ UNCHANGED <<seen, vend, hold, want>>
  /\ NothingWritten \/ (FinalizeHits(w) /\ FinalizeWrite(w))

\* load_authoritative_next_action: act on the facts in the database.
Reload(w) ==
  /\ pc[w] = "reload"
  /\ NothingWritten
  /\ Followup(w, SameResult(outcome[hold[w]]), status, next, route)

\* store.pause_queues, after the transaction.
PauseQueues(w) ==
  /\ pc[w] = "pausing"
  /\ paused' = TRUE
  /\ Stop(w)
  /\ UNCHANGED <<chunkVars, attemptVars, vendorVars, batch>>

\* _settle_split_vendor_attempt: every attempt still invoking.
SettleInvoking ==
  outcome' = [g \in Gen |-> IF outcome[g] = "invoking" THEN "rejected"
                                                      ELSE outcome[g]]

\* complete_vendor_split: with in-flight capacity the parent fails and its two
\* children are created; without, it waits in split_capacity_blocked.
CompleteVendorSplit ==
  \/ /\ status' = "failed" /\ children' = TRUE /\ due' = TRUE
     /\ SettleInvoking
  \/ /\ status' = "split_capacity_blocked" /\ due' = TRUE
     /\ SettleInvoking
     /\ UNCHANGED children

\* split_once for code 1006; a chunk of one number, or one that is no longer
\* submitting, is left as it is.
SplitOnce(w) ==
  /\ pc[w] = "splitting"
  /\ Stop(w)
  /\ IF /\ PhoneCount >= 2 /\ ~children
        /\ status \in {"submitting", "split_capacity_blocked"}
     THEN CompleteVendorSplit
     ELSE UNCHANGED <<status, children, due, outcome>>
  /\ UNCHANGED <<retry, route, next, gens, vendor, safe, vendorVars, envVars>>

\* A crash, or one of the early returns that write nothing: a paused queue,
\* no token, a closed market window, no vendor left, a frozen chunk.
Leave(w) ==
  /\ pc[w] # "idle"
  /\ Stop(w)
  /\ UNCHANGED <<chunkVars, attemptVars, vendorVars, envVars>>

-----------------------------------------------------------------------------
(* Recovery and operations.                                                 *)

LastIsSafeReject ==
  gens > 0 /\ outcome[gens] = "rejected" /\ safe[gens] /\ ~Blocked

\* repair_legacy_safe_reject_submitting, first transaction of stalled().
RepairLegacyReject ==
  /\ status = "submitting" /\ batch = "live" /\ LastIsSafeReject
  /\ due' = TRUE
  /\ LET nv == FirstCandidate(Rejected)
     IN  IF nv # NoVendor
         THEN /\ status' = "failover_pending" /\ next' = nv /\ route' = gens
              /\ batch' = batch
         ELSE /\ status' = "failed" /\ next' = NoVendor /\ route' = route
              /\ BatchMaySettle
  /\ UNCHANGED <<retry, children, attemptVars, vendorVars, paused, workerVars>>

\* Attempts left invoking although their chunk has a result.
TornRows ==
  {g \in 1..gens : /\ outcome[g] = "invoking"
                  /\ status \in {"submitted", "failed", "uncertain",
                                "unknown_terminal"}}
StaleRows(old15) ==
  {g \in 1..gens : /\ outcome[g] = "invoking" /\ old15
                  /\ status = "submitting" /\ route = g}

\* Variant: only an overdue attempt closes the chunk.
OverdueAttemptOnly(old5, old15) == StaleRows(old15) # {}

\* submitting_since is 5 minutes old, or the attempt was just closed.
Overdue(old5, old15) == old5 \/ StaleRows(old15) # {}

\* The statement of stalled(): all its parts read the same snapshot.
\* old5: submitting for 5 minutes; old15: invoking for 15; sent: some message
\* of the chunk is still in status sent (its report has not come).
Stalled(old5, old15, sent) ==
  /\ old15 => old5
  /\ outcome' = [g \in Gen |->
       IF g \in TornRows
       THEN IF status = "submitted" /\ route = g /\ sent THEN "submitted"
                                                        ELSE "inconsistent"
       ELSE IF g \in StaleRows(old15) THEN "uncertain" ELSE outcome[g]]
  /\ status' = IF /\ status = "submitting" /\ batch = "live"
                 /\ Overdue(old5, old15) /\ ~LastIsSafeReject
              THEN "uncertain" ELSE status
  /\ outcome' # outcome \/ status' # status
  /\ UNCHANGED <<retry, due, route, next, children, gens, vendor, safe,
                 vendorVars, envVars, workerVars>>

\* retry_capacity_blocked_splits, third transaction of stalled().
RetryBlockedSplit ==
  /\ status = "split_capacity_blocked" /\ PhoneCount >= 2 /\ ~children
  /\ CompleteVendorSplit
  /\ UNCHANGED <<retry, route, next, gens, vendor, safe, vendorVars, envVars,
                 workerVars>>

\* resolve_submitted: a report for the chunk's custom_id was found, so some
\* request of the chunk was accepted.
ResolveSubmitted ==
  /\ status = "uncertain"
  /\ \E g \in 1..gens : req[g] = "accepted"
  /\ status' = "submitted"
  /\ UNCHANGED <<retry, due, route, next, children, attemptVars, vendorVars,
                 envVars, workerVars>>

\* terminalize_unknown after the maximal lifetime without evidence.
TerminalizeUnknown ==
  /\ status = "uncertain"
  /\ status' = "unknown_terminal"
  /\ BatchMaySettle
  /\ UNCHANGED <<retry, due, route, next, children, attemptVars, vendorVars,
                 paused, workerVars>>

\* retry_not_before passes.
RetryDue ==
  /\ ~due /\ due' = TRUE
  /\ UNCHANGED <<status, retry, route, next, children, attemptVars, vendorVars,
                 envVars, workerVars>>

\* A sibling chunk of the batch meets code 999.
SiblingBlocks ==
  /\ batch = "live" /\ batch' = "blocked"
  /\ UNCHANGED <<chunkVars, attemptVars, vendorVars, paused, workerVars>>

\* Another chunk, the control agent or an operator pauses the queues.
OthersPause ==
  /\ ~paused /\ paused' = TRUE
  /\ UNCHANGED <<chunkVars, attemptVars, vendorVars, batch, workerVars>>

\* queue_resume: batches go back to queued, then the pause keys are cleared.
ResumeBatches ==
  /\ batch = "blocked" /\ batch' = "live"
  /\ UNCHANGED <<chunkVars, attemptVars, vendorVars, paused, workerVars>>
ClearPauses ==
  /\ paused /\ paused' = FALSE
  /\ UNCHANGED <<chunkVars, attemptVars, vendorVars, batch, workerVars>>

Worker(w) ==
  \/ LoadChunk(w) \/ RouteChunk(w) \/ Preflight(w) \/ RejectRecipient(w)
  \/ DispatchEmpty(w) \/ ClaimSubmission(w) \/ BeginVendorInvoke(w)
  \/ ClaimNextVendorInvoke(w) \/ CheckBeforeHttp(w) \/ AbortPaused(w)
  \/ AbortRejected(w) \/ SendHttp(w) \/ ReplyAccepted(w) \/ ReplyLost(w)
  \/ ReplyRefused(w) \/ Finalize(w) \/ FinalizeRaises(w) \/ Reload(w)
  \/ PauseQueues(w) \/ SplitOnce(w) \/ Leave(w)

Reconcile ==
  \/ RepairLegacyReject
  \/ \E old5, old15, sent \in BOOLEAN : Stalled(old5, old15, sent)
  \/ RetryBlockedSplit \/ ResolveSubmitted \/ TerminalizeUnknown

Environment ==
  \/ \E g \in 1..gens : VendorAccepts(g) \/ VendorRefuses(g)
  \/ RetryDue \/ SiblingBlocks \/ OthersPause \/ ResumeBatches \/ ClearPauses

Next == (\E w \in Workers : Worker(w)) \/ Reconcile \/ Environment

Spec == Init /\ [][Next]_vars

\* The reconciler is a periodic job, and a chunk that stays submitting, an
\* attempt that stays invoking, or a result that stays unknown gets old.
FairSpec ==
  /\ Spec
  /\ WF_vars(\E sent \in BOOLEAN : Stalled(TRUE, TRUE, sent))
  /\ WF_vars(RepairLegacyReject)
  /\ WF_vars(TerminalizeUnknown)

-----------------------------------------------------------------------------
(* Properties.                                                              *)

\* The rows, the vendor and the workers keep their types.
TypeOK ==
  /\ status \in Statuses /\ retry \in Nat /\ due \in BOOLEAN
  /\ route \in 0..MaxGen /\ next \in Vendors \cup {NoVendor}
  /\ children \in BOOLEAN
  /\ batch \in {"live", "blocked", "done"} /\ paused \in BOOLEAN
  /\ gens \in 0..MaxGen
  /\ outcome \in [Gen -> Outcomes]
  /\ vendor \in [Gen -> Vendors \cup {NoVendor}]
  /\ safe \in [Gen -> BOOLEAN]
  /\ req \in [Gen -> {"none", "sent", "accepted", "refused"}]
  /\ sends \in [Gen -> Nat]
  /\ pc \in [Workers -> Pcs] /\ seen \in [Workers -> Nat]
  /\ vend \in [Workers -> Vendors \cup {NoVendor}]
  /\ hold \in [Workers -> 0..MaxGen] /\ want \in [Workers -> Wants]

\* A request that the vendor accepted or may still accept.
Outstanding == {g \in Gen : req[g] \in {"sent", "accepted"}}

\* However often the chunk's task is delivered, retried, switched to another
\* vendor or recovered, at most one of its HTTP requests is accepted or can
\* still be accepted, and none is issued twice for the same attempt row: the
\* recipients never get the message twice.
AtMostOnce ==
  /\ \A g, h \in Outstanding : g = h
  /\ \A g \in Gen : sends[g] <= 1

\* While the chunk may be submitted again (pending, retrying,
\* failover_pending), has been failed and refunded, or waits to be split, no
\* request of it was accepted or can still be: only an explicit refusal or an
\* abort before the HTTP request leads there.
ResendOnlyAfterRefusal ==
  status \in {"pending", "retrying", "failover_pending", "failed",
             "split_capacity_blocked"} => Outstanding = {}

\* An attempt whose result blocks switching (submitted, uncertain, invoking,
\* inconsistent) is the last one and the only one: nothing is routed after it,
\* and the unique index on irreversible attempts is never violated.
BlockingIsLast ==
  \A g \in 1..gens : outcome[g] \in BLOCKING_ATTEMPT_OUTCOMES => g = gens

\* A chunk is recorded as submitted only when the vendor accepted a request
\* of it, and every attempt recorded as submitted is such a request.
SubmittedIsAccepted ==
  /\ status = "submitted" => \E g \in Gen : req[g] = "accepted"
  /\ \A g \in Gen : outcome[g] = "submitted" => req[g] = "accepted"

\* Once the result is unknown the chunk never goes back to be sent: it can
\* only be resolved, and the final statuses are final.
UncertainNeverResent ==
  [][/\ status = "uncertain" =>
          status' \in {"uncertain", "submitted", "unknown_terminal"}
     /\ status \in {"submitted", "unknown_terminal", "failed"} =>
          status' = status]_vars

\* The children of a split are created once, for a parent whose request the
\* vendor refused, and a parent that has children is finished.
SplitIsFinal == children => status = "failed" /\ Outstanding = {}

\* A submission abandoned anywhere, by a crash or a lost answer, is closed by
\* the reconciler as long as its batch is queued or sending.
AbandonedIsClosed ==
  status \in {"submitting", "uncertain"} ~>
    (status \notin {"submitting", "uncertain"} \/ batch # "live")

\* The inductive strengthening of the safety properties: a worker between its
\* authorization and the end of its finalize holds a generation of its own,
\* whose attempt still blocks, and knows what became of the request.
Holding == {"authorized", "checked", "waiting", "splitting", "finalizing"}

HoldersKnow ==
  /\ \A w \in Workers :
       /\ pc[w] \in Holding \cup {"reload"} => hold[w] \in 1..gens
       /\ pc[w] \in Holding =>
            /\ outcome[hold[w]] \in BLOCKING_ATTEMPT_OUTCOMES
            /\ status \in {"submitting", "uncertain", "submitted",
                          "unknown_terminal"}
       /\ pc[w] \in {"authorized", "checked"} => req[hold[w]] = "none"
       /\ pc[w] = "splitting" => req[hold[w]] = "refused"
       /\ pc[w] = "finalizing" /\ want[w] = "submitted" =>
            req[hold[w]] = "accepted"
       /\ pc[w] = "finalizing" /\ want[w] \notin {"submitted", "uncertain"} =>
            req[hold[w]] \in {"none", "refused"}
  /\ \A u, w \in Workers :
       pc[u] \in Holding /\ pc[w] \in Holding /\ hold[u] = hold[w] => u = w

\* The attempt rows describe the requests: a request that counts has a row
\* that blocks, and a chunk that may be sent again has no such row.
RowsMatchRequests ==
  /\ \A g \in Gen : outcome[g] = "none" <=> g > gens
  /\ \A g \in Gen : g > gens => req[g] = "none"
  /\ \A g \in Outstanding : outcome[g] \in BLOCKING_ATTEMPT_OUTCOMES
  /\ \A g \in Gen : sends[g] = IF req[g] = "none" THEN 0 ELSE 1
  /\ status \in {"pending", "retrying", "failover_pending"} => ~Blocked

\* Refinement of SubmissionContract: the request that counts is the one that
\* may have been accepted, the verdict is the chunk's status.
ContractRequest ==
  IF \E g \in Gen : req[g] = "accepted" THEN "accepted"
  ELSE IF \E g \in Gen : req[g] = "sent" THEN "sent" ELSE "no"
ContractVerdict ==
  CASE status \in {"submitted", "failed"} -> status
    [] status \in {"uncertain", "unknown_terminal"} -> "unknown"
    [] OTHER -> "open"
Contract == INSTANCE SubmissionContract
              WITH request <- ContractRequest, verdict <- ContractVerdict

\* Every behaviour of the workers, the vendors, the reconciler and the crashes
\* between their transactions is one that the contract allows.
ImplementsContract == Contract!CSpec

=============================================================================
