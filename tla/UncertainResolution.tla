------------------------- MODULE UncertainResolution -------------------------
(****************************************************************************)
(* What becomes of a batch whose chunks go out, one of them perhaps without *)
(* an answer: the reports, the end of an uncertain chunk, its disposal by    *)
(* two administrators (propose, confirm), and the effect of the disposal     *)
(* that an outbox worker applies: the refund of a batch nobody took, or a    *)
(* new batch for the numbers that stayed unknown.                            *)
(*                                                                           *)
(* The batch gets here through BatchLifecycle, which this module extends.    *)
(* Module ChunkSend has the submission of a chunk, Outbox the lease and the  *)
(* attempts of an event, ReportProjection the choice among reports: here a   *)
(* submission is one step, an event is pending until the worker that holds   *)
(* its lease completes it, and a report is better or not.                    *)
(****************************************************************************)
EXTENDS BatchLifecycle

CONSTANTS
  Admins,     \* the accounts that may propose and confirm a disposal
  Messages,
  Home,       \* the chunk of a message
  Proposals,  \* bound: the disposals proposed: chunk, proposer, action
  Answers,    \* bound: the reports that may arrive: message, result
  Lossy,      \* bound: the kinds of batch whose chunks may lose their answer
  Workers,    \* outbox workers that may apply effects at the same time
  MaxTries    \* max_attempts of the event

Actions == {"confirm_accepted", "confirm_not_accepted", "keep_unknown",
            "resend_new_batch"}
Reports == {"delivered", "failed", "unknown"}
APPROVED_EFFECT_STATES == {"effect_pending", "applying", "retryable_effect_error"}

\* The rows of sms_uncertain_resolution.
Resolutions ==
  [action: Actions, proposer: Admins, confirmer: Admins \cup {Null},
   state: {"proposed", "closed", "manual_intervention_required"}
            \cup APPROVED_EFFECT_STATES]

ASSUME TriesAssumption == MaxTries \in Nat \ {0}
ASSUME HomeAssumption == Home \in [Messages -> Chunks]
ASSUME BoundsAssumption ==
  /\ Proposals \subseteq Chunks \X Admins \X Actions
  /\ Answers \subseteq Messages \X Reports
  /\ Lossy \subseteq Kinds
ASSUME NullAssumption == Null \notin Resolutions \cup Reports \cup Admins

VARIABLES
  msg,        \* sms_message: status and the report it shows
  res,        \* sms_uncertain_resolution of a chunk, or Null
  child,      \* sms_uncertain_child: the numbers of the new batch, or Null
  fact,       \* chunks with a row in usage_chunk_release
  event,      \* outbox event uncertain.effect
  lease,      \* the worker that holds the event
  tries,      \* attempts of the event
  exec,       \* what a worker is doing
  active      \* accounts that are active administrators

chunkVars == <<chunk, msg>>
resVars == <<res, child, fact>>
eventVars == <<event, lease, tries>>
workVars == <<eventVars, exec>>
uncertainVars == <<msg, resVars, workVars, active>>
vars == <<lifeVars, uncertainVars>>

\* The part of the lifecycle that a batch on its way leaves alone.
restVars == <<planVars, approvalVars, ready, queueVars>>

Idle == [step |-> "idle", chunk |-> Null, proof |-> Null]

In(c) == {m \in Messages : Home[m] = c}

\* Every variable keeps its type.
TypeOK ==
  /\ LifeTypeOK
  /\ msg \in [Messages -> [status: {"pending", "sent"} \cup Reports,
                           report: Reports \cup {Null}]]
  /\ \A c \in Chunks :
       /\ res[c] \in Resolutions \cup {Null}
       /\ child[c] = Null \/ child[c] \subseteq In(c)
  /\ fact \subseteq Chunks
  /\ event \in [Chunks -> {"none", "pending", "completed", "dead"}]
  /\ lease \in [Chunks -> Workers \cup {Null}]
  /\ tries \in [Chunks -> 0..MaxTries]
  /\ active \subseteq Admins

Init ==
  /\ LifeInit
  /\ msg = [m \in Messages |-> [status |-> "pending", report |-> Null]]
  /\ res = [c \in Chunks |-> Null] /\ child = [c \in Chunks |-> Null] /\ fact = {}
  /\ event = [c \in Chunks |-> "none"] /\ lease = [c \in Chunks |-> Null]
  /\ tries = [c \in Chunks |-> 0]
  /\ exec = [w \in Workers |-> Idle]
  /\ active = Admins

----------------------------------------------------------------------------
(* Sending, as far as it matters here *)

Move(S, from, to) ==
  [m \in Messages |-> IF m \in S /\ msg[m].status \in from
                      THEN [msg[m] EXCEPT !.status = to] ELSE msg[m]]

Silent(S) == {m \in S : msg[m].report = Null}

\* The status the recount of the messages gives the batch.
Recount(unknowns) ==
  LET left == {m \in Messages : msg'[m].status \in {"pending", "sent"}}
      unknown == {m \in Messages : msg'[m].status = "unknown"}
  IN  IF batch = "completed_unknown" \/ left # {} THEN batch
      ELSE IF unknowns /\ unknown # {} THEN "completed_unknown" ELSE "completed"

Submitted(c) ==
  /\ chunk[c] = "pending" /\ batch \in Sendable
  /\ chunk' = [chunk EXCEPT ![c] = "submitted"]
  /\ msg' = Move(Silent(In(c)), {"pending"}, "sent")
  /\ UNCHANGED <<restVars, batch, released, faults, resVars, workVars, active>>

LoseAnswer(c) ==
  /\ kind \in Lossy
  /\ chunk[c] = "pending" /\ batch \in Sendable
  /\ chunk' = [chunk EXCEPT ![c] = "uncertain"]
  /\ UNCHANGED <<restVars, batch, released, faults, msg, resVars, workVars, active>>

\* resolve_submitted: a report names the chunk after all.
ResolveSubmitted(c) ==
  /\ chunk[c] = "uncertain"
  /\ chunk' = [chunk EXCEPT ![c] = "submitted"]
  /\ msg' = Move(In(c), {"pending"}, "sent")
  /\ UNCHANGED <<restVars, batch, released, faults, resVars, workVars, active>>

\* terminalize_unknown: no evidence within the lifetime.
TerminalizeUnknown(c) ==
  /\ chunk[c] = "uncertain"
  /\ chunk' = [chunk EXCEPT ![c] = "unknown_terminal"]
  /\ msg' = Move(In(c), {"pending", "sent"}, "unknown")
  /\ batch' = Recount(TRUE)
  /\ UNCHANGED <<restVars, released, faults, resVars, workVars, active>>

Better(r, old) ==
  \/ old = Null
  \/ old = "unknown" /\ r # "unknown"
  \/ old = "failed" /\ r = "delivered"

\* apply_report; only a chunk the vendor may have taken gets one.
Report(m, r) ==
  /\ <<m, r>> \in Answers
  /\ chunk[Home[m]] \in {"submitted", "uncertain", "unknown_terminal"}
  /\ Better(r, msg[m].report)
  /\ msg' = [msg EXCEPT ![m] = [status |-> r, report |-> r]]
  /\ batch' = Recount(FALSE)
  /\ UNCHANGED <<restVars, chunk, released, faults, resVars, workVars, active>>

\* The report timeout.
ReportTimeout(m) ==
  /\ chunk[Home[m]] = "submitted" /\ msg[m].status = "sent" /\ msg[m].report = Null
  /\ msg' = Move({m}, {"sent"}, "unknown")
  /\ batch' = Recount(FALSE)
  /\ UNCHANGED <<restVars, chunk, released, faults, resVars, workVars, active>>

----------------------------------------------------------------------------
(* The refund *)

\* A disposal that two people have confirmed and nobody took back.
NotAccepted(r) ==
  /\ r # Null
  /\ r.action = "confirm_not_accepted"
  /\ r.state \in APPROVED_EFFECT_STATES \cup {"closed"}

\* _all_chunks_not_accepted, read under the lock of the batch.
AllChunksNotAccepted(ch, ms, facts) ==
  /\ \A c \in Chunks :
       /\ ch[c] \in {"failed", "unknown_terminal"}
       /\ ch[c] = "unknown_terminal" => c \in facts /\ NotAccepted(res[c])
  /\ \A m \in Messages :
       /\ ms[m].status \in {"failed", "unknown"} /\ ms[m].report = Null
       /\ ms[m].status = "unknown" => ch[Home[m]] = "unknown_terminal"
       /\ ms[m].status = "failed" => ch[Home[m]] = "failed"

\* request_usage_release_for_batch: a reservation is released once.
Release(ok) == released' = IF ok /\ released = {} THEN {"unused"} ELSE released

\* reevaluate_confirmed_unused_batch: only a batch with a confirmed disposal.
Reevaluate(ch, ms) ==
  Release((\E c \in fact : ch[c] = "unknown_terminal")
          /\ AllChunksNotAccepted(ch, ms, fact))

\* Mutant: the failure of the last chunk does not look at the disposals.
FailOnly(c) ==
  /\ chunk[c] = "pending" /\ batch \in Sendable
  /\ chunk' = [chunk EXCEPT ![c] = "failed"]
  /\ msg' = Move(Silent(In(c)), {"pending", "sent"}, "failed")
  /\ batch' = Recount(FALSE)
  /\ UNCHANGED <<restVars, released, faults, resVars, workVars, active>>

\* mark_failed with _finalize_failed_messages.
FailChunk(c) ==
  /\ chunk[c] = "pending" /\ batch \in Sendable
  /\ chunk' = [chunk EXCEPT ![c] = "failed"]
  /\ msg' = Move(Silent(In(c)), {"pending", "sent"}, "failed")
  /\ batch' = Recount(FALSE)
  /\ Reevaluate(chunk', msg')
  /\ UNCHANGED <<restVars, faults, resVars, workVars, active>>

----------------------------------------------------------------------------
(* Two administrators *)

\* propose_resolution; chunk_id is unique.
Propose(c, a, action) ==
  /\ <<c, a, action>> \in Proposals
  /\ chunk[c] = "unknown_terminal" /\ res[c] = Null /\ a \in active
  /\ res' = [res EXCEPT ![c] = [action |-> action, state |-> "proposed",
                                proposer |-> a, confirmer |-> Null]]
  /\ UNCHANGED <<restVars, batch, released, faults, chunkVars, child, fact,
                 workVars, active>>

MayConfirm(c, a) ==
  res[c].state = "proposed" /\ a \in active /\ a # res[c].proposer

\* confirm_resolution, with the event that applies it.
Confirm(c, a) ==
  /\ res[c] # Null /\ MayConfirm(c, a)
  /\ res' = [res EXCEPT ![c].state = "effect_pending", ![c].confirmer = a]
  /\ event' = [event EXCEPT ![c] = "pending"]
  /\ UNCHANGED <<restVars, batch, released, faults, chunkVars, child, fact, lease,
                 tries, exec, active>>

\* An account loses its role or is disabled.
Deactivate(a) ==
  /\ a \in active /\ faults < MaxFaults
  /\ active' = active \ {a}
  /\ faults' = faults + 1
  /\ UNCHANGED <<restVars, batch, released, chunkVars, resVars, workVars>>

----------------------------------------------------------------------------
(* The effect: apply_effect under apply_outbox_effect *)

Go(w, step) == exec' = [exec EXCEPT ![w].step = step]

\* The run is over.  Only the holder of the lease completes the event.
Return(w, c) ==
  /\ exec' = [exec EXCEPT ![w] = Idle]
  /\ event' = IF lease[c] = w THEN [event EXCEPT ![c] = "completed"] ELSE event
  /\ lease' = IF lease[c] = w THEN [lease EXCEPT ![c] = Null] ELSE lease

\* The run failed; the event is tried again while it has attempts left.
Raise(w, c) ==
  /\ exec' = [exec EXCEPT ![w] = Idle]
  /\ lease' = IF lease[c] = w THEN [lease EXCEPT ![c] = Null] ELSE lease
  /\ event' = IF lease[c] = w /\ tries[c] = MaxTries
              THEN [event EXCEPT ![c] = "dead"] ELSE event

DualControl(c) == {res[c].proposer, res[c].confirmer} \subseteq active

\* Mutant: a run that crashed keeps the disposal for itself.
ApplicableIfFree(c) == res[c].state \in {"effect_pending", "retryable_effect_error"}

Applicable(c) == res[c].state \in APPROVED_EFFECT_STATES

\* confirm_accepted and keep_unknown have no effect but the record.
Run(action) ==
  IF action \in {"confirm_accepted", "keep_unknown"} THEN "close" ELSE action

\* _mark_applying.  A second worker begins only when the lease has run out under
\* the first.
MarkApplying(w, c) ==
  /\ exec[w] = Idle /\ event[c] = "pending" /\ tries[c] < MaxTries
  /\ lease[c] # Null => faults < MaxFaults
  /\ faults' = IF lease[c] # Null THEN faults + 1 ELSE faults
  /\ lease' = [lease EXCEPT ![c] = w] /\ tries' = [tries EXCEPT ![c] = @ + 1]
  /\ \/ /\ Applicable(c)
        /\ res' = [res EXCEPT ![c].state = "applying"]
        /\ exec' = [exec EXCEPT ![w] = [step |-> Run(res[c].action), chunk |-> c,
                                        proof |-> Null]]
     \/ /\ res[c].state = "closed"
        /\ exec' = [exec EXCEPT ![w] =
                      [step |-> IF res[c].action = "confirm_not_accepted"
                                THEN "again" ELSE "return",
                       chunk |-> c, proof |-> Null]]
        /\ UNCHANGED res
     \/ /\ ~Applicable(c) /\ res[c].state # "closed"
        /\ exec' = [exec EXCEPT ![w] = [step |-> "raise", chunk |-> c, proof |-> Null]]
        /\ UNCHANGED res
  /\ UNCHANGED <<restVars, batch, released, chunkVars, child, fact, event, active>>

\* _run_not_accepted: the fact is entered once, and the batch refunded if nothing of
\* it was taken; a refund that a later report contradicts is left to a person.
RunNotAccepted(w) ==
  LET c == exec[w].chunk
      unused == AllChunksNotAccepted(chunk, msg, fact \cup {c})
      allowed == /\ res[c].state \in APPROVED_EFFECT_STATES \cup {"closed"}
                 /\ c \in fact \/ DualControl(c)
                 /\ unused \/ released = {}
  IN  /\ exec[w].step \in {"confirm_not_accepted", "again"}
      /\ fact' = IF allowed THEN fact \cup {c} ELSE fact
      /\ Release(allowed /\ unused)
      /\ Go(w, IF exec[w].step = "again" THEN (IF allowed THEN "return" ELSE "raise")
               ELSE IF allowed THEN "close" ELSE "manual")
      /\ UNCHANGED <<restVars, batch, faults, chunkVars, res, child, eventVars,
                     active>>

\* lock_uncertain_resend
Lockable(c) == Applicable(c) /\ chunk[c] = "unknown_terminal" /\ DualControl(c)

Unknown(c) == {m \in In(c) : msg[m].status = "unknown" /\ msg[m].report # "delivered"}

\* _run_resend, first transaction: an existing child is taken over, otherwise the
\* numbers still unknown are read, with the state each of them is in.
RunResend(w) ==
  LET c == exec[w].chunk
  IN  /\ exec[w].step = "resend_new_batch"
      /\ \/ /\ ~Lockable(c) \/ (child[c] = Null /\ Unknown(c) = {})
            /\ Go(w, "manual")
         \/ /\ Lockable(c) /\ child[c] # Null
            /\ Go(w, "closechild")
         \/ /\ Lockable(c) /\ child[c] = Null /\ Unknown(c) # {}
            /\ exec' = [exec EXCEPT ![w] = [step |-> "accept", chunk |-> c,
                                            proof |-> [m \in Unknown(c) |-> msg[m]]]]
      /\ UNCHANGED <<restVars, batch, released, faults, chunkVars, resVars,
                     eventVars, active>>

\* Mutant: the proof is not compared with the messages.
ProofTrusted(c, proof) == TRUE

\* verify_source_proof
ProofHolds(c, proof) == \A m \in DOMAIN proof : msg[m] = proof[m]

NoChild(c) == child[c] = Null

\* pipeline.accept: the numbers that pass the filters become a batch, bound to the
\* disposal in the same transaction.
AcceptResend(w, kept) ==
  LET c == exec[w].chunk
  IN  /\ exec[w].step = "accept"
      /\ kept # {} /\ kept \subseteq DOMAIN exec[w].proof
      /\ Lockable(c) /\ NoChild(c) /\ ProofHolds(c, exec[w].proof)
      /\ child' = [child EXCEPT ![c] = kept]
      /\ Go(w, "reread")
      /\ UNCHANGED <<restVars, batch, released, faults, chunkVars, res, fact,
                     eventVars, active>>

\* The other worker was first: its batch is the answer.
AcceptAgain(w) ==
  LET c == exec[w].chunk
  IN  /\ exec[w].step = "accept"
      /\ Lockable(c) /\ ~NoChild(c)
      /\ Go(w, "reread")
      /\ UNCHANGED <<restVars, batch, released, faults, chunkVars, resVars,
                     eventVars, active>>

\* Nothing passes the filters, or the source has changed since it was read.
AcceptRefused(w) ==
  LET c == exec[w].chunk
  IN  /\ exec[w].step = "accept"
      /\ \/ ~Lockable(c)
         \/ NoChild(c)
      /\ Go(w, "manual")
      /\ UNCHANGED <<restVars, batch, released, faults, chunkVars, resVars,
                     eventVars, active>>

\* A resource is missing, or the answer of the commit is lost.
AcceptFails(w) ==
  /\ exec[w].step \in {"accept", "reread"} /\ faults < MaxFaults
  /\ faults' = faults + 1
  /\ Go(w, "retry")
  /\ UNCHANGED <<restVars, batch, released, chunkVars, resVars, eventVars, active>>

\* _run_resend, last transaction.
Reread(w) ==
  LET c == exec[w].chunk
  IN  /\ exec[w].step = "reread"
      /\ Go(w, IF Lockable(c) /\ child[c] # Null THEN "closechild" ELSE "manual")
      /\ UNCHANGED <<restVars, batch, released, faults, chunkVars, resVars,
                     eventVars, active>>

\* _close_resend and _mark_closed: the state the UPDATE asks for.
Close(w) ==
  LET c == exec[w].chunk
  IN  /\ exec[w].step \in {"close", "closechild"}
      /\ IF res[c].state \in {"applying", "closed"}
         THEN /\ res' = [res EXCEPT ![c].state = "closed"]
              /\ Return(w, c)
         ELSE Go(w, "manual") /\ UNCHANGED <<res, event, lease>>
      /\ UNCHANGED <<restVars, batch, released, faults, chunkVars, child, fact,
                     tries, active>>

\* _mark_retryable and _mark_manual: the state changes from applying only; then the
\* exception goes on, and ends at a disposal that waits for a person.
Mark(w) ==
  LET c == exec[w].chunk
      state == IF exec[w].step = "retry" THEN "retryable_effect_error"
               ELSE "manual_intervention_required"
  IN  /\ exec[w].step \in {"retry", "manual"}
      /\ res' = IF res[c].state = "applying" THEN [res EXCEPT ![c].state = state] ELSE res
      /\ Go(w, "raise")
      /\ UNCHANGED <<restVars, batch, released, faults, chunkVars, child, fact,
                     eventVars, active>>

\* apply_outbox_effect
Finish(w) ==
  LET c == exec[w].chunk
  IN  /\ exec[w].step \in {"return", "raise"}
      /\ IF exec[w].step = "return" \/ res[c].state = "manual_intervention_required"
         THEN Return(w, c) ELSE Raise(w, c)
      /\ UNCHANGED <<restVars, batch, released, faults, chunkVars, resVars, tries,
                     active>>

\* The worker is gone; its lease runs out.
Crash(w) ==
  /\ exec[w] # Idle /\ faults < MaxFaults
  /\ faults' = faults + 1
  /\ Raise(w, exec[w].chunk)
  /\ UNCHANGED <<restVars, batch, released, chunkVars, resVars, tries, active>>

----------------------------------------------------------------------------

Sending ==
  \/ \E c \in Chunks : \/ Submitted(c) \/ FailChunk(c) \/ LoseAnswer(c)
                       \/ ResolveSubmitted(c) \/ TerminalizeUnknown(c)
  \/ \E m \in Messages : ReportTimeout(m) \/ \E r \in Reports : Report(m, r)

Deciding ==
  \/ \E c \in Chunks, a \in Admins :
       Confirm(c, a) \/ \E action \in Actions : Propose(c, a, action)
  \/ \E a \in Admins : Deactivate(a)

Step(w) ==
  \/ \E c \in Chunks : MarkApplying(w, c)
  \/ RunNotAccepted(w) \/ RunResend(w)
  \/ \E kept \in SUBSET Messages : AcceptResend(w, kept)
  \/ AcceptAgain(w) \/ AcceptRefused(w) \/ Reread(w)
  \/ Close(w) \/ Mark(w) \/ Finish(w)

Life == LifeNext /\ UNCHANGED uncertainVars

Next ==
  \/ Life \/ Sending \/ Deciding
  \/ \E w \in Workers : Step(w) \/ AcceptFails(w) \/ Crash(w)

Spec == Init /\ [][Next]_vars

\* The outbox workers run, and so does the reconciler: what is queued is started.
Progress ==
  \/ \E w \in Workers : Step(w)
  \/ (Requeue \/ \E k \in Keys : Deliver(k)) /\ UNCHANGED uncertainVars

FairSpec == Spec /\ WF_vars(Progress)

----------------------------------------------------------------------------

\* The usage of a batch is given back at most once, and exactly when it is due: a
\* batch cancelled, rejected or expired has no chunk that could be sent; a batch
\* refunded as unused has ended in every chunk, none of them was resent, and two
\* people confirmed each one left without an answer; and no batch of which nothing
\* was taken is forgotten, whichever of its chunks is settled last, nor is a
\* disposal closed before its fact is entered (_apply_not_accepted, _mark_closed,
\* reevaluate_confirmed_unused_batch, cancel, transition, expire_due).
RefundExact ==
  /\ Cardinality(released) <= 1
  /\ released \in {{"cancelled"}, {"rejected"}, {"expired"}} =>
       \A c \in Chunks : chunk[c] = "none"
  /\ "unused" \in released => \A c \in Chunks :
       /\ chunk[c] \in {"failed", "unknown_terminal"} /\ child[c] = Null
       /\ chunk[c] = "unknown_terminal" =>
            /\ c \in fact /\ res[c].action = "confirm_not_accepted"
            /\ res[c].proposer # res[c].confirmer
  /\ fact # {} /\ AllChunksNotAccepted(chunk, msg, fact) => "unused" \in released
  /\ \A c \in Chunks :
       res[c] # Null /\ res[c].state = "closed" /\ res[c].action = "confirm_not_accepted"
         => c \in fact

\* Numbers are sent again at most once for each disposal, only for a disposal that
\* two different administrators hold at that moment, and only numbers that are
\* still unknown then: two workers on the same event, a lost answer of the commit
\* and a report between the reading and the commit make no second or wrong batch;
\* and a resend is closed only when its batch exists (_run_resend,
\* verify_source_proof, bind_uncertain_child, _close_resend).
ResendEarned ==
  [][\A c \in Chunks :
       /\ child'[c] # child[c] =>
            /\ child[c] = Null
            /\ res[c].action = "resend_new_batch"
            /\ res[c].proposer # res[c].confirmer
            /\ {res[c].proposer, res[c].confirmer} \subseteq active
            /\ \A m \in child'[c] : msg[m].status = "unknown" /\ msg[m].report # "delivered"
       /\ res'[c] # res[c] /\ res'[c].state = "closed"
            /\ res'[c].action = "resend_new_batch" => child[c] # Null
    ]_vars

\* Whatever crashes or is paused in between, a queued batch is started and a
\* confirmed disposal is closed or handed to a person: no event stays pending for
\* ever, and no batch stays queued (the reconciler, apply_outbox_effect).
Settles ==
  []<>(/\ batch # "queued"
       /\ \A c \in Chunks :
            /\ event[c] # "pending"
            /\ res[c] # Null => res[c].state \notin APPROVED_EFFECT_STATES)
=============================================================================
