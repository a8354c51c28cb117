----------------------------- MODULE BatchProofs -----------------------------
(****************************************************************************)
(* Proofs about BatchLifecycle and UncertainResolution, for every set of     *)
(* accounts, chunks, messages and workers and for every bound.               *)
(*                                                                           *)
(* The argument, on the side of the approval: a page never shows a later     *)
(* generation than the row has, and a page of the row's own generation shows *)
(* the time the batch has (PagesKnow).  On the side of the disposal: an      *)
(* event exists only for a disposal two people confirmed (Confirmed), and    *)
(* what a worker is about to do is what that disposal says (WorkerKnows).    *)
(****************************************************************************)
EXTENDS UncertainResolution, FiniteSetTheorems, TLAPS

Early == {"none", "pending_approval", "scheduled"}
Stopped == {"cancelled", "rejected", "expired"}

Msgs == [status: {"pending", "sent"} \cup Reports, report: Reports \cup {Null}]
Proofs == UNION {[S -> Msgs] : S \in SUBSET Messages}
Execs == [step: {"idle", "close", "confirm_not_accepted", "again",
                 "resend_new_batch", "accept", "reread", "closechild", "retry",
                 "manual", "return", "raise"},
          chunk: Chunks \cup {Null}, proof: Proofs \cup {Null}]

LifeTypes ==
  /\ kind \in Kinds /\ plan \in Nat
  /\ approval \in [status: {"none", "pending", "approved", "rejected", "expired"},
                   gen: Nat, fresh: BOOLEAN, by: Approvers \cup {Null}, plan: Nat]
  /\ page \in [Approvers -> [stage: {"none", "seen", "checked"}, gen: Nat, plan: Nat]]
  /\ chunk \in [Chunks -> {"none", "pending", "submitted", "failed", "uncertain",
                           "unknown_terminal"}]

\* A page is never ahead of the approval row, and shows what that row is about.
PagesKnow ==
  \A a \in Approvers : page[a].stage # "none" =>
    /\ page[a].gen <= approval.gen
    /\ page[a].gen = approval.gen /\ approval.status = "pending" =>
         page[a].plan = plan

\* A batch that waits or was stopped has no chunk, and one that waits is charged.
NothingEarly ==
  /\ \A c \in Chunks : chunk[c] # "none" => batch \notin Early \cup Stopped
  /\ batch \in Early => released = {}
  /\ released \in {{}, {"unused"}} \/ (batch \in Stopped /\ released = {batch})

LifeInv ==
  /\ LifeTypes
  /\ SentAsApproved
  /\ ~kind.review => approval.status = "none"
  /\ batch = "none" => approval.gen = 0
  /\ PagesKnow
  /\ NothingEarly

UncertainTypes ==
  /\ msg \in [Messages -> Msgs]
  /\ res \in [Chunks -> Resolutions \cup {Null}]
  /\ DOMAIN child = Chunks /\ fact \subseteq Chunks
  /\ event \in [Chunks -> {"none", "pending", "completed", "dead"}]
  /\ exec \in [Workers -> Execs]

\* A disposal is of a chunk without an answer; its event is there exactly when a
\* second person has confirmed it; facts and children belong to it.
Confirmed ==
  \A c \in Chunks :
    /\ res[c] # Null => chunk[c] = "unknown_terminal"
    /\ event[c] # "none" => res[c] # Null
    /\ res[c] # Null => (event[c] # "none" <=> res[c].state # "proposed")
    /\ event[c] # "none" => res[c].proposer # res[c].confirmer
    /\ c \in fact => event[c] # "none" /\ res[c].action = "confirm_not_accepted"
    /\ child[c] # Null => event[c] # "none" /\ res[c].action = "resend_new_batch"

WorkerKnows(w) ==
  LET c == exec[w].chunk
  IN  /\ exec[w] # Idle => exec[w].step # "idle"
      /\ exec[w].step # "idle" => c \in Chunks /\ event[c] # "none"
      /\ exec[w].step \in {"confirm_not_accepted", "again"} =>
           res[c].action = "confirm_not_accepted"
      /\ exec[w].step \in {"resend_new_batch", "accept", "reread", "closechild"} =>
           res[c].action = "resend_new_batch"
      /\ exec[w].step = "accept" =>
           /\ exec[w].proof \in Proofs
           /\ \A m \in DOMAIN exec[w].proof :
                /\ exec[w].proof[m].status = "unknown"
                /\ exec[w].proof[m].report # "delivered"
      /\ exec[w].step = "close" =>
           /\ res[c].action # "resend_new_batch"
           /\ res[c].action = "confirm_not_accepted" => c \in fact
      /\ exec[w].step = "closechild" => child[c] # Null

\* The refund is due and paid at the same moment.
Paid ==
  /\ "unused" \in released => \A c \in Chunks :
       /\ chunk[c] \in {"failed", "unknown_terminal"}
       /\ chunk[c] = "unknown_terminal" => c \in fact
  /\ fact # {} /\ AllChunksNotAccepted(chunk, msg, fact) => "unused" \in released
  /\ \A c \in Chunks :
       res[c] # Null /\ res[c].state = "closed" /\ res[c].action = "confirm_not_accepted"
         => c \in fact

UncertainInv ==
  /\ UncertainTypes
  /\ Confirmed
  /\ \A w \in Workers : WorkerKnows(w)
  /\ Paid

\* The inductive invariant.
IndInv == LifeInv /\ UncertainInv

----------------------------------------------------------------------------
(* The life of the batch *)

\* The first state.
LEMMA InitInv == Init => IndInv
<1> SUFFICES ASSUME Init PROVE IndInv
  OBVIOUS
<1> USE DEF Init, LifeInit
<1>1. LifeTypes
  BY Zenon DEF LifeTypes, NoPage
<1>2. SentAsApproved /\ PagesKnow /\ NothingEarly
  BY Zenon DEF SentAsApproved, PagesKnow, NothingEarly, NoPage, Early, Stopped
<1>3. UncertainTypes
  BY Zenon DEF UncertainTypes, Msgs, Execs, Idle
<1>4. Confirmed /\ \A w \in Workers : WorkerKnows(w)
  BY Zenon DEF Confirmed, WorkerKnows, Idle
<1>5. Paid
  BY Zenon DEF Paid
<1> QED
  BY Zenon, <1>1, <1>2, <1>3, <1>4, <1>5 DEF IndInv, LifeInv, UncertainInv

\* The accounts' steps on the approval page.
LEMMA ApprovalStep ==
  ASSUME LifeInv, NEW a \in Approvers,
         View(a) \/ Check(a) \/ Approve(a) \/ Reject(a) \/ Refused(a)
  PROVE  LifeInv'
<1> USE DEF LifeInv, LifeTypes, SentAsApproved, PagesKnow, NothingEarly, planVars, queueVars, NoPage, Early, Stopped
<1>1. CASE View(a)
  BY <1>1 DEF View
<1>2. CASE Check(a)
  BY <1>2 DEF Check
<1>3. CASE Approve(a)
  BY Zenon, <1>3 DEF Approve, Decidable
<1>4. CASE Reject(a)
  BY Zenon, <1>4 DEF Reject, Decidable, EndBatch
<1>5. CASE Refused(a)
  BY Zenon, <1>5 DEF Refused
<1> QED
  BY Zenon, <1>1, <1>2, <1>3, <1>4, <1>5

\* The scheduler, expiry, and the acceptance of the batch.
LEMMA PlanStep ==
  ASSUME LifeInv,
         \/ \E at \in {"now", "later"} : Accept(at)
         \/ ExpireDue \/ ClaimDue \/ Cancel \/ Reschedule
         \/ TimeComes \/ ApprovalAges \/ WindowTurns
  PROVE  LifeInv'
<1> USE DEF LifeInv, LifeTypes, SentAsApproved, PagesKnow, NothingEarly, planVars,
            approvalVars, queueVars, Early, Stopped
<1>1. ASSUME NEW at \in {"now", "later"}, Accept(at) PROVE LifeInv'
  BY <1>1 DEF Accept
<1>2. CASE ExpireDue
  BY Zenon, <1>2 DEF ExpireDue, EndBatch
<1>3. CASE ClaimDue
  BY Zenon, <1>3 DEF ClaimDue
<1>4. CASE Cancel
  BY Zenon, <1>4 DEF Cancel, EndBatch
<1>5. CASE Reschedule
  <2>1. kind.review => kind.web
    BY Zenon, KindsAssumption
  <2>2. CASE NeedsReapproval
    <3>1. /\ batch' = "pending_approval" /\ approval'.status = "pending"
          /\ approval'.gen = approval.gen + 1 /\ kind.review
          /\ batch = "scheduled"
      BY <1>5, <2>2 DEF Reschedule, NeedsReapproval
    <3>2. LifeTypes'
      <4>1. approval.gen + 1 \in Nat /\ plan + 1 \in Nat
        OBVIOUS
      <4>2. approval' = [status |-> "pending", gen |-> approval.gen + 1,
                         fresh |-> TRUE, by |-> Null, plan |-> 0]
        BY Zenon, <1>5, <2>2 DEF Reschedule
      <4>3. UNCHANGED <<kind, page, chunk>> /\ plan' = plan + 1
        BY Zenon, <1>5 DEF Reschedule
      <4> QED
        BY Zenon, <4>1, <4>2, <4>3
    <3>3. PagesKnow'
      BY <1>5, <3>1 DEF Reschedule
    <3>4. NothingEarly'
      BY Zenon, <1>5, <3>1 DEF Reschedule
    <3> QED
      BY Zenon, <1>5, <3>1, <3>2, <3>3, <3>4 DEF Reschedule
  <2>3. CASE ~NeedsReapproval
    <3>1. ~kind.review /\ approval.status = "none"
      BY Zenon, <1>5, <2>1, <2>3 DEF Reschedule, NeedsReapproval
    <3> QED
      BY <1>5, <2>3, <3>1 DEF Reschedule
  <2> QED
    BY Zenon, <2>2, <2>3
<1>6. CASE TimeComes
  BY Zenon, <1>6 DEF TimeComes
<1>7. CASE ApprovalAges
  BY Zenon, <1>7 DEF ApprovalAges
<1>8. CASE WindowTurns
  BY Zenon, <1>8 DEF WindowTurns
<1> QED
  BY Zenon, <1>1, <1>2, <1>3, <1>4, <1>5, <1>6, <1>7, <1>8

\* The events that start the batch, and the queues.
LEMMA QueueStep ==
  ASSUME LifeInv,
         \/ \E k \in Keys : Deliver(k) \/ DeliverFails(k)
         \/ Requeue
         \/ \E c \in Chunks : OutOfBalance(c)
         \/ PauseQueues \/ PauseLost \/ ResumeCheck \/ ResumeBatches \/ ClearPauses
         \/ ResumeSend \/ ResumeCrash
  PROVE  LifeInv'
<1> USE DEF LifeInv, LifeTypes, SentAsApproved, PagesKnow, NothingEarly, planVars,
            approvalVars, Early, Stopped
<1>1. ASSUME NEW k \in Keys, Deliver(k) PROVE LifeInv'
  BY <1>1 DEF Deliver, Sendable, Ended, queueVars
<1>2. ASSUME NEW k \in Keys, DeliverFails(k) PROVE LifeInv'
  BY Zenon, <1>2 DEF DeliverFails
<1>3. ASSUME NEW c \in Chunks, OutOfBalance(c) PROVE LifeInv'
  BY Zenon, <1>3 DEF OutOfBalance, Sendable
<1>4. CASE ResumeBatches
  BY Zenon, <1>4 DEF ResumeBatches
<1>5. CASE Requeue \/ PauseQueues \/ PauseLost \/ ResumeCheck \/ ClearPauses
             \/ ResumeSend \/ ResumeCrash
  BY <1>5 DEF Requeue, PauseQueues, PauseLost, ResumeCheck, ClearPauses, ResumeSend,
              ResumeCrash
<1> QED
  BY Zenon, <1>1, <1>2, <1>3, <1>4, <1>5

\* What a step beside the lifecycle may do to it.
Beside ==
  /\ UNCHANGED <<kind, plan, approval, page>>
  /\ batch' \in {batch, "completed", "completed_unknown"}
  /\ batch' # batch \/ released' # released => \E c \in Chunks : chunk[c] # "none"
  /\ released' # released => released = {} /\ released' = {"unused"}
  /\ chunk' \in [Chunks -> {"none", "pending", "submitted", "failed", "uncertain",
                            "unknown_terminal"}]
  /\ \A c \in Chunks : chunk'[c] # "none" => chunk[c] # "none"

\* Such a step keeps what the lifecycle relies on.
LEMMA BesideStep ==
  ASSUME LifeInv, Beside
  PROVE  LifeInv'
BY Zenon DEF Beside, LifeInv, LifeTypes, SentAsApproved, PagesKnow, NothingEarly, Early,
       Stopped

\* The chunks on their way are such steps.
LEMMA SendingBeside ==
  ASSUME IndInv, Sending
  PROVE  Beside
<1> USE HomeAssumption DEF IndInv, LifeInv, LifeTypes, Beside, restVars, planVars,
            approvalVars, Recount, chunkVars
<1>1. ASSUME NEW c \in Chunks, Submitted(c) \/ LoseAnswer(c) \/ ResolveSubmitted(c)
      PROVE  Beside
  BY Zenon, <1>1 DEF Submitted, LoseAnswer, ResolveSubmitted
<1>2. ASSUME NEW c \in Chunks, FailChunk(c) PROVE Beside
  BY Zenon, <1>2 DEF FailChunk, Reevaluate, Release
<1>3. ASSUME NEW c \in Chunks, TerminalizeUnknown(c) PROVE Beside
  BY Zenon, <1>3 DEF TerminalizeUnknown
<1>4. ASSUME NEW m \in Messages, ReportTimeout(m) PROVE Beside
  BY Zenon, <1>4 DEF ReportTimeout
<1>5. ASSUME NEW m \in Messages, NEW r \in Reports, Report(m, r) PROVE Beside
  BY Zenon, <1>5 DEF Report
<1> QED
  BY Zenon, <1>1, <1>2, <1>3, <1>4, <1>5 DEF Sending

\* So are the decisions, and the work on their effects.
LEMMA WorkBeside ==
  ASSUME IndInv, Deciding \/ \E w \in Workers : Step(w) \/ AcceptFails(w) \/ Crash(w)
  PROVE  Beside
<1> USE DEF IndInv, LifeInv, LifeTypes, Beside, restVars, planVars, approvalVars,
            chunkVars
<1>1. ASSUME Deciding PROVE Beside
  BY Zenon, <1>1 DEF Deciding, Confirm, Propose, Deactivate
<1>2. ASSUME NEW w \in Workers, RunNotAccepted(w) PROVE Beside
  <2>1. exec[w].chunk \in Chunks
    BY Zenon, <1>2 DEF UncertainInv, WorkerKnows, RunNotAccepted
  <2> QED
    BY Zenon, <1>2, <2>1 DEF RunNotAccepted, Release, AllChunksNotAccepted
<1>3. ASSUME NEW w \in Workers, \/ \E c \in Chunks : MarkApplying(w, c)
                                \/ RunResend(w)
                                \/ \E kept \in SUBSET Messages : AcceptResend(w, kept)
                                \/ AcceptAgain(w) \/ AcceptRefused(w) \/ AcceptFails(w)
      PROVE  Beside
  BY Zenon, <1>3 DEF MarkApplying, RunResend, AcceptResend, AcceptAgain, AcceptRefused,
              AcceptFails
<1>4. ASSUME NEW w \in Workers, \/ Reread(w) \/ Close(w) \/ Mark(w) \/ Finish(w)
                                \/ Crash(w)
      PROVE  Beside
  BY Zenon, <1>4 DEF Reread, Close, Mark, Finish, Crash
<1> QED
  BY Zenon, <1>1, <1>2, <1>3, <1>4 DEF Step

\* Nothing in the system lets a batch through that was not approved as it is.
LEMMA LifeNextInv == IndInv /\ [Next]_vars => LifeInv'
<1> SUFFICES ASSUME IndInv, [Next]_vars PROVE LifeInv'
  OBVIOUS
<1>1. CASE Life
  BY Zenon, <1>1, ApprovalStep, PlanStep, QueueStep DEF Life, LifeNext, IndInv
<1>2. CASE Sending
  BY Zenon, <1>2, SendingBeside, BesideStep DEF IndInv
<1>3. CASE Deciding \/ \E w \in Workers : Step(w) \/ AcceptFails(w) \/ Crash(w)
  BY Zenon, <1>3, WorkBeside, BesideStep DEF IndInv
<1>4. CASE UNCHANGED vars
  BY Zenon, <1>4 DEF vars, lifeVars, planVars, approvalVars, IndInv, LifeInv, LifeTypes,
              SentAsApproved, PagesKnow, NothingEarly
<1> QED
  BY Zenon, <1>1, <1>2, <1>3, <1>4 DEF Next

----------------------------------------------------------------------------
(* Disposals and their effects *)

\* What the lifecycle does to a batch on its way: chunks are planned, and nothing
\* is refunded as unused.
LEMMA LifeEffect ==
  ASSUME LifeInv, LifeNext
  PROVE  /\ \/ chunk' = chunk
            \/ chunk' = [c \in Chunks |-> IF chunk[c] = "none" THEN "pending" ELSE chunk[c]]
         /\ "unused" \in released' <=> "unused" \in released
<1> USE DEF queueVars
<1>1. ASSUME NEW a \in Approvers, View(a) \/ Check(a) \/ Approve(a) \/ Reject(a) \/ Refused(a)
      PROVE  chunk' = chunk /\ ("unused" \in released' <=> "unused" \in released)
  BY Zenon, <1>1 DEF View, Check, Approve, Reject, Refused, EndBatch
<1>2. ASSUME \/ \E at \in {"now", "later"} : Accept(at)
             \/ ExpireDue \/ ClaimDue \/ Cancel \/ Reschedule
             \/ TimeComes \/ ApprovalAges \/ WindowTurns
      PROVE  chunk' = chunk /\ ("unused" \in released' <=> "unused" \in released)
  BY Zenon, <1>2 DEF Accept, ExpireDue, ClaimDue, Cancel, Reschedule, TimeComes,
              ApprovalAges, WindowTurns, EndBatch
<1>3. ASSUME NEW k \in Keys, Deliver(k)
      PROVE  /\ \/ chunk' = chunk
                \/ chunk' = [c \in Chunks |-> IF chunk[c] = "none" THEN "pending"
                                              ELSE chunk[c]]
             /\ released' = released
  BY Zenon, <1>3 DEF Deliver
<1>4. ASSUME \/ \E k \in Keys : DeliverFails(k)
             \/ Requeue
             \/ \E c \in Chunks : OutOfBalance(c)
             \/ PauseQueues \/ PauseLost \/ ResumeCheck \/ ResumeBatches \/ ClearPauses
             \/ ResumeSend \/ ResumeCrash
      PROVE  chunk' = chunk /\ released' = released
  BY Zenon, <1>4 DEF DeliverFails, Requeue, OutOfBalance, PauseQueues, PauseLost, ResumeCheck,
              ResumeBatches, ClearPauses, ResumeSend, ResumeCrash
<1> QED
  BY Zenon, <1>1, <1>2, <1>3, <1>4 DEF LifeNext

\* The lifecycle keeps what the disposals rely on.
LEMMA LifeUncertain ==
  ASSUME IndInv, Life
  PROVE  UncertainInv'
<1>1. UNCHANGED <<msg, res, child, fact, event, exec>>
  BY Zenon DEF Life, uncertainVars, resVars, workVars, eventVars
<1>2. /\ chunk' = chunk \/ chunk' = [c \in Chunks |-> IF chunk[c] = "none" THEN "pending"
                                                      ELSE chunk[c]]
      /\ "unused" \in released' <=> "unused" \in released
  BY Zenon, LifeEffect DEF Life, IndInv
<1>3. UncertainTypes'
  BY Zenon, <1>1 DEF IndInv, UncertainInv, UncertainTypes
<1>4. Confirmed'
  BY Zenon, <1>1, <1>2 DEF IndInv, UncertainInv, Confirmed
<1>5. \A w \in Workers : WorkerKnows(w)'
  BY Zenon, <1>1 DEF IndInv, UncertainInv, WorkerKnows
<1>6. Paid'
  <2>1. CASE chunk' = chunk
    BY Zenon, <1>1, <1>2, <2>1 DEF IndInv, UncertainInv, Paid, AllChunksNotAccepted, NotAccepted
  <2>2. CASE chunk' # chunk
    <3>1. chunk' = [c \in Chunks |-> IF chunk[c] = "none" THEN "pending" ELSE chunk[c]]
      BY Zenon, <1>2, <2>2
    <3>2. PICK c \in Chunks : chunk[c] = "none"
      BY Zenon, <2>2, <3>1 DEF IndInv, LifeInv, LifeTypes
    <3>3. chunk'[c] = "pending"
      BY Zenon, <3>1, <3>2
    <3>4. ~AllChunksNotAccepted(chunk, msg, fact)'
      BY Zenon, <3>3 DEF AllChunksNotAccepted
    <3>5. "unused" \notin released'
      BY Zenon, <1>2, <3>2 DEF IndInv, UncertainInv, Paid
    <3> QED
      BY Zenon, <1>1, <3>4, <3>5 DEF IndInv, UncertainInv, Paid
  <2> QED
    BY Zenon, <2>1, <2>2
<1> QED
  BY Zenon, <1>3, <1>4, <1>5, <1>6 DEF UncertainInv

\* A message keeps its type when its status moves.
LEMMA MoveType ==
  ASSUME msg \in [Messages -> Msgs], NEW S, NEW from,
         NEW to \in {"pending", "sent"} \cup Reports
  PROVE  Move(S, from, to) \in [Messages -> Msgs]
BY Zenon DEF Move, Msgs

\* A chunk on its way: the disposals are left alone, and a chunk that has ended
\* stays as it is.
LEMMA SendingEffect ==
  ASSUME IndInv, Sending
  PROVE  /\ UNCHANGED <<res, child, fact, event, exec>>
         /\ msg' \in [Messages -> Msgs]
         /\ \A c \in Chunks : chunk[c] \in {"failed", "unknown_terminal"} =>
                                chunk'[c] = chunk[c]
<1> USE DEF IndInv, LifeInv, LifeTypes, UncertainInv, UncertainTypes, restVars, resVars,
            workVars, eventVars, Reports
<1>1. ASSUME NEW c \in Chunks, Submitted(c) \/ ResolveSubmitted(c) \/ LoseAnswer(c)
      PROVE  /\ UNCHANGED <<res, child, fact, event, exec>>
             /\ msg' \in [Messages -> Msgs]
             /\ \A d \in Chunks : chunk[d] \in {"failed", "unknown_terminal"} =>
                                    chunk'[d] = chunk[d]
  BY <1>1, MoveType DEF Submitted, ResolveSubmitted, LoseAnswer
<1>2. ASSUME NEW c \in Chunks, FailChunk(c) \/ TerminalizeUnknown(c)
      PROVE  /\ UNCHANGED <<res, child, fact, event, exec>>
             /\ msg' \in [Messages -> Msgs]
             /\ \A d \in Chunks : chunk[d] \in {"failed", "unknown_terminal"} =>
                                    chunk'[d] = chunk[d]
  <2>1. UNCHANGED <<res, child, fact, event, exec>>
    BY Zenon, <1>2 DEF FailChunk, TerminalizeUnknown
  <2>2. msg' \in [Messages -> Msgs]
    <3>1. /\ Move(In(c), {"pending", "sent"}, "unknown") \in [Messages -> Msgs]
          /\ Move(Silent(In(c)), {"pending", "sent"}, "failed") \in [Messages -> Msgs]
      BY Zenon, MoveType
    <3> QED
      BY Zenon, <1>2, <3>1 DEF FailChunk, TerminalizeUnknown
  <2>3. \A d \in Chunks : chunk[d] \in {"failed", "unknown_terminal"} => chunk'[d] = chunk[d]
    BY Zenon, <1>2 DEF FailChunk, TerminalizeUnknown
  <2> QED
    BY Zenon, <2>1, <2>2, <2>3
<1>3. ASSUME NEW m \in Messages, ReportTimeout(m)
      PROVE  UNCHANGED <<res, child, fact, event, exec, chunk>> /\ msg' \in [Messages -> Msgs]
  BY Zenon, <1>3, MoveType DEF ReportTimeout
<1>4. ASSUME NEW m \in Messages, NEW r \in Reports, Report(m, r)
      PROVE  UNCHANGED <<res, child, fact, event, exec, chunk>> /\ msg' \in [Messages -> Msgs]
  BY Zenon, <1>4 DEF Report, Msgs
<1> QED
  BY <1>1, <1>2, <1>3, <1>4 DEF Sending

\* The refund over the steps of sending: only a failure can make it due.
LEMMA SendingPaid ==
  ASSUME IndInv, Sending
  PROVE  Paid'
<1>1. /\ UNCHANGED <<res, child, fact, event, exec>>
      /\ \A c \in Chunks : chunk[c] \in {"failed", "unknown_terminal"} =>
                             chunk'[c] = chunk[c]
  BY Zenon, SendingEffect
<1>2. \A c \in Chunks : c \in fact => chunk[c] = "unknown_terminal"
  BY Zenon DEF IndInv, UncertainInv, Confirmed
<1>3. /\ chunk \in [Chunks -> {"none", "pending", "submitted", "failed", "uncertain",
                               "unknown_terminal"}]
      /\ msg \in [Messages -> Msgs] /\ fact \subseteq Chunks /\ Paid
  BY Zenon DEF IndInv, LifeInv, LifeTypes, UncertainInv, UncertainTypes
<1>4. ASSUME released' = released, ~AllChunksNotAccepted(chunk, msg, fact)'
      PROVE  Paid'
  BY Zenon, <1>1, <1>3, <1>4 DEF Paid
<1>5. ASSUME NEW c \in Chunks, Submitted(c) \/ LoseAnswer(c) \/ ResolveSubmitted(c)
      PROVE  Paid'
  <2>1. chunk'[c] \in {"submitted", "uncertain"} /\ released' = released
    BY Zenon, <1>3, <1>5 DEF Submitted, LoseAnswer, ResolveSubmitted
  <2> QED
    BY Zenon, <1>4, <2>1 DEF AllChunksNotAccepted
<1>6. ASSUME NEW c \in Chunks, TerminalizeUnknown(c) PROVE Paid'
  <2>1. chunk'[c] = "unknown_terminal" /\ c \notin fact' /\ released' = released
    BY Zenon, <1>1, <1>2, <1>3, <1>6 DEF TerminalizeUnknown
  <2> QED
    BY Zenon, <1>4, <2>1 DEF AllChunksNotAccepted
<1>7. ASSUME NEW m \in Messages, ReportTimeout(m) PROVE Paid'
  <2>1. Home[m] \in Chunks
    BY Zenon, HomeAssumption
  <2>2. chunk'[Home[m]] = "submitted" /\ released' = released
    BY Zenon, <1>7 DEF ReportTimeout
  <2> QED
    BY Zenon, <1>4, <2>1, <2>2 DEF AllChunksNotAccepted
<1>8. ASSUME NEW m \in Messages, NEW r \in Reports, Report(m, r) PROVE Paid'
  <2>1. msg'[m].report # Null /\ released' = released
    BY Zenon, <1>3, <1>8, NullAssumption DEF Report
  <2> QED
    BY Zenon, <1>4, <2>1 DEF AllChunksNotAccepted
<1>9. ASSUME NEW c \in Chunks, FailChunk(c) PROVE Paid'
  <2>1. released \in {{}, {"unused"}}
    BY Zenon, <1>9 DEF IndInv, LifeInv, NothingEarly, FailChunk, Sendable, Stopped
  <2>2. "unused" \notin released
    BY Zenon, <1>3, <1>9 DEF FailChunk, Paid
  <2>3. released = {}
    BY Zenon, <2>1, <2>2
  <2>4. AllChunksNotAccepted(chunk, msg, fact)' <=> AllChunksNotAccepted(chunk', msg', fact)
    BY Zenon, <1>1 DEF AllChunksNotAccepted, NotAccepted
  <2>5. CASE fact # {} /\ AllChunksNotAccepted(chunk, msg, fact)'
    <3>1. \E d \in fact : chunk'[d] = "unknown_terminal"
      BY Zenon, <1>1, <1>2, <1>3, <2>5
    <3>2. released' = {"unused"}
      BY Zenon, <1>9, <2>3, <2>4, <2>5, <3>1 DEF FailChunk, Reevaluate, Release
    <3>3. \A d \in Chunks : /\ chunk'[d] \in {"failed", "unknown_terminal"}
                            /\ chunk'[d] = "unknown_terminal" => d \in fact'
      BY Zenon, <2>5 DEF AllChunksNotAccepted
    <3> QED
      BY Zenon, <1>1, <1>3, <3>2, <3>3 DEF Paid
  <2>6. CASE ~(fact # {} /\ AllChunksNotAccepted(chunk, msg, fact)')
    <3>1. released' = released
      BY Zenon, <1>9, <2>4, <2>6 DEF FailChunk, Reevaluate, Release
    <3> QED
      BY Zenon, <1>1, <1>3, <2>2, <2>6, <3>1 DEF Paid
  <2> QED
    BY Zenon, <2>5, <2>6
<1> QED
  BY Zenon, <1>5, <1>6, <1>7, <1>8, <1>9 DEF Sending

\* The chunks on their way keep what the disposals rely on.
LEMMA SendingUncertain ==
  ASSUME IndInv, Sending
  PROVE  UncertainInv'
<1>1. /\ UNCHANGED <<res, child, fact, event, exec>>
      /\ msg' \in [Messages -> Msgs]
      /\ \A c \in Chunks : chunk[c] \in {"failed", "unknown_terminal"} =>
                             chunk'[c] = chunk[c]
  BY Zenon, SendingEffect
<1>2. UncertainTypes'
  BY Zenon, <1>1 DEF IndInv, UncertainInv, UncertainTypes
<1>3. Confirmed'
  BY Zenon, <1>1 DEF IndInv, UncertainInv, Confirmed
<1>4. \A w \in Workers : WorkerKnows(w)'
  BY Zenon, <1>1 DEF IndInv, UncertainInv, WorkerKnows
<1> QED
  BY Zenon, <1>2, <1>3, <1>4, SendingPaid DEF UncertainInv

\* A disposal goes forward: what was confirmed stays so.
Forward ==
  /\ \A c \in Chunks : event[c] # "none" => event'[c] # "none" /\ res'[c].action = res[c].action
  /\ fact \subseteq fact'
  /\ \A c \in Chunks : child[c] # Null => child'[c] # Null

\* A worker that does nothing itself still knows what it knew.
LEMMA OthersKnow ==
  ASSUME Forward, NEW v \in Workers, WorkerKnows(v), exec'[v] = exec[v]
  PROVE  WorkerKnows(v)'
BY Zenon DEF Forward, WorkerKnows

\* A step that enters no new disposal as confirmed leaves the refund as it is.
LEMMA PaidKept ==
  ASSUME Paid, UNCHANGED <<chunk, msg, fact, released>>,
         \A c \in Chunks : NotAccepted(res'[c]) => NotAccepted(res[c]) \/ c \notin fact,
         \A c \in Chunks : res'[c] # Null /\ res'[c].state = "closed"
                             /\ res'[c].action = "confirm_not_accepted" => c \in fact
  PROVE  Paid'
<1>1. fact # {} /\ AllChunksNotAccepted(chunk, msg, fact)' =>
        AllChunksNotAccepted(chunk, msg, fact)
  BY Zenon DEF AllChunksNotAccepted
<1> QED
  BY Zenon, <1>1 DEF Paid

\* The two administrators keep what the disposals rely on.
LEMMA DecidingUncertain ==
  ASSUME IndInv, Deciding
  PROVE  UncertainInv'
<1>1. UncertainTypes /\ Confirmed /\ (\A w \in Workers : WorkerKnows(w)) /\ Paid
  BY Zenon DEF IndInv, UncertainInv
<1>2. ASSUME NEW c \in Chunks, NEW a \in Admins, NEW action \in Actions,
             Propose(c, a, action)
      PROVE  UncertainInv'
  <2> DEFINE row == [action |-> action, state |-> "proposed", proposer |-> a,
                     confirmer |-> Null]
  <2>1. row \in Resolutions
    BY Zenon DEF Resolutions
  <2>2. row # Null
    BY Zenon, <2>1, NullAssumption
  <2>3. /\ res' = [res EXCEPT ![c] = row] /\ res[c] = Null
        /\ chunk[c] = "unknown_terminal"
        /\ UNCHANGED <<chunk, msg, child, fact, event, exec, released>>
    BY Zenon, <1>2 DEF Propose, chunkVars, workVars, eventVars
  <2>4. event[c] = "none" /\ c \notin fact /\ child[c] = Null
    BY Zenon, <1>1, <2>3 DEF Confirmed
  <2>5. UncertainTypes'
    BY Zenon, <1>1, <2>1, <2>3 DEF UncertainTypes
  <2>6. Confirmed'
    BY Zenon, <1>1, <2>2, <2>3, <2>4 DEF Confirmed, UncertainTypes
  <2>7. Forward
    BY Zenon, <1>1, <2>3, <2>4 DEF Forward, UncertainTypes
  <2>8. \A w \in Workers : WorkerKnows(w)'
    BY Zenon, <1>1, <2>3, <2>7, OthersKnow
  <2>9. Paid'
    <3>1. \A d \in Chunks : d # c => res'[d] = res[d]
      BY Zenon, <1>1, <2>3 DEF UncertainTypes
    <3>2. res'[c].state = "proposed"
      BY Zenon, <1>1, <2>3 DEF UncertainTypes
    <3> QED
      BY Zenon, <1>1, <2>3, <2>4, <3>1, <3>2, PaidKept DEF Paid
  <2> QED
    BY Zenon, <2>5, <2>6, <2>8, <2>9 DEF UncertainInv
<1>3. ASSUME NEW c \in Chunks, NEW a \in Admins, Confirm(c, a)
      PROVE  UncertainInv'
  <2>1. /\ res' = [res EXCEPT ![c].state = "effect_pending", ![c].confirmer = a]
        /\ event' = [event EXCEPT ![c] = "pending"]
        /\ res[c] # Null /\ res[c].state = "proposed" /\ a # res[c].proposer
        /\ UNCHANGED <<chunk, msg, child, fact, exec, released>>
    BY Zenon, <1>3 DEF Confirm, MayConfirm, chunkVars
  <2>2. res[c] \in Resolutions
    BY Zenon, <1>1, <2>1 DEF UncertainTypes
  <2>3. /\ res'[c] = [action |-> res[c].action, state |-> "effect_pending",
                      proposer |-> res[c].proposer, confirmer |-> a]
        /\ \A d \in Chunks : d # c => res'[d] = res[d]
    BY Zenon, <1>1, <2>1, <2>2 DEF UncertainTypes, Resolutions
  <2>4. res'[c] \in Resolutions
    BY <2>2, <2>3 DEF Resolutions, APPROVED_EFFECT_STATES
  <2>5. res'[c] # Null
    BY Zenon, <2>4, NullAssumption
  <2>6. event[c] = "none" /\ c \notin fact /\ child[c] = Null
    BY Zenon, <1>1, <2>1 DEF Confirmed
  <2>7. UncertainTypes'
    BY Zenon, <1>1, <2>1, <2>3, <2>4 DEF UncertainTypes
  <2>8. Confirmed'
    <3>1. /\ event'[c] = "pending" /\ \A d \in Chunks : d # c => event'[d] = event[d]
          /\ UNCHANGED <<chunk, child, fact>> /\ res[c] # Null /\ a # res[c].proposer
      BY Zenon, <1>1, <2>1 DEF UncertainTypes
    <3> QED
      BY <1>1, <2>3, <2>5, <2>6, <3>1 DEF Confirmed
  <2>9. Forward
    BY Zenon, <1>1, <2>1, <2>3, <2>6 DEF Forward, UncertainTypes
  <2>10. \A w \in Workers : WorkerKnows(w)'
    BY Zenon, <1>1, <2>1, <2>9, OthersKnow
  <2>11. Paid'
    <3>1. UNCHANGED <<chunk, msg, fact, released>>
      BY Zenon, <2>1
    <3>2. \A d \in Chunks : NotAccepted(res'[d]) => NotAccepted(res[d]) \/ d \notin fact
      BY Zenon, <2>3, <2>6
    <3>3. \A d \in Chunks : res'[d] # Null /\ res'[d].state = "closed"
                             /\ res'[d].action = "confirm_not_accepted" => d \in fact
      BY <1>1, <2>3 DEF Paid
    <3> QED
      BY Zenon, <1>1, <3>1, <3>2, <3>3, PaidKept
  <2> QED
    BY Zenon, <2>7, <2>8, <2>10, <2>11 DEF UncertainInv
<1>4. ASSUME NEW a \in Admins, Deactivate(a) PROVE UncertainInv'
  <2>1. UNCHANGED <<chunk, msg, res, child, fact, event, exec, released>>
    BY Zenon, <1>4 DEF Deactivate, chunkVars, resVars, workVars, eventVars
  <2>2. Forward
    BY Zenon, <2>1 DEF Forward
  <2>3. Paid'
    BY Zenon, <1>1, <2>1, PaidKept DEF Paid
  <2> QED
    BY Zenon, <1>1, <2>1, <2>2, <2>3, OthersKnow DEF UncertainInv, UncertainTypes, Confirmed
<1> QED
  BY Zenon, <1>2, <1>3, <1>4 DEF Deciding

\* A row keeps the rest when its state is written.
LEMMA RowMove ==
  ASSUME UncertainTypes, NEW c \in Chunks, res[c] # Null,
         NEW s \in APPROVED_EFFECT_STATES \cup {"closed", "manual_intervention_required"},
         res' = [res EXCEPT ![c].state = s]
  PROVE  /\ res'[c] = [action |-> res[c].action, state |-> s,
                       proposer |-> res[c].proposer, confirmer |-> res[c].confirmer]
         /\ res'[c] \in Resolutions /\ res'[c] # Null
         /\ \A d \in Chunks : d # c => res'[d] = res[d]
         /\ res' \in [Chunks -> Resolutions \cup {Null}]
<1>1. res[c] \in Resolutions
  BY Zenon DEF UncertainTypes
<1>2. /\ res'[c] = [action |-> res[c].action, state |-> s,
                    proposer |-> res[c].proposer, confirmer |-> res[c].confirmer]
      /\ \A d \in Chunks : d # c => res'[d] = res[d]
  BY Zenon, <1>1 DEF UncertainTypes, Resolutions
<1>3. res'[c] \in Resolutions
  BY <1>1, <1>2 DEF Resolutions
<1>4. res'[c] # Null
  BY Zenon, <1>3, NullAssumption
<1>5. res' \in [Chunks -> Resolutions \cup {Null}]
  BY Zenon, <1>2, <1>3 DEF UncertainTypes
<1> QED
  BY Zenon, <1>2, <1>3, <1>4, <1>5

\* A run over a confirmed disposal that writes at most its state, and closes a
\* disposal as not accepted only when its fact is there.
StateMove(c, s) ==
  /\ event[c] # "none"
  /\ res' = res \/ res' = [res EXCEPT ![c].state = s]
  /\ s \in APPROVED_EFFECT_STATES \cup {"closed", "manual_intervention_required"}
  /\ res' # res /\ s # "manual_intervention_required" =>
       res[c].state \in APPROVED_EFFECT_STATES \cup {"closed"}
  /\ res' # res /\ s = "closed" /\ res[c].action = "confirm_not_accepted" => c \in fact
  /\ UNCHANGED <<chunk, msg, child, fact, released>>
  /\ event' \in [Chunks -> {"none", "pending", "completed", "dead"}]
  /\ \A d \in Chunks : event'[d] # "none" <=> event[d] # "none"

\* Such a run keeps what the disposals rely on.
LEMMA StateStep ==
  ASSUME IndInv, NEW c \in Chunks, NEW s, StateMove(c, s)
  PROVE  /\ res' \in [Chunks -> Resolutions \cup {Null}]
         /\ Confirmed' /\ Forward /\ Paid'
<1>1. UncertainTypes /\ Confirmed /\ Paid
  BY Zenon DEF IndInv, UncertainInv
<1>2. res[c] # Null
  BY Zenon, <1>1 DEF Confirmed, StateMove
<1>3. /\ UNCHANGED <<chunk, msg, child, fact, released>>
      /\ \A d \in Chunks : event'[d] # "none" <=> event[d] # "none"
  BY Zenon DEF StateMove
<1>4. CASE res' = res
  <2>1. Confirmed' /\ Forward
    BY Zenon, <1>1, <1>3, <1>4 DEF Confirmed, Forward
  <2>2. Paid'
    BY Zenon, <1>1, <1>3, <1>4, PaidKept DEF Paid
  <2> QED
    BY Zenon, <1>1, <1>4, <2>1, <2>2 DEF UncertainTypes
<1>5. CASE res' # res
  <2>1. res' = [res EXCEPT ![c].state = s]
    BY Zenon, <1>5 DEF StateMove
  <2>2. /\ res'[c] = [action |-> res[c].action, state |-> s,
                      proposer |-> res[c].proposer, confirmer |-> res[c].confirmer]
        /\ res'[c] \in Resolutions /\ res'[c] # Null
        /\ \A d \in Chunks : d # c => res'[d] = res[d]
        /\ res' \in [Chunks -> Resolutions \cup {Null}]
    BY Zenon, <1>1, <1>2, <2>1, RowMove DEF StateMove
  <2>3. s # "proposed" /\ event[c] # "none"
    BY Zenon DEF StateMove, APPROVED_EFFECT_STATES
  <2>4. Confirmed'
    BY <1>1, <1>2, <1>3, <2>2, <2>3 DEF Confirmed
  <2>5. Forward
    BY <1>3, <2>2 DEF Forward
  <2>6. NotAccepted(res'[c]) => NotAccepted(res[c])
    BY Zenon, <1>2, <1>5, <2>2 DEF NotAccepted, StateMove, APPROVED_EFFECT_STATES
  <2>7. \A d \in Chunks : NotAccepted(res'[d]) => NotAccepted(res[d]) \/ d \notin fact
    BY Zenon, <2>2, <2>6
  <2>8. \A d \in Chunks : res'[d] # Null /\ res'[d].state = "closed"
                           /\ res'[d].action = "confirm_not_accepted" => d \in fact
    BY <1>1, <1>5, <2>2 DEF Paid, StateMove
  <2>9. Paid'
    BY Zenon, <1>1, <1>3, <2>7, <2>8, PaidKept
  <2> QED
    BY Zenon, <2>2, <2>4, <2>5, <2>9
<1> QED
  BY Zenon, <1>4, <1>5

\* A worker's step: what is left to show is what the worker itself knows.
LEMMA WorkerStep ==
  ASSUME IndInv, NEW w \in Workers, NEW e \in Execs, exec' = [exec EXCEPT ![w] = e],
         WorkerKnows(w)', Forward, Confirmed', Paid',
         msg' = msg, DOMAIN child' = Chunks, fact' \subseteq Chunks,
         res' \in [Chunks -> Resolutions \cup {Null}],
         event' \in [Chunks -> {"none", "pending", "completed", "dead"}]
  PROVE  UncertainInv'
<1>1. exec' \in [Workers -> Execs] /\ \A v \in Workers : v # w => exec'[v] = exec[v]
  BY Zenon DEF IndInv, UncertainInv, UncertainTypes
<1>2. \A v \in Workers : WorkerKnows(v)'
  BY Zenon, <1>1, OthersKnow DEF IndInv, UncertainInv
<1> QED
  BY Zenon, <1>1, <1>2 DEF IndInv, UncertainInv, UncertainTypes

Moved(w, s) == [step |-> s, chunk |-> exec[w].chunk, proof |-> exec[w].proof]

Steps == {"idle", "close", "confirm_not_accepted", "again", "resend_new_batch",
          "accept", "reread", "closechild", "retry", "manual", "return", "raise"}

\* A worker goes on to its next step with the chunk and the proof it has.
LEMMA GoMoves ==
  ASSUME UncertainTypes, NEW w \in Workers, NEW s \in Steps, Go(w, s)
  PROVE  /\ exec' = [exec EXCEPT ![w] = Moved(w, s)] /\ Moved(w, s) \in Execs
         /\ exec'[w] = Moved(w, s)
<1>1. exec[w] \in Execs
  BY Zenon DEF UncertainTypes
<1>2. [exec[w] EXCEPT !.step = s] = Moved(w, s)
  BY <1>1 DEF Execs, Moved
<1>3. Moved(w, s) \in Execs
  BY Zenon, <1>1 DEF Execs, Moved, Steps
<1> QED
  BY Zenon, <1>2, <1>3 DEF Go, UncertainTypes

\* A run ends; the event it had is still there.
LEMMA RunEnds ==
  ASSUME UncertainTypes, NEW w \in Workers, NEW c \in Chunks, event[c] # "none",
         Return(w, c) \/ Raise(w, c)
  PROVE  /\ exec' = [exec EXCEPT ![w] = Idle] /\ Idle \in Execs
         /\ WorkerKnows(w)'
         /\ event' \in [Chunks -> {"none", "pending", "completed", "dead"}]
         /\ \A d \in Chunks : event'[d] # "none" <=> event[d] # "none"
<1>1. Idle \in Execs
  BY Zenon DEF Idle, Execs
<1>2. exec' = [exec EXCEPT ![w] = Idle]
  BY Zenon DEF Return, Raise
<1>3. exec'[w] = Idle
  BY Zenon, <1>2 DEF UncertainTypes
<1>4. WorkerKnows(w)'
  BY <1>3 DEF WorkerKnows, Idle
<1>5. event' = event \/ \E s \in {"completed", "dead"} : event' = [event EXCEPT ![c] = s]
  BY Zenon DEF Return, Raise
<1> QED
  BY Zenon, <1>1, <1>2, <1>4, <1>5 DEF UncertainTypes

\* The steps of a run that write nothing but where the worker is.
LEMMA QuietRun ==
  ASSUME IndInv, NEW w \in Workers,
         RunResend(w) \/ AcceptAgain(w) \/ AcceptRefused(w) \/ AcceptFails(w) \/ Reread(w)
  PROVE  UncertainInv'
<1> DEFINE c == exec[w].chunk
<1>1. UncertainTypes /\ WorkerKnows(w)
  BY Zenon DEF IndInv, UncertainInv
<1>2. /\ UNCHANGED <<chunk, msg, res, child, fact, event, released>>
      /\ exec[w].step \in {"resend_new_batch", "accept", "reread"}
  BY Zenon DEF RunResend, AcceptAgain, AcceptRefused, AcceptFails, Reread, chunkVars, resVars,
         eventVars
<1>3. c \in Chunks /\ event[c] # "none" /\ res[c].action = "resend_new_batch"
  BY Zenon, <1>1, <1>2 DEF WorkerKnows
<1>4. StateMove(c, "closed")
  BY Zenon, <1>1, <1>2, <1>3 DEF StateMove, UncertainTypes
<1>5. /\ res' \in [Chunks -> Resolutions \cup {Null}]
      /\ Confirmed' /\ Forward /\ Paid'
  BY Zenon, <1>3, <1>4, StateStep
<1>6. ASSUME NEW e \in Execs, exec' = [exec EXCEPT ![w] = e], WorkerKnows(w)'
      PROVE  UncertainInv'
  BY Zenon, <1>1, <1>2, <1>5, <1>6, WorkerStep DEF UncertainTypes
<1>7. ASSUME NEW s \in {"reread", "manual", "retry", "closechild"}, Go(w, s),
             s = "closechild" => child[c] # Null
      PROVE  UncertainInv'
  <2>1. /\ exec' = [exec EXCEPT ![w] = Moved(w, s)] /\ Moved(w, s) \in Execs
        /\ exec'[w] = Moved(w, s)
    BY Zenon, <1>1, <1>7, GoMoves DEF Steps
  <2>2. WorkerKnows(w)'
    BY <1>2, <1>3, <1>7, <2>1 DEF WorkerKnows, Moved
  <2> QED
    BY Zenon, <1>6, <2>1, <2>2
<1>8. ASSUME exec' = [exec EXCEPT ![w] = [step |-> "accept", chunk |-> c,
                                          proof |-> [m \in Unknown(c) |-> msg[m]]]]
      PROVE  UncertainInv'
  <2> DEFINE p == [m \in Unknown(c) |-> msg[m]]
             e == [step |-> "accept", chunk |-> c, proof |-> p]
  <2>1. Unknown(c) \subseteq Messages
    BY Zenon DEF Unknown, In
  <2>2. p \in Proofs
    BY <1>1, <2>1 DEF Proofs, UncertainTypes
  <2>3. exec' = [exec EXCEPT ![w] = e]
    BY Zenon, <1>8
  <2>4. e \in Execs
    BY Zenon, <1>3, <2>2 DEF Execs
  <2>5. exec'[w] = e
    BY Zenon, <1>1, <2>3 DEF UncertainTypes
  <2>6. \A m \in DOMAIN p : p[m].status = "unknown" /\ p[m].report # "delivered"
    BY Zenon DEF Unknown
  <2> HIDE DEF p
  <2>7. WorkerKnows(w)'
    BY <1>2, <1>3, <2>2, <2>5, <2>6 DEF WorkerKnows
  <2> QED
    BY Zenon, <1>6, <2>3, <2>4, <2>7
<1> QED
  BY Zenon, <1>7, <1>8 DEF RunResend, AcceptAgain, AcceptRefused, AcceptFails, Reread

\* A run begins: it is about to do what the disposal says.
LEMMA RunBegins ==
  ASSUME IndInv, NEW w \in Workers, NEW c \in Chunks, MarkApplying(w, c)
  PROVE  UncertainInv'
<1>1. UncertainTypes /\ Confirmed
  BY Zenon DEF IndInv, UncertainInv
<1>2. /\ UNCHANGED <<chunk, msg, child, fact, event, released>>
      /\ event[c] = "pending"
  BY Zenon DEF MarkApplying, chunkVars
<1>3. res[c] # Null /\ res[c] \in Resolutions
  BY Zenon, <1>1, <1>2 DEF Confirmed, UncertainTypes
<1>4. \/ res' = res
      \/ res' = [res EXCEPT ![c].state = "applying"] /\ Applicable(c)
  BY Zenon DEF MarkApplying
<1>5. StateMove(c, "applying")
  BY Zenon, <1>1, <1>2, <1>4 DEF StateMove, UncertainTypes, APPROVED_EFFECT_STATES, Applicable
<1>6. /\ res' \in [Chunks -> Resolutions \cup {Null}]
      /\ Confirmed' /\ Forward /\ Paid'
  BY Zenon, <1>5, StateStep
<1>7. res'[c].action = res[c].action
  BY Zenon, <1>2, <1>6 DEF Forward
<1>8. PICK s \in Steps :
        /\ exec' = [exec EXCEPT ![w] = [step |-> s, chunk |-> c, proof |-> Null]]
        /\ \/ s = Run(res[c].action)
           \/ s = "again" /\ res[c].action = "confirm_not_accepted"
           \/ s \in {"return", "raise"}
  <2>1. Run(res[c].action) \in Steps
    BY Zenon, <1>3 DEF Run, Resolutions, Actions, Steps
  <2> QED
    BY Zenon, <2>1 DEF MarkApplying, Steps
<1> DEFINE e == [step |-> s, chunk |-> c, proof |-> Null]
<1>9. e \in Execs
  BY Zenon DEF Execs, Steps
<1>10. exec'[w] = e
  BY Zenon, <1>1, <1>8 DEF UncertainTypes
<1>11. WorkerKnows(w)'
  <2>1. /\ s \in {"confirm_not_accepted", "again"} => res'[c].action = "confirm_not_accepted"
        /\ s = "resend_new_batch" => res'[c].action = "resend_new_batch"
        /\ s = "close" => res'[c].action \notin {"resend_new_batch", "confirm_not_accepted"}
        /\ s \notin {"accept", "reread", "closechild", "idle"}
    BY Zenon, <1>3, <1>7, <1>8 DEF Run, Resolutions, Actions
  <2>2. event'[c] # "none"
    BY Zenon, <1>2
  <2> QED
    BY <1>10, <2>1, <2>2 DEF WorkerKnows
<1> QED
  BY Zenon, <1>1, <1>2, <1>6, <1>8, <1>9, <1>11, WorkerStep DEF UncertainTypes

\* A run ends, or marks the disposal for another run or for a person.
LEMMA RunCloses ==
  ASSUME IndInv, NEW w \in Workers, Close(w) \/ Mark(w) \/ Finish(w) \/ Crash(w)
  PROVE  UncertainInv'
<1> DEFINE c == exec[w].chunk
<1>1. UncertainTypes /\ Confirmed /\ WorkerKnows(w)
  BY Zenon DEF IndInv, UncertainInv
<1>2. /\ UNCHANGED <<chunk, msg, child, fact, released>>
      /\ exec[w].step # "idle"
  BY Zenon, <1>1 DEF Close, Mark, Finish, Crash, chunkVars, resVars, WorkerKnows
<1>3. c \in Chunks /\ event[c] # "none"
  BY Zenon, <1>1, <1>2 DEF WorkerKnows
<1>4. ASSUME NEW s, StateMove(c, s), NEW e \in Execs, exec' = [exec EXCEPT ![w] = e],
             WorkerKnows(w)'
      PROVE  UncertainInv'
  <2>1. event' \in [Chunks -> {"none", "pending", "completed", "dead"}]
    BY Zenon, <1>4 DEF StateMove
  <2> QED
    BY Zenon, <1>1, <1>2, <1>3, <1>4, <2>1, StateStep, WorkerStep DEF UncertainTypes
<1>5. ASSUME Return(w, c) \/ Raise(w, c), NEW s,
             \/ res' = res /\ s = "closed"
             \/ /\ res' = [res EXCEPT ![c].state = s] /\ s = "closed"
                /\ res[c].state \in {"applying", "closed"}
                /\ res[c].action = "confirm_not_accepted" => c \in fact
      PROVE  UncertainInv'
  <2>1. /\ exec' = [exec EXCEPT ![w] = Idle] /\ Idle \in Execs
        /\ WorkerKnows(w)'
        /\ event' \in [Chunks -> {"none", "pending", "completed", "dead"}]
        /\ \A d \in Chunks : event'[d] # "none" <=> event[d] # "none"
    BY Zenon, <1>1, <1>3, <1>5, RunEnds
  <2>2. StateMove(c, s)
    BY Zenon, <1>2, <1>3, <1>5, <2>1 DEF StateMove, APPROVED_EFFECT_STATES
  <2> QED
    BY Zenon, <1>4, <2>1, <2>2
<1>6. ASSUME NEW t \in {"manual", "raise"}, Go(w, t), NEW s, StateMove(c, s),
             event' = event
      PROVE  UncertainInv'
  <2>1. /\ exec' = [exec EXCEPT ![w] = Moved(w, t)] /\ Moved(w, t) \in Execs
        /\ exec'[w] = Moved(w, t)
    BY Zenon, <1>1, <1>6, GoMoves DEF Steps
  <2>2. WorkerKnows(w)'
    BY <1>3, <1>6, <2>1 DEF WorkerKnows, Moved
  <2> QED
    BY Zenon, <1>4, <1>6, <2>1, <2>2
<1>7. CASE Close(w)
  <2>1. CASE res[c].state \in {"applying", "closed"}
    <3>1. res[c].action = "confirm_not_accepted" => c \in fact
      BY Zenon, <1>1, <1>7 DEF WorkerKnows, Close
    <3> QED
      BY Zenon, <1>5, <1>7, <2>1, <3>1 DEF Close
  <2>2. CASE res[c].state \notin {"applying", "closed"}
    <3>1. Go(w, "manual") /\ UNCHANGED <<res, event>>
      BY Zenon, <1>7, <2>2 DEF Close
    <3>2. StateMove(c, "closed")
      BY Zenon, <1>1, <1>2, <1>3, <3>1 DEF StateMove, UncertainTypes
    <3> QED
      BY Zenon, <1>6, <3>1, <3>2
  <2> QED
    BY Zenon, <2>1, <2>2
<1>8. CASE Mark(w)
  <2>1. Go(w, "raise") /\ event' = event
    BY Zenon, <1>8 DEF Mark, eventVars
  <2>2. \E s \in {"retryable_effect_error", "manual_intervention_required"} :
          res' = res \/ (res' = [res EXCEPT ![c].state = s] /\ res[c].state = "applying")
    BY Zenon, <1>8 DEF Mark
  <2>3. \E s : StateMove(c, s)
    BY Zenon, <1>1, <1>2, <1>3, <2>1, <2>2 DEF StateMove, UncertainTypes, APPROVED_EFFECT_STATES
  <2> QED
    BY Zenon, <1>6, <2>1, <2>3
<1>9. CASE Finish(w) \/ Crash(w)
  <2>1. (Return(w, c) \/ Raise(w, c)) /\ res' = res
    BY Zenon, <1>9 DEF Finish, Crash, resVars
  <2> QED
    BY Zenon, <1>5, <2>1
<1> QED
  BY Zenon, <1>7, <1>8, <1>9

\* The fact is entered, and the batch refunded when nothing of it was taken.
LEMMA RunRefunds ==
  ASSUME IndInv, NEW w \in Workers, RunNotAccepted(w)
  PROVE  UncertainInv'
<1> DEFINE c == exec[w].chunk
           unused == AllChunksNotAccepted(chunk, msg, fact \cup {c})
           allowed == /\ res[c].state \in APPROVED_EFFECT_STATES \cup {"closed"}
                      /\ c \in fact \/ DualControl(c)
                      /\ unused \/ released = {}
<1>1. UncertainTypes /\ Confirmed /\ WorkerKnows(w) /\ Paid
  BY Zenon DEF IndInv, UncertainInv
<1>2. /\ exec[w].step \in {"confirm_not_accepted", "again"}
      /\ fact' = IF allowed THEN fact \cup {c} ELSE fact
      /\ released' = IF allowed /\ unused /\ released = {} THEN {"unused"} ELSE released
      /\ UNCHANGED <<chunk, msg, res, child, event>>
  BY Zenon DEF RunNotAccepted, Release, chunkVars, eventVars
<1>3. c \in Chunks /\ event[c] # "none" /\ res[c].action = "confirm_not_accepted"
  BY Zenon, <1>1, <1>2 DEF WorkerKnows
<1>4. PICK s \in {"return", "raise", "close", "manual"} :
        Go(w, s) /\ (s = "close" => allowed)
  BY Zenon DEF RunNotAccepted
<1>5. /\ exec' = [exec EXCEPT ![w] = Moved(w, s)] /\ Moved(w, s) \in Execs
      /\ exec'[w] = Moved(w, s)
  BY Zenon, <1>1, <1>4, GoMoves DEF Steps
<1>6. unused <=> AllChunksNotAccepted(chunk, msg, fact \cup {c})
  OBVIOUS
<1> HIDE DEF allowed, unused
<1>7. fact \subseteq fact' /\ fact' \subseteq Chunks /\ (allowed => c \in fact')
  BY Zenon, <1>1, <1>2, <1>3 DEF UncertainTypes
<1>8. WorkerKnows(w)'
  BY <1>2, <1>3, <1>4, <1>5, <1>7 DEF WorkerKnows, Moved
<1>9. Confirmed'
  BY Zenon, <1>1, <1>2, <1>3 DEF Confirmed
<1>10. Forward
  BY Zenon, <1>2, <1>7 DEF Forward
<1>11. Paid'
  <2>1. AllChunksNotAccepted(chunk, msg, fact)' <=> AllChunksNotAccepted(chunk, msg, fact')
    BY Zenon, <1>2 DEF AllChunksNotAccepted, NotAccepted
  <2>2. CASE ~allowed
    BY Zenon, <1>1, <1>2, <2>1, <2>2 DEF Paid
  <2>3. CASE allowed /\ unused
    <3>1. released \in {{}, {"unused"}}
      BY Zenon, <1>3, <1>1 DEF IndInv, LifeInv, NothingEarly, Confirmed
    <3>2. "unused" \in released'
      BY Zenon, <1>2, <2>3, <3>1
    <3>3. \A d \in Chunks : /\ chunk'[d] \in {"failed", "unknown_terminal"}
                            /\ chunk'[d] = "unknown_terminal" => d \in fact'
      BY Zenon, <1>2, <1>6, <2>3 DEF AllChunksNotAccepted
    <3> QED
      BY Zenon, <1>1, <1>2, <1>7, <3>2, <3>3 DEF Paid
  <2>4. CASE allowed /\ ~unused
    <3>1. ~AllChunksNotAccepted(chunk, msg, fact)'
      BY Zenon, <1>2, <1>6, <2>1, <2>4
    <3>2. released' = released
      BY Zenon, <1>2, <2>4
    <3> QED
      BY Zenon, <1>1, <1>2, <1>7, <3>1, <3>2 DEF Paid
  <2> QED
    BY Zenon, <2>2, <2>3, <2>4
<1> QED
  BY Zenon, <1>1, <1>2, <1>5, <1>7, <1>8, <1>9, <1>10, <1>11, WorkerStep DEF UncertainTypes

\* The new batch is bound to the disposal.
LEMMA RunResends ==
  ASSUME IndInv, NEW w \in Workers, NEW kept \in SUBSET Messages, AcceptResend(w, kept)
  PROVE  UncertainInv'
<1> DEFINE c == exec[w].chunk
<1>1. UncertainTypes /\ Confirmed /\ WorkerKnows(w) /\ Paid
  BY Zenon DEF IndInv, UncertainInv
<1>2. /\ exec[w].step = "accept" /\ child[c] = Null
      /\ child' = [child EXCEPT ![c] = kept]
      /\ Go(w, "reread")
      /\ UNCHANGED <<chunk, msg, res, fact, event, released>>
  BY Zenon DEF AcceptResend, NoChild, chunkVars, eventVars
<1>3. c \in Chunks /\ event[c] # "none" /\ res[c].action = "resend_new_batch"
  BY Zenon, <1>1, <1>2 DEF WorkerKnows
<1>4. /\ exec' = [exec EXCEPT ![w] = Moved(w, "reread")] /\ Moved(w, "reread") \in Execs
      /\ exec'[w] = Moved(w, "reread")
  BY Zenon, <1>1, <1>2, GoMoves DEF Steps
<1>5. DOMAIN child' = Chunks /\ \A d \in Chunks : d # c => child'[d] = child[d]
  BY Zenon, <1>1, <1>2 DEF UncertainTypes
<1>6. WorkerKnows(w)'
  BY <1>2, <1>3, <1>4 DEF WorkerKnows, Moved
<1>7. Confirmed'
  BY Zenon, <1>1, <1>2, <1>3, <1>5 DEF Confirmed
<1>8. Forward
  BY Zenon, <1>2, <1>5 DEF Forward
<1>9. Paid'
  BY Zenon, <1>1, <1>2, PaidKept DEF Paid
<1> QED
  BY Zenon, <1>1, <1>2, <1>4, <1>5, <1>6, <1>7, <1>8, <1>9, WorkerStep DEF UncertainTypes

\* Every step keeps the invariant.
LEMMA NextInv == IndInv /\ [Next]_vars => IndInv'
<1> SUFFICES ASSUME IndInv, [Next]_vars PROVE UncertainInv'
  BY Zenon, LifeNextInv DEF IndInv
<1>1. CASE Life
  BY Zenon, <1>1, LifeUncertain
<1>2. CASE Sending
  BY Zenon, <1>2, SendingUncertain
<1>3. CASE Deciding
  BY Zenon, <1>3, DecidingUncertain
<1>4. ASSUME NEW w \in Workers, Step(w) \/ AcceptFails(w) \/ Crash(w)
      PROVE  UncertainInv'
  BY Zenon, <1>4, QuietRun, RunBegins, RunCloses, RunRefunds, RunResends DEF Step
<1>5. CASE UNCHANGED vars
  BY <1>5 DEF vars, lifeVars, uncertainVars, resVars, workVars, eventVars, IndInv,
              UncertainInv, UncertainTypes, Confirmed, WorkerKnows, Paid,
              AllChunksNotAccepted, NotAccepted
<1> QED
  BY Zenon, <1>1, <1>2, <1>3, <1>4, <1>5 DEF Next

----------------------------------------------------------------------------
(* What follows *)

\* The invariant holds throughout.
THEOREM Invariance == Spec => []IndInv
BY InitInv, NextInv, PTL DEF Spec

\* Whoever decides, expires, reschedules or claims, and in whatever order: a batch
\* that needs approval goes on only as a second person has approved it.
THEOREM ApprovedOnly == Spec => []SentAsApproved
<1>1. IndInv => SentAsApproved
  BY Zenon DEF IndInv, LifeInv
<1> QED
  BY <1>1, Invariance, PTL

\* The invariant is enough for the refund.
LEMMA InvRefund == IndInv => RefundExact
<1> SUFFICES ASSUME IndInv PROVE RefundExact
  OBVIOUS
<1>1. NothingEarly /\ Confirmed /\ Paid
  BY Zenon DEF IndInv, LifeInv, UncertainInv
<1>2. released = {} \/ \E x : released = {x}
  BY Zenon, <1>1 DEF NothingEarly
<1>3. Cardinality(released) <= 1
  <2>1. CASE released = {}
    BY <2>1, FS_EmptySet
  <2>2. ASSUME NEW x, released = {x} PROVE Cardinality(released) = 1
    BY Zenon, <2>2, FS_Singleton
  <2> QED
    BY <1>2, <2>1, <2>2
<1>4. ASSUME released \in {{"cancelled"}, {"rejected"}, {"expired"}}
      PROVE  \A c \in Chunks : chunk[c] = "none"
  <2>1. batch \in Stopped
    BY Zenon, <1>1, <1>4 DEF NothingEarly
  <2> QED
    BY Zenon, <1>1, <2>1 DEF NothingEarly
<1>5. ASSUME "unused" \in released, NEW c \in Chunks
      PROVE  /\ chunk[c] \in {"failed", "unknown_terminal"} /\ child[c] = Null
             /\ chunk[c] = "unknown_terminal" =>
                  /\ c \in fact /\ res[c].action = "confirm_not_accepted"
                  /\ res[c].proposer # res[c].confirmer
  BY Zenon, <1>1, <1>5 DEF Paid, Confirmed
<1>6. /\ fact # {} /\ AllChunksNotAccepted(chunk, msg, fact) => "unused" \in released
      /\ \A c \in Chunks :
           res[c] # Null /\ res[c].state = "closed"
             /\ res[c].action = "confirm_not_accepted" => c \in fact
  BY Zenon, <1>1 DEF Paid
<1> QED
  BY Zenon, <1>3, <1>4, <1>5, <1>6 DEF RefundExact

\* The usage of a batch is given back once at most and exactly when it is due, for
\* any number of chunks and workers.
THEOREM RefundIsExact == Spec => []RefundExact
BY Invariance, InvRefund, PTL

\* What a step may do to the new batch of a disposal, and to its end.
Earned(c) ==
  /\ child'[c] # child[c] =>
       /\ child[c] = Null
       /\ res[c].action = "resend_new_batch"
       /\ res[c].proposer # res[c].confirmer
       /\ {res[c].proposer, res[c].confirmer} \subseteq active
       /\ \A m \in child'[c] : msg[m].status = "unknown" /\ msg[m].report # "delivered"
  /\ res'[c] # res[c] /\ res'[c].state = "closed"
       /\ res'[c].action = "resend_new_batch" => child[c] # Null

\* Every step does what the disposal has earned, and no more.
LEMMA StepEarned ==
  ASSUME IndInv, Next, NEW c \in Chunks
  PROVE  Earned(c)
<1>1. UncertainTypes /\ Confirmed /\ \A w \in Workers : WorkerKnows(w)
  BY Zenon DEF IndInv, UncertainInv
<1>2. ASSUME UNCHANGED <<res, child>> PROVE Earned(c)
  BY Zenon, <1>2 DEF Earned
<1>3. ASSUME NEW d \in Chunks, res[d] # Null, res' = [res EXCEPT ![d].state = "applying"]
                \/ res' = [res EXCEPT ![d].state = "retryable_effect_error"]
                \/ res' = [res EXCEPT ![d].state = "manual_intervention_required"],
             child' = child
      PROVE  Earned(c)
  <2>1. res'[c] = res[c] \/ res'[c].state # "closed"
    BY Zenon, <1>1, <1>3, RowMove DEF APPROVED_EFFECT_STATES
  <2> QED
    BY Zenon, <1>3, <2>1 DEF Earned
<1>4. CASE Life
  BY Zenon, <1>2, <1>4 DEF Life, uncertainVars, resVars
<1>5. CASE Sending
  BY Zenon, <1>2, <1>5, SendingEffect
<1>6. CASE Deciding
  <2>1. ASSUME NEW d \in Chunks, NEW a \in Admins, NEW action \in Actions,
               Propose(d, a, action)
        PROVE  Earned(c)
    BY Zenon, <1>1, <2>1 DEF Propose, Earned, UncertainTypes
  <2>2. ASSUME NEW d \in Chunks, NEW a \in Admins, Confirm(d, a)
        PROVE  Earned(c)
    <3>1. /\ res' = [res EXCEPT ![d].state = "effect_pending", ![d].confirmer = a]
          /\ res[d] # Null /\ child' = child
      BY Zenon, <2>2 DEF Confirm
    <3>2. res[d] \in Resolutions
      BY Zenon, <1>1, <3>1 DEF UncertainTypes
    <3>3. /\ d # c => res'[c] = res[c]
          /\ res'[d].state = "effect_pending"
      BY Zenon, <1>1, <3>1, <3>2 DEF UncertainTypes, Resolutions
    <3> QED
      BY Zenon, <3>1, <3>3 DEF Earned
  <2>3. ASSUME NEW a \in Admins, Deactivate(a) PROVE Earned(c)
    BY Zenon, <1>2, <2>3 DEF Deactivate, resVars
  <2> QED
    BY Zenon, <1>6, <2>1, <2>2, <2>3 DEF Deciding
<1>7. ASSUME NEW w \in Workers, Step(w) \/ AcceptFails(w) \/ Crash(w)
      PROVE  Earned(c)
  <2> DEFINE d == exec[w].chunk
  <2>1. ASSUME NEW b \in Chunks, MarkApplying(w, b) PROVE Earned(c)
    <3>1. event[b] # "none" /\ child' = child
          /\ (res' = res \/ res' = [res EXCEPT ![b].state = "applying"])
      BY Zenon, <2>1 DEF MarkApplying
    <3>2. res[b] # Null
      BY Zenon, <1>1, <3>1 DEF Confirmed
    <3> QED
      BY Zenon, <1>2, <1>3, <3>1, <3>2
  <2>2. CASE \/ RunNotAccepted(w) \/ RunResend(w) \/ AcceptAgain(w) \/ AcceptRefused(w)
             \/ Reread(w) \/ Finish(w) \/ AcceptFails(w) \/ Crash(w)
    BY Zenon, <1>2, <2>2 DEF RunNotAccepted, RunResend, AcceptAgain, AcceptRefused, Reread,
                      Finish, AcceptFails, Crash, resVars
  <2>3. ASSUME NEW kept \in SUBSET Messages, AcceptResend(w, kept) PROVE Earned(c)
    <3>1. /\ exec[w].step = "accept" /\ child[d] = Null /\ res' = res
          /\ child' = [child EXCEPT ![d] = kept]
          /\ kept \subseteq DOMAIN exec[w].proof
          /\ DualControl(d) /\ ProofHolds(d, exec[w].proof)
      BY Zenon, <2>3 DEF AcceptResend, NoChild, Lockable
    <3>2. /\ d \in Chunks /\ event[d] # "none" /\ res[d].action = "resend_new_batch"
          /\ \A m \in DOMAIN exec[w].proof : /\ exec[w].proof[m].status = "unknown"
                                             /\ exec[w].proof[m].report # "delivered"
      BY Zenon, <1>1, <3>1 DEF WorkerKnows
    <3>3. /\ child'[d] = kept
          /\ \A b \in Chunks : b # d => child'[b] = child[b]
      BY Zenon, <1>1, <3>1, <3>2 DEF UncertainTypes
    <3>4. \A m \in kept : msg[m].status = "unknown" /\ msg[m].report # "delivered"
      BY Zenon, <3>1, <3>2 DEF ProofHolds
    <3>5. res[d].proposer # res[d].confirmer
      BY Zenon, <1>1, <3>2 DEF Confirmed
    <3> QED
      BY Zenon, <3>1, <3>2, <3>3, <3>4, <3>5 DEF Earned, DualControl
  <2>4. CASE Close(w)
    <3>1. /\ exec[w].step \in {"close", "closechild"} /\ child' = child
          /\ (res' = res \/ res' = [res EXCEPT ![d].state = "closed"])
      BY Zenon, <2>4 DEF Close
    <3>2. /\ d \in Chunks /\ event[d] # "none"
          /\ res[d].action = "resend_new_batch" => child[d] # Null
      BY Zenon, <1>1, <3>1 DEF WorkerKnows
    <3>3. res[d] # Null
      BY Zenon, <1>1, <3>2 DEF Confirmed
    <3>4. CASE res' = [res EXCEPT ![d].state = "closed"]
      <4>1. /\ res'[d].action = res[d].action
            /\ d # c => res'[c] = res[c]
        BY <1>1, <3>2, <3>3, <3>4, RowMove
      <4> QED
        BY Zenon, <3>1, <3>2, <4>1 DEF Earned
    <3> QED
      BY Zenon, <1>2, <3>1, <3>4
  <2>5. CASE Mark(w)
    <3>1. exec[w].step \in {"retry", "manual"} /\ child' = child
      BY Zenon, <2>5 DEF Mark
    <3>2. d \in Chunks /\ res[d] # Null
      BY Zenon, <1>1, <3>1 DEF WorkerKnows, Confirmed
    <3>3. \/ res' = res
          \/ res' = [res EXCEPT ![d].state = "retryable_effect_error"]
          \/ res' = [res EXCEPT ![d].state = "manual_intervention_required"]
      BY Zenon, <2>5 DEF Mark
    <3> QED
      BY Zenon, <1>2, <1>3, <3>1, <3>2, <3>3
  <2> QED
    BY Zenon, <1>7, <2>1, <2>2, <2>3, <2>4, <2>5 DEF Step
<1> QED
  BY Zenon, <1>4, <1>5, <1>6, <1>7 DEF Next

\* Numbers are sent again once for each disposal, for two active administrators, and
\* only while they are unknown, whatever the workers do at the same time.
THEOREM ResendIsEarned == Spec => ResendEarned
<1>1. IndInv /\ [Next]_vars => [\A c \in Chunks : Earned(c)]_vars
  BY Zenon, StepEarned
<1> QED
  BY <1>1, Invariance, PTL DEF Spec, ResendEarned, Earned

=============================================================================
