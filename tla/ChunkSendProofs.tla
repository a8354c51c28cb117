--------------------------- MODULE ChunkSendProofs ---------------------------
(***************************************************************************)
(* Proofs about ChunkSend for every set of workers, every registry of        *)
(* vendors and every limit.                                                  *)
(*                                                                         *)
(* The argument: an attempt that blocks is the last one (BlockingIsLast),    *)
(* a worker that may still write a result holds an attempt that blocks       *)
(* (HoldersKnow), so there is at most one such worker, and the row it holds  *)
(* is the only one whose request can be outstanding (RowsMatchRequests).     *)
(***************************************************************************)
EXTENDS ChunkSend, WellFoundedInduction, NaturalsInduction, TLAPS

Core ==
  /\ HoldersKnow
  /\ RowsMatchRequests
  /\ BlockingIsLast
  /\ ResendOnlyAfterRefusal
  /\ SubmittedIsAccepted
  /\ SplitIsFinal

\* The inductive invariant.
IndInv == TypeOK /\ Core

\* The registry lists vendors, and no vendor is not one of them.
LEMMA VendorFacts ==
  /\ Registry \in Seq(Vendors)
  /\ DOMAIN Registry \subseteq Nat
  /\ \A i \in DOMAIN Registry : Registry[i] \in Vendors
  /\ NoVendor \notin Vendors
BY ChunkSendAssumption DEF Vendors

\* A set of numbers that is not empty has a least one.
LEMMA LeastIndex ==
  ASSUME NEW S \in SUBSET Nat, S # {}
  PROVE  \E i \in S : \A j \in S : i <= j
<1> DEFINE R == OpToRel(<, Nat)
<1>1. IsWellFoundedOn(R, Nat)
  BY Zenon, NatLessThanWellFounded
<1>2. \A i, j \in Nat : j < i => <<j, i>> \in R
  BY Zenon DEF OpToRel
<1> HIDE DEF R
<1>3. \E i \in S : \A j \in S : ~(<<j, i>> \in R)
  BY Zenon, <1>1, WFMin, Zenon
<1>4. PICK i \in S : \A j \in S : ~(<<j, i>> \in R)
  BY Zenon, <1>3
<1>5. ASSUME NEW j \in S PROVE i <= j
  <2>1. i \in Nat /\ j \in Nat
    OBVIOUS
  <2>2. ~(j < i)
    BY Zenon, <1>2, <1>4, <2>1, Zenon
  <2> QED
    BY <2>1, <2>2
<1> QED
  BY Zenon, <1>5

\* The arithmetic of generations, for steps that need nothing else of it.
LEMMA Numbers ==
  ASSUME NEW n \in 0..MaxGen
  PROVE  /\ n \in Nat /\ ~(n > n) /\ ~(n + 1 > n + 1)
         /\ 1..n \subseteq Gen /\ 1..n \subseteq 1..(n + 1)
         /\ n < MaxGen => n + 1 \in Gen
         /\ \A k \in 1..n : k + 1 > n => k = n
         /\ n + 1 \in 1..(n + 1)
         /\ \A g \in Gen : g # n + 1 => (g > n + 1 <=> g > n)
BY ChunkSendAssumption DEF Gen

\* Routing names a registered vendor or none.
LEMMA FirstCandidateType ==
  ASSUME NEW excluded
  PROVE  FirstCandidate(excluded) \in Vendors \cup {NoVendor}
<1> DEFINE open == {i \in DOMAIN Registry : Registry[i] \notin excluded}
<1>1. CASE open = {}
  BY Zenon, <1>1 DEF FirstCandidate
<1>2. CASE open # {}
  <2>1. \E i \in open : \A j \in open : i <= j
    BY Zenon, <1>2, LeastIndex, VendorFacts
  <2>2. (CHOOSE i \in open : \A j \in open : i <= j) \in DOMAIN Registry
    BY Zenon, <2>1
  <2> QED
    BY Zenon, <1>2, <2>2, VendorFacts DEF FirstCandidate
<1> QED
  BY Zenon, <1>1, <1>2

\* The next vendor is a registered one or none.
LEMMA DecideType ==
  TypeOK => Decide \in Vendors \cup {NoVendor}
<1> SUFFICES ASSUME TypeOK PROVE Decide \in Vendors \cup {NoVendor}
  OBVIOUS
<1>1. FirstCandidate(Rejected) \in Vendors \cup {NoVendor}
  BY Zenon, FirstCandidateType
<1>2. gens > 0 => vendor[gens] \in Vendors \cup {NoVendor}
  BY ChunkSendAssumption DEF TypeOK, Gen
<1> QED
  BY Zenon, <1>1, <1>2 DEF Decide

-----------------------------------------------------------------------------
(* Type correctness.                                                        *)

\* TypeOK in two parts: the database, Redis and the vendor, and the workers.
SharedTypes ==
  /\ status \in Statuses /\ retry \in Nat /\ due \in BOOLEAN
  /\ route \in 0..MaxGen /\ next \in Vendors \cup {NoVendor}
  /\ children \in BOOLEAN
  /\ batch \in {"live", "blocked", "done"} /\ paused \in BOOLEAN
  /\ gens \in 0..MaxGen
  /\ outcome \in [Gen -> Outcomes]
  /\ vendor \in [Gen -> Vendors \cup {NoVendor}]
  /\ safe \in [Gen -> BOOLEAN]
  /\ req \in [Gen -> {"none", "sent", "accepted", "refused"}]
  /\ sends \in [Gen -> Nat]
LocalTypes ==
  /\ pc \in [Workers -> Pcs] /\ seen \in [Workers -> Nat]
  /\ vend \in [Workers -> Vendors \cup {NoVendor}]
  /\ hold \in [Workers -> 0..MaxGen] /\ want \in [Workers -> Wants]

\* TypeOK is the two parts together, before and after a step.
LEMMA TypeParts == /\ TypeOK <=> SharedTypes /\ LocalTypes
                   /\ TypeOK' <=> SharedTypes' /\ LocalTypes'
BY Zenon DEF TypeOK, SharedTypes, LocalTypes

\* A worker that stops keeps the types of the workers.
LEMMA StopTypes ==
  ASSUME LocalTypes, NEW w \in Workers, Stop(w)
  PROVE  LocalTypes'
BY ChunkSendAssumption DEF LocalTypes, Stop, Pcs, Wants

\* So does one that moves to another position.
LEMMA GoTypes ==
  ASSUME LocalTypes, NEW w \in Workers, NEW to \in Pcs, Go(w, to),
         seen' \in [Workers -> Nat], vend' \in [Workers -> Vendors \cup {NoVendor}],
         hold' \in [Workers -> 0..MaxGen], want' \in [Workers -> Wants]
  PROVE  LocalTypes'
BY Zenon DEF LocalTypes, Go

\* Inserting an attempt row keeps the types.
LEMMA InsertTypes ==
  ASSUME SharedTypes, LocalTypes, NEW w \in Workers, NEW g \in Gen,
         NEW v \in Vendors \cup {NoVendor}, InsertInvoking(w, g, v)
  PROVE  /\ gens' \in 0..MaxGen /\ route' \in 0..MaxGen
         /\ outcome' \in [Gen -> Outcomes]
         /\ vendor' \in [Gen -> Vendors \cup {NoVendor}]
         /\ hold' \in [Workers -> 0..MaxGen]
         /\ pc' \in [Workers -> Pcs]
BY ChunkSendAssumption
   DEF SharedTypes, LocalTypes, InsertInvoking, Go, Gen, Pcs, Outcomes,
       BLOCKING_ATTEMPT_OUTCOMES, IRREVERSIBLE_OUTCOMES

\* The steps up to the vendor's answer keep the types.
LEMMA EarlyTypes ==
  ASSUME IndInv, NEW w \in Workers
  PROVE  /\ LoadChunk(w) => TypeOK'
         /\ RouteChunk(w) => TypeOK'
         /\ Preflight(w) => TypeOK'
         /\ CheckBeforeHttp(w) => TypeOK'
         /\ AbortPaused(w) => TypeOK'
         /\ AbortRejected(w) => TypeOK'
         /\ SendHttp(w) => TypeOK'
         /\ ReplyAccepted(w) => TypeOK'
         /\ ReplyLost(w) => TypeOK'
         /\ ReplyRefused(w) => TypeOK'
<1>0. SharedTypes /\ LocalTypes
  BY Zenon, TypeParts DEF IndInv
<1> USE DEF chunkVars, attemptVars, vendorVars, envVars
<1>1. ASSUME LoadChunk(w) PROVE TypeOK'
  <2>1. SharedTypes'
    BY Zenon, <1>0, <1>1 DEF LoadChunk, SharedTypes
  <2>2. LocalTypes'
    BY Zenon, <1>0, <1>1 DEF LoadChunk, Go, IndInv, SharedTypes, LocalTypes, Pcs, Wants
  <2> QED
    BY Zenon, <2>1, <2>2, TypeParts
<1>2. ASSUME RouteChunk(w) PROVE TypeOK'
  <2>1. SharedTypes'
    BY Zenon, <1>0, <1>2 DEF RouteChunk, SharedTypes
  <2>2. LocalTypes'
    BY Zenon, <1>0, <1>2, DecideType DEF RouteChunk, Go, IndInv, SharedTypes, LocalTypes, Pcs, Wants
  <2> QED
    BY Zenon, <2>1, <2>2, TypeParts
<1>3. ASSUME Preflight(w) PROVE TypeOK'
  <2>1. SharedTypes'
    BY Zenon, <1>0, <1>3 DEF Preflight, SharedTypes
  <2>2. LocalTypes'
    BY Zenon, <1>0, <1>3 DEF Preflight, Go, IndInv, SharedTypes, LocalTypes, Pcs, Wants
  <2> QED
    BY Zenon, <2>1, <2>2, TypeParts
<1>4. ASSUME CheckBeforeHttp(w) PROVE TypeOK'
  <2>1. SharedTypes'
    BY Zenon, <1>0, <1>4 DEF CheckBeforeHttp, SharedTypes
  <2>2. LocalTypes'
    BY Zenon, <1>0, <1>4 DEF CheckBeforeHttp, Go, IndInv, SharedTypes, LocalTypes, Pcs, Wants
  <2> QED
    BY Zenon, <2>1, <2>2, TypeParts
<1>5. ASSUME AbortPaused(w) PROVE TypeOK'
  <2>1. SharedTypes'
    BY Zenon, <1>0, <1>5 DEF AbortPaused, SharedTypes
  <2>2. LocalTypes'
    BY Zenon, <1>0, <1>5 DEF AbortPaused, Go, IndInv, SharedTypes, LocalTypes, Pcs, Wants
  <2> QED
    BY Zenon, <2>1, <2>2, TypeParts
<1>6. ASSUME AbortRejected(w) PROVE TypeOK'
  <2>1. SharedTypes'
    BY Zenon, <1>0, <1>6 DEF AbortRejected, DispatchMaySettle, SharedTypes
  <2>2. LocalTypes'
    BY Zenon, <1>0, <1>6 DEF AbortRejected, DispatchMaySettle, Go, IndInv, SharedTypes, LocalTypes, Pcs, Wants
  <2> QED
    BY Zenon, <2>1, <2>2, TypeParts
<1>7. ASSUME SendHttp(w) PROVE TypeOK'
  <2>1. SharedTypes'
    <3>1. hold[w] \in Gen
      BY <1>7, ChunkSendAssumption DEF SendHttp, IndInv, Core, HoldersKnow, Holding, TypeOK, Gen
    <3> QED
      BY <1>0, <1>7, <3>1 DEF SendHttp, SharedTypes
  <2>2. LocalTypes'
    BY Zenon, <1>0, <1>7 DEF SendHttp, Go, IndInv, SharedTypes, LocalTypes, Pcs, Wants
  <2> QED
    BY Zenon, <2>1, <2>2, TypeParts
<1>8. ASSUME ReplyAccepted(w) PROVE TypeOK'
  <2>1. SharedTypes'
    BY Zenon, <1>0, <1>8 DEF ReplyAccepted, ToFinalize, SharedTypes
  <2>2. LocalTypes'
    BY Zenon, <1>0, <1>8 DEF ReplyAccepted, ToFinalize, Go, IndInv, SharedTypes, LocalTypes, Pcs, Wants
  <2> QED
    BY Zenon, <2>1, <2>2, TypeParts
<1>9. ASSUME ReplyLost(w) PROVE TypeOK'
  <2>1. SharedTypes'
    BY Zenon, <1>0, <1>9 DEF ReplyLost, ToFinalize, SharedTypes
  <2>2. LocalTypes'
    BY Zenon, <1>0, <1>9 DEF ReplyLost, ToFinalize, Go, IndInv, SharedTypes, LocalTypes, Pcs, Wants
  <2> QED
    BY Zenon, <2>1, <2>2, TypeParts
<1>10. ASSUME ReplyRefused(w) PROVE TypeOK'
  <2>1. SharedTypes'
    BY Zenon, <1>0, <1>10 DEF ReplyRefused, ToFinalize, SharedTypes
  <2>2. LocalTypes'
    BY <1>0, <1>10 DEF ReplyRefused, ToFinalize, Go, IndInv, SharedTypes, LocalTypes, Pcs, Wants
  <2> QED
    BY Zenon, <2>1, <2>2, TypeParts
<1> QED
  BY Zenon, <1>1, <1>2, <1>3, <1>4, <1>5, <1>6, <1>7, <1>8, <1>9, <1>10

\* The steps that end a worker's turn keep the types.
LEMMA StoppingTypes ==
  ASSUME IndInv, NEW w \in Workers
  PROVE  /\ PauseQueues(w) => TypeOK'
         /\ Leave(w) => TypeOK'
         /\ RejectRecipient(w) => TypeOK'
         /\ DispatchEmpty(w) => TypeOK'
         /\ SplitOnce(w) => TypeOK'
<1>0. SharedTypes /\ LocalTypes
  BY Zenon, TypeParts DEF IndInv
<1> USE DEF chunkVars, attemptVars, vendorVars, envVars
<1>1. ASSUME PauseQueues(w) PROVE TypeOK'
  <2>1. SharedTypes'
    BY Zenon, <1>0, <1>1 DEF PauseQueues, SharedTypes, Statuses
  <2>2. LocalTypes'
    BY Zenon, <1>0, <1>1, StopTypes DEF PauseQueues
  <2> QED
    BY Zenon, <2>1, <2>2, TypeParts
<1>2. ASSUME Leave(w) PROVE TypeOK'
  <2>1. SharedTypes'
    BY Zenon, <1>0, <1>2 DEF Leave, SharedTypes, Statuses
  <2>2. LocalTypes'
    BY Zenon, <1>0, <1>2, StopTypes DEF Leave
  <2> QED
    BY Zenon, <2>1, <2>2, TypeParts
<1>3. ASSUME RejectRecipient(w) PROVE TypeOK'
  <2>1. SharedTypes'
    BY Zenon, <1>0, <1>3 DEF RejectRecipient, BatchMaySettle, SharedTypes, Statuses
  <2>2. LocalTypes'
    BY Zenon, <1>0, <1>3, StopTypes DEF RejectRecipient
  <2> QED
    BY Zenon, <2>1, <2>2, TypeParts
<1>4. ASSUME DispatchEmpty(w) PROVE TypeOK'
  <2>1. SharedTypes'
    BY Zenon, <1>0, <1>4 DEF DispatchEmpty, DispatchMaySettle, SharedTypes, Statuses
  <2>2. LocalTypes'
    BY Zenon, <1>0, <1>4, StopTypes DEF DispatchEmpty
  <2> QED
    BY Zenon, <2>1, <2>2, TypeParts
<1>5. ASSUME SplitOnce(w) PROVE TypeOK'
  <2>1. SharedTypes'
    BY Zenon, <1>0, <1>5 DEF SplitOnce, CompleteVendorSplit, SettleInvoking, Outcomes, SharedTypes, Statuses
  <2>2. LocalTypes'
    BY Zenon, <1>0, <1>5, StopTypes DEF SplitOnce
  <2> QED
    BY Zenon, <2>1, <2>2, TypeParts
<1> QED
  BY Zenon, <1>1, <1>2, <1>3, <1>4, <1>5

\* The claims that authorize a vendor call keep the types.
LEMMA ClaimTypes ==
  ASSUME IndInv, NEW w \in Workers
  PROVE  /\ ClaimSubmission(w) => TypeOK'
         /\ BeginVendorInvoke(w) => TypeOK'
         /\ ClaimNextVendorInvoke(w) => TypeOK'
<1>0. SharedTypes /\ LocalTypes
  BY Zenon, TypeParts DEF IndInv
<1> USE DEF chunkVars, attemptVars, vendorVars, envVars
<1>1. ASSUME ClaimSubmission(w) PROVE TypeOK'
  <2>1. SharedTypes'
    BY Zenon, <1>0, <1>1 DEF ClaimSubmission, SharedTypes, Statuses
  <2>2. CASE Claims(w)
    <3>1. LocalTypes'
      BY Zenon, <1>0, <1>1, <2>2 DEF ClaimSubmission, Go, LocalTypes, Pcs
    <3> QED
      BY Zenon, <2>1, <3>1, TypeParts
  <2>3. CASE ~Claims(w)
    <3>1. LocalTypes'
      BY Zenon, <1>0, <1>1, <2>3, StopTypes DEF ClaimSubmission
    <3> QED
      BY Zenon, <2>1, <3>1, TypeParts
  <2> QED
    BY Zenon, <2>2, <2>3
<1>2. ASSUME BeginVendorInvoke(w) PROVE TypeOK'
  <2>1. CASE status = "submitting" /\ ~Blocked
    <3>1. gens + 1 \in Gen /\ vend[w] \in Vendors \cup {NoVendor}
      BY <1>0, <1>2, ChunkSendAssumption
      DEF BeginVendorInvoke, SharedTypes, LocalTypes, Gen
    <3>2. InsertInvoking(w, gens + 1, vend[w])
      BY Zenon, <1>2, <2>1 DEF BeginVendorInvoke
    <3>3. SharedTypes'
      BY Zenon, <1>0, <1>2, <2>1, <3>1, <3>2, InsertTypes DEF BeginVendorInvoke, SharedTypes
    <3>4. LocalTypes'
      BY Zenon, <1>0, <1>2, <2>1, <3>1, <3>2, InsertTypes DEF BeginVendorInvoke, LocalTypes
    <3> QED
      BY Zenon, <3>3, <3>4, TypeParts
  <2>2. CASE ~(status = "submitting" /\ ~Blocked)
    <3>1. SharedTypes'
      BY Zenon, <1>0, <1>2, <2>2 DEF BeginVendorInvoke, SharedTypes
    <3>2. LocalTypes'
      BY Zenon, <1>0, <1>2, <2>2, StopTypes DEF BeginVendorInvoke
    <3> QED
      BY Zenon, <3>1, <3>2, TypeParts
  <2> QED
    BY Zenon, <2>1, <2>2
<1>3. ASSUME ClaimNextVendorInvoke(w) PROVE TypeOK'
  <2>1. CASE FailoverGranted(w)
    <3>1. hold[w] + 1 \in Gen /\ vend[w] \in Vendors \cup {NoVendor}
      BY <1>0, <1>3, <2>1, ChunkSendAssumption
      DEF ClaimNextVendorInvoke, FailoverGranted, SharedTypes, LocalTypes, Gen
    <3>2. InsertInvoking(w, hold[w] + 1, vend[w])
      BY Zenon, <1>3, <2>1 DEF ClaimNextVendorInvoke
    <3>3. SharedTypes'
      BY Zenon, <1>0, <1>3, <2>1, <3>1, <3>2, InsertTypes
      DEF ClaimNextVendorInvoke, SharedTypes, Statuses
    <3>4. LocalTypes'
      BY Zenon, <1>0, <1>3, <2>1, <3>1, <3>2, InsertTypes
      DEF ClaimNextVendorInvoke, LocalTypes
    <3> QED
      BY Zenon, <3>3, <3>4, TypeParts
  <2>2. CASE ~FailoverGranted(w)
    <3>1. SharedTypes'
      BY Zenon, <1>0, <1>3, <2>2 DEF ClaimNextVendorInvoke, SharedTypes
    <3>2. LocalTypes'
      BY Zenon, <1>0, <1>3, <2>2, StopTypes DEF ClaimNextVendorInvoke
    <3> QED
      BY Zenon, <3>1, <3>2, TypeParts
  <2> QED
    BY Zenon, <2>1, <2>2
<1> QED
  BY Zenon, <1>1, <1>2, <1>3

\* What finalize_vendor_attempt may write.
LEMMA FinalValues ==
  ASSUME TypeOK, NEW w \in Workers
  PROVE  /\ OutcomeOf(want[w]) \in Outcomes \ {"none", "invoking", "inconsistent"}
         /\ OutcomeOf(want[w]) = "submitted" <=> want[w] = "submitted"
         /\ OutcomeOf(want[w]) = "uncertain" <=> want[w] = "uncertain"
         /\ NextAfterReject(w) \in Vendors \cup {NoVendor}
         /\ FinalStatus(w) \in {"submitted", "uncertain", "failed", "retrying",
                               "failover_pending"}
         /\ FinalStatus(w) = "submitted" <=> want[w] = "submitted"
         /\ FinalStatus(w) = "uncertain" <=> want[w] = "uncertain"
<1>1. want[w] \in Wants
  BY Zenon DEF TypeOK
<1>2. /\ OutcomeOf(want[w]) \in Outcomes \ {"none", "invoking", "inconsistent"}
      /\ OutcomeOf(want[w]) = "submitted" <=> want[w] = "submitted"
      /\ OutcomeOf(want[w]) = "uncertain" <=> want[w] = "uncertain"
  BY Zenon, <1>1 DEF OutcomeOf, Wants, Outcomes, HOLD_OUTCOMES, BLOCKING_ATTEMPT_OUTCOMES,
              IRREVERSIBLE_OUTCOMES
<1>3. NextAfterReject(w) \in Vendors \cup {NoVendor}
  BY Zenon, FirstCandidateType DEF NextAfterReject
<1>4. /\ FinalStatus(w) \in {"submitted", "uncertain", "failed", "retrying",
                               "failover_pending"}
      /\ FinalStatus(w) = "submitted" <=> want[w] = "submitted"
      /\ FinalStatus(w) = "uncertain" <=> want[w] = "uncertain"
  BY Zenon DEF FinalStatus, DelayExhausted
<1> QED
  BY Zenon, <1>2, <1>3, <1>4

\* The transaction of finalize_vendor_attempt keeps the shared types.
LEMMA FinalizeWriteTypes ==
  ASSUME IndInv, NEW w \in Workers, FinalizeWrite(w)
  PROVE  SharedTypes'
<1>0. SharedTypes /\ TypeOK
  BY Zenon, TypeParts DEF IndInv
<1>1. status' \in Statuses
  BY Zenon, <1>0, FinalValues DEF FinalizeWrite, Statuses
<1>2. outcome' \in [Gen -> Outcomes]
  BY Zenon, <1>0, FinalValues DEF FinalizeWrite, SharedTypes, Outcomes
<1>3. next' \in Vendors \cup {NoVendor}
  BY Zenon, <1>0, FinalValues DEF FinalizeWrite, SharedTypes
<1>4. batch' \in {"live", "blocked", "done"}
  <2>1. batch \in {"live", "blocked", "done"}
    BY Zenon, <1>0 DEF SharedTypes
  <2>2. batch' \in {"blocked"} \/ batch' \in {batch, "done"}
    <3>1. batch' \in IF want[w] = "balance" THEN {"blocked"}
                    ELSE IF FinalStatus(w) = "failed" THEN {batch, "done"} ELSE {batch}
      BY Zenon DEF FinalizeWrite
    <3>2. CASE want[w] = "balance"
      BY Zenon, <3>1, <3>2
    <3>3. CASE want[w] # "balance" /\ FinalStatus(w) = "failed"
      BY Zenon, <3>1, <3>3
    <3>4. CASE want[w] # "balance" /\ FinalStatus(w) # "failed"
      BY Zenon, <3>1, <3>4
    <3> QED
      BY Zenon, <3>2, <3>3, <3>4
  <2> QED
    BY Zenon, <2>1, <2>2
<1>5. safe' \in [Gen -> BOOLEAN]
  <2> DEFINE flag == want[w] \in {"safe", "hold", "balance"}
  <2>1. flag \in BOOLEAN
    OBVIOUS
  <2>2. safe' = [safe EXCEPT ![hold[w]] = flag]
    BY Zenon DEF FinalizeWrite
  <2>3. safe \in [Gen -> BOOLEAN]
    BY Zenon, <1>0 DEF SharedTypes
  <2> HIDE DEF flag
  <2> QED
    BY Zenon, <2>1, <2>2, <2>3
<1>6. retry' \in Nat /\ due' \in BOOLEAN
  BY <1>0 DEF FinalizeWrite, SharedTypes
<1> QED
  BY Zenon, <1>0, <1>1, <1>2, <1>3, <1>4, <1>5, <1>6
  DEF FinalizeWrite, SharedTypes, vendorVars

\* What a worker does after its result is written keeps its types.
LEMMA FollowupTypes ==
  ASSUME SharedTypes, LocalTypes, NEW w \in Workers, NEW allowed \in BOOLEAN,
         NEW s, NEW nv \in Vendors \cup {NoVendor}, NEW g \in 0..MaxGen,
         Followup(w, allowed, s, nv, g)
  PROVE  LocalTypes'
<1>1. \/ Go(w, "pausing") /\ UNCHANGED <<seen, vend, hold, want>>
      \/ /\ Go(w, "failover")
         /\ vend' = [vend EXCEPT ![w] = nv]
         /\ hold' = [hold EXCEPT ![w] = g]
         /\ UNCHANGED <<seen, want>>
      \/ Stop(w)
  BY Zenon DEF Followup
<1>2. CASE Go(w, "pausing") /\ UNCHANGED <<seen, vend, hold, want>>
  BY Zenon, <1>2 DEF Go, LocalTypes, Pcs
<1>3. CASE /\ Go(w, "failover")
           /\ vend' = [vend EXCEPT ![w] = nv]
           /\ hold' = [hold EXCEPT ![w] = g]
           /\ UNCHANGED <<seen, want>>
  BY Zenon, <1>3 DEF Go, LocalTypes, Pcs
<1>4. CASE Stop(w)
  BY Zenon, <1>4, StopTypes
<1> QED
  BY Zenon, <1>1, <1>2, <1>3, <1>4

\* Finalizing keeps the types, confirmed or not.
LEMMA FinalizeTypes ==
  ASSUME IndInv, NEW w \in Workers
  PROVE  /\ Finalize(w) => TypeOK'
         /\ FinalizeRaises(w) => TypeOK'
         /\ Reload(w) => TypeOK'
<1>0. SharedTypes /\ LocalTypes /\ TypeOK
  BY Zenon, TypeParts DEF IndInv
<1>a. ASSUME NothingWritten PROVE SharedTypes'
  BY Zenon, <1>0, <1>a DEF NothingWritten, SharedTypes, chunkVars, attemptVars,
                    vendorVars, envVars
<1>b. hold[w] \in 0..MaxGen /\ route \in 0..MaxGen /\ next \in Vendors \cup {NoVendor}
  BY Zenon, <1>0 DEF SharedTypes, LocalTypes
<1>1. ASSUME Finalize(w) PROVE TypeOK'
  <2>1. CASE FinalizeHits(w)
    <3>1. FinalizeWrite(w)
      BY Zenon, <1>1, <2>1 DEF Finalize
    <3>2. Followup(w, TRUE, FinalStatus(w), NextAfterReject(w), hold[w])
      BY Zenon, <1>1, <2>1 DEF Finalize
    <3>3. LocalTypes'
      BY Zenon, <1>0, <1>b, <3>2, FollowupTypes, FinalValues
    <3> QED
      BY Zenon, <3>1, <3>3, FinalizeWriteTypes, TypeParts
  <2>2. CASE ~FinalizeHits(w)
    <3> DEFINE allowed == /\ outcome[hold[w]] = OutcomeOf(want[w])
                          /\ SameResult(outcome[hold[w]])
    <3>1. NothingWritten /\ Followup(w, allowed, status, next, route)
      BY Zenon, <1>1, <2>2 DEF Finalize
    <3>2. allowed \in BOOLEAN
      BY Zenon DEF SameResult
    <3> HIDE DEF allowed
    <3>3. LocalTypes'
      BY Zenon, <1>0, <1>b, <3>1, <3>2, FollowupTypes
    <3> QED
      BY Zenon, <1>a, <3>1, <3>3, TypeParts
  <2> QED
    BY Zenon, <2>1, <2>2
<1>2. ASSUME FinalizeRaises(w) PROVE TypeOK'
  <2>1. LocalTypes'
    BY Zenon, <1>0, <1>2 DEF FinalizeRaises, Go, LocalTypes, Pcs
  <2>2. SharedTypes'
    BY Zenon, <1>2, <1>a, FinalizeWriteTypes DEF FinalizeRaises
  <2> QED
    BY Zenon, <2>1, <2>2, TypeParts
<1>3. ASSUME Reload(w) PROVE TypeOK'
  <2> DEFINE allowed == SameResult(outcome[hold[w]])
  <2>1. NothingWritten /\ Followup(w, allowed, status, next, route)
    BY Zenon, <1>3 DEF Reload
  <2>2. allowed \in BOOLEAN
    BY Zenon DEF SameResult
  <2> HIDE DEF allowed
  <2>3. LocalTypes'
    BY Zenon, <1>0, <1>b, <2>1, <2>2, FollowupTypes
  <2> QED
    BY Zenon, <1>a, <2>1, <2>3, TypeParts
<1> QED
  BY Zenon, <1>1, <1>2, <1>3

\* The recovery jobs keep the types.
LEMMA RecoveryTypes ==
  ASSUME IndInv
  PROVE  /\ RepairLegacyReject => TypeOK'
         /\ \A old5, old15, sent \in BOOLEAN : Stalled(old5, old15, sent) => TypeOK'
         /\ RetryBlockedSplit => TypeOK'
         /\ ResolveSubmitted => TypeOK'
         /\ TerminalizeUnknown => TypeOK'
<1> USE DEF chunkVars, attemptVars, vendorVars, envVars, workerVars
<1>0. TypeOK
  BY Zenon DEF IndInv
<1>1. ASSUME RepairLegacyReject PROVE TypeOK'
  <2> DEFINE nv == FirstCandidate(Rejected)
  <2>1. nv \in Vendors \cup {NoVendor}
    BY Zenon, FirstCandidateType
  <2> HIDE DEF nv
  <2>2. CASE nv # NoVendor
    BY Zenon, <1>0, <1>1, <2>1, <2>2 DEF RepairLegacyReject, TypeOK, Statuses, nv
  <2>3. CASE nv = NoVendor
    BY Zenon, <1>0, <1>1, <2>1, <2>3
    DEF RepairLegacyReject, BatchMaySettle, TypeOK, Statuses, nv
  <2> QED
    BY Zenon, <2>2, <2>3
<1>2. ASSUME NEW old5 \in BOOLEAN, NEW old15 \in BOOLEAN, NEW sent \in BOOLEAN,
             Stalled(old5, old15, sent)
      PROVE  TypeOK'
  <2>1. outcome' \in [Gen -> Outcomes]
    BY Zenon, <1>0, <1>2 DEF Stalled, TypeOK, Outcomes, BLOCKING_ATTEMPT_OUTCOMES,
                      IRREVERSIBLE_OUTCOMES
  <2>2. status' \in Statuses
    BY Zenon, <1>0, <1>2 DEF Stalled, TypeOK, Statuses
  <2> QED
    BY Zenon, <1>0, <1>2, <2>1, <2>2 DEF Stalled, TypeOK
<1>3. ASSUME RetryBlockedSplit PROVE TypeOK'
  BY Zenon, <1>0, <1>3 DEF RetryBlockedSplit, CompleteVendorSplit, SettleInvoking, TypeOK,
                    Statuses, Outcomes
<1>4. ASSUME ResolveSubmitted PROVE TypeOK'
  BY Zenon, <1>0, <1>4 DEF ResolveSubmitted, TypeOK, Statuses
<1>5. ASSUME TerminalizeUnknown PROVE TypeOK'
  BY Zenon, <1>0, <1>5 DEF TerminalizeUnknown, BatchMaySettle, TypeOK, Statuses
<1> QED
  BY Zenon, <1>1, <1>2, <1>3, <1>4, <1>5

\* Vendors, time, pauses, crashes and the batch keep the types.
LEMMA EnvironmentTypes ==
  ASSUME TypeOK, Environment
  PROVE  TypeOK'
<1> USE DEF chunkVars, attemptVars, vendorVars, envVars, workerVars
<1>1. ASSUME NEW g \in 1..gens, VendorAccepts(g) PROVE TypeOK'
  BY Zenon, <1>1 DEF VendorAccepts, TypeOK
<1>2. ASSUME NEW g \in 1..gens, VendorRefuses(g) PROVE TypeOK'
  BY Zenon, <1>2 DEF VendorRefuses, TypeOK
<1>3. CASE RetryDue
  BY Zenon, <1>3 DEF RetryDue, TypeOK
<1>4. CASE SiblingBlocks
  BY Zenon, <1>4 DEF SiblingBlocks, TypeOK
<1>5. CASE OthersPause
  BY Zenon, <1>5 DEF OthersPause, TypeOK
<1>6. CASE ResumeBatches
  BY Zenon, <1>6 DEF ResumeBatches, TypeOK
<1>7. CASE ClearPauses
  BY Zenon, <1>7 DEF ClearPauses, TypeOK
<1> QED
  BY Zenon, <1>1, <1>2, <1>3, <1>4, <1>5, <1>6, <1>7 DEF Environment

-----------------------------------------------------------------------------
(* The core of the invariant.                                               *)

Reopened == {"pending", "retrying", "failover_pending"}
Held == {"submitting", "uncertain", "submitted", "unknown_terminal"}

NobodyTakesHold ==
  \A u \in Workers : \/ pc'[u] \notin Holding \cup {"reload"}
                     \/ pc'[u] = pc[u] /\ hold'[u] = hold[u] /\ want'[u] = want[u]

\* Only the last attempt can be held or have an outstanding request.
LEMMA LastOnly ==
  ASSUME IndInv
  PROVE  /\ \A g \in Outstanding : /\ g = gens /\ gens \in 1..gens
                                  /\ outcome[gens] \in BLOCKING_ATTEMPT_OUTCOMES
         /\ \A w \in Workers : pc[w] \in Holding =>
              /\ hold[w] = gens /\ gens \in 1..gens /\ gens \in Gen
              /\ outcome[gens] \in BLOCKING_ATTEMPT_OUTCOMES
              /\ status \in Held
         /\ \A u, w \in Workers : pc[u] \in Holding /\ pc[w] \in Holding => u = w
<1> USE ChunkSendAssumption DEF IndInv, Core, TypeOK
<1>1. ASSUME NEW g \in Outstanding
      PROVE  /\ g = gens /\ gens \in 1..gens
             /\ outcome[gens] \in BLOCKING_ATTEMPT_OUTCOMES
  <2>1. g \in Gen /\ outcome[g] \in BLOCKING_ATTEMPT_OUTCOMES
    BY Zenon DEF RowsMatchRequests, Outstanding
  <2>2. outcome[g] # "none"
    BY Zenon, <2>1 DEF BLOCKING_ATTEMPT_OUTCOMES, IRREVERSIBLE_OUTCOMES
  <2>3. g \in 1..gens
    BY <2>1, <2>2 DEF RowsMatchRequests, Gen
  <2> QED
    BY Zenon, <2>1, <2>3 DEF BlockingIsLast
<1>2. ASSUME NEW w \in Workers, pc[w] \in Holding
      PROVE  /\ hold[w] = gens /\ gens \in 1..gens /\ gens \in Gen
             /\ outcome[gens] \in BLOCKING_ATTEMPT_OUTCOMES
             /\ status \in Held
  <2>1. hold[w] \in 1..gens /\ outcome[hold[w]] \in BLOCKING_ATTEMPT_OUTCOMES
    BY Zenon, <1>2 DEF HoldersKnow
  <2>2. hold[w] = gens
    BY Zenon, <2>1 DEF BlockingIsLast
  <2> QED
    BY <1>2, <2>1, <2>2 DEF HoldersKnow, Held, Gen
<1>3. ASSUME NEW u \in Workers, NEW w \in Workers, pc[u] \in Holding, pc[w] \in Holding
      PROVE  u = w
  BY Zenon, <1>2, <1>3 DEF HoldersKnow
<1> QED
  BY Zenon, <1>1, <1>2, <1>3

\* If no attempt blocks, nothing is outstanding and nobody holds an attempt.
LEMMA NotBlocked ==
  ASSUME IndInv, ~Blocked
  PROVE  Outstanding = {} /\ \A w \in Workers : pc[w] \notin Holding
BY Zenon, LastOnly DEF Blocked

\* At most one request is outstanding.
LEMMA CoreImpliesAtMostOnce ==
  IndInv => AtMostOnce
<1> SUFFICES ASSUME IndInv PROVE AtMostOnce
  OBVIOUS
<1>1. \A g, h \in Outstanding : g = h
  BY Zenon, LastOnly
<1>2. \A g \in Gen : sends[g] <= 1
  BY DEF IndInv, Core, RowsMatchRequests
<1> QED
  BY Zenon, <1>1, <1>2 DEF AtMostOnce

\* A step of one transaction on the chunk alone, by nobody who holds an attempt.
LEMMA StatusStep ==
  ASSUME IndInv, UNCHANGED <<gens, outcome, req, sends>>,
         NobodyTakesHold,
         status' # status =>
           /\ status' \notin Held => Outstanding = {} /\ \A u \in Workers : pc[u] \notin Holding
           /\ status' \in Reopened => ~Blocked
           /\ status' = "submitted" => \E g \in Gen : req[g] = "accepted",
         children' => status' = "failed" /\ Outstanding = {}
  PROVE  Core'
<1> USE DEF IndInv, Core
<1>1. Outstanding' = Outstanding
  BY Zenon DEF Outstanding
<1>2. HoldersKnow'
  <2>1. ASSUME NEW u \in Workers, pc'[u] \in Holding \cup {"reload"}
        PROVE  pc'[u] = pc[u] /\ hold'[u] = hold[u] /\ want'[u] = want[u]
    BY Zenon, <2>1 DEF NobodyTakesHold
  <2>2. ASSUME NEW u \in Workers, pc'[u] \in Holding
        PROVE  status' \in Held
    BY Zenon, <2>1, <2>2, LastOnly
  <2>3. ASSUME NEW u \in Workers
        PROVE  /\ pc'[u] \in Holding \cup {"reload"} => hold'[u] \in 1..gens'
               /\ pc'[u] \in Holding =>
                    /\ outcome'[hold'[u]] \in BLOCKING_ATTEMPT_OUTCOMES
                    /\ status' \in {"submitting", "uncertain", "submitted",
                                   "unknown_terminal"}
               /\ pc'[u] \in {"authorized", "checked"} => req'[hold'[u]] = "none"
               /\ pc'[u] = "splitting" => req'[hold'[u]] = "refused"
               /\ pc'[u] = "finalizing" /\ want'[u] = "submitted" =>
                    req'[hold'[u]] = "accepted"
               /\ pc'[u] = "finalizing" /\ want'[u] \notin {"submitted", "uncertain"} =>
                    req'[hold'[u]] \in {"none", "refused"}
    BY Zenon, <2>1, <2>2 DEF HoldersKnow, Holding, Held
  <2>4. ASSUME NEW u \in Workers, NEW w \in Workers, pc'[u] \in Holding,
               pc'[w] \in Holding, hold'[u] = hold'[w]
        PROVE  u = w
    BY Zenon, <2>1, <2>4 DEF HoldersKnow
  <2> QED
    BY Zenon, <2>3, <2>4 DEF HoldersKnow
<1>3. RowsMatchRequests'
  BY Zenon, <1>1 DEF RowsMatchRequests, Blocked, Reopened
<1>4. BlockingIsLast'
  BY Zenon DEF BlockingIsLast
<1>5. ResendOnlyAfterRefusal'
  BY Zenon, <1>1 DEF ResendOnlyAfterRefusal, Held
<1>6. SubmittedIsAccepted'
  BY Zenon DEF SubmittedIsAccepted
<1>7. SplitIsFinal'
  BY Zenon, <1>1 DEF SplitIsFinal
<1> QED
  BY Zenon, <1>2, <1>3, <1>4, <1>5, <1>6, <1>7

\* If one worker lets its attempt go and the others stay, nobody takes one.
LEMMA OneReleases ==
  ASSUME NEW w \in Workers, pc'[w] \notin Holding \cup {"reload"},
         \A u \in Workers \ {w} :
           pc'[u] = pc[u] /\ hold'[u] = hold[u] /\ want'[u] = want[u]
  PROVE  NobodyTakesHold
<1> SUFFICES ASSUME NEW u \in Workers
             PROVE  \/ pc'[u] \notin Holding \cup {"reload"}
                    \/ pc'[u] = pc[u] /\ hold'[u] = hold[u] /\ want'[u] = want[u]
  BY Zenon DEF NobodyTakesHold
<1>1. CASE u = w
  BY Zenon, <1>1
<1>2. CASE u # w
  <2>1. u \in Workers \ {w}
    BY Zenon, <1>2
  <2>2. pc'[u] = pc[u] /\ hold'[u] = hold[u] /\ want'[u] = want[u]
    BY Zenon, <2>1, Zenon
  <2> QED
    BY Zenon, <2>2
<1> QED
  BY Zenon, <1>1, <1>2

\* A worker that stops lets its attempt go.
LEMMA StopReleases ==
  ASSUME TypeOK, NEW w \in Workers, Stop(w)
  PROVE  /\ NobodyTakesHold /\ pc'[w] = "idle"
         /\ \A u \in Workers \ {w} : pc'[u] = pc[u] /\ hold'[u] = hold[u] /\ want'[u] = want[u]
<1>1. pc'[w] = "idle"
  BY Zenon DEF TypeOK, Stop
<1>2. ASSUME NEW u \in Workers \ {w}
      PROVE  pc'[u] = pc[u] /\ hold'[u] = hold[u] /\ want'[u] = want[u]
  BY Zenon DEF TypeOK, Stop
<1>3. pc'[w] \notin Holding \cup {"reload"}
  BY Zenon, <1>1 DEF Holding
<1> QED
  BY Zenon, <1>1, <1>2, <1>3, OneReleases

\* So does one that goes on after its result was written.
LEMMA FollowupReleases ==
  ASSUME TypeOK, NEW w \in Workers, NEW allowed, NEW s, NEW nv, NEW g,
         Followup(w, allowed, s, nv, g)
  PROVE  /\ NobodyTakesHold /\ pc'[w] \notin Holding \cup {"reload"}
         /\ \A u \in Workers \ {w} : pc'[u] = pc[u] /\ hold'[u] = hold[u] /\ want'[u] = want[u]
<1>1. \/ Go(w, "pausing") /\ UNCHANGED <<seen, vend, hold, want>>
      \/ /\ Go(w, "failover")
         /\ vend' = [vend EXCEPT ![w] = nv]
         /\ hold' = [hold EXCEPT ![w] = g]
         /\ UNCHANGED <<seen, want>>
      \/ Stop(w)
  BY Zenon DEF Followup
<1>2. CASE Go(w, "pausing") /\ UNCHANGED <<seen, vend, hold, want>>
  BY Zenon, <1>2 DEF Go, TypeOK, NobodyTakesHold, Holding
<1>3. CASE /\ Go(w, "failover")
           /\ vend' = [vend EXCEPT ![w] = nv]
           /\ hold' = [hold EXCEPT ![w] = g]
           /\ UNCHANGED <<seen, want>>
  <2>1. pc'[w] = "failover"
    BY Zenon, <1>3 DEF Go, TypeOK
  <2>2. ASSUME NEW u \in Workers \ {w}
        PROVE  pc'[u] = pc[u] /\ hold'[u] = hold[u] /\ want'[u] = want[u]
    BY Zenon, <1>3 DEF Go, TypeOK
  <2>3. pc'[w] \notin Holding \cup {"reload"}
    BY Zenon, <2>1 DEF Holding
  <2> QED
    BY Zenon, <2>2, <2>3, OneReleases
<1>4. CASE Stop(w)
  BY Zenon, <1>4, StopReleases DEF Holding
<1> QED
  BY Zenon, <1>1, <1>2, <1>3, <1>4

\* Steps that leave the chunk's status and the attempts alone.
LEMMA QuietStep ==
  ASSUME IndInv, UNCHANGED <<status, children, gens, outcome, req, sends>>,
         NobodyTakesHold
  PROVE  Core'
BY Zenon, StatusStep DEF IndInv, Core, SplitIsFinal

\* Worker steps that write neither attempts nor requests keep the core.
LEMMA QuietActions ==
  ASSUME IndInv, NEW w \in Workers
  PROVE  /\ LoadChunk(w) => Core'
         /\ RouteChunk(w) => Core'
         /\ Preflight(w) => Core'
         /\ PauseQueues(w) => Core'
         /\ Leave(w) => Core'
         /\ Reload(w) => Core'
<1>0. TypeOK
  BY Zenon DEF IndInv
<1> USE DEF chunkVars, attemptVars, vendorVars
<1>1. ASSUME LoadChunk(w) PROVE Core'
  <2>1. NobodyTakesHold
    <3>1. pc'[w] \in {"failover", "loaded"}
      BY Zenon, <1>0, <1>1 DEF LoadChunk, Go, TypeOK
    <3>2. ASSUME NEW u \in Workers \ {w}
          PROVE  pc'[u] = pc[u] /\ hold'[u] = hold[u] /\ want'[u] = want[u]
      BY Zenon, <1>0, <1>1 DEF LoadChunk, Go, TypeOK
    <3>3. pc'[w] \notin Holding \cup {"reload"}
      BY Zenon, <3>1 DEF Holding
    <3> QED
      BY Zenon, <3>2, <3>3, OneReleases
  <2>2. UNCHANGED <<status, children, gens, outcome, req, sends>>
    BY Zenon, <1>1 DEF LoadChunk
  <2> QED
    BY Zenon, <2>1, <2>2, QuietStep
<1>2. ASSUME RouteChunk(w) PROVE Core'
  <2>1. NobodyTakesHold
    BY Zenon, <1>0, <1>2 DEF RouteChunk, Go, TypeOK, NobodyTakesHold, Holding
  <2>2. UNCHANGED <<status, children, gens, outcome, req, sends>>
    BY Zenon, <1>2 DEF RouteChunk
  <2> QED
    BY Zenon, <2>1, <2>2, QuietStep
<1>3. ASSUME Preflight(w) PROVE Core'
  <2>1. NobodyTakesHold
    BY Zenon, <1>0, <1>3 DEF Preflight, Go, TypeOK, NobodyTakesHold, Holding
  <2>2. UNCHANGED <<status, children, gens, outcome, req, sends>>
    BY Zenon, <1>3 DEF Preflight
  <2> QED
    BY Zenon, <2>1, <2>2, QuietStep
<1>4. ASSUME PauseQueues(w) PROVE Core'
  <2>1. NobodyTakesHold
    BY Zenon, <1>0, <1>4, StopReleases DEF PauseQueues
  <2>2. UNCHANGED <<status, children, gens, outcome, req, sends>>
    BY Zenon, <1>4 DEF PauseQueues
  <2> QED
    BY Zenon, <2>1, <2>2, QuietStep
<1>5. ASSUME Leave(w) PROVE Core'
  <2>1. NobodyTakesHold
    BY Zenon, <1>0, <1>5, StopReleases DEF Leave
  <2>2. UNCHANGED <<status, children, gens, outcome, req, sends>>
    BY Zenon, <1>5 DEF Leave
  <2> QED
    BY Zenon, <2>1, <2>2, QuietStep
<1>6. ASSUME Reload(w) PROVE Core'
  <2>1. NobodyTakesHold
    BY Zenon, <1>0, <1>6, FollowupReleases DEF Reload
  <2>2. UNCHANGED <<status, children, gens, outcome, req, sends>>
    BY Zenon, <1>6 DEF Reload, NothingWritten
  <2> QED
    BY Zenon, <2>1, <2>2, QuietStep
<1> QED
  BY Zenon, <1>1, <1>2, <1>3, <1>4, <1>5, <1>6

\* Steps around the chunk that write neither keep the core.
LEMMA QuietEnvironment ==
  ASSUME IndInv
  PROVE  /\ RetryDue => Core'
         /\ SiblingBlocks => Core'
         /\ OthersPause => Core'
         /\ ResumeBatches => Core'
         /\ ClearPauses => Core'
<1> USE DEF chunkVars, attemptVars, vendorVars, workerVars, NobodyTakesHold
<1>1. ASSUME RetryDue PROVE Core'
  BY Zenon, <1>1, QuietStep DEF RetryDue
<1>2. ASSUME SiblingBlocks PROVE Core'
  BY Zenon, <1>2, QuietStep DEF SiblingBlocks
<1>3. ASSUME OthersPause PROVE Core'
  BY Zenon, <1>3, QuietStep DEF OthersPause
<1>4. ASSUME ResumeBatches PROVE Core'
  BY Zenon, <1>4, QuietStep DEF ResumeBatches
<1>5. ASSUME ClearPauses PROVE Core'
  BY Zenon, <1>5, QuietStep DEF ClearPauses
<1> QED
  BY Zenon, <1>1, <1>2, <1>3, <1>4, <1>5

\* Steps of the chunk's status by workers that hold nothing.
LEMMA StatusActions ==
  ASSUME IndInv, NEW w \in Workers
  PROVE  /\ RejectRecipient(w) => Core'
         /\ DispatchEmpty(w) => Core'
         /\ ClaimSubmission(w) => Core'
<1>0. TypeOK
  BY Zenon DEF IndInv
<1>a. status \in Reopened =>
        /\ ~Blocked /\ ~children /\ Outstanding = {}
        /\ \A u \in Workers : pc[u] \notin Holding
  <2>1. status \in Reopened => ~Blocked
    BY Zenon DEF IndInv, Core, RowsMatchRequests, Reopened
  <2>2. status \in Reopened => ~children
    BY Zenon, <1>0 DEF IndInv, Core, SplitIsFinal, Reopened, TypeOK
  <2> QED
    BY Zenon, <2>1, <2>2, NotBlocked
<1>b. children => status = "failed" /\ Outstanding = {}
  BY Zenon DEF IndInv, Core, SplitIsFinal
<1> USE DEF chunkVars, attemptVars, vendorVars
<1>1. ASSUME RejectRecipient(w) PROVE Core'
  <2>1. NobodyTakesHold
    BY Zenon, <1>0, <1>1, StopReleases DEF RejectRecipient
  <2>2. CASE status \in Reopened /\ batch = "live"
    BY Zenon, <1>1, <1>a, <2>1, <2>2, StatusStep DEF RejectRecipient, Reopened, Held
  <2>3. CASE ~(status \in Reopened /\ batch = "live")
    BY Zenon, <1>1, <2>1, <2>3, QuietStep DEF RejectRecipient, Reopened
  <2> QED
    BY Zenon, <2>2, <2>3
<1>2. ASSUME DispatchEmpty(w) PROVE Core'
  <2>1. NobodyTakesHold
    BY Zenon, <1>0, <1>2, StopReleases DEF DispatchEmpty
  <2>2. CASE status = "submitting"
    BY Zenon, <1>2, <2>1, <2>2, QuietStep DEF DispatchEmpty
  <2>3. CASE status # "submitting"
    <3>1. status \in Reopened /\ status' = "failed"
      BY Zenon, <1>2, <2>3 DEF DispatchEmpty, PRE_SEND, Reopened
    <3> QED
      BY Zenon, <1>2, <1>a, <2>1, <3>1, StatusStep DEF DispatchEmpty, Reopened, Held
  <2> QED
    BY Zenon, <2>2, <2>3
<1>3. ASSUME ClaimSubmission(w) PROVE Core'
  <2>1. CASE Claims(w)
    <3>1. NobodyTakesHold
      BY Zenon, <1>0, <1>3, <2>1 DEF ClaimSubmission, Go, TypeOK, NobodyTakesHold, Holding
    <3>2. status \in Reopened /\ status' = "submitting"
      BY Zenon, <1>3, <2>1 DEF ClaimSubmission, Claims, Claimable, Reopened
    <3> QED
      BY Zenon, <1>3, <1>a, <3>1, <3>2, StatusStep DEF ClaimSubmission, Reopened, Held
  <2>2. CASE ~Claims(w)
    BY Zenon, <1>0, <1>3, <2>2, StopReleases, QuietStep DEF ClaimSubmission
  <2> QED
    BY Zenon, <2>1, <2>2
<1> QED
  BY Zenon, <1>1, <1>2, <1>3

\* The recovery jobs that only change a status keep the core.
LEMMA RecoveryActions ==
  ASSUME IndInv
  PROVE  /\ RepairLegacyReject => Core'
         /\ ResolveSubmitted => Core'
         /\ TerminalizeUnknown => Core'
<1>0. TypeOK
  BY Zenon DEF IndInv
<1>b. children => status = "failed" /\ Outstanding = {}
  BY Zenon DEF IndInv, Core, SplitIsFinal
<1> USE DEF chunkVars, attemptVars, vendorVars, workerVars
<1>1. ASSUME RepairLegacyReject PROVE Core'
  <2>1. ~Blocked /\ status = "submitting" /\ ~children
    BY Zenon, <1>0, <1>1, <1>b DEF RepairLegacyReject, LastIsSafeReject, TypeOK
  <2>2. Outstanding = {} /\ \A u \in Workers : pc[u] \notin Holding
    BY Zenon, <2>1, NotBlocked
  <2>3. status' \in {"failover_pending", "failed"}
    BY Zenon, <1>1 DEF RepairLegacyReject
  <2>4. NobodyTakesHold
    BY Zenon, <1>1 DEF RepairLegacyReject, NobodyTakesHold
  <2>5. UNCHANGED <<gens, outcome, req, sends, children>>
    BY Zenon, <1>1 DEF RepairLegacyReject
  <2> QED
    BY Zenon, <2>1, <2>2, <2>3, <2>4, <2>5, StatusStep DEF Reopened, Held
<1>2. ASSUME ResolveSubmitted PROVE Core'
  <2>1. NobodyTakesHold
    BY Zenon, <1>2 DEF ResolveSubmitted, NobodyTakesHold
  <2>2. \E g \in Gen : req[g] = "accepted"
    BY <1>0, <1>2, ChunkSendAssumption DEF ResolveSubmitted, TypeOK, Gen
  <2>3. UNCHANGED <<gens, outcome, req, sends, children>> /\ status' = "submitted"
        /\ status = "uncertain"
    BY Zenon, <1>2 DEF ResolveSubmitted
  <2>4. ~children'
    BY Zenon, <1>b, <2>3
  <2> QED
    BY Zenon, <2>1, <2>2, <2>3, <2>4, StatusStep DEF Reopened, Held
<1>3. ASSUME TerminalizeUnknown PROVE Core'
  <2>1. NobodyTakesHold
    BY Zenon, <1>3 DEF TerminalizeUnknown, NobodyTakesHold
  <2>3. UNCHANGED <<gens, outcome, req, sends, children>>
        /\ status' = "unknown_terminal" /\ status = "uncertain"
    BY Zenon, <1>3 DEF TerminalizeUnknown
  <2>4. ~children'
    BY Zenon, <1>b, <2>3
  <2> QED
    BY Zenon, <2>1, <2>3, <2>4, StatusStep DEF Reopened, Held
<1> QED
  BY Zenon, <1>1, <1>2, <1>3

\* What HoldersKnow says of one worker after a step.
HolderFacts(u) ==
  /\ pc'[u] \in Holding \cup {"reload"} => hold'[u] \in 1..gens'
  /\ pc'[u] \in Holding =>
       /\ outcome'[hold'[u]] \in BLOCKING_ATTEMPT_OUTCOMES
       /\ status' \in Held
  /\ pc'[u] \in {"authorized", "checked"} => req'[hold'[u]] = "none"
  /\ pc'[u] = "splitting" => req'[hold'[u]] = "refused"
  /\ pc'[u] = "finalizing" /\ want'[u] = "submitted" => req'[hold'[u]] = "accepted"
  /\ pc'[u] = "finalizing" /\ want'[u] \notin {"submitted", "uncertain"} =>
       req'[hold'[u]] \in {"none", "refused"}

\* HoldersKnow, one worker at a time.
LEMMA HoldersByWorker ==
  ASSUME \A u \in Workers : HolderFacts(u),
         \A u, w \in Workers :
           pc'[u] \in Holding /\ pc'[w] \in Holding => u = w
  PROVE  HoldersKnow'
BY Zenon DEF HoldersKnow, HolderFacts, Held

\* The worker that holds the last attempt moves on and keeps it.
LEMMA HolderStep ==
  ASSUME IndInv, NEW w \in Workers, pc[w] \in Holding,
         NEW to \in Holding \cup {"reload"}, pc' = [pc EXCEPT ![w] = to],
         \A u \in Workers \ {w} : want'[u] = want[u],
         UNCHANGED <<status, children, gens, outcome, req, sends, hold>>,
         to \in {"authorized", "checked"} => req[hold[w]] = "none",
         to = "splitting" => req[hold[w]] = "refused",
         to = "finalizing" /\ want'[w] = "submitted" => req[hold[w]] = "accepted",
         to = "finalizing" /\ want'[w] \notin {"submitted", "uncertain"} =>
           req[hold[w]] \in {"none", "refused"}
  PROVE  Core'
<1> USE DEF IndInv, Core
<1>0. pc'[w] = to /\ \A u \in Workers : u # w => pc'[u] = pc[u] /\ want'[u] = want[u]
  BY Zenon DEF TypeOK
<1>1. Outstanding' = Outstanding
  BY Zenon DEF Outstanding
<1>2. HolderFacts(w)
  BY Zenon, <1>0, LastOnly DEF HolderFacts, Holding
<1>3. ASSUME NEW u \in Workers, u # w PROVE HolderFacts(u)
  BY Zenon, <1>0, <1>3 DEF HoldersKnow, HolderFacts, Held, Holding
<1>4. \A u, v \in Workers : pc'[u] \in Holding /\ pc'[v] \in Holding => u = v
  BY Zenon, <1>0, LastOnly
<1>5. HoldersKnow'
  BY Zenon, <1>2, <1>3, <1>4, HoldersByWorker
<1>6. RowsMatchRequests'
  BY Zenon, <1>1 DEF RowsMatchRequests, Blocked
<1>7. BlockingIsLast' /\ ResendOnlyAfterRefusal' /\ SubmittedIsAccepted' /\ SplitIsFinal'
  BY Zenon, <1>1 DEF BlockingIsLast, ResendOnlyAfterRefusal, SubmittedIsAccepted, SplitIsFinal
<1> QED
  BY Zenon, <1>5, <1>6, <1>7

\* The steps of a worker between authorization and finalize keep the core.
LEMMA HolderActions ==
  ASSUME IndInv, NEW w \in Workers
  PROVE  /\ CheckBeforeHttp(w) => Core'
         /\ AbortPaused(w) => Core'
         /\ AbortRejected(w) => Core'
         /\ ReplyAccepted(w) => Core'
         /\ ReplyLost(w) => Core'
         /\ ReplyRefused(w) => Core'
<1>0. TypeOK /\ HoldersKnow
  BY Zenon DEF IndInv, Core
<1>a. pc[w] = "authorized" => pc[w] \in Holding /\ req[hold[w]] = "none"
  BY Zenon, <1>0 DEF HoldersKnow, Holding
<1>b. /\ {"waiting", "checked", "finalizing", "splitting"} \subseteq Holding
      /\ want \in [Workers -> Wants]
  BY Zenon, <1>0 DEF Holding, TypeOK
<1> USE DEF chunkVars, attemptVars, vendorVars, envVars, Go, ToFinalize
<1>1. ASSUME CheckBeforeHttp(w) PROVE Core'
  BY Zenon, <1>1, <1>a, <1>b, HolderStep DEF CheckBeforeHttp
<1>2. ASSUME AbortPaused(w) PROVE Core'
  <2>1. want'[w] = "abort_paused" /\ \A u \in Workers \ {w} : want'[u] = want[u]
    BY Zenon, <1>2, <1>b DEF AbortPaused
  <2>2. pc[w] = "authorized" /\ pc' = [pc EXCEPT ![w] = "finalizing"]
        /\ UNCHANGED <<status, children, gens, outcome, req, sends, hold>>
    BY Zenon, <1>2 DEF AbortPaused
  <2> QED
    BY Zenon, <1>a, <1>b, <2>1, <2>2, HolderStep
<1>3. ASSUME AbortRejected(w) PROVE Core'
  <2>1. want'[w] = "abort_rejected" /\ \A u \in Workers \ {w} : want'[u] = want[u]
    BY Zenon, <1>3, <1>b DEF AbortRejected
  <2>2. pc[w] = "authorized" /\ pc' = [pc EXCEPT ![w] = "finalizing"]
        /\ UNCHANGED <<status, children, gens, outcome, req, sends, hold>>
    BY Zenon, <1>3 DEF AbortRejected
  <2> QED
    BY Zenon, <1>a, <1>b, <2>1, <2>2, HolderStep
<1>c. ASSUME NEW result, pc[w] = "waiting", ToFinalize(w, result),
             result = "submitted" => req[hold[w]] = "accepted",
             result \notin {"submitted", "uncertain"} => req[hold[w]] = "refused"
      PROVE  Core'
  <2>1. want'[w] = result /\ \A u \in Workers \ {w} : want'[u] = want[u]
    BY Zenon, <1>b, <1>c
  <2>2. pc' = [pc EXCEPT ![w] = "finalizing"]
        /\ UNCHANGED <<status, children, gens, outcome, req, sends, hold>>
    BY Zenon, <1>c
  <2> QED
    BY Zenon, <1>b, <1>c, <2>1, <2>2, HolderStep
<1>4. ASSUME ReplyAccepted(w) PROVE Core'
  BY Zenon, <1>4, <1>c DEF ReplyAccepted
<1>5. ASSUME ReplyLost(w) PROVE Core'
  BY Zenon, <1>5, <1>c DEF ReplyLost
<1>6. ASSUME ReplyRefused(w) PROVE Core'
  <2>1. pc[w] = "waiting" /\ req[hold[w]] = "refused"
    BY Zenon, <1>6 DEF ReplyRefused
  <2>2. ASSUME NEW result \in {"retry_scheduled", "delayed", "hold", "balance", "safe",
                              "rejected"}, ToFinalize(w, result)
        PROVE  Core'
    BY Zenon, <1>c, <2>1, <2>2
  <2>3. ASSUME Go(w, "splitting"),
               UNCHANGED <<chunkVars, attemptVars, vendorVars, envVars, seen, vend,
                           hold, want>>
        PROVE  Core'
    BY Zenon, <1>b, <2>1, <2>3, HolderStep
  <2>4. \/ \E result \in {"retry_scheduled", "delayed", "hold", "balance", "safe",
                         "rejected"} : ToFinalize(w, result)
        \/ /\ Go(w, "splitting")
           /\ UNCHANGED <<chunkVars, attemptVars, vendorVars, envVars, seen, vend,
                          hold, want>>
    <3> HIDE DEF chunkVars, attemptVars, vendorVars, envVars, Go, ToFinalize
    <3> QED
      BY Zenon, <1>6 DEF ReplyRefused
  <2> QED
    BY Zenon, <2>2, <2>3, <2>4
<1> QED
  BY Zenon, <1>1, <1>2, <1>3, <1>4, <1>5, <1>6

\* Issuing the request keeps the core: it is the only outstanding one.
LEMMA SendHttpCore ==
  ASSUME IndInv, NEW w \in Workers, SendHttp(w)
  PROVE  Core'
<1> USE DEF IndInv, Core
<1> DEFINE h == hold[w]
<1>1. /\ pc[w] = "checked" /\ pc'[w] = "waiting"
      /\ \A u \in Workers : u # w => pc'[u] = pc[u]
      /\ UNCHANGED <<status, children, gens, outcome, hold, want>>
  BY Zenon DEF SendHttp, TypeOK, Go, chunkVars, attemptVars
<1>2. /\ pc[w] \in Holding /\ h = gens /\ h \in 1..gens /\ h \in Gen
      /\ outcome[h] \in BLOCKING_ATTEMPT_OUTCOMES /\ status \in Held
  <2>1. pc[w] \in Holding
    BY Zenon, <1>1 DEF Holding
  <2> QED
    BY Zenon, <2>1, LastOnly
<1>3. req[h] = "none"
  BY Zenon, <1>1 DEF HoldersKnow
<1>4. req'[h] = "sent" /\ \A g \in Gen : g # h => req'[g] = req[g]
  BY Zenon, <1>2 DEF SendHttp, TypeOK
<1>5. sends'[h] = sends[h] + 1 /\ \A g \in Gen : g # h => sends'[g] = sends[g]
  BY Zenon, <1>2 DEF SendHttp, TypeOK
<1> HIDE DEF h
<1>6. \A g \in Gen : g \in Outstanding' => g \in Outstanding \/ g = h
  BY Zenon, <1>4 DEF Outstanding
<1>7. HoldersKnow'
  <2>1. HolderFacts(w)
    BY Zenon, <1>1, <1>2 DEF HolderFacts, Holding, h
  <2>2. ASSUME NEW u \in Workers, u # w PROVE HolderFacts(u)
    <3>1. pc'[u] \notin Holding
      BY Zenon, <1>1, <1>2, <2>2, LastOnly
    <3> QED
      BY Zenon, <1>1, <2>2, <3>1 DEF HolderFacts, HoldersKnow, Holding
  <2>3. \A u, v \in Workers : pc'[u] \in Holding /\ pc'[v] \in Holding => u = v
    BY Zenon, <1>1, <1>2, LastOnly
  <2> QED
    BY Zenon, <2>1, <2>2, <2>3, HoldersByWorker
<1>8. RowsMatchRequests'
  <2>1. \A g \in Gen : outcome'[g] = "none" <=> g > gens'
    BY Zenon, <1>1 DEF RowsMatchRequests
  <2>2. \A g \in Gen : g > gens' => req'[g] = "none"
    BY <1>1, <1>2, <1>4 DEF RowsMatchRequests
  <2>3. \A g \in Outstanding' : outcome'[g] \in BLOCKING_ATTEMPT_OUTCOMES
    BY Zenon, <1>1, <1>2, <1>6 DEF RowsMatchRequests, Outstanding
  <2>4. \A g \in Gen : sends'[g] = IF req'[g] = "none" THEN 0 ELSE 1
    BY SMTT(30), <1>2, <1>3, <1>4, <1>5 DEF RowsMatchRequests
  <2>5. status' \in {"pending", "retrying", "failover_pending"} => ~Blocked'
    BY Zenon, <1>1, <1>2 DEF Held
  <2> QED
    BY Zenon, <2>1, <2>2, <2>3, <2>4, <2>5 DEF RowsMatchRequests
<1>9. BlockingIsLast'
  BY Zenon, <1>1 DEF BlockingIsLast
<1>10. ResendOnlyAfterRefusal' /\ SplitIsFinal'
  BY Zenon, <1>1, <1>2 DEF ResendOnlyAfterRefusal, SplitIsFinal, Held
<1>11. SubmittedIsAccepted'
  BY Zenon, <1>1, <1>3, <1>4 DEF SubmittedIsAccepted
<1> QED
  BY Zenon, <1>7, <1>8, <1>9, <1>10, <1>11

\* The vendor decides: a sent request becomes accepted or refused.
LEMMA VendorCore ==
  ASSUME IndInv, NEW g \in 1..gens, VendorAccepts(g) \/ VendorRefuses(g)
  PROVE  Core'
<1> USE DEF IndInv, Core
<1>0. g \in Gen /\ req[g] = "sent"
  BY ChunkSendAssumption DEF VendorAccepts, VendorRefuses, TypeOK, Gen
<1>1. UNCHANGED <<status, children, gens, outcome, sends, pc, hold, want>>
  BY Zenon DEF VendorAccepts, VendorRefuses, chunkVars, attemptVars, workerVars
<1>2. req'[g] \in {"accepted", "refused"} /\ \A h \in Gen : h # g => req'[h] = req[h]
  BY Zenon, <1>0 DEF VendorAccepts, VendorRefuses, TypeOK
<1>3. \A h \in Gen : h \in Outstanding' => h \in Outstanding
  BY Zenon, <1>0, <1>2 DEF Outstanding
<1>4. HoldersKnow'
  <2>1. ASSUME NEW u \in Workers PROVE HolderFacts(u)
    <3>1. CASE pc[u] \in Holding
      <4>1. hold[u] = gens /\ gens \in Gen
        BY Zenon, <3>1, LastOnly
      <4>2. CASE hold[u] = g
        BY Zenon, <1>0, <1>1, <3>1, <4>1, <4>2 DEF HoldersKnow, HolderFacts, Held
      <4>3. CASE hold[u] # g
        BY Zenon, <1>1, <1>2, <3>1, <4>1, <4>3 DEF HoldersKnow, HolderFacts, Held
      <4> QED
        BY Zenon, <4>2, <4>3
    <3>2. CASE pc[u] \notin Holding
      BY Zenon, <1>1, <3>2 DEF HoldersKnow, HolderFacts, Holding
    <3> QED
      BY Zenon, <3>1, <3>2
  <2>2. \A u, v \in Workers : pc'[u] \in Holding /\ pc'[v] \in Holding => u = v
    BY Zenon, <1>1, LastOnly
  <2> QED
    BY Zenon, <2>1, <2>2, HoldersByWorker
<1>5. RowsMatchRequests'
  <2>1. \A h \in Gen : outcome'[h] = "none" <=> h > gens'
    BY Zenon, <1>1 DEF RowsMatchRequests
  <2>2. \A h \in Gen : h > gens' => req'[h] = "none"
    BY Zenon, <1>0, <1>1, <1>2 DEF RowsMatchRequests
  <2>3. \A h \in Outstanding' : outcome'[h] \in BLOCKING_ATTEMPT_OUTCOMES
    BY Zenon, <1>1, <1>3 DEF RowsMatchRequests, Outstanding
  <2>4. \A h \in Gen : sends'[h] = IF req'[h] = "none" THEN 0 ELSE 1
    BY Zenon, <1>0, <1>1, <1>2 DEF RowsMatchRequests
  <2>5. status' \in {"pending", "retrying", "failover_pending"} => ~Blocked'
    BY Zenon, <1>1 DEF RowsMatchRequests, Blocked
  <2> QED
    BY Zenon, <2>1, <2>2, <2>3, <2>4, <2>5 DEF RowsMatchRequests
<1>6. BlockingIsLast'
  BY Zenon, <1>1 DEF BlockingIsLast
<1>7. ResendOnlyAfterRefusal' /\ SplitIsFinal'
  <2>1. Outstanding = {} => Outstanding' = {}
    BY Zenon, <1>3 DEF Outstanding
  <2> QED
    BY Zenon, <1>1, <2>1 DEF ResendOnlyAfterRefusal, SplitIsFinal
<1>8. SubmittedIsAccepted'
  <2>1. \A h \in Gen : req[h] = "accepted" => req'[h] = "accepted"
    BY Zenon, <1>0, <1>2
  <2> QED
    BY Zenon, <1>1, <2>1 DEF SubmittedIsAccepted
<1> QED
  BY Zenon, <1>4, <1>5, <1>6, <1>7, <1>8

\* A generation is authorized while no attempt blocks.
LEMMA InsertCore ==
  ASSUME IndInv, NEW w \in Workers, ~Blocked, gens + 1 \in Gen,
         NEW v, InsertInvoking(w, gens + 1, v),
         status \in {"submitting", "failover_pending"}, status' = "submitting",
         UNCHANGED <<children, req, sends, want>>
  PROVE  Core'
<1> USE DEF IndInv, Core
<1> DEFINE n == gens + 1
<1>0. gens \in Nat /\ n \in Gen
  BY ChunkSendAssumption DEF TypeOK
<1>10. \A g \in Gen : g # n => (g > n <=> g > gens)
  <2>1. gens \in 0..MaxGen
    BY Zenon DEF TypeOK
  <2> HIDE DEF IndInv, Core
  <2> QED
    BY Zenon, <2>1, Numbers
<1>1. /\ pc'[w] = "authorized" /\ hold'[w] = n
      /\ \A u \in Workers : u # w => pc'[u] = pc[u] /\ hold'[u] = hold[u]
      /\ gens' = n
  BY Zenon DEF InsertInvoking, Go, TypeOK
<1>2. outcome'[n] = "invoking" /\ \A g \in Gen : g # n => outcome'[g] = outcome[g]
  BY Zenon, <1>0 DEF InsertInvoking, TypeOK
<1>3. req[n] = "none" /\ Outstanding' = {} /\ Outstanding = {}
  <2>1. n > gens
    BY <1>0
  <2>2. Outstanding = {}
    BY Zenon, NotBlocked
  <2>3. Outstanding' = Outstanding
    BY Zenon DEF Outstanding
  <2> QED
    BY Zenon, <1>0, <2>1, <2>2, <2>3 DEF RowsMatchRequests
<1>4. ~children
  BY Zenon DEF SplitIsFinal
<1> HIDE DEF n
<1>5. HoldersKnow'
  <2>1. HolderFacts(w)
    <3>1. n \in 1..gens'
      BY Zenon, <1>1, Numbers DEF n, TypeOK
    <3>2. outcome'[n] \in BLOCKING_ATTEMPT_OUTCOMES /\ status' \in Held /\ req'[n] = "none"
      BY Zenon, <1>2, <1>3 DEF BLOCKING_ATTEMPT_OUTCOMES, IRREVERSIBLE_OUTCOMES, Held
    <3> QED
      BY Zenon, <1>1, <3>1, <3>2 DEF HolderFacts
  <2>2. ASSUME NEW u \in Workers, u # w PROVE HolderFacts(u)
    <3>1. pc'[u] \notin Holding
      BY Zenon, <1>1, <2>2, NotBlocked
    <3>2. pc'[u] = "reload" => hold'[u] \in 1..gens
      BY Zenon, <1>1, <2>2 DEF HoldersKnow
    <3>3. pc'[u] = "reload" => hold'[u] \in 1..gens'
      BY Zenon, <1>1, <3>2, Numbers DEF n, TypeOK
    <3> QED
      BY Zenon, <3>1, <3>3 DEF HolderFacts, Holding
  <2>3. \A u, x \in Workers : pc'[u] \in Holding /\ pc'[x] \in Holding => u = x
    BY Zenon, <1>1, NotBlocked
  <2> QED
    BY Zenon, <2>1, <2>2, <2>3, HoldersByWorker
<1>6. RowsMatchRequests'
  <2>1. ASSUME NEW g \in Gen PROVE outcome'[g] = "none" <=> g > gens'
    <3>1. CASE g = n
      BY Zenon, <1>1, <1>2, <3>1, Numbers DEF n, TypeOK
    <3>2. CASE g # n
      <4>1. g > n <=> g > gens
        BY Zenon, <1>10, <3>2
      <4> QED
        BY Zenon, <1>1, <1>2, <3>2, <4>1 DEF RowsMatchRequests
    <3> QED
      BY Zenon, <3>1, <3>2
  <2>2. \A g \in Gen : g > gens' => req'[g] = "none"
    <3>1. ~(n > n)
      BY Zenon, Numbers DEF n, TypeOK
    <3>2. \A g \in Gen : g > n => g > gens
      BY Zenon, <1>10, <3>1
    <3> QED
      BY Zenon, <1>1, <3>2 DEF RowsMatchRequests
  <2> QED
    BY Zenon, <1>3, <2>1, <2>2 DEF RowsMatchRequests
<1>7. BlockingIsLast'
  <2>1. ASSUME NEW g \in 1..gens', outcome'[g] \in BLOCKING_ATTEMPT_OUTCOMES
        PROVE  g = gens'
    <3>1. CASE g = n
      BY Zenon, <1>1, <3>1
    <3>2. CASE g # n
      <4>0. g \in 1..n
        BY Zenon, <1>1, <2>1
      <4>1. g \in 1..gens /\ g \in Gen
        BY <1>0, <3>2, <4>0, ChunkSendAssumption DEF n, Gen
      <4>2. outcome[g] \in BLOCKING_ATTEMPT_OUTCOMES
        BY Zenon, <1>2, <2>1, <3>2, <4>1
      <4> QED
        BY Zenon, <4>1, <4>2 DEF Blocked
    <3> QED
      BY Zenon, <3>1, <3>2
  <2> QED
    BY Zenon, <2>1 DEF BlockingIsLast
<1>8. ResendOnlyAfterRefusal' /\ SplitIsFinal'
  BY Zenon, <1>3, <1>4 DEF ResendOnlyAfterRefusal, SplitIsFinal
<1>9. SubmittedIsAccepted'
  BY Zenon, <1>2 DEF SubmittedIsAccepted
<1> QED
  BY Zenon, <1>5, <1>6, <1>7, <1>8, <1>9

\* Both claims that insert an attempt keep the core.
LEMMA ClaimCore ==
  ASSUME IndInv, NEW w \in Workers
  PROVE  /\ BeginVendorInvoke(w) => Core'
         /\ ClaimNextVendorInvoke(w) => Core'
<1>0. TypeOK
  BY Zenon DEF IndInv
<1>1. ASSUME BeginVendorInvoke(w) PROVE Core'
  <2>1. CASE status = "submitting" /\ ~Blocked
    <3>1. gens + 1 \in Gen
      BY Zenon, <1>0, <1>1, Numbers DEF BeginVendorInvoke, TypeOK
    <3> QED
      BY Zenon, <1>1, <2>1, <3>1, InsertCore DEF BeginVendorInvoke, vendorVars
  <2>2. CASE ~(status = "submitting" /\ ~Blocked)
    BY Zenon, <1>0, <1>1, <2>2, StopReleases, QuietStep DEF BeginVendorInvoke, vendorVars
  <2> QED
    BY Zenon, <2>1, <2>2
<1>2. ASSUME ClaimNextVendorInvoke(w) PROVE Core'
  <2>1. CASE FailoverGranted(w)
    <3>1. hold[w] + 1 = gens + 1 /\ gens + 1 \in Gen
      <4>1. gens \in 0..MaxGen /\ gens < MaxGen /\ hold[w] \in 1..gens /\ hold[w] + 1 > gens
        BY Zenon, <1>0, <1>2, <2>1 DEF ClaimNextVendorInvoke, FailoverGranted, TypeOK
      <4>2. hold[w] = gens /\ gens + 1 \in Gen
        BY Zenon, <4>1, Numbers
      <4> QED
        BY Zenon, <4>2
    <3>2. status = "failover_pending" /\ ~Blocked
      BY Zenon, <2>1 DEF FailoverGranted
    <3>3. InsertInvoking(w, hold[w] + 1, vend[w]) /\ status' = "submitting"
          /\ UNCHANGED <<children, req, sends, want>>
      BY Zenon, <1>2, <2>1 DEF ClaimNextVendorInvoke, vendorVars
    <3>4. InsertInvoking(w, gens + 1, vend[w])
      BY Zenon, <3>1, <3>3
    <3> QED
      BY Zenon, <3>1, <3>2, <3>3, <3>4, InsertCore
  <2>2. CASE ~FailoverGranted(w)
    BY Zenon, <1>0, <1>2, <2>2, StopReleases, QuietStep DEF ClaimNextVendorInvoke, vendorVars
  <2> QED
    BY Zenon, <2>1, <2>2
<1> QED
  BY Zenon, <1>1, <1>2

\* The transaction of finalize_vendor_attempt, by the worker that holds the
\* last attempt and lets it go.
LEMMA FinalizeWriteCore ==
  ASSUME IndInv, NEW w \in Workers, pc[w] = "finalizing",
         FinalizeHits(w), FinalizeWrite(w),
         pc'[w] \notin Holding, pc'[w] = "reload" => hold'[w] = hold[w],
         \A u \in Workers \ {w} : pc'[u] = pc[u] /\ hold'[u] = hold[u]
  PROVE  Core'
<1> USE DEF IndInv, Core
<1> DEFINE h == hold[w]
<1>1. /\ h = gens /\ h \in 1..gens /\ h \in Gen /\ outcome[h] = "invoking"
      /\ status = "submitting"
      /\ \A u \in Workers : u # w => pc[u] \notin Holding
  <2>1. pc[w] \in Holding
    BY Zenon DEF Holding
  <2> QED
    BY Zenon, <2>1, LastOnly DEF FinalizeHits
<1>2. /\ UNCHANGED <<gens, req, sends, children>>
      /\ status' = FinalStatus(w)
  BY Zenon DEF FinalizeWrite, vendorVars
<1>3. /\ outcome'[h] = IF DelayExhausted(w) THEN "failed" ELSE OutcomeOf(want[w])
      /\ \A g \in Gen : g # h => outcome'[g] = outcome[g]
  BY Zenon, <1>1 DEF FinalizeWrite, TypeOK
<1>4. Outstanding' = Outstanding /\ ~children
  BY Zenon, <1>1, <1>2 DEF Outstanding, SplitIsFinal
<1>5. /\ want[w] = "submitted" => req[h] = "accepted"
      /\ want[w] \notin {"submitted", "uncertain"} => Outstanding = {}
  <2>1. want[w] \notin {"submitted", "uncertain"} => h \notin Outstanding
    BY Zenon DEF HoldersKnow, Outstanding
  <2> QED
    BY Zenon, <1>1, <2>1, LastOnly DEF HoldersKnow
<1>6. /\ outcome'[h] # "none"
      /\ outcome'[h] = "submitted" <=> want[w] = "submitted"
      /\ outcome'[h] \in BLOCKING_ATTEMPT_OUTCOMES =>
           want[w] \in {"submitted", "uncertain"}
      /\ want[w] \in {"submitted", "uncertain"} =>
           outcome'[h] \in BLOCKING_ATTEMPT_OUTCOMES
  BY Zenon, <1>3, FinalValues DEF DelayExhausted, BLOCKING_ATTEMPT_OUTCOMES,
                           IRREVERSIBLE_OUTCOMES, Outcomes, HOLD_OUTCOMES
<1> HIDE DEF h
<1>7. HoldersKnow'
  <2>1. HolderFacts(w)
    BY Zenon, <1>1, <1>2 DEF HolderFacts, Holding, h
  <2>2. ASSUME NEW u \in Workers, u # w PROVE HolderFacts(u)
    <3>1. pc'[u] = pc[u] /\ hold'[u] = hold[u] /\ pc'[u] \notin Holding
      BY Zenon, <1>1, <2>2
    <3> QED
      BY Zenon, <1>2, <3>1 DEF HolderFacts, HoldersKnow, Holding
  <2>3. \A u, v \in Workers : pc'[u] \in Holding /\ pc'[v] \in Holding => u = v
    BY Zenon, <1>1
  <2> QED
    BY Zenon, <2>1, <2>2, <2>3, HoldersByWorker
<1>8. RowsMatchRequests'
  <2>1. \A g \in Gen : outcome'[g] = "none" <=> g > gens'
    BY Zenon, <1>1, <1>2, <1>3, <1>6 DEF RowsMatchRequests
  <2>2. \A g \in Gen : g > gens' => req'[g] = "none"
    BY Zenon, <1>2 DEF RowsMatchRequests
  <2>3. \A g \in Outstanding' : outcome'[g] \in BLOCKING_ATTEMPT_OUTCOMES
    <3>1. \A g \in Outstanding : g = h
      BY Zenon, <1>1, LastOnly
    <3> QED
      BY Zenon, <1>4, <1>5, <1>6, <3>1
  <2>4. \A g \in Gen : sends'[g] = IF req'[g] = "none" THEN 0 ELSE 1
    BY Zenon, <1>2 DEF RowsMatchRequests
  <2>5. status' \in {"pending", "retrying", "failover_pending"} => ~Blocked'
    <3> SUFFICES ASSUME status' \in {"pending", "retrying", "failover_pending"},
                        NEW g \in 1..gens', outcome'[g] \in BLOCKING_ATTEMPT_OUTCOMES
                 PROVE  FALSE
      BY Zenon DEF Blocked
    <3>1. want[w] \notin {"submitted", "uncertain"}
      BY Zenon, <1>2, FinalValues
    <3>2. g \in 1..gens /\ g \in Gen
      BY Zenon, <1>2, Numbers DEF TypeOK
    <3>3. CASE g = h
      BY Zenon, <1>6, <3>1, <3>3
    <3>4. CASE g # h
      BY Zenon, <1>1, <1>3, <3>2, <3>4 DEF BlockingIsLast
    <3> QED
      BY Zenon, <3>3, <3>4
  <2> QED
    BY Zenon, <2>1, <2>2, <2>3, <2>4, <2>5 DEF RowsMatchRequests
<1>9. BlockingIsLast'
  <2>1. ASSUME NEW g \in 1..gens', outcome'[g] \in BLOCKING_ATTEMPT_OUTCOMES
        PROVE  g = gens'
    <3>1. g \in 1..gens /\ g \in Gen
      BY Zenon, <1>2, Numbers DEF TypeOK
    <3>2. CASE g = h
      BY Zenon, <1>1, <1>2, <3>2
    <3>3. CASE g # h
      BY Zenon, <1>2, <1>3, <2>1, <3>1, <3>3 DEF BlockingIsLast
    <3> QED
      BY Zenon, <3>2, <3>3
  <2> QED
    BY Zenon, <2>1 DEF BlockingIsLast
<1>10. ResendOnlyAfterRefusal' /\ SplitIsFinal'
  <2>1. status' \notin {"submitted", "uncertain"} => Outstanding' = {}
    BY Zenon, <1>2, <1>4, <1>5, FinalValues
  <2> QED
    BY Zenon, <1>2, <1>4, <2>1 DEF ResendOnlyAfterRefusal, SplitIsFinal
<1>11. SubmittedIsAccepted'
  <2>1. status' = "submitted" => \E g \in Gen : req'[g] = "accepted"
    BY Zenon, <1>1, <1>2, <1>5, FinalValues
  <2>2. ASSUME NEW g \in Gen, outcome'[g] = "submitted" PROVE req'[g] = "accepted"
    BY Zenon, <1>2, <1>3, <1>5, <1>6, <2>2 DEF SubmittedIsAccepted
  <2> QED
    BY Zenon, <2>1, <2>2 DEF SubmittedIsAccepted
<1> QED
  BY Zenon, <1>7, <1>8, <1>9, <1>10, <1>11

\* Finalizing keeps the core, confirmed or not.
LEMMA FinalizeCore ==
  ASSUME IndInv, NEW w \in Workers
  PROVE  /\ Finalize(w) => Core'
         /\ FinalizeRaises(w) => Core'
<1>0. TypeOK
  BY Zenon DEF IndInv
<1>1. ASSUME Finalize(w) PROVE Core'
  <2>1. CASE FinalizeHits(w)
    <3>1. FinalizeWrite(w) /\ pc[w] = "finalizing"
      BY Zenon, <1>1, <2>1 DEF Finalize
    <3>2. Followup(w, TRUE, FinalStatus(w), NextAfterReject(w), hold[w])
      BY Zenon, <1>1, <2>1 DEF Finalize
    <3>3. /\ pc'[w] \notin Holding \cup {"reload"}
          /\ \A u \in Workers \ {w} : pc'[u] = pc[u] /\ hold'[u] = hold[u]
      BY Zenon, <1>0, <3>2, FollowupReleases
    <3> QED
      BY Zenon, <2>1, <3>1, <3>3, FinalizeWriteCore
  <2>2. CASE ~FinalizeHits(w)
    <3>1. NothingWritten /\ NobodyTakesHold
      BY Zenon, <1>0, <1>1, <2>2, FollowupReleases DEF Finalize
    <3> QED
      BY Zenon, <3>1, QuietStep DEF NothingWritten, chunkVars, attemptVars, vendorVars
  <2> QED
    BY Zenon, <2>1, <2>2
<1>2. ASSUME FinalizeRaises(w) PROVE Core'
  <2>1. /\ pc[w] = "finalizing" /\ pc' = [pc EXCEPT ![w] = "reload"]
        /\ UNCHANGED <<hold, want>>
    BY Zenon, <1>2 DEF FinalizeRaises, Go
  <2>2. CASE NothingWritten
    <3>1. pc[w] \in Holding
      BY Zenon, <2>1 DEF Holding
    <3>2. UNCHANGED <<status, children, gens, outcome, req, sends>>
      BY Zenon, <2>2 DEF NothingWritten, chunkVars, attemptVars, vendorVars
    <3> QED
      BY Zenon, <2>1, <3>1, <3>2, HolderStep
  <2>3. CASE FinalizeHits(w) /\ FinalizeWrite(w)
    <3>1. /\ pc'[w] = "reload" /\ hold'[w] = hold[w]
          /\ \A u \in Workers \ {w} : pc'[u] = pc[u] /\ hold'[u] = hold[u]
      BY Zenon, <1>0, <2>1 DEF TypeOK
    <3> QED
      BY Zenon, <2>1, <2>3, <3>1, FinalizeWriteCore DEF Holding
  <2> QED
    BY Zenon, <1>2, <2>2, <2>3 DEF FinalizeRaises
<1> QED
  BY Zenon, <1>1, <1>2

\* The split of a chunk none of whose requests is outstanding.
LEMMA SplitWriteCore ==
  ASSUME IndInv, CompleteVendorSplit, Outstanding = {},
         UNCHANGED <<gens, req, sends>>,
         status \in {"submitting", "split_capacity_blocked"},
         \A u \in Workers : /\ pc'[u] \notin Holding
                            /\ pc'[u] = "reload" => pc[u] = "reload" /\ hold'[u] = hold[u]
  PROVE  Core'
<1> USE DEF IndInv, Core
<1>1. /\ status' \in {"failed", "split_capacity_blocked"}
      /\ children' => status' = "failed"
  BY SMTT(30) DEF CompleteVendorSplit, SplitIsFinal
<1>2. \A g \in Gen : outcome'[g] = IF outcome[g] = "invoking" THEN "rejected"
                                                          ELSE outcome[g]
  BY Zenon DEF CompleteVendorSplit, SettleInvoking
<1>3. Outstanding' = {}
  BY Zenon DEF Outstanding
<1>4. HoldersKnow'
  <2>1. ASSUME NEW u \in Workers PROVE HolderFacts(u)
    BY Zenon DEF HolderFacts, HoldersKnow, Holding
  <2> QED
    BY Zenon, <2>1, HoldersByWorker
<1>5. RowsMatchRequests'
  BY Zenon, <1>1, <1>2, <1>3 DEF RowsMatchRequests
<1>6. BlockingIsLast'
  <2>1. ASSUME NEW g \in 1..gens', outcome'[g] \in BLOCKING_ATTEMPT_OUTCOMES
        PROVE  g = gens'
    <3>1. g \in 1..gens /\ g \in Gen
      BY Zenon, Numbers DEF TypeOK
    <3>2. outcome[g] \in BLOCKING_ATTEMPT_OUTCOMES
      BY Zenon, <1>2, <2>1, <3>1 DEF BLOCKING_ATTEMPT_OUTCOMES, IRREVERSIBLE_OUTCOMES
    <3> QED
      BY Zenon, <3>1, <3>2 DEF BlockingIsLast
  <2> QED
    BY Zenon, <2>1 DEF BlockingIsLast
<1>7. ResendOnlyAfterRefusal' /\ SplitIsFinal'
  BY Zenon, <1>1, <1>3 DEF ResendOnlyAfterRefusal, SplitIsFinal
<1>8. SubmittedIsAccepted'
  BY Zenon, <1>1, <1>2 DEF SubmittedIsAccepted
<1> QED
  BY Zenon, <1>4, <1>5, <1>6, <1>7, <1>8

\* Splitting a refused chunk keeps the core.
LEMMA SplitCore ==
  ASSUME IndInv
  PROVE  /\ \A w \in Workers : SplitOnce(w) => Core'
         /\ RetryBlockedSplit => Core'
<1>0. TypeOK
  BY Zenon DEF IndInv
<1>1. ASSUME NEW w \in Workers, SplitOnce(w) PROVE Core'
  <2>0. pc[w] \in Holding /\ req[hold[w]] = "refused"
    BY Zenon, <1>1 DEF SplitOnce, IndInv, Core, HoldersKnow, Holding
  <2>1. CASE /\ PhoneCount >= 2 /\ ~children
             /\ status \in {"submitting", "split_capacity_blocked"}
    <3>1. CompleteVendorSplit /\ UNCHANGED <<gens, req, sends>>
      BY Zenon, <1>1, <2>1 DEF SplitOnce, vendorVars
    <3>2. hold[w] = gens /\ \A u \in Workers : u # w => pc[u] \notin Holding
      BY Zenon, <2>0, LastOnly
    <3>3. Outstanding = {}
      BY Zenon, <2>0, <3>2, LastOnly DEF Outstanding
    <3>4. ASSUME NEW u \in Workers
          PROVE  /\ pc'[u] \notin Holding
                 /\ pc'[u] = "reload" => pc[u] = "reload" /\ hold'[u] = hold[u]
      <4>1. CASE u = w
        BY Zenon, <1>0, <1>1, <4>1, StopReleases DEF SplitOnce, Holding
      <4>2. CASE u # w
        BY Zenon, <1>0, <1>1, <3>2, <4>2, StopReleases DEF SplitOnce
      <4> QED
        BY Zenon, <4>1, <4>2
    <3> QED
      BY Zenon, <2>1, <3>1, <3>3, <3>4, SplitWriteCore
  <2>2. CASE ~(/\ PhoneCount >= 2 /\ ~children
               /\ status \in {"submitting", "split_capacity_blocked"})
    BY Zenon, <1>0, <1>1, <2>2, StopReleases, QuietStep DEF SplitOnce, vendorVars
  <2> QED
    BY Zenon, <2>1, <2>2
<1>2. ASSUME RetryBlockedSplit PROVE Core'
  <2>1. status = "split_capacity_blocked" /\ CompleteVendorSplit
        /\ UNCHANGED <<gens, req, sends, pc, hold>>
    BY Zenon, <1>2 DEF RetryBlockedSplit, vendorVars, workerVars
  <2>2. Outstanding = {}
    BY Zenon, <2>1 DEF IndInv, Core, ResendOnlyAfterRefusal
  <2>3. \A u \in Workers : pc[u] \notin Holding
    BY Zenon, <2>1, LastOnly DEF Held
  <2> QED
    BY Zenon, <2>1, <2>2, <2>3, SplitWriteCore
<1> QED
  BY Zenon, <1>1, <1>2

\* The reconciler closes what is torn or stale: an attempt stays blocking.
LEMMA StalledCore ==
  ASSUME IndInv, NEW old5 \in BOOLEAN, NEW old15 \in BOOLEAN, NEW sent \in BOOLEAN,
         Stalled(old5, old15, sent)
  PROVE  Core'
<1> USE DEF IndInv, Core
<1>1. /\ UNCHANGED <<children, gens, req, sends, pc, hold, want>>
      /\ status' = status \/ (status = "submitting" /\ status' = "uncertain")
  BY Zenon DEF Stalled, vendorVars, workerVars
<1>2. \A g \in Gen :
        \/ outcome'[g] = outcome[g]
        \/ /\ outcome[g] = "invoking" /\ g \in 1..gens
           /\ outcome'[g] \in {"submitted", "inconsistent", "uncertain"}
           /\ outcome'[g] = "submitted" => status = "submitted"
  BY Zenon DEF Stalled, TornRows, StaleRows
<1>3. /\ \A g \in Gen : outcome'[g] \in BLOCKING_ATTEMPT_OUTCOMES <=>
                        outcome[g] \in BLOCKING_ATTEMPT_OUTCOMES
      /\ \A g \in Gen : outcome'[g] = "none" <=> outcome[g] = "none"
  BY Zenon, <1>2 DEF BLOCKING_ATTEMPT_OUTCOMES, IRREVERSIBLE_OUTCOMES
<1>4. Outstanding' = Outstanding /\ 1..gens \subseteq Gen
  BY Zenon, <1>1, Numbers DEF Outstanding, TypeOK
<1>5. HoldersKnow'
  <2>1. ASSUME NEW u \in Workers PROVE HolderFacts(u)
    <3>1. CASE pc[u] \in Holding
      <4>1. hold[u] \in Gen /\ status' \in Held
        BY Zenon, <1>1, <3>1, LastOnly DEF Held
      <4> QED
        BY Zenon, <1>1, <1>3, <3>1, <4>1 DEF HoldersKnow, HolderFacts
    <3>2. CASE pc[u] \notin Holding
      BY Zenon, <1>1, <3>2 DEF HoldersKnow, HolderFacts, Holding
    <3> QED
      BY Zenon, <3>1, <3>2
  <2> QED
    BY Zenon, <1>1, <2>1, LastOnly, HoldersByWorker
<1>6. RowsMatchRequests'
  <2>1. \A g \in Gen : outcome'[g] = "none" <=> g > gens'
    BY Zenon, <1>1, <1>3 DEF RowsMatchRequests
  <2>2. \A g \in Outstanding' : outcome'[g] \in BLOCKING_ATTEMPT_OUTCOMES
    BY Zenon, <1>3, <1>4 DEF RowsMatchRequests, Outstanding
  <2>3. status' \in {"pending", "retrying", "failover_pending"} => ~Blocked'
    BY Zenon, <1>1, <1>3, <1>4 DEF RowsMatchRequests, Blocked
  <2> QED
    BY Zenon, <1>1, <2>1, <2>2, <2>3 DEF RowsMatchRequests
<1>7. BlockingIsLast'
  BY Zenon, <1>1, <1>3, <1>4 DEF BlockingIsLast
<1>8. ResendOnlyAfterRefusal' /\ SplitIsFinal'
  BY Zenon, <1>1, <1>4 DEF ResendOnlyAfterRefusal, SplitIsFinal
<1>9. SubmittedIsAccepted'
  <2>1. status' = "submitted" => \E g \in Gen : req'[g] = "accepted"
    BY Zenon, <1>1 DEF SubmittedIsAccepted
  <2>2. ASSUME NEW g \in Gen, outcome'[g] = "submitted" PROVE req'[g] = "accepted"
    <3>1. CASE outcome'[g] = outcome[g]
      BY Zenon, <1>1, <2>2, <3>1 DEF SubmittedIsAccepted
    <3>2. CASE outcome'[g] # outcome[g]
      <4>1. outcome[g] = "invoking" /\ g \in 1..gens /\ status = "submitted"
        BY Zenon, <1>2, <2>2, <3>2
      <4>2. g = gens
        BY Zenon, <4>1 DEF BlockingIsLast, BLOCKING_ATTEMPT_OUTCOMES, IRREVERSIBLE_OUTCOMES
      <4>3. PICK h \in Gen : req[h] = "accepted"
        BY Zenon, <4>1 DEF SubmittedIsAccepted
      <4>4. h = gens
        BY Zenon, <4>3, LastOnly DEF Outstanding
      <4> QED
        BY Zenon, <1>1, <4>2, <4>3, <4>4
    <3> QED
      BY Zenon, <3>1, <3>2
  <2> QED
    BY Zenon, <2>1, <2>2 DEF SubmittedIsAccepted
<1> QED
  BY Zenon, <1>5, <1>6, <1>7, <1>8, <1>9

-----------------------------------------------------------------------------
(* The theorems.                                                            *)

\* The invariant holds at the start, for fresh and for legacy chunks.
LEMMA InitInv == Init => IndInv
<1> SUFFICES ASSUME Init PROVE IndInv
  BY Zenon, ZenonT(30)
<1> USE ChunkSendAssumption
<1>0. /\ Registry[1] \in Vendors /\ gens \in {0, 1} /\ gens \in 0..MaxGen
      /\ route = gens
  BY VendorFacts DEF Init
<1>1. /\ outcome \in [Gen -> Outcomes] /\ safe \in [Gen -> BOOLEAN]
      /\ vendor \in [Gen -> Vendors \cup {NoVendor}]
      /\ req \in [Gen -> {"none", "sent", "accepted", "refused"}]
      /\ sends \in [Gen -> Nat]
  <2>1. outcome \in [Gen -> Outcomes]
    BY Zenon DEF Init, Outcomes
  <2>2. safe \in [Gen -> BOOLEAN]
    <3>1. safe = [g \in Gen |-> g = gens]
      BY Zenon DEF Init
    <3>2. \A g \in Gen : (g = gens) \in BOOLEAN
      OBVIOUS
    <3> QED
      BY Zenon, <3>1, <3>2, Zenon
  <2>3. vendor \in [Gen -> Vendors \cup {NoVendor}]
    BY Zenon, <1>0 DEF Init
  <2>4. req \in [Gen -> {"none", "sent", "accepted", "refused"}]
    BY Zenon DEF Init
  <2>5. sends \in [Gen -> Nat]
    BY Zenon DEF Init
  <2> QED
    BY Zenon, <2>1, <2>2, <2>3, <2>4, <2>5
<1>2. TypeOK
  <2>1. status \in Statuses /\ retry \in Nat /\ due \in BOOLEAN
    BY Zenon DEF Init, Statuses
  <2>2. /\ next \in Vendors \cup {NoVendor} /\ children \in BOOLEAN
        /\ batch \in {"live", "blocked", "done"} /\ paused \in BOOLEAN
    <3>1. next = NoVendor /\ children = FALSE /\ batch = "live" /\ paused = FALSE
      BY Zenon DEF Init
    <3> QED
      BY Zenon, <3>1, Zenon
  <2>3. SharedTypes
    BY Zenon, <1>0, <1>1, <2>1, <2>2 DEF SharedTypes
  <2>4. LocalTypes
    BY DEF Init, LocalTypes, Pcs, Wants
  <2> QED
    BY Zenon, <2>3, <2>4, TypeParts
<1>3. /\ \A g \in Gen : outcome[g] = IF g = gens THEN "rejected" ELSE "none"
      /\ \A g \in Gen : req[g] = IF g = gens THEN "refused" ELSE "none"
      /\ \A g \in Gen : sends[g] = IF g = gens THEN 1 ELSE 0
      /\ \A w \in Workers : pc[w] = "idle"
      /\ status \in {"submitting", "pending"} /\ ~children
  BY Zenon DEF Init
<1>4. Outstanding = {} /\ ~Blocked
  BY SMTT(30), <1>0, <1>3 DEF Outstanding, Blocked, BLOCKING_ATTEMPT_OUTCOMES,
                    IRREVERSIBLE_OUTCOMES, Gen
<1>5. HoldersKnow
  BY Zenon, <1>3 DEF HoldersKnow, Holding
<1>6. RowsMatchRequests
  <2>1. \A g \in Gen : (g > gens) <=> (g # gens)
    BY <1>0 DEF Gen
  <2> QED
    BY Zenon, <1>3, <1>4, <2>1 DEF RowsMatchRequests
<1>7. BlockingIsLast
  BY Zenon, <1>4 DEF BlockingIsLast, Blocked
<1>8. ResendOnlyAfterRefusal /\ SubmittedIsAccepted /\ SplitIsFinal
  BY Zenon, <1>3, <1>4 DEF ResendOnlyAfterRefusal, SubmittedIsAccepted, SplitIsFinal
<1> QED
  BY Zenon, <1>2, <1>5, <1>6, <1>7, <1>8 DEF IndInv, Core

\* Every step keeps the invariant.
LEMMA NextInv == IndInv /\ [Next]_vars => IndInv'
<1> SUFFICES ASSUME IndInv, [Next]_vars PROVE IndInv'
  OBVIOUS
<1>1. ASSUME NEW w \in Workers, Worker(w) PROVE IndInv'
  <2>1. TypeOK'
    BY Zenon, <1>1, EarlyTypes, StoppingTypes, ClaimTypes, FinalizeTypes DEF Worker
  <2>2. Core'
    BY Zenon, <1>1, QuietActions, StatusActions, HolderActions, SendHttpCore, ClaimCore,
       FinalizeCore, SplitCore, Zenon DEF Worker
  <2> QED
    BY Zenon, <2>1, <2>2 DEF IndInv
<1>2. CASE Reconcile
  <2>1. TypeOK'
    BY Zenon, <1>2, RecoveryTypes DEF Reconcile
  <2>2. Core'
    BY Zenon, <1>2, RecoveryActions, SplitCore, StalledCore DEF Reconcile
  <2> QED
    BY Zenon, <2>1, <2>2 DEF IndInv
<1>3. CASE Environment
  <2>1. TypeOK'
    BY Zenon, <1>3, EnvironmentTypes DEF IndInv
  <2>2. Core'
    BY Zenon, <1>3, VendorCore, QuietEnvironment DEF Environment
  <2> QED
    BY Zenon, <2>1, <2>2 DEF IndInv
<1>4. CASE UNCHANGED vars
  <2>1. TypeOK'
    BY Zenon, <1>4 DEF IndInv, TypeOK, vars, chunkVars, attemptVars, vendorVars, envVars, workerVars
  <2>2. Core'
    BY Zenon, <1>4, QuietStep
    DEF vars, chunkVars, attemptVars, vendorVars, envVars, workerVars, NobodyTakesHold
  <2> QED
    BY Zenon, <2>1, <2>2 DEF IndInv
<1> QED
  BY Zenon, <1>1, <1>2, <1>3, <1>4 DEF Next

\* The inductive invariant holds in every state the workers, the vendors, the
\* reconciler and the operators can reach.
THEOREM Invariance == Spec => []IndInv
BY InitInv, NextInv, PTL DEF Spec

\* The columns, the history and the workers' local values keep their types.
THEOREM TypeCorrect == Spec => []TypeOK
<1>1. IndInv => TypeOK
  BY Zenon DEF IndInv
<1> QED
  BY <1>1, Invariance, PTL

\* However the chunk's task is repeated, crashed, switched between vendors or
\* recovered, at most one of its requests is or can be accepted.
THEOREM NeverTwice == Spec => []AtMostOnce
BY Invariance, CoreImpliesAtMostOnce, PTL

\* A chunk is sent again, failed and refunded, or split only when none of its
\* requests was or can be accepted.
THEOREM ResendJustified == Spec => []ResendOnlyAfterRefusal
<1>1. IndInv => ResendOnlyAfterRefusal
  BY Zenon DEF IndInv, Core
<1> QED
  BY <1>1, Invariance, PTL

\* submitted is recorded, for a chunk or an attempt, only for an accepted request.
THEOREM SubmittedJustified == Spec => []SubmittedIsAccepted
<1>1. IndInv => SubmittedIsAccepted
  BY Zenon DEF IndInv, Core
<1> QED
  BY <1>1, Invariance, PTL

\* A blocking attempt is the last and only one of its chunk.
THEOREM OneBlockingAttempt == Spec => []BlockingIsLast
<1>1. IndInv => BlockingIsLast
  BY Zenon DEF IndInv, Core
<1> QED
  BY <1>1, Invariance, PTL

-----------------------------------------------------------------------------
(* Unknown and final results, and the contract.                             *)

StatusMove ==
  /\ status = "uncertain" => status' \in {"uncertain", "submitted", "unknown_terminal"}
  /\ status \in {"submitted", "unknown_terminal", "failed"} => status' = status

\* Who may change the status, and from which one.
LEMMA WorkerStatusMove ==
  ASSUME NEW w \in Workers, Worker(w)
  PROVE  StatusMove /\ (SendHttp(w) \/ req' = req)
<1> USE DEF StatusMove, chunkVars, vendorVars, attemptVars, envVars
<1>1. CASE LoadChunk(w)
  BY Zenon, <1>1 DEF LoadChunk
<1>2. CASE RouteChunk(w)
  BY Zenon, <1>2 DEF RouteChunk
<1>3. CASE Preflight(w)
  BY Zenon, <1>3 DEF Preflight
<1>4. CASE RejectRecipient(w)
  BY Zenon, <1>4 DEF RejectRecipient
<1>5. CASE DispatchEmpty(w)
  BY Zenon, <1>5 DEF DispatchEmpty, PRE_SEND
<1>6. CASE ClaimSubmission(w)
  BY Zenon, <1>6 DEF ClaimSubmission, Claims, Claimable
<1>7. CASE BeginVendorInvoke(w)
  BY Zenon, <1>7 DEF BeginVendorInvoke
<1>8. CASE ClaimNextVendorInvoke(w)
  BY Zenon, <1>8 DEF ClaimNextVendorInvoke, FailoverGranted
<1>9. CASE CheckBeforeHttp(w)
  BY Zenon, <1>9 DEF CheckBeforeHttp
<1>10. CASE AbortPaused(w)
  BY Zenon, <1>10 DEF AbortPaused
<1>11. CASE AbortRejected(w)
  BY Zenon, <1>11 DEF AbortRejected
<1>12. CASE SendHttp(w)
  BY Zenon, <1>12 DEF SendHttp
<1>13. CASE ReplyAccepted(w)
  BY Zenon, <1>13 DEF ReplyAccepted, ToFinalize
<1>14. CASE ReplyLost(w)
  BY Zenon, <1>14 DEF ReplyLost, ToFinalize
<1>15. CASE ReplyRefused(w)
  BY Zenon, <1>15 DEF ReplyRefused, ToFinalize
<1>16. CASE Finalize(w)
  BY Zenon, <1>16 DEF Finalize, FinalizeHits, FinalizeWrite, NothingWritten
<1>17. CASE FinalizeRaises(w)
  BY Zenon, <1>17 DEF FinalizeRaises, FinalizeHits, FinalizeWrite, NothingWritten
<1>18. CASE Reload(w)
  BY Zenon, <1>18 DEF Reload, NothingWritten
<1>19. CASE PauseQueues(w)
  BY Zenon, <1>19 DEF PauseQueues
<1>20. CASE SplitOnce(w)
  BY Zenon, <1>20 DEF SplitOnce, CompleteVendorSplit
<1>21. CASE Leave(w)
  BY Zenon, <1>21 DEF Leave
<1> QED
  BY Zenon, <1>1, <1>2, <1>3, <1>4, <1>5, <1>6, <1>7, <1>8, <1>9, <1>10, <1>11, <1>12, <1>13, <1>14, <1>15, <1>16, <1>17, <1>18, <1>19, <1>20, <1>21 DEF Worker

\* The recovery jobs and the environment change the status as StatusMove allows.
LEMMA OtherStatusMove ==
  ASSUME Reconcile \/ Environment \/ UNCHANGED vars
  PROVE  /\ StatusMove
         /\ req' = req \/ \E g \in 1..gens : VendorAccepts(g) \/ VendorRefuses(g)
<1> USE DEF StatusMove, chunkVars, vendorVars, attemptVars, envVars
<1>1. CASE RepairLegacyReject
  BY Zenon, <1>1 DEF RepairLegacyReject
<1>2. CASE RetryBlockedSplit
  BY Zenon, <1>2 DEF RetryBlockedSplit, CompleteVendorSplit
<1>3. CASE ResolveSubmitted
  BY Zenon, <1>3 DEF ResolveSubmitted
<1>4. CASE TerminalizeUnknown
  BY Zenon, <1>4 DEF TerminalizeUnknown
<1>5. CASE RetryDue
  BY Zenon, <1>5 DEF RetryDue
<1>6. CASE SiblingBlocks
  BY Zenon, <1>6 DEF SiblingBlocks
<1>7. CASE OthersPause
  BY Zenon, <1>7 DEF OthersPause
<1>8. CASE ResumeBatches
  BY Zenon, <1>8 DEF ResumeBatches
<1>9. CASE ClearPauses
  BY Zenon, <1>9 DEF ClearPauses
<1>10. ASSUME NEW old5 \in BOOLEAN, NEW old15 \in BOOLEAN, NEW sent \in BOOLEAN,
              Stalled(old5, old15, sent)
       PROVE  StatusMove /\ req' = req
  BY Zenon, <1>10 DEF Stalled
<1>11. ASSUME NEW g \in 1..gens, VendorAccepts(g) \/ VendorRefuses(g)
       PROVE  StatusMove
  BY Zenon, <1>11 DEF VendorAccepts, VendorRefuses
<1>12. CASE UNCHANGED vars
  BY Zenon, <1>12 DEF vars
<1> HIDE DEF StatusMove, chunkVars, vendorVars, attemptVars, envVars
<1>13. CASE Reconcile
  BY Zenon, <1>1, <1>2, <1>3, <1>4, <1>10, <1>13 DEF Reconcile
<1>14. CASE Environment
  BY Zenon, <1>5, <1>6, <1>7, <1>8, <1>9, <1>11, <1>14 DEF Environment
<1> QED
  BY Zenon, <1>12, <1>13, <1>14

\* Once its result is unknown, a chunk is never offered for sending again, and
\* the final statuses are final, whatever a late finalize, a repeated task or
\* the reconciler do.
THEOREM NoReturnFromUnknown == Spec => UncertainNeverResent
<1>1. [Next]_vars => [StatusMove]_vars
  BY Zenon, WorkerStatusMove, OtherStatusMove DEF Next
<1>2. [StatusMove]_vars =>
        [/\ status = "uncertain" =>
              status' \in {"uncertain", "submitted", "unknown_terminal"}
         /\ status \in {"submitted", "unknown_terminal", "failed"} =>
              status' = status]_vars
  BY Zenon DEF StatusMove
<1> QED
  BY <1>1, <1>2, PTL DEF Spec, UncertainNeverResent

\* The request of the contract has one of its three values.
LEMMA RequestValues ==
  ASSUME IndInv
  PROVE  /\ ContractRequest = "accepted" <=> \E g \in Gen : req[g] = "accepted"
         /\ ContractRequest = "no" <=> Outstanding = {}
         /\ ContractRequest \in {"no", "sent", "accepted"}
BY Zenon DEF ContractRequest, Outstanding

\* A step that leaves the requests alone moves the verdict as the contract says.
LEMMA VerdictStep ==
  ASSUME IndInv, IndInv', StatusMove, req' = req
  PROVE  [Contract!CNext]_Contract!cvars
<1>1. ContractRequest' = ContractRequest
  BY Zenon DEF ContractRequest
<1>2. /\ status' = "submitted" => ContractRequest = "accepted"
      /\ status' = "failed" => ContractRequest = "no"
  <2>1. status' = "submitted" => \E g \in Gen : req'[g] = "accepted"
    BY Zenon DEF IndInv, Core, SubmittedIsAccepted
  <2>2. status' = "failed" => Outstanding' = {}
    BY Zenon DEF IndInv, Core, ResendOnlyAfterRefusal
  <2>3. Outstanding' = Outstanding
    BY Zenon DEF Outstanding
  <2> QED
    BY Zenon, <2>1, <2>2, <2>3, RequestValues
<1>3. /\ status \in Statuses /\ status' \in Statuses
  BY Zenon DEF IndInv, TypeOK
<1>4. CASE ContractVerdict' = ContractVerdict
  BY Zenon, <1>1, <1>4 DEF Contract!cvars
<1>5. CASE ContractVerdict' # ContractVerdict
  <2>1. ContractVerdict \in {"open", "unknown"}
    BY Zenon, <1>3, <1>5 DEF StatusMove, ContractVerdict, Statuses
  <2>2. CASE status' = "submitted"
    <3>1. ContractVerdict' = "submitted"
      BY Zenon, <2>2 DEF ContractVerdict
    <3> QED
      BY Zenon, <1>1, <1>2, <2>1, <2>2, <3>1 DEF Contract!CNext, Contract!ConcludeSubmitted
  <2>3. CASE status' = "failed"
    <3>1. ContractVerdict' = "failed"
      BY Zenon, <2>3 DEF ContractVerdict
    <3>2. ContractVerdict = "open"
      BY Zenon, <1>3, <2>1, <2>3 DEF StatusMove, ContractVerdict, Statuses
    <3> QED
      BY Zenon, <1>1, <1>2, <2>3, <3>1, <3>2 DEF Contract!CNext, Contract!ConcludeFailed
  <2>4. CASE status' \in {"uncertain", "unknown_terminal"}
    <3>1. ContractVerdict' = "unknown"
      BY Zenon, <2>4 DEF ContractVerdict
    <3> QED
      BY Zenon, <1>1, <1>5, <2>1, <3>1 DEF Contract!CNext, Contract!LoseTrack
  <2>5. CASE status' \notin {"submitted", "failed", "uncertain", "unknown_terminal"}
    <3>1. ContractVerdict' = "open"
      BY Zenon, <2>5 DEF ContractVerdict
    <3>2. ContractVerdict = "open"
      BY Zenon, <1>3, <2>1, <2>5 DEF StatusMove, ContractVerdict, Statuses
    <3> QED
      BY Zenon, <1>5, <3>1, <3>2
  <2> QED
    BY Zenon, <2>2, <2>3, <2>4, <2>5
<1> QED
  BY Zenon, <1>4, <1>5

\* Putting the request on the wire is Issue: nothing else is outstanding.
LEMMA IssueStep ==
  ASSUME IndInv, NEW w \in Workers, SendHttp(w)
  PROVE  Contract!Issue
<1> USE DEF IndInv, Core
<1>1. /\ hold[w] = gens /\ gens \in Gen /\ status \in Held
      /\ pc[w] = "checked" /\ req[hold[w]] = "none"
  <2>1. pc[w] = "checked" /\ pc[w] \in Holding
    BY Zenon DEF SendHttp, Holding
  <2> QED
    BY Zenon, <2>1, LastOnly DEF HoldersKnow
<1>2. Outstanding = {}
  BY Zenon, <1>1, LastOnly DEF Outstanding
<1>3. ContractRequest = "no"
  BY Zenon, <1>2, RequestValues
<1>4. req'[hold[w]] = "sent" /\ \A g \in Gen : g # hold[w] => req'[g] = req[g]
  BY Zenon, <1>1 DEF SendHttp, TypeOK
<1>5. ContractRequest' = "sent"
  <2>1. \A g \in Gen : req'[g] # "accepted"
    BY Zenon, <1>2, <1>4 DEF Outstanding
  <2> QED
    BY Zenon, <1>1, <1>4, <2>1 DEF ContractRequest
<1>6. status # "submitted"
  BY Zenon, <1>2 DEF SubmittedIsAccepted, Outstanding
<1>7. ContractVerdict \in {"open", "unknown"}
  BY Zenon, <1>1, <1>6 DEF ContractVerdict, Held
<1>8. ContractVerdict' = ContractVerdict
  BY Zenon DEF SendHttp, chunkVars, ContractVerdict
<1> QED
  BY Zenon, <1>3, <1>5, <1>7, <1>8 DEF Contract!Issue

\* A decision of a vendor is Accept or Refuse of the contract.
LEMMA DecideStep ==
  ASSUME IndInv, NEW g \in 1..gens, VendorAccepts(g) \/ VendorRefuses(g)
  PROVE  Contract!Accept \/ Contract!Refuse
<1>1. g \in Gen /\ req[g] = "sent"
  BY Zenon, Numbers DEF VendorAccepts, VendorRefuses, IndInv, TypeOK
<1>2. \A h \in Gen : h # g => req[h] \notin {"sent", "accepted"}
  <2>1. \A h \in Outstanding : h = gens
    BY Zenon, LastOnly
  <2> QED
    BY Zenon, <1>1, <2>1 DEF Outstanding
<1>3. ContractRequest = "sent"
  BY Zenon, <1>1, <1>2 DEF ContractRequest
<1>4. ContractVerdict' = ContractVerdict
  BY Zenon DEF VendorAccepts, VendorRefuses, chunkVars, ContractVerdict
<1>5. CASE VendorAccepts(g)
  <2>1. req'[g] = "accepted"
    BY Zenon, <1>1, <1>5 DEF VendorAccepts, IndInv, TypeOK
  <2>2. ContractRequest' = "accepted"
    BY Zenon, <1>1, <2>1 DEF ContractRequest
  <2> QED
    BY Zenon, <1>3, <1>4, <2>2 DEF Contract!Accept
<1>6. CASE VendorRefuses(g)
  <2>1. req'[g] = "refused" /\ \A h \in Gen : h # g => req'[h] = req[h]
    BY Zenon, <1>1, <1>6 DEF VendorRefuses, IndInv, TypeOK
  <2>2. ContractRequest' = "no"
    BY Zenon, <1>1, <1>2, <2>1 DEF ContractRequest
  <2> QED
    BY Zenon, <1>3, <1>4, <2>2 DEF Contract!Refuse
<1> QED
  BY Zenon, <1>5, <1>6

\* The workers, the vendors and the recovery jobs together implement the
\* submission contract, whatever is repeated, lost or crashes.
THEOREM Refinement == Spec => ImplementsContract
<1>1. Init => Contract!CInit
  <2> SUFFICES ASSUME Init PROVE Contract!CInit
    OBVIOUS
  <2>1. \A g \in Gen : req[g] \in {"none", "refused"}
    BY Zenon DEF Init
  <2>2. status \in {"submitting", "pending"}
    BY Zenon DEF Init
  <2>3. ContractRequest = "no"
    BY Zenon, <2>1 DEF ContractRequest
  <2>4. ContractVerdict = "open"
    BY Zenon, <2>2 DEF ContractVerdict
  <2> QED
    BY Zenon, <2>3, <2>4 DEF Contract!CInit
<1>2. IndInv /\ IndInv' /\ [Next]_vars => [Contract!CNext]_Contract!cvars
  <2> SUFFICES ASSUME IndInv, IndInv', [Next]_vars
               PROVE  [Contract!CNext]_Contract!cvars
    OBVIOUS
  <2>1. ASSUME NEW w \in Workers, SendHttp(w) PROVE [Contract!CNext]_Contract!cvars
    BY Zenon, <2>1, IssueStep DEF Contract!CNext
  <2>2. ASSUME NEW g \in 1..gens, VendorAccepts(g) \/ VendorRefuses(g)
        PROVE  [Contract!CNext]_Contract!cvars
    BY Zenon, <2>2, DecideStep DEF Contract!CNext
  <2>3. StatusMove
    BY Zenon, WorkerStatusMove, OtherStatusMove DEF Next
  <2>4. \/ req' = req
        \/ \E w \in Workers : SendHttp(w)
        \/ \E g \in 1..gens : VendorAccepts(g) \/ VendorRefuses(g)
    BY Zenon, WorkerStatusMove, OtherStatusMove DEF Next
  <2> QED
    BY Zenon, <2>1, <2>2, <2>3, <2>4, VerdictStep
<1> QED
  BY <1>1, <1>2, Invariance, PTL DEF Spec, ImplementsContract, Contract!CSpec

=============================================================================
