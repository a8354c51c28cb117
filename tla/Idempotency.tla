---------------------------- MODULE Idempotency ----------------------------
(***************************************************************************)
(* Accepting a send request under one idempotency key (one scope and         *)
(* biz_id).  PostgreSQL holds the claim row (a lease with a generation) and  *)
(* the idempotency record of the accepted batch; Redis holds a cached batch  *)
(* number and a projection of the claim.  Several requests with the key run  *)
(* SendPipeline.accept at the same time; each may be cut short at any await.  *)
(*                                                                         *)
(* A reservation of the claim gets a fresh token and the next generation, so *)
(* the generation stands for the token too.  A batch is named by the request *)
(* that saved it.  The stages between claim and save (rendering, screening,   *)
(* usage, quota) are in pc "work"; their failures are Abort.                 *)
(***************************************************************************)
EXTENDS Naturals, FiniteSets

CONSTANTS
  Requests,   \* the requests that arrive with this key
  Hash,       \* Hash[r]: the fingerprint of request r
  NoBatch,    \* no batch
  MaxGen      \* bound on claim generations

ASSUME IdempotencyAssumption ==
  /\ NoBatch \notin Requests
  /\ DOMAIN Hash = Requests
  /\ MaxGen \in Nat \ {0}

VARIABLES
  claim,     \* the idempotency_claim row: state, generation, lease, batch
  record,    \* the batch of the idempotency_record row, or NoBatch
  made,      \* the batches that were committed
  expired,   \* those whose record has passed expires_at
  working,   \* those with unfinished work (RESULT_WORK_PROTECTED_SQL)
  index,     \* Redis: the cached batch, or NoBatch
  proj,      \* Redis: the generation of the projected claim, 0 if none
  pc, phase, \* where each request is, and which of its lookups it is in
  cand,      \* the batch each request has read and not yet verified
  mine,      \* the generation each request reserved, 0 if none
  fence,     \* the token and generation it will present when saving
  fresh,     \* its local renewal cache is valid (_renewed_until)
  out        \* how it was answered

dbVars == <<claim, record, made>>
ageVars == <<expired, working>>
redisVars == <<index, proj>>
localVars == <<phase, cand, mine, fence, fresh, out>>
vars == <<claim, record, made, expired, working, index, proj,
          pc, phase, cand, mine, fence, fresh, out>>

Batches == Requests \cup {NoBatch}
Gens == 0..MaxGen
Hashes == {Hash[r] : r \in Requests} \cup {NoBatch}

Waiting == {"lookup", "verify", "drop", "find", "remember", "same", "inspect",
            "wait", "claim", "project", "check", "fence", "work"}
PCs == Waiting \cup {"save", "finish", "resolve", "cleanup", "done", "dead"}
Answers == [kind : {"none", "answer", "conflict", "failed", "unknown", "timeout",
                    "error"}, batch : Batches]

\* Every variable keeps its type; generations never pass the bound.
TypeOK ==
  /\ claim \in [state : {"none", "active", "completed", "released"}, gen : Gens,
                hash : Hashes, lease : {"live", "margin", "over"}, batch : Batches]
  /\ record \in Batches
  /\ made \subseteq Requests /\ expired \subseteq made /\ working \subseteq made
  /\ index \in Batches /\ proj \in Gens
  /\ pc \in [Requests -> PCs]
  /\ phase \in [Requests -> {"first", "second", "owner", "after"}]
  /\ cand \in [Requests -> Batches]
  /\ mine \in [Requests -> Gens]
  /\ fence \in [Requests -> [token : Gens, gen : Gens]]
  /\ fresh \subseteq Requests
  /\ out \in [Requests -> Answers]

Init ==
  /\ claim = [state |-> "none", gen |-> 0, hash |-> NoBatch, lease |-> "over",
              batch |-> NoBatch]
  /\ record = NoBatch /\ made = {} /\ expired = {} /\ working = {}
  /\ index = NoBatch /\ proj = 0
  /\ pc = [r \in Requests |-> "lookup"]
  /\ phase = [r \in Requests |-> "first"]
  /\ cand = [r \in Requests |-> NoBatch]
  /\ mine = [r \in Requests |-> 0]
  /\ fence = [r \in Requests |-> [token |-> 0, gen |-> 0]]
  /\ fresh = {}
  /\ out = [r \in Requests |-> [kind |-> "none", batch |-> NoBatch]]

-----------------------------------------------------------------------------
(* What the database says.                                                  *)

\* IDEMPOTENCY_LIVE_SQL: a result counts until it has expired and all the work
\* of its batch has ended.
ResultLive(b) == b \in made /\ (b \notin expired \/ b \in working)

\* find_existing
Existing == IF record # NoBatch /\ ResultLive(record) THEN record ELSE NoBatch

\* claim_row_is_live
ClaimLive == claim.state = "active" /\ claim.lease = "live"

\* RESERVE_IDEMPOTENCY_CLAIM_SQL: free, released, or a lease that ran out.
Reservable == \/ claim.state \in {"none", "released"}
              \/ claim.state = "active" /\ claim.lease # "live"

\* Mutant: a completed claim is taken over on the expiry alone.
ReclaimableByExpiry == claim.state = "completed" /\ claim.batch \in expired

\* reclaim_completed_result: a completed claim whose result no longer counts.
Reclaimable == claim.state = "completed" /\ ~ResultLive(claim.batch)

\* RENEW_IDEMPOTENCY_CLAIM_SQL: the lease may be over by one second.
Renewable(r) == /\ claim.state = "active" /\ claim.gen = mine[r]
                /\ claim.lease # "over"

-----------------------------------------------------------------------------
(* Moves of one request.                                                    *)

Go(r, to) == pc' = [pc EXCEPT ![r] = to]

\* The request is answered; an owner cleans its claim up first.
Answer(r, kind, b) ==
  /\ out' = [out EXCEPT ![r] = [kind |-> kind, batch |-> b]]
  /\ Go(r, IF mine[r] = 0 THEN "done" ELSE "cleanup")

\* Where a lookup that found nothing leads.
AfterMiss(r) ==
  CASE phase[r] = "owner" -> Go(r, "check") /\ UNCHANGED out
    [] phase[r] = "after" -> Answer(r, "failed", NoBatch)
    [] OTHER -> Go(r, "inspect") /\ UNCHANGED out

\* IdempotencyCoordinator.lookup: the cached batch number.
Lookup(r) ==
  /\ pc[r] = "lookup"
  /\ cand' = [cand EXCEPT ![r] = index]
  /\ Go(r, IF index = NoBatch THEN "find" ELSE "verify")
  /\ UNCHANGED <<dbVars, ageVars, redisVars, phase, mine, fence, fresh, out>>

\* A cached batch number counts only while the database confirms it.
Verify(r) ==
  /\ pc[r] = "verify"
  /\ Go(r, IF Existing = cand[r] THEN "same" ELSE "drop")
  /\ UNCHANGED <<dbVars, ageVars, redisVars, localVars>>

\* Otherwise the verified value, and no newer one, is removed.
Drop(r) ==
  /\ pc[r] = "drop"
  /\ index' = IF index = cand[r] THEN NoBatch ELSE index
  /\ cand' = [cand EXCEPT ![r] = Existing]
  /\ IF Existing = NoBatch THEN AfterMiss(r) ELSE Go(r, "same") /\ UNCHANGED out
  /\ UNCHANGED <<dbVars, ageVars, proj, phase, mine, fence, fresh>>

Find(r) ==
  /\ pc[r] = "find"
  /\ cand' = [cand EXCEPT ![r] = Existing]
  /\ IF Existing = NoBatch THEN AfterMiss(r) ELSE Go(r, "remember") /\ UNCHANGED out
  /\ UNCHANGED <<dbVars, ageVars, redisVars, phase, mine, fence, fresh>>

\* remember: SET NX, after the database was read.
Remember(r) ==
  /\ pc[r] = "remember"
  /\ index' = IF index = NoBatch THEN cand[r] ELSE index
  /\ Go(r, "same")
  /\ UNCHANGED <<dbVars, ageVars, proj, localVars>>

\* _ensure_same_request reads the fingerprint of the record there is now.
Same(r) ==
  /\ pc[r] = "same"
  /\ IF Existing # NoBatch /\ Hash[Existing] = Hash[r]
       THEN Answer(r, "answer", cand[r])
       ELSE Answer(r, "conflict", NoBatch)
  /\ UNCHANGED <<dbVars, ageVars, redisVars, phase, cand, mine, fence, fresh>>

\* inspect: a live claim of another request is waited for, if it is the same
\* request; its projection is repaired on the way.
Inspect(r) ==
  /\ pc[r] = "inspect"
  /\ \/ /\ ClaimLive
        /\ proj' = claim.gen
        /\ IF claim.hash # Hash[r]
             THEN Answer(r, "conflict", NoBatch)
             ELSE Go(r, "wait") /\ UNCHANGED out
     \/ /\ ~ClaimLive
        /\ Go(r, IF phase[r] = "first" THEN "claim" ELSE "wait")
        /\ UNCHANGED <<proj, out>>
  /\ UNCHANGED <<dbVars, ageVars, index, phase, cand, mine, fence, fresh>>

\* wait: each round reads the claim; only a claim that is over ends the wait.
Wait(r) ==
  /\ pc[r] = "wait" /\ ~ClaimLive
  /\ cand' = [cand EXCEPT ![r] = Existing]
  /\ Go(r, IF Existing = NoBatch THEN "claim" ELSE "remember")
  /\ UNCHANGED <<dbVars, ageVars, redisVars, phase, mine, fence, fresh, out>>

WaitTimesOut(r) ==
  /\ pc[r] = "wait" /\ ClaimLive
  /\ Answer(r, "timeout", NoBatch)
  /\ UNCHANGED <<dbVars, ageVars, redisVars, phase, cand, mine, fence, fresh>>

\* The claim was not obtained: once more after a wait, then no more.
NotClaimed(r) ==
  /\ IF phase[r] = "first"
       THEN Go(r, "inspect") /\ phase' = [phase EXCEPT ![r] = "second"]
                             /\ UNCHANGED out
       ELSE /\ out' = [out EXCEPT ![r] = [kind |-> "timeout", batch |-> NoBatch]]
            /\ Go(r, "done") /\ UNCHANGED phase

\* reserve_idempotency_claim
Claim(r) ==
  /\ pc[r] = "claim"
  /\ \/ /\ Reservable \/ Reclaimable
        /\ claim.gen < MaxGen
        /\ claim' = [state |-> "active", gen |-> claim.gen + 1, hash |-> Hash[r],
                     lease |-> "live", batch |-> NoBatch]
        /\ record' = IF claim.state = "completed" THEN NoBatch ELSE record
        /\ mine' = [mine EXCEPT ![r] = claim.gen + 1]
        /\ Go(r, "project")
        /\ UNCHANGED <<phase, out>>
     \/ /\ ~Reservable /\ ~Reclaimable
        /\ NotClaimed(r)
        /\ UNCHANGED <<claim, record, mine>>
  /\ UNCHANGED <<made, ageVars, redisVars, cand, fence, fresh>>

\* CLAIM_PROJECT_LUA refuses to overwrite a newer generation; the row then
\* stays reserved by nobody until its lease runs out.
Project(r) ==
  /\ pc[r] = "project"
  /\ IF proj > mine[r]
       THEN /\ NotClaimed(r) /\ mine' = [mine EXCEPT ![r] = 0]
            /\ UNCHANGED proj
       ELSE /\ proj' = mine[r] /\ Go(r, "lookup")
            /\ phase' = [phase EXCEPT ![r] = "owner"]
            /\ UNCHANGED <<mine, out>>
  /\ UNCHANGED <<dbVars, ageVars, index, cand, fence, fresh>>

-----------------------------------------------------------------------------
(* The owner of the claim, between lookup and save.                         *)

\* renew_if_due: the local cache, or the database lease (and its projection).
Owns(r) == r \in fresh \/ Renewable(r)

Renewed(r) ==
  IF r \in fresh THEN UNCHANGED <<claim, proj, fresh>>
  ELSE /\ claim' = [claim EXCEPT !.lease = "live"]
       /\ proj' = mine[r]
       /\ fresh' = fresh \cup {r}

\* check_ownership: a lost claim ends the acceptance.
CheckThen(r, to) ==
  \/ Owns(r) /\ Renewed(r) /\ Go(r, to) /\ UNCHANGED out
  \/ ~Owns(r) /\ Answer(r, "error", NoBatch) /\ UNCHANGED <<claim, proj, fresh>>

Check(r) ==
  /\ pc[r] = "check"
  /\ CheckThen(r, "fence")
  /\ UNCHANGED <<record, made, ageVars, index, phase, cand, mine, fence>>

\* The save will present whatever live claim is there now; if there is none,
\* the request's own token with generation 1.
Fence(r) ==
  /\ pc[r] = "fence"
  /\ fence' = [fence EXCEPT ![r] = IF ClaimLive
                                     THEN [token |-> claim.gen, gen |-> claim.gen]
                                     ELSE [token |-> mine[r], gen |-> 1]]
  /\ Go(r, "work")
  /\ UNCHANGED <<dbVars, ageVars, redisVars, phase, cand, mine, fresh, out>>

\* Mutant: the last ownership check before saving is left out.
WorkUnchecked(r) ==
  /\ pc[r] = "work"
  /\ Go(r, "save")
  /\ UNCHANGED <<dbVars, ageVars, redisVars, localVars>>

Work(r) ==
  /\ pc[r] = "work"
  /\ CheckThen(r, "save")
  /\ UNCHANGED <<record, made, ageVars, index, phase, cand, mine, fence>>

Heartbeat(r) ==
  /\ phase[r] = "owner" /\ pc[r] \in Waiting \cup {"save"}
  /\ r \notin fresh /\ Renewable(r)
  /\ Renewed(r)
  /\ UNCHANGED <<record, made, ageVars, index, pc, phase, cand, mine, fence, out>>

-----------------------------------------------------------------------------
(* Saving, and finding out what became of a save that was not confirmed.    *)

\* The claim row the save transaction locks must be the one presented.
SaveFenced(r) ==
  /\ ClaimLive
  /\ claim.gen = fence[r].token /\ claim.gen = fence[r].gen

\* Batch, record and completion of the claim are one transaction, whose commit
\* may be confirmed, unconfirmed, or unseen because the request was cancelled.
\* The unique key of the record is never hit: see RecordIsClaimed.
SaveCommits(r) ==
  /\ pc[r] = "save" /\ SaveFenced(r)
  /\ record' = r
  /\ made' = made \cup {r} /\ working' = working \cup {r}
  /\ claim' = [claim EXCEPT !.state = "completed", !.batch = r]
  /\ \/ Go(r, "finish") /\ UNCHANGED out
     \/ Go(r, "resolve") /\ UNCHANGED out
     \/ Answer(r, "error", NoBatch)
  /\ UNCHANGED <<expired, redisVars, phase, cand, mine, fence, fresh>>

\* Not fenced, or any other database error: rolled back.
SaveFails(r) ==
  /\ pc[r] = "save"
  /\ Go(r, "resolve")
  /\ UNCHANGED <<dbVars, ageVars, redisVars, localVars>>

\* Mutant: an unconfirmed save is taken for a failed one.
ResolveFailed(r) ==
  /\ pc[r] = "resolve"
  /\ Answer(r, "failed", NoBatch)
  /\ UNCHANGED <<dbVars, ageVars, redisVars, phase, cand, mine, fence, fresh>>

\* resolve_ambiguous_acceptance_commit reads the in-flight reservation, which
\* is bound exactly when this save committed; else the record of the key.
Resolve(r) ==
  /\ pc[r] = "resolve"
  /\ \/ /\ r \in made
        /\ Answer(r, "answer", r)
        /\ UNCHANGED phase
     \/ /\ r \notin made /\ record # NoBatch
        /\ Answer(r, "conflict", NoBatch)
        /\ UNCHANGED phase
     \/ /\ r \notin made /\ record = NoBatch
        /\ Go(r, "lookup")
        /\ phase' = [phase EXCEPT ![r] = "after"]
        /\ UNCHANGED out
     \/ /\ Answer(r, "unknown", NoBatch)
        /\ UNCHANGED phase
  /\ UNCHANGED <<dbVars, ageVars, redisVars, cand, mine, fence, fresh>>

\* _finish_acceptance: remember may fail after the commit.
Finish(r) ==
  /\ pc[r] = "finish"
  /\ \/ /\ index' = IF index = NoBatch THEN r ELSE index
        /\ Answer(r, "answer", r)
     \/ /\ Answer(r, "error", NoBatch)
        /\ UNCHANGED index
  /\ UNCHANGED <<dbVars, ageVars, proj, phase, cand, mine, fence, fresh>>

\* _cleanup_claim: bounded, and may not get through.
Cleanup(r) ==
  /\ pc[r] = "cleanup"
  /\ \/ /\ claim' = IF /\ claim.state = "active" /\ claim.gen = mine[r]
                       /\ record \in expired \cup {NoBatch}
                      THEN [claim EXCEPT !.state = "released"] ELSE claim
        /\ proj' = IF proj = mine[r] THEN 0 ELSE proj
     \/ UNCHANGED <<claim, proj>>
  /\ fresh' = fresh \ {r}
  /\ Go(r, "done")
  /\ UNCHANGED <<record, made, ageVars, index, phase, cand, mine, fence, out>>

\* A stage refuses, or a dependency fails.  A claim that was reserved and not
\* projected has no owner to clean it up.
Abort(r) ==
  /\ pc[r] \in Waiting
  /\ out' = [out EXCEPT ![r] =
       [kind |-> IF phase[r] = "after" THEN "failed" ELSE "error", batch |-> NoBatch]]
  /\ Go(r, IF phase[r] \in {"owner", "after"} THEN "cleanup" ELSE "done")
  /\ UNCHANGED <<dbVars, ageVars, redisVars, phase, cand, mine, fence, fresh>>

Crash(r) ==
  /\ pc[r] \notin {"done", "dead"}
  /\ Go(r, "dead")
  /\ fresh' = fresh \ {r}
  /\ UNCHANGED <<dbVars, ageVars, redisVars, phase, cand, mine, fence, out>>

-----------------------------------------------------------------------------
(* Time, Redis and housekeeping.                                            *)

\* The cache lasts a third of the lease and starts before it.
CacheEnds(r) ==
  /\ r \in fresh
  /\ fresh' = fresh \ {r}
  /\ UNCHANGED <<dbVars, ageVars, redisVars, pc, phase, cand, mine, fence, out>>

LeaseRuns ==
  /\ claim.state = "active" /\ claim.lease # "over"
  /\ \A r \in fresh : mine[r] # claim.gen
  /\ claim' = [claim EXCEPT !.lease = IF claim.lease = "live" THEN "margin" ELSE "over"]
  /\ UNCHANGED <<record, made, ageVars, redisVars, pc, localVars>>

\* A record lives for a day or more, far longer than the request that made it.
ResultExpires ==
  /\ \E b \in made \ expired : pc[b] \in {"done", "dead"} /\ expired' = expired \cup {b}
  /\ UNCHANGED <<dbVars, working, redisVars, pc, localVars>>

WorkEnds ==
  /\ \E b \in working : working' = working \ {b}
  /\ UNCHANGED <<dbVars, expired, redisVars, pc, localVars>>

RedisLoses ==
  /\ \/ index # NoBatch /\ index' = NoBatch /\ UNCHANGED proj
     \/ proj # 0 /\ proj' = 0 /\ UNCHANGED index
  /\ UNCHANGED <<dbVars, ageVars, pc, localVars>>

\* _cleanup_idempotency_page: the completed claim keeps the proof of expiry.
Housekeeping ==
  /\ record \in expired /\ ~ResultLive(record)
  /\ record' = NoBatch
  /\ UNCHANGED <<claim, made, ageVars, redisVars, pc, localVars>>

-----------------------------------------------------------------------------
Request(r) ==
  \/ Lookup(r) \/ Verify(r) \/ Drop(r) \/ Find(r) \/ Remember(r) \/ Same(r)
  \/ Inspect(r) \/ Wait(r) \/ WaitTimesOut(r) \/ Claim(r) \/ Project(r)
  \/ Check(r) \/ Fence(r) \/ Work(r)
  \/ SaveCommits(r) \/ SaveFails(r) \/ Resolve(r) \/ Finish(r) \/ Cleanup(r)

Environment ==
  \/ LeaseRuns \/ ResultExpires \/ WorkEnds \/ RedisLoses \/ Housekeeping

Next ==
  \/ \E r \in Requests : Request(r) \/ Heartbeat(r) \/ Abort(r) \/ Crash(r) \/ CacheEnds(r)
  \/ Environment

Spec == Init /\ [][Next]_vars

-----------------------------------------------------------------------------
(* Properties                                                               *)

\* A result that still counts is the one the record names: there is at most one,
\* so two concurrent or repeated acceptances never both send, and every later
\* lookup finds it (reserve_idempotency_claim, the fenced save,
\* reclaim_completed_result, _cleanup_idempotency_page).
OneCurrentResult == \A b \in made : ResultLive(b) => record = b

\* A batch is committed only by the request whose reservation the claim row
\* carries, although the fence it presents was read from the row and may be
\* another request's (accept, claim_token=fence_token).
OnlyOwnerCommits ==
  [][\A r \in Requests : r \in made' \ made => mine[r] = claim.gen]_vars

\* A request is answered with a batch of the same fingerprint.
AnswerMatches ==
  \A r \in Requests :
    out[r].kind = "answer" => Hash[out[r].batch] = Hash[r]

\* What a request is told is true.  One that is told that nothing was accepted
\* (the original error or a coordination timeout) has no batch, even if the
\* commit of its save was not confirmed (resolve_ambiguous_acceptance_commit).
\* One that is answered with a batch of another fingerprint could not have got
\* a result that still counts (_ensure_same_request).
AnswersAreTrue ==
  \A r \in Requests :
    /\ out[r].kind \in {"failed", "timeout"} => r \notin made
    /\ out[r].kind = "answer" /\ ResultLive(out[r].batch)
         => Hash[out[r].batch] = Hash[r]
=============================================================================
