---------------------------- MODULE FenceProofs ----------------------------
(***************************************************************************)
(* Proofs about the two fences: the token that a save presents, and the    *)
(* fence around a host that is being recovered.                            *)
(*                                                                         *)
(* Idempotency, for any number of requests, any fingerprints and any       *)
(* number of claim generations: one result of a key counts at a time,      *)
(* answers are true and only the owner of a claim commits.                 *)
(*                                                                         *)
(* HostRecovery, for any number of faults and writes: no service that      *)
(* sends or accepts runs outside the fence, and a recovery starts over the *)
(* approved database only.                                                 *)
(***************************************************************************)
EXTENDS Idempotency, HostRecovery, TLAPS

----------------------------------------------------------------------------
(* The idempotency key *)

\* What a table, a cache or an answer may name.
Known == made \cup {NoBatch}

\* What is remembered anywhere as a batch was committed; a result that still
\* counts is guarded by the completed claim, which nobody may reserve before
\* the result has ended.
Results ==
  /\ record \in Known /\ index \in Known
  /\ \A b \in made : ResultLive(b) =>
       record = b /\ claim.state = "completed" /\ claim.batch = b
  /\ claim.state # "none" => claim.gen # 0

\* Where a request with a committed batch, with an expired one, and with a
\* valid renewal cache can be.
Places(r) ==
  /\ r \in made => pc[r] \in {"finish", "resolve", "cleanup", "done", "dead"}
  /\ pc[r] = "finish" => r \in made
  /\ r \in expired => pc[r] \in {"done", "dead"}
  /\ pc[r] \in {"done", "dead"} => r \notin fresh
  /\ pc[r] \in {"inspect", "wait", "claim", "project"} => phase[r] \in {"first", "second"}
  /\ pc[r] \in {"check", "fence", "work", "save"} => phase[r] = "owner"
  /\ phase[r] \in {"first", "second"} => r \notin fresh
  /\ pc[r] # "done" /\ out[r].kind # "none" => pc[r] \in {"cleanup", "dead"}

\* A reservation belongs to one request.  While its renewal cache is valid the
\* claim row is still the one it reserved, or its own completed result; when it
\* comes to save, the fence it presents is its own.
Owner(r) ==
  /\ mine[r] <= claim.gen
  /\ \A s \in Requests : mine[s] = mine[r] /\ mine[r] # 0 => s = r
  /\ r \in fresh =>
       /\ mine[r] # 0 /\ claim.gen = mine[r]
       /\ \/ claim.state = "active" /\ claim.lease = "live"
          \/ claim.state = "completed" /\ claim.batch = r /\ r \in made
  /\ pc[r] = "work" => mine[r] <= fence[r].token /\ fence[r].token <= claim.gen
  /\ pc[r] = "save" => fence[r].token = mine[r]

\* What a request was told, and the batch it is about to be told.
Told(r) ==
  /\ cand[r] \in Known /\ out[r].batch \in Known
  /\ out[r].kind \in {"failed", "timeout"} => r \notin made
  /\ out[r].kind = "answer" /\ ResultLive(out[r].batch)
       => Hash[out[r].batch] = Hash[r]

Good(r) == Places(r) /\ Owner(r) /\ Told(r)

IdempotencyInv == TypeOK /\ Results /\ \A r \in Requests : Good(r)

\* The steps of a request and of the clock: one lemma per action, and in it one
\* step per conjunct that the action can disturb.
LEMMA LookupKeeps ==
  ASSUME IdempotencyInv, NEW r \in Requests, Lookup(r)
  PROVE  IdempotencyInv'
<1> USE DEF IdempotencyInv, Good, Known, dbVars, ageVars, redisVars, localVars
<1>1. TypeOK'
  BY Zenon DEF TypeOK, PCs, Waiting, Lookup, Go
<1>2. Results'
  BY Zenon DEF Results, ResultLive, Lookup
<1>3. ASSUME NEW s \in Requests PROVE Places(s)'
  BY <1>3 DEF Places, Lookup, Go
<1>4. ASSUME NEW s \in Requests PROVE Owner(s)'
  BY <1>4 DEF Owner, Lookup, Go
<1>5. ASSUME NEW s \in Requests PROVE Told(s)'
  BY <1>5 DEF Results, Told, ResultLive, Lookup
<1> QED BY Zenon, <1>1, <1>2, <1>3, <1>4, <1>5

LEMMA VerifyKeeps ==
  ASSUME IdempotencyInv, NEW r \in Requests, Verify(r)
  PROVE  IdempotencyInv'
<1> USE DEF IdempotencyInv, Good, Known, dbVars, ageVars, redisVars, localVars
<1>1. TypeOK'
  BY Zenon DEF TypeOK, PCs, Waiting, Verify, Go
<1>2. Results'
  BY Zenon DEF Results, ResultLive, Verify
<1>3. ASSUME NEW s \in Requests PROVE Places(s)'
  BY <1>3 DEF Places, Verify, Go
<1>4. ASSUME NEW s \in Requests PROVE Owner(s)'
  BY <1>4 DEF Owner, Verify, Go
<1>5. ASSUME NEW s \in Requests PROVE Told(s)'
  BY Zenon, <1>5 DEF Told, ResultLive, Verify
<1> QED BY Zenon, <1>1, <1>2, <1>3, <1>4, <1>5

LEMMA DropKeeps ==
  ASSUME IdempotencyInv, NEW r \in Requests, Drop(r)
  PROVE  IdempotencyInv'
<1> USE DEF IdempotencyInv, Good, Known, dbVars, ageVars, redisVars, localVars
<1>1. TypeOK'
  <2>1. pc' \in [Requests -> PCs]
    BY DEF TypeOK, PCs, Waiting, Drop, AfterMiss, Answer, Go
  <2>2. out' \in [Requests -> Answers]
    <3>1. out' = out \/ out' = [out EXCEPT ![r] = [kind |-> "failed", batch |-> NoBatch]]
      BY Zenon DEF Drop, AfterMiss, Answer
    <3> QED BY <3>1 DEF TypeOK, Batches, Answers
  <2>3. claim' \in [state : {"none", "active", "completed", "released"}, gen : Gens,
                    hash : Hashes, lease : {"live", "margin", "over"}, batch : Batches]
    BY Zenon DEF TypeOK, Drop
  <2>4. index' \in Batches /\ proj' \in Gens /\ record' \in Batches
    BY Zenon DEF TypeOK, Batches, Drop
  <2>5. /\ phase' \in [Requests -> {"first", "second", "owner", "after"}]
        /\ cand' \in [Requests -> Batches]
        /\ mine' \in [Requests -> Gens]
    BY Zenon DEF TypeOK, Batches, Drop, Existing
  <2>6. /\ made' \subseteq Requests /\ expired' \subseteq made' /\ working' \subseteq made'
        /\ fence' \in [Requests -> [token : Gens, gen : Gens]]
        /\ fresh' \subseteq Requests
    BY Zenon DEF TypeOK, Drop
  <2> QED BY Zenon, <2>1, <2>2, <2>3, <2>4, <2>5, <2>6 DEF TypeOK
<1>2. Results'
  BY Zenon DEF Results, ResultLive, Drop
<1>3. ASSUME NEW s \in Requests PROVE Places(s)'
  BY <1>3 DEF TypeOK, Places, Owner, Drop, AfterMiss, Answer, Go
<1>4. ASSUME NEW s \in Requests PROVE Owner(s)'
  BY <1>4 DEF TypeOK, Owner, Drop, AfterMiss, Answer, Go
<1>5. ASSUME NEW s \in Requests PROVE Told(s)'
  BY <1>5, IdempotencyAssumption DEF TypeOK, Places, Told, ResultLive, Batches, Drop,
     AfterMiss, Answer, Go, Existing
<1> QED BY Zenon, <1>1, <1>2, <1>3, <1>4, <1>5

LEMMA FindKeeps ==
  ASSUME IdempotencyInv, NEW r \in Requests, Find(r)
  PROVE  IdempotencyInv'
<1> USE DEF IdempotencyInv, Good, Known, dbVars, ageVars, redisVars, localVars
<1>1. TypeOK'
  <2>1. pc' \in [Requests -> PCs]
    BY DEF TypeOK, PCs, Waiting, Find, AfterMiss, Answer, Go
  <2>2. out' \in [Requests -> Answers]
    <3>1. out' = out \/ out' = [out EXCEPT ![r] = [kind |-> "failed", batch |-> NoBatch]]
      BY Zenon DEF Find, AfterMiss, Answer
    <3> QED BY <3>1 DEF TypeOK, Batches, Answers
  <2>3. claim' \in [state : {"none", "active", "completed", "released"}, gen : Gens,
                    hash : Hashes, lease : {"live", "margin", "over"}, batch : Batches]
    BY Zenon DEF TypeOK, Find
  <2>4. index' \in Batches /\ proj' \in Gens /\ record' \in Batches
    BY Zenon DEF TypeOK, Find
  <2>5. /\ phase' \in [Requests -> {"first", "second", "owner", "after"}]
        /\ cand' \in [Requests -> Batches]
        /\ mine' \in [Requests -> Gens]
    BY Zenon DEF TypeOK, Batches, Find, Existing
  <2>6. /\ made' \subseteq Requests /\ expired' \subseteq made' /\ working' \subseteq made'
        /\ fence' \in [Requests -> [token : Gens, gen : Gens]]
        /\ fresh' \subseteq Requests
    BY Zenon DEF TypeOK, Find
  <2> QED BY Zenon, <2>1, <2>2, <2>3, <2>4, <2>5, <2>6 DEF TypeOK
<1>2. Results'
  BY Zenon DEF Results, ResultLive, Find
<1>3. ASSUME NEW s \in Requests PROVE Places(s)'
  BY <1>3 DEF TypeOK, Places, Owner, Find, AfterMiss, Answer, Go, Existing
<1>4. ASSUME NEW s \in Requests PROVE Owner(s)'
  BY <1>4 DEF TypeOK, Owner, Find, AfterMiss, Answer, Go
<1>5. ASSUME NEW s \in Requests PROVE Told(s)'
  BY <1>5 DEF TypeOK, Places, Told, ResultLive, Batches, Find, AfterMiss, Answer,
     Existing
<1> QED BY Zenon, <1>1, <1>2, <1>3, <1>4, <1>5

LEMMA RememberKeeps ==
  ASSUME IdempotencyInv, NEW r \in Requests, Remember(r)
  PROVE  IdempotencyInv'
<1> USE DEF IdempotencyInv, Good, Known, dbVars, ageVars, redisVars, localVars
<1>1. TypeOK'
  BY Zenon DEF TypeOK, PCs, Waiting, Remember, Go
<1>2. Results'
  BY Zenon DEF Results, Told, ResultLive, Remember
<1>3. ASSUME NEW s \in Requests PROVE Places(s)'
  BY <1>3 DEF Places, Remember, Go
<1>4. ASSUME NEW s \in Requests PROVE Owner(s)'
  BY <1>4 DEF Owner, Remember, Go
<1>5. ASSUME NEW s \in Requests PROVE Told(s)'
  BY Zenon, <1>5 DEF Told, ResultLive, Remember
<1> QED BY Zenon, <1>1, <1>2, <1>3, <1>4, <1>5

LEMMA SameKeeps ==
  ASSUME IdempotencyInv, NEW r \in Requests, Same(r)
  PROVE  IdempotencyInv'
<1> USE DEF IdempotencyInv, Good, Known, dbVars, ageVars, redisVars, localVars
<1>1. TypeOK'
  <2>1. pc' \in [Requests -> PCs]
    BY Zenon DEF TypeOK, PCs, Same, Answer, Go
  <2>2. out' \in [Requests -> Answers]
    BY DEF TypeOK, Batches, Answers, Same, Answer
  <2>3. claim' \in [state : {"none", "active", "completed", "released"}, gen : Gens,
                    hash : Hashes, lease : {"live", "margin", "over"}, batch : Batches]
    BY Zenon DEF TypeOK, Same
  <2>4. index' \in Batches /\ proj' \in Gens /\ record' \in Batches
    BY Zenon DEF TypeOK, Same
  <2>5. /\ phase' \in [Requests -> {"first", "second", "owner", "after"}]
        /\ cand' \in [Requests -> Batches]
        /\ mine' \in [Requests -> Gens]
    BY Zenon DEF TypeOK, Same
  <2>6. /\ made' \subseteq Requests /\ expired' \subseteq made' /\ working' \subseteq made'
        /\ fence' \in [Requests -> [token : Gens, gen : Gens]]
        /\ fresh' \subseteq Requests
    BY Zenon DEF TypeOK, Same
  <2> QED BY Zenon, <2>1, <2>2, <2>3, <2>4, <2>5, <2>6 DEF TypeOK
<1>2. Results'
  BY Zenon DEF Results, ResultLive, Same
<1>3. ASSUME NEW s \in Requests PROVE Places(s)'
  BY <1>3 DEF TypeOK, Places, Owner, Same, Answer, Go
<1>4. ASSUME NEW s \in Requests PROVE Owner(s)'
  BY Zenon, <1>4 DEF TypeOK, Owner, Same, Answer, Go
<1>5. ASSUME NEW s \in Requests PROVE Told(s)'
  BY <1>5 DEF TypeOK, Results, Places, Told, ResultLive, Batches, Same, Answer,
     Existing
<1> QED BY Zenon, <1>1, <1>2, <1>3, <1>4, <1>5

LEMMA InspectKeeps ==
  ASSUME IdempotencyInv, NEW r \in Requests, Inspect(r)
  PROVE  IdempotencyInv'
<1> USE DEF IdempotencyInv, Good, Known, dbVars, ageVars, redisVars, localVars
<1>1. TypeOK'
  <2>1. pc' \in [Requests -> PCs]
    BY IdempotencyAssumption DEF TypeOK, PCs, Waiting, Inspect, Answer, Go
  <2>2. out' \in [Requests -> Answers]
    BY DEF TypeOK, Batches, Answers, Inspect, Answer
  <2>3. claim' \in [state : {"none", "active", "completed", "released"}, gen : Gens,
                    hash : Hashes, lease : {"live", "margin", "over"}, batch : Batches]
    BY Zenon DEF TypeOK, Inspect
  <2>4. index' \in Batches /\ proj' \in Gens /\ record' \in Batches
    BY Zenon DEF TypeOK, Inspect
  <2>5. /\ phase' \in [Requests -> {"first", "second", "owner", "after"}]
        /\ cand' \in [Requests -> Batches]
        /\ mine' \in [Requests -> Gens]
    BY Zenon DEF TypeOK, Inspect
  <2>6. /\ made' \subseteq Requests /\ expired' \subseteq made' /\ working' \subseteq made'
        /\ fence' \in [Requests -> [token : Gens, gen : Gens]]
        /\ fresh' \subseteq Requests
    BY Zenon DEF TypeOK, Inspect
  <2> QED BY Zenon, <2>1, <2>2, <2>3, <2>4, <2>5, <2>6 DEF TypeOK
<1>2. Results'
  BY Zenon DEF Results, ResultLive, Inspect
<1>3. ASSUME NEW s \in Requests PROVE Places(s)'
  BY <1>3 DEF TypeOK, Places, Inspect, Answer, Go
<1>4. ASSUME NEW s \in Requests PROVE Owner(s)'
  BY <1>4 DEF TypeOK, Owner, Inspect, Answer, Go
<1>5. ASSUME NEW s \in Requests PROVE Told(s)'
  <2>1. CASE s = r
    BY <2>1 DEF TypeOK, Places, Told, Inspect, Answer
  <2>2. CASE s # r
    BY <1>5, <2>2 DEF TypeOK, Told, ResultLive, Inspect, Answer
  <2> QED BY Zenon, <2>1, <2>2
<1> QED BY Zenon, <1>1, <1>2, <1>3, <1>4, <1>5

LEMMA WaitKeeps ==
  ASSUME IdempotencyInv, NEW r \in Requests, Wait(r)
  PROVE  IdempotencyInv'
<1> USE DEF IdempotencyInv, Good, Known, dbVars, ageVars, redisVars, localVars
<1>1. TypeOK'
  BY Zenon DEF TypeOK, Batches, PCs, Waiting, Wait, Go, Existing
<1>2. Results'
  BY Zenon DEF Results, ResultLive, Wait
<1>3. ASSUME NEW s \in Requests PROVE Places(s)'
  BY <1>3 DEF Places, Wait, Go
<1>4. ASSUME NEW s \in Requests PROVE Owner(s)'
  BY <1>4 DEF Owner, Wait, Go
<1>5. ASSUME NEW s \in Requests PROVE Told(s)'
  BY <1>5 DEF Told, ResultLive, Wait, Existing
<1> QED BY Zenon, <1>1, <1>2, <1>3, <1>4, <1>5

LEMMA WaitTimesOutKeeps ==
  ASSUME IdempotencyInv, NEW r \in Requests, WaitTimesOut(r)
  PROVE  IdempotencyInv'
<1> USE DEF IdempotencyInv, Good, Known, dbVars, ageVars, redisVars, localVars
<1>1. TypeOK'
  BY Zenon DEF TypeOK, Batches, Answers, PCs, WaitTimesOut, Answer, Go
<1>2. Results'
  BY Zenon DEF Results, ResultLive, WaitTimesOut
<1>3. ASSUME NEW s \in Requests PROVE Places(s)'
  BY Zenon, <1>3 DEF TypeOK, Places, WaitTimesOut, Answer, Go
<1>4. ASSUME NEW s \in Requests PROVE Owner(s)'
  BY <1>4 DEF Owner, WaitTimesOut, Answer, Go
<1>5. ASSUME NEW s \in Requests PROVE Told(s)'
  BY <1>5 DEF Places, Told, ResultLive, WaitTimesOut, Answer
<1> QED BY Zenon, <1>1, <1>2, <1>3, <1>4, <1>5

\* A reservation is given only for a claim no result depends on any more.
LEMMA ClaimKeeps ==
  ASSUME IdempotencyInv, NEW r \in Requests, Claim(r)
  PROVE  IdempotencyInv'
<1> USE DEF IdempotencyInv, Good, Known, dbVars, ageVars, redisVars, localVars
<1>1. TypeOK'
  <2>1. pc' \in [Requests -> PCs]
    BY DEF TypeOK, PCs, Waiting, Claim, NotClaimed, Go
  <2>2. out' \in [Requests -> Answers]
    BY DEF TypeOK, Batches, Answers, Claim, NotClaimed, Reclaimable
  <2>3. claim' \in [state : {"none", "active", "completed", "released"}, gen : Gens,
                    hash : Hashes, lease : {"live", "margin", "over"}, batch : Batches]
    BY IdempotencyAssumption DEF TypeOK, Batches, Gens, Hashes, Claim
  <2>4. index' \in Batches /\ proj' \in Gens /\ record' \in Batches
    BY Zenon DEF TypeOK, Batches, Claim
  <2>5. /\ phase' \in [Requests -> {"first", "second", "owner", "after"}]
        /\ cand' \in [Requests -> Batches]
    BY Zenon DEF TypeOK, Claim, NotClaimed
  <2>7. mine' \in [Requests -> Gens]
    <3>1. claim.gen < MaxGen => claim.gen + 1 \in Gens
      BY IdempotencyAssumption DEF TypeOK, Gens
    <3> QED BY Zenon, <3>1 DEF TypeOK, Claim
  <2>6. /\ made' \subseteq Requests /\ expired' \subseteq made' /\ working' \subseteq made'
        /\ fence' \in [Requests -> [token : Gens, gen : Gens]]
        /\ fresh' \subseteq Requests
    BY Zenon DEF TypeOK, Claim
  <2> QED BY Zenon, <2>1, <2>2, <2>3, <2>4, <2>5, <2>6, <2>7 DEF TypeOK
<1>2. Results'
  BY DEF TypeOK, Results, ResultLive, Gens, Claim, Reservable, Reclaimable
<1>3. ASSUME NEW s \in Requests PROVE Places(s)'
  BY <1>3 DEF TypeOK, Places, Claim, NotClaimed, Go
<1>4. ASSUME NEW s \in Requests PROVE Owner(s)'
  <2>1. CASE s = r
    BY <2>1 DEF TypeOK, Owner, Gens, Claim, NotClaimed, Go
  <2>2. CASE s # r
    BY <1>4, <2>2 DEF TypeOK, Places, Owner, ResultLive, Gens, Claim, NotClaimed, Go,
       Reservable, Reclaimable
  <2> QED BY Zenon, <2>1, <2>2
<1>5. ASSUME NEW s \in Requests PROVE Told(s)'
  <2>1. UNCHANGED <<made, expired, working, cand>>
    BY Zenon DEF Claim
  <2>2. \/ out'[s] = out[s]
        \/ s = r /\ out'[s] = [kind |-> "timeout", batch |-> NoBatch]
    BY Zenon DEF TypeOK, Claim, NotClaimed
  <2>3. r \notin made
    BY Zenon DEF Places, Claim
  <2> QED BY SMTT(20), <2>1, <2>2, <2>3, IdempotencyAssumption DEF Told, ResultLive
<1> QED BY Zenon, <1>1, <1>2, <1>3, <1>4, <1>5

LEMMA ProjectKeeps ==
  ASSUME IdempotencyInv, NEW r \in Requests, Project(r)
  PROVE  IdempotencyInv'
<1> USE DEF IdempotencyInv, Good, Known, dbVars, ageVars, redisVars, localVars
<1>1. TypeOK'
  <2>1. pc' \in [Requests -> PCs]
    BY DEF TypeOK, PCs, Waiting, Project, NotClaimed, Go
  <2>2. out' \in [Requests -> Answers]
    BY DEF TypeOK, Batches, Answers, Project, NotClaimed
  <2>3. claim' \in [state : {"none", "active", "completed", "released"}, gen : Gens,
                    hash : Hashes, lease : {"live", "margin", "over"}, batch : Batches]
    BY Zenon DEF TypeOK, Project
  <2>4. index' \in Batches /\ proj' \in Gens /\ record' \in Batches
    BY DEF TypeOK, Project
  <2>5. /\ phase' \in [Requests -> {"first", "second", "owner", "after"}]
        /\ cand' \in [Requests -> Batches]
        /\ mine' \in [Requests -> Gens]
    <3>1. 0 \in Gens
      BY IdempotencyAssumption DEF Gens
    <3>2. CASE proj > mine[r]
      BY Zenon, <3>1, <3>2 DEF TypeOK, Project, NotClaimed
    <3>3. CASE ~(proj > mine[r])
      BY Zenon, <3>3 DEF TypeOK, Project
    <3> QED BY Zenon, <3>2, <3>3
  <2>6. /\ made' \subseteq Requests /\ expired' \subseteq made' /\ working' \subseteq made'
        /\ fence' \in [Requests -> [token : Gens, gen : Gens]]
        /\ fresh' \subseteq Requests
    BY Zenon DEF TypeOK, Project
  <2> QED BY Zenon, <2>1, <2>2, <2>3, <2>4, <2>5, <2>6 DEF TypeOK
<1>2. Results'
  BY Zenon DEF Results, ResultLive, Project
<1>3. ASSUME NEW s \in Requests PROVE Places(s)'
  BY <1>3 DEF TypeOK, Places, Project, NotClaimed, Go
<1>4. ASSUME NEW s \in Requests PROVE Owner(s)'
  BY <1>4 DEF TypeOK, Places, Owner, Gens, Project, NotClaimed, Go
<1>5. ASSUME NEW s \in Requests PROVE Told(s)'
  BY <1>5 DEF TypeOK, Places, Told, ResultLive, Project, NotClaimed
<1> QED BY Zenon, <1>1, <1>2, <1>3, <1>4, <1>5

LEMMA CheckKeeps ==
  ASSUME IdempotencyInv, NEW r \in Requests, Check(r)
  PROVE  IdempotencyInv'
<1> USE DEF IdempotencyInv, Good, Known, dbVars, ageVars, redisVars, localVars
<1>1. TypeOK'
  <2>1. pc' \in [Requests -> PCs]
    BY DEF TypeOK, PCs, Waiting, Check, CheckThen, Answer, Go
  <2>2. out' \in [Requests -> Answers]
    BY DEF TypeOK, Batches, Answers, Check, CheckThen, Answer
  <2>3. claim' \in [state : {"none", "active", "completed", "released"}, gen : Gens,
                    hash : Hashes, lease : {"live", "margin", "over"}, batch : Batches]
    BY Zenon DEF TypeOK, Check, CheckThen, Renewed
  <2>4. index' \in Batches /\ proj' \in Gens /\ record' \in Batches
    BY DEF TypeOK, Check, CheckThen, Renewed
  <2>5. /\ phase' \in [Requests -> {"first", "second", "owner", "after"}]
        /\ cand' \in [Requests -> Batches]
        /\ mine' \in [Requests -> Gens]
    BY Zenon DEF TypeOK, Check
  <2>6. /\ made' \subseteq Requests /\ expired' \subseteq made' /\ working' \subseteq made'
        /\ fence' \in [Requests -> [token : Gens, gen : Gens]]
        /\ fresh' \subseteq Requests
    BY DEF TypeOK, Check, CheckThen, Renewed
  <2> QED BY Zenon, <2>1, <2>2, <2>3, <2>4, <2>5, <2>6 DEF TypeOK
<1>2. Results'
  BY Zenon DEF TypeOK, Results, ResultLive, Check, CheckThen, Renewed
<1>3. ASSUME NEW s \in Requests PROVE Places(s)'
  BY <1>3 DEF TypeOK, Places, Check, CheckThen, Owns, Renewed, Answer, Go
<1>4. ASSUME NEW s \in Requests PROVE Owner(s)'
  <2>1. CASE s = r
    BY <2>1, IdempotencyAssumption DEF TypeOK, Results, Owner, Check, CheckThen, Owns,
       Renewed, Renewable, Answer, Go
  <2>2. CASE s # r
    <3>1. /\ claim'.gen = claim.gen /\ claim'.state = claim.state /\ claim'.batch = claim.batch
          /\ claim'.lease \in {claim.lease, "live"}
      BY Zenon DEF TypeOK, Check, CheckThen, Renewed
    <3>2. /\ pc'[s] = pc[s] /\ (s \in fresh' => s \in fresh)
          /\ UNCHANGED <<mine, fence, made>>
      BY <2>2 DEF TypeOK, Check, CheckThen, Renewed, Answer, Go
    <3> QED
      BY Zenon, <3>1, <3>2 DEF Owner
  <2> QED BY Zenon, <2>1, <2>2
<1>5. ASSUME NEW s \in Requests PROVE Told(s)'
  BY SMTT(20), <1>5, IdempotencyAssumption DEF TypeOK, Results, Told, ResultLive, Check,
     CheckThen, Answer
<1> QED BY Zenon, <1>1, <1>2, <1>3, <1>4, <1>5

\* The fence a save will present is the reservation the request holds.
LEMMA FenceKeeps ==
  ASSUME IdempotencyInv, NEW r \in Requests, Fence(r)
  PROVE  IdempotencyInv'
<1> USE DEF IdempotencyInv, Good, Known, dbVars, ageVars, redisVars, localVars
<1>1. TypeOK'
  BY IdempotencyAssumption DEF TypeOK, Gens, PCs, Waiting, Fence, Go
<1>2. Results'
  BY Zenon DEF Results, ResultLive, Fence
<1>3. ASSUME NEW s \in Requests PROVE Places(s)'
  BY <1>3 DEF Places, Fence, Go
<1>4. ASSUME NEW s \in Requests PROVE Owner(s)'
  BY <1>4 DEF TypeOK, Owner, Gens, Fence, Go
<1>5. ASSUME NEW s \in Requests PROVE Told(s)'
  BY Zenon, <1>5 DEF Told, ResultLive, Fence
<1> QED BY Zenon, <1>1, <1>2, <1>3, <1>4, <1>5

LEMMA WorkKeeps ==
  ASSUME IdempotencyInv, NEW r \in Requests, Work(r)
  PROVE  IdempotencyInv'
<1> USE DEF IdempotencyInv, Good, Known, dbVars, ageVars, redisVars, localVars
<1>1. TypeOK'
  <2>1. pc' \in [Requests -> PCs]
    BY Zenon DEF TypeOK, PCs, Work, CheckThen, Answer, Go
  <2>2. out' \in [Requests -> Answers]
    BY DEF TypeOK, Batches, Answers, Work, CheckThen, Answer
  <2>3. claim' \in [state : {"none", "active", "completed", "released"}, gen : Gens,
                    hash : Hashes, lease : {"live", "margin", "over"}, batch : Batches]
    <3>1. claim' = claim \/ claim' = [claim EXCEPT !.lease = "live"]
      BY Zenon DEF Work, CheckThen, Renewed
    <3> QED BY Zenon, <3>1 DEF TypeOK
  <2>4. index' \in Batches /\ proj' \in Gens /\ record' \in Batches
    BY DEF TypeOK, Work, CheckThen, Renewed
  <2>5. /\ phase' \in [Requests -> {"first", "second", "owner", "after"}]
        /\ cand' \in [Requests -> Batches]
        /\ mine' \in [Requests -> Gens]
    BY Zenon DEF TypeOK, Work
  <2>6. /\ made' \subseteq Requests /\ expired' \subseteq made' /\ working' \subseteq made'
        /\ fence' \in [Requests -> [token : Gens, gen : Gens]]
        /\ fresh' \subseteq Requests
    BY DEF TypeOK, Work, CheckThen, Renewed
  <2> QED BY Zenon, <2>1, <2>2, <2>3, <2>4, <2>5, <2>6 DEF TypeOK
<1>2. Results'
  BY Zenon DEF TypeOK, Results, ResultLive, Work, CheckThen, Renewed
<1>3. ASSUME NEW s \in Requests PROVE Places(s)'
  BY <1>3 DEF TypeOK, Places, Work, CheckThen, Owns, Renewed, Answer, Go
<1>4. ASSUME NEW s \in Requests PROVE Owner(s)'
  <2>1. CASE s = r
    BY <2>1, IdempotencyAssumption DEF TypeOK, Results, Places, Owner, Gens, Work,
       CheckThen, Owns, Renewed, Renewable, Answer, Go
  <2>2. CASE s # r
    <3>1. /\ claim'.gen = claim.gen /\ claim'.state = claim.state /\ claim'.batch = claim.batch
          /\ claim'.lease \in {claim.lease, "live"}
      BY Zenon DEF TypeOK, Work, CheckThen, Renewed
    <3>2. /\ pc'[s] = pc[s] /\ (s \in fresh' => s \in fresh)
          /\ UNCHANGED <<mine, fence, made>>
      BY <2>2 DEF TypeOK, Work, CheckThen, Renewed, Answer, Go
    <3> QED
      BY Zenon, <3>1, <3>2 DEF Owner
  <2> QED BY Zenon, <2>1, <2>2
<1>5. ASSUME NEW s \in Requests PROVE Told(s)'
  BY <1>5 DEF TypeOK, Results, Told, ResultLive, Work, CheckThen, Answer
<1> QED BY Zenon, <1>1, <1>2, <1>3, <1>4, <1>5

\* A save that passes finds its own reservation in the row: no other result of
\* the key counts, and from here on the completed claim guards this one.
LEMMA SaveCommitsKeeps ==
  ASSUME IdempotencyInv, NEW r \in Requests, SaveCommits(r)
  PROVE  IdempotencyInv'
<1> USE DEF IdempotencyInv, Good, Known, dbVars, ageVars, redisVars, localVars
<1>1. TypeOK'
  <2>1. pc' \in [Requests -> PCs]
    BY DEF TypeOK, PCs, SaveCommits, Answer, Go
  <2>2. out' \in [Requests -> Answers]
    BY DEF TypeOK, Batches, Answers, SaveCommits, Answer
  <2>3. claim' \in [state : {"none", "active", "completed", "released"}, gen : Gens,
                    hash : Hashes, lease : {"live", "margin", "over"}, batch : Batches]
    BY Zenon, IdempotencyAssumption
      DEF TypeOK, Batches, Gens, Hashes, SaveCommits, SaveFenced,
       ClaimLive, Answer, Go
  <2>4. index' \in Batches /\ proj' \in Gens /\ record' \in Batches
    BY Zenon DEF TypeOK, Batches, SaveCommits
  <2>5. /\ phase' \in [Requests -> {"first", "second", "owner", "after"}]
        /\ cand' \in [Requests -> Batches]
        /\ mine' \in [Requests -> Gens]
    BY Zenon DEF TypeOK, SaveCommits
  <2>6. /\ made' \subseteq Requests /\ expired' \subseteq made' /\ working' \subseteq made'
        /\ fence' \in [Requests -> [token : Gens, gen : Gens]]
        /\ fresh' \subseteq Requests
    BY Zenon DEF TypeOK, SaveCommits
  <2> QED BY Zenon, <2>1, <2>2, <2>3, <2>4, <2>5, <2>6 DEF TypeOK
<1>2. Results'
  BY DEF Results, ResultLive, SaveCommits, SaveFenced, ClaimLive
<1>3. ASSUME NEW s \in Requests PROVE Places(s)'
  BY <1>3 DEF TypeOK, Places, Owner, SaveCommits, Answer, Go
<1>4. ASSUME NEW s \in Requests PROVE Owner(s)'
  <2>1. CASE s = r
    BY Zenon, <2>1 DEF TypeOK, Owner, SaveCommits, Answer, Go
  <2>2. CASE s # r
    <3>1. s \notin fresh
      BY Zenon, <2>2, IdempotencyAssumption
        DEF TypeOK, Places, Owner, SaveCommits, SaveFenced,
         Gens
    <3> QED
      BY Zenon, <2>2, <3>1 DEF TypeOK, Owner, SaveCommits, Answer, Go
  <2> QED BY Zenon, <2>1, <2>2
<1>5. ASSUME NEW s \in Requests PROVE Told(s)'
  BY <1>5, IdempotencyAssumption DEF TypeOK, Places, Told, ResultLive, SaveCommits,
     Answer
<1> QED BY Zenon, <1>1, <1>2, <1>3, <1>4, <1>5

LEMMA SaveFailsKeeps ==
  ASSUME IdempotencyInv, NEW r \in Requests, SaveFails(r)
  PROVE  IdempotencyInv'
<1> USE DEF IdempotencyInv, Good, Known, dbVars, ageVars, redisVars, localVars
<1>1. TypeOK'
  BY Zenon DEF TypeOK, PCs, SaveFails, Go
<1>2. Results'
  BY Zenon DEF Results, ResultLive, SaveFails
<1>3. ASSUME NEW s \in Requests PROVE Places(s)'
  BY <1>3 DEF Places, SaveFails, Go
<1>4. ASSUME NEW s \in Requests PROVE Owner(s)'
  BY SMTT(20), <1>4 DEF Owner, SaveFails, Go
<1>5. ASSUME NEW s \in Requests PROVE Told(s)'
  BY Zenon, <1>5 DEF Told, ResultLive, SaveFails
<1> QED BY Zenon, <1>1, <1>2, <1>3, <1>4, <1>5

\* After an unconfirmed commit the caller is told what the tables say.
LEMMA ResolveKeeps ==
  ASSUME IdempotencyInv, NEW r \in Requests, Resolve(r)
  PROVE  IdempotencyInv'
<1> USE DEF IdempotencyInv, Good, Known, dbVars, ageVars, redisVars, localVars
<1>1. TypeOK'
  <2>1. pc' \in [Requests -> PCs]
    BY DEF TypeOK, PCs, Waiting, Resolve, Answer, Go
  <2>2. out' \in [Requests -> Answers]
    BY DEF TypeOK, Batches, Answers, Resolve, Answer
  <2>3. claim' \in [state : {"none", "active", "completed", "released"}, gen : Gens,
                    hash : Hashes, lease : {"live", "margin", "over"}, batch : Batches]
    BY Zenon DEF TypeOK, Resolve
  <2>4. index' \in Batches /\ proj' \in Gens /\ record' \in Batches
    BY Zenon DEF TypeOK, Resolve
  <2>5. /\ phase' \in [Requests -> {"first", "second", "owner", "after"}]
        /\ cand' \in [Requests -> Batches]
        /\ mine' \in [Requests -> Gens]
    BY Zenon DEF TypeOK, Resolve
  <2>6. /\ made' \subseteq Requests /\ expired' \subseteq made' /\ working' \subseteq made'
        /\ fence' \in [Requests -> [token : Gens, gen : Gens]]
        /\ fresh' \subseteq Requests
    BY Zenon DEF TypeOK, Resolve
  <2> QED BY Zenon, <2>1, <2>2, <2>3, <2>4, <2>5, <2>6 DEF TypeOK
<1>2. Results'
  BY Zenon DEF Results, ResultLive, Resolve
<1>3. ASSUME NEW s \in Requests PROVE Places(s)'
  BY <1>3 DEF TypeOK, Places, Owner, Resolve, Answer, Go
<1>4. ASSUME NEW s \in Requests PROVE Owner(s)'
  <2>1. UNCHANGED <<claim, mine, fresh, fence, made>> /\ Owner(s)
    BY Zenon, <1>4 DEF Resolve, dbVars, ageVars, redisVars
  <2>2. pc'[s] = pc[s] \/ pc'[s] \notin {"work", "save"}
    BY <1>4 DEF TypeOK, Resolve, Answer, Go
  <2> QED BY Zenon, <1>4, <2>1, <2>2 DEF Owner
<1>5. ASSUME NEW s \in Requests PROVE Told(s)'
  <2>1. CASE s = r
    <3>1. \/ UNCHANGED out
          \/ r \in made /\ out'[r] = [kind |-> "answer", batch |-> r]
          \/ out'[r] \in [kind : {"conflict", "unknown"}, batch : {NoBatch}]
      BY SMTT(20) DEF TypeOK, Resolve, Answer
    <3> QED BY SMTT(20), <2>1, <3>1 DEF Told, ResultLive, Resolve
  <2>2. CASE s # r
    BY <2>2 DEF TypeOK, Told, ResultLive, Resolve, Answer
  <2> QED BY Zenon, <2>1, <2>2
<1> QED BY Zenon, <1>1, <1>2, <1>3, <1>4, <1>5

LEMMA FinishKeeps ==
  ASSUME IdempotencyInv, NEW r \in Requests, Finish(r)
  PROVE  IdempotencyInv'
<1> USE DEF IdempotencyInv, Good, Known, dbVars, ageVars, redisVars, localVars
<1>1. TypeOK'
  <2>1. pc' \in [Requests -> PCs]
    BY DEF TypeOK, PCs, Finish, Answer, Go
  <2>2. out' \in [Requests -> Answers]
    BY DEF TypeOK, Batches, Answers, Finish, Answer
  <2>3. claim' \in [state : {"none", "active", "completed", "released"}, gen : Gens,
                    hash : Hashes, lease : {"live", "margin", "over"}, batch : Batches]
    BY Zenon DEF TypeOK, Finish
  <2>4. index' \in Batches /\ proj' \in Gens /\ record' \in Batches
    BY Zenon DEF TypeOK, Batches, Finish
  <2>5. /\ phase' \in [Requests -> {"first", "second", "owner", "after"}]
        /\ cand' \in [Requests -> Batches]
        /\ mine' \in [Requests -> Gens]
    BY Zenon DEF TypeOK, Finish
  <2>6. /\ made' \subseteq Requests /\ expired' \subseteq made' /\ working' \subseteq made'
        /\ fence' \in [Requests -> [token : Gens, gen : Gens]]
        /\ fresh' \subseteq Requests
    BY Zenon DEF TypeOK, Finish
  <2> QED BY Zenon, <2>1, <2>2, <2>3, <2>4, <2>5, <2>6 DEF TypeOK
<1>2. Results'
  BY Zenon DEF Results, Places, ResultLive, Finish
<1>3. ASSUME NEW s \in Requests PROVE Places(s)'
  BY <1>3 DEF TypeOK, Places, Owner, Finish, Answer, Go
<1>4. ASSUME NEW s \in Requests PROVE Owner(s)'
  BY Zenon, <1>4 DEF TypeOK, Owner, Finish, Answer, Go
<1>5. ASSUME NEW s \in Requests PROVE Told(s)'
  <2>1. CASE s = r
    BY <2>1 DEF TypeOK, Places, Told, Finish, Answer
  <2>2. CASE s # r
    BY <1>5, <2>2 DEF TypeOK, Told, ResultLive, Finish, Answer
  <2> QED BY Zenon, <2>1, <2>2
<1> QED BY Zenon, <1>1, <1>2, <1>3, <1>4, <1>5

LEMMA CleanupKeeps ==
  ASSUME IdempotencyInv, NEW r \in Requests, Cleanup(r)
  PROVE  IdempotencyInv'
<1> USE DEF IdempotencyInv, Good, Known, dbVars, ageVars, redisVars, localVars
<1>1. TypeOK'
  <2>1. pc' \in [Requests -> PCs]
    BY Zenon DEF TypeOK, PCs, Cleanup, Go
  <2>2. out' \in [Requests -> Answers]
    BY Zenon DEF TypeOK, Cleanup
  <2>3. claim' \in [state : {"none", "active", "completed", "released"}, gen : Gens,
                    hash : Hashes, lease : {"live", "margin", "over"}, batch : Batches]
    BY IdempotencyAssumption DEF TypeOK, Batches, Cleanup, Go
  <2>4. index' \in Batches /\ proj' \in Gens /\ record' \in Batches
    BY IdempotencyAssumption DEF TypeOK, Gens, Cleanup
  <2>5. /\ phase' \in [Requests -> {"first", "second", "owner", "after"}]
        /\ cand' \in [Requests -> Batches]
        /\ mine' \in [Requests -> Gens]
    BY Zenon DEF TypeOK, Cleanup
  <2>6. /\ made' \subseteq Requests /\ expired' \subseteq made' /\ working' \subseteq made'
        /\ fence' \in [Requests -> [token : Gens, gen : Gens]]
        /\ fresh' \subseteq Requests
    BY Zenon DEF TypeOK, Cleanup
  <2> QED BY Zenon, <2>1, <2>2, <2>3, <2>4, <2>5, <2>6 DEF TypeOK
<1>2. Results'
  BY Zenon DEF TypeOK, Results, ResultLive, Cleanup
<1>3. ASSUME NEW s \in Requests PROVE Places(s)'
  BY <1>3 DEF Places, Cleanup, Go
<1>4. ASSUME NEW s \in Requests PROVE Owner(s)'
  <2>1. /\ claim'.gen = claim.gen
        /\ s \in fresh' => claim' = claim /\ s \in fresh
    BY DEF TypeOK, Owner, Cleanup
  <2>2. pc'[s] \in {"done", pc[s]} /\ UNCHANGED <<mine, fence, made>>
    BY DEF Cleanup, Go
  <2> QED BY Zenon, <2>1, <2>2 DEF Owner
<1>5. ASSUME NEW s \in Requests PROVE Told(s)'
  BY Zenon, <1>5 DEF Told, ResultLive, Cleanup
<1> QED BY Zenon, <1>1, <1>2, <1>3, <1>4, <1>5

LEMMA HeartbeatKeeps ==
  ASSUME IdempotencyInv, NEW r \in Requests, Heartbeat(r)
  PROVE  IdempotencyInv'
<1> USE DEF IdempotencyInv, Good, Known, dbVars, ageVars, redisVars, localVars
<1>1. TypeOK'
  BY DEF TypeOK, Heartbeat, Renewed
<1>2. Results'
  BY Zenon DEF TypeOK, Results, ResultLive, Heartbeat, Renewed
<1>3. ASSUME NEW s \in Requests PROVE Places(s)'
  BY Zenon, <1>3 DEF Places, Waiting, Heartbeat, Renewed
<1>4. ASSUME NEW s \in Requests PROVE Owner(s)'
  BY <1>4 DEF TypeOK, Results, Owner, Heartbeat, Renewed, Renewable
<1>5. ASSUME NEW s \in Requests PROVE Told(s)'
  BY Zenon, <1>5 DEF Told, ResultLive, Heartbeat
<1> QED BY Zenon, <1>1, <1>2, <1>3, <1>4, <1>5

LEMMA AbortKeeps ==
  ASSUME IdempotencyInv, NEW r \in Requests, Abort(r)
  PROVE  IdempotencyInv'
<1> USE DEF IdempotencyInv, Good, Known, dbVars, ageVars, redisVars, localVars
<1>1. TypeOK'
  BY Zenon DEF TypeOK, Batches, Answers, PCs, Abort, Go
<1>2. Results'
  BY Zenon DEF Results, ResultLive, Abort
<1>3. ASSUME NEW s \in Requests PROVE Places(s)'
  BY <1>3 DEF TypeOK, Places, Waiting, Abort, Go
<1>4. ASSUME NEW s \in Requests PROVE Owner(s)'
  <2>1. UNCHANGED <<claim, made, mine, fence, fresh>>
    BY Zenon DEF Abort
  <2>2. pc'[s] \in {pc[s], "cleanup", "done"}
    BY Zenon DEF TypeOK, Abort, Go
  <2> QED BY Zenon, <2>1, <2>2 DEF Owner
<1>5. ASSUME NEW s \in Requests PROVE Told(s)'
  BY SMTT(20), <1>5 DEF Places, Told, ResultLive, Waiting, Abort
<1> QED BY Zenon, <1>1, <1>2, <1>3, <1>4, <1>5

\* A process dies between any two steps and leaves tables and caches alone.
LEMMA CrashKeeps ==
  ASSUME IdempotencyInv, NEW r \in Requests, Crash(r)
  PROVE  IdempotencyInv'
<1> USE DEF IdempotencyInv, Good, Known, dbVars, ageVars, redisVars, localVars
<1>1. TypeOK'
  BY Zenon DEF TypeOK, PCs, Crash, Go
<1>2. Results'
  BY Zenon DEF Results, ResultLive, Crash
<1>3. ASSUME NEW s \in Requests PROVE Places(s)'
  BY <1>3 DEF Places, Crash, Go
<1>4. ASSUME NEW s \in Requests PROVE Owner(s)'
  BY SMTT(20), <1>4 DEF Owner, Crash, Go
<1>5. ASSUME NEW s \in Requests PROVE Told(s)'
  BY Zenon, <1>5 DEF Told, ResultLive, Crash
<1> QED BY Zenon, <1>1, <1>2, <1>3, <1>4, <1>5

LEMMA CacheEndsKeeps ==
  ASSUME IdempotencyInv, NEW r \in Requests, CacheEnds(r)
  PROVE  IdempotencyInv'
<1> USE DEF IdempotencyInv, Good, Known, dbVars, ageVars, redisVars, localVars
<1>1. TypeOK'
  BY Zenon DEF TypeOK, CacheEnds
<1>2. Results'
  BY Zenon DEF Results, ResultLive, CacheEnds
<1>3. ASSUME NEW s \in Requests PROVE Places(s)'
  BY Zenon, <1>3 DEF Places, CacheEnds
<1>4. ASSUME NEW s \in Requests PROVE Owner(s)'
  BY Zenon, <1>4 DEF Owner, CacheEnds
<1>5. ASSUME NEW s \in Requests PROVE Told(s)'
  BY Zenon, <1>5 DEF Told, ResultLive, CacheEnds
<1> QED BY Zenon, <1>1, <1>2, <1>3, <1>4, <1>5

LEMMA LeaseRunsKeeps ==
  ASSUME IdempotencyInv, LeaseRuns
  PROVE  IdempotencyInv'
<1> USE DEF IdempotencyInv, Good, Known, dbVars, ageVars, redisVars, localVars
<1>1. TypeOK'
  BY Zenon DEF TypeOK, Gens, LeaseRuns
<1>2. Results'
  BY DEF Results, ResultLive, LeaseRuns
<1>3. ASSUME NEW s \in Requests PROVE Places(s)'
  BY Zenon, <1>3 DEF Places, LeaseRuns
<1>4. ASSUME NEW s \in Requests PROVE Owner(s)'
  BY <1>4 DEF Owner, LeaseRuns
<1>5. ASSUME NEW s \in Requests PROVE Told(s)'
  BY Zenon, <1>5 DEF Told, ResultLive, LeaseRuns
<1> QED BY Zenon, <1>1, <1>2, <1>3, <1>4, <1>5

LEMMA ResultExpiresKeeps ==
  ASSUME IdempotencyInv, ResultExpires
  PROVE  IdempotencyInv'
<1> USE DEF IdempotencyInv, Good, Known, dbVars, ageVars, redisVars, localVars
<1>1. TypeOK'
  BY Zenon DEF TypeOK, ResultExpires
<1>2. Results'
  BY Zenon DEF Results, ResultLive, ResultExpires
<1>3. ASSUME NEW s \in Requests PROVE Places(s)'
  BY Zenon, <1>3 DEF Places, ResultExpires
<1>4. ASSUME NEW s \in Requests PROVE Owner(s)'
  BY Zenon, <1>4 DEF Owner, ResultExpires
<1>5. ASSUME NEW s \in Requests PROVE Told(s)'
  BY Zenon, <1>5 DEF Told, ResultLive, ResultExpires
<1> QED BY Zenon, <1>1, <1>2, <1>3, <1>4, <1>5

LEMMA WorkEndsKeeps ==
  ASSUME IdempotencyInv, WorkEnds
  PROVE  IdempotencyInv'
<1> USE DEF IdempotencyInv, Good, Known, dbVars, ageVars, redisVars, localVars
<1>1. TypeOK'
  BY Zenon DEF TypeOK, WorkEnds
<1>2. Results'
  BY Zenon DEF Results, ResultLive, WorkEnds
<1>3. ASSUME NEW s \in Requests PROVE Places(s)'
  BY Zenon, <1>3 DEF Places, WorkEnds
<1>4. ASSUME NEW s \in Requests PROVE Owner(s)'
  BY Zenon, <1>4 DEF Owner, WorkEnds
<1>5. ASSUME NEW s \in Requests PROVE Told(s)'
  BY Zenon, <1>5 DEF Told, ResultLive, WorkEnds
<1> QED BY Zenon, <1>1, <1>2, <1>3, <1>4, <1>5

\* The control Redis loses its keys: only the caches go.
LEMMA RedisLosesKeeps ==
  ASSUME IdempotencyInv, RedisLoses
  PROVE  IdempotencyInv'
<1> USE DEF IdempotencyInv, Good, Known, dbVars, ageVars, redisVars, localVars
<1>1. TypeOK'
  BY SMTT(20), IdempotencyAssumption DEF TypeOK, Batches, Gens, RedisLoses
<1>2. Results'
  BY Zenon DEF Results, ResultLive, RedisLoses
<1>3. ASSUME NEW s \in Requests PROVE Places(s)'
  BY Zenon, <1>3 DEF Places, RedisLoses
<1>4. ASSUME NEW s \in Requests PROVE Owner(s)'
  BY Zenon, <1>4 DEF Owner, RedisLoses
<1>5. ASSUME NEW s \in Requests PROVE Told(s)'
  BY Zenon, <1>5 DEF Told, ResultLive, RedisLoses
<1> QED BY Zenon, <1>1, <1>2, <1>3, <1>4, <1>5

LEMMA HousekeepingKeeps ==
  ASSUME IdempotencyInv, Housekeeping
  PROVE  IdempotencyInv'
<1> USE DEF IdempotencyInv, Good, Known, dbVars, ageVars, redisVars, localVars
<1>1. TypeOK'
  BY Zenon DEF TypeOK, Batches, Housekeeping
<1>2. Results'
  BY Zenon DEF Results, ResultLive, Housekeeping
<1>3. ASSUME NEW s \in Requests PROVE Places(s)'
  BY Zenon, <1>3 DEF Places, Housekeeping
<1>4. ASSUME NEW s \in Requests PROVE Owner(s)'
  BY Zenon, <1>4 DEF Owner, Housekeeping
<1>5. ASSUME NEW s \in Requests PROVE Told(s)'
  BY Zenon, <1>5 DEF Told, ResultLive, Housekeeping
<1> QED BY Zenon, <1>1, <1>2, <1>3, <1>4, <1>5

-----------------------------------------------------------------------------
\* Every state of the protocol satisfies the invariant, whatever the number of
\* requests and generations (SendPipeline.accept, IdempotencyCoordinator).
THEOREM IdempotencyInvariance == Spec => []IdempotencyInv
<1>1. Init => IdempotencyInv
  BY SMTT(20), IdempotencyAssumption
    DEF Init, IdempotencyInv, TypeOK, Results, Good, Places, Owner,
     Told, Known, Batches, Gens, Hashes, Answers, PCs, Waiting, ResultLive
<1>2. IdempotencyInv /\ [Next]_vars => IdempotencyInv'
  <2> SUFFICES ASSUME IdempotencyInv, [Next]_vars PROVE IdempotencyInv'
    OBVIOUS
  <2>1. ASSUME NEW r \in Requests, Request(r) PROVE IdempotencyInv'
    BY Zenon, <2>1, LookupKeeps, VerifyKeeps, DropKeeps, FindKeeps, RememberKeeps,
        SameKeeps,
       InspectKeeps, WaitKeeps, WaitTimesOutKeeps, ClaimKeeps, ProjectKeeps,
       CheckKeeps, FenceKeeps, WorkKeeps, SaveCommitsKeeps, SaveFailsKeeps,
       ResolveKeeps, FinishKeeps, CleanupKeeps DEF Request
  <2>2. ASSUME NEW r \in Requests, Heartbeat(r) \/ Abort(r) \/ Crash(r) \/ CacheEnds(r)
        PROVE  IdempotencyInv'
    BY Zenon, <2>2, HeartbeatKeeps, AbortKeeps, CrashKeeps, CacheEndsKeeps
  <2>3. ASSUME Environment PROVE IdempotencyInv'
    BY Zenon, <2>3, LeaseRunsKeeps, ResultExpiresKeeps, WorkEndsKeeps, RedisLosesKeeps,
       HousekeepingKeeps DEF Environment
  <2>4. CASE UNCHANGED vars
    <3>1. TypeOK' /\ Results'
      BY Zenon, <2>4 DEF vars, IdempotencyInv, TypeOK, Results, Known, ResultLive
    <3>2. ASSUME NEW r \in Requests PROVE Places(r)' /\ Owner(r)' /\ Told(r)'
      BY Zenon, <2>4 DEF vars, IdempotencyInv, Good, Places, Owner, Told, Known, ResultLive
    <3> QED BY Zenon, <3>1, <3>2 DEF IdempotencyInv, Good
  <2> QED BY Zenon, <2>1, <2>2, <2>3, <2>4 DEF Next
<1> QED BY <1>1, <1>2, PTL DEF Spec

\* At most one result counts at a time and the record names it, for any number
\* of concurrent requests (reserve_idempotency_claim, the fenced save,
\* reclaim_completed_result, _cleanup_idempotency_page).
THEOREM OneResult == Spec => []OneCurrentResult
<1>1. IdempotencyInv => OneCurrentResult
  BY Zenon DEF IdempotencyInv, Results, OneCurrentResult
<1> QED BY <1>1, IdempotencyInvariance, PTL

\* Nobody is told that nothing was accepted when its batch was, and no current
\* result is given to a request with another fingerprint (_ensure_same_request,
\* resolve_ambiguous_acceptance_commit).
THEOREM TrueAnswers == Spec => []AnswersAreTrue
<1>1. IdempotencyInv => AnswersAreTrue
  BY Zenon DEF IdempotencyInv, Good, Told, AnswersAreTrue
<1> QED BY <1>1, IdempotencyInvariance, PTL

\* A batch is committed only under the reservation of the request that saves
\* it, although the fence is read from the row (accept).
THEOREM OwnersCommit == Spec => OnlyOwnerCommits
<1>1. IdempotencyInv /\ [Next]_vars => [\A r \in Requests : r \in made' \ made => mine[r] = claim.gen]_vars
  <2> SUFFICES ASSUME IdempotencyInv, Next, NEW r \in Requests, r \in made' \ made
               PROVE  mine[r] = claim.gen
    BY Zenon DEF vars
  <2>1. ASSUME NEW q \in Requests, Request(q) PROVE SaveCommits(q) \/ UNCHANGED made
    BY Zenon, <2>1 DEF Request, Lookup, Verify, Drop, Find, Remember, Same, Inspect, Wait,
       WaitTimesOut, Claim, Project, Check, Fence, Work, SaveFails, Resolve, Finish,
       Cleanup, dbVars
  <2>2. ASSUME NEW q \in Requests, Heartbeat(q) \/ Abort(q) \/ Crash(q) \/ CacheEnds(q)
        PROVE  UNCHANGED made
    BY Zenon, <2>2 DEF Heartbeat, Abort, Crash, CacheEnds, dbVars
  <2>3. ASSUME Environment PROVE UNCHANGED made
    BY Zenon, <2>3 DEF Environment, LeaseRuns, ResultExpires, WorkEnds, RedisLoses,
       Housekeeping, dbVars
  <2>4. SaveCommits(r)
    BY Zenon, <2>1, <2>2, <2>3 DEF Next, SaveCommits
  <2> QED BY Zenon, <2>4 DEF IdempotencyInv, Good, Owner, SaveCommits, SaveFenced
<1> QED BY <1>1, IdempotencyInvariance, PTL DEF Spec, OnlyOwnerCommits

----------------------------------------------------------------------------
(* The recovery of a host *)

----------------------------------------------------------------------------
(* The inductive invariant *)

BaseStates == {None, "staged", "prepared", "activating", "succeeded", "rolled_back", "failed",
               "recovery_required"}

BootPcs == {"boot", "boot_run", "boot_seal", "boot_done", "boot_contain", "boot_failed"}
StartPcs == {"start_stop", "start_data", "start_check"}
StagePcs == {"up", "after"}
EndPcs == {"end_release", "baseline", "gate"}
FailPcs == {"contain", "fail_store", "fail_record"}
Pcs == {"idle", "fence", "observe", "observe_record", "adopt", "adopt_record", "seal", "verify", "unfence"}
         \cup BootPcs \cup StartPcs \cup StagePcs \cup EndPcs \cup FailPcs

Early == {"validated", "data_starting", "data_started", "observed"}

\* The phases of a recovery that starts stages, with the stages it has recorded
\* and the next one.
Recorded == [adopted |-> {}, api_started |-> {"api"}, callback_started |-> {"api", "callback"},
             workers_started |-> {"api", "callback", "workers"},
             outbox_started |-> {"api", "callback", "workers", "outbox"},
             beat_started |-> {"api", "callback", "workers", "outbox", "beat"}]
Following == [adopted |-> "api", api_started |-> "callback", callback_started |-> "workers",
              workers_started |-> "outbox", outbox_started |-> "beat", beat_started |-> "web"]
Open == {"adopted", "api_started", "callback_started", "workers_started", "outbox_started",
         "beat_started"}

\* What may be up while a recovery is open.
Reach == IF rec.phase \in Open THEN Recorded[rec.phase] \cup {Following[rec.phase]} ELSE {}

BootType == [status : {None, "running", "succeeded", "failed"},
             phase : {None, "freezing_bundle", "validated", "env_configured", "seal_release",
                      "complete", "contained", "containment_failed", "recovery_adopted",
                      "compose_config", "data_services", "migration", "application_services"}]
RecType == [status : {None, "running", "succeeded", "failed", "recovery_required"},
            phase : {None, "failed", "succeeded"} \cup Early \cup Open,
            fp : Seq(Nat), wm : Seq(Nat), uncontained : BOOLEAN]
BaseType == [state : BaseStates, signed : BOOLEAN]
HostType == [data : {"down", "sick", "up"}, up : SUBSET Consumers]
DbType == [rows : 0..MaxWrites, work : 0..MaxWrites, busy : BOOLEAN]
ToolType == [pc : Pcs, stage : Consumers, fin : BOOLEAN, seen : BaseStates, read : Seq(Nat),
             bad : BOOLEAN, store : BOOLEAN]

Types ==
  /\ boot \in BootType /\ rec \in RecType /\ base \in BaseType
  /\ host \in HostType /\ db \in DbType /\ tool \in ToolType
  /\ faults \in 0..MaxFaults

\* What the files say of each other.
FilesAgree ==
  /\ rec.status = "running" => rec.phase \in Early \cup Open /\ boot.status = None
  /\ rec.status = "succeeded" => rec.phase = "succeeded"
  /\ rec.status # None => boot.status \in {None, "succeeded"}

\* What a running command relies on.
InPlace ==
  /\ tool.pc \in BootPcs => boot.status = "running" /\ rec.status = None
  /\ tool.pc = "fence" => /\ boot.status = None
                          /\ rec.status # None => rec.status = "running" /\ rec.phase \in Early
  /\ tool.pc \in StartPcs => rec.status = "running" /\ rec.phase = "data_starting"
  /\ tool.pc \in {"observe", "observe_record"} => rec.status = "running" /\ rec.phase = "data_started"
  /\ tool.pc \in {"adopt", "adopt_record"} => rec.status = "running" /\ rec.phase \in {"observed", "adopted"}
  /\ tool.pc \in StagePcs =>
       \/ rec.status = "running" /\ rec.phase \in Open /\ tool.stage = Following[rec.phase]
       \/ rec.status = "succeeded" /\ tool.stage = "web"
  /\ tool.pc \in FailPcs \cup {"seal", "verify", "unfence"} => rec.status \in {"running", "succeeded"}
  /\ tool.pc \in EndPcs => rec.status = "succeeded"

\* A containment that did not fail has stopped everything.
Contained ==
  IF tool.pc \in {"fail_store", "fail_record", "boot_failed"}
  THEN tool.bad \/ host.up = {} ELSE ~tool.bad

\* What is about to start was looked at: only recorded stages are up, the database
\* is the approved one as long as nothing runs, and nothing was being sent.
Approved ==
  tool.pc = "up" /\ rec.status = "running" =>
    /\ host.up \subseteq Recorded[rec.phase]
    /\ rec.phase = "adopted" => rec.fp = <<db.rows>>
    /\ tool.stage = "workers" => ~db.busy

\* Nothing runs outside the fence.
UpInFence ==
  /\ rec.status = "running" => host.up \subseteq Reach
  /\ rec.status \in {"failed", "recovery_required"} => rec.uncontained \/ host.up = {}
  /\ boot.status = "failed" /\ boot.phase = "contained" => host.up = {}
  /\ boot.status = None /\ rec.status = None => host.up = {}

HostInv == Types /\ FilesAgree /\ InPlace /\ Contained /\ Approved /\ UpInFence
----------------------------------------------------------------------------
(* The lists *)

\* The stages of a recovery, in their order.
LEMMA StageList ==
  /\ Len(Stages) = 6 /\ DOMAIN Stages = 1..6
  /\ Stages[1] = "api" /\ Stages[2] = "callback" /\ Stages[3] = "workers"
  /\ Stages[4] = "outbox" /\ Stages[5] = "beat" /\ Stages[6] = "web"
BY DEF Stages

\* The services that send or accept.
LEMMA ConsumerSet == Consumers = {"api", "callback", "workers", "outbox", "beat", "web"}
<1>1. Consumers = {Stages[i] : i \in 1..6}
  BY Zenon, StageList DEF Consumers, Range
<1>2. 1..6 = {1, 2, 3, 4, 5, 6}
  OBVIOUS
<1> QED
  BY Zenon, <1>1, <1>2, StageList

\* The phases that count completed stages, in their order.
LEMMA PhaseList ==
  /\ Len(CompletedPhases) = 7 /\ DOMAIN CompletedPhases = 1..7
  /\ CompletedPhases[1] = "adopted" /\ CompletedPhases[2] = "api_started"
  /\ CompletedPhases[3] = "callback_started" /\ CompletedPhases[4] = "workers_started"
  /\ CompletedPhases[5] = "outbox_started" /\ CompletedPhases[6] = "beat_started"
  /\ CompletedPhases[7] = "succeeded"
BY DEF CompletedPhases

\* The set of these phases.
LEMMA PhaseSet == Range(CompletedPhases) = Open \cup {"succeeded"}
<1>1. Range(CompletedPhases) = {CompletedPhases[i] : i \in 1..7}
  BY Zenon, PhaseList DEF Range
<1>2. 1..7 = {1, 2, 3, 4, 5, 6, 7}
  OBVIOUS
<1> QED
  BY <1>1, <1>2, PhaseList DEF Open

\* The phases in which bootstrap runs commands.
LEMMA BootPhaseSet ==
  Range(BootPhases) = {"compose_config", "data_services", "migration", "application_services"}
<1>1. /\ DOMAIN BootPhases = 1..4
      /\ BootPhases[1] = "compose_config" /\ BootPhases[2] = "data_services"
      /\ BootPhases[3] = "migration" /\ BootPhases[4] = "application_services"
  BY DEF BootPhases
<1>2. Range(BootPhases) = {BootPhases[i] : i \in 1..4}
  BY Zenon, <1>1 DEF Range
<1>3. 1..4 = {1, 2, 3, 4}
  OBVIOUS
<1> QED
  BY Zenon, <1>1, <1>2, <1>3

\* The places of the stages in their list.
LEMMA StageIndex ==
  /\ IndexOf(Stages, "api") = 1 /\ IndexOf(Stages, "callback") = 2
  /\ IndexOf(Stages, "workers") = 3 /\ IndexOf(Stages, "outbox") = 4
  /\ IndexOf(Stages, "beat") = 5 /\ IndexOf(Stages, "web") = 6
<1>1. \A i \in DOMAIN Stages : i \in {1, 2, 3, 4, 5, 6}
  BY StageList
<1>2. {1, 2, 3, 4, 5, 6} \subseteq DOMAIN Stages
  BY StageList
<1> QED
  BY Zenon, <1>1, <1>2, StageList DEF IndexOf

\* The places of the phases in their list.
LEMMA PhaseIndex ==
  /\ IndexOf(CompletedPhases, "adopted") = 1 /\ IndexOf(CompletedPhases, "api_started") = 2
  /\ IndexOf(CompletedPhases, "callback_started") = 3
  /\ IndexOf(CompletedPhases, "workers_started") = 4
  /\ IndexOf(CompletedPhases, "outbox_started") = 5 /\ IndexOf(CompletedPhases, "beat_started") = 6
<1>1. \A i \in DOMAIN CompletedPhases : i \in {1, 2, 3, 4, 5, 6, 7}
  BY PhaseList
<1>2. {1, 2, 3, 4, 5, 6, 7} \subseteq DOMAIN CompletedPhases
  BY PhaseList
<1> QED
  BY Zenon, <1>1, <1>2, PhaseList DEF IndexOf
----------------------------------------------------------------------------
(* Stages and phases *)

\* In an open recovery the stages recorded are those up to the phase.
LEMMA AuthorizedIs ==
  ASSUME rec.status = "running", rec.phase \in Open
  PROVE  /\ Authorized = Recorded[rec.phase]
         /\ CompletedIndex + 1 = IndexOf(Stages, Following[rec.phase])
<1>1. CompletedIndex = IndexOf(CompletedPhases, rec.phase) - 1
  BY Zenon DEF CompletedIndex
<1>2. Authorized = {Stages[i] : i \in 1..CompletedIndex}
  BY Zenon, PhaseSet DEF Authorized
<1>3. 1..0 = {} /\ 1..1 = {1} /\ 1..2 = {1, 2} /\ 1..3 = {1, 2, 3} /\ 1..4 = {1, 2, 3, 4}
      /\ 1..5 = {1, 2, 3, 4, 5}
  OBVIOUS
<1>4. CASE rec.phase = "adopted"
  BY <1>1, <1>2, <1>3, <1>4, PhaseIndex, StageIndex, StageList DEF Recorded, Following
<1>5. CASE rec.phase = "api_started"
  BY <1>1, <1>2, <1>3, <1>5, PhaseIndex, StageIndex, StageList DEF Recorded, Following
<1>6. CASE rec.phase = "callback_started"
  BY <1>1, <1>2, <1>3, <1>6, PhaseIndex, StageIndex, StageList DEF Recorded, Following
<1>7. CASE rec.phase = "workers_started"
  BY <1>1, <1>2, <1>3, <1>7, PhaseIndex, StageIndex, StageList DEF Recorded, Following
<1>8. CASE rec.phase = "outbox_started"
  BY <1>1, <1>2, <1>3, <1>8, PhaseIndex, StageIndex, StageList DEF Recorded, Following
<1>9. CASE rec.phase = "beat_started"
  BY <1>1, <1>2, <1>3, <1>9, PhaseIndex, StageIndex, StageList DEF Recorded, Following
<1> QED
  BY Zenon, <1>4, <1>5, <1>6, <1>7, <1>8, <1>9 DEF Open

\* A stage has one place.
LEMMA StageOnce ==
  ASSUME NEW s \in Consumers, NEW t \in Consumers, IndexOf(Stages, s) = IndexOf(Stages, t)
  PROVE  s = t
BY StageIndex, ConsumerSet

\* A stage that resume may start is the one that follows.
LEMMA OnlyFollowing ==
  ASSUME NEW s \in Consumers, rec.status = "running", rec.phase \in Open, InOrder(s),
         IndexOf(Stages, s) # CompletedIndex
  PROVE  s = Following[rec.phase]
<1>1. IndexOf(Stages, s) = CompletedIndex + 1
  BY Zenon DEF InOrder
<1>2. Following[rec.phase] \in Consumers
  BY ConsumerSet DEF Following, Open
<1> QED
  BY Zenon, <1>1, <1>2, AuthorizedIs, StageOnce

\* The phase that records a started stage is open too, and reaches as far.
LEMMA NextPhaseIs ==
  ASSUME NEW p \in Open, Following[p] # "web",
         NEW q, q = CompletedPhases[IndexOf(Stages, Following[p]) + 1]
  PROVE  q \in Open /\ Recorded[q] = Recorded[p] \cup {Following[p]}
<1>1. CASE p = "adopted"
  BY <1>1, StageIndex, PhaseList DEF Recorded, Following, Open
<1>2. CASE p = "api_started"
  BY <1>2, StageIndex, PhaseList DEF Recorded, Following, Open
<1>3. CASE p = "callback_started"
  BY <1>3, StageIndex, PhaseList DEF Recorded, Following, Open
<1>4. CASE p = "workers_started"
  BY <1>4, StageIndex, PhaseList DEF Recorded, Following, Open
<1>5. CASE p = "outbox_started"
  BY <1>5, StageIndex, PhaseList DEF Recorded, Following, Open
<1>6. CASE p = "beat_started"
  BY Zenon, <1>6 DEF Following
<1> QED
  BY Zenon, <1>1, <1>2, <1>3, <1>4, <1>5, <1>6 DEF Open

\* What the strengthened invariant allows is what Fenced allows.
LEMMA FencedFollows == HostInv => Fenced
<1> SUFFICES ASSUME HostInv PROVE Fenced
  OBVIOUS
<1> DEFINE Allowed == {s \in Consumers :
         \E i \in DOMAIN Stages : Stages[i] = s /\ {Stages[j] : j \in 1..(i - 1)} \subseteq Authorized
                                  /\ rec.phase \in Range(CompletedPhases)}
<1>1. ASSUME rec.status = "running" PROVE host.up \subseteq Allowed
  <2>1. host.up \subseteq Reach /\ rec.phase \in Early \cup Open
    BY Zenon, <1>1 DEF HostInv, UpInFence, FilesAgree
  <2>2. CASE rec.phase \notin Open
    BY Zenon, <2>1, <2>2 DEF Reach
  <2>3. CASE rec.phase \in Open
    <3> DEFINE Within(i) == {Stages[j] : j \in 1..(i - 1)} \subseteq Authorized
    <3>1. rec.phase \in Range(CompletedPhases)
      BY Zenon, <2>3, PhaseSet
    <3>2. Authorized = Recorded[rec.phase]
      BY Zenon, <1>1, <2>3, AuthorizedIs
    <3>3. 1..0 = {} /\ 1..1 = {1} /\ 1..2 = {1, 2} /\ 1..3 = {1, 2, 3} /\ 1..4 = {1, 2, 3, 4}
          /\ 1..5 = {1, 2, 3, 4, 5}
      OBVIOUS
    <3>4. /\ Within(1)
          /\ {"api"} \subseteq Authorized => Within(2)
          /\ {"api", "callback"} \subseteq Authorized => Within(3)
          /\ {"api", "callback", "workers"} \subseteq Authorized => Within(4)
          /\ {"api", "callback", "workers", "outbox"} \subseteq Authorized => Within(5)
          /\ {"api", "callback", "workers", "outbox", "beat"} \subseteq Authorized => Within(6)
      <4>1. 1 - 1 = 0 /\ 2 - 1 = 1 /\ 3 - 1 = 2 /\ 4 - 1 = 3 /\ 5 - 1 = 4 /\ 6 - 1 = 5
        OBVIOUS
      <4> QED
        BY <3>3, <4>1, StageList
    <3> HIDE DEF Within
    <3>5. ASSUME NEW s \in Reach
          PROVE  \E i \in 1..6 : Stages[i] = s /\ Within(i)
      BY <2>3, <3>2, <3>4, <3>5, StageList DEF Reach, Recorded, Following, Open
    <3>6. Reach \subseteq Consumers
      BY <2>3, ConsumerSet DEF Reach, Recorded, Following, Open
    <3> QED
      BY Zenon, <2>1, <3>1, <3>5, <3>6, StageList DEF Within
  <2> QED
    BY Zenon, <2>2, <2>3
<1>2. rec.status \in {"failed", "recovery_required"} /\ ~rec.uncontained => host.up = {}
  BY Zenon DEF HostInv, UpInFence
<1>3. boot.status = "failed" /\ boot.phase = "contained" => host.up = {}
  BY Zenon DEF HostInv, UpInFence
<1> QED
  BY Zenon, <1>1, <1>2, <1>3 DEF Fenced
----------------------------------------------------------------------------
(* What the assignments do *)

\* The typed state is of the types of the specification.
LEMMA TypesGiveTypeOK == Types => HostTypeOK
BY Zenon, PhaseSet, BootPhaseSet
   DEF Types, HostTypeOK, BootType, RecType, BaseType, HostType, DbType, BaseStates, Early,
     Open

\* Moving the command to another place.
LEMMA GotoIs ==
  ASSUME tool \in ToolType, NEW to \in Pcs, Goto(to)
  PROVE  /\ tool' \in ToolType
         /\ tool'.pc = to /\ tool'.stage = tool.stage /\ tool'.bad = tool.bad
BY Zenon DEF ToolType, Goto

\* The end of a command.
LEMMA IdleIs ==
  /\ Idle \in ToolType /\ Idle.pc = "idle" /\ Idle.bad = FALSE
BY ConsumerSet DEF Idle, ToolType, Pcs, BaseStates

\* Every failure goes through the containment while the fence is up or was just
\* taken down; before that it is only reported.
LEMMA FailIs ==
  ASSUME tool \in ToolType, NEW b \in BOOLEAN, Fail(b)
  PROVE  /\ tool' \in ToolType /\ UNCHANGED <<boot, rec, base>>
         /\ \/ /\ rec.status \in {"running", "succeeded"}
               /\ tool'.pc = "contain" /\ tool'.bad = tool.bad
            \/ tool' = Idle
<1>1. UNCHANGED <<boot, rec, base>>
  BY Zenon DEF Fail, Files
<1>2. CASE rec.status \in {"running", "succeeded"}
  <2>1. tool' = [tool EXCEPT !.pc = "contain", !.store = b]
    BY Zenon, <1>2 DEF Fail
  <2>2. "contain" \in Pcs
    BY Zenon DEF Pcs, FailPcs
  <2> QED
    BY Zenon, <1>1, <1>2, <2>1, <2>2 DEF ToolType
<1>3. CASE rec.status \notin {"running", "succeeded"}
  <2>1. tool' = Idle
    BY Zenon, <1>3 DEF Fail
  <2> QED
    BY Zenon, <1>1, <2>1, IdleIs
<1> QED
  BY Zenon, <1>2, <1>3

\* A record of the recovery file.
LEMMA CheckpointIs ==
  ASSUME rec \in RecType, NEW st \in {"running", "succeeded"},
         NEW ph \in Early \cup Open \cup {"succeeded"}, Checkpoint(st, ph)
  PROVE  /\ rec' \in RecType
         /\ rec'.status = st /\ rec'.phase = ph
         /\ rec'.fp = rec.fp /\ rec'.wm = rec.wm /\ rec'.uncontained = rec.uncontained
BY Zenon DEF RecType, Checkpoint

\* A record of the release.
LEMMA BaseIs ==
  ASSUME base \in BaseType, NEW state \in BaseStates, Base(state)
  PROVE  base' \in BaseType /\ base'.state = state
BY Zenon DEF BaseType, Base

\* Containers come up or go away.
LEMMA UpIs ==
  ASSUME host \in HostType, NEW up \in SUBSET Consumers, host' = [host EXCEPT !.up = up]
  PROVE  host' \in HostType /\ host'.up = up /\ host'.data = host.data
BY Zenon DEF HostType

\* The data services change.
LEMMA DataIs ==
  ASSUME host \in HostType, NEW data \in {"down", "sick", "up"}, host' = [host EXCEPT !.data = data]
  PROVE  host' \in HostType /\ host'.up = host.up /\ host'.data = data
BY Zenon DEF HostType

\* A fault is counted, or none happened.
LEMMA FaultIs ==
  ASSUME faults \in 0..MaxFaults, Fault \/ NoFault
  PROVE  faults' \in 0..MaxFaults
BY HostAssumption DEF Fault, NoFault

----------------------------------------------------------------------------
(* Steps *)

\* A failure leaves the invariant if what it leaves running is within the fence.
LEMMA FailPreserves ==
  ASSUME HostInv, NEW b \in BOOLEAN, Fail(b), Fault \/ NoFault,
         tool.pc \notin {"fail_store", "fail_record", "boot_failed"},
         host' \in HostType, UpInFence', UNCHANGED db
  PROVE  HostInv'
<1>1. Types'
  BY Zenon, FailIs, FaultIs DEF HostInv, Types
<1>2. FilesAgree'
  BY Zenon, FailIs DEF HostInv, Types, FilesAgree
<1>3. tool'.pc \in {"contain", "idle"} /\ tool'.bad = FALSE
      /\ (tool'.pc = "contain" => rec'.status \in {"running", "succeeded"})
  BY Zenon, FailIs, IdleIs DEF HostInv, Types, Contained, ToolType
<1>4. InPlace'
  BY Zenon, <1>3 DEF InPlace, BootPcs, StartPcs, StagePcs, EndPcs, FailPcs
<1>5. Contained'
  BY Zenon, <1>3 DEF Contained
<1>6. Approved'
  BY Zenon, <1>3 DEF Approved
<1> QED
  BY Zenon, <1>1, <1>2, <1>4, <1>5, <1>6 DEF HostInv

\* So does the end of a command that wrote nothing.
LEMMA ExitPreserves ==
  ASSUME HostInv, tool' = Idle, UNCHANGED <<boot, rec, base>>, Fault \/ NoFault,
         host' \in HostType, UpInFence', db' \in DbType
  PROVE  HostInv'
<1>1. Types'
  BY Zenon, IdleIs, FaultIs DEF HostInv, Types
<1>2. FilesAgree'
  BY Zenon DEF HostInv, FilesAgree
<1>4. InPlace'
  BY Zenon, IdleIs DEF InPlace, BootPcs, StartPcs, StagePcs, EndPcs, FailPcs
<1>5. Contained'
  BY Zenon, IdleIs DEF Contained
<1>6. Approved'
  BY Zenon, IdleIs DEF Approved
<1> QED
  BY Zenon, <1>1, <1>2, <1>4, <1>5, <1>6 DEF HostInv

\* Less running is within the fence, if the files stay.
LEMMA FewerInFence ==
  ASSUME UpInFence, UNCHANGED <<boot, rec>>, host'.up \subseteq host.up
  PROVE  UpInFence'
BY Zenon DEF UpInFence, Reach

\* Containment: what it stops is stopped, what it leaves is remembered.
LEMMA ContainStep ==
  ASSUME HostInv, Contain
  PROVE  HostInv'
<1> USE DEF Files, World
<1>0. tool.pc = "contain" /\ UNCHANGED <<boot, rec, base, db>>
  BY Zenon DEF Contain
<1>1. CASE host' = [host EXCEPT !.up = {}] /\ NoFault /\ tool' = [tool EXCEPT !.pc = "fail_store"]
  <2>1. host' \in HostType /\ host'.up = {}
    BY <1>1, UpIs DEF HostInv, Types
  <2>2. tool' \in ToolType /\ tool'.pc = "fail_store"
    BY Zenon, <1>1 DEF HostInv, Types, ToolType, Pcs, FailPcs
  <2>3. Types'
    BY Zenon, <1>0, <1>1, <2>1, <2>2, FaultIs DEF HostInv, Types
  <2>4. FilesAgree'
    BY Zenon, <1>0, <1>1, <2>1, <2>2
      DEF HostInv, FilesAgree, InPlace, Early, Open, None, BootPcs, StartPcs, StagePcs,
          EndPcs, FailPcs
  <2>5. InPlace'
    BY Zenon, <1>0, <1>1, <2>1, <2>2
      DEF HostInv, FilesAgree, InPlace, Early, None, BootPcs, StartPcs, StagePcs, EndPcs,
          FailPcs
  <2>6. Contained'
    BY Zenon, <1>0, <1>1, <2>1, <2>2 DEF HostInv, Contained
  <2>7. Approved'
    BY Zenon, <1>0, <1>1, <2>1, <2>2 DEF HostInv, Approved
  <2>8. UpInFence'
    BY Zenon, <1>0, <1>1, <2>1, <2>2
      DEF HostInv, FilesAgree, InPlace, Contained, UpInFence, Reach, Early, Open, None,
          BootPcs, StartPcs, StagePcs, EndPcs, FailPcs
  <2> QED
    BY Zenon, <2>3, <2>4, <2>5, <2>6, <2>7, <2>8 DEF HostInv
<1>2. CASE /\ \E left \in SUBSET host.up : host' = [host EXCEPT !.up = left]
           /\ Fault /\ tool' = [tool EXCEPT !.pc = "fail_store", !.bad = TRUE]
  <2>1. PICK left \in SUBSET host.up : host' = [host EXCEPT !.up = left]
    BY Zenon, <1>2
  <2>2. host' \in HostType /\ host'.up = left
    <3>1. left \in SUBSET Consumers
      BY Zenon, <2>1 DEF HostInv, Types, HostType
    <3> QED
      BY Zenon, <2>1, <3>1, UpIs DEF HostInv, Types
  <2>3. tool' \in ToolType /\ tool'.pc = "fail_store" /\ tool'.bad
    BY Zenon, <1>2 DEF HostInv, Types, ToolType, Pcs, FailPcs
  <2>4. Types'
    BY Zenon, <1>0, <1>2, <2>2, <2>3, FaultIs DEF HostInv, Types
  <2>5. FilesAgree'
    BY Zenon, <1>0, <1>2, <2>2, <2>3
      DEF HostInv, FilesAgree, InPlace, Early, Open, None, BootPcs, StartPcs, StagePcs,
          EndPcs, FailPcs
  <2>6. InPlace'
    BY Zenon, <1>0, <1>2, <2>2, <2>3
      DEF HostInv, FilesAgree, InPlace, Early, None, BootPcs, StartPcs, StagePcs, EndPcs,
          FailPcs
  <2>7. Contained'
    BY Zenon, <1>0, <1>2, <2>2, <2>3 DEF HostInv, Contained
  <2>8. Approved'
    BY Zenon, <1>0, <1>2, <2>2, <2>3 DEF HostInv, Approved
  <2>9. UpInFence'
    BY Zenon, <1>0, <1>2, <2>2, <2>3
      DEF HostInv, FilesAgree, InPlace, Contained, UpInFence, Reach, Early, Open, None,
          BootPcs, StartPcs, StagePcs, EndPcs, FailPcs
  <2> QED
    BY Zenon, <2>4, <2>5, <2>6, <2>7, <2>8, <2>9 DEF HostInv
<1> QED
  BY Zenon, <1>1, <1>2 DEF Contain

\* The release is told before the recovery file.
LEMMA FailStoreStep ==
  ASSUME HostInv, FailStore
  PROVE  HostInv'
<1>1. tool.pc = "fail_store" /\ UNCHANGED <<boot, rec, host, db>> /\ NoFault
  BY Zenon DEF FailStore, World
<1>2. base' \in BaseType
  BY Zenon, BaseIs DEF FailStore, HostInv, Types, BaseStates
<1>3. tool' \in ToolType /\ tool'.pc = "fail_record" /\ tool'.bad = tool.bad
  BY Zenon DEF FailStore, HostInv, Types, ToolType, BaseType, BaseStates, Pcs, FailPcs
<1>4. Types'
  BY Zenon, <1>1, <1>2, <1>3, FaultIs DEF HostInv, Types
<1>5. FilesAgree'
  BY Zenon, <1>1, <1>2, <1>3
    DEF HostInv, FilesAgree, InPlace, Early, Open, None, BootPcs, StartPcs, StagePcs,
        EndPcs, FailPcs
<1>6. InPlace'
  BY Zenon, <1>1, <1>2, <1>3
    DEF HostInv, FilesAgree, InPlace, Early, None, BootPcs, StartPcs, StagePcs, EndPcs,
        FailPcs
<1>7. Contained'
  BY Zenon, <1>1, <1>2, <1>3 DEF HostInv, Contained
<1>8. Approved'
  BY Zenon, <1>1, <1>2, <1>3 DEF HostInv, Approved
<1>9. UpInFence'
  BY Zenon, <1>1, <1>2, <1>3
    DEF HostInv, FilesAgree, InPlace, Contained, UpInFence, Reach, Early, Open, None,
        BootPcs, StartPcs, StagePcs, EndPcs, FailPcs
<1> QED
  BY Zenon, <1>4, <1>5, <1>6, <1>7, <1>8, <1>9 DEF HostInv

\* The record says whether the containment failed.
LEMMA FailRecordStep ==
  ASSUME HostInv, FailRecord
  PROVE  HostInv'
<1>1. tool.pc = "fail_record" /\ tool' = Idle /\ UNCHANGED <<boot, base, host, db>> /\ NoFault
  BY Zenon DEF FailRecord, World, Exit
<1>2. /\ rec' \in RecType /\ rec'.phase = "failed" /\ rec'.uncontained = tool.bad
      /\ rec'.status \in {"failed", "recovery_required"}
  BY Zenon DEF FailRecord, HostInv, Types, RecType, ToolType
<1>3. tool' \in ToolType /\ tool'.pc = "idle" /\ ~tool'.bad
  BY Zenon, <1>1, IdleIs
<1>4. Types'
  BY Zenon, <1>1, <1>2, <1>3, FaultIs DEF HostInv, Types
<1>5. FilesAgree'
  BY Zenon, <1>1, <1>2, <1>3
    DEF HostInv, FilesAgree, InPlace, Early, Open, None, BootPcs, StartPcs, StagePcs,
        EndPcs, FailPcs
<1>6. InPlace'
  BY Zenon, <1>1, <1>2, <1>3
    DEF HostInv, FilesAgree, InPlace, Early, None, BootPcs, StartPcs, StagePcs, EndPcs,
        FailPcs
<1>7. Contained'
  BY Zenon, <1>1, <1>2, <1>3 DEF HostInv, Contained
<1>8. Approved'
  BY Zenon, <1>1, <1>2, <1>3 DEF HostInv, Approved
<1>9. UpInFence'
  BY Zenon, <1>1, <1>2, <1>3
    DEF HostInv, FilesAgree, InPlace, Contained, UpInFence, Reach, Early, Open, None,
        BootPcs, StartPcs, StagePcs, EndPcs, FailPcs
<1> QED
  BY Zenon, <1>4, <1>5, <1>6, <1>7, <1>8, <1>9 DEF HostInv

\* start-recovery is refused, or goes on to write the fence.
LEMMA StartRecoveryStep ==
  ASSUME HostInv, StartRecovery
  PROVE  HostInv'
<1>0. tool.pc = "idle" /\ UNCHANGED <<boot, rec, host, db>>
  BY Zenon DEF StartRecovery, World
<1>1. CASE Fail(FALSE) /\ (Fault \/ NoFault)
  <2>1. host' \in HostType /\ UpInFence'
    BY Zenon, <1>0, <1>1, FailIs, FewerInFence DEF HostInv, Types
  <2> QED
    BY Zenon, <1>0, <1>1, <2>1, FailPreserves
<1>2. CASE /\ NoFault /\ Goto("fence") /\ boot.status = None
           /\ rec.status # None => rec.status = "running" /\ rec.phase \in Early
           /\ Base("staged") \/ UNCHANGED base
  <2>1. base' \in BaseType
    BY Zenon, <1>2, BaseIs DEF HostInv, Types, BaseStates
  <2>2. tool' \in ToolType /\ tool'.pc = "fence" /\ tool'.bad = tool.bad
    BY Zenon, <1>2, GotoIs DEF HostInv, Types, Pcs
  <2>3. Types'
    BY Zenon, <1>0, <1>2, <2>1, <2>2, FaultIs DEF HostInv, Types
  <2>4. FilesAgree'
    BY Zenon, <1>0, <1>2, <2>1, <2>2
      DEF HostInv, FilesAgree, InPlace, Early, Open, None, BootPcs, StartPcs, StagePcs,
          EndPcs, FailPcs
  <2>5. InPlace'
    BY Zenon, <1>0, <1>2, <2>1, <2>2
      DEF HostInv, FilesAgree, InPlace, Early, None, BootPcs, StartPcs, StagePcs, EndPcs,
          FailPcs
  <2>6. Contained'
    BY Zenon, <1>0, <1>2, <2>1, <2>2 DEF HostInv, Contained
  <2>7. Approved'
    BY Zenon, <1>0, <1>2, <2>1, <2>2 DEF HostInv, Approved
  <2>8. UpInFence'
    BY Zenon, <1>0, <1>2, <2>1, <2>2
      DEF HostInv, FilesAgree, InPlace, Contained, UpInFence, Reach, Early, Open, None,
          BootPcs, StartPcs, StagePcs, EndPcs, FailPcs
  <2> QED
    BY Zenon, <2>3, <2>4, <2>5, <2>6, <2>7, <2>8 DEF HostInv
<1> QED
  BY Zenon, <1>1, <1>2 DEF StartRecovery, Early

\* The fence is written first: validated, then data_starting.
LEMMA WriteFenceStep ==
  ASSUME HostInv, WriteFence
  PROVE  HostInv'
<1>0. tool.pc = "fence" /\ UNCHANGED <<boot, base, host, db>> /\ NoFault
  BY Zenon DEF WriteFence, World
<1>1. CASE rec.status = None
  <2>1. UNCHANGED tool
    BY Zenon, <1>1 DEF WriteFence
  <2>2. rec' \in RecType /\ rec'.status = "running" /\ rec'.phase = "validated"
    BY Zenon, <1>1, CheckpointIs DEF WriteFence, HostInv, Types, Early
  <2>3. Types'
    BY Zenon, <1>0, <1>1, <2>1, <2>2, FaultIs DEF HostInv, Types
  <2>4. FilesAgree'
    BY Zenon, <1>0, <1>1, <2>1, <2>2
      DEF HostInv, FilesAgree, InPlace, Early, Open, None, BootPcs, StartPcs, StagePcs,
          EndPcs, FailPcs
  <2>5. InPlace'
    BY Zenon, <1>0, <1>1, <2>1, <2>2
      DEF HostInv, FilesAgree, InPlace, Early, None, BootPcs, StartPcs, StagePcs, EndPcs,
          FailPcs
  <2>6. Contained'
    BY Zenon, <1>0, <1>1, <2>1, <2>2 DEF HostInv, Contained
  <2>7. Approved'
    BY Zenon, <1>0, <1>1, <2>1, <2>2 DEF HostInv, Approved
  <2>8. UpInFence'
    BY Zenon, <1>0, <1>1, <2>1, <2>2
      DEF HostInv, FilesAgree, InPlace, Contained, UpInFence, Reach, Early, Open, None,
          BootPcs, StartPcs, StagePcs, EndPcs, FailPcs
  <2> QED
    BY Zenon, <2>3, <2>4, <2>5, <2>6, <2>7, <2>8 DEF HostInv
<1>2. CASE rec.status # None
  <2>1. tool' \in ToolType /\ tool'.pc = "start_stop" /\ tool'.bad = tool.bad
    BY Zenon, <1>2, GotoIs DEF WriteFence, HostInv, Types, Pcs, StartPcs
  <2>2. rec' \in RecType /\ rec'.status = "running" /\ rec'.phase = "data_starting"
    BY Zenon, <1>2, CheckpointIs DEF WriteFence, HostInv, Types, Early
  <2>3. Types'
    BY Zenon, <1>0, <1>2, <2>1, <2>2, FaultIs DEF HostInv, Types
  <2>4. FilesAgree'
    BY Zenon, <1>0, <1>2, <2>1, <2>2
      DEF HostInv, FilesAgree, InPlace, Early, Open, None, BootPcs, StartPcs, StagePcs,
          EndPcs, FailPcs
  <2>5. InPlace'
    BY Zenon, <1>0, <1>2, <2>1, <2>2
      DEF HostInv, FilesAgree, InPlace, Early, None, BootPcs, StartPcs, StagePcs, EndPcs,
          FailPcs
  <2>6. Contained'
    BY Zenon, <1>0, <1>2, <2>1, <2>2 DEF HostInv, Contained
  <2>7. Approved'
    BY Zenon, <1>0, <1>2, <2>1, <2>2 DEF HostInv, Approved
  <2>8. UpInFence'
    BY Zenon, <1>0, <1>2, <2>1, <2>2
      DEF HostInv, FilesAgree, InPlace, Contained, UpInFence, Reach, Early, Open, None,
          BootPcs, StartPcs, StagePcs, EndPcs, FailPcs
  <2> QED
    BY Zenon, <2>3, <2>4, <2>5, <2>6, <2>7, <2>8 DEF HostInv
<1> QED
  BY Zenon, <1>1, <1>2

\* Nothing that sends runs before the data services start.
LEMMA StopConsumersStep ==
  ASSUME HostInv, StopConsumers
  PROVE  HostInv'
<1>0. tool.pc = "start_stop" /\ UNCHANGED db
  BY Zenon DEF StopConsumers, World
<1>1. CASE host' = [host EXCEPT !.up = {}] /\ Goto("start_data") /\ UNCHANGED Files /\ NoFault
  <2>1. host' \in HostType /\ host'.up = {}
    BY <1>1, UpIs DEF HostInv, Types
  <2>2. tool' \in ToolType /\ tool'.pc = "start_data" /\ tool'.bad = tool.bad
    BY Zenon, <1>1, GotoIs DEF HostInv, Types, Pcs, StartPcs
  <2>3. UNCHANGED <<boot, rec, base>>
    BY Zenon, <1>1 DEF Files
  <2>4. Types'
    BY Zenon, <1>0, <1>1, <2>1, <2>2, <2>3, FaultIs DEF HostInv, Types
  <2>5. FilesAgree'
    BY Zenon, <1>0, <1>1, <2>1, <2>2, <2>3
      DEF HostInv, FilesAgree, InPlace, Early, Open, None, BootPcs, StartPcs, StagePcs,
          EndPcs, FailPcs
  <2>6. InPlace'
    BY Zenon, <1>0, <1>1, <2>1, <2>2, <2>3
      DEF HostInv, FilesAgree, InPlace, Early, None, BootPcs, StartPcs, StagePcs, EndPcs,
          FailPcs
  <2>7. Contained'
    BY Zenon, <1>0, <1>1, <2>1, <2>2, <2>3 DEF HostInv, Contained
  <2>8. Approved'
    BY Zenon, <1>0, <1>1, <2>1, <2>2, <2>3 DEF HostInv, Approved
  <2>9. UpInFence'
    BY Zenon, <1>0, <1>1, <2>1, <2>2, <2>3
      DEF HostInv, FilesAgree, InPlace, Contained, UpInFence, Reach, Early, Open, None,
          BootPcs, StartPcs, StagePcs, EndPcs, FailPcs
  <2> QED
    BY Zenon, <2>4, <2>5, <2>6, <2>7, <2>8, <2>9 DEF HostInv
<1>2. CASE /\ \E left \in SUBSET host.up : host' = [host EXCEPT !.up = left]
           /\ Fail(FALSE) /\ Fault
  <2>1. PICK left \in SUBSET host.up : host' = [host EXCEPT !.up = left]
    BY Zenon, <1>2
  <2>2. host' \in HostType /\ host'.up = left
    <3>1. left \in SUBSET Consumers
      BY Zenon, <2>1 DEF HostInv, Types, HostType
    <3> QED
      BY Zenon, <2>1, <3>1, UpIs DEF HostInv, Types
  <2>3. UpInFence'
    BY Zenon, <1>2, <2>1, <2>2, FailIs, FewerInFence DEF HostInv, Types
  <2> QED
    BY Zenon, <1>0, <1>2, <2>2, <2>3, FailPreserves
<1> QED
  BY Zenon, <1>1, <1>2 DEF StopConsumers

\* Only the data services start.
LEMMA StartDataStep ==
  ASSUME HostInv, StartData
  PROVE  HostInv'
<1>0. tool.pc = "start_data" /\ UNCHANGED db
  BY Zenon DEF StartData, World
<1>1. CASE host' = [host EXCEPT !.data = "up"] /\ Goto("start_check") /\ UNCHANGED Files /\ NoFault
  <2>1. host' \in HostType /\ host'.up = host.up
    BY Zenon, <1>1, DataIs DEF HostInv, Types
  <2>2. tool' \in ToolType /\ tool'.pc = "start_check" /\ tool'.bad = tool.bad
    BY Zenon, <1>1, GotoIs DEF HostInv, Types, Pcs, StartPcs
  <2>3. UNCHANGED <<boot, rec, base>>
    BY Zenon, <1>1 DEF Files
  <2>4. Types'
    BY Zenon, <1>0, <1>1, <2>1, <2>2, <2>3, FaultIs DEF HostInv, Types
  <2>5. FilesAgree'
    BY Zenon, <1>0, <1>1, <2>1, <2>2, <2>3
      DEF HostInv, FilesAgree, InPlace, Early, Open, None, BootPcs, StartPcs, StagePcs,
          EndPcs, FailPcs
  <2>6. InPlace'
    BY Zenon, <1>0, <1>1, <2>1, <2>2, <2>3
      DEF HostInv, FilesAgree, InPlace, Early, None, BootPcs, StartPcs, StagePcs, EndPcs,
          FailPcs
  <2>7. Contained'
    BY Zenon, <1>0, <1>1, <2>1, <2>2, <2>3 DEF HostInv, Contained
  <2>8. Approved'
    BY Zenon, <1>0, <1>1, <2>1, <2>2, <2>3 DEF HostInv, Approved
  <2>9. UpInFence'
    BY Zenon, <1>0, <1>1, <2>1, <2>2, <2>3
      DEF HostInv, FilesAgree, InPlace, Contained, UpInFence, Reach, Early, Open, None,
          BootPcs, StartPcs, StagePcs, EndPcs, FailPcs
  <2> QED
    BY Zenon, <2>4, <2>5, <2>6, <2>7, <2>8, <2>9 DEF HostInv
<1>2. CASE /\ \E d \in {host.data, "sick", "up"} : host' = [host EXCEPT !.data = d]
           /\ Fail(FALSE) /\ Fault
  <2>1. host.data \in {"down", "sick", "up"}
    BY Zenon DEF HostInv, Types, HostType
  <2>2. host' \in HostType /\ host'.up = host.up
    BY Zenon, <1>2, <2>1, DataIs DEF HostInv, Types
  <2>3. UpInFence'
    BY Zenon, <1>2, <2>2, FailIs, FewerInFence DEF HostInv, Types
  <2> QED
    BY Zenon, <1>0, <1>2, <2>2, <2>3, FailPreserves
<1> QED
  BY Zenon, <1>1, <1>2 DEF StartData

\* The data services are recorded as started if nothing else runs.
LEMMA DataStartedStep ==
  ASSUME HostInv, DataStarted
  PROVE  HostInv'
<1>0. tool.pc = "start_check" /\ UNCHANGED <<host, db>>
  BY Zenon DEF DataStarted, World
<1>1. CASE Fail(FALSE) /\ (Fault \/ NoFault)
  <2>1. host' \in HostType /\ UpInFence'
    BY Zenon, <1>0, <1>1, FailIs, FewerInFence DEF HostInv, Types
  <2> QED
    BY Zenon, <1>0, <1>1, <2>1, FailPreserves
<1>2. CASE Checkpoint("running", "data_started") /\ Exit /\ UNCHANGED <<boot, base>> /\ NoFault
  <2>1. rec' \in RecType /\ rec'.status = "running" /\ rec'.phase = "data_started"
    BY Zenon, <1>2, CheckpointIs DEF HostInv, Types, Early
  <2>2. tool' \in ToolType /\ tool'.pc = "idle" /\ ~tool'.bad
    BY Zenon, <1>2, IdleIs DEF Exit
  <2>3. Types'
    BY Zenon, <1>0, <1>2, <2>1, <2>2, FaultIs DEF HostInv, Types
  <2>4. FilesAgree'
    BY Zenon, <1>0, <1>2, <2>1, <2>2
      DEF HostInv, FilesAgree, InPlace, Early, Open, None, BootPcs, StartPcs, StagePcs,
          EndPcs, FailPcs
  <2>5. InPlace'
    BY Zenon, <1>0, <1>2, <2>1, <2>2
      DEF HostInv, FilesAgree, InPlace, Early, None, BootPcs, StartPcs, StagePcs, EndPcs,
          FailPcs
  <2>6. Contained'
    BY Zenon, <1>0, <1>2, <2>1, <2>2 DEF HostInv, Contained
  <2>7. Approved'
    BY Zenon, <1>0, <1>2, <2>1, <2>2 DEF HostInv, Approved
  <2>8. UpInFence'
    BY Zenon, <1>0, <1>2, <2>1, <2>2
      DEF HostInv, FilesAgree, InPlace, Contained, UpInFence, Reach, Early, Open, None,
          BootPcs, StartPcs, StagePcs, EndPcs, FailPcs
  <2> QED
    BY Zenon, <2>3, <2>4, <2>5, <2>6, <2>7, <2>8 DEF HostInv
<1> QED
  BY Zenon, <1>1, <1>2 DEF DataStarted

\* The first reading of the fingerprint.
LEMMA ObserveStep ==
  ASSUME HostInv, Observe
  PROVE  HostInv'
<1>0. tool.pc = "idle" /\ UNCHANGED <<boot, rec, base, host, db>>
  BY Zenon DEF Observe, Files, World
<1>1. CASE Fail(FALSE) /\ (Fault \/ NoFault)
  <2>1. host' \in HostType /\ UpInFence'
    BY Zenon, <1>0, <1>1, FailIs, FewerInFence DEF HostInv, Types
  <2> QED
    BY Zenon, <1>0, <1>1, <2>1, FailPreserves
<1>2. CASE /\ rec.status = "running" /\ rec.phase = "data_started" /\ NoFault
           /\ tool' = [Idle EXCEPT !.pc = "observe", !.read = <<Fingerprint>>]
  <2>1. <<Fingerprint>> \in Seq(Nat)
    BY HostAssumption DEF HostInv, Types, DbType, Fingerprint
  <2>2. tool' \in ToolType /\ tool'.pc = "observe" /\ ~tool'.bad
    BY Zenon, <1>2, <2>1, ConsumerSet DEF Idle, ToolType, Pcs, BaseStates
  <2>3. Types'
    BY Zenon, <1>0, <1>2, <2>2, FaultIs DEF HostInv, Types
  <2>4. FilesAgree'
    BY Zenon, <1>0, <1>2, <2>2
      DEF HostInv, FilesAgree, InPlace, Early, Open, None, BootPcs, StartPcs, StagePcs,
          EndPcs, FailPcs
  <2>5. InPlace'
    BY Zenon, <1>0, <1>2, <2>2
      DEF HostInv, FilesAgree, InPlace, Early, None, BootPcs, StartPcs, StagePcs, EndPcs,
          FailPcs
  <2>6. Contained'
    BY Zenon, <1>0, <1>2, <2>2 DEF HostInv, Contained
  <2>7. Approved'
    BY Zenon, <1>0, <1>2, <2>2 DEF HostInv, Approved
  <2>8. UpInFence'
    BY Zenon, <1>0, <1>2, <2>2
      DEF HostInv, FilesAgree, InPlace, Contained, UpInFence, Reach, Early, Open, None,
          BootPcs, StartPcs, StagePcs, EndPcs, FailPcs
  <2> QED
    BY Zenon, <2>3, <2>4, <2>5, <2>6, <2>7, <2>8 DEF HostInv
<1> QED
  BY Zenon, <1>1, <1>2 DEF Observe

\* The second reading must agree.
LEMMA ObserveAgainStep ==
  ASSUME HostInv, ObserveAgain
  PROVE  HostInv'
<1>0. tool.pc = "observe" /\ UNCHANGED <<host, db>> /\ NoFault
  BY Zenon DEF ObserveAgain, World
<1>1. CASE Fail(FALSE)
  <2>1. host' \in HostType /\ UpInFence'
    BY Zenon, <1>0, <1>1, FailIs, FewerInFence DEF HostInv, Types
  <2> QED
    BY Zenon, <1>0, <1>1, <2>1, FailPreserves
<1>2. CASE Goto("observe_record") /\ UNCHANGED Files
  <2>1. tool' \in ToolType /\ tool'.pc = "observe_record" /\ tool'.bad = tool.bad
    BY Zenon, <1>2, GotoIs DEF HostInv, Types, Pcs
  <2>2. UNCHANGED <<boot, rec, base>>
    BY Zenon, <1>2 DEF Files
  <2>3. Types'
    BY Zenon, <1>0, <2>1, <2>2, FaultIs DEF HostInv, Types
  <2>4. FilesAgree'
    BY Zenon, <1>0, <2>1, <2>2
      DEF HostInv, FilesAgree, InPlace, Early, Open, None, BootPcs, StartPcs, StagePcs,
          EndPcs, FailPcs
  <2>5. InPlace'
    BY Zenon, <1>0, <2>1, <2>2
      DEF HostInv, FilesAgree, InPlace, Early, None, BootPcs, StartPcs, StagePcs, EndPcs,
          FailPcs
  <2>6. Contained'
    BY Zenon, <1>0, <2>1, <2>2 DEF HostInv, Contained
  <2>7. Approved'
    BY Zenon, <1>0, <2>1, <2>2 DEF HostInv, Approved
  <2>8. UpInFence'
    BY Zenon, <1>0, <2>1, <2>2
      DEF HostInv, FilesAgree, InPlace, Contained, UpInFence, Reach, Early, Open, None,
          BootPcs, StartPcs, StagePcs, EndPcs, FailPcs
  <2> QED
    BY Zenon, <2>3, <2>4, <2>5, <2>6, <2>7, <2>8 DEF HostInv
<1> QED
  BY Zenon, <1>1, <1>2 DEF ObserveAgain

\* The receipt is written, to be approved.
LEMMA ObservedStep ==
  ASSUME HostInv, Observed
  PROVE  HostInv'
<1>1. tool.pc = "observe_record" /\ UNCHANGED <<boot, base, host, db>> /\ NoFault
  BY Zenon DEF Observed, World
<1>2. rec' \in RecType /\ rec'.status = rec.status /\ rec'.phase = "observed"
  BY Zenon DEF Observed, HostInv, Types, RecType, ToolType, Early
<1>3. tool' \in ToolType /\ tool'.pc = "idle" /\ ~tool'.bad
  BY Zenon, IdleIs DEF Observed, Exit
<1>4. Types'
  BY Zenon, <1>1, <1>2, <1>3, FaultIs DEF HostInv, Types
<1>5. FilesAgree'
  BY Zenon, <1>1, <1>2, <1>3
    DEF HostInv, FilesAgree, InPlace, Early, Open, None, BootPcs, StartPcs, StagePcs,
        EndPcs, FailPcs
<1>6. InPlace'
  BY Zenon, <1>1, <1>2, <1>3
    DEF HostInv, FilesAgree, InPlace, Early, None, BootPcs, StartPcs, StagePcs, EndPcs,
        FailPcs
<1>7. Contained'
  BY Zenon, <1>1, <1>2, <1>3 DEF HostInv, Contained
<1>8. Approved'
  BY Zenon, <1>1, <1>2, <1>3 DEF HostInv, Approved
<1>9. UpInFence'
  BY Zenon, <1>1, <1>2, <1>3
    DEF HostInv, FilesAgree, InPlace, Contained, UpInFence, Reach, Early, Open, None,
        BootPcs, StartPcs, StagePcs, EndPcs, FailPcs
<1> QED
  BY Zenon, <1>4, <1>5, <1>6, <1>7, <1>8, <1>9 DEF HostInv

\* Adoption binds the release and reads the watermark.
LEMMA AdoptStep ==
  ASSUME HostInv, Adopt
  PROVE  HostInv'
<1>0. tool.pc = "idle" /\ UNCHANGED <<boot, rec, host, db>>
  BY Zenon DEF Adopt, World
<1>1. CASE \E b \in BOOLEAN : Fail(b) /\ (Fault \/ NoFault)
  <2>1. host' \in HostType /\ UpInFence'
    BY Zenon, <1>0, <1>1, FailIs, FewerInFence DEF HostInv, Types
  <2> QED
    BY Zenon, <1>0, <1>1, <2>1, FailPreserves
<1>2. CASE /\ rec.status = "running" /\ rec.phase \in {"observed", "adopted"} /\ NoFault
           /\ base' = [state |-> IF base.state = None THEN "staged" ELSE base.state, signed |-> TRUE]
           /\ tool' = [Idle EXCEPT !.pc = "adopt", !.read = Watermark]
  <2>1. Watermark \in Seq(Nat)
    BY HostAssumption DEF HostInv, Types, DbType, Watermark
  <2>2. tool' \in ToolType /\ tool'.pc = "adopt" /\ ~tool'.bad
    BY Zenon, <1>2, <2>1, ConsumerSet DEF Idle, ToolType, Pcs, BaseStates
  <2>3. base' \in BaseType
    BY Zenon, <1>2 DEF HostInv, Types, BaseType, BaseStates
  <2>4. Types'
    BY Zenon, <1>0, <1>2, <2>2, <2>3, FaultIs DEF HostInv, Types
  <2>5. FilesAgree'
    BY Zenon, <1>0, <1>2, <2>2, <2>3
      DEF HostInv, FilesAgree, InPlace, Early, Open, None, BootPcs, StartPcs, StagePcs,
          EndPcs, FailPcs
  <2>6. InPlace'
    BY Zenon, <1>0, <1>2, <2>2, <2>3
      DEF HostInv, FilesAgree, InPlace, Early, None, BootPcs, StartPcs, StagePcs, EndPcs,
          FailPcs
  <2>7. Contained'
    BY Zenon, <1>0, <1>2, <2>2, <2>3 DEF HostInv, Contained
  <2>8. Approved'
    BY Zenon, <1>0, <1>2, <2>2, <2>3 DEF HostInv, Approved
  <2>9. UpInFence'
    BY Zenon, <1>0, <1>2, <2>2, <2>3
      DEF HostInv, FilesAgree, InPlace, Contained, UpInFence, Reach, Early, Open, None,
          BootPcs, StartPcs, StagePcs, EndPcs, FailPcs
  <2> QED
    BY Zenon, <2>4, <2>5, <2>6, <2>7, <2>8, <2>9 DEF HostInv
<1>3. (base.state # None) \in BOOLEAN
  OBVIOUS
<1> QED
  BY Zenon, <1>1, <1>2, <1>3 DEF Adopt

\* Adoption looks again before the release counts as prepared.
LEMMA AdoptAgainStep ==
  ASSUME HostInv, AdoptAgain
  PROVE  HostInv'
<1>0. tool.pc = "adopt" /\ UNCHANGED <<host, db>> /\ NoFault
  BY Zenon DEF AdoptAgain, World
<1>1. CASE Fail(TRUE)
  <2>1. host' \in HostType /\ UpInFence'
    BY Zenon, <1>0, <1>1, FailIs, FewerInFence DEF HostInv, Types
  <2> QED
    BY Zenon, <1>0, <1>1, <2>1, FailPreserves
<1>2. CASE Base("prepared") /\ Goto("adopt_record") /\ UNCHANGED <<boot, rec>>
  <2>1. tool' \in ToolType /\ tool'.pc = "adopt_record" /\ tool'.bad = tool.bad
    BY Zenon, <1>2, GotoIs DEF HostInv, Types, Pcs
  <2>2. base' \in BaseType
    BY Zenon, <1>2, BaseIs DEF HostInv, Types, BaseStates
  <2>3. Types'
    BY Zenon, <1>0, <1>2, <2>1, <2>2, FaultIs DEF HostInv, Types
  <2>4. FilesAgree'
    BY Zenon, <1>0, <1>2, <2>1, <2>2
      DEF HostInv, FilesAgree, InPlace, Early, Open, None, BootPcs, StartPcs, StagePcs,
          EndPcs, FailPcs
  <2>5. InPlace'
    BY Zenon, <1>0, <1>2, <2>1, <2>2
      DEF HostInv, FilesAgree, InPlace, Early, None, BootPcs, StartPcs, StagePcs, EndPcs,
          FailPcs
  <2>6. Contained'
    BY Zenon, <1>0, <1>2, <2>1, <2>2 DEF HostInv, Contained
  <2>7. Approved'
    BY Zenon, <1>0, <1>2, <2>1, <2>2 DEF HostInv, Approved
  <2>8. UpInFence'
    BY Zenon, <1>0, <1>2, <2>1, <2>2
      DEF HostInv, FilesAgree, InPlace, Contained, UpInFence, Reach, Early, Open, None,
          BootPcs, StartPcs, StagePcs, EndPcs, FailPcs
  <2> QED
    BY Zenon, <2>3, <2>4, <2>5, <2>6, <2>7, <2>8 DEF HostInv
<1> QED
  BY Zenon, <1>1, <1>2 DEF AdoptAgain

\* The recovery is adopted: the first stage may be asked for.
LEMMA AdoptedStep ==
  ASSUME HostInv, Adopted
  PROVE  HostInv'
<1>1. tool.pc = "adopt_record" /\ UNCHANGED <<boot, base, host, db>> /\ NoFault
  BY Zenon DEF Adopted, World
<1>2. rec' \in RecType /\ rec'.status = rec.status /\ rec'.phase = "adopted"
  BY Zenon DEF Adopted, HostInv, Types, RecType, ToolType, Open
<1>3. tool' \in ToolType /\ tool'.pc = "idle" /\ ~tool'.bad
  BY Zenon, IdleIs DEF Adopted, Exit
<1>4. Types'
  BY Zenon, <1>1, <1>2, <1>3, FaultIs DEF HostInv, Types
<1>5. FilesAgree'
  BY Zenon, <1>1, <1>2, <1>3
    DEF HostInv, FilesAgree, InPlace, Early, Open, None, BootPcs, StartPcs, StagePcs,
        EndPcs, FailPcs
<1>6. InPlace'
  BY Zenon, <1>1, <1>2, <1>3
    DEF HostInv, FilesAgree, InPlace, Early, None, BootPcs, StartPcs, StagePcs, EndPcs,
        FailPcs
<1>7. Contained'
  BY Zenon, <1>1, <1>2, <1>3 DEF HostInv, Contained
<1>8. Approved'
  BY Zenon, <1>1, <1>2, <1>3 DEF HostInv, Approved
<1>9. UpInFence'
  BY Zenon, <1>1, <1>2, <1>3
    DEF HostInv, FilesAgree, InPlace, Contained, UpInFence, Reach, Early, Open, None,
        BootPcs, StartPcs, StagePcs, EndPcs, FailPcs
<1> QED
  BY Zenon, <1>4, <1>5, <1>6, <1>7, <1>8, <1>9 DEF HostInv

\* resume-recovery lets the next stage start, refuses, or has nothing to do.
LEMMA ResumeStep ==
  ASSUME HostInv, NEW s \in Consumers, Resume(s)
  PROVE  HostInv'
<1> DEFINE fin == rec.status = "succeeded"
           workers == s = "workers" => rec.wm = Watermark /\ NothingInFlight
<1>0. /\ tool.pc = "idle" /\ rec.status \in {"running", "succeeded"}
      /\ UNCHANGED <<boot, rec, base, host, db>>
  BY Zenon DEF Resume, Files, World
<1>1. CASE Fail(TRUE) /\ (Fault \/ NoFault)
  <2>1. host' \in HostType /\ UpInFence'
    BY Zenon, <1>0, FewerInFence DEF HostInv, Types
  <2> QED
    BY Zenon, <1>0, <1>1, <2>1, FailPreserves
<1>2. CASE Exit /\ NoFault
  <2>1. host' \in HostType /\ UpInFence' /\ db' \in DbType
    BY Zenon, <1>0, FewerInFence DEF HostInv, Types
  <2> QED
    BY Zenon, <1>0, <1>2, <2>1, ExitPreserves DEF Exit
<1>3. CASE /\ DatabaseApproved /\ InOrder(s) /\ FenceHolds(Authorized, fin)
           /\ ~(~fin /\ IndexOf(Stages, s) = CompletedIndex) /\ workers /\ NoFault
           /\ tool' = [Idle EXCEPT !.pc = "up", !.stage = s, !.fin = fin]
  <2>1. tool' \in ToolType /\ tool'.pc = "up" /\ tool'.stage = s /\ ~tool'.bad
    <3>1. fin \in BOOLEAN
      OBVIOUS
    <3>2. Idle \in ToolType /\ Idle.bad = FALSE
      BY Zenon, IdleIs
    <3> HIDE DEF fin
    <3> QED
      BY Zenon, <1>3, <3>1, <3>2 DEF ToolType, Pcs, StagePcs
  <2>2. Types' /\ FilesAgree' /\ UpInFence'
    BY Zenon, <1>0, <1>3, <2>1, FaultIs, FewerInFence DEF HostInv, Types, FilesAgree
  <2>3. Contained'
    BY Zenon, <2>1 DEF Contained
  <2>4. CASE rec.status = "running"
    <3>1. rec.phase \in Open
      BY Zenon, <1>3, <2>4, PhaseSet DEF InOrder
    <3>2. s = Following[rec.phase]
      BY Zenon, <1>3, <2>4, <3>1, OnlyFollowing
    <3>3. host.up \subseteq Recorded[rec.phase]
      BY Zenon, <1>3, <2>4, <3>1, AuthorizedIs DEF FenceHolds
    <3>4. InPlace'
      BY Zenon, <1>0, <2>1, <2>4, <3>1, <3>2
        DEF InPlace, BootPcs, StartPcs, StagePcs, EndPcs, FailPcs
    <3>5. rec.fp = <<db.rows>> /\ (s = "workers" => ~db.busy)
      BY Zenon, <1>3 DEF DatabaseApproved, Fingerprint, NothingInFlight
    <3>6. Approved'
      BY Zenon, <1>0, <2>1, <3>3, <3>5 DEF Approved
    <3> QED
      BY Zenon, <2>2, <2>3, <3>4, <3>6 DEF HostInv
  <2>5. CASE rec.status = "succeeded"
    <3>1. s = "web"
      BY Zenon, <1>3, <2>5 DEF InOrder
    <3>2. InPlace'
      BY Zenon, <1>0, <2>1, <2>5, <3>1
        DEF InPlace, BootPcs, StartPcs, StagePcs, EndPcs, FailPcs
    <3>3. Approved'
      BY Zenon, <1>0, <2>5 DEF Approved
    <3> QED
      BY Zenon, <2>2, <2>3, <3>2, <3>3 DEF HostInv
  <2> QED
    BY Zenon, <1>0, <2>4, <2>5
<1> QED
  BY Zenon, <1>1, <1>2, <1>3 DEF Resume

\* The stage that is being started is within the fence.
LEMMA StageInFence ==
  ASSUME HostInv, tool.pc = "up", UNCHANGED <<boot, rec>>,
         host' = [host EXCEPT !.up = host.up \cup {tool.stage}]
  PROVE  host' \in HostType /\ UpInFence'
<1>1. host.up \cup {tool.stage} \in SUBSET Consumers
  BY Zenon DEF HostInv, Types, HostType, ToolType
<1>2. host' \in HostType /\ host'.up = host.up \cup {tool.stage}
  BY Zenon, <1>1, UpIs DEF HostInv, Types
<1>3. rec.status = "running" => host'.up \subseteq Reach
  BY Zenon, <1>2 DEF HostInv, InPlace, StagePcs, UpInFence, Reach
<1>4. rec.status \in {"running", "succeeded"}
  BY Zenon DEF HostInv, InPlace, StagePcs
<1> QED
  BY Zenon, <1>2, <1>3, <1>4 DEF HostInv, FilesAgree, UpInFence, Reach, None

\* A stage comes up, or its start fails half way.
LEMMA StageUpStep ==
  ASSUME HostInv, StageUp
  PROVE  HostInv'
<1>0. tool.pc = "up" /\ UNCHANGED db
  BY Zenon DEF StageUp, World
<1>1. ASSUME UNCHANGED <<boot, rec>>, host' = [host EXCEPT !.up = host.up \cup {tool.stage}]
      PROVE  host' \in HostType /\ UpInFence'
  BY Zenon, <1>0, <1>1, StageInFence
<1>2. CASE /\ host' = [host EXCEPT !.up = @ \cup {tool.stage}]
           /\ Goto("after") /\ UNCHANGED Files /\ NoFault
  <2>1. UNCHANGED <<boot, rec, base>>
    BY Zenon, <1>2 DEF Files
  <2>2. host' \in HostType /\ UpInFence'
    BY Zenon, <1>1, <1>2, <2>1
  <2>3. tool' \in ToolType /\ tool'.pc = "after" /\ tool'.stage = tool.stage /\ tool'.bad = tool.bad
    BY Zenon, <1>2, GotoIs DEF HostInv, Types, Pcs, StagePcs
  <2>4. Types'
    BY Zenon, <1>0, <1>2, <2>1, <2>2, <2>3, FaultIs DEF HostInv, Types
  <2>5. FilesAgree'
    BY Zenon, <1>0, <1>2, <2>1, <2>2, <2>3
      DEF HostInv, FilesAgree, InPlace, Early, Open, None, BootPcs, StartPcs, StagePcs,
          EndPcs, FailPcs
  <2>6. InPlace'
    BY Zenon, <1>0, <1>2, <2>1, <2>2, <2>3
      DEF HostInv, FilesAgree, InPlace, Early, None, BootPcs, StartPcs, StagePcs, EndPcs,
          FailPcs
  <2>7. Contained'
    BY Zenon, <1>0, <1>2, <2>1, <2>2, <2>3 DEF HostInv, Contained
  <2>8. Approved'
    BY Zenon, <1>0, <1>2, <2>1, <2>2, <2>3 DEF HostInv, Approved
  <2>9. UpInFence'
    BY Zenon, <1>0, <1>2, <2>1, <2>2, <2>3
      DEF HostInv, FilesAgree, InPlace, Contained, UpInFence, Reach, Early, Open, None,
          BootPcs, StartPcs, StagePcs, EndPcs, FailPcs
  <2> QED
    BY Zenon, <2>4, <2>5, <2>6, <2>7, <2>8, <2>9 DEF HostInv
<1>3. CASE /\ \E up \in {host.up, host.up \cup {tool.stage}} : host' = [host EXCEPT !.up = up]
           /\ Fail(TRUE) /\ Fault
  <2>1. UNCHANGED <<boot, rec>>
    BY Zenon, <1>3, FailIs DEF HostInv, Types
  <2>2. CASE host' = [host EXCEPT !.up = host.up]
    <3>1. host' \in HostType /\ host'.up = host.up
      BY Zenon, <2>2 DEF HostInv, Types, HostType
    <3> QED
      BY Zenon, <1>0, <1>3, <2>1, <3>1, FewerInFence, FailPreserves DEF HostInv
  <2>3. CASE host' = [host EXCEPT !.up = host.up \cup {tool.stage}]
    BY Zenon, <1>0, <1>1, <1>3, <2>1, <2>3, FailPreserves
  <2> QED
    BY Zenon, <1>3, <2>2, <2>3
<1> QED
  BY Zenon, <1>2, <1>3 DEF StageUp

\* A stage is recorded only if exactly the stages so far are up.
LEMMA StageStartedStep ==
  ASSUME HostInv, StageStarted
  PROVE  HostInv'
<1>0. tool.pc = "after" /\ UNCHANGED <<host, db>>
  BY Zenon DEF StageStarted, World
<1>1. CASE Fail(TRUE) /\ (Fault \/ NoFault)
  <2>1. host' \in HostType /\ UpInFence'
    BY Zenon, <1>0, <1>1, FailIs, FewerInFence DEF HostInv, Types
  <2> QED
    BY Zenon, <1>0, <1>1, <2>1, FailPreserves
<1>2. CASE Goto("seal") /\ UNCHANGED Files /\ NoFault
  <2>1. tool' \in ToolType /\ tool'.pc = "seal" /\ tool'.bad = tool.bad
    BY Zenon, <1>2, GotoIs DEF HostInv, Types, Pcs
  <2>2. UNCHANGED <<boot, rec, base>>
    BY Zenon, <1>2 DEF Files
  <2>3. Types'
    BY Zenon, <1>0, <1>2, <2>1, <2>2, FaultIs DEF HostInv, Types
  <2>4. FilesAgree'
    BY Zenon, <1>0, <1>2, <2>1, <2>2
      DEF HostInv, FilesAgree, InPlace, Early, Open, None, BootPcs, StartPcs, StagePcs,
          EndPcs, FailPcs
  <2>5. InPlace'
    BY Zenon, <1>0, <1>2, <2>1, <2>2
      DEF HostInv, FilesAgree, InPlace, Early, None, BootPcs, StartPcs, StagePcs, EndPcs,
          FailPcs
  <2>6. Contained'
    BY Zenon, <1>0, <1>2, <2>1, <2>2 DEF HostInv, Contained
  <2>7. Approved'
    BY Zenon, <1>0, <1>2, <2>1, <2>2 DEF HostInv, Approved
  <2>8. UpInFence'
    BY Zenon, <1>0, <1>2, <2>1, <2>2
      DEF HostInv, FilesAgree, InPlace, Contained, UpInFence, Reach, Early, Open, None,
          BootPcs, StartPcs, StagePcs, EndPcs, FailPcs
  <2> QED
    BY Zenon, <2>3, <2>4, <2>5, <2>6, <2>7, <2>8 DEF HostInv
<1>3. CASE /\ tool.stage # "web"
           /\ Checkpoint("running", CompletedPhases[IndexOf(Stages, tool.stage) + 1])
           /\ Exit /\ UNCHANGED <<boot, base>> /\ NoFault
  <2> DEFINE q == CompletedPhases[IndexOf(Stages, tool.stage) + 1]
  <2>1. rec.status = "running" /\ rec.phase \in Open /\ tool.stage = Following[rec.phase]
    BY Zenon, <1>0, <1>3 DEF HostInv, InPlace, StagePcs
  <2>2. q \in Open /\ Recorded[q] = Recorded[rec.phase] \cup {Following[rec.phase]}
    BY Zenon, <1>3, <2>1, NextPhaseIs
  <2> HIDE DEF q
  <2>3. rec' \in RecType /\ rec'.status = "running" /\ rec'.phase = q
    BY Zenon, <1>3, <2>2, CheckpointIs DEF HostInv, Types, q
  <2>4. tool' \in ToolType /\ tool'.pc = "idle" /\ ~tool'.bad
    BY Zenon, <1>3, IdleIs DEF Exit
  <2>5. host'.up \subseteq Reach'
    BY Zenon, <1>0, <2>1, <2>2, <2>3 DEF HostInv, UpInFence, Reach
  <2>6. Types'
    BY Zenon, <1>0, <1>3, <2>1, <2>2, <2>3, <2>4, <2>5, FaultIs DEF HostInv, Types
  <2>7. FilesAgree'
    BY Zenon, <1>0, <1>3, <2>1, <2>2, <2>3, <2>4, <2>5
      DEF HostInv, FilesAgree, InPlace, Early, Open, None, BootPcs, StartPcs, StagePcs,
          EndPcs, FailPcs
  <2>8. InPlace'
    BY Zenon, <1>0, <1>3, <2>1, <2>2, <2>3, <2>4, <2>5
      DEF HostInv, FilesAgree, InPlace, Early, None, BootPcs, StartPcs, StagePcs, EndPcs,
          FailPcs
  <2>9. Contained'
    BY Zenon, <1>0, <1>3, <2>1, <2>2, <2>3, <2>4, <2>5 DEF HostInv, Contained
  <2>10. Approved'
    BY Zenon, <1>0, <1>3, <2>1, <2>2, <2>3, <2>4, <2>5 DEF HostInv, Approved
  <2>11. UpInFence'
    BY Zenon, <1>0, <1>3, <2>1, <2>2, <2>3, <2>4, <2>5
      DEF HostInv, FilesAgree, InPlace, Contained, UpInFence, Reach, Early, Open, None,
          BootPcs, StartPcs, StagePcs, EndPcs, FailPcs
  <2> QED
    BY Zenon, <2>6, <2>7, <2>8, <2>9, <2>10, <2>11 DEF HostInv
<1> QED
  BY Zenon, <1>1, <1>2, <1>3 DEF StageStarted

\* The release is sealed after the last stage.
LEMMA SealStep ==
  ASSUME HostInv, Seal
  PROVE  HostInv'
<1>0. tool.pc = "seal" /\ UNCHANGED <<host, db>> /\ NoFault
  BY Zenon DEF Seal, World
<1>1. CASE Fail(TRUE)
  <2>1. host' \in HostType /\ UpInFence'
    BY Zenon, <1>0, <1>1, FailIs, FewerInFence DEF HostInv, Types
  <2> QED
    BY Zenon, <1>0, <1>1, <2>1, FailPreserves
<1>2. CASE (Base("activating") \/ UNCHANGED base) /\ Goto("verify") /\ UNCHANGED <<boot, rec>>
  <2>1. tool' \in ToolType /\ tool'.pc = "verify" /\ tool'.bad = tool.bad
    BY Zenon, <1>2, GotoIs DEF HostInv, Types, Pcs
  <2>2. base' \in BaseType
    BY Zenon, <1>2, BaseIs DEF HostInv, Types, BaseStates
  <2>3. Types'
    BY Zenon, <1>0, <1>2, <2>1, <2>2, FaultIs DEF HostInv, Types
  <2>4. FilesAgree'
    BY Zenon, <1>0, <1>2, <2>1, <2>2
      DEF HostInv, FilesAgree, InPlace, Early, Open, None, BootPcs, StartPcs, StagePcs,
          EndPcs, FailPcs
  <2>5. InPlace'
    BY Zenon, <1>0, <1>2, <2>1, <2>2
      DEF HostInv, FilesAgree, InPlace, Early, None, BootPcs, StartPcs, StagePcs, EndPcs,
          FailPcs
  <2>6. Contained'
    BY Zenon, <1>0, <1>2, <2>1, <2>2 DEF HostInv, Contained
  <2>7. Approved'
    BY Zenon, <1>0, <1>2, <2>1, <2>2 DEF HostInv, Approved
  <2>8. UpInFence'
    BY Zenon, <1>0, <1>2, <2>1, <2>2
      DEF HostInv, FilesAgree, InPlace, Contained, UpInFence, Reach, Early, Open, None,
          BootPcs, StartPcs, StagePcs, EndPcs, FailPcs
  <2> QED
    BY Zenon, <2>3, <2>4, <2>5, <2>6, <2>7, <2>8 DEF HostInv
<1>3. CASE base.state = "prepared" /\ ~tool.fin
  BY Zenon, <1>2, <1>3 DEF Seal
<1>4. CASE base.state \in {"activating", "succeeded"}
  BY Zenon, <1>2, <1>4 DEF Seal, Files
<1>5. CASE ~(base.state = "prepared" /\ ~tool.fin) /\ base.state \notin {"activating", "succeeded"}
  BY Zenon, <1>1, <1>5 DEF Seal
<1> QED
  BY Zenon, <1>3, <1>4, <1>5

\* Everything is looked at before the fence is lowered.
LEMMA VerifyStep ==
  ASSUME HostInv, VerifyServices
  PROVE  HostInv'
<1>0. tool.pc = "verify" /\ UNCHANGED <<host, db>>
  BY Zenon DEF VerifyServices, World
<1>1. CASE Fail(TRUE) /\ (Fault \/ NoFault)
  <2>1. host' \in HostType /\ UpInFence'
    BY Zenon, <1>0, <1>1, FailIs, FewerInFence DEF HostInv, Types
  <2> QED
    BY Zenon, <1>0, <1>1, <2>1, FailPreserves
<1>2. CASE Goto("unfence") /\ UNCHANGED Files /\ NoFault
  <2>1. tool' \in ToolType /\ tool'.pc = "unfence" /\ tool'.bad = tool.bad
    BY Zenon, <1>2, GotoIs DEF HostInv, Types, Pcs
  <2>2. UNCHANGED <<boot, rec, base>>
    BY Zenon, <1>2 DEF Files
  <2>3. Types'
    BY Zenon, <1>0, <1>2, <2>1, <2>2, FaultIs DEF HostInv, Types
  <2>4. FilesAgree'
    BY Zenon, <1>0, <1>2, <2>1, <2>2
      DEF HostInv, FilesAgree, InPlace, Early, Open, None, BootPcs, StartPcs, StagePcs,
          EndPcs, FailPcs
  <2>5. InPlace'
    BY Zenon, <1>0, <1>2, <2>1, <2>2
      DEF HostInv, FilesAgree, InPlace, Early, None, BootPcs, StartPcs, StagePcs, EndPcs,
          FailPcs
  <2>6. Contained'
    BY Zenon, <1>0, <1>2, <2>1, <2>2 DEF HostInv, Contained
  <2>7. Approved'
    BY Zenon, <1>0, <1>2, <2>1, <2>2 DEF HostInv, Approved
  <2>8. UpInFence'
    BY Zenon, <1>0, <1>2, <2>1, <2>2
      DEF HostInv, FilesAgree, InPlace, Contained, UpInFence, Reach, Early, Open, None,
          BootPcs, StartPcs, StagePcs, EndPcs, FailPcs
  <2> QED
    BY Zenon, <2>3, <2>4, <2>5, <2>6, <2>7, <2>8 DEF HostInv
<1> QED
  BY Zenon, <1>1, <1>2 DEF VerifyServices

\* The fence is lowered.
LEMMA UnfenceStep ==
  ASSUME HostInv, Unfence
  PROVE  HostInv'
<1>1. tool.pc = "unfence" /\ UNCHANGED <<boot, base, host, db>> /\ NoFault
  BY Zenon DEF Unfence, World
<1>2. rec' \in RecType /\ rec'.status = "succeeded" /\ rec'.phase = "succeeded"
  BY Zenon, CheckpointIs DEF Unfence, HostInv, Types
<1>3. tool' \in ToolType /\ tool'.pc = "end_release" /\ tool'.bad = tool.bad
  BY Zenon, GotoIs DEF Unfence, HostInv, Types, Pcs, EndPcs
<1>4. Types'
  BY Zenon, <1>1, <1>2, <1>3, FaultIs DEF HostInv, Types
<1>5. FilesAgree'
  BY Zenon, <1>1, <1>2, <1>3
    DEF HostInv, FilesAgree, InPlace, Early, Open, None, BootPcs, StartPcs, StagePcs,
        EndPcs, FailPcs
<1>6. InPlace'
  BY Zenon, <1>1, <1>2, <1>3
    DEF HostInv, FilesAgree, InPlace, Early, None, BootPcs, StartPcs, StagePcs, EndPcs,
        FailPcs
<1>7. Contained'
  BY Zenon, <1>1, <1>2, <1>3 DEF HostInv, Contained
<1>8. Approved'
  BY Zenon, <1>1, <1>2, <1>3 DEF HostInv, Approved
<1>9. UpInFence'
  BY Zenon, <1>1, <1>2, <1>3
    DEF HostInv, FilesAgree, InPlace, Contained, UpInFence, Reach, Early, Open, None,
        BootPcs, StartPcs, StagePcs, EndPcs, FailPcs
<1> QED
  BY Zenon, <1>4, <1>5, <1>6, <1>7, <1>8, <1>9 DEF HostInv

\* The release ends after the fence is lowered.
LEMMA EndReleaseStep ==
  ASSUME HostInv, EndRelease
  PROVE  HostInv'
<1>1. tool.pc = "end_release" /\ UNCHANGED <<boot, rec, host, db>> /\ NoFault
  BY Zenon DEF EndRelease, World
<1>2. base' \in BaseType
  BY Zenon, BaseIs DEF EndRelease, HostInv, Types, BaseStates
<1>3. tool' \in ToolType /\ tool'.pc = "baseline" /\ tool'.bad = tool.bad
  BY Zenon, GotoIs DEF EndRelease, HostInv, Types, Pcs, EndPcs
<1>4. Types'
  BY Zenon, <1>1, <1>2, <1>3, FaultIs DEF HostInv, Types
<1>5. FilesAgree'
  BY Zenon, <1>1, <1>2, <1>3
    DEF HostInv, FilesAgree, InPlace, Early, Open, None, BootPcs, StartPcs, StagePcs,
        EndPcs, FailPcs
<1>6. InPlace'
  BY Zenon, <1>1, <1>2, <1>3
    DEF HostInv, FilesAgree, InPlace, Early, None, BootPcs, StartPcs, StagePcs, EndPcs,
        FailPcs
<1>7. Contained'
  BY Zenon, <1>1, <1>2, <1>3 DEF HostInv, Contained
<1>8. Approved'
  BY Zenon, <1>1, <1>2, <1>3 DEF HostInv, Approved
<1>9. UpInFence'
  BY Zenon, <1>1, <1>2, <1>3
    DEF HostInv, FilesAgree, InPlace, Contained, UpInFence, Reach, Early, Open, None,
        BootPcs, StartPcs, StagePcs, EndPcs, FailPcs
<1> QED
  BY Zenon, <1>4, <1>5, <1>6, <1>7, <1>8, <1>9 DEF HostInv

\* The baseline is what ordinary startup asks for.
LEMMA WriteBaselineStep ==
  ASSUME HostInv, WriteBaseline
  PROVE  HostInv'
<1>1. tool.pc = "baseline" /\ UNCHANGED <<rec, base, host, db>> /\ NoFault
  BY Zenon DEF WriteBaseline, World
<1>2. boot' \in BootType /\ boot'.status = "succeeded"
  BY Zenon DEF WriteBaseline, BootType
<1>3. tool' \in ToolType /\ tool'.pc = "gate" /\ tool'.bad = tool.bad
  BY Zenon, GotoIs DEF WriteBaseline, HostInv, Types, Pcs, EndPcs
<1>4. Types'
  BY Zenon, <1>1, <1>2, <1>3, FaultIs DEF HostInv, Types
<1>5. FilesAgree'
  BY Zenon, <1>1, <1>2, <1>3
    DEF HostInv, FilesAgree, InPlace, Early, Open, None, BootPcs, StartPcs, StagePcs,
        EndPcs, FailPcs
<1>6. InPlace'
  BY Zenon, <1>1, <1>2, <1>3
    DEF HostInv, FilesAgree, InPlace, Early, None, BootPcs, StartPcs, StagePcs, EndPcs,
        FailPcs
<1>7. Contained'
  BY Zenon, <1>1, <1>2, <1>3 DEF HostInv, Contained
<1>8. Approved'
  BY Zenon, <1>1, <1>2, <1>3 DEF HostInv, Approved
<1>9. UpInFence'
  BY Zenon, <1>1, <1>2, <1>3
    DEF HostInv, FilesAgree, InPlace, Contained, UpInFence, Reach, Early, Open, None,
        BootPcs, StartPcs, StagePcs, EndPcs, FailPcs
<1> QED
  BY Zenon, <1>4, <1>5, <1>6, <1>7, <1>8, <1>9 DEF HostInv

\* The gate is passed or the recovery fails after all.
LEMMA PassGateStep ==
  ASSUME HostInv, PassGate
  PROVE  HostInv'
<1>0. tool.pc = "gate" /\ UNCHANGED <<host, db>>
  BY Zenon DEF PassGate, World
<1>1. CASE Fail(TRUE) /\ Fault
  <2>1. host' \in HostType /\ UpInFence'
    BY Zenon, <1>0, <1>1, FailIs, FewerInFence DEF HostInv, Types
  <2> QED
    BY Zenon, <1>0, <1>1, <2>1, FailPreserves
<1>2. CASE Exit /\ UNCHANGED Files /\ NoFault
  <2>1. UNCHANGED <<boot, rec, base>> /\ tool' = Idle
    BY Zenon, <1>2 DEF Files, Exit
  <2>2. host' \in HostType /\ UpInFence' /\ db' \in DbType
    BY Zenon, <1>0, <2>1, FewerInFence DEF HostInv, Types
  <2> QED
    BY Zenon, <1>2, <2>1, <2>2, ExitPreserves
<1> QED
  BY Zenon, <1>1, <1>2 DEF PassGate

\* Bootstrap begins on a host where nothing is.
LEMMA BootstrapStep ==
  ASSUME HostInv, Bootstrap
  PROVE  HostInv'
<1>1. /\ tool.pc = "idle" /\ boot.status = None /\ rec.status = None
      /\ UNCHANGED <<rec, base, host, db>> /\ NoFault
  BY Zenon DEF Bootstrap, World
<1>2. boot' \in BootType /\ boot'.status = "running"
  BY Zenon DEF Bootstrap, BootType
<1>3. tool' \in ToolType /\ tool'.pc = "boot" /\ ~tool'.bad
  BY Zenon, IdleIs DEF Bootstrap, ToolType, Pcs, BootPcs
<1>4. Types'
  BY Zenon, <1>1, <1>2, <1>3, FaultIs DEF HostInv, Types
<1>5. FilesAgree'
  BY Zenon, <1>1, <1>2, <1>3
    DEF HostInv, FilesAgree, InPlace, Early, Open, None, BootPcs, StartPcs, StagePcs,
        EndPcs, FailPcs
<1>6. InPlace'
  BY Zenon, <1>1, <1>2, <1>3
    DEF HostInv, FilesAgree, InPlace, Early, None, BootPcs, StartPcs, StagePcs, EndPcs,
        FailPcs
<1>7. Contained'
  BY Zenon, <1>1, <1>2, <1>3 DEF HostInv, Contained
<1>8. Approved'
  BY Zenon, <1>1, <1>2, <1>3 DEF HostInv, Approved
<1>9. UpInFence'
  BY Zenon, <1>1, <1>2, <1>3
    DEF HostInv, FilesAgree, InPlace, Contained, UpInFence, Reach, Early, Open, None,
        BootPcs, StartPcs, StagePcs, EndPcs, FailPcs
<1> QED
  BY Zenon, <1>4, <1>5, <1>6, <1>7, <1>8, <1>9 DEF HostInv

\* The bundle is frozen and the environment configured, or bootstrap fails.
LEMMA ConfigureStep ==
  ASSUME HostInv, Configure
  PROVE  HostInv'
<1>0. tool.pc = "boot" /\ UNCHANGED <<rec, host, db>>
  BY Zenon DEF Configure, World
<1>1. CASE /\ NoFault /\ Goto("boot") /\ Base("staged")
           /\ boot' = [boot EXCEPT !.phase = IF @ = "validated" THEN "env_configured" ELSE "validated"]
  <2>1. boot' \in BootType /\ boot'.status = boot.status
    BY Zenon, <1>1 DEF HostInv, Types, BootType
  <2>2. tool' \in ToolType /\ tool'.pc = "boot" /\ tool'.bad = tool.bad
    BY Zenon, <1>1, GotoIs DEF HostInv, Types, Pcs, BootPcs
  <2>3. base' \in BaseType
    BY Zenon, <1>1, BaseIs DEF HostInv, Types, BaseStates
  <2>4. Types'
    BY Zenon, <1>0, <1>1, <2>1, <2>2, <2>3, FaultIs DEF HostInv, Types
  <2>5. FilesAgree'
    BY Zenon, <1>0, <1>1, <2>1, <2>2, <2>3
      DEF HostInv, FilesAgree, InPlace, Early, Open, None, BootPcs, StartPcs, StagePcs,
          EndPcs, FailPcs
  <2>6. InPlace'
    BY Zenon, <1>0, <1>1, <2>1, <2>2, <2>3
      DEF HostInv, FilesAgree, InPlace, Early, None, BootPcs, StartPcs, StagePcs, EndPcs,
          FailPcs
  <2>7. Contained'
    BY Zenon, <1>0, <1>1, <2>1, <2>2, <2>3 DEF HostInv, Contained
  <2>8. Approved'
    BY Zenon, <1>0, <1>1, <2>1, <2>2, <2>3 DEF HostInv, Approved
  <2>9. UpInFence'
    BY Zenon, <1>0, <1>1, <2>1, <2>2, <2>3
      DEF HostInv, FilesAgree, InPlace, Contained, UpInFence, Reach, Early, Open, None,
          BootPcs, StartPcs, StagePcs, EndPcs, FailPcs
  <2> QED
    BY Zenon, <2>4, <2>5, <2>6, <2>7, <2>8, <2>9 DEF HostInv
<1>2. CASE BootFailed /\ UNCHANGED boot /\ Fault
  <2>1. UNCHANGED base /\ tool' \in ToolType /\ tool'.pc = "boot_contain" /\ tool'.bad = tool.bad
    BY Zenon, <1>2, GotoIs DEF BootFailed, HostInv, Types, Pcs, BootPcs
  <2>2. Types'
    BY Zenon, <1>0, <1>2, <2>1, FaultIs DEF HostInv, Types
  <2>3. FilesAgree'
    BY Zenon, <1>0, <1>2, <2>1
      DEF HostInv, FilesAgree, InPlace, Early, Open, None, BootPcs, StartPcs, StagePcs,
          EndPcs, FailPcs
  <2>4. InPlace'
    BY Zenon, <1>0, <1>2, <2>1
      DEF HostInv, FilesAgree, InPlace, Early, None, BootPcs, StartPcs, StagePcs, EndPcs,
          FailPcs
  <2>5. Contained'
    BY Zenon, <1>0, <1>2, <2>1 DEF HostInv, Contained
  <2>6. Approved'
    BY Zenon, <1>0, <1>2, <2>1 DEF HostInv, Approved
  <2>7. UpInFence'
    BY Zenon, <1>0, <1>2, <2>1
      DEF HostInv, FilesAgree, InPlace, Contained, UpInFence, Reach, Early, Open, None,
          BootPcs, StartPcs, StagePcs, EndPcs, FailPcs
  <2> QED
    BY Zenon, <2>2, <2>3, <2>4, <2>5, <2>6, <2>7 DEF HostInv
<1> QED
  BY Zenon, <1>1, <1>2 DEF Configure

\* The phase after this one.
LEMMA NextPhaseType ==
  ASSUME boot.phase \in {"env_configured"} \cup Range(BootPhases)
  PROVE  NextPhase \in {"compose_config", "data_services", "migration", "application_services",
                       "seal_release"}
<1>1. /\ DOMAIN BootPhases = 1..4
      /\ BootPhases[1] = "compose_config" /\ BootPhases[2] = "data_services"
      /\ BootPhases[3] = "migration" /\ BootPhases[4] = "application_services"
  BY DEF BootPhases
<1>2. /\ \A i \in DOMAIN BootPhases : i \in {1, 2, 3, 4}
      /\ {1, 2, 3, 4} \subseteq DOMAIN BootPhases
  BY <1>1
<1>3. /\ IndexOf(BootPhases, "compose_config") = 1 /\ IndexOf(BootPhases, "data_services") = 2
      /\ IndexOf(BootPhases, "migration") = 3
  BY Zenon, <1>1, <1>2 DEF IndexOf
<1>4. boot.phase \in {"env_configured", "compose_config", "data_services", "migration",
                     "application_services"}
  BY Zenon, BootPhaseSet
<1> QED
  BY <1>1, <1>3, <1>4 DEF NextPhase

\* A phase is recorded before its command runs.
LEMMA EnterPhaseStep ==
  ASSUME HostInv, EnterPhase
  PROVE  HostInv'
<1>0. tool.pc = "boot" /\ UNCHANGED <<rec, base, host, db>> /\ NoFault
  BY Zenon DEF EnterPhase, World
<1>1. boot' \in BootType /\ boot'.status = boot.status
  <2>1. NextPhase \in {"compose_config", "data_services", "migration", "application_services",
                       "seal_release"}
    BY Zenon, NextPhaseType DEF EnterPhase
  <2>2. boot' = [boot EXCEPT !.phase = NextPhase]
    BY Zenon DEF EnterPhase
  <2> QED
    BY Zenon, <2>1, <2>2 DEF HostInv, Types, BootType
<1>2. PICK to \in {"boot_seal", "boot_run"} : Goto(to)
  BY Zenon DEF EnterPhase
<1>3. tool' \in ToolType /\ tool'.pc = to /\ tool'.bad = tool.bad
  BY Zenon, <1>2, GotoIs DEF HostInv, Types, Pcs, BootPcs
<1>4. Types'
  BY Zenon, <1>0, <1>1, <1>2, <1>3, FaultIs DEF HostInv, Types
<1>5. FilesAgree'
  BY Zenon, <1>0, <1>1, <1>2, <1>3
    DEF HostInv, FilesAgree, InPlace, Early, Open, None, BootPcs, StartPcs, StagePcs,
        EndPcs, FailPcs
<1>6. InPlace'
  BY Zenon, <1>0, <1>1, <1>2, <1>3
    DEF HostInv, FilesAgree, InPlace, Early, None, BootPcs, StartPcs, StagePcs, EndPcs,
        FailPcs
<1>7. Contained'
  BY Zenon, <1>0, <1>1, <1>2, <1>3 DEF HostInv, Contained
<1>8. Approved'
  BY Zenon, <1>0, <1>1, <1>2, <1>3 DEF HostInv, Approved
<1>9. UpInFence'
  BY Zenon, <1>0, <1>1, <1>2, <1>3
    DEF HostInv, FilesAgree, InPlace, Contained, UpInFence, Reach, Early, Open, None,
        BootPcs, StartPcs, StagePcs, EndPcs, FailPcs
<1> QED
  BY Zenon, <1>4, <1>5, <1>6, <1>7, <1>8, <1>9 DEF HostInv

\* What a phase of bootstrap may leave on the host.
LEMMA PhaseHosts ==
  ASSUME host \in HostType
  PROVE  PhaseEffect \in HostType /\ PhasePartial \subseteq HostType
<1>1. ASSUME NEW i \in 0..6 PROVE Range(SubSeq(Stages, 1, i)) \subseteq Consumers
  <2>1. /\ DOMAIN SubSeq(Stages, 1, i) = 1..i
        /\ \A j \in 1..i : SubSeq(Stages, 1, i)[j] = Stages[j]
    BY StageList
  <2>2. 1..i \subseteq 1..6
    OBVIOUS
  <2> QED
    BY Zenon, <2>1, <2>2, StageList DEF Range, Consumers
<1>2. \A d \in {"down", "sick", "up"} : [host EXCEPT !.data = d] \in HostType
  BY Zenon DEF HostType
<1>3. \A up \in SUBSET Consumers : [host EXCEPT !.up = up] \in HostType
  BY Zenon DEF HostType
<1>4. PhaseEffect \in HostType
  BY Zenon, <1>2, <1>3 DEF PhaseEffect
<1>5. CASE boot.phase = "data_services"
  BY Zenon, <1>2, <1>4, <1>5 DEF PhasePartial
<1>6. CASE boot.phase = "application_services"
  BY Zenon, <1>1, <1>3, <1>4, <1>6, StageList DEF PhasePartial
<1>7. CASE boot.phase \notin {"data_services", "application_services"}
  BY Zenon, <1>4, <1>7 DEF PhasePartial
<1> QED
  BY Zenon, <1>5, <1>6, <1>7

\* A phase of bootstrap runs, or fails half way.
LEMMA RunPhaseStep ==
  ASSUME HostInv, RunPhase
  PROVE  HostInv'
<1>0. /\ tool.pc = "boot_run" /\ UNCHANGED <<boot, rec, base, db>> /\ host' \in HostType
      /\ Fault \/ NoFault
  BY Zenon, PhaseHosts DEF RunPhase, World, HostInv, Types
<1>1. PICK to \in {"boot", "boot_contain"} : Goto(to)
  BY Zenon DEF RunPhase
<1>2. tool' \in ToolType /\ tool'.pc = to /\ tool'.bad = tool.bad
  BY Zenon, <1>1, GotoIs DEF HostInv, Types, Pcs, BootPcs
<1>3. Types'
  BY Zenon, <1>0, <1>1, <1>2, FaultIs DEF HostInv, Types
<1>4. FilesAgree'
  BY Zenon, <1>0, <1>1, <1>2
    DEF HostInv, FilesAgree, InPlace, Early, Open, None, BootPcs, StartPcs, StagePcs,
        EndPcs, FailPcs
<1>5. InPlace'
  BY Zenon, <1>0, <1>1, <1>2
    DEF HostInv, FilesAgree, InPlace, Early, None, BootPcs, StartPcs, StagePcs, EndPcs,
        FailPcs
<1>6. Contained'
  BY Zenon, <1>0, <1>1, <1>2 DEF HostInv, Contained
<1>7. Approved'
  BY Zenon, <1>0, <1>1, <1>2 DEF HostInv, Approved
<1>8. UpInFence'
  BY Zenon, <1>0, <1>1, <1>2
    DEF HostInv, FilesAgree, InPlace, Contained, UpInFence, Reach, Early, Open, None,
        BootPcs, StartPcs, StagePcs, EndPcs, FailPcs
<1> QED
  BY Zenon, <1>3, <1>4, <1>5, <1>6, <1>7, <1>8 DEF HostInv

\* The first release is prepared, activated and ended.
LEMMA SealReleaseStep ==
  ASSUME HostInv, SealRelease
  PROVE  HostInv'
<1>0. tool.pc = "boot_seal" /\ UNCHANGED <<boot, rec, host, db>> /\ (Fault \/ NoFault)
  BY Zenon DEF SealRelease, World
<1>1. base' \in BaseType
  BY Zenon, BaseIs DEF SealRelease, HostInv, Types, BaseStates
<1>2. UNCHANGED tool \/ \E to \in {"boot_done", "boot_contain"} : Goto(to)
  BY Zenon DEF SealRelease
<1>3. tool' \in ToolType /\ tool'.pc \in {"boot_seal", "boot_done", "boot_contain"} /\ tool'.bad = tool.bad
  BY Zenon, <1>0, <1>2, GotoIs DEF HostInv, Types, Pcs, BootPcs
<1>4. Types'
  BY Zenon, <1>0, <1>1, <1>3, FaultIs DEF HostInv, Types
<1>5. FilesAgree'
  BY Zenon, <1>0, <1>1, <1>3
    DEF HostInv, FilesAgree, InPlace, Early, Open, None, BootPcs, StartPcs, StagePcs,
        EndPcs, FailPcs
<1>6. InPlace'
  BY Zenon, <1>0, <1>1, <1>3
    DEF HostInv, FilesAgree, InPlace, Early, None, BootPcs, StartPcs, StagePcs, EndPcs,
        FailPcs
<1>7. Contained'
  BY Zenon, <1>0, <1>1, <1>3 DEF HostInv, Contained
<1>8. Approved'
  BY Zenon, <1>0, <1>1, <1>3 DEF HostInv, Approved
<1>9. UpInFence'
  BY Zenon, <1>0, <1>1, <1>3
    DEF HostInv, FilesAgree, InPlace, Contained, UpInFence, Reach, Early, Open, None,
        BootPcs, StartPcs, StagePcs, EndPcs, FailPcs
<1> QED
  BY Zenon, <1>4, <1>5, <1>6, <1>7, <1>8, <1>9 DEF HostInv

\* Bootstrap has succeeded.
LEMMA BootDoneStep ==
  ASSUME HostInv, BootDone
  PROVE  HostInv'
<1>1. tool.pc = "boot_done" /\ UNCHANGED <<rec, base, host, db>> /\ NoFault
  BY Zenon DEF BootDone, World
<1>2. boot' \in BootType /\ boot'.status = "succeeded"
  BY Zenon DEF BootDone, BootType
<1>3. tool' \in ToolType /\ tool'.pc = "idle" /\ ~tool'.bad
  BY Zenon, IdleIs DEF BootDone, Exit
<1>4. Types'
  BY Zenon, <1>1, <1>2, <1>3, FaultIs DEF HostInv, Types
<1>5. FilesAgree'
  BY Zenon, <1>1, <1>2, <1>3
    DEF HostInv, FilesAgree, InPlace, Early, Open, None, BootPcs, StartPcs, StagePcs,
        EndPcs, FailPcs
<1>6. InPlace'
  BY Zenon, <1>1, <1>2, <1>3
    DEF HostInv, FilesAgree, InPlace, Early, None, BootPcs, StartPcs, StagePcs, EndPcs,
        FailPcs
<1>7. Contained'
  BY Zenon, <1>1, <1>2, <1>3 DEF HostInv, Contained
<1>8. Approved'
  BY Zenon, <1>1, <1>2, <1>3 DEF HostInv, Approved
<1>9. UpInFence'
  BY Zenon, <1>1, <1>2, <1>3
    DEF HostInv, FilesAgree, InPlace, Contained, UpInFence, Reach, Early, Open, None,
        BootPcs, StartPcs, StagePcs, EndPcs, FailPcs
<1> QED
  BY Zenon, <1>4, <1>5, <1>6, <1>7, <1>8, <1>9 DEF HostInv

\* A failed bootstrap stops what it started, or remembers that it could not.
LEMMA BootContainStep ==
  ASSUME HostInv, BootContain
  PROVE  HostInv'
<1>0. tool.pc = "boot_contain" /\ UNCHANGED <<boot, rec, base, db>>
  BY Zenon DEF BootContain, World
<1>1. CASE host' = [host EXCEPT !.up = {}] /\ Goto("boot_failed") /\ NoFault
  <2>1. host' \in HostType /\ host'.up = {}
    BY <1>1, UpIs DEF HostInv, Types
  <2>2. tool' \in ToolType /\ tool'.pc = "boot_failed"
    BY Zenon, <1>1, GotoIs DEF HostInv, Types, Pcs, BootPcs
  <2>3. Types'
    BY Zenon, <1>0, <1>1, <2>1, <2>2, FaultIs DEF HostInv, Types
  <2>4. FilesAgree'
    BY Zenon, <1>0, <1>1, <2>1, <2>2
      DEF HostInv, FilesAgree, InPlace, Early, Open, None, BootPcs, StartPcs, StagePcs,
          EndPcs, FailPcs
  <2>5. InPlace'
    BY Zenon, <1>0, <1>1, <2>1, <2>2
      DEF HostInv, FilesAgree, InPlace, Early, None, BootPcs, StartPcs, StagePcs, EndPcs,
          FailPcs
  <2>6. Contained'
    BY Zenon, <1>0, <1>1, <2>1, <2>2 DEF HostInv, Contained
  <2>7. Approved'
    BY Zenon, <1>0, <1>1, <2>1, <2>2 DEF HostInv, Approved
  <2>8. UpInFence'
    BY Zenon, <1>0, <1>1, <2>1, <2>2
      DEF HostInv, FilesAgree, InPlace, Contained, UpInFence, Reach, Early, Open, None,
          BootPcs, StartPcs, StagePcs, EndPcs, FailPcs
  <2> QED
    BY Zenon, <2>3, <2>4, <2>5, <2>6, <2>7, <2>8 DEF HostInv
<1>2. CASE /\ \E left \in SUBSET host.up : host' = [host EXCEPT !.up = left]
           /\ tool' = [tool EXCEPT !.pc = "boot_failed", !.bad = TRUE] /\ Fault
  <2>1. PICK left \in SUBSET host.up : host' = [host EXCEPT !.up = left]
    BY Zenon, <1>2
  <2>2. host' \in HostType /\ host'.up = left
    <3>1. left \in SUBSET Consumers
      BY Zenon, <2>1 DEF HostInv, Types, HostType
    <3> QED
      BY Zenon, <2>1, <3>1, UpIs DEF HostInv, Types
  <2>3. tool' \in ToolType /\ tool'.pc = "boot_failed" /\ tool'.bad
    BY Zenon, <1>2 DEF HostInv, Types, ToolType, Pcs, BootPcs
  <2>4. Types'
    BY Zenon, <1>0, <1>2, <2>2, <2>3, FaultIs DEF HostInv, Types
  <2>5. FilesAgree'
    BY Zenon, <1>0, <1>2, <2>2, <2>3
      DEF HostInv, FilesAgree, InPlace, Early, Open, None, BootPcs, StartPcs, StagePcs,
          EndPcs, FailPcs
  <2>6. InPlace'
    BY Zenon, <1>0, <1>2, <2>2, <2>3
      DEF HostInv, FilesAgree, InPlace, Early, None, BootPcs, StartPcs, StagePcs, EndPcs,
          FailPcs
  <2>7. Contained'
    BY Zenon, <1>0, <1>2, <2>2, <2>3 DEF HostInv, Contained
  <2>8. Approved'
    BY Zenon, <1>0, <1>2, <2>2, <2>3 DEF HostInv, Approved
  <2>9. UpInFence'
    BY Zenon, <1>0, <1>2, <2>2, <2>3
      DEF HostInv, FilesAgree, InPlace, Contained, UpInFence, Reach, Early, Open, None,
          BootPcs, StartPcs, StagePcs, EndPcs, FailPcs
  <2> QED
    BY Zenon, <2>4, <2>5, <2>6, <2>7, <2>8, <2>9 DEF HostInv
<1> QED
  BY Zenon, <1>1, <1>2 DEF BootContain

\* The containment is recorded as what it was.
LEMMA BootFailureStep ==
  ASSUME HostInv, BootFailure
  PROVE  HostInv'
<1>1. tool.pc = "boot_failed" /\ UNCHANGED <<rec, base, host, db>> /\ NoFault
  BY Zenon DEF BootFailure, World
<1>2. /\ boot' \in BootType /\ boot'.status = "failed"
      /\ boot'.phase = "contained" => ~tool.bad
  BY Zenon DEF BootFailure, BootType
<1>3. tool' \in ToolType /\ tool'.pc = "idle" /\ ~tool'.bad
  BY Zenon, IdleIs DEF BootFailure, Exit
<1>4. Types'
  BY Zenon, <1>1, <1>2, <1>3, FaultIs DEF HostInv, Types
<1>5. FilesAgree'
  BY Zenon, <1>1, <1>2, <1>3
    DEF HostInv, FilesAgree, InPlace, Early, Open, None, BootPcs, StartPcs, StagePcs,
        EndPcs, FailPcs
<1>6. InPlace'
  BY Zenon, <1>1, <1>2, <1>3
    DEF HostInv, FilesAgree, InPlace, Early, None, BootPcs, StartPcs, StagePcs, EndPcs,
        FailPcs
<1>7. Contained'
  BY Zenon, <1>1, <1>2, <1>3 DEF HostInv, Contained
<1>8. Approved'
  BY Zenon, <1>1, <1>2, <1>3 DEF HostInv, Approved
<1>9. UpInFence'
  BY Zenon, <1>1, <1>2, <1>3
    DEF HostInv, FilesAgree, InPlace, Contained, UpInFence, Reach, Early, Open, None,
        BootPcs, StartPcs, StagePcs, EndPcs, FailPcs
<1> QED
  BY Zenon, <1>4, <1>5, <1>6, <1>7, <1>8, <1>9 DEF HostInv

\* Ordinary startup starts everything behind the gate.
LEMMA OrdinaryUpStep ==
  ASSUME HostInv, OrdinaryUp
  PROVE  HostInv'
<1>1. /\ tool.pc = "idle" /\ UNCHANGED <<boot, rec, base, db, tool>> /\ NoFault
      /\ boot.status = "succeeded" /\ rec.status \in {None, "succeeded"}
  BY Zenon DEF OrdinaryUp, StartAllowed, Files, World
<1>2. host' \in HostType
  BY Zenon DEF OrdinaryUp, HostType
<1>3. Types'
  BY Zenon, <1>1, <1>2, FaultIs DEF HostInv, Types
<1>4. FilesAgree'
  BY Zenon, <1>1, <1>2
    DEF HostInv, FilesAgree, InPlace, Early, Open, None, BootPcs, StartPcs, StagePcs,
        EndPcs, FailPcs
<1>5. InPlace'
  BY Zenon, <1>1, <1>2
    DEF HostInv, FilesAgree, InPlace, Early, None, BootPcs, StartPcs, StagePcs, EndPcs,
        FailPcs
<1>6. Contained'
  BY Zenon, <1>1, <1>2 DEF HostInv, Contained
<1>7. Approved'
  BY Zenon, <1>1, <1>2 DEF HostInv, Approved
<1>8. UpInFence'
  BY Zenon, <1>1, <1>2
    DEF HostInv, FilesAgree, InPlace, Contained, UpInFence, Reach, Early, Open, None,
        BootPcs, StartPcs, StagePcs, EndPcs, FailPcs
<1> QED
  BY Zenon, <1>3, <1>4, <1>5, <1>6, <1>7, <1>8 DEF HostInv

\* A command dies, possibly with the stage or a part of the phase up.
LEMMA HostCrashStep ==
  ASSUME HostInv, HostCrash
  PROVE  HostInv'
<1>0. /\ tool' = Idle /\ UNCHANGED <<boot, rec, base, db>> /\ Fault
  BY Zenon DEF HostCrash, Files, World, Exit
<1>1. CASE tool.pc = "up"
  <2>1. host' = host \/ host' = [host EXCEPT !.up = host.up \cup {tool.stage}]
    BY Zenon, <1>1 DEF HostCrash
  <2>2. host' \in HostType /\ UpInFence'
    BY Zenon, <1>0, <1>1, <2>1, StageInFence, FewerInFence DEF HostInv, Types
  <2> QED
    BY Zenon, <1>0, <2>2, ExitPreserves DEF HostInv, Types
<1>2. CASE tool.pc = "boot_run"
  <2>1. host' \in PhasePartial
    BY Zenon, <1>2 DEF HostCrash
  <2>2. host' \in HostType
    BY Zenon, <2>1, PhaseHosts DEF HostInv, Types
  <2>3. UpInFence'
    BY Zenon, <1>0, <1>2 DEF HostInv, InPlace, BootPcs, UpInFence, None
  <2> QED
    BY Zenon, <1>0, <2>2, <2>3, ExitPreserves DEF HostInv, Types
<1>3. CASE tool.pc \notin {"up", "boot_run"}
  <2>1. host' = host
    BY Zenon, <1>3 DEF HostCrash
  <2>2. UpInFence'
    BY Zenon, <1>0, <2>1, FewerInFence DEF HostInv
  <2> QED
    BY Zenon, <1>0, <2>1, <2>2, ExitPreserves DEF HostInv, Types
<1> QED
  BY Zenon, <1>1, <1>2, <1>3

\* The host reboots: nothing runs.
LEMMA RebootStep ==
  ASSUME HostInv, Reboot
  PROVE  HostInv'
<1>0. tool' = Idle /\ UNCHANGED <<boot, rec, base, db>> /\ Fault
  BY Zenon DEF Reboot, Files, World, Exit
<1>1. host' \in HostType /\ host'.up = {}
  BY Zenon DEF Reboot, HostType
<1>2. UpInFence'
  BY Zenon, <1>0, <1>1, FewerInFence DEF HostInv
<1> QED
  BY Zenon, <1>0, <1>1, <1>2, ExitPreserves DEF HostInv, Types

\* A container dies.
LEMMA FallStep ==
  ASSUME HostInv, NEW s \in Consumers, Fall(s)
  PROVE  HostInv'
<1>0. UNCHANGED <<boot, rec, base, db, tool>> /\ Fault
  BY Zenon DEF Fall, Files, World
<1>1. host' \in HostType /\ host'.up \subseteq host.up
  <2>1. host.up \ {s} \in SUBSET Consumers
    BY Zenon DEF HostInv, Types, HostType
  <2> QED
    BY Zenon, <2>1, UpIs DEF Fall, HostInv, Types
<1>2. Types'
  BY Zenon, <1>0, <1>1, FaultIs DEF HostInv, Types
<1>3. FilesAgree'
  BY Zenon, <1>0, <1>1
    DEF HostInv, FilesAgree, InPlace, Early, Open, None, BootPcs, StartPcs, StagePcs,
        EndPcs, FailPcs
<1>4. InPlace'
  BY Zenon, <1>0, <1>1
    DEF HostInv, FilesAgree, InPlace, Early, None, BootPcs, StartPcs, StagePcs, EndPcs,
        FailPcs
<1>5. Contained'
  BY Zenon, <1>0, <1>1 DEF HostInv, Contained
<1>6. Approved'
  BY Zenon, <1>0, <1>1 DEF HostInv, Approved
<1>7. UpInFence'
  BY Zenon, <1>0, <1>1
    DEF HostInv, FilesAgree, InPlace, Contained, UpInFence, Reach, Early, Open, None,
        BootPcs, StartPcs, StagePcs, EndPcs, FailPcs
<1> QED
  BY Zenon, <1>2, <1>3, <1>4, <1>5, <1>6, <1>7 DEF HostInv

\* The restore writes while no stage is being started.
LEMMA RestoreStep ==
  ASSUME HostInv, Restore
  PROVE  HostInv'
<1>0. UNCHANGED <<boot, rec, base, host, tool>> /\ NoFault /\ tool.pc # "up"
  BY Zenon DEF Restore, Files
<1>1. db' \in DbType
  BY HostAssumption DEF Restore, HostInv, Types, DbType
<1>2. Types'
  BY Zenon, <1>0, <1>1, FaultIs DEF HostInv, Types
<1>3. FilesAgree'
  BY Zenon, <1>0, <1>1
    DEF HostInv, FilesAgree, InPlace, Early, Open, None, BootPcs, StartPcs, StagePcs,
        EndPcs, FailPcs
<1>4. InPlace'
  BY Zenon, <1>0, <1>1
    DEF HostInv, FilesAgree, InPlace, Early, None, BootPcs, StartPcs, StagePcs, EndPcs,
        FailPcs
<1>5. Contained'
  BY Zenon, <1>0, <1>1 DEF HostInv, Contained
<1>6. Approved'
  BY Zenon, <1>0, <1>1 DEF HostInv, Approved
<1>7. UpInFence'
  BY Zenon, <1>0, <1>1
    DEF HostInv, FilesAgree, InPlace, Contained, UpInFence, Reach, Early, Open, None,
        BootPcs, StartPcs, StagePcs, EndPcs, FailPcs
<1> QED
  BY Zenon, <1>2, <1>3, <1>4, <1>5, <1>6, <1>7 DEF HostInv

\* The application writes, and sends while its workers run.
LEMMA WorkStep ==
  ASSUME HostInv, AppWork
  PROVE  HostInv'
<1>0. UNCHANGED <<boot, rec, base, host, tool>> /\ NoFault /\ host.up \cap {"api", "workers"} # {}
  BY Zenon DEF AppWork, Files
<1>1. db' \in DbType /\ ("workers" \notin host.up => db'.busy = db.busy)
  <2>1. db \in DbType
    BY Zenon DEF HostInv, Types
  <2>2. CASE db.rows < MaxWrites /\ db' = [db EXCEPT !.rows = @ + 1]
    BY <2>1, <2>2, HostAssumption DEF DbType
  <2>3. CASE db.work < MaxWrites /\ db' = [db EXCEPT !.work = @ + 1]
    BY <2>1, <2>3, HostAssumption DEF DbType
  <2>4. CASE "workers" \in host.up /\ db' = [db EXCEPT !.busy = ~@]
    BY Zenon, <2>1, <2>4 DEF DbType
  <2> QED
    BY Zenon, <2>2, <2>3, <2>4 DEF AppWork
<1>2. Types' /\ FilesAgree' /\ InPlace' /\ Contained' /\ UpInFence'
  <2>1. Types'
    BY Zenon, <1>0, <1>1, FaultIs DEF HostInv, Types
  <2>2. FilesAgree' /\ InPlace'
    BY Zenon, <1>0 DEF HostInv, FilesAgree, InPlace
  <2>3. Contained' /\ UpInFence'
    BY Zenon, <1>0 DEF HostInv, Contained, UpInFence, Reach
  <2> QED
    BY Zenon, <2>1, <2>2, <2>3
<1>3. Approved'
  <2> SUFFICES ASSUME tool.pc = "up", rec.status = "running"
               PROVE  /\ rec.phase # "adopted"
                      /\ tool.stage = "workers" => "workers" \notin host.up
    BY Zenon, <1>0, <1>1 DEF HostInv, Approved
  <2>1. host.up \subseteq Recorded[rec.phase]
    BY Zenon DEF HostInv, Approved
  <2>2. rec.phase \in Open /\ tool.stage = Following[rec.phase]
    BY Zenon DEF HostInv, InPlace, StagePcs
  <2> QED
    BY <1>0, <2>1, <2>2 DEF Recorded, Following, Open
<1> QED
  BY Zenon, <1>2, <1>3 DEF HostInv

----------------------------------------------------------------------------
(* The theorems *)

\* Every step keeps the invariant.
LEMMA StepPreserves == HostInv /\ [HostNext]_hostVars => HostInv'
<1> SUFFICES ASSUME HostInv, [HostNext]_hostVars PROVE HostInv'
  OBVIOUS
<1>1. CASE UNCHANGED hostVars
  <2>1. UNCHANGED <<boot, rec, base, host, db, tool, faults>>
    BY Zenon, <1>1 DEF hostVars
  <2>2. Types' /\ FilesAgree' /\ InPlace'
    BY Zenon, <2>1 DEF HostInv, Types, FilesAgree, InPlace
  <2>3. Contained' /\ Approved' /\ UpInFence'
    BY Zenon, <2>1 DEF HostInv, Contained, Approved, UpInFence, Reach
  <2> QED
    BY Zenon, <2>2, <2>3 DEF HostInv
<1>2. CASE ToolStep
  BY Zenon, <1>2, ContainStep, FailStoreStep, FailRecordStep, WriteFenceStep,
      StopConsumersStep,
     StartDataStep, DataStartedStep, ObserveAgainStep, ObservedStep, AdoptAgainStep,
     AdoptedStep,
     StageUpStep, StageStartedStep, SealStep, VerifyStep, UnfenceStep, EndReleaseStep,
     WriteBaselineStep, PassGateStep, ConfigureStep, EnterPhaseStep, RunPhaseStep,
     SealReleaseStep,
     BootDoneStep, BootContainStep, BootFailureStep DEF ToolStep
<1>3. CASE StartRecovery \/ Observe \/ Adopt \/ Bootstrap \/ OrdinaryUp
  BY Zenon, <1>3, StartRecoveryStep, ObserveStep, AdoptStep, BootstrapStep, OrdinaryUpStep
<1>4. CASE \E s \in Consumers : Resume(s) \/ Fall(s)
  BY Zenon, <1>4, ResumeStep, FallStep
<1>5. CASE HostCrash \/ Reboot \/ Restore \/ AppWork
  BY Zenon, <1>5, HostCrashStep, RebootStep, RestoreStep, WorkStep
<1> QED
  BY Zenon, <1>1, <1>2, <1>3, <1>4, <1>5 DEF HostNext

\* A new host has the invariant.
LEMMA InitHolds == HostInit => HostInv
<1> SUFFICES ASSUME HostInit PROVE HostInv
  OBVIOUS
<1>1. boot \in BootType /\ boot.status = None
  BY Zenon DEF HostInit, BootType
<1>2. rec \in RecType /\ rec.status = None
  <2>1. <<>> \in Seq(Nat)
    OBVIOUS
  <2> QED
    BY Zenon, <2>1 DEF HostInit, RecType
<1>3. base \in BaseType
  BY Zenon DEF HostInit, BaseType, BaseStates
<1>4. host \in HostType /\ host.up = {}
  BY Zenon DEF HostInit, HostType
<1>5. db \in DbType
  BY HostAssumption DEF HostInit, DbType
<1>6. tool \in ToolType /\ tool.pc = "idle" /\ ~tool.bad
  BY Zenon, IdleIs DEF HostInit
<1>7. faults \in 0..MaxFaults
  BY HostAssumption DEF HostInit
<1> QED
  BY Zenon, <1>1, <1>2, <1>3, <1>4, <1>5, <1>6, <1>7
     DEF HostInv, Types, FilesAgree, InPlace, Contained, Approved, UpInFence, None,
         BootPcs, StartPcs, StagePcs, EndPcs, FailPcs

\* In an open recovery only the stage that is being started comes up.
LEMMA OnlyStageRises ==
  ASSUME HostInv, [HostNext]_hostVars, rec.status = "running"
  PROVE  \/ host'.up \subseteq host.up
         \/ tool.pc = "up" /\ host'.up \subseteq host.up \cup {tool.stage}
<1>0. host \in HostType /\ tool.pc \notin BootPcs
  BY Zenon DEF HostInv, Types, InPlace, None
<1>1. CASE UNCHANGED host
  BY Zenon, <1>1
<1>2. CASE Contain \/ StopConsumers
  BY Zenon, <1>0, <1>2 DEF Contain, StopConsumers, HostType
<1>3. CASE StartData
  BY Zenon, <1>0, <1>3 DEF StartData, HostType
<1>4. CASE StageUp
  BY Zenon, <1>0, <1>4 DEF StageUp, HostType
<1>5. CASE RunPhase \/ BootContain
  BY Zenon, <1>0, <1>5 DEF RunPhase, BootContain, BootPcs
<1>6. CASE OrdinaryUp
  BY Zenon, <1>6 DEF OrdinaryUp, StartAllowed, None
<1>7. CASE HostCrash
  BY Zenon, <1>0, <1>7 DEF HostCrash, BootPcs, HostType
<1>8. CASE Reboot \/ \E s \in Consumers : Fall(s)
  BY <1>0, <1>8 DEF Reboot, Fall, HostType
<1>9. CASE Restore \/ AppWork \/ StartRecovery \/ Observe \/ Adopt \/ Bootstrap
           \/ \E s \in Consumers : Resume(s)
  BY Zenon, <1>9 DEF Restore, AppWork, StartRecovery, Observe, Adopt, Bootstrap, Resume
<1>10. CASE ToolStep
  BY Zenon, <1>1, <1>2, <1>3, <1>4, <1>5, <1>10
    DEF ToolStep, FailStore, FailRecord, WriteFence, DataStarted, ObserveAgain,
     Observed, AdoptAgain, Adopted, StageStarted, Seal, VerifyServices, Unfence,
     EndRelease, WriteBaseline,
     PassGate, Configure, EnterPhase, SealRelease, BootDone, BootFailure
<1> QED
  BY Zenon, <1>1, <1>6, <1>7, <1>8, <1>9, <1>10 DEF HostNext, hostVars

\* The strengthened invariant of the recovery files, the running command and the
\* services, whatever fails, dies or reboots.
THEOREM HostInvariant == HostSpec => []HostInv
BY InitHolds, StepPreserves, PTL DEF HostSpec

\* No service that sends or accepts runs outside the fence: Fenced holds for any
\* number of faults and writes (_assert_recovery_services_stopped,
\* _record_recovery_failure, _contain_failed_bootstrap).
THEOREM HostFenced == HostSpec => []Fenced
BY HostInvariant, FencedFollows, PTL

\* A recovery starts its first service over the approved database only, and the
\* workers never over sending that was in flight.
THEOREM HostStartsOnApproved == HostSpec => StartsOnApproved
<1> DEFINE A == rec.status = "running" =>
       /\ rec.phase = "adopted" /\ host.up = {} /\ host'.up # {} => rec.fp = <<db.rows>>
       /\ "workers" \notin host.up /\ "workers" \in host'.up => ~db.busy
<1>1. HostInv /\ [HostNext]_hostVars => A
  <2> SUFFICES ASSUME HostInv, [HostNext]_hostVars, rec.status = "running" PROVE A
    OBVIOUS
  <2>1. CASE host'.up \subseteq host.up
    BY Zenon, <2>1
  <2>2. CASE tool.pc = "up" /\ host'.up \subseteq host.up \cup {tool.stage}
    BY Zenon, <2>2 DEF HostInv, Approved
  <2> QED
    BY Zenon, <2>1, <2>2, OnlyStageRises
<1>2. HostInv /\ [HostNext]_hostVars => [A]_hostVars
  BY Zenon, <1>1
<1> HIDE DEF A
<1>3. HostSpec => [][A]_hostVars
  BY <1>2, HostInvariant, PTL DEF HostSpec
<1> QED
  BY Zenon, <1>3 DEF StartsOnApproved, A

=============================================================================
