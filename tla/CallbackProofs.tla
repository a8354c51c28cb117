-------------------------- MODULE CallbackProofs --------------------------
(***************************************************************************)
(* Proofs about Callback, for any number of tasks, workers, items and         *)
(* configurations and for every retry schedule.                             *)
(***************************************************************************)
EXTENDS Callback, FiniteSetTheorems, TLAPS

\* A lease names one claim: of the workers, the rows and the authority, those
\* that carry it belong together.
Belongs(i) ==
  /\ w[i].pc = "idle" => w[i].lease = 0
  /\ w[i].pc # "idle" =>
       /\ w[i].lease # 0 /\ w[i].task \in Tasks
       /\ task[w[i].task].status # "none"
       /\ \A j \in Workers : w[j].lease = w[i].lease => j = i
       /\ \A t \in Tasks : task[t].lease = w[i].lease => t = w[i].task
       /\ auth.lease = w[i].lease => auth.task = w[i].task

\* From Acquire to Post a worker whose claim is live has the authority, and the
\* authority pins the configuration.
Pinned(i) ==
  w[i].pc \in {"load", "confirm", "post"} =>
    /\ Holds(i) => HasAuthority(i)
    /\ HasAuthority(i) => app.on /\ app.conf = task[w[i].task].conf

\* What a worker under a live claim knows of the row is still so.
Knows(i) ==
  /\ w[i].pc = "mark" => w[i].outcome \in {"ok", "busy", "fail"}
  /\ w[i].pc = "release" => w[i].outcome \in {"ok", "fail", "lost"}
  /\ w[i].pc # "idle" /\ Holds(i) =>
       /\ w[i].retry = task[w[i].task].retry
       /\ w[i].pc \in {"confirm", "post"} => w[i].items = task[w[i].task].items
       /\ w[i].pc \in {"release", "mark"} =>
            /\ w[i].outcome = "ok" => task[w[i].task].items \subseteq got
            /\ w[i].outcome = "fail" => tries[w[i].task] > w[i].retry

\* A row that is open has failed as often as its counter says; one that is being
\* written is not there yet; the authority is given for a task.
Rows ==
  /\ \A t \in Tasks : /\ draft[t] # {} => task[t].status = "none"
                      /\ task[t].status \in {"pending", "retrying"} => tries[t] >= task[t].retry
  /\ auth.live => auth.task \in Tasks

IndInv ==
  /\ TypeOK /\ Rows /\ EndsAreEarned
  /\ \A i \in Workers : Belongs(i) /\ Pinned(i) /\ Knows(i)

LEMMA FreshLease ==
  ASSUME TypeOK, NEW i \in Workers, w[i].lease = 0
  PROVE  \E l \in Lease : l \notin Remembered
<1> DEFINE T == Cardinality(Tasks)
           W == Cardinality(Workers)
           A == {task[t].lease : t \in Tasks}
           B == {w[j].lease : j \in Workers \ {i}}
<1>1. T \in Nat /\ W \in Nat /\ W > 0
  BY CallbackAssumption, FS_CardinalityType, FS_EmptySet
<1>2. IsFiniteSet(Lease) /\ Cardinality(Lease) = T + W + 1
  <2>1. 1 \in Int /\ T + W + 1 \in Int /\ ~(1 > T + W + 1) /\ (T + W + 1) - 1 + 1 = T + W + 1
    BY <1>1
  <2> HIDE DEF T, W
  <2> QED BY Zenon, <2>1, FS_Interval DEF Lease, T, W
<1>3. IsFiniteSet(A) /\ Cardinality(A) <= T
  <2>1. [t \in Tasks |-> task[t].lease] \in Surjection(Tasks, A)
    BY Zenon DEF Surjection
  <2> QED BY Zenon, <2>1, CallbackAssumption, FS_Surjection
<1>4. IsFiniteSet(B) /\ Cardinality(B) <= W - 1
  <2>1. [j \in Workers \ {i} |-> w[j].lease] \in Surjection(Workers \ {i}, B)
    BY Zenon DEF Surjection
  <2>2. IsFiniteSet(Workers \ {i}) /\ Cardinality(Workers \ {i}) = W - 1
    BY Zenon, CallbackAssumption, FS_RemoveElement
  <2> QED BY <2>1, <2>2, FS_Surjection
<1>5. IsFiniteSet(A \cup B) /\ Cardinality(A \cup B) <= T + W - 1
  <2>1. /\ IsFiniteSet(A \cup B)
        /\ Cardinality(A \cup B) = Cardinality(A) + Cardinality(B) - Cardinality(A \cap B)
    BY Zenon, <1>3, <1>4, FS_Union
  <2>2. Cardinality(A) \in Nat /\ Cardinality(B) \in Nat /\ Cardinality(A \cap B) \in Nat
    BY Zenon, <1>3, <1>4, FS_CardinalityType, FS_Intersection
  <2> HIDE DEF A, B
  <2> QED BY <1>1, <1>3, <1>4, <2>1, <2>2
<1>6. IsFiniteSet((A \cup B) \cup {auth.lease}) /\ Cardinality((A \cup B) \cup {auth.lease}) <= T + W
  <2>1. Cardinality(A \cup B) \in Nat
    BY Zenon, <1>5, FS_CardinalityType
  <2>2. /\ IsFiniteSet((A \cup B) \cup {auth.lease})
        /\ Cardinality((A \cup B) \cup {auth.lease}) \in {Cardinality(A \cup B), Cardinality(A \cup B) + 1}
    BY Zenon, <1>5, FS_AddElement
  <2> HIDE DEF A, B, T, W
  <2> QED BY <1>1, <1>5, <2>1, <2>2
<1>7. ~(Lease \subseteq (A \cup B) \cup {auth.lease})
  <2> SUFFICES ASSUME Lease \subseteq (A \cup B) \cup {auth.lease} PROVE FALSE
    OBVIOUS
  <2>1. Cardinality(Lease) <= Cardinality((A \cup B) \cup {auth.lease})
    BY Zenon, <1>6, FS_Subset
  <2>2. Cardinality((A \cup B) \cup {auth.lease}) \in Nat
    BY Zenon, <1>6, FS_CardinalityType
  <2> HIDE DEF A, B
  <2> QED BY <1>1, <1>2, <1>6, <2>1, <2>2
<1>8. 0 \notin Lease
  BY <1>1 DEF Lease
<1> QED BY Zenon, <1>7, <1>8 DEF Remembered

-----------------------------------------------------------------------------
(* Steps of a worker that leave the rows alone.                             *)

Auths == [task : Tasks \cup {NoTask}, lease : Lease \cup {0}, live : BOOLEAN]

\* A worker that goes on with its claim, or stops, disturbs nobody: it may give
\* back an authority that is its own or nobody's, items may be acknowledged and
\* failures counted (Acquire, Load, Confirm, Post, Release, Mark, Crash).
LEMMA MoveKeeps ==
  ASSUME IndInv, NEW i \in Workers,
         w' \in [Workers -> Delivery], \A j \in Workers \ {i} : w'[j] = w[j],
         \/ w'[i] = Idle
         \/ /\ w[i].pc # "idle" /\ w'[i].pc # "idle"
            /\ w'[i].task = w[i].task /\ w'[i].lease = w[i].lease
            /\ w'[i].pc \in {"load", "confirm", "post"} =>
                 w[i].pc \in {"load", "confirm", "post"} /\ UNCHANGED auth,
         Knows(i)',
         UNCHANGED <<app, task, draft, manual>>,
         \/ UNCHANGED auth
         \/ auth' = NoAuth /\ (~auth.live \/ auth.lease = w[i].lease),
         got \subseteq got', got' \subseteq Items,
         tries' \in [Tasks -> 0..(MaxRetry + 1)], \A t \in Tasks : tries[t] <= tries'[t],
         faults' \in 0..MaxFaults
  PROVE  IndInv'
<1> USE DEF IndInv
<1>1. TypeOK'
  <2>1. NoAuth \in Auths /\ auth \in Auths
    BY Zenon DEF TypeOK, Auths, NoAuth
  <2> QED BY Zenon, <2>1 DEF TypeOK, Auths
<1>2. Rows'
  <2>1. \A t \in Tasks : tries[t] \in Nat /\ tries'[t] \in Nat /\ task[t].retry \in Nat
    BY CallbackAssumption DEF TypeOK, Row
  <2>2. auth'.live => auth'.task \in Tasks
    BY DEF Rows, NoAuth
  <2> QED BY <2>1, <2>2 DEF Rows
<1>3. EndsAreEarned'
  <2>1. ASSUME NEW t \in Tasks, tries[t] = MaxRetry + 1 PROVE tries'[t] = MaxRetry + 1
    BY <2>1, CallbackAssumption DEF TypeOK
  <2> QED BY Zenon, <2>1 DEF EndsAreEarned
<1>4. ASSUME NEW j \in Workers PROVE Belongs(j)'
  BY <1>4 DEF Belongs, Idle, NoAuth
<1>5. ASSUME NEW j \in Workers PROVE Pinned(j)'
  <2>1. CASE j = i
    BY <2>1 DEF Pinned, Holds, HasAuthority, Idle
  <2>2. CASE j # i
    <3>1. w[j].pc # "idle" => auth.lease # w[i].lease \/ auth.lease # w[j].lease
      BY Zenon, <2>2 DEF Belongs
    <3> QED BY <1>5, <2>2, <3>1 DEF Pinned, Holds, HasAuthority, NoAuth
  <2> QED BY Zenon, <2>1, <2>2
<1>6. ASSUME NEW j \in Workers PROVE Knows(j)'
  <2>1. CASE j # i
    <3>1. w[j].pc # "idle" => /\ w[j].task \in Tasks /\ w[j].retry \in Nat
                             /\ tries[w[j].task] \in Nat /\ tries'[w[j].task] \in Nat
                             /\ tries[w[j].task] <= tries'[w[j].task]
      BY CallbackAssumption DEF TypeOK, Delivery, Belongs
    <3> QED BY SMTT(20), <1>6, <2>1, <3>1 DEF Knows, Holds
  <2> QED BY Zenon, <2>1
<1> QED BY Zenon, <1>1, <1>2, <1>3, <1>4, <1>5, <1>6

-----------------------------------------------------------------------------
(* The actions.                                                             *)

LEMMA DraftKeeps ==
  ASSUME IndInv, NEW t \in Tasks, Draft(t)
  PROVE  IndInv'
<1> USE DEF IndInv
<1>1. TypeOK'
  BY Zenon DEF TypeOK, Draft
<1>2. Rows'
  BY DEF Rows, Draft
<1>3. EndsAreEarned'
  BY Zenon DEF EndsAreEarned, Draft
<1>4. ASSUME NEW j \in Workers PROVE Belongs(j)'
  BY Zenon, <1>4 DEF Belongs, Draft
<1>5. ASSUME NEW j \in Workers PROVE Pinned(j)'
  BY Zenon, <1>5 DEF Pinned, Holds, HasAuthority, Draft
<1>6. ASSUME NEW j \in Workers PROVE Knows(j)'
  BY Zenon, <1>6, CallbackAssumption DEF Rows, Knows, Holds, Draft
<1> QED BY Zenon, <1>1, <1>2, <1>3, <1>4, <1>5, <1>6

LEMMA CreateKeeps ==
  ASSUME IndInv, NEW t \in Tasks, Create(t)
  PROVE  IndInv'
<1> USE DEF IndInv
<1>1. TypeOK'
  <2>1. PICK x \in Items : task' = [task EXCEPT ![t] = [NoRow EXCEPT !.status = "pending", !.items = {x}, !.conf = CHOOSE c \in draft[t] : TRUE]]
    BY Zenon DEF Create
  <2>2. /\ NoRow \in Row /\ {x} \in SUBSET Items
        /\ (CHOOSE c \in draft[t] : TRUE) \in Confs
    BY CallbackAssumption DEF TypeOK, Row, NoRow, Create
  <2>4. [NoRow EXCEPT !.status = "pending", !.items = {x}, !.conf = CHOOSE c \in draft[t] : TRUE] \in Row
    BY Zenon, <2>2 DEF Row
  <2>3. task' \in [Tasks -> Row]
    BY Zenon, <2>1, <2>4 DEF TypeOK
  <2> QED BY Zenon, <2>3, CallbackAssumption DEF TypeOK, Create
<1>2. Rows'
  BY DEF TypeOK, Rows, Create, NoRow
<1>3. EndsAreEarned'
  BY DEF EndsAreEarned, Create, NoRow
<1>4. ASSUME NEW j \in Workers PROVE Belongs(j)'
  BY <1>4 DEF Belongs, Create, NoRow
<1>5. ASSUME NEW j \in Workers PROVE Pinned(j)'
  BY <1>5 DEF Rows, Belongs, Pinned, Holds, HasAuthority, Create
<1>6. ASSUME NEW j \in Workers PROVE Knows(j)'
  BY <1>6 DEF Rows, Belongs, Knows, Holds, Create
<1> QED BY Zenon, <1>1, <1>2, <1>3, <1>4, <1>5, <1>6

LEMMA AppendKeeps ==
  ASSUME IndInv, NEW t \in Tasks, Append(t)
  PROVE  IndInv'
<1> USE DEF IndInv
<1>1. TypeOK'
  <2>1. PICK x \in Items : task' = [task EXCEPT ![t] = [task[t] EXCEPT !.items = @ \cup {x}]]
    BY Zenon DEF Append
  <2>2. task[t] \in Row
    BY Zenon DEF TypeOK
  <2>4. [task[t] EXCEPT !.items = @ \cup {x}] \in Row
    BY Zenon, <2>2 DEF Row
  <2>3. task' \in [Tasks -> Row]
    BY Zenon, <2>1, <2>4 DEF TypeOK
  <2> QED BY Zenon, <2>3, CallbackAssumption DEF TypeOK, Append
<1>2. Rows'
  BY DEF Rows, Append
<1>3. EndsAreEarned'
  BY DEF EndsAreEarned, Append
<1>4. ASSUME NEW j \in Workers PROVE Belongs(j)'
  BY <1>4 DEF Belongs, Append
<1>5. ASSUME NEW j \in Workers PROVE Pinned(j)'
  BY <1>5 DEF Pinned, Holds, HasAuthority, Append
<1>6. ASSUME NEW j \in Workers PROVE Knows(j)'
  BY <1>6 DEF Knows, Holds, Append
<1> QED BY Zenon, <1>1, <1>2, <1>3, <1>4, <1>5, <1>6

LEMMA ClaimLapsesKeeps ==
  ASSUME IndInv, NEW t \in Tasks, ClaimLapses(t)
  PROVE  IndInv'
<1> USE DEF IndInv
<1>1. TypeOK'
  <2>1. task' = [task EXCEPT ![t] = [task[t] EXCEPT !.live = FALSE]]
    BY Zenon DEF TypeOK, ClaimLapses
  <2>2. task[t] \in Row
    BY Zenon DEF TypeOK
  <2>4. [task[t] EXCEPT !.live = FALSE] \in Row
    BY Zenon, <2>2 DEF Row
  <2>3. task' \in [Tasks -> Row]
    BY Zenon, <2>1, <2>4 DEF TypeOK
  <2> QED BY Zenon, <2>3, CallbackAssumption DEF TypeOK, ClaimLapses
<1>2. Rows'
  BY DEF Rows, ClaimLapses
<1>3. EndsAreEarned'
  BY DEF EndsAreEarned, ClaimLapses
<1>4. ASSUME NEW j \in Workers PROVE Belongs(j)'
  BY <1>4 DEF Belongs, ClaimLapses
<1>5. ASSUME NEW j \in Workers PROVE Pinned(j)'
  BY <1>5 DEF Pinned, Holds, HasAuthority, ClaimLapses
<1>6. ASSUME NEW j \in Workers PROVE Knows(j)'
  BY <1>6 DEF TypeOK, Knows, Holds, ClaimLapses
<1> QED BY Zenon, <1>1, <1>2, <1>3, <1>4, <1>5, <1>6

LEMMA ClaimLostKeeps ==
  ASSUME IndInv, NEW t \in Tasks, ClaimLost(t)
  PROVE  IndInv'
<1> USE DEF IndInv
<1>1. TypeOK'
  <2>1. task' = [task EXCEPT ![t] = [task[t] EXCEPT !.live = FALSE]]
    BY Zenon DEF TypeOK, ClaimLost
  <2>2. task[t] \in Row
    BY Zenon DEF TypeOK
  <2>4. [task[t] EXCEPT !.live = FALSE] \in Row
    BY Zenon, <2>2 DEF Row
  <2>3. task' \in [Tasks -> Row]
    BY Zenon, <2>1, <2>4 DEF TypeOK
  <2> QED BY <2>3, CallbackAssumption DEF TypeOK, ClaimLost
<1>2. Rows'
  BY DEF Rows, ClaimLost
<1>3. EndsAreEarned'
  BY DEF EndsAreEarned, ClaimLost
<1>4. ASSUME NEW j \in Workers PROVE Belongs(j)'
  BY <1>4 DEF Belongs, ClaimLost
<1>5. ASSUME NEW j \in Workers PROVE Pinned(j)'
  BY <1>5 DEF Pinned, Holds, HasAuthority, ClaimLost
<1>6. ASSUME NEW j \in Workers PROVE Knows(j)'
  BY <1>6 DEF TypeOK, Rows, Knows, Holds, ClaimLost
<1> QED BY Zenon, <1>1, <1>2, <1>3, <1>4, <1>5, <1>6

LEMMA RetryDueKeeps ==
  ASSUME IndInv, NEW t \in Tasks, RetryDue(t)
  PROVE  IndInv'
<1> USE DEF IndInv
<1>1. TypeOK'
  <2>1. task' = [task EXCEPT ![t] = [task[t] EXCEPT !.due = TRUE]]
    BY Zenon DEF TypeOK, RetryDue
  <2>2. task[t] \in Row
    BY Zenon DEF TypeOK
  <2>4. [task[t] EXCEPT !.due = TRUE] \in Row
    BY Zenon, <2>2 DEF Row
  <2>3. task' \in [Tasks -> Row]
    BY Zenon, <2>1, <2>4 DEF TypeOK
  <2> QED BY Zenon, <2>3, CallbackAssumption DEF TypeOK, RetryDue
<1>2. Rows'
  BY DEF Rows, RetryDue
<1>3. EndsAreEarned'
  BY DEF EndsAreEarned, RetryDue
<1>4. ASSUME NEW j \in Workers PROVE Belongs(j)'
  BY <1>4 DEF Belongs, RetryDue
<1>5. ASSUME NEW j \in Workers PROVE Pinned(j)'
  BY <1>5 DEF Pinned, Holds, HasAuthority, RetryDue
<1>6. ASSUME NEW j \in Workers PROVE Knows(j)'
  BY <1>6, CallbackAssumption DEF TypeOK, Row, Delivery, Rows, Knows, Holds, RetryDue
<1> QED BY Zenon, <1>1, <1>2, <1>3, <1>4, <1>5, <1>6

LEMMA ManualRetryKeeps ==
  ASSUME IndInv, NEW t \in Tasks, ManualRetry(t)
  PROVE  IndInv'
<1> USE DEF IndInv
<1>1. TypeOK'
  <2>1. task' = [task EXCEPT ![t] = [task[t] EXCEPT !.status = "pending", !.retry = 0]]
    BY Zenon DEF TypeOK, ManualRetry
  <2>2. task[t] \in Row /\ 0 \in 0..MaxRetry
    BY CallbackAssumption DEF TypeOK
  <2>4. [task[t] EXCEPT !.status = "pending", !.retry = 0] \in Row
    BY Zenon, <2>2 DEF Row
  <2>3. task' \in [Tasks -> Row]
    BY Zenon, <2>1, <2>4 DEF TypeOK
  <2> QED BY <2>3, CallbackAssumption DEF TypeOK, ManualRetry
<1>2. Rows'
  BY DEF TypeOK, Rows, ManualRetry
<1>3. EndsAreEarned'
  BY DEF TypeOK, EndsAreEarned, ManualRetry
<1>4. ASSUME NEW j \in Workers PROVE Belongs(j)'
  BY <1>4 DEF Belongs, ManualRetry
<1>5. ASSUME NEW j \in Workers PROVE Pinned(j)'
  BY <1>5 DEF Pinned, Holds, HasAuthority, ManualRetry
<1>6. ASSUME NEW j \in Workers PROVE Knows(j)'
  BY <1>6 DEF TypeOK, Row, Rows, Knows, Holds, ManualRetry
<1> QED BY Zenon, <1>1, <1>2, <1>3, <1>4, <1>5, <1>6

LEMMA AuthLapsesKeeps ==
  ASSUME IndInv, AuthLapses
  PROVE  IndInv'
<1> USE DEF IndInv
<1>1. TypeOK'
  BY Zenon DEF TypeOK, AuthLapses
<1>2. Rows'
  BY DEF Rows, AuthLapses
<1>3. EndsAreEarned'
  BY Zenon DEF EndsAreEarned, AuthLapses
<1>4. ASSUME NEW j \in Workers PROVE Belongs(j)'
  BY <1>4 DEF Belongs, AuthLapses
<1>5. ASSUME NEW j \in Workers PROVE Pinned(j)'
  BY <1>5 DEF Pinned, Holds, HasAuthority, AuthLapses
<1>6. ASSUME NEW j \in Workers PROVE Knows(j)'
  BY Zenon, <1>6 DEF Knows, Holds, AuthLapses
<1> QED BY Zenon, <1>1, <1>2, <1>3, <1>4, <1>5, <1>6

\* A failed attempt is counted, also beyond the last one that matters.
LEMMA FailFacts ==
  ASSUME IndInv, NEW i \in Workers, w[i].pc # "idle", NEW p \in {"mark", "release"}, Fail(i, p),
         UNCHANGED task
  PROVE  /\ w' \in [Workers -> Delivery] /\ \A j \in Workers \ {i} : w'[j] = w[j]
         /\ w'[i].pc = p /\ w'[i].task = w[i].task /\ w'[i].lease = w[i].lease
         /\ tries' \in [Tasks -> 0..(MaxRetry + 1)] /\ \A t \in Tasks : tries[t] <= tries'[t]
         /\ Knows(i)'
<1> USE DEF IndInv
<1>1. w[i] \in Delivery /\ w[i].task \in Tasks /\ w[i].retry \in 0..MaxRetry
  BY Zenon DEF TypeOK, Delivery, Belongs
<1>2. /\ [w[i] EXCEPT !.pc = p, !.outcome = "fail"] \in Delivery
      /\ w' = [w EXCEPT ![i] = [w[i] EXCEPT !.pc = p, !.outcome = "fail"]]
  BY Zenon, <1>1 DEF Delivery, Fail
<1>3. w' \in [Workers -> Delivery] /\ \A j \in Workers \ {i} : w'[j] = w[j]
  BY Zenon, <1>2 DEF TypeOK
<1>4. /\ w'[i].pc = p /\ w'[i].outcome = "fail" /\ w'[i].task = w[i].task
      /\ w'[i].lease = w[i].lease /\ w'[i].retry = w[i].retry
  BY Zenon, <1>1, <1>2 DEF TypeOK, Delivery
<1>5. /\ tries' \in [Tasks -> 0..(MaxRetry + 1)] /\ \A t \in Tasks : tries[t] <= tries'[t]
      /\ tries'[w[i].task] = IF tries[w[i].task] <= MaxRetry THEN tries[w[i].task] + 1
                             ELSE tries[w[i].task]
  BY <1>1, CallbackAssumption DEF TypeOK, Fail, Failed
<1>6. Holds(i) => tries'[w[i].task] > w[i].retry
  <2>1. Holds(i) => tries[w[i].task] >= w[i].retry
    BY Zenon, <1>1 DEF Knows, Rows, Holds
  <2>2. tries[w[i].task] \in 0..(MaxRetry + 1)
    BY Zenon, <1>1 DEF TypeOK
  <2> QED BY <1>1, <1>5, <2>1, <2>2, CallbackAssumption
<1>7. Knows(i)'
  BY Zenon, <1>1, <1>4, <1>6 DEF Knows, Holds
<1> QED BY Zenon, <1>3, <1>4, <1>5, <1>7

LEMMA ClaimKeeps ==
  ASSUME IndInv, NEW i \in Workers, NEW t \in Tasks, Claim(i, t)
  PROVE  IndInv'
<1> USE DEF IndInv
<1>1. PICK l \in Lease \ Remembered :
        /\ task' = [task EXCEPT ![t] = [@ EXCEPT !.status = "retrying", !.due = FALSE,
                                                !.lease = l, !.live = TRUE]]
        /\ w' = [w EXCEPT ![i] = [Idle EXCEPT !.pc = "acquire", !.task = t,
                                              !.lease = l, !.retry = task[t].retry]]
  <2>1. \E l \in Lease : l \notin Remembered
    BY Zenon, FreshLease DEF Belongs, Claim
  <2>2. (CHOOSE l \in Lease \ Remembered : TRUE) \in Lease \ Remembered
    BY Zenon, <2>1
  <2> QED BY Zenon, <2>2 DEF Claim
<1>2. /\ l # 0 /\ auth.lease # l
      /\ \A u \in Tasks : task[u].lease # l
      /\ \A j \in Workers : w[j].lease # l
  BY DEF Lease, Remembered
<1> DEFINE q == [task[t] EXCEPT !.status = "retrying", !.due = FALSE, !.lease = l, !.live = TRUE]
           v == [Idle EXCEPT !.pc = "acquire", !.task = t, !.lease = l, !.retry = task[t].retry]
<1>3. q \in Row /\ v \in Delivery
  <2>1. task[t] \in Row /\ task[t].retry \in 0..MaxRetry
    BY Zenon DEF TypeOK, Row
  <2>2. q \in Row
    BY Zenon, <2>1 DEF Row
  <2>3. v \in Delivery
    BY Zenon, <2>1, CallbackAssumption DEF Delivery, Idle
  <2> QED BY Zenon, <2>2, <2>3
<1>4. /\ q.status = "retrying" /\ q.lease = l /\ q.retry = task[t].retry /\ q.conf = task[t].conf
      /\ q.revoked = task[t].revoked /\ q.items = task[t].items
      /\ v.pc = "acquire" /\ v.task = t /\ v.lease = l /\ v.retry = task[t].retry
  BY DEF TypeOK, Row, Idle
<1>5. /\ task' = [task EXCEPT ![t] = q] /\ w' = [w EXCEPT ![i] = v]
  BY Zenon, <1>1
<1>6. /\ task'[t] = q /\ \A u \in Tasks \ {t} : task'[u] = task[u]
      /\ w'[i] = v /\ \A j \in Workers \ {i} : w'[j] = w[j]
  BY Zenon, <1>5 DEF TypeOK
<1>7. TypeOK'
  BY <1>3, <1>5 DEF TypeOK, Claim
<1> HIDE DEF q, v
<1>8. Rows'
  BY <1>4, <1>6 DEF Rows, Claim, Due
<1>9. EndsAreEarned'
  BY <1>4, <1>6 DEF EndsAreEarned, Claim, Due
<1>10. /\ UNCHANGED <<app, auth, draft, got, tries>>
       /\ task[t].status # "none"
  BY Zenon DEF Claim, Due
<1>11. ASSUME NEW j \in Workers PROVE Belongs(j)'
  <2>1. CASE j = i
    BY <1>2, <1>4, <1>6, <1>10, <2>1 DEF Belongs
  <2>2. CASE j # i
    BY <1>2, <1>4, <1>6, <1>10, <2>2 DEF Belongs
  <2> QED BY Zenon, <2>1, <2>2
<1>12. ASSUME NEW j \in Workers PROVE Pinned(j)' /\ Knows(j)'
  <2>1. CASE j = i
    BY Zenon, <1>4, <1>6, <1>10, <2>1 DEF Pinned, Knows
  <2>2. CASE j # i
    <3>1. w'[j] = w[j] /\ w[j].lease # l /\ (w[j].pc # "idle" => w[j].task \in Tasks)
      BY Zenon, <1>2, <1>6, <2>2 DEF Belongs
    <3>2. CASE w[j].task = t
      BY SMTT(20), <1>4, <1>6, <1>10, <3>1, <3>2 DEF Pinned, Knows, Holds, HasAuthority
    <3>3. CASE w[j].task # t
      BY SMTT(20), <1>6, <1>10, <3>1, <3>3 DEF Pinned, Knows, Holds, HasAuthority
    <3> QED BY Zenon, <3>2, <3>3
  <2> QED BY Zenon, <2>1, <2>2
<1> QED BY Zenon, <1>7, <1>8, <1>9, <1>11, <1>12

LEMMA AcquireKeeps ==
  ASSUME IndInv, NEW i \in Workers, Acquire(i)
  PROVE  IndInv'
<1> USE DEF IndInv
<1>1. /\ w[i] \in Delivery /\ w[i].pc = "acquire" /\ w[i].task \in Tasks /\ w[i].lease \in Lease
      /\ UNCHANGED <<app, task, draft, got, faults, manual>>
  BY Zenon DEF TypeOK, Delivery, Belongs, Acquire
<1>2. CASE auth.live
  <2> DEFINE v == [w[i] EXCEPT !.pc = "mark", !.outcome = "busy"]
  <2>1. v \in Delivery /\ w' = [w EXCEPT ![i] = v] /\ UNCHANGED <<auth, tries>>
    BY Zenon, <1>1, <1>2 DEF Delivery, Acquire
  <2>2. /\ v.pc = "mark" /\ v.outcome = "busy" /\ v.task = w[i].task /\ v.lease = w[i].lease
        /\ v.retry = w[i].retry
    BY Zenon, <1>1 DEF Delivery
  <2> HIDE DEF v
  <2>3. /\ w' \in [Workers -> Delivery] /\ w'[i] = v /\ \A j \in Workers \ {i} : w'[j] = w[j]
    BY Zenon, <2>1 DEF TypeOK
  <2>4. Knows(i)'
    BY SMTT(20), <1>1, <2>2, <2>3 DEF Knows, Holds
  <2>5. \A t \in Tasks : tries[t] <= tries'[t]
    BY <2>1 DEF TypeOK
  <2> QED BY Zenon, <1>1, <2>1, <2>2, <2>3, <2>4, <2>5, MoveKeeps DEF TypeOK
<1>3. CASE ~auth.live /\ Authorized(i)
  <2> DEFINE v == [w[i] EXCEPT !.pc = "load"]
             a == [task |-> w[i].task, lease |-> w[i].lease, live |-> TRUE]
  <2>1. /\ v \in Delivery /\ w' = [w EXCEPT ![i] = v] /\ auth' = a /\ a \in Auths
        /\ UNCHANGED tries
    BY Zenon, <1>1, <1>3 DEF TypeOK, Delivery, Acquire, Go, Auths
  <2>2. /\ v.pc = "load" /\ v.task = w[i].task /\ v.lease = w[i].lease /\ v.retry = w[i].retry
        /\ a.task = w[i].task /\ a.lease = w[i].lease /\ a.live
    BY Zenon, <1>1 DEF Delivery
  <2> HIDE DEF v, a
  <2>3. /\ w' \in [Workers -> Delivery] /\ w'[i] = v /\ \A j \in Workers \ {i} : w'[j] = w[j]
    BY Zenon, <2>1 DEF TypeOK
  <2>4. TypeOK'
    BY Zenon, <1>1, <2>1, <2>3 DEF TypeOK, Auths
  <2>5. Rows' /\ EndsAreEarned'
    BY Zenon, <1>1, <2>1, <2>2 DEF Rows, EndsAreEarned
  <2>6. ASSUME NEW j \in Workers PROVE Belongs(j)'
    BY <1>1, <2>1, <2>2, <2>3 DEF Belongs
  <2>7. ASSUME NEW j \in Workers PROVE Pinned(j)'
    <3>1. CASE j = i
      BY Zenon, <1>1, <1>3, <2>1, <2>2, <2>3, <3>1 DEF Pinned, HasAuthority, Authorized
    <3>2. CASE j # i
      BY SMTT(20), <1>1, <1>3, <2>1, <2>2, <2>3, <3>2 DEF Belongs, Pinned, Holds, HasAuthority
    <3> QED BY Zenon, <3>1, <3>2
  <2>8. ASSUME NEW j \in Workers PROVE Knows(j)'
    BY SMTT(20), <1>1, <2>1, <2>2, <2>3 DEF Knows, Holds
  <2> QED BY Zenon, <2>4, <2>5, <2>6, <2>7, <2>8
<1>4. CASE ~auth.live /\ ~Authorized(i)
  <2>1. auth' = NoAuth /\ Fail(i, "mark")
    BY Zenon, <1>4 DEF Acquire
  <2> QED BY Zenon, <1>1, <1>4, <2>1, FailFacts, MoveKeeps DEF TypeOK
<1> QED BY Zenon, <1>2, <1>3, <1>4

LEMMA LoadKeeps ==
  ASSUME IndInv, NEW i \in Workers, Load(i)
  PROVE  IndInv'
<1> USE DEF IndInv
<1>1. /\ w[i] \in Delivery /\ w[i].pc = "load" /\ w[i].task \in Tasks
      /\ UNCHANGED <<app, task, auth, draft, got, faults, manual>>
  BY Zenon DEF TypeOK, Belongs, Load
<1>2. CASE Fail(i, "release")
  BY Zenon, <1>1, <1>2, FailFacts, MoveKeeps DEF TypeOK
<1>3. CASE w' = [w EXCEPT ![i] = [@ EXCEPT !.pc = "confirm", !.items = task[w[i].task].items]]
           /\ UNCHANGED tries
  <2> DEFINE v == [w[i] EXCEPT !.pc = "confirm", !.items = task[w[i].task].items]
  <2>1. task[w[i].task].items \in SUBSET Items
    BY Zenon, <1>1 DEF TypeOK, Row
  <2>2. v \in Delivery /\ w' = [w EXCEPT ![i] = v]
    BY Zenon, <1>1, <1>3, <2>1 DEF Delivery
  <2>3. /\ v.pc = "confirm" /\ v.items = task[w[i].task].items /\ v.task = w[i].task
        /\ v.lease = w[i].lease /\ v.retry = w[i].retry
    BY Zenon, <1>1 DEF Delivery
  <2> HIDE DEF v
  <2>4. /\ w' \in [Workers -> Delivery] /\ w'[i] = v /\ \A j \in Workers \ {i} : w'[j] = w[j]
    BY Zenon, <2>2 DEF TypeOK
  <2>5. Knows(i)'
    BY <1>1, <2>3, <2>4 DEF Knows, Holds
  <2>6. \A t \in Tasks : tries[t] <= tries'[t]
    BY <1>3 DEF TypeOK
  <2> QED BY Zenon, <1>1, <1>3, <2>3, <2>4, <2>5, <2>6, MoveKeeps DEF TypeOK
<1> QED BY Zenon, <1>2, <1>3 DEF Load

LEMMA ConfirmKeeps ==
  ASSUME IndInv, NEW i \in Workers, Confirm(i)
  PROVE  IndInv'
<1> USE DEF IndInv
<1>1. /\ w[i] \in Delivery /\ w[i].pc = "confirm" /\ w[i].task \in Tasks
      /\ UNCHANGED <<app, task, auth, draft, got, faults, manual>>
  BY Zenon DEF TypeOK, Belongs, Confirm
<1>2. CASE Fail(i, "release")
  BY Zenon, <1>1, <1>2, FailFacts, MoveKeeps DEF TypeOK
<1>3. CASE Go(i, "post")
  <2> DEFINE v == [w[i] EXCEPT !.pc = "post"]
  <2>1. v \in Delivery /\ w' = [w EXCEPT ![i] = v] /\ UNCHANGED tries
    BY Zenon, <1>1, <1>3 DEF Delivery, Go, TypeOK
  <2>2. /\ v.pc = "post" /\ v.items = w[i].items /\ v.task = w[i].task
        /\ v.lease = w[i].lease /\ v.retry = w[i].retry
    BY Zenon, <1>1 DEF Delivery
  <2> HIDE DEF v
  <2>3. /\ w' \in [Workers -> Delivery] /\ w'[i] = v /\ \A j \in Workers \ {i} : w'[j] = w[j]
    BY Zenon, <2>1 DEF TypeOK
  <2>4. Knows(i)'
    BY <1>1, <2>2, <2>3 DEF Knows, Holds
  <2>5. \A t \in Tasks : tries[t] <= tries'[t]
    BY <2>1 DEF TypeOK
  <2> QED BY Zenon, <1>1, <2>1, <2>2, <2>3, <2>4, <2>5, MoveKeeps DEF TypeOK
<1> QED BY Zenon, <1>2, <1>3 DEF Confirm

LEMMA PostKeeps ==
  ASSUME IndInv, NEW i \in Workers, Post(i)
  PROVE  IndInv'
<1> USE DEF IndInv
<1>1. /\ w[i] \in Delivery /\ w[i].pc = "post" /\ w[i].task \in Tasks /\ w[i].items \in SUBSET Items
      /\ UNCHANGED <<app, task, auth, draft, faults, manual>>
      /\ got \subseteq got' /\ got' \subseteq Items
  <2>1. /\ w[i] \in Delivery /\ w[i].pc = "post" /\ w[i].task \in Tasks /\ w[i].items \in SUBSET Items
        /\ UNCHANGED <<app, task, auth, draft, faults, manual>>
    BY Zenon DEF TypeOK, Delivery, Belongs, Post
  <2> QED BY Zenon, <2>1 DEF TypeOK, Post
<1>2. CASE Fail(i, "release")
  BY Zenon, <1>1, <1>2, FailFacts, MoveKeeps DEF TypeOK
<1>3. CASE /\ w[i].items \subseteq got'
           /\ w' = [w EXCEPT ![i] = [@ EXCEPT !.pc = "release", !.outcome = "ok"]]
           /\ UNCHANGED tries
  <2> DEFINE v == [w[i] EXCEPT !.pc = "release", !.outcome = "ok"]
  <2>1. v \in Delivery /\ w' = [w EXCEPT ![i] = v]
    BY Zenon, <1>1, <1>3 DEF Delivery
  <2>2. /\ v.pc = "release" /\ v.outcome = "ok" /\ v.task = w[i].task
        /\ v.lease = w[i].lease /\ v.retry = w[i].retry
    BY Zenon, <1>1 DEF Delivery
  <2> HIDE DEF v
  <2>3. /\ w' \in [Workers -> Delivery] /\ w'[i] = v /\ \A j \in Workers \ {i} : w'[j] = w[j]
    BY Zenon, <2>1 DEF TypeOK
  <2>4. Knows(i)'
    BY <1>1, <1>3, <2>2, <2>3 DEF Knows, Holds
  <2>5. \A t \in Tasks : tries[t] <= tries'[t]
    BY <1>3 DEF TypeOK
  <2> QED BY Zenon, <1>1, <1>3, <2>2, <2>3, <2>4, <2>5, MoveKeeps DEF TypeOK
<1> QED BY Zenon, <1>2, <1>3 DEF Post

\* Idle is a delivery, about which nothing need be known.
LEMMA IdleFacts ==
  ASSUME TypeOK, NEW i \in Workers, w' = [w EXCEPT ![i] = Idle]
  PROVE  /\ w' \in [Workers -> Delivery] /\ w'[i] = Idle /\ \A j \in Workers \ {i} : w'[j] = w[j]
         /\ Knows(i)'
<1>1. Idle \in Delivery /\ Idle.pc = "idle"
  <2>1. 0 \in 0..MaxRetry
    BY CallbackAssumption
  <2> QED BY Zenon, <2>1 DEF Idle, Delivery
<1>2. w' \in [Workers -> Delivery] /\ w'[i] = Idle /\ \A j \in Workers \ {i} : w'[j] = w[j]
  BY Zenon, <1>1 DEF TypeOK
<1> QED BY Zenon, <1>1, <1>2 DEF Knows

LEMMA ReleaseKeeps ==
  ASSUME IndInv, NEW i \in Workers, Release(i)
  PROVE  IndInv'
<1> USE DEF IndInv
<1>1. /\ w[i] \in Delivery /\ w[i].pc = "release"
      /\ UNCHANGED <<app, task, draft, got, tries, faults, manual>>
      /\ UNCHANGED auth \/ (auth' = NoAuth /\ auth.lease = w[i].lease)
  BY Zenon DEF TypeOK, Release
<1>2. \A t \in Tasks : tries[t] <= tries'[t]
  BY <1>1 DEF TypeOK
<1>3. CASE w[i].outcome = "lost"
  <2>1. w' = [w EXCEPT ![i] = Idle]
    BY Zenon, <1>3 DEF Release
  <2> QED BY Zenon, <1>1, <1>2, <2>1, IdleFacts, MoveKeeps DEF TypeOK
<1>4. CASE w[i].outcome # "lost"
  <2> DEFINE v == [w[i] EXCEPT !.pc = "mark"]
  <2>1. v \in Delivery /\ w' = [w EXCEPT ![i] = v]
    BY Zenon, <1>1, <1>4 DEF Delivery, Release
  <2>2. /\ v.pc = "mark" /\ v.outcome = w[i].outcome /\ v.task = w[i].task
        /\ v.lease = w[i].lease /\ v.retry = w[i].retry
    BY Zenon, <1>1 DEF Delivery
  <2> HIDE DEF v
  <2>3. /\ w' \in [Workers -> Delivery] /\ w'[i] = v /\ \A j \in Workers \ {i} : w'[j] = w[j]
    BY Zenon, <2>1 DEF TypeOK
  <2>4. Knows(i)'
    BY SMTT(20), <1>1, <1>4, <2>2, <2>3 DEF Knows, Holds
  <2> QED BY Zenon, <1>1, <1>2, <2>2, <2>3, <2>4, MoveKeeps DEF TypeOK
<1> QED BY Zenon, <1>3, <1>4

LEMMA MarkKeeps ==
  ASSUME IndInv, NEW i \in Workers, Mark(i)
  PROVE  IndInv'
<1> USE DEF IndInv
<1>1. /\ w[i].pc = "mark" /\ w[i].task \in Tasks /\ w' = [w EXCEPT ![i] = Idle]
      /\ UNCHANGED <<app, auth, draft, got, tries, faults, manual>>
  BY Zenon DEF Belongs, Mark
<1>2. /\ w' \in [Workers -> Delivery] /\ w'[i] = Idle /\ \A j \in Workers \ {i} : w'[j] = w[j]
      /\ Knows(i)'
  BY Zenon, <1>1, IdleFacts
<1>3. CASE ~Holds(i)
  <2>1. UNCHANGED task /\ \A t \in Tasks : tries[t] <= tries'[t]
    BY <1>1, <1>3 DEF TypeOK, Mark
  <2> QED BY Zenon, <1>1, <1>2, <2>1, MoveKeeps DEF TypeOK
<1>4. CASE Holds(i)
  <2> DEFINE t == w[i].task
             q == Marked(i)
  <2>1. /\ task[t] \in Row /\ task[t].status = "retrying" /\ task[t].retry \in 0..MaxRetry
        /\ w[i].retry = task[t].retry /\ w[i].outcome \in {"ok", "busy", "fail"}
        /\ tries[t] \in 0..(MaxRetry + 1) /\ tries[t] >= task[t].retry
    BY Zenon, <1>1, <1>4 DEF TypeOK, Row, Holds, Knows, Rows
  <2>2. /\ w[i].outcome = "ok" => task[t].items \subseteq got
        /\ w[i].outcome = "fail" => tries[t] > w[i].retry
    BY Zenon, <1>1, <1>4 DEF Knows
  <2> DEFINE row == [task[t] EXCEPT !.lease = 0, !.live = FALSE]
  <2>3. /\ row \in Row /\ row.lease = 0 /\ row.status = "retrying" /\ row.retry = task[t].retry
        /\ row.conf = task[t].conf /\ row.items = task[t].items /\ row.revoked = task[t].revoked
    BY Zenon, <2>1 DEF Row
  <2>4. q = CASE w[i].outcome = "ok" -> [row EXCEPT !.status = "done"]
              [] w[i].outcome = "busy" -> row
              [] w[i].outcome = "fail" /\ w[i].retry < MaxRetry -> [row EXCEPT !.retry = @ + 1]
              [] OTHER -> [row EXCEPT !.status = "dead"]
    BY Zenon DEF Marked
  <2> HIDE DEF row, q
  <2>5. /\ q \in Row /\ q.lease = 0
        /\ q.conf = task[t].conf /\ q.items = task[t].items /\ q.revoked = task[t].revoked
        /\ \/ q.status = "done" /\ w[i].outcome = "ok"
           \/ q.status = "retrying" /\ q.retry = task[t].retry
           \/ q.status = "retrying" /\ w[i].outcome = "fail" /\ q.retry = task[t].retry + 1
           \/ q.status = "dead" /\ w[i].outcome = "fail" /\ task[t].retry = MaxRetry
    <3>1. CASE w[i].outcome = "ok"
      <4>1. q = [row EXCEPT !.status = "done"]
        BY Zenon, <2>4, <3>1
      <4> QED BY Zenon, <2>3, <3>1, <4>1 DEF Row
    <3>2. CASE w[i].outcome = "busy"
      <4>1. q = row
        BY Zenon, <2>4, <3>2
      <4> QED BY Zenon, <2>3, <4>1
    <3>3. CASE w[i].outcome = "fail" /\ w[i].retry < MaxRetry
      <4>1. q = [row EXCEPT !.retry = task[t].retry + 1]
        BY Zenon, <2>3, <2>4, <3>3 DEF Row
      <4>2. task[t].retry + 1 \in 0..MaxRetry
        BY <2>1, <3>3, CallbackAssumption
      <4> QED BY Zenon, <2>3, <3>3, <4>1, <4>2 DEF Row
    <3>4. CASE w[i].outcome = "fail" /\ ~(w[i].retry < MaxRetry)
      <4>1. q = [row EXCEPT !.status = "dead"]
        BY Zenon, <2>4, <3>4
      <4>2. task[t].retry = MaxRetry
        BY <2>1, <3>4, CallbackAssumption
      <4> QED BY Zenon, <2>3, <3>4, <4>1, <4>2 DEF Row
    <3> QED BY Zenon, <2>1, <3>1, <3>2, <3>3, <3>4
  <2>6. /\ task' = [task EXCEPT ![t] = q] /\ task' \in [Tasks -> Row]
        /\ task'[t] = q /\ \A u \in Tasks \ {t} : task'[u] = task[u]
    BY Zenon, <1>1, <1>4, <2>5 DEF TypeOK, Mark, q
  <2>7. TypeOK'
    BY Zenon, <1>1, <1>2, <2>6 DEF TypeOK
  <2>8. Rows'
    <3>1. q.status \in {"pending", "retrying"} => tries[t] >= q.retry
      <4>1. tries[t] \in Nat /\ tries[t] >= task[t].retry
        BY <2>1 DEF TypeOK, Rows
      <4>2. q.retry = task[t].retry + 1 /\ w[i].outcome = "fail" => tries[t] >= q.retry
        BY <2>1, <2>2, <4>1, CallbackAssumption
      <4> QED BY Zenon, <2>5, <4>1, <4>2
    <3>2. draft[t] = {}
      BY Zenon, <1>1, <2>1 DEF Rows
    <3> QED BY Zenon, <1>1, <2>1, <2>6, <3>1, <3>2 DEF Rows
  <2>9. EndsAreEarned'
    <3>1. q.status = "dead" => tries[t] = MaxRetry + 1
      BY SMTT(20), <2>1, <2>2, <2>5, CallbackAssumption
    <3>2. q.status = "done" => q.items \subseteq got
      BY Zenon, <2>2, <2>5
    <3>3. ~q.revoked
      BY Zenon, <1>1, <2>1, <2>5 DEF EndsAreEarned
    <3> QED BY Zenon, <1>1, <2>6, <3>1, <3>2, <3>3 DEF EndsAreEarned
  <2>10. ASSUME NEW j \in Workers PROVE Belongs(j)'
    <3>1. CASE j = i
      BY <1>2, <3>1 DEF Belongs, Idle
    <3>2. CASE j # i
      <4>1. w'[j] = w[j] /\ (w'[i].lease = 0) /\ (w[j].pc # "idle" => w[j].lease # 0)
        BY <1>2, <3>2 DEF Belongs, Idle
      <4>2. \A u \in Tasks : /\ task'[u].lease = task[u].lease \/ task'[u].lease = 0
                             /\ task[u].status # "none" => task'[u].status # "none"
        BY Zenon, <1>1, <2>1, <2>5, <2>6
      <4>3. \A k \in Workers : w'[k] = w[k] \/ w'[k].lease = 0
        BY Zenon, <1>2, <4>1
      <4>4. CASE w[j].pc = "idle"
        BY Zenon, <4>1, <4>4 DEF Belongs
      <4>5. CASE w[j].pc # "idle"
        <5>1. /\ w[j].lease # 0 /\ w[j].task \in Tasks /\ task[w[j].task].status # "none"
              /\ \A k \in Workers : w[k].lease = w[j].lease => k = j
              /\ \A u \in Tasks : task[u].lease = w[j].lease => u = w[j].task
              /\ auth.lease = w[j].lease => auth.task = w[j].task
          BY Zenon, <4>5 DEF Belongs
        <5>2. \A k \in Workers : w'[k].lease = w[j].lease => k = j
          BY ONLY Zenon, <4>3, <5>1
        <5>3. /\ \A u \in Tasks : task'[u].lease = w[j].lease => u = w[j].task
              /\ task'[w[j].task].status # "none"
          BY ONLY Zenon, <4>2, <5>1
        <5> QED BY ONLY Zenon, <1>1, <4>1, <4>5, <5>1, <5>2, <5>3 DEF Belongs
      <4> QED BY Zenon, <4>4, <4>5
    <3> QED BY Zenon, <3>1, <3>2
  <2>11. ASSUME NEW j \in Workers PROVE Pinned(j)' /\ Knows(j)'
    <3>1. CASE j = i
      BY <1>2, <3>1 DEF Pinned, Idle
    <3>2. CASE j # i
      <4>1. w'[j] = w[j] /\ (w[j].pc # "idle" => w[j].task \in Tasks /\ w[j].lease # 0)
        BY Zenon, <1>2, <3>2 DEF Belongs
      <4>2. /\ HasAuthority(j)' = HasAuthority(j)
            /\ w[j].pc # "idle" => task'[w[j].task].conf = task[w[j].task].conf
        BY Zenon, <1>1, <2>5, <2>6, <4>1 DEF HasAuthority
      <4>3. w[j].pc # "idle" /\ Holds(j)' => Holds(j) /\ task'[w[j].task] = task[w[j].task]
        BY <2>5, <2>6, <4>1 DEF Holds
      <4>4. Pinned(j)'
        BY Zenon, <1>1, <4>1, <4>2, <4>3 DEF Pinned
      <4>5. Knows(j)'
        BY <1>1, <4>1, <4>3 DEF Knows
      <4> QED BY Zenon, <4>4, <4>5
    <3> QED BY Zenon, <3>1, <3>2
  <2> QED BY Zenon, <2>7, <2>8, <2>9, <2>10, <2>11
<1> QED BY Zenon, <1>3, <1>4

LEMMA HeartbeatLostKeeps ==
  ASSUME IndInv, NEW i \in Workers, HeartbeatLost(i)
  PROVE  IndInv'
<1> USE DEF IndInv
<1>1. /\ w[i] \in Delivery /\ w[i].pc # "idle"
      /\ UNCHANGED <<app, task, auth, draft, got, tries, faults, manual>>
  BY Zenon DEF TypeOK, HeartbeatLost
<1>2. \A t \in Tasks : tries[t] <= tries'[t]
  BY <1>1 DEF TypeOK
<1>3. CASE w[i].pc = "acquire"
  <2>1. w' = [w EXCEPT ![i] = Idle]
    BY Zenon, <1>3 DEF HeartbeatLost
  <2> QED BY Zenon, <1>1, <1>2, <2>1, IdleFacts, MoveKeeps DEF TypeOK
<1>4. CASE w[i].pc # "acquire"
  <2> DEFINE v == [w[i] EXCEPT !.pc = "release", !.outcome = "lost"]
  <2>1. v \in Delivery /\ w' = [w EXCEPT ![i] = v]
    BY Zenon, <1>1, <1>4 DEF Delivery, HeartbeatLost
  <2>2. /\ v.pc = "release" /\ v.outcome = "lost" /\ v.task = w[i].task
        /\ v.lease = w[i].lease /\ v.retry = w[i].retry
    BY Zenon, <1>1 DEF Delivery
  <2> HIDE DEF v
  <2>3. /\ w' \in [Workers -> Delivery] /\ w'[i] = v /\ \A j \in Workers \ {i} : w'[j] = w[j]
    BY Zenon, <2>1 DEF TypeOK
  <2>4. Knows(i)'
    <3>1. ~Holds(i)'
      BY Zenon, <1>1, <2>2, <2>3 DEF Holds, HeartbeatLost
    <3> QED BY Zenon, <2>2, <2>3, <3>1 DEF Knows
  <2> QED BY Zenon, <1>1, <1>2, <2>2, <2>3, <2>4, MoveKeeps DEF TypeOK
<1> QED BY Zenon, <1>3, <1>4

LEMMA CrashKeeps ==
  ASSUME IndInv, NEW i \in Workers, Crash(i)
  PROVE  IndInv'
<1> USE DEF IndInv
<1>1. /\ w' = [w EXCEPT ![i] = Idle] /\ faults' \in 0..MaxFaults
      /\ UNCHANGED <<app, task, auth, draft, got, tries, manual>>
      /\ \A t \in Tasks : tries[t] <= tries'[t]
  BY CallbackAssumption DEF TypeOK, Crash
<1> QED BY Zenon, <1>1, IdleFacts, MoveKeeps DEF TypeOK

LEMMA ChangeAppKeeps ==
  ASSUME IndInv, ChangeApp
  PROVE  IndInv'
<1> USE DEF IndInv
<1>1. /\ app' \in [conf : Confs, on : BOOLEAN] /\ ~auth.live /\ auth' = NoAuth
      /\ UNCHANGED <<draft, w, got, tries, faults, manual>>
  BY Zenon DEF ChangeApp
<1>2. ASSUME NEW t \in Tasks
      PROVE  \/ task'[t] = task[t]
             \/ /\ task[t].status \in {"pending", "retrying"}
                /\ task'[t] \in Row /\ task'[t].status = "dead" /\ task'[t].revoked
                /\ task'[t].lease = 0
  <2>1. task'[t] \in {task[t], Revoked(task[t])}
        /\ (task'[t] # task[t] => task[t].status \in {"pending", "retrying"})
    BY Zenon DEF ChangeApp
  <2>2. task[t] \in Row /\ 0 \in 0..MaxRetry
    BY CallbackAssumption DEF TypeOK
  <2>3. /\ Revoked(task[t]) \in Row /\ Revoked(task[t]).status = "dead"
        /\ Revoked(task[t]).revoked /\ Revoked(task[t]).lease = 0
    BY Zenon, <2>2 DEF Revoked, Row
  <2> QED BY Zenon, <2>1, <2>3
<1>3. TypeOK'
  <2>1. task' \in [Tasks -> Row]
    <3>1. task' = [t \in Tasks |-> task'[t]]
      BY Zenon DEF ChangeApp
    <3> QED BY Zenon, <1>2, <3>1 DEF TypeOK
  <2>2. NoAuth \in Auths
    BY Zenon DEF NoAuth, Auths
  <2> QED BY Zenon, <1>1, <2>1, <2>2 DEF TypeOK, Auths
<1>4. Rows' /\ EndsAreEarned'
  BY <1>1, <1>2 DEF Rows, EndsAreEarned, NoAuth
<1>5. ASSUME NEW j \in Workers PROVE Belongs(j)'
  BY <1>1, <1>2 DEF Belongs, NoAuth
<1>6. ASSUME NEW j \in Workers PROVE Pinned(j)' /\ Knows(j)'
  <2>1. w[j].pc # "idle" => w[j].task \in Tasks
    BY Zenon DEF Belongs
  <2>2. ~HasAuthority(j)'
    BY Zenon, <1>1 DEF HasAuthority, NoAuth
  <2>3. w[j].pc # "idle" /\ Holds(j)' => Holds(j) /\ task'[w[j].task] = task[w[j].task]
    BY Zenon, <1>1, <1>2, <2>1 DEF Holds
  <2>4. ~HasAuthority(j)
    BY Zenon, <1>1 DEF HasAuthority
  <2> QED BY Zenon, <1>1, <2>2, <2>3, <2>4 DEF Pinned, Knows
<1> QED BY Zenon, <1>3, <1>4, <1>5, <1>6

-----------------------------------------------------------------------------
(* The theorems.                                                            *)

\* Every state satisfies the invariant, whatever the number of tasks and workers
\* and the length of the retry schedule.
THEOREM Invariance == Spec => []IndInv
<1>1. Init => IndInv
  <2> SUFFICES ASSUME Init PROVE IndInv
    OBVIOUS
  <2>1. /\ Idle \in Delivery /\ NoRow \in Row /\ NoAuth \in Auths
        /\ (CHOOSE c \in Confs : TRUE) \in Confs
    BY SMTT(20), CallbackAssumption DEF Idle, Delivery, NoRow, Row, NoAuth, Auths
  <2>2. TypeOK
    BY SMTT(20), <2>1, CallbackAssumption DEF Init, TypeOK, Auths
  <2>3. Rows /\ EndsAreEarned
    BY Zenon, CallbackAssumption DEF Init, Rows, EndsAreEarned, NoRow, NoAuth
  <2>4. ASSUME NEW i \in Workers PROVE Belongs(i) /\ Pinned(i) /\ Knows(i)
    BY Zenon DEF Init, Belongs, Pinned, Knows, Idle
  <2> QED BY Zenon, <2>2, <2>3, <2>4 DEF IndInv
<1>2. IndInv /\ [Next]_vars => IndInv'
  <2> SUFFICES ASSUME IndInv, [Next]_vars PROVE IndInv'
    OBVIOUS
  <2>1. ASSUME NEW t \in Tasks,
               \/ Draft(t) \/ Create(t) \/ Append(t) \/ ClaimLapses(t) \/ ClaimLost(t)
               \/ RetryDue(t) \/ ManualRetry(t) \/ \E i \in Workers : Claim(i, t)
        PROVE  IndInv'
    BY Zenon, <2>1, DraftKeeps, CreateKeeps, AppendKeeps, ClaimLapsesKeeps, ClaimLostKeeps,
       RetryDueKeeps, ManualRetryKeeps, ClaimKeeps
  <2>2. ASSUME NEW i \in Workers, Step(i) \/ HeartbeatLost(i) \/ Crash(i) PROVE IndInv'
    BY Zenon, <2>2, AcquireKeeps, LoadKeeps, ConfirmKeeps, PostKeeps, ReleaseKeeps,
       MarkKeeps, HeartbeatLostKeeps, CrashKeeps DEF Step
  <2>3. CASE AuthLapses \/ ChangeApp
    BY Zenon, <2>3, AuthLapsesKeeps, ChangeAppKeeps
  <2>4. CASE UNCHANGED vars
    <3>1. TypeOK' /\ Rows' /\ EndsAreEarned'
      BY Zenon, <2>4 DEF vars, IndInv, TypeOK, Rows, EndsAreEarned
    <3>2. ASSUME NEW i \in Workers PROVE Belongs(i)' /\ Pinned(i)' /\ Knows(i)'
      BY Zenon, <2>4 DEF vars, IndInv, Belongs, Pinned, Knows, Holds, HasAuthority
    <3> QED BY Zenon, <3>1, <3>2 DEF IndInv
  <2> QED BY Zenon, <2>1, <2>2, <2>3, <2>4 DEF Next
<1> QED BY <1>1, <1>2, PTL DEF Spec

\* Nothing is posted under a configuration that was withdrawn while the poster
\* has the authority (deliver, app_update).
THEOREM PostsAreAuthorized == Spec => []PostAuthorized
<1>1. IndInv => PostAuthorized
  BY Zenon DEF IndInv, Pinned, PostAuthorized
<1> QED BY <1>1, Invariance, PTL

\* A task is done when all its items were acknowledged, and dead when the whole
\* schedule failed or it was revoked, for every schedule (mark_done, mark_retry,
\* mark_dead, revoke_callback_tasks_on_app_change).
THEOREM EndsEarned == Spec => []EndsAreEarned
<1>1. IndInv => EndsAreEarned
  BY Zenon DEF IndInv
<1> QED BY <1>1, Invariance, PTL
===========================================================================
