----------------------------- MODULE Callback -----------------------------
(***************************************************************************)
(* Delivery of results to one application by HTTP callback.  Tasks are       *)
(* created with the transaction that reports a result and carry the           *)
(* callback configuration of that moment.  A worker claims a task for a lease *)
(* with a fresh UUID, takes the authority of the application, loads the       *)
(* items, confirms the authority, posts, gives the authority back and records *)
(* the outcome under its lease.  The administrator may change the             *)
(* configuration only while nobody has the authority, and the change revokes  *)
(* the open tasks.                                                          *)
(*                                                                         *)
(* A lease id is taken from those nobody remembers, which stands for a UUID.  *)
(* Claim and authority leases run for thirty seconds from their last renewal  *)
(* and an authority is renewed with or after the claim it belongs to, so it   *)
(* never lapses while that claim is live.                                   *)
(***************************************************************************)
EXTENDS Naturals, FiniteSets

CONSTANTS
  Tasks, Workers, Items,   \* Items: what message.report tasks report
  Confs,       \* callback configurations (address and secret)
  NoTask,
  MaxRetry,    \* length of callback_retry_schedule
  MaxFaults,   \* bound on crashes and on leases lost by a running worker
  MaxManual    \* bound on manual retries

ASSUME CallbackAssumption ==
  /\ NoTask \notin Tasks /\ Confs # {}
  /\ MaxRetry \in Nat /\ MaxFaults \in Nat /\ MaxManual \in Nat
  /\ IsFiniteSet(Tasks) /\ IsFiniteSet(Workers)

VARIABLES
  app,      \* the app row: configuration and status
  task,     \* callback_task rows
  auth,     \* the callback_authority_lease row
  draft,    \* the configuration a creating transaction has read
  w,        \* the workers
  got,      \* items the application acknowledged
  tries,    \* failed attempts since the task was last made pending, capped
  faults, manual

vars == <<app, task, auth, draft, w, got, tries, faults, manual>>

Lease == 1..(Cardinality(Tasks) + Cardinality(Workers) + 1)
NoAuth == [task |-> NoTask, lease |-> 0, live |-> FALSE]
Idle == [pc |-> "idle", task |-> NoTask, lease |-> 0, retry |-> 0, items |-> {},
         outcome |-> "none"]
NoRow == [status |-> "none", retry |-> 0, due |-> FALSE, lease |-> 0, live |-> FALSE,
          conf |-> CHOOSE c \in Confs : TRUE, revoked |-> FALSE, items |-> {}]

Row == [status : {"none", "pending", "retrying", "done", "dead"}, retry : 0..MaxRetry,
        due : BOOLEAN, lease : Lease \cup {0}, live : BOOLEAN, conf : Confs,
        revoked : BOOLEAN, items : SUBSET Items]
Delivery == [pc : {"idle", "acquire", "load", "confirm", "post", "release", "mark"},
             task : Tasks \cup {NoTask}, lease : Lease \cup {0}, retry : 0..MaxRetry,
             items : SUBSET Items, outcome : {"none", "ok", "fail", "busy", "lost"}]

\* Every variable keeps its type; the retry counter stays within the schedule.
TypeOK ==
  /\ app \in [conf : Confs, on : BOOLEAN]
  /\ task \in [Tasks -> Row]
  /\ auth \in [task : Tasks \cup {NoTask}, lease : Lease \cup {0}, live : BOOLEAN]
  /\ draft \in [Tasks -> SUBSET Confs]
  /\ w \in [Workers -> Delivery]
  /\ got \subseteq Items
  /\ tries \in [Tasks -> 0..(MaxRetry + 1)]
  /\ faults \in 0..MaxFaults /\ manual \in 0..MaxManual

Init ==
  /\ app = [conf |-> CHOOSE c \in Confs : TRUE, on |-> TRUE]
  /\ task = [t \in Tasks |-> NoRow]
  /\ auth = NoAuth
  /\ draft = [t \in Tasks |-> {}]
  /\ w = [i \in Workers |-> Idle]
  /\ got = {}
  /\ tries = [t \in Tasks |-> 0]
  /\ faults = 0 /\ manual = 0

-----------------------------------------------------------------------------
(* Producing tasks.                                                         *)

\* The creating transaction reads the configuration of an enabled application
\* and commits later.
Draft(t) ==
  /\ task[t].status = "none" /\ draft[t] = {} /\ app.on
  /\ draft' = [draft EXCEPT ![t] = {app.conf}]
  /\ UNCHANGED <<app, task, auth, w, got, tries, faults, manual>>

Reported == UNION {task[t].items : t \in Tasks}

Create(t) ==
  /\ draft[t] # {}
  /\ \E i \in Items \ Reported :
       task' = [task EXCEPT ![t] = [NoRow EXCEPT !.status = "pending", !.items = {i},
                                                 !.conf = CHOOSE c \in draft[t] : TRUE]]
  /\ draft' = [draft EXCEPT ![t] = {}]
  /\ UNCHANGED <<app, auth, w, got, tries, faults, manual>>

\* Appending also to a task that is being delivered.
AppendOpen(t) ==
  /\ task[t].status \in {"pending", "retrying"} /\ task[t].retry = 0
  /\ app.on /\ app.conf = task[t].conf
  /\ \E i \in Items \ Reported : task' = [task EXCEPT ![t].items = @ \cup {i}]
  /\ UNCHANGED <<app, auth, draft, w, got, tries, faults, manual>>

\* enqueue_message_report adds an item to a task nobody has tried yet.
Append(t) ==
  /\ task[t].status = "pending" /\ task[t].retry = 0
  /\ app.on /\ app.conf = task[t].conf
  /\ \E i \in Items \ Reported : task' = [task EXCEPT ![t].items = @ \cup {i}]
  /\ UNCHANGED <<app, auth, draft, w, got, tries, faults, manual>>

-----------------------------------------------------------------------------
(* A worker.                                                                *)

Remembered == {task[t].lease : t \in Tasks} \cup {auth.lease}
                \cup {w[i].lease : i \in Workers}

\* Due tasks without those whose worker died.
DueUnclaimed(t) ==
  \/ task[t].status = "pending"
  \/ task[t].status = "retrying" /\ task[t].lease = 0 /\ task[t].due

\* due_ids and the candidate of claim.
Due(t) ==
  \/ task[t].status = "pending"
  \/ task[t].status = "retrying" /\ task[t].lease = 0 /\ task[t].due
  \/ task[t].status = "retrying" /\ task[t].lease # 0 /\ ~task[t].live

Claim(i, t) ==
  /\ w[i].pc = "idle" /\ Due(t)
  /\ LET lease == CHOOSE l \in Lease \ Remembered : TRUE
     IN  /\ task' = [task EXCEPT ![t] = [@ EXCEPT !.status = "retrying", !.due = FALSE,
                                                  !.lease = lease, !.live = TRUE]]
         /\ w' = [w EXCEPT ![i] = [Idle EXCEPT !.pc = "acquire", !.task = t,
                                              !.lease = lease, !.retry = task[t].retry]]
  /\ UNCHANGED <<app, auth, draft, got, tries, faults, manual>>

\* The worker's claim is live and the configuration is the task's.
Holds(i) ==
  LET t == w[i].task
  IN  task[t].status = "retrying" /\ task[t].lease = w[i].lease /\ task[t].live
Authorized(i) == Holds(i) /\ app.on /\ app.conf = task[w[i].task].conf
HasAuthority(i) ==
  auth.live /\ auth.task = w[i].task /\ auth.lease = w[i].lease

Failed(t) == [tries EXCEPT ![t] = IF @ <= MaxRetry THEN @ + 1 ELSE @]

\* Ways on from a step of deliver.
Go(i, pc) == w' = [w EXCEPT ![i].pc = pc] /\ UNCHANGED tries
Fail(i, pc) ==
  /\ w' = [w EXCEPT ![i] = [@ EXCEPT !.pc = pc, !.outcome = "fail"]]
  /\ tries' = Failed(w[i].task)

\* Authority goes to one live lease at a time.  A busy authority is no failure.
Acquire(i) ==
  /\ w[i].pc = "acquire"
  /\ IF auth.live
     THEN /\ w' = [w EXCEPT ![i] = [@ EXCEPT !.pc = "mark", !.outcome = "busy"]]
          /\ UNCHANGED <<auth, tries>>
     ELSE IF Authorized(i)
          THEN /\ auth' = [task |-> w[i].task, lease |-> w[i].lease, live |-> TRUE]
               /\ Go(i, "load")
          ELSE auth' = NoAuth /\ Fail(i, "mark")
  /\ UNCHANGED <<app, task, draft, got, faults, manual>>

Load(i) ==
  /\ w[i].pc = "load"
  /\ \/ /\ Authorized(i)
        /\ w' = [w EXCEPT ![i] = [@ EXCEPT !.pc = "confirm", !.items = task[w[i].task].items]]
        /\ UNCHANGED tries
     \/ ~Authorized(i) /\ Fail(i, "release")
  /\ UNCHANGED <<app, task, auth, draft, got, faults, manual>>

\* After the address was resolved and approved (or not).
Confirm(i) ==
  /\ w[i].pc = "confirm"
  /\ \/ Authorized(i) /\ HasAuthority(i) /\ Go(i, "post")
     \/ Fail(i, "release")
  /\ UNCHANGED <<app, task, auth, draft, got, faults, manual>>

\* The application may acknowledge what it got, and the answer may be lost.
Post(i) ==
  /\ w[i].pc = "post"
  /\ \E received \in {{}, w[i].items} : got' = got \cup received
  /\ \/ /\ w[i].items \subseteq got'
        /\ w' = [w EXCEPT ![i] = [@ EXCEPT !.pc = "release", !.outcome = "ok"]]
        /\ UNCHANGED tries
     \/ Fail(i, "release")
  /\ UNCHANGED <<app, task, auth, draft, faults, manual>>

\* The release may fail, which leaves the row to lapse.
Release(i) ==
  /\ w[i].pc = "release"
  /\ \/ auth' = IF auth.task = w[i].task /\ auth.lease = w[i].lease THEN NoAuth ELSE auth
     \/ UNCHANGED auth
  /\ w' = [w EXCEPT ![i] = IF w[i].outcome = "lost" THEN Idle ELSE [@ EXCEPT !.pc = "mark"]]
  /\ UNCHANGED <<app, task, draft, got, tries, faults, manual>>

\* mark_done, mark_authority_busy, mark_retry and mark_dead.
Marked(i) ==
  LET t == w[i].task
      row == [task[t] EXCEPT !.lease = 0, !.live = FALSE]
  IN  CASE w[i].outcome = "ok" -> [row EXCEPT !.status = "done"]
        [] w[i].outcome = "busy" -> row
        [] w[i].outcome = "fail" /\ w[i].retry < MaxRetry -> [row EXCEPT !.retry = @ + 1]
        [] OTHER -> [row EXCEPT !.status = "dead"]

\* The outcome is written only under the live claim.
Mark(i) ==
  /\ w[i].pc = "mark"
  /\ task' = IF Holds(i) THEN [task EXCEPT ![w[i].task] = Marked(i)] ELSE task
  /\ w' = [w EXCEPT ![i] = Idle]
  /\ UNCHANGED <<app, auth, draft, got, tries, faults, manual>>

\* A heartbeat finds the claim gone and deliver is cancelled.
HeartbeatLost(i) ==
  /\ w[i].pc \in {"acquire", "load", "confirm", "post", "release"} /\ ~Holds(i)
  /\ w' = [w EXCEPT ![i] = IF w[i].pc = "acquire" THEN Idle
                           ELSE [@ EXCEPT !.pc = "release", !.outcome = "lost"]]
  /\ UNCHANGED <<app, task, auth, draft, got, tries, faults, manual>>

Crash(i) ==
  /\ w[i].pc # "idle" /\ faults < MaxFaults
  /\ faults' = faults + 1
  /\ w' = [w EXCEPT ![i] = Idle]
  /\ UNCHANGED <<app, task, auth, draft, got, tries, manual>>

-----------------------------------------------------------------------------
(* Time.                                                                    *)

Running(t) ==
  \E i \in Workers : w[i].pc # "idle" /\ w[i].task = t /\ w[i].lease = task[t].lease

\* A claim lapses thirty seconds after its last heartbeat.
ClaimLapses(t) ==
  /\ task[t].live /\ ~Running(t)
  /\ task' = [task EXCEPT ![t].live = FALSE]
  /\ UNCHANGED <<app, auth, draft, w, got, tries, faults, manual>>

\* So does one of a worker whose heartbeats fail or that stands still.
ClaimLost(t) ==
  /\ task[t].live /\ Running(t) /\ faults < MaxFaults
  /\ faults' = faults + 1
  /\ task' = [task EXCEPT ![t].live = FALSE]
  /\ UNCHANGED <<app, auth, draft, w, got, tries, manual>>

AuthLapses ==
  /\ auth.live
  /\ ~(task[auth.task].live /\ task[auth.task].lease = auth.lease)
  /\ auth' = [auth EXCEPT !.live = FALSE]
  /\ UNCHANGED <<app, task, draft, w, got, tries, faults, manual>>

RetryDue(t) ==
  /\ task[t].status = "retrying" /\ task[t].lease = 0 /\ ~task[t].due
  /\ task' = [task EXCEPT ![t].due = TRUE]
  /\ UNCHANGED <<app, auth, draft, w, got, tries, faults, manual>>

-----------------------------------------------------------------------------
(* The administrator.                                                       *)

Revoked(row) ==
  [row EXCEPT !.status = "dead", !.retry = 0, !.due = FALSE, !.lease = 0,
              !.live = FALSE, !.revoked = TRUE]

\* A change that does not wait for deliveries under way.
ChangeAppAtOnce ==
  /\ \E new \in [conf : Confs, on : BOOLEAN] :
       /\ app' = new
       /\ task' = [t \in Tasks |->
            IF task[t].status \in {"pending", "retrying"}
                 /\ (new.conf # app.conf \/ (app.on /\ ~new.on))
            THEN Revoked(task[t]) ELSE task[t]]
  /\ UNCHANGED <<auth, draft, w, got, tries, faults, manual>>

\* app_update, app_disable and app_rotate_callback_secret with the trigger
\* revoke_callback_tasks_on_app_change.
ChangeApp ==
  /\ ~auth.live
  /\ auth' = NoAuth
  /\ \E new \in [conf : Confs, on : BOOLEAN] :
       /\ app' = new
       /\ task' = [t \in Tasks |->
            IF task[t].status \in {"pending", "retrying"}
                 /\ (new.conf # app.conf \/ (app.on /\ ~new.on))
            THEN Revoked(task[t]) ELSE task[t]]
  /\ UNCHANGED <<draft, w, got, tries, faults, manual>>

ManualRetry(t) ==
  /\ manual < MaxManual
  /\ task[t].status = "dead" /\ ~task[t].revoked /\ app.on /\ app.conf = task[t].conf
  /\ task' = [task EXCEPT ![t] = [@ EXCEPT !.status = "pending", !.retry = 0]]
  /\ tries' = [tries EXCEPT ![t] = 0]
  /\ manual' = manual + 1
  /\ UNCHANGED <<app, auth, draft, w, got, faults>>

-----------------------------------------------------------------------------
Step(i) == Acquire(i) \/ Load(i) \/ Confirm(i) \/ Post(i) \/ Release(i) \/ Mark(i)

Next ==
  \/ \E t \in Tasks : \/ Draft(t) \/ Create(t) \/ Append(t) \/ ClaimLapses(t)
                      \/ ClaimLost(t) \/ RetryDue(t) \/ ManualRetry(t)
                      \/ \E i \in Workers : Claim(i, t)
  \/ \E i \in Workers : Step(i) \/ HeartbeatLost(i) \/ Crash(i)
  \/ AuthLapses \/ ChangeApp

Spec == Init /\ [][Next]_vars

\* Workers take their steps, leases run out, and the scan for due tasks, which
\* runs every thirty seconds, passes over none of them for ever.
FairSpec ==
  /\ Spec
  /\ \A i \in Workers : WF_vars(Step(i))
  /\ \A t \in Tasks : /\ WF_vars(ClaimLapses(t)) /\ WF_vars(RetryDue(t))
                      /\ SF_vars(\E i \in Workers : Claim(i, t))
  /\ WF_vars(AuthLapses)

-----------------------------------------------------------------------------
(* Properties.                                                              *)

\* A delivery that posts under a live claim has the authority, and as long as
\* it has, the application keeps the configuration the delivery uses: nothing
\* is posted to an address, or signed with a secret, that was withdrawn, unless
\* the poster lost its claim and its authority first (deliver, app_update).
PostAuthorized ==
  \A i \in Workers : w[i].pc = "post" =>
    /\ Holds(i) => HasAuthority(i)
    /\ HasAuthority(i) => app.on /\ app.conf = task[w[i].task].conf

\* A task is done only when the application acknowledged every item that was
\* ever put into it, appended ones included (mark_done).  It is dead only after a
\* failed attempt for every entry of the schedule and one more, where waiting
\* for the authority is no attempt, or because it was revoked; and a revoked
\* task stays dead, also when the old configuration comes back (mark_dead,
\* mark_authority_busy, retry).
EndsAreEarned ==
  \A t \in Tasks :
    /\ task[t].status = "done" => task[t].items \subseteq got
    /\ task[t].revoked => task[t].status = "dead"
    /\ task[t].status = "dead" /\ ~task[t].revoked => tries[t] = MaxRetry + 1

\* Every task is delivered or dead in the end, whatever crashes.
Settles ==
  \A t \in Tasks : task[t].status = "pending" ~> task[t].status \in {"done", "dead"}
=============================================================================
