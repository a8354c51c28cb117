------------------------------ MODULE Release ------------------------------
(***************************************************************************)
(* One release of the four images on one host: release_manager.py (prepare,  *)
(* activate, resume, rollback and the compensation they share) over the      *)
(* durable record of release_store.py.                                      *)
(*                                                                         *)
(* The tool runs under the lifecycle lock, one process at a time; it may be    *)
(* told to stop, die between any two steps and in the middle of a command.     *)
(* What is durable is the store (state, event log, saved environment) and the  *)
(* host (environment file, containers, schema).  The containers are grouped    *)
(* as the plan recreates them; "backend" are the seven services of the api     *)
(* image.  gen says which container a group runs: the one found at prepare     *)
(* ("orig"), one made from the new references ("new") or again from the old    *)
(* ones ("back"), some of each ("mixed") or none.                             *)
(***************************************************************************)
EXTENDS Naturals

CONSTANTS
  Releases,   \* manifests: changed groups, whether the schema moves, cold cutover
  MaxFaults   \* bound on failing commands and probes, stop signals, crashes and
              \* containers that fall ill

Groups == {"postgres", "redis", "backend", "web"}
Data == {"postgres", "redis"}

ASSUME ReleaseAssumption ==
  /\ \A r \in Releases : /\ DOMAIN r = {"changed", "migrate", "cold"}
                         /\ r.changed \subseteq Groups
                         /\ r.migrate \in BOOLEAN /\ r.cold \in BOOLEAN
                         /\ r.cold => r.migrate /\ r.changed = Groups
  /\ MaxFaults \in Nat

VARIABLES
  rel,     \* the manifest
  store,   \* state.json, events.jsonl and original.env
  host,    \* environment references, containers and the schema
  tool,    \* the running process
  faults

vars == <<rel, store, host, tool, faults>>

RecreateKind == [postgres |-> "recreate_postgres", redis |-> "recreate_redis",
                 backend |-> "recreate_backend", web |-> "recreate_web"]
Recreations == {RecreateKind[g] : g \in Groups}
GroupOf(kind) == CHOOSE g \in Groups : RecreateKind[g] = kind

Kinds == Recreations \cup {"quiesce_backend", "wait_beat_lease", "run_migrate", "verify"}

States == {"none", "staged", "prepared", "activating", "succeeded", "rolling_back",
           "rolled_back", "failed", "recovery_required"}
Final == {"succeeded", "rolled_back", "failed", "recovery_required"}

\* The adjacency of the store.
Transitions ==
  [none |-> {"staged"}, staged |-> {"prepared", "failed"}, prepared |-> {"activating", "failed"},
   activating |-> {"succeeded", "rolling_back", "recovery_required"},
   rolling_back |-> {"rolled_back", "recovery_required"},
   succeeded |-> {}, rolled_back |-> {}, failed |-> {}, recovery_required |-> {}]

-----------------------------------------------------------------------------
(* The plan and what can be observed.                                       *)

BackendNeeded == rel.changed \cap {"postgres", "redis", "backend"} # {} \/ rel.migrate

Needed(kind) ==
  CASE kind \in {"quiesce_backend", "wait_beat_lease", "recreate_backend"} -> BackendNeeded
    [] kind = "run_migrate" -> rel.migrate
    [] kind = "verify" -> TRUE
    [] OTHER -> GroupOf(kind) \in rel.changed

\* The data services are exchanged while the backend still runs.
LateQuiesce ==
  [recreate_postgres |-> 1, quiesce_backend |-> 2, wait_beat_lease |-> 3, recreate_redis |-> 4,
   run_migrate |-> 5, recreate_backend |-> 6, recreate_web |-> 7, verify |-> 8]

\* build_activation_plan: the steps that are needed, and their order.
ActivationOrder ==
  [quiesce_backend |-> 1, wait_beat_lease |-> 2, recreate_postgres |-> 3, recreate_redis |-> 4,
   run_migrate |-> 5, recreate_backend |-> 6, recreate_web |-> 7, verify |-> 8]

Plan == {kind \in Kinds : Needed(kind)}

First(kinds, order) == CHOOSE k \in kinds : \A j \in kinds : order[k] <= order[j]

Selected == {g \in Groups : RecreateKind[g] \in Plan}

\* _observe_step_runtime_status: the references are compared with the target
\* first, so that an unchanged image counts as the target.
Observed(g) ==
  IF host.box[g].gen = "mixed" THEN "ambiguous"
  ELSE IF host.box[g].gen = "none" THEN "stopped"
  ELSE IF g \notin rel.changed \/ host.box[g].gen = "new" THEN "target" ELSE "original"

Healthy(g) == host.box[g].up = "healthy"

\* _observe_migration_state
MigrationObserved ==
  IF ~rel.migrate \/ host.mig = "new" THEN "target"
  ELSE IF host.mig = "orig" THEN "original" ELSE "ambiguous"

OriginalEnv == [g \in Groups |-> "orig"]
TargetEnv == [g \in Groups |-> IF g \in rel.changed THEN "new" ELSE "orig"]

EnvObserved ==
  IF host.env = OriginalEnv THEN "original"
  ELSE IF host.env = TargetEnv THEN "target" ELSE "mixed"

\* _observe_release_runtime: a stopped backend that was not recreated yet counts
\* as the original one.
GroupState(g) ==
  IF /\ g = "backend" /\ "recreate_backend" \notin store.done
     /\ Observed(g) = "stopped" \/ (Observed(g) = "original" /\ ~Healthy(g))
  THEN [state |-> "original", healthy |-> TRUE]
  ELSE [state |-> Observed(g), healthy |-> Healthy(g)]

ServiceState ==
  LET seen == {GroupState(g).state : g \in Selected} IN
  IF seen \subseteq {"target"} THEN "target"
  ELSE IF seen = {"original"} THEN "original"
  ELSE IF seen \subseteq {"original", "target", "stopped"} THEN "prefix" ELSE "ambiguous"

RuntimeHealthy == ServiceState # "ambiguous" /\ \A g \in Selected : GroupState(g).healthy

\* reconcile_release for a release that has not ended.
Reconcile ==
  LET untouched == /\ EnvObserved = "original" /\ ServiceState = "original"
                   /\ ~rel.migrate \/ MigrationObserved = "original"
      unclear == \/ EnvObserved = "mixed" \/ ServiceState = "ambiguous"
                 \/ MigrationObserved = "ambiguous" \/ ~RuntimeHealthy
  IN IF unclear THEN "recovery_required"
     ELSE IF store.state = "rolling_back" THEN "rollback"
     ELSE IF rel.migrate /\ MigrationObserved = "original" /\ ServiceState = "target"
          THEN "recovery_required"
     ELSE IF store.state = "prepared"
          THEN IF EnvObserved = "target" /\ ServiceState = "target" THEN "finalize"
               ELSE IF untouched THEN "resume" ELSE "recovery_required"
     ELSE IF untouched THEN "resume"
     ELSE IF EnvObserved = "original" /\ ServiceState # "original" THEN "rollback"
     ELSE IF EnvObserved = "target"
          THEN IF ServiceState = "target" THEN "finalize" ELSE "resume"
     ELSE "recovery_required"

-----------------------------------------------------------------------------
Idle == [pc |-> "idle", passed |-> {}, resumed |-> FALSE, kind |-> "verify", amb |-> FALSE,
         keep |-> {}, mig |-> "original", stop |-> FALSE]

TypeOK ==
  /\ rel \in Releases
  /\ store \in [state : States, failstep : Kinds \cup {"none"}, saved : BOOLEAN,
                done : SUBSET Kinds, begun : SUBSET Kinds, cdone : SUBSET Recreations,
                cbegun : SUBSET Recreations, residual : SUBSET (Data \cup {"migration"}),
                torn : BOOLEAN]
  /\ host \in [env : [Groups -> {"orig", "new"}],
               box : [Groups -> [gen : {"orig", "new", "back", "mixed", "none"},
                                 up : {"healthy", "ill", "sick", "stopped"}]],
               mig : {"orig", "new", "other"}]
  /\ faults \in 0..MaxFaults

Init ==
  /\ rel \in Releases
  /\ store = [state |-> "none", failstep |-> "none", saved |-> FALSE, done |-> {},
              begun |-> {}, cdone |-> {}, cbegun |-> {}, residual |-> {}, torn |-> FALSE]
  /\ host = [env |-> OriginalEnv, mig |-> "orig",
             box |-> [g \in Groups |-> [gen |-> "orig", up |-> "healthy"]]]
  /\ tool = Idle
  /\ faults = 0

Fault == faults < MaxFaults /\ faults' = faults + 1
NoFault == UNCHANGED faults

\* transition: only along the adjacency, else the caller gets an error.
To(s) == s \in Transitions[store.state] /\ store' = [store EXCEPT !.state = s]

Goto(pc) == tool' = [tool EXCEPT !.pc = pc]
Exit == tool' = Idle

\* An exception leaves the command with nothing written.
Raise == Exit /\ UNCHANGED <<store, host>>

\* The need for recovery is only reported.
RecoveryReported == UNCHANGED store /\ Exit

\* Every way into recovery_required; prepared passes through activating.
RecoveryRequired ==
  /\ store' = [store EXCEPT !.state = "recovery_required"]
  /\ Exit

\* _ensure_not_stopped at the boundary of a step.
Interrupted == tool.stop /\ Raise /\ NoFault

Failure(kind, amb) ==
  tool' = [tool EXCEPT !.pc = "compensate", !.kind = kind, !.amb = amb]

-----------------------------------------------------------------------------
(* prepare                                                                  *)

\* Creating the directory is atomic; a second call continues a staged release.
StartPrepare ==
  /\ tool.pc = "idle" /\ store.state \in {"none", "staged"}
  /\ store' = [store EXCEPT !.state = "staged"]
  /\ Goto("prepare")
  /\ UNCHANGED <<rel, host>> /\ NoFault

\* The bundle, its evidence, the images and the running containers are accepted
\* and recorded, or the release has failed.
FinishPrepare ==
  /\ tool.pc = "prepare"
  /\ \/ To("prepared") /\ Goto(IF tool.resumed THEN "activate" ELSE "idle") /\ NoFault
     \/ To("failed") /\ Exit /\ Fault
  /\ UNCHANGED <<rel, host>>

\* resume of a staged release prepares it and activates it.
ResumeStaged ==
  /\ tool.pc = "idle" /\ store.state = "staged"
  /\ tool' = [Idle EXCEPT !.pc = "prepare", !.resumed = TRUE]
  /\ UNCHANGED <<rel, store, host>> /\ NoFault

-----------------------------------------------------------------------------
(* activate                                                                 *)

Activate ==
  /\ \/ tool.pc = "idle" /\ store.state = "prepared"
     \/ tool.pc = "activate"
  /\ \/ Interrupted
     \/ /\ ~tool.stop /\ To("activating")
        /\ tool' = [Idle EXCEPT !.pc = "preflight"]
        /\ UNCHANGED host /\ NoFault
  /\ UNCHANGED rel

\* What prepare recorded is compared with the host.
NotDrifted ==
  /\ host.env = OriginalEnv /\ host.mig = "orig"
  /\ \A g \in Groups : host.box[g].gen = "orig" /\ host.box[g].up # "stopped"

Preflight ==
  /\ tool.pc = "preflight"
  /\ \/ NotDrifted /\ Goto("configure") /\ UNCHANGED store /\ NoFault
     \/ ~NotDrifted /\ RecoveryRequired /\ NoFault
     \/ RecoveryRequired /\ Fault
  /\ UNCHANGED <<rel, host>>

\* The first original environment is kept; a different one is an error, which
\* cannot be met here because configuration starts from the original.
SnapshotEnv ==
  /\ tool.pc = "configure"
  /\ host.env = OriginalEnv
  /\ store' = [store EXCEPT !.saved = TRUE]
  /\ Goto("replace_env")
  /\ UNCHANGED <<rel, host>> /\ NoFault

\* After an error the environment is restored, at best effort, and the failure is
\* compensated by activate and only reported by resume.
Configure ==
  /\ tool.pc = "replace_env"
  /\ \/ /\ host' = [host EXCEPT !.env = TargetEnv] /\ Goto("step") /\ NoFault
     \/ /\ Fault
        /\ \E env \in {OriginalEnv, TargetEnv} : host' = [host EXCEPT !.env = env]
        /\ IF tool.resumed THEN Exit ELSE Failure("verify", FALSE)
  /\ UNCHANGED <<rel, store>>

Step == First(Plan \ tool.passed, ActivationOrder)
NextStep == tool' = [tool EXCEPT !.pc = "step", !.passed = tool.passed \cup {Step}]

Complete(kind) == store' = [store EXCEPT !.done = @ \cup {kind}, !.begun = @ \ {kind}]

\* What resume does with a step before it runs it: it is skipped because it was
\* completed, found completed, refused or run.
Verdict(kind) ==
  LET state == IF kind \in Recreations THEN Observed(GroupOf(kind)) ELSE MigrationObserved
      well == kind \in Recreations => Healthy(GroupOf(kind))
  IN IF kind \in {"quiesce_backend", "wait_beat_lease", "verify"}
     THEN IF kind \in store.done THEN "skip" ELSE "run"
     ELSE IF kind \in store.done
          THEN IF state = "target" /\ well THEN "skip" ELSE "refuse"
     ELSE IF state = "target" /\ well THEN "found"
     ELSE IF state = "original" \/ (kind \in Recreations /\ state = "stopped")
          THEN "run" ELSE "refuse"

NextActivationStep ==
  /\ tool.pc = "step" /\ ~(Plan \subseteq tool.passed)
  /\ \/ Interrupted
     \/ /\ ~tool.stop /\ NoFault /\ UNCHANGED host
        /\ LET verdict == IF tool.resumed THEN Verdict(Step) ELSE "run" IN
           CASE verdict = "skip" -> NextStep /\ UNCHANGED store
             [] verdict = "found" -> NextStep /\ Complete(Step)
             [] verdict = "refuse" -> RecoveryRequired
             [] OTHER -> /\ store' = [store EXCEPT !.begun = @ \cup {Step}]
                         /\ Goto("run")
  /\ UNCHANGED rel

Finish ==
  /\ tool.pc = "step" /\ Plan \subseteq tool.passed
  /\ \/ Interrupted
     \/ ~tool.stop /\ To("succeeded") /\ Exit /\ UNCHANGED host /\ NoFault
  /\ UNCHANGED rel

-----------------------------------------------------------------------------
(* The commands.                                                            *)

Recreated(g) == [gen |-> IF host.env[g] = "orig" /\ g \in rel.changed THEN "back" ELSE "new",
                 up |-> "healthy"]

Effect(kind) ==
  CASE kind = "quiesce_backend" -> [host EXCEPT !.box["backend"].up = "stopped"]
    [] kind = "run_migrate" -> [host EXCEPT !.mig = "new"]
    [] kind \in Recreations -> [host EXCEPT !.box[GroupOf(kind)] = Recreated(GroupOf(kind))]
    [] OTHER -> host

\* What a command that fails or is cut short may leave: nothing, the old
\* container gone, some services of a group recreated, or all of them unhealthy.
Partial(kind) ==
  CASE kind = "quiesce_backend" ->
         {[host EXCEPT !.box["backend"].up = up] : up \in {host.box["backend"].up, "sick", "stopped"}}
    [] kind = "run_migrate" -> {[host EXCEPT !.mig = m] : m \in {host.mig, "other", "new"}}
    [] kind \in Recreations ->
         LET g == GroupOf(kind) IN
         {host} \cup {[host EXCEPT !.box[g] = b] :
            b \in {[gen |-> "none", up |-> "stopped"], [Recreated(g) EXCEPT !.up = "sick"]}
                  \cup IF g \in {"redis", "backend"} THEN {[gen |-> "mixed", up |-> "sick"]} ELSE {}}
    [] OTHER -> {host}

\* _verify_final_runtime: selected services run new containers of the target,
\* the others the containers found at prepare, all are well, and the schema is
\* the target.
ServicesFinal ==
  \A g \in Groups : Healthy(g) /\ host.box[g].gen = IF g \in Selected THEN "new" ELSE "orig"
RuntimeFinal == ServicesFinal /\ MigrationObserved = "target"

\* The failure is ambiguous if only the schema is wrong or a probe gives no
\* usable answer.
VerifyFinal(then) ==
  /\ UNCHANGED <<store, host>>
  /\ \/ RuntimeFinal /\ Goto(then) /\ NoFault
     \/ ~RuntimeFinal /\ Failure("verify", ServicesFinal) /\ NoFault
     \/ \E amb \in BOOLEAN : Failure("verify", amb) /\ Fault

\* _run_activation_step.  A command that raises leaves no observation; one that
\* returns an error is followed by an observation of the group.
RunStep ==
  /\ tool.pc = "run"
  /\ IF Step = "verify" THEN VerifyFinal("record") ELSE
     \/ host' = Effect(Step) /\ Goto("record") /\ UNCHANGED store /\ NoFault
     \/ /\ Fault
        /\ host' \in Partial(Step)
        /\ \/ Failure(Step, FALSE) /\ UNCHANGED store
           \/ /\ Step \in Recreations
              /\ Goto("look") /\ UNCHANGED store
  /\ UNCHANGED rel

LookAtFailure ==
  /\ tool.pc = "look"
  /\ LET state == Observed(GroupOf(Step)) IN
     /\ IF state = "target" THEN Complete(Step) ELSE UNCHANGED store
     /\ Failure(Step, state \notin {"target", "original"})
  /\ UNCHANGED <<rel, host>> /\ NoFault

RecordStep ==
  /\ tool.pc = "record"
  /\ \/ Complete(Step) /\ NextStep /\ NoFault
     \/ Failure(Step, TRUE) /\ UNCHANGED store /\ Fault
  /\ UNCHANGED <<rel, host>>

-----------------------------------------------------------------------------
(* Compensation.                                                            *)

\* The cold cutover stops the application instead.
ColdStop ==
  /\ tool.pc = "compensate" /\ rel.cold
  /\ RecoveryRequired
  /\ \/ host' = [host EXCEPT !.box["backend"].up = "stopped", !.box["web"].up = "stopped"] /\ NoFault
     \/ UNCHANGED host /\ Fault
  /\ UNCHANGED rel

\* Data images that stay although the release is undone.
KeptData(kind, mig) ==
  IF mig = "target" THEN Data \cap rel.changed
  ELSE IF kind \in {"recreate_backend", "recreate_web", "verify"}
       THEN {g \in Data : RecreateKind[g] \in store.done}
       ELSE {}

\* The schema is looked at only after a migration that was recorded.
SchemaMattersIfRecorded(kind) == rel.migrate /\ "run_migrate" \in store.done

SchemaMatters(kind) ==
  rel.migrate /\ ("run_migrate" \in store.done \/ kind = "run_migrate")

SchemaSeen(kind) == IF SchemaMatters(kind) THEN MigrationObserved ELSE "original"

\* A torn log cannot be read.
Compensate ==
  /\ tool.pc = "compensate" /\ ~rel.cold
  /\ UNCHANGED <<rel, host>>
  /\ LET mig == SchemaSeen(tool.kind)
         keep == KeptData(tool.kind, mig) IN
     \/ tool.amb /\ RecoveryRequired /\ NoFault
     \/ ~tool.amb /\ store.torn /\ Raise /\ NoFault
     \/ ~tool.amb /\ ~store.torn /\ mig = "ambiguous" /\ RecoveryRequired /\ NoFault
     \/ /\ ~tool.amb /\ ~store.torn /\ mig # "ambiguous" /\ NoFault
        /\ store' = [store EXCEPT !.state = "rolling_back",
                                  !.failstep = IF store.state = "rolling_back" THEN @ ELSE tool.kind]
        /\ tool' = [tool EXCEPT !.pc = "compensation_env", !.keep = keep, !.mig = mig]
     \/ /\ ~tool.amb /\ ~store.torn /\ SchemaMatters(tool.kind)
        /\ RecoveryRequired /\ Fault

CompensationEnv ==
  /\ tool.pc = "compensation_env"
  /\ \/ Interrupted
     \/ /\ ~tool.stop
        /\ IF store.saved
           THEN /\ host' = [host EXCEPT !.env = [g \in Groups |-> IF g \in tool.keep THEN "new" ELSE "orig"]]
                /\ \/ Goto("restore") /\ UNCHANGED store /\ NoFault
                   \/ RecoveryRequired /\ Fault
           ELSE RecoveryRequired /\ UNCHANGED host /\ NoFault
  /\ UNCHANGED rel

\* The groups that are put back, in this order.
RestoreOrder ==
  [recreate_web |-> 1, recreate_backend |-> 2, recreate_redis |-> 3, recreate_postgres |-> 4]
RestoreKinds ==
  {k \in Recreations : \/ k \in store.done /\ GroupOf(k) \notin tool.keep
                       \/ k = "recreate_backend" /\ "quiesce_backend" \in store.done}

Unrestored == RestoreKinds \ store.cdone
NextRestored == First(Unrestored, RestoreOrder)

NextRestore ==
  /\ tool.pc = "restore"
  /\ \/ Interrupted /\ Unrestored # {}
     \/ /\ ~tool.stop /\ Unrestored # {} /\ NoFault
        /\ store' = [store EXCEPT !.cbegun = @ \cup {NextRestored}]
        /\ tool' = [tool EXCEPT !.pc = "restore_run", !.kind = NextRestored]
        /\ UNCHANGED host
     \/ Unrestored = {} /\ Goto("verify_compensation") /\ UNCHANGED <<store, host>> /\ NoFault
  /\ UNCHANGED rel

RestoreRun ==
  /\ tool.pc = "restore_run"
  /\ \/ host' = Effect(tool.kind) /\ Goto("restore_record") /\ UNCHANGED store /\ NoFault
     \/ host' \in Partial(tool.kind) /\ RecoveryRequired /\ Fault
  /\ UNCHANGED rel

RestoreRecord ==
  /\ tool.pc = "restore_record"
  /\ store' = [store EXCEPT !.cdone = @ \cup {tool.kind}, !.cbegun = @ \ {tool.kind}]
  /\ Goto("restore")
  /\ UNCHANGED <<rel, host>> /\ NoFault

\* Nothing is looked at.
CompensationUnchecked == TRUE

\* _verify_compensation_result
CompensationVerified ==
  /\ \A g \in Selected :
       /\ Healthy(g)
       /\ Observed(g) \in (IF g \notin rel.changed THEN {"original", "target"}
                           ELSE IF g \in tool.keep THEN {"target"} ELSE {"original"})
  /\ MigrationObserved = IF ~rel.migrate \/ tool.mig = "target" THEN "target" ELSE "original"

VerifyCompensation ==
  /\ tool.pc = "verify_compensation"
  /\ \/ /\ CompensationVerified
        /\ store' = [store EXCEPT !.state = "rolled_back",
             !.residual = tool.keep \cup IF tool.mig = "target" THEN {"migration"} ELSE {}]
        /\ Exit /\ NoFault
     \/ ~CompensationVerified /\ RecoveryRequired /\ NoFault
     \/ RecoveryRequired /\ Fault
  /\ UNCHANGED <<rel, host>>

-----------------------------------------------------------------------------
(* resume and rollback                                                      *)

\* _record_rollback_runtime_effects: steps begun and not recorded are settled by
\* what runs now.
PendingCompensation == store.cbegun
PendingActivation == store.begun \ {"run_migrate", "wait_beat_lease", "verify"}

LooksAt(kind) == IF kind = "quiesce_backend" THEN "backend" ELSE GroupOf(kind)

Settled(kind) == Observed(LooksAt(kind)) \in {"original", "target"} /\ Healthy(LooksAt(kind))

CompensationFound(kind) ==
  IF GroupOf(kind) \in rel.changed THEN Observed(GroupOf(kind)) = "original" /\ Healthy(GroupOf(kind))
  ELSE Settled(kind)

EffectsClear ==
  /\ \A kind \in PendingCompensation :
       \/ CompensationFound(kind)
       \/ GroupOf(kind) \in rel.changed /\ Observed(GroupOf(kind)) = "target"
  /\ \A kind \in PendingActivation :
       \/ Settled(kind)
       \/ kind = "quiesce_backend" /\ Observed("backend") = "stopped"
       \/ kind # "quiesce_backend" /\ GroupOf(kind) \in rel.changed /\ Observed(GroupOf(kind)) = "target"

ActivationsFound ==
  {kind \in PendingActivation :
     IF kind = "quiesce_backend" THEN Observed("backend") = "stopped"
     ELSE GroupOf(kind) \in rel.changed /\ Observed(GroupOf(kind)) = "target"}

\* The failed step of the state decides what is kept, a migration if there is none.
RollbackFrom(s) ==
  IF store.torn
  THEN store' = s /\ Exit
  ELSE IF EffectsClear
  THEN LET found == {k \in PendingCompensation : CompensationFound(k)} IN
       /\ store' = [s EXCEPT !.done = @ \cup ActivationsFound, !.begun = @ \ ActivationsFound,
                             !.cdone = @ \cup found, !.cbegun = @ \ found]
       /\ tool' = [Idle EXCEPT !.pc = "compensate",
                     !.kind = IF store.failstep = "none" THEN "run_migrate" ELSE store.failstep]
  ELSE store' = [s EXCEPT !.state = "recovery_required"] /\ Exit

Rollback ==
  /\ tool.pc = "idle" /\ store.state \in {"prepared", "activating", "rolling_back"}
  /\ LET s == IF store.state = "prepared" THEN [store EXCEPT !.state = "activating", !.saved = TRUE]
              ELSE store IN
     IF rel.cold THEN /\ store' = [s EXCEPT !.saved = store.saved]
                      /\ tool' = [Idle EXCEPT !.pc = "compensate", !.amb = TRUE]
     ELSE RollbackFrom(s)
  /\ UNCHANGED <<rel, host>> /\ NoFault

\* resume of what was prepared or begun, decided by what is observed.
Resume ==
  /\ tool.pc = "idle" /\ store.state \in {"prepared", "activating", "rolling_back"}
  /\ UNCHANGED <<rel, host>>
  /\ IF rel.cold /\ store.state # "prepared"
     THEN tool' = [Idle EXCEPT !.pc = "compensate", !.amb = TRUE] /\ UNCHANGED store /\ NoFault
     ELSE /\ ~store.torn
          /\ \/ /\ NoFault
                /\ CASE Reconcile = "recovery_required" -> RecoveryRequired
                     [] Reconcile = "finalize" ->
                          /\ store' = [store EXCEPT !.state = "activating"]
                          /\ tool' = [Idle EXCEPT !.pc = "finalize", !.amb = store.state = "prepared"]
                     [] Reconcile = "rollback" -> RollbackFrom(store)
                     [] Reconcile = "resume" /\ store.state = "prepared" ->
                          /\ To("activating") /\ tool' = [Idle EXCEPT !.pc = "preflight"]
                     [] OTHER ->
                          /\ UNCHANGED store
                          /\ tool' = [Idle EXCEPT !.resumed = TRUE,
                               !.pc = IF EnvObserved = "original" THEN "configure" ELSE "step"]
             \/ RecoveryRequired /\ Fault

\* All services were found new: they are verified without running the plan.  An
\* activation that was never recorded makes a failure ambiguous.
Finalize ==
  /\ tool.pc = "finalize"
  /\ UNCHANGED <<rel, host>>
  /\ \/ RuntimeFinal /\ To("succeeded") /\ Exit /\ NoFault
     \/ /\ ~RuntimeFinal /\ NoFault
        /\ Failure("verify", ServicesFinal \/ tool.amb) /\ UNCHANGED store
     \/ \E amb \in BOOLEAN : Failure("verify", amb \/ tool.amb) /\ UNCHANGED store /\ Fault

-----------------------------------------------------------------------------
(* The surroundings.                                                        *)

\* request_stop
Signal ==
  /\ tool.pc # "idle" /\ ~tool.stop
  /\ Fault /\ tool' = [tool EXCEPT !.stop = TRUE]
  /\ UNCHANGED <<rel, store, host>>

\* The process or the host dies, possibly within a command or an append.
Crash ==
  /\ tool.pc # "idle"
  /\ Fault /\ Exit
  /\ host' \in CASE tool.pc = "run" -> Partial(Step) \cup {Effect(Step)}
                 [] tool.pc = "restore_run" -> Partial(tool.kind) \cup {Effect(tool.kind)}
                 [] OTHER -> {host}
  /\ \E torn \in {store.torn, TRUE} : store' = [store EXCEPT !.torn = torn]
  /\ UNCHANGED rel

\* A container that came up well falls ill by itself.
Sicken(g) ==
  /\ Healthy(g) /\ store.state \notin Final
  /\ Fault /\ host' = [host EXCEPT !.box[g].up = "ill"]
  /\ UNCHANGED <<rel, store, tool>>

ToolStep ==
  \/ FinishPrepare \/ (tool.pc = "activate" /\ Activate) \/ Preflight \/ SnapshotEnv \/ Configure
  \/ NextActivationStep \/ Finish \/ RunStep \/ LookAtFailure \/ RecordStep
  \/ ColdStop \/ Compensate \/ CompensationEnv \/ NextRestore \/ RestoreRun \/ RestoreRecord
  \/ VerifyCompensation \/ Finalize

Next ==
  \/ StartPrepare \/ ResumeStaged \/ Activate \/ Resume \/ Rollback \/ ToolStep
  \/ Signal \/ Crash \/ \E g \in Groups : Sicken(g)

Spec == Init /\ [][Next]_vars

\* A running command goes on, and somebody resumes what was left unfinished.
FairSpec == Spec /\ WF_vars(ToolStep) /\ WF_vars(Resume)

-----------------------------------------------------------------------------
(* Properties.                                                              *)

\* A release ends as succeeded only with the target everywhere: references,
\* recreated containers, schema, and nothing touched beside the plan.  It ends as
\* rolled back only with the originals everywhere but for what it records as
\* residual: data images that are kept, and a schema that moved
\* (_verify_final_runtime, _verify_compensation_result).  Every container of the
\* plan then came up well; it may have fallen ill by itself since it was looked at.
EndIsTrue ==
  /\ store.state = "succeeded" =>
       /\ host.env = TargetEnv /\ host.mig = (IF rel.migrate THEN "new" ELSE "orig")
       /\ \A g \in Groups : host.box[g].gen = IF g \in Selected THEN "new" ELSE "orig"
  /\ store.state = "rolled_back" =>
       /\ \A g \in Groups :
            /\ host.env[g] = IF g \in store.residual THEN "new" ELSE "orig"
            /\ g \in rel.changed =>
                 host.box[g].gen \in IF g \in store.residual THEN {"new"} ELSE {"orig", "back"}
            /\ g \notin Selected => host.box[g].gen = "orig"
       /\ host.mig # "orig" <=> "migration" \in store.residual
  /\ store.state \in {"succeeded", "rolled_back"} =>
       \A g \in Selected : host.box[g].up \in {"healthy", "ill"}

\* Once a migration has begun to move the schema, no changed data service runs or
\* is put back to its old image, whatever was lost between the migration and its
\* record (keep_data of _compensate, the observation of the schema in rollback).
SchemaKeepsItsData ==
  host.mig # "orig" =>
    \A g \in Data \cap rel.changed : host.box[g].gen \notin {"orig", "back"}

\* Going forward, also after any number of crashes and resumes, the data services
\* are exchanged and the schema is moved only while the backend is stopped.
ForwardIsQuiet ==
  [][/\ store.state = "activating"
     /\ \/ host'.mig # host.mig
        \/ \E g \in Data : host'.box[g].gen # host.box[g].gen
     => host.box["backend"].up = "stopped"]_vars

\* A release that was begun ends, whatever failed before, if it is resumed; but
\* for a log whose last line was torn, which no command reads.
Settles ==
  store.state \in {"activating", "rolling_back"} ~> store.state \in Final \/ store.torn
=============================================================================
