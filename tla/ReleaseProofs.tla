--------------------------- MODULE ReleaseProofs ---------------------------
(***************************************************************************)
(* Proofs about module Release, for every set of manifests and any number  *)
(* of faults: a release ends as what the host runs, a schema that was      *)
(* moved keeps the data services it needs, and going forward data services *)
(* and schema are exchanged only under a stopped backend.                  *)
(***************************************************************************)
EXTENDS Release, TLAPS

----------------------------------------------------------------------------
(* The inductive invariant *)

Pcs == {"idle", "prepare", "activate", "preflight", "configure", "replace_env", "step", "run",
        "record", "look", "compensate", "compensation_env", "restore", "restore_run",
        "restore_record", "verify_compensation", "finalize"}
Going == {"step", "run", "record", "look"}
Forward == {"preflight", "configure", "replace_env", "finalize"} \cup Going
Restoring == {"restore", "restore_run", "restore_record", "verify_compensation"}
Backward == {"compensation_env"} \cup Restoring

StoreType ==
  [state : States, failstep : Kinds \cup {"none"}, saved : BOOLEAN, done : SUBSET Kinds,
   begun : SUBSET Kinds, cdone : SUBSET Recreations, cbegun : SUBSET Recreations,
   residual : SUBSET (Data \cup {"migration"}), torn : BOOLEAN]
BoxType == [gen : {"orig", "new", "back", "mixed", "none"},
            up : {"healthy", "ill", "sick", "stopped"}]
HostType == [env : [Groups -> {"orig", "new"}], box : [Groups -> BoxType],
             mig : {"orig", "new", "other"}]
ToolType == [pc : Pcs, passed : SUBSET Kinds, resumed : BOOLEAN, kind : Kinds, amb : BOOLEAN,
             keep : SUBSET Data, mig : {"original", "target", "ambiguous"}, stop : BOOLEAN]

Types ==
  /\ rel \in Releases /\ store \in StoreType /\ host \in HostType /\ tool \in ToolType
  /\ faults \in 0..MaxFaults

Before(k) == {j \in Plan : ActivationOrder[j] < ActivationOrder[k]}
Touched == store.done \cup store.begun

\* A release that was not begun.
Unbegun == {"none", "staged", "prepared", "failed"}

\* Steps are begun in the order of the plan, each after the ones before it are
\* recorded, also across crashes and resumes.
InOrder ==
  /\ Touched \subseteq Plan
  /\ \A k \in Touched : Before(k) \subseteq store.done
  /\ store.state \in Unbegun => Touched = {}

\* The references that the containers are made from.
References ==
  /\ store.state \in Unbegun => host.env = OriginalEnv
  /\ store.state = "activating" =>
       /\ host.env \in {OriginalEnv, TargetEnv}
       /\ Touched # {} => host.env = TargetEnv

\* Going forward, a group runs what was found until its step is begun, and the new
\* container once the step is recorded; what the plan does not name is left alone.
Containers ==
  /\ \A g \in Groups \ Selected : host.box[g].gen = "orig"
  /\ store.state \in Unbegun \cup {"activating"} =>
       \A g \in Groups : RecreateKind[g] \notin Touched => host.box[g].gen = "orig"
  /\ store.state = "activating" =>
       \A g \in rel.changed : RecreateKind[g] \in store.done => host.box[g].gen = "new"

\* The backend is stopped from its quiescence to its recreation.
Quiet ==
  store.state = "activating" /\ "quiesce_backend" \in store.done /\ "recreate_backend" \notin Touched
    => host.box["backend"].up = "stopped"

\* The target runs, some of it ill by now.
TargetRuns ==
  /\ \A g \in Groups : host.box[g].gen = IF g \in Selected THEN "new" ELSE "orig"
  /\ \A g \in Selected : host.box[g].up \in {"healthy", "ill"}
  /\ host.mig = IF rel.migrate THEN "new" ELSE "orig"

\* What was verified stays so.
Verified == store.state = "activating" /\ "verify" \in store.done => TargetRuns

\* A schema that was moved is known to whatever compensates the release.
Schema ==
  /\ ~rel.migrate => host.mig = "orig"
  /\ store.state \in Unbegun => host.mig = "orig"
  /\ store.state \in Unbegun \cup {"activating"} => store.failstep = "none"
  /\ host.mig # "orig" /\ store.state = "activating" => "run_migrate" \in Touched
  /\ store.state = "rolling_back" =>
       /\ store.failstep # "none"
       /\ host.mig # "orig" => "run_migrate" \in store.done \/ store.failstep = "run_migrate"

\* What holds of the store and the host wherever the command is.
Durable ==
  /\ InOrder /\ References /\ Containers /\ Quiet /\ Verified /\ Schema
  /\ EndIsTrue /\ SchemaKeepsItsData

\* What a command relies on where it is.
AtPrepare ==
  /\ tool.pc = "prepare" => store.state = "staged"
  /\ tool.pc = "activate" => store.state = "prepared"
  /\ store.state \in Final => tool.pc = "idle"

AtForward ==
  /\ tool.pc \in Forward =>
       /\ store.state = "activating" /\ tool.passed \subseteq store.done
       /\ ~tool.resumed /\ tool.pc # "finalize" => store.done \subseteq tool.passed
  /\ tool.pc \in {"configure", "replace_env"} /\ ~tool.resumed => host.mig = "orig"
  /\ tool.pc = "replace_env" => host.env = OriginalEnv
  /\ tool.pc \in {"finalize"} \cup Going => host.env = TargetEnv
  /\ tool.pc = "finalize" /\ rel.migrate => "run_migrate" \in store.done

AtStep ==
  /\ tool.pc \in {"run", "record", "look"} =>
       ~(Plan \subseteq tool.passed) /\ Step \in store.begun /\ Step \notin store.done
  /\ tool.pc = "look" => Step \in Recreations
  /\ tool.pc = "record" =>
       /\ Step \in Recreations => host.box[GroupOf(Step)].gen = "new"
       /\ Step = "quiesce_backend" => host.box["backend"].up = "stopped"
       /\ Step = "verify" => TargetRuns

AtBackward ==
  /\ tool.pc = "compensate" =>
       /\ store.state \in {"activating", "rolling_back"}
       /\ ~rel.cold /\ host.mig # "orig" => "run_migrate" \in store.done \/ tool.kind = "run_migrate"
  /\ tool.pc \in Backward =>
       /\ store.state = "rolling_back"
       /\ tool.mig = "target" => rel.migrate
       /\ host.mig # "orig" => Data \cap rel.changed \subseteq tool.keep
  /\ tool.pc \in Restoring =>
       host.env = [g \in Groups |-> IF g \in tool.keep THEN "new" ELSE "orig"]
  /\ tool.pc \in {"restore_run", "restore_record"} => tool.kind \in RestoreKinds

IndInv == Types /\ Durable /\ AtPrepare /\ AtForward /\ AtStep /\ AtBackward
----------------------------------------------------------------------------
(* The plan *)

\* The kinds of steps, and the group a recreation is about.
LEMMA KindSet ==
  /\ Recreations = {"recreate_postgres", "recreate_redis", "recreate_backend", "recreate_web"}
  /\ Kinds = {"recreate_postgres", "recreate_redis", "recreate_backend", "recreate_web",
              "quiesce_backend", "wait_beat_lease", "run_migrate", "verify"}
<1>1. Recreations = {"recreate_postgres", "recreate_redis", "recreate_backend", "recreate_web"}
  BY DEF Recreations, RecreateKind, Groups
<1> QED
  BY Zenon, <1>1 DEF Kinds

\* The group of each recreation, and the recreation of each group.
LEMMA GroupIs ==
  /\ GroupOf("recreate_postgres") = "postgres" /\ GroupOf("recreate_redis") = "redis"
  /\ GroupOf("recreate_backend") = "backend" /\ GroupOf("recreate_web") = "web"
  /\ RecreateKind["postgres"] = "recreate_postgres" /\ RecreateKind["redis"] = "recreate_redis"
  /\ RecreateKind["backend"] = "recreate_backend" /\ RecreateKind["web"] = "recreate_web"
BY DEF GroupOf, RecreateKind, Groups

\* A recreation and its group name each other.
LEMMA GroupInverse ==
  /\ \A k \in Recreations : GroupOf(k) \in Groups /\ RecreateKind[GroupOf(k)] = k
  /\ \A g \in Groups : RecreateKind[g] \in Recreations /\ GroupOf(RecreateKind[g]) = g
BY Zenon, GroupIs, KindSet DEF Groups

\* What is needed.
LEMMA PlanIs ==
  ASSUME rel \in Releases
  PROVE  /\ Plan \subseteq Kinds /\ "verify" \in Plan
         /\ "run_migrate" \in Plan <=> rel.migrate
         /\ "quiesce_backend" \in Plan <=> BackendNeeded
         /\ "wait_beat_lease" \in Plan <=> BackendNeeded
         /\ "recreate_backend" \in Plan <=> BackendNeeded
         /\ "recreate_postgres" \in Plan <=> "postgres" \in rel.changed
         /\ "recreate_redis" \in Plan <=> "redis" \in rel.changed
         /\ "recreate_web" \in Plan <=> "web" \in rel.changed
<1>1. rel.migrate \in BOOLEAN
  BY Zenon, ReleaseAssumption
<1>2. BackendNeeded \in BOOLEAN
  BY Zenon, <1>1 DEF BackendNeeded
<1>3. \A k \in Kinds : k \in Plan <=> Needed(k)
  BY Zenon DEF Plan
<1> QED
  BY Zenon, <1>1, <1>2, <1>3, KindSet, GroupIs DEF Needed, Plan

\* The groups of the plan: what is changed, and the backend with the data services
\* and the schema.
LEMMA SelectedIs ==
  ASSUME rel \in Releases
  PROVE  /\ rel.changed \subseteq Selected /\ Selected \subseteq Groups
         /\ \A g \in Groups \ {"backend"} : g \in Selected => g \in rel.changed
         /\ "backend" \in Selected <=> BackendNeeded
         /\ \A k \in Recreations : k \in Plan => GroupOf(k) \in Selected
<1>1. rel.changed \subseteq Groups
  BY Zenon, ReleaseAssumption
<1>2. "backend" \in rel.changed => BackendNeeded
  BY Zenon DEF BackendNeeded
<1>3. rel.changed \subseteq Selected
  BY Zenon, <1>1, <1>2, PlanIs, GroupIs DEF Selected, Groups
<1>4. \A g \in Groups \ {"backend"} : g \in Selected => g \in rel.changed
  BY Zenon, PlanIs, GroupIs DEF Selected, Groups
<1>5. "backend" \in Selected <=> BackendNeeded
  BY Zenon, PlanIs, GroupIs DEF Selected, Groups
<1>6. \A k \in Recreations : k \in Plan => GroupOf(k) \in Selected
  BY Zenon, GroupInverse DEF Selected
<1> QED
  BY Zenon, <1>3, <1>4, <1>5, <1>6 DEF Selected

\* The places in the plan.
LEMMA OrderIs ==
  /\ ActivationOrder["quiesce_backend"] = 1 /\ ActivationOrder["wait_beat_lease"] = 2
  /\ ActivationOrder["recreate_postgres"] = 3 /\ ActivationOrder["recreate_redis"] = 4
  /\ ActivationOrder["run_migrate"] = 5 /\ ActivationOrder["recreate_backend"] = 6
  /\ ActivationOrder["recreate_web"] = 7 /\ ActivationOrder["verify"] = 8
BY Zenon DEF ActivationOrder

\* Of some steps one is the first.
LEMMA FirstIs ==
  ASSUME NEW K \in SUBSET Kinds, K # {}
  PROVE  /\ First(K, ActivationOrder) \in K
         /\ \A j \in K : ActivationOrder[First(K, ActivationOrder)] <= ActivationOrder[j]
<1>1. \E k \in K : \A j \in K : ActivationOrder[k] <= ActivationOrder[j]
  <2>0. \A j \in K : j \in {"recreate_postgres", "recreate_redis", "recreate_backend", "recreate_web",
              "quiesce_backend", "wait_beat_lease", "run_migrate", "verify"}
    BY Zenon, KindSet
  <2>1. CASE "quiesce_backend" \in K
    BY <2>0, <2>1, OrderIs
  <2>2. CASE "quiesce_backend" \notin K /\ "wait_beat_lease" \in K
    BY <2>0, <2>2, OrderIs
  <2>3. CASE K \cap {"quiesce_backend", "wait_beat_lease"} = {} /\ "recreate_postgres" \in K
    BY <2>0, <2>3, OrderIs
  <2>4. CASE /\ K \cap {"quiesce_backend", "wait_beat_lease", "recreate_postgres"} = {}
             /\ "recreate_redis" \in K
    BY <2>0, <2>4, OrderIs
  <2>5. CASE /\ K \cap {"quiesce_backend", "wait_beat_lease", "recreate_postgres", "recreate_redis"} = {}
             /\ "run_migrate" \in K
    BY <2>0, <2>5, OrderIs
  <2>6. CASE /\ K \subseteq {"recreate_backend", "recreate_web", "verify"}
             /\ "recreate_backend" \in K
    BY <2>6, OrderIs
  <2>7. CASE K \subseteq {"recreate_web", "verify"} /\ "recreate_web" \in K
    BY <2>7, OrderIs
  <2>8. CASE K \subseteq {"verify"} /\ "verify" \in K
    BY <2>8, OrderIs
  <2> QED
    BY Zenon, <2>0, <2>1, <2>2, <2>3, <2>4, <2>5, <2>6, <2>7, <2>8
<1> QED
  BY Zenon, <1>1 DEF First

\* Of some groups to put back one is the first.
LEMMA FirstRestored ==
  ASSUME NEW K \in SUBSET Recreations, K # {}
  PROVE  First(K, RestoreOrder) \in K
<1>0. \A j \in K : j \in {"recreate_postgres", "recreate_redis", "recreate_backend", "recreate_web"}
  BY Zenon, KindSet
<1>1. /\ RestoreOrder["recreate_web"] = 1 /\ RestoreOrder["recreate_backend"] = 2
      /\ RestoreOrder["recreate_redis"] = 3 /\ RestoreOrder["recreate_postgres"] = 4
  BY Zenon DEF RestoreOrder
<1>2. \E k \in K : \A j \in K : RestoreOrder[k] <= RestoreOrder[j]
  <2>1. CASE "recreate_web" \in K
    BY <1>0, <1>1, <2>1
  <2>2. CASE "recreate_web" \notin K /\ "recreate_backend" \in K
    BY <1>0, <1>1, <2>2
  <2>3. CASE K \cap {"recreate_web", "recreate_backend"} = {} /\ "recreate_redis" \in K
    BY <1>0, <1>1, <2>3
  <2>4. CASE K \subseteq {"recreate_postgres"} /\ "recreate_postgres" \in K
    BY <1>1, <2>4
  <2> QED
    BY Zenon, <1>0, <2>1, <2>2, <2>3, <2>4
<1> QED
  BY Zenon, <1>2 DEF First

\* The step at hand is one of the plan, and all before it are passed.
LEMMA StepIs ==
  ASSUME rel \in Releases, ~(Plan \subseteq tool.passed)
  PROVE  Step \in Plan /\ Step \notin tool.passed /\ Before(Step) \subseteq tool.passed
<1>1. Plan \ tool.passed \in SUBSET Kinds /\ Plan \ tool.passed # {}
  BY Zenon, PlanIs
<1>2. /\ Step \in Plan \ tool.passed
      /\ \A j \in Plan \ tool.passed : ActivationOrder[Step] <= ActivationOrder[j]
  BY Zenon, <1>1, FirstIs DEF Step
<1>3. \A k \in Kinds : ActivationOrder[k] \in Nat
  BY KindSet, OrderIs
<1>4. Step \in Kinds
  BY Zenon, <1>2, PlanIs
<1>5. ASSUME NEW j \in Before(Step) PROVE j \in tool.passed
  BY <1>2, <1>3, <1>4, <1>5, PlanIs DEF Before
<1> QED
  BY Zenon, <1>2, <1>5

\* What the order says of steps that are begun.
LEMMA OrderSays ==
  ASSUME rel \in Releases, InOrder
  PROVE  /\ "verify" \in store.done => Plan \subseteq store.done
         /\ \A k \in Plan \ store.done : \A j \in Touched : ActivationOrder[j] <= ActivationOrder[k]
<1>1. \A k \in Kinds : ActivationOrder[k] \in Nat
  BY KindSet, OrderIs
<1>2. \A k \in Touched : k \in Kinds
  BY Zenon, PlanIs DEF InOrder
<1>3. ASSUME NEW k \in Plan \ store.done, NEW j \in Touched PROVE ActivationOrder[j] <= ActivationOrder[k]
  <2>1. k \notin Before(j)
    BY Zenon, <1>3 DEF InOrder
  <2>2. k \in Kinds /\ j \in Kinds
    BY Zenon, <1>2, PlanIs
  <2> QED
    BY <1>1, <2>1, <2>2 DEF Before
<1>4. ASSUME "verify" \in store.done, NEW k \in Plan PROVE k \in store.done
  <2>1. k = "verify" \/ ActivationOrder[k] < ActivationOrder["verify"]
    BY PlanIs, KindSet, OrderIs
  <2>2. k = "verify" \/ k \in Before("verify")
    BY Zenon, <2>1 DEF Before
  <2> QED
    BY Zenon, <1>4, <2>2 DEF InOrder, Touched
<1> QED
  BY Zenon, <1>3, <1>4
----------------------------------------------------------------------------
(* What the assignments do *)

\* The command goes to another place.
LEMMA GotoIs ==
  ASSUME tool \in ToolType, NEW pc \in Pcs, Goto(pc)
  PROVE  /\ tool' \in ToolType /\ tool'.pc = pc
         /\ tool'.passed = tool.passed /\ tool'.resumed = tool.resumed /\ tool'.kind = tool.kind
         /\ tool'.keep = tool.keep /\ tool'.mig = tool.mig
BY Zenon DEF ToolType, Goto

\* No command runs.
LEMMA IdleIs ==
  /\ Idle \in ToolType /\ Idle.pc = "idle" /\ Idle.passed = {} /\ Idle.resumed = FALSE
  /\ Idle.kind = "verify"
BY Zenon, KindSet DEF Idle, ToolType, Pcs

\* A failure is compensated.
LEMMA FailureIs ==
  ASSUME tool \in ToolType, NEW kind \in Kinds, NEW amb \in BOOLEAN, Failure(kind, amb)
  PROVE  tool' \in ToolType /\ tool'.pc = "compensate" /\ tool'.kind = kind
BY Zenon DEF ToolType, Failure, Pcs

\* A fault is counted, or none happened.
LEMMA FaultIs ==
  ASSUME faults \in 0..MaxFaults, Fault \/ NoFault
  PROVE  faults' \in 0..MaxFaults
BY ReleaseAssumption DEF Fault, NoFault

\* The state is set.
LEMMA StateIs ==
  ASSUME store \in StoreType, NEW s \in States, store' = [store EXCEPT !.state = s]
  PROVE  /\ store' \in StoreType /\ store'.state = s
         /\ store'.failstep = store.failstep /\ store'.done = store.done /\ store'.begun = store.begun
         /\ store'.residual = store.residual
BY Zenon DEF StoreType

\* A step is recorded.
LEMMA CompleteIs ==
  ASSUME store \in StoreType, NEW k \in Kinds, Complete(k)
  PROVE  /\ store' \in StoreType /\ store'.state = store.state
         /\ store'.failstep = store.failstep /\ store'.done = store.done \cup {k}
         /\ store'.begun = store.begun \ {k} /\ store'.residual = store.residual
BY Zenon DEF StoreType, Complete

\* What only the manifest decides stays.
LEMMA RelSame ==
  rel' = rel => /\ Plan' = Plan /\ Selected' = Selected /\ TargetEnv' = TargetEnv
                /\ \A k : Before(k)' = Before(k)
BY Zenon DEF Plan, Needed, BackendNeeded, Selected, TargetEnv, Before

\* The step at hand stays.
LEMMA StepSame ==
  rel' = rel /\ tool'.passed = tool.passed => Step' = Step
BY Zenon, RelSame DEF Step

\* The two environments.
LEMMA EnvIs ==
  ASSUME rel \in Releases
  PROVE  /\ OriginalEnv \in [Groups -> {"orig", "new"}] /\ TargetEnv \in [Groups -> {"orig", "new"}]
         /\ \A g \in Groups : OriginalEnv[g] = "orig" /\ (TargetEnv[g] = "new" <=> g \in rel.changed)
BY Zenon DEF OriginalEnv, TargetEnv

\* The container a recreation makes.
LEMMA RecreatedIs ==
  ASSUME host \in HostType, NEW g \in Groups
  PROVE  /\ Recreated(g) \in BoxType /\ Recreated(g).gen \in {"new", "back"}
         /\ Recreated(g).gen = "back" <=> host.env[g] = "orig" /\ g \in rel.changed
BY Zenon DEF Recreated, BoxType

\* What a command may leave.  It touches one group, or the schema.
Leaves(kind, h) ==
  /\ h \in HostType /\ h.env = host.env
  /\ kind # "run_migrate" => h.mig = host.mig
  /\ \A g \in Groups :
       IF kind = RecreateKind[g]
       THEN h.box[g] = host.box[g] \/ h.box[g].gen \in {Recreated(g).gen, "none", "mixed"}
       ELSE /\ h.box[g].gen = host.box[g].gen
            /\ h.box[g].up = host.box[g].up \/ (g = "backend" /\ kind = "quiesce_backend")

\* A command, completed or not, leaves that.
LEMMA CommandLeaves ==
  ASSUME host \in HostType, NEW kind \in Kinds, NEW h \in Partial(kind) \cup {Effect(kind)}
  PROVE  Leaves(kind, h)
<1>0. /\ \A g \in Groups : host.box[g] \in BoxType
      /\ DOMAIN host.box = Groups /\ DOMAIN host = {"env", "box", "mig"}
  BY Zenon DEF HostType
<1>1. CASE kind = "quiesce_backend"
  <2>1. PICK up \in {"healthy", "ill", "sick", "stopped"} : h = [host EXCEPT !.box["backend"].up = up]
    <3>1. kind \notin Recreations /\ kind # "run_migrate" /\ host.box["backend"].up \in {"healthy", "ill", "sick", "stopped"}
      BY Zenon, <1>0, <1>1, KindSet DEF BoxType, Groups
    <3>2. h \in {[host EXCEPT !.box["backend"].up = up] : up \in {host.box["backend"].up, "sick", "stopped"}}
      BY Zenon, <1>1, <3>1 DEF Partial, Effect
    <3> QED
      BY Zenon, <3>1, <3>2
  <2>2. h \in HostType /\ h.env = host.env /\ h.mig = host.mig
    BY <2>1 DEF HostType, BoxType, Groups
  <2>3. \A g \in Groups : kind # RecreateKind[g]
    BY Zenon, <1>1, GroupIs DEF Groups
  <2>4. \A g \in Groups : h.box[g].gen = host.box[g].gen /\ (g # "backend" => h.box[g].up = host.box[g].up)
    BY Zenon, <1>0, <2>1 DEF BoxType
  <2> QED
    BY Zenon, <1>1, <2>2, <2>3, <2>4 DEF Leaves
<1>2. CASE kind = "run_migrate"
  <2>1. PICK m \in {"orig", "new", "other"} : h = [host EXCEPT !.mig = m]
    <3>1. kind \notin Recreations /\ kind # "quiesce_backend" /\ host.mig \in {"orig", "new", "other"}
      BY Zenon, <1>2, KindSet DEF HostType
    <3>2. h \in {[host EXCEPT !.mig = m] : m \in {host.mig, "other", "new"}}
      BY Zenon, <1>2, <3>1 DEF Partial, Effect
    <3> QED
      BY Zenon, <3>1, <3>2
  <2>2. h \in HostType /\ h.env = host.env /\ h.box = host.box
    BY Zenon, <2>1 DEF HostType
  <2>3. \A g \in Groups : kind # RecreateKind[g]
    BY Zenon, <1>2, GroupIs DEF Groups
  <2> QED
    BY Zenon, <1>2, <2>2, <2>3 DEF Leaves
<1>3. CASE kind \in Recreations
  <2> DEFINE g == GroupOf(kind)
  <2>1. g \in Groups /\ RecreateKind[g] = kind
    BY Zenon, <1>3, GroupInverse
  <2>2. \A f \in Groups : RecreateKind[f] = kind <=> f = g
    BY Zenon, <1>3, <2>1, GroupInverse
  <2>3. kind # "quiesce_backend" /\ kind # "run_migrate"
    BY Zenon, <1>3, KindSet
  <2> HIDE DEF g
  <2>4. h = host \/ \E b \in BoxType : /\ h = [host EXCEPT !.box[g] = b]
                                      /\ b.gen \in {Recreated(g).gen, "none", "mixed"}
    <3>1. /\ [gen |-> "none", up |-> "stopped"] \in BoxType /\ [gen |-> "mixed", up |-> "sick"] \in BoxType
          /\ [Recreated(g) EXCEPT !.up = "sick"] \in BoxType /\ Recreated(g) \in BoxType
          /\ [Recreated(g) EXCEPT !.up = "sick"].gen = Recreated(g).gen
      BY Zenon, <2>1, RecreatedIs DEF BoxType
    <3>2. h = host \/ \E b \in {[gen |-> "none", up |-> "stopped"], [gen |-> "mixed", up |-> "sick"],
                          [Recreated(g) EXCEPT !.up = "sick"], Recreated(g)} : h = [host EXCEPT !.box[g] = b]
      BY Zenon, <1>3, <2>3 DEF Partial, Effect, g
    <3> QED
      BY Zenon, <3>1, <3>2
  <2>5. CASE h = host
    BY Zenon, <2>3, <2>5 DEF Leaves
  <2>6. ASSUME NEW b \in BoxType, h = [host EXCEPT !.box[g] = b],
               b.gen \in {Recreated(g).gen, "none", "mixed"}
        PROVE  Leaves(kind, h)
    <3>1. h \in HostType /\ h.env = host.env /\ h.mig = host.mig
      BY Zenon, <2>1, <2>6 DEF HostType
    <3>2. h.box[g] = b /\ \A f \in Groups \ {g} : h.box[f] = host.box[f]
      BY Zenon, <1>0, <2>1, <2>6
    <3> QED
      BY Zenon, <2>2, <2>6, <3>1, <3>2 DEF Leaves
  <2> QED
    BY Zenon, <2>4, <2>5, <2>6
<1>4. CASE kind \in {"wait_beat_lease", "verify"}
  <2>1. h = host
    BY Zenon, <1>4, KindSet DEF Partial, Effect
  <2> QED
    BY Zenon, <1>4, <2>1 DEF Leaves
<1> QED
  BY Zenon, <1>1, <1>2, <1>3, <1>4, KindSet
----------------------------------------------------------------------------
(* What keeps the durable part *)

\* The parts of the record that the invariant is about.
RecordSame ==
  /\ store'.state = store.state /\ store'.failstep = store.failstep /\ store'.done = store.done
  /\ store'.begun = store.begun /\ store'.residual = store.residual

\* Nothing of the durable part changes.
LEMMA DurableSame ==
  ASSUME Durable, RecordSame, rel' = rel, host' = host
  PROVE  Durable'
<1>1. InOrder' /\ References'
  BY Zenon, RelSame DEF Durable, InOrder, References, RecordSame, Touched, OriginalEnv
<1>2. Containers' /\ Quiet'
  BY Zenon, RelSame DEF Durable, Containers, Quiet, RecordSame, Touched
<1>3. Verified' /\ Schema'
  BY Zenon, RelSame DEF Durable, Verified, TargetRuns, Schema, RecordSame, Touched
<1>4. EndIsTrue' /\ SchemaKeepsItsData'
  BY Zenon, RelSame DEF Durable, EndIsTrue, SchemaKeepsItsData, RecordSame
<1> QED
  BY Zenon, <1>1, <1>2, <1>3, <1>4 DEF Durable

\* The command of the step at hand, completed or not.
LEMMA RunDurable ==
  ASSUME Types, Durable, AtForward, AtStep, tool.pc = "run",
         NEW h \in Partial(Step) \cup {Effect(Step)}, host' = h, RecordSame, rel' = rel
  PROVE  host' \in HostType /\ Durable'
<1>0. /\ rel \in Releases /\ store.state = "activating" /\ host.env = TargetEnv
      /\ tool.passed \subseteq store.done /\ ~(Plan \subseteq tool.passed)
      /\ Step \in store.begun /\ Step \notin store.done /\ host \in HostType
  BY Zenon DEF Types, AtForward, AtStep, Forward, Going
<1>1. Step \in Plan /\ Step \in Kinds /\ Before(Step) \subseteq store.done /\ Step \in Touched
  BY Zenon, <1>0, StepIs, PlanIs DEF Touched
<1>2. Leaves(Step, h)
  BY Zenon, <1>0, <1>1, CommandLeaves
<1>3. /\ host' \in HostType /\ host'.env = host.env
      /\ Step # "run_migrate" => host'.mig = host.mig
      /\ \A g \in Groups : Step # RecreateKind[g] =>
           /\ host'.box[g].gen = host.box[g].gen
           /\ host'.box[g].up = host.box[g].up \/ Step = "quiesce_backend"
      /\ \A g \in rel.changed : Step = RecreateKind[g] =>
           host'.box[g] = host.box[g] \/ host'.box[g].gen \in {"new", "none", "mixed"}
  <2>1. \A g \in rel.changed : g \in Groups /\ Recreated(g).gen = "new"
    BY Zenon, <1>0, EnvIs, RecreatedIs, ReleaseAssumption
  <2> QED
    BY Zenon, <1>2, <2>1 DEF Leaves
<1>4. InOrder' /\ References'
  BY <1>3, RelSame DEF Durable, InOrder, References, RecordSame, Touched, OriginalEnv
<1>5. Containers'
  <2>1. \A g \in Groups : Step = RecreateKind[g] => g \in Selected
    BY Zenon, <1>1 DEF Selected
  <2>2. \A g \in rel.changed : g \in Groups
    BY Zenon, <1>0, ReleaseAssumption
  <2>3. Selected' = Selected /\ Touched' = Touched /\ store'.state = "activating" /\ store'.done = store.done
    BY Zenon, <1>0, RelSame DEF RecordSame, Touched
  <2>4. \A g \in Groups \ Selected : host'.box[g].gen = "orig"
    BY <1>3, <2>1 DEF Durable, Containers
  <2>5. \A g \in Groups : RecreateKind[g] \notin Touched => host'.box[g].gen = "orig"
    BY Zenon, <1>0, <1>1, <1>3 DEF Durable, Containers
  <2>6. \A g \in rel.changed : RecreateKind[g] \in store.done => host'.box[g].gen = "new"
    BY Zenon, <1>0, <1>3, <2>2 DEF Durable, Containers
  <2> QED
    BY Zenon, <2>3, <2>4, <2>5, <2>6 DEF Containers
<1>6. Quiet'
  <2>1. "backend" \in Groups /\ RecreateKind["backend"] = "recreate_backend"
    BY Zenon, GroupIs DEF Groups
  <2> QED
    BY Zenon, <1>0, <1>1, <1>3, <2>1 DEF Durable, Quiet, RecordSame, Touched
<1>7. Verified'
  BY Zenon, <1>0, <1>1, OrderSays DEF Durable, Verified, RecordSame
<1>8. Schema'
  <2>1. rel.migrate \/ Step # "run_migrate"
    BY Zenon, <1>0, <1>1, PlanIs
  <2> QED
    BY Zenon, <1>0, <1>1, <1>3, <2>1 DEF Durable, Schema, RecordSame, Touched, Unbegun
<1>9. EndIsTrue'
  BY Zenon, <1>0 DEF EndIsTrue, RecordSame
<1>10. SchemaKeepsItsData'
  <2>1. CASE Step = "run_migrate"
    <3>1. ASSUME NEW g \in Data \cap rel.changed PROVE host'.box[g].gen = "new"
      <4>1. g \in {"postgres", "redis"} /\ g \in Groups /\ Step # RecreateKind[g]
        BY Zenon, <2>1, GroupIs DEF Data, Groups
      <4>2. RecreateKind[g] \in Before(Step)
        BY <1>0, <2>1, <4>1, GroupIs, OrderIs, PlanIs DEF Before
      <4>3. host.box[g].gen = "new"
        BY Zenon, <1>0, <1>1, <4>2 DEF Durable, Containers
      <4> QED
        BY Zenon, <1>3, <4>1, <4>3
    <3> QED
      BY Zenon, <3>1 DEF SchemaKeepsItsData
  <2>2. CASE Step # "run_migrate"
    <3>1. \A g \in Data \cap rel.changed : g \in Groups
      BY Zenon DEF Data, Groups
    <3> QED
      BY Zenon, <1>3, <2>2, <3>1 DEF Durable, SchemaKeepsItsData
  <2> QED
    BY Zenon, <2>1, <2>2
<1> QED
  BY Zenon, <1>3, <1>4, <1>5, <1>6, <1>7, <1>8, <1>9, <1>10 DEF Durable

\* The command that puts a group back, completed or not, touches only what the plan
\* names, and no data service that a moved schema needs.
LEMMA RestoreLeaves ==
  ASSUME Types, Durable, AtBackward, tool.pc = "restore_run",
         NEW h \in Partial(tool.kind) \cup {Effect(tool.kind)}, host' = h
  PROVE  /\ host' \in HostType /\ host'.env = host.env /\ host'.mig = host.mig
         /\ \A g \in Groups : g \notin Selected \/ (host.mig # "orig" /\ g \in Data \cap rel.changed)
              => host'.box[g].gen = host.box[g].gen
<1>0. /\ rel \in Releases /\ store.state = "rolling_back" /\ host \in HostType
      /\ tool.kind \in RestoreKinds
      /\ host.mig # "orig" => Data \cap rel.changed \subseteq tool.keep
  BY Zenon DEF Types, AtBackward, Backward, Restoring
<1>1. /\ tool.kind \in Recreations /\ tool.kind \in Plan /\ tool.kind \in Kinds
      /\ GroupOf(tool.kind) \notin tool.keep \/ tool.kind = "recreate_backend"
  <2>1. \/ tool.kind \in store.done
        \/ tool.kind = "recreate_backend" /\ "quiesce_backend" \in store.done
    BY Zenon, <1>0 DEF RestoreKinds
  <2>2. tool.kind \in Plan
    BY Zenon, <1>0, <2>1, PlanIs DEF Durable, InOrder, Touched
  <2> QED
    BY Zenon, <1>0, <2>2, PlanIs DEF RestoreKinds
<1>2. Leaves(tool.kind, h)
  BY Zenon, <1>0, <1>1, CommandLeaves
<1>3. /\ host' \in HostType /\ host'.env = host.env /\ host'.mig = host.mig
      /\ \A g \in Groups : tool.kind # RecreateKind[g] => host'.box[g].gen = host.box[g].gen
  BY Zenon, <1>1, <1>2, KindSet DEF Leaves
<1>4. \A g \in Groups : tool.kind = RecreateKind[g] => g \in Selected
  BY Zenon, <1>1 DEF Selected
<1>5. ASSUME host.mig # "orig", NEW g \in Data \cap rel.changed PROVE tool.kind # RecreateKind[g]
  BY Zenon, <1>0, <1>1, <1>5, GroupIs DEF Data
<1> QED
  BY Zenon, <1>3, <1>4, <1>5

\* It keeps the durable part.
LEMMA RestoreDurable ==
  ASSUME Types, Durable, AtBackward, tool.pc = "restore_run",
         NEW h \in Partial(tool.kind) \cup {Effect(tool.kind)}, host' = h, RecordSame, rel' = rel
  PROVE  /\ host' \in HostType /\ Durable'
         /\ host'.env = host.env /\ host'.mig = host.mig
<1>0. store.state = "rolling_back"
  BY Zenon DEF AtBackward, Backward, Restoring
<1>1. /\ host' \in HostType /\ host'.env = host.env /\ host'.mig = host.mig
      /\ \A g \in Groups : g \notin Selected \/ (host.mig # "orig" /\ g \in Data \cap rel.changed)
           => host'.box[g].gen = host.box[g].gen
  BY Zenon, RestoreLeaves
<1>2. InOrder' /\ References' /\ Quiet' /\ Verified' /\ Schema' /\ EndIsTrue'
  BY <1>0, <1>1, RelSame
     DEF Durable, InOrder, References, Quiet, Verified, Schema, EndIsTrue, RecordSame,
       Touched, Unbegun
<1>3. Containers'
  BY Zenon, <1>0, <1>1, RelSame DEF Durable, Containers, RecordSame, Unbegun
<1>4. SchemaKeepsItsData'
  BY Zenon, <1>1 DEF Durable, SchemaKeepsItsData, Data, Groups
<1> QED
  BY Zenon, <1>1, <1>2, <1>3, <1>4 DEF Durable
\* A release that was not begun is taken further.
LEMMA BeganDurable ==
  ASSUME Types, Durable, store.state \in Unbegun, rel' = rel, host' = host,
         store'.state \in Unbegun \cup {"activating"}, store'.failstep = store.failstep,
         store'.done = store.done, store'.begun = store.begun
  PROVE  Durable' /\ Touched = {} /\ host.env = OriginalEnv /\ host.mig = "orig"
<1>0. /\ Touched = {} /\ host.env = OriginalEnv /\ host.mig = "orig" /\ Touched' = Touched
      /\ store.done = {} /\ store'.state \notin {"rolling_back", "succeeded", "rolled_back"}
  BY Zenon DEF Durable, InOrder, References, Schema, Touched, Unbegun
<1>1. InOrder' /\ References'
  BY Zenon, <1>0, RelSame DEF InOrder, References, OriginalEnv
<1>2. Containers' /\ Quiet' /\ Verified'
  BY Zenon, <1>0, RelSame DEF Durable, Containers, Quiet, Verified, Unbegun
<1>3. Schema' /\ EndIsTrue' /\ SchemaKeepsItsData'
  BY Zenon, <1>0 DEF Durable, Schema, EndIsTrue, SchemaKeepsItsData, Unbegun
<1> QED
  BY Zenon, <1>0, <1>1, <1>2, <1>3 DEF Durable

\* The references are exchanged.
LEMMA EnvDurable ==
  ASSUME Types, Durable, NEW e \in [Groups -> {"orig", "new"}], host' = [host EXCEPT !.env = e],
         RecordSame, rel' = rel,
         \/ store.state = "activating" /\ e \in {OriginalEnv, TargetEnv} /\ Touched = {}
         \/ store.state = "activating" /\ e = TargetEnv
         \/ store.state = "rolling_back"
  PROVE  host' \in HostType /\ host'.env = e /\ host'.mig = host.mig /\ host'.box = host.box /\ Durable'
<1>0. host' \in HostType /\ host'.env = e /\ host'.mig = host.mig /\ host'.box = host.box
  BY Zenon DEF Types, HostType
<1>1. InOrder' /\ References'
  BY <1>0, RelSame
    DEF Durable, InOrder, References, RecordSame, Touched, OriginalEnv, Unbegun
<1>2. Containers' /\ Quiet'
  BY Zenon, <1>0, RelSame DEF Durable, Containers, Quiet, RecordSame, Touched
<1>3. Verified' /\ Schema'
  BY Zenon, <1>0, RelSame DEF Durable, Verified, TargetRuns, Schema, RecordSame, Touched
<1>4. EndIsTrue' /\ SchemaKeepsItsData'
  BY Zenon, <1>0 DEF Durable, EndIsTrue, SchemaKeepsItsData, RecordSame
<1> QED
  BY Zenon, <1>0, <1>1, <1>2, <1>3, <1>4 DEF Durable

\* A step is begun.
LEMMA BeginDurable ==
  ASSUME Types, Durable, NEW k \in Plan, Before(k) \subseteq store.done, store.state = "activating",
         host.env = TargetEnv, store' = [store EXCEPT !.begun = store.begun \cup {k}],
         host' = host, rel' = rel
  PROVE  store' \in StoreType /\ store'.state = "activating" /\ store'.done = store.done
         /\ k \in store'.begun /\ Durable'
<1>0. /\ store' \in StoreType /\ store'.state = store.state /\ store'.done = store.done
      /\ store'.begun = store.begun \cup {k} /\ store'.failstep = store.failstep
  BY Zenon, PlanIs DEF Types, StoreType
<1>1. Touched' = Touched \cup {k} /\ Touched \subseteq Plan
  BY Zenon, <1>0 DEF Touched, Durable, InOrder
<1>2. InOrder' /\ References'
  BY Zenon, <1>0, <1>1, RelSame DEF Durable, InOrder, References, Unbegun
<1>3. Containers' /\ Quiet'
  BY Zenon, <1>0, <1>1, RelSame DEF Durable, Containers, Quiet
<1>4. Verified' /\ Schema'
  BY Zenon, <1>0, <1>1, RelSame DEF Durable, Verified, TargetRuns, Schema
<1>5. EndIsTrue' /\ SchemaKeepsItsData'
  BY Zenon, <1>0 DEF Durable, EndIsTrue, SchemaKeepsItsData
<1> QED
  BY Zenon, <1>0, <1>2, <1>3, <1>4, <1>5 DEF Durable

\* A step is recorded whose effect is there.
LEMMA CompleteDurable ==
  ASSUME Types, Durable, NEW k \in Plan, Before(k) \subseteq store.done, store.state = "activating",
         host.env = TargetEnv, Complete(k), host' = host, rel' = rel,
         \A g \in rel.changed : k = RecreateKind[g] => host.box[g].gen = "new",
         k = "quiesce_backend" /\ "recreate_backend" \notin Touched => host.box["backend"].up = "stopped",
         k = "verify" => TargetRuns
  PROVE  store' \in StoreType /\ store'.state = "activating" /\ store'.done = store.done \cup {k}
         /\ Durable'
<1>0. /\ store' \in StoreType /\ store'.state = store.state /\ store'.done = store.done \cup {k}
      /\ store'.begun = store.begun \ {k} /\ store'.failstep = store.failstep
  BY Zenon, PlanIs, CompleteIs DEF Types
<1>1. Touched' = Touched \cup {k} /\ Touched \subseteq Plan
  BY Zenon, <1>0 DEF Touched, Durable, InOrder
<1>2. InOrder' /\ References'
  BY <1>0, <1>1, RelSame DEF Durable, InOrder, References, Unbegun
<1>3. Containers'
  BY Zenon, <1>0, <1>1, RelSame DEF Durable, Containers
<1>4. Quiet'
  BY Zenon, <1>0, <1>1 DEF Durable, Quiet
<1>5. Verified' /\ Schema'
  BY Zenon, <1>0, <1>1, RelSame DEF Durable, Verified, TargetRuns, Schema
<1>6. EndIsTrue' /\ SchemaKeepsItsData'
  BY Zenon, <1>0 DEF Durable, EndIsTrue, SchemaKeepsItsData
<1> QED
  BY Zenon, <1>0, <1>2, <1>3, <1>4, <1>5, <1>6 DEF Durable

\* A command that ends leaves only the durable part.
LEMMA EndPreserves ==
  ASSUME Types', Durable', tool' = Idle
  PROVE  IndInv'
<1>1. tool'.pc = "idle"
  BY Zenon, IdleIs
<1> QED
  BY Zenon, <1>1
    DEF IndInv, AtPrepare, AtForward, AtStep, AtBackward, Forward, Going, Backward,
        Restoring

\* Recovery by hand is asked for.
LEMMA RecoveryPreserves ==
  ASSUME Types, Durable, rel' = rel, tool' = Idle, Fault \/ NoFault,
         store' \in StoreType, store'.state = "recovery_required", store'.done = store.done,
         store'.begun = store.begun, host' \in HostType, host'.mig = host.mig,
         \A g \in Groups : host'.box[g].gen = host.box[g].gen
  PROVE  IndInv'
<1>1. Types'
  BY Zenon, IdleIs, FaultIs DEF Types
<1>2. InOrder' /\ Containers'
  BY RelSame DEF Durable, InOrder, Containers, Touched, Unbegun
<1>3. References' /\ Quiet' /\ Verified' /\ Schema' /\ EndIsTrue'
  BY Zenon DEF Durable, References, Quiet, Verified, Schema, EndIsTrue, Unbegun
<1>4. SchemaKeepsItsData'
  BY Zenon DEF Durable, SchemaKeepsItsData, Data, Groups
<1>5. Durable'
  BY Zenon, <1>2, <1>3, <1>4 DEF Durable
<1> QED
  BY Zenon, <1>1, <1>5, EndPreserves

\* The same with the host as it is.
LEMMA RecoveryAlone ==
  ASSUME Types, Durable, rel' = rel, RecoveryRequired, Fault \/ NoFault, host' = host
  PROVE  IndInv'
<1>1. "recovery_required" \in States
  BY Zenon DEF States
<1>2. /\ store' \in StoreType /\ store'.state = "recovery_required" /\ store'.done = store.done
      /\ store'.begun = store.begun /\ tool' = Idle /\ host' \in HostType
  BY Zenon, <1>1, StateIs DEF Types, RecoveryRequired, Exit
<1> QED
  BY Zenon, <1>2, RecoveryPreserves

\* An exception or a crash between two steps.
LEMMA RaisePreserves ==
  ASSUME Types, Durable, rel' = rel, Raise, Fault \/ NoFault
  PROVE  IndInv'
<1>1. Types'
  BY Zenon, IdleIs, FaultIs DEF Types, Raise, Exit
<1>2. Durable'
  BY Zenon, DurableSame DEF RecordSame, Raise
<1> QED
  BY Zenon, <1>1, <1>2, EndPreserves DEF Raise, Exit

\* A failure is compensated.
LEMMA FailurePreserves ==
  ASSUME Types, Durable', rel' = rel, NEW kind \in Kinds, NEW amb \in BOOLEAN, Failure(kind, amb),
         Fault \/ NoFault, store' \in StoreType, store'.state \in {"activating", "rolling_back"},
         host' \in HostType,
         host'.mig # "orig" => "run_migrate" \in store'.done \/ kind = "run_migrate"
  PROVE  IndInv'
<1>1. tool' \in ToolType /\ tool'.pc = "compensate" /\ tool'.kind = kind
  BY Zenon, FailureIs DEF Types
<1>2. Types'
  BY Zenon, <1>1, FaultIs DEF Types
<1>3. AtPrepare' /\ AtForward' /\ AtStep'
  BY Zenon, <1>1 DEF AtPrepare, AtForward, AtStep, Forward, Going, Final
<1>4. AtBackward'
  BY Zenon, <1>1 DEF AtBackward, Backward, Restoring
<1> QED
  BY Zenon, <1>2, <1>3, <1>4 DEF IndInv

\* A step at hand is compensated knowing of the schema it may have moved.
LEMMA FailedStepKnows ==
  ASSUME rel \in Releases, InOrder, NEW k \in Plan \ store.done, k \in Touched,
         "run_migrate" \in Touched
  PROVE  "run_migrate" \in store.done \/ k = "run_migrate"
<1>1. CASE "run_migrate" \notin store.done
  <2>1. /\ ActivationOrder[k] <= ActivationOrder["run_migrate"]
        /\ ActivationOrder["run_migrate"] <= ActivationOrder[k]
    BY Zenon, <1>1, OrderSays DEF InOrder
  <2> QED
    BY <2>1, PlanIs, KindSet, OrderIs
<1> QED
  BY Zenon, <1>1
----------------------------------------------------------------------------
(* One lemma per action *)

\* A release is taken up.
LEMMA StartPreparePreserves ==
  ASSUME IndInv, StartPrepare
  PROVE  IndInv'
<1>0. /\ Types /\ Durable /\ store.state \in Unbegun /\ rel' = rel /\ host' = host
      /\ "staged" \in States /\ "prepare" \in Pcs
  BY Zenon DEF IndInv, StartPrepare, Unbegun, States, Pcs
<1>1. /\ store' \in StoreType /\ store'.state = "staged" /\ store'.failstep = store.failstep
      /\ store'.done = store.done /\ store'.begun = store.begun
  BY Zenon, <1>0, StateIs DEF Types, StartPrepare
<1>2. tool' \in ToolType /\ tool'.pc = "prepare"
  BY Zenon, <1>0, GotoIs DEF Types, StartPrepare
<1>3. Durable'
  BY Zenon, <1>0, <1>1, BeganDurable DEF Unbegun
<1>4. Types'
  BY Zenon, <1>0, <1>1, <1>2, FaultIs DEF Types, StartPrepare
<1> QED
  BY Zenon, <1>1, <1>2, <1>3, <1>4
     DEF IndInv, AtPrepare, AtForward, AtStep, AtBackward, Forward, Going, Backward,
       Restoring, Final

\* It is prepared or has failed.
LEMMA FinishPreparePreserves ==
  ASSUME IndInv, FinishPrepare
  PROVE  IndInv'
<1>0. /\ Types /\ Durable /\ store.state = "staged" /\ rel' = rel /\ host' = host
      /\ {"prepared", "failed"} \subseteq States /\ {"activate", "idle"} \subseteq Pcs
  BY Zenon DEF IndInv, AtPrepare, FinishPrepare, States, Pcs
<1>1. CASE To("prepared") /\ Goto(IF tool.resumed THEN "activate" ELSE "idle") /\ NoFault
  <2>1. /\ store' \in StoreType /\ store'.state = "prepared" /\ store'.failstep = store.failstep
        /\ store'.done = store.done /\ store'.begun = store.begun
    BY Zenon, <1>0, <1>1, StateIs DEF Types, To
  <2>2. tool' \in ToolType /\ tool'.pc \in {"activate", "idle"}
    BY Zenon, <1>0, <1>1, GotoIs DEF Types
  <2>3. Durable'
    BY Zenon, <1>0, <2>1, BeganDurable DEF Unbegun
  <2>4. Types'
    BY Zenon, <1>0, <1>1, <2>1, <2>2, FaultIs DEF Types
  <2> QED
    BY Zenon, <2>1, <2>2, <2>3, <2>4
       DEF IndInv, AtPrepare, AtForward, AtStep, AtBackward, Forward, Going, Backward,
         Restoring, Final
<1>2. CASE To("failed") /\ Exit /\ Fault
  <2>1. /\ store' \in StoreType /\ store'.state = "failed" /\ store'.failstep = store.failstep
        /\ store'.done = store.done /\ store'.begun = store.begun
    BY Zenon, <1>0, <1>2, StateIs DEF Types, To
  <2>2. Durable'
    BY Zenon, <1>0, <2>1, BeganDurable DEF Unbegun
  <2>3. Types'
    BY Zenon, <1>0, <1>2, <2>1, IdleIs, FaultIs DEF Types, Exit
  <2> QED
    BY Zenon, <1>2, <2>2, <2>3, EndPreserves DEF Exit
<1> QED
  BY Zenon, <1>1, <1>2 DEF FinishPrepare

\* A staged release is resumed.
LEMMA ResumeStagedPreserves ==
  ASSUME IndInv, ResumeStaged
  PROVE  IndInv'
<1>1. tool' \in ToolType /\ tool'.pc = "prepare"
  BY Zenon, IdleIs DEF ResumeStaged, ToolType, Pcs
<1>2. Durable'
  BY Zenon, DurableSame DEF IndInv, ResumeStaged, RecordSame
<1>3. Types'
  BY Zenon, <1>1, FaultIs DEF IndInv, Types, ResumeStaged
<1> QED
  BY Zenon, <1>1, <1>2, <1>3
     DEF IndInv, ResumeStaged, AtPrepare, AtForward, AtStep, AtBackward, Forward, Going,
       Backward,
         Restoring, Final

\* The activation begins from what is prepared.
LEMMA BeginsActivation ==
  ASSUME IndInv, store.state = "prepared", To("activating"), tool' = [Idle EXCEPT !.pc = "preflight"],
         rel' = rel, host' = host, NoFault
  PROVE  IndInv'
<1>0. Types /\ Durable /\ "activating" \in States
  BY Zenon DEF IndInv, States
<1>1. /\ store' \in StoreType /\ store'.state = "activating" /\ store'.failstep = store.failstep
      /\ store'.done = store.done /\ store'.begun = store.begun
  BY Zenon, <1>0, StateIs DEF Types, To
<1>2. tool' \in ToolType /\ tool'.pc = "preflight" /\ tool'.passed = {}
  BY Zenon, IdleIs DEF ToolType, Pcs
<1>3. Durable' /\ store.done = {}
  BY Zenon, <1>0, <1>1, BeganDurable DEF Unbegun, Touched
<1>4. Types'
  BY Zenon, <1>0, <1>1, <1>2, FaultIs DEF Types
<1>5. AtForward'
  BY Zenon, <1>1, <1>2, <1>3 DEF AtForward, Forward, Going
<1> QED
  BY Zenon, <1>1, <1>2, <1>3, <1>4, <1>5
    DEF IndInv, AtPrepare, AtStep, AtBackward, Backward, Restoring, Final

\* activate
LEMMA ActivatePreserves ==
  ASSUME IndInv, Activate
  PROVE  IndInv'
<1>1. CASE Interrupted
  BY Zenon, <1>1, RaisePreserves DEF IndInv, Activate, Interrupted
<1>2. CASE ~Interrupted
  <2>1. store.state = "prepared"
    BY Zenon DEF IndInv, AtPrepare, Activate
  <2> QED
    BY Zenon, <1>2, <2>1, BeginsActivation DEF Activate
<1> QED
  BY Zenon, <1>1, <1>2

\* The host is compared with what was prepared.
LEMMA PreflightPreserves ==
  ASSUME IndInv, Preflight
  PROVE  IndInv'
<1>1. CASE NotDrifted /\ Goto("configure") /\ UNCHANGED store /\ NoFault
  <2>0. Types /\ Durable /\ AtForward /\ tool.pc = "preflight" /\ rel' = rel /\ host' = host
        /\ "configure" \in Pcs /\ store' = store /\ faults' = faults
    BY Zenon, <1>1 DEF IndInv, Preflight, Pcs, NoFault
  <2>1. /\ tool' \in ToolType /\ tool'.pc = "configure" /\ tool'.passed = tool.passed
        /\ tool'.resumed = tool.resumed
    BY Zenon, <1>1, <2>0, GotoIs DEF Types
  <2>2. Durable'
    BY Zenon, <2>0, DurableSame DEF RecordSame
  <2>3. AtForward'
    BY Zenon, <1>1, <2>0, <2>1 DEF AtForward, Forward, Going, NotDrifted
  <2>4. store'.state = "activating"
    BY Zenon, <2>0 DEF AtForward, Forward
  <2>5. Types'
    BY Zenon, <2>0, <2>1 DEF Types
  <2> QED
    BY Zenon, <2>1, <2>2, <2>3, <2>4, <2>5
      DEF IndInv, AtPrepare, AtStep, AtBackward, Backward, Restoring, Final
<1>2. CASE RecoveryRequired /\ (NoFault \/ Fault)
  BY Zenon, <1>2, RecoveryAlone DEF IndInv, Preflight
<1> QED
  BY Zenon, <1>1, <1>2 DEF Preflight

\* The original environment is kept.
LEMMA SnapshotEnvPreserves ==
  ASSUME IndInv, SnapshotEnv
  PROVE  IndInv'
<1>0. Types /\ Durable /\ AtForward /\ tool.pc = "configure" /\ rel' = rel /\ host' = host
      /\ "replace_env" \in Pcs /\ faults' = faults /\ host.env = OriginalEnv
  BY Zenon DEF IndInv, SnapshotEnv, Pcs, NoFault
<1>1. /\ tool' \in ToolType /\ tool'.pc = "replace_env" /\ tool'.passed = tool.passed
      /\ tool'.resumed = tool.resumed
  BY Zenon, <1>0, GotoIs DEF Types, SnapshotEnv
<1>2. store' \in StoreType /\ RecordSame
  BY Zenon, <1>0 DEF Types, StoreType, SnapshotEnv, RecordSame
<1>3. Durable'
  BY Zenon, <1>0, <1>2, DurableSame
<1>4. AtForward'
  BY Zenon, <1>0, <1>1, <1>2 DEF AtForward, Forward, Going, RecordSame, OriginalEnv
<1>5. store'.state = "activating"
  BY Zenon, <1>0, <1>2 DEF AtForward, Forward, RecordSame
<1>6. Types'
  BY Zenon, <1>0, <1>1, <1>2 DEF Types
<1> QED
  BY Zenon, <1>1, <1>3, <1>4, <1>5, <1>6
    DEF IndInv, AtPrepare, AtStep, AtBackward, Backward, Restoring, Final

\* The references are exchanged.
LEMMA ConfigurePreserves ==
  ASSUME IndInv, Configure
  PROVE  IndInv'
<1>0. /\ Types /\ Durable /\ AtForward /\ tool.pc = "replace_env" /\ rel' = rel /\ store' = store
      /\ store.state = "activating" /\ host.env = OriginalEnv /\ rel \in Releases
  BY Zenon DEF IndInv, Configure, AtForward, Forward, Types
<1>1. /\ OriginalEnv \in [Groups -> {"orig", "new"}] /\ TargetEnv \in [Groups -> {"orig", "new"}]
      /\ Touched = {} \/ OriginalEnv = TargetEnv
  BY Zenon, <1>0, EnvIs DEF Durable, References, RecordSame
<1>2. CASE host' = [host EXCEPT !.env = TargetEnv] /\ Goto("step") /\ NoFault
  <2>1. host' \in HostType /\ host'.env = TargetEnv /\ host'.mig = host.mig /\ Durable'
    BY Zenon, <1>0, <1>1, <1>2, EnvDurable DEF RecordSame
  <2>2. "step" \in Pcs
    BY Zenon DEF Pcs
  <2>3. /\ tool' \in ToolType /\ tool'.pc = "step" /\ tool'.passed = tool.passed
        /\ tool'.resumed = tool.resumed
    BY Zenon, <1>0, <1>2, <2>2, GotoIs DEF Types
  <2>4. AtForward'
    BY Zenon, <1>0, <2>1, <2>3, RelSame DEF AtForward, Forward, Going
  <2>5. Types'
    BY Zenon, <1>0, <1>2, <2>1, <2>3 DEF Types, NoFault
  <2> QED
    BY Zenon, <1>0, <2>1, <2>3, <2>4, <2>5
      DEF IndInv, AtPrepare, AtStep, AtBackward, Backward, Restoring, Final
<1>3. ASSUME Fault, NEW env \in {OriginalEnv, TargetEnv}, host' = [host EXCEPT !.env = env],
             IF tool.resumed THEN Exit ELSE Failure("verify", FALSE)
      PROVE  IndInv'
  <2>1. host' \in HostType /\ host'.env = env /\ host'.mig = host.mig /\ Durable'
    BY Zenon, <1>0, <1>1, <1>3, EnvDurable DEF RecordSame
  <2>2. CASE tool.resumed
    <3>1. Types' /\ tool' = Idle
      BY Zenon, <1>0, <1>3, <2>1, <2>2, IdleIs, FaultIs DEF Types, Exit
    <3> QED
      BY Zenon, <2>1, <3>1, EndPreserves
  <2>3. CASE ~tool.resumed
    <3>1. host'.mig = "orig" /\ "verify" \in Kinds /\ store' \in StoreType /\ FALSE \in BOOLEAN
      BY Zenon, <1>0, <2>1, <2>3, KindSet DEF AtForward, Types
    <3> QED
      BY Zenon, <1>0, <1>3, <2>1, <2>3, <3>1, FailurePreserves
  <2> QED
    BY Zenon, <2>2, <2>3
<1> QED
  BY Zenon, <1>2, <1>3 DEF Configure
\* A step of the plan is behind the command.
LEMMA NextStepIs ==
  ASSUME Types, AtForward, tool.pc \in Going, ~(Plan \subseteq tool.passed), NextStep, rel' = rel,
         Durable', store' \in StoreType, store'.state = "activating", host' = host, NoFault,
         store.done \subseteq store'.done, Step \in store'.done,
         tool.resumed \/ store'.done = store.done \cup {Step}
  PROVE  IndInv'
<1>0. /\ tool.passed \subseteq store.done /\ host.env = TargetEnv /\ Step \in Kinds
      /\ ~tool.resumed => store.done \subseteq tool.passed
  BY Zenon, StepIs, PlanIs DEF Types, AtForward, Forward, Going
<1>1. /\ tool' \in ToolType /\ tool'.pc = "step" /\ tool'.passed = tool.passed \cup {Step}
      /\ tool'.resumed = tool.resumed
  BY Zenon, <1>0 DEF Types, ToolType, NextStep, Pcs
<1>2. Types'
  BY Zenon, <1>1 DEF Types, NoFault
<1>3. AtForward'
  BY Zenon, <1>0, <1>1, RelSame DEF AtForward, Forward, Going
<1> QED
  BY Zenon, <1>1, <1>2, <1>3
    DEF IndInv, AtPrepare, AtStep, AtBackward, Backward, Restoring, Final

\* What the observation before a step says.
LEMMA VerdictIs ==
  ASSUME rel \in Releases, NEW k \in Kinds
  PROVE  /\ Verdict(k) = "skip" => k \in store.done
         /\ Verdict(k) \notin {"skip", "refuse"} => k \notin store.done
         /\ Verdict(k) = "found" => /\ k \notin {"quiesce_backend", "wait_beat_lease", "verify"}
                                    /\ \A g \in rel.changed : k = RecreateKind[g] => host.box[g].gen = "new"
<1>1. /\ Verdict(k) = "skip" => k \in store.done
      /\ Verdict(k) \notin {"skip", "refuse"} => k \notin store.done
      /\ Verdict(k) = "found" => k \notin {"quiesce_backend", "wait_beat_lease", "verify"}
      /\ Verdict(k) = "found" /\ k \in Recreations => Observed(GroupOf(k)) = "target"
  BY Zenon DEF Verdict
<1>2. ASSUME Verdict(k) = "found", NEW g \in rel.changed, k = RecreateKind[g]
      PROVE  host.box[g].gen = "new"
  <2>1. g \in Groups /\ k \in Recreations /\ GroupOf(k) = g
    BY Zenon, <1>2, GroupInverse, ReleaseAssumption
  <2> QED
    BY Zenon, <1>1, <1>2, <2>1 DEF Observed
<1> QED
  BY Zenon, <1>1, <1>2

\* The next step of the plan is skipped, found, refused or begun.
LEMMA NextActivationStepPreserves ==
  ASSUME IndInv, NextActivationStep
  PROVE  IndInv'
<1>0. /\ Types /\ Durable /\ AtForward /\ tool.pc = "step" /\ rel' = rel /\ rel \in Releases
      /\ ~(Plan \subseteq tool.passed) /\ store.state = "activating" /\ host.env = TargetEnv
      /\ tool.passed \subseteq store.done /\ (~tool.resumed => store.done \subseteq tool.passed)
  BY Zenon DEF IndInv, NextActivationStep, AtForward, Forward, Going, Types
<1>1. Step \in Plan /\ Step \in Kinds /\ Step \notin tool.passed /\ Before(Step) \subseteq store.done
  BY Zenon, <1>0, StepIs, PlanIs
<1>2. CASE Interrupted
  BY Zenon, <1>0, <1>2, RaisePreserves DEF Interrupted
<1> DEFINE verdict == IF tool.resumed THEN Verdict(Step) ELSE "run"
<1>3. ASSUME verdict = "skip", NextStep, UNCHANGED store, NoFault, host' = host
      PROVE  IndInv'
  <2>1. Step \in store.done /\ tool.resumed
    BY Zenon, <1>0, <1>1, <1>3, VerdictIs
  <2>2. Durable' /\ store' \in StoreType
    BY Zenon, <1>0, <1>3, DurableSame DEF RecordSame, Types
  <2> QED
    BY Zenon, <1>0, <1>3, <2>1, <2>2, NextStepIs DEF Going
<1>4. ASSUME verdict = "found", NextStep, Complete(Step), NoFault, host' = host
      PROVE  IndInv'
  <2>1. /\ tool.resumed /\ Step \notin {"quiesce_backend", "wait_beat_lease", "verify"}
        /\ \A g \in rel.changed : Step = RecreateKind[g] => host.box[g].gen = "new"
    BY Zenon, <1>0, <1>1, <1>4, VerdictIs
  <2>2. /\ store' \in StoreType /\ store'.state = "activating" /\ store'.done = store.done \cup {Step}
        /\ Durable'
    BY Zenon, <1>0, <1>1, <1>4, <2>1, CompleteDurable
  <2> QED
    BY Zenon, <1>0, <1>4, <2>1, <2>2, NextStepIs DEF Going
<1>5. ASSUME RecoveryRequired, NoFault, host' = host
      PROVE  IndInv'
  BY Zenon, <1>0, <1>5, RecoveryAlone
<1>6. ASSUME verdict \notin {"skip", "refuse"}, Goto("run"), NoFault, host' = host,
             store' = [store EXCEPT !.begun = @ \cup {Step}]
      PROVE  IndInv'
  <2>1. Step \notin store.done
    BY Zenon, <1>0, <1>1, <1>6, VerdictIs
  <2>2. /\ store' \in StoreType /\ store'.state = "activating" /\ store'.done = store.done
        /\ Step \in store'.begun /\ Durable'
    BY Zenon, <1>0, <1>1, <1>6, BeginDurable
  <2>3. "run" \in Pcs
    BY Zenon DEF Pcs
  <2>4. /\ tool' \in ToolType /\ tool'.pc = "run" /\ tool'.passed = tool.passed
        /\ tool'.resumed = tool.resumed
    BY Zenon, <1>0, <1>6, <2>3, GotoIs DEF Types
  <2>5. Step' = Step
    BY Zenon, <1>0, <2>4, StepSame
  <2>6. AtForward'
    BY Zenon, <1>0, <1>6, <2>2, <2>4, RelSame DEF AtForward, Forward, Going
  <2>7. AtStep'
    BY Zenon, <1>0, <2>1, <2>2, <2>4, <2>5, RelSame DEF AtStep
  <2>8. Types'
    BY Zenon, <1>0, <1>6, <2>2, <2>4 DEF Types, NoFault
  <2> QED
    BY Zenon, <2>2, <2>4, <2>6, <2>7, <2>8
      DEF IndInv, AtPrepare, AtBackward, Backward, Restoring, Final
<1>7. CASE ~Interrupted
  <2>1. /\ NoFault /\ host' = host
        /\ CASE verdict = "skip" -> NextStep /\ UNCHANGED store
             [] verdict = "found" -> NextStep /\ Complete(Step)
             [] verdict = "refuse" -> RecoveryRequired
             [] OTHER -> store' = [store EXCEPT !.begun = @ \cup {Step}] /\ Goto("run")
    BY Zenon, <1>7 DEF NextActivationStep
  <2> HIDE DEF verdict
  <2> QED
    BY Zenon, <1>3, <1>4, <1>5, <1>6, <2>1
<1> QED
  BY Zenon, <1>2, <1>7

\* A release that is found new succeeds.
LEMMA SucceedPreserves ==
  ASSUME Types, Durable, store.state = "activating", To("succeeded"), Exit, host' = host, rel' = rel,
         NoFault, host.env = TargetEnv, TargetRuns
  PROVE  IndInv'
<1>1. "succeeded" \in States
  BY Zenon DEF States
<1>2. /\ store' \in StoreType /\ store'.state = "succeeded"
      /\ store'.done = store.done /\ store'.begun = store.begun
  BY Zenon, <1>1, StateIs DEF Types, To
<1>3. Types' /\ tool' = Idle
  BY Zenon, <1>2, IdleIs DEF Types, Exit, NoFault
<1>4. InOrder' /\ Containers'
  BY Zenon, <1>2, RelSame DEF Durable, InOrder, Containers, Touched, Unbegun
<1>5. References' /\ Quiet' /\ Verified' /\ Schema'
  BY Zenon, <1>2 DEF Durable, References, Quiet, Verified, Schema, Unbegun
<1>6. EndIsTrue'
  BY Zenon, <1>2, RelSame DEF EndIsTrue, TargetRuns
<1>7. Durable'
  BY Zenon, <1>4, <1>5, <1>6 DEF Durable, SchemaKeepsItsData
<1> QED
  BY Zenon, <1>3, <1>7, EndPreserves

\* All steps are behind the command.
LEMMA FinishPreserves ==
  ASSUME IndInv, Finish
  PROVE  IndInv'
<1>1. CASE Interrupted
  BY Zenon, <1>1, RaisePreserves DEF IndInv, Finish, Interrupted
<1>2. CASE ~Interrupted
  <2>1. /\ Types /\ Durable /\ store.state = "activating" /\ host.env = TargetEnv
        /\ Plan \subseteq store.done /\ "verify" \in Plan
    BY Zenon, PlanIs DEF IndInv, Finish, AtForward, Forward, Going, Types
  <2>2. TargetRuns
    BY Zenon, <2>1 DEF Durable, Verified
  <2> QED
    BY Zenon, <1>2, <2>1, <2>2, SucceedPreserves DEF Finish
<1> QED
  BY Zenon, <1>1, <1>2

\* What the final verification looks at.
LEMMA RuntimeFinalIs ==
  ASSUME Types, Durable, RuntimeFinal
  PROVE  TargetRuns
<1>1. \A g \in Groups : Healthy(g) /\ host.box[g].gen = IF g \in Selected THEN "new" ELSE "orig"
  BY Zenon DEF RuntimeFinal, ServicesFinal
<1>2. host.mig = IF rel.migrate THEN "new" ELSE "orig"
  BY Zenon DEF RuntimeFinal, MigrationObserved, Durable, Schema
<1> QED
  BY Zenon, <1>1, <1>2 DEF TargetRuns, Healthy, Selected

\* The command of a step runs.
LEMMA RunStepPreserves ==
  ASSUME IndInv, RunStep
  PROVE  IndInv'
<1>0. /\ Types /\ Durable /\ AtForward /\ AtStep /\ tool.pc = "run" /\ rel' = rel /\ rel \in Releases
      /\ ~(Plan \subseteq tool.passed) /\ store.state = "activating" /\ host.env = TargetEnv
      /\ tool.passed \subseteq store.done /\ (~tool.resumed => store.done \subseteq tool.passed)
      /\ Step \in store.begun /\ Step \notin store.done /\ host \in HostType /\ store \in StoreType
  BY Zenon DEF IndInv, RunStep, AtForward, AtStep, Forward, Going, Types
<1>1. Step \in Plan /\ Step \in Kinds /\ Step \in Touched
  BY Zenon, <1>0, StepIs, PlanIs DEF Touched
<1>2. ASSUME store' = store, NEW amb \in BOOLEAN, Failure(Step, amb), Fault \/ NoFault,
             host' \in HostType, Durable'
      PROVE  IndInv'
  <2>1. host'.mig # "orig" => "run_migrate" \in Touched
    BY Zenon, <1>0, <1>2 DEF Durable, Schema, Touched
  <2>2. host'.mig # "orig" => "run_migrate" \in store'.done \/ Step = "run_migrate"
    BY Zenon, <1>0, <1>1, <1>2, <2>1, FailedStepKnows DEF Durable
  <2> QED
    BY Zenon, <1>0, <1>1, <1>2, <2>2, FailurePreserves
<1>3. ASSUME store' = store, NEW pc \in {"record", "look"}, Goto(pc), Fault \/ NoFault,
             host' \in HostType, host'.env = host.env, Durable',
             pc = "look" => Step \in Recreations,
             pc = "record" => /\ Step \in Recreations => host'.box[GroupOf(Step)].gen = "new"
                              /\ Step = "quiesce_backend" => host'.box["backend"].up = "stopped"
                              /\ Step = "verify" => TargetRuns'
      PROVE  IndInv'
  <2>1. pc \in Pcs
    BY Zenon DEF Pcs
  <2>2. /\ tool' \in ToolType /\ tool'.pc = pc /\ tool'.passed = tool.passed
        /\ tool'.resumed = tool.resumed
    BY Zenon, <1>0, <1>3, <2>1, GotoIs DEF Types
  <2>3. Step' = Step /\ Plan' = Plan
    BY Zenon, <1>0, <2>2, StepSame, RelSame
  <2>4. Types'
    BY Zenon, <1>0, <1>3, <2>2, FaultIs DEF Types
  <2>5. AtForward'
    BY Zenon, <1>0, <1>3, <2>2, RelSame DEF AtForward, Forward, Going
  <2>6. AtStep'
    BY Zenon, <1>0, <1>3, <2>2, <2>3 DEF AtStep
  <2> QED
    BY Zenon, <1>0, <1>3, <2>2, <2>4, <2>5, <2>6
      DEF IndInv, AtPrepare, AtBackward, Backward, Restoring, Final
<1>4. CASE Step = "verify"
  <2>1. store' = store /\ host' = host /\ host' \in HostType
    BY Zenon, <1>0, <1>4 DEF RunStep, VerifyFinal
  <2>2. Durable'
    BY Zenon, <1>0, <2>1, DurableSame DEF RecordSame
  <2>3. CASE RuntimeFinal /\ Goto("record") /\ NoFault
    <3>1. TargetRuns' /\ Step \notin Recreations /\ Step # "quiesce_backend"
      BY Zenon, <1>0, <1>4, <2>1, <2>3, RuntimeFinalIs, RelSame, KindSet DEF TargetRuns
    <3> QED
      BY Zenon, <1>3, <2>1, <2>2, <2>3, <3>1
  <2>4. CASE Failure("verify", ServicesFinal) /\ NoFault
    <3>1. ServicesFinal \in BOOLEAN
      BY Zenon DEF ServicesFinal
    <3> QED
      BY Zenon, <1>2, <1>4, <2>1, <2>2, <2>4, <3>1
  <2>5. CASE \E amb \in BOOLEAN : Failure("verify", amb) /\ Fault
    BY Zenon, <1>2, <1>4, <2>1, <2>2, <2>5
  <2> QED
    BY Zenon, <1>4, <2>3, <2>4, <2>5 DEF RunStep, VerifyFinal
<1>5. CASE Step # "verify"
  <2>1. CASE host' = Effect(Step) /\ Goto("record") /\ UNCHANGED store /\ NoFault
    <3>1. host' \in HostType /\ Durable'
      BY Zenon, <1>0, <2>1, RunDurable DEF RecordSame
    <3>2. host'.env = host.env
      BY Zenon, <1>0, <1>1, <2>1, CommandLeaves DEF Leaves
    <3>3. ASSUME Step \in Recreations PROVE host'.box[GroupOf(Step)].gen = "new"
      <4>1. GroupOf(Step) \in Groups
        BY Zenon, <3>3, GroupInverse
      <4>2. Recreated(GroupOf(Step)).gen = "new"
        BY Zenon, <1>0, <4>1, RecreatedIs, EnvIs
      <4>3. host' = [host EXCEPT !.box[GroupOf(Step)] = Recreated(GroupOf(Step))]
        BY Zenon, <2>1, <3>3, KindSet DEF Effect
      <4> QED
        BY Zenon, <1>0, <4>1, <4>2, <4>3 DEF HostType
    <3>4. ASSUME Step = "quiesce_backend" PROVE host'.box["backend"].up = "stopped"
      BY Zenon, <1>0, <2>1, <3>4, KindSet DEF Effect, HostType, BoxType, Groups
    <3> QED
      BY Zenon, <1>3, <1>5, <2>1, <3>1, <3>2, <3>3, <3>4
  <2>2. CASE /\ Fault /\ host' \in Partial(Step) /\ store' = store
             /\ Failure(Step, FALSE) \/ (Step \in Recreations /\ Goto("look"))
    <3>1. host' \in HostType /\ Durable'
      BY Zenon, <1>0, <2>2, RunDurable DEF RecordSame
    <3>2. host'.env = host.env
      BY Zenon, <1>0, <1>1, <2>2, CommandLeaves DEF Leaves
    <3> QED
      BY Zenon, <1>2, <1>3, <2>2, <3>1, <3>2
  <2> QED
    BY Zenon, <1>5, <2>1, <2>2 DEF RunStep
<1> QED
  BY Zenon, <1>4, <1>5
\* A failed recreation is looked at.
LEMMA LookAtFailurePreserves ==
  ASSUME IndInv, LookAtFailure
  PROVE  IndInv'
<1>0. /\ Types /\ Durable /\ tool.pc = "look" /\ rel' = rel /\ host' = host /\ rel \in Releases
      /\ ~(Plan \subseteq tool.passed) /\ store.state = "activating" /\ host.env = TargetEnv
      /\ tool.passed \subseteq store.done /\ Step \in Recreations
      /\ Step \in store.begun /\ Step \notin store.done /\ host' \in HostType /\ store \in StoreType
  BY Zenon DEF IndInv, LookAtFailure, AtForward, AtStep, Forward, Going, Types
<1>1. Step \in Plan /\ Step \in Kinds /\ Step \in Touched /\ Before(Step) \subseteq store.done
  BY Zenon, <1>0, StepIs, PlanIs DEF Touched
<1> DEFINE state == Observed(GroupOf(Step))
<1>2. store' \in StoreType /\ store'.state = "activating" /\ store.done \subseteq store'.done /\ Durable'
  <2>1. CASE state = "target" /\ Complete(Step)
    <3>1. \A g \in rel.changed : Step = RecreateKind[g] => host.box[g].gen = "new"
      BY <1>0, <2>1, GroupInverse, ReleaseAssumption DEF Observed
    <3>2. Step # "quiesce_backend" /\ Step # "verify"
      BY Zenon, <1>0, KindSet
    <3> QED
      BY Zenon, <1>0, <1>1, <2>1, <3>1, <3>2, CompleteDurable
  <2>2. CASE store' = store
    BY Zenon, <1>0, <2>2, DurableSame DEF RecordSame
  <2> QED
    BY Zenon, <2>1, <2>2 DEF LookAtFailure
<1>3. host'.mig # "orig" => "run_migrate" \in store'.done \/ Step = "run_migrate"
  BY Zenon, <1>0, <1>1, <1>2, FailedStepKnows DEF Durable, Schema
<1>4. Failure(Step, state \notin {"target", "original"}) /\ (state \notin {"target", "original"}) \in BOOLEAN
      /\ NoFault
  BY Zenon DEF LookAtFailure
<1> QED
  BY Zenon, <1>0, <1>1, <1>2, <1>3, <1>4, FailurePreserves

\* A step is recorded, or its record fails.
LEMMA RecordStepPreserves ==
  ASSUME IndInv, RecordStep
  PROVE  IndInv'
<1>0. /\ Types /\ Durable /\ AtForward /\ AtStep /\ tool.pc = "record" /\ rel' = rel /\ host' = host
      /\ rel \in Releases /\ ~(Plan \subseteq tool.passed) /\ store.state = "activating"
      /\ host.env = TargetEnv /\ tool.passed \subseteq store.done
      /\ Step \in store.begun /\ Step \notin store.done /\ host' \in HostType /\ store \in StoreType
  BY Zenon DEF IndInv, RecordStep, AtForward, AtStep, Forward, Going, Types
<1>1. Step \in Plan /\ Step \in Kinds /\ Step \in Touched /\ Before(Step) \subseteq store.done
  BY Zenon, <1>0, StepIs, PlanIs DEF Touched
<1>2. CASE Complete(Step) /\ NextStep /\ NoFault
  <2>1. \A g \in rel.changed : Step = RecreateKind[g] => host.box[g].gen = "new"
    BY <1>0, GroupInverse, ReleaseAssumption DEF AtStep
  <2>2. /\ Step = "quiesce_backend" => host.box["backend"].up = "stopped"
        /\ Step = "verify" => TargetRuns
    BY Zenon, <1>0 DEF AtStep
  <2>3. /\ store' \in StoreType /\ store'.state = "activating" /\ store'.done = store.done \cup {Step}
        /\ Durable'
    BY Zenon, <1>0, <1>1, <1>2, <2>1, <2>2, CompleteDurable
  <2> QED
    BY Zenon, <1>0, <1>2, <2>3, NextStepIs DEF Going
<1>3. CASE Failure(Step, TRUE) /\ UNCHANGED store /\ Fault
  <2>1. Durable' /\ TRUE \in BOOLEAN
    BY Zenon, <1>0, <1>3, DurableSame DEF RecordSame
  <2>2. host'.mig # "orig" => "run_migrate" \in store'.done \/ Step = "run_migrate"
    BY Zenon, <1>0, <1>1, <1>3, FailedStepKnows DEF Durable, Schema
  <2> QED
    BY Zenon, <1>0, <1>1, <1>3, <2>1, <2>2, FailurePreserves
<1> QED
  BY Zenon, <1>2, <1>3 DEF RecordStep

\* Services found new are verified.
LEMMA FinalizePreserves ==
  ASSUME IndInv, Finalize
  PROVE  IndInv'
<1>0. /\ Types /\ Durable /\ tool.pc = "finalize" /\ rel' = rel /\ host' = host
      /\ store.state = "activating" /\ host.env = TargetEnv /\ "verify" \in Kinds
      /\ host' \in HostType /\ store \in StoreType /\ tool.amb \in BOOLEAN
      /\ host.mig # "orig" => "run_migrate" \in store.done
  BY Zenon, KindSet
    DEF IndInv, Finalize, AtForward, Forward, Types, ToolType, Durable, Schema
<1>1. CASE RuntimeFinal /\ To("succeeded") /\ Exit /\ NoFault
  BY Zenon, <1>0, <1>1, RuntimeFinalIs, SucceedPreserves
<1>2. ASSUME NEW amb \in BOOLEAN, Failure("verify", amb), UNCHANGED store, Fault \/ NoFault
      PROVE  IndInv'
  <2>1. Durable'
    BY Zenon, <1>0, <1>2, DurableSame DEF RecordSame
  <2> QED
    BY Zenon, <1>0, <1>2, <2>1, FailurePreserves
<1>3. (ServicesFinal \/ tool.amb) \in BOOLEAN /\ \A amb \in BOOLEAN : (amb \/ tool.amb) \in BOOLEAN
  OBVIOUS
<1> QED
  BY Zenon, <1>1, <1>2, <1>3 DEF Finalize

\* A cold cutover stops the application.
LEMMA ColdStopPreserves ==
  ASSUME IndInv, ColdStop
  PROVE  IndInv'
<1>0. Types /\ Durable /\ rel' = rel /\ RecoveryRequired /\ host \in HostType
  BY Zenon DEF IndInv, ColdStop, Types
<1>1. CASE UNCHANGED host /\ Fault
  BY Zenon, <1>0, <1>1, RecoveryAlone
<1>2. CASE host' = [host EXCEPT !.box["backend"].up = "stopped", !.box["web"].up = "stopped"] /\ NoFault
  <2>1. host' \in HostType /\ host'.mig = host.mig
    <3> DEFINE b == [host.box["backend"] EXCEPT !.up = "stopped"]
               w == [host.box["web"] EXCEPT !.up = "stopped"]
    <3>1. b \in BoxType /\ w \in BoxType
      BY Zenon, <1>0 DEF HostType, BoxType, Groups
    <3>2. host' = [host EXCEPT !.box = [host.box EXCEPT !["backend"] = b, !["web"] = w]]
      BY Zenon, <1>0, <1>2 DEF HostType, Groups
    <3> HIDE DEF b, w
    <3> QED
      BY Zenon, <1>0, <3>1, <3>2 DEF HostType
  <2>2. \A g \in Groups : host'.box[g].gen = host.box[g].gen
    BY <1>0, <1>2 DEF HostType, BoxType, Groups
  <2>3. "recovery_required" \in States
    BY Zenon DEF States
  <2>4. /\ store' \in StoreType /\ store'.state = "recovery_required" /\ store'.done = store.done
        /\ store'.begun = store.begun /\ tool' = Idle
    BY Zenon, <1>0, <2>3, StateIs DEF Types, RecoveryRequired, Exit
  <2> QED
    BY Zenon, <1>0, <1>2, <2>1, <2>2, <2>4, RecoveryPreserves
<1> QED
  BY Zenon, <1>1, <1>2 DEF ColdStop

\* What is kept with a schema that was moved.
LEMMA CompensationKnows ==
  ASSUME Types, Durable, AtBackward, tool.pc = "compensate", ~rel.cold,
         SchemaSeen(tool.kind) # "ambiguous"
  PROVE  /\ SchemaSeen(tool.kind) \in {"original", "target"}
         /\ SchemaSeen(tool.kind) = "target" => rel.migrate
         /\ KeptData(tool.kind, SchemaSeen(tool.kind)) \in SUBSET Data
         /\ host.mig # "orig" =>
              Data \cap rel.changed \subseteq KeptData(tool.kind, SchemaSeen(tool.kind))
<1>1. /\ SchemaSeen(tool.kind) \in {"original", "target"}
      /\ SchemaSeen(tool.kind) = "target" => rel.migrate
  BY Zenon DEF SchemaSeen, SchemaMatters, MigrationObserved
<1>2. KeptData(tool.kind, SchemaSeen(tool.kind)) \in SUBSET Data
  BY Zenon DEF KeptData
<1>3. ASSUME host.mig # "orig" PROVE SchemaSeen(tool.kind) = "target"
  <2>1. rel.migrate /\ SchemaMatters(tool.kind)
    BY Zenon, <1>3 DEF AtBackward, Durable, Schema, SchemaMatters
  <2> QED
    BY Zenon, <1>1, <1>3, <2>1 DEF SchemaSeen, MigrationObserved
<1> QED
  BY Zenon, <1>1, <1>2, <1>3 DEF KeptData

\* The compensation is decided.
LEMMA CompensatePreserves ==
  ASSUME IndInv, Compensate
  PROVE  IndInv'
<1>0. /\ Types /\ Durable /\ AtBackward /\ rel' = rel /\ host' = host /\ tool.pc = "compensate" /\ ~rel.cold
      /\ store \in StoreType /\ tool \in ToolType /\ store.state \in {"activating", "rolling_back"}
  BY Zenon DEF IndInv, Compensate, Types, AtBackward
<1>1. CASE RecoveryRequired /\ (NoFault \/ Fault)
  BY Zenon, <1>0, <1>1, RecoveryAlone
<1>2. CASE Raise /\ NoFault
  BY Zenon, <1>0, <1>2, RaisePreserves
<1> DEFINE mig == SchemaSeen(tool.kind)
           keep == KeptData(tool.kind, mig)
<1>3. CASE /\ mig # "ambiguous" /\ NoFault
           /\ store' = [store EXCEPT !.state = "rolling_back",
                                     !.failstep = IF store.state = "rolling_back" THEN @ ELSE tool.kind]
           /\ tool' = [tool EXCEPT !.pc = "compensation_env", !.keep = keep, !.mig = mig]
  <2>1. /\ mig \in {"original", "target"} /\ (mig = "target" => rel.migrate)
        /\ keep \in SUBSET Data /\ (host.mig # "orig" => Data \cap rel.changed \subseteq keep)
    BY Zenon, <1>0, <1>3, CompensationKnows
  <2> HIDE DEF mig, keep
  <2>2. tool' \in ToolType /\ tool'.pc = "compensation_env" /\ tool'.keep = keep /\ tool'.mig = mig
    BY Zenon, <1>0, <1>3, <2>1 DEF ToolType, Pcs
  <2>3. /\ store' \in StoreType /\ store'.state = "rolling_back" /\ store'.done = store.done
        /\ store'.begun = store.begun
        /\ store'.failstep = IF store.state = "rolling_back" THEN store.failstep ELSE tool.kind
    BY Zenon, <1>0, <1>3 DEF StoreType, ToolType, States
  <2>4. Types'
    BY Zenon, <1>0, <1>3, <2>2, <2>3 DEF Types, NoFault
  <2>5. InOrder' /\ Containers'
    BY <1>0, <2>3, RelSame DEF Durable, InOrder, Containers, Touched, Unbegun
  <2>6. References' /\ Quiet' /\ Verified' /\ EndIsTrue' /\ SchemaKeepsItsData'
    BY Zenon, <1>0, <2>3
      DEF Durable, References, Quiet, Verified, EndIsTrue, SchemaKeepsItsData, Unbegun
  <2>7. Schema'
    <3>1. tool.kind # "none"
      BY Zenon, <1>0, KindSet DEF ToolType
    <3>2. store'.failstep # "none"
      BY Zenon, <1>0, <2>3, <3>1 DEF Durable, Schema
    <3>3. host.mig # "orig" => "run_migrate" \in store.done \/ store'.failstep = "run_migrate"
      BY Zenon, <1>0, <2>3 DEF Durable, Schema, AtBackward
    <3> QED
      BY Zenon, <1>0, <2>3, <3>2, <3>3 DEF Durable, Schema, Unbegun
  <2>8. AtBackward'
    BY Zenon, <1>0, <2>1, <2>2, <2>3 DEF AtBackward, Restoring
  <2> QED
    BY Zenon, <2>2, <2>3, <2>4, <2>5, <2>6, <2>7, <2>8
       DEF IndInv, Durable, AtPrepare, AtForward, AtStep, Forward, Going, Final
<1> HIDE DEF mig, keep
<1> QED
  BY Zenon, <1>1, <1>2, <1>3 DEF Compensate, mig, keep
\* The references go back.
LEMMA CompensationEnvPreserves ==
  ASSUME IndInv, CompensationEnv
  PROVE  IndInv'
<1>0. /\ Types /\ Durable /\ AtBackward /\ rel' = rel /\ tool.pc = "compensation_env"
      /\ tool \in ToolType /\ store.state = "rolling_back" /\ host \in HostType
  BY Zenon DEF IndInv, CompensationEnv, Types, AtBackward, Backward
<1>1. CASE Interrupted
  BY Zenon, <1>0, <1>1, RaisePreserves DEF Interrupted
<1> DEFINE e == [g \in Groups |-> IF g \in tool.keep THEN "new" ELSE "orig"]
<1>2. e \in [Groups -> {"orig", "new"}]
  OBVIOUS
<1>3. CASE RecoveryRequired /\ UNCHANGED host /\ NoFault
  BY Zenon, <1>0, <1>3, RecoveryAlone
<1>4. CASE host' = [host EXCEPT !.env = e] /\ Goto("restore") /\ UNCHANGED store /\ NoFault
  <2> HIDE DEF e
  <2>1. host' \in HostType /\ host'.env = e /\ host'.mig = host.mig /\ Durable'
    BY Zenon, <1>0, <1>2, <1>4, EnvDurable DEF RecordSame
  <2>2. "restore" \in Pcs
    BY Zenon DEF Pcs
  <2>3. tool' \in ToolType /\ tool'.pc = "restore" /\ tool'.keep = tool.keep /\ tool'.mig = tool.mig
    BY Zenon, <1>0, <1>4, <2>2, GotoIs
  <2>4. Types'
    BY Zenon, <1>0, <1>4, <2>1, <2>3 DEF Types, NoFault
  <2>5. AtBackward'
    BY Zenon, <1>0, <1>4, <2>1, <2>3 DEF AtBackward, Backward, Restoring, e
  <2> QED
    BY Zenon, <1>0, <1>4, <2>1, <2>3, <2>4, <2>5
      DEF IndInv, AtPrepare, AtForward, AtStep, Forward, Going, Final
<1>5. CASE host' = [host EXCEPT !.env = e] /\ RecoveryRequired /\ Fault
  <2>1. host' \in HostType /\ host'.mig = host.mig /\ host'.box = host.box
    BY Zenon, <1>0, <1>2, <1>5 DEF HostType
  <2>2. "recovery_required" \in States
    BY Zenon DEF States
  <2>3. /\ store' \in StoreType /\ store'.state = "recovery_required" /\ store'.done = store.done
        /\ store'.begun = store.begun /\ tool' = Idle
    BY Zenon, <1>0, <1>5, <2>2, StateIs DEF Types, RecoveryRequired, Exit
  <2> QED
    BY Zenon, <1>0, <1>5, <2>1, <2>3, RecoveryPreserves
<1> HIDE DEF e
<1> QED
  BY Zenon, <1>1, <1>3, <1>4, <1>5 DEF CompensationEnv, e

\* A command that goes on putting groups back.
LEMMA RestoringPreserves ==
  ASSUME Types, Durable', AtBackward, tool.pc \in Restoring, rel' = rel, Fault \/ NoFault,
         tool' \in ToolType, tool'.keep = tool.keep, tool'.mig = tool.mig, tool'.pc \in Restoring,
         tool'.pc \in {"restore_run", "restore_record"} => tool'.kind \in RestoreKinds,
         store' \in StoreType, store'.state = store.state, store'.done = store.done,
         host' \in HostType, host'.env = host.env, host'.mig = host.mig
  PROVE  IndInv'
<1>0. store.state = "rolling_back"
  BY Zenon DEF AtBackward, Backward
<1>1. Types'
  BY Zenon, FaultIs DEF Types
<1>2. RestoreKinds' = RestoreKinds
  BY Zenon DEF RestoreKinds
<1>3. AtBackward'
  BY Zenon, <1>0, <1>2 DEF AtBackward, Backward, Restoring
<1> QED
  BY Zenon, <1>0, <1>1, <1>3
    DEF IndInv, AtPrepare, AtForward, AtStep, Restoring, Forward, Going, Final

\* The next group to put back.
LEMMA NextRestorePreserves ==
  ASSUME IndInv, NextRestore
  PROVE  IndInv'
<1>0. /\ Types /\ Durable /\ AtBackward /\ rel' = rel /\ tool.pc = "restore" /\ tool.pc \in Restoring
      /\ tool \in ToolType /\ store \in StoreType /\ host \in HostType
  BY Zenon DEF IndInv, NextRestore, Types, Restoring
<1>1. CASE Interrupted
  BY Zenon, <1>0, <1>1, RaisePreserves DEF Interrupted
<1>2. CASE /\ Unrestored # {} /\ NoFault /\ store' = [store EXCEPT !.cbegun = @ \cup {NextRestored}]
           /\ tool' = [tool EXCEPT !.pc = "restore_run", !.kind = NextRestored] /\ UNCHANGED host
  <2>1. Unrestored \in SUBSET Recreations
    BY Zenon DEF Unrestored, RestoreKinds
  <2>2. NextRestored \in Recreations /\ NextRestored \in RestoreKinds /\ NextRestored \in Kinds
    BY Zenon, <1>2, <2>1, FirstRestored DEF NextRestored, Unrestored, Kinds
  <2>3. store' \in StoreType /\ RecordSame
    BY Zenon, <1>0, <1>2, <2>2 DEF StoreType, RecordSame
  <2>4. /\ tool' \in ToolType /\ tool'.pc = "restore_run" /\ tool'.kind = NextRestored
        /\ tool'.keep = tool.keep /\ tool'.mig = tool.mig
    BY Zenon, <1>0, <1>2, <2>2 DEF ToolType, Pcs
  <2>5. Durable'
    BY Zenon, <1>0, <1>2, <2>3, DurableSame
  <2> QED
    BY Zenon, <1>0, <1>2, <2>2, <2>3, <2>4, <2>5, RestoringPreserves
      DEF Restoring, RecordSame
<1>3. CASE Goto("verify_compensation") /\ UNCHANGED <<store, host>> /\ NoFault
  <2>1. "verify_compensation" \in Pcs
    BY Zenon DEF Pcs
  <2>2. /\ tool' \in ToolType /\ tool'.pc = "verify_compensation"
        /\ tool'.keep = tool.keep /\ tool'.mig = tool.mig
    BY Zenon, <1>0, <1>3, <2>1, GotoIs
  <2>3. Durable'
    BY Zenon, <1>0, <1>3, DurableSame DEF RecordSame
  <2> QED
    BY Zenon, <1>0, <1>3, <2>2, <2>3, RestoringPreserves DEF Restoring
<1> QED
  BY Zenon, <1>1, <1>2, <1>3 DEF NextRestore

\* A group is put back, or the command that does it fails.
LEMMA RestoreRunPreserves ==
  ASSUME IndInv, RestoreRun
  PROVE  IndInv'
<1>0. /\ Types /\ Durable /\ AtBackward /\ rel' = rel /\ tool.pc = "restore_run" /\ tool.pc \in Restoring
      /\ tool \in ToolType /\ store \in StoreType /\ tool.kind \in RestoreKinds
  BY Zenon DEF IndInv, RestoreRun, Types, Restoring, AtBackward
<1>1. CASE host' = Effect(tool.kind) /\ Goto("restore_record") /\ UNCHANGED store /\ NoFault
  <2>1. "restore_record" \in Pcs
    BY Zenon DEF Pcs
  <2>2. /\ tool' \in ToolType /\ tool'.pc = "restore_record" /\ tool'.kind = tool.kind
        /\ tool'.keep = tool.keep /\ tool'.mig = tool.mig
    BY Zenon, <1>0, <1>1, <2>1, GotoIs
  <2>3. host' \in HostType /\ Durable' /\ host'.env = host.env /\ host'.mig = host.mig
    BY Zenon, <1>0, <1>1, RestoreDurable DEF RecordSame
  <2> QED
    BY Zenon, <1>0, <1>1, <2>2, <2>3, RestoringPreserves DEF Restoring
<1>2. CASE host' \in Partial(tool.kind) /\ RecoveryRequired /\ Fault
  <2>1. "recovery_required" \in States
    BY Zenon DEF States
  <2>2. /\ store' \in StoreType /\ store'.state = "recovery_required" /\ store'.done = store.done
        /\ store'.begun = store.begun /\ tool' = Idle
    BY Zenon, <1>0, <1>2, <2>1, StateIs DEF RecoveryRequired, Exit
  <2>3. /\ host' \in HostType /\ host'.mig = host.mig
        /\ \A g \in Groups : g \notin Selected \/ (host.mig # "orig" /\ g \in Data \cap rel.changed)
             => host'.box[g].gen = host.box[g].gen
    BY Zenon, <1>0, <1>2, RestoreLeaves
  <2>4. Types'
    BY Zenon, <1>0, <1>2, <2>2, <2>3, IdleIs, FaultIs DEF Types
  <2>5. InOrder' /\ Containers'
    BY <1>0, <2>2, <2>3, RelSame DEF Durable, InOrder, Containers, Touched, Unbegun
  <2>6. References' /\ Quiet' /\ Verified' /\ Schema' /\ EndIsTrue'
    BY Zenon, <1>0, <2>2, <2>3
      DEF Durable, References, Quiet, Verified, Schema, EndIsTrue, Unbegun
  <2>7. SchemaKeepsItsData'
    BY Zenon, <1>0, <2>3 DEF Durable, SchemaKeepsItsData, Data, Groups
  <2>8. Durable'
    BY Zenon, <2>5, <2>6, <2>7 DEF Durable
  <2> QED
    BY Zenon, <2>2, <2>4, <2>8, EndPreserves
<1> QED
  BY Zenon, <1>1, <1>2 DEF RestoreRun

\* A group that was put back is recorded.
LEMMA RestoreRecordPreserves ==
  ASSUME IndInv, RestoreRecord
  PROVE  IndInv'
<1>0. /\ Types /\ Durable /\ AtBackward /\ rel' = rel /\ tool.pc = "restore_record" /\ tool.pc \in Restoring
      /\ tool \in ToolType /\ store \in StoreType /\ host \in HostType /\ host' = host
      /\ tool.kind \in Recreations /\ "restore" \in Pcs
  BY Zenon DEF IndInv, RestoreRecord, Types, Restoring, AtBackward, RestoreKinds, Pcs
<1>1. tool' \in ToolType /\ tool'.pc = "restore" /\ tool'.keep = tool.keep /\ tool'.mig = tool.mig
  BY Zenon, <1>0, GotoIs DEF RestoreRecord
<1>2. store' \in StoreType /\ RecordSame
  BY Zenon, <1>0 DEF RestoreRecord, StoreType, RecordSame
<1>3. Durable'
  BY Zenon, <1>0, <1>2, DurableSame
<1> QED
  BY Zenon, <1>0, <1>1, <1>2, <1>3, RestoringPreserves
    DEF RestoreRecord, Restoring, RecordSame

\* The result of the compensation is verified.
LEMMA VerifyCompensationPreserves ==
  ASSUME IndInv, VerifyCompensation
  PROVE  IndInv'
<1>0. /\ Types /\ Durable /\ AtBackward /\ rel' = rel /\ host' = host /\ tool.pc = "verify_compensation"
      /\ tool \in ToolType /\ store \in StoreType /\ host \in HostType /\ rel \in Releases
      /\ host.env = [g \in Groups |-> IF g \in tool.keep THEN "new" ELSE "orig"]
      /\ tool.mig = "target" => rel.migrate
  BY Zenon DEF IndInv, VerifyCompensation, Types, Restoring, Backward, AtBackward
<1>1. CASE RecoveryRequired /\ (NoFault \/ Fault)
  BY Zenon, <1>0, <1>1, RecoveryAlone
<1> DEFINE left == tool.keep \cup IF tool.mig = "target" THEN {"migration"} ELSE {}
<1>2. CASE /\ CompensationVerified /\ Exit /\ NoFault
           /\ store' = [store EXCEPT !.state = "rolled_back", !.residual = left]
  <2>1. /\ left \in SUBSET (Data \cup {"migration"}) /\ ("migration" \in left <=> tool.mig = "target")
        /\ \A g \in Groups : g \in left <=> g \in tool.keep
    BY Zenon, <1>0 DEF ToolType, Data, Groups
  <2> HIDE DEF left
  <2>2. /\ store' \in StoreType /\ store'.state = "rolled_back" /\ store'.done = store.done
        /\ store'.begun = store.begun /\ store'.residual = left /\ tool' = Idle
    BY Zenon, <1>0, <1>2, <2>1 DEF StoreType, States, Exit
  <2>3. Types'
    BY Zenon, <1>0, <1>2, <2>2, IdleIs DEF Types, NoFault
  <2>4. InOrder' /\ Containers'
    BY <1>0, <2>2, RelSame DEF Durable, InOrder, Containers, Touched, Unbegun
  <2>5. References' /\ Quiet' /\ Verified' /\ Schema' /\ SchemaKeepsItsData'
    BY Zenon, <1>0, <2>2
      DEF Durable, References, Quiet, Verified, Schema, SchemaKeepsItsData, Unbegun
  <2>6. \A g \in Groups : host.env[g] = IF g \in left THEN "new" ELSE "orig"
    BY Zenon, <1>0, <2>1
  <2>7. ASSUME NEW g \in Groups, g \in rel.changed
        PROVE  host.box[g].gen \in IF g \in left THEN {"new"} ELSE {"orig", "back"}
    <3>1. g \in Selected /\ host.box[g] \in BoxType
      BY Zenon, <1>0, <2>7, SelectedIs DEF HostType
    <3>2. Observed(g) = IF g \in left THEN "target" ELSE "original"
      BY Zenon, <1>2, <2>1, <2>7, <3>1 DEF CompensationVerified
    <3> QED
      BY Zenon, <2>7, <3>1, <3>2 DEF Observed, BoxType
  <2>8. \A g \in Groups : g \notin Selected => host.box[g].gen = "orig"
    BY Zenon, <1>0 DEF Durable, Containers
  <2>9. host.mig # "orig" <=> "migration" \in left
    BY Zenon, <1>0, <1>2, <2>1
      DEF CompensationVerified, MigrationObserved, Durable, Schema, HostType
  <2>10. \A g \in Selected : host.box[g].up \in {"healthy", "ill"}
    BY Zenon, <1>2 DEF CompensationVerified, Healthy
  <2>11. EndIsTrue'
    BY Zenon, <1>0, <2>2, <2>6, <2>7, <2>8, <2>9, <2>10, RelSame DEF EndIsTrue
  <2>12. Durable'
    BY Zenon, <2>4, <2>5, <2>11 DEF Durable
  <2> QED
    BY Zenon, <2>2, <2>3, <2>12, EndPreserves
<1> HIDE DEF left
<1> QED
  BY Zenon, <1>1, <1>2 DEF VerifyCompensation, left
\* Steps that were begun and whose effect is found are recorded.
LEMMA FoundDurable ==
  ASSUME Types, Durable, rel' = rel, host' = host, store'.state = store.state,
         store'.failstep = store.failstep, store'.residual = store.residual,
         store'.done = store.done \cup ActivationsFound, store'.begun = store.begun \ ActivationsFound
  PROVE  Durable'
<1>1. /\ ActivationsFound \subseteq store.begun /\ "verify" \notin ActivationsFound
      /\ "run_migrate" \notin ActivationsFound
  BY Zenon DEF ActivationsFound, PendingActivation
<1>2. Touched' = Touched /\ store.done \subseteq store'.done
  BY Zenon, <1>1 DEF Touched
<1>3. InOrder' /\ References'
  BY Zenon, <1>2, RelSame DEF Durable, InOrder, References, OriginalEnv
<1>4. Containers'
  <2>1. ASSUME NEW g \in rel.changed, RecreateKind[g] \in ActivationsFound
        PROVE  host.box[g].gen = "new"
    <3>1. g \in Groups /\ RecreateKind[g] # "quiesce_backend" /\ GroupOf(RecreateKind[g]) = g
      BY Zenon, GroupInverse, KindSet, ReleaseAssumption DEF Types
    <3>2. Observed(g) = "target"
      BY Zenon, <2>1, <3>1 DEF ActivationsFound
    <3> QED
      BY Zenon, <2>1, <3>2 DEF Observed
  <2> QED
    BY Zenon, <1>2, <2>1, RelSame DEF Durable, Containers
<1>5. Quiet'
  <2>1. ASSUME "quiesce_backend" \in ActivationsFound, "recreate_backend" \notin Touched,
               store.state = "activating"
        PROVE  FALSE
    <3>1. Observed("backend") = "stopped" /\ "backend" \in Groups
      BY Zenon, <2>1 DEF ActivationsFound, Groups
    <3>2. host.box["backend"].gen = "orig"
      BY Zenon, <2>1, <3>1, GroupIs DEF Durable, Containers
    <3> QED
      BY Zenon, <3>1, <3>2 DEF Observed
  <2> QED
    BY Zenon, <1>2, <2>1 DEF Durable, Quiet
<1>6. Verified' /\ Schema'
  BY Zenon, <1>1, <1>2, RelSame DEF Durable, Verified, TargetRuns, Schema
<1>7. EndIsTrue' /\ SchemaKeepsItsData'
  BY Zenon, RelSame DEF Durable, EndIsTrue, SchemaKeepsItsData
<1> QED
  BY Zenon, <1>3, <1>4, <1>5, <1>6, <1>7 DEF Durable

\* A rollback begins from what was begun.  The same holds of the state that rollback
\* makes of a prepared release before it looks at it.
LEMMA RollbackFromPreserves ==
  ASSUME Types, Durable, rel' = rel, host' = host, NoFault, NEW s \in StoreType, RollbackFrom(s),
         s.done = store.done, s.begun = store.begun, s.failstep = store.failstep,
         s.residual = store.residual, s.cdone = store.cdone, s.cbegun = store.cbegun,
         \/ s.state = store.state /\ store.state \in {"activating", "rolling_back"}
         \/ s.state = "activating" /\ store.state = "prepared"
  PROVE  IndInv'
<1>1. CASE store' = s /\ Exit
  <2>1. Types' /\ tool' = Idle
    BY Zenon, <1>1, IdleIs DEF Types, Exit, NoFault
  <2>2. Durable'
    BY Zenon, <1>1, DurableSame, BeganDurable DEF RecordSame, Unbegun
  <2> QED
    BY Zenon, <2>1, <2>2, EndPreserves
<1>2. CASE store' = [s EXCEPT !.state = "recovery_required"] /\ Exit
  <2>1. /\ store' \in StoreType /\ store'.state = "recovery_required" /\ store'.done = store.done
        /\ store'.begun = store.begun /\ tool' = Idle /\ host' \in HostType
    BY Zenon, <1>2 DEF StoreType, States, Exit, Types
  <2> QED
    BY Zenon, <2>1, RecoveryPreserves
<1> DEFINE found == {k \in PendingCompensation : CompensationFound(k)}
           kind == IF store.failstep = "none" THEN "run_migrate" ELSE store.failstep
<1>3. CASE /\ store' = [s EXCEPT !.done = @ \cup ActivationsFound, !.begun = @ \ ActivationsFound,
                                 !.cdone = @ \cup found, !.cbegun = @ \ found]
           /\ tool' = [Idle EXCEPT !.pc = "compensate", !.kind = kind]
  <2>1. /\ ActivationsFound \in SUBSET Kinds /\ ActivationsFound \subseteq store.begun
        /\ found \in SUBSET Recreations
    BY Zenon DEF ActivationsFound, PendingActivation, PendingCompensation, Types, StoreType
  <2>2. kind \in Kinds
    BY Zenon, KindSet DEF Types, StoreType
  <2>3. \/ store.state \in Unbegun \cup {"activating"} /\ store.failstep = "none" /\ kind = "run_migrate"
        \/ /\ store.state = "rolling_back" /\ kind = store.failstep
           /\ host.mig # "orig" => "run_migrate" \in store.done \/ kind = "run_migrate"
    BY Zenon DEF Durable, Schema, Unbegun
  <2> HIDE DEF found, kind
  <2>4. tool' \in ToolType /\ tool'.pc = "compensate" /\ tool'.kind = kind
    BY Zenon, <1>3, <2>2, IdleIs DEF ToolType, Pcs
  <2>5. /\ store' \in StoreType /\ store'.state = s.state /\ store'.failstep = store.failstep
        /\ store'.residual = store.residual
        /\ store'.done = store.done \cup ActivationsFound /\ store'.begun = store.begun \ ActivationsFound
    BY Zenon, <1>3, <2>1 DEF StoreType
  <2>6. Types'
    BY Zenon, <2>4, <2>5 DEF Types, NoFault
  <2>7. Durable'
    <3>1. CASE s.state = store.state
      BY Zenon, <2>5, <3>1, FoundDurable
    <3>2. CASE s.state = "activating" /\ store.state = "prepared"
      <4>1. Touched = {}
        BY Zenon, <3>2 DEF Durable, InOrder, Unbegun
      <4>2. store'.done = store.done /\ store'.begun = store.begun
        BY Zenon, <2>1, <2>5, <4>1 DEF Touched
      <4> QED
        BY Zenon, <2>5, <3>2, <4>2, BeganDurable DEF Unbegun
    <3> QED
      BY Zenon, <3>1, <3>2
  <2>8. AtBackward'
    BY Zenon, <2>3, <2>4, <2>5 DEF AtBackward, Backward, Restoring
  <2> QED
    BY Zenon, <2>4, <2>5, <2>6, <2>7, <2>8
      DEF IndInv, AtPrepare, AtForward, AtStep, Forward, Going, Final
<1> HIDE DEF found, kind
<1> QED
  BY Zenon, <1>1, <1>2, <1>3 DEF RollbackFrom, found, kind

\* A cold cutover is not undone, only stopped.
LEMMA ColdPreserves ==
  ASSUME Types, Durable', rel' = rel, host' = host, NoFault, rel.cold,
         store' \in StoreType, store'.state \in {"activating", "rolling_back"},
         tool' = [Idle EXCEPT !.pc = "compensate", !.amb = TRUE]
  PROVE  IndInv'
<1>1. tool' \in ToolType /\ tool'.pc = "compensate"
  BY Zenon, IdleIs DEF ToolType, Pcs
<1>2. Types'
  BY Zenon, <1>1 DEF Types, NoFault
<1> QED
  BY Zenon, <1>1, <1>2
    DEF IndInv, AtPrepare, AtForward, AtStep, AtBackward, Forward, Going, Backward,
        Restoring, Final

\* rollback
LEMMA RollbackPreserves ==
  ASSUME IndInv, Rollback
  PROVE  IndInv'
<1>0. /\ Types /\ Durable /\ rel' = rel /\ host' = host /\ NoFault /\ store \in StoreType
      /\ store.state \in {"prepared", "activating", "rolling_back"}
  BY Zenon DEF IndInv, Rollback, Types
<1> DEFINE s == IF store.state = "prepared" THEN [store EXCEPT !.state = "activating", !.saved = TRUE]
                ELSE store
<1>1. /\ s \in StoreType /\ s.done = store.done /\ s.begun = store.begun /\ s.failstep = store.failstep
      /\ s.residual = store.residual /\ s.cdone = store.cdone /\ s.cbegun = store.cbegun
      /\ s.state = IF store.state = "prepared" THEN "activating" ELSE store.state
  <2>1. CASE store.state = "prepared"
    BY Zenon, <1>0, <2>1 DEF StoreType, States
  <2>2. CASE store.state # "prepared"
    BY Zenon, <1>0, <2>2
  <2> QED
    BY Zenon, <2>1, <2>2
<1> HIDE DEF s
<1>2. CASE ~rel.cold /\ RollbackFrom(s)
  BY Zenon, <1>0, <1>1, <1>2, RollbackFromPreserves
<1>3. CASE /\ rel.cold /\ store' = [s EXCEPT !.saved = store.saved]
           /\ tool' = [Idle EXCEPT !.pc = "compensate", !.amb = TRUE]
  <2>1. /\ store' \in StoreType /\ store'.state = s.state /\ store'.done = store.done
        /\ store'.begun = store.begun /\ store'.failstep = store.failstep /\ store'.residual = store.residual
    BY Zenon, <1>0, <1>1, <1>3 DEF StoreType
  <2>2. Durable'
    BY Zenon, <1>0, <1>1, <2>1, DurableSame, BeganDurable DEF RecordSame, Unbegun
  <2> QED
    BY Zenon, <1>0, <1>1, <1>3, <2>1, <2>2, ColdPreserves
<1> QED
  BY Zenon, <1>2, <1>3 DEF Rollback, s
\* What the comparison of record and host says.  All services are new only when the
\* migration is recorded: the backend, stopped before it, was recreated after it.
LEMMA ReconcileIs ==
  ASSUME Types, Durable, store.state \in {"prepared", "activating", "rolling_back"}
  PROVE  /\ Reconcile = "finalize" => /\ store.state = "activating" /\ host.env = TargetEnv
                                      /\ rel.migrate => "run_migrate" \in store.done
         /\ Reconcile = "rollback" => store.state \in {"activating", "rolling_back"}
         /\ Reconcile = "resume" => store.state \in {"prepared", "activating"}
         /\ Reconcile \in {"finalize", "rollback", "resume", "recovery_required"}
<1>0. rel \in Releases /\ host \in HostType /\ host.box["backend"] \in BoxType
  BY Zenon DEF Types, HostType, Groups
<1>1. /\ Reconcile = "rollback" => store.state \in {"activating", "rolling_back"}
      /\ Reconcile = "resume" => store.state \in {"prepared", "activating"}
      /\ Reconcile \in {"finalize", "rollback", "resume", "recovery_required"}
      /\ Reconcile = "finalize" => /\ store.state \in {"prepared", "activating"} /\ EnvObserved = "target"
                                   /\ ServiceState = "target" /\ RuntimeHealthy
                                   /\ rel.migrate => MigrationObserved \notin {"original", "ambiguous"}
  BY Zenon DEF Reconcile
<1>2. ASSUME Reconcile = "finalize"
      PROVE  store.state = "activating" /\ host.env = TargetEnv
  BY Zenon, <1>1, <1>2 DEF EnvObserved, Durable, References, Unbegun
<1>3. ASSUME Reconcile = "finalize", rel.migrate, "run_migrate" \notin store.done
      PROVE  FALSE
  <2>1. host.mig = "new" /\ store.state = "activating"
    BY Zenon, <1>1, <1>2, <1>3 DEF MigrationObserved
  <2>2. "run_migrate" \in Touched
    BY Zenon, <2>1 DEF Durable, Schema
  <2>3. /\ "quiesce_backend" \in Plan /\ "run_migrate" \in Plan /\ "backend" \in Selected
        /\ "backend" \in Groups
    BY Zenon, <1>0, <1>3, PlanIs, SelectedIs DEF BackendNeeded, Groups
  <2>4. "quiesce_backend" \in store.done
    <3>1. "quiesce_backend" \in Before("run_migrate")
      BY <2>3, OrderIs DEF Before
    <3> QED
      BY Zenon, <2>2, <3>1 DEF Durable, InOrder
  <2>5. "recreate_backend" \notin Touched
    <3>1. "run_migrate" \in Before("recreate_backend")
      BY <2>3, OrderIs DEF Before
    <3> QED
      BY Zenon, <1>3, <3>1 DEF Durable, InOrder
  <2>6. host.box["backend"].up = "stopped" /\ host.box["backend"].gen = "orig"
    BY Zenon, <2>1, <2>3, <2>4, <2>5, GroupIs DEF Durable, Quiet, Containers
  <2>7. ~Healthy("backend")
    BY Zenon, <2>6 DEF Healthy
  <2>8. GroupState("backend").state = "target" /\ GroupState("backend").healthy
    BY Zenon, <1>1, <1>3, <2>3 DEF ServiceState, RuntimeHealthy
  <2>9. CASE Observed("backend") = "original"
    BY Zenon, <2>5, <2>7, <2>8, <2>9 DEF GroupState, Touched
  <2>10. CASE Observed("backend") = "target"
    BY Zenon, <2>7, <2>8, <2>10 DEF GroupState
  <2> QED
    BY Zenon, <2>6, <2>9, <2>10 DEF Observed
<1> QED
  BY Zenon, <1>1, <1>2, <1>3

\* resume
LEMMA ResumePreserves ==
  ASSUME IndInv, Resume
  PROVE  IndInv'
<1>0. /\ Types /\ Durable /\ rel' = rel /\ host' = host /\ store \in StoreType /\ host \in HostType
      /\ store.state \in {"prepared", "activating", "rolling_back"}
  BY Zenon DEF IndInv, Resume, Types
<1>1. ASSUME store' = store PROVE Durable'
  BY Zenon, <1>0, <1>1, DurableSame DEF RecordSame
<1>2. CASE RecoveryRequired /\ (NoFault \/ Fault)
  BY Zenon, <1>0, <1>2, RecoveryAlone
<1>3. CASE /\ rel.cold /\ store.state # "prepared" /\ store' = store /\ NoFault
           /\ tool' = [Idle EXCEPT !.pc = "compensate", !.amb = TRUE]
  BY Zenon, <1>0, <1>1, <1>3, ColdPreserves
<1>4. CASE /\ Reconcile = "finalize" /\ NoFault /\ store' = [store EXCEPT !.state = "activating"]
           /\ tool' = [Idle EXCEPT !.pc = "finalize", !.amb = store.state = "prepared"]
  <2>1. /\ store.state = "activating" /\ host.env = TargetEnv
        /\ rel.migrate => "run_migrate" \in store.done
    BY Zenon, <1>0, <1>4, ReconcileIs
  <2>2. store' = store
    BY Zenon, <1>0, <1>4, <2>1 DEF StoreType
  <2>3. tool' \in ToolType /\ tool'.pc = "finalize" /\ tool'.passed = {}
    BY Zenon, <1>4, IdleIs DEF ToolType, Pcs
  <2>4. AtForward'
    BY Zenon, <1>0, <2>1, <2>2, <2>3, RelSame DEF AtForward, Forward, Going
  <2>5. Types'
    BY Zenon, <1>0, <1>4, <2>2, <2>3 DEF Types, NoFault
  <2> QED
    BY Zenon, <1>1, <2>1, <2>2, <2>3, <2>4, <2>5
      DEF IndInv, AtPrepare, AtStep, AtBackward, Backward, Restoring, Final
<1>5. CASE Reconcile = "rollback" /\ NoFault /\ RollbackFrom(store)
  BY Zenon, <1>0, <1>5, ReconcileIs, RollbackFromPreserves
<1>6. CASE /\ store.state = "prepared" /\ NoFault /\ To("activating")
           /\ tool' = [Idle EXCEPT !.pc = "preflight"]
  BY Zenon, <1>0, <1>6, BeginsActivation
<1>7. CASE /\ Reconcile = "resume" /\ store.state # "prepared" /\ NoFault /\ store' = store
           /\ tool' = [Idle EXCEPT !.resumed = TRUE,
                         !.pc = IF EnvObserved = "original" THEN "configure" ELSE "step"]
  <2>1. store.state = "activating"
    BY Zenon, <1>0, <1>7, ReconcileIs
  <2>2. /\ tool' \in ToolType /\ tool'.pc \in {"configure", "step"} /\ tool'.passed = {} /\ tool'.resumed
        /\ tool'.pc = "step" => EnvObserved # "original"
    BY Zenon, <1>7, IdleIs DEF ToolType, Pcs
  <2>3. tool'.pc = "step" => host.env = TargetEnv
    BY Zenon, <2>1, <2>2, <1>0 DEF EnvObserved, Durable, References
  <2>4. AtForward'
    BY Zenon, <1>0, <1>7, <2>1, <2>2, <2>3, RelSame DEF AtForward, Forward, Going
  <2>5. Types'
    BY Zenon, <1>0, <1>7, <2>2 DEF Types, NoFault
  <2> QED
    BY Zenon, <1>1, <1>7, <2>1, <2>2, <2>4, <2>5
      DEF IndInv, AtPrepare, AtStep, AtBackward, Backward, Restoring, Final
<1>8. CASE ~(RecoveryRequired /\ (NoFault \/ Fault)) /\ ~(rel.cold /\ store.state # "prepared")
  <2>1. Reconcile \in {"finalize", "rollback", "resume", "recovery_required"}
    BY Zenon, <1>0, ReconcileIs
  <2> QED
    BY Zenon, <1>4, <1>5, <1>6, <1>7, <1>8, <2>1 DEF Resume
<1> QED
  BY Zenon, <1>2, <1>3, <1>8 DEF Resume

\* The command is told to stop.
LEMMA SignalPreserves ==
  ASSUME IndInv, Signal
  PROVE  IndInv'
<1>0. /\ Types /\ Durable /\ rel' = rel /\ host' = host /\ store' = store /\ Fault
      /\ AtPrepare /\ AtForward /\ AtStep /\ AtBackward
  BY Zenon DEF IndInv, Signal
<1>1. /\ tool' \in ToolType /\ tool'.pc = tool.pc /\ tool'.passed = tool.passed
      /\ tool'.resumed = tool.resumed /\ tool'.kind = tool.kind /\ tool'.keep = tool.keep
      /\ tool'.mig = tool.mig
  BY Zenon, <1>0 DEF Signal, Types, ToolType
<1>2. Types' /\ Durable'
  BY Zenon, <1>0, <1>1, FaultIs, DurableSame DEF Types, RecordSame
<1>3. AtPrepare' /\ AtForward'
  BY Zenon, <1>0, <1>1, RelSame DEF AtPrepare, AtForward, OriginalEnv
<1>4. AtStep'
  BY Zenon, <1>0, <1>1, RelSame, StepSame DEF AtStep, TargetRuns
<1>5. AtBackward'
  BY Zenon, <1>0, <1>1 DEF AtBackward, RestoreKinds
<1> QED
  BY Zenon, <1>2, <1>3, <1>4, <1>5 DEF IndInv

\* The command dies.
LEMMA CrashPreserves ==
  ASSUME IndInv, Crash
  PROVE  IndInv'
<1>0. /\ Types /\ Durable /\ AtForward /\ AtStep /\ AtBackward /\ rel' = rel /\ Fault /\ tool' = Idle
  BY Zenon DEF IndInv, Crash, Exit
<1>1. store' \in StoreType /\ RecordSame
  BY Zenon, <1>0 DEF Crash, Types, StoreType, RecordSame
<1>2. host' \in HostType /\ Durable'
  <2>1. CASE tool.pc = "run"
    BY Zenon, <1>0, <1>1, <2>1, RunDurable DEF Crash
  <2>2. CASE tool.pc = "restore_run"
    BY Zenon, <1>0, <1>1, <2>2, RestoreDurable DEF Crash
  <2>3. CASE tool.pc \notin {"run", "restore_run"}
    <3>1. host' = host
      BY Zenon, <2>3 DEF Crash
    <3> QED
      BY Zenon, <1>0, <1>1, <3>1, DurableSame DEF Types
  <2> QED
    BY Zenon, <2>1, <2>2, <2>3
<1>3. Types'
  BY Zenon, <1>0, <1>1, <1>2, IdleIs, FaultIs DEF Types
<1> QED
  BY Zenon, <1>0, <1>2, <1>3, EndPreserves

\* A container falls ill.
LEMMA SickenPreserves ==
  ASSUME IndInv, NEW g \in Groups, Sicken(g)
  PROVE  IndInv'
<1>0. /\ Types /\ Durable /\ rel' = rel /\ tool' = tool /\ store' = store /\ Fault /\ host \in HostType
      /\ AtPrepare /\ AtForward /\ AtStep /\ AtBackward /\ store.state \notin Final
  BY Zenon DEF IndInv, Sicken, Types
<1>1. /\ host' \in HostType /\ host'.env = host.env /\ host'.mig = host.mig
      /\ \A f \in Groups : /\ host'.box[f].gen = host.box[f].gen
                           /\ host'.box[f].up = host.box[f].up
                              \/ (host.box[f].up = "healthy" /\ host'.box[f].up = "ill")
  <2> DEFINE b == [host.box[g] EXCEPT !.up = "ill"]
  <2>1. b \in BoxType /\ b.gen = host.box[g].gen /\ b.up = "ill" /\ host.box[g].up = "healthy"
    BY Zenon, <1>0 DEF HostType, BoxType, Sicken, Healthy
  <2>2. host' = [host EXCEPT !.box = [host.box EXCEPT ![g] = b]]
    BY Zenon, <1>0 DEF HostType, Sicken
  <2> HIDE DEF b
  <2> QED
    BY Zenon, <1>0, <2>1, <2>2 DEF HostType
<1>2. Types'
  BY Zenon, <1>0, <1>1, FaultIs DEF Types
<1>3. InOrder' /\ References'
  BY Zenon, <1>0, <1>1, RelSame DEF Durable, InOrder, References, Touched, OriginalEnv
<1>4. TargetRuns => TargetRuns'
  BY <1>0, <1>1, RelSame DEF TargetRuns, Selected
<1>5. Containers' /\ Quiet'
  <2>1. rel.changed \subseteq Groups /\ "backend" \in Groups
    BY Zenon, <1>0, ReleaseAssumption DEF Types, Groups
  <2> QED
    BY <1>0, <1>1, <2>1, RelSame DEF Durable, Containers, Quiet, Touched
<1>6. Verified' /\ Schema'
  BY Zenon, <1>0, <1>1, <1>4 DEF Durable, Verified, Schema, Touched
<1>7. EndIsTrue' /\ SchemaKeepsItsData'
  BY <1>0, <1>1 DEF Durable, EndIsTrue, SchemaKeepsItsData, Final, Data, Groups
<1>8. AtPrepare' /\ AtForward'
  BY Zenon, <1>0, <1>1, RelSame DEF AtPrepare, AtForward, OriginalEnv
<1>9. AtStep'
  <2>1. Step' = Step /\ Plan' = Plan /\ "backend" \in Groups
    BY Zenon, <1>0, RelSame, StepSame DEF Groups
  <2> QED
    BY Zenon, <1>0, <1>1, <1>4, <2>1, GroupInverse DEF AtStep
<1>10. AtBackward'
  BY Zenon, <1>0, <1>1 DEF AtBackward, RestoreKinds
<1> QED
  BY Zenon, <1>2, <1>3, <1>5, <1>6, <1>7, <1>8, <1>9, <1>10 DEF IndInv, Durable
----------------------------------------------------------------------------
(* The theorems *)

\* Every step keeps the invariant.
LEMMA StepPreserves ==
  ASSUME IndInv, [Next]_vars
  PROVE  IndInv'
<1>1. CASE UNCHANGED vars
  <2>1. Types' /\ Durable'
    BY Zenon, <1>1, DurableSame DEF vars, IndInv, Types, RecordSame
  <2>2. AtPrepare' /\ AtForward'
    BY Zenon, <1>1, RelSame DEF vars, IndInv, AtPrepare, AtForward, OriginalEnv
  <2>3. AtStep' /\ AtBackward'
    BY <1>1, RelSame, StepSame
      DEF vars, IndInv, AtStep, AtBackward, TargetRuns, RestoreKinds
  <2> QED
    BY Zenon, <2>1, <2>2, <2>3 DEF IndInv
<1>2. CASE StartPrepare \/ ResumeStaged \/ Activate \/ Resume \/ Rollback
  BY Zenon, <1>2, StartPreparePreserves, ResumeStagedPreserves, ActivatePreserves,
      ResumePreserves,
     RollbackPreserves
<1>3. CASE ToolStep
  BY Zenon, <1>3, FinishPreparePreserves, ActivatePreserves, PreflightPreserves,
      SnapshotEnvPreserves,
     ConfigurePreserves, NextActivationStepPreserves, FinishPreserves, RunStepPreserves,
     LookAtFailurePreserves, RecordStepPreserves, ColdStopPreserves, CompensatePreserves,
     CompensationEnvPreserves, NextRestorePreserves, RestoreRunPreserves,
     RestoreRecordPreserves,
     VerifyCompensationPreserves, FinalizePreserves DEF ToolStep
<1>4. CASE Signal \/ Crash \/ \E g \in Groups : Sicken(g)
  BY Zenon, <1>4, SignalPreserves, CrashPreserves, SickenPreserves
<1> QED
  BY Zenon, <1>1, <1>2, <1>3, <1>4 DEF Next

\* It holds at first.
LEMMA InitHolds ==
  ASSUME Init
  PROVE  IndInv
<1>0. /\ rel \in Releases /\ tool = Idle /\ faults = 0 /\ store.state = "none" /\ store.failstep = "none"
      /\ store.done = {} /\ store.begun = {} /\ host.env = OriginalEnv /\ host.mig = "orig"
      /\ \A g \in Groups : host.box[g].gen = "orig"
  BY Zenon DEF Init
<1>1. Types
  <2>1. store \in StoreType
    BY Zenon DEF Init, StoreType, States
  <2>2. host \in HostType
    BY Zenon, <1>0, EnvIs DEF Init, HostType, BoxType
  <2> QED
    BY <1>0, <2>1, <2>2, IdleIs, ReleaseAssumption DEF Types
<1>2. Touched = {} /\ store.state \in Unbegun
  BY Zenon, <1>0 DEF Touched, Unbegun
<1>3. Durable
  BY Zenon, <1>0, <1>2, ReleaseAssumption
     DEF Durable, InOrder, References, Containers, Quiet, Verified, Schema, EndIsTrue,
       SchemaKeepsItsData,
         Unbegun
<1> QED
  BY Zenon, <1>0, <1>1, <1>3, IdleIs
     DEF IndInv, AtPrepare, AtForward, AtStep, AtBackward, Forward, Going, Backward,
       Restoring

\* Whatever fails, dies or is resumed, the record on disk, the services of the host and
\* the place the tool has got to agree: what each step of activate, _compensate and
\* resume relies on.
THEOREM ReleaseInvariant == Spec => []IndInv
BY InitHolds, StepPreserves, PTL DEF Spec

\* A release ends as succeeded or as rolled back only when that is what the host runs
\* (_verify_final_runtime, _verify_compensation_result), for every manifest and any
\* number of failures, crashes and resumes.
THEOREM ReleaseEndIsTrue == Spec => []EndIsTrue
<1>1. IndInv => EndIsTrue
  BY Zenon DEF IndInv, Durable
<1> QED
  BY <1>1, ReleaseInvariant, PTL

\* A schema that was moved keeps the data images it needs (keep_data of _compensate).
THEOREM ReleaseKeepsData == Spec => []SchemaKeepsItsData
<1>1. IndInv => SchemaKeepsItsData
  BY Zenon DEF IndInv, Durable
<1> QED
  BY <1>1, ReleaseInvariant, PTL

\* The command of the step at hand touches data or the schema only with the backend
\* stopped.
LEMMA RunIsQuiet ==
  ASSUME IndInv, tool.pc = "run", NEW h \in Partial(Step) \cup {Effect(Step)}, host' = h,
         host'.mig # host.mig \/ \E g \in Data : host'.box[g].gen # host.box[g].gen
  PROVE  host.box["backend"].up = "stopped"
<1>0. /\ rel \in Releases /\ Durable /\ store.state = "activating" /\ host \in HostType
      /\ ~(Plan \subseteq tool.passed) /\ tool.passed \subseteq store.done /\ Step \notin store.done
  BY Zenon DEF IndInv, AtForward, AtStep, Forward, Going, Types
<1>1. Step \in Plan /\ Step \in Kinds /\ Before(Step) \subseteq store.done
  BY Zenon, <1>0, StepIs, PlanIs
<1>2. Step \in {"run_migrate", "recreate_postgres", "recreate_redis"}
  <2>1. Leaves(Step, h)
    BY Zenon, <1>0, <1>1, CommandLeaves
  <2>2. CASE host'.mig # host.mig
    BY Zenon, <2>1, <2>2 DEF Leaves
  <2>3. ASSUME NEW g \in Data, host'.box[g].gen # host.box[g].gen
        PROVE  Step \in {"recreate_postgres", "recreate_redis"}
    BY Zenon, <2>1, <2>3, GroupIs DEF Leaves, Data, Groups
  <2> QED
    BY Zenon, <2>2, <2>3
<1>3. "quiesce_backend" \in Plan
  BY Zenon, <1>0, <1>1, <1>2, PlanIs DEF BackendNeeded
<1>4. "quiesce_backend" \in store.done
  BY <1>1, <1>2, <1>3, OrderIs DEF Before
<1>5. "recreate_backend" \notin Touched
  <2>1. ASSUME "recreate_backend" \in Touched
        PROVE  ActivationOrder["recreate_backend"] <= ActivationOrder[Step]
    BY Zenon, <1>0, <1>1, <2>1, OrderSays DEF Durable
  <2> QED
    BY <1>2, <2>1, OrderIs
<1> QED
  BY Zenon, <1>0, <1>4, <1>5 DEF Durable, Quiet

\* Nothing else touches them while a release goes forward.
LEMMA ForwardStepIsQuiet ==
  ASSUME IndInv, [Next]_vars, store.state = "activating",
         host'.mig # host.mig \/ \E g \in Data : host'.box[g].gen # host.box[g].gen
  PROVE  host.box["backend"].up = "stopped"
<1>0. host \in HostType /\ DOMAIN host = {"env", "box", "mig"} /\ DOMAIN host.box = Groups
      /\ Data \subseteq Groups /\ \A g \in Groups : host.box[g] \in BoxType
  BY Zenon DEF IndInv, Types, HostType, Data, Groups
<1>1. host' # host
  OBVIOUS
<1>2. ASSUME NEW e, host' = [host EXCEPT !.env = e] PROVE FALSE
  BY Zenon, <1>0, <1>2
<1>3. ASSUME NEW g \in Groups, NEW u, host' = [host EXCEPT !.box[g].up = u] PROVE FALSE
  BY Zenon, <1>0, <1>3 DEF BoxType
<1>4. ASSUME host' = [host EXCEPT !.box["backend"].up = "stopped", !.box["web"].up = "stopped"] PROVE FALSE
  BY Zenon, <1>0, <1>4 DEF BoxType, Groups
<1>5. tool.pc \notin Backward
  BY Zenon DEF IndInv, AtBackward
<1>6. CASE Configure
  BY Zenon, <1>2, <1>6 DEF Configure
<1>7. CASE CompensationEnv
  BY Zenon, <1>5, <1>7 DEF CompensationEnv, Backward
<1>8. CASE ColdStop
  BY Zenon, <1>1, <1>4, <1>8 DEF ColdStop
<1>9. CASE RestoreRun
  BY Zenon, <1>5, <1>9 DEF RestoreRun, Backward, Restoring
<1>10. CASE \E g \in Groups : Sicken(g)
  BY Zenon, <1>3, <1>10 DEF Sicken
<1>11. CASE RunStep
  <2>1. host' \in Partial(Step) \cup {Effect(Step)} /\ tool.pc = "run"
    BY Zenon, <1>1, <1>11 DEF RunStep, VerifyFinal
  <2> QED
    BY Zenon, <2>1, RunIsQuiet
<1>12. CASE Crash
  <2>1. CASE tool.pc = "run"
    <3>1. host' \in Partial(Step) \cup {Effect(Step)}
      BY Zenon, <1>12, <2>1 DEF Crash
    <3> QED
      BY Zenon, <2>1, <3>1, RunIsQuiet
  <2>2. CASE tool.pc # "run"
    BY Zenon, <1>1, <1>5, <1>12, <2>2 DEF Crash, Backward, Restoring
  <2> QED
    BY Zenon, <2>1, <2>2
<1>13. CASE StartPrepare \/ ResumeStaged \/ Activate \/ Resume \/ Rollback \/ Signal \/ UNCHANGED vars
  BY Zenon, <1>1, <1>13
    DEF StartPrepare, ResumeStaged, Activate, Interrupted, Raise, Resume, Rollback, Signal,
        vars
<1>14. CASE FinishPrepare \/ Preflight \/ SnapshotEnv \/ NextActivationStep \/ Finish
  BY Zenon, <1>1, <1>14
    DEF FinishPrepare, Preflight, SnapshotEnv, NextActivationStep, Finish, Interrupted,
        Raise
<1>15. CASE LookAtFailure \/ RecordStep \/ Compensate \/ NextRestore \/ RestoreRecord
            \/ VerifyCompensation \/ Finalize
  BY Zenon, <1>1, <1>15
    DEF LookAtFailure, RecordStep, Compensate, NextRestore, RestoreRecord,
        VerifyCompensation,
                     Finalize, Interrupted, Raise
<1> QED
  BY Zenon, <1>6, <1>7, <1>8, <1>9, <1>10, <1>11, <1>12, <1>13, <1>14, <1>15
    DEF Next, ToolStep

\* Going forward, data services and schema are exchanged only under a stopped backend
\* (build_activation_plan, _observe_activation_step before each step).
THEOREM ReleaseForwardIsQuiet == Spec => ForwardIsQuiet
<1>1. IndInv /\ [Next]_vars =>
        [/\ store.state = "activating"
         /\ \/ host'.mig # host.mig
            \/ \E g \in Data : host'.box[g].gen # host.box[g].gen
         => host.box["backend"].up = "stopped"]_vars
  BY Zenon, ForwardStepIsQuiet
<1> QED
  BY <1>1, ReleaseInvariant, PTL DEF Spec, ForwardIsQuiet

=============================================================================
