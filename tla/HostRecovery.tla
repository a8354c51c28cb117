---------------------------- MODULE HostRecovery ----------------------------
(***************************************************************************)
(* How a production host gets its first succeeded release: bootstrap of an    *)
(* empty host, or the fenced recovery of a restored one (start, observe,      *)
(* adopt and resume stage by stage), both of release_manager.py, and the start *)
(* gate that ordinary startup passes through.                                *)
(*                                                                         *)
(* Commands run one at a time under the lifecycle lock.  Each may fail, die or  *)
(* lose its host between two steps.  Durable are the bootstrap and recovery     *)
(* state files, the state of the baseline release, and the database.           *)
(***************************************************************************)
EXTENDS Naturals, Sequences, Functions

CONSTANTS
  MaxFaults,   \* bound on failing commands and checks, crashes and reboots
  MaxWrites    \* bound on writes to the database

ASSUME HostAssumption == MaxFaults \in Nat /\ MaxWrites \in Nat

VARIABLES
  boot,    \* the bootstrap state file
  rec,     \* the recovery state file
  base,    \* the state of the baseline release and whether adoption signed it
  host,    \* which services run
  db,      \* rows: what the fingerprint counts; work: what only the watermark
           \* shows; busy: sending was in flight
  tool,    \* the running command
  offline, \* the images come as signed archives
  faults

hostVars == <<boot, rec, base, host, db, tool, offline, faults>>

\* The stages of a recovery, in the order they are allowed.
Stages == <<"api", "callback", "workers", "outbox", "beat", "web">>
Consumers == Range(Stages)
CompletedPhases == <<"adopted", "api_started", "callback_started", "workers_started",
                     "outbox_started", "beat_started", "succeeded">>
Indices(s, x) == {i \in DOMAIN s : s[i] = x}
IndexOf(s, x) == CHOOSE i \in DOMAIN s : s[i] = x

\* What bootstrap runs after the environment is configured.
BootPhases == <<"compose_config", "data_services", "migration", "application_services">>

None == "none"
Idle == [pc |-> "idle", stage |-> "web", fin |-> FALSE, seen |-> None, read |-> <<>>,
         bad |-> FALSE, store |-> FALSE]

Fingerprint == db.rows

NothingInFlight == ~db.busy

Watermark == <<db.rows, db.work>>

\* Every variable keeps its type.
HostTypeOK ==
  /\ boot \in [status : {None, "running", "succeeded", "failed"},
               phase : {None, "freezing_bundle", "validated", "env_configured", "seal_release",
                        "complete", "contained", "containment_failed", "recovery_adopted"}
                       \cup Range(BootPhases)]
  /\ rec.status \in {None, "running", "succeeded", "failed", "recovery_required"}
  /\ rec.phase \in {None, "validated", "data_starting", "data_started", "observed", "failed"}
                   \cup Range(CompletedPhases)
  /\ base.state \in {None, "staged", "prepared", "activating", "succeeded", "rolled_back", "failed",
                     "recovery_required"}
  /\ host \in [data : {"down", "sick", "up"}, up : SUBSET Consumers]
  /\ db \in [rows : 0..MaxWrites, work : 0..MaxWrites, busy : BOOLEAN]
  /\ faults \in 0..MaxFaults

\* A new host, or one whose volumes are about to be restored.
HostInit ==
  /\ boot = [status |-> None, phase |-> None]
  /\ rec = [status |-> None, phase |-> None, fp |-> <<>>, wm |-> <<>>, uncontained |-> FALSE]
  /\ base = [state |-> None, signed |-> FALSE]
  /\ host = [data |-> "down", up |-> {}]
  /\ db \in [rows : {0}, work : {0}, busy : BOOLEAN]
  /\ tool = Idle
  /\ offline \in BOOLEAN
  /\ faults = 0

Fault == faults < MaxFaults /\ faults' = faults + 1
NoFault == UNCHANGED faults
Goto(to) == tool' = [tool EXCEPT !.pc = to]
Exit == tool' = Idle
Files == <<boot, rec, base>>
World == <<db, offline>>

Checkpoint(st, ph) == rec' = [rec EXCEPT !.status = st, !.phase = ph]
Base(state) == base' = [base EXCEPT !.state = state]

\* _assert_production_start_allowed, as far as these files decide it.
StartAllowed ==
  /\ boot.status = "succeeded"
  /\ rec.status \in {None, "succeeded"}
  /\ base.state = "succeeded"

-----------------------------------------------------------------------------
(* _record_recovery_failure: contain the consumers, then the release, then    *)
(* the recovery file.                                                       *)

\* The error is recorded without stopping anything, or only reported.
FailUncontained(store) ==
  /\ tool' = IF rec.status \in {"running", "succeeded"}
             THEN [tool EXCEPT !.pc = "fail_store", !.store = store] ELSE Idle
  /\ UNCHANGED Files

FailSilently(store) == Exit /\ UNCHANGED Files

\* An error is recorded while the fence is up or was just taken down.
Fail(store) ==
  /\ tool' = IF rec.status \in {"running", "succeeded"}
             THEN [tool EXCEPT !.pc = "contain", !.store = store] ELSE Idle
  /\ UNCHANGED Files

Contain ==
  /\ tool.pc = "contain"
  /\ \/ /\ host' = [host EXCEPT !.up = {}] /\ NoFault
        /\ tool' = [tool EXCEPT !.pc = "fail_store"]
     \/ /\ \E left \in SUBSET host.up : host' = [host EXCEPT !.up = left]
        /\ Fault /\ tool' = [tool EXCEPT !.pc = "fail_store", !.bad = TRUE]
  /\ UNCHANGED <<Files, World>>

FailStore ==
  /\ tool.pc = "fail_store"
  /\ tool' = [tool EXCEPT !.pc = "fail_record", !.seen = IF tool.store THEN base.state ELSE None]
  /\ IF tool.store /\ base.state = "activating" THEN Base("recovery_required") ELSE UNCHANGED base
  /\ UNCHANGED <<boot, rec, host, World>> /\ NoFault

FailRecord ==
  /\ tool.pc = "fail_record"
  /\ rec' = [rec EXCEPT !.phase = "failed", !.uncontained = tool.bad,
       !.status = IF \/ tool.bad \/ tool.seen \in {"activating", "succeeded"}
                     \/ rec.status = "succeeded"
                  THEN "recovery_required" ELSE "failed"]
  /\ Exit
  /\ UNCHANGED <<boot, base, host, World>> /\ NoFault

-----------------------------------------------------------------------------
(* start-recovery                                                           *)

StartRecovery ==
  /\ tool.pc = "idle"
  /\ UNCHANGED <<boot, rec, host, World>>
  /\ LET first == rec.status = None
         refused == \/ boot.status # None
                    \/ first /\ base.state # None
                    \/ ~first /\ \/ rec.fp # <<>> \/ rec.status # "running"
                                 \/ rec.phase \notin {"validated", "data_starting", "data_started"} IN
     \/ refused /\ Fail(FALSE) /\ NoFault
     \/ /\ ~refused /\ NoFault /\ Goto("fence")
        /\ IF first /\ offline THEN Base("staged") ELSE UNCHANGED base
     \/ ~refused /\ Fault /\ Fail(FALSE)

\* The fence is written before anything is touched.
WriteFence ==
  /\ tool.pc = "fence"
  /\ IF rec.status = None THEN Checkpoint("running", "validated") /\ UNCHANGED tool
     ELSE Checkpoint("running", "data_starting") /\ Goto("start_stop")
  /\ UNCHANGED <<boot, base, host, World>> /\ NoFault

StopConsumers ==
  /\ tool.pc = "start_stop"
  /\ \/ host' = [host EXCEPT !.up = {}] /\ Goto("start_data") /\ UNCHANGED Files /\ NoFault
     \/ /\ \E left \in SUBSET host.up : host' = [host EXCEPT !.up = left]
        /\ Fail(FALSE) /\ Fault
  /\ UNCHANGED World

StartData ==
  /\ tool.pc = "start_data"
  /\ \/ host' = [host EXCEPT !.data = "up"] /\ Goto("start_check") /\ UNCHANGED Files /\ NoFault
     \/ /\ \E d \in {host.data, "sick", "up"} : host' = [host EXCEPT !.data = d]
        /\ Fail(FALSE) /\ Fault
  /\ UNCHANGED World

DataOnly == host.up = {} /\ host.data = "up"

DataStarted ==
  /\ tool.pc = "start_check"
  /\ UNCHANGED <<host, World>>
  /\ \/ DataOnly /\ Checkpoint("running", "data_started") /\ Exit /\ UNCHANGED <<boot, base>> /\ NoFault
     \/ ~DataOnly /\ Fail(FALSE) /\ NoFault
     \/ Fail(FALSE) /\ Fault

-----------------------------------------------------------------------------
(* observe-recovery and adopt-recovery                                      *)

Observe ==
  /\ tool.pc = "idle"
  /\ UNCHANGED <<Files, host, World>>
  /\ IF rec.status = "running" /\ rec.phase = "data_started" /\ DataOnly
     THEN \/ tool' = [Idle EXCEPT !.pc = "observe", !.read = <<Fingerprint>>] /\ NoFault
          \/ Fail(FALSE) /\ Fault
     ELSE Fail(FALSE) /\ NoFault

\* A second reading must agree; then the receipt is written, to be approved.
ObserveAgain ==
  /\ tool.pc = "observe"
  /\ UNCHANGED <<host, World>> /\ NoFault
  /\ IF tool.read = <<Fingerprint>> /\ host.up = {}
     THEN Goto("observe_record") /\ UNCHANGED Files
     ELSE Fail(FALSE)

Observed ==
  /\ tool.pc = "observe_record"
  /\ rec' = [rec EXCEPT !.phase = "observed", !.fp = tool.read]
  /\ Exit
  /\ UNCHANGED <<boot, base, host, World>> /\ NoFault

\* Metadata that is already there differs: its watermark receipt carries the
\* time at which it was made.
Adopt ==
  /\ tool.pc = "idle"
  /\ UNCHANGED <<boot, rec, host, World>>
  /\ LET good == /\ boot.status = None
                 /\ rec.status = "running" /\ rec.phase \in {"observed", "adopted"}
                 /\ DataOnly /\ rec.fp = <<Fingerprint>> /\ NothingInFlight
                 /\ ~base.signed /\ base.state \in {None, "staged", "prepared"} IN
     \/ /\ good /\ NoFault
        /\ base' = [state |-> IF base.state = None THEN "staged" ELSE base.state, signed |-> TRUE]
        /\ tool' = [Idle EXCEPT !.pc = "adopt", !.read = Watermark]
     \/ ~good /\ Fail(base.state # None) /\ NoFault
     \/ good /\ Fail(base.state # None) /\ Fault

AdoptAgain ==
  /\ tool.pc = "adopt"
  /\ UNCHANGED <<host, World>> /\ NoFault
  /\ IF rec.fp = <<Fingerprint>> /\ tool.read = Watermark /\ NothingInFlight /\ DataOnly
     THEN Base("prepared") /\ Goto("adopt_record") /\ UNCHANGED <<boot, rec>>
     ELSE Fail(TRUE)

Adopted ==
  /\ tool.pc = "adopt_record"
  /\ rec' = [rec EXCEPT !.phase = "adopted", !.wm = tool.read]
  /\ Exit
  /\ UNCHANGED <<boot, base, host, World>> /\ NoFault

-----------------------------------------------------------------------------
(* resume-recovery                                                          *)

CompletedIndex ==
  IF rec.status = "succeeded" THEN Len(Stages) - 1 ELSE IndexOf(CompletedPhases, rec.phase) - 1

Authorized ==
  IF rec.phase \in Range(CompletedPhases) THEN {Stages[i] : i \in 1..CompletedIndex} ELSE {}

\* The stage asked for is the next one or the one just completed; after the
\* recovery only the last may be asked for again.
InOrder(stage) ==
  IF rec.status = "succeeded" THEN rec.phase = "succeeded" /\ stage = "web"
  ELSE /\ rec.phase \in Range(CompletedPhases) \ {"succeeded"}
       /\ IndexOf(Stages, stage) \in {CompletedIndex, CompletedIndex + 1}

\* The database is not compared again.
DatabaseUnchecked == TRUE

\* The database is the one that was observed and approved.
DatabaseApproved == rec.fp = <<Fingerprint>>

\* Every stage that was authorized runs and, of the others, nothing does.
FenceHolds(stages, alsoWeb) ==
  /\ host.data = "up" /\ stages \subseteq host.up
  /\ host.up \subseteq stages \cup IF alsoWeb THEN {"web"} ELSE {}

\* A fingerprint that was never recorded ends the command with an error nobody
\* records.
Resume(stage) ==
  /\ tool.pc = "idle" /\ rec.status \in {"running", "succeeded"}
  /\ UNCHANGED <<Files, host, World>>
  /\ LET fin == rec.status = "succeeded"
         bound == base.state # None /\ host.data = "up"
         good == /\ bound /\ DatabaseApproved /\ rec.wm # <<>> /\ InOrder(stage)
                 /\ FenceHolds(Authorized, fin)
         done == ~fin /\ IndexOf(Stages, stage) = CompletedIndex
         workers == stage = "workers" => rec.wm = Watermark /\ NothingInFlight IN
     \/ bound /\ rec.fp = <<>> /\ Exit /\ NoFault
     \/ ~(bound /\ rec.fp = <<>>) /\ ~good /\ Fail(TRUE) /\ NoFault
     \/ good /\ done /\ Exit /\ NoFault
     \/ good /\ ~done /\ ~workers /\ Fail(TRUE) /\ NoFault
     \/ /\ good /\ ~done /\ workers /\ NoFault
        /\ tool' = [Idle EXCEPT !.pc = "up", !.stage = stage, !.fin = fin]
     \/ good /\ ~done /\ Fail(TRUE) /\ Fault

StageUp ==
  /\ tool.pc = "up"
  /\ UNCHANGED World
  /\ \/ /\ host' = [host EXCEPT !.up = @ \cup {tool.stage}]
        /\ Goto("after") /\ UNCHANGED Files /\ NoFault
     \/ /\ \E up \in {host.up, host.up \cup {tool.stage}} : host' = [host EXCEPT !.up = up]
        /\ Fail(TRUE) /\ Fault

StageStarted ==
  /\ tool.pc = "after"
  /\ UNCHANGED <<host, World>>
  /\ IF FenceHolds(Authorized \cup {tool.stage}, FALSE)
     THEN IF tool.stage = "web" THEN Goto("seal") /\ UNCHANGED Files /\ NoFault
          ELSE \/ /\ Checkpoint("running", CompletedPhases[IndexOf(Stages, tool.stage) + 1])
                  /\ Exit /\ UNCHANGED <<boot, base>> /\ NoFault
               \/ Fail(TRUE) /\ Fault
     ELSE Fail(TRUE) /\ NoFault

\* After web: seal the release, then lower the fence, then end the release, then
\* write the baseline; a repeated command finds its place.
Seal ==
  /\ tool.pc = "seal"
  /\ UNCHANGED <<host, World>> /\ NoFault
  /\ CASE base.state = "prepared" /\ ~tool.fin ->
            Base("activating") /\ Goto("verify") /\ UNCHANGED <<boot, rec>>
       [] base.state \in {"activating", "succeeded"} -> Goto("verify") /\ UNCHANGED Files
       [] OTHER -> Fail(TRUE)

VerifyServices ==
  /\ tool.pc = "verify"
  /\ UNCHANGED <<host, World>>
  /\ \/ /\ host.data = "up" /\ host.up = Consumers /\ NoFault
        /\ Goto("unfence") /\ UNCHANGED Files
     \/ ~(host.data = "up" /\ host.up = Consumers) /\ Fail(TRUE) /\ NoFault
     \/ Fail(TRUE) /\ Fault

Unfence ==
  /\ tool.pc = "unfence"
  /\ Checkpoint("succeeded", "succeeded") /\ Goto("end_release")
  /\ UNCHANGED <<boot, base, host, World>> /\ NoFault

EndRelease ==
  /\ tool.pc = "end_release"
  /\ IF base.state = "activating" THEN Base("succeeded") ELSE UNCHANGED base
  /\ Goto("baseline")
  /\ UNCHANGED <<boot, rec, host, World>> /\ NoFault

WriteBaseline ==
  /\ tool.pc = "baseline"
  /\ boot' = [status |-> "succeeded", phase |-> "recovery_adopted"]
  /\ Goto("gate")
  /\ UNCHANGED <<rec, base, host, World>> /\ NoFault

PassGate ==
  /\ tool.pc = "gate"
  /\ UNCHANGED <<host, World>>
  /\ \/ StartAllowed /\ Exit /\ UNCHANGED Files /\ NoFault
     \/ Fail(TRUE) /\ Fault

-----------------------------------------------------------------------------
(* bootstrap                                                                *)

BootFailed == Goto("boot_contain") /\ UNCHANGED <<rec, base>>

\* The release root and the storage are empty, nothing runs.
Bootstrap ==
  /\ tool.pc = "idle" /\ boot.status = None /\ rec.status = None /\ base.state = None
  /\ host = [data |-> "down", up |-> {}]
  /\ boot' = [status |-> "running", phase |-> "freezing_bundle"]
  /\ tool' = [Idle EXCEPT !.pc = "boot"]
  /\ UNCHANGED <<rec, base, host, World>> /\ NoFault

\* freezing_bundle, validated, env_configured
Configure ==
  /\ tool.pc = "boot" /\ boot.phase \in {"freezing_bundle", "validated"}
  /\ UNCHANGED <<rec, host, World>>
  /\ \/ /\ NoFault /\ Goto("boot")
        /\ boot' = [boot EXCEPT !.phase = IF @ = "validated" THEN "env_configured" ELSE "validated"]
        /\ Base("staged")
     \/ BootFailed /\ UNCHANGED boot /\ Fault

NextPhase ==
  IF boot.phase = "env_configured" THEN "compose_config"
  ELSE IF boot.phase = "application_services" THEN "seal_release"
  ELSE BootPhases[IndexOf(BootPhases, boot.phase) + 1]

\* The phase is recorded before its command runs.
EnterPhase ==
  /\ tool.pc = "boot" /\ boot.phase \in {"env_configured"} \cup Range(BootPhases)
  /\ boot' = [boot EXCEPT !.phase = NextPhase]
  /\ Goto(IF NextPhase = "seal_release" THEN "boot_seal" ELSE "boot_run")
  /\ UNCHANGED <<rec, base, host, World>> /\ NoFault

PhaseEffect ==
  CASE boot.phase = "data_services" -> [host EXCEPT !.data = "up"]
    [] boot.phase = "application_services" -> [host EXCEPT !.up = Consumers]
    [] OTHER -> host

PhasePartial ==
  CASE boot.phase = "data_services" -> {[host EXCEPT !.data = d] : d \in {"down", "sick", "up"}}
    [] boot.phase = "application_services" ->
         {[host EXCEPT !.up = Range(SubSeq(Stages, 1, i))] : i \in 0..Len(Stages)}
    [] OTHER -> {host}

RunPhase ==
  /\ tool.pc = "boot_run"
  /\ UNCHANGED <<boot, rec, base, World>>
  /\ \/ host' = PhaseEffect /\ Goto("boot") /\ NoFault
     \/ host' \in PhasePartial /\ Goto("boot_contain") /\ Fault

\* _resume_staged and activate of a release that changes nothing.
SealRelease ==
  /\ tool.pc = "boot_seal"
  /\ UNCHANGED <<boot, rec, host, World>>
  /\ \/ /\ base.state = "staged"
        /\ \/ Base("prepared") /\ UNCHANGED tool /\ NoFault
           \/ Base("failed") /\ Goto("boot_contain") /\ Fault
     \/ base.state = "prepared" /\ Base("activating") /\ UNCHANGED tool /\ NoFault
     \/ /\ base.state = "activating"
        /\ \/ Base("succeeded") /\ Goto("boot_done") /\ NoFault
           \/ /\ \E s \in {"rolled_back", "recovery_required"} : Base(s)
              /\ Goto("boot_contain") /\ Fault

BootDone ==
  /\ tool.pc = "boot_done"
  /\ boot' = [status |-> "succeeded", phase |-> "complete"]
  /\ Exit
  /\ UNCHANGED <<rec, base, host, World>> /\ NoFault

BootContain ==
  /\ tool.pc = "boot_contain"
  /\ UNCHANGED <<boot, rec, base, World>>
  /\ \/ host' = [host EXCEPT !.up = {}] /\ Goto("boot_failed") /\ NoFault
     \/ /\ \E left \in SUBSET host.up : host' = [host EXCEPT !.up = left]
        /\ tool' = [tool EXCEPT !.pc = "boot_failed", !.bad = TRUE] /\ Fault

\* The containment is recorded whatever came of it.
BootFailure ==
  /\ tool.pc = "boot_failed"
  /\ boot' = [status |-> "failed", phase |-> IF tool.bad THEN "containment_failed" ELSE "contained"]
  /\ Exit
  /\ UNCHANGED <<rec, base, host, World>> /\ NoFault

-----------------------------------------------------------------------------
(* The surroundings.                                                        *)

\* sms-compose up: what ordinary startup starts after the gate.
OrdinaryUp ==
  /\ tool.pc = "idle" /\ StartAllowed
  /\ host' = [data |-> "up", up |-> Consumers]
  /\ UNCHANGED <<Files, World, tool>> /\ NoFault

HostCrash ==
  /\ tool.pc # "idle" /\ Fault /\ Exit
  /\ host' \in CASE tool.pc = "up" -> {host, [host EXCEPT !.up = @ \cup {tool.stage}]}
                 [] tool.pc = "boot_run" -> PhasePartial
                 [] OTHER -> {host}
  /\ UNCHANGED <<Files, World>>

\* Docker restarts nothing by itself.
Reboot ==
  /\ Fault /\ Exit
  /\ host' = [data |-> "down", up |-> {}]
  /\ UNCHANGED <<Files, World>>

\* A container dies.
Fall(c) ==
  /\ c \in host.up /\ Fault
  /\ host' = [host EXCEPT !.up = @ \ {c}]
  /\ UNCHANGED <<Files, World, tool>>

\* The operator's restore writes while no stage is being started.
Restore ==
  /\ host.data = "up" /\ host.up = {} /\ tool.pc \notin {"up", "after"}
  /\ boot.status = None
  /\ \/ db.rows < MaxWrites /\ db' = [db EXCEPT !.rows = @ + 1]
     \/ db.work < MaxWrites /\ db' = [db EXCEPT !.work = @ + 1]
  /\ UNCHANGED <<Files, host, tool, offline>> /\ NoFault

\* The application works on its data.
AppWork ==
  /\ host.data = "up" /\ host.up \cap {"api", "workers"} # {}
  /\ \/ db.rows < MaxWrites /\ db' = [db EXCEPT !.rows = @ + 1]
     \/ db.work < MaxWrites /\ db' = [db EXCEPT !.work = @ + 1]
     \/ "workers" \in host.up /\ db' = [db EXCEPT !.busy = ~@]
  /\ UNCHANGED <<Files, host, tool, offline>> /\ NoFault

ToolStep ==
  \/ Contain \/ FailStore \/ FailRecord
  \/ WriteFence \/ StopConsumers \/ StartData \/ DataStarted
  \/ ObserveAgain \/ Observed \/ AdoptAgain \/ Adopted
  \/ StageUp \/ StageStarted \/ Seal \/ VerifyServices \/ Unfence \/ EndRelease \/ WriteBaseline \/ PassGate
  \/ Configure \/ EnterPhase \/ RunPhase \/ SealRelease \/ BootDone \/ BootContain \/ BootFailure

HostNext ==
  \/ (ToolStep /\ UNCHANGED offline) \/ StartRecovery \/ Observe \/ Adopt \/ Bootstrap \/ OrdinaryUp
  \/ \E s \in Consumers : Resume(s) \/ Fall(s)
  \/ HostCrash \/ Reboot \/ Restore \/ AppWork

HostSpec == HostInit /\ [][HostNext]_hostVars

\* A running command goes on; the operator asks for a stage that is not done.
NextStage == rec.status = "running" /\ \E s \in Consumers \ Authorized : Resume(s)
HostFairSpec == HostSpec /\ WF_hostVars(ToolStep /\ UNCHANGED offline) /\ WF_hostVars(NextStage)

-----------------------------------------------------------------------------
(* Properties.                                                              *)

\* Whatever fails, dies or reboots in between, no service that sends or accepts
\* runs outside the fence: while a recovery is open only stages it recorded, and
\* at most the next one, are up; a recovery that failed, or a bootstrap that was
\* contained, has none of them up; only a containment that itself failed leaves
\* some, and says so (_assert_recovery_services_stopped, _record_recovery_failure,
\* _contain_failed_bootstrap, the start gate).
Fenced ==
  /\ rec.status = "running" =>
       host.up \subseteq {s \in Consumers :
         \E i \in DOMAIN Stages : Stages[i] = s /\ {Stages[j] : j \in 1..(i - 1)} \subseteq Authorized
                                  /\ rec.phase \in Range(CompletedPhases)}
  /\ rec.status \in {"failed", "recovery_required"} /\ ~rec.uncontained => host.up = {}
  /\ boot.status = "failed" /\ boot.phase = "contained" => host.up = {}

\* In a recovery the first service starts only over the database whose fingerprint
\* was observed and approved, however much of it was restored in between, and the
\* workers never start over sending that was in flight when the snapshot was taken.
StartsOnApproved ==
  [][rec.status = "running" =>
       /\ rec.phase = "adopted" /\ host.up = {} /\ host'.up # {} => rec.fp = <<db.rows>>
       /\ "workers" \notin host.up /\ "workers" \in host'.up => ~db.busy]_hostVars

\* A service whose start was never recorded, because the command died after it,
\* does not stay up unnoticed: the next command stops it or the recovery ends.
StrayStopped ==
  rec.status = "running" /\ ~(host.up \subseteq Authorized)
    ~> rec.status # "running" \/ host.up \subseteq Authorized
=============================================================================
