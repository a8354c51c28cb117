-------------------------- MODULE UsageProjection --------------------------
(***************************************************************************)
(* The Redis projection of the usage ledger (usage_ledger_projection.py):  *)
(* absolute values written with the version PostgreSQL gave them, a ready  *)
(* marker, and the paged rebuild that replaces a lost or drifted           *)
(* projection.                                                             *)
(*                                                                         *)
(* A transaction of PostgreSQL and a Lua script of Redis are one action    *)
(* each; between them a process may be overtaken, fail, or find that Redis *)
(* was flushed.  One Shanghai day: a dimension and its marker do not       *)
(* expire while it lasts.                                                  *)
(***************************************************************************)
EXTENDS Naturals

CONSTANTS
  Procs,      \* requests, Outbox workers, the CLI, and
  Reconciler, \* the periodic reconcile_usage_projection task
  DimKeys,    \* dimension keys
  Values,     \* counter values
  MaxWrites,  \* ledger transactions that change projections
  MaxFaults,  \* flushes, lost connections, failed calls, expired barriers
  None

ASSUME UsageProjectionAssumption ==
  /\ 0 \in Values
  /\ Values \subseteq Nat
  /\ MaxWrites \in Nat
  /\ MaxFaults \in Nat
  /\ Reconciler \in Procs
  /\ None \notin Procs

VARIABLES
  pg,      \* usage_projection: value and version; version 0 is no row
  seq,     \* usage_projection_version_seq
  redis,   \* the same in Redis; version 0 is no key
  ready,   \* usage:projection:ready
  barrier, \* usage:projection:rebuilding: the token, here its owner
  owner,   \* session advisory lock usage:projection:rebuild
  proc,    \* processes: control point, rows in hand, pages to do, base
  faults,
  lost     \* history: some row never reached Redis, or was flushed

projVars == <<pg, seq, redis, ready, barrier, owner, proc, faults, lost>>

Row == [value: Values, version: 0..MaxWrites]

Absent == [value |-> 0, version |-> 0]
NoRows == [d \in DimKeys |-> Absent]

Rebuilding == {"page", "renew", "rebuild_apply"}

ProjPcs == {"idle", "publish", "write", "apply", "claim"} \cup Rebuilding

\* Every variable keeps its type; versions come from the sequence.
ProjTypeOK ==
  /\ pg \in [DimKeys -> Row]
  /\ seq \in 0..MaxWrites
  /\ redis \in [DimKeys -> Row]
  /\ ready \in BOOLEAN
  /\ barrier \in Procs \cup {None}
  /\ owner \in Procs \cup {None}
  /\ proc \in [Procs -> [pc: ProjPcs, rows: [DimKeys -> Row], todo: SUBSET DimKeys,
                         base: [DimKeys -> 0..MaxWrites]]]
  /\ faults \in 0..MaxFaults
  /\ lost \in BOOLEAN

Idle == [pc |-> "idle", rows |-> NoRows, todo |-> {}, base |-> [d \in DimKeys |-> 0]]

ProjInit ==
  /\ pg = NoRows
  /\ seq = 0
  /\ redis = NoRows
  /\ ready = FALSE
  /\ barrier = None
  /\ owner = None
  /\ proc = [p \in Procs |-> Idle]
  /\ faults = 0
  /\ lost = FALSE

Facts == {d \in DimKeys : pg[d].version > 0}

MoveTo(p, pc) == proc' = [proc EXCEPT ![p].pc = pc]
Rest(p) == proc' = [proc EXCEPT ![p] = Idle]

\* Mutant: absolute values are written without comparing versions.
LastWriterWins(row, d) == IF row.version > 0 THEN [redis EXCEPT ![d] = row] ELSE redis

\* APPLY_PROJECTIONS_LUA for one row: an older version is refused.
Newer(row, d) ==
  IF row.version > 0 /\ redis[d].version <= row.version
  THEN [redis EXCEPT ![d] = row]
  ELSE redis

----------------------------------------------------------------------------
(* Ledger transactions *)

\* ensure_ready: a missing marker is trusted only if the day has no facts.
EnsureReady(p) ==
  /\ proc[p].pc = "idle"
  /\ barrier = None
  /\ MoveTo(p, IF ready THEN "write" ELSE IF Facts # {} THEN "claim" ELSE "publish")
  /\ UNCHANGED <<pg, seq, redis, ready, barrier, owner, faults, lost>>

\* PUBLISH_PROJECTION_READY_LUA without a token.
PublishEmpty(p) ==
  /\ proc[p].pc = "publish"
  /\ IF barrier = None
     THEN ready' = TRUE /\ MoveTo(p, "write")
     ELSE UNCHANGED ready /\ Rest(p)
  /\ UNCHANGED <<pg, seq, redis, barrier, owner, faults, lost>>

\* _change_projections in a ledger transaction that touches the dimensions D.
\* It is refused by a limit, or because a rebuild holds the lock.
Write(p) ==
  /\ proc[p].pc = "write"
  /\ \/ Rest(p) /\ UNCHANGED <<pg, seq>>
     \/ /\ owner = None
        /\ seq < MaxWrites
        /\ \E D \in SUBSET DimKeys \ {{}}, v \in Values :
             LET row == [value |-> v, version |-> seq + 1]
             IN  /\ pg' = [d \in DimKeys |-> IF d \in D THEN row ELSE pg[d]]
                 /\ proc' = [proc EXCEPT ![p].pc = "apply",
                                         ![p].rows = [d \in DimKeys |-> IF d \in D THEN row ELSE Absent]]
        /\ seq' = seq + 1
  /\ UNCHANGED <<redis, ready, barrier, owner, faults, lost>>

\* publish_projection and apply_release read current rows; they do not ask
\* whether the projection is ready.
ReadRows(p) ==
  /\ proc[p].pc = "idle"
  /\ \E D \in SUBSET Facts \ {{}} :
       proc' = [proc EXCEPT ![p].pc = "apply",
                            ![p].rows = [d \in DimKeys |-> IF d \in D THEN pg[d] ELSE Absent]]
  /\ UNCHANGED <<pg, seq, redis, ready, barrier, owner, faults, lost>>

\* _apply_rows, one batch after the other.
Apply(p) ==
  /\ proc[p].pc = "apply"
  /\ \E d \in DimKeys :
       LET left == [proc[p].rows EXCEPT ![d] = Absent]
       IN  /\ proc[p].rows[d].version > 0
           /\ redis' = Newer(proc[p].rows[d], d)
           /\ proc' = [proc EXCEPT ![p] = IF left = NoRows THEN Idle
                                          ELSE [@ EXCEPT !.rows = left]]
  /\ UNCHANGED <<pg, seq, ready, barrier, owner, faults, lost>>

ApplyRowsFailed(p) ==
  /\ proc[p].pc = "apply"
  /\ faults < MaxFaults
  /\ faults' = faults + 1
  /\ lost' = TRUE
  /\ Rest(p)
  /\ UNCHANGED <<pg, seq, redis, ready, barrier, owner>>

----------------------------------------------------------------------------
(* Rebuild *)

\* _claim_rebuild_lock: the database lock, then the barrier in Redis.  Asked for
\* by ensure_ready, by reconcile_usage_facts, and by the CLI.
Claim(p) ==
  /\ proc[p].pc \in {"idle", "claim"}
  /\ IF owner = None
     THEN /\ owner' = p
          /\ barrier' = p
          /\ ready' = FALSE
          /\ proc' = [proc EXCEPT ![p] = [pc |-> "page", rows |-> NoRows, todo |-> Facts,
                                          base |-> [d \in DimKeys |-> pg[d].version]]]
     ELSE /\ proc[p].pc = "claim"
          /\ Rest(p)
          /\ UNCHANGED <<owner, barrier, ready>>
  /\ UNCHANGED <<pg, seq, redis, faults, lost>>

\* Mutant: the session lock goes back to the pool with its connection unless the
\* rebuild still had its barrier.
UnlockOnSuccess(p) == owner' = IF owner = p /\ barrier = p THEN None ELSE owner

\* The end of rebuild, whatever happened: the session lock is given back.
Unlock(p) == owner' = IF owner = p THEN None ELSE owner

\* _projection_pages reads over the connection that holds the lock.
ReadPage(p) ==
  /\ proc[p].pc = "page"
  /\ owner = p
  /\ \E d \in proc[p].todo :
       proc' = [proc EXCEPT ![p] = [@ EXCEPT !.pc = "renew",
                                             !.todo = proc[p].todo \ {d},
                                             !.rows = [NoRows EXCEPT ![d] = pg[d]]]]
  /\ UNCHANGED <<pg, seq, redis, ready, barrier, owner, faults, lost>>

Renew(p) ==
  /\ proc[p].pc = "renew"
  /\ IF barrier = p
     THEN MoveTo(p, "rebuild_apply") /\ UNCHANGED owner
     ELSE Rest(p) /\ Unlock(p)
  /\ UNCHANGED <<pg, seq, redis, ready, barrier, faults, lost>>

RebuildApply(p) ==
  /\ proc[p].pc = "rebuild_apply"
  /\ \E d \in DimKeys :
       /\ proc[p].rows[d].version > 0
       /\ redis' = Newer(proc[p].rows[d], d)
  /\ proc' = [proc EXCEPT ![p].pc = "page", ![p].rows = NoRows]
  /\ UNCHANGED <<pg, seq, ready, barrier, owner, faults, lost>>

\* Mutant: the marker is set without comparing the token.
PublishAlways(p) ==
  /\ proc[p].pc = "page"
  /\ proc[p].todo = {}
  /\ ready' = TRUE
  /\ barrier' = None
  /\ Unlock(p)
  /\ Rest(p)
  /\ UNCHANGED <<pg, seq, redis, faults, lost>>

\* PUBLISH_PROJECTION_READY_LUA with the token, after the last page.
Publish(p) ==
  /\ proc[p].pc = "page"
  /\ proc[p].todo = {}
  /\ IF barrier = p
     THEN ready' = TRUE /\ barrier' = None
     ELSE UNCHANGED <<ready, barrier>>
  /\ Unlock(p)
  /\ Rest(p)
  /\ UNCHANGED <<pg, seq, redis, faults, lost>>

\* A page, the audit entry or a Redis call fails: the barrier stays behind.
RebuildFailed(p) ==
  /\ proc[p].pc \in Rebuilding
  /\ faults < MaxFaults
  /\ faults' = faults + 1
  /\ Unlock(p)
  /\ Rest(p)
  /\ UNCHANGED <<pg, seq, redis, ready, barrier, lost>>

----------------------------------------------------------------------------
(* The environment *)

\* The owner's connection drops, and PostgreSQL gives the lock away.  The next
\* page then fails; after the last page nobody notices.
LoseLock(p) ==
  /\ owner = p
  /\ faults < MaxFaults
  /\ faults' = faults + 1
  /\ owner' = None
  /\ UNCHANGED <<pg, seq, redis, ready, barrier, proc, lost>>

\* After a lost lock the page loop ends on its dead connection.
DeadPage(p) ==
  /\ proc[p].pc = "page"
  /\ proc[p].todo # {}
  /\ owner # p
  /\ Rest(p)
  /\ UNCHANGED <<pg, seq, redis, ready, barrier, owner, faults, lost>>

\* PROJECTION_REBUILD_TTL_S without a renewal: a rebuild that is still running
\* must have stalled.
BarrierExpires ==
  /\ barrier # None
  /\ IF proc[barrier].pc \in Rebuilding
     THEN faults < MaxFaults /\ faults' = faults + 1
     ELSE UNCHANGED faults
  /\ barrier' = None
  /\ UNCHANGED <<pg, seq, redis, ready, owner, proc, lost>>

Flush ==
  /\ faults < MaxFaults
  /\ faults' = faults + 1
  /\ redis' = NoRows
  /\ ready' = FALSE
  /\ barrier' = None
  /\ lost' = TRUE
  /\ UNCHANGED <<pg, seq, owner, proc>>

Ledger(p) ==
  \/ EnsureReady(p) \/ PublishEmpty(p) \/ Write(p) \/ ReadRows(p)
  \/ Apply(p) \/ ApplyRowsFailed(p)

Rebuild(p) ==
  \/ Claim(p) \/ ReadPage(p) \/ Renew(p) \/ RebuildApply(p) \/ Publish(p)
  \/ RebuildFailed(p) \/ LoseLock(p) \/ DeadPage(p)

ProjNext ==
  \/ BarrierExpires
  \/ Flush
  \/ \E p \in Procs \ {Reconciler} : Ledger(p)
  \/ \E p \in Procs : Rebuild(p)

ProjSpec == ProjInit /\ [][ProjNext]_projVars

\* measure_drift compares values; a missing key counts as zero.
Drift == \E d \in Facts : redis[d].value # pg[d].value

\* Beat starts the reconcile task again and again, and it rebuilds what drifted;
\* a rebuild that was started goes on until it publishes or fails.
Fairness ==
  /\ WF_projVars(Drift /\ Claim(Reconciler))
  /\ \A p \in Procs : WF_projVars(ReadPage(p) \/ Renew(p) \/ RebuildApply(p)
                                   \/ Publish(p) \/ DeadPage(p))

ProjFairSpec == ProjSpec /\ Fairness

----------------------------------------------------------------------------
(* Properties *)

\* As long as no call failed and Redis was not flushed, the projection is exact
\* whenever no process has rows in hand: writes overtaken between their commit
\* and their Lua script never bring an old value back (APPLY_PROJECTIONS_LUA).
QuietMeansExact ==
  ~lost /\ (\A p \in Procs : proc[p].rows = NoRows) => redis = pg

\* A rebuild opens the projection only if every fact that was there when it took
\* the lock is in Redis, at that version or a later one: pages lost to a flush, an
\* expired barrier, or a second rebuild are never counted as zero usage.
PublishCovers ==
  [][\A p \in Procs :
       proc[p].pc = "page" /\ ready' /\ ~ready /\ proc'[p].pc = "idle"
         => \A d \in DimKeys : redis[d].version >= proc[p].base[d]]_projVars

\* Once the ledger is quiet, the reconcile task removes the drift for good,
\* whatever crashed rebuilds, stale barriers and lost writes left behind.
Converges == <>[](\A d \in DimKeys : redis[d].value = pg[d].value)

=============================================================================
