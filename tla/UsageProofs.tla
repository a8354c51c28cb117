---------------------------- MODULE UsageProofs ----------------------------
(***************************************************************************)
(* Proofs about modules UsageLedger and UsageProjection, for any number of *)
(* requests, rows, keys, applications, phones and processes, any limits    *)
(* and any number of writes and faults.                                    *)
(*                                                                         *)
(* The ledger in PostgreSQL: the daily limits hold, the values they are    *)
(* decided on are the sums of the active entries, and a batch that may be  *)
(* sent keeps its charge.  Its projection in Redis: it is exact whenever   *)
(* nothing is under way and nothing was lost, and a rebuild that opens it  *)
(* left no fact out.                                                       *)
(***************************************************************************)
EXTENDS UsageLedger, UsageProjection, TLAPS

----------------------------------------------------------------------------
(* The projection *)

\* What a process is, as TypeOK says.
Process == [pc: ProjPcs, rows: [DimKeys -> Row], todo: SUBSET DimKeys, base: [DimKeys -> 0..MaxWrites]]

\* A row of d that is not newer than the table's, and is the table's if as new.
Known(row, d) ==
  row.version <= pg[d].version /\ (row.version = pg[d].version => row = pg[d])

\* The table has the newest of every row there is.
Versions ==
  \A d \in DimKeys :
    /\ pg[d].version <= seq
    /\ pg[d].version = 0 => pg[d] = Absent
    /\ Known(redis[d], d)
    /\ \A p \in Procs : Known(proc[p].rows[d], d)

\* What Redis does not have yet, somebody is bringing.
Brings(p, d) == proc[p].pc = "apply" /\ proc[p].rows[d] = pg[d]
Pending ==
  ~lost => \A d \in DimKeys : redis[d].version < pg[d].version => \E p \in Procs : Brings(p, d)

\* A rebuild that has its barrier has put into Redis what is neither in its hands
\* nor on a page it still has to read.
Covers(p, d) ==
  \/ d \in proc[p].todo
  \/ redis[d].version >= proc[p].base[d]
  \/ proc[p].pc \in {"renew", "rebuild_apply"} /\ proc[p].rows[d].version >= proc[p].base[d]
Covered(p) ==
  /\ proc[p].pc \in Rebuilding => \A d \in DimKeys : proc[p].base[d] <= pg[d].version
  /\ proc[p].pc \in Rebuilding /\ barrier = p => \A d \in DimKeys : Covers(p, d)
  /\ proc[p].pc \in {"renew", "rebuild_apply"} =>
       \A d, e \in DimKeys : proc[p].rows[d].version > 0 /\ proc[p].rows[e].version > 0 => d = e

\* The inductive invariant.
ProjInv ==
  /\ ProjTypeOK
  /\ Versions
  /\ Pending
  /\ \A p \in Procs : Covered(p)

\* The parts of the invariant that most steps need.
LEMMA ProjTypes ==
  ASSUME ProjInv
  PROVE  /\ pg \in [DimKeys -> Row] /\ redis \in [DimKeys -> Row] /\ proc \in [Procs -> Process]
         /\ seq \in 0..MaxWrites /\ MaxWrites \in Nat /\ None \notin Procs
         /\ Absent \in Row /\ Absent.version = 0 /\ NoRows \in [DimKeys -> Row]
         /\ \A d \in DimKeys : /\ NoRows[d] = Absent
                               /\ pg[d] \in Row /\ pg[d].version \in 0..MaxWrites
                               /\ redis[d] \in Row /\ redis[d].version \in 0..MaxWrites
                               /\ Known(redis[d], d) /\ Known(Absent, d)
         /\ \A p \in Procs :
              /\ proc[p] \in Process /\ Covered(p)
              /\ \A d \in DimKeys : /\ Known(proc[p].rows[d], d)
                                    /\ proc[p].rows[d] \in Row
                                    /\ proc[p].rows[d].version \in 0..MaxWrites
                                    /\ proc[p].base[d] \in 0..MaxWrites
<1>1. /\ pg \in [DimKeys -> Row] /\ redis \in [DimKeys -> Row] /\ proc \in [Procs -> Process]
      /\ seq \in 0..MaxWrites /\ MaxWrites \in Nat /\ None \notin Procs /\ 0 \in Values
  BY Zenon, UsageProjectionAssumption DEF ProjInv, ProjTypeOK, Process
<1>2. Absent \in Row /\ Absent.version = 0
  BY <1>1 DEF Absent, Row
<1>3. NoRows \in [DimKeys -> Row] /\ \A d \in DimKeys : NoRows[d] = Absent
  BY Zenon, <1>2 DEF NoRows
<1>4. ASSUME NEW x \in Row PROVE x.version \in 0..MaxWrites
  BY Zenon DEF Row
<1>5. ASSUME NEW d \in DimKeys
      PROVE  /\ pg[d] \in Row /\ pg[d].version \in 0..MaxWrites
             /\ redis[d] \in Row /\ redis[d].version \in 0..MaxWrites
             /\ Known(redis[d], d) /\ Known(Absent, d)
  <2>1. pg[d] \in Row /\ redis[d] \in Row
    BY Zenon, <1>1
  <2>2. pg[d].version \in 0..MaxWrites /\ redis[d].version \in 0..MaxWrites
    BY Zenon, <1>4, <2>1
  <2>3. Known(redis[d], d) /\ (pg[d].version = 0 => pg[d] = Absent)
    BY Zenon DEF ProjInv, Versions
  <2>4. Known(Absent, d)
    BY <1>1, <1>2, <2>2, <2>3 DEF Known
  <2> QED
    BY Zenon, <2>1, <2>2, <2>3, <2>4
<1>6. ASSUME NEW p \in Procs
      PROVE  /\ proc[p] \in Process /\ Covered(p)
             /\ \A d \in DimKeys : /\ Known(proc[p].rows[d], d)
                                   /\ proc[p].rows[d] \in Row
                                   /\ proc[p].rows[d].version \in 0..MaxWrites
                                   /\ proc[p].base[d] \in 0..MaxWrites
  <2>1. proc[p] \in Process
    BY Zenon, <1>1
  <2>2. proc[p].rows \in [DimKeys -> Row] /\ proc[p].base \in [DimKeys -> 0..MaxWrites]
    BY Zenon, <2>1 DEF Process
  <2>3. \A d \in DimKeys : proc[p].rows[d] \in Row /\ proc[p].base[d] \in 0..MaxWrites
    BY Zenon, <2>2
  <2>4. Covered(p) /\ \A d \in DimKeys : Known(proc[p].rows[d], d)
    BY Zenon DEF ProjInv, Versions
  <2> QED
    BY Zenon, <1>4, <2>1, <2>3, <2>4
<1> QED
  BY Zenon, <1>1, <1>2, <1>3, <1>5, <1>6

\* A step of one process that leaves the table alone.
LEMMA ProcStep ==
  ASSUME ProjInv, NEW p \in Procs, NEW row \in Process,
         proc' = [proc EXCEPT ![p] = row], UNCHANGED <<pg, seq>>,
         redis' \in [DimKeys -> Row],
         \A d \in DimKeys : /\ redis'[d].version >= redis[d].version
                            /\ Known(redis'[d], d) /\ Known(row.rows[d], d),
         ready' \in BOOLEAN, barrier' \in {barrier, p, None}, owner' \in Procs \cup {None},
         faults' \in 0..MaxFaults, lost' \in {lost, TRUE},
         \A d \in DimKeys : Brings(p, d) /\ redis'[d].version < pg[d].version /\ ~lost' =>
                              row.pc = "apply" /\ row.rows[d] = pg[d],
         Covered(p)'
  PROVE  ProjInv'
<1>1. /\ pg \in [DimKeys -> Row] /\ redis \in [DimKeys -> Row] /\ proc \in [Procs -> Process]
      /\ MaxWrites \in Nat /\ None \notin Procs
      /\ barrier \in Procs \cup {None} /\ lost \in BOOLEAN
  BY Zenon, ProjTypes DEF ProjInv, ProjTypeOK
<1>2. /\ proc' \in [Procs -> Process] /\ proc'[p] = row
      /\ \A q \in Procs : q # p => proc'[q] = proc[q]
  BY Zenon, <1>1
<1>3. ProjTypeOK'
  BY Zenon, <1>1, <1>2 DEF ProjInv, ProjTypeOK, Process
<1>4. Versions'
  <2> SUFFICES ASSUME NEW d \in DimKeys
               PROVE  /\ pg[d].version <= seq /\ (pg[d].version = 0 => pg[d] = Absent)
                      /\ Known(redis'[d], d)
                      /\ \A q \in Procs : Known(proc'[q].rows[d], d)
    BY DEF Versions, Known
  <2>1. /\ pg[d].version <= seq /\ (pg[d].version = 0 => pg[d] = Absent)
        /\ \A q \in Procs : Known(proc[q].rows[d], d)
    BY Zenon DEF ProjInv, Versions
  <2> QED
    BY Zenon, <1>2, <2>1
<1>5. Pending'
  <2> SUFFICES ASSUME ~lost', NEW d \in DimKeys, redis'[d].version < pg[d].version
               PROVE  \E q \in Procs : Brings(q, d)'
    BY Zenon DEF Pending
  <2>1. redis[d].version < pg[d].version
    <3>1. redis'[d] \in Row /\ redis'[d].version \in 0..MaxWrites
      BY Zenon DEF Row
    <3> QED
      BY <1>1, <3>1, ProjTypes
  <2>2. ~lost
    BY Zenon, <1>1
  <2>3. PICK q \in Procs : Brings(q, d)
    BY Zenon, <2>1, <2>2 DEF ProjInv, Pending
  <2>4. CASE q = p
    BY Zenon, <1>2, <2>3, <2>4 DEF Brings
  <2>5. CASE q # p
    BY Zenon, <1>2, <2>3, <2>5 DEF Brings
  <2> QED
    BY Zenon, <2>4, <2>5
<1>6. ASSUME NEW q \in Procs, q # p PROVE Covered(q)'
  <2>1. Covered(q) /\ proc'[q] = proc[q]
    BY Zenon, <1>2, <1>6, ProjTypes
  <2>2. barrier' = q => barrier = q
    BY Zenon, <1>1, <1>6
  <2>3. ASSUME NEW d \in DimKeys, Covers(q, d) PROVE Covers(q, d)'
    <3>1. redis'[d] \in Row /\ redis'[d].version \in 0..MaxWrites
      BY Zenon DEF Row
    <3>2. redis[d].version \in 0..MaxWrites /\ proc[q].base[d] \in 0..MaxWrites
      BY Zenon, ProjTypes
    <3>3. redis[d].version >= proc[q].base[d] => redis'[d].version >= proc[q].base[d]
      BY <1>1, <3>1, <3>2
    <3> QED
      BY Zenon, <2>1, <2>3, <3>3 DEF Covers
  <2> QED
    BY Zenon, <2>1, <2>2, <2>3 DEF Covered
<1> QED
  BY Zenon, <1>3, <1>4, <1>5, <1>6 DEF ProjInv

\* An idle process has nothing in hand.
LEMMA IdleRow ==
  ASSUME ProjInv
  PROVE  /\ Idle \in Process /\ Idle.pc = "idle" /\ Idle.rows = NoRows
         /\ \A d \in DimKeys : Known(Idle.rows[d], d)
<1>1. NoRows \in [DimKeys -> Row] /\ MaxWrites \in Nat
  BY Zenon, ProjTypes
<1>2. [d \in DimKeys |-> 0] \in [DimKeys -> 0..MaxWrites]
  BY <1>1
<1>3. Idle \in Process /\ Idle.pc = "idle" /\ Idle.rows = NoRows
  BY Zenon, <1>1, <1>2 DEF Idle, Process, ProjPcs
<1> QED
  BY Zenon, <1>3, ProjTypes

\* Moving a process keeps what it has in hand.
LEMMA GotoRow ==
  ASSUME ProjInv, NEW p \in Procs, NEW pc \in ProjPcs, MoveTo(p, pc)
  PROVE  \E row \in Process :
           /\ proc' = [proc EXCEPT ![p] = row]
           /\ row.pc = pc /\ row.rows = proc[p].rows /\ row.todo = proc[p].todo
           /\ row.base = proc[p].base
<1> DEFINE row == [proc[p] EXCEPT !.pc = pc]
<1>1. proc \in [Procs -> Process] /\ proc[p] \in Process
  BY Zenon, ProjTypes
<1>2. /\ row \in Process /\ row.pc = pc /\ row.rows = proc[p].rows /\ row.todo = proc[p].todo
      /\ row.base = proc[p].base
  BY Zenon, <1>1 DEF Process
<1>3. proc' = [proc EXCEPT ![p] = row]
  BY Zenon, <1>1 DEF MoveTo
<1> QED
  BY Zenon, <1>2, <1>3

\* A process takes up, or gives up, something that is no rebuild.
LEMMA OtherStep ==
  ASSUME ProjInv, NEW p \in Procs, NEW row \in Process, row.pc \notin Rebuilding,
         proc' = [proc EXCEPT ![p] = row], UNCHANGED <<pg, seq, redis>>,
         \A d \in DimKeys : Known(row.rows[d], d),
         ready' \in BOOLEAN, barrier' \in {barrier, p, None}, owner' \in Procs \cup {None},
         faults' \in 0..MaxFaults, lost' \in {lost, TRUE},
         proc[p].pc # "apply" \/ lost'
  PROVE  ProjInv'
<1>1. redis' \in [DimKeys -> Row] /\ proc \in [Procs -> Process]
  BY Zenon, ProjTypes
<1>2. \A d \in DimKeys : /\ redis'[d].version >= redis[d].version
                         /\ Known(redis'[d], d)
  BY ProjTypes
<1>3. \A d \in DimKeys : Brings(p, d) /\ redis'[d].version < pg[d].version /\ ~lost' =>
                           row.pc = "apply" /\ row.rows[d] = pg[d]
  BY Zenon DEF Brings
<1>4. proc'[p] = row
  BY Zenon, <1>1
<1>5. Covered(p)'
  BY Zenon, <1>4 DEF Covered, Rebuilding
<1> QED
  BY Zenon, <1>1, <1>2, <1>3, <1>5, ProcStep

\* APPLY_PROJECTIONS_LUA: Redis only gets newer, and knows what it was given.
LEMMA NewerRow ==
  ASSUME ProjInv, NEW d \in DimKeys, NEW x \in Row, x.version > 0, Known(x, d),
         redis' = Newer(x, d)
  PROVE  /\ redis' \in [DimKeys -> Row] /\ redis'[d].version >= x.version
         /\ \A e \in DimKeys : /\ redis'[e].version >= redis[e].version
                               /\ Known(redis'[e], e)
<1>1. redis \in [DimKeys -> Row] /\ x.version \in 0..MaxWrites /\ MaxWrites \in Nat
  BY Zenon, ProjTypes DEF Row
<1>2. \A e \in DimKeys : redis[e].version \in 0..MaxWrites /\ Known(redis[e], e)
  BY Zenon, ProjTypes
<1>3. CASE redis[d].version <= x.version
  <2>1. redis' = [redis EXCEPT ![d] = x]
    BY Zenon, <1>3 DEF Newer
  <2>2. redis' \in [DimKeys -> Row] /\ redis'[d] = x /\ \A e \in DimKeys : e # d => redis'[e] = redis[e]
    BY Zenon, <1>1, <2>1
  <2>3. ASSUME NEW e \in DimKeys
        PROVE  redis'[e].version >= redis[e].version /\ Known(redis'[e], e)
    <3>1. CASE e = d
      BY Zenon, <1>1, <1>2, <1>3, <2>2, <3>1
    <3>2. CASE e # d
      BY <1>1, <1>2, <2>2, <3>2
    <3> QED
      BY Zenon, <3>1, <3>2
  <2> QED
    BY <1>1, <2>2, <2>3
<1>4. CASE ~(redis[d].version <= x.version)
  <2>1. redis' = redis
    BY Zenon, <1>4 DEF Newer
  <2>2. \A e \in DimKeys : redis'[e].version >= redis[e].version
    BY <1>1, <1>2, <2>1
  <2>3. redis[d].version \in 0..MaxWrites /\ redis[d].version >= x.version
    BY <1>1, <1>2, <1>4
  <2> QED
    BY Zenon, <1>1, <1>2, <2>1, <2>2, <2>3
<1> QED
  BY Zenon, <1>3, <1>4

\* The types of the scalars.
LEMMA Kinds ==
  ASSUME ProjInv
  PROVE  /\ ready \in BOOLEAN /\ owner \in Procs \cup {None} /\ faults \in 0..MaxFaults
         /\ lost \in BOOLEAN /\ barrier \in Procs \cup {None} /\ MaxFaults \in Nat
  BY Zenon, UsageProjectionAssumption DEF ProjInv, ProjTypeOK

\* ensure_ready finds the marker, a ledger without facts, or neither.
LEMMA EnsureReadyStep == ASSUME ProjInv, NEW p \in Procs, EnsureReady(p) PROVE ProjInv'
<1>1. /\ proc[p].pc = "idle" /\ \E pc \in {"write", "claim", "publish"} : MoveTo(p, pc)
      /\ UNCHANGED <<pg, seq, redis, ready, barrier, owner, faults, lost>>
  BY Zenon DEF EnsureReady
<1>2. PICK pc \in {"write", "claim", "publish"} : MoveTo(p, pc)
  BY Zenon, <1>1
<1>3. pc \in ProjPcs /\ pc \notin Rebuilding
  BY Zenon DEF ProjPcs, Rebuilding
<1>4. PICK row \in Process : /\ proc' = [proc EXCEPT ![p] = row]
                             /\ row.pc = pc /\ row.rows = proc[p].rows
  BY <1>2, <1>3, GotoRow
<1>5. \A d \in DimKeys : Known(row.rows[d], d)
  BY Zenon, <1>4, ProjTypes
<1> QED
  BY Zenon, <1>1, <1>3, <1>4, <1>5, Kinds, OtherStep

\* A process stops and drops what it has, which it was not bringing.
LEMMA RestStep ==
  ASSUME ProjInv, NEW p \in Procs, Rest(p), UNCHANGED <<pg, seq, redis>>,
         ready' \in BOOLEAN, barrier' \in {barrier, p, None}, owner' \in Procs \cup {None},
         faults' \in 0..MaxFaults, lost' \in {lost, TRUE},
         proc[p].pc # "apply" \/ lost'
  PROVE  ProjInv'
<1>1. proc' = [proc EXCEPT ![p] = Idle]
  BY Zenon DEF Rest
<1>2. /\ Idle \in Process /\ Idle.pc \notin Rebuilding
      /\ \A d \in DimKeys : Known(Idle.rows[d], d)
  BY Zenon, IdleRow DEF Rebuilding
<1> HIDE DEF Idle
<1> QED
  BY Zenon, <1>1, <1>2, OtherStep

\* The marker of an empty ledger.
LEMMA PublishEmptyStep == ASSUME ProjInv, NEW p \in Procs, PublishEmpty(p) PROVE ProjInv'
<1>1. /\ proc[p].pc = "publish" /\ UNCHANGED <<pg, seq, redis, barrier, owner, faults, lost>>
  BY Zenon DEF PublishEmpty
<1>2. CASE barrier = None
  <2>1. ready' = TRUE /\ MoveTo(p, "write")
    BY Zenon, <1>2 DEF PublishEmpty
  <2>2. "write" \in ProjPcs /\ "write" \notin Rebuilding
    BY Zenon DEF ProjPcs, Rebuilding
  <2>3. PICK row \in Process : /\ proc' = [proc EXCEPT ![p] = row]
                               /\ row.pc = "write" /\ row.rows = proc[p].rows
    BY <2>1, <2>2, GotoRow
  <2>4. \A d \in DimKeys : Known(row.rows[d], d)
    BY Zenon, <2>3, ProjTypes
  <2> QED
    BY Zenon, <1>1, <2>1, <2>2, <2>3, <2>4, Kinds, OtherStep
<1>3. CASE barrier # None
  <2>1. ready' = ready /\ Rest(p)
    BY Zenon, <1>3 DEF PublishEmpty
  <2> QED
    BY Zenon, <1>1, <2>1, Kinds, RestStep
<1> QED
  BY Zenon, <1>2, <1>3

\* Reading rows again after the commit reads the newest.
LEMMA ReadRowsStep == ASSUME ProjInv, NEW p \in Procs, ReadRows(p) PROVE ProjInv'
<1>1. /\ proc[p].pc = "idle"
      /\ UNCHANGED <<pg, seq, redis, ready, barrier, owner, faults, lost>>
  BY Zenon DEF ReadRows
<1>2. PICK D \in SUBSET Facts \ {{}} :
        proc' = [proc EXCEPT ![p].pc = "apply",
                             ![p].rows = [d \in DimKeys |-> IF d \in D THEN pg[d] ELSE Absent]]
  BY Zenon DEF ReadRows
<1> DEFINE rows == [d \in DimKeys |-> IF d \in D THEN pg[d] ELSE Absent]
           row == [proc[p] EXCEPT !.pc = "apply", !.rows = rows]
<1>3. proc \in [Procs -> Process] /\ proc[p] \in Process
  BY Zenon, ProjTypes
<1>4. rows \in [DimKeys -> Row] /\ \A d \in DimKeys : Known(rows[d], d)
  <2>1. ASSUME NEW d \in DimKeys
        PROVE  pg[d] \in Row /\ Absent \in Row /\ Known(pg[d], d) /\ Known(Absent, d)
    BY ProjTypes DEF Known
  <2> QED
    BY Zenon, <2>1
<1>5. proc' = [proc EXCEPT ![p] = row]
  BY Zenon, <1>2, <1>3
<1> HIDE DEF rows
<1>6. row \in Process /\ row.pc = "apply" /\ row.rows = rows
  BY Zenon, <1>3, <1>4 DEF Process, ProjPcs
<1> HIDE DEF row
<1>7. row.pc \notin Rebuilding /\ \A d \in DimKeys : Known(row.rows[d], d)
  BY Zenon, <1>4, <1>6 DEF Rebuilding
<1> QED
  BY Zenon, <1>1, <1>5, <1>6, <1>7, Kinds, OtherStep

\* A failed write is lost, and says so.
LEMMA ProjApplyFailedStep == ASSUME ProjInv, NEW p \in Procs, ApplyRowsFailed(p) PROVE ProjInv'
<1>1. /\ Rest(p) /\ lost' = TRUE /\ UNCHANGED <<pg, seq, redis, ready, barrier, owner>>
  BY Zenon DEF ApplyRowsFailed
<1>2. faults' \in 0..MaxFaults
  BY Kinds DEF ApplyRowsFailed
<1> QED
  BY Zenon, <1>1, <1>2, Kinds, RestStep

\* The Lua script: what the process brought is there, or something newer.
LEMMA ApplyStep == ASSUME ProjInv, NEW p \in Procs, Apply(p) PROVE ProjInv'
<1>1. proc[p].pc = "apply" /\ UNCHANGED <<pg, seq, ready, barrier, owner, faults, lost>>
  BY Zenon DEF Apply
<1>2. PICK d \in DimKeys :
        LET left == [proc[p].rows EXCEPT ![d] = Absent]
        IN  /\ proc[p].rows[d].version > 0
            /\ redis' = Newer(proc[p].rows[d], d)
            /\ proc' = [proc EXCEPT ![p] = IF left = NoRows THEN Idle
                                           ELSE [@ EXCEPT !.rows = left]]
  BY Zenon DEF Apply
<1> DEFINE left == [proc[p].rows EXCEPT ![d] = Absent]
           row == IF left = NoRows THEN Idle ELSE [proc[p] EXCEPT !.rows = left]
<1>3. /\ proc \in [Procs -> Process] /\ proc[p] \in Process
      /\ proc[p].rows[d] \in Row /\ Known(proc[p].rows[d], d)
      /\ Absent \in Row /\ Absent.version = 0 /\ MaxWrites \in Nat
      /\ proc[p].rows \in [DimKeys -> Row]
  BY Zenon, ProjTypes DEF Process
<1>4. proc' = [proc EXCEPT ![p] = row]
  BY Zenon, <1>2, <1>3
<1>5. /\ redis' \in [DimKeys -> Row] /\ redis'[d].version >= proc[p].rows[d].version
      /\ \A e \in DimKeys : redis'[e].version >= redis[e].version /\ Known(redis'[e], e)
  BY Zenon, <1>2, <1>3, NewerRow
<1>6. /\ left \in [DimKeys -> Row] /\ left[d] = Absent
      /\ \A e \in DimKeys : e # d => left[e] = proc[p].rows[e]
  BY Zenon, <1>3
<1> HIDE DEF left
<1>7. \A e \in DimKeys : Known(left[e], e)
  BY Zenon, <1>6, ProjTypes
<1>8. /\ row \in Process /\ row.pc \in {"idle", "apply"} /\ \A e \in DimKeys : Known(row.rows[e], e)
      /\ left # NoRows => row.pc = "apply" /\ row.rows = left
  <2>1. CASE left = NoRows
    <3>1. row = Idle
      BY Zenon, <2>1
    <3> QED
      BY Zenon, <2>1, <3>1, IdleRow
  <2>2. CASE left # NoRows
    <3>1. row = [proc[p] EXCEPT !.rows = left]
      BY Zenon, <2>2
    <3>2. row \in Process /\ row.pc = "apply" /\ row.rows = left
      BY Zenon, <1>1, <1>3, <1>6, <3>1 DEF Process
    <3> QED
      BY Zenon, <1>7, <3>2
  <2> QED
    BY Zenon, <2>1, <2>2
<1> HIDE DEF row
<1>9. ASSUME NEW e \in DimKeys, Brings(p, e), redis'[e].version < pg[e].version
      PROVE  row.pc = "apply" /\ row.rows[e] = pg[e]
  <2>1. proc[p].rows[e] = pg[e]
    BY Zenon, <1>9 DEF Brings
  <2>2. pg[e].version \in 0..MaxWrites /\ redis'[e].version \in 0..MaxWrites
    BY Zenon, <1>5, ProjTypes DEF Row
  <2>3. e # d /\ pg[e].version > 0
    <3>1. e = d => redis'[e].version >= pg[e].version
      BY Zenon, <1>5, <2>1
    <3> QED
      BY <1>3, <1>9, <2>2, <3>1
  <2>4. left[e] = pg[e] /\ pg[e].version > 0
    BY Zenon, <1>6, <2>1, <2>3
  <2>5. left # NoRows
    BY <1>3, <2>4, ProjTypes
  <2> QED
    BY Zenon, <1>8, <2>4, <2>5
<1>10. Covered(p)'
  <2>1. proc'[p] = row
    BY Zenon, <1>3, <1>4
  <2> QED
    BY Zenon, <1>8, <2>1 DEF Covered, Rebuilding
<1> QED
  BY Zenon, <1>1, <1>4, <1>5, <1>8, <1>9, <1>10, Kinds, ProcStep

\* The only step that changes the table gives the rows a version nobody has.
LEMMA WriteStep == ASSUME ProjInv, NEW p \in Procs, Write(p) PROVE ProjInv'
<1>1. proc[p].pc = "write" /\ UNCHANGED <<redis, ready, barrier, owner, faults, lost>>
  BY Zenon DEF Write
<1>2. CASE Rest(p) /\ UNCHANGED <<pg, seq>>
  BY Zenon, <1>1, <1>2, Kinds, RestStep
<1>3. ASSUME NEW D \in SUBSET DimKeys \ {{}}, NEW v \in Values, seq < MaxWrites, seq' = seq + 1,
             LET row == [value |-> v, version |-> seq + 1]
             IN  /\ pg' = [d \in DimKeys |-> IF d \in D THEN row ELSE pg[d]]
                 /\ proc' = [proc EXCEPT ![p].pc = "apply",
                                         ![p].rows = [d \in DimKeys |->
                                           IF d \in D THEN row ELSE Absent]]
      PROVE  ProjInv'
  <2> DEFINE row == [value |-> v, version |-> seq + 1]
             rows == [d \in DimKeys |-> IF d \in D THEN row ELSE Absent]
             mine == [proc[p] EXCEPT !.pc = "apply", !.rows = rows]
  <2>1. /\ pg \in [DimKeys -> Row] /\ proc \in [Procs -> Process] /\ proc[p] \in Process
        /\ seq \in 0..MaxWrites /\ MaxWrites \in Nat /\ Absent \in Row /\ Absent.version = 0
    BY Zenon, ProjTypes
  <2>2. row \in Row /\ row.version = seq + 1
    BY <1>3, <2>1 DEF Row
  <2>3. seq' \in 0..MaxWrites /\ seq' = seq + 1
    BY <1>3, <2>1
  <2>4. proc' = [proc EXCEPT ![p] = mine]
    BY Zenon, <1>3, <2>1
  <2>5. \A d \in DimKeys : /\ d \in D => pg'[d] = row /\ rows[d] = row
                           /\ d \notin D => pg'[d] = pg[d] /\ rows[d] = Absent
    BY Zenon, <1>3
  <2> HIDE DEF row
  <2>6. pg' \in [DimKeys -> Row] /\ rows \in [DimKeys -> Row]
    BY Zenon, <1>3, <2>1, <2>2 DEF row
  <2> HIDE DEF rows
  <2>7. mine \in Process /\ mine.pc = "apply" /\ mine.rows = rows
    BY Zenon, <2>1, <2>6 DEF Process, ProjPcs
  <2> HIDE DEF mine
  <2>8. /\ proc' \in [Procs -> Process] /\ proc'[p] = mine
        /\ \A q \in Procs : q # p => proc'[q] = proc[q]
    BY Zenon, <2>1, <2>4, <2>7
  <2>9. ProjTypeOK'
    BY Zenon, <1>1, <2>3, <2>6, <2>8 DEF ProjInv, ProjTypeOK, Process
  <2>10. ASSUME NEW d \in DimKeys
         PROVE  /\ pg'[d].version <= seq' /\ pg'[d].version >= pg[d].version
                /\ pg'[d].version = 0 => pg'[d] = Absent
    <3>1. /\ pg[d].version <= seq /\ (pg[d].version = 0 => pg[d] = Absent)
          /\ pg[d].version \in 0..MaxWrites
      BY Zenon, ProjTypes DEF ProjInv, Versions
    <3>2. CASE d \in D
      <4>1. pg'[d].version = seq + 1
        BY Zenon, <2>2, <2>5, <3>2
      <4> QED
        BY <2>1, <2>3, <3>1, <4>1
    <3>3. CASE d \notin D
      <4>1. pg'[d] = pg[d]
        BY Zenon, <2>5, <3>3
      <4> QED
        BY <2>1, <2>3, <3>1, <4>1
    <3> QED
      BY Zenon, <3>2, <3>3
  <2>11. ASSUME NEW d \in DimKeys, NEW x \in Row, Known(x, d)
         PROVE  x.version <= pg'[d].version /\ (x.version = pg'[d].version => x = pg'[d])
    <3>1. pg[d].version <= seq /\ x.version \in 0..MaxWrites /\ pg[d].version \in 0..MaxWrites
      BY Zenon, ProjTypes DEF ProjInv, Versions, Row
    <3>2. CASE d \in D
      <4>1. pg'[d].version = seq + 1
        BY Zenon, <2>2, <2>5, <3>2
      <4>2. x.version <= pg[d].version
        BY Zenon, <2>11 DEF Known
      <4> QED
        BY <2>1, <3>1, <4>1, <4>2
    <3>3. CASE d \notin D
      BY Zenon, <2>5, <2>11, <3>3 DEF Known
    <3> QED
      BY Zenon, <3>2, <3>3
  <2>12. ASSUME NEW d \in DimKeys
         PROVE  Known(redis[d], d)' /\ \A q \in Procs : Known(proc[q].rows[d], d)'
    <3>1. Known(redis[d], d)'
      BY Zenon, <1>1, <2>11, ProjTypes DEF Known
    <3>2. ASSUME NEW q \in Procs, q # p PROVE Known(proc[q].rows[d], d)'
      <4>1. proc[q].rows[d] \in Row /\ Known(proc[q].rows[d], d) /\ proc'[q] = proc[q]
        BY Zenon, <2>8, <3>2, ProjTypes
      <4> QED
        BY Zenon, <2>11, <4>1 DEF Known
    <3>3. Known(proc[p].rows[d], d)'
      <4>1. /\ rows[d].version <= pg'[d].version
            /\ rows[d].version = pg'[d].version => rows[d] = pg'[d]
        <5>1. CASE d \in D
          <6>1. rows[d] = row /\ pg'[d] = row /\ row.version \in 0..MaxWrites
            BY Zenon, <2>2, <2>5, <5>1 DEF Row
          <6> QED
            BY <2>1, <6>1
        <5>2. CASE d \notin D
          <6>1. rows[d] = Absent /\ Known(Absent, d)
            BY Zenon, <2>5, <5>2, ProjTypes
          <6> QED
            BY Zenon, <2>1, <2>11, <6>1
        <5> QED
          BY Zenon, <5>1, <5>2
      <4> QED
        BY Zenon, <2>7, <2>8, <4>1 DEF Known
    <3> QED
      BY Zenon, <3>1, <3>2, <3>3
  <2>13. Versions'
    BY Zenon, <2>10, <2>12 DEF Versions
  <2>14. Pending'
    <3> SUFFICES ASSUME ~lost', NEW d \in DimKeys, redis'[d].version < pg'[d].version
                 PROVE  \E q \in Procs : Brings(q, d)'
      BY Zenon DEF Pending
    <3>1. CASE d \in D
      BY Zenon, <2>5, <2>7, <2>8, <3>1 DEF Brings
    <3>2. CASE d \notin D
      <4>1. PICK q \in Procs : Brings(q, d)
        BY Zenon, <1>1, <2>5, <3>2 DEF ProjInv, Pending
      <4>2. q # p
        BY Zenon, <1>1, <4>1 DEF Brings
      <4> QED
        BY Zenon, <2>5, <2>8, <3>2, <4>1, <4>2 DEF Brings
    <3> QED
      BY Zenon, <3>1, <3>2
  <2>15. ASSUME NEW q \in Procs PROVE Covered(q)'
    <3>1. CASE q = p
      BY Zenon, <2>7, <2>8, <3>1 DEF Covered, Rebuilding
    <3>2. CASE q # p
      <4>1. Covered(q) /\ proc'[q] = proc[q]
        BY Zenon, <2>8, <3>2, ProjTypes
      <4>2. \A d \in DimKeys : Covers(q, d) => Covers(q, d)'
        BY Zenon, <1>1, <4>1 DEF Covers
      <4>3. \A d \in DimKeys : proc[q].base[d] <= pg[d].version => proc[q].base[d] <= pg'[d].version
        <5>1. ASSUME NEW d \in DimKeys, proc[q].base[d] <= pg[d].version
              PROVE  proc[q].base[d] <= pg'[d].version
          <6>1. /\ proc[q].base[d] \in 0..MaxWrites /\ pg[d].version \in 0..MaxWrites
                /\ pg'[d].version \in 0..MaxWrites
            BY Zenon, <2>6, ProjTypes DEF Row
          <6>2. pg'[d].version >= pg[d].version
            BY Zenon, <2>10
          <6> QED
            BY <2>1, <5>1, <6>1, <6>2
        <5> QED
          BY Zenon, <5>1
      <4> QED
        BY Zenon, <1>1, <4>1, <4>2, <4>3 DEF Covered
    <3> QED
      BY Zenon, <3>1, <3>2
  <2> QED
    BY Zenon, <2>9, <2>13, <2>14, <2>15 DEF ProjInv
<1> QED
  BY Zenon, <1>2, <1>3 DEF Write

\* The rebuild starts: every fact is on a page still to be read.
LEMMA ClaimStep == ASSUME ProjInv, NEW p \in Procs, Claim(p) PROVE ProjInv'
<1>1. proc[p].pc # "apply" /\ UNCHANGED <<pg, seq, redis, faults, lost>>
  BY Zenon DEF Claim
<1>2. CASE owner = None
  <2> DEFINE row == [pc |-> "page", rows |-> NoRows, todo |-> Facts,
                     base |-> [d \in DimKeys |-> pg[d].version]]
  <2>1. owner' = p /\ barrier' = p /\ ready' = FALSE /\ proc' = [proc EXCEPT ![p] = row]
    BY Zenon, <1>2 DEF Claim
  <2>2. /\ proc \in [Procs -> Process] /\ NoRows \in [DimKeys -> Row] /\ MaxWrites \in Nat
        /\ redis' \in [DimKeys -> Row]
    BY Zenon, <1>1, ProjTypes
  <2>3. [d \in DimKeys |-> pg[d].version] \in [DimKeys -> 0..MaxWrites]
    BY Zenon, ProjTypes
  <2>4. Facts \in SUBSET DimKeys
    BY Zenon DEF Facts
  <2>5. /\ row \in Process /\ row.pc = "page" /\ row.rows = NoRows /\ row.todo = Facts
        /\ \A d \in DimKeys : row.base[d] = pg[d].version
    BY Zenon, <2>2, <2>3, <2>4 DEF Process, ProjPcs, Rebuilding
  <2> HIDE DEF row
  <2>6. proc'[p] = row
    BY Zenon, <2>1, <2>2
  <2>7. \A d \in DimKeys : /\ redis'[d].version >= redis[d].version
                           /\ Known(redis'[d], d) /\ Known(row.rows[d], d)
    BY <1>1, <2>5, ProjTypes
  <2>8. Covered(p)'
    <3>1. ASSUME NEW d \in DimKeys PROVE Covers(p, d)'
      <4>1. pg[d].version \in 0..MaxWrites /\ redis[d].version \in 0..MaxWrites
        BY Zenon, ProjTypes
      <4>2. CASE d \in Facts
        BY Zenon, <2>5, <2>6, <4>2 DEF Covers
      <4>3. CASE d \notin Facts
        <5>1. pg[d].version = 0
          <6>1. ~(pg[d].version > 0)
            BY Zenon, <4>3 DEF Facts
          <6> QED
            BY <2>2, <4>1, <6>1
        <5>2. redis'[d].version >= proc'[p].base[d]
          <6>1. proc'[p].base[d] = 0 /\ redis'[d] = redis[d]
            BY Zenon, <1>1, <2>5, <2>6, <5>1
          <6> QED
            BY <2>2, <4>1, <6>1
        <5> QED
          BY Zenon, <5>2 DEF Covers
      <4> QED
        BY Zenon, <4>2, <4>3
    <3>2. ASSUME NEW d \in DimKeys PROVE proc'[p].base[d] <= pg'[d].version
      <4>1. /\ proc'[p].base[d] = pg[d].version /\ pg' = pg
            /\ pg[d].version \in 0..MaxWrites
        BY Zenon, <1>1, <2>5, <2>6, ProjTypes
      <4> QED
        BY <2>2, <4>1
    <3> QED
      BY Zenon, <2>5, <2>6, <3>1, <3>2 DEF Covered
  <2>9. \A d \in DimKeys : ~Brings(p, d)
    BY Zenon, <1>1 DEF Brings
  <2> QED
    BY Zenon, <1>1, <2>1, <2>2, <2>5, <2>7, <2>8, <2>9, Kinds, ProcStep
<1>3. CASE owner # None
  <2>1. Rest(p) /\ UNCHANGED <<owner, barrier, ready>>
    BY Zenon, <1>3 DEF Claim
  <2> QED
    BY Zenon, <1>1, <2>1, Kinds, RestStep
<1> QED
  BY Zenon, <1>2, <1>3

\* A page moves from the pages to do into the hands of the rebuild.
LEMMA ReadPageStep == ASSUME ProjInv, NEW p \in Procs, ReadPage(p) PROVE ProjInv'
<1>1. /\ proc[p].pc = "page"
      /\ UNCHANGED <<pg, seq, redis, ready, barrier, owner, faults, lost>>
  BY Zenon DEF ReadPage
<1>2. PICK d \in proc[p].todo :
        proc' = [proc EXCEPT ![p] = [proc[p] EXCEPT !.pc = "renew",
                                                    !.todo = proc[p].todo \ {d},
                                                    !.rows = [NoRows EXCEPT ![d] = pg[d]]]]
  BY Zenon DEF ReadPage
<1> DEFINE rows == [NoRows EXCEPT ![d] = pg[d]]
           row == [proc[p] EXCEPT !.pc = "renew", !.todo = proc[p].todo \ {d}, !.rows = rows]
<1>3. /\ proc \in [Procs -> Process] /\ proc[p] \in Process /\ NoRows \in [DimKeys -> Row]
      /\ redis' \in [DimKeys -> Row] /\ Absent.version = 0 /\ MaxWrites \in Nat /\ Covered(p)
  BY Zenon, <1>1, ProjTypes
<1>4. d \in DimKeys
  BY Zenon, <1>2, <1>3 DEF Process
<1>5. /\ rows \in [DimKeys -> Row] /\ rows[d] = pg[d]
      /\ \A e \in DimKeys : e # d => rows[e] = Absent
  BY Zenon, <1>3, <1>4, ProjTypes
<1>6. proc' = [proc EXCEPT ![p] = row]
  BY Zenon, <1>2
<1> HIDE DEF rows
<1>7. /\ row \in Process /\ row.pc = "renew" /\ row.rows = rows
      /\ row.todo = proc[p].todo \ {d} /\ row.base = proc[p].base
  BY Zenon, <1>3, <1>5 DEF Process, ProjPcs, Rebuilding
<1> HIDE DEF row
<1>8. proc'[p] = row
  BY Zenon, <1>3, <1>6
<1>9. \A e \in DimKeys : /\ redis'[e].version >= redis[e].version
                         /\ Known(redis'[e], e) /\ Known(row.rows[e], e)
  <2>1. Known(pg[d], d)
    BY <1>4, ProjTypes DEF Known
  <2>2. ASSUME NEW e \in DimKeys PROVE redis'[e].version >= redis[e].version
    <3>1. redis' = redis /\ redis[e].version \in 0..MaxWrites
      BY Zenon, <1>1, ProjTypes
    <3> QED
      BY <1>3, <3>1
  <2>3. \A e \in DimKeys : Known(redis'[e], e)
    BY Zenon, <1>1, ProjTypes
  <2>4. \A e \in DimKeys : Known(row.rows[e], e)
    BY Zenon, <1>5, <1>7, <2>1, ProjTypes
  <2> QED
    BY Zenon, <2>2, <2>3, <2>4
<1>10. \A e \in DimKeys : ~Brings(p, e)
  BY Zenon, <1>1 DEF Brings
<1>11. Covered(p)'
  <2>1. \A e \in DimKeys : proc[p].base[e] <= pg[e].version
    BY Zenon, <1>1, <1>3 DEF Covered, Rebuilding
  <2>2. ASSUME barrier = p, NEW e \in DimKeys PROVE Covers(p, e)'
    <3>1. Covers(p, e)
      BY Zenon, <1>1, <1>3, <2>2 DEF Covered, Rebuilding
    <3>2. CASE e = d
      <4>1. row.rows[e].version >= row.base[e]
        BY Zenon, <1>5, <1>7, <2>1, <3>2, ProjTypes
      <4> QED
        BY Zenon, <1>7, <1>8, <4>1 DEF Covers
    <3>3. CASE e # d
      BY Zenon, <1>1, <1>7, <1>8, <3>1, <3>3 DEF Covers
    <3> QED
      BY Zenon, <3>2, <3>3
  <2>3. \A e, f \in DimKeys : row.rows[e].version > 0 /\ row.rows[f].version > 0 => e = f
    <3>1. \A e \in DimKeys : row.rows[e].version > 0 => e = d
      BY <1>3, <1>5, <1>7
    <3> QED
      BY Zenon, <3>1
  <2> QED
    BY Zenon, <1>1, <1>7, <1>8, <2>1, <2>2, <2>3 DEF Covered
<1> QED
  BY Zenon, <1>1, <1>3, <1>6, <1>7, <1>9, <1>10, <1>11, Kinds, ProcStep

\* Unlocking keeps the type of the lock.
LEMMA Unlocked ==
  ASSUME ProjInv, NEW p \in Procs, Unlock(p)
  PROVE  owner' \in Procs \cup {None}
  BY Zenon, Kinds DEF Unlock

\* Renewing the barrier, or giving up.
LEMMA RenewStep == ASSUME ProjInv, NEW p \in Procs, Renew(p) PROVE ProjInv'
<1>1. proc[p].pc = "renew" /\ UNCHANGED <<pg, seq, redis, ready, barrier, faults, lost>>
  BY Zenon DEF Renew
<1>2. CASE barrier = p
  <2>1. MoveTo(p, "rebuild_apply") /\ UNCHANGED owner /\ "rebuild_apply" \in ProjPcs
    BY Zenon, <1>2 DEF Renew, ProjPcs, Rebuilding
  <2>2. PICK row \in Process :
          /\ proc' = [proc EXCEPT ![p] = row]
          /\ row.pc = "rebuild_apply" /\ row.rows = proc[p].rows /\ row.todo = proc[p].todo
          /\ row.base = proc[p].base
    BY Zenon, <2>1, GotoRow
  <2>3. /\ proc \in [Procs -> Process] /\ redis' \in [DimKeys -> Row] /\ Covered(p)
    BY Zenon, <1>1, ProjTypes
  <2>4. proc'[p] = row
    BY Zenon, <2>2, <2>3
  <2>5. \A d \in DimKeys : /\ redis'[d].version >= redis[d].version
                           /\ Known(redis'[d], d) /\ Known(row.rows[d], d)
    BY <1>1, <2>2, ProjTypes
  <2>6. \A d \in DimKeys : ~Brings(p, d)
    BY Zenon, <1>1 DEF Brings
  <2>7. \A d \in DimKeys : Covers(p, d) => Covers(p, d)'
    BY Zenon, <1>1, <2>2, <2>4 DEF Covers
  <2>8. Covered(p)'
    BY Zenon, <1>1, <2>2, <2>3, <2>4, <2>7 DEF Covered, Rebuilding
  <2> QED
    BY Zenon, <1>1, <2>1, <2>2, <2>3, <2>5, <2>6, <2>8, Kinds, ProcStep
<1>3. CASE barrier # p
  <2>1. Rest(p) /\ owner' \in Procs \cup {None}
    BY Zenon, <1>3, Unlocked DEF Renew
  <2> QED
    BY Zenon, <1>1, <2>1, Kinds, RestStep
<1> QED
  BY Zenon, <1>2, <1>3

\* A page moves from the hands of the rebuild into Redis.
LEMMA RebuildApplyStep == ASSUME ProjInv, NEW p \in Procs, RebuildApply(p) PROVE ProjInv'
<1> DEFINE row == [proc[p] EXCEPT !.pc = "page", !.rows = NoRows]
<1>1. /\ proc[p].pc = "rebuild_apply"
      /\ UNCHANGED <<pg, seq, ready, barrier, owner, faults, lost>>
  BY Zenon DEF RebuildApply
<1>2. PICK d \in DimKeys : proc[p].rows[d].version > 0 /\ redis' = Newer(proc[p].rows[d], d)
  BY Zenon DEF RebuildApply
<1>3. /\ proc \in [Procs -> Process] /\ proc[p] \in Process /\ NoRows \in [DimKeys -> Row]
      /\ MaxWrites \in Nat /\ Covered(p)
      /\ proc[p].rows[d] \in Row /\ Known(proc[p].rows[d], d)
  BY Zenon, ProjTypes
<1>4. proc' = [proc EXCEPT ![p] = row]
  BY Zenon, <1>3 DEF RebuildApply
<1>5. /\ row \in Process /\ row.pc = "page" /\ row.rows = NoRows
      /\ row.todo = proc[p].todo /\ row.base = proc[p].base
  BY Zenon, <1>3 DEF Process, ProjPcs, Rebuilding
<1> HIDE DEF row
<1>6. proc'[p] = row
  BY Zenon, <1>3, <1>4
<1>7. /\ redis' \in [DimKeys -> Row] /\ redis'[d].version >= proc[p].rows[d].version
      /\ \A e \in DimKeys : redis'[e].version >= redis[e].version /\ Known(redis'[e], e)
  BY Zenon, <1>2, <1>3, NewerRow
<1>8. \A e \in DimKeys : Known(row.rows[e], e)
  BY Zenon, <1>5, ProjTypes
<1>9. \A e \in DimKeys : ~Brings(p, e)
  BY Zenon, <1>1 DEF Brings
<1>10. Covered(p)'
  <2>1. \A e \in DimKeys : proc[p].base[e] <= pg[e].version
    BY Zenon, <1>1, <1>3 DEF Covered, Rebuilding
  <2>2. ASSUME barrier = p, NEW e \in DimKeys PROVE Covers(p, e)'
    <3>1. Covers(p, e)
      BY Zenon, <1>1, <1>3, <2>2 DEF Covered, Rebuilding
    <3>2. /\ redis[e].version \in 0..MaxWrites /\ redis'[e].version \in 0..MaxWrites
          /\ proc[p].base[e] \in 0..MaxWrites /\ proc[p].rows[e].version \in 0..MaxWrites
      BY Zenon, <1>7, ProjTypes DEF Row
    <3>3. CASE e \in proc[p].todo
      BY Zenon, <1>5, <1>6, <3>3 DEF Covers
    <3>4. CASE redis[e].version >= proc[p].base[e]
      <4>1. redis'[e].version >= proc[p].base[e]
        BY <1>3, <1>7, <3>2, <3>4
      <4> QED
        BY Zenon, <1>5, <1>6, <4>1 DEF Covers
    <3>5. CASE proc[p].rows[e].version >= proc[p].base[e]
      <4>1. CASE e = d
        <5>1. redis'[e].version >= proc[p].base[e]
          BY <1>3, <1>7, <3>2, <3>5, <4>1
        <5> QED
          BY Zenon, <1>5, <1>6, <5>1 DEF Covers
      <4>2. CASE e # d
        <5>1. ~(proc[p].rows[e].version > 0)
          BY Zenon, <1>1, <1>2, <1>3, <4>2 DEF Covered
        <5>2. redis'[e].version >= proc[p].base[e]
          BY <1>3, <3>2, <3>5, <5>1
        <5> QED
          BY Zenon, <1>5, <1>6, <5>2 DEF Covers
      <4> QED
        BY Zenon, <4>1, <4>2
    <3> QED
      BY Zenon, <3>1, <3>3, <3>4, <3>5 DEF Covers
  <2> QED
    BY Zenon, <1>1, <1>5, <1>6, <2>1, <2>2 DEF Covered
<1> QED
  BY Zenon, <1>1, <1>4, <1>5, <1>7, <1>8, <1>9, <1>10, Kinds, ProcStep

\* The ends of a rebuild.
LEMMA RebuildEndsStep ==
  ASSUME ProjInv, NEW p \in Procs, Publish(p) \/ RebuildFailed(p) \/ DeadPage(p)
  PROVE  ProjInv'
<1>1. /\ Rest(p) /\ proc[p].pc # "apply" /\ UNCHANGED <<pg, seq, redis, lost>>
      /\ barrier' \in {barrier, None}
  BY Zenon DEF Publish, RebuildFailed, DeadPage, Rebuilding
<1>2. owner' \in Procs \cup {None}
  BY Zenon, Unlocked, Kinds DEF Publish, RebuildFailed, DeadPage
<1>3. ready' \in BOOLEAN
  BY Zenon, Kinds DEF Publish, RebuildFailed, DeadPage
<1>4. faults' \in 0..MaxFaults
  BY Kinds DEF Publish, RebuildFailed, DeadPage
<1> QED
  BY Zenon, <1>1, <1>2, <1>3, <1>4, Kinds, RestStep

\* Steps of the environment.
LEMMA AroundStep ==
  ASSUME ProjInv, \/ \E p \in Procs : LoseLock(p)
                 \/ BarrierExpires \/ Flush \/ UNCHANGED projVars
  PROVE  ProjInv'
<1>1. /\ UNCHANGED <<pg, seq, proc>>
      /\ barrier' \in {barrier, None} /\ owner' \in Procs \cup {None} /\ ready' \in BOOLEAN
      /\ lost' \in {lost, TRUE}
  BY Zenon, Kinds DEF LoseLock, BarrierExpires, Flush, projVars
<1>2. faults' \in 0..MaxFaults
  BY Kinds DEF LoseLock, BarrierExpires, Flush, projVars
<1>3. redis' = redis \/ (redis' = NoRows /\ lost' /\ barrier' = None)
  BY Zenon DEF LoseLock, BarrierExpires, Flush, projVars
<1>4. None \notin Procs /\ barrier \in Procs \cup {None} /\ lost \in BOOLEAN
  BY Zenon, ProjTypes, Kinds
<1>5. redis' \in [DimKeys -> Row] /\ \A d \in DimKeys : Known(redis'[d], d)
  BY Zenon, <1>3, ProjTypes
<1>6. ProjTypeOK'
  BY Zenon, <1>1, <1>2, <1>4, <1>5 DEF ProjInv, ProjTypeOK
<1>7. Versions'
  BY Zenon, <1>1, <1>5 DEF ProjInv, Versions, Known
<1>8. Pending'
  <2>1. CASE redis' = redis
    BY Zenon, <1>1, <1>4, <2>1 DEF ProjInv, Pending, Brings
  <2>2. CASE lost'
    BY Zenon, <2>2 DEF Pending
  <2> QED
    BY Zenon, <1>3, <2>1, <2>2
<1>9. ASSUME NEW p \in Procs PROVE Covered(p)'
  <2>1. Covered(p)
    BY Zenon, ProjTypes
  <2>2. CASE redis' = redis
    <3>1. barrier' = p => barrier = p
      BY Zenon, <1>1, <1>4
    <3>2. \A d \in DimKeys : Covers(p, d) => Covers(p, d)'
      BY Zenon, <1>1, <2>2 DEF Covers
    <3> QED
      BY Zenon, <1>1, <2>1, <3>1, <3>2 DEF Covered
  <2>3. CASE barrier' = None
    <3>1. barrier' # p
      BY Zenon, <1>4, <2>3
    <3> QED
      BY Zenon, <1>1, <2>1, <3>1 DEF Covered
  <2> QED
    BY Zenon, <1>3, <2>2, <2>3
<1> QED
  BY Zenon, <1>6, <1>7, <1>8, <1>9 DEF ProjInv

\* An empty table and an empty Redis.
LEMMA ProjInitInv == ASSUME ProjInit PROVE ProjInv
<1>1. 0 \in Values /\ MaxWrites \in Nat /\ MaxFaults \in Nat
  BY Zenon, UsageProjectionAssumption
<1>2. Absent \in Row /\ Absent.version = 0
  BY <1>1 DEF Row, Absent
<1>3. NoRows \in [DimKeys -> Row] /\ \A d \in DimKeys : NoRows[d] = Absent
  BY Zenon, <1>2 DEF NoRows
<1>4. /\ Idle \in [pc: ProjPcs, rows: [DimKeys -> Row], todo: SUBSET DimKeys,
                   base: [DimKeys -> 0..MaxWrites]]
      /\ Idle.pc = "idle" /\ Idle.rows = NoRows
  BY <1>1, <1>3 DEF Idle, ProjPcs
<1>5. \A p \in Procs : proc[p] = Idle
  BY Zenon DEF ProjInit
<1>6. ProjTypeOK
  <2>1. 0 \in 0..MaxWrites /\ 0 \in 0..MaxFaults
    BY <1>1
  <2>2. proc \in [Procs -> [pc: ProjPcs, rows: [DimKeys -> Row], todo: SUBSET DimKeys,
                            base: [DimKeys -> 0..MaxWrites]]]
    BY Zenon, <1>4 DEF ProjInit
  <2> QED
    BY Zenon, <1>3, <2>1, <2>2 DEF ProjInit, ProjTypeOK
<1>7. Versions
  <2>1. \A d \in DimKeys : /\ pg[d] = Absent /\ redis[d] = Absent
                           /\ \A p \in Procs : proc[p].rows[d] = Absent
    BY Zenon, <1>3, <1>4, <1>5 DEF ProjInit
  <2>2. Absent.version <= seq /\ Absent.version <= Absent.version
    BY <1>2 DEF ProjInit
  <2> QED
    BY Zenon, <2>1, <2>2 DEF Versions, Known
<1>8. Pending
  BY <1>2, <1>3 DEF ProjInit, Pending
<1>9. \A p \in Procs : Covered(p)
  BY Zenon, <1>4, <1>5 DEF Covered, Rebuilding
<1> QED
  BY Zenon, <1>1, <1>6, <1>7, <1>8, <1>9 DEF ProjInv

\* Every step of the projection.
LEMMA ProjNextInv == ASSUME ProjInv, [ProjNext]_projVars PROVE ProjInv'
<1>1. ASSUME NEW p \in Procs, Ledger(p) PROVE ProjInv'
  BY Zenon, <1>1, EnsureReadyStep, PublishEmptyStep, WriteStep, ReadRowsStep, ApplyStep,
     ProjApplyFailedStep DEF Ledger
<1>2. ASSUME NEW p \in Procs, Rebuild(p) PROVE ProjInv'
  BY Zenon, <1>2, ClaimStep, ReadPageStep, RenewStep, RebuildApplyStep, RebuildEndsStep,
     AroundStep DEF Rebuild
<1> QED
  BY Zenon, <1>1, <1>2, AroundStep DEF ProjNext

\* The projection keeps its inductive invariant: no row outruns the table, what Redis
\* lacks is being brought, and a rebuild accounts for every fact it started with.
THEOREM ProjInvariant ==
  ProjSpec => []ProjInv
<1>1. ProjInit => ProjInv
  BY Zenon, ProjInitInv
<1>2. ProjInv /\ [ProjNext]_projVars => ProjInv'
  BY Zenon, ProjNextInv
<1> QED
  BY <1>1, <1>2, PTL DEF ProjSpec

\* As long as no call failed and Redis was not flushed, the projection is exact when
\* no process has rows in hand, for any number of processes whose scripts overtake
\* each other between commit and APPLY_PROJECTIONS_LUA.
THEOREM ProjectionExact ==
  ProjSpec => []QuietMeansExact
<1>1. ProjInv => QuietMeansExact
  <2> SUFFICES ASSUME ProjInv, ~lost, \A p \in Procs : proc[p].rows = NoRows
               PROVE  redis = pg
    BY Zenon DEF QuietMeansExact
  <2>1. ASSUME NEW d \in DimKeys PROVE redis[d] = pg[d]
    <3>1. /\ Known(redis[d], d) /\ NoRows[d] = Absent /\ Absent.version = 0
          /\ redis[d].version \in 0..MaxWrites /\ pg[d].version \in 0..MaxWrites
          /\ MaxWrites \in Nat
      BY Zenon, ProjTypes
    <3>2. ~(redis[d].version < pg[d].version)
      <4> SUFFICES ASSUME redis[d].version < pg[d].version PROVE FALSE
        OBVIOUS
      <4>1. PICK p \in Procs : Brings(p, d)
        BY Zenon DEF ProjInv, Pending
      <4>2. pg[d] = Absent
        BY Zenon, <3>1, <4>1 DEF Brings
      <4> QED
        BY <3>1, <4>2
    <3>3. redis[d].version = pg[d].version
      BY <3>1, <3>2 DEF Known
    <3> QED
      BY Zenon, <3>1, <3>3 DEF Known
  <2> QED
    BY <2>1, ProjTypes
<1> QED
  BY <1>1, ProjInvariant, PTL

\* Only the rebuild that still has its barrier opens the projection, after its last page.
LEMMA PublishStep ==
  ASSUME ProjInv, [ProjNext]_projVars, NEW p \in Procs, proc[p].pc = "page", ready', ~ready,
         proc'[p].pc = "idle", NEW d \in DimKeys
  PROVE  redis[d].version >= proc[p].base[d]
<1>1. proc \in [Procs -> Process] /\ Covered(p)
  BY Zenon, ProjTypes
<1>2. PICK q \in Procs : PublishEmpty(q) \/ Publish(q)
  BY Zenon DEF ProjNext, projVars, Ledger, Rebuild, EnsureReady, Write, ReadRows,
     Apply, ApplyRowsFailed, Claim, ReadPage, Renew, RebuildApply,
     RebuildFailed, LoseLock, DeadPage, BarrierExpires,
     Flush
<1>3. q = p
  BY Zenon, <1>1, <1>2 DEF PublishEmpty, Publish, MoveTo, Rest
<1>4. Publish(p)
  BY Zenon, <1>2, <1>3 DEF PublishEmpty
<1>5. barrier = p /\ proc[p].todo = {}
  BY Zenon, <1>4 DEF Publish
<1>6. Covers(p, d)
  BY Zenon, <1>1, <1>5 DEF Covered, Rebuilding
<1> QED
  BY Zenon, <1>5, <1>6 DEF Covers

\* A rebuild opens the projection only with every fact that was there when it took
\* the lock in Redis, at that version or a later one, whatever flushes, expired
\* barriers, lost locks and other rebuilds came between its pages.
THEOREM PublishedIsComplete ==
  ProjSpec => PublishCovers
<1>1. ProjInv /\ [ProjNext]_projVars => [\A p \in Procs :
       proc[p].pc = "page" /\ ready' /\ ~ready /\ proc'[p].pc = "idle"
         => \A d \in DimKeys : redis[d].version >= proc[p].base[d]]_projVars
  BY Zenon, PublishStep
<1> QED
  BY <1>1, ProjInvariant, PTL DEF ProjSpec, PublishCovers

----------------------------------------------------------------------------
(* The ledger *)

\* Facts about finite sets, which only the proofs below need.
INSTANCE FiniteSetTheorems

\* What an acceptance relies on between its transactions: it has a row that was
\* opened, and the row has quota entries once reserve_quota has returned.
Control(p) ==
  /\ req[p].pc \notin {"start", "over"} =>
       req[p].r \in Rows /\ res[req[p].r].state # "none"
  /\ req[p].pc \in {"quota_apply", "commit"} => res[req[p].r].cost > 0
  /\ req[p].pc # "over" => req[p].drained <= 1

Finite == \A d \in Dims : IsFiniteSet(Units(res, d))

\* The inductive invariant.
IndInv ==
  /\ TypeOK
  /\ \A p \in Requests : Control(p)
  /\ Finite
  /\ WithinLimits
  /\ LiveBatchCharged
----------------------------------------------------------------------------
(* Sums *)

Table == [Rows -> Reservation]

\* What a row adds to the value of a dimension.
Weight(e, d) == IF e.state \in Active THEN Amount(e, d) ELSE 0

\* An entry counts for a natural number.
LEMMA AmountNat ==
  ASSUME NEW e \in Reservation, NEW d
  PROVE  Amount(e, d) \in Nat /\ Weight(e, d) \in Nat
<1>1. e.cost \in Nat
  <2>1. e.cost \in Costs \cup {0}
    BY Zenon DEF Reservation
  <2>2. \A c \in Costs : c \in Nat
    BY Zenon, UsageLedgerAssumption
  <2> QED
    BY <2>1, <2>2
<1>2. Amount(e, d) \in Nat
  BY <1>1 DEF Amount
<1> QED
  BY Zenon, <1>2 DEF Weight

\* The units of one row are as many as its weight.
LEMMA UnitsOfOne ==
  ASSUME NEW r, NEW n \in Nat
  PROVE  IsFiniteSet({r} \X (1..n)) /\ Cardinality({r} \X (1..n)) = n
<1>1. IsFiniteSet({r}) /\ Cardinality({r}) = 1
  BY Zenon, FS_Singleton
<1>2. IsFiniteSet(1..n) /\ Cardinality(1..n) = n
  BY FS_Interval
<1>3. /\ IsFiniteSet({r} \X (1..n))
      /\ Cardinality({r} \X (1..n)) = Cardinality({r}) * Cardinality(1..n)
  BY Zenon, <1>1, <1>2, FS_Product
<1> QED
  BY <1>1, <1>2, <1>3

\* The units of the rows other than r.
OtherUnits(rs, r, d) ==
  UNION {{q} \X (1..Amount(rs[q], d)) : q \in {x \in Rows \ {r} : rs[x].state \in Active}}

\* The sum splits into the others and one.
LEMMA SumSplits ==
  ASSUME NEW rs \in Table, NEW r \in Rows, NEW d, IsFiniteSet(OtherUnits(rs, r, d))
  PROVE  /\ IsFiniteSet(Units(rs, d))
         /\ Cardinality(Units(rs, d)) = Cardinality(OtherUnits(rs, r, d)) + Weight(rs[r], d)
         /\ Cardinality(OtherUnits(rs, r, d)) \in Nat
<1> DEFINE O == OtherUnits(rs, r, d)
           P == {r} \X (1..Weight(rs[r], d))
<1>1. rs[r] \in Reservation
  BY Zenon DEF Table
<1>2. Weight(rs[r], d) \in Nat
  BY Zenon, <1>1, AmountNat
<1>3. IsFiniteSet(P) /\ Cardinality(P) = Weight(rs[r], d)
  BY Zenon, <1>2, UnitsOfOne
<1>4. Units(rs, d) = O \cup P
  <2>1. CASE rs[r].state \in Active
    <3>1. Weight(rs[r], d) = Amount(rs[r], d)
      BY Zenon, <2>1 DEF Weight
    <3> QED
      BY Zenon, <2>1, <3>1 DEF Units, OtherUnits
  <2>2. CASE rs[r].state \notin Active
    <3>1. Weight(rs[r], d) = 0
      BY Zenon, <2>2 DEF Weight
    <3>2. P = {}
      BY <3>1
    <3>3. {x \in Rows \ {r} : rs[x].state \in Active} = {q \in Rows : rs[q].state \in Active}
      BY Zenon, <2>2
    <3> QED
      BY Zenon, <3>2, <3>3 DEF Units, OtherUnits
  <2> QED
    BY Zenon, <2>1, <2>2
<1>5. O \cap P = {}
  BY DEF OtherUnits
<1>6. IsFiniteSet(O)
  OBVIOUS
<1> HIDE DEF O, P
<1>7. Cardinality(O) \in Nat
  BY Zenon, <1>6, FS_CardinalityType
<1>8. /\ IsFiniteSet(O \cup P)
      /\ Cardinality(O \cup P) = Cardinality(O) + Cardinality(P) - Cardinality(O \cap P)
  BY Zenon, <1>3, <1>6, FS_Union
<1>9. Cardinality(O \cap P) = 0
  BY Zenon, <1>5, FS_EmptySet
<1>10. Cardinality(O \cup P) = Cardinality(O) + Cardinality(P)
  BY <1>2, <1>3, <1>7, <1>8, <1>9
<1> QED
  BY Zenon, <1>3, <1>4, <1>7, <1>8, <1>10 DEF O

\* Writing one row changes the sum by the difference of its weights.
LEMMA SumChanges ==
  ASSUME NEW rs \in Table, NEW ns \in Table, NEW r \in Rows, NEW d,
         \A q \in Rows : q # r => ns[q] = rs[q],
         IsFiniteSet(Units(rs, d))
  PROVE  /\ IsFiniteSet(Units(ns, d))
         /\ Cardinality(Units(ns, d))
              = Cardinality(Units(rs, d)) - Weight(rs[r], d) + Weight(ns[r], d)
         /\ Weight(rs[r], d) <= Cardinality(Units(rs, d))
<1>1. OtherUnits(rs, r, d) \in SUBSET Units(rs, d)
  BY Zenon DEF OtherUnits, Units
<1>2. IsFiniteSet(OtherUnits(rs, r, d))
  BY Zenon, <1>1, FS_Subset
<1>3. OtherUnits(ns, r, d) = OtherUnits(rs, r, d)
  <2>1. {x \in Rows \ {r} : ns[x].state \in Active} = {x \in Rows \ {r} : rs[x].state \in Active}
    OBVIOUS
  <2>2. \A q \in Rows \ {r} : Amount(ns[q], d) = Amount(rs[q], d)
    OBVIOUS
  <2> QED
    BY Zenon, <2>1, <2>2 DEF OtherUnits
<1>4. /\ Cardinality(Units(rs, d)) = Cardinality(OtherUnits(rs, r, d)) + Weight(rs[r], d)
      /\ Cardinality(OtherUnits(rs, r, d)) \in Nat
  BY Zenon, <1>2, SumSplits
<1>5. /\ IsFiniteSet(Units(ns, d))
      /\ Cardinality(Units(ns, d)) = Cardinality(OtherUnits(ns, r, d)) + Weight(ns[r], d)
  BY Zenon, <1>2, <1>3, SumSplits
<1>6. rs[r] \in Reservation /\ ns[r] \in Reservation
  BY Zenon DEF Table
<1>7. Weight(rs[r], d) \in Nat /\ Weight(ns[r], d) \in Nat
  BY Zenon, <1>6, AmountNat
<1> QED
  BY <1>3, <1>4, <1>5, <1>7
----------------------------------------------------------------------------
(* What one row write does to the books *)

Request == [pc: Pcs, r: Rows \cup {NoRow}, drained: 0..2]

\* n is within the daily limit of the dimension.
Fit(d, n) ==
  /\ d \in Apps => AppLimit = 0 \/ n <= AppLimit
  /\ d = Dept => DeptLimit = 0 \/ n <= DeptLimit
  /\ d \in Phones => n <= FreqLimit

\* WithinLimits, one dimension at a time.
LEMMA LimitsByDimension ==
  /\ WithinLimits <=> \A d \in Dims : value[d] = Booked(d) /\ Fit(d, Booked(d))
  /\ WithinLimits' <=> \A d \in Dims : value'[d] = Booked(d)' /\ Fit(d, Booked(d)')
<1>1. /\ Apps \cap Phones = {} /\ Dept \notin Apps /\ Dept \notin Phones
  BY Zenon, UsageLedgerAssumption
<1>2. \A d \in Dims : d \in Apps \/ d = Dept \/ d \in Phones
  BY Zenon DEF Dims
<1>3. Apps \subseteq Dims /\ Phones \subseteq Dims /\ Dept \in Dims
  BY Zenon DEF Dims
<1>4. WithinLimits <=> \A d \in Dims : value[d] = Booked(d) /\ Fit(d, Booked(d))
  BY Zenon, <1>1, <1>2, <1>3 DEF WithinLimits, Fit
<1>5. WithinLimits' <=> \A d \in Dims : value'[d] = Booked(d)' /\ Fit(d, Booked(d)')
  BY Zenon, <1>1, <1>2, <1>3 DEF WithinLimits, Fit
<1> QED
  BY Zenon, <1>4, <1>5

\* Less than what fits, fits.
LEMMA FitFalls ==
  ASSUME NEW d, NEW n \in Nat, NEW m \in Nat, n <= m, Fit(d, m)
  PROVE  Fit(d, n)
<1>1. AppLimit \in Nat /\ DeptLimit \in Nat /\ FreqLimit \in Nat
  BY Zenon, UsageLedgerAssumption
<1> QED
  BY <1>1 DEF Fit

\* The parts of the invariant that most steps need.
LEMMA TypesOf ==
  ASSUME IndInv
  PROVE  /\ res \in Table /\ value \in [Dims -> Nat] /\ req \in [Requests -> Request]
         /\ batch \in [Rows -> {"none", "live", "ended"}]
         /\ orphans \subseteq Rows /\ aborts \in 0..MaxAborts
         /\ \A d \in Dims : /\ value[d] = Booked(d) /\ value[d] \in Nat
                            /\ Fit(d, value[d]) /\ IsFiniteSet(Units(res, d))
         /\ \A r \in Rows : res[r] \in Reservation
         /\ \A p \in Requests : Control(p) /\ req[p] \in Request
<1>1. /\ res \in Table /\ value \in [Dims -> Nat] /\ req \in [Requests -> Request]
      /\ batch \in [Rows -> {"none", "live", "ended"}]
      /\ orphans \subseteq Rows /\ aborts \in 0..MaxAborts
  BY Zenon DEF IndInv, TypeOK, Table, Request
<1>2. \A d \in Dims : /\ value[d] = Booked(d) /\ Fit(d, value[d])
                      /\ IsFiniteSet(Units(res, d))
  BY Zenon, LimitsByDimension DEF IndInv, Finite
<1>3. \A r \in Rows : res[r] \in Reservation
  BY Zenon, <1>1 DEF Table
<1>4. \A p \in Requests : Control(p) /\ req[p] \in Request
  BY Zenon, <1>1 DEF IndInv
<1>5. \A d \in Dims : value[d] \in Nat
  BY Zenon, <1>1
<1> QED
  BY Zenon, <1>1, <1>2, <1>3, <1>4, <1>5

\* No row is forgotten, and no charge of it.
Keeps ==
  \A r \in Rows : res[r].state # "none" =>
    res'[r].state # "none" /\ (res[r].cost > 0 => res'[r].cost > 0)

\* What every step does to the ledger and to the values.
Booking ==
  /\ res' \in Table /\ value' \in [Dims -> Nat]
  /\ Keeps /\ Finite' /\ WithinLimits'

\* Writing one row and adding its difference to the values.
LEMMA WriteRow ==
  ASSUME IndInv, NEW r \in Rows, NEW e \in Reservation,
         res' = [res EXCEPT ![r] = e], value' \in [Dims -> Nat],
         e.state # "none", res[r].state # "none" /\ res[r].cost > 0 => e.cost > 0,
         \A d \in Dims :
           /\ value'[d] = value[d] - Weight(res[r], d) + Weight(e, d)
           /\ value'[d] <= value[d] \/ Fit(d, value'[d])
  PROVE  Booking /\ res'[r] = e /\ \A q \in Rows : q # r => res'[q] = res[q]
<1>1. res \in Table
  BY Zenon, TypesOf
<1>2. res' \in Table /\ res'[r] = e /\ \A q \in Rows : q # r => res'[q] = res[q]
  BY Zenon, <1>1 DEF Table
<1>3. Keeps
  BY Zenon, <1>2 DEF Keeps
<1>4. ASSUME NEW d \in Dims
      PROVE  /\ IsFiniteSet(Units(res', d)) /\ value'[d] = Cardinality(Units(res', d))
             /\ Fit(d, value'[d])
  <2>1. /\ IsFiniteSet(Units(res, d)) /\ value[d] = Cardinality(Units(res, d))
        /\ value[d] \in Nat /\ Fit(d, value[d])
    BY Zenon, TypesOf DEF Booked
  <2>2. /\ IsFiniteSet(Units(res', d))
        /\ Cardinality(Units(res', d))
             = Cardinality(Units(res, d)) - Weight(res[r], d) + Weight(res'[r], d)
    <3>1. ASSUME NEW ns \in Table, \A q \in Rows : q # r => ns[q] = res[q]
          PROVE  /\ IsFiniteSet(Units(ns, d))
                 /\ Cardinality(Units(ns, d))
                      = Cardinality(Units(res, d)) - Weight(res[r], d) + Weight(ns[r], d)
      BY <1>1, <2>1, <3>1, SumChanges
    <3> QED
      BY Zenon, <1>2, <3>1
  <2>3. value'[d] = value[d] - Weight(res[r], d) + Weight(e, d)
    OBVIOUS
  <2>4. value'[d] \in Nat
    OBVIOUS
  <2>5. Fit(d, value'[d])
    BY Zenon, <2>1, <2>4, FitFalls
  <2> QED
    BY Zenon, <1>2, <2>1, <2>2, <2>3, <2>5
<1>5. Finite'
  BY Zenon, <1>4 DEF Finite
<1>6. \A d \in Dims : value'[d] = Booked(d)' /\ Fit(d, Booked(d)')
  BY Zenon, <1>4 DEF Booked
<1>7. WithinLimits'
  BY Zenon, <1>6, LimitsByDimension
<1> QED
  BY Zenon, <1>2, <1>3, <1>5, <1>7 DEF Booking

\* A write that leaves what the row counts for.
LEMMA WriteQuietRow ==
  ASSUME IndInv, NEW r \in Rows, NEW e \in Reservation,
         res' = [res EXCEPT ![r] = e], value' = value,
         e.state # "none", res[r].state # "none" /\ res[r].cost > 0 => e.cost > 0,
         \A d \in Dims : Weight(e, d) = Weight(res[r], d)
  PROVE  Booking /\ res'[r] = e /\ \A q \in Rows : q # r => res'[q] = res[q]
<1>1. value' \in [Dims -> Nat] /\ res[r] \in Reservation
  BY Zenon, TypesOf
<1>2. \A d \in Dims : /\ value'[d] = value[d] - Weight(res[r], d) + Weight(e, d)
                      /\ value'[d] <= value[d] \/ Fit(d, value'[d])
  BY <1>1, TypesOf, AmountNat
<1> QED
  BY Zenon, <1>1, <1>2, WriteRow

\* A step that writes no row books nothing.
LEMMA SameBooks == ASSUME IndInv, UNCHANGED <<res, value>> PROVE Booking
<1>1. Finite' /\ WithinLimits'
  BY LimitsByDimension DEF IndInv, Finite, WithinLimits, Booked, Units
<1>2. Keeps
  BY Zenon DEF Keeps
<1> QED
  BY Zenon, <1>1, <1>2, TypesOf DEF Booking

\* A release takes out of the values exactly what the row put in: the guard against
\* negative values never cuts.
LEMMA ReleaseRow ==
  ASSUME IndInv, NEW r \in Rows, res[r].state \in Active, RequestRelease(r)
  PROVE  /\ Booking /\ res'[r].state = "release_requested"
         /\ \A q \in Rows : q # r => res'[q] = res[q]
<1> DEFINE e == [res[r] EXCEPT !.state = "release_requested"]
<1>1. res \in Table /\ res[r] \in Reservation /\ value \in [Dims -> Nat]
  BY Zenon, TypesOf
<1>2. e \in Reservation /\ e.state = "release_requested" /\ e.cost = res[r].cost
  BY Zenon, <1>1 DEF Reservation
<1>3. res' = [res EXCEPT ![r] = e]
  BY Zenon, <1>1 DEF RequestRelease, Table
<1> HIDE DEF e
<1>4. ASSUME NEW d \in Dims
      PROVE  /\ value'[d] \in Nat
             /\ value'[d] = value[d] - Weight(res[r], d) + Weight(e, d)
             /\ value'[d] <= value[d]
  <2>1. /\ Weight(res[r], d) = Amount(res[r], d) /\ Amount(res[r], d) \in Nat
        /\ Weight(e, d) = 0
    BY Zenon, <1>1, <1>2, AmountNat DEF Weight, Active
  <2>2. /\ value[d] = Cardinality(Units(res, d)) /\ value[d] \in Nat
        /\ IsFiniteSet(Units(res, d))
    BY Zenon, TypesOf DEF Booked
  <2>3. Weight(res[r], d) <= Cardinality(Units(res, d))
    BY Zenon, <1>1, <2>2, SumChanges
  <2>4. value'[d] = IF value[d] > Amount(res[r], d) THEN value[d] - Amount(res[r], d) ELSE 0
    BY Zenon DEF RequestRelease
  <2> HIDE DEF Amount, Weight
  <2> QED
    BY <2>1, <2>2, <2>3, <2>4
<1>5. value' \in [Dims -> Nat]
  <2>1. value' = [d \in Dims |->
                    IF value[d] > Amount(res[r], d) THEN value[d] - Amount(res[r], d) ELSE 0]
    BY Zenon DEF RequestRelease
  <2> QED
    BY Zenon, <1>4, <2>1
<1>6. e.state # "none" /\ (res[r].cost > 0 => e.cost > 0)
  BY Zenon, <1>2
<1> QED
  BY Zenon, <1>2, <1>3, <1>4, <1>5, <1>6, WriteRow

\* request_unlinked_release books the release or does nothing.
LEMMA ReleaseUnlinkedBooks ==
  ASSUME IndInv, NEW r \in Rows, ReleaseUnlinked(r), UNCHANGED batch
  PROVE  Booking /\ LiveBatchCharged'
<1>1. CASE ~Linked(r) /\ res[r].state \in Active
  <2>1. RequestRelease(r)
    BY Zenon, <1>1 DEF ReleaseUnlinked
  <2>2. Booking /\ \A q \in Rows : q # r => res'[q] = res[q]
    BY Zenon, <1>1, <2>1, ReleaseRow
  <2> QED
    BY Zenon, <1>1, <2>2 DEF IndInv, LiveBatchCharged, Linked
<1>2. CASE ~(~Linked(r) /\ res[r].state \in Active)
  <2>1. UNCHANGED <<res, value>>
    BY Zenon, <1>2 DEF ReleaseUnlinked
  <2> QED
    BY Zenon, <2>1, SameBooks DEF IndInv, LiveBatchCharged
<1> QED
  BY Zenon, <1>1, <1>2

\* Moving an acceptance keeps its type.
LEMMA GotoTyped ==
  ASSUME IndInv, NEW p \in Requests, NEW pc \in Pcs, Goto(p, pc)
  PROVE  /\ req' \in [Requests -> Request]
         /\ req'[p].pc = pc /\ req'[p].r = req[p].r /\ req'[p].drained = req[p].drained
         /\ \A q \in Requests : q # p => req'[q] = req[q]
<1> DEFINE row == [req[p] EXCEPT !.pc = pc]
<1>1. req \in [Requests -> Request] /\ req[p] \in Request
  BY Zenon, TypesOf
<1>2. row \in Request /\ row.pc = pc /\ row.r = req[p].r /\ row.drained = req[p].drained
  BY Zenon, <1>1 DEF Request
<1>3. req' = [req EXCEPT ![p] = row]
  BY Zenon, <1>1 DEF Goto
<1> HIDE DEF row
<1> QED
  BY Zenon, <1>1, <1>2, <1>3

\* The steps of an acceptance touch nothing of the others but rows, which they keep.
LEMMA AcceptanceKeeps ==
  ASSUME IndInv, NEW p \in Requests, Booking, LiveBatchCharged',
         batch' \in [Rows -> {"none", "live", "ended"}],
         req' \in [Requests -> Request], Control(p)',
         \A q \in Requests : q # p => req'[q] = req[q],
         UNCHANGED <<orphans, aborts, notice>>
  PROVE  IndInv'
<1>1. TypeOK'
  BY Zenon DEF IndInv, TypeOK, Booking, Table, Request
<1>2. ASSUME NEW q \in Requests, q # p PROVE Control(q)'
  <2>1. Control(q) /\ req'[q] = req[q]
    BY Zenon, <1>2 DEF IndInv
  <2> QED
    BY Zenon, <2>1 DEF Control, Booking, Keeps
<1> QED
  BY Zenon, <1>1, <1>2 DEF IndInv, Booking

\* The same for steps of batches and of the recovery.
LEMMA RowKeeps ==
  ASSUME IndInv, Booking, LiveBatchCharged',
         batch' \in [Rows -> {"none", "live", "ended"}],
         orphans' \subseteq Rows, aborts' \in 0..MaxAborts, UNCHANGED <<req, notice>>
  PROVE  IndInv'
<1>1. TypeOK'
  BY Zenon DEF IndInv, TypeOK, Booking, Table
<1>2. ASSUME NEW q \in Requests PROVE Control(q)'
  <2>1. Control(q) /\ req'[q] = req[q]
    BY Zenon DEF IndInv
  <2> QED
    BY Zenon, <2>1 DEF Control, Booking, Keeps
<1> QED
  BY Zenon, <1>1, <1>2 DEF IndInv, Booking
----------------------------------------------------------------------------
(* Acceptance *)

\* Applications, the department and phones are different dimensions.
LEMMA DimensionsApart ==
  ASSUME NEW k \in Keys
  PROVE  /\ AppOf[k] \in Apps /\ PhoneOf[k] \in Phones
         /\ AppOf[k] \in Dims /\ PhoneOf[k] \in Dims /\ Dept \in Dims
         /\ Dept \notin Apps /\ Dept \notin Phones
         /\ \A ph \in Phones : ph \notin QuotaDims(k) /\ ph \notin Apps
<1>1. /\ AppOf[k] \in Apps /\ PhoneOf[k] \in Phones
      /\ Apps \cap Phones = {} /\ Dept \notin Apps \cup Phones
  BY Zenon, UsageLedgerAssumption
<1> QED
  BY Zenon, <1>1 DEF QuotaDims, Dims

\* A fresh row, or the active row of the key.
LEMMA StartReservationStep ==
  ASSUME IndInv, NEW p \in Requests, StartReservation(p)
  PROVE  IndInv'
<1> DEFINE k == KeyOf[p]
           held == {r \in Rows : res[r].state \in Active /\ res[r].key = k}
           on == IF k \in notice THEN "quota" ELSE "freq"
<1>1. req[p].pc = "start" /\ UNCHANGED <<batch, value, orphans, aborts, notice>>
  BY Zenon DEF StartReservation
<1>2. /\ k \in Keys /\ req \in [Requests -> Request] /\ req[p] \in Request /\ Control(p)
      /\ batch \in [Rows -> {"none", "live", "ended"}]
  BY Zenon, UsageLedgerAssumption, TypesOf
<1>3. req[p].drained <= 1
  BY Zenon, <1>1, <1>2 DEF Control
<1>4. ASSUME NEW r \in Rows, NEW pc \in {"quota", "freq", "drain"},
             req' = [req EXCEPT ![p].pc = pc, ![p].r = r],
             res'[r].state # "none", Booking, LiveBatchCharged'
      PROVE  IndInv'
  <2> DEFINE row == [req[p] EXCEPT !.pc = pc, !.r = r]
  <2>1. row \in Request /\ row.pc = pc /\ row.r = r /\ row.drained = req[p].drained
    BY Zenon, <1>2 DEF Request, Pcs
  <2>2. req' = [req EXCEPT ![p] = row]
    BY Zenon, <1>2, <1>4
  <2> HIDE DEF row
  <2>3. /\ req' \in [Requests -> Request] /\ req'[p] = row
        /\ \A q \in Requests : q # p => req'[q] = req[q]
    BY Zenon, <1>2, <2>1, <2>2
  <2>4. Control(p)'
    BY Zenon, <1>3, <1>4, <2>1, <2>3 DEF Control
  <2> QED
    BY Zenon, <1>1, <1>2, <1>4, <2>3, <2>4, AcceptanceKeeps
<1>5. \/ \E r \in Rows :
           /\ res[r].state = "none"
           /\ res' = [res EXCEPT ![r] = [state |-> "reserved", key |-> k,
                                         cost |-> 0, freq |-> "none"]]
           /\ req' = [req EXCEPT ![p].pc = on, ![p].r = r]
      \/ \E r \in held :
           /\ UNCHANGED res
           /\ \/ req' = [req EXCEPT ![p].pc = "drain", ![p].r = r]
              \/ req' = [req EXCEPT ![p].pc = on, ![p].r = r]
  BY Zenon DEF StartReservation
<1>6. on \in {"quota", "freq", "drain"}
  OBVIOUS
<1> HIDE DEF on
<1>7. ASSUME NEW r \in Rows, res[r].state = "none",
             res' = [res EXCEPT ![r] = [state |-> "reserved", key |-> k,
                                        cost |-> 0, freq |-> "none"]],
             req' = [req EXCEPT ![p].pc = on, ![p].r = r]
      PROVE  IndInv'
  <2> DEFINE e == [state |-> "reserved", key |-> k, cost |-> 0, freq |-> "none"]
  <2>1. e \in Reservation /\ e.state = "reserved" /\ e.cost = 0 /\ e.freq = "none"
    BY Zenon, <1>2 DEF Reservation, Active
  <2> HIDE DEF e
  <2>2. \A d \in Dims : Weight(e, d) = Weight(res[r], d)
    BY <1>7, <2>1 DEF Weight, Amount, Active
  <2>3. res' = [res EXCEPT ![r] = e]
    BY Zenon, <1>7 DEF e
  <2>4. Booking /\ res'[r] = e /\ \A q \in Rows : q # r => res'[q] = res[q]
    BY Zenon, <1>1, <1>7, <2>1, <2>2, <2>3, WriteQuietRow
  <2>5. LiveBatchCharged'
    BY Zenon, <1>1, <1>7, <2>4 DEF IndInv, LiveBatchCharged
  <2> QED
    BY Zenon, <1>4, <1>6, <1>7, <2>1, <2>4, <2>5
<1>8. ASSUME NEW r \in held, UNCHANGED res,
             \/ req' = [req EXCEPT ![p].pc = "drain", ![p].r = r]
             \/ req' = [req EXCEPT ![p].pc = on, ![p].r = r]
      PROVE  IndInv'
  <2>1. Booking /\ LiveBatchCharged'
    BY Zenon, <1>1, <1>8, SameBooks DEF IndInv, LiveBatchCharged
  <2>2. r \in Rows /\ res'[r].state # "none"
    BY Zenon, <1>8 DEF Active
  <2> QED
    BY Zenon, <1>4, <1>6, <1>8, <2>1, <2>2
<1> QED
  BY Zenon, <1>5, <1>7, <1>8

\* An uncertain row is released before the key is tried again.
LEMMA DrainStep == ASSUME IndInv, NEW p \in Requests, Drain(p) PROVE IndInv'
<1> DEFINE row == [pc |-> IF req[p].drained = 1 THEN "over" ELSE "start",
                   r |-> NoRow, drained |-> req[p].drained + 1]
<1>1. /\ req[p].pc = "drain" /\ ReleaseUnlinked(req[p].r)
      /\ req' = [req EXCEPT ![p] = row] /\ UNCHANGED <<batch, orphans, aborts, notice>>
  BY Zenon DEF Drain
<1>2. /\ req \in [Requests -> Request] /\ req[p] \in Request /\ Control(p)
      /\ batch \in [Rows -> {"none", "live", "ended"}]
  BY Zenon, TypesOf
<1>3. req[p].r \in Rows /\ req[p].drained \in {0, 1}
  BY <1>1, <1>2 DEF Control, Request
<1>4. Booking /\ LiveBatchCharged'
  BY Zenon, <1>1, <1>3, ReleaseUnlinkedBooks
<1>5. /\ row \in Request /\ row.pc \in {"start", "over"}
      /\ row.pc # "over" => row.drained <= 1
  BY <1>3 DEF Request, Pcs
<1> HIDE DEF row
<1>6. /\ req' \in [Requests -> Request] /\ req'[p] = row
      /\ \A q \in Requests : q # p => req'[q] = req[q]
  BY Zenon, <1>1, <1>2, <1>5
<1>7. Control(p)'
  BY Zenon, <1>5, <1>6 DEF Control
<1> QED
  BY Zenon, <1>1, <1>2, <1>4, <1>6, <1>7, AcceptanceKeeps

\* A step that moves an acceptance to pc.
LEMMA GotoStep ==
  ASSUME IndInv, NEW p \in Requests, NEW pc \in Pcs, Goto(p, pc), Booking, LiveBatchCharged',
         batch' \in [Rows -> {"none", "live", "ended"}],
         pc = "over" \/ req[p].pc \notin {"start", "over"}, pc # "start",
         pc \in {"quota_apply", "commit"} => res'[req[p].r].cost > 0,
         UNCHANGED <<orphans, aborts, notice>>
  PROVE  IndInv'
<1>1. Control(p)
  BY Zenon, TypesOf
<1>2. /\ req' \in [Requests -> Request]
      /\ req'[p].pc = pc /\ req'[p].r = req[p].r /\ req'[p].drained = req[p].drained
      /\ \A q \in Requests : q # p => req'[q] = req[q]
  BY Zenon, GotoTyped
<1>3. Control(p)'
  <2>1. CASE pc = "over"
    BY Zenon, <1>2, <2>1 DEF Control
  <2>2. CASE pc # "over" /\ req[p].pc \notin {"start", "over"}
    <3>1. req[p].r \in Rows /\ res[req[p].r].state # "none" /\ req[p].drained <= 1
      BY Zenon, <1>1, <2>2 DEF Control
    <3>2. res'[req[p].r].state # "none"
      BY Zenon, <3>1 DEF Booking, Keeps
    <3> QED
      BY Zenon, <1>2, <3>1, <3>2 DEF Control
  <2> QED
    BY Zenon, <2>1, <2>2
<1> QED
  BY Zenon, <1>2, <1>3, AcceptanceKeeps

\* For phones the value is the number of counted entries.
LEMMA PhoneBooked ==
  ASSUME IndInv, NEW ph \in Phones
  PROVE  Booked(ph) = Cardinality(Counted(ph))
<1>1. ASSUME NEW q \in Rows
      PROVE  Amount(res[q], ph) = IF ph = PhoneOf[res[q].key] /\ res[q].freq = "counted"
                                  THEN 1 ELSE 0
  <2>1. res[q].key \in Keys
    BY Zenon, TypesOf DEF Reservation
  <2>2. ph \notin QuotaDims(res[q].key)
    BY Zenon, <2>1, DimensionsApart
  <2> QED
    BY <2>2 DEF Amount
<1>2. Units(res, ph) = Counted(ph) \X {1}
  <2>1. ASSUME NEW u \in Units(res, ph) PROVE u \in Counted(ph) \X {1}
    <3>1. PICK q \in Rows : res[q].state \in Active /\ u \in {q} \X (1..Amount(res[q], ph))
      BY Zenon, <2>1 DEF Units
    <3>2. CASE ph = PhoneOf[res[q].key] /\ res[q].freq = "counted"
      <4>1. q \in Counted(ph)
        BY Zenon, <3>1, <3>2 DEF Counted
      <4>2. Amount(res[q], ph) = 1
        BY Zenon, <1>1, <3>2
      <4> QED
        BY <3>1, <4>1, <4>2
    <3>3. CASE ~(ph = PhoneOf[res[q].key] /\ res[q].freq = "counted")
      <4>1. Amount(res[q], ph) = 0
        BY Zenon, <1>1, <3>3
      <4> QED
        BY <3>1, <4>1
    <3> QED
      BY Zenon, <3>2, <3>3
  <2>2. ASSUME NEW q \in Counted(ph) PROVE <<q, 1>> \in Units(res, ph)
    <3>1. q \in Rows /\ res[q].state \in Active /\ Amount(res[q], ph) = 1
      BY Zenon, <1>1, <2>2 DEF Counted
    <3>2. <<q, 1>> \in {q} \X (1..Amount(res[q], ph))
      BY <3>1
    <3> QED
      BY Zenon, <3>1, <3>2 DEF Units
  <2> QED
    BY <2>1, <2>2
<1>3. Counted(ph) \in SUBSET Rows
  BY Zenon DEF Counted
<1>4. IsFiniteSet(Counted(ph))
  BY Zenon, <1>3, UsageLedgerAssumption, FS_Subset
<1>5. IsFiniteSet({1}) /\ Cardinality({1}) = 1
  BY Zenon, FS_Singleton
<1>6. Cardinality(Counted(ph) \X {1}) = Cardinality(Counted(ph)) * Cardinality({1})
  BY Zenon, <1>4, <1>5, FS_Product
<1>7. Cardinality(Counted(ph)) \in Nat
  BY Zenon, <1>4, FS_CardinalityType
<1> QED
  BY <1>2, <1>5, <1>6, <1>7 DEF Booked

\* The frequency entry, counted or filtered.
LEMMA AllowFrequencyStep ==
  ASSUME IndInv, NEW p \in Requests, AllowFrequency(p)
  PROVE  IndInv'
<1> DEFINE r == req[p].r
           phone == PhoneOf[res[r].key]
           allowed == Cardinality(Counted(phone)) + 1 <= FreqLimit
<1>1. req[p].pc = "freq" /\ UNCHANGED <<batch, orphans, aborts, notice>>
  BY Zenon DEF AllowFrequency
<1>2. /\ Control(p) /\ batch \in [Rows -> {"none", "live", "ended"}] /\ res \in Table
      /\ value \in [Dims -> Nat] /\ "freq_apply" \in Pcs /\ "release" \in Pcs
  BY Zenon, TypesOf DEF Pcs
<1>3. r \in Rows /\ res[r] \in Reservation
  BY Zenon, <1>1, <1>2, TypesOf DEF Control
<1>4. /\ phone \in Phones /\ phone \in Dims /\ phone \notin Apps /\ phone # Dept
      /\ phone \notin QuotaDims(res[r].key)
  BY Zenon, <1>3, DimensionsApart DEF Reservation
<1>5. CASE UNCHANGED <<res, value>> /\ \E pc \in {"release", "freq_apply"} : Goto(p, pc)
  <2>1. Booking /\ LiveBatchCharged'
    BY Zenon, <1>1, <1>5, SameBooks DEF IndInv, LiveBatchCharged
  <2> QED
    BY Zenon, <1>1, <1>2, <1>5, <2>1, GotoStep
<1>6. CASE /\ res[r].state = "reserved" /\ res[r].freq = "none"
           /\ res' = [res EXCEPT ![r].freq = IF allowed THEN "counted" ELSE "filtered"]
           /\ value' = [value EXCEPT ![phone] = IF allowed THEN @ + 1 ELSE @]
           /\ Goto(p, "freq_apply")
  <2> DEFINE e == [res[r] EXCEPT !.freq = IF allowed THEN "counted" ELSE "filtered"]
  <2>1. /\ e \in Reservation /\ e.state = "reserved" /\ e.key = res[r].key
        /\ e.cost = res[r].cost /\ e.freq = IF allowed THEN "counted" ELSE "filtered"
    BY Zenon, <1>3, <1>6 DEF Reservation
  <2>2. res' = [res EXCEPT ![r] = e]
    BY Zenon, <1>2, <1>6 DEF Table
  <2> HIDE DEF e
  <2>3. value[phone] = Cardinality(Counted(phone)) /\ value[phone] \in Nat
    BY Zenon, <1>4, TypesOf, PhoneBooked
  <2>4. value' \in [Dims -> Nat]
    <3> HIDE DEF phone, allowed
    <3>1. (IF allowed THEN value[phone] + 1 ELSE value[phone]) \in Nat
      BY <2>3
    <3> QED
      BY Zenon, <1>2, <1>4, <1>6, <3>1
  <2>5. ASSUME NEW d \in Dims
        PROVE  /\ value'[d] = value[d] - Weight(res[r], d) + Weight(e, d)
               /\ value'[d] <= value[d] \/ Fit(d, value'[d])
    <3>1. Weight(res[r], d) \in Nat /\ value[d] \in Nat
      BY Zenon, <1>2, <1>3, AmountNat
    <3>2. CASE d = phone /\ allowed
      <4>1. Weight(e, d) = Weight(res[r], d) + 1
        <5>1. Weight(e, d) = Amount(e, d) /\ Weight(res[r], d) = Amount(res[r], d)
          BY Zenon, <1>6, <2>1 DEF Weight, Active
        <5>2. Amount(res[r], d) = 0
          <6>1. d \notin QuotaDims(res[r].key) /\ ~(res[r].freq = "counted")
            BY Zenon, <1>4, <1>6, <3>2
          <6> QED
            BY <6>1 DEF Amount
        <5>3. Amount(e, d) = 1
          BY <1>4, <2>1, <3>2 DEF Amount
        <5> QED
          BY <5>1, <5>2, <5>3
      <4>2. value'[d] = value[d] + 1
        BY Zenon, <1>2, <1>4, <1>6, <3>2
      <4>3. value'[d] <= FreqLimit
        BY Zenon, <2>3, <3>2, <4>2
      <4>4. Fit(d, value'[d])
        BY Zenon, <1>4, <3>2, <4>3 DEF Fit
      <4> QED
        BY <3>1, <4>1, <4>2, <4>4
    <3>3. CASE d # phone \/ ~allowed
      <4>1. Weight(e, d) = Weight(res[r], d)
        <5>1. (d = PhoneOf[e.key] /\ e.freq = "counted")
                <=> (d = PhoneOf[res[r].key] /\ res[r].freq = "counted")
          BY Zenon, <1>6, <2>1, <3>3
        <5>2. Amount(e, d) = Amount(res[r], d)
          BY Zenon, <2>1, <5>1 DEF Amount
        <5> QED
          BY Zenon, <1>6, <2>1, <5>2 DEF Weight
      <4>2. value'[d] = value[d]
        BY Zenon, <1>2, <1>4, <1>6, <3>3
      <4> QED
        BY <3>1, <4>1, <4>2
    <3> QED
      BY Zenon, <3>2, <3>3
  <2>6. Booking /\ res'[r] = e /\ \A q \in Rows : q # r => res'[q] = res[q]
    BY Zenon, <1>3, <2>1, <2>2, <2>4, <2>5, WriteRow
  <2>7. LiveBatchCharged'
    BY Zenon, <1>1, <1>6, <2>1, <2>6 DEF IndInv, LiveBatchCharged
  <2> QED
    BY Zenon, <1>1, <1>2, <1>6, <2>6, <2>7, GotoStep
<1> QED
  BY Zenon, <1>5, <1>6 DEF AllowFrequency

\* The quota entries of application and department, or none.
LEMMA ReserveQuotaStep ==
  ASSUME IndInv, NEW p \in Requests, NEW c \in Costs, ReserveQuota(p, c)
  PROVE  IndInv'
<1> DEFINE r == req[p].r
           k == res[r].key
<1>1. req[p].pc = "quota" /\ UNCHANGED <<batch, orphans, aborts, notice>>
  BY Zenon DEF ReserveQuota
<1>2. /\ Control(p) /\ batch \in [Rows -> {"none", "live", "ended"}] /\ res \in Table
      /\ value \in [Dims -> Nat] /\ "quota_apply" \in Pcs /\ "release" \in Pcs
  BY Zenon, TypesOf DEF Pcs
<1>3. r \in Rows /\ res[r] \in Reservation
  BY Zenon, <1>1, <1>2, TypesOf DEF Control
<1>4. /\ AppOf[k] \in Apps /\ AppOf[k] \in Dims /\ Dept \in Dims
      /\ Dept \notin Apps /\ Dept \notin Phones /\ AppOf[k] \notin Phones
      /\ k \in Keys
  BY Zenon, <1>3, DimensionsApart DEF Reservation
<1>5. c \in Nat /\ c > 0
  <2>1. \A x \in Costs : x \in Nat \ {0}
    BY Zenon, UsageLedgerAssumption
  <2> QED
    BY <2>1
<1>6. CASE UNCHANGED <<res, value>> /\ Goto(p, "release")
  <2>1. Booking /\ LiveBatchCharged'
    BY Zenon, <1>1, <1>6, SameBooks DEF IndInv, LiveBatchCharged
  <2> QED
    BY Zenon, <1>1, <1>2, <1>6, <2>1, GotoStep
<1>7. CASE UNCHANGED <<res, value>> /\ Goto(p, "quota_apply") /\ res[r].cost = c
  <2>1. Booking /\ LiveBatchCharged'
    BY Zenon, <1>1, <1>7, SameBooks DEF IndInv, LiveBatchCharged
  <2>2. res'[r].cost > 0
    BY Zenon, <1>5, <1>7
  <2> QED
    BY Zenon, <1>1, <1>2, <1>7, <2>1, <2>2, GotoStep
<1>8. CASE /\ res[r].state = "reserved" /\ res[r].cost = 0
           /\ AppLimit = 0 \/ value[AppOf[k]] + c <= AppLimit
           /\ DeptLimit = 0 \/ value[Dept] + c <= DeptLimit
           /\ res' = [res EXCEPT ![r].cost = c]
           /\ value' = [d \in Dims |-> IF d \in QuotaDims(k) THEN value[d] + c ELSE value[d]]
           /\ Goto(p, "quota_apply")
  <2> DEFINE e == [res[r] EXCEPT !.cost = c]
  <2>1. /\ e \in Reservation /\ e.state = "reserved" /\ e.key = k
        /\ e.cost = c /\ e.freq = res[r].freq
    BY Zenon, <1>3, <1>8 DEF Reservation
  <2>2. res' = [res EXCEPT ![r] = e]
    BY Zenon, <1>2, <1>8 DEF Table
  <2> HIDE DEF e
  <2>3. value' \in [Dims -> Nat]
    BY <1>2, <1>5, <1>8
  <2>4. ASSUME NEW d \in Dims
        PROVE  /\ value'[d] = value[d] - Weight(res[r], d) + Weight(e, d)
               /\ value'[d] <= value[d] \/ Fit(d, value'[d])
    <3>1. Weight(res[r], d) \in Nat /\ value[d] \in Nat
      BY Zenon, <1>2, <1>3, AmountNat
    <3>2. CASE d \in QuotaDims(k)
      <4>1. Weight(e, d) = Weight(res[r], d) + c
        <5>1. Weight(e, d) = Amount(e, d) /\ Weight(res[r], d) = Amount(res[r], d)
          BY Zenon, <1>8, <2>1 DEF Weight, Active
        <5>2. Amount(e, d) = Amount(res[r], d) + c
          BY <1>5, <1>8, <2>1, <3>2 DEF Amount
        <5> QED
          BY Zenon, <5>1, <5>2
      <4>2. value'[d] = value[d] + c
        BY Zenon, <1>8, <3>2
      <4>3. d = AppOf[k] \/ d = Dept
        BY Zenon, <3>2 DEF QuotaDims
      <4>4. Fit(d, value'[d])
        BY Zenon, <1>4, <1>8, <4>2, <4>3 DEF Fit
      <4> QED
        BY <1>5, <3>1, <4>1, <4>2, <4>4
    <3>3. CASE d \notin QuotaDims(k)
      <4>1. Amount(e, d) = Amount(res[r], d)
        BY Zenon, <2>1, <3>3 DEF Amount
      <4>2. Weight(e, d) = Weight(res[r], d)
        BY Zenon, <1>8, <2>1, <4>1 DEF Weight
      <4>3. value'[d] = value[d]
        BY Zenon, <1>8, <3>3
      <4> QED
        BY <3>1, <4>2, <4>3
    <3> QED
      BY Zenon, <3>2, <3>3
  <2>5. e.cost > 0
    BY Zenon, <1>5, <2>1
  <2>6. Booking /\ res'[r] = e /\ \A q \in Rows : q # r => res'[q] = res[q]
    BY Zenon, <1>3, <2>1, <2>2, <2>3, <2>4, <2>5, WriteRow
  <2>7. LiveBatchCharged'
    BY Zenon, <1>1, <1>8, <2>6 DEF IndInv, LiveBatchCharged
  <2> QED
    BY Zenon, <1>1, <1>2, <1>8, <2>5, <2>6, <2>7, GotoStep
<1> QED
  BY Zenon, <1>6, <1>7, <1>8 DEF ReserveQuota
\* Steps of an acceptance that book nothing.
LEMMA UnbookedStep ==
  ASSUME IndInv, NEW p \in Requests, Applied(p) \/ WorkFailed(p) \/ Crash(p)
  PROVE  IndInv'
<1>1. UNCHANGED <<res, batch, value, orphans, aborts, notice>>
  BY Zenon DEF Applied, WorkFailed, Crash
<1>2. /\ Control(p) /\ batch' \in [Rows -> {"none", "live", "ended"}]
      /\ {"quota", "release", "commit", "over"} \subseteq Pcs
  BY Zenon, <1>1, TypesOf DEF Pcs
<1>3. Booking /\ LiveBatchCharged'
  BY Zenon, <1>1, SameBooks DEF IndInv, LiveBatchCharged
<1>4. CASE req[p].pc = "freq_apply" /\ \E pc \in {"quota", "release"} : Goto(p, pc)
  BY Zenon, <1>1, <1>2, <1>3, <1>4, GotoStep
<1>5. CASE req[p].pc = "quota_apply" /\ Goto(p, "commit")
  <2>1. res'[req[p].r].cost > 0
    BY Zenon, <1>1, <1>2, <1>5 DEF Control
  <2> QED
    BY Zenon, <1>1, <1>2, <1>3, <1>5, <2>1, GotoStep
<1>6. CASE WorkFailed(p)
  <2>1. req[p].pc \notin {"start", "over"} /\ Goto(p, "release")
    BY Zenon, <1>6 DEF WorkFailed
  <2> QED
    BY Zenon, <1>1, <1>2, <1>3, <2>1, GotoStep
<1>7. CASE Crash(p)
  <2>1. Goto(p, "over")
    BY Zenon, <1>7 DEF Crash
  <2> QED
    BY Zenon, <1>1, <1>2, <1>3, <2>1, GotoStep
<1> QED
  BY Zenon, <1>4, <1>5, <1>6, <1>7 DEF Applied

\* The projection write failed: the row becomes uncertain.
LEMMA ApplyFailedStep == ASSUME IndInv, NEW p \in Requests, ApplyFailed(p) PROVE IndInv'
<1> DEFINE r == req[p].r
           st == IF res[r].state = "reserved" THEN "uncertain" ELSE res[r].state
           e == [res[r] EXCEPT !.state = st]
<1>1. /\ req[p].pc \in {"freq_apply", "quota_apply"} /\ Goto(p, "release")
      /\ UNCHANGED <<batch, value, orphans, aborts, notice>>
  BY Zenon DEF ApplyFailed
<1>2. /\ Control(p) /\ batch' \in [Rows -> {"none", "live", "ended"}] /\ res \in Table
      /\ "release" \in Pcs
  BY Zenon, <1>1, TypesOf DEF Pcs
<1>3. r \in Rows /\ res[r] \in Reservation /\ res[r].state # "none"
  BY Zenon, <1>1, <1>2, TypesOf DEF Control
<1>4. /\ e \in Reservation /\ e.state = st /\ e.key = res[r].key /\ e.cost = res[r].cost
      /\ e.freq = res[r].freq
  BY Zenon, <1>3 DEF Reservation, Active
<1>5. res' = [res EXCEPT ![r] = e]
  BY Zenon, <1>2 DEF ApplyFailed, Table
<1> HIDE DEF e
<1>6. \A d \in Dims : Weight(e, d) = Weight(res[r], d)
  BY Zenon, <1>4 DEF Weight, Amount, Active
<1>7. Booking /\ res'[r] = e /\ \A q \in Rows : q # r => res'[q] = res[q]
  BY Zenon, <1>1, <1>3, <1>4, <1>5, <1>6, WriteQuietRow
<1>8. LiveBatchCharged'
  BY Zenon, <1>1, <1>4, <1>7 DEF IndInv, LiveBatchCharged
<1> QED
  BY Zenon, <1>1, <1>2, <1>7, <1>8, GotoStep

\* The batch is inserted and the row becomes its charge.
LEMMA CommitBatchStep == ASSUME IndInv, NEW p \in Requests, CommitBatch(p) PROVE IndInv'
<1> DEFINE r == req[p].r
           ok == res[r].state = "reserved" /\ ~Linked(r)
<1>1. req[p].pc = "commit" /\ UNCHANGED <<value, orphans, aborts, notice>>
  BY Zenon DEF CommitBatch
<1>2. /\ Control(p) /\ batch \in [Rows -> {"none", "live", "ended"}] /\ res \in Table
      /\ {"release", "over"} \subseteq Pcs
  BY Zenon, TypesOf DEF Pcs
<1>3. r \in Rows /\ res[r] \in Reservation /\ res[r].cost > 0
  BY Zenon, <1>1, <1>2, TypesOf DEF Control
<1>4. CASE ok
  <2> DEFINE e == [res[r] EXCEPT !.state = "committed"]
  <2>1. /\ batch' = [batch EXCEPT ![r] = "live"]
        /\ \E pc \in {"over", "release"} : Goto(p, pc)
    BY Zenon, <1>4 DEF CommitBatch
  <2>2. res' = [res EXCEPT ![r] = e]
    BY Zenon, <1>2, <1>4 DEF CommitBatch, Table
  <2>3. /\ e \in Reservation /\ e.state = "committed" /\ e.key = res[r].key
        /\ e.cost = res[r].cost /\ e.freq = res[r].freq
    BY Zenon, <1>3 DEF Reservation, Active
  <2> HIDE DEF e
  <2>4. \A d \in Dims : Weight(e, d) = Weight(res[r], d)
    BY Zenon, <1>4, <2>3 DEF Weight, Amount, Active
  <2>5. Booking /\ res'[r] = e /\ \A q \in Rows : q # r => res'[q] = res[q]
    BY Zenon, <1>1, <1>3, <2>2, <2>3, <2>4, WriteQuietRow
  <2>6. /\ batch' \in [Rows -> {"none", "live", "ended"}]
        /\ \A q \in Rows : q # r => batch'[q] = batch[q]
    BY Zenon, <1>2, <2>1
  <2>7. LiveBatchCharged'
    BY Zenon, <1>3, <2>3, <2>5, <2>6 DEF IndInv, LiveBatchCharged
  <2> QED
    BY Zenon, <1>1, <1>2, <2>1, <2>5, <2>6, <2>7, GotoStep
<1>5. CASE ~ok
  <2>1. UNCHANGED <<batch, res>> /\ Goto(p, "release")
    BY Zenon, <1>5 DEF CommitBatch
  <2>2. Booking /\ LiveBatchCharged'
    BY Zenon, <1>1, <2>1, SameBooks DEF IndInv, LiveBatchCharged
  <2> QED
    BY Zenon, <1>1, <1>2, <2>1, <2>2, GotoStep
<1> QED
  BY Zenon, <1>4, <1>5

\* A failed acceptance gives back what no batch names.
LEMMA ReleaseUsageStep == ASSUME IndInv, NEW p \in Requests, ReleaseUsage(p) PROVE IndInv'
<1>1. /\ req[p].pc = "release" /\ Goto(p, "over")
      /\ ReleaseUnlinked(req[p].r) \/ UNCHANGED <<res, value>>
      /\ UNCHANGED <<batch, orphans, aborts, notice>>
  BY Zenon DEF ReleaseUsage
<1>2. /\ Control(p) /\ batch' \in [Rows -> {"none", "live", "ended"}] /\ "over" \in Pcs
  BY Zenon, <1>1, TypesOf DEF Pcs
<1>3. req[p].r \in Rows
  BY Zenon, <1>1, <1>2 DEF Control
<1>4. Booking /\ LiveBatchCharged'
  <2>1. CASE ReleaseUnlinked(req[p].r)
    BY Zenon, <1>1, <1>3, <2>1, ReleaseUnlinkedBooks
  <2>2. CASE UNCHANGED <<res, value>>
    BY Zenon, <1>1, <2>2, SameBooks DEF IndInv, LiveBatchCharged
  <2> QED
    BY Zenon, <1>1, <2>1, <2>2
<1> QED
  BY Zenon, <1>1, <1>2, <1>4, GotoStep

----------------------------------------------------------------------------
(* Release and recovery *)

\* The end of a batch asks for the release.
LEMMA EndBatchStep == ASSUME IndInv, NEW r \in Rows, EndBatch(r) PROVE IndInv'
<1>1. /\ batch[r] = "live" /\ batch' = [batch EXCEPT ![r] = "ended"]
      /\ UNCHANGED <<req, orphans, aborts, notice>>
  BY Zenon DEF EndBatch
<1>2. /\ res[r].state \in Active /\ batch \in [Rows -> {"none", "live", "ended"}]
      /\ orphans' \subseteq Rows /\ aborts' \in 0..MaxAborts
  BY Zenon, <1>1, TypesOf DEF IndInv, LiveBatchCharged, Active
<1>3. Booking /\ \A q \in Rows : q # r => res'[q] = res[q]
  BY Zenon, <1>2, ReleaseRow DEF EndBatch
<1>4. /\ batch' \in [Rows -> {"none", "live", "ended"}] /\ batch'[r] = "ended"
      /\ \A q \in Rows : q # r => batch'[q] = batch[q]
  BY Zenon, <1>1, <1>2
<1>5. LiveBatchCharged'
  BY Zenon, <1>3, <1>4 DEF IndInv, LiveBatchCharged
<1> QED
  BY Zenon, <1>1, <1>2, <1>3, <1>4, <1>5, RowKeeps

\* The recovery task and the release it or another asked for.
LEMMA RecoveryStep == ASSUME IndInv, NEW r \in Rows, Recovery(r) PROVE IndInv'
<1>1. /\ UNCHANGED <<batch, req, aborts, notice>> /\ orphans' \subseteq Rows
      /\ aborts' \in 0..MaxAborts /\ batch' \in [Rows -> {"none", "live", "ended"}]
  BY Zenon, TypesOf DEF Recovery, ApplyRelease, ScanOrphan, RecoverOrphan
<1>2. CASE ApplyRelease(r)
  <2> DEFINE e == [res[r] EXCEPT !.state = "released"]
  <2>1. res \in Table /\ res[r] \in Reservation /\ res[r].state = "release_requested"
    BY Zenon, <1>2, TypesOf DEF ApplyRelease
  <2>2. e \in Reservation /\ e.state = "released" /\ e.cost = res[r].cost
    BY Zenon, <2>1 DEF Reservation
  <2>3. res' = [res EXCEPT ![r] = e] /\ value' = value
    BY Zenon, <1>2, <2>1 DEF ApplyRelease, Table
  <2> HIDE DEF e
  <2>4. \A d \in Dims : Weight(e, d) = Weight(res[r], d)
    BY Zenon, <2>1, <2>2 DEF Weight, Active
  <2>5. Booking /\ \A q \in Rows : q # r => res'[q] = res[q]
    BY Zenon, <2>1, <2>2, <2>3, <2>4, WriteQuietRow
  <2>6. LiveBatchCharged'
    BY Zenon, <1>1, <2>1, <2>5 DEF IndInv, LiveBatchCharged
  <2> QED
    BY Zenon, <1>1, <2>5, <2>6, RowKeeps
<1>3. CASE ScanOrphan(r)
  <2>1. Booking /\ LiveBatchCharged'
    BY Zenon, <1>3, SameBooks DEF ScanOrphan, IndInv, LiveBatchCharged
  <2> QED
    BY Zenon, <1>1, <2>1, RowKeeps
<1>4. CASE RecoverOrphan(r)
  <2>1. Booking /\ LiveBatchCharged'
    BY Zenon, <1>1, <1>4, ReleaseUnlinkedBooks DEF RecoverOrphan
  <2> QED
    BY Zenon, <1>1, <2>1, RowKeeps
<1> QED
  BY Zenon, <1>2, <1>3, <1>4 DEF Recovery

\* A round cut short forgets its ids.
LEMMA RecoverAbortedStep == ASSUME IndInv, RecoverAborted PROVE IndInv'
<1>1. UNCHANGED <<res, batch, value, req, notice>> /\ orphans' = {} /\ aborts' = aborts + 1
  BY Zenon DEF RecoverAborted
<1>2. aborts' \in 0..MaxAborts
  <2>1. MaxAborts \in Nat
    BY Zenon, UsageLedgerAssumption
  <2> QED
    BY <1>1, <2>1, TypesOf DEF RecoverAborted
<1>3. Booking /\ LiveBatchCharged'
  BY Zenon, <1>1, SameBooks DEF IndInv, LiveBatchCharged
<1> QED
  BY Zenon, <1>1, <1>2, <1>3, TypesOf, RowKeeps

\* Steps of other components.
LEMMA StutterStep == ASSUME IndInv, UNCHANGED vars PROVE IndInv'
<1>1. UNCHANGED <<res, batch, value, req, orphans, aborts, notice>>
  BY Zenon DEF vars
<1>2. Booking /\ LiveBatchCharged'
  BY Zenon, <1>1, SameBooks DEF IndInv, LiveBatchCharged
<1> QED
  BY Zenon, <1>1, <1>2, TypesOf, RowKeeps

----------------------------------------------------------------------------
(* Results about the ledger *)

\* An empty ledger.
LEMMA InitInv == Init => IndInv
<1> SUFFICES ASSUME Init PROVE IndInv
  OBVIOUS
<1>1. (CHOOSE k \in Keys : TRUE) \in Keys
  BY Zenon, UsageLedgerAssumption
<1>2. MaxAborts \in Nat /\ FreqLimit \in Nat /\ AppLimit \in Nat /\ DeptLimit \in Nat
  BY Zenon, UsageLedgerAssumption
<1>3. TypeOK
  BY <1>1, <1>2 DEF Init, TypeOK, Reservation, Pcs
<1>4. \A r \in Rows : ~(res[r].state \in Active)
  BY Zenon DEF Init, Active
<1>5. ASSUME NEW d PROVE Units(res, d) = {}
  BY Zenon, <1>4 DEF Units
<1>6. Finite /\ \A d \in Dims : Booked(d) = 0
  BY Zenon, <1>5, FS_EmptySet DEF Finite, Booked
<1>7. ASSUME NEW d \in Dims PROVE value[d] = Booked(d) /\ Fit(d, Booked(d))
  BY <1>2, <1>6 DEF Init, Fit
<1>8. WithinLimits
  BY Zenon, <1>7, LimitsByDimension
<1>9. LiveBatchCharged /\ \A p \in Requests : Control(p)
  BY DEF Init, LiveBatchCharged, Control
<1> QED
  BY Zenon, <1>3, <1>6, <1>8, <1>9 DEF IndInv

\* Every step of the ledger.
LEMMA NextInv == IndInv /\ [Next]_vars => IndInv'
<1> SUFFICES ASSUME IndInv, [Next]_vars PROVE IndInv'
  OBVIOUS
<1>1. ASSUME NEW p \in Requests, Acceptance(p) PROVE IndInv'
  BY Zenon, <1>1, StartReservationStep, DrainStep, AllowFrequencyStep, ReserveQuotaStep,
     UnbookedStep, ApplyFailedStep, CommitBatchStep, ReleaseUsageStep DEF Acceptance
<1>2. ASSUME NEW r \in Rows, EndBatch(r) \/ Recovery(r) PROVE IndInv'
  BY Zenon, <1>2, EndBatchStep, RecoveryStep
<1> QED
  BY Zenon, <1>1, <1>2, RecoverAbortedStep, StutterStep DEF Next

\* The ledger keeps its inductive invariant: acceptances know their rows, and the
\* values are the sums of the active entries.
THEOREM Invariant == Spec => []IndInv
  BY InitInv, NextInv, PTL DEF Spec

\* The daily limits of applications, of the department and of phones hold for any
\* number of concurrent acceptances, and reserve_quota decides on a value that is
\* the sum of the active entries, whatever was replayed, released twice, drained or
\* recovered.
THEOREM LimitsHold == Spec => []WithinLimits
<1>1. IndInv => WithinLimits
  BY Zenon DEF IndInv
<1> QED
  BY Invariant, <1>1, PTL

\* A batch that may be sent keeps its charge: request_unlinked_release, called by a
\* retry, by the acceptance that lost the answer to its commit or by
\* recover_orphans, never releases it.
THEOREM ChargesStay == Spec => []LiveBatchCharged
<1>1. IndInv => LiveBatchCharged
  BY Zenon DEF IndInv
<1> QED
  BY Invariant, <1>1, PTL

=============================================================================
