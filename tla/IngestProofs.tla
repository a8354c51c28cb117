---------------------------- MODULE IngestProofs ----------------------------
(***************************************************************************)
(* Proofs about what comes back from the vendor.                           *)
(*                                                                         *)
(* RawIngest: for any number of polls, replays and operators and any       *)
(* items, a response that was read to its end is not lost, and a row       *)
(* counts as processed only if it was. ReportProjection: for every set of  *)
(* messages, chunks and reports, which report a message shows, that the    *)
(* counters kept by difference are exact, and that what has ended stays    *)
(* ended.                                                                  *)
(***************************************************************************)
EXTENDS RawIngest, ReportProjection, TLAPS

----------------------------------------------------------------------------
(* The response *)

(* The inductive invariant *)

RowPcs == {"idle", "recover", "recovered", "mark_capture", "remove", "call", "receive", "spill",
           "discard", "persist", "cleanup", "persisted", "items", "claim", "decode", "audit",
           "reevaluate"}
Eligible == {"automatic", "manual", "never"}
SeenType == [done : BOOLEAN, elig : Eligible]
RowType == [cap : Captures, elig : Eligible, done : BOOLEAN, held : BOOLEAN, live : BOOLEAN,
            epoch : Nat, attempts : Nat, audit : {"none", "pending", "completed"},
            asked : SUBSET Nat, told : BOOLEAN]
WorkerType == [pc : RowPcs, row : Nat, epoch : Nat, todo : SUBSET Items, skipped : BOOLEAN,
               cap : Captures \cup {None}, tried : SUBSET {"spill", "stream"},
               file : {"spill", "stream", None}, seen : SeenType \cup {None}]
StreamType == [state : {"none", "partial", "done", "broken"}, cap : Captures \cup {None}]

RawTypes ==
  /\ queued \in BOOLEAN /\ overlap \in BOOLEAN /\ envelope \in Envelopes
  /\ stream \in StreamType /\ spill \in Captures \cup {None} /\ received \in Captures \cup {None}
  /\ stream = NoFile \/ stream.cap \in Captures
  /\ rows \in Seq(RowType) /\ facts \subseteq Items
  /\ w \in [Workers -> WorkerType]

\* A row that was told of was processed by then, or can never be.
RowGood(row) == Earned(row) /\ (row.told => row.done \/ envelope = "spoiled")
RowsGood == \A r \in DOMAIN rows : RowGood(rows[r])

\* The one poll that received the response.
Receiving == {"receive", "spill", "discard", "persist", "cleanup"}

\* What a process relies on where it is.
WorkerGood(i) ==
  /\ w[i].pc \in {"cleanup", "persisted", "mark_capture", "items", "claim", "decode", "audit",
                  "reevaluate"} => w[i].row \in DOMAIN rows
  /\ w[i].pc \in {"cleanup", "persisted", "mark_capture"} => rows[w[i].row].cap = w[i].cap
  /\ w[i].pc \in {"items", "decode", "reevaluate"} => rows[w[i].row].cap \in Replayable
  /\ w[i].pc = "items" => /\ Decodes
                          /\ (Items \ w[i].todo) \ Unparsable \subseteq facts
                          /\ Unparsable \subseteq w[i].todo \/ w[i].skipped
  /\ w[i].skipped => envelope = "spoiled" /\ ~queued
  /\ w[i].pc = "audit" => rows[w[i].row].done \/ envelope = "spoiled"
  /\ w[i].pc = "reevaluate" => w[i].seen \in SeenType
  /\ w[i].pc \in {"recovered"} \cup Receiving => w[i].cap \in Captures
  /\ w[i].pc \in {"call", "persisted"} \cup Receiving => w[i].file = None
  /\ w[i].pc \in Receiving => i \in Pollers

Recovering(i) ==
  w[i].pc \in {"recovered", "remove"} \/ (w[i].pc = "mark_capture" /\ w[i].file # None)
Rowed == \E r \in DOMAIN rows : rows[r].cap = received

\* Nothing happens before the response leaves the queue.
Quiescent ==
  queued => /\ stream = NoFile /\ spill = None /\ received = None /\ rows = <<>>
            /\ \A i \in Workers : w[i].pc \in {"idle", "recover", "call"}

\* One poll receives it, alone unless its lock was lost.
OneReceives ==
  /\ \A i, j \in Workers : w[i].pc \in Receiving /\ w[j].pc \in Receiving => i = j
  /\ \A i \in Workers :
       /\ w[i].pc \in Receiving \ {"receive"} => received = w[i].cap
       /\ w[i].pc = "receive" => received = None
       /\ w[i].pc = "receive" /\ ~overlap =>
            /\ stream = [state |-> "partial", cap |-> w[i].cap] /\ spill = None
            /\ \A j \in Workers : ~Recovering(j)

\* What was received is somewhere, and whoever is about to remove a copy has seen to
\* another one.
Safe ==
  received # None /\ ~overlap =>
    /\ NothingLost /\ spill \in {None, received}
    /\ stream = NoFile \/ stream = [state |-> "done", cap |-> received]
    /\ \A i \in Workers :
         /\ Recovering(i) => w[i].cap = received /\ (w[i].pc # "recovered" => Rowed)
         /\ w[i].pc = "discard" => spill = received \/ Rowed
         /\ w[i].pc = "cleanup" => Rowed

RawInv ==
  /\ RawTypes /\ RowsGood
  /\ \A i \in Workers : WorkerGood(i)
  /\ Quiescent /\ OneReceives /\ Safe
----------------------------------------------------------------------------
(* Items, rows and processes *)

\* The items that cannot be parsed: the last one, or none.
LEMMA UnparsableIs ==
  /\ Unparsable \subseteq Items /\ (Unparsable = {} <=> envelope # "spoiled")
  /\ \A n \in Unparsable : Unparsable \subseteq {n}
<1> DEFINE L == {n \in Items : \A m \in Items : m <= n}
<1>1. L \subseteq Items /\ L # {}
  BY Zenon, RawIngestAssumption
<1>2. ASSUME NEW n \in L, NEW m \in L PROVE m = n
  <2>1. n \in Nat /\ m \in Nat /\ m <= n /\ n <= m
    BY Zenon, RawIngestAssumption
  <2> QED
    BY <2>1
<1>3. \A n \in L : L \subseteq {n}
  BY Zenon, <1>2
<1>4. Unparsable = IF envelope = "spoiled" THEN L ELSE {}
  BY Zenon DEF Unparsable
<1> HIDE DEF L
<1> QED
  BY Zenon, <1>1, <1>3, <1>4

\* No process.
LEMMA IdleIs ==
  /\ Idle \in WorkerType /\ Idle.pc = "idle" /\ Idle.skipped = FALSE /\ Idle.file = None
BY Zenon DEF Idle, WorkerType, RowPcs

\* What a step may do to the rows.
RowsKept ==
  \A r \in DOMAIN rows :
    /\ r \in DOMAIN rows' /\ rows'[r].cap = rows[r].cap
    /\ rows[r].done => rows'[r].done /\ rows'[r].elig = "never"
RowStep == rows' \in Seq(RowType) /\ RowsKept /\ RowsGood'

\* Rows that stay are as good as before.
LEMMA RowsStay ==
  ASSUME RawTypes, RowsGood, rows' = rows, envelope' = envelope, facts \subseteq facts', facts' \subseteq Items
  PROVE  RowStep
<1>1. RowsGood'
  BY Zenon DEF RawTypes, RowsGood, RowGood, Earned
<1> QED
  BY Zenon, <1>1 DEF RowStep, RowsKept, RawTypes, RowsGood, RowGood, Earned

\* One row is written.
LEMMA RowWritten ==
  ASSUME RawTypes, RowsGood, NEW r \in DOMAIN rows, NEW x \in RowType, rows' = [rows EXCEPT ![r] = x],
         envelope' = envelope, facts' = facts, x.cap = rows[r].cap,
         rows[r].done => x.done /\ x.elig = "never", RowGood(x)
  PROVE  RowStep /\ DOMAIN rows' = DOMAIN rows /\ rows'[r] = x
<1>1. rows' \in Seq(RowType) /\ DOMAIN rows' = DOMAIN rows /\ rows'[r] = x
  BY DEF RawTypes
<1>2. \A q \in DOMAIN rows : q # r => rows'[q] = rows[q]
  OBVIOUS
<1>3. RowsKept
  BY Zenon, <1>1, <1>2 DEF RowsKept, RowsGood, RowGood, Earned
<1>4. RowsGood'
  BY Zenon, <1>1, <1>2 DEF RowsGood, RowGood, Earned
<1> QED
  BY Zenon, <1>1, <1>3, <1>4 DEF RowStep

\* A row is inserted.
LEMMA RowInserted ==
  ASSUME RawTypes, RowsGood, NEW cap \in Captures, NEW owned \in BOOLEAN,
         rows' = Append(rows, NewRow(cap, owned)), envelope' = envelope, facts' = facts
  PROVE  RowStep /\ Len(rows) + 1 \in DOMAIN rows' /\ rows'[Len(rows) + 1].cap = cap
<1> DEFINE x == NewRow(cap, owned)
<1>1. /\ x \in RowType /\ x.cap = cap /\ x.done = FALSE /\ x.told = FALSE
      /\ x.epoch \in 0..1 /\ (cap \notin Replayable => x.elig = "never")
  BY DEF NewRow, PersistElig, RowType, Eligible, Replayable
<1>2. RowGood(x)
  BY <1>1 DEF RowGood, Earned
<1> HIDE DEF x
<1>3. /\ rows' \in Seq(RowType) /\ Len(rows') = Len(rows) + 1 /\ rows'[Len(rows) + 1] = x
      /\ \A q \in 1..Len(rows) : rows'[q] = rows[q]
  BY <1>1 DEF RawTypes, x
<1>4. /\ DOMAIN rows = 1..Len(rows) /\ Len(rows) \in Nat /\ DOMAIN rows' = 1..(Len(rows) + 1)
  BY <1>3 DEF RawTypes
<1>5. RowsKept
  BY <1>3, <1>4 DEF RowsKept, RowsGood, RowGood, Earned
<1>6. RowsGood'
  BY <1>2, <1>3, <1>4 DEF RowsGood, RowGood, Earned
<1> QED
  BY <1>1, <1>3, <1>4, <1>5, <1>6 DEF RowStep

\* An error is recorded by whoever holds the row.
LEMMA ErrorMarked ==
  ASSUME RawTypes, RowsGood, NEW i \in Workers, w[i].row \in DOMAIN rows, NEW elig \in Eligible,
         MarkError(i, elig), envelope' = envelope, facts' = facts
  PROVE  RowStep
<1>1. CASE ~Fenced(i)
  BY Zenon, <1>1, RowsStay DEF MarkError, RawTypes
<1>2. CASE Fenced(i)
  <2> DEFINE row == rows[w[i].row]
             x == [row EXCEPT !.done = FALSE, !.elig = IF row.elig = "never" THEN "never" ELSE elig,
                              !.held = FALSE, !.live = FALSE]
  <2>1. row \in RowType /\ row.held /\ RowGood(row)
    BY <1>2 DEF RawTypes, Fenced, RowsGood
  <2>2. ~row.done
    BY Zenon, <2>1 DEF RowGood, Earned
  <2>3. rows' = [rows EXCEPT ![w[i].row] = x]
    BY Zenon, <1>2 DEF MarkError
  <2> HIDE DEF row
  <2>4. x \in RowType /\ x.cap = row.cap /\ x.done = FALSE /\ x.told = row.told /\ x.epoch = row.epoch
        /\ (row.elig = "never" => x.elig = "never")
    BY Zenon, <2>1 DEF RowType, Eligible
  <2> HIDE DEF x
  <2>5. RowGood(x)
    BY Zenon, <2>1, <2>2, <2>4 DEF RowGood, Earned
  <2> QED
    BY Zenon, <2>2, <2>3, <2>4, <2>5, RowWritten DEF row
<1> QED
  BY Zenon, <1>1, <1>2

\* A process goes on.
LEMMA Moved ==
  ASSUME RawTypes, NEW i \in Workers, NEW x \in WorkerType, w' = [w EXCEPT ![i] = x]
  PROVE  w' \in [Workers -> WorkerType] /\ w'[i] = x /\ \A j \in Workers \ {i} : w'[j] = w[j]
BY Zenon DEF RawTypes

\* The other processes lose nothing.
LEMMA OthersKept ==
  ASSUME RowsKept, envelope' = envelope, queued' = queued, facts \subseteq facts',
         NEW j \in Workers, WorkerGood(j), w'[j] = w[j]
  PROVE  WorkerGood(j)'
BY Zenon DEF RowsKept, WorkerGood, Decodes, Unparsable

\* The parts of a step make the invariant.
LEMMA MovePreserves ==
  ASSUME RawInv, RowStep, NEW i \in Workers, NEW x \in WorkerType, w' = [w EXCEPT ![i] = x],
         envelope' = envelope, queued' = queued, facts \subseteq facts', facts' \subseteq Items,
         received' \in Captures \cup {None}, overlap' \in BOOLEAN, spill' \in Captures \cup {None},
         stream' \in StreamType, stream' = NoFile \/ stream'.cap \in Captures,
         WorkerGood(i)', Quiescent', OneReceives', Safe'
  PROVE  RawInv'
<1>1. w' \in [Workers -> WorkerType] /\ \A j \in Workers \ {i} : w'[j] = w[j]
  BY Zenon, Moved DEF RawInv
<1>2. RawTypes'
  BY Zenon, <1>1 DEF RawInv, RawTypes, RowStep, NoFile
<1>3. \A j \in Workers : WorkerGood(j)'
  BY Zenon, <1>1, OthersKept DEF RawInv, RowStep
<1> QED
  BY Zenon, <1>2, <1>3 DEF RawInv, RowStep

\* A process goes on and leaves the copies alone.  If it received or recovers it has
\* seen to a row before it goes on to the removal.
LEMMA FlowMove ==
  ASSUME RawInv, RowStep, NEW i \in Workers, NEW x \in WorkerType, w' = [w EXCEPT ![i] = x],
         UNCHANGED <<world, files>>, facts \subseteq facts', facts' \subseteq Items,
         queued => rows' = rows /\ x.pc \in {"idle", "recover", "call"},
         x.pc \in Receiving =>
           /\ x.pc \in {"persist", "cleanup"} /\ w[i].pc \in Receiving \ {"receive"}
           /\ x.cap = w[i].cap
           /\ x.pc = "cleanup" => \E r \in DOMAIN rows' : rows'[r].cap = w[i].cap,
         x.pc \in {"recovered", "remove"} \/ (x.pc = "mark_capture" /\ x.file # None) =>
           /\ Recovering(i) /\ x.cap = w[i].cap /\ x.pc # "recovered"
           /\ \E r \in DOMAIN rows' : rows'[r].cap = w[i].cap,
         WorkerGood(i)'
  PROVE  RawInv'
<1>0. /\ RawTypes /\ Quiescent /\ OneReceives /\ Safe
      /\ queued' = queued /\ envelope' = envelope /\ received' = received /\ overlap' = overlap
      /\ stream' = stream /\ spill' = spill
  BY Zenon DEF RawInv, world, files
<1>1. w'[i] = x /\ \A j \in Workers \ {i} : w'[j] = w[j]
  BY Zenon, <1>0, Moved
<1>2. Rowed => Rowed'
  BY Zenon, <1>0 DEF Rowed, RowStep, RowsKept
<1>3. \A j \in Workers :
        w'[j].pc \in Receiving =>
          \/ w'[j] = w[j]
          \/ /\ w[j].pc \in Receiving \ {"receive"} /\ w'[j].cap = w[j].cap
             /\ w'[j].pc \in {"persist", "cleanup"}
             /\ w'[j].pc = "cleanup" => \E r \in DOMAIN rows' : rows'[r].cap = w[j].cap
  BY Zenon, <1>1
<1>4. \A j \in Workers :
        Recovering(j)' =>
          /\ Recovering(j)
          /\ \/ w'[j] = w[j]
             \/ /\ w'[j].cap = w[j].cap /\ w'[j].pc # "recovered"
                /\ \E r \in DOMAIN rows' : rows'[r].cap = w[j].cap
  BY Zenon, <1>1 DEF Recovering
<1>5. Quiescent'
  BY Zenon, <1>0, <1>1 DEF Quiescent, NoFile
<1>6. OneReceives'
  <2>1. \A j \in Workers : w'[j].pc \in Receiving => w[j].pc \in Receiving /\ w'[j].cap = w[j].cap
    BY Zenon, <1>3
  <2>2. \A j \in Workers : /\ w'[j].pc = "receive" => w[j].pc = "receive"
                           /\ w'[j].pc \in Receiving \ {"receive"} => w[j].pc \in Receiving \ {"receive"}
    BY Zenon, <1>3 DEF Receiving
  <2>3. \A j, k \in Workers : w'[j].pc \in Receiving /\ w'[k].pc \in Receiving => j = k
    BY Zenon, <1>0, <2>1 DEF OneReceives
  <2>4. ASSUME NEW j \in Workers
        PROVE  /\ w'[j].pc \in Receiving \ {"receive"} => received' = w'[j].cap
               /\ w'[j].pc = "receive" => received' = None
    BY Zenon, <1>0, <2>1, <2>2 DEF OneReceives
  <2>5. ASSUME NEW j \in Workers, w'[j].pc = "receive", ~overlap'
        PROVE  /\ stream' = [state |-> "partial", cap |-> w'[j].cap] /\ spill' = None
               /\ \A k \in Workers : ~Recovering(k)'
    <3>1. w'[j].pc \in Receiving
      BY Zenon, <2>5 DEF Receiving
    <3> QED
      BY <1>0, <1>4, <2>1, <2>2, <2>5, <3>1 DEF OneReceives
  <2> QED
    BY Zenon, <2>3, <2>4, <2>5 DEF OneReceives
<1>7. Safe'
  <2>0. SUFFICES ASSUME received # None, ~overlap PROVE Safe'
    BY Zenon, <1>0 DEF Safe
  <2>1. NothingLost'
    BY Zenon, <1>0, <1>2, <2>0 DEF NothingLost, Rowed, Safe
  <2>2. ASSUME NEW j \in Workers, Recovering(j)'
        PROVE  w'[j].cap = received /\ (w'[j].pc # "recovered" => Rowed')
    BY Zenon, <1>0, <1>2, <1>4, <2>0, <2>2 DEF Safe, Rowed
  <2>3. ASSUME NEW j \in Workers, w'[j].pc = "discard" PROVE spill = received \/ Rowed'
    BY Zenon, <1>0, <1>2, <1>3, <2>0, <2>3 DEF Safe, Receiving
  <2>4. ASSUME NEW j \in Workers, w'[j].pc = "cleanup" PROVE Rowed'
    <3>1. w'[j].pc \in Receiving
      BY Zenon, <2>4 DEF Receiving
    <3> QED
      BY <1>0, <1>2, <1>3, <2>0, <2>4, <3>1 DEF Safe, OneReceives, Rowed
  <2> QED
    BY Zenon, <1>0, <2>0, <2>1, <2>2, <2>3, <2>4 DEF Safe, NoFile
<1> QED
  BY Zenon, <1>0, <1>5, <1>6, <1>7, MovePreserves DEF RawTypes, NoFile

\* A process that neither receives nor recovers.
LEMMA PlainMove ==
  ASSUME RawInv, RowStep, NEW i \in Workers, NEW x \in WorkerType, w' = [w EXCEPT ![i] = x],
         UNCHANGED <<world, files>>, facts \subseteq facts', facts' \subseteq Items,
         queued => rows' = rows /\ x.pc \in {"idle", "recover", "call"},
         x.pc \notin Receiving, x.pc \notin {"recovered", "remove", "mark_capture"}, WorkerGood(i)'
  PROVE  RawInv'
BY Zenon, FlowMove

\* A process that ends.
LEMMA StopMove ==
  ASSUME RawInv, RowStep, NEW i \in Workers, Stop(i), UNCHANGED <<world, files>>,
         facts \subseteq facts', facts' \subseteq Items, queued => rows' = rows
  PROVE  RawInv'
<1>1. w'[i] = Idle
  BY Zenon, Moved, IdleIs DEF RawInv, Stop
<1>2. WorkerGood(i)'
  BY Zenon, <1>1, IdleIs DEF WorkerGood, Receiving
<1> QED
  BY Zenon, <1>2, IdleIs, PlainMove DEF Stop, Receiving

\* A process that is elsewhere with all else as it was.
LEMMA GotoIs ==
  ASSUME RawTypes, NEW i \in Workers, NEW next \in RowPcs, Goto(i, next)
  PROVE  \E x \in WorkerType :
           /\ w' = [w EXCEPT ![i] = x] /\ x.pc = next /\ w'[i] = x
           /\ x.row = w[i].row /\ x.todo = w[i].todo /\ x.skipped = w[i].skipped /\ x.cap = w[i].cap
           /\ x.file = w[i].file /\ x.seen = w[i].seen /\ x.tried = w[i].tried
<1> DEFINE x == [w[i] EXCEPT !.pc = next]
<1>1. /\ x \in WorkerType /\ x.pc = next /\ x.row = w[i].row /\ x.todo = w[i].todo
      /\ x.skipped = w[i].skipped /\ x.cap = w[i].cap
      /\ x.file = w[i].file /\ x.seen = w[i].seen /\ x.tried = w[i].tried
  BY Zenon DEF RawTypes, WorkerType
<1>2. w' = [w EXCEPT ![i] = x]
  BY Zenon DEF Goto
<1> HIDE DEF x
<1>3. w'[i] = x
  BY Zenon, <1>1, <1>2, Moved
<1> QED
  BY Zenon, <1>1, <1>2, <1>3

----------------------------------------------------------------------------
(* Polls and recoveries that leave the copies alone *)

StepOk == RawInv' /\ RowsKept

\* There is no row while the response is in the queue.
LEMMA Unqueued ==
  ASSUME RawInv, NEW r \in DOMAIN rows
  PROVE  ~queued
BY DEF RawInv, Quiescent

\* A process ends and writes nothing.
LEMMA StopKeeps ==
  ASSUME RawInv, NEW i \in Workers, Stop(i), UNCHANGED <<world, files, rows, facts>>
  PROVE  StepOk
<1>1. RowStep
  BY Zenon, RowsStay DEF RawInv, RawTypes, world
<1> QED
  BY Zenon, <1>1, StopMove DEF StepOk, RowStep, RawInv, RawTypes

\* A process ends with a write of its row.
LEMMA WriteStops ==
  ASSUME RawInv, NEW i \in Workers, NEW r \in DOMAIN rows, RowStep, Stop(i),
         UNCHANGED <<world, files, facts>>
  PROVE  StepOk
BY Zenon, Unqueued, StopMove DEF StepOk, RowStep, RawInv, RawTypes

\* A process ends with an error.
LEMMA ErrorStops ==
  ASSUME RawInv, NEW i \in Workers, w[i].row \in DOMAIN rows, NEW elig \in Eligible,
         MarkError(i, elig), Stop(i), UNCHANGED <<world, files, facts>>
  PROVE  StepOk
<1>1. RowStep
  BY Zenon, ErrorMarked DEF RawInv, world
<1> QED
  BY Zenon, <1>1, WriteStops

\* A process goes on and writes nothing.
LEMMA MoveKeeps ==
  ASSUME RawInv, NEW i \in Workers, NEW x \in WorkerType, w' = [w EXCEPT ![i] = x],
         UNCHANGED <<world, files, rows>>, facts \subseteq facts', facts' \subseteq Items,
         queued => x.pc \in {"idle", "recover", "call"},
         x.pc \notin Receiving, x.pc \notin {"recovered", "remove", "mark_capture"}, WorkerGood(i)'
  PROVE  StepOk
<1>1. RowStep
  BY Zenon, RowsStay DEF RawInv, RawTypes, world
<1> QED
  BY Zenon, <1>1, PlainMove DEF StepOk, RowStep

\* The steps of a poll that leave its files alone: one lemma per action.
LEMMA AcquirePreserves ==
  ASSUME RawInv, NEW i \in Pollers, Acquire(i)
  PROVE  StepOk
<1>0. i \in Workers /\ RawTypes /\ WorkerGood(i) /\ UNCHANGED <<world, files, rows, facts>>
      /\ Goto(i, "recover")
  BY Zenon DEF Workers, RawInv, Acquire
<1>1. PICK x \in WorkerType :
        w' = [w EXCEPT ![i] = x] /\ w'[i] = x /\ x.pc = "recover" /\ x.skipped = w[i].skipped
  <2>1. "recover" \in RowPcs
    BY Zenon DEF RowPcs
  <2> QED
    BY <1>0, <2>1, GotoIs
<1>2. WorkerGood(i)'
  BY Zenon, <1>0, <1>1 DEF WorkerGood, Receiving, world
<1> QED
  BY Zenon, <1>0, <1>1, <1>2, MoveKeeps DEF Receiving, RawTypes

\* The process of a recovery between two files.
LEMMA BetweenIs ==
  ASSUME NEW tried \in SUBSET {"spill", "stream"}, NEW next \in {"recover", "call"}
  PROVE  /\ [Idle EXCEPT !.pc = next, !.tried = tried] \in WorkerType
         /\ [Idle EXCEPT !.pc = next] \in WorkerType
BY Zenon DEF Idle, WorkerType, RowPcs

LEMMA RecoverDonePreserves ==
  ASSUME RawInv, NEW i \in Pollers, RecoverDone(i)
  PROVE  StepOk
<1>0. i \in Workers /\ RawTypes /\ UNCHANGED <<world, files, rows, facts>>
  BY Zenon DEF Workers, RawInv, RecoverDone
<1>1. CASE Leave(i)
  BY Zenon, <1>0, <1>1, StopKeeps DEF Leave
<1>2. CASE w' = [w EXCEPT ![i] = [Idle EXCEPT !.pc = "call"]]
  <2> DEFINE x == [Idle EXCEPT !.pc = "call"]
  <2>1. x \in WorkerType /\ x.pc = "call" /\ x.skipped = FALSE /\ x.file = None
    BY Zenon, BetweenIs, IdleIs DEF Idle
  <2> HIDE DEF x
  <2>2. w'[i] = x
    BY Zenon, <1>0, <1>2, <2>1, Moved DEF x
  <2>3. WorkerGood(i)'
    BY Zenon, <2>1, <2>2 DEF WorkerGood, Receiving
  <2> QED
    BY Zenon, <1>0, <1>2, <2>1, <2>3, MoveKeeps DEF x, Receiving, RawTypes
<1> QED
  BY Zenon, <1>1, <1>2 DEF RecoverDone

LEMMA CallEmptyPreserves ==
  ASSUME RawInv, NEW i \in Pollers, CallEmpty(i)
  PROVE  StepOk
BY Zenon, StopKeeps DEF CallEmpty, Leave, Workers

LEMMA ReceiveFailsPreserves ==
  ASSUME RawInv, NEW i \in Pollers, ReceiveFails(i)
  PROVE  StepOk
BY Zenon, StopKeeps DEF ReceiveFails, Leave, Workers

LEMMA CrashPreserves ==
  ASSUME RawInv, NEW i \in Workers, Crash(i)
  PROVE  StepOk
BY Zenon, StopKeeps DEF Crash

LEMMA RecoverPersistPreserves ==
  ASSUME RawInv, NEW i \in Pollers, RecoverPersist(i)
  PROVE  StepOk
<1> DEFINE owned == w[i].cap # "complete"
           inserted == Append(rows, NewRow(w[i].cap, owned))
           back == [Idle EXCEPT !.pc = "recover", !.tried = w[i].tried]
<1>0. /\ i \in Workers /\ RawTypes /\ WorkerGood(i) /\ RowsGood /\ UNCHANGED <<world, files, facts>>
      /\ w[i].pc = "recovered" /\ owned \in BOOLEAN /\ w[i] \in WorkerType
  BY Zenon DEF Workers, RawInv, RecoverPersist, RawTypes
<1>1. /\ w[i].cap \in Captures /\ Recovering(i) /\ ~queued
      /\ envelope' = envelope /\ facts' = facts /\ facts \subseteq Items /\ queued' = queued
  BY Zenon, <1>0 DEF WorkerGood, Recovering, RawInv, Quiescent, RawTypes, world
<1>2. rows' = inserted =>
        RowStep /\ Len(rows) + 1 \in DOMAIN rows' /\ rows'[Len(rows) + 1].cap = w[i].cap
  BY Zenon, <1>0, <1>1, RowInserted
<1>3. CASE rows' \in {rows, inserted} /\ w' = [w EXCEPT ![i] = back]
  <2>1. RowStep
    BY Zenon, <1>0, <1>1, <1>2, <1>3, RowsStay
  <2>2. back \in WorkerType /\ back.pc = "recover" /\ back.skipped = FALSE
    BY Zenon, <1>0, BetweenIs DEF WorkerType, Idle
  <2> HIDE DEF back
  <2>3. w'[i] = back
    BY Zenon, <1>0, <1>3, <2>2, Moved
  <2>4. WorkerGood(i)'
    BY Zenon, <2>2, <2>3 DEF WorkerGood, Receiving
  <2>5. back.pc \notin Receiving /\ back.pc \notin {"recovered", "remove", "mark_capture"}
    BY Zenon, <2>2 DEF Receiving
  <2> QED
    BY Zenon, <1>0, <1>1, <1>3, <2>1, <2>2, <2>4, <2>5, PlainMove DEF StepOk, RowStep
<1>4. CASE /\ rows' = inserted /\ owned
           /\ w' = [w EXCEPT ![i] = [@ EXCEPT !.pc = "mark_capture", !.row = Len(rows) + 1, !.epoch = 1]]
  <2> DEFINE x == [w[i] EXCEPT !.pc = "mark_capture", !.row = Len(rows) + 1, !.epoch = 1]
  <2>1. /\ x \in WorkerType /\ x.pc = "mark_capture" /\ x.row = Len(rows) + 1
        /\ x.skipped = w[i].skipped /\ x.cap = w[i].cap
    <3>1. Len(rows) + 1 \in Nat
      BY <1>0 DEF RawTypes
    <3> QED
      BY Zenon, <1>0, <3>1 DEF WorkerType, RowPcs
  <2>2. w' = [w EXCEPT ![i] = x]
    BY Zenon, <1>4
  <2> HIDE DEF x
  <2>3. w'[i] = x
    BY Zenon, <1>0, <2>1, <2>2, Moved
  <2>4. WorkerGood(i)'
    BY Zenon, <1>0, <1>1, <1>2, <1>4, <2>1, <2>3 DEF WorkerGood, Receiving
  <2>5. x.pc \notin Receiving
    BY Zenon, <2>1 DEF Receiving
  <2> QED
    BY Zenon, <1>0, <1>1, <1>2, <1>4, <2>1, <2>2, <2>4, <2>5, FlowMove DEF StepOk, RowStep
<1>5. CASE rows' = inserted /\ w' = [w EXCEPT ![i].pc = "remove"]
  <2>1. Goto(i, "remove") /\ "remove" \in RowPcs
    BY Zenon, <1>5 DEF Goto, RowPcs
  <2>2. PICK x \in WorkerType : /\ w' = [w EXCEPT ![i] = x] /\ w'[i] = x /\ x.pc = "remove"
                                /\ x.skipped = w[i].skipped /\ x.cap = w[i].cap
    BY <1>0, <2>1, GotoIs
  <2>3. WorkerGood(i)'
    BY Zenon, <1>0, <1>1, <2>2 DEF WorkerGood, Receiving
  <2>4. x.pc \notin Receiving
    BY Zenon, <2>2 DEF Receiving
  <2> QED
    BY Zenon, <1>0, <1>1, <1>2, <1>5, <2>2, <2>3, <2>4, FlowMove DEF StepOk, RowStep
<1> QED
  BY Zenon, <1>3, <1>4, <1>5 DEF RecoverPersist

LEMMA MarkCapturePreserves ==
  ASSUME RawInv, NEW i \in Pollers, MarkCapture(i)
  PROVE  StepOk
<1>0. /\ i \in Workers /\ RawTypes /\ WorkerGood(i) /\ RowsGood /\ UNCHANGED <<world, files, facts>>
      /\ w[i].pc = "mark_capture" /\ w[i] \in WorkerType
      /\ MarkError(i, CaptureErrorElig(w[i].cap)) /\ CaptureErrorElig(w[i].cap) \in Eligible
  BY Zenon DEF Workers, RawInv, MarkCapture, RawTypes, CaptureErrorElig, Eligible
<1>1. /\ w[i].row \in DOMAIN rows /\ rows[w[i].row].cap = w[i].cap
      /\ envelope' = envelope /\ facts' = facts /\ facts \subseteq Items /\ queued' = queued
  BY Zenon, <1>0 DEF WorkerGood, RawTypes, world
<1>2. RowStep /\ ~queued
  BY Zenon, <1>0, <1>1, ErrorMarked, Unqueued
<1>3. CASE Leave(i)
  BY Zenon, <1>0, <1>1, <1>3, ErrorStops DEF Leave
<1>4. CASE /\ w[i].file # None
           /\ w' = [w EXCEPT ![i] = [@ EXCEPT !.pc = "remove", !.row = 0, !.epoch = 0]]
  <2> DEFINE x == [w[i] EXCEPT !.pc = "remove", !.row = 0, !.epoch = 0]
  <2>1. /\ x \in WorkerType /\ x.pc = "remove" /\ x.skipped = w[i].skipped /\ x.cap = w[i].cap
    BY Zenon, <1>0 DEF WorkerType, RowPcs
  <2>2. w' = [w EXCEPT ![i] = x]
    BY Zenon, <1>4
  <2> HIDE DEF x
  <2>3. w'[i] = x
    BY Zenon, <1>0, <2>1, <2>2, Moved
  <2>4. WorkerGood(i)'
    BY Zenon, <1>0, <1>1, <2>1, <2>3 DEF WorkerGood, Receiving
  <2>5. x.pc \notin Receiving /\ Recovering(i)
    BY Zenon, <1>0, <1>4, <2>1 DEF Receiving, Recovering
  <2>6. w[i].row \in DOMAIN rows' /\ rows'[w[i].row].cap = w[i].cap
    BY Zenon, <1>1, <1>2 DEF RowStep, RowsKept
  <2> QED
    BY Zenon, <1>0, <1>1, <1>2, <2>1, <2>2, <2>4, <2>5, <2>6, FlowMove DEF StepOk, RowStep
<1> QED
  BY Zenon, <1>3, <1>4 DEF MarkCapture

\* The row of a response is inserted before its files are removed.
LEMMA PersistRawPreserves ==
  ASSUME RawInv, NEW i \in Pollers, PersistRaw(i)
  PROVE  StepOk
<1> DEFINE inserted == Append(rows, NewRow(w[i].cap, TRUE))
<1>0. /\ i \in Workers /\ RawTypes /\ WorkerGood(i) /\ RowsGood /\ UNCHANGED <<world, files, facts>>
      /\ w[i].pc = "persist" /\ w[i] \in WorkerType
  BY Zenon DEF Workers, RawInv, PersistRaw, RawTypes
<1>1. /\ w[i].cap \in Captures /\ ~queued /\ w[i].file = None
      /\ envelope' = envelope /\ facts' = facts /\ facts \subseteq Items /\ queued' = queued
  BY Zenon, <1>0 DEF WorkerGood, Receiving, RawInv, Quiescent, RawTypes, world
<1>2. rows' = inserted =>
        RowStep /\ Len(rows) + 1 \in DOMAIN rows' /\ rows'[Len(rows) + 1].cap = w[i].cap
  BY Zenon, <1>0, <1>1, RowInserted
<1>3. CASE rows' \in {rows, inserted} /\ Leave(i)
  <2>1. RowStep
    BY Zenon, <1>0, <1>1, <1>2, <1>3, RowsStay
  <2> QED
    BY Zenon, <1>0, <1>1, <1>3, <2>1, StopMove DEF StepOk, RowStep, Leave
<1>4. CASE /\ rows' = inserted
           /\ w' = [w EXCEPT ![i] = [@ EXCEPT !.pc = "cleanup", !.row = Len(rows) + 1, !.epoch = 1]]
  <2> DEFINE x == [w[i] EXCEPT !.pc = "cleanup", !.row = Len(rows) + 1, !.epoch = 1]
  <2>1. /\ x \in WorkerType /\ x.pc = "cleanup" /\ x.row = Len(rows) + 1
        /\ x.skipped = w[i].skipped /\ x.cap = w[i].cap /\ x.file = w[i].file
    <3>1. Len(rows) + 1 \in Nat
      BY <1>0 DEF RawTypes
    <3> QED
      BY Zenon, <1>0, <3>1 DEF WorkerType, RowPcs
  <2>2. w' = [w EXCEPT ![i] = x]
    BY Zenon, <1>4
  <2> HIDE DEF x
  <2>3. w'[i] = x
    BY Zenon, <1>0, <2>1, <2>2, Moved
  <2>4. WorkerGood(i)'
    BY Zenon, <1>0, <1>1, <1>2, <1>4, <2>1, <2>3 DEF WorkerGood, Receiving
  <2>5. w[i].pc \in Receiving \ {"receive"}
    BY Zenon, <1>0 DEF Receiving
  <2> QED
    BY Zenon, <1>0, <1>1, <1>2, <1>4, <2>1, <2>2, <2>4, <2>5, FlowMove DEF StepOk, RowStep
<1> QED
  BY Zenon, <1>3, <1>4 DEF PersistRaw

----------------------------------------------------------------------------
(* Processing *)

\* A row is written while every process stays where it is.
LEMMA RowsOnly ==
  ASSUME RawInv, RowStep, ~queued, UNCHANGED <<world, files, facts, w>>
  PROVE  StepOk
<1>0. /\ RawTypes /\ OneReceives /\ Safe /\ w' = w /\ facts' = facts
      /\ queued' = queued /\ envelope' = envelope /\ received' = received /\ overlap' = overlap
      /\ stream' = stream /\ spill' = spill
  BY Zenon DEF RawInv, world, files
<1>1. RawTypes'
  BY Zenon, <1>0 DEF RawTypes, RowStep, NoFile
<1>2. \A j \in Workers : WorkerGood(j)'
  BY Zenon, <1>0, OthersKept DEF RawInv, RowStep
<1>3. Quiescent'
  BY Zenon, <1>0 DEF Quiescent
<1>4. \A j \in Workers : Recovering(j)' <=> Recovering(j)
  BY Zenon, <1>0 DEF Recovering
<1>5. OneReceives'
  BY Zenon, <1>0, <1>4 DEF OneReceives
<1>6. Rowed => Rowed'
  BY Zenon, <1>0 DEF Rowed, RowStep, RowsKept
<1>7. NothingLost => NothingLost'
  BY Zenon, <1>0, <1>6 DEF NothingLost, Rowed
<1>8. Safe'
  BY Zenon, <1>0, <1>4, <1>6, <1>7 DEF Safe, NoFile
<1> QED
  BY Zenon, <1>1, <1>2, <1>3, <1>5, <1>8 DEF StepOk, RawInv, RowStep

\* Only whether its lease is live changes.
LEMMA LiveWritten ==
  ASSUME RawTypes, RowsGood, NEW r \in DOMAIN rows, NEW b \in BOOLEAN,
         rows' = [rows EXCEPT ![r].live = b], envelope' = envelope, facts' = facts
  PROVE  RowStep
<1> DEFINE row == rows[r]
           x == [row EXCEPT !.live = b]
<1>1. row \in RowType /\ RowGood(row)
  BY DEF RawTypes, RowsGood
<1>2. rows' = [rows EXCEPT ![r] = x]
  OBVIOUS
<1> HIDE DEF row
<1>3. /\ x \in RowType /\ x.cap = row.cap /\ x.done = row.done /\ x.elig = row.elig
      /\ x.held = row.held /\ x.epoch = row.epoch /\ x.told = row.told /\ x.asked = row.asked
  BY Zenon, <1>1 DEF RowType
<1> HIDE DEF x
<1>4. RowGood(x) /\ (row.done => x.done /\ x.elig = "never")
  BY Zenon, <1>1, <1>3 DEF RowGood, Earned
<1> QED
  BY Zenon, <1>2, <1>3, <1>4, RowWritten DEF row

\* Leases and the poll lock: their ends change nothing but who may write.
LEMMA HeartbeatPreserves ==
  ASSUME RawInv, NEW i \in Workers, Heartbeat(i)
  PROVE  StepOk
<1>0. /\ RawTypes /\ RowsGood /\ WorkerGood(i) /\ UNCHANGED <<world, files, facts>> /\ w[i].pc = "items"
      /\ envelope' = envelope /\ facts' = facts
  BY Zenon DEF RawInv, Heartbeat, world
<1>1. CASE Leave(i) /\ UNCHANGED rows
  BY Zenon, <1>0, <1>1, StopKeeps DEF Leave
<1>2. CASE rows' = [rows EXCEPT ![w[i].row].live = TRUE] /\ UNCHANGED w
  <2>1. w[i].row \in DOMAIN rows
    BY Zenon, <1>0 DEF WorkerGood
  <2> QED
    BY Zenon, <1>0, <1>2, <2>1, LiveWritten, RowsOnly, Unqueued
<1> QED
  BY Zenon, <1>1, <1>2 DEF Heartbeat

LEMMA LeaseExpiresPreserves ==
  ASSUME RawInv, NEW r \in DOMAIN rows, LeaseExpires(r)
  PROVE  StepOk
<1>0. /\ RawTypes /\ RowsGood /\ UNCHANGED <<world, files, facts, w>>
      /\ envelope' = envelope /\ facts' = facts /\ rows' = [rows EXCEPT ![r].live = FALSE]
  BY Zenon DEF RawInv, LeaseExpires, world
<1> QED
  BY Zenon, <1>0, LiveWritten, RowsOnly, Unqueued

LEMMA LockLapsesPreserves ==
  ASSUME RawInv, LockLapses
  PROVE  StepOk
<1>1. UNCHANGED <<world, files, rows, facts, w>>
  BY Zenon DEF LockLapses
<1> QED
  BY Zenon, <1>1
    DEF StepOk, RawInv, RawTypes, RowsGood, RowGood, Earned, WorkerGood, Decodes,
        Unparsable,
              Quiescent, OneReceives, Recovering, Safe, NothingLost, Rowed, RowsKept,
              world, files, NoFile

\* A processor begins with the items.
LEMMA MetadataPreserves ==
  ASSUME RawInv, NEW i \in Workers, w[i].row \in DOMAIN rows, rows[w[i].row].cap \in Replayable,
         Decodes, Metadata(i), UNCHANGED <<world, files, rows, facts>>
  PROVE  StepOk
<1>0. RawTypes /\ WorkerGood(i) /\ w[i] \in WorkerType /\ facts \subseteq Items /\ ~queued
  BY Zenon, Unqueued DEF RawInv, RawTypes
<1>1. CASE Leave(i)
  BY Zenon, <1>1, StopKeeps DEF Leave
<1>2. CASE w' = [w EXCEPT ![i] = [@ EXCEPT !.pc = "items", !.todo = Items]]
  <2> DEFINE x == [w[i] EXCEPT !.pc = "items", !.todo = Items]
  <2>1. /\ x \in WorkerType /\ x.pc = "items" /\ x.todo = Items /\ x.row = w[i].row
        /\ x.skipped = w[i].skipped
    BY Zenon, <1>0 DEF WorkerType, RowPcs
  <2>2. w' = [w EXCEPT ![i] = x]
    BY Zenon, <1>2
  <2> HIDE DEF x
  <2>3. w'[i] = x
    BY Zenon, <1>0, <2>1, <2>2, Moved
  <2>4. Decodes' /\ Unparsable' = Unparsable /\ Unparsable \subseteq Items
    BY Zenon, UnparsableIs DEF Decodes, Unparsable, world
  <2>5. WorkerGood(i)'
    BY Zenon, <1>0, <2>1, <2>3, <2>4 DEF WorkerGood, Receiving, world
  <2> QED
    BY Zenon, <1>0, <2>1, <2>2, <2>5, MoveKeeps DEF Receiving
<1> QED
  BY Zenon, <1>1, <1>2 DEF Metadata

\* What becomes of a row under its lease: decoded, its items applied, finished.
LEMMA DecodePreserves ==
  ASSUME RawInv, NEW i \in Pollers, Decode(i)
  PROVE  StepOk
<1>0. /\ i \in Workers /\ RawTypes /\ WorkerGood(i) /\ UNCHANGED <<world, files, facts>>
      /\ w[i].pc = "persisted" /\ facts \subseteq Items
  BY Zenon DEF Workers, RawInv, Decode, RawTypes
<1>1. w[i].row \in DOMAIN rows /\ rows[w[i].row].cap = w[i].cap /\ w[i].file = None /\ ~queued
  BY Zenon, <1>0, Unqueued DEF WorkerGood
<1>2. CASE Leave(i) /\ UNCHANGED rows
  BY Zenon, <1>0, <1>2, StopKeeps DEF Leave
<1>3. CASE w[i].cap = "complete" /\ Decodes /\ Metadata(i) /\ UNCHANGED rows
  BY Zenon, <1>0, <1>1, <1>3, MetadataPreserves DEF Replayable
<1>4. CASE MarkError(i, IF envelope = "refused" THEN "never" ELSE "manual") /\ Leave(i)
  BY Zenon, <1>0, <1>1, <1>4, ErrorStops DEF Leave, Eligible
<1>5. CASE Goto(i, "mark_capture") /\ UNCHANGED rows
  <2>1. "mark_capture" \in RowPcs
    BY Zenon DEF RowPcs
  <2>2. PICK x \in WorkerType :
          /\ w' = [w EXCEPT ![i] = x] /\ w'[i] = x /\ x.pc = "mark_capture" /\ x.row = w[i].row
          /\ x.skipped = w[i].skipped /\ x.cap = w[i].cap /\ x.file = w[i].file
    BY <1>0, <1>5, <2>1, GotoIs
  <2>3. WorkerGood(i)'
    BY Zenon, <1>0, <1>1, <1>5, <2>2 DEF WorkerGood, Receiving, world
  <2>4. RowStep
    BY Zenon, <1>0, <1>5, RowsStay DEF RawInv, world
  <2>5. x.pc \notin Receiving
    BY Zenon, <2>2 DEF Receiving
  <2> QED
    BY Zenon, <1>0, <1>1, <2>2, <2>3, <2>4, <2>5, FlowMove DEF StepOk, RowStep
<1> QED
  BY Zenon, <1>2, <1>3, <1>4, <1>5 DEF Decode

LEMMA ReplayDecodePreserves ==
  ASSUME RawInv, NEW i \in Workers, ReplayDecode(i)
  PROVE  StepOk
<1>0. /\ WorkerGood(i) /\ UNCHANGED <<world, files, facts>> /\ w[i].pc = "decode"
  BY Zenon DEF RawInv, ReplayDecode
<1>1. w[i].row \in DOMAIN rows /\ rows[w[i].row].cap \in Replayable
  BY Zenon, <1>0 DEF WorkerGood
<1>2. CASE Decodes /\ Metadata(i) /\ UNCHANGED rows
  BY Zenon, <1>0, <1>1, <1>2, MetadataPreserves
<1>3. CASE MarkError(i, "manual") /\ Leave(i)
  BY Zenon, <1>0, <1>1, <1>3, ErrorStops DEF Leave, Eligible
<1> QED
  BY Zenon, <1>2, <1>3 DEF ReplayDecode

LEMMA ItemPreserves ==
  ASSUME RawInv, NEW i \in Workers, Item(i)
  PROVE  StepOk
<1>0. /\ RawTypes /\ WorkerGood(i) /\ w[i] \in WorkerType /\ facts \subseteq Items /\ w[i].pc = "items"
      /\ w[i].todo \in SUBSET Items /\ w[i].skipped \in BOOLEAN
  BY Zenon DEF RawInv, RawTypes, Item, WorkerType
<1>1. PICK n \in w[i].todo :
        /\ UNCHANGED <<world, files, rows>> /\ facts' = facts \cup ({n} \ Unparsable)
        /\ w' = [w EXCEPT ![i] = [@ EXCEPT !.todo = w[i].todo \ {n},
                                          !.skipped = w[i].skipped \/ n \in Unparsable]]
  BY Zenon DEF Item
<1> DEFINE x == [w[i] EXCEPT !.todo = w[i].todo \ {n}, !.skipped = w[i].skipped \/ n \in Unparsable]
<1>2. w' = [w EXCEPT ![i] = x]
  BY Zenon, <1>1
<1>3. /\ x \in WorkerType /\ x.pc = "items" /\ x.todo = w[i].todo \ {n} /\ x.row = w[i].row
      /\ x.skipped = (w[i].skipped \/ n \in Unparsable)
  BY Zenon, <1>0 DEF WorkerType
<1> HIDE DEF x
<1>4. w'[i] = x
  BY Zenon, <1>0, <1>2, <1>3, Moved
<1>5. /\ w[i].row \in DOMAIN rows /\ rows[w[i].row].cap \in Replayable /\ Decodes
      /\ (Items \ w[i].todo) \ Unparsable \subseteq facts
      /\ Unparsable \subseteq w[i].todo \/ w[i].skipped
      /\ w[i].skipped => envelope = "spoiled"
  BY Zenon, <1>0 DEF WorkerGood
<1>6. /\ Decodes' /\ Unparsable' = Unparsable /\ ~queued' /\ envelope' = envelope
      /\ n \in Unparsable => envelope = "spoiled" /\ Unparsable \subseteq {n}
  BY Zenon, <1>1, <1>5, Unqueued, UnparsableIs DEF Decodes, Unparsable, world
<1>7. (Items \ x.todo) \ Unparsable \subseteq facts'
  BY Zenon, <1>1, <1>3, <1>5
<1>8. Unparsable \subseteq x.todo \/ x.skipped
  BY Zenon, <1>3, <1>5
<1>9. x.skipped => envelope = "spoiled"
  BY Zenon, <1>3, <1>5, <1>6
<1>10. WorkerGood(i)'
  BY Zenon, <1>1, <1>3, <1>4, <1>5, <1>6, <1>7, <1>8, <1>9 DEF WorkerGood, Receiving
<1>11. facts \subseteq facts' /\ facts' \subseteq Items
  BY Zenon, <1>0, <1>1
<1>12. x.pc \notin Receiving /\ x.pc \notin {"recovered", "remove", "mark_capture"} /\ ~queued
  BY Zenon, <1>3, <1>5, Unqueued DEF Receiving
<1> QED
  BY Zenon, <1>1, <1>2, <1>3, <1>10, <1>11, <1>12, MoveKeeps

LEMMA ItemFailsPreserves ==
  ASSUME RawInv, NEW i \in Workers, ItemFails(i)
  PROVE  StepOk
<1>1. w[i].row \in DOMAIN rows
  BY Zenon DEF RawInv, WorkerGood, ItemFails
<1> QED
  BY Zenon, <1>1, ErrorStops DEF ItemFails, Leave, Eligible

\* The holder of the row has applied every item of the response.
LEMMA ProcessedMarked ==
  ASSUME RawInv, NEW i \in Workers, w[i].pc = "items", w[i].todo = {}, ~w[i].skipped, Fenced(i),
         MarkProcessed(i), envelope' = envelope, facts' = facts
  PROVE  RowStep /\ w[i].row \in DOMAIN rows' /\ rows'[w[i].row].done
<1> DEFINE row == rows[w[i].row]
           x == [row EXCEPT !.done = TRUE, !.elig = "never", !.held = FALSE, !.live = FALSE,
                            !.audit = IF i \in System THEN "pending" ELSE row.audit]
<1>0. RawTypes /\ RowsGood /\ WorkerGood(i) /\ facts \subseteq Items
  BY Zenon DEF RawInv, RawTypes
<1>1. /\ w[i].row \in DOMAIN rows /\ row.cap \in Replayable /\ Decodes
      /\ Items \ Unparsable \subseteq facts /\ Unparsable \subseteq {}
  BY Zenon, <1>0 DEF WorkerGood
<1>2. envelope = "list" /\ facts = Items
  BY Zenon, <1>0, <1>1, UnparsableIs DEF Decodes
<1>3. row \in RowType /\ row.held /\ RowGood(row)
  BY <1>0, <1>1 DEF RawTypes, RowsGood, Fenced
<1>4. ~row.done /\ ~row.told
  BY Zenon, <1>2, <1>3 DEF RowGood, Earned
<1>5. rows' = [rows EXCEPT ![w[i].row] = x]
  BY Zenon DEF MarkProcessed
<1>6. row.cap = rows[w[i].row].cap /\ row.done = rows[w[i].row].done
  OBVIOUS
<1> HIDE DEF row
<1>7. /\ x \in RowType /\ x.cap = row.cap /\ x.done = TRUE /\ x.elig = "never" /\ x.held = FALSE
      /\ x.told = row.told
  BY Zenon, <1>3 DEF RowType, Eligible
<1> HIDE DEF x
<1>8. RowGood(x)
  BY Zenon, <1>1, <1>2, <1>4, <1>7 DEF RowGood, Earned
<1> QED
  BY Zenon, <1>0, <1>1, <1>4, <1>5, <1>6, <1>7, <1>8, RowWritten

LEMMA FinishPreserves ==
  ASSUME RawInv, NEW i \in Workers, Finish(i)
  PROVE  StepOk
<1>0. /\ RawTypes /\ RowsGood /\ WorkerGood(i) /\ UNCHANGED <<world, files, facts>> /\ w[i].pc = "items"
      /\ w[i].todo = {} /\ envelope' = envelope /\ facts' = facts /\ facts \subseteq Items
      /\ queued' = queued
  BY Zenon DEF RawInv, RawTypes, Finish, world
<1>1. /\ w[i].row \in DOMAIN rows /\ ~queued /\ "manual" \in Eligible
      /\ w[i].skipped => envelope = "spoiled"
  BY Zenon, <1>0, Unqueued DEF WorkerGood, Eligible
<1>2. RowStep
  <2>1. CASE w[i].skipped
    BY Zenon, <1>0, <1>1, <2>1, ErrorMarked DEF Finish
  <2>2. CASE ~w[i].skipped /\ Fenced(i)
    BY Zenon, <1>0, <2>2, ProcessedMarked DEF Finish
  <2>3. CASE ~w[i].skipped /\ ~Fenced(i)
    BY Zenon, <1>0, <2>3, RowsStay DEF Finish
  <2> QED
    BY Zenon, <2>1, <2>2, <2>3
<1>3. CASE Leave(i)
  BY Zenon, <1>0, <1>1, <1>2, <1>3, WriteStops DEF Leave
<1>4. CASE Fenced(i) /\ Goto(i, "audit")
  <2>1. "audit" \in RowPcs
    BY Zenon DEF RowPcs
  <2>2. PICK x \in WorkerType :
          /\ w' = [w EXCEPT ![i] = x] /\ w'[i] = x /\ x.pc = "audit" /\ x.row = w[i].row
          /\ x.skipped = w[i].skipped
    BY <1>0, <1>4, <2>1, GotoIs
  <2>3. w[i].row \in DOMAIN rows'
    BY Zenon, <1>1, <1>2 DEF RowStep, RowsKept
  <2>4. rows'[w[i].row].done \/ envelope = "spoiled"
    BY Zenon, <1>0, <1>1, <1>4, ProcessedMarked DEF Finish
  <2>5. WorkerGood(i)'
    BY Zenon, <1>0, <1>1, <2>2, <2>3, <2>4 DEF WorkerGood, Receiving
  <2>6. x.pc \notin Receiving /\ x.pc \notin {"recovered", "remove", "mark_capture"}
    BY Zenon, <2>2 DEF Receiving
  <2> QED
    BY Zenon, <1>0, <1>1, <1>2, <2>2, <2>5, <2>6, PlainMove DEF StepOk, RowStep
<1> QED
  BY Zenon, <1>3, <1>4 DEF Finish, Ended

----------------------------------------------------------------------------
(* Replays, their audits and reevaluations *)

\* A replay takes a row up.
LEMMA ListPreserves ==
  ASSUME RawInv, NEW i \in Workers, NEW r \in DOMAIN rows, w[i].pc = "idle",
         w' = [w EXCEPT ![i] = [@ EXCEPT !.pc = "claim", !.row = r]],
         UNCHANGED <<world, files, rows, facts>>
  PROVE  StepOk
<1> DEFINE x == [w[i] EXCEPT !.pc = "claim", !.row = r]
<1>0. RawTypes /\ WorkerGood(i) /\ w[i] \in WorkerType /\ facts \subseteq Items /\ ~queued /\ r \in Nat
  BY Unqueued DEF RawInv, RawTypes
<1>1. x \in WorkerType /\ x.pc = "claim" /\ x.row = r /\ x.skipped = w[i].skipped
  BY Zenon, <1>0 DEF WorkerType, RowPcs
<1>2. w' = [w EXCEPT ![i] = x]
  OBVIOUS
<1> HIDE DEF x
<1>3. w'[i] = x
  BY Zenon, <1>0, <1>1, <1>2, Moved
<1>4. WorkerGood(i)'
  BY Zenon, <1>0, <1>1, <1>3 DEF WorkerGood, Receiving, world
<1> QED
  BY Zenon, <1>0, <1>1, <1>2, <1>4, MoveKeeps DEF Receiving

\* Replays, of the reconcile task and of operators.
LEMMA ReconcilePreserves ==
  ASSUME RawInv, NEW i \in System, Reconcile(i)
  PROVE  StepOk
<1>1. i \in Workers
  BY Zenon DEF Workers
<1>2. PICK r \in DOMAIN rows : ListStale(i, r) \/ ListPendingAudit(i, r)
  BY Zenon DEF Reconcile
<1>3. CASE ListStale(i, r)
  BY Zenon, <1>1, <1>3, ListPreserves DEF ListStale
<1>4. CASE ListPendingAudit(i, r)
  BY Zenon, <1>1, <1>4, ListPreserves DEF ListPendingAudit
<1> QED
  BY Zenon, <1>2, <1>3, <1>4

LEMMA ClaimPreserves ==
  ASSUME RawInv, NEW i \in Workers, NEW r \in DOMAIN rows, w[i].pc \in {"idle", "claim"},
         Claim(i, r), UNCHANGED <<world, files, facts>>
  PROVE  StepOk
<1> DEFINE row == rows[r]
           e == row.epoch + 1
           n == row.attempts + 1
           asked == IF i \in Humans THEN row.asked \cup {e} ELSE row.asked
           y == [row EXCEPT !.held = TRUE, !.live = TRUE, !.epoch = e, !.attempts = n, !.asked = asked]
           x == [w[i] EXCEPT !.pc = "decode", !.row = r, !.epoch = e]
<1>0. /\ RawTypes /\ RowsGood /\ WorkerGood(i) /\ w[i] \in WorkerType /\ facts \subseteq Items /\ ~queued
      /\ r \in Nat /\ envelope' = envelope /\ facts' = facts /\ queued' = queued
  BY Unqueued DEF RawInv, RawTypes, world
<1>1. row \in RowType /\ RowGood(row) /\ ~row.done /\ row.cap \in Replayable
  BY <1>0 DEF RawTypes, RowsGood, Claim, Claimable, Replayable
<1>2. rows' = [rows EXCEPT ![r] = y] /\ w' = [w EXCEPT ![i] = x] /\ row.cap = rows[r].cap
      /\ row.done = rows[r].done
  BY Zenon DEF Claim
<1> HIDE DEF row
<1>3. e \in Nat /\ n \in Nat
  BY <1>1 DEF RowType
<1> HIDE DEF e, n
<1>4. asked \in SUBSET Nat
  BY Zenon, <1>1, <1>3 DEF RowType
<1> HIDE DEF asked
<1>5. /\ y \in RowType /\ y.cap = row.cap /\ y.done = row.done /\ y.told = row.told
  BY Zenon, <1>1, <1>3, <1>4 DEF RowType
<1> HIDE DEF y
<1>6. RowGood(y)
  BY Zenon, <1>1, <1>5 DEF RowGood, Earned
<1>7. RowStep /\ DOMAIN rows' = DOMAIN rows /\ rows'[r] = y
  BY Zenon, <1>0, <1>1, <1>2, <1>5, <1>6, RowWritten
<1>8. x \in WorkerType /\ x.pc = "decode" /\ x.row = r /\ x.skipped = w[i].skipped
  BY Zenon, <1>0, <1>3 DEF WorkerType, RowPcs
<1> HIDE DEF x
<1>9. w'[i] = x
  BY Zenon, <1>0, <1>2, <1>8, Moved
<1>10. WorkerGood(i)'
  BY Zenon, <1>0, <1>1, <1>5, <1>7, <1>8, <1>9 DEF WorkerGood, Receiving
<1>11. x.pc \notin Receiving /\ x.pc \notin {"recovered", "remove", "mark_capture"}
  BY Zenon, <1>8 DEF Receiving
<1> QED
  BY Zenon, <1>0, <1>2, <1>7, <1>8, <1>10, <1>11, PlainMove DEF StepOk, RowStep

\* The audit of the reconcile task says nothing about who processed the row.
LEMMA SystemAudited ==
  ASSUME RawTypes, RowsGood, NEW r \in DOMAIN rows, SystemAudit(r), envelope' = envelope, facts' = facts
  PROVE  RowStep
<1> DEFINE row == rows[r]
           x == [row EXCEPT !.audit = "completed"]
<1>1. CASE rows' = rows
  BY Zenon, <1>1, RowsStay DEF RawTypes
<1>2. CASE rows' = [rows EXCEPT ![r].audit = "completed"]
  <2>1. row \in RowType /\ RowGood(row)
    BY DEF RawTypes, RowsGood
  <2>2. rows' = [rows EXCEPT ![r] = x]
    BY Zenon, <1>2
  <2> HIDE DEF row
  <2>3. /\ x \in RowType /\ x.cap = row.cap /\ x.done = row.done /\ x.elig = row.elig
        /\ x.held = row.held /\ x.epoch = row.epoch /\ x.told = row.told /\ x.asked = row.asked
    BY Zenon, <2>1 DEF RowType
  <2> HIDE DEF x
  <2>4. RowGood(x) /\ (row.done => x.done /\ x.elig = "never")
    BY Zenon, <2>1, <2>3 DEF RowGood, Earned
  <2> QED
    BY Zenon, <2>2, <2>3, <2>4, RowWritten DEF row
<1> QED
  BY Zenon, <1>1, <1>2 DEF SystemAudit

\* An operator is named for a claim that is theirs.
LEMMA HumanAudited ==
  ASSUME RawTypes, RowsGood, NEW r \in DOMAIN rows, rows[r].done \/ envelope = "spoiled",
         HumanAudit(r), envelope' = envelope, facts' = facts
  PROVE  RowStep
<1> DEFINE row == rows[r]
           x == [row EXCEPT !.told = TRUE]
<1>1. CASE rows' = rows
  BY Zenon, <1>1, RowsStay DEF RawTypes
<1>2. CASE row.epoch \in row.asked /\ rows' = [rows EXCEPT ![r].told = TRUE]
  <2>1. row \in RowType /\ RowGood(row) /\ (row.done \/ envelope = "spoiled")
    BY DEF RawTypes, RowsGood
  <2>2. rows' = [rows EXCEPT ![r] = x] /\ row.epoch \in row.asked
    BY Zenon, <1>2
  <2> HIDE DEF row
  <2>3. /\ x \in RowType /\ x.cap = row.cap /\ x.done = row.done /\ x.elig = row.elig
        /\ x.held = row.held /\ x.epoch = row.epoch /\ x.told = TRUE /\ x.asked = row.asked
    BY Zenon, <2>1 DEF RowType
  <2> HIDE DEF x
  <2>4. RowGood(x) /\ (row.done => x.done /\ x.elig = "never")
    BY Zenon, <2>1, <2>2, <2>3 DEF RowGood, Earned
  <2> QED
    BY Zenon, <2>2, <2>3, <2>4, RowWritten DEF row
<1> QED
  BY Zenon, <1>1, <1>2 DEF HumanAudit

LEMMA ClaimRefusedPreserves ==
  ASSUME RawInv, NEW i \in Workers, NEW r \in DOMAIN rows, ClaimRefused(i, r),
         UNCHANGED <<world, files, facts>>
  PROVE  StepOk
<1>0. RawTypes /\ RowsGood /\ envelope' = envelope /\ facts' = facts /\ facts \subseteq Items
  BY Zenon DEF RawInv, RawTypes, world
<1>1. RowStep
  <2>1. CASE rows' = rows
    BY Zenon, <1>0, <2>1, RowsStay
  <2>2. CASE SystemAudit(r)
    BY Zenon, <1>0, <2>2, SystemAudited
  <2>3. CASE rows[r].done /\ HumanAudit(r)
    BY Zenon, <1>0, <2>3, HumanAudited
  <2> QED
    BY Zenon, <2>1, <2>2, <2>3 DEF ClaimRefused
<1> QED
  BY Zenon, <1>1, WriteStops DEF ClaimRefused

LEMMA ReplayPreserves ==
  ASSUME RawInv, NEW i \in Workers, Replay(i)
  PROVE  StepOk
<1>1. w[i].pc = "claim" /\ w[i].row \in DOMAIN rows /\ UNCHANGED <<world, files, facts>>
  BY Zenon DEF RawInv, WorkerGood, Replay
<1> QED
  BY Zenon, <1>1, ClaimPreserves, ClaimRefusedPreserves DEF Replay

LEMMA AskReplayPreserves ==
  ASSUME RawInv, NEW i \in Humans, NEW r \in DOMAIN rows, AskReplay(i, r)
  PROVE  StepOk
<1>1. i \in Workers /\ w[i].pc = "idle" /\ UNCHANGED <<world, files, facts>>
  BY Zenon DEF AskReplay, Workers
<1> QED
  BY Zenon, <1>1, ClaimPreserves, ClaimRefusedPreserves DEF AskReplay

LEMMA AuditPreserves ==
  ASSUME RawInv, NEW i \in Workers, Audit(i)
  PROVE  StepOk
<1>0. /\ RawTypes /\ RowsGood /\ WorkerGood(i) /\ w[i].pc = "audit" /\ UNCHANGED <<world, files, facts>>
      /\ envelope' = envelope /\ facts' = facts /\ Stop(i)
  BY Zenon DEF RawInv, Audit, world
<1>1. w[i].row \in DOMAIN rows /\ (rows[w[i].row].done \/ envelope = "spoiled")
  BY Zenon, <1>0 DEF WorkerGood
<1>2. RowStep
  BY Zenon, <1>0, <1>1, SystemAudited, HumanAudited DEF Audit
<1> QED
  BY Zenon, <1>0, <1>1, <1>2, WriteStops

LEMMA ReevaluateLoadPreserves ==
  ASSUME RawInv, NEW i \in Humans, NEW r \in DOMAIN rows, ReevaluateLoad(i, r)
  PROVE  StepOk
<1> DEFINE seen == [done |-> rows[r].done, elig |-> rows[r].elig]
           x == [w[i] EXCEPT !.pc = "reevaluate", !.row = r, !.seen = seen]
<1>0. /\ i \in Workers /\ RawTypes /\ WorkerGood(i) /\ w[i] \in WorkerType /\ facts \subseteq Items
      /\ ~queued /\ r \in Nat /\ rows[r].cap \in Replayable /\ UNCHANGED <<world, files, rows, facts>>
  BY Unqueued DEF RawInv, RawTypes, Workers, ReevaluateLoad
<1>1. seen \in SeenType
  <2>1. rows[r] \in RowType
    BY <1>0 DEF RawTypes
  <2> QED
    BY Zenon, <2>1 DEF RowType, SeenType
<1>2. w' = [w EXCEPT ![i] = x]
  BY Zenon DEF ReevaluateLoad
<1> HIDE DEF seen
<1>3. x \in WorkerType /\ x.pc = "reevaluate" /\ x.row = r /\ x.skipped = w[i].skipped /\ x.seen = seen
  BY Zenon, <1>0, <1>1 DEF WorkerType, RowPcs
<1> HIDE DEF x
<1>4. w'[i] = x
  BY Zenon, <1>0, <1>2, <1>3, Moved
<1>5. WorkerGood(i)'
  BY Zenon, <1>0, <1>1, <1>3, <1>4 DEF WorkerGood, Receiving, world
<1> QED
  BY Zenon, <1>0, <1>2, <1>3, <1>5, MoveKeeps DEF Receiving

\* What a reevaluation writes agrees with the state it compares.
LEMMA ReevaluatePreserves ==
  ASSUME RawInv, NEW i \in Workers, Reevaluate(i)
  PROVE  StepOk
<1> DEFINE r == w[i].row
           row == rows[r]
           d == Disposition(i)
           x == [row EXCEPT !.elig = d]
<1>0. /\ RawTypes /\ RowsGood /\ WorkerGood(i) /\ w[i].pc = "reevaluate" /\ UNCHANGED <<world, files, facts>>
      /\ envelope' = envelope /\ facts' = facts /\ facts \subseteq Items /\ Stop(i)
  BY Zenon DEF RawInv, RawTypes, Reevaluate, world
<1>1. r \in DOMAIN rows /\ row.cap \in Replayable
  BY Zenon, <1>0 DEF WorkerGood
<1>2. CASE rows' = rows
  <2>1. RowStep
    BY Zenon, <1>0, <1>2, RowsStay
  <2> QED
    BY Zenon, <1>0, <1>1, <2>1, WriteStops
<1>3. CASE rows[r].done = w[i].seen.done /\ rows' = [rows EXCEPT ![r].elig = Disposition(i)]
  <2>1. d \in Eligible /\ (row.done => d = "never")
    BY Zenon, <1>3 DEF Disposition, Eligible
  <2>2. row \in RowType /\ RowGood(row)
    BY <1>0, <1>1 DEF RawTypes, RowsGood
  <2>3. rows' = [rows EXCEPT ![r] = x]
    BY Zenon, <1>3
  <2> HIDE DEF row, d
  <2>4. /\ x \in RowType /\ x.cap = row.cap /\ x.done = row.done /\ x.elig = d
        /\ x.held = row.held /\ x.epoch = row.epoch /\ x.told = row.told /\ x.asked = row.asked
    BY Zenon, <2>1, <2>2 DEF RowType
  <2> HIDE DEF x
  <2>5. RowGood(x) /\ (row.done => x.done /\ x.elig = "never")
    BY Zenon, <1>1, <2>1, <2>2, <2>4 DEF RowGood, Earned
  <2>6. RowStep
    BY Zenon, <1>0, <1>1, <2>3, <2>4, <2>5, RowWritten DEF row
  <2> QED
    BY Zenon, <1>0, <1>1, <2>6, WriteStops
<1> QED
  BY Zenon, <1>2, <1>3 DEF Reevaluate

----------------------------------------------------------------------------
(* Polls and recoveries that write or remove a copy *)

\* The poll that received the response goes on, alone.
LEMMA ReceivingMove ==
  ASSUME RawInv, NEW i \in Workers, NEW x \in WorkerType, w' = [w EXCEPT ![i] = x],
         UNCHANGED <<queued, envelope, overlap, rows, facts>>, w[i].pc \in Receiving,
         x.pc # "receive", x.cap = w[i].cap, received' = w[i].cap, spill' \in Captures \cup {None},
         stream' \in StreamType, stream' = NoFile \/ stream'.cap \in Captures, WorkerGood(i)',
         (~overlap /\ \A j \in Workers : w'[j].pc \in {"discard", "cleanup"} => j = i) => Safe'
  PROVE  StepOk
<1>0. RawTypes /\ RowsGood /\ Quiescent /\ OneReceives /\ WorkerGood(i)
  BY Zenon DEF RawInv
<1>1. w'[i] = x /\ \A j \in Workers \ {i} : w'[j] = w[j]
  BY Zenon, <1>0, Moved
<1>2. RowStep /\ received' \in Captures
  BY Zenon, <1>0, RowsStay DEF RawTypes, WorkerGood
<1>3. Quiescent'
  BY Zenon, <1>0 DEF Quiescent, Receiving
<1>4. \A j \in Workers : w'[j].pc \in Receiving => j = i
  BY Zenon, <1>0, <1>1 DEF OneReceives
<1>5. OneReceives'
  BY Zenon, <1>1, <1>4 DEF OneReceives, Receiving
<1>6. Safe'
  BY Zenon, <1>4 DEF Safe, Receiving
<1> QED
  BY Zenon, <1>0, <1>2, <1>3, <1>5, <1>6, MovePreserves DEF StepOk, RowStep, RawTypes

\* The processes that recover are the same if the one that goes on does not.
LEMMA NoneElseRecovers ==
  ASSUME RawTypes, NEW i \in Workers, NEW x \in WorkerType, w' = [w EXCEPT ![i] = x],
         x.pc \notin {"recovered", "remove"}, x.pc = "mark_capture" => x.file = None
  PROVE  \A j \in Workers : Recovering(j)' => Recovering(j) /\ w'[j] = w[j]
<1>1. w'[i] = x /\ \A j \in Workers \ {i} : w'[j] = w[j]
  BY Zenon, Moved
<1> QED
  BY Zenon, <1>1 DEF Recovering

\* The steps that write or remove a file: each leaves the response somewhere.
LEMMA ReceivedPreserves ==
  ASSUME RawInv, NEW i \in Pollers, Received(i)
  PROVE  StepOk
<1>0. /\ i \in Workers /\ RawTypes /\ WorkerGood(i) /\ OneReceives /\ w[i].pc = "receive"
      /\ UNCHANGED <<queued, envelope, overlap, spill, rows, facts>> /\ received' = w[i].cap
      /\ stream' = IF stream = NoFile THEN [state |-> "broken", cap |-> w[i].cap]
                   ELSE [stream EXCEPT !.state = "done"]
      /\ Goto(i, "spill") /\ w[i].pc \in Receiving
  BY Zenon DEF RawInv, Received, Workers, Receiving
<1>1. w[i].cap \in Captures /\ w[i].file = None
  BY Zenon, <1>0 DEF WorkerGood
<1>2. "spill" \in RowPcs
  BY Zenon DEF RowPcs
<1>3. PICK x \in WorkerType :
        /\ w' = [w EXCEPT ![i] = x] /\ w'[i] = x /\ x.pc = "spill" /\ x.row = w[i].row
        /\ x.skipped = w[i].skipped /\ x.cap = w[i].cap /\ x.file = w[i].file
  BY <1>0, <1>2, GotoIs
<1>4. WorkerGood(i)'
  BY Zenon, <1>0, <1>1, <1>3 DEF WorkerGood, Receiving
<1>5. stream' \in StreamType /\ stream'.cap \in Captures
  BY Zenon, <1>0, <1>1 DEF RawTypes, StreamType
<1>6. ASSUME ~overlap, \A j \in Workers : w'[j].pc \in {"discard", "cleanup"} => j = i
      PROVE  Safe'
  <2>1. /\ stream = [state |-> "partial", cap |-> w[i].cap] /\ spill = None
        /\ \A j \in Workers : ~Recovering(j)
    BY Zenon, <1>0, <1>6 DEF OneReceives
  <2>2. stream' = [state |-> "done", cap |-> received']
    BY Zenon, <1>0, <2>1 DEF NoFile
  <2>3. \A j \in Workers : ~Recovering(j)'
    BY Zenon, <1>0, <1>3, <2>1, NoneElseRecovers
  <2>4. NothingLost'
    BY Zenon, <2>2 DEF NothingLost
  <2> QED
    BY Zenon, <1>0, <1>3, <1>6, <2>1, <2>2, <2>3, <2>4 DEF Safe
<1> QED
  BY Zenon, <1>0, <1>3, <1>4, <1>5, <1>6, ReceivingMove DEF RawTypes

LEMMA SpillWritePreserves ==
  ASSUME RawInv, NEW i \in Pollers, SpillWrite(i)
  PROVE  StepOk
<1>0. /\ i \in Workers /\ RawTypes /\ WorkerGood(i) /\ OneReceives /\ Safe /\ w[i].pc = "spill"
      /\ UNCHANGED <<world, stream, rows, facts>> /\ w[i].pc \in Receiving \ {"receive"}
      /\ UNCHANGED <<queued, envelope, overlap>> /\ facts \subseteq Items /\ ~queued /\ received' = received
  BY Zenon DEF RawInv, SpillWrite, Workers, Receiving, world, RawTypes, Quiescent
<1>1. w[i].cap \in Captures /\ w[i].file = None /\ received = w[i].cap
  BY Zenon, <1>0 DEF WorkerGood, OneReceives
<1>2. "discard" \in RowPcs /\ "persist" \in RowPcs
  BY Zenon DEF RowPcs
<1>3. CASE spill' = w[i].cap /\ Goto(i, "discard")
  <2>1. PICK x \in WorkerType :
          /\ w' = [w EXCEPT ![i] = x] /\ w'[i] = x /\ x.pc = "discard" /\ x.row = w[i].row
          /\ x.skipped = w[i].skipped /\ x.cap = w[i].cap /\ x.file = w[i].file
    BY <1>0, <1>2, <1>3, GotoIs
  <2>2. WorkerGood(i)'
    BY Zenon, <1>0, <1>1, <2>1 DEF WorkerGood, Receiving
  <2>3. ASSUME ~overlap, \A j \in Workers : w'[j].pc \in {"discard", "cleanup"} => j = i
        PROVE  Safe'
    <3>1. spill' = received' /\ NothingLost'
      BY Zenon, <1>0, <1>1, <1>3 DEF NothingLost
    <3>2. \A j \in Workers : Recovering(j)' => Recovering(j) /\ w'[j] = w[j]
      BY Zenon, <1>0, <2>1, NoneElseRecovers
    <3>3. Rowed' <=> Rowed
      BY Zenon, <1>0 DEF Rowed
    <3> QED
      BY Zenon, <1>0, <2>1, <2>3, <3>1, <3>2, <3>3 DEF Safe, NoFile
  <2> QED
    BY Zenon, <1>0, <1>1, <1>3, <2>1, <2>2, <2>3, ReceivingMove DEF RawTypes, NoFile
<1>4. CASE Goto(i, "persist") /\ UNCHANGED spill
  <2>1. PICK x \in WorkerType :
          /\ w' = [w EXCEPT ![i] = x] /\ w'[i] = x /\ x.pc = "persist" /\ x.row = w[i].row
          /\ x.skipped = w[i].skipped /\ x.cap = w[i].cap /\ x.file = w[i].file
    BY <1>0, <1>2, <1>4, GotoIs
  <2>2. WorkerGood(i)'
    BY Zenon, <1>0, <1>1, <2>1 DEF WorkerGood, Receiving
  <2>3. RowStep
    BY Zenon, <1>0, RowsStay DEF RawInv
  <2> QED
    BY Zenon, <1>0, <1>4, <2>1, <2>2, <2>3, FlowMove DEF StepOk, RowStep, files
<1> QED
  BY Zenon, <1>3, <1>4 DEF SpillWrite

LEMMA DiscardStreamPreserves ==
  ASSUME RawInv, NEW i \in Pollers, DiscardStream(i)
  PROVE  StepOk
<1>0. /\ i \in Workers /\ RawTypes /\ WorkerGood(i) /\ OneReceives /\ Safe /\ w[i].pc = "discard"
      /\ UNCHANGED <<queued, envelope, overlap, spill, rows, facts>> /\ received' = received
      /\ w[i].pc \in Receiving \ {"receive"} /\ stream' = NoFile /\ Goto(i, "persist")
  BY Zenon DEF RawInv, DiscardStream, Workers, Receiving, world
<1>1. w[i].cap \in Captures /\ w[i].file = None /\ received = w[i].cap
  BY Zenon, <1>0 DEF WorkerGood, OneReceives
<1>2. "persist" \in RowPcs /\ NoFile \in StreamType
  BY Zenon DEF RowPcs, NoFile, StreamType
<1>3. PICK x \in WorkerType :
        /\ w' = [w EXCEPT ![i] = x] /\ w'[i] = x /\ x.pc = "persist" /\ x.row = w[i].row
        /\ x.skipped = w[i].skipped /\ x.cap = w[i].cap /\ x.file = w[i].file
  BY <1>0, <1>2, GotoIs
<1>4. WorkerGood(i)'
  BY Zenon, <1>0, <1>1, <1>3 DEF WorkerGood, Receiving
<1>5. ASSUME ~overlap, \A j \in Workers : w'[j].pc \in {"discard", "cleanup"} => j = i
      PROVE  Safe'
  <2>1. \A j \in Workers : Recovering(j)' => Recovering(j) /\ w'[j] = w[j]
    BY Zenon, <1>0, <1>3, NoneElseRecovers
  <2>2. Rowed' <=> Rowed
    BY Zenon, <1>0 DEF Rowed
  <2>3. received # None => spill = received \/ Rowed
    BY Zenon, <1>0, <1>5 DEF Safe
  <2>4. NothingLost'
    BY Zenon, <1>0, <2>3 DEF NothingLost, Rowed
  <2> QED
    BY Zenon, <1>0, <1>3, <1>5, <2>1, <2>2, <2>4 DEF Safe, NoFile
<1> QED
  BY Zenon, <1>0, <1>1, <1>2, <1>3, <1>4, <1>5, ReceivingMove DEF RawTypes

LEMMA CleanUpPreserves ==
  ASSUME RawInv, NEW i \in Pollers, CleanUp(i)
  PROVE  StepOk
<1> DEFINE next == IF w[i].cap \in {"complete_too_large", "truncated"} THEN "mark_capture" ELSE "persisted"
<1>0. /\ i \in Workers /\ RawTypes /\ WorkerGood(i) /\ OneReceives /\ Safe /\ w[i].pc = "cleanup"
      /\ UNCHANGED <<queued, envelope, overlap, rows, facts>> /\ received' = received
      /\ w[i].pc \in Receiving \ {"receive"} /\ stream' = NoFile /\ spill' = None /\ Goto(i, next)
  BY Zenon DEF RawInv, CleanUp, Workers, Receiving, world
<1>1. /\ w[i].cap \in Captures /\ w[i].file = None /\ received = w[i].cap /\ w[i].row \in DOMAIN rows
      /\ rows[w[i].row].cap = w[i].cap
  BY Zenon, <1>0 DEF WorkerGood, OneReceives
<1>2. next \in RowPcs /\ next \in {"mark_capture", "persisted"} /\ NoFile \in StreamType
  BY Zenon DEF RowPcs, NoFile, StreamType
<1> HIDE DEF next
<1>3. PICK x \in WorkerType :
        /\ w' = [w EXCEPT ![i] = x] /\ w'[i] = x /\ x.pc = next /\ x.row = w[i].row
        /\ x.skipped = w[i].skipped /\ x.cap = w[i].cap /\ x.file = w[i].file
  BY <1>0, <1>2, GotoIs
<1>4. WorkerGood(i)'
  BY Zenon, <1>0, <1>1, <1>2, <1>3 DEF WorkerGood, Receiving
<1>5. ASSUME ~overlap, \A j \in Workers : w'[j].pc \in {"discard", "cleanup"} => j = i
      PROVE  Safe'
  <2>1. \A j \in Workers : Recovering(j)' => Recovering(j) /\ w'[j] = w[j]
    BY Zenon, <1>0, <1>1, <1>2, <1>3, NoneElseRecovers
  <2>2. Rowed' /\ Rowed
    BY Zenon, <1>0, <1>1 DEF Rowed
  <2>3. NothingLost'
    BY Zenon, <2>2 DEF NothingLost, Rowed
  <2> QED
    BY Zenon, <1>0, <1>2, <1>3, <1>5, <2>1, <2>2, <2>3 DEF Safe
<1> QED
  BY Zenon, <1>0, <1>1, <1>2, <1>3, <1>4, <1>5, ReceivingMove

\* The response leaves the queue.
LEMMA AnnouncePreserves ==
  ASSUME RawInv, NEW i \in Pollers, NEW cap \in Captures, NEW e \in Envelopes, Announce(i, cap, e)
  PROVE  StepOk
<1> DEFINE x == [w[i] EXCEPT !.pc = "receive", !.cap = cap]
<1>0. /\ i \in Workers /\ RawTypes /\ WorkerGood(i) /\ w[i] \in WorkerType /\ w[i].pc = "call" /\ queued
      /\ queued' = FALSE /\ envelope' = e /\ stream' = [state |-> "partial", cap |-> cap]
      /\ w' = [w EXCEPT ![i] = x]
      /\ received' = received /\ overlap' = overlap /\ spill' = spill /\ rows' = rows /\ facts' = facts
  BY Zenon DEF RawInv, RawTypes, Announce, Workers
<1>1. /\ x \in WorkerType /\ x.pc = "receive" /\ x.cap = cap /\ x.skipped = w[i].skipped
      /\ x.file = w[i].file
  BY Zenon, <1>0 DEF WorkerType, RowPcs
<1> HIDE DEF x
<1>2. w' \in [Workers -> WorkerType] /\ w'[i] = x /\ \A j \in Workers \ {i} : w'[j] = w[j]
  BY Zenon, <1>0, <1>1, Moved
<1>3. /\ spill = None /\ received = None /\ rows = <<>>
      /\ \A j \in Workers : w[j].pc \in {"idle", "recover", "call"} /\ ~w[j].skipped
  BY Zenon, <1>0 DEF RawInv, Quiescent, WorkerGood
<1>4. \A j \in Workers \ {i} : w'[j].pc \in {"idle", "recover", "call"} /\ ~w'[j].skipped
  BY Zenon, <1>2, <1>3
<1>5. RawTypes'
  BY Zenon, <1>0, <1>2 DEF RawTypes, StreamType
<1>6. RowsGood' /\ RowsKept
  BY <1>0, <1>3 DEF RowsGood, RowsKept
<1>7. \A j \in Workers \ {i} : WorkerGood(j)'
  BY Zenon, <1>2, <1>4 DEF WorkerGood, Receiving, RawInv
<1>8. WorkerGood(i)'
  BY Zenon, <1>0, <1>1, <1>2, <1>3 DEF WorkerGood, Receiving
<1>9. Quiescent'
  BY Zenon, <1>0 DEF Quiescent
<1>10. \A j \in Workers : ~Recovering(j)' /\ (w'[j].pc \in Receiving => j = i)
  BY Zenon, <1>1, <1>2, <1>4 DEF Recovering, Receiving
<1>11. OneReceives'
  BY Zenon, <1>0, <1>1, <1>2, <1>3, <1>10 DEF OneReceives
<1>12. Safe'
  BY Zenon, <1>0, <1>3 DEF Safe
<1> QED
  BY Zenon, <1>5, <1>6, <1>7, <1>8, <1>9, <1>11, <1>12 DEF StepOk, RawInv

\* A recovery reads a file.
LEMMA RecoverReadPreserves ==
  ASSUME RawInv, NEW i \in Pollers, NEW f \in {"spill", "stream"}, RecoverRead(i, f)
  PROVE  StepOk
<1> DEFINE cap == IF f = "spill" THEN spill ELSE ReadStream
           tried == w[i].tried \cup {f}
           x == [w[i] EXCEPT !.pc = "recovered", !.file = f, !.cap = cap, !.tried = tried]
<1>0. /\ i \in Workers /\ RawTypes /\ RowsGood /\ WorkerGood(i) /\ OneReceives /\ Safe /\ Quiescent
      /\ w[i] \in WorkerType /\ w[i].pc = "recover" /\ f \in Present
      /\ overlap' = (overlap \/ (f = "stream" /\ \E p \in Pollers : w[p].pc = "receive"))
      /\ UNCHANGED <<queued, envelope, received, stream, spill, rows, facts>>
      /\ w' = [w EXCEPT ![i] = x] /\ facts \subseteq Items
  BY Zenon DEF RawInv, RawTypes, RecoverRead, Workers, files
<1>1. /\ f = "spill" => spill # None /\ cap = spill
      /\ f = "stream" => /\ stream # NoFile /\ stream.state \in {"partial", "done"} /\ cap = ReadStream
                         /\ stream.cap \in Captures
  BY <1>0 DEF Present, NoFile, RawTypes
<1>2. cap \in Captures /\ ~queued
  BY Zenon, <1>0, <1>1 DEF ReadStream, RawTypes, Captures, Quiescent
<1>3. tried \in SUBSET {"spill", "stream"}
  BY Zenon, <1>0 DEF WorkerType
<1> HIDE DEF cap, tried
<1>4. x \in WorkerType /\ x.pc = "recovered" /\ x.cap = cap /\ x.skipped = w[i].skipped
  BY Zenon, <1>0, <1>2, <1>3 DEF WorkerType, RowPcs
<1> HIDE DEF x
<1>5. w'[i] = x /\ \A j \in Workers \ {i} : w'[j] = w[j]
  BY Zenon, <1>0, <1>4, Moved
<1>6. WorkerGood(i)'
  BY Zenon, <1>0, <1>2, <1>4, <1>5 DEF WorkerGood, Receiving
<1>7. RowStep
  BY Zenon, <1>0, RowsStay
<1>8. Quiescent' /\ overlap' \in BOOLEAN
  BY Zenon, <1>0, <1>2 DEF Quiescent, RawTypes
<1>9. \A j \in Workers : w'[j].pc \in Receiving => w'[j] = w[j] /\ j \in Pollers
  BY Zenon, <1>4, <1>5 DEF Receiving, RawInv, WorkerGood
<1>10. ASSUME NEW j \in Workers, w'[j].pc = "receive", ~overlap' PROVE FALSE
  <2>1. w[j].pc = "receive" /\ j \in Pollers /\ ~overlap
    BY Zenon, <1>0, <1>9, <1>10 DEF Receiving
  <2> QED
    BY Zenon, <1>0, <1>1, <1>10, <2>1 DEF OneReceives
<1>11. OneReceives'
  BY Zenon, <1>0, <1>9, <1>10 DEF OneReceives, Receiving
<1>12. Safe'
  <2>0. SUFFICES ASSUME received # None, ~overlap PROVE Safe'
    BY Zenon, <1>0 DEF Safe
  <2>1. cap = received
    <3>1. /\ spill \in {None, received}
          /\ stream = NoFile \/ stream = [state |-> "done", cap |-> received]
      BY Zenon, <1>0, <2>0 DEF Safe
    <3>2. CASE f = "spill"
      BY Zenon, <1>1, <3>1, <3>2
    <3>3. CASE f = "stream"
      <4>1. stream.state = "done" /\ stream.cap = received /\ cap = ReadStream
        BY <1>1, <3>1, <3>3
      <4> QED
        BY Zenon, <4>1 DEF ReadStream
    <3> QED
      BY Zenon, <3>2, <3>3
  <2>2. \A j \in Workers : w'[j].pc \in {"discard", "cleanup"} => w'[j] = w[j]
    BY Zenon, <1>9 DEF Receiving
  <2>3. \A j \in Workers : Recovering(j)' =>
          \/ Recovering(j) /\ w'[j] = w[j]
          \/ w'[j].pc = "recovered" /\ w'[j].cap = received
    BY Zenon, <1>4, <1>5, <2>1 DEF Recovering
  <2>4. (Rowed' <=> Rowed) /\ (NothingLost => NothingLost')
    BY Zenon, <1>0, <2>0 DEF Rowed, NothingLost
  <2> QED
    BY Zenon, <1>0, <2>0, <2>2, <2>3, <2>4 DEF Safe, NoFile
<1> QED
  BY Zenon, <1>0, <1>4, <1>6, <1>7, <1>8, <1>11, <1>12, MovePreserves
    DEF StepOk, RowStep, RawTypes, NoFile

\* A recovery removes the file it committed.
LEMMA RecoverRemovePreserves ==
  ASSUME RawInv, NEW i \in Pollers, RecoverRemove(i)
  PROVE  StepOk
<1> DEFINE x == [Idle EXCEPT !.pc = "recover", !.tried = w[i].tried]
<1>0. /\ i \in Workers /\ RawTypes /\ RowsGood /\ OneReceives /\ Safe /\ Quiescent
      /\ w[i] \in WorkerType /\ w[i].pc = "remove" /\ w' = [w EXCEPT ![i] = x]
      /\ UNCHANGED <<queued, envelope, received, overlap, rows, facts>>
      /\ spill' \in {spill, None} /\ stream' \in {stream, NoFile} /\ facts \subseteq Items
  BY Zenon DEF RawInv, RawTypes, RecoverRemove, Workers, world
<1>1. x \in WorkerType /\ x.pc = "recover" /\ x.skipped = FALSE
  BY Zenon, <1>0, BetweenIs DEF WorkerType, Idle
<1> HIDE DEF x
<1>2. w'[i] = x /\ \A j \in Workers \ {i} : w'[j] = w[j]
  BY Zenon, <1>0, <1>1, Moved
<1>3. WorkerGood(i)'
  BY Zenon, <1>1, <1>2 DEF WorkerGood, Receiving
<1>4. RowStep
  BY Zenon, <1>0, RowsStay
<1>5. Quiescent' /\ Recovering(i)
  BY Zenon, <1>0 DEF Quiescent, Recovering
<1>6. \A j \in Workers : w'[j].pc \in Receiving => w'[j] = w[j]
  BY Zenon, <1>1, <1>2 DEF Receiving
<1>7. OneReceives'
  BY Zenon, <1>0, <1>5, <1>6 DEF OneReceives, Receiving
<1>8. Safe'
  <2>0. SUFFICES ASSUME received # None, ~overlap PROVE Safe'
    BY Zenon, <1>0 DEF Safe
  <2>1. Rowed /\ Rowed'
    BY Zenon, <1>0, <1>5, <2>0 DEF Safe, Rowed
  <2>2. NothingLost'
    BY Zenon, <2>1 DEF NothingLost, Rowed
  <2>3. \A j \in Workers : Recovering(j)' => Recovering(j) /\ w'[j] = w[j]
    BY Zenon, <1>0, <1>1, NoneElseRecovers
  <2> QED
    BY Zenon, <1>0, <2>0, <2>1, <2>2, <2>3 DEF Safe, NoFile
<1>9. stream' \in StreamType /\ (stream' = NoFile \/ stream'.cap \in Captures)
  BY <1>0 DEF RawTypes, NoFile, StreamType
<1> QED
  BY Zenon, <1>0, <1>1, <1>3, <1>4, <1>5, <1>7, <1>8, <1>9, MovePreserves
    DEF StepOk, RowStep, RawTypes

----------------------------------------------------------------------------
(* The theorems *)

\* The first state, with a spill that an older release left or without.
LEMMA RawInitial ==
  ASSUME Init
  PROVE  RawInv
<1>1. /\ envelope = "list" /\ queued \in BOOLEAN /\ spill \in Captures \cup {None} /\ stream = NoFile
      /\ rows = <<>> /\ facts = {} /\ received = None /\ overlap = FALSE
      /\ w = [i \in Workers |-> Idle] /\ (queued => spill = None)
  BY Zenon DEF Init, Captures
<1>2. RawTypes
  <2>1. w \in [Workers -> WorkerType]
    BY Zenon, <1>1, IdleIs
  <2>2. rows \in Seq(RowType)
    BY <1>1
  <2>3. NoFile \in StreamType /\ "list" \in Envelopes
    BY Zenon DEF NoFile, StreamType, Envelopes
  <2> QED
    BY Zenon, <1>1, <2>1, <2>2, <2>3 DEF RawTypes
<1>3. \A i \in Workers : w[i] = Idle
  BY Zenon, <1>1
<1>4. \A i \in Workers : WorkerGood(i)
  BY Zenon, <1>3, IdleIs DEF WorkerGood, Receiving
<1>5. RowsGood
  BY <1>1 DEF RowsGood
<1>6. Quiescent
  BY Zenon, <1>1, <1>3, IdleIs DEF Quiescent
<1>7. OneReceives
  BY Zenon, <1>3, IdleIs DEF OneReceives, Receiving
<1>8. Safe
  BY Zenon, <1>1 DEF Safe
<1> QED
  BY Zenon, <1>2, <1>4, <1>5, <1>6, <1>7, <1>8 DEF RawInv

\* A step of a poll.
LEMMA PollStepPreserves ==
  ASSUME RawInv, NEW i \in Pollers, PollStep(i)
  PROVE  StepOk
<1>1. CASE Recover(i)
  BY Zenon, <1>1, RecoverReadPreserves, RecoverPersistPreserves, RecoverRemovePreserves,
      RecoverDonePreserves
     DEF Recover
<1>2. CASE ~Recover(i)
  BY Zenon, <1>2, MarkCapturePreserves, CallEmptyPreserves, ReceivedPreserves,
      SpillWritePreserves,
     DiscardStreamPreserves, PersistRawPreserves, CleanUpPreserves,
     DecodePreserves DEF PollStep
<1> QED
  BY Zenon, <1>1, <1>2

\* A step of a replay or of a reevaluation.
LEMMA ReplayStepPreserves ==
  ASSUME RawInv, NEW i \in Workers, ReplayStep(i)
  PROVE  StepOk
BY Zenon, ReplayPreserves, ReplayDecodePreserves, AuditPreserves, ReevaluatePreserves
  DEF ReplayStep

\* Every step keeps the invariant and what the rows say.
LEMMA RawStepPreserves ==
  ASSUME RawInv, Next
  PROVE  StepOk
<1>1. ASSUME NEW i \in Pollers, Acquire(i) PROVE StepOk
  BY Zenon, <1>1, AcquirePreserves
<1>2. ASSUME NEW i \in Pollers, PollStep(i) PROVE StepOk
  BY Zenon, <1>2, PollStepPreserves
<1>3. ASSUME NEW i \in Pollers, ReceiveFails(i) PROVE StepOk
  BY Zenon, <1>3, ReceiveFailsPreserves
<1>4. ASSUME NEW i \in Pollers, NEW cap \in Captures \ {"unknown_legacy"}, NEW e \in Envelopes,
             Announce(i, cap, e)
      PROVE  StepOk
  BY Zenon, <1>4, AnnouncePreserves
<1>5. ASSUME NEW i \in System \cup Humans, ReplayStep(i) PROVE StepOk
  BY Zenon, <1>5, ReplayStepPreserves DEF Workers
<1>6. ASSUME NEW i \in System, Reconcile(i) PROVE StepOk
  BY Zenon, <1>6, ReconcilePreserves
<1>7. ASSUME NEW i \in Humans, NEW r \in DOMAIN rows, AskReplay(i, r) \/ ReevaluateLoad(i, r)
      PROVE  StepOk
  BY Zenon, <1>7, AskReplayPreserves, ReevaluateLoadPreserves
<1>8. ASSUME NEW i \in Workers, Process(i) \/ ItemFails(i) \/ Heartbeat(i) \/ Crash(i) PROVE StepOk
  BY Zenon, <1>8, ItemPreserves, FinishPreserves, ItemFailsPreserves, HeartbeatPreserves,
      CrashPreserves
     DEF Process
<1>9. ASSUME NEW r \in DOMAIN rows, LeaseExpires(r) PROVE StepOk
  BY Zenon, <1>9, LeaseExpiresPreserves
<1>10. CASE LockLapses
  BY Zenon, <1>10, LockLapsesPreserves
<1> QED
  BY Zenon, <1>1, <1>2, <1>3, <1>4, <1>5, <1>6, <1>7, <1>8, <1>9, <1>10 DEF Next

\* A step in which nothing changes.
LEMMA RawStutterPreserves ==
  ASSUME RawInv, UNCHANGED vars
  PROVE  StepOk
<1>1. UNCHANGED <<world, files, rows, facts, w>>
  BY Zenon DEF vars, world, files
<1> QED
  BY Zenon, <1>1
    DEF StepOk, RawInv, RawTypes, RowsGood, RowGood, Earned, WorkerGood, Decodes,
        Unparsable,
              Quiescent, OneReceives, Recovering, Safe, NothingLost, Rowed, RowsKept,
              world, files, NoFile

\* The way of a response keeps the invariant: rows are as their processors need
\* them, one poll receives, and whoever is about to remove a copy has seen to another.
THEOREM RawInvariant == Spec => []RawInv
<1>1. Init => RawInv
  BY Zenon, RawInitial
<1>2. RawInv /\ [Next]_vars => RawInv'
  BY Zenon, RawStepPreserves, RawStutterPreserves DEF StepOk
<1> QED
  BY <1>1, <1>2, PTL DEF Spec

\* For any number of polls, replays and operators, a response that was read to its
\* end is in a file or in a row from then on, unless a recovery read the stream of a
\* poll that was still receiving (_commit_raw, recover_spills).
THEOREM RawNothingLost == Spec => []NothingLost
<1>1. RawInv => NothingLost
  BY Zenon DEF RawInv, Safe, NothingLost
<1> QED
  BY <1>1, RawInvariant, PTL

\* For any number of polls, replays and operators, a row counts as processed only if
\* every item became a fact, stays processed, and names an operator only for a claim
\* of an operator (FENCED_TERMINAL_SQL, the claim and the audits of replay).
THEOREM RawProcessedIsEarned == Spec => ProcessedIsEarned
<1>1. RawInv => \A r \in DOMAIN rows : Earned(rows[r])
  BY Zenon DEF RawInv, RowsGood, RowGood
<1>2. RawInv /\ [Next]_vars =>
        [\A r \in DOMAIN rows : rows[r].done => rows'[r].done /\ rows'[r].elig = "never"]_vars
  BY Zenon, RawStepPreserves DEF StepOk, RowsKept
<1> QED
  BY <1>1, <1>2, RawInvariant, PTL DEF Spec, ProcessedIsEarned

----------------------------------------------------------------------------
(* The reports in it *)

\* Facts about finite sets, which only the proofs below need.
INSTANCE FiniteSetTheorems

\* A report that is shown is one that was applied to the message; without a report
\* no message is delivered.
Shows ==
  \A m \in Messages :
    /\ msg[m].report # Null => msg[m].report \in projected /\ msg[m].report.msg = m
    /\ msg[m].report = Null => msg[m].status # "delivered"

\* The chunk of a message that an older version set back was submitted.
DriftedSubmitted == \A m \in Drifted : chunk[ChunkOf[m]] = "submitted"

\* The inductive invariant.
ReportInv == ReportTypeOK /\ Shows /\ DriftedSubmitted /\ BestReportDecides /\ BatchIsExact

Final == {"delivered", "failed", "unknown", "other"}

----------------------------------------------------------------------------
(* The order among reports *)

\* What is known of a report.
LEMMA EventFacts ==
  ASSUME NEW e \in Events
  PROVE  /\ e # Null
         /\ e.msg \in Messages /\ e.status \in ReportStatuses
         /\ e.time \in Nat /\ e.key \in Nat
         /\ StatusOf(e) \in Final
         /\ StatusOf(e) = "delivered" <=> e.status = 1
         /\ Class(e.status) \in Nat /\ Rank(e.status) \in Nat
         /\ Class(e.status) = 4 <=> e.status = 1
         /\ Class(e.status) <= 4
<1>1. e.status \in ReportStatuses /\ e.msg \in Messages /\ e.time \in Nat /\ e.key \in Nat
      /\ e # Null
  BY Zenon, ReportProjectionAssumption
<1>2. \/ e.status = 0 \/ e.status = 1 \/ e.status = 2 \/ e.status = 3 \/ e.status = 99
  BY Zenon, <1>1 DEF ReportStatuses
<1> QED
  BY <1>1, <1>2 DEF StatusOf, Class, Rank, Final

\* The order of the sort keys, written out.
Lower(e, f) ==
  \/ Class(e.status) < Class(f.status)
  \/ /\ Class(e.status) = Class(f.status)
     /\ \/ e.time < f.time
        \/ /\ e.time = f.time
           /\ \/ Rank(e.status) < Rank(f.status)
              \/ Rank(e.status) = Rank(f.status) /\ e.key < f.key

\* The order of the sort keys, written out.
LEMMA BeforeIsLower ==
  ASSUME NEW e \in Events, NEW f \in Events
  PROVE  Before(SortKey(e), SortKey(f)) <=> Lower(e, f)
<1> DEFINE a == SortKey(e)
           b == SortKey(f)
<1>1. /\ a[1] = Class(e.status) /\ a[2] = e.time /\ a[3] = Rank(e.status) /\ a[4] = e.key
      /\ b[1] = Class(f.status) /\ b[2] = f.time /\ b[3] = Rank(f.status) /\ b[4] = f.key
  BY Zenon DEF SortKey
<1> HIDE DEF a, b
<1>2. Before(a, b) <=> \/ a[1] < b[1]
                       \/ a[1] = b[1] /\ a[2] < b[2]
                       \/ a[1] = b[1] /\ a[2] = b[2] /\ a[3] < b[3]
                       \/ a[1] = b[1] /\ a[2] = b[2] /\ a[3] = b[3] /\ a[4] < b[4]
  <2>1. Before(a, b) <=> \/ a[1] < b[1] /\ \A j \in 1..0 : a[j] = b[j]
                         \/ a[2] < b[2] /\ \A j \in 1..1 : a[j] = b[j]
                         \/ a[3] < b[3] /\ \A j \in 1..2 : a[j] = b[j]
                         \/ a[4] < b[4] /\ \A j \in 1..3 : a[j] = b[j]
    <3>1. \A i \in 1..4 : i = 1 \/ i = 2 \/ i = 3 \/ i = 4
      OBVIOUS
    <3> QED
      BY <3>1 DEF Before
  <2>2. \A j \in 1..0 : a[j] = b[j]
    OBVIOUS
  <2>3. (\A j \in 1..1 : a[j] = b[j]) <=> a[1] = b[1]
    OBVIOUS
  <2>4. (\A j \in 1..2 : a[j] = b[j]) <=> a[1] = b[1] /\ a[2] = b[2]
    <3>1. \A j \in 1..2 : j = 1 \/ j = 2
      OBVIOUS
    <3> QED
      BY <3>1
  <2>5. (\A j \in 1..3 : a[j] = b[j]) <=> a[1] = b[1] /\ a[2] = b[2] /\ a[3] = b[3]
    <3>1. \A j \in 1..3 : j = 1 \/ j = 2 \/ j = 3
      OBVIOUS
    <3> QED
      BY <3>1
  <2> QED
    BY Zenon, <2>1, <2>2, <2>3, <2>4, <2>5
<1> QED
  BY Zenon, <1>1, <1>2 DEF Lower, a, b

\* The comparison of the UPDATE is that order, which is total.
LEMMA SupersedesIsLower ==
  ASSUME NEW e \in Events, NEW f \in Events
  PROVE  /\ Supersedes(e, f) <=> Lower(f, e)
         /\ ~Supersedes(e, f) => e = f \/ Lower(e, f)
<1>1. /\ e.time \in Nat /\ e.key \in Nat /\ Class(e.status) \in Nat /\ Rank(e.status) \in Nat
      /\ f.time \in Nat /\ f.key \in Nat /\ Class(f.status) \in Nat /\ Rank(f.status) \in Nat
      /\ f # Null
  BY Zenon, EventFacts
<1>2. f.status = 1 /\ e.status \in {2, 99} => Class(f.status) = 4 /\ Class(e.status) = 3
  BY DEF Class
<1>3. Supersedes(e, f) <=> Lower(f, e)
  BY <1>1, <1>2 DEF Supersedes, Lower
<1>4. e.key = f.key => e = f
  BY Zenon, ReportProjectionAssumption
<1> QED
  BY <1>1, <1>3, <1>4 DEF Lower

\* The order is transitive.
LEMMA LowerIsTransitive ==
  ASSUME NEW e \in Events, NEW f \in Events, NEW g \in Events, Lower(e, f), Lower(f, g)
  PROVE  Lower(e, g)
<1>1. /\ e.time \in Nat /\ e.key \in Nat /\ Class(e.status) \in Nat /\ Rank(e.status) \in Nat
      /\ f.time \in Nat /\ f.key \in Nat /\ Class(f.status) \in Nat /\ Rank(f.status) \in Nat
      /\ g.time \in Nat /\ g.key \in Nat /\ Class(g.status) \in Nat /\ Rank(g.status) \in Nat
  BY Zenon, EventFacts
<1> QED
  BY <1>1 DEF Lower

----------------------------------------------------------------------------
(* Counting *)

\* The messages a count counts.
Those(ms, S) == {m \in Messages : ms[m].status \in S}

\* A count is the cardinality of a finite set.
LEMMA CountFacts ==
  ASSUME NEW ms, NEW S
  PROVE  /\ IsFiniteSet(Those(ms, S)) /\ Count(ms, S) = Cardinality(Those(ms, S))
         /\ Count(ms, S) \in Nat
         /\ Count(ms, S) = 0 <=> \A m \in Messages : ms[m].status \notin S
<1>1. Those(ms, S) \in SUBSET Messages
  BY Zenon DEF Those
<1>2. IsFiniteSet(Those(ms, S))
  BY Zenon, <1>1, FS_Subset, ReportProjectionAssumption
<1>3. Count(ms, S) = Cardinality(Those(ms, S))
  BY Zenon DEF Count, Those
<1>4. Cardinality(Those(ms, S)) \in Nat
  BY Zenon, <1>2, FS_CardinalityType
<1>5. Cardinality(Those(ms, S)) = 0 <=> Those(ms, S) = {}
  BY Zenon, <1>2, FS_EmptySet
<1> QED
  BY Zenon, <1>2, <1>3, <1>4, <1>5 DEF Those

\* Messages that only move within S, or outside of it, leave its count alone.
LEMMA CountSame ==
  ASSUME NEW ms, NEW ns, NEW S,
         \A m \in Messages : ms[m].status \in S <=> ns[m].status \in S
  PROVE  Count(ms, S) = Count(ns, S)
<1>1. {m \in Messages : ms[m].status \in S} = {m \in Messages : ns[m].status \in S}
  OBVIOUS
<1> QED
  BY Zenon, <1>1 DEF Count

\* The messages of T go from old to new, and no others change.
Moves(ms, ns, T, old, new) ==
  /\ T \in SUBSET Messages
  /\ \A m \in T : ms[m].status = old /\ ns[m].status = new
  /\ \A m \in Messages \ T : ns[m].status = ms[m].status

\* Each count changes by the number of messages that enter or leave.
LEMMA CountMoves ==
  ASSUME NEW ms, NEW ns, NEW T, NEW old, NEW new, NEW S, Moves(ms, ns, T, old, new)
  PROVE  /\ Cardinality(T) \in Nat
         /\ Count(ns, S)
              = Count(ms, S) + Cardinality(T) * (Was(new \in S) - Was(old \in S))
<1> DEFINE A == Those(ms, S)
           B == Those(ns, S)
<1>1. IsFiniteSet(T) /\ Cardinality(T) \in Nat
  BY Zenon, FS_Subset, FS_CardinalityType, ReportProjectionAssumption DEF Moves
<1>2. /\ IsFiniteSet(A) /\ IsFiniteSet(B) /\ Count(ms, S) \in Nat
      /\ Count(ms, S) = Cardinality(A) /\ Count(ns, S) = Cardinality(B)
  BY Zenon, CountFacts
<1>3. CASE new \in S <=> old \in S
  <2>1. Count(ms, S) = Count(ns, S)
    BY <1>3, CountSame DEF Moves
  <2>2. Was(new \in S) - Was(old \in S) = 0
    BY <1>3 DEF Was
  <2> QED
    BY <1>1, <1>2, <2>1, <2>2
<1>4. CASE new \in S /\ old \notin S
  <2>1. B = A \cup T /\ A \cap T = {}
    BY Zenon, <1>4 DEF Moves, Those
  <2> HIDE DEF A, B
  <2>2. Cardinality(B) = Cardinality(A) + Cardinality(T)
    BY <1>1, <1>2, <2>1, FS_Union, FS_EmptySet
  <2>3. Was(new \in S) - Was(old \in S) = 1
    BY <1>4 DEF Was
  <2> QED
    BY <1>1, <1>2, <2>2, <2>3
<1>5. CASE new \notin S /\ old \in S
  <2>1. B = A \ T /\ A \cap T = T
    BY Zenon, <1>5 DEF Moves, Those
  <2> HIDE DEF A, B
  <2>2. Cardinality(B) = Cardinality(A) - Cardinality(T)
    BY <1>2, <2>1, FS_Difference
  <2>3. Was(new \in S) - Was(old \in S) = -1
    BY <1>5 DEF Was
  <2> QED
    BY <1>1, <1>2, <2>2, <2>3
<1> QED
  BY Zenon, <1>3, <1>4, <1>5
----------------------------------------------------------------------------
(* The batch *)

\* BatchIsExact of given counters and messages.
Exact(b, ms) ==
  /\ b \in Batch
  /\ b.delivered = Count(ms, {"delivered"})
  /\ b.failed = Count(ms, {"failed"})
  /\ b.unknown = Count(ms, {"unknown"})
  /\ b.active \in {Null, Count(ms, ActiveStatuses)}
  /\ b.status # "sending" <=> Count(ms, ActiveStatuses) = 0

\* What a batch may never undo.
KeepsEnd(b, c) ==
  /\ b.status # "sending" => c.status # "sending"
  /\ b.status = "completed_unknown" => c.status = "completed_unknown"

\* A recount is exact, if the messages of a batch that has ended are all at an end.
LEMMA RecountExact ==
  ASSUME NEW b \in Batch, NEW ms, NEW unknowns \in BOOLEAN,
         b.status # "sending" => Count(ms, ActiveStatuses) = 0
  PROVE  /\ Exact(Recount(b, ms, unknowns), ms)
         /\ KeepsEnd(b, Recount(b, ms, unknowns))
         /\ Recount(b, ms, unknowns).active # Null
<1> DEFINE c == Recount(b, ms, unknowns)
<1>1. /\ Count(ms, {"delivered"}) \in Nat /\ Count(ms, {"failed"}) \in Nat
      /\ Count(ms, {"unknown"}) \in Nat /\ Count(ms, ActiveStatuses) \in Nat
  BY Zenon, CountFacts
<1>2. b.status \in {"sending", "completed", "completed_unknown"}
  BY Zenon DEF Batch
<1>3. /\ c.delivered = Count(ms, {"delivered"}) /\ c.failed = Count(ms, {"failed"})
      /\ c.unknown = Count(ms, {"unknown"}) /\ c.active = Count(ms, ActiveStatuses)
  BY Zenon DEF Recount
<1>4. /\ c.status \in {"sending", "completed", "completed_unknown"}
      /\ c.status # "sending" <=> Count(ms, ActiveStatuses) = 0
      /\ KeepsEnd(b, c)
  BY Zenon, <1>1, <1>2 DEF Recount, EndedStatus, KeepsEnd
<1>5. c = [delivered |-> c.delivered, failed |-> c.failed, unknown |-> c.unknown,
           active |-> c.active, status |-> c.status]
  BY Zenon DEF Recount
<1> HIDE DEF c
<1>6. c \in Batch
  BY Zenon, <1>1, <1>3, <1>4, <1>5 DEF Batch
<1>7. c.active # Null
  BY Zenon, <1>1, <1>3, ReportProjectionAssumption
<1> QED
  BY Zenon, <1>3, <1>4, <1>6, <1>7 DEF Exact, c

\* So is the count by difference, after the messages of T went from old to new.
LEMMA DeltaExact ==
  ASSUME NEW b \in Batch, NEW ms, NEW ns, NEW T, NEW old, NEW new,
         Exact(b, ms), Moves(ms, ns, T, old, new),
         b.status # "sending" => Count(ns, ActiveStatuses) = 0
  PROVE  LET c == Delta(b, old, new, Cardinality(T), ns)
         IN  Exact(c, ns) /\ KeepsEnd(b, c)
<1> DEFINE n == Cardinality(T)
           D(S) == n * (Was(new \in S) - Was(old \in S))
           c == Delta(b, old, new, n, ns)
<1>1. CASE b.active = Null
  <2>1. c = Recount(b, ns, FALSE)
    BY Zenon, <1>1 DEF Delta
  <2> QED
    BY Zenon, <2>1, RecountExact
<1>2. CASE b.active # Null
  <2>1. /\ c.delivered = b.delivered + D({"delivered"})
        /\ c.failed = b.failed + D({"failed"})
        /\ c.unknown = b.unknown + D({"unknown"})
        /\ c.active = b.active + D(ActiveStatuses)
        /\ c.status = EndedStatus(b, c.active)
        /\ c = [delivered |-> c.delivered, failed |-> c.failed, unknown |-> c.unknown,
                active |-> c.active, status |-> c.status]
    BY Zenon, <1>2 DEF Delta
  <2>2. \A S : Count(ns, S) = Count(ms, S) + D(S)
    BY CountMoves
  <2>3. /\ b.delivered = Count(ms, {"delivered"}) /\ b.failed = Count(ms, {"failed"})
        /\ b.unknown = Count(ms, {"unknown"}) /\ b.active = Count(ms, ActiveStatuses)
    BY Zenon, <1>2 DEF Exact
  <2> HIDE DEF c, D
  <2>4. /\ c.delivered = Count(ns, {"delivered"}) /\ c.failed = Count(ns, {"failed"})
        /\ c.unknown = Count(ns, {"unknown"}) /\ c.active = Count(ns, ActiveStatuses)
    BY Zenon, <2>1, <2>2, <2>3
  <2>5. /\ c.delivered \in Nat /\ c.failed \in Nat /\ c.unknown \in Nat /\ c.active \in Nat
    BY <2>4, CountFacts
  <2>6. b.status \in {"sending", "completed", "completed_unknown"}
    BY Zenon DEF Batch
  <2>7. /\ c.status \in {"sending", "completed", "completed_unknown"}
        /\ c.status # "sending" <=> c.active = 0
        /\ KeepsEnd(b, c)
    BY Zenon, <2>1, <2>4, <2>6 DEF EndedStatus, KeepsEnd
  <2>8. c \in Batch
    BY Zenon, <2>1, <2>5, <2>7 DEF Batch
  <2> QED
    BY Zenon, <2>4, <2>7, <2>8 DEF Exact, c, n
<1> QED
  BY Zenon, <1>1, <1>2

\* Nothing was moved between active and ended, nor among the counted ends.
LEMMA ExactSame ==
  ASSUME NEW b, NEW ms, NEW ns, Exact(b, ms),
         \A m \in Messages : \/ ns[m].status = ms[m].status
                             \/ {ms[m].status, ns[m].status} \subseteq ActiveStatuses
  PROVE  Exact(b, ns)
<1>1. \A S \in {{"delivered"}, {"failed"}, {"unknown"}, ActiveStatuses} :
        Count(ms, S) = Count(ns, S)
  BY CountSame DEF ActiveStatuses
<1> QED
  BY Zenon, <1>1 DEF Exact

----------------------------------------------------------------------------
(* Writers of messages *)

\* What a writer other than apply_report may do: end or confirm a message without a
\* report, or give a drifted one the status of its report.
Writes ==
  \A m \in Messages :
    \/ msg'[m] = msg[m]
    \/ /\ msg[m].report = Null /\ msg'[m].report = Null
       /\ msg[m].status \in ActiveStatuses
       /\ msg'[m].status \in {"sent", "failed", "unknown", "other"}
    \/ /\ Drift(m)
       /\ msg'[m].report = msg[m].report
       /\ msg'[m].status = StatusOf(msg[m].report)

\* The messages' part of EndsStay.
MessagesStay ==
  \A m \in Messages :
    /\ msg[m].status \notin ActiveStatuses => msg'[m].status \notin ActiveStatuses
    /\ msg[m].status = "delivered" => msg'[m].status = "delivered"

\* What a report that is shown says of the message.
LEMMA ReportFacts ==
  ASSUME ReportInv, NEW m \in Messages, msg[m].report # Null
  PROVE  /\ msg[m].report \in Events /\ msg[m].report \in projected
         /\ StatusOf(msg[m].report) \in Final
         /\ StatusOf(msg[m].report) \notin ActiveStatuses
         /\ msg[m].status \in ActiveStatuses => msg[m].status = "sent" /\ m \in Drifted
         /\ Drift(m) => msg[m].status = "sent"
<1>1. msg[m].report \in projected /\ projected \subseteq Events
  BY Zenon DEF ReportInv, Shows, ReportTypeOK
<1>2. StatusOf(msg[m].report) \in Final
  BY Zenon, <1>1, EventFacts
<1>3. msg[m].status = StatusOf(msg[m].report) \/ (m \in Drifted /\ msg[m].status = "sent")
  BY Zenon DEF ReportInv, BestReportDecides
<1> QED
  BY Zenon, <1>1, <1>2, <1>3 DEF Drift, Final, ActiveStatuses

\* Writes that obey the order keep what a message shows.
LEMMA WritesKeep ==
  ASSUME ReportInv, msg' \in [Messages -> Message], projected' = projected, Writes
  PROVE  Shows' /\ BestReportDecides' /\ MessagesStay
<1>1. \A m \in Messages : msg'[m].report = msg[m].report
  BY Zenon DEF Writes
<1>2. \A m \in Messages : msg[m].report = Null => msg[m].status # "delivered"
  BY Zenon DEF ReportInv, Shows
<1>3. Shows'
  <2>1. \A m \in Messages : msg[m].report = Null => msg'[m].status # "delivered"
    BY Zenon, <1>2, ReportFacts DEF Writes, Drift
  <2> QED
    BY Zenon, <1>1, <2>1 DEF ReportInv, Shows
<1>4. BestReportDecides'
  <2>1. \A e \in projected : e.msg \in Messages
    BY Zenon, EventFacts DEF ReportInv, ReportTypeOK
  <2>2. \A m \in Messages :
          msg[m].report # Null => \/ msg'[m].status = StatusOf(msg[m].report)
                                  \/ m \in Drifted /\ msg'[m].status = "sent"
    BY Zenon DEF Writes, ReportInv, BestReportDecides
  <2> QED
    BY Zenon, <1>1, <2>1, <2>2 DEF ReportInv, BestReportDecides
<1>5. MessagesStay
  <2> SUFFICES ASSUME NEW m \in Messages
               PROVE  /\ msg[m].status \notin ActiveStatuses =>
                           msg'[m].status \notin ActiveStatuses
                      /\ msg[m].status = "delivered" => msg'[m].status = "delivered"
    BY Zenon DEF MessagesStay
  <2>1. CASE msg'[m] = msg[m]
    BY Zenon, <2>1
  <2>2. CASE msg[m].report = Null /\ msg[m].status \in ActiveStatuses
    BY Zenon, <2>2 DEF ActiveStatuses
  <2>3. CASE Drift(m)
    BY Zenon, <2>3, ReportFacts DEF Drift, ActiveStatuses
  <2> QED
    BY Zenon, <2>1, <2>2, <2>3 DEF Writes
<1> QED
  BY Zenon, <1>3, <1>4, <1>5
----------------------------------------------------------------------------
(* The steps *)

\* What every step has to do: keep the invariant and what EndsStay says.
Good == ReportInv' /\ MessagesStay /\ KeepsEnd(batch, batch')

\* When all messages have ended, they stay so.
LEMMA EndedStays ==
  ASSUME ReportInv, MessagesStay, batch.status # "sending"
  PROVE  Count(msg', ActiveStatuses) = 0
<1>1. Count(msg, ActiveStatuses) = 0
  BY Zenon DEF ReportInv, BatchIsExact
<1>2. \A m \in Messages : msg[m].status \notin ActiveStatuses
  BY Zenon, <1>1, CountFacts
<1>3. \A m \in Messages : msg'[m].status \notin ActiveStatuses
  BY Zenon, <1>2 DEF MessagesStay
<1> QED
  BY Zenon, <1>3, CountFacts

\* BatchIsExact as a fact about a batch and its messages.
LEMMA ExactIs == ASSUME ReportTypeOK PROVE BatchIsExact <=> Exact(batch, msg)
  BY Zenon DEF ReportTypeOK, BatchIsExact, Exact

\* The types of what no proof depends on.
Rest == /\ timeout \in [gen: Nat, next: {"null", "later", "due"}]
        /\ sweep \in [Sweepers -> Nat \cup {Null}]
        /\ faults \in 0..MaxFaults

Chunked == chunk \in [Chunks -> ChunkStatuses] /\ DriftedSubmitted

\* A writer that recounts, counts by difference or need not count.
LEMMA WriterStep ==
  ASSUME ReportInv, msg' \in [Messages -> Message], projected' = projected, Writes,
         Rest', Chunked', Exact(batch', msg'), KeepsEnd(batch, batch')
  PROVE  Good
<1>1. Shows' /\ BestReportDecides' /\ MessagesStay
  BY Zenon, WritesKeep
<1>2. ReportTypeOK'
  BY Zenon DEF ReportTypeOK, ReportInv, Rest, Chunked, Exact
<1>3. BatchIsExact'
  BY Zenon DEF BatchIsExact, Exact
<1> QED
  BY Zenon, <1>1, <1>2, <1>3 DEF Good, ReportInv, Chunked

\* A step that recounts the batch leaves it exact.
LEMMA RecountStep ==
  ASSUME ReportInv, msg' \in [Messages -> Message], projected' = projected, Writes,
         Rest', Chunked', NEW unknowns \in BOOLEAN, batch' = Recount(batch, msg', unknowns)
  PROVE  Good
<1>1. MessagesStay
  BY Zenon, WritesKeep
<1>2. batch.status # "sending" => Count(msg', ActiveStatuses) = 0
  BY Zenon, <1>1, EndedStays
<1>3. batch \in Batch
  BY Zenon DEF ReportInv, ReportTypeOK
<1>4. Exact(batch', msg') /\ KeepsEnd(batch, batch')
  BY Zenon, <1>2, <1>3, RecountExact
<1> QED
  BY Zenon, <1>4, WriterStep

\* Steps that leave the messages, the reports and the counters alone.
LEMMA QuietStep ==
  ASSUME ReportInv, UNCHANGED <<msg, projected, batch>>, Rest', Chunked'
  PROVE  Good
<1>1. Exact(batch', msg') /\ KeepsEnd(batch, batch')
  BY Zenon, ExactIs DEF ReportInv, KeepsEnd
<1>2. Writes
  BY Zenon DEF Writes
<1>3. msg' \in [Messages -> Message]
  BY Zenon DEF ReportInv, ReportTypeOK
<1> QED
  BY Zenon, <1>1, <1>2, <1>3, WriterStep

\* Messages without a report are moved by one UPDATE.
LEMMA MoveWrites ==
  ASSUME ReportInv, NEW S, NEW from \in SUBSET ActiveStatuses,
         NEW to \in {"sent", "failed", "unknown", "other"},
         \A m \in Messages : m \in S /\ msg[m].status \in from => msg[m].report = Null,
         msg' = Move(S, from, to)
  PROVE  msg' \in [Messages -> Message] /\ Writes
<1>1. \A m \in Messages : msg[m] \in Message
  BY Zenon DEF ReportInv, ReportTypeOK
<1>2. ASSUME NEW m \in Messages, m \in S, msg[m].status \in from
      PROVE  /\ msg'[m] = [msg[m] EXCEPT !.status = to]
             /\ msg'[m] \in Message /\ msg'[m].report = msg[m].report /\ msg'[m].status = to
  <2>1. msg'[m] = [msg[m] EXCEPT !.status = to]
    BY Zenon, <1>2 DEF Move
  <2> QED
    BY Zenon, <1>1, <2>1 DEF Message, MessageStatuses, ActiveStatuses
<1>3. ASSUME NEW m \in Messages, ~(m \in S /\ msg[m].status \in from)
      PROVE  msg'[m] = msg[m]
  BY Zenon, <1>3 DEF Move
<1>4. msg' = [m \in Messages |-> msg'[m]]
  BY Zenon DEF Move
<1>5. \A m \in Messages : msg'[m] \in Message
  BY Zenon, <1>1, <1>2, <1>3
<1>6. Writes
  BY Zenon, <1>2, <1>3 DEF Writes
<1> QED
  BY Zenon, <1>4, <1>5, <1>6

\* One chunk that is not yet submitted changes its status.
LEMMA ChunkStep ==
  ASSUME ReportInv, NEW c \in Chunks, NEW s \in ChunkStatuses, chunk[c] # "submitted",
         chunk' = [chunk EXCEPT ![c] = s], UNCHANGED <<timeout, sweep, faults>>
  PROVE  Chunked' /\ Rest'
<1>1. chunk' \in [Chunks -> ChunkStatuses] /\ Rest'
  BY Zenon DEF ReportInv, ReportTypeOK, Rest
<1>2. \A m \in Drifted : ChunkOf[m] \in Chunks /\ ChunkOf[m] # c
  BY Zenon, ReportProjectionAssumption, EventFacts DEF ReportInv, DriftedSubmitted
<1> QED
  BY Zenon, <1>1, <1>2 DEF Chunked, DriftedSubmitted, ReportInv, ReportTypeOK

\* A message that is pending has no report, nor has one that is active in a chunk
\* that was not submitted.
LEMMA Reportless ==
  ASSUME ReportInv, NEW m \in Messages, msg[m].status \in ActiveStatuses,
         msg[m].status = "pending" \/ chunk[ChunkOf[m]] # "submitted"
  PROVE  msg[m].report = Null
<1>1. m \in Drifted => chunk[ChunkOf[m]] = "submitted"
  BY Zenon DEF ReportInv, DriftedSubmitted
<1> QED
  BY Zenon, <1>1, ReportFacts

\* The outcome of a submission.
LEMMA SendingStep == ASSUME ReportInv, NEW c \in Chunks, Sending(c) PROVE Good
<1>1. CASE Submit(c) \/ LoseAnswer(c)
  <2>1. Chunked' /\ Rest'
    BY Zenon, <1>1, ChunkStep DEF Submit, LoseAnswer, ChunkStatuses
  <2> QED
    BY Zenon, <1>1, <2>1, QuietStep DEF Submit, LoseAnswer
<1>2. ASSUME NEW S \in SUBSET In(c), Exclude(c, S) PROVE Good
  <2>1. \E s \in ChunkStatuses : chunk' = [chunk EXCEPT ![c] = s]
    <3>1. chunk[c] \in ChunkStatuses
      BY Zenon DEF ReportInv, ReportTypeOK
    <3>2. CASE chunk[c] = "ready" /\ \A m \in In(c) : msg'[m].status # "pending"
      <4>1. chunk' = [chunk EXCEPT ![c] = "failed"]
        BY Zenon, <1>2, <3>2 DEF Exclude, ReportInv, ReportTypeOK
      <4> QED
        BY Zenon, <4>1 DEF ChunkStatuses
    <3>3. CASE ~(chunk[c] = "ready" /\ \A m \in In(c) : msg'[m].status # "pending")
      <4>1. chunk' = [chunk EXCEPT ![c] = chunk[c]]
        BY Zenon, <1>2, <3>3 DEF Exclude, ReportInv, ReportTypeOK
      <4> QED
        BY Zenon, <3>1, <4>1
    <3> QED
      BY Zenon, <3>2, <3>3
  <2>2. Chunked' /\ Rest'
    BY Zenon, <1>2, <2>1, ChunkStep DEF Exclude
  <2>3. msg' \in [Messages -> Message] /\ Writes
    <3>1. msg' = Move(S, {"pending"}, "other")
      BY Zenon, <1>2 DEF Exclude
    <3> QED
      BY <3>1, MoveWrites, Reportless DEF ActiveStatuses
  <2> QED
    BY Zenon, <1>2, <2>2, <2>3, RecountStep DEF Exclude
<1>3. CASE Confirm(c) \/ Resolve(c)
  <2>1. Chunked' /\ Rest'
    BY Zenon, <1>3, ChunkStep DEF Confirm, Resolve, ChunkStatuses
  <2>2. PICK S : msg' = Move(S, {"pending"}, "sent")
    BY Zenon, <1>3 DEF Confirm, Resolve
  <2>3. msg' \in [Messages -> Message] /\ Writes
    BY <2>2, MoveWrites, Reportless DEF ActiveStatuses
  <2>4. \A m \in Messages : \/ msg'[m].status = msg[m].status
                            \/ {msg[m].status, msg'[m].status} \subseteq ActiveStatuses
    BY Zenon, <2>2 DEF Move, ActiveStatuses, ReportInv, ReportTypeOK, Message
  <2>5. Exact(batch, msg) /\ UNCHANGED <<batch, projected>>
    BY Zenon, <1>3, ExactIs DEF ReportInv, Confirm, Resolve
  <2>6. Exact(batch', msg') /\ KeepsEnd(batch, batch')
    BY <2>4, <2>5, ExactSame DEF KeepsEnd
  <2> QED
    BY Zenon, <2>1, <2>3, <2>5, <2>6, WriterStep
<1>4. CASE Fail(c)
  <2> DEFINE hit == {m \in In(c) : msg[m].report = Null /\ msg[m].status \in ActiveStatuses}
  <2>1. Chunked' /\ Rest' /\ projected' = projected
    BY Zenon, <1>4, ChunkStep DEF Fail, ChunkStatuses
  <2>2. msg' = Move(hit, ActiveStatuses, "failed")
    BY Zenon, <1>4 DEF Fail
  <2>3. msg' \in [Messages -> Message] /\ Writes
    BY <2>2, MoveWrites
  <2>4. CASE hit # {}
    BY Zenon, <1>4, <2>1, <2>3, <2>4, RecountStep DEF Fail
  <2>5. CASE hit = {}
    <3>1. \A m \in Messages : msg'[m] = msg[m]
      BY Zenon, <2>2, <2>5 DEF Move
    <3>2. msg' = msg
      BY <2>3, <3>1 DEF ReportInv, ReportTypeOK
    <3> QED
      BY Zenon, <1>4, <2>1, <2>5, <3>2, QuietStep DEF Fail
  <2> QED
    BY Zenon, <2>4, <2>5
<1>5. CASE Terminalize(c)
  <2>1. Chunked' /\ Rest'
    BY Zenon, <1>5, ChunkStep DEF Terminalize, ChunkStatuses
  <2>2. msg' = Move(In(c), ActiveStatuses, "unknown") /\ chunk[c] # "submitted"
    BY Zenon, <1>5 DEF Terminalize
  <2>3. \A m \in Messages :
          m \in In(c) /\ msg[m].status \in ActiveStatuses => msg[m].report = Null
    BY Zenon, <2>2, Reportless DEF In
  <2>4. msg' \in [Messages -> Message] /\ Writes
    BY Zenon, <2>2, <2>3, MoveWrites
  <2> QED
    BY Zenon, <1>5, <2>1, <2>4, RecountStep DEF Terminalize
<1> QED
  BY Zenon, <1>1, <1>2, <1>3, <1>4, <1>5 DEF Sending
\* What a repair does.
LEMMA RepairFacts ==
  ASSUME ReportInv, NEW S
  PROVE  /\ Repaired(msg, S) \in [Messages -> Message]
         /\ \A m \in Messages :
              IF m \in S /\ Drift(m)
              THEN /\ Repaired(msg, S)[m].report = msg[m].report
                   /\ Repaired(msg, S)[m].status = StatusOf(msg[m].report)
              ELSE Repaired(msg, S)[m] = msg[m]
<1> DEFINE ms == Repaired(msg, S)
<1>1. \A m \in Messages : msg[m] \in Message
  BY Zenon DEF ReportInv, ReportTypeOK
<1>2. ASSUME NEW m \in Messages, m \in S, Drift(m)
      PROVE  /\ ms[m] \in Message /\ ms[m].report = msg[m].report
             /\ ms[m].status = StatusOf(msg[m].report)
  <2>1. ms[m] = [msg[m] EXCEPT !.status = StatusOf(msg[m].report)]
    BY Zenon, <1>2 DEF Repaired
  <2>2. StatusOf(msg[m].report) \in MessageStatuses
    BY Zenon, <1>2, ReportFacts DEF Drift, Final, MessageStatuses
  <2> HIDE DEF ms
  <2> QED
    BY Zenon, <1>1, <2>1, <2>2 DEF Message
<1>3. ASSUME NEW m \in Messages, ~(m \in S /\ Drift(m))
      PROVE  ms[m] = msg[m]
  BY Zenon, <1>3 DEF Repaired
<1>4. ms = [m \in Messages |-> ms[m]]
  BY Zenon DEF Repaired
<1> HIDE DEF ms
<1>5. \A m \in Messages : ms[m] \in Message
  BY Zenon, <1>1, <1>2, <1>3
<1>6. ms \in [Messages -> Message]
  BY Zenon, <1>4, <1>5
<1> QED
  BY Zenon, <1>2, <1>3, <1>6 DEF ms

\* A report that is new and better than the one shown takes its place.
LEMMA ShowStep ==
  ASSUME ReportInv, NEW e \in Events, e \notin projected, Supersedes(e, msg[e.msg].report),
         projected' = projected \cup {e},
         msg' = [msg EXCEPT ![e.msg] = [status |-> StatusOf(e), report |-> e]]
  PROVE  /\ msg' \in [Messages -> Message] /\ Shows' /\ BestReportDecides' /\ MessagesStay
         /\ Moves(msg, msg', {e.msg}, msg[e.msg].status, StatusOf(e))
<1> DEFINE m == e.msg
           old == msg[m].report
<1>1. /\ m \in Messages /\ e # Null /\ StatusOf(e) \in Final
      /\ StatusOf(e) = "delivered" <=> e.status = 1
      /\ msg \in [Messages -> Message] /\ projected \subseteq Events
  BY Zenon, EventFacts DEF ReportInv, ReportTypeOK
<1>2. /\ msg'[m].status = StatusOf(e) /\ msg'[m].report = e
      /\ \A k \in Messages : k # m => msg'[k] = msg[k]
  BY Zenon, <1>1
<1>3. msg' \in [Messages -> Message]
  <2>1. [status |-> StatusOf(e), report |-> e] \in Message
    BY Zenon, <1>1 DEF Message, MessageStatuses, Final
  <2> QED
    BY Zenon, <1>1, <2>1
<1>4. Moves(msg, msg', {m}, msg[m].status, StatusOf(e))
  BY Zenon, <1>1, <1>2 DEF Moves
<1>5. Shows'
  BY Zenon, <1>1, <1>2 DEF ReportInv, Shows
<1>6. old # Null => old \in Events /\ Lower(old, e)
  BY Zenon, <1>1, ReportFacts, SupersedesIsLower
<1>7. ASSUME NEW g \in projected, g.msg = m
      PROVE  Lower(g, e)
  <2>1. old \in projected /\ (g = old \/ Before(SortKey(g), SortKey(old)))
    BY Zenon, <1>7 DEF ReportInv, BestReportDecides
  <2>2. old \in Events /\ old # Null /\ g \in Events
    BY Zenon, <1>1, <2>1, EventFacts
  <2>3. g = old \/ Lower(g, old)
    BY Zenon, <2>1, <2>2, BeforeIsLower
  <2> QED
    BY Zenon, <1>6, <2>2, <2>3, LowerIsTransitive
<1>8. BestReportDecides'
  <2>1. ASSUME NEW g \in projected'
        PROVE  LET shown == msg'[g.msg].report
               IN  /\ shown \in projected'
                   /\ shown.msg = g.msg
                   /\ g = shown \/ Before(SortKey(g), SortKey(shown))
    <3>1. g.msg \in Messages /\ g \in Events
      BY Zenon, <1>1, EventFacts
    <3>2. CASE g.msg = m
      <4>1. msg'[g.msg].report = e /\ e \in projected'
        BY Zenon, <1>2, <3>2
      <4>2. g = e \/ Before(SortKey(g), SortKey(e))
        BY Zenon, <1>7, <3>1, <3>2, BeforeIsLower
      <4> QED
        BY Zenon, <3>2, <4>1, <4>2
    <3>3. CASE g.msg # m
      <4>1. g \in projected /\ msg'[g.msg] = msg[g.msg]
        BY Zenon, <1>2, <3>1, <3>3
      <4> QED
        BY <4>1 DEF ReportInv, BestReportDecides
    <3> QED
      BY Zenon, <3>2, <3>3
  <2>2. ASSUME NEW k \in Messages, msg'[k].report # Null
        PROVE  \/ msg'[k].status = StatusOf(msg'[k].report)
               \/ k \in Drifted /\ msg'[k].status = "sent"
    <3>1. CASE k = m
      BY Zenon, <1>2, <3>1
    <3>2. CASE k # m
      BY Zenon, <1>2, <2>2, <3>2 DEF ReportInv, BestReportDecides
    <3> QED
      BY Zenon, <3>1, <3>2
  <2> QED
    BY Zenon, <2>1, <2>2 DEF BestReportDecides
<1>9. MessagesStay
  <2>1. msg'[m].status \notin ActiveStatuses
    BY Zenon, <1>1, <1>2 DEF Final, ActiveStatuses
  <2>2. ASSUME msg[m].status = "delivered" PROVE StatusOf(e) = "delivered"
    <3>1. old # Null
      BY Zenon, <1>1, <2>2 DEF ReportInv, Shows
    <3>2. StatusOf(old) = "delivered"
      BY Zenon, <1>1, <2>2, <3>1 DEF ReportInv, BestReportDecides
    <3>3. old \in Events /\ Lower(old, e)
      BY Zenon, <1>6, <3>1
    <3>4. Class(old.status) = 4
      BY Zenon, <3>2, <3>3, EventFacts
    <3>5. Class(e.status) = 4
      BY <3>3, <3>4, EventFacts DEF Lower
    <3> QED
      BY Zenon, <1>1, <3>5, EventFacts
  <2> QED
    BY Zenon, <1>2, <2>1, <2>2 DEF MessagesStay
<1> QED
  BY Zenon, <1>3, <1>4, <1>5, <1>8, <1>9
\* A report is applied, with the counters moved by the difference.
LEMMA ApplyStep == ASSUME ReportInv, NEW e \in Events, Apply(e) PROVE Good
<1> DEFINE m == e.msg
<1>1. m \in Messages /\ Rest' /\ Chunked' /\ batch \in Batch /\ projected' = projected \cup {e}
  BY Zenon, EventFacts DEF Apply, ReportInv, ReportTypeOK, Rest, Chunked, DriftedSubmitted
<1>2. CASE e \in projected
  <2>1. msg' = Repaired(msg, {m}) /\ projected' = projected
    BY Zenon, <1>1, <1>2 DEF Apply
  <2>2. msg' \in [Messages -> Message] /\ Writes
    BY Zenon, <2>1, RepairFacts DEF Writes
  <2>3. CASE Drift(m)
    <3>1. batch' = Recount(batch, msg', FALSE)
      BY Zenon, <1>2, <2>3 DEF Apply
    <3> QED
      BY Zenon, <1>1, <2>1, <2>2, <3>1, RecountStep
  <2>4. CASE ~Drift(m)
    <3>1. \A k \in Messages : msg'[k] = msg[k]
      BY Zenon, <2>1, <2>4, RepairFacts
    <3>2. msg' = msg
      BY <2>2, <3>1 DEF ReportInv, ReportTypeOK
    <3>3. batch' = batch
      BY Zenon, <1>2, <2>4 DEF Apply
    <3> QED
      BY Zenon, <1>1, <2>1, <3>2, <3>3, QuietStep
  <2> QED
    BY Zenon, <2>3, <2>4
<1>3. CASE e \notin projected /\ ~Supersedes(e, msg[m].report)
  <2> DEFINE f == msg[m].report
  <2>1. UNCHANGED <<msg, batch>>
    BY Zenon, <1>3 DEF Apply
  <2>2. f # Null
    BY Zenon, <1>3 DEF Supersedes
  <2>3. f \in Events /\ f \in projected /\ f.msg = m
    BY Zenon, <1>1, <2>2, ReportFacts DEF ReportInv, Shows
  <2>4. Before(SortKey(e), SortKey(f))
    BY Zenon, <1>3, <2>3, SupersedesIsLower, BeforeIsLower
  <2>5. BestReportDecides'
    BY Zenon, <1>1, <2>1, <2>3, <2>4 DEF ReportInv, BestReportDecides
  <2>6. Shows'
    BY Zenon, <1>1, <2>1 DEF ReportInv, Shows
  <2>7. ReportTypeOK' /\ DriftedSubmitted' /\ BatchIsExact'
    BY Zenon, <1>1, <2>1 DEF ReportInv, ReportTypeOK, Rest, Chunked, BatchIsExact
  <2>8. MessagesStay /\ KeepsEnd(batch, batch')
    BY Zenon, <2>1 DEF MessagesStay, KeepsEnd
  <2> QED
    BY Zenon, <2>5, <2>6, <2>7, <2>8 DEF Good, ReportInv
<1>4. CASE e \notin projected /\ Supersedes(e, msg[m].report)
  <2>1. msg' = [msg EXCEPT ![m] = [status |-> StatusOf(e), report |-> e]]
    BY Zenon, <1>4 DEF Apply
  <2>2. /\ msg' \in [Messages -> Message] /\ Shows' /\ BestReportDecides' /\ MessagesStay
        /\ Moves(msg, msg', {m}, msg[m].status, StatusOf(e))
    BY Zenon, <1>1, <1>4, <2>1, ShowStep
  <2>3. batch.status # "sending" => Count(msg', ActiveStatuses) = 0
    BY Zenon, <2>2, EndedStays
  <2>4. Exact(batch', msg') /\ KeepsEnd(batch, batch')
    <3>1. CASE Drift(m)
      <4>1. batch' = Recount(batch, msg', FALSE)
        BY Zenon, <1>4, <3>1 DEF Apply
      <4> QED
        BY Zenon, <1>1, <2>3, <4>1, RecountExact
    <3>2. CASE ~Drift(m)
      <4>1. batch' = Delta(batch, msg[m].status, StatusOf(e), 1, msg')
        BY Zenon, <1>4, <3>2 DEF Apply
      <4>2. Cardinality({m}) = 1
        BY Zenon, FS_Singleton
      <4>3. Exact(batch, msg)
        BY Zenon, ExactIs DEF ReportInv
      <4> QED
        BY Zenon, <1>1, <2>2, <2>3, <4>1, <4>2, <4>3, DeltaExact
    <3> QED
      BY Zenon, <3>1, <3>2
  <2>5. ReportTypeOK' /\ DriftedSubmitted' /\ BatchIsExact'
    BY Zenon, <1>1, <2>2, <2>4
      DEF ReportInv, ReportTypeOK, Rest, Chunked, BatchIsExact, Exact
  <2> QED
    BY Zenon, <2>2, <2>4, <2>5 DEF Good, ReportInv
<1> QED
  BY Zenon, <1>2, <1>3, <1>4

\* The sweep: first the repair and its recount, then the messages without a report.
LEMMA ExpireStep == ASSUME ReportInv, NEW s \in Sweepers, Expire(s) PROVE Good
<1>1. PICK S \in SUBSET Due :
        LET silent == {m \in S : msg[m].report = Null}
            repaired == Repaired(msg, S)
            recounted == IF silent # S THEN Recount(batch, repaired, FALSE) ELSE batch
        IN  /\ msg' = [m \in Messages |-> IF m \in silent
                                          THEN [msg[m] EXCEPT !.status = "unknown"]
                                          ELSE repaired[m]]
            /\ batch' = IF silent # {}
                        THEN Delta(recounted, "sent", "unknown", Cardinality(silent), msg')
                        ELSE recounted
  BY Zenon DEF Expire
<1> DEFINE silent == {m \in S : msg[m].report = Null}
           repaired == Repaired(msg, S)
           recounted == IF silent # S THEN Recount(batch, repaired, FALSE) ELSE batch
<1>2. /\ Rest' /\ Chunked' /\ projected' = projected
      /\ batch \in Batch /\ msg \in [Messages -> Message]
  BY Zenon DEF Expire, ReportInv, ReportTypeOK, Rest, Chunked, DriftedSubmitted
<1>3. /\ repaired \in [Messages -> Message]
      /\ \A m \in Messages :
           IF m \in S /\ Drift(m)
           THEN repaired[m].report = msg[m].report /\ repaired[m].status = StatusOf(msg[m].report)
           ELSE repaired[m] = msg[m]
  BY Zenon, RepairFacts
<1>4. silent \in SUBSET Messages /\ \A m \in silent : msg[m].status = "sent"
  BY Zenon DEF Due
<1>5. \A m \in silent : repaired[m] = msg[m]
  BY Zenon, <1>3, <1>4 DEF Drift
<1>6. /\ \A m \in silent : msg'[m] = [msg[m] EXCEPT !.status = "unknown"]
      /\ \A m \in Messages \ silent : msg'[m] = repaired[m]
      /\ msg' = [m \in Messages |-> msg'[m]]
  BY Zenon, <1>1, <1>4
<1>7. batch' = IF silent # {}
               THEN Delta(recounted, "sent", "unknown", Cardinality(silent), msg')
               ELSE recounted
  BY Zenon, <1>1
<1>8. \A m \in Messages : msg[m].status \notin ActiveStatuses
                            => repaired[m].status \notin ActiveStatuses
  BY Zenon, <1>3, ReportFacts DEF Drift
<1>9. recounted \in Batch /\ Exact(recounted, repaired) /\ KeepsEnd(batch, recounted)
  <2>1. CASE silent # S
    <3>1. recounted = Recount(batch, repaired, FALSE)
      BY Zenon, <2>1
    <3>2. batch.status # "sending" => Count(msg, ActiveStatuses) = 0
      BY Zenon DEF ReportInv, BatchIsExact
    <3>3. batch.status # "sending" => Count(repaired, ActiveStatuses) = 0
      BY Zenon, <1>8, <3>2, CountFacts
    <3> HIDE DEF recounted, repaired
    <3>4. Exact(recounted, repaired) /\ KeepsEnd(batch, recounted)
      BY Zenon, <1>2, <3>1, <3>3, RecountExact
    <3> QED
      BY Zenon, <3>4 DEF Exact
  <2>2. CASE silent = S
    <3>1. recounted = batch
      BY Zenon, <2>2
    <3>2. \A m \in Messages : repaired[m] = msg[m]
      BY Zenon, <1>3, <2>2 DEF Drift
    <3>3. repaired = msg
      BY <1>2, <1>3, <3>2
    <3> QED
      BY Zenon, <1>2, <3>1, <3>3, ExactIs DEF ReportInv, KeepsEnd
  <2> QED
    BY Zenon, <2>1, <2>2
<1> HIDE DEF recounted, repaired, silent
<1>10. \A m \in silent : /\ msg'[m] \in Message /\ msg'[m].status = "unknown"
                         /\ msg'[m].report = msg[m].report
  <2> SUFFICES ASSUME NEW m \in silent
               PROVE  /\ msg'[m] \in Message /\ msg'[m].status = "unknown"
                      /\ msg'[m].report = msg[m].report
    OBVIOUS
  <2>1. msg[m] \in Message /\ msg'[m] = [msg[m] EXCEPT !.status = "unknown"]
    BY Zenon, <1>2, <1>4, <1>6
  <2> QED
    BY Zenon, <2>1 DEF Message, MessageStatuses
<1>11. msg' \in [Messages -> Message]
  <2>1. \A m \in Messages : msg'[m] \in Message
    BY Zenon, <1>3, <1>6, <1>10
  <2> QED
    BY Zenon, <1>6, <2>1
<1>12. Writes
  <2> SUFFICES ASSUME NEW m \in Messages
               PROVE  \/ msg'[m] = msg[m]
                      \/ /\ msg[m].report = Null /\ msg'[m].report = Null
                         /\ msg[m].status \in ActiveStatuses
                         /\ msg'[m].status \in {"sent", "failed", "unknown", "other"}
                      \/ /\ Drift(m)
                         /\ msg'[m].report = msg[m].report
                         /\ msg'[m].status = StatusOf(msg[m].report)
    BY Zenon DEF Writes
  <2>1. CASE m \in silent
    BY Zenon, <1>4, <1>10, <2>1 DEF silent, ActiveStatuses
  <2>2. CASE m \notin silent
    BY Zenon, <1>3, <1>6, <2>2
  <2> QED
    BY Zenon, <2>1, <2>2
<1>13. Moves(repaired, msg', silent, "sent", "unknown")
  BY Zenon, <1>4, <1>5, <1>6, <1>10 DEF Moves
<1>14. Exact(batch', msg') /\ KeepsEnd(batch, batch')
  <2>1. CASE silent # {}
    <3>1. \A m \in Messages : repaired[m].status \notin ActiveStatuses
                                => msg'[m].status \notin ActiveStatuses
      BY Zenon, <1>6, <1>10 DEF ActiveStatuses
    <3>2. recounted.status # "sending" => Count(repaired, ActiveStatuses) = 0
      BY Zenon, <1>9 DEF Exact
    <3>3. recounted.status # "sending" => Count(msg', ActiveStatuses) = 0
      BY Zenon, <3>1, <3>2, CountFacts
    <3>4. Exact(batch', msg') /\ KeepsEnd(recounted, batch')
      BY Zenon, <1>7, <1>9, <1>13, <2>1, <3>3, DeltaExact
    <3> QED
      BY Zenon, <1>9, <3>4 DEF KeepsEnd
  <2>2. CASE silent = {}
    <3>1. msg' = repaired
      BY Zenon, <1>3, <1>6, <2>2
    <3> QED
      BY Zenon, <1>7, <1>9, <2>2, <3>1
  <2> QED
    BY Zenon, <2>1, <2>2
<1> QED
  BY Zenon, <1>2, <1>11, <1>12, <1>14, WriterStep

\* An older version only takes the active count away.
LEMMA LegacyStep == ASSUME ReportInv, LegacyWrite PROVE Good
<1>1. /\ batch' = [batch EXCEPT !.active = Null] /\ batch \in Batch
      /\ UNCHANGED <<msg, projected, chunk, timeout, sweep, faults>>
  BY Zenon DEF LegacyWrite, ReportInv, ReportTypeOK
<1>2. /\ batch' \in Batch /\ batch'.active = Null /\ batch'.status = batch.status
      /\ batch'.delivered = batch.delivered /\ batch'.failed = batch.failed
      /\ batch'.unknown = batch.unknown
  BY Zenon, <1>1 DEF Batch
<1>3. Exact(batch, msg)
  BY Zenon, ExactIs DEF ReportInv
<1>4. Exact(batch', msg') /\ KeepsEnd(batch, batch')
  BY Zenon, <1>1, <1>2, <1>3 DEF Exact, KeepsEnd
<1>5. Writes /\ msg' \in [Messages -> Message] /\ Rest' /\ Chunked'
  BY Zenon, <1>1 DEF Writes, ReportInv, ReportTypeOK, Rest, Chunked, DriftedSubmitted
<1> QED
  BY Zenon, <1>1, <1>4, <1>5, WriterStep

\* The timeout sweeps.
LEMMA SweepStep == ASSUME ReportInv, NEW s \in Sweepers, Sweep(s) PROVE Good
<1>1. CASE Expire(s)
  BY Zenon, <1>1, ExpireStep
<1>2. CASE ClaimTimeout(s) \/ ExpireStale(s) \/ ExpireFailed(s) \/ ExpireAbandoned(s)
  <2>1. Rest'
    BY <1>2, ReportProjectionAssumption
    DEF ClaimTimeout, ExpireStale, ExpireFailed, ExpireAbandoned, ReportInv, ReportTypeOK,
      Rest
  <2>2. UNCHANGED <<msg, projected, batch, chunk>>
    BY Zenon, <1>2 DEF ClaimTimeout, ExpireStale, ExpireFailed, ExpireAbandoned
  <2>3. Chunked'
    BY Zenon, <2>2 DEF ReportInv, ReportTypeOK, Chunked, DriftedSubmitted
  <2> QED
    BY Zenon, <2>1, <2>2, <2>3, QuietStep
<1> QED
  BY Zenon, <1>1, <1>2 DEF Sweep

\* Every step keeps the invariant and what has ended.
LEMMA NextGood == ASSUME ReportInv, [ReportNext]_reportVars PROVE Good
<1>1. CASE Elapse
  <2>1. Rest' /\ Chunked' /\ UNCHANGED <<msg, projected, batch>>
    BY <1>1, ReportProjectionAssumption
    DEF Elapse, ReportInv, ReportTypeOK, Rest, Chunked, DriftedSubmitted
  <2> QED
    BY Zenon, <2>1, QuietStep
<1>2. CASE UNCHANGED reportVars
  <2>1. Rest' /\ Chunked' /\ UNCHANGED <<msg, projected, batch>>
    BY Zenon, <1>2 DEF reportVars, ReportInv, ReportTypeOK, Rest, Chunked, DriftedSubmitted
  <2> QED
    BY Zenon, <2>1, QuietStep
<1> QED
  BY Zenon, <1>1, <1>2, SendingStep, ApplyStep, LegacyStep, SweepStep DEF ReportNext

\* The states the older version may have left.
LEMMA InitInv == ReportInit => ReportInv
<1> SUFFICES ASSUME ReportInit PROVE ReportInv
  OBVIOUS
<1>1. PICK shown \in [Drifted -> Events] :
        /\ \A m \in Drifted : shown[m].msg = m
        /\ projected = {shown[m] : m \in Drifted}
        /\ msg = [m \in Messages |->
                    IF m \in Drifted THEN [status |-> "sent", report |-> shown[m]]
                                     ELSE [status |-> "pending", report |-> Null]]
  BY Zenon DEF ReportInit
<1>2. Drifted \subseteq Messages
  BY ReportProjectionAssumption
<1>3. /\ \A m \in Drifted : msg[m].status = "sent" /\ msg[m].report = shown[m]
      /\ \A m \in Messages \ Drifted : msg[m].status = "pending" /\ msg[m].report = Null
  BY Zenon, <1>1, <1>2
<1>4. msg \in [Messages -> Message]
  BY Zenon, <1>1 DEF Message, MessageStatuses, ActiveStatuses
<1>5. projected \subseteq Events
  BY Zenon, <1>1
<1>6. Shows
  BY Zenon, <1>1, <1>3 DEF Shows
<1>7. BestReportDecides
  <2>1. ASSUME NEW e \in projected
        PROVE  e.msg \in Drifted /\ msg[e.msg].report = e
    BY <1>1, <1>3
  <2> QED
    BY Zenon, <1>3, <2>1 DEF BestReportDecides
<1>8. chunk \in [Chunks -> ChunkStatuses] /\ DriftedSubmitted
  BY Zenon, <1>2, ReportProjectionAssumption DEF ReportInit, ChunkStatuses, DriftedSubmitted
<1>9. batch \in Batch
  BY Zenon DEF ReportInit, Batch
<1>10. Rest
  BY ReportProjectionAssumption DEF ReportInit, Rest
<1>11. BatchIsExact
  <2>1. \A m \in Messages : msg[m].status \in ActiveStatuses
    BY Zenon, <1>3 DEF ActiveStatuses
  <2>2. /\ Count(msg, {"delivered"}) = 0 /\ Count(msg, {"failed"}) = 0
        /\ Count(msg, {"unknown"}) = 0
    BY Zenon, <2>1, CountFacts DEF ActiveStatuses
  <2>3. Count(msg, ActiveStatuses) # 0
    BY Zenon, <2>1, CountFacts, ReportProjectionAssumption
  <2> QED
    BY Zenon, <2>2, <2>3 DEF ReportInit, BatchIsExact
<1> QED
  BY Zenon, <1>4, <1>5, <1>6, <1>7, <1>8, <1>9, <1>10, <1>11
    DEF ReportInv, ReportTypeOK, Rest

\* Types, the best report and the exact counters are invariants together.
LEMMA ReportInvariance == ReportSpec => []ReportInv
<1>1. ReportInv /\ [ReportNext]_reportVars => ReportInv'
  BY Zenon, NextGood DEF Good
<1> QED
  BY <1>1, InitInv, PTL DEF ReportSpec

----------------------------------------------------------------------------

\* A message shows the best of the reports applied to it and has its status, in
\* whatever order reports, confirmations, sweeps and timeouts write it
\* (apply_report, NO_REPORT_EVIDENCE).
THEOREM ReportDecides == ReportSpec => []BestReportDecides
<1>1. ReportInv => BestReportDecides
  BY Zenon DEF ReportInv
<1> QED
  BY <1>1, ReportInvariance, PTL

\* The counters kept by difference are those of a recount, and the batch is
\* complete exactly when no message is active (_refresh_batch).
THEOREM CountersExact == ReportSpec => []BatchIsExact
<1>1. ReportInv => BatchIsExact
  BY Zenon DEF ReportInv
<1> QED
  BY <1>1, ReportInvariance, PTL

\* No message that has ended becomes active, no delivery is undone, and no batch
\* reopens or leaves completed_unknown.
THEOREM EndsAreFinal == ReportSpec => EndsStay
<1> DEFINE Stay ==
      /\ \A m \in Messages :
           /\ msg[m].status \notin ActiveStatuses => msg'[m].status \notin ActiveStatuses
           /\ msg[m].status = "delivered" => msg'[m].status = "delivered"
      /\ batch.status # "sending" => batch'.status # "sending"
      /\ batch.status = "completed_unknown" => batch'.status = "completed_unknown"
<1>1. ReportInv /\ [ReportNext]_reportVars => [Stay]_reportVars
  BY Zenon, NextGood DEF Good, MessagesStay, KeepsEnd
<1> QED
  BY <1>1, ReportInvariance, PTL DEF ReportSpec, EndsStay

=============================================================================
