----------------------------- MODULE RawIngest -----------------------------
(***************************************************************************)
(* The way of one vendor response from the vendor's queue to the facts.       *)
(* Reading the queue consumes it, so a poller captures the response in an     *)
(* encrypted stream file while it arrives, writes a second copy (the spill),  *)
(* commits it as a row of raw_vendor_log, removes the files, and only then    *)
(* parses it.  Files found by a later poll are committed by recover_spills.   *)
(* A row whose processing stopped is claimed again, by the reconcile task or  *)
(* by an operator; every write of a processor is fenced by its lease.         *)
(*                                                                         *)
(* There is one response, hence one stream and one spill; polls that find an  *)
(* empty queue leave nothing behind.  A lease is named by its epoch, which    *)
(* every claim of a row increases.                                          *)
(***************************************************************************)
EXTENDS Naturals, Sequences

CONSTANTS
  Pollers,     \* poll_report tasks
  System,      \* reconcile tasks that replay
  Humans,      \* operators
  None,
  Items,       \* items of the response, in order
  MaxAttempts, \* MAX_RAW_REPLAY_ATTEMPTS
  MaxRows,     \* rows one response can leave behind
  MaxEvents    \* bound on crashes, failing writes, leases lost while running, and
               \* on what the operators start

ASSUME RawIngestAssumption ==
  /\ Items \subseteq Nat /\ \E last \in Items : \A n \in Items : n <= last
  /\ MaxAttempts \in Nat /\ MaxRows \in Nat /\ MaxEvents \in Nat
  /\ None \notin Pollers
  /\ Pollers \cap System = {} /\ Pollers \cap Humans = {} /\ System \cap Humans = {}

VARIABLES
  queued,    \* the response is still in the vendor's queue
  envelope,  \* what decoding the response gives
  stream, spill,   \* the files
  rows,      \* raw_vendor_log
  facts,     \* items applied to messages or kept as unmatched
  lock,      \* holder of lock:poll:report
  w,         \* pollers, replays and operators
  received,  \* how the response was captured once it was read to its end
  overlap,   \* a recovery has read the stream of a poller that was still receiving
  events

vars == <<queued, envelope, stream, spill, rows, facts, lock, w, received, overlap,
          events>>
files == <<stream, spill>>
world == <<queued, envelope, received, overlap>>

Workers == Pollers \cup System \cup Humans
Captures == {"complete", "complete_too_large", "truncated", "protocol_invalid",
             "unknown_legacy"}
Replayable == {"complete", "complete_too_large"}
\* A list of items, one whose last item the parser refuses, an error of the
\* vendor, and what is no envelope at all.
Envelopes == {"list", "spoiled", "refused", "garbled"}
NoFile == [state |-> "none", cap |-> None]
Idle == [pc |-> "idle", row |-> 0, epoch |-> 0, todo |-> {}, skipped |-> FALSE,
         cap |-> None, tried |-> {}, file |-> None, seen |-> None]

\* Every variable keeps its type; a response leaves a bounded number of rows.
TypeOK ==
  /\ queued \in BOOLEAN /\ overlap \in BOOLEAN
  /\ envelope \in Envelopes
  /\ stream \in [state : {"none", "partial", "done", "broken"}, cap : Captures \cup {None}]
  /\ spill \in Captures \cup {None} /\ received \in Captures \cup {None}
  /\ Len(rows) <= MaxRows
  /\ \A r \in DOMAIN rows :
       rows[r] \in [cap : Captures, elig : {"automatic", "manual", "never"},
                    done : BOOLEAN, held : BOOLEAN, live : BOOLEAN,
                    epoch : 0..(MaxAttempts + MaxEvents + 1),
                    attempts : 0..(MaxAttempts + MaxEvents),
                    audit : {"none", "pending", "completed"},
                    asked : SUBSET (1..(MaxAttempts + MaxEvents + 1)),
                    told : BOOLEAN]
  /\ facts \subseteq Items
  /\ lock \in Pollers \cup {None}
  /\ \A i \in Workers :
       /\ w[i].row \in 0..MaxRows /\ w[i].todo \subseteq Items /\ w[i].skipped \in BOOLEAN
       /\ w[i].cap \in Captures \cup {None} /\ w[i].tried \subseteq {"spill", "stream"}
  /\ events \in 0..MaxEvents

Init ==
  /\ envelope = "list"
  /\ \/ queued = TRUE /\ spill = None
     \/ queued = FALSE /\ spill = "unknown_legacy"   \* left by an old release
  /\ stream = NoFile
  /\ rows = <<>> /\ facts = {}
  /\ lock = None
  /\ w = [i \in Workers |-> Idle]
  /\ received = None /\ overlap = FALSE
  /\ events = 0

Decodes == envelope \in {"list", "spoiled"}
Unparsable == IF envelope = "spoiled" THEN {n \in Items : \A m \in Items : m <= n} ELSE {}

Stop(i) == w' = [w EXCEPT ![i] = Idle]
Goto(i, pc) == w' = [w EXCEPT ![i].pc = pc]
\* The end of a poll gives the lock back if it is still held.
Leave(i) == /\ Stop(i)
            /\ lock' = IF lock = i THEN None ELSE lock

Event == events < MaxEvents /\ events' = events + 1

-----------------------------------------------------------------------------
(* Rows and their leases.                                                   *)

\* What a row may be used for when it is inserted: classify_raw_disposition.
PersistElig(cap) ==
  CASE cap = "complete" -> "automatic"
    [] cap = "complete_too_large" -> "manual"
    [] OTHER -> "never"

\* The text with which a capture that cannot be parsed is marked, classified
\* again without the capture state.
CaptureErrorElig(cap) ==
  IF cap \in {"truncated", "protocol_invalid"} THEN "never" ELSE "manual"

NewRow(cap, lease) ==
  [cap |-> cap, elig |-> PersistElig(cap), done |-> FALSE, held |-> lease, live |-> lease,
   epoch |-> IF lease THEN 1 ELSE 0, attempts |-> 0, audit |-> "none", asked |-> {},
   told |-> FALSE]

\* A write that only names the row.
Unfenced(i) == w[i].row \in DOMAIN rows

\* The lease_id and epoch of the row are still those of the processor.
Fenced(i) == rows[w[i].row].held /\ rows[w[i].row].epoch = w[i].epoch

\* FENCED_TERMINAL_SQL for an error: never stays never.
MarkError(i, elig) ==
  IF Fenced(i)
  THEN LET row == rows[w[i].row] IN
       rows' = [rows EXCEPT ![w[i].row] =
                  [row EXCEPT !.done = FALSE, !.elig = IF row.elig = "never" THEN "never" ELSE elig,
                              !.held = FALSE, !.live = FALSE]]
  ELSE UNCHANGED rows

\* FENCED_TERMINAL_SQL for a result; a replay of the reconcile task owes an audit.
MarkProcessed(i) ==
  LET row == rows[w[i].row] IN
  rows' = [rows EXCEPT ![w[i].row] =
             [row EXCEPT !.done = TRUE, !.elig = "never", !.held = FALSE, !.live = FALSE,
                         !.audit = IF i \in System THEN "pending" ELSE row.audit]]

\* A lease nobody cleared.
StaleCleared(r) == ~rows[r].held

\* Nobody holds the row, or its lease has expired.
Stale(r) == ~rows[r].held \/ ~rows[r].live

\* A heartbeat of a processor: renewed, or the processor stops.
Heartbeat(i) ==
  /\ w[i].pc = "items"
  /\ IF Fenced(i)
     THEN rows' = [rows EXCEPT ![w[i].row].live = TRUE] /\ UNCHANGED <<w, lock>>
     ELSE Leave(i) /\ UNCHANGED rows
  /\ UNCHANGED <<world, files, facts, events>>

Running(r) == \E i \in Workers : w[i].row = r /\ w[i].epoch = rows[r].epoch

\* Fifteen minutes pass without a heartbeat.
LeaseExpires(r) ==
  /\ rows[r].held /\ rows[r].live
  /\ IF Running(r) THEN Event ELSE UNCHANGED events
  /\ rows' = [rows EXCEPT ![r].live = FALSE]
  /\ UNCHANGED <<world, files, facts, lock, w>>

-----------------------------------------------------------------------------
(* The poll lock.                                                           *)

Present == {f \in {"spill", "stream"} : \/ f = "spill" /\ spill # None
                                        \/ f = "stream" /\ stream.state \in {"partial", "done"}}

\* A poll that will find neither files nor a response is left out, and idle
\* pollers are alike.
Acquire(i) ==
  /\ LET idle == {p \in Pollers : w[p].pc = "idle"} IN i \in idle /\ i = CHOOSE p \in idle : TRUE
  /\ lock = None
  /\ queued \/ Present # {}
  /\ lock' = i /\ Goto(i, "recover")
  /\ UNCHANGED <<world, files, rows, facts, events>>

\* The lock of a poller that is gone runs out; a poller whose heartbeats fail
\* loses it too and notices only where it calls ensure_lease.
LockLapses ==
  /\ lock # None
  /\ IF w[lock].pc = "idle" THEN UNCHANGED events ELSE Event
  /\ lock' = None
  /\ UNCHANGED <<world, files, rows, facts, w>>

-----------------------------------------------------------------------------
(* recover_spills: the files left by earlier polls, spills before streams.   *)

\* A stream without its closing frame is what was announced, or truncated.
ReadStream ==
  IF stream.state = "done" \/ stream.cap = "protocol_invalid" THEN stream.cap ELSE "truncated"

RecoverRead(i, f) ==
  /\ w[i].pc = "recover"
  /\ f \in Present \ w[i].tried
  /\ f = "stream" => "spill" \notin Present \ w[i].tried
  /\ w' = [w EXCEPT ![i] = [@ EXCEPT !.pc = "recovered", !.file = f,
                                     !.cap = IF f = "spill" THEN spill ELSE ReadStream,
                                     !.tried = w[i].tried \cup {f}]]
  /\ overlap' = (overlap \/ (f = "stream" /\ \E p \in Pollers : w[p].pc = "receive"))
  /\ UNCHANGED <<queued, envelope, received, files, rows, facts, lock, events>>

\* Every capture but a complete one is committed with a lease, to be marked.
RecoverPersist(i) ==
  /\ w[i].pc = "recovered"
  /\ LET lease == w[i].cap # "complete" IN
     \/ /\ rows' = Append(rows, NewRow(w[i].cap, lease))
        /\ w' = IF lease THEN [w EXCEPT ![i] = [@ EXCEPT !.pc = "mark_capture",
                                                         !.row = Len(rows) + 1, !.epoch = 1]]
                ELSE [w EXCEPT ![i].pc = "remove"]
        /\ UNCHANGED events
     \/ /\ Event    \* the commit failed, or its answer was lost
        /\ rows' \in {rows, Append(rows, NewRow(w[i].cap, lease))}
        /\ w' = [w EXCEPT ![i] = [Idle EXCEPT !.pc = "recover", !.tried = w[i].tried]]
  /\ UNCHANGED <<world, files, facts, lock>>

\* mark_error of a capture that is not to be parsed, by a recovery or by the
\* poll that received it.
MarkCapture(i) ==
  /\ w[i].pc = "mark_capture"
  /\ MarkError(i, CaptureErrorElig(w[i].cap))
  /\ IF Fenced(i) /\ w[i].file # None
     THEN w' = [w EXCEPT ![i] = [@ EXCEPT !.pc = "remove", !.row = 0, !.epoch = 0]]
          /\ UNCHANGED lock
     ELSE Leave(i)
  /\ UNCHANGED <<world, files, facts, events>>

\* remove_stream removes the file also when it was completed since.
RecoverRemove(i) ==
  /\ w[i].pc = "remove"
  /\ spill' = IF w[i].file = "spill" THEN None ELSE spill
  /\ stream' = IF w[i].file = "stream" THEN NoFile ELSE stream
  /\ w' = [w EXCEPT ![i] = [Idle EXCEPT !.pc = "recover", !.tried = w[i].tried]]
  /\ UNCHANGED <<world, rows, facts, lock, events>>

\* The records are tried or the budget of the round is used up; the next poll of
\* the vendor needs the lock and room for a stream, and may find nothing.
RecoverDone(i) ==
  /\ w[i].pc = "recover"
  /\ Present \subseteq w[i].tried \/ w[i].tried # {}
  /\ \/ /\ lock = i /\ queued
        /\ w' = [w EXCEPT ![i] = [Idle EXCEPT !.pc = "call"]] /\ UNCHANGED lock
     \/ Leave(i)
  /\ UNCHANGED <<world, files, rows, facts, events>>

-----------------------------------------------------------------------------
(* poll_once: one call of the vendor.                                       *)

\* The response begins: it has left the queue, and the stream is announced
\* before its body is read.
Announce(i, cap, e) ==
  /\ w[i].pc = "call" /\ queued
  /\ queued' = FALSE
  /\ cap \notin Replayable => e = "list"
  /\ envelope' = e
  /\ stream' = [state |-> "partial", cap |-> cap]
  /\ w' = [w EXCEPT ![i] = [@ EXCEPT !.pc = "receive", !.cap = cap]]
  /\ UNCHANGED <<received, overlap, spill, rows, facts, lock, events>>

\* No response, or an empty one.
CallEmpty(i) ==
  /\ w[i].pc = "call"
  /\ Leave(i)
  /\ UNCHANGED <<world, files, rows, facts, events>>

\* The body ends or exceeds the limits; the stream gets its closing frame.  A
\* stream that was removed meanwhile is created again without its header.
Received(i) ==
  /\ w[i].pc = "receive"
  /\ stream' = IF stream = NoFile THEN [state |-> "broken", cap |-> w[i].cap]
               ELSE [stream EXCEPT !.state = "done"]
  /\ received' = w[i].cap
  /\ Goto(i, "spill")
  /\ UNCHANGED <<queued, envelope, overlap, spill, rows, facts, lock, events>>

\* The connection breaks: the stream stays as it is.
ReceiveFails(i) ==
  /\ w[i].pc = "receive"
  /\ Event
  /\ Leave(i)
  /\ UNCHANGED <<world, files, rows, facts>>

\* A commit that gives the stream up for a spill that was not written.
SpillWriteDiscards(i) ==
  /\ w[i].pc = "spill"
  /\ \/ spill' = w[i].cap /\ UNCHANGED events
     \/ Event /\ UNCHANGED spill
  /\ Goto(i, "discard")
  /\ UNCHANGED <<world, stream, rows, facts, lock>>

\* The second copy; the stream is discarded only once it is on disk.
SpillWrite(i) ==
  /\ w[i].pc = "spill"
  /\ \/ spill' = w[i].cap /\ Goto(i, "discard") /\ UNCHANGED events
     \/ Event /\ Goto(i, "persist") /\ UNCHANGED spill
  /\ UNCHANGED <<world, stream, rows, facts, lock>>

DiscardStream(i) ==
  /\ w[i].pc = "discard"
  /\ stream' = NoFile
  /\ Goto(i, "persist")
  /\ UNCHANGED <<world, spill, rows, facts, lock, events>>

PersistRaw(i) ==
  /\ w[i].pc = "persist"
  /\ \/ /\ rows' = Append(rows, NewRow(w[i].cap, TRUE))
        /\ w' = [w EXCEPT ![i] = [@ EXCEPT !.pc = "cleanup", !.row = Len(rows) + 1,
                                           !.epoch = 1]]
        /\ UNCHANGED <<events, lock>>
     \/ /\ Event    \* the commit failed, or its answer was lost
        /\ rows' \in {rows, Append(rows, NewRow(w[i].cap, TRUE))}
        /\ Leave(i)
  /\ UNCHANGED <<world, files, facts>>

CleanUp(i) ==
  /\ w[i].pc = "cleanup"
  /\ stream' = NoFile /\ spill' = None
  /\ Goto(i, IF w[i].cap \in {"complete_too_large", "truncated"} THEN "mark_capture"
             ELSE "persisted")
  /\ UNCHANGED <<world, rows, facts, lock, events>>

\* process_existing begins with a fenced write of the row's metadata.
Metadata(i) ==
  IF Fenced(i)
  THEN w' = [w EXCEPT ![i] = [@ EXCEPT !.pc = "items", !.todo = Items]] /\ UNCHANGED lock
  ELSE Leave(i)

\* ensure_lease, then the response is decoded.
Decode(i) ==
  /\ w[i].pc = "persisted"
  /\ \/ lock # i /\ Leave(i) /\ UNCHANGED rows
     \/ /\ lock = i /\ w[i].cap = "protocol_invalid"
        /\ Goto(i, "mark_capture") /\ UNCHANGED <<rows, lock>>
     \/ /\ lock = i /\ w[i].cap = "complete" /\ Decodes
        /\ Metadata(i) /\ UNCHANGED rows
     \/ /\ lock = i /\ w[i].cap = "complete" /\ ~Decodes
        /\ MarkError(i, IF envelope = "refused" THEN "never" ELSE "manual")
        /\ Leave(i)
  /\ UNCHANGED <<world, files, facts, events>>

-----------------------------------------------------------------------------
(* process_existing, shared by polls and replays.                           *)

\* One item, in a transaction of its own that the lease does not fence.
Item(i) ==
  /\ w[i].pc = "items" /\ w[i].todo # {}
  /\ \E n \in w[i].todo :
     /\ \A m \in w[i].todo : n <= m
     /\ facts' = facts \cup ({n} \ Unparsable)
     /\ w' = [w EXCEPT ![i] = [@ EXCEPT !.todo = w[i].todo \ {n},
                                        !.skipped = w[i].skipped \/ n \in Unparsable]]
  /\ UNCHANGED <<world, files, rows, lock, events>>

\* The database fails an item: the row may be tried again.
ItemFails(i) ==
  /\ w[i].pc = "items" /\ w[i].todo # {}
  /\ Event
  /\ MarkError(i, "automatic")
  /\ Leave(i)
  /\ UNCHANGED <<world, files, facts>>

Ended(i) == IF i \in Pollers THEN Leave(i) ELSE Goto(i, "audit") /\ UNCHANGED lock

Finish(i) ==
  /\ w[i].pc = "items" /\ w[i].todo = {}
  /\ IF w[i].skipped THEN MarkError(i, "manual")
     ELSE IF Fenced(i) THEN MarkProcessed(i) ELSE UNCHANGED rows
  /\ IF Fenced(i) THEN Ended(i) ELSE Leave(i)
  /\ UNCHANGED <<world, files, facts, events>>

-----------------------------------------------------------------------------
(* Replay.                                                                  *)

\* list_stale_unprocessed_raw_ids
ListStale(i, r) ==
  /\ i \in System /\ w[i].pc = "idle"
  /\ ~rows[r].done /\ rows[r].cap = "complete" /\ rows[r].elig = "automatic"
  /\ rows[r].attempts < MaxAttempts
  /\ Stale(r)
  /\ w' = [w EXCEPT ![i] = [@ EXCEPT !.pc = "claim", !.row = r]]
  /\ UNCHANGED <<world, files, rows, facts, lock, events>>

Claimable(i, r) ==
  /\ ~rows[r].done /\ Stale(r)
  /\ rows[r].cap = "complete" \/ (i \in Humans /\ rows[r].cap = "complete_too_large")
  /\ rows[r].elig = "automatic" \/ (i \in Humans /\ rows[r].elig = "manual")

Claim(i, r) ==
  /\ Claimable(i, r)
  /\ LET row == rows[r]
         e == row.epoch + 1 IN
     /\ rows' = [rows EXCEPT ![r] =
                   [row EXCEPT !.held = TRUE, !.live = TRUE, !.epoch = e, !.attempts = row.attempts + 1,
                               !.asked = IF i \in Humans THEN row.asked \cup {e} ELSE row.asked]]
     /\ w' = [w EXCEPT ![i] = [@ EXCEPT !.pc = "decode", !.row = r, !.epoch = e]]

\* The audit of a human names a request with the current epoch of the row.
HumanAudit(r) ==
  IF rows[r].epoch \in rows[r].asked
  THEN rows' = [rows EXCEPT ![r].told = TRUE] ELSE UNCHANGED rows

SystemAudit(r) ==
  IF rows[r].audit = "pending"
  THEN rows' = [rows EXCEPT ![r].audit = "completed"] ELSE UNCHANGED rows

\* Not claimed: the audit that is missing on a processed row may be added.
ClaimRefused(i, r) ==
  /\ ~Claimable(i, r)
  /\ IF ~rows[r].done THEN UNCHANGED rows
     ELSE IF i \in System THEN SystemAudit(r)
     ELSE IF rows[r].audit = "completed" \/ rows[r].told THEN UNCHANGED rows
     ELSE HumanAudit(r)
  /\ Stop(i)

\* The reconcile task claims what it listed before, an operator the row at hand.
Replay(i) ==
  /\ w[i].pc = "claim"
  /\ Claim(i, w[i].row) \/ ClaimRefused(i, w[i].row)
  /\ UNCHANGED <<world, files, facts, lock, events>>

AskReplay(i, r) ==
  /\ i \in Humans /\ w[i].pc = "idle" /\ Event
  /\ Claim(i, r) \/ ClaimRefused(i, r)
  /\ UNCHANGED <<world, files, facts, lock>>

ReplayDecode(i) ==
  /\ w[i].pc = "decode"
  /\ IF Decodes THEN Metadata(i) /\ UNCHANGED rows ELSE MarkError(i, "manual") /\ Leave(i)
  /\ UNCHANGED <<world, files, facts, events>>

Audit(i) ==
  /\ w[i].pc = "audit"
  /\ IF i \in System THEN SystemAudit(w[i].row) ELSE HumanAudit(w[i].row)
  /\ Stop(i)
  /\ UNCHANGED <<world, files, facts, lock, events>>

\* list_pending_system_replay_audit_ids: the replay of a processed row only
\* writes its audit.
ListPendingAudit(i, r) ==
  /\ i \in System /\ w[i].pc = "idle"
  /\ rows[r].done /\ rows[r].audit = "pending"
  /\ w' = [w EXCEPT ![i] = [@ EXCEPT !.pc = "claim", !.row = r]]
  /\ UNCHANGED <<world, files, rows, facts, lock, events>>

-----------------------------------------------------------------------------
(* Reevaluation after an upgrade of the parser.                             *)

ReevaluateLoad(i, r) ==
  /\ i \in Humans /\ w[i].pc = "idle"
  /\ Event
  /\ rows[r].cap \in Replayable
  /\ w' = [w EXCEPT ![i] = [@ EXCEPT !.pc = "reevaluate", !.row = r,
                                     !.seen = [done |-> rows[r].done, elig |-> rows[r].elig]]]
  /\ UNCHANGED <<world, files, rows, facts, lock>>

\* The disposition is that of the state that was loaded.
Disposition(i) ==
  IF w[i].seen.done THEN "never"
  ELSE IF rows[w[i].row].cap = "complete_too_large" THEN "manual"
  ELSE IF Decodes THEN "automatic"
  ELSE IF envelope = "refused" THEN "never" ELSE "manual"

\* Written only if nothing changed since and no live lease is held.
Reevaluate(i) ==
  /\ w[i].pc = "reevaluate"
  /\ LET r == w[i].row IN
     IF /\ rows[r].done = w[i].seen.done /\ rows[r].elig = w[i].seen.elig
        /\ Stale(r)
     THEN rows' = [rows EXCEPT ![r].elig = Disposition(i)]
     ELSE UNCHANGED rows
  /\ Stop(i)
  /\ UNCHANGED <<world, files, facts, lock, events>>

-----------------------------------------------------------------------------
(* A process dies, or an error leaves the handler without another write.     *)

Crash(i) ==
  /\ w[i].pc # "idle"
  /\ Event
  /\ Stop(i)
  /\ UNCHANGED <<world, files, rows, facts, lock>>

Recover(i) ==
  \/ \E f \in {"spill", "stream"} : RecoverRead(i, f)
  \/ RecoverPersist(i) \/ RecoverRemove(i) \/ RecoverDone(i)

PollStep(i) ==
  \/ Recover(i) \/ MarkCapture(i)
  \/ CallEmpty(i) \/ Received(i) \/ SpillWrite(i) \/ DiscardStream(i) \/ PersistRaw(i)
  \/ CleanUp(i) \/ Decode(i)

Process(i) == Item(i) \/ Finish(i)

ReplayStep(i) == Replay(i) \/ ReplayDecode(i) \/ Audit(i) \/ Reevaluate(i)

Reconcile(i) == \E r \in DOMAIN rows : ListStale(i, r) \/ ListPendingAudit(i, r)

Next ==
  \/ \E i \in Pollers : \/ Acquire(i) \/ PollStep(i) \/ ReceiveFails(i)
                        \/ \E cap \in Captures \ {"unknown_legacy"}, e \in Envelopes : Announce(i, cap, e)
  \/ \E i \in System \cup Humans : ReplayStep(i)
  \/ \E i \in System : Reconcile(i)
  \/ \E i \in Humans, r \in DOMAIN rows : AskReplay(i, r) \/ ReevaluateLoad(i, r)
  \/ \E i \in Workers : Process(i) \/ ItemFails(i) \/ Heartbeat(i) \/ Crash(i)
  \/ \E r \in DOMAIN rows : LeaseExpires(r)
  \/ LockLapses

Spec == Init /\ [][Next]_vars

\* Polls and the reconcile task are scheduled periodically, running processes go
\* on, and time passes: while one of these can happen, one of them does.  Nothing
\* is assumed of which, of the vendor, and of operators who have not asked.
Progress ==
  \/ \E i \in Pollers : Acquire(i) \/ PollStep(i)
  \/ \E i \in System \cup Humans : ReplayStep(i)
  \/ \E i \in System : Reconcile(i)
  \/ \E i \in Workers : Process(i)
  \/ \E r \in DOMAIN rows : ~Running(r) /\ LeaseExpires(r)
  \/ LockLapses /\ UNCHANGED events

FairSpec == Spec /\ WF_vars(Progress)

-----------------------------------------------------------------------------
(* Properties.                                                              *)

\* A response that was read to its end is in a file or in a row from then on, with
\* the capture state it was received with, whatever crashes, fails or is repeated
\* (_commit_raw removes the stream only after the spill is on disk and both only
\* after the commit; recover_spills removes a file only after its commit).  The
\* exception is a recovery that read the stream of a poller which was still
\* receiving, possible once that poller has lost the poll lock.
NothingLost ==
  received # None /\ ~overlap =>
    \/ stream = [state |-> "done", cap |-> received]
    \/ spill = received
    \/ \E r \in DOMAIN rows : rows[r].cap = received

\* A row counts as processed only if every item of a complete response became a
\* fact; what was truncated, was no valid response or cannot be authenticated is
\* never eligible nor claimed; an operator is named as the one who replayed a
\* processed row only if the claim that processed it was one of an operator; and
\* a processed row is never reopened or made eligible, neither by a processor that
\* lost its lease nor by a reevaluation that loaded the row before.
Earned(row) ==
  /\ row.done => /\ row.cap \in Replayable /\ envelope = "list"
                 /\ facts = Items /\ row.elig = "never" /\ ~row.held
  /\ row.cap \notin Replayable => row.elig = "never" /\ row.epoch <= 1
  /\ row.done /\ row.told => row.epoch \in row.asked

\* Earned holds of every row for ever, and a processed row stays processed.
ProcessedIsEarned ==
  /\ [](\A r \in DOMAIN rows : Earned(rows[r]))
  /\ [][\A r \in DOMAIN rows : rows[r].done => rows'[r].done /\ rows'[r].elig = "never"]_vars

\* A complete response ends up processed, or waits for a person because it cannot
\* be parsed or has used up its automatic replays.
ResponseSettled ==
  received = "complete" /\ ~overlap =>
    \E r \in DOMAIN rows :
      /\ rows[r].cap = "complete"
      /\ rows[r].done \/ rows[r].elig # "automatic" \/ rows[r].attempts >= MaxAttempts

\* Whatever happened before, a moment comes again and again when the response is
\* settled and no audit is owed: also a crash between a replay and its audit is
\* made good by reconcile's _replay_stale_raw.
Settles ==
  []<>(ResponseSettled /\ \A r \in DOMAIN rows : rows[r].audit # "pending")

=============================================================================
