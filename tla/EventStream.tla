----------------------------- MODULE EventStream ----------------------------
(***************************************************************************)
(* GET /events, from the audit log to the panel: audit_log and the bus of  *)
(* apps/hooks, one stream's writer, the socket, and the panel's            *)
(* subscription with its reconnects.                                       *)
(*                                                                         *)
(* A row is its seq: ids are unique and stay with their row.  Recording    *)
(* commits a batch and publishes it in one synchronous stretch; the writer *)
(* runs only when the socket takes more bytes, and parks when it has       *)
(* nothing to send.  The socket holds frames the panel has not read yet.   *)
(***************************************************************************)
EXTENDS Naturals, FiniteSets, SequencesExt

CONSTANTS
  Null,          \* no id received yet
  FromStart,     \* TRUE: the first connection sends last-event-id: 0
  BacklogLimit,  \* STREAM_BACKLOG_LIMIT
  ChunkEvents,   \* STREAM_CHUNK_EVENTS
  SocketFrames,  \* frames the socket takes before it pushes back
  MaxBatch,      \* bound: rows one decision records
  MaxSeq,        \* bound: rows ever recorded
  MaxDrops,      \* bound: connections lost
  MaxResets      \* bound: demo resets

ASSUME LimitsAssumption ==
  /\ FromStart \in BOOLEAN
  /\ {BacklogLimit, ChunkEvents, SocketFrames, MaxBatch} \subseteq Nat \ {0}
  /\ {MaxSeq, MaxDrops, MaxResets} \subseteq Nat
  /\ Null \notin Nat

VARIABLES
  log,        \* the rows audit_log holds
  seq,        \* sqlite_sequence: the highest seq ever given out
  stream,     \* the connection's closure in handleEvents
  wire,       \* frames written and not read
  panel,      \* the client: connected, firstConnection, what it received
  announced,  \* rows the stream said it would not send, or that were erased
  leaked,     \* subscriptions of closed streams still on the bus
  drops, resets

vars == <<log, seq, stream, wire, panel, announced, leaked, drops, resets>>

Rows == 1..MaxSeq

Stream == [state : {"none", "open", "closed"}, pending : Seq(Rows),
           overflowed : BOOLEAN, idle : BOOLEAN, lastSentSeq : Nat,
           replayFrom : Nat, replayTo : Nat]

Panel == [connected : BOOLEAN, firstConnection : BOOLEAN, received : Seq(Rows)]

TypeOK ==
  /\ log \subseteq Rows
  /\ seq \in 0..MaxSeq
  /\ stream \in Stream
  /\ wire \in Seq(Rows)
  /\ panel \in Panel
  /\ announced \subseteq Rows
  /\ leaked \in Nat
  /\ drops \in 0..MaxDrops
  /\ resets \in 0..MaxResets

NoStream == [state |-> "none", pending |-> <<>>, overflowed |-> FALSE,
             idle |-> FALSE, lastSentSeq |-> 0, replayFrom |-> 0, replayTo |-> 0]

Init ==
  /\ log = {}
  /\ seq = 0
  /\ stream = NoStream
  /\ wire = <<>>
  /\ panel = [connected |-> FALSE, firstConnection |-> TRUE, received |-> <<>>]
  /\ announced = {}
  /\ leaked = 0
  /\ drops = 0
  /\ resets = 0

-----------------------------------------------------------------------------
(* audit-log.ts                                                            *)

HighWater == IF log = {} THEN 0 ELSE Max(log)

Between(after, upTo) == {s \in log : after < s /\ s <= upTo}

Ascends(s) == \A i, j \in DOMAIN s : i < j => s[i] < s[j]

\* ORDER BY seq ASC.
Ascending(rows) == CHOOSE s \in [1..Cardinality(rows) -> rows] : Ascends(s)

Upto(s, n) == SubSeq(s, 1, Min({n, Len(s)}))

PageAfter(after, upTo, limit) == Upto(Ascending(Between(after, upTo)), limit)

\* The row with exactly limit rows after it up to upTo, or after itself when
\* the whole gap fits.
CappedAnchor(after, upTo, limit) ==
  LET gap == Between(after, upTo)
  IN IF Cardinality(gap) <= limit THEN after
     ELSE CHOOSE s \in gap : Cardinality(Between(s, upTo)) = limit

-----------------------------------------------------------------------------
(* Recording a decision: commit, then publish to every subscriber.         *)

\* Mutant of Deliver: a busy writer's overflowing batch is trimmed away.
DeliverTrimmed(batch) ==
  IF stream.state # "open" THEN stream
  ELSE [stream EXCEPT !.pending =
          IF stream.idle THEN @ \o batch ELSE Upto(@ \o batch, BacklogLimit)]

\* The stream's subscriber.  An idle writer takes a batch of any size; a busy
\* one is closed rather than trimmed.
Deliver(batch) ==
  IF stream.state # "open" THEN stream
  ELSE IF ~stream.idle /\ Len(stream.pending) + Len(batch) > BacklogLimit
       THEN [stream EXCEPT !.overflowed = TRUE]
       ELSE [stream EXCEPT !.pending = @ \o batch]

Record(n) ==
  LET batch == [i \in 1..n |-> seq + i]
  IN /\ seq + n <= MaxSeq
     /\ log' = log \cup ToSet(batch)
     /\ seq' = seq + n
     /\ stream' = Deliver(batch)
     /\ UNCHANGED <<wire, panel, announced, leaked, drops, resets>>

\* Mutant of ResetCounter: the reset rewinds sqlite_sequence as well.
ResetCounterRewound == 0

\* POST /admin/reset with mode demo: audit_log emptied, sqlite_sequence left
\* alone, every stream left open.
ResetCounter == seq

Reset ==
  /\ resets < MaxResets
  /\ log' = {}
  /\ seq' = ResetCounter
  /\ announced' = announced \cup log
  /\ resets' = resets + 1
  /\ UNCHANGED <<stream, wire, panel, leaked, drops>>

-----------------------------------------------------------------------------
(* Opening a stream.                                                       *)

\* The id of the last frame read; every governance frame carries one.
LastEventId == IF panel.received = <<>> THEN Null ELSE Last(panel.received)

\* The anchor a connection names, if the log can place it.
Requested ==
  IF panel.firstConnection /\ FromStart THEN 0 ELSE LastEventId

Placed(id) == id = 0 \/ id \in log

\* Where the replay starts; the high-water mark when there is nothing to replay.
Anchor(id) ==
  IF Placed(id) THEN CappedAnchor(id, HighWater, BacklogLimit) ELSE HighWater

\* Subscribed and the mark read with nothing in between, so that no row is in
\* neither the replay nor the queue.
OpenedAt(anchor) ==
  [NoStream EXCEPT !.state = "open", !.lastSentSeq = anchor,
                   !.replayFrom = anchor, !.replayTo = HighWater]

\* The preamble says which rows the stream will not send: those a capped
\* replay skips, or all up to the mark when it opens live.
Skipped(id) ==
  IF Placed(id) THEN id + 1 .. Anchor(id) ELSE 1 .. HighWater

\* Mutant of Connect: one connection and no reconnect loop.
ConnectOnce ==
  /\ ~panel.connected /\ panel.firstConnection
  /\ stream' = OpenedAt(Anchor(Requested))
  /\ announced' = announced \cup Skipped(Requested)
  /\ panel' = [panel EXCEPT !.connected = TRUE, !.firstConnection = FALSE]
  /\ wire' = <<>>
  /\ UNCHANGED <<log, seq, leaked, drops, resets>>

Connect ==
  /\ ~panel.connected
  /\ stream' = OpenedAt(Anchor(Requested))
  /\ announced' = announced \cup Skipped(Requested)
  /\ panel' = [panel EXCEPT !.connected = TRUE, !.firstConnection = FALSE]
  /\ wire' = <<>>
  /\ UNCHANGED <<log, seq, leaked, drops, resets>>

-----------------------------------------------------------------------------
(* The writer: pull, and the skip in write.                                *)

\* pull runs while the socket takes bytes, and a parked one when it is woken.
CanPull ==
  /\ stream.state = "open"
  /\ Len(wire) < SocketFrames
  /\ stream.idle => stream.pending # <<>> \/ stream.overflowed

Replay == PageAfter(stream.replayFrom, stream.replayTo, ChunkEvents)

\* The pending rows write does not drop as already sent.
Unsent ==
  LET kept == {i \in DOMAIN stream.pending : stream.pending[i] > stream.lastSentSeq}
  IN [n \in 1..Cardinality(kept) |-> stream.pending[Ascending(kept)[n]]]

\* Too far behind: the stream ends, and only cancel would have unsubscribed it.
PullCloses ==
  /\ CanPull
  /\ stream.overflowed
  /\ stream' = [stream EXCEPT !.state = "closed"]
  /\ leaked' = leaked + 1
  /\ UNCHANGED <<log, seq, wire, panel, announced, drops, resets>>

\* One page of the replay, oldest first.
PullReplays ==
  /\ CanPull
  /\ ~stream.overflowed
  /\ Replay # <<>>
  /\ wire' = wire \o Replay
  /\ stream' = [stream EXCEPT !.idle = FALSE, !.replayFrom = Last(Replay),
                              !.lastSentSeq = Last(Replay)]
  /\ UNCHANGED <<log, seq, panel, announced, leaked, drops, resets>>

\* Then one chunk of what the bus delivered.  A replay window that a reset
\* emptied is over.
PullSendsLive ==
  LET chunk == Upto(Unsent, ChunkEvents)
  IN /\ CanPull
     /\ ~stream.overflowed
     /\ Replay = <<>> /\ chunk # <<>>
     /\ wire' = wire \o chunk
     /\ stream' = [stream EXCEPT
          !.idle = FALSE, !.replayFrom = stream.replayTo,
          !.pending = SubSeq(Unsent, Len(chunk) + 1, Len(Unsent)),
          !.lastSentSeq = Last(chunk)]
     /\ UNCHANGED <<log, seq, panel, announced, leaked, drops, resets>>

\* Nothing to send: parked until a decision or the keep-alive timer.
PullParks ==
  /\ CanPull
  /\ ~stream.overflowed /\ ~stream.idle
  /\ Replay = <<>> /\ Unsent = <<>>
  /\ stream' = [stream EXCEPT !.idle = TRUE, !.replayFrom = stream.replayTo,
                              !.pending = <<>>]
  /\ UNCHANGED <<log, seq, wire, panel, announced, leaked, drops, resets>>

\* The timer fired first.  The writer is busy again until the comment is taken.
KeepAlive ==
  /\ stream.state = "open" /\ stream.idle
  /\ stream.pending = <<>> /\ ~stream.overflowed
  /\ stream' = [stream EXCEPT !.idle = FALSE]
  /\ UNCHANGED <<log, seq, wire, panel, announced, leaked, drops, resets>>

Pull == PullCloses \/ PullReplays \/ PullSendsLive \/ PullParks

-----------------------------------------------------------------------------
(* The panel.                                                              *)

Read ==
  /\ panel.connected /\ wire # <<>>
  /\ panel' = [panel EXCEPT !.received = Append(@, Head(wire))]
  /\ wire' = Tail(wire)
  /\ UNCHANGED <<log, seq, stream, announced, leaked, drops, resets>>

\* The stream ended and everything on the wire was read.
SeeEnd ==
  /\ panel.connected /\ stream.state = "closed" /\ wire = <<>>
  /\ panel' = [panel EXCEPT !.connected = FALSE]
  /\ stream' = NoStream
  /\ UNCHANGED <<log, seq, wire, announced, leaked, drops, resets>>

\* The connection is lost with what was on the wire, and the server's side is
\* cancelled, which unsubscribes a stream that had not closed itself.
Drop ==
  /\ panel.connected /\ drops < MaxDrops
  /\ panel' = [panel EXCEPT !.connected = FALSE]
  /\ stream' = NoStream
  /\ wire' = <<>>
  /\ drops' = drops + 1
  /\ UNCHANGED <<log, seq, announced, leaked, resets>>

\* The hook server restarts: the bus goes with every connection; the log stays.
Restart ==
  /\ drops < MaxDrops
  /\ panel' = [panel EXCEPT !.connected = FALSE]
  /\ stream' = NoStream
  /\ wire' = <<>>
  /\ leaked' = 0
  /\ drops' = drops + 1
  /\ UNCHANGED <<log, seq, announced, resets>>

-----------------------------------------------------------------------------

Next ==
  \/ \E n \in 1..MaxBatch : Record(n)
  \/ Reset
  \/ Connect
  \/ PullCloses \/ PullReplays \/ PullSendsLive \/ PullParks
  \/ KeepAlive
  \/ Read
  \/ SeeEnd
  \/ Drop
  \/ Restart

\* The writer runs when it may, the panel keeps reading and never gives up
\* reconnecting.  Nobody is obliged to record, reset or lose a connection.
Fairness == WF_vars(Pull) /\ WF_vars(Read) /\ WF_vars(SeeEnd) /\ WF_vars(Connect)

Spec == Init /\ [][Next]_vars /\ Fairness
-----------------------------------------------------------------------------
(* Properties.                                                             *)

\* In order and nothing twice, whatever was lost, replayed, reset or restarted:
\* the panel's feed is strictly increasing across all its connections.
InOrderNothingTwice == Ascends(panel.received)

\* Nothing is missing in the middle: a row below one the panel shows was shown
\* too, unless the stream announced it would not send it or a reset erased it.
NoSilentGap ==
  \A i \in DOMAIN panel.received :
    \A s \in 1..panel.received[i] : s \in ToSet(panel.received) \cup announced

\* A panel that stays behind catches up: every recorded row reaches it, is
\* announced as not sent, or is erased.
CatchesUp ==
  \A s \in Rows : s \in log ~> s \in ToSet(panel.received) \cup announced

=============================================================================
