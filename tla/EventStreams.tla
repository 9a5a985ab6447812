---------------------------- MODULE EventStreams ----------------------------
(***************************************************************************)
(* A consumer's subscription to the events of one workspace:               *)
(* crates/maidan-server/src/event_stream.rs with the socket of ws.rs and   *)
(* the durable cursor of crates/maidan-store/src/postgres/                 *)
(* delivery_cursor.rs.  A connection either reconciles with the log        *)
(* (at_least_once) or forwards what the bus brings and replays after a     *)
(* lag.  Frames go through a queue of the process to the socket, and a     *)
(* connection that ends takes its queue with it.                           *)
(*                                                                         *)
(* The bus may bring any committed event, late, twice, before its          *)
(* announcement (the floor publishes what it back-fills) or never.         *)
(* Filters, lean frames and undecodable payloads are left out, and a       *)
(* client that reconnects names only its consumer_id.                      *)
(***************************************************************************)
EXTENDS EventFeed, FiniteSets, Sequences, Functions

CONSTANTS
  Room,      \* the workspace the consumer follows
  Limit      \* REPLAY_LIMIT: rows of one read

ASSUME StreamConstants ==
  /\ Room \in Workspaces
  /\ Limit \in Nat \ {0}

VARIABLES
  durable,   \* last_delivered_log_id of the consumer in Room
  conn,      \* the connection
  queue,     \* frames handed to the connection, not yet on the socket
  frames,    \* history: every frame handed to this connection, in order
  handed,    \* history: events handed to some connection of the consumer
  wasLive    \* history: the consumer has connected without at_least_once

streamVars == <<nextId, home, link, open, log, sent, faults,
                durable, conn, queue, frames, handed, wasLive>>

\* pc: "off", "first" (the replay of a live connection), "poll" (the reconcile
\* loop, or a replay after a lag), "read" (rows read, not yet handed), "live".
\* after: its cursor or watermark.  pending: the live path's buffered cursor.
NoConn == [pc |-> "off", alo |-> FALSE, after |-> 0, rows |-> {}, pending |-> 0]

StreamInit ==
  /\ FeedInit
  /\ durable = 0
  /\ conn = NoConn
  /\ queue = <<>>
  /\ frames = <<>>
  /\ handed = {}
  /\ wasLive = FALSE

Later(a, b) == IF a < b THEN b ELSE a

StreamFeed ==
  /\ FeedNext
  /\ UNCHANGED <<faults, durable, conn, queue, frames, handed, wasLive>>

\* serve: the cursor is the stored one.  The live path replays before it
\* forwards, unless there is nothing to replay from.
Subscribe(alo) ==
  /\ conn.pc = "off"
  /\ conn' = [pc |-> IF alo THEN "poll" ELSE IF durable > 0 THEN "first" ELSE "live",
              alo |-> alo, after |-> durable, rows |-> {}, pending |-> 0]
  /\ frames' = <<>>
  /\ wasLive' = (wasLive \/ ~alo)
  /\ UNCHANGED <<feedVars, faults, durable, queue, handed>>

\* Mutant: an off-by-one in the bound of the read.
FirstRowsPast(after) == {i \in Of(Room, log) : i > after + 1}

\* list_after and list_after_stable: the first rows of Room above the cursor,
\* in id order.
FirstRows(after) ==
  LET rows == {i \in Of(Room, log) : i > after}
  IN  {i \in rows : Cardinality({j \in rows : j < i}) < Limit}

\* Mutant: the horizon is the read's own, rows below a fresh one are skipped.
StableUnordered(rows) == SUBSET rows

\* Rows younger than the stability window are left for a later read.  Rows of
\* one workspace are inserted one after the other, so the others are older.
Stable(rows) == {{i \in rows : i <= cut} : cut \in 0..MaxId}

ReadRows ==
  /\ conn.pc \in {"first", "poll"}
  /\ \E rows \in IF conn.alo THEN Stable(FirstRows(conn.after))
                             ELSE {FirstRows(conn.after)} :
       conn' = IF conn.alo /\ rows = {} THEN conn
               ELSE [conn EXCEPT !.pc = "read", !.rows = rows]
  /\ UNCHANGED <<feedVars, faults, durable, queue, frames, handed, wasLive>>

\* A failed read after a lag leaves a hint and goes on.  (One of the first
\* replay closes the socket; the reconcile loop waits for its next turn.)
ReadFails ==
  /\ conn.pc = "poll" /\ ~conn.alo
  /\ Fault
  /\ conn' = [conn EXCEPT !.pc = "live"]
  /\ UNCHANGED <<feedVars, durable, queue, frames, handed, wasLive>>

HandOver(i) ==
  /\ queue' = Append(queue, i)
  /\ frames' = Append(frames, i)
  /\ handed' = handed \cup {i}

SendRow ==
  /\ conn.pc = "read"
  /\ \E i \in conn.rows :
       /\ \A j \in conn.rows : i <= j
       /\ HandOver(i)
       /\ conn' = [conn EXCEPT !.rows = @ \ {i}, !.after = i]
  /\ UNCHANGED <<feedVars, faults, durable, wasLive>>

\* advance_delivery_cursor after the batch; it may fail and is only logged.
Advance ==
  /\ conn.pc = "read" /\ conn.rows = {}
  /\ \/ durable' = Later(durable, conn.after) /\ UNCHANGED faults
     \/ Fault /\ UNCHANGED durable
  /\ conn' = [conn EXCEPT !.pc = IF conn.alo THEN "poll" ELSE "live"]
  /\ UNCHANGED <<feedVars, queue, frames, handed, wasLive>>

\* Mutant: the live path does not compare with what the replay sent.
FreshAny(i) == TRUE

\* forward_bus_items drops what is at or below the watermark.
Fresh(i) == i > conn.after

\* forward_bus_items, one event: buffer or flush the cursor, hand over.
ForwardEvent(i) ==
  /\ conn.pc = "live"
  /\ i \in log /\ home[i] = Room /\ Fresh(i)
  /\ \/ durable' = Later(durable, i) /\ conn' = [conn EXCEPT !.after = i, !.pending = 0]
     \/ UNCHANGED durable /\ conn' = [conn EXCEPT !.after = i, !.pending = i]
  /\ HandOver(i)
  /\ UNCHANGED <<feedVars, faults, wasLive>>

\* The subscriber fell behind the bus and lost items: replay from the log.
Lagged ==
  /\ conn.pc = "live"
  /\ conn' = [conn EXCEPT !.pc = "poll"]
  /\ UNCHANGED <<feedVars, faults, durable, queue, frames, handed, wasLive>>

\* The socket loop of serve.
WriteFrame ==
  /\ queue # <<>>
  /\ queue' = Tail(queue)
  /\ UNCHANGED <<feedVars, faults, durable, conn, frames, handed, wasLive>>

\* The socket closes or the replica stops.  The task may notice the closed
\* queue and flush its buffered cursor, or be aborted.
HangUp ==
  /\ conn.pc # "off"
  /\ Fault
  /\ durable' \in {durable, Later(durable, conn.pending)}
  /\ conn' = NoConn
  /\ queue' = <<>>
  /\ UNCHANGED <<feedVars, frames, handed, wasLive>>

ConnectionStep ==
  \/ \E alo \in BOOLEAN : Subscribe(alo)
  \/ ReadRows \/ ReadFails \/ SendRow \/ Advance
  \/ Lagged \/ WriteFrame \/ HangUp

StreamNext ==
  \/ StreamFeed
  \/ ConnectionStep
  \/ \E i \in Ids : ForwardEvent(i)

\* The reconcile loop polls for ever and a consumer comes back.
StreamFairness ==
  WF_streamVars(Subscribe(TRUE) \/ ReadRows \/ SendRow \/ Advance)

StreamSpec == StreamInit /\ [][StreamNext]_streamVars
-----------------------------------------------------------------------------
StreamTypeOK ==
  /\ durable \in 0..MaxId
  /\ conn \in [pc : {"off", "first", "poll", "read", "live"}, alo : BOOLEAN,
               after : 0..MaxId, rows : SUBSET Ids, pending : 0..MaxId]
  /\ queue \in Seq(Ids)
  /\ frames \in Seq(Ids)
  /\ handed \in SUBSET Ids
  /\ wasLive \in BOOLEAN

\* One connection never shows an event twice or after a later one, though the
\* replay, the bus and the log read overlap and the bus repeats itself.
FramesInOrder ==
  \A k \in 1..Len(frames) - 1 : frames[k] < frames[k + 1]

\* The stored cursor of a consumer that always asked for at_least_once hides
\* no committed event of its workspace: every one at or below it was handed to
\* a connection.  Ids of the log commit out of order, so this rests on the
\* order within one workspace.
CursorHidesNothing ==
  ~wasLive => \A i \in Of(Room, log) : i <= durable => i \in handed

\* Such a consumer, when it always comes back, is handed every event.
StreamCatchesUp ==
  \A i \in Ids : (i \in Of(Room, log)) ~> (i \in handed \/ wasLive)

=============================================================================
