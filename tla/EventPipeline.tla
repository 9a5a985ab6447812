---------------------------- MODULE EventPipeline ---------------------------
(***************************************************************************)
(* From the commit of an event to the consumer's socket: the relays of     *)
(* OutboxRelay, the listeners of NotifyFloor and the connection of         *)
(* EventStreams in one system, as crates/maidan-server/src/main.rs starts  *)
(* them in every replica.  A NOTIFY of a relay is the pointer the          *)
(* listeners get, and what the bus brings a connection is what the         *)
(* listener of a replica has published.                                    *)
(***************************************************************************)
EXTENDS OutboxRelay, NotifyFloor, EventStreams

relayOnly == <<published, quarantined, attempts, claim, relay>>
floorOnly == <<up, chan, mark, task, delivered, behind, lost>>
streamOnly == <<durable, conn, queue, frames, handed, wasLive>>
pipelineVars == <<nextId, home, link, open, log, sent, faults,
                  relayOnly, floorOnly, streamOnly>>

PipelineInit == Init /\ FloorInit /\ StreamInit

\* A publish sends the NOTIFY; one that fails may have sent it.
RelayNotifies(r, i) ==
  \/ Publish(r, i) /\ Point(i)
  \/ PublishFails(r, i) /\ sent' = sent \cup {i} /\ Point(i)
  \/ PublishFails(r, i) /\ sent' = sent /\ UNCHANGED floorOnly

\* Statements on the outbox, which no listener sees.
OutboxStep ==
  \/ \E r \in Relays :
       \/ ClaimPending(r) \/ RecordAttempt(r) \/ Quarantine(r) \/ MarkPublished(r)
       \/ EmptyTick(r) \/ Abort(r)
  \/ \E i \in Ids : Lapse(i) \/ ReplayQuarantined(i)

RelayMoves ==
  \/ Write /\ Overtake
  \/ \E r \in Relays, i \in Ids : RelayNotifies(r, i)
  \/ OutboxStep /\ UNCHANGED floorOnly

\* A live connection gets what the listener of its replica has published.
BusBrings == \E n \in Nodes : \E i \in delivered[n] : ForwardEvent(i)

PipelineNext ==
  \/ RelayMoves /\ UNCHANGED streamOnly
  \/ (\E n \in Nodes : ListenerStep(n)) /\ UNCHANGED <<relayOnly, streamOnly>>
  \/ (ConnectionStep \/ BusBrings) /\ UNCHANGED <<relayOnly, floorOnly>>

PipelineSpec == PipelineInit /\ [][PipelineNext]_pipelineVars
-----------------------------------------------------------------------------
\* An outbox row that is marked published is not relayed again, so the mark is
\* a promise to every replica: the event was published there, is above what
\* the replica has read, has a pointer to come, or is in the one gap the floor
\* leaves, having committed behind the replica and lost its pointer.
MarkedReachesReplicas ==
  \A n \in Nodes : Listening(n) =>
    \A i \in published \ Undecodable :
      \/ i \in delivered[n]
      \/ i > Horizon(n)
      \/ i \in Range(chan[n]) \cup {task[n].ptr}
      \/ i \in behind[n] \cap lost[n]
=============================================================================
