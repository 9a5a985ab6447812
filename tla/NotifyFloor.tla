---------------------------- MODULE NotifyFloor -----------------------------
(***************************************************************************)
(* The self-healing floor under the Postgres listener of a replica:        *)
(* crates/maidan-bus/src/notify_floor.rs and the listener loop of          *)
(* crates/maidan-bus/src/postgres.rs, over any feed of announcements.      *)
(* Each log read is a step of its own, so transactions commit, pointers    *)
(* arrive and connections drop between the pages of a drain and before the *)
(* pointer's own event is read.                                            *)
(*                                                                         *)
(* The connection is the driver's: it may lose what it has not handed over *)
(* and reconnect by itself, or report an error first, which the loop       *)
(* answers with a drain before it listens again.                           *)
(***************************************************************************)
EXTENDS EventFeed, FiniteSets, Sequences, Functions

CONSTANTS
  Nodes,         \* replicas with a listener
  PageSize,      \* BACKFILL_BATCH
  Undecodable,   \* events whose payload cannot be opened
  MaxQueue       \* bound: pointers on their way to one replica

ASSUME FloorConstants ==
  /\ PageSize \in Nat \ {0}
  /\ Undecodable \subseteq Ids
  /\ MaxQueue \in Nat

VARIABLES
  up,          \* up[n]: the listener's connection stands
  chan,        \* chan[n]: pointers on their way to n, oldest first
  mark,        \* mark[n]: last_seen
  task,        \* task[n]: what the listener task is doing
  delivered,   \* delivered[n]: ids n published on its local bus, or had at its start
  behind,      \* history: ids that committed after n had read past them
  lost         \* history: ids with a pointer lost to n, or read in vain

nodeVars == <<up, chan, mark, task, delivered>>
floorVars == <<nextId, home, link, open, log, sent,
          up, chan, mark, task, delivered, behind, lost, faults>>

\* pc: "off", "starting" (LISTEN is up, the head not read), "recv", "drain" up
\* to the pointer ptr (all of the log when ptr = 0), "get" the pointer's event.
\* covered: everything up to here was read, or had not committed when it was.
Off == [pc |-> "off", ptr |-> 0, covered |-> 0]
Receiving == [pc |-> "recv", ptr |-> 0, covered |-> 0]

FloorInit ==
  /\ FeedInit
  /\ up = [n \in Nodes |-> FALSE]
  /\ chan = [n \in Nodes |-> <<>>]
  /\ mark = [n \in Nodes |-> 0]
  /\ task = [n \in Nodes |-> Off]
  /\ delivered = [n \in Nodes |-> {}]
  /\ behind = [n \in Nodes |-> {}]
  /\ lost = [n \in Nodes |-> {}]

Greater(a, b) == IF a < b THEN b ELSE a

\* How far n has read; an id that commits at or below it is not read again.
Horizon(n) == Greater(mark[n], task[n].covered)

\* A commit at or below what a replica has read overtakes it.
Overtake ==
  /\ behind' = [n \in Nodes |->
                 behind[n] \cup {i \in log' \ log : i <= Horizon(n)}]
  /\ UNCHANGED <<nodeVars, lost>>

FloorWrite == LogNext /\ Overtake /\ UNCHANGED <<sent, faults>>

\* NOTIFY: every connection that stands gets the pointer.
Point(i) ==
  /\ \A n \in Nodes : Len(chan[n]) < MaxQueue
  /\ chan' = [n \in Nodes |-> IF up[n] THEN chan[n] \o <<i>> ELSE chan[n]]
  /\ lost' = [n \in Nodes |-> IF up[n] THEN lost[n] ELSE lost[n] \cup {i}]
  /\ UNCHANGED <<up, mark, task, delivered, behind>>

\* A relay announces an event.
Notify(i) == Announce(i) /\ Point(i) /\ UNCHANGED faults
-----------------------------------------------------------------------------
\* connect_with: LISTEN first, then NotifyFloor::start reads the head.
Listen(n) ==
  /\ task[n].pc = "off"
  /\ up' = [up EXCEPT ![n] = TRUE]
  /\ task' = [task EXCEPT ![n].pc = "starting"]
  /\ UNCHANGED <<feedVars, chan, mark, delivered, behind, lost, faults>>

Start(n) ==
  /\ task[n].pc = "starting"
  /\ \E head \in log \cup {0} :
       /\ \A i \in log : i <= head
       /\ mark' = [mark EXCEPT ![n] = head]
  /\ delivered' = [delivered EXCEPT ![n] = log]
  /\ task' = [task EXCEPT ![n] = Receiving]
  /\ UNCHANGED <<feedVars, up, chan, behind, lost, faults>>

\* on_pointer up to its first read.
OnPointer(n) ==
  LET i == Head(chan[n])
  IN  /\ task[n].pc = "recv" /\ chan[n] # <<>>
      /\ chan' = [chan EXCEPT ![n] = Tail(@)]
      /\ task' = [task EXCEPT ![n] =
                    [pc |-> IF i > mark[n] + 1 THEN "drain" ELSE "get",
                     ptr |-> i, covered |-> mark[n]]]
      /\ UNCHANGED <<feedVars, up, mark, delivered, behind, lost, faults>>

\* The loop's answer to an error of recv: on_reconnect.
OnReconnect(n) ==
  /\ task[n].pc = "recv" /\ ~up[n]
  /\ task' = [task EXCEPT ![n] = [pc |-> "drain", ptr |-> 0, covered |-> mark[n]]]
  /\ UNCHANGED <<feedVars, up, chan, mark, delivered, behind, lost, faults>>

\* page_after: the first PageSize committed ids above the cursor.
Page(cursor) ==
  {i \in log : /\ i > cursor
               /\ Cardinality({j \in log : cursor < j /\ j < i}) < PageSize}

\* The end of a drain that reached `covered`: a pointer goes on to its own
\* event, a reconnect moves the mark and listens again.
Drained(n, covered) ==
  IF task[n].ptr = 0
  THEN /\ mark' = [mark EXCEPT ![n] = covered]
       /\ task' = [task EXCEPT ![n] = Receiving]
  ELSE /\ task' = [task EXCEPT ![n].pc = "get", ![n].covered = covered]
       /\ UNCHANGED mark

\* Mutant: a drain that stopped on an error counts as complete.
StoppedComplete(n) == Drained(n, task[n].ptr - 1)

\* The query fails: what was read so far is all that is covered.
Stopped(n) == Drained(n, task[n].covered)

\* One turn of drain's loop: read a page, publish it up to the pointer.
DrainPage(n) ==
  LET ptr  == task[n].ptr
      page == Page(task[n].covered)
      take == {i \in page : ptr = 0 \/ i < ptr}
      top  == CHOOSE i \in take \cup {task[n].covered} : \A j \in take : j <= i
      over == take # page \/ Cardinality(page) < PageSize
  IN  /\ task[n].pc = "drain"
      /\ \/ /\ delivered' = [delivered EXCEPT ![n] = @ \cup (take \ Undecodable)]
            /\ IF over
               THEN Drained(n, IF ptr = 0 THEN top ELSE ptr - 1)
               ELSE task' = [task EXCEPT ![n].covered = top] /\ UNCHANGED mark
            /\ UNCHANGED faults
         \/ Fault /\ Stopped(n) /\ UNCHANGED delivered
      /\ UNCHANGED <<feedVars, up, chan, behind, lost>>

\* The mark moves to the pointer only when nothing below it is missing.
Reached(n, ok) ==
  IF ok /\ task[n].covered >= task[n].ptr - 1
  THEN Greater(task[n].covered, task[n].ptr)
  ELSE task[n].covered

\* The rest of on_pointer: read the pointer's own event, also one below the
\* mark, and move the mark.
Hydrate(n) ==
  LET i == task[n].ptr
      Finish(ok) ==
        /\ mark' = [mark EXCEPT ![n] = Greater(@, Reached(n, ok))]
        /\ task' = [task EXCEPT ![n] = Receiving]
  IN  /\ task[n].pc = "get"
      /\ \/ /\ i \notin Undecodable
            /\ delivered' = [delivered EXCEPT ![n] = @ \cup {i}]
            /\ Finish(TRUE)
            /\ UNCHANGED <<lost, faults>>
         \/ /\ (i \in Undecodable /\ UNCHANGED faults) \/ Fault
            /\ lost' = [lost EXCEPT ![n] = @ \cup {i}]
            /\ Finish(FALSE)
            /\ UNCHANGED delivered
      /\ UNCHANGED <<feedVars, up, chan, behind>>

\* The connection breaks, with whatever it has not handed over.
Disconnect(n) ==
  /\ up[n]
  /\ Fault
  /\ up' = [up EXCEPT ![n] = FALSE]
  /\ chan' = [chan EXCEPT ![n] = <<>>]
  /\ lost' = [lost EXCEPT ![n] = @ \cup Range(chan[n])]
  /\ UNCHANGED <<feedVars, mark, task, delivered, behind>>

\* recv listens again.
Relisten(n) ==
  /\ ~up[n] /\ task[n].pc = "recv"
  /\ up' = [up EXCEPT ![n] = TRUE]
  /\ UNCHANGED <<feedVars, chan, mark, task, delivered, behind, lost, faults>>

\* The listener's own probe, sent when it looks degraded, is dropped.
Probe(n) ==
  /\ up[n] /\ task[n].pc = "recv"
  /\ UNCHANGED floorVars

ListenerStep(n) ==
  \/ Listen(n) \/ Start(n)
  \/ OnPointer(n) \/ DrainPage(n) \/ Hydrate(n)
  \/ OnReconnect(n) \/ Disconnect(n) \/ Relisten(n) \/ Probe(n)

FloorNext ==
  \/ FloorWrite
  \/ \E i \in Ids : Notify(i)
  \/ \E n \in Nodes : ListenerStep(n)

FloorSpec == FloorInit /\ [][FloorNext]_floorVars
-----------------------------------------------------------------------------
FloorTypeOK ==
  /\ LogTypeOK
  /\ sent \in SUBSET Ids
  /\ up \in [Nodes -> BOOLEAN]
  /\ \A n \in Nodes : Range(chan[n]) \subseteq Ids
  /\ mark \in [Nodes -> 0..MaxId]
  /\ task \in [Nodes -> [pc : {"off", "starting", "recv", "drain", "get"},
                         ptr : 0..MaxId, covered : 0..MaxId]]
  /\ delivered \in [Nodes -> SUBSET Ids]
  /\ behind \in [Nodes -> SUBSET Ids]
  /\ lost \in [Nodes -> SUBSET Ids]

Listening(n) == task[n].pc \notin {"off", "starting"}

\* A replica misses a committed event only in the gap the module names: the
\* event committed when the replica had read past its id, and its pointer was
\* lost or read in vain.  Every other event was delivered, is above what was
\* read (so the next pointer or reconnect drains it), or has a pointer to come.
OnlyLateLossesMissed ==
  \A n \in Nodes : Listening(n) =>
    \A i \in log \ Undecodable :
      \/ i \in delivered[n]
      \/ i > Horizon(n)
      \/ i \notin sent
      \/ i \in Range(chan[n]) \cup {task[n].ptr}
      \/ i \in behind[n] \cap lost[n]

\* What a replica publishes on its local bus has committed, though pointers,
\* drains and commits of several sessions interleave: the readers of the bus
\* rest on this.
PublishesCommitted == \A n \in Nodes : delivered[n] \subseteq log

\* A listener never goes back: neither last_seen nor what it has read past is
\* ever moved down by a drain that stops half way, a pointer below the mark, a
\* reconnect or an event that cannot be read.
NeverReadsBack ==
  [][\A n \in Nodes : mark[n] <= mark'[n] /\ Horizon(n) <= Horizon(n)']_floorVars
=============================================================================
