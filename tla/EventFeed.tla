----------------------------- MODULE EventFeed ------------------------------
(***************************************************************************)
(* What the bus may expect of the outbox and its relays: a committed event *)
(* is announced some time after its commit, any number of times and in any *)
(* order, and nothing else is ever announced.  OutboxRelay implements this *)
(* feed; NotifyFloor and EventStreams are written over it.                 *)
(***************************************************************************)
EXTENDS EventLog

VARIABLE sent   \* ids of the events that have been announced at least once

feedVars == <<nextId, home, link, open, log, sent>>

FeedInit == LogInit /\ sent = {}

Announce(i) ==
  /\ i \in log
  /\ sent' = sent \cup {i}
  /\ UNCHANGED logVars

FeedNext ==
  \/ LogNext /\ UNCHANGED sent
  \/ \E i \in Ids : Announce(i)

FeedSpec == FeedInit /\ [][FeedNext]_feedVars
=============================================================================
