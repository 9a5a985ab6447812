---------------------------- MODULE OutboxRelay -----------------------------
(***************************************************************************)
(* The transactional outbox (crates/maidan-store/src/postgres/outbox.rs)   *)
(* and the relays that drain it (crates/maidan-server/src/outbox_relay.rs, *)
(* one in every replica).  A tick of a relay is several statements: claim  *)
(* a batch under a lease, publish row by row, count and quarantine what    *)
(* fails, mark what was published.  Another relay, an operator, a crash, a *)
(* store error or the end of the lease may come between any two of them.   *)
(*                                                                         *)
(* Attempts are only compared with the maximum, so they stop counting      *)
(* there.  Rows of different transactions may be enqueued in either order, *)
(* so a claim takes any full batch of what it may claim.                   *)
(***************************************************************************)
EXTENDS EventFeed, FiniteSets

CONSTANTS
  Relays,        \* the relay of each replica
  Batch,         \* BATCH: rows one tick claims
  MaxAttempts    \* max_attempts before a row is quarantined

ASSUME RelayConstants ==
  /\ Batch \in Nat \ {0}
  /\ MaxAttempts \in Nat \ {0}

VARIABLES
  published,     \* rows with published_at
  quarantined,   \* rows with quarantined_at
  attempts,      \* attempts[i]
  claim,         \* claim[i]: claimed_at is NULL ("free"), recent or past its lease
  relay          \* relay[r]: where the tick of relay r stands

outboxVars == <<published, quarantined, attempts, claim>>
vars == <<nextId, home, link, open, log, sent, faults,
          published, quarantined, attempts, claim, relay>>

\* pc: "idle", "relaying" the rows of todo, "failing" at the row in hand (its
\* attempt not yet counted), "counted" out of attempts (not yet quarantined).
Idle == [pc |-> "idle", todo |-> {}, done |-> {}, hand |-> 0]

Init ==
  /\ FeedInit
  /\ published = {}
  /\ quarantined = {}
  /\ attempts = [i \in Ids |-> 0]
  /\ claim = [i \in Ids |-> "free"]
  /\ relay = [r \in Relays |-> Idle]

\* enqueue_in_tx puts the outbox row beside the event, in its transaction.
Rows == log

\* RELAYABLE.
Relayable(i) == i \in Rows /\ i \notin published /\ i \notin quarantined

Write ==
  /\ LogNext
  /\ UNCHANGED <<published, quarantined, attempts, claim, relay, sent, faults>>
-----------------------------------------------------------------------------
\* Mutant: a claim takes rows of transactions that have not committed.
ClaimableDirty(i) ==
  /\ i \in 1..nextId
  /\ i \notin published /\ i \notin quarantined
  /\ claim[i] # "live"

\* Mutant: a claimed row stays claimed although its lease is over.
ClaimableUnleased(i) == Relayable(i) /\ claim[i] = "free"

Claimable(i) == Relayable(i) /\ claim[i] # "live"

\* claim_pending: a full batch of claimable rows, or all there are.
ClaimPending(r) ==
  LET ready == {i \in Ids : Claimable(i)}
  IN  /\ relay[r].pc = "idle"
      /\ \E batch \in SUBSET ready \ {{}} :
           /\ Cardinality(batch) <= Batch
           /\ Cardinality(batch) < Batch => batch = ready
           /\ claim' = [i \in Ids |-> IF i \in batch THEN "live" ELSE claim[i]]
           /\ relay' = [relay EXCEPT ![r] = [pc |-> "relaying", todo |-> batch,
                                             done |-> {}, hand |-> 0]]
      /\ UNCHANGED <<logVars, published, quarantined, attempts, sent, faults>>

\* A tick that finds nothing to claim; run sleeps and tries again.
EmptyTick(r) ==
  /\ relay[r].pc = "idle" /\ \A i \in Ids : ~Claimable(i)
  /\ UNCHANGED vars

\* relay_one: the payload opens and the bus takes the event.
Publish(r, i) ==
  /\ relay[r].pc = "relaying" /\ i \in relay[r].todo
  /\ sent' = sent \cup {i}
  /\ relay' = [relay EXCEPT ![r].todo = @ \ {i}, ![r].done = @ \cup {i}]
  /\ UNCHANGED <<logVars, outboxVars, faults>>

\* relay_one fails.  The NOTIFY of a call whose answer was lost did go out.
PublishFails(r, i) ==
  /\ relay[r].pc = "relaying" /\ i \in relay[r].todo
  /\ Fault
  /\ sent' \in {sent, sent \cup {i}}
  /\ relay' = [relay EXCEPT ![r].pc = "failing", ![r].todo = @ \ {i}, ![r].hand = i]
  /\ UNCHANGED <<logVars, outboxVars>>

\* record_attempt counts the attempt and returns the row to the pool.
RecordAttempt(r) ==
  LET i == relay[r].hand
      n == IF attempts[i] < MaxAttempts THEN attempts[i] + 1 ELSE MaxAttempts
  IN  /\ relay[r].pc = "failing"
      /\ attempts' = [attempts EXCEPT ![i] = n]
      /\ claim' = [claim EXCEPT ![i] = "free"]
      /\ relay' = [relay EXCEPT ![r].pc =
                     IF n >= MaxAttempts THEN "counted" ELSE "relaying"]
      /\ UNCHANGED <<logVars, published, quarantined, sent, faults>>

\* quarantine; when it fails the tick goes on and the row stays pending.
Quarantine(r) ==
  /\ relay[r].pc = "counted"
  /\ relay' = [relay EXCEPT ![r].pc = "relaying"]
  /\ \/ quarantined' = quarantined \cup {relay[r].hand} /\ UNCHANGED faults
     \/ Fault /\ UNCHANGED quarantined
  /\ UNCHANGED <<logVars, published, attempts, claim, sent>>

\* Mutant: the row in hand is marked with the batch, failed or not.
MarkedAll(r) == relay[r].done \cup {relay[r].hand}

Marked(r) == relay[r].done

\* mark_published_batch, the end of the tick.
MarkPublished(r) ==
  /\ relay[r].pc = "relaying" /\ relay[r].todo = {}
  /\ published' = published \cup Marked(r)
  /\ relay' = [relay EXCEPT ![r] = Idle]
  /\ UNCHANGED <<logVars, quarantined, attempts, claim, sent, faults>>

\* The replica dies, or record_attempt or mark_published_batch fails and the
\* tick returns early: what it published is not marked.
Abort(r) ==
  /\ relay[r].pc # "idle"
  /\ Fault
  /\ relay' = [relay EXCEPT ![r] = Idle]
  /\ UNCHANGED <<logVars, outboxVars, sent>>

\* CLAIM_LEASE_SECS have passed since the claim; its relay may still be at work.
Lapse(i) ==
  /\ claim[i] = "live"
  /\ claim' = [claim EXCEPT ![i] = "lapsed"]
  /\ UNCHANGED <<logVars, published, quarantined, attempts, relay, sent, faults>>

\* replay_quarantined, an operator's call.
ReplayQuarantined(i) ==
  /\ i \in quarantined /\ i \notin published
  /\ quarantined' = quarantined \ {i}
  /\ attempts' = [attempts EXCEPT ![i] = 0]
  /\ UNCHANGED <<logVars, published, claim, relay, sent, faults>>
-----------------------------------------------------------------------------
Tick(r) ==
  \/ ClaimPending(r)
  \/ \E i \in Ids : Publish(r, i)
  \/ RecordAttempt(r)
  \/ Quarantine(r)
  \/ MarkPublished(r)

Next ==
  \/ Write
  \/ \E r \in Relays :
       Tick(r) \/ EmptyTick(r) \/ Abort(r) \/ \E i \in Ids : PublishFails(r, i)
  \/ \E i \in Ids : Lapse(i) \/ ReplayQuarantined(i)

\* run ticks for ever and a lease ends.
Fairness ==
  /\ \A r \in Relays : WF_vars(Tick(r))
  /\ \A i \in Ids : WF_vars(Lapse(i))

Spec == Init /\ [][Next]_vars
-----------------------------------------------------------------------------
TypeOK ==
  /\ LogTypeOK
  /\ published \in SUBSET Ids
  /\ quarantined \in SUBSET Ids
  /\ attempts \in [Ids -> 0..MaxAttempts]
  /\ claim \in [Ids -> {"free", "live", "lapsed"}]
  /\ relay \in [Relays -> [pc : {"idle", "relaying", "failing", "counted"},
                           todo : SUBSET Ids, done : SUBSET Ids, hand : 0..MaxId]]
  /\ sent \in SUBSET Ids

\* An outbox row marked published was announced: neither a crash between the
\* publish and the mark, nor a relay that outlived its lease, nor a row of the
\* batch that failed, marks an event nobody was told of.
MarkedWasSent == published \subseteq sent

\* Every committed event is announced or quarantined in the end, whatever
\* relays crash, fail or overlap (finitely often).
EveryEventLeaves ==
  \A i \in Ids : (i \in log) ~> (i \in published \cup quarantined)

\* The outbox and its relays are a feed: they announce committed events only,
\* one at a time, and leave the log alone.
ImplementsFeed == FeedSpec
=============================================================================
