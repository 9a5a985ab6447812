---------------------------- MODULE EgressOutbox ----------------------------
(***************************************************************************)
(* maidan_egress_outbox: rows bound for an external surface, claimed under *)
(* a lease, delivered, retried, dead-lettered, requeued                    *)
(* (maidan-store/src/postgres/egress_outbox.rs).  The mail and web-push    *)
(* outboxes follow the same protocol.                                      *)
(*                                                                         *)
(* A row is pending, delivered or dead.  due abstracts next_attempt_at:    *)
(* a claim, a retry and a deferral set it in the future and DueAgain is    *)
(* the clock passing it.  No statement but the claim looks at the lease,   *)
(* so what a worker writes after its lease passed takes effect.            *)
(***************************************************************************)
EXTENDS Naturals

CONSTANTS
  Keys,         \* source_log_id of the rows of one target: event ids, replay ids
  MaxAttempts   \* egress_worker.rs MAX_ATTEMPTS

ASSUME OutboxConstants == MaxAttempts \in Nat \ {0}

VARIABLE queue  \* maidan_egress_outbox, of one thread and target

Absent == [status |-> "absent", attempts |-> 0, due |-> FALSE]

OutboxInit == queue = [k \in Keys |-> Absent]

\* enqueue: ON CONFLICT (source_log_id, surface, selector) DO NOTHING.
EnqueueEgress(k) ==
  queue' = IF queue[k] = Absent
           THEN [queue EXCEPT ![k] = [status |-> "pending", attempts |-> 0, due |-> TRUE]]
           ELSE queue

\* Mutant: rows whose attempts are used up are passed by.
IsDueInLimit(k) ==
  queue[k].status = "pending" /\ queue[k].due /\ queue[k].attempts < MaxAttempts

IsDue(k) == queue[k].status = "pending" /\ queue[k].due

\* claim_next_due, of any due row.
ClaimDue(k) ==
  /\ IsDue(k)
  /\ queue' = [queue EXCEPT ![k] = [@ EXCEPT !.attempts = queue[k].attempts + 1,
                                               !.due = FALSE]]

MarkEgressDelivered(k) == queue' = [queue EXCEPT ![k].status = "delivered"]

\* Mutant: a row out of attempts is scheduled again.
ExhaustedNever(attempts) == FALSE
\* record_failure: the attempts are used up.
Exhausted(attempts) == attempts >= MaxAttempts

\* mark_failed: a time to retry at makes the row pending, whatever it was.
MarkEgressFailed(k, dead) ==
  queue' = [queue EXCEPT ![k] = IF dead THEN [@ EXCEPT !.status = "dead"]
                                ELSE [@ EXCEPT !.status = "pending", !.due = FALSE]]

\* defer gives the attempt back and leaves a settled row alone.
DeferEgress(k) ==
  queue' = IF queue[k].status = "pending"
           THEN LET a == queue[k].attempts IN
                [queue EXCEPT ![k] = [@ EXCEPT !.attempts = IF a = 0 THEN 0 ELSE a - 1,
                                               !.due = FALSE]]
           ELSE queue

RequeueDead(k) ==
  /\ queue[k].status = "dead"
  /\ queue' = [queue EXCEPT ![k] = [status |-> "pending", attempts |-> 0, due |-> TRUE]]

DueAgain(k) ==
  /\ queue[k].status = "pending"
  /\ ~ queue[k].due
  /\ queue' = [queue EXCEPT ![k].due = TRUE]

OutboxRows == [status : {"absent", "pending", "delivered", "dead"}, attempts : Nat,
               due : BOOLEAN]

OutboxTypeOK == queue \in [Keys -> OutboxRows]
=============================================================================
