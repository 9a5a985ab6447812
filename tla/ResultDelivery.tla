--------------------------- MODULE ResultDelivery ---------------------------
(***************************************************************************)
(* How a thread's result reaches one external target: the router of every  *)
(* replica arms the delivery row and queues a send                         *)
(* (maidan-server/src/result_delivery.rs, maidan-store/src/postgres/       *)
(* result_deliveries.rs), the egress workers send and record               *)
(* (maidan-server/src/egress_worker.rs), operators replay and requeue      *)
(* (maidan-store/src/result_delivery.rs).  The target is a comment on a    *)
(* GitHub pull request, edited in place by its stored handle.              *)
(*                                                                         *)
(* The n-th result has revision n (its produced_at) and its event log id   *)
(* n.  Every replica routes every event, late or more than once.  Which    *)
(* way the router decides (allowed, skipped, no sender) is left open.      *)
(* Comments are not deleted on GitHub; inline reviews, check runs, audit,  *)
(* alerts and metrics are left out.                                        *)
(***************************************************************************)
EXTENDS EgressOutbox, Sequences, FiniteSets

CONSTANTS
  MaxRevision,   \* results set on the thread
  MaxReplays,    \* operator replays
  Routers,       \* notification routers, one per replica
  Workers,       \* egress workers, one per replica
  MaxFaults      \* crashes, failed statements, lost answers, lapsed leases, deferrals

ASSUME DeliveryConstants ==
  /\ MaxRevision \in Nat
  /\ MaxReplays \in Nat
  /\ MaxFaults \in Nat
  /\ Keys = 1 .. (MaxRevision + MaxReplays)
  /\ IsFiniteSet(Workers)

VARIABLES
  revision,   \* produced_at of the thread's current result, 0 for none
  delivery,   \* the maidan_result_deliveries row
  router,     \* what each router is doing
  worker,     \* what each worker is doing
  replays,    \* the operator's replay
  comments,   \* the comments on GitHub, each the revision its text shows
  faults,
  dropped,    \* history: a fault ended a delivery between two of its statements
  crossed     \* history: a router armed a revision under an older event's id

deliveryVars == <<queue, revision, delivery, router, worker, replays, comments,
                  faults, dropped, crossed>>

NoRow == [status |-> "none", ref |-> 0, armed |-> 0, landed |-> 0]
\* A router's work on one event, and a worker's on one row.
Trip(pc, log, rev) == [pc |-> pc, log |-> log, rev |-> rev, how |-> "send"]
Job(pc, k, n, ref, outcome) ==
  [pc |-> pc, key |-> k, attempts |-> n, ref |-> ref, outcome |-> outcome,
   known |-> FALSE, body |-> 0, armed |-> 0]
RouterIdle == Trip("idle", 0, 0)
WorkerIdle == Job("idle", 0, 0, 0, "none")

\* What a worker keeps of its claim once the send has its outcome.
After(t, outcome, ref) == Job("sent", t.key, t.attempts, ref, outcome)

DeliveryInit ==
  /\ OutboxInit
  /\ revision = 0
  /\ delivery = NoRow
  /\ router = [r \in Routers |-> RouterIdle]
  /\ worker = [w \in Workers |-> WorkerIdle]
  /\ replays = [made |-> 0, open |-> FALSE]
  /\ comments = <<>>
  /\ faults = 0
  /\ dropped = FALSE
  /\ crossed = FALSE

DeliveryFault == faults < MaxFaults /\ faults' = faults + 1

-----------------------------------------------------------------------------
(* Arming. *)

SetResult ==
  /\ revision < MaxRevision
  /\ revision' = revision + 1
  /\ UNCHANGED <<queue, delivery, router, worker, replays, comments, faults,
                 dropped, crossed>>

\* A router done with an event; log stays the last event it took.
Done(t) == Trip("idle", t.log, 0)

\* route_thread_result on the event with log id e: the result on the thread now.
FetchResult(r, e) ==
  /\ router[r].pc = "idle"
  /\ e \in 1 .. revision
  /\ router' = [router EXCEPT ![r] = Trip("route", e, revision)]
  /\ UNCHANGED <<queue, revision, delivery, worker, replays, comments, faults,
                 dropped, crossed>>

\* Mutant: every router of an event arms it.
NewerAny(rev) == TRUE
\* The condition of arm_at's upsert.
Newer(rev) == delivery = NoRow \/ rev > delivery.armed

\* route_one up to the arming: how is what it then does with a row it won.
Arm(r, how) ==
  LET t == router[r] IN
  /\ t.pc = "route"
  /\ IF Newer(t.rev)
     THEN /\ delivery' = [delivery EXCEPT !.status = "pending", !.armed = t.rev]
          /\ router' = [router EXCEPT ![r] = [@ EXCEPT !.pc = "won", !.how = how]]
          /\ crossed' = (crossed \/ t.log # t.rev)
     ELSE /\ router' = [router EXCEPT ![r] = Done(@)]
          /\ UNCHANGED <<delivery, crossed>>
  /\ UNCHANGED <<queue, revision, worker, replays, comments, faults, dropped>>

\* enqueue_routable, record_skip and record_unconfigured after the arming.
FinishRoute(r) ==
  LET t == router[r] IN
  /\ t.pc = "won"
  /\ \/ t.how = "send" /\ EnqueueEgress(t.log) /\ UNCHANGED delivery
     \/ /\ t.how # "send"
        /\ delivery' = [delivery EXCEPT !.status = t.how]
        /\ UNCHANGED queue
  /\ router' = [router EXCEPT ![r] = Done(@)]
  /\ UNCHANGED <<revision, worker, replays, comments, faults, dropped, crossed>>

\* The replica stops, or the store fails: "target failed; continuing".
RouterFails(r) ==
  /\ router[r].pc # "idle"
  /\ DeliveryFault
  /\ dropped' = (dropped \/ router[r].pc = "won")
  /\ router' = [router EXCEPT ![r] = Done(@)]
  /\ UNCHANGED <<queue, revision, delivery, worker, replays, comments, crossed>>

-----------------------------------------------------------------------------
(* Sending: the body of sweep_once's loop. *)

ClaimEgress(w) ==
  /\ worker[w].pc = "idle"
  /\ \E k \in Keys :
       /\ ClaimDue(k)
       /\ worker' = [worker EXCEPT ![w] = Job("claimed", k, queue[k].attempts + 1, 0, "none")]
  /\ UNCHANGED <<revision, delivery, router, replays, comments, faults,
                 dropped, crossed>>

\* A suspended or cut-off workspace, a spent retry budget.
Defer(w) ==
  /\ worker[w].pc = "claimed"
  /\ DeliveryFault
  /\ DeferEgress(worker[w].key)
  /\ worker' = [worker EXCEPT ![w] = WorkerIdle]
  /\ UNCHANGED <<revision, delivery, router, replays, comments, dropped, crossed>>

\* deliver_result: the delivery row, then the text of the result as it is now.
ReadResult(w) ==
  /\ worker[w].pc = "claimed"
  /\ worker' = [worker EXCEPT ![w] = [@ EXCEPT !.pc = "ready", !.body = revision,
                                                !.ref = delivery.ref,
                                                !.known = (delivery.landed > 0)]]
  /\ UNCHANGED <<queue, revision, delivery, router, replays, comments, faults,
                 dropped, crossed>>

\* deliver_github_result_comment: edit the stored comment, else (something has
\* landed before) find one by its marker, else post.
Target(t) ==
  IF t.ref > 0 THEN {t.ref}
  ELSE IF t.known /\ comments # <<>> THEN {1}
  ELSE {Len(comments) + 1}

Written(c, body) == [i \in 1 .. (IF c > Len(comments) THEN c ELSE Len(comments)) |->
                       IF i = c THEN body ELSE comments[i]]

\* The handle the send returns; GitHub may accept a post and give back no id.
Handles(c) == IF c > Len(comments) THEN {0, c} ELSE {c}

SendLands(w) ==
  LET t == worker[w] IN
  /\ t.pc = "ready"
  /\ \E c \in Target(t) :
       /\ comments' = Written(c, t.body)
       /\ \E ref \in Handles(c) : worker' = [worker EXCEPT ![w] = After(t, "landed", ref)]
  /\ UNCHANGED <<queue, revision, delivery, router, replays, faults, dropped, crossed>>

\* GitHub wrote it and the answer did not come back.
AnswerLost(w) ==
  LET t == worker[w] IN
  /\ t.pc = "ready"
  /\ DeliveryFault
  /\ \E c \in Target(t) : comments' = Written(c, t.body)
  /\ worker' = [worker EXCEPT ![w] = After(t, "failed", 0)]
  /\ UNCHANGED <<queue, revision, delivery, router, replays, dropped, crossed>>

\* An error to retry ("failed"), one no retry fixes ("misconfigured"), or a
\* refusal of the change flow or a notice ("refused").
SendFails(w, outcome) ==
  /\ worker[w].pc = "ready"
  /\ worker' = [worker EXCEPT ![w] = After(worker[w], outcome, 0)]
  /\ UNCHANGED <<queue, revision, delivery, router, replays, comments, faults,
                 dropped, crossed>>

GivesUp(t) == t.outcome = "misconfigured" \/ (t.outcome = "failed" /\ Exhausted(t.attempts))

\* The outbox row: mark_egress_delivered, dead_letter or record_failure.
MarkQueue(w) ==
  LET t == worker[w] IN
  /\ t.pc = "sent"
  /\ IF t.outcome \in {"landed", "refused"}
     THEN MarkEgressDelivered(t.key)
     ELSE MarkEgressFailed(t.key, GivesUp(t))
  /\ worker' = [worker EXCEPT ![w].pc = "marked"]
  /\ UNCHANGED <<revision, delivery, router, replays, comments, faults,
                 dropped, crossed>>

\* The same when the store fails: it is logged and the sweep goes on.
MarkQueueFails(w) ==
  /\ worker[w].pc = "sent"
  /\ DeliveryFault
  /\ worker' = [worker EXCEPT ![w].pc = "marked"]
  /\ UNCHANGED <<queue, revision, delivery, router, replays, comments,
                 dropped, crossed>>

\* record_result_*: first the row is read again.
ReadRow(w) ==
  /\ worker[w].pc = "marked"
  /\ worker' = [worker EXCEPT ![w] = [@ EXCEPT !.pc = "record", !.armed = delivery.armed]]
  /\ UNCHANGED <<queue, revision, delivery, router, replays, comments, faults,
                 dropped, crossed>>

\* mark_delivered, mark_skipped, mark_failed, note_retry, each by the row's id.
Recorded(t) ==
  CASE t.outcome = "landed"  -> [delivery EXCEPT !.status = "delivered", !.ref = t.ref,
                                                 !.landed = t.armed]
    [] t.outcome = "refused" -> [delivery EXCEPT !.status = "skipped"]
    [] GivesUp(t)            -> [delivery EXCEPT !.status = "failed"]
    [] OTHER                 -> delivery

RecordResult(w) ==
  /\ worker[w].pc = "record"
  /\ delivery' = Recorded(worker[w])
  /\ worker' = [worker EXCEPT ![w] = WorkerIdle]
  /\ UNCHANGED <<queue, revision, router, replays, comments, faults, dropped, crossed>>

\* The replica stops, or the store fails while the outcome is recorded.
WorkerFails(w) ==
  LET t == worker[w] IN
  /\ t.pc # "idle"
  /\ DeliveryFault
  /\ dropped' = (dropped \/ t.pc \in {"marked", "record"})
  /\ worker' = [worker EXCEPT ![w] = WorkerIdle]
  /\ UNCHANGED <<queue, revision, delivery, router, replays, comments, crossed>>

Working(k) == \E w \in Workers : worker[w].pc # "idle" /\ worker[w].key = k

\* The clock passes next_attempt_at of a row nobody works on,
PassTime(k) ==
  /\ DueAgain(k)
  /\ ~ Working(k)
  /\ UNCHANGED <<revision, delivery, router, worker, replays, comments, faults,
                 dropped, crossed>>

\* or of one whose worker takes longer than its lease.
LeaseLapses(k) ==
  /\ DueAgain(k)
  /\ Working(k)
  /\ DeliveryFault
  /\ UNCHANGED <<revision, delivery, router, worker, replays, comments,
                 dropped, crossed>>

\* A tick that claims nothing.
IdleTick(w) ==
  /\ worker[w].pc = "idle"
  /\ ~ \E k \in Keys : IsDue(k)
  /\ UNCHANGED deliveryVars

-----------------------------------------------------------------------------
(* The operator. *)

\* prepare_replay, and then enqueue_replay under a log id of its own.
PrepareReplay ==
  /\ delivery # NoRow
  /\ replays.made < MaxReplays
  /\ ~ replays.open
  /\ delivery' = [delivery EXCEPT !.status = "pending"]
  /\ replays' = [made |-> replays.made + 1, open |-> TRUE]
  /\ UNCHANGED <<queue, revision, router, worker, comments, faults, dropped, crossed>>

EnqueueReplay ==
  /\ replays.open
  /\ EnqueueEgress(MaxRevision + replays.made)
  /\ replays' = [made |-> replays.made, open |-> FALSE]
  /\ UNCHANGED <<revision, delivery, router, worker, comments, faults, dropped, crossed>>

ReplayFails ==
  /\ replays.open
  /\ DeliveryFault
  /\ dropped' = TRUE
  /\ replays' = [made |-> replays.made, open |-> FALSE]
  /\ UNCHANGED <<queue, revision, delivery, router, worker, comments, crossed>>

Requeue(k) ==
  /\ DeliveryFault
  /\ RequeueDead(k)
  /\ UNCHANGED <<revision, delivery, router, worker, replays, comments,
                 dropped, crossed>>

-----------------------------------------------------------------------------
RouterNext(r) ==
  \/ \E e \in 1 .. MaxRevision : FetchResult(r, e)
  \/ \E how \in {"send", "skipped", "failed"} : Arm(r, how)
  \/ FinishRoute(r)
  \/ RouterFails(r)

WorkerStep(w) ==
  \/ ClaimEgress(w) \/ ReadResult(w) \/ SendLands(w)
  \/ \E outcome \in {"failed", "misconfigured", "refused"} : SendFails(w, outcome)
  \/ MarkQueue(w) \/ ReadRow(w) \/ RecordResult(w)

DeliveryNext ==
  \/ SetResult
  \/ \E r \in Routers : RouterNext(r)
  \/ \E w \in Workers : WorkerStep(w)
  \/ \E w \in Workers : \/ Defer(w) \/ AnswerLost(w) \/ MarkQueueFails(w)
                        \/ WorkerFails(w) \/ IdleTick(w)
  \/ \E k \in Keys : PassTime(k) \/ LeaseLapses(k) \/ Requeue(k)
  \/ PrepareReplay \/ EnqueueReplay \/ ReplayFails

\* Workers tick for ever, a request ends (every sender has a timeout), the
\* clock passes every deadline.  Nothing is assumed of routers and operators.
DeliveryFairness ==
  /\ \A w \in Workers : WF_deliveryVars(WorkerStep(w))
  /\ \A k \in Keys : WF_deliveryVars(PassTime(k))

DeliverySpec == DeliveryInit /\ [][DeliveryNext]_deliveryVars

-----------------------------------------------------------------------------
DeliveryRows ==
  [status : {"none", "pending", "delivered", "skipped", "failed"}, ref : Nat,
   armed : 0 .. MaxRevision, landed : 0 .. MaxRevision]

RouterStates ==
  [pc : {"idle", "route", "won"}, log : 0 .. MaxRevision, rev : 0 .. MaxRevision,
   how : {"send", "skipped", "failed"}]

WorkerStates ==
  [pc : {"idle", "claimed", "ready", "sent", "marked", "record"}, key : Keys \cup {0},
   attempts : Nat, ref : Nat, known : BOOLEAN, body : 0 .. MaxRevision,
   outcome : {"none", "landed", "failed", "misconfigured", "refused"},
   armed : 0 .. MaxRevision]

DeliveryTypeOK ==
  /\ OutboxTypeOK
  /\ revision \in 0 .. MaxRevision
  /\ delivery \in DeliveryRows
  /\ router \in [Routers -> RouterStates]
  /\ worker \in [Workers -> WorkerStates]
  /\ replays \in [made : 0 .. MaxReplays, open : BOOLEAN]
  /\ comments \in Seq(1 .. MaxRevision)
  /\ faults \in 0 .. MaxFaults
  /\ dropped \in BOOLEAN
  /\ crossed \in BOOLEAN

\* Somebody will still move a pending delivery on: a router that won it, a
\* queued row, a worker that has its outcome to record, an open replay.
BeingDelivered ==
  \/ \E r \in Routers : router[r].pc = "won"
  \/ \E k \in Keys : queue[k].status = "pending"
  \/ \E w \in Workers : worker[w].pc \in {"marked", "record"}
  \/ replays.open

\* "Nothing is silently dropped" (docs/Result Delivery.md): a delivery shown as
\* pending is on its way.  The code breaks it.
PendingIsQueued == delivery.status = "pending" => BeingDelivered

\* When it holds: unless a fault came between two statements of one delivery,
\* or a router armed a revision under the id of an older event, a delivery the
\* status API shows as pending is on its way.
PendingUnlessCrossed == PendingIsQueued \/ dropped \/ crossed

\* A handle stored on the row is that of a comment GitHub has, so the next
\* revision can edit it, and a revision recorded as landed was armed.
HandleExists ==
  /\ delivery.ref <= Len(comments)
  /\ delivery.landed <= delivery.armed
  /\ delivery.landed > 0 => comments # <<>>

\* A target is not sent to for ever: a row is claimed more than MaxAttempts times
\* only as often as faults made it so, though failures are recorded by workers
\* that hold no lease any more and each may bring a dead row back.
AttemptsBounded == \A k \in Keys : queue[k].attempts <= MaxAttempts + faults

\* A queued row is delivered or dead-lettered in the end: attempts are counted by
\* the claim, so crashed and lapsed sends use them up as well.
RowsSettle ==
  \A k \in Keys : queue[k].status = "pending" ~> queue[k].status \in {"delivered", "dead"}
=============================================================================
