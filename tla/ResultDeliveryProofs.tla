------------------------ MODULE ResultDeliveryProofs ------------------------
(***************************************************************************)
(* Theorems about ResultDelivery and the outbox under it: types, handles,  *)
(* pending deliveries, and how often a row is claimed.                     *)
(***************************************************************************)
EXTENDS ResultDelivery, TLAPS

USE Zenon, SMTT(30)

-----------------------------------------------------------------------------
(* Sums that come up where claims are counted.                             *)

LEMMA LessSum ==
  ASSUME NEW q \in Nat, NEW c \in Nat, NEW o \in {0, 1}, NEW d \in Nat, NEW p \in {0, 1},
         NEW m \in Nat, NEW f \in Nat, q + c + o <= m + f, d + p <= c
  PROVE  q + d + p <= m + f
BY SMTT(30)

LEMMA LastSum ==
  ASSUME NEW m \in Nat, NEW c \in Nat, NEW r \in Nat, NEW f \in Nat, c <= r, r + 1 <= 1 + f
  PROVE  m + c + 0 <= m + f
BY SMTT(30)

LEMMA PaidSum ==
  ASSUME NEW c \in Nat, NEW d \in Nat, NEW p \in {0, 1}, d <= c, p = 0 \/ d = c - 1
  PROVE  d + p <= c
BY SMTT(30)

-----------------------------------------------------------------------------
(* What the outbox operations write.                                       *)

Row(k, s, a, d) == queue' = [queue EXCEPT ![k] = [status |-> s, attempts |-> a, due |-> d]]

LEMMA RowWritten ==
  ASSUME OutboxTypeOK, NEW k \in Keys, NEW s \in {"pending", "delivered", "dead"},
         NEW a \in Nat, NEW d \in BOOLEAN, Row(k, s, a, d)
  PROVE  /\ OutboxTypeOK'
         /\ queue'[k].status = s /\ queue'[k].attempts = a /\ queue'[k].due = d
         /\ queue'[k] # Absent
         /\ \A j \in Keys \ {k} : queue'[j] = queue[j]
BY DEF OutboxTypeOK, OutboxRows, Row, Absent

LEMMA KeptAttempts ==
  ASSUME OutboxTypeOK, NEW k \in Keys, NEW s \in {"pending", "delivered", "dead"},
         NEW d \in BOOLEAN, queue[k].attempts \in Nat, Row(k, s, queue[k].attempts, d)
  PROVE  /\ queue'[k].status = s /\ queue'[k].attempts = queue[k].attempts /\ queue'[k].due = d
         /\ \A j \in Keys \ {k} : queue'[j] = queue[j]
BY RowWritten, SMTT(30)

LEMMA RowFields ==
  ASSUME NEW q \in OutboxRows
  PROVE  /\ q.status \in {"absent", "pending", "delivered", "dead"}
         /\ q.attempts \in Nat /\ q.due \in BOOLEAN
         /\ q = [status |-> q.status, attempts |-> q.attempts, due |-> q.due]
BY DEF OutboxRows

LEMMA StatusUpdate ==
  ASSUME NEW q \in OutboxRows, NEW s \in {"pending", "delivered", "dead"}
  PROVE  [q EXCEPT !.status = s] = [status |-> s, attempts |-> q.attempts, due |-> q.due]
BY SMTT(30) DEF OutboxRows

LEMMA AttemptsUpdate ==
  ASSUME NEW q \in OutboxRows, NEW a \in Nat
  PROVE  [q EXCEPT !.attempts = a] = [status |-> q.status, attempts |-> a, due |-> q.due]
BY SMTT(30) DEF OutboxRows

LEMMA DueUpdate ==
  ASSUME NEW q \in OutboxRows, NEW d \in BOOLEAN
  PROVE  [q EXCEPT !.due = d] = [status |-> q.status, attempts |-> q.attempts, due |-> d]
BY SMTT(30) DEF OutboxRows

LEMMA RowUpdates ==
  ASSUME NEW q \in OutboxRows, NEW s \in {"pending", "delivered", "dead"}, NEW a \in Nat,
         NEW d \in BOOLEAN
  PROVE  /\ [q EXCEPT !.status = s, !.due = d]
              = [status |-> s, attempts |-> q.attempts, due |-> d]
         /\ [q EXCEPT !.attempts = a, !.due = d]
              = [status |-> q.status, attempts |-> a, due |-> d]
<1> DEFINE p == [status |-> s, attempts |-> q.attempts, due |-> q.due]
<1> DEFINE r == [status |-> q.status, attempts |-> a, due |-> q.due]
<1>1. p \in OutboxRows /\ r \in OutboxRows
  BY RowFields DEF OutboxRows
<1>2. [q EXCEPT !.status = s] = p /\ [q EXCEPT !.attempts = a] = r
  BY StatusUpdate, AttemptsUpdate
<1>3. [p EXCEPT !.due = d] = [status |-> s, attempts |-> q.attempts, due |-> d]
  BY <1>1, DueUpdate
<1>4. [r EXCEPT !.due = d] = [status |-> q.status, attempts |-> a, due |-> d]
  BY <1>1, DueUpdate
<1> QED
  BY <1>2, <1>3, <1>4

LEMMA RowType ==
  ASSUME OutboxTypeOK, NEW k \in Keys
  PROVE  queue[k] \in OutboxRows /\ queue \in [Keys -> OutboxRows]
BY DEF OutboxTypeOK

LEMMA ClaimRow ==
  ASSUME OutboxTypeOK, NEW k \in Keys, ClaimDue(k)
  PROVE  /\ queue[k].status = "pending" /\ queue[k].due
         /\ Row(k, "pending", queue[k].attempts + 1, FALSE)
<1>1. queue[k] \in OutboxRows /\ queue[k].attempts + 1 \in Nat
  BY RowType, RowFields, SMTT(30)
<1>2. [queue[k] EXCEPT !.attempts = queue[k].attempts + 1, !.due = FALSE]
        = [status |-> queue[k].status, attempts |-> queue[k].attempts + 1, due |-> FALSE]
  BY <1>1, RowUpdates
<1>3. queue[k].status = "pending" /\ queue[k].due
  BY DEF ClaimDue, IsDue
<1> QED
  BY <1>2, <1>3 DEF ClaimDue, Row

LEMMA DeliveredRow ==
  ASSUME OutboxTypeOK, NEW k \in Keys, MarkEgressDelivered(k)
  PROVE  Row(k, "delivered", queue[k].attempts, queue[k].due)
BY RowType, RowFields, StatusUpdate, DueUpdate, RowUpdates DEF MarkEgressDelivered, Row

LEMMA FailedRow ==
  ASSUME OutboxTypeOK, NEW k \in Keys, NEW dead \in BOOLEAN, MarkEgressFailed(k, dead)
  PROVE  IF dead THEN Row(k, "dead", queue[k].attempts, queue[k].due)
                 ELSE Row(k, "pending", queue[k].attempts, FALSE)
BY RowType, RowFields, StatusUpdate, DueUpdate, RowUpdates DEF MarkEgressFailed, Row

LEMMA DeferRow ==
  ASSUME OutboxTypeOK, NEW k \in Keys, DeferEgress(k)
  PROVE  \/ queue' = queue /\ queue[k].status # "pending"
         \/ /\ queue[k].status = "pending"
            /\ Row(k, "pending", IF queue[k].attempts = 0 THEN 0 ELSE queue[k].attempts - 1, FALSE)
<1> DEFINE a == IF queue[k].attempts = 0 THEN 0 ELSE queue[k].attempts - 1
<1>1. queue[k] \in OutboxRows /\ a \in Nat
  BY RowType, RowFields, SMTT(30)
<1>2. [queue[k] EXCEPT !.attempts = a, !.due = FALSE]
        = [status |-> queue[k].status, attempts |-> a, due |-> FALSE]
  BY <1>1, RowUpdates
<1>3. queue' = IF queue[k].status = "pending"
               THEN [queue EXCEPT ![k] = [queue[k] EXCEPT !.attempts = a, !.due = FALSE]]
               ELSE queue
  BY DEF DeferEgress
<1> HIDE DEF a
<1>4. \/ queue' = queue /\ queue[k].status # "pending"
      \/ queue[k].status = "pending" /\ Row(k, "pending", a, FALSE)
  BY <1>2, <1>3 DEF Row
<1> QED
  BY <1>4 DEF a

LEMMA DueRow ==
  ASSUME OutboxTypeOK, NEW k \in Keys, DueAgain(k)
  PROVE  /\ queue[k].status = "pending" /\ ~ queue[k].due
         /\ Row(k, "pending", queue[k].attempts, TRUE)
<1>1. [queue[k] EXCEPT !.due = TRUE]
        = [status |-> queue[k].status, attempts |-> queue[k].attempts, due |-> TRUE]
  BY RowType, DueUpdate
<1> QED
  BY <1>1 DEF DueAgain, Row

LEMMA EnqueueRow ==
  ASSUME NEW k \in Keys, EnqueueEgress(k)
  PROVE  IF queue[k] = Absent THEN Row(k, "pending", 0, TRUE) ELSE queue' = queue
BY DEF EnqueueEgress, Row

LEMMA RequeueRow ==
  ASSUME NEW k \in Keys, RequeueDead(k)
  PROVE  queue[k].status = "dead" /\ Row(k, "pending", 0, TRUE)
BY DEF RequeueDead, Row

-----------------------------------------------------------------------------
(* What the workers and the routers become.                                *)

LEMMA JobFields ==
  ASSUME NEW t \in WorkerStates
  PROVE  /\ t.pc \in {"idle", "claimed", "ready", "sent", "marked", "record"}
         /\ t.key \in Keys \cup {0} /\ t.attempts \in Nat /\ t.ref \in Nat
         /\ t.known \in BOOLEAN /\ t.body \in 0 .. MaxRevision /\ t.armed \in 0 .. MaxRevision
         /\ t.outcome \in {"none", "landed", "failed", "misconfigured", "refused"}
BY DEF WorkerStates

LEMMA JobType ==
  ASSUME NEW pc \in {"idle", "claimed", "ready", "sent", "marked", "record"},
         NEW k \in Keys \cup {0}, NEW a \in Nat, NEW ref \in Nat,
         NEW outcome \in {"none", "landed", "failed", "misconfigured", "refused"}
  PROVE  LET t == Job(pc, k, a, ref, outcome) IN
         /\ t \in WorkerStates
         /\ t.pc = pc /\ t.key = k /\ t.attempts = a /\ t.ref = ref /\ t.outcome = outcome
         /\ t.body = 0 /\ t.armed = 0
BY DeliveryConstants, SMTT(30) DEF Job, WorkerStates

LEMMA MarkedJob ==
  ASSUME NEW t \in WorkerStates, NEW pc \in {"ready", "marked", "record"}
  PROVE  LET u == [t EXCEPT !.pc = pc] IN
         /\ u \in WorkerStates
         /\ u.pc = pc /\ u.key = t.key /\ u.attempts = t.attempts /\ u.ref = t.ref
         /\ u.outcome = t.outcome /\ u.body = t.body /\ u.armed = t.armed
BY DEF WorkerStates

LEMMA RecordJob ==
  ASSUME NEW w \in Workers, worker[w] \in WorkerStates, delivery.armed \in 0 .. MaxRevision
  PROVE  LET t == worker[w]
             u == [t EXCEPT !.pc = "record", !.armed = delivery.armed] IN
         /\ u \in WorkerStates
         /\ u.pc = "record" /\ u.key = t.key /\ u.attempts = t.attempts /\ u.ref = t.ref
         /\ u.outcome = t.outcome /\ u.body = t.body /\ u.armed = delivery.armed
<1> DEFINE t == worker[w]
           p == [t EXCEPT !.pc = "record"]
           u == [p EXCEPT !.armed = delivery.armed]
<1>1. p \in WorkerStates /\ p.pc = "record" /\ p.key = t.key /\ p.attempts = t.attempts
      /\ p.ref = t.ref /\ p.outcome = t.outcome /\ p.body = t.body
  BY MarkedJob
<1> HIDE DEF p
<1>2. /\ u \in WorkerStates
      /\ u.pc = p.pc /\ u.key = p.key /\ u.attempts = p.attempts /\ u.ref = p.ref
      /\ u.outcome = p.outcome /\ u.body = p.body /\ u.armed = delivery.armed
  BY <1>1 DEF WorkerStates
<1>3. [t EXCEPT !.pc = "record", !.armed = delivery.armed] = u
  BY DEF p
<1> HIDE DEF u
<1> QED
  BY <1>1, <1>2, <1>3

LEMMA ReadyJob ==
  ASSUME NEW w \in Workers, worker[w] \in WorkerStates, revision \in 0 .. MaxRevision,
         delivery.ref \in Nat, (delivery.landed > 0) \in BOOLEAN
  PROVE  LET t == worker[w]
             u == [t EXCEPT !.pc = "ready", !.body = revision, !.ref = delivery.ref,
                            !.known = (delivery.landed > 0)] IN
         /\ u \in WorkerStates
         /\ u.pc = "ready" /\ u.key = t.key /\ u.attempts = t.attempts /\ u.ref = delivery.ref
         /\ u.outcome = t.outcome /\ u.body = revision /\ u.armed = t.armed
<1> DEFINE t == worker[w]
           p == [t EXCEPT !.pc = "ready"]
           q == [p EXCEPT !.body = revision]
           v == [q EXCEPT !.ref = delivery.ref]
           u == [v EXCEPT !.known = (delivery.landed > 0)]
<1>1. p \in WorkerStates /\ p.pc = "ready" /\ p.key = t.key /\ p.attempts = t.attempts
      /\ p.outcome = t.outcome /\ p.armed = t.armed
  BY MarkedJob
<1> HIDE DEF p
<1>2. q \in WorkerStates /\ q.pc = p.pc /\ q.key = p.key /\ q.attempts = p.attempts
      /\ q.outcome = p.outcome /\ q.armed = p.armed /\ q.body = revision
  BY <1>1 DEF WorkerStates
<1> HIDE DEF q
<1>3. v \in WorkerStates /\ v.pc = q.pc /\ v.key = q.key /\ v.attempts = q.attempts
      /\ v.outcome = q.outcome /\ v.armed = q.armed /\ v.body = q.body /\ v.ref = delivery.ref
  BY <1>2 DEF WorkerStates
<1> HIDE DEF v
<1>4. u \in WorkerStates /\ u.pc = v.pc /\ u.key = v.key /\ u.attempts = v.attempts
      /\ u.outcome = v.outcome /\ u.armed = v.armed /\ u.body = v.body /\ u.ref = v.ref
  BY <1>3 DEF WorkerStates
<1>5. [t EXCEPT !.pc = "ready", !.body = revision, !.ref = delivery.ref,
                !.known = (delivery.landed > 0)] = u
  BY DEF p, q, v
<1> HIDE DEF u
<1> QED
  BY <1>1, <1>2, <1>3, <1>4, <1>5

LEMMA TripFields ==
  ASSUME NEW t \in RouterStates
  PROVE  /\ t.pc \in {"idle", "route", "won"} /\ t.log \in 0 .. MaxRevision
         /\ t.rev \in 0 .. MaxRevision /\ t.how \in {"send", "skipped", "failed"}
BY DEF RouterStates

LEMMA TripType ==
  ASSUME NEW pc \in {"idle", "route", "won"}, NEW log \in 0 .. MaxRevision,
         NEW rev \in 0 .. MaxRevision
  PROVE  LET t == Trip(pc, log, rev) IN
         t \in RouterStates /\ t.pc = pc /\ t.log = log /\ t.rev = rev
BY DEF Trip, RouterStates

LEMMA WonTrip ==
  ASSUME NEW r \in Routers, router[r] \in RouterStates, NEW how \in {"send", "skipped", "failed"}
  PROVE  LET t == router[r]
             u == [t EXCEPT !.pc = "won", !.how = how] IN
         /\ u \in RouterStates
         /\ u.pc = "won" /\ u.log = t.log /\ u.rev = t.rev /\ u.how = how
<1> DEFINE t == router[r]
           p == [t EXCEPT !.pc = "won"]
           u == [p EXCEPT !.how = how]
<1>1. p \in RouterStates /\ p.pc = "won" /\ p.log = t.log /\ p.rev = t.rev
  BY DEF RouterStates
<1> HIDE DEF p
<1>2. u \in RouterStates /\ u.pc = p.pc /\ u.log = p.log /\ u.rev = p.rev /\ u.how = how
  BY <1>1 DEF RouterStates
<1>3. [t EXCEPT !.pc = "won", !.how = how] = u
  BY DEF p
<1> HIDE DEF u
<1> QED
  BY <1>1, <1>2, <1>3

LEMMA Moved ==
  ASSUME worker \in [Workers -> WorkerStates], NEW w \in Workers, NEW t \in WorkerStates,
         worker' = [worker EXCEPT ![w] = t]
  PROVE  /\ worker' \in [Workers -> WorkerStates]
         /\ worker'[w] = t
         /\ \A v \in Workers \ {w} : worker'[v] = worker[v]
OBVIOUS

LEMMA Travelled ==
  ASSUME router \in [Routers -> RouterStates], NEW r \in Routers, NEW t \in RouterStates,
         router' = [router EXCEPT ![r] = t]
  PROVE  /\ router' \in [Routers -> RouterStates]
         /\ router'[r] = t
         /\ \A s \in Routers \ {r} : router'[s] = router[s]
BY SMTT(30)

LEMMA IdleFacts ==
  /\ WorkerIdle \in WorkerStates /\ WorkerIdle.pc = "idle" /\ WorkerIdle.key = 0
  /\ WorkerIdle.ref = 0 /\ WorkerIdle.armed = 0 /\ WorkerIdle.outcome = "none"
  /\ RouterIdle \in RouterStates /\ RouterIdle.pc = "idle"
<1>1. 0 \in 0 .. MaxRevision
  BY DeliveryConstants, SMTT(30)
<1> QED
  BY <1>1, JobType, TripType, SMTT(30) DEF WorkerIdle, RouterIdle

LEMMA DoneFacts ==
  ASSUME NEW t \in RouterStates
  PROVE  Done(t) \in RouterStates /\ Done(t).pc = "idle"
<1>1. 0 \in 0 .. MaxRevision /\ t.log \in 0 .. MaxRevision
  BY DeliveryConstants, TripFields, SMTT(30)
<1> QED
  BY <1>1, TripType, SMTT(30) DEF Done

-----------------------------------------------------------------------------
(* The delivery row and the comments.                                      *)

LEMMA DeliveryFields ==
  ASSUME NEW d \in DeliveryRows
  PROVE  /\ d.status \in {"none", "pending", "delivered", "skipped", "failed"}
         /\ d.ref \in Nat /\ d.armed \in 0 .. MaxRevision /\ d.landed \in 0 .. MaxRevision
BY DEF DeliveryRows

LEMMA StatusSet ==
  ASSUME NEW d \in DeliveryRows, NEW s \in {"pending", "delivered", "skipped", "failed"}
  PROVE  LET e == [d EXCEPT !.status = s] IN
         e \in DeliveryRows /\ e.status = s /\ e.ref = d.ref /\ e.armed = d.armed
         /\ e.landed = d.landed /\ e # NoRow
BY DEF DeliveryRows, NoRow

LEMMA ArmedSet ==
  ASSUME NEW d \in DeliveryRows, NEW n \in 0 .. MaxRevision
  PROVE  LET e == [d EXCEPT !.status = "pending", !.armed = n] IN
         e \in DeliveryRows /\ e.status = "pending" /\ e.ref = d.ref /\ e.armed = n
         /\ e.landed = d.landed
<1> DEFINE p == [d EXCEPT !.status = "pending"]
           e == [p EXCEPT !.armed = n]
<1>1. p \in DeliveryRows /\ p.status = "pending" /\ p.ref = d.ref /\ p.landed = d.landed
  BY StatusSet
<1> HIDE DEF p
<1>2. e \in DeliveryRows /\ e.status = p.status /\ e.ref = p.ref /\ e.landed = p.landed
      /\ e.armed = n
  BY <1>1 DEF DeliveryRows
<1>3. [d EXCEPT !.status = "pending", !.armed = n] = e
  BY DEF p
<1> HIDE DEF e
<1> QED
  BY <1>1, <1>2, <1>3

LEMMA RecordedFacts ==
  ASSUME NEW t \in WorkerStates, delivery \in DeliveryRows
  PROVE  LET e == Recorded(t) IN
         /\ e \in DeliveryRows /\ e.armed = delivery.armed
         /\ e = delivery \/ e.status \in {"delivered", "skipped", "failed"}
         /\ t.outcome \in {"landed", "refused"} \/ GivesUp(t) => e.status # "pending"
         /\ IF t.outcome = "landed" THEN e.ref = t.ref /\ e.landed = t.armed
                                    ELSE e.ref = delivery.ref /\ e.landed = delivery.landed
<1> DEFINE e == Recorded(t)
<1>1. CASE t.outcome = "landed"
  <2> DEFINE d == [delivery EXCEPT !.status = "delivered", !.ref = t.ref, !.landed = t.armed]
  <2>1. ~ GivesUp(t) /\ t.outcome # "refused"
    BY <1>1 DEF GivesUp
  <2>2. e = d
    BY <1>1, <2>1 DEF Recorded
  <2> DEFINE p == [delivery EXCEPT !.status = "delivered"]
             q == [p EXCEPT !.ref = t.ref]
             f == [q EXCEPT !.landed = t.armed]
  <2>3. d = f
    OBVIOUS
  <2>4. t.ref \in Nat /\ t.armed \in 0 .. MaxRevision
    BY JobFields
  <2> HIDE DEF d, e
  <2>5. p \in DeliveryRows /\ p.status = "delivered" /\ p.armed = delivery.armed
    BY StatusSet
  <2> HIDE DEF p
  <2>6. q \in DeliveryRows /\ q.status = p.status /\ q.ref = t.ref /\ q.armed = p.armed
    BY <2>4, <2>5 DEF DeliveryRows
  <2> HIDE DEF q
  <2>7. f \in DeliveryRows /\ f.status = q.status /\ f.ref = q.ref /\ f.landed = t.armed
        /\ f.armed = q.armed
    BY <2>4, <2>6 DEF DeliveryRows
  <2> HIDE DEF f
  <2> QED
    BY <1>1, <2>2, <2>3, <2>5, <2>6, <2>7 DEF e
<1>2. CASE t.outcome = "refused"
  <2> DEFINE d == [delivery EXCEPT !.status = "skipped"]
  <2>1. e = d
    BY <1>2 DEF Recorded, GivesUp
  <2>2. d \in DeliveryRows /\ d.status = "skipped" /\ d.ref = delivery.ref
        /\ d.armed = delivery.armed /\ d.landed = delivery.landed
    BY StatusSet
  <2> HIDE DEF d, e
  <2> QED
    BY <1>2, <2>1, <2>2 DEF e
<1>3. CASE t.outcome \notin {"landed", "refused"} /\ GivesUp(t)
  <2> DEFINE d == [delivery EXCEPT !.status = "failed"]
  <2>1. e = d
    BY <1>3 DEF Recorded
  <2>2. d \in DeliveryRows /\ d.status = "failed" /\ d.ref = delivery.ref
        /\ d.armed = delivery.armed /\ d.landed = delivery.landed
    BY StatusSet
  <2> HIDE DEF d, e
  <2> QED
    BY <1>3, <2>1, <2>2 DEF e
<1>4. CASE t.outcome \notin {"landed", "refused"} /\ ~ GivesUp(t)
  <2>1. Recorded(t) = delivery
    BY <1>4 DEF Recorded
  <2> QED
    BY <1>4, <2>1
<1> QED
  BY <1>1, <1>2, <1>3, <1>4

LEMMA SeqElement ==
  ASSUME NEW S, NEW s \in Seq(S), NEW i \in 1 .. Len(s)
  PROVE  s[i] \in S
BY SMTT(30)

LEMMA SeqEmpty ==
  ASSUME NEW S, NEW s \in Seq(S)
  PROVE  s # <<>> <=> Len(s) > 0
BY SMTT(30)

LEMMA WrittenFacts ==
  ASSUME comments \in Seq(1 .. MaxRevision), NEW t \in WorkerStates, t.ref <= Len(comments),
         t.body > 0, NEW c \in Target(t)
  PROVE  /\ c \in Nat /\ c > 0 /\ c <= Len(comments) + 1
         /\ Written(c, t.body) \in Seq(1 .. MaxRevision)
         /\ Len(Written(c, t.body)) >= Len(comments) /\ Len(Written(c, t.body)) >= c
<1>1. c \in Nat /\ c > 0 /\ c <= Len(comments) + 1
  BY SeqEmpty, JobFields, SMTT(30) DEF Target
<1> DEFINE n == IF c > Len(comments) THEN c ELSE Len(comments)
<1>2. n \in Nat /\ n >= Len(comments) /\ n >= c
  BY <1>1, SMTT(30)
<1>3. \A i \in 1 .. n : (IF i = c THEN t.body ELSE comments[i]) \in 1 .. MaxRevision
  <2>1. t.body \in 1 .. MaxRevision
    BY JobFields, SMTT(30)
  <2>2. \A i \in 1 .. n : i # c => i \in 1 .. Len(comments)
    BY <1>1, SMTT(30)
  <2>3. \A i \in 1 .. Len(comments) : comments[i] \in 1 .. MaxRevision
    BY SeqElement
  <2> HIDE DEF n
  <2> QED
    BY <2>1, <2>2, <2>3
<1> DEFINE f == [i \in 1 .. n |-> IF i = c THEN t.body ELSE comments[i]]
<1>4. Written(c, t.body) = f
  BY DEF Written
<1> HIDE DEF n
<1>5. f \in Seq(1 .. MaxRevision) /\ Len(f) = n
  BY <1>2, <1>3, SMTT(30)
<1> QED
  BY <1>1, <1>2, <1>4, <1>5

-----------------------------------------------------------------------------
(* Types and handles.                                                      *)

\* Nothing is routed, queued or sent before there is a result.
Begun ==
  /\ \A r \in Routers :
       router[r].pc # "idle" => router[r].rev > 0 /\ router[r].log > 0 /\ revision > 0
  /\ delivery # NoRow => revision > 0
  /\ \A k \in Keys : queue[k] # Absent => revision > 0
  /\ \A w \in Workers : worker[w].pc # "idle" => worker[w].key \in Keys /\ revision > 0
  /\ \A w \in Workers : worker[w].pc = "ready" => worker[w].body > 0
  /\ replays.open => revision > 0

\* What a worker read, and what it is about to write, exists as the row's own.
Handled ==
  /\ HandleExists
  /\ \A w \in Workers :
       /\ worker[w].ref <= Len(comments)
       /\ worker[w].armed <= delivery.armed
       /\ worker[w].outcome = "landed" => Len(comments) > 0

Sound == DeliveryTypeOK /\ Begun /\ Handled

\* What a worker may become.
Fits(t) ==
  /\ t \in WorkerStates
  /\ t.pc # "idle" => t.key \in Keys /\ revision > 0
  /\ t.pc = "ready" => t.body > 0
  /\ t.ref <= Len(comments')
  /\ t.armed <= delivery.armed
  /\ t.outcome = "landed" => Len(comments') > 0

\* What a step may do to the delivery row.
RowFits ==
  /\ delivery' \in DeliveryRows
  /\ delivery' # NoRow => revision > 0
  /\ delivery'.armed >= delivery.armed
  /\ delivery'.ref <= Len(comments')
  /\ delivery'.landed <= delivery'.armed
  /\ delivery'.landed > 0 => Len(comments') > 0

CommentsGrow == comments' \in Seq(1 .. MaxRevision) /\ Len(comments') >= Len(comments)

QueueFits == OutboxTypeOK' /\ \A k \in Keys : queue'[k] # Absent => revision > 0

LEMMA WorkersKept ==
  ASSUME Sound, NEW w \in Workers, NEW t, Fits(t), CommentsGrow, RowFits,
         worker' = [worker EXCEPT ![w] = t]
  PROVE  /\ worker' \in [Workers -> WorkerStates]
         /\ \A v \in Workers :
              /\ worker'[v].pc # "idle" => worker'[v].key \in Keys /\ revision > 0
              /\ worker'[v].pc = "ready" => worker'[v].body > 0
              /\ worker'[v].ref <= Len(comments')
              /\ worker'[v].armed <= delivery'.armed
              /\ worker'[v].outcome = "landed" => Len(comments') > 0
<1>1. worker \in [Workers -> WorkerStates] /\ comments \in Seq(1 .. MaxRevision)
      /\ delivery \in DeliveryRows
  BY DEF Sound, DeliveryTypeOK
<1>2. /\ worker' \in [Workers -> WorkerStates] /\ worker'[w] = t
      /\ \A v \in Workers \ {w} : worker'[v] = worker[v]
  BY <1>1, Moved DEF Fits
<1>3. Len(comments) \in Nat /\ Len(comments') \in Nat /\ delivery.armed \in Nat
      /\ delivery'.armed \in Nat
  BY <1>1, DeliveryFields, SMTT(30) DEF CommentsGrow, RowFits
<1>4. \A v \in Workers : worker[v].ref \in Nat /\ worker[v].armed \in Nat
      /\ worker'[v].ref \in Nat /\ worker'[v].armed \in Nat
  BY <1>1, <1>2, JobFields, SMTT(30)
<1>5. SUFFICES ASSUME NEW v \in Workers
      PROVE  /\ worker'[v].pc # "idle" => worker'[v].key \in Keys /\ revision > 0
             /\ worker'[v].pc = "ready" => worker'[v].body > 0
             /\ worker'[v].ref <= Len(comments')
             /\ worker'[v].armed <= delivery'.armed
             /\ worker'[v].outcome = "landed" => Len(comments') > 0
  BY <1>2
<1>6. CASE v = w
  BY <1>2, <1>3, <1>4, <1>6, SMTT(30) DEF Fits, RowFits
<1>7. CASE v # w
  <2>1. /\ worker[v].pc # "idle" => worker[v].key \in Keys /\ revision > 0
        /\ worker[v].pc = "ready" => worker[v].body > 0
        /\ worker[v].ref <= Len(comments)
        /\ worker[v].armed <= delivery.armed
        /\ worker[v].outcome = "landed" => Len(comments) > 0
    BY DEF Sound, Begun, Handled
  <2>2. worker'[v] = worker[v]
    BY <1>2, <1>7
  <2> QED
    BY <1>3, <1>4, <2>1, <2>2, SMTT(30) DEF CommentsGrow, RowFits
<1> QED
  BY <1>6, <1>7

\* A step of a worker.
LEMMA WorkerSound ==
  ASSUME Sound, NEW w \in Workers, NEW t, Fits(t), CommentsGrow, RowFits, QueueFits,
         worker' = [worker EXCEPT ![w] = t], faults' \in 0 .. MaxFaults,
         dropped' \in BOOLEAN, crossed' \in BOOLEAN, UNCHANGED <<revision, router, replays>>
  PROVE  Sound'
<1>1. DeliveryTypeOK'
  BY WorkersKept DEF Sound, DeliveryTypeOK, CommentsGrow, RowFits, QueueFits
<1>2. Begun'
  BY WorkersKept DEF Sound, Begun, RowFits, QueueFits
<1>3. HandleExists'
  BY SeqEmpty DEF HandleExists, RowFits, CommentsGrow
<1> QED
  BY <1>1, <1>2, <1>3, WorkersKept DEF Sound, Handled

\* A step that leaves the workers alone.
LEMMA OthersSound ==
  ASSUME Sound, RowFits, QueueFits, DeliveryTypeOK', revision' >= revision,
         \A r \in Routers : router'[r].pc # "idle" =>
                               router'[r].rev > 0 /\ router'[r].log > 0 /\ revision > 0,
         replays'.open => revision > 0, UNCHANGED <<worker, comments>>
  PROVE  Sound'
<1>1. revision \in Nat /\ revision' \in Nat
  BY SMTT(30) DEF Sound, DeliveryTypeOK
<1>2. Begun'
  BY <1>1, SMTT(30) DEF Sound, Begun, RowFits, QueueFits
<1>3. HandleExists'
  BY SeqEmpty DEF HandleExists, RowFits, Sound, DeliveryTypeOK
<1>4. \A w \in Workers : worker[w].armed <= delivery'.armed
  <2>1. \A w \in Workers : worker[w].armed \in Nat
    BY JobFields, SMTT(30) DEF Sound, DeliveryTypeOK
  <2>2. delivery.armed \in Nat /\ delivery'.armed \in Nat
    BY DeliveryFields, SMTT(30) DEF RowFits, Sound, DeliveryTypeOK
  <2> QED
    BY <2>1, <2>2, SMTT(30) DEF Sound, Handled, RowFits
<1> QED
  BY <1>2, <1>3, <1>4 DEF Sound, Handled

LEMMA SoundFacts ==
  ASSUME Sound
  PROVE  /\ OutboxTypeOK /\ revision \in Nat /\ revision \in 0 .. MaxRevision
         /\ delivery \in DeliveryRows /\ router \in [Routers -> RouterStates]
         /\ worker \in [Workers -> WorkerStates] /\ comments \in Seq(1 .. MaxRevision)
         /\ replays \in [made : 0 .. MaxReplays, open : BOOLEAN]
         /\ faults \in 0 .. MaxFaults /\ dropped \in BOOLEAN /\ crossed \in BOOLEAN
         /\ UNCHANGED delivery /\ CommentsGrow => RowFits
         /\ UNCHANGED comments => CommentsGrow
         /\ UNCHANGED queue => QueueFits
<1>1. /\ OutboxTypeOK /\ revision \in Nat /\ revision \in 0 .. MaxRevision
      /\ delivery \in DeliveryRows /\ router \in [Routers -> RouterStates]
      /\ worker \in [Workers -> WorkerStates] /\ comments \in Seq(1 .. MaxRevision)
      /\ replays \in [made : 0 .. MaxReplays, open : BOOLEAN]
      /\ faults \in 0 .. MaxFaults /\ dropped \in BOOLEAN /\ crossed \in BOOLEAN
  BY SMTT(30) DEF Sound, DeliveryTypeOK
<1>2. UNCHANGED comments => CommentsGrow
  BY <1>1, SMTT(30) DEF CommentsGrow
<1>3. UNCHANGED queue => QueueFits
  BY DEF QueueFits, Sound, Begun, DeliveryTypeOK, OutboxTypeOK
<1>4. UNCHANGED delivery /\ CommentsGrow => RowFits
  <2>1. delivery.ref \in Nat /\ delivery.armed \in Nat /\ delivery.landed \in Nat
    BY <1>1, DeliveryFields, SMTT(30)
  <2>2. comments # <<>> <=> Len(comments) > 0
    BY <1>1, SeqEmpty
  <2>3. /\ delivery.ref <= Len(comments) /\ delivery.landed <= delivery.armed
        /\ delivery.landed > 0 => comments # <<>>
        /\ delivery # NoRow => revision > 0
    BY DEF Sound, Handled, HandleExists, Begun
  <2> QED
    BY <1>1, <2>1, <2>2, <2>3, SMTT(30) DEF RowFits, CommentsGrow
<1> QED
  BY <1>1, <1>2, <1>3, <1>4

LEMMA RowQueueFits ==
  ASSUME Sound, NEW k \in Keys, NEW s \in {"pending", "delivered", "dead"}, NEW a \in Nat,
         NEW d \in BOOLEAN, Row(k, s, a, d), revision > 0
  PROVE  QueueFits
BY SoundFacts, RowWritten DEF QueueFits

LEMMA JobAt ==
  ASSUME Sound, NEW w \in Workers
  PROVE  /\ worker[w] \in WorkerStates
         /\ worker[w].pc # "idle" => worker[w].key \in Keys /\ revision > 0
         /\ worker[w].pc = "ready" => worker[w].body > 0
         /\ worker[w].ref <= Len(comments) /\ worker[w].armed <= delivery.armed
         /\ worker[w].outcome = "landed" => Len(comments) > 0
BY DEF Sound, DeliveryTypeOK, Begun, Handled

LEMMA IdleFits ==
  ASSUME Sound, CommentsGrow
  PROVE  Fits(WorkerIdle)
<1>1. Len(comments') \in Nat /\ delivery.armed \in Nat
  BY SoundFacts, DeliveryFields, SMTT(30) DEF CommentsGrow
<1> QED
  BY <1>1, IdleFacts, SMTT(30) DEF Fits

LEMMA PresentRow ==
  ASSUME NEW k \in Keys, Sound, queue[k].status # "absent"
  PROVE  revision > 0 /\ queue[k] # Absent
BY SMTT(30) DEF Sound, Begun, Absent

LEMMA SoundClaim ==
  ASSUME Sound, NEW w \in Workers, ClaimEgress(w)
  PROVE  Sound'
<1> PICK k \in Keys : ClaimDue(k)
       /\ worker' = [worker EXCEPT ![w] = Job("claimed", k, queue[k].attempts + 1, 0, "none")]
  BY DEF ClaimEgress
<1> UNCHANGED <<revision, delivery, router, replays, comments, faults, dropped, crossed>>
  BY DEF ClaimEgress
<1> DEFINE a == queue[k].attempts + 1
<1>1. a \in Nat /\ queue[k].status = "pending" /\ Row(k, "pending", a, FALSE)
  <2>1. a \in Nat
    BY SoundFacts, RowType, RowFields, SMTT(30)
  <2> QED
    BY <2>1, SoundFacts, ClaimRow
<1>2. revision > 0
  BY <1>1, PresentRow
<1>3. QueueFits
  BY <1>1, <1>2, RowQueueFits
<1> HIDE DEF a
<1> DEFINE t == Job("claimed", k, a, 0, "none")
<1>4. t \in WorkerStates /\ t.pc = "claimed" /\ t.key = k /\ t.ref = 0 /\ t.outcome = "none"
      /\ t.armed = 0
  <2>1. 0 \in Nat /\ 0 \in 0 .. MaxRevision
    BY DeliveryConstants, SMTT(30)
  <2> QED
    BY <1>1, <2>1 DEF Job, WorkerStates
<1>5. delivery.armed \in Nat /\ Len(comments') \in Nat
  BY SoundFacts, DeliveryFields, SMTT(30)
<1> HIDE DEF t
<1>6. Fits(t)
  BY <1>2, <1>4, <1>5, SMTT(30) DEF Fits
<1> QED
  BY <1>3, <1>6, SoundFacts, WorkerSound DEF t, a

LEMMA SoundDefer ==
  ASSUME Sound, NEW w \in Workers, Defer(w)
  PROVE  Sound'
<1> DEFINE k == worker[w].key
<1>1. worker[w].pc = "claimed" /\ DeliveryFault /\ DeferEgress(k)
      /\ worker' = [worker EXCEPT ![w] = WorkerIdle]
      /\ UNCHANGED <<revision, delivery, router, replays, comments, dropped, crossed>>
  BY DEF Defer
<1>2. k \in Keys /\ revision > 0
  BY <1>1, JobAt
<1>3. QueueFits
  <2>1. queue[k].attempts \in Nat
    BY <1>2, SoundFacts, RowType, RowFields
  <2>2. (IF queue[k].attempts = 0 THEN 0 ELSE queue[k].attempts - 1) \in Nat
    BY <2>1, SMTT(30)
  <2>3. \/ queue' = queue
        \/ Row(k, "pending", IF queue[k].attempts = 0 THEN 0 ELSE queue[k].attempts - 1, FALSE)
    BY <1>1, <1>2, SoundFacts, DeferRow
  <2> QED
    BY <1>2, <2>2, <2>3, RowQueueFits, SoundFacts
<1>4. faults' \in 0 .. MaxFaults
  BY <1>1, SoundFacts, DeliveryConstants, SMTT(30) DEF DeliveryFault
<1> QED
  BY <1>1, <1>3, <1>4, IdleFits, SoundFacts, WorkerSound

LEMMA SoundRead ==
  ASSUME Sound, NEW w \in Workers, ReadResult(w)
  PROVE  Sound'
<1> DEFINE t == [worker[w] EXCEPT !.pc = "ready", !.body = revision, !.ref = delivery.ref,
                                  !.known = (delivery.landed > 0)]
<1>1. worker[w].pc = "claimed" /\ worker' = [worker EXCEPT ![w] = t]
      /\ UNCHANGED <<queue, revision, delivery, router, replays, comments, faults, dropped, crossed>>
  BY DEF ReadResult
<1>2. worker[w] \in WorkerStates /\ worker[w].key \in Keys /\ revision > 0
      /\ worker[w].armed <= delivery.armed
      /\ (worker[w].outcome = "landed" => Len(comments) > 0)
  BY <1>1, JobAt
<1>3. revision \in 0 .. MaxRevision /\ delivery.ref \in Nat /\ (delivery.landed > 0) \in BOOLEAN
      /\ delivery.ref <= Len(comments)
  BY SoundFacts, DeliveryFields, SMTT(30) DEF Sound, Handled, HandleExists
<1>4. /\ t \in WorkerStates
      /\ t.pc = "ready" /\ t.key = worker[w].key /\ t.ref = delivery.ref
      /\ t.outcome = worker[w].outcome /\ t.body = revision /\ t.armed = worker[w].armed
  BY <1>2, <1>3, ReadyJob
<1> HIDE DEF t
<1>5. Fits(t)
  BY <1>1, <1>2, <1>3, <1>4 DEF Fits
<1> QED
  BY <1>1, <1>5, SoundFacts, WorkerSound

LEMMA AfterFits ==
  ASSUME Sound, NEW w \in Workers, worker[w].pc # "idle", NEW ref \in Nat,
         NEW outcome \in {"landed", "failed", "misconfigured", "refused"},
         ref <= Len(comments'), outcome = "landed" => Len(comments') > 0
  PROVE  Fits(After(worker[w], outcome, ref))
<1>1. worker[w].key \in Keys \cup {0} /\ worker[w].attempts \in Nat /\ worker[w].key \in Keys
      /\ revision > 0
  BY JobAt, JobFields
<1> DEFINE t == After(worker[w], outcome, ref)
<1>2. t \in WorkerStates /\ t.pc = "sent" /\ t.key = worker[w].key /\ t.ref = ref
      /\ t.outcome = outcome /\ t.armed = 0
  <2>1. 0 \in 0 .. MaxRevision /\ t = Job("sent", worker[w].key, worker[w].attempts, ref, outcome)
    BY DeliveryConstants DEF After
  <2> QED
    BY <1>1, <2>1 DEF Job, WorkerStates
<1>3. delivery.armed \in Nat
  BY SoundFacts, DeliveryFields, SMTT(30)
<1> HIDE DEF t
<1>4. Fits(t)
  BY <1>1, <1>2, <1>3, SMTT(30) DEF Fits
<1> QED
  BY <1>4 DEF t

LEMMA SendFacts ==
  ASSUME Sound, NEW w \in Workers, worker[w].pc = "ready", NEW c \in Target(worker[w]),
         comments' = Written(c, worker[w].body)
  PROVE  /\ CommentsGrow /\ c \in Nat /\ Len(comments') >= c /\ Len(comments') > 0
         /\ \A ref \in Handles(c) : ref \in Nat /\ ref <= Len(comments')
<1>1. /\ c \in Nat /\ c > 0
      /\ comments' \in Seq(1 .. MaxRevision)
      /\ Len(comments') >= Len(comments) /\ Len(comments') >= c
  BY SoundFacts, JobAt, WrittenFacts
<1>2. Len(comments') \in Nat
  BY <1>1, SMTT(30)
<1>3. \A ref \in Handles(c) : ref = 0 \/ ref = c
  BY DEF Handles
<1> QED
  BY <1>1, <1>2, <1>3, SMTT(30) DEF CommentsGrow

LEMMA SoundLands ==
  ASSUME Sound, NEW w \in Workers, SendLands(w)
  PROVE  Sound'
<1>1. worker[w].pc = "ready"
      /\ UNCHANGED <<queue, revision, delivery, router, replays, faults, dropped, crossed>>
  BY DEF SendLands
<1>2. PICK c \in Target(worker[w]) :
        /\ comments' = Written(c, worker[w].body)
        /\ \E ref \in Handles(c) : worker' = [worker EXCEPT ![w] = After(worker[w], "landed", ref)]
  BY DEF SendLands
<1>3. PICK ref \in Handles(c) : worker' = [worker EXCEPT ![w] = After(worker[w], "landed", ref)]
  BY <1>2
<1>4. CommentsGrow /\ Len(comments') > 0 /\ ref \in Nat /\ ref <= Len(comments')
  BY <1>1, <1>2, SendFacts
<1>5. Fits(After(worker[w], "landed", ref))
  BY <1>1, <1>4, AfterFits
<1> QED
  BY <1>1, <1>3, <1>4, <1>5, SoundFacts, WorkerSound

LEMMA FaultCount ==
  ASSUME Sound, DeliveryFault
  PROVE  faults' \in 0 .. MaxFaults /\ faults \in Nat /\ faults' = faults + 1
BY SoundFacts, DeliveryConstants, SMTT(30) DEF DeliveryFault

LEMMA SoundLost ==
  ASSUME Sound, NEW w \in Workers, AnswerLost(w)
  PROVE  Sound'
<1>1. worker[w].pc = "ready" /\ DeliveryFault
      /\ worker' = [worker EXCEPT ![w] = After(worker[w], "failed", 0)]
      /\ UNCHANGED <<queue, revision, delivery, router, replays, dropped, crossed>>
  BY DEF AnswerLost
<1>2. PICK c \in Target(worker[w]) : comments' = Written(c, worker[w].body)
  BY DEF AnswerLost
<1>3. CommentsGrow /\ Len(comments') > 0
  BY <1>1, <1>2, SendFacts
<1>4. Fits(After(worker[w], "failed", 0))
  BY <1>1, <1>3, AfterFits, SMTT(30) DEF CommentsGrow
<1> QED
  BY <1>1, <1>3, <1>4, SoundFacts, FaultCount, WorkerSound

LEMMA SoundSendFails ==
  ASSUME Sound, NEW w \in Workers, NEW outcome \in {"failed", "misconfigured", "refused"},
         SendFails(w, outcome)
  PROVE  Sound'
<1>1. worker[w].pc = "ready"
      /\ worker' = [worker EXCEPT ![w] = After(worker[w], outcome, 0)]
      /\ UNCHANGED <<queue, revision, delivery, router, replays, comments, faults, dropped, crossed>>
  BY DEF SendFails
<1>2. Fits(After(worker[w], outcome, 0))
  BY <1>1, SoundFacts, AfterFits, SMTT(30) DEF CommentsGrow
<1> QED
  BY <1>1, <1>2, SoundFacts, WorkerSound

LEMMA MarkedFits ==
  ASSUME Sound, NEW w \in Workers, worker[w].pc # "idle", UNCHANGED comments
  PROVE  Fits([worker[w] EXCEPT !.pc = "marked"])
<1> DEFINE u == [worker[w] EXCEPT !.pc = "marked"]
<1>1. /\ worker[w] \in WorkerStates /\ worker[w].key \in Keys /\ revision > 0
      /\ worker[w].ref <= Len(comments) /\ worker[w].armed <= delivery.armed
      /\ worker[w].outcome = "landed" => Len(comments) > 0
  BY JobAt
<1>2. /\ u \in WorkerStates
      /\ u.pc = "marked" /\ u.key = worker[w].key /\ u.ref = worker[w].ref
      /\ u.outcome = worker[w].outcome /\ u.armed = worker[w].armed
  BY <1>1, MarkedJob
<1> HIDE DEF u
<1>3. Fits(u)
  BY <1>1, <1>2 DEF Fits
<1> QED
  BY <1>3 DEF u

LEMMA MarkUpdate ==
  ASSUME NEW w \in Workers
  PROVE  [worker EXCEPT ![w].pc = "marked"] = [worker EXCEPT ![w] = [worker[w] EXCEPT !.pc = "marked"]]
OBVIOUS

LEMMA MarkRow ==
  ASSUME Sound, NEW w \in Workers, MarkQueue(w)
  PROVE  LET t == worker[w]
             k == t.key
             q == queue[k] IN
         /\ t.pc = "sent" /\ k \in Keys /\ q.attempts \in Nat /\ q.due \in BOOLEAN
         /\ worker' = [worker EXCEPT ![w] = [t EXCEPT !.pc = "marked"]]
         /\ \/ t.outcome \in {"landed", "refused"} /\ Row(k, "delivered", q.attempts, q.due)
            \/ /\ t.outcome \notin {"landed", "refused"} /\ GivesUp(t)
               /\ Row(k, "dead", q.attempts, q.due)
            \/ /\ t.outcome \notin {"landed", "refused"} /\ ~ GivesUp(t)
               /\ Row(k, "pending", q.attempts, FALSE)
<1> DEFINE t == worker[w]
           k == t.key
<1>1. t.pc = "sent" /\ worker' = [worker EXCEPT ![w].pc = "marked"]
  BY DEF MarkQueue
<1>2. k \in Keys /\ OutboxTypeOK /\ worker[w] \in WorkerStates
  BY <1>1, JobAt, SoundFacts
<1>3. queue[k].attempts \in Nat /\ queue[k].due \in BOOLEAN
  BY <1>2, RowType, RowFields
<1>4. GivesUp(t) \in BOOLEAN
  BY DEF GivesUp, Exhausted
<1>5. IF t.outcome \in {"landed", "refused"} THEN MarkEgressDelivered(k)
                                            ELSE MarkEgressFailed(k, GivesUp(t))
  BY DEF MarkQueue
<1>6. CASE t.outcome \in {"landed", "refused"}
  <2>1. Row(k, "delivered", queue[k].attempts, queue[k].due)
    BY <1>2, <1>5, <1>6, DeliveredRow
  <2> QED
    BY <1>1, <1>2, <1>3, <1>6, <2>1, MarkUpdate
<1>7. CASE t.outcome \notin {"landed", "refused"}
  <2>1. IF GivesUp(t) THEN Row(k, "dead", queue[k].attempts, queue[k].due)
                      ELSE Row(k, "pending", queue[k].attempts, FALSE)
    BY <1>2, <1>4, <1>5, <1>7, FailedRow
  <2> QED
    BY <1>1, <1>2, <1>3, <1>7, <2>1, MarkUpdate
<1> QED
  BY <1>6, <1>7

LEMMA SoundMark ==
  ASSUME Sound, NEW w \in Workers, MarkQueue(w)
  PROVE  Sound'
<1>1. UNCHANGED <<revision, delivery, router, replays, comments, faults, dropped, crossed>>
  BY DEF MarkQueue
<1> DEFINE t == worker[w]
           k == t.key
<1>2. t.pc = "sent" /\ k \in Keys /\ queue[k].attempts \in Nat /\ queue[k].due \in BOOLEAN
      /\ worker' = [worker EXCEPT ![w] = [t EXCEPT !.pc = "marked"]]
  BY MarkRow
<1>3. PICK s \in {"pending", "delivered", "dead"}, d \in BOOLEAN : Row(k, s, queue[k].attempts, d)
  BY <1>2, MarkRow
<1>4. QueueFits
  BY <1>2, <1>3, JobAt, RowQueueFits
<1> QED
  BY <1>1, <1>2, <1>4, MarkedFits, SoundFacts, WorkerSound

LEMMA SoundMarkFails ==
  ASSUME Sound, NEW w \in Workers, MarkQueueFails(w)
  PROVE  Sound'
<1>1. worker[w].pc = "sent" /\ DeliveryFault
      /\ worker' = [worker EXCEPT ![w].pc = "marked"]
      /\ UNCHANGED <<queue, revision, delivery, router, replays, comments, dropped, crossed>>
  BY DEF MarkQueueFails
<1>2. worker' = [worker EXCEPT ![w] = [worker[w] EXCEPT !.pc = "marked"]]
  BY <1>1, MarkUpdate
<1> QED
  BY <1>1, <1>2, MarkedFits, FaultCount, SoundFacts, WorkerSound

LEMMA SoundReadRow ==
  ASSUME Sound, NEW w \in Workers, ReadRow(w)
  PROVE  Sound'
<1> DEFINE u == [worker[w] EXCEPT !.pc = "record", !.armed = delivery.armed]
<1>1. worker[w].pc = "marked" /\ worker' = [worker EXCEPT ![w] = u]
      /\ UNCHANGED <<queue, revision, delivery, router, replays, comments, faults, dropped, crossed>>
  BY DEF ReadRow
<1>2. /\ worker[w] \in WorkerStates /\ worker[w].key \in Keys /\ revision > 0
      /\ worker[w].ref <= Len(comments)
      /\ worker[w].outcome = "landed" => Len(comments) > 0
  BY <1>1, JobAt
<1>3. delivery.armed \in 0 .. MaxRevision
  BY SoundFacts, DeliveryFields
<1>4. /\ u \in WorkerStates
      /\ u.pc = "record" /\ u.key = worker[w].key /\ u.ref = worker[w].ref
      /\ u.outcome = worker[w].outcome /\ u.armed = delivery.armed
  BY <1>2, <1>3, RecordJob
<1> HIDE DEF u
<1>5. Fits(u)
  BY <1>1, <1>2, <1>3, <1>4, SMTT(30) DEF Fits
<1> QED
  BY <1>1, <1>5, SoundFacts, WorkerSound

LEMMA SoundRecord ==
  ASSUME Sound, NEW w \in Workers, RecordResult(w)
  PROVE  Sound'
<1> DEFINE t == worker[w]
<1>1. t.pc = "record" /\ delivery' = Recorded(t) /\ worker' = [worker EXCEPT ![w] = WorkerIdle]
      /\ UNCHANGED <<queue, revision, router, replays, comments, faults, dropped, crossed>>
  BY DEF RecordResult
<1>2. /\ t \in WorkerStates /\ revision > 0
      /\ t.ref <= Len(comments) /\ t.armed <= delivery.armed
      /\ t.outcome = "landed" => Len(comments) > 0
  BY <1>1, JobAt
<1>3. /\ delivery' \in DeliveryRows /\ delivery'.armed = delivery.armed
      /\ IF t.outcome = "landed" THEN delivery'.ref = t.ref /\ delivery'.landed = t.armed
         ELSE delivery'.ref = delivery.ref /\ delivery'.landed = delivery.landed
  BY <1>1, <1>2, SoundFacts, RecordedFacts
<1>4. delivery.ref <= Len(comments) /\ delivery.landed <= delivery.armed
      /\ (delivery.landed > 0 => Len(comments) > 0) /\ delivery.armed \in Nat
  BY SoundFacts, SeqEmpty, DeliveryFields, SMTT(30) DEF Sound, Handled, HandleExists
<1>5. RowFits
  BY <1>1, <1>2, <1>3, <1>4, SMTT(30) DEF RowFits
<1> QED
  BY <1>1, <1>5, IdleFits, SoundFacts, WorkerSound

LEMMA SoundWorkerFails ==
  ASSUME Sound, NEW w \in Workers, WorkerFails(w)
  PROVE  Sound'
<1>1. DeliveryFault /\ dropped' = (dropped \/ worker[w].pc \in {"marked", "record"})
      /\ worker' = [worker EXCEPT ![w] = WorkerIdle]
      /\ UNCHANGED <<queue, revision, delivery, router, replays, comments, crossed>>
  BY DEF WorkerFails
<1>2. dropped' \in BOOLEAN
  BY <1>1
<1> QED
  BY <1>1, <1>2, IdleFits, FaultCount, SoundFacts, WorkerSound

LEMMA SoundDue ==
  ASSUME Sound, NEW k \in Keys, DueAgain(k), faults' \in 0 .. MaxFaults,
         UNCHANGED <<revision, delivery, router, worker, replays, comments, dropped, crossed>>
  PROVE  Sound'
<1>1. queue[k].status = "pending" /\ Row(k, "pending", queue[k].attempts, TRUE)
      /\ queue[k].attempts \in Nat
  <2>1. queue[k].attempts \in Nat
    BY SoundFacts, RowType, RowFields
  <2> QED
    BY <2>1, SoundFacts, DueRow
<1>2. QueueFits
  BY <1>1, PresentRow, RowQueueFits
<1>3. DeliveryTypeOK'
  BY <1>2, SoundFacts DEF DeliveryTypeOK, QueueFits
<1> QED
  BY <1>2, <1>3, SoundFacts, OthersSound, SMTT(30) DEF Sound, Begun

LEMMA SoundRequeue ==
  ASSUME Sound, NEW k \in Keys, Requeue(k)
  PROVE  Sound'
<1>1. DeliveryFault /\ queue[k].status = "dead" /\ Row(k, "pending", 0, TRUE)
      /\ UNCHANGED <<revision, delivery, router, worker, replays, comments, dropped, crossed>>
  BY RequeueRow DEF Requeue
<1>2. QueueFits
  BY <1>1, PresentRow, RowQueueFits
<1>3. DeliveryTypeOK'
  BY <1>1, <1>2, SoundFacts, FaultCount DEF DeliveryTypeOK, QueueFits
<1> QED
  BY <1>1, <1>2, <1>3, SoundFacts, OthersSound, SMTT(30) DEF Sound, Begun

LEMMA SoundSetResult ==
  ASSUME Sound, SetResult
  PROVE  Sound'
<1>1. revision < MaxRevision /\ revision' = revision + 1
      /\ UNCHANGED <<queue, delivery, router, worker, replays, comments, faults, dropped, crossed>>
  BY DEF SetResult
<1>2. DeliveryTypeOK'
  BY <1>1, SoundFacts, DeliveryConstants, SMTT(30) DEF DeliveryTypeOK, OutboxTypeOK
<1> QED
  BY <1>1, <1>2, SoundFacts, OthersSound, SMTT(30) DEF Sound, Begun

LEMMA RouterSound ==
  ASSUME Sound, NEW r \in Routers, NEW t \in RouterStates, router' = [router EXCEPT ![r] = t],
         t.pc # "idle" => t.rev > 0 /\ t.log > 0 /\ revision > 0,
         RowFits, QueueFits, faults' \in 0 .. MaxFaults, dropped' \in BOOLEAN,
         crossed' \in BOOLEAN, UNCHANGED <<revision, worker, replays, comments>>
  PROVE  Sound'
<1>1. /\ router' \in [Routers -> RouterStates]
      /\ router'[r] = t
      /\ \A s \in Routers \ {r} : router'[s] = router[s]
  BY SoundFacts, Travelled
<1>2. DeliveryTypeOK'
  BY <1>1, SoundFacts DEF DeliveryTypeOK, QueueFits, RowFits
<1>3. \A s \in Routers : router'[s].pc # "idle" =>
        router'[s].rev > 0 /\ router'[s].log > 0 /\ revision > 0
  BY <1>1 DEF Sound, Begun
<1>4. revision' >= revision /\ (replays'.open => revision > 0)
  BY SoundFacts, SMTT(30) DEF Sound, Begun
<1> QED
  BY <1>2, <1>3, <1>4, OthersSound

LEMMA SoundFetch ==
  ASSUME Sound, NEW r \in Routers, NEW e \in 1 .. MaxRevision, FetchResult(r, e)
  PROVE  Sound'
<1> DEFINE t == Trip("route", e, revision)
<1>1. e \in 1 .. revision /\ router' = [router EXCEPT ![r] = t]
      /\ UNCHANGED <<queue, revision, delivery, worker, replays, comments, faults, dropped, crossed>>
  BY DEF FetchResult
<1>2. e \in 0 .. MaxRevision /\ revision \in 0 .. MaxRevision /\ revision > 0
  BY <1>1, SoundFacts, DeliveryConstants, SMTT(30)
<1>3. t \in RouterStates /\ t.rev > 0 /\ t.log > 0
  BY <1>2, TripType, SMTT(30)
<1> HIDE DEF t
<1> QED
  BY <1>1, <1>2, <1>3, SoundFacts, RouterSound

LEMMA TripAt ==
  ASSUME Sound, NEW r \in Routers
  PROVE  /\ router[r] \in RouterStates
         /\ router[r].pc # "idle" => router[r].rev > 0 /\ router[r].log > 0 /\ revision > 0
         /\ router[r].pc # "idle" => router[r].log \in Keys
<1>1. /\ router[r] \in RouterStates
      /\ router[r].pc # "idle" => router[r].rev > 0 /\ router[r].log > 0 /\ revision > 0
  BY SoundFacts DEF Sound, Begun
<1> QED
  BY <1>1, TripFields, DeliveryConstants, SMTT(30)

LEMMA ArmRow ==
  ASSUME Sound, NEW r \in Routers, NEW how \in {"send", "skipped", "failed"}, Arm(r, how),
         Newer(router[r].rev)
  PROVE  /\ RowFits /\ delivery'.status = "pending" /\ delivery'.armed = router[r].rev
         /\ router[r].rev > delivery.armed
<1> DEFINE t == router[r]
<1>1. t.pc = "route" /\ delivery' = [delivery EXCEPT !.status = "pending", !.armed = t.rev]
      /\ UNCHANGED comments
  BY DEF Arm
<1>2. t.rev \in 0 .. MaxRevision /\ t.rev > 0 /\ revision > 0
  BY <1>1, TripAt, TripFields
<1>3. /\ delivery' \in DeliveryRows /\ delivery'.status = "pending" /\ delivery'.ref = delivery.ref
      /\ delivery'.armed = t.rev /\ delivery'.landed = delivery.landed
  <2>1. delivery \in DeliveryRows
    BY SoundFacts
  <2> HIDE DEF t
  <2> QED
    BY <1>1, <1>2, <2>1, ArmedSet
<1>4. t.rev > delivery.armed
  BY <1>2, SMTT(30) DEF Newer, NoRow
<1>5. delivery.ref <= Len(comments) /\ delivery.landed <= delivery.armed
      /\ (delivery.landed > 0 => Len(comments) > 0) /\ delivery.armed \in Nat
      /\ delivery.landed \in Nat
  BY SoundFacts, SeqEmpty, DeliveryFields, SMTT(30) DEF Sound, Handled, HandleExists
<1> QED
  BY <1>1, <1>2, <1>3, <1>4, <1>5, SMTT(30) DEF RowFits

LEMMA SoundArm ==
  ASSUME Sound, NEW r \in Routers, NEW how \in {"send", "skipped", "failed"}, Arm(r, how)
  PROVE  Sound'
<1> DEFINE t == router[r]
<1>1. t.pc = "route" /\ UNCHANGED <<queue, revision, worker, replays, comments, faults, dropped>>
  BY DEF Arm
<1>2. t \in RouterStates /\ t.rev > 0 /\ t.log > 0 /\ revision > 0
  BY <1>1, TripAt
<1>3. CASE Newer(t.rev)
  <2> DEFINE u == [t EXCEPT !.pc = "won", !.how = how]
  <2>1. router' = [router EXCEPT ![r] = u] /\ crossed' = (crossed \/ t.log # t.rev)
    BY <1>3 DEF Arm
  <2>2. u \in RouterStates /\ u.log = t.log /\ u.rev = t.rev
    BY <1>2, WonTrip
  <2>3. crossed' \in BOOLEAN
    BY <2>1
  <2> HIDE DEF u
  <2> QED
    BY <1>1, <1>2, <1>3, <2>1, <2>2, <2>3, ArmRow, SoundFacts, RouterSound
<1>4. CASE ~ Newer(t.rev)
  <2>1. router' = [router EXCEPT ![r] = Done(t)] /\ UNCHANGED <<delivery, crossed>>
    BY <1>4 DEF Arm
  <2> QED
    BY <1>1, <1>2, <2>1, DoneFacts, SoundFacts, RouterSound
<1> QED
  BY <1>3, <1>4

LEMMA EnqueueFits ==
  ASSUME Sound, NEW k \in Keys, EnqueueEgress(k), revision > 0
  PROVE  QueueFits
BY EnqueueRow, RowQueueFits, SoundFacts

LEMMA StatusFits ==
  ASSUME Sound, NEW s \in {"pending", "delivered", "skipped", "failed"}, revision > 0,
         delivery' = [delivery EXCEPT !.status = s], UNCHANGED comments
  PROVE  RowFits /\ delivery'.status = s /\ delivery'.armed = delivery.armed
<1>0. delivery \in DeliveryRows
  BY SoundFacts
<1>1. /\ delivery' \in DeliveryRows /\ delivery'.status = s /\ delivery'.ref = delivery.ref
      /\ delivery'.armed = delivery.armed /\ delivery'.landed = delivery.landed
  BY <1>0, StatusSet
<1>2. delivery.ref <= Len(comments) /\ delivery.landed <= delivery.armed
      /\ (delivery.landed > 0 => Len(comments) > 0) /\ delivery.armed \in Nat
  BY SoundFacts, SeqEmpty, DeliveryFields, SMTT(30) DEF Sound, Handled, HandleExists
<1> QED
  BY <1>1, <1>2, SMTT(30) DEF RowFits

LEMMA SoundFinish ==
  ASSUME Sound, NEW r \in Routers, FinishRoute(r)
  PROVE  Sound'
<1> DEFINE t == router[r]
<1>1. t.pc = "won" /\ router' = [router EXCEPT ![r] = Done(t)]
      /\ UNCHANGED <<revision, worker, replays, comments, faults, dropped, crossed>>
  BY DEF FinishRoute
<1>2. t \in RouterStates /\ t.log \in Keys /\ revision > 0
      /\ t.how \in {"send", "skipped", "failed"}
  BY <1>1, TripAt, TripFields
<1>3. RowFits /\ QueueFits
  <2>1. CASE t.how = "send" /\ EnqueueEgress(t.log) /\ UNCHANGED delivery
    BY <1>1, <1>2, <2>1, EnqueueFits, SoundFacts
  <2>2. CASE t.how # "send" /\ delivery' = [delivery EXCEPT !.status = t.how] /\ UNCHANGED queue
    BY <1>1, <1>2, <2>2, StatusFits, SoundFacts
  <2> QED
    BY <2>1, <2>2 DEF FinishRoute
<1> QED
  BY <1>1, <1>2, <1>3, DoneFacts, SoundFacts, RouterSound

LEMMA SoundRouterFails ==
  ASSUME Sound, NEW r \in Routers, RouterFails(r)
  PROVE  Sound'
<1>1. DeliveryFault /\ dropped' = (dropped \/ router[r].pc = "won")
      /\ router' = [router EXCEPT ![r] = Done(router[r])]
      /\ UNCHANGED <<queue, revision, delivery, worker, replays, comments, crossed>>
  BY DEF RouterFails
<1>2. dropped' \in BOOLEAN
  BY <1>1
<1> QED
  BY <1>1, <1>2, TripAt, DoneFacts, FaultCount, SoundFacts, RouterSound

LEMMA ReplayFields ==
  ASSUME Sound
  PROVE  /\ replays.made \in 0 .. MaxReplays /\ replays.open \in BOOLEAN
         /\ MaxRevision \in Nat /\ MaxReplays \in Nat
<1>1. replays \in [made : 0 .. MaxReplays, open : BOOLEAN]
  BY SoundFacts
<1> QED
  BY <1>1, DeliveryConstants

LEMMA SoundPrepare ==
  ASSUME Sound, PrepareReplay
  PROVE  Sound'
<1>1. delivery # NoRow /\ replays.made < MaxReplays
      /\ delivery' = [delivery EXCEPT !.status = "pending"]
      /\ replays' = [made |-> replays.made + 1, open |-> TRUE]
      /\ UNCHANGED <<queue, revision, router, worker, comments, faults, dropped, crossed>>
  BY DEF PrepareReplay
<1>2. revision > 0
  BY <1>1 DEF Sound, Begun
<1>3. RowFits
  BY <1>1, <1>2, StatusFits
<1>4. replays' \in [made : 0 .. MaxReplays, open : BOOLEAN]
  BY <1>1, ReplayFields, SMTT(30)
<1>5. DeliveryTypeOK'
  BY <1>1, <1>3, <1>4, SoundFacts DEF DeliveryTypeOK, RowFits, OutboxTypeOK
<1> QED
  BY <1>1, <1>2, <1>3, <1>5, SoundFacts, OthersSound, SMTT(30) DEF Sound, Begun

LEMMA ReplayKey ==
  ASSUME Sound, replays.open
  PROVE  /\ replays.made > 0 => MaxRevision + replays.made \in Keys
         /\ revision > 0
BY ReplayFields, DeliveryConstants, SMTT(30) DEF Sound, Begun

LEMMA SoundEnqueueReplay ==
  ASSUME Sound, replays.open => replays.made > 0, EnqueueReplay
  PROVE  Sound'
<1> DEFINE k == MaxRevision + replays.made
<1>1. replays.open /\ EnqueueEgress(k) /\ replays' = [made |-> replays.made, open |-> FALSE]
      /\ UNCHANGED <<revision, delivery, router, worker, comments, faults, dropped, crossed>>
  BY ReplayFields DEF EnqueueReplay
<1>2. k \in Keys /\ revision > 0
  BY <1>1, ReplayKey
<1> HIDE DEF k
<1>3. QueueFits
  BY <1>1, <1>2, EnqueueFits
<1>4. replays' \in [made : 0 .. MaxReplays, open : BOOLEAN] /\ replays'.open = FALSE
  BY <1>1, ReplayFields
<1>5. DeliveryTypeOK'
  BY <1>1, <1>3, <1>4, SoundFacts DEF DeliveryTypeOK, QueueFits
<1> QED
  BY <1>1, <1>2, <1>3, <1>4, <1>5, SoundFacts, OthersSound, SMTT(30) DEF Sound, Begun

LEMMA SoundReplayFails ==
  ASSUME Sound, ReplayFails
  PROVE  Sound'
<1>1. DeliveryFault /\ dropped' = TRUE /\ replays' = [made |-> replays.made, open |-> FALSE]
      /\ UNCHANGED <<queue, revision, delivery, router, worker, comments, crossed>>
  BY ReplayFields DEF ReplayFails
<1>2. replays' \in [made : 0 .. MaxReplays, open : BOOLEAN] /\ replays'.open = FALSE
  BY <1>1, ReplayFields
<1>3. DeliveryTypeOK'
  BY <1>1, <1>2, SoundFacts, FaultCount DEF DeliveryTypeOK, OutboxTypeOK
<1> QED
  BY <1>1, <1>2, <1>3, SoundFacts, OthersSound, SMTT(30) DEF Sound, Begun

LEMMA SoundInit ==
  DeliveryInit => Sound /\ (replays.open => replays.made > 0)
<1> SUFFICES ASSUME DeliveryInit
             PROVE  Sound /\ (replays.open => replays.made > 0)
  OBVIOUS
<1> USE DEF DeliveryInit
<1>1. 0 \in 0 .. MaxRevision /\ 0 \in 0 .. MaxFaults /\ 0 \in 0 .. MaxReplays
  BY DeliveryConstants, SMTT(30)
<1>2. OutboxTypeOK /\ \A k \in Keys : queue[k] = Absent
  BY DEF OutboxInit, OutboxTypeOK, OutboxRows, Absent
<1>3. delivery \in DeliveryRows /\ delivery.ref = 0 /\ delivery.landed = 0 /\ delivery.armed = 0
  BY <1>1 DEF DeliveryRows, NoRow
<1>4. router \in [Routers -> RouterStates] /\ \A r \in Routers : router[r].pc = "idle"
  BY IdleFacts
<1>5. worker \in [Workers -> WorkerStates] /\ \A w \in Workers : worker[w] = WorkerIdle
  BY IdleFacts
<1>6. replays \in [made : 0 .. MaxReplays, open : BOOLEAN] /\ replays.open = FALSE
  BY <1>1
<1>7. comments \in Seq(1 .. MaxRevision) /\ Len(comments) = 0
  BY SMTT(30)
<1>8. DeliveryTypeOK
  BY <1>1, <1>2, <1>3, <1>4, <1>5, <1>6, <1>7 DEF DeliveryTypeOK
<1>9. Begun
  BY <1>2, <1>4, <1>5, <1>6, IdleFacts DEF Begun
<1>10. Handled
  BY <1>3, <1>5, <1>7, IdleFacts, SMTT(30) DEF Handled, HandleExists
<1> QED
  BY <1>6, <1>8, <1>9, <1>10 DEF Sound

LEMMA SoundStutter ==
  ASSUME Sound, UNCHANGED deliveryVars
  PROVE  Sound'
BY DEF Sound, deliveryVars, DeliveryTypeOK, OutboxTypeOK, Begun, Handled, HandleExists

LEMMA SoundStep ==
  ASSUME Sound, replays.open => replays.made > 0, [DeliveryNext]_deliveryVars
  PROVE  Sound'
<1>1. CASE UNCHANGED deliveryVars
  BY <1>1, SoundStutter
<1>2. CASE SetResult
  BY <1>2, SoundSetResult
<1>3. ASSUME NEW r \in Routers, RouterNext(r)
      PROVE  Sound'
  BY <1>3, SoundFetch, SoundArm, SoundFinish, SoundRouterFails DEF RouterNext
<1>4. ASSUME NEW w \in Workers, WorkerStep(w)
      PROVE  Sound'
  BY <1>4, SoundClaim, SoundRead, SoundLands, SoundSendFails, SoundMark, SoundReadRow,
     SoundRecord DEF WorkerStep
<1>5. ASSUME NEW w \in Workers,
             Defer(w) \/ AnswerLost(w) \/ MarkQueueFails(w) \/ WorkerFails(w) \/ IdleTick(w)
      PROVE  Sound'
  BY <1>5, SoundDefer, SoundLost, SoundMarkFails, SoundWorkerFails, SoundStutter DEF IdleTick
<1>6. ASSUME NEW k \in Keys, PassTime(k)
      PROVE  Sound'
  BY <1>6, SoundDue, SoundFacts DEF PassTime
<1>7. ASSUME NEW k \in Keys, LeaseLapses(k)
      PROVE  Sound'
  BY <1>7, SoundDue, FaultCount DEF LeaseLapses
<1>8. ASSUME NEW k \in Keys, Requeue(k)
      PROVE  Sound'
  BY <1>8, SoundRequeue
<1>9. CASE PrepareReplay
  BY <1>9, SoundPrepare, SMTT(30)
<1>10. CASE EnqueueReplay
  BY <1>10, SoundEnqueueReplay
<1>11. CASE ReplayFails
  BY <1>11, SoundReplayFails, SMTT(30)
<1> QED
  BY <1>1, <1>2, <1>3, <1>4, <1>5, <1>6, <1>7, <1>8, <1>9, <1>10, <1>11 DEF DeliveryNext

LEMMA ReplaysOpenNumbered ==
  ASSUME Sound, replays.open => replays.made > 0, [DeliveryNext]_deliveryVars
  PROVE  replays'.open => replays'.made > 0
<1>1. CASE UNCHANGED replays
  BY <1>1
<1>2. CASE PrepareReplay
  BY <1>2, ReplayFields, SMTT(30) DEF PrepareReplay
<1>3. CASE EnqueueReplay \/ ReplayFails
  BY <1>3, ReplayFields, SMTT(30) DEF EnqueueReplay, ReplayFails
<1> QED
  BY <1>1, <1>2, <1>3 DEF DeliveryNext, deliveryVars, SetResult, RouterNext, FetchResult, Arm,
     FinishRoute, RouterFails, WorkerStep, ClaimEgress, ReadResult, SendLands, SendFails,
     MarkQueue, ReadRow, RecordResult, Defer, AnswerLost, MarkQueueFails, WorkerFails,
     IdleTick, PassTime, LeaseLapses, Requeue

-----------------------------------------------------------------------------
(* A pending delivery is on its way.                                       *)

\* A worker's row exists, and the log ids of replays to come are unused.
Present == \A w \in Workers : worker[w].pc # "idle" => queue[worker[w].key] # Absent

ReplayFresh ==
  /\ replays.open => replays.made > 0
  /\ \A k \in Keys :
       k > MaxRevision + replays.made \/ (k = MaxRevision + replays.made /\ replays.open)
         => queue[k] = Absent

\* A worker that will change the row's status once it records.
Settling(t) ==
  t.pc \in {"marked", "record"} /\ (t.outcome \in {"landed", "refused"} \/ GivesUp(t))

\* Somebody will move the delivery on, not counting a worker that will only
\* note a retry.
OnItsWay ==
  \/ \E r \in Routers : router[r].pc = "won"
  \/ \E k \in Keys : queue[k].status = "pending"
  \/ \E w \in Workers : Settling(worker[w])
  \/ replays.open

\* The row a router that won will queue is its own, and not there yet.
Routes ==
  /\ \A r \in Routers : router[r].pc = "won" =>
       /\ router[r].log = router[r].rev /\ router[r].rev <= delivery.armed
       /\ queue[router[r].log] = Absent
  /\ \A r, s \in Routers :
       r # s /\ router[r].pc = "won" /\ router[s].pc = "won" => router[r].log # router[s].log
  /\ \A k \in 1 .. MaxRevision : queue[k] # Absent => k <= delivery.armed

Straight ==
  ~ dropped /\ ~ crossed => Routes /\ (delivery.status = "pending" => OnItsWay)

\* The rows that exist are the ones that existed.
NoNew == \A k \in Keys : queue'[k] = Absent <=> queue[k] = Absent

LEMMA RowNoNew ==
  ASSUME Sound, NEW k \in Keys, NEW s \in {"pending", "delivered", "dead"}, NEW a \in Nat,
         NEW d \in BOOLEAN, Row(k, s, a, d), queue[k] # Absent
  PROVE  NoNew
<1>1. OutboxTypeOK
  BY SoundFacts
<1>2. queue'[k] # Absent /\ \A j \in Keys \ {k} : queue'[j] = queue[j]
  BY <1>1, RowWritten
<1> QED
  BY <1>2 DEF NoNew

LEMMA PresentKept ==
  ASSUME Sound, Present, NoNew, NEW w \in Workers, NEW t \in WorkerStates,
         worker' = [worker EXCEPT ![w] = t],
         t.pc # "idle" => t.key \in Keys /\ queue[t.key] # Absent
  PROVE  Present'
<1>1. worker'[w] = t /\ \A v \in Workers \ {w} : worker'[v] = worker[v]
  BY SoundFacts, Moved
<1>2. \A v \in Workers : worker[v].pc # "idle" => worker[v].key \in Keys
  BY JobAt
<1> QED
  BY <1>1, <1>2, SMTT(30) DEF Present, NoNew

\* What every step of a worker leaves as it was.
Frame ==
  /\ NoNew
  /\ UNCHANGED <<router, replays, crossed>>
  /\ delivery'.armed = delivery.armed
  /\ dropped => dropped'

LEMMA FrameClaim ==
  ASSUME Sound, Present, NEW w \in Workers, ClaimEgress(w)
  PROVE  /\ Frame /\ Present'
         /\ \E k \in Keys : queue[k].status = "pending" /\ queue[k].due
              /\ Row(k, "pending", queue[k].attempts + 1, FALSE) /\ queue[k].attempts \in Nat
              /\ worker' = [worker EXCEPT ![w] = Job("claimed", k, queue[k].attempts + 1, 0, "none")]
<1> PICK k \in Keys : ClaimDue(k)
       /\ worker' = [worker EXCEPT ![w] = Job("claimed", k, queue[k].attempts + 1, 0, "none")]
  BY DEF ClaimEgress
<1>1. UNCHANGED <<revision, delivery, router, replays, comments, faults, dropped, crossed>>
  BY DEF ClaimEgress
<1> DEFINE a == queue[k].attempts + 1
<1>2. queue[k].attempts \in Nat /\ a \in Nat
  BY SoundFacts, RowType, RowFields, SMTT(30)
<1>3. queue[k].status = "pending" /\ queue[k].due /\ Row(k, "pending", a, FALSE)
  BY SoundFacts, ClaimRow
<1>4. queue[k] # Absent
  BY <1>3, PresentRow
<1>5. NoNew
  BY <1>2, <1>3, <1>4, RowNoNew
<1> HIDE DEF a
<1> DEFINE t == Job("claimed", k, a, 0, "none")
<1>6. t \in WorkerStates /\ t.pc = "claimed" /\ t.key = k
  <2>1. 0 \in Nat /\ 0 \in 0 .. MaxRevision
    BY DeliveryConstants, SMTT(30)
  <2> QED
    BY <1>2, <2>1 DEF Job, WorkerStates
<1> HIDE DEF t
<1>7. Present'
  BY <1>4, <1>5, <1>6, PresentKept DEF t, a
<1> QED
  BY <1>1, <1>2, <1>3, <1>5, <1>7 DEF Frame, a

LEMMA FrameDefer ==
  ASSUME Sound, Present, NEW w \in Workers, Defer(w)
  PROVE  Frame /\ Present'
<1> DEFINE k == worker[w].key
           a == IF queue[k].attempts = 0 THEN 0 ELSE queue[k].attempts - 1
<1>1. worker[w].pc = "claimed" /\ DeferEgress(k) /\ worker' = [worker EXCEPT ![w] = WorkerIdle]
      /\ UNCHANGED <<revision, delivery, router, replays, comments, dropped, crossed>>
  BY DEF Defer
<1>2. k \in Keys /\ queue[k] # Absent
  BY <1>1, JobAt DEF Present
<1>3. a \in Nat
  BY <1>2, SoundFacts, RowType, RowFields, SMTT(30)
<1>4. queue' = queue \/ Row(k, "pending", a, FALSE)
  BY <1>1, <1>2, SoundFacts, DeferRow
<1> HIDE DEF a, k
<1>5. NoNew
  BY <1>2, <1>3, <1>4, RowNoNew DEF NoNew
<1> QED
  BY <1>1, <1>5, IdleFacts, PresentKept DEF Frame

LEMMA FrameMark ==
  ASSUME Sound, Present, NEW w \in Workers, MarkQueue(w)
  PROVE  Frame /\ Present'
<1> DEFINE t == worker[w]
           k == t.key
           u == [t EXCEPT !.pc = "marked"]
<1>1. UNCHANGED <<revision, delivery, router, replays, comments, faults, dropped, crossed>>
  BY DEF MarkQueue
<1>2. t.pc = "sent" /\ k \in Keys /\ queue[k].attempts \in Nat /\ queue[k].due \in BOOLEAN
      /\ worker' = [worker EXCEPT ![w] = u]
  BY MarkRow
<1>3. PICK s \in {"pending", "delivered", "dead"}, d \in BOOLEAN : Row(k, s, queue[k].attempts, d)
  BY <1>2, MarkRow
<1>4. queue[k] # Absent
  BY <1>2 DEF Present
<1>5. NoNew
  BY <1>2, <1>3, <1>4, RowNoNew
<1>6. u \in WorkerStates /\ u.key = k
  BY JobAt, MarkedJob
<1> HIDE DEF u
<1> QED
  BY <1>1, <1>2, <1>4, <1>5, <1>6, PresentKept DEF Frame

\* Steps that leave the queue alone and a worker on the row it was on.
LEMMA FrameStay ==
  ASSUME Sound, Present, NEW w \in Workers, NEW t \in WorkerStates,
         worker' = [worker EXCEPT ![w] = t],
         t.pc # "idle" => worker[w].pc # "idle" /\ t.key = worker[w].key,
         UNCHANGED <<queue, router, replays, crossed>>, delivery'.armed = delivery.armed,
         dropped => dropped'
  PROVE  Frame /\ Present'
<1>1. NoNew
  BY DEF NoNew
<1>2. t.pc # "idle" => t.key \in Keys /\ queue[t.key] # Absent
  BY JobAt DEF Present
<1> QED
  BY <1>1, <1>2, PresentKept DEF Frame

LEMMA AfterFacts ==
  ASSUME Sound, NEW w \in Workers, NEW ref \in Nat,
         NEW outcome \in {"landed", "failed", "misconfigured", "refused"}
  PROVE  LET t == After(worker[w], outcome, ref) IN
         /\ t \in WorkerStates /\ t.pc = "sent" /\ t.key = worker[w].key
         /\ t.attempts = worker[w].attempts /\ t.outcome = outcome
<1> DEFINE k == worker[w].key
           a == worker[w].attempts
           t == Job("sent", k, a, ref, outcome)
<1>1. k \in Keys \cup {0} /\ a \in Nat
  BY JobAt, JobFields
<1>2. After(worker[w], outcome, ref) = t
  BY DEF After
<1> HIDE DEF k, a
<1>3. /\ outcome \in {"none", "landed", "failed", "misconfigured", "refused"}
      /\ "sent" \in {"idle", "claimed", "ready", "sent", "marked", "record"}
  OBVIOUS
<1>4. t \in WorkerStates /\ t.pc = "sent" /\ t.key = k /\ t.attempts = a /\ t.outcome = outcome
  <2>1. 0 \in Nat /\ 0 \in 0 .. MaxRevision
    BY DeliveryConstants, SMTT(30)
  <2> QED
    BY <1>1, <1>3, <2>1 DEF Job, WorkerStates
<1> HIDE DEF t
<1> QED
  BY <1>2, <1>4 DEF k, a

LEMMA RoutesKept ==
  ASSUME Sound, Routes, Frame
  PROVE  Routes'
<1>1. \A k \in 1 .. MaxRevision : k \in Keys
  BY DeliveryConstants, SMTT(30)
<1>2. \A r \in Routers : router[r].pc = "won" => router[r].log \in Keys
  BY TripAt
<1> QED
  BY <1>1, <1>2 DEF Routes, Frame, NoNew

\* A step of a worker keeps what is on its way on its way.
LEMMA WayKept ==
  ASSUME Sound, OnItsWay, NEW w \in Workers, NEW t \in WorkerStates,
         worker' = [worker EXCEPT ![w] = t], UNCHANGED <<router, replays>>,
         \A k \in Keys : queue[k].status = "pending" => queue'[k].status = "pending",
         Settling(worker[w]) => Settling(t)
  PROVE  OnItsWay'
<1>1. worker'[w] = t /\ \A v \in Workers \ {w} : worker'[v] = worker[v]
  BY SoundFacts, Moved
<1>2. \A v \in Workers : Settling(worker[v]) => Settling(worker'[v])
  BY <1>1
<1>3. \A v \in Workers : Settling(worker'[v]) => Settling(worker[v])'
  BY DEF Settling, GivesUp
<1> QED
  BY <1>2, <1>3 DEF OnItsWay

LEMMA StraightWorker ==
  ASSUME Sound, Straight, Frame,
         ~ dropped' /\ delivery'.status = "pending"
           => OnItsWay' \/ (delivery.status = "pending" /\ (OnItsWay => OnItsWay'))
  PROVE  Straight'
<1> SUFFICES ASSUME ~ dropped', ~ crossed'
             PROVE  Routes' /\ (delivery'.status = "pending" => OnItsWay')
  BY DEF Straight
<1>1. ~ dropped /\ ~ crossed
  BY DEF Frame
<1>2. Routes /\ (delivery.status = "pending" => OnItsWay)
  BY <1>1 DEF Straight
<1> QED
  BY <1>2, RoutesKept

LEMMA StraightClaim ==
  ASSUME Sound, Present, Straight, NEW w \in Workers, ClaimEgress(w)
  PROVE  Straight' /\ Frame /\ Present'
<1>1. PICK k \in Keys : Row(k, "pending", queue[k].attempts + 1, FALSE) /\ queue[k].attempts \in Nat
        /\ worker' = [worker EXCEPT ![w] = Job("claimed", k, queue[k].attempts + 1, 0, "none")]
  BY FrameClaim
<1>2. Frame /\ Present' /\ delivery' = delivery /\ worker[w].pc = "idle"
      /\ UNCHANGED <<router, replays>>
  BY FrameClaim DEF ClaimEgress
<1> DEFINE a == queue[k].attempts + 1
           t == Job("claimed", k, a, 0, "none")
<1>3. a \in Nat
  BY <1>1, SMTT(30)
<1>4. \A j \in Keys : queue[j].status = "pending" => queue'[j].status = "pending"
  BY <1>1, <1>3, SoundFacts, RowWritten
<1> HIDE DEF a
<1>5. t \in WorkerStates
  <2>1. 0 \in Nat /\ 0 \in 0 .. MaxRevision
    BY DeliveryConstants, SMTT(30)
  <2> QED
    BY <1>3, <2>1 DEF Job, WorkerStates
<1>6. worker' = [worker EXCEPT ![w] = t]
  BY <1>1 DEF a
<1> HIDE DEF t
<1>7. OnItsWay => OnItsWay'
  BY <1>2, <1>4, <1>5, <1>6, WayKept DEF Settling
<1> QED
  BY <1>2, <1>7, StraightWorker

LEMMA StraightDefer ==
  ASSUME Sound, Present, Straight, NEW w \in Workers, Defer(w)
  PROVE  Straight' /\ Frame /\ Present'
<1> DEFINE k == worker[w].key
           a == IF queue[k].attempts = 0 THEN 0 ELSE queue[k].attempts - 1
<1>1. worker[w].pc = "claimed" /\ DeferEgress(k) /\ worker' = [worker EXCEPT ![w] = WorkerIdle]
      /\ UNCHANGED <<revision, delivery, router, replays, comments, dropped, crossed>>
  BY DEF Defer
<1>2. k \in Keys /\ OutboxTypeOK
  BY <1>1, JobAt, SoundFacts
<1>3. a \in Nat
  BY <1>2, RowType, RowFields, SMTT(30)
<1>4. queue' = queue \/ Row(k, "pending", a, FALSE)
  BY <1>1, <1>2, DeferRow
<1> HIDE DEF a, k
<1>5. \A j \in Keys : queue[j].status = "pending" => queue'[j].status = "pending"
  BY <1>2, <1>3, <1>4, RowWritten
<1>6. OnItsWay => OnItsWay'
  BY <1>1, <1>5, IdleFacts, WayKept DEF Settling
<1> QED
  BY <1>1, <1>6, FrameDefer, StraightWorker

LEMMA StraightMark ==
  ASSUME Sound, Present, Straight, NEW w \in Workers, MarkQueue(w)
  PROVE  Straight' /\ Frame /\ Present'
<1> DEFINE t == worker[w]
           k == t.key
           u == [t EXCEPT !.pc = "marked"]
<1>1. delivery' = delivery
  BY DEF MarkQueue
<1>2. t.pc = "sent" /\ k \in Keys /\ queue[k].attempts \in Nat /\ queue[k].due \in BOOLEAN
      /\ worker' = [worker EXCEPT ![w] = u]
  BY MarkRow
<1>3. /\ u \in WorkerStates /\ u.pc = "marked" /\ u.outcome = t.outcome
      /\ u.attempts = t.attempts
  BY JobAt, MarkedJob
<1>4. worker'[w] = u
  BY <1>2, <1>3, SoundFacts, Moved
<1>5. CASE t.outcome \in {"landed", "refused"} \/ GivesUp(t)
  <2>1. Settling(u)
    BY <1>3, <1>5 DEF Settling, GivesUp
  <2>2. Settling(worker[w])'
    BY <1>4, <2>1 DEF Settling, GivesUp
  <2>3. OnItsWay'
    BY <2>2 DEF OnItsWay
  <2> QED
    BY <2>3, FrameMark, StraightWorker
<1>6. CASE ~ (t.outcome \in {"landed", "refused"} \/ GivesUp(t))
  <2>1. Row(k, "pending", queue[k].attempts, FALSE)
    BY <1>6, MarkRow
  <2>2. queue'[k].status = "pending"
    BY <1>2, <2>1, SoundFacts, RowWritten
  <2>3. OnItsWay'
    BY <1>2, <2>2 DEF OnItsWay
  <2> QED
    BY <2>3, FrameMark, StraightWorker, SMTT(30)
<1> QED
  BY <1>5, <1>6

\* Steps of a worker that leave the queue and the delivery row alone.
LEMMA StraightStay ==
  ASSUME Sound, Present, Straight, NEW w \in Workers, NEW t \in WorkerStates,
         worker' = [worker EXCEPT ![w] = t],
         t.pc # "idle" => worker[w].pc # "idle" /\ t.key = worker[w].key,
         UNCHANGED <<queue, delivery, router, replays, crossed>>, dropped => dropped',
         ~ dropped' /\ Settling(worker[w]) => Settling(t)
  PROVE  Straight' /\ Frame /\ Present'
<1>1. Frame /\ Present'
  BY FrameStay
<1>2. ~ dropped' => (OnItsWay => OnItsWay')
  BY WayKept
<1> QED
  BY <1>1, <1>2, StraightWorker

LEMMA StraightSend ==
  ASSUME Sound, Present, Straight, NEW w \in Workers, NEW outcome,
         SendLands(w) \/ AnswerLost(w)
           \/ (outcome \in {"failed", "misconfigured", "refused"} /\ SendFails(w, outcome))
  PROVE  Straight' /\ Frame /\ Present'
<1>1. /\ worker[w].pc = "ready" /\ UNCHANGED <<queue, delivery, router, replays, dropped, crossed>>
      /\ \E o \in {"landed", "failed", "misconfigured", "refused"}, ref \in Nat :
           worker' = [worker EXCEPT ![w] = After(worker[w], o, ref)]
  <2>1. CASE SendLands(w)
    <3>1. worker[w].pc = "ready" /\ UNCHANGED <<queue, delivery, router, replays, dropped, crossed>>
      BY <2>1 DEF SendLands
    <3>2. PICK c \in Target(worker[w]) :
            /\ comments' = Written(c, worker[w].body)
            /\ \E ref \in Handles(c) : worker' = [worker EXCEPT ![w] = After(worker[w], "landed", ref)]
      BY <2>1 DEF SendLands
    <3>3. \A ref \in Handles(c) : ref \in Nat
      BY <3>1, <3>2, SendFacts
    <3> QED
      BY <3>1, <3>2, <3>3
  <2>2. CASE AnswerLost(w)
    BY <2>2 DEF AnswerLost
  <2>3. CASE outcome \in {"failed", "misconfigured", "refused"} /\ SendFails(w, outcome)
    BY <2>3 DEF SendFails
  <2> QED
    BY <2>1, <2>2, <2>3
<1>2. PICK o \in {"landed", "failed", "misconfigured", "refused"}, ref \in Nat :
        worker' = [worker EXCEPT ![w] = After(worker[w], o, ref)]
  BY <1>1
<1> DEFINE t == After(worker[w], o, ref)
<1>3. t \in WorkerStates /\ t.pc = "sent" /\ t.key = worker[w].key
  BY AfterFacts, SMTT(30)
<1> HIDE DEF t
<1>4. ~ Settling(worker[w])
  BY <1>1 DEF Settling
<1>5. worker' = [worker EXCEPT ![w] = t]
  BY <1>2 DEF t
<1> QED
  BY <1>1, <1>3, <1>4, <1>5, StraightStay

LEMMA ReadFacts ==
  ASSUME Sound, NEW w \in Workers, ReadResult(w)
  PROVE  LET t == [worker[w] EXCEPT !.pc = "ready", !.body = revision, !.ref = delivery.ref,
                                    !.known = (delivery.landed > 0)] IN
         /\ worker[w].pc = "claimed" /\ worker' = [worker EXCEPT ![w] = t]
         /\ t \in WorkerStates /\ t.pc = "ready" /\ t.key = worker[w].key
         /\ t.attempts = worker[w].attempts
         /\ UNCHANGED <<queue, delivery, router, replays, faults, dropped, crossed>>
<1> DEFINE t == [worker[w] EXCEPT !.pc = "ready", !.body = revision, !.ref = delivery.ref,
                                  !.known = (delivery.landed > 0)]
<1>1. worker[w].pc = "claimed" /\ worker' = [worker EXCEPT ![w] = t]
      /\ UNCHANGED <<queue, delivery, router, replays, faults, dropped, crossed>>
  BY DEF ReadResult
<1>2. worker[w] \in WorkerStates /\ revision \in 0 .. MaxRevision /\ delivery.ref \in Nat
      /\ (delivery.landed > 0) \in BOOLEAN
  BY SoundFacts, JobAt, DeliveryFields, SMTT(30)
<1>3. t \in WorkerStates /\ t.pc = "ready" /\ t.key = worker[w].key
      /\ t.attempts = worker[w].attempts
  BY <1>2, ReadyJob
<1> HIDE DEF t
<1> QED
  BY <1>1, <1>3 DEF t

LEMMA ReadRowFacts ==
  ASSUME Sound, NEW w \in Workers, ReadRow(w)
  PROVE  LET u == [worker[w] EXCEPT !.pc = "record", !.armed = delivery.armed] IN
         /\ worker[w].pc = "marked" /\ worker' = [worker EXCEPT ![w] = u]
         /\ u \in WorkerStates /\ u.pc = "record" /\ u.key = worker[w].key
         /\ u.attempts = worker[w].attempts /\ u.outcome = worker[w].outcome
         /\ UNCHANGED <<queue, delivery, router, replays, faults, dropped, crossed>>
<1> DEFINE u == [worker[w] EXCEPT !.pc = "record", !.armed = delivery.armed]
<1>1. worker[w].pc = "marked" /\ worker' = [worker EXCEPT ![w] = u]
      /\ UNCHANGED <<queue, delivery, router, replays, faults, dropped, crossed>>
  BY DEF ReadRow
<1>2. worker[w] \in WorkerStates /\ delivery.armed \in 0 .. MaxRevision
  BY SoundFacts, JobAt, DeliveryFields
<1>3. u \in WorkerStates /\ u.pc = "record" /\ u.key = worker[w].key
      /\ u.attempts = worker[w].attempts /\ u.outcome = worker[w].outcome
  BY <1>2, RecordJob
<1> HIDE DEF u
<1> QED
  BY <1>1, <1>3 DEF u

LEMMA StraightRead ==
  ASSUME Sound, Present, Straight, NEW w \in Workers, ReadResult(w)
  PROVE  Straight' /\ Frame /\ Present'
<1> DEFINE t == [worker[w] EXCEPT !.pc = "ready", !.body = revision, !.ref = delivery.ref,
                                  !.known = (delivery.landed > 0)]
<1>1. /\ worker[w].pc = "claimed" /\ worker' = [worker EXCEPT ![w] = t]
      /\ t \in WorkerStates /\ t.pc = "ready" /\ t.key = worker[w].key
      /\ UNCHANGED <<queue, delivery, router, replays, dropped, crossed>>
  BY ReadFacts
<1> HIDE DEF t
<1>2. ~ Settling(worker[w])
  BY <1>1 DEF Settling
<1> QED
  BY <1>1, <1>2, StraightStay

LEMMA StraightMarkFails ==
  ASSUME Sound, Present, Straight, NEW w \in Workers, MarkQueueFails(w)
  PROVE  Straight' /\ Frame /\ Present'
<1> DEFINE u == [worker[w] EXCEPT !.pc = "marked"]
<1>1. worker[w].pc = "sent" /\ worker' = [worker EXCEPT ![w] = u]
      /\ UNCHANGED <<queue, delivery, router, replays, dropped, crossed>>
  BY MarkUpdate DEF MarkQueueFails
<1>2. u \in WorkerStates /\ u.key = worker[w].key
  BY JobAt, MarkedJob
<1> HIDE DEF u
<1>3. ~ Settling(worker[w])
  BY <1>1 DEF Settling
<1> QED
  BY <1>1, <1>2, <1>3, StraightStay

LEMMA StraightReadRow ==
  ASSUME Sound, Present, Straight, NEW w \in Workers, ReadRow(w)
  PROVE  Straight' /\ Frame /\ Present'
<1> DEFINE u == [worker[w] EXCEPT !.pc = "record", !.armed = delivery.armed]
<1>1. /\ worker[w].pc = "marked" /\ worker' = [worker EXCEPT ![w] = u]
      /\ u \in WorkerStates /\ u.pc = "record" /\ u.key = worker[w].key
      /\ u.attempts = worker[w].attempts /\ u.outcome = worker[w].outcome
      /\ UNCHANGED <<queue, delivery, router, replays, dropped, crossed>>
  BY ReadRowFacts
<1> HIDE DEF u
<1>2. Settling(worker[w]) => Settling(u)
  BY <1>1 DEF Settling, GivesUp
<1> QED
  BY <1>1, <1>2, StraightStay

LEMMA StraightRecord ==
  ASSUME Sound, Present, Straight, NEW w \in Workers, RecordResult(w)
  PROVE  Straight' /\ Frame /\ Present'
<1> DEFINE t == worker[w]
<1>1. t.pc = "record" /\ delivery' = Recorded(t) /\ worker' = [worker EXCEPT ![w] = WorkerIdle]
      /\ UNCHANGED <<queue, revision, router, replays, comments, faults, dropped, crossed>>
  BY DEF RecordResult
<1>2. /\ delivery'.armed = delivery.armed
      /\ delivery' = delivery \/ delivery'.status \in {"delivered", "skipped", "failed"}
      /\ t.outcome \in {"landed", "refused"} \/ GivesUp(t) => delivery'.status # "pending"
  BY <1>1, JobAt, SoundFacts, RecordedFacts
<1>3. Frame /\ Present'
  BY <1>1, <1>2, IdleFacts, FrameStay
<1>4. ASSUME delivery'.status = "pending"
      PROVE  delivery.status = "pending" /\ (OnItsWay => OnItsWay')
  <2>1. delivery' = delivery /\ ~ Settling(t)
    BY <1>2, <1>4 DEF Settling
  <2> QED
    BY <1>1, <1>4, <2>1, IdleFacts, WayKept
<1> QED
  BY <1>3, <1>4, StraightWorker

LEMMA StraightWorkerFails ==
  ASSUME Sound, Present, Straight, NEW w \in Workers, WorkerFails(w)
  PROVE  Straight' /\ Frame /\ Present'
<1>1. dropped' = (dropped \/ worker[w].pc \in {"marked", "record"})
      /\ worker' = [worker EXCEPT ![w] = WorkerIdle]
      /\ UNCHANGED <<queue, delivery, router, replays, crossed>>
  BY DEF WorkerFails
<1>2. dropped => dropped'
  BY <1>1
<1>3. ~ dropped' => ~ Settling(worker[w])
  BY <1>1 DEF Settling
<1> QED
  BY <1>1, <1>2, <1>3, IdleFacts, StraightStay

-----------------------------------------------------------------------------
\* Steps of the clock and the operator on rows that are there.
LEMMA StraightRow ==
  ASSUME Sound, Present, Straight, NEW k \in Keys, NEW a \in Nat, NEW d \in BOOLEAN,
         queue[k] # Absent, Row(k, "pending", a, d),
         UNCHANGED <<delivery, router, worker, replays, dropped, crossed>>
  PROVE  Straight' /\ Frame /\ Present'
<1>1. Frame
  BY RowNoNew DEF Frame
<1>2. Present'
  BY <1>1, JobAt DEF Frame, NoNew, Present
<1>3. queue'[k].status = "pending"
  BY SoundFacts, RowWritten, SMTT(30)
<1>4. OnItsWay'
  BY <1>3 DEF OnItsWay
<1> QED
  BY <1>1, <1>2, <1>4, StraightWorker

LEMMA StraightRoute ==
  ASSUME Sound, Straight, NEW r \in Routers, NEW t \in RouterStates,
         router' = [router EXCEPT ![r] = t], t.pc # "won", router[r].pc # "won" \/ dropped',
         UNCHANGED <<queue, delivery, worker, replays, crossed>>, dropped => dropped'
  PROVE  Straight'
<1> SUFFICES ASSUME ~ dropped', ~ crossed'
             PROVE  Routes' /\ (delivery'.status = "pending" => OnItsWay')
  BY DEF Straight
<1>1. router'[r] = t /\ \A s \in Routers \ {r} : router'[s] = router[s]
  BY SoundFacts, Travelled
<1>2. Routes /\ (delivery.status = "pending" => OnItsWay)
  BY DEF Straight
<1>3. \A s \in Routers : router'[s].pc = "won" <=> router[s].pc = "won"
  BY <1>1
<1>4. \A s \in Routers : router'[s].pc = "won" => router'[s] = router[s]
  BY <1>1
<1>5. Routes'
  BY <1>2, <1>3, <1>4, SMTT(30) DEF Routes
<1>6. OnItsWay => OnItsWay'
  BY <1>3 DEF OnItsWay, Settling, GivesUp
<1> QED
  BY <1>2, <1>5, <1>6

LEMMA StraightArm ==
  ASSUME Sound, Straight, NEW r \in Routers, NEW how \in {"send", "skipped", "failed"}, Arm(r, how)
  PROVE  Straight'
<1> DEFINE t == router[r]
<1>1. t.pc = "route" /\ UNCHANGED <<queue, revision, worker, replays, comments, faults, dropped>>
  BY DEF Arm
<1>2. t \in RouterStates /\ t.rev > 0 /\ t.log > 0 /\ t.rev \in 0 .. MaxRevision
      /\ t.log \in Keys
  BY <1>1, TripAt, TripFields
<1>3. CASE Newer(t.rev)
  <2> DEFINE u == [t EXCEPT !.pc = "won", !.how = how]
  <2>1. router' = [router EXCEPT ![r] = u] /\ crossed' = (crossed \/ t.log # t.rev)
    BY <1>3 DEF Arm
  <2>2. u \in RouterStates /\ u.pc = "won" /\ u.log = t.log /\ u.rev = t.rev
    BY <1>2, WonTrip
  <2> HIDE DEF u
  <2>3. router'[r] = u /\ \A s \in Routers \ {r} : router'[s] = router[s]
    BY <2>1, <2>2, SoundFacts, Travelled
  <2>4. delivery'.armed = t.rev /\ t.rev > delivery.armed /\ delivery.armed \in Nat
    BY <1>3, ArmRow, SoundFacts, DeliveryFields, SMTT(30)
  <2> SUFFICES ASSUME ~ dropped', ~ crossed'
               PROVE  Routes' /\ (delivery'.status = "pending" => OnItsWay')
    BY DEF Straight
  <2>5. ~ dropped /\ ~ crossed /\ t.log = t.rev
    BY <1>1, <2>1
  <2>6. Routes
    BY <2>5 DEF Straight
  <2>7. \A k \in 1 .. MaxRevision : queue'[k] # Absent => k <= delivery'.armed
    BY <1>1, <1>2, <2>4, <2>6, SMTT(30) DEF Routes
  <2>8. queue[t.log] = Absent
    BY <1>2, <2>4, <2>5, <2>6, SMTT(30) DEF Routes
  <2>9. \A s \in Routers \ {r} : router[s].pc = "won" =>
          /\ router[s].log = router[s].rev /\ router[s].rev <= delivery'.armed
          /\ router[s].log # t.log /\ queue[router[s].log] = Absent
    <3>1. SUFFICES ASSUME NEW s \in Routers \ {r}, router[s].pc = "won"
                   PROVE  /\ router[s].log = router[s].rev /\ router[s].rev <= delivery'.armed
                          /\ router[s].log # t.log /\ queue[router[s].log] = Absent
      OBVIOUS
    <3>2. router[s].rev \in Nat
      BY SoundFacts, TripFields, SMTT(30)
    <3> QED
      BY <1>2, <2>4, <2>5, <2>6, <3>1, <3>2, SMTT(30) DEF Routes
  <2>10. \A s \in Routers : router'[s].pc = "won" =>
           /\ router'[s].log = router'[s].rev /\ router'[s].rev <= delivery'.armed
           /\ queue'[router'[s].log] = Absent
    BY <1>1, <1>2, <2>2, <2>3, <2>4, <2>5, <2>8, <2>9, SMTT(30)
  <2>11. \A p, s \in Routers : p # s /\ router'[p].pc = "won" /\ router'[s].pc = "won"
            => router'[p].log # router'[s].log
    BY <2>2, <2>3, <2>6, <2>9, SMTT(30) DEF Routes
  <2>12. OnItsWay'
    BY <2>2, <2>3 DEF OnItsWay
  <2> QED
    BY <2>7, <2>10, <2>11, <2>12 DEF Routes
<1>4. CASE ~ Newer(t.rev)
  <2>1. router' = [router EXCEPT ![r] = Done(t)] /\ UNCHANGED <<delivery, crossed>>
    BY <1>4 DEF Arm
  <2> QED
    BY <1>1, <1>2, <2>1, DoneFacts, StraightRoute
<1> QED
  BY <1>3, <1>4

LEMMA StraightFinish ==
  ASSUME Sound, Straight, NEW r \in Routers, FinishRoute(r)
  PROVE  Straight'
<1> DEFINE t == router[r]
           u == Done(t)
<1>1. t.pc = "won" /\ router' = [router EXCEPT ![r] = u]
      /\ UNCHANGED <<revision, worker, replays, comments, faults, dropped, crossed>>
  BY DEF FinishRoute
<1>2. t \in RouterStates /\ t.log \in Keys /\ t.log \in 0 .. MaxRevision /\ t.log > 0
      /\ t.how \in {"send", "skipped", "failed"} /\ revision > 0
  BY <1>1, TripAt, TripFields
<1>3. u \in RouterStates /\ u.pc = "idle"
  BY <1>2, DoneFacts
<1> HIDE DEF u
<1>4. router'[r] = u /\ \A s \in Routers \ {r} : router'[s] = router[s]
  BY <1>1, <1>3, SoundFacts, Travelled
<1> SUFFICES ASSUME ~ dropped', ~ crossed'
             PROVE  Routes' /\ (delivery'.status = "pending" => OnItsWay')
  BY DEF Straight
<1>5. Routes
  BY <1>1 DEF Straight
<1>6. CASE t.how = "send" /\ EnqueueEgress(t.log) /\ UNCHANGED delivery
  <2>1. queue[t.log] = Absent /\ t.log <= delivery.armed
    BY <1>1, <1>5 DEF Routes
  <2>2. Row(t.log, "pending", 0, TRUE)
    BY <1>2, <1>6, <2>1, EnqueueRow
  <2>3. queue'[t.log].status = "pending" /\ \A j \in Keys \ {t.log} : queue'[j] = queue[j]
    BY <1>2, <2>2, SoundFacts, RowWritten
  <2>4. OnItsWay'
    BY <1>2, <2>3 DEF OnItsWay
  <2>5. \A s \in Routers \ {r} : router[s].pc = "won" =>
          router[s].log \in Keys \ {t.log}
    BY <1>1, <1>5, TripAt DEF Routes
  <2>6. \A s \in Routers : router'[s].pc = "won" =>
          /\ router'[s].log = router'[s].rev /\ router'[s].rev <= delivery'.armed
          /\ queue'[router'[s].log] = Absent
    BY <1>3, <1>4, <1>5, <1>6, <2>3, <2>5, SMTT(30) DEF Routes
  <2>7. \A p, s \in Routers : p # s /\ router'[p].pc = "won" /\ router'[s].pc = "won"
            => router'[p].log # router'[s].log
    BY <1>3, <1>4, <1>5, SMTT(30) DEF Routes
  <2>8. \A k \in 1 .. MaxRevision : queue'[k] # Absent => k <= delivery'.armed
    <3>1. \A k \in 1 .. MaxRevision : k \in Keys
      BY DeliveryConstants, SMTT(30)
    <3> QED
      BY <1>5, <1>6, <2>1, <2>3, <3>1 DEF Routes
  <2> QED
    BY <2>4, <2>6, <2>7, <2>8 DEF Routes
<1>7. CASE t.how # "send" /\ delivery' = [delivery EXCEPT !.status = t.how] /\ UNCHANGED queue
  <2>1. delivery'.status = t.how /\ delivery'.armed = delivery.armed
    BY <1>1, <1>2, <1>7, StatusFits
  <2>2. Routes'
    BY <1>3, <1>4, <1>5, <1>7, <2>1, SMTT(30) DEF Routes
  <2> QED
    BY <1>2, <1>7, <2>1, <2>2
<1> QED
  BY <1>6, <1>7 DEF FinishRoute

LEMMA StraightRouterFails ==
  ASSUME Sound, Straight, NEW r \in Routers, RouterFails(r)
  PROVE  Straight'
<1>1. dropped' = (dropped \/ router[r].pc = "won")
      /\ router' = [router EXCEPT ![r] = Done(router[r])]
      /\ UNCHANGED <<queue, revision, delivery, worker, replays, comments, crossed>>
  BY DEF RouterFails
<1>2. (dropped => dropped') /\ (router[r].pc # "won" \/ dropped')
  BY <1>1
<1> QED
  BY <1>1, <1>2, TripAt, DoneFacts, StraightRoute

LEMMA StraightFetch ==
  ASSUME Sound, Straight, NEW r \in Routers, NEW e \in 1 .. MaxRevision, FetchResult(r, e)
  PROVE  Straight'
<1> DEFINE t == Trip("route", e, revision)
<1>1. router[r].pc = "idle" /\ router' = [router EXCEPT ![r] = t]
      /\ UNCHANGED <<queue, revision, delivery, worker, replays, comments, faults, dropped, crossed>>
  BY DEF FetchResult
<1>2. t \in RouterStates /\ t.pc = "route"
  BY SoundFacts, TripType, SMTT(30)
<1> HIDE DEF t
<1> QED
  BY <1>1, <1>2, StraightRoute

LEMMA StraightPrepare ==
  ASSUME Sound, ReplayFresh, Straight, PrepareReplay
  PROVE  Straight' /\ ReplayFresh'
<1>1. delivery # NoRow /\ delivery' = [delivery EXCEPT !.status = "pending"]
      /\ replays' = [made |-> replays.made + 1, open |-> TRUE]
      /\ UNCHANGED <<queue, revision, router, worker, comments, faults, dropped, crossed>>
  BY DEF PrepareReplay
<1>2. revision > 0
  BY <1>1 DEF Sound, Begun
<1>3. delivery'.armed = delivery.armed
  BY <1>1, <1>2, StatusFits
<1>4. replays'.open /\ replays'.made = replays.made + 1 /\ replays.made \in Nat
  BY <1>1, ReplayFields, SMTT(30)
<1>5. Routes => Routes'
  BY <1>1, <1>3 DEF Routes
<1>6. ReplayFresh'
  <2>1. \A k \in Keys : k \in Nat
    BY DeliveryConstants, SMTT(30)
  <2>2. MaxRevision \in Nat
    BY DeliveryConstants
  <2> QED
    BY <1>1, <1>4, <2>1, <2>2, SMTT(30) DEF ReplayFresh
<1> QED
  BY <1>1, <1>4, <1>5, <1>6 DEF Straight, OnItsWay

LEMMA StraightReplay ==
  ASSUME Sound, Present, ReplayFresh, Straight, EnqueueReplay
  PROVE  Straight' /\ ReplayFresh' /\ Present'
<1> DEFINE k == MaxRevision + replays.made
<1>1. replays.open /\ EnqueueEgress(k) /\ replays' = [made |-> replays.made, open |-> FALSE]
      /\ UNCHANGED <<revision, delivery, router, worker, comments, faults, dropped, crossed>>
  BY ReplayFields DEF EnqueueReplay
<1>2. replays.made > 0 /\ replays.made \in Nat /\ MaxRevision \in Nat
  BY <1>1, ReplayFields, SMTT(30) DEF ReplayFresh
<1>3. k \in Keys /\ queue[k] = Absent /\ k > MaxRevision
  BY <1>1, <1>2, ReplayKey, SMTT(30) DEF ReplayFresh
<1>4. Row(k, "pending", 0, TRUE)
  BY <1>1, <1>3, EnqueueRow
<1>5. queue'[k].status = "pending" /\ queue'[k] # Absent /\ \A j \in Keys \ {k} : queue'[j] = queue[j]
  BY <1>3, <1>4, SoundFacts, RowWritten
<1>6. Present'
  BY <1>1, <1>5, JobAt DEF Present
<1>7. ReplayFresh'
  <2>1. replays'.made = replays.made /\ ~ replays'.open
    BY <1>1
  <2>2. \A j \in Keys : j > k => queue'[j] = Absent
    <3>1. \A j \in Keys : j > k => j # k
      BY <1>2, SMTT(30)
    <3> QED
      BY <1>5, <3>1 DEF ReplayFresh
  <2> QED
    BY <2>1, <2>2 DEF ReplayFresh
<1>8. Routes => Routes'
  <2>1. \A j \in 1 .. MaxRevision : j \in Keys \ {k}
    BY <1>2, <1>3, DeliveryConstants, SMTT(30)
  <2>2. \A r \in Routers : router[r].pc = "won" => router[r].log \in Keys \ {k}
    BY <1>2, <1>3, TripAt, TripFields, SMTT(30)
  <2> HIDE DEF k
  <2> QED
    BY <1>1, <1>5, <2>1, <2>2 DEF Routes
<1>9. OnItsWay'
  BY <1>3, <1>5 DEF OnItsWay
<1> QED
  BY <1>1, <1>6, <1>7, <1>8, <1>9 DEF Straight

\* Queueing a router's row touches no replay's.
LEMMA FinishFresh ==
  ASSUME Sound, Present, ReplayFresh, NEW r \in Routers, FinishRoute(r)
  PROVE  ReplayFresh' /\ Present'
<1> DEFINE t == router[r]
<1>1. t.pc = "won" /\ UNCHANGED <<worker, replays>>
      /\ (EnqueueEgress(t.log) \/ UNCHANGED queue)
  BY DEF FinishRoute
<1>2. t.log \in Keys /\ t.log \in 0 .. MaxRevision /\ t.log > 0
  BY <1>1, TripAt, TripFields
<1>3. /\ \A j \in Keys \ {t.log} : queue'[j] = queue[j]
      /\ \A j \in Keys : queue[j] # Absent => queue'[j] # Absent
  <2>1. CASE UNCHANGED queue
    BY <2>1
  <2>2. CASE EnqueueEgress(t.log)
    <3>1. IF queue[t.log] = Absent THEN Row(t.log, "pending", 0, TRUE) ELSE queue' = queue
      BY <1>2, <2>2, EnqueueRow
    <3> QED
      BY <1>2, <3>1, SoundFacts, RowWritten
  <2> QED
    BY <1>1, <2>1, <2>2
<1>4. \A j \in Keys :
        j > MaxRevision + replays.made \/ (j = MaxRevision + replays.made /\ replays.open)
          => j # t.log
  BY <1>2, ReplayFields, SMTT(30) DEF ReplayFresh
<1> QED
  BY <1>1, <1>3, <1>4, JobAt DEF ReplayFresh, Present

LEMMA FrameFresh ==
  ASSUME ReplayFresh, Frame
  PROVE  ReplayFresh'
BY DEF ReplayFresh, Frame, NoNew

Way == Present /\ ReplayFresh /\ Straight

LEMMA WayInit ==
  ASSUME DeliveryInit
  PROVE  Way
<1>1. /\ \A k \in Keys : queue[k] = Absent
      /\ \A r \in Routers : router[r].pc = "idle"
      /\ \A w \in Workers : worker[w].pc = "idle"
      /\ delivery.status = "none" /\ replays.open = FALSE
  BY IdleFacts DEF DeliveryInit, OutboxInit, NoRow
<1>2. \A k \in 1 .. MaxRevision : k \in Keys
  BY DeliveryConstants, SMTT(30)
<1> QED
  BY <1>1, <1>2 DEF Way, Present, ReplayFresh, Straight, Routes

LEMMA WayUnmoved ==
  ASSUME Way, UNCHANGED <<queue, delivery, router, worker, replays, dropped, crossed>>
  PROVE  Way'
BY DEF Way, Present, ReplayFresh, Straight, Routes, OnItsWay, Settling, GivesUp

LEMMA WayWorker ==
  ASSUME Sound, Way, NEW w \in Workers, WorkerStep(w)
  PROVE  Way'
<1>1. Straight' /\ Frame /\ Present'
  <2>1. ASSUME NEW outcome \in {"failed", "misconfigured", "refused"}, SendFails(w, outcome)
        PROVE  Straight' /\ Frame /\ Present'
    BY <2>1, StraightSend DEF Way
  <2> QED
    BY <2>1, StraightClaim, StraightRead, StraightSend, StraightMark, StraightReadRow,
       StraightRecord DEF WorkerStep, Way
<1> QED
  BY <1>1, FrameFresh DEF Way

LEMMA WayWorkerFault ==
  ASSUME Sound, Way, NEW w \in Workers,
         Defer(w) \/ AnswerLost(w) \/ MarkQueueFails(w) \/ WorkerFails(w)
  PROVE  Way'
<1>1. Straight' /\ Frame /\ Present'
  BY StraightDefer, StraightSend, StraightMarkFails, StraightWorkerFails DEF Way
<1> QED
  BY <1>1, FrameFresh DEF Way

LEMMA WayRouter ==
  ASSUME Sound, Way, NEW r \in Routers, RouterNext(r)
  PROVE  Way'
<1>1. Straight'
  BY StraightFetch, StraightArm, StraightFinish, StraightRouterFails DEF RouterNext, Way
<1>2. CASE FinishRoute(r)
  BY <1>1, <1>2, FinishFresh DEF Way
<1>3. CASE ~ FinishRoute(r)
  <2>1. UNCHANGED <<queue, worker, replays>>
    BY <1>3 DEF RouterNext, FetchResult, Arm, RouterFails
  <2> QED
    BY <1>1, <2>1 DEF Way, Present, ReplayFresh
<1> QED
  BY <1>2, <1>3

LEMMA WayRow ==
  ASSUME Sound, Way, NEW k \in Keys, DueAgain(k) \/ RequeueDead(k),
         UNCHANGED <<delivery, router, worker, replays, dropped, crossed>>
  PROVE  Way'
<1>1. queue[k].status \in {"pending", "dead"}
      /\ (Row(k, "pending", queue[k].attempts, TRUE) \/ Row(k, "pending", 0, TRUE))
  BY SoundFacts, DueRow, RequeueRow
<1>2. queue[k] # Absent
  BY <1>1, PresentRow
<1>3. queue[k].attempts \in Nat
  BY SoundFacts, RowType, RowFields
<1>4. Straight' /\ Frame /\ Present'
  BY <1>1, <1>2, <1>3, StraightRow DEF Way
<1> QED
  BY <1>4, FrameFresh DEF Way

LEMMA WayReplay ==
  ASSUME Sound, Way, PrepareReplay \/ EnqueueReplay \/ ReplayFails
  PROVE  Way'
<1>1. CASE PrepareReplay
  <2>1. Present'
    BY <1>1 DEF PrepareReplay, Way, Present
  <2> QED
    BY <1>1, <2>1, StraightPrepare DEF Way
<1>2. CASE EnqueueReplay
  BY <1>2, StraightReplay DEF Way
<1>3. CASE ReplayFails
  <2>1. dropped' = TRUE /\ replays' = [made |-> replays.made, open |-> FALSE]
        /\ UNCHANGED <<queue, worker>>
    BY <1>3 DEF ReplayFails
  <2>2. replays'.made = replays.made /\ replays'.open = FALSE
    BY <2>1
  <2> QED
    BY <2>1, <2>2 DEF Way, Present, ReplayFresh, Straight
<1> QED
  BY <1>1, <1>2, <1>3

LEMMA WayStep ==
  ASSUME Sound, Way, [DeliveryNext]_deliveryVars
  PROVE  Way'
<1>1. CASE UNCHANGED deliveryVars
  BY <1>1, WayUnmoved DEF deliveryVars
<1>2. CASE SetResult
  BY <1>2, WayUnmoved DEF SetResult
<1>3. ASSUME NEW w \in Workers, IdleTick(w)
      PROVE  Way'
  BY <1>3, WayUnmoved DEF IdleTick, deliveryVars
<1>4. ASSUME NEW k \in Keys, PassTime(k) \/ LeaseLapses(k) \/ Requeue(k)
      PROVE  Way'
  BY <1>4, WayRow DEF PassTime, LeaseLapses, Requeue
<1>5. ASSUME NEW w \in Workers,
             Defer(w) \/ AnswerLost(w) \/ MarkQueueFails(w) \/ WorkerFails(w)
      PROVE  Way'
  BY <1>5, WayWorkerFault
<1> QED
  BY <1>1, <1>2, <1>3, <1>4, <1>5, WayRouter, WayWorker, WayReplay DEF DeliveryNext

-----------------------------------------------------------------------------
(* How often a row is claimed.                                             *)

\* Workers that still have the outcome of a send to mark on row k.
Running(t) == t.pc \in {"claimed", "ready", "sent"}
Runs(k) == {w \in Workers : Running(worker[w]) /\ worker[w].key = k}
\* Those of them whose failure would bring the row back.
Weak(k) == {w \in Runs(k) : worker[w].attempts < MaxAttempts}
DueNow(k) == IF queue[k].status = "pending" /\ queue[k].due THEN 1 ELSE 0
\* The row will be, or may be, claimed once more.
OnceMore(k) ==
  IF queue[k].status = "pending" /\ (queue[k].due \/ Runs(k) = Weak(k)) THEN 1 ELSE 0

\* Each send beside the first costs a fault; and past the limit so does each
\* claim, claim to come, and failure that would bring the row back.
CountedAt(k) ==
  /\ Cardinality(Runs(k)) + DueNow(k) <= 1 + faults
  /\ queue[k].attempts >= MaxAttempts =>
       queue[k].attempts + Cardinality(Weak(k)) + OnceMore(k) <= MaxAttempts + faults

Counted ==
  /\ \A k \in Keys : CountedAt(k)
  /\ \A w \in Workers : worker[w].pc = "sent" => worker[w].outcome # "none"

\* What is used of the sizes of sets of workers; SizesHold below proves it.
Sizes ==
  /\ Cardinality({}) = 0
  /\ \A S \in SUBSET Workers : \A T \in SUBSET S :
       /\ Cardinality(S) \in Nat /\ Cardinality(T) \in Nat
       /\ Cardinality(T) <= Cardinality(S)
  /\ \A S \in SUBSET Workers : \A w \in Workers :
       /\ w \notin S => Cardinality(S \cup {w}) = Cardinality(S) + 1
       /\ w \in S => Cardinality(S \ {w}) = Cardinality(S) - 1

LEMMA SizeNat ==
  ASSUME Sizes, NEW S \in SUBSET Workers, NEW T \in SUBSET S
  PROVE  /\ Cardinality(S) \in Nat /\ Cardinality(T) \in Nat
         /\ Cardinality(T) <= Cardinality(S)
BY DEF Sizes

LEMMA SizeOne ==
  ASSUME Sizes, NEW S \in SUBSET Workers, NEW w \in Workers
  PROVE  /\ w \notin S => Cardinality(S \cup {w}) = Cardinality(S) + 1
         /\ w \in S => Cardinality(S \ {w}) = Cardinality(S) - 1
BY DEF Sizes

LEMMA NoSize ==
  ASSUME Sizes
  PROVE  Cardinality({}) = 0
BY DEF Sizes

LEMMA RunFacts ==
  ASSUME NEW k \in Keys
  PROVE  /\ Runs(k) \in SUBSET Workers /\ Weak(k) \in SUBSET Runs(k)
         /\ Runs(k)' \in SUBSET Workers /\ Weak(k)' \in SUBSET Runs(k)'
         /\ DueNow(k) \in {0, 1} /\ DueNow(k)' \in {0, 1}
         /\ OnceMore(k) \in {0, 1} /\ OnceMore(k)' \in {0, 1}
BY DEF Runs, Weak, DueNow, OnceMore

\* A worker is done with its row.
LEMMA LeaveRuns ==
  ASSUME Sound, NEW w \in Workers, NEW t \in WorkerStates, worker' = [worker EXCEPT ![w] = t],
         ~ Running(t), NEW k \in Keys
  PROVE  Runs(k)' = Runs(k) \ {w} /\ Weak(k)' = Weak(k) \ {w}
<1>1. worker'[w] = t /\ \A v \in Workers \ {w} : worker'[v] = worker[v]
  BY SoundFacts, Moved
<1> QED
  BY <1>1 DEF Runs, Weak, Running

\* A worker goes on with its row, or with none.
LEMMA StayRuns ==
  ASSUME Sound, NEW w \in Workers, NEW t \in WorkerStates, worker' = [worker EXCEPT ![w] = t],
         Running(t) <=> Running(worker[w]),
         Running(t) => t.key = worker[w].key /\ t.attempts = worker[w].attempts, NEW k \in Keys
  PROVE  Runs(k)' = Runs(k) /\ Weak(k)' = Weak(k)
<1>1. worker'[w] = t /\ \A v \in Workers \ {w} : worker'[v] = worker[v]
  BY SoundFacts, Moved
<1> QED
  BY <1>1 DEF Runs, Weak, Running

\* A worker takes a row.
LEMMA JoinRuns ==
  ASSUME Sound, NEW w \in Workers, NEW t \in WorkerStates, worker' = [worker EXCEPT ![w] = t],
         ~ Running(worker[w]), Running(t), NEW k \in Keys, k = t.key
  PROVE  /\ w \notin Runs(k) /\ Runs(k)' = Runs(k) \cup {w}
         /\ ~ (t.attempts < MaxAttempts) => Weak(k)' = Weak(k)
<1>1. worker'[w] = t /\ \A v \in Workers \ {w} : worker'[v] = worker[v]
  BY SoundFacts, Moved
<1> QED
  BY <1>1 DEF Runs, Weak, Running

LEMMA JoinOther ==
  ASSUME Sound, NEW w \in Workers, NEW t \in WorkerStates, worker' = [worker EXCEPT ![w] = t],
         ~ Running(worker[w]), NEW k \in Keys, k # t.key
  PROVE  Runs(k)' = Runs(k) /\ Weak(k)' = Weak(k)
<1>1. worker'[w] = t /\ \A v \in Workers \ {w} : worker'[v] = worker[v]
  BY SoundFacts, Moved
<1> QED
  BY <1>1 DEF Runs, Weak, Running

\* A row nobody touched.
LEMMA CountSame ==
  ASSUME Sizes, NEW k \in Keys, CountedAt(k), Runs(k)' = Runs(k), Weak(k)' = Weak(k),
         queue'[k] = queue[k], faults \in Nat, faults' \in Nat, faults' >= faults,
         queue[k].attempts \in Nat
  PROVE  CountedAt(k)'
<1>1. DueNow(k)' = DueNow(k) /\ OnceMore(k)' = OnceMore(k)
  BY DEF DueNow, OnceMore
<1>2. Cardinality(Runs(k)) \in Nat /\ Cardinality(Weak(k)) \in Nat
  BY RunFacts, SizeNat
<1> QED
  BY <1>1, <1>2, RunFacts, OutboxConstants, SMTT(30) DEF CountedAt

LEMMA Attempts ==
  ASSUME Sound
  PROVE  /\ \A k \in Keys : queue[k].attempts \in Nat /\ queue[k].due \in BOOLEAN
         /\ faults \in Nat /\ MaxAttempts \in Nat /\ MaxAttempts > 0
BY SoundFacts, RowType, RowFields, DeliveryConstants, OutboxConstants, SMTT(30)

\* A worker gives its row up at the cost of a fault.
LEMMA CountLeft ==
  ASSUME Sizes, Sound, NEW w \in Workers, NEW k \in Keys, CountedAt(k),
         Runs(k)' = Runs(k) \ {w}, Weak(k)' = Weak(k) \ {w}, queue'[k] = queue[k],
         faults' = faults + 1
  PROVE  CountedAt(k)'
<1>1. /\ Cardinality(Runs(k)) \in Nat /\ Cardinality(Weak(k)) \in Nat
      /\ Cardinality(Runs(k)') \in Nat /\ Cardinality(Weak(k)') \in Nat
      /\ Cardinality(Runs(k)') <= Cardinality(Runs(k))
      /\ Cardinality(Weak(k)') <= Cardinality(Weak(k))
  <2>1. Weak(k) \in SUBSET Workers /\ Weak(k)' \in SUBSET Weak(k) /\ Runs(k)' \in SUBSET Runs(k)
    BY RunFacts
  <2> QED
    BY <2>1, RunFacts, SizeNat
<1>2. DueNow(k)' = DueNow(k) /\ OnceMore(k)' <= OnceMore(k) + 1
  BY RunFacts, SMTT(30) DEF DueNow
<1> QED
  BY <1>1, <1>2, Attempts, RunFacts, SMTT(30) DEF CountedAt

LEMMA CountLeave ==
  ASSUME Sizes, Sound, Counted, NEW w \in Workers, NEW t \in WorkerStates,
         worker' = [worker EXCEPT ![w] = t], ~ Running(t), faults' = faults + 1,
         UNCHANGED queue
  PROVE  \A k \in Keys : CountedAt(k)'
BY LeaveRuns, CountLeft DEF Counted

LEMMA SentNamed ==
  ASSUME Sound, Counted, NEW w \in Workers, NEW t \in WorkerStates,
         worker' = [worker EXCEPT ![w] = t], t.pc = "sent" => t.outcome # "none"
  PROVE  \A v \in Workers : worker'[v].pc = "sent" => worker'[v].outcome # "none"
<1>1. worker'[w] = t /\ \A v \in Workers \ {w} : worker'[v] = worker[v]
  BY SoundFacts, Moved
<1> QED
  BY <1>1 DEF Counted

LEMMA CountStay ==
  ASSUME Sizes, Sound, Counted, NEW w \in Workers, NEW t \in WorkerStates,
         worker' = [worker EXCEPT ![w] = t], Running(t) <=> Running(worker[w]),
         Running(t) => t.key = worker[w].key /\ t.attempts = worker[w].attempts,
         t.pc = "sent" => t.outcome # "none", UNCHANGED queue,
         faults' = faults \/ faults' = faults + 1
  PROVE  Counted'
<1>1. faults \in Nat /\ faults' \in Nat /\ faults' >= faults
  BY Attempts, SMTT(30)
<1>2. \A k \in Keys : CountedAt(k)'
  BY <1>1, StayRuns, CountSame, Attempts DEF Counted
<1> QED
  BY <1>2, SentNamed DEF Counted

LEMMA CountClaim ==
  ASSUME Sizes, Sound, Present, Counted, NEW w \in Workers, ClaimEgress(w)
  PROVE  Counted'
<1>1. PICK k \in Keys : queue[k].status = "pending" /\ queue[k].due
        /\ Row(k, "pending", queue[k].attempts + 1, FALSE) /\ queue[k].attempts \in Nat
        /\ worker' = [worker EXCEPT ![w] = Job("claimed", k, queue[k].attempts + 1, 0, "none")]
  BY FrameClaim
<1>2. worker[w].pc = "idle" /\ faults' = faults
  BY DEF ClaimEgress
<1> DEFINE a == queue[k].attempts + 1
           t == Job("claimed", k, a, 0, "none")
<1>3. a \in Nat
  BY <1>1, SMTT(30)
<1>4. /\ queue'[k].status = "pending" /\ queue'[k].attempts = a /\ queue'[k].due = FALSE
      /\ \A j \in Keys \ {k} : queue'[j] = queue[j]
  BY <1>1, <1>3, SoundFacts, RowWritten
<1> HIDE DEF a
<1>5. t \in WorkerStates /\ t.pc = "claimed" /\ t.key = k /\ t.attempts = a
  <2>1. 0 \in Nat /\ 0 \in 0 .. MaxRevision
    BY DeliveryConstants, SMTT(30)
  <2> QED
    BY <1>3, <2>1 DEF Job, WorkerStates
<1>6. worker' = [worker EXCEPT ![w] = t]
  BY <1>1 DEF a
<1> HIDE DEF t
<1>7. ~ Running(worker[w]) /\ Running(t)
  BY <1>2, <1>5 DEF Running
<1>8. ASSUME NEW j \in Keys, j # k
      PROVE  CountedAt(j)'
  <2>1. Runs(j)' = Runs(j) /\ Weak(j)' = Weak(j)
    BY <1>5, <1>6, <1>7, <1>8, JoinOther
  <2>2. queue'[j] = queue[j] /\ CountedAt(j)
    BY <1>4, <1>8 DEF Counted
  <2> QED
    BY <1>2, <2>1, <2>2, CountSame, Attempts, SMTT(30)
<1>9. CountedAt(k)'
  <2>1. /\ w \notin Runs(k) /\ Runs(k)' = Runs(k) \cup {w}
        /\ ~ (a < MaxAttempts) => Weak(k)' = Weak(k)
    BY <1>5, <1>6, <1>7, JoinRuns
  <2>2. /\ Runs(k) \in SUBSET Workers /\ Weak(k) \in SUBSET Runs(k)
        /\ Cardinality(Runs(k)) \in Nat /\ Cardinality(Weak(k)) \in Nat
        /\ Cardinality(Weak(k)) <= Cardinality(Runs(k))
        /\ Cardinality(Runs(k)') = Cardinality(Runs(k)) + 1
    BY <2>1, RunFacts, SizeNat, SizeOne, SMTT(30)
  <2>3. DueNow(k) = 1 /\ DueNow(k)' = 0 /\ OnceMore(k) = 1
    BY <1>1, <1>4 DEF DueNow, OnceMore
  <2>4. Cardinality(Runs(k)) + 1 <= 1 + faults
    BY <2>3 DEF Counted, CountedAt
  <2>5. ASSUME a >= MaxAttempts
        PROVE  a + Cardinality(Weak(k)') + OnceMore(k)' <= MaxAttempts + faults
    <3>1. Weak(k)' = Weak(k)
      BY <1>3, <2>1, <2>5, Attempts, SMTT(30)
    <3>2. Runs(k)' # Weak(k)'
      BY <2>1, <2>2, <3>1
    <3>3. OnceMore(k)' = 0
      BY <1>4, <3>2 DEF OnceMore
    <3>4. CASE queue[k].attempts >= MaxAttempts
      <4>1. queue[k].attempts + Cardinality(Weak(k)) + 1 <= MaxAttempts + faults
        BY <2>3, <3>4 DEF Counted, CountedAt
      <4> QED
        BY <1>1, <2>2, <3>1, <3>3, <4>1, Attempts, SMTT(30) DEF a
    <3>5. CASE ~ (queue[k].attempts >= MaxAttempts)
      <4>1. a = MaxAttempts
        BY <1>1, <2>5, <3>5, Attempts, SMTT(30) DEF a
      <4> QED
        BY <2>2, <2>4, <3>1, <3>3, <4>1, Attempts, LastSum
    <3> QED
      BY <3>4, <3>5
  <2> QED
    BY <1>2, <1>4, <2>2, <2>3, <2>4, <2>5, Attempts, SMTT(30) DEF CountedAt
<1>10. \A v \in Workers : worker'[v].pc = "sent" => worker'[v].outcome # "none"
  BY <1>5, <1>6, SentNamed
<1> QED
  BY <1>8, <1>9, <1>10 DEF Counted

LEMMA CountDefer ==
  ASSUME Sizes, Sound, Counted, NEW w \in Workers, Defer(w)
  PROVE  Counted'
<1>0. worker[w].pc = "claimed" /\ worker[w].key \in Keys
  BY JobAt DEF Defer
<1> PICK k \in Keys : k = worker[w].key
  BY <1>0
<1> DEFINE a == IF queue[k].attempts = 0 THEN 0 ELSE queue[k].attempts - 1
<1>1. DeferEgress(k) /\ worker' = [worker EXCEPT ![w] = WorkerIdle] /\ DeliveryFault
  BY DEF Defer
<1>2. k \in Keys /\ OutboxTypeOK
  BY SoundFacts
<1>3. a \in Nat /\ queue[k].attempts \in Nat /\ a <= queue[k].attempts
      /\ (a > 0 => queue[k].attempts = a + 1)
  BY <1>2, Attempts, SMTT(30)
<1>4. queue' = queue \/ Row(k, "pending", a, FALSE)
  BY <1>1, <1>2, DeferRow
<1> HIDE DEF a
<1>5. faults' = faults + 1 /\ ~ Running(WorkerIdle)
  BY <1>1, FaultCount, IdleFacts DEF Running
<1>6. \A v \in Workers : worker'[v].pc = "sent" => worker'[v].outcome # "none"
  BY <1>1, IdleFacts, SentNamed
<1>7. CASE queue' = queue
  BY <1>1, <1>5, <1>6, <1>7, IdleFacts, CountLeave DEF Counted
<1>8. CASE Row(k, "pending", a, FALSE)
  <2>1. /\ queue'[k].status = "pending" /\ queue'[k].attempts = a /\ queue'[k].due = FALSE
        /\ \A j \in Keys \ {k} : queue'[j] = queue[j]
    BY <1>2, <1>3, <1>8, RowWritten, ZenonT(20)
  <2>2. ASSUME NEW j \in Keys, j # k
        PROVE  CountedAt(j)'
    BY <1>1, <1>5, <2>1, <2>2, IdleFacts, LeaveRuns, CountLeft DEF Counted
  <2>3. Runs(k)' = Runs(k) \ {w} /\ Weak(k)' = Weak(k) \ {w}
    BY <1>1, <1>2, <1>5, IdleFacts, LeaveRuns
  <2>4. /\ Cardinality(Runs(k)) \in Nat /\ Cardinality(Weak(k)) \in Nat
        /\ Cardinality(Runs(k)') \in Nat /\ Cardinality(Weak(k)') \in Nat
        /\ Cardinality(Runs(k)') <= Cardinality(Runs(k))
        /\ Cardinality(Weak(k)') <= Cardinality(Weak(k))
    <3>1. Weak(k) \in SUBSET Workers /\ Weak(k)' \in SUBSET Weak(k) /\ Runs(k)' \in SUBSET Runs(k)
          /\ Runs(k) \in SUBSET Workers
      BY <1>2, <2>3, RunFacts
    <3> QED
      BY <3>1, SizeNat
  <2>5. DueNow(k)' = 0 /\ DueNow(k) \in {0, 1} /\ OnceMore(k) \in {0, 1} /\ OnceMore(k)' \in {0, 1}
    BY <1>2, <2>1, RunFacts DEF DueNow
  <2>6. Cardinality(Runs(k)) + DueNow(k) <= 1 + faults
        /\ (queue[k].attempts >= MaxAttempts =>
              queue[k].attempts + Cardinality(Weak(k)) + OnceMore(k) <= MaxAttempts + faults)
    BY <1>2 DEF Counted, CountedAt
  <2>7. CountedAt(k)'
    BY <1>3, <1>5, <2>1, <2>4, <2>5, <2>6, Attempts, SMTT(30) DEF CountedAt
  <2> QED
    BY <1>6, <2>2, <2>7 DEF Counted
<1> QED
  BY <1>4, <1>7, <1>8

LEMMA CountMark ==
  ASSUME Sizes, Sound, Counted, NEW w \in Workers, MarkQueue(w)
  PROVE  Counted'
<1> DEFINE t == worker[w]
           u == [t EXCEPT !.pc = "marked"]
<1>0. t.key \in Keys
  BY MarkRow
<1> PICK k \in Keys : k = t.key
  BY <1>0
<1>1. t.pc = "sent" /\ k \in Keys /\ queue[k].attempts \in Nat /\ queue[k].due \in BOOLEAN
      /\ worker' = [worker EXCEPT ![w] = u]
  BY MarkRow
<1>2. faults' = faults
  BY DEF MarkQueue
<1>3. u \in WorkerStates /\ u.pc = "marked"
  BY JobAt, MarkedJob
<1> HIDE DEF u
<1>4. ~ Running(u) /\ w \in Runs(k)
  BY <1>1, <1>3 DEF Running, Runs
<1>5. \A v \in Workers : worker'[v].pc = "sent" => worker'[v].outcome # "none"
  BY <1>1, <1>3, SentNamed
<1>6. PICK s \in {"pending", "delivered", "dead"}, d \in BOOLEAN :
        /\ Row(k, s, queue[k].attempts, d)
        /\ s = "pending" => d = FALSE /\ w \in Weak(k)
  <2>1. CASE t.outcome \in {"landed", "refused"} \/ GivesUp(t)
    BY <1>1, <2>1, MarkRow
  <2>2. CASE ~ (t.outcome \in {"landed", "refused"} \/ GivesUp(t))
    <3>1. Row(k, "pending", queue[k].attempts, FALSE)
      BY <2>2, MarkRow
    <3>2. t.outcome = "failed"
      BY <1>1, <2>2, JobAt, JobFields DEF Counted, GivesUp
    <3>3. t.attempts < MaxAttempts
      BY <2>2, <3>2, JobAt, JobFields, Attempts, SMTT(30) DEF GivesUp, Exhausted
    <3>4. w \in Weak(k)
      BY <1>4, <3>3 DEF Weak
    <3> QED
      BY <3>1, <3>4
  <2> QED
    BY <2>1, <2>2
<1>7. /\ queue'[k].status = s /\ queue'[k].attempts = queue[k].attempts /\ queue'[k].due = d
      /\ \A j \in Keys \ {k} : queue'[j] = queue[j]
  <2>1. OutboxTypeOK /\ queue[k].attempts \in Nat /\ Row(k, s, queue[k].attempts, d)
    BY <1>1, <1>6, SoundFacts
  <2> QED
    BY <2>1, KeptAttempts
<1>8. ASSUME NEW j \in Keys, j # k
      PROVE  CountedAt(j)'
  <2>1. w \notin Runs(j) /\ w \notin Weak(j)
    BY <1>8 DEF Runs, Weak
  <2>3. Runs(j)' = Runs(j) \ {w} /\ Weak(j)' = Weak(j) \ {w}
    BY <1>1, <1>3, <1>4, LeaveRuns
  <2>4. Runs(j) \ {w} = Runs(j) /\ Weak(j) \ {w} = Weak(j)
    BY <2>1
  <2>2. Runs(j)' = Runs(j) /\ Weak(j)' = Weak(j)
    BY <2>3, <2>4
  <2> QED
    BY <1>2, <1>7, <1>8, <2>2, CountSame, Attempts, SMTT(30) DEF Counted
<1>9. CountedAt(k)'
  <2>1. Runs(k)' = Runs(k) \ {w} /\ Weak(k)' = Weak(k) \ {w}
    BY <1>1, <1>3, <1>4, LeaveRuns
  <2>2. Runs(k) \in SUBSET Workers /\ Weak(k) \in SUBSET Workers
        /\ Runs(k)' \in SUBSET Runs(k) /\ Weak(k)' \in SUBSET Weak(k)
    BY <1>1, <2>1, RunFacts
  <2>3. /\ Cardinality(Runs(k)) \in Nat /\ Cardinality(Weak(k)) \in Nat
        /\ Cardinality(Runs(k)') \in Nat /\ Cardinality(Weak(k)') \in Nat
        /\ Cardinality(Runs(k)') <= Cardinality(Runs(k))
        /\ Cardinality(Weak(k)') <= Cardinality(Weak(k))
    BY <2>2, SizeNat
  <2>4. w \in Weak(k) => Cardinality(Weak(k)') = Cardinality(Weak(k)) - 1
    BY <2>1, <2>2, SizeOne, SMTT(30)
  <2>5. DueNow(k)' = 0 /\ (s # "pending" => OnceMore(k)' = 0)
    BY <1>6, <1>7 DEF DueNow, OnceMore
  <2>6. DueNow(k) \in {0, 1} /\ OnceMore(k) \in {0, 1} /\ OnceMore(k)' \in {0, 1}
    BY <1>1, RunFacts
  <2>7. Cardinality(Runs(k)) + DueNow(k) <= 1 + faults
        /\ (queue[k].attempts >= MaxAttempts =>
              queue[k].attempts + Cardinality(Weak(k)) + OnceMore(k) <= MaxAttempts + faults)
    BY <1>1 DEF Counted, CountedAt
  <2>8. ASSUME queue[k].attempts >= MaxAttempts
        PROVE  queue[k].attempts + Cardinality(Weak(k)') + OnceMore(k)' <= MaxAttempts + faults
    <3>1. Cardinality(Weak(k)') + OnceMore(k)' <= Cardinality(Weak(k))
      BY <1>6, <2>3, <2>4, <2>5, <2>6, PaidSum
    <3> QED
      BY <1>1, <2>3, <2>6, <2>7, <2>8, <3>1, Attempts, LessSum
  <2>9. Cardinality(Runs(k)') + DueNow(k)' <= 1 + faults
    BY <2>3, <2>5, <2>6, <2>7, Attempts, SMTT(30)
  <2> QED
    BY <1>2, <1>7, <2>8, <2>9 DEF CountedAt
<1> QED
  BY <1>5, <1>8, <1>9 DEF Counted

LEMMA CountRead ==
  ASSUME Sizes, Sound, Counted, NEW w \in Workers, ReadResult(w)
  PROVE  Counted'
<1> DEFINE t == [worker[w] EXCEPT !.pc = "ready", !.body = revision, !.ref = delivery.ref,
                                  !.known = (delivery.landed > 0)]
<1>1. /\ worker[w].pc = "claimed" /\ worker' = [worker EXCEPT ![w] = t]
      /\ t \in WorkerStates /\ t.pc = "ready" /\ t.key = worker[w].key
      /\ t.attempts = worker[w].attempts
      /\ UNCHANGED <<queue, faults>>
  BY ReadFacts
<1> HIDE DEF t
<1>2. Running(t) /\ Running(worker[w])
  BY <1>1 DEF Running
<1> QED
  BY <1>1, <1>2, CountStay

LEMMA CountSend ==
  ASSUME Sizes, Sound, Counted, NEW w \in Workers, worker[w].pc = "ready",
         NEW o \in {"landed", "failed", "misconfigured", "refused"}, NEW ref \in Nat,
         worker' = [worker EXCEPT ![w] = After(worker[w], o, ref)], UNCHANGED queue,
         faults' = faults \/ faults' = faults + 1
  PROVE  Counted'
<1> DEFINE t == After(worker[w], o, ref)
<1>1. t \in WorkerStates /\ t.pc = "sent" /\ t.key = worker[w].key
      /\ t.attempts = worker[w].attempts /\ t.outcome = o
  BY AfterFacts, SMTT(30)
<1>2. worker' = [worker EXCEPT ![w] = t]
  OBVIOUS
<1> HIDE DEF t
<1>3. Running(t) /\ Running(worker[w])
  BY <1>1 DEF Running
<1> QED
  BY <1>1, <1>2, <1>3, CountStay

LEMMA CountLands ==
  ASSUME Sizes, Sound, Counted, NEW w \in Workers, SendLands(w)
  PROVE  Counted'
<1>1. worker[w].pc = "ready" /\ UNCHANGED <<queue, faults>>
  BY DEF SendLands
<1>2. PICK c \in Target(worker[w]) :
        /\ comments' = Written(c, worker[w].body)
        /\ \E ref \in Handles(c) : worker' = [worker EXCEPT ![w] = After(worker[w], "landed", ref)]
  BY DEF SendLands
<1>3. \A ref \in Handles(c) : ref \in Nat
  BY <1>1, <1>2, SendFacts
<1> QED
  BY <1>1, <1>2, <1>3, CountSend

LEMMA CountReadRow ==
  ASSUME Sizes, Sound, Counted, NEW w \in Workers, ReadRow(w)
  PROVE  Counted'
<1> DEFINE u == [worker[w] EXCEPT !.pc = "record", !.armed = delivery.armed]
<1>1. /\ worker[w].pc = "marked" /\ worker' = [worker EXCEPT ![w] = u]
      /\ u \in WorkerStates /\ u.pc = "record" /\ UNCHANGED <<queue, faults>>
  BY ReadRowFacts
<1> HIDE DEF u
<1>2. ~ Running(u) /\ ~ Running(worker[w])
  BY <1>1 DEF Running
<1> QED
  BY <1>1, <1>2, CountStay

LEMMA CountRecord ==
  ASSUME Sizes, Sound, Counted, NEW w \in Workers, RecordResult(w)
  PROVE  Counted'
<1>1. worker[w].pc = "record" /\ worker' = [worker EXCEPT ![w] = WorkerIdle]
      /\ UNCHANGED <<queue, faults>>
  BY DEF RecordResult
<1>2. ~ Running(WorkerIdle) /\ ~ Running(worker[w])
  BY <1>1, IdleFacts DEF Running
<1> QED
  BY <1>1, <1>2, IdleFacts, CountStay

LEMMA CountWorkerFault ==
  ASSUME Sizes, Sound, Counted, NEW w \in Workers, MarkQueueFails(w) \/ WorkerFails(w)
  PROVE  Counted'
<1>1. DeliveryFault /\ UNCHANGED queue
      /\ \/ worker' = [worker EXCEPT ![w] = [worker[w] EXCEPT !.pc = "marked"]]
         \/ worker' = [worker EXCEPT ![w] = WorkerIdle]
  BY MarkUpdate DEF MarkQueueFails, WorkerFails
<1>2. PICK t \in WorkerStates : worker' = [worker EXCEPT ![w] = t] /\ t.pc \in {"marked", "idle"}
  <2> DEFINE u == [worker[w] EXCEPT !.pc = "marked"]
  <2>1. u \in WorkerStates /\ u.pc = "marked"
    BY JobAt, MarkedJob
  <2> HIDE DEF u
  <2> QED
    BY <1>1, <2>1, IdleFacts DEF u
<1>3. ~ Running(t) /\ faults' = faults + 1
  BY <1>1, <1>2, FaultCount DEF Running
<1>4. \A k \in Keys : CountedAt(k)'
  BY <1>1, <1>2, <1>3, CountLeave
<1> QED
  BY <1>2, <1>4, SentNamed DEF Counted

\* Steps that leave the workers alone and write at most one row, none past the
\* limit unless it was to be claimed anyway or a fault pays for it.
LEMMA CountRow ==
  ASSUME Sizes, Sound, Counted, UNCHANGED worker, NEW k \in Keys, NEW a \in Nat,
         Row(k, "pending", a, TRUE), faults' = faults \/ faults' = faults + 1,
         Cardinality(Runs(k)) + 1 <= 1 + faults',
         a >= MaxAttempts => a + Cardinality(Weak(k)) + 1 <= MaxAttempts + faults'
  PROVE  Counted'
<1>1. /\ queue'[k].status = "pending" /\ queue'[k].attempts = a /\ queue'[k].due = TRUE
      /\ \A j \in Keys \ {k} : queue'[j] = queue[j]
  BY SoundFacts, RowWritten
<1>2. \A j \in Keys : Runs(j)' = Runs(j) /\ Weak(j)' = Weak(j)
  BY DEF Runs, Weak, Running
<1>3. faults \in Nat /\ faults' \in Nat /\ faults' >= faults
  BY Attempts, SMTT(30)
<1>4. ASSUME NEW j \in Keys, j # k
      PROVE  CountedAt(j)'
  BY <1>1, <1>2, <1>3, <1>4, CountSame, Attempts DEF Counted
<1>5. DueNow(k)' = 1 /\ OnceMore(k)' = 1
  BY <1>1 DEF DueNow, OnceMore
<1>6. CountedAt(k)'
  BY <1>1, <1>2, <1>5 DEF CountedAt
<1> QED
  BY <1>4, <1>6 DEF Counted

LEMMA CountPassTime ==
  ASSUME Sizes, Sound, Counted, NEW k \in Keys, PassTime(k)
  PROVE  Counted'
<1>1. DueAgain(k) /\ ~ Working(k) /\ UNCHANGED <<worker, faults>>
  BY DEF PassTime
<1>2. queue[k].status = "pending" /\ Row(k, "pending", queue[k].attempts, TRUE)
  BY <1>1, SoundFacts, DueRow
<1>3. Runs(k) = {} /\ Weak(k) = {}
  BY <1>1 DEF Working, Runs, Weak, Running
<1>4. Cardinality(Runs(k)) = 0 /\ Cardinality(Weak(k)) = 0
  BY <1>3, NoSize
<1>5. OnceMore(k) = 1
  BY <1>2, <1>3 DEF OnceMore
<1>6. /\ queue[k].attempts \in Nat /\ faults' = faults /\ Cardinality(Runs(k)) + 1 <= 1 + faults'
      /\ queue[k].attempts >= MaxAttempts =>
           queue[k].attempts + Cardinality(Weak(k)) + 1 <= MaxAttempts + faults'
  BY <1>1, <1>4, <1>5, Attempts, SMTT(30) DEF Counted, CountedAt
<1> QED
  BY <1>1, <1>2, <1>6, CountRow

LEMMA CountLapse ==
  ASSUME Sizes, Sound, Counted, NEW k \in Keys, LeaseLapses(k)
  PROVE  Counted'
<1>1. DueAgain(k) /\ DeliveryFault /\ UNCHANGED worker
  BY DEF LeaseLapses
<1>2. queue[k].status = "pending" /\ Row(k, "pending", queue[k].attempts, TRUE)
  BY <1>1, SoundFacts, DueRow
<1>3. Cardinality(Runs(k)) \in Nat /\ Cardinality(Weak(k)) \in Nat
      /\ DueNow(k) \in {0, 1} /\ OnceMore(k) \in {0, 1}
  BY RunFacts, SizeNat
<1>4. Cardinality(Runs(k)) + DueNow(k) <= 1 + faults
      /\ (queue[k].attempts >= MaxAttempts =>
            queue[k].attempts + Cardinality(Weak(k)) + OnceMore(k) <= MaxAttempts + faults)
  BY DEF Counted, CountedAt
<1>5. faults' = faults + 1 /\ queue[k].attempts \in Nat /\ faults \in Nat /\ MaxAttempts \in Nat
  BY <1>1, FaultCount, Attempts
<1>6. Cardinality(Runs(k)) + 1 <= 1 + faults'
  BY <1>3, <1>4, <1>5, SMTT(30)
<1>7. queue[k].attempts >= MaxAttempts =>
        queue[k].attempts + Cardinality(Weak(k)) + 1 <= MaxAttempts + faults'
  BY <1>3, <1>4, <1>5, SMTT(30)
<1> QED
  BY <1>1, <1>2, <1>5, <1>6, <1>7, CountRow

LEMMA CountRequeue ==
  ASSUME Sizes, Sound, Counted, NEW k \in Keys, Requeue(k)
  PROVE  Counted'
<1>1. RequeueDead(k) /\ DeliveryFault /\ UNCHANGED worker
  BY DEF Requeue
<1>2. Row(k, "pending", 0, TRUE)
  BY <1>1, RequeueRow
<1>3. Cardinality(Runs(k)) \in Nat /\ DueNow(k) \in {0, 1}
  BY RunFacts, SizeNat
<1>4. Cardinality(Runs(k)) + DueNow(k) <= 1 + faults
  BY DEF Counted, CountedAt
<1>5. faults' = faults + 1 /\ faults \in Nat /\ MaxAttempts \in Nat /\ MaxAttempts > 0
  BY <1>1, FaultCount, Attempts
<1>6. Cardinality(Runs(k)) + 1 <= 1 + faults' /\ ~ (0 >= MaxAttempts)
  BY <1>3, <1>4, <1>5, SMTT(30)
<1> QED
  BY <1>1, <1>2, <1>5, <1>6, CountRow

LEMMA CountEnqueue ==
  ASSUME Sizes, Sound, Present, Counted, NEW k \in Keys, EnqueueEgress(k), UNCHANGED <<worker, faults>>
  PROVE  Counted'
<1>1. CASE queue[k] = Absent
  <2>1. Row(k, "pending", 0, TRUE)
    BY <1>1, EnqueueRow
  <2>2. Runs(k) = {}
    BY <1>1 DEF Present, Runs, Running
  <2>3. Cardinality(Runs(k)) = 0
    BY <2>2, NoSize
  <2>4. faults' = faults /\ Cardinality(Runs(k)) + 1 <= 1 + faults' /\ ~ (0 >= MaxAttempts)
    BY <2>3, Attempts, SMTT(30)
  <2> QED
    BY <2>1, <2>4, CountRow
<1>2. CASE queue[k] # Absent
  <2>1. queue' = queue
    BY <1>2, EnqueueRow
  <2> QED
    BY <2>1 DEF Counted, CountedAt, Runs, Weak, Running, DueNow, OnceMore
<1> QED
  BY <1>1, <1>2

LEMMA CountUnmoved ==
  ASSUME Sizes, Sound, Counted, UNCHANGED <<queue, worker>>, faults' = faults \/ faults' = faults + 1
  PROVE  Counted'
<1>1. \A j \in Keys : Runs(j)' = Runs(j) /\ Weak(j)' = Weak(j)
  BY DEF Runs, Weak, Running
<1>2. faults \in Nat /\ faults' \in Nat /\ faults' >= faults
  BY Attempts, SMTT(30)
<1>3. \A j \in Keys : CountedAt(j)'
  BY <1>1, <1>2, CountSame, Attempts DEF Counted
<1> QED
  BY <1>3 DEF Counted

-----------------------------------------------------------------------------
(* The invariant as a whole.                                               *)

LEMMA CountInit ==
  ASSUME Sizes, DeliveryInit
  PROVE  Counted
<1>1. /\ \A k \in Keys : queue[k] = Absent
      /\ \A w \in Workers : worker[w].pc = "idle"
      /\ faults = 0
  BY IdleFacts DEF DeliveryInit, OutboxInit
<1>2. ASSUME NEW k \in Keys
      PROVE  CountedAt(k)
  <2>1. Runs(k) = {}
    BY <1>1 DEF Runs, Running
  <2>2. Cardinality(Runs(k)) = 0
    BY <2>1, NoSize
  <2>3. queue[k].attempts = 0 /\ queue[k].due = FALSE
    BY <1>1, SMTT(30) DEF Absent
  <2>4. DueNow(k) = 0 /\ ~ (queue[k].attempts >= MaxAttempts)
    BY <2>3, OutboxConstants, SMTT(30) DEF DueNow
  <2> QED
    BY <1>1, <2>2, <2>4, SMTT(30) DEF CountedAt
<1> QED
  BY <1>1, <1>2 DEF Counted

LEMMA CountRouter ==
  ASSUME Sizes, Sound, Way, Counted, NEW r \in Routers, RouterNext(r)
  PROVE  Counted'
<1>1. CASE UNCHANGED <<queue, worker>> /\ (faults' = faults \/ faults' = faults + 1)
  BY <1>1, CountUnmoved
<1>2. CASE FinishRoute(r) /\ EnqueueEgress(router[r].log)
  <2>1. UNCHANGED <<worker, faults>> /\ router[r].pc = "won"
    BY <1>2 DEF FinishRoute
  <2>2. router[r].log \in Keys
    BY <2>1, TripAt, TripFields
  <2>3. PICK k \in Keys : k = router[r].log
    BY <2>2
  <2> QED
    BY <1>2, <2>1, <2>3, CountEnqueue DEF Way
<1> QED
  BY <1>1, <1>2 DEF RouterNext, FetchResult, Arm, FinishRoute, RouterFails, DeliveryFault

LEMMA CountReplay ==
  ASSUME Sizes, Sound, Way, Counted, EnqueueReplay
  PROVE  Counted'
<1>1. EnqueueEgress(MaxRevision + replays.made) /\ replays.open /\ UNCHANGED <<worker, faults>>
  BY DEF EnqueueReplay
<1>2. replays.made \in 0 .. MaxReplays /\ replays.made > 0
  BY <1>1, ReplayFields, SoundFacts DEF Way, ReplayFresh
<1>3. PICK k \in Keys : k = MaxRevision + replays.made
  BY <1>2, DeliveryConstants, SMTT(30)
<1> QED
  BY <1>1, <1>3, CountEnqueue DEF Way

LEMMA CountStep ==
  ASSUME Sizes, Sound, Way, Counted, [DeliveryNext]_deliveryVars
  PROVE  Counted'
<1>1. CASE UNCHANGED <<queue, worker>> /\ (faults' = faults \/ faults' = faults + 1)
  BY <1>1, CountUnmoved
<1>2. ASSUME NEW r \in Routers, RouterNext(r)
      PROVE  Counted'
  BY <1>2, CountRouter
<1>3. ASSUME NEW w \in Workers, WorkerStep(w)
      PROVE  Counted'
  <2>1. ASSUME NEW o \in {"failed", "misconfigured", "refused"}, SendFails(w, o)
        PROVE  Counted'
    BY <2>1, CountSend DEF SendFails
  <2>2. CASE ClaimEgress(w) \/ ReadResult(w) \/ SendLands(w)
    BY <2>2, CountClaim, CountRead, CountLands DEF Way
  <2>3. CASE MarkQueue(w) \/ ReadRow(w) \/ RecordResult(w)
    BY <2>3, CountMark, CountReadRow, CountRecord
  <2> QED
    BY <1>3, <2>1, <2>2, <2>3 DEF WorkerStep
<1>4. ASSUME NEW w \in Workers, Defer(w) \/ AnswerLost(w) \/ MarkQueueFails(w) \/ WorkerFails(w)
      PROVE  Counted'
  <2>1. CASE AnswerLost(w)
    BY <2>1, CountSend DEF AnswerLost, DeliveryFault
  <2> QED
    BY <1>4, <2>1, CountDefer, CountWorkerFault
<1>5. ASSUME NEW k \in Keys, PassTime(k) \/ LeaseLapses(k) \/ Requeue(k)
      PROVE  Counted'
  BY <1>5, CountPassTime, CountLapse, CountRequeue, SMTT(30)
<1>6. CASE EnqueueReplay
  BY <1>6, CountReplay
<1>7. CASE SetResult \/ PrepareReplay \/ ReplayFails \/ UNCHANGED deliveryVars
           \/ \E w \in Workers : IdleTick(w)
  BY <1>1, <1>7 DEF SetResult, PrepareReplay, ReplayFails, DeliveryFault, IdleTick, deliveryVars
<1> QED
  BY <1>2, <1>3, <1>4, <1>5, <1>6, <1>7 DEF DeliveryNext

-----------------------------------------------------------------------------
(* The theorems.                                                           *)

Delivering == Sound /\ Way /\ Counted

\* The library's facts on finite sets come in only here, where few leaves see them.
INSTANCE FiniteSetTheorems

LEMMA SizesHold == Sizes
<1>1. \A S \in SUBSET Workers : IsFiniteSet(S)
  BY DeliveryConstants, FS_Subset
<1>2. \A S \in SUBSET Workers : \A T \in SUBSET S : Cardinality(T) <= Cardinality(S)
  BY <1>1, FS_Subset
<1>3. \A S \in SUBSET Workers : Cardinality(S) \in Nat
  BY <1>1, FS_CardinalityType
<1>4. \A S \in SUBSET Workers : \A w \in Workers :
        /\ w \notin S => Cardinality(S \cup {w}) = Cardinality(S) + 1
        /\ w \in S => Cardinality(S \ {w}) = Cardinality(S) - 1
  BY <1>1, FS_AddElement, FS_RemoveElement
<1>5. Cardinality({}) = 0
  BY FS_EmptySet
<1> QED
  BY <1>2, <1>3, <1>4, <1>5 DEF Sizes

\* Delivering is inductive: it holds initially and every step keeps it.
LEMMA DeliveringHolds == DeliverySpec => []Delivering
<1>1. DeliveryInit => Delivering
  BY SoundInit, WayInit, CountInit, SizesHold DEF Delivering
<1>2. Delivering /\ [DeliveryNext]_deliveryVars => Delivering'
  <2> SUFFICES ASSUME Delivering, [DeliveryNext]_deliveryVars
               PROVE  Delivering'
    OBVIOUS
  <2>1. Sound /\ Way /\ Counted /\ (replays.open => replays.made > 0)
    BY DEF Delivering, Way, ReplayFresh
  <2>2. Sound'
    BY <2>1, SoundStep
  <2>3. Way' /\ Counted'
    BY <2>1, WayStep, CountStep, SizesHold
  <2> QED
    BY <2>2, <2>3 DEF Delivering
<1> QED
  BY <1>1, <1>2, PTL DEF DeliverySpec

\* Whatever routers, workers and operators do, and whatever fails between their
\* statements, every table row and every task stays well formed: a status is one of
\* the declared ones, a comment shows a revision that was set.
THEOREM DeliveryWellFormed == DeliverySpec => []DeliveryTypeOK
<1>1. Delivering => DeliveryTypeOK
  BY DEF Delivering, Sound
<1> QED
  BY <1>1, DeliveringHolds, PTL

\* The handle that record_result_delivered stores is always that of a comment GitHub
\* has, so deliver_github_result_comment can edit it, and a landed revision is one
\* that arm_at armed.
THEOREM HandlesExist == DeliverySpec => []HandleExists
<1>1. Delivering => HandleExists
  BY DEF Delivering, Sound, Handled
<1> QED
  BY <1>1, DeliveringHolds, PTL

\* A delivery the status API shows as pending is on its way, unless a fault fell
\* between two statements of one delivery or a router armed under an older event.
THEOREM PendingOnItsWay == DeliverySpec => []PendingUnlessCrossed
<1>1. Delivering => PendingUnlessCrossed
  BY DEF Delivering, Way, Straight, OnItsWay, Settling, PendingUnlessCrossed,
     PendingIsQueued, BeingDelivered
<1> QED
  BY <1>1, DeliveringHolds, PTL

\* mark_failed is not fenced by the lease, and yet an outbox row is claimed at most
\* MaxAttempts times plus once for each fault.
THEOREM AttemptsStayBounded == DeliverySpec => []AttemptsBounded
<1>1. Delivering => AttemptsBounded
  <2> SUFFICES ASSUME Delivering, NEW k \in Keys
               PROVE  queue[k].attempts <= MaxAttempts + faults
    BY DEF AttemptsBounded
  <2>1. CountedAt(k) /\ Sound
    BY DEF Delivering, Counted
  <2>2. Runs(k) \in SUBSET Workers /\ Weak(k) \in SUBSET Runs(k) /\ OnceMore(k) \in {0, 1}
    BY RunFacts
  <2>3. Cardinality(Weak(k)) \in Nat
    BY <2>2, SizeNat, SizesHold
  <2> QED
    BY <2>1, <2>2, <2>3, Attempts, SMTT(30) DEF CountedAt
<1> QED
  BY <1>1, DeliveringHolds, PTL

=============================================================================
