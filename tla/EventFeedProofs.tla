--------------------------- MODULE EventFeedProofs ---------------------------
(***************************************************************************)
(* Theorems about the event log, its outbox and the relays, for any number *)
(* of workspaces, sessions, relays, events and faults, and about a         *)
(* consumer's stream over them.  The lock holder's view is what makes the  *)
(* log's invariant inductive: a chain is linear in the committed rows and  *)
(* also in what each open transaction sees.                                *)
(***************************************************************************)
EXTENDS OutboxRelay, EventStreams, FiniteSetTheorems, TLAPS

USE Zenon, SMTT(30)

\* What the log's transactions keep, open ones included.
IdsTaken ==
  /\ \A i \in log : i <= nextId
  /\ \A x \in Txns : \A i \in open[x] : i <= nextId

\* The advisory lock: no two open transactions append to one workspace.
LockHeld ==
  \A x, y \in Txns : x # y =>
    \A i \in open[x], j \in open[y] : home[i] # home[j]

\* What a transaction has appended comes after everything committed.
OpenIsNewer ==
  \A x \in Txns : \A i \in open[x], j \in log : home[i] = home[j] => j < i

\* Row i follows the newest of the rows S that come before it in its workspace.
Follows(i, S) ==
  LET before == {j \in Of(home[i], S) : j < i}
  IN  /\ link[i] \in before \cup {0}
      /\ \A j \in before : j <= link[i]

\* The chain an open transaction sees is linear.
ViewLinear == \A x \in Txns : \A i \in open[x] : Follows(i, log \cup open[x])

LogColumns ==
  /\ nextId \in 0..MaxId
  /\ home \in [Ids -> Workspaces \cup {None}]
  /\ link \in [Ids -> 0..MaxId]
  /\ open \in [Txns -> SUBSET Ids]
  /\ log \in SUBSET Ids

LogInv ==
  LogColumns /\ IdsTaken /\ LockHeld /\ OpenIsNewer /\ ViewLinear /\ ChainLinear

LEMMA ChainByRow == ChainLinear <=> \A i \in log : Follows(i, log)
  BY DEF ChainLinear, Follows

LEMMA LogInitial == LogInit => LogInv
  BY LogConstants, SMTT(30) DEF LogInit, LogInv, LogColumns, IdsTaken, LockHeld, OpenIsNewer,
                      ViewLinear, ChainLinear, Ids

\* An append by x to w: the rows that were there stay, nobody else writes w.
Appended(x, w) ==
  /\ nextId + 1 \in Ids
  /\ \A i \in Ids : i <= nextId => home'[i] = home[i] /\ link'[i] = link[i]
  /\ home'[nextId + 1] = w
  /\ open'[x] = open[x] \cup {nextId + 1}
  /\ \A y \in Txns : y # x => open'[y] = open[y]
  /\ log' = log
  /\ nextId' = nextId + 1
  /\ \A y \in Txns : y # x => \A j \in open[y] : home[j] # w
  /\ IsChainHead(x, w, link'[nextId + 1])

LEMMA AppendKeeps ==
  ASSUME LogInv, NEW x \in Txns, NEW w \in Workspaces, AppendEvent(x, w)
  PROVE  Appended(x, w)
  BY LogConstants, SMTT(30) DEF LogInv, LogColumns, AppendEvent, CanLock, Of, Ids, Appended

LEMMA AppendInv ==
  ASSUME LogInv, NEW x \in Txns, NEW w \in Workspaces, AppendEvent(x, w)
  PROVE  LogInv'
<1> DEFINE n == nextId + 1
<1>0. Appended(x, w)
  BY AppendKeeps
<1>1. LogColumns'
  BY LogConstants, SMTT(30) DEF LogInv, LogColumns, AppendEvent, Ids
<1>2. IdsTaken'
  BY <1>0, SMTT(30) DEF Appended, LogInv, LogColumns, IdsTaken, Ids
<1>3. LockHeld'
  <2>1. SUFFICES ASSUME NEW y \in Txns, NEW z \in Txns, y # z,
                        NEW i \in open'[y], NEW j \in open'[z]
                 PROVE  home'[i] # home'[j]
    BY DEF LockHeld
  <2>2. CASE i = n
    BY <2>1, <2>2, <1>0, SMTT(30) DEF Appended, LogInv, LogColumns, IdsTaken, Ids
  <2>3. CASE j = n
    BY <2>1, <2>3, <1>0, SMTT(30) DEF Appended, LogInv, LogColumns, IdsTaken, Ids
  <2>4. CASE i # n /\ j # n
    BY <2>1, <2>4, <1>0, SMTT(30) DEF Appended, LogInv, LogColumns, IdsTaken, LockHeld, Ids
  <2> QED BY <2>2, <2>3, <2>4
<1>4. OpenIsNewer'
  BY <1>0, SMTT(30) DEF Appended, LogInv, LogColumns, IdsTaken, OpenIsNewer, Ids
<1>5. ViewLinear'
  <2>1. SUFFICES ASSUME NEW y \in Txns, NEW i \in open'[y]
                 PROVE  Follows(i, log \cup open[y])'
    BY DEF ViewLinear
  <2>0. /\ n \in Nat
        /\ \A j \in log \cup open[y] :
             j \in Ids /\ j \in Nat /\ j < n /\ home'[j] = home[j]
    BY <1>0, LogConstants, SMTT(30) DEF Appended, LogInv, LogColumns, IdsTaken, Ids
  <2>2. CASE i = n
    <3>1. y = x
      BY <2>1, <2>2, <1>0 DEF Appended, LogInv, LogColumns, IdsTaken, Ids
    <3>2. {j \in Of(home[i], log \cup open[y]) : j < i}' = Of(w, log \cup open[x])
      BY <3>1, <2>2, <2>0, <1>0, SMTT(30) DEF Appended, Of
    <3> QED BY <3>2, <2>2, <1>0 DEF Appended, Follows, IsChainHead
  <2>3. CASE i # n
    <3>1. i \in open[y] /\ i \in Ids /\ i <= nextId
      BY <2>1, <2>3, <1>0 DEF Appended, LogInv, LogColumns, IdsTaken
    <3>2. {j \in Of(home[i], log \cup open[y]) : j < i}'
            = {j \in Of(home[i], log \cup open[y]) : j < i}
      <4>1. home'[i] = home[i] /\ i < n /\ i \in Nat
        BY <3>1, <2>0
      <4>2. open'[y] = open[y] \/ open'[y] = open[y] \cup {n}
        BY <1>0 DEF Appended
      <4>3. log' = log
        BY <1>0 DEF Appended
      <4> HIDE DEF n
      <4>4. ~ (n < i)
        BY <4>1, <2>0, SMTT(30)
      <4> QED BY <4>1, <4>2, <4>3, <4>4, <2>0 DEF Of
    <3>3. Follows(i, log \cup open[y]) /\ link'[i] = link[i]
      BY <3>1, <1>0 DEF Appended, LogInv, ViewLinear
    <3> QED BY <3>2, <3>3 DEF Follows
  <2> QED BY <2>2, <2>3
<1>6. ChainLinear'
  <2>1. SUFFICES ASSUME NEW i \in log PROVE Follows(i, log)'
    BY <1>0 DEF Appended, ChainLinear, Follows
  <2>2. i \in Ids /\ i <= nextId
    BY <2>1 DEF LogInv, LogColumns, IdsTaken
  <2>3. {j \in Of(home[i], log) : j < i}' = {j \in Of(home[i], log) : j < i}
    BY <2>2, <1>0, SMTT(30) DEF Appended, LogInv, LogColumns, IdsTaken, Of
  <2>4. Follows(i, log) /\ link'[i] = link[i]
    BY <2>1, <2>2, <1>0 DEF Appended, LogInv, ChainLinear, Follows
  <2> QED BY <2>3, <2>4 DEF Follows
<1> QED BY <1>1, <1>2, <1>3, <1>4, <1>5, <1>6 DEF LogInv

LEMMA CommitInv ==
  ASSUME LogInv, NEW x \in Txns, Commit(x)
  PROVE  LogInv'
<1>0. /\ log' = log \cup open[x] /\ home' = home /\ link' = link /\ nextId' = nextId
      /\ open'[x] = {}
      /\ \A y \in Txns : y # x => open'[y] = open[y]
  BY DEF Commit, LogInv, LogColumns
<1>i. \A y \in Txns : open[y] \subseteq Ids
  BY DEF LogInv, LogColumns
<1>1. LogColumns'
  BY LogConstants DEF LogInv, LogColumns, Commit, Ids
<1>2. IdsTaken'
  BY <1>0 DEF LogInv, IdsTaken
<1>3. LockHeld'
  BY <1>0, SMTT(30) DEF LogInv, LockHeld
<1>4. OpenIsNewer'
  <2>1. SUFFICES ASSUME NEW y \in Txns, NEW i \in open'[y], NEW j \in log',
                        home[i] = home[j]
                 PROVE  j < i
    BY <1>0 DEF OpenIsNewer
  <2>2. y # x /\ i \in open[y]
    BY <2>1, <1>0
  <2>3. j \notin open[x]
    BY <2>1, <2>2 DEF LogInv, LockHeld
  <2> QED BY <2>1, <2>2, <2>3, <1>0 DEF LogInv, OpenIsNewer
<1>5. ViewLinear'
  <2>1. SUFFICES ASSUME NEW y \in Txns, NEW i \in open'[y]
                 PROVE  Follows(i, log \cup open[y])'
    BY DEF ViewLinear
  <2>2. y # x /\ i \in open[y]
    BY <2>1, <1>0
  <2>3. \A j \in open[x] : home[j] # home[i]
    BY <2>2 DEF LogInv, LockHeld
  <2>4. {j \in Of(home[i], log \cup open[y]) : j < i}'
          = {j \in Of(home[i], log \cup open[y]) : j < i}
    BY <2>2, <2>3, <1>0 DEF Of
  <2>5. Follows(i, log \cup open[y])
    BY <2>2 DEF LogInv, ViewLinear
  <2> QED BY <2>4, <2>5, <1>0 DEF Follows
<1>6. ChainLinear'
  <2>1. SUFFICES ASSUME NEW i \in log' PROVE Follows(i, log)'
    BY DEF ChainLinear, Follows
  <2>2. CASE i \in open[x]
    <3>1. Follows(i, log \cup open[x])
      BY <2>2 DEF LogInv, ViewLinear
    <3> QED BY <3>1, <1>0 DEF Follows, Of
  <2>3. CASE i \in log
    <3>1. i \in Nat /\ \A j \in open[x] : home[j] = home[i] => i < j /\ j \in Nat
      BY <2>3, <1>i, SMTT(30) DEF LogInv, LogColumns, OpenIsNewer, Ids
    <3>2. {j \in Of(home[i], log) : j < i}' = {j \in Of(home[i], log) : j < i}
      BY <3>1, <1>0, SMTT(30) DEF Of
    <3>3. Follows(i, log)
      BY <2>3 DEF LogInv, ChainLinear, Follows
    <3> QED BY <3>2, <3>3, <1>0 DEF Follows
  <2> QED BY <2>1, <2>2, <2>3, <1>0
<1> QED BY <1>1, <1>2, <1>3, <1>4, <1>5, <1>6 DEF LogInv

LEMMA RollbackInv ==
  ASSUME LogInv, NEW x \in Txns, Rollback(x)
  PROVE  LogInv'
<1>0. /\ log' = log /\ home' = home /\ link' = link /\ nextId' = nextId
      /\ \A y \in Txns : open'[y] = {} \/ open'[y] = open[y]
  BY DEF Rollback, LogInv, LogColumns
<1>1. LogColumns'
  BY LogConstants DEF LogInv, LogColumns, Rollback, Ids
<1>2. IdsTaken' /\ LockHeld' /\ OpenIsNewer'
  BY <1>0, SMTT(30) DEF LogInv, IdsTaken, LockHeld, OpenIsNewer
<1>3. ViewLinear'
  <2>1. SUFFICES ASSUME NEW y \in Txns, NEW i \in open'[y]
                 PROVE  Follows(i, log \cup open[y])'
    BY SMTT(30) DEF ViewLinear
  <2>2. open'[y] = open[y]
    BY <2>1, <1>0
  <2>3. Follows(i, log \cup open[y])
    BY <2>1, <2>2 DEF LogInv, ViewLinear
  <2> QED BY <2>2, <2>3, <1>0 DEF Follows, Of
<1>4. ChainLinear'
  BY <1>0 DEF LogInv, ChainLinear, Of
<1> QED BY <1>1, <1>2, <1>3, <1>4 DEF LogInv

LEMMA LogStep ==
  ASSUME LogInv, [LogNext]_logVars
  PROVE  LogInv'
<1>1. CASE UNCHANGED logVars
  BY <1>1, SMTT(30) DEF logVars, LogInv, LogColumns, IdsTaken, LockHeld, OpenIsNewer, ViewLinear,
              Follows, Of, ChainLinear
<1>2. ASSUME NEW x \in Txns, NEW w \in Workspaces, AppendEvent(x, w) PROVE LogInv'
  BY <1>2, AppendInv
<1>3. ASSUME NEW x \in Txns, Commit(x) PROVE LogInv'
  BY <1>3, CommitInv
<1>4. ASSUME NEW x \in Txns, Rollback(x) PROVE LogInv'
  BY <1>4, RollbackInv, SMTT(30)
<1> QED BY <1>1, <1>2, <1>3, <1>4 DEF LogNext

\* Only a commit adds rows, and what it adds comes after what was there.
LEMMA LogOrder ==
  ASSUME LogInv, [LogNext]_logVars
  PROVE  \A i \in log' \ log, j \in log : home'[i] = home[j] => j < i
<1>1. CASE log' = log
  BY <1>1
<1>2. ASSUME NEW x \in Txns, Commit(x)
      PROVE  \A i \in log' \ log, j \in log : home'[i] = home[j] => j < i
  BY <1>2 DEF Commit, LogInv, OpenIsNewer
<1> QED BY <1>1, <1>2 DEF LogNext, AppendEvent, Rollback, logVars
-----------------------------------------------------------------------------
\* A relay that has a failed row in hand took it from its batch.
HandTaken == \A r \in Relays : relay[r].pc \in {"failing", "counted"} => relay[r].hand \in Ids

\* A batch is of committed rows, and what the tick counts as done was announced.
BatchCommitted == \A r \in Relays : relay[r].todo \subseteq log
DoneWasSent == \A r \in Relays : relay[r].done \subseteq sent

RelayTick == [pc : {"idle", "relaying", "failing", "counted"},
              todo : SUBSET Ids, done : SUBSET Ids, hand : 0..MaxId]

RelayColumns ==
  /\ faults \in 0..MaxFaults
  /\ published \in SUBSET Ids
  /\ quarantined \in SUBSET Ids
  /\ attempts \in [Ids -> 0..MaxAttempts]
  /\ claim \in [Ids -> {"free", "live", "lapsed"}]
  /\ relay \in [Relays -> RelayTick]
  /\ sent \in SUBSET Ids

RelayInv ==
  RelayColumns /\ HandTaken /\ BatchCommitted /\ DoneWasSent /\ MarkedWasSent

LEMMA TypesTogether == LogColumns /\ RelayColumns => TypeOK
  BY DEF LogColumns, RelayColumns, RelayTick, TypeOK, LogTypeOK

LEMMA RelayInitial == Init => RelayInv /\ LogInv
<1>1. Init => LogInv
  BY LogInitial DEF Init, FeedInit
<1>2. Init => RelayInv
  BY LogConstants, RelayConstants, SMTT(30)
     DEF Init, FeedInit, LogInit, Idle, RelayInv, RelayColumns, RelayTick, HandTaken,
         BatchCommitted, DoneWasSent, MarkedWasSent, Ids
<1> QED BY <1>1, <1>2

\* What a step does to the log is a step of the log.
LEMMA NextLog == [Next]_vars => [LogNext]_logVars
  BY ZenonT(20) DEF Next, vars, logVars, Write, Tick, ClaimPending, EmptyTick, Publish, PublishFails,
         RecordAttempt, Quarantine, MarkPublished, Abort, Lapse, ReplayQuarantined

\* Rows stay.
LEMMA LogGrows == [LogNext]_logVars => log \subseteq log'
  BY DEF LogNext, logVars, AppendEvent, Commit, Rollback

LEMMA ClaimPendingInv ==
  ASSUME RelayInv, LogInv, NEW r \in Relays, ClaimPending(r)
  PROVE  RelayInv'
<1>1. PICK batch \in SUBSET {i \in Ids : Claimable(i)} :
        /\ claim' = [i \in Ids |-> IF i \in batch THEN "live" ELSE claim[i]]
        /\ relay' = [relay EXCEPT ![r] = [pc |-> "relaying", todo |-> batch,
                                          done |-> {}, hand |-> 0]]
  BY DEF ClaimPending
<1>2. batch \subseteq log /\ batch \subseteq Ids
  BY <1>1 DEF Claimable, Relayable, Rows
<1>3. UNCHANGED <<log, published, quarantined, attempts, sent, faults>>
  BY DEF ClaimPending, logVars
<1>5. RelayColumns'
  BY <1>1, <1>2, <1>3, LogConstants, SMTT(30) DEF RelayInv, RelayColumns, RelayTick
<1> QED BY <1>1, <1>2, <1>3, <1>5
       DEF RelayInv, RelayColumns, HandTaken, BatchCommitted, DoneWasSent, MarkedWasSent

LEMMA PublishInv ==
  ASSUME RelayInv, NEW r \in Relays, NEW i \in Ids, Publish(r, i)
  PROVE  RelayInv'
<1>1. RelayColumns'
  BY ZenonT(20) DEF RelayInv, RelayColumns, RelayTick, Publish, outboxVars
<1> QED BY <1>1, SMTT(30) DEF RelayInv, RelayColumns, RelayTick, Publish, outboxVars, logVars,
                    HandTaken, BatchCommitted, DoneWasSent, MarkedWasSent

LEMMA PublishFailsInv ==
  ASSUME RelayInv, NEW r \in Relays, NEW i \in Ids, PublishFails(r, i)
  PROVE  RelayInv'
<1>1. i \in 0..MaxId /\ faults' \in 0..MaxFaults
  BY LogConstants, SMTT(30) DEF RelayInv, RelayColumns, PublishFails, Fault, Ids
<1>2. relay' \in [Relays -> RelayTick]
  BY <1>1, SMTT(30) DEF RelayInv, RelayColumns, RelayTick, PublishFails
<1>3. RelayColumns'
  BY <1>1, <1>2 DEF RelayInv, RelayColumns, PublishFails, outboxVars
<1> QED BY <1>3, SMTT(30) DEF RelayInv, RelayColumns, RelayTick, PublishFails, outboxVars, logVars,
                    HandTaken, BatchCommitted, DoneWasSent, MarkedWasSent

LEMMA RecordAttemptInv ==
  ASSUME RelayInv, NEW r \in Relays, RecordAttempt(r)
  PROVE  RelayInv'
<1>1. relay[r].hand \in Ids
  BY DEF RelayInv, HandTaken, RecordAttempt
<1>2. RelayColumns'
  BY <1>1, RelayConstants, SMTT(30) DEF RelayInv, RelayColumns, RelayTick, RecordAttempt
<1> QED BY <1>1, <1>2, SMTT(30) DEF RelayInv, RelayColumns, RelayTick, RecordAttempt, logVars,
                    HandTaken, BatchCommitted, DoneWasSent, MarkedWasSent

LEMMA QuarantineInv ==
  ASSUME RelayInv, NEW r \in Relays, Quarantine(r)
  PROVE  RelayInv'
<1>1. relay[r].hand \in Ids
  BY DEF RelayInv, HandTaken, Quarantine
<1>2. RelayColumns'
  BY <1>1, LogConstants, SMTT(30) DEF RelayInv, RelayColumns, RelayTick, Quarantine, Fault
<1> QED BY <1>1, <1>2, SMTT(30) DEF RelayInv, RelayColumns, RelayTick, Quarantine, logVars,
                    HandTaken, BatchCommitted, DoneWasSent, MarkedWasSent

\* The end of a tick, kept or not.
LEMMA TickEndsInv ==
  ASSUME RelayInv, LogInv, NEW r \in Relays, MarkPublished(r) \/ Abort(r)
  PROVE  RelayInv'
<1>1. relay' = [relay EXCEPT ![r] = Idle] /\ UNCHANGED <<log, quarantined, attempts, claim, sent>>
  BY DEF MarkPublished, Abort, logVars, outboxVars
<1>2. published' \subseteq published \cup relay[r].done /\ faults' \in 0..MaxFaults
  BY LogConstants, SMTT(30)
     DEF MarkPublished, Marked, Abort, Fault, logVars, outboxVars, RelayInv, RelayColumns
<1>3. Idle \in RelayTick
  BY LogConstants, SMTT(30) DEF Idle, RelayTick
<1>4. RelayColumns'
  BY <1>1, <1>2, <1>3 DEF RelayInv, RelayColumns, RelayTick
<1> QED BY <1>1, <1>2, <1>4 DEF RelayInv, RelayColumns, Idle, HandTaken, BatchCommitted,
                    DoneWasSent, MarkedWasSent

LEMMA RelayStep ==
  ASSUME RelayInv, LogInv, [Next]_vars
  PROVE  RelayInv'
<1>1. CASE UNCHANGED vars
  BY <1>1 DEF vars, RelayInv, RelayColumns, RelayTick, HandTaken, BatchCommitted,
              DoneWasSent, MarkedWasSent
<1>2. CASE Write
  <2>1. log \subseteq log' /\ UNCHANGED <<published, quarantined, attempts, claim, relay,
                                          sent, faults>>
    BY <1>2, LogGrows DEF Write
  <2> QED BY <2>1 DEF RelayInv, RelayColumns, RelayTick, HandTaken, BatchCommitted,
                      DoneWasSent, MarkedWasSent
<1>3. ASSUME NEW r \in Relays, Tick(r) PROVE RelayInv'
  BY <1>3, ClaimPendingInv, PublishInv, RecordAttemptInv, QuarantineInv, TickEndsInv DEF Tick
<1>4. ASSUME NEW r \in Relays, EmptyTick(r) PROVE RelayInv'
  BY <1>4, <1>1 DEF EmptyTick
<1>5. ASSUME NEW r \in Relays, Abort(r) PROVE RelayInv'
  BY <1>5, TickEndsInv
<1>6. ASSUME NEW r \in Relays, NEW i \in Ids, PublishFails(r, i) PROVE RelayInv'
  BY <1>6, PublishFailsInv
<1>7. ASSUME NEW i \in Ids, Lapse(i) \/ ReplayQuarantined(i) PROVE RelayInv'
  <2>1. UNCHANGED <<log, published, relay, sent, faults>>
    BY <1>7 DEF Lapse, ReplayQuarantined, logVars
  <2>2. RelayColumns'
    BY <1>7, <2>1, RelayConstants, SMTT(30)
       DEF Lapse, ReplayQuarantined, RelayInv, RelayColumns, RelayTick
  <2> QED BY <2>1, <2>2 DEF RelayInv, HandTaken, BatchCommitted, DoneWasSent, MarkedWasSent
<1> QED BY <1>1, <1>2, <1>3, <1>4, <1>5, <1>6, <1>7 DEF Next

LEMMA RelayAlways == Spec => [](RelayInv /\ LogInv)
<1>1. RelayInv /\ LogInv /\ [Next]_vars => (RelayInv /\ LogInv)'
  BY RelayStep, LogStep, NextLog
<1> QED BY <1>1, RelayInitial, PTL DEF Spec
-----------------------------------------------------------------------------
\* The columns of the log and of the outbox keep their types, and the state of
\* a tick is always one run_once can be in.
THEOREM RelayTypeCorrect == Spec => []TypeOK
<1>1. RelayInv /\ LogInv => TypeOK
  BY TypesTogether DEF RelayInv, LogInv
<1> QED BY <1>1, RelayAlways, PTL

\* However many sessions append, commit and roll back, every workspace's chain
\* of committed events is linear (append_with_keys_in_tx).
THEOREM ChainsStayLinear == Spec => []ChainLinear
<1>1. LogInv => ChainLinear
  BY DEF LogInv
<1> QED BY <1>1, RelayAlways, PTL

\* Within a workspace rows become visible in id order, so a reader's cursor
\* passes no row by (what list_after_stable and the cursors rest on).
THEOREM RowsAppearInOrder == Spec => CommitsInOrder
<1>1. LogInv /\ [Next]_vars
        => [\A i \in log' \ log, j \in log : home'[i] = home[j] => j < i]_logVars
  BY LogOrder, NextLog
<1> QED BY <1>1, RelayAlways, PTL DEF Spec, CommitsInOrder

\* No outbox row is marked published whose event was not announced, whatever
\* relays overlap, lapse, crash or fail (run_once, mark_published_batch).
THEOREM NothingMarkedUnsent == Spec => []MarkedWasSent
<1>1. RelayInv => MarkedWasSent
  BY DEF RelayInv
<1> QED BY <1>1, RelayAlways, PTL

\* What a row of a batch that is published, or fails, does to the feed.
LEMMA RowLeaves ==
  ASSUME RelayInv, NEW r \in Relays, NEW i \in Ids, Publish(r, i) \/ PublishFails(r, i)
  PROVE  /\ i \in log /\ UNCHANGED logVars
         /\ sent' = sent \/ sent' = sent \cup {i}
  BY DEF Publish, PublishFails, RelayInv, BatchCommitted

\* Every step of the relays announces one committed event, is a step of the
\* log, or is none of the feed's business.
LEMMA RelayFeeds ==
  ASSUME RelayInv, [Next]_vars
  PROVE  [FeedNext]_feedVars
<1>1. CASE UNCHANGED vars
  BY <1>1 DEF vars, feedVars
<1>2. CASE Write
  BY <1>2 DEF Write, FeedNext
<1>3. ASSUME NEW r \in Relays, NEW i \in Ids, Publish(r, i) \/ PublishFails(r, i)
      PROVE  [FeedNext]_feedVars
  BY <1>3, RowLeaves DEF FeedNext, Announce, feedVars, logVars
<1>4. ASSUME NEW r \in Relays,
             \/ ClaimPending(r) \/ EmptyTick(r) \/ RecordAttempt(r) \/ Quarantine(r)
             \/ MarkPublished(r) \/ Abort(r)
      PROVE  UNCHANGED feedVars
  BY <1>4 DEF ClaimPending, EmptyTick, RecordAttempt, Quarantine, MarkPublished, Abort,
              vars, logVars, feedVars
<1>5. ASSUME NEW i \in Ids, Lapse(i) \/ ReplayQuarantined(i)
      PROVE  UNCHANGED feedVars
  BY <1>5 DEF Lapse, ReplayQuarantined, logVars, feedVars
<1> QED BY <1>1, <1>2, <1>3, <1>4, <1>5 DEF Next, Tick

\* The outbox with its relays implements EventFeed, over which the readers of
\* the bus are modelled: every step announces one committed event, is a step
\* of the log, or is none of the feed's business.
THEOREM RelayImplementsFeed == Spec => ImplementsFeed
<1>1. Init => FeedInit
  BY DEF Init
<1> QED BY <1>1, RelayFeeds, RelayAlways, PTL DEF Spec, ImplementsFeed, FeedSpec
-----------------------------------------------------------------------------
(* What a reader of the feed may rely on.                                  *)

\* What a step of the feed does to the log, to what was announced and to the
\* rows of every workspace: they only grow, and at their end.
LEMMA FeedGrows ==
  ASSUME LogInv, sent \subseteq log, FeedNext
  PROVE  /\ LogInv'
         /\ log \subseteq log' /\ sent \subseteq sent' /\ sent' \subseteq log'
         /\ \A i \in log : home'[i] = home[i]
         /\ \A i \in log' \ log, j \in log : home'[i] = home'[j] => j < i
<1>1. [LogNext]_logVars
  BY DEF FeedNext, Announce
<1>2. LogInv' /\ log \subseteq log'
  BY <1>1, LogStep, LogGrows
<1>3. \A i \in log : home'[i] = home[i]
  <2>1. \A i \in log : i \in Ids /\ i <= nextId /\ nextId \in Nat /\ i \in Nat
    BY LogConstants, SMTT(30) DEF LogInv, LogColumns, IdsTaken, Ids
  <2>2. ASSUME NEW x \in Txns, NEW w \in Workspaces, AppendEvent(x, w)
        PROVE  \A i \in log : home'[i] = home[i]
    BY <2>1, <2>2, AppendKeeps DEF Appended
  <2> QED BY <1>1, <2>2 DEF LogNext, Commit, Rollback, logVars
<1>4. \A i \in log' \ log, j \in log : home'[i] = home'[j] => j < i
  BY <1>1, <1>3, LogOrder
<1>5. sent \subseteq sent' /\ sent' \subseteq log'
  BY <1>2 DEF FeedNext, Announce, logVars
<1> QED BY <1>2, <1>3, <1>4, <1>5

\* A step that leaves the feed alone.
LEMMA FeedSame ==
  ASSUME LogInv, sent \subseteq log, UNCHANGED feedVars
  PROVE  LogInv' /\ (sent \subseteq log)' /\ log' = log /\ sent' = sent
<1>1. [LogNext]_logVars
  BY DEF feedVars, logVars
<1> QED BY <1>1, LogStep DEF feedVars

-----------------------------------------------------------------------------
(* A consumer's stream.  It rests on one thing shown above: rows of one    *)
(* workspace appear in id order.                                           *)

RoomLog == Of(Room, log)

StreamTick == [pc : {"off", "first", "poll", "read", "live"}, alo : BOOLEAN,
               after : 0..MaxId, rows : SUBSET Ids, pending : 0..MaxId]

\* Rows in hand are committed rows of Room above the cursor.
RowsAhead ==
  /\ conn.rows \subseteq RoomLog
  /\ \A i \in conn.rows : conn.after < i
  /\ conn.rows # {} => conn.pc = "read"

\* What was shown on this connection is at or below its cursor.
ShownBehind == conn.pc # "off" => \A k \in 1..Len(frames) : frames[k] <= conn.after

\* A consumer that always asked for at_least_once is on the reconcile loop, its
\* cursors are rows of Room, and the rows in hand leave none out.
Reconciles ==
  ~wasLive =>
    /\ durable \in RoomLog \cup {0}
    /\ conn.pc \in {"off", "poll", "read"}
    /\ conn.after \in RoomLog \cup {0}
    /\ conn.pending = 0
    /\ conn.pc # "off" => conn.alo /\ \A i \in RoomLog : i <= conn.after => i \in handed
    /\ \A i \in conn.rows, j \in RoomLog : conn.after < j /\ j < i => j \in conn.rows

StreamInv ==
  /\ LogInv /\ sent \subseteq log
  /\ StreamTypeOK
  /\ RowsAhead /\ ShownBehind /\ FramesInOrder
  /\ Reconciles /\ CursorHidesNothing

\* Rows of a workspace are natural numbers from 1.
LEMMA RoomIds == LogInv => RoomLog \subseteq Ids /\ Ids \subseteq Nat /\ 0 \notin Ids
<1>1. Ids \subseteq Nat /\ 0 \notin Ids
  BY LogConstants, SMTT(30) DEF Ids
<1>2. LogInv => RoomLog \subseteq Ids
  BY DEF LogInv, LogColumns, RoomLog, Of
<1> QED BY <1>1, <1>2

LEMMA StreamInitial == StreamInit => StreamInv
<1> SUFFICES ASSUME StreamInit PROVE StreamInv
  OBVIOUS
<1>1. LogInv /\ log = {} /\ sent = {}
  BY LogInitial DEF StreamInit, FeedInit, LogInit
<1>2. StreamTypeOK
  <2>1. 0 \in 0..MaxId
    BY LogConstants, SMTT(30)
  <2>2. NoConn \in StreamTick
    BY <2>1 DEF NoConn, StreamTick
  <2>3. <<>> \in Seq(Ids)
    BY SMTT(30)
  <2> QED BY <2>1, <2>2, <2>3 DEF StreamInit, StreamTypeOK, StreamTick
<1>3. RowsAhead /\ ShownBehind /\ FramesInOrder
  BY SMTT(30) DEF StreamInit, NoConn, RowsAhead, ShownBehind, FramesInOrder
<1>4. Reconciles /\ CursorHidesNothing
  BY <1>1 DEF StreamInit, NoConn, Reconciles, CursorHidesNothing, Of, RoomLog
<1> QED BY <1>1, <1>2, <1>3, <1>4 DEF StreamInv

\* The read leaves out no row below one it returns.
LEMMA FirstRowsDown ==
  ASSUME LogInv, NEW after \in Nat, NEW i \in FirstRows(after), NEW j \in RoomLog,
         after < j, j < i
  PROVE  j \in FirstRows(after)
<1> DEFINE rows == {k \in Of(Room, log) : k > after}
           below(n) == {k \in rows : k < n}
<1>1. Ids = 1..MaxId /\ IsFiniteSet(Ids) /\ Ids \subseteq Nat
  BY LogConstants, FS_Interval, SMTT(30) DEF Ids
<1>2. i \in rows /\ j \in rows /\ rows \subseteq Ids
  BY <1>1 DEF FirstRows, RoomLog, LogInv, LogColumns, Of
<1>3. below(j) \subseteq below(i) /\ below(i) \subseteq Ids
  <2>1. i \in Nat /\ j \in Nat /\ \A k \in rows : k \in Nat
    BY <1>1, <1>2
  <2>2. \A k \in rows : k < j => k < i
    BY <2>1, SMTT(30)
  <2> QED BY <1>2, <2>2
<1>4. IsFiniteSet(below(i))
  BY <1>1, <1>3, FS_Subset
<1>5. Cardinality(below(j)) <= Cardinality(below(i)) /\ IsFiniteSet(below(j))
  BY <1>3, <1>4, FS_Subset
<1>6. Cardinality(below(i)) \in Nat /\ Cardinality(below(j)) \in Nat
  BY <1>4, <1>5, FS_CardinalityType
<1>7. Cardinality(below(i)) < Limit
  BY DEF FirstRows
<1>8. Cardinality(below(j)) < Limit
  BY <1>5, <1>6, <1>7, StreamConstants, SMTT(30)
<1> QED BY <1>2, <1>8 DEF FirstRows

LEMMA RoomSame ==
  ASSUME LogInv, sent \subseteq log, UNCHANGED feedVars
  PROVE  LogInv' /\ (sent \subseteq log)' /\ RoomLog' = RoomLog
  BY FeedSame DEF feedVars, RoomLog, Of

\* Rows that appear in Room come after every row that was there.
LEMMA RoomGrows ==
  ASSUME LogInv, sent \subseteq log, FeedNext
  PROVE  /\ RoomLog \subseteq RoomLog'
         /\ \A i \in RoomLog' \ RoomLog, j \in RoomLog : j < i
         /\ RoomLog' \subseteq Ids /\ Ids \subseteq Nat /\ 0 \notin Ids
<1>1. RoomLog \subseteq RoomLog' /\ \A i \in RoomLog' \ RoomLog, j \in RoomLog : j < i
  BY FeedGrows DEF RoomLog, Of
<1>2. Ids \subseteq Nat /\ 0 \notin Ids
  BY LogConstants, SMTT(30) DEF Ids
<1>3. LogInv'
  BY FeedGrows
<1>4. RoomLog' \subseteq Ids
  BY <1>3 DEF LogInv, LogColumns, RoomLog, Of
<1> QED BY <1>1, <1>2, <1>4

\* The feed moves and the connection does not.
LEMMA StreamFeedInv ==
  ASSUME StreamInv, FeedNext,
         UNCHANGED <<durable, conn, queue, frames, handed, wasLive>>
  PROVE  StreamInv'
<1>0. LogInv /\ sent \subseteq log
  BY DEF StreamInv
<1>1. LogInv' /\ (sent \subseteq log)'
  BY <1>0, FeedGrows
<1>2. /\ RoomLog \subseteq RoomLog'
      /\ \A i \in RoomLog' \ RoomLog, j \in RoomLog : j < i
      /\ RoomLog' \subseteq Nat /\ 0 \notin RoomLog'
  BY <1>0, RoomGrows
<1>3. UNCHANGED <<durable, conn, queue, frames, handed, wasLive>>
  OBVIOUS
<1>4. StreamTypeOK'
  BY <1>3 DEF StreamInv, StreamTypeOK
<1>5. RowsAhead' /\ ShownBehind' /\ FramesInOrder'
  BY <1>2, <1>3 DEF StreamInv, RowsAhead, ShownBehind, FramesInOrder
\* A row that appears is above every cursor and every row in hand.
<1>6. \A i \in RoomLog' \ RoomLog, c \in RoomLog \cup {0} : ~ (i <= c) /\ ~ (i < c)
  BY <1>2, SMTT(30)
<1>7. Reconciles'
  <2> SUFFICES ASSUME ~wasLive PROVE Reconciles'
    BY <1>3 DEF Reconciles
  <2>1. \A i \in RoomLog' : i <= conn.after => i \in RoomLog
    BY <1>6 DEF StreamInv, Reconciles
  <2>2. \A i \in conn.rows, j \in RoomLog' : j < i => j \in RoomLog
    BY <1>6 DEF StreamInv, RowsAhead
  <2> QED BY <1>2, <1>3, <2>1, <2>2 DEF StreamInv, Reconciles
<1>8. CursorHidesNothing'
  <2>1. ~wasLive => \A i \in RoomLog' : i <= durable => i \in RoomLog
    BY <1>6 DEF StreamInv, Reconciles
  <2> QED BY <1>3, <2>1 DEF StreamInv, CursorHidesNothing, RoomLog
<1> QED BY <1>1, <1>4, <1>5, <1>7, <1>8 DEF StreamInv

LEMMA SubscribeInv ==
  ASSUME StreamInv, NEW alo \in BOOLEAN, Subscribe(alo)
  PROVE  StreamInv'
<1>0. UNCHANGED feedVars
  BY DEF Subscribe
<1>1. LogInv' /\ (sent \subseteq log)' /\ RoomLog' = RoomLog
  BY <1>0, RoomSame DEF StreamInv
<1>2. /\ conn'.alo = alo /\ conn'.after = durable /\ conn'.rows = {} /\ conn'.pending = 0
      /\ conn'.pc = IF alo THEN "poll" ELSE IF durable > 0 THEN "first" ELSE "live"
      /\ frames' = <<>> /\ wasLive' = (wasLive \/ ~alo)
      /\ UNCHANGED <<durable, queue, handed>>
  BY DEF Subscribe, NoConn
<1>3. StreamTypeOK'
  <2>1. conn' \in StreamTick
    BY LogConstants, SMTT(30) DEF Subscribe, NoConn, StreamTick, StreamInv, StreamTypeOK
  <2>2. frames' \in Seq(Ids) /\ wasLive' \in BOOLEAN
    BY <1>2, SMTT(30) DEF StreamInv, StreamTypeOK
  <2> QED BY <1>2, <2>1, <2>2 DEF StreamInv, StreamTypeOK, StreamTick
<1>4. RowsAhead' /\ ShownBehind' /\ FramesInOrder'
  BY <1>2, SMTT(30) DEF RowsAhead, ShownBehind, FramesInOrder
<1>5. Reconciles'
  BY <1>1, <1>2 DEF StreamInv, Reconciles, CursorHidesNothing, RoomLog
<1>6. CursorHidesNothing'
  BY <1>1, <1>2 DEF StreamInv, CursorHidesNothing, RoomLog
<1> QED BY <1>1, <1>3, <1>4, <1>5, <1>6 DEF StreamInv

\* What the reads have in common: only the connection changes, its cursor stays.
LEMMA ReadInv ==
  ASSUME StreamInv, UNCHANGED feedVars, UNCHANGED <<durable, queue, frames, handed, wasLive>>,
         conn' \in StreamTick,
         conn.pc # "off", conn'.after = conn.after, conn'.alo = conn.alo,
         conn'.pending = conn.pending,
         conn'.rows \subseteq RoomLog, \A i \in conn'.rows : conn.after < i,
         conn'.rows # {} => conn'.pc = "read",
         ~wasLive => /\ conn'.pc \in {"poll", "read"}
                     /\ \A i \in conn'.rows, j \in RoomLog :
                          conn.after < j /\ j < i => j \in conn'.rows
  PROVE  StreamInv'
<1>1. LogInv' /\ (sent \subseteq log)' /\ RoomLog' = RoomLog
  BY RoomSame DEF StreamInv
<1>2. StreamTypeOK'
  BY DEF StreamInv, StreamTypeOK, StreamTick
<1>3. RowsAhead' /\ ShownBehind' /\ FramesInOrder'
  BY <1>1 DEF StreamInv, RowsAhead, ShownBehind, FramesInOrder
<1>4. Reconciles'
  BY <1>1 DEF StreamInv, Reconciles
<1>5. CursorHidesNothing'
  BY <1>1 DEF StreamInv, CursorHidesNothing, RoomLog
<1> QED BY <1>1, <1>2, <1>3, <1>4, <1>5 DEF StreamInv

LEMMA ReadRowsInv ==
  ASSUME StreamInv, ReadRows
  PROVE  StreamInv'
<1> DEFINE first == FirstRows(conn.after)
<1>1. PICK rows \in IF conn.alo THEN Stable(first) ELSE {first} :
        conn' = IF conn.alo /\ rows = {} THEN conn ELSE [conn EXCEPT !.pc = "read", !.rows = rows]
  BY DEF ReadRows
<1>2. UNCHANGED feedVars /\ UNCHANGED <<durable, queue, frames, handed, wasLive>>
  BY DEF ReadRows
<1>3. first \subseteq RoomLog /\ \A i \in first : i > conn.after
  BY DEF FirstRows, RoomLog
<1>4. rows \subseteq first
  BY <1>1 DEF Stable
<1>t. conn \in StreamTick /\ conn.after \in Nat /\ RoomLog \subseteq Nat /\ RoomLog \subseteq Ids
  BY RoomIds, SMTT(30) DEF StreamInv, StreamTypeOK, StreamTick
<1>5. conn' \in StreamTick
  BY <1>1, <1>3, <1>4, <1>t DEF StreamTick
<1>6. /\ conn'.after = conn.after /\ conn'.alo = conn.alo /\ conn'.pending = conn.pending
      /\ conn.pc # "off"
      /\ conn'.rows = rows \/ conn'.rows = conn.rows
      /\ conn'.rows # {} => conn'.pc = "read"
      /\ conn'.pc \in {conn.pc, "read"}
  BY <1>1, <1>t DEF ReadRows, StreamTick, StreamInv, RowsAhead
<1>7. \A i \in rows : conn.after < i
  BY <1>3, <1>4, <1>t
<1>8. ~wasLive => \A i \in rows, j \in RoomLog : conn.after < j /\ j < i => j \in rows
  <2> SUFFICES ASSUME ~wasLive, NEW i \in rows, NEW j \in RoomLog, conn.after < j, j < i
               PROVE  j \in rows
    OBVIOUS
  <2>1. conn.alo
    BY <1>6 DEF StreamInv, Reconciles
  <2>2. PICK cut \in 0..MaxId : rows = {k \in first : k <= cut}
    BY <1>1, <2>1 DEF Stable
  <2>3. j \in first
    BY <1>4, <1>t, FirstRowsDown DEF StreamInv
  <2>4. j <= cut
    <3>1. i <= cut /\ i \in Nat /\ j \in Nat /\ cut \in Nat
      <4>1. cut \in Nat
        BY <2>2, LogConstants, SMTT(30)
      <4>2. i \in first /\ i <= cut
        BY <2>2
      <4> QED BY <1>3, <1>t, <4>1, <4>2
    <3> QED BY <3>1, SMTT(30)
  <2> QED BY <2>2, <2>3, <2>4
<1>9. ~wasLive => conn'.pc \in {"poll", "read"}
  BY <1>6 DEF StreamInv, Reconciles
<1> QED
  <2>1. conn'.rows \subseteq RoomLog /\ \A i \in conn'.rows : conn.after < i
    BY <1>3, <1>4, <1>6, <1>7 DEF StreamInv, RowsAhead
  <2>2. ~wasLive => \A i \in conn'.rows, j \in RoomLog :
                       conn.after < j /\ j < i => j \in conn'.rows
    BY <1>6, <1>8 DEF StreamInv, Reconciles
  <2> QED BY <1>2, <1>5, <1>6, <1>9, <2>1, <2>2, ReadInv

\* A lag, or a replay after one that fails: not on the reconcile loop.
LEMMA LagInv ==
  ASSUME StreamInv, ReadFails \/ Lagged
  PROVE  StreamInv'
<1>1. UNCHANGED feedVars /\ UNCHANGED <<durable, queue, frames, handed, wasLive>>
  BY DEF ReadFails, Lagged
<1>2. conn.pc \in {"poll", "live"} /\ (conn.pc = "poll" => ~conn.alo)
  BY DEF ReadFails, Lagged
<1>3. wasLive /\ conn.rows = {}
  BY <1>2 DEF StreamInv, Reconciles, RowsAhead
<1>4. conn \in StreamTick
  BY DEF StreamInv, StreamTypeOK, StreamTick
<1>5. /\ conn' \in StreamTick /\ conn'.after = conn.after /\ conn'.alo = conn.alo
      /\ conn'.pending = conn.pending /\ conn'.rows = {}
  BY <1>3, <1>4 DEF ReadFails, Lagged, StreamTick
<1> QED BY <1>1, <1>2, <1>3, <1>5, ReadInv

\* Handing over an event above the cursor keeps the frames in order.
LEMMA HandOverInv ==
  ASSUME StreamInv, NEW i \in Ids, conn.pc # "off", conn.after < i, HandOver(i),
         conn'.after = i
  PROVE  /\ FramesInOrder' /\ ShownBehind'
         /\ frames' \in Seq(Ids) /\ queue' \in Seq(Ids)
         /\ handed' = handed \cup {i} /\ handed' \in SUBSET Ids
<1>1. frames \in Seq(Ids) /\ queue \in Seq(Ids) /\ handed \in SUBSET Ids /\ conn.after \in Nat
  BY LogConstants, SMTT(30) DEF StreamInv, StreamTypeOK
<1>2. frames' = Append(frames, i) /\ queue' = Append(queue, i) /\ handed' = handed \cup {i}
  BY DEF HandOver
<1>3. /\ frames' \in Seq(Ids) /\ queue' \in Seq(Ids)
      /\ Len(frames') = Len(frames) + 1 /\ Len(frames) \in Nat
      /\ \A k \in 1..Len(frames) : frames'[k] = frames[k] /\ frames[k] \in Ids
      /\ frames'[Len(frames) + 1] = i
  BY <1>1, <1>2, SMTT(30)
<1>4. Ids \subseteq Nat
  BY LogConstants, SMTT(30) DEF Ids
<1>5. \A k \in 1..Len(frames) : frames[k] <= conn.after /\ frames[k] < i
  <2> SUFFICES ASSUME NEW k \in 1..Len(frames)
               PROVE  frames[k] <= conn.after /\ frames[k] < i
    OBVIOUS
  <2>1. frames[k] <= conn.after
    BY DEF StreamInv, ShownBehind
  <2>2. frames[k] \in Nat /\ i \in Nat
    BY <1>3, <1>4
  <2> QED BY <1>1, <2>1, <2>2, SMTT(30)
<1>6. FramesInOrder'
  <2> SUFFICES ASSUME NEW k \in 1..Len(frames') - 1 PROVE frames'[k] < frames'[k + 1]
    BY DEF FramesInOrder
  <2>1. k \in 1..Len(frames)
    BY <1>3, SMTT(30)
  <2>2. CASE k = Len(frames)
    BY <2>1, <2>2, <1>3, <1>5
  <2>3. CASE k # Len(frames)
    <3>1. k \in 1..Len(frames) - 1 /\ k + 1 \in 1..Len(frames)
      BY <2>1, <2>3, <1>3, SMTT(30)
    <3> QED BY <3>1, <2>1, <1>3 DEF StreamInv, FramesInOrder
  <2> QED BY <2>2, <2>3
<1>7. ShownBehind'
  <2> SUFFICES ASSUME NEW k \in 1..Len(frames') PROVE frames'[k] <= i
    BY DEF ShownBehind
  <2>1. CASE k = Len(frames) + 1
    BY <2>1, <1>3, <1>4, SMTT(30)
  <2>2. CASE k # Len(frames) + 1
    <3>1. k \in 1..Len(frames)
      BY <2>2, <1>3, SMTT(30)
    <3>2. frames'[k] < i /\ frames'[k] \in Nat /\ i \in Nat
      BY <3>1, <1>3, <1>4, <1>5
    <3> QED BY <3>2, SMTT(30)
  <2> QED BY <2>1, <2>2
<1> QED BY <1>1, <1>2, <1>3, <1>6, <1>7

LEMMA SendRowInv ==
  ASSUME StreamInv, SendRow
  PROVE  StreamInv'
<1>1. PICK i \in conn.rows : /\ \A j \in conn.rows : i <= j
                             /\ HandOver(i)
                             /\ conn' = [conn EXCEPT !.rows = @ \ {i}, !.after = i]
  BY DEF SendRow
<1>2. UNCHANGED feedVars /\ UNCHANGED <<durable, wasLive>> /\ conn.pc = "read"
  BY DEF SendRow
<1>3. LogInv' /\ (sent \subseteq log)' /\ RoomLog' = RoomLog
  BY <1>2, RoomSame DEF StreamInv
<1>4. conn \in StreamTick /\ RoomLog \subseteq Nat /\ RoomLog \subseteq Ids /\ conn.after \in Nat
  BY RoomIds, LogConstants, SMTT(30) DEF StreamInv, StreamTypeOK, StreamTick
<1>5. i \in RoomLog /\ i \in Ids /\ i \in Nat /\ conn.after < i
  BY <1>4 DEF StreamInv, RowsAhead
<1>6. /\ conn'.after = i /\ conn'.rows = conn.rows \ {i} /\ conn'.pc = "read"
      /\ conn'.alo = conn.alo /\ conn'.pending = conn.pending
  BY <1>1, <1>2, <1>4 DEF StreamTick
<1>7. conn' \in StreamTick
  <2>1. i \in 0..MaxId
    BY <1>5, LogConstants, SMTT(30) DEF Ids
  <2>2. conn' = [conn EXCEPT !.rows = conn.rows \ {i}, !.after = i]
    BY <1>1
  <2> QED BY <2>1, <2>2, <1>4 DEF StreamTick
<1>8. /\ FramesInOrder' /\ ShownBehind' /\ frames' \in Seq(Ids) /\ queue' \in Seq(Ids)
      /\ handed' = handed \cup {i} /\ handed' \in SUBSET Ids
  BY <1>1, <1>2, <1>5, <1>6, HandOverInv
<1>9. StreamTypeOK'
  BY <1>2, <1>7, <1>8 DEF StreamInv, StreamTypeOK, StreamTick
<1>10. RowsAhead'
  <2>1. \A j \in conn.rows \ {i} : i < j
    BY <1>1, <1>4, <1>5, SMTT(30) DEF StreamInv, RowsAhead
  <2> QED BY <2>1, <1>3, <1>6 DEF StreamInv, RowsAhead
<1>11. Reconciles'
  <2> SUFFICES ASSUME ~wasLive PROVE Reconciles'
    BY <1>2 DEF Reconciles
  <2>1. \A j \in RoomLog : j <= i => j \in handed'
    <3> SUFFICES ASSUME NEW j \in RoomLog, j <= i PROVE j \in handed'
      OBVIOUS
    <3>1. CASE j <= conn.after
      BY <3>1, <1>2, <1>8 DEF StreamInv, Reconciles
    <3>2. CASE j = i
      BY <3>2, <1>8
    <3>3. CASE conn.after < j /\ j < i
      <4>1. j \in conn.rows
        BY <3>3 DEF StreamInv, Reconciles
      <4>2. i <= j /\ i \in Nat /\ j \in Nat
        BY <4>1, <1>1, <1>4, <1>5
      <4> QED BY <4>2, <3>3, SMTT(30)
    <3> QED BY <3>1, <3>2, <3>3, <1>4, <1>5, SMTT(30)
  <2>2. \A k \in conn'.rows, j \in RoomLog : i < j /\ j < k => j \in conn'.rows
    BY <1>4, <1>5, <1>6, SMTT(30) DEF StreamInv, Reconciles
  <2> QED BY <2>1, <2>2, <1>2, <1>3, <1>5, <1>6 DEF StreamInv, Reconciles
<1>12. CursorHidesNothing'
  BY <1>2, <1>3, <1>8 DEF StreamInv, CursorHidesNothing, RoomLog
<1> QED BY <1>3, <1>8, <1>9, <1>10, <1>11, <1>12 DEF StreamInv

LEMMA AdvanceInv ==
  ASSUME StreamInv, Advance
  PROVE  StreamInv'
<1>1. UNCHANGED feedVars /\ UNCHANGED <<queue, frames, handed, wasLive>>
  BY DEF Advance
<1>2. conn.pc = "read" /\ conn.rows = {}
  BY DEF Advance
<1>3. durable' \in {durable, Later(durable, conn.after)}
  BY <1>2 DEF Advance
<1>4. conn \in StreamTick /\ conn.after \in Nat /\ durable \in 0..MaxId
  BY LogConstants, SMTT(30) DEF StreamInv, StreamTypeOK, StreamTick
<1>5. durable' \in {durable, conn.after}
  BY <1>3 DEF Later
<1>6. /\ conn' \in StreamTick /\ conn'.after = conn.after /\ conn'.alo = conn.alo
      /\ conn'.pending = conn.pending /\ conn'.rows = {}
      /\ conn'.pc = IF conn.alo THEN "poll" ELSE "live"
  BY <1>4 DEF Advance, StreamTick
<1>7. LogInv' /\ (sent \subseteq log)' /\ RoomLog' = RoomLog
  BY <1>1, RoomSame DEF StreamInv
<1>8. StreamTypeOK'
  BY <1>1, <1>4, <1>5, <1>6 DEF StreamInv, StreamTypeOK, StreamTick
<1>9. RowsAhead' /\ ShownBehind' /\ FramesInOrder'
  BY <1>1, <1>2, <1>6 DEF StreamInv, RowsAhead, ShownBehind, FramesInOrder
<1>10. Reconciles'
  BY <1>1, <1>2, <1>5, <1>6, <1>7 DEF StreamInv, Reconciles
<1>11. CursorHidesNothing'
  BY <1>1, <1>2, <1>5, <1>7 DEF StreamInv, Reconciles, CursorHidesNothing, RoomLog
<1> QED BY <1>7, <1>8, <1>9, <1>10, <1>11 DEF StreamInv

LEMMA ForwardEventInv ==
  ASSUME StreamInv, NEW i \in Ids, ForwardEvent(i)
  PROVE  StreamInv'
<1>1. UNCHANGED feedVars /\ UNCHANGED wasLive /\ conn.pc = "live" /\ HandOver(i)
  BY DEF ForwardEvent
<1>2. wasLive /\ conn.rows = {}
  BY <1>1 DEF StreamInv, Reconciles, RowsAhead
<1>3. conn \in StreamTick /\ conn.after \in Nat /\ durable \in 0..MaxId
  BY LogConstants, SMTT(30) DEF StreamInv, StreamTypeOK, StreamTick
<1>4. i \in 0..MaxId /\ i \in Nat /\ conn.after < i
  BY <1>3, LogConstants, SMTT(30) DEF ForwardEvent, Fresh, Ids
<1>5. /\ conn' \in StreamTick /\ conn'.after = i /\ conn'.rows = {} /\ conn'.pc = "live"
      /\ durable' \in {durable, i}
  <2>1. PICK p \in {0, i} : conn' = [conn EXCEPT !.after = i, !.pending = p]
    BY DEF ForwardEvent
  <2>2. p \in 0..MaxId
    BY <1>4, LogConstants, SMTT(30)
  <2>3. conn' \in StreamTick /\ conn'.after = i /\ conn'.rows = {} /\ conn'.pc = "live"
    BY <2>1, <2>2, <1>1, <1>2, <1>3, <1>4 DEF StreamTick
  <2> QED BY <2>3 DEF ForwardEvent, Later
<1>6. LogInv' /\ (sent \subseteq log)' /\ RoomLog' = RoomLog
  BY <1>1, RoomSame DEF StreamInv
<1>7. /\ FramesInOrder' /\ ShownBehind' /\ frames' \in Seq(Ids) /\ queue' \in Seq(Ids)
      /\ handed' = handed \cup {i} /\ handed' \in SUBSET Ids
  BY <1>1, <1>4, <1>5, HandOverInv
<1>8. StreamTypeOK'
  BY <1>1, <1>3, <1>4, <1>5, <1>7 DEF StreamInv, StreamTypeOK, StreamTick
<1>9. RowsAhead' /\ Reconciles' /\ CursorHidesNothing'
  BY <1>1, <1>2, <1>5 DEF RowsAhead, Reconciles, CursorHidesNothing
<1> QED BY <1>6, <1>7, <1>8, <1>9 DEF StreamInv

LEMMA WriteFrameInv ==
  ASSUME StreamInv, WriteFrame
  PROVE  StreamInv'
<1>1. UNCHANGED feedVars /\ UNCHANGED <<durable, conn, frames, handed, wasLive>>
  BY DEF WriteFrame
<1>2. LogInv' /\ (sent \subseteq log)' /\ RoomLog' = RoomLog
  BY <1>1, RoomSame DEF StreamInv
<1>3. queue' \in Seq(Ids)
  BY SMTT(30) DEF WriteFrame, StreamInv, StreamTypeOK
<1>4. StreamTypeOK'
  BY <1>1, <1>3 DEF StreamInv, StreamTypeOK
<1>5. RowsAhead' /\ ShownBehind' /\ FramesInOrder' /\ Reconciles'
  BY <1>1, <1>2 DEF StreamInv, RowsAhead, ShownBehind, FramesInOrder, Reconciles
<1>6. CursorHidesNothing'
  BY <1>1, <1>2 DEF StreamInv, CursorHidesNothing, RoomLog
<1> QED BY <1>2, <1>4, <1>5, <1>6 DEF StreamInv

LEMMA HangUpInv ==
  ASSUME StreamInv, HangUp
  PROVE  StreamInv'
<1>1. /\ UNCHANGED feedVars /\ UNCHANGED <<frames, handed, wasLive>>
      /\ conn' = NoConn /\ queue' = <<>>
      /\ durable' \in {durable, Later(durable, conn.pending)}
  BY DEF HangUp
<1>2. LogInv' /\ (sent \subseteq log)' /\ RoomLog' = RoomLog
  BY <1>1, RoomSame DEF StreamInv
<1>3. conn.pending \in 0..MaxId /\ durable \in 0..MaxId
  BY DEF StreamInv, StreamTypeOK
<1>4. durable' \in 0..MaxId /\ (conn.pending = 0 => durable' = durable)
  BY <1>1, <1>3, LogConstants, SMTT(30) DEF Later
<1>5. NoConn \in StreamTick
  BY LogConstants, SMTT(30) DEF NoConn, StreamTick
<1>6. StreamTypeOK'
  BY <1>1, <1>4, <1>5, SMTT(30) DEF StreamInv, StreamTypeOK, StreamTick
<1>7. RowsAhead' /\ ShownBehind' /\ FramesInOrder'
  BY <1>1 DEF StreamInv, NoConn, RowsAhead, ShownBehind, FramesInOrder
<1>8. ~wasLive => durable' = durable
  BY <1>4 DEF StreamInv, Reconciles
<1>9. Reconciles'
  BY <1>1, <1>2, <1>8 DEF StreamInv, NoConn, Reconciles
<1>10. CursorHidesNothing'
  BY <1>1, <1>2, <1>8 DEF StreamInv, CursorHidesNothing, RoomLog
<1> QED BY <1>2, <1>6, <1>7, <1>9, <1>10, SMTT(30) DEF StreamInv

\* Neither moves.
LEMMA StreamSame ==
  ASSUME StreamInv, UNCHANGED feedVars,
         UNCHANGED <<durable, conn, queue, frames, handed, wasLive>>
  PROVE  StreamInv'
<1>1. LogInv' /\ (sent \subseteq log)' /\ RoomLog' = RoomLog
  BY RoomSame DEF StreamInv
<1> QED BY <1>1 DEF StreamInv, StreamTypeOK, RowsAhead, ShownBehind, FramesInOrder,
                    Reconciles, CursorHidesNothing, RoomLog

LEMMA ConnectionInv ==
  ASSUME StreamInv, ConnectionStep
  PROVE  StreamInv'
  BY SubscribeInv, ReadRowsInv, LagInv, SendRowInv, AdvanceInv, WriteFrameInv, HangUpInv
     DEF ConnectionStep

LEMMA StreamStep ==
  ASSUME StreamInv, [StreamNext]_streamVars
  PROVE  StreamInv'
<1>1. CASE UNCHANGED streamVars
  BY <1>1, StreamSame DEF streamVars, feedVars
<1>2. CASE StreamFeed
  BY <1>2, StreamFeedInv DEF StreamFeed
<1> QED BY <1>1, <1>2, ConnectionInv, ForwardEventInv DEF StreamNext

LEMMA StreamAlways == StreamSpec => []StreamInv
  BY StreamInitial, StreamStep, PTL DEF StreamSpec

\* Connections, buses and cursors keep their types.
THEOREM StreamTypes == StreamSpec => []StreamTypeOK
<1>1. StreamInv => StreamTypeOK
  BY DEF StreamInv
<1> QED BY <1>1, StreamAlways, PTL

\* A connection shows every event at most once and in id order, whatever the
\* replay, the reconcile loop and the bus bring (forward_bus_items).
THEOREM StreamsKeepOrder == StreamSpec => []FramesInOrder
<1>1. StreamInv => FramesInOrder
  BY DEF StreamInv
<1> QED BY <1>1, StreamAlways, PTL

\* The stored cursor of a consumer on at_least_once never passes an event that
\* was not handed to it (reconcile_deliver, list_after_stable).
THEOREM CursorsHideNothing == StreamSpec => []CursorHidesNothing
<1>1. StreamInv => CursorHidesNothing
  BY DEF StreamInv
<1> QED BY <1>1, StreamAlways, PTL
=============================================================================
