------------------------- MODULE ThreadClaimsProofs -------------------------
(***************************************************************************)
(* Proofs about ThreadClaims, for every value of its constants.            *)
(***************************************************************************)
EXTENDS ThreadClaims, TLAPS

USE Zenon, SMTT(30)

-----------------------------------------------------------------------------
(* The building blocks keep their types.                                   *)

\* worked_secs is a natural number whatever the two readings are.
LEMMA WorkedSecsType ==
  ASSUME NEW r \in Row, NEW ended \in Times
  PROVE  WorkedSecs(r, ended) \in Nat
BY ClaimConstants, SMTT(30) DEF WorkedSecs, Row, Times, Null

\* A clearing write leaves a row of the table.
LEMMA ClearedType ==
  ASSUME NEW r \in Row, NEW s \in States
  PROVE  Cleared(r) \in Row /\ [Cleared(r) EXCEPT !.state = s] \in Row
BY DEF Cleared, Row, Null

\* A claiming write leaves a row of the table.
LEMMA TakenType ==
  ASSUME TypeOK, NEW r \in Row, NEW m \in Members, NEW d \in Times \cup {Null},
         issued < MaxLeases
  PROVE  Taken(r, m, d) \in Row
<1>1. issued + 1 \in Leases /\ now \in Times
  BY ClaimConstants, SMTT(30) DEF TypeOK, Leases, Times
<1> QED
  BY <1>1 DEF Taken, Row

\* A charge leaves a budget.
LEMMA ChargeType ==
  ASSUME NEW b \in Budget, NEW secs \in Nat
  PROVE  Charge(b, secs) \in Budget
BY SMTT(30) DEF Charge, Budget

LEMMA CapsType ==
  ASSUME NEW b \in Budget, NEW max \in UseCaps, NEW maxWall \in WallCaps
  PROVE  [b EXCEPT !.max = max, !.maxWall = maxWall] \in Budget
BY DEF Budget

LEMMA ClockType == TypeOK => now \in Times /\ now + LeaseSecs \in Times
BY ClaimConstants, SMTT(30) DEF TypeOK, Times

LEMMA LapsedWorkedType ==
  ASSUME TypeOK, NEW t \in Threads
  PROVE  LapsedWorkedSecs(t) \in Nat
BY WorkedSecsType DEF LapsedWorkedSecs, TypeOK, Row

LEMMA OpenWorkedType ==
  ASSUME TypeOK, NEW t \in Threads
  PROVE  WorkedSecs(row[t], now) \in Nat
BY WorkedSecsType, ClockType DEF TypeOK

\* So do the writes that touch one column.
LEMMA ColumnType ==
  ASSUME NEW r \in Row
  PROVE  /\ \A d \in Times : [r EXCEPT !.deadline = d] \in Row
         /\ \A d \in Times : [r EXCEPT !.started = d] \in Row
         /\ [r EXCEPT !.unacked = r.lease] \in Row
         /\ \A s \in States : [r EXCEPT !.state = s] \in Row
BY SMTT(30) DEF Row

LEMMA ReportType ==
  ASSUME NEW x \in [ended : Nat, unacked : Nat]
  PROVE  /\ [x EXCEPT !.ended = @ + 1] \in [ended : Nat, unacked : Nat]
         /\ [x EXCEPT !.unacked = @ + 1] \in [ended : Nat, unacked : Nat]
BY SMTT(30)

\* Whoever acts for a member, the member is among those recorded.
LEMMA ActingForType ==
  ASSUME NEW m \in Members, NEW who \in ActingFor(m)
  PROVE  who \in SUBSET Members /\ m \in who
BY DEF ActingFor

LEMMA RecordWorkersType ==
  ASSUME TypeOK, NEW t \in Threads, NEW m \in Members,
         \E who \in ActingFor(m) : RecordWorkers(t, who)
  PROVE  workers' \in [Threads -> SUBSET Members]
BY ActingForType, SMTT(30) DEF RecordWorkers, TypeOK

LEMMA NewLeaseType ==
  ASSUME TypeOK, NewLease
  PROVE  issued' \in 0 .. MaxLeases
BY ClaimConstants, SMTT(30) DEF NewLease, TypeOK

LEMMA InitType == Init => TypeOK
BY ClaimConstants, SMTT(30) DEF Init, TypeOK, Row, States, Times, Leases, Null, NoWait, Budget

\* Ending a claim keeps both tables typed.
LEMMA EndClaimType ==
  ASSUME TypeOK, NEW t \in Threads, NEW s \in States, EndClaim(t, s)
  PROVE  row' \in [Threads -> Row] /\ budget' \in [Threads -> Budget]
<1>1. row[t] \in Row /\ budget[t] \in Budget
  BY DEF TypeOK
<1>2. [Cleared(row[t]) EXCEPT !.state = s] \in Row
  BY <1>1, ClearedType
<1>3. Charge(budget[t], WorkedSecs(row[t], now)) \in Budget
  BY <1>1, ChargeType, OpenWorkedType
<1> QED
  BY <1>2, <1>3 DEF EndClaim, TypeOK

\* Every store operation keeps every table typed.
LEMMA NextType == TypeOK /\ [Next]_vars => TypeOK'
<1> SUFFICES ASSUME TypeOK, [Next]_vars PROVE TypeOK'
  OBVIOUS
<1> USE ClaimConstants
<1>clock. now \in Times /\ now + LeaseSecs \in Times
  BY ClockType
<1>row. row \in [Threads -> Row] /\ \A t \in Threads : row[t] \in Row
  BY DEF TypeOK
<1>bud. budget \in [Threads -> Budget]
  BY DEF TypeOK
<1>rep. reports \in [Leases -> [ended : Nat, unacked : Nat]]
  BY DEF TypeOK
<1>clr. \A t \in Threads : Cleared(row[t]) \in Row
  BY <1>row, ClearedType DEF Row
<1>open. \A t \in Threads : Charge(budget[t], WorkedSecs(row[t], now)) \in Budget
  BY <1>bud, ChargeType, OpenWorkedType
<1>lps. \A t \in Threads : Charge(budget[t], LapsedWorkedSecs(t)) \in Budget
  BY <1>bud, ChargeType, LapsedWorkedType
<1>end. \A k : ReportEnd(k) \in [Leases -> [ended : Nat, unacked : Nat]]
  BY <1>rep, ReportType DEF ReportEnd
<1>1. CASE Tick
  BY <1>1, SMTT(30) DEF Tick, TypeOK, claimVars, reviewVars
<1>2. ASSUME NEW rep \in Replicas, Boot(rep) PROVE TypeOK'
  BY <1>2, SMTT(30) DEF Boot, TypeOK, claimVars, reviewVars, historyVars, Times
<1>3. ASSUME NEW rep \in Replicas, ReapExpiredClaims(rep) PROVE TypeOK'
  <2>1. row' \in [Threads -> Row]
    BY <1>3, <1>row, <1>clr, SMTT(30) DEF ReapExpiredClaims
  <2>2. budget' \in [Threads -> Budget]
    BY <1>3, <1>bud, <1>lps, SMTT(30) DEF ReapExpiredClaims
  <2>3. reports' \in [Leases -> [ended : Nat, unacked : Nat]]
    BY <1>3, <1>rep, ReportType, SMTT(30) DEF ReapExpiredClaims
  <2> QED
    BY <1>3, <2>1, <2>2, <2>3
    DEF ReapExpiredClaims, TypeOK, reviewVars, historyVars
<1>4. ASSUME NEW rep \in Replicas, NEW m \in Members, NEW t \in Threads,
             ClaimNext(rep, m, t)
      PROVE  TypeOK'
  <2>1. Taken(row[t], m, now + LeaseSecs) \in Row
    BY <1>4, <1>clock, TakenType DEF ClaimNext, NewLease, TypeOK
  <2>2. row' \in [Threads -> Row]
    BY <1>4, <2>1 DEF ClaimNext, TypeOK
  <2>3. Charge(budget[t], LapsedWorkedSecs(t)) \in Budget
    BY ChargeType, LapsedWorkedType DEF TypeOK
  <2>4. budget' \in [Threads -> Budget]
    BY <1>4, <2>3 DEF ClaimNext, TypeOK
  <2>5. reports' \in [Leases -> [ended : Nat, unacked : Nat]]
    BY <1>4, <1>rep, <1>end, SMTT(30) DEF ClaimNext
  <2>6. workers' \in [Threads -> SUBSET Members] /\ issued' \in 0 .. MaxLeases
    BY <1>4, RecordWorkersType, NewLeaseType DEF ClaimNext
  <2> QED
    BY <1>4, <2>2, <2>4, <2>5, <2>6 DEF ClaimNext, TypeOK, reviewVars, historyVars
<1>5. ASSUME NEW m \in Members, NEW t \in Threads, Claim(m, t) PROVE TypeOK'
  <2>1. Taken(row[t], m, Null) \in Row
    BY <1>5, TakenType DEF Claim, NewLease, TypeOK
  <2>2. row' \in [Threads -> Row]
    BY <1>5, <2>1 DEF Claim, TypeOK
  <2>3. workers' \in [Threads -> SUBSET Members] /\ issued' \in 0 .. MaxLeases
    BY <1>5, RecordWorkersType, NewLeaseType DEF Claim
  <2> QED
    BY <1>5, <2>2, <2>3 DEF Claim, TypeOK, reviewVars, historyVars
<1>6. ASSUME NEW m \in Members, NEW t \in Threads, Assign(m, t) PROVE TypeOK'
  <2>1. Taken(row[t], m, Null) \in Row
    BY <1>6, TakenType DEF Assign, NewLease, TypeOK
  <2>2. row' \in [Threads -> Row]
    BY <1>6, <2>1 DEF Assign, TypeOK
  <2>3. Charge(budget[t], WorkedSecs(row[t], now)) \in Budget
    BY ChargeType, OpenWorkedType DEF TypeOK
  <2>4. budget' \in [Threads -> Budget]
    BY <1>6, <2>3 DEF Assign, TypeOK
  <2>5. workers' \in [Threads -> SUBSET Members] /\ issued' \in 0 .. MaxLeases
    BY <1>6, RecordWorkersType, NewLeaseType DEF Assign
  <2> QED
    BY <1>6, <2>2, <2>4, <2>5 DEF Assign, TypeOK, reviewVars, historyVars
<1>7. ASSUME NEW m \in Members, NEW t \in Threads, DeclareWait(m, t) PROVE TypeOK'
  BY <1>7, <1>clock DEF DeclareWait, TypeOK, claimVars, reviewVars, historyVars
<1>8. ASSUME NEW m \in Members, NEW t \in Threads, NEW k \in Leases, HolderStep(m, t, k)
      PROVE  TypeOK'
  <2>1. CASE RenewClaim(m, t, k)
    <3>1. row' \in [Threads -> Row]
      BY <2>1, <1>clock, <1>row, ColumnType DEF RenewClaim
    <3> QED
      BY <2>1, <3>1 DEF RenewClaim, TypeOK, reviewVars, historyVars
  <2>2. CASE AcknowledgeClaim(m, t, k)
    <3>1. row' \in [Threads -> Row]
      BY <2>2, <1>clock, <1>row, ColumnType DEF AcknowledgeClaim
    <3> QED
      BY <2>2, <3>1 DEF AcknowledgeClaim, TypeOK, reviewVars, historyVars
  <2>3. CASE ReleaseClaim(m, t, k)
    <3>1. row' \in [Threads -> Row] /\ budget' \in [Threads -> Budget]
      BY <2>3, EndClaimType DEF ReleaseClaim, TypeOK, Row
    <3> QED
      BY <2>3, <3>1 DEF ReleaseClaim, TypeOK, reviewVars, historyVars
  <2>4. CASE SetResult(m, t, k)
    BY <2>4 DEF SetResult, TypeOK, claimVars, historyVars
  <2>5. ASSUME NEW id \in ReportIds, ReportUsage(m, t, k, id) PROVE TypeOK'
    <3> DEFINE used == [budget[t] EXCEPT !.used = @ + 1]
               secs == WorkedSecs(row[t], now)
    <3>1. used \in Budget /\ Charge(used, secs) \in Budget
      <4>1. used \in Budget
        BY <1>bud, SMTT(30) DEF Budget
      <4> QED
        BY <4>1, ChargeType, OpenWorkedType
    <3>2. budget' \in [Threads -> Budget]
      BY <2>5, <3>1, <1>bud DEF ReportUsage
    <3>3. row' \in [Threads -> Row]
      BY <2>5, <1>row, <1>clr DEF ReportUsage
    <3>4. reports' \in [Leases -> [ended : Nat, unacked : Nat]]
      BY <2>5, <1>rep, <1>end, SMTT(30) DEF ReportUsage
    <3>5. ledger' \subseteq [id : ReportIds, thread : Threads]
      BY <2>5, SMTT(30) DEF ReportUsage, TypeOK
    <3> QED
      BY <2>5, <3>2, <3>3, <3>4, <3>5 DEF ReportUsage, TypeOK, reviewVars, historyVars
  <2> QED
    BY <1>8, <2>1, <2>2, <2>3, <2>4, <2>5 DEF HolderStep
<1>9. CASE ReportUnacknowledged
  <2>1. row' \in [Threads -> Row]
    BY <1>9, <1>row, ColumnType, SMTT(30) DEF ReportUnacknowledged
  <2>2. reports' \in [Leases -> [ended : Nat, unacked : Nat]]
    BY <1>9, <1>rep, ReportType, SMTT(30) DEF ReportUnacknowledged
  <2> QED
    BY <1>9, <2>1, <2>2 DEF ReportUnacknowledged, TypeOK, reviewVars, historyVars
<1>10. CASE ReturnHumanTimeouts
  <2>1. row' \in [Threads -> Row]
    BY <1>10, <1>row, <1>clr, SMTT(30) DEF ReturnHumanTimeouts
  <2>2. budget' \in [Threads -> Budget]
    BY <1>10, <1>bud, <1>open, SMTT(30) DEF ReturnHumanTimeouts
  <2>3. status' \in [Threads -> [by : Members \cup {NoMember}, at : Times \cup {Null}]]
    BY <1>10, SMTT(30) DEF ReturnHumanTimeouts, TypeOK, NoWait
  <2> QED
    BY <1>10, <2>1, <2>2, <2>3 DEF ReturnHumanTimeouts, TypeOK, reviewVars, historyVars
<1>11. ASSUME NEW m \in Members, Freeze(m) PROVE TypeOK'
  <2>1. row' \in [Threads -> Row]
    BY <1>11, <1>row, <1>clr DEF Freeze
  <2>2. budget' \in [Threads -> Budget]
    BY <1>11, <1>bud, <1>open DEF Freeze
  <2> QED
    BY <1>11, <2>1, <2>2 DEF Freeze, TypeOK, reviewVars, historyVars
<1>12. ASSUME NEW m \in Members, Unfreeze(m) PROVE TypeOK'
  BY <1>12 DEF Unfreeze, TypeOK, claimVars, reviewVars, historyVars
<1>13. ASSUME NEW t \in Threads, OperatorStep(t) PROVE TypeOK'
  <2> USE DEF TypeOK, reviewVars, historyVars
  <2>0. row[t] \in Row /\ row[t].state \in States
    BY DEF Row
  <2>1. CASE Unassign(t)
    <3>1. row' \in [Threads -> Row] /\ budget' \in [Threads -> Budget]
      BY <2>0, <2>1, EndClaimType DEF Unassign
    <3> QED
      BY <2>1, <3>1 DEF Unassign
  <2>2. ASSUME NEW max \in UseCaps, NEW maxWall \in WallCaps,
               SetBudget(t, max, maxWall)
        PROVE  TypeOK'
    <3>1. budget' \in [Threads -> Budget]
      <4>1. [budget[t] EXCEPT !.max = max, !.maxWall = maxWall] \in Budget
        BY <1>bud, CapsType
      <4> QED
        BY <2>2, <4>1, <1>bud DEF SetBudget
    <3> QED
      BY <2>2, <3>1 DEF SetBudget
  <2>3. CASE ClearStatus(t)
    BY <2>3 DEF ClearStatus, NoWait, claimVars
  <2>4. CASE HandOff(t)
    <3>1. row' \in [Threads -> Row] /\ budget' \in [Threads -> Budget]
      BY <2>0, <2>4, EndClaimType DEF HandOff
    <3> QED
      BY <2>4, <3>1 DEF HandOff
  <2>5. CASE StartReview(t)
    <3>1. row' \in [Threads -> Row]
      BY <2>5, <1>row, ColumnType DEF StartReview, States
    <3> QED
      BY <2>5, <3>1 DEF StartReview
  <2>6. CASE RequestChanges(t)
    <3>1. [Cleared(row[t]) EXCEPT !.state = "open"] \in Row
      BY <2>0, ClearedType DEF States
    <3>2. [row[t] EXCEPT !.state = "open"] \in Row
      BY <2>0, ColumnType DEF States
    <3>3. row' \in [Threads -> Row]
      BY <2>6, <3>1, <3>2, ZenonT(20) DEF RequestChanges
    <3>4. dropped' \in [Threads -> Nat]
      BY <2>6, OpenWorkedType, SMTT(30) DEF RequestChanges
    <3>5. sendBacks' \in [Threads -> 0 .. MaxRounds]
      BY <2>6, SMTT(30) DEF RequestChanges
    <3>6. capGate' \subseteq Threads /\ finished' \subseteq Threads
      BY <2>6, SMTT(30) DEF RequestChanges
    <3> QED
      BY <2>6, <3>3, <3>4, <3>5, <3>6 DEF RequestChanges
  <2>7. ASSUME NEW accept \in BOOLEAN, ResolveCap(t, accept) PROVE TypeOK'
    <3>1. sendBacks' \in [Threads -> 0 .. MaxRounds]
      BY <2>7, SMTT(30) DEF ResolveCap
    <3>2. capGate' \subseteq Threads /\ roundHeld' \subseteq Threads
      BY <2>7, SMTT(30) DEF ResolveCap
    <3> QED
      BY <2>7, <3>1, <3>2 DEF ResolveCap, claimVars
  <2>8. CASE Unpark(t)
    BY <2>8 DEF Unpark, claimVars
  <2>9. ASSUME NEW from, NEW to \in States, Land(t, from, to) PROVE TypeOK'
    <3>1. row' \in [Threads -> Row] /\ budget' \in [Threads -> Budget]
      BY <2>9, EndClaimType DEF Land
    <3> QED
      BY <2>9, <3>1 DEF Land
  <2>10. CASE Cancel(t)
    <3>1. row' \in [Threads -> Row] /\ budget' \in [Threads -> Budget]
      BY <2>10, EndClaimType DEF Cancel, States
    <3> QED
      BY <2>10, <3>1 DEF Cancel
  <2>11. "closed" \in States /\ "archived" \in States
    BY DEF States
  <2> QED
    BY <1>13, <2>1, <2>2, <2>3, <2>4, <2>5, <2>6, <2>7, <2>8, <2>9, <2>10, <2>11
    DEF OperatorStep, Close, Archive, CloseAbandoned
<1>14. CASE UNCHANGED vars
  BY <1>14 DEF vars, TypeOK, claimVars, reviewVars, historyVars
<1> QED
  BY <1>1, <1>2, <1>3, <1>4, <1>5, <1>6, <1>7, <1>8, <1>9, <1>10, <1>11, <1>12,
     <1>13, <1>14 DEF Next

\* Every reachable state is well typed: no operation leaves a row, a budget or
\* a ledger outside its table's schema, and no charge is ever negative.
THEOREM TypeCorrect == Spec => []TypeOK
<1>1. Init => TypeOK
  BY InitType
<1>2. TypeOK /\ [Next]_vars => TypeOK'
  BY NextType
<1> QED
  BY <1>1, <1>2, PTL DEF Spec
-----------------------------------------------------------------------------
(* The wall-time account: no worked second is lost and none is charged     *)
(* twice.  StepEffect sorts what a step does to a thread into five         *)
(* effects; each invariant then follows from the effects and from Tick,    *)
(* without looking at the operations again.                                *)

\* Seconds settled for a thread: charged, or dropped by a round cap.
Charged(t) == budget[t].usedWall + dropped[t]

\* The open claim is settled up to now or, lapsed, up to its deadline.
Settles(t) ==
  \/ Charged(t)' = Charged(t) + WorkedSecs(row[t], now)
  \/ /\ row[t].deadline # Null /\ row[t].deadline < now
     /\ Charged(t)' = Charged(t) + WorkedSecs(row[t], row[t].deadline)

SameClaim(t) ==
  /\ row'[t].assignee = row[t].assignee
  /\ row'[t].lease = row[t].lease
  /\ row'[t].claimedAt = row[t].claimedAt

Keeps(t) ==
  /\ SameClaim(t)
  /\ row'[t].deadline = row[t].deadline /\ row'[t].started = row[t].started
  /\ Charged(t)' = Charged(t)

Renews(t) ==
  /\ SameClaim(t)
  /\ row'[t].deadline = now + LeaseSecs /\ row'[t].started = row[t].started
  /\ row[t].assignee # NoMember
  /\ Charged(t)' = Charged(t)

Begins(t) ==
  /\ SameClaim(t)
  /\ row'[t].deadline = row[t].deadline
  /\ row[t].started = Null /\ row'[t].started = now
  /\ row[t].assignee # NoMember
  /\ Charged(t)' = Charged(t)

Bare(r) ==
  /\ r.assignee = NoMember /\ r.lease = Null /\ r.deadline = Null
  /\ r.claimedAt = Null /\ r.started = Null

Ends(t) == Bare(row'[t]) /\ Settles(t)

Takes(t) ==
  /\ row'[t].assignee \in workers'[t]
  /\ row'[t].lease # Null /\ row'[t].claimedAt = now /\ row'[t].started = Null
  /\ t \notin capGate' \cup roundHeld'
  /\ Settles(t)

Effect(t) == Keeps(t) \/ Renews(t) \/ Begins(t) \/ Ends(t) \/ Takes(t)

\* A step other than Tick: the clock and its histories stand, workers are only
\* added, and a thread comes under a round cap only unheld.
StepEffect ==
  /\ UNCHANGED <<now, held, worked>>
  /\ \A t \in Threads : workers[t] \subseteq workers'[t]
  /\ \A t \in capGate' \cup roundHeld' :
       t \in capGate \cup roundHeld \/ row'[t].assignee = NoMember
  /\ \A t \in Threads : Effect(t)

\* The inductive invariant.  A working clock cannot be judged without knowing
\* that a bare row has none and that claims were made in the past.
ClaimedBefore == \A t \in Threads : row[t].claimedAt <= now

WallInv ==
  /\ ClaimWhole /\ ClaimedBefore
  /\ HolderIsRecorded /\ RoundCapUnheld
  /\ WorkedTimeKept /\ NeverOvercharged

-----------------------------------------------------------------------------
(* Time and each effect keep the invariant.                                *)

LEMMA InitWall == Init => WallInv
<1> SUFFICES ASSUME Init PROVE WallInv
  OBVIOUS
<1>1. now = 0 /\ capGate = {} /\ roundHeld = {}
  BY DEF Init
<1>2. ASSUME NEW t \in Threads
      PROVE  /\ Bare(row[t]) /\ worked[t] = 0 /\ held[t] = 0 /\ dropped[t] = 0
             /\ budget[t].usedWall = 0
  BY DEF Init, Bare
<1>3. ClaimWhole /\ ClaimedBefore
  BY <1>1, <1>2, SMTT(30) DEF Bare, ClaimWhole, ClaimedBefore, Null
<1>4. HolderIsRecorded /\ RoundCapUnheld
  BY <1>1, <1>2 DEF Bare, HolderIsRecorded, RoundCapUnheld
<1>5. \A t \in Threads : OpenInLease(t) = 0 /\ WorkedSecs(row[t], now) = 0
  BY <1>2 DEF Bare, OpenInLease, WorkedSecs
<1>6. WorkedTimeKept /\ NeverOvercharged
  BY <1>2, <1>5, SMTT(30) DEF WorkedTimeKept, NeverOvercharged
<1> QED
  BY <1>3, <1>4, <1>6 DEF WallInv

LEMMA WorkedNone ==
  ASSUME NEW r, NEW ended, r.started = Null
  PROVE  WorkedSecs(r, ended) = 0
BY DEF WorkedSecs

LEMMA WorkedMonotone ==
  ASSUME NEW r \in Row, NEW a \in Times, NEW b \in Times, a <= b
  PROVE  WorkedSecs(r, a) <= WorkedSecs(r, b)
<1>1. r.started = Null \/ r.started \in Times
  BY DEF Row
<1>2. \A x \in Times : x \in Nat
  BY ClaimConstants, SMTT(30) DEF Times
<1> QED
  BY <1>1, <1>2, SMTT(30) DEF WorkedSecs

LEMMA WorkedNext ==
  ASSUME NEW r \in Row, NEW n \in Nat, r.started # Null, r.started <= n
  PROVE  WorkedSecs(r, n + 1) = WorkedSecs(r, n) + 1
<1>1. r.started \in Nat
  BY ClaimConstants, SMTT(30) DEF Row, Times
<1> QED
  BY <1>1, SMTT(30) DEF WorkedSecs

\* Work within the lease never exceeds work so far.
LEMMA OpenBelow ==
  ASSUME TypeOK, NEW t \in Threads
  PROVE  /\ OpenInLease(t) \in Nat /\ WorkedSecs(row[t], now) \in Nat
         /\ OpenInLease(t) <= WorkedSecs(row[t], now)
<1>1. row[t] \in Row /\ now \in Times
  BY ClockType DEF TypeOK
<1>2. row[t].deadline = Null \/ row[t].deadline \in Times
  BY <1>1 DEF Row
<1>3. WorkedSecs(row[t], now) \in Nat
  BY <1>1, WorkedSecsType
<1>4. CASE row[t].deadline # Null /\ row[t].deadline < now
  <2>1. OpenInLease(t) = WorkedSecs(row[t], row[t].deadline)
    BY <1>4 DEF OpenInLease
  <2>2. row[t].deadline <= now
    BY <1>1, <1>2, <1>4, ClaimConstants, SMTT(30) DEF Times
  <2> QED
    BY <1>1, <1>2, <1>3, <1>4, <2>1, <2>2, WorkedSecsType, WorkedMonotone
<1>5. CASE ~ (row[t].deadline # Null /\ row[t].deadline < now)
  <2>1. OpenInLease(t) = WorkedSecs(row[t], now)
    BY <1>5 DEF OpenInLease
  <2> QED
    BY <1>3, <2>1, SMTT(30)
<1> QED
  BY <1>4, <1>5

\* Time passing opens a second of work exactly where the history counts one.
LEMMA TickWall == TypeOK /\ WallInv /\ Tick => WallInv'
<1> SUFFICES ASSUME TypeOK, WallInv, Tick PROVE WallInv'
  OBVIOUS
<1>0. /\ now \in Nat /\ now' = now + 1
      /\ UNCHANGED <<row, budget, workers, capGate, roundHeld, dropped>>
  BY ClaimConstants, SMTT(30) DEF TypeOK, Tick, claimVars, reviewVars
<1>1. ClaimWhole' /\ ClaimedBefore'
  <2> SUFFICES ASSUME NEW t \in Threads
               PROVE  /\ row[t].claimedAt <= now + 1
                      /\ row[t].started # Null => row[t].started <= now + 1
    BY <1>0 DEF WallInv, ClaimWhole, ClaimedBefore
  <2>1. row[t].claimedAt \in Int /\ row[t].started \in Int
    BY ClaimConstants, SMTT(30) DEF TypeOK, Row, Times, Null
  <2> QED
    <3>1. /\ row[t].claimedAt <= now
          /\ row[t].started # Null => row[t].started <= now
      BY DEF WallInv, ClaimWhole, ClaimedBefore
    <3> QED
      BY <1>0, <2>1, <3>1, SMTT(30)
<1>2. HolderIsRecorded' /\ RoundCapUnheld'
  BY <1>0 DEF WallInv, HolderIsRecorded, RoundCapUnheld
<1>3. WorkedTimeKept' /\ NeverOvercharged'
  <2> SUFFICES ASSUME NEW t \in Threads
               PROVE  /\ worked'[t] <= budget'[t].usedWall + OpenInLease(t)' + dropped'[t]
                      /\ budget'[t].usedWall + dropped'[t] + WorkedSecs(row'[t], now')
                           <= held'[t]
    BY DEF WorkedTimeKept, NeverOvercharged
  <2>1. /\ worked[t] <= budget[t].usedWall + OpenInLease(t) + dropped[t]
        /\ budget[t].usedWall + dropped[t] + WorkedSecs(row[t], now) <= held[t]
    BY DEF WallInv, WorkedTimeKept, NeverOvercharged
  <2>2. /\ row[t].started \in Int /\ row[t].deadline \in Int
        /\ row[t].started # Null => row[t].started <= now
    BY ClaimConstants, SMTT(30) DEF TypeOK, Row, Times, Null, WallInv, ClaimWhole
  <2>3. /\ worked[t] \in Nat /\ held[t] \in Nat /\ dropped[t] \in Nat
        /\ budget[t].usedWall \in Nat
    BY DEF TypeOK, Budget
  <2>4. /\ worked'[t] = IF /\ row[t].started # Null
                           /\ row[t].deadline = Null \/ now < row[t].deadline
                        THEN worked[t] + 1 ELSE worked[t]
        /\ held'[t] = IF row[t].started # Null THEN held[t] + 1 ELSE held[t]
    BY DEF Tick
  <2>5. row[t] \in Row /\ OpenInLease(t) \in Nat /\ WorkedSecs(row[t], now) \in Nat
    BY OpenBelow DEF TypeOK
  <2>6. /\ WorkedSecs(row'[t], now') = WorkedSecs(row[t], now + 1)
        /\ OpenInLease(t)' = IF row[t].deadline # Null /\ row[t].deadline < now + 1
                             THEN WorkedSecs(row[t], row[t].deadline)
                             ELSE WorkedSecs(row[t], now + 1)
    BY <1>0 DEF OpenInLease
  <2>7. CASE row[t].started = Null
    <3>1. \A x : WorkedSecs(row[t], x) = 0
      BY <2>7, WorkedNone
    <3>2. OpenInLease(t) = 0 /\ OpenInLease(t)' = 0 /\ WorkedSecs(row'[t], now') = 0
      BY <2>6, <3>1 DEF OpenInLease
    <3> QED
      BY <1>0, <2>1, <2>3, <2>4, <2>7, <3>1, <3>2
  <2>8. CASE row[t].started # Null
    <3>1. WorkedSecs(row[t], now + 1) = WorkedSecs(row[t], now) + 1
      BY <1>0, <2>2, <2>5, <2>8, WorkedNext
    <3>2. CASE row[t].deadline = Null \/ now < row[t].deadline
      <4>1. OpenInLease(t) = WorkedSecs(row[t], now)
            /\ OpenInLease(t)' = WorkedSecs(row[t], now + 1)
        BY <1>0, <2>2, <2>6, <3>2, SMTT(30) DEF OpenInLease
      <4>2. worked'[t] = worked[t] + 1 /\ held'[t] = held[t] + 1
        BY <2>4, <2>8, <3>2
      <4>3. /\ worked'[t] <= budget[t].usedWall + (OpenInLease(t) + 1) + dropped[t]
            /\ budget[t].usedWall + dropped[t] + (WorkedSecs(row[t], now) + 1) <= held'[t]
        BY <2>1, <2>3, <2>5, <4>2, SMTT(30)
      <4> QED
        BY <1>0, <2>6, <3>1, <4>1, <4>3
    <3>3. CASE row[t].deadline # Null /\ row[t].deadline <= now
      <4>1. OpenInLease(t)' = OpenInLease(t)
        <5>1. OpenInLease(t)' = WorkedSecs(row[t], row[t].deadline)
          BY <1>0, <2>2, <2>6, <3>3, SMTT(30)
        <5>2. row[t].deadline < now \/ row[t].deadline = now
          BY <1>0, <2>2, <3>3, SMTT(30)
        <5> QED
          BY <3>3, <5>1, <5>2, <1>0, <2>2 DEF OpenInLease
      <4>2. worked'[t] = worked[t] /\ held'[t] = held[t] + 1
        BY <1>0, <2>2, <2>4, <2>8, <3>3, SMTT(30)
      <4>3. /\ worked'[t] <= budget[t].usedWall + OpenInLease(t) + dropped[t]
            /\ budget[t].usedWall + dropped[t] + (WorkedSecs(row[t], now) + 1) <= held'[t]
        BY <2>1, <2>3, <2>5, <4>2, SMTT(30)
      <4> QED
        BY <1>0, <2>6, <3>1, <4>1, <4>3
    <3> QED
      BY <1>0, <2>2, <3>2, <3>3, SMTT(30)
  <2> QED
    BY <2>7, <2>8
<1> QED
  BY <1>1, <1>2, <1>3 DEF WallInv

\* Each effect keeps the account: what leaves the open claim is settled.
LEMMA EffectWall == TypeOK /\ TypeOK' /\ WallInv /\ StepEffect => WallInv'
<1> SUFFICES ASSUME TypeOK, TypeOK', WallInv, StepEffect PROVE WallInv'
  OBVIOUS
<1>0. now \in Nat /\ now' = now /\ held' = held /\ worked' = worked
  BY ClaimConstants, SMTT(30) DEF TypeOK, StepEffect
<1>t. ASSUME NEW t \in Threads
      PROVE  /\ row[t].started \in Int /\ row[t].deadline \in Int
             /\ row'[t].started \in Int /\ row'[t].deadline \in Int
             /\ row[t].claimedAt \in Int /\ row'[t].claimedAt \in Int
             /\ worked[t] \in Nat /\ held[t] \in Nat
             /\ dropped[t] \in Nat /\ budget[t].usedWall \in Nat
             /\ dropped'[t] \in Nat /\ budget'[t].usedWall \in Nat
             /\ Effect(t)
  <2>1. row[t] \in Row /\ row'[t] \in Row /\ budget[t] \in Budget /\ budget'[t] \in Budget
    BY DEF TypeOK
  <2>2. \A x \in Times \cup {Null} : x \in Int
    BY ClaimConstants, SMTT(30) DEF Times, Null
  <2>3. worked[t] \in Nat /\ held[t] \in Nat /\ dropped[t] \in Nat /\ dropped'[t] \in Nat
    BY DEF TypeOK
  <2>4. Effect(t)
    BY DEF StepEffect
  <2> QED
    BY <2>1, <2>2, <2>3, <2>4 DEF Row, Budget
<1>1. ClaimWhole' /\ ClaimedBefore'
  <2> SUFFICES ASSUME NEW t \in Threads
               PROVE  /\ row'[t].assignee = NoMember => Bare(row'[t])
                      /\ row'[t].assignee # NoMember
                           => row'[t].lease # Null /\ row'[t].claimedAt # Null
                      /\ row'[t].started # Null
                           => row'[t].claimedAt <= row'[t].started /\ row'[t].started <= now
                      /\ row'[t].claimedAt <= now
    BY <1>0 DEF ClaimWhole, ClaimedBefore, Bare
  <2>1. /\ row[t].assignee = NoMember => Bare(row[t])
        /\ row[t].assignee # NoMember => row[t].lease # Null /\ row[t].claimedAt # Null
        /\ row[t].started # Null
             => row[t].claimedAt <= row[t].started /\ row[t].started <= now
        /\ row[t].claimedAt <= now
    BY DEF WallInv, ClaimWhole, ClaimedBefore, Bare
  <2>2. CASE Keeps(t)
    BY <2>1, <2>2 DEF Keeps, SameClaim, Bare
  <2>3. CASE Renews(t)
    BY <2>1, <2>3 DEF Renews, SameClaim, Bare
  <2>4. CASE Begins(t)
    <3>1. /\ row'[t].assignee = row[t].assignee /\ row'[t].lease = row[t].lease
          /\ row'[t].claimedAt = row[t].claimedAt /\ row'[t].started = now
          /\ row[t].assignee # NoMember
      BY <2>4 DEF Begins, SameClaim
    <3> QED
      BY <2>1, <3>1, <1>0, SMTT(30)
  <2>5. CASE Ends(t)
    BY <2>5, <1>0, SMTT(30) DEF Ends, Bare, Null
  <2>6. CASE Takes(t)
    <3>1. row'[t].assignee # NoMember
      BY <2>6, ClaimConstants DEF Takes, TypeOK
    <3> QED
      BY <2>6, <3>1, <1>0, SMTT(30) DEF Takes, Null
  <2> QED
    BY <1>t, <2>2, <2>3, <2>4, <2>5, <2>6 DEF Effect
<1>2. HolderIsRecorded'
  <2> SUFFICES ASSUME NEW t \in Threads, row'[t].assignee # NoMember
               PROVE  row'[t].assignee \in workers'[t]
    BY DEF HolderIsRecorded
  <2>1. workers[t] \subseteq workers'[t] /\ Effect(t)
    BY DEF StepEffect
  <2> QED
    BY <2>1 DEF Effect, Keeps, Renews, Begins, Ends, Takes, SameClaim, Bare, WallInv,
       HolderIsRecorded
<1>3. RoundCapUnheld'
  <2> SUFFICES ASSUME NEW t \in capGate' \cup roundHeld'
               PROVE  row'[t].assignee = NoMember
    BY DEF RoundCapUnheld
  <2>1. t \in Threads
    BY DEF TypeOK
  <2>2. CASE t \in capGate \cup roundHeld
    BY <2>1, <2>2, <1>t DEF Effect, Keeps, Renews, Begins, Ends, Takes, SameClaim, Bare,
       WallInv, RoundCapUnheld
  <2> QED
    BY <2>2 DEF StepEffect
<1>n. ASSUME NEW t \in Threads
      PROVE  /\ OpenInLease(t) \in Nat /\ WorkedSecs(row[t], now) \in Nat
             /\ OpenInLease(t)' \in Nat /\ WorkedSecs(row'[t], now) \in Nat
  <2>1. row[t] \in Row /\ row'[t] \in Row /\ now \in Times
    BY ClockType DEF TypeOK
  <2>2. /\ row[t].deadline # Null => row[t].deadline \in Times
        /\ row'[t].deadline # Null => row'[t].deadline \in Times
    BY <2>1 DEF Row
  <2>3. OpenInLease(t) \in Nat /\ WorkedSecs(row[t], now) \in Nat
    BY <2>1, <2>2, WorkedSecsType DEF OpenInLease
  <2>4. OpenInLease(t)' \in Nat /\ WorkedSecs(row'[t], now) \in Nat
    BY <1>0, <2>1, <2>2, WorkedSecsType DEF OpenInLease
  <2> QED
    BY <2>3, <2>4
<1>4. WorkedTimeKept' /\ NeverOvercharged'
  <2> SUFFICES ASSUME NEW t \in Threads
               PROVE  /\ worked[t] <= Charged(t)' + OpenInLease(t)'
                      /\ Charged(t)' + WorkedSecs(row'[t], now) <= held[t]
    <3>1. ASSUME NEW t \in Threads, worked[t] <= Charged(t)' + OpenInLease(t)'
          PROVE  worked'[t] <= budget'[t].usedWall + OpenInLease(t)' + dropped'[t]
      BY <3>1, <1>0, <1>t, <1>n, SMTT(30) DEF Charged
    <3>2. ASSUME NEW t \in Threads, Charged(t)' + WorkedSecs(row'[t], now) <= held[t]
          PROVE  budget'[t].usedWall + dropped'[t] + WorkedSecs(row'[t], now') <= held'[t]
      BY <3>2, <1>0 DEF Charged
    <3> QED
      BY <3>1, <3>2 DEF WorkedTimeKept, NeverOvercharged
  <2>1. /\ worked[t] <= Charged(t) + OpenInLease(t)
        /\ Charged(t) + WorkedSecs(row[t], now) <= held[t]
    <3>1. /\ worked[t] <= budget[t].usedWall + OpenInLease(t) + dropped[t]
          /\ budget[t].usedWall + dropped[t] + WorkedSecs(row[t], now) <= held[t]
      BY DEF WallInv, WorkedTimeKept, NeverOvercharged
    <3> QED
      BY <3>1, <1>t, <1>n, SMTT(30) DEF Charged
  <2>0. /\ OpenInLease(t) <= WorkedSecs(row[t], now)
        /\ OpenInLease(t) \in Nat /\ WorkedSecs(row[t], now) \in Nat
    BY OpenBelow
  <2>2. Charged(t) \in Nat /\ Charged(t)' \in Nat
    BY <1>t, SMTT(30) DEF Charged
  <2>3. row[t].started # Null => row[t].started <= now
    BY DEF WallInv, ClaimWhole
  <2>4. CASE Keeps(t)
    BY <2>1, <2>4, <1>0 DEF Keeps, OpenInLease, WorkedSecs
  <2>5. CASE Renews(t)
    <3>1. now + LeaseSecs >= now /\ now + LeaseSecs # Null
      BY <1>0, ClaimConstants, SMTT(30) DEF Null
    <3>2. row'[t].started = row[t].started /\ Charged(t)' = Charged(t)
          /\ row'[t].deadline = now + LeaseSecs
      BY <2>5 DEF Renews
    <3>3. OpenInLease(t)' = WorkedSecs(row'[t], now)
      BY <3>1, <3>2, <1>0, ClaimConstants, SMTT(30) DEF OpenInLease
    <3>4. WorkedSecs(row'[t], now) = WorkedSecs(row[t], now)
      BY <3>2 DEF WorkedSecs
    <3> QED
      BY <2>0, <2>1, <2>2, <3>2, <3>3, <3>4, <1>t, SMTT(30)
  <2>6. CASE Begins(t)
    <3>1. /\ row[t].started = Null /\ row'[t].started = now
          /\ Charged(t)' = Charged(t)
      BY <2>6 DEF Begins
    <3>2. OpenInLease(t) = 0 /\ WorkedSecs(row[t], now) = 0
      BY <3>1, WorkedNone DEF OpenInLease
    <3>3. WorkedSecs(row'[t], now) = 0
      BY <3>1, <1>0, SMTT(30) DEF WorkedSecs
    <3> QED
      BY <2>1, <2>2, <3>1, <3>2, <3>3, <1>n, <1>t, SMTT(30)
  <2>7. ASSUME row'[t].started = Null, Settles(t)
        PROVE  /\ worked[t] <= Charged(t)' + OpenInLease(t)'
               /\ Charged(t)' + WorkedSecs(row'[t], now) <= held[t]
    <3>1. OpenInLease(t)' = 0 /\ WorkedSecs(row'[t], now) = 0
      BY <2>7, <1>0, WorkedNone DEF OpenInLease
    <3>2. \/ Charged(t)' = Charged(t) + WorkedSecs(row[t], now)
          \/ Charged(t)' = Charged(t) + OpenInLease(t)
      BY <2>7 DEF Settles, OpenInLease
    <3> QED
      BY <2>0, <2>1, <2>2, <3>1, <3>2, <1>t, SMTT(30)
  <2> QED
    BY <1>t, <2>4, <2>5, <2>6, <2>7 DEF Effect, Ends, Takes, Bare
<1> QED
  BY <1>1, <1>2, <1>3, <1>4 DEF WallInv

-----------------------------------------------------------------------------
(* What each write does to one row.                                        *)

LEMMA ClearedBare ==
  ASSUME NEW r \in Row
  PROVE  Bare(Cleared(r)) /\ \A s : Bare([Cleared(r) EXCEPT !.state = s])
BY DEF Cleared, Bare, Row

LEMMA ChargedBy ==
  ASSUME TypeOK, NEW t \in Threads, NEW secs \in Nat,
         budget'[t] = Charge(budget[t], secs), UNCHANGED dropped
  PROVE  Charged(t)' = Charged(t) + secs
BY SMTT(30) DEF TypeOK, Budget, Charge, Charged

LEMMA UnchargedKeeps ==
  ASSUME TypeOK, NEW t \in Threads,
         budget'[t].usedWall = budget[t].usedWall, UNCHANGED dropped
  PROVE  Charged(t)' = Charged(t)
BY DEF Charged

LEMMA SameRowKeeps ==
  ASSUME NEW t \in Threads, row'[t] = row[t], Charged(t)' = Charged(t)
  PROVE  Effect(t)
BY DEF Effect, Keeps, SameClaim

\* charge_open_claim_in_tx and the clearing write, on one thread.
LEMMA EndClaimEffect ==
  ASSUME TypeOK, NEW t \in Threads, NEW s \in States, EndClaim(t, s),
         UNCHANGED dropped
  PROVE  /\ \A u \in Threads : Effect(u)
         /\ \A u \in Threads : row'[u].assignee = row[u].assignee
                               \/ row'[u].assignee = NoMember
<1>0. row \in [Threads -> Row] /\ budget \in [Threads -> Budget]
  BY DEF TypeOK
<1>1. Bare(row'[t])
  BY <1>0, ClearedBare DEF EndClaim
<1>2. Charged(t)' = Charged(t) + WorkedSecs(row[t], now)
  BY <1>0, ChargedBy, OpenWorkedType DEF EndClaim
<1>3. Effect(t)
  BY <1>1, <1>2 DEF Effect, Ends, Settles
<1>4. ASSUME NEW u \in Threads, u # t PROVE row'[u] = row[u] /\ Effect(u)
  <2>1. row'[u] = row[u] /\ budget'[u] = budget[u]
    BY <1>0, <1>4 DEF EndClaim
  <2> QED
    BY <2>1, UnchargedKeeps, SameRowKeeps
<1> QED
  BY <1>1, <1>3, <1>4 DEF Bare

\* A claiming write on one thread, whatever it settled there.
LEMMA TakeEffect ==
  ASSUME TypeOK, NEW t \in Threads, NEW m \in Members, NEW d,
         row' = [row EXCEPT ![t] = Taken(row[t], m, d)],
         \E who \in ActingFor(m) : RecordWorkers(t, who),
         t \notin capGate \cup roundHeld, UNCHANGED <<capGate, roundHeld, dropped>>,
         Settles(t), \A u \in Threads \ {t} : budget'[u] = budget[u]
  PROVE  /\ \A u \in Threads : Effect(u)
         /\ \A u \in Threads : workers[u] \subseteq workers'[u]
<1>0. row \in [Threads -> Row] /\ workers \in [Threads -> SUBSET Members]
  BY DEF TypeOK
<1>1. m \in workers'[t] /\ \A u \in Threads : workers[u] \subseteq workers'[u]
  BY <1>0, ActingForType, SMTT(30) DEF RecordWorkers
<1>2. row'[t] = Taken(row[t], m, d)
  BY <1>0
<1>3. /\ row'[t].assignee = m /\ row'[t].lease = issued + 1
      /\ row'[t].claimedAt = now /\ row'[t].started = Null
  BY <1>0, <1>2, SMTT(30) DEF Taken, Row
<1>4. issued + 1 # Null
  BY ClaimConstants, SMTT(30) DEF TypeOK, Null
<1>5. Effect(t)
  BY <1>1, <1>3, <1>4 DEF Effect, Takes
<1>6. ASSUME NEW u \in Threads, u # t PROVE Effect(u)
  <2>1. row'[u] = row[u] /\ budget'[u].usedWall = budget[u].usedWall
    BY <1>0, <1>6
  <2> QED
    BY <2>1, UnchargedKeeps, SameRowKeeps
<1> QED
  BY <1>1, <1>5, <1>6

\* A sweep that ends the claims of a set, settled now or at their deadlines.
LEMMA SweepEffect ==
  ASSUME TypeOK, NEW S \in SUBSET Threads, UNCHANGED dropped,
         row' = [t \in Threads |-> IF t \in S THEN Cleared(row[t]) ELSE row[t]],
         \A t \in S : Settles(t),
         \A t \in Threads \ S : budget'[t] = budget[t]
  PROVE  /\ \A t \in Threads : Effect(t)
         /\ \A t \in Threads : row'[t].assignee = row[t].assignee
                               \/ row'[t].assignee = NoMember
<1>0. row \in [Threads -> Row]
  BY DEF TypeOK
<1>1. ASSUME NEW t \in S PROVE Effect(t) /\ row'[t].assignee = NoMember
  <2>1. Bare(row'[t])
    BY <1>0, ClearedBare
  <2> QED
    BY <2>1 DEF Effect, Ends, Bare
<1>2. ASSUME NEW t \in Threads \ S PROVE Effect(t) /\ row'[t] = row[t]
  <2>1. row'[t] = row[t] /\ budget'[t].usedWall = budget[t].usedWall
    BY <1>0
  <2> QED
    BY <2>1, UnchargedKeeps, SameRowKeeps
<1> QED
  BY <1>1, <1>2

\* A row written without touching its claim, and no charge.
LEMMA ColumnEffect ==
  ASSUME TypeOK, UNCHANGED dropped,
         \A t \in Threads : budget'[t].usedWall = budget[t].usedWall,
         \A t \in Threads :
           /\ SameClaim(t)
           /\ row'[t].deadline = row[t].deadline /\ row'[t].started = row[t].started
  PROVE  \A t \in Threads : Effect(t)
BY UnchargedKeeps DEF Effect, Keeps

LEMMA IdleEffect ==
  ASSUME TypeOK, UNCHANGED <<row, budget, dropped>>
  PROVE  \A t \in Threads : Effect(t)
BY ColumnEffect DEF SameClaim

\* Every step but Tick has one of the five effects on every thread.
LEMMA NextEffect ==
  ASSUME TypeOK, ClaimWhole, Next
  PROVE  Tick \/ StepEffect
<1> USE DEF StepEffect, claimVars, reviewVars, historyVars
<1>row. row \in [Threads -> Row] /\ \A t \in Threads : row[t] \in Row
  BY DEF TypeOK
<1>bud. budget \in [Threads -> Budget]
  BY DEF TypeOK
<1>sub. capGate \subseteq Threads /\ roundHeld \subseteq Threads
  BY DEF TypeOK
<1>open. ASSUME NEW t \in Threads, UNCHANGED dropped,
                budget'[t] = Charge(budget[t], WorkedSecs(row[t], now))
         PROVE  Settles(t)
  BY <1>open, ChargedBy, OpenWorkedType DEF Settles
<1>lapsed. ASSUME NEW t \in Threads, UNCHANGED dropped, Lapsed(row[t], now),
                  row[t].assignee # NoMember,
                  budget'[t] = Charge(budget[t], LapsedWorkedSecs(t))
           PROVE  Settles(t)
  <2>1. Charged(t)' = Charged(t) + LapsedWorkedSecs(t)
    BY <1>lapsed, ChargedBy, LapsedWorkedType
  <2>2. LapsedWorkedSecs(t) = WorkedSecs(row[t], row[t].deadline)
    BY <1>lapsed DEF Lapsed, LapsedWorkedSecs
  <2> QED
    BY <1>lapsed, <2>1, <2>2 DEF Settles, Lapsed
<1>free. ASSUME NEW t \in Threads, UNCHANGED dropped, row[t].assignee = NoMember,
                budget'[t] = budget[t]
         PROVE  Settles(t)
  <2>1. WorkedSecs(row[t], now) = 0
    BY <1>free DEF ClaimWhole, WorkedSecs
  <2>2. Charged(t)' = Charged(t) /\ Charged(t) \in Nat
    BY <1>free, SMTT(30) DEF Charged, TypeOK, Budget
  <2> QED
    BY <2>1, <2>2, SMTT(30) DEF Settles
<1>2. ASSUME NEW rep \in Replicas, Boot(rep) PROVE StepEffect
  BY <1>2, IdleEffect DEF Boot
<1>3. ASSUME NEW rep \in Replicas, ReapExpiredClaims(rep) PROVE StepEffect
  <2>1. PICK S \in SUBSET Threads :
          /\ \A t \in S : row[t].assignee # NoMember /\ Lapsed(row[t], now)
          /\ row' = [t \in Threads |-> IF t \in S THEN Cleared(row[t]) ELSE row[t]]
          /\ budget' = [t \in Threads |->
                          IF t \in S THEN Charge(budget[t], LapsedWorkedSecs(t))
                                     ELSE budget[t]]
    BY <1>3 DEF ReapExpiredClaims, Batches
  <2>2. UNCHANGED <<now, held, worked, dropped, workers, capGate, roundHeld>>
    BY <1>3 DEF ReapExpiredClaims
  <2>3. \A t \in S : Settles(t)
    BY <2>1, <2>2, <1>lapsed
  <2> QED
    BY <2>1, <2>2, <2>3, SweepEffect
<1>4. ASSUME NEW rep \in Replicas, NEW m \in Members, NEW t \in Threads,
             ClaimNext(rep, m, t)
      PROVE  StepEffect
  <2>1. Settles(t)
    <3>1. CASE row[t].assignee = NoMember
      BY <1>4, <3>1, <1>free DEF ClaimNext
    <3>2. CASE row[t].assignee # NoMember
      <4>1. Lapsed(row[t], now)
        BY <1>4, <3>2, <1>row, SMTT(30) DEF ClaimNext, Available, LeaseClock, Lapsed, Row, Times,
           Null, TypeOK
      <4>2. budget'[t] = Charge(budget[t], LapsedWorkedSecs(t))
        BY <1>4, <3>2, <1>bud DEF ClaimNext
      <4> QED
        BY <1>4, <3>2, <4>1, <4>2, <1>lapsed DEF ClaimNext
    <3> QED
      BY <3>1, <3>2
  <2>2. \A u \in Threads \ {t} : budget'[u] = budget[u]
    BY <1>4, <1>bud DEF ClaimNext
  <2>3. /\ \A u \in Threads : Effect(u)
        /\ \A u \in Threads : workers[u] \subseteq workers'[u]
    BY <1>4, <2>1, <2>2, TakeEffect DEF ClaimNext
  <2> QED
    BY <1>4, <2>3 DEF ClaimNext
<1>5. ASSUME NEW m \in Members, NEW t \in Threads, Claim(m, t) PROVE StepEffect
  <2>1. Settles(t) /\ t \notin capGate \cup roundHeld
    BY <1>5, <1>free DEF Claim, RoundCapRefuses
  <2>2. /\ \A u \in Threads : Effect(u)
        /\ \A u \in Threads : workers[u] \subseteq workers'[u]
    BY <1>5, <2>1, TakeEffect DEF Claim
  <2> QED
    BY <1>5, <2>2 DEF Claim
<1>6. ASSUME NEW m \in Members, NEW t \in Threads, Assign(m, t) PROVE StepEffect
  <2>1. Settles(t) /\ t \notin capGate \cup roundHeld
    BY <1>6, <1>open, <1>bud DEF Assign, RoundCapRefuses
  <2>2. \A u \in Threads \ {t} : budget'[u] = budget[u]
    BY <1>6, <1>bud DEF Assign
  <2>3. /\ \A u \in Threads : Effect(u)
        /\ \A u \in Threads : workers[u] \subseteq workers'[u]
    BY <1>6, <2>1, <2>2, TakeEffect DEF Assign
  <2> QED
    BY <1>6, <2>3 DEF Assign
<1>7. ASSUME NEW m \in Members, NEW t \in Threads, DeclareWait(m, t) PROVE StepEffect
  BY <1>7, IdleEffect DEF DeclareWait
<1>8. ASSUME NEW m \in Members, NEW t \in Threads, NEW k \in Leases, HolderStep(m, t, k)
      PROVE  StepEffect
  <2>0. m # NoMember
    BY ClaimConstants
  <2>1. CASE RenewClaim(m, t, k)
    <3>1. UNCHANGED <<now, held, worked, dropped, budget, workers, capGate, roundHeld>>
      BY <2>1 DEF RenewClaim
    <3>2. row' = [row EXCEPT ![t].deadline = now + LeaseSecs] /\ row[t].assignee # NoMember
      BY <2>0, <2>1 DEF RenewClaim, Fenced
    <3>3. Renews(t)
      BY <3>1, <3>2, <1>row, UnchargedKeeps DEF Renews, SameClaim, Row
    <3>4. \A u \in Threads : u # t => Effect(u)
      BY <3>1, <3>2, <1>row, UnchargedKeeps, SameRowKeeps
    <3> QED
      BY <3>1, <3>3, <3>4 DEF Effect
  <2>2. CASE AcknowledgeClaim(m, t, k)
    <3>1. UNCHANGED <<now, held, worked, dropped, budget, workers, capGate, roundHeld>>
      BY <2>2 DEF AcknowledgeClaim
    <3>2. /\ row' = [row EXCEPT ![t].started = now] /\ row[t].assignee # NoMember
          /\ row[t].started = Null
      BY <2>0, <2>2 DEF AcknowledgeClaim, Fenced
    <3>3. Begins(t)
      BY <3>1, <3>2, <1>row, UnchargedKeeps DEF Begins, SameClaim, Row
    <3>4. \A u \in Threads : u # t => Effect(u)
      BY <3>1, <3>2, <1>row, UnchargedKeeps, SameRowKeeps
    <3> QED
      BY <3>1, <3>3, <3>4 DEF Effect
  <2>3. CASE ReleaseClaim(m, t, k)
    BY <2>3, <1>row, EndClaimEffect DEF ReleaseClaim, Row
  <2>4. CASE SetResult(m, t, k)
    BY <2>4, IdleEffect DEF SetResult
  <2>5. ASSUME NEW id \in ReportIds, ReportUsage(m, t, k, id) PROVE StepEffect
    <3> DEFINE used == [budget[t] EXCEPT !.used = @ + 1]
               secs == WorkedSecs(row[t], now)
    <3>0. used \in Budget /\ used.usedWall = budget[t].usedWall
      BY <1>bud, SMTT(30) DEF Budget
    <3>1. UNCHANGED <<now, held, worked, dropped, workers, capGate, roundHeld>>
      BY <2>5 DEF ReportUsage
    <3>2. CASE Exceeded(used, secs)
      <4>1. budget' = [budget EXCEPT ![t] = Charge(used, secs)]
            /\ row' = [row EXCEPT ![t] = Cleared(row[t])]
        BY <2>5, <3>2 DEF ReportUsage
      <4>2. budget'[t].usedWall = budget[t].usedWall + secs
        BY <4>1, <3>0, <1>bud DEF Charge, Budget
      <4>3. Settles(t)
        <5>1. /\ budget[t].usedWall \in Nat /\ dropped[t] \in Nat /\ secs \in Nat
              /\ dropped'[t] = dropped[t]
          BY <3>1, <1>bud, OpenWorkedType DEF TypeOK, Budget
        <5> QED
          BY <4>2, <5>1, SMTT(30) DEF Settles, Charged
      <4>4. row' = [u \in Threads |-> IF u \in {t} THEN Cleared(row[u]) ELSE row[u]]
        BY <4>1, <1>row
      <4>5. \A u \in Threads \ {t} : budget'[u] = budget[u]
        BY <4>1, <1>bud
      <4>6. /\ \A u \in Threads : Effect(u)
            /\ \A u \in Threads : row'[u].assignee = row[u].assignee
                                  \/ row'[u].assignee = NoMember
        BY <3>1, <4>3, <4>4, <4>5, SweepEffect
      <4> QED
        BY <3>1, <4>6
    <3>3. CASE ~ Exceeded(used, secs)
      <4>1. budget' = [budget EXCEPT ![t] = used] /\ row' = row
        BY <2>5, <3>3 DEF ReportUsage
      <4>2. \A u \in Threads : budget'[u].usedWall = budget[u].usedWall
        BY <4>1, <3>0, <1>bud
      <4>3. \A u \in Threads : Effect(u)
        BY <3>1, <4>1, <4>2, ColumnEffect DEF SameClaim
      <4> QED
        BY <3>1, <4>3
    <3> QED
      BY <3>2, <3>3
  <2> QED
    BY <1>8, <2>1, <2>2, <2>3, <2>4, <2>5 DEF HolderStep
<1>9. CASE ReportUnacknowledged
  <2>1. PICK S \in SUBSET Threads :
          row' = [t \in Threads |->
                    IF t \in S THEN [row[t] EXCEPT !.unacked = row[t].lease]
                               ELSE row[t]]
    BY <1>9 DEF ReportUnacknowledged, Batches
  <2>2. \A t \in Threads :
          /\ SameClaim(t)
          /\ row'[t].deadline = row[t].deadline /\ row'[t].started = row[t].started
    BY <2>1, <1>row DEF SameClaim, Row
  <2>3. \A t \in Threads : Effect(t)
    BY <1>9, <2>2, ColumnEffect DEF ReportUnacknowledged
  <2> QED
    BY <1>9, <2>3 DEF ReportUnacknowledged
<1>10. CASE ReturnHumanTimeouts
  <2>1. PICK S \in SUBSET Threads :
          /\ row' = [t \in Threads |-> IF t \in S THEN Cleared(row[t]) ELSE row[t]]
          /\ budget' = [t \in Threads |->
                          IF t \in S THEN Charge(budget[t], WorkedSecs(row[t], now))
                                     ELSE budget[t]]
    BY <1>10 DEF ReturnHumanTimeouts, Batches
  <2>2. UNCHANGED <<now, held, worked, dropped, workers, capGate, roundHeld>>
    BY <1>10 DEF ReturnHumanTimeouts
  <2>3. \A t \in S : Settles(t)
    BY <2>1, <2>2, <1>open
  <2> QED
    BY <2>1, <2>2, <2>3, SweepEffect
<1>11. ASSUME NEW m \in Members, Freeze(m) PROVE StepEffect
  <2> DEFINE mine == {t \in Threads : row[t].assignee = m /\ row[t].state \in Live}
  <2>1. /\ row' = [t \in Threads |-> IF t \in mine THEN Cleared(row[t]) ELSE row[t]]
        /\ budget' = [t \in Threads |->
                        IF t \in mine THEN Charge(budget[t], WorkedSecs(row[t], now))
                                      ELSE budget[t]]
    BY <1>11 DEF Freeze
  <2>2. UNCHANGED <<now, held, worked, dropped, workers, capGate, roundHeld>>
    BY <1>11 DEF Freeze
  <2>3. \A t \in mine : Settles(t)
    BY <2>1, <2>2, <1>open
  <2> QED
    BY <2>1, <2>2, <2>3, SweepEffect
<1>12. ASSUME NEW m \in Members, Unfreeze(m) PROVE StepEffect
  BY <1>12, IdleEffect DEF Unfreeze
<1>13. ASSUME NEW t \in Threads, OperatorStep(t) PROVE StepEffect
  <2>0. row[t].state \in States /\ "closed" \in States /\ "archived" \in States
    BY <1>row DEF Row, States
  <2>1. CASE Unassign(t)
    BY <2>0, <2>1, EndClaimEffect DEF Unassign
  <2>2. ASSUME NEW max \in UseCaps, NEW maxWall \in WallCaps, SetBudget(t, max, maxWall)
        PROVE  StepEffect
    <3>1. UNCHANGED <<now, held, worked, dropped, row, workers, capGate, roundHeld>>
      BY <2>2 DEF SetBudget
    <3>2. \A u \in Threads : budget'[u].usedWall = budget[u].usedWall
      BY <2>2, <1>bud DEF SetBudget, Budget
    <3>3. \A u \in Threads : Effect(u)
      BY <3>1, <3>2, ColumnEffect DEF SameClaim
    <3> QED
      BY <3>1, <3>3
  <2>3. CASE ClearStatus(t)
    BY <2>3, IdleEffect DEF ClearStatus
  <2>4. CASE HandOff(t)
    BY <2>0, <2>4, EndClaimEffect DEF HandOff
  <2>5. CASE StartReview(t)
    <3>1. UNCHANGED <<now, held, worked, dropped, budget, workers, capGate, roundHeld>>
      BY <2>5 DEF StartReview
    <3>2. \A u \in Threads :
            /\ SameClaim(u)
            /\ row'[u].deadline = row[u].deadline /\ row'[u].started = row[u].started
      BY <2>5, <1>row DEF StartReview, SameClaim, Row
    <3> QED
      BY <3>1, <3>2, ColumnEffect
  <2>6. CASE RequestChanges(t)
    <3>1. UNCHANGED <<now, held, worked, budget, workers, roundHeld>>
      BY <2>6 DEF RequestChanges
    <3>2. CASE Escalates(t)
      <4>1. /\ row' = [row EXCEPT ![t] = [Cleared(row[t]) EXCEPT !.state = "open"]]
            /\ dropped' = [dropped EXCEPT ![t] = @ + WorkedSecs(row[t], now)]
            /\ capGate' = capGate \cup {t}
        BY <2>6, <3>2 DEF RequestChanges
      <4>2. Bare(row'[t])
        BY <4>1, <1>row, ClearedBare
      <4>3. Settles(t)
        BY <3>1, <4>1, OpenWorkedType, SMTT(30) DEF Settles, Charged, TypeOK, Budget
      <4>4. ASSUME NEW u \in Threads, u # t PROVE Effect(u)
        <5>1. row'[u] = row[u] /\ Charged(u)' = Charged(u)
          BY <3>1, <4>1, <4>4, <1>row DEF Charged, TypeOK
        <5> QED
          BY <5>1, SameRowKeeps
      <4> QED
        BY <3>1, <4>1, <4>2, <4>3, <4>4 DEF Effect, Ends, Bare
    <3>3. CASE ~ Escalates(t)
      <4>1. row' = [row EXCEPT ![t].state = "open"] /\ UNCHANGED <<capGate, dropped>>
        BY <2>6, <3>3 DEF RequestChanges
      <4>2. \A u \in Threads :
              /\ SameClaim(u)
              /\ row'[u].deadline = row[u].deadline /\ row'[u].started = row[u].started
        BY <4>1, <1>row DEF SameClaim, Row
      <4> QED
        BY <3>1, <4>1, <4>2, ColumnEffect
    <3> QED
      BY <3>2, <3>3
  <2>7. ASSUME NEW accept \in BOOLEAN, ResolveCap(t, accept) PROVE StepEffect
    BY <2>7, IdleEffect DEF ResolveCap
  <2>8. CASE Unpark(t)
    BY <2>8, IdleEffect DEF Unpark
  <2>9. ASSUME NEW from, NEW to \in States, Land(t, from, to) PROVE StepEffect
    BY <2>9, EndClaimEffect DEF Land
  <2>10. CASE Cancel(t)
    BY <2>0, <2>10, EndClaimEffect DEF Cancel
  <2> QED
    BY <1>13, <2>0, <2>1, <2>2, <2>3, <2>4, <2>5, <2>6, <2>7, <2>8, <2>9, <2>10
    DEF OperatorStep, Close, Archive, CloseAbandoned
<1> QED
  BY <1>2, <1>3, <1>4, <1>5, <1>6, <1>7, <1>8, <1>9, <1>10, <1>11, <1>12, <1>13 DEF Next

-----------------------------------------------------------------------------
(* The account always holds.                                               *)

\* The account holds in every reachable state.
THEOREM AlwaysWall == Spec => []WallInv
<1>1. TypeOK /\ TypeOK' /\ WallInv /\ [Next]_vars => WallInv'
  <2> SUFFICES ASSUME TypeOK, TypeOK', WallInv, [Next]_vars PROVE WallInv'
    OBVIOUS
  <2>1. CASE Next
    BY <2>1, NextEffect, TickWall, EffectWall DEF WallInv
  <2>2. CASE UNCHANGED vars
    <3>1. StepEffect
      BY <2>2, IdleEffect DEF vars, claimVars, reviewVars, historyVars, StepEffect
    <3> QED
      BY <3>1, EffectWall
  <2> QED
    BY <2>1, <2>2
<1> QED
  BY <1>1, InitWall, TypeCorrect, PTL DEF Spec

\* No worked second escapes the budget, except those a round cap drops.
THEOREM NoWorkedSecondLost == Spec => []WorkedTimeKept
BY AlwaysWall, PTL DEF WallInv

\* No second is charged twice.
THEOREM NoSecondChargedTwice == Spec => []NeverOvercharged
BY AlwaysWall, PTL DEF WallInv

\* Every claim column is set and cleared together.
THEOREM ClaimsStayWhole == Spec => []ClaimWhole
BY AlwaysWall, PTL DEF WallInv

\* Whoever holds a thread is in the worker ledger.
THEOREM HoldersStayRecorded == Spec => []HolderIsRecorded
BY AlwaysWall, PTL DEF WallInv

\* Nobody holds a thread under a round cap.
THEOREM RoundCapStaysUnheld == Spec => []RoundCapUnheld
BY AlwaysWall, PTL DEF WallInv

-----------------------------------------------------------------------------
(* ThreadClaims implements FencedClaims: every store operation takes one   *)
(* thread under a new token, drops the claims of a set of threads, writes  *)
(* a result under the current token, or changes none of the three.  What   *)
(* FencedClaims guarantees then holds of the claim columns.                *)

Laws == INSTANCE FencedClaimsProofs WITH
  holder <- [t \in Threads |-> row[t].assignee],
  token <- [t \in Threads |-> row[t].lease],
  high <- issued,
  written <- result

\* The claims on S end and the others stand.
Drops(S) ==
  /\ \A t \in Threads :
       /\ row'[t].assignee = IF t \in S THEN NoMember ELSE row[t].assignee
       /\ row'[t].lease = IF t \in S THEN Null ELSE row[t].lease
  /\ UNCHANGED <<issued, result>>

\* A clearing write clears holder and token.
LEMMA ClearedUnheld ==
  ASSUME NEW r \in Row, NEW s \in States
  PROVE  /\ Cleared(r).assignee = NoMember /\ Cleared(r).lease = Null
         /\ [Cleared(r) EXCEPT !.state = s].assignee = NoMember
         /\ [Cleared(r) EXCEPT !.state = s].lease = Null
BY DEF Cleared, Row

\* A write to any other column leaves holder and token.
LEMMA ColumnKeeps ==
  ASSUME NEW r \in Row
  PROVE  /\ \A d : [r EXCEPT !.deadline = d].assignee = r.assignee
         /\ \A d : [r EXCEPT !.deadline = d].lease = r.lease
         /\ \A d : [r EXCEPT !.started = d].assignee = r.assignee
         /\ \A d : [r EXCEPT !.started = d].lease = r.lease
         /\ \A k : [r EXCEPT !.unacked = k].assignee = r.assignee
         /\ \A k : [r EXCEPT !.unacked = k].lease = r.lease
         /\ \A s : [r EXCEPT !.state = s].assignee = r.assignee
         /\ \A s : [r EXCEPT !.state = s].lease = r.lease
BY DEF Row

LEMMA TakenBy ==
  ASSUME NEW r \in Row, NEW m, NEW d
  PROVE  Taken(r, m, d).assignee = m /\ Taken(r, m, d).lease = issued + 1
BY DEF Taken, Row

LEMMA EndClaimDrops ==
  ASSUME TypeOK, NEW t \in Threads, NEW s \in States, EndClaim(t, s),
         UNCHANGED <<issued, result>>
  PROVE  Drops({t})
BY ClearedUnheld DEF EndClaim, Drops, TypeOK

LEMMA DropsImplements ==
  ASSUME NEW S \in SUBSET Threads, Drops(S)
  PROVE  Abstract!Next
<1>1. Abstract!Drop(S)
  BY DEF Drops, Abstract!Drop, Abstract!Null, Null
<1> QED
  BY <1>1 DEF Abstract!Next

LEMMA KeepsImplements ==
  ASSUME \A t \in Threads : row'[t].assignee = row[t].assignee
                            /\ row'[t].lease = row[t].lease,
         UNCHANGED <<issued, result>>
  PROVE  UNCHANGED Abstract!vars
BY DEF Abstract!vars

LEMMA TakeStep ==
  ASSUME NEW t \in Threads, NEW m \in Members,
         \A u \in Threads :
           /\ row'[u].assignee = IF u = t THEN m ELSE row[u].assignee
           /\ row'[u].lease = IF u = t THEN issued + 1 ELSE row[u].lease,
         issued' = issued + 1, UNCHANGED result
  PROVE  Abstract!Take(t, m)
<1>1. [u \in Threads |-> row'[u].assignee]
        = [[u \in Threads |-> row[u].assignee] EXCEPT ![t] = m]
  OBVIOUS
<1>2. [u \in Threads |-> row'[u].lease]
        = [[u \in Threads |-> row[u].lease] EXCEPT ![t] = issued + 1]
  OBVIOUS
<1> QED
  BY <1>1, <1>2 DEF Abstract!Take

LEMMA TakesImplements ==
  ASSUME TypeOK, NEW t \in Threads, NEW m \in Members, NEW d,
         row' = [row EXCEPT ![t] = Taken(row[t], m, d)],
         issued' = issued + 1, UNCHANGED result
  PROVE  Abstract!Next
<1>0. row \in [Threads -> Row]
  BY DEF TypeOK
<1>2. row'[t].assignee = m /\ row'[t].lease = issued + 1
  BY <1>0, TakenBy, SMTT(30)
<1>3. \A u \in Threads : u # t => row'[u] = row[u]
  BY <1>0
<1>1. Abstract!Take(t, m)
  BY <1>2, <1>3, TakeStep, SMTT(30)
<1> QED
  BY <1>1 DEF Abstract!Next

\* Every step of ThreadClaims is a step of FencedClaims or stutters there.
LEMMA NextImplements == TypeOK /\ [Next]_vars => [Abstract!Next]_(Abstract!vars)
<1> SUFFICES ASSUME TypeOK, [Next]_vars
             PROVE  Abstract!Next \/ UNCHANGED Abstract!vars
  OBVIOUS
<1> DEFINE Goal == Abstract!Next \/ UNCHANGED Abstract!vars
<1>row. row \in [Threads -> Row] /\ \A t \in Threads : row[t] \in Row
  BY DEF TypeOK
<1>clr. \A t \in Threads : Cleared(row[t]).assignee = NoMember /\ Cleared(row[t]).lease = Null
  BY <1>row, ClearedUnheld DEF Row
<1>idle. ASSUME UNCHANGED <<row, issued, result>> PROVE Goal
  BY <1>idle, KeepsImplements
<1>1. CASE Tick
  BY <1>1, <1>idle DEF Tick, claimVars, reviewVars
<1>2. ASSUME NEW rep \in Replicas, Boot(rep) PROVE Goal
  BY <1>2, <1>idle DEF Boot, claimVars, reviewVars
<1>3. ASSUME NEW rep \in Replicas, ReapExpiredClaims(rep) PROVE Goal
  <2>1. PICK S \in SUBSET Threads :
          row' = [t \in Threads |-> IF t \in S THEN Cleared(row[t]) ELSE row[t]]
    BY <1>3 DEF ReapExpiredClaims, Batches
  <2>2. Drops(S)
    BY <1>3, <2>1, <1>clr DEF ReapExpiredClaims, Drops, reviewVars
  <2> QED
    BY <2>2, DropsImplements
<1>4. ASSUME NEW rep \in Replicas, NEW m \in Members, NEW t \in Threads,
             ClaimNext(rep, m, t)
      PROVE  Goal
  BY <1>4, TakesImplements DEF ClaimNext, NewLease, reviewVars
<1>5. ASSUME NEW m \in Members, NEW t \in Threads, Claim(m, t) PROVE Goal
  BY <1>5, TakesImplements DEF Claim, NewLease, reviewVars
<1>6. ASSUME NEW m \in Members, NEW t \in Threads, Assign(m, t) PROVE Goal
  BY <1>6, TakesImplements DEF Assign, NewLease, reviewVars
<1>7. ASSUME NEW m \in Members, NEW t \in Threads, DeclareWait(m, t) PROVE Goal
  BY <1>7, <1>idle DEF DeclareWait, claimVars, reviewVars
<1>8. ASSUME NEW m \in Members, NEW t \in Threads, NEW k \in Leases, HolderStep(m, t, k)
      PROVE  Goal
  <2>1. CASE RenewClaim(m, t, k)
    BY <2>1, <1>row, ColumnKeeps, KeepsImplements, SMTT(30) DEF RenewClaim, reviewVars
  <2>2. CASE AcknowledgeClaim(m, t, k)
    BY <2>2, <1>row, ColumnKeeps, KeepsImplements, SMTT(30) DEF AcknowledgeClaim, reviewVars
  <2>3. CASE ReleaseClaim(m, t, k)
    <3>1. Drops({t})
      BY <2>3, <1>row, EndClaimDrops DEF ReleaseClaim, reviewVars, Row
    <3> QED
      BY <3>1, DropsImplements
  <2>4. CASE SetResult(m, t, k)
    <3>1. k # -1 /\ row[t].lease = k
      BY <2>4, ClaimConstants, SMTT(30) DEF SetResult, Fenced, Leases
    <3>2. Abstract!Write(t)
      BY <2>4, <3>1 DEF SetResult, claimVars, Abstract!Write, Abstract!Null
    <3> QED
      BY <3>2 DEF Abstract!Next
  <2>5. ASSUME NEW id \in ReportIds, ReportUsage(m, t, k, id) PROVE Goal
    <3>1. row' = [row EXCEPT ![t] = Cleared(row[t])] \/ UNCHANGED row
      BY <2>5 DEF ReportUsage
    <3>2. UNCHANGED <<issued, result>>
      BY <2>5 DEF ReportUsage, reviewVars
    <3>3. CASE row' = [row EXCEPT ![t] = Cleared(row[t])]
      <4>1. Drops({t})
        BY <3>2, <3>3, <1>row, <1>clr DEF Drops
      <4> QED
        BY <4>1, DropsImplements
    <3> QED
      BY <3>1, <3>2, <3>3, <1>idle
  <2> QED
    BY <1>8, <2>1, <2>2, <2>3, <2>4, <2>5 DEF HolderStep
<1>9. CASE ReportUnacknowledged
  BY <1>9, <1>row, ColumnKeeps, KeepsImplements, SMTT(30) DEF ReportUnacknowledged, reviewVars
<1>10. CASE ReturnHumanTimeouts
  <2>1. PICK S \in SUBSET Threads :
          row' = [t \in Threads |-> IF t \in S THEN Cleared(row[t]) ELSE row[t]]
    BY <1>10 DEF ReturnHumanTimeouts, Batches
  <2>2. Drops(S)
    BY <1>10, <2>1, <1>clr DEF ReturnHumanTimeouts, Drops, reviewVars
  <2> QED
    BY <2>2, DropsImplements
<1>11. ASSUME NEW m \in Members, Freeze(m) PROVE Goal
  <2> DEFINE mine == {t \in Threads : row[t].assignee = m /\ row[t].state \in Live}
  <2>1. Drops(mine)
    BY <1>11, <1>clr DEF Freeze, Drops, reviewVars
  <2> QED
    BY <2>1, DropsImplements
<1>12. ASSUME NEW m \in Members, Unfreeze(m) PROVE Goal
  BY <1>12, <1>idle DEF Unfreeze, claimVars, reviewVars
<1>13. ASSUME NEW t \in Threads, OperatorStep(t) PROVE Goal
  <2>end. ASSUME NEW s \in States, EndClaim(t, s), UNCHANGED <<issued, result>>
          PROVE  Goal
    BY <2>end, EndClaimDrops, DropsImplements
  <2>0. row[t].state \in States /\ "closed" \in States /\ "archived" \in States
    BY <1>row DEF Row, States
  <2>1. CASE Unassign(t)
    BY <2>0, <2>1, <2>end DEF Unassign, reviewVars
  <2>2. ASSUME NEW max \in UseCaps, NEW maxWall \in WallCaps, SetBudget(t, max, maxWall)
        PROVE  Goal
    BY <2>2, <1>idle DEF SetBudget, reviewVars
  <2>3. CASE ClearStatus(t)
    BY <2>3, <1>idle DEF ClearStatus, claimVars, reviewVars
  <2>4. CASE HandOff(t)
    BY <2>0, <2>4, <2>end DEF HandOff
  <2>5. CASE StartReview(t)
    BY <2>5, <1>row, ColumnKeeps, KeepsImplements, SMTT(30) DEF StartReview, reviewVars
  <2>6. CASE RequestChanges(t)
    <3>1. UNCHANGED <<issued, result>>
      BY <2>6 DEF RequestChanges
    <3>2. CASE row' = [row EXCEPT ![t].state = "open"]
      BY <3>1, <3>2, <1>row, ColumnKeeps, KeepsImplements, SMTT(30)
    <3>3. CASE row' = [row EXCEPT ![t] = [Cleared(row[t]) EXCEPT !.state = "open"]]
      <4>1. Drops({t})
        BY <3>1, <3>3, <1>row, ClearedUnheld DEF Drops, States
      <4> QED
        BY <4>1, DropsImplements
    <3> QED
      BY <2>6, <3>2, <3>3 DEF RequestChanges
  <2>7. ASSUME NEW accept \in BOOLEAN, ResolveCap(t, accept) PROVE Goal
    BY <2>7, <1>idle DEF ResolveCap, claimVars
  <2>8. CASE Unpark(t)
    BY <2>8, <1>idle DEF Unpark, claimVars
  <2>9. ASSUME NEW from, NEW to \in States, Land(t, from, to) PROVE Goal
    BY <2>9, <2>end DEF Land, reviewVars
  <2>10. CASE Cancel(t)
    BY <2>0, <2>10, <2>end DEF Cancel
  <2> QED
    BY <1>13, <2>0, <2>1, <2>2, <2>3, <2>4, <2>5, <2>6, <2>7, <2>8, <2>9, <2>10
    DEF OperatorStep, Close, Archive, CloseAbandoned
<1>14. CASE UNCHANGED vars
  BY <1>14, <1>idle DEF vars, claimVars, reviewVars
<1> QED
  BY <1>1, <1>2, <1>3, <1>4, <1>5, <1>6, <1>7, <1>8, <1>9, <1>10, <1>11, <1>12,
     <1>13, <1>14 DEF Next

\* The claim columns are a fenced lock: every behaviour of the store is one of
\* FencedClaims.
THEOREM Implements == Spec => ImplementsFencedClaims
<1>1. Init => Abstract!Init
  BY SMTT(30) DEF Init, Abstract!Init, Abstract!Null, Null
<1>2. TypeOK /\ [Next]_vars => [Abstract!Next]_(Abstract!vars)
  BY NextImplements
<1> QED
  BY <1>1, <1>2, TypeCorrect, PTL DEF Spec, ImplementsFencedClaims, Abstract!Spec

\* FencedClaims read through the proofs module is the same specification.
LEMMA SameLaws == ImplementsFencedClaims => Laws!Spec
<1>1. Abstract!Init => Laws!Init
  BY DEF Abstract!Init, Laws!Init, Abstract!Null, Laws!Null
<1>2. [Abstract!Next]_(Abstract!vars) => [Laws!Next]_(Laws!vars)
  BY DEF Abstract!Next, Laws!Next, Abstract!vars, Laws!vars, Abstract!Take, Laws!Take,
         Abstract!Drop, Laws!Drop, Abstract!Write, Laws!Write, Abstract!Null, Laws!Null
<1> QED
  BY <1>1, <1>2, PTL DEF ImplementsFencedClaims, Abstract!Spec, Laws!Spec

\* No two threads are ever held under one token, and every token in use was
\* handed out.
THEOREM TokensStayDistinct == Spec => []TokensDistinct
<1>1. Laws!TypeOK /\ Laws!Fenced => TokensDistinct
  BY SMTT(30) DEF Laws!TypeOK, Laws!Fenced, Laws!Null, TokensDistinct, Null
<1> QED
  BY <1>1, Implements, SameLaws, Laws!AlwaysFenced, PTL

\* A result is never replaced by one an earlier claim produced.
THEOREM ResultsKeepMoving == Spec => ResultNeverRegresses
<1>2. TypeOK => \A t \in Threads : result[t] >= result[t]
  <2> SUFFICES ASSUME TypeOK, NEW t \in Threads PROVE result[t] >= result[t]
    OBVIOUS
  <2>1. result[t] \in Leases \cup {Null}
    BY DEF TypeOK
  <2>2. result[t] \in Int
    BY <2>1, ClaimConstants, SMTT(30) DEF Leases, Null
  <2> QED
    BY <2>2, SMTT(30)
<1>3. TypeOK /\ [\A t \in Threads : result'[t] >= result[t]]_(Laws!vars)
        => [\A t \in Threads : result'[t] >= result[t]]_vars
  BY <1>2 DEF Laws!vars
<1> QED
  BY <1>3, Implements, SameLaws, Laws!ResultsMoveForward, TypeCorrect, PTL
  DEF Laws!WrittenNeverRegresses, ResultNeverRegresses

-----------------------------------------------------------------------------
(* Reports: what the usage ledger counts, and each claim announced once.   *)

\* A step that takes no usage report, announces nothing about a claim, and on
\* every row keeps the token, drops it or sets the next one without a deadline.
Quiet ==
  /\ UNCHANGED <<ledger, reports>>
  /\ issued' \in {issued, issued + 1}
  /\ \A t \in Threads : budget'[t].used = budget[t].used
  /\ \A t \in Threads :
       /\ row'[t].unacked = row[t].unacked
       /\ \/ row'[t].lease \in {row[t].lease, Null}
          \/ /\ row'[t].lease = issued + 1 /\ issued' = issued + 1
             /\ row'[t].deadline = Null

LEMMA QuietColumns ==
  ASSUME NEW r \in Row, NEW b \in Budget, NEW m, NEW d, NEW s
  PROVE  /\ Charge(b, d).used = b.used
         /\ Cleared(r).lease = Null /\ Cleared(r).unacked = r.unacked
         /\ [Cleared(r) EXCEPT !.state = s].lease = Null
         /\ [Cleared(r) EXCEPT !.state = s].unacked = r.unacked
         /\ Taken(r, m, d).lease = issued + 1 /\ Taken(r, m, d).unacked = r.unacked
         /\ Taken(r, m, d).deadline = d
BY DEF Charge, Cleared, Taken, Row, Budget

LEMMA ChargeKeepsUsed == \A b \in Budget : \A d : Charge(b, d).used = b.used
BY DEF Charge, Budget

LEMMA QuietCleared ==
  \A r \in Row : Cleared(r).lease = Null /\ Cleared(r).unacked = r.unacked
BY DEF Cleared, Row

LEMMA QuietTaken ==
  ASSUME NEW r \in Row, NEW m, NEW d
  PROVE  Taken(r, m, d).lease = issued + 1 /\ Taken(r, m, d).unacked = r.unacked
BY DEF Taken, Row

LEMMA QuietEnd ==
  ASSUME TypeOK, NEW t \in Threads, NEW s, EndClaim(t, s), UNCHANGED <<issued, reports, ledger>>
  PROVE  Quiet
<1>1. row \in [Threads -> Row] /\ budget \in [Threads -> Budget]
  BY DEF TypeOK
<1>2. /\ row'[t].lease = Null /\ row'[t].unacked = row[t].unacked
      /\ budget'[t].used = budget[t].used
      /\ \A u \in Threads \ {t} : row'[u] = row[u] /\ budget'[u] = budget[u]
  BY <1>1, QuietColumns, SMTT(30) DEF EndClaim
<1> QED BY <1>2 DEF Quiet

\* The steps that are not: a sweep or a take-over that reports, a usage report.
LEMMA NextQuiet ==
  ASSUME TypeOK, [Next]_vars
  PROVE  \/ Quiet
         \/ \E rep \in Replicas : ReapExpiredClaims(rep)
         \/ \E rep \in Replicas, m \in Members, t \in Threads : ClaimNext(rep, m, t)
         \/ \E m \in Members, t \in Threads, k \in Leases, id \in ReportIds :
              ReportUsage(m, t, k, id)
         \/ ReportUnacknowledged
<1>tab. /\ row \in [Threads -> Row] /\ budget \in [Threads -> Budget]
        /\ \A t \in Threads : row[t] \in Row /\ budget[t] \in Budget
  BY DEF TypeOK
<1>idle. ASSUME UNCHANGED <<row, budget, issued, reports, ledger>> PROVE Quiet
  BY <1>idle DEF Quiet
<1>1. CASE Tick
  BY <1>1, <1>idle DEF Tick, claimVars
<1>2. ASSUME NEW rep \in Replicas, Boot(rep) PROVE Quiet
  BY <1>2, <1>idle DEF Boot, claimVars
<1>3. ASSUME NEW m \in Members, NEW t \in Threads, Claim(m, t) \/ Assign(m, t) PROVE Quiet
  <2>1. row' = [row EXCEPT ![t] = Taken(row[t], m, Null)]
    BY <1>3 DEF Claim, Assign
  <2>2. /\ row'[t].lease = issued + 1 /\ row'[t].unacked = row[t].unacked
        /\ row'[t].deadline = Null
        /\ \A u \in Threads \ {t} : row'[u] = row[u]
    BY <1>tab, <2>1, QuietColumns, SMTT(30)
  <2>3. \A u \in Threads : budget'[u].used = budget[u].used
    <3>1. CASE Claim(m, t)
      BY <3>1 DEF Claim
    <3>2. CASE Assign(m, t)
      <4>1. /\ budget'[t] = Charge(budget[t], WorkedSecs(row[t], now))
            /\ \A u \in Threads \ {t} : budget'[u] = budget[u]
        BY <3>2, <1>tab DEF Assign
      <4> QED BY <4>1, <1>tab, ChargeKeepsUsed, SMTT(30)
    <3> QED BY <1>3, <3>1, <3>2
  <2>4. issued' = issued + 1 /\ UNCHANGED <<ledger, reports>>
    BY <1>3 DEF Claim, Assign, NewLease
  <2> QED BY <2>2, <2>3, <2>4 DEF Quiet
<1>4. ASSUME NEW m \in Members, NEW t \in Threads, DeclareWait(m, t) PROVE Quiet
  BY <1>4, <1>idle DEF DeclareWait, claimVars
<1>5. ASSUME NEW m \in Members, NEW t \in Threads, NEW k \in Leases,
             RenewClaim(m, t, k) \/ AcknowledgeClaim(m, t, k) \/ ReleaseClaim(m, t, k)
               \/ SetResult(m, t, k)
      PROVE  Quiet
  <2>1. CASE RenewClaim(m, t, k)
    BY <2>1, <1>tab DEF RenewClaim, Quiet, Row
  <2>2. CASE AcknowledgeClaim(m, t, k)
    BY <2>2, <1>tab, SMTT(30) DEF AcknowledgeClaim, Quiet, Row
  <2>3. CASE ReleaseClaim(m, t, k)
    BY <2>3, QuietEnd DEF ReleaseClaim
  <2>4. CASE SetResult(m, t, k)
    BY <2>4, <1>idle DEF SetResult, claimVars
  <2> QED BY <1>5, <2>1, <2>2, <2>3, <2>4
<1>6. ASSUME NEW S \in SUBSET Threads,
             row' = [t \in Threads |-> IF t \in S THEN Cleared(row[t]) ELSE row[t]],
             budget' = [t \in Threads |->
                          IF t \in S THEN Charge(budget[t], WorkedSecs(row[t], now))
                                     ELSE budget[t]],
             UNCHANGED <<issued, reports, ledger>>
      PROVE  Quiet
  <2>1. \A t \in Threads : /\ row'[t].lease \in {row[t].lease, Null}
                           /\ row'[t].unacked = row[t].unacked
                           /\ budget'[t].used = budget[t].used
    <3> SUFFICES ASSUME NEW t \in Threads
                 PROVE  /\ row'[t].lease \in {row[t].lease, Null}
                        /\ row'[t].unacked = row[t].unacked
                        /\ budget'[t].used = budget[t].used
      OBVIOUS
    <3>1. CASE t \in S
      <4>1. /\ row'[t] = Cleared(row[t])
            /\ budget'[t] = Charge(budget[t], WorkedSecs(row[t], now))
        BY <1>6, <3>1
      <4> QED BY <4>1, <1>tab, QuietColumns, ChargeKeepsUsed, SMTT(30)
    <3>2. CASE t \notin S
      BY <1>6, <3>2
    <3> QED BY <3>1, <3>2
  <2> QED BY <1>6, <2>1 DEF Quiet
<1>7. CASE ReturnHumanTimeouts
  <2>1. \E S \in SUBSET Threads :
          /\ row' = [t \in Threads |-> IF t \in S THEN Cleared(row[t]) ELSE row[t]]
          /\ budget' = [t \in Threads |->
                          IF t \in S THEN Charge(budget[t], WorkedSecs(row[t], now))
                                     ELSE budget[t]]
    BY <1>7 DEF ReturnHumanTimeouts, Batches
  <2> QED BY <1>6, <1>7, <2>1 DEF ReturnHumanTimeouts
<1>8. ASSUME NEW m \in Members, Freeze(m) PROVE Quiet
  <2> DEFINE mine == {t \in Threads : row[t].assignee = m /\ row[t].state \in Live}
  <2>1. mine \in SUBSET Threads
    OBVIOUS
  <2> QED BY <1>6, <1>8, <2>1 DEF Freeze
<1>9. ASSUME NEW m \in Members, Unfreeze(m) PROVE Quiet
  BY <1>9, <1>idle DEF Unfreeze, claimVars
<1>10. ASSUME NEW t \in Threads, OperatorStep(t) PROVE Quiet
  <2>1. CASE Unassign(t) \/ HandOff(t) \/ Close(t) \/ Archive(t) \/ CloseAbandoned(t) \/ Cancel(t)
    BY <2>1, QuietEnd DEF Unassign, HandOff, Close, Archive, CloseAbandoned, Land, Cancel
  <2>2. ASSUME NEW max \in UseCaps, NEW maxWall \in WallCaps, SetBudget(t, max, maxWall)
        PROVE  Quiet
    <3>1. \A u \in Threads : budget'[u].used = budget[u].used
      BY <1>tab, <2>2 DEF SetBudget, Budget
    <3> QED BY <2>2, <3>1 DEF SetBudget, Quiet
  <2>3. ASSUME NEW accept \in BOOLEAN, ResolveCap(t, accept) PROVE Quiet
    BY <2>3, <1>idle DEF ResolveCap, claimVars
  <2>4. CASE ClearStatus(t) \/ Unpark(t)
    BY <2>4, <1>idle DEF ClearStatus, Unpark, claimVars
  <2>5. CASE StartReview(t)
    BY <2>5, <1>tab DEF StartReview, Quiet, Row
  <2>6. CASE RequestChanges(t)
    <3>1. UNCHANGED <<budget, issued, reports, ledger>>
      BY <2>6 DEF RequestChanges
    <3>2. CASE row' = [row EXCEPT ![t].state = "open"]
      BY <3>1, <3>2, <1>tab DEF Quiet, Row
    <3>3. CASE row' = [row EXCEPT ![t] = [Cleared(row[t]) EXCEPT !.state = "open"]]
      <4>1. /\ row'[t].lease = Null /\ row'[t].unacked = row[t].unacked
            /\ \A u \in Threads \ {t} : row'[u] = row[u]
        BY <3>3, <1>tab, QuietColumns, SMTT(30)
      <4> QED BY <3>1, <4>1 DEF Quiet
    <3> QED BY <2>6, <3>2, <3>3 DEF RequestChanges
  <2> QED BY <1>10, <2>1, <2>2, <2>3, <2>4, <2>5, <2>6 DEF OperatorStep
<1>11. CASE UNCHANGED vars
  BY <1>11, <1>idle DEF vars, claimVars
<1> QED
  BY <1>1, <1>2, <1>3, <1>4, <1>5, <1>7, <1>8, <1>9, <1>10, <1>11 DEF Next, HolderStep

\* A claim reported unacknowledged carries the marker, and a token that was not
\* handed out has no report: without them nothing keeps a second report away.
ReportInv ==
  /\ OneReportPerClaim
  /\ \A k \in Leases : k > issued => reports[k].ended = 0 /\ reports[k].unacked = 0
  /\ \A k \in Leases, t \in Threads :
       row[t].lease = k /\ reports[k].unacked # 0 => row[t].unacked = k

\* A step that reports ended only claims it ends, and unacknowledged only
\* claims it marks.
Reporting(ended, unacked) ==
  /\ issued' \in {issued, issued + 1}
  /\ \A k \in Leases :
       /\ reports'[k].ended = reports[k].ended + (IF k \in ended THEN 1 ELSE 0)
       /\ reports'[k].unacked = reports[k].unacked + (IF k \in unacked THEN 1 ELSE 0)
  /\ \A k \in ended \cup unacked : \E t \in Threads : row[t].lease = k
  /\ \A t \in Threads :
       /\ row'[t].lease \in {row[t].lease, Null} \/ (row'[t].lease = issued + 1 /\ issued' = issued + 1)
       /\ row[t].lease \in ended => row'[t].lease # row[t].lease
       /\ IF row[t].lease \in unacked
          THEN row[t].unacked # row[t].lease /\ row'[t].unacked = row[t].lease
          ELSE row'[t].unacked = row[t].unacked

LEMMA ReportingKeeps ==
  ASSUME TypeOK, TokensDistinct, ReportInv, NEW ended \in SUBSET Leases,
         NEW unacked \in SUBSET Leases, Reporting(ended, unacked)
  PROVE  ReportInv'
<1>1. /\ issued \in Nat /\ Leases \subseteq Nat \ {0} /\ Null \notin Leases
      /\ \A t \in Threads : row[t].lease \in Leases \cup {Null}
      /\ \A k \in Leases : reports[k].ended \in Nat /\ reports[k].unacked \in Nat
  BY ClaimConstants, SMTT(30) DEF TypeOK, Leases, Null, Row
<1>2. \A t \in Threads : row[t].lease # Null => row[t].lease <= issued
  BY DEF TokensDistinct
<1>3. \A k \in ended \cup unacked : k <= issued /\ \E t \in Threads : row[t].lease = k
  BY <1>1, <1>2, SMTT(30) DEF Reporting
<1>4. ASSUME NEW k \in Leases
      PROVE  /\ reports'[k].ended <= 1
             /\ reports'[k].ended = 1 => \A t \in Threads : row'[t].lease # k
  <2>1. CASE k \in ended
    <3>1. PICK t \in Threads : row[t].lease = k
      BY <2>1, <1>3
    <3>2. reports[k].ended = 0
      BY <3>1, <1>1, SMTT(30) DEF ReportInv, OneReportPerClaim
    <3>3. \A u \in Threads : row'[u].lease # k
      <4> SUFFICES ASSUME NEW u \in Threads, row'[u].lease = k PROVE FALSE
        OBVIOUS
      <4>1. k <= issued /\ k # Null
        BY <1>1, <1>3, <2>1
      <4>2. row[u].lease = k
        BY <1>1, <4>1, SMTT(30) DEF Reporting
      <4> QED BY <2>1, <4>2 DEF Reporting
    <3>4. reports'[k].ended = 1
      BY <2>1, <3>2, SMTT(30) DEF Reporting
    <3> QED BY <3>3, <3>4, SMTT(30)
  <2>2. CASE k \notin ended
    <3>1. reports'[k].ended = reports[k].ended
      BY <1>1, <2>2, SMTT(30) DEF Reporting
    <3>2. reports[k].ended = 1 => k <= issued
      BY <1>1, SMTT(30) DEF ReportInv
    <3>3. reports[k].ended = 1 => \A t \in Threads : row[t].lease # k
      BY DEF ReportInv, OneReportPerClaim
    <3>4. reports[k].ended = 1 => \A t \in Threads : row'[t].lease # k
      BY <1>1, <3>2, <3>3, SMTT(30) DEF Reporting
    <3> QED BY <3>1, <3>4 DEF ReportInv, OneReportPerClaim
  <2> QED BY <2>1, <2>2
<1>5. ASSUME NEW k \in Leases
      PROVE  /\ reports'[k].unacked <= 1
             /\ \A t \in Threads : row'[t].lease = k /\ reports'[k].unacked # 0
                                     => row'[t].unacked = k
  <2>1. CASE k \in unacked
    <3>1. PICK t \in Threads : row[t].lease = k
      BY <2>1, <1>3
    <3>2. reports[k].unacked = 0
      BY <2>1, <3>1 DEF ReportInv, Reporting
    <3>3. reports'[k].unacked = 1
      BY <2>1, <3>2, SMTT(30) DEF Reporting
    <3>4. \A u \in Threads : row'[u].lease = k => row[u].lease = k
      BY <1>1, <1>3, <2>1, SMTT(30) DEF Reporting
    <3>5. \A u \in Threads : row'[u].lease = k => row'[u].unacked = k
      BY <2>1, <3>4, SMTT(30) DEF Reporting
    <3> QED BY <3>3, <3>5, SMTT(30)
  <2>2. CASE k \notin unacked
    <3>1. reports'[k].unacked = reports[k].unacked
      BY <1>1, <2>2, SMTT(30) DEF Reporting
    <3>2. reports[k].unacked # 0 => k <= issued
      BY <1>1, SMTT(30) DEF ReportInv
    <3>3. \A u \in Threads : reports[k].unacked # 0 /\ row'[u].lease = k => row[u].lease = k
      BY <1>1, <3>2, SMTT(30) DEF Reporting
    <3>4. \A u \in Threads : reports[k].unacked # 0 /\ row'[u].lease = k => row'[u].unacked = k
      BY <2>2, <3>3, SMTT(30) DEF Reporting, ReportInv
    <3> QED BY <3>1, <3>4 DEF ReportInv, OneReportPerClaim
  <2> QED BY <2>1, <2>2
<1>6. \A k \in Leases : k > issued' => reports'[k].ended = 0 /\ reports'[k].unacked = 0
  <2> SUFFICES ASSUME NEW k \in Leases, k > issued'
               PROVE  reports'[k].ended = 0 /\ reports'[k].unacked = 0
    OBVIOUS
  <2>1. k > issued /\ k \in Nat
    BY <1>1, SMTT(30) DEF Reporting
  <2>2. k \notin ended /\ k \notin unacked
    BY <1>1, <1>3, <2>1, SMTT(30)
  <2> QED BY <1>1, <2>1, <2>2, SMTT(30) DEF Reporting, ReportInv
<1> QED BY <1>4, <1>5, <1>6 DEF ReportInv, OneReportPerClaim

LEMMA ReportStep ==
  ASSUME TypeOK, TokensDistinct, ReportInv, [Next]_vars
  PROVE  ReportInv'
<1>tab. /\ row \in [Threads -> Row] /\ budget \in [Threads -> Budget]
        /\ \A t \in Threads : row[t] \in Row /\ row[t].lease \in Leases \cup {Null}
        /\ reports \in [Leases -> [ended : Nat, unacked : Nat]]
        /\ issued \in Nat /\ Null \notin Leases /\ Leases \subseteq Nat
  BY ClaimConstants, SMTT(30) DEF TypeOK, Row, Leases, Null
<1>only. \A t, u \in Threads : row[t].lease # Null /\ row[u].lease = row[t].lease => u = t
  BY DEF TokensDistinct
<1>low. \A t \in Threads : row[t].lease # Null => row[t].lease <= issued
  BY DEF TokensDistinct
\* One end reported, of the claim on t.
<1>end. ASSUME NEW t \in Threads, NEW k \in Leases, row[t].lease = k, reports' = ReportEnd(k),
               row'[t].unacked = row[t].unacked,
               \A u \in Threads \ {t} : row'[u] = row[u],
               \/ row'[t].lease = Null /\ issued' = issued
               \/ row'[t].lease = issued + 1 /\ issued' = issued + 1
        PROVE  ReportInv'
  <2>1. \A j \in Leases :
          /\ reports'[j].ended = reports[j].ended + (IF j \in {k} THEN 1 ELSE 0)
          /\ reports'[j].unacked = reports[j].unacked
    BY <1>tab, <1>end, SMTT(30) DEF ReportEnd
  <2>2. row'[t].lease # k
    BY <1>tab, <1>low, <1>end, SMTT(30)
  <2>3. \A u \in Threads : row[u].lease \in {k} => u = t
    BY <1>tab, <1>only, <1>end
  <2>4. Reporting({k}, {})
    BY <1>tab, <1>end, <2>1, <2>2, <2>3, SMTT(30) DEF Reporting
  <2> QED BY <2>4, ReportingKeeps
<1>1. CASE Quiet
  <2>1. Reporting({}, {})
    BY <1>tab, <1>1, SMTT(30) DEF Quiet, Reporting
  <2> QED BY <2>1, ReportingKeeps
<1>2. ASSUME NEW rep \in Replicas, ReapExpiredClaims(rep) PROVE ReportInv'
  <2>1. PICK S \in SUBSET Threads :
          /\ row' = [t \in Threads |-> IF t \in S THEN Cleared(row[t]) ELSE row[t]]
          /\ reports' = [k \in Leases |-> IF \E t \in S : row[t].lease = k
                                          THEN [reports[k] EXCEPT !.ended = @ + 1]
                                          ELSE reports[k]]
    BY <1>2 DEF ReapExpiredClaims, Batches
  <2> DEFINE ended == {k \in Leases : \E t \in S : row[t].lease = k}
  <2>2. issued' = issued
    BY <1>2 DEF ReapExpiredClaims
  <2>3. \A k \in Leases :
          /\ reports'[k].ended = reports[k].ended + (IF k \in ended THEN 1 ELSE 0)
          /\ reports'[k].unacked = reports[k].unacked
    BY <1>tab, <2>1, SMTT(30)
  <2>4. \A t \in Threads : /\ row'[t].lease = IF t \in S THEN Null ELSE row[t].lease
                           /\ row'[t].unacked = row[t].unacked
    <3> SUFFICES ASSUME NEW t \in Threads
                 PROVE  /\ row'[t].lease = IF t \in S THEN Null ELSE row[t].lease
                        /\ row'[t].unacked = row[t].unacked
      OBVIOUS
    <3>1. row'[t] = IF t \in S THEN Cleared(row[t]) ELSE row[t]
      BY <2>1
    <3>2. Cleared(row[t]).lease = Null /\ Cleared(row[t]).unacked = row[t].unacked
      BY <1>tab, QuietCleared
    <3> QED BY <3>1, <3>2
  <2>5. \A t \in Threads : row[t].lease \in ended => t \in S /\ row[t].lease # Null
    BY <1>tab, <1>only
  <2>6. \A k \in ended : \E t \in Threads : row[t].lease = k
    OBVIOUS
  <2>7. ended \in SUBSET Leases
    OBVIOUS
  <2> HIDE DEF ended
  <2>8. Reporting(ended, {})
    <3>1. \A k \in Leases : reports'[k].unacked = reports[k].unacked + 0
      <4>1. \A k \in Leases : reports[k].unacked \in Nat
        BY <1>tab
      <4>2. \A i \in Nat : i + 0 = i
        BY SMTT(30)
      <4> QED BY <2>3, <4>1, <4>2
    <3>2. \A t \in Threads : row[t].lease \in ended => row'[t].lease # row[t].lease
      BY <2>4, <2>5
    <3> QED BY <2>2, <2>3, <2>4, <2>6, <3>1, <3>2 DEF Reporting
  <2> QED BY <2>7, <2>8, ReportingKeeps
<1>3. ASSUME NEW rep \in Replicas, NEW m \in Members, NEW t \in Threads, ClaimNext(rep, m, t)
      PROVE  ReportInv'
  <2>1. row' = [row EXCEPT ![t] = Taken(row[t], m, now + LeaseSecs)] /\ issued' = issued + 1
    BY <1>3 DEF ClaimNext, NewLease
  <2>2. /\ row'[t].lease = issued + 1 /\ row'[t].unacked = row[t].unacked
        /\ \A u \in Threads \ {t} : row'[u] = row[u]
    BY <1>tab, <2>1, QuietTaken, SMTT(30)
  <2>3. reports' = reports \/ reports' = ReportEnd(row[t].lease)
    BY <1>3 DEF ClaimNext
  <2>4. CASE reports' = reports
    <3>1. Reporting({}, {})
      BY <1>tab, <2>1, <2>2, <2>4, SMTT(30) DEF Reporting
    <3> QED BY <3>1, ReportingKeeps
  <2>5. CASE reports' = ReportEnd(row[t].lease) /\ row[t].lease \in Leases
    BY <1>end, <2>1, <2>2, <2>5
  <2>6. CASE reports' = ReportEnd(row[t].lease) /\ row[t].lease = Null
    <3>1. reports' = reports
      BY <1>tab, <2>6 DEF ReportEnd
    <3> QED BY <3>1, <2>4
  <2> QED BY <1>tab, <2>3, <2>4, <2>5, <2>6
<1>4. ASSUME NEW m \in Members, NEW t \in Threads, NEW k \in Leases, NEW id \in ReportIds,
             ReportUsage(m, t, k, id)
      PROVE  ReportInv'
  <2>1. row[t].lease = k /\ issued' = issued
    BY <1>4 DEF ReportUsage, Fenced
  <2>2. CASE row' = [row EXCEPT ![t] = Cleared(row[t])] /\ reports' = ReportEnd(k)
    <3>1. /\ row'[t].lease = Null /\ row'[t].unacked = row[t].unacked
          /\ \A u \in Threads \ {t} : row'[u] = row[u]
      BY <1>tab, <2>2, QuietCleared
    <3> QED BY <1>end, <2>1, <2>2, <3>1
  <2>3. CASE row' = row /\ reports' = reports
    <3>1. Reporting({}, {})
      BY <1>tab, <2>1, <2>3, SMTT(30) DEF Reporting
    <3> QED BY <3>1, ReportingKeeps
  <2> QED BY <1>4, <2>2, <2>3 DEF ReportUsage
<1>5. CASE ReportUnacknowledged
  <2> DEFINE due == {t \in Threads : /\ row[t].lease # Null
                                     /\ row[t].started = Null
                                     /\ row[t].claimedAt < now - AckSecs
                                     /\ row[t].deadline # Null
                                     /\ row[t].deadline >= now
                                     /\ row[t].unacked # row[t].lease
                                     /\ row[t].state = "open"}
  <2>a. PICK S \in Batches(due) :
          /\ row' = [t \in Threads |-> IF t \in S THEN [row[t] EXCEPT !.unacked = row[t].lease]
                                                  ELSE row[t]]
          /\ reports' = [k \in Leases |-> IF \E t \in S : row[t].lease = k
                                          THEN [reports[k] EXCEPT !.unacked = @ + 1]
                                          ELSE reports[k]]
    BY <1>5 DEF ReportUnacknowledged
  <2>1. /\ S \in SUBSET Threads
        /\ \A t \in S : row[t].unacked # row[t].lease /\ row[t].lease # Null
    BY DEF Batches
  <2> HIDE DEF due
  <2> DEFINE unacked == {k \in Leases : \E t \in S : row[t].lease = k}
  <2>2. issued' = issued
    BY <1>5 DEF ReportUnacknowledged
  <2>3. \A k \in Leases :
          /\ reports'[k].ended = reports[k].ended
          /\ reports'[k].unacked = reports[k].unacked + (IF k \in unacked THEN 1 ELSE 0)
    BY <1>tab, <2>a, SMTT(30)
  <2>4. \A t \in Threads : /\ row'[t].lease = row[t].lease
                           /\ row'[t].unacked = IF t \in S THEN row[t].lease ELSE row[t].unacked
    BY <1>tab, <2>a, <2>1 DEF Row
  <2>5. \A t \in Threads : row[t].lease \in unacked => t \in S
    BY <1>tab, <1>only, <2>1
  <2>6. \A t \in S : row[t].lease # Null => row[t].lease \in unacked
    BY <1>tab, <2>1
  <2>7. unacked \in SUBSET Leases /\ \A k \in unacked : \E t \in Threads : row[t].lease = k
    BY <2>1
  <2>8. \A t \in S : row[t].lease # Null
    BY <2>1
  <2> HIDE DEF unacked
  <2>9. Reporting({}, unacked)
    <3>1. \A k \in Leases : reports'[k].ended = reports[k].ended + 0
      <4>1. \A k \in Leases : reports[k].ended \in Nat
        BY <1>tab
      <4>2. \A i \in Nat : i + 0 = i
        BY SMTT(30)
      <4> QED BY <2>3, <4>1, <4>2
    <3>2. \A t \in Threads : IF row[t].lease \in unacked
                              THEN row[t].unacked # row[t].lease /\ row'[t].unacked = row[t].lease
                              ELSE row'[t].unacked = row[t].unacked
      BY <2>1, <2>4, <2>5, <2>6, <2>8
    <3> QED BY <2>2, <2>3, <2>4, <2>7, <3>1, <3>2 DEF Reporting
  <2> QED BY <2>7, <2>9, ReportingKeeps
<1> QED BY <1>1, <1>2, <1>3, <1>4, <1>5, NextQuiet

\* Each claim is reported ended at most once, and unacknowledged at most once,
\* whichever reaper, take-over or usage stop comes first.
THEOREM ClaimsReportedOnce == Spec => []OneReportPerClaim
<1>1. Init => ReportInv
  BY SMTT(30) DEF Init, ReportInv, OneReportPerClaim
<1>2. TypeOK /\ TokensDistinct /\ ReportInv /\ [Next]_vars => ReportInv'
  BY ReportStep
<1>3. ReportInv => OneReportPerClaim
  BY DEF ReportInv
<1> QED BY <1>1, <1>2, <1>3, TypeCorrect, TokensStayDistinct, PTL DEF Spec

-----------------------------------------------------------------------------
(* What claim_next hands out, and what the boot grace keeps.               *)

\* A thread that is not over budget, the lapsed claim's work counted, is not
\* over budget once that work is charged.
LEMMA ChargedWithin ==
  ASSUME NEW b \in Budget, NEW secs \in Nat, ~ Exceeded(b, secs)
  PROVE  ~ Exceeded(b, 0) /\ ~ Exceeded(Charge(b, secs), 0)
<1>1. /\ b.used \in Nat /\ b.usedWall \in Nat /\ b.max \in Nat /\ b.maxWall \in Nat
  <2>1. /\ b.used \in Nat /\ b.usedWall \in Nat
        /\ b.max \in UseCaps \cup {0} /\ b.maxWall \in WallCaps \cup {0}
    BY DEF Budget
  <2>2. \A n \in UseCaps \cup WallCaps \cup {0} : n \in Nat
    BY ClaimConstants, SMTT(30)
  <2> QED BY <2>1, <2>2
<1>2. /\ Charge(b, secs).max = b.max /\ Charge(b, secs).used = b.used
      /\ Charge(b, secs).maxWall = b.maxWall /\ Charge(b, secs).usedWall = b.usedWall + secs
  BY DEF Charge, Budget
<1> QED BY <1>1, <1>2, SMTT(30) DEF Exceeded

\* claim_next hands out nothing that is over budget: the wall time of the claim
\* it takes over counts before it is charged.
THEOREM HandoutsStayInBudget == Spec => NoOverBudgetHandout
<1> DEFINE Handout == \A t \in Threads :
             issued' # issued /\ row'[t].lease = issued' /\ row'[t].deadline # Null
               => ~ Exceeded(budget'[t], 0)
<1>1. ASSUME TypeOK, TokensDistinct, [Next]_vars
      PROVE  Handout
  <2>tab. /\ issued \in Nat /\ row \in [Threads -> Row] /\ budget \in [Threads -> Budget]
          /\ Null # issued + 1
          /\ \A t \in Threads : row[t].lease # issued + 1
    <3>1. issued \in Nat /\ row \in [Threads -> Row] /\ budget \in [Threads -> Budget]
      BY <1>1, ClaimConstants, SMTT(30) DEF TypeOK
    <3>2. \A t \in Threads : row[t].lease \in Leases \cup {Null}
      BY <3>1 DEF Row
    <3> QED BY <1>1, <3>1, <3>2, SMTT(30) DEF TokensDistinct, Null, Leases
  <2>1. CASE Quiet
    BY <2>1, <2>tab DEF Quiet
  <2>2. ASSUME NEW rep \in Replicas, ReapExpiredClaims(rep) PROVE Handout
    BY <2>2 DEF ReapExpiredClaims
  <2>3. ASSUME NEW rep \in Replicas, NEW m \in Members, NEW t \in Threads,
               ClaimNext(rep, m, t)
        PROVE  Handout
    <3>1. /\ issued' = issued + 1
          /\ row' = [row EXCEPT ![t] = Taken(row[t], m, now + LeaseSecs)]
          /\ ~ Exceeded(budget[t], LapsedWorkedSecs(t))
      BY <2>3 DEF ClaimNext, NewLease, OverBudget
    <3>2. \A u \in Threads \ {t} : row'[u].lease # issued'
      BY <2>tab, <3>1
    <3>3. budget[t] \in Budget /\ LapsedWorkedSecs(t) \in Nat
      BY <1>1, <2>tab, LapsedWorkedType
    <3>4. budget'[t] = budget[t] \/ budget'[t] = Charge(budget[t], LapsedWorkedSecs(t))
      BY <2>3, <2>tab DEF ClaimNext
    <3>5. ~ Exceeded(budget'[t], 0)
      BY <3>1, <3>3, <3>4, ChargedWithin
    <3> QED BY <3>2, <3>5
  <2>4. ASSUME NEW m \in Members, NEW t \in Threads, NEW k \in Leases, NEW id \in ReportIds,
               ReportUsage(m, t, k, id)
        PROVE  Handout
    BY <2>4 DEF ReportUsage
  <2>5. CASE ReportUnacknowledged
    BY <2>5 DEF ReportUnacknowledged
  <2> HIDE DEF Handout
  <2> QED BY <1>1, <2>1, <2>2, <2>3, <2>4, <2>5, NextQuiet
<1>2. TypeOK /\ TokensDistinct /\ [Next]_vars => [Handout]_vars
  BY <1>1
<1> QED BY <1>2, TypeCorrect, TokensStayDistinct, PTL DEF Spec, NoOverBudgetHandout

\* While every replica is in its boot grace, no reaper and no take-over ends a
\* claim as lapsed: deadlines are compared with a time before all of them.
THEOREM GraceProtectsClaims == Spec => GraceKeepsClaims
<1> DEFINE Kept == (\A rep \in Replicas : Holding(rep)) /\ ledger' = ledger
             => \A k \in Leases : reports'[k].ended = reports[k].ended
<1>1. ASSUME TypeOK, [Next]_vars, \A rep \in Replicas : Holding(rep), ledger' = ledger,
             NEW k \in Leases
      PROVE  reports'[k].ended = reports[k].ended
  <2>1. CASE Quiet
    BY <2>1 DEF Quiet
  <2>2. ASSUME NEW rep \in Replicas, ReapExpiredClaims(rep) PROVE FALSE
    BY <1>1, <2>2 DEF ReapExpiredClaims
  <2>3. ASSUME NEW rep \in Replicas, NEW m \in Members, NEW t \in Threads,
               ClaimNext(rep, m, t)
        PROVE  reports' = reports
    <3>1. LeaseClock(rep) = 0
      BY <1>1, <2>3 DEF LeaseClock
    <3>2. row[t].deadline \in Times \cup {Null}
      BY <1>1 DEF TypeOK, Row
    <3>3. ~ Lapsed(row[t], 0)
      BY <3>2, ClaimConstants, SMTT(30) DEF Lapsed, Times, Null
    <3> QED BY <2>3, <3>1, <3>3 DEF ClaimNext, Available
  <2>4. ASSUME NEW m \in Members, NEW t \in Threads, NEW l \in Leases, NEW id \in ReportIds,
               ReportUsage(m, t, l, id)
        PROVE  FALSE
    <3> DEFINE e == [id |-> id, thread |-> t]
    <3>1. e \in ledger /\ e.id = id
      BY <1>1, <2>4 DEF ReportUsage
    <3>2. \A x \in ledger : x.id # id
      BY <2>4 DEF ReportUsage
    <3> HIDE DEF e
    <3> QED BY <3>1, <3>2
  <2>5. CASE ReportUnacknowledged
    <3>1. reports \in [Leases -> [ended : Nat, unacked : Nat]]
      BY <1>1 DEF TypeOK
    <3>2. reports'[k] = reports[k] \/ reports'[k] = [reports[k] EXCEPT !.unacked = @ + 1]
      BY <2>5, <3>1 DEF ReportUnacknowledged
    <3> QED BY <3>1, <3>2
  <2> QED BY <1>1, <2>1, <2>2, <2>3, <2>4, <2>5, NextQuiet
<1>2. TypeOK /\ [Next]_vars => [Kept]_vars
  BY <1>1
<1> QED BY <1>2, TypeCorrect, PTL DEF Spec, GraceKeepsClaims

-----------------------------------------------------------------------------
(* The usage ledger, with what is known of finite sets.                    *)
INSTANCE FiniteSetTheorems

\* The units used are the ledger's entries, of which there are finitely many.
UsageInv == IsFiniteSet(ledger) /\ UsageMatchesLedger

LEMMA UsageStep ==
  ASSUME TypeOK, UsageInv, [Next]_vars
  PROVE  UsageInv'
<1>tab. /\ row \in [Threads -> Row] /\ budget \in [Threads -> Budget]
        /\ \A t \in Threads : budget[t] \in Budget /\ budget[t].used \in Nat
  BY DEF TypeOK, Budget
<1>same. ASSUME ledger' = ledger, \A t \in Threads : budget'[t].used = budget[t].used
         PROVE  UsageInv'
  BY <1>same DEF UsageInv, UsageMatchesLedger
<1>1. CASE Quiet
  BY <1>1, <1>same DEF Quiet
<1>2. ASSUME NEW rep \in Replicas, ReapExpiredClaims(rep) PROVE UsageInv'
  <2>1. \A t \in Threads : budget'[t] = budget[t] \/ \E d : budget'[t] = Charge(budget[t], d)
    BY <1>2 DEF ReapExpiredClaims
  <2> QED BY <1>2, <1>tab, <1>same, <2>1, ChargeKeepsUsed, SMTT(30) DEF ReapExpiredClaims
<1>3. ASSUME NEW rep \in Replicas, NEW m \in Members, NEW t \in Threads, ClaimNext(rep, m, t)
      PROVE  UsageInv'
  <2>1. budget' = budget \/ budget' = [budget EXCEPT ![t] = Charge(budget[t], LapsedWorkedSecs(t))]
    BY <1>3 DEF ClaimNext
  <2>2. \A u \in Threads : budget'[u] = budget[u] \/ \E d : budget'[u] = Charge(budget[u], d)
    BY <1>tab, <2>1
  <2> QED BY <1>3, <1>tab, <1>same, <2>2, ChargeKeepsUsed, SMTT(30) DEF ClaimNext
<1>4. CASE ReportUnacknowledged
  BY <1>4, <1>same DEF ReportUnacknowledged
<1>5. ASSUME NEW m \in Members, NEW t \in Threads, NEW k \in Leases, NEW id \in ReportIds,
             ReportUsage(m, t, k, id)
      PROVE  UsageInv'
  <2> DEFINE e == [id |-> id, thread |-> t]
             of(u) == {x \in ledger : x.thread = u}
  <2>1. ledger' = ledger \cup {e} /\ e \notin ledger /\ e.thread = t
    BY <1>5 DEF ReportUsage
  <2>2. IsFiniteSet(ledger')
    BY <2>1, FS_AddElement DEF UsageInv
  <2>3. budget'[t].used = budget[t].used + 1 /\ \A u \in Threads \ {t} : budget'[u] = budget[u]
    <3> DEFINE used == [budget[t] EXCEPT !.used = @ + 1]
    <3>1. used \in Budget /\ used.used = budget[t].used + 1
      BY <1>tab, SMTT(30) DEF Budget
    <3>2. budget' = [budget EXCEPT ![t] = used]
            \/ budget' = [budget EXCEPT ![t] = Charge(used, WorkedSecs(row[t], now))]
      BY <1>5 DEF ReportUsage
    <3> HIDE DEF used
    <3>3. Charge(used, WorkedSecs(row[t], now)).used = used.used
      BY <3>1, ChargeKeepsUsed
    <3> QED BY <1>tab, <3>1, <3>2, <3>3
  <2>4. \A u \in Threads : of(u)' = IF u = t THEN of(u) \cup {e} ELSE of(u)
    BY <2>1, SMTT(30)
  <2>5. \A u \in Threads : IsFiniteSet(of(u)) /\ Cardinality(of(u)) = budget[u].used
    <3>1. \A u \in Threads : of(u) \in SUBSET ledger
      OBVIOUS
    <3>2. \A u \in Threads : IsFiniteSet(of(u))
      <4> HIDE DEF of
      <4> QED BY <3>1, FS_Subset DEF UsageInv
    <3> QED BY <3>2 DEF UsageInv, UsageMatchesLedger
  <2>6. Cardinality(of(t) \cup {e}) = Cardinality(of(t)) + 1
    <3>1. e \notin of(t)
      BY <2>1
    <3> HIDE DEF of, e
    <3> QED BY <3>1, <2>5, FS_AddElement
  <2>7. \A u \in Threads : budget'[u].used = Cardinality(of(u)')
    <3> HIDE DEF of, e
    <3> QED BY <2>3, <2>4, <2>5, <2>6
  <2> QED BY <2>2, <2>7 DEF UsageInv, UsageMatchesLedger
<1> QED BY <1>1, <1>2, <1>3, <1>4, <1>5, NextQuiet

\* A usage report counts once however often it is sent: the units a thread has
\* used are its ledger entries (report_accounted_usage).
THEOREM UsageStaysCounted == Spec => []UsageMatchesLedger
<1>1. Init => UsageInv
  <2> SUFFICES ASSUME Init PROVE UsageInv
    OBVIOUS
  <2>1. ledger = {} /\ \A t \in Threads : budget[t].used = 0
    BY DEF Init
  <2>2. \A t \in Threads : {e \in ledger : e.thread = t} = {}
    BY <2>1
  <2> QED BY <2>1, <2>2, FS_EmptySet DEF UsageInv, UsageMatchesLedger
<1>2. TypeOK /\ UsageInv /\ [Next]_vars => UsageInv'
  BY UsageStep
<1>3. UsageInv => UsageMatchesLedger
  BY DEF UsageInv
<1> QED BY <1>1, <1>2, <1>3, TypeCorrect, PTL DEF Spec
=============================================================================
