------------------------ MODULE ThreadReviewProofs ------------------------
(***************************************************************************)
(* Proofs about ThreadReview, for any threads, members and pull requests:  *)
(* type correctness, what the close gates promise of landed work, and that *)
(* a standing approval names the head now tracked.                         *)
(***************************************************************************)
EXTENDS ThreadReview, FiniteSetTheorems, TLAPS
USE Zenon, SMTT(30)
-----------------------------------------------------------------------------
(* Type correctness.                                                       *)

\* A caller is a member, acting for itself or through another member.
LEMMA CallerType ==
  ASSUME NEW c \in Callers
  PROVE  /\ c.as \in Members /\ c.by \in Members \cup {None}
         /\ Acting(c) \subseteq Members
BY ReviewConstants, SMTT(30) DEF Callers, Acting

\* A root pinned at a hand-off is a root.
LEMMA RootType ==
  ASSUME TypeOK, NEW t \in Threads
  PROVE  Root(t) \in Roots
<1>1. Evidence(t) \in Evidences
  BY SMTT(30) DEF TypeOK, Evidence, Evidences, Links
<1>2. ASSUME NEW l \in links[t]
      PROVE  [sha |-> l.sha, by |-> l.by,
              own |-> ({l.by, l.actor} \cap workers[t] # {})]
               \in [sha : Artifacts, by : Members, own : BOOLEAN]
  <2> DEFINE own == ({l.by, l.actor} \cap workers[t] # {})
  <2>1. l.sha \in Artifacts /\ l.by \in Members
    BY SMTT(30) DEF TypeOK, Links
  <2>2. own \in BOOLEAN
    OBVIOUS
  <2> HIDE DEF own
  <2>3. [sha |-> l.sha, by |-> l.by, own |-> own]
          \in [sha : Artifacts, by : Members, own : BOOLEAN]
    BY <2>1, <2>2
  <2> QED
    BY <2>3 DEF own
<1>3. (IF PassQualifies(t) THEN gate[t].by ELSE None) \in Members \cup {None}
  BY DEF TypeOK, Gates
<1> QED
  BY <1>1, <1>2, <1>3 DEF Root, Roots

\* The head tracked for a change is a head, or NULL.
LEMMA HeadType ==
  ASSUME TypeOK, NEW t \in Threads
  PROVE  Change(t) \in Threads /\ CurrentHead(t) \in Heads \cup {None}
<1>1. Change(t) \in Threads
  BY ReviewConstants DEF Change
<1> QED
  BY <1>1 DEF TypeOK, CurrentHead

LEMMA TypeInit == Init => TypeOK
BY ReviewConstants, SMTT(30) DEF Init, TypeOK, States, Gates, Unarmed

\* The groups of variables an action leaves alone.
USE DEF endings, threadVars, evidenceVars, verdictVars, ruleVars, pullVars, vars

LEMMA TypeClaims ==
  ASSUME TypeOK, NEW t \in Threads, NEW c \in Callers
  PROVE  /\ Claim(t, c) => TypeOK'
         /\ \A x \in Contents : SetResult(t, c, x) => TypeOK'
         /\ \A a \in Artifacts : Link(t, c, a) => TypeOK'
<1>1. Claim(t, c) => TypeOK'
  BY CallerType, SMTT(30) DEF TypeOK, Claim
<1>2. ASSUME NEW x \in Contents, SetResult(t, c, x)
      PROVE  TypeOK'
  BY <1>2, CallerType, SMTT(30) DEF TypeOK, SetResult, Results
<1>3. ASSUME NEW a \in Artifacts, Link(t, c, a)
      PROVE  TypeOK'
  BY <1>3, CallerType, SMTT(30) DEF TypeOK, Link, Links
<1> QED
  BY <1>1, <1>2, <1>3

LEMMA TypeUndone ==
  ASSUME TypeOK, NEW t \in Threads
  PROVE  /\ Release(t) => TypeOK'
         /\ \A l \in links[t] : Unlink(t, l) => TypeOK'
         /\ Refute(t) => TypeOK'
         /\ Cancel(t) => TypeOK'
<1>1. Release(t) => TypeOK'
  BY SMTT(30) DEF TypeOK, Release
<1>2. ASSUME NEW l \in links[t], Unlink(t, l)
      PROVE  TypeOK'
  BY <1>2 DEF TypeOK, Unlink
<1>3. Refute(t) => TypeOK'
  BY DEF TypeOK, Refute
<1>4. Cancel(t) => TypeOK'
  BY DEF TypeOK, Cancel, States
<1> QED
  BY <1>1, <1>2, <1>3, <1>4

LEMMA TypeRules ==
  ASSUME TypeOK, NEW t \in Threads
  PROVE  /\ \A k \in Counts \cup {None} : SetRequirement(t, k) => TypeOK'
         /\ \A m \in Members :
              AddReviewer(t, m) \/ RemoveReviewer(t, m) => TypeOK'
         /\ RequireGate(t) \/ ClearGate(t) => TypeOK'
         /\ \A c \in Callers, reading \in {"green", "refused"} :
              RecordGate(t, c, reading) => TypeOK'
<1>1. ASSUME NEW k \in Counts \cup {None}, SetRequirement(t, k)
      PROVE  TypeOK'
  BY <1>1 DEF TypeOK, SetRequirement
<1>2. ASSUME NEW m \in Members, AddReviewer(t, m) \/ RemoveReviewer(t, m)
      PROVE  TypeOK'
  <2>1. CASE AddReviewer(t, m)
    BY <2>1 DEF TypeOK, AddReviewer
  <2>2. CASE RemoveReviewer(t, m)
    BY <2>2 DEF TypeOK, RemoveReviewer
  <2> QED
    BY <1>2, <2>1, <2>2
<1>3. ASSUME NEW g \in Gates, SetGate(t, g)
      PROVE  TypeOK'
  BY <1>3 DEF TypeOK, SetGate
<1>4. Unarmed \in Gates /\ Pending \in Gates
  BY DEF Unarmed, Pending, Gates
<1>5. ASSUME NEW c \in Callers, NEW reading \in {"green", "refused"}
      PROVE  [reading |-> reading, by |-> c.as, actor |-> c.by] \in Gates
  BY CallerType DEF Gates
<1> QED
  BY <1>1, <1>2, <1>3, <1>4, <1>5 DEF RequireGate, ClearGate, RecordGate

\* The verdict, whoever gives it.
LEMMA TypeVerdict ==
  ASSUME TypeOK, NEW t \in Threads, NEW c \in Callers
  PROVE  /\ (MayName(t) /\ Approve(t, c)) \/ RequestChanges(t, c) =>
              /\ approval' \in [Threads -> [Members -> Approvals \cup {None}]]
              /\ objection' \in [Threads -> SUBSET Members]
              /\ sinceBack' \in [Threads -> SUBSET Members]
              /\ state' \in [Threads -> States]
              /\ assignee' \in [Threads -> Members \cup {None}]
<1>1. ASSUME MayName(t), Approve(t, c)
      PROVE  [actor |-> c.by, root |-> packet[t], head |-> CurrentHead(t)]
               \in Approvals
  <2>1. packet[t] \in Roots
    BY <1>1 DEF TypeOK, MayName
  <2> QED
    BY <2>1, CallerType, HeadType DEF Approvals
<1>2. CASE MayName(t) /\ Approve(t, c)
  BY <1>1, <1>2, CallerType, SMTT(30) DEF TypeOK, Approve
<1>3. CASE RequestChanges(t, c)
  <2>1. /\ state \in [Threads -> States]
        /\ assignee \in [Threads -> Members \cup {None}]
        /\ approval \in [Threads -> [Members -> Approvals \cup {None}]]
        /\ objection \in [Threads -> SUBSET Members]
        /\ sinceBack \in [Threads -> SUBSET Members]
    BY DEF TypeOK
  <2>2. objection' \in [Threads -> SUBSET Members]
    BY <1>3, <2>1, CallerType, SMTT(30) DEF RequestChanges
  <2>3. CASE SendsBack(t, c)
    <3>1. state' = [state EXCEPT ![t] = "open"]
      BY <1>3, <2>3 DEF RequestChanges
    <3>2. PICK m \in {assignee[t], None} :
            assignee' = [assignee EXCEPT ![t] = m]
      BY <1>3, <2>3 DEF RequestChanges
    <3>3. /\ approval' = [approval EXCEPT ![t] = Dismissed(t)]
          /\ sinceBack' = [sinceBack EXCEPT ![t] = {}]
      BY <1>3, <2>3 DEF RequestChanges
    <3>4. Dismissed(t) \in [Members -> Approvals \cup {None}]
      BY DEF Dismissed
    <3>5. state' \in [Threads -> States]
      BY <2>1, <3>1 DEF States
    <3>6. assignee' \in [Threads -> Members \cup {None}]
      BY <2>1, <3>2
    <3>7. approval' \in [Threads -> [Members -> Approvals \cup {None}]]
      BY <2>1, <3>3, <3>4
    <3>8. /\ sinceBack' \in [Threads -> SUBSET Members]
      BY <2>1, <3>3
    <3> QED
      BY <2>2, <3>5, <3>6, <3>7, <3>8
  <2>4. CASE ~SendsBack(t, c)
    <3>1. /\ approval' = [approval EXCEPT ![t][c.as] = None]
          /\ sinceBack' = [sinceBack EXCEPT ![t] = @ \ {c.as}]
          /\ UNCHANGED <<state, assignee>>
      BY <1>3, <2>4 DEF RequestChanges
    <3>2. approval' \in [Threads -> [Members -> Approvals \cup {None}]]
      BY <2>1, <3>1
    <3>3. /\ sinceBack' \in [Threads -> SUBSET Members]
      BY <2>1, <3>1
    <3> QED
      BY <2>1, <2>2, <3>1, <3>2, <3>3
  <2> QED
    BY <2>3, <2>4
<1> QED
  BY <1>2, <1>3

LEMMA TypeVerdicts ==
  ASSUME TypeOK, NEW t \in Threads, NEW c \in Callers
  PROVE  /\ \A decision \in {"approve", "request_changes"}, names \in BOOLEAN :
              SubmitReview(t, c, decision, names) => TypeOK'
         /\ \A r \in Results : ApplyCritical(t, c, r) => TypeOK'
<1>1. ASSUME NEW decision \in {"approve", "request_changes"},
             NEW names \in BOOLEAN, SubmitReview(t, c, decision, names)
      PROVE  TypeOK'
  <2>1. (MayName(t) /\ Approve(t, c)) \/ RequestChanges(t, c)
    BY <1>1 DEF SubmitReview
  <2> QED
    BY <1>1, <2>1, TypeVerdict DEF TypeOK, SubmitReview
<1>2. ASSUME NEW r \in Results, ApplyCritical(t, c, r)
      PROVE  TypeOK'
  <2>1. CASE Covers(t, r.by)
    BY <1>2, <2>1 DEF TypeOK, ApplyCritical
  <2>2. CASE ~Covers(t, r.by)
    <3>1. RequestChanges(t, c)
      BY <1>2, <2>2 DEF ApplyCritical
    <3>2. required' \in [Threads -> Counts \cup {None, 1}]
      <4>1. required \in [Threads -> Counts \cup {None, 1}]
        BY DEF TypeOK
      <4>2. required' = [required EXCEPT ![t] = IF @ = None THEN 1 ELSE @]
        BY <1>2, <2>2 DEF ApplyCritical
      <4> QED
        BY <4>1, <4>2
    <3>3. due' \in [Threads -> SUBSET (Results \X Callers)]
      BY <1>2 DEF TypeOK, ApplyCritical
    <3> QED
      BY <1>2, <3>1, <3>2, <3>3, TypeVerdict DEF TypeOK, ApplyCritical
  <2> QED
    BY <2>1, <2>2
<1> QED
  BY <1>1, <1>2

LEMMA TypeMoves ==
  ASSUME TypeOK, NEW t \in Threads, NEW c \in Callers
  PROVE  /\ StartReview(t, c) => TypeOK'
         /\ Close(t, c) \/ Archive(t, c) => TypeOK'
         /\ CloseAbandoned(t, c) => TypeOK'
<1>1. ASSUME StartReview(t, c)
      PROVE  TypeOK'
  <2>1. state \in [Threads -> States]
    BY DEF TypeOK
  <2>2. state' \in Spawned(t, [state EXCEPT ![t] = "in_review"])
    BY <1>1 DEF StartReview
  <2>3. state' \in [Threads -> States]
    BY <2>1, <2>2 DEF Spawned, States
  <2> QED
    BY <1>1, <2>3, RootType DEF TypeOK, StartReview
<1>2. ASSUME NEW to \in {"closed", "archived"}, Land(t, to)
      PROVE  /\ state' \in [Threads -> States]
             /\ assignee' \in [Threads -> Members \cup {None}]
  BY <1>2 DEF TypeOK, Land, States
<1>3. Close(t, c) => TypeOK'
  BY <1>2 DEF TypeOK, Close
<1>4. Archive(t, c) => TypeOK'
  BY <1>2 DEF TypeOK, Archive
<1>5. CloseAbandoned(t, c) => TypeOK'
  BY <1>2 DEF TypeOK, CloseAbandoned
<1> QED
  BY <1>1, <1>3, <1>4, <1>5

LEMMA TypePulls ==
  ASSUME TypeOK
  PROVE  /\ \A m \in Members : RemoveMember(m) => TypeOK'
         /\ \A p \in Pulls : Push(p) => TypeOK'
         /\ \A s \in Sweepers, p \in Pulls : FetchPull(s, p) => TypeOK'
         /\ \A s \in Sweepers : RecordPull(s) => TypeOK'
<1>1. \A m \in Members : RemoveMember(m) => TypeOK'
  BY DEF TypeOK, RemoveMember
<1>2. \A p \in Pulls : Push(p) => TypeOK'
  BY ReviewConstants, SMTT(30) DEF TypeOK, Push
<1>3. \A s \in Sweepers, p \in Pulls : FetchPull(s, p) => TypeOK'
  BY SMTT(30) DEF TypeOK, FetchPull, Heads
<1>4. ASSUME NEW s \in Sweepers, RecordPull(s)
      PROVE  TypeOK'
  <2>1. fetched[s] \in Heads
    BY <1>4 DEF TypeOK, RecordPull
  <2>2. fetched[s][1] \in Pulls /\ PullOf[fetched[s][1]] \in Threads
    BY <2>1, ReviewConstants DEF Heads
  <2>3. /\ seen' \in [Pulls -> Heads \cup {None}]
        /\ lastRead' \in [Threads -> Pulls \cup {None}]
        /\ fetched' \in [Sweepers -> Heads \cup {None}]
    BY <1>4, <2>1, <2>2 DEF TypeOK, RecordPull
  <2>4. /\ approval' \in [Threads -> [Members -> Approvals \cup {None}]]
        /\ sinceBack' \in [Threads -> SUBSET Members]
    BY <1>4 DEF TypeOK, RecordPull
  <2> QED
    BY <1>4, <2>3, <2>4 DEF TypeOK, RecordPull
<1> QED
  BY <1>1, <1>2, <1>3, <1>4

LEMMA TypeStep == TypeOK /\ [Next]_vars => TypeOK'
<1> SUFFICES ASSUME TypeOK, [Next]_vars PROVE TypeOK'
  OBVIOUS
<1>1. CASE UNCHANGED vars
  BY <1>1 DEF TypeOK
<1>2. ASSUME NEW t \in Threads, NEW c \in Callers,
             \/ Claim(t, c)
             \/ \E x \in Contents : SetResult(t, c, x)
             \/ \E a \in Artifacts : Link(t, c, a)
             \/ \E reading \in {"green", "refused"} : RecordGate(t, c, reading)
             \/ \E decision \in {"approve", "request_changes"},
                   names \in BOOLEAN : SubmitReview(t, c, decision, names)
             \/ \E r \in Results : ApplyCritical(t, c, r)
             \/ StartReview(t, c) \/ Close(t, c) \/ Archive(t, c)
             \/ CloseAbandoned(t, c)
      PROVE  TypeOK'
  BY <1>2, TypeClaims, TypeRules, TypeVerdicts, TypeMoves
<1>3. ASSUME NEW t \in Threads,
             \/ Release(t) \/ Refute(t) \/ Cancel(t)
             \/ \E l \in links[t] : Unlink(t, l)
             \/ \E k \in Counts \cup {None} : SetRequirement(t, k)
             \/ \E m \in Members : AddReviewer(t, m) \/ RemoveReviewer(t, m)
             \/ RequireGate(t) \/ ClearGate(t)
      PROVE  TypeOK'
  BY <1>3, TypeRules, TypeUndone
<1>4. CASE Next
  BY <1>2, <1>3, <1>4, TypePulls DEF Next
<1> QED
  BY <1>1, <1>4

\* Every table of the review path keeps rows of its own type, whatever order
\* claims, results, verdicts, gates, sweeps and transitions commit in.
THEOREM TypeCorrect == Spec => []TypeOK
BY TypeInit, TypeStep, PTL DEF Spec

-----------------------------------------------------------------------------
(* Standing approvals.  An approval is made standing by submit_review_on    *)
(* alone, on a hand-off; a hand-off is never taken back, and what resets    *)
(* sinceBack dismisses every approval with it.                              *)

\* What a verdict does to the approvals of its own thread.
LEMMA StandingVerdict ==
  ASSUME TypeOK, StandingApprovals, NEW t \in Threads, NEW c \in Callers,
         (MayName(t) /\ Approve(t, c)) \/ RequestChanges(t, c),
         packet' = packet
  PROVE  StandingApprovals'
<1> USE CallerType
<1>1. /\ approval \in [Threads -> [Members -> Approvals \cup {None}]]
      /\ sinceBack \in [Threads -> SUBSET Members]
  BY DEF TypeOK
<1>2. CASE MayName(t) /\ Approve(t, c)
  <2>1. /\ packet[t] # None
        /\ sinceBack' = [sinceBack EXCEPT ![t] = @ \cup {c.as}]
    BY <1>2 DEF MayName, Approve
  <2>2. PICK a : approval' = [approval EXCEPT ![t][c.as] = a]
    BY <1>2 DEF Approve
  <2> QED
    BY <1>1, <2>1, <2>2 DEF StandingApprovals, Approvers
<1>3. CASE RequestChanges(t, c) /\ SendsBack(t, c)
  <2>1. /\ approval' = [approval EXCEPT ![t] = Dismissed(t)]
        /\ sinceBack' = [sinceBack EXCEPT ![t] = {}]
    BY <1>3 DEF RequestChanges
  <2> QED
    BY <1>1, <2>1 DEF StandingApprovals, Approvers, Dismissed
<1>4. CASE RequestChanges(t, c) /\ ~SendsBack(t, c)
  <2>1. /\ approval' = [approval EXCEPT ![t][c.as] = None]
        /\ sinceBack' = [sinceBack EXCEPT ![t] = @ \ {c.as}]
    BY <1>4 DEF RequestChanges
  <2> QED
    BY <1>1, <2>1 DEF StandingApprovals, Approvers
<1> QED
  BY <1>2, <1>3, <1>4

\* A sweep's record only takes approvals away, from both sides alike.
LEMMA StandingRecord ==
  ASSUME TypeOK, StandingApprovals, NEW s \in Sweepers, RecordPull(s)
  PROVE  StandingApprovals'
<1>1. PICK L \in [Threads -> SUBSET Members] :
        /\ approval' = [u \in Threads |-> [m \in Members |->
             IF m \in L[u] THEN None ELSE approval[u][m]]]
        /\ sinceBack' = [u \in Threads |-> sinceBack[u] \ L[u]]
  <2> DEFINE L == [u \in Threads |->
        LeftBehind(u, PullOf[fetched[s][1]], fetched[s])]
  <2>1. L \in [Threads -> SUBSET Members]
    BY DEF LeftBehind, Approvers
  <2> QED
    BY <2>1 DEF RecordPull
<1>2. packet' = packet
  BY DEF RecordPull
<1> QED
  BY <1>1, <1>2 DEF StandingApprovals, Approvers

\* The steps that touch neither the approvals nor sinceBack.
LEMMA StandingElse ==
  ASSUME TypeOK, StandingApprovals, UNCHANGED <<approval, sinceBack>>,
         \A t \in Threads : packet[t] # None => packet'[t] # None
  PROVE  StandingApprovals'
BY DEF StandingApprovals, Approvers

\* Every step is one of the three.
LEMMA StepKinds ==
  ASSUME TypeOK, [Next]_vars
  PROVE  \/ /\ UNCHANGED <<approval, sinceBack, lastRead, seen>>
            /\ \A t \in Threads : packet[t] # None => packet'[t] # None
         \/ \E t \in Threads, c \in Callers :
              /\ (MayName(t) /\ Approve(t, c)) \/ RequestChanges(t, c)
              /\ UNCHANGED <<packet, lastRead, seen>>
         \/ \E s \in Sweepers : RecordPull(s)
<1>1. CASE UNCHANGED <<approval, sinceBack, packet, lastRead, seen>>
  BY <1>1
<1>2. CASE \E t \in Threads, c \in Callers : StartReview(t, c)
  <2> PICK t \in Threads, c \in Callers : StartReview(t, c)
    BY <1>2
  <2>1. Root(t) # None
    BY RootType, NoneIsNoRoot
  <2>2. packet' = [packet EXCEPT ![t] = Root(t)]
    BY DEF StartReview
  <2>3. packet \in [Threads -> Roots \cup {None}]
    BY DEF TypeOK
  <2>4. UNCHANGED <<approval, sinceBack, lastRead, seen>>
    BY DEF StartReview
  <2> QED
    BY <2>1, <2>2, <2>3, <2>4
<1>3. CASE \E t \in Threads, c \in Callers,
             decision \in {"approve", "request_changes"}, names \in BOOLEAN :
               SubmitReview(t, c, decision, names)
  BY <1>3 DEF SubmitReview
<1>4. CASE \E t \in Threads, c \in Callers, r \in Results :
             ApplyCritical(t, c, r)
  <2> PICK t \in Threads, c \in Callers, r \in Results : ApplyCritical(t, c, r)
    BY <1>4
  <2>1. CASE Covers(t, r.by)
    BY <2>1 DEF ApplyCritical
  <2>2. CASE ~Covers(t, r.by)
    BY <2>2 DEF ApplyCritical
  <2> QED
    BY <2>1, <2>2
<1>5. CASE \E s \in Sweepers : RecordPull(s)
  BY <1>5
<1>6. ASSUME NEW t \in Threads, NEW c \in Callers,
             \/ Claim(t, c)
             \/ \E x \in Contents : SetResult(t, c, x)
             \/ \E a \in Artifacts : Link(t, c, a)
             \/ \E reading \in {"green", "refused"} : RecordGate(t, c, reading)
             \/ Close(t, c) \/ Archive(t, c) \/ CloseAbandoned(t, c)
      PROVE  UNCHANGED <<approval, sinceBack, packet, lastRead, seen>>
  BY <1>6 DEF Claim, SetResult, Link, RecordGate, SetGate, Close, Archive,
              CloseAbandoned
<1>7. ASSUME NEW t \in Threads,
             \/ Release(t) \/ Refute(t) \/ Cancel(t)
             \/ \E l \in links[t] : Unlink(t, l)
             \/ \E k \in Counts \cup {None} : SetRequirement(t, k)
             \/ \E m \in Members : AddReviewer(t, m) \/ RemoveReviewer(t, m)
             \/ RequireGate(t) \/ ClearGate(t)
      PROVE  UNCHANGED <<approval, sinceBack, packet, lastRead, seen>>
  BY <1>7 DEF Release, Refute, Cancel, Unlink, SetRequirement, AddReviewer,
              RemoveReviewer, RequireGate, ClearGate, SetGate
<1>8. ASSUME \/ \E m \in Members : RemoveMember(m)
             \/ \E p \in Pulls : Push(p) \/ \E s \in Sweepers : FetchPull(s, p)
      PROVE  UNCHANGED <<approval, sinceBack, packet, lastRead, seen>>
  BY <1>8 DEF RemoveMember, Push, FetchPull
<1>9. CASE UNCHANGED vars
  BY <1>1, <1>9
<1>10. CASE Next
  BY <1>10, <1>1, <1>2, <1>3, <1>4, <1>5, <1>6, <1>7, <1>8 DEF Next
<1> QED
  BY <1>9, <1>10

LEMMA StandingStep ==
  TypeOK /\ StandingApprovals /\ [Next]_vars => StandingApprovals'
BY StepKinds, StandingElse, StandingVerdict, StandingRecord

\* submit_review_on: an approval still standing was given on a hand-off and
\* since the thread was last sent back, for any members and any schedule.
THEOREM ApprovalsStayCurrent == Spec => []StandingApprovals
<1>1. Init => StandingApprovals
  BY SMTT(30) DEF Init, StandingApprovals, Approvers
<1> QED
  BY <1>1, TypeCorrect, StandingStep, PTL DEF Spec

-----------------------------------------------------------------------------
(* Landing.  Of the steps that close a thread only Close and CloseAbandoned *)
(* count as landing it, and both pass the gates.                            *)

LEMMA ClosedBy ==
  ASSUME TypeOK, [Next]_vars, NEW t \in Threads,
         state[t] \in Live, state'[t] = "closed"
  PROVE  \/ \E c \in Callers : Close(t, c) \/ CloseAbandoned(t, c)
         \/ t \in cancelled'
<1> USE DEF Live
<1>1. state' # state
  OBVIOUS
<1>2. state \in [Threads -> States]
  BY DEF TypeOK
<1>3. ASSUME NEW u \in Threads, NEW c \in Callers,
             Approve(u, c) \/ RequestChanges(u, c)
      PROVE  state'[t] = state[t] \/ state'[t] = "open"
  <2>1. state' \in {state, [state EXCEPT ![u] = "open"]}
    BY <1>3 DEF Approve, RequestChanges
  <2> QED
    BY <1>2, <2>1
<1>4. ASSUME NEW u \in Threads, NEW c \in Callers, StartReview(u, c)
      PROVE  FALSE
  BY <1>2, <1>4 DEF StartReview, Spawned
<1>5. ASSUME NEW u \in Threads, NEW c \in Callers, Archive(u, c)
      PROVE  FALSE
  BY <1>2, <1>5 DEF Archive, Land
<1>6. ASSUME NEW u \in Threads, NEW c \in Callers,
             Close(u, c) \/ CloseAbandoned(u, c)
      PROVE  u = t
  BY <1>2, <1>6 DEF Close, CloseAbandoned, Land
<1>7. ASSUME NEW u \in Threads, Cancel(u)
      PROVE  t \in cancelled'
  BY <1>2, <1>7 DEF Cancel
<1>8. ASSUME NEW u \in Threads, NEW c \in Callers,
             NEW decision \in {"approve", "request_changes"},
             NEW names \in BOOLEAN, SubmitReview(u, c, decision, names)
      PROVE  FALSE
  BY <1>3, <1>8 DEF SubmitReview
<1>9. ASSUME NEW u \in Threads, NEW c \in Callers, NEW r \in Results,
             ApplyCritical(u, c, r)
      PROVE  FALSE
  <2>1. CASE Covers(u, r.by)
    BY <1>1, <1>9, <2>1 DEF ApplyCritical
  <2>2. CASE ~Covers(u, r.by)
    BY <1>3, <1>9, <2>2 DEF ApplyCritical
  <2> QED
    BY <2>1, <2>2
<1>10. ASSUME NEW u \in Threads, NEW c \in Callers,
              \/ Claim(u, c)
              \/ \E x \in Contents : SetResult(u, c, x)
              \/ \E a \in Artifacts : Link(u, c, a)
              \/ \E reading \in {"green", "refused"} : RecordGate(u, c, reading)
       PROVE  FALSE
  BY <1>1, <1>10 DEF Claim, SetResult, Link, RecordGate, SetGate
<1>11. ASSUME NEW u \in Threads,
              \/ Release(u) \/ Refute(u)
              \/ \E l \in links[u] : Unlink(u, l)
              \/ \E k \in Counts \cup {None} : SetRequirement(u, k)
              \/ \E m \in Members : AddReviewer(u, m) \/ RemoveReviewer(u, m)
              \/ RequireGate(u) \/ ClearGate(u)
       PROVE  FALSE
  BY <1>1, <1>11 DEF Release, Refute, Unlink, SetRequirement, AddReviewer,
                     RemoveReviewer, RequireGate, ClearGate, SetGate
<1>12. ASSUME \/ \E m \in Members : RemoveMember(m)
              \/ \E p \in Pulls : Push(p) \/ \E s \in Sweepers : FetchPull(s, p)
              \/ \E s \in Sweepers : RecordPull(s)
       PROVE  FALSE
  BY <1>1, <1>12 DEF RemoveMember, Push, FetchPull, RecordPull
<1>13. Next
  BY <1>1
<1> QED
  BY <1>4, <1>5, <1>6, <1>7, <1>8, <1>9, <1>10, <1>11, <1>12, <1>13
     DEF Next

LEMMA LandsThroughGates ==
  ASSUME TypeOK, [Next]_vars, NEW t \in Threads, Lands(t)
  PROVE  ReviewGate(t) /\ LandGate(t)
<1>1. PICK c \in Callers : Close(t, c) \/ CloseAbandoned(t, c)
  BY ClosedBy DEF Lands
<1>2. CASE Close(t, c)
  BY <1>2 DEF Close
<1>3. CASE CloseAbandoned(t, c)
  BY <1>3 DEF CloseAbandoned, Lands
<1> QED
  BY <1>1, <1>2, <1>3

\* An approval was given by a member.
LEMMA PersonType ==
  ASSUME TypeOK, NEW t \in Threads, NEW m \in Approvers(t)
  PROVE  m \in Members /\ Person(t, m) \in Members
BY SMTT(30) DEF TypeOK, Approvers, Person, Approvals

LEMMA NeededType ==
  ASSUME TypeOK, NEW t \in Threads
  PROVE  Needed(t) \in Nat
<1>1. required[t] \in Counts \cup {None, 1}
  BY DEF TypeOK
<1>2. Counts \subseteq Nat
  BY ReviewConstants
<1>3. CASE required[t] = None
  BY <1>3 DEF Needed
<1>4. CASE required[t] # None
  <2>1. required[t] \in Counts \/ required[t] = 1
    BY <1>1, <1>4
  <2>2. required[t] \in Nat
    <3>1. CASE required[t] \in Counts
      BY <1>2, <3>1
    <3>2. CASE required[t] = 1
      BY <3>2, SMTT(30)
    <3> QED
      BY <2>1, <3>1, <3>2
  <2>3. Needed(t) = required[t]
    BY <1>4 DEF Needed
  <2> QED
    BY <2>2, <2>3
<1> QED
  BY <1>3, <1>4

LEMMA LandsApprovedStep ==
  ASSUME TypeOK, StandingApprovals, [Next]_vars, NEW t \in Threads,
         Lands(t), Needed(t) > 0
  PROVE  LET shown == {m \in Approvers(t) \cap sinceBack[t] :
                         approval[t][m].root.evidence = Evidence(t)}
             involved == workers[t] \cup gone \cup {Owner[t]}
         IN Cardinality(People(t, shown) \ involved) >= Needed(t)
<1> DEFINE shown == {m \in Approvers(t) \cap sinceBack[t] :
                       approval[t][m].root.evidence = Evidence(t)}
           involved == workers[t] \cup gone \cup {Owner[t]}
           counted == People(t, GateApprovals(t))
<1>1. ReviewGate(t)
  BY LandsThroughGates
<1>2. ASSUME NEW m \in GateApprovals(t)
      PROVE  /\ m \in shown
             /\ Person(t, m) \in Members \ involved
  <2>1. m \in Approvers(t) /\ Bound(t, m)
    BY DEF GateApprovals
  <2>2. m \in sinceBack[t] /\ packet[t] # None
    BY <2>1 DEF StandingApprovals
  <2>3. approval[t][m].root.evidence = Evidence(t)
    BY <1>1, <2>1, <2>2 DEF Bound, ReviewGate, Unchanged
  <2>4. Person(t, m) \notin involved
    BY DEF GateApprovals, Independent
  <2> QED
    BY <2>1, <2>2, <2>3, <2>4, PersonType
<1>3. counted \subseteq People(t, shown) \ involved
  BY <1>2 DEF People
<1>4. shown \subseteq Approvers(t)
  OBVIOUS
<1>5. People(t, shown) \subseteq Members
  BY <1>4, PersonType DEF People
<1>6. IsFiniteSet(Members)
  BY ReviewConstants
<1>7. IsFiniteSet(People(t, shown))
  BY <1>5, <1>6, FS_Subset
<1>8. IsFiniteSet(People(t, shown) \ involved)
  BY <1>7, FS_Difference
<1>9. /\ Cardinality(counted) <= Cardinality(People(t, shown) \ involved)
      /\ Cardinality(counted) \in Nat
      /\ Cardinality(People(t, shown) \ involved) \in Nat
  BY <1>3, <1>8, FS_Subset, FS_CardinalityType
<1>10. Cardinality(counted) >= Needed(t)
  BY <1>1 DEF ReviewGate
<1>11. Needed(t) \in Nat
  BY NeededType
<1> HIDE DEF shown, involved, counted
<1>12. Cardinality(People(t, shown) \ involved) >= Needed(t)
  BY <1>9, <1>10, <1>11, SMTT(30)
<1> QED
  BY <1>12 DEF shown, involved

\* review_gate_in_tx: for any number of members, work that needs k approvals
\* lands only with k distinct uninvolved people behind it who approved exactly
\* the evidence now on the thread, since it was last sent back.
THEOREM LandedWorkIsApproved == Spec => LandsApproved
<1>1. ASSUME TypeOK, StandingApprovals, [Next]_vars
      PROVE  [\A t \in Threads :
                Lands(t) /\ Needed(t) > 0 =>
                  LET shown == {m \in Approvers(t) \cap sinceBack[t] :
                                  approval[t][m].root.evidence = Evidence(t)}
                      involved == workers[t] \cup gone \cup {Owner[t]}
                  IN Cardinality(People(t, shown) \ involved) >= Needed(t)]_vars
  BY <1>1, LandsApprovedStep
<1> QED
  BY <1>1, TypeCorrect, ApprovalsStayCurrent, PTL DEF Spec, LandsApproved

\* separation_of_duties_in_tx: for any members, work on an owned thread lands
\* only with the hand of someone who never held it.
THEOREM OwnedWorkIsSeparated == Spec => OwnedWorkNeedsAnOutsider
<1>1. ASSUME NEW t \in Threads, NEW c \in Callers,
             Close(t, c) \/ CloseAbandoned(t, c), Lands(t), Owner[t] # None
      PROVE  \E m \in Members \ workers[t] :
               \/ m = c.as
               \/ m \in Approvers(t)
               \/ gate[t].reading = "green" /\ gate[t].by = m
  <2>1. DutiesSeparate(t, c.as)
    BY <1>1 DEF Close, CloseAbandoned, Lands
  <2>2. c.as \in Members
    BY CallerType
  <2>3. CASE c.as \notin workers[t]
    BY <2>2, <2>3
  <2>4. CASE OutsideApproval(t)
    <3>1. CASE \E m \in Approvers(t) : m \notin workers[t]
      BY <3>1 DEF Approvers
    <3>2. CASE PassQualifies(t)
      BY <3>2, ReviewConstants DEF PassQualifies, Independent
    <3> QED
      BY <2>4, <3>1, <3>2 DEF OutsideApproval
  <2> QED
    BY <1>1, <2>1, <2>3, <2>4 DEF DutiesSeparate
<1>2. [Next]_vars =>
        [\A t \in Threads, c \in Callers :
           (Close(t, c) \/ CloseAbandoned(t, c)) /\ Lands(t) /\ Owner[t] # None =>
             \E m \in Members \ workers[t] :
               \/ m = c.as
               \/ m \in Approvers(t)
               \/ gate[t].reading = "green" /\ gate[t].by = m]_vars
  BY <1>1
<1> QED
  BY <1>2, PTL DEF Spec, OwnedWorkNeedsAnOutsider

-----------------------------------------------------------------------------
(* The land gate.  An armed gate never reads "unarmed" again until it is    *)
(* cleared, so a close cannot mistake one for the other.                    *)

ArmedReads == \A t \in Threads : gate[t].reading = "unarmed" => gate[t] = Unarmed

GateWritten(t) ==
  \E g \in Gates : /\ gate' = [gate EXCEPT ![t] = g]
                   /\ g.reading = "unarmed" => g = Unarmed

LEMMA GateKinds ==
  ASSUME [Next]_vars
  PROVE  gate' = gate \/ \E t \in Threads : GateWritten(t)
<1>1. ASSUME NEW t \in Threads, RequireGate(t) \/ ClearGate(t)
      PROVE  GateWritten(t)
  BY <1>1 DEF RequireGate, ClearGate, SetGate, Gates, Unarmed, Pending,
              GateWritten
<1>2. ASSUME NEW t \in Threads, NEW c \in Callers,
             NEW reading \in {"green", "refused"}, RecordGate(t, c, reading)
      PROVE  GateWritten(t)
  <2> DEFINE g == [reading |-> reading, by |-> c.as, actor |-> c.by]
  <2>1. g \in Gates
    BY CallerType DEF Gates
  <2>2. g.reading # "unarmed"
    OBVIOUS
  <2>3. gate' = [gate EXCEPT ![t] = g]
    BY <1>2 DEF RecordGate, SetGate
  <2> HIDE DEF g
  <2> QED
    BY <2>1, <2>2, <2>3 DEF GateWritten
<1>3. ASSUME NEW t \in Threads, NEW c \in Callers,
             \/ Claim(t, c)
             \/ \E x \in Contents : SetResult(t, c, x)
             \/ \E a \in Artifacts : Link(t, c, a)
             \/ \E decision \in {"approve", "request_changes"},
                   names \in BOOLEAN : SubmitReview(t, c, decision, names)
             \/ \E r \in Results : ApplyCritical(t, c, r)
             \/ StartReview(t, c) \/ Close(t, c) \/ Archive(t, c)
             \/ CloseAbandoned(t, c)
      PROVE  gate' = gate
  BY <1>3 DEF Claim, SetResult, Link, SubmitReview, ApplyCritical, StartReview,
              Close, Archive, CloseAbandoned
<1>4. ASSUME NEW t \in Threads,
             \/ Release(t) \/ Refute(t) \/ Cancel(t)
             \/ \E l \in links[t] : Unlink(t, l)
             \/ \E k \in Counts \cup {None} : SetRequirement(t, k)
             \/ \E m \in Members : AddReviewer(t, m) \/ RemoveReviewer(t, m)
      PROVE  gate' = gate
  BY <1>4 DEF Release, Refute, Cancel, Unlink, SetRequirement, AddReviewer,
              RemoveReviewer
<1>5. ASSUME \/ \E m \in Members : RemoveMember(m)
             \/ \E p \in Pulls : Push(p) \/ \E s \in Sweepers : FetchPull(s, p)
             \/ \E s \in Sweepers : RecordPull(s)
      PROVE  gate' = gate
  BY <1>5 DEF RemoveMember, Push, FetchPull, RecordPull
<1>6. CASE UNCHANGED vars
  BY <1>6
<1>7. CASE Next
  BY <1>7, <1>1, <1>2, <1>3, <1>4, <1>5 DEF Next
<1> QED
  BY <1>6, <1>7

\* land_gate::gate_in_tx: for any members, once the gate is armed work lands
\* only with a green pass that neither its owner nor anyone who ever held it
\* recorded.
THEOREM LandedWorkPassed == Spec => LandsPassed
<1>1. Init => ArmedReads
  BY SMTT(30) DEF Init, ArmedReads
<1>2. TypeOK /\ ArmedReads /\ [Next]_vars => ArmedReads'
  <2> SUFFICES ASSUME TypeOK, ArmedReads, [Next]_vars PROVE ArmedReads'
    OBVIOUS
  <2>1. CASE gate' = gate
    BY <2>1 DEF ArmedReads
  <2>2. CASE \E t \in Threads : GateWritten(t)
    <3>1. gate \in [Threads -> Gates]
      BY DEF TypeOK
    <3> QED
      BY <2>2, <3>1 DEF ArmedReads, GateWritten
  <2> QED
    BY <2>1, <2>2, GateKinds
<1>3. ASSUME TypeOK, ArmedReads, [Next]_vars
      PROVE  [\A t \in Threads :
                Lands(t) /\ gate[t] # Unarmed =>
                  /\ gate[t].reading = "green"
                  /\ gate[t].by \notin workers[t] \cup {Owner[t]}
                  /\ \/ gate[t].actor = None
                     \/ gate[t].actor \notin workers[t] \cup {Owner[t]}]_vars
  <2> SUFFICES ASSUME NEW t \in Threads, Lands(t), gate[t] # Unarmed
               PROVE  /\ gate[t].reading = "green"
                      /\ gate[t].by \notin workers[t] \cup {Owner[t]}
                      /\ \/ gate[t].actor = None
                         \/ gate[t].actor \notin workers[t] \cup {Owner[t]}
    OBVIOUS
  <2>1. LandGate(t)
    BY <1>3, LandsThroughGates
  <2>2. PassQualifies(t)
    BY <1>3, <2>1 DEF LandGate, ArmedReads
  <2> QED
    BY <2>2 DEF PassQualifies, Independent
<1> QED
  BY <1>1, <1>2, <1>3, TypeCorrect, PTL DEF Spec, LandsPassed

-----------------------------------------------------------------------------
(* The head a standing approval names.  What makes it inductive: the pull   *)
(* read last for a thread is one of its own, so a sweep's record moves the  *)
(* head of no other change.                                                 *)

OwnPull == \A t \in Threads : lastRead[t] # None => PullOf[lastRead[t]] = t

HeadsNamed == OwnPull /\ StandingNamesHead

LEMMA HeadsVerdict ==
  ASSUME TypeOK, HeadsNamed, NEW t \in Threads, NEW c \in Callers,
         (MayName(t) /\ Approve(t, c)) \/ RequestChanges(t, c),
         UNCHANGED <<packet, lastRead, seen>>
  PROVE  HeadsNamed'
<1> USE CallerType
<1>1. approval \in [Threads -> [Members -> Approvals \cup {None}]]
  BY DEF TypeOK
<1>2. /\ OwnPull'
      /\ \A u \in Threads : CurrentHead(u)' = CurrentHead(u)
  BY DEF HeadsNamed, OwnPull, CurrentHead, Change
<1>3. ASSUME NEW u \in Threads, NEW m \in Members, approval'[u][m] # None
      PROVE  approval'[u][m].head \in {None, CurrentHead(u)}
  <2>1. \/ approval'[u][m] = approval[u][m]
        \/ approval'[u][m].head = CurrentHead(u)
    <3>1. CASE MayName(t) /\ Approve(t, c)
      BY <1>1, <3>1 DEF Approve
    <3>2. CASE RequestChanges(t, c) /\ SendsBack(t, c)
      BY <1>1, <1>3, <3>2, SMTT(30) DEF RequestChanges, Dismissed
    <3>3. CASE RequestChanges(t, c) /\ ~SendsBack(t, c)
      BY <1>1, <1>3, <3>3, SMTT(30) DEF RequestChanges
    <3> QED
      BY <3>1, <3>2, <3>3
  <2> QED
    BY <1>3, <2>1 DEF HeadsNamed, StandingNamesHead, Approvers
<1>4. StandingNamesHead'
  BY <1>2, <1>3 DEF StandingNamesHead, Approvers
<1> QED
  BY <1>2, <1>4 DEF HeadsNamed

LEMMA HeadsRecord ==
  ASSUME TypeOK, HeadsNamed, NEW s \in Sweepers, RecordPull(s)
  PROVE  HeadsNamed'
<1> DEFINE h == fetched[s]
           p == fetched[s][1]
           ch == PullOf[p]
<1>1. h \in Heads /\ p \in Pulls /\ ch \in Threads
  <2>1. h \in Heads
    BY DEF TypeOK, RecordPull
  <2> QED
    BY <2>1, ReviewConstants DEF Heads
<1>2. /\ seen' = [seen EXCEPT ![p] = h]
      /\ lastRead' = [lastRead EXCEPT ![ch] = p]
      /\ approval' = [u \in Threads |-> [m \in Members |->
           IF m \in LeftBehind(u, ch, h) THEN None ELSE approval[u][m]]]
  BY DEF RecordPull
<1>3. /\ seen \in [Pulls -> Heads \cup {None}]
      /\ lastRead \in [Threads -> Pulls \cup {None}]
  BY DEF TypeOK
<1>4. p # None
  BY <1>1, ReviewConstants
<1> HIDE DEF h, p, ch
<1>5. OwnPull'
  BY <1>1, <1>2, <1>3 DEF HeadsNamed, OwnPull, ch
<1>6. ASSUME NEW u \in Threads, NEW m \in Members, approval'[u][m] # None
      PROVE  approval'[u][m].head \in {None, CurrentHead(u)'}
  <2>1. /\ m \notin LeftBehind(u, ch, h)
        /\ approval'[u][m] = approval[u][m]
        /\ m \in Approvers(u)
    BY <1>2, <1>6 DEF Approvers
  <2>2. Change(u) \in Threads
    BY HeadType
  <2>3. CASE Change(u) = ch
    <3>1. CurrentHead(u)' = h
      BY <1>1, <1>2, <1>3, <1>4, <2>2, <2>3 DEF CurrentHead, Change
    <3>2. approval[u][m].head \in {None, h}
      BY <2>1, <2>3 DEF LeftBehind
    <3> QED
      BY <2>1, <3>1, <3>2
  <2>4. CASE Change(u) # ch
    <3>1. lastRead'[Change(u)] = lastRead[Change(u)]
      BY <1>2, <1>3, <2>2, <2>4
    <3>2. lastRead[Change(u)] # p
      BY <1>4, <2>2, <2>4 DEF HeadsNamed, OwnPull, ch
    <3>3. CurrentHead(u)' = CurrentHead(u)
      <4>1. CASE lastRead[Change(u)] = None
        BY <3>1, <4>1 DEF CurrentHead, Change
      <4>2. CASE lastRead[Change(u)] # None
        <5>1. lastRead[Change(u)] \in Pulls
          BY <1>3, <2>2, <4>2
        <5>2. seen'[lastRead[Change(u)]] = seen[lastRead[Change(u)]]
          BY <1>2, <1>3, <3>2, <5>1
        <5> QED
          BY <3>1, <4>2, <5>2 DEF CurrentHead, Change
      <4> QED
        BY <4>1, <4>2
    <3> QED
      BY <2>1, <3>3 DEF HeadsNamed, StandingNamesHead
  <2> QED
    BY <2>3, <2>4
<1>7. StandingNamesHead'
  BY <1>6 DEF StandingNamesHead, Approvers
<1> QED
  BY <1>5, <1>7 DEF HeadsNamed

LEMMA HeadsElse ==
  ASSUME HeadsNamed, UNCHANGED <<approval, lastRead, seen>>
  PROVE  HeadsNamed'
BY DEF HeadsNamed, OwnPull, StandingNamesHead, Approvers, CurrentHead, Change

\* submit_review_on and pull_ci::record_with_events: for any pull requests and
\* any number of sweeps in any order, a standing approval that names a head
\* names the one now tracked for the change.
THEOREM ApprovalsNameTheHead == Spec => []StandingNamesHead
<1>1. Init => HeadsNamed
  BY SMTT(30) DEF Init, HeadsNamed, OwnPull, StandingNamesHead, Approvers
<1>2. TypeOK /\ HeadsNamed /\ [Next]_vars => HeadsNamed'
  BY StepKinds, HeadsElse, HeadsVerdict, HeadsRecord
<1>3. HeadsNamed => StandingNamesHead
  BY DEF HeadsNamed
<1> QED
  BY <1>1, <1>2, <1>3, TypeCorrect, PTL DEF Spec
=============================================================================
