--------------------------- MODULE MCThreadClaims ---------------------------
(***************************************************************************)
(* Instances of ThreadClaims for TLC.  All of Next is too wide to explore  *)
(* at depth, so each run takes the actions its question is about:          *)
(*   Clock     leases, the reaper and what each claim end charges          *)
(*   Holders   two threads, holders, results and review rounds, no clock   *)
(*   Waits     declared waits and unacknowledged claims under fairness     *)
(* The theorems of ThreadClaimsProofs are about all of Next.               *)
(***************************************************************************)
EXTENDS ThreadClaims

CONSTANTS m1, m2, t1

NoOwner == [t \in Threads |-> NoMember]
OwnedBy1 == [t \in Threads |-> m1]
NoDelegation == {}
TwoForOne == {<<m2, m1>>}

Taking ==
  \/ \E rep \in Replicas, m \in Members, t \in Threads : ClaimNext(rep, m, t)
  \/ \E m \in Members, t \in Threads : Claim(m, t) \/ Assign(m, t)

Working ==
  \E m \in Members, t \in Threads, k \in Leases :
    RenewClaim(m, t, k) \/ AcknowledgeClaim(m, t, k) \/ ReleaseClaim(m, t, k)

Reaping == \E rep \in Replicas : Boot(rep) \/ ReapExpiredClaims(rep)

ClockNext ==
  \/ Tick
  \/ Reaping
  \/ Taking
  \/ Working
  \/ \E m \in Members : Freeze(m)
  \/ \E m \in Members, t \in Threads, k \in Leases, id \in ReportIds :
       ReportUsage(m, t, k, id)
  \/ \E t \in Threads :
       \/ Unassign(t)
       \/ \E max \in UseCaps, maxWall \in WallCaps : SetBudget(t, max, maxWall)
       \/ StartReview(t)
       \/ RequestChanges(t)
       \/ CloseAbandoned(t)

HoldersNext ==
  \/ Taking
  \/ \E m \in Members, t \in Threads, k \in Leases :
       ReleaseClaim(m, t, k) \/ SetResult(m, t, k)
  \/ \E m \in Members : Freeze(m) \/ Unfreeze(m)
  \/ \E t \in {t1} :
       \/ Unassign(t)
       \/ HandOff(t)
       \/ StartReview(t)
       \/ RequestChanges(t)
       \/ \E accept \in BOOLEAN : ResolveCap(t, accept)
       \/ Unpark(t)
       \/ Close(t)
       \/ Archive(t)
       \/ Cancel(t)

WaitsNext ==
  \/ Tick
  \/ Reaping
  \/ Taking
  \/ Working
  \/ ReportUnacknowledged
  \/ ReturnHumanTimeouts
  \/ \E m \in Members, t \in Threads : DeclareWait(m, t)
  \/ \E t \in Threads : ClearStatus(t)

ClockSpec == Init /\ [][ClockNext]_vars
HoldersSpec == Init /\ [][HoldersNext]_vars
WaitsSpec == Init /\ [][WaitsNext]_vars /\ Fairness
=============================================================================
