----------------------------- MODULE MCRequests -----------------------------
(* TLC instances of Plans and of IdempotencyKeys.  They share no state: scene *)
(* says which of them a behaviour is about, and which slice of Plans.         *)
EXTENDS Plans, IdempotencyKeys, TLC

CONSTANTS tp, to, ta, tb, tc,      \* threads
          r1, r2, r3          \* requests

VARIABLE scene
requestVars == <<scene, planVars, keyVars>>

Prints == (r1 :> 1) @@ (r2 :> 1) @@ (r3 :> 2)

Closing(x) ==
  \/ AppendChange(x) \/ SettleOutside(x) \/ SettleLanded(x) \/ ClosePlan(x)
  \/ RefusePlan(x) \/ SettleUnlanded(x) \/ RollbackClose(x)

\* Children land, also of a plan within the plan, while the plan is amended.
LandingNext ==
  \/ \E t \in {tp, ta, tb} : ClaimById(t) \/ DropClaim(t)
  \/ LandedFact(tb) \/ StartReview(tb) \/ StartReview(tp)
  \/ Submit(tp, {ta, tb}, {}, FALSE)
  \/ Submit(ta, {tc}, {}, FALSE)
  \/ \E x \in Closers : \/ CloseThread(x, tb, "hand") \/ CloseThread(x, tp, "hand")
                        \/ CloseThread(x, tb, "cancel")
                        \/ \E t \in {ta, tb, tc} : CloseThread(x, t, "land")
                        \/ Closing(x)
  \/ \E x \in Amenders : \/ BeginAmend(x, tp, {tb}, {}, {}, {}, FALSE)
                         \/ BeginAmend(x, tp, {}, {tc}, {}, {}, FALSE)
  \/ AmendNext

\* Holds and blocks around children that close without landing.
BlocksNext ==
  \/ ClaimById(tp) \/ Claim(tb) \/ DropClaim(tb) \/ SetBlock(tb) \/ ClearBlock(tb) \/ ClearBlock(to)
  \/ Submit(tp, {ta, tb}, {<<tb, ta>>}, TRUE) \/ Submit(tp, {ta, tb}, {<<tb, ta>>}, FALSE)
  \/ Release(tp) \/ LandedFact(ta)
  \/ \E x \in Closers : \/ \E t \in {ta, tb}, how \in {"cancel", "abandon"} : CloseThread(x, t, how)
                        \/ Closing(x)
  \/ \E x \in Amenders : BeginAmend(x, tp, {}, {tc}, {}, {<<tc, ta>>}, FALSE)
  \/ AmendNext
  \/ \E x \in Adders : CheckEdge(x, to, ta) \/ InsertEdge(x) \/ RollbackAdd(x)

\* Edges are added and removed while an amendment rewires the plan.
EdgesNext ==
  \/ ClaimById(tp) \/ ClaimById(ta)
  \/ Submit(tp, {ta, tb}, {<<tb, ta>>}, FALSE) \/ Submit(tp, {ta, tb}, {}, FALSE)
  \/ \E x \in Amenders : \/ BeginAmend(x, tp, {}, {}, {ta}, {<<ta, tb>>}, FALSE)
                         \/ BeginAmend(x, tp, {ta}, {}, {}, {}, FALSE)
                         \/ BeginAmend(x, tp, {ta}, {tc}, {}, {<<tc, tb>>}, FALSE)
  \/ AmendNext
  \/ \E x \in Adders : \/ \E t, d \in {to, ta, tb} : CheckEdge(x, t, d)
                       \/ InsertEdge(x) \/ RollbackAdd(x)
  \/ \E e \in needs : RemoveEdge(e)

RequestsInit == PlanInit /\ KeyInit /\ scene \in {"landing", "blocks", "edges", "keys"}

RequestsNext ==
  \/ scene = "landing" /\ LandingNext /\ UNCHANGED <<scene, keyVars>>
  \/ scene = "blocks" /\ BlocksNext /\ UNCHANGED <<scene, keyVars>>
  \/ scene = "edges" /\ EdgesNext /\ UNCHANGED <<scene, keyVars>>
  \/ scene = "keys" /\ KeyNext /\ UNCHANGED <<scene, planVars>>

RequestsSpec == RequestsInit /\ [][RequestsNext]_requestVars
=============================================================================
