--------------------------- MODULE MCThreadReview ---------------------------
(***************************************************************************)
(* Instances of ThreadReview for TLC.  All of Next is too wide to explore  *)
(* at depth, so a behaviour is about one scene, each with threads, callers *)
(* and results of its own:                                                 *)
(*   verdicts  t1: its claim, results, verdicts and leavers                *)
(*   shown     t2: its results, artifacts, rules and verdicts              *)
(*   duties    t1, owned: its holders, verdicts and the land gate          *)
(*   heads     t2, a change, and t3, its review child: pushes and sweeps   *)
(* Nothing returns a closed thread to review, so the scenes stop working   *)
(* on a thread once it has closed.                                         *)
(***************************************************************************)
EXTENDS ThreadReview

CONSTANTS t1, t2, t3, w, a, b, x, y, p1, p2

VARIABLE scene
sceneVars == <<scene, vars>>

NoParent == [t \in Threads |-> None]
Tree == [t \in Threads |-> IF t = t3 THEN t2 ELSE None]
NoOne == [t \in Threads |-> None]
OwnedByB == [t \in Threads |-> IF t = t1 THEN b ELSE None]
MadeByW == [t \in Threads |-> IF t = t1 THEN w ELSE None]
OnChange == [p \in Pulls |-> t2]
NoDelegation == {}
BForA == {<<b, a>>}
WForA == {<<w, a>>}

Stage ==
  CASE scene \in {"verdicts", "duties"} -> {t1}
    [] scene = "shown" -> {t2}
    [] scene = "heads" -> {t2, t3}

LiveThreads == {t \in Stage : state[t] \in Live}

Cast ==
  CASE scene \in {"verdicts", "duties"} -> Callers
    [] scene = "shown" -> {c \in Callers : Acting(c) \subseteq {w, a}}
    [] scene = "heads" -> {c \in Callers : Acting(c) = {a}}

\* A result with a critical finding is one of the verdicts scene.
Payloads == IF scene = "shown" THEN Contents \ Critical ELSE {x}

\* w and a take the thread in turn; b only reviews, owns or acts for a.
Holders == {c \in Cast : b \notin Acting(c)}

Holding ==
  \E t \in LiveThreads :
    \/ Release(t)
    \/ \E c \in Holders : Claim(t, c) \/ \E z \in Payloads : SetResult(t, c, z)

Reviewing ==
  \E t \in LiveThreads, c \in Cast :
    \/ StartReview(t, c)
    \/ Close(t, c)
    \/ \E decision \in {"approve", "request_changes"}, names \in BOOLEAN :
         SubmitReview(t, c, decision, names)

VerdictsNext ==
  \/ Holding
  \/ Reviewing
  \/ \E t \in LiveThreads, c \in Cast :
       CloseAbandoned(t, c) \/ \E r \in Results : ApplyCritical(t, c, r)
  \/ \E t \in Stage : SetRequirement(t, 2)
  \/ \E m \in Members : RemoveMember(m)

ShownNext ==
  \/ Holding
  \/ Reviewing
  \/ \E t \in LiveThreads, c \in Cast, z \in Artifacts : Link(t, c, z)
  \/ \E t \in LiveThreads, l \in Links : Unlink(t, l)
  \/ \E t \in LiveThreads, m \in {w, a} :
       AddReviewer(t, m) \/ RemoveReviewer(t, m)
  \/ \E t \in LiveThreads : Refute(t)
  \/ \E t \in Stage, k \in {1, None} : SetRequirement(t, k)

DutiesNext ==
  \/ Holding
  \/ Reviewing
  \/ \E t \in LiveThreads, c \in Cast : CloseAbandoned(t, c)
  \/ \E t \in LiveThreads, c \in Cast, reading \in {"green", "refused"} :
       RecordGate(t, c, reading)
  \/ \E t \in LiveThreads : Cancel(t)
  \/ \E t \in Stage :
       \/ RequireGate(t) \/ ClearGate(t)
       \/ \E c \in Cast : Archive(t, c)

HeadsNext ==
  \/ Reviewing
  \/ \E p \in Pulls : Push(p) \/ \E s \in Sweepers : FetchPull(s, p)
  \/ \E s \in Sweepers : RecordPull(s)

ApprovalsNext ==
  \/ scene = "verdicts" /\ VerdictsNext /\ UNCHANGED scene
  \/ scene = "shown" /\ ShownNext /\ UNCHANGED scene

LandingNext ==
  \/ scene = "duties" /\ DutiesNext /\ UNCHANGED scene
  \/ scene = "heads" /\ HeadsNext /\ UNCHANGED scene

ApprovalsInit == Init /\ scene \in {"verdicts", "shown"}
LandingInit == Init /\ scene \in {"duties", "heads"}

ApprovalsSpec == ApprovalsInit /\ [][ApprovalsNext]_sceneVars
LandingSpec == LandingInit /\ [][LandingNext]_sceneVars
=============================================================================
