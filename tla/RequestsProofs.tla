--------------------------- MODULE RequestsProofs ----------------------------
(***************************************************************************)
(* Theorems about plans, for any threads, any number of transactions and   *)
(* any number of amendments, and about idempotency keys, for any number of *)
(* requests, any fingerprints and any number of reservations.              *)
(*                                                                         *)
(* Plans rest on what the row locks keep: a closing transaction owns the   *)
(* open threads it closes, each plan among them behind children that have  *)
(* all landed, and an amending one owns a plan that stays claimed.         *)
(***************************************************************************)
EXTENDS Plans, IdempotencyKeys, TLAPS

USE Zenon, SMTT(30)

Made(t) == state[t] # "absent"

\* A closing transaction owns the rows of the threads it closes, which are open.
CloserLocks ==
  \A x \in Closers : closer[x].pc # "idle" =>
    /\ closer[x].at \in closer[x].closed
    /\ closer[x].landed \subseteq closer[x].closed
    /\ \A t \in closer[x].closed : lock[t] = x /\ IsOpen(t)

\* An amending one owns the plan, which stays claimed and amendable, and from
\* LockCancelled on the children it cancels.
AmenderLocks ==
  \A x \in Amenders : amender[x].pc # "idle" =>
    /\ amender[x].plan \in PlanKind /\ lock[amender[x].plan] = x
    /\ held[amender[x].plan] /\ MayAmend(amender[x].plan)
    /\ amender[x].plan \notin amender[x].cancel
    /\ \A c \in amender[x].cancel : plan[c] = amender[x].plan
    /\ amender[x].pc # "row" => \A c \in amender[x].cancel : lock[c] = x /\ IsOpen(c)

\* Ids to be given are unused, each by one transaction.
AddsFresh ==
  /\ \A x \in Amenders : \A c \in amender[x].add : ~ Made(c)
  /\ \A x, y \in Amenders : x # y => amender[x].add \cap amender[y].add = {}

\* What a row names exists.
RowsMade ==
  \A t \in Threads :
    /\ held[t] => Made(t)
    /\ plan[t] # None => Made(t) /\ Made(plan[t])

NeedsMade == \A e \in needs : Made(e[1]) /\ Made(e[2])
BasedMade == \A e \in based : Made(e[1])

AddersMade ==
  \A x \in Adders : adder[x].pc # "idle" =>
    /\ adder[x].edge \in Threads \X Threads /\ adder[x].edge[1] # adder[x].edge[2]
    /\ Made(adder[x].edge[1]) /\ Made(adder[x].edge[2])

WiresMade ==
  \A x \in Amenders : \A e \in amender[x].wires :
    /\ Made(e[1]) \/ e[1] \in amender[x].add
    /\ Made(e[2]) \/ e[2] \in amender[x].add

EdgesMade == NeedsMade /\ BasedMade /\ AddersMade /\ WiresMade

\* Every child of p has landed and is closed, once x commits.
Behind(x, p) == \A c \in Threads : plan[c] = p => IsClosed(x, c) /\ HasLanded(x, c)

\* A closing transaction goes up from plan to plan, each behind its children.
Chain ==
  \A x \in Closers : closer[x].pc # "idle" =>
    \A t \in closer[x].closed \ {closer[x].at} :
      plan[t] \in closer[x].closed /\ Behind(x, plan[t])

PlanLocks == PlanTypeOK /\ CloserLocks /\ AmenderLocks /\ AddsFresh /\ RowsMade /\ EdgesMade

\* UnlandedBaseBlocks, whether or not the edge is still there.
BasesBlock ==
  \A e \in based : IsOpen(e[1]) /\ e[2] \notin landed =>
    block[e[1]] # "none" \/ e[1] \in cleared \cup released

\* What a check found stays true until its insert, unless the insert races.
ChecksHold ==
  \A x \in Adders : adder[x].pc # "idle" /\ ~ adder[x].stale /\ ~ raced =>
    ~ Reaches(needs, adder[x].edge[2], adder[x].edge[1])

PlanInv == PlanLocks /\ Chain /\ AllLandedClosesPlan /\ BasesBlock /\ CycleNeedsRace /\ ChecksHold

-----------------------------------------------------------------------------
(* The records of transactions.                                            *)

LEMMA ClosureType ==
  ASSUME NEW pc \in {"idle", "row", "settle"}, NEW t \in Threads \cup {None},
         NEW C \in SUBSET Threads, NEW L \in SUBSET Threads, NEW A \in SUBSET Threads
  PROVE  LET u == Closure(pc, t, C, L, A) IN
         /\ u \in Closures
         /\ u.pc = pc /\ u.at = t /\ u.closed = C /\ u.landed = L /\ u.abandon = A
BY DEF Closure, Closures

LEMMA ClosureFields ==
  ASSUME NEW u \in Closures
  PROVE  /\ u.pc \in {"idle", "row", "settle"} /\ u.at \in Threads \cup {None}
         /\ u.closed \in SUBSET Threads /\ u.landed \in SUBSET Threads
         /\ u.abandon \in SUBSET Threads
BY DEF Closures

LEMMA ClosureMoves ==
  ASSUME NEW u \in Closures, NEW pc \in {"idle", "row", "settle"}
  PROVE  LET v == [u EXCEPT !.pc = pc] IN
         /\ v \in Closures /\ v.pc = pc /\ v.at = u.at /\ v.closed = u.closed
         /\ v.landed = u.landed /\ v.abandon = u.abandon
BY DEF Closures

LEMMA AmendmentType ==
  ASSUME NEW pc \in {"idle", "row", "log", "wire"}, NEW p \in PlanKind \cup {None},
         NEW C \in SUBSET Threads, NEW A \in SUBSET Threads, NEW W \in SUBSET Threads,
         NEW E \in SUBSET (Threads \X Threads), NEW h \in BOOLEAN
  PROVE  LET u == Amendment(pc, p, C, A, W, E, h) IN
         /\ u \in Amendments
         /\ u.pc = pc /\ u.plan = p /\ u.cancel = C /\ u.add = A /\ u.rewritten = W
         /\ u.wires = E /\ u.hold = h
BY DEF Amendment, Amendments

LEMMA AmendmentFields ==
  ASSUME NEW u \in Amendments
  PROVE  /\ u.pc \in {"idle", "row", "log", "wire"} /\ u.plan \in PlanKind \cup {None}
         /\ u.cancel \in SUBSET Threads /\ u.add \in SUBSET Threads
         /\ u.rewritten \in SUBSET Threads /\ u.wires \in SUBSET (Threads \X Threads)
         /\ u.hold \in BOOLEAN
BY DEF Amendments

LEMMA AmendmentMoves ==
  ASSUME NEW u \in Amendments, NEW pc \in {"idle", "row", "log", "wire"}
  PROVE  LET v == [u EXCEPT !.pc = pc] IN
         /\ v \in Amendments /\ v.pc = pc /\ v.plan = u.plan /\ v.cancel = u.cancel
         /\ v.add = u.add /\ v.rewritten = u.rewritten /\ v.wires = u.wires /\ v.hold = u.hold
BY DEF Amendments

LEMMA AdditionType ==
  ASSUME NEW pc \in {"idle", "insert"},
         NEW e \in (Threads \cup {None}) \X (Threads \cup {None}), NEW b \in BOOLEAN
  PROVE  LET u == Addition(pc, e, b) IN
         u \in Additions /\ u.pc = pc /\ u.edge = e /\ u.stale = b
BY DEF Addition, Additions

LEMMA AdditionFields ==
  ASSUME NEW u \in Additions
  PROVE  /\ u.pc \in {"idle", "insert"} /\ u.stale \in BOOLEAN
         /\ u.edge \in (Threads \cup {None}) \X (Threads \cup {None})
BY DEF Additions

LEMMA IdleRecords ==
  /\ NoClose \in Closures /\ NoClose.pc = "idle"
  /\ NoAmend \in Amendments /\ NoAmend.pc = "idle" /\ NoAmend.add = {} /\ NoAmend.wires = {}
  /\ NoAdd \in Additions /\ NoAdd.pc = "idle"
<1>1. {} \in SUBSET Threads /\ {} \in SUBSET (Threads \X Threads)
  OBVIOUS
<1>2. NoClose \in Closures /\ NoClose.pc = "idle"
  BY <1>1, ClosureType, SMTT(30) DEF NoClose
<1>3. NoAmend \in Amendments /\ NoAmend.pc = "idle" /\ NoAmend.add = {} /\ NoAmend.wires = {}
  BY DEF NoAmend, Amendment, Amendments
<1>4. <<None, None>> \in (Threads \cup {None}) \X (Threads \cup {None})
  OBVIOUS
<1>5. NoAdd \in Additions /\ NoAdd.pc = "idle"
  BY <1>4, AdditionType DEF NoAdd
<1> QED
  BY <1>2, <1>3, <1>5

\* One transaction goes on, the others stay.
LEMMA CloserMoved ==
  ASSUME PlanTypeOK, NEW x \in Closers, NEW u \in Closures, closer' = [closer EXCEPT ![x] = u]
  PROVE  /\ closer' \in [Closers -> Closures] /\ closer'[x] = u
         /\ \A y \in Closers \ {x} : closer'[y] = closer[y]
BY DEF PlanTypeOK

LEMMA AmenderMoved ==
  ASSUME PlanTypeOK, NEW x \in Amenders, NEW u \in Amendments,
         amender' = [amender EXCEPT ![x] = u]
  PROVE  /\ amender' \in [Amenders -> Amendments] /\ amender'[x] = u
         /\ \A y \in Amenders \ {x} : amender'[y] = amender[y]
BY DEF PlanTypeOK

LEMMA AdderMoved ==
  ASSUME PlanTypeOK, NEW x \in Adders, NEW u \in Additions, adder' = [adder EXCEPT ![x] = u]
  PROVE  /\ adder' \in [Adders -> Additions] /\ adder'[x] = u
         /\ \A y \in Adders \ {x} : adder'[y] = adder[y]
BY DEF PlanTypeOK

-----------------------------------------------------------------------------
(* Paths.                                                                  *)

LEMMA ReachesMore ==
  ASSUME NEW E, NEW F, E \subseteq F, NEW s, NEW t, Reaches(E, s, t)
  PROVE  Reaches(F, s, t)
BY DEF Reaches

LEMMA AcyclicLess ==
  ASSUME NEW E, NEW F, E \subseteq F, Acyclic(F)
  PROVE  Acyclic(E)
BY ReachesMore DEF Acyclic

\* Edges within K do not lie on a path between threads outside K, when no other
\* edge touches K; nor the other way round.
LEMMA ReachesOutside ==
  ASSUME NEW E \in SUBSET (Threads \X Threads), NEW F \in SUBSET (Threads \X Threads),
         NEW K \in SUBSET Threads, \A e \in F : e[1] \in K /\ e[2] \in K,
         \A e \in E : e[1] \notin K /\ e[2] \notin K,
         NEW s \in Threads \ K, NEW t, Reaches(E \cup F, s, t)
  PROVE  Reaches(E, s, t)
<1> SUFFICES ASSUME NEW S \in SUBSET Threads, \A e \in E : e[1] \in S \cup {s} => e[2] \in S
             PROVE  t \in S
  BY DEF Reaches
<1> DEFINE O == S \ K
<1>1. O \in SUBSET Threads /\ \A e \in E \cup F : e[1] \in O \cup {s} => e[2] \in O
  OBVIOUS
<1> HIDE DEF O
<1>2. t \in O
  BY <1>1 DEF Reaches
<1> QED
  BY <1>2 DEF O

LEMMA ReachesInside ==
  ASSUME NEW E \in SUBSET (Threads \X Threads), NEW F \in SUBSET (Threads \X Threads),
         NEW K \in SUBSET Threads, \A e \in F : e[1] \in K /\ e[2] \in K,
         \A e \in E : e[1] \notin K /\ e[2] \notin K,
         NEW s \in K, NEW t, Reaches(E \cup F, s, t)
  PROVE  Reaches(F, s, t)
<1> SUFFICES ASSUME NEW S \in SUBSET Threads, \A e \in F : e[1] \in S \cup {s} => e[2] \in S
             PROVE  t \in S
  BY DEF Reaches
<1> DEFINE O == S \cap K
<1>1. O \in SUBSET Threads /\ \A e \in E \cup F : e[1] \in O \cup {s} => e[2] \in O
  OBVIOUS
<1> HIDE DEF O
<1>2. t \in O
  BY <1>1 DEF Reaches
<1> QED
  BY <1>2 DEF O

LEMMA AcyclicUnion ==
  ASSUME NEW E \in SUBSET (Threads \X Threads), NEW F \in SUBSET (Threads \X Threads),
         NEW K \in SUBSET Threads, \A e \in F : e[1] \in K /\ e[2] \in K,
         \A e \in E : e[1] \notin K /\ e[2] \notin K, Acyclic(E), Acyclic(F)
  PROVE  Acyclic(E \cup F)
BY ReachesInside, ReachesOutside, ZenonT(20) DEF Acyclic

\* An edge from t to d closes no cycle when no path leads from d to t.
LEMMA AcyclicAdd ==
  ASSUME NEW E \in SUBSET (Threads \X Threads), NEW t \in Threads, NEW d \in Threads, t # d,
         Acyclic(E), ~ Reaches(E, d, t)
  PROVE  Acyclic(E \cup {<<t, d>>})
<1> SUFFICES ASSUME NEW u \in Threads
             PROVE  ~ Reaches(E \cup {<<t, d>>}, u, u)
  BY DEF Acyclic
<1>1. PICK D \in SUBSET Threads : (\A e \in E : e[1] \in D \cup {d} => e[2] \in D) /\ t \notin D
  BY DEF Reaches
<1>2. PICK U \in SUBSET Threads : (\A e \in E : e[1] \in U \cup {u} => e[2] \in U) /\ u \notin U
  BY DEF Reaches, Acyclic
<1> DEFINE B == D \cup {d}
<1>3. B \in SUBSET Threads /\ t \notin B /\ d \in B /\ \A e \in E : e[1] \in B => e[2] \in B
  BY <1>1
<1> HIDE DEF B
<1> SUFFICES \E S \in SUBSET Threads :
               /\ \A e \in E \cup {<<t, d>>} : e[1] \in S \cup {u} => e[2] \in S
               /\ u \notin S
  BY DEF Reaches
<1>4. CASE u \in B
  <2>1. /\ U \cap B \in SUBSET Threads
        /\ \A e \in E \cup {<<t, d>>} : e[1] \in (U \cap B) \cup {u} => e[2] \in U \cap B
        /\ u \notin U \cap B
    BY <1>2, <1>3, <1>4, SMTT(30)
  <2> QED
    BY <2>1
<1>5. CASE u \notin B
  <2>1. /\ U \cup B \in SUBSET Threads
        /\ \A e \in E \cup {<<t, d>>} : e[1] \in (U \cup B) \cup {u} => e[2] \in U \cup B
        /\ u \notin U \cup B
    BY <1>2, <1>3, <1>5, SMTT(30)
  <2> QED
    BY <2>1
<1> QED
  BY <1>4, <1>5

-----------------------------------------------------------------------------
(* Steps that leave the transactions alone.                                *)

\* What a step may do to rows another transaction has locked, or has read.
Quiet ==
  /\ UNCHANGED <<lock, closer, amender, plan, amendments>>
  /\ \A t \in Threads : lock[t] # None => state'[t] = state[t] /\ held'[t] = held[t]
  /\ \A t \in Threads : Made(t) <=> Made(t)'
  /\ \A t \in Threads : state[t] = "closed" <=> state'[t] = "closed"
  /\ landed \subseteq landed'

LEMMA LocksTyped ==
  ASSUME PlanTypeOK
  PROVE  /\ \A x \in Closers : closer[x] \in Closures /\ closer[x].closed \subseteq Threads
         /\ \A x \in Amenders : /\ amender[x] \in Amendments /\ amender[x].cancel \subseteq Threads
                                /\ amender[x].add \subseteq Threads
                                /\ amender[x].wires \subseteq Threads \X Threads
         /\ \A x \in Adders : adder[x] \in Additions
         /\ PlanKind \subseteq Threads /\ None \notin Threads /\ None \notin Closers
         /\ None \notin Amenders /\ Closers \cap Amenders = {}
<1>1. /\ \A x \in Closers : closer[x] \in Closures
      /\ \A x \in Amenders : amender[x] \in Amendments
      /\ \A x \in Adders : adder[x] \in Additions
  BY DEF PlanTypeOK
<1>2. \A x \in Closers : closer[x].closed \subseteq Threads
  BY <1>1, ClosureFields
<1>3. \A x \in Amenders : /\ amender[x].cancel \subseteq Threads
                          /\ amender[x].add \subseteq Threads
                          /\ amender[x].wires \subseteq Threads \X Threads
  BY <1>1, AmendmentFields
<1> QED
  BY <1>1, <1>2, <1>3, PlanConstants

LEMMA QuietLocks ==
  ASSUME PlanLocks, Quiet
  PROVE  CloserLocks' /\ AmenderLocks' /\ AddsFresh'
<1>1. CloserLocks'
  BY LocksTyped, SMTT(30) DEF PlanLocks, CloserLocks, Quiet, IsOpen
<1>2. AmenderLocks'
  BY LocksTyped, SMTT(30) DEF PlanLocks, AmenderLocks, Quiet, IsOpen, MayAmend
<1>3. AddsFresh'
  BY LocksTyped DEF PlanLocks, AddsFresh, Quiet
<1> QED
  BY <1>1, <1>2, <1>3

LEMMA QuietChain ==
  ASSUME PlanLocks, Chain, Quiet
  PROVE  Chain'
BY DEF PlanLocks, Chain, Quiet, Behind, IsClosed, HasLanded

LEMMA QuietEdges ==
  ASSUME PlanLocks, Quiet, UNCHANGED <<needs, based, adder>>
  PROVE  EdgesMade'
<1>1. (\A e \in needs : e[1] \in Threads /\ e[2] \in Threads) /\ (\A e \in based : e[1] \in Threads)
  BY DEF PlanLocks, PlanTypeOK
<1>2. \A x \in Amenders : \A e \in amender[x].wires : e[1] \in Threads /\ e[2] \in Threads
  BY LocksTyped DEF PlanLocks
<1> QED
  BY <1>1, <1>2 DEF PlanLocks, EdgesMade, NeedsMade, BasedMade, AddersMade, WiresMade, Quiet

LEMMA PathsKept ==
  ASSUME CycleNeedsRace, ChecksHold, UNCHANGED <<needs, raced, adder>>
  PROVE  CycleNeedsRace' /\ ChecksHold'
BY DEF CycleNeedsRace, ChecksHold, Acyclic, Reaches

LEMMA HeldStep ==
  ASSUME PlanInv, NEW t \in Threads, NEW b \in BOOLEAN, held' = [held EXCEPT ![t] = b],
         lock[t] = None, Made(t),
         UNCHANGED <<state, plan, amendments, needs, block, landed, abandoned, refused,
                     lock, logLock, closer, amender, adder, history>>
  PROVE  PlanInv'
<1>1. PlanTypeOK'
  BY DEF PlanInv, PlanLocks, PlanTypeOK, history
<1>2. Quiet
  BY DEF Quiet, PlanInv, PlanLocks, PlanTypeOK, Made
<1>3. RowsMade'
  BY DEF PlanInv, PlanLocks, PlanTypeOK, RowsMade, Made
<1>4. AllLandedClosesPlan' /\ BasesBlock'
  BY DEF PlanInv, AllLandedClosesPlan, Children, BasesBlock, IsOpen, history
<1> QED
  BY <1>1, <1>2, <1>3, <1>4, QuietLocks, QuietChain, QuietEdges, PathsKept
     DEF PlanInv, PlanLocks, history

LEMMA ReviewStep ==
  ASSUME PlanInv, NEW t \in Threads, StartReview(t)
  PROVE  PlanInv'
<1> USE DEF StartReview, Free
<1>1. PlanTypeOK'
  BY DEF PlanInv, PlanLocks, PlanTypeOK, history
<1>2. Quiet
  BY DEF Quiet, PlanInv, PlanLocks, PlanTypeOK, Made
<1>3. RowsMade'
  BY <1>2, PlanConstants, SMTT(30) DEF PlanInv, PlanLocks, PlanTypeOK, RowsMade, Quiet
<1>4. AllLandedClosesPlan'
  BY <1>2, PlanConstants, SMTT(30) DEF PlanInv, AllLandedClosesPlan, Children, Quiet, history
<1>5. BasesBlock'
  BY DEF PlanInv, PlanLocks, PlanTypeOK, BasesBlock, IsOpen, history
<1> QED
  BY <1>1, <1>2, <1>3, <1>4, <1>5, QuietLocks, QuietChain, QuietEdges, PathsKept
     DEF PlanInv, PlanLocks, history

\* A block is set, or taken away and noted.
LEMMA BlockStep ==
  ASSUME PlanInv, block' \in [Threads -> {"none", "hold", "dag", "person"}],
         cleared' \in SUBSET Threads, released' \in SUBSET Threads,
         cleared \subseteq cleared', released \subseteq released',
         \A t \in Threads : block'[t] # "none" \/ block[t] = "none" \/ t \in cleared' \cup released',
         UNCHANGED <<state, held, plan, amendments, needs, landed, abandoned, refused,
                     lock, logLock, closer, amender, adder, loosened, based, raced>>
  PROVE  PlanInv'
<1>1. PlanTypeOK'
  BY DEF PlanInv, PlanLocks, PlanTypeOK
<1>2. Quiet
  BY DEF Quiet, Made
<1>3. RowsMade'
  BY DEF PlanInv, PlanLocks, RowsMade, Made
<1>4. AllLandedClosesPlan'
  BY DEF PlanInv, AllLandedClosesPlan, Children
<1>5. BasesBlock'
  BY DEF PlanInv, PlanLocks, PlanTypeOK, BasesBlock, IsOpen
<1> QED
  BY <1>1, <1>2, <1>3, <1>4, <1>5, QuietLocks, QuietChain, QuietEdges, PathsKept
     DEF PlanInv, PlanLocks

LEMMA LandedStep ==
  ASSUME PlanInv, NEW t \in Threads, LandedFact(t)
  PROVE  PlanInv'
<1> USE DEF LandedFact
<1>1. PlanTypeOK'
  BY DEF PlanInv, PlanLocks, PlanTypeOK
<1>2. Quiet
  BY DEF Quiet, Made
<1>3. RowsMade'
  BY DEF PlanInv, PlanLocks, RowsMade, Made
<1>4. AllLandedClosesPlan'
  BY PlanConstants, SMTT(30) DEF PlanInv, PlanLocks, PlanTypeOK, AllLandedClosesPlan, Children
<1>5. BasesBlock'
  BY DEF PlanInv, PlanLocks, PlanTypeOK, BasesBlock, IsOpen
<1> QED
  BY <1>1, <1>2, <1>3, <1>4, <1>5, QuietLocks, QuietChain, QuietEdges, PathsKept
     DEF PlanInv, PlanLocks

LEMMA ClaimStep ==
  ASSUME PlanInv, ClaimNext
  PROVE  PlanInv'
<1>1. PICK t \in Threads :
        \/ Claim(t) \/ ClaimById(t) \/ DropClaim(t) \/ StartReview(t)
        \/ SetBlock(t) \/ ClearBlock(t) \/ LandedFact(t) \/ Release(t)
  BY DEF ClaimNext
<1>2. CASE Claim(t) \/ ClaimById(t)
  BY <1>2, HeldStep DEF Claim, ClaimById, Free, Made
<1>3. CASE DropClaim(t)
  <2>1. Made(t)
    BY <1>3 DEF DropClaim, PlanInv, PlanLocks, RowsMade
  <2> QED
    BY <1>3, <2>1, HeldStep DEF DropClaim, Free
<1>4. CASE SetBlock(t)
  <2>1. /\ block' \in [Threads -> {"none", "hold", "dag", "person"}]
        /\ \A u \in Threads : block'[u] # "none" \/ block[u] = "none"
    BY <1>4 DEF SetBlock, PlanInv, PlanLocks, PlanTypeOK
  <2>2. cleared \in SUBSET Threads /\ released \in SUBSET Threads
    BY DEF PlanInv, PlanLocks, PlanTypeOK
  <2> QED
    BY <1>4, <2>1, <2>2, BlockStep DEF SetBlock, history
<1>5. CASE ClearBlock(t)
  <2>1. /\ block' \in [Threads -> {"none", "hold", "dag", "person"}]
        /\ \A u \in Threads : block'[u] # "none" \/ block[u] = "none" \/ u \in cleared' \cup released'
    BY <1>5 DEF ClearBlock, PlanInv, PlanLocks, PlanTypeOK
  <2>2. /\ cleared' \in SUBSET Threads /\ released' \in SUBSET Threads
        /\ cleared \subseteq cleared' /\ released \subseteq released'
    BY <1>5 DEF ClearBlock, PlanInv, PlanLocks, PlanTypeOK
  <2> QED
    BY <1>5, <2>1, <2>2, BlockStep DEF ClearBlock
<1>6. CASE Release(t)
  <2>1. /\ block' \in [Threads -> {"none", "hold", "dag", "person"}]
        /\ \A u \in Threads : block'[u] # "none" \/ block[u] = "none" \/ u \in cleared' \cup released'
    BY <1>6 DEF Release, PlanInv, PlanLocks, PlanTypeOK
  <2>2. /\ cleared' \in SUBSET Threads /\ released' \in SUBSET Threads
        /\ cleared \subseteq cleared' /\ released \subseteq released'
    BY <1>6 DEF Release, Children, PlanInv, PlanLocks, PlanTypeOK
  <2> QED
    BY <1>6, <2>1, <2>2, BlockStep DEF Release
<1> QED
  BY <1>1, <1>2, <1>3, <1>4, <1>5, <1>6, ReviewStep, LandedStep

-----------------------------------------------------------------------------
(* Dependencies added and removed.                                         *)

\* A step that only changes edges and the transactions that add them.
LEMMA EdgesOnly ==
  ASSUME PlanInv, needs' \in SUBSET (Threads \X Threads), adder' \in [Adders -> Additions],
         raced' \in BOOLEAN, EdgesMade', CycleNeedsRace', ChecksHold',
         UNCHANGED <<state, held, plan, amendments, block, landed, abandoned, refused,
                     lock, logLock, closer, amender, loosened, based, cleared, released>>
  PROVE  PlanInv'
<1>1. PlanTypeOK'
  BY DEF PlanInv, PlanLocks, PlanTypeOK
<1>2. Quiet
  BY DEF Quiet, Made
<1>3. RowsMade'
  BY DEF PlanInv, PlanLocks, RowsMade, Made
<1>4. AllLandedClosesPlan' /\ BasesBlock'
  BY DEF PlanInv, AllLandedClosesPlan, Children, BasesBlock, IsOpen
<1> QED
  BY <1>1, <1>2, <1>3, <1>4, QuietLocks, QuietChain DEF PlanInv, PlanLocks

LEMMA CheckStep ==
  ASSUME PlanInv, NEW x \in Adders, NEW t \in Threads, NEW d \in Threads, CheckEdge(x, t, d)
  PROVE  PlanInv'
<1> DEFINE u == Addition("insert", <<t, d>>, FALSE)
<1>1. /\ adder' = [adder EXCEPT ![x] = u] /\ t # d /\ Made(t) /\ Made(d) /\ ~ Reaches(needs, d, t)
      /\ UNCHANGED <<state, held, plan, amendments, needs, block, landed, abandoned, refused,
                     lock, logLock, closer, amender, loosened, based, cleared, released, raced>>
  BY DEF CheckEdge, ClosesCycle, rows, history, Made
<1>2. <<t, d>> \in (Threads \cup {None}) \X (Threads \cup {None})
  OBVIOUS
<1>3. u \in Additions /\ u.edge = <<t, d>>
  BY <1>2, AdditionType
<1> HIDE DEF u
<1>4. /\ adder' \in [Adders -> Additions] /\ adder'[x] = u
      /\ \A y \in Adders \ {x} : adder'[y] = adder[y]
  BY <1>1, <1>3, AdderMoved DEF PlanInv, PlanLocks
<1>5. EdgesMade'
  <2>1. NeedsMade' /\ BasedMade' /\ WiresMade'
    BY <1>1 DEF PlanInv, PlanLocks, EdgesMade, NeedsMade, BasedMade, WiresMade, Made
  <2>2. AddersMade'
    <3>1. adder'[x].edge = <<t, d>> /\ <<t, d>>[1] = t /\ <<t, d>>[2] = d
      BY <1>3, <1>4
    <3>2. Made(t)' /\ Made(d)'
      BY <1>1 DEF Made
    <3>3. ASSUME NEW y \in Adders, y # x, adder'[y].pc # "idle"
          PROVE  /\ adder'[y].edge \in Threads \X Threads /\ adder'[y].edge[1] # adder'[y].edge[2]
                 /\ Made(adder[y].edge[1])' /\ Made(adder[y].edge[2])'
      BY <1>1, <1>4, <3>3 DEF PlanInv, PlanLocks, EdgesMade, AddersMade, Made
    <3>4. ASSUME NEW y \in Adders, y = x
          PROVE  /\ adder'[y].edge \in Threads \X Threads /\ adder'[y].edge[1] # adder'[y].edge[2]
                 /\ Made(adder[y].edge[1])' /\ Made(adder[y].edge[2])'
      BY <1>1, <3>1, <3>2, <3>4, SMTT(30) DEF Made
    <3> QED
      BY <3>3, <3>4 DEF AddersMade
  <2> QED
    BY <2>1, <2>2 DEF EdgesMade
<1>6. ChecksHold'
  <2> SUFFICES ASSUME NEW y \in Adders, adder'[y].pc # "idle", ~ adder'[y].stale, ~ raced
               PROVE  ~ Reaches(needs, adder'[y].edge[2], adder'[y].edge[1])
    BY <1>1 DEF ChecksHold, Reaches
  <2>1. CASE y = x
    BY <1>1, <1>3, <1>4, <2>1, SMTT(30)
  <2>2. CASE y # x
    BY <1>4, <2>2 DEF PlanInv, ChecksHold
  <2> QED
    BY <2>1, <2>2
<1>7. CycleNeedsRace'
  BY <1>1 DEF PlanInv, CycleNeedsRace, Acyclic, Reaches
<1> QED
  BY <1>1, <1>4, <1>5, <1>6, <1>7, EdgesOnly DEF PlanInv, PlanLocks, PlanTypeOK

LEMMA InsertStep ==
  ASSUME PlanInv, NEW x \in Adders, InsertEdge(x)
  PROVE  PlanInv'
<1> DEFINE e == adder[x].edge
<1>1. /\ adder[x].pc = "insert" /\ needs' = needs \cup {e} /\ raced' = (raced \/ adder[x].stale)
      /\ adder' = [y \in Adders |-> IF y = x THEN NoAdd
                                    ELSE Addition(adder[y].pc, adder[y].edge, adder[y].pc = "insert")]
      /\ UNCHANGED <<state, held, plan, amendments, block, landed, abandoned, refused,
                     lock, logLock, closer, amender, loosened, based, cleared, released>>
  BY DEF InsertEdge
<1>2. /\ e \in Threads \X Threads /\ e[1] # e[2] /\ Made(e[1]) /\ Made(e[2])
      /\ e = <<e[1], e[2]>>
  BY <1>1, SMTT(30) DEF PlanInv, PlanLocks, EdgesMade, AddersMade
<1>3. \A y \in Adders : adder'[y] \in Additions
        /\ (adder'[y].pc # "idle" =>
              y # x /\ adder[y].pc # "idle" /\ adder'[y].edge = adder[y].edge /\ adder'[y].stale)
  <2> SUFFICES ASSUME NEW y \in Adders
               PROVE  adder'[y] \in Additions
                        /\ (adder'[y].pc # "idle" =>
                              y # x /\ adder[y].pc # "idle" /\ adder'[y].edge = adder[y].edge
                                /\ adder'[y].stale)
    OBVIOUS
  <2>1. CASE y = x
    BY <1>1, <2>1, IdleRecords
  <2>2. CASE y # x
    <3> DEFINE pc == adder[y].pc
               f == adder[y].edge
               b == (adder[y].pc = "insert")
    <3>1. pc \in {"idle", "insert"} /\ f \in (Threads \cup {None}) \X (Threads \cup {None})
          /\ b \in BOOLEAN
      BY LocksTyped, AdditionFields DEF PlanInv, PlanLocks
    <3>2. adder'[y] = Addition(pc, f, b)
      BY <1>1, <2>2
    <3>3. pc # "idle" => b
      BY <3>1
    <3> HIDE DEF pc, f, b
    <3>4. adder'[y] \in Additions /\ adder'[y].pc = pc /\ adder'[y].edge = f /\ adder'[y].stale = b
      BY <3>1, <3>2, AdditionType, SMTT(30)
    <3> QED
      BY <2>2, <3>3, <3>4 DEF pc, f
  <2> QED
    BY <2>1, <2>2
<1>4. adder' \in [Adders -> Additions]
  BY <1>1, <1>3
<1>5. needs' \in SUBSET (Threads \X Threads) /\ raced' \in BOOLEAN
  BY <1>1, <1>2, LocksTyped, AdditionFields DEF PlanInv, PlanLocks, PlanTypeOK
<1>6. EdgesMade'
  <2>1. NeedsMade'
    BY <1>1, <1>2 DEF PlanInv, PlanLocks, EdgesMade, NeedsMade, Made
  <2>2. BasedMade' /\ WiresMade'
    BY <1>1 DEF PlanInv, PlanLocks, EdgesMade, BasedMade, WiresMade, Made
  <2>3. AddersMade'
    BY <1>1, <1>3, SMTT(30) DEF PlanInv, PlanLocks, EdgesMade, AddersMade, Made
  <2> QED
    BY <2>1, <2>2, <2>3 DEF EdgesMade
<1>7. ChecksHold'
  BY <1>3 DEF ChecksHold
<1>8. CycleNeedsRace'
  <2> SUFFICES ASSUME ~ raced'
               PROVE  Acyclic(needs')
    BY DEF CycleNeedsRace, Acyclic, Reaches
  <2>1. Acyclic(needs) /\ ~ Reaches(needs, e[2], e[1])
    BY <1>1 DEF PlanInv, CycleNeedsRace, ChecksHold
  <2>2. needs \in SUBSET (Threads \X Threads) /\ e[1] \in Threads /\ e[2] \in Threads
    BY <1>2 DEF PlanInv, PlanLocks, PlanTypeOK
  <2> HIDE DEF e
  <2>3. Acyclic(needs \cup {<<e[1], e[2]>>})
    BY <1>2, <2>1, <2>2, AcyclicAdd
  <2> QED
    BY <1>1, <1>2, <2>3
<1> QED
  BY <1>1, <1>4, <1>5, <1>6, <1>7, <1>8, EdgesOnly

LEMMA RollbackAddStep ==
  ASSUME PlanInv, NEW x \in Adders, RollbackAdd(x)
  PROVE  PlanInv'
<1>1. /\ adder' = [adder EXCEPT ![x] = NoAdd]
      /\ UNCHANGED <<state, held, plan, amendments, needs, block, landed, abandoned, refused,
                     lock, logLock, closer, amender, loosened, based, cleared, released, raced>>
  BY DEF RollbackAdd, rows, history
<1>2. /\ adder' \in [Adders -> Additions] /\ adder'[x].pc = "idle"
      /\ \A y \in Adders \ {x} : adder'[y] = adder[y]
  BY <1>1, IdleRecords, AdderMoved DEF PlanInv, PlanLocks
<1>3. EdgesMade'
  BY <1>1, <1>2 DEF PlanInv, PlanLocks, EdgesMade, NeedsMade, BasedMade, AddersMade,
     WiresMade, Made
<1>4. ChecksHold' /\ CycleNeedsRace'
  BY <1>1, <1>2, SMTT(30) DEF PlanInv, ChecksHold, CycleNeedsRace, Acyclic, Reaches
<1> QED
  BY <1>1, <1>2, <1>3, <1>4, EdgesOnly DEF PlanInv, PlanLocks, PlanTypeOK

LEMMA FewerPaths ==
  ASSUME CycleNeedsRace, ChecksHold, needs' \subseteq needs, UNCHANGED <<raced, adder>>
  PROVE  CycleNeedsRace' /\ ChecksHold'
<1>1. CycleNeedsRace'
  BY AcyclicLess DEF CycleNeedsRace, Acyclic, Reaches
<1>2. ChecksHold'
  BY ReachesMore DEF ChecksHold, Reaches
<1> QED
  BY <1>1, <1>2

LEMMA EdgeStep ==
  ASSUME PlanInv, EdgeNext
  PROVE  PlanInv'
<1>1. ASSUME NEW e \in needs, RemoveEdge(e)
      PROVE  PlanInv'
  <2>1. /\ needs' = needs \ {e}
        /\ UNCHANGED <<state, held, plan, amendments, block, landed, abandoned, refused,
                       lock, logLock, closer, amender, adder, loosened, based, cleared,
                       released, raced>>
    BY <1>1 DEF RemoveEdge, history
  <2>2. EdgesMade'
    BY <2>1 DEF PlanInv, PlanLocks, EdgesMade, NeedsMade, BasedMade, AddersMade,
     WiresMade, Made
  <2>3. CycleNeedsRace' /\ ChecksHold'
    BY <2>1, FewerPaths DEF PlanInv
  <2> QED
    BY <2>1, <2>2, <2>3, EdgesOnly DEF PlanInv, PlanLocks, PlanTypeOK
<1> QED
  BY <1>1, CheckStep, InsertStep, RollbackAddStep DEF EdgeNext

-----------------------------------------------------------------------------
(* Closing.                                                                *)

\* The rows and their history stay.
LEMMA RowsKept ==
  ASSUME PlanInv, UNCHANGED <<rows, adder, history>>
  PROVE  /\ RowsMade' /\ NeedsMade' /\ BasedMade' /\ AddersMade'
         /\ AllLandedClosesPlan' /\ BasesBlock' /\ CycleNeedsRace' /\ ChecksHold'
<1> USE DEF rows, history
<1>1. RowsMade' /\ NeedsMade' /\ BasedMade' /\ AddersMade'
  BY DEF PlanInv, PlanLocks, RowsMade, EdgesMade, NeedsMade, BasedMade, AddersMade, Made
<1>2. AllLandedClosesPlan' /\ BasesBlock'
  BY DEF PlanInv, AllLandedClosesPlan, Children, BasesBlock, IsOpen
<1> QED
  BY <1>1, <1>2, PathsKept DEF PlanInv

\* A closing transaction goes on with rows of its own; the amending ones keep
\* theirs.
LEMMA CloserGoesOn ==
  ASSUME PlanInv, NEW x \in Closers, NEW u \in Closures, closer' = [closer EXCEPT ![x] = u],
         lock' \in [Threads -> Closers \cup Amenders \cup {None}],
         logLock' \in Closers \cup Amenders \cup {None},
         \A t \in Threads : lock[t] \notin {x, None} => lock'[t] = lock[t],
         u.pc # "idle" =>
           /\ u.at \in u.closed /\ u.landed \subseteq u.closed
           /\ \A t \in u.closed : lock'[t] = x /\ IsOpen(t)
           /\ \A t \in u.closed \ {u.at} :
                /\ plan[t] \in u.closed
                /\ \A c \in Threads : plan[c] = plan[t] =>
                     (state[c] = "closed" \/ c \in u.closed) /\ c \in landed \cup u.landed,
         UNCHANGED <<rows, amender, adder, history>>
  PROVE  PlanInv'
<1>1. /\ closer' \in [Closers -> Closures] /\ closer'[x] = u
      /\ \A y \in Closers \ {x} : closer'[y] = closer[y]
  BY CloserMoved DEF PlanInv, PlanLocks
<1>2. PlanTypeOK'
  BY <1>1 DEF PlanInv, PlanLocks, PlanTypeOK, rows, history
<1>3. CloserLocks'
  <2> SUFFICES ASSUME NEW y \in Closers, closer'[y].pc # "idle"
               PROVE  /\ closer'[y].at \in closer'[y].closed
                      /\ closer'[y].landed \subseteq closer'[y].closed
                      /\ \A t \in closer'[y].closed : lock'[t] = y /\ IsOpen(t)'
    BY DEF CloserLocks
  <2>1. CASE y = x
    BY <1>1, <2>1 DEF IsOpen, rows
  <2>2. CASE y # x
    BY <1>1, <2>2, LocksTyped, SMTT(30) DEF PlanInv, PlanLocks, CloserLocks, IsOpen, rows
  <2> QED
    BY <2>1, <2>2
<1>4. AmenderLocks'
  BY LocksTyped, SMTT(30) DEF PlanInv, PlanLocks, AmenderLocks, IsOpen, MayAmend, rows
<1>5. AddsFresh' /\ WiresMade'
  BY DEF PlanInv, PlanLocks, AddsFresh, EdgesMade, WiresMade, Made, rows
<1>6. Chain'
  <2> SUFFICES ASSUME NEW y \in Closers, closer'[y].pc # "idle",
                      NEW t \in closer'[y].closed \ {closer'[y].at}
               PROVE  /\ plan[t] \in closer'[y].closed
                      /\ \A c \in Threads : plan[c] = plan[t] =>
                           /\ state[c] = "closed" \/ c \in closer'[y].closed
                           /\ c \in landed \cup closer'[y].landed
    BY DEF Chain, Behind, IsClosed, HasLanded, rows
  <2>1. CASE y = x
    BY <1>1, <2>1
  <2>2. CASE y # x
    BY <1>1, <2>2 DEF PlanInv, Chain, Behind, IsClosed, HasLanded
  <2> QED
    BY <2>1, <2>2
<1> QED
  BY <1>2, <1>3, <1>4, <1>5, <1>6, RowsKept DEF PlanInv, PlanLocks, EdgesMade

LEMMA LocksReleased ==
  ASSUME PlanTypeOK, NEW x \in Closers \cup Amenders, lock' = Released(x), logLock' = LogReleased(x)
  PROVE  /\ lock' \in [Threads -> Closers \cup Amenders \cup {None}]
         /\ logLock' \in Closers \cup Amenders \cup {None}
         /\ \A t \in Threads : lock[t] \notin {x, None} => lock'[t] = lock[t]
BY DEF PlanTypeOK, Released, LogReleased

LEMMA CloseThreadStep ==
  ASSUME PlanInv, NEW x \in Closers, NEW c \in Threads,
         NEW how \in {"land", "hand", "cancel", "abandon"}, CloseThread(x, c, how)
  PROVE  PlanInv'
<1> DEFINE L == IF how = "land" THEN {c} ELSE {}
           A == IF how = "abandon" THEN {c} ELSE {}
           u == Closure("row", c, {c}, L, A)
<1>1. /\ closer' = [closer EXCEPT ![x] = u] /\ IsOpen(c) /\ lock[c] = None
      /\ lock' = [lock EXCEPT ![c] = x] /\ UNCHANGED <<rows, logLock, amender, adder, history>>
  BY DEF CloseThread, Free
<1>2. L \in SUBSET Threads /\ A \in SUBSET Threads /\ L \subseteq {c} /\ {c} \in SUBSET Threads
  OBVIOUS
<1> HIDE DEF L, A
<1>3. u \in Closures /\ u.at = c /\ u.closed = {c} /\ u.landed = L
  BY <1>2, ClosureType, SMTT(30)
<1> HIDE DEF u
<1>4. /\ lock' \in [Threads -> Closers \cup Amenders \cup {None}] /\ lock'[c] = x
      /\ \A t \in Threads : lock[t] \notin {x, None} => lock'[t] = lock[t]
      /\ logLock' \in Closers \cup Amenders \cup {None}
  BY <1>1 DEF PlanInv, PlanLocks, PlanTypeOK
<1>5. /\ u.at \in u.closed /\ u.landed \subseteq u.closed
      /\ \A t \in u.closed : lock'[t] = x /\ IsOpen(t)
  BY <1>1, <1>2, <1>3, <1>4
<1>6. u.closed \ {u.at} = {}
  BY <1>3
<1> QED
  BY <1>1, <1>3, <1>4, <1>5, <1>6, CloserGoesOn

LEMMA AppendStep ==
  ASSUME PlanInv, NEW x \in Closers, AppendChange(x)
  PROVE  PlanInv'
<1> DEFINE u == [closer[x] EXCEPT !.pc = "settle"]
<1>1. closer[x] \in Closures /\ closer[x].pc = "row"
  BY LocksTyped DEF AppendChange, PlanInv, PlanLocks
<1>2. closer' = [closer EXCEPT ![x] = u]
  BY <1>1 DEF AppendChange, PlanInv, PlanLocks, PlanTypeOK
<1>3. /\ u \in Closures /\ u.at = closer[x].at /\ u.closed = closer[x].closed
      /\ u.landed = closer[x].landed
  BY <1>1, ClosureMoves
<1> HIDE DEF u
<1>4. UNCHANGED <<rows, lock, amender, adder, history>> /\ logLock' = x
  BY DEF AppendChange
<1>5. lock' \in [Threads -> Closers \cup Amenders \cup {None}]
  BY <1>4 DEF PlanInv, PlanLocks, PlanTypeOK
<1>6. /\ u.at \in u.closed /\ u.landed \subseteq u.closed
      /\ \A t \in u.closed : lock'[t] = x /\ IsOpen(t)
  BY <1>1, <1>3, <1>4 DEF PlanInv, PlanLocks, CloserLocks
<1>7. \A t \in u.closed \ {u.at} :
        /\ plan[t] \in u.closed
        /\ \A c \in Threads : plan[c] = plan[t] =>
             (state[c] = "closed" \/ c \in u.closed) /\ c \in landed \cup u.landed
  BY <1>1, <1>3 DEF PlanInv, Chain, Behind, IsClosed, HasLanded
<1> QED
  BY <1>2, <1>3, <1>4, <1>5, <1>6, <1>7, CloserGoesOn

LEMMA RollbackCloseStep ==
  ASSUME PlanInv, NEW x \in Closers, RollbackClose(x)
  PROVE  PlanInv'
<1>1. closer' = [closer EXCEPT ![x] = NoClose] /\ lock' = Released(x)
      /\ logLock' = LogReleased(x) /\ UNCHANGED <<rows, amender, adder, history>>
  BY DEF RollbackClose
<1> QED
  BY <1>1, IdleRecords, LocksReleased, CloserGoesOn DEF PlanInv, PlanLocks

LEMMA ClosePlanStep ==
  ASSUME PlanInv, NEW x \in Closers, ClosePlan(x)
  PROVE  PlanInv'
<1> DEFINE t == closer[x]
           p == plan[t.at]
           u == Closure("settle", p, t.closed \cup {p}, t.landed \cup {p}, t.abandon)
<1>1. /\ t.pc = "settle" /\ p # None /\ HasLanded(x, t.at) /\ lock[p] = None /\ Complete(x, p)
      /\ lock' = [lock EXCEPT ![p] = x] /\ closer' = [closer EXCEPT ![x] = u]
      /\ UNCHANGED <<rows, logLock, amender, adder, history>>
  BY DEF ClosePlan, LocksPlan, Free
<1>2. t \in Closures /\ t.at \in t.closed /\ t.landed \subseteq t.closed
      /\ \A s \in t.closed : lock[s] = x /\ IsOpen(s)
  BY <1>1, LocksTyped DEF PlanInv, PlanLocks, CloserLocks
<1>3. t.closed \in SUBSET Threads /\ t.landed \in SUBSET Threads /\ t.abandon \in SUBSET Threads
      /\ t.at \in Threads
  BY <1>2, ClosureFields
<1>4. p \in Threads /\ p \in PlanKind
  BY <1>1, <1>3, PlanConstants DEF PlanInv, PlanLocks, PlanTypeOK
<1>5. t.closed \cup {p} \in SUBSET Threads /\ t.landed \cup {p} \in SUBSET Threads
      /\ p \in Threads \cup {None}
  BY <1>3, <1>4
<1>6. /\ u \in Closures /\ u.at = p /\ u.closed = t.closed \cup {p} /\ u.landed = t.landed \cup {p}
  BY <1>3, <1>5, ClosureType, SMTT(30)
<1>7. \A c \in Threads : plan[c] = p =>
        (state[c] = "closed" \/ c \in u.closed) /\ c \in landed \cup u.landed
  BY <1>1, <1>6 DEF Complete, Children, IsClosed, HasLanded
<1>8. \A s \in t.closed \ {t.at} :
        /\ plan[s] \in u.closed
        /\ \A c \in Threads : plan[c] = plan[s] =>
             (state[c] = "closed" \/ c \in u.closed) /\ c \in landed \cup u.landed
  BY <1>1, <1>6 DEF PlanInv, Chain, Behind, IsClosed, HasLanded
<1>9. IsOpen(p)
  BY <1>1 DEF Complete
<1> HIDE DEF u, p, t
<1>10. /\ lock' \in [Threads -> Closers \cup Amenders \cup {None}] /\ lock'[p] = x
       /\ \A s \in Threads : lock[s] \notin {x, None} => lock'[s] = lock[s]
       /\ \A s \in Threads : lock[s] = x => lock'[s] = x
       /\ logLock' \in Closers \cup Amenders \cup {None}
  BY <1>1, <1>4 DEF PlanInv, PlanLocks, PlanTypeOK
<1>11. /\ u.at \in u.closed /\ u.landed \subseteq u.closed
       /\ \A s \in u.closed : lock'[s] = x /\ IsOpen(s)
  BY <1>2, <1>3, <1>6, <1>9, <1>10
<1>12. \A s \in u.closed \ {u.at} :
        /\ plan[s] \in u.closed
        /\ \A c \in Threads : plan[c] = plan[s] =>
             (state[c] = "closed" \/ c \in u.closed) /\ c \in landed \cup u.landed
  BY <1>6, <1>7, <1>8 DEF p
<1> QED
  BY <1>1, <1>6, <1>10, <1>11, <1>12, CloserGoesOn

\* What a commit makes of the rows.
LEMMA CloseCommitted ==
  ASSUME PlanInv, NEW x \in Closers, closer[x].pc = "settle", CommitClose(x)
  PROVE  LET C == closer[x].closed IN
         /\ C \in SUBSET Threads /\ closer[x].landed \subseteq C /\ closer[x].at \in C
         /\ \A t \in C : lock[t] = x /\ IsOpen(t)
         /\ \A t \in Threads : state'[t] = IF t \in C THEN "closed" ELSE state[t]
         /\ \A t \in Threads : held'[t] = (held[t] /\ t \notin C)
         /\ landed' = landed \cup closer[x].landed
         /\ \A t \in Threads : Made(t) <=> Made(t)'
<1>1. /\ closer[x].closed \in SUBSET Threads /\ closer[x].landed \subseteq closer[x].closed
      /\ closer[x].at \in closer[x].closed
      /\ \A t \in closer[x].closed : lock[t] = x /\ IsOpen(t)
  BY LocksTyped DEF PlanInv, PlanLocks, CloserLocks
<1>2. /\ \A t \in Threads : state'[t] = IF t \in closer[x].closed THEN "closed" ELSE state[t]
      /\ \A t \in Threads : held'[t] = (held[t] /\ t \notin closer[x].closed)
      /\ landed' = landed \cup closer[x].landed
  BY DEF CommitClose
<1>3. \A t \in Threads : Made(t) <=> Made(t)'
  BY <1>1, <1>2 DEF Made, IsOpen
<1> QED
  BY <1>1, <1>2, <1>3

LEMMA CommitCloses ==
  ASSUME PlanInv, NEW x \in Closers, closer[x].pc = "settle", CommitClose(x),
         block' \in [Threads -> {"none", "hold", "dag", "person"}],
         based' \in SUBSET (Threads \X Threads), refused' \in SUBSET PlanKind,
         cleared' \in SUBSET Threads, released' \in SUBSET Threads, UNCHANGED <<loosened, raced>>,
         \A e \in based' : Made(e[1]), AllLandedClosesPlan', BasesBlock'
  PROVE  PlanInv'
<1> DEFINE C == closer[x].closed
<1>1. /\ C \in SUBSET Threads /\ closer[x].landed \subseteq C
      /\ \A t \in C : lock[t] = x /\ IsOpen(t)
      /\ \A t \in Threads : state'[t] = IF t \in C THEN "closed" ELSE state[t]
      /\ \A t \in Threads : held'[t] = (held[t] /\ t \notin C)
      /\ landed' = landed \cup closer[x].landed
      /\ \A t \in Threads : Made(t) <=> Made(t)'
  BY CloseCommitted
<1>2. /\ lock' = Released(x) /\ logLock' = LogReleased(x)
      /\ closer' = [closer EXCEPT ![x] = NoClose]
      /\ UNCHANGED <<plan, amendments, needs, amender, adder>>
  BY DEF CommitClose
<1>3. /\ closer' \in [Closers -> Closures] /\ closer'[x].pc = "idle"
      /\ \A y \in Closers \ {x} : closer'[y] = closer[y]
  BY <1>2, IdleRecords, CloserMoved DEF PlanInv, PlanLocks
<1>4. /\ lock' \in [Threads -> Closers \cup Amenders \cup {None}]
      /\ logLock' \in Closers \cup Amenders \cup {None}
      /\ \A t \in Threads : lock[t] \notin {x, None} => lock'[t] = lock[t]
  BY <1>2, LocksReleased DEF PlanInv, PlanLocks
<1>5. PlanTypeOK'
  <2>1. state' \in [Threads -> {"absent", "open", "in_review", "closed"}]
    BY DEF CommitClose, PlanInv, PlanLocks, PlanTypeOK
  <2>2. held' \in [Threads -> BOOLEAN]
    BY DEF CommitClose, PlanInv, PlanLocks, PlanTypeOK
  <2>3. closer[x].landed \in SUBSET Threads /\ closer[x].abandon \in SUBSET Threads
    BY LocksTyped, ClosureFields DEF PlanInv, PlanLocks
  <2>4. landed' \in SUBSET Threads /\ abandoned' \in SUBSET Threads
    BY <2>3 DEF CommitClose, PlanInv, PlanLocks, PlanTypeOK
  <2> QED
    BY <1>2, <1>3, <1>4, <2>1, <2>2, <2>4 DEF PlanInv, PlanLocks, PlanTypeOK
<1> HIDE DEF C
<1>6. CloserLocks'
  BY <1>1, <1>3, <1>4, LocksTyped, SMTT(30) DEF PlanInv, PlanLocks, CloserLocks, IsOpen
<1>7. AmenderLocks'
  <2> SUFFICES ASSUME NEW y \in Amenders, amender[y].pc # "idle"
               PROVE  /\ amender[y].plan \in PlanKind /\ lock'[amender[y].plan] = y
                      /\ held'[amender[y].plan] /\ amendments[amender[y].plan] \in 0 .. MaxAmendments - 1
                      /\ amender[y].plan \notin amender[y].cancel
                      /\ \A c \in amender[y].cancel : plan[c] = amender[y].plan
                      /\ amender[y].pc # "row" =>
                           \A c \in amender[y].cancel : lock'[c] = y /\ IsOpen(c)'
    BY <1>2, ZenonT(20) DEF AmenderLocks, MayAmend
  <2>1. y # x /\ y # None
    BY LocksTyped DEF PlanInv, PlanLocks
  <2>2. \A t \in Threads : lock[t] = y =>
          lock'[t] = y /\ state'[t] = state[t] /\ held'[t] = held[t]
    BY <1>1, <1>4, <2>1, SMTT(30) DEF PlanInv, PlanLocks, PlanTypeOK
  <2>3. amender[y].cancel \subseteq Threads /\ PlanKind \subseteq Threads
    BY LocksTyped DEF PlanInv, PlanLocks
  <2> QED
    BY <2>2, <2>3 DEF PlanInv, PlanLocks, AmenderLocks, MayAmend, IsOpen
<1>8. AddsFresh'
  BY <1>1, <1>2, LocksTyped DEF PlanInv, PlanLocks, AddsFresh
<1>9. RowsMade'
  BY <1>1, <1>2, PlanConstants DEF PlanInv, PlanLocks, PlanTypeOK, RowsMade
<1>10. EdgesMade'
  <2>1. /\ \A e \in needs : e[1] \in Threads /\ e[2] \in Threads
        /\ \A e \in based' : e[1] \in Threads
        /\ \A y \in Amenders : \A e \in amender[y].wires : e[1] \in Threads /\ e[2] \in Threads
    BY LocksTyped, SMTT(30) DEF PlanInv, PlanLocks, PlanTypeOK
  <2>2. NeedsMade' /\ BasedMade' /\ WiresMade'
    BY <1>1, <1>2, <2>1 DEF PlanInv, PlanLocks, EdgesMade, NeedsMade, BasedMade, WiresMade
  <2>3. AddersMade'
    BY <1>1, <1>2 DEF PlanInv, PlanLocks, EdgesMade, AddersMade
  <2> QED
    BY <2>2, <2>3 DEF EdgesMade
<1>11. Chain'
  <2> SUFFICES ASSUME NEW y \in Closers, closer'[y].pc # "idle",
                      NEW t \in closer'[y].closed \ {closer'[y].at}
               PROVE  plan'[t] \in closer'[y].closed /\ Behind(y, plan[t])'
    BY DEF Chain
  <2>1. y # x /\ closer'[y] = closer[y]
    BY <1>3
  <2>2. plan[t] \in closer[y].closed /\ Behind(y, plan[t])
    BY <2>1 DEF PlanInv, Chain
  <2> QED
    BY <1>1, <1>2, <2>1, <2>2 DEF Behind, IsClosed, HasLanded
<1> QED
  BY <1>2, <1>5, <1>6, <1>7, <1>8, <1>9, <1>10, <1>11, PathsKept DEF PlanInv, PlanLocks

\* A plan that a commit leaves open has a child that has not landed, or was told.
LEMMA LastChild ==
  ASSUME PlanInv, NEW x \in Closers, closer[x].pc = "settle", CommitClose(x),
         refused \subseteq refused', UNCHANGED loosened,
         plan[closer[x].at] \in PlanKind =>
           \/ plan[closer[x].at] \in refused'
           \/ ~ IsOpen(plan[closer[x].at])
           \/ \E c \in Children(plan[closer[x].at]) : ~ (IsClosed(x, c) /\ HasLanded(x, c))
  PROVE  AllLandedClosesPlan'
<1> DEFINE C == closer[x].closed
<1>1. /\ C \in SUBSET Threads /\ closer[x].landed \subseteq C /\ closer[x].at \in C
      /\ \A t \in Threads : state'[t] = IF t \in C THEN "closed" ELSE state[t]
      /\ landed' = landed \cup closer[x].landed
  BY CloseCommitted
<1>2. UNCHANGED plan
  BY DEF CommitClose
<1> SUFFICES ASSUME NEW p \in PlanKind, p \notin refused', p \notin loosened, Children(p) # {},
                    \A c \in Children(p) : state'[c] = "closed" /\ c \in landed'
             PROVE  state'[p] = "closed"
  BY <1>2 DEF AllLandedClosesPlan, Children
<1>3. \A c \in Children(p) : IsClosed(x, c) /\ HasLanded(x, c)
  BY <1>1 DEF Children, IsClosed, HasLanded
<1>4. p \in Threads
  BY PlanConstants
<1>5. CASE p = plan[closer[x].at]
  <2>1. ~ IsOpen(p) /\ Made(p)
    BY <1>1, <1>3, <1>5, PlanConstants DEF PlanInv, PlanLocks, RowsMade
  <2>2. state[p] = "closed"
    BY <1>4, <2>1 DEF IsOpen, Made, PlanInv, PlanLocks, PlanTypeOK
  <2> QED
    BY <1>1, <1>4, <2>2
<1>6. CASE p # plan[closer[x].at]
  <2>1. CASE \E c \in Children(p) : c \in C
    <3>1. PICK c \in Children(p) : c \in C
      BY <2>1
    <3>2. p \in C
      BY <1>6, <3>1 DEF PlanInv, Chain, Children
    <3> QED
      BY <1>1, <1>4, <3>2
  <2>2. CASE \A c \in Children(p) : c \notin C
    <3>1. \A c \in Children(p) : state[c] = "closed" /\ c \in landed
      BY <1>1, <2>2 DEF Children
    <3>2. state[p] = "closed"
      BY <3>1 DEF PlanInv, AllLandedClosesPlan
    <3> QED
      BY <1>1, <1>4, <3>2, SMTT(30)
  <2> QED
    BY <2>1, <2>2
<1> QED
  BY <1>5, <1>6

LEMMA SettleStep ==
  ASSUME PlanInv, NEW x \in Closers, SettleOutside(x) \/ SettleLanded(x) \/ RefusePlan(x)
  PROVE  PlanInv'
<1> DEFINE p == plan[closer[x].at]
<1>1. closer[x].pc = "settle" /\ CommitClose(x) /\ UNCHANGED <<block, history>>
  BY DEF SettleOutside, SettleLanded, RefusePlan
<1>2. closer[x].at \in Threads
  BY <1>1, CloseCommitted, SMTT(30)
<1>3. /\ refused \subseteq refused' /\ refused' \in SUBSET PlanKind
      /\ p \in PlanKind =>
           \/ p \in refused'
           \/ ~ IsOpen(p)
           \/ \E c \in Children(p) : ~ (IsClosed(x, c) /\ HasLanded(x, c))
  <2>1. p \in PlanKind \cup {None} /\ refused \in SUBSET PlanKind /\ None \notin PlanKind
    BY <1>2, PlanConstants DEF PlanInv, PlanLocks, PlanTypeOK
  <2>2. CASE SettleOutside(x)
    BY <2>1, <2>2 DEF SettleOutside
  <2>3. CASE SettleLanded(x)
    BY <2>1, <2>3 DEF SettleLanded, Complete
  <2>4. CASE RefusePlan(x)
    BY <2>1, <2>4 DEF RefusePlan
  <2> QED
    BY <2>2, <2>3, <2>4
<1>4. AllLandedClosesPlan'
  BY <1>1, <1>3, LastChild DEF history
<1>5. BasesBlock'
  <2>1. /\ \A t \in Threads : IsOpen(t)' => IsOpen(t)
        /\ landed \subseteq landed'
    BY <1>1, CloseCommitted DEF IsOpen
  <2>2. \A e \in based : e[1] \in Threads
    BY DEF PlanInv, PlanLocks, PlanTypeOK
  <2> QED
    BY <1>1, <2>1, <2>2 DEF PlanInv, BasesBlock, history
<1>6. \A e \in based' : Made(e[1])
  BY <1>1 DEF PlanInv, PlanLocks, EdgesMade, BasedMade, history
<1>7. /\ block' \in [Threads -> {"none", "hold", "dag", "person"}]
      /\ based' \in SUBSET (Threads \X Threads)
      /\ cleared' \in SUBSET Threads /\ released' \in SUBSET Threads /\ UNCHANGED <<loosened, raced>>
  BY <1>1 DEF PlanInv, PlanLocks, PlanTypeOK, history
<1> QED
  BY <1>1, <1>3, <1>4, <1>5, <1>6, <1>7, CommitCloses

LEMMA UnlandedStep ==
  ASSUME PlanInv, NEW x \in Closers, SettleUnlanded(x)
  PROVE  PlanInv'
<1> DEFINE c == closer[x].at
           D == Dependents(c)
           N == {u \in Threads : <<u, c>> \in needs}
<1>1. /\ closer[x].pc = "settle" /\ CommitClose(x) /\ plan[c] # None /\ ~ HasLanded(x, c)
      /\ block' = [t \in Threads |-> IF t \in D /\ block[t] = "none" THEN "dag" ELSE block[t]]
      /\ based' = based \cup {<<t, c>> : t \in D}
      /\ cleared' = cleared \ N /\ released' = released \ N
      /\ UNCHANGED <<refused, loosened, raced>>
  BY DEF SettleUnlanded, Dependents
<1>2. c \in Threads /\ D \in SUBSET Threads /\ \A t \in D : IsOpen(t)
  BY <1>1, CloseCommitted DEF Dependents
<1>3. \A t \in N : IsOpen(t) => t \in D
  BY DEF Dependents
<1>4. c \in Children(plan[c])
  BY <1>2 DEF Children
<1>5. AllLandedClosesPlan'
  BY <1>1, <1>4, LastChild
<1> HIDE DEF D, N, c
<1>6. /\ block' \in [Threads -> {"none", "hold", "dag", "person"}]
      /\ cleared' \in SUBSET Threads /\ released' \in SUBSET Threads
  BY <1>1 DEF PlanInv, PlanLocks, PlanTypeOK
<1>7. based' \in SUBSET (Threads \X Threads) /\ refused' \in SUBSET PlanKind
  BY <1>1, <1>2, SMTT(30) DEF PlanInv, PlanLocks, PlanTypeOK
<1>8. \A e \in based' : e \in based \/ (e[1] \in D /\ e[1] \in Threads)
  BY <1>1, <1>2, SMTT(30)
<1>9. \A e \in based' : Made(e[1])
  BY <1>2, <1>8 DEF PlanInv, PlanLocks, EdgesMade, BasedMade, Made, IsOpen
<1>10. BasesBlock'
  <2>1. /\ \A t \in Threads : IsOpen(t)' => IsOpen(t)
        /\ landed \subseteq landed'
    BY <1>1, CloseCommitted DEF IsOpen
  <2>2. \A t \in D : block'[t] # "none"
    BY <1>1, <1>2 DEF PlanInv, PlanLocks, PlanTypeOK
  <2>3. \A t \in Threads : block[t] # "none" => block'[t] # "none"
    BY <1>1
  <2> SUFFICES ASSUME NEW e \in based', IsOpen(e[1])', e[2] \notin landed'
               PROVE  block'[e[1]] # "none" \/ e[1] \in cleared' \cup released'
    BY DEF BasesBlock
  <2>4. CASE e[1] \in D
    BY <2>2, <2>4
  <2>5. CASE e[1] \notin D
    <3>1. e \in based /\ e[1] \in Threads
      BY <1>7, <1>8, <2>5
    <3>2. IsOpen(e[1]) /\ e[2] \notin landed
      BY <2>1, <3>1
    <3>3. block[e[1]] # "none" \/ e[1] \in cleared \cup released
      BY <3>1, <3>2 DEF PlanInv, BasesBlock
    <3>4. e[1] \notin N
      BY <1>3, <2>5, <3>2
    <3> QED
      BY <1>1, <2>3, <3>1, <3>3, <3>4
  <2> QED
    BY <2>4, <2>5
<1> QED
  BY <1>1, <1>5, <1>6, <1>7, <1>9, <1>10, CommitCloses

LEMMA CloseStep ==
  ASSUME PlanInv, CloseNext
  PROVE  PlanInv'
BY CloseThreadStep, AppendStep, SettleStep, ClosePlanStep, UnlandedStep, RollbackCloseStep
   DEF CloseNext

-----------------------------------------------------------------------------
(* Amending.                                                               *)

LEMMA AmenderGoesOn ==
  ASSUME PlanInv, NEW x \in Amenders, NEW u \in Amendments,
         amender' = [amender EXCEPT ![x] = u],
         lock' \in [Threads -> Closers \cup Amenders \cup {None}],
         logLock' \in Closers \cup Amenders \cup {None},
         \A t \in Threads : lock[t] \notin {x, None} => lock'[t] = lock[t],
         u.pc # "idle" =>
           /\ u.plan \in PlanKind /\ lock'[u.plan] = x /\ held[u.plan] /\ MayAmend(u.plan)
           /\ u.plan \notin u.cancel /\ \A c \in u.cancel : plan[c] = u.plan
           /\ u.pc # "row" => \A c \in u.cancel : lock'[c] = x /\ IsOpen(c),
         \A c \in u.add : ~ Made(c) /\ \A y \in Amenders \ {x} : c \notin amender[y].add,
         \A e \in u.wires : (Made(e[1]) \/ e[1] \in u.add) /\ (Made(e[2]) \/ e[2] \in u.add),
         UNCHANGED <<rows, closer, adder, history>>
  PROVE  PlanInv'
<1>1. /\ amender' \in [Amenders -> Amendments] /\ amender'[x] = u
      /\ \A y \in Amenders \ {x} : amender'[y] = amender[y]
  BY AmenderMoved DEF PlanInv, PlanLocks
<1>2. PlanTypeOK'
  BY <1>1 DEF PlanInv, PlanLocks, PlanTypeOK, rows, history
<1>3. CloserLocks'
  BY LocksTyped, SMTT(30) DEF PlanInv, PlanLocks, CloserLocks, IsOpen, rows
<1>4. AmenderLocks'
  <2> SUFFICES ASSUME NEW y \in Amenders, amender'[y].pc # "idle"
               PROVE  /\ amender'[y].plan \in PlanKind /\ lock'[amender'[y].plan] = y
                      /\ held[amender'[y].plan] /\ MayAmend(amender'[y].plan)
                      /\ amender'[y].plan \notin amender'[y].cancel
                      /\ \A c \in amender'[y].cancel : plan[c] = amender'[y].plan
                      /\ amender'[y].pc # "row" =>
                           \A c \in amender'[y].cancel : lock'[c] = y /\ IsOpen(c)
    BY SMTT(30) DEF AmenderLocks, MayAmend, IsOpen, rows
  <2>1. CASE y = x
    BY <1>1, <2>1
  <2>2. CASE y # x
    <3>1. amender'[y] = amender[y] /\ y # None
      BY <1>1, <2>2, LocksTyped DEF PlanInv, PlanLocks
    <3>2. \A t \in Threads : lock[t] = y => lock'[t] = y
      BY <2>2, <3>1
    <3>3. amender[y].cancel \subseteq Threads /\ PlanKind \subseteq Threads
      BY LocksTyped DEF PlanInv, PlanLocks
    <3> QED
      BY <3>1, <3>2, <3>3, SMTT(30) DEF PlanInv, PlanLocks, AmenderLocks
  <2> QED
    BY <2>1, <2>2
<1>5. AddsFresh'
  BY <1>1, SMTT(30) DEF PlanInv, PlanLocks, AddsFresh, Made, rows
<1>6. WiresMade'
  BY <1>1, SMTT(30) DEF PlanInv, PlanLocks, EdgesMade, WiresMade, Made, rows
<1>7. Chain'
  BY DEF PlanInv, Chain, Behind, IsClosed, HasLanded, rows
<1> QED
  BY <1>2, <1>3, <1>4, <1>5, <1>6, <1>7, RowsKept DEF PlanInv, PlanLocks, EdgesMade

\* What an amending transaction has in hand.
LEMMA AmenderAt ==
  ASSUME PlanInv, NEW x \in Amenders
  PROVE  /\ amender[x] \in Amendments
         /\ amender[x].pc # "idle" =>
              /\ amender[x].plan \in PlanKind /\ lock[amender[x].plan] = x
              /\ held[amender[x].plan] /\ MayAmend(amender[x].plan)
              /\ amender[x].plan \notin amender[x].cancel
              /\ \A c \in amender[x].cancel : plan[c] = amender[x].plan
              /\ amender[x].pc # "row" => \A c \in amender[x].cancel : lock[c] = x /\ IsOpen(c)
         /\ \A c \in amender[x].add :
              ~ Made(c) /\ \A y \in Amenders \ {x} : c \notin amender[y].add
         /\ \A e \in amender[x].wires : /\ Made(e[1]) \/ e[1] \in amender[x].add
                                        /\ Made(e[2]) \/ e[2] \in amender[x].add
<1>1. amender[x] \in Amendments
  BY LocksTyped DEF PlanInv, PlanLocks
<1>2. \A c \in amender[x].add :
        ~ Made(c) /\ \A y \in Amenders \ {x} : c \notin amender[y].add
  BY DEF PlanInv, PlanLocks, AddsFresh
<1> QED
  BY <1>1, <1>2 DEF PlanInv, PlanLocks, AmenderLocks, EdgesMade, WiresMade

LEMMA BeginStep ==
  ASSUME PlanInv, NEW x \in Amenders, NEW p \in Threads, NEW cancel \in SUBSET Threads,
         NEW add \in SUBSET Threads, NEW rewire \in SUBSET Threads,
         NEW wires \in SUBSET (Threads \X Threads), NEW hold \in BOOLEAN,
         BeginAmend(x, p, cancel, add, rewire, wires, hold)
  PROVE  PlanInv'
<1> DEFINE kept == Children(p) \ cancel
           inner == {e \in needs : e[1] \in Children(p) /\ e[2] \in Children(p)}
           orphaned == {e[1] : e \in {f \in inner : f[2] \in cancel}} \ (cancel \cup rewire)
           stay == {e \in inner : e[1] \in kept \ rewire /\ e[2] \in kept}
           W == rewire \cup orphaned
           E == wires \cup {e \in stay : e[1] \in orphaned}
           h == hold \/ \E c \in Children(p) : block[c] = "hold"
           u == Amendment("row", p, cancel, add, W, E, h)
<1>1. /\ p \in PlanKind /\ held[p] /\ lock[p] = None /\ MayAmend(p)
      /\ cancel \subseteq Unclaimed(p) /\ rewire \subseteq Unclaimed(p) /\ Unused(add)
      /\ wires \subseteq (add \cup rewire) \X (kept \cup add)
      /\ lock' = [lock EXCEPT ![p] = x] /\ amender' = [amender EXCEPT ![x] = u]
      /\ UNCHANGED <<rows, logLock, closer, adder, history>>
  BY DEF BeginAmend, Free
<1>2. needs \in SUBSET (Threads \X Threads) /\ \A e \in needs : Made(e[1]) /\ Made(e[2])
  BY DEF PlanInv, PlanLocks, PlanTypeOK, EdgesMade, NeedsMade
<1>3. \A c \in Children(p) : c \in Threads /\ plan[c] = p /\ Made(c)
  BY <1>1, PlanConstants DEF Children, PlanInv, PlanLocks, RowsMade
<1>4. W \in SUBSET Threads /\ E \in SUBSET (Threads \X Threads) /\ h \in BOOLEAN
  BY <1>2
<1>5. \A e \in E : (Made(e[1]) \/ e[1] \in add) /\ (Made(e[2]) \/ e[2] \in add)
  BY <1>1, <1>2, <1>3 DEF Unclaimed
<1> HIDE DEF W, E, h
<1>6. /\ u \in Amendments /\ u.pc = "row" /\ u.plan = p /\ u.cancel = cancel /\ u.add = add
      /\ u.wires = E
  BY <1>1, <1>4, AmendmentType, SMTT(30)
<1> HIDE DEF u
<1>7. /\ lock' \in [Threads -> Closers \cup Amenders \cup {None}] /\ lock'[p] = x
      /\ \A t \in Threads : lock[t] \notin {x, None} => lock'[t] = lock[t]
      /\ logLock' \in Closers \cup Amenders \cup {None}
  BY <1>1 DEF PlanInv, PlanLocks, PlanTypeOK
<1>8. p \notin cancel /\ \A c \in cancel : plan[c] = p
  BY <1>1 DEF Unclaimed, Children
<1>9. \A c \in add : ~ Made(c) /\ \A y \in Amenders \ {x} : c \notin amender[y].add
  BY <1>1 DEF Unused, Made
<1> QED
  BY <1>1, <1>5, <1>6, <1>7, <1>8, <1>9, AmenderGoesOn

LEMMA LockCancelledStep ==
  ASSUME PlanInv, NEW x \in Amenders, LockCancelled(x)
  PROVE  PlanInv'
<1> DEFINE a == amender[x]
           u == [a EXCEPT !.pc = "log"]
<1>1. /\ a.pc = "row" /\ (\A c \in a.cancel : lock[c] = None /\ IsOpen(c))
      /\ lock' = [t \in Threads |-> IF t \in a.cancel THEN x ELSE lock[t]]
      /\ UNCHANGED <<rows, logLock, closer, adder, history>>
  BY DEF LockCancelled, Free
<1>2. amender' = [amender EXCEPT ![x] = u]
  BY DEF LockCancelled, PlanInv, PlanLocks, PlanTypeOK
<1>3. /\ u \in Amendments /\ u.pc = "log" /\ u.plan = a.plan /\ u.cancel = a.cancel
      /\ u.add = a.add /\ u.wires = a.wires
  BY AmenderAt, AmendmentMoves
<1> HIDE DEF u
<1>4. /\ lock' \in [Threads -> Closers \cup Amenders \cup {None}]
      /\ \A t \in Threads : lock[t] \notin {x, None} => lock'[t] = lock[t]
      /\ \A t \in Threads : lock[t] = x => lock'[t] = x
      /\ logLock' \in Closers \cup Amenders \cup {None}
  BY <1>1 DEF PlanInv, PlanLocks, PlanTypeOK
<1>5. \A c \in a.cancel : lock'[c] = x
  BY <1>1, LocksTyped DEF PlanInv, PlanLocks
<1>6. a.plan \in Threads
  BY <1>1, AmenderAt, PlanConstants
<1>7. /\ u.plan \in PlanKind /\ lock'[u.plan] = x /\ held[u.plan] /\ MayAmend(u.plan)
      /\ u.plan \notin u.cancel /\ \A c \in u.cancel : plan[c] = u.plan
      /\ \A c \in u.cancel : lock'[c] = x /\ IsOpen(c)
  BY <1>1, <1>3, <1>4, <1>5, <1>6, AmenderAt, SMTT(30)
<1>8. /\ \A c \in u.add : ~ Made(c) /\ \A y \in Amenders \ {x} : c \notin amender[y].add
      /\ \A e \in u.wires : (Made(e[1]) \/ e[1] \in u.add) /\ (Made(e[2]) \/ e[2] \in u.add)
  BY <1>3, AmenderAt
<1> QED
  BY <1>1, <1>2, <1>3, <1>4, <1>7, <1>8, AmenderGoesOn

LEMMA AppendAmendStep ==
  ASSUME PlanInv, NEW x \in Amenders, AppendAmend(x)
  PROVE  PlanInv'
<1> DEFINE a == amender[x]
           u == [a EXCEPT !.pc = "wire"]
<1>1. a.pc = "log" /\ UNCHANGED <<rows, lock, closer, adder, history>> /\ logLock' \in {logLock, x}
  BY DEF AppendAmend
<1>2. amender' = [amender EXCEPT ![x] = u]
  BY DEF AppendAmend, PlanInv, PlanLocks, PlanTypeOK
<1>3. /\ u \in Amendments /\ u.pc = "wire" /\ u.plan = a.plan /\ u.cancel = a.cancel
      /\ u.add = a.add /\ u.wires = a.wires
  BY AmenderAt, AmendmentMoves
<1> HIDE DEF u
<1>4. /\ lock' \in [Threads -> Closers \cup Amenders \cup {None}]
      /\ logLock' \in Closers \cup Amenders \cup {None}
  BY <1>1 DEF PlanInv, PlanLocks, PlanTypeOK
<1>5. /\ u.plan \in PlanKind /\ lock'[u.plan] = x /\ held[u.plan] /\ MayAmend(u.plan)
      /\ u.plan \notin u.cancel /\ \A c \in u.cancel : plan[c] = u.plan
      /\ \A c \in u.cancel : lock'[c] = x /\ IsOpen(c)
  BY <1>1, <1>3, AmenderAt, SMTT(30)
<1>6. /\ \A c \in u.add : ~ Made(c) /\ \A y \in Amenders \ {x} : c \notin amender[y].add
      /\ \A e \in u.wires : (Made(e[1]) \/ e[1] \in u.add) /\ (Made(e[2]) \/ e[2] \in u.add)
  BY <1>3, AmenderAt
<1> QED
  BY <1>1, <1>2, <1>3, <1>4, <1>5, <1>6, AmenderGoesOn

LEMMA RollbackAmendStep ==
  ASSUME PlanInv, NEW x \in Amenders, RollbackAmend(x)
  PROVE  PlanInv'
<1>1. amender' = [amender EXCEPT ![x] = NoAmend] /\ lock' = Released(x)
      /\ logLock' = LogReleased(x) /\ UNCHANGED <<rows, closer, adder, history>>
  BY DEF RollbackAmend
<1>2. /\ lock' \in [Threads -> Closers \cup Amenders \cup {None}]
      /\ logLock' \in Closers \cup Amenders \cup {None}
      /\ \A t \in Threads : lock[t] \notin {x, None} => lock'[t] = lock[t]
  BY <1>1, LocksReleased DEF PlanInv, PlanLocks
<1> QED
  BY <1>1, <1>2, IdleRecords, AmenderGoesOn

\* What the commit of an amendment makes of the rows.
LEMMA AmendCommitted ==
  ASSUME PlanInv, NEW x \in Amenders, CommitAmend(x)
  PROVE  LET a == amender[x] IN
         /\ a.plan \in PlanKind /\ a.plan \in Threads /\ a.plan # None /\ lock[a.plan] = x
         /\ held[a.plan] /\ MayAmend(a.plan) /\ a.plan \notin a.cancel /\ Made(a.plan)
         /\ a.cancel \in SUBSET Threads /\ a.add \in SUBSET Threads
         /\ a.wires \in SUBSET (Threads \X Threads) /\ a.hold \in BOOLEAN
         /\ \A c \in a.cancel : plan[c] = a.plan /\ lock[c] = x /\ IsOpen(c)
         /\ \A c \in a.add : ~ Made(c) /\ plan[c] = None /\ ~ held[c]
         /\ \A t \in Threads : state'[t] = IF t \in a.cancel THEN "closed"
                                           ELSE IF t \in a.add THEN "open" ELSE state[t]
         /\ \A t \in Threads : held'[t] = (held[t] /\ t \notin a.cancel)
         /\ \A t \in Threads : plan'[t] = IF t \in a.cancel THEN None
                                          ELSE IF t \in a.add THEN a.plan ELSE plan[t]
         /\ \A t \in Threads : Made(t)' <=> Made(t) \/ t \in a.add
<1> DEFINE a == amender[x]
<1>1. a.pc = "wire" /\ a \in Amendments
  BY AmenderAt DEF CommitAmend
<1>2. /\ a.plan \in PlanKind /\ lock[a.plan] = x /\ held[a.plan] /\ MayAmend(a.plan)
      /\ a.plan \notin a.cancel
      /\ \A c \in a.cancel : plan[c] = a.plan /\ lock[c] = x /\ IsOpen(c)
      /\ \A c \in a.add : ~ Made(c)
  BY <1>1, AmenderAt
<1>3. /\ a.cancel \in SUBSET Threads /\ a.add \in SUBSET Threads
      /\ a.wires \in SUBSET (Threads \X Threads) /\ a.hold \in BOOLEAN
  BY <1>1, AmendmentFields
<1>4. a.plan \in Threads /\ a.plan # None
  BY <1>2, PlanConstants
<1>5. Made(a.plan) /\ \A c \in a.add : plan[c] = None /\ ~ held[c]
  BY <1>2, <1>3, <1>4 DEF PlanInv, PlanLocks, RowsMade
<1>6. /\ \A t \in Threads : state'[t] = IF t \in a.cancel THEN "closed"
                                        ELSE IF t \in a.add THEN "open" ELSE state[t]
      /\ \A t \in Threads : held'[t] = (held[t] /\ t \notin a.cancel)
      /\ \A t \in Threads : plan'[t] = IF t \in a.cancel THEN None
                                       ELSE IF t \in a.add THEN a.plan ELSE plan[t]
  BY DEF CommitAmend
<1>7. \A t \in Threads : Made(t)' <=> Made(t) \/ t \in a.add
  BY <1>2, <1>6 DEF Made, IsOpen
<1> QED
  BY <1>2, <1>3, <1>4, <1>5, <1>6, <1>7

LEMMA CommitAmendTyped ==
  ASSUME PlanInv, NEW x \in Amenders, CommitAmend(x)
  PROVE  PlanTypeOK'
<1> DEFINE a == amender[x]
<1>1. /\ a.plan \in PlanKind /\ a.plan \in Threads /\ MayAmend(a.plan)
      /\ a.cancel \in SUBSET Threads /\ a.add \in SUBSET Threads
      /\ a.wires \in SUBSET (Threads \X Threads)
  BY AmendCommitted
<1>2. state' \in [Threads -> {"absent", "open", "in_review", "closed"}]
  BY DEF CommitAmend, PlanInv, PlanLocks, PlanTypeOK
<1>3. held' \in [Threads -> BOOLEAN]
  BY DEF CommitAmend, PlanInv, PlanLocks, PlanTypeOK
<1>4. plan' \in [Threads -> PlanKind \cup {None}]
  BY <1>1 DEF CommitAmend, PlanInv, PlanLocks, PlanTypeOK
<1>5. amendments' \in [Threads -> -1 .. MaxAmendments]
  BY <1>1, PlanConstants, SMTT(30) DEF CommitAmend, PlanInv, PlanLocks, PlanTypeOK, MayAmend
<1>6. needs' \in SUBSET (Threads \X Threads)
  BY <1>1 DEF CommitAmend, PlanInv, PlanLocks, PlanTypeOK
<1>7. block' \in [Threads -> {"none", "hold", "dag", "person"}]
  BY DEF CommitAmend, PlanInv, PlanLocks, PlanTypeOK
<1>8. loosened' \in SUBSET PlanKind
  BY <1>1 DEF CommitAmend, PlanInv, PlanLocks, PlanTypeOK
<1>9. amender' \in [Amenders -> Amendments]
  BY IdleRecords, AmenderMoved DEF CommitAmend, PlanInv, PlanLocks
<1>10. /\ lock' \in [Threads -> Closers \cup Amenders \cup {None}]
       /\ logLock' \in Closers \cup Amenders \cup {None}
  BY LocksReleased DEF CommitAmend, PlanInv, PlanLocks
<1>11. raced' \in BOOLEAN
  BY DEF CommitAmend
<1>12. UNCHANGED <<landed, abandoned, refused, closer, adder, based, cleared, released>>
  BY DEF CommitAmend
<1> QED
  BY <1>2, <1>3, <1>4, <1>5, <1>6, <1>7, <1>8, <1>9, <1>10, <1>11, <1>12
     DEF PlanInv, PlanLocks, PlanTypeOK

LEMMA CommitAmendLocks ==
  ASSUME PlanInv, NEW x \in Amenders, CommitAmend(x)
  PROVE  CloserLocks' /\ AmenderLocks' /\ AddsFresh' /\ Chain'
<1> DEFINE a == amender[x]
<1>1. /\ a.plan \in Threads /\ a.plan # None /\ lock[a.plan] = x
      /\ a.cancel \in SUBSET Threads /\ a.add \in SUBSET Threads
      /\ \A c \in a.cancel : plan[c] = a.plan /\ lock[c] = x /\ IsOpen(c)
      /\ \A c \in a.add : ~ Made(c) /\ plan[c] = None /\ ~ held[c]
      /\ \A t \in Threads : state'[t] = IF t \in a.cancel THEN "closed"
                                        ELSE IF t \in a.add THEN "open" ELSE state[t]
      /\ \A t \in Threads : held'[t] = (held[t] /\ t \notin a.cancel)
      /\ \A t \in Threads : plan'[t] = IF t \in a.cancel THEN None
                                       ELSE IF t \in a.add THEN a.plan ELSE plan[t]
      /\ \A t \in Threads : Made(t)' <=> Made(t) \/ t \in a.add
  BY AmendCommitted
<1>2. /\ lock' = Released(x) /\ logLock' = LogReleased(x)
      /\ amender' = [amender EXCEPT ![x] = NoAmend]
      /\ amendments' = [amendments EXCEPT ![a.plan] = @ + 1]
      /\ UNCHANGED <<landed, closer>>
  BY DEF CommitAmend
<1>3. /\ amender'[x].pc = "idle" /\ amender'[x].add = {}
      /\ \A y \in Amenders \ {x} : amender'[y] = amender[y]
  BY <1>2, IdleRecords, AmenderMoved DEF PlanInv, PlanLocks
<1>4. \A t \in Threads : lock[t] \notin {x, None} => lock'[t] = lock[t]
  BY <1>2, LocksReleased DEF PlanInv, PlanLocks
<1>5. \A c \in a.add : \A y \in Amenders \ {x} : c \notin amender[y].add
  BY AmenderAt
<1>6. \A t \in Threads \ {a.plan} : amendments'[t] = amendments[t]
  BY <1>1, <1>2 DEF PlanInv, PlanLocks, PlanTypeOK
<1> HIDE DEF a
<1>7. CloserLocks'
  <2> SUFFICES ASSUME NEW y \in Closers, closer[y].pc # "idle", NEW t \in closer[y].closed
               PROVE  lock'[t] = y /\ IsOpen(t)'
    BY <1>2 DEF PlanInv, PlanLocks, CloserLocks
  <2>1. y # x /\ y # None /\ t \in Threads /\ lock[t] = y /\ IsOpen(t)
    BY LocksTyped, SMTT(30) DEF PlanInv, PlanLocks, CloserLocks
  <2>2. t \notin a.cancel /\ t \notin a.add
    BY <1>1, <2>1 DEF IsOpen, Made
  <2> QED
    BY <1>1, <1>4, <2>1, <2>2 DEF IsOpen
<1>8. AmenderLocks'
  <2> SUFFICES ASSUME NEW y \in Amenders, y # x, amender[y].pc # "idle"
               PROVE  /\ amender[y].plan \in PlanKind /\ lock'[amender[y].plan] = y
                      /\ held'[amender[y].plan]
                      /\ amendments'[amender[y].plan] \in 0 .. MaxAmendments - 1
                      /\ amender[y].plan \notin amender[y].cancel
                      /\ \A c \in amender[y].cancel : plan'[c] = amender[y].plan
                      /\ amender[y].pc # "row" =>
                           \A c \in amender[y].cancel : lock'[c] = y /\ IsOpen(c)'
    BY <1>3, SMTT(30) DEF AmenderLocks, MayAmend
  <2>1. /\ amender[y].plan \in PlanKind /\ lock[amender[y].plan] = y
        /\ held[amender[y].plan] /\ MayAmend(amender[y].plan)
        /\ amender[y].plan \notin amender[y].cancel
        /\ \A c \in amender[y].cancel : plan[c] = amender[y].plan
        /\ amender[y].pc # "row" => \A c \in amender[y].cancel : lock[c] = y /\ IsOpen(c)
    BY AmenderAt
  <2>2. /\ amender[y].plan \in Threads /\ y # None /\ amender[y].cancel \subseteq Threads
        /\ amender[y].plan # None
    BY <2>1, LocksTyped DEF PlanInv, PlanLocks
  <2>3. amender[y].plan # a.plan /\ amender[y].plan \notin a.cancel
    BY <1>1, <2>1
  <2>4. \A c \in amender[y].cancel : c \notin a.cancel /\ c \notin a.add
    BY <1>1, <2>1, <2>2, <2>3, SMTT(30)
  <2>5. \A c \in amender[y].cancel : plan'[c] = plan[c] /\ state'[c] = state[c]
    BY <1>1, <2>2, <2>4
  <2>6. held'[amender[y].plan] /\ amendments'[amender[y].plan] = amendments[amender[y].plan]
    BY <1>1, <1>6, <2>1, <2>2, <2>3
  <2>7. \A t \in Threads : lock[t] = y => lock'[t] = y
    BY <1>4, <2>2
  <2> QED
    BY <2>1, <2>2, <2>5, <2>6, <2>7 DEF MayAmend, IsOpen
<1>9. AddsFresh'
  BY <1>1, <1>3, <1>5, LocksTyped DEF PlanInv, PlanLocks, AddsFresh
<1>10. Chain'
  <2> SUFFICES ASSUME NEW y \in Closers, closer[y].pc # "idle",
                      NEW t \in closer[y].closed \ {closer[y].at}
               PROVE  plan'[t] \in closer[y].closed /\ Behind(y, plan[t])'
    BY <1>2 DEF Chain
  <2>1. y # x /\ t \in Threads /\ closer[y].closed \subseteq Threads
        /\ \A s \in closer[y].closed : lock[s] = y /\ IsOpen(s)
    BY LocksTyped, SMTT(30) DEF PlanInv, PlanLocks, CloserLocks
  <2>2. plan[t] \in closer[y].closed /\ Behind(y, plan[t])
    BY DEF PlanInv, Chain
  <2>3. t \notin a.cancel /\ t \notin a.add /\ plan[t] # a.plan /\ plan[t] # None
    BY <1>1, <2>1, <2>2, PlanConstants, SMTT(30) DEF IsOpen, Made
  <2>4. plan'[t] = plan[t]
    BY <1>1, <2>1, <2>3
  <2>5. \A c \in Threads : plan'[c] = plan[t] => plan[c] = plan[t] /\ c \notin a.cancel /\ c \notin a.add
    BY <1>1, <2>3
  <2>6. \A c \in Threads : plan'[c] = plan[t] =>
          (state'[c] = "closed" \/ c \in closer[y].closed) /\ c \in landed \cup closer[y].landed
    BY <1>1, <2>2, <2>5 DEF Behind, IsClosed, HasLanded
  <2> QED
    BY <1>2, <2>2, <2>4, <2>6 DEF Behind, IsClosed, HasLanded
<1> QED
  BY <1>7, <1>8, <1>9, <1>10

LEMMA CommitAmendRows ==
  ASSUME PlanInv, NEW x \in Amenders, CommitAmend(x)
  PROVE  RowsMade' /\ EdgesMade' /\ AllLandedClosesPlan' /\ BasesBlock'
           /\ CycleNeedsRace' /\ ChecksHold'
<1> DEFINE a == amender[x]
<1>1. /\ a.plan \in PlanKind /\ a.plan \in Threads /\ a.plan # None /\ Made(a.plan)
      /\ a.cancel \in SUBSET Threads /\ a.add \in SUBSET Threads
      /\ a.wires \in SUBSET (Threads \X Threads)
      /\ \A c \in a.cancel : plan[c] = a.plan /\ IsOpen(c)
      /\ \A c \in a.add : ~ Made(c) /\ plan[c] = None /\ ~ held[c]
      /\ \A t \in Threads : state'[t] = IF t \in a.cancel THEN "closed"
                                        ELSE IF t \in a.add THEN "open" ELSE state[t]
      /\ \A t \in Threads : held'[t] = (held[t] /\ t \notin a.cancel)
      /\ \A t \in Threads : plan'[t] = IF t \in a.cancel THEN None
                                       ELSE IF t \in a.add THEN a.plan ELSE plan[t]
      /\ \A t \in Threads : Made(t)' <=> Made(t) \/ t \in a.add
  BY AmendCommitted, SMTT(30)
<1>2. /\ needs' \subseteq needs \cup a.wires
      /\ \A t \in Threads : t \notin a.add => block'[t] = block[t]
      /\ amender' = [amender EXCEPT ![x] = NoAmend]
      /\ loosened' = IF a.cancel # {} THEN loosened \cup {a.plan} ELSE loosened
      /\ raced' = (raced \/ ~ a.wires \subseteq needs)
      /\ UNCHANGED <<landed, refused, adder, based, cleared, released>>
  BY DEF CommitAmend
<1>3. /\ amender'[x].wires = {}
      /\ \A y \in Amenders \ {x} : amender'[y] = amender[y]
  BY <1>2, IdleRecords, AmenderMoved DEF PlanInv, PlanLocks
<1>4. \A e \in a.wires : (Made(e[1]) \/ e[1] \in a.add) /\ (Made(e[2]) \/ e[2] \in a.add)
  BY AmenderAt
<1> HIDE DEF a
<1>5. /\ \A e \in needs : e[1] \in Threads /\ e[2] \in Threads /\ Made(e[1]) /\ Made(e[2])
      /\ \A e \in based : e[1] \in Threads /\ Made(e[1])
      /\ PlanKind \subseteq Threads /\ None \notin PlanKind
  BY PlanConstants DEF PlanInv, PlanLocks, PlanTypeOK, EdgesMade, NeedsMade, BasedMade
<1>6. RowsMade'
  <2> SUFFICES ASSUME NEW t \in Threads
               PROVE  /\ held'[t] => Made(t)'
                      /\ plan'[t] # None => Made(t)' /\ Made(plan[t])'
    BY DEF RowsMade
  <2>1. plan[t] \in PlanKind \cup {None}
    BY DEF PlanInv, PlanLocks, PlanTypeOK
  <2>2. (held[t] => Made(t)) /\ (plan[t] # None => Made(t) /\ Made(plan[t]))
    BY DEF PlanInv, PlanLocks, RowsMade
  <2>3. \A s \in Threads : Made(s) => Made(s)'
    BY <1>1
  <2>4. CASE plan'[t] = None
    BY <1>1, <2>2, <2>4
  <2>5. CASE plan'[t] # None
    <3>1. \/ t \in a.add /\ plan'[t] = a.plan
          \/ plan'[t] = plan[t] /\ plan[t] \in Threads
      BY <1>1, <1>5, <2>1, <2>5
    <3>2. CASE t \in a.add /\ plan'[t] = a.plan
      <4>1. state'[a.plan] # "absent"
        BY <1>1, <2>3 DEF Made
      <4> QED
        BY <1>1, <3>2, <4>1 DEF Made
    <3>3. CASE plan'[t] = plan[t] /\ plan[t] \in Threads
      <4>1. state'[plan[t]] # "absent" /\ Made(t)
        BY <2>2, <2>3, <2>5, <3>3 DEF Made
      <4> QED
        BY <1>1, <3>3, <4>1 DEF Made
    <3> QED
      BY <3>1, <3>2, <3>3
  <2> QED
    BY <2>4, <2>5
<1>7. EdgesMade'
  <2>1. NeedsMade'
    BY <1>1, <1>2, <1>4, <1>5, SMTT(30) DEF NeedsMade
  <2>2. BasedMade'
    BY <1>1, <1>2, <1>5 DEF BasedMade
  <2>3. AddersMade'
    BY <1>1, <1>2 DEF PlanInv, PlanLocks, EdgesMade, AddersMade
  <2>4. WiresMade'
    BY <1>1, <1>3, LocksTyped, SMTT(30) DEF PlanInv, PlanLocks, EdgesMade, WiresMade
  <2> QED
    BY <2>1, <2>2, <2>3, <2>4 DEF EdgesMade
<1>8. AllLandedClosesPlan'
  <2> SUFFICES ASSUME NEW p \in PlanKind, p \notin refused, p \notin loosened',
                      NEW b \in Threads, plan'[b] = p,
                      \A c \in Threads : plan'[c] = p => state'[c] = "closed" /\ c \in landed
               PROVE  state'[p] = "closed"
    BY <1>2, SMTT(30) DEF AllLandedClosesPlan, Children
  <2>1. p \in Threads /\ p # None
    BY <1>5
  <2>2. \A c \in a.add : p # a.plan
    BY <1>1 DEF IsOpen, Made
  <2>3. \A c \in Threads : plan'[c] = p => plan[c] = p /\ state[c] = "closed"
    BY <1>1, <2>1, <2>2
  <2>4. \A c \in Threads : plan[c] = p => plan'[c] = p
    <3>1. \A c \in a.cancel : p # a.plan
      BY <1>2
    <3> QED
      BY <1>1, <2>1, <3>1
  <2>5. b \in Children(p) /\ \A c \in Children(p) : state[c] = "closed" /\ c \in landed
    BY <2>3, <2>4 DEF Children
  <2>6. p \notin loosened
    BY <1>2
  <2>7. state[p] = "closed"
    BY <2>5, <2>6 DEF PlanInv, AllLandedClosesPlan
  <2> QED
    BY <1>1, <2>1, <2>7 DEF Made
<1>9. BasesBlock'
  BY <1>1, <1>2, <1>5, SMTT(30) DEF PlanInv, BasesBlock, IsOpen
<1>10. CASE raced'
  BY <1>6, <1>7, <1>8, <1>9, <1>10 DEF CycleNeedsRace, ChecksHold
<1>11. CASE ~ raced'
  <2>1. needs' \subseteq needs /\ raced' = raced
    BY <1>2, <1>11 DEF PlanInv, PlanLocks, PlanTypeOK
  <2> QED
    BY <1>2, <1>6, <1>7, <1>8, <1>9, <2>1, FewerPaths DEF PlanInv
<1> QED
  BY <1>10, <1>11

LEMMA AmendStep ==
  ASSUME PlanInv, AmendNext
  PROVE  PlanInv'
<1>1. ASSUME NEW x \in Amenders, CommitAmend(x)
      PROVE  PlanInv'
  BY <1>1, CommitAmendTyped, CommitAmendLocks, CommitAmendRows DEF PlanInv, PlanLocks
<1> QED
  BY <1>1, LockCancelledStep, AppendAmendStep, RollbackAmendStep DEF AmendNext

LEMMA BeginAmends ==
  ASSUME PlanInv, BeginNext
  PROVE  PlanInv'
BY BeginStep, SMTT(30) DEF BeginNext

-----------------------------------------------------------------------------
(* Submitting.                                                             *)

LEMMA SubmitFacts ==
  ASSUME PlanInv, NEW p \in Threads, NEW kids \in SUBSET Threads,
         NEW edges \in SUBSET (Threads \X Threads), NEW hold \in BOOLEAN,
         Submit(p, kids, edges, hold)
  PROVE  /\ p \in PlanKind /\ p # None /\ held[p] /\ lock[p] = None /\ Made(p) /\ p \notin kids
         /\ \E c \in kids : TRUE
         /\ \A c \in kids : ~ Made(c) /\ plan[c] = None /\ \A x \in Amenders : c \notin amender[x].add
         /\ \A e \in edges : e[1] \in kids /\ e[2] \in kids
         /\ Acyclic(edges) /\ needs' = needs \cup edges
         /\ \A t \in Threads : state'[t] = IF t \in kids THEN "open" ELSE state[t]
         /\ \A t \in Threads : plan'[t] = IF t \in kids THEN p ELSE plan[t]
         /\ \A t \in Threads \ {p} : amendments'[t] = amendments[t]
         /\ \A t \in Threads \ kids : block'[t] = block[t]
         /\ UNCHANGED <<held, landed, abandoned, refused, lock, logLock, closer, amender, adder,
                        loosened, based, cleared, released, raced>>
<1>1. /\ p \in PlanKind /\ held[p] /\ lock[p] = None /\ kids # {} /\ Unused(kids)
      /\ edges \subseteq kids \X kids /\ Acyclic(edges) /\ needs' = needs \cup edges
      /\ \A t \in Threads : state'[t] = IF t \in kids THEN "open" ELSE state[t]
      /\ \A t \in Threads : plan'[t] = IF t \in kids THEN p ELSE plan[t]
      /\ amendments' = [amendments EXCEPT ![p] = 0]
      /\ \A t \in Threads \ kids : block'[t] = block[t]
      /\ UNCHANGED <<held, landed, abandoned, refused, lock, logLock, closer, amender, adder,
                     loosened, based, cleared, released, raced>>
  BY DEF Submit, Free, history
<1>2. \A t \in Threads \ {p} : amendments'[t] = amendments[t]
  BY <1>1 DEF PlanInv, PlanLocks, PlanTypeOK
<1>3. p # None /\ Made(p)
  BY <1>1, PlanConstants DEF PlanInv, PlanLocks, RowsMade
<1>4. \A c \in kids : ~ Made(c) /\ \A x \in Amenders : c \notin amender[x].add
  BY <1>1 DEF Unused, Made
<1>5. \A c \in kids : plan[c] = None
  BY <1>4 DEF PlanInv, PlanLocks, RowsMade
<1> QED
  BY <1>1, <1>2, <1>3, <1>4, <1>5

LEMMA SubmitLocks ==
  ASSUME PlanInv, NEW p \in Threads, NEW kids \in SUBSET Threads,
         NEW edges \in SUBSET (Threads \X Threads), NEW hold \in BOOLEAN,
         Submit(p, kids, edges, hold)
  PROVE  PlanTypeOK' /\ CloserLocks' /\ AmenderLocks' /\ AddsFresh' /\ Chain'
<1>1. /\ p \in PlanKind /\ p # None /\ lock[p] = None
      /\ \A c \in kids : ~ Made(c) /\ plan[c] = None /\ \A x \in Amenders : c \notin amender[x].add
      /\ \A t \in Threads : state'[t] = IF t \in kids THEN "open" ELSE state[t]
      /\ \A t \in Threads : plan'[t] = IF t \in kids THEN p ELSE plan[t]
      /\ \A t \in Threads \ {p} : amendments'[t] = amendments[t]
      /\ UNCHANGED <<held, landed, abandoned, refused, lock, logLock, closer, amender, adder,
                     loosened, based, cleared, released, raced>>
  BY SubmitFacts, SMTT(30)
<1>0. \A t \in Threads : Made(t)' <=> Made(t) \/ t \in kids
  BY <1>1 DEF Made
<1>2. PlanTypeOK'
  <2>1. state' \in [Threads -> {"absent", "open", "in_review", "closed"}]
    BY DEF Submit, PlanInv, PlanLocks, PlanTypeOK
  <2>2. plan' \in [Threads -> PlanKind \cup {None}]
    BY DEF Submit, PlanInv, PlanLocks, PlanTypeOK
  <2>3. amendments' \in [Threads -> -1 .. MaxAmendments]
    BY PlanConstants, SMTT(30) DEF Submit, PlanInv, PlanLocks, PlanTypeOK
  <2>4. needs' \in SUBSET (Threads \X Threads)
    BY DEF Submit, PlanInv, PlanLocks, PlanTypeOK
  <2>5. block' \in [Threads -> {"none", "hold", "dag", "person"}]
    BY DEF Submit, PlanInv, PlanLocks, PlanTypeOK
  <2> QED
    BY <1>0, <1>1, <2>1, <2>2, <2>3, <2>4, <2>5 DEF PlanInv, PlanLocks, PlanTypeOK
<1>3. CloserLocks'
  BY <1>0, <1>1, LocksTyped, SMTT(30) DEF PlanInv, PlanLocks, CloserLocks, IsOpen, Made
<1>4. AmenderLocks'
  <2> SUFFICES ASSUME NEW y \in Amenders, amender[y].pc # "idle"
               PROVE  /\ amender[y].plan \in PlanKind /\ lock[amender[y].plan] = y
                      /\ held[amender[y].plan]
                      /\ amendments'[amender[y].plan] \in 0 .. MaxAmendments - 1
                      /\ amender[y].plan \notin amender[y].cancel
                      /\ \A c \in amender[y].cancel : plan'[c] = amender[y].plan
                      /\ amender[y].pc # "row" =>
                           \A c \in amender[y].cancel : lock[c] = y /\ IsOpen(c)'
    BY <1>0, <1>1, SMTT(30) DEF AmenderLocks, MayAmend
  <2>1. /\ amender[y].plan \in PlanKind /\ lock[amender[y].plan] = y
        /\ held[amender[y].plan] /\ MayAmend(amender[y].plan)
        /\ amender[y].plan \notin amender[y].cancel
        /\ \A c \in amender[y].cancel : plan[c] = amender[y].plan
        /\ amender[y].pc # "row" => \A c \in amender[y].cancel : lock[c] = y /\ IsOpen(c)
    BY AmenderAt
  <2>2. /\ amender[y].plan \in Threads /\ y # None /\ amender[y].cancel \subseteq Threads
        /\ amender[y].plan # None
    BY <2>1, LocksTyped DEF PlanInv, PlanLocks
  <2>3. amender[y].plan # p /\ \A c \in amender[y].cancel : c \notin kids
    BY <1>0, <1>1, <2>1, <2>2, SMTT(30)
  <2>4. \A c \in amender[y].cancel : plan'[c] = plan[c] /\ state'[c] = state[c]
    BY <1>0, <1>1, <2>2, <2>3
  <2> QED
    BY <1>0, <1>1, <2>1, <2>2, <2>3, <2>4 DEF MayAmend, IsOpen
<1>5. AddsFresh'
  BY <1>0, <1>1, LocksTyped DEF PlanInv, PlanLocks, AddsFresh
<1>6. Chain'
  <2> SUFFICES ASSUME NEW y \in Closers, closer[y].pc # "idle",
                      NEW t \in closer[y].closed \ {closer[y].at}
               PROVE  plan'[t] \in closer[y].closed /\ Behind(y, plan[t])'
    BY <1>0, <1>1 DEF Chain
  <2>1. t \in Threads /\ closer[y].closed \subseteq Threads /\ y # None
        /\ \A s \in closer[y].closed : lock[s] = y /\ IsOpen(s)
    BY LocksTyped DEF PlanInv, PlanLocks, CloserLocks
  <2>2. plan[t] \in closer[y].closed /\ Behind(y, plan[t])
    BY DEF PlanInv, Chain
  <2>3. t \notin kids /\ plan[t] # p /\ plan[t] # None
    BY <1>0, <1>1, <2>1, <2>2, PlanConstants DEF IsOpen, Made
  <2>4. plan'[t] = plan[t]
    BY <1>0, <1>1, <2>1, <2>3
  <2>5. \A c \in Threads : plan'[c] = plan[t] => plan[c] = plan[t] /\ c \notin kids
    BY <1>0, <1>1, <2>3
  <2>6. \A c \in Threads : plan'[c] = plan[t] =>
          (state'[c] = "closed" \/ c \in closer[y].closed) /\ c \in landed \cup closer[y].landed
    BY <1>0, <1>1, <2>2, <2>5 DEF Behind, IsClosed, HasLanded
  <2> QED
    BY <1>0, <1>1, <2>2, <2>4, <2>6 DEF Behind, IsClosed, HasLanded
<1> QED
  BY <1>2, <1>3, <1>4, <1>5, <1>6

LEMMA SubmitRows ==
  ASSUME PlanInv, NEW p \in Threads, NEW kids \in SUBSET Threads,
         NEW edges \in SUBSET (Threads \X Threads), NEW hold \in BOOLEAN,
         Submit(p, kids, edges, hold)
  PROVE  RowsMade' /\ EdgesMade' /\ AllLandedClosesPlan' /\ BasesBlock'
           /\ CycleNeedsRace' /\ ChecksHold'
<1>1. /\ p \in PlanKind /\ p # None /\ held[p] /\ Made(p) /\ p \notin kids
      /\ \E c \in kids : TRUE
      /\ \A c \in kids : ~ Made(c) /\ plan[c] = None
      /\ \A e \in edges : e[1] \in kids /\ e[2] \in kids
      /\ Acyclic(edges) /\ needs' = needs \cup edges
      /\ \A t \in Threads : state'[t] = IF t \in kids THEN "open" ELSE state[t]
      /\ \A t \in Threads : plan'[t] = IF t \in kids THEN p ELSE plan[t]
      /\ \A t \in Threads \ kids : block'[t] = block[t]
      /\ UNCHANGED <<held, landed, abandoned, refused, lock, logLock, closer, amender, adder,
                     loosened, based, cleared, released, raced>>
  BY SubmitFacts, SMTT(30)
<1>0. \A t \in Threads : Made(t)' <=> Made(t) \/ t \in kids
  BY <1>1 DEF Made
<1>2. /\ needs \in SUBSET (Threads \X Threads)
      /\ \A e \in needs : e[1] \in Threads /\ e[2] \in Threads /\ Made(e[1]) /\ Made(e[2])
      /\ \A e \in based : e[1] \in Threads /\ Made(e[1])
      /\ PlanKind \subseteq Threads /\ None \notin PlanKind
  BY PlanConstants DEF PlanInv, PlanLocks, PlanTypeOK, EdgesMade, NeedsMade, BasedMade
<1>3. RowsMade'
  <2> SUFFICES ASSUME NEW t \in Threads
               PROVE  /\ held'[t] => Made(t)'
                      /\ plan'[t] # None => Made(t)' /\ Made(plan[t])'
    BY DEF RowsMade
  <2>1. plan[t] \in PlanKind \cup {None}
    BY DEF PlanInv, PlanLocks, PlanTypeOK
  <2>2. (held[t] => Made(t)) /\ (plan[t] # None => Made(t) /\ Made(plan[t]))
    BY DEF PlanInv, PlanLocks, RowsMade
  <2>3. \A s \in Threads : Made(s) => state'[s] # "absent"
    BY <1>0, <1>1 DEF Made
  <2>4. plan'[t] # None => plan'[t] \in Threads /\ Made(plan'[t])
    <3>1. plan'[t] = p \/ plan'[t] = plan[t]
      BY <1>1
    <3>2. p \in Threads /\ Made(p)
      BY <1>1
    <3> QED BY <1>2, <2>1, <2>2, <3>1, <3>2, SMTT(30)
  <2>5. plan'[t] # None => state'[plan'[t]] # "absent"
    BY <2>3, <2>4
  <2> QED
    BY <1>0, <1>1, <2>2, <2>5 DEF Made
<1>4. EdgesMade'
  <2>1. NeedsMade'
    BY <1>0, <1>1, <1>2 DEF NeedsMade
  <2>2. BasedMade'
    BY <1>0, <1>1, <1>2 DEF BasedMade
  <2>3. AddersMade'
    BY <1>0, <1>1, SMTT(30) DEF PlanInv, PlanLocks, EdgesMade, AddersMade
  <2>4. WiresMade'
    BY <1>0, <1>1, LocksTyped, SMTT(30) DEF PlanInv, PlanLocks, EdgesMade, WiresMade
  <2> QED
    BY <2>1, <2>2, <2>3, <2>4 DEF EdgesMade
<1>5. AllLandedClosesPlan'
  <2> SUFFICES ASSUME NEW q \in PlanKind, q \notin refused, q \notin loosened,
                      NEW b \in Threads, plan'[b] = q,
                      \A c \in Threads : plan'[c] = q => state'[c] = "closed" /\ c \in landed
               PROVE  state'[q] = "closed"
    BY <1>0, <1>1, SMTT(30) DEF AllLandedClosesPlan, Children
  <2>1. q \in Threads /\ q # None
    BY <1>2
  <2>2. q # p
    BY <1>1, SMTT(30)
  <2>3. b \in Children(q) /\ \A c \in Children(q) : state[c] = "closed" /\ c \in landed
    BY <1>0, <1>1, <2>1, <2>2 DEF Children
  <2>4. state[q] = "closed"
    BY <2>3 DEF PlanInv, AllLandedClosesPlan
  <2> QED
    BY <1>0, <1>1, <2>1, <2>4 DEF Made
<1>6. BasesBlock'
  BY <1>0, <1>1, <1>2 DEF PlanInv, BasesBlock, IsOpen
<1>7. \A e \in needs : e[1] \notin kids /\ e[2] \notin kids
  BY <1>0, <1>1, <1>2
<1>8. CycleNeedsRace'
  <2>1. raced \/ Acyclic(needs \cup edges)
    BY <1>0, <1>1, <1>2, <1>7, AcyclicUnion DEF PlanInv, CycleNeedsRace
  <2>2. raced \/ Acyclic(needs')
    BY <1>0, <1>1, <2>1
  <2> QED
    BY <1>0, <1>1, <2>2 DEF CycleNeedsRace, Acyclic, Reaches
<1>9. ChecksHold'
  <2> SUFFICES ASSUME NEW x \in Adders, adder[x].pc # "idle", ~ adder[x].stale, ~ raced,
                      Reaches(needs \cup edges, adder[x].edge[2], adder[x].edge[1])
               PROVE  FALSE
    BY <1>0, <1>1 DEF ChecksHold, Reaches
  <2> DEFINE s == adder[x].edge[2]
             t == adder[x].edge[1]
  <2>1. s \in Threads /\ Made(s) /\ ~ Reaches(needs, s, t)
    BY DEF PlanInv, PlanLocks, EdgesMade, AddersMade, ChecksHold
  <2>2. s \in Threads \ kids
    BY <1>0, <1>1, <2>1
  <2>3. Reaches(needs \cup edges, s, t)
    OBVIOUS
  <2> HIDE DEF s, t
  <2>4. Reaches(needs, s, t)
    BY <1>0, <1>1, <1>2, <1>7, <2>2, <2>3, ReachesOutside
  <2> QED
    BY <2>1, <2>4
<1> QED
  BY <1>3, <1>4, <1>5, <1>6, <1>8, <1>9

LEMMA SubmitStep ==
  ASSUME PlanInv, SubmitNext
  PROVE  PlanInv'
BY SubmitLocks, SubmitRows DEF SubmitNext, PlanInv, PlanLocks

-----------------------------------------------------------------------------
(* The theorems.                                                           *)

LEMMA PlanInitial == PlanInit => PlanInv
<1> SUFFICES ASSUME PlanInit
             PROVE  PlanInv
  OBVIOUS
<1> USE DEF PlanInit
<1>1. /\ \A x \in Closers : closer[x].pc = "idle"
      /\ \A x \in Amenders : amender[x].pc = "idle" /\ amender[x].add = {} /\ amender[x].wires = {}
      /\ \A x \in Adders : adder[x].pc = "idle"
  BY IdleRecords
<1>2. closer \in [Closers -> Closures] /\ amender \in [Amenders -> Amendments]
      /\ adder \in [Adders -> Additions]
  BY IdleRecords
<1>3. PlanTypeOK
  <2>1. /\ state \in [Threads -> {"absent", "open", "in_review", "closed"}]
        /\ held \in [Threads -> BOOLEAN]
        /\ block \in [Threads -> {"none", "hold", "dag", "person"}]
    OBVIOUS
  <2>2. amendments \in [Threads -> -1 .. MaxAmendments]
    <3>1. -1 \in -1 .. MaxAmendments
      BY PlanConstants, SMTT(30)
    <3> QED
      BY <3>1
  <2>3. /\ plan \in [Threads -> PlanKind \cup {None}]
        /\ lock \in [Threads -> Closers \cup Amenders \cup {None}]
        /\ logLock \in Closers \cup Amenders \cup {None}
    OBVIOUS
  <2>4. /\ needs \in SUBSET (Threads \X Threads) /\ based \in SUBSET (Threads \X Threads)
        /\ landed \in SUBSET Threads /\ abandoned \in SUBSET Threads
        /\ cleared \in SUBSET Threads /\ released \in SUBSET Threads
        /\ refused \in SUBSET PlanKind /\ loosened \in SUBSET PlanKind
        /\ raced \in BOOLEAN
    OBVIOUS
  <2> QED
    BY <1>2, <2>1, <2>2, <2>3, <2>4 DEF PlanTypeOK
<1>4. CloserLocks /\ AmenderLocks /\ AddsFresh /\ Chain
  BY <1>1 DEF CloserLocks, AmenderLocks, AddsFresh, Chain
<1>5. RowsMade /\ EdgesMade
  BY <1>1 DEF RowsMade, EdgesMade, NeedsMade, BasedMade, AddersMade, WiresMade
<1>6. AllLandedClosesPlan /\ BasesBlock
  BY PlanConstants DEF AllLandedClosesPlan, Children, BasesBlock
<1>7. CycleNeedsRace
  <2> SUFFICES ASSUME NEW t \in Threads
               PROVE  ~ Reaches({}, t, t)
    BY DEF CycleNeedsRace, Acyclic
  <2>1. {} \in SUBSET Threads
    OBVIOUS
  <2> QED
    BY <2>1 DEF Reaches
<1>8. ChecksHold
  BY <1>1 DEF ChecksHold
<1> QED
  BY <1>3, <1>4, <1>5, <1>6, <1>7, <1>8 DEF PlanInv, PlanLocks

LEMMA PlanStutter ==
  ASSUME PlanInv, UNCHANGED planVars
  PROVE  PlanInv'
<1> USE DEF planVars
<1>1. PlanTypeOK'
  BY DEF PlanInv, PlanLocks, PlanTypeOK, rows, history
<1>2. Quiet
  BY DEF Quiet, Made, rows
<1>3. WiresMade'
  BY DEF PlanInv, PlanLocks, EdgesMade, WiresMade, Made, rows
<1> QED
  BY <1>1, <1>2, <1>3, QuietLocks, QuietChain, RowsKept DEF PlanInv, PlanLocks, EdgesMade

\* PlanInv is inductive.
LEMMA PlanInvariant == PlanSpec => []PlanInv
<1>1. PlanInv /\ [PlanNext]_planVars => PlanInv'
  BY ClaimStep, SubmitStep, CloseStep, BeginAmends, AmendStep, EdgeStep, PlanStutter DEF PlanNext
<1> QED
  BY <1>1, PlanInitial, PTL DEF PlanSpec

\* Whatever plans, closes, amendments and added edges do to each other, rolled back
\* or committed, the tables and the transactions stay well formed.
THEOREM PlanTypes == PlanSpec => []PlanTypeOK
<1>1. PlanInv => PlanTypeOK
  BY DEF PlanInv, PlanLocks
<1> QED
  BY <1>1, PlanInvariant, PTL

\* close_parent_in_tx: of children landing at once the last one closes the plan, or
\* the gate that refused is told.
THEOREM LandedPlansClose == PlanSpec => []AllLandedClosesPlan
<1>1. PlanInv => AllLandedClosesPlan
  BY DEF PlanInv
<1> QED
  BY <1>1, PlanInvariant, PTL

\* unlanded_in_tx: what waits for a child that closed without landing stays blocked
\* until a person or a release of the plan's hold unblocks it.
THEOREM UnlandedBasesBlock == PlanSpec => []UnlandedBaseBlocks
<1>1. PlanInv => UnlandedBaseBlocks
  BY DEF PlanInv, BasesBlock, UnlandedBaseBlocks
<1> QED
  BY <1>1, PlanInvariant, PTL

\* thread_deps::add: the reachability query keeps the dependencies free of cycles,
\* unless an edge came between a query and its insert, or from an amendment.
THEOREM CyclesNeedRaces == PlanSpec => []CycleNeedsRace
<1>1. PlanInv => CycleNeedsRace
  BY DEF PlanInv
<1> QED
  BY <1>1, PlanInvariant, PTL

LEMMA AmendsHeld ==
  ASSUME PlanInv, PlanNext, NEW p \in Threads, amendments'[p] > amendments[p]
  PROVE  held[p] /\ held'[p]
<1>0. amendments[p] \in Int
  BY SMTT(30) DEF PlanInv, PlanLocks, PlanTypeOK
<1>1. CASE UNCHANGED amendments
  BY <1>0, <1>1, SMTT(30)
<1>2. CASE SubmitNext
  <2>1. PICK q \in Threads, kids \in SUBSET Threads, edges \in SUBSET (Threads \X Threads),
             hold \in BOOLEAN : Submit(q, kids, edges, hold)
    BY <1>2 DEF SubmitNext
  <2>2. held[q] /\ UNCHANGED held /\ \A t \in Threads \ {q} : amendments'[t] = amendments[t]
    BY <2>1 DEF Submit, PlanInv, PlanLocks, PlanTypeOK
  <2> QED
    BY <1>0, <2>2, SMTT(30)
<1>3. CASE \E x \in Amenders : CommitAmend(x)
  <2>1. PICK x \in Amenders : CommitAmend(x)
    BY <1>3
  <2> DEFINE q == amender[x].plan
  <2>2. q \in Threads /\ held[q] /\ q \notin amender[x].cancel
        /\ \A t \in Threads : held'[t] = (held[t] /\ t \notin amender[x].cancel)
    BY <2>1, AmendCommitted
  <2>3. amendments' = [amendments EXCEPT ![q] = amendments[q] + 1]
    BY <2>1 DEF CommitAmend
  <2> HIDE DEF q
  <2>4. \A t \in Threads \ {q} : amendments'[t] = amendments[t]
    BY <2>3 DEF PlanInv, PlanLocks, PlanTypeOK
  <2>5. p = q
    BY <1>0, <2>4, SMTT(30)
  <2> QED
    BY <2>2, <2>5
<1>4. UNCHANGED amendments \/ SubmitNext \/ \E x \in Amenders : CommitAmend(x)
  <2>1. CASE ClaimNext
    BY <2>1 DEF ClaimNext, Claim, ClaimById, DropClaim, StartReview, SetBlock, ClearBlock,
                LandedFact, Release
  <2>2. CASE CloseNext
    <3>1. ASSUME NEW x \in Closers, CommitClose(x) PROVE UNCHANGED amendments
      BY <3>1 DEF CommitClose
    <3>2. ASSUME NEW x \in Closers,
                 SettleOutside(x) \/ SettleLanded(x) \/ RefusePlan(x) \/ SettleUnlanded(x)
          PROVE  UNCHANGED amendments
      BY <3>1, <3>2 DEF SettleOutside, SettleLanded, RefusePlan, SettleUnlanded
    <3>3. ASSUME NEW x \in Closers, NEW c, NEW how, CloseThread(x, c, how)
          PROVE  UNCHANGED amendments
      BY <3>3 DEF CloseThread, rows
    <3>4. ASSUME NEW x \in Closers, AppendChange(x) \/ ClosePlan(x) \/ RollbackClose(x)
          PROVE  UNCHANGED amendments
      BY <3>4 DEF AppendChange, ClosePlan, RollbackClose, rows
    <3> QED BY <2>2, <3>2, <3>3, <3>4 DEF CloseNext
  <2>3. CASE BeginNext
    BY <2>3, SMTT(30) DEF BeginNext, BeginAmend, rows
  <2>4. CASE AmendNext
    BY <2>4 DEF AmendNext, LockCancelled, AppendAmend, RollbackAmend, rows
  <2>5. CASE EdgeNext
    BY <2>5 DEF EdgeNext, CheckEdge, InsertEdge, RollbackAdd, RemoveEdge, rows
  <2> QED
    BY <2>1, <2>2, <2>3, <2>4, <2>5 DEF PlanNext
<1> QED
  BY <1>1, <1>2, <1>3, <1>4

LEMMA CommitsBehind ==
  ASSUME PlanInv, NEW x \in Closers, closer[x].pc = "settle", CommitClose(x),
         plan[closer[x].at] # None => lock[plan[closer[x].at]] = None,
         NEW p \in PlanKind, IsOpen(p), state'[p] = "closed",
         NEW b \in Threads, plan[b] = p, IsOpen(b), state'[b] = "closed",
         NEW c \in Threads, plan'[c] = p
  PROVE  state'[c] = "closed" /\ c \in landed'
<1> DEFINE C == closer[x].closed
<1>1. /\ C \in SUBSET Threads
      /\ \A t \in C : lock[t] = x
      /\ \A t \in Threads : state'[t] = IF t \in C THEN "closed" ELSE state[t]
      /\ landed' = landed \cup closer[x].landed
  BY CloseCommitted
<1>2. UNCHANGED plan
  BY DEF CommitClose
<1>3. p \in Threads /\ p # None /\ x # None
  BY PlanConstants
<1>4. p \in C /\ b \in C
  BY <1>1, <1>3 DEF IsOpen
<1>5. b # closer[x].at
  BY <1>1, <1>3, <1>4
<1>6. Behind(x, p)
  BY <1>4, <1>5 DEF PlanInv, Chain
<1>7. IsClosed(x, c) /\ HasLanded(x, c)
  BY <1>2, <1>6 DEF Behind
<1> QED
  BY <1>1, <1>7 DEF IsClosed, HasLanded

LEMMA ClosesBehind ==
  ASSUME PlanInv, PlanNext, NEW p \in PlanKind, IsOpen(p), state'[p] = "closed",
         NEW b \in Threads, plan[b] = p, IsOpen(b), state'[b] = "closed",
         NEW c \in Threads, plan'[c] = p
  PROVE  state'[c] = "closed" /\ c \in landed'
<1>0. p \in Threads /\ p # None
  BY PlanConstants
<1>1. CASE \E x \in Closers : /\ closer[x].pc = "settle" /\ CommitClose(x)
                              /\ plan[closer[x].at] # None => lock[plan[closer[x].at]] = None
  BY <1>1, CommitsBehind
<1>2. CASE SubmitNext
  <2>1. PICK q \in Threads, kids \in SUBSET Threads, edges \in SUBSET (Threads \X Threads),
             hold \in BOOLEAN : Submit(q, kids, edges, hold)
    BY <1>2 DEF SubmitNext
  <2>2. \A t \in Threads : state'[t] = IF t \in kids THEN "open" ELSE state[t]
    BY <2>1, SubmitFacts, SMTT(30)
  <2> QED
    BY <1>0, <2>2 DEF IsOpen
<1>3. CASE \E x \in Amenders : CommitAmend(x)
  <2>1. PICK x \in Amenders : CommitAmend(x)
    BY <1>3
  <2> DEFINE q == amender[x].plan
  <2>2. /\ q \notin amender[x].cancel /\ \A d \in amender[x].cancel : plan[d] = q
        /\ \A t \in Threads : state'[t] = IF t \in amender[x].cancel THEN "closed"
                                          ELSE IF t \in amender[x].add THEN "open" ELSE state[t]
    BY <2>1, AmendCommitted
  <2> HIDE DEF q
  <2>3. p \in amender[x].cancel /\ b \in amender[x].cancel
    BY <1>0, <2>2 DEF IsOpen
  <2> QED
    BY <2>2, <2>3
<1>4. CASE ClaimNext
  <2>1. \A t \in Threads : state'[t] = "closed" => state[t] = "closed"
    BY <1>4 DEF ClaimNext, Claim, ClaimById, DropClaim, StartReview, SetBlock, ClearBlock,
                LandedFact, Release, PlanInv, PlanLocks, PlanTypeOK
  <2> QED
    BY <1>0, <2>1 DEF IsOpen
<1>5. CASE UNCHANGED state
  BY <1>5 DEF IsOpen
<1>6. \/ SubmitNext \/ ClaimNext \/ UNCHANGED state \/ \E x \in Amenders : CommitAmend(x)
      \/ \E x \in Closers : /\ closer[x].pc = "settle" /\ CommitClose(x)
                            /\ plan[closer[x].at] # None => lock[plan[closer[x].at]] = None
  <2>1. CASE CloseNext
    <3>1. PICK x \in Closers :
            \/ \E t \in Threads, how \in {"land", "hand", "cancel", "abandon"} : CloseThread(x, t, how)
            \/ AppendChange(x) \/ SettleOutside(x) \/ SettleLanded(x) \/ ClosePlan(x)
            \/ RefusePlan(x) \/ SettleUnlanded(x) \/ RollbackClose(x)
      BY <2>1 DEF CloseNext
    <3>2. CASE \/ \E t \in Threads, how \in {"land", "hand", "cancel", "abandon"} :
                    CloseThread(x, t, how)
               \/ AppendChange(x) \/ ClosePlan(x) \/ RollbackClose(x)
      BY <3>2 DEF CloseThread, AppendChange, ClosePlan, RollbackClose, rows
    <3>3. CASE SettleOutside(x) \/ SettleLanded(x) \/ RefusePlan(x) \/ SettleUnlanded(x)
      <4>1. /\ closer[x].pc = "settle" /\ CommitClose(x)
            /\ plan[closer[x].at] # None => lock[plan[closer[x].at]] = None
        BY <3>3 DEF SettleOutside, SettleLanded, RefusePlan, SettleUnlanded, LocksPlan, Free
      <4> QED
        BY <4>1
    <3> QED
      BY <3>1, <3>2, <3>3
  <2>2. CASE BeginNext
    BY <2>2, SMTT(30) DEF BeginNext, BeginAmend, rows
  <2>3. CASE AmendNext
    BY <2>3 DEF AmendNext, LockCancelled, AppendAmend, RollbackAmend, rows
  <2>4. CASE EdgeNext
    BY <2>4 DEF EdgeNext, CheckEdge, InsertEdge, RollbackAdd, RemoveEdge, rows
  <2> QED
    BY <2>1, <2>2, <2>3, <2>4 DEF PlanNext
<1> QED
  BY <1>1, <1>2, <1>3, <1>4, <1>5, <1>6

\* plans::amend: between the check of the planner's claim and the commit nobody
\* takes the claim away, since the plan's row stays locked.
THEOREM AmendmentsAreClaimed == PlanSpec => AmendsUnderClaim
<1> DEFINE Claimed == \A p \in Threads : amendments'[p] > amendments[p] => held[p] /\ held'[p]
<1>1. PlanInv /\ [PlanNext]_planVars => [Claimed]_planVars
  BY AmendsHeld
<1> QED
  BY <1>1, PlanInvariant, PTL DEF PlanSpec, AmendsUnderClaim

\* close_parent_in_tx: when a close takes the plan with it, every child the plan has
\* at the commit is closed and landed, whatever else was under way.
THEOREM PlansCloseBehindLanded == PlanSpec => PlanClosesBehindLanded
<1> DEFINE Last == \A p \in PlanKind :
             /\ IsOpen(p) /\ state'[p] = "closed"
             /\ \E c \in Children(p) : IsOpen(c) /\ state'[c] = "closed"
             => \A c \in Threads : plan'[c] = p => state'[c] = "closed" /\ c \in landed'
<1>1. PlanInv /\ [PlanNext]_planVars => [Last]_planVars
  BY ClosesBehind DEF Children
<1> QED
  BY <1>1, PlanInvariant, PTL DEF PlanSpec, PlanClosesBehindLanded

-----------------------------------------------------------------------------
(* Idempotency keys.  What ties a run to the row: a run whose lock has not *)
(* passed still owns the row, and every lease but the row's own has been   *)
(* settled, one way or another.                                            *)

\* Runs have leases of their own.
LeasesApart ==
  /\ \A r \in Requests : Runs(r) => request[r].lease \in 1 .. lastLease
  /\ \A q, r \in Requests : Runs(q) /\ Runs(r) /\ q # r => request[q].lease # request[r].lease

\* The row is the reservation of lease l, locked and unanswered.
Reserving(l) == row.there /\ row.lease = l /\ row.answer = Unset /\ row.locked

HolderLocked ==
  \A r \in Requests : Runs(r) => request[r].lease \in lapsed \/ Reserving(request[r].lease)

\* What a row that is there says of its lease.
RowWhole ==
  /\ row.there => /\ row.lease = lastLease /\ row.lease # Unset
                  /\ printOf[row.lease] = row.print
                  /\ row.locked => row.fresh
                  /\ ~row.fresh => row.lease \in expired
                  /\ ~row.locked /\ row.answer = Unset => row.lease \in lapsed
  /\ row.answer # Unset => row.there /\ row.answer = row.lease

\* A lease that is not the row's was overtaken, released or expired.
Settled ==
  \A l \in 1 .. lastLease :
    l \in lapsed \cup unkept \cup expired \/ (row.there /\ row.lease = l)

KeyInv == KeyTypeOK /\ LeasesApart /\ HolderLocked /\ RowWhole /\ Settled
            /\ ReplaysOwnAnswer /\ NoOverlap

LEMMA KeyInitial == KeyInit => KeyInv
  BY KeyConstants, SMTT(30)
     DEF KeyInit, KeyInv, KeyTypeOK, KeyRows, KeyRequests, KeyPrints, LeasesApart,
     HolderLocked, RowWhole, Settled, ReplaysOwnAnswer, NoOverlap, Runs, NoKey, NoRequest, Unset

LEMMA DeleteExpiredInv ==
  ASSUME KeyInv, NEW r \in Requests, DeleteExpired(r)
  PROVE  KeyInv'
<1> USE KeyConstants DEF DeleteExpired, NoKey, Unset, Goto, keyHistory
<1>1. KeyTypeOK'
  <2>1. request' \in [Requests -> KeyRequests] /\ lastLease' = lastLease
    BY DEF KeyInv, KeyTypeOK, KeyRequests
  <2>2. NoKey \in KeyRows
    BY SMTT(30) DEF KeyInv, KeyTypeOK, KeyRows
  <2>3. row' \in KeyRows
    BY <2>2 DEF KeyInv, KeyTypeOK
  <2> QED BY <2>1, <2>3 DEF KeyInv, KeyTypeOK, KeyRows, KeyRequests, KeyPrints
<1>2. LeasesApart'
  BY SMTT(30) DEF KeyInv, LeasesApart, Runs
<1>3. HolderLocked'
  BY DEF KeyInv, KeyTypeOK, KeyRows, KeyRequests, RowWhole, HolderLocked, Reserving, Runs
<1>4. RowWhole'
  BY DEF KeyInv, RowWhole
<1>5. Settled'
  BY DEF KeyInv, KeyTypeOK, KeyRows, KeyRequests, RowWhole, Settled
<1>6. ReplaysOwnAnswer'
  BY DEF KeyInv, ReplaysOwnAnswer
<1>7. NoOverlap'
  BY SMTT(30) DEF KeyInv, NoOverlap, Runs
<1> QED BY <1>1, <1>2, <1>3, <1>4, <1>5, <1>6, <1>7 DEF KeyInv

LEMMA ReserveInv ==
  ASSUME KeyInv, NEW r \in Requests, Reserve(r)
  PROVE  KeyInv'
<1> USE KeyConstants DEF Reserve, TakesOver, Unset
<1>1. KeyTypeOK'
  BY SMTT(30) DEF KeyInv, KeyTypeOK, KeyRows, KeyRequests, KeyPrints
<1>2. LeasesApart'
  BY SMTT(30) DEF KeyInv, KeyTypeOK, KeyRows, KeyRequests, LeasesApart, Runs
<1>3. HolderLocked'
  BY SMTT(30) DEF KeyInv, HolderLocked, Reserving, Runs
<1>4. RowWhole'
  BY SMTT(30) DEF KeyInv, KeyTypeOK, KeyRows, KeyRequests, RowWhole
<1>5. Settled'
  BY SMTT(30) DEF KeyInv, KeyTypeOK, KeyRows, KeyRequests, RowWhole, Settled
<1>6. ReplaysOwnAnswer'
  BY SMTT(30) DEF KeyInv, KeyTypeOK, KeyRows, KeyRequests, ReplaysOwnAnswer
<1>7. NoOverlap'
  BY SMTT(30) DEF KeyInv, KeyTypeOK, KeyRows, KeyRequests, HolderLocked, Reserving, NoOverlap, Runs
<1> QED BY <1>1, <1>2, <1>3, <1>4, <1>5, <1>6, <1>7 DEF KeyInv

LEMMA ReservedInv ==
  ASSUME KeyInv, NEW r \in Requests, Reserved(r)
  PROVE  KeyInv'
<1> USE KeyConstants DEF Reserved, Goto, keyHistory
<1>1. KeyTypeOK'
  BY ZenonT(20) DEF KeyInv, KeyTypeOK, KeyRows, KeyRequests, KeyPrints
<1>2. LeasesApart'
  BY SMTT(30) DEF KeyInv, LeasesApart, Runs
<1>3. HolderLocked'
  BY SMTT(30) DEF KeyInv, HolderLocked, Reserving, Runs
<1>4. RowWhole'
  BY DEF KeyInv, RowWhole
<1>5. Settled'
  BY DEF KeyInv, Settled
<1>6. ReplaysOwnAnswer'
  BY DEF KeyInv, ReplaysOwnAnswer
<1>7. NoOverlap'
  BY SMTT(30) DEF KeyInv, NoOverlap, Runs
<1> QED BY <1>1, <1>2, <1>3, <1>4, <1>5, <1>6, <1>7 DEF KeyInv

LEMMA SelectInv ==
  ASSUME KeyInv, NEW r \in Requests, Select(r)
  PROVE  KeyInv'
<1> USE KeyConstants DEF Select, Replays, NoRequest, Unset
<1>1. KeyTypeOK'
  BY SMTT(30) DEF KeyInv, KeyTypeOK, KeyRows, KeyRequests, KeyPrints
<1>2. LeasesApart'
  BY SMTT(30) DEF KeyInv, LeasesApart, Runs
<1>3. HolderLocked'
  BY SMTT(30) DEF KeyInv, HolderLocked, Reserving, Runs
<1>4. RowWhole'
  BY DEF KeyInv, RowWhole
<1>5. Settled'
  BY DEF KeyInv, Settled
<1>6. ReplaysOwnAnswer'
  BY SMTT(30) DEF KeyInv, KeyTypeOK, KeyRows, KeyRequests, RowWhole, ReplaysOwnAnswer
<1>7. NoOverlap'
  BY SMTT(30) DEF KeyInv, NoOverlap, Runs
<1> QED BY <1>1, <1>2, <1>3, <1>4, <1>5, <1>6, <1>7 DEF KeyInv

LEMMA CommitWriteInv ==
  ASSUME KeyInv, NEW r \in Requests, CommitWrite(r)
  PROVE  KeyInv'
<1> USE KeyConstants DEF CommitWrite
<1>1. KeyTypeOK'
  BY ZenonT(20) DEF KeyInv, KeyTypeOK, KeyRows, KeyRequests, KeyPrints, LeasesApart, Runs
<1>2. LeasesApart'
  BY SMTT(30) DEF KeyInv, LeasesApart, Runs
<1>3. HolderLocked'
  BY SMTT(30) DEF KeyInv, HolderLocked, Reserving, Runs
<1>4. RowWhole'
  BY DEF KeyInv, RowWhole
<1>5. Settled'
  BY DEF KeyInv, Settled
<1>6. ReplaysOwnAnswer'
  BY DEF KeyInv, ReplaysOwnAnswer
<1>7. NoOverlap'
  BY SMTT(30) DEF KeyInv, NoOverlap, Runs
<1> QED BY <1>1, <1>2, <1>3, <1>4, <1>5, <1>6, <1>7 DEF KeyInv

LEMMA AnswerInv ==
  ASSUME KeyInv, NEW r \in Requests, NEW pc \in {"complete", "release"}, Answer(r, pc)
  PROVE  KeyInv'
<1> USE KeyConstants DEF Answer, Goto, keyHistory
<1>1. KeyTypeOK'
  BY ZenonT(20) DEF KeyInv, KeyTypeOK, KeyRows, KeyRequests, KeyPrints
<1>2. LeasesApart'
  BY SMTT(30) DEF KeyInv, LeasesApart, Runs
<1>3. HolderLocked'
  BY SMTT(30) DEF KeyInv, HolderLocked, Reserving, Runs
<1>4. RowWhole'
  BY DEF KeyInv, RowWhole
<1>5. Settled'
  BY DEF KeyInv, Settled
<1>6. ReplaysOwnAnswer'
  BY DEF KeyInv, ReplaysOwnAnswer
<1>7. NoOverlap'
  BY SMTT(30) DEF KeyInv, NoOverlap, Runs
<1> QED BY <1>1, <1>2, <1>3, <1>4, <1>5, <1>6, <1>7 DEF KeyInv

LEMMA CompleteKeyInv ==
  ASSUME KeyInv, NEW r \in Requests, CompleteKey(r)
  PROVE  KeyInv'
<1> USE KeyConstants DEF CompleteKey, Owns, NoRequest, Unset, keyHistory
<1>1. KeyTypeOK'
  <2>1. NoRequest \in KeyRequests /\ lastLease' = lastLease
    BY SMTT(30) DEF KeyInv, KeyTypeOK, KeyRequests
  <2>2. request' \in [Requests -> KeyRequests]
    BY <2>1 DEF KeyInv, KeyTypeOK
  <2>3. request[r].lease \in 0 .. lastLease
    BY DEF KeyInv, KeyTypeOK, KeyRequests
  <2>4. row' \in KeyRows
    BY <2>3 DEF KeyInv, KeyTypeOK, KeyRows
  <2> QED BY <2>1, <2>2, <2>3, <2>4 DEF KeyInv, KeyTypeOK, KeyRows, KeyRequests, KeyPrints
<1>2. LeasesApart'
  BY SMTT(30) DEF KeyInv, LeasesApart, Runs
<1>3. HolderLocked'
  BY SMTT(30) DEF KeyInv, KeyTypeOK, KeyRows, KeyRequests, LeasesApart, HolderLocked, Reserving, Runs
<1>4. RowWhole'
  BY SMTT(30) DEF KeyInv, RowWhole
<1>5. Settled'
  BY SMTT(30) DEF KeyInv, Settled
<1>6. ReplaysOwnAnswer'
  BY DEF KeyInv, ReplaysOwnAnswer
<1>7. NoOverlap'
  BY SMTT(30) DEF KeyInv, NoOverlap, Runs
<1> QED BY <1>1, <1>2, <1>3, <1>4, <1>5, <1>6, <1>7 DEF KeyInv

LEMMA ReleaseKeyInv ==
  ASSUME KeyInv, NEW r \in Requests, ReleaseKey(r)
  PROVE  KeyInv'
<1> USE KeyConstants DEF ReleaseKey, Owns, NoRequest, NoKey, Unset
<1>1. KeyTypeOK'
  <2>1. NoRequest \in KeyRequests /\ lastLease' = lastLease
    BY SMTT(30) DEF KeyInv, KeyTypeOK, KeyRequests
  <2>2. request' \in [Requests -> KeyRequests]
    BY <2>1 DEF KeyInv, KeyTypeOK
  <2>3. request[r].lease \in 0 .. lastLease
    BY DEF KeyInv, KeyTypeOK, KeyRequests
  <2>4. row' \in KeyRows
    BY <2>3 DEF KeyInv, KeyTypeOK, KeyRows
  <2> QED BY <2>1, <2>2, <2>3, <2>4 DEF KeyInv, KeyTypeOK, KeyRows, KeyRequests, KeyPrints
<1>2. LeasesApart'
  BY SMTT(30) DEF KeyInv, LeasesApart, Runs
<1>3. HolderLocked'
  BY DEF KeyInv, KeyTypeOK, KeyRows, KeyRequests, LeasesApart, HolderLocked, Reserving, Runs
<1>4. RowWhole'
  BY DEF KeyInv, RowWhole
<1>5. Settled'
  BY DEF KeyInv, Settled
<1>6. ReplaysOwnAnswer'
  BY DEF KeyInv, ReplaysOwnAnswer
<1>7. NoOverlap'
  BY SMTT(30) DEF KeyInv, NoOverlap, Runs
<1> QED BY <1>1, <1>2, <1>3, <1>4, <1>5, <1>6, <1>7 DEF KeyInv

LEMMA GoneRequestInv ==
  ASSUME KeyInv, NEW r \in Requests, GoneRequest(r)
  PROVE  KeyInv'
<1> USE KeyConstants DEF GoneRequest, NoRequest, Unset, keyHistory
<1>1. KeyTypeOK'
  BY SMTT(30) DEF KeyInv, KeyTypeOK, KeyRows, KeyRequests, KeyPrints
<1>2. LeasesApart'
  BY SMTT(30) DEF KeyInv, LeasesApart, Runs
<1>3. HolderLocked'
  BY SMTT(30) DEF KeyInv, HolderLocked, Reserving, Runs
<1>4. RowWhole'
  BY DEF KeyInv, RowWhole
<1>5. Settled'
  BY DEF KeyInv, Settled
<1>6. ReplaysOwnAnswer'
  BY DEF KeyInv, ReplaysOwnAnswer
<1>7. NoOverlap'
  BY SMTT(30) DEF KeyInv, NoOverlap, Runs
<1> QED BY <1>1, <1>2, <1>3, <1>4, <1>5, <1>6, <1>7 DEF KeyInv

LEMMA LockLapsesInv ==
  ASSUME KeyInv, LockLapses
  PROVE  KeyInv'
<1> USE KeyConstants DEF LockLapses, Unset
<1>1. KeyTypeOK'
  BY DEF KeyInv, KeyTypeOK, KeyRows, KeyRequests, KeyPrints
<1>2. LeasesApart'
  BY DEF KeyInv, LeasesApart, Runs
<1>3. HolderLocked'
  BY DEF KeyInv, HolderLocked, Reserving, Runs
<1>4. RowWhole'
  BY SMTT(30) DEF KeyInv, RowWhole
<1>5. Settled'
  BY SMTT(30) DEF KeyInv, Settled
<1>6. ReplaysOwnAnswer'
  BY DEF KeyInv, ReplaysOwnAnswer
<1>7. NoOverlap'
  BY DEF KeyInv, NoOverlap, Runs
<1> QED BY <1>1, <1>2, <1>3, <1>4, <1>5, <1>6, <1>7 DEF KeyInv

LEMMA PruneExpiredInv ==
  ASSUME KeyInv, PruneExpired
  PROVE  KeyInv'
<1> USE KeyConstants DEF PruneExpired, NoKey, Unset, keyHistory
<1>1. KeyTypeOK'
  BY SMTT(30) DEF KeyInv, KeyTypeOK, KeyRows, KeyRequests, KeyPrints
<1>2. LeasesApart'
  BY DEF KeyInv, LeasesApart, Runs
<1>3. HolderLocked'
  BY DEF KeyInv, KeyTypeOK, KeyRows, KeyRequests, RowWhole, HolderLocked, Reserving, Runs
<1>4. RowWhole'
  BY DEF KeyInv, RowWhole
<1>5. Settled'
  BY DEF KeyInv, KeyTypeOK, KeyRows, KeyRequests, RowWhole, Settled
<1>6. ReplaysOwnAnswer'
  BY DEF KeyInv, ReplaysOwnAnswer
<1>7. NoOverlap'
  BY DEF KeyInv, NoOverlap, Runs
<1> QED BY <1>1, <1>2, <1>3, <1>4, <1>5, <1>6, <1>7 DEF KeyInv

LEMMA KeyExpiresInv ==
  ASSUME KeyInv, KeyExpires
  PROVE  KeyInv'
<1> USE KeyConstants DEF KeyExpires, Unset
<1>1. KeyTypeOK'
  BY DEF KeyInv, KeyTypeOK, KeyRows, KeyRequests, KeyPrints
<1>2. LeasesApart'
  BY DEF KeyInv, LeasesApart, Runs
<1>3. HolderLocked'
  BY DEF KeyInv, HolderLocked, Reserving, Runs
<1>4. RowWhole'
  BY SMTT(30) DEF KeyInv, RowWhole
<1>5. Settled'
  BY DEF KeyInv, Settled
<1>6. ReplaysOwnAnswer'
  BY DEF KeyInv, ReplaysOwnAnswer
<1>7. NoOverlap'
  BY DEF KeyInv, NoOverlap, Runs
<1> QED BY <1>1, <1>2, <1>3, <1>4, <1>5, <1>6, <1>7 DEF KeyInv

LEMMA KeyStep ==
  ASSUME KeyInv, [KeyNext]_keyVars
  PROVE  KeyInv'
<1>1. CASE UNCHANGED keyVars
  BY <1>1 DEF keyVars, KeyInv, KeyTypeOK, KeyRows, KeyRequests, KeyPrints, LeasesApart,
              HolderLocked, Reserving, RowWhole, Settled, ReplaysOwnAnswer, NoOverlap, Runs
<1>2. CASE KeyNext
  BY <1>2, DeleteExpiredInv, ReserveInv, ReservedInv, SelectInv, CommitWriteInv, AnswerInv,
     CompleteKeyInv, ReleaseKeyInv, GoneRequestInv, LockLapsesInv, PruneExpiredInv,
     KeyExpiresInv DEF KeyNext
<1> QED BY <1>1, <1>2

LEMMA KeyAlways == KeySpec => []KeyInv
  BY KeyInitial, KeyStep, PTL DEF KeySpec
-----------------------------------------------------------------------------
\* The key's row and the requests' leases stay what their columns allow.
THEOREM KeyTypeCorrect == KeySpec => []KeyTypeOK
<1>1. KeyInv => KeyTypeOK
  BY DEF KeyInv
<1> QED BY <1>1, KeyAlways, PTL

\* Two runs of one key are under way together only when the lock of the earlier
\* passed (the upsert of reserve, the lease in the WHERE of complete and release).
THEOREM RunsDoNotOverlap == KeySpec => []NoOverlap
<1>1. KeyInv => NoOverlap
  BY DEF KeyInv
<1> QED BY <1>1, KeyAlways, PTL

\* A write repeats only for one of the three reasons the middleware has: the
\* lock passed, the answer was not kept, the kept answer expired.
THEOREM RepeatsHaveAReason == KeySpec => []WritesAgainOnlyIf
<1>1. KeyInv => WritesAgainOnlyIf
  BY SMTT(30) DEF KeyInv, KeyTypeOK, RowWhole, Settled, WritesAgainOnlyIf
<1> QED BY <1>1, KeyAlways, PTL

\* A stored answer is only replayed to the request it answers: the lease in the
\* WHERE of complete keeps a late run from answering for its successor.
THEOREM AnswersAreOwn == KeySpec => []ReplaysOwnAnswer
<1>1. KeyInv => ReplaysOwnAnswer
  BY DEF KeyInv
<1> QED BY <1>1, KeyAlways, PTL

\* An answer once stored is final until it expires.
THEOREM AnswersAreFinal == KeySpec => KeptAnswerStays
<1> DEFINE Kept == row.answer # Unset =>
             (row'.there /\ row'.answer = row.answer) \/ (row' = NoKey /\ ~row.fresh)
<1>1. ASSUME KeyInv, KeyNext PROVE Kept
  BY <1>1 DEF KeyInv, KeyTypeOK, KeyRows, RowWhole, KeyNext, DeleteExpired, Reserve,
     TakesOver, Reserved, Select, CommitWrite, Answer, CompleteKey, ReleaseKey, Owns, GoneRequest, LockLapses,
     PruneExpired, KeyExpires
<1>2. KeyInv /\ [KeyNext]_keyVars => [Kept]_keyVars
  BY <1>1
<1> QED BY <1>2, KeyAlways, PTL DEF KeySpec, KeptAnswerStays

=============================================================================
