------------------------------- MODULE Plans -------------------------------
(***************************************************************************)
(* Plans and dependencies (maidan-store/src/postgres/plans.rs,             *)
(* thread_deps.rs): a planner fans a thread out into children with edges   *)
(* between them, children land or close without landing, the plan closes   *)
(* behind its last child, and amendments change it meanwhile.              *)
(*                                                                         *)
(* Postgres runs these READ COMMITTED.  A transaction's writes are kept in *)
(* its record until it commits; it waits for thread rows locked FOR UPDATE *)
(* (lock), also where a foreign key takes a share lock, and for the        *)
(* workspace's event-log lock (logLock) at its first event.  Any           *)
(* transaction may roll back: a deadlock victim, a lost connection, a      *)
(* refusal.  Claims, reviews and gates are those of ThreadClaims and       *)
(* ThreadReview; here a claim is a bit and a gate passes or refuses.       *)
(* Archiving, and an abandoned close that names a replacement, are left    *)
(* out.                                                                    *)
(***************************************************************************)
EXTENDS Integers

CONSTANTS
  Threads,        \* thread ids, used or not yet used
  Roots,          \* the threads that exist at the start
  PlanKind,       \* threads with attributes.kind = plan
  Closers,        \* transactions that close a thread
  Amenders,       \* transactions that amend a plan
  Adders,         \* transactions that add a dependency
  None,
  MaxAmendments   \* PLAN_MAX_AMENDMENTS

ASSUME PlanConstants ==
  /\ Roots \subseteq Threads
  /\ PlanKind \subseteq Threads
  /\ None \notin Threads \cup Closers \cup Amenders \cup Adders
  /\ Closers \cap Amenders = {}
  /\ MaxAmendments \in Nat

VARIABLES
  state,       \* thread state, "absent" before the thread is made
  held,        \* the thread has a live claim
  plan,        \* maidan_thread_plan_children: the plan a thread is a child of
  amendments,  \* maidan_thread_plans: amendments made, -1 before submission
  needs,       \* maidan_thread_dependencies: pairs <<thread, depends on>>
  block,       \* maidan_thread_blocks: "hold" (plan hold), "dag", "person"
  landed,      \* threads with a ThreadLanded event
  abandoned,   \* maidan_thread_unlanded_closes
  refused,     \* plans told that a gate refused their close
  lock,        \* owner of each thread row's FOR UPDATE lock
  logLock,     \* owner of the event-log lock
  closer, amender, adder,   \* transactions in flight
  loosened,    \* history: plans a child left, or landed after its close
  based,       \* history: edges to a child as it closed without landing
  cleared,     \* history: threads a person cleared a block from after that
  released,    \* history: threads a plan's release cleared after that
  raced        \* history: an edge was written that no check covered

rows == <<state, held, plan, amendments, needs, block, landed, abandoned, refused>>
history == <<loosened, based, cleared, released, raced>>
planVars == <<rows, lock, logLock, closer, amender, adder, history>>

\* What a closing, an amending and an adding transaction has in hand.
Closure(pc, t, closed, ended, abandon) ==
  [pc |-> pc, at |-> t, closed |-> closed, landed |-> ended, abandon |-> abandon]
Amendment(pc, p, cancel, add, rewritten, wires, hold) ==
  [pc |-> pc, plan |-> p, cancel |-> cancel, add |-> add, rewritten |-> rewritten,
   wires |-> wires, hold |-> hold]
Addition(pc, e, stale) == [pc |-> pc, edge |-> e, stale |-> stale]
NoClose == Closure("idle", None, {}, {}, {})
NoAmend == Amendment("idle", None, {}, {}, {}, {}, FALSE)
NoAdd == Addition("idle", <<None, None>>, FALSE)

PlanInit ==
  /\ state = [t \in Threads |-> IF t \in Roots THEN "open" ELSE "absent"]
  /\ held = [t \in Threads |-> FALSE]
  /\ plan = [t \in Threads |-> None]
  /\ amendments = [t \in Threads |-> -1]
  /\ needs = {}
  /\ block = [t \in Threads |-> "none"]
  /\ landed = {} /\ abandoned = {} /\ refused = {}
  /\ lock = [t \in Threads |-> None]
  /\ logLock = None
  /\ closer = [x \in Closers |-> NoClose]
  /\ amender = [x \in Amenders |-> NoAmend]
  /\ adder = [x \in Adders |-> NoAdd]
  /\ loosened = {} /\ based = {} /\ cleared = {} /\ released = {} /\ raced = FALSE

IsOpen(t) == state[t] \in {"open", "in_review"}
Children(p) == {c \in Threads : plan[c] = p}
Free(S) == \A t \in S : lock[t] = None
\* Ids that no thread has and no transaction is about to give (Uuid::now_v7).
Unused(S) == \A t \in S : state[t] = "absent" /\ \A x \in Amenders : t \notin amender[x].add
Released(x) == [t \in Threads |-> IF lock[t] = x THEN None ELSE lock[t]]
LogReleased(x) == IF logLock = x THEN None ELSE logLock

\* t is on a path of E that starts with an edge out of s.
Reaches(E, s, t) ==
  \A S \in SUBSET Threads : (\A e \in E : e[1] \in S \cup {s} => e[2] \in S) => t \in S
Acyclic(E) == \A t \in Threads : ~ Reaches(E, t, t)

-----------------------------------------------------------------------------
\* Claims, as far as plans see them.

WaitsOn(t) == {d \in Threads : <<t, d>> \in needs /\ (IsOpen(d) \/ d \in abandoned)}

\* claim_next: BLOCKED and WAITING, on a row nobody has locked (SKIP LOCKED).
Claim(t) ==
  /\ state[t] = "open" /\ ~held[t] /\ block[t] = "none" /\ WaitsOn(t) = {}
  /\ Free({t}) /\ logLock = None
  /\ held' = [held EXCEPT ![t] = TRUE]
  /\ UNCHANGED <<state, plan, amendments, needs, block, landed, abandoned, refused,
                 lock, logLock, closer, amender, adder, history>>

\* claim_with_event: by id, whatever the thread's state.
ClaimById(t) ==
  /\ state[t] # "absent" /\ ~held[t] /\ Free({t}) /\ logLock = None
  /\ held' = [held EXCEPT ![t] = TRUE]
  /\ UNCHANGED <<state, plan, amendments, needs, block, landed, abandoned, refused,
                 lock, logLock, closer, amender, adder, history>>

\* Release, lapse.
DropClaim(t) ==
  /\ held[t] /\ Free({t}) /\ logLock = None
  /\ held' = [held EXCEPT ![t] = FALSE]
  /\ UNCHANGED <<state, plan, amendments, needs, block, landed, abandoned, refused,
                 lock, logLock, closer, amender, adder, history>>

StartReview(t) ==
  /\ state[t] = "open" /\ Free({t}) /\ logLock = None
  /\ state' = [state EXCEPT ![t] = "in_review"]
  /\ UNCHANGED <<held, plan, amendments, needs, block, landed, abandoned, refused,
                 lock, logLock, closer, amender, adder, history>>

\* A person sets or clears a block; setting one replaces the one that is there.
SetBlock(t) ==
  /\ IsOpen(t) /\ Free({t}) /\ logLock = None /\ block[t] # "person"
  /\ block' = [block EXCEPT ![t] = "person"]
  /\ UNCHANGED <<state, held, plan, amendments, needs, landed, abandoned, refused,
                 lock, logLock, closer, amender, adder, history>>

ClearBlock(t) ==
  /\ block[t] # "none" /\ logLock = None
  /\ block' = [block EXCEPT ![t] = "none"]
  /\ cleared' = cleared \cup {t}
  /\ UNCHANGED <<state, held, plan, amendments, needs, landed, abandoned, refused,
                 lock, logLock, closer, amender, adder, loosened, based, released, raced>>

\* A merge webhook records ThreadLanded and closes nothing.
LandedFact(t) ==
  /\ state[t] # "absent" /\ t \notin landed /\ logLock = None
  /\ landed' = landed \cup {t}
  /\ loosened' = IF state[t] = "closed" /\ plan[t] # None
                 THEN loosened \cup {plan[t]} ELSE loosened
  /\ UNCHANGED <<state, held, plan, amendments, needs, block, abandoned, refused,
                 lock, logLock, closer, amender, adder, based, cleared, released, raced>>

-----------------------------------------------------------------------------
\* submit: parent_row, hold_check, existing, then the children and their edges.
\* The caller's claim under its lease is the plan's live claim.
Submit(p, kids, edges, hold) ==
  /\ p \in PlanKind /\ held[p] /\ Free({p}) /\ logLock = None
  /\ amendments[p] = -1
  /\ kids # {} /\ Unused(kids)
  /\ edges \subseteq kids \X kids /\ Acyclic(edges)
  /\ state' = [t \in Threads |-> IF t \in kids THEN "open" ELSE state[t]]
  /\ plan' = [t \in Threads |-> IF t \in kids THEN p ELSE plan[t]]
  /\ amendments' = [amendments EXCEPT ![p] = 0]
  /\ needs' = needs \cup edges
  /\ block' = [t \in Threads |-> IF t \in kids /\ hold THEN "hold" ELSE block[t]]
  /\ UNCHANGED <<held, landed, abandoned, refused, lock, logLock, closer, amender,
                 adder, history>>

\* release: clears the plan hold and no other block.
Release(p) ==
  LET freed == {c \in Children(p) : block[c] = "hold"} IN
  /\ freed # {}
  /\ block' = [t \in Threads |-> IF t \in freed THEN "none" ELSE block[t]]
  /\ released' = released \cup freed
  /\ UNCHANGED <<state, held, plan, amendments, needs, landed, abandoned, refused,
                 lock, logLock, closer, amender, adder, loosened, based, cleared, raced>>

-----------------------------------------------------------------------------
\* A close: by the merge of its pull request, by hand, cancelled or abandoned.
\* The thread row first (transition_in_tx, cancel_in_tx, close_abandoned) ...
CloseThread(x, c, how) ==
  /\ closer[x].pc = "idle"
  /\ IsOpen(c) /\ Free({c})
  /\ how = "hand" => state[c] = "in_review"
  /\ lock' = [lock EXCEPT ![c] = x]
  /\ closer' = [closer EXCEPT ![x] =
       Closure("row", c, {c}, IF how = "land" THEN {c} ELSE {},
               IF how = "abandon" THEN {c} ELSE {})]
  /\ UNCHANGED <<rows, logLock, amender, adder, history>>

\* ... then its first event, behind the log lock.
AppendChange(x) ==
  /\ closer[x].pc = "row"
  /\ logLock = None
  /\ logLock' = x
  /\ closer' = [closer EXCEPT ![x].pc = "settle"]
  /\ UNCHANGED <<rows, lock, amender, adder, history>>

IsClosed(x, t) == state[t] = "closed" \/ t \in closer[x].closed
HasLanded(x, t) == t \in landed \cup closer[x].landed

\* The transaction commits.
CommitClose(x) ==
  /\ state' = [t \in Threads |-> IF t \in closer[x].closed THEN "closed" ELSE state[t]]
  /\ held' = [t \in Threads |-> held[t] /\ t \notin closer[x].closed]
  /\ landed' = landed \cup closer[x].landed
  /\ abandoned' = abandoned \cup closer[x].abandon
  /\ lock' = Released(x)
  /\ logLock' = LogReleased(x)
  /\ closer' = [closer EXCEPT ![x] = NoClose]
  /\ UNCHANGED <<plan, amendments, needs, amender, adder>>

\* Mutant: the plan's row is read without FOR UPDATE.
LocksPlanNever(x, p) == TRUE
LocksPlan(x, p) == Free({p})

\* Mutants: a plan that was put in review is passed over; a child that finished
\* without landing counts as landed.
CompleteFromOpen(x, p) ==
  state[p] = "open" /\ \A c \in Children(p) : IsClosed(x, c) /\ HasLanded(x, c)
CompleteIfClosed(x, p) == IsOpen(p) /\ \A c \in Children(p) : IsClosed(x, c)
Complete(x, p) ==
  /\ IsOpen(p)
  /\ \A c \in Children(p) : IsClosed(x, c) /\ HasLanded(x, c)

\* after_close_in_tx, once per closed thread: no plan around it.
SettleOutside(x) ==
  /\ closer[x].pc = "settle"
  /\ plan[closer[x].at] = None
  /\ CommitClose(x)
  /\ UNCHANGED <<block, refused, history>>

\* close_parent_in_tx: the plan waits for another child, or is closed already.
SettleLanded(x) ==
  LET p == plan[closer[x].at] IN
  /\ closer[x].pc = "settle"
  /\ p # None /\ HasLanded(x, closer[x].at)
  /\ LocksPlan(x, p)
  /\ ~ Complete(x, p)
  /\ CommitClose(x)
  /\ UNCHANGED <<block, refused, history>>

\* The last child landed: the plan closes as landed, and the loop goes on with it.
ClosePlan(x) ==
  LET p == plan[closer[x].at] IN
  /\ closer[x].pc = "settle"
  /\ p # None /\ HasLanded(x, closer[x].at)
  /\ LocksPlan(x, p)
  /\ Complete(x, p)
  /\ lock' = [lock EXCEPT ![p] = x]
  /\ closer' = [closer EXCEPT ![x] =
       Closure("settle", p, closer[x].closed \cup {p}, closer[x].landed \cup {p},
               closer[x].abandon)]
  /\ UNCHANGED <<rows, logLock, amender, adder, history>>

\* A gate of the plan refuses: back to the savepoint, and one message.
RefusePlan(x) ==
  LET p == plan[closer[x].at] IN
  /\ closer[x].pc = "settle"
  /\ p # None /\ HasLanded(x, closer[x].at)
  /\ LocksPlan(x, p)
  /\ Complete(x, p)
  /\ refused' = refused \cup {p}
  /\ CommitClose(x)
  /\ UNCHANGED <<block, history>>

\* Mutant: only children of the same plan are blocked.
DependentsInPlan(c) == {t \in Threads : <<t, c>> \in needs /\ IsOpen(t) /\ plan[t] = plan[c]}
Dependents(c) == {t \in Threads : <<t, c>> \in needs /\ IsOpen(t)}

\* unlanded_in_tx: blocks open dependents that have no block, tells the plan.
SettleUnlanded(x) ==
  LET c == closer[x].at IN
  /\ closer[x].pc = "settle"
  /\ plan[c] # None /\ ~ HasLanded(x, c)
  /\ Free({plan[c]} \cup {t \in Dependents(c) : block[t] = "none"})
  /\ block' = [t \in Threads |-> IF t \in Dependents(c) /\ block[t] = "none"
                                 THEN "dag" ELSE block[t]]
  /\ based' = based \cup {<<t, c>> : t \in {u \in Threads : <<u, c>> \in needs /\ IsOpen(u)}}
  /\ cleared' = cleared \ {u \in Threads : <<u, c>> \in needs}
  /\ released' = released \ {u \in Threads : <<u, c>> \in needs}
  /\ CommitClose(x)
  /\ UNCHANGED <<refused, loosened, raced>>

RollbackClose(x) ==
  /\ closer[x].pc # "idle"
  /\ closer' = [closer EXCEPT ![x] = NoClose]
  /\ lock' = Released(x)
  /\ logLock' = LogReleased(x)
  /\ UNCHANGED <<rows, amender, adder, history>>

-----------------------------------------------------------------------------
\* amend, and AmendPlan::steps.  Locks the plan, reads children and edges.
Unclaimed(p) == {c \in Children(p) : state[c] = "open" /\ ~held[c]}

MayAmend(p) == amendments[p] \in 0 .. MaxAmendments - 1

BeginAmend(x, p, cancel, add, rewire, wires, hold) ==
  LET kept == Children(p) \ cancel
      inner == {e \in needs : e[1] \in Children(p) /\ e[2] \in Children(p)}
      orphaned == {e[1] : e \in {f \in inner : f[2] \in cancel}} \ (cancel \cup rewire)
      stay == {e \in inner : e[1] \in kept \ rewire /\ e[2] \in kept}
  IN
  /\ amender[x].pc = "idle"
  /\ p \in PlanKind /\ held[p] /\ Free({p})
  /\ MayAmend(p)
  /\ cancel \cup rewire \subseteq Unclaimed(p)
  /\ cancel \cap rewire = {}
  /\ Unused(add)
  /\ cancel \cup add \cup rewire # {}
  /\ wires \subseteq (add \cup rewire) \X (kept \cup add)
  /\ Acyclic(stay \cup wires)
  /\ lock' = [lock EXCEPT ![p] = x]
  /\ amender' = [amender EXCEPT ![x] =
       Amendment("row", p, cancel, add, rewire \cup orphaned,
                 wires \cup {e \in stay : e[1] \in orphaned},
                 hold \/ \E c \in Children(p) : block[c] = "hold")]
  /\ UNCHANGED <<rows, logLock, closer, adder, history>>

\* cancel_in_tx on each cancelled child: refused once the child has finished.
LockCancelled(x) ==
  /\ amender[x].pc = "row"
  /\ Free(amender[x].cancel)
  /\ \A c \in amender[x].cancel : IsOpen(c)
  /\ lock' = [t \in Threads |-> IF t \in amender[x].cancel THEN x ELSE lock[t]]
  /\ amender' = [amender EXCEPT ![x].pc = "log"]
  /\ UNCHANGED <<rows, logLock, closer, adder, history>>

\* Cancelling and adding write events; rewiring writes none.
AppendAmend(x) ==
  /\ amender[x].pc = "log"
  /\ IF amender[x].cancel \cup amender[x].add = {}
     THEN UNCHANGED logLock
     ELSE logLock = None /\ logLock' = x
  /\ amender' = [amender EXCEPT ![x].pc = "wire"]
  /\ UNCHANGED <<rows, lock, closer, adder, history>>

CommitAmend(x) ==
  LET a == amender[x]
      members == (Children(a.plan) \ a.cancel) \cup a.add
  IN
  /\ a.pc = "wire"
  /\ \A e \in a.wires : lock[e[1]] \in {None, x} /\ lock[e[2]] \in {None, x}
  /\ state' = [t \in Threads |-> IF t \in a.cancel THEN "closed"
                                 ELSE IF t \in a.add THEN "open" ELSE state[t]]
  /\ held' = [t \in Threads |-> held[t] /\ t \notin a.cancel]
  /\ plan' = [t \in Threads |-> IF t \in a.cancel THEN None
                                ELSE IF t \in a.add THEN a.plan ELSE plan[t]]
  /\ needs' = {e \in needs : /\ e[2] \notin a.cancel
                             /\ ~(e[1] \in a.rewritten /\ e[2] \in members)} \cup a.wires
  /\ block' = [t \in Threads |-> IF t \in a.add /\ a.hold THEN "hold" ELSE block[t]]
  /\ amendments' = [amendments EXCEPT ![a.plan] = @ + 1]
  /\ lock' = Released(x)
  /\ logLock' = LogReleased(x)
  /\ amender' = [amender EXCEPT ![x] = NoAmend]
  /\ loosened' = IF a.cancel # {} THEN loosened \cup {a.plan} ELSE loosened
  /\ raced' = (raced \/ ~ a.wires \subseteq needs)
  /\ UNCHANGED <<landed, abandoned, refused, closer, adder, based, cleared, released>>

RollbackAmend(x) ==
  /\ amender[x].pc # "idle"
  /\ amender' = [amender EXCEPT ![x] = NoAmend]
  /\ lock' = Released(x)
  /\ logLock' = LogReleased(x)
  /\ UNCHANGED <<rows, closer, adder, history>>

-----------------------------------------------------------------------------
\* Mutant: looks for a path in the direction of the new edge.
ClosesCycleForward(t, d) == Reaches(needs, t, d)
ClosesCycle(t, d) == Reaches(needs, d, t)

\* thread_deps::add: the reachability query, then the insert.
CheckEdge(x, t, d) ==
  /\ adder[x].pc = "idle"
  /\ t # d /\ state[t] # "absent" /\ state[d] # "absent"
  /\ ~ ClosesCycle(t, d)
  /\ adder' = [adder EXCEPT ![x] = Addition("insert", <<t, d>>, FALSE)]
  /\ UNCHANGED <<rows, lock, logLock, closer, amender, history>>

InsertEdge(x) ==
  LET e == adder[x].edge IN
  /\ adder[x].pc = "insert"
  /\ Free({e[1], e[2]})
  /\ needs' = needs \cup {e}
  /\ raced' = (raced \/ adder[x].stale)
  /\ adder' = [y \in Adders |-> IF y = x THEN NoAdd
                                ELSE Addition(adder[y].pc, adder[y].edge,
                                              adder[y].pc = "insert")]
  /\ UNCHANGED <<state, held, plan, amendments, block, landed, abandoned, refused,
                 lock, logLock, closer, amender, loosened, based, cleared, released>>

RollbackAdd(x) ==
  /\ adder[x].pc # "idle"
  /\ adder' = [adder EXCEPT ![x] = NoAdd]
  /\ UNCHANGED <<rows, lock, logLock, closer, amender, history>>

RemoveEdge(e) ==
  /\ e \in needs
  /\ needs' = needs \ {e}
  /\ UNCHANGED <<state, held, plan, amendments, block, landed, abandoned, refused,
                 lock, logLock, closer, amender, adder, history>>

-----------------------------------------------------------------------------
ClaimNext ==
  \E t \in Threads :
    \/ Claim(t) \/ ClaimById(t) \/ DropClaim(t) \/ StartReview(t)
    \/ SetBlock(t) \/ ClearBlock(t) \/ LandedFact(t) \/ Release(t)

SubmitNext ==
  \E p \in Threads, kids \in SUBSET Threads, edges \in SUBSET (Threads \X Threads),
     hold \in BOOLEAN : Submit(p, kids, edges, hold)

CloseNext ==
  \E x \in Closers :
    \/ \E c \in Threads, how \in {"land", "hand", "cancel", "abandon"} : CloseThread(x, c, how)
    \/ AppendChange(x) \/ SettleOutside(x) \/ SettleLanded(x) \/ ClosePlan(x)
    \/ RefusePlan(x) \/ SettleUnlanded(x) \/ RollbackClose(x)

BeginNext ==
  \E x \in Amenders, p \in Threads, cancel, add, rewire \in SUBSET Threads,
     wires \in SUBSET (Threads \X Threads), hold \in BOOLEAN :
       BeginAmend(x, p, cancel, add, rewire, wires, hold)

AmendNext ==
  \E x \in Amenders :
    \/ LockCancelled(x) \/ AppendAmend(x) \/ CommitAmend(x) \/ RollbackAmend(x)

EdgeNext ==
  \/ \E x \in Adders : \/ \E t, d \in Threads : CheckEdge(x, t, d)
                       \/ InsertEdge(x) \/ RollbackAdd(x)
  \/ \E e \in needs : RemoveEdge(e)

PlanNext == ClaimNext \/ SubmitNext \/ CloseNext \/ BeginNext \/ AmendNext \/ EdgeNext

PlanSpec == PlanInit /\ [][PlanNext]_planVars

-----------------------------------------------------------------------------
Closures ==
  [pc : {"idle", "row", "settle"}, at : Threads \cup {None}, closed : SUBSET Threads,
   landed : SUBSET Threads, abandon : SUBSET Threads]

Amendments ==
  [pc : {"idle", "row", "log", "wire"}, plan : PlanKind \cup {None},
   cancel : SUBSET Threads, add : SUBSET Threads, rewritten : SUBSET Threads,
   wires : SUBSET (Threads \X Threads), hold : BOOLEAN]

Additions ==
  [pc : {"idle", "insert"}, edge : (Threads \cup {None}) \X (Threads \cup {None}),
   stale : BOOLEAN]

PlanTypeOK ==
  /\ state \in [Threads -> {"absent", "open", "in_review", "closed"}]
  /\ held \in [Threads -> BOOLEAN]
  /\ plan \in [Threads -> PlanKind \cup {None}]
  /\ amendments \in [Threads -> -1 .. MaxAmendments]
  /\ needs \in SUBSET (Threads \X Threads)
  /\ block \in [Threads -> {"none", "hold", "dag", "person"}]
  /\ landed \in SUBSET Threads /\ abandoned \in SUBSET Threads
  /\ cleared \in SUBSET Threads /\ released \in SUBSET Threads
  /\ refused \in SUBSET PlanKind /\ loosened \in SUBSET PlanKind
  /\ lock \in [Threads -> Closers \cup Amenders \cup {None}]
  /\ logLock \in Closers \cup Amenders \cup {None}
  /\ closer \in [Closers -> Closures]
  /\ amender \in [Amenders -> Amendments]
  /\ adder \in [Adders -> Additions]
  /\ based \in SUBSET (Threads \X Threads)
  /\ raced \in BOOLEAN

\* A plan whose children have all landed is closed, or was told which gate
\* refused: of two children landing at once the second closes it, whatever else
\* runs (close_parent_in_tx).  Not so once an amendment cancelled a child or a
\* landing was recorded after the close, for neither looks at the plan again.
AllLandedClosesPlan ==
  \A p \in PlanKind \ (refused \cup loosened) :
    /\ Children(p) # {}
    /\ \A c \in Children(p) : state[c] = "closed" /\ c \in landed
    => state[p] = "closed"

\* A plan closes behind a child only when every child it has then is closed and
\* has landed, the ones other transactions were closing or adding included.
PlanClosesBehindLanded ==
  [][\A p \in PlanKind :
       /\ IsOpen(p) /\ state'[p] = "closed"
       /\ \E c \in Children(p) : IsOpen(c) /\ state'[c] = "closed"
       => \A c \in Threads : plan'[c] = p => state'[c] = "closed" /\ c \in landed']_planVars

\* An amendment takes effect under the planner's claim, which stands from the
\* check to the commit (parent_row's FOR UPDATE, hold_check).
AmendsUnderClaim ==
  [][\A p \in Threads : amendments'[p] > amendments[p] => held[p] /\ held'[p]]_planVars

\* What waited for a child that closed without landing stays blocked until a
\* person clears a block on it or a release clears the plan's hold.
UnlandedBaseBlocks ==
  \A e \in based \cap needs :
    IsOpen(e[1]) /\ e[2] \notin landed =>
      block[e[1]] # "none" \/ e[1] \in cleared \cup released

\* Dependencies form no cycle, unless an edge was written between another's
\* check and its insert, or an amendment wired it.
CycleNeedsRace == raced \/ Acyclic(needs)

\* docs/Swarms.md: "so no work starts on a base that never merged".  The code
\* leaves the plan hold in place of the block, and a release then clears it.
NoWorkOnUnlandedBase ==
  \A e \in based \cap needs :
    IsOpen(e[1]) /\ e[2] \notin landed => block[e[1]] # "none" \/ e[1] \in cleared

\* docs/Swarms.md: "Only open, unclaimed children can be cancelled or rewired".
\* The code checks a snapshot, and a claim may follow before the cancel's lock.
AmendSparesClaimed ==
  [][\A c \in Threads : plan[c] # None /\ plan'[c] = None => ~ held[c]]_planVars
=============================================================================
