---------------------------- MODULE ThreadReview ----------------------------
(***************************************************************************)
(* Landing a thread's work: the hand-off to review, the verdicts, and the  *)
(* gates a close has to pass.                                              *)
(*                                                                         *)
(* A step is one store transaction.  The claim on the thread is            *)
(* ThreadClaims' subject; here a claim only says who holds the thread and  *)
(* who ever did, and whether a send-back also drops the claim (the round   *)
(* cap) is left open.  Threads of a plan, whose close may close the plan,  *)
(* are not threads of this module.                                         *)
(***************************************************************************)
EXTENDS Integers, FiniteSets

CONSTANTS
  Threads,      \* thread ids
  Members,      \* member ids
  None,         \* SQL NULL
  Parent,       \* parent_thread_id of each thread, or None
  Family,       \* second-family review children, opened by the parent's review
  Owner,        \* owner_id of each thread, or None
  Producer,     \* created_by of each thread, or None
  Maintainers,  \* members who may close any thread as abandoned
  Delegations,  \* pairs <<d, m>>: d may act as m with a delegated token
  Critics,      \* members with the review skill
  Gaters,       \* members with the land_gate skill
  Contents,     \* result payloads, up to their hash
  Critical,     \* payloads with a critical finding
  Artifacts,    \* hashes of artifacts that may be linked
  Counts,       \* values required_count may be set to
  Pulls,        \* pull requests tracked on a thread
  PullOf,       \* the thread each pull request is tracked on
  Sweepers,     \* change sweeps, one per server replica
  MaxHeads      \* bound: commits pushed to a pull request

ASSUME ReviewConstants ==
  /\ None \notin Members \cup Threads \cup Pulls
  /\ Parent \in [Threads -> Threads \cup {None}]
  /\ Family \subseteq {t \in Threads : Parent[t] # None}
  /\ Owner \in [Threads -> Members \cup {None}]
  /\ Producer \in [Threads -> Members \cup {None}]
  /\ Maintainers \subseteq Members
  /\ Delegations \subseteq Members \X Members
  /\ Critics \subseteq Members /\ Gaters \subseteq Members
  /\ Critical \subseteq Contents
  /\ Counts \subseteq Nat
  /\ PullOf \in [Pulls -> Threads \ Family]
  /\ MaxHeads \in Nat \ {0}
  /\ IsFiniteSet(Members)

VARIABLES
  state,        \* maidan_threads.state; a review child is unborn at first
  assignee,     \* maidan_threads.assignee_id
  workers,      \* maidan_thread_workers: everyone who ever held the thread
  result,       \* maidan_thread_results: the payload and who produced it
  due,          \* critical results set whose route has not acted on them yet
  links,        \* maidan_thread_artifacts, with who linked each
  refuted,      \* threads a refutes reference targets; nothing removes one
  packet,       \* evidence root of the latest maidan_review_packets row
  approval,     \* maidan_thread_reviews: each member's standing approval
  objection,    \* ... and who has asked for changes since the result was set
  required,     \* maidan_thread_review_reqs.required_count
  named,        \* maidan_thread_reviewers
  gate,         \* maidan_thread_land_gate
  cancelled,    \* maidan_thread_cancellations
  unlanded,     \* maidan_thread_unlanded_closes
  gone,         \* members with tombstoned_at set
  head,         \* GitHub: the commits pushed to each pull request, counted
  seen,         \* maidan_pull_ci.head_sha
  lastRead,     \* the pull of a thread whose maidan_pull_ci row is newest
  fetched,      \* the read a sweep holds between GitHub and the store
  sinceBack     \* history: approvals given since the last send-back

endings == <<cancelled, unlanded>>
threadVars == <<state, assignee, workers, endings, gone>>
evidenceVars == <<result, due, links, refuted>>
verdictVars == <<approval, objection>>
ruleVars == <<required, named, gate>>
pullVars == <<head, seen, lastRead, fetched>>
vars == <<threadVars, evidenceVars, packet, verdictVars, ruleVars,
          pullVars, sinceBack>>

States == {"unborn", "open", "in_review", "closed", "archived"}
Live == {"open", "in_review"}
Terminal == {"closed", "archived"}

\* A request: the member it is made as and, with a delegated token, by whom.
Callers == [as : Members, by : {None}]
           \cup {[as |-> p[2], by |-> p[1]] : p \in Delegations}
Acting(c) == {c.as, c.by} \ {None}

Results == [content : Contents, by : Members]
Links == [sha : Artifacts, by : Members, actor : Members \cup {None}]
Evidences == [result : Results \cup {None}, artifacts : SUBSET Artifacts]
Roots == [evidence : Evidences,
          tiers    : SUBSET [sha : Artifacts, by : Members, own : BOOLEAN],
          pass     : Members \cup {None}]
Heads == Pulls \X (1 .. MaxHeads)
Approvals == [actor : Members \cup {None},
              root  : Roots,
              head  : Heads \cup {None}]
Gates == [reading : {"unarmed", "pending", "green", "refused"},
          by : Members \cup {None}, actor : Members \cup {None}]
Unarmed == [reading |-> "unarmed", by |-> None, actor |-> None]
Pending == [reading |-> "pending", by |-> None, actor |-> None]

\* NULL is no evidence root.
ASSUME NoneIsNoRoot == None \notin Roots

Exists(t) == state[t] # "unborn"

-----------------------------------------------------------------------------
(* Who is independent of a thread's work.                                  *)

\* Not the owner, not the holder, and never a holder.
Independent(t, m) == m # Owner[t] /\ m # assignee[t] /\ m \notin workers[t]

\* Members whose verdict is an approval nothing has dismissed.  A dismissed
\* one plays no further part: only a new verdict replaces it.
Approvers(t) == {m \in Members : approval[t][m] # None}

\* Who gave m's approval: COALESCE(actor_id, reviewer_id).
Person(t, m) == IF approval[t][m].actor = None THEN m ELSE approval[t][m].actor

\* RecordedPass::qualifies on the row read_in_tx reads.
PassQualifies(t) ==
  /\ gate[t].reading = "green"
  /\ gate[t].by \in Gaters
  /\ Independent(t, gate[t].by)
  /\ gate[t].actor # None => Independent(t, gate[t].actor)

-----------------------------------------------------------------------------
(* What reviewers are shown.                                               *)

Evidence(t) == [result |-> result[t], artifacts |-> {l.sha : l \in links[t]}]

\* The root a hand-off pins: the evidence and the tier of each piece.  The
\* result's author held the thread, so its tier is always self-reported.
Root(t) ==
  [evidence |-> Evidence(t),
   tiers    |-> {[sha |-> l.sha, by |-> l.by,
                  own |-> ({l.by, l.actor} \cap workers[t] # {})] :
                   l \in links[t]},
   pass     |-> IF PassQualifies(t) THEN gate[t].by ELSE None]

\* Mutant: the evidence is taken as unchanged.
UnchangedAlways(t) == TRUE

\* ensure_unchanged_in_tx: tiers are not judged again.
Unchanged(t) == packet[t].evidence = Evidence(t)

\* The change a verdict on t is about, and the head tracked for it.
Change(t) == IF t \in Family THEN Parent[t] ELSE t
CurrentHead(t) ==
  IF lastRead[Change(t)] = None THEN None ELSE seen[lastRead[Change(t)]]

-----------------------------------------------------------------------------
(* The gates.                                                              *)

\* The approval names what the current review was handed.
Bound(t, m) == packet[t] = None \/ approval[t][m].root = packet[t]

\* Approvals the close gate counts.
GateApprovals(t) ==
  {m \in Approvers(t) :
     /\ Bound(t, m)
     /\ Independent(t, m) /\ Independent(t, Person(t, m))
     /\ named[t] = {} \/ m \in named[t]
     /\ m \notin gone /\ Person(t, m) \notin gone}

\* COUNT(DISTINCT COALESCE(actor_id, reviewer_id))
People(t, ms) == {Person(t, m) : m \in ms}

Needed(t) == IF required[t] = None THEN 0 ELSE required[t]

\* Mutant: reviewers are counted instead of people.
ReviewGatePerReviewer(t) ==
  /\ Needed(t) > 0 =>
       /\ packet[t] # None => Unchanged(t)
       /\ Cardinality(GateApprovals(t)) >= Needed(t)
  /\ t \notin refuted

\* review_gate_in_tx
ReviewGate(t) ==
  /\ Needed(t) > 0 =>
       /\ packet[t] # None => Unchanged(t)
       /\ Cardinality(People(t, GateApprovals(t))) >= Needed(t)
  /\ t \notin refuted

\* Mutant: a green pass is enough, whoever recorded it.
LandGateGreen(t) == gate[t].reading \in {"unarmed", "green"}

\* land_gate::gate_in_tx
LandGate(t) == gate[t].reading = "unarmed" \/ PassQualifies(t)

\* outside_approval_in_tx: the live holder and the named set play no part
\* for a verdict, and the recorder of a pass must still be a member.
OutsideApproval(t) ==
  LET outside(m) == m # Owner[t] /\ m \notin workers[t] /\ m \notin gone
  IN \/ \E m \in Approvers(t) :
          Bound(t, m) /\ outside(m) /\ outside(Person(t, m))
     \/ PassQualifies(t) /\ gate[t].by \notin gone

\* Mutant: only the live holder is kept from landing the work.
DutiesSeparateNow(t, m) == Owner[t] = None \/ assignee[t] # m

\* separation_of_duties_in_tx, for a move to a terminal state.
DutiesSeparate(t, m) ==
  Owner[t] = None
    \/ (assignee[t] # m /\ (m \in workers[t] => OutsideApproval(t)))

Rank == [open |-> 0, in_review |-> 1, closed |-> 2, archived |-> 3]

\* parent_allows_transition; a review child the family opened is held back by
\* an archived parent only.
ParentAllows(t, to) ==
  Parent[t] # None =>
    LET p == state[Parent[t]] IN
    /\ p # "archived"
    /\ Rank[IF t \in Family THEN "open" ELSE to] <= Rank[p]

-----------------------------------------------------------------------------
Init ==
  /\ state = [t \in Threads |-> IF t \in Family THEN "unborn" ELSE "open"]
  /\ assignee = [t \in Threads |-> None]
  /\ workers = [t \in Threads |-> {}]
  /\ result = [t \in Threads |-> None]
  /\ due = [t \in Threads |-> {}]
  /\ links = [t \in Threads |-> {}]
  /\ refuted = {}
  /\ packet = [t \in Threads |-> None]
  /\ approval = [t \in Threads |-> [m \in Members |-> None]]
  /\ objection = [t \in Threads |-> {}]
  /\ required = [t \in Threads |-> None]
  /\ named = [t \in Threads |-> {}]
  /\ gate = [t \in Threads |-> Unarmed]
  /\ cancelled = {}
  /\ unlanded = {}
  /\ gone = {}
  /\ head = [p \in Pulls |-> 1]
  /\ seen = [p \in Pulls |-> None]
  /\ lastRead = [t \in Threads |-> None]
  /\ fetched = [s \in Sweepers |-> None]
  /\ sinceBack = [t \in Threads |-> {}]

\* A request is made by a live member on a thread that exists.
Asked(t, c) == Exists(t) /\ Acting(c) \cap gone = {}

-----------------------------------------------------------------------------
(* The claim and the evidence.                                             *)

\* A member takes the thread, whoever held it before.
Claim(t, c) ==
  /\ Asked(t, c) /\ assignee[t] # c.as
  /\ assignee' = [assignee EXCEPT ![t] = c.as]
  /\ workers' = [workers EXCEPT ![t] = @ \cup Acting(c)]
  /\ UNCHANGED <<state, endings, gone, evidenceVars, packet, verdictVars,
                 ruleVars, pullVars, sinceBack>>

Release(t) ==
  /\ assignee[t] # None
  /\ assignee' = [assignee EXCEPT ![t] = None]
  /\ UNCHANGED <<state, workers, endings, gone, evidenceVars, packet,
                 verdictVars, ruleVars, pullVars, sinceBack>>

\* A reviewed result with a critical finding, from a member with the skill.
Criticises(r) == r.content \in Critical /\ r.by \in Critics

\* thread_results::set; the route then acts on a critical result, in a
\* transaction of its own.
SetResult(t, c, x) ==
  /\ Asked(t, c) /\ assignee[t] = c.as
  /\ LET r == [content |-> x, by |-> c.as] IN
     /\ result' = [result EXCEPT ![t] = r]
     /\ due' = [due EXCEPT ![t] =
          IF Criticises(r) THEN @ \cup {<<r, c>>} ELSE @]
  /\ objection' = [objection EXCEPT ![t] = {}]   \* all older than the result
  /\ UNCHANGED <<threadVars, links, refuted, packet, approval, ruleVars,
                 pullVars, sinceBack>>

Link(t, c, a) ==
  /\ Asked(t, c) /\ \A l \in links[t] : l.sha # a
  /\ links' = [links EXCEPT ![t] =
       @ \cup {[sha |-> a, by |-> c.as, actor |-> c.by]}]
  /\ UNCHANGED <<threadVars, result, due, refuted, packet, verdictVars,
                 ruleVars, pullVars, sinceBack>>

Unlink(t, l) ==
  /\ l \in links[t]
  /\ links' = [links EXCEPT ![t] = @ \ {l}]
  /\ UNCHANGED <<threadVars, result, due, refuted, packet, verdictVars,
                 ruleVars, pullVars, sinceBack>>

\* A refutes reference to the thread; there is no operation that removes one.
Refute(t) ==
  /\ Exists(t) /\ t \notin refuted
  /\ refuted' = refuted \cup {t}
  /\ UNCHANGED <<threadVars, result, due, links, packet, verdictVars,
                 ruleVars, pullVars, sinceBack>>

-----------------------------------------------------------------------------
(* The rules of a thread's close.                                          *)

SetRequirement(t, k) ==
  /\ Exists(t)
  /\ required' = [required EXCEPT ![t] = k]
  /\ UNCHANGED <<threadVars, evidenceVars, packet, verdictVars, named, gate,
                 pullVars, sinceBack>>

AddReviewer(t, m) ==
  /\ Exists(t)
  /\ named' = [named EXCEPT ![t] = @ \cup {m}]
  /\ UNCHANGED <<threadVars, evidenceVars, packet, verdictVars, required,
                 gate, pullVars, sinceBack>>

RemoveReviewer(t, m) ==
  /\ m \in named[t]
  /\ named' = [named EXCEPT ![t] = @ \ {m}]
  /\ UNCHANGED <<threadVars, evidenceVars, packet, verdictVars, required,
                 gate, pullVars, sinceBack>>

SetGate(t, g) ==
  /\ gate' = [gate EXCEPT ![t] = g]
  /\ UNCHANGED <<threadVars, evidenceVars, packet, verdictVars, required,
                 named, pullVars, sinceBack>>

RequireGate(t) == Exists(t) /\ gate[t] = Unarmed /\ SetGate(t, Pending)

RecordGate(t, c, reading) ==
  /\ Asked(t, c) /\ c.as \in Gaters
  /\ SetGate(t, [reading |-> reading, by |-> c.as, actor |-> c.by])

ClearGate(t) == gate[t] # Unarmed /\ SetGate(t, Unarmed)

\* deprovision tombstones the member; its claims and verdicts stay.
RemoveMember(m) ==
  /\ m \notin gone
  /\ gone' = gone \cup {m}
  /\ UNCHANGED <<state, assignee, workers, endings, evidenceVars, packet,
                 verdictVars, ruleVars, pullVars, sinceBack>>

-----------------------------------------------------------------------------
(* Verdicts.                                                               *)

\* sends_back_in_tx
SendsBack(t, c) ==
  /\ state[t] = "in_review"
  /\ \/ Owner[t] = c.as
     \/ /\ c.as # assignee[t] /\ c.as \notin workers[t]
        /\ named[t] = {} \/ c.as \in named[t]
  /\ c.by # None => c.by # assignee[t] /\ c.by \notin workers[t]

\* Mutant: a send-back leaves the approvals standing.
DismissedNone(t) == approval[t]

\* The approvals of t once a send-back has dismissed them.
Dismissed(t) == [m \in Members |-> None]

\* submit_review_on, approving: the verdict replaces the member's last one.
Approve(t, c) ==
  /\ approval' = [approval EXCEPT ![t][c.as] =
       [actor |-> c.by, root |-> packet[t], head |-> CurrentHead(t)]]
  /\ objection' = [objection EXCEPT ![t] = @ \ {c.as}]
  /\ sinceBack' = [sinceBack EXCEPT ![t] = @ \cup {c.as}]
  /\ UNCHANGED <<state, assignee>>

\* submit_review_on, asking for changes: a request that sends the thread back
\* moves it to open and dismisses every approval, and may reach the round cap,
\* which drops the claim.
RequestChanges(t, c) ==
  /\ objection' = [objection EXCEPT ![t] = @ \cup {c.as}]
  /\ IF SendsBack(t, c)
     THEN /\ ParentAllows(t, "open")
          /\ state' = [state EXCEPT ![t] = "open"]
          /\ \E m \in {assignee[t], None} :
               assignee' = [assignee EXCEPT ![t] = m]
          /\ approval' = [approval EXCEPT ![t] = Dismissed(t)]
          /\ sinceBack' = [sinceBack EXCEPT ![t] = {}]
     ELSE /\ approval' = [approval EXCEPT ![t][c.as] = None]
          /\ sinceBack' = [sinceBack EXCEPT ![t] = @ \ {c.as}]
          /\ UNCHANGED <<state, assignee>>

\* verify_root_in_tx: the root named is the latest packet's and the evidence
\* still matches it.
MayName(t) == packet[t] # None /\ Unchanged(t)

\* The routes make an approval name a root; a change request may, and what it
\* named is never read.
SubmitReview(t, c, decision, names) ==
  /\ Asked(t, c)
  /\ names => MayName(t)
  /\ \/ decision = "approve" /\ names /\ Approve(t, c)
     \/ decision = "request_changes" /\ RequestChanges(t, c)
  /\ UNCHANGED <<workers, endings, gone, evidenceVars, packet, ruleVars,
                 pullVars>>

\* verdict_covers_result, for a change request.
Covers(t, m) == result[t] # None /\ m \in objection[t]

\* apply_critical_review_decision, for a result just set (the write path, its
\* request still at hand) or for the stored one (the router, on every replica
\* and on replay).
ApplyCritical(t, c, r) ==
  /\ Criticises(r)
  /\ \/ <<r, c>> \in due[t]
     \/ r = result[t] /\ c = [as |-> r.by, by |-> None]
  /\ due' = [due EXCEPT ![t] = @ \ {<<r, c>>}]
  /\ IF Covers(t, r.by)
     THEN UNCHANGED <<verdictVars, state, assignee, required, sinceBack>>
     ELSE /\ RequestChanges(t, c)
          /\ required' = [required EXCEPT ![t] = IF @ = None THEN 1 ELSE @]
  /\ UNCHANGED <<workers, endings, gone, result, links, refuted, packet,
                 named, gate, pullVars>>

-----------------------------------------------------------------------------
(* Transitions.                                                            *)

\* land_in_tx: past every gate, the parent's state still has its say; a
\* terminal state ends the claim.
Land(t, to) ==
  /\ ParentAllows(t, to)
  /\ state' = [state EXCEPT ![t] = to]
  /\ assignee' = [assignee EXCEPT ![t] = IF to \in Terminal THEN None ELSE @]

\* The review child a hand-off may open: it depends on the workspace and on
\* the family the author's usage names.  A second child, once the first has
\* finished, is not modelled.
Spawned(t, s) ==
  {s} \cup {[s EXCEPT ![f] = "open"] :
              f \in {x \in Family : Parent[x] = t /\ s[x] = "unborn"}}

StartReview(t, c) ==
  /\ Asked(t, c) /\ state[t] = "open"
  /\ Needed(t) > 0 => result[t] # None
  /\ packet' = [packet EXCEPT ![t] = Root(t)]
  /\ ParentAllows(t, "in_review")
  /\ state' \in Spawned(t, [state EXCEPT ![t] = "in_review"])
  /\ UNCHANGED <<assignee, workers, endings, gone, evidenceVars, verdictVars,
                 ruleVars, pullVars, sinceBack>>

Close(t, c) ==
  /\ Asked(t, c) /\ state[t] = "in_review"
  /\ DutiesSeparate(t, c.as)
  /\ ReviewGate(t) /\ LandGate(t)
  /\ Land(t, "closed")
  /\ UNCHANGED <<workers, endings, gone, evidenceVars, packet, verdictVars,
                 ruleVars, pullVars, sinceBack>>

Archive(t, c) ==
  /\ Asked(t, c) /\ state[t] = "closed"
  /\ DutiesSeparate(t, c.as)
  /\ Land(t, "archived")
  /\ UNCHANGED <<workers, endings, gone, evidenceVars, packet, verdictVars,
                 ruleVars, pullVars, sinceBack>>

\* close_abandoned: a thread with a result keeps every landing gate.
CloseAbandoned(t, c) ==
  /\ Asked(t, c) /\ state[t] \in Live
  /\ c.as = Producer[t] \/ c.as = assignee[t] \/ c.as \in Maintainers
  /\ result[t] # None =>
       DutiesSeparate(t, c.as) /\ ReviewGate(t) /\ LandGate(t)
  /\ Land(t, "closed")
  /\ unlanded' = unlanded \cup {t}
  /\ UNCHANGED <<workers, cancelled, gone, evidenceVars, packet, verdictVars,
                 ruleVars, pullVars, sinceBack>>

\* cancel_in_tx: around every gate, the parent's state included.
Cancel(t) ==
  /\ state[t] \in Live
  /\ state' = [state EXCEPT ![t] = "closed"]
  /\ assignee' = [assignee EXCEPT ![t] = None]
  /\ cancelled' = cancelled \cup {t}
  /\ UNCHANGED <<workers, unlanded, gone, evidenceVars, packet, verdictVars,
                 ruleVars, pullVars, sinceBack>>

-----------------------------------------------------------------------------
(* The head of the change under review.                                    *)

\* Someone pushes to a pull request; GitHub's state.
Push(p) ==
  /\ head[p] < MaxHeads
  /\ head' = [head EXCEPT ![p] = @ + 1]
  /\ UNCHANGED <<threadVars, evidenceVars, packet, verdictVars, ruleVars,
                 seen, lastRead, fetched, sinceBack>>

\* A sweep reads a pull request from GitHub and holds the answer.
FetchPull(s, p) ==
  /\ fetched[s] = None
  /\ fetched' = [fetched EXCEPT ![s] = <<p, head[p]>>]
  /\ UNCHANGED <<threadVars, evidenceVars, packet, verdictVars, ruleVars,
                 head, seen, lastRead, sinceBack>>

\* Mutant: a moved head dismisses nothing on the review children.
LeftBehindHere(t, ch, h) ==
  {m \in Approvers(t) : t = ch /\ approval[t][m].head \notin {None, h}}

\* dismiss_stale: the approvals on a change and its review children that
\* named a head other than h.
LeftBehind(t, ch, h) ==
  {m \in Approvers(t) : Change(t) = ch /\ approval[t][m].head \notin {None, h}}

\* pull_ci::record_with_events: whatever the row held, the read replaces it.
RecordPull(s) ==
  /\ fetched[s] # None
  /\ LET p == fetched[s][1]
         t == PullOf[p]
     IN /\ seen' = [seen EXCEPT ![p] = fetched[s]]
        /\ lastRead' = [lastRead EXCEPT ![t] = p]
        /\ approval' = [u \in Threads |-> [m \in Members |->
             IF m \in LeftBehind(u, t, fetched[s])
             THEN None ELSE approval[u][m]]]
        /\ sinceBack' = [u \in Threads |->
             sinceBack[u] \ LeftBehind(u, t, fetched[s])]
  /\ fetched' = [fetched EXCEPT ![s] = None]
  /\ UNCHANGED <<threadVars, evidenceVars, packet, objection, ruleVars, head>>

-----------------------------------------------------------------------------
Next ==
  \/ \E t \in Threads, c \in Callers :
       \/ Claim(t, c)
       \/ \E x \in Contents : SetResult(t, c, x)
       \/ \E a \in Artifacts : Link(t, c, a)
       \/ \E reading \in {"green", "refused"} : RecordGate(t, c, reading)
       \/ \E decision \in {"approve", "request_changes"}, names \in BOOLEAN :
            SubmitReview(t, c, decision, names)
       \/ \E r \in Results : ApplyCritical(t, c, r)
       \/ StartReview(t, c) \/ Close(t, c) \/ Archive(t, c)
       \/ CloseAbandoned(t, c)
  \/ \E t \in Threads :
       \/ Release(t) \/ Refute(t) \/ Cancel(t)
       \/ \E l \in links[t] : Unlink(t, l)
       \/ \E k \in Counts \cup {None} : SetRequirement(t, k)
       \/ \E m \in Members : AddReviewer(t, m) \/ RemoveReviewer(t, m)
       \/ RequireGate(t) \/ ClearGate(t)
  \/ \E m \in Members : RemoveMember(m)
  \/ \E p \in Pulls : Push(p) \/ \E s \in Sweepers : FetchPull(s, p)
  \/ \E s \in Sweepers : RecordPull(s)

Spec == Init /\ [][Next]_vars

-----------------------------------------------------------------------------
(* Properties.                                                             *)

TypeOK ==
  /\ state \in [Threads -> States]
  /\ assignee \in [Threads -> Members \cup {None}]
  /\ workers \in [Threads -> SUBSET Members]
  /\ result \in [Threads -> Results \cup {None}]
  /\ due \in [Threads -> SUBSET (Results \X Callers)]
  /\ links \in [Threads -> SUBSET Links]
  /\ refuted \subseteq Threads
  /\ packet \in [Threads -> Roots \cup {None}]
  /\ approval \in [Threads -> [Members -> Approvals \cup {None}]]
  /\ objection \in [Threads -> SUBSET Members]
  /\ required \in [Threads -> Counts \cup {None, 1}]
  /\ named \in [Threads -> SUBSET Members]
  /\ gate \in [Threads -> Gates]
  /\ cancelled \subseteq Threads /\ unlanded \subseteq Threads
  /\ gone \subseteq Members
  /\ head \in [Pulls -> 1 .. MaxHeads]
  /\ seen \in [Pulls -> Heads \cup {None}]
  /\ lastRead \in [Threads -> Pulls \cup {None}]
  /\ fetched \in [Sweepers -> Heads \cup {None}]
  /\ sinceBack \in [Threads -> SUBSET Members]

\* submit_review_on: an approval still standing was given on a hand-off and
\* since the thread was last sent back; a send-back leaves none behind.
StandingApprovals ==
  \A t \in Threads : \A m \in Approvers(t) :
    packet[t] # None /\ m \in sinceBack[t]

\* A step that lands work: closed by a transition, or closed as abandoned
\* with a result to show.
Lands(t) ==
  /\ state[t] \in Live /\ state'[t] = "closed"
  /\ t \notin cancelled'
  /\ t \in unlanded' => result[t] # None

\* review_gate_in_tx: work that needs k approvals lands only with k distinct
\* people behind it who approved exactly the evidence now on the thread, since
\* it was last sent back, and who neither own it, hold it, ever held it nor
\* have left.
LandsApproved ==
  [][\A t \in Threads :
       Lands(t) /\ Needed(t) > 0 =>
         LET shown == {m \in Approvers(t) \cap sinceBack[t] :
                         approval[t][m].root.evidence = Evidence(t)}
             involved == workers[t] \cup gone \cup {Owner[t]}
         IN Cardinality(People(t, shown) \ involved) >= Needed(t)]_vars

\* separation_of_duties_in_tx: work on an owned thread lands only with the hand
\* of someone who never held it, be it who closes it, who approved it or who
\* recorded its land-gate pass.
OwnedWorkNeedsAnOutsider ==
  [][\A t \in Threads, c \in Callers :
       (Close(t, c) \/ CloseAbandoned(t, c)) /\ Lands(t) /\ Owner[t] # None =>
         \E m \in Members \ workers[t] :
           \/ m = c.as
           \/ m \in Approvers(t)
           \/ gate[t].reading = "green" /\ gate[t].by = m]_vars

\* land_gate::gate_in_tx: once the gate is armed, work lands only with a green
\* pass that neither its owner nor anyone who ever held it recorded, as itself
\* or through another member's token.
LandsPassed ==
  [][\A t \in Threads :
       Lands(t) /\ gate[t] # Unarmed =>
         /\ gate[t].reading = "green"
         /\ gate[t].by \notin workers[t] \cup {Owner[t]}
         /\ \/ gate[t].actor = None
            \/ gate[t].actor \notin workers[t] \cup {Owner[t]}]_vars

\* submit_review_on and pull_ci::record_with_events: whatever order pushes,
\* sweeps and verdicts come in, a standing approval that names a head names
\* the one now tracked for the change, on the change and its review children.
StandingNamesHead ==
  \A t \in Threads : \A m \in Approvers(t) :
    approval[t][m].head \in {None, CurrentHead(t)}

=============================================================================
