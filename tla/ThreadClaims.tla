---------------------------- MODULE ThreadClaims ----------------------------
(***************************************************************************)
(* The claim on a thread: who holds it, under which fencing token, until   *)
(* when, since when it is being worked, and what each way of ending it     *)
(* charges to the thread's wall-time budget.                               *)
(*                                                                         *)
(* A step is one store transaction.  Every transaction modelled here locks *)
(* the thread row (FOR UPDATE, an UPDATE, or SKIP LOCKED) before it        *)
(* decides, and SQLite runs them on one connection, so they serialise; a   *)
(* read that a transaction makes before it has the lock is part of the     *)
(* same step here.  Rules that only narrow which open thread claim_next    *)
(* may pick (skills, dependency, block, footprint, priority, age) are left *)
(* out: claim_next picks any thread that passes the rules below.  The      *)
(* gates a transition must pass are ThreadReview's; here a transition is   *)
(* simply allowed to happen.                                               *)
(***************************************************************************)
EXTENDS Integers, FiniteSets

CONSTANTS
  Threads,      \* thread ids
  Members,      \* member ids
  NoMember,     \* assignee_id IS NULL
  Replicas,     \* server processes, each with its own boot grace
  Delegations,  \* pairs <<d, m>>: d may act as m with a delegated token
  Owner,        \* owner_id of each thread, or NoMember
  ReportIds,    \* usage_report_id values
  LeaseSecs,    \* lease a claim or a renewal asks for
  GraceSecs,    \* MAIDAN_CLAIM_REAPER_BOOT_GRACE_SECS
  AckSecs,      \* how long a claim may stay unacknowledged unreported
  HumanSecs,    \* MAIDAN_HUMAN_TIMEOUT_SECS
  MaxRounds,    \* review rounds before the cap; 0 turns it off
  Batch,        \* most rows one sweep transaction takes
  UseCaps,      \* values max_tokens may be set to; 0 never binds
  WallCaps,     \* values max_wall_secs may be set to; 0 never binds
  MaxTime,      \* bound: last instant of the clock
  MaxLeases     \* bound: claims made in a behaviour

ASSUME ClaimConstants ==
  /\ NoMember \notin Members
  /\ Delegations \subseteq Members \X Members
  /\ Owner \in [Threads -> Members \cup {NoMember}]
  /\ LeaseSecs \in Nat \ {0}
  /\ GraceSecs \in Nat /\ AckSecs \in Nat /\ HumanSecs \in Nat
  /\ MaxRounds \in Nat
  /\ Batch \in Nat \ {0}
  /\ UseCaps \subseteq Nat /\ WallCaps \subseteq Nat
  /\ MaxTime \in Nat /\ MaxLeases \in Nat

VARIABLES
  now,          \* the app clock, in seconds (clock::db_now)
  graceUntil,   \* ClaimGrace::until_micros of each replica
  row,          \* maidan_threads: the claim columns and the state
  budget,       \* maidan_thread_budgets
  workers,      \* maidan_thread_workers: everyone who ever held the thread
  frozen,       \* maidan_member_freezes
  roundHeld,    \* threads parked with REVIEW_ROUND_HELD_REASON
  capGate,      \* threads with a pending review_round_cap gate
  sendBacks,    \* send-backs since the last accepted round cap
  result,       \* fencing token the stored result was written under
  finished,     \* threads with a result and no later move back to open
  handedOff,    \* maidan_thread_handoffs
  status,       \* maidan_thread_status: a declared wait on a person
  ledger,       \* maidan_usage_ledger: reports taken, one unit each
  issued,       \* fencing tokens handed out so far; the next is issued + 1
  reports,      \* ClaimExpired/ClaimFailed and ClaimUnacknowledged per token
  worked,       \* history: seconds of acknowledged work within its lease
  held,         \* history: seconds any acknowledged claim stood
  dropped       \* history: worked seconds a claim end left uncharged

claimVars == <<row, budget, workers, issued, reports>>
reviewVars == <<roundHeld, capGate, sendBacks, result, finished, handedOff>>
historyVars == <<worked, held, dropped>>
vars == <<now, graceUntil, claimVars, frozen, reviewVars, status, ledger,
          historyVars>>

Null == -1
Leases == 1 .. MaxLeases
Times == 0 .. (MaxTime + LeaseSecs + GraceSecs)
States == {"open", "in_review", "closed", "archived"}
Live == {"open", "in_review"}
NoWait == [by |-> NoMember, at |-> Null]

Row == [state     : States,
        assignee  : Members \cup {NoMember},
        lease     : Leases \cup {Null},
        deadline  : Times \cup {Null},
        claimedAt : Times \cup {Null},
        started   : Times \cup {Null},
        unacked   : Leases \cup {Null}]

Budget == [max : UseCaps \cup {0}, used : Nat,
           maxWall : WallCaps \cup {0}, usedWall : Nat]

-----------------------------------------------------------------------------
(* Reading the clocks and the budget.                                      *)

\* Has the lease on a row lapsed, judged at a given clock reading?
Lapsed(r, clock) == r.deadline # Null /\ r.deadline < clock

\* Mutant: take-overs ignore the boot grace.
LeaseClockNoGrace(rep) == now

\* ClaimGrace::holding and lease_clock: through the boot grace every deadline
\* is compared with a time before all of them.
Holding(rep) == now < graceUntil[rep]
LeaseClock(rep) == IF Holding(rep) THEN 0 ELSE now

\* Seconds an acknowledged claim worked up to an instant; never negative.
WorkedSecs(r, ended) ==
  IF r.started = Null \/ ended < r.started THEN 0 ELSE ended - r.started

\* ThreadBudget::exceeded, with tokens, dollars and turns as one dimension.
Exceeded(b, secs) ==
  \/ b.max > 0 /\ b.used >= b.max
  \/ b.maxWall > 0 /\ b.usedWall + secs >= b.maxWall

Charge(b, secs) == [b EXCEPT !.usedWall = @ + secs]

-----------------------------------------------------------------------------
(* The writes a claim is made and ended with.                              *)

\* Mutants: a clearing UPDATE that forgets a column.
ClearedKeepsStart(r) ==
  [r EXCEPT !.assignee = NoMember, !.lease = Null, !.deadline = Null,
            !.claimedAt = Null]

Cleared(r) ==
  [r EXCEPT !.assignee = NoMember, !.lease = Null, !.deadline = Null,
            !.claimedAt = Null, !.started = Null]

\* Mutant: a take-over inherits the old holder's working clock.
TakenKeepsStart(r, m, deadline) ==
  [r EXCEPT !.assignee = m, !.lease = issued + 1, !.deadline = deadline,
            !.claimedAt = now]

Taken(r, m, deadline) ==
  [r EXCEPT !.assignee = m, !.lease = issued + 1, !.deadline = deadline,
            !.claimedAt = now, !.started = Null]

\* delegate_acting_for: the member itself, or with it the delegate that
\* holds its token.
ActingFor(m) == {{m}} \cup {{m, d} : d \in {x \in Members : <<x, m>> \in Delegations}}

\* Mutant: only the first worker of a thread is recorded.
RecordFirstWorker(t, who) ==
  workers' = [workers EXCEPT ![t] = IF @ = {} THEN who ELSE @]

\* thread_workers::record_in_tx, on the claim's own transaction.
RecordWorkers(t, who) == workers' = [workers EXCEPT ![t] = @ \cup who]

\* Mutant: a token is handed out twice.
SameLease == issued < MaxLeases /\ UNCHANGED issued

NewLease == issued < MaxLeases /\ issued' = issued + 1

\* The events end_lapsed_claim_in_tx and fail_claim_in_tx append.
ReportEnd(k) == [reports EXCEPT ![k].ended = @ + 1]

\* Mutant: a claim ends without charge_open_claim_in_tx.
EndClaimUncharged(t, newState) ==
  /\ row' = [row EXCEPT ![t] = [Cleared(row[t]) EXCEPT !.state = newState]]
  /\ UNCHANGED budget

\* charge_open_claim_in_tx and the clearing UPDATE that follows it.
EndClaim(t, newState) ==
  /\ row' = [row EXCEPT ![t] = [Cleared(row[t]) EXCEPT !.state = newState]]
  /\ budget' = [budget EXCEPT ![t] = Charge(@, WorkedSecs(row[t], now))]

\* Mutant: the fence forgets the token.
FencedByMember(t, m, k) == row[t].assignee = m

\* The fence: the caller's member and token are the row's.
Fenced(t, m, k) == row[t].assignee = m /\ row[t].lease = k

\* Mutant: a pending gate does not refuse, only a declined one.
RoundCapRefusesDeclined(t) == t \in roundHeld

\* refuse_round_cap_claim.
RoundCapRefuses(t) == t \in capGate \/ t \in roundHeld

-----------------------------------------------------------------------------
Init ==
  /\ now = 0
  /\ graceUntil = [rep \in Replicas |-> 0]
  /\ row = [t \in Threads |->
              [state |-> "open", assignee |-> NoMember, lease |-> Null,
               deadline |-> Null, claimedAt |-> Null, started |-> Null,
               unacked |-> Null]]
  /\ budget = [t \in Threads |->
                 [max |-> 0, used |-> 0, maxWall |-> 0, usedWall |-> 0]]
  /\ workers = [t \in Threads |-> {}]
  /\ frozen = {} /\ roundHeld = {} /\ capGate = {}
  /\ sendBacks = [t \in Threads |-> 0]
  /\ result = [t \in Threads |-> Null]
  /\ finished = {} /\ handedOff = {}
  /\ status = [t \in Threads |-> NoWait]
  /\ ledger = {}
  /\ issued = 0
  /\ reports = [k \in Leases |-> [ended |-> 0, unacked |-> 0]]
  /\ worked = [t \in Threads |-> 0]
  /\ held = [t \in Threads |-> 0]
  /\ dropped = [t \in Threads |-> 0]

\* Time passes.  The history variables count what the budget should know of.
Tick ==
  /\ now < MaxTime
  /\ now' = now + 1
  /\ held' = [t \in Threads |->
                IF row[t].started # Null THEN held[t] + 1 ELSE held[t]]
  /\ worked' = [t \in Threads |->
                  IF /\ row[t].started # Null
                     /\ row[t].deadline = Null \/ now < row[t].deadline
                  THEN worked[t] + 1 ELSE worked[t]]
  /\ UNCHANGED <<graceUntil, claimVars, frozen, reviewVars, status, ledger,
                 dropped>>

\* A replica starts (or restarts): claim_reaper::start_boot_grace.  Bound: a
\* grace ends within the clock's range.
Boot(rep) ==
  /\ now + GraceSecs <= MaxTime
  /\ graceUntil' = [graceUntil EXCEPT ![rep] = now + GraceSecs]
  /\ UNCHANGED <<now, claimVars, frozen, reviewVars, status, ledger, historyVars>>

-----------------------------------------------------------------------------
(* Taking a claim.                                                         *)

\* claimability::available, at the replica's lease clock.
Available(t, rep) ==
  row[t].assignee = NoMember \/ Lapsed(row[t], LeaseClock(rep))

\* claimability::over_budget counts what a lapsed claim worked.
LapsedWorkedSecs(t) ==
  IF row[t].assignee # NoMember /\ row[t].deadline # Null
  THEN WorkedSecs(row[t], row[t].deadline) ELSE 0

\* Mutant: what the lapsed claim worked is not counted.
OverBudgetStored(t) == Exceeded(budget[t], 0)

OverBudget(t) == Exceeded(budget[t], LapsedWorkedSecs(t))

\* claim_next_with_event: take an open thread, ending with a charge and a
\* report the lapsed claim it takes over.
ClaimNext(rep, m, t) ==
  /\ row[t].state = "open"
  /\ Available(t, rep)
  /\ ~ OverBudget(t)
  /\ t \notin finished /\ t \notin roundHeld /\ t \notin capGate
  /\ m \notin frozen
  /\ NewLease
  /\ row' = [row EXCEPT ![t] = Taken(@, m, now + LeaseSecs)]
  /\ IF row[t].assignee = NoMember
     THEN UNCHANGED <<budget, reports>>
     ELSE /\ budget' = [budget EXCEPT ![t] = Charge(@, LapsedWorkedSecs(t))]
          /\ reports' = ReportEnd(row[t].lease)
  /\ \E who \in ActingFor(m) : RecordWorkers(t, who)
  /\ UNCHANGED <<now, graceUntil, frozen, reviewVars, status, ledger, historyVars>>

\* claim_with_event: compare-and-set on an unheld row, any state, no lease.
Claim(m, t) ==
  /\ ~ RoundCapRefuses(t)
  /\ row[t].assignee = NoMember
  /\ NewLease
  /\ row' = [row EXCEPT ![t] = Taken(@, m, Null)]
  /\ \E who \in ActingFor(m) : RecordWorkers(t, who)
  /\ UNCHANGED <<now, graceUntil, budget, frozen, reviewVars, status, ledger,
                 reports, historyVars>>

\* assign_with_event: replaces whatever claim there is, charging it first.
Assign(m, t) ==
  /\ ~ RoundCapRefuses(t)
  /\ NewLease
  /\ budget' = [budget EXCEPT ![t] = Charge(@, WorkedSecs(row[t], now))]
  /\ row' = [row EXCEPT ![t] = Taken(@, m, Null)]
  /\ \E who \in ActingFor(m) : RecordWorkers(t, who)
  /\ UNCHANGED <<now, graceUntil, frozen, reviewVars, status, ledger, reports,
                 historyVars>>

-----------------------------------------------------------------------------
(* What the holder does under its fencing token.                           *)

\* renew_claim reads no clock but its own: a lapsed, unreaped claim renews.
RenewClaim(m, t, k) ==
  /\ Fenced(t, m, k)
  /\ row' = [row EXCEPT ![t].deadline = now + LeaseSecs]
  /\ UNCHANGED <<now, graceUntil, budget, workers, issued, reports, frozen,
                 reviewVars, status, ledger, historyVars>>

\* acknowledge_claim keeps the first start of the claim.
AcknowledgeClaim(m, t, k) ==
  /\ Fenced(t, m, k)
  /\ row[t].started = Null
  /\ row' = [row EXCEPT ![t].started = now]
  /\ UNCHANGED <<now, graceUntil, budget, workers, issued, reports, frozen,
                 reviewVars, status, ledger, historyVars>>

ReleaseClaim(m, t, k) ==
  /\ Fenced(t, m, k)
  /\ EndClaim(t, row[t].state)
  /\ UNCHANGED <<now, graceUntil, workers, issued, reports, frozen, reviewVars,
                 status, ledger, historyVars>>

\* Mutant: the result is written without the fence.
SetResultUnfenced(m, t, k) ==
  /\ k <= issued
  /\ result' = [result EXCEPT ![t] = k]
  /\ finished' = finished \cup {t}
  /\ UNCHANGED <<now, graceUntil, claimVars, frozen, roundHeld, capGate,
                 sendBacks, handedOff, status, ledger, historyVars>>

\* thread_results::set: one fenced statement, whatever the thread's state.
SetResult(m, t, k) ==
  /\ Fenced(t, m, k)
  /\ result' = [result EXCEPT ![t] = k]
  /\ finished' = finished \cup {t}
  /\ UNCHANGED <<now, graceUntil, claimVars, frozen, roundHeld, capGate,
                 sendBacks, handedOff, status, ledger, historyVars>>

\* Mutant: a replayed report is counted again.
ReportUsageReplayed(m, t, k, id) ==
  /\ Fenced(t, m, k)
  /\ ledger' = ledger \cup {[id |-> id, thread |-> t]}
  /\ budget' = [budget EXCEPT ![t].used = @ + 1]
  /\ UNCHANGED <<now, graceUntil, row, workers, issued, reports, frozen,
                 reviewVars, status, historyVars>>

\* Mutant: a run over budget is reported stopped and keeps its claim.
ReportUsageKeepsClaim(m, t, k, id) ==
  /\ \A e \in ledger : e.id # id
  /\ Fenced(t, m, k)
  /\ ledger' = ledger \cup {[id |-> id, thread |-> t]}
  /\ budget' = [budget EXCEPT ![t].used = @ + 1]
  /\ reports' = IF Exceeded(budget'[t], WorkedSecs(row[t], now))
                THEN ReportEnd(k) ELSE reports
  /\ UNCHANGED <<now, graceUntil, row, workers, issued, frozen, reviewVars,
                 status, historyVars>>

\* report_accounted_usage: a report id counts once, then the fence, then the
\* unit is added, and a run over budget is stopped and its time charged.
ReportUsage(m, t, k, id) ==
  LET used == [budget[t] EXCEPT !.used = @ + 1]
      secs == WorkedSecs(row[t], now)
  IN /\ \A e \in ledger : e.id # id
     /\ Fenced(t, m, k)
     /\ ledger' = ledger \cup {[id |-> id, thread |-> t]}
     /\ IF Exceeded(used, secs)
        THEN /\ budget' = [budget EXCEPT ![t] = Charge(used, secs)]
             /\ row' = [row EXCEPT ![t] = Cleared(@)]
             /\ reports' = ReportEnd(k)
        ELSE /\ budget' = [budget EXCEPT ![t] = used]
             /\ UNCHANGED <<row, reports>>
     /\ UNCHANGED <<now, graceUntil, workers, issued, frozen, reviewVars,
                    status, historyVars>>

-----------------------------------------------------------------------------
(* The sweeps each replica runs.  SKIP LOCKED may leave out any row another *)
(* transaction holds, so a sweep takes any batch of the rows it finds.      *)

Batches(found) == {S \in SUBSET found : S # {} /\ Cardinality(S) <= Batch}

\* Mutant: the reaper frees only claims somebody acknowledged.
ReapAcknowledgedClaims(rep) ==
  /\ ~ Holding(rep)
  /\ \E t \in Threads :
       /\ Lapsed(row[t], now) /\ row[t].started # Null /\ row[t].state \in Live
       /\ row' = [row EXCEPT ![t] = Cleared(@)]
       /\ budget' = [budget EXCEPT ![t] = Charge(@, LapsedWorkedSecs(t))]
       /\ reports' = ReportEnd(row[t].lease)
  /\ UNCHANGED <<now, graceUntil, workers, issued, frozen, reviewVars, status,
                 ledger, historyVars>>

\* reap_expired_claims: nothing through the grace; each claim is charged up
\* to its deadline and reported.
ReapExpiredClaims(rep) ==
  /\ ~ Holding(rep)
  /\ \E S \in Batches({t \in Threads : /\ row[t].assignee # NoMember
                                       /\ Lapsed(row[t], now)
                                       /\ row[t].state \in Live}) :
       /\ row' = [t \in Threads |-> IF t \in S THEN Cleared(row[t]) ELSE row[t]]
       /\ budget' = [t \in Threads |->
                       IF t \in S THEN Charge(budget[t], LapsedWorkedSecs(t))
                                  ELSE budget[t]]
       /\ reports' = [k \in Leases |->
                        IF \E t \in S : row[t].lease = k
                        THEN [reports[k] EXCEPT !.ended = @ + 1]
                        ELSE reports[k]]
  /\ UNCHANGED <<now, graceUntil, workers, issued, frozen, reviewVars, status,
                 ledger, historyVars>>

\* report_unacknowledged_claims: once per claim, a live lease never
\* acknowledged; the claim itself is left alone.
ReportUnacknowledged ==
  /\ \E S \in Batches({t \in Threads : /\ row[t].lease # Null
                                       /\ row[t].started = Null
                                       /\ row[t].claimedAt < now - AckSecs
                                       /\ row[t].deadline # Null
                                       /\ row[t].deadline >= now
                                       /\ row[t].unacked # row[t].lease
                                       /\ row[t].state = "open"}) :
       /\ row' = [t \in Threads |->
                    IF t \in S THEN [row[t] EXCEPT !.unacked = row[t].lease]
                               ELSE row[t]]
       /\ reports' = [k \in Leases |->
                        IF \E t \in S : row[t].lease = k
                        THEN [reports[k] EXCEPT !.unacked = @ + 1]
                        ELSE reports[k]]
  /\ UNCHANGED <<now, graceUntil, budget, workers, issued, frozen, reviewVars,
                 status, ledger, historyVars>>

\* A holder whose own declared wait on a person is older than HumanSecs.
WaitedOut(t) ==
  /\ row[t].assignee # NoMember
  /\ status[t].by = row[t].assignee
  /\ status[t].at < now - HumanSecs
  /\ row[t].started # Null
  /\ row[t].deadline # Null /\ row[t].deadline >= now
  /\ row[t].state = "open"

\* Mutant: only the owner's own declaration times out.
ReturnOwnerTimeouts ==
  /\ \E t \in Threads :
       /\ WaitedOut(t) /\ status[t].by = Owner[t]
       /\ row' = [row EXCEPT ![t] = Cleared(@)]
       /\ budget' = [budget EXCEPT ![t] = Charge(@, WorkedSecs(row[t], now))]
       /\ status' = [status EXCEPT ![t] = NoWait]
  /\ UNCHANGED <<now, graceUntil, workers, issued, reports, frozen, reviewVars,
                 ledger, historyVars>>

\* return_human_timeouts: release (charged) and drop the declaration.
ReturnHumanTimeouts ==
  /\ \E S \in Batches({t \in Threads : WaitedOut(t)}) :
       /\ row' = [t \in Threads |-> IF t \in S THEN Cleared(row[t]) ELSE row[t]]
       /\ budget' = [t \in Threads |->
                       IF t \in S THEN Charge(budget[t], WorkedSecs(row[t], now))
                                  ELSE budget[t]]
       /\ status' = [t \in Threads |-> IF t \in S THEN NoWait ELSE status[t]]
  /\ UNCHANGED <<now, graceUntil, workers, issued, reports, frozen, reviewVars,
                 ledger, historyVars>>

-----------------------------------------------------------------------------
(* What people and operators do around the claim.                          *)

\* unassign_with_event: unconditional, charged.
Unassign(t) ==
  /\ EndClaim(t, row[t].state)
  /\ UNCHANGED <<now, graceUntil, workers, issued, reports, frozen, reviewVars,
                 status, ledger, historyVars>>

\* freeze_on: record the freeze and release every claim the member holds on a
\* thread that is not closed or archived.
Freeze(m) ==
  LET mine == {t \in Threads : row[t].assignee = m /\ row[t].state \in Live}
  IN /\ frozen' = frozen \cup {m}
     /\ row' = [t \in Threads |-> IF t \in mine THEN Cleared(row[t]) ELSE row[t]]
     /\ budget' = [t \in Threads |->
                     IF t \in mine THEN Charge(budget[t], WorkedSecs(row[t], now))
                                   ELSE budget[t]]
     /\ UNCHANGED <<now, graceUntil, workers, issued, reports, reviewVars,
                    status, ledger, historyVars>>

Unfreeze(m) ==
  /\ m \in frozen
  /\ frozen' = frozen \ {m}
  /\ UNCHANGED <<now, graceUntil, claimVars, reviewVars, status, ledger, historyVars>>

\* set_budget: new maxima, usage kept.
SetBudget(t, max, maxWall) ==
  /\ budget' = [budget EXCEPT ![t] = [@ EXCEPT !.max = max, !.maxWall = maxWall]]
  /\ UNCHANGED <<now, graceUntil, row, workers, issued, reports, frozen,
                 reviewVars, status, ledger, historyVars>>

\* status::declare with needs_input or needs_review: the holder or the owner.
DeclareWait(m, t) ==
  /\ row[t].assignee = m \/ Owner[t] = m
  /\ status' = [status EXCEPT ![t] = [by |-> m, at |-> now]]
  /\ UNCHANGED <<now, graceUntil, claimVars, frozen, reviewVars, ledger, historyVars>>

\* A person answers (status::clear), or a status that is no wait replaces it.
ClearStatus(t) ==
  /\ status[t] # NoWait
  /\ status' = [status EXCEPT ![t] = NoWait]
  /\ UNCHANGED <<now, graceUntil, claimVars, frozen, reviewVars, ledger, historyVars>>

\* hand_off: once per thread; ends its claim, charged.
HandOff(t) ==
  /\ t \notin handedOff
  /\ handedOff' = handedOff \cup {t}
  /\ EndClaim(t, row[t].state)
  /\ UNCHANGED <<now, graceUntil, workers, issued, reports, frozen, roundHeld,
                 capGate, sendBacks, result, finished, status, ledger, historyVars>>

-----------------------------------------------------------------------------
(* Transitions, as far as they touch the claim.                            *)

StartReview(t) ==
  /\ row[t].state = "open"
  /\ row' = [row EXCEPT ![t].state = "in_review"]
  /\ UNCHANGED <<now, graceUntil, budget, workers, issued, reports, frozen,
                 reviewVars, status, ledger, historyVars>>

\* A change request: back to open with the claim kept, unless the rounds have
\* run out.  escalate_round_cap then opens a gate and drops the claim; unlike
\* every other claim end it charges nothing.  Only whether the count has
\* reached MaxRounds is ever read, so it saturates there.
Escalates(t) == MaxRounds # 0 /\ t \notin capGate /\ sendBacks[t] + 1 >= MaxRounds

RequestChanges(t) ==
  /\ row[t].state = "in_review"
  /\ sendBacks' = [sendBacks EXCEPT ![t] = IF @ < MaxRounds THEN @ + 1 ELSE @]
  /\ finished' = finished \ {t}
  /\ IF Escalates(t)
     THEN /\ row' = [row EXCEPT ![t] = [Cleared(row[t]) EXCEPT !.state = "open"]]
          /\ capGate' = capGate \cup {t}
          /\ dropped' = [dropped EXCEPT ![t] = @ + WorkedSecs(row[t], now)]
     ELSE /\ row' = [row EXCEPT ![t].state = "open"]
          /\ UNCHANGED <<capGate, dropped>>
  /\ UNCHANGED <<now, graceUntil, budget, workers, issued, reports, frozen,
                 roundHeld, result, handedOff, status, ledger, worked, held>>

\* resolve_on for a round cap: accepting starts a new count of rounds,
\* declining or cancelling parks the thread.
ResolveCap(t, accept) ==
  /\ t \in capGate
  /\ capGate' = capGate \ {t}
  /\ IF accept
     THEN sendBacks' = [sendBacks EXCEPT ![t] = 0] /\ UNCHANGED roundHeld
     ELSE roundHeld' = roundHeld \cup {t} /\ UNCHANGED sendBacks
  /\ UNCHANGED <<now, graceUntil, claimVars, frozen, result, finished, handedOff,
                 status, ledger, historyVars>>

\* unclaimable::clear, or mark with another reason, lifts the round-cap park.
Unpark(t) ==
  /\ t \in roundHeld
  /\ roundHeld' = roundHeld \ {t}
  /\ UNCHANGED <<now, graceUntil, claimVars, frozen, capGate, sendBacks, result,
                 finished, handedOff, status, ledger, historyVars>>

\* land_in_tx to a terminal state: close, archive, or a close-abandoned.
Land(t, from, to) ==
  /\ row[t].state \in from
  /\ EndClaim(t, to)
  /\ UNCHANGED <<now, graceUntil, workers, issued, reports, frozen, reviewVars,
                 status, ledger, historyVars>>

Close(t) == Land(t, {"in_review"}, "closed")
Archive(t) == Land(t, {"closed"}, "archived")
CloseAbandoned(t) == Land(t, Live, "closed")

\* cancel_in_tx: closed whatever the gates say, and parked with its reason.
Cancel(t) ==
  /\ row[t].state \in Live
  /\ EndClaim(t, "closed")
  /\ roundHeld' = roundHeld \ {t}
  /\ UNCHANGED <<now, graceUntil, workers, issued, reports, frozen, capGate,
                 sendBacks, result, finished, handedOff, status, ledger,
                 historyVars>>

-----------------------------------------------------------------------------
HolderStep(m, t, k) ==
  \/ RenewClaim(m, t, k)
  \/ AcknowledgeClaim(m, t, k)
  \/ ReleaseClaim(m, t, k)
  \/ SetResult(m, t, k)
  \/ \E id \in ReportIds : ReportUsage(m, t, k, id)

OperatorStep(t) ==
  \/ Unassign(t)
  \/ \E max \in UseCaps, maxWall \in WallCaps : SetBudget(t, max, maxWall)
  \/ ClearStatus(t)
  \/ HandOff(t)
  \/ StartReview(t)
  \/ RequestChanges(t)
  \/ \E accept \in BOOLEAN : ResolveCap(t, accept)
  \/ Unpark(t)
  \/ Close(t)
  \/ Archive(t)
  \/ CloseAbandoned(t)
  \/ Cancel(t)

Next ==
  \/ Tick
  \/ \E rep \in Replicas : Boot(rep) \/ ReapExpiredClaims(rep)
  \/ \E rep \in Replicas, m \in Members, t \in Threads : ClaimNext(rep, m, t)
  \/ \E m \in Members, t \in Threads : Claim(m, t) \/ Assign(m, t) \/ DeclareWait(m, t)
  \/ \E m \in Members, t \in Threads, k \in Leases : HolderStep(m, t, k)
  \/ \E t \in Threads : OperatorStep(t)
  \/ \E m \in Members : Freeze(m) \/ Unfreeze(m)
  \/ ReportUnacknowledged
  \/ ReturnHumanTimeouts

Spec == Init /\ [][Next]_vars

\* Fairness: the clock advances, and each replica's reaper task ticks every
\* few seconds for as long as the process runs (claim_reaper::run).
Fairness ==
  /\ WF_vars(Tick)
  /\ \A rep \in Replicas : WF_vars(ReapExpiredClaims(rep))
  /\ WF_vars(ReportUnacknowledged)
  /\ WF_vars(ReturnHumanTimeouts)

FairSpec == Spec /\ Fairness

-----------------------------------------------------------------------------
(* Properties.                                                             *)

TypeOK ==
  /\ now \in 0 .. MaxTime
  /\ graceUntil \in [Replicas -> Times]
  /\ row \in [Threads -> Row]
  /\ budget \in [Threads -> Budget]
  /\ workers \in [Threads -> SUBSET Members]
  /\ frozen \subseteq Members
  /\ roundHeld \subseteq Threads /\ capGate \subseteq Threads
  /\ sendBacks \in [Threads -> 0 .. MaxRounds]
  /\ result \in [Threads -> Leases \cup {Null}]
  /\ finished \subseteq Threads /\ handedOff \subseteq Threads
  /\ status \in [Threads -> [by : Members \cup {NoMember}, at : Times \cup {Null}]]
  /\ ledger \subseteq [id : ReportIds, thread : Threads]
  /\ issued \in 0 .. MaxLeases
  /\ reports \in [Leases -> [ended : Nat, unacked : Nat]]
  /\ worked \in [Threads -> Nat]
  /\ held \in [Threads -> Nat]
  /\ dropped \in [Threads -> Nat]

\* Every write that ends a claim clears all five claim columns, and every
\* write that makes one sets holder, token and claim time together: a row is
\* either bare or wholly claimed, and its working clock never runs ahead.
ClaimWhole ==
  \A t \in Threads :
    LET r == row[t]
    IN /\ r.assignee = NoMember =>
            /\ r.lease = Null /\ r.deadline = Null
            /\ r.claimedAt = Null /\ r.started = Null
       /\ r.assignee # NoMember => r.lease # Null /\ r.claimedAt # Null
       /\ r.started # Null => r.claimedAt <= r.started /\ r.started <= now

\* The separation-of-duties ledger never misses a holder: whoever holds a
\* thread is recorded as a worker of it, whichever of claim, claim_next and
\* assign made the claim (thread_workers::record_in_tx, same transaction).
HolderIsRecorded ==
  \A t \in Threads : row[t].assignee # NoMember => row[t].assignee \in workers[t]

\* While a person has yet to decide a round cap, or has declined it, nobody
\* holds the thread: escalate_round_cap drops the claim and every way of
\* taking one refuses (refuse_round_cap_claim, GATED, PARKED).
RoundCapUnheld ==
  \A t \in capGate \cup roundHeld : row[t].assignee = NoMember

\* No two claims ever share a fencing token.
TokensDistinct ==
  /\ \A t \in Threads : row[t].lease # Null => row[t].lease <= issued
  /\ \A t, u \in Threads : t # u /\ row[t].lease # Null => row[t].lease # row[u].lease

\* A lapse or a budget stop is reported once per claim, whichever of the
\* reapers, claim_next and the usage report frees it, and a claim reported
\* ended stands nowhere; an unacknowledged claim is reported once.
OneReportPerClaim ==
  \A k \in Leases :
    /\ reports[k].ended <= 1 /\ reports[k].unacked <= 1
    /\ reports[k].ended = 1 => \A t \in Threads : row[t].lease # k

\* Seconds the open claim has worked within its lease.
OpenInLease(t) ==
  IF row[t].deadline # Null /\ row[t].deadline < now
  THEN WorkedSecs(row[t], row[t].deadline) ELSE WorkedSecs(row[t], now)

\* No worked second escapes the wall budget: what was worked under a live
\* lease is charged, or still open, or was dropped by a round cap.  The round
\* cap is the only way of ending a claim that charges nothing.
WorkedTimeKept ==
  \A t \in Threads :
    worked[t] <= budget[t].usedWall + OpenInLease(t) + dropped[t]

\* No second is charged twice: what is charged, plus what is open, never
\* exceeds the time acknowledged claims really stood.
NeverOvercharged ==
  \A t \in Threads :
    budget[t].usedWall + dropped[t] + WorkedSecs(row[t], now) <= held[t]

\* A usage report counts once however often it is sent: the units a thread
\* has used are exactly its ledger entries.
UsageMatchesLedger ==
  \A t \in Threads :
    budget[t].used = Cardinality({e \in ledger : e.thread = t})

\* claim_next never hands out a thread that is over budget once the lapsed
\* claim it takes over has been charged.
NoOverBudgetHandout ==
  [][\A t \in Threads :
       issued' # issued /\ row'[t].lease = issued' /\ row'[t].deadline # Null
         => ~ Exceeded(budget'[t], 0)]_vars

\* A holder that lost its claim never overwrites the result of a later claim:
\* the token a stored result carries only grows (thread_results::set).
ResultNeverRegresses == [][\A t \in Threads : result'[t] >= result[t]]_vars

\* While every replica is in its boot grace no claim ends as lapsed, by the
\* reaper or by a take-over (ended is otherwise raised only by a usage stop).
GraceKeepsClaims ==
  [][(\A rep \in Replicas : Holding(rep)) /\ ledger' = ledger
       => \A k \in Leases : reports'[k].ended = reports[k].ended]_vars

\* A lapsed claim on a live thread does not stand for ever: it is freed, or
\* its holder comes back and renews it.
LapsedClaimFreed ==
  \A t \in Threads, k \in Leases :
    (row[t].lease = k /\ Lapsed(row[t], now) /\ row[t].state \in Live)
      ~> ~ (row[t].lease = k /\ Lapsed(row[t], now) /\ row[t].state \in Live)

\* An agent waiting on a person does not keep the thread for ever.
HumanWaitEnds == \A t \in Threads : WaitedOut(t) ~> ~ WaitedOut(t)

\* The claim as the plain fenced lock it implements.
Abstract == INSTANCE FencedClaims WITH
  holder <- [t \in Threads |-> row[t].assignee],
  token <- [t \in Threads |-> row[t].lease],
  high <- issued,
  written <- result

\* Every store operation is a take, a drop or a fenced write of FencedClaims,
\* or leaves holder, token and result alone.
ImplementsFencedClaims == Abstract!Spec
=============================================================================
