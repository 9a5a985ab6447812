-------------------------- MODULE IdempotencyKeys --------------------------
(***************************************************************************)
(* The Idempotency-Key header on writes: the middleware of                 *)
(* maidan-server/src/idempotency.rs over maidan_idempotency_keys           *)
(* (maidan-store/src/postgres/idempotency.rs).  One key of one caller,     *)
(* whose requests are retries (same fingerprint) or reuse the key.         *)
(*                                                                         *)
(* Each statement of the reservation is a step.  locked and fresh are      *)
(* locked_until and expires_at against the clock.  An answer is named by   *)
(* the lease of the run that gave it.  The handler is one transaction      *)
(* (CommitWrite), then its answer: one that is kept, or a transient,       *)
(* streamed or oversized one, for which the key is released.               *)
(***************************************************************************)
EXTENDS Integers

CONSTANTS
  Requests,    \* the caller's requests carrying the key
  Fingerprint, \* the fingerprint of each
  MaxLease     \* bound: reservations made

ASSUME KeyConstants == MaxLease \in Nat

VARIABLES
  row,         \* the key's row
  request,     \* where each request is in the middleware
  lastLease,   \* leases handed out
  wrote,       \* history: leases whose handler committed
  printOf,     \* history: the fingerprint each lease ran
  lapsed,      \* history: leases whose lock passed before they were completed
  unkept,      \* history: leases released with their answer
  expired,     \* history: leases whose completed row expired
  replayed     \* history: <<request, answer>> pairs served from the row

keyVars == <<row, request, lastLease, wrote, printOf, lapsed, unkept, expired, replayed>>

Unset == 0
NoKey == [there |-> FALSE, print |-> Unset, lease |-> Unset, locked |-> FALSE,
          fresh |-> FALSE, answer |-> Unset]
NoRequest == [pc |-> "idle", lease |-> Unset, committed |-> FALSE]

KeyInit ==
  /\ row = NoKey
  /\ request = [r \in Requests |-> NoRequest]
  /\ lastLease = 0
  /\ wrote = {}
  /\ printOf = [l \in 1 .. MaxLease |-> Unset]
  /\ lapsed = {}
  /\ unkept = {}
  /\ expired = {}
  /\ replayed = {}

Goto(r, pc) == request' = [request EXCEPT ![r].pc = pc]

keyHistory == <<wrote, printOf, lapsed, unkept, expired, replayed>>

\* The request arrives; its first statement deletes the key's expired row.
DeleteExpired(r) ==
  /\ request[r].pc = "idle"
  /\ row' = IF row.there /\ ~row.fresh THEN NoKey ELSE row
  /\ Goto(r, "insert")
  /\ UNCHANGED <<lastLease, keyHistory>>

\* Mutant: a live reservation is taken over.
TakesOverLive(r) == ~row.there \/ (row.answer = Unset /\ row.print = Fingerprint[r])

\* The upsert inserts, or takes over a lapsed reservation of the same request.
TakesOver(r) ==
  \/ ~row.there
  \/ row.answer = Unset /\ ~row.locked /\ row.print = Fingerprint[r]

Reserve(r) ==
  /\ request[r].pc = "insert"
  /\ TakesOver(r)
  /\ lastLease < MaxLease
  /\ lastLease' = lastLease + 1
  /\ row' = [there |-> TRUE, print |-> Fingerprint[r], lease |-> lastLease + 1,
             locked |-> TRUE, fresh |-> TRUE, answer |-> Unset]
  /\ request' = [request EXCEPT ![r] = [pc |-> "running", lease |-> lastLease + 1,
                                        committed |-> FALSE]]
  /\ printOf' = [printOf EXCEPT ![lastLease + 1] = Fingerprint[r]]
  /\ UNCHANGED <<wrote, lapsed, unkept, expired, replayed>>

\* The upsert leaves the row alone.  The clock was read on arrival, so a lock
\* that passed since then still counts.
Reserved(r) ==
  /\ request[r].pc = "insert"
  /\ row.there
  /\ Goto(r, "select")
  /\ UNCHANGED <<row, lastLease, keyHistory>>

Replays(r) == row.there /\ row.answer # Unset /\ row.print = Fingerprint[r]

\* reservation_from: the stored answer to the same request, else a refusal; a
\* row released since the upsert is an error.
Select(r) ==
  /\ request[r].pc = "select"
  /\ replayed' = IF Replays(r) THEN replayed \cup {<<r, row.answer>>} ELSE replayed
  /\ request' = [request EXCEPT ![r] = NoRequest]
  /\ UNCHANGED <<row, lastLease, wrote, printOf, lapsed, unkept, expired>>

CommitWrite(r) ==
  /\ request[r].pc = "running"
  /\ ~ request[r].committed
  /\ request' = [request EXCEPT ![r].committed = TRUE]
  /\ wrote' = wrote \cup {request[r].lease}
  /\ UNCHANGED <<row, lastLease, printOf, lapsed, unkept, expired, replayed>>

\* The handler answers: pc "complete" for an answer to keep, else "release".
Answer(r, pc) ==
  /\ request[r].pc = "running"
  /\ Goto(r, pc)
  /\ UNCHANGED <<row, lastLease, keyHistory>>

\* The WHERE of complete and release.
Owns(r) == row.there /\ row.answer = Unset /\ row.lease = request[r].lease

CompleteKey(r) ==
  /\ request[r].pc = "complete"
  /\ row' = IF Owns(r) THEN [row EXCEPT !.answer = request[r].lease] ELSE row
  /\ request' = [request EXCEPT ![r] = NoRequest]
  /\ UNCHANGED <<lastLease, keyHistory>>

ReleaseKey(r) ==
  /\ request[r].pc = "release"
  /\ row' = IF Owns(r) THEN NoKey ELSE row
  /\ unkept' = unkept \cup {request[r].lease}
  /\ request' = [request EXCEPT ![r] = NoRequest]
  /\ UNCHANGED <<lastLease, wrote, printOf, lapsed, expired, replayed>>

\* The replica stops, the client goes away, or a statement fails: the row stays.
GoneRequest(r) ==
  /\ request[r].pc # "idle"
  /\ request' = [request EXCEPT ![r] = NoRequest]
  /\ UNCHANGED <<row, lastLease, keyHistory>>

\* LOCK passes.
LockLapses ==
  /\ row.there /\ row.locked
  /\ row' = [row EXCEPT !.locked = FALSE]
  /\ lapsed' = IF row.answer = Unset THEN lapsed \cup {row.lease} ELSE lapsed
  /\ UNCHANGED <<request, lastLease, wrote, printOf, unkept, expired, replayed>>

\* Another key's request prunes expired rows.
PruneExpired ==
  /\ row.there /\ ~row.fresh
  /\ row' = NoKey
  /\ UNCHANGED <<request, lastLease, keyHistory>>

\* RETENTION, which is longer, passes.
KeyExpires ==
  /\ row.there /\ ~row.locked /\ row.fresh
  /\ row' = [row EXCEPT !.fresh = FALSE]
  /\ expired' = expired \cup {row.lease}
  /\ UNCHANGED <<request, lastLease, wrote, printOf, lapsed, unkept, replayed>>

KeyNext ==
  \/ \E r \in Requests :
       \/ DeleteExpired(r) \/ Reserve(r) \/ Reserved(r) \/ Select(r) \/ CommitWrite(r)
       \/ \E pc \in {"complete", "release"} : Answer(r, pc)
       \/ CompleteKey(r) \/ ReleaseKey(r) \/ GoneRequest(r)
  \/ LockLapses \/ KeyExpires \/ PruneExpired

KeySpec == KeyInit /\ [][KeyNext]_keyVars

-----------------------------------------------------------------------------
KeyPrints == {Fingerprint[r] : r \in Requests}

KeyRows == [there : BOOLEAN, print : KeyPrints \cup {Unset}, lease : 0 .. lastLease,
            locked : BOOLEAN, fresh : BOOLEAN, answer : 0 .. lastLease]
KeyRequests == [pc : {"idle", "insert", "select", "running", "complete", "release"},
                lease : 0 .. lastLease, committed : BOOLEAN]

KeyTypeOK ==
  /\ row \in KeyRows
  /\ request \in [Requests -> KeyRequests]
  /\ lastLease \in 0 .. MaxLease
  /\ wrote \subseteq 1 .. lastLease
  /\ printOf \in [1 .. MaxLease -> KeyPrints \cup {Unset}]
  /\ lapsed \subseteq 0 .. lastLease
  /\ unkept \subseteq 0 .. lastLease
  /\ expired \subseteq 0 .. lastLease
  /\ replayed \subseteq Requests \X (1 .. lastLease)

Runs(r) == request[r].pc \in {"running", "complete", "release"}

\* Two runs under one key overlap only when the lock of the earlier one passed
\* first: a retry during a run is refused, whoever releases, completes or goes away.
NoOverlap ==
  \A q, r \in Requests :
    Runs(q) /\ Runs(r) /\ request[q].lease < request[r].lease => request[q].lease \in lapsed

\* The write happens a second time only after the first one's lock passed before
\* its answer was stored, its answer was not kept, or the kept answer expired.
WritesAgainOnlyIf ==
  \A l, m \in wrote : l < m => l \in lapsed \cup unkept \cup expired

\* What a retry gets back is the answer of a run of the very same request.
ReplaysOwnAnswer == \A p \in replayed : printOf[p[2]] = Fingerprint[p[1]]

\* A kept answer is never changed, and leaves the table only by expiring.
KeptAnswerStays ==
  [][row.answer # Unset =>
       (row'.there /\ row'.answer = row.answer) \/ (row' = NoKey /\ ~row.fresh)]_keyVars
=============================================================================
