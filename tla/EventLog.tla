------------------------------ MODULE EventLog ------------------------------
(***************************************************************************)
(* The event log of crates/maidan-store/src/postgres/events.rs.  Every     *)
(* write of the store appends its events in its own transaction.  An id    *)
(* comes from a sequence that transactions do not give back, so ids commit *)
(* out of order and leave holes; the chain of one workspace is kept linear *)
(* by an advisory lock held from the append to the end of the transaction. *)
(***************************************************************************)
EXTENDS Naturals

CONSTANTS
  Workspaces,   \* the workspaces whose chains the log holds
  Txns,         \* database sessions that write events
  None,         \* an id nobody has taken belongs to None
  MaxId,        \* bound: the last id the sequence hands out
  MaxFaults     \* bound: crashes, failed calls and lost connections

\* Ids start at 1, so 0 is "before the first event" of a chain or a cursor.
ASSUME LogConstants ==
  /\ MaxId \in Nat
  /\ MaxFaults \in Nat
  /\ None \notin Workspaces

Ids == 1..MaxId

VARIABLES
  nextId,   \* last value of the maidan_events id sequence
  home,     \* home[i]: workspace_id of the row with id i, None if not taken
  link,     \* link[i]: the row whose hash is the prev_hash of row i
  open,     \* open[x]: ids transaction x has appended and not committed
  log,      \* ids of the committed rows of maidan_events
  faults    \* faults of the log's readers so far

logVars == <<nextId, home, link, open, log>>

LogInit ==
  /\ nextId = 0
  /\ home = [i \in Ids |-> None]
  /\ link = [i \in Ids |-> 0]
  /\ open = [x \in Txns |-> {}]
  /\ log = {}
  /\ faults = 0

\* One of the faults the readers of the log run into.
Fault == faults < MaxFaults /\ faults' = faults + 1

\* The rows of workspace w in the set S of ids.
Of(w, S) == {i \in S : home[i] = w}

\* Mutant: no advisory lock, two transactions read the same chain head.
CanLockUnlocked(x, w) == TRUE

\* pg_advisory_xact_lock: whoever appended to w holds it until its end.
CanLock(x, w) == \A y \in Txns \ {x} : Of(w, open[y]) = {}

\* chain_head_in_tx: the newest row of w that transaction x can see.
IsChainHead(x, w, h) ==
  LET seen == Of(w, log \cup open[x])
  IN  /\ h \in seen \cup {0}
      /\ \A i \in seen : i <= h

\* append_with_keys_in_tx: lock, read the head, insert, enqueue in the outbox.
AppendEvent(x, w) ==
  /\ nextId < MaxId
  /\ CanLock(x, w)
  /\ nextId' = nextId + 1
  /\ \E h \in 0..MaxId :
       IsChainHead(x, w, h) /\ link' = [link EXCEPT ![nextId + 1] = h]
  /\ home' = [home EXCEPT ![nextId + 1] = w]
  /\ open' = [open EXCEPT ![x] = @ \cup {nextId + 1}]
  /\ UNCHANGED log

Commit(x) ==
  /\ open[x] # {}
  /\ log' = log \cup open[x]
  /\ open' = [open EXCEPT ![x] = {}]
  /\ UNCHANGED <<nextId, home, link>>

\* The transaction fails; the ids it took are lost.
Rollback(x) ==
  /\ open[x] # {}
  /\ open' = [open EXCEPT ![x] = {}]
  /\ UNCHANGED <<nextId, home, link, log>>

LogNext ==
  \E x \in Txns :
    \/ \E w \in Workspaces : AppendEvent(x, w)
    \/ Commit(x)
    \/ Rollback(x)

LogSpec == LogInit /\ [][LogNext]_logVars
-----------------------------------------------------------------------------
LogTypeOK ==
  /\ nextId \in 0..MaxId
  /\ home \in [Ids -> Workspaces \cup {None}]
  /\ link \in [Ids -> 0..MaxId]
  /\ open \in [Txns -> SUBSET Ids]
  /\ log \in SUBSET Ids
  /\ faults \in 0..MaxFaults

\* Every committed event of a workspace is linked to the committed event just
\* before it, the first one to nothing: verify_chain finds no fork, no gap and
\* no link to a row that was rolled back, whatever was appended meanwhile.
ChainLinear ==
  \A i \in log :
    LET before == {j \in Of(home[i], log) : j < i}
    IN  /\ link[i] \in before \cup {0}
        /\ \A j \in before : j <= link[i]

\* A reader that has seen some event of a workspace has seen every event of
\* that workspace with a smaller id: rows of one workspace become visible in
\* id order, though rows of the whole log do not.
CommitsInOrder ==
  [][\A i \in log' \ log, j \in log : home'[i] = home[j] => j < i]_logVars
=============================================================================
