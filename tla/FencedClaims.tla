---------------------------- MODULE FencedClaims ----------------------------
(***************************************************************************)
(* What the claim on a thread promises, without clocks, budgets or review: *)
(* a thread has at most one holder, every claim carries a token larger     *)
(* than every token handed out before it, and a result is only ever        *)
(* written under the token the thread is held with at that moment.         *)
(***************************************************************************)
EXTENDS Integers

CONSTANTS Threads, Members, NoMember

VARIABLES
  holder,   \* who holds each thread
  token,    \* the fencing token it is held under, or Null
  high,     \* the last token handed out
  written   \* the token each thread's stored result was written under

vars == <<holder, token, high, written>>

Null == -1

Init ==
  /\ holder = [t \in Threads |-> NoMember]
  /\ token = [t \in Threads |-> Null]
  /\ high = 0
  /\ written = [t \in Threads |-> Null]

\* A member takes a free thread, or takes one over from its holder.
Take(t, m) ==
  /\ high' = high + 1
  /\ holder' = [holder EXCEPT ![t] = m]
  /\ token' = [token EXCEPT ![t] = high + 1]
  /\ UNCHANGED written

\* The claims on some threads end.
Drop(S) ==
  /\ holder' = [t \in Threads |-> IF t \in S THEN NoMember ELSE holder[t]]
  /\ token' = [t \in Threads |-> IF t \in S THEN Null ELSE token[t]]
  /\ UNCHANGED <<high, written>>

\* The holder stores a result.
Write(t) ==
  /\ token[t] # Null
  /\ written' = [written EXCEPT ![t] = token[t]]
  /\ UNCHANGED <<holder, token, high>>

Next ==
  \/ \E t \in Threads, m \in Members : Take(t, m)
  \/ \E S \in SUBSET Threads : Drop(S)
  \/ \E t \in Threads : Write(t)

Spec == Init /\ [][Next]_vars

-----------------------------------------------------------------------------
TypeOK ==
  /\ holder \in [Threads -> Members \cup {NoMember}]
  /\ token \in [Threads -> Int]
  /\ high \in Nat
  /\ written \in [Threads -> Int]

\* A token in use was handed out and is in use nowhere else, and no stored
\* result carries a token newer than the one the thread is held under.
Fenced ==
  /\ \A t \in Threads : token[t] # Null => token[t] \in 1 .. high
  /\ \A t, u \in Threads : t # u /\ token[t] # Null => token[t] # token[u]
  /\ \A t \in Threads : written[t] <= high
  /\ \A t \in Threads : token[t] # Null => written[t] <= token[t]

\* Results are only ever replaced by results of the same or a later claim.
WrittenNeverRegresses == [][\A t \in Threads : written'[t] >= written[t]]_vars
=============================================================================
