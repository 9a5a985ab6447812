------------------------- MODULE FencedClaimsProofs -------------------------
(* What follows from FencedClaims alone, whatever implements it.           *)
EXTENDS FencedClaims, TLAPS

LEMMA InitFenced == Init => TypeOK /\ Fenced
BY DEF Init, TypeOK, Fenced, Null

LEMMA NextFenced == TypeOK /\ Fenced /\ [Next]_vars => TypeOK' /\ Fenced'
<1> SUFFICES ASSUME TypeOK, Fenced, [Next]_vars PROVE TypeOK' /\ Fenced'
  OBVIOUS
<1> USE DEF TypeOK, Fenced, Null
<1>1. ASSUME NEW t \in Threads, NEW m \in Members, Take(t, m)
      PROVE  TypeOK' /\ Fenced'
  BY <1>1 DEF Take
<1>2. ASSUME NEW S \in SUBSET Threads, Drop(S) PROVE TypeOK' /\ Fenced'
  BY <1>2 DEF Drop
<1>3. ASSUME NEW t \in Threads, Write(t) PROVE TypeOK' /\ Fenced'
  BY <1>3 DEF Write
<1>4. CASE UNCHANGED vars
  BY <1>4 DEF vars
<1> QED
  BY <1>1, <1>2, <1>3, <1>4 DEF Next

\* Tokens in use are distinct and no stored result is newer than the claim.
THEOREM AlwaysFenced == Spec => [](TypeOK /\ Fenced)
BY InitFenced, NextFenced, PTL DEF Spec

\* A result never gives way to one of an earlier claim.
THEOREM ResultsMoveForward == Spec => WrittenNeverRegresses
<1>1. TypeOK /\ Fenced /\ [Next]_vars
        => [\A t \in Threads : written'[t] >= written[t]]_vars
  <2> SUFFICES ASSUME TypeOK, Fenced, Next
               PROVE  \A t \in Threads : written'[t] >= written[t]
    OBVIOUS
  <2> USE DEF TypeOK, Fenced, Null
  <2>1. ASSUME NEW t \in Threads, NEW m \in Members, Take(t, m)
        PROVE  \A u \in Threads : written'[u] >= written[u]
    BY <2>1 DEF Take
  <2>2. ASSUME NEW S \in SUBSET Threads, Drop(S)
        PROVE  \A u \in Threads : written'[u] >= written[u]
    BY <2>2 DEF Drop
  <2>3. ASSUME NEW t \in Threads, Write(t)
        PROVE  \A u \in Threads : written'[u] >= written[u]
    BY <2>3 DEF Write
  <2> QED
    BY <2>1, <2>2, <2>3 DEF Next
<1> QED
  BY <1>1, AlwaysFenced, PTL DEF Spec, WrittenNeverRegresses
=============================================================================
