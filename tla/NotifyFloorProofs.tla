-------------------------- MODULE NotifyFloorProofs -------------------------
(***************************************************************************)
(* The floor under the listeners loses nothing but late events, for every  *)
(* number of replicas, events, page sizes and faults.  What was read past  *)
(* was published or committed late (ReadOrLate), and a pointer is in the   *)
(* queue, in hand, hydrated or lost (PointerAccounted); together they are  *)
(* inductive and give OnlyLateLossesMissed.  The second part composes the  *)
(* relays, the listeners and a connection (EventPipeline) and carries over *)
(* what was proved of each.                                                *)
(***************************************************************************)
EXTENDS EventFeedProofs, EventPipeline, FiniteSetTheorems

USE Zenon, SMTT(30)

FloorTick == [pc : {"off", "starting", "recv", "drain", "get"},
              ptr : 0..MaxId, covered : 0..MaxId]

FloorColumns ==
  /\ mark \in [Nodes -> 0..MaxId]
  /\ task \in [Nodes -> FloorTick]
  /\ chan \in [Nodes -> Seq(Ids)]
  /\ delivered \in [Nodes -> SUBSET Ids]
  /\ behind \in [Nodes -> SUBSET Ids]
  /\ lost \in [Nodes -> SUBSET Ids]

\* A pointer is in hand only while it is worked on.
PointerInHand(n) ==
  /\ task[n].pc \notin {"drain", "get"} => task[n].ptr = 0 /\ task[n].covered = 0
  /\ task[n].pc = "get" => task[n].ptr \in Ids

\* What was read past was published, or was not there to read.
ReadOrLate(n) ==
  Listening(n) => \A i \in log \ Undecodable :
                    i <= Horizon(n) => i \in delivered[n] \cup behind[n]

\* What was announced was published, was lost, or its pointer is still to come.
PointerAccounted(n) ==
  Listening(n) => \A i \in sent :
    i \in delivered[n] \cup lost[n] \cup Range(chan[n]) \cup {task[n].ptr}

FloorInv ==
  /\ LogInv /\ sent \subseteq log
  /\ FloorColumns
  /\ \A n \in Nodes : PointerInHand(n) /\ ReadOrLate(n) /\ PointerAccounted(n)

\* A finite set of numbers that is not empty has a least and a largest member.
LEMMA LeastAndLargest ==
  ASSUME NEW S \in SUBSET (0..MaxId), S # {}
  PROVE  /\ \E i \in S : \A j \in S : i <= j
         /\ \E i \in S : \A j \in S : j <= i
<1> DEFINE U == 0..MaxId
           under(i) == {j \in U : j < i}
           over(i) == {j \in U : j > i}
<1>1. U \subseteq Nat /\ IsFiniteSet(U)
  BY LogConstants, FS_Interval, SMTT(30)
<1>2. IsWellFoundedOn(StrictSubsetOrdering(U), SUBSET U)
  BY <1>1, FS_FiniteSubsetsOfFinite, FS_StrictSubsetOrderingWellFounded
<1>3. \E i \in S : \A j \in S : i <= j
  <2> DEFINE T == {under(i) : i \in S}
  <2>1. T \subseteq SUBSET U /\ T # {}
    OBVIOUS
  <2>2. \E x \in T : \A y \in T : ~ (<<y, x>> \in StrictSubsetOrdering(U))
    BY <1>2, <2>1, WFMin
  <2>3. PICK i \in S : \A j \in S : ~ (<<under(j), under(i)>> \in StrictSubsetOrdering(U))
    BY <2>2
  <2>4. ASSUME NEW j \in S, ~ (i <= j) PROVE FALSE
    <3>1. i \in Nat /\ j \in Nat /\ j < i
      BY <1>1, <2>4, SMTT(30)
    <3>2. under(j) \subseteq under(i) /\ j \in under(i) /\ j \notin under(j)
      BY <1>1, <3>1, SMTT(30)
    <3>3. under(j) \in SUBSET U /\ under(i) \in SUBSET U /\ under(j) # under(i)
      BY <3>2
    <3>4. <<under(j), under(i)>> \in StrictSubsetOrdering(U)
      <4> HIDE DEF under, U
      <4> QED BY <3>2, <3>3 DEF StrictSubsetOrdering
    <3> QED BY <3>4, <2>3
  <2> QED BY <2>4
<1>4. \E i \in S : \A j \in S : j <= i
  <2> DEFINE T == {over(i) : i \in S}
  <2>1. T \subseteq SUBSET U /\ T # {}
    OBVIOUS
  <2>2. \E x \in T : \A y \in T : ~ (<<y, x>> \in StrictSubsetOrdering(U))
    BY <1>2, <2>1, WFMin
  <2>3. PICK i \in S : \A j \in S : ~ (<<over(j), over(i)>> \in StrictSubsetOrdering(U))
    BY <2>2
  <2>4. ASSUME NEW j \in S, ~ (j <= i) PROVE FALSE
    <3>1. i \in Nat /\ j \in Nat /\ i < j
      BY <1>1, <2>4, SMTT(30)
    <3>2. over(j) \subseteq over(i) /\ j \in over(i) /\ j \notin over(j)
      BY <1>1, <3>1, SMTT(30)
    <3>3. over(j) \in SUBSET U /\ over(i) \in SUBSET U /\ over(j) # over(i)
      BY <3>2
    <3>4. <<over(j), over(i)>> \in StrictSubsetOrdering(U)
      <4> HIDE DEF over, U
      <4> QED BY <3>2, <3>3, SMTT(30) DEF StrictSubsetOrdering
    <3> QED BY <3>4, <2>3
  <2> QED BY <2>4
<1> QED BY <1>3, <1>4

\* A page leaves out no event below one it holds.
LEMMA PageDown ==
  ASSUME LogInv, NEW cursor \in Nat, NEW i \in Page(cursor), NEW j \in log,
         cursor < j, j < i
  PROVE  j \in Page(cursor)
<1> DEFINE below(n) == {k \in log : cursor < k /\ k < n}
<1>1. IsFiniteSet(Ids) /\ Ids \subseteq Nat
  BY LogConstants, FS_Interval, SMTT(30) DEF Ids
<1>2. log \subseteq Ids /\ i \in log
  BY DEF Page, LogInv, LogColumns
<1>3. below(j) \subseteq below(i) /\ below(i) \subseteq Ids
  <2>1. i \in Nat /\ j \in Nat /\ \A k \in log : k \in Nat
    BY <1>1, <1>2
  <2>2. \A k \in log : k < j => k < i
    BY <2>1
  <2> QED BY <1>2, <2>2
<1>4. IsFiniteSet(below(i))
  BY Zenon, <1>1, <1>3, FS_Subset
<1>5. Cardinality(below(j)) <= Cardinality(below(i)) /\ IsFiniteSet(below(j))
  BY <1>3, <1>4, FS_Subset
<1>6. Cardinality(below(i)) \in Nat /\ Cardinality(below(j)) \in Nat
  BY <1>4, <1>5, FS_CardinalityType
<1>7. Cardinality(below(i)) < PageSize
  BY DEF Page
<1>8. Cardinality(below(j)) < PageSize
  BY <1>5, <1>6, <1>7, FloorConstants
<1>9. j > cursor
  BY <1>1, <1>2
<1> QED BY <1>8, <1>9 DEF Page

\* A page that is not full holds all there is above the cursor.
LEMMA PageAll ==
  ASSUME LogInv, NEW cursor \in Nat, Cardinality(Page(cursor)) < PageSize,
         NEW i \in log, cursor < i
  PROVE  i \in Page(cursor)
<1> DEFINE page == Page(cursor)
           rest == {k \in log : cursor < k /\ k \notin page}
<1>1. IsFiniteSet(Ids) /\ Ids \subseteq Nat /\ Ids \subseteq 0..MaxId
  BY LogConstants, FS_Interval, SMTT(30) DEF Ids
<1>2. log \subseteq Ids /\ page \subseteq log
  BY DEF Page, LogInv, LogColumns
<1>3. SUFFICES ASSUME rest # {} PROVE FALSE
  OBVIOUS
<1>4. PICK m \in rest : \A k \in rest : m <= k
  <2>1. rest \in SUBSET (0..MaxId)
    BY <1>1, <1>2
  <2> HIDE DEF rest
  <2> QED BY <1>3, <2>1, LeastAndLargest
<1> DEFINE below == {k \in log : cursor < k /\ k < m}
<1>5. below \subseteq page
  <2>1. m \in Nat /\ \A k \in log : k \in Nat
    BY <1>1, <1>2
  <2>2. ASSUME NEW k \in log, cursor < k, k < m, k \notin page PROVE FALSE
    <3>1. k \in rest
      BY <2>2
    <3>2. m <= k
      BY <3>1, <1>4
    <3> QED BY <3>2, <2>1, <2>2, SMTT(30)
  <2> QED BY <2>2
<1>6. IsFiniteSet(page)
  BY <1>1, <1>2, FS_Subset
<1>7. Cardinality(below) <= Cardinality(page) /\ IsFiniteSet(below)
  BY <1>5, <1>6, FS_Subset
<1>8. Cardinality(below) < PageSize
  BY <1>6, <1>7, FS_CardinalityType, FloorConstants, SMTT(30)
<1>9. m > cursor /\ m \in log /\ m \notin page
  BY <1>1, <1>2
<1> QED BY <1>8, <1>9 DEF Page

LEMMA FloorInitial == FloorInit => FloorInv
<1> SUFFICES ASSUME FloorInit PROVE FloorInv
  OBVIOUS
<1>1. LogInv /\ log = {} /\ sent = {}
  BY LogInitial DEF FloorInit, FeedInit, LogInit
<1>2. Off \in FloorTick /\ 0 \in 0..MaxId
  BY LogConstants, SMTT(30) DEF Off, FloorTick
<1>3. <<>> \in Seq(Ids)
  BY SMTT(30)
<1>4. FloorColumns
  BY <1>2, <1>3 DEF FloorInit, FloorColumns
<1>5. \A n \in Nodes : task[n].pc = "off" /\ task[n].ptr = 0 /\ task[n].covered = 0
  BY DEF FloorInit, Off
<1>6. \A n \in Nodes : PointerInHand(n) /\ ReadOrLate(n) /\ PointerAccounted(n)
  BY <1>5 DEF PointerInHand, ReadOrLate, PointerAccounted, Listening
<1> QED BY <1>1, <1>4, <1>6 DEF FloorInv

LEMMA FloorFeed ==
  ASSUME FloorInv, UNCHANGED feedVars
  PROVE  LogInv' /\ (sent \subseteq log)' /\ log' = log /\ sent' = sent
<1>1. LogInv' /\ (sent \subseteq log)'
  BY FeedSame DEF FloorInv
<1> QED BY <1>1 DEF feedVars

\* Numbers a task and a mark hold, and when the horizon is at or above an id.
LEMMA Horizons ==
  ASSUME FloorColumns, NEW n \in Nodes, NEW i \in Nat
  PROVE  /\ mark[n] \in Nat /\ task[n].covered \in Nat /\ task[n].ptr \in Nat
         /\ task[n] \in FloorTick
         /\ i <= Horizon(n) <=> i <= mark[n] \/ i <= task[n].covered
<1>1. mark[n] \in 0..MaxId /\ task[n] \in FloorTick
  BY DEF FloorColumns
<1>2. mark[n] \in Nat /\ task[n].covered \in Nat /\ task[n].ptr \in Nat
  BY <1>1, LogConstants, SMTT(30) DEF FloorTick
<1> QED BY <1>1, <1>2, SMTT(30) DEF Horizon, Greater

LEMMA FloorWriteInv ==
  ASSUME FloorInv, LogNext, Overtake, UNCHANGED sent
  PROVE  FloorInv'
<1>1. FeedNext
  BY DEF FeedNext
<1>2. LogInv' /\ log \subseteq log' /\ (sent \subseteq log)'
  BY <1>1, FeedGrows DEF FloorInv
<1>3. UNCHANGED <<sent, up, chan, mark, task, delivered, lost>>
  BY DEF Overtake, nodeVars
<1>4. \A n \in Nodes : behind'[n] = behind[n] \cup {i \in log' \ log : i <= Horizon(n)}
  BY DEF Overtake
<1>5. log' \subseteq Ids
  BY <1>2 DEF LogInv, LogColumns
<1>6. FloorColumns'
  <2>1. behind' \in [Nodes -> SUBSET Ids]
    BY <1>4, <1>5 DEF Overtake, FloorInv, FloorColumns
  <2> QED BY <1>3, <2>1 DEF FloorInv, FloorColumns
<1>7. ASSUME NEW n \in Nodes
      PROVE  (PointerInHand(n) /\ ReadOrLate(n) /\ PointerAccounted(n))'
  <2>1. PointerInHand(n) /\ ReadOrLate(n) /\ PointerAccounted(n)
    BY DEF FloorInv
  <2>2. Horizon(n)' = Horizon(n) /\ Listening(n)' = Listening(n)
    BY <1>3 DEF Horizon, Listening
  <2>3. ReadOrLate(n)'
    BY <1>3, <1>4, <2>1, <2>2 DEF ReadOrLate
  <2> QED BY <1>3, <2>1, <2>2, <2>3 DEF PointerInHand, PointerAccounted
<1> QED BY <1>2, <1>6, <1>7 DEF FloorInv

\* What a queue holds when a pointer joins it and when its first one leaves.
LEMMA QueueMoves ==
  ASSUME NEW s \in Seq(Ids), NEW e \in Ids
  PROVE  /\ Range(s \o <<e>>) = Range(s) \cup {e}
         /\ s # <<>> => Range(s) = {Head(s)} \cup Range(Tail(s))
<1>1. ASSUME NEW q \in Seq(Ids), NEW x
      PROVE  x \in Range(q) <=> \E k \in 1..Len(q) : q[k] = x
  BY SMTT(30) DEF Range
<1>2. Range(s \o <<e>>) = Range(s) \cup {e}
  <2> DEFINE t == s \o <<e>>
  <2>1. /\ t \in Seq(Ids) /\ Len(t) = Len(s) + 1 /\ Len(s) \in Nat
        /\ \A k \in 1..Len(s) : t[k] = s[k]
        /\ t[Len(s) + 1] = e
    BY SMTT(30)
  <2> HIDE DEF t
  <2>2. \A k \in 1..Len(t) : k \in 1..Len(s) \/ k = Len(s) + 1
    BY <2>1, SMTT(30)
  <2>3. \A k \in 1..Len(s) : k \in 1..Len(t)
    BY <2>1, SMTT(30)
  <2>4. Len(s) + 1 \in 1..Len(t)
    BY <2>1, SMTT(30)
  <2>5. \A x : x \in Range(t) <=> x \in Range(s) \/ x = e
    <3>1. \A x : x \in Range(t) <=> \E k \in 1..Len(t) : t[k] = x
      BY <1>1, <2>1
    <3>2. \A x : x \in Range(s) <=> \E k \in 1..Len(s) : s[k] = x
      BY <1>1
    <3> QED BY <3>1, <3>2, <2>1, <2>2, <2>3, <2>4
  <2> QED BY <2>5 DEF t
<1>3. ASSUME s # <<>> PROVE Range(s) = {Head(s)} \cup Range(Tail(s))
  <2> DEFINE t == Tail(s)
  <2>1. /\ t \in Seq(Ids) /\ Len(t) = Len(s) - 1 /\ Len(s) \in Nat \ {0}
        /\ \A k \in 1..Len(t) : t[k] = s[k + 1]
        /\ s[1] = Head(s)
    BY <1>3, SMTT(30)
  <2> HIDE DEF t
  <2>2. \A k \in 1..Len(s) : k = 1 \/ (k - 1 \in 1..Len(t) /\ t[k - 1] = s[k])
    BY <2>1, SMTT(30)
  <2>3. \A k \in 1..Len(t) : k + 1 \in 1..Len(s)
    BY <2>1, SMTT(30)
  <2>4. 1 \in 1..Len(s)
    BY <2>1, SMTT(30)
  <2>5. \A x : x \in Range(s) <=> x \in Range(t) \/ x = Head(s)
    <3>1. \A x : x \in Range(t) <=> \E k \in 1..Len(t) : t[k] = x
      BY <1>1, <2>1
    <3>2. \A x : x \in Range(s) <=> \E k \in 1..Len(s) : s[k] = x
      BY <1>1
    <3> QED BY <3>1, <3>2, <2>1, <2>2, <2>3, <2>4
  <2> QED BY <2>5 DEF t
<1> QED BY <1>2, <1>3

LEMMA NotifyInv ==
  ASSUME FloorInv, NEW i \in Ids, Announce(i), Point(i)
  PROVE  FloorInv'
<1>1. FeedNext /\ i \in log /\ sent' = sent \cup {i} /\ log' = log
  BY DEF FeedNext, Announce, logVars
<1>2. LogInv' /\ (sent \subseteq log)'
  BY <1>1, FeedGrows DEF FloorInv
<1>3. UNCHANGED <<up, mark, task, delivered, behind>>
  BY DEF Point
<1>4. chan \in [Nodes -> Seq(Ids)] /\ lost \in [Nodes -> SUBSET Ids]
  BY DEF FloorInv, FloorColumns
<1>5. ASSUME NEW n \in Nodes
      PROVE  /\ chan'[n] = (IF up[n] THEN chan[n] \o <<i>> ELSE chan[n])
             /\ lost'[n] = (IF up[n] THEN lost[n] ELSE lost[n] \cup {i})
             /\ chan'[n] \in Seq(Ids)
             /\ Range(chan'[n]) = IF up[n] THEN Range(chan[n]) \cup {i} ELSE Range(chan[n])
  <2>1. /\ chan'[n] = IF up[n] THEN chan[n] \o <<i>> ELSE chan[n]
        /\ lost'[n] = IF up[n] THEN lost[n] ELSE lost[n] \cup {i}
    BY <1>4 DEF Point
  <2>2. chan[n] \in Seq(Ids) /\ chan[n] \o <<i>> \in Seq(Ids)
    BY <1>4, SMTT(30)
  <2>3. Range(chan[n] \o <<i>>) = Range(chan[n]) \cup {i}
    BY <2>2, QueueMoves
  <2> QED BY <2>1, <2>2, <2>3
<1>6. FloorColumns'
  <2>1. chan' \in [Nodes -> Seq(Ids)]
    BY <1>5 DEF Point
  <2>2. lost' \in [Nodes -> SUBSET Ids]
    BY <1>4 DEF Point
  <2> QED BY <1>3, <2>1, <2>2 DEF FloorInv, FloorColumns
<1>7. ASSUME NEW n \in Nodes
      PROVE  (PointerInHand(n) /\ ReadOrLate(n) /\ PointerAccounted(n))'
  <2>1. PointerInHand(n) /\ ReadOrLate(n) /\ PointerAccounted(n)
    BY DEF FloorInv
  <2>2. Horizon(n)' = Horizon(n) /\ Listening(n)' = Listening(n)
    BY <1>3 DEF Horizon, Listening
  <2>3. ReadOrLate(n)'
    BY <1>1, <1>3, <2>1, <2>2 DEF ReadOrLate
  <2>4. PointerAccounted(n)'
    BY <1>1, <1>3, <1>5, <2>1, <2>2, ZenonT(20) DEF PointerAccounted
  <2> QED BY <1>3, <2>1, <2>3, <2>4 DEF PointerInHand
<1> QED BY <1>2, <1>6, <1>7 DEF FloorInv

\* A step of one listener leaves the others as they are.
LEMMA OneListener ==
  ASSUME FloorInv, NEW n \in Nodes, UNCHANGED <<feedVars, behind>>,
         FloorColumns',
         \A m \in Nodes \ {n} :
           /\ mark'[m] = mark[m] /\ task'[m] = task[m] /\ chan'[m] = chan[m]
           /\ delivered'[m] = delivered[m] /\ lost'[m] = lost[m],
         PointerInHand(n)', ReadOrLate(n)', PointerAccounted(n)'
  PROVE  FloorInv'
<1>1. LogInv' /\ (sent \subseteq log)' /\ log' = log /\ sent' = sent /\ behind' = behind
  BY FloorFeed
<1>2. ASSUME NEW m \in Nodes \ {n}
      PROVE  (PointerInHand(m) /\ ReadOrLate(m) /\ PointerAccounted(m))'
  <2>1. PointerInHand(m) /\ ReadOrLate(m) /\ PointerAccounted(m)
    BY DEF FloorInv
  <2>2. Horizon(m)' = Horizon(m) /\ Listening(m)' = Listening(m)
    BY DEF Horizon, Listening
  <2> QED BY <1>1, <2>1, <2>2 DEF PointerInHand, ReadOrLate, PointerAccounted
<1> QED BY <1>1, <1>2 DEF FloorInv

LEMMA ListenInv ==
  ASSUME FloorInv, NEW n \in Nodes, Listen(n)
  PROVE  FloorInv'
<1>1. UNCHANGED <<feedVars, behind>> /\ UNCHANGED <<chan, mark, delivered, lost>>
  BY DEF Listen
<1>2. task \in [Nodes -> FloorTick] /\ task[n].pc = "off" /\ PointerInHand(n)
  BY DEF FloorInv, FloorColumns, Listen
<1>3. /\ task' \in [Nodes -> FloorTick]
      /\ task'[n].pc = "starting" /\ task'[n].ptr = 0 /\ task'[n].covered = 0
      /\ \A m \in Nodes \ {n} : task'[m] = task[m]
  BY <1>2 DEF Listen, FloorTick, PointerInHand
<1>4. FloorColumns'
  BY <1>1, <1>3 DEF FloorInv, FloorColumns
<1>5. PointerInHand(n)' /\ ReadOrLate(n)' /\ PointerAccounted(n)'
  BY <1>3 DEF PointerInHand, ReadOrLate, PointerAccounted, Listening
<1> QED BY <1>1, <1>3, <1>4, <1>5, OneListener

LEMMA StartInv ==
  ASSUME FloorInv, NEW n \in Nodes, Start(n)
  PROVE  FloorInv'
<1>1. UNCHANGED <<feedVars, behind>> /\ UNCHANGED <<chan, lost>>
  BY DEF Start
<1>2. LogInv /\ log \subseteq Ids /\ log' = log /\ sent' = sent /\ sent \subseteq log
  BY <1>1 DEF FloorInv, LogInv, LogColumns, feedVars
<1>3. PICK head \in log \cup {0} : mark' = [mark EXCEPT ![n] = head]
  BY DEF Start
<1>4. head \in 0..MaxId /\ 0 \in 0..MaxId
  BY <1>2, LogConstants, SMTT(30) DEF Ids
<1>5. task' = [task EXCEPT ![n] = Receiving] /\ delivered' = [delivered EXCEPT ![n] = log]
  BY DEF Start
<1>6. Receiving \in FloorTick /\ Receiving.ptr = 0 /\ Receiving.covered = 0 /\ Receiving.pc = "recv"
  BY <1>4 DEF Receiving, FloorTick
<1>7. FloorColumns'
  BY <1>1, <1>2, <1>3, <1>4, <1>5, <1>6 DEF FloorInv, FloorColumns
<1>8. task'[n] = Receiving /\ delivered'[n] = log
  BY <1>5 DEF FloorInv, FloorColumns
<1>9. PointerInHand(n)' /\ ReadOrLate(n)' /\ PointerAccounted(n)'
  BY <1>2, <1>6, <1>8 DEF PointerInHand, ReadOrLate, PointerAccounted
<1>10. \A m \in Nodes \ {n} : /\ mark'[m] = mark[m] /\ task'[m] = task[m]
                               /\ delivered'[m] = delivered[m]
  BY <1>3, <1>5 DEF FloorInv, FloorColumns
<1> QED BY <1>1, <1>7, <1>9, <1>10, OneListener

LEMMA OnPointerInv ==
  ASSUME FloorInv, NEW n \in Nodes, OnPointer(n)
  PROVE  FloorInv'
<1> DEFINE i == Head(chan[n])
<1>1. UNCHANGED <<feedVars, behind>> /\ UNCHANGED <<up, mark, delivered, lost>>
  BY DEF OnPointer
<1>2. /\ task[n].pc = "recv" /\ chan[n] # <<>> /\ chan' = [chan EXCEPT ![n] = Tail(chan[n])]
      /\ task' = [task EXCEPT ![n] = [pc |-> IF i > mark[n] + 1 THEN "drain" ELSE "get",
                                      ptr |-> i, covered |-> mark[n]]]
  BY DEF OnPointer
<1>3. FloorColumns /\ PointerInHand(n) /\ ReadOrLate(n) /\ PointerAccounted(n)
  BY DEF FloorInv
<1>4. chan[n] \in Seq(Ids)
  BY <1>3 DEF FloorColumns
<1>5. i \in Ids /\ Tail(chan[n]) \in Seq(Ids) /\ Range(chan[n]) = {i} \cup Range(Tail(chan[n]))
  <2>1. i \in Ids /\ Tail(chan[n]) \in Seq(Ids)
    BY <1>2, <1>4, SMTT(30)
  <2> QED BY <2>1, <1>2, <1>4, QueueMoves
<1>6. i \in 0..MaxId /\ mark[n] \in 0..MaxId
  BY <1>3, <1>5, LogConstants, SMTT(30) DEF FloorColumns, Ids
<1>7. /\ chan'[n] = Tail(chan[n]) /\ task'[n].ptr = i /\ task'[n].covered = mark[n]
      /\ task'[n].pc \in {"drain", "get"} /\ task'[n] \in FloorTick
  BY <1>2, <1>3, <1>6 DEF FloorColumns, FloorTick
<1>8. FloorColumns'
  <2>1. chan' \in [Nodes -> Seq(Ids)]
    BY <1>2, <1>3, <1>5 DEF FloorColumns
  <2>2. task' \in [Nodes -> FloorTick]
    BY <1>2, <1>3, <1>7 DEF FloorColumns
  <2> QED BY <1>1, <1>3, <2>1, <2>2 DEF FloorColumns
<1>9. PointerInHand(n)'
  BY <1>5, <1>7 DEF PointerInHand
<1>10. log' = log /\ sent' = sent /\ behind' = behind /\ delivered' = delivered /\ lost' = lost
  BY <1>1 DEF feedVars
<1>11. Horizon(n)' = Horizon(n) /\ Listening(n)
  BY <1>1, <1>2, <1>3, <1>6, <1>7, SMTT(30) DEF Horizon, Greater, PointerInHand, Listening
<1>12. ReadOrLate(n)'
  BY <1>3, <1>10, <1>11 DEF ReadOrLate
<1>13. PointerAccounted(n)'
  <2>1. 0 \notin sent
    BY LogConstants, SMTT(30) DEF FloorInv, LogInv, LogColumns, Ids
  <2>2. task[n].ptr = 0
    BY <1>2, <1>3 DEF PointerInHand
  <2> QED BY <1>3, <1>5, <1>7, <1>10, <1>11, <2>1, <2>2 DEF PointerAccounted
<1>14. \A m \in Nodes \ {n} : task'[m] = task[m] /\ chan'[m] = chan[m]
  BY <1>2, <1>3 DEF FloorColumns
<1> QED BY <1>1, <1>8, <1>9, <1>12, <1>13, <1>14, OneListener

LEMMA OnReconnectInv ==
  ASSUME FloorInv, NEW n \in Nodes, OnReconnect(n)
  PROVE  FloorInv'
<1>1. UNCHANGED <<feedVars, behind>> /\ UNCHANGED <<up, chan, mark, delivered, lost>>
  BY DEF OnReconnect
<1>2. /\ task[n].pc = "recv"
      /\ task' = [task EXCEPT ![n] = [pc |-> "drain", ptr |-> 0, covered |-> mark[n]]]
  BY DEF OnReconnect
<1>3. FloorColumns /\ PointerInHand(n) /\ ReadOrLate(n) /\ PointerAccounted(n)
  BY SMTT(30) DEF FloorInv
<1>4. mark[n] \in 0..MaxId /\ 0 \in 0..MaxId
  BY <1>3, LogConstants, SMTT(30) DEF FloorColumns
<1>5. /\ task'[n].pc = "drain" /\ task'[n].ptr = 0 /\ task'[n].covered = mark[n]
      /\ task'[n] \in FloorTick
  BY <1>2, <1>3, <1>4 DEF FloorColumns, FloorTick
<1>6. FloorColumns'
  <2>1. task' \in [Nodes -> FloorTick]
    BY <1>2, <1>3, <1>5 DEF FloorColumns
  <2> QED BY <1>1, <1>3, <2>1 DEF FloorColumns
<1>7. PointerInHand(n)'
  BY <1>5 DEF PointerInHand
<1>8. log' = log /\ sent' = sent /\ task[n].ptr = 0
  BY <1>1, <1>2, <1>3 DEF feedVars, PointerInHand
<1>9. Horizon(n)' = Horizon(n) /\ Listening(n)
  BY <1>1, <1>2, <1>3, <1>4, <1>5, SMTT(30) DEF Horizon, Greater, PointerInHand, Listening
<1>10. ReadOrLate(n)' /\ PointerAccounted(n)'
  BY <1>1, <1>3, <1>5, <1>8, <1>9 DEF ReadOrLate, PointerAccounted
<1>11. \A m \in Nodes \ {n} : task'[m] = task[m]
  BY <1>2, <1>3 DEF FloorColumns
<1> QED BY <1>1, <1>6, <1>7, <1>10, <1>11, OneListener

\* The end of a drain up to `covered`, when all up to there was read.
LEMMA DrainedInv ==
  ASSUME FloorInv, NEW n \in Nodes, NEW covered \in 0..MaxId,
         task[n].pc = "drain", Drained(n, covered),
         UNCHANGED <<feedVars, behind>>, UNCHANGED <<chan, lost>>,
         delivered' \in [Nodes -> SUBSET Ids], delivered[n] \subseteq delivered'[n],
         \A m \in Nodes \ {n} : delivered'[m] = delivered[m],
         \A i \in log \ Undecodable :
           i <= covered => i <= task[n].covered \/ i \in delivered'[n]
  PROVE  FloorInv'
<1>1. FloorColumns /\ PointerInHand(n) /\ ReadOrLate(n) /\ PointerAccounted(n)
  BY DEF FloorInv
<1>2. task[n] \in FloorTick /\ mark[n] \in 0..MaxId /\ 0 \in 0..MaxId /\ covered \in Nat
  BY <1>1, LogConstants, SMTT(30) DEF FloorColumns
<1>3. log' = log /\ sent' = sent /\ Listening(n)
  BY DEF feedVars, Listening
<1>4. CASE task[n].ptr = 0
  <2>1. mark' = [mark EXCEPT ![n] = covered] /\ task' = [task EXCEPT ![n] = Receiving]
    BY <1>4 DEF Drained
  <2>2. /\ Receiving \in FloorTick /\ Receiving.ptr = 0 /\ Receiving.covered = 0
        /\ Receiving.pc = "recv"
    BY <1>2 DEF Receiving, FloorTick
  <2>3. FloorColumns'
    BY <1>1, <2>1, <2>2 DEF FloorColumns
  <2>4. mark'[n] = covered /\ task'[n] = Receiving
    BY <1>1, <2>1 DEF FloorColumns
  <2>5. \A m \in Nodes \ {n} : mark'[m] = mark[m] /\ task'[m] = task[m]
    BY <1>1, <2>1 DEF FloorColumns
  <2>6. PointerInHand(n)' /\ PointerAccounted(n)'
    BY <1>1, <1>3, <1>4, <2>2, <2>4 DEF PointerInHand, PointerAccounted
  <2>7. \A i \in log : i \in Nat
    BY LogConstants, SMTT(30) DEF FloorInv, LogInv, LogColumns, Ids
  <2>8. Horizon(n)' = covered
    BY <1>2, <2>2, <2>4, SMTT(30) DEF Horizon, Greater
  <2>9. \A i \in log \ Undecodable : i <= covered => i \in delivered'[n] \cup behind[n]
    <3> SUFFICES ASSUME NEW i \in log \ Undecodable, i <= covered, i <= task[n].covered
                 PROVE  i \in delivered'[n] \cup behind[n]
      OBVIOUS
    <3>1. i <= Horizon(n)
      BY <1>1, <2>7, Horizons
    <3> QED BY <3>1, <1>1, <1>3 DEF ReadOrLate
  <2>10. ReadOrLate(n)'
    BY <1>3, <2>8, <2>9 DEF ReadOrLate
  <2> QED BY <2>3, <2>5, <2>6, <2>10, OneListener
<1>5. CASE task[n].ptr # 0
  <2>1. mark' = mark /\ task' = [task EXCEPT ![n].pc = "get", ![n].covered = covered]
    BY <1>5 DEF Drained
  <2>2. /\ task'[n].pc = "get" /\ task'[n].covered = covered /\ task'[n].ptr = task[n].ptr
        /\ task' \in [Nodes -> FloorTick]
        /\ \A m \in Nodes \ {n} : task'[m] = task[m]
    BY <1>1, <1>2, <2>1 DEF FloorColumns, FloorTick
  <2>3. FloorColumns'
    BY <1>1, <2>1, <2>2 DEF FloorColumns
  <2>4. PointerInHand(n)'
    BY <1>2, <1>5, <2>2, LogConstants, SMTT(30) DEF PointerInHand, FloorTick, Ids
  <2>5. PointerAccounted(n)'
    BY <1>1, <1>3, <2>2 DEF PointerAccounted
  <2>6. \A i \in log : i \in Nat
    BY LogConstants, SMTT(30) DEF FloorInv, LogInv, LogColumns, Ids
  <2>7. \A i \in log : i <= Horizon(n)' => i <= mark[n] \/ i <= covered
    BY <1>2, <2>1, <2>2, <2>6 DEF Horizon, Greater
  <2>8. \A i \in log \ Undecodable :
          i <= mark[n] \/ i <= covered => i \in delivered'[n] \cup behind[n]
    <3> SUFFICES ASSUME NEW i \in log \ Undecodable, i <= mark[n] \/ i <= task[n].covered
                 PROVE  i \in delivered'[n] \cup behind[n]
      OBVIOUS
    <3>1. i <= Horizon(n)
      BY <1>1, <2>6, Horizons
    <3> QED BY <3>1, <1>1, <1>3 DEF ReadOrLate
  <2>9. ReadOrLate(n)'
    BY <1>3, <2>7, <2>8 DEF ReadOrLate
  <2> QED BY <2>1, <2>2, <2>3, <2>4, <2>5, <2>9, OneListener
<1> QED BY <1>4, <1>5

LEMMA DrainPageInv ==
  ASSUME FloorInv, NEW n \in Nodes, DrainPage(n)
  PROVE  FloorInv'
<1> DEFINE ptr == task[n].ptr
           cursor == task[n].covered
           page == Page(cursor)
           take == {i \in page : ptr = 0 \/ i < ptr}
           top == CHOOSE i \in take \cup {cursor} : \A j \in take : j <= i
           over == take # page \/ Cardinality(page) < PageSize
<1>1. UNCHANGED <<feedVars, behind>> /\ UNCHANGED <<up, chan, lost>> /\ task[n].pc = "drain"
  BY DEF DrainPage
<1>2. FloorColumns /\ PointerInHand(n) /\ ReadOrLate(n) /\ PointerAccounted(n) /\ LogInv
  BY DEF FloorInv
<1>3. task[n] \in FloorTick /\ ptr \in 0..MaxId /\ cursor \in 0..MaxId
  BY <1>2 DEF FloorColumns, FloorTick
<1>4. Ids \subseteq 0..MaxId /\ 0..MaxId \subseteq Nat /\ log \subseteq Ids /\ page \subseteq log
  BY <1>2, LogConstants, SMTT(30) DEF Ids, LogInv, LogColumns, Page
<1>5. CASE Fault /\ Stopped(n) /\ UNCHANGED delivered
  <2>1. Drained(n, cursor)
    BY <1>5 DEF Stopped
  <2> QED BY <1>1, <1>2, <1>3, <1>5, <2>1, DrainedInv DEF FloorColumns
<1>6. CASE /\ delivered' = [delivered EXCEPT ![n] = @ \cup (take \ Undecodable)]
           /\ IF over
              THEN Drained(n, IF ptr = 0 THEN top ELSE ptr - 1)
              ELSE task' = [task EXCEPT ![n].covered = top] /\ UNCHANGED mark
  <2>1. /\ delivered' \in [Nodes -> SUBSET Ids] /\ delivered[n] \subseteq delivered'[n]
        /\ \A m \in Nodes \ {n} : delivered'[m] = delivered[m]
        /\ take \ Undecodable \subseteq delivered'[n]
    <3>1. take \subseteq Ids /\ delivered \in [Nodes -> SUBSET Ids]
      BY <1>2, <1>4 DEF FloorColumns
    <3> HIDE DEF take
    <3> QED BY <1>6, <3>1
  <2>2. top \in take \cup {cursor} /\ \A j \in take : j <= top
    <3>1. take \cup {cursor} \in SUBSET (0..MaxId) /\ take \cup {cursor} # {}
      BY <1>3, <1>4
    <3>2. \E i \in take \cup {cursor} : \A j \in take \cup {cursor} : j <= i
      <4> HIDE DEF take, cursor
      <4> QED BY <3>1, LeastAndLargest
    <3>3. \E i \in take \cup {cursor} : \A j \in take : j <= i
      BY <3>2
    <3> HIDE DEF take, cursor
    <3> QED BY <3>3
  <2>3. top \in 0..MaxId
    BY <1>3, <1>4, <2>2
  \* All up to the last id taken was read.
  <2>4. ASSUME NEW i \in log, i <= top, ~ (i <= cursor)
        PROVE  i \in take
    <3>1. i \in Nat /\ cursor \in Nat /\ top \in Nat /\ cursor < i
      <4> HIDE DEF top, cursor
      <4>1. i \in Nat /\ cursor \in Nat /\ top \in Nat
        BY <1>3, <1>4, <2>3
      <4> QED BY <2>4, <4>1, SMTT(30)
    <3>2. top \in take /\ top \in page
      <4> HIDE DEF top
      <4> QED BY <2>2, <2>4, <3>1
    <3>3. i \in page
      <4>1. CASE i = top
        BY <4>1, <3>2
      <4>2. CASE i < top
        <5> HIDE DEF top
        <5> HIDE DEF cursor
        <5> QED BY <4>2, <3>1, <3>2, <1>2, PageDown
      <4> HIDE DEF top
      <4> QED BY <4>1, <4>2, <2>4, <3>1, SMTT(30)
    <3>4. ptr = 0 \/ i < ptr
      <4> HIDE DEF top
      <4> QED BY <2>4, <3>1, <3>2, <1>3, <1>4, SMTT(30)
    <3> QED BY <3>3, <3>4
  <2>5. CASE over /\ ptr = 0
    <3>1. Drained(n, top)
      BY <1>6, <2>5
    <3>2. \A i \in log \ Undecodable : i <= top => i <= cursor \/ i \in delivered'[n]
      <4> HIDE DEF top, take
      <4> QED BY <2>1, <2>4
    <3> HIDE DEF top, take, over
    <3> QED BY <1>1, <2>1, <2>3, <3>1, <3>2, DrainedInv
  <2>6. CASE over /\ ptr # 0
    <3>1. Drained(n, ptr - 1) /\ ptr - 1 \in 0..MaxId
      BY <1>3, <1>6, <2>6, LogConstants, SMTT(30)
    <3>2. ASSUME NEW i \in log \ Undecodable, i <= ptr - 1, ~ (i <= cursor)
          PROVE  i \in delivered'[n]
      <4>1. i \in Nat /\ cursor \in Nat /\ ptr \in Nat /\ cursor < i /\ i < ptr
        BY <1>3, <1>4, <3>2, SMTT(30)
      <4>2. CASE take # page
        <5>1. PICK p \in page : ~ (p < ptr)
          BY <4>2
        <5>2. i < p
          <6>1. p \in Nat
            BY <1>4
          <6> QED BY <4>1, <5>1, <6>1, SMTT(30)
        <5>3. i \in page
          <6> HIDE DEF cursor
          <6> QED BY <1>2, <4>1, <5>2, PageDown
        <5> QED BY <4>1, <5>3, <2>1
      <4>3. CASE Cardinality(page) < PageSize
        <5>1. i \in page
          BY <1>2, <4>1, <4>3, PageAll
        <5> QED BY <4>1, <5>1, <2>1
      <4> QED BY <2>6, <4>2, <4>3
    <3>3. \A i \in log \ Undecodable : i <= ptr - 1 => i <= cursor \/ i \in delivered'[n]
      BY <3>2
    <3> HIDE DEF top, take, over
    <3> QED BY <1>1, <2>1, <3>1, <3>3, DrainedInv
  <2>7. CASE ~over
    <3>1. task' = [task EXCEPT ![n].covered = top] /\ mark' = mark
      BY <1>6, <2>7
    <3> HIDE DEF top, take, over
    <3>2. /\ task'[n].pc = "drain" /\ task'[n].covered = top /\ task'[n].ptr = ptr
          /\ task' \in [Nodes -> FloorTick]
          /\ \A m \in Nodes \ {n} : task'[m] = task[m]
      BY <1>1, <1>2, <1>3, <2>3, <3>1 DEF FloorColumns, FloorTick
    <3>3. FloorColumns'
      BY <1>1, <1>2, <2>1, <3>1, <3>2 DEF FloorColumns
    <3>4. log' = log /\ sent' = sent /\ Listening(n)
      BY <1>1 DEF feedVars, Listening
    <3>5. PointerInHand(n)' /\ PointerAccounted(n)'
      BY <1>1, <1>2, <2>1, <3>2, <3>4 DEF PointerInHand, PointerAccounted
    <3>6. \A i \in log : i \in Nat
      BY <1>4
    <3>7. \A i \in log : i <= Horizon(n)' => i <= mark[n] \/ i <= top
      BY <1>2, <1>4, <2>3, <3>1, <3>2, <3>6 DEF Horizon, Greater, FloorColumns
    <3>8. \A i \in log \ Undecodable :
            i <= mark[n] \/ i <= top => i \in delivered'[n] \cup behind[n]
      <4>1. \A i \in log \ Undecodable : i <= top => i <= cursor \/ i \in delivered'[n]
        BY <2>1, <2>4, SMTT(30)
      <4> SUFFICES ASSUME NEW i \in log \ Undecodable, i <= mark[n] \/ i <= task[n].covered
                   PROVE  i \in delivered'[n] \cup behind[n]
        BY <4>1
      <4>2. i <= Horizon(n)
        BY <1>2, <3>6, Horizons
      <4> QED BY <4>2, <1>2, <2>1, <3>4 DEF ReadOrLate
    <3>9. ReadOrLate(n)'
      BY <1>1, <3>4, <3>7, <3>8 DEF ReadOrLate
    <3> QED BY <1>1, <2>1, <3>1, <3>2, <3>3, <3>5, <3>9, OneListener
  <2> QED BY <2>5, <2>6, <2>7
<1> QED BY <1>5, <1>6 DEF DrainPage

LEMMA HydrateInv ==
  ASSUME FloorInv, NEW n \in Nodes, Hydrate(n)
  PROVE  FloorInv'
<1> DEFINE i == task[n].ptr
           cursor == task[n].covered
<1>1. UNCHANGED <<feedVars, behind>> /\ UNCHANGED <<up, chan>> /\ task[n].pc = "get"
  BY DEF Hydrate
<1>2. FloorColumns /\ PointerInHand(n) /\ ReadOrLate(n) /\ PointerAccounted(n)
  BY DEF FloorInv
<1>3. i \in Ids /\ i \in 0..MaxId /\ cursor \in 0..MaxId /\ mark[n] \in 0..MaxId
  BY <1>1, <1>2 DEF PointerInHand, FloorColumns, FloorTick
<1>4. 0..MaxId \subseteq Nat /\ 0 \in 0..MaxId
  BY LogConstants, SMTT(30)
\* Either way of finishing, with ok, and what it delivered or lost.
<1>5. PICK ok \in BOOLEAN :
        /\ ok => i \notin Undecodable
        /\ delivered' = IF ok THEN [delivered EXCEPT ![n] = @ \cup {i}] ELSE delivered
        /\ lost' = IF ok THEN lost ELSE [lost EXCEPT ![n] = @ \cup {i}]
        /\ mark' = [mark EXCEPT ![n] = Greater(@, Reached(n, ok))]
        /\ task' = [task EXCEPT ![n] = Receiving]
  <2>1. CASE /\ i \notin Undecodable
             /\ delivered' = [delivered EXCEPT ![n] = @ \cup {i}]
             /\ mark' = [mark EXCEPT ![n] = Greater(@, Reached(n, TRUE))]
             /\ task' = [task EXCEPT ![n] = Receiving]
             /\ lost' = lost
    BY <2>1
  <2>2. CASE /\ lost' = [lost EXCEPT ![n] = @ \cup {i}]
             /\ mark' = [mark EXCEPT ![n] = Greater(@, Reached(n, FALSE))]
             /\ task' = [task EXCEPT ![n] = Receiving]
             /\ delivered' = delivered
    BY <2>2
  <2> QED BY <2>1, <2>2 DEF Hydrate
<1>6. /\ Receiving \in FloorTick /\ Receiving.ptr = 0 /\ Receiving.covered = 0
      /\ Receiving.pc = "recv"
  BY <1>4 DEF Receiving, FloorTick
<1>7. /\ delivered' \in [Nodes -> SUBSET Ids] /\ lost' \in [Nodes -> SUBSET Ids]
      /\ delivered[n] \subseteq delivered'[n] /\ lost[n] \subseteq lost'[n]
      /\ IF ok THEN i \in delivered'[n] ELSE i \in lost'[n]
      /\ \A m \in Nodes \ {n} : delivered'[m] = delivered[m] /\ lost'[m] = lost[m]
  <2>1. delivered \in [Nodes -> SUBSET Ids] /\ lost \in [Nodes -> SUBSET Ids]
    BY <1>2 DEF FloorColumns
  <2> HIDE DEF i
  <2> QED BY <1>3, <1>5, <2>1
<1>8. /\ Greater(mark[n], Reached(n, ok)) \in 0..MaxId
      /\ \A j \in Nat : j <= Greater(mark[n], Reached(n, ok)) =>
           j <= mark[n] \/ j <= cursor \/ (j = i /\ ok)
  <2>1. i \in Nat /\ cursor \in Nat /\ mark[n] \in Nat
    BY <1>3, <1>4
  <2>2. /\ Reached(n, ok) \in {cursor, i}
        /\ Reached(n, ok) = i => (cursor >= i - 1 /\ ok) \/ i = cursor
    BY <2>1 DEF Reached, Greater
  <2> HIDE DEF i, cursor
  <2> QED BY <1>3, <2>1, <2>2, SMTT(30) DEF Greater
<1>9. mark'[n] = Greater(mark[n], Reached(n, ok)) /\ task'[n] = Receiving
  BY <1>2, <1>5 DEF FloorColumns
<1>10. mark' \in [Nodes -> 0..MaxId] /\ task' \in [Nodes -> FloorTick]
  BY <1>2, <1>5, <1>6, <1>8 DEF FloorColumns
<1>11. FloorColumns'
  BY <1>1, <1>2, <1>7, <1>10 DEF FloorColumns
<1>12. PointerInHand(n)'
  BY <1>6, <1>9 DEF PointerInHand
<1>13. log' = log /\ sent' = sent /\ Listening(n)
  BY <1>1 DEF feedVars, Listening
<1>14. PointerAccounted(n)'
  BY <1>1, <1>2, <1>7, <1>13 DEF PointerAccounted
<1>15. \A j \in log : j \in Nat
  BY LogConstants, SMTT(30) DEF FloorInv, LogInv, LogColumns, Ids
<1>16. ReadOrLate(n)'
  <2> SUFFICES ASSUME NEW j \in log \ Undecodable, j <= Horizon(n)'
               PROVE  j \in delivered'[n] \cup behind[n]
    BY <1>1, <1>13 DEF ReadOrLate
  <2>1. j <= mark'[n]
    BY <1>4, <1>6, <1>8, <1>9, <1>15, SMTT(30) DEF Horizon, Greater
  <2>2. j <= mark[n] \/ j <= cursor \/ (j = i /\ ok)
    BY <1>8, <1>9, <1>15, <2>1
  <2>3. CASE j <= mark[n] \/ j <= cursor
    <3>1. j <= Horizon(n)
      BY <1>2, <1>15, <2>3, Horizons
    <3> QED BY <3>1, <1>2, <1>7, <1>13 DEF ReadOrLate
  <2>4. CASE j = i /\ ok
    BY <2>4, <1>7
  <2> QED BY <2>2, <2>3, <2>4
<1>17. \A m \in Nodes \ {n} : mark'[m] = mark[m] /\ task'[m] = task[m]
  BY <1>2, <1>5 DEF FloorColumns
<1> QED BY <1>1, <1>7, <1>11, <1>12, <1>14, <1>16, <1>17, OneListener

LEMMA DisconnectInv ==
  ASSUME FloorInv, NEW n \in Nodes, Disconnect(n)
  PROVE  FloorInv'
<1>1. UNCHANGED <<feedVars, behind>> /\ UNCHANGED <<mark, task, delivered>>
  BY DEF Disconnect
<1>2. FloorColumns /\ PointerInHand(n) /\ ReadOrLate(n) /\ PointerAccounted(n)
  BY SMTT(30) DEF FloorInv
<1>3. /\ chan' = [chan EXCEPT ![n] = <<>>]
      /\ lost' = [lost EXCEPT ![n] = lost[n] \cup Range(chan[n])]
  BY DEF Disconnect
<1>4. Range(chan[n]) \subseteq Ids
  BY <1>2, SMTT(30) DEF FloorColumns, Range
<1>5. chan' \in [Nodes -> Seq(Ids)] /\ lost' \in [Nodes -> SUBSET Ids]
  BY <1>2, <1>3, <1>4, SMTT(30) DEF FloorColumns
<1>6. FloorColumns'
  BY <1>1, <1>2, <1>5 DEF FloorColumns
<1>7. lost'[n] = lost[n] \cup Range(chan[n])
  BY <1>2, <1>3 DEF FloorColumns
<1>8. log' = log /\ sent' = sent /\ Listening(n)' = Listening(n) /\ Horizon(n)' = Horizon(n)
  BY <1>1 DEF feedVars, Listening, Horizon
<1>9. PointerInHand(n)' /\ ReadOrLate(n)' /\ PointerAccounted(n)'
  BY <1>1, <1>2, <1>7, <1>8 DEF PointerInHand, ReadOrLate, PointerAccounted
<1>10. \A m \in Nodes \ {n} : chan'[m] = chan[m] /\ lost'[m] = lost[m]
  BY <1>2, <1>3 DEF FloorColumns
<1> QED BY <1>1, <1>6, <1>9, <1>10, OneListener

\* Steps that leave all but the connection as it is.
LEMMA FloorSame ==
  ASSUME FloorInv, UNCHANGED feedVars,
         UNCHANGED <<chan, mark, task, delivered, behind, lost>>
  PROVE  FloorInv'
<1>1. LogInv' /\ (sent \subseteq log)' /\ log' = log /\ sent' = sent
  BY FloorFeed
<1> QED BY <1>1 DEF FloorInv, FloorColumns, PointerInHand, ReadOrLate, PointerAccounted,
                    Listening, Horizon

LEMMA ListenerInv ==
  ASSUME FloorInv, NEW n \in Nodes, ListenerStep(n)
  PROVE  FloorInv'
<1>1. CASE Relisten(n) \/ Probe(n)
  BY <1>1, FloorSame DEF Relisten, Probe, floorVars, feedVars
<1> QED BY <1>1, ListenInv, StartInv, OnPointerInv, DrainPageInv, HydrateInv,
           OnReconnectInv, DisconnectInv DEF ListenerStep

LEMMA FloorStep ==
  ASSUME FloorInv, [FloorNext]_floorVars
  PROVE  FloorInv'
<1>1. CASE UNCHANGED floorVars
  BY <1>1, FloorSame DEF floorVars, feedVars
<1>2. CASE FloorWrite
  BY <1>2, FloorWriteInv DEF FloorWrite
<1>3. ASSUME NEW i \in Ids, Notify(i) PROVE FloorInv'
  BY <1>3, NotifyInv DEF Notify
<1> QED BY <1>1, <1>2, <1>3, ListenerInv DEF FloorNext

LEMMA FloorMisses == FloorInv => OnlyLateLossesMissed
<1> SUFFICES ASSUME FloorInv, NEW n \in Nodes, Listening(n), NEW i \in log \ Undecodable,
                    i \notin delivered[n], ~ (i > Horizon(n)), i \in sent
             PROVE  \/ i \in Range(chan[n]) \cup {task[n].ptr}
                    \/ i \in behind[n] \cap lost[n]
  BY DEF OnlyLateLossesMissed
<1>1. i \in Nat /\ Horizon(n) \in Nat
  <2>1. i \in Ids /\ FloorColumns
    BY DEF FloorInv, LogInv, LogColumns
  <2>2. i \in Nat
    BY <2>1, LogConstants, SMTT(30) DEF Ids
  <2>3. mark[n] \in Nat /\ task[n].covered \in Nat
    BY <2>1, <2>2, Horizons
  <2> QED BY <2>2, <2>3 DEF Horizon, Greater
<1>2. i <= Horizon(n)
  BY <1>1, SMTT(30)
<1> QED BY <1>2 DEF FloorInv, ReadOrLate, PointerAccounted

\* A replica misses a committed event only if the event committed when the
\* replica had read past its id and its pointer was lost or read in vain
\* (drain, on_pointer and on_reconnect of notify_floor.rs).
THEOREM FloorMissesOnlyLateLosses == FloorSpec => []OnlyLateLossesMissed
  BY FloorMisses, FloorInitial, FloorStep, PTL DEF FloorSpec
-----------------------------------------------------------------------------
(* Types, and what a listener never does.                                  *)

LEMMA FaultKept ==
  ASSUME faults \in 0..MaxFaults, Fault \/ UNCHANGED faults
  PROVE  faults' \in 0..MaxFaults
  BY LogConstants, SMTT(30) DEF Fault

LEMMA ListenerFaults ==
  ASSUME NEW n \in Nodes, ListenerStep(n)
  PROVE  (Fault \/ UNCHANGED faults) /\ UNCHANGED feedVars
<1>1. CASE Listen(n) \/ Start(n) \/ OnPointer(n) \/ OnReconnect(n)
  BY <1>1 DEF Listen, Start, OnPointer, OnReconnect
<1>2. CASE Disconnect(n) \/ Relisten(n) \/ Probe(n)
  BY <1>2 DEF Disconnect, Relisten, Probe, floorVars, feedVars
<1>3. CASE DrainPage(n)
  BY <1>3 DEF DrainPage
<1>4. CASE Hydrate(n)
  BY <1>4 DEF Hydrate
<1> QED BY <1>1, <1>2, <1>3, <1>4 DEF ListenerStep

FloorPlumbing == up \in [Nodes -> BOOLEAN] /\ faults \in 0..MaxFaults

LEMMA PlumbingStep ==
  ASSUME FloorPlumbing, [FloorNext]_floorVars
  PROVE  FloorPlumbing'
<1>1. up' \in [Nodes -> BOOLEAN]
  <2>1. ASSUME NEW n \in Nodes, ListenerStep(n)
        PROVE  up' = up \/ \E b \in BOOLEAN : up' = [up EXCEPT ![n] = b]
    BY <2>1 DEF ListenerStep, Listen, Start, OnPointer, OnReconnect, Disconnect, Relisten,
                Probe, floorVars, DrainPage, Hydrate
  <2>2. CASE UNCHANGED floorVars \/ FloorWrite \/ \E i \in Ids : Notify(i)
    BY <2>2 DEF FloorPlumbing, floorVars, FloorWrite, Overtake, nodeVars, Notify, Point
  <2> QED BY <2>1, <2>2 DEF FloorNext, FloorPlumbing
<1>2. Fault \/ UNCHANGED faults
  BY ListenerFaults DEF FloorNext, floorVars, FloorWrite, Notify
<1> QED BY <1>1, <1>2, FaultKept DEF FloorPlumbing

\* Connections, queues, marks and tasks of the listeners keep their types.
THEOREM FloorTypes == FloorSpec => []FloorTypeOK
<1>1. FloorInit => FloorPlumbing
  BY LogConstants, SMTT(30) DEF FloorInit, FeedInit, LogInit, FloorPlumbing
<1>2. ASSUME FloorInv, FloorPlumbing PROVE FloorTypeOK
  <2>1. ASSUME NEW n \in Nodes PROVE Range(chan[n]) \subseteq Ids
    <3>1. chan[n] \in Seq(Ids)
      BY <1>2 DEF FloorInv, FloorColumns
    <3> QED BY <3>1, SMTT(30) DEF Range
  <2>2. LogTypeOK /\ sent \in SUBSET Ids
    BY <1>2 DEF FloorInv, FloorPlumbing, LogInv, LogColumns, LogTypeOK
  <2> QED BY <1>2, <2>1, <2>2 DEF FloorInv, FloorColumns, FloorTick, FloorPlumbing, FloorTypeOK
<1> QED BY <1>1, <1>2, FloorInitial, FloorStep, PlumbingStep, PTL DEF FloorSpec

\* Pointers are to announced events.
Pointed(n) ==
  /\ Range(chan[n]) \subseteq sent /\ task[n].ptr \in sent \cup {0}
  /\ delivered[n] \subseteq log

LEMMA ListenerPoints ==
  ASSUME FloorInv, NEW n \in Nodes, ListenerStep(n), Pointed(n)
  PROVE  /\ Pointed(n)'
         /\ \A m \in Nodes \ {n} : /\ chan'[m] = chan[m] /\ task'[m] = task[m]
                                   /\ delivered'[m] = delivered[m]
<1>1. /\ chan \in [Nodes -> Seq(Ids)] /\ task \in [Nodes -> FloorTick]
      /\ delivered \in [Nodes -> SUBSET Ids]
  BY DEF FloorInv, FloorColumns
<1>2. sent' = sent /\ log' = log /\ sent \subseteq log /\ 0 \notin Ids /\ log \subseteq Ids
  <2>1. 0 \notin Ids
    BY LogConstants, SMTT(30) DEF Ids
  <2> QED BY <2>1, ListenerFaults DEF feedVars, FloorInv, LogInv, LogColumns
<1>3. CASE Listen(n) \/ Disconnect(n) \/ Relisten(n) \/ Probe(n)
  <2>1. /\ chan' = chan \/ chan' = [chan EXCEPT ![n] = <<>>]
        /\ task' = task \/ task' = [task EXCEPT ![n].pc = "starting"]
        /\ delivered' = delivered
    BY <1>3 DEF Listen, Disconnect, Relisten, Probe, floorVars
  <2>2. Range(<<>>) = {}
    BY SMTT(30) DEF Range
  <2>3. task'[n].ptr = task[n].ptr /\ \A m \in Nodes \ {n} : task'[m] = task[m]
    BY <1>1, <2>1 DEF FloorTick
  <2> QED BY <1>1, <1>2, <2>1, <2>2, <2>3 DEF Pointed
<1>4. CASE Start(n) \/ OnReconnect(n)
  <2>1. PICK t \in FloorTick : t.ptr = 0 /\ task' = [task EXCEPT ![n] = t]
    <3>1. mark[n] \in 0..MaxId /\ 0 \in 0..MaxId
      BY LogConstants, SMTT(30) DEF FloorInv, FloorColumns
    <3> QED BY <1>4, <3>1 DEF Start, OnReconnect, Receiving, FloorTick
  <2>2. chan' = chan /\ (delivered' = delivered \/ delivered' = [delivered EXCEPT ![n] = log])
    BY <1>4 DEF Start, OnReconnect
  <2> QED BY <1>1, <1>2, <2>1, <2>2 DEF Pointed
<1>5. CASE OnPointer(n)
  <2>1. /\ chan[n] # <<>> /\ chan' = [chan EXCEPT ![n] = Tail(@)] /\ delivered' = delivered
        /\ task'[n].ptr = Head(chan[n]) /\ \A m \in Nodes \ {n} : task'[m] = task[m]
    BY <1>1, <1>5 DEF OnPointer
  <2>2. Head(chan[n]) \in Ids /\ Range(chan[n]) = {Head(chan[n])} \cup Range(Tail(chan[n]))
    <3>1. Head(chan[n]) \in Ids
      BY <1>1, <2>1, SMTT(30)
    <3> QED BY <1>1, <2>1, <3>1, QueueMoves
  <2> QED BY <1>1, <1>2, <2>1, <2>2 DEF Pointed
<1>6. CASE DrainPage(n)
  <2>1. PICK take \in SUBSET log :
          delivered' = delivered \/ delivered' = [delivered EXCEPT ![n] = @ \cup take]
    <3>1. Page(task[n].covered) \subseteq log
      BY DEF Page
    <3>2. CASE \E S \in SUBSET Page(task[n].covered) :
                 delivered' = [delivered EXCEPT ![n] = @ \cup (S \ Undecodable)]
      BY <3>1, <3>2
    <3> QED BY <1>6, <3>2 DEF DrainPage
  <2>2. /\ chan' = chan
        /\ \/ task' = [task EXCEPT ![n] = Receiving]
           \/ \E c : task' = [task EXCEPT ![n].pc = "get", ![n].covered = c]
           \/ \E c : task' = [task EXCEPT ![n].covered = c]
    BY <1>6 DEF DrainPage, Drained, Stopped
  <2>3. /\ task'[n].ptr \in {0, task[n].ptr} /\ \A m \in Nodes \ {n} : task'[m] = task[m]
    BY <1>1, <2>2, SMTT(30) DEF FloorTick, Receiving
  <2> QED BY <1>1, <1>2, <2>1, <2>2, <2>3 DEF Pointed
<1>7. CASE Hydrate(n)
  <2>1. task[n].ptr \in sent
    BY <1>2, <1>7 DEF Hydrate, FloorInv, PointerInHand, Pointed
  <2>2. /\ delivered' = delivered \/ delivered' = [delivered EXCEPT ![n] = @ \cup {task[n].ptr}]
        /\ chan' = chan /\ task' = [task EXCEPT ![n] = Receiving]
    BY <1>7 DEF Hydrate
  <2> QED BY <1>1, <1>2, <2>1, <2>2 DEF Pointed, Receiving
<1> QED BY <1>3, <1>4, <1>5, <1>6, <1>7 DEF ListenerStep

AllPointed == \A n \in Nodes : Pointed(n)

LEMMA PointsWrite ==
  ASSUME AllPointed, LogNext, Overtake, UNCHANGED sent
  PROVE  AllPointed'
<1>1. log \subseteq log' /\ UNCHANGED <<chan, task, delivered, sent>>
  BY LogGrows DEF Overtake, nodeVars
<1> QED BY <1>1 DEF AllPointed, Pointed

LEMMA PointsNotify ==
  ASSUME FloorInv, AllPointed, NEW i \in Ids, Announce(i), Point(i)
  PROVE  AllPointed'
<1> SUFFICES ASSUME NEW n \in Nodes PROVE Pointed(n)'
  BY DEF AllPointed
<1>1. sent' = sent \cup {i} /\ log' = log /\ task' = task /\ delivered' = delivered
  BY DEF Point, Announce, logVars
<1>2. chan[n] \in Seq(Ids) /\ (chan'[n] = chan[n] \/ chan'[n] = chan[n] \o <<i>>)
  <2>1. chan' = [m \in Nodes |-> IF up[m] THEN chan[m] \o <<i>> ELSE chan[m]]
    BY DEF Point
  <2>2. chan'[n] = IF up[n] THEN chan[n] \o <<i>> ELSE chan[n]
    BY <2>1
  <2> QED BY <2>2 DEF FloorInv, FloorColumns
<1>3. Range(chan'[n]) \subseteq Range(chan[n]) \cup {i}
  <2>1. Range(chan[n] \o <<i>>) = Range(chan[n]) \cup {i}
    BY <1>2, QueueMoves
  <2> QED BY <1>2, <2>1
<1> QED BY <1>1, <1>3 DEF AllPointed, Pointed

LEMMA PointsListener ==
  ASSUME FloorInv, AllPointed, NEW n \in Nodes, ListenerStep(n)
  PROVE  AllPointed'
<1> SUFFICES ASSUME NEW m \in Nodes PROVE Pointed(m)'
  BY DEF AllPointed
<1>1. Pointed(n) /\ Pointed(m)
  BY DEF AllPointed
<1>2. CASE m # n
  <2>1. chan'[m] = chan[m] /\ task'[m] = task[m] /\ delivered'[m] = delivered[m]
    BY <1>1, <1>2, ListenerPoints
  <2>2. sent' = sent /\ log' = log
    BY ListenerFaults DEF feedVars
  <2> QED BY <1>1, <2>1, <2>2 DEF Pointed
<1> QED BY <1>1, <1>2, ListenerPoints

LEMMA PointsStep ==
  ASSUME FloorInv, AllPointed, [FloorNext]_floorVars
  PROVE  AllPointed'
<1>1. CASE UNCHANGED floorVars
  BY <1>1 DEF floorVars, AllPointed, Pointed
<1>2. CASE FloorWrite
  BY <1>2, PointsWrite DEF FloorWrite
<1>3. ASSUME NEW i \in Ids, Notify(i) PROVE AllPointed'
  BY <1>3, PointsNotify DEF Notify
<1> QED BY <1>1, <1>2, <1>3, PointsListener DEF FloorNext

LEMMA PointsInitial == FloorInit => AllPointed
<1>1. Range(<<>>) = {}
  BY SMTT(30) DEF Range
<1>2. ASSUME FloorInit, NEW n \in Nodes
      PROVE  chan[n] = <<>> /\ task[n].ptr = 0 /\ delivered[n] = {}
  BY <1>2 DEF FloorInit, Off
<1> QED BY <1>1, <1>2 DEF AllPointed, Pointed

\* A listener publishes committed events only, whatever pointers it follows
\* and whatever it back-fills (drain and on_pointer of notify_floor.rs), which
\* is what the stream and the search projector assume of the bus.
THEOREM OnlyCommittedPublished == FloorSpec => []PublishesCommitted
<1>1. AllPointed => PublishesCommitted
  BY DEF AllPointed, Pointed, PublishesCommitted
<1> QED BY <1>1, PointsInitial, PointsStep, FloorInitial, FloorStep, PTL DEF FloorSpec

\* What a listener has read is at or above its mark, and below the pointer it
\* drains up to.
Ahead(n) ==
  /\ task[n].pc \in {"off", "starting"} => mark[n] = 0
  /\ task[n].pc \in {"drain", "get"} => mark[n] <= task[n].covered
  /\ task[n].pc = "drain" /\ task[n].ptr # 0 => task[n].covered < task[n].ptr

Forward(n) == mark[n] <= mark'[n] /\ Horizon(n) <= Horizon(n)'

LEMMA HorizonIs ==
  ASSUME FloorInv, NEW n \in Nodes, Ahead(n)
  PROVE  /\ Horizon(n) = IF task[n].pc \in {"drain", "get"} THEN task[n].covered ELSE mark[n]
         /\ mark[n] \in Nat /\ task[n].covered \in Nat /\ task[n].ptr \in Nat
<1>1. mark[n] \in Nat /\ task[n].covered \in Nat /\ task[n].ptr \in Nat
  BY Horizons DEF FloorInv
<1>2. task[n].pc \notin {"drain", "get"} => task[n].covered = 0
  BY DEF FloorInv, PointerInHand
<1> QED BY <1>1, <1>2, SMTT(30) DEF Ahead, Horizon, Greater

\* What a turn of the drain has covered when it ends.
LEMMA DrainCovers ==
  ASSUME FloorInv, NEW n \in Nodes, Ahead(n), DrainPage(n)
  PROVE  \E c \in Nat :
           /\ task[n].covered <= c /\ (task[n].ptr # 0 => c < task[n].ptr)
           /\ Drained(n, c) \/ (task' = [task EXCEPT ![n].covered = c] /\ mark' = mark)
<1> DEFINE ptr == task[n].ptr
           cursor == task[n].covered
           page == Page(cursor)
           take == {i \in page : ptr = 0 \/ i < ptr}
           top == CHOOSE i \in take \cup {cursor} : \A j \in take : j <= i
           over == take # page \/ Cardinality(page) < PageSize
<1>1. cursor \in Nat /\ ptr \in Nat /\ (ptr # 0 => cursor < ptr)
  BY HorizonIs DEF Ahead, DrainPage
<1>2. take \subseteq Nat /\ \A i \in take : cursor < i
  <2>1. log \subseteq Nat
    BY LogConstants, SMTT(30) DEF FloorInv, LogInv, LogColumns, Ids
  <2>2. page \subseteq log /\ \A i \in page : i > cursor
    BY DEF Page
  <2>3. \A i \in log : i > cursor => cursor < i
    <3> HIDE DEF cursor
    <3> QED BY <1>1, <2>1, SMTT(30)
  <2> QED BY <2>1, <2>2, <2>3
<1>3. top \in take \cup {cursor}
  <2>1. take \cup {cursor} \in SUBSET (0..MaxId) /\ take \cup {cursor} # {}
    <3>1. log \subseteq 0..MaxId
      BY LogConstants, SMTT(30) DEF FloorInv, LogInv, LogColumns, Ids
    <3>2. cursor \in 0..MaxId
      BY DEF FloorInv, FloorColumns, FloorTick
    <3> QED BY <3>1, <3>2 DEF Page
  <2>2. \E i \in take \cup {cursor} : \A j \in take \cup {cursor} : j <= i
    <3> HIDE DEF take, cursor
    <3> QED BY <2>1, LeastAndLargest
  <2>3. \E i \in take \cup {cursor} : \A j \in take : j <= i
    BY <2>2
  <2> HIDE DEF take, cursor
  <2> QED BY <2>3
<1>4. top \in Nat /\ cursor <= top /\ (ptr # 0 => top < ptr)
  <2>1. top = cursor \/ (top \in take /\ cursor < top /\ top \in Nat)
    <3> HIDE DEF take, top, cursor
    <3> QED BY <1>2, <1>3
  <2>2. top \in take => ptr = 0 \/ top < ptr
    <3> HIDE DEF top
    <3> QED OBVIOUS
  <2> HIDE DEF take, top, cursor, ptr
  <2> QED BY <1>1, <2>1, <2>2, SMTT(30)
<1>5. ptr # 0 => ptr - 1 \in Nat /\ cursor <= ptr - 1 /\ ptr - 1 < ptr
  <2> HIDE DEF cursor, ptr
  <2> QED BY <1>1, SMTT(30)
<1>6. cursor <= cursor
  <2> HIDE DEF cursor
  <2> QED BY <1>1, SMTT(30)
<1>7. \/ Drained(n, cursor)
      \/ ptr = 0 /\ Drained(n, top)
      \/ ptr # 0 /\ Drained(n, ptr - 1)
      \/ task' = [task EXCEPT ![n].covered = top] /\ mark' = mark
  BY DEF DrainPage, Stopped
<1> HIDE DEF top, take, over
<1> QED BY <1>1, <1>4, <1>5, <1>6, <1>7

\* The end of a drain moves the listener forward.
LEMMA DrainedForward ==
  ASSUME FloorInv, NEW n \in Nodes, Ahead(n), task[n].pc = "drain",
         NEW c \in Nat, task[n].covered <= c, Drained(n, c), FloorInv'
  PROVE  /\ Forward(n) /\ Ahead(n)'
         /\ \A m \in Nodes \ {n} : mark'[m] = mark[m] /\ task'[m] = task[m]
<1>1. /\ mark \in [Nodes -> 0..MaxId] /\ task \in [Nodes -> FloorTick]
      /\ Horizon(n) = task[n].covered /\ mark[n] \in Nat /\ task[n].covered \in Nat
      /\ mark[n] <= task[n].covered
  BY HorizonIs DEF FloorInv, FloorColumns, Ahead
<1>2. CASE task[n].ptr = 0
  <2>1. mark' = [mark EXCEPT ![n] = c] /\ task' = [task EXCEPT ![n] = Receiving]
    BY <1>2 DEF Drained
  <2>2. /\ mark'[n] = c /\ task'[n].pc = "recv" /\ task'[n].covered = 0
        /\ \A m \in Nodes \ {n} : mark'[m] = mark[m] /\ task'[m] = task[m]
    BY <1>1, <2>1 DEF Receiving
  <2>3. Horizon(n)' = c
    BY <2>2, SMTT(30) DEF Horizon, Greater
  <2> QED BY <1>1, <2>2, <2>3, SMTT(30) DEF Forward, Ahead
<1>3. CASE task[n].ptr # 0
  <2>1. mark' = mark /\ task' = [task EXCEPT ![n].pc = "get", ![n].covered = c]
    BY <1>3 DEF Drained
  <2>2. /\ task'[n].pc = "get" /\ task'[n].covered = c
        /\ \A m \in Nodes \ {n} : task'[m] = task[m]
    BY <1>1, <2>1, SMTT(30) DEF FloorTick
  <2>3. mark[n] <= c
    BY <1>1, SMTT(30)
  <2>4. Horizon(n)' = c
    BY <1>1, <2>1, <2>2, <2>3, SMTT(30) DEF Horizon, Greater
  <2> QED BY <1>1, <2>1, <2>2, <2>3, <2>4, SMTT(30) DEF Forward, Ahead
<1> QED BY <1>2, <1>3

LEMMA ListenerForward ==
  ASSUME FloorInv, NEW n \in Nodes, Ahead(n), ListenerStep(n)
  PROVE  /\ Forward(n) /\ Ahead(n)'
         /\ \A m \in Nodes \ {n} : mark'[m] = mark[m] /\ task'[m] = task[m]
<1>1. /\ mark \in [Nodes -> 0..MaxId] /\ task \in [Nodes -> FloorTick]
      /\ mark[n] \in Nat /\ task[n].covered \in Nat /\ task[n].ptr \in Nat
      /\ Horizon(n) = IF task[n].pc \in {"drain", "get"} THEN task[n].covered ELSE mark[n]
  BY HorizonIs DEF FloorInv, FloorColumns
<1>2. Horizon(n) <= Horizon(n) /\ mark[n] <= mark[n]
  BY <1>1, SMTT(30)
<1>3. CASE Listen(n) \/ Disconnect(n) \/ Relisten(n) \/ Probe(n)
  <2>1. /\ mark' = mark
        /\ task' = task \/ (task[n].pc = "off" /\ task' = [task EXCEPT ![n].pc = "starting"])
    BY <1>3 DEF Listen, Disconnect, Relisten, Probe, floorVars
  <2>2. /\ task'[n].covered = task[n].covered /\ task'[n].ptr = task[n].ptr
        /\ task'[n].pc = task[n].pc \/ (task[n].pc = "off" /\ task'[n].pc = "starting")
        /\ \A m \in Nodes \ {n} : task'[m] = task[m]
    BY <1>1, <2>1, SMTT(30) DEF FloorTick
  <2>3. Horizon(n)' = Horizon(n)
    BY <2>1, <2>2 DEF Horizon
  <2> QED BY <1>2, <2>1, <2>2, <2>3 DEF Forward, Ahead
<1>4. CASE Start(n)
  <2>1. PICK head \in log \cup {0} : mark' = [mark EXCEPT ![n] = head]
    BY <1>4 DEF Start
  <2>2. /\ mark'[n] = head /\ task'[n].pc = "recv" /\ task'[n].covered = 0
        /\ \A m \in Nodes \ {n} : mark'[m] = mark[m] /\ task'[m] = task[m]
    BY <1>1, <1>4, <2>1 DEF Start, Receiving
  <2>3. head \in Nat /\ mark[n] = 0 /\ Horizon(n) = 0
    <3>1. log \subseteq Nat
      BY LogConstants, SMTT(30) DEF FloorInv, LogInv, LogColumns, Ids
    <3> QED BY <1>1, <1>4, <3>1 DEF Start, Ahead
  <2>4. Horizon(n)' = head /\ 0 <= head
    BY <2>2, <2>3, SMTT(30) DEF Horizon, Greater
  <2> QED BY <2>2, <2>3, <2>4 DEF Forward, Ahead
<1>5. CASE OnPointer(n) \/ OnReconnect(n)
  <2>1. PICK t \in FloorTick :
          /\ task' = [task EXCEPT ![n] = t] /\ mark' = mark /\ t.covered = mark[n]
          /\ t.pc \in {"drain", "get"} /\ task[n].pc = "recv"
          /\ t.pc = "drain" /\ t.ptr # 0 => t.ptr > mark[n] + 1
    <3>1. CASE OnReconnect(n)
      <4>1. [pc |-> "drain", ptr |-> 0, covered |-> mark[n]] \in FloorTick
        BY <1>1, LogConstants, SMTT(30) DEF FloorTick
      <4> QED BY <3>1, <4>1 DEF OnReconnect
    <3>2. CASE OnPointer(n)
      <4> DEFINE i == Head(chan[n])
                 t == [pc |-> IF i > mark[n] + 1 THEN "drain" ELSE "get",
                       ptr |-> i, covered |-> mark[n]]
      <4>1. i \in Ids
        BY <3>2, SMTT(30) DEF OnPointer, FloorInv, FloorColumns
      <4>2. i \in 0..MaxId
        BY <4>1, LogConstants, SMTT(30) DEF Ids
      <4>3. /\ t \in FloorTick /\ t.covered = mark[n] /\ t.pc \in {"drain", "get"}
            /\ t.pc = "drain" => t.ptr > mark[n] + 1
        <5> HIDE DEF i
        <5> QED BY <1>1, <4>2 DEF FloorTick
      <4>4. task' = [task EXCEPT ![n] = t] /\ mark' = mark /\ task[n].pc = "recv"
        BY <3>2 DEF OnPointer
      <4> HIDE DEF t
      <4> QED BY <4>3, <4>4
    <3> QED BY <1>5, <3>1, <3>2
  <2>2. task'[n] = t /\ \A m \in Nodes \ {n} : task'[m] = task[m]
    BY <1>1, <2>1
  <2>3. Horizon(n)' = mark[n] /\ Horizon(n) = mark[n]
    BY <1>1, <2>1, <2>2, SMTT(30) DEF Horizon, Greater
  <2>4. t.pc = "drain" /\ t.ptr # 0 => t.covered < t.ptr
    BY <1>1, <2>1, SMTT(30) DEF FloorTick
  <2> QED BY <1>2, <2>1, <2>2, <2>3, <2>4 DEF Forward, Ahead
<1>6. CASE DrainPage(n)
  <2>1. PICK c \in Nat :
          /\ task[n].covered <= c /\ (task[n].ptr # 0 => c < task[n].ptr)
          /\ Drained(n, c) \/ (task' = [task EXCEPT ![n].covered = c] /\ mark' = mark)
    BY <1>6, DrainCovers
  <2>2. task[n].pc = "drain" /\ FloorInv' /\ mark[n] <= task[n].covered
    BY <1>6, DrainPageInv DEF DrainPage, Ahead
  <2>3. CASE Drained(n, c)
    BY <2>1, <2>2, <2>3, DrainedForward
  <2>4. CASE task' = [task EXCEPT ![n].covered = c] /\ mark' = mark
    <3>1. /\ task'[n].pc = "drain" /\ task'[n].covered = c /\ task'[n].ptr = task[n].ptr
          /\ \A m \in Nodes \ {n} : task'[m] = task[m]
      BY <1>1, <2>2, <2>4, SMTT(30) DEF FloorTick
    <3>2. mark[n] <= c
      BY <1>1, <2>1, <2>2, SMTT(30)
    <3>3. Horizon(n)' = c
      BY <1>1, <2>4, <3>1, <3>2, SMTT(30) DEF Horizon, Greater
    <3>4. Horizon(n) = task[n].covered
      BY <1>1, <2>2
    <3> QED BY <1>2, <2>1, <2>4, <3>1, <3>2, <3>3, <3>4 DEF Forward, Ahead
  <2> QED BY <2>1, <2>3, <2>4
<1>7. CASE Hydrate(n)
  <2>1. PICK ok \in BOOLEAN :
          /\ mark' = [mark EXCEPT ![n] = Greater(@, Reached(n, ok))]
          /\ task' = [task EXCEPT ![n] = Receiving] /\ task[n].pc = "get"
    BY <1>7 DEF Hydrate
  <2>2. Reached(n, ok) \in Nat /\ task[n].covered <= Reached(n, ok)
    BY <1>1, SMTT(30) DEF Reached, Greater
  <2>3. /\ mark'[n] = Greater(mark[n], Reached(n, ok))
        /\ task'[n].pc = "recv" /\ task'[n].covered = 0
        /\ \A m \in Nodes \ {n} : mark'[m] = mark[m] /\ task'[m] = task[m]
    BY <1>1, <2>1 DEF Receiving
  <2> DEFINE top == Reached(n, ok)
  <2> HIDE DEF top
  <2>4. mark'[n] \in Nat /\ mark[n] <= mark'[n] /\ task[n].covered <= mark'[n]
    <3>1. top \in Nat /\ task[n].covered <= top /\ mark'[n] = Greater(mark[n], top)
      BY <2>2, <2>3 DEF top
    <3> QED BY <1>1, <3>1, SMTT(30) DEF Greater
  <2>5. Horizon(n)' = mark'[n] /\ Horizon(n) = task[n].covered
    BY <1>1, <2>1, <2>3, <2>4, SMTT(30) DEF Horizon, Greater
  <2> QED BY <2>3, <2>4, <2>5 DEF Forward, Ahead
<1> QED BY <1>3, <1>4, <1>5, <1>6, <1>7 DEF ListenerStep

LEMMA ForwardStep ==
  ASSUME FloorInv, \A n \in Nodes : Ahead(n), [FloorNext]_floorVars
  PROVE  \A n \in Nodes : Forward(n) /\ Ahead(n)'
<1> SUFFICES ASSUME NEW n \in Nodes PROVE Forward(n) /\ Ahead(n)'
  OBVIOUS
<1>1. Horizon(n) <= Horizon(n) /\ mark[n] <= mark[n]
  <2>1. Horizon(n) \in Nat /\ mark[n] \in Nat
    BY HorizonIs
  <2> QED BY <2>1, SMTT(30)
<1>2. CASE mark'[n] = mark[n] /\ task'[n] = task[n]
  BY <1>1, <1>2 DEF Forward, Ahead, Horizon
<1>3. CASE UNCHANGED floorVars \/ FloorWrite \/ \E i \in Ids : Notify(i)
  BY <1>2, <1>3 DEF floorVars, FloorWrite, Overtake, nodeVars, Notify, Point
<1>4. ASSUME NEW m \in Nodes, ListenerStep(m) PROVE Forward(n) /\ Ahead(n)'
  BY <1>2, <1>4, ListenerForward
<1> QED BY <1>3, <1>4 DEF FloorNext

\* A listener's last_seen, and what it has read past, never go back (drain,
\* on_pointer and on_reconnect of notify_floor.rs).
THEOREM ListenersOnlyAdvance == FloorSpec => NeverReadsBack
<1>1. ASSUME FloorInit PROVE \A n \in Nodes : Ahead(n)
  <2>1. ASSUME NEW n \in Nodes PROVE mark[n] = 0 /\ task[n].pc = "off"
    BY <1>1 DEF FloorInit, Off
  <2> QED BY <2>1 DEF Ahead
<1>2. FloorInv /\ (\A n \in Nodes : Ahead(n)) /\ [FloorNext]_floorVars
        => (\A n \in Nodes : Ahead(n))'
  BY ForwardStep
<1>3. FloorInv /\ (\A n \in Nodes : Ahead(n)) /\ [FloorNext]_floorVars
        => [\A n \in Nodes : mark[n] <= mark'[n] /\ Horizon(n) <= Horizon(n)']_floorVars
  BY ForwardStep DEF Forward
<1> QED BY <1>1, <1>2, <1>3, FloorInitial, FloorStep, PTL DEF FloorSpec, NeverReadsBack
-----------------------------------------------------------------------------
(* The relays, the listeners and a consumer's connection together.         *)

PipelineInv == RelayInv /\ FloorInv /\ AllPointed /\ StreamInv

\* What a relay's step is to the relays, and to the feed.
LEMMA RelayMovesNext ==
  ASSUME RelayMoves
  PROVE  [Next]_vars
<1>1. OutboxStep => Next
  BY DEF OutboxStep, Next, Tick
<1>2. ASSUME NEW r \in Relays, NEW i \in Ids, RelayNotifies(r, i) PROVE Next
  BY <1>2 DEF RelayNotifies, Next, Tick
<1> QED BY <1>1, <1>2 DEF RelayMoves, Next

LEMMA OutboxUnseen ==
  ASSUME OutboxStep
  PROVE  UNCHANGED feedVars
<1>1. ASSUME NEW r \in Relays,
             \/ ClaimPending(r) \/ EmptyTick(r) \/ RecordAttempt(r) \/ Quarantine(r)
             \/ MarkPublished(r) \/ Abort(r)
      PROVE  UNCHANGED feedVars
  BY <1>1 DEF ClaimPending, EmptyTick, RecordAttempt, Quarantine, MarkPublished, Abort,
              vars, logVars, feedVars
<1>2. ASSUME NEW i \in Ids, Lapse(i) \/ ReplayQuarantined(i)
      PROVE  UNCHANGED feedVars
  BY <1>2 DEF Lapse, ReplayQuarantined, logVars, feedVars
<1> QED BY <1>1, <1>2 DEF OutboxStep

LEMMA ListenersSame ==
  ASSUME FloorInv, AllPointed, UNCHANGED feedVars, UNCHANGED floorOnly
  PROVE  FloorInv' /\ AllPointed'
<1>1. FloorInv'
  BY FloorSame DEF floorOnly
<1>2. AllPointed'
  BY DEF floorOnly, feedVars, AllPointed, Pointed
<1> QED BY <1>1, <1>2

\* What the relays do is what the floor takes its environment to do.
LEMMA RelayMovesFloor ==
  ASSUME RelayInv, FloorInv, AllPointed, RelayMoves
  PROVE  FloorInv' /\ AllPointed'
<1>1. CASE Write /\ Overtake
  BY <1>1, FloorWriteInv, PointsWrite DEF Write
<1>2. ASSUME UNCHANGED feedVars, UNCHANGED floorOnly PROVE FloorInv' /\ AllPointed'
  BY <1>2, ListenersSame
<1>3. ASSUME NEW r \in Relays, NEW i \in Ids, RelayNotifies(r, i)
      PROVE  FloorInv' /\ AllPointed'
  <2>1. i \in log /\ UNCHANGED logVars
    BY <1>3, RowLeaves DEF RelayNotifies
  <2>2. CASE sent' = sent \cup {i} /\ Point(i)
    BY <2>1, <2>2, NotifyInv, PointsNotify DEF Announce
  <2>3. CASE sent' = sent /\ UNCHANGED floorOnly
    BY <1>2, <2>1, <2>3 DEF feedVars, logVars
  <2> QED BY <1>3, <2>2, <2>3 DEF RelayNotifies, Publish
<1>4. CASE OutboxStep /\ UNCHANGED floorOnly
  BY <1>2, <1>4, OutboxUnseen
<1> QED BY <1>1, <1>3, <1>4 DEF RelayMoves

LEMMA RelaySame ==
  ASSUME RelayInv, UNCHANGED feedVars, UNCHANGED relayOnly, Fault \/ UNCHANGED faults
  PROVE  RelayInv'
<1>1. faults' \in 0..MaxFaults
  BY FaultKept DEF RelayInv, RelayColumns
<1> QED BY <1>1 DEF feedVars, relayOnly, RelayInv, RelayColumns, HandTaken, BatchCommitted,
                    DoneWasSent, MarkedWasSent

LEMMA ConnectionFaults ==
  ASSUME ConnectionStep \/ BusBrings
  PROVE  (Fault \/ UNCHANGED faults) /\ UNCHANGED feedVars
<1>1. CASE BusBrings
  BY <1>1 DEF BusBrings, ForwardEvent
<1>2. CASE ConnectionStep
  BY <1>2 DEF ConnectionStep, Subscribe, ReadRows, ReadFails, SendRow, Advance, Lagged,
              WriteFrame, HangUp
<1> QED BY <1>1, <1>2

\* Every step of the three is a step of the feed, or none of its business.
LEMMA PipelineFeeds ==
  ASSUME RelayInv, [PipelineNext]_pipelineVars
  PROVE  [FeedNext]_feedVars
<1>1. CASE RelayMoves
  BY <1>1, RelayMovesNext, RelayFeeds
<1>2. CASE UNCHANGED pipelineVars
  BY <1>2 DEF pipelineVars, feedVars
<1> QED BY <1>1, <1>2, ListenerFaults, ConnectionFaults DEF PipelineNext

LEMMA PipelineStep ==
  ASSUME PipelineInv, [PipelineNext]_pipelineVars
  PROVE  PipelineInv'
<1>1. RelayInv /\ FloorInv /\ AllPointed /\ StreamInv /\ LogInv
  BY DEF PipelineInv, FloorInv
<1>2. CASE RelayMoves /\ UNCHANGED streamOnly
  <2>1. RelayInv'
    BY <1>1, <1>2, RelayMovesNext, RelayStep
  <2>2. FloorInv' /\ AllPointed'
    BY <1>1, <1>2, RelayMovesFloor
  <2>3. StreamInv'
    <3>1. UNCHANGED <<durable, conn, queue, frames, handed, wasLive>>
      BY <1>2 DEF streamOnly
    <3>2. [FeedNext]_feedVars
      BY <1>1, <1>2, RelayMovesNext, RelayFeeds
    <3> QED BY <1>1, <3>1, <3>2, StreamFeedInv, StreamSame
  <2> QED BY <2>1, <2>2, <2>3 DEF PipelineInv
<1>3. ASSUME NEW n \in Nodes, ListenerStep(n), UNCHANGED <<relayOnly, streamOnly>>
      PROVE  PipelineInv'
  <2>1. (Fault \/ UNCHANGED faults) /\ UNCHANGED feedVars
    BY <1>3, ListenerFaults
  <2>2. RelayInv'
    BY <1>1, <1>3, <2>1, RelaySame
  <2>3. FloorInv' /\ AllPointed'
    BY <1>1, <1>3, ListenerInv, PointsListener
  <2>4. StreamInv'
    BY <1>1, <1>3, <2>1, StreamSame DEF streamOnly
  <2> QED BY <2>2, <2>3, <2>4 DEF PipelineInv
<1>4. CASE (ConnectionStep \/ BusBrings) /\ UNCHANGED <<relayOnly, floorOnly>>
  <2>1. (Fault \/ UNCHANGED faults) /\ UNCHANGED feedVars
    BY <1>4, ConnectionFaults
  <2>2. RelayInv' /\ FloorInv' /\ AllPointed'
    BY <1>1, <1>4, <2>1, RelaySame, ListenersSame
  <2>3. ASSUME BusBrings PROVE StreamInv'
    <3>1. PICK n \in Nodes : \E i \in delivered[n] : ForwardEvent(i)
      BY <2>3 DEF BusBrings
    <3>2. delivered[n] \subseteq Ids
      BY <1>1 DEF FloorInv, FloorColumns
    <3> QED BY <1>1, <3>1, <3>2, ForwardEventInv
  <2>4. StreamInv'
    BY <1>1, <1>4, <2>3, ConnectionInv
  <2> QED BY <2>2, <2>4 DEF PipelineInv
<1>5. CASE UNCHANGED pipelineVars
  <2>1. UNCHANGED feedVars /\ UNCHANGED relayOnly /\ UNCHANGED floorOnly /\ UNCHANGED streamOnly
        /\ UNCHANGED faults
    BY <1>5 DEF pipelineVars, feedVars
  <2> QED BY <1>1, <2>1, RelaySame, ListenersSame, StreamSame DEF PipelineInv, streamOnly
<1> QED BY <1>2, <1>3, <1>4, <1>5 DEF PipelineNext

LEMMA PipelineAlways == PipelineSpec => []PipelineInv
<1>1. PipelineInit => PipelineInv
  BY RelayInitial, FloorInitial, PointsInitial, StreamInitial DEF PipelineInit, PipelineInv
<1> QED BY <1>1, PipelineStep, PTL DEF PipelineSpec

\* Relays, listeners and connections together still announce committed events
\* only, one at a time, and leave the log alone: the feed that the floor and
\* the streams are specified over is the one they get from run_once.
THEOREM PipelineImplementsFeed == PipelineSpec => FeedSpec
<1>1. PipelineInit => FeedInit
  BY DEF PipelineInit, Init
<1>2. PipelineInv /\ [PipelineNext]_pipelineVars => [FeedNext]_feedVars
  BY PipelineFeeds DEF PipelineInv
<1> QED BY <1>1, <1>2, PipelineAlways, PTL DEF PipelineSpec, FeedSpec

\* In the composed system the mark on an outbox row is kept to every replica:
\* mark_published_batch marks no event that a listener could miss but for the
\* floor's own gap.
THEOREM MarksAreKept == PipelineSpec => []MarkedReachesReplicas
<1>1. ASSUME PipelineInv PROVE MarkedReachesReplicas
  <2>1. published \subseteq sent /\ sent \subseteq log /\ OnlyLateLossesMissed
    BY <1>1, FloorMisses DEF PipelineInv, RelayInv, MarkedWasSent, FloorInv
  <2> QED BY <2>1 DEF MarkedReachesReplicas, OnlyLateLossesMissed
<1> QED BY <1>1, PipelineAlways, PTL

\* What each part promises over its own environment it keeps in the composed
\* system: linear chains and honest marks (append_with_keys_in_tx, run_once),
\* listeners that publish committed events and miss only late losses
\* (notify_floor.rs), and connections in order whose cursors hide nothing
\* (event_stream.rs).
THEOREM PartsHoldTogether ==
  PipelineSpec => [](/\ ChainLinear /\ MarkedWasSent
                     /\ PublishesCommitted /\ OnlyLateLossesMissed
                     /\ FramesInOrder /\ CursorHidesNothing)
<1>1. PipelineInv => ChainLinear /\ MarkedWasSent
  BY DEF PipelineInv, RelayInv, FloorInv, LogInv
<1>2. PipelineInv => PublishesCommitted /\ OnlyLateLossesMissed
  BY FloorMisses DEF PipelineInv, AllPointed, Pointed, PublishesCommitted
<1>3. PipelineInv => FramesInOrder /\ CursorHidesNothing
  BY DEF PipelineInv, StreamInv
<1> QED BY <1>1, <1>2, <1>3, PipelineAlways, PTL

=============================================================================
