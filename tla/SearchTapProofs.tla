--------------------------- MODULE SearchTapProofs --------------------------
(***************************************************************************)
(* The search projector over any EventFeed, for any number of workspaces,  *)
(* events, pages and faults.  TapWalks needs no more than the feed; that   *)
(* what was passed over is walked again is proved of one projector.        *)
(***************************************************************************)
EXTENDS EventFeedProofs, SearchTap

USE Zenon, SMTT(30)

\* Every row belongs to a workspace.
Homed ==
  /\ \A i \in log : home[i] \in Workspaces
  /\ \A x \in Txns : \A i \in open[x] : home[i] \in Workspaces

\* A page in hand holds committed rows above the watermark.
PageAhead(n) ==
  /\ tap[n].rows \subseteq log
  /\ \A i \in tap[n].rows : i > tap[n].at
  /\ tap[n].rows # {} => tap[n].pc = "fill"

TapWalks ==
  /\ LogInv /\ sent \subseteq log /\ Homed /\ faults \in 0..MaxFaults
  /\ TapTypeOK
  /\ \A n \in Taps : PageAhead(n)

\* One replica runs the projector.
OneTap == \A m, n \in Taps : m = n

\* A walk without a fault still has everything in front of it that was passed
\* over, and has reached the head only if there is nothing.
MissedAhead(n) ==
  tap[n].pc # "off" /\ tap[n].faulted = {} =>
    \A j \in passedOver \ indexed :
      /\ tap[n].pc = "fill" /\ tap[n].at < j
      /\ j \in tap[n].rows \/ \A k \in tap[n].rows : k < j

\* The watermark is a row, at or above the stored cursor unless that was not read.
PastCursor(n) ==
  /\ tap[n].at \in log \cup {0}
  /\ tap[n].pc = "live" \/ (tap[n].pc = "fill" /\ ~ tap[n].blind) => tapCursor <= tap[n].at

TapInv ==
  /\ TapWalks
  /\ passedOver \subseteq log /\ tapCursor \in log \cup {0}
  /\ \A n \in Taps : MissedAhead(n) /\ PastCursor(n)
  /\ PassedOverIsReplayed

LEMMA WalkType ==
  ASSUME NEW pc \in {"off", "fill", "live"}, NEW at \in 0..MaxId, NEW from \in 0..MaxId,
         NEW R \in SUBSET Ids, NEW last \in [Workspaces -> 0..MaxId],
         NEW F \in SUBSET Workspaces, NEW b \in BOOLEAN
  PROVE  LET t == Walk(pc, at, from, R, last, F, b) IN
         /\ t \in Walks
         /\ t.pc = pc /\ t.at = at /\ t.from = from /\ t.rows = R /\ t.faulted = F /\ t.blind = b
BY DEF Walk, Walks

LEMMA WalkFields ==
  ASSUME NEW t \in Walks
  PROVE  /\ t.pc \in {"off", "fill", "live"} /\ t.at \in 0..MaxId /\ t.from \in 0..MaxId
         /\ t.rows \in SUBSET Ids /\ t.last \in [Workspaces -> 0..MaxId]
         /\ t.faulted \in SUBSET Workspaces /\ t.blind \in BOOLEAN
BY DEF Walks

LEMMA WalkTurns ==
  ASSUME NEW t \in Walks, NEW pc \in {"off", "fill", "live"}
  PROVE  LET u == [t EXCEPT !.pc = pc] IN
         /\ u \in Walks /\ u.pc = pc /\ u.at = t.at /\ u.rows = t.rows
         /\ u.faulted = t.faulted /\ u.blind = t.blind
BY DEF Walks

LEMMA WalkAdvances ==
  ASSUME NEW t \in Walks, NEW at \in 0..MaxId
  PROVE  LET u == [t EXCEPT !.at = at] IN
         /\ u \in Walks /\ u.pc = t.pc /\ u.at = at /\ u.rows = t.rows
         /\ u.faulted = t.faulted /\ u.blind = t.blind
BY DEF Walks

LEMMA WalkReads ==
  ASSUME NEW t \in Walks, NEW R \in SUBSET Ids
  PROVE  LET u == [t EXCEPT !.rows = R] IN
         /\ u \in Walks /\ u.pc = t.pc /\ u.at = t.at /\ u.rows = R
         /\ u.faulted = t.faulted /\ u.blind = t.blind
BY DEF Walks

LEMMA NoRows ==
  /\ {} \in SUBSET Ids /\ {} \in SUBSET Workspaces /\ 0 \in 0..MaxId
  /\ [w \in Workspaces |-> 0] \in [Workspaces -> 0..MaxId]
BY LogConstants, SMTT(30)

LEMMA NoTapType ==
  NoTap \in Walks /\ NoTap.pc = "off" /\ NoTap.at = 0 /\ NoTap.rows = {}
BY NoRows DEF NoTap, Walk, Walks

\* One projector moves, the others stay.
LEMMA TapMoved ==
  ASSUME tap \in [Taps -> Walks], NEW n \in Taps, NEW t \in Walks,
         tap' = [tap EXCEPT ![n] = t]
  PROVE  /\ tap' \in [Taps -> Walks] /\ tap'[n] = t
         /\ \A m \in Taps \ {n} : tap'[m] = tap[m]
OBVIOUS

LEMMA FeedHomed ==
  ASSUME LogInv, Homed, FeedNext
  PROVE  Homed'
<1>1. ASSUME NEW x \in Txns, NEW w \in Workspaces, AppendEvent(x, w)
      PROVE  Homed'
  <2>1. Appended(x, w)
    BY <1>1, AppendKeeps
  <2>2. /\ \A i \in log : i \in Ids /\ i <= nextId
        /\ \A y \in Txns : \A i \in open[y] : i \in Ids /\ i <= nextId
    BY DEF LogInv, LogColumns, IdsTaken
  <2>3. \A i \in log' : home'[i] \in Workspaces
    BY <2>1, <2>2 DEF Homed, Appended
  <2>4. ASSUME NEW y \in Txns, NEW i \in open'[y]
        PROVE  home'[i] \in Workspaces
    BY <2>1, <2>2, <2>4 DEF Homed, Appended
  <2> QED BY <2>3, <2>4 DEF Homed
<1>2. ASSUME NEW x \in Txns, Commit(x) \/ Rollback(x)
      PROVE  Homed'
  <2>1. home' = home /\ log' \subseteq log \cup open[x]
        /\ \A y \in Txns : open'[y] \subseteq open[y]
    BY <1>2 DEF LogInv, LogColumns, Commit, Rollback
  <2> QED BY <2>1 DEF Homed
<1>3. ASSUME NEW i \in Ids, Announce(i)
      PROVE  Homed'
  BY <1>3 DEF Announce, logVars, Homed
<1> QED BY <1>1, <1>2, <1>3 DEF FeedNext, LogNext

\* Ids are natural numbers from 1.
LEMMA IdFacts == Ids \subseteq Nat /\ Ids \subseteq 0..MaxId /\ 0 \notin Ids /\ 0 \in 0..MaxId
BY LogConstants, SMTT(30) DEF Ids

\* A page leaves out no row below one it holds.
LEMMA WalkPageDown ==
  ASSUME LogInv, NEW after \in Nat, NEW i \in GlobalPage(after), NEW j \in log, after < j, j < i
  PROVE  j \in GlobalPage(after)
<1> DEFINE rows == {k \in log : k > after}
           below(n) == {k \in rows : k < n}
<1>1. IsFiniteSet(Ids) /\ Ids \subseteq Nat
  BY LogConstants, FS_Interval, SMTT(30) DEF Ids
<1>2. i \in rows /\ j \in rows /\ rows \subseteq Ids
  BY <1>1 DEF GlobalPage, LogInv, LogColumns
<1>3. below(j) \subseteq below(i) /\ below(i) \subseteq Ids
  <2>1. i \in Nat /\ j \in Nat /\ \A k \in rows : k \in Nat
    BY <1>1, <1>2
  <2>2. \A k \in rows : k < j => k < i
    BY <2>1, SMTT(30)
  <2> QED BY <1>2, <2>2
<1>4. IsFiniteSet(below(i))
  BY <1>1, <1>3, FS_Subset
<1>5. Cardinality(below(j)) <= Cardinality(below(i)) /\ IsFiniteSet(below(j))
  BY <1>3, <1>4, FS_Subset
<1>6. Cardinality(below(i)) \in Nat /\ Cardinality(below(j)) \in Nat
  BY <1>4, <1>5, FS_CardinalityType
<1>7. Cardinality(below(i)) < TapBatch
  BY DEF GlobalPage
<1>8. Cardinality(below(j)) < TapBatch
  BY <1>5, <1>6, <1>7, TapConstants, SMTT(30)
<1> QED BY <1>2, <1>8 DEF GlobalPage

-----------------------------------------------------------------------------
(* Steps, as far as the pages in hand are concerned.                       *)

LEMMA TapInitial == TapInit => TapInv
<1> SUFFICES ASSUME TapInit PROVE TapInv
  OBVIOUS
<1>1. LogInv /\ log = {} /\ sent = {} /\ faults = 0 /\ open = [x \in Txns |-> {}]
  BY LogInitial DEF TapInit, FeedInit, LogInit
<1>2. \A n \in Taps : tap[n] = NoTap
  BY DEF TapInit
<1>3. TapTypeOK
  BY NoTapType, IdFacts DEF TapInit, TapTypeOK
<1>4. faults \in 0..MaxFaults /\ Homed
  BY <1>1, LogConstants, SMTT(30) DEF Homed
<1>5. \A n \in Taps : PageAhead(n) /\ MissedAhead(n) /\ PastCursor(n)
  BY <1>2, NoTapType DEF PageAhead, MissedAhead, PastCursor
<1>6. passedOver = {} /\ tapCursor = 0
  BY DEF TapInit
<1> QED BY <1>1, <1>3, <1>4, <1>5, <1>6 DEF TapInv, TapWalks, PassedOverIsReplayed

\* A step of projector n, whose new state is t.
LEMMA WalkStep ==
  ASSUME TapWalks, NEW n \in Taps, NEW t \in Walks, tap' = [tap EXCEPT ![n] = t],
         UNCHANGED feedVars, faults' \in {faults, faults + 1}, faults' \in 0..MaxFaults,
         tapCursor' \in 0..MaxId, rebuild' \in [Taps -> BOOLEAN],
         indexed' \in SUBSET Ids, passedOver' \in SUBSET Ids,
         t.rows \subseteq log, \A i \in t.rows : i > t.at, t.rows # {} => t.pc = "fill"
  PROVE  /\ TapWalks' /\ log' = log
         /\ tap'[n] = t /\ \A m \in Taps \ {n} : tap'[m] = tap[m]
<1>1. LogInv' /\ (sent \subseteq log)' /\ log' = log /\ sent' = sent
  BY FeedSame DEF TapWalks
<1>2. /\ tap' \in [Taps -> Walks] /\ tap'[n] = t
      /\ \A m \in Taps \ {n} : tap'[m] = tap[m]
  BY TapMoved DEF TapWalks, TapTypeOK
<1>3. Homed'
  BY DEF TapWalks, Homed, feedVars
<1>4. TapTypeOK'
  BY <1>2 DEF TapTypeOK
<1>5. ASSUME NEW m \in Taps PROVE PageAhead(m)'
  <2>1. CASE m = n
    BY <1>1, <1>2, <2>1 DEF PageAhead
  <2>2. CASE m # n
    BY <1>1, <1>2, <2>2 DEF PageAhead, TapWalks
  <2> QED BY <2>1, <2>2
<1> QED BY <1>1, <1>2, <1>3, <1>4, <1>5 DEF TapWalks

LEMMA TapFaulted ==
  ASSUME TapWalks, Fault
  PROVE  faults' = faults + 1 /\ faults' \in 0..MaxFaults
BY LogConstants, SMTT(30) DEF TapWalks, Fault

\* What each step does to its projector.
LEMMA AttachWalk ==
  ASSUME TapWalks, NEW n \in Taps, Attach(n)
  PROVE  /\ TapWalks' /\ log' = log /\ \A m \in Taps \ {n} : tap'[m] = tap[m]
         /\ tap[n].pc = "off" /\ UNCHANGED <<tapCursor, indexed, passedOver>>
         /\ tap'[n].pc = "fill" /\ tap'[n].rows = {} /\ tap'[n].faulted = {}
         /\ tap'[n].at = tapCursor \/ (tap'[n].at = 0 /\ tap'[n].blind)
<1>1. /\ tap[n].pc = "off" /\ UNCHANGED <<feedVars, tapCursor, rebuild, indexed, passedOver>>
      /\ \/ tap' = [tap EXCEPT ![n] = FreshWalk(tapCursor, {}, FALSE)] /\ UNCHANGED faults
         \/ tap' = [tap EXCEPT ![n] = FreshWalk(0, {}, TRUE)] /\ Fault
  BY DEF Attach
<1>2. /\ tapCursor \in 0..MaxId /\ rebuild \in [Taps -> BOOLEAN] /\ indexed \in SUBSET Ids
      /\ passedOver \in SUBSET Ids /\ faults \in 0..MaxFaults /\ {} \in SUBSET Workspaces
  BY DEF TapWalks, TapTypeOK
<1>3. CASE tap' = [tap EXCEPT ![n] = FreshWalk(tapCursor, {}, FALSE)] /\ UNCHANGED faults
  <2> DEFINE t == FreshWalk(tapCursor, {}, FALSE)
  <2>1. t \in Walks /\ t.pc = "fill" /\ t.at = tapCursor /\ t.rows = {} /\ t.faulted = {}
    BY <1>2, NoRows DEF FreshWalk, Walk, Walks
  <2> HIDE DEF t
  <2>2. TapWalks' /\ log' = log /\ tap'[n] = t /\ \A m \in Taps \ {n} : tap'[m] = tap[m]
    BY <1>1, <1>2, <1>3, <2>1, WalkStep DEF t
  <2> QED BY <1>1, <2>1, <2>2
<1>4. CASE tap' = [tap EXCEPT ![n] = FreshWalk(0, {}, TRUE)] /\ Fault
  <2> DEFINE t == FreshWalk(0, {}, TRUE)
  <2>1. t \in Walks /\ t.pc = "fill" /\ t.at = 0 /\ t.rows = {} /\ t.faulted = {} /\ t.blind
    BY <1>2, NoRows DEF FreshWalk, Walk, Walks
  <2>2. faults' = faults + 1 /\ faults' \in 0..MaxFaults
    BY <1>4, TapFaulted
  <2> HIDE DEF t
  <2>3. TapWalks' /\ log' = log /\ tap'[n] = t /\ \A m \in Taps \ {n} : tap'[m] = tap[m]
    BY <1>1, <1>2, <1>4, <2>1, <2>2, WalkStep DEF t
  <2> QED BY <1>1, <2>1, <2>3
<1> QED BY <1>1, <1>3, <1>4

LEMMA PageWalk ==
  ASSUME TapWalks, NEW n \in Taps, FillPage(n)
  PROVE  /\ TapWalks' /\ log' = log /\ \A m \in Taps \ {n} : tap'[m] = tap[m]
         /\ UNCHANGED <<tapCursor, indexed, passedOver>>
         /\ tap[n].pc = "fill" /\ tap'[n].pc = "fill" /\ tap'[n].at = tap[n].at
         /\ tap'[n].rows = GlobalPage(tap[n].at) /\ tap'[n].faulted = tap[n].faulted
         /\ tap'[n].blind = tap[n].blind
<1> DEFINE R == GlobalPage(tap[n].at)
           t == [tap[n] EXCEPT !.rows = R]
<1>1. /\ tap[n].pc = "fill" /\ UNCHANGED <<feedVars, faults, tapCursor, rebuild, indexed, passedOver>>
      /\ tap' = [tap EXCEPT ![n] = t]
  BY DEF FillPage
<1>2. /\ tapCursor \in 0..MaxId /\ rebuild \in [Taps -> BOOLEAN] /\ indexed \in SUBSET Ids
      /\ passedOver \in SUBSET Ids /\ faults \in 0..MaxFaults /\ tap[n] \in Walks
  BY DEF TapWalks, TapTypeOK
<1>3. R \in SUBSET Ids /\ R \subseteq log /\ \A i \in R : i > tap[n].at
  BY DEF GlobalPage, TapWalks, LogInv, LogColumns
<1> HIDE DEF R
<1>4. /\ t \in Walks /\ t.pc = tap[n].pc /\ t.at = tap[n].at /\ t.rows = R
      /\ t.faulted = tap[n].faulted /\ t.blind = tap[n].blind
  BY <1>2, <1>3, WalkReads
<1> HIDE DEF t
<1>5. TapWalks' /\ log' = log /\ tap'[n] = t /\ \A m \in Taps \ {n} : tap'[m] = tap[m]
  BY <1>1, <1>2, <1>3, <1>4, WalkStep
<1> QED BY <1>1, <1>4, <1>5 DEF R

\* The next row of a page is projected, or passed over and its workspace faulted.
LEMMA IngestWalk ==
  ASSUME TapWalks, NEW n \in Taps, IngestRow(n)
  PROVE  /\ TapWalks' /\ log' = log /\ \A m \in Taps \ {n} : tap'[m] = tap[m]
         /\ UNCHANGED tapCursor
         /\ tap[n].pc = "fill" /\ tap'[n].pc = "fill" /\ tap'[n].blind = tap[n].blind
         /\ \E i \in tap[n].rows :
              /\ \A j \in tap[n].rows : i <= j
              /\ tap'[n].at = i /\ tap'[n].rows = tap[n].rows \ {i}
              /\ \/ /\ tap'[n].faulted = tap[n].faulted
                    /\ indexed' = indexed \cup {i} /\ passedOver' = passedOver
                 \/ /\ tap'[n].faulted # {} /\ indexed' = indexed
                    /\ \/ passedOver' = passedOver
                       \/ /\ passedOver' = passedOver \cup {i}
                          /\ ~ tap[n].blind \/ ~ i <= tapCursor
<1>1. tap[n].pc = "fill" /\ UNCHANGED <<feedVars, faults, tapCursor, rebuild>>
  BY DEF IngestRow
<1>2. PICK i \in tap[n].rows :
        LET t    == tap[n]
            w    == home[i]
            prev == Predecessor(n, w)
            ok   == w \notin t.faulted /\ prev \in {0, link[i]}
        IN  /\ \A j \in t.rows : i <= j
            /\ tap' = [tap EXCEPT ![n] =
                 Walk("fill", i, t.from, t.rows \ {i},
                      IF ok THEN [t.last EXCEPT ![w] = i] ELSE t.last,
                      IF ok THEN t.faulted ELSE t.faulted \cup {w}, t.blind)]
            /\ indexed' = IF ok THEN indexed \cup {i} ELSE indexed
            /\ passedOver' = IF ok \/ (t.blind /\ i <= tapCursor) THEN passedOver
                                                                  ELSE passedOver \cup {i}
  BY DEF IngestRow
<1> DEFINE w  == home[i]
           ok == w \notin tap[n].faulted /\ Predecessor(n, w) \in {0, link[i]}
           R  == tap[n].rows \ {i}
           la == IF ok THEN [tap[n].last EXCEPT ![w] = i] ELSE tap[n].last
           F  == IF ok THEN tap[n].faulted ELSE tap[n].faulted \cup {w}
           t  == Walk("fill", i, tap[n].from, R, la, F, tap[n].blind)
<1>3. /\ tapCursor \in 0..MaxId /\ rebuild \in [Taps -> BOOLEAN] /\ indexed \in SUBSET Ids
      /\ passedOver \in SUBSET Ids /\ faults \in 0..MaxFaults /\ tap[n] \in Walks
  BY DEF TapWalks, TapTypeOK
<1>4. /\ tap[n].from \in 0..MaxId /\ tap[n].rows \in SUBSET Ids /\ tap[n].blind \in BOOLEAN
      /\ tap[n].last \in [Workspaces -> 0..MaxId] /\ tap[n].faulted \in SUBSET Workspaces
  BY <1>3, WalkFields
<1>5. i \in Ids /\ i \in 0..MaxId /\ i \in log /\ w \in Workspaces
  BY <1>4, IdFacts DEF TapWalks, PageAhead, Homed
<1>6. R \in SUBSET Ids /\ R \subseteq log /\ \A j \in R : j > i
  <2>1. \A j \in tap[n].rows : i <= j /\ j \in Nat /\ i \in Nat
    BY <1>2, <1>4, <1>5, IdFacts
  <2> QED BY <1>4, <2>1, SMTT(30) DEF TapWalks, PageAhead
<1>7. la \in [Workspaces -> 0..MaxId] /\ F \in SUBSET Workspaces
  BY <1>4, <1>5
<1>8. tap' = [tap EXCEPT ![n] = t]
  BY <1>2
<1>9. /\ IF ok THEN F = tap[n].faulted ELSE F # {}
      /\ indexed' = IF ok THEN indexed \cup {i} ELSE indexed
      /\ passedOver' = IF ok \/ (tap[n].blind /\ i <= tapCursor) THEN passedOver
                                                                 ELSE passedOver \cup {i}
  BY <1>2
<1> HIDE DEF w, ok, R, la, F
<1>10. /\ t \in Walks /\ t.pc = "fill" /\ t.at = i /\ t.rows = R /\ t.faulted = F
       /\ t.blind = tap[n].blind
  BY <1>4, <1>5, <1>6, <1>7, WalkType, SMTT(30)
<1> HIDE DEF t
<1>11. indexed' \in SUBSET Ids /\ passedOver' \in SUBSET Ids
  BY <1>3, <1>5, <1>9
<1>12. TapWalks' /\ log' = log /\ tap'[n] = t /\ \A m \in Taps \ {n} : tap'[m] = tap[m]
  BY <1>1, <1>3, <1>6, <1>8, <1>10, <1>11, WalkStep
<1> QED BY <1>1, <1>2, <1>9, <1>10, <1>12 DEF R

LEMMA FilledWalk ==
  ASSUME TapWalks, NEW n \in Taps, Filled(n)
  PROVE  /\ TapWalks' /\ log' = log /\ \A m \in Taps \ {n} : tap'[m] = tap[m]
         /\ UNCHANGED <<indexed, passedOver>>
         /\ \A i \in log : i <= tap[n].at
         /\ tap[n].pc = "fill" /\ tap'[n].pc = "live" /\ tap'[n].at = tap[n].at
         /\ tap[n].rows = {} /\ tap'[n].rows = {} /\ tap'[n].faulted = tap[n].faulted
         /\ tapCursor' = tapCursor \/ (tapCursor' = tap[n].at /\ tap[n].faulted = {})
<1> DEFINE t == [tap[n] EXCEPT !.pc = "live"]
<1>1. /\ tap[n].pc = "fill" /\ tap[n].rows = {} /\ \A i \in log : i <= tap[n].at
      /\ UNCHANGED <<feedVars, indexed, passedOver>>
      /\ tap' = [tap EXCEPT ![n] = t]
      /\ rebuild' = [rebuild EXCEPT ![n] = tap[n].faulted # {}]
      /\ tapCursor' = tapCursor \/ (tapCursor' = tap[n].at /\ tap[n].faulted = {})
      /\ UNCHANGED faults \/ Fault
  BY DEF Filled, Persists
<1>2. /\ tapCursor \in 0..MaxId /\ rebuild \in [Taps -> BOOLEAN] /\ indexed \in SUBSET Ids
      /\ passedOver \in SUBSET Ids /\ faults \in 0..MaxFaults /\ tap[n] \in Walks
  BY SMTT(30) DEF TapWalks, TapTypeOK
<1>3. tapCursor' \in 0..MaxId /\ rebuild' \in [Taps -> BOOLEAN]
  BY <1>1, <1>2, WalkFields
<1>4. faults' \in {faults, faults + 1} /\ faults' \in 0..MaxFaults
  BY <1>1, <1>2, TapFaulted
<1>5. t \in Walks /\ t.pc = "live" /\ t.at = tap[n].at /\ t.rows = {} /\ t.faulted = tap[n].faulted
  BY <1>1, <1>2, WalkTurns
<1> HIDE DEF t
<1>6. TapWalks' /\ log' = log /\ tap'[n] = t /\ \A m \in Taps \ {n} : tap'[m] = tap[m]
  BY <1>1, <1>2, <1>3, <1>4, <1>5, WalkStep
<1> QED BY <1>1, <1>5, <1>6

\* The run ends, and with it the walk.
LEMMA EndWalk ==
  ASSUME TapWalks, NEW n \in Taps, FillFails(n) \/ Detach(n)
  PROVE  /\ TapWalks' /\ log' = log /\ \A m \in Taps \ {n} : tap'[m] = tap[m]
         /\ UNCHANGED <<indexed, passedOver>>
         /\ tap'[n].pc = "off" /\ tap'[n].at = 0 /\ tapCursor' \in {0, tapCursor}
<1>1. /\ UNCHANGED <<feedVars, indexed, passedOver>> /\ tapCursor' \in {0, tapCursor}
      /\ tap' = [tap EXCEPT ![n] = NoTap] /\ Fault
      /\ rebuild' \in {rebuild, [rebuild EXCEPT ![n] = FALSE], [rebuild EXCEPT ![n] = TRUE]}
  BY DEF FillFails, Detach
<1>2. /\ tapCursor' \in 0..MaxId /\ rebuild' \in [Taps -> BOOLEAN] /\ indexed \in SUBSET Ids
      /\ passedOver \in SUBSET Ids
  BY <1>1, IdFacts DEF TapWalks, TapTypeOK
<1>3. faults' = faults + 1 /\ faults' \in 0..MaxFaults
  BY <1>1, TapFaulted
<1>4. /\ TapWalks' /\ log' = log /\ tap'[n] = NoTap
      /\ \A m \in Taps \ {n} : tap'[m] = tap[m]
  BY <1>1, <1>2, <1>3, NoTapType, WalkStep
<1> QED BY <1>1, <1>4, NoTapType

LEMMA LiveWalk ==
  ASSUME TapWalks, NEW n \in Taps, NEW i \in Ids, LiveEvent(n, i)
  PROVE  /\ TapWalks' /\ log' = log /\ \A m \in Taps \ {n} : tap'[m] = tap[m]
         /\ UNCHANGED tapCursor /\ i \in log /\ i > tap[n].at
         /\ tap[n].pc = "live" /\ tap'[n].pc = "live" /\ tap'[n].at = i
         /\ tap'[n].faulted = tap[n].faulted
         /\ indexed \subseteq indexed'
         /\ \/ passedOver' = passedOver
            \/ passedOver' = passedOver \cup {i} /\ tap[n].faulted # {}
<1> DEFINE t == [tap[n] EXCEPT !.at = i]
<1>1. /\ tap[n].pc = "live" /\ i \in log /\ i > tap[n].at
      /\ UNCHANGED <<feedVars, faults, tapCursor, rebuild>>
      /\ tap' = [tap EXCEPT ![n] = t]
      /\ indexed' \in {indexed, indexed \cup {i}}
      /\ \/ passedOver' = passedOver
         \/ passedOver' = passedOver \cup {i} /\ tap[n].faulted # {}
  BY DEF LiveEvent
<1>2. /\ tapCursor \in 0..MaxId /\ rebuild \in [Taps -> BOOLEAN] /\ indexed' \in SUBSET Ids
      /\ passedOver' \in SUBSET Ids /\ faults \in 0..MaxFaults /\ tap[n] \in Walks
  BY <1>1 DEF TapWalks, TapTypeOK
<1>3. tap[n].rows = {} /\ i \in log /\ i \in 0..MaxId
  BY <1>1, IdFacts DEF TapWalks, PageAhead
<1>4. t \in Walks /\ t.pc = "live" /\ t.at = i /\ t.rows = {} /\ t.faulted = tap[n].faulted
  BY <1>1, <1>2, <1>3, WalkAdvances
<1> HIDE DEF t
<1>5. TapWalks' /\ log' = log /\ tap'[n] = t /\ \A m \in Taps \ {n} : tap'[m] = tap[m]
  BY <1>1, <1>2, <1>4, WalkStep
<1> QED BY <1>1, <1>3, <1>4, <1>5

LEMMA LagWalk ==
  ASSUME TapWalks, NEW n \in Taps, LagResume(n)
  PROVE  /\ TapWalks' /\ log' = log /\ \A m \in Taps \ {n} : tap'[m] = tap[m]
         /\ UNCHANGED <<tapCursor, indexed, passedOver>>
         /\ tap[n].pc = "live" /\ tap'[n].pc = "fill" /\ tap'[n].at = tap[n].at
         /\ tap'[n].rows = {} /\ tap'[n].faulted = tap[n].faulted
<1> DEFINE t == FreshWalk(tap[n].at, tap[n].faulted, FALSE)
<1>1. /\ tap[n].pc = "live"
      /\ UNCHANGED <<feedVars, faults, tapCursor, rebuild, indexed, passedOver>>
      /\ tap' = [tap EXCEPT ![n] = t]
  BY DEF LagResume, KeptFaults
<1>2. /\ tapCursor \in 0..MaxId /\ rebuild \in [Taps -> BOOLEAN] /\ indexed \in SUBSET Ids
      /\ passedOver \in SUBSET Ids /\ faults \in 0..MaxFaults /\ tap[n] \in Walks
  BY SMTT(30) DEF TapWalks, TapTypeOK
<1>3. tap[n].at \in 0..MaxId /\ tap[n].faulted \in SUBSET Workspaces
  BY <1>2, WalkFields
<1>4. t \in Walks /\ t.pc = "fill" /\ t.at = tap[n].at /\ t.rows = {} /\ t.faulted = tap[n].faulted
  BY <1>3, NoRows DEF FreshWalk, Walk, Walks
<1> HIDE DEF t
<1>5. TapWalks' /\ log' = log /\ tap'[n] = t /\ \A m \in Taps \ {n} : tap'[m] = tap[m]
  BY <1>1, <1>2, <1>4, WalkStep
<1> QED BY <1>1, <1>4, <1>5

LEMMA FeedWalk ==
  ASSUME TapWalks, TapFeed
  PROVE  TapWalks' /\ log \subseteq log' /\ UNCHANGED <<tapCursor, tap, indexed, passedOver>>
<1>1. FeedNext /\ UNCHANGED <<faults, tapCursor, tap, rebuild, indexed, passedOver>>
  BY DEF TapFeed
<1>2. LogInv' /\ log \subseteq log' /\ sent' \subseteq log' /\ Homed'
  BY <1>1, FeedGrows, FeedHomed DEF TapWalks
<1> QED BY <1>1, <1>2 DEF TapWalks, TapTypeOK, PageAhead

LEMMA TapWalksStep ==
  ASSUME TapWalks, [TapNext]_tapVars
  PROVE  TapWalks'
<1>1. CASE UNCHANGED tapVars
  <2>1. UNCHANGED feedVars
    BY <1>1 DEF tapVars, feedVars
  <2>2. LogInv' /\ (sent \subseteq log)'
    BY <2>1, FeedSame DEF TapWalks
  <2> QED BY <1>1, <2>2 DEF tapVars, TapWalks, Homed, TapTypeOK, PageAhead
<1> QED BY <1>1, FeedWalk, AttachWalk, PageWalk, IngestWalk, FilledWalk, EndWalk, LiveWalk, LagWalk
        DEF TapNext

\* What is left to show of a step of the only projector.
LEMMA OneTapStep ==
  ASSUME OneTap, NEW n \in Taps, TapWalks', (passedOver \subseteq log)',
         (tapCursor \in log \cup {0})', MissedAhead(n)', PastCursor(n)', PassedOverIsReplayed'
  PROVE  TapInv'
<1>1. \A m \in Taps : m = n
  BY DEF OneTap
<1>2. \A m \in Taps : MissedAhead(m)' /\ PastCursor(m)'
  BY <1>1
<1> QED BY <1>2 DEF TapInv

LEMMA TapNumbers ==
  ASSUME TapWalks, NEW n \in Taps
  PROVE  /\ tap[n].at \in Nat /\ tapCursor \in Nat /\ log \subseteq Nat /\ passedOver \subseteq Nat
         /\ tap[n].rows \subseteq Nat /\ tap[n].pc \in {"off", "fill", "live"}
<1>1. tap[n] \in Walks /\ tapCursor \in 0..MaxId /\ passedOver \subseteq Ids /\ log \subseteq Ids
  BY DEF TapWalks, TapTypeOK, LogInv, LogColumns
<1>2. /\ tap[n].at \in 0..MaxId /\ tap[n].rows \subseteq Ids
      /\ tap[n].pc \in {"off", "fill", "live"}
  BY <1>1, WalkFields
<1>3. 0..MaxId \subseteq Nat /\ Ids \subseteq Nat
  BY IdFacts, LogConstants, SMTT(30)
<1> QED BY <1>1, <1>2, <1>3

LEMMA AttachKeeps ==
  ASSUME OneTap, TapInv, NEW n \in Taps, Attach(n)
  PROVE  TapInv'
<1>1. TapWalks' /\ log' = log /\ UNCHANGED <<tapCursor, indexed, passedOver>>
  BY AttachWalk DEF TapInv
<1>2. /\ tap'[n].pc = "fill" /\ tap'[n].rows = {} /\ tap'[n].faulted = {}
      /\ tap'[n].at = tapCursor \/ (tap'[n].at = 0 /\ tap'[n].blind)
  BY AttachWalk DEF TapInv
<1>3. tapCursor \in Nat /\ passedOver \subseteq Nat /\ tapCursor \in log \cup {0}
  BY TapNumbers DEF TapInv
<1>4. \A j \in passedOver \ indexed : j > tapCursor
  BY DEF TapInv, PassedOverIsReplayed
<1>5. MissedAhead(n)'
  <2>1. \A j \in passedOver \ indexed : tap'[n].at < j
    <3> TAKE j \in passedOver \ indexed
    <3>1. tapCursor \in Nat /\ j \in Nat /\ tapCursor < j
      BY <1>3, <1>4
    <3>2. tap'[n].at = tapCursor \/ tap'[n].at = 0
      BY <1>2
    <3> QED BY <3>1, <3>2, SMTT(30)
  <2> QED BY <1>1, <1>2, <2>1 DEF MissedAhead
<1>6. PastCursor(n)'
  BY <1>1, <1>2, <1>3, SMTT(30) DEF PastCursor
<1>7. PassedOverIsReplayed' /\ (passedOver \subseteq log)' /\ (tapCursor \in log \cup {0})'
  BY <1>1 DEF TapInv, PassedOverIsReplayed
<1> QED BY <1>1, <1>5, <1>6, <1>7, OneTapStep

LEMMA PageKeeps ==
  ASSUME OneTap, TapInv, NEW n \in Taps, FillPage(n)
  PROVE  TapInv'
<1>1. TapWalks' /\ log' = log /\ UNCHANGED <<tapCursor, indexed, passedOver>>
  BY PageWalk DEF TapInv
<1>2. /\ tap[n].pc = "fill" /\ tap'[n].pc = "fill" /\ tap'[n].at = tap[n].at
      /\ tap'[n].rows = GlobalPage(tap[n].at) /\ tap'[n].faulted = tap[n].faulted
      /\ tap'[n].blind = tap[n].blind
  BY PageWalk DEF TapInv
<1>3. MissedAhead(n) /\ PastCursor(n) /\ TapWalks /\ passedOver \subseteq log
  BY DEF TapInv
<1>4. ASSUME NEW j \in passedOver \ indexed, tap[n].at < j
      PROVE  j \in GlobalPage(tap[n].at) \/ \A k \in GlobalPage(tap[n].at) : k < j
  <2>1. LogInv /\ tap[n].at \in Nat /\ log \subseteq Nat /\ j \in log
    BY <1>3, TapNumbers DEF TapWalks
  <2>2. GlobalPage(tap[n].at) \subseteq Nat
    BY <2>1 DEF GlobalPage
  <2>3. SUFFICES ASSUME NEW k \in GlobalPage(tap[n].at), ~ k < j, k # j
                 PROVE  j \in GlobalPage(tap[n].at)
    OBVIOUS
  <2>4. j < k
    BY <2>1, <2>2, <2>3, SMTT(30)
  <2> QED BY <1>4, <2>1, <2>4, WalkPageDown
<1>5. MissedAhead(n)'
  BY <1>1, <1>2, <1>3, <1>4 DEF MissedAhead
<1>6. PastCursor(n)'
  BY <1>1, <1>2, <1>3 DEF PastCursor
<1>7. PassedOverIsReplayed' /\ (passedOver \subseteq log)' /\ (tapCursor \in log \cup {0})'
  BY <1>1, SMTT(30) DEF TapInv, PassedOverIsReplayed
<1> QED BY <1>1, <1>5, <1>6, <1>7, OneTapStep, SMTT(30)

LEMMA IngestKeeps ==
  ASSUME OneTap, TapInv, NEW n \in Taps, IngestRow(n)
  PROVE  TapInv'
<1>0. TapWalks /\ MissedAhead(n) /\ PastCursor(n) /\ passedOver \subseteq log
      /\ tapCursor \in log \cup {0} /\ PassedOverIsReplayed
  BY DEF TapInv
<1>1. /\ TapWalks' /\ log' = log /\ UNCHANGED tapCursor
      /\ tap[n].pc = "fill" /\ tap'[n].pc = "fill" /\ tap'[n].blind = tap[n].blind
  BY <1>0, IngestWalk
<1>2. PICK i \in tap[n].rows :
              /\ \A j \in tap[n].rows : i <= j
              /\ tap'[n].at = i /\ tap'[n].rows = tap[n].rows \ {i}
              /\ \/ /\ tap'[n].faulted = tap[n].faulted
                    /\ indexed' = indexed \cup {i} /\ passedOver' = passedOver
                 \/ /\ tap'[n].faulted # {} /\ indexed' = indexed
                    /\ \/ passedOver' = passedOver
                       \/ /\ passedOver' = passedOver \cup {i}
                          /\ ~ tap[n].blind \/ ~ i <= tapCursor
  BY <1>0, IngestWalk
<1>3. /\ tap[n].at \in Nat /\ tapCursor \in Nat /\ log \subseteq Nat /\ passedOver \subseteq Nat
      /\ tap[n].rows \subseteq Nat
  BY <1>0, TapNumbers
<1>4. i \in log /\ i \in Nat /\ i > tap[n].at
  BY <1>0, <1>3 DEF TapWalks, PageAhead
<1>5. MissedAhead(n)'
  <2>1. CASE /\ tap'[n].faulted = tap[n].faulted
             /\ indexed' = indexed \cup {i} /\ passedOver' = passedOver
    <3>1. ASSUME tap[n].faulted = {}, NEW j \in passedOver \ indexed, j # i
          PROVE  i < j /\ (j \in tap[n].rows \ {i} \/ \A k \in tap[n].rows \ {i} : k < j)
      BY <1>0, <1>1, <1>2, <1>3, <1>4, <3>1, SMTT(30) DEF MissedAhead
    <3> QED BY <1>1, <1>2, <2>1, <3>1 DEF MissedAhead
  <2>2. CASE tap'[n].faulted # {}
    BY <2>2 DEF MissedAhead
  <2> QED BY <1>2, <2>1, <2>2
<1>6. PastCursor(n)'
  BY <1>0, <1>1, <1>2, <1>3, <1>4, SMTT(30) DEF PastCursor
<1>7. PassedOverIsReplayed'
  <2>1. CASE passedOver' = passedOver
    BY <1>0, <1>1, <1>2, <2>1 DEF PassedOverIsReplayed
  <2>2. CASE /\ passedOver' = passedOver \cup {i} /\ indexed' = indexed
             /\ ~ tap[n].blind \/ ~ i <= tapCursor
    <3>1. i > tapCursor
      BY <1>0, <1>1, <1>3, <1>4, <2>2, SMTT(30) DEF PastCursor
    <3> QED BY <1>0, <1>1, <2>2, <3>1 DEF PassedOverIsReplayed
  <2> QED BY <1>2, <2>1, <2>2
<1>8. (passedOver \subseteq log)' /\ (tapCursor \in log \cup {0})'
  BY <1>0, <1>1, <1>2, <1>4
<1> QED BY <1>1, <1>5, <1>6, <1>7, <1>8, OneTapStep

\* At the head of the log nothing is in front of a walk: what it stores as cursor
\* is the head, and if no chain was broken nothing is missing.
LEMMA FilledKeeps ==
  ASSUME OneTap, TapInv, NEW n \in Taps, Filled(n)
  PROVE  TapInv'
<1>0. /\ TapWalks /\ MissedAhead(n) /\ PastCursor(n) /\ passedOver \subseteq log
      /\ tapCursor \in log \cup {0} /\ PassedOverIsReplayed
  BY DEF TapInv
<1>1. /\ TapWalks' /\ log' = log /\ UNCHANGED <<indexed, passedOver>>
      /\ \A i \in log : i <= tap[n].at
      /\ tap[n].pc = "fill" /\ tap'[n].pc = "live" /\ tap'[n].at = tap[n].at
      /\ tap'[n].faulted = tap[n].faulted
      /\ tapCursor' = tapCursor \/ (tapCursor' = tap[n].at /\ tap[n].faulted = {})
  BY <1>0, FilledWalk
<1>2. tap[n].at \in Nat /\ tapCursor \in Nat /\ log \subseteq Nat
  BY <1>0, TapNumbers
<1>3. tap[n].faulted = {} => passedOver \ indexed = {}
  <2>1. ASSUME tap[n].faulted = {}, NEW j \in passedOver \ indexed PROVE FALSE
    <3>1. tap[n].pc # "off"
      BY <1>1
    <3>2. tap[n].at < j
      BY <1>0, <2>1, <3>1 DEF MissedAhead
    <3>3. j \in log /\ j <= tap[n].at
      BY <1>0, <1>1
    <3> QED BY <1>2, <3>2, <3>3, SMTT(30)
  <2> QED BY <2>1
<1>4. tapCursor <= tap[n].at
  BY <1>0, <1>1, <1>2, SMTT(30)
<1>5. MissedAhead(n)'
  BY <1>1, <1>3 DEF MissedAhead
<1>6. PastCursor(n)'
  BY <1>0, <1>1, <1>2, <1>4, SMTT(30) DEF PastCursor
<1>7. PassedOverIsReplayed'
  BY <1>0, <1>1, <1>3 DEF PassedOverIsReplayed
<1>8. (passedOver \subseteq log)' /\ (tapCursor \in log \cup {0})'
  BY <1>0, <1>1 DEF PastCursor
<1> QED BY <1>1, <1>5, <1>6, <1>7, <1>8, OneTapStep

LEMMA EndKeeps ==
  ASSUME OneTap, TapInv, NEW n \in Taps, FillFails(n) \/ Detach(n)
  PROVE  TapInv'
<1>0. /\ TapWalks /\ passedOver \subseteq log /\ tapCursor \in log \cup {0}
      /\ PassedOverIsReplayed
  BY DEF TapInv
<1>1. /\ TapWalks' /\ log' = log /\ UNCHANGED <<indexed, passedOver>>
      /\ tap'[n].pc = "off" /\ tap'[n].at = 0 /\ tapCursor' \in {0, tapCursor}
  BY <1>0, EndWalk
<1>2. \A i \in passedOver : i > 0
  BY <1>0, IdFacts, SMTT(30) DEF TapWalks, TapTypeOK
<1>3. PassedOverIsReplayed'
  BY <1>0, <1>1, <1>2 DEF PassedOverIsReplayed
<1>4. MissedAhead(n)' /\ PastCursor(n)'
  BY <1>1 DEF MissedAhead, PastCursor
<1>5. (passedOver \subseteq log)' /\ (tapCursor \in log \cup {0})'
  BY <1>0, <1>1
<1> QED BY <1>1, <1>3, <1>4, <1>5, OneTapStep

LEMMA LiveKeeps ==
  ASSUME OneTap, TapInv, NEW n \in Taps, NEW i \in Ids, LiveEvent(n, i)
  PROVE  TapInv'
<1>0. /\ TapWalks /\ MissedAhead(n) /\ PastCursor(n) /\ passedOver \subseteq log
      /\ tapCursor \in log \cup {0} /\ PassedOverIsReplayed
  BY DEF TapInv
<1>1. /\ TapWalks' /\ log' = log /\ UNCHANGED tapCursor /\ i \in log /\ i > tap[n].at
      /\ tap[n].pc = "live" /\ tap'[n].pc = "live" /\ tap'[n].at = i
      /\ tap'[n].faulted = tap[n].faulted /\ indexed \subseteq indexed'
      /\ \/ passedOver' = passedOver
         \/ passedOver' = passedOver \cup {i} /\ tap[n].faulted # {}
  BY <1>0, LiveWalk
<1>2. tap[n].at \in Nat /\ tapCursor \in Nat /\ log \subseteq Nat
  BY <1>0, TapNumbers
<1>3. tapCursor < i
  BY <1>0, <1>1, <1>2, SMTT(30) DEF PastCursor
<1>4. MissedAhead(n)'
  BY <1>0, <1>1 DEF MissedAhead
<1>5. PastCursor(n)'
  BY <1>1, <1>2, <1>3, SMTT(30) DEF PastCursor
<1>6. PassedOverIsReplayed'
  BY <1>0, <1>1, <1>2, <1>3 DEF PassedOverIsReplayed
<1>7. (passedOver \subseteq log)' /\ (tapCursor \in log \cup {0})'
  BY <1>0, <1>1
<1> QED BY <1>1, <1>4, <1>5, <1>6, <1>7, OneTapStep

LEMMA LagKeeps ==
  ASSUME OneTap, TapInv, NEW n \in Taps, LagResume(n)
  PROVE  TapInv'
<1>0. /\ TapWalks /\ MissedAhead(n) /\ PastCursor(n) /\ passedOver \subseteq log
      /\ tapCursor \in log \cup {0} /\ PassedOverIsReplayed
  BY SMTT(30) DEF TapInv
<1>1. /\ TapWalks' /\ log' = log /\ UNCHANGED <<tapCursor, indexed, passedOver>>
      /\ tap[n].pc = "live" /\ tap'[n].pc = "fill" /\ tap'[n].at = tap[n].at
      /\ tap'[n].faulted = tap[n].faulted
  BY <1>0, LagWalk
<1>2. MissedAhead(n)'
  <2>1. tap[n].faulted = {} => passedOver \ indexed = {}
    BY <1>0, <1>1 DEF MissedAhead
  <2> QED BY <1>1, <2>1 DEF MissedAhead
<1>3. PastCursor(n)'
  BY <1>0, <1>1 DEF PastCursor
<1>4. PassedOverIsReplayed' /\ (passedOver \subseteq log)' /\ (tapCursor \in log \cup {0})'
  BY <1>0, <1>1 DEF PassedOverIsReplayed
<1> QED BY <1>1, <1>2, <1>3, <1>4, OneTapStep

\* Steps that leave the projector alone and take no row out of the log.
LEMMA ElseKeeps ==
  ASSUME TapInv, TapWalks', log \subseteq log', UNCHANGED <<tapCursor, tap, indexed, passedOver>>
  PROVE  TapInv'
<1>1. \A n \in Taps : MissedAhead(n) /\ PastCursor(n)
  BY DEF TapInv
<1>2. ASSUME NEW n \in Taps PROVE MissedAhead(n)' /\ PastCursor(n)'
  <2>1. MissedAhead(n)'
    BY <1>1 DEF MissedAhead
  <2>2. PastCursor(n)'
    BY <1>1 DEF PastCursor
  <2> QED BY <2>1, <2>2
<1>3. PassedOverIsReplayed' /\ (passedOver \subseteq log)' /\ (tapCursor \in log \cup {0})'
  BY DEF TapInv, PassedOverIsReplayed
<1> QED BY <1>2, <1>3 DEF TapInv

LEMMA TapStep ==
  ASSUME OneTap, TapInv, [TapNext]_tapVars
  PROVE  TapInv'
<1>1. TapWalks
  BY DEF TapInv
<1>2. CASE UNCHANGED tapVars
  <2>1. TapWalks'
    BY <1>1, <1>2, TapWalksStep
  <2>2. log' = log /\ UNCHANGED <<tapCursor, tap, indexed, passedOver>>
    BY <1>2 DEF tapVars
  <2> QED BY <2>1, <2>2, ElseKeeps
<1>3. CASE TapFeed
  BY <1>1, <1>3, FeedWalk, ElseKeeps
<1> QED BY <1>2, <1>3, AttachKeeps, PageKeeps, IngestKeeps, FilledKeeps, EndKeeps, LiveKeeps, LagKeeps
        DEF TapNext

\* The projector's columns keep their types, however many replicas run it: each
\* walk's page and watermark are rows of the log, and the stored cursor is one.
THEOREM TapTypes == TapSpec => []TapTypeOK
<1>1. TapInit => TapWalks
  BY TapInitial DEF TapInv
<1>2. TapWalks /\ [TapNext]_tapVars => TapWalks'
  BY TapWalksStep
<1>3. TapWalks => TapTypeOK
  BY DEF TapWalks
<1> QED BY <1>1, <1>2, <1>3, PTL DEF TapSpec

\* Where one replica runs the search projector, an event it walked past because
\* its workspace's chain was broken is indexed or above the stored cursor, so the
\* next run walks over it again (indexer.rs persists the head only behind a
\* back-fill without a fault, and keeps the faults of a run across lags).
THEOREM WhatIsPassedOverIsReplayed ==
  ASSUME OneTap
  PROVE  TapSpec => []PassedOverIsReplayed
<1>1. TapInit => TapInv
  BY TapInitial
<1>2. TapInv /\ [TapNext]_tapVars => TapInv'
  BY TapStep
<1>3. TapInv => PassedOverIsReplayed
  BY DEF TapInv
<1> QED BY <1>1, <1>2, <1>3, PTL DEF TapSpec

=============================================================================
