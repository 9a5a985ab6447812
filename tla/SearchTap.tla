----------------------------- MODULE SearchTap ------------------------------
(***************************************************************************)
(* The search projector: crates/maidan-search/src/indexer.rs and           *)
(* tap_projector.rs with the stored cursor of tap_cursor.rs.  Every        *)
(* replica runs one over the same index.  It walks the log from the stored *)
(* cursor, verifying each workspace's chain, then follows the bus, and     *)
(* walks again from its watermark when the bus lagged.  A workspace whose  *)
(* chain breaks is no longer projected, and the cursor then stays.         *)
(*                                                                         *)
(* The bus may bring any committed event, late, twice, before its          *)
(* announcement (the floor publishes what it back-fills) or never.  When   *)
(* no read of the floor fails it brings what has committed in id order,    *)
(* which InOrder assumes.                                                  *)
(* Events are all of an indexed kind, and none is pruned or shredded.      *)
(***************************************************************************)
EXTENDS EventFeed, FiniteSets

CONSTANTS
  Taps,       \* replicas that run the projector
  TapBatch,   \* LAG_RESUME_BATCH: rows of one page
  InOrder     \* the bus brings what has committed in id order

ASSUME TapConstants ==
  /\ TapBatch \in Nat \ {0}
  /\ InOrder \in BOOLEAN

VARIABLES
  tapCursor,   \* maidan_tap_cursor of the search surface
  tap,         \* tap[n]: the projector of replica n
  rebuild,     \* rebuild[n]: rebuild_needed
  indexed,     \* ids of the events the index holds
  passedOver   \* history: ids walked past because their workspace was faulted,
               \* not those a run that could not read the cursor found behind it

tapVars == <<nextId, home, link, open, log, sent, faults,
             tapCursor, tap, rebuild, indexed, passedOver>>

\* pc: "off", "fill" (walking the log), "live".  at: history_hw or watermark.
\* from: where this walk resumed.  rows: the page in hand.  last[w]: the row
\* the next one of w must link to, 0 when not known.  blind: history, the stored
\* cursor could not be read.
Walk(pc, at, from, rows, last, faulted, blind) ==
  [pc |-> pc, at |-> at, from |-> from, rows |-> rows, last |-> last,
   faulted |-> faulted, blind |-> blind]

FreshWalk(from, faulted, blind) ==
  Walk("fill", from, from, {}, [w \in Workspaces |-> 0], faulted, blind)

NoTap == Walk("off", 0, 0, {}, [w \in Workspaces |-> 0], {}, FALSE)

TapInit ==
  /\ FeedInit
  /\ tapCursor = 0
  /\ tap = [n \in Taps |-> NoTap]
  /\ rebuild = [n \in Taps |-> FALSE]
  /\ indexed = {}
  /\ passedOver = {}

TapFeed ==
  /\ FeedNext
  /\ UNCHANGED <<faults, tapCursor, tap, rebuild, indexed, passedOver>>

\* consume: a fresh tap at the stored cursor, at 0 when it cannot be read.
Attach(n) ==
  /\ tap[n].pc = "off"
  /\ \/ tap' = [tap EXCEPT ![n] = FreshWalk(tapCursor, {}, FALSE)] /\ UNCHANGED faults
     \/ tap' = [tap EXCEPT ![n] = FreshWalk(0, {}, TRUE)] /\ Fault
  /\ UNCHANGED <<feedVars, tapCursor, rebuild, indexed, passedOver>>

\* list_events_after_global.
GlobalPage(after) ==
  LET rows == {i \in log : i > after}
  IN  {i \in rows : Cardinality({j \in rows : j < i}) < TapBatch}

\* backfill_search reads a page.
FillPage(n) ==
  /\ tap[n].pc = "fill" /\ tap[n].rows = {}
  /\ GlobalPage(tap[n].at) # {}
  /\ tap' = [tap EXCEPT ![n].rows = GlobalPage(tap[n].at)]
  /\ UNCHANGED <<feedVars, faults, tapCursor, rebuild, indexed, passedOver>>

\* workspace_event_at_or_before: the row before the resume point, 0 if none.
SeedLink(w, from) ==
  LET rows == {i \in Of(w, log) : i <= from}
  IN  IF rows = {} THEN 0 ELSE CHOOSE i \in rows : \A j \in rows : j <= i

\* The row that a row of w must link to; 0 accepts any as the start.
Predecessor(n, w) ==
  IF tap[n].last[w] = 0 /\ tap[n].from > 0 THEN SeedLink(w, tap[n].from)
                                           ELSE tap[n].last[w]

\* ingest and, when it is to be projected, the handler, for the next row.
IngestRow(n) ==
  /\ tap[n].pc = "fill"
  /\ \E i \in tap[n].rows :
       LET t    == tap[n]
           w    == home[i]
           prev == Predecessor(n, w)
           ok   == w \notin t.faulted /\ prev \in {0, link[i]}
       IN  /\ \A j \in t.rows : i <= j
           /\ tap' = [tap EXCEPT ![n] =
                Walk("fill", i, t.from, t.rows \ {i},
                     IF ok THEN [t.last EXCEPT ![w] = i] ELSE t.last,
                     IF ok THEN t.faulted ELSE t.faulted \cup {w}, t.blind)]
           /\ indexed' = IF ok THEN indexed \cup {i} ELSE indexed
           /\ passedOver' = IF ok \/ (t.blind /\ i <= tapCursor) THEN passedOver
                                                          ELSE passedOver \cup {i}
  /\ UNCHANGED <<feedVars, faults, tapCursor, rebuild>>

\* persist_cursor.
Persists(n) == tap[n].faulted = {}

\* The walk has reached the head: report faults, store the cursor (which may
\* fail and is only logged), go live.
Filled(n) ==
  /\ tap[n].pc = "fill" /\ tap[n].rows = {}
  /\ \A i \in log : i <= tap[n].at
  /\ rebuild' = [rebuild EXCEPT ![n] = tap[n].faulted # {}]
  /\ \/ /\ tapCursor' = IF Persists(n) /\ tapCursor < tap[n].at THEN tap[n].at
                                                                ELSE tapCursor
        /\ UNCHANGED faults
     \/ Fault /\ UNCHANGED tapCursor
  /\ tap' = [tap EXCEPT ![n].pc = "live"]
  /\ UNCHANGED <<feedVars, indexed, passedOver>>

\* A failed read ends the run: the cursor is cleared (which may fail too), and
\* the next run starts over.
FillFails(n) ==
  /\ tap[n].pc = "fill"
  /\ Fault
  /\ tapCursor' \in {0, tapCursor}
  /\ rebuild' = [rebuild EXCEPT ![n] = TRUE]
  /\ tap' = [tap EXCEPT ![n] = NoTap]
  /\ UNCHANGED <<feedVars, indexed, passedOver>>

\* consume, one event of the bus: dropped at or below the watermark.
LiveEvent(n, i) ==
  LET ok == home[i] \notin tap[n].faulted
  IN  /\ tap[n].pc = "live"
      /\ i \in log /\ i > tap[n].at
      /\ InOrder => \A j \in log : tap[n].at < j => i <= j
      /\ tap' = [tap EXCEPT ![n].at = i]
      /\ indexed' = IF ok THEN indexed \cup {i} ELSE indexed
      /\ passedOver' = IF ok THEN passedOver ELSE passedOver \cup {i}
      /\ UNCHANGED <<feedVars, faults, tapCursor, rebuild>>

\* Mutant: the walk after a lag starts with a fresh tap.
KeptFaultsNone(n) == {}

\* resume_lag_at keeps what is known to be broken.
KeptFaults(n) == tap[n].faulted

\* BusItem::Lagged: walk again from the watermark.
LagResume(n) ==
  /\ tap[n].pc = "live"
  /\ tap' = [tap EXCEPT ![n] = FreshWalk(tap[n].at, KeptFaults(n), FALSE)]
  /\ UNCHANGED <<feedVars, faults, tapCursor, rebuild, indexed, passedOver>>

\* The stream ends or the replica restarts.
Detach(n) ==
  /\ tap[n].pc # "off"
  /\ Fault
  /\ tap' = [tap EXCEPT ![n] = NoTap]
  /\ rebuild' \in {rebuild, [rebuild EXCEPT ![n] = FALSE]}
  /\ UNCHANGED <<feedVars, tapCursor, indexed, passedOver>>

TapNext ==
  \/ TapFeed
  \/ \E n \in Taps :
       \/ Attach(n) \/ FillPage(n) \/ IngestRow(n) \/ Filled(n) \/ FillFails(n)
       \/ \E i \in Ids : LiveEvent(n, i)
       \/ LagResume(n) \/ Detach(n)

TapSpec == TapInit /\ [][TapNext]_tapVars
-----------------------------------------------------------------------------
Walks ==
  [pc : {"off", "fill", "live"}, at : 0..MaxId, from : 0..MaxId, rows : SUBSET Ids,
   last : [Workspaces -> 0..MaxId], faulted : SUBSET Workspaces, blind : BOOLEAN]

TapTypeOK ==
  /\ tapCursor \in 0..MaxId
  /\ tap \in [Taps -> Walks]
  /\ rebuild \in [Taps -> BOOLEAN]
  /\ indexed \in SUBSET Ids
  /\ passedOver \in SUBSET Ids

\* What the projector walked past because of a broken chain is never behind the
\* cursor it stores: its next run walks over it again.  This is of one replica:
\* the cursor is shared, and a second projector that missed the same event on
\* the bus may store past it.  And a run that starts over at 0, because it could
\* not read the cursor, can find a break behind the cursor that still stands.
PassedOverIsReplayed ==
  \A i \in passedOver \ indexed : i > tapCursor

=============================================================================
