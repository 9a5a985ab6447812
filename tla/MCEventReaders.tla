--------------------------- MODULE MCEventReaders ---------------------------
(***************************************************************************)
(* The readers of the event feed for TLC.  They share the log and nothing  *)
(* else, so a behaviour attaches one of them, named by reader, and the     *)
(* others stay as they started.                                            *)
(***************************************************************************)
EXTENDS NotifyFloor, EventStreams, SearchTap

CONSTANTS
  ShortLog,   \* bound: the last id where the tap is not attached
  TapFaults   \* bound: faults where it is

VARIABLE reader   \* "floor", "stream" or "tap"

floorOnly == <<up, chan, mark, task, delivered, behind, lost>>
streamOnly == <<durable, conn, queue, frames, handed, wasLive>>
tapOnly == <<tapCursor, tap, rebuild, indexed, passedOver>>
readerVars == <<nextId, home, link, open, log, sent, faults,
                floorOnly, streamOnly, tapOnly, reader>>

Readers == {"floor", "stream", "tap"}

ReadersInit == FloorInit /\ StreamInit /\ TapInit /\ reader \in Readers

\* Only the floor looks at what was announced: one announcement does for the others.
ReadersNext ==
  /\ \/ reader = "floor" /\ FloorNext /\ UNCHANGED <<streamOnly, tapOnly>>
     \/ reader = "stream" /\ StreamNext /\ UNCHANGED <<floorOnly, tapOnly>>
     \/ reader = "tap" /\ TapNext /\ UNCHANGED <<floorOnly, streamOnly>>
  /\ UNCHANGED reader
  /\ IF reader = "tap" THEN faults' <= TapFaults ELSE nextId' <= ShortLog
  /\ reader = "floor" \/ sent' \subseteq {1}

\* The reconcile loop polls for ever and a consumer comes back.
ReadersFairness ==
  WF_readerVars(/\ reader = "stream" /\ UNCHANGED <<floorOnly, tapOnly, reader>>
                /\ Subscribe(TRUE) \/ ReadRows \/ SendRow \/ Advance)

ReadersSpec == ReadersInit /\ [][ReadersNext]_readerVars /\ ReadersFairness

\* A consumer that always asks for at_least_once and comes back is handed
\* every committed event of its workspace (StreamCatchesUp, where the stream
\* is the attached reader).
AttachedStreamCatchesUp == reader = "stream" => StreamCatchesUp
=============================================================================
