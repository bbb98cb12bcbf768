------------------------------- MODULE Reader -------------------------------
(***************************************************************************)
(* The commands that look at a world without taking its lock: _snapshot in *)
(* cli/main.py, behind status, log and ledger, beside the writers of       *)
(* Store.  A snapshot is made of three reads (header, log, caches) between *)
(* which the writers go on; one snapshot is taken in each behaviour.       *)
(***************************************************************************)
EXTENDS Store

VARIABLES
    rpc,        \* "out", about to read the "events" or the "cells", "shown",
                \* or "failed": the command printed an error
    view,       \* the events and cells it has read
    known       \* history: the events acknowledged before it began

readerVars == <<rpc, view, known>>

ReaderInit ==
    /\ Init
    /\ rpc = "out" /\ view = [events |-> <<>>, cells |-> NoCells] /\ known = {}

\* _require_world, and load_header: before init is through there is none.
ReadBegin ==
    /\ rpc = "out" /\ made
    /\ rpc' = IF header THEN "events" ELSE "failed"
    /\ known' = acked
    /\ UNCHANGED <<vars, view>>

\* Mutant: a reader waits for the lock.
ReadEventsLocked ==
    /\ rpc = "events" /\ lock = Nobody
    /\ IF LogStatus(log) = "corrupt"
       THEN rpc' = "failed" /\ UNCHANGED view
       ELSE rpc' = "cells" /\ view' = [view EXCEPT !.events = Events(log)]
    /\ UNCHANGED <<vars, known>>

\* load_events with skip_torn: a torn last line, which may be an append that
\* is under way, is as if it were not there.
ReadEvents ==
    /\ rpc = "events"
    /\ IF LogStatus(log) = "corrupt"
       THEN rpc' = "failed" /\ UNCHANGED view
       ELSE rpc' = "cells" /\ view' = [view EXCEPT !.events = Events(log)]
    /\ UNCHANGED <<vars, known>>

\* load_caches: cells.json as it is by now.
ReadCells ==
    /\ rpc = "cells"
    /\ rpc' = "shown"
    /\ view' = [view EXCEPT !.cells = CachedCells]
    /\ UNCHANGED <<vars, known>>

ReaderStep == ReadEvents \/ ReadCells

\* Assumed of the users: a process that dies in a call was the only one with
\* the world open.  (Another, not loading, would append to its torn line.)
DiesAlone == faults' # faults => \E p \in Procs : Alone(p) /\ pc[p] # "out"

ReaderNext ==
    \/ ReadBegin \/ ReaderStep
    \/ Next /\ DiesAlone /\ UNCHANGED readerVars

\* A writer in the middle of a call goes on, and so does a reader.
ReaderSpec ==
    /\ ReaderInit /\ [][ReaderNext]_<<vars, readerVars>>
    /\ \A p \in Procs : WF_vars(Step(p))
    /\ WF_<<vars, readerVars>>(ReaderStep)

-----------------------------------------------------------------------------
(* Properties.                                                             *)

\* A reader who starts after a Receipt was returned sees the event, whoever
\* is writing by then; and what it was shown is not taken back later, by a
\* crash or by the repair of a torn tail ("skip a torn last line").
SnapshotLasts ==
    /\ rpc \in {"cells", "shown"} =>
          \A id \in known : \E i \in 1..Len(view.events) : view.events[i].id = id
    /\ LET evs == Recorded
       IN  /\ Len(view.events) <= Len(evs)
           /\ \A i \in 1..Len(view.events) : view.events[i] = evs[i]

\* The cells that status counts come from a cache read after the log: they may
\* run ahead of the events beside them, but each digest is one that an Act or
\* an Observe in the log recorded at that address, never one that was only
\* staged, and never one whose event a crash took back.
CellsVouched ==
    LET evs == Recorded
    IN  \A a \in Addrs : view.cells[a] # Nothing =>
            \E i \in 1..Len(evs) :
                Records(evs[i], a) /\ evs[i].digest = view.cells[a]

\* "Readers are lock-free": a snapshot of a world that has a header is always
\* shown in the end, whether or not anyone holds the lock, and whatever a
\* writer, dead or alive, left at the end of the log.
ReaderAnswers == rpc = "events" ~> rpc = "shown"
=============================================================================
