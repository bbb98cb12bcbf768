-------------------------------- MODULE Store -------------------------------
(***************************************************************************)
(* store/jsonl.py under World.init, World.load and World.propose: several  *)
(* processes on one directory, each step of a call that reaches the disk   *)
(* or the lock an action of its own, so that a crash, a failing system     *)
(* call or another process may come between any two.                       *)
(*                                                                         *)
(* A call is one that the guards of World.tla have let through: a Plan, an *)
(* Act, a Finish, a Failed, or an Observe of a file.  (A listing, and an   *)
(* Observe of a directory, reach the disk as a Plan does and index no      *)
(* digest.)  A call that finds the lock held raises WorldLocked and        *)
(* changes nothing, so it is no step of this specification.                *)
(***************************************************************************)
EXTENDS Kernel, FiniteSets

CONSTANTS
    Procs,          \* processes; each holds at most one open World
    Nobody,         \* the lock is free
    Paths,          \* files of the directory
    Place,          \* the path an address resolves to
    Found,          \* what the files hold before there is a world
    Torn,           \* part of a line, or part of a staged payload
    Cap,            \* energy_cap
    Spends,         \* magnitudes tried for Plan and Failed
    Faults,         \* how a step may be cut short: "crash", "error"
    Tears,          \* what an interrupted append leaves: see Written
    OneAtATime,     \* users open the world in one process at a time
    MaxEvents,      \* bound on the events of the log
    MaxFaults       \* bound on crashes and errors

AccountType == [cap : {Cap}, spent : Nat, remaining : Nat]
IndexType == [Addrs -> Contents \cup {Nothing}]

ASSUME StoreAssumption ==
    /\ Nobody \notin Procs
    /\ Place \in [Addrs -> Paths]
    /\ Found \in [Paths -> Contents \cup {Nothing}]
    /\ Torn \notin Contents \cup EventType /\ Torn # Nothing
    /\ Nothing \notin AccountType \cup IndexType
    /\ Cap \in Nat /\ Spends \subseteq Nat \ {0}
    /\ Faults \subseteq {"crash", "error"}
    /\ Tears \subseteq {"part", "line", "all"}
    /\ OneAtATime \in BOOLEAN
    /\ MaxEvents \in Nat /\ MaxFaults \in Nat

VARIABLES
    \* the disk
    made,           \* .spaceten/ exists
    header,         \* world.json exists
    log,            \* events.jsonl: lines, each the pieces written to it
    ended,          \* the log's last line ends in a newline
    energyFile,     \* energy.json
    cellsFile,      \* cells.json
    staged,         \* .spaceten/tmp/<id>.part files, as [id, data] records
    files,          \* the jailed files
    lock,           \* who holds the flock on .spaceten/lock
    \* the processes
    pc,             \* where each process is
    mem,            \* its World: events, account, cell index
    call,           \* the arguments of the call it is in
    todo,           \* load: the last Acts recover_writes has yet to look at
    \* bookkeeping
    nextId,         \* the next id an IdFactory hands out
    acked,          \* history: ids of the events whose Receipt was returned
    refusal,        \* history: why the last refused load or call was refused
    faults          \* crashes and errors so far

disk == <<made, header, log, ended, energyFile, cellsFile, staged, files>>
vars == <<disk, lock, pc, mem, call, todo, nextId, acked, refusal, faults>>

-----------------------------------------------------------------------------
(* Reading the log.                                                        *)

\* A line parses if exactly one whole event was written to it.
Parses(line) == Len(line) = 1 /\ line[1] # Torn
AllLinesParse(lines) == \A i \in 1..Len(lines) : Parses(lines[i])

\* Mutant: a torn last line is read past as if it were not there.
LenientStatus(lines) ==
    IF AllLinesParse(SubSeq(lines, 1, Len(lines) - 1)) THEN "clean" ELSE "corrupt"

\* load_events: a bad last line is torn, a bad earlier line is corrupt.
LogStatus(lines) ==
    IF AllLinesParse(lines) THEN "clean"
    ELSE IF AllLinesParse(SubSeq(lines, 1, Len(lines) - 1)) THEN "torn"
    ELSE "corrupt"

\* The events a reader gets: those before the first line that is bad.
Events(lines) ==
    LET bad == {i \in 1..Len(lines) : ~Parses(lines[i])}
        n == IF bad = {} THEN Len(lines)
             ELSE (CHOOSE i \in bad : \A j \in bad : i <= j) - 1
    IN  [i \in 1..n |-> lines[i][1]]

\* open(..., "ab") writes at the end of the file, newline or no newline.
Write(lines, piece) ==
    IF ended \/ lines = <<>> THEN Append(lines, <<piece>>)
    ELSE [lines EXCEPT ![Len(lines)] = Append(@, piece)]

\* _rewrite_events: the log without its torn line.  Mutant: one line too many.
RewrittenShort(lines) == SubSeq(lines, 1, Len(lines) - 2)
Rewritten(lines) == SubSeq(lines, 1, Len(lines) - 1)

\* The log after an append of event cut short with a tear: part of the line
\* is there, all of it but the newline, or all of it.
Written(event, tear) == Write(log, IF tear = "part" THEN Torn ELSE event)

-----------------------------------------------------------------------------
(* Processes.                                                              *)

NoCells == [a \in Addrs |-> Nothing]
NoWorld == [events |-> <<>>, acct |-> FreshAccount(Cap), cells |-> NoCells]
CallOf(op, a, data, mj, attempted) ==
    [op |-> op, addr |-> a, data |-> data, mj |-> mj, attempted |-> attempted,
     id |-> NoId]
NoCall == CallOf("none", Nothing, Nothing, 0, NotAttempted)
InitCall == CallOf("init", Nothing, Nothing, 0, NotAttempted)

Opening == {"initLock", "initHeader", "initAppend", "initEnergy", "initCells",
            "loadEvents", "recover", "sweep"}
Calling == {"stage", "append", "replace", "saveEnergy", "saveCells"}
PCs == {"out", "idle"} \cup Opening \cup Calling

Init ==
    /\ made = FALSE /\ header = FALSE
    /\ log = <<>> /\ ended = TRUE
    /\ energyFile = Nothing /\ cellsFile = Nothing
    /\ staged = {}
    /\ files = Found
    /\ lock = Nobody
    /\ pc = [p \in Procs |-> "out"]
    /\ mem = [p \in Procs |-> NoWorld]
    /\ call = [p \in Procs |-> NoCall]
    /\ todo = [p \in Procs |-> {}]
    /\ nextId = 1
    /\ acked = {}
    /\ refusal = "none"
    /\ faults = 0

Goto(p, label) == pc' = [pc EXCEPT ![p] = label]
Remember(p, world) == mem' = [mem EXCEPT ![p] = world]
Alone(p) == \A q \in Procs \ {p} : pc[q] = "out"
MayOpen(p) == pc[p] = "out" /\ (OneAtATime => Alone(p))
\* Mutants: the lock is not waited for; it is not let go.
BargeIn(p) == lock' = p
HoldOn(p) == lock' = lock

Acquire(p) == lock = Nobody /\ lock' = p
Release(p) == lock' = IF lock = p THEN Nobody ELSE lock

\* The process ends, or its World was never constructed.
Gone(p) ==
    /\ Goto(p, "out")
    /\ Release(p)
    /\ Remember(p, NoWorld)
    /\ call' = [call EXCEPT ![p] = NoCall]
    /\ todo' = [todo EXCEPT ![p] = {}]

\* The exception leaves propose; the caller still holds the World as it is.
Raised(p) ==
    /\ Goto(p, "idle")
    /\ Release(p)
    /\ call' = [call EXCEPT ![p] = NoCall]
    /\ UNCHANGED <<mem, todo>>

RefuseOpen(p, why) == Gone(p) /\ refusal' = why

NewEvent(p, id) ==
    LET w == mem[p] c == call[p]
    IN  [id |-> id, seq |-> Len(w.events) + 1,
         parent |-> IF w.events = <<>> THEN NoId ELSE w.events[Len(w.events)].id,
         delta |-> -c.mj,
         reason |-> IF c.mj = 0 THEN "none"
                    ELSE IF c.op \in {"act", "observe"} THEN "io" ELSE "plan",
         op |-> c.op, addr |-> c.addr, digest |-> c.data,
         attempted |-> c.attempted]

\* The event the process appends next; an Act has had its id since staging.
Pending(p) == NewEvent(p, IF call[p].op = "act" THEN call[p].id ELSE nextId)
NextIdAfterAppend(p) == IF call[p].op = "act" THEN nextId ELSE nextId + 1

-----------------------------------------------------------------------------
(* World.init: refuse if .spaceten exists, make it, and only then take the  *)
(* lock and write header, Init event and caches.                           *)

InitMkdir(p) ==
    /\ MayOpen(p) /\ ~made
    /\ made' = TRUE
    /\ Goto(p, "initLock")
    /\ UNCHANGED <<header, log, ended, energyFile, cellsFile, staged, files,
                   lock, mem, call, todo, nextId, acked, refusal, faults>>

InitLock(p) ==
    /\ pc[p] = "initLock"
    /\ IF lock = Nobody
       THEN /\ lock' = p
            /\ Goto(p, "initHeader")
            /\ call' = [call EXCEPT ![p] = InitCall]
            /\ UNCHANGED <<mem, todo, refusal>>
       ELSE RefuseOpen(p, "WorldLocked")
    /\ UNCHANGED <<disk, nextId, acked, faults>>

InitHeader(p) ==
    /\ pc[p] = "initHeader"
    /\ header' = TRUE
    /\ Goto(p, "initAppend")
    /\ UNCHANGED <<made, log, ended, energyFile, cellsFile, staged, files, lock,
                   mem, call, todo, nextId, acked, refusal, faults>>

-----------------------------------------------------------------------------
(* World.propose, after its guards.                                        *)

Begin(p, c) ==
    /\ pc[p] = "idle" /\ Acquire(p)
    /\ Len(mem[p].events) < MaxEvents
    /\ CanPay(mem[p].acct, c.mj)
    /\ call' = [call EXCEPT ![p] = c]
    /\ Goto(p, IF c.op = "act" THEN "stage" ELSE "append")
    /\ UNCHANGED <<disk, mem, todo, nextId, acked, refusal, faults>>

BeginPlan(p, mj) == Begin(p, CallOf("plan", Nothing, Nothing, mj, NotAttempted))
BeginFinish(p) == Begin(p, CallOf("finish", Nothing, Nothing, 0, NotAttempted))
BeginAct(p, a, data) ==
    Begin(p, CallOf("act", a, data, WriteCost(SizeOf[data]), NotAttempted))

\* The file is there, and nobody without the lock changes it.
BeginObserve(p, a) ==
    LET data == files[Place[a]]
    IN  /\ data # Nothing
        /\ Begin(p, CallOf("observe", a, data, ReadCost(SizeOf[data]), NotAttempted))

\* A Failed takes what is left at most; a spend of 0 is one of None.
BeginFailed(p, spend) ==
    LET left == mem[p].acct.remaining
    IN  Begin(p, CallOf("failed", Nothing, Nothing,
                        IF spend < left THEN spend ELSE left,
                        IF spend > left THEN spend ELSE NotAttempted))

\* Mutant: the bytes go straight to their destination.
StageInPlace(p) ==
    /\ pc[p] = "stage"
    /\ files' = [files EXCEPT ![Place[call[p].addr]] = call[p].data]
    /\ call' = [call EXCEPT ![p].id = nextId]
    /\ nextId' = nextId + 1
    /\ Goto(p, "append")
    /\ UNCHANGED <<made, header, log, ended, energyFile, cellsFile, staged, lock,
                   mem, todo, acked, refusal, faults>>

\* Mutant: the index is saved along with the staged copy.
StageIndexed(p) ==
    /\ pc[p] = "stage"
    /\ staged' = staged \cup {[id |-> nextId, data |-> call[p].data]}
    /\ cellsFile' = [mem[p].cells EXCEPT ![call[p].addr] = call[p].data]
    /\ call' = [call EXCEPT ![p].id = nextId]
    /\ nextId' = nextId + 1
    /\ Goto(p, "append")
    /\ UNCHANGED <<made, header, log, ended, energyFile, files, lock, mem, todo,
                   acked, refusal, faults>>

Stage(p) ==
    /\ pc[p] = "stage"
    /\ staged' = staged \cup {[id |-> nextId, data |-> call[p].data]}
    /\ call' = [call EXCEPT ![p].id = nextId]
    /\ nextId' = nextId + 1
    /\ Goto(p, "append")
    /\ UNCHANGED <<made, header, log, ended, energyFile, cellsFile, files, lock,
                   mem, todo, acked, refusal, faults>>

\* store.append.  Mutant: the log is rewritten from this process's memory.
RewriteLog(p) ==
    LET evs == Append(mem[p].events, Pending(p))
    IN  [i \in 1..Len(evs) |-> <<evs[i]>>]
LogAfter(p) == Write(log, Pending(p))

\* store.append and World._events.append; all but an Act debit here, and an
\* Observe indexes what it saw.
AppendEvent(p) ==
    /\ pc[p] \in {"append", "initAppend"}
    /\ log' = LogAfter(p) /\ ended' = TRUE
    /\ nextId' = NextIdAfterAppend(p)
    /\ call' = [call EXCEPT ![p].id = Pending(p).id]
    /\ Remember(p, [mem[p] EXCEPT
            !.events = Append(@, Pending(p)),
            !.acct = IF call[p].op = "act" THEN @ ELSE Debit(@, call[p].mj),
            !.cells = IF call[p].op = "observe"
                      THEN [@ EXCEPT ![call[p].addr] = call[p].data] ELSE @])
    /\ Goto(p, IF pc[p] = "initAppend" THEN "initEnergy"
               ELSE IF call[p].op = "act" THEN "replace" ELSE "saveEnergy")
    /\ UNCHANGED <<made, header, energyFile, cellsFile, staged, files, lock, todo,
                   acked, refusal, faults>>

\* commit_write, then debit, observe and index.
Replace(p) ==
    /\ pc[p] = "replace"
    /\ files' = [files EXCEPT ![Place[call[p].addr]] = call[p].data]
    /\ staged' = {s \in staged : s.id # call[p].id}
    /\ Remember(p, [mem[p] EXCEPT !.acct = Debit(@, call[p].mj),
                                  !.cells[call[p].addr] = call[p].data])
    /\ Goto(p, "saveEnergy")
    /\ UNCHANGED <<made, header, log, ended, energyFile, cellsFile, lock, call,
                   todo, nextId, acked, refusal, faults>>

\* save_caches: two atomic_writes, energy.json first.  Mutant: the account is
\* only written by init.
SaveEnergyOnce(p) ==
    /\ pc[p] \in {"saveEnergy", "initEnergy"}
    /\ energyFile' = IF pc[p] = "initEnergy" THEN mem[p].acct ELSE energyFile
    /\ Goto(p, IF pc[p] = "initEnergy" THEN "initCells" ELSE "saveCells")
    /\ UNCHANGED <<made, header, log, ended, cellsFile, staged, files, lock, mem,
                   call, todo, nextId, acked, refusal, faults>>
SaveEnergy(p) ==
    /\ pc[p] \in {"saveEnergy", "initEnergy"}
    /\ energyFile' = mem[p].acct
    /\ Goto(p, IF pc[p] = "initEnergy" THEN "initCells" ELSE "saveCells")
    /\ UNCHANGED <<made, header, log, ended, cellsFile, staged, files, lock, mem,
                   call, todo, nextId, acked, refusal, faults>>

\* ... then cells.json, _assert_invariants, and the Receipt.
SaveCells(p) ==
    /\ pc[p] \in {"saveCells", "initCells"}
    /\ cellsFile' = mem[p].cells
    /\ IF InvariantsHold(mem[p].events, mem[p].acct, Addrs)
       THEN Raised(p) /\ acked' = acked \cup {call[p].id} /\ UNCHANGED refusal
       ELSE /\ IF pc[p] = "initCells" THEN Gone(p) ELSE Raised(p)
            /\ refusal' = "InvariantError" /\ UNCHANGED acked
    /\ UNCHANGED <<made, header, log, ended, energyFile, staged, files, nextId,
                   faults>>

-----------------------------------------------------------------------------
(* World.load.                                                             *)

\* Taking the lock makes .spaceten where there is none, and with it a
\* directory that init will refuse and load finds no events in.
LoadBegin(p) ==
    /\ MayOpen(p) /\ Acquire(p)
    /\ made' = TRUE
    /\ Goto(p, "loadEvents")
    /\ UNCHANGED <<header, log, ended, energyFile, cellsFile, staged, files, mem,
                   call, todo, nextId, acked, refusal, faults>>

LastActs(evs) == {i \in 1..Len(evs) : IsLastAct(evs, i)}

\* load_events with or without truncate_partial; _rewrite_events drops the
\* torn line and ends the log in a newline.
LoadEvents(p, truncate) ==
    /\ pc[p] = "loadEvents"
    /\ LET status == LogStatus(log)
           refuse == IF status = "corrupt" THEN "corrupt log"
                     ELSE IF status = "torn" /\ ~truncate THEN "TruncatedLog"
                     ELSE IF status = "clean" /\ truncate THEN "ValueError"
                     ELSE "none"
       IN  IF refuse # "none"
           THEN RefuseOpen(p, refuse) /\ UNCHANGED <<log, ended>>
           ELSE /\ todo' = [todo EXCEPT ![p] = LastActs(Events(log))]
                /\ log' = IF truncate THEN Rewritten(log) ELSE log
                /\ ended' = (ended \/ truncate)
                /\ Goto(p, "recover")
                /\ UNCHANGED <<lock, mem, call, refusal>>
    /\ UNCHANGED <<made, header, energyFile, cellsFile, staged, files, nextId,
                   acked, faults>>

StagedWhole(e) == [id |-> e.id, data |-> e.digest] \in staged
InPlace(e) == files[Place[e.addr]] = e.digest

\* Mutant: the staged copy is dropped without finishing the replace.
RecoverDropping(p, i) ==
    /\ pc[p] = "recover" /\ i \in todo[p]
    /\ LET e == Events(log)[i]
       IN  /\ InPlace(e) \/ StagedWhole(e)
           /\ staged' = {s \in staged : s.id # e.id}
    /\ todo' = [todo EXCEPT ![p] = @ \ {i}]
    /\ UNCHANGED <<made, header, log, ended, energyFile, cellsFile, files, lock,
                   pc, mem, call, nextId, acked, refusal, faults>>

\* _recover_act: the file is right (drop the staged copy), or the staged copy
\* is (finish the replace), or neither and the address stays in todo.
RecoverAct(p, i) ==
    /\ pc[p] = "recover" /\ i \in todo[p]
    /\ LET e == Events(log)[i]
       IN  /\ InPlace(e) \/ StagedWhole(e)
           /\ files' = [files EXCEPT ![Place[e.addr]] = e.digest]
           /\ staged' = {s \in staged : s.id # e.id}
    /\ todo' = [todo EXCEPT ![p] = @ \ {i}]
    /\ UNCHANGED <<made, header, log, ended, energyFile, cellsFile, lock, pc, mem,
                   call, nextId, acked, refusal, faults>>

\* The rest of recover_writes: every .part file that is not a last Act's goes,
\* and then the addresses still in todo make it DirtySpace.
Sweep(p) ==
    /\ pc[p] = "recover"
    /\ LET evs == Events(log)
       IN  /\ \A i \in todo[p] : ~InPlace(evs[i]) /\ ~StagedWhole(evs[i])
           /\ staged' = {s \in staged : \E i \in LastActs(evs) : s.id = evs[i].id}
    /\ IF todo[p] # {} THEN RefuseOpen(p, "DirtySpace")
       ELSE Goto(p, "sweep") /\ UNCHANGED <<lock, mem, call, todo, refusal>>
    /\ UNCHANGED <<made, header, log, ended, energyFile, cellsFile, files, nextId,
                   acked, faults>>

\* load_caches: the index is used only if both caches are there.
CachedCells ==
    IF energyFile # Nothing /\ cellsFile # Nothing THEN cellsFile ELSE NoCells

\* The World that load builds.  Mutant: its account comes from energy.json.
LoadedCached(evs) ==
    [events |-> evs, cells |-> CachedCells,
     acct |-> IF energyFile # Nothing THEN energyFile ELSE ReplayAccount(evs, Cap)]
Loaded(evs) ==
    [events |-> evs, cells |-> CachedCells, acct |-> ReplayAccount(evs, Cap)]

\* The tail of load: header, caches, replay, invariants.
LoadWorld(p) ==
    LET evs == Events(log)
        w == Loaded(evs)
    IN  /\ pc[p] = "sweep"
        /\ IF evs = <<>> \/ ~header THEN RefuseOpen(p, "FileNotFoundError")
           ELSE IF ~Replayable(evs, Cap) THEN RefuseOpen(p, "EnergyExhausted")
           ELSE IF ~InvariantsHold(evs, w.acct, Addrs)
           THEN RefuseOpen(p, "InvariantError")
           ELSE /\ Goto(p, "idle") /\ Release(p) /\ Remember(p, w)
                /\ UNCHANGED <<call, todo, refusal>>
        /\ UNCHANGED <<disk, nextId, acked, faults>>

\* The process ends of its own accord between calls.
Exit(p) ==
    /\ pc[p] = "idle"
    /\ Gone(p)
    /\ UNCHANGED <<disk, nextId, acked, refusal, faults>>

-----------------------------------------------------------------------------
(* Faults: a crash ends the process wherever it is; an error is an OSError *)
(* out of the step it was about to take.                                   *)

CutShort(p, kind) ==
    /\ pc[p] # "out" /\ faults < MaxFaults
    /\ faults' = faults + 1
    /\ IF kind = "crash" \/ pc[p] \in Opening THEN Gone(p)
       ELSE pc[p] # "idle" /\ Raised(p)

Interrupt(p, kind) ==
    /\ CutShort(p, kind)
    /\ UNCHANGED <<disk, nextId, acked, refusal>>

InterruptStage(p, kind, data) ==
    /\ pc[p] = "stage" /\ CutShort(p, kind)
    /\ staged' = staged \cup {[id |-> nextId, data |-> data]}
    /\ nextId' = nextId + 1
    /\ UNCHANGED <<made, header, log, ended, energyFile, cellsFile, files, acked,
                   refusal>>

InterruptAppend(p, kind, tear) ==
    /\ pc[p] \in {"append", "initAppend"} /\ CutShort(p, kind)
    /\ log' = Written(Pending(p), tear)
    /\ ended' = (tear = "all")
    /\ nextId' = NextIdAfterAppend(p)
    /\ UNCHANGED <<made, header, energyFile, cellsFile, staged, files, acked,
                   refusal>>

-----------------------------------------------------------------------------

Step(p) ==
    \/ InitLock(p) \/ InitHeader(p)
    \/ Stage(p) \/ AppendEvent(p) \/ Replace(p) \/ SaveEnergy(p) \/ SaveCells(p)
    \/ \E truncate \in BOOLEAN : LoadEvents(p, truncate)
    \/ \E i \in todo[p] : RecoverAct(p, i)
    \/ Sweep(p) \/ LoadWorld(p)

Fault(p) ==
    \E kind \in Faults :
        \/ Interrupt(p, kind)
        \/ \E data \in {Torn, call[p].data} : InterruptStage(p, kind, data)
        \/ \E tear \in Tears : InterruptAppend(p, kind, tear)

Next ==
    \E p \in Procs :
        \/ InitMkdir(p) \/ LoadBegin(p) \/ Exit(p)
        \/ \E mj \in Spends : BeginPlan(p, mj)
        \/ \E spend \in Spends \cup {0} : BeginFailed(p, spend)
        \/ BeginFinish(p)
        \/ \E a \in Addrs : BeginObserve(p, a)
        \/ \E a \in Addrs, data \in Contents : BeginAct(p, a, data)
        \/ Step(p)
        \/ Fault(p)

Spec == Init /\ [][Next]_vars

\* A process in the middle of a call is scheduled until the call is over.
FairSpec == Spec /\ \A p \in Procs : WF_vars(Step(p))

-----------------------------------------------------------------------------
(* Properties.                                                             *)

Recorded == Events(log)

\* The disk, the lock and every process hold what the code can put there.
TypeOK ==
    /\ made \in BOOLEAN /\ header \in BOOLEAN /\ ended \in BOOLEAN
    /\ \A i \in 1..Len(log) : \A j \in 1..Len(log[i]) :
          log[i][j] = Torn \/ log[i][j] \in EventType
    /\ energyFile = Nothing \/ energyFile \in AccountType
    /\ cellsFile = Nothing \/ cellsFile \in IndexType
    /\ \A s \in staged : s.id < nextId /\ s.data \in Contents \cup {Torn}
    /\ files \in [Paths -> Contents \cup {Nothing}]
    /\ lock \in Procs \cup {Nobody}
    /\ pc \in [Procs -> PCs]
    /\ \A p \in Procs :
          /\ mem[p].events \in Seq(EventType)
          /\ mem[p].acct \in AccountType
          /\ lock = p <=> pc[p] \notin {"out", "idle", "initLock"}
    /\ acked \subseteq 1..(nextId - 1)

\* The log on disk is at all times one that load accepts: it parses up to its
\* last line, chains (I4 to I6), and never spends more than the cap, however
\* calls were cut short and processes came and went.
LogIsOneChain ==
    /\ LogStatus(log) # "corrupt"
    /\ LET evs == Recorded IN LogHolds(evs, Addrs) /\ Replayable(evs, Cap)

\* The energy part of it alone: no sequence of calls commits more than the cap
\* ("I/O quote > remaining: raise EnergyExhausted, no event").
NeverOverspent == Replayable(Recorded, Cap)

\* An event whose Receipt the caller got survives every crash, restart and
\* truncate_partial: append fsyncs before propose returns.
AckedDurable ==
    LET evs == Recorded
    IN  \A id \in acked : \E i \in 1..Len(evs) : evs[i].id = id

\* Between any two steps of any process the bytes of the last Act at each
\* address are in place or whole in the staging area under its own id, so a
\* crash there loses nothing ("stage, append+fsync, os.replace").
BytesRecoverable ==
    LET evs == Recorded
    IN  \A i \in LastActs(evs) : InPlace(evs[i]) \/ StagedWhole(evs[i])

\* "There is no dest write without a log line": a file holds other bytes than
\* it was found with only if an Act in the log wrote exactly those bytes there.
NoBytesUnlogged ==
    LET evs == Recorded
    IN  \A f \in Paths : files[f] # Found[f] =>
            \E i \in 1..Len(evs) :
                /\ evs[i].op = "act"
                /\ Place[evs[i].addr] = f
                /\ evs[i].digest = files[f]

\* A world that only propose has written to is never refused by load, and
\* never aborts a call, for anything but a torn tail (TruncatedLog, or
\* ValueError from the flag that repairs one) or an unfinished init.
OnlyTornRefused ==
    refusal \notin {"DirtySpace", "InvariantError", "EnergyExhausted", "corrupt log"}

\* An instance at rest agrees with the disk: its events are the log's and its
\* account is their replay, so its next event will chain and be affordable.
MemoryIsLog ==
    \A p \in Procs : pc[p] = "idle" =>
        /\ mem[p].events = Recorded
        /\ mem[p].acct = ReplayAccount(Recorded, Cap)

\* Once the receipt of the newest event is out, the caches are up to it: check
\* (rebuild) finds no cache drift until the next append, whatever crashed
\* before.  And without a crash the index of every loaded world is what the
\* log records: for each address, the last digest an Act or an Observe gave.
ReceiptsCached ==
    LET evs == Recorded
        newest == evs[Len(evs)]
    IN  /\ evs # <<>> /\ newest.id \in acked =>
              /\ energyFile = ReplayAccount(evs, Cap)
              /\ newest.digest # Nothing => cellsFile[newest.addr] = newest.digest
        /\ \A p \in Procs : pc[p] = "idle" /\ faults = 0 =>
              \A a \in Addrs, d \in Contents :
                  LastRecorded(evs, a, d) => mem[p].cells[a] = d

\* No step of any process, repair included, removes or alters an event that a
\* reader of the log could already see.
HistoryOnlyGrows ==
    [][LET before == Events(log)
           after == Events(log')
       IN  /\ Len(before) <= Len(after)
           /\ \A i \in 1..Len(before) : after[i] = before[i]]_log

\* Whatever path a call or a load takes, refusals included, it lets the lock
\* go: nobody is locked out of the world for good.
LockReleased == \A p \in Procs : lock = p ~> lock # p

\* The log on disk, with the energy it leaves, implements the ledger.
Charges ==
    LET evs == Recorded
    IN  IF evs = <<>> THEN <<0>> ELSE [i \in 1..Len(evs) |-> SpendFrom(evs[i])]
Promise == INSTANCE Ledger WITH charges <- Charges, balance <- Cap - Spent(Recorded)
LedgerSpec == Promise!LedgerSpec
=============================================================================
