------------------------ MODULE StoreAgreementProofs ------------------------
(***************************************************************************)
(* What the store promises to users who open a world in one process at a   *)
(* time: log, memory and caches agree at every step (Agreed), on top of    *)
(* Types and Safe of StoreProofs.  The argument is again one lemma per     *)
(* action (...Agreed); LEMMA GrewAgreed is the heart of it, the one event  *)
(* that an append or a crash in it adds to the log.                        *)
(***************************************************************************)
EXTENDS StoreProofs

-----------------------------------------------------------------------------
(* One process at a time: memory, caches and log agree.                    *)

OneChain == LogHolds(Recorded, Addrs) /\ Replayable(Recorded, Cap)
Replayed == ReplayAccount(Recorded, Cap)
Saving == {"saveEnergy", "saveCells", "initEnergy", "initCells"}
Rested == {"idle", "stage", "append"} \cup Saving

\* What p holds in memory, by how far its call has come.
MemoryFits(p) ==
    LET at == pc[p] w == mem[p] c == call[p]
    IN  /\ at \in Rested \cup {"replace"} => Recorded # <<>> /\ w.events = Recorded
        /\ at \in Rested => w.acct = Replayed
        /\ at \in {"stage", "append"} => CanPay(w.acct, c.mj)
        /\ at = "replace" => Debit(w.acct, c.mj) = Replayed
        /\ at \in {"initLock", "initHeader", "initAppend"} => log = <<>>
        /\ at \in {"out", "initLock", "initHeader", "initAppend"} => w = NoWorld
        /\ at \in Initing => c.mj = 0
        /\ at \in {"saveCells", "initCells"} => energyFile = Replayed
        /\ at \in Saving /\ Newest.digest # Nothing =>
              w.cells[Newest.addr] = Newest.digest

CachesUpToDate ==
    Recorded # <<>> /\ Newest.id \in acked =>
        /\ energyFile = Replayed
        /\ Newest.digest # Nothing =>
              cellsFile # Nothing /\ cellsFile[Newest.addr] = Newest.digest

\* The index has, for every address, the last digest the log records there.
Indexed(cells) ==
    \A a \in Addrs, d \in Contents : LastRecorded(Recorded, a, d) => cells[a] = d

\* Without a fault the index is complete, in the file and in memory; an Act
\* between append and index still owes its own digest.
FileIndexed ==
    Recorded # <<>> /\ (\A p \in Procs : pc[p] \notin Logged) =>
        energyFile # Nothing /\ cellsFile # Nothing /\ Indexed(cellsFile)
OwnIndexed(p) ==
    /\ pc[p] \in Rested => Indexed(mem[p].cells)
    /\ pc[p] = "replace" =>
          Indexed([mem[p].cells EXCEPT ![call[p].addr] = call[p].data])
IndexComplete ==
    faults = 0 => ended /\ FileIndexed /\ \A p \in Procs : OwnIndexed(p)

NothingElseRefused == refusal \notin {"InvariantError", "EnergyExhausted"}

Agreed ==
    /\ OneChain /\ CachesUpToDate /\ IndexComplete /\ NothingElseRefused
    /\ \A p \in Procs : MemoryFits(p)

-----------------------------------------------------------------------------

\* The log with one more event that continues it and can be paid for.
LEMMA ChainGrows ==
    ASSUME NEW evs \in Seq(Stored), NEW e \in Stored,
           LogHolds(evs, Addrs), ~HasId(evs, e.id), e.seq = Len(evs) + 1,
           e.parent = IF evs = <<>> THEN NoId ELSE evs[Len(evs)].id
    PROVE  LogHolds(Append(evs, e), Addrs)
<1> DEFINE n == Len(evs)
           longer == Append(evs, e)
<1>1. /\ n \in Nat /\ Len(longer) = n + 1 /\ longer[n + 1] = e
      /\ \A i \in 1..n : longer[i] = evs[i]
  BY GrownKept
<1>2. \A i \in 1..n : evs[i] \in Stored
  BY ElementOfSeq
<1> HIDE DEF longer
<1>3. UniqueIds(longer)
  <2> SUFFICES ASSUME NEW i \in 1..(n + 1), NEW j \in 1..(n + 1),
                      longer[i].id = longer[j].id
               PROVE  i = j
    BY <1>1 DEF UniqueIds
  <2>1. CASE i \in 1..n /\ j \in 1..n
    BY <1>1, <2>1 DEF LogHolds, UniqueIds
  <2>2. CASE i = n + 1 \/ j = n + 1
    <3>1. \A k \in 1..n : evs[k].id # e.id
      BY DEF HasId
    <3> QED
      BY <1>1, <2>2, <3>1
  <2> QED
    BY <1>1, <2>1, <2>2
<1>4. Sequential(longer)
  BY <1>1 DEF LogHolds, Sequential
<1>5. Parented(longer)
  <2> SUFFICES ASSUME NEW i \in 1..(n + 1) PROVE ParentOk(longer, i)
    BY <1>1 DEF Parented
  <2>1. CASE i \in 1..n
    <3>1. ParentOk(evs, i) /\ (i > 1 => i - 1 \in 1..n)
      BY <1>1, <2>1 DEF LogHolds, Parented
    <3> QED
      BY <1>1, <2>1, <3>1 DEF ParentOk
  <2>2. CASE i = n + 1
    <3>1. CASE n = 0
      <4>1. evs = <<>>
        BY <3>1, EmptySeq
      <4> QED
        BY <1>1, <2>2, <3>1, <4>1 DEF ParentOk
    <3>2. CASE n # 0
      <4>1. evs # <<>> /\ n \in 1..n
        BY <1>1, <3>2
      <4> QED
        BY <1>1, <2>2, <3>2, <4>1 DEF ParentOk
    <3> QED
      BY <3>1, <3>2
  <2> QED
    BY <1>1, <2>1, <2>2
<1>6. Jailed(longer, Addrs)
  <2> SUFFICES ASSUME NEW i \in 1..(n + 1), longer[i].op \in {"act", "observe"}
               PROVE  longer[i].addr \in Addrs
    BY <1>1 DEF Jailed
  <2>1. CASE i \in 1..n
    BY <1>1, <2>1 DEF LogHolds, Jailed
  <2>2. CASE i = n + 1
    BY <1>1, <2>2 DEF Stored, Seen
  <2> QED
    BY <1>1, <2>1, <2>2
<1> QED
  BY <1>3, <1>4, <1>5, <1>6 DEF LogHolds, longer

\* The last digest recorded once e has been appended is that of e, or one
\* recorded before at an address where e records none.
LEMMA RecordedLast ==
    ASSUME NEW evs \in Seq(Stored), NEW e \in Stored, NEW a, NEW d,
           LastRecorded(Append(evs, e), a, d)
    PROVE  \/ Records(e, a) /\ e.digest = d
           \/ ~Records(e, a) /\ LastRecorded(evs, a, d)
<1> DEFINE n == Len(evs)
           longer == Append(evs, e)
<1>1. /\ n \in Nat /\ Len(longer) = n + 1 /\ longer[n + 1] = e
      /\ \A k \in 1..n : longer[k] = evs[k]
  BY GrownKept
<1>2. PICK i \in 1..(n + 1) :
         /\ Records(longer[i], a) /\ longer[i].digest = d
         /\ \A j \in 1..(n + 1) : j > i => ~Records(longer[j], a)
  BY <1>1 DEF LastRecorded
<1> HIDE DEF longer
<1>3. CASE i = n + 1
  BY <1>1, <1>2, <1>3
<1>4. CASE i # n + 1
  <2>1. i \in 1..n /\ n + 1 > i /\ n + 1 \in 1..(n + 1)
    BY <1>1, <1>2, <1>4
  <2>2. ~Records(e, a)
    BY <1>1, <1>2, <2>1
  <2>3. \A j \in 1..n : j > i => ~Records(evs[j], a)
    BY <1>1, <1>2
  <2>4. Records(evs[i], a) /\ evs[i].digest = d
    BY <1>1, <1>2, <2>1
  <2> QED
    BY <2>1, <2>2, <2>3, <2>4 DEF LastRecorded
<1> QED
  BY <1>3, <1>4

\* What a step of p, alone in the world, has to see to.
LEMMA AgreedStep ==
    ASSUME Agreed, NEW p \in Procs,
           \A q \in Procs : q # p => pc'[q] = "out" /\ mem'[q] = NoWorld,
           OneChain', CachesUpToDate', NothingElseRefused', MemoryFits(p)',
           faults' = 0 => ended' /\ FileIndexed' /\ OwnIndexed(p)'
    PROVE  Agreed'
<1>1. ASSUME NEW q \in Procs, q # p PROVE MemoryFits(q)' /\ OwnIndexed(q)'
  <2>1. pc'[q] = "out" /\ mem'[q] = NoWorld
    BY <1>1
  <2> QED
    BY <2>1 DEF MemoryFits, OwnIndexed, Rested, Saving, Initing
<1>2. \A q \in Procs : MemoryFits(q)'
  BY <1>1
<1>3. IndexComplete'
  <2> SUFFICES ASSUME faults' = 0
               PROVE  ended' /\ FileIndexed' /\ \A q \in Procs : OwnIndexed(q)'
    BY DEF IndexComplete
  <2>1. \A q \in Procs : OwnIndexed(q)'
    BY <1>1
  <2> QED
    BY <2>1
<1> QED
  BY <1>2, <1>3 DEF Agreed

\* Everybody else is out of the world, with nothing in memory.
Solo(p) ==
    \A q \in Procs : q # p => pc[q] = "out" /\ pc'[q] = "out" /\ mem'[q] = NoWorld

\* With one process in the world, a step of it finds the others out of it.
LEMMA OthersOut ==
    ASSUME Types, Single, OneAtATime, Agreed, NEW p \in Procs, StepOf(p)
    PROVE  Solo(p)
<1>1. ASSUME NEW q \in Procs, q # p
      PROVE  pc[q] = "out" /\ pc'[q] = "out" /\ mem'[q] = NoWorld
  <2>1. pc[q] = "out" /\ pc'[q] = "out"
    BY <1>1, SingleStep
  <2>2. mem'[q] = mem[q]
    BY <1>1, StepsTyped, OthersStay
  <2>3. mem[q] = NoWorld
    BY <2>1 DEF Agreed, MemoryFits
  <2> QED
    BY <2>1, <2>2, <2>3
<1> QED
  BY <1>1 DEF Solo

Ready(p) == Types /\ Safe /\ Agreed /\ Moves(p) /\ Solo(p)

\* A step that leaves the events alone.
LEMMA QuietAgreed ==
    ASSUME NEW p \in Procs, Ready(p), Recorded' = Recorded,
           CachesUpToDate', NothingElseRefused', MemoryFits(p)',
           \/ faults' # 0
           \/ /\ faults' = faults /\ (ended => ended') /\ OwnIndexed(p)'
              /\ \/ UNCHANGED <<energyFile, cellsFile>>
                    /\ (pc[p] \in Logged => pc'[p] \in Logged)
                 \/ pc'[p] \in Logged
                 \/ energyFile' # Nothing /\ cellsFile' # Nothing
                    /\ Indexed(cellsFile')
    PROVE  Agreed'
<1> USE DEF Ready
<1>1. OneChain'
  BY DEF Agreed, OneChain
<1>2. ASSUME faults' = 0
      PROVE  ended' /\ FileIndexed' /\ OwnIndexed(p)'
  <2>1. faults = 0 /\ ended /\ FileIndexed
    BY <1>2 DEF Agreed, IndexComplete
  <2>2. CASE pc'[p] \in Logged
    BY <1>2, <2>1, <2>2 DEF FileIndexed
  <2>3. CASE energyFile' # Nothing /\ cellsFile' # Nothing /\ Indexed(cellsFile')
    BY <1>2, <2>1, <2>3 DEF FileIndexed, Indexed
  <2>4. CASE UNCHANGED <<energyFile, cellsFile>> /\ pc[p] \notin Logged
    <3>1. \A q \in Procs : pc[q] \notin Logged
      BY <2>4 DEF Logged, Solo
    <3>2. Recorded # <<>> => energyFile # Nothing /\ cellsFile # Nothing /\ Indexed(cellsFile)
      BY <2>1, <3>1 DEF FileIndexed
    <3> QED
      BY <1>2, <2>1, <2>4, <3>2 DEF FileIndexed, Indexed
  <2> QED
    BY <1>2, <2>2, <2>3, <2>4
<1>3. \A q \in Procs : q # p => pc'[q] = "out" /\ mem'[q] = NoWorld
  BY DEF Solo
<1> QED
  BY <1>1, <1>2, <1>3, AgreedStep

\* Caches that are up to date stay so while log, caches and receipts do not move.
LEMMA SameCaches ==
    ASSUME Agreed, Recorded' = Recorded, UNCHANGED <<energyFile, cellsFile, acked>>
    PROVE  CachesUpToDate'
  BY DEF Agreed, CachesUpToDate, Newest, Replayed

\* A process that goes takes its memory along and nothing else.
LEMMA GoneAgreed ==
    ASSUME NEW p \in Procs, Ready(p), Gone(p), Recorded' = Recorded,
           UNCHANGED <<energyFile, cellsFile, acked>>, NothingElseRefused',
           faults' # 0 \/ (faults' = faults /\ ended' = ended /\ pc[p] \notin Logged)
    PROVE  Agreed'
<1>1. pc'[p] = "out" /\ mem'[p] = NoWorld
  BY DEF Gone, Goto, Remember, Ready, Types, ProcsTyped
<1>2. MemoryFits(p)' /\ OwnIndexed(p)'
  BY <1>1 DEF MemoryFits, OwnIndexed, Rested, Saving, Initing
<1>3. CachesUpToDate'
  BY SameCaches DEF Ready
<1> QED
  BY <1>1, <1>2, <1>3, QuietAgreed

\* A step that moves a process on, its memory still fitting the log.
LEMMA MovedAgreed ==
    ASSUME NEW p \in Procs, Ready(p), MemoryFits(p)', OwnIndexed(p)',
           UNCHANGED <<log, ended, energyFile, cellsFile, acked, refusal, faults>>,
           pc[p] \in Logged => pc'[p] \in Logged
    PROVE  Agreed'
<1>1. Recorded' = Recorded
  BY DEF Recorded
<1>2. CachesUpToDate' /\ NothingElseRefused'
  BY <1>1, SameCaches DEF Ready, Agreed, NothingElseRefused
<1> QED
  BY <1>1, <1>2, QuietAgreed

\* What p holds, spelled out.
LEMMA Fits ==
    ASSUME NEW p \in Procs, Ready(p)
    PROVE  /\ MemoryFits(p) /\ (faults = 0 => OwnIndexed(p) /\ FileIndexed /\ ended)
           /\ pc[p] \in PCs /\ mem[p] \in WorldType /\ call[p] \in CallType
           /\ pc \in [Procs -> PCs] /\ mem \in [Procs -> WorldType]
           /\ call \in [Procs -> CallType]
  BY DEF Ready, Agreed, IndexComplete, Types, ProcsTyped

\* The steps that only move a process on.
LEMMA PlainAgreed ==
    ASSUME NEW p \in Procs, Ready(p),
           InitMkdir(p) \/ InitHeader(p) \/ LoadBegin(p) \/ Stage(p)
    PROVE  Agreed'
<1>1. /\ UNCHANGED <<log, ended, energyFile, cellsFile, acked, refusal, faults, mem>>
      /\ pc'[p] # "out"
      /\ \/ pc[p] = "out" /\ pc'[p] = "initLock" /\ ~made
         \/ pc[p] = "initHeader" /\ pc'[p] = "initAppend" /\ call' = call
         \/ pc'[p] = "loadEvents"
         \/ pc[p] = "stage" /\ pc'[p] = "append" /\ call'[p].mj = call[p].mj
  BY Fits DEF InitMkdir, InitHeader, LoadBegin, Stage, Goto, CallType, disk, MayOpen
<1>2. /\ Recorded' = Recorded /\ Replayed' = Replayed /\ Newest' = Newest
      /\ (~made => log = <<>>)
  BY <1>1 DEF Recorded, Replayed, Newest, Ready, Safe, NotMade
<1>3. pc[p] \notin Logged
  BY <1>1, Fits DEF LoadBegin, MayOpen, InitMkdir, InitHeader, Stage, Logged
<1>4. MemoryFits(p)'
  <2>1. CASE pc[p] = "out" /\ pc'[p] = "initLock" /\ ~made
    BY <1>1, <1>2, <2>1, Fits DEF MemoryFits, Rested, Saving, Initing
  <2>2. CASE pc[p] = "initHeader" /\ pc'[p] = "initAppend" /\ call' = call
    BY <1>1, <1>2, <2>2, Fits DEF MemoryFits, Rested, Saving, Initing
  <2>3. CASE pc'[p] = "loadEvents"
    BY <1>1, <1>2, <2>3, Fits DEF MemoryFits, Rested, Saving, Initing
  <2>4. CASE pc[p] = "stage" /\ pc'[p] = "append" /\ call'[p].mj = call[p].mj
    BY <1>1, <1>2, <2>4, Fits DEF MemoryFits, Rested, Saving, Initing
  <2> QED
    BY <1>1, <2>1, <2>2, <2>3, <2>4
<1>5. CASE faults # 0
  <2>1. CachesUpToDate' /\ NothingElseRefused'
    BY <1>1, <1>2, SameCaches DEF Ready, Agreed, NothingElseRefused
  <2> QED
    BY <1>1, <1>2, <1>4, <1>5, <2>1, QuietAgreed
<1>6. CASE faults = 0
  <2>1. OwnIndexed(p)'
    BY <1>1, <1>2, <1>6, Fits DEF OwnIndexed, Rested, Saving, Indexed
  <2> QED
    BY <1>1, <1>3, <1>4, <2>1, MovedAgreed
<1> QED
  BY <1>5, <1>6

\* World.init under its lock starts from an empty World; refused, it is gone.
LEMMA InitLockAgreed ==
    ASSUME NEW p \in Procs, Ready(p), InitLock(p)
    PROVE  Agreed'
<1>1. /\ pc[p] = "initLock" /\ pc[p] \notin Logged
      /\ UNCHANGED <<log, ended, energyFile, cellsFile, acked, faults>>
  BY DEF InitLock, disk, Logged
<1>2. Recorded' = Recorded
  BY <1>1 DEF Recorded
<1>3. CASE lock = Nobody
  <2>1. /\ pc'[p] = "initHeader" /\ mem' = mem /\ refusal' = refusal
        /\ call'[p] = InitCall
    BY <1>3, Fits DEF InitLock, Goto
  <2>2. call'[p].mj = 0
    BY <2>1 DEF InitCall, CallOf
  <2>3. MemoryFits(p)' /\ OwnIndexed(p)'
    BY <1>1, <2>1, <2>2, Fits DEF MemoryFits, OwnIndexed, Rested, Saving, Initing
  <2> QED
    BY <1>1, <2>1, <2>3, MovedAgreed
<1>4. CASE lock # Nobody
  <2>1. Gone(p) /\ NothingElseRefused'
    BY <1>4 DEF InitLock, RefuseOpen, NothingElseRefused
  <2> QED
    BY <1>1, <1>2, <2>1, GoneAgreed
<1> QED
  BY <1>3, <1>4

\* A call that begins can be paid from what memory says, which is the log's.
LEMMA BeginAgreed ==
    ASSUME NEW p \in Procs, Ready(p), NEW c, Begin(p, c)
    PROVE  Agreed'
<1>1. /\ pc[p] = "idle" /\ pc'[p] \in {"stage", "append"} /\ pc[p] \notin Logged
      /\ call'[p] = c /\ CanPay(mem[p].acct, c.mj)
      /\ UNCHANGED <<log, ended, energyFile, cellsFile, acked, faults, refusal, mem>>
  BY Fits DEF Begin, Goto, disk, Logged
<1>2. Recorded' = Recorded /\ Replayed' = Replayed /\ Newest' = Newest
  BY <1>1 DEF Recorded, Replayed, Newest
<1>3. MemoryFits(p)'
  BY <1>1, <1>2, Fits DEF MemoryFits, Rested, Saving, Initing
<1>4. CASE faults # 0
  <2>1. CachesUpToDate' /\ NothingElseRefused'
    BY <1>1, <1>2, SameCaches DEF Ready, Agreed, NothingElseRefused
  <2> QED
    BY <1>1, <1>2, <1>3, <1>4, <2>1, QuietAgreed
<1>5. CASE faults = 0
  <2>1. OwnIndexed(p)'
    BY <1>1, <1>2, <1>5, Fits DEF OwnIndexed, Rested, Saving, Indexed
  <2> QED
    BY <1>1, <1>3, <2>1, MovedAgreed
<1> QED
  BY <1>4, <1>5

\* recover_writes touches neither log nor caches.
LEMMA RecoveringAgreed ==
    ASSUME NEW p \in Procs, Ready(p), Safe',
           (\E i \in todo[p] : RecoverAct(p, i)) \/ Sweep(p)
    PROVE  Agreed'
<1>1. /\ pc[p] = "recover" /\ pc[p] \notin Logged
      /\ UNCHANGED <<log, ended, energyFile, cellsFile, acked, faults>>
  BY DEF RecoverAct, Sweep, Logged
<1>2. Recorded' = Recorded
  BY <1>1 DEF Recorded
<1>3. CASE pc'[p] \in {"recover", "sweep"} /\ refusal' = refusal
  <2>1. MemoryFits(p)' /\ OwnIndexed(p)'
    BY <1>3 DEF MemoryFits, OwnIndexed, Rested, Saving, Initing
  <2> QED
    BY <1>1, <1>3, <2>1, MovedAgreed
<1>4. CASE Gone(p) /\ refusal' = "DirtySpace"
  <2>1. NothingElseRefused'
    BY <1>4 DEF NothingElseRefused
  <2> QED
    BY <1>1, <1>2, <1>4, <2>1, GoneAgreed
<1>5. \/ pc'[p] \in {"recover", "sweep"} /\ refusal' = refusal
      \/ Gone(p) /\ refusal' = "DirtySpace"
  <2>1. CASE \E i \in todo[p] : RecoverAct(p, i)
    BY <1>1, <2>1 DEF RecoverAct
  <2>2. CASE Sweep(p)
    BY <2>2, Fits DEF Sweep, RefuseOpen, Goto
  <2> QED
    BY <2>1, <2>2
<1> QED
  BY <1>3, <1>4, <1>5

\* The account a replay gives passes every check of the kernel.
LEMMA ReplayHolds ==
    ASSUME Types, OneChain
    PROVE  /\ Replayed = [cap |-> Cap, spent |-> Spent(Recorded),
                          remaining |-> Cap - Spent(Recorded)]
           /\ Replayed \in AccountType /\ Replayed # Nothing
           /\ Spent(Recorded) \in Nat /\ Spent(Recorded) <= Cap
           /\ InvariantsHold(Recorded, Replayed, Addrs)
<1>1. /\ Replayed = [cap |-> Cap, spent |-> Spent(Recorded),
                     remaining |-> Cap - Spent(Recorded)]
      /\ Replayed \in AccountType
      /\ Spent(Recorded) \in Nat
  BY RecordedTyped, ReplayTyped, SpentNatural DEF Replayed, OneChain
<1>2. Replayed # Nothing
  BY <1>1, StoreAssumption
<1>3. Spent(Recorded) <= Cap /\ Cap \in Nat
  BY StoreAssumption DEF OneChain, Replayable
<1>4. AccountHolds(Recorded, Replayed)
  BY <1>1, <1>3 DEF AccountHolds, NonNegative, Conserved, Replays
<1> QED
  BY <1>1, <1>2, <1>3, <1>4 DEF OneChain, InvariantsHold

\* energy.json becomes what a replay of the log gives.
LEMMA SaveEnergyAgreed ==
    ASSUME NEW p \in Procs, Ready(p), SaveEnergy(p)
    PROVE  Agreed'
<1>1. /\ pc[p] \in {"saveEnergy", "initEnergy"} /\ energyFile' = mem[p].acct
      /\ pc'[p] = (IF pc[p] = "initEnergy" THEN "initCells" ELSE "saveCells")
      /\ UNCHANGED <<log, ended, cellsFile, acked, refusal, faults, mem, call>>
  BY Fits DEF SaveEnergy, Goto
<1>2. Recorded' = Recorded /\ Replayed' = Replayed /\ Newest' = Newest
  BY <1>1 DEF Recorded, Replayed, Newest
<1>3. energyFile' = Replayed
  BY <1>1, Fits DEF MemoryFits, Rested, Saving
<1>4. MemoryFits(p)'
  BY <1>1, <1>2, <1>3, Fits DEF MemoryFits, Rested, Saving, Initing
<1>5. CachesUpToDate' /\ NothingElseRefused'
  BY <1>1, <1>2, <1>3 DEF Ready, Agreed, CachesUpToDate, NothingElseRefused
<1>6. pc'[p] \in Logged
  BY <1>1 DEF Logged
<1>7. CASE faults # 0
  BY <1>1, <1>2, <1>4, <1>5, <1>7, QuietAgreed
<1>8. CASE faults = 0
  <2>1. OwnIndexed(p)'
    BY <1>1, <1>2, <1>8, Fits DEF OwnIndexed, Rested, Saving, Indexed
  <2> QED
    BY <1>1, <1>2, <1>4, <1>5, <1>6, <2>1, QuietAgreed
<1> QED
  BY <1>7, <1>8

\* _assert_invariants is silent, and the caches are up to the Receipt.
LEMMA SaveCellsAgreed ==
    ASSUME NEW p \in Procs, Ready(p), SaveCells(p)
    PROVE  Agreed'
<1>1. /\ pc[p] \in {"saveCells", "initCells"} /\ cellsFile' = mem[p].cells
      /\ UNCHANGED <<log, ended, energyFile, faults>>
  BY DEF SaveCells
<1>2. Recorded' = Recorded /\ Replayed' = Replayed /\ Newest' = Newest
  BY <1>1 DEF Recorded, Replayed, Newest
<1>3. /\ mem[p].events = Recorded /\ mem[p].acct = Replayed /\ Recorded # <<>>
      /\ energyFile = Replayed
      /\ Newest.digest # Nothing => mem[p].cells[Newest.addr] = Newest.digest
  BY <1>1, Fits DEF MemoryFits, Rested, Saving
<1>4. InvariantsHold(mem[p].events, mem[p].acct, Addrs) /\ energyFile # Nothing
  BY <1>3, ReplayHolds DEF Ready, Agreed
<1>5. /\ pc'[p] = "idle" /\ mem' = mem /\ refusal' = refusal
      /\ acked' = acked \cup {call[p].id}
  BY <1>4, Fits DEF SaveCells, Raised, Goto
<1>6. MemoryFits(p)'
  BY <1>1, <1>2, <1>3, <1>5 DEF MemoryFits, Rested, Saving, Initing
<1>7. cellsFile' # Nothing
  BY <1>1, Fits, StoreAssumption DEF WorldType
<1>8. CachesUpToDate' /\ NothingElseRefused'
  BY <1>1, <1>2, <1>3, <1>5, <1>7
     DEF Ready, Agreed, CachesUpToDate, NothingElseRefused
<1>9. CASE faults # 0
  BY <1>1, <1>2, <1>6, <1>8, <1>9, QuietAgreed
<1>10. CASE faults = 0
  <2>1. Indexed(mem[p].cells)
    BY <1>1, <1>10, Fits DEF OwnIndexed, Rested, Saving
  <2>2. Indexed(cellsFile')
    BY <1>1, <2>1
  <2>3. OwnIndexed(p)'
    BY <1>2, <1>5, <2>1 DEF OwnIndexed, Indexed
  <2> QED
    BY <1>1, <1>2, <1>4, <1>6, <1>7, <1>8, <2>2, <2>3, QuietAgreed
<1> QED
  BY <1>9, <1>10

\* The Act is debited and indexed in the same step.
LEMMA ReplaceAgreed ==
    ASSUME NEW p \in Procs, Ready(p), Replace(p)
    PROVE  Agreed'
<1> DEFINE c == call[p]
           w == mem[p]
<1>1. /\ pc[p] = "replace" /\ pc'[p] = "saveEnergy"
      /\ mem'[p] = [w EXCEPT !.acct = Debit(@, c.mj), !.cells[c.addr] = c.data]
      /\ UNCHANGED <<log, ended, energyFile, cellsFile, acked, refusal, faults, call>>
  BY Fits DEF Replace, Goto, Remember
<1>2. Recorded' = Recorded /\ Replayed' = Replayed /\ Newest' = Newest
  BY <1>1 DEF Recorded, Replayed, Newest
<1>3. w \in WorldType /\ c.addr \in Addrs /\ c.op = "act"
  BY <1>1, Fits DEF Ready, Types, CallsFit, CallFits, Seen
<1>4. /\ mem'[p].events = w.events /\ mem'[p].acct = Debit(w.acct, c.mj)
      /\ mem'[p].cells = [w.cells EXCEPT ![c.addr] = c.data]
  <2> DEFINE w1 == [w EXCEPT !.acct = Debit(@, c.mj)]
  <2>1. mem'[p] = [w1 EXCEPT !.cells[c.addr] = c.data]
    BY <1>1
  <2>2. w1 = [events |-> w.events, acct |-> Debit(w.acct, c.mj), cells |-> w.cells]
    BY <1>3 DEF WorldType
  <2> HIDE DEF w1
  <2> QED
    BY <2>1, <2>2
<1>5. w.cells \in IndexType
  BY <1>3 DEF WorldType
<1>6. Recorded # <<>> /\ w.events = Recorded /\ Debit(w.acct, c.mj) = Replayed
  BY <1>1, Fits DEF MemoryFits, Rested
<1>7. Newest.op = "act" /\ Newest.addr = c.addr /\ Newest.digest = c.data
  BY <1>1, <1>3 DEF Ready, Safe, CallsLogged, CallLogged, Logged
<1>8. MemoryFits(p)'
  BY <1>1, <1>2, <1>4, <1>5, <1>6, <1>7, <1>3
     DEF MemoryFits, Rested, Saving, Initing, IndexType
<1>9. CachesUpToDate' /\ NothingElseRefused'
  BY <1>1, <1>2, SameCaches DEF Ready, Agreed, NothingElseRefused
<1>10. pc'[p] \in Logged
  BY <1>1 DEF Logged
<1>11. CASE faults # 0
  BY <1>1, <1>2, <1>8, <1>9, <1>11, QuietAgreed
<1>12. CASE faults = 0
  <2>1. Indexed(mem'[p].cells)
    BY <1>1, <1>4, <1>12, Fits DEF OwnIndexed
  <2>2. OwnIndexed(p)'
    BY <1>1, <1>2, <2>1 DEF OwnIndexed, Indexed
  <2> QED
    BY <1>1, <1>2, <1>8, <1>9, <1>10, <2>2, QuietAgreed
<1> QED
  BY <1>11, <1>12

\* load_events reads the events the repair leaves as they are.
LEMMA LoadEventsAgreed ==
    ASSUME NEW p \in Procs, Ready(p), Types', NEW truncate \in BOOLEAN,
           LoadEvents(p, truncate)
    PROVE  Agreed'
<1>1. /\ Recorded' = Recorded
      /\ \/ Gone(p) /\ UNCHANGED <<log, ended>>
         \/ /\ pc'[p] = "recover" /\ ended' = (ended \/ truncate)
            /\ UNCHANGED <<mem, call, refusal>>
  BY LoadEventsTyped DEF Ready
<1>2. /\ pc[p] = "loadEvents" /\ pc[p] \notin Logged
      /\ UNCHANGED <<energyFile, cellsFile, acked, faults>>
  BY DEF LoadEvents, Logged
<1>3. CASE Gone(p) /\ UNCHANGED <<log, ended>>
  <2>1. refusal' \in {refusal, "corrupt log", "TruncatedLog", "ValueError"}
    BY DEF LoadEvents, RefuseOpen
  <2>2. NothingElseRefused'
    BY <2>1 DEF Ready, Agreed, NothingElseRefused
  <2> QED
    BY <1>1, <1>2, <1>3, <2>2, GoneAgreed
<1>4. CASE /\ pc'[p] = "recover" /\ ended' = (ended \/ truncate)
           /\ UNCHANGED <<mem, call, refusal>>
  <2>1. MemoryFits(p)' /\ OwnIndexed(p)'
    BY <1>4 DEF MemoryFits, OwnIndexed, Rested, Saving, Initing
  <2>2. CachesUpToDate' /\ NothingElseRefused'
    BY <1>1, <1>2, <1>4, SameCaches DEF Ready, Agreed, NothingElseRefused
  <2>3. ended => ended'
    BY <1>4
  <2> QED
    BY <1>1, <1>2, <2>1, <2>2, <2>3, QuietAgreed
<1> QED
  BY <1>1, <1>3, <1>4

\* World.load refuses nothing but an unfinished init by then.
LEMMA LoadWorldAgreed ==
    ASSUME NEW p \in Procs, Ready(p), LoadWorld(p)
    PROVE  Agreed'
<1>1. /\ pc[p] = "sweep" /\ pc[p] \notin Logged
      /\ UNCHANGED <<log, ended, energyFile, cellsFile, acked, faults>>
  BY DEF LoadWorld, disk, Logged
<1>2. Recorded' = Recorded /\ Replayed' = Replayed /\ Newest' = Newest
  BY <1>1 DEF Recorded, Replayed, Newest
<1>3. Replayable(Recorded, Cap) /\ InvariantsHold(Recorded, Loaded(Recorded).acct, Addrs)
  BY ReplayHolds DEF Ready, Agreed, OneChain, Loaded, Replayed
<1>4. CASE Recorded = <<>> \/ ~header
  <2>1. Gone(p) /\ refusal' = "FileNotFoundError"
    BY <1>4 DEF LoadWorld, RefuseOpen, Recorded
  <2>2. NothingElseRefused'
    BY <2>1 DEF NothingElseRefused
  <2> QED
    BY <1>1, <1>2, <2>1, <2>2, GoneAgreed
<1>5. CASE ~(Recorded = <<>> \/ ~header)
  <2>1. pc' = [pc EXCEPT ![p] = "idle"] /\ mem' = [mem EXCEPT ![p] = Loaded(Recorded)]
        /\ refusal' = refusal
    BY <1>3, <1>5 DEF LoadWorld, Goto, Remember, Recorded
  <2>2. /\ pc'[p] = "idle" /\ mem'[p].events = Recorded /\ mem'[p].acct = Replayed
        /\ mem'[p].cells = CachedCells
    BY <2>1, Fits DEF Loaded, Replayed
  <2>3. MemoryFits(p)'
    BY <1>2, <1>5, <2>2 DEF MemoryFits, Rested, Saving, Initing
  <2>4. CachesUpToDate' /\ NothingElseRefused'
    BY <1>1, <1>2, <2>1, SameCaches DEF Ready, Agreed, NothingElseRefused
  <2>5. CASE faults # 0
    BY <1>1, <1>2, <2>3, <2>4, <2>5, QuietAgreed
  <2>6. CASE faults = 0
    <3>1. \A q \in Procs : pc[q] \notin Logged
      BY <1>1 DEF Ready, Solo, Logged
    <3>2. energyFile # Nothing /\ cellsFile # Nothing /\ Indexed(cellsFile)
      BY <1>5, <2>6, <3>1, Fits DEF FileIndexed
    <3>3. OwnIndexed(p)'
      BY <1>2, <2>2, <3>2 DEF OwnIndexed, CachedCells, Indexed
    <3> QED
      BY <1>1, <1>2, <2>3, <2>4, <3>3, QuietAgreed
  <2> QED
    BY <2>5, <2>6
<1> QED
  BY <1>4, <1>5

\* A process that leaves between calls leaves complete caches.
LEMMA ExitAgreed ==
    ASSUME NEW p \in Procs, Ready(p), Exit(p)
    PROVE  Agreed'
<1>1. /\ pc[p] \notin Logged /\ Gone(p) /\ Recorded' = Recorded
      /\ UNCHANGED <<ended, energyFile, cellsFile, acked, faults, refusal>>
  BY DEF Exit, disk, Logged, Recorded
<1>2. NothingElseRefused'
  BY <1>1 DEF Ready, Agreed, NothingElseRefused
<1> QED
  BY <1>1, <1>2, GoneAgreed

\* A log without lines has no events.
LEMMA EmptyLog ==
    ASSUME log = <<>>, Types
    PROVE  Recorded = <<>> /\ Spent(Recorded) = 0
<1>1. Len(log) = 0
  OBVIOUS
<1>2. AllLinesParse(log)
  BY <1>1 DEF AllLinesParse
<1>3. Len(Recorded) = 0 /\ Recorded \in Seq(Stored)
  BY <1>1, <1>2, EventsClean, RecordedTyped DEF Types, DiskTyped, Recorded
<1>4. Recorded = <<>>
  BY <1>3, EmptySeq
<1>5. SpentUpTo(Recorded)[0] = 0
  BY <1>3, SpentUpToUnfolds
<1> QED
  BY <1>3, <1>4, <1>5 DEF Spent

\* Whoever is about to append holds the log and what it leaves to spend.
LEMMA AtAppend ==
    ASSUME NEW p \in Procs, Ready(p), pc[p] \in {"append", "initAppend"}
    PROVE  /\ mem[p].events = Recorded /\ mem[p].acct = Replayed
           /\ call[p].mj \in Nat /\ Spent(Recorded) + call[p].mj <= Cap
           /\ Recorded = <<>> => call[p].mj = 0
           /\ pc[p] = "append" <=> Recorded # <<>>
<1>1. call[p].mj \in Nat /\ Cap \in Nat
  BY Fits, StoreAssumption DEF CallType
<1>2. CASE pc[p] = "append"
  <2>1. /\ mem[p].events = Recorded /\ mem[p].acct = Replayed /\ Recorded # <<>>
        /\ CanPay(mem[p].acct, call[p].mj)
    BY <1>2, Fits DEF MemoryFits, Rested
  <2>2. call[p].mj <= Cap - Spent(Recorded) /\ Spent(Recorded) \in Nat
    BY <2>1, ReplayHolds DEF CanPay, Ready, Agreed
  <2> QED
    BY <1>1, <1>2, <2>1, <2>2
<1>3. CASE pc[p] = "initAppend"
  <2>1. log = <<>> /\ mem[p] = NoWorld /\ call[p].mj = 0
    BY <1>3, Fits DEF MemoryFits, Initing
  <2>2. Recorded = <<>> /\ Spent(Recorded) = 0
    BY <2>1, EmptyLog DEF Ready
  <2>3. Replayed = [cap |-> Cap, spent |-> 0, remaining |-> Cap]
    BY <1>1, <2>2, ReplayHolds DEF Ready, Agreed
  <2> QED
    BY <1>1, <1>3, <2>1, <2>2, <2>3 DEF NoWorld, FreshAccount
<1> QED
  BY <1>2, <1>3

\* The log with the event p appends: one chain, within the cap, and not yet
\* acknowledged.
LEMMA GrewAgreed ==
    ASSUME NEW p \in Procs, Ready(p), Types', pc[p] \in {"append", "initAppend"},
           Recorded' = Append(Recorded, Pending(p)), acked' = acked
    PROVE  /\ OneChain' /\ CachesUpToDate'
           /\ Replayed' = Debit(Replayed, call[p].mj)
           /\ Newest' = Pending(p) /\ Recorded' # <<>>
           /\ Spent(Recorded') = Spent(Recorded) + call[p].mj
<1> DEFINE e == Pending(p)
           n == Len(Recorded)
           mj == call[p].mj
<1>1. /\ e \in Stored /\ e.op = call[p].op /\ e.delta = -mj /\ e.seq = n + 1
      /\ e.parent = (IF Recorded = <<>> THEN NoId ELSE Recorded[n].id)
  BY AtAppend, PendingStored DEF Ready
<1>2. ~HasId(Recorded, e.id)
  BY PendingIsNew DEF Ready
<1>3. Recorded \in Seq(Stored) /\ n \in Nat
  BY RecordedTyped DEF Ready
<1>4. mj \in Nat /\ Spent(Recorded) + mj <= Cap /\ Spent(Recorded) \in Nat /\ Cap \in Nat
  BY AtAppend, ReplayHolds, StoreAssumption DEF Ready, Agreed
<1> HIDE DEF e
<1>6. Len(Recorded') = n + 1 /\ Recorded'[n + 1] = e /\ Recorded' \in Seq(Stored)
  BY <1>1, <1>3, GrownKept DEF e
<1>7. Newest' = e /\ Recorded' # <<>>
  <2>1. Recorded' # <<>>
    BY <1>3, <1>6
  <2> QED
    BY <1>6, <2>1 DEF Newest
<1>8. Spent(Recorded') = Spent(Recorded) + mj
  <2>1. SpendFrom(e) = mj
    BY <1>1, <1>4 DEF SpendFrom
  <2> QED
    BY <1>1, <1>3, <2>1, SpentAppend DEF e
<1>9. LogHolds(Recorded', Addrs)
  BY <1>1, <1>2, <1>3, ChainGrows DEF Ready, Agreed, OneChain, e
<1>10. OneChain'
  BY <1>4, <1>8, <1>9 DEF OneChain, Replayable
<1>11. CachesUpToDate'
  <2> SUFFICES ASSUME e.id \in acked PROVE FALSE
    BY <1>7 DEF CachesUpToDate
  <2>1. HasId(Recorded, e.id)
    BY DEF Ready, Safe, AckedDurable, HasId
  <2> QED
    BY <1>2, <2>1
<1>12. Replayed' = Debit(Replayed, mj)
  <2>1. Replayed = [cap |-> Cap, spent |-> Spent(Recorded),
                    remaining |-> Cap - Spent(Recorded)]
        /\ Replayed \in AccountType
    BY ReplayHolds DEF Ready, Agreed
  <2>2. Debit(Replayed, mj) = [cap |-> Cap, spent |-> Replayed.spent + mj,
                               remaining |-> Replayed.remaining - mj]
    BY <1>4, <2>1, DebitTyped
  <2>3. Replayed' = [cap |-> Cap, spent |-> Spent(Recorded'),
                     remaining |-> Cap - Spent(Recorded')]
    BY <1>6, <1>10, ReplayTyped DEF Replayed, OneChain
  <2> QED
    BY <1>4, <1>8, <2>1, <2>2, <2>3
<1> QED
  BY <1>7, <1>8, <1>10, <1>11, <1>12 DEF e

\* An index that was complete lacks at most the digest just recorded.
LEMMA IndexGrows ==
    ASSUME NEW p \in Procs, Ready(p), faults = 0, pc[p] \in {"append", "initAppend"},
           Recorded' = Append(Recorded, Pending(p)), NEW cells \in IndexType,
           IF call[p].op \in Seen
           THEN cells = [mem[p].cells EXCEPT ![call[p].addr] = call[p].data]
           ELSE cells = mem[p].cells
    PROVE  Indexed(cells)'
<1> DEFINE e == Pending(p)
<1>1. /\ e \in Stored /\ e.op = call[p].op /\ e.addr = call[p].addr
      /\ e.digest = call[p].data /\ Recorded \in Seq(Stored)
      /\ mem[p].cells \in IndexType
  BY PendingStored, RecordedTyped, Fits DEF Ready, WorldType
<1> SUFFICES ASSUME NEW a \in Addrs, NEW d \in Contents,
                    LastRecorded(Recorded', a, d)
             PROVE  cells[a] = d
  BY DEF Indexed
<1> HIDE DEF e
<1>2. CASE Records(e, a) /\ e.digest = d
  BY <1>1, <1>2 DEF Records, Stored, IndexType
<1>3. CASE ~Records(e, a) /\ LastRecorded(Recorded, a, d)
  <2>1. pc[p] = "append"
    BY <1>3, AtAppend DEF LastRecorded
  <2>2. mem[p].cells[a] = d
    BY <1>3, <2>1, Fits DEF OwnIndexed, Rested, Indexed
  <2>3. call[p].op \in Seen => call[p].addr # a
    BY <1>1, <1>3, ContentsAssumption DEF Records, Stored
  <2> QED
    BY <1>1, <2>2, <2>3 DEF IndexType
<1> QED
  BY <1>1, <1>2, <1>3, RecordedLast DEF e

\* store.append and World._events.append: the event on the log is the one in
\* memory; the debit of an Act is still to come.
LEMMA AppendEventAgreed ==
    ASSUME NEW p \in Procs, Ready(p), Types', AppendEvent(p)
    PROVE  Agreed'
<1> DEFINE e == Pending(p)
           c == call[p]
           w == mem[p]
<1>1. /\ pc[p] \in {"append", "initAppend"} /\ ended' = TRUE
      /\ call'[p] = [c EXCEPT !.id = e.id]
      /\ mem'[p] = [w EXCEPT !.events = Append(@, e),
                             !.acct = IF c.op = "act" THEN @ ELSE Debit(@, c.mj),
                             !.cells = IF c.op = "observe"
                                       THEN [@ EXCEPT ![c.addr] = c.data] ELSE @]
      /\ pc'[p] = (IF pc[p] = "initAppend" THEN "initEnergy"
                   ELSE IF c.op = "act" THEN "replace" ELSE "saveEnergy")
      /\ UNCHANGED <<energyFile, cellsFile, acked, faults, refusal>>
  BY Fits DEF AppendEvent, LogAfter, Goto, Remember
<1>2. Recorded' = Append(Recorded, e)
  BY AppendEventSafe DEF Ready
<1>3. /\ w.events = Recorded /\ w.acct = Replayed
      /\ pc[p] = "append" <=> Recorded # <<>>
      /\ Recorded = <<>> => c.mj = 0
  BY <1>1, AtAppend
<1>4. /\ OneChain' /\ CachesUpToDate' /\ Replayed' = Debit(Replayed, c.mj)
      /\ Newest' = e /\ Recorded' # <<>>
  BY <1>1, <1>2, GrewAgreed
<1>5. /\ e.op = c.op /\ e.addr = c.addr /\ e.digest = c.data /\ e \in Stored
      /\ pc[p] = "initAppend" => c.op = "init"
  BY <1>1, PendingStored DEF Ready, Types, CallsFit, CallFits, Initing
<1> HIDE DEF e
<1>6. c \in CallType /\ w \in WorldType
  BY Fits
<1>7. call'[p].mj = c.mj /\ call'[p].op = c.op /\ call'[p].addr = c.addr
      /\ call'[p].data = c.data
  BY <1>1, <1>6 DEF CallType
<1>8. /\ mem'[p].events = Recorded'
      /\ mem'[p].acct = IF c.op = "act" THEN w.acct ELSE Debit(w.acct, c.mj)
      /\ mem'[p].cells = IF c.op = "observe" THEN [w.cells EXCEPT ![c.addr] = c.data]
                         ELSE w.cells
  <2> DEFINE acct == IF c.op = "act" THEN w.acct ELSE Debit(w.acct, c.mj)
             w1 == [w EXCEPT !.events = Append(@, e)]
             w2 == [w1 EXCEPT !.acct = IF c.op = "act" THEN @ ELSE Debit(@, c.mj)]
  <2> HIDE DEF w, c
  <2>1. w1 = [events |-> Append(w.events, e), acct |-> w.acct, cells |-> w.cells]
    BY <1>6 DEF WorldType
  <2> HIDE DEF w1
  <2>2. w2 = [events |-> Append(w.events, e), acct |-> acct, cells |-> w.cells]
    <3>1. (IF c.op = "act" THEN w1.acct ELSE Debit(w1.acct, c.mj)) = acct
      BY <2>1
    <3>2. w2 = [w1 EXCEPT !.acct = acct]
      BY <3>1
    <3> HIDE DEF acct, w2
    <3> QED
      BY <2>1, <3>2
  <2>3. mem'[p] = [w2 EXCEPT !.cells = IF c.op = "observe"
                                       THEN [@ EXCEPT ![c.addr] = c.data] ELSE @]
    BY <1>1 DEF w1
  <2> HIDE DEF w2
  <2> QED
    BY <1>2, <1>3, <2>2, <2>3
<1>9. MemoryFits(p)'
  <2>1. CASE pc'[p] = "replace" /\ c.op = "act"
    BY <1>3, <1>4, <1>7, <1>8, <2>1 DEF MemoryFits, Rested, Saving, Initing
  <2>2. CASE pc'[p] \in {"saveEnergy", "initEnergy"} /\ c.op # "act"
    <3>1. pc'[p] = "initEnergy" => c.mj = 0
      BY <1>1, <1>3
    <3>2. mem'[p].acct = Replayed'
      BY <1>3, <1>4, <1>8, <2>2
    <3>3. Newest'.digest # Nothing => mem'[p].cells[Newest'.addr] = Newest'.digest
      BY <1>4, <1>5, <1>6, <1>8, <2>2 DEF Stored, Seen, WorldType, IndexType
    <3> QED
      BY <1>4, <1>7, <1>8, <2>2, <3>1, <3>2, <3>3
         DEF MemoryFits, Rested, Saving, Initing
  <2> QED
    BY <1>1, <1>5, <2>1, <2>2
<1>10. NothingElseRefused'
  BY <1>1 DEF Ready, Agreed, NothingElseRefused
<1>11. ASSUME faults' = 0
       PROVE  ended' /\ FileIndexed' /\ OwnIndexed(p)'
  <2>1. pc'[p] \in Logged
    BY <1>1 DEF Logged
  <2>2. FileIndexed'
    BY <2>1 DEF FileIndexed
  <2>3. PICK cells \in IndexType :
           IF c.op \in Seen THEN cells = [w.cells EXCEPT ![c.addr] = c.data]
           ELSE cells = w.cells
    BY <1>5, <1>6 DEF Stored, WorldType, IndexType
  <2>4. Indexed(cells)'
    BY <1>1, <1>2, <1>11, <2>3, IndexGrows DEF e
  <2>5. OwnIndexed(p)'
    <3>1. CASE pc'[p] = "replace" /\ c.op = "act"
      <4>1. [mem'[p].cells EXCEPT ![call'[p].addr] = call'[p].data] = cells
        BY <1>7, <1>8, <2>3, <3>1 DEF Seen
      <4> QED
        BY <2>4, <3>1, <4>1 DEF OwnIndexed, Rested, Saving
    <3>2. CASE pc'[p] \in {"saveEnergy", "initEnergy"} /\ c.op # "act"
      <4>1. mem'[p].cells = cells
        BY <1>8, <2>3, <3>2 DEF Seen
      <4> QED
        BY <2>4, <3>2, <4>1 DEF OwnIndexed, Rested, Saving
    <3> QED
      BY <1>1, <1>5, <3>1, <3>2
  <2> QED
    BY <1>1, <2>2, <2>5
<1>12. \A q \in Procs : q # p => pc'[q] = "out" /\ mem'[q] = NoWorld
  BY DEF Ready, Solo
<1>13. Agreed
  BY DEF Ready
<1> QED
  BY <1>4, <1>9, <1>10, <1>11, <1>12, <1>13, AgreedStep

\* A crash leaves the log as it was, or with the event that was under way.
LEMMA FaultAgreed ==
    ASSUME NEW p \in Procs, Ready(p), Types', CrashesOnly, DiesAlone, Fault(p)
    PROVE  Agreed'
<1>1. PICK kind \in Faults :
        \/ Interrupt(p, kind)
        \/ \E data \in {Torn, call[p].data} : InterruptStage(p, kind, data)
        \/ \E tear \in Tears : InterruptAppend(p, kind, tear)
  BY DEF Fault
<1>2. /\ Gone(p) /\ faults' # 0 /\ UNCHANGED <<energyFile, cellsFile, acked, refusal>>
  <2>1. CutShort(p, kind) /\ UNCHANGED <<energyFile, cellsFile, acked, refusal>>
    BY <1>1 DEF Interrupt, InterruptStage, InterruptAppend, disk
  <2> QED
    BY <2>1, CutShortGone DEF CutShort, Ready, Types, ProcsTyped
<1>3. NothingElseRefused'
  BY <1>2 DEF Ready, Agreed, NothingElseRefused
<1>4. CASE Recorded' = Recorded
  BY <1>2, <1>3, <1>4, GoneAgreed
<1>5. CASE pc[p] \in {"append", "initAppend"} /\ Recorded' = Append(Recorded, Pending(p))
  <2>1. OneChain' /\ CachesUpToDate'
    BY <1>2, <1>5, GrewAgreed
  <2>2. pc'[p] = "out" /\ mem'[p] = NoWorld
    BY <1>2, Fits DEF Gone, Goto, Remember
  <2>3. MemoryFits(p)'
    BY <2>2 DEF MemoryFits, Rested, Saving, Initing
  <2>4. \A q \in Procs : q # p => pc'[q] = "out" /\ mem'[q] = NoWorld
    BY DEF Ready, Solo
  <2> QED
    BY <1>2, <1>3, <2>1, <2>3, <2>4, AgreedStep DEF Ready
<1>6. CASE \E tear \in Tears : InterruptAppend(p, kind, tear)
  <2>1. pc[p] \in {"append", "initAppend"}
    BY <1>6 DEF InterruptAppend
  <2> QED
    BY <1>4, <1>5, <1>6, <2>1, InterruptAppendSafe DEF Ready
<1>7. CASE Interrupt(p, kind) \/ \E data \in {Torn, call[p].data} : InterruptStage(p, kind, data)
  <2>1. log' = log
    BY <1>7 DEF Interrupt, InterruptStage, disk
  <2> QED
    BY <1>4, <2>1 DEF Recorded
<1> QED
  BY <1>1, <1>6, <1>7

\* The events of the log change in one way only.
LEMMA GrowsByPending ==
    ASSUME Types, Safe, CrashesOnly, DiesAlone, NEW p \in Procs, StepOf(p)
    PROVE  \/ Recorded' = Recorded
           \/ /\ pc[p] \in {"append", "initAppend"}
              /\ Recorded' = Append(Recorded, Pending(p))
<1>0. Types' /\ Moves(p)
  BY StepsTyped
<1>1. CASE UNCHANGED log
  BY <1>1 DEF Recorded
<1>2. CASE InitMkdir(p) \/ LoadBegin(p) \/ Exit(p)
  BY <1>1, <1>2 DEF InitMkdir, LoadBegin, Exit, disk
<1>3. CASE Calls(p)
  BY <1>1, <1>3, CallsTyped DEF Begin, disk
<1>4. CASE Step(p)
  <2>1. CASE InitLock(p) \/ InitHeader(p) \/ Stage(p)
    BY <1>1, <2>1 DEF InitLock, InitHeader, Stage, disk
  <2>2. CASE Replace(p) \/ SaveEnergy(p) \/ SaveCells(p)
    BY <1>1, <2>2 DEF Replace, SaveEnergy, SaveCells
  <2>3. CASE AppendEvent(p)
    <3>1. pc[p] \in {"append", "initAppend"}
      BY <2>3 DEF AppendEvent
    <3> QED
      BY <1>0, <2>3, <3>1, AppendEventSafe
  <2>4. CASE \E truncate \in BOOLEAN : LoadEvents(p, truncate)
    BY <2>4, LoadEventsTyped
  <2>5. CASE \E i \in todo[p] : RecoverAct(p, i)
    BY <1>1, <2>5 DEF RecoverAct
  <2>6. CASE Sweep(p) \/ LoadWorld(p)
    BY <1>1, <2>6 DEF Sweep, LoadWorld, disk
  <2> QED
    BY <1>4, <2>1, <2>2, <2>3, <2>4, <2>5, <2>6 DEF Step
<1>5. CASE Fault(p)
  <2>1. PICK kind \in Faults :
          \/ Interrupt(p, kind)
          \/ \E data \in {Torn, call[p].data} : InterruptStage(p, kind, data)
          \/ \E tear \in Tears : InterruptAppend(p, kind, tear)
    BY <1>5 DEF Fault
  <2>2. CASE \E tear \in Tears : InterruptAppend(p, kind, tear)
    <3>1. pc[p] \in {"append", "initAppend"}
      BY <2>2 DEF InterruptAppend
    <3> QED
      BY <1>0, <2>2, <3>1, InterruptAppendSafe
  <2>3. CASE \/ Interrupt(p, kind)
             \/ \E data \in {Torn, call[p].data} : InterruptStage(p, kind, data)
    BY <1>1, <2>3 DEF Interrupt, InterruptStage, disk
  <2> QED
    BY <2>1, <2>2, <2>3
<1> QED
  BY <1>2, <1>3, <1>4, <1>5 DEF StepOf

\* Every step of the one process in the world keeps log, memory and caches
\* agreed.
LEMMA StepsAgreed ==
    ASSUME Types, Safe, Single, Agreed, OneAtATime, CrashesOnly, OneSpelling,
           NEW p \in Procs, StepOf(p)
    PROVE  Agreed' /\ Ready(p)
<1>1. Types' /\ Moves(p) /\ DiesAlone
  BY StepsTyped, SingleStep
<1>2. Ready(p)
  BY <1>1, OthersOut DEF Ready
<1>3. Safe'
  BY <1>1, StepsSafe
<1>4. CASE InitMkdir(p) \/ LoadBegin(p) \/ Exit(p)
  BY <1>2, <1>4, PlainAgreed, ExitAgreed
<1>5. CASE Calls(p)
  <2>1. \E c : Begin(p, c)
    BY <1>5, CallsTyped
  <2> QED
    BY <1>2, <2>1, BeginAgreed
<1>6. CASE Step(p)
  <2>1. CASE InitLock(p) \/ InitHeader(p) \/ Stage(p)
    BY <1>2, <2>1, InitLockAgreed, PlainAgreed
  <2>2. CASE AppendEvent(p) \/ Replace(p) \/ SaveEnergy(p) \/ SaveCells(p)
    BY <1>1, <1>2, <2>2, AppendEventAgreed, ReplaceAgreed, SaveEnergyAgreed,
       SaveCellsAgreed
  <2>3. CASE \E truncate \in BOOLEAN : LoadEvents(p, truncate)
    BY <1>1, <1>2, <2>3, LoadEventsAgreed
  <2>4. CASE (\E i \in todo[p] : RecoverAct(p, i)) \/ Sweep(p)
    BY <1>2, <1>3, <2>4, RecoveringAgreed
  <2>5. CASE LoadWorld(p)
    BY <1>2, <2>5, LoadWorldAgreed
  <2> QED
    BY <1>6, <2>1, <2>2, <2>3, <2>4, <2>5 DEF Step
<1>7. CASE Fault(p)
  BY <1>1, <1>2, <1>7, FaultAgreed
<1> QED
  BY <1>2, <1>4, <1>5, <1>6, <1>7 DEF StepOf

\* They agree before World.init.
LEMMA InitAgreed ==
    ASSUME Init
    PROVE  Agreed
<1>1. Types
  BY InitTyped
<1>2. Recorded = <<>> /\ Spent(Recorded) = 0 /\ Len(Recorded) = 0
  BY <1>1, EmptyLog DEF Init
<1>3. LogHolds(Recorded, Addrs)
  BY <1>2 DEF LogHolds, UniqueIds, Sequential, Parented, Jailed
<1>4. OneChain
  BY <1>2, <1>3, StoreAssumption DEF OneChain, Replayable
<1>5. CachesUpToDate /\ NothingElseRefused
  BY <1>2 DEF CachesUpToDate, NothingElseRefused, Init
<1>6. \A p \in Procs : MemoryFits(p)
  BY DEF Init, MemoryFits, Rested, Saving, Initing
<1>7. IndexComplete
  BY <1>2 DEF Init, IndexComplete, FileIndexed, OwnIndexed, Rested, Saving
<1> QED
  BY <1>4, <1>5, <1>6, <1>7 DEF Agreed

\* Nothing changes if nothing changes.
LEMMA StutterAgreed ==
    ASSUME Agreed, UNCHANGED vars
    PROVE  Agreed'
<1> USE DEF vars, disk
<1>1. Recorded' = Recorded /\ Newest' = Newest /\ Replayed' = Replayed
  BY DEF Recorded, Newest, Replayed
<1>2. OneChain' /\ CachesUpToDate' /\ NothingElseRefused'
  BY <1>1 DEF Agreed, OneChain, CachesUpToDate, NothingElseRefused
<1>3. ASSUME NEW p \in Procs PROVE MemoryFits(p)'
  <2>1. MemoryFits(p)
    BY DEF Agreed
  <2> QED
    BY <1>1, <2>1 DEF MemoryFits
<1>4. IndexComplete'
  BY <1>1 DEF Agreed, IndexComplete, FileIndexed, OwnIndexed, Indexed
<1> QED
  BY <1>2, <1>3, <1>4 DEF Agreed

\* The inductive invariant of Spec.
Sound == Types /\ Single /\ Safe /\ Agreed

\* The inductive invariant holds at the start,
LEMMA InitSound ==
    ASSUME Init
    PROVE  Sound
  BY InitTyped, InitSafe, InitAgreed DEF Sound, Init, Single

\* every step keeps it,
LEMMA NextSound ==
    ASSUME Sound, [Next]_vars, OneAtATime, CrashesOnly, OneSpelling
    PROVE  Sound'
<1>1. Types' /\ Single' /\ Safe'
  BY NextTyped, NextSingle, NextSafe DEF Sound
<1>2. Agreed'
  <2>1. CASE Next
    <3>1. PICK p \in Procs : StepOf(p)
      BY <2>1 DEF Next, StepOf, Calls
    <3> QED
      BY <3>1, StepsAgreed DEF Sound
  <2>2. CASE UNCHANGED vars
    BY <2>2, StutterAgreed DEF Sound
  <2> QED
    BY <2>1, <2>2
<1> QED
  BY <1>1, <1>2 DEF Sound

\* and it is at least what the runs check.
LEMMA SoundSuffices ==
    ASSUME Sound
    PROVE  LogIsOneChain /\ MemoryIsLog /\ OnlyTornRefused /\ ReceiptsCached
<1> USE DEF Sound
<1>1. LogIsOneChain
  BY LogTells DEF Safe, Agreed, OneChain, LogIsOneChain
<1>2. MemoryIsLog
  BY DEF Agreed, MemoryFits, Rested, MemoryIsLog, Replayed
<1>3. OnlyTornRefused
  BY DEF Safe, Agreed, NothingDirty, NothingElseRefused, OnlyTornRefused
<1>4. ReceiptsCached
  <2>1. \A p \in Procs : pc[p] = "idle" /\ faults = 0 => Indexed(mem[p].cells)
    BY DEF Agreed, IndexComplete, OwnIndexed, Rested
  <2> QED
    BY <2>1 DEF Indexed, Agreed, CachesUpToDate, Newest, Replayed, ReceiptsCached
<1> QED
  BY <1>1, <1>2, <1>3, <1>4

\* With one process at a time and crashes anywhere: the log is one chain within
\* the cap (I1 to I6), an instance at rest has exactly the log in memory and its
\* replay for an account, nothing but a torn tail or an unfinished init is ever
\* refused, and the caches are up to the newest receipt.
THEOREM StoreAgreement ==
    ASSUME OneAtATime, CrashesOnly, OneSpelling
    PROVE  Spec => [](LogIsOneChain /\ MemoryIsLog /\ OnlyTornRefused /\ ReceiptsCached)
<1>1. Init => Sound
  BY InitSound
<1>2. Sound /\ [Next]_vars => Sound'
  BY NextSound
<1>3. Sound => LogIsOneChain /\ MemoryIsLog /\ OnlyTornRefused /\ ReceiptsCached
  BY SoundSuffices
<1> QED
  BY <1>1, <1>2, <1>3, PTL DEF Spec

\* The first event charges nothing; each later one a sum the balance covers.
LEMMA StepCharges ==
    ASSUME NEW p \in Procs, Ready(p), Types', pc[p] \in {"append", "initAppend"},
           Recorded' = Append(Recorded, Pending(p))
    PROVE  Promise!LedgerNext \/ UNCHANGED <<Charges, Cap - Spent(Recorded)>>
<1> DEFINE n == Len(Recorded)
           mj == call[p].mj
           left == Cap - Spent(Recorded)
<1>1. /\ mj \in Nat /\ Spent(Recorded) + mj <= Cap /\ Spent(Recorded) \in Nat
      /\ Cap \in Nat /\ (Recorded = <<>> => mj = 0)
  BY AtAppend, ReplayHolds, StoreAssumption DEF Ready, Agreed
<1>2. Pending(p) \in Stored /\ SpendFrom(Pending(p)) = mj /\ Recorded \in Seq(Stored)
      /\ n \in Nat
  BY <1>1, PendingStored, RecordedTyped DEF Ready, SpendFrom
<1>7. Spent(Recorded') = Spent(Recorded) + mj
  BY <1>2, SpentAppend
<1>3. /\ Len(Recorded') = n + 1 /\ SpendFrom(Recorded'[n + 1]) = mj
      /\ \A i \in 1..n : SpendFrom(Recorded'[i]) = SpendFrom(Recorded[i])
      /\ Recorded' # <<>>
  BY <1>2, GrownKept
<1>4. Charges' = [i \in 1..(n + 1) |-> SpendFrom(Recorded'[i])]
  BY <1>1, <1>3 DEF Charges, Recorded
<1>5. CASE Recorded = <<>>
  <2>1. n = 0 /\ mj = 0 /\ Charges = <<0>>
    BY <1>1, <1>5 DEF Charges, Recorded
  <2>2. Charges' = [i \in 1..1 |-> SpendFrom(Recorded'[i])]
    BY <1>4, <2>1
  <2>3. \A i \in 1..1 : SpendFrom(Recorded'[i]) = 0
    BY <1>3, <2>1
  <2>4. Charges' = [i \in 1..1 |-> 0]
    BY <2>2, <2>3
  <2>5. Charges' = <<0>>
    BY <2>4
  <2> QED
    BY <1>1, <1>7, <2>1, <2>5
<1>6. CASE Recorded # <<>>
  <2>1. Charges = [i \in 1..n |-> SpendFrom(Recorded[i])]
    BY <1>6 DEF Charges, Recorded
  <2>2. Append([i \in 1..n |-> SpendFrom(Recorded[i])], mj)
          = [i \in 1..(n + 1) |-> IF i = n + 1 THEN mj ELSE SpendFrom(Recorded[i])]
    BY <1>2
  <2>3. \A i \in 1..(n + 1) : SpendFrom(Recorded'[i])
             = IF i = n + 1 THEN mj ELSE SpendFrom(Recorded[i])
    BY <1>2, <1>3
  <2>4. Charges' = Append(Charges, mj)
    BY <1>4, <2>1, <2>2, <2>3
  <2>5. left' = left - mj /\ mj <= left /\ mj \in 0..left
    BY <1>1, <1>7
  <2> QED
    BY <1>1, <2>4, <2>5 DEF Promise!LedgerNext, Promise!Charge
<1> QED
  BY <1>5, <1>6

\* The log on disk, with the energy it leaves, implements Ledger: whatever
\* crashes, each step adds one charge the balance covers, or none.
THEOREM StoreImplementsLedger ==
    ASSUME OneAtATime, CrashesOnly, OneSpelling
    PROVE  Spec => LedgerSpec
<1>1. Init => Promise!LedgerInit
  <2> SUFFICES ASSUME Init PROVE Promise!LedgerInit
    OBVIOUS
  <2>1. Recorded = <<>> /\ Spent(Recorded) = 0
    BY InitTyped, EmptyLog DEF Init
  <2> QED
    BY <2>1, StoreAssumption DEF Promise!LedgerInit, Charges, Recorded
<1>2. Sound /\ [Next]_vars => [Promise!LedgerNext]_(Promise!ledgerVars)
  <2> SUFFICES ASSUME Sound, [Next]_vars
               PROVE  \/ Promise!LedgerNext
                      \/ UNCHANGED <<Charges, Cap - Spent(Recorded)>>
    BY DEF Promise!ledgerVars
  <2>1. CASE Recorded' = Recorded
    BY <2>1 DEF Charges, Recorded
  <2>2. CASE UNCHANGED vars
    BY <2>1, <2>2 DEF vars, disk, Recorded
  <2>3. ASSUME NEW p \in Procs, StepOf(p),
               pc[p] \in {"append", "initAppend"},
               Recorded' = Append(Recorded, Pending(p))
        PROVE  \/ Promise!LedgerNext
               \/ UNCHANGED <<Charges, Cap - Spent(Recorded)>>
    <3>1. Ready(p) /\ Types'
      BY <2>3, StepsAgreed, StepsTyped DEF Sound
    <3> QED
      BY <2>3, <3>1, StepCharges
  <2>4. CASE Next
    <3>1. PICK p \in Procs : StepOf(p)
      BY <2>4 DEF Next, StepOf, Calls
    <3>2. DiesAlone
      BY <3>1, SingleStep DEF Sound
    <3> QED
      BY <2>1, <2>3, <3>1, <3>2, GrowsByPending DEF Sound
  <2> QED
    BY <2>2, <2>4
<1>3. Init => Sound
  BY InitSound
<1>4. Sound /\ [Next]_vars => Sound'
  BY NextSound
<1> QED
  BY <1>1, <1>2, <1>3, <1>4, PTL DEF Spec, LedgerSpec, Promise!LedgerSpec
=============================================================================
