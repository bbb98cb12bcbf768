----------------------------- MODULE StoreProofs ----------------------------
(***************************************************************************)
(* What the store promises, for every set of processes, files, payloads    *)
(* and every cap.  Two invariants, each resting on the one before it:      *)
(*                                                                         *)
(*   Types  what the disk and the processes hold; under any faults at all  *)
(*   Safe   the log, the ids, the staged copies and the cell index, for    *)
(*          any number of processes that crash (CrashesOnly), addresses    *)
(*          that name different files (OneSpelling), and a process that    *)
(*          dies in a call alone in the world (DiesAlone)                  *)
(*                                                                         *)
(* Moves says what a step of one process leaves alone.  For each action    *)
(* one lemma ...Typed shows Types' and Moves, and one lemma ...Safe shows  *)
(* Safe' and that every event of the log is Kept.  Shown adds what a       *)
(* lock-free reader has read.  CallAhead counts the steps a call or a load *)
(* still has to take, and rests on Types alone.                            *)
(***************************************************************************)
EXTENDS Reader, KernelProofs, SequenceTheorems, FiniteSetTheorems

-----------------------------------------------------------------------------
(* Types.                                                                  *)

\* What the code can put on a line of the log: a whole event, which has passed
\* the validator, and names a file and its bytes if it is an Act or an Observe.
Seen == {"act", "observe"}
Stored ==
    {e \in EventType :
        /\ EnergyContract(e)
        /\ IF e.op \in Seen THEN e.addr \in Addrs /\ e.digest \in Contents
           ELSE e.addr = Nothing /\ e.digest = Nothing}
Piece == Stored \cup {Torn}
Lines == Seq(Seq(Piece))

WorldType == [events : Seq(Stored), acct : AccountType, cells : IndexType]
CallType ==
    [op : Ops \cup {"none"}, addr : Addrs \cup {Nothing},
     data : Contents \cup {Nothing}, mj : Nat, attempted : Int, id : Nat]

Holding == PCs \ {"out", "idle", "initLock"}
Initing == {"initHeader", "initAppend", "initEnergy", "initCells"}
Logged == {"replace", "saveEnergy", "saveCells", "initEnergy", "initCells"}

DiskTyped ==
    /\ made \in BOOLEAN /\ header \in BOOLEAN /\ ended \in BOOLEAN
    /\ log \in Lines
    /\ energyFile \in AccountType \cup {Nothing}
    /\ cellsFile \in IndexType \cup {Nothing}
    /\ files \in [Paths -> Contents \cup {Nothing}]
    /\ staged \in SUBSET [id : Nat, data : Contents \cup {Torn}]
    /\ \A s \in staged : s.id < nextId

ProcsTyped ==
    /\ lock \in Procs \cup {Nobody}
    /\ pc \in [Procs -> PCs]
    /\ mem \in [Procs -> WorldType]
    /\ call \in [Procs -> CallType]
    /\ todo \in [Procs -> SUBSET Nat]
    /\ nextId \in Nat \ {0}
    /\ acked \in SUBSET (1..(nextId - 1))
    /\ faults \in Nat
    /\ \A p \in Procs : lock = p <=> pc[p] \in Holding

\* The arguments fit the place the process is at.
CallFits(at, c) ==
    /\ at \in Initing => c.op = "init" /\ c.mj = 0
    /\ at \in {"stage", "replace"} => c.op = "act"
    /\ at \in {"append", "saveEnergy", "saveCells"} => c.op \in Ops \ {"init"}
    /\ c.op \notin Seen => c.addr = Nothing /\ c.data = Nothing
    /\ c.op \in Seen => c.addr \in Addrs /\ c.data \in Contents
    /\ at \in Logged \/ (at = "append" /\ c.op = "act") => c.id \in 1..(nextId - 1)
CallsFit == \A p \in Procs : CallFits(pc[p], call[p])

\* A call that is not debited yet can still be paid from memory.
Owes(at, c, w) ==
    at \in {"initAppend", "stage", "append", "replace"} => c.mj <= w.acct.remaining
CallsPaid == \A p \in Procs : Owes(pc[p], call[p], mem[p])

TodoFits ==
    \A p \in Procs : pc[p] = "recover" => todo[p] \in SUBSET LastActs(Recorded)

Types == DiskTyped /\ ProcsTyped /\ CallsFit /\ CallsPaid /\ TodoFits

-----------------------------------------------------------------------------
(* Reading the log.                                                        *)

\* All lines but perhaps the last are whole events.
AllButLast(lines) == \A i \in 1..(Len(lines) - 1) : Parses(lines[i])

\* What load_events makes of a log depends on where the bad lines are.
LEMMA StatusTells ==
    ASSUME NEW lines \in Lines
    PROVE  /\ LogStatus(lines) = "clean" <=> AllLinesParse(lines)
           /\ LogStatus(lines) = "torn" <=>
                 AllButLast(lines) /\ ~AllLinesParse(lines)
           /\ LogStatus(lines) # "corrupt" <=> AllButLast(lines)
<1> DEFINE n == Len(lines)
           front == SubSeq(lines, 1, n - 1)
<1>1. n \in Nat
  BY DEF Lines
<1>2. AllLinesParse(front) <=> AllButLast(lines)
  <2>1. Len(front) = (IF 1 <= n - 1 THEN n - 1 ELSE 0)
        /\ \A i \in 1..(n - 1) : front[i] = lines[i]
    BY <1>1, SubSeqProperties DEF Lines
  <2> HIDE DEF front
  <2>2. 1..Len(front) = 1..(n - 1)
    BY <1>1, <2>1
  <2> QED
    BY <2>1, <2>2 DEF AllLinesParse, AllButLast
<1>3. AllLinesParse(lines) => AllButLast(lines)
  BY <1>1 DEF AllLinesParse, AllButLast
<1> QED
  BY <1>2, <1>3 DEF LogStatus

\* A line that parses holds one event.
LEMMA ParsedLine ==
    ASSUME NEW line \in Seq(Piece), Parses(line)
    PROVE  line[1] \in Stored
  BY DEF Parses, Piece

\* The events of a log are those of its lines before the first bad one.
LEMMA EventsPrefix ==
    ASSUME NEW lines \in Lines
    PROVE  \E n \in 0..Len(lines) :
              /\ Events(lines) = [i \in 1..n |-> lines[i][1]]
              /\ \A i \in 1..n : Parses(lines[i])
              /\ n = Len(lines) \/ ~Parses(lines[n + 1])
<1> DEFINE bad == {i \in 1..Len(lines) : ~Parses(lines[i])}
<1>1. Len(lines) \in Nat
  BY DEF Lines
<1>2. CASE bad = {}
  <2>1. Events(lines) = [i \in 1..Len(lines) |-> lines[i][1]]
    BY <1>2 DEF Events
  <2> QED
    BY <1>1, <1>2, <2>1
<1>3. CASE bad # {}
  <2> DEFINE b == CHOOSE i \in bad : \A j \in bad : i <= j
  <2>1. \E i \in bad : \A j \in bad : i <= j
    BY <1>3, NatMin, bad \in SUBSET Nat
  <2>2. b \in bad /\ \A j \in bad : b <= j
    BY <2>1
  <2>3. Events(lines) = [i \in 1..(b - 1) |-> lines[i][1]]
    BY <1>3 DEF Events
  <2> HIDE DEF b
  <2>4. b - 1 \in 0..Len(lines) /\ \A i \in 1..(b - 1) : Parses(lines[i])
    BY <1>1, <2>2
  <2>5. ~Parses(lines[(b - 1) + 1])
    BY <2>2
  <2> QED
    BY <2>3, <2>4, <2>5
<1> QED
  BY <1>2, <1>3

\* They are events the validator has passed.
LEMMA EventsTyped ==
    ASSUME NEW lines \in Lines
    PROVE  Events(lines) \in Seq(Stored)
<1>1. PICK n \in 0..Len(lines) :
         /\ Events(lines) = [i \in 1..n |-> lines[i][1]]
         /\ \A i \in 1..n : Parses(lines[i])
  BY EventsPrefix
<1>2. n \in Nat /\ \A i \in 1..n : lines[i] \in Seq(Piece)
  BY DEF Lines
<1>3. \A i \in 1..n : lines[i][1] \in Stored
  BY <1>1, <1>2, ParsedLine
<1> QED
  BY <1>1, <1>2, <1>3

\* In a clean log every line is an event.
LEMMA EventsClean ==
    ASSUME NEW lines \in Lines, AllLinesParse(lines)
    PROVE  /\ Len(Events(lines)) = Len(lines)
           /\ \A i \in 1..Len(lines) : Events(lines)[i] = lines[i][1]
<1>1. PICK n \in 0..Len(lines) :
         /\ Events(lines) = [i \in 1..n |-> lines[i][1]]
         /\ n = Len(lines) \/ ~Parses(lines[n + 1])
  BY EventsPrefix
<1>2. Len(lines) \in Nat
  BY DEF Lines
<1>3. n = Len(lines)
  BY <1>1, <1>2 DEF AllLinesParse
<1> QED
  BY <1>1, <1>2, <1>3

\* In a torn one every line but the last is.
LEMMA EventsTorn ==
    ASSUME NEW lines \in Lines, AllButLast(lines), ~AllLinesParse(lines)
    PROVE  /\ Len(lines) # 0 /\ Len(Events(lines)) = Len(lines) - 1
           /\ \A i \in 1..(Len(lines) - 1) : Events(lines)[i] = lines[i][1]
<1>1. PICK n \in 0..Len(lines) :
         /\ Events(lines) = [i \in 1..n |-> lines[i][1]]
         /\ \A i \in 1..n : Parses(lines[i])
         /\ n = Len(lines) \/ ~Parses(lines[n + 1])
  BY EventsPrefix
<1>2. Len(lines) \in Nat
  BY DEF Lines
<1>3. n # Len(lines)
  BY <1>1 DEF AllLinesParse
<1>4. n = Len(lines) - 1
  BY <1>1, <1>2, <1>3 DEF AllButLast
<1> QED
  BY <1>1, <1>2, <1>3, <1>4

\* Dropping the torn line drops no event and leaves a clean log.
LEMMA RepairKeepsEvents ==
    ASSUME NEW lines \in Lines, LogStatus(lines) = "torn"
    PROVE  /\ Rewritten(lines) \in Lines /\ AllLinesParse(Rewritten(lines))
           /\ Events(Rewritten(lines)) = Events(lines)
<1> DEFINE n == Len(lines)
           short == Rewritten(lines)
<1>1. AllButLast(lines) /\ ~AllLinesParse(lines)
  BY StatusTells
<1>2. n \in Nat /\ n # 0 /\ \A i \in 1..n : lines[i] \in Seq(Piece)
  BY <1>1, EventsTorn DEF Lines
<1>3. /\ short \in Lines /\ Len(short) = n - 1
      /\ \A i \in 1..(n - 1) : short[i] = lines[i]
  <2>1. n - 1 \in Int /\ 1 \in Int /\ \A i \in 1..(n - 1) : lines[i] \in Seq(Piece)
    BY <1>2
  <2>2. /\ SubSeq(lines, 1, n - 1) \in Seq(Seq(Piece))
        /\ Len(SubSeq(lines, 1, n - 1)) = IF 1 <= n - 1 THEN (n - 1) - 1 + 1 ELSE 0
        /\ \A i \in 1..((n - 1) - 1 + 1) :
              SubSeq(lines, 1, n - 1)[i] = lines[1 + i - 1]
    BY <2>1, SubSeqProperties
  <2>3. short = SubSeq(lines, 1, n - 1)
    BY DEF Rewritten
  <2>4. short \in Lines
    BY <2>2, <2>3 DEF Lines
  <2>6. Len(short) = n - 1
    <3> HIDE DEF n, short
    <3> QED
      BY <1>2, <2>2, <2>3
  <2>5. ASSUME NEW i \in 1..(n - 1) PROVE short[i] = lines[i]
    <3>1. i \in 1..((n - 1) - 1 + 1) /\ 1 + i - 1 = i
      BY <1>2
    <3> QED
      BY <2>2, <2>3, <3>1
  <2> QED
    BY <2>4, <2>5, <2>6
<1> HIDE DEF short
<1>4. AllLinesParse(short)
  BY <1>1, <1>3 DEF AllLinesParse, AllButLast
<1>5. /\ Len(Events(short)) = n - 1
      /\ \A i \in 1..(n - 1) : Events(short)[i] = lines[i][1]
  BY <1>3, <1>4, EventsClean
<1>6. /\ Len(Events(lines)) = n - 1
      /\ \A i \in 1..(n - 1) : Events(lines)[i] = lines[i][1]
  BY <1>1, EventsTorn
<1>7. Events(short) \in Seq(Stored) /\ Events(lines) \in Seq(Stored)
  BY <1>3, EventsTyped
<1>8. Events(short) = Events(lines)
  BY <1>5, <1>6, <1>7, SeqEqual
<1> QED
  BY <1>3, <1>4, <1>8 DEF short

\* A whole event on a line of its own is an event more.
LEMMA AppendWhole ==
    ASSUME NEW lines \in Lines, AllLinesParse(lines), NEW e \in Stored
    PROVE  /\ Append(lines, <<e>>) \in Lines
           /\ AllLinesParse(Append(lines, <<e>>))
           /\ Events(Append(lines, <<e>>)) = Append(Events(lines), e)
<1> DEFINE n == Len(lines)
           long == Append(lines, <<e>>)
           evs == Events(lines)
<1>1. <<e>> \in Seq(Piece) /\ Len(<<e>>) = 1 /\ <<e>>[1] = e /\ e # Torn
  BY StoreAssumption DEF Piece, Stored
<1>2. /\ n \in Nat /\ long \in Lines /\ Len(long) = n + 1
      /\ long[n + 1] = <<e>> /\ \A i \in 1..n : long[i] = lines[i]
  BY <1>1, AppendProperties DEF Lines
<1> HIDE DEF long
<1>3. Parses(<<e>>)
  BY <1>1 DEF Parses
<1>4. AllLinesParse(long)
  BY <1>2, <1>3 DEF AllLinesParse
<1>5. evs \in Seq(Stored) /\ Len(evs) = n /\ \A i \in 1..n : evs[i] = lines[i][1]
  BY EventsTyped, EventsClean
<1>6. /\ Events(long) \in Seq(Stored) /\ Len(Events(long)) = n + 1
      /\ \A i \in 1..(n + 1) : Events(long)[i] = long[i][1]
  BY <1>2, <1>4, EventsTyped, EventsClean
<1> HIDE DEF evs, n
<1>7. /\ Append(evs, e) \in Seq(Stored) /\ Len(Append(evs, e)) = n + 1
      /\ Append(evs, e)[n + 1] = e
      /\ \A i \in 1..n : Append(evs, e)[i] = evs[i]
  BY <1>5, AppendProperties
<1>8. \A i \in 1..(n + 1) : Events(long)[i] = Append(evs, e)[i]
  <2> SUFFICES ASSUME NEW i \in 1..(n + 1)
               PROVE  Events(long)[i] = Append(evs, e)[i]
    OBVIOUS
  <2>1. CASE i = n + 1
    BY <1>1, <1>2, <1>6, <1>7, <2>1
  <2>2. CASE i # n + 1
    <3>1. i \in 1..n
      BY <1>2, <2>2
    <3> QED
      BY <1>2, <1>5, <1>6, <1>7, <3>1
  <2> QED
    BY <2>1, <2>2
<1>9. Events(long) = Append(evs, e)
  BY <1>6, <1>7, <1>8, SeqEqual
<1> QED
  BY <1>2, <1>4, <1>9 DEF evs, long

\* Part of a line is no event.
LEMMA AppendTorn ==
    ASSUME NEW lines \in Lines, AllLinesParse(lines)
    PROVE  /\ Append(lines, <<Torn>>) \in Lines
           /\ AllButLast(Append(lines, <<Torn>>))
           /\ ~AllLinesParse(Append(lines, <<Torn>>))
           /\ Events(Append(lines, <<Torn>>)) = Events(lines)
<1> DEFINE n == Len(lines)
           long == Append(lines, <<Torn>>)
<1>1. <<Torn>> \in Seq(Piece) /\ <<Torn>>[1] = Torn
  BY DEF Piece
<1>2. /\ n \in Nat /\ long \in Lines /\ Len(long) = n + 1
      /\ long[n + 1] = <<Torn>> /\ \A i \in 1..n : long[i] = lines[i]
  BY <1>1, AppendProperties DEF Lines
<1> HIDE DEF long
<1>3. AllButLast(long) /\ ~AllLinesParse(long)
  BY <1>1, <1>2 DEF AllLinesParse, AllButLast, Parses
<1>4. /\ Events(long) \in Seq(Stored) /\ Len(Events(long)) = n
      /\ \A i \in 1..n : Events(long)[i] = lines[i][1]
  <2>1. Events(long) \in Seq(Stored)
    BY <1>2, EventsTyped
  <2>2. /\ Len(Events(long)) = Len(long) - 1
        /\ \A i \in 1..(Len(long) - 1) : Events(long)[i] = long[i][1]
    BY <1>2, <1>3, EventsTorn
  <2>3. Len(long) - 1 = n
    BY <1>2
  <2> QED
    BY <1>2, <2>1, <2>2, <2>3
<1>5. /\ Events(lines) \in Seq(Stored) /\ Len(Events(lines)) = n
      /\ \A i \in 1..n : Events(lines)[i] = lines[i][1]
  BY EventsTyped, EventsClean
<1>6. Events(long) = Events(lines)
  BY <1>4, <1>5, SeqEqual
<1> QED
  BY <1>2, <1>3, <1>6 DEF long

\* Whatever append writes, the log stays a sequence of lines.
LEMMA WriteTyped ==
    ASSUME NEW lines \in Lines, NEW piece \in Piece
    PROVE  Write(lines, piece) \in Lines
<1>1. <<piece>> \in Seq(Piece)
  OBVIOUS
<1>2. CASE ended \/ lines = <<>>
  BY <1>1, <1>2, AppendProperties DEF Write, Lines
<1>3. CASE ~ended /\ lines # <<>>
  <2> DEFINE n == Len(lines)
  <2>1. n \in 1..Len(lines) /\ lines[n] \in Seq(Piece)
    BY <1>3, EmptySeq, ElementOfSeq DEF Lines
  <2>2. Append(lines[n], piece) \in Seq(Piece)
    BY <2>1, AppendProperties
  <2>3. Write(lines, piece) = [lines EXCEPT ![n] = Append(lines[n], piece)]
    BY <1>3 DEF Write
  <2> QED
    BY <2>1, <2>2, <2>3, ExceptSeq DEF Lines
<1> QED
  BY <1>2, <1>3

-----------------------------------------------------------------------------
(* Accounts and events.                                                    *)

\* Ids that were handed out stay handed out.
LEMMA IdsWiden ==
    ASSUME NEW m \in Nat, NEW n \in Nat, m <= n
    PROVE  \A i \in 1..(m - 1) : i \in 1..(n - 1)
  OBVIOUS

\* Account.debit moves a spend from what remains to what is spent; the record
\* stays an account of the same cap.
LEMMA DebitTyped ==
    ASSUME NEW a \in AccountType, NEW mj \in Nat
    PROVE  /\ Debit(a, mj) = [cap |-> Cap, spent |-> a.spent + mj,
                              remaining |-> a.remaining - mj]
           /\ mj <= a.remaining => Debit(a, mj) \in AccountType
<1> DEFINE once == [a EXCEPT !.spent = @ + mj]
<1>1. once = [cap |-> Cap, spent |-> a.spent + mj, remaining |-> a.remaining]
  BY DEF AccountType
<1> HIDE DEF once
<1>2. [once EXCEPT !.remaining = @ - mj]
        = [cap |-> Cap, spent |-> a.spent + mj, remaining |-> a.remaining - mj]
  BY <1>1
<1>3. Debit(a, mj) = [once EXCEPT !.remaining = @ - mj]
  BY <1>1 DEF Debit, once
<1>4. a.spent + mj \in Nat /\ (mj <= a.remaining => a.remaining - mj \in Nat)
  BY DEF AccountType
<1> QED
  BY <1>2, <1>3, <1>4 DEF AccountType

\* A log of events the validator has passed never gives energy back.
LEMMA SpentNatural ==
    ASSUME NEW evs \in Seq(Stored)
    PROVE  evs \in Seq(EventType) /\ Spent(evs) \in Nat
<1>1. evs \in Seq(EventType)
  BY SeqMonotonic DEF Stored
<1>2. \A i \in 1..Len(evs) : EnergyContract(evs[i])
  BY ElementOfSeq DEF Stored
<1>3. Spent(evs) \in Int
  BY <1>1, SpentType
<1>4. Len(evs) \in Nat /\ SpentUpTo(evs)[0] = 0
  BY <1>1, LogTyped, SpentUpToUnfolds
<1>5. Replayable(evs, -1) <=> \A n \in 0..Len(evs) : SpentUpTo(evs)[n] <= -1
  BY <1>1, <1>2, ReplayStopsNowhereElse
<1>6. ~Replayable(evs, -1)
  BY <1>4, <1>5
<1> QED
  BY <1>1, <1>3, <1>6 DEF Replayable

\* _replay_account gives the account with the sum of the spends debited.
LEMMA ReplayTyped ==
    ASSUME NEW evs \in Seq(Stored)
    PROVE  /\ ReplayAccount(evs, Cap)
                = [cap |-> Cap, spent |-> Spent(evs), remaining |-> Cap - Spent(evs)]
           /\ Replayable(evs, Cap) => ReplayAccount(evs, Cap) \in AccountType
<1>1. Spent(evs) \in Nat /\ Cap \in Nat
  BY SpentNatural, StoreAssumption
<1>2. FreshAccount(Cap) = [cap |-> Cap, spent |-> 0, remaining |-> Cap]
      /\ FreshAccount(Cap) \in AccountType
  BY <1>1 DEF FreshAccount, AccountType
<1>3. /\ Debit(FreshAccount(Cap), Spent(evs))
           = [cap |-> Cap, spent |-> FreshAccount(Cap).spent + Spent(evs),
              remaining |-> FreshAccount(Cap).remaining - Spent(evs)]
      /\ Spent(evs) <= Cap => Debit(FreshAccount(Cap), Spent(evs)) \in AccountType
  BY <1>1, <1>2, DebitTyped
<1> QED
  BY <1>1, <1>2, <1>3 DEF ReplayAccount, Replayable

\* A process outside the world, and one between calls, holds well-formed values.
LEMMA NothingTyped ==
    /\ NoWorld \in WorldType /\ NoCall \in CallType
    /\ NoCells \in IndexType /\ FreshAccount(Cap) \in AccountType
<1>1. NoCells \in IndexType
  BY DEF NoCells, IndexType
<1>2. FreshAccount(Cap) \in AccountType
  BY StoreAssumption DEF FreshAccount, AccountType
<1>3. <<>> \in Seq(Stored)
  BY EmptySeq
<1> QED
  BY <1>1, <1>2, <1>3 DEF NoWorld, NoCall, CallOf, WorldType, CallType, NoId, NotAttempted

\* The price of an Act or an Observe is a natural number.
LEMMA CostsNatural ==
    ASSUME NEW data \in Contents
    PROVE  WriteCost(SizeOf[data]) \in Nat /\ ReadCost(SizeOf[data]) \in Nat
<1>1. SizeOf[data] \in Nat
  BY ContentsAssumption
<1> QED
  BY <1>1, BlocksAreLeast DEF WriteCost, ReadCost

\* The event a process is about to append passes the validator.
LEMMA PendingStored ==
    ASSUME Types, NEW p \in Procs, pc[p] \in {"append", "initAppend"}
    PROVE  /\ Pending(p) \in Stored
           /\ Pending(p).id = (IF call[p].op = "act" THEN call[p].id ELSE nextId)
           /\ Pending(p).id \in 1..(NextIdAfterAppend(p) - 1)
           /\ NextIdAfterAppend(p) \in Nat /\ nextId <= NextIdAfterAppend(p)
           /\ Pending(p).op = call[p].op /\ Pending(p).addr = call[p].addr
           /\ Pending(p).digest = call[p].data /\ Pending(p).delta = -call[p].mj
           /\ Pending(p).seq = Len(mem[p].events) + 1
           /\ Pending(p).parent = (IF mem[p].events = <<>> THEN NoId
                                   ELSE mem[p].events[Len(mem[p].events)].id)
<1> DEFINE c == call[p]
           evs == mem[p].events
           id == IF c.op = "act" THEN c.id ELSE nextId
<1>1. /\ c \in CallType /\ CallFits(pc[p], c) /\ nextId \in Nat \ {0}
      /\ mem[p] \in WorldType
  BY DEF Types, ProcsTyped, CallsFit
<1>2. evs \in Seq(Stored)
  BY <1>1 DEF WorldType
<1>3. c.op \in Ops /\ c.mj \in Nat /\ c.attempted \in Int
      /\ c.addr \in Addrs \cup {Nothing} /\ c.data \in Contents \cup {Nothing}
      /\ (c.op = "act" => c.id \in 1..(nextId - 1))
      /\ (c.op \in Seen => c.addr \in Addrs /\ c.data \in Contents)
      /\ (c.op \notin Seen => c.addr = Nothing /\ c.data = Nothing)
  BY <1>1 DEF CallFits, CallType, Initing, Ops
<1>4. id \in Nat \ {NoId} /\ id \in 1..(NextIdAfterAppend(p) - 1)
      /\ NextIdAfterAppend(p) \in Nat /\ nextId <= NextIdAfterAppend(p)
  BY <1>1, <1>3 DEF NextIdAfterAppend, NoId
<1>5. Len(evs) + 1 \in Nat
  BY <1>2
<1>6. (IF evs = <<>> THEN NoId ELSE evs[Len(evs)].id) \in Nat
  <2>1. CASE evs = <<>>
    BY <2>1 DEF NoId
  <2>2. CASE evs # <<>>
    <3>1. Len(evs) \in 1..Len(evs)
      BY <1>2, <2>2, EmptySeq
    <3>2. evs[Len(evs)] \in Stored
      BY <1>2, <3>1, ElementOfSeq
    <3> QED
      BY <2>2, <3>2 DEF Stored, EventType
  <2> QED
    BY <2>1, <2>2
<1>7. -c.mj \in Int /\ -c.mj <= 0 /\ (-c.mj = 0 <=> c.mj = 0)
  BY <1>3
<1> DEFINE reason == IF c.mj = 0 THEN "none"
                     ELSE IF c.op \in {"act", "observe"} THEN "io" ELSE "plan"
           e == [id |-> id, seq |-> Len(evs) + 1,
                 parent |-> IF evs = <<>> THEN NoId ELSE evs[Len(evs)].id,
                 delta |-> -c.mj, reason |-> reason,
                 op |-> c.op, addr |-> c.addr, digest |-> c.data,
                 attempted |-> c.attempted]
<1>8. Pending(p) = e
  BY DEF Pending, NewEvent
<1>9. reason \in {"io", "plan", "none"} /\ (reason = "none" <=> c.mj = 0)
  BY <1>3
<1>10. e \in EventType
  BY <1>3, <1>4, <1>5, <1>6, <1>7, <1>9 DEF EventType
<1>11. EnergyContract(e)
  BY <1>7, <1>9 DEF EnergyContract
<1>12. e \in Stored
  BY <1>3, <1>10, <1>11 DEF Stored
<1> QED
  BY <1>4, <1>8, <1>12

-----------------------------------------------------------------------------
(* What a step of one process leaves alone.                                *)

Moves(p) ==
    /\ pc' = [pc EXCEPT ![p] = pc'[p]]
    /\ mem' = [mem EXCEPT ![p] = mem'[p]]
    /\ call' = [call EXCEPT ![p] = call'[p]]
    /\ todo' = [todo EXCEPT ![p] = todo'[p]]
    /\ \/ pc'[p] \in Holding /\ lock' = p /\ lock \in {p, Nobody}
       \/ pc'[p] \notin Holding /\ lock' = IF lock = p THEN Nobody ELSE lock
    /\ nextId' \in Nat /\ nextId <= nextId'
    /\ Recorded' = Recorded \/ pc[p] \in Holding

OwnTyped(p) ==
    /\ pc'[p] \in PCs
    /\ mem'[p] \in WorldType
    /\ call'[p] \in CallType
    /\ todo'[p] \in SUBSET Nat
    /\ CallFits(pc[p], call[p])' /\ Owes(pc[p], call[p], mem[p])'
    /\ pc'[p] = "recover" => todo'[p] \in SUBSET LastActs(Recorded')

\* A step of p that leaves p typed leaves everybody typed.
LEMMA StepTyped ==
    ASSUME Types, NEW p \in Procs, Moves(p), OwnTyped(p), DiskTyped',
           acked' \in SUBSET (1..(nextId' - 1)), faults' \in Nat
    PROVE  Types'
<1> USE DEF Types
<1>1. /\ \A q \in Procs : q # p =>
            /\ pc'[q] = pc[q] /\ mem'[q] = mem[q] /\ call'[q] = call[q]
            /\ todo'[q] = todo[q]
      /\ pc' \in [Procs -> PCs] /\ mem' \in [Procs -> WorldType]
      /\ call' \in [Procs -> CallType] /\ todo' \in [Procs -> SUBSET Nat]
  BY DEF Moves, OwnTyped, ProcsTyped
<1>2. \A q \in Procs : lock' = q <=> pc'[q] \in Holding
  BY <1>1, StoreAssumption DEF Moves, ProcsTyped
<1>3. lock' \in Procs \cup {Nobody} /\ nextId' \in Nat \ {0}
  BY DEF Moves, ProcsTyped
<1>4. ProcsTyped'
  BY <1>1, <1>2, <1>3 DEF ProcsTyped
<1>5. CallsFit'
  <2> SUFFICES ASSUME NEW q \in Procs PROVE CallFits(pc[q], call[q])'
    BY DEF CallsFit
  <2>1. CASE q = p
    BY <2>1 DEF OwnTyped
  <2>2. CASE q # p
    <3>1. CallFits(pc[q], call[q]) /\ nextId' >= nextId
          /\ nextId \in Nat /\ nextId' \in Nat
      BY DEF CallsFit, Moves, ProcsTyped
    <3>2. \A i \in 1..(nextId - 1) : i \in 1..(nextId' - 1)
      BY <3>1, IdsWiden
    <3> QED
      BY <1>1, <2>2, <3>1, <3>2 DEF CallFits
  <2> QED
    BY <2>1, <2>2
<1>7. CallsPaid'
  BY <1>1 DEF OwnTyped, CallsPaid
<1>6. TodoFits'
  <2> SUFFICES ASSUME NEW q \in Procs, pc'[q] = "recover"
               PROVE  todo'[q] \in SUBSET LastActs(Recorded')
    BY DEF TodoFits
  <2>1. CASE q = p
    BY <2>1 DEF OwnTyped
  <2>2. CASE q # p
    <3>1. pc[q] = "recover" /\ todo'[q] = todo[q]
      BY <1>1, <2>2
    <3>2. pc[q] \in Holding
      BY <3>1 DEF Holding, PCs, Opening
    <3>3. pc[p] \notin Holding
      BY <2>2, <3>2 DEF ProcsTyped
    <3> QED
      BY <3>1, <3>3 DEF Moves, TodoFits
  <2> QED
    BY <2>1, <2>2
<1> QED
  BY <1>4, <1>5, <1>6, <1>7

\* The process ends.
LEMMA GoneMoves ==
    ASSUME Types, NEW p \in Procs, Gone(p), nextId' \in Nat, nextId <= nextId',
           Recorded' = Recorded \/ pc[p] \in Holding
    PROVE  /\ Moves(p) /\ OwnTyped(p)
           /\ pc'[p] = "out" /\ mem'[p] = NoWorld /\ call'[p] = NoCall
<1>1. /\ pc'[p] = "out" /\ mem'[p] = NoWorld /\ call'[p] = NoCall /\ todo'[p] = {}
      /\ pc' = [pc EXCEPT ![p] = pc'[p]] /\ mem' = [mem EXCEPT ![p] = mem'[p]]
      /\ call' = [call EXCEPT ![p] = call'[p]]
      /\ todo' = [todo EXCEPT ![p] = todo'[p]]
      /\ lock' = IF lock = p THEN Nobody ELSE lock
  BY DEF Gone, Goto, Release, Remember, Types, ProcsTyped
<1>2. "out" \in PCs /\ "out" \notin Holding
  BY DEF PCs, Holding
<1>3. CallFits(pc[p], call[p])'
  BY <1>1 DEF CallFits, NoCall, CallOf, Initing, Logged, Seen
<1> QED
  BY <1>1, <1>2, <1>3, NothingTyped DEF Moves, OwnTyped, Owes

\* The call is over and the process keeps its World.
LEMMA RaisedMoves ==
    ASSUME Types, NEW p \in Procs, Raised(p), nextId' \in Nat, nextId <= nextId',
           Recorded' = Recorded \/ pc[p] \in Holding
    PROVE  /\ Moves(p) /\ OwnTyped(p)
           /\ pc'[p] = "idle" /\ mem' = mem /\ call'[p] = NoCall
<1>1. /\ pc'[p] = "idle" /\ mem' = mem /\ call'[p] = NoCall /\ todo' = todo
      /\ pc' = [pc EXCEPT ![p] = pc'[p]]
      /\ call' = [call EXCEPT ![p] = call'[p]]
      /\ lock' = IF lock = p THEN Nobody ELSE lock
  BY DEF Raised, Goto, Release, Types, ProcsTyped
<1>2. /\ mem' = [mem EXCEPT ![p] = mem'[p]] /\ todo' = [todo EXCEPT ![p] = todo'[p]]
      /\ mem'[p] \in WorldType /\ todo'[p] \in SUBSET Nat
  BY <1>1 DEF Types, ProcsTyped
<1>3. "idle" \in PCs /\ "idle" \notin Holding
  BY DEF PCs, Holding
<1>4. CallFits(pc[p], call[p])'
  BY <1>1 DEF CallFits, NoCall, CallOf, Initing, Logged, Seen
<1> QED
  BY <1>1, <1>2, <1>3, <1>4, NothingTyped DEF Moves, OwnTyped, Owes

-----------------------------------------------------------------------------
(* One lemma per step: it keeps the types and moves one process.           *)

\* World.init makes .spaceten: no other process and nothing else changes.
LEMMA InitMkdirTyped ==
    ASSUME Types, NEW p \in Procs, InitMkdir(p)
    PROVE  Types' /\ Moves(p)
<1>1. pc[p] = "out" /\ pc' = [pc EXCEPT ![p] = "initLock"]
      /\ UNCHANGED <<header, log, ended, energyFile, cellsFile, staged, files,
                     lock, mem, call, todo, nextId, acked, faults>>
      /\ made' = TRUE
  BY DEF InitMkdir, MayOpen, Goto
<1>2. lock # p
  BY <1>1 DEF Types, ProcsTyped, Holding
<1>3. Moves(p)
  BY <1>1, <1>2 DEF Types, ProcsTyped, Moves, Holding, Recorded
<1>4. OwnTyped(p)
  <2>1. pc'[p] = "initLock" /\ "initLock" \in PCs
    BY <1>1 DEF Types, ProcsTyped, PCs, Opening
  <2>2. CallFits(pc[p], call[p])'
    BY <1>1, <2>1 DEF Types, CallsFit, CallFits, Initing, Logged
  <2> QED
    BY <1>1, <2>1, <2>2 DEF OwnTyped, Owes, Types, ProcsTyped
<1>5. DiskTyped'
  BY <1>1 DEF Types, DiskTyped
<1> QED
  BY <1>1, <1>3, <1>4, <1>5, StepTyped DEF Types, ProcsTyped

\* World.init takes the lock, or is refused and gone.
LEMMA InitLockTyped ==
    ASSUME Types, NEW p \in Procs, InitLock(p)
    PROVE  Types' /\ Moves(p)
<1>1. /\ pc[p] = "initLock" /\ UNCHANGED <<disk, nextId, acked, faults>>
      /\ nextId' \in Nat /\ nextId <= nextId' /\ Recorded' = Recorded
  BY DEF InitLock, Types, ProcsTyped, disk, Recorded
<1>2. DiskTyped'
  BY <1>1 DEF Types, DiskTyped, disk
<1>3. CASE lock = Nobody
  <2>1. /\ lock' = p /\ pc' = [pc EXCEPT ![p] = "initHeader"]
        /\ call' = [call EXCEPT ![p] = InitCall]
        /\ UNCHANGED <<mem, todo>>
    BY <1>3 DEF InitLock, Goto
  <2>2. InitCall = [op |-> "init", addr |-> Nothing, data |-> Nothing, mj |-> 0,
                    attempted |-> NotAttempted, id |-> NoId]
    BY DEF InitCall, CallOf
  <2>3. InitCall \in CallType
    BY <2>2 DEF CallType, NoId, NotAttempted, Ops
  <2>4. pc'[p] = "initHeader" /\ "initHeader" \in PCs /\ "initHeader" \in Holding
        /\ call'[p] = InitCall
    BY <2>1 DEF Types, ProcsTyped, PCs, Opening, Holding
  <2>5. Moves(p)
    BY <1>1, <1>3, <2>1, <2>4 DEF Types, ProcsTyped, Moves
  <2>6. CallFits(pc[p], call[p])'
    BY <2>2, <2>4 DEF CallFits, Initing, Logged, Seen
  <2>7. OwnTyped(p)
    BY <2>1, <2>3, <2>4, <2>6 DEF OwnTyped, Owes, Types, ProcsTyped
  <2> QED
    BY <1>1, <1>2, <2>5, <2>7, StepTyped DEF Types, ProcsTyped
<1>4. CASE lock # Nobody
  <2>1. Gone(p)
    BY <1>4 DEF InitLock, RefuseOpen
  <2>2. Moves(p) /\ OwnTyped(p)
    BY <1>1, <2>1, GoneMoves
  <2> QED
    BY <1>1, <1>2, <2>2, StepTyped DEF Types, ProcsTyped
<1> QED
  BY <1>3, <1>4

\* World.init writes world.json under its lock.
LEMMA InitHeaderTyped ==
    ASSUME Types, NEW p \in Procs, InitHeader(p)
    PROVE  Types' /\ Moves(p)
<1>1. /\ pc[p] = "initHeader" /\ pc' = [pc EXCEPT ![p] = "initAppend"]
      /\ UNCHANGED <<made, log, ended, energyFile, cellsFile, staged, files, lock,
                     mem, call, todo, nextId, acked, faults>>
      /\ header' = TRUE
  BY DEF InitHeader, Goto
<1>2. lock = p
  BY <1>1 DEF Types, ProcsTyped, Holding, PCs, Opening
<1>3. pc'[p] = "initAppend" /\ "initAppend" \in PCs /\ "initAppend" \in Holding
  BY <1>1 DEF Types, ProcsTyped, PCs, Opening, Holding
<1>4. Moves(p)
  BY <1>1, <1>2, <1>3 DEF Types, ProcsTyped, Moves, Recorded
<1>5. CallFits(pc[p], call[p])'
  BY <1>1, <1>3 DEF Types, CallsFit, CallFits, Initing, Logged
<1>8. call[p].mj = 0 /\ mem[p].acct.remaining \in Nat
  BY <1>1 DEF Types, CallsFit, CallFits, Initing, ProcsTyped, WorldType, AccountType
<1>6. OwnTyped(p)
  BY <1>1, <1>3, <1>5, <1>8 DEF OwnTyped, Owes, Types, ProcsTyped
<1>7. DiskTyped'
  BY <1>1 DEF Types, DiskTyped
<1> QED
  BY <1>1, <1>4, <1>6, <1>7, StepTyped DEF Types, ProcsTyped

\* A call that takes the lock has arguments of its kind.
LEMMA BeginTyped ==
    ASSUME Types, NEW p \in Procs, NEW c \in CallType, Begin(p, c),
           c.op \in Ops \ {"init"},
           IF c.op \in Seen THEN c.addr \in Addrs /\ c.data \in Contents
           ELSE c.addr = Nothing /\ c.data = Nothing
    PROVE  Types' /\ Moves(p)
<1>1. /\ pc[p] = "idle" /\ lock = Nobody /\ lock' = p /\ c.mj <= mem[p].acct.remaining
      /\ call' = [call EXCEPT ![p] = c]
      /\ pc' = [pc EXCEPT ![p] = IF c.op = "act" THEN "stage" ELSE "append"]
      /\ UNCHANGED <<disk, mem, todo, nextId, acked, faults>>
  BY DEF Begin, Acquire, Goto, CanPay
<1>2. /\ pc'[p] = (IF c.op = "act" THEN "stage" ELSE "append") /\ call'[p] = c
      /\ pc'[p] \in PCs /\ pc'[p] \in Holding
  BY <1>1 DEF Types, ProcsTyped, PCs, Calling, Holding
<1>3. Moves(p)
  BY <1>1, <1>2 DEF Types, ProcsTyped, Moves, Recorded, disk
<1>4. CallFits(pc[p], call[p])'
  BY <1>2 DEF CallFits, Initing, Logged, Seen
<1>5. OwnTyped(p)
  BY <1>1, <1>2, <1>4 DEF OwnTyped, Owes, Types, ProcsTyped
<1>6. DiskTyped'
  BY <1>1 DEF Types, DiskTyped, disk
<1> QED
  BY <1>1, <1>3, <1>5, <1>6, StepTyped DEF Types, ProcsTyped

\* The calls of propose that the guards let through.
Calls(p) ==
    \/ \E mj \in Spends : BeginPlan(p, mj)
    \/ \E spend \in Spends \cup {0} : BeginFailed(p, spend)
    \/ BeginFinish(p)
    \/ \E a \in Addrs : BeginObserve(p, a)
    \/ \E a \in Addrs, data \in Contents : BeginAct(p, a, data)

\* Whoever calls, with whatever arguments the code takes, stays well-formed.
LEMMA CallsTyped ==
    ASSUME Types, NEW p \in Procs, Calls(p)
    PROVE  /\ Types' /\ Moves(p)
           /\ \E c : Begin(p, c)
<1> DEFINE Fits(c) == /\ c \in CallType /\ c.op \in Ops \ {"init"}
                      /\ IF c.op \in Seen THEN c.addr \in Addrs /\ c.data \in Contents
                         ELSE c.addr = Nothing /\ c.data = Nothing
<1>1. SUFFICES \E c : Fits(c) /\ Begin(p, c)
  BY BeginTyped
<1>2. Nothing \notin Contents /\ Spends \subseteq Nat /\ Place \in [Addrs -> Paths]
  BY ContentsAssumption, StoreAssumption
<1> USE DEF CallOf, CallType, NoId, NotAttempted, Ops, Seen
<1>3. CASE \E mj \in Spends : BeginPlan(p, mj)
  <2>1. PICK mj \in Spends : BeginPlan(p, mj)
    BY <1>3
  <2>2. Fits(CallOf("plan", Nothing, Nothing, mj, NotAttempted))
    BY <1>2
  <2> QED
    BY <2>1, <2>2 DEF BeginPlan
<1>4. CASE \E spend \in Spends \cup {0} : BeginFailed(p, spend)
  <2>1. PICK spend \in Spends \cup {0} : BeginFailed(p, spend)
    BY <1>4
  <2> DEFINE left == mem[p].acct.remaining
             least == IF spend < left THEN spend ELSE left
             tried == IF spend > left THEN spend ELSE NotAttempted
  <2>2. left \in Nat /\ spend \in Nat
    BY <1>2 DEF Types, ProcsTyped, WorldType, AccountType
  <2>3. least \in Nat /\ tried \in Int
    BY <2>2
  <2>4. Begin(p, CallOf("failed", Nothing, Nothing, least, tried))
    BY <2>1 DEF BeginFailed
  <2> HIDE DEF least, tried
  <2>5. Fits(CallOf("failed", Nothing, Nothing, least, tried))
    BY <2>3
  <2> QED
    BY <2>4, <2>5
<1>5. CASE BeginFinish(p)
  <2>1. Fits(CallOf("finish", Nothing, Nothing, 0, NotAttempted))
    OBVIOUS
  <2> QED
    BY <1>5, <2>1 DEF BeginFinish
<1>6. CASE \E a \in Addrs : BeginObserve(p, a)
  <2>1. PICK a \in Addrs : BeginObserve(p, a)
    BY <1>6
  <2>2. files[Place[a]] \in Contents
    BY <1>2, <2>1 DEF BeginObserve, Types, DiskTyped
  <2>3. PICK data \in Contents, mj \in Nat :
           Begin(p, CallOf("observe", a, data, mj, NotAttempted))
    BY <2>1, <2>2, CostsNatural DEF BeginObserve
  <2>4. Fits(CallOf("observe", a, data, mj, NotAttempted))
    OBVIOUS
  <2> QED
    BY <2>3, <2>4
<1>7. CASE \E a \in Addrs, data \in Contents : BeginAct(p, a, data)
  <2>1. PICK a \in Addrs, data \in Contents : BeginAct(p, a, data)
    BY <1>7
  <2>2. PICK mj \in Nat : Begin(p, CallOf("act", a, data, mj, NotAttempted))
    BY <2>1, CostsNatural DEF BeginAct
  <2>3. Fits(CallOf("act", a, data, mj, NotAttempted))
    OBVIOUS
  <2> QED
    BY <2>2, <2>3
<1> QED
  BY <1>3, <1>4, <1>5, <1>6, <1>7 DEF Calls

\* Staging hands out an id and writes a part file under it.
LEMMA StageTyped ==
    ASSUME Types, NEW p \in Procs, Stage(p)
    PROVE  Types' /\ Moves(p)
<1>1. /\ pc[p] = "stage"
      /\ staged' = staged \cup {[id |-> nextId, data |-> call[p].data]}
      /\ call' = [call EXCEPT ![p].id = nextId] /\ nextId' = nextId + 1
      /\ pc' = [pc EXCEPT ![p] = "append"]
      /\ UNCHANGED <<made, header, log, ended, energyFile, cellsFile, files, lock,
                     mem, todo, acked, faults>>
  BY DEF Stage, Goto
<1>2. /\ call[p] \in CallType /\ call[p].op = "act" /\ call[p].addr \in Addrs
      /\ call[p].data \in Contents /\ nextId \in Nat \ {0} /\ lock = p
  BY <1>1 DEF Types, ProcsTyped, CallsFit, CallFits, Holding, PCs, Calling, Seen
<1>3. /\ call'[p] \in CallType /\ call'[p].op = "act" /\ call'[p].id = nextId
      /\ call'[p].addr = call[p].addr /\ call'[p].data = call[p].data
      /\ call'[p].mj = call[p].mj /\ call' = [call EXCEPT ![p] = call'[p]]
  BY <1>1, <1>2 DEF Types, ProcsTyped, CallType
<1>4. pc'[p] = "append" /\ pc'[p] \in PCs /\ pc'[p] \in Holding
  BY <1>1 DEF Types, ProcsTyped, PCs, Calling, Holding
<1>5. Moves(p)
  BY <1>1, <1>2, <1>3, <1>4 DEF Types, ProcsTyped, Moves, Recorded
<1>6. CallFits(pc[p], call[p])'
  BY <1>1, <1>2, <1>3, <1>4 DEF CallFits, Initing, Logged, Seen, Ops
<1>10. call[p].mj <= mem[p].acct.remaining
  BY <1>1 DEF Types, CallsPaid, Owes
<1>7. OwnTyped(p)
  BY <1>1, <1>3, <1>4, <1>6, <1>10 DEF OwnTyped, Owes, Types, ProcsTyped
<1>8. DiskTyped'
  BY <1>1, <1>2 DEF Types, DiskTyped
<1>9. acked' \in SUBSET (1..(nextId' - 1))
  BY <1>1 DEF Types, ProcsTyped
<1> QED
  BY <1>1, <1>5, <1>7, <1>8, <1>9, StepTyped DEF Types, ProcsTyped

\* store.append puts a whole event on the log and in memory.
LEMMA AppendEventTyped ==
    ASSUME Types, NEW p \in Procs, AppendEvent(p)
    PROVE  Types' /\ Moves(p)
<1> DEFINE w == [mem[p] EXCEPT
                    !.events = Append(@, Pending(p)),
                    !.acct = IF call[p].op = "act" THEN @ ELSE Debit(@, call[p].mj),
                    !.cells = IF call[p].op = "observe"
                              THEN [@ EXCEPT ![call[p].addr] = call[p].data] ELSE @]
           at == IF pc[p] = "initAppend" THEN "initEnergy"
                 ELSE IF call[p].op = "act" THEN "replace" ELSE "saveEnergy"
<1>1. /\ pc[p] \in {"append", "initAppend"}
      /\ log' = Write(log, Pending(p)) /\ ended' = TRUE
      /\ nextId' = NextIdAfterAppend(p)
      /\ call' = [call EXCEPT ![p].id = Pending(p).id]
      /\ mem' = [mem EXCEPT ![p] = w]
      /\ pc' = [pc EXCEPT ![p] = at]
      /\ UNCHANGED <<made, header, energyFile, cellsFile, staged, files, lock,
                     todo, acked, faults>>
  BY DEF AppendEvent, LogAfter, Goto, Remember
<1>2. /\ Pending(p) \in Stored /\ Pending(p).id \in 1..(nextId' - 1)
      /\ nextId' \in Nat /\ nextId <= nextId' /\ nextId \in Nat
  BY <1>1, PendingStored DEF Types, ProcsTyped
<1>3. /\ call[p] \in CallType /\ lock = p /\ mem[p] \in WorldType
      /\ CallFits(pc[p], call[p])
  BY <1>1 DEF Types, ProcsTyped, CallsFit, Holding, PCs, Opening, Calling
<1>4. w \in WorldType
  <2>1. /\ mem[p].events \in Seq(Stored) /\ mem[p].acct \in AccountType
        /\ mem[p].cells \in IndexType /\ call[p].mj \in Nat
        /\ mem[p] = [events |-> mem[p].events, acct |-> mem[p].acct,
                     cells |-> mem[p].cells]
    BY <1>3 DEF WorldType, CallType
  <2> DEFINE c == call[p]
             e0 == mem[p].events
             a0 == mem[p].acct
             c0 == mem[p].cells
             e1 == Append(e0, Pending(p))
             a1 == IF c.op = "act" THEN a0 ELSE Debit(a0, c.mj)
             c1 == IF c.op = "observe" THEN [c0 EXCEPT ![c.addr] = c.data] ELSE c0
  <2>2. a1 \in AccountType
    <3>1. c.mj <= a0.remaining
      BY <1>1 DEF Types, CallsPaid, Owes
    <3> QED
      BY <2>1, <3>1, DebitTyped
  <2>3. e1 \in Seq(Stored)
    BY <1>2, <2>1, AppendProperties
  <2>4. c1 \in IndexType
    BY <1>3, <2>1 DEF IndexType, CallFits, Seen
  <2>5. w = [events |-> e1, acct |-> a1, cells |-> c1]
    <3> DEFINE w0 == [events |-> e0, acct |-> a0, cells |-> c0]
               w1 == [w0 EXCEPT !.events = e1]
               w2 == [w1 EXCEPT !.acct = IF c.op = "act" THEN @ ELSE Debit(@, c.mj)]
    <3>1. mem[p] = w0
      BY <2>1
    <3>2. w = [w2 EXCEPT !.cells = IF c.op = "observe"
                                   THEN [@ EXCEPT ![c.addr] = c.data] ELSE @]
      BY <3>1
    <3> HIDE DEF e0, a0, c0, e1
    <3>3. w1 = [events |-> e1, acct |-> a0, cells |-> c0]
      OBVIOUS
    <3> HIDE DEF w1
    <3>4. w2 = [events |-> e1, acct |-> a1, cells |-> c0]
      BY <3>3
    <3> HIDE DEF w2, a1
    <3>5. w2.cells = c0 /\ [w2 EXCEPT !.cells = c1] = [events |-> e1, acct |-> a1, cells |-> c1]
      BY <3>4
    <3> QED
      BY <3>2, <3>5
  <2> QED
    BY <2>2, <2>3, <2>4, <2>5 DEF WorldType
<1>13. call[p].op = "act" => w.acct = mem[p].acct
  BY <1>3 DEF WorldType
<1> HIDE DEF w
<1>5. /\ call'[p] \in CallType /\ call'[p].id = Pending(p).id
      /\ call'[p].op = call[p].op /\ call'[p].addr = call[p].addr
      /\ call'[p].data = call[p].data /\ call'[p].mj = call[p].mj
      /\ call' = [call EXCEPT ![p] = call'[p]]
  <2>1. Pending(p).id \in Nat
    BY <1>2
  <2> QED
    BY <1>1, <1>3, <2>1 DEF Types, ProcsTyped, CallType
<1>6. pc'[p] = at /\ at \in PCs /\ at \in Holding /\ mem'[p] = w
  BY <1>1 DEF Types, ProcsTyped, PCs, Calling, Opening, Holding
<1>7. pc[p] \in Holding
  BY <1>1 DEF Holding, PCs, Opening, Calling
<1>8. Moves(p)
  BY <1>1, <1>2, <1>3, <1>5, <1>6, <1>7 DEF Types, ProcsTyped, Moves
<1>9. CallFits(pc[p], call[p])'
  BY <1>1, <1>2, <1>3, <1>5, <1>6 DEF CallFits, Initing, Logged, Seen
<1>14. Owes(pc[p], call[p], mem[p])'
  <2>1. Owes(pc[p], call[p], mem[p])
    BY DEF Types, CallsPaid
  <2> QED
    BY <1>1, <1>5, <1>6, <1>13, <2>1 DEF Owes
<1>10. OwnTyped(p)
  BY <1>1, <1>4, <1>5, <1>6, <1>9, <1>14 DEF OwnTyped, Types, ProcsTyped
<1>11. DiskTyped'
  <2>1. log' \in Lines
    BY <1>1, <1>2, WriteTyped DEF Piece, Types, DiskTyped
  <2>2. \A s \in staged : s.id \in Nat /\ s.id < nextId
    BY DEF Types, DiskTyped
  <2>3. \A s \in staged' : s.id < nextId'
    BY <1>1, <1>2, <2>2
  <2> QED
    BY <1>1, <2>1, <2>3 DEF Types, DiskTyped
<1>12. acked' \in SUBSET (1..(nextId' - 1))
  <2>1. \A i \in 1..(nextId - 1) : i \in 1..(nextId' - 1)
    BY <1>2, IdsWiden
  <2> QED
    BY <1>1, <2>1 DEF Types, ProcsTyped
<1> QED
  BY <1>1, <1>8, <1>10, <1>11, <1>12, StepTyped DEF Types, ProcsTyped

\* What recover_writes looks at are Acts of the log.
LEMMA LastActsStored ==
    ASSUME NEW evs \in Seq(Stored), NEW i \in LastActs(evs)
    PROVE  /\ i \in 1..Len(evs) /\ i \in Nat /\ evs[i] \in Stored
           /\ evs[i].op = "act" /\ evs[i].addr \in Addrs
           /\ evs[i].digest \in Contents /\ evs[i].id \in Nat
<1>1. i \in 1..Len(evs) /\ IsLastAct(evs, i) /\ Len(evs) \in Nat
  BY DEF LastActs
<1>2. evs[i] \in Stored
  BY <1>1, ElementOfSeq
<1> QED
  BY <1>1, <1>2 DEF IsLastAct, Stored, EventType, Seen

\* commit_write, the debit and the index change one file, one account, one entry.
LEMMA ReplaceTyped ==
    ASSUME Types, NEW p \in Procs, Replace(p)
    PROVE  Types' /\ Moves(p)
<1> DEFINE w == [mem[p] EXCEPT !.acct = Debit(@, call[p].mj),
                               !.cells[call[p].addr] = call[p].data]
<1>1. /\ pc[p] = "replace"
      /\ files' = [files EXCEPT ![Place[call[p].addr]] = call[p].data]
      /\ staged' = {s \in staged : s.id # call[p].id}
      /\ mem' = [mem EXCEPT ![p] = w]
      /\ pc' = [pc EXCEPT ![p] = "saveEnergy"]
      /\ UNCHANGED <<made, header, log, ended, energyFile, cellsFile, lock, call,
                     todo, nextId, acked, faults>>
  BY DEF Replace, Goto, Remember
<1>2. /\ call[p] \in CallType /\ call[p].op = "act" /\ call[p].addr \in Addrs
      /\ call[p].data \in Contents /\ lock = p /\ mem[p] \in WorldType
      /\ call[p].mj \in Nat /\ CallFits(pc[p], call[p])
      /\ call[p].mj <= mem[p].acct.remaining
  BY <1>1 DEF Types, ProcsTyped, CallsFit, CallFits, CallType, Holding, PCs, Calling,
              Seen, CallsPaid, Owes
<1>3. w \in WorldType
  <2> DEFINE e0 == mem[p].events
             a0 == mem[p].acct
             c0 == mem[p].cells
             a1 == Debit(a0, call[p].mj)
             c1 == [c0 EXCEPT ![call[p].addr] = call[p].data]
             w0 == [events |-> e0, acct |-> a0, cells |-> c0]
             w1 == [w0 EXCEPT !.acct = a1]
  <2>1. /\ mem[p] = w0 /\ e0 \in Seq(Stored) /\ a0 \in AccountType
        /\ c0 \in IndexType
    BY <1>2 DEF WorldType
  <2>2. a1 \in AccountType
    BY <1>2, <2>1, DebitTyped
  <2>3. c1 \in IndexType
    BY <1>2, <2>1 DEF IndexType
  <2>4. w = [w1 EXCEPT !.cells = [w1.cells EXCEPT ![call[p].addr] = call[p].data]]
    BY <2>1
  <2> HIDE DEF e0, a0, c0, a1
  <2>5. w1 = [events |-> e0, acct |-> a1, cells |-> c0]
    OBVIOUS
  <2> HIDE DEF w1
  <2>6. w1.cells = c0
    BY <2>5
  <2> HIDE DEF c1
  <2>7. [w1 EXCEPT !.cells = c1] = [events |-> e0, acct |-> a1, cells |-> c1]
    BY <2>5
  <2>8. w = [events |-> e0, acct |-> a1, cells |-> c1]
    BY <2>4, <2>6, <2>7 DEF c1
  <2> QED
    BY <2>1, <2>2, <2>3, <2>8 DEF WorldType
<1> HIDE DEF w
<1>4. pc'[p] = "saveEnergy" /\ pc'[p] \in PCs /\ pc'[p] \in Holding /\ mem'[p] = w
  BY <1>1 DEF Types, ProcsTyped, PCs, Calling, Holding
<1>5. Moves(p)
  BY <1>1, <1>2, <1>4 DEF Types, ProcsTyped, Moves, Recorded
<1>6. CallFits(pc[p], call[p])'
  BY <1>1, <1>2, <1>4 DEF CallFits, Initing, Logged, Seen, Ops
<1>7. OwnTyped(p)
  BY <1>1, <1>3, <1>4, <1>6 DEF OwnTyped, Owes, Types, ProcsTyped
<1>8. DiskTyped'
  <2>1. Place[call[p].addr] \in Paths
    BY <1>2, StoreAssumption
  <2>2. files' \in [Paths -> Contents \cup {Nothing}]
    BY <1>1, <1>2, <2>1 DEF Types, DiskTyped
  <2> QED
    BY <1>1, <2>2 DEF Types, DiskTyped
<1> QED
  BY <1>1, <1>5, <1>7, <1>8, StepTyped DEF Types, ProcsTyped

\* energy.json is the account of the process that writes it.
LEMMA SaveEnergyTyped ==
    ASSUME Types, NEW p \in Procs, SaveEnergy(p)
    PROVE  Types' /\ Moves(p)
<1> DEFINE at == IF pc[p] = "initEnergy" THEN "initCells" ELSE "saveCells"
<1>1. /\ pc[p] \in {"saveEnergy", "initEnergy"} /\ energyFile' = mem[p].acct
      /\ pc' = [pc EXCEPT ![p] = at]
      /\ UNCHANGED <<made, header, log, ended, cellsFile, staged, files, lock,
                     mem, call, todo, nextId, acked, faults>>
  BY DEF SaveEnergy, Goto
<1>2. lock = p /\ CallFits(pc[p], call[p])
  BY <1>1 DEF Types, ProcsTyped, CallsFit, Holding, PCs, Opening, Calling
<1>3. pc'[p] = at /\ pc'[p] \in PCs /\ pc'[p] \in Holding
  BY <1>1 DEF Types, ProcsTyped, PCs, Calling, Opening, Holding
<1>4. Moves(p)
  BY <1>1, <1>2, <1>3 DEF Types, ProcsTyped, Moves, Recorded
<1>5. CallFits(pc[p], call[p])'
  BY <1>1, <1>2, <1>3 DEF CallFits, Initing, Logged, Seen
<1>6. OwnTyped(p)
  BY <1>1, <1>3, <1>5 DEF OwnTyped, Owes, Types, ProcsTyped
<1>7. DiskTyped'
  BY <1>1 DEF Types, DiskTyped, ProcsTyped, WorldType
<1> QED
  BY <1>1, <1>4, <1>6, <1>7, StepTyped DEF Types, ProcsTyped

\* cells.json is the index of the process that writes it, and the id
\* acknowledged is one that was handed out.
LEMMA SaveCellsTyped ==
    ASSUME Types, NEW p \in Procs, SaveCells(p)
    PROVE  Types' /\ Moves(p)
<1>1. /\ pc[p] \in {"saveCells", "initCells"} /\ cellsFile' = mem[p].cells
      /\ UNCHANGED <<made, header, log, ended, energyFile, staged, files, nextId,
                     faults>>
      /\ \/ Gone(p) /\ UNCHANGED acked
         \/ Raised(p) /\ (acked' = acked \cup {call[p].id} \/ UNCHANGED acked)
  BY DEF SaveCells
<1>2. nextId \in Nat /\ nextId' = nextId /\ Recorded' = Recorded
      /\ call[p].id \in 1..(nextId - 1)
  BY <1>1 DEF Types, ProcsTyped, CallsFit, CallFits, Logged, Recorded
<1>3. Moves(p) /\ OwnTyped(p)
  BY <1>1, <1>2, GoneMoves, RaisedMoves
<1>4. DiskTyped'
  BY <1>1 DEF Types, DiskTyped, ProcsTyped, WorldType
<1>5. acked' \in SUBSET (1..(nextId' - 1))
  BY <1>1, <1>2 DEF Types, ProcsTyped
<1> QED
  BY <1>1, <1>3, <1>4, <1>5, StepTyped DEF Types, ProcsTyped

\* World.load takes the lock.
LEMMA LoadBeginTyped ==
    ASSUME Types, NEW p \in Procs, LoadBegin(p)
    PROVE  Types' /\ Moves(p)
<1>1. /\ pc[p] = "out" /\ lock = Nobody /\ lock' = p
      /\ pc' = [pc EXCEPT ![p] = "loadEvents"] /\ made' = TRUE
      /\ UNCHANGED <<header, log, ended, energyFile, cellsFile, staged, files, mem,
                     call, todo, nextId, acked, faults>>
  BY DEF LoadBegin, MayOpen, Acquire, Goto
<1>2. pc'[p] = "loadEvents" /\ pc'[p] \in PCs /\ pc'[p] \in Holding
  BY <1>1 DEF Types, ProcsTyped, PCs, Opening, Holding
<1>3. Moves(p)
  BY <1>1, <1>2 DEF Types, ProcsTyped, Moves, Recorded, disk
<1>4. CallFits(pc[p], call[p])'
  BY <1>1, <1>2 DEF Types, CallsFit, CallFits, Initing, Logged
<1>5. OwnTyped(p)
  BY <1>1, <1>2, <1>4 DEF OwnTyped, Owes, Types, ProcsTyped
<1>6. DiskTyped'
  BY <1>1 DEF Types, DiskTyped, disk
<1> QED
  BY <1>1, <1>3, <1>5, <1>6, StepTyped DEF Types, ProcsTyped

\* load_events refuses, or goes on with the events it read, which a repair
\* of the torn tail leaves as they are.
LEMMA LoadEventsTyped ==
    ASSUME Types, NEW p \in Procs, NEW truncate \in BOOLEAN,
           LoadEvents(p, truncate)
    PROVE  /\ Types' /\ Moves(p) /\ Recorded' = Recorded
           /\ \/ Gone(p) /\ UNCHANGED <<log, ended>>
              \/ /\ pc'[p] = "recover" /\ todo'[p] = LastActs(Recorded)
                 /\ LogStatus(log) = "clean" \/ (LogStatus(log) = "torn" /\ truncate)
                 /\ AllLinesParse(log') /\ ended' = (ended \/ truncate)
                 /\ UNCHANGED <<mem, call, refusal>>
<1> DEFINE status == LogStatus(log)
           refuse == IF status = "corrupt" THEN "corrupt log"
                     ELSE IF status = "torn" /\ ~truncate THEN "TruncatedLog"
                     ELSE IF status = "clean" /\ truncate THEN "ValueError"
                     ELSE "none"
<1>0. /\ pc[p] = "loadEvents"
      /\ UNCHANGED <<made, header, energyFile, cellsFile, staged, files, nextId,
                     acked, faults>>
  BY DEF LoadEvents
<1>1. /\ pc[p] = "loadEvents" /\ log \in Lines
      /\ UNCHANGED <<made, header, energyFile, cellsFile, staged, files, nextId,
                     acked, faults>>
      /\ nextId' \in Nat /\ nextId <= nextId'
  BY <1>0 DEF Types, DiskTyped, ProcsTyped
<1>2. CASE refuse # "none"
  <2>1. Gone(p) /\ UNCHANGED <<log, ended>>
    BY <1>2 DEF LoadEvents, RefuseOpen
  <2>2. Recorded' = Recorded
    BY <2>1 DEF Recorded
  <2>3. Moves(p) /\ OwnTyped(p)
    BY <1>1, <2>1, <2>2, GoneMoves
  <2>4. DiskTyped'
    BY <1>1, <2>1 DEF Types, DiskTyped
  <2> QED
    BY <1>1, <2>1, <2>2, <2>3, <2>4, StepTyped DEF Types, ProcsTyped
<1>3. CASE refuse = "none"
  <2>1. /\ todo' = [todo EXCEPT ![p] = LastActs(Recorded)]
        /\ log' = IF truncate THEN Rewritten(log) ELSE log
        /\ ended' = (ended \/ truncate)
        /\ pc' = [pc EXCEPT ![p] = "recover"]
        /\ UNCHANGED <<lock, mem, call, refusal>>
    BY <1>3 DEF LoadEvents, Goto, Recorded
  <2>2. (status = "clean" /\ ~truncate) \/ (status = "torn" /\ truncate)
    <3>1. status \in {"clean", "torn", "corrupt"}
      BY DEF LogStatus
    <3> QED
      BY <1>3, <3>1
  <2>3. log' \in Lines /\ Events(log') = Events(log) /\ AllLinesParse(log')
    BY <1>1, <2>1, <2>2, StatusTells, RepairKeepsEvents
  <2>4. pc'[p] = "recover" /\ pc'[p] \in PCs /\ pc'[p] \in Holding /\ lock = p
        /\ todo'[p] = LastActs(Recorded) /\ Recorded' = Recorded
    BY <1>1, <2>1, <2>3 DEF Types, ProcsTyped, PCs, Opening, Holding, Recorded
  <2>5. Moves(p)
    BY <1>1, <2>1, <2>4 DEF Types, ProcsTyped, Moves
  <2>6. CallFits(pc[p], call[p])'
    BY <1>1, <2>1, <2>4 DEF Types, CallsFit, CallFits, Initing, Logged
  <2>7. LastActs(Recorded) \in SUBSET Nat
    BY DEF LastActs
  <2>8. OwnTyped(p)
    BY <1>1, <2>1, <2>4, <2>6, <2>7 DEF OwnTyped, Owes, Types, ProcsTyped
  <2>9. ended' \in BOOLEAN
    BY <2>1
  <2>10. DiskTyped'
    BY <1>1, <2>3, <2>9 DEF Types, DiskTyped
  <2> QED
    BY <1>1, <2>1, <2>2, <2>3, <2>4, <2>5, <2>8, <2>10, StepTyped
       DEF Types, ProcsTyped
<1> QED
  BY <1>2, <1>3

\* _recover_act puts an Act's own bytes in its own file.
LEMMA RecoverActTyped ==
    ASSUME Types, NEW p \in Procs, NEW i \in todo[p], RecoverAct(p, i)
    PROVE  Types' /\ Moves(p)
<1> DEFINE e == Recorded[i]
<1>1. /\ pc[p] = "recover"
      /\ files' = [files EXCEPT ![Place[e.addr]] = e.digest]
      /\ staged' = {s \in staged : s.id # e.id}
      /\ todo' = [todo EXCEPT ![p] = @ \ {i}]
      /\ UNCHANGED <<made, header, log, ended, energyFile, cellsFile, lock, pc, mem,
                     call, nextId, acked, faults>>
  BY DEF RecoverAct, Recorded
<1>2. Recorded \in Seq(Stored)
  BY EventsTyped DEF Types, DiskTyped, Recorded
<1>3. todo[p] \in SUBSET LastActs(Recorded) /\ pc[p] \in Holding /\ lock = p
      /\ pc[p] \in PCs
  BY <1>1 DEF Types, ProcsTyped, TodoFits, Holding, PCs, Opening
<1>4. e.addr \in Addrs /\ e.digest \in Contents
  BY <1>2, <1>3, LastActsStored
<1>5. Recorded' = Recorded /\ todo'[p] = todo[p] \ {i}
  BY <1>1 DEF Types, ProcsTyped, Recorded
<1>6. Moves(p)
  BY <1>1, <1>3, <1>5 DEF Types, ProcsTyped, Moves
<1>7. CallFits(pc[p], call[p])'
  BY <1>1 DEF Types, CallsFit, CallFits
<1>8. OwnTyped(p)
  BY <1>1, <1>3, <1>5, <1>7 DEF OwnTyped, Owes, Types, ProcsTyped
<1>9. DiskTyped'
  <2>1. Place[e.addr] \in Paths
    BY <1>4, StoreAssumption
  <2>2. files' \in [Paths -> Contents \cup {Nothing}]
    BY <1>1, <1>4, <2>1 DEF Types, DiskTyped
  <2> QED
    BY <1>1, <2>2 DEF Types, DiskTyped
<1> QED
  BY <1>1, <1>6, <1>8, <1>9, StepTyped DEF Types, ProcsTyped

\* The sweep of the staging area only removes part files.
LEMMA SweepTyped ==
    ASSUME Types, NEW p \in Procs, Sweep(p)
    PROVE  Types' /\ Moves(p)
<1>1. /\ pc[p] = "recover" /\ staged' \in SUBSET staged
      /\ UNCHANGED <<made, header, log, ended, energyFile, cellsFile, files, nextId,
                     acked, faults>>
      /\ Recorded' = Recorded /\ nextId' \in Nat /\ nextId <= nextId'
  BY DEF Sweep, Types, ProcsTyped, Recorded
<1>2. DiskTyped'
  BY <1>1 DEF Types, DiskTyped
<1>3. CASE todo[p] # {}
  <2>1. Gone(p)
    BY <1>3 DEF Sweep, RefuseOpen
  <2> QED
    BY <1>1, <1>2, <2>1, GoneMoves, StepTyped DEF Types, ProcsTyped
<1>4. CASE todo[p] = {}
  <2>1. pc' = [pc EXCEPT ![p] = "sweep"] /\ UNCHANGED <<lock, mem, call, todo>>
    BY <1>4 DEF Sweep, Goto
  <2>2. pc'[p] = "sweep" /\ pc'[p] \in PCs /\ pc'[p] \in Holding /\ lock = p
    BY <1>1, <2>1 DEF Types, ProcsTyped, PCs, Opening, Holding
  <2>3. Moves(p)
    BY <1>1, <2>1, <2>2 DEF Types, ProcsTyped, Moves
  <2>4. CallFits(pc[p], call[p])'
    BY <1>1, <2>1, <2>2 DEF Types, CallsFit, CallFits, Initing, Logged
  <2>5. OwnTyped(p)
    BY <1>1, <2>1, <2>2, <2>4 DEF OwnTyped, Owes, Types, ProcsTyped
  <2> QED
    BY <1>1, <1>2, <2>3, <2>5, StepTyped DEF Types, ProcsTyped
<1> QED
  BY <1>3, <1>4

\* The World that load builds is made of well-formed parts.
LEMMA CachedTyped ==
    ASSUME Types
    PROVE  /\ CachedCells \in IndexType
           /\ Replayable(Recorded, Cap) => Loaded(Recorded) \in WorldType
           /\ Recorded \in Seq(Stored)
<1>1. CachedCells \in IndexType
  BY NothingTyped DEF CachedCells, Types, DiskTyped
<1>2. Recorded \in Seq(Stored)
  BY EventsTyped DEF Types, DiskTyped, Recorded
<1>3. Replayable(Recorded, Cap) => ReplayAccount(Recorded, Cap) \in AccountType
  BY <1>2, ReplayTyped
<1> QED
  BY <1>1, <1>2, <1>3 DEF Loaded, WorldType

\* The end of World.load leaves a World in memory or a process that is gone.
LEMMA LoadWorldTyped ==
    ASSUME Types, NEW p \in Procs, LoadWorld(p)
    PROVE  Types' /\ Moves(p)
<1>1. /\ pc[p] = "sweep" /\ UNCHANGED <<disk, nextId, acked, faults>>
      /\ Recorded' = Recorded /\ nextId' \in Nat /\ nextId <= nextId'
      /\ \/ Gone(p)
         \/ /\ pc' = [pc EXCEPT ![p] = "idle"] /\ Replayable(Recorded, Cap)
            /\ lock' = IF lock = p THEN Nobody ELSE lock
            /\ mem' = [mem EXCEPT ![p] = Loaded(Recorded)]
            /\ UNCHANGED <<call, todo>>
  BY DEF LoadWorld, RefuseOpen, Goto, Release, Remember, Types, ProcsTyped,
         Recorded, disk
<1>2. DiskTyped'
  BY <1>1 DEF Types, DiskTyped, disk
<1>3. CASE Gone(p)
  BY <1>1, <1>2, <1>3, GoneMoves, StepTyped DEF Types, ProcsTyped
<1>4. CASE ~Gone(p)
  <2>1. /\ pc' = [pc EXCEPT ![p] = "idle"] /\ Replayable(Recorded, Cap)
        /\ lock' = IF lock = p THEN Nobody ELSE lock
        /\ mem' = [mem EXCEPT ![p] = Loaded(Recorded)]
        /\ UNCHANGED <<call, todo>>
    BY <1>1, <1>4
  <2>2. /\ pc'[p] = "idle" /\ pc'[p] \in PCs /\ pc'[p] \notin Holding
        /\ mem'[p] = Loaded(Recorded)
    BY <2>1 DEF Types, ProcsTyped, PCs, Holding
  <2>3. Moves(p)
    BY <1>1, <2>1, <2>2 DEF Types, ProcsTyped, Moves
  <2>4. CallFits(pc[p], call[p])'
    BY <1>1, <2>1, <2>2 DEF Types, CallsFit, CallFits, Initing, Logged
  <2>5. OwnTyped(p)
    BY <1>1, <2>1, <2>2, <2>4, CachedTyped DEF OwnTyped, Owes, Types, ProcsTyped
  <2> QED
    BY <1>1, <1>2, <2>3, <2>5, StepTyped DEF Types, ProcsTyped
<1> QED
  BY <1>3, <1>4

\* A process may end between calls.
LEMMA ExitTyped ==
    ASSUME Types, NEW p \in Procs, Exit(p)
    PROVE  Types' /\ Moves(p)
<1>1. /\ Gone(p) /\ UNCHANGED <<disk, nextId, acked, faults>>
      /\ Recorded' = Recorded /\ nextId' \in Nat /\ nextId <= nextId'
  BY DEF Exit, Types, ProcsTyped, Recorded, disk
<1>2. DiskTyped'
  BY <1>1 DEF Types, DiskTyped, disk
<1> QED
  BY <1>1, <1>2, GoneMoves, StepTyped DEF Types, ProcsTyped

\* A fault ends the process or the call.
LEMMA CutShortMoves ==
    ASSUME Types, NEW p \in Procs, NEW kind, CutShort(p, kind),
           nextId' \in Nat, nextId <= nextId',
           Recorded' = Recorded \/ pc[p] \in Holding
    PROVE  Moves(p) /\ OwnTyped(p) /\ faults' \in Nat
<1>1. Gone(p) \/ Raised(p)
  BY DEF CutShort
<1>2. faults' \in Nat
  BY DEF CutShort, Types, ProcsTyped
<1> QED
  BY <1>1, <1>2, GoneMoves, RaisedMoves

\* A fault between two steps changes nothing on the disk.
LEMMA InterruptTyped ==
    ASSUME Types, NEW p \in Procs, NEW kind, Interrupt(p, kind)
    PROVE  Types' /\ Moves(p)
<1>1. /\ CutShort(p, kind) /\ UNCHANGED <<disk, nextId, acked>>
      /\ Recorded' = Recorded /\ nextId' \in Nat /\ nextId <= nextId'
  BY DEF Interrupt, Types, ProcsTyped, Recorded, disk
<1>2. DiskTyped'
  BY <1>1 DEF Types, DiskTyped, disk
<1> QED
  BY <1>1, <1>2, CutShortMoves, StepTyped DEF Types, ProcsTyped

\* A fault while staging leaves a part file, whole or torn.
LEMMA InterruptStageTyped ==
    ASSUME Types, NEW p \in Procs, NEW kind, NEW data \in {Torn, call[p].data},
           InterruptStage(p, kind, data)
    PROVE  Types' /\ Moves(p)
<1>1. /\ pc[p] = "stage" /\ CutShort(p, kind)
      /\ staged' = staged \cup {[id |-> nextId, data |-> data]}
      /\ nextId' = nextId + 1
      /\ UNCHANGED <<made, header, log, ended, energyFile, cellsFile, files, acked>>
  BY DEF InterruptStage
<1>2. /\ nextId \in Nat /\ nextId' \in Nat /\ nextId <= nextId'
      /\ Recorded' = Recorded /\ call[p].data \in Contents
  BY <1>1 DEF Types, ProcsTyped, CallsFit, CallFits, Recorded, Seen
<1>3. Moves(p) /\ OwnTyped(p) /\ faults' \in Nat
  BY <1>1, <1>2, CutShortMoves
<1>4. DiskTyped'
  <2>1. data \in Contents \cup {Torn}
    BY <1>2
  <2> QED
    BY <1>1, <1>2, <2>1 DEF Types, DiskTyped
<1>5. acked' \in SUBSET (1..(nextId' - 1))
  BY <1>1, <1>2 DEF Types, ProcsTyped
<1> QED
  BY <1>3, <1>4, <1>5, StepTyped

\* A fault while appending leaves a line, whole or torn, and uses up the id.
LEMMA InterruptAppendTyped ==
    ASSUME Types, NEW p \in Procs, NEW kind, NEW tear,
           InterruptAppend(p, kind, tear)
    PROVE  Types' /\ Moves(p)
<1>1. /\ pc[p] \in {"append", "initAppend"} /\ CutShort(p, kind)
      /\ log' = Written(Pending(p), tear) /\ ended' = (tear = "all")
      /\ nextId' = NextIdAfterAppend(p)
      /\ UNCHANGED <<made, header, energyFile, cellsFile, staged, files, acked>>
  BY DEF InterruptAppend
<1>2. /\ nextId \in Nat /\ nextId' \in Nat /\ nextId <= nextId'
      /\ Pending(p) \in Stored /\ pc[p] \in Holding
  BY <1>1, PendingStored DEF Types, ProcsTyped, Holding, PCs, Opening, Calling
<1>3. Moves(p) /\ OwnTyped(p) /\ faults' \in Nat
  BY <1>1, <1>2, CutShortMoves
<1>4. DiskTyped'
  <2>1. log' \in Lines
    BY <1>1, <1>2, WriteTyped DEF Written, Piece, Types, DiskTyped
  <2>2. ended' \in BOOLEAN
    BY <1>1
  <2>3. \A s \in staged' : s.id < nextId'
    BY <1>1, <1>2 DEF Types, DiskTyped
  <2> QED
    BY <1>1, <2>1, <2>2, <2>3 DEF Types, DiskTyped
<1>5. acked' \in SUBSET (1..(nextId' - 1))
  BY <1>1, <1>2, IdsWiden DEF Types, ProcsTyped
<1> QED
  BY <1>3, <1>4, <1>5, StepTyped

-----------------------------------------------------------------------------
(* The types hold in every reachable state, whatever the constants.        *)

\* A step of one process.
StepOf(p) ==
    \/ InitMkdir(p) \/ LoadBegin(p) \/ Exit(p)
    \/ Calls(p)
    \/ Step(p)
    \/ Fault(p)

\* The state before World.init is well-formed.
LEMMA InitTyped ==
    ASSUME Init
    PROVE  Types
<1> USE DEF Init
<1>1. log \in Lines /\ nextId = 1
  BY EmptySeq DEF Lines
<1>2. DiskTyped
  BY <1>1, StoreAssumption DEF DiskTyped
<1>3. /\ pc \in [Procs -> PCs] /\ mem \in [Procs -> WorldType]
      /\ call \in [Procs -> CallType] /\ todo \in [Procs -> SUBSET Nat]
  BY NothingTyped DEF PCs
<1>4. \A p \in Procs : ~(lock = p) /\ ~(pc[p] \in Holding)
  BY StoreAssumption DEF Holding
<1>5. ProcsTyped
  BY <1>1, <1>3, <1>4 DEF ProcsTyped
<1>6. CallsFit
  BY DEF CallsFit, CallFits, NoCall, CallOf, Initing, Logged, Seen
<1>7. TodoFits /\ CallsPaid
  BY DEF TodoFits, CallsPaid, Owes
<1> QED
  BY <1>2, <1>5, <1>6, <1>7 DEF Types

\* Every step of every process keeps the types and moves that process only.
LEMMA StepsTyped ==
    ASSUME Types, NEW p \in Procs, StepOf(p)
    PROVE  Types' /\ Moves(p)
<1>1. CASE InitMkdir(p) \/ LoadBegin(p) \/ Exit(p)
  BY <1>1, InitMkdirTyped, LoadBeginTyped, ExitTyped
<1>2. CASE Calls(p)
  BY <1>2, CallsTyped
<1>4. CASE Step(p)
  <2>1. CASE InitLock(p) \/ InitHeader(p)
    BY <2>1, InitLockTyped, InitHeaderTyped
  <2>2. CASE Stage(p) \/ AppendEvent(p) \/ Replace(p) \/ SaveEnergy(p) \/ SaveCells(p)
    BY <2>2, StageTyped, AppendEventTyped, ReplaceTyped, SaveEnergyTyped, SaveCellsTyped
  <2>3. CASE \E truncate \in BOOLEAN : LoadEvents(p, truncate)
    BY <2>3, LoadEventsTyped
  <2>4. CASE \E i \in todo[p] : RecoverAct(p, i)
    BY <2>4, RecoverActTyped
  <2>5. CASE Sweep(p) \/ LoadWorld(p)
    BY <2>5, SweepTyped, LoadWorldTyped
  <2> QED
    BY <1>4, <2>1, <2>2, <2>3, <2>4, <2>5 DEF Step
<1>5. CASE Fault(p)
  <2>1. PICK kind \in Faults :
          \/ Interrupt(p, kind)
          \/ \E data \in {Torn, call[p].data} : InterruptStage(p, kind, data)
          \/ \E tear \in Tears : InterruptAppend(p, kind, tear)
    BY <1>5 DEF Fault
  <2> QED
    BY <2>1, InterruptTyped, InterruptStageTyped, InterruptAppendTyped
<1> QED
  BY <1>1, <1>2, <1>4, <1>5 DEF StepOf

\* Nothing changes if nothing changes.
LEMMA StutterTyped ==
    ASSUME Types, UNCHANGED vars
    PROVE  Types'
<1> USE DEF vars, disk
<1>1. Recorded' = Recorded
  BY DEF Recorded
<1>2. DiskTyped' /\ ProcsTyped'
  BY DEF Types, DiskTyped, ProcsTyped
<1>3. CallsFit' /\ CallsPaid'
  BY DEF Types, CallsFit, CallFits, CallsPaid
<1>4. TodoFits'
  BY <1>1 DEF Types, TodoFits
<1> QED
  BY <1>2, <1>3, <1>4 DEF Types

\* The types are inductive.
LEMMA NextTyped ==
    ASSUME Types, [Next]_vars
    PROVE  Types'
<1>1. CASE Next
  <2>1. PICK p \in Procs : StepOf(p)
    BY <1>1 DEF Next, StepOf, Calls
  <2> QED
    BY <2>1, StepsTyped
<1> QED
  BY <1>1, StutterTyped

\* They are at least what TypeOK asks.
LEMMA TypesSuffice ==
    ASSUME Types
    PROVE  TypeOK
<1> USE DEF Types
<1>1. \A i \in 1..Len(log) : \A j \in 1..Len(log[i]) :
          log[i][j] = Torn \/ log[i][j] \in EventType
  <2> SUFFICES ASSUME NEW i \in 1..Len(log), NEW j \in 1..Len(log[i])
               PROVE  log[i][j] = Torn \/ log[i][j] \in EventType
    OBVIOUS
  <2>1. log[i] \in Seq(Piece)
    BY ElementOfSeq DEF DiskTyped, Lines
  <2>2. log[i][j] \in Piece
    BY <2>1, ElementOfSeq
  <2> QED
    BY <2>2 DEF Piece, Stored
<1>2. \A p \in Procs : /\ mem[p].events \in Seq(EventType) /\ mem[p].acct \in AccountType
                       /\ lock = p <=> pc[p] \notin {"out", "idle", "initLock"}
  <2> SUFFICES ASSUME NEW p \in Procs
               PROVE  /\ mem[p].events \in Seq(EventType) /\ mem[p].acct \in AccountType
                      /\ lock = p <=> pc[p] \notin {"out", "idle", "initLock"}
    OBVIOUS
  <2>1. mem[p] \in WorldType
    BY DEF ProcsTyped
  <2>2. mem[p].events \in Seq(EventType)
    BY <2>1, SpentNatural DEF WorldType
  <2> QED
    BY <2>1, <2>2 DEF WorldType, ProcsTyped, Holding
<1> QED
  BY <1>1, <1>2 DEF TypeOK, DiskTyped, ProcsTyped

\* For any processes, files, faults and tears: the disk, the lock and every
\* process of the store hold what the code can put there, and whoever is inside
\* a call or a load, and nobody else, has the lock.
THEOREM StoreTyped == Spec => []TypeOK
<1>1. Spec => []Types
  BY InitTyped, NextTyped, PTL DEF Spec
<1> QED
  BY <1>1, TypesSuffice, PTL

\* A lock-free reader takes no step of a writer.
LEMMA ReaderNextIsNext ==
    ASSUME [ReaderNext]_<<vars, readerVars>>
    PROVE  [Next]_vars
  BY DEF ReaderNext, ReadBegin, ReaderStep, ReadEvents, ReadCells

\* The same beside lock-free readers.
THEOREM ReaderTyped == ReaderSpec => []Types
<1>1. ReaderInit => Types
  BY InitTyped DEF ReaderInit
<1>2. Types /\ [ReaderNext]_<<vars, readerVars>> => Types'
  BY NextTyped, ReaderNextIsNext
<1> QED
  BY <1>1, <1>2, PTL DEF ReaderSpec

-----------------------------------------------------------------------------
(* Every call and every load is short.  That its next step can be taken is  *)
(* left to TLC; that each one brings the end closer is shown here, for any  *)
(* processes and under any faults.                                          *)

\* The steps ahead of a process at each place of a call or a load, the last
\* Acts that recover_writes looks at not counted.
Ahead ==
    [initLock |-> 5, initHeader |-> 4, initAppend |-> 3, initEnergy |-> 2,
     initCells |-> 1, stage |-> 5, append |-> 4, replace |-> 3,
     saveEnergy |-> 2, saveCells |-> 1, loadEvents |-> 3, recover |-> 2,
     sweep |-> 1, idle |-> 0, out |-> 0]

\* Those Acts: there are no more of them than events in the log.
ActsAhead(p) ==
    IF pc[p] = "loadEvents" THEN Len(Recorded)
    ELSE IF pc[p] = "recover" THEN Cardinality(todo[p]) ELSE 0

CallAhead(p) == Ahead[pc[p]] + ActsAhead(p)
InCall(p) == pc[p] \notin {"out", "idle"}

\* The places of a call, in their order.
LEMMA AheadOf ==
    /\ \A at \in PCs : Ahead[at] \in Nat /\ (Ahead[at] = 0 <=> at \in {"out", "idle"})
    /\ Ahead["initLock"] = 5 /\ Ahead["initHeader"] = 4 /\ Ahead["initAppend"] = 3
    /\ Ahead["initEnergy"] = 2 /\ Ahead["initCells"] = 1
    /\ Ahead["stage"] = 5 /\ Ahead["append"] = 4 /\ Ahead["replace"] = 3
    /\ Ahead["saveEnergy"] = 2 /\ Ahead["saveCells"] = 1
    /\ Ahead["loadEvents"] = 3 /\ Ahead["recover"] = 2 /\ Ahead["sweep"] = 1
  BY DEF Ahead, PCs, Opening, Calling

\* The events a reader gets have all passed the validator.
LEMMA RecordedTyped ==
    ASSUME Types
    PROVE  Recorded \in Seq(Stored) /\ Len(Recorded) \in Nat
  BY EventsTyped DEF Types, DiskTyped, Recorded

\* The Acts to look at are finitely many,
LEMMA LastActsFinite ==
    ASSUME NEW evs \in Seq(Stored), NEW S \in SUBSET LastActs(evs)
    PROVE  IsFiniteSet(S) /\ Cardinality(S) \in Nat /\ Cardinality(S) <= Len(evs)
<1>1. Len(evs) \in Nat
  OBVIOUS
<1>2. IsFiniteSet(1..Len(evs)) /\ Cardinality(1..Len(evs)) = Len(evs)
  BY <1>1, FS_Interval
<1>3. S \in SUBSET (1..Len(evs))
  BY DEF LastActs
<1>4. IsFiniteSet(S) /\ Cardinality(S) <= Len(evs)
  BY <1>2, <1>3, FS_Subset
<1> QED
  BY <1>4, FS_CardinalityType

\* so a process has a natural number of steps ahead, and none outside a call.
LEMMA CallAheadCount ==
    ASSUME Types, NEW p \in Procs
    PROVE  /\ ActsAhead(p) \in Nat /\ CallAhead(p) \in Nat
           /\ CallAhead(p) = 0 <=> ~InCall(p)
<1>1. ActsAhead(p) \in Nat
  <2>1. CASE pc[p] = "recover"
    <3>1. todo[p] \in SUBSET LastActs(Recorded)
      BY <2>1 DEF Types, TodoFits
    <3> QED
      BY <2>1, <3>1, RecordedTyped, LastActsFinite DEF ActsAhead
  <2> QED
    BY <2>1, RecordedTyped DEF ActsAhead
<1>2. pc[p] \in PCs
  BY DEF Types, ProcsTyped
<1>3. ~InCall(p) => ActsAhead(p) = 0
  BY DEF InCall, ActsAhead
<1> QED
  BY <1>1, <1>2, <1>3, AheadOf DEF CallAhead, InCall

\* So it is in the next state.
LEMMA CallAheadStays ==
    (Types => \A p \in Procs :
        /\ ActsAhead(p) \in Nat /\ CallAhead(p) \in Nat
        /\ CallAhead(p) = 0 <=> ~InCall(p))'
<1>1. Types => \A p \in Procs :
        /\ ActsAhead(p) \in Nat /\ CallAhead(p) \in Nat
        /\ CallAhead(p) = 0 <=> ~InCall(p)
  BY CallAheadCount
<1> QED
  BY <1>1, PTL

\* Each step of a call or a load goes to a later place, or takes one Act off
\* the list, which was taken from the log.
LEMMA StepDescends ==
    ASSUME Types, NEW p \in Procs, Step(p)
    PROVE  /\ InCall(p)
           /\ \/ /\ Ahead[pc'[p]] < Ahead[pc[p]]
                 /\ pc'[p] \notin {"loadEvents", "recover"}
              \/ /\ pc[p] = "loadEvents" /\ pc'[p] = "recover"
                 /\ todo'[p] = LastActs(Recorded)
              \/ /\ pc[p] = "recover" /\ pc'[p] = "recover"
                 /\ \E i \in todo[p] : todo'[p] = todo[p] \ {i}
<1>0. /\ \A at : Goto(p, at) => pc'[p] = at
      /\ Gone(p) => pc'[p] = "out"
      /\ Raised(p) => pc'[p] = "idle"
      /\ \A why : RefuseOpen(p, why) => pc'[p] = "out"
  BY DEF Goto, Gone, Raised, RefuseOpen, Types, ProcsTyped
<1>1. CASE pc'[p] \in {"out", "idle"} /\ InCall(p)
  <2>1. Ahead[pc'[p]] = 0
    BY <1>1 DEF Ahead
  <2>2. pc[p] \in PCs
    BY DEF Types, ProcsTyped
  <2>3. Ahead[pc[p]] \in Nat /\ Ahead[pc[p]] # 0
    BY <1>1, <2>2, AheadOf DEF InCall
  <2> QED
    BY <1>1, <2>1, <2>3
<1>2. CASE InitLock(p) \/ InitHeader(p)
  <2>1. \/ pc[p] = "initLock" /\ pc'[p] \in {"initHeader", "out"}
        \/ pc[p] = "initHeader" /\ pc'[p] = "initAppend"
    BY <1>0, <1>2 DEF InitLock, InitHeader
  <2> QED
    BY <1>1, <2>1, AheadOf DEF InCall
<1>3. CASE Stage(p) \/ AppendEvent(p) \/ Replace(p)
  <2>1. \/ pc[p] = "stage" /\ pc'[p] = "append"
        \/ pc[p] = "initAppend" /\ pc'[p] = "initEnergy"
        \/ pc[p] = "append" /\ pc'[p] \in {"replace", "saveEnergy"}
        \/ pc[p] = "replace" /\ pc'[p] = "saveEnergy"
    BY <1>0, <1>3 DEF Stage, AppendEvent, Replace
  <2> QED
    BY <2>1, AheadOf DEF InCall
<1>4. CASE SaveEnergy(p) \/ SaveCells(p)
  <2>1. \/ pc[p] = "saveEnergy" /\ pc'[p] = "saveCells"
        \/ pc[p] = "initEnergy" /\ pc'[p] = "initCells"
        \/ pc[p] \in {"saveCells", "initCells"} /\ pc'[p] \in {"out", "idle"}
    BY <1>0, <1>4 DEF SaveEnergy, SaveCells
  <2> QED
    BY <1>1, <2>1, AheadOf DEF InCall
<1>5. CASE \E truncate \in BOOLEAN : LoadEvents(p, truncate)
  <2>1. /\ pc[p] = "loadEvents"
        /\ \/ pc'[p] = "out"
           \/ pc'[p] = "recover" /\ todo' = [todo EXCEPT ![p] = LastActs(Recorded)]
    BY <1>0, <1>5 DEF LoadEvents, Recorded
  <2>2. todo' = [todo EXCEPT ![p] = LastActs(Recorded)]
          => todo'[p] = LastActs(Recorded)
    BY DEF Types, ProcsTyped
  <2> QED
    BY <1>1, <2>1, <2>2 DEF InCall
<1>6. CASE \E i \in todo[p] : RecoverAct(p, i)
  <2>1. PICK i \in todo[p] : RecoverAct(p, i)
    BY <1>6
  <2>2. pc[p] = "recover" /\ pc' = pc /\ todo' = [todo EXCEPT ![p] = @ \ {i}]
    BY <2>1 DEF RecoverAct
  <2>3. todo'[p] = todo[p] \ {i}
    BY <2>2 DEF Types, ProcsTyped
  <2> QED
    BY <2>2, <2>3 DEF InCall
<1>7. CASE Sweep(p) \/ LoadWorld(p)
  <2>1. \/ pc[p] = "recover" /\ pc'[p] \in {"sweep", "out"}
        \/ pc[p] = "sweep" /\ pc'[p] \in {"idle", "out"}
    BY <1>0, <1>7 DEF Sweep, LoadWorld
  <2> QED
    BY <1>1, <2>1, AheadOf DEF InCall
<1> QED
  BY <1>2, <1>3, <1>4, <1>5, <1>6, <1>7 DEF Step

\* Either way less of the call is ahead.
LEMMA StepShortens ==
    ASSUME Types, Types', NEW p \in Procs, Step(p)
    PROVE  CallAhead(p)' < CallAhead(p)
<1> DEFINE a == Ahead[pc[p]]
           b == Ahead[pc'[p]]
<1>1. a \in Nat /\ b \in Nat
  BY AheadOf DEF Types, ProcsTyped
<1>2. ActsAhead(p) \in Nat
  BY CallAheadCount
<1>3. CallAhead(p) = a + ActsAhead(p) /\ CallAhead(p)' = b + ActsAhead(p)'
  BY DEF CallAhead
<1>4. Recorded \in Seq(Stored) /\ Len(Recorded) \in Nat
  BY RecordedTyped
<1>5. CASE b < a /\ pc'[p] \notin {"loadEvents", "recover"}
  <2>1. ActsAhead(p)' = 0
    BY <1>5 DEF ActsAhead
  <2> HIDE DEF a, b
  <2> QED
    BY <1>1, <1>2, <1>3, <1>5, <2>1
<1>6. CASE /\ pc[p] = "loadEvents" /\ pc'[p] = "recover"
           /\ todo'[p] = LastActs(Recorded)
  <2>1. ActsAhead(p) = Len(Recorded) /\ ActsAhead(p)' = Cardinality(LastActs(Recorded))
    BY <1>6 DEF ActsAhead
  <2>2. /\ Cardinality(LastActs(Recorded)) \in Nat
        /\ Cardinality(LastActs(Recorded)) <= Len(Recorded)
    BY <1>4, LastActsFinite
  <2>3. a = 3 /\ b = 2
    BY <1>6, AheadOf
  <2> HIDE DEF a, b
  <2> QED
    BY <1>3, <1>4, <2>1, <2>2, <2>3
<1>7. CASE /\ pc[p] = "recover" /\ pc'[p] = "recover"
           /\ \E i \in todo[p] : todo'[p] = todo[p] \ {i}
  <2>1. PICK i \in todo[p] : todo'[p] = todo[p] \ {i}
    BY <1>7
  <2>2. todo[p] \in SUBSET LastActs(Recorded)
    BY <1>7 DEF Types, TodoFits
  <2>3. IsFiniteSet(todo[p]) /\ Cardinality(todo[p]) \in Nat
    BY <1>4, <2>2, LastActsFinite
  <2>4. Cardinality(todo[p] \ {i}) = Cardinality(todo[p]) - 1
    BY <2>3, FS_RemoveElement
  <2>5. ActsAhead(p) = Cardinality(todo[p])
        /\ ActsAhead(p)' = Cardinality(todo[p] \ {i})
    BY <1>7, <2>1 DEF ActsAhead
  <2>6. a = b
    BY <1>7
  <2> HIDE DEF a, b
  <2> QED
    BY <1>1, <1>3, <2>3, <2>4, <2>5, <2>6
<1> QED
  BY <1>5, <1>6, <1>7, StepDescends

\* A fault ends the call it meets.
LEMMA FaultEnds ==
    ASSUME Types, NEW p \in Procs, Fault(p)
    PROVE  pc'[p] \in {"out", "idle"}
<1>1. \E kind \in Faults : CutShort(p, kind)
  BY DEF Fault, Interrupt, InterruptStage, InterruptAppend
<1> QED
  BY <1>1 DEF CutShort, Gone, Raised, Goto, Types, ProcsTyped

\* Nobody else puts anything ahead of a call: while it looks at the log it has
\* the lock.
LEMMA OthersLeaveCall ==
    ASSUME Types, NEW p \in Procs, Moves(p), NEW q \in Procs, q # p
    PROVE  CallAhead(q)' = CallAhead(q)
<1>1. pc'[q] = pc[q] /\ todo'[q] = todo[q]
  BY DEF Types, ProcsTyped, Moves
<1>2. pc[q] = "loadEvents" => Recorded' = Recorded
  <2>1. pc[q] = "loadEvents" => pc[q] \in Holding
    BY DEF Holding, PCs, Opening
  <2> QED
    BY <2>1 DEF Types, ProcsTyped, Moves
<1> QED
  BY <1>1, <1>2 DEF CallAhead, ActsAhead

\* A step of anybody, and what it leaves ahead of the calls and loads there are.
LEMMA StepCounts ==
    ASSUME Types, Types', NEW p \in Procs, StepOf(p), NEW q \in Procs, InCall(q)
    PROVE  CallAhead(q)' <= CallAhead(q)
<1>1. Moves(p) /\ CallAhead(q) \in Nat
  BY StepsTyped, CallAheadCount
<1>2. CASE q # p
  BY <1>1, <1>2, OthersLeaveCall
<1>3. CASE q = p /\ Step(p)
  <2>1. CallAhead(q)' < CallAhead(q) /\ CallAhead(q)' \in Nat
    BY <1>3, StepShortens, CallAheadStays
  <2> QED
    BY <1>1, <2>1
<1>4. CASE q = p /\ Fault(p)
  <2>1. ~InCall(q)'
    BY <1>4, FaultEnds DEF InCall
  <2>2. CallAhead(q)' = 0
    BY <2>1, CallAheadStays
  <2> QED
    BY <1>1, <2>2
<1>5. CASE q = p /\ ~Step(p) /\ ~Fault(p)
  <2>1. pc[p] \in {"out", "idle"}
    BY <1>5, CallsTyped DEF StepOf, InitMkdir, LoadBegin, MayOpen, Exit, Begin
  <2> QED
    BY <1>5, <2>1 DEF InCall
<1> QED
  BY <1>2, <1>3, <1>4, <1>5

\* Each step of a call or a load brings it closer to its end, recovery and
\* refusals included, and neither another process nor a fault puts the end off:
\* from init, load or propose to the release of the lock there are at most 5
\* steps, and one for each file that recovery looks at.
THEOREM CallsShorten ==
    Spec => [][\A p \in Procs :
                 /\ Step(p) => CallAhead(p)' < CallAhead(p)
                 /\ InCall(p) => CallAhead(p)' <= CallAhead(p)
                 /\ CallAhead(p)' \in Nat
                 /\ CallAhead(p)' = 0 <=> ~InCall(p)']_vars
<1> DEFINE Goal == \A p \in Procs :
                     /\ Step(p) => CallAhead(p)' < CallAhead(p)
                     /\ InCall(p) => CallAhead(p)' <= CallAhead(p)
                     /\ CallAhead(p)' \in Nat
                     /\ CallAhead(p)' = 0 <=> ~InCall(p)'
<1>1. Spec => []Types
  BY InitTyped, NextTyped, PTL DEF Spec
<1>2. Types /\ Types' /\ [Next]_vars => [Goal]_vars
  <2> SUFFICES ASSUME Types, Types', Next PROVE Goal
    OBVIOUS
  <2>1. PICK p \in Procs : StepOf(p)
    BY DEF Next, StepOf, Calls
  <2>2. \A q \in Procs : Step(q) => CallAhead(q)' < CallAhead(q)
    BY StepShortens
  <2>3. \A q \in Procs : InCall(q) => CallAhead(q)' <= CallAhead(q)
    BY <2>1, StepCounts
  <2> QED
    BY <2>2, <2>3, CallAheadStays
<1> HIDE DEF Goal
<1>3. Spec => [][Goal]_vars
  BY <1>1, <1>2, PTL DEF Spec
<1> QED
  BY <1>3 DEF Goal

-----------------------------------------------------------------------------
(* What crashes cannot take away: an inductive invariant for any number of *)
(* processes.                                                              *)

\* Processes die, but no system call fails and a line is written with its
\* newline or in part; and no two address strings name one file.
CrashesOnly == Faults \subseteq {"crash"} /\ "line" \notin Tears
OneSpelling == \A a, b \in Addrs : Place[a] = Place[b] => a = b

\* Nothing happens before .spaceten is made.
NotMade == ~made => log = <<>> /\ \A p \in Procs : pc[p] = "out"

\* Only the last line is ever bad; while it is, nobody is past load_events.
LogShape ==
    /\ AllButLast(log)
    /\ ended <=> AllLinesParse(log)
    /\ ended \/ \A p \in Procs : pc[p] \in {"out", "loadEvents"}

IdsOk ==
    /\ UniqueIds(Recorded)
    /\ \A i \in 1..Len(Recorded) : Recorded[i].id < nextId

HasId(evs, id) == \E i \in 1..Len(evs) : evs[i].id = id
Newest == Recorded[Len(Recorded)]

\* Between staging and append the bytes of an Act are staged under an id that
\* is not in the log; from the append on its event is the newest of the log.
CallLogged(p) ==
    /\ pc[p] = "append" /\ call[p].op = "act" =>
          /\ [id |-> call[p].id, data |-> call[p].data] \in staged
          /\ ~HasId(Recorded, call[p].id)
    /\ pc[p] \in Logged => Recorded # <<>> /\ Newest.id = call[p].id
    /\ pc[p] \in Logged /\ call[p].op = "act" =>
          /\ Newest.op = "act" /\ Newest.addr = call[p].addr
          /\ Newest.digest = call[p].data
CallsLogged == \A p \in Procs : CallLogged(p)

\* Each digest of a cell index is one that an event of evs recorded there.
VouchedBy(evs, cells) ==
    \A a \in Addrs : cells[a] # Nothing =>
        \E i \in 1..Len(evs) : Records(evs[i], a) /\ evs[i].digest = cells[a]
IndexVouched ==
    /\ cellsFile # Nothing => VouchedBy(Recorded, cellsFile)
    /\ \A p \in Procs : VouchedBy(Recorded, mem[p].cells)

NothingDirty == refusal \notin {"DirtySpace", "corrupt log"}

Safe ==
    /\ NotMade /\ LogShape /\ IdsOk /\ CallsLogged /\ IndexVouched /\ NothingDirty
    /\ AckedDurable /\ BytesRecoverable /\ NoBytesUnlogged

\* Every event of the log is still where it was.
Kept ==
    /\ Len(Recorded) <= Len(Recorded')
    /\ \A i \in 1..Len(Recorded) : Recorded'[i] = Recorded[i]

\* load_events finds the log torn exactly when its last line has no newline.
LEMMA LogTells ==
    ASSUME Types, LogShape
    PROVE  /\ LogStatus(log) # "corrupt"
           /\ LogStatus(log) = "clean" <=> ended
           /\ LogStatus(log) = "torn" <=> ~ended
  BY StatusTells DEF Types, DiskTyped, LogShape

\* A log that is torn is the log of a world that has been made.
LEMMA TornIsMade ==
    ASSUME Types, Safe
    PROVE  made \/ ended
<1>1. CASE ~made
  <2>1. Len(log) = 0
    BY <1>1 DEF Safe, NotMade
  <2> QED
    BY <2>1 DEF AllLinesParse, Safe, LogShape
<1> QED
  BY <1>1 DEF Types, DiskTyped

\* The log is left alone, and p is not let past a torn line.
LEMMA ShapeStays ==
    ASSUME Types, Safe, NEW p \in Procs, Moves(p), UNCHANGED <<log, ended>>,
           ended \/ pc'[p] \in {"out", "loadEvents"}
    PROVE  LogShape' /\ Recorded' = Recorded
<1>1. Recorded' = Recorded
  BY DEF Recorded
<1>2. AllButLast(log') /\ (ended' <=> AllLinesParse(log'))
  BY DEF Safe, LogShape
<1>3. ended' \/ \A q \in Procs : pc'[q] \in {"out", "loadEvents"}
  BY DEF Safe, LogShape, Moves, Types, ProcsTyped
<1> QED
  BY <1>1, <1>2, <1>3 DEF LogShape

\* A step of one process is no step of another.
LEMMA OthersStay ==
    ASSUME Types, NEW p \in Procs, Moves(p), NEW q \in Procs, q # p
    PROVE  pc'[q] = pc[q] /\ mem'[q] = mem[q] /\ call'[q] = call[q]
  BY DEF Types, ProcsTyped, Moves

\* Being at the end of a list of events that is kept.
LEMMA KeptStaysVouched ==
    ASSUME Types, Types', Kept, NEW cells, VouchedBy(Recorded, cells)
    PROVE  VouchedBy(Recorded', cells)
<1>1. Len(Recorded) \in Nat /\ Len(Recorded') \in Nat
  BY RecordedTyped DEF Types
<1>2. \A i \in 1..Len(Recorded) : i \in 1..Len(Recorded')
  BY <1>1 DEF Kept
<1> QED
  BY <1>2 DEF Kept, VouchedBy

\* What a step of p has to see to for Safe to outlive it.
LEMMA SafeStep ==
    ASSUME Types, Types', Safe, NEW p \in Procs, Moves(p), Kept, made' = TRUE,
           LogShape', IdsOk', CallLogged(p)',
           pc[p] \in Holding \/ staged \subseteq staged',
           cellsFile' = cellsFile \/ VouchedBy(Recorded', cellsFile'),
           VouchedBy(Recorded', mem'[p].cells), NothingDirty',
           AckedDurable', BytesRecoverable', NoBytesUnlogged'
    PROVE  Safe'
<1>1. NotMade'
  BY DEF NotMade
<1>2. CallsLogged'
  <2> SUFFICES ASSUME NEW q \in Procs PROVE CallLogged(q)'
    BY DEF CallsLogged
  <2>1. CASE q = p
    BY <2>1
  <2>2. CASE q # p
    <3>1. pc'[q] = pc[q] /\ call'[q] = call[q] /\ CallLogged(q)
      BY <2>2, OthersStay DEF Safe, CallsLogged
    <3>2. CASE pc[q] \in Holding
      <4>1. pc[p] \notin Holding
        BY <2>2, <3>2 DEF Types, ProcsTyped
      <4>2. Recorded' = Recorded /\ staged \subseteq staged'
        BY <4>1 DEF Moves
      <4>3. Newest' = Newest
        BY <4>2 DEF Newest
      <4> QED
        BY <3>1, <4>2, <4>3 DEF CallLogged
    <3>3. CASE pc[q] \notin Holding
      <4>1. pc'[q] # "append" /\ pc'[q] \notin Logged
        BY <3>1, <3>3 DEF Holding, PCs, Opening, Calling, Logged
      <4> QED
        BY <4>1 DEF CallLogged
    <3> QED
      BY <3>2, <3>3
  <2> QED
    BY <2>1, <2>2
<1>3. IndexVouched'
  <2>1. cellsFile' # Nothing => VouchedBy(Recorded', cellsFile')
    BY KeptStaysVouched DEF Safe, IndexVouched
  <2>2. ASSUME NEW q \in Procs PROVE VouchedBy(Recorded', mem'[q].cells)
    <3>1. CASE q = p
      BY <3>1
    <3>2. CASE q # p
      BY <3>2, OthersStay, KeptStaysVouched DEF Safe, IndexVouched
    <3> QED
      BY <3>1, <3>2
  <2>3. \A q \in Procs : VouchedBy(Recorded', mem'[q].cells)
    BY <2>2
  <2> QED
    BY <2>1, <2>3 DEF IndexVouched, VouchedBy
<1> QED
  BY <1>1, <1>2, <1>3 DEF Safe

\* What was acknowledged stays in a log whose events are kept, and the id of
\* its newest event may be added.
LEMMA KeptDurable ==
    ASSUME Types, Safe, Kept,
           \/ acked' = acked
           \/ Recorded # <<>> /\ acked' = acked \cup {Newest.id}
    PROVE  AckedDurable'
<1>1. Len(Recorded) \in Nat /\ Recorded \in Seq(Stored)
  BY RecordedTyped
<1> SUFFICES ASSUME NEW id \in acked'
             PROVE  \E i \in 1..Len(Recorded') : Recorded'[i].id = id
  BY DEF AckedDurable
<1>3. \E i \in 1..Len(Recorded) : Recorded[i].id = id
  <2>1. CASE id \in acked
    BY <2>1 DEF Safe, AckedDurable
  <2>2. CASE Recorded # <<>> /\ id = Newest.id
    <3>1. Len(Recorded) \in 1..Len(Recorded)
      BY <1>1, <2>2, EmptySeq
    <3> QED
      BY <2>2, <3>1 DEF Newest
  <2> QED
    BY <2>1, <2>2
<1>4. PICK i \in 1..Len(Recorded) : Recorded[i].id = id
  BY <1>3
<1>5. i \in 1..Len(Recorded') /\ Recorded'[i] = Recorded[i]
  BY <1>1 DEF Kept
<1> QED
  BY <1>4, <1>5

\* A step that leaves the files and the events alone and removes no staged
\* copy: what it does to its own process and to the caches decides.
LEMMA QuietSafe ==
    ASSUME Types, Types', Safe, NEW p \in Procs, Moves(p), made' = TRUE,
           Recorded' = Recorded, LogShape', CallLogged(p)', NothingDirty',
           files' = files, staged \subseteq staged',
           \/ acked' = acked
           \/ Recorded # <<>> /\ acked' = acked \cup {Newest.id},
           cellsFile' = cellsFile \/ VouchedBy(Recorded, cellsFile'),
           VouchedBy(Recorded, mem'[p].cells)
    PROVE  Safe' /\ Kept
<1>1. Kept
  BY RecordedTyped DEF Kept
<1>2. IdsOk'
  <2>1. \A i \in 1..Len(Recorded) : Recorded[i].id < nextId'
    <3> SUFFICES ASSUME NEW i \in 1..Len(Recorded)
                 PROVE  Recorded[i].id < nextId'
      OBVIOUS
    <3>1. Recorded[i].id \in Nat
      <4>1. Recorded[i] \in Stored
        BY RecordedTyped, ElementOfSeq
      <4> QED
        BY <4>1 DEF Stored, EventType
    <3>2. Recorded[i].id < nextId /\ nextId \in Nat /\ nextId' \in Nat /\ nextId <= nextId'
      BY DEF Safe, IdsOk, Moves, Types, ProcsTyped
    <3> QED
      BY <3>1, <3>2
  <2> QED
    BY <2>1 DEF Safe, IdsOk
<1>3. BytesRecoverable'
  BY DEF Safe, BytesRecoverable, InPlace, StagedWhole
<1>4. NoBytesUnlogged'
  BY DEF Safe, NoBytesUnlogged
<1>5. AckedDurable'
  BY <1>1, KeptDurable
<1>6. cellsFile' = cellsFile \/ VouchedBy(Recorded', cellsFile')
  OBVIOUS
<1>7. VouchedBy(Recorded', mem'[p].cells)
  OBVIOUS
<1> QED
  BY <1>1, <1>2, <1>3, <1>4, <1>5, <1>6, <1>7, SafeStep

\* A process that is anywhere has a directory to be in.
LEMMA InsideMade ==
    ASSUME Types, Safe, NEW p \in Procs, pc[p] # "out"
    PROVE  made = TRUE
  BY DEF Types, DiskTyped, Safe, NotMade

\* Only a process out of the world or about to read the log sees a torn line.
LEMMA InsideWhole ==
    ASSUME Types, Safe, NEW p \in Procs, pc[p] \notin {"out", "loadEvents"}
    PROVE  ended = TRUE /\ AllLinesParse(log)
  BY DEF Types, DiskTyped, Safe, LogShape

\* An empty index claims nothing.
LEMMA NothingVouched == VouchedBy(Recorded, NoCells)
  BY DEF VouchedBy, NoCells

\* The index in memory claims nothing the log does not say.
LEMMA OwnVouched ==
    ASSUME Safe, NEW p \in Procs
    PROVE  VouchedBy(Recorded, mem[p].cells)
  BY DEF Safe, IndexVouched

\* A process may end anywhere, as far as what is on the disk goes.
LEMMA GoneSafe ==
    ASSUME Types, Types', Safe, NEW p \in Procs, Moves(p), Gone(p),
           UNCHANGED <<made, log, ended, files, acked, cellsFile>>,
           pc[p] # "out", staged \subseteq staged', NothingDirty'
    PROVE  Safe' /\ Kept
<1>1. pc'[p] = "out" /\ mem'[p] = NoWorld
  BY DEF Gone, Goto, Remember, Types, ProcsTyped
<1>2. made' = TRUE
  BY InsideMade
<1>3. LogShape' /\ Recorded' = Recorded
  BY <1>1, ShapeStays
<1>4. CallLogged(p)'
  BY <1>1 DEF CallLogged, Logged
<1>5. VouchedBy(Recorded, mem'[p].cells)
  BY <1>1, NothingVouched DEF NoWorld
<1> QED
  BY <1>2, <1>3, <1>4, <1>5, QuietSafe

\* A step that moves p on and touches neither log, files nor indexes.
LEMMA MovedSafe ==
    ASSUME Types, Types', Safe, NEW p \in Procs, Moves(p),
           UNCHANGED <<log, ended, files, acked, cellsFile, mem, refusal>>,
           made' = TRUE, staged \subseteq staged', CallLogged(p)',
           ended \/ pc'[p] \in {"out", "loadEvents"}
    PROVE  Safe' /\ Kept
<1>1. LogShape' /\ Recorded' = Recorded
  BY ShapeStays
<1>2. VouchedBy(Recorded, mem'[p].cells)
  BY OwnVouched
<1>3. NothingDirty'
  BY DEF Safe, NothingDirty
<1> QED
  BY <1>1, <1>2, <1>3, QuietSafe

\* mkdir: the log is still empty.
LEMMA InitMkdirSafe ==
    ASSUME Types, Types', Safe, NEW p \in Procs, Moves(p), InitMkdir(p)
    PROVE  Safe' /\ Kept
<1>1. ~made /\ made' = TRUE /\ pc'[p] = "initLock"
      /\ UNCHANGED <<log, ended, files, acked, cellsFile, mem, refusal, staged>>
  BY DEF InitMkdir, Goto, Types, ProcsTyped
<1>2. ended
  BY <1>1, TornIsMade
<1>3. CallLogged(p)'
  BY <1>1 DEF CallLogged, Logged
<1> QED
  BY <1>1, <1>2, <1>3, MovedSafe

\* The lock of World.init, taken or refused.
LEMMA InitLockSafe ==
    ASSUME Types, Types', Safe, NEW p \in Procs, Moves(p), InitLock(p)
    PROVE  Safe' /\ Kept
<1>1. /\ pc[p] = "initLock"
      /\ UNCHANGED <<made, log, ended, files, acked, cellsFile, staged>>
  BY DEF InitLock, disk
<1>2. made' = TRUE /\ ended
  BY <1>1, InsideMade, InsideWhole
<1>3. CASE lock = Nobody
  <2>1. pc'[p] = "initHeader" /\ UNCHANGED <<mem, refusal>>
    BY <1>3 DEF InitLock, Goto, Types, ProcsTyped
  <2>2. CallLogged(p)'
    BY <2>1 DEF CallLogged, Logged
  <2> QED
    BY <1>1, <1>2, <2>1, <2>2, MovedSafe
<1>4. CASE lock # Nobody
  <2>1. Gone(p) /\ refusal' = "WorldLocked"
    BY <1>4 DEF InitLock, RefuseOpen
  <2>2. NothingDirty'
    BY <2>1 DEF NothingDirty
  <2> QED
    BY <1>1, <2>1, <2>2, GoneSafe
<1> QED
  BY <1>3, <1>4

\* world.json is no part of what a crash could take away.
LEMMA InitHeaderSafe ==
    ASSUME Types, Types', Safe, NEW p \in Procs, Moves(p), InitHeader(p)
    PROVE  Safe' /\ Kept
<1>1. /\ pc[p] = "initHeader" /\ pc'[p] = "initAppend"
      /\ UNCHANGED <<made, log, ended, files, acked, cellsFile, staged, mem, call,
                     refusal>>
  BY DEF InitHeader, Goto, Types, ProcsTyped
<1>2. made' = TRUE /\ ended
  BY <1>1, InsideMade, InsideWhole
<1>3. CallLogged(p)'
  BY <1>1 DEF CallLogged, Logged
<1> QED
  BY <1>1, <1>2, <1>3, MovedSafe

\* A call starts in a world whose log is whole.
LEMMA BeginSafe ==
    ASSUME Types, Types', Safe, NEW p \in Procs, Moves(p), NEW c, Begin(p, c)
    PROVE  Safe' /\ Kept
<1>1. /\ pc[p] = "idle" /\ call'[p] = c
      /\ pc'[p] = (IF c.op = "act" THEN "stage" ELSE "append")
      /\ UNCHANGED <<made, log, ended, files, acked, cellsFile, staged, mem, refusal>>
  BY DEF Begin, Goto, disk, Types, ProcsTyped
<1>2. made' = TRUE /\ ended
  BY <1>1, InsideMade, InsideWhole
<1>3. CallLogged(p)'
  BY <1>1 DEF CallLogged, Logged
<1> QED
  BY <1>1, <1>2, <1>3, MovedSafe

\* The staged copy gets an id that is not in the log.
LEMMA StageSafe ==
    ASSUME Types, Types', Safe, NEW p \in Procs, Moves(p), Stage(p)
    PROVE  Safe' /\ Kept
<1>1. /\ pc[p] = "stage" /\ pc'[p] = "append"
      /\ staged' = staged \cup {[id |-> nextId, data |-> call[p].data]}
      /\ call'[p] = [call[p] EXCEPT !.id = nextId]
      /\ UNCHANGED <<made, log, ended, files, acked, cellsFile, mem, refusal>>
  BY DEF Stage, Goto, Types, ProcsTyped
<1>2. made' = TRUE /\ ended
  BY <1>1, InsideMade, InsideWhole
<1>3. call'[p].id = nextId /\ call'[p].data = call[p].data
  BY <1>1 DEF Types, ProcsTyped, CallType
<1>4. ~HasId(Recorded, nextId)
  <2> SUFFICES ASSUME NEW i \in 1..Len(Recorded), Recorded[i].id = nextId
               PROVE  FALSE
    BY DEF HasId
  <2>1. nextId < nextId /\ nextId \in Nat
    BY DEF Safe, IdsOk, Types, ProcsTyped
  <2> QED
    BY <2>1
<1>5. Recorded' = Recorded
  BY <1>1 DEF Recorded
<1>6. CallLogged(p)'
  BY <1>1, <1>3, <1>4, <1>5 DEF CallLogged, Logged
<1> QED
  BY <1>1, <1>2, <1>6, MovedSafe

\* energy.json is no part of what a crash could take away.
LEMMA SaveEnergySafe ==
    ASSUME Types, Types', Safe, NEW p \in Procs, Moves(p), SaveEnergy(p)
    PROVE  Safe' /\ Kept
<1>1. /\ pc[p] \in {"saveEnergy", "initEnergy"}
      /\ pc'[p] = (IF pc[p] = "initEnergy" THEN "initCells" ELSE "saveCells")
      /\ UNCHANGED <<made, log, ended, files, acked, cellsFile, staged, mem, call,
                     refusal>>
  BY DEF SaveEnergy, Goto, Types, ProcsTyped
<1>2. made' = TRUE /\ ended
  BY <1>1, InsideMade, InsideWhole
<1>3. Recorded' = Recorded /\ Newest' = Newest
  BY <1>1 DEF Recorded, Newest
<1>4. CallLogged(p)'
  BY <1>1, <1>3 DEF Safe, CallsLogged, CallLogged, Logged
<1> QED
  BY <1>1, <1>2, <1>4, MovedSafe

\* A load may start on a torn log.
LEMMA LoadBeginSafe ==
    ASSUME Types, Types', Safe, NEW p \in Procs, Moves(p), LoadBegin(p)
    PROVE  Safe' /\ Kept
<1>1. /\ made' = TRUE /\ pc'[p] = "loadEvents"
      /\ UNCHANGED <<log, ended, files, acked, cellsFile, staged, mem, refusal>>
  BY DEF LoadBegin, Goto, Types, ProcsTyped
<1>2. CallLogged(p)'
  BY <1>1 DEF CallLogged, Logged
<1> QED
  BY <1>1, <1>2, MovedSafe

\* A process may leave.
LEMMA ExitSafe ==
    ASSUME Types, Types', Safe, NEW p \in Procs, Moves(p), Exit(p)
    PROVE  Safe' /\ Kept
<1>1. /\ pc[p] = "idle" /\ Gone(p)
      /\ UNCHANGED <<made, log, ended, files, acked, cellsFile, staged, refusal>>
  BY DEF Exit, disk
<1>2. NothingDirty'
  BY <1>1 DEF Safe, NothingDirty
<1> QED
  BY <1>1, <1>2, GoneSafe

\* The id acknowledged is that of the newest event of the log.
LEMMA SaveCellsSafe ==
    ASSUME Types, Types', Safe, NEW p \in Procs, Moves(p), SaveCells(p)
    PROVE  Safe' /\ Kept
<1>1. /\ pc[p] \in {"saveCells", "initCells"} /\ cellsFile' = mem[p].cells
      /\ UNCHANGED <<made, log, ended, files, staged>>
  BY DEF SaveCells
<1>2. made' = TRUE /\ ended
  BY <1>1, InsideMade, InsideWhole
<1>3. /\ pc'[p] \in {"idle", "out"} /\ mem'[p] \in {mem[p], NoWorld}
      /\ acked' = acked \/ acked' = acked \cup {call[p].id}
      /\ refusal' = refusal \/ refusal' = "InvariantError"
  <2>1. Raised(p) \/ Gone(p)
    BY DEF SaveCells
  <2>2. /\ acked' = acked \/ acked' = acked \cup {call[p].id}
        /\ refusal' = refusal \/ refusal' = "InvariantError"
    BY DEF SaveCells
  <2> QED
    BY <2>1, <2>2 DEF Raised, Gone, Goto, Remember, Types, ProcsTyped
<1>4. LogShape' /\ Recorded' = Recorded
  BY <1>1, <1>2, ShapeStays
<1>5. CallLogged(p)'
  BY <1>3 DEF CallLogged, Logged
<1>6. NothingDirty'
  BY <1>3 DEF Safe, NothingDirty
<1>7. VouchedBy(Recorded, cellsFile') /\ VouchedBy(Recorded, mem'[p].cells)
  BY <1>1, <1>3, OwnVouched, NothingVouched DEF NoWorld
<1>8. Recorded # <<>> /\ Newest.id = call[p].id
  BY <1>1 DEF Safe, CallsLogged, CallLogged, Logged
<1> QED
  BY <1>1, <1>2, <1>3, <1>4, <1>5, <1>6, <1>7, <1>8, QuietSafe

\* load_events never meets a bad line before the last, and a repair leaves
\* the events as they are.
LEMMA LoadEventsSafe ==
    ASSUME Types, Types', Safe, NEW p \in Procs, NEW truncate \in BOOLEAN,
           LoadEvents(p, truncate)
    PROVE  Safe' /\ Kept
<1>1. /\ Moves(p) /\ Recorded' = Recorded
      /\ \/ Gone(p) /\ UNCHANGED <<log, ended>>
         \/ /\ pc'[p] = "recover"
            /\ LogStatus(log) = "clean" \/ (LogStatus(log) = "torn" /\ truncate)
            /\ AllLinesParse(log') /\ ended' = (ended \/ truncate)
            /\ UNCHANGED <<mem, call, refusal>>
  BY LoadEventsTyped
<1>2. pc[p] = "loadEvents" /\ UNCHANGED <<made, files, acked, cellsFile, staged>>
  BY DEF LoadEvents
<1>3. made' = TRUE /\ LogStatus(log) # "corrupt"
  BY <1>2, InsideMade, LogTells DEF Safe
<1>4. CASE Gone(p) /\ UNCHANGED <<log, ended>>
  <2>1. NothingDirty'
    <3>1. refusal' \in {refusal, "TruncatedLog", "ValueError"}
      BY <1>3 DEF LoadEvents, RefuseOpen
    <3> QED
      BY <3>1 DEF Safe, NothingDirty
  <2> QED
    BY <1>1, <1>2, <1>4, <2>1, GoneSafe
<1>5. CASE /\ pc'[p] = "recover"
           /\ LogStatus(log) = "clean" \/ (LogStatus(log) = "torn" /\ truncate)
           /\ AllLinesParse(log') /\ ended' = (ended \/ truncate)
           /\ UNCHANGED <<mem, call, refusal>>
  <2>1. ended' = TRUE
    BY <1>5, LogTells DEF Safe, Types, DiskTyped
  <2>2. log' \in Lines
    BY DEF Types, DiskTyped
  <2>3. AllButLast(log')
    BY <1>5, <2>2, StatusTells DEF LogStatus
  <2>4. LogShape'
    BY <1>5, <2>1, <2>3 DEF LogShape
  <2>5. CallLogged(p)'
    BY <1>5 DEF CallLogged, Logged
  <2>6. NothingDirty' /\ VouchedBy(Recorded, mem'[p].cells)
    BY <1>5, OwnVouched DEF Safe, NothingDirty
  <2> QED
    BY <1>1, <1>2, <1>3, <2>4, <2>5, <2>6, QuietSafe
<1> QED
  BY <1>1, <1>4, <1>5

\* The index load hands out is the cached one, or none.
LEMMA LoadWorldSafe ==
    ASSUME Types, Types', Safe, NEW p \in Procs, Moves(p), LoadWorld(p)
    PROVE  Safe' /\ Kept
<1>1. /\ pc[p] = "sweep"
      /\ UNCHANGED <<made, log, ended, files, acked, cellsFile, staged>>
  BY DEF LoadWorld, disk
<1>2. made' = TRUE /\ ended
  BY <1>1, InsideMade, InsideWhole
<1>3. \/ Gone(p) /\ refusal' \in {"FileNotFoundError", "EnergyExhausted", "InvariantError"}
      \/ /\ pc' = [pc EXCEPT ![p] = "idle"] /\ UNCHANGED refusal
         /\ mem' = [mem EXCEPT ![p] = Loaded(Recorded)]
  BY DEF LoadWorld, RefuseOpen, Goto, Remember, Recorded
<1>4. CASE Gone(p) /\ refusal' \in {"FileNotFoundError", "EnergyExhausted", "InvariantError"}
  <2>1. NothingDirty'
    BY <1>4 DEF NothingDirty
  <2> QED
    BY <1>1, <1>4, <2>1, GoneSafe
<1>5. CASE /\ pc' = [pc EXCEPT ![p] = "idle"] /\ UNCHANGED refusal
           /\ mem' = [mem EXCEPT ![p] = Loaded(Recorded)]
  <2>1. pc'[p] = "idle" /\ mem'[p].cells = CachedCells
    BY <1>5 DEF Types, ProcsTyped, Loaded
  <2>2. VouchedBy(Recorded, mem'[p].cells)
    BY <2>1, NothingVouched DEF CachedCells, Safe, IndexVouched
  <2>3. LogShape' /\ Recorded' = Recorded
    BY <1>1, <1>2, ShapeStays
  <2>4. CallLogged(p)' /\ NothingDirty'
    BY <1>5, <2>1 DEF CallLogged, Logged, Safe, NothingDirty
  <2> QED
    BY <1>1, <1>2, <2>2, <2>3, <2>4, QuietSafe
<1> QED
  BY <1>3, <1>4, <1>5

\* The only fault is the end of the process.
LEMMA CutShortGone ==
    ASSUME CrashesOnly, NEW p, NEW kind \in Faults, CutShort(p, kind)
    PROVE  Gone(p) /\ pc[p] # "out"
  BY DEF CrashesOnly, CutShort

\* A crash between two steps.
LEMMA InterruptSafe ==
    ASSUME Types, Types', Safe, CrashesOnly, NEW p \in Procs, Moves(p),
           NEW kind \in Faults, Interrupt(p, kind)
    PROVE  Safe' /\ Kept
<1>1. /\ Gone(p) /\ pc[p] # "out"
      /\ UNCHANGED <<made, log, ended, files, acked, cellsFile, staged, refusal>>
  BY CutShortGone DEF Interrupt, disk
<1>2. NothingDirty'
  BY <1>1 DEF Safe, NothingDirty
<1> QED
  BY <1>1, <1>2, GoneSafe

\* A crash while staging leaves one part file more.
LEMMA InterruptStageSafe ==
    ASSUME Types, Types', Safe, CrashesOnly, NEW p \in Procs, Moves(p),
           NEW kind \in Faults, NEW data, InterruptStage(p, kind, data)
    PROVE  Safe' /\ Kept
<1>1. /\ Gone(p) /\ pc[p] # "out" /\ staged \subseteq staged'
      /\ UNCHANGED <<made, log, ended, files, acked, cellsFile, refusal>>
  BY CutShortGone DEF InterruptStage
<1>2. NothingDirty'
  BY <1>1 DEF Safe, NothingDirty
<1> QED
  BY <1>1, <1>2, GoneSafe

\* What Append does to a log.
LEMMA GrownKept ==
    ASSUME NEW evs \in Seq(Stored), NEW e \in Stored
    PROVE  /\ Append(evs, e) \in Seq(Stored) /\ Len(evs) \in Nat
           /\ Len(Append(evs, e)) = Len(evs) + 1
           /\ \A i \in 1..Len(evs) : Append(evs, e)[i] = evs[i]
           /\ Append(evs, e)[Len(evs) + 1] = e
  BY AppendProperties

\* The id of the event a process is about to append is not in the log.
LEMMA PendingIsNew ==
    ASSUME Types, Safe, NEW p \in Procs, pc[p] \in {"append", "initAppend"}
    PROVE  ~HasId(Recorded, Pending(p).id)
<1>1. Pending(p).id = (IF call[p].op = "act" THEN call[p].id ELSE nextId)
  BY PendingStored
<1>2. CASE call[p].op = "act"
  <2>1. pc[p] = "append"
    BY <1>2 DEF Types, CallsFit, CallFits, Initing
  <2> QED
    BY <1>1, <1>2, <2>1 DEF Safe, CallsLogged, CallLogged
<1>3. CASE call[p].op # "act"
  <2> SUFFICES ASSUME NEW i \in 1..Len(Recorded), Recorded[i].id = nextId
               PROVE  FALSE
    BY <1>1, <1>3 DEF HasId
  <2>1. nextId < nextId /\ nextId \in Nat
    BY DEF Safe, IdsOk, Types, ProcsTyped
  <2> QED
    BY <2>1
<1> QED
  BY <1>2, <1>3

\* An event with a new id, whose bytes are staged if it is an Act, may be
\* put at the end of the log.
LEMMA GrewSafe ==
    ASSUME Types, Types', Safe, NEW p \in Procs, Moves(p),
           pc[p] \in {"append", "initAppend"},
           Recorded' = Append(Recorded, Pending(p)),
           nextId' = NextIdAfterAppend(p),
           UNCHANGED <<made, files, staged, cellsFile, acked, refusal>>,
           LogShape', CallLogged(p)', VouchedBy(Recorded', mem'[p].cells)
    PROVE  Safe' /\ Kept
<1> DEFINE e == Pending(p)
           n == Len(Recorded)
<1>1. /\ e \in Stored /\ e.id \in 1..(nextId' - 1) /\ nextId' \in Nat
      /\ nextId <= nextId' /\ e.op = call[p].op /\ e.digest = call[p].data
      /\ e.id = (IF call[p].op = "act" THEN call[p].id ELSE nextId)
  BY PendingStored
<1>2. ~HasId(Recorded, e.id)
  BY PendingIsNew
<1>3. Recorded \in Seq(Stored) /\ n \in Nat
  BY RecordedTyped
<1> HIDE DEF e
<1>4. /\ Len(Recorded') = n + 1 /\ Recorded'[n + 1] = e
      /\ \A i \in 1..n : Recorded'[i] = Recorded[i]
  BY <1>1, <1>3, GrownKept DEF e
<1>5. Kept
  BY <1>3, <1>4 DEF Kept
<1>6. IdsOk'
  <2>1. \A i \in 1..n : Recorded[i].id # e.id
    BY <1>2 DEF HasId
  <2>2. UniqueIds(Recorded')
    <3> SUFFICES ASSUME NEW i \in 1..(n + 1), NEW j \in 1..(n + 1),
                        Recorded'[i].id = Recorded'[j].id
                 PROVE  i = j
      BY <1>4 DEF UniqueIds
    <3>1. CASE i \in 1..n /\ j \in 1..n
      BY <1>4, <3>1 DEF Safe, IdsOk, UniqueIds
    <3>2. CASE i = n + 1 \/ j = n + 1
      BY <1>3, <1>4, <2>1, <3>2
    <3> QED
      BY <1>3, <3>1, <3>2
  <2>3. \A i \in 1..Len(Recorded') : Recorded'[i].id < nextId'
    <3> SUFFICES ASSUME NEW i \in 1..(n + 1) PROVE Recorded'[i].id < nextId'
      BY <1>4
    <3>1. CASE i = n + 1
      BY <1>1, <1>4, <3>1
    <3>2. CASE i \in 1..n
      <4>1. Recorded[i] \in Stored
        BY <1>3, <3>2, ElementOfSeq
      <4>2. Recorded[i].id \in Nat
        BY <4>1 DEF Stored, EventType
      <4>3. Recorded[i].id < nextId /\ nextId \in Nat
        BY <3>2 DEF Safe, IdsOk, Types, ProcsTyped
      <4> QED
        BY <1>1, <1>4, <3>2, <4>2, <4>3
    <3> QED
      BY <1>3, <3>1, <3>2
  <2> QED
    BY <2>2, <2>3 DEF IdsOk
<1>7. BytesRecoverable'
  <2> SUFFICES ASSUME NEW i \in LastActs(Recorded')
               PROVE  (InPlace(Recorded[i]) \/ StagedWhole(Recorded[i]))'
    BY DEF BytesRecoverable
  <2>1. i \in 1..(n + 1) /\ IsLastAct(Recorded', i)
    BY <1>4 DEF LastActs
  <2>2. CASE i = n + 1
    <3>1. call[p].op = "act" /\ pc[p] = "append"
      BY <1>1, <1>4, <2>1, <2>2 DEF IsLastAct, Types, CallsFit, CallFits, Initing
    <3>2. [id |-> call[p].id, data |-> call[p].data] \in staged
      BY <3>1 DEF Safe, CallsLogged, CallLogged
    <3> QED
      BY <1>1, <1>4, <2>2, <3>1, <3>2 DEF StagedWhole
  <2>3. CASE i \in 1..n
    <3>1. \A j \in 1..n : j \in 1..(n + 1)
      BY <1>3
    <3>2. IsLastAct(Recorded, i)
      BY <1>4, <2>1, <2>3, <3>1 DEF IsLastAct
    <3>3. i \in LastActs(Recorded)
      BY <2>3, <3>2 DEF LastActs
    <3>4. InPlace(Recorded[i]) \/ StagedWhole(Recorded[i])
      BY <3>3 DEF Safe, BytesRecoverable
    <3> QED
      BY <1>4, <2>3, <3>4 DEF InPlace, StagedWhole
  <2> QED
    BY <1>3, <2>1, <2>2, <2>3
<1>8. NoBytesUnlogged'
  <2> SUFFICES ASSUME NEW f \in Paths, files[f] # Found[f]
               PROVE  \E i \in 1..Len(Recorded') :
                         /\ Recorded'[i].op = "act" /\ Place[Recorded'[i].addr] = f
                         /\ Recorded'[i].digest = files[f]
    BY DEF NoBytesUnlogged
  <2>1. PICK i \in 1..n : /\ Recorded[i].op = "act" /\ Place[Recorded[i].addr] = f
                          /\ Recorded[i].digest = files[f]
    BY DEF Safe, NoBytesUnlogged
  <2> QED
    BY <1>3, <1>4, <2>1
<1>9. AckedDurable' /\ NothingDirty'
  BY <1>5, KeptDurable DEF Safe, NothingDirty
<1>10. made' = TRUE
  BY InsideMade
<1> QED
  BY <1>5, <1>6, <1>7, <1>8, <1>9, <1>10, SafeStep

\* store.append: the line is whole, its id new, and its bytes are staged.
LEMMA AppendEventSafe ==
    ASSUME Types, Types', Safe, NEW p \in Procs, Moves(p), AppendEvent(p)
    PROVE  Safe' /\ Kept /\ Recorded' = Append(Recorded, Pending(p))
<1> DEFINE e == Pending(p)
<1>1. /\ pc[p] \in {"append", "initAppend"} /\ log' = Write(log, e) /\ ended' = TRUE
      /\ nextId' = NextIdAfterAppend(p)
      /\ call'[p] = [call[p] EXCEPT !.id = e.id]
      /\ pc'[p] = (IF pc[p] = "initAppend" THEN "initEnergy"
                   ELSE IF call[p].op = "act" THEN "replace" ELSE "saveEnergy")
      /\ UNCHANGED <<made, files, staged, cellsFile, acked, refusal>>
  BY DEF AppendEvent, LogAfter, Goto, Types, ProcsTyped
<1>2. /\ e \in Stored /\ e.op = call[p].op /\ e.digest = call[p].data
      /\ e.addr = call[p].addr
  BY <1>1, PendingStored
<1>3. /\ mem'[p].cells = (IF e.op = "observe"
                            THEN [mem[p].cells EXCEPT ![e.addr] = e.digest]
                            ELSE mem[p].cells)
      /\ mem[p].cells \in IndexType
  <2>1. mem[p] \in WorldType
    BY DEF Types, ProcsTyped
  <2>2. mem'[p].cells = (IF call[p].op = "observe"
                         THEN [mem[p].cells EXCEPT ![call[p].addr] = call[p].data]
                         ELSE mem[p].cells)
    BY <2>1 DEF AppendEvent, Remember, Types, ProcsTyped, WorldType
  <2> QED
    BY <1>2, <2>1, <2>2 DEF WorldType
<1>4. call'[p].id = e.id /\ call'[p].op = e.op /\ call'[p].addr = e.addr
      /\ call'[p].data = e.digest
  BY <1>1, <1>2 DEF Types, ProcsTyped, CallType
<1> HIDE DEF e
<1>5. AllLinesParse(log) /\ ended /\ log \in Lines
  BY <1>1, InsideWhole DEF Types, DiskTyped
<1>6. /\ log' = Append(log, <<e>>) /\ AllLinesParse(log')
      /\ Recorded' = Append(Recorded, e)
  BY <1>1, <1>2, <1>5, AppendWhole DEF Write, Recorded
<1>7. LogShape'
  <2>1. log' \in Lines
    BY DEF Types, DiskTyped
  <2>2. AllButLast(log')
    BY <1>6, <2>1, StatusTells DEF LogStatus
  <2> QED
    BY <1>1, <1>6, <2>2 DEF LogShape
<1>8. Recorded \in Seq(Stored) /\ Len(Recorded) \in Nat
  BY RecordedTyped
<1>9. Newest' = e /\ Recorded' # <<>>
  <2>1. Len(Recorded') = Len(Recorded) + 1 /\ Recorded'[Len(Recorded) + 1] = e
    BY <1>2, <1>6, <1>8, GrownKept
  <2>2. Len(Recorded') # 0
    BY <1>8, <2>1
  <2>3. Recorded' # <<>>
    BY <2>2
  <2> QED
    BY <2>1, <2>3 DEF Newest
<1>10. CallLogged(p)'
  BY <1>1, <1>4, <1>9 DEF CallLogged
<1>11. VouchedBy(Recorded', mem'[p].cells)
  <2> SUFFICES ASSUME NEW a \in Addrs, mem'[p].cells[a] # Nothing
               PROVE  \E i \in 1..Len(Recorded') :
                        Records(Recorded'[i], a) /\ Recorded'[i].digest = mem'[p].cells[a]
    BY DEF VouchedBy
  <2>1. /\ Len(Recorded') = Len(Recorded) + 1 /\ Recorded'[Len(Recorded) + 1] = e
        /\ \A i \in 1..Len(Recorded) : Recorded'[i] = Recorded[i]
    BY <1>2, <1>6, <1>8, GrownKept
  <2>2. CASE e.op = "observe" /\ a = e.addr
    <3>1. mem'[p].cells[a] = e.digest
      BY <1>3, <2>2 DEF IndexType
    <3>2. Records(e, a)
      BY <2>2, <3>1 DEF Records
    <3> QED
      BY <1>8, <2>1, <3>1, <3>2
  <2>3. CASE ~(e.op = "observe" /\ a = e.addr)
    <3>1. mem'[p].cells[a] = mem[p].cells[a]
      BY <1>3, <2>3 DEF IndexType
    <3>2. PICK i \in 1..Len(Recorded) :
                Records(Recorded[i], a) /\ Recorded[i].digest = mem'[p].cells[a]
      BY <3>1, OwnVouched DEF VouchedBy
    <3> QED
      BY <1>8, <2>1, <3>2
  <2> QED
    BY <2>2, <2>3
<1> QED
  BY <1>1, <1>6, <1>7, <1>10, <1>11, GrewSafe DEF e

\* An append that is cut short leaves a torn line or all of it.
LEMMA InterruptAppendSafe ==
    ASSUME Types, Types', Safe, CrashesOnly, DiesAlone, NEW p \in Procs, Moves(p),
           NEW kind \in Faults, NEW tear \in Tears, InterruptAppend(p, kind, tear)
    PROVE  /\ Safe' /\ Kept
           /\ Recorded' = Recorded \/ Recorded' = Append(Recorded, Pending(p))
<1> DEFINE e == Pending(p)
<1>1. /\ pc[p] \in {"append", "initAppend"} /\ Gone(p)
      /\ log' = Write(log, IF tear = "part" THEN Torn ELSE e)
      /\ ended' = (tear = "all") /\ nextId' = NextIdAfterAppend(p)
      /\ UNCHANGED <<made, files, staged, cellsFile, acked, refusal>>
  BY CutShortGone DEF InterruptAppend, Written
<1>2. tear \in {"part", "all"}
  BY StoreAssumption DEF CrashesOnly
<1>3. pc'[p] = "out" /\ mem'[p] = NoWorld
  BY <1>1 DEF Gone, Goto, Remember, Types, ProcsTyped
<1>4. \A q \in Procs : pc'[q] = "out"
  <2>1. faults' # faults
    BY DEF InterruptAppend, CutShort, Types, ProcsTyped
  <2>2. PICK r \in Procs : Alone(r) /\ pc[r] # "out"
    BY <2>1 DEF DiesAlone
  <2>3. r = p
    BY <1>1, <2>2 DEF Alone
  <2>4. \A q \in Procs : q # p => pc'[q] = "out"
    BY <2>2, <2>3, OthersStay DEF Alone
  <2> QED
    BY <1>3, <2>4
<1>5. e \in Stored
  BY <1>1, PendingStored
<1> HIDE DEF e
<1>6. AllLinesParse(log) /\ ended /\ log \in Lines /\ log' \in Lines
  BY <1>1, InsideWhole DEF Types, DiskTyped
<1>7. /\ CallLogged(p)' /\ VouchedBy(Recorded, mem'[p].cells)
      /\ VouchedBy(Recorded', mem'[p].cells) /\ NothingDirty'
  <2>1. CallLogged(p)'
    BY <1>3 DEF CallLogged, Logged
  <2>2. VouchedBy(Recorded, mem'[p].cells) /\ VouchedBy(Recorded', mem'[p].cells)
    BY <1>3 DEF NoWorld, VouchedBy, NoCells
  <2>3. NothingDirty'
    BY <1>1 DEF Safe, NothingDirty
  <2> QED
    BY <2>1, <2>2, <2>3
<1>8. CASE tear = "all"
  <2>1. /\ log' = Append(log, <<e>>) /\ AllLinesParse(log')
        /\ Recorded' = Append(Recorded, e)
    BY <1>1, <1>5, <1>6, <1>8, AppendWhole DEF Write, Recorded
  <2>2. AllButLast(log')
    BY <1>6, <2>1, StatusTells DEF LogStatus
  <2>3. LogShape'
    BY <1>1, <1>8, <2>1, <2>2 DEF LogShape
  <2> QED
    BY <1>1, <1>7, <2>1, <2>3, GrewSafe DEF e
<1>9. CASE tear = "part"
  <2>1. /\ log' = Append(log, <<Torn>>) /\ AllButLast(log') /\ ~AllLinesParse(log')
        /\ Recorded' = Recorded
    BY <1>1, <1>6, <1>9, AppendTorn DEF Write, Recorded
  <2>2. LogShape'
    BY <1>1, <1>4, <1>9, <2>1 DEF LogShape
  <2>3. made' = TRUE
    BY <1>1, InsideMade
  <2>4. staged \subseteq staged'
    BY <1>1
  <2> QED
    BY <1>1, <1>7, <2>1, <2>2, <2>3, <2>4, QuietSafe
<1> QED
  BY <1>2, <1>8, <1>9

\* The bytes of a last Act go from the staging area to their file: the other
\* addresses name other files, and the other staged copies have other ids.
LEMMA PutInPlace ==
    ASSUME Types, Safe, OneSpelling, NEW k \in LastActs(Recorded),
           Recorded' = Recorded,
           files' = [files EXCEPT ![Place[Recorded[k].addr]] = Recorded[k].digest],
           staged' = {s \in staged : s.id # Recorded[k].id}
    PROVE  BytesRecoverable' /\ NoBytesUnlogged'
<1> DEFINE e == Recorded[k]
           n == Len(Recorded)
<1>1. k \in 1..n /\ e.op = "act" /\ IsLastAct(Recorded, k)
      /\ \A i \in 1..n : i \in LastActs(Recorded) => IsLastAct(Recorded, i)
  BY DEF LastActs, IsLastAct
<1>2. Recorded \in Seq(Stored) /\ n \in Nat
  BY RecordedTyped
<1>3. e.addr \in Addrs /\ \A i \in LastActs(Recorded) : Recorded[i].addr \in Addrs
  BY <1>2, LastActsStored
<1>4. Place[e.addr] \in Paths /\ \A i \in LastActs(Recorded) : Place[Recorded[i].addr] \in Paths
  BY <1>3, StoreAssumption
<1>5. files \in [Paths -> Contents \cup {Nothing}]
  BY DEF Types, DiskTyped
<1>6. BytesRecoverable'
  <2> SUFFICES ASSUME NEW i \in LastActs(Recorded)
               PROVE  \/ files'[Place[Recorded[i].addr]] = Recorded[i].digest
                      \/ [id |-> Recorded[i].id, data |-> Recorded[i].digest] \in staged'
    BY DEF BytesRecoverable, InPlace, StagedWhole
  <2>1. CASE i = k
    BY <1>4, <1>5, <2>1
  <2>2. CASE i # k
    <3>1. i \in 1..n /\ IsLastAct(Recorded, i)
      BY <1>1 DEF LastActs
    <3>2. Recorded[i].addr # e.addr
      <4>1. i > k \/ k > i
        BY <1>1, <1>2, <2>2, <3>1
      <4> QED
        BY <1>1, <3>1, <4>1 DEF IsLastAct
    <3>3. Place[Recorded[i].addr] # Place[e.addr]
      BY <1>3, <3>2 DEF OneSpelling
    <3>4. Recorded[i].id # e.id
      BY <1>1, <2>2, <3>1 DEF Safe, IdsOk, UniqueIds
    <3>5. \/ files[Place[Recorded[i].addr]] = Recorded[i].digest
          \/ [id |-> Recorded[i].id, data |-> Recorded[i].digest] \in staged
      BY DEF Safe, BytesRecoverable, InPlace, StagedWhole
    <3> QED
      BY <1>4, <1>5, <3>3, <3>4, <3>5
  <2> QED
    BY <2>1, <2>2
<1>7. NoBytesUnlogged'
  <2> SUFFICES ASSUME NEW f \in Paths, files'[f] # Found[f]
               PROVE  \E i \in 1..n : /\ Recorded[i].op = "act"
                                      /\ Place[Recorded[i].addr] = f
                                      /\ Recorded[i].digest = files'[f]
    BY DEF NoBytesUnlogged
  <2>1. CASE f = Place[e.addr]
    BY <1>1, <1>4, <1>5, <2>1
  <2>2. CASE f # Place[e.addr]
    <3>1. files'[f] = files[f]
      BY <1>5, <2>2
    <3> QED
      BY <3>1 DEF Safe, NoBytesUnlogged
  <2> QED
    BY <2>1, <2>2
<1> QED
  BY <1>6, <1>7

\* Steps that change no event keep the ids and receipts.
LEMMA SameEventsKeep ==
    ASSUME Types, Safe, Recorded' = Recorded, nextId' = nextId, acked' = acked,
           refusal' = refusal
    PROVE  Kept /\ IdsOk' /\ AckedDurable' /\ NothingDirty'
<1>1. Kept
  BY RecordedTyped DEF Kept
<1> QED
  BY <1>1, KeptDurable DEF Safe, IdsOk, NothingDirty

\* The newest event of the log is the Act whose bytes are being moved.
LEMMA ReplaceSafe ==
    ASSUME Types, Types', Safe, OneSpelling, NEW p \in Procs, Moves(p), Replace(p)
    PROVE  Safe' /\ Kept
<1> DEFINE n == Len(Recorded)
           c == call[p]
<1>1. /\ pc[p] = "replace" /\ pc'[p] = "saveEnergy"
      /\ files' = [files EXCEPT ![Place[c.addr]] = c.data]
      /\ staged' = {s \in staged : s.id # c.id}
      /\ UNCHANGED <<made, log, ended, cellsFile, call, nextId, acked, refusal>>
  BY DEF Replace, Goto, Types, ProcsTyped
<1>2. made' = TRUE /\ ended
  BY <1>1, InsideMade, InsideWhole
<1>3. LogShape' /\ Recorded' = Recorded
  BY <1>1, <1>2, ShapeStays
<1>4. c.op = "act" /\ c.addr \in Addrs /\ c.data \in Contents /\ c \in CallType
  BY <1>1 DEF Types, ProcsTyped, CallsFit, CallFits, Seen
<1>5. /\ Recorded # <<>> /\ Newest.id = c.id /\ Newest.op = "act"
      /\ Newest.addr = c.addr /\ Newest.digest = c.data
  BY <1>1, <1>4 DEF Safe, CallsLogged, CallLogged, Logged
<1>6. Recorded \in Seq(Stored) /\ n \in Nat /\ n \in 1..n
  BY <1>5, RecordedTyped, EmptySeq
<1>7. n \in LastActs(Recorded)
  <2>1. \A j \in 1..n : ~(j > n)
    BY <1>6
  <2> QED
    BY <1>5, <1>6, <2>1 DEF LastActs, IsLastAct, Newest
<1>8. BytesRecoverable' /\ NoBytesUnlogged'
  BY <1>1, <1>3, <1>5, <1>7, PutInPlace DEF Newest
<1>9. CallLogged(p)'
  <2>1. Newest' = Newest
    BY <1>3 DEF Newest
  <2> QED
    BY <1>1, <1>3, <1>5, <2>1 DEF CallLogged
<1>10. VouchedBy(Recorded', mem'[p].cells)
  <2>1. mem'[p].cells = [mem[p].cells EXCEPT ![c.addr] = c.data]
        /\ mem[p].cells \in IndexType
    <3> DEFINE w1 == [mem[p] EXCEPT !.acct = Debit(@, c.mj)]
    <3>1. mem'[p] = [w1 EXCEPT !.cells[c.addr] = c.data]
      BY DEF Replace, Remember, Types, ProcsTyped
    <3>2. mem[p] \in WorldType
      BY DEF Types, ProcsTyped
    <3>3. w1.cells = mem[p].cells /\ DOMAIN w1 = DOMAIN mem[p]
      BY <3>2 DEF WorldType
    <3> HIDE DEF w1
    <3>4. "cells" \in DOMAIN w1
      BY <3>2, <3>3 DEF WorldType
    <3> QED
      BY <3>1, <3>2, <3>3, <3>4 DEF WorldType
  <2> SUFFICES ASSUME NEW a \in Addrs, mem'[p].cells[a] # Nothing
               PROVE  \E i \in 1..n :
                        Records(Recorded[i], a) /\ Recorded[i].digest = mem'[p].cells[a]
    BY <1>3 DEF VouchedBy
  <2>2. CASE a = c.addr
    BY <1>4, <1>5, <1>6, <2>1, <2>2, ContentsAssumption DEF Newest, IndexType, Records
  <2>3. CASE a # c.addr
    <3>1. mem'[p].cells[a] = mem[p].cells[a]
      BY <2>1, <2>3 DEF IndexType
    <3> QED
      BY <3>1, OwnVouched DEF VouchedBy
  <2> QED
    BY <2>2, <2>3
<1>11. Kept /\ IdsOk' /\ AckedDurable' /\ NothingDirty'
  BY <1>1, <1>3, SameEventsKeep
<1>12. pc[p] \in Holding
  BY <1>1 DEF Holding, PCs, Calling
<1> QED
  BY <1>1, <1>2, <1>3, <1>8, <1>9, <1>10, <1>11, <1>12, SafeStep

\* _recover_act finishes the replace of a last Act.
LEMMA RecoverActSafe ==
    ASSUME Types, Types', Safe, OneSpelling, NEW p \in Procs, Moves(p),
           NEW i \in todo[p], RecoverAct(p, i)
    PROVE  Safe' /\ Kept
<1>1. /\ pc[p] = "recover" /\ pc'[p] = "recover"
      /\ files' = [files EXCEPT ![Place[Recorded[i].addr]] = Recorded[i].digest]
      /\ staged' = {s \in staged : s.id # Recorded[i].id}
      /\ UNCHANGED <<made, log, ended, cellsFile, mem, call, nextId, acked, refusal>>
  BY DEF RecoverAct, Recorded
<1>2. made' = TRUE /\ ended
  BY <1>1, InsideMade, InsideWhole
<1>3. LogShape' /\ Recorded' = Recorded
  BY <1>1, <1>2, ShapeStays
<1>4. i \in LastActs(Recorded)
  BY <1>1 DEF Types, TodoFits
<1>5. BytesRecoverable' /\ NoBytesUnlogged'
  BY <1>1, <1>3, <1>4, PutInPlace
<1>6. CallLogged(p)'
  BY <1>1 DEF CallLogged, Logged
<1>7. VouchedBy(Recorded', mem'[p].cells)
  BY <1>1, <1>3, OwnVouched
<1>8. Kept /\ IdsOk' /\ AckedDurable' /\ NothingDirty'
  BY <1>1, <1>3, SameEventsKeep
<1>9. pc[p] \in Holding
  BY <1>1 DEF Holding, PCs, Opening
<1> QED
  BY <1>1, <1>2, <1>3, <1>5, <1>6, <1>7, <1>8, <1>9, SafeStep

\* No address is left to do by then, and the copies of last Acts stay.
LEMMA SweepSafe ==
    ASSUME Types, Types', Safe, NEW p \in Procs, Moves(p), Sweep(p)
    PROVE  Safe' /\ Kept
<1>1. /\ pc[p] = "recover"
      /\ \A i \in todo[p] : ~InPlace(Recorded[i]) /\ ~StagedWhole(Recorded[i])
      /\ staged' = {s \in staged : \E i \in LastActs(Recorded) : s.id = Recorded[i].id}
      /\ UNCHANGED <<made, log, ended, files, cellsFile, nextId, acked>>
  BY DEF Sweep, Recorded
<1>2. todo[p] = {}
  <2>1. \A i \in todo[p] : i \in LastActs(Recorded)
    BY <1>1 DEF Types, TodoFits
  <2> QED
    BY <1>1, <2>1 DEF Safe, BytesRecoverable
<1>3. pc'[p] = "sweep" /\ UNCHANGED <<mem, call, refusal>>
  BY <1>2 DEF Sweep, Goto, Types, ProcsTyped
<1>4. made' = TRUE /\ ended
  BY <1>1, InsideMade, InsideWhole
<1>5. LogShape' /\ Recorded' = Recorded
  BY <1>1, <1>4, ShapeStays
<1>6. BytesRecoverable'
  <2> SUFFICES ASSUME NEW i \in LastActs(Recorded)
               PROVE  \/ files'[Place[Recorded[i].addr]] = Recorded[i].digest
                      \/ [id |-> Recorded[i].id, data |-> Recorded[i].digest] \in staged'
    BY <1>5 DEF BytesRecoverable, InPlace, StagedWhole
  <2> QED
    BY <1>1 DEF Safe, BytesRecoverable, InPlace, StagedWhole
<1>7. NoBytesUnlogged'
  BY <1>1, <1>5 DEF Safe, NoBytesUnlogged
<1>8. CallLogged(p)'
  BY <1>3 DEF CallLogged, Logged
<1>9. VouchedBy(Recorded', mem'[p].cells)
  BY <1>3, <1>5, OwnVouched
<1>10. Kept /\ IdsOk' /\ AckedDurable' /\ NothingDirty'
  BY <1>1, <1>3, <1>5, SameEventsKeep
<1>11. pc[p] \in Holding
  BY <1>1 DEF Holding, PCs, Opening
<1> QED
  BY <1>1, <1>4, <1>5, <1>6, <1>7, <1>8, <1>9, <1>10, <1>11, SafeStep

\* Every step keeps the invariant, and every event of the log.
LEMMA StepsSafe ==
    ASSUME Types, Safe, CrashesOnly, OneSpelling, NEW p \in Procs, StepOf(p), DiesAlone
    PROVE  Safe' /\ Kept
<1>0. Types' /\ Moves(p)
  BY StepsTyped
<1>1. CASE InitMkdir(p) \/ LoadBegin(p) \/ Exit(p)
  BY <1>0, <1>1, InitMkdirSafe, LoadBeginSafe, ExitSafe
<1>2. CASE Calls(p)
  <2>1. \E c : Begin(p, c)
    BY <1>2, CallsTyped
  <2> QED
    BY <1>0, <2>1, BeginSafe
<1>3. CASE Step(p)
  <2>1. CASE InitLock(p) \/ InitHeader(p) \/ Stage(p)
    BY <1>0, <2>1, InitLockSafe, InitHeaderSafe, StageSafe
  <2>2. CASE AppendEvent(p) \/ Replace(p) \/ SaveEnergy(p) \/ SaveCells(p)
    BY <1>0, <2>2, AppendEventSafe, ReplaceSafe, SaveEnergySafe, SaveCellsSafe
  <2>3. CASE \E truncate \in BOOLEAN : LoadEvents(p, truncate)
    BY <1>0, <2>3, LoadEventsSafe
  <2>4. CASE \E i \in todo[p] : RecoverAct(p, i)
    BY <1>0, <2>4, RecoverActSafe
  <2>5. CASE Sweep(p) \/ LoadWorld(p)
    BY <1>0, <2>5, SweepSafe, LoadWorldSafe
  <2> QED
    BY <1>3, <2>1, <2>2, <2>3, <2>4, <2>5 DEF Step
<1>4. CASE Fault(p)
  <2>1. PICK kind \in Faults :
          \/ Interrupt(p, kind)
          \/ \E data \in {Torn, call[p].data} : InterruptStage(p, kind, data)
          \/ \E tear \in Tears : InterruptAppend(p, kind, tear)
    BY <1>4 DEF Fault
  <2> QED
    BY <1>0, <2>1, InterruptSafe, InterruptStageSafe, InterruptAppendSafe
<1> QED
  BY <1>1, <1>2, <1>3, <1>4 DEF StepOf

\* The invariant holds before World.init.
LEMMA InitSafe ==
    ASSUME Init
    PROVE  Safe
<1>1. Types
  BY InitTyped
<1>2. log = <<>> /\ Len(log) = 0
  BY DEF Init
<1>3. AllLinesParse(log)
  BY <1>2 DEF AllLinesParse
<1>4. Len(Recorded) = 0 /\ Recorded \in Seq(Stored)
  BY <1>1, <1>2, <1>3, EventsClean, RecordedTyped DEF Types, DiskTyped, Recorded
<1>5. AllButLast(log)
  BY <1>1, <1>3, StatusTells DEF LogStatus, Types, DiskTyped
<1>6. NotMade /\ LogShape
  BY <1>3, <1>5 DEF Init, NotMade, LogShape
<1>7. IdsOk /\ BytesRecoverable
  BY <1>4 DEF IdsOk, UniqueIds, BytesRecoverable, LastActs
<1>8. CallsLogged
  BY DEF Init, CallsLogged, CallLogged, Logged
<1>9. IndexVouched
  BY DEF Init, IndexVouched, NoWorld, NoCells, VouchedBy
<1>10. NothingDirty /\ AckedDurable /\ NoBytesUnlogged
  BY DEF Init, NothingDirty, AckedDurable, NoBytesUnlogged
<1> QED
  BY <1>6, <1>7, <1>8, <1>9, <1>10 DEF Safe

\* Nothing changes if nothing changes.
LEMMA StutterSafe ==
    ASSUME Types, Safe, UNCHANGED vars
    PROVE  Safe' /\ Kept
<1> USE DEF vars, disk
<1>1. Recorded' = Recorded /\ Newest' = Newest
  BY DEF Recorded, Newest
<1>2. Kept /\ IdsOk' /\ AckedDurable' /\ NothingDirty'
  BY <1>1, SameEventsKeep
<1>3. NotMade' /\ LogShape'
  BY DEF Safe, NotMade, LogShape
<1>4. CallsLogged'
  BY <1>1 DEF Safe, CallsLogged, CallLogged
<1>5. IndexVouched'
  BY <1>1 DEF Safe, IndexVouched
<1>6. BytesRecoverable' /\ NoBytesUnlogged'
  BY <1>1 DEF Safe, BytesRecoverable, InPlace, StagedWhole, NoBytesUnlogged
<1> QED
  BY <1>2, <1>3, <1>4, <1>5, <1>6 DEF Safe

\* The invariant is inductive, as long as processes die alone.
LEMMA NextSafe ==
    ASSUME Types, Safe, CrashesOnly, OneSpelling, [Next /\ DiesAlone]_vars
    PROVE  Safe' /\ Kept
<1>1. CASE Next /\ DiesAlone
  <2>1. PICK p \in Procs : StepOf(p)
    BY <1>1 DEF Next, StepOf, Calls
  <2> QED
    BY <1>1, <2>1, StepsSafe
<1> QED
  BY <1>1, StutterSafe

-----------------------------------------------------------------------------
(* Theorems about crashes.                                                 *)

Single == \A p, q \in Procs : pc[p] # "out" /\ pc[q] # "out" => p = q

\* What a step of p is, by where p is.
LEMMA StepsByPlace ==
    ASSUME Types, NEW p \in Procs, StepOf(p)
    PROVE  /\ pc[p] # "out" \/ InitMkdir(p) \/ LoadBegin(p)
           /\ acked \subseteq acked'
<1>1. CASE InitMkdir(p) \/ LoadBegin(p)
  BY <1>1 DEF InitMkdir, LoadBegin
<1>2. CASE Exit(p)
  BY <1>2 DEF Exit
<1>3. CASE Calls(p)
  BY <1>3, CallsTyped DEF Begin
<1>4. CASE Step(p)
  <2>1. CASE InitLock(p) \/ InitHeader(p) \/ Stage(p) \/ AppendEvent(p)
    BY <2>1 DEF InitLock, InitHeader, Stage, AppendEvent
  <2>2. CASE Replace(p) \/ SaveEnergy(p)
    BY <2>2 DEF Replace, SaveEnergy
  <2>3. CASE SaveCells(p)
    <3>1. acked' = acked \/ acked' = acked \cup {call[p].id}
      BY <2>3 DEF SaveCells
    <3> QED
      BY <2>3, <3>1 DEF SaveCells
  <2>4. CASE \E truncate \in BOOLEAN : LoadEvents(p, truncate)
    <3>1. pc[p] = "loadEvents" /\ acked' = acked
      BY <2>4 DEF LoadEvents
    <3> QED
      BY <3>1
  <2>5. CASE \E i \in todo[p] : RecoverAct(p, i)
    <3>1. pc[p] = "recover" /\ acked' = acked
      BY <2>5 DEF RecoverAct
    <3> QED
      BY <3>1
  <2>6. CASE Sweep(p) \/ LoadWorld(p)
    <3>1. pc[p] \in {"recover", "sweep"} /\ acked' = acked
      BY <2>6 DEF Sweep, LoadWorld
    <3> QED
      BY <3>1
  <2> QED
    BY <1>4, <2>1, <2>2, <2>3, <2>4, <2>5, <2>6 DEF Step
<1>5. CASE Fault(p)
  <2>1. pc[p] # "out" /\ acked' = acked
    BY <1>5 DEF Fault, Interrupt, InterruptStage, InterruptAppend, CutShort
  <2> QED
    BY <2>1
<1> QED
  BY <1>1, <1>2, <1>3, <1>4, <1>5 DEF StepOf

\* Who opens the world alone is alone in it, and dies alone in it.
LEMMA SingleStep ==
    ASSUME Types, Single, OneAtATime, NEW p \in Procs, StepOf(p)
    PROVE  Single' /\ DiesAlone /\ \A q \in Procs : q # p => pc[q] = "out" /\ pc'[q] = "out"
<1>1. Moves(p)
  BY StepsTyped
<1>2. \A q \in Procs : q # p => pc[q] = "out"
  <2>1. CASE pc[p] # "out"
    BY <2>1 DEF Single
  <2>2. CASE InitMkdir(p) \/ LoadBegin(p)
    BY <2>2 DEF InitMkdir, LoadBegin, MayOpen, Alone
  <2> QED
    BY <2>1, <2>2, StepsByPlace
<1>3. \A q \in Procs : q # p => pc'[q] = "out"
  BY <1>1, <1>2, OthersStay
<1>4. Single'
  BY <1>3 DEF Single
<1>5. DiesAlone
  <2>1. CASE pc[p] # "out"
    BY <1>2, <2>1 DEF DiesAlone, Alone
  <2>2. CASE InitMkdir(p) \/ LoadBegin(p)
    BY <2>2 DEF InitMkdir, LoadBegin, DiesAlone
  <2> QED
    BY <2>1, <2>2, StepsByPlace
<1> QED
  BY <1>2, <1>3, <1>4, <1>5

\* Under OneAtATime nobody is ever beside another in the world.
LEMMA NextSingle ==
    ASSUME Types, Single, OneAtATime, [Next]_vars
    PROVE  Single' /\ [Next /\ DiesAlone]_vars
<1>1. CASE Next
  <2>1. PICK p \in Procs : StepOf(p)
    BY <1>1 DEF Next, StepOf, Calls
  <2> QED
    BY <1>1, <2>1, SingleStep
<1>2. CASE UNCHANGED vars
  BY <1>2 DEF vars, Single
<1> QED
  BY <1>1, <1>2

\* Users open the world in one process at a time, processes crash anywhere,
\* lines are torn anywhere: an event whose Receipt was returned stays in the log,
\* the bytes of the last Act at each address are in place or whole in the
\* staging area, and a file that has changed holds what an Act in the log wrote.
THEOREM CrashSafety ==
    ASSUME OneAtATime, CrashesOnly, OneSpelling
    PROVE  Spec => [](AckedDurable /\ BytesRecoverable /\ NoBytesUnlogged)
<1> DEFINE IInv == Types /\ Single /\ Safe
<1>1. Init => IInv
  BY InitTyped, InitSafe DEF Init, Single
<1>2. IInv /\ [Next]_vars => IInv'
  BY NextTyped, NextSingle, NextSafe
<1>3. IInv => AckedDurable /\ BytesRecoverable /\ NoBytesUnlogged
  BY DEF Safe
<1> QED
  BY <1>1, <1>2, <1>3, PTL DEF Spec

\* No step, crash or repair of a torn tail ever removes or alters an event that
\* a reader of the log could see.
THEOREM HistoryKept ==
    ASSUME OneAtATime, CrashesOnly, OneSpelling
    PROVE  Spec => HistoryOnlyGrows
<1> DEFINE IInv == Types /\ Single /\ Safe
<1>1. Init => IInv
  BY InitTyped, InitSafe DEF Init, Single
<1>2. IInv /\ [Next]_vars => IInv' /\ Kept
  BY NextTyped, NextSingle, NextSafe
<1>3. Kept => [LET before == Events(log)
                   after == Events(log')
               IN  /\ Len(before) <= Len(after)
                   /\ \A i \in 1..Len(before) : after[i] = before[i]]_log
  BY DEF Kept, Recorded
<1> QED
  BY <1>1, <1>2, <1>3, PTL DEF Spec, HistoryOnlyGrows

-----------------------------------------------------------------------------
(* Beside readers, and with any number of writers.                         *)

\* What a reader was shown is in the log, and it has been shown all that was
\* acknowledged before it came.
Shown ==
    /\ known \subseteq acked
    /\ SnapshotLasts
    /\ VouchedBy(Recorded, view.cells)
    /\ view \in [events : Seq(Stored), cells : IndexType]

\* A reader that has not started was shown nothing.
LEMMA InitShown ==
    ASSUME ReaderInit
    PROVE  Types /\ Safe /\ Shown
<1>1. Types /\ Safe
  BY InitTyped, InitSafe DEF ReaderInit
<1>2. view.events = <<>> /\ Len(view.events) = 0 /\ view.cells = NoCells
  BY DEF ReaderInit
<1>3. Len(Recorded) \in Nat
  BY <1>1, RecordedTyped
<1>4. SnapshotLasts
  BY <1>2, <1>3 DEF ReaderInit, SnapshotLasts
<1>5. <<>> \in Seq(Stored)
  BY EmptySeq
<1>6. view \in [events : Seq(Stored), cells : IndexType]
  BY <1>5, NothingTyped DEF ReaderInit
<1> QED
  BY <1>1, <1>2, <1>4, <1>6, NothingVouched DEF Shown, ReaderInit

\* The writers' steps keep what was shown.
LEMMA WriterShown ==
    ASSUME Types, Types', Safe, Shown, Kept, acked \subseteq acked',
           UNCHANGED readerVars
    PROVE  Shown'
<1>1. /\ Len(view.events) \in Nat /\ Len(Recorded) \in Nat
      /\ Len(view.events) <= Len(Recorded)
  BY RecordedTyped DEF Shown, SnapshotLasts
<1>2. SnapshotLasts'
  <2>1. Len(view.events) <= Len(Recorded')
    <3>1. Len(Recorded') \in Nat
      BY EventsTyped DEF Types, DiskTyped, Recorded
    <3> QED
      BY <1>1, <3>1 DEF Kept
  <2>2. \A i \in 1..Len(view.events) : view.events[i] = Recorded'[i]
    BY <1>1 DEF Kept, Shown, SnapshotLasts
  <2> QED
    BY <2>1, <2>2 DEF Shown, SnapshotLasts, readerVars
<1>3. VouchedBy(Recorded', view.cells)
  BY KeptStaysVouched DEF Shown
<1> QED
  BY <1>2, <1>3 DEF Shown, readerVars

\* ReadBegin, ReadEvents and ReadCells show what is in the log, of the events,
\* and what the log vouches for, of the cells.
LEMMA ReadersShown ==
    ASSUME Types, Safe, Shown, UNCHANGED vars, ReadBegin \/ ReaderStep
    PROVE  Shown'
<1>1. /\ Recorded' = Recorded /\ acked' = acked /\ CachedCells' = CachedCells
  BY DEF vars, disk, Recorded, CachedCells
<1>2. CASE ReadBegin
  <2>1. rpc' \in {"events", "failed"} /\ known' = acked /\ view' = view
    BY <1>2 DEF ReadBegin
  <2> QED
    BY <1>1, <2>1 DEF Shown, SnapshotLasts
<1>3. CASE ReadEvents /\ LogStatus(log) # "corrupt"
  <2>1. /\ known' = known /\ view' = [view EXCEPT !.events = Recorded]
    BY <1>3 DEF ReadEvents, Recorded
  <2>2. view'.events = Recorded /\ view'.cells = view.cells
        /\ view' \in [events : Seq(Stored), cells : IndexType]
    BY <2>1, RecordedTyped DEF Shown
  <2>3. \A id \in known : \E i \in 1..Len(Recorded) : Recorded[i].id = id
    BY DEF Shown, Safe, AckedDurable
  <2>4. SnapshotLasts'
    BY <1>1, <2>1, <2>2, <2>3, RecordedTyped DEF SnapshotLasts
  <2> QED
    BY <1>1, <2>1, <2>2, <2>4 DEF Shown
<1>4. CASE ReadCells
  <2>1. known' = known /\ view' = [view EXCEPT !.cells = CachedCells]
        /\ rpc = "cells" /\ rpc' = "shown"
    BY <1>4 DEF ReadCells
  <2>2. view'.events = view.events /\ view'.cells = CachedCells
        /\ view' \in [events : Seq(Stored), cells : IndexType]
    BY <2>1, CachedTyped DEF Shown
  <2>3. VouchedBy(Recorded, CachedCells)
    BY NothingVouched DEF CachedCells, Safe, IndexVouched
  <2>4. SnapshotLasts'
    BY <1>1, <2>1, <2>2 DEF Shown, SnapshotLasts
  <2> QED
    BY <1>1, <2>1, <2>2, <2>3, <2>4 DEF Shown
<1>5. LogStatus(log) # "corrupt"
  BY LogTells DEF Safe
<1> QED
  BY <1>2, <1>3, <1>4, <1>5 DEF ReaderStep

\* The invariant of readers and writers together is inductive.
LEMMA ReaderNextShown ==
    ASSUME Types, Safe, Shown, CrashesOnly, OneSpelling,
           [ReaderNext]_<<vars, readerVars>>
    PROVE  Types' /\ Safe' /\ Shown'
<1>1. Types'
  BY NextTyped, ReaderNextIsNext
<1>2. CASE ReadBegin \/ ReaderStep
  <2>1. UNCHANGED vars
    BY <1>2 DEF ReadBegin, ReaderStep, ReadEvents, ReadCells
  <2> QED
    BY <1>1, <1>2, <2>1, StutterSafe, ReadersShown
<1>3. CASE Next /\ DiesAlone /\ UNCHANGED readerVars
  <2>1. PICK p \in Procs : StepOf(p)
    BY <1>3 DEF Next, StepOf, Calls
  <2>2. Safe' /\ Kept /\ acked \subseteq acked'
    BY <1>3, <2>1, StepsSafe, StepsByPlace
  <2> QED
    BY <1>1, <1>3, <2>2, WriterShown
<1>4. CASE UNCHANGED <<vars, readerVars>>
  <2>1. UNCHANGED vars /\ UNCHANGED readerVars /\ acked' = acked
    BY <1>4 DEF vars
  <2> QED
    BY <1>1, <2>1, StutterSafe, WriterShown
<1> QED
  BY <1>2, <1>3, <1>4 DEF ReaderNext

\* Beside any number of writers, of whom one may die when it is alone in the
\* world: what a lock-free snapshot showed stays true, it shows every event
\* acknowledged before it began, its cells are vouched for by the log, and the
\* bytes of every last Act are recoverable.
THEOREM ReaderSafety ==
    ASSUME CrashesOnly, OneSpelling
    PROVE  ReaderSpec => [](BytesRecoverable /\ SnapshotLasts /\ CellsVouched)
<1> DEFINE IInv == Types /\ Safe /\ Shown
<1>1. ReaderInit => IInv
  BY InitShown
<1>2. IInv /\ [ReaderNext]_<<vars, readerVars>> => IInv'
  BY ReaderNextShown
<1>3. IInv => BytesRecoverable /\ SnapshotLasts /\ CellsVouched
  BY DEF Safe, Shown, CellsVouched, VouchedBy
<1> QED
  BY <1>1, <1>2, <1>3, PTL DEF ReaderSpec

\* A snapshot of a world that has a header fails neither for a writer's lock
\* nor for what a writer, dead or alive, left at the end of the log: its next
\* steps are to read the events, then the cells, and it is shown.
THEOREM ReadersNeverFail ==
    ASSUME CrashesOnly, OneSpelling
    PROVE  ReaderSpec =>
              [][/\ ReaderStep => \/ rpc = "events" /\ rpc' = "cells"
                                  \/ rpc = "cells" /\ rpc' = "shown"
                 /\ rpc \in {"events", "cells"} => rpc' # "failed"
                 /\ rpc \in {"shown", "failed"} => rpc' = rpc]_<<vars, readerVars>>
<1> DEFINE IInv == Types /\ Safe /\ Shown
           Goal == /\ ReaderStep => \/ rpc = "events" /\ rpc' = "cells"
                                    \/ rpc = "cells" /\ rpc' = "shown"
                   /\ rpc \in {"events", "cells"} => rpc' # "failed"
                   /\ rpc \in {"shown", "failed"} => rpc' = rpc
<1>1. ReaderInit => IInv
  BY InitShown
<1>2. IInv /\ [ReaderNext]_<<vars, readerVars>> => IInv'
  BY ReaderNextShown
<1>3. IInv /\ [ReaderNext]_<<vars, readerVars>> => [Goal]_<<vars, readerVars>>
  <2> SUFFICES ASSUME IInv, ReaderNext PROVE Goal
    OBVIOUS
  <2>1. LogStatus(log) # "corrupt"
    BY LogTells DEF Safe
  <2>2. ReaderStep => \/ rpc = "events" /\ rpc' = "cells"
                      \/ rpc = "cells" /\ rpc' = "shown"
    BY <2>1 DEF ReaderStep, ReadEvents, ReadCells
  <2>3. ~ReaderStep => rpc = "out" \/ rpc' = rpc
    BY DEF ReaderNext, ReadBegin, readerVars
  <2> QED
    BY <2>2, <2>3
<1> HIDE DEF Goal, IInv
<1>4. ReaderSpec => [][Goal]_<<vars, readerVars>>
  BY <1>1, <1>2, <1>3, PTL DEF ReaderSpec
<1> QED
  BY <1>4 DEF Goal
=============================================================================
