----------------------------- MODULE WorldProofs -----------------------------
(***************************************************************************)
(* What World.tla promises, for every set of payloads, addresses, paths    *)
(* and files, every cap and every way the jail resolves addresses.         *)
(*                                                                         *)
(* Every operation either commits one event or leaves the log alone, so    *)
(* the argument is about Commit: LEMMA CommitKeeps shows what a commit     *)
(* preserves when the event is Chargeable, and one lemma per operation     *)
(* (FinishKeeps ... OutsideEditKeeps) that its verdict lets nothing else   *)
(* through.  BytesInv adds what the directory holds to Inv.                *)
(***************************************************************************)
EXTENDS World, KernelProofs

\* No id is handed out twice, and the caches on disk are what memory says.
IdsFresh == \A i \in 1..Len(events) : events[i].id < nextId
CachesFresh == saved = [acct |-> acct, cells |-> cells]

\* The inductive invariant.
Inv ==
    /\ TypeOK
    /\ EnergyAddsUp
    /\ OneChain
    /\ IdsFresh
    /\ CachesFresh
    /\ SelfCheckSilent
    /\ OverrunDrains
    /\ IndexFollowsLog

\* What the verdicts guarantee of an event before it is committed.
Chargeable(op, mj, reason, a, digest, attempted) ==
    /\ op \in Ops
    /\ mj \in Nat /\ CanPay(acct, mj)
    /\ reason \in {"io", "plan", "none"}
    /\ mj = 0 <=> reason = "none"
    /\ a \in Addrs \cup {Nothing}
    /\ op \in {"act", "observe"} => a \in Jail
    /\ digest \in Contents \cup {Nothing}
    /\ attempted \in Int
    /\ attempted > mj => mj = acct.remaining

\* The index after the event: as before, except at the event's own address,
\* where it holds the digest the event records, or a directory.
Indexed(a, digest, cells2) ==
    /\ cells2 \in [Addrs -> Contents \cup {Directory, Nothing}]
    /\ \A b \in Addrs :
          \/ cells2[b] = cells[b] /\ (b # a \/ digest = Nothing)
          \/ b = a /\ cells2[b] = digest /\ digest # Nothing
          \/ cells2[b] \notin Contents

\* What a commit does to the log and the account.
Grows(e, mj) ==
    /\ Len(events) \in Nat /\ Len(events) >= 1
    /\ Len(events') = Len(events) + 1
    /\ e \in EventType /\ SpendFrom(e) = mj
    /\ events' = Append(events, e) /\ events' \in Seq(EventType)
    /\ \A i \in 1..Len(events) :
          events'[i] = events[i] /\ events[i] \in EventType
    /\ events'[Len(events) + 1] = e
    /\ acct' = [cap |-> Cap, spent |-> acct.spent + mj,
                remaining |-> acct.remaining - mj]
    /\ acct' \in [cap : {Cap}, spent : Nat, remaining : Nat]

\* What every step does: nothing to the log, or one event the account could
\* pay for, and only the events that close a run are free.
Paid ==
    \/ UNCHANGED <<events, acct>>
    \/ \E e \in EventType, mj \in 0..acct.remaining :
          /\ Grows(e, mj)
          /\ mj > 0 \/ (e.op \in {"finish", "failed"} /\ UNCHANGED files)

\* A commit of a Chargeable event appends it to the log and takes its charge
\* off the account.
LEMMA CommitGrows ==
    ASSUME TypeOK, NEW op, NEW mj, NEW reason, NEW a, NEW digest,
           NEW attempted, NEW cells2,
           Chargeable(op, mj, reason, a, digest, attempted),
           Commit(NewEvent(op, mj, reason, a, digest, attempted), cells2)
    PROVE  Grows(NewEvent(op, mj, reason, a, digest, attempted), mj)
<1> DEFINE n == Len(events)
           e == NewEvent(op, mj, reason, a, digest, attempted)
<1>1. n \in Nat /\ n >= 1 /\ events \in Seq(EventType)
      /\ \A i \in 1..n : events[i] \in EventType
  BY DEF TypeOK
<1>2. Newest.id \in Nat /\ nextId \in Nat \ {NoId} /\ n + 1 \in Nat
  <2>1. n \in 1..n /\ Newest = events[n] /\ n + 1 \in Nat
    BY <1>1 DEF Newest
  <2>2. events[n].id \in Nat
    BY <1>1, <2>1 DEF EventType
  <2> QED
    BY <2>1, <2>2 DEF TypeOK
<1>3. e \in EventType
  <2>1. /\ op \in Ops /\ -mj \in Int /\ attempted \in Int
        /\ reason \in {"io", "plan", "none"}
        /\ a \in Addrs \cup {Nothing} /\ digest \in Contents \cup {Nothing}
    BY DEF Chargeable
  <2> QED
    BY <1>2, <2>1 DEF NewEvent, EventType
<1>4. events' = Append(events, e)
  BY DEF Commit
<1>5. SpendFrom(e) = mj
  BY DEF NewEvent, SpendFrom, Chargeable
<1>6. acct' = Debit(acct, mj)
  BY <1>5 DEF Commit
<1>7. /\ acct' = [cap |-> Cap, spent |-> acct.spent + mj,
                  remaining |-> acct.remaining - mj]
      /\ acct' \in [cap : {Cap}, spent : Nat, remaining : Nat]
  BY <1>6, DebitMoves DEF TypeOK, Chargeable
<1> HIDE DEF e
<1>8. /\ Len(events') = n + 1 /\ events' \in Seq(EventType)
      /\ \A i \in 1..n : events'[i] = events[i]
      /\ events'[n + 1] = e
  BY <1>1, <1>3, <1>4
<1> QED
  BY <1>1, <1>3, <1>4, <1>5, <1>7, <1>8 DEF e, Grows

\* A commit keeps the whole invariant.
LEMMA CommitKeeps ==
    ASSUME Inv, NEW op, NEW mj, NEW reason, NEW a, NEW digest,
           NEW attempted, NEW cells2,
           Chargeable(op, mj, reason, a, digest, attempted),
           Indexed(a, digest, cells2),
           Commit(NewEvent(op, mj, reason, a, digest, attempted), cells2),
           files' \in [Paths -> Contents \cup {Directory, Missing}],
           tampered' \in [Paths -> {"no", "seen", "unseen"}],
           mj > 0 \/ (op \in {"finish", "failed"} /\ UNCHANGED files)
    PROVE  Inv' /\ Paid
<1> DEFINE n == Len(events)
           e == NewEvent(op, mj, reason, a, digest, attempted)
<1>1. Grows(e, mj)
  BY CommitGrows DEF Inv
<1>2. /\ e.id = nextId /\ e.seq = n + 1 /\ e.parent = events[n].id
      /\ e.delta = -mj /\ e.reason = reason /\ e.op = op /\ e.addr = a
      /\ e.digest = digest /\ e.attempted = attempted
  BY DEF NewEvent, Newest
<1>3. /\ cells' = cells2 /\ saved' = [acct |-> acct', cells |-> cells2]
      /\ nextId' = nextId + 1 /\ open' = open
      /\ balances' = Append(balances, acct'.remaining)
  BY DEF Commit
<1>4. nextId \in Nat \ {NoId} /\ balances \in Seq(Nat) /\ open \in BOOLEAN
      /\ acct \in [cap : {Cap}, spent : Nat, remaining : Nat]
      /\ events \in Seq(EventType)
  BY DEF Inv, TypeOK
<1>5. mj \in Nat /\ mj <= acct.remaining
  BY DEF Chargeable, CanPay
<1>6. answer' = IF InvariantsHold(events', acct', Jail)
                THEN "ok" ELSE "InvariantError"
  BY DEF Commit
<1> HIDE DEF e
<1>7. TypeOK'
  <2>1. acct'.remaining \in Nat
    BY <1>1 DEF Grows
  <2>2. balances' \in Seq(Nat)
    BY <1>3, <1>4, <2>1
  <2>3. cells2 \in [Addrs -> Contents \cup {Directory, Nothing}]
    BY DEF Indexed
  <2>4. answer' \in Answers
    BY <1>6 DEF Answers
  <2>5. nextId' \in Nat \ {NoId}
    BY <1>3, <1>4 DEF NoId
  <2>6. saved' \in [acct : [cap : {Cap}, spent : Nat, remaining : Nat],
                    cells : [Addrs -> Contents \cup {Directory, Nothing}]]
    BY <1>1, <1>3, <2>3 DEF Grows
  <2>7. events' \in Seq(EventType) /\ Len(events') >= 1
        /\ acct' \in [cap : {Cap}, spent : Nat, remaining : Nat]
    BY <1>1 DEF Grows
  <2> QED
    BY <1>3, <1>4, <2>2, <2>3, <2>4, <2>5, <2>6, <2>7 DEF TypeOK
<1>8. EnergyAddsUp'
  <2>1. Len(balances) = n /\ n \in Nat /\ n >= 1
    BY <1>1 DEF Inv, EnergyAddsUp, Grows
  <2>2. acct'.remaining = acct.remaining - mj /\ acct'.remaining \in Nat
        /\ acct'.spent = acct.spent + mj /\ acct'.cap = Cap
        /\ acct.remaining \in Nat /\ acct.spent \in Nat /\ acct.cap = Cap
    BY <1>1, <1>4 DEF Grows
  <2>3. /\ Len(balances') = n + 1
        /\ \A i \in 1..n : balances'[i] = balances[i]
        /\ balances'[n + 1] = acct.remaining - mj
    BY <1>3, <1>4, <2>1, <2>2
  <2>4. balances'[1] = Cap
    BY <2>1, <2>3 DEF Inv, EnergyAddsUp
  <2>5. ASSUME NEW i \in 2..(n + 1)
        PROVE  balances'[i] = balances'[i - 1] + events'[i].delta
    <3>1. CASE i = n + 1
      <4>1. balances[n] = acct.remaining /\ balances'[n] = balances[n]
        BY <2>1, <2>3 DEF Inv, EnergyAddsUp
      <4>2. events'[i].delta = -mj
        BY <3>1, <1>1, <1>2 DEF Grows
      <4> QED
        BY <3>1, <4>1, <4>2, <2>1, <2>2, <2>3, <1>5
    <3>2. CASE i # n + 1
      <4>1. i \in 2..n /\ i \in 1..n /\ i - 1 \in 1..n
        BY <3>2, <2>1
      <4>2. balances[i] = balances[i - 1] + events[i].delta
        BY <4>1 DEF Inv, EnergyAddsUp
      <4>3. events'[i] = events[i]
        BY <4>1, <1>1 DEF Grows
      <4> QED
        BY <4>1, <4>2, <4>3, <2>3
    <3> QED
      BY <3>1, <3>2
  <2>6. Spent(events') = Spent(events) + mj
    BY <1>1, <1>4, SpentAppend DEF Grows
  <2>7. Spent(events) = acct.spent /\ Cap = acct.spent + acct.remaining
    BY <2>2 DEF Inv, EnergyAddsUp, AccountHolds, Replays, Conserved
  <2>8. AccountHolds(events', acct')
    BY <2>2, <2>6, <2>7, <1>5
       DEF AccountHolds, NonNegative, Conserved, Replays
  <2>9. Len(events') = n + 1
    BY <1>1 DEF Grows
  <2> QED
    BY <2>2, <2>3, <2>4, <2>5, <2>8, <2>9 DEF EnergyAddsUp
<1>9. \A i \in 1..(n + 1) :
          /\ i # n + 1 => i \in 1..n /\ events'[i] = events[i]
          /\ i = n + 1 => events'[i] = e
  BY <1>1 DEF Grows
<1>10. n \in Nat /\ n >= 1 /\ Len(events') = n + 1
  BY <1>1 DEF Grows
<1>11. IdsFresh'
  <2>1. \A i \in 1..n : events[i].id < nextId /\ events[i].id \in Nat
    BY <1>1 DEF Inv, IdsFresh, Grows, EventType
  <2>2. nextId' = nextId + 1 /\ nextId \in Nat /\ e.id = nextId
    BY <1>2, <1>3, <1>4
  <2>3. \A i \in 1..(n + 1) : events'[i].id < nextId'
    <3> SUFFICES ASSUME NEW i \in 1..(n + 1) PROVE events'[i].id < nextId'
      OBVIOUS
    <3>1. CASE i = n + 1
      BY <1>9, <2>2, <3>1
    <3>2. CASE i # n + 1
      BY <1>9, <2>1, <2>2, <3>2
    <3> QED
      BY <3>1, <3>2
  <2> QED
    BY <1>10, <2>3 DEF IdsFresh
<1>12. OneChain'
  <2>1. UniqueIds(events')
    <3> SUFFICES ASSUME NEW i \in 1..(n + 1), NEW j \in 1..(n + 1),
                        events'[i].id = events'[j].id
                 PROVE  i = j
      BY <1>10 DEF UniqueIds
    <3>1. \A k \in 1..n : events[k].id < nextId /\ events[k].id \in Nat
      BY <1>1 DEF Inv, IdsFresh, Grows, EventType
    <3>2. CASE i \in 1..n /\ j \in 1..n
      BY <3>2, <1>9, <1>10 DEF Inv, OneChain, LogHolds, UniqueIds
    <3>3. CASE i = n + 1 \/ j = n + 1
      <4>1. /\ i = n + 1 => events'[i].id = nextId
            /\ j = n + 1 => events'[j].id = nextId
        BY <1>2, <1>9
      <4>2. /\ i # n + 1 => events'[i].id < nextId
            /\ j # n + 1 => events'[j].id < nextId
        BY <3>1, <1>9
      <4>3. nextId \in Nat
        BY <1>4
      <4> QED
        BY <3>3, <4>1, <4>2, <4>3
    <3> QED
      BY <3>2, <3>3, <1>10
  <2>2. Sequential(events')
    <3>1. \A i \in 1..n : events[i].seq = i
      BY DEF Inv, OneChain, LogHolds, Sequential
    <3> QED
      BY <3>1, <1>2, <1>9, <1>10 DEF Sequential
  <2>3. Parented(events')
    <3> SUFFICES ASSUME NEW i \in 1..(n + 1) PROVE ParentOk(events', i)
      BY <1>10 DEF Parented
    <3>1. CASE i = n + 1
      <4>1. events'[i].seq = n + 1 /\ n + 1 # 1
            /\ events'[i].parent = events[n].id
        BY <3>1, <1>2, <1>9, <1>10
      <4>2. events'[i - 1] = events[n]
        BY <3>1, <1>9, <1>10
      <4> QED
        BY <3>1, <4>1, <4>2, <1>10 DEF ParentOk
    <3>2. CASE i \in 1..n
      <4>1. ParentOk(events, i)
        BY <3>2 DEF Inv, OneChain, LogHolds, Parented
      <4>2. events'[i] = events[i]
        BY <3>2, <1>9, <1>10
      <4>3. i > 1 => events'[i - 1] = events[i - 1]
        BY <3>2, <1>9, <1>10
      <4> QED
        BY <4>1, <4>2, <4>3 DEF ParentOk
    <3> QED
      BY <3>1, <3>2, <1>10
  <2>4. Jailed(events', Jail)
    <3>1. \A i \in 1..n :
             events[i].op \in {"act", "observe"} => events[i].addr \in Jail
      BY DEF Inv, OneChain, LogHolds, Jailed
    <3>2. op \in {"act", "observe"} => a \in Jail
      BY DEF Chargeable
    <3> QED
      BY <3>1, <3>2, <1>2, <1>9, <1>10 DEF Jailed
  <2>5. \A i \in 1..(n + 1) : EnergyContract(events'[i])
    <3>1. \A i \in 1..n : EnergyContract(events[i])
      BY DEF Inv, OneChain
    <3>2. EnergyContract(e)
      BY <1>2 DEF EnergyContract, Chargeable
    <3> QED
      BY <3>1, <3>2, <1>9
  <2> QED
    BY <2>1, <2>2, <2>3, <2>4, <2>5, <1>10 DEF OneChain, LogHolds
<1>13. CachesFresh'
  BY <1>3 DEF CachesFresh
<1>14. SelfCheckSilent'
  <2>1. InvariantsHold(events', acct', Jail)
    BY <1>8, <1>12 DEF EnergyAddsUp, OneChain, InvariantsHold
  <2> QED
    BY <2>1, <1>6 DEF SelfCheckSilent
<1>15. OverrunDrains'
  <2>1. /\ Len(balances) = n
        /\ \A i \in 1..n : balances'[i] = balances[i]
        /\ balances'[n + 1] = acct.remaining - mj
        /\ balances[n] = acct.remaining /\ acct.remaining \in Nat
    BY <1>1, <1>3, <1>4 DEF Inv, EnergyAddsUp, Grows
  <2> SUFFICES ASSUME NEW i \in 1..(n + 1), NEW j \in i..(n + 1),
                      events'[i].attempted > SpendFrom(events'[i])
               PROVE  balances'[j] = 0
    BY <1>10 DEF OverrunDrains
  <2>2. CASE i = n + 1
    <3>1. attempted > mj
      BY <2>2, <1>1, <1>2, <1>9, <1>10 DEF Grows
    <3> QED
      BY <2>1, <2>2, <3>1, <1>10 DEF Chargeable
  <2>3. CASE i \in 1..n
    <3>1. \A k \in i..n : balances[k] = 0
      BY <2>3, <1>9, <1>10 DEF Inv, OverrunDrains
    <3>2. n \in i..n
      BY <2>3, <1>10
    <3>3. mj = 0
      BY <2>1, <3>1, <3>2, <1>5
    <3>4. CASE j = n + 1
      BY <2>1, <3>1, <3>2, <3>3, <3>4
    <3>5. CASE j # n + 1
      BY <2>1, <2>3, <3>1, <3>5, <1>10
    <3> QED
      BY <3>4, <3>5
  <2> QED
    BY <2>2, <2>3, <1>10
<1>16. IndexFollowsLog'
  <2> SUFFICES ASSUME NEW b \in Addrs, cells2[b] \in Contents
               PROVE  LastRecorded(events', b, cells2[b])
    BY <1>3 DEF IndexFollowsLog
  <2>1. CASE cells2[b] = cells[b] /\ (b # a \/ digest = Nothing)
    <3>1. LastRecorded(events, b, cells[b])
      BY <2>1 DEF Inv, IndexFollowsLog
    <3>2. PICK i \in 1..n :
            /\ Records(events[i], b) /\ events[i].digest = cells[b]
            /\ \A j \in 1..n : j > i => ~Records(events[j], b)
      BY <3>1 DEF LastRecorded
    <3>3. ~Records(events'[n + 1], b)
      BY <2>1, <1>2, <1>9, <1>10 DEF Records
    <3>4. \A j \in 1..(n + 1) : j > i => ~Records(events'[j], b)
      BY <3>2, <3>3, <1>9, <1>10
    <3>5. i \in 1..(n + 1) /\ events'[i] = events[i]
      BY <1>9, <1>10
    <3> QED
      BY <2>1, <3>2, <3>4, <3>5, <1>10 DEF LastRecorded
  <2>2. CASE b = a /\ cells2[b] = digest /\ digest # Nothing
    <3>1. Records(events'[n + 1], b) /\ events'[n + 1].digest = cells2[b]
      BY <2>2, <1>2, <1>9, <1>10 DEF Records
    <3> QED
      BY <3>1, <1>10 DEF LastRecorded
  <2> QED
    BY <2>1, <2>2 DEF Indexed
<1>17. Paid
  <2>1. mj \in 0..acct.remaining /\ e \in EventType
    BY <1>1, <1>4, <1>5 DEF Grows
  <2> QED
    BY <2>1, <1>1, <1>2 DEF Paid
<1> QED
  BY <1>7, <1>8, <1>11, <1>12, <1>13, <1>14, <1>15, <1>16, <1>17 DEF Inv

\* A step that leaves the log, the account, the caches and the id counter
\* alone keeps the invariant, whatever it does to the directory.
LEMMA QuietKeeps ==
    ASSUME Inv,
           UNCHANGED <<events, acct, cells, saved, nextId, balances>>,
           files' \in [Paths -> Contents \cup {Directory, Missing}],
           tampered' \in [Paths -> {"no", "seen", "unseen"}],
           open' \in BOOLEAN,
           answer' \in Answers \ {"InvariantError"}
    PROVE  Inv' /\ Paid
<1>1. TypeOK'
  BY DEF Inv, TypeOK
<1>2. EnergyAddsUp'
  BY DEF Inv, EnergyAddsUp
<1>3. OneChain'
  BY DEF Inv, OneChain
<1>4. IdsFresh' /\ CachesFresh' /\ SelfCheckSilent'
  BY DEF Inv, IdsFresh, CachesFresh, SelfCheckSilent
<1>5. OverrunDrains' /\ IndexFollowsLog'
  BY DEF Inv, OverrunDrains, IndexFollowsLog
<1> QED
  BY <1>1, <1>2, <1>3, <1>4, <1>5 DEF Inv, Paid

\* A refusal changes nothing but the answer.
LEMMA RefuseKeeps ==
    ASSUME Inv, NEW verdict \in Answers \ {"InvariantError"}, Refuse(verdict)
    PROVE  Inv' /\ Paid
  BY QuietKeeps DEF Refuse, Inv, TypeOK

\* The log replays into the account the instance has: check(rebuild=True)
\* and load put back what was there.
LEMMA ReplayIsAccount ==
    ASSUME Inv
    PROVE  /\ Replayable(events, Cap)
           /\ ReplayAccount(events, Cap) = acct
           /\ InvariantsHold(events, acct, Jail)
<1>1. acct \in [cap : {Cap}, spent : Nat, remaining : Nat] /\ Cap \in Nat
  BY WorldAssumption DEF Inv, TypeOK
<1>2. Spent(events) = acct.spent /\ Cap = acct.spent + acct.remaining
  BY <1>1 DEF Inv, EnergyAddsUp, AccountHolds, Replays, Conserved
<1>3. FreshAccount(Cap) \in [cap : {Cap}, spent : Nat, remaining : Nat]
      /\ FreshAccount(Cap).remaining = Cap /\ FreshAccount(Cap).spent = 0
  BY <1>1 DEF FreshAccount
<1>4. acct.spent \in Nat /\ acct.remaining \in Nat
  BY <1>1
<1>5. CanPay(FreshAccount(Cap), acct.spent)
  BY <1>2, <1>3, <1>4 DEF CanPay
<1>6. Debit(FreshAccount(Cap), acct.spent)
        = [cap |-> Cap, spent |-> 0 + acct.spent, remaining |-> Cap - acct.spent]
  BY <1>3, <1>4, <1>5, DebitMoves
<1>7. acct = [cap |-> Cap, spent |-> acct.spent, remaining |-> acct.remaining]
  BY <1>1
<1>8. ReplayAccount(events, Cap) = acct
  BY <1>1, <1>2, <1>4, <1>6, <1>7 DEF ReplayAccount
<1>9. Replayable(events, Cap)
  BY <1>1, <1>2, <1>4 DEF Replayable
<1> QED
  BY <1>8, <1>9 DEF Inv, EnergyAddsUp, OneChain, InvariantsHold

\* A location the jail lets through holds bytes, a directory or nothing.
LEMMA AtType ==
    ASSUME TypeOK, NEW a \in Addrs
    PROVE  At(a) \in Contents \cup {Directory, Missing}
  BY DEF TypeOK, At, Jail

\* Everything the kernel charges for costs at least one.
LEMMA PricesPositive ==
    /\ \A x \in Contents \cup {Directory} : ObserveCost(x) \in Nat \ {0}
    /\ \A x \in Contents : WriteCost(SizeOf[x]) \in Nat \ {0}
    /\ ListCost \in Nat \ {0}
<1>1. \A size \in Nat : Blocks4Kib(size) \in Nat \ {0}
  BY BlocksAreLeast
<1>2. \A x \in Contents : SizeOf[x] \in Nat
  BY ContentsAssumption
<1> QED
  BY <1>1, <1>2, WorldAssumption DEF ObserveCost, ReadCost, WriteCost, ListCost

-----------------------------------------------------------------------------
(* One lemma per operation.                                                *)

\* A world that World.init has just made satisfies the invariant.
LEMMA InitHolds == Init => Inv
<1> SUFFICES ASSUME Init PROVE Inv
  OBVIOUS
<1> DEFINE e == [id |-> 1, seq |-> 1, parent |-> NoId, delta |-> 0,
                 reason |-> "none", op |-> "init", addr |-> Nothing,
                 digest |-> Nothing, attempted |-> NotAttempted]
<1>1. events = <<e>> /\ acct = FreshAccount(Cap) /\ balances = <<Cap>>
      /\ cells = [a \in Addrs |-> Nothing] /\ nextId = 2 /\ answer = "ok"
  BY DEF Init
<1>2. e \in EventType
  BY DEF EventType, NoId, Ops, NotAttempted
<1>3. /\ e.id = 1 /\ e.seq = 1 /\ e.parent = NoId /\ e.delta = 0
      /\ e.reason = "none" /\ e.op = "init" /\ e.digest = Nothing
      /\ e.attempted = -1
  BY DEF NotAttempted
<1> HIDE DEF e
<1>4. events \in Seq(EventType) /\ Len(events) = 1 /\ events[1] = e
  BY <1>1, <1>2
<1>5. acct = [cap |-> Cap, spent |-> 0, remaining |-> Cap] /\ Cap \in Nat
  BY <1>1, WorldAssumption DEF FreshAccount
<1>6. Spent(events) = 0
  BY <1>1, <1>3, SpentOne DEF SpendFrom
<1>7. TypeOK
  <2>1. balances \in Seq(Nat)
    BY <1>1, <1>5
  <2>2. tampered \in [Paths -> {"no", "seen", "unseen"}] /\ files = InitialFiles
        /\ open = TRUE /\ saved = [acct |-> acct, cells |-> cells]
    BY DEF Init
  <2>3. cells \in [Addrs -> Contents \cup {Directory, Nothing}]
    BY <1>1
  <2>4. acct \in [cap : {Cap}, spent : Nat, remaining : Nat]
    BY <1>5
  <2>5. nextId \in Nat \ {NoId} /\ answer \in Answers
    BY <1>1 DEF NoId, Answers
  <2> QED
    BY <1>4, <2>1, <2>2, <2>3, <2>4, <2>5, WorldAssumption DEF TypeOK
<1>8. EnergyAddsUp
  <2>1. Len(balances) = 1 /\ balances[1] = Cap
    BY <1>1
  <2>2. AccountHolds(events, acct)
    BY <1>5, <1>6 DEF AccountHolds, NonNegative, Conserved, Replays
  <2> QED
    BY <1>4, <1>5, <2>1, <2>2 DEF EnergyAddsUp
<1>9. OneChain
  BY <1>3, <1>4 DEF OneChain, LogHolds, UniqueIds, Sequential, Parented,
                    ParentOk, Jailed, EnergyContract
<1>10. IdsFresh /\ CachesFresh /\ SelfCheckSilent
  BY <1>1, <1>3, <1>4 DEF Init, IdsFresh, CachesFresh, SelfCheckSilent
<1>11. OverrunDrains
  BY <1>3, <1>4 DEF OverrunDrains, SpendFrom
<1>12. IndexFollowsLog
  BY <1>1, ContentsAssumption DEF IndexFollowsLog
<1> QED
  BY <1>7, <1>8, <1>9, <1>10, <1>11, <1>12 DEF Inv

\* A Finish, which is free, keeps the invariant.
LEMMA FinishKeeps ==
    ASSUME Inv, NEW priced \in BOOLEAN, ProposeFinish(priced)
    PROVE  Inv' /\ Paid
<1>1. CASE FinishVerdict(priced) = "ok"
  <2>1. /\ Commit(NewEvent("finish", 0, "none", Nothing, Nothing, NotAttempted),
                  cells)
        /\ UNCHANGED <<files, tampered>>
    BY <1>1 DEF ProposeFinish, Propose
  <2>2. Chargeable("finish", 0, "none", Nothing, Nothing, NotAttempted)
    BY DEF Chargeable, Ops, CanPay, NotAttempted, Inv, TypeOK
  <2>3. Indexed(Nothing, Nothing, cells)
    BY DEF Indexed, Inv, TypeOK
  <2> QED
    BY <2>1, <2>2, <2>3, CommitKeeps DEF Inv, TypeOK
<1>2. CASE FinishVerdict(priced) # "ok"
  BY <1>2, RefuseKeeps DEF ProposeFinish, Propose, FinishVerdict, Answers
<1> QED
  BY <1>1, <1>2

\* A Plan keeps the invariant: it is charged only what is left.
LEMMA PlanKeeps ==
    ASSUME Inv, NEW spend \in Nat \cup {NoSpend}, ProposePlan(spend)
    PROVE  Inv' /\ Paid
<1>1. CASE PlanVerdict(spend) = "ok"
  <2>1. /\ Commit(NewEvent("plan", spend, "plan", Nothing, Nothing,
                           NotAttempted), cells)
        /\ UNCHANGED <<files, tampered>>
    BY <1>1 DEF ProposePlan, Propose
  <2>2. spend \in Nat /\ spend > 0 /\ CanPay(acct, spend)
    BY <1>1 DEF PlanVerdict, NoSpend
  <2>3. Chargeable("plan", spend, "plan", Nothing, Nothing, NotAttempted)
    BY <2>2 DEF Chargeable, Ops, NotAttempted
  <2>4. Indexed(Nothing, Nothing, cells)
    BY DEF Indexed, Inv, TypeOK
  <2> QED
    BY <2>1, <2>2, <2>3, <2>4, CommitKeeps DEF Inv, TypeOK
<1>2. CASE PlanVerdict(spend) # "ok"
  BY <1>2, RefuseKeeps DEF ProposePlan, Propose, PlanVerdict, Answers
<1> QED
  BY <1>1, <1>2

\* Failed is the op that may ask for more than is left; the clamp is what
\* makes it payable.
LEMMA FailedKeeps ==
    ASSUME Inv, NEW spend \in Nat \cup {NoSpend},
           NEW noted \in {NotAttempted, spend}, ProposeFailed(spend, noted)
    PROVE  Inv' /\ Paid
<1>1. CASE FailedVerdict(spend) = "ok"
  <2> DEFINE mj == FailedDebit(spend)
             reason == IF mj = 0 THEN "none" ELSE "plan"
             attempted == FailedAttempt(spend, noted)
  <2>1. /\ Commit(NewEvent("failed", mj, reason, Nothing, Nothing, attempted),
                  cells)
        /\ UNCHANGED <<files, tampered>>
    BY <1>1 DEF ProposeFailed, Propose
  <2>2. acct.remaining \in Nat
    BY DEF Inv, TypeOK
  <2>3. spend = -1 \/ spend \in Nat
    BY DEF NoSpend
  <2>4. mj \in Nat /\ CanPay(acct, mj)
    BY <2>2, <2>3 DEF FailedDebit, NoSpend, CanPay
  <2>5. attempted \in Int /\ (attempted > mj => mj = acct.remaining)
    BY <2>2, <2>3 DEF FailedDebit, FailedAttempt, NoSpend, NotAttempted
  <2> HIDE DEF mj, attempted
  <2>6. Chargeable("failed", mj, reason, Nothing, Nothing, attempted)
    BY <2>4, <2>5 DEF Chargeable, Ops
  <2>7. Indexed(Nothing, Nothing, cells)
    BY DEF Indexed, Inv, TypeOK
  <2> QED
    BY <2>1, <2>6, <2>7, CommitKeeps DEF Inv, TypeOK
<1>2. CASE FailedVerdict(spend) # "ok"
  BY <1>2, RefuseKeeps DEF ProposeFailed, Propose, FailedVerdict, Answers
<1> QED
  BY <1>1, <1>2

\* Observing a directory keeps the invariant, and records no digest.
LEMMA ListKeeps ==
    ASSUME Inv, NEW a \in Addrs, NEW priced \in BOOLEAN, ProposeList(a, priced)
    PROVE  Inv' /\ Paid
<1>1. CASE ListVerdict(a, priced) = "ok"
  <2> DEFINE cells2 == [cells EXCEPT ![a] = Directory]
  <2>1. /\ Commit(NewEvent("observe", ListCost, "io", a, Nothing, NotAttempted),
                  cells2)
        /\ UNCHANGED <<files, tampered>>
    BY <1>1 DEF ProposeList, Propose
  <2>2. CanPay(acct, ListCost) /\ a \in Jail
    BY <1>1 DEF ListVerdict
  <2>3. Chargeable("observe", ListCost, "io", a, Nothing, NotAttempted)
    BY <2>2 DEF Chargeable, Ops, NotAttempted, ListCost
  <2>4. Indexed(a, Nothing, cells2)
    BY WorldAssumption DEF Indexed, Inv, TypeOK
  <2> HIDE DEF cells2
  <2>5. ListCost > 0
    BY DEF ListCost
  <2> QED
    BY <2>1, <2>3, <2>4, <2>5, CommitKeeps DEF Inv, TypeOK
<1>2. CASE ListVerdict(a, priced) # "ok"
  BY <1>2, RefuseKeeps DEF ProposeList, Propose, ListVerdict, Answers
<1> QED
  BY <1>1, <1>2

\* Observing a file keeps the invariant: the index holds the digest that
\* the event records.
LEMMA ObserveKeeps ==
    ASSUME Inv, NEW a \in Addrs, NEW priced \in BOOLEAN,
           ProposeObserve(a, priced)
    PROVE  Inv' /\ Paid
<1>1. CASE ObserveVerdict(a, priced) = "ok"
  <2> DEFINE x == At(a)
             cells2 == [cells EXCEPT ![a] = x]
  <2>1. /\ Commit(NewEvent("observe", ObserveCost(x), "io", a, CellDigest(x),
                           NotAttempted), cells2)
        /\ UNCHANGED files
        /\ tampered' = IF x \in Contents /\ tampered[Place[a]] # "no"
                       THEN [tampered EXCEPT ![Place[a]] = "seen"] ELSE tampered
    BY <1>1 DEF ProposeObserve, Propose
  <2>2. CanPay(acct, ObserveCost(x)) /\ a \in Jail /\ x # Missing
    BY <1>1 DEF ObserveVerdict
  <2>3. x \in Contents \cup {Directory}
    BY <2>2, AtType DEF Inv
  <2>4. ObserveCost(x) \in Nat \ {0} /\ CellDigest(x) \in Contents \cup {Nothing}
    BY <2>3, PricesPositive DEF CellDigest
  <2> HIDE DEF x
  <2>5. Chargeable("observe", ObserveCost(x), "io", a, CellDigest(x),
                   NotAttempted)
    BY <2>2, <2>4 DEF Chargeable, Ops, NotAttempted
  <2>6. Indexed(a, CellDigest(x), cells2)
    <3>1. cells \in [Addrs -> Contents \cup {Directory, Nothing}]
      BY DEF Inv, TypeOK
    <3>2. cells2 \in [Addrs -> Contents \cup {Directory, Nothing}]
      BY <2>3, <3>1
    <3>3. \A b \in Addrs : cells2[b] = IF b = a THEN x ELSE cells[b]
      BY <3>1
    <3>4. x = Directory \/ (CellDigest(x) = x /\ x # Nothing)
      BY <2>3, ContentsAssumption DEF CellDigest
    <3> HIDE DEF cells2
    <3> QED
      BY <3>2, <3>3, <3>4, WorldAssumption DEF Indexed
  <2> HIDE DEF cells2
  <2>7. tampered' \in [Paths -> {"no", "seen", "unseen"}]
    BY <2>1, <2>2 DEF Inv, TypeOK, Jail
  <2>8. ObserveCost(x) > 0 /\ files' \in [Paths -> Contents \cup {Directory, Missing}]
    BY <2>1, <2>4 DEF Inv, TypeOK
  <2> QED
    BY <2>1, <2>5, <2>6, <2>7, <2>8, CommitKeeps
<1>2. CASE ObserveVerdict(a, priced) # "ok"
  BY <1>2, RefuseKeeps DEF ProposeObserve, Propose, ObserveVerdict, Answers
<1> QED
  BY <1>1, <1>2

\* An Act keeps the invariant: the index holds the digest it declares, which
\* was compared with the bytes.
LEMMA ActKeeps ==
    ASSUME Inv, NEW a \in Addrs, NEW declared \in Contents,
           NEW data \in Contents \cup {Nothing}, NEW priced \in BOOLEAN,
           ProposeAct(a, declared, data, priced)
    PROVE  Inv' /\ Paid
<1>1. CASE ActVerdict(a, declared, data, priced) = "ok"
  <2> DEFINE mj == WriteCost(SizeOf[data])
             cells2 == [cells EXCEPT ![a] = data]
  <2>1. /\ Commit(NewEvent("act", mj, "io", a, declared, NotAttempted), cells2)
        /\ files' = [files EXCEPT ![Place[a]] = data]
        /\ tampered' = [tampered EXCEPT ![Place[a]] = "no"]
    BY <1>1 DEF ProposeAct, Propose
  <2>2. CanPay(acct, mj) /\ a \in Jail /\ data # Nothing /\ declared = data
    BY <1>1 DEF ActVerdict
  <2>3. mj \in Nat \ {0}
    BY <2>2, PricesPositive
  <2> HIDE DEF mj
  <2>4. Chargeable("act", mj, "io", a, declared, NotAttempted)
    BY <2>2, <2>3 DEF Chargeable, Ops, NotAttempted
  <2>5. Indexed(a, declared, cells2)
    BY <2>2 DEF Indexed, Inv, TypeOK
  <2> HIDE DEF cells2
  <2>6. /\ files' \in [Paths -> Contents \cup {Directory, Missing}]
        /\ tampered' \in [Paths -> {"no", "seen", "unseen"}]
    BY <2>1, <2>2 DEF Inv, TypeOK, Jail
  <2> QED
    BY <2>1, <2>3, <2>4, <2>5, <2>6, CommitKeeps
<1>2. CASE ActVerdict(a, declared, data, priced) # "ok"
  BY <1>2, RefuseKeeps DEF ProposeAct, Propose, ActVerdict, Answers
<1> QED
  BY <1>1, <1>2

\* replay and check(rebuild=True) keep the invariant: the account they put in
\* place is the one that was there, so neither raises EnergyExhausted.
LEMMA CheckKeeps ==
    ASSUME Inv, Replay \/ CheckRebuild
    PROVE  Inv' /\ Paid
<1>1. acct' = acct /\ answer' \in {"ok", "issues"}
  BY ReplayIsAccount DEF Replay, CheckRebuild
<1> QED
  BY <1>1, QuietKeeps DEF Replay, CheckRebuild, Inv, TypeOK, Answers

\* World.load keeps the invariant, and is never refused by the energy or by
\* the invariants of the log it reads.
LEMMA ReloadKeeps ==
    ASSUME Inv, Reload
    PROVE  Inv' /\ Paid
<1>1. saved.cells = cells
  BY DEF Inv, CachesFresh
<1>2. /\ acct' = acct /\ cells' = cells /\ open' \in BOOLEAN
      /\ answer' \in {"ok", "DirtySpace"}
  <2>1. CASE ~Loadable
    BY <2>1 DEF Reload
  <2>2. CASE Loadable
    BY <1>1, <2>2, ReplayIsAccount DEF Reload
  <2> QED
    BY <2>1, <2>2
<1> QED
  BY <1>2, QuietKeeps DEF Reload, Inv, TypeOK, Answers

\* An edit behind the kernel's back disturbs no part of the invariant.
LEMMA OutsideEditKeeps ==
    ASSUME Inv, NEW p \in Shared, NEW x \in Contents \cup {Directory, Missing},
           OutsideEdit(p, x)
    PROVE  Inv' /\ Paid
<1>1. p \in Paths
  BY WorldAssumption
<1>2. /\ files' \in [Paths -> Contents \cup {Directory, Missing}]
      /\ tampered' \in [Paths -> {"no", "seen", "unseen"}]
  BY <1>1 DEF OutsideEdit, Inv, TypeOK
<1> QED
  BY <1>2, QuietKeeps DEF OutsideEdit, Inv, TypeOK, SelfCheckSilent

-----------------------------------------------------------------------------
(* Every step, and the theorems.                                           *)

\* Every step keeps the invariant: it is inductive.
LEMMA StepKeeps ==
    ASSUME Inv, [Next]_vars
    PROVE  Inv' /\ Paid
<1>1. CASE UNCHANGED vars
  <2>1. files' = files /\ tampered' = tampered /\ open' = open
        /\ answer' = answer
        /\ UNCHANGED <<events, acct, cells, saved, nextId, balances>>
    BY <1>1 DEF vars
  <2> QED
    BY <2>1, QuietKeeps DEF Inv, TypeOK, SelfCheckSilent
<1>2. CASE \E i \in 1..Len(events) : ProposeStale(events[i].id)
  BY <1>2, RefuseKeeps DEF ProposeStale, Answers
<1>3. CASE ProposeInit
  BY <1>3, RefuseKeeps DEF ProposeInit, Answers
<1>4. CASE \E spend \in Spends \cup {NoSpend} : ProposePlan(spend)
  BY <1>4, PlanKeeps, WorldAssumption
<1>5. CASE \E spend \in Spends \cup {NoSpend} :
             \E noted \in {NotAttempted, spend} : ProposeFailed(spend, noted)
  BY <1>5, FailedKeeps, WorldAssumption
<1>6. CASE \E priced \in BOOLEAN : ProposeFinish(priced)
  BY <1>6, FinishKeeps
<1>7. CASE \E priced \in BOOLEAN, a \in Addrs : ProposeList(a, priced)
  BY <1>7, ListKeeps
<1>8. CASE \E priced \in BOOLEAN, a \in Addrs : ProposeObserve(a, priced)
  BY <1>8, ObserveKeeps
<1>9. CASE \E priced \in BOOLEAN, a \in Addrs :
             \E declared \in Contents, data \in Contents \cup {Nothing} :
                ProposeAct(a, declared, data, priced)
  BY <1>9, ActKeeps
<1>10. CASE Replay \/ CheckRebuild
  BY <1>10, CheckKeeps
<1>11. CASE Reload
  BY <1>11, ReloadKeeps
<1>12. CASE \E p \in Shared, x \in Contents \cup {Directory, Missing} :
              OutsideEdit(p, x)
  BY <1>12, OutsideEditKeeps
<1> QED
  BY <1>1, <1>2, <1>3, <1>4, <1>5, <1>6, <1>7, <1>8, <1>9, <1>10, <1>11, <1>12
     DEF Next

\* The inductive invariant is an invariant.
THEOREM Invariant == Spec => []Inv
<1>1. Inv /\ [Next]_vars => Inv'
  BY StepKeeps
<1> QED
  BY InitHolds, <1>1, PTL DEF Spec

\* Every variable keeps its type: in particular the energy left is a natural
\* number after every step, so no account is ever overdrawn.
THEOREM Typed == Spec => []TypeOK
<1>1. Inv => TypeOK
  BY DEF Inv
<1> QED
  BY Invariant, <1>1, PTL

\* The charges in the log are, to the last one, what the account has spent
\* and what every receipt said was left.
THEOREM EnergyConserved == Spec => []EnergyAddsUp
<1>1. Inv => EnergyAddsUp
  BY DEF Inv
<1> QED
  BY Invariant, <1>1, PTL

\* The log is one chain, inside the jail.
THEOREM LogChains == Spec => []OneChain
<1>1. Inv => OneChain
  BY DEF Inv
<1> QED
  BY Invariant, <1>1, PTL

\* _assert_invariants, which runs when it is too late to refuse, never fires.
THEOREM SelfCheckNeverFires == Spec => []SelfCheckSilent
<1>1. Inv => SelfCheckSilent
  BY DEF Inv
<1> QED
  BY Invariant, <1>1, PTL

\* After an overrun nothing costs anything any more.
THEOREM OverrunsDrain == Spec => []OverrunDrains
<1>1. Inv => OverrunDrains
  BY DEF Inv
<1> QED
  BY Invariant, <1>1, PTL

\* The cell index never claims a digest the log does not.
THEOREM IndexIsDerived == Spec => []IndexFollowsLog
<1>1. Inv => IndexFollowsLog
  BY DEF Inv
<1> QED
  BY Invariant, <1>1, PTL

\* A step that pays is no work for free.
LEMMA PaidIsNoFreeWork ==
    ASSUME Inv, Paid, acct.remaining = 0, events' # events
    PROVE  /\ events'[Len(events')].op \in {"finish", "failed"}
           /\ acct' = acct /\ files' = files
<1>1. PICK e \in EventType, mj \in 0..acct.remaining :
        /\ Grows(e, mj)
        /\ mj > 0 \/ (e.op \in {"finish", "failed"} /\ UNCHANGED files)
  BY DEF Paid
<1>2. mj = 0
  BY <1>1
<1>3. acct' = acct
  BY <1>1, <1>2 DEF Grows, Inv, TypeOK
<1> QED
  BY <1>1, <1>2, <1>3 DEF Grows

\* With nothing left, nothing is read, planned or written.
THEOREM WorkIsPaid == Spec => NoWorkUnpaid
<1> DEFINE Unpaid ==
      acct.remaining = 0 /\ events' # events =>
          /\ events'[Len(events')].op \in {"finish", "failed"}
          /\ acct' = acct /\ files' = files
<1>1. Inv /\ [Next]_vars => [Unpaid]_vars
  BY StepKeeps, PaidIsNoFreeWork
<1> QED
  BY Invariant, <1>1, PTL DEF Spec, NoWorkUnpaid

\* A world begins as a ledger does,
LEMMA InitIsLedgerInit == Init => Promise!LedgerInit
<1> SUFFICES ASSUME Init PROVE Promise!LedgerInit
  OBVIOUS
<1>1. Len(events) = 1 /\ events[1].delta = 0 /\ acct.remaining = Cap
  BY DEF Init, FreshAccount
<1>2. Charges = <<0>>
  BY <1>1 DEF Charges, SpendFrom
<1> QED
  BY <1>1, <1>2 DEF Promise!LedgerInit

\* and a step that pays is one affordable charge, or nothing to the ledger.
LEMMA PaidIsLedgerNext ==
    ASSUME Inv, Paid
    PROVE  [Promise!LedgerNext]_(Promise!ledgerVars)
<1> SUFFICES \/ Promise!LedgerNext
             \/ UNCHANGED <<Charges, acct.remaining>>
  BY DEF Promise!ledgerVars
<1>1. CASE UNCHANGED <<events, acct>>
  BY <1>1 DEF Charges
<1>2. ASSUME NEW e \in EventType, NEW mj \in 0..acct.remaining, Grows(e, mj)
      PROVE  Promise!LedgerNext
  <2>1. Charges' = Append(Charges, mj)
    <3> DEFINE n == Len(events)
    <3>1. /\ n \in Nat /\ Len(events') = n + 1
          /\ \A i \in 1..n : SpendFrom(events'[i]) = SpendFrom(events[i])
          /\ SpendFrom(events'[n + 1]) = mj
      BY <1>2 DEF Grows
    <3>2. Charges' = [i \in 1..(n + 1) |-> SpendFrom(events'[i])]
      BY <3>1 DEF Charges
    <3> HIDE DEF n
    <3>3. Charges = [i \in 1..n |-> SpendFrom(events[i])]
      BY DEF Charges, n
    <3>4. Append([i \in 1..n |-> SpendFrom(events[i])], mj)
            = [i \in 1..(n + 1) |-> IF i = n + 1 THEN mj ELSE SpendFrom(events[i])]
      BY <3>1
    <3>5. Append(Charges, mj)
            = [i \in 1..(n + 1) |-> IF i = n + 1 THEN mj ELSE SpendFrom(events[i])]
      BY <3>3, <3>4
    <3>6. \A i \in 1..(n + 1) : SpendFrom(events'[i])
               = IF i = n + 1 THEN mj ELSE SpendFrom(events[i])
      BY <3>1
    <3> HIDE DEF Charges
    <3> QED
      BY <3>2, <3>5, <3>6
  <2>2. acct'.remaining = acct.remaining - mj /\ mj \in Nat
        /\ mj <= acct.remaining
    BY <1>2 DEF Grows, Inv, TypeOK
  <2> QED
    BY <2>1, <2>2 DEF Promise!LedgerNext, Promise!Charge
<1> QED
  BY <1>1, <1>2 DEF Paid

\* World implements Ledger: each step appends one affordable charge to the
\* ledger and takes it off the balance, or does nothing to it.
THEOREM ImplementsLedger == Spec => LedgerSpec
<1>1. Inv /\ [Next]_vars => [Promise!LedgerNext]_(Promise!ledgerVars)
  BY StepKeeps, PaidIsLedgerNext
<1> QED
  BY InitIsLedgerInit, <1>1, Invariant, PTL
     DEF Spec, LedgerSpec, Promise!LedgerSpec

-----------------------------------------------------------------------------
(* Who is to blame when the directory and the log disagree.  If every path *)
(* is always addressed by one spelling, check(rebuild=True) and load only  *)
(* ever complain of files somebody else changed.  The assumption is not    *)
(* idle: the kernel keys its records by the address string as passed, and  *)
(* MCWorldAlias.cfg shows load refusing a world nobody touched when two    *)
(* spellings of one file were written.                                     *)

OneSpelling == \A a, b \in Jail : Place[a] = Place[b] => a = b

\* What the log says of an address is what its path holds, unless an outside
\* edit came in between that nothing has observed since (for the last
\* record), or that no Act has overwritten since (for the last Act).
Accounted(a, d) ==
    a \in Jail /\ (At(a) = d \/ tampered[Place[a]] = "unseen")
Kept(a, d) ==
    a \in Jail /\ (At(a) = d \/ tampered[Place[a]] # "no")

RecordsAccounted ==
    \A a \in Addrs : \A d \in Contents :
        LastRecorded(events, a, d) => Accounted(a, d)
ActsKept ==
    \A i \in 1..Len(events) : \A a, d :
        IsLastAct(events, i) /\ events[i].addr = a /\ events[i].digest = d
            => Kept(a, d)

BytesInv == Inv /\ RecordsAccounted /\ ActsKept

\* What the longer log's last records are.
LEMMA LastRecordedGrows ==
    ASSUME NEW e, NEW mj, Grows(e, mj), NEW a, NEW d,
           LastRecorded(events', a, d)
    PROVE  \/ Records(e, a) /\ e.digest = d
           \/ ~Records(e, a) /\ LastRecorded(events, a, d)
<1> DEFINE n == Len(events)
<1>1. /\ n \in Nat /\ Len(events') = n + 1
      /\ events'[n + 1] = e
      /\ \A i \in 1..n : events'[i] = events[i]
  BY DEF Grows
<1>2. PICK i \in 1..(n + 1) :
        /\ Records(events'[i], a) /\ events'[i].digest = d
        /\ \A j \in 1..(n + 1) : j > i => ~Records(events'[j], a)
  BY <1>1 DEF LastRecorded
<1>3. CASE i = n + 1
  BY <1>1, <1>2, <1>3
<1>4. CASE i # n + 1
  <2>1. i \in 1..n /\ n + 1 \in 1..(n + 1) /\ n + 1 > i
    BY <1>1, <1>4
  <2>2. ~Records(e, a)
    BY <1>1, <1>2, <2>1
  <2>3. \A j \in 1..n : j > i => ~Records(events[j], a)
    <3> SUFFICES ASSUME NEW j \in 1..n, j > i PROVE ~Records(events[j], a)
      OBVIOUS
    <3>1. j \in 1..(n + 1)
      BY <1>1
    <3> QED
      BY <1>1, <1>2, <3>1
  <2>4. Records(events[i], a) /\ events[i].digest = d
    BY <1>1, <1>2, <2>1
  <2> QED
    BY <2>1, <2>2, <2>3, <2>4 DEF LastRecorded
<1> QED
  BY <1>3, <1>4

\* What the longer log's last Acts are.
LEMMA LastActGrows ==
    ASSUME NEW e, NEW mj, Grows(e, mj), NEW i \in 1..Len(events'),
           IsLastAct(events', i)
    PROVE  \/ i = Len(events) + 1 /\ events'[i] = e /\ e.op = "act"
           \/ /\ i \in 1..Len(events) /\ events'[i] = events[i]
              /\ IsLastAct(events, i)
              /\ ~(e.op = "act" /\ e.addr = events[i].addr)
<1> DEFINE n == Len(events)
<1>1. /\ n \in Nat /\ Len(events') = n + 1
      /\ events'[n + 1] = e
      /\ \A k \in 1..n : events'[k] = events[k]
  BY DEF Grows
<1>2. /\ events'[i].op = "act"
      /\ \A j \in 1..(n + 1) :
            j > i => ~(events'[j].op = "act" /\ events'[j].addr = events'[i].addr)
  BY <1>1 DEF IsLastAct
<1>3. CASE i = n + 1
  BY <1>1, <1>2, <1>3
<1>4. CASE i # n + 1
  <2>1. i \in 1..n /\ n + 1 \in 1..(n + 1) /\ n + 1 > i
    BY <1>1, <1>4
  <2>2. events'[i] = events[i]
    BY <1>1, <2>1
  <2>3. ~(e.op = "act" /\ e.addr = events[i].addr)
    BY <1>1, <1>2, <2>1, <2>2
  <2>4. IsLastAct(events, i)
    <3> SUFFICES ASSUME NEW j \in 1..n, j > i
                 PROVE  ~(events[j].op = "act" /\ events[j].addr = events[i].addr)
      BY <1>2, <2>2 DEF IsLastAct
    <3>1. j \in 1..(n + 1) /\ events'[j] = events[j]
      BY <1>1
    <3> QED
      BY <1>2, <2>2, <3>1
  <2> QED
    BY <2>1, <2>2, <2>3, <2>4
<1> QED
  BY <1>3, <1>4

-----------------------------------------------------------------------------
(* The four things a step can do to the directory.                         *)

\* Nothing is read or written.
LEMMA IdleKeeps ==
    ASSUME BytesInv, UNCHANGED <<files, tampered>>,
           \/ UNCHANGED events
           \/ \E e \in EventType, mj \in Nat :
                 Grows(e, mj) /\ e.digest = Nothing /\ e.op # "act"
    PROVE  RecordsAccounted' /\ ActsKept'
<1>1. \A a, d : (Accounted(a, d) => Accounted(a, d)') /\ (Kept(a, d) => Kept(a, d)')
  BY DEF Accounted, Kept, At
<1>2. CASE UNCHANGED events
  BY <1>1, <1>2 DEF BytesInv, RecordsAccounted, ActsKept
<1>3. ASSUME NEW e \in EventType, NEW mj \in Nat, Grows(e, mj),
             e.digest = Nothing, e.op # "act"
      PROVE  RecordsAccounted' /\ ActsKept'
  <2>1. RecordsAccounted'
    <3> SUFFICES ASSUME NEW a \in Addrs, NEW d \in Contents,
                        LastRecorded(events', a, d)
                 PROVE  Accounted(a, d)'
      BY DEF RecordsAccounted
    <3>1. LastRecorded(events, a, d)
      BY <1>3, LastRecordedGrows DEF Records
    <3> QED
      BY <1>1, <3>1 DEF BytesInv, RecordsAccounted
  <2>2. ActsKept'
    <3> SUFFICES ASSUME NEW i \in 1..Len(events'), NEW a, NEW d,
                        IsLastAct(events', i),
                        events'[i].addr = a, events'[i].digest = d
                 PROVE  Kept(a, d)'
      BY DEF ActsKept
    <3>1. i \in 1..Len(events) /\ events'[i] = events[i] /\ IsLastAct(events, i)
      BY <1>3, LastActGrows
    <3>2. Kept(a, d)
      BY <3>1 DEF BytesInv, ActsKept
    <3> QED
      BY <1>1, <3>2
  <2> QED
    BY <2>1, <2>2
<1> QED
  BY <1>2, <1>3

\* A file is observed: its bytes are accounted for again, but a file whose
\* last Act was overwritten from outside stays so.
LEMMA ReadKeeps ==
    ASSUME BytesInv, OneSpelling, NEW e, NEW mj, Grows(e, mj),
           e.op = "observe", e.addr \in Jail, e.digest = At(e.addr),
           e.digest \in Contents, UNCHANGED files,
           tampered' = IF tampered[Place[e.addr]] # "no"
                       THEN [tampered EXCEPT ![Place[e.addr]] = "seen"]
                       ELSE tampered
    PROVE  RecordsAccounted' /\ ActsKept'
<1>1. tampered \in [Paths -> {"no", "seen", "unseen"}] /\ Place[e.addr] \in Paths
  BY DEF BytesInv, Inv, TypeOK, Jail
<1>2. RecordsAccounted'
  <2> SUFFICES ASSUME NEW a \in Addrs, NEW d \in Contents,
                      LastRecorded(events', a, d)
               PROVE  Accounted(a, d)'
    BY DEF RecordsAccounted
  <2>1. CASE Records(e, a) /\ e.digest = d
    BY <2>1 DEF Records, Accounted, At
  <2>2. CASE ~Records(e, a) /\ LastRecorded(events, a, d)
    <3>1. Accounted(a, d)
      BY <2>2 DEF BytesInv, RecordsAccounted
    <3>2. CASE At(a) = d
      BY <3>1, <3>2 DEF Accounted, At
    <3>3. CASE At(a) # d
      <4>1. a \in Jail /\ tampered[Place[a]] = "unseen"
        BY <3>1, <3>3 DEF Accounted
      <4>2. e.digest # Nothing => e.addr # a
        BY <2>2 DEF Records
      <4>3. CASE Place[a] = Place[e.addr]
        BY <4>1, <4>2, <4>3, ContentsAssumption DEF OneSpelling
      <4>4. CASE Place[a] # Place[e.addr]
        <5>1. Place[a] \in Paths
          BY <4>1 DEF Jail
        <5>2. tampered'[Place[a]] = "unseen"
          BY <1>1, <4>1, <4>4, <5>1
        <5> QED
          BY <4>1, <5>2 DEF Accounted
      <4> QED
        BY <4>3, <4>4
    <3> QED
      BY <3>2, <3>3
  <2> QED
    BY <2>1, <2>2, LastRecordedGrows
<1>3. ActsKept'
  <2> SUFFICES ASSUME NEW i \in 1..Len(events'), NEW a, NEW d,
                      IsLastAct(events', i),
                      events'[i].addr = a, events'[i].digest = d
               PROVE  Kept(a, d)'
    BY DEF ActsKept
  <2>1. i \in 1..Len(events) /\ events'[i] = events[i] /\ IsLastAct(events, i)
    BY LastActGrows
  <2>2. Kept(a, d)
    BY <2>1 DEF BytesInv, ActsKept
  <2>3. a \in Jail /\ Place[a] \in Paths
    BY <2>2 DEF Kept, Jail
  <2>4. tampered[Place[a]] # "no" => tampered'[Place[a]] # "no"
    BY <1>1, <2>3
  <2> QED
    BY <2>2, <2>3, <2>4 DEF Kept, At
<1> QED
  BY <1>2, <1>3

\* A file is written: its own bytes are in place, and no other file changed.
LEMMA WriteKeeps ==
    ASSUME BytesInv, OneSpelling, NEW e, NEW mj, Grows(e, mj),
           e.op = "act", e.addr \in Jail, e.digest \in Contents,
           files' = [files EXCEPT ![Place[e.addr]] = e.digest],
           tampered' = [tampered EXCEPT ![Place[e.addr]] = "no"]
    PROVE  RecordsAccounted' /\ ActsKept'
<1> DEFINE p == Place[e.addr]
<1>1. /\ tampered \in [Paths -> {"no", "seen", "unseen"}] /\ p \in Paths
      /\ files \in [Paths -> Contents \cup {Directory, Missing}]
  BY DEF BytesInv, Inv, TypeOK, Jail
<1>2. files'[p] = e.digest
      /\ \A q \in Paths : q # p => files'[q] = files[q] /\ tampered'[q] = tampered[q]
  BY <1>1
<1>3. ASSUME NEW a \in Jail, a # e.addr
      PROVE  /\ Place[a] \in Paths
             /\ files'[Place[a]] = files[Place[a]]
             /\ tampered'[Place[a]] = tampered[Place[a]]
  BY <1>2, <1>3 DEF OneSpelling, Jail
<1>4. e.digest # Nothing
  BY ContentsAssumption
<1> HIDE DEF p
<1>5. RecordsAccounted'
  <2> SUFFICES ASSUME NEW a \in Addrs, NEW d \in Contents,
                      LastRecorded(events', a, d)
               PROVE  Accounted(a, d)'
    BY DEF RecordsAccounted
  <2>1. CASE Records(e, a) /\ e.digest = d
    BY <1>2, <2>1 DEF Records, Accounted, At, p
  <2>2. CASE ~Records(e, a) /\ LastRecorded(events, a, d)
    <3>1. Accounted(a, d) /\ a # e.addr
      BY <1>4, <2>2 DEF BytesInv, RecordsAccounted, Records
    <3> QED
      BY <1>3, <3>1 DEF Accounted, At
  <2> QED
    BY <2>1, <2>2, LastRecordedGrows
<1>6. ActsKept'
  <2> SUFFICES ASSUME NEW i \in 1..Len(events'), NEW a, NEW d,
                      IsLastAct(events', i),
                      events'[i].addr = a, events'[i].digest = d
               PROVE  Kept(a, d)'
    BY DEF ActsKept
  <2>1. CASE events'[i] = e
    BY <1>2, <2>1 DEF Kept, At, p
  <2>2. CASE /\ i \in 1..Len(events) /\ events'[i] = events[i]
             /\ IsLastAct(events, i) /\ e.addr # events[i].addr
    <3>1. Kept(a, d) /\ a # e.addr
      BY <2>2 DEF BytesInv, ActsKept
    <3> QED
      BY <1>3, <3>1 DEF Kept, At
  <2> QED
    BY <2>1, <2>2, LastActGrows
<1> QED
  BY <1>5, <1>6

\* Somebody else changes a path: the history remembers it.
LEMMA EditKeeps ==
    ASSUME BytesInv, NEW p \in Paths, NEW x, OutsideEdit(p, x)
    PROVE  RecordsAccounted' /\ ActsKept'
<1>1. /\ tampered' = [tampered EXCEPT ![p] = "unseen"]
      /\ files' = [files EXCEPT ![p] = x] /\ events' = events
      /\ tampered \in [Paths -> {"no", "seen", "unseen"}]
      /\ files \in [Paths -> Contents \cup {Directory, Missing}]
  BY DEF OutsideEdit, BytesInv, Inv, TypeOK
<1>2. \A q \in Paths :
          /\ q = p => tampered'[q] = "unseen"
          /\ q # p => tampered'[q] = tampered[q] /\ files'[q] = files[q]
  BY <1>1
<1>3. \A a \in Jail : Place[a] \in Paths
  BY DEF Jail
<1>4. \A a, d : (Accounted(a, d) => Accounted(a, d)') /\ (Kept(a, d) => Kept(a, d)')
  BY <1>2, <1>3 DEF Accounted, Kept, At
<1> QED
  BY <1>1, <1>4 DEF BytesInv, RecordsAccounted, ActsKept

-----------------------------------------------------------------------------
(* Every step, and the theorems.                                           *)

\* An event that neither records bytes nor writes any.
LEMMA PlainCommitKeeps ==
    ASSUME BytesInv, NEW op, NEW mj, NEW reason, NEW a, NEW attempted,
           NEW cells2, op # "act",
           Chargeable(op, mj, reason, a, Nothing, attempted),
           Commit(NewEvent(op, mj, reason, a, Nothing, attempted), cells2),
           UNCHANGED <<files, tampered>>
    PROVE  RecordsAccounted' /\ ActsKept'
<1> DEFINE e == NewEvent(op, mj, reason, a, Nothing, attempted)
<1>1. Grows(e, mj) /\ mj \in Nat
  BY CommitGrows DEF BytesInv, Inv, Chargeable
<1>2. e.digest = Nothing /\ e.op # "act"
  BY DEF NewEvent
<1>3. e \in EventType
  BY <1>1 DEF Grows
<1> HIDE DEF e
<1> QED
  BY <1>1, <1>2, <1>3, IdleKeeps

\* Observing a file keeps every recorded digest accounted for.
LEMMA ObserveAccounts ==
    ASSUME BytesInv, OneSpelling, NEW a \in Addrs, NEW priced \in BOOLEAN,
           ProposeObserve(a, priced)
    PROVE  RecordsAccounted' /\ ActsKept'
<1>1. CASE ObserveVerdict(a, priced) = "ok"
  <2> DEFINE x == At(a)
             mj == ObserveCost(x)
             e == NewEvent("observe", mj, "io", a, CellDigest(x), NotAttempted)
  <2>1. /\ Commit(e, [cells EXCEPT ![a] = x])
        /\ UNCHANGED files
        /\ tampered' = IF x \in Contents /\ tampered[Place[a]] # "no"
                       THEN [tampered EXCEPT ![Place[a]] = "seen"] ELSE tampered
    BY <1>1 DEF ProposeObserve, Propose
  <2>2. CanPay(acct, mj) /\ a \in Jail /\ x # Missing
    BY <1>1 DEF ObserveVerdict
  <2>3. x \in Contents \cup {Directory}
    BY <2>2, AtType DEF BytesInv, Inv
  <2>4. mj \in Nat \ {0} /\ CellDigest(x) \in Contents \cup {Nothing}
    BY <2>3, PricesPositive DEF CellDigest
  <2>5. e.op = "observe" /\ e.addr = a /\ e.digest = CellDigest(x)
    BY DEF NewEvent
  <2> HIDE DEF x, mj
  <2>6. Chargeable("observe", mj, "io", a, CellDigest(x), NotAttempted)
    BY <2>2, <2>4 DEF Chargeable, Ops, NotAttempted
  <2>7. Grows(e, mj)
    BY <2>1, <2>6, CommitGrows DEF BytesInv, Inv
  <2>8. CASE x \in Contents
    <3>1. CellDigest(x) = x
      BY <2>8, WorldAssumption DEF CellDigest
    <3> HIDE DEF e
    <3> QED
      BY <2>1, <2>2, <2>5, <2>7, <2>8, <3>1, ReadKeeps DEF x
  <2>9. CASE x = Directory
    <3>1. CellDigest(x) = Nothing /\ UNCHANGED <<files, tampered>>
      BY <2>1, <2>9, WorldAssumption DEF CellDigest
    <3> QED
      BY <2>1, <2>6, <3>1, PlainCommitKeeps
  <2> QED
    BY <2>3, <2>8, <2>9
<1>2. CASE ObserveVerdict(a, priced) # "ok"
  BY <1>2, IdleKeeps DEF ProposeObserve, Propose, Refuse
<1> QED
  BY <1>1, <1>2

\* An Act keeps every recorded digest accounted for.
LEMMA ActAccounts ==
    ASSUME BytesInv, OneSpelling, NEW a \in Addrs, NEW declared \in Contents,
           NEW data \in Contents \cup {Nothing}, NEW priced \in BOOLEAN,
           ProposeAct(a, declared, data, priced)
    PROVE  RecordsAccounted' /\ ActsKept'
<1>1. CASE ActVerdict(a, declared, data, priced) = "ok"
  <2> DEFINE mj == WriteCost(SizeOf[data])
             e == NewEvent("act", mj, "io", a, declared, NotAttempted)
  <2>1. /\ Commit(e, [cells EXCEPT ![a] = data])
        /\ files' = [files EXCEPT ![Place[a]] = data]
        /\ tampered' = [tampered EXCEPT ![Place[a]] = "no"]
    BY <1>1 DEF ProposeAct, Propose
  <2>2. CanPay(acct, mj) /\ a \in Jail /\ data # Nothing /\ declared = data
    BY <1>1 DEF ActVerdict
  <2>3. mj \in Nat \ {0}
    BY <2>2, PricesPositive
  <2>4. e.op = "act" /\ e.addr = a /\ e.digest = data
    BY <2>2 DEF NewEvent
  <2> HIDE DEF mj
  <2>5. Chargeable("act", mj, "io", a, declared, NotAttempted)
    BY <2>2, <2>3 DEF Chargeable, Ops, NotAttempted
  <2>6. Grows(e, mj)
    BY <2>1, <2>5, CommitGrows DEF BytesInv, Inv
  <2> HIDE DEF e
  <2> QED
    BY <2>1, <2>2, <2>4, <2>6, WriteKeeps
<1>2. CASE ActVerdict(a, declared, data, priced) # "ok"
  BY <1>2, IdleKeeps DEF ProposeAct, Propose, Refuse
<1> QED
  BY <1>1, <1>2

\* Finish, Plan and Failed touch neither digests nor files.
LEMMA FinishPlanFailedAccount ==
    ASSUME BytesInv, NEW spend \in Nat \cup {NoSpend},
           NEW noted \in {NotAttempted, spend}, NEW priced \in BOOLEAN,
           \/ ProposeFinish(priced)
           \/ ProposePlan(spend)
           \/ ProposeFailed(spend, noted)
    PROVE  RecordsAccounted' /\ ActsKept'
<1>1. acct.remaining \in Nat
  BY DEF BytesInv, Inv, TypeOK
<1>2. CASE ProposeFinish(priced)
  <2>1. CASE FinishVerdict(priced) = "ok"
    <3>1. Chargeable("finish", 0, "none", Nothing, Nothing, NotAttempted)
      BY <1>1 DEF Chargeable, Ops, CanPay, NotAttempted
    <3> QED
      BY <1>2, <2>1, <3>1, PlainCommitKeeps DEF ProposeFinish, Propose
  <2>2. CASE FinishVerdict(priced) # "ok"
    BY <1>2, <2>2, IdleKeeps DEF ProposeFinish, Propose, Refuse
  <2> QED
    BY <2>1, <2>2
<1>3. CASE ProposePlan(spend)
  <2>1. CASE PlanVerdict(spend) = "ok"
    <3>1. spend \in Nat /\ spend > 0 /\ CanPay(acct, spend)
      BY <2>1, WorldAssumption DEF PlanVerdict, NoSpend
    <3>2. Chargeable("plan", spend, "plan", Nothing, Nothing, NotAttempted)
      BY <3>1 DEF Chargeable, Ops, NotAttempted
    <3> QED
      BY <1>3, <2>1, <3>2, PlainCommitKeeps DEF ProposePlan, Propose
  <2>2. CASE PlanVerdict(spend) # "ok"
    BY <1>3, <2>2, IdleKeeps DEF ProposePlan, Propose, Refuse
  <2> QED
    BY <2>1, <2>2
<1>4. CASE ProposeFailed(spend, noted)
  <2>1. CASE FailedVerdict(spend) = "ok"
    <3> DEFINE mj == FailedDebit(spend)
               attempted == FailedAttempt(spend, noted)
               reason == IF mj = 0 THEN "none" ELSE "plan"
    <3>1. spend = -1 \/ spend \in Nat
      BY WorldAssumption DEF NoSpend
    <3>2. mj \in Nat /\ CanPay(acct, mj)
      BY <1>1, <3>1 DEF FailedDebit, NoSpend, CanPay
    <3>3. attempted \in Int /\ (attempted > mj => mj = acct.remaining)
      BY <1>1, <3>1 DEF FailedDebit, FailedAttempt, NoSpend, NotAttempted
    <3>4. /\ Commit(NewEvent("failed", mj, reason, Nothing, Nothing, attempted),
                    cells)
          /\ UNCHANGED <<files, tampered>>
      BY <1>4, <2>1 DEF ProposeFailed, Propose
    <3> HIDE DEF mj, attempted
    <3>5. Chargeable("failed", mj, reason, Nothing, Nothing, attempted)
      BY <3>2, <3>3 DEF Chargeable, Ops
    <3> QED
      BY <3>4, <3>5, PlainCommitKeeps
  <2>2. CASE FailedVerdict(spend) # "ok"
    BY <1>4, <2>2, IdleKeeps DEF ProposeFailed, Propose, Refuse
  <2> QED
    BY <2>1, <2>2
<1> QED
  BY <1>2, <1>3, <1>4

\* A listing records no digest and touches no file.
LEMMA ListAccounts ==
    ASSUME BytesInv, NEW a \in Addrs, NEW priced \in BOOLEAN,
           ProposeList(a, priced)
    PROVE  RecordsAccounted' /\ ActsKept'
<1>1. CASE ListVerdict(a, priced) = "ok"
  <2>1. CanPay(acct, ListCost) /\ a \in Jail
    BY <1>1 DEF ListVerdict
  <2>2. Chargeable("observe", ListCost, "io", a, Nothing, NotAttempted)
    BY <2>1 DEF Chargeable, Ops, NotAttempted, ListCost
  <2> QED
    BY <1>1, <2>2, PlainCommitKeeps DEF ProposeList, Propose
<1>2. CASE ListVerdict(a, priced) # "ok"
  BY <1>2, IdleKeeps DEF ProposeList, Propose, Refuse
<1> QED
  BY <1>1, <1>2

\* Every step keeps the files accounted for.
LEMMA StepAccounts ==
    ASSUME BytesInv, OneSpelling, [Next]_vars
    PROVE  BytesInv'
<1>1. Inv'
  BY StepKeeps DEF BytesInv
<1>2. RecordsAccounted' /\ ActsKept'
  <2>1. CASE UNCHANGED vars
    BY <2>1, IdleKeeps DEF vars
  <2>2. CASE \E i \in 1..Len(events) : ProposeStale(events[i].id)
    BY <2>2, IdleKeeps DEF ProposeStale, Refuse
  <2>3. CASE ProposeInit
    BY <2>3, IdleKeeps DEF ProposeInit, Refuse
  <2>4. CASE \E spend \in Spends \cup {NoSpend} :
                \/ ProposePlan(spend)
                \/ \E noted \in {NotAttempted, spend} : ProposeFailed(spend, noted)
    BY <2>4, FinishPlanFailedAccount, WorldAssumption
  <2>5. CASE \E priced \in BOOLEAN : ProposeFinish(priced)
    <3>1. NoSpend \in Nat \cup {NoSpend}
      OBVIOUS
    <3> QED
      BY <2>5, <3>1, FinishPlanFailedAccount
  <2>6. CASE \E priced \in BOOLEAN, a \in Addrs : ProposeList(a, priced)
    BY <2>6, ListAccounts
  <2>7. CASE \E priced \in BOOLEAN, a \in Addrs : ProposeObserve(a, priced)
    BY <2>7, ObserveAccounts
  <2>8. CASE \E priced \in BOOLEAN, a \in Addrs :
               \E declared \in Contents, data \in Contents \cup {Nothing} :
                  ProposeAct(a, declared, data, priced)
    BY <2>8, ActAccounts
  <2>9. CASE Replay \/ CheckRebuild \/ Reload
    BY <2>9, IdleKeeps DEF Replay, CheckRebuild, Reload
  <2>10. CASE \E p \in Shared, x \in Contents \cup {Directory, Missing} :
                OutsideEdit(p, x)
    BY <2>10, EditKeeps, WorldAssumption
  <2> QED
    BY <2>1, <2>2, <2>3, <2>4, <2>5, <2>6, <2>7, <2>8, <2>9, <2>10 DEF Next
<1> QED
  BY <1>1, <1>2 DEF BytesInv

\* A new world has recorded nothing yet.
LEMMA InitAccounts == Init => BytesInv
<1> SUFFICES ASSUME Init PROVE BytesInv
  OBVIOUS
<1>1. Len(events) = 1 /\ events[1].digest = Nothing /\ events[1].op = "init"
  BY DEF Init
<1>2. RecordsAccounted
  BY <1>1 DEF RecordsAccounted, LastRecorded, Records
<1>3. ActsKept
  BY <1>1 DEF ActsKept, IsLastAct
<1> QED
  BY <1>2, <1>3, InitHolds DEF BytesInv

\* With one spelling per file, BytesInv is an invariant.
LEMMA BytesInvariant == OneSpelling /\ Spec => []BytesInv
<1>1. BytesInv /\ OneSpelling /\ [Next]_vars => BytesInv'
  BY StepAccounts
<1>2. CASE OneSpelling
  <2>1. BytesInv /\ [Next]_vars => BytesInv'
    BY <1>1, <1>2
  <2> QED
    BY InitAccounts, <2>1, PTL DEF Spec
<1> QED
  BY <1>2

\* What BytesInv says of a check: nothing but dirty files, and those edited.
LEMMA BytesBlameOutsiders == BytesInv => CheckBlamesOutsiders
<1> SUFFICES ASSUME BytesInv PROVE CheckBlamesOutsiders
  OBVIOUS
<1>1. /\ saved.acct = acct /\ ReplayAccount(events, Cap) = acct
      /\ InvariantsHold(events, acct, Jail)
  BY ReplayIsAccount DEF BytesInv, Inv, CachesFresh
<1>2. CheckIssues \subseteq {"dirty_space"}
  BY <1>1 DEF CheckIssues
<1>3. \A a \in DirtyAddrs : tampered[Place[a]] = "unseen"
  BY DEF DirtyAddrs, BytesInv, RecordsAccounted, Accounted
<1> QED
  BY <1>2, <1>3 DEF CheckBlamesOutsiders

\* check(rebuild=True) blames nobody but whoever edited a file behind the
\* kernel's back, as long as a file is always addressed by one spelling.
THEOREM CheckIsFair == ASSUME OneSpelling PROVE Spec => []CheckBlamesOutsiders
  BY BytesBlameOutsiders, BytesInvariant, PTL

\* World.load refuses a directory with DirtySpace only if somebody edited a
\* file behind the kernel's back, as long as a file has one spelling.
THEOREM LoadIsFair == ASSUME OneSpelling PROVE Spec => []LoadBlamesOutsiders
<1>1. BytesInv => LoadBlamesOutsiders
  <2> SUFFICES ASSUME BytesInv, ~Loadable
               PROVE  \E p \in Paths : tampered[p] # "no"
    BY DEF LoadBlamesOutsiders
  <2>1. PICK i \in 1..Len(events) :
          /\ IsLastAct(events, i)
          /\ ~(/\ events[i].addr \in Jail
               /\ At(events[i].addr) = events[i].digest)
    BY DEF Loadable
  <2>2. Kept(events[i].addr, events[i].digest)
    BY <2>1 DEF BytesInv, ActsKept
  <2> QED
    BY <2>1, <2>2 DEF Kept, Jail
<1> QED
  BY <1>1, BytesInvariant, PTL
=============================================================================
