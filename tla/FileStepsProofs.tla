---------------------------- MODULE FileStepsProofs ---------------------------
(***************************************************************************)
(* What survives of an Observe or an Act when the directory changes under  *)
(* it: for any directory, any links and any number of edits between any    *)
(* two steps.                                                              *)
(*                                                                         *)
(* A call works on what it has looked at (call.cell, call.dest), and what  *)
(* it was found able to pay nobody can take away, because the lock keeps   *)
(* other calls out (Poised).  The account lags the log only between the    *)
(* append and the replace of an Act (Balanced).                            *)
(***************************************************************************)
EXTENDS FileSteps, KernelProofs

Labels == {"idle", "observe", "reread", "list", "listed", "commit", "act",
           "append", "replace", "look"}
CallRecord ==
    [op : {"none", "observe", "list", "act"}, addr : Addrs \cup {Nothing},
     data : Contents \cup {Nothing}, dest : Paths \cup {Escapes},
     cell : Contents \cup {Directory, Missing}, bytes : Contents \cup {Nothing},
     before : Nat]

Typed ==
    /\ files \in [Paths -> Contents \cup {Directory, Missing}]
    /\ target \in [Addrs -> Paths \cup {Escapes}]
    /\ events \in Seq(EventType)
    /\ acct \in [cap : {Cap}, spent : Nat, remaining : Nat]
    /\ acct.spent + acct.remaining = Cap
    /\ pc \in Labels /\ call \in CallRecord
    /\ strayed \in BOOLEAN /\ unpaid \in BOOLEAN

\* What the call under way has made sure of.
Poised ==
    /\ pc # "idle" => call.addr \in Addrs
    /\ pc \in {"observe", "reread"} => call.op = "observe"
    /\ pc \in {"list", "listed"} => call.op = "list"
    /\ pc = "commit" => call.op \in {"observe", "list"}
    /\ pc \in {"reread", "commit"} /\ call.op = "observe" =>
          call.cell # Missing /\ CanPay(acct, ObserveQuote(call.cell))
    /\ pc \in {"listed", "commit"} /\ call.op = "list" => CanPay(acct, ListCost)
    /\ pc \in {"act", "append", "replace", "look"} => call.data \in Contents
    /\ pc \in {"append", "replace"} =>
          CanPay(acct, WriteCost(SizeOf[call.data])) /\ call.dest \in Paths

Chained ==
    \A i \in 1..Len(events) :
        events[i].id = i /\ events[i].seq = i /\ events[i].parent = i - 1

\* The account has paid for the log, but for an Act not yet in place.
Due == IF pc = "replace" THEN WriteCost(SizeOf[call.data]) ELSE 0
Balanced == ~unpaid => Spent(events) = acct.spent + Due

\* Addresses that were in the jail stay there unless a link strays.
Led ==
    ~strayed =>
        /\ \A i \in 1..Len(events) :
              events[i].op \in {"act", "observe"} => events[i].addr \in InJail
        /\ pc \in {"reread", "listed", "commit", "append", "replace", "look"} =>
              call.addr \in InJail

\* The digest an Observe recorded is priced as such.
Priced ==
    \A i \in 1..Len(events) :
        events[i].op = "observe" /\ events[i].digest # Nothing =>
            SpendFrom(events[i]) = ReadCost(SizeOf[events[i].digest])

\* The inductive invariant.
StepsInv ==
    Typed /\ Poised /\ Chained /\ Balanced /\ Led /\ Priced /\ SelfCheckBlamesLinks

-----------------------------------------------------------------------------
(* Prices, looks and verdicts.                                             *)

\* Every price is a natural number.
LEMMA PriceType ==
    /\ ListCost \in Nat
    /\ \A size \in Nat : ReadCost(size) \in Nat /\ WriteCost(size) \in Nat
<1>1. \A size \in Nat : Blocks4Kib(size) \in Nat
  BY BlocksAreLeast
<1> QED
  BY <1>1 DEF ListCost, ReadCost, WriteCost

\* So is the quote of a file or a directory.
LEMMA QuoteType ==
    ASSUME NEW x \in Contents \cup {Directory}
    PROVE  ObserveQuote(x) \in Nat
<1>1. (IF x = Directory THEN 0 ELSE SizeOf[x]) \in Nat
  BY ContentsAssumption
<1> QED
  BY <1>1, PriceType DEF ObserveQuote

\* What a look finds when resolve lets it through.
LEMMA LookFinds ==
    ASSUME Typed, NEW a \in Addrs, LookVerdict(a) = "ok"
    PROVE  /\ a \in InJail /\ target[a] \in Paths
           /\ Found(a) \in Contents \cup {Directory}
<1>1. a \in InJail /\ target[a] \in Paths
  BY DEF LookVerdict, InJail
<1>2. Found(a) = files[target[a]] /\ Found(a) # Missing
  BY <1>1 DEF LookVerdict, Found
<1> QED
  BY <1>1, <1>2 DEF Typed

\* A chained log in the jail that the account has paid for passes the check.
LEMMA CheckPasses ==
    ASSUME NEW evs \in Seq(EventType),
           NEW account \in [cap : {Cap}, spent : Nat, remaining : Nat],
           account.spent + account.remaining = Cap,
           \A i \in 1..Len(evs) :
               evs[i].id = i /\ evs[i].seq = i /\ evs[i].parent = i - 1,
           \A i \in 1..Len(evs) :
               evs[i].op \in {"act", "observe"} => evs[i].addr \in InJail,
           Spent(evs) = account.spent
    PROVE  Verdict(evs, account) = "ok"
<1>1. UniqueIds(evs) /\ Sequential(evs) /\ Parented(evs)
  BY DEF UniqueIds, Sequential, Parented, ParentOk, NoId
<1>2. Jailed(evs, InJail)
  BY DEF Jailed
<1>3. NonNegative(account) /\ Conserved(account) /\ Replays(evs, account)
  BY DEF NonNegative, Conserved, Replays
<1> QED
  BY <1>1, <1>2, <1>3 DEF Verdict, InvariantsHold, LogHolds, AccountHolds

\* An event is logged: the log stays a chain and costs so much more.
LEMMA LoggedChains ==
    ASSUME Typed, Chained, NEW op \in {"observe", "act"}, NEW mj \in Nat,
           NEW digest \in Contents \cup {Nothing}, call.addr \in Addrs,
           events' = Logged(op, mj, digest)
    PROVE  /\ events' \in Seq(EventType) /\ Len(events') = Len(events) + 1
           /\ Chained'
           /\ \A i \in 1..Len(events) : events'[i] = events[i]
           /\ LET e == events'[Len(events) + 1]
              IN  /\ e.op = op /\ e.addr = call.addr /\ e.digest = digest
                  /\ SpendFrom(e) = mj
           /\ Spent(events') = Spent(events) + mj
<1> DEFINE n == Len(events)
           e == [id |-> n + 1, seq |-> n + 1, parent |-> n, delta |-> -mj,
                 reason |-> "io", op |-> op, addr |-> call.addr,
                 digest |-> digest, attempted |-> NotAttempted]
<1>1. events \in Seq(EventType) /\ n \in Nat
  BY DEF Typed
<1>2. e \in EventType
  BY <1>1 DEF EventType, NoId, Ops, NotAttempted
<1>3. events' = Append(events, e)
  BY DEF Logged
<1>4. /\ e.id = n + 1 /\ e.seq = n + 1 /\ e.parent = n /\ e.op = op
      /\ e.addr = call.addr /\ e.digest = digest /\ SpendFrom(e) = mj
  BY DEF SpendFrom
<1> HIDE DEF e
<1>5. /\ events' \in Seq(EventType) /\ Len(events') = n + 1
      /\ events'[n + 1] = e
      /\ \A i \in 1..n : events'[i] = events[i]
  BY <1>1, <1>2, <1>3
<1>6. Spent(events') = Spent(events) + mj
  BY <1>1, <1>2, <1>3, <1>4, SpentAppend
<1>7. Chained'
  BY <1>1, <1>4, <1>5 DEF Chained
<1> QED
  BY <1>4, <1>5, <1>6, <1>7

\* A debit of what can be paid keeps the account in shape.
LEMMA DebitShape ==
    ASSUME Typed, NEW mj \in Nat, CanPay(acct, mj)
    PROVE  /\ Debit(acct, mj) \in [cap : {Cap}, spent : Nat, remaining : Nat]
           /\ Debit(acct, mj).spent = acct.spent + mj
           /\ Debit(acct, mj).spent + Debit(acct, mj).remaining = Cap
<1>1. acct \in [cap : {Cap}, spent : Nat, remaining : Nat]
  BY DEF Typed
<1>2. /\ Debit(acct, mj) = [cap |-> Cap, spent |-> acct.spent + mj,
                            remaining |-> acct.remaining - mj]
      /\ Debit(acct, mj) \in [cap : {Cap}, spent : Nat, remaining : Nat]
  BY <1>1, DebitMoves
<1>3. PICK s \in Nat, r \in Nat : s = acct.spent /\ r = acct.remaining
  BY <1>1
<1>4. s + r = Cap
  BY <1>3 DEF Typed
<1> QED
  BY <1>2, <1>3, <1>4, FileStepsAssumption

-----------------------------------------------------------------------------
(* Every step.                                                             *)

\* The log, the account and the directory stand still.
LEMMA QuietKeeps ==
    ASSUME StepsInv, UNCHANGED <<dirVars, events, acct, strayed, unpaid>>,
           call' \in CallRecord, pc' \in Labels, Poised',
           pc # "replace" /\ pc' # "replace",
           pc' \in {"reread", "listed", "commit", "append", "replace", "look"}
               /\ ~strayed => call'.addr \in InJail,
           answer' \in {answer, "ok"} \/ answer' # "InvariantError"
    PROVE  StepsInv'
<1>1. UNCHANGED <<files, target, InJail>>
  BY DEF dirVars, InJail
<1>2. Typed' /\ Chained' /\ Priced'
  BY <1>1 DEF StepsInv, Typed, Chained, Priced
<1>3. Balanced'
  BY <1>1 DEF StepsInv, Balanced, Due
<1>4. Led'
  BY <1>1 DEF StepsInv, Led
<1>5. SelfCheckBlamesLinks'
  BY DEF StepsInv, SelfCheckBlamesLinks
<1> QED
  BY <1>2, <1>3, <1>4, <1>5 DEF StepsInv

\* A call is refused.
LEMMA RefusalKeeps ==
    ASSUME StepsInv, NEW verdict, Refusal(verdict), pc # "replace",
           verdict # "InvariantError"
    PROVE  StepsInv'
<1>1. /\ UNCHANGED <<dirVars, events, acct, call, strayed, unpaid>>
      /\ pc' = "idle" /\ answer' = verdict
  BY DEF Refusal, Answer, worldVars, historyVars
<1>2. call' \in CallRecord /\ pc' \in Labels /\ Poised'
  BY <1>1 DEF StepsInv, Typed, Poised, Labels
<1> QED
  BY <1>1, <1>2, QuietKeeps

\* A call begins.
LEMMA BeginKeeps ==
    ASSUME StepsInv, NEW op \in {"observe", "list", "act"}, NEW a \in Addrs,
           NEW data \in Contents \cup {Nothing}, op = "act" => data \in Contents,
           Begin(op, a, data)
    PROVE  StepsInv'
<1>1. /\ pc = "idle" /\ pc' = op
      /\ UNCHANGED <<dirVars, events, acct, answer, strayed, unpaid>>
      /\ call' = [NoCall EXCEPT !.op = op, !.addr = a, !.data = data,
                                !.before = Len(events)]
  BY DEF Begin, worldVars
<1>2. Len(events) \in Nat
  BY DEF StepsInv, Typed
<1>3. call' = [op |-> op, addr |-> a, data |-> data, dest |-> Escapes,
               cell |-> Missing, bytes |-> Nothing, before |-> Len(events)]
  BY <1>1 DEF NoCall
<1>4. call' \in CallRecord /\ pc' \in Labels
  BY <1>1, <1>2, <1>3 DEF CallRecord, Labels
<1>5. Poised'
  BY <1>1, <1>3 DEF Poised
<1> QED
  BY <1>1, <1>4, <1>5, QuietKeeps

\* No look raises the invariant error.
LEMMA LookRaises ==
    ASSUME NEW a
    PROVE  LookVerdict(a) # "InvariantError"
  BY DEF LookVerdict

\* A call goes on with what it has seen.
LEMMA OnwardKeeps ==
    ASSUME StepsInv, NEW label \in Labels \ {"idle", "replace"}, Onward(label),
           pc # "replace", call' \in CallRecord, Poised', call'.addr = call.addr,
           call.addr \in InJail
    PROVE  StepsInv'
<1>1. /\ UNCHANGED <<dirVars, events, acct, answer, strayed, unpaid>>
      /\ pc' = label
  BY DEF Onward, worldVars, historyVars
<1> QED
  BY <1>1, QuietKeeps

\* Observe hashes the file.
LEMMA ObserveLookKeeps ==
    ASSUME StepsInv, ObserveLook
    PROVE  StepsInv'
<1> DEFINE a == call.addr
           verdict == IF LookVerdict(a) # "ok" THEN LookVerdict(a)
                      ELSE IF ~CanPay(acct, ObserveQuote(Found(a)))
                      THEN "EnergyExhausted" ELSE "ok"
           label == IF Found(a) = Directory THEN "commit" ELSE "reread"
<1>1. pc = "observe" /\ a \in Addrs /\ call \in CallRecord /\ call.op = "observe"
  BY DEF ObserveLook, StepsInv, Poised, Typed
<1>2. CASE verdict # "ok"
  <2>1. Refusal(verdict) /\ verdict # "InvariantError"
    BY <1>2, LookRaises DEF ObserveLook
  <2> QED
    BY <1>1, <2>1, RefusalKeeps
<1>3. CASE verdict = "ok"
  <2>1. LookVerdict(a) = "ok" /\ CanPay(acct, ObserveQuote(Found(a)))
    BY <1>3
  <2>2. a \in InJail /\ Found(a) \in Contents \cup {Directory}
    BY <1>1, <2>1, LookFinds DEF StepsInv
  <2>3. call' = [call EXCEPT !.cell = Found(a)] /\ Onward(label)
    BY <1>3 DEF ObserveLook
  <2>4. /\ call' \in CallRecord /\ call'.addr = a /\ call'.op = "observe"
        /\ call'.cell = Found(a)
    BY <1>1, <2>2, <2>3 DEF CallRecord
  <2>5. pc' = label /\ label \in {"commit", "reread"} /\ acct' = acct
    BY <2>3 DEF Onward, worldVars
  <2>6. Found(a) # Missing
    BY <2>2, FileStepsAssumption
  <2>7. Poised'
    BY <1>1, <2>1, <2>4, <2>5, <2>6 DEF Poised
  <2> QED
    BY <1>1, <2>2, <2>3, <2>4, <2>5, <2>7, OnwardKeeps DEF Labels
<1> QED
  BY <1>2, <1>3

\* Observe reads the file.
LEMMA ObserveRereadKeeps ==
    ASSUME StepsInv, ObserveReread
    PROVE  StepsInv'
<1> DEFINE a == call.addr
           verdict == IF LookVerdict(a) # "ok" THEN LookVerdict(a)
                      ELSE IF Found(a) = Directory THEN "IsADirectoryError"
                      ELSE "ok"
<1>1. pc = "reread" /\ a \in Addrs /\ call \in CallRecord /\ call.op = "observe"
  BY DEF ObserveReread, StepsInv, Poised, Typed
<1>2. CASE verdict # "ok"
  <2>1. Refusal(verdict) /\ verdict # "InvariantError"
    BY <1>2, LookRaises DEF ObserveReread
  <2> QED
    BY <1>1, <2>1, RefusalKeeps
<1>3. CASE verdict = "ok"
  <2>1. LookVerdict(a) = "ok" /\ Found(a) # Directory
    BY <1>3
  <2>2. a \in InJail /\ Found(a) \in Contents
    BY <1>1, <2>1, LookFinds DEF StepsInv
  <2>3. call' = [call EXCEPT !.bytes = Found(a)] /\ Onward("commit")
    BY <1>3 DEF ObserveReread
  <2>4. /\ call' \in CallRecord /\ call'.addr = a /\ call'.op = "observe"
        /\ call'.cell = call.cell
    BY <1>1, <2>2, <2>3 DEF CallRecord
  <2>5. pc' = "commit" /\ acct' = acct
    BY <2>3 DEF Onward, worldVars
  <2>6. call.cell # Missing /\ CanPay(acct, ObserveQuote(call.cell))
    BY <1>1 DEF StepsInv, Poised
  <2>7. Poised'
    BY <1>1, <2>4, <2>5, <2>6 DEF Poised
  <2> QED
    BY <1>1, <2>2, <2>3, <2>4, <2>5, <2>7, OnwardKeeps DEF Labels
<1> QED
  BY <1>2, <1>3

\* A listing is priced and taken,
LEMMA ListDirectoryKeeps ==
    ASSUME StepsInv, ListDirectory
    PROVE  StepsInv'
<1> DEFINE a == call.addr
           verdict == IF ~CanPay(acct, ListCost) THEN "EnergyExhausted"
                      ELSE IF LookVerdict(a) # "ok" THEN LookVerdict(a)
                      ELSE IF Found(a) # Directory THEN "NotADirectoryError"
                      ELSE "ok"
<1>1. pc = "list" /\ a \in Addrs /\ call \in CallRecord /\ call.op = "list"
  BY DEF ListDirectory, StepsInv, Poised, Typed
<1>2. CASE verdict # "ok"
  <2>1. Refusal(verdict) /\ verdict # "InvariantError"
    BY <1>2, LookRaises DEF ListDirectory
  <2> QED
    BY <1>1, <2>1, RefusalKeeps
<1>3. CASE verdict = "ok"
  <2>1. LookVerdict(a) = "ok" /\ CanPay(acct, ListCost)
    BY <1>3
  <2>2. a \in InJail
    BY <1>1, <2>1, LookFinds DEF StepsInv
  <2>3. call' = call /\ Onward("listed")
    BY <1>3 DEF ListDirectory
  <2>4. pc' = "listed" /\ acct' = acct
    BY <2>3 DEF Onward, worldVars
  <2>5. Poised'
    BY <1>1, <2>1, <2>3, <2>4 DEF Poised
  <2> QED
    BY <1>1, <2>2, <2>3, <2>4, <2>5, OnwardKeeps DEF Labels
<1> QED
  BY <1>2, <1>3

\* and the directory looked at again.
LEMMA ListLookKeeps ==
    ASSUME StepsInv, ListLook
    PROVE  StepsInv'
<1> DEFINE a == call.addr
<1>1. pc = "listed" /\ a \in Addrs /\ call \in CallRecord /\ call.op = "list"
  BY DEF ListLook, StepsInv, Poised, Typed
<1>2. CASE LookVerdict(a) # "ok"
  <2>1. Refusal(LookVerdict(a))
    BY <1>2 DEF ListLook
  <2> QED
    BY <1>1, <2>1, LookRaises, RefusalKeeps
<1>3. CASE LookVerdict(a) = "ok"
  <2>1. a \in InJail /\ Found(a) \in Contents \cup {Directory}
    BY <1>1, <1>3, LookFinds DEF StepsInv
  <2>2. call' = [call EXCEPT !.cell = Found(a)] /\ Onward("commit")
    BY <1>3 DEF ListLook
  <2>3. call' \in CallRecord /\ call'.addr = a /\ call'.op = "list"
    BY <1>1, <2>1, <2>2 DEF CallRecord
  <2>4. pc' = "commit" /\ acct' = acct
    BY <2>2 DEF Onward, worldVars
  <2>5. Poised'
    BY <1>1, <2>3, <2>4 DEF Poised, StepsInv
  <2> QED
    BY <1>1, <2>1, <2>2, <2>3, <2>4, <2>5, OnwardKeeps DEF Labels
<1> QED
  BY <1>2, <1>3

\* An Observe commits what it first looked at, at that price.
LEMMA CommitObserveKeeps ==
    ASSUME StepsInv, CommitObserve
    PROVE  StepsInv'
<1> DEFINE mj == IF call.op = "list" THEN ListCost ELSE ObserveQuote(call.cell)
           digest == IF call.op = "list" THEN Nothing ELSE Digest(call.cell)
           n == Len(events)
<1>1. /\ pc = "commit" /\ pc' = "idle" /\ events' = Logged("observe", mj, digest)
      /\ acct' = Debit(acct, mj) /\ answer' = Verdict(events', acct')
      /\ UNCHANGED <<files, target, call, strayed, unpaid, InJail>>
  BY DEF CommitObserve, Answer, dirVars, historyVars, InJail
<1>2. /\ Typed /\ Chained /\ call.addr \in Addrs /\ call \in CallRecord
      /\ call.op \in {"observe", "list"} /\ n \in Nat
  BY <1>1 DEF StepsInv, Poised, Typed
<1>3. /\ mj \in Nat /\ CanPay(acct, mj) /\ digest \in Contents \cup {Nothing}
      /\ digest # Nothing => mj = ReadCost(SizeOf[digest])
  <2>1. CASE call.op = "list"
    BY <1>1, <2>1, PriceType DEF StepsInv, Poised
  <2>2. CASE call.op = "observe"
    <3>1. call.cell \in Contents \cup {Directory} /\ CanPay(acct, ObserveQuote(call.cell))
      BY <1>1, <1>2, <2>2 DEF StepsInv, Poised, CallRecord
    <3> QED
      BY <2>2, <3>1, QuoteType, FileStepsAssumption DEF ObserveQuote, Digest
  <2> QED
    BY <1>2, <2>1, <2>2
<1> HIDE DEF mj, digest
<1>4. /\ events' \in Seq(EventType) /\ Len(events') = n + 1
      /\ Chained'
      /\ \A i \in 1..n : events'[i] = events[i]
      /\ events'[n + 1].op = "observe" /\ events'[n + 1].addr = call.addr
      /\ events'[n + 1].digest = digest /\ SpendFrom(events'[n + 1]) = mj
      /\ Spent(events') = Spent(events) + mj
  BY <1>1, <1>2, <1>3, LoggedChains
<1>5. /\ acct' \in [cap : {Cap}, spent : Nat, remaining : Nat]
      /\ acct'.spent = acct.spent + mj /\ acct'.spent + acct'.remaining = Cap
  BY <1>1, <1>2, <1>3, DebitShape
<1>6. Typed' /\ Poised'
  BY <1>1, <1>2, <1>4, <1>5 DEF Typed, Poised, Labels
<1>7. Priced'
  BY <1>2, <1>3, <1>4 DEF StepsInv, Priced
<1>8. ~unpaid => Spent(events') = acct'.spent
  <2>1. PICK s \in Nat : s = acct.spent
    BY <1>2 DEF Typed
  <2>2. ~unpaid => Spent(events) = s + 0
    BY <1>1, <2>1 DEF StepsInv, Balanced, Due
  <2> QED
    BY <1>3, <1>4, <1>5, <2>1, <2>2
<1>9. Led'
  BY <1>1, <1>2, <1>4 DEF StepsInv, Led
<1>10. SelfCheckBlamesLinks'
  <2> SUFFICES ASSUME ~strayed, ~unpaid PROVE Verdict(events', acct') = "ok"
    BY <1>1 DEF SelfCheckBlamesLinks
  <2>1. Spent(events') = acct'.spent
    BY <1>8
  <2>2. \A i \in 1..Len(events') :
            events'[i].op \in {"act", "observe"} => events'[i].addr \in InJail
    BY <1>1, <1>9 DEF Led
  <2> QED
    BY <1>4, <1>5, <2>1, <2>2, CheckPasses DEF Chained
<1>11. Balanced'
  <2>1. acct'.spent \in Nat
    BY <1>5
  <2> QED
    BY <1>1, <1>8, <2>1 DEF Balanced, Due
<1> QED
  BY <1>4, <1>6, <1>7, <1>9, <1>10, <1>11 DEF StepsInv

\* An Act settles its destination and price.
LEMMA ActResolveKeeps ==
    ASSUME StepsInv, ActResolve
    PROVE  StepsInv'
<1> DEFINE a == call.addr
           verdict == IF a \notin InJail THEN "OutsideSpace"
                      ELSE IF Found(a) = Directory THEN "IsADirectoryError"
                      ELSE IF SizeOf[call.data] > MaxWrite THEN "WriteTooLarge"
                      ELSE IF ~CanPay(acct, WriteCost(SizeOf[call.data]))
                      THEN "EnergyExhausted" ELSE "ok"
<1>1. /\ pc = "act" /\ a \in Addrs /\ call \in CallRecord
      /\ call.data \in Contents
  BY DEF ActResolve, StepsInv, Poised, Typed
<1>2. CASE verdict # "ok"
  <2>1. Refusal(verdict) /\ verdict # "InvariantError"
    BY <1>2 DEF ActResolve
  <2> QED
    BY <1>1, <2>1, RefusalKeeps
<1>3. CASE verdict = "ok"
  <2>1. a \in InJail /\ CanPay(acct, WriteCost(SizeOf[call.data]))
    BY <1>3
  <2>2. target[a] \in Paths
    BY <2>1 DEF InJail
  <2>3. call' = [call EXCEPT !.dest = target[a]] /\ Onward("append")
    BY <1>3 DEF ActResolve
  <2>4. /\ call' \in CallRecord /\ call'.addr = a /\ call'.data = call.data
        /\ call'.dest \in Paths
    BY <1>1, <2>2, <2>3 DEF CallRecord
  <2>5. pc' = "append" /\ acct' = acct
    BY <2>3 DEF Onward, worldVars
  <2>6. Poised'
    BY <1>1, <2>1, <2>4, <2>5 DEF Poised
  <2> QED
    BY <1>1, <2>1, <2>3, <2>4, <2>5, <2>6, OnwardKeeps DEF Labels
<1> QED
  BY <1>2, <1>3

\* It logs, and owes what it logged.
LEMMA ActAppendKeeps ==
    ASSUME StepsInv, ActAppend
    PROVE  StepsInv'
<1> DEFINE mj == WriteCost(SizeOf[call.data])
           n == Len(events)
<1>1. /\ pc = "append" /\ pc' = "replace" /\ events' = Logged("act", mj, call.data)
      /\ UNCHANGED <<files, target, acct, call, answer, strayed, unpaid, InJail>>
  BY DEF ActAppend, dirVars, historyVars, InJail
<1>2. /\ Typed /\ Chained /\ call.addr \in Addrs /\ call \in CallRecord
      /\ call.data \in Contents /\ n \in Nat
      /\ CanPay(acct, mj) /\ call.dest \in Paths
  BY <1>1 DEF StepsInv, Poised, Typed
<1>3. mj \in Nat
  BY <1>2, PriceType, ContentsAssumption
<1> HIDE DEF mj
<1>4. /\ events' \in Seq(EventType) /\ Len(events') = n + 1
      /\ Chained'
      /\ \A i \in 1..n : events'[i] = events[i]
      /\ events'[n + 1].op = "act" /\ events'[n + 1].addr = call.addr
      /\ Spent(events') = Spent(events) + mj
  BY <1>1, <1>2, <1>3, LoggedChains
<1>5. Typed' /\ Poised'
  BY <1>1, <1>2, <1>4 DEF Typed, Poised, Labels, mj
<1>6. Priced'
  BY <1>2, <1>4 DEF StepsInv, Priced
<1>7. Balanced'
  <2>1. PICK s \in Nat : s = acct.spent
    BY <1>2 DEF Typed
  <2>2. ~unpaid => Spent(events) = s + 0
    BY <1>1, <2>1 DEF StepsInv, Balanced, Due
  <2>3. Due' = mj
    BY <1>1 DEF Due, mj
  <2> QED
    BY <1>1, <1>3, <1>4, <2>1, <2>2, <2>3 DEF Balanced
<1>8. Led'
  BY <1>1, <1>2, <1>4 DEF StepsInv, Led
<1>9. SelfCheckBlamesLinks'
  BY <1>1 DEF StepsInv, SelfCheckBlamesLinks
<1> QED
  BY <1>4, <1>5, <1>6, <1>7, <1>8, <1>9 DEF StepsInv

\* It replaces the file and pays; or it can do neither.
LEMMA ActReplaceKeeps ==
    ASSUME StepsInv, ActReplace
    PROVE  StepsInv'
<1> DEFINE mj == WriteCost(SizeOf[call.data])
<1>1. pc = "replace" /\ UNCHANGED <<target, events, call, strayed, InJail>>
  BY DEF ActReplace, InJail
<1>2. /\ Typed /\ call.addr \in Addrs /\ call \in CallRecord
      /\ call.data \in Contents /\ CanPay(acct, mj) /\ call.dest \in Paths
  BY <1>1 DEF StepsInv, Poised, Typed
<1>3. mj \in Nat
  BY <1>2, PriceType, ContentsAssumption
<1>4. Chained' /\ Priced'
  BY <1>1 DEF StepsInv, Chained, Priced
<1>5. CASE files[call.dest] = Directory
  <2>1. /\ pc' = "idle" /\ answer' = "OSError" /\ unpaid' = TRUE
        /\ UNCHANGED <<files, acct>>
    BY <1>5 DEF ActReplace, Answer
  <2>2. Typed' /\ Poised'
    BY <1>1, <1>2, <2>1 DEF Typed, Poised, Labels
  <2>3. Balanced' /\ Led' /\ SelfCheckBlamesLinks'
    BY <1>1, <2>1 DEF StepsInv, Balanced, Led, SelfCheckBlamesLinks
  <2> QED
    BY <1>4, <2>2, <2>3 DEF StepsInv
<1>6. CASE files[call.dest] # Directory
  <2>1. /\ files' = [files EXCEPT ![call.dest] = call.data]
        /\ acct' = Debit(acct, mj) /\ pc' = "look"
        /\ UNCHANGED <<answer, unpaid>>
    BY <1>6 DEF ActReplace
  <2> HIDE DEF mj
  <2>2. /\ acct' \in [cap : {Cap}, spent : Nat, remaining : Nat]
        /\ acct'.spent = acct.spent + mj /\ acct'.spent + acct'.remaining = Cap
    BY <1>2, <1>3, <2>1, DebitShape
  <2>3. Typed' /\ Poised'
    BY <1>1, <1>2, <2>1, <2>2 DEF Typed, Poised, Labels
  <2>4. Balanced'
    <3>1. PICK s \in Nat : s = acct.spent
      BY <1>2 DEF Typed
    <3>2. ~unpaid => Spent(events) = s + mj
      BY <1>1, <3>1 DEF StepsInv, Balanced, Due, mj
    <3>3. Due' = 0 /\ acct'.spent = s + mj
      BY <2>1, <2>2, <3>1 DEF Due
    <3> QED
      BY <1>1, <1>3, <2>1, <3>2, <3>3 DEF Balanced
  <2>5. Led' /\ SelfCheckBlamesLinks'
    BY <1>1, <2>1 DEF StepsInv, Led, SelfCheckBlamesLinks
  <2> QED
    BY <1>4, <2>3, <2>4, <2>5 DEF StepsInv
<1> QED
  BY <1>5, <1>6

\* It looks at what it wrote, wherever the address leads by now.
LEMMA ActLookKeeps ==
    ASSUME StepsInv, ActLook
    PROVE  StepsInv'
<1>1. /\ pc = "look" /\ pc' = "idle"
      /\ UNCHANGED <<files, target, events, acct, call, strayed, unpaid, InJail>>
      /\ \/ answer' = LookVerdict(call.addr)
         \/ answer' = Verdict(events, acct)
  BY DEF ActLook, Answer, dirVars, historyVars, InJail
<1>2. Typed' /\ Chained' /\ Priced' /\ Poised' /\ Led'
  BY <1>1 DEF StepsInv, Typed, Chained, Priced, Poised, Led, Labels
<1>3. Balanced'
  BY <1>1 DEF StepsInv, Balanced, Due
<1>4. SelfCheckBlamesLinks'
  <2> SUFFICES ASSUME ~strayed, ~unpaid PROVE Verdict(events, acct) = "ok"
    BY <1>1, LookRaises DEF SelfCheckBlamesLinks
  <2>1. PICK s \in Nat : s = acct.spent
    BY DEF StepsInv, Typed
  <2>2. Spent(events) = s + 0
    BY <1>1, <2>1 DEF StepsInv, Balanced, Due
  <2> QED
    BY <1>1, <2>1, <2>2, CheckPasses DEF StepsInv, Typed, Chained, Led
<1> QED
  BY <1>2, <1>3, <1>4 DEF StepsInv

\* Nobody else touches more than the directory.
LEMMA MeddlingKeeps ==
    ASSUME StepsInv,
           \/ \E p \in Paths, x \in Held : OutsideEdit(p, x)
           \/ \E a \in Addrs : \E t \in Targets[a] : Relink(a, t)
    PROVE  StepsInv'
<1>1. CASE \E p \in Paths, x \in Held : OutsideEdit(p, x)
  <2>1. PICK p \in Paths, x \in Held : OutsideEdit(p, x)
    BY <1>1
  <2>2. /\ files' = [files EXCEPT ![p] = x] /\ x \in Contents \cup {Directory, Missing}
        /\ UNCHANGED <<target, events, acct, pc, call, answer, strayed, unpaid, InJail>>
    BY <2>1, FileStepsAssumption DEF OutsideEdit, worldVars, InJail
  <2>3. Typed' /\ Poised' /\ Chained' /\ Priced' /\ Led' /\ SelfCheckBlamesLinks'
    BY <2>2 DEF StepsInv, Typed, Poised, Chained, Priced, Led, SelfCheckBlamesLinks
  <2>4. Balanced'
    BY <2>2 DEF StepsInv, Balanced, Due
  <2> QED
    BY <2>3, <2>4 DEF StepsInv
<1>2. CASE \E a \in Addrs : \E t \in Targets[a] : Relink(a, t)
  <2>1. PICK a \in Addrs : \E t \in Targets[a] : Relink(a, t)
    BY <1>2
  <2>2. PICK t \in Targets[a] : Relink(a, t)
    BY <2>1
  <2>3. /\ target' = [target EXCEPT ![a] = t] /\ t \in Paths \cup {Escapes}
        /\ strayed' = (strayed \/ t = Escapes)
        /\ UNCHANGED <<files, events, acct, pc, call, answer, unpaid>>
    BY <2>2, FileStepsAssumption DEF Relink, worldVars
  <2>4. Typed' /\ Poised' /\ Chained' /\ Priced' /\ SelfCheckBlamesLinks'
    BY <2>3 DEF StepsInv, Typed, Poised, Chained, Priced, SelfCheckBlamesLinks
  <2>5. Balanced'
    BY <2>3 DEF StepsInv, Balanced, Due
  <2>6. ~strayed' => ~strayed /\ InJail \subseteq InJail'
    BY <2>3 DEF InJail, StepsInv, Typed
  <2>7. Led'
    BY <2>3, <2>6 DEF StepsInv, Led
  <2> QED
    BY <2>4, <2>5, <2>7 DEF StepsInv
<1> QED
  BY <1>1, <1>2

-----------------------------------------------------------------------------
(* The theorems.                                                           *)

\* A world just opened has logged its Init and paid nothing for it.
LEMMA StepsInitHolds == StepsInit => StepsInv
<1> SUFFICES ASSUME StepsInit PROVE StepsInv
  OBVIOUS
<1> DEFINE e == [id |-> 1, seq |-> 1, parent |-> NoId, delta |-> 0,
                 reason |-> "none", op |-> "init", addr |-> Nothing,
                 digest |-> Nothing, attempted |-> NotAttempted]
<1>1. /\ events = <<e>> /\ pc = "idle" /\ call = NoCall /\ answer = "ok"
      /\ acct = [cap |-> Cap, spent |-> 0, remaining |-> Cap]
      /\ files = InitialFiles /\ target = InitialTarget
      /\ strayed = FALSE /\ unpaid = FALSE
  BY DEF StepsInit, FreshAccount
<1>2. /\ e \in EventType /\ e.delta = 0 /\ e.id = 1 /\ e.seq = 1 /\ e.parent = 0
      /\ e.op = "init"
  BY DEF EventType, NoId, Ops, NotAttempted
<1> HIDE DEF e
<1>3. Typed
  <2>1. call \in CallRecord /\ pc \in Labels
    BY <1>1 DEF CallRecord, NoCall, Labels
  <2>2. events \in Seq(EventType)
    BY <1>1, <1>2
  <2>3. /\ acct \in [cap : {Cap}, spent : Nat, remaining : Nat]
        /\ acct.spent + acct.remaining = Cap
    BY <1>1, FileStepsAssumption
  <2> QED
    BY <1>1, <2>1, <2>2, <2>3, FileStepsAssumption DEF Typed
<1>4. Poised
  BY <1>1 DEF Poised
<1>5. Chained /\ Led /\ Priced
  BY <1>1, <1>2 DEF Chained, Led, Priced
<1>6. Balanced
  <2>1. Spent(events) = 0
    BY <1>1, <1>2, SpentOne DEF SpendFrom
  <2> QED
    BY <1>1, <2>1 DEF Balanced, Due
<1>7. SelfCheckBlamesLinks
  BY <1>1 DEF SelfCheckBlamesLinks
<1> QED
  BY <1>3, <1>4, <1>5, <1>6, <1>7 DEF StepsInv

\* Every step keeps the invariant.
LEMMA StepsKeep ==
    ASSUME StepsInv, [StepsNext]_stepVars
    PROVE  StepsInv'
<1>1. CASE \E a \in Addrs : Begin("observe", a, Nothing) \/ Begin("list", a, Nothing)
  BY <1>1, BeginKeeps
<1>2. CASE \E a \in Addrs : \E data \in Contents : Begin("act", a, data)
  BY <1>2, BeginKeeps
<1>3. CASE \/ \E p \in Paths, x \in Held : OutsideEdit(p, x)
           \/ \E a \in Addrs : \E t \in Targets[a] : Relink(a, t)
  BY <1>3, MeddlingKeeps
<1>4. CASE ObserveLook \/ ObserveReread \/ ListDirectory \/ ListLook \/ CommitObserve
  BY <1>4, ObserveLookKeeps, ObserveRereadKeeps, ListDirectoryKeeps, ListLookKeeps,
     CommitObserveKeeps
<1>5. CASE ActResolve \/ ActAppend \/ ActReplace \/ ActLook
  BY <1>5, ActResolveKeeps, ActAppendKeeps, ActReplaceKeeps, ActLookKeeps
<1>6. CASE UNCHANGED stepVars
  <2>1. UNCHANGED <<files, target, events, acct, pc, call, answer, strayed, unpaid,
                    InJail>>
    BY <1>6 DEF stepVars, dirVars, worldVars, historyVars, InJail
  <2>2. Typed' /\ Poised' /\ Chained' /\ Priced' /\ Led' /\ SelfCheckBlamesLinks'
    BY <2>1 DEF StepsInv, Typed, Poised, Chained, Priced, Led, SelfCheckBlamesLinks
  <2>3. Balanced'
    BY <2>1 DEF StepsInv, Balanced, Due
  <2> QED
    BY <2>2, <2>3 DEF StepsInv
<1> QED
  BY <1>1, <1>2, <1>3, <1>4, <1>5, <1>6 DEF StepsNext

\* The inductive invariant is an invariant.
THEOREM StepsInvariant == StepsSpec => []StepsInv
<1>1. StepsInv /\ [StepsNext]_stepVars => StepsInv'
  BY StepsKeep
<1> QED
  BY StepsInitHolds, <1>1, PTL DEF StepsSpec

\* Whatever happens to a file between the looks of a call, its charge is the
\* price of the bytes whose digest is logged, and the log is paid for.
THEOREM ChargesAreForLoggedBytes == StepsSpec => []PricedAsLogged
<1>1. StepsInv => PricedAsLogged
  <2> SUFFICES ASSUME StepsInv PROVE PricedAsLogged
    OBVIOUS
  <2>1. PICK s \in Nat : s = acct.spent
    BY DEF StepsInv, Typed
  <2>2. pc = "idle" /\ ~unpaid => Spent(events) = s + 0
    BY <2>1 DEF StepsInv, Balanced, Due
  <2> QED
    BY <2>1, <2>2 DEF StepsInv, Priced, PricedAsLogged
<1> QED
  BY StepsInvariant, <1>1, PTL

\* The self check after a commit is silent unless a link left the jail or an
\* Act could not be put in place.
THEOREM SelfCheckIsFair == StepsSpec => []SelfCheckBlamesLinks
<1>1. StepsInv => SelfCheckBlamesLinks
  BY DEF StepsInv
<1> QED
  BY StepsInvariant, <1>1, PTL

-----------------------------------------------------------------------------
(* A call left alone.                                                      *)

\* Nothing is logged before it is decided, and then once.
Counted ==
    /\ pc \in {"observe", "reread", "list", "listed", "commit", "act", "append"} =>
          Len(events) = call.before
    /\ pc \in {"replace", "look"} =>
          /\ Len(events) = call.before + 1
          /\ events[Len(events)].digest = call.data

\* What the call has seen is still there.
Seen ==
    /\ pc = "observe" => call.bytes = Nothing
    /\ pc \in {"reread", "commit"} => call.cell = Found(call.addr)
    /\ pc = "commit" /\ call.op = "observe" => call.bytes = Digest(call.cell)
    /\ pc \in {"act", "append", "replace", "look"} => call.op = "act"
    /\ pc \in {"append", "replace"} =>
          /\ call.addr \in InJail /\ call.dest = target[call.addr]
          /\ files[call.dest] # Directory
    /\ pc = "look" => call.addr \in InJail /\ Found(call.addr) = call.data

Undisturbed ==
    /\ meddling \in Nat
    /\ cells \in [Addrs -> Contents \cup {Directory, Missing, Nothing}]
    /\ meddling = 0 => Counted /\ Seen
    /\ OnlyMeddlingMisleads

\* A refusal has logged nothing.
LEMMA RefusalTells ==
    ASSUME Undisturbed, NEW verdict, Refusal(verdict),
           verdict \notin {"ok", "InvariantError"},
           pc \in {"observe", "reread", "list", "listed", "commit", "act", "append"}
    PROVE  Undisturbed'
<1>1. /\ UNCHANGED <<events, call, meddling, cells>>
      /\ pc' = "idle" /\ answer' = verdict
  BY DEF Refusal, Answer, worldVars, historyVars
<1>2. meddling' = 0 => Counted' /\ Seen'
  BY <1>1 DEF Counted, Seen
<1>3. OnlyMeddlingMisleads'
  BY <1>1 DEF Undisturbed, Counted, OnlyMeddlingMisleads
<1> QED
  BY <1>1, <1>2, <1>3 DEF Undisturbed

\* Looks raise neither "ok" nor the invariant error.
LEMMA LookExceptions ==
    ASSUME NEW a, LookVerdict(a) # "ok"
    PROVE  LookVerdict(a) \notin {"ok", "InvariantError"}
  BY DEF LookVerdict

\* A call goes on: the files are as they were.
LEMMA OnwardTells ==
    ASSUME Undisturbed, NEW label, label # "idle", Onward(label),
           meddling = 0 => Counted' /\ Seen'
    PROVE  Undisturbed'
<1>1. UNCHANGED <<cells, meddling>> /\ pc' = label
  BY DEF Onward, worldVars, historyVars
<1> QED
  BY <1>1 DEF Undisturbed, OnlyMeddlingMisleads

\* An Observe that is let through has seen what is there.
LEMMA ObserveTells ==
    ASSUME StepsInv, Undisturbed, ObserveLook \/ ObserveReread
    PROVE  Undisturbed'
<1> DEFINE a == call.addr
<1>1. a \in Addrs /\ call \in CallRecord /\ call.op = "observe" /\ Typed
  BY DEF ObserveLook, ObserveReread, StepsInv, Poised, Typed
<1>2. CASE ObserveLook
  <2> DEFINE verdict == IF LookVerdict(a) # "ok" THEN LookVerdict(a)
                        ELSE IF ~CanPay(acct, ObserveQuote(Found(a)))
                        THEN "EnergyExhausted" ELSE "ok"
             label == IF Found(a) = Directory THEN "commit" ELSE "reread"
  <2>1. CASE verdict # "ok"
    <3>1. Refusal(verdict) /\ verdict \notin {"ok", "InvariantError"}
          /\ pc = "observe"
      BY <1>2, <2>1, LookExceptions DEF ObserveLook
    <3> QED
      BY <3>1, RefusalTells
  <2>2. CASE verdict = "ok"
    <3>1. /\ pc = "observe" /\ call' = [call EXCEPT !.cell = Found(a)]
          /\ Onward(label) /\ label \in {"commit", "reread"}
      BY <1>2, <2>2 DEF ObserveLook
    <3>2. /\ call'.addr = a /\ call'.cell = Found(a) /\ call'.bytes = call.bytes
          /\ call'.before = call.before
      BY <1>1, <3>1 DEF CallRecord
    <3>3. /\ UNCHANGED <<files, target, events>> /\ pc' = label
          /\ Found(a)' = Found(a)
      BY <3>1, <3>2 DEF Onward, dirVars, worldVars, Found, InJail
    <3>4. meddling = 0 => Counted'
      BY <3>1, <3>2, <3>3 DEF Undisturbed, Counted
    <3>5. Directory \notin Contents
      BY FileStepsAssumption
    <3>6. meddling = 0 => Seen'
      BY <3>1, <3>2, <3>3, <3>5 DEF Undisturbed, Seen, Digest, Found, InJail
    <3> QED
      BY <3>1, <3>4, <3>6, OnwardTells
  <2> QED
    BY <2>1, <2>2
<1>3. CASE ObserveReread
  <2> DEFINE verdict == IF LookVerdict(a) # "ok" THEN LookVerdict(a)
                        ELSE IF Found(a) = Directory THEN "IsADirectoryError"
                        ELSE "ok"
  <2>1. CASE verdict # "ok"
    <3>1. Refusal(verdict) /\ verdict \notin {"ok", "InvariantError"}
          /\ pc = "reread"
      BY <1>3, <2>1, LookExceptions DEF ObserveReread
    <3> QED
      BY <3>1, RefusalTells
  <2>2. CASE verdict = "ok"
    <3>1. /\ pc = "reread" /\ call' = [call EXCEPT !.bytes = Found(a)]
          /\ Onward("commit") /\ LookVerdict(a) = "ok" /\ Found(a) # Directory
      BY <1>3, <2>2 DEF ObserveReread
    <3>2. /\ call'.addr = a /\ call'.cell = call.cell /\ call'.bytes = Found(a)
          /\ call'.before = call.before
      BY <1>1, <3>1 DEF CallRecord
    <3>3. UNCHANGED <<files, target, events>> /\ pc' = "commit"
      BY <3>1 DEF Onward, dirVars, worldVars
    <3>4. meddling = 0 => Counted'
      BY <3>1, <3>2, <3>3 DEF Undisturbed, Counted
    <3>5. Found(a) \in Contents
      BY <1>1, <3>1, LookFinds
    <3>6. meddling = 0 => Seen'
      BY <3>1, <3>2, <3>3, <3>5 DEF Undisturbed, Seen, Digest, Found, InJail
    <3> QED
      BY <3>1, <3>4, <3>6, OnwardTells
  <2> QED
    BY <2>1, <2>2
<1> QED
  BY <1>2, <1>3

\* So has a listing.
LEMMA ListTells ==
    ASSUME StepsInv, Undisturbed, ListDirectory \/ ListLook
    PROVE  Undisturbed'
<1> DEFINE a == call.addr
<1>1. a \in Addrs /\ call \in CallRecord /\ call.op = "list"
  BY DEF ListDirectory, ListLook, StepsInv, Poised, Typed
<1>2. CASE ListDirectory
  <2> DEFINE verdict == IF ~CanPay(acct, ListCost) THEN "EnergyExhausted"
                        ELSE IF LookVerdict(a) # "ok" THEN LookVerdict(a)
                        ELSE IF Found(a) # Directory THEN "NotADirectoryError"
                        ELSE "ok"
  <2>1. CASE verdict # "ok"
    <3>1. Refusal(verdict) /\ verdict \notin {"ok", "InvariantError"} /\ pc = "list"
      BY <1>2, <2>1, LookExceptions DEF ListDirectory
    <3> QED
      BY <3>1, RefusalTells
  <2>2. CASE verdict = "ok"
    <3>1. pc = "list" /\ call' = call /\ Onward("listed")
      BY <1>2, <2>2 DEF ListDirectory
    <3>2. events' = events /\ pc' = "listed"
      BY <3>1 DEF Onward, worldVars
    <3>3. meddling = 0 => Counted' /\ Seen'
      BY <3>1, <3>2 DEF Undisturbed, Counted, Seen
    <3> QED
      BY <3>1, <3>3, OnwardTells
  <2> QED
    BY <2>1, <2>2
<1>3. CASE ListLook
  <2>1. CASE LookVerdict(a) # "ok"
    <3>1. Refusal(LookVerdict(a)) /\ pc = "listed"
      BY <1>3, <2>1 DEF ListLook
    <3> QED
      BY <2>1, <3>1, LookExceptions, RefusalTells
  <2>2. CASE LookVerdict(a) = "ok"
    <3>1. /\ pc = "listed" /\ call' = [call EXCEPT !.cell = Found(a)]
          /\ Onward("commit")
      BY <1>3, <2>2 DEF ListLook
    <3>2. /\ call'.addr = a /\ call'.cell = Found(a) /\ call'.op = "list"
          /\ call'.before = call.before
      BY <1>1, <3>1 DEF CallRecord
    <3>3. UNCHANGED <<files, target, events>> /\ pc' = "commit"
      BY <3>1 DEF Onward, dirVars, worldVars
    <3>4. meddling = 0 => Counted' /\ Seen'
      BY <3>1, <3>2, <3>3 DEF Undisturbed, Counted, Seen, Found, InJail
    <3> QED
      BY <3>1, <3>4, OnwardTells
  <2> QED
    BY <2>1, <2>2
<1> QED
  BY <1>2, <1>3

\* An Observe or a listing answers what it saw, and logs it.
LEMMA CommitTells ==
    ASSUME StepsInv, Undisturbed, CommitObserve
    PROVE  Undisturbed'
<1> DEFINE a == call.addr
           mj == IF call.op = "list" THEN ListCost ELSE ObserveQuote(call.cell)
           digest == IF call.op = "list" THEN Nothing ELSE Digest(call.cell)
           n == Len(events)
<1>1. /\ pc = "commit" /\ pc' = "idle" /\ events' = Logged("observe", mj, digest)
      /\ answer' = Verdict(events', acct') /\ bytesRead' = call.bytes
      /\ cells' = [cells EXCEPT ![a] = call.cell]
      /\ UNCHANGED <<files, target, call, meddling, InJail>>
  BY DEF CommitObserve, Answer, dirVars, historyVars, InJail
<1>2. /\ a \in Addrs /\ call \in CallRecord /\ events \in Seq(EventType)
      /\ call.op \in {"observe", "list"} /\ n \in Nat
  BY <1>1 DEF StepsInv, Poised, Typed
<1>3. answer' \in {"ok", "InvariantError"}
  BY <1>1 DEF Verdict
<1>4. /\ Len(events') = n + 1 /\ events'[Len(events')].digest = digest
  BY <1>1, <1>2 DEF Logged
<1>5. /\ cells' \in [Addrs -> Contents \cup {Directory, Missing, Nothing}]
      /\ cells'[a] = call.cell
  BY <1>1, <1>2 DEF Undisturbed, CallRecord
<1> HIDE DEF mj
<1>6. ASSUME meddling = 0
      PROVE  /\ n = call.before /\ call.cell = Found(a)
             /\ call.op = "observe" => call.bytes = Digest(call.cell)
  BY <1>1, <1>6 DEF Undisturbed, Counted, Seen
<1>7. OnlyMeddlingMisleads'
  BY <1>1, <1>2, <1>3, <1>4, <1>5, <1>6 DEF OnlyMeddlingMisleads, Found
<1>8. meddling = 0 => Counted' /\ Seen'
  BY <1>1 DEF Counted, Seen
<1> QED
  BY <1>1, <1>5, <1>7, <1>8 DEF Undisturbed

\* An Act settles where its file goes, and logs its bytes.
LEMMA ActBeginsTells ==
    ASSUME StepsInv, Undisturbed, ActResolve \/ ActAppend
    PROVE  Undisturbed'
<1> DEFINE a == call.addr
<1>1. a \in Addrs /\ call \in CallRecord /\ call.data \in Contents
  BY DEF ActResolve, ActAppend, StepsInv, Poised, Typed
<1>2. CASE ActResolve
  <2> DEFINE verdict == IF a \notin InJail THEN "OutsideSpace"
                        ELSE IF Found(a) = Directory THEN "IsADirectoryError"
                        ELSE IF SizeOf[call.data] > MaxWrite THEN "WriteTooLarge"
                        ELSE IF ~CanPay(acct, WriteCost(SizeOf[call.data]))
                        THEN "EnergyExhausted" ELSE "ok"
  <2>1. CASE verdict # "ok"
    <3>1. Refusal(verdict) /\ verdict \notin {"ok", "InvariantError"} /\ pc = "act"
      BY <1>2, <2>1 DEF ActResolve
    <3> QED
      BY <3>1, RefusalTells
  <2>2. CASE verdict = "ok"
    <3>1. /\ pc = "act" /\ call' = [call EXCEPT !.dest = target[a]]
          /\ Onward("append") /\ a \in InJail /\ Found(a) # Directory
      BY <1>2, <2>2 DEF ActResolve
    <3>2. /\ call'.addr = a /\ call'.dest = target[a] /\ call'.op = call.op
          /\ call'.before = call.before
      BY <1>1, <3>1 DEF CallRecord
    <3>3. UNCHANGED <<files, target, events, InJail>> /\ pc' = "append"
      BY <3>1 DEF Onward, dirVars, worldVars, InJail
    <3>4. meddling = 0 => Counted' /\ Seen'
      BY <3>1, <3>2, <3>3 DEF Undisturbed, Counted, Seen, Found
    <3> QED
      BY <3>1, <3>4, OnwardTells
  <2> QED
    BY <2>1, <2>2
<1>3. CASE ActAppend
  <2> DEFINE mj == WriteCost(SizeOf[call.data])
  <2>1. /\ pc = "append" /\ pc' = "replace" /\ events' = Logged("act", mj, call.data)
        /\ UNCHANGED <<files, target, call, meddling, cells, InJail>>
    BY <1>3 DEF ActAppend, dirVars, historyVars, InJail
  <2> HIDE DEF mj
  <2>2. events \in Seq(EventType)
    BY DEF StepsInv, Typed
  <2>3. Len(events') = Len(events) + 1 /\ events'[Len(events')].digest = call.data
    BY <2>1, <2>2 DEF Logged
  <2>4. meddling = 0 => Counted' /\ Seen'
    BY <2>1, <2>3 DEF Undisturbed, Counted, Seen, Found
  <2> QED
    BY <2>1, <2>4 DEF Undisturbed, OnlyMeddlingMisleads
<1> QED
  BY <1>2, <1>3

\* Left alone an Act can put its file in place, and finds it there.
LEMMA ActEndsTells ==
    ASSUME StepsInv, Undisturbed, ActReplace \/ ActLook
    PROVE  Undisturbed'
<1> DEFINE a == call.addr
<1>1. /\ a \in Addrs /\ call \in CallRecord /\ call.data \in Contents
      /\ UNCHANGED <<target, events, call, meddling, InJail>>
  BY DEF ActReplace, ActLook, StepsInv, Poised, Typed, dirVars, historyVars, InJail
<1>2. call.data # Missing /\ call.data \in Contents
  BY <1>1, FileStepsAssumption
<1>3. CASE ActReplace
  <2>1. pc = "replace" /\ call.dest \in Paths /\ UNCHANGED cells
    BY <1>3 DEF ActReplace, StepsInv, Poised
  <2>2. files \in [Paths -> Contents \cup {Directory, Missing}]
    BY DEF StepsInv, Typed
  <2>3. CASE meddling = 0
    <3>1. /\ call.addr \in InJail /\ call.dest = target[a]
          /\ files[call.dest] # Directory /\ call.op = "act"
          /\ Len(events) = call.before + 1
          /\ events[Len(events)].digest = call.data
      BY <2>1, <2>3 DEF Undisturbed, Counted, Seen
    <3>2. pc' = "look" /\ files' = [files EXCEPT ![call.dest] = call.data]
      BY <1>3, <3>1 DEF ActReplace
    <3>3. Found(a)' = call.data
      BY <1>1, <2>1, <2>2, <3>1, <3>2 DEF Found
    <3>4. Counted' /\ Seen'
      BY <1>1, <3>1, <3>2, <3>3 DEF Counted, Seen
    <3> QED
      BY <1>1, <2>1, <3>2, <3>4 DEF Undisturbed, OnlyMeddlingMisleads
  <2>4. CASE meddling # 0
    BY <1>1, <2>1, <2>4 DEF Undisturbed, OnlyMeddlingMisleads
  <2> QED
    BY <2>3, <2>4
<1>4. CASE ActLook
  <2>1. pc = "look" /\ pc' = "idle" /\ UNCHANGED files
    BY <1>4 DEF ActLook, Answer, dirVars
  <2>2. cells' \in [Addrs -> Contents \cup {Directory, Missing, Nothing}]
    <3>1. UNCHANGED cells \/ cells' = [cells EXCEPT ![a] = Found(a)]
      BY <1>4 DEF ActLook
    <3>2. Found(a) \in Contents \cup {Directory, Missing}
      BY <1>1 DEF Found, InJail, StepsInv, Typed
    <3> QED
      BY <1>1, <3>1, <3>2 DEF Undisturbed
  <2>3. CASE meddling = 0
    <3>1. /\ a \in InJail /\ Found(a) = call.data /\ call.op = "act"
          /\ Len(events) = call.before + 1
          /\ events[Len(events)].digest = call.data
      BY <2>1, <2>3 DEF Undisturbed, Counted, Seen
    <3>2. LookVerdict(a) = "ok"
      BY <1>2, <3>1 DEF LookVerdict
    <3>3. /\ cells' = [cells EXCEPT ![a] = Found(a)]
          /\ answer' = Verdict(events, acct)
      BY <1>4, <3>2 DEF ActLook, Answer
    <3>4. cells'[a] = Found(a) /\ answer' \in {"ok", "InvariantError"}
      BY <1>1, <3>3 DEF Undisturbed, Verdict
    <3>5. Found(a)' = Found(a) /\ Digest(Found(a)) = call.data
      BY <1>1, <1>2, <2>1, <3>1 DEF Found, Digest
    <3>6. OnlyMeddlingMisleads'
      BY <1>1, <3>1, <3>4, <3>5 DEF OnlyMeddlingMisleads
    <3>7. Counted' /\ Seen'
      BY <2>1 DEF Counted, Seen
    <3> QED
      BY <1>1, <2>2, <3>6, <3>7 DEF Undisturbed
  <2>4. CASE meddling # 0
    BY <1>1, <2>2, <2>4 DEF Undisturbed, OnlyMeddlingMisleads
  <2> QED
    BY <2>3, <2>4
<1> QED
  BY <1>3, <1>4

\* A call begins with nothing seen.
LEMMA BeginTells ==
    ASSUME StepsInv, Undisturbed, NEW op \in {"observe", "list", "act"},
           NEW a \in Addrs, NEW data, Begin(op, a, data)
    PROVE  Undisturbed'
<1>1. /\ pc' = op /\ UNCHANGED <<events, cells>> /\ meddling' = 0
      /\ call' = [op |-> op, addr |-> a, data |-> data, dest |-> Escapes,
                  cell |-> Missing, bytes |-> Nothing, before |-> Len(events)]
  BY DEF Begin, worldVars, NoCall
<1>2. call'.before = Len(events) /\ call'.bytes = Nothing /\ call'.op = op
  BY <1>1
<1>3. Counted' /\ Seen'
  BY <1>1, <1>2 DEF Counted, Seen
<1> QED
  BY <1>1, <1>3 DEF Undisturbed, OnlyMeddlingMisleads

\* Every step keeps what a call left alone can tell.
LEMMA StepsTell ==
    ASSUME StepsInv, Undisturbed, [StepsNext]_stepVars
    PROVE  Undisturbed'
<1>1. CASE \E a \in Addrs : \/ Begin("observe", a, Nothing) \/ Begin("list", a, Nothing)
                            \/ \E data \in Contents : Begin("act", a, data)
  BY <1>1, BeginTells
<1>2. CASE \/ \E p \in Paths, x \in Held : OutsideEdit(p, x)
           \/ \E a \in Addrs : \E t \in Targets[a] : Relink(a, t)
  <2>1. meddling' = meddling + 1 /\ UNCHANGED cells
    BY <1>2 DEF OutsideEdit, Relink, worldVars
  <2> QED
    BY <2>1 DEF Undisturbed, OnlyMeddlingMisleads
<1>3. CASE \/ ObserveLook \/ ObserveReread \/ ListDirectory \/ ListLook
           \/ CommitObserve
  BY <1>3, ObserveTells, ListTells, CommitTells
<1>4. CASE ActResolve \/ ActAppend \/ ActReplace \/ ActLook
  BY <1>4, ActBeginsTells, ActEndsTells
<1>5. CASE UNCHANGED stepVars
  BY <1>5 DEF stepVars, dirVars, worldVars, historyVars, Undisturbed, Counted, Seen,
              OnlyMeddlingMisleads, Found, InJail
<1> QED
  BY <1>1, <1>2, <1>3, <1>4, <1>5 DEF StepsNext

\* Nothing has been called yet.
LEMMA InitTells == StepsInit => Undisturbed
  BY DEF StepsInit, Undisturbed, Counted, Seen, OnlyMeddlingMisleads

\* A caller that nobody meddled with is told the truth, in any directory.
THEOREM TruthLeftAlone == StepsSpec => []OnlyMeddlingMisleads
<1>1. StepsInv /\ Undisturbed /\ [StepsNext]_stepVars => Undisturbed'
  BY StepsTell
<1>2. Undisturbed => OnlyMeddlingMisleads
  BY DEF Undisturbed
<1> QED
  BY InitTells, StepsInvariant, <1>1, <1>2, PTL DEF StepsSpec
=============================================================================
