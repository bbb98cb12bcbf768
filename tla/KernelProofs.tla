---------------------------- MODULE KernelProofs ----------------------------
(***************************************************************************)
(* Lemmas about the operators of Kernel: what the price of a payload is,   *)
(* and how the running total of a log's charges unfolds.                   *)
(*                                                                         *)
(* SpentUpTo is a recursive function, that is, a CHOOSE.  That one such    *)
(* function exists and that it is determined on every prefix is shown by   *)
(* taking the smallest length at which it would fail (NatMin).             *)
(***************************************************************************)
EXTENDS Kernel, TLAPS, WellFoundedInduction

\* Every non-empty set of naturals has a least element: the induction
\* principle behind the lemmas on running totals.
LEMMA NatMin ==
    ASSUME NEW T \in SUBSET Nat, T # {}
    PROVE  \E n \in T : \A m \in T : n <= m
<1> DEFINE R == OpToRel(<, Nat)
<1>1. IsWellFoundedOn(R, Nat)
  BY NatLessThanWellFounded
<1>2. \A m, n \in Nat : <<m, n>> \in R <=> m < n
  BY DEF OpToRel
<1> HIDE DEF R
<1>3. \E n \in T : \A m \in T : ~(<<m, n>> \in R)
  BY <1>1, WFMin
<1>4. PICK n \in T : \A m \in T : ~(m < n)
  BY <1>2, <1>3
<1> QED
  BY <1>4

-----------------------------------------------------------------------------
(* Prices.                                                                 *)

\* _blocks_4kib is the least number of 4 KiB blocks that hold the payload,
\* but never less than one: no boundary is off by one.
THEOREM BlocksAreLeast ==
    ASSUME NEW size \in Nat
    PROVE  /\ Blocks4Kib(size) \in Nat \ {0}
           /\ size <= Blocks4Kib(size) * 4096
           /\ \A n \in Nat \ {0} : size <= n * 4096 => Blocks4Kib(size) <= n
  BY DEF Blocks4Kib, BlockBytes

\* A debit moves energy from what remains to what is spent.
LEMMA DebitMoves ==
    ASSUME NEW cap, NEW acct \in [cap : {cap}, spent : Nat, remaining : Nat],
           NEW mj \in Nat, CanPay(acct, mj)
    PROVE  /\ Debit(acct, mj) = [cap |-> cap, spent |-> acct.spent + mj,
                                 remaining |-> acct.remaining - mj]
           /\ Debit(acct, mj) \in [cap : {cap}, spent : Nat, remaining : Nat]
<1> DEFINE once == [acct EXCEPT !.spent = @ + mj]
           twice == [once EXCEPT !.remaining = @ - mj]
<1>1. once = [cap |-> cap, spent |-> acct.spent + mj,
              remaining |-> acct.remaining]
  OBVIOUS
<1> HIDE DEF once
<1>2. twice = [cap |-> cap, spent |-> acct.spent + mj,
               remaining |-> acct.remaining - mj]
  BY <1>1
<1>3. Debit(acct, mj) = twice
  BY <1>1, <1>2 DEF Debit, once, twice
<1>4. acct.spent + mj \in Nat /\ acct.remaining - mj \in Nat
  BY DEF CanPay
<1> QED
  BY <1>2, <1>3, <1>4

-----------------------------------------------------------------------------
(* Running totals.                                                         *)

Charged(evs) == \A i \in 1..Len(evs) : evs[i].delta \in Int
IsTotal(f, n, evs) ==
    f = [i \in 0..n |-> IF i = 0 THEN 0 ELSE f[i - 1] + SpendFrom(evs[i])]

\* There is a function with the recursive equation of SpentUpTo.
LEMMA TotalExists ==
    ASSUME NEW evs, Len(evs) \in Nat
    PROVE  \E f : IsTotal(f, Len(evs), evs)
<1> DEFINE Bad == {n \in 0..Len(evs) : ~\E f : IsTotal(f, n, evs)}
<1>1. SUFFICES ASSUME Bad # {} PROVE FALSE
  OBVIOUS
<1>2. PICK n \in Bad : \A m \in Bad : n <= m
  BY <1>1, NatMin, Bad \in SUBSET Nat
<1>3. n # 0
  <2>1. IsTotal([i \in 0..0 |-> 0], 0, evs)
    BY DEF IsTotal
  <2> QED
    BY <2>1
<1>4. PICK f : IsTotal(f, n - 1, evs)
  BY <1>2, <1>3
<1> DEFINE g == [i \in 0..n |->
                   IF i = n THEN f[n - 1] + SpendFrom(evs[n]) ELSE f[i]]
<1>5. ASSUME NEW i \in 0..n
      PROVE  g[i] = IF i = 0 THEN 0 ELSE g[i - 1] + SpendFrom(evs[i])
  <2>1. CASE i = n
    BY <2>1, <1>3
  <2>2. CASE i # n
    <3>1. i \in 0..(n - 1)
      BY <2>2
    <3>2. f[i] = IF i = 0 THEN 0 ELSE f[i - 1] + SpendFrom(evs[i])
      BY <1>4, <3>1 DEF IsTotal
    <3> QED
      BY <2>2, <3>2
  <2> QED
    BY <2>1, <2>2
<1>6. IsTotal(g, n, evs)
  BY <1>5 DEF IsTotal
<1> QED
  BY <1>6

\* So SpentUpTo, which CHOOSEs such a function, has the equation.
LEMMA SpentUpToUnfolds ==
    ASSUME NEW evs, Len(evs) \in Nat
    PROVE  /\ SpentUpTo(evs)[0] = 0
           /\ \A i \in 1..Len(evs) :
                 SpentUpTo(evs)[i] = SpentUpTo(evs)[i - 1] + SpendFrom(evs[i])
<1>1. IsTotal(SpentUpTo(evs), Len(evs), evs)
  BY TotalExists DEF SpentUpTo, IsTotal
<1> HIDE DEF SpentUpTo
<1> QED
  BY <1>1 DEF IsTotal

\* Totals of integer charges are integers.
LEMMA SpentUpToType ==
    ASSUME NEW evs, Len(evs) \in Nat, Charged(evs)
    PROVE  \A n \in 0..Len(evs) : SpentUpTo(evs)[n] \in Int
<1> DEFINE Bad == {n \in 0..Len(evs) : SpentUpTo(evs)[n] \notin Int}
<1>1. SUFFICES ASSUME Bad # {} PROVE FALSE
  OBVIOUS
<1>2. PICK n \in Bad : \A m \in Bad : n <= m
  BY <1>1, NatMin, Bad \in SUBSET Nat
<1>3. n # 0
  BY <1>2, SpentUpToUnfolds
<1>4. SpentUpTo(evs)[n - 1] \in Int
  BY <1>2, <1>3
<1>5. SpendFrom(evs[n]) \in Int
  BY <1>3 DEF Charged, SpendFrom
<1> QED
  BY <1>2, <1>3, <1>4, <1>5, SpentUpToUnfolds

\* Two logs that agree on a prefix have the same total over it.
LEMMA SpentUpToPrefix ==
    ASSUME NEW evs, NEW evs2, Len(evs) \in Nat, Len(evs2) \in Nat,
           Len(evs) <= Len(evs2),
           \A i \in 1..Len(evs) : evs2[i] = evs[i]
    PROVE  \A n \in 0..Len(evs) : SpentUpTo(evs2)[n] = SpentUpTo(evs)[n]
<1> DEFINE Bad == {n \in 0..Len(evs) : SpentUpTo(evs2)[n] # SpentUpTo(evs)[n]}
<1>1. SUFFICES ASSUME Bad # {} PROVE FALSE
  OBVIOUS
<1>2. PICK n \in Bad : \A m \in Bad : n <= m
  BY <1>1, NatMin, Bad \in SUBSET Nat
<1>3. n # 0
  BY <1>2, SpentUpToUnfolds
<1>4. SpentUpTo(evs2)[n - 1] = SpentUpTo(evs)[n - 1]
  BY <1>2, <1>3
<1>5. n \in 1..Len(evs) /\ n \in 1..Len(evs2)
  BY <1>3
<1> QED
  BY <1>2, <1>4, <1>5, SpentUpToUnfolds

\* Committing an event adds its charge to what the log has spent.
THEOREM SpentAppend ==
    ASSUME NEW S, NEW evs \in Seq(S), NEW e \in S
    PROVE  Spent(Append(evs, e)) = Spent(evs) + SpendFrom(e)
<1> DEFINE evs2 == Append(evs, e)
<1>1. /\ Len(evs) \in Nat /\ Len(evs2) = Len(evs) + 1
      /\ evs2[Len(evs2)] = e
      /\ \A i \in 1..Len(evs) : evs2[i] = evs[i]
  OBVIOUS
<1> HIDE DEF evs2
<1>2. SpentUpTo(evs2)[Len(evs)] = SpentUpTo(evs)[Len(evs)]
  BY <1>1, SpentUpToPrefix
<1>3. SpentUpTo(evs2)[Len(evs2)] = SpentUpTo(evs2)[Len(evs)] + SpendFrom(e)
  BY <1>1, SpentUpToUnfolds
<1> QED
  BY <1>2, <1>3 DEF Spent, evs2

\* A log of one event has spent that event's charge.
LEMMA SpentOne ==
    ASSUME NEW e, e.delta \in Int
    PROVE  Spent(<<e>>) = SpendFrom(e)
<1> DEFINE evs == <<e>>
<1>1. Len(evs) = 1 /\ evs[1] = e
  OBVIOUS
<1> HIDE DEF evs
<1>2. SpentUpTo(evs)[0] = 0 /\ SpentUpTo(evs)[1] = SpentUpTo(evs)[0] + SpendFrom(e)
  BY <1>1, SpentUpToUnfolds
<1> QED
  BY <1>1, <1>2 DEF Spent, SpendFrom, evs

\* The events of a typed log are events, and their charges integers.
LEMMA LogTyped ==
    ASSUME NEW evs \in Seq(EventType)
    PROVE  /\ Len(evs) \in Nat
           /\ \A i \in 1..Len(evs) : evs[i] \in EventType
           /\ Charged(evs)
<1>1. Len(evs) \in Nat /\ \A i \in 1..Len(evs) : evs[i] \in EventType
  OBVIOUS
<1>2. \A e \in EventType : e.delta \in Int
  BY DEF EventType
<1> QED
  BY <1>1, <1>2 DEF Charged

\* What a log of integer charges has spent is an integer.
LEMMA SpentType ==
    ASSUME NEW evs \in Seq(EventType)
    PROVE  Spent(evs) \in Int
<1>1. Len(evs) \in Nat /\ Charged(evs)
  BY LogTyped
<1>2. \A n \in 0..Len(evs) : SpentUpTo(evs)[n] \in Int
  BY <1>1, SpentUpToType
<1> QED
  BY <1>1, <1>2 DEF Spent

\* _replay_account debits one event at a time and may stop at any of them,
\* but under the energy contract it gets through the log exactly when the
\* whole total fits: no prefix costs more than the log it is a prefix of.
THEOREM ReplayStopsNowhereElse ==
    ASSUME NEW evs \in Seq(EventType), NEW cap \in Int,
           \A i \in 1..Len(evs) : EnergyContract(evs[i])
    PROVE  Replayable(evs, cap) <=>
              \A n \in 0..Len(evs) : SpentUpTo(evs)[n] <= cap
<1> DEFINE total == SpentUpTo(evs)
<1>0. /\ Len(evs) \in Nat /\ Charged(evs)
      /\ \A i \in 1..Len(evs) : evs[i] \in EventType
  BY LogTyped
<1>1. \A n \in 0..Len(evs) : total[n] \in Int
  BY <1>0, SpentUpToType
<1>2. \A n \in 1..Len(evs) : total[n - 1] <= total[n]
  <2> SUFFICES ASSUME NEW n \in 1..Len(evs) PROVE total[n - 1] <= total[n]
    OBVIOUS
  <2>1. total[n] = total[n - 1] + SpendFrom(evs[n])
    BY <1>0, SpentUpToUnfolds
  <2>2. SpendFrom(evs[n]) \in Int /\ SpendFrom(evs[n]) >= 0
    BY <1>0 DEF Charged, SpendFrom, EnergyContract
  <2>3. total[n - 1] \in Int
    BY <1>0, <1>1
  <2> HIDE DEF total
  <2> QED
    BY <2>1, <2>2, <2>3
<1> HIDE DEF total
<1>3. \A m, n \in 0..Len(evs) : m <= n => total[m] <= total[n]
  <2> SUFFICES ASSUME NEW m \in 0..Len(evs)
               PROVE  \A n \in 0..Len(evs) : m <= n => total[m] <= total[n]
    OBVIOUS
  <2> DEFINE Bad == {n \in 0..Len(evs) : m <= n /\ ~(total[m] <= total[n])}
  <2>1. SUFFICES ASSUME Bad # {} PROVE FALSE
    OBVIOUS
  <2>2. PICK n \in Bad : \A k \in Bad : n <= k
    BY <2>1, NatMin, Bad \in SUBSET Nat
  <2>3. n # m /\ n - 1 \in 0..Len(evs) /\ m <= n - 1
    BY <1>1, <2>2
  <2>4. total[m] <= total[n - 1]
    BY <2>2, <2>3
  <2>5. total[n - 1] <= total[n]
    BY <1>2, <2>3
  <2> QED
    BY <1>1, <2>2, <2>3, <2>4, <2>5
<1>4. Replayable(evs, cap) <=> total[Len(evs)] <= cap
  BY DEF Replayable, Spent, total
<1>5. (\A n \in 0..Len(evs) : total[n] <= cap) <=> total[Len(evs)] <= cap
  BY <1>0, <1>1, <1>3
<1> QED
  BY <1>4, <1>5 DEF total
=============================================================================
