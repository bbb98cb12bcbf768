------------------------------- MODULE Kernel -------------------------------
(***************************************************************************)
(* The pure part of the kernel: the I/O price table (kernel/energy.py),    *)
(* the event record (kernel/event.py), and the replay and invariant        *)
(* functions over a log of events (kernel/invariant.py).  No state.        *)
(*                                                                         *)
(* A file's bytes are a member of Contents; its sha256 digest is that same *)
(* member (the hash is taken to be injective) and its length is SizeOf.    *)
(***************************************************************************)
EXTENDS Integers, Sequences

CONSTANTS
    Contents,   \* the byte strings files and payloads may hold
    SizeOf,     \* their lengths in bytes
    Addrs,      \* the raw address strings a caller may pass
    Nothing     \* Python's None where an address or a digest is absent

ASSUME ContentsAssumption ==
    /\ SizeOf \in [Contents -> Nat]
    /\ Nothing \notin Contents \cup Addrs

-----------------------------------------------------------------------------
(* Prices.                                                                 *)

BlockBytes == 4096
MinCompletion == 8          \* MIN_COMPLETION_MJ
PerCallCeiling == 8000      \* PER_CALL_CEILING_MJ

\* Number of 4 KiB blocks; an empty payload still counts as the first block.
Blocks4Kib(size) ==
    IF size <= BlockBytes THEN 1
    ELSE 1 + ((size - BlockBytes) + BlockBytes - 1) \div BlockBytes

FreeList == 0               \* mutant: listings are not charged
ListCost == 1
ReadCost(size) == Blocks4Kib(size)
WriteCost(size) == 1 + Blocks4Kib(size)

-----------------------------------------------------------------------------
(* Accounts.  A debit larger than what remains raises EnergyExhausted, so  *)
(* every use of Debit is guarded by CanPay.                                *)

FreshAccount(cap) == [cap |-> cap, spent |-> 0, remaining |-> cap]
\* Mutants: quotes are compared with the cap; spent is not moved.
CanPayCap(acct, mj) == mj <= acct.cap
DebitHalf(acct, mj) == [acct EXCEPT !.remaining = @ - mj]

CanPay(acct, mj) == mj <= acct.remaining
Debit(acct, mj) == [acct EXCEPT !.spent = @ + mj, !.remaining = @ - mj]

-----------------------------------------------------------------------------
(* Events.  Ids are positive integers handed out once; NoId stands for a   *)
(* None parent.  "digest" is Act.digest or the hash a file Observe         *)
(* recorded, Nothing for a listing, a directory, and every other op.       *)

NoId == 0
NotAttempted == -1          \* Failed.attempted_mj is None
Ops == {"init", "observe", "plan", "act", "finish", "failed"}

EventType ==
    [id : Nat \ {NoId}, seq : Nat, parent : Nat, delta : Int,
     reason : {"io", "plan", "none"}, op : Ops,
     addr : Addrs \cup {Nothing}, digest : Contents \cup {Nothing},
     attempted : Int]

\* The validator every Event passes when it is built and when it is parsed.
EnergyContract(e) ==
    /\ e.delta <= 0
    /\ e.delta = 0 <=> e.reason = "none"

\* The magnitude spend_from rebuilds from an event (0 where it returns None).
SpendFrom(e) == -e.delta

\* sum(spend_from(e) for e in events), as running totals.
SpentUpTo(evs) ==
    LET run[i \in 0..Len(evs)] ==
            IF i = 0 THEN 0 ELSE run[i - 1] + SpendFrom(evs[i])
    IN  run
Spent(evs) == SpentUpTo(evs)[Len(evs)]

\* _replay_account: debit every spend in order; a spend that does not fit
\* raises EnergyExhausted, which no account comes out of.
Replayable(evs, cap) == Spent(evs) <= cap
ReplayAccount(evs, cap) == Debit(FreshAccount(cap), Spent(evs))

\* d is the digest the last event that recorded one at address a recorded.
Records(e, a) == e.addr = a /\ e.digest # Nothing
LastRecorded(evs, a, d) ==
    \E i \in 1..Len(evs) :
        /\ Records(evs[i], a)
        /\ evs[i].digest = d
        /\ \A j \in 1..Len(evs) : j > i => ~Records(evs[j], a)

\* Mutant: any Act counts as the last.
IsAnyAct(evs, i) == evs[i].op = "act"

\* evs[i] is the last Act of the log at its raw address string.
IsLastAct(evs, i) ==
    /\ evs[i].op = "act"
    /\ \A j \in 1..Len(evs) :
          j > i => ~(evs[j].op = "act" /\ evs[j].addr = evs[i].addr)

-----------------------------------------------------------------------------
(* invariant_issues.                                                       *)

NonNegative(acct) == acct.remaining >= 0                              \* I1
Conserved(acct) == acct.cap = acct.spent + acct.remaining             \* I2
Replays(evs, acct) == Spent(evs) = acct.spent                         \* I3
UniqueIds(evs) ==                                                     \* I4
    \A i, j \in 1..Len(evs) : evs[i].id = evs[j].id => i = j
Sequential(evs) == \A i \in 1..Len(evs) : evs[i].seq = i              \* I5
ParentOk(evs, i) ==
    IF evs[i].seq = 1 THEN evs[i].parent = NoId
    ELSE i > 1 /\ evs[i].parent = evs[i - 1].id
Parented(evs) == \A i \in 1..Len(evs) : ParentOk(evs, i)              \* I6
Jailed(evs, jail) ==                                                  \* I7
    \A i \in 1..Len(evs) :
        evs[i].op \in {"act", "observe"} => evs[i].addr \in jail

LogHolds(evs, jail) ==
    UniqueIds(evs) /\ Sequential(evs) /\ Parented(evs) /\ Jailed(evs, jail)
AccountHolds(evs, acct) ==
    NonNegative(acct) /\ Conserved(acct) /\ Replays(evs, acct)
InvariantsHold(evs, acct, jail) ==
    LogHolds(evs, jail) /\ AccountHolds(evs, acct)
=============================================================================
