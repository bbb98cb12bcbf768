------------------------------ MODULE LoopProofs -----------------------------
(***************************************************************************)
(* What AgentLoop.tla promises, for every provider, every set of tool      *)
(* calls, every budget and every number of steps.                          *)
(*                                                                         *)
(* The loop only ever changes the world by one of World's proposals, so    *)
(* World's invariant carries over; and as the invariant check after a      *)
(* commit never fires, a proposal that does not answer "ok" has not        *)
(* committed anything (Outcome).  The rest is bookkeeping: where the run   *)
(* is, against what the log ends in.                                       *)
(*                                                                         *)
(* From LoopInv follow that a run implements the ledger, that it leaves a  *)
(* world check() accepts (with WorldProofs' BytesInv), and that StepsAhead *)
(* goes down with every step it takes.                                     *)
(***************************************************************************)
EXTENDS AgentLoop, WorldProofs, SequenceTheorems

\* The log grew by one event of op, and the caller was told so; or neither.
Committed(op) ==
    /\ answer' = "ok"
    /\ Len(events') = Len(events) + 1
    /\ \A i \in 1..Len(events) : events'[i] = events[i]
    /\ events'[Len(events) + 1].op = op
NotCommitted == answer' # "ok" /\ UNCHANGED events
Outcome(op) == Inv' /\ Paid /\ (Committed(op) \/ NotCommitted)

\* A Plan stands at most MaxCalls - n events back.
PlanBacks(n) ==
    \E j \in 3..Len(events) :
        events[j].op = "plan" /\ (Len(events) - j) + n <= MaxCalls

\* The calls still to dispatch fit between the last Plan and its bound; the
\* one listing without a Plan is the seed.
CallsBacked ==
    mode = "run" =>
        /\ pc \in {"listing", "dispatch", "complete", "waiting"} => Len(events) >= 2
        /\ pc = "seed" => Len(events) = 1
        /\ pc = "dispatch" => PlanBacks(Len(calls))
        /\ pc = "listing" => \/ Tail(calls) = <<>> /\ Len(events) = 2
                             \/ PlanBacks(Len(calls) - 1)

\* The inductive invariant.
LoopInv ==
    /\ Inv
    /\ LoopTypeOK
    /\ CallsBacked
    /\ ClosedOnce
    /\ EveryReturnExplained
    /\ ActsFollowPlans

-----------------------------------------------------------------------------
(* Proposals.                                                              *)

\* A commit that keeps the invariant is answered with "ok".
LEMMA CommitAnswers ==
    ASSUME Inv, Inv', Paid, NEW op, NEW mj, NEW reas, NEW a, NEW digest,
           NEW attempted, NEW cells2,
           Commit(NewEvent(op, mj, reas, a, digest, attempted), cells2)
    PROVE  /\ Outcome(op)
           /\ events'[Len(events) + 1].delta = -mj
<1> DEFINE e == NewEvent(op, mj, reas, a, digest, attempted)
<1>1. events' = Append(events, e) /\ answer' \in {"ok", "InvariantError"}
  BY DEF Commit
<1>2. answer' = "ok"
  BY <1>1 DEF Inv, SelfCheckSilent
<1>3. events \in Seq(EventType)
  BY DEF Inv, TypeOK
<1>4. e.op = op /\ e.delta = -mj
  BY DEF NewEvent
<1> HIDE DEF e
<1>5. /\ Len(events') = Len(events) + 1
      /\ \A i \in 1..Len(events) : events'[i] = events[i]
      /\ events'[Len(events) + 1] = e
  BY <1>1, <1>3
<1> QED
  BY <1>2, <1>4, <1>5 DEF Outcome, Committed

\* Failed is committed and answered, or refused and nothing happened.
LEMMA FailedOutcome ==
    ASSUME Inv, NEW spend \in Nat \cup {NoSpend},
           NEW noted \in {NotAttempted, spend}, ProposeFailed(spend, noted)
    PROVE  Outcome("failed")
<1>1. Inv' /\ Paid
  BY FailedKeeps
<1>2. CASE FailedVerdict(spend) = "ok"
  <2>1. Commit(NewEvent("failed", FailedDebit(spend),
                        IF FailedDebit(spend) = 0 THEN "none" ELSE "plan",
                        Nothing, Nothing, FailedAttempt(spend, noted)), cells)
    BY <1>2 DEF ProposeFailed, Propose
  <2> QED
    BY <1>1, <2>1, CommitAnswers
<1>3. CASE FailedVerdict(spend) # "ok"
  BY <1>1, <1>3 DEF ProposeFailed, Propose, Refuse, Outcome, NotCommitted
<1> QED
  BY <1>2, <1>3

\* So is a Plan, which is charged what it was asked for.
LEMMA PlanOutcome ==
    ASSUME Inv, NEW spend \in Nat, ProposePlan(spend)
    PROVE  /\ Outcome("plan")
           /\ answer' = "ok" => SpendFrom(events'[Len(events) + 1]) = spend
<1>1. Inv' /\ Paid
  BY PlanKeeps
<1>2. CASE PlanVerdict(spend) = "ok"
  <2>1. Commit(NewEvent("plan", spend, "plan", Nothing, Nothing,
                        NotAttempted), cells)
    BY <1>2 DEF ProposePlan, Propose
  <2> QED
    BY <1>1, <2>1, CommitAnswers DEF SpendFrom
<1>3. CASE PlanVerdict(spend) # "ok"
  BY <1>1, <1>3 DEF ProposePlan, Propose, Refuse, Outcome, NotCommitted
<1> QED
  BY <1>2, <1>3

\* So is a Finish, which is never refused.
LEMMA FinishOutcome ==
    ASSUME Inv, ProposeFinish(FALSE)
    PROVE  Outcome("finish")
<1>1. Inv' /\ Paid
  BY FinishKeeps
<1>2. Commit(NewEvent("finish", 0, "none", Nothing, Nothing, NotAttempted), cells)
  BY DEF ProposeFinish, Propose, FinishVerdict
<1> QED
  BY <1>1, <1>2, CommitAnswers

\* So is a listing,
LEMMA ListOutcome ==
    ASSUME Inv, NEW a \in Addrs, ProposeList(a, FALSE)
    PROVE  Outcome("observe")
<1>1. Inv' /\ Paid
  BY ListKeeps
<1>2. CASE ListVerdict(a, FALSE) = "ok"
  <2>1. Commit(NewEvent("observe", ListCost, "io", a, Nothing, NotAttempted),
               [cells EXCEPT ![a] = Directory])
    BY <1>2 DEF ProposeList, Propose
  <2> QED
    BY <1>1, <2>1, CommitAnswers
<1>3. CASE ListVerdict(a, FALSE) # "ok"
  BY <1>1, <1>3 DEF ProposeList, Propose, Refuse, Outcome, NotCommitted
<1> QED
  BY <1>2, <1>3

\* an Observe,
LEMMA ObserveOutcome ==
    ASSUME Inv, NEW a \in Addrs, ProposeObserve(a, FALSE)
    PROVE  Outcome("observe")
<1>1. Inv' /\ Paid
  BY ObserveKeeps
<1>2. CASE ObserveVerdict(a, FALSE) = "ok"
  <2>1. Commit(NewEvent("observe", ObserveCost(At(a)), "io", a,
                        CellDigest(At(a)), NotAttempted),
               [cells EXCEPT ![a] = At(a)])
    BY <1>2 DEF ProposeObserve, Propose
  <2> QED
    BY <1>1, <2>1, CommitAnswers
<1>3. CASE ObserveVerdict(a, FALSE) # "ok"
  BY <1>1, <1>3 DEF ProposeObserve, Propose, Refuse, Outcome, NotCommitted
<1> QED
  BY <1>2, <1>3

\* and an Act whose digest is that of its bytes.
LEMMA ActOutcome ==
    ASSUME Inv, NEW a \in Addrs, NEW data \in Contents,
           ProposeAct(a, data, data, FALSE)
    PROVE  Outcome("act")
<1>1. Inv' /\ Paid
  BY ActKeeps
<1>2. CASE ActVerdict(a, data, data, FALSE) = "ok"
  <2>1. Commit(NewEvent("act", WriteCost(SizeOf[data]), "io", a, data,
                        NotAttempted), [cells EXCEPT ![a] = data])
    BY <1>2 DEF ProposeAct, Propose
  <2> QED
    BY <1>1, <2>1, CommitAnswers
<1>3. CASE ActVerdict(a, data, data, FALSE) # "ok"
  BY <1>1, <1>3 DEF ProposeAct, Propose, Refuse, Outcome, NotCommitted
<1> QED
  BY <1>2, <1>3
-----------------------------------------------------------------------------
(* What steps do to the bookkeeping.                                       *)

\* The log and the run stand still for every part of the invariant.
LEMMA StillKeeps ==
    ASSUME LoopInv, Inv', UNCHANGED <<events, loopVars>>
    PROVE  LoopInv'
<1>1. LoopTypeOK'
  BY DEF LoopInv, LoopTypeOK, Inv, loopVars
<1>2. CallsBacked' /\ ClosedOnce' /\ EveryReturnExplained' /\ ActsFollowPlans'
  BY DEF LoopInv, CallsBacked, PlanBacks, ClosedOnce, EveryReturnExplained,
         ActsFollowPlans, loopVars
<1> QED
  BY <1>1, <1>2 DEF LoopInv

\* A proposal that closes the run and whose answer Return takes.
LEMMA CloseKeeps ==
    ASSUME LoopInv, pc \notin {"done", "raised"},
           NEW op \in Closing, Outcome(op),
           NEW why, op = "finish" <=> why = "finished", Return(why),
           UNCHANGED <<mode, budget, calls, step>>
    PROVE  LoopInv'
<1> DEFINE n == Len(events)
<1>1. n \in Nat /\ n >= 1 /\ Inv'
  BY DEF LoopInv, Inv, TypeOK, Outcome
<1>2. LoopTypeOK'
  BY <1>1 DEF LoopInv, LoopTypeOK, Inv, Return
<1>3. \A i \in 2..n : events[i].op \notin Closing
  BY DEF LoopInv, ClosedOnce
<1>4. CASE Committed(op)
  <2>1. /\ pc' = "done" /\ reason' = why /\ Len(events') = n + 1
        /\ events'[n + 1].op = op /\ \A i \in 1..n : events'[i] = events[i]
    BY <1>4 DEF Committed, Return
  <2> HIDE DEF n
  <2>2. ClosedOnce'
    BY <1>1, <1>3, <2>1 DEF ClosedOnce, Closing
  <2>3. EveryReturnExplained'
    BY <2>1 DEF EveryReturnExplained, Closing
  <2>4. ActsFollowPlans'
    BY <1>1, <2>1 DEF ActsFollowPlans, LoopInv, Closing, n
  <2>5. CallsBacked'
    BY <1>1, <2>1 DEF CallsBacked, n
  <2> QED
    BY <1>1, <1>2, <2>2, <2>3, <2>4, <2>5 DEF LoopInv
<1>5. CASE NotCommitted
  <2>1. pc' = "raised" /\ UNCHANGED <<events, reason>>
    BY <1>5 DEF NotCommitted, Return
  <2>2. ClosedOnce' /\ EveryReturnExplained' /\ ActsFollowPlans' /\ CallsBacked'
    BY <1>1, <1>3, <2>1
       DEF ClosedOnce, EveryReturnExplained, ActsFollowPlans, CallsBacked, LoopInv
  <2> QED
    BY <1>1, <1>2, <2>2 DEF LoopInv
<1> QED
  BY <1>4, <1>5 DEF Outcome

\* The call at the head of the queue is done with: the rest stays backed.
LEMMA NextKeeps ==
    ASSUME LoopInv, pc \in {"dispatch", "listing"}, NextCall(Tail(calls)),
           UNCHANGED <<mode, step, reason, budget>>,
           Inv', ClosedOnce', ActsFollowPlans',
           mode = "run" => Len(events') >= 2,
           mode = "run" /\ calls' # <<>> => PlanBacks(Len(calls))'
    PROVE  LoopInv'
<1>1. calls \in Seq(CallType) /\ calls # <<>>
  BY DEF LoopInv, LoopTypeOK
<1>2. /\ Tail(calls) \in Seq(CallType)
      /\ Len(Tail(calls)) = Len(calls) - 1
  BY <1>1
<1>3. /\ pc' \in {"dispatch", "complete", "maxSteps"}
      /\ pc' = "dispatch" => Tail(calls) # <<>>
      /\ calls' = Tail(calls)
  BY DEF NextCall
<1>4. LoopTypeOK'
  BY <1>2, <1>3 DEF LoopInv, LoopTypeOK, Inv
<1>5. CallsBacked'
  BY <1>3 DEF CallsBacked
<1>6. EveryReturnExplained'
  BY <1>3 DEF EveryReturnExplained
<1> QED
  BY <1>4, <1>5, <1>6 DEF LoopInv
\* A proposal of a tool that is not finish: a paid observation or write, or
\* nothing, after which TakeResult goes on or gives up.
LEMMA WorkKeeps ==
    ASSUME LoopInv, pc = "dispatch", NEW op \in {"observe", "act"}, Outcome(op),
           \/ TakeResult
           \/ pc' = "listing" /\ Head(calls).addr \in Addrs /\ UNCHANGED calls,
           UNCHANGED <<mode, step, reason, budget>>
    PROVE  LoopInv'
<1> DEFINE n == Len(events)
<1>1. /\ n \in Nat /\ n >= 1 /\ Inv' /\ calls \in Seq(CallType) /\ calls # <<>>
      /\ MaxCalls \in Nat
  BY AgentLoopAssumption DEF LoopInv, LoopTypeOK, Inv, TypeOK, Outcome
<1>2. /\ Len(Tail(calls)) = Len(calls) - 1 /\ Len(calls) \in Nat /\ Len(calls) >= 1
  BY <1>1
<1>3. mode = "run" => PlanBacks(Len(calls)) /\ n >= 2
  BY DEF LoopInv, CallsBacked
<1>4. \/ UNCHANGED events
      \/ /\ Len(events') = n + 1 /\ events'[n + 1].op = op
         /\ \A i \in 1..n : events'[i] = events[i]
  BY DEF Outcome, Committed, NotCommitted
<1>5. \A i \in 2..n : events[i].op \notin Closing
  BY DEF LoopInv, ClosedOnce
<1> HIDE DEF n
<1>6. ClosedOnce'
  BY <1>1, <1>4, <1>5 DEF ClosedOnce, Closing, n
<1>7. ActsFollowPlans'
  <2>1. CASE UNCHANGED events
    BY <2>1 DEF LoopInv, ActsFollowPlans
  <2>2. CASE /\ Len(events') = n + 1 /\ events'[n + 1].op = op
             /\ \A i \in 1..n : events'[i] = events[i]
    <3> SUFFICES ASSUME mode = "run", NEW i \in 3..(n + 1),
                        events'[i].op \in {"observe", "act"}
                 PROVE  \E j \in 3..i : events'[j].op = "plan" /\ i - j <= MaxCalls
      BY <2>2 DEF ActsFollowPlans
    <3>1. CASE i <= n
      <4>1. \E j \in 3..i : events[j].op = "plan" /\ i - j <= MaxCalls
        BY <1>1, <2>2, <3>1 DEF LoopInv, ActsFollowPlans, n
      <4> QED
        BY <1>1, <2>2, <3>1, <4>1
    <3>2. CASE i = n + 1
      <4>1. PICK j \in 3..n : events[j].op = "plan" /\ (n - j) + Len(calls) <= MaxCalls
        BY <1>3 DEF PlanBacks, n
      <4> QED
        BY <1>1, <1>2, <2>2, <3>2, <4>1
    <3> QED
      BY <1>1, <3>1, <3>2
  <2> QED
    BY <1>4, <2>1, <2>2
<1>8. mode = "run" => Len(events') >= 2
  BY <1>1, <1>3, <1>4 DEF n
<1>9. mode = "run" =>
        \E j \in 3..Len(events') :
           /\ events'[j].op = "plan"
           /\ (Len(events') - j) + (Len(calls) - 1) <= MaxCalls
  <2> SUFFICES ASSUME mode = "run"
               PROVE  \E j \in 3..Len(events') :
                         /\ events'[j].op = "plan"
                         /\ (Len(events') - j) + (Len(calls) - 1) <= MaxCalls
    OBVIOUS
  <2>1. PICK j \in 3..n : events[j].op = "plan" /\ (n - j) + Len(calls) <= MaxCalls
    BY <1>3 DEF PlanBacks, n
  <2>2. CASE UNCHANGED events
    BY <1>1, <1>2, <2>1, <2>2 DEF n
  <2>3. CASE /\ Len(events') = n + 1 /\ events'[n + 1].op = op
             /\ \A i \in 1..n : events'[i] = events[i]
    BY <1>1, <1>2, <2>1, <2>3
  <2> QED
    BY <1>4, <2>2, <2>3
<1>10. CASE NextCall(Tail(calls))
  <2>1. mode = "run" /\ calls' # <<>> => PlanBacks(Len(calls))'
    BY <1>2, <1>9, <1>10 DEF NextCall, PlanBacks
  <2> QED
    BY <1>1, <1>6, <1>7, <1>8, <1>10, <2>1, NextKeeps
<1>11. CASE pc' \in {"rejected", "raised"} /\ UNCHANGED calls
  <2>1. LoopTypeOK'
    BY <1>1, <1>11 DEF LoopInv, LoopTypeOK, Inv
  <2>2. CallsBacked' /\ EveryReturnExplained'
    BY <1>8, <1>11 DEF CallsBacked, EveryReturnExplained
  <2> QED
    BY <1>1, <1>6, <1>7, <2>1, <2>2 DEF LoopInv
<1>12. CASE pc' = "listing" /\ Head(calls).addr \in Addrs /\ UNCHANGED calls
  <2>1. LoopTypeOK'
    BY <1>1, <1>12 DEF LoopInv, LoopTypeOK, Inv
  <2>2. CallsBacked' /\ EveryReturnExplained'
    BY <1>8, <1>9, <1>12 DEF CallsBacked, PlanBacks, EveryReturnExplained
  <2> QED
    BY <1>1, <1>6, <1>7, <2>1, <2>2 DEF LoopInv
<1> QED
  BY <1>10, <1>11, <1>12 DEF TakeResult

-----------------------------------------------------------------------------
(* Every step.                                                             *)

\* The seed listing is the first event after Init.
LEMMA SeedKeeps ==
    ASSUME LoopInv, Seed
    PROVE  LoopInv'
<1> DEFINE c == [tool |-> "list_dir", addr |-> Root, data |-> Nothing]
<1>1. Outcome("observe")
  BY ListOutcome, AgentLoopAssumption DEF Seed, LoopInv
<1>2. /\ Len(events) \in Nat /\ Len(events) >= 1 /\ Inv' /\ pc = "seed"
      /\ UNCHANGED <<mode, budget, step, reason>> /\ calls' = <<c>>
      /\ mode = "run" => Len(events) = 1
  BY <1>1 DEF LoopInv, CallsBacked, Inv, TypeOK, Outcome, Seed
<1>3. c \in CallType /\ c.addr \in Addrs
  BY AgentLoopAssumption DEF CallType
<1> HIDE DEF c
<1>4. /\ <<c>> \in Seq(CallType) /\ <<c>> # <<>> /\ Head(<<c>>) = c
      /\ Tail(<<c>>) = <<>>
  BY <1>3
<1>5. pc' \in {"listing", "rejected", "raised"}
  BY DEF Seed
<1>6. LoopTypeOK'
  BY <1>2, <1>3, <1>4, <1>5 DEF LoopInv, LoopTypeOK, Inv
<1>7. /\ mode = "run" => Len(events') <= 2
      /\ \A i \in 2..Len(events') : events'[i].op \notin Closing
  <2>1. \A i \in 2..Len(events) : events[i].op \notin Closing
    BY <1>2 DEF LoopInv, ClosedOnce
  <2>2. \/ UNCHANGED events
        \/ /\ Len(events') = Len(events) + 1
           /\ events'[Len(events) + 1].op = "observe"
           /\ \A i \in 1..Len(events) : events'[i] = events[i]
    BY <1>1 DEF Outcome, Committed, NotCommitted
  <2> QED
    BY <1>2, <2>1, <2>2 DEF Closing
<1>8. ClosedOnce' /\ EveryReturnExplained' /\ ActsFollowPlans'
  BY <1>2, <1>5, <1>7 DEF ClosedOnce, EveryReturnExplained, ActsFollowPlans
<1>9. CallsBacked'
  <2>1. answer' = "ok" => Len(events') = Len(events) + 1
    BY <1>1 DEF Outcome, Committed, NotCommitted
  <2>2. pc' = "listing" => answer' = "ok"
    BY DEF Seed
  <2>3. Tail(calls') = <<>>
    BY <1>2, <1>4
  <2>4. ASSUME mode = "run", pc' = "listing" PROVE Len(events') = 2
    <3>1. Len(events) = 1
      BY <1>2, <2>4
    <3> QED
      BY <2>1, <2>2, <2>4, <3>1
  <2> QED
    BY <1>2, <1>5, <2>3, <2>4 DEF CallsBacked
<1> QED
  BY <1>2, <1>6, <1>8, <1>9 DEF LoopInv
\* list_dir lists a second time, and commits nothing.
LEMMA ListingKeeps ==
    ASSUME LoopInv, Listing
    PROVE  LoopInv'
<1>1. /\ pc = "listing" /\ UNCHANGED <<events, mode, budget, step, reason>>
      /\ calls \in Seq(CallType) /\ calls # <<>>
      /\ Len(events) \in Nat /\ Len(events) >= 1
  BY DEF Listing, vars, LoopInv, LoopTypeOK, Inv, TypeOK
<1>2. Inv'
  BY StepKeeps DEF Listing, LoopInv
<1>3. ClosedOnce' /\ ActsFollowPlans'
  BY <1>1 DEF LoopInv, ClosedOnce, ActsFollowPlans
<1>4. CASE NextCall(Tail(calls))
  <2>1. mode = "run" => Len(events') >= 2
    BY <1>1 DEF LoopInv, CallsBacked
  <2>2. mode = "run" /\ calls' # <<>> => PlanBacks(Len(calls))'
    <3>1. calls' = Tail(calls) /\ Len(calls') = Len(calls) - 1
      BY <1>1, <1>4 DEF NextCall
    <3> QED
      BY <1>1, <3>1 DEF LoopInv, CallsBacked, PlanBacks
  <2> QED
    BY <1>1, <1>2, <1>3, <1>4, <2>1, <2>2, NextKeeps
<1>5. CASE pc' = "raised" /\ UNCHANGED calls
  <2>1. LoopTypeOK'
    BY <1>1, <1>2, <1>5 DEF LoopInv, LoopTypeOK, Inv
  <2>2. CallsBacked' /\ EveryReturnExplained'
    BY <1>5 DEF CallsBacked, EveryReturnExplained
  <2> QED
    BY <1>2, <1>3, <2>1, <2>2 DEF LoopInv
<1> QED
  BY <1>4, <1>5 DEF Listing

\* A tool call is refused, or becomes one proposal.
LEMMA DispatchProposes ==
    ASSUME LoopInv, Dispatch
    PROVE  \/ pc' = "rejected" /\ UNCHANGED <<vars, calls, reason>>
           \/ /\ Outcome("observe") \/ Outcome("act")
              /\ UNCHANGED reason
              /\ \/ TakeResult
                 \/ pc' = "listing" /\ Head(calls).addr \in Addrs /\ UNCHANGED calls
           \/ Outcome("finish") /\ Return("finished") /\ UNCHANGED calls
<1> DEFINE c == Head(calls)
<1>1. calls \in Seq(CallType) /\ calls # <<>> /\ Inv
  BY DEF Dispatch, LoopInv, LoopTypeOK
<1>2. c \in CallType
  BY <1>1
<1>3. CASE c.tool = "unknown" \/ Malformed(c)
  BY <1>3 DEF Dispatch
<1>4. CASE ~(c.tool = "unknown" \/ Malformed(c))
  <2>1. c.tool \in {"list_dir", "read_file", "write_file"} => c.addr \in Addrs
    BY <1>2, <1>4 DEF CallType, Malformed
  <2>2. c.tool = "write_file" => c.data \in Contents
    BY <1>2, <1>4 DEF CallType, Malformed
  <2>3. CASE c.tool = "list_dir" /\ ListDir(c.addr) /\ UNCHANGED reason
    <3>1. Outcome("observe")
      BY <1>1, <2>1, <2>3, ListOutcome DEF ListDir
    <3> QED
      BY <2>1, <2>3, <3>1 DEF ListDir
  <2>4. CASE /\ c.tool = "read_file" /\ ProposeObserve(c.addr, FALSE)
             /\ TakeResult /\ UNCHANGED reason
    BY <1>1, <2>1, <2>4, ObserveOutcome
  <2>5. CASE /\ c.tool = "write_file" /\ ProposeAct(c.addr, c.data, c.data, FALSE)
             /\ TakeResult /\ UNCHANGED reason
    BY <1>1, <2>1, <2>2, <2>5, ActOutcome
  <2>6. CASE /\ c.tool = "finish" /\ ProposeFinish(FALSE)
             /\ Return("finished") /\ UNCHANGED calls
    BY <1>1, <2>6, FinishOutcome
  <2> QED
    BY <1>4, <2>3, <2>4, <2>5, <2>6 DEF Dispatch
<1> QED
  BY <1>3, <1>4

\* Either way the invariant is kept.
LEMMA DispatchKeeps ==
    ASSUME LoopInv, Dispatch
    PROVE  LoopInv'
<1>1. /\ pc = "dispatch" /\ UNCHANGED <<mode, budget, step>>
      /\ calls \in Seq(CallType) /\ calls # <<>>
  BY DEF Dispatch, LoopInv, LoopTypeOK
<1>2. CASE pc' = "rejected" /\ UNCHANGED <<vars, calls, reason>>
  <2>1. Inv' /\ UNCHANGED events
    BY <1>2, StepKeeps DEF LoopInv, vars
  <2>2. LoopTypeOK'
    BY <1>1, <1>2, <2>1 DEF LoopInv, LoopTypeOK, Inv
  <2>3. CallsBacked' /\ EveryReturnExplained' /\ ClosedOnce' /\ ActsFollowPlans'
    BY <1>1, <1>2, <2>1
       DEF LoopInv, CallsBacked, EveryReturnExplained, ClosedOnce, ActsFollowPlans
  <2> QED
    BY <2>1, <2>2, <2>3 DEF LoopInv
<1>3. CASE /\ Outcome("observe") \/ Outcome("act")
           /\ UNCHANGED reason
           /\ \/ TakeResult
              \/ pc' = "listing" /\ Head(calls).addr \in Addrs /\ UNCHANGED calls
  BY <1>1, <1>3, WorkKeeps
<1>4. CASE Outcome("finish") /\ Return("finished") /\ UNCHANGED calls
  BY <1>1, <1>4, CloseKeeps DEF Closing
<1> QED
  BY <1>2, <1>3, <1>4, DispatchProposes

\* With too little left the run ends without a request; otherwise the hint
\* is what is left, up to the ceiling.
LEMMA CompleteKeeps ==
    ASSUME LoopInv, Complete
    PROVE  LoopInv'
<1>1. CASE acct.remaining < MinCompletion
  <2>1. /\ pc = "complete" /\ ProposeFailed(NoSpend, NotAttempted)
        /\ Return("energy_exhausted") /\ UNCHANGED <<budget, mode, calls, step>>
    BY <1>1 DEF Complete
  <2>2. Outcome("failed")
    BY <2>1, FailedOutcome DEF LoopInv
  <2> QED
    BY <2>1, <2>2, CloseKeeps DEF Closing
<1>2. CASE ~(acct.remaining < MinCompletion)
  <2>1. /\ pc = "complete" /\ pc' = "waiting" /\ UNCHANGED <<vars, reason>>
        /\ UNCHANGED <<mode, calls, step>>
        /\ budget' = IF acct.remaining < PerCallCeiling
                     THEN acct.remaining ELSE PerCallCeiling
    BY <1>2 DEF Complete
  <2>2. Inv' /\ UNCHANGED events
    BY <2>1, StepKeeps DEF LoopInv, vars
  <2>3. budget' \in 0..PerCallCeiling
    <3>1. PICK r \in Nat : r = acct.remaining
      BY DEF LoopInv, Inv, TypeOK
    <3>2. budget' = IF r < PerCallCeiling THEN r ELSE PerCallCeiling
      BY <2>1, <3>1
    <3> QED
      BY <3>2 DEF PerCallCeiling
  <2>4. LoopTypeOK'
    BY <2>1, <2>2, <2>3 DEF LoopInv, LoopTypeOK, Inv
  <2>5. CallsBacked' /\ EveryReturnExplained' /\ ClosedOnce' /\ ActsFollowPlans'
    BY <2>1, <2>2
       DEF LoopInv, CallsBacked, EveryReturnExplained, ClosedOnce, ActsFollowPlans
  <2> QED
    BY <2>2, <2>4, <2>5 DEF LoopInv
<1> QED
  BY <1>1, <1>2

\* Whatever a failed request cost.
LEMMA ProviderFailsKeeps ==
    ASSUME LoopInv, NEW mj \in Nat, ProviderFails(mj)
    PROVE  LoopInv'
<1> DEFINE spend == IF mj <= 0 THEN NoSpend ELSE mj
<1>1. /\ pc = "waiting" /\ ProposeFailed(spend, spend)
      /\ Return("provider_error") /\ UNCHANGED <<mode, budget, calls, step>>
  BY DEF ProviderFails
<1>2. spend \in Nat \cup {NoSpend}
  OBVIOUS
<1> HIDE DEF spend
<1>3. Outcome("failed")
  BY <1>1, <1>2, FailedOutcome DEF LoopInv
<1> QED
  BY <1>1, <1>3, CloseKeeps DEF Closing

\* A bill above what is left closes the run.
LEMMA ProviderOverranKeeps ==
    ASSUME LoopInv, NEW mj \in Nat, ProviderOverran(mj)
    PROVE  LoopInv'
<1>1. /\ pc = "waiting" /\ ProposeFailed(mj, mj)
      /\ Return("energy_bound_broken") /\ UNCHANGED <<mode, budget, calls, step>>
  BY DEF ProviderOverran
<1>2. Outcome("failed")
  BY <1>1, FailedOutcome DEF LoopInv
<1> QED
  BY <1>1, <1>2, CloseKeeps DEF Closing

\* A completion that can be paid is planned, and backs its own calls.
LEMMA ProviderAnswersKeeps ==
    ASSUME LoopInv, NEW mj \in Nat, NEW k \in 0..MaxCalls,
           NEW answered \in [1..k -> ToolCalls], ProviderAnswers(mj, answered)
    PROVE  LoopInv'
<1> DEFINE n == Len(events)
<1>1. /\ pc = "waiting" /\ ProposePlan(mj) /\ calls' = answered
      /\ step' = step + 1 /\ UNCHANGED <<mode, budget>>
      /\ pc' \in {"raised", "done", "noCalls", "dispatch"}
      /\ pc' = "done" => mode = "plan" /\ answer' = "ok"
      /\ pc' = "dispatch" => answered # <<>> /\ answer' = "ok"
  BY DEF ProviderAnswers
<1>2. Outcome("plan")
  BY <1>1, PlanOutcome DEF LoopInv
<1>3. /\ n \in Nat /\ n >= 1 /\ Inv' /\ MaxCalls \in Nat /\ k \in Nat
      /\ mode = "run" => n >= 2
  BY <1>1, <1>2, AgentLoopAssumption DEF LoopInv, CallsBacked, Inv, TypeOK, Outcome
<1>4. answered \in Seq(CallType) /\ Len(answered) = k
  <2>1. answered \in [1..k -> CallType]
    BY AgentLoopAssumption
  <2> QED
    BY <1>3, <2>1, SeqDef
<1>5. LoopTypeOK'
  BY <1>1, <1>3, <1>4 DEF LoopInv, LoopTypeOK, Inv
<1>6. \/ UNCHANGED events /\ answer' # "ok"
      \/ /\ Len(events') = n + 1 /\ events'[n + 1].op = "plan"
         /\ \A i \in 1..n : events'[i] = events[i]
  BY <1>2 DEF Outcome, Committed, NotCommitted
<1>7. \A i \in 2..n : events[i].op \notin Closing
  BY <1>1 DEF LoopInv, ClosedOnce
<1> HIDE DEF n
<1>8. ClosedOnce'
  BY <1>3, <1>6, <1>7 DEF ClosedOnce, Closing, n
<1>9. EveryReturnExplained'
  BY <1>1 DEF EveryReturnExplained, LoopInv, LoopTypeOK
<1>10. ActsFollowPlans'
  <2>1. CASE UNCHANGED events
    BY <1>1, <2>1 DEF LoopInv, ActsFollowPlans
  <2>2. CASE /\ Len(events') = n + 1 /\ events'[n + 1].op = "plan"
             /\ \A i \in 1..n : events'[i] = events[i]
    <3> SUFFICES ASSUME mode = "run", NEW i \in 3..(n + 1),
                        events'[i].op \in {"observe", "act"}
                 PROVE  \E j \in 3..i : events'[j].op = "plan" /\ i - j <= MaxCalls
      BY <1>1, <2>2 DEF ActsFollowPlans
    <3>1. i <= n
      BY <1>3, <2>2
    <3>2. \E j \in 3..i : events[j].op = "plan" /\ i - j <= MaxCalls
      BY <1>3, <2>2, <3>1 DEF LoopInv, ActsFollowPlans, n
    <3> QED
      BY <1>3, <2>2, <3>1, <3>2
  <2> QED
    BY <1>6, <2>1, <2>2
<1>11. CallsBacked'
  <2> SUFFICES ASSUME mode = "run", pc' = "dispatch"
               PROVE  Len(events') >= 2 /\ PlanBacks(Len(calls))'
    BY <1>1 DEF CallsBacked
  <2>1. Len(events') = n + 1 /\ events'[n + 1].op = "plan"
    BY <1>1, <1>6
  <2>2. n + 1 \in 3..Len(events') /\ Len(calls') = k /\ k <= MaxCalls
    BY <1>1, <1>3, <1>4, <2>1
  <2> QED
    BY <1>3, <2>1, <2>2 DEF PlanBacks
<1> QED
  BY <1>3, <1>5, <1>8, <1>9, <1>10, <1>11 DEF LoopInv

\* run() gives up with a free Failed.
LEMMA GiveUpKeeps ==
    ASSUME LoopInv, NEW at, at \notin {"done", "raised"}, NEW why,
           why # "finished",
           GiveUp(at, why)
    PROVE  LoopInv'
<1>1. /\ pc = at /\ ProposeFailed(NoSpend, NotAttempted) /\ Return(why)
      /\ UNCHANGED <<mode, budget, calls, step>>
  BY DEF GiveUp
<1>2. Outcome("failed")
  BY <1>1, FailedOutcome DEF LoopInv
<1> QED
  BY <1>1, <1>2, CloseKeeps DEF Closing

\* An exception that leaves the run leaves the world as it is.
LEMMA RaisingKeeps ==
    ASSUME LoopInv, pc # "done", pc' = "raised", UNCHANGED vars,
           UNCHANGED <<mode, budget, calls, step, reason>>
    PROVE  LoopInv'
<1>1. UNCHANGED events
  BY DEF vars
<1>2. Inv'
  BY StepKeeps DEF LoopInv
<1>3. LoopTypeOK'
  BY <1>2 DEF LoopInv, LoopTypeOK, Inv
<1>4. CallsBacked' /\ EveryReturnExplained' /\ ClosedOnce' /\ ActsFollowPlans'
  BY <1>1 DEF LoopInv, CallsBacked, EveryReturnExplained, ClosedOnce,
              ActsFollowPlans
<1> QED
  BY <1>2, <1>3, <1>4 DEF LoopInv

\* WorldLocked is one.
LEMMA LockedOutKeeps ==
    ASSUME LoopInv, LockedOut
    PROVE  LoopInv'
  BY RaisingKeeps DEF LockedOut
-----------------------------------------------------------------------------
(* The theorems.                                                           *)

\* The loop starts in the invariant.
LEMMA LoopInitHolds == LoopInit => LoopInv
<1> SUFFICES ASSUME LoopInit PROVE LoopInv
  OBVIOUS
<1>1. Inv
  BY InitHolds DEF LoopInit
<1>2. Len(events) = 1
  BY DEF LoopInit, Init
<1>3. LoopTypeOK
  BY <1>1 DEF LoopInit, LoopTypeOK, Inv, PerCallCeiling
<1>4. CallsBacked /\ ClosedOnce /\ EveryReturnExplained /\ ActsFollowPlans
  BY <1>2 DEF LoopInit, CallsBacked, ClosedOnce, EveryReturnExplained,
              ActsFollowPlans
<1> QED
  BY <1>1, <1>3, <1>4 DEF LoopInv

\* Every step of the run, and of whoever else is about, keeps it.
LEMMA LoopStepKeeps ==
    ASSUME LoopInv, [LoopStep \/ LockedOut \/ SomebodyEdits]_allVars
    PROVE  LoopInv'
<1>1. CASE Seed \/ Listing \/ Dispatch \/ Complete
  BY <1>1, SeedKeeps, ListingKeeps, DispatchKeeps, CompleteKeeps
<1>2. CASE \E mj \in Energies : ProviderFails(mj) \/ ProviderOverran(mj)
  BY <1>2, ProviderFailsKeeps, ProviderOverranKeeps, AgentLoopAssumption
<1>3. CASE \E mj \in Energies :
             \E answered \in UNION {[1..n -> ToolCalls] : n \in 0..MaxCalls} :
                ProviderAnswers(mj, answered)
  BY <1>3, ProviderAnswersKeeps, AgentLoopAssumption
<1>4. CASE \/ GiveUp("noCalls", "no_tool_calls") \/ GiveUp("rejected", "rejected")
           \/ GiveUp("maxSteps", "max_steps")
  BY <1>4, GiveUpKeeps
<1>5. CASE LockedOut
  BY <1>5, LockedOutKeeps
<1>6. CASE SomebodyEdits
  <2>1. Inv'
    BY <1>6, OutsideEditKeeps DEF SomebodyEdits, LoopInv
  <2>2. UNCHANGED <<events, loopVars>>
    BY <1>6 DEF SomebodyEdits, OutsideEdit
  <2> QED
    BY <2>1, <2>2, StillKeeps
<1>7. CASE UNCHANGED allVars
  <2>1. Inv'
    BY <1>7, StepKeeps DEF allVars, LoopInv
  <2>2. UNCHANGED <<events, loopVars>>
    BY <1>7 DEF allVars, vars
  <2> QED
    BY <2>1, <2>2, StillKeeps
<1> QED
  BY <1>1, <1>2, <1>3, <1>4, <1>5, <1>6, <1>7 DEF LoopStep

\* The inductive invariant is an invariant of every run.
THEOREM LoopInvariant == LoopSpec => []LoopInv
<1>1. LoopInv /\ [LoopStep \/ LockedOut \/ SomebodyEdits]_allVars => LoopInv'
  BY LoopStepKeeps
<1> QED
  BY LoopInitHolds, <1>1, PTL DEF LoopSpec

\* What run() returned is what the log says, for every provider: the log ends in
\* a Finish or a Failed when, and only when, the run returned.
THEOREM RunsMatchTheLog == LoopSpec => []RunMatchesLog
<1>1. LoopInv => RunMatchesLog
  BY DEF LoopInv, RunMatchesLog
<1> QED
  BY LoopInvariant, <1>1, PTL

\* Nothing is read or written that a paid Plan did not ask for.
THEOREM WorkFollowsPlans == LoopSpec => []ActsFollowPlans
<1>1. LoopInv => ActsFollowPlans
  BY DEF LoopInv
<1> QED
  BY LoopInvariant, <1>1, PTL

\* The invariant check after a commit never raises out of a run, and the
\* world the run leaves behind adds up.
THEOREM RunsKeepTheWorld == LoopSpec => [](SelfCheckSilent /\ EnergyAddsUp)
<1>1. LoopInv => SelfCheckSilent /\ EnergyAddsUp
  BY DEF LoopInv, Inv
<1> QED
  BY LoopInvariant, <1>1, PTL

-----------------------------------------------------------------------------
(* A run is a client of the world: it pays for what it does to it.         *)

\* Whatever a request cost, and however it ended.
LEMMA ProviderPays ==
    ASSUME LoopInv, NEW mj \in Nat,
           \/ ProviderFails(mj) \/ ProviderOverran(mj)
           \/ \E answered : ProviderAnswers(mj, answered)
    PROVE  Paid
<1> DEFINE spend == IF mj <= 0 THEN NoSpend ELSE mj
<1>1. spend \in Nat \cup {NoSpend}
  OBVIOUS
<1>2. CASE ProviderFails(mj)
  <2>1. ProposeFailed(spend, spend)
    BY <1>2 DEF ProviderFails
  <2> HIDE DEF spend
  <2> QED
    BY <1>1, <2>1, FailedOutcome DEF LoopInv, Outcome
<1>3. CASE ProviderOverran(mj)
  BY <1>3, FailedOutcome DEF ProviderOverran, LoopInv, Outcome
<1>4. CASE \E answered : ProviderAnswers(mj, answered)
  BY <1>4, PlanOutcome DEF ProviderAnswers, LoopInv, Outcome
<1> QED
  BY <1>2, <1>3, <1>4

\* Every other step of the run, and of whoever else is about.
LEMMA RestPays ==
    ASSUME LoopInv,
           \/ Seed \/ Listing \/ Dispatch \/ Complete
           \/ GiveUp("noCalls", "no_tool_calls") \/ GiveUp("rejected", "rejected")
           \/ GiveUp("maxSteps", "max_steps") \/ LockedOut \/ SomebodyEdits
           \/ UNCHANGED vars
    PROVE  Paid
<1>1. CASE Seed
  BY <1>1, ListOutcome, AgentLoopAssumption DEF Seed, LoopInv, Outcome
<1>2. CASE Dispatch
  BY <1>2, DispatchProposes DEF Outcome, Paid, vars
<1>3. CASE \/ Complete \/ GiveUp("noCalls", "no_tool_calls")
           \/ GiveUp("rejected", "rejected") \/ GiveUp("maxSteps", "max_steps")
  <2>1. ProposeFailed(NoSpend, NotAttempted) \/ UNCHANGED vars
    BY <1>3 DEF Complete, GiveUp
  <2> QED
    BY <2>1, FailedOutcome DEF LoopInv, Outcome, Paid, vars
<1>4. CASE Listing \/ LockedOut \/ SomebodyEdits \/ UNCHANGED vars
  <2>1. UNCHANGED <<events, acct>>
    BY <1>4 DEF Listing, LockedOut, SomebodyEdits, OutsideEdit, vars
  <2> QED
    BY <2>1 DEF Paid
<1> QED
  BY <1>1, <1>2, <1>3, <1>4

LEMMA LoopStepPays ==
    ASSUME LoopInv, [LoopStep \/ LockedOut \/ SomebodyEdits]_allVars
    PROVE  Paid
<1>1. CASE \E mj \in Energies :
             \/ ProviderFails(mj) \/ ProviderOverran(mj)
             \/ \E answered : ProviderAnswers(mj, answered)
  BY <1>1, ProviderPays, AgentLoopAssumption
<1> QED
  BY <1>1, RestPays DEF LoopStep, allVars

\* So a run, too, implements the ledger: whatever the provider answers and
\* whatever the tools are asked for, each step is one affordable charge to the
\* log and off the balance, or nothing to them.
THEOREM RunsImplementLedger == LoopSpec => LedgerSpec
<1>1. LoopInit => Promise!LedgerInit
  BY InitIsLedgerInit DEF LoopInit
<1>2. LoopInv /\ [LoopStep \/ LockedOut \/ SomebodyEdits]_allVars
        => [Promise!LedgerNext]_(Promise!ledgerVars)
  BY LoopStepPays, PaidIsLedgerNext DEF LoopInv
<1> QED
  BY LoopInvariant, <1>1, <1>2, PTL DEF LoopSpec, LedgerSpec, Promise!LedgerSpec

\* With nothing left, a run can only be closed: no tool reads or writes, and no
\* completion is planned.
THEOREM RunsPayForWork == LoopSpec => NoWorkUnpaid
<1> DEFINE Unpaid ==
      acct.remaining = 0 /\ events' # events =>
          /\ events'[Len(events')].op \in {"finish", "failed"}
          /\ acct' = acct /\ files' = files
<1>1. LoopInv /\ [LoopStep \/ LockedOut \/ SomebodyEdits]_allVars => [Unpaid]_vars
  BY LoopStepPays, PaidIsNoFreeWork DEF LoopInv
<1> QED
  BY LoopInvariant, <1>1, PTL DEF LoopSpec, NoWorkUnpaid

-----------------------------------------------------------------------------
(* A run and check(rebuild=True).                                          *)

\* Tools commit nothing but World's proposals, so what the log says of the
\* files stays true of every file nobody else has edited.
LEMMA DispatchAccounts ==
    ASSUME OneSpelling, LoopInv, BytesInv, Dispatch
    PROVE  RecordsAccounted' /\ ActsKept'
<1> DEFINE c == Head(calls)
<1>1. c \in CallType
  BY DEF Dispatch, LoopInv, LoopTypeOK
<1>2. CASE c.tool = "unknown" \/ Malformed(c)
  BY <1>2, IdleKeeps DEF Dispatch, vars
<1>3. CASE ~(c.tool = "unknown" \/ Malformed(c))
  <2>1. c.tool \in {"list_dir", "read_file", "write_file"} => c.addr \in Addrs
    BY <1>1, <1>3 DEF CallType, Malformed
  <2>2. c.tool = "write_file" => c.data \in Contents
    BY <1>1, <1>3 DEF CallType, Malformed
  <2>3. \/ c.tool = "list_dir" /\ ProposeList(c.addr, FALSE)
        \/ c.tool = "read_file" /\ ProposeObserve(c.addr, FALSE)
        \/ c.tool = "write_file" /\ ProposeAct(c.addr, c.data, c.data, FALSE)
        \/ ProposeFinish(FALSE)
    BY <1>3 DEF Dispatch, ListDir
  <2>4. CASE c.tool = "list_dir" /\ ProposeList(c.addr, FALSE)
    BY <2>1, <2>4, ListAccounts
  <2>5. CASE c.tool = "read_file" /\ ProposeObserve(c.addr, FALSE)
    BY <2>1, <2>5, ObserveAccounts
  <2>6. CASE c.tool = "write_file" /\ ProposeAct(c.addr, c.data, c.data, FALSE)
    BY <2>1, <2>2, <2>6, ActAccounts
  <2>7. CASE ProposeFinish(FALSE)
    BY <2>7, FinishPlanFailedAccount
  <2> QED
    BY <2>3, <2>4, <2>5, <2>6, <2>7
<1> QED
  BY <1>2, <1>3

\* So do requests, however they end, and the ways a run gives up.
LEMMA RequestAccounts ==
    ASSUME BytesInv, NEW mj \in Nat,
           \/ ProviderFails(mj) \/ ProviderOverran(mj)
           \/ \E answered : ProviderAnswers(mj, answered)
           \/ Complete \/ GiveUp("noCalls", "no_tool_calls")
           \/ GiveUp("rejected", "rejected") \/ GiveUp("maxSteps", "max_steps")
    PROVE  RecordsAccounted' /\ ActsKept'
<1> DEFINE spend == IF mj <= 0 THEN NoSpend ELSE mj
<1>1. spend \in Nat \cup {NoSpend}
  OBVIOUS
<1>2. \/ ProposeFailed(spend, spend) \/ ProposeFailed(mj, mj) \/ ProposePlan(mj)
      \/ ProposeFailed(NoSpend, NotAttempted) \/ UNCHANGED vars
  BY DEF ProviderFails, ProviderOverran, ProviderAnswers, Complete, GiveUp
<1> HIDE DEF spend
<1>3. CASE ProposeFailed(spend, spend)
  BY <1>1, <1>3, FinishPlanFailedAccount
<1>4. CASE ProposeFailed(mj, mj) \/ ProposePlan(mj)
  BY <1>4, FinishPlanFailedAccount
<1>5. CASE ProposeFailed(NoSpend, NotAttempted)
  BY <1>5, FinishPlanFailedAccount
<1>6. CASE UNCHANGED vars
  BY <1>6, IdleKeeps DEF vars
<1> QED
  BY <1>2, <1>3, <1>4, <1>5, <1>6

LEMMA LoopStepAccounts ==
    ASSUME OneSpelling, LoopInv, BytesInv,
           [LoopStep \/ LockedOut \/ SomebodyEdits]_allVars
    PROVE  BytesInv'
<1>1. Inv'
  BY LoopStepKeeps DEF LoopInv
<1>2. CASE Seed
  BY <1>1, <1>2, ListAccounts, AgentLoopAssumption DEF Seed, BytesInv
<1>3. CASE Dispatch
  BY <1>1, <1>3, DispatchAccounts DEF BytesInv
<1>4. CASE \/ Complete \/ GiveUp("noCalls", "no_tool_calls")
           \/ GiveUp("rejected", "rejected") \/ GiveUp("maxSteps", "max_steps")
  <2>1. 0 \in Nat
    OBVIOUS
  <2> QED
    BY <1>1, <1>4, <2>1, RequestAccounts DEF BytesInv
<1>5. CASE \E mj \in Energies :
             \/ ProviderFails(mj) \/ ProviderOverran(mj)
             \/ \E answered \in UNION {[1..n -> ToolCalls] : n \in 0..MaxCalls} :
                   ProviderAnswers(mj, answered)
  BY <1>1, <1>5, RequestAccounts, AgentLoopAssumption DEF BytesInv
<1>6. CASE SomebodyEdits
  BY <1>1, <1>6, EditKeeps, WorldAssumption DEF SomebodyEdits, BytesInv
<1>7. CASE Listing \/ LockedOut \/ UNCHANGED allVars
  BY <1>1, <1>7, IdleKeeps DEF Listing, LockedOut, allVars, vars, BytesInv
<1> QED
  BY <1>2, <1>3, <1>4, <1>5, <1>6, <1>7 DEF LoopStep

\* The world a run leaves behind passes check(rebuild=True), or someone else
\* edited a file in it: a proposal that was refused, a tool that raised and
\* a run that found the lock held leave log and disk in agreement.
THEOREM RunsBlameOutsiders ==
    ASSUME OneSpelling PROVE LoopSpec => []CheckBlamesOutsiders
<1>1. LoopInit => BytesInv
  BY InitAccounts DEF LoopInit
<1>2. LoopInv /\ BytesInv /\ [LoopStep \/ LockedOut \/ SomebodyEdits]_allVars
        => BytesInv'
  BY OneSpelling, LoopStepAccounts
<1> QED
  BY LoopInvariant, BytesBlameOutsiders, <1>1, <1>2, PTL DEF LoopSpec

-----------------------------------------------------------------------------
(* Every run is short.  That its next step can be taken is left to TLC;    *)
(* that each one brings the end closer is shown here.                      *)

\* The completions a run may ask for; plan() asks for one.
Allowed == IF mode = "plan" THEN 1 ELSE MaxSteps

\* The steps a run may still take, at most: a completion is asked for, comes
\* back, and each of its calls is dispatched and perhaps listed again.
StepsAhead ==
    LET rest == (Allowed - step) * (2 * MaxCalls + 2)
    IN  CASE pc = "seed"     -> rest + 5
          [] pc = "listing"  -> rest + 2 * Len(calls) + 2
          [] pc = "dispatch" -> rest + 2 * Len(calls) + 3
          [] pc = "complete" -> rest + 3
          [] pc = "waiting"  -> rest + 2
          [] pc \in {"noCalls", "rejected", "maxSteps"} -> 1
          [] OTHER -> 0

\* No completion is asked for beyond those allowed.
StepsCounted ==
    /\ step <= Allowed
    /\ pc \in {"complete", "waiting"} => step < Allowed
    /\ mode = "plan" => pc \in {"complete", "waiting", "done", "raised"}

\* What every step of the run does to them.
Shortens == StepsAhead' < StepsAhead /\ StepsCounted'

\* The steps of the completions still allowed.
LEMMA RestCounts ==
    ASSUME LoopTypeOK, StepsCounted
    PROVE  /\ Allowed \in Nat /\ step \in Nat /\ MaxCalls \in Nat
           /\ (Allowed - step) * (2 * MaxCalls + 2) \in Nat
           /\ Len(calls) \in Nat
<1>1. Allowed \in Nat /\ step \in Nat /\ MaxCalls \in Nat /\ Len(calls) \in Nat
  BY AgentLoopAssumption DEF LoopTypeOK, Allowed
<1>2. Allowed - step \in Nat /\ 2 * MaxCalls + 2 \in Nat
  BY <1>1 DEF StepsCounted
<1>3. \A m, k \in Nat : m * k \in Nat
  OBVIOUS
<1> QED
  BY <1>1, <1>2, <1>3

\* A run has some natural number of steps ahead, and none but once it ended.
LEMMA StepsAheadCount ==
    ASSUME LoopTypeOK, StepsCounted
    PROVE  StepsAhead \in Nat /\ (StepsAhead = 0 <=> Ended)
<1> DEFINE rest == (Allowed - step) * (2 * MaxCalls + 2)
<1>1. rest \in Nat /\ Len(calls) \in Nat
  BY RestCounts
<1> HIDE DEF rest
<1>2. pc \in {"seed", "listing", "complete", "waiting", "dispatch", "noCalls",
              "rejected", "maxSteps", "done", "raised"}
  BY DEF LoopTypeOK
<1> QED
  BY <1>1, <1>2 DEF StepsAhead, rest, Ended

\* So it has in the next state.
LEMMA StepsAheadStay ==
    (LoopTypeOK /\ StepsCounted => StepsAhead \in Nat /\ (StepsAhead = 0 <=> Ended))'
<1>1. LoopTypeOK /\ StepsCounted => StepsAhead \in Nat /\ (StepsAhead = 0 <=> Ended)
  BY StepsAheadCount
<1> QED
  BY <1>1, PTL

\* To end, or to have only the log to close, is closer to the end.
LEMMA EndingShortens ==
    ASSUME LoopTypeOK, StepsCounted, UNCHANGED <<mode, step>>, ~Ended,
           \/ pc' \in {"done", "raised"}
           \/ /\ pc' \in {"rejected", "maxSteps"}
              /\ pc \in {"seed", "listing", "dispatch"}
    PROVE  Shortens
<1> DEFINE rest == (Allowed - step) * (2 * MaxCalls + 2)
<1>1. rest \in Nat /\ Len(calls) \in Nat
  BY RestCounts
<1>2. StepsCounted'
  BY DEF StepsCounted, Allowed
<1>3. StepsAhead' = IF pc' \in {"done", "raised"} THEN 0 ELSE 1
  BY DEF StepsAhead
<1>4. StepsAhead \in Nat /\ StepsAhead # 0
  BY StepsAheadCount
<1> HIDE DEF rest
<1>5. pc \in {"seed", "listing", "dispatch"} => StepsAhead > 1
  BY <1>1 DEF StepsAhead, rest
<1> QED
  BY <1>2, <1>3, <1>4, <1>5 DEF Shortens

\* So is going on to the next call, or with none left to the next completion.
LEMMA NextShortens ==
    ASSUME LoopTypeOK, StepsCounted, pc \in {"dispatch", "listing"},
           UNCHANGED <<mode, step>>, NextCall(Tail(calls))
    PROVE  Shortens
<1> DEFINE rest == (Allowed - step) * (2 * MaxCalls + 2)
<1>1. rest \in Nat
  BY RestCounts
<1>2. calls \in Seq(CallType) /\ calls # <<>>
  BY DEF LoopTypeOK
<1>3. Len(calls) \in Nat /\ Len(calls) >= 1 /\ Len(calls') = Len(calls) - 1
  BY <1>2 DEF NextCall
<1>4. mode = "run" /\ Allowed' = Allowed
  BY DEF StepsCounted, LoopTypeOK, Allowed
<1>5. StepsCounted'
  BY <1>4 DEF StepsCounted, NextCall, Allowed
<1>6. rest' = rest
  BY <1>4
<1> HIDE DEF rest
<1>7. StepsAhead >= rest + 2 * Len(calls) + 2
  BY <1>1, <1>3 DEF StepsAhead, rest
<1>8. CASE pc' = "dispatch"
  <2>1. StepsAhead' = rest + 2 * (Len(calls) - 1) + 3
    BY <1>3, <1>6, <1>8 DEF StepsAhead, rest
  <2>2. StepsAhead \in Nat
    BY StepsAheadCount
  <2> QED
    BY <1>1, <1>3, <1>5, <1>7, <2>1, <2>2 DEF Shortens
<1>9. CASE pc' \in {"complete", "maxSteps"}
  <2>1. StepsAhead' <= rest + 3 /\ StepsAhead' \in Nat
    BY <1>1, <1>6, <1>9 DEF StepsAhead, rest
  <2>2. StepsAhead \in Nat
    BY StepsAheadCount
  <2> QED
    BY <1>1, <1>3, <1>5, <1>7, <2>1, <2>2 DEF Shortens
<1> QED
  BY <1>8, <1>9 DEF NextCall

\* The listing a run is seeded with,
LEMMA SeedShortens ==
    ASSUME LoopTypeOK, StepsCounted, Seed
    PROVE  Shortens
<1> DEFINE rest == (Allowed - step) * (2 * MaxCalls + 2)
<1>1. rest \in Nat
  BY RestCounts
<1>2. /\ pc = "seed" /\ UNCHANGED <<mode, step>> /\ Len(calls') = 1
      /\ pc' \in {"listing", "rejected", "raised"}
  BY DEF Seed
<1>3. CASE pc' = "listing"
  <2>1. StepsCounted' /\ rest' = rest
    BY <1>2, <1>3 DEF StepsCounted, Allowed
  <2> HIDE DEF rest
  <2>2. StepsAhead = rest + 5 /\ StepsAhead' = rest + 2 * 1 + 2
    BY <1>2, <1>3, <2>1 DEF StepsAhead, rest
  <2> QED
    BY <1>1, <2>1, <2>2 DEF Shortens
<1> QED
  BY <1>2, <1>3, EndingShortens DEF Ended

\* the second look of list_dir,
LEMMA ListingShortens ==
    ASSUME LoopTypeOK, StepsCounted, Listing
    PROVE  Shortens
<1>1. pc = "listing" /\ UNCHANGED <<mode, step>>
  BY DEF Listing
<1> QED
  BY <1>1, NextShortens, EndingShortens DEF Listing, Ended

\* a tool call,
LEMMA DispatchShortens ==
    ASSUME LoopInv, StepsCounted, Dispatch
    PROVE  Shortens
<1>1. pc = "dispatch" /\ UNCHANGED <<mode, step>> /\ LoopTypeOK
  BY DEF Dispatch, LoopInv
<1>2. CASE pc' \in {"rejected", "done", "raised"}
  BY <1>1, <1>2, EndingShortens DEF Ended
<1>3. CASE pc' = "listing" /\ UNCHANGED calls
  <2> DEFINE rest == (Allowed - step) * (2 * MaxCalls + 2)
  <2>1. rest \in Nat /\ Len(calls) \in Nat
    BY <1>1, RestCounts
  <2>2. StepsCounted' /\ rest' = rest
    BY <1>1, <1>3 DEF StepsCounted, Allowed
  <2> HIDE DEF rest
  <2>3. /\ StepsAhead = rest + 2 * Len(calls) + 3
        /\ StepsAhead' = rest + 2 * Len(calls) + 2
    BY <1>1, <1>3, <2>2 DEF StepsAhead, rest
  <2> QED
    BY <2>1, <2>2, <2>3 DEF Shortens
<1>4. CASE NextCall(Tail(calls))
  BY <1>1, <1>4, NextShortens
<1> QED
  BY <1>2, <1>3, <1>4, DispatchProposes DEF TakeResult, Return

\* the step before a request,
LEMMA CompleteShortens ==
    ASSUME LoopTypeOK, StepsCounted, Complete
    PROVE  Shortens
<1> DEFINE rest == (Allowed - step) * (2 * MaxCalls + 2)
<1>1. rest \in Nat
  BY RestCounts
<1>2. /\ pc = "complete" /\ UNCHANGED <<mode, step>>
      /\ pc' \in {"waiting", "done", "raised"}
  BY DEF Complete, Return
<1>3. CASE pc' = "waiting"
  <2>1. StepsCounted' /\ rest' = rest
    BY <1>2, <1>3 DEF StepsCounted, Allowed
  <2> HIDE DEF rest
  <2>2. StepsAhead = rest + 3 /\ StepsAhead' = rest + 2
    BY <1>2, <1>3, <2>1 DEF StepsAhead, rest
  <2> QED
    BY <1>1, <2>1, <2>2 DEF Shortens
<1> QED
  BY <1>2, <1>3, EndingShortens DEF Ended

\* and the answer to it, which uses up one of the completions allowed and
\* brings no more calls than a completion may hold.
LEMMA AnswerShortens ==
    ASSUME LoopInv, StepsCounted, NEW mj \in Nat, NEW k \in 0..MaxCalls,
           NEW answered \in [1..k -> ToolCalls], ProviderAnswers(mj, answered)
    PROVE  Shortens
<1> DEFINE m == Allowed - step
           each == 2 * MaxCalls + 2
<1>1. /\ LoopTypeOK /\ MaxCalls \in Nat /\ each \in Nat /\ m \in Nat
      /\ Allowed \in Nat /\ step \in Nat /\ m * each \in Nat
  BY RestCounts DEF LoopInv, StepsCounted
<1>2. /\ pc = "waiting" /\ calls' = answered /\ step' = step + 1
      /\ UNCHANGED mode
      /\ pc' \in {"raised", "done", "noCalls", "dispatch"}
      /\ mode = "plan" => pc' \in {"raised", "done"}
  BY DEF ProviderAnswers
<1>3. Len(calls') = k
  <2>1. answered \in Seq(ToolCalls) /\ Len(answered) = k
    BY <1>1, SeqDef
  <2> QED
    BY <1>2, <2>1
<1>4. m >= 1 /\ Allowed' = Allowed /\ step < Allowed
  BY <1>1, <1>2 DEF StepsCounted, Allowed
<1>5. StepsCounted'
  BY <1>1, <1>2, <1>4 DEF StepsCounted
<1>6. StepsAhead = m * each + 2
  BY <1>2 DEF StepsAhead
<1>7. CASE pc' = "dispatch"
  <2>1. Allowed' - step' = m - 1
    BY <1>1, <1>2, <1>4
  <2>2. StepsAhead' = (m - 1) * each + 2 * k + 3
    BY <1>3, <1>7, <2>1 DEF StepsAhead
  <2>3. (m - 1) * each = m * each - each
    <3> HIDE DEF m, each
    <3> QED
      BY <1>1
  <2>4. 2 * k + 3 < each + 2
    BY <1>1
  <2> HIDE DEF m, each
  <2>5. k \in Nat
    OBVIOUS
  <2> QED
    BY <1>1, <1>5, <1>6, <2>2, <2>3, <2>4, <2>5 DEF Shortens
<1>8. CASE pc' # "dispatch"
  <2>1. StepsAhead' <= 1 /\ StepsAhead' \in Nat
    BY <1>2, <1>8 DEF StepsAhead
  <2> HIDE DEF m, each
  <2> QED
    BY <1>1, <1>5, <1>6, <2>1 DEF Shortens
<1> QED
  BY <1>7, <1>8

\* So every step of the run brings its end closer.
LEMMA LoopStepShortens ==
    ASSUME LoopInv, StepsCounted, LoopStep \/ LockedOut
    PROVE  Shortens
<1>1. LoopTypeOK
  BY DEF LoopInv
<1>2. CASE Seed \/ Listing \/ Dispatch \/ Complete
  BY <1>1, <1>2, SeedShortens, ListingShortens, DispatchShortens, CompleteShortens
<1>3. CASE \E mj \in Energies :
             \E answered \in UNION {[1..n -> ToolCalls] : n \in 0..MaxCalls} :
                ProviderAnswers(mj, answered)
  BY <1>3, AnswerShortens, AgentLoopAssumption
<1>4. CASE \/ \E mj \in Energies : ProviderFails(mj) \/ ProviderOverran(mj)
           \/ GiveUp("noCalls", "no_tool_calls") \/ GiveUp("rejected", "rejected")
           \/ GiveUp("maxSteps", "max_steps") \/ LockedOut
  <2>1. ~Ended /\ UNCHANGED <<mode, step>> /\ pc' \in {"done", "raised"}
    BY <1>4 DEF ProviderFails, ProviderOverran, GiveUp, LockedOut, Return, Ended
  <2> QED
    BY <1>1, <2>1, EndingShortens
<1> QED
  BY <1>2, <1>3, <1>4 DEF LoopStep

\* Nobody else has anything to do with it.
LEMMA OthersWait ==
    ASSUME StepsCounted, UNCHANGED loopVars
    PROVE  UNCHANGED StepsAhead /\ StepsCounted'
BY DEF loopVars, StepsAhead, StepsCounted, Allowed

\* Every step of a run, the one that finds the lock held included, brings it
\* closer to its end, and no edit of others takes it further away: a run takes
\* at most MaxSteps * (2 * MaxCalls + 2) + 5 steps, for every provider.
THEOREM RunsShorten ==
    LoopSpec =>
        [][/\ LoopStep \/ LockedOut => StepsAhead' < StepsAhead
           /\ SomebodyEdits => UNCHANGED StepsAhead
           /\ StepsAhead' \in Nat
           /\ StepsAhead' = 0 <=> Ended']_allVars
<1> DEFINE N == LoopStep \/ LockedOut \/ SomebodyEdits
           Goal == /\ LoopStep \/ LockedOut => StepsAhead' < StepsAhead
                   /\ SomebodyEdits => UNCHANGED StepsAhead
                   /\ StepsAhead' \in Nat
                   /\ StepsAhead' = 0 <=> Ended'
<1>1. LoopInit => StepsCounted
  BY AgentLoopAssumption DEF LoopInit, StepsCounted, Allowed
<1>2. LoopInv /\ StepsCounted /\ [N]_allVars => StepsCounted'
  BY LoopStepShortens, OthersWait DEF Shortens, SomebodyEdits, allVars
<1>3. LoopInv' /\ StepsCounted' => (StepsAhead \in Nat /\ (StepsAhead = 0 <=> Ended))'
  BY StepsAheadStay DEF LoopInv
<1>4. LoopInv /\ LoopInv' /\ StepsCounted /\ StepsCounted' /\ [N]_allVars
        => [Goal]_allVars
  BY <1>3, LoopStepShortens, OthersWait DEF Shortens, SomebodyEdits, allVars
<1> HIDE DEF Goal
<1>5. LoopSpec => [][Goal]_allVars
  BY LoopInvariant, <1>1, <1>2, <1>4, PTL DEF LoopSpec
<1> QED
  BY <1>5 DEF Goal
=============================================================================
