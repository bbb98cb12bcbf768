---------------------------- MODULE AdapterProofs ----------------------------
(***************************************************************************)
(* The arithmetic that binds a request to its budget, and what it comes to *)
(* in a run: for every budget, every length of the messages and every      *)
(* usage a vendor may report.  RequestsAhead counts the sending of a       *)
(* request among the steps LoopProofs counts.                              *)
(***************************************************************************)
EXTENDS Adapter, LoopProofs

\* _max_tokens_for never estimates an input as free.
LEMMA EstimatePositive ==
    ASSUME NEW len \in Nat
    PROVE  Estimate(len) \in Nat \ {0}
  BY DEF Estimate

\* The request that _max_tokens_for sizes fits the budget, allows at least one
\* output token, and allows as many as fit: one more would not.
THEOREM RequestFillsBudget ==
    ASSUME NEW hint \in Nat, NEW est \in Nat \ {0}, Affordable(hint, est)
    PROVE  /\ MaxTokens(hint, est) \in Nat \ {0}
           /\ est * InputMj + MaxTokens(hint, est) * OutputMj <= hint
           /\ est * InputMj + (MaxTokens(hint, est) + 1) * OutputMj > hint
<1>1. hint - est \in Nat /\ hint - est >= 3
  BY DEF Affordable, OutputMj
<1>2. PICK rest \in Nat : rest = hint - est
  BY <1>1
<1>3. /\ rest \div 3 \in Nat /\ rest \div 3 >= 1
      /\ 3 * (rest \div 3) <= rest /\ rest < 3 * (rest \div 3) + 3
  BY <1>1, <1>2
<1>4. MaxTokens(hint, est) = rest \div 3
  BY <1>2, <1>3 DEF MaxTokens, OutputMj
<1> QED
  BY <1>2, <1>3, <1>4 DEF InputMj, OutputMj

\* A vendor that reads no more than was estimated and writes no more than it
\* was allowed never bills more than the budget.
THEOREM HonestBillFits ==
    ASSUME NEW hint \in Nat, NEW est \in Nat \ {0}, Affordable(hint, est),
           NEW usage \in [tin : Nat, tout : Nat],
           usage.tin <= est, usage.tout <= MaxTokens(hint, est)
    PROVE  EnergyOf(usage) <= hint
<1>1. /\ MaxTokens(hint, est) \in Nat
      /\ est * InputMj + MaxTokens(hint, est) * OutputMj <= hint
  BY RequestFillsBudget
<1>2. usage.tin \in Nat /\ usage.tout \in Nat
  OBVIOUS
<1> HIDE DEF MaxTokens
<1> QED
  BY <1>1, <1>2 DEF EnergyOf, InputMj, OutputMj

-----------------------------------------------------------------------------
(* The adapter as the loop's provider.                                     *)

\* The hint of a request is never more than what is left, and a request that
\* is out was sized by it; LockedOut may leave one behind in a run that raised.
Sized ==
    /\ honest \in BOOLEAN /\ length \in Nat /\ sent \in Nat
    /\ pc = "waiting" => budget <= acct.remaining
    /\ sent # 0 => /\ pc \in {"waiting", "raised"}
                   /\ Estimate(length) * InputMj + sent * OutputMj <= budget
                   /\ budget <= acct.remaining

\* BoundIsKept, at the second listing of a tool as well.
HintKept ==
    honest =>
        /\ reason # "energy_bound_broken"
        /\ pc \in {"dispatch", "noCalls", "listing"}
                /\ events[Len(events)].op = "plan" =>
             SpendFrom(events[Len(events)]) <= budget

AdapterInv == LoopInv /\ Sized /\ HintKept

\* A usage object that Energy takes bills a natural number,
LEMMA EnergyOfType ==
    ASSUME NEW usage \in Priced
    PROVE  EnergyOf(usage) \in Nat
<1>1. TokenCounts \cup {0} \subseteq Int
  BY AdapterAssumption
<1>2. /\ usage \in [tin : TokenCounts \cup {0}, tout : TokenCounts \cup {0}]
      /\ EnergyOf(usage) >= 0
  BY DEF Usages, Priced
<1>3. usage.tin \in Int /\ usage.tout \in Int
  BY <1>1, <1>2
<1> QED
  BY <1>2, <1>3 DEF EnergyOf, InputMj, OutputMj

\* and an honest one no more than the hint the request was sized by.
LEMMA HonestUsageFits ==
    ASSUME Sized, LoopInv, honest, sent # 0, NEW usage \in Priced
    PROVE  /\ EnergyOf(usage) <= budget
           /\ budget \in Nat /\ acct.remaining \in Nat
           /\ EnergyOf(usage) <= acct.remaining
<1>1. /\ usage.tin \in Int /\ usage.tout \in Int
      /\ usage.tin <= Estimate(length) /\ usage.tout <= sent
  <2>1. TokenCounts \cup {0} \subseteq Int
    BY AdapterAssumption
  <2>2. /\ usage \in [tin : TokenCounts \cup {0}, tout : TokenCounts \cup {0}]
        /\ usage.tin <= Estimate(length) /\ usage.tout <= sent
    BY DEF Usages, Priced
  <2> QED
    BY <2>1, <2>2
<1>2. Estimate(length) \in Nat /\ sent \in Nat /\ budget \in Nat
  BY EstimatePositive DEF Sized, LoopInv, LoopTypeOK, PerCallCeiling
<1>3. PICK r \in Nat : r = acct.remaining
  BY DEF LoopInv, Inv, TypeOK
<1>4. Estimate(length) * 1 + sent * 3 <= budget /\ budget <= r
  BY <1>3 DEF Sized, InputMj, OutputMj
<1>5. usage.tin * 1 + usage.tout * 3 <= budget
  BY <1>1, <1>2, <1>4
<1> QED
  BY <1>1, <1>2, <1>3, <1>4, <1>5 DEF EnergyOf, InputMj, OutputMj

\* A step that ends a wait, or is none, and sends nothing.
LEMMA SettledKeeps ==
    ASSUME Sized, LoopInv', sent' = 0, length' \in Nat, UNCHANGED honest,
           pc' # "waiting"
    PROVE  Sized'
  BY DEF Sized

\* A provider's failure closes the run; nothing is said of a broken bound.
LEMMA FailureKeeps ==
    ASSUME AdapterInv, NEW mj \in Nat, ProviderFails(mj),
           sent' = 0, length' \in Nat, UNCHANGED honest
    PROVE  AdapterInv'
<1>1. LoopInv'
  BY ProviderFailsKeeps DEF AdapterInv
<1>2. pc' \in {"done", "raised"} /\ reason' \in {reason, "provider_error"}
  BY DEF ProviderFails, Return
<1>3. Sized'
  BY <1>1, <1>2, SettledKeeps DEF AdapterInv
<1>4. HintKept'
  BY <1>2 DEF AdapterInv, HintKept
<1> QED
  BY <1>1, <1>3, <1>4 DEF AdapterInv

\* A reply closes the run or becomes a Plan; if the vendor is honest it can be
\* paid, and out of the hint.
LEMMA ReplyKeeps ==
    ASSUME AdapterInv, NEW usage \in Priced, NEW k \in 0..MaxCalls,
           NEW answered \in [1..k -> ToolCalls], Reply(usage, answered)
    PROVE  AdapterInv'
<1> DEFINE mj == EnergyOf(usage)
<1>1. /\ sent # 0 /\ sent' = 0 /\ UNCHANGED <<honest, length>>
      /\ ProviderOverran(mj) \/ ProviderAnswers(mj, answered)
      /\ mj \in Nat
  BY EnergyOfType DEF Reply
<1>2. honest => mj <= budget /\ ~(mj > acct.remaining)
  BY <1>1, HonestUsageFits DEF AdapterInv
<1> HIDE DEF mj
<1>3. LoopInv'
  BY <1>1, ProviderOverranKeeps, ProviderAnswersKeeps DEF AdapterInv
<1>4. pc' # "waiting" /\ length' \in Nat
  BY <1>1 DEF ProviderOverran, ProviderAnswers, Return, AdapterInv, Sized
<1>5. Sized'
  BY <1>1, <1>3, <1>4, SettledKeeps DEF AdapterInv
<1>6. HintKept'
  <2> SUFFICES ASSUME honest PROVE HintKept'
    BY <1>1 DEF HintKept
  <2>1. ProviderAnswers(mj, answered) /\ mj <= budget
    BY <1>1, <1>2 DEF ProviderOverran
  <2>2. /\ ProposePlan(mj) /\ UNCHANGED budget
        /\ reason' \in {reason, "finished"}
        /\ pc' \in {"dispatch", "noCalls", "listing"} => answer' = "ok"
    BY <2>1 DEF ProviderAnswers
  <2>3. Outcome("plan")
        /\ (answer' = "ok" => SpendFrom(events'[Len(events) + 1]) = mj)
    BY <1>1, <2>2, PlanOutcome DEF AdapterInv, LoopInv
  <2>4. answer' = "ok" => SpendFrom(events'[Len(events')]) = mj
    BY <2>3 DEF Outcome, Committed, NotCommitted
  <2> QED
    BY <2>1, <2>2, <2>4 DEF AdapterInv, HintKept
<1> QED
  BY <1>3, <1>5, <1>6 DEF AdapterInv

\* The loop asks for a completion, with a hint it can pay.
LEMMA AskKeeps ==
    ASSUME AdapterInv, Complete, Idle
    PROVE  AdapterInv'
<1>1. LoopInv' /\ sent = 0 /\ UNCHANGED <<honest, length, sent>>
  BY CompleteKeeps DEF AdapterInv, Sized, Complete, Idle
<1>2. /\ pc' \in {"waiting", "done", "raised"}
      /\ reason' \in {reason, "energy_exhausted"}
  BY DEF Complete, Return
<1>3. pc' = "waiting" => budget' <= acct'.remaining
  <2> SUFFICES ASSUME pc' = "waiting" PROVE budget' <= acct'.remaining
    OBVIOUS
  <2>1. /\ UNCHANGED acct
        /\ budget' = IF acct.remaining < PerCallCeiling
                     THEN acct.remaining ELSE PerCallCeiling
    BY DEF Complete, Return, vars
  <2>2. PICK r \in Nat : r = acct.remaining
    BY DEF AdapterInv, LoopInv, Inv, TypeOK
  <2> QED
    BY <2>1, <2>2 DEF PerCallCeiling
<1> QED
  BY <1>1, <1>2, <1>3 DEF AdapterInv, Sized, HintKept

\* The loop's other steps neither wait nor have a request out, and the events
\* they commit are not Plans.
LEMMA OtherKeeps ==
    ASSUME AdapterInv, Idle,
           \/ Seed \/ Listing \/ Dispatch
           \/ GiveUp("noCalls", "no_tool_calls") \/ GiveUp("rejected", "rejected")
           \/ GiveUp("maxSteps", "max_steps")
    PROVE  AdapterInv'
<1>1. LoopInv'
  BY SeedKeeps, ListingKeeps, DispatchKeeps, GiveUpKeeps DEF AdapterInv
<1>2. /\ pc \notin {"waiting", "raised"} /\ pc' # "waiting"
      /\ UNCHANGED <<honest, length, sent>>
  BY DEF Seed, Listing, Dispatch, GiveUp, ListDir, TakeResult, NextCall, Return, Idle
<1>3. Sized'
  BY <1>1, <1>2, SettledKeeps DEF AdapterInv, Sized
<1>4. /\ UNCHANGED budget
      /\ reason' \in {reason, "finished", "no_tool_calls", "rejected", "max_steps"}
  BY DEF Seed, Listing, Dispatch, GiveUp, Return
<1>5. ASSUME pc' \in {"dispatch", "noCalls", "listing"} PROVE HintKept'
  <2>1. \/ Seed /\ answer' = "ok"
        \/ Listing
        \/ Dispatch
    BY <1>5 DEF Seed, GiveUp, Return
  <2>2. CASE Seed
    <3>1. Outcome("observe")
      BY <2>2, ListOutcome, AgentLoopAssumption DEF Seed, AdapterInv, LoopInv
    <3> QED
      BY <1>2, <1>4, <1>5, <2>2, <3>1
         DEF Outcome, Committed, NotCommitted, AdapterInv, HintKept, Seed, Stopping
  <2>3. CASE Listing
    <3>1. pc = "listing" /\ UNCHANGED <<events, reason>>
      BY <2>3 DEF Listing, vars
    <3> QED
      BY <1>2, <1>4, <3>1 DEF AdapterInv, HintKept
  <2>4. CASE Dispatch
    <3>1. pc = "dispatch"
      BY <2>4 DEF Dispatch
    <3>2. UNCHANGED events \/ Outcome("observe") \/ Outcome("act")
      BY <1>5, <2>4, DispatchProposes DEF AdapterInv, Return, vars
    <3> QED
      BY <1>2, <1>4, <3>1, <3>2
         DEF Outcome, Committed, NotCommitted, AdapterInv, HintKept
  <2> QED
    BY <2>1, <2>2, <2>3, <2>4
<1>6. ASSUME pc' \notin {"dispatch", "noCalls", "listing"} PROVE HintKept'
  BY <1>2, <1>4, <1>6 DEF AdapterInv, HintKept
<1> QED
  BY <1>1, <1>3, <1>5, <1>6 DEF AdapterInv

\* Sending a request changes nothing else; the request fits the hint.
LEMMA SendKeeps ==
    ASSUME AdapterInv, SendRequest
    PROVE  AdapterInv'
<1>1. /\ pc = "waiting" /\ length' \in Nat /\ Affordable(budget, Estimate(length'))
      /\ sent' = MaxTokens(budget, Estimate(length'))
      /\ UNCHANGED <<allVars, honest>>
  BY AdapterAssumption DEF SendRequest, Longer
<1>2. UNCHANGED <<vars, loopVars>> /\ UNCHANGED <<events, acct, pc, budget, reason>>
  BY <1>1 DEF allVars, loopVars, vars
<1>3. LoopInv'
  <2>1. Inv'
    BY <1>2, StepKeeps DEF AdapterInv, LoopInv
  <2> QED
    BY <1>2, <2>1, StillKeeps DEF AdapterInv
<1>4. budget \in Nat /\ Estimate(length') \in Nat \ {0}
  BY <1>1, EstimatePositive DEF AdapterInv, LoopInv, LoopTypeOK, PerCallCeiling
<1>5. sent' \in Nat /\ Estimate(length') * InputMj + sent' * OutputMj <= budget
  BY <1>1, <1>4, RequestFillsBudget
<1>6. Sized'
  BY <1>1, <1>2, <1>5 DEF AdapterInv, Sized
<1>7. HintKept'
  BY <1>1, <1>2 DEF AdapterInv, HintKept
<1> QED
  BY <1>3, <1>6, <1>7 DEF AdapterInv

\* A held lock or an edit from outside leaves the account and the request.
LEMMA AroundKeeps ==
    ASSUME AdapterInv, LockedOut \/ SomebodyEdits, Idle
    PROVE  AdapterInv'
<1>1. LoopInv'
  BY LoopStepKeeps DEF AdapterInv
<1>2. /\ pc' \in {pc, "raised"}
      /\ UNCHANGED <<honest, length, sent, events, acct, budget, reason>>
  BY DEF LockedOut, SomebodyEdits, OutsideEdit, Idle, vars, loopVars
<1> QED
  BY <1>1, <1>2 DEF AdapterInv, Sized, HintKept

\* A usage that Energy refuses leaves everything but the run as it was.
LEMMA BadUsageKeeps ==
    ASSUME AdapterInv, BadUsage
    PROVE  AdapterInv'
<1>1. /\ pc = "waiting" /\ pc' = "raised" /\ sent' = 0
      /\ UNCHANGED <<vars, events, mode, budget, calls, step, reason, honest, length>>
  BY DEF BadUsage, vars
<1>2. LoopInv'
  BY <1>1, RaisingKeeps DEF AdapterInv
<1>3. Sized'
  BY <1>1, <1>2, SettledKeeps DEF AdapterInv, Sized
<1>4. HintKept'
  BY <1>1 DEF AdapterInv, HintKept
<1> QED
  BY <1>2, <1>3, <1>4 DEF AdapterInv

\* Every step of the loop with this adapter as its provider.
LEMMA AdapterStepKeeps ==
    ASSUME AdapterInv, [AdapterNext]_adapterVars
    PROVE  AdapterInv'
<1>1. CASE RefuseRequest
  <2>1. length' \in Nat /\ sent' = 0
    BY <1>1, AdapterAssumption DEF RefuseRequest, Longer
  <2> QED
    BY <1>1, <2>1, FailureKeeps DEF RefuseRequest
<1>2. CASE SendRequest
  BY <1>2, SendKeeps
<1>3. CASE NoReply
  BY <1>3, FailureKeeps DEF NoReply, AdapterInv, Sized
<1>4. CASE \E usage \in Priced : ErrorReply(usage)
  BY <1>4, FailureKeeps, EnergyOfType DEF ErrorReply, AdapterInv, Sized
<1>5. CASE \E usage \in Priced :
             \E answered \in UNION {[1..n -> ToolCalls] : n \in 0..MaxCalls} :
                Reply(usage, answered)
  BY <1>5, ReplyKeeps
<1>6. CASE Complete /\ Idle
  BY <1>6, AskKeeps
<1>7. CASE /\ \/ Seed \/ Listing \/ Dispatch
              \/ GiveUp("noCalls", "no_tool_calls")
              \/ GiveUp("rejected", "rejected")
              \/ GiveUp("maxSteps", "max_steps")
           /\ Idle
  BY <1>7, OtherKeeps
<1>8. CASE (LockedOut \/ SomebodyEdits) /\ Idle
  BY <1>8, AroundKeeps
<1>9. CASE BadUsage
  BY <1>9, BadUsageKeeps
<1>10. CASE UNCHANGED adapterVars
  <2>1. UNCHANGED <<allVars, honest, length, sent>>
    BY <1>10 DEF adapterVars
  <2>2. LoopInv'
    BY <2>1, LoopStepKeeps DEF AdapterInv
  <2>3. UNCHANGED <<events, acct, pc, budget, reason>>
    BY <2>1 DEF allVars, vars, loopVars
  <2> QED
    BY <2>1, <2>2, <2>3 DEF AdapterInv, Sized, HintKept
<1> QED
  BY <1>1, <1>2, <1>3, <1>4, <1>5, <1>6, <1>7, <1>8, <1>9, <1>10
     DEF AdapterNext, AdapterStep

\* The adapter starts in its invariant.
LEMMA AdapterInitHolds == AdapterInit => AdapterInv
<1> SUFFICES ASSUME AdapterInit PROVE AdapterInv
  OBVIOUS
<1>1. LoopInv
  BY LoopInitHolds DEF AdapterInit
<1>2. pc \in {"seed", "complete"} /\ reason = "none"
  BY DEF AdapterInit, LoopInit
<1> QED
  BY <1>1, <1>2, AdapterAssumption DEF AdapterInit, AdapterInv, Sized, HintKept

-----------------------------------------------------------------------------
(* The theorems.                                                           *)

\* The inductive invariant is an invariant of every run with this adapter.
THEOREM AdapterInvariant == AdapterSpec => []AdapterInv
<1>1. AdapterInv /\ [AdapterNext]_adapterVars => AdapterInv'
  BY AdapterStepKeeps
<1> QED
  BY AdapterInitHolds, <1>1, PTL DEF AdapterSpec

\* Every request that is out can be paid in full, for every length of the
\* messages and every budget.
THEOREM RequestsAlwaysFit == AdapterSpec => []RequestsFit
<1>1. AdapterInv => RequestsFit
  BY DEF AdapterInv, Sized, RequestsFit
<1> QED
  BY AdapterInvariant, <1>1, PTL

\* No usage an honest vendor may report breaks the bound.
THEOREM HonestBoundHolds == AdapterSpec => []BoundIsKept
<1>1. AdapterInv => BoundIsKept
  BY DEF AdapterInv, HintKept, BoundIsKept, BilledWithinBudget
<1> QED
  BY AdapterInvariant, <1>1, PTL

\* What a run with this adapter returned is what its log says.
THEOREM AdapterRunsMatchTheLog == AdapterSpec => []RunMatchesLog
<1>1. AdapterInv => RunMatchesLog
  BY DEF AdapterInv, LoopInv, RunMatchesLog
<1> QED
  BY AdapterInvariant, <1>1, PTL

-----------------------------------------------------------------------------
(* What the vendor billed.                                                 *)

\* A commit books what its event says was billed.
LEMMA CommitBooks ==
    ASSUME LoopInv, NEW e, NEW cells2, Commit(e, cells2), BilledOf(e) \in Nat
    PROVE  Booked' = Booked + BilledOf(e)
<1> DEFINE n == Len(events)
           b == Bills(events)
           r == [delta |-> -BilledOf(e)]
           S == {b[i] : i \in 1..n} \cup {r}
<1>1. /\ n \in Nat /\ events \in Seq(EventType) /\ events' = Append(events, e)
  BY DEF LoopInv, Inv, TypeOK, Commit
<1>2. /\ Len(events') = n + 1 /\ events'[n + 1] = e
      /\ \A i \in 1..n : events'[i] = events[i]
  BY <1>1
<1>3. b \in [1..n -> S] /\ r \in S
  BY DEF Bills
<1>4. b \in Seq(S) /\ Len(b) = n
  BY <1>1, <1>3, SeqDef
<1>5. Bills(events)' = Append(b, r)
  <2>1. Bills(events)' = [i \in 1..(n + 1) |-> [delta |-> -BilledOf(events'[i])]]
    BY <1>2 DEF Bills
  <2>2. /\ Append(b, r) \in Seq(S) /\ Len(Append(b, r)) = n + 1
        /\ \A i \in 1..n : Append(b, r)[i] = b[i]
        /\ Append(b, r)[n + 1] = r
    BY <1>3, <1>4
  <2>3. Append(b, r) = [i \in 1..(n + 1) |-> Append(b, r)[i]]
    BY <2>2, SeqDef
  <2>4. \A i \in 1..(n + 1) : Append(b, r)[i] = [delta |-> -BilledOf(events'[i])]
    BY <1>1, <1>2, <2>2 DEF Bills
  <2> QED
    BY <2>1, <2>3, <2>4
<1>6. SpendFrom(r) = BilledOf(e)
  BY DEF SpendFrom
<1> HIDE DEF b, r, S
<1>7. Spent(Append(b, r)) = Spent(b) + SpendFrom(r)
  BY <1>3, <1>4, SpentAppend
<1>8. Booked = Spent(b) /\ Booked' = Spent(Append(b, r))
  BY <1>5 DEF Booked, b
<1> QED
  BY <1>6, <1>7, <1>8

\* An event that attempts nothing and is no Plan books nothing.
LEMMA FreeCommitBooks ==
    ASSUME LoopInv, NEW op, op # "plan", NEW mj, NEW reas, NEW a, NEW digest,
           NEW cells2,
           Commit(NewEvent(op, mj, reas, a, digest, NotAttempted), cells2),
           Booked \in Int
    PROVE  UNCHANGED Booked
<1> DEFINE e == NewEvent(op, mj, reas, a, digest, NotAttempted)
<1>1. BilledOf(e) = 0
  BY DEF NewEvent, BilledOf
<1>2. Booked' = Booked + BilledOf(e)
  <2> HIDE DEF e
  <2> QED
    BY <1>1, CommitBooks DEF e
<1> QED
  BY <1>1, <1>2

\* A refusal books nothing either.
LEMMA RefusalBooks ==
    ASSUME UNCHANGED events
    PROVE  UNCHANGED Booked
  BY DEF Booked

\* The tools book nothing.
LEMMA ToolsBook ==
    ASSUME LoopInv, Booked \in Int, NEW a, NEW data,
           \/ ProposeList(a, FALSE) \/ ProposeObserve(a, FALSE)
           \/ ProposeAct(a, data, data, FALSE) \/ ProposeFinish(FALSE)
    PROVE  UNCHANGED Booked
<1>1. CASE ProposeList(a, FALSE)
  BY <1>1, FreeCommitBooks, RefusalBooks DEF ProposeList, Propose, Refuse
<1>2. CASE ProposeObserve(a, FALSE)
  BY <1>2, FreeCommitBooks, RefusalBooks DEF ProposeObserve, Propose, Refuse
<1>3. CASE ProposeAct(a, data, data, FALSE)
  BY <1>3, FreeCommitBooks, RefusalBooks DEF ProposeAct, Propose, Refuse
<1>4. CASE ProposeFinish(FALSE)
  BY <1>4, FreeCommitBooks, RefusalBooks DEF ProposeFinish, Propose, Refuse
<1> QED
  BY <1>1, <1>2, <1>3, <1>4

\* A Failed books what it attempted, or is refused with an exception.
LEMMA FailedBooks ==
    ASSUME LoopInv, Booked \in Int, NEW spend \in Nat \cup {NoSpend},
           ProposeFailed(spend, spend)
    PROVE  \/ answer' # "ok"
           \/ Booked' = Booked + (IF spend = NoSpend THEN 0 ELSE spend)
<1>1. CASE FailedVerdict(spend) # "ok"
  BY <1>1 DEF ProposeFailed, Propose, Refuse
<1>2. CASE FailedVerdict(spend) = "ok"
  <2> DEFINE e == NewEvent("failed", FailedDebit(spend),
                           IF FailedDebit(spend) = 0 THEN "none" ELSE "plan",
                           Nothing, Nothing, FailedAttempt(spend, spend))
  <2>1. Commit(e, cells)
    BY <1>2 DEF ProposeFailed, Propose
  <2>2. BilledOf(e) = IF spend = NoSpend THEN 0 ELSE spend
    BY DEF BilledOf, NewEvent, FailedAttempt, NoSpend, NotAttempted
  <2> HIDE DEF e
  <2> QED
    BY <2>1, <2>2, CommitBooks DEF NoSpend
<1> QED
  BY <1>1, <1>2

\* A Failed of the loop's own books nothing.
LEMMA GivingUpBooks ==
    ASSUME LoopInv, Booked \in Int,
           ProposeFailed(NoSpend, NotAttempted) \/ ProposeFailed(NoSpend, NoSpend)
    PROVE  answer' # "ok" \/ UNCHANGED Booked
<1>1. ProposeFailed(NoSpend, NoSpend) /\ NoSpend \in Nat \cup {NoSpend}
  BY DEF NoSpend, NotAttempted
<1>2. \/ answer' # "ok"
      \/ Booked' = Booked + (IF NoSpend = NoSpend THEN 0 ELSE NoSpend)
  BY <1>1, FailedBooks
<1>3. (IF NoSpend = NoSpend THEN 0 ELSE NoSpend) = 0
  OBVIOUS
<1> QED
  BY <1>2, <1>3

\* A Plan books what it is charged, or is refused with an exception.
LEMMA PlanBooks ==
    ASSUME LoopInv, NEW spend \in Nat, ProposePlan(spend)
    PROVE  answer' # "ok" \/ Booked' = Booked + spend
<1>1. CASE PlanVerdict(spend) # "ok"
  BY <1>1 DEF ProposePlan, Propose, Refuse
<1>2. CASE PlanVerdict(spend) = "ok"
  <2> DEFINE e == NewEvent("plan", spend, "plan", Nothing, Nothing, NotAttempted)
  <2>1. Commit(e, cells)
    BY <1>2 DEF ProposePlan, Propose
  <2>2. BilledOf(e) = spend
    BY DEF BilledOf, NewEvent, SpendFrom
  <2> HIDE DEF e
  <2> QED
    BY <2>1, <2>2, CommitBooks
<1> QED
  BY <1>1, <1>2

\* BillsAreBooked, and that a run that raised stays so.
Billing == billed \in Nat /\ BillsAreBooked

\* Every step of the adapter books what it received.
LEMMA BillingKept ==
    ASSUME AdapterInv, Billing, AdapterNext
    PROVE  Billing'
<1>1. LoopInv /\ billed \in Nat
  BY DEF AdapterInv, Billing
<1>2. CASE pc = "raised"
  <2>1. pc' = "raised" /\ billed' = billed
    BY <1>2 DEF AdapterNext, AdapterStep, RefuseRequest, SendRequest, NoReply,
                ErrorReply, Reply, ProviderFails, ProviderOverran,
                ProviderAnswers, Seed, Listing, Dispatch, Complete, GiveUp,
                BadUsage, LockedOut, SomebodyEdits, Idle, loopVars
  <2> QED
    BY <1>1, <2>1 DEF Billing, BillsAreBooked
<1>3. ASSUME pc # "raised" PROVE Billing'
  <2>0. Booked = billed /\ Booked \in Int
    BY <1>1, <1>3 DEF Billing, BillsAreBooked
  <2>1. CASE NoReply \/ RefuseRequest
    <3>1. ProposeFailed(NoSpend, NoSpend) /\ Return("provider_error")
          /\ billed' = billed
      BY <2>1 DEF NoReply, RefuseRequest, ProviderFails
    <3> QED
      BY <1>1, <2>0, <3>1, GivingUpBooks DEF Return, Billing, BillsAreBooked
  <2>2. CASE SendRequest
    BY <1>1, <2>0, <2>2, RefusalBooks
       DEF SendRequest, allVars, vars, Billing, BillsAreBooked
  <2>3. ASSUME NEW usage \in Priced, ErrorReply(usage) PROVE Billing'
    <3> DEFINE mj == EnergyOf(usage)
               spend == IF mj <= 0 THEN NoSpend ELSE mj
    <3>1. mj \in Nat
      BY EnergyOfType
    <3>2. /\ ProposeFailed(spend, spend) /\ Return("provider_error")
          /\ billed' = billed + mj
      BY <2>3 DEF ErrorReply, ProviderFails
    <3> HIDE DEF mj
    <3>3. spend \in Nat \cup {NoSpend} /\ (IF spend = NoSpend THEN 0 ELSE spend) = mj
      BY <3>1 DEF NoSpend
    <3> HIDE DEF spend
    <3> QED
      BY <1>1, <2>0, <3>1, <3>2, <3>3, FailedBooks DEF Return, Billing, BillsAreBooked
  <2>4. ASSUME NEW usage \in Priced, NEW answered, Reply(usage, answered)
        PROVE  Billing'
    <3> DEFINE mj == EnergyOf(usage)
    <3>1. mj \in Nat
      BY EnergyOfType
    <3>2. /\ \/ ProposeFailed(mj, mj) /\ Return("energy_bound_broken")
             \/ ProposePlan(mj) /\ (answer' # "ok" => pc' = "raised")
          /\ billed' = billed + mj
      BY <2>4 DEF Reply, ProviderOverran, ProviderAnswers
    <3> HIDE DEF mj
    <3>3. mj # NoSpend
      BY <3>1 DEF NoSpend
    <3> QED
      BY <1>1, <2>0, <3>1, <3>2, <3>3, FailedBooks, PlanBooks
         DEF Return, Billing, BillsAreBooked
  <2>5. CASE (Seed \/ Listing \/ Dispatch) /\ Idle
    <3>1. UNCHANGED Booked
      BY <1>1, <2>0, <2>5, ToolsBook, RefusalBooks
         DEF Seed, Listing, Dispatch, ListDir, vars
    <3> QED
      BY <1>1, <2>0, <2>5, <3>1 DEF Idle, Billing, BillsAreBooked
  <2>6. CASE /\ \/ Complete \/ GiveUp("noCalls", "no_tool_calls")
                \/ GiveUp("rejected", "rejected")
                \/ GiveUp("maxSteps", "max_steps")
             /\ Idle
    <3>1. pc' = "raised" \/ UNCHANGED Booked
      BY <1>1, <2>0, <2>6, GivingUpBooks, RefusalBooks
         DEF Complete, GiveUp, Return, vars
    <3> QED
      BY <1>1, <2>0, <2>6, <3>1 DEF Idle, Billing, BillsAreBooked
  <2>7. CASE (LockedOut \/ SomebodyEdits) /\ Idle
    <3>1. UNCHANGED <<events, billed>>
      BY <2>7 DEF LockedOut, SomebodyEdits, OutsideEdit, Idle, vars
    <3> QED
      BY <1>1, <2>0, <3>1, RefusalBooks DEF Billing, BillsAreBooked
  <2>8. CASE BadUsage
    BY <1>1, <2>8 DEF BadUsage, Billing, BillsAreBooked
  <2> QED
    BY <2>1, <2>2, <2>3, <2>4, <2>5, <2>6, <2>7, <2>8 DEF AdapterNext, AdapterStep
<1> QED
  BY <1>2, <1>3

\* Nothing is billed, and nothing booked, when a run begins.
LEMMA BillingBegins == AdapterInit => Billing
<1> SUFFICES ASSUME AdapterInit PROVE Billing
  OBVIOUS
<1>1. events = <<events[1]>> /\ events[1].op = "init"
      /\ events[1].attempted = NotAttempted
  BY DEF AdapterInit, LoopInit, Init
<1>2. Len(Bills(events)) = 1 /\ Bills(events) = <<[delta |-> 0]>>
  BY <1>1 DEF Bills, BilledOf
<1>3. Booked = 0
  BY <1>2, SpentOne DEF Booked, SpendFrom
<1> QED
  BY <1>3 DEF AdapterInit, Billing, BillsAreBooked

\* Every mj a vendor reports is in the log of a run that did not raise.
THEOREM EveryBillIsBooked == AdapterSpec => []BillsAreBooked
<1>1. Billing /\ AdapterInv /\ [AdapterNext]_adapterVars => Billing'
  <2>1. CASE UNCHANGED adapterVars
    BY <2>1 DEF adapterVars, allVars, vars, loopVars, Billing, BillsAreBooked,
                Booked
  <2> QED
    BY <2>1, BillingKept
<1>2. Billing => BillsAreBooked
  BY DEF Billing
<1> QED
  BY BillingBegins, AdapterInvariant, <1>1, <1>2, PTL DEF AdapterSpec

-----------------------------------------------------------------------------
(* What the vendor may have billed without saying.                         *)

\* OneBillUnknown, and the types it needs.
Asking == asked \in Nat /\ step \in Nat /\ OneBillUnknown

\* Sending a request is the one step that asks, a completion the one step that
\* answers; any other step that ends a request ends the run.
LEMMA AskingKept ==
    ASSUME Asking, [AdapterNext]_adapterVars
    PROVE  Asking'
<1>1. CASE SendRequest
  <2>1. /\ ~Ended /\ sent = 0 /\ sent' # 0 /\ asked' = asked + 1
        /\ UNCHANGED <<pc, step>>
    BY <1>1 DEF SendRequest, MaxTokens, Ended, allVars, loopVars
  <2> QED
    BY <2>1 DEF Asking, OneBillUnknown, Ended
<1>2. CASE \/ RefuseRequest \/ NoReply \/ BadUsage
           \/ \E usage \in Priced : ErrorReply(usage)
           \/ \E usage \in Priced : sent' = 0 /\ UNCHANGED asked
                                    /\ ProviderOverran(EnergyOf(usage))
  <2>1. /\ ~Ended /\ pc' \in {"done", "raised"} /\ UNCHANGED <<asked, step>>
    BY <1>2 DEF RefuseRequest, NoReply, BadUsage, ErrorReply, ProviderFails,
                ProviderOverran, Return, Ended
  <2> QED
    BY <2>1 DEF Asking, OneBillUnknown, Ended
<1>3. CASE \E usage \in Priced : \E answered :
             /\ sent # 0 /\ sent' = 0 /\ UNCHANGED asked
             /\ ProviderAnswers(EnergyOf(usage), answered)
  <2>1. ~Ended /\ sent # 0 /\ sent' = 0 /\ step' = step + 1 /\ UNCHANGED asked
    BY <1>3 DEF ProviderAnswers, Ended
  <2> QED
    BY <2>1 DEF Asking, OneBillUnknown
<1>4. CASE /\ \/ Seed \/ Listing \/ Dispatch \/ Complete
              \/ GiveUp("noCalls", "no_tool_calls")
              \/ GiveUp("rejected", "rejected")
              \/ GiveUp("maxSteps", "max_steps")
              \/ LockedOut
           /\ Idle
  <2>1. ~Ended /\ UNCHANGED <<asked, step, sent>>
    BY <1>4 DEF Seed, Listing, Dispatch, Complete, GiveUp, LockedOut, Idle, Ended
  <2> QED
    BY <2>1 DEF Asking, OneBillUnknown
<1>5. CASE (SomebodyEdits /\ Idle) \/ UNCHANGED adapterVars
  <2>1. UNCHANGED <<asked, step, sent, pc>>
    BY <1>5 DEF SomebodyEdits, Idle, adapterVars, allVars, loopVars
  <2> QED
    BY <2>1 DEF Asking, OneBillUnknown, Ended
<1> QED
  BY <1>1, <1>2, <1>3, <1>4, <1>5 DEF AdapterNext, AdapterStep, Reply

\* Whatever the vendor does with a request, no second one is sent in its place.
THEOREM NoRequestIsRetried == AdapterSpec => []OneBillUnknown
<1>1. AdapterInit => Asking
  BY DEF AdapterInit, LoopInit, Asking, OneBillUnknown, Ended
<1>2. Asking => OneBillUnknown
  BY DEF Asking
<1> QED
  BY AskingKept, <1>1, <1>2, PTL DEF AdapterSpec

-----------------------------------------------------------------------------
(* With the adapter in it, a run pays for all it does.                     *)

\* The adapter's steps are the loop's, with what the vendor billed.
LEMMA AdapterStepPays ==
    ASSUME AdapterInv, [AdapterNext]_adapterVars
    PROVE  Paid
<1>1. LoopInv
  BY DEF AdapterInv
<1>2. CASE RefuseRequest \/ NoReply
  BY <1>1, <1>2, ProviderPays DEF RefuseRequest, NoReply
<1>3. CASE \E usage \in Priced :
             \/ ErrorReply(usage)
             \/ \E answered : Reply(usage, answered)
  <2>1. PICK usage \in Priced :
          \/ ErrorReply(usage)
          \/ \E answered : Reply(usage, answered)
    BY <1>3
  <2> DEFINE mj == EnergyOf(usage)
  <2>2. \/ ProviderFails(mj) \/ ProviderOverran(mj)
        \/ \E answered : ProviderAnswers(mj, answered)
    BY <2>1 DEF ErrorReply, Reply
  <2>3. mj \in Nat
    BY EnergyOfType
  <2> HIDE DEF mj
  <2> QED
    BY <1>1, <2>2, <2>3, ProviderPays
<1>4. CASE SendRequest \/ BadUsage \/ UNCHANGED adapterVars
  BY <1>1, <1>4, RestPays DEF SendRequest, BadUsage, adapterVars, allVars
<1>5. CASE \/ Seed \/ Listing \/ Dispatch \/ Complete
           \/ GiveUp("noCalls", "no_tool_calls") \/ GiveUp("rejected", "rejected")
           \/ GiveUp("maxSteps", "max_steps") \/ LockedOut \/ SomebodyEdits
  BY <1>1, <1>5, RestPays
<1> QED
  BY <1>2, <1>3, <1>4, <1>5 DEF AdapterNext, AdapterStep

\* A run through the adapter implements the ledger, and with nothing left it
\* can only be closed, whatever the vendor bills.
THEOREM AdapterImplementsLedger == AdapterSpec => LedgerSpec /\ NoWorkUnpaid
<1> DEFINE Unpaid ==
      acct.remaining = 0 /\ events' # events =>
          /\ events'[Len(events')].op \in {"finish", "failed"}
          /\ acct' = acct /\ files' = files
<1>1. AdapterInit => Promise!LedgerInit
  BY InitIsLedgerInit DEF AdapterInit, LoopInit
<1>2. AdapterInv /\ [AdapterNext]_adapterVars
        => [Promise!LedgerNext]_(Promise!ledgerVars) /\ [Unpaid]_vars
  BY AdapterStepPays, PaidIsLedgerNext, PaidIsNoFreeWork DEF AdapterInv, LoopInv
<1> QED
  BY AdapterInvariant, <1>1, <1>2, PTL
     DEF AdapterSpec, LedgerSpec, Promise!LedgerSpec, NoWorkUnpaid

-----------------------------------------------------------------------------
(* Also with the adapter in it, every run is short.                        *)

\* The steps of the loop, with a request sent before each answer.
RequestsAhead == 2 * StepsAhead + (IF sent = 0 THEN 1 ELSE 0)

\* A step of the loop shortens the run whatever it does to the request.
LEMMA LoopStepCounts ==
    ASSUME LoopTypeOK, LoopTypeOK', StepsCounted, Shortens
    PROVE  RequestsAhead' < RequestsAhead
<1>1. StepsAhead \in Nat /\ StepsAhead' \in Nat
  BY StepsAheadCount, StepsAheadStay DEF Shortens
<1>2. StepsAhead' < StepsAhead
  BY DEF Shortens
<1>3. \A m, n \in Nat :
         m < n => 2 * m + (IF sent' = 0 THEN 1 ELSE 0)
                    < 2 * n + (IF sent = 0 THEN 1 ELSE 0)
  OBVIOUS
<1> QED
  BY <1>1, <1>2, <1>3 DEF RequestsAhead

\* To send a request is a step of its own, and is taken once.
LEMMA SendCounts ==
    ASSUME LoopTypeOK, StepsCounted, SendRequest
    PROVE  RequestsAhead' < RequestsAhead /\ StepsCounted'
<1>1. StepsAhead' = StepsAhead /\ StepsCounted'
  BY OthersWait DEF SendRequest, allVars
<1>2. sent = 0 /\ sent' # 0
  BY DEF SendRequest, MaxTokens
<1>3. StepsAhead \in Nat
  BY StepsAheadCount
<1> QED
  BY <1>1, <1>2, <1>3 DEF RequestsAhead

\* Every step of the adapter, or of the loop around it, is one of the two.
LEMMA AdapterStepCounts ==
    ASSUME AdapterInv, AdapterInv', StepsCounted,
           AdapterStep \/ (LockedOut /\ Idle)
    PROVE  RequestsAhead' < RequestsAhead /\ StepsCounted'
<1>1. LoopInv /\ LoopTypeOK /\ LoopTypeOK'
  BY DEF AdapterInv, LoopInv
<1>2. CASE SendRequest
  BY <1>1, <1>2, SendCounts
<1>3. CASE \/ RefuseRequest \/ NoReply \/ BadUsage
           \/ \E usage \in Priced : ErrorReply(usage)
           \/ \E usage \in Priced : ProviderOverran(EnergyOf(usage))
  <2>1. ~Ended /\ UNCHANGED <<mode, step>> /\ pc' \in {"done", "raised"}
    BY <1>3 DEF RefuseRequest, NoReply, BadUsage, ErrorReply, ProviderFails,
                ProviderOverran, Return, Ended
  <2> QED
    BY <1>1, <2>1, EndingShortens, LoopStepCounts DEF Shortens
<1>4. CASE \E usage \in Priced :
             \E answered \in UNION {[1..n -> ToolCalls] : n \in 0..MaxCalls} :
                ProviderAnswers(EnergyOf(usage), answered)
  BY <1>1, <1>4, AnswerShortens, EnergyOfType, LoopStepCounts DEF Shortens
<1>5. CASE \/ Seed \/ Listing \/ Dispatch \/ Complete
           \/ GiveUp("noCalls", "no_tool_calls") \/ GiveUp("rejected", "rejected")
           \/ GiveUp("maxSteps", "max_steps") \/ LockedOut
  BY <1>1, <1>5, LoopStepShortens, LoopStepCounts DEF LoopStep, Shortens
<1> QED
  BY <1>2, <1>3, <1>4, <1>5 DEF AdapterStep, Reply

\* However slow or broken the vendor is, every step brings the run closer to
\* its end: no request is sent twice, and no failure is tried again.  Nor do
\* edits of others put the end off.
THEOREM AdapterRunsShorten ==
    AdapterSpec =>
        [][/\ AdapterStep \/ LockedOut => RequestsAhead' < RequestsAhead
           /\ SomebodyEdits /\ Idle => UNCHANGED RequestsAhead
           /\ RequestsAhead' \in Nat]_adapterVars
<1> DEFINE Goal == /\ AdapterStep \/ LockedOut => RequestsAhead' < RequestsAhead
                   /\ SomebodyEdits /\ Idle => UNCHANGED RequestsAhead
                   /\ RequestsAhead' \in Nat
<1>1. AdapterInit => StepsCounted
  BY AgentLoopAssumption DEF AdapterInit, LoopInit, StepsCounted, Allowed
<1>2. AdapterInv /\ AdapterInv' /\ StepsCounted /\ [AdapterNext]_adapterVars
        => StepsCounted'
  BY AdapterStepCounts, OthersWait
     DEF AdapterNext, SomebodyEdits, adapterVars, allVars
<1>3. (AdapterInv /\ StepsCounted => RequestsAhead \in Nat)'
  <2>1. AdapterInv /\ StepsCounted => StepsAhead \in Nat
    BY StepsAheadCount DEF AdapterInv, LoopInv
  <2>2. AdapterInv /\ StepsCounted => RequestsAhead \in Nat
    BY <2>1 DEF RequestsAhead
  <2> QED
    BY <2>2, PTL
<1>4. AdapterInv /\ AdapterInv' /\ StepsCounted /\ StepsCounted'
        /\ [AdapterNext]_adapterVars => [Goal]_adapterVars
  <2> SUFFICES ASSUME AdapterInv, AdapterInv', StepsCounted, StepsCounted',
                      AdapterNext
               PROVE  Goal
    OBVIOUS
  <2>1. AdapterStep \/ LockedOut => AdapterStep \/ (LockedOut /\ Idle)
    BY DEF AdapterNext
  <2>2. SomebodyEdits /\ Idle => UNCHANGED RequestsAhead
    BY OthersWait DEF SomebodyEdits, Idle, RequestsAhead
  <2> QED
    BY <1>3, <2>1, <2>2, AdapterStepCounts
<1> HIDE DEF Goal
<1>5. AdapterSpec => [][Goal]_adapterVars
  BY AdapterInvariant, <1>1, <1>2, <1>4, PTL DEF AdapterSpec
<1> QED
  BY <1>5 DEF Goal
=============================================================================
