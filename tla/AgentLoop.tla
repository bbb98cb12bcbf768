------------------------------ MODULE AgentLoop -----------------------------
(***************************************************************************)
(* agent/loop.py and agent/tools.py over an open World: seed the           *)
(* conversation with a listing, then complete, log a Plan and dispatch the *)
(* tool calls, until something ends the run.  Each propose is one of       *)
(* World's actions; what it answers decides where the loop goes next.  The *)
(* provider may answer anything, and between any two steps somebody else   *)
(* may edit the directory or hold the world's lock.                        *)
(***************************************************************************)
EXTENDS World

CONSTANTS
    Root,           \* the address "."
    ToolCalls,      \* the tool calls a completion may hold
    MaxCalls,       \* bound on the tool calls of one completion
    Energies,       \* what a completion, or a failed request, may have cost
    MaxSteps,       \* RunConfig.max_steps
    Contended       \* another process may hold the lock when a propose comes

\* ToolCall: the arguments a tool needs may be missing.
CallType ==
    [tool : {"list_dir", "read_file", "write_file", "finish", "unknown"},
     addr : Addrs \cup {Nothing}, data : Contents \cup {Nothing}]

ASSUME AgentLoopAssumption ==
    /\ Root \in Addrs
    /\ ToolCalls \subseteq CallType
    /\ MaxCalls \in Nat /\ MaxSteps \in Nat
    /\ Energies \subseteq Nat
    /\ Contended \in BOOLEAN

VARIABLES
    pc,             \* where run() or plan() is
    mode,           \* "run" or "plan"
    budget,         \* budget_hint of the request that is out
    calls,          \* tool calls of the completion still to dispatch
    step,           \* completions so far
    reason          \* RunResult.reason

loopVars == <<pc, mode, budget, calls, step, reason>>
allVars == <<vars, loopVars>>

\* A call with the arguments its tool requires missing or of the wrong type;
\* data is write_file's content and finish's summary.
Malformed(c) ==
    \/ c.tool \in {"list_dir", "read_file", "write_file"} /\ c.addr = Nothing
    \/ c.tool \in {"write_file", "finish"} /\ c.data = Nothing

\* What tools._commit turns into ToolResult(stop=True); CellNotFound is the
\* one exception the model may recover from, and every other one escapes.
Stopping == {"OutsideSpace", "EnergyExhausted", "StaleParent", "WriteTooLarge",
             "IsADirectoryError", "NotADirectoryError"}

-----------------------------------------------------------------------------

LoopInit ==
    /\ Init
    /\ mode \in {"run", "plan"}
    /\ pc = IF mode = "run" THEN "seed" ELSE "complete"
    /\ budget = 0
    /\ calls = <<>>
    /\ step = 0
    /\ reason = "none"

\* Mutant: whatever ended the run, it is reported as finished.
ReturnFinished(why) ==
    IF answer' = "ok"
    THEN pc' = "done" /\ reason' = "finished"
    ELSE pc' = "raised" /\ UNCHANGED reason

\* The run returns RunResult(why) once the propose has answered.
Return(why) ==
    IF answer' = "ok"
    THEN pc' = "done" /\ reason' = why
    ELSE pc' = "raised" /\ UNCHANGED reason

\* _complete, up to the request: too little left ends the run without one.
Complete ==
    /\ pc = "complete"
    /\ IF acct.remaining < MinCompletion
       THEN /\ ProposeFailed(NoSpend, NotAttempted)
            /\ Return("energy_exhausted")
            /\ UNCHANGED budget
       ELSE /\ budget' = IF acct.remaining < PerCallCeiling
                         THEN acct.remaining ELSE PerCallCeiling
            /\ pc' = "waiting"
            /\ UNCHANGED <<vars, reason>>
    /\ UNCHANGED <<mode, calls, step>>

\* The provider raised; a known positive usage is billed.
ProviderFails(mj) ==
    /\ pc = "waiting"
    /\ LET spend == IF mj <= 0 THEN NoSpend ELSE mj
       IN  ProposeFailed(spend, spend)
    /\ Return("provider_error")
    /\ UNCHANGED <<mode, budget, calls, step>>

\* A completion that cost more than is left is Failed, any other is a Plan.
ProviderOverran(mj) ==
    /\ pc = "waiting"
    /\ mj > acct.remaining
    /\ ProposeFailed(mj, mj)
    /\ Return("energy_bound_broken")
    /\ UNCHANGED <<mode, budget, calls, step>>

ProviderAnswers(mj, answered) ==
    /\ pc = "waiting"
    /\ mj <= acct.remaining
    /\ ProposePlan(mj)
    /\ calls' = answered
    /\ step' = step + 1
    /\ IF answer' # "ok" THEN pc' = "raised" /\ UNCHANGED reason
       ELSE IF mode = "plan" THEN pc' = "done" /\ reason' = "finished"
       ELSE pc' = (IF answered = <<>> THEN "noCalls" ELSE "dispatch")
            /\ UNCHANGED reason
    /\ UNCHANGED <<mode, budget>>

\* Mutant: the run gives up without logging a Failed.
GiveUpSilently(at, why) ==
    /\ pc = at
    /\ pc' = "done" /\ reason' = why
    /\ UNCHANGED <<vars, mode, budget, calls, step>>

\* The three ways run() gives up by itself.
GiveUp(at, why) ==
    /\ pc = at
    /\ ProposeFailed(NoSpend, NotAttempted)
    /\ Return(why)
    /\ UNCHANGED <<mode, budget, calls, step>>

-----------------------------------------------------------------------------
(* Tools.                                                                  *)

\* The loop goes on to the next call, the next step, or gives up.
NextCall(rest) ==
    /\ calls' = rest
    /\ pc' = IF rest # <<>> THEN "dispatch"
             ELSE IF step < MaxSteps THEN "complete" ELSE "maxSteps"

\* Mutants: a call is repeated once it succeeded, or while it fails.
TakeResultAgain ==
    IF answer' \in Stopping THEN pc' = "rejected" /\ UNCHANGED calls
    ELSE IF answer' \in {"ok", "CellNotFound"} THEN NextCall(calls)
    ELSE pc' = "raised" /\ UNCHANGED calls
TakeResultRetrying ==
    IF answer' \in Stopping THEN pc' = "rejected" /\ UNCHANGED calls
    ELSE IF answer' = "ok" THEN NextCall(Tail(calls))
    ELSE IF answer' = "CellNotFound" THEN NextCall(calls)
    ELSE pc' = "raised" /\ UNCHANGED calls

\* How run() takes the ToolResult of a propose that is the whole tool.
TakeResult ==
    IF answer' \in Stopping THEN pc' = "rejected" /\ UNCHANGED calls
    ELSE IF answer' \in {"ok", "CellNotFound"} THEN NextCall(Tail(calls))
    ELSE pc' = "raised" /\ UNCHANGED calls

\* list_dir commits its Observe and then lists again, outside the lock.
ListDir(a) ==
    /\ ProposeList(a, FALSE)
    /\ IF answer' = "ok" THEN pc' = "listing" /\ UNCHANGED calls ELSE TakeResult

Seed ==
    /\ pc = "seed"
    /\ ProposeList(Root, FALSE)
    /\ calls' = <<[tool |-> "list_dir", addr |-> Root, data |-> Nothing]>>
    /\ pc' = IF answer' = "ok" THEN "listing"
             ELSE IF answer' \in Stopping \cup {"CellNotFound"} THEN "rejected"
             ELSE "raised"
    /\ UNCHANGED <<mode, budget, step, reason>>

Listing ==
    /\ pc = "listing"
    /\ IF At(Head(calls).addr) = Directory THEN NextCall(Tail(calls))
       ELSE pc' = "raised" /\ UNCHANGED calls
    /\ UNCHANGED <<vars, mode, budget, step, reason>>

Dispatch ==
    /\ pc = "dispatch"
    /\ LET c == Head(calls)
       IN  IF c.tool = "unknown" \/ Malformed(c)
           THEN pc' = "rejected" /\ UNCHANGED <<vars, calls, reason>>
           ELSE \/ c.tool = "list_dir" /\ ListDir(c.addr) /\ UNCHANGED reason
                \/ /\ c.tool = "read_file"
                   /\ ProposeObserve(c.addr, FALSE)
                   /\ TakeResult /\ UNCHANGED reason
                \/ /\ c.tool = "write_file"
                   /\ ProposeAct(c.addr, c.data, c.data, FALSE)
                   /\ TakeResult /\ UNCHANGED reason
                \/ /\ c.tool = "finish"
                   /\ ProposeFinish(FALSE)
                   /\ Return("finished") /\ UNCHANGED calls
    /\ UNCHANGED <<mode, budget, step>>

\* A propose that finds the lock held raises WorldLocked out of the run.
LockedOut ==
    /\ Contended
    /\ pc \in {"seed", "complete", "waiting", "noCalls", "dispatch", "rejected",
               "maxSteps"}
    /\ pc' = "raised"
    /\ UNCHANGED <<vars, mode, budget, calls, step, reason>>

LoopStep ==
    \/ Seed \/ Listing \/ Dispatch \/ Complete
    \/ \E mj \in Energies :
          \/ ProviderFails(mj) \/ ProviderOverran(mj)
          \/ \E answered \in UNION {[1..n -> ToolCalls] : n \in 0..MaxCalls} :
                ProviderAnswers(mj, answered)
    \/ GiveUp("noCalls", "no_tool_calls")
    \/ GiveUp("rejected", "rejected")
    \/ GiveUp("maxSteps", "max_steps")

SomebodyEdits ==
    /\ \E p \in Shared, x \in Contents \cup {Directory, Missing} : OutsideEdit(p, x)
    /\ UNCHANGED loopVars

\* The run is a program that keeps being scheduled, and a request comes back
\* (an answer or a timeout); nobody owes the run an edit or a held lock.
LoopSpec ==
    /\ LoopInit
    /\ [][LoopStep \/ LockedOut \/ SomebodyEdits]_allVars
    /\ WF_allVars(LoopStep)

-----------------------------------------------------------------------------
(* Properties.                                                             *)

Ended == pc \in {"done", "raised"}
Closing == {"finish", "failed"}

\* The world and the run are well formed: a call is there to be dispatched
\* whenever one is dispatched or listed again.
LoopTypeOK ==
    /\ TypeOK
    /\ pc \in {"seed", "listing", "complete", "waiting", "dispatch", "noCalls",
               "rejected", "maxSteps", "done", "raised"}
    /\ mode \in {"run", "plan"}
    /\ budget \in 0..PerCallCeiling
    /\ calls \in Seq(CallType)
    /\ pc \in {"dispatch", "listing"} => calls # <<>>
    /\ pc = "listing" => Head(calls).addr \in Addrs
    /\ step \in Nat

\* There is at most one closing event, the last of the log, a Finish if and only
\* if the reason is "finished"; a run that raises has none.
ClosedOnce ==
    \A i \in 2..Len(events) :
        events[i].op \in Closing =>
            /\ i = Len(events) /\ pc = "done"
            /\ events[i].op = "finish" <=> (reason = "finished")
\* A run that returns has closed its log.
EveryReturnExplained ==
    pc = "done" /\ mode = "run" => events[Len(events)].op \in Closing
\* What run() returned is what the log says: its reason and its last event agree,
\* and a log ends in a Finish or a Failed when, and only when, the run returned.
\* Runs that raise (a held lock, a completion that cost nothing, a directory gone
\* before its second listing) leave a log that claims no end.
RunMatchesLog == ClosedOnce /\ EveryReturnExplained

\* Tools only ever run on the strength of a Plan that was paid for: after the
\* seed listing, the first event is not an observation or a write, and between
\* two Plans there are no more of them than calls in one completion.
ActsFollowPlans ==
    LET work(i) == events[i].op \in {"observe", "act"}
    IN  mode = "run" =>
          \A i \in 3..Len(events) : work(i) =>
              \E j \in 3..i : events[j].op = "plan" /\ i - j <= MaxCalls

\* "If the vendor nevertheless bills more than budget ... the loop commits
\* Failed(energy_bound_broken)": no Plan costs more than the hint it was given.
BilledWithinBudget ==
    pc \in {"dispatch", "noCalls"} /\ events[Len(events)].op = "plan" =>
        SpendFrom(events[Len(events)]) <= budget

\* Every run ends: energy, max_steps and the provider's answers run out.
RunEnds == <>Ended
=============================================================================
