------------------------------- MODULE Adapter -------------------------------
(***************************************************************************)
(* providers/spacexai.py as the provider of AgentLoop: bound the request   *)
(* by the budget hint before it is sent, then turn whatever comes back     *)
(* into a completion or a ProviderError that carries what was billed.      *)
(*                                                                         *)
(* AgentLoop lets a provider answer anything; here its provider actions    *)
(* are taken with what the adapter makes of the vendor's reply.            *)
(***************************************************************************)
EXTENDS AgentLoop

CONSTANTS
    Lengths,        \* lengths the serialized messages may have
    TokenCounts,    \* token counts a usage object may report
    HasKey          \* an API key is configured

ASSUME AdapterAssumption ==
    /\ Lengths \subseteq Nat
    /\ TokenCounts \subseteq Int
    /\ HasKey \in BOOLEAN

VARIABLES
    honest,         \* the vendor keeps to max_output_tokens, and the
                    \* estimate of the input is not too low
    length,         \* of the messages last serialized: they only ever grow
    sent,           \* max_output_tokens of the request that is out, or 0
    asked,          \* history: requests sent, each of which may be billed
    billed          \* history: the energy of every usage object received
                    \* and understood

adapterVars == <<allVars, honest, length, sent, asked, billed>>

-----------------------------------------------------------------------------
(* Arithmetic.                                                             *)

InputMj == 1
OutputMj == 3

Estimate(len) == IF len \div 4 < 1 THEN 1 ELSE len \div 4

\* Mutant: the input is forgotten when the request is sized.
AffordableBlind(hint, est) == hint >= MinCompletion
Affordable(hint, est) == hint >= MinCompletion /\ est + OutputMj <= hint

\* Mutant: the whole hint goes into output tokens.
TokensOfWhole(hint, est) == hint \div OutputMj
MaxTokens(hint, est) ==
    IF (hint - est) \div OutputMj < 1 THEN 1 ELSE (hint - est) \div OutputMj

EnergyOf(usage) == usage.tin * InputMj + usage.tout * OutputMj

\* The usage objects a body may hold; none, or one that is not an object,
\* counts as no tokens at all.
Usages ==
    {u \in [tin : TokenCounts \cup {0}, tout : TokenCounts \cup {0}] :
        honest => u.tin <= Estimate(length) /\ u.tout <= sent}

\* Token counts are taken as they come; only Energy refuses a negative sum.
Priced == {u \in Usages : EnergyOf(u) >= 0}

-----------------------------------------------------------------------------

AdapterInit ==
    /\ LoopInit
    /\ honest \in BOOLEAN
    /\ length \in Lengths
    /\ sent = 0
    /\ asked = 0
    /\ billed = 0

Idle == UNCHANGED <<honest, length, sent, asked, billed>>

\* The messages of the next request hold those of the last.
Longer == {n \in Lengths : n >= length}

\* Mutant: the adapter holds back a request it cannot afford.
RefuseRequestRetried ==
    /\ pc = "waiting" /\ sent = 0
    /\ length' \in Longer
    /\ ~(HasKey /\ Affordable(budget, Estimate(length')))
    /\ UNCHANGED <<allVars, honest, sent, asked, billed>>

\* _max_tokens_for or the missing key refuse: nothing is sent or billed.
RefuseRequest ==
    /\ pc = "waiting" /\ sent = 0
    /\ length' \in Longer
    /\ ~(HasKey /\ Affordable(budget, Estimate(length')))
    /\ ProviderFails(0)
    /\ UNCHANGED <<honest, sent, asked, billed>>

SendRequest ==
    /\ pc = "waiting" /\ sent = 0 /\ HasKey
    /\ length' \in Longer
    /\ Affordable(budget, Estimate(length'))
    /\ sent' = MaxTokens(budget, Estimate(length'))
    /\ asked' = asked + 1
    /\ UNCHANGED <<allVars, honest, billed>>

\* Mutant: the adapter tries again by itself.
NoReplyRetried ==
    /\ sent # 0
    /\ sent' = 0
    /\ UNCHANGED <<allVars, honest, length, asked, billed>>

\* A timeout, a refused connection or a body that is not a JSON object: no
\* usage is known, whatever the vendor billed.
NoReply ==
    /\ sent # 0
    /\ ProviderFails(0)
    /\ sent' = 0
    /\ UNCHANGED <<honest, length, asked, billed>>

\* Mutant: the usage of a failed request is not looked at.
ErrorReplyUnbilled(usage) ==
    /\ sent # 0
    /\ ProviderFails(0)
    /\ billed' = billed + EnergyOf(usage)
    /\ sent' = 0
    /\ UNCHANGED <<honest, length, asked>>

\* 401, 429, 5xx and any other status but 200: the usage is billed if known
\* (absent and zero come to the same).
ErrorReply(usage) ==
    /\ sent # 0
    /\ ProviderFails(EnergyOf(usage))
    /\ billed' = billed + EnergyOf(usage)
    /\ sent' = 0
    /\ UNCHANGED <<honest, length, asked>>

\* 200: the completion, which the loop finds affordable or overrun.
Reply(usage, answered) ==
    /\ sent # 0
    /\ \/ ProviderOverran(EnergyOf(usage))
       \/ ProviderAnswers(EnergyOf(usage), answered)
    /\ billed' = billed + EnergyOf(usage)
    /\ sent' = 0
    /\ UNCHANGED <<honest, length, asked>>

\* A usage of negative energy, in a reply or an error: Energy raises ValueError,
\* and neither complete() nor the loop catches it.
BadUsage ==
    /\ sent # 0 /\ pc = "waiting"
    /\ \E usage \in Usages : EnergyOf(usage) < 0
    /\ pc' = "raised"
    /\ sent' = 0
    /\ UNCHANGED <<vars, mode, budget, calls, step, reason>>
    /\ UNCHANGED <<honest, length, asked, billed>>

AdapterStep ==
    \/ RefuseRequest \/ SendRequest \/ NoReply \/ BadUsage
    \/ \E usage \in Priced :
          \/ ErrorReply(usage)
          \/ \E answered \in UNION {[1..n -> ToolCalls] : n \in 0..MaxCalls} :
                Reply(usage, answered)
    \/ /\ \/ Seed \/ Listing \/ Dispatch \/ Complete
          \/ GiveUp("noCalls", "no_tool_calls")
          \/ GiveUp("rejected", "rejected")
          \/ GiveUp("maxSteps", "max_steps")
       /\ Idle

AdapterNext ==
    \/ AdapterStep
    \/ (LockedOut \/ SomebodyEdits) /\ Idle

\* A request that is out comes back: urlopen has a timeout.  It is one for each
\* operation on the socket, so that the vendor is taken not to trickle its
\* answer for ever.
AdapterSpec ==
    AdapterInit /\ [][AdapterNext]_adapterVars /\ WF_adapterVars(AdapterStep)

-----------------------------------------------------------------------------
(* Properties.                                                             *)

AdapterTypeOK ==
    /\ LoopTypeOK
    /\ honest \in BOOLEAN
    /\ length \in Lengths
    /\ sent \in 0..PerCallCeiling
    /\ asked \in Nat
    /\ billed \in Nat

\* A request that is out can be paid in full: the estimated input and every
\* output token it allows fit the hint and what is left in the world, which
\* nothing but this run's own proposals lowers ("binds the request to the
\* remaining budget before the network").
RequestsFit ==
    sent # 0 =>
        /\ Estimate(length) * InputMj + sent * OutputMj <= budget
        /\ budget <= acct.remaining

\* With a vendor that keeps to the request no run ever ends in
\* energy_bound_broken, and no plan costs more than the hint it was given.
BoundIsKept ==
    honest => /\ reason # "energy_bound_broken"
              /\ BilledWithinBudget

\* Every mj the vendor reported is in the log, as the charge of a Plan or as
\* what a Failed attempted, whether the reply was an answer, an error or an
\* overrun; only an exception that leaves the run may lose one.
BilledOf(e) ==
    IF e.op = "plan" THEN SpendFrom(e)
    ELSE IF e.attempted # NotAttempted THEN e.attempted ELSE 0
Bills(evs) == [i \in 1..Len(evs) |-> [delta |-> -BilledOf(evs[i])]]
Booked == Spent(Bills(events))
BillsAreBooked == pc # "raised" => Booked = billed

\* A run goes on to its next request only when the last one was answered by a
\* completion.  A request that timed out or failed is the last of its run, so
\* the log can lack one bill at most, and no retry hides a second.
OneBillUnknown ==
    /\ asked <= step + 1
    /\ ~Ended => asked = step + (IF sent = 0 THEN 0 ELSE 1)

\* The run ends, however broken the vendor is, and also when what is left does not
\* pay for one more request.
AdapterEnds == <>Ended
=============================================================================
