------------------------------- MODULE World --------------------------------
(***************************************************************************)
(* kernel/world.py: one open World and the directory it accounts for.      *)
(* Every call to propose runs under the store's lock from its first guard  *)
(* to its receipt, so here it is one action; Store.tla breaks the same     *)
(* call into its disk writes.  Each action takes the call's arguments,     *)
(* works out the verdict in the order the code tests things, and either    *)
(* commits or leaves the world as it was and returns the exception.        *)
(*                                                                         *)
(* Whoever else works in the directory is the action OutsideEdit.          *)
(***************************************************************************)
EXTENDS Kernel, FiniteSets

CONSTANTS
    Paths,          \* resolved locations inside the jail
    Place,          \* where Workspace.resolve sends an address, or:
    Illegal,        \*   Address() itself refuses the string
    Escapes,        \*   resolve refuses it: outside the root or in .spaceten
    Directory,      \* what a path that is a directory holds
    Missing,        \* what a path that does not exist holds
    Shared,         \* the paths somebody else works on too
    InitialFiles,   \* the directory when the world is created
    Cap,            \* energy_cap
    MaxWrite,       \* max_write_bytes
    Spends,         \* magnitudes tried as the spend argument
    MaxEvents       \* bound on the length of the log

ASSUME WorldAssumption ==
    /\ Illegal \notin Paths /\ Escapes \notin Paths
    /\ Place \in [Addrs -> Paths \cup {Illegal, Escapes}]
    /\ Directory \notin Contents /\ Missing \notin Contents
    /\ Directory # Missing /\ Directory # Nothing
    /\ InitialFiles \in [Paths -> Contents \cup {Directory, Missing}]
    /\ Shared \subseteq Paths
    /\ Cap \in Nat
    /\ MaxWrite \in Nat
    /\ Spends \subseteq Nat
    /\ MaxEvents \in Nat

VARIABLES
    events,         \* World._events, and events.jsonl behind it
    acct,           \* World._account
    cells,          \* World._cells: what the index says each address holds
    saved,          \* energy.json and cells.json
    files,          \* the directory: what each path holds
    nextId,         \* the id the IdFactory hands out next
    open,           \* an instance is loaded
    answer,         \* "ok", or the exception the last call raised
    balances,       \* history: the energy left after each event
    tampered        \* history: "no", or how an outside edit stands to the log

vars == <<events, acct, cells, saved, files, nextId, open, answer, balances,
          tampered>>

-----------------------------------------------------------------------------
(* Reading the state.                                                      *)

NoSpend == -1       \* spend is None
Answers == {"ok", "issues", "ValueError", "StaleParent", "OutsideSpace",
            "CellNotFound", "NotADirectoryError", "IsADirectoryError",
            "WriteTooLarge", "EnergyExhausted", "DirtySpace", "InvariantError"}
Jail == {a \in Addrs : Place[a] \in Paths}
Newest == events[Len(events)]            \* World.head
At(a) == IF a \in Jail THEN files[Place[a]] ELSE Missing
NoDigest(x) == Nothing                   \* mutant: Observe records no hash
CellDigest(x) == IF x = Directory THEN Nothing ELSE x
ObserveCost(x) == ReadCost(IF x = Directory THEN 0 ELSE SizeOf[x])

\* The addresses _dirty_space_issues reports.
DirtyAddrs ==
    {a \in Addrs : \E d \in Contents :
        /\ LastRecorded(events, a, d)
        /\ ~(a \in Jail /\ At(a) = d)}

\* What recover_writes finds dirty when nothing is staged (Store.tla has the
\* rest of it): the last Act at some address is not what its path holds.
Loadable ==
    \A i \in 1..Len(events) :
        IsLastAct(events, i) =>
            /\ events[i].addr \in Jail
            /\ At(events[i].addr) = events[i].digest

\* The issues check(rebuild=True) reports, by code.
CheckIssues ==
    LET rebuilt == ReplayAccount(events, Cap)
        issue(code, found) == IF found THEN {code} ELSE {}
    IN  issue("cache_drift", saved.acct # rebuilt \/ acct # rebuilt)
        \cup issue("dirty_space", DirtyAddrs # {})
        \cup issue("invariant", ~InvariantsHold(events, rebuilt, Jail))

-----------------------------------------------------------------------------
(* Verdicts: the guards of _propose and its handlers, in the code's order. *)

\* priced: the caller passed a spend, which only Plan and Failed take.
FinishVerdict(priced) == IF priced THEN "ValueError" ELSE "ok"

\* Mutant: Plan does not ask whether the energy is there.
PlanUnchecked(spend) == IF spend <= 0 THEN "ValueError" ELSE "ok"

PlanVerdict(spend) ==
    IF spend <= 0 THEN "ValueError"
    ELSE IF ~CanPay(acct, spend) THEN "EnergyExhausted"
    ELSE "ok"

FailedVerdict(spend) == IF spend = 0 THEN "ValueError" ELSE "ok"

ListVerdict(a, priced) ==
    IF priced THEN "ValueError"
    ELSE IF Place[a] = Illegal THEN "OutsideSpace"
    ELSE IF ~CanPay(acct, ListCost) THEN "EnergyExhausted"
    ELSE IF a \notin Jail THEN "OutsideSpace"
    ELSE IF At(a) = Missing THEN "CellNotFound"
    ELSE IF At(a) # Directory THEN "NotADirectoryError"
    ELSE "ok"

\* The file is read and hashed before its price is known.
ObserveVerdict(a, priced) ==
    IF priced THEN "ValueError"
    ELSE IF a \notin Jail THEN "OutsideSpace"
    ELSE IF At(a) = Missing THEN "CellNotFound"
    ELSE IF ~CanPay(acct, ObserveCost(At(a))) THEN "EnergyExhausted"
    ELSE "ok"

\* Mutant: the bytes are not compared with the declared digest.
ActUndigested(a, declared, data, priced) ==
    IF priced \/ data = Nothing THEN "ValueError"
    ELSE IF a \notin Jail THEN "OutsideSpace"
    ELSE IF At(a) = Directory THEN "IsADirectoryError"
    ELSE IF SizeOf[data] > MaxWrite THEN "WriteTooLarge"
    ELSE IF ~CanPay(acct, WriteCost(SizeOf[data])) THEN "EnergyExhausted"
    ELSE "ok"

\* declared is the digest and size the Act carries, data the bytes passed.
ActVerdict(a, declared, data, priced) ==
    IF priced \/ data = Nothing THEN "ValueError"
    ELSE IF a \notin Jail THEN "OutsideSpace"
    ELSE IF At(a) = Directory THEN "IsADirectoryError"
    ELSE IF SizeOf[data] > MaxWrite THEN "WriteTooLarge"
    ELSE IF ~CanPay(acct, WriteCost(SizeOf[data])) THEN "EnergyExhausted"
    ELSE IF declared # data THEN "ValueError"
    ELSE "ok"

-----------------------------------------------------------------------------
(* Committing.                                                             *)

Init ==
    /\ events = <<[id |-> 1, seq |-> 1, parent |-> NoId, delta |-> 0,
                   reason |-> "none", op |-> "init", addr |-> Nothing,
                   digest |-> Nothing, attempted |-> NotAttempted]>>
    /\ acct = FreshAccount(Cap)
    /\ cells = [a \in Addrs |-> Nothing]
    /\ saved = [acct |-> acct, cells |-> cells]
    /\ files = InitialFiles
    /\ nextId = 2
    /\ open = TRUE
    /\ answer = "ok"
    /\ balances = <<Cap>>
    /\ tampered = [p \in Paths |-> "no"]

\* Mutant: every event is a child of the first.
OrphanEvent(op, mj, reason, a, digest, attempted) ==
    [id |-> nextId, seq |-> Len(events) + 1, parent |-> events[1].id,
     delta |-> -mj, reason |-> reason, op |-> op, addr |-> a,
     digest |-> digest, attempted |-> attempted]

\* _new_event: the event that op becomes when it is committed next.
NewEvent(op, mj, reason, a, digest, attempted) ==
    [id |-> nextId, seq |-> Len(events) + 1, parent |-> Newest.id,
     delta |-> -mj, reason |-> reason, op |-> op, addr |-> a,
     digest |-> digest, attempted |-> attempted]

\* _commit, and the tail of _propose_act: log, debit, index, save the caches,
\* then check the invariants over the whole log.
Commit(event, cells2) ==
    /\ events' = Append(events, event)
    /\ acct' = Debit(acct, SpendFrom(event))
    /\ cells' = cells2
    /\ saved' = [acct |-> acct', cells |-> cells2]
    /\ nextId' = nextId + 1
    /\ balances' = Append(balances, acct'.remaining)
    /\ answer' = IF InvariantsHold(events', acct', Jail)
                 THEN "ok" ELSE "InvariantError"
    /\ UNCHANGED open

Refuse(verdict) ==
    /\ answer' = verdict
    /\ UNCHANGED <<events, acct, cells, saved, files, nextId, open, balances,
                   tampered>>

\* _propose, once the parent is found to be None or the head.
Propose(verdict, commit) ==
    /\ open
    /\ Len(events) < MaxEvents
    /\ IF verdict = "ok" THEN commit ELSE Refuse(verdict)

-----------------------------------------------------------------------------
(* The operations.                                                         *)

\* A parent other than the head is refused before the op is looked at, and
\* the Init event is World.init's alone.
ProposeStale(parent) == open /\ parent # Newest.id /\ Refuse("StaleParent")
ProposeInit == open /\ Refuse("ValueError")

ProposeFinish(priced) ==
    Propose(FinishVerdict(priced),
        /\ Commit(NewEvent("finish", 0, "none", Nothing, Nothing,
                           NotAttempted), cells)
        /\ UNCHANGED <<files, tampered>>)

ProposePlan(spend) ==
    Propose(PlanVerdict(spend),
        /\ Commit(NewEvent("plan", spend, "plan", Nothing, Nothing,
                           NotAttempted), cells)
        /\ UNCHANGED <<files, tampered>>)

\* Mutant: an overrun is not booked at all.
OverrunFree(spend) ==
    IF spend = NoSpend \/ spend > acct.remaining THEN 0 ELSE spend

\* The one op that may ask for more than is left: it takes what there is.
\* "noted" is the attempted_mj the caller put in the op: none, or the spend it
\* asks for, as every caller of propose does (agent/loop.py).
FailedDebit(spend) ==
    IF spend = NoSpend THEN 0
    ELSE IF spend < acct.remaining THEN spend ELSE acct.remaining
FailedAttempt(spend, noted) == IF spend > acct.remaining THEN spend ELSE noted

ProposeFailed(spend, noted) ==
    Propose(FailedVerdict(spend),
        /\ Commit(NewEvent("failed", FailedDebit(spend),
                           IF FailedDebit(spend) = 0 THEN "none" ELSE "plan",
                           Nothing, Nothing, FailedAttempt(spend, noted)),
                  cells)
        /\ UNCHANGED <<files, tampered>>)

ProposeList(a, priced) ==
    Propose(ListVerdict(a, priced),
        /\ Commit(NewEvent("observe", ListCost, "io", a, Nothing,
                           NotAttempted),
                  [cells EXCEPT ![a] = Directory])
        /\ UNCHANGED <<files, tampered>>)

ProposeObserve(a, priced) ==
    Propose(ObserveVerdict(a, priced),
        /\ Commit(NewEvent("observe", ObserveCost(At(a)), "io", a,
                           CellDigest(At(a)), NotAttempted),
                  [cells EXCEPT ![a] = At(a)])
        /\ tampered' = IF At(a) \in Contents /\ tampered[Place[a]] # "no"
                       THEN [tampered EXCEPT ![Place[a]] = "seen"]
                       ELSE tampered
        /\ UNCHANGED files)

ProposeAct(a, declared, data, priced) ==
    Propose(ActVerdict(a, declared, data, priced),
        /\ files' = [files EXCEPT ![Place[a]] = data]
        /\ Commit(NewEvent("act", WriteCost(SizeOf[data]), "io", a, declared,
                           NotAttempted),
                  [cells EXCEPT ![a] = data])
        /\ tampered' = [tampered EXCEPT ![Place[a]] = "no"])

\* replay: the account is rebuilt from the log in memory.
Replay ==
    /\ open
    /\ IF Replayable(events, Cap)
       THEN acct' = ReplayAccount(events, Cap) /\ answer' = "ok"
       ELSE answer' = "EnergyExhausted" /\ UNCHANGED acct
    /\ UNCHANGED <<events, cells, saved, files, nextId, open, balances,
                   tampered>>

\* check(rebuild=True): replay the log into the account, then report.
CheckRebuild ==
    /\ open
    /\ IF Replayable(events, Cap)
       THEN /\ acct' = ReplayAccount(events, Cap)
            /\ answer' = IF CheckIssues = {} THEN "ok" ELSE "issues"
       ELSE /\ answer' = "EnergyExhausted"
            /\ UNCHANGED acct
    /\ UNCHANGED <<events, cells, saved, files, nextId, open, balances,
                   tampered>>

\* The process ends and another loads the world: the account comes from the
\* log, the index from its cache, and an Act whose bytes are gone refuses it.
Reload ==
    /\ IF ~Loadable
       THEN /\ open' = FALSE
            /\ answer' = "DirtySpace"
            /\ UNCHANGED <<acct, cells>>
       ELSE IF ~Replayable(events, Cap)
       THEN /\ open' = FALSE
            /\ answer' = "EnergyExhausted"
            /\ UNCHANGED <<acct, cells>>
       ELSE /\ acct' = ReplayAccount(events, Cap)
            /\ cells' = saved.cells
            /\ open' = InvariantsHold(events, acct', Jail)
            /\ answer' = IF open' THEN "ok" ELSE "InvariantError"
    /\ UNCHANGED <<events, saved, files, nextId, balances, tampered>>

\* Anyone else with access to the directory: an editor, a script, git.
OutsideEdit(p, x) ==
    /\ files[p] # x
    /\ files' = [files EXCEPT ![p] = x]
    /\ tampered' = [tampered EXCEPT ![p] = "unseen"]
    /\ UNCHANGED <<events, acct, cells, saved, nextId, open, answer, balances>>

Next ==
    \/ \E i \in 1..Len(events) : ProposeStale(events[i].id)
    \/ ProposeInit
    \/ \E spend \in Spends \cup {NoSpend} :
          \/ ProposePlan(spend)
          \/ \E noted \in {NotAttempted, spend} : ProposeFailed(spend, noted)
    \/ \E priced \in BOOLEAN :
          \/ ProposeFinish(priced)
          \/ \E a \in Addrs :
                \/ ProposeList(a, priced)
                \/ ProposeObserve(a, priced)
                \/ \E declared \in Contents, data \in Contents \cup {Nothing} :
                      ProposeAct(a, declared, data, priced)
    \/ Replay
    \/ CheckRebuild
    \/ Reload
    \/ \E p \in Shared, x \in Contents \cup {Directory, Missing} : OutsideEdit(p, x)

Spec == Init /\ [][Next]_vars

-----------------------------------------------------------------------------
(* Properties.                                                             *)

\* Every variable holds what its Python counterpart may hold.
TypeOK ==
    /\ events \in Seq(EventType) /\ Len(events) >= 1
    /\ acct \in [cap : {Cap}, spent : Nat, remaining : Nat]
    /\ cells \in [Addrs -> Contents \cup {Directory, Nothing}]
    /\ saved \in [acct : [cap : {Cap}, spent : Nat, remaining : Nat],
                  cells : [Addrs -> Contents \cup {Directory, Nothing}]]
    /\ files \in [Paths -> Contents \cup {Directory, Missing}]
    /\ nextId \in Nat \ {NoId}
    /\ open \in BOOLEAN
    /\ answer \in Answers
    /\ balances \in Seq(Nat)
    /\ tampered \in [Paths -> {"no", "seen", "unseen"}]

\* The log alone determines the account: the balance after each event is the
\* one before it less the event's charge, starting from the cap and ending at
\* what the account says is left, and the charges add up to what it says is
\* spent, whatever mixture of refusals, clamped Failed charges, checks and
\* reloads came in between (I1, I2, I3; Receipt.remaining is a balance).
EnergyAddsUp ==
    /\ Len(balances) = Len(events)
    /\ balances[1] = Cap
    /\ \A i \in 2..Len(events) : balances[i] = balances[i - 1] + events[i].delta
    /\ balances[Len(events)] = acct.remaining
    /\ AccountHolds(events, acct)

\* The log is one chain: ids never repeat, seq counts from 1 without a gap,
\* each parent is the event before, every event keeps the energy contract its
\* own validator enforces, and no address outside the jail was ever committed
\* (I4 to I7).
OneChain ==
    /\ LogHolds(events, Jail)
    /\ \A i \in 1..Len(events) : EnergyContract(events[i])

\* _assert_invariants runs after the event is already on disk and the energy
\* gone, so it must never have anything to report.
SelfCheckSilent == answer # "InvariantError"

\* check(rebuild=True) can never blame the kernel's own work: it finds no
\* cache drift and no broken invariant, and it calls a file dirty only if
\* somebody else changed it after the log last recorded its bytes.
CheckBlamesOutsiders ==
    /\ CheckIssues \subseteq {"dirty_space"}
    /\ \A a \in DirtyAddrs : tampered[Place[a]] = "unseen"

\* World.load refuses a directory only if somebody else changed a file after
\* the last Act on it (a later Observe does not make it loadable again).
LoadBlamesOutsiders ==
    ~Loadable => \E p \in Paths : tampered[p] # "no"

\* The cell index is derived state: a digest in it is the digest the last
\* event that recorded one at that address recorded.
IndexFollowsLog ==
    \A a \in Addrs :
        cells[a] \in Contents => LastRecorded(events, a, cells[a])

\* attempted_mj larger than the charge is the trace of an overrun: a Failed
\* that asked for more than was left took everything, and nothing after it
\* ever cost anything.
OverrunDrains ==
    \A i \in 1..Len(events) :
        events[i].attempted > SpendFrom(events[i]) =>
            \A j \in i..Len(events) : balances[j] = 0

\* With no energy left nothing is observed, planned or written any more: only
\* the free events that close a run are still committed.
NoWorkUnpaid ==
    [][acct.remaining = 0 /\ events' # events =>
          /\ events'[Len(events')].op \in {"finish", "failed"}
          /\ acct' = acct /\ files' = files]_vars

\* World implements the ledger.
Charges == [i \in 1..Len(events) |-> SpendFrom(events[i])]
Promise == INSTANCE Ledger WITH charges <- Charges, balance <- acct.remaining
LedgerSpec == Promise!LedgerSpec
=============================================================================
