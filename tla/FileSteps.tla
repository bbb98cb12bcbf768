------------------------------ MODULE FileSteps -----------------------------
(***************************************************************************)
(* _propose_observe and _propose_act (kernel/world.py), each step of which *)
(* looks at the directory or changes it an action of its own.  The lock    *)
(* keeps other worlds out of the call, so one call at a time is under way; *)
(* it does not keep anybody out of the directory: between two steps files  *)
(* are edited and symbolic links retargeted.  World.tla has the same calls *)
(* undisturbed, Store.tla their crashes.                                   *)
(***************************************************************************)
EXTENDS Kernel

CONSTANTS
    Paths,          \* resolved locations inside the jail
    Escapes,        \* resolve refuses: outside the root, or the kernel's own
    Directory,      \* what a path that is a directory holds
    Missing,        \* what a path that does not exist holds
    Targets,        \* where the links on the way to an address may lead it
    InitialTarget,  \* where each address leads at first
    InitialFiles,
    Held,           \* what outsiders leave at a path
    Cap,            \* energy_cap
    MaxWrite,       \* max_write_bytes
    MaxEvents,      \* bound on the length of the log
    MaxMeddling     \* bound on the edits and relinks of one call

ASSUME FileStepsAssumption ==
    /\ Escapes \notin Paths
    /\ Directory \notin Contents /\ Missing \notin Contents /\ Directory # Missing
    /\ Targets \in [Addrs -> SUBSET (Paths \cup {Escapes})]
    /\ InitialTarget \in [Addrs -> Paths \cup {Escapes}]
    /\ InitialFiles \in [Paths -> Contents \cup {Directory, Missing}]
    /\ Held \subseteq Contents \cup {Directory, Missing}
    /\ Cap \in Nat /\ MaxWrite \in Nat
    /\ MaxEvents \in Nat /\ MaxMeddling \in Nat

VARIABLES
    files,          \* the directory: what each path holds
    target,         \* where resolve sends each address
    events,         \* World._events and the log
    acct,           \* World._account
    cells,          \* World._cells
    pc,             \* the step the call takes next, "idle" between calls
    call,           \* its arguments and what it has looked at so far
    answer,         \* how the last call ended: "ok" or the exception
    bytesRead,      \* Receipt.bytes_read
    meddling,       \* history: edits and relinks since the call began
    strayed,        \* history: somebody led a link out of the jail
    unpaid          \* history: an Act was logged and could not be put in place

dirVars == <<files, target>>
worldVars == <<events, acct, cells>>
historyVars == <<meddling, strayed, unpaid>>
stepVars == <<dirVars, worldVars, pc, call, answer, bytesRead, historyVars>>

NoCall == [op |-> "none", addr |-> Nothing, data |-> Nothing, dest |-> Escapes,
           cell |-> Missing, bytes |-> Nothing, before |-> 0]

StepsInit ==
    /\ files = InitialFiles /\ target = InitialTarget
    /\ events = <<[id |-> 1, seq |-> 1, parent |-> NoId, delta |-> 0,
                   reason |-> "none", op |-> "init", addr |-> Nothing,
                   digest |-> Nothing, attempted |-> NotAttempted]>>
    /\ acct = FreshAccount(Cap)
    /\ cells = [a \in Addrs |-> Nothing]
    /\ pc = "idle" /\ call = NoCall /\ answer = "ok" /\ bytesRead = Nothing
    /\ meddling = 0 /\ strayed = FALSE /\ unpaid = FALSE

-----------------------------------------------------------------------------
(* Looking at the directory.                                               *)

InJail == {a \in Addrs : target[a] \in Paths}
Found(a) == IF a \in InJail THEN files[target[a]] ELSE Missing
Digest(x) == IF x \in Contents THEN x ELSE Nothing
ObserveQuote(x) == ReadCost(IF x = Directory THEN 0 ELSE SizeOf[x])

\* What resolve, or a look at what is there, raises: "ok" for nothing.
LookVerdict(a) ==
    IF a \notin InJail THEN "OutsideSpace"
    ELSE IF Found(a) = Missing THEN "CellNotFound"
    ELSE "ok"

-----------------------------------------------------------------------------
(* The end of a call, and its event.                                       *)

Answer(verdict) == pc' = "idle" /\ answer' = verdict
Refusal(verdict) ==
    Answer(verdict) /\ bytesRead' = Nothing
        /\ UNCHANGED <<dirVars, worldVars, call, historyVars>>
Onward(label) ==
    pc' = label /\ UNCHANGED <<dirVars, worldVars, answer, bytesRead, historyVars>>

Logged(op, mj, digest) ==
    Append(events,
        [id |-> Len(events) + 1, seq |-> Len(events) + 1, parent |-> Len(events),
         delta |-> -mj, reason |-> "io", op |-> op, addr |-> call.addr,
         digest |-> digest, attempted |-> NotAttempted])

\* _assert_invariants resolves every address of the log again (I7).
Verdict(evs, account) ==
    IF InvariantsHold(evs, account, InJail) THEN "ok" ELSE "InvariantError"

Begin(op, a, data) ==
    /\ pc = "idle" /\ Len(events) < MaxEvents
    /\ call' = [NoCall EXCEPT !.op = op, !.addr = a, !.data = data,
                              !.before = Len(events)]
    /\ meddling' = 0 /\ pc' = op
    /\ UNCHANGED <<dirVars, worldVars, answer, bytesRead, strayed, unpaid>>

-----------------------------------------------------------------------------
(* Observe of a file: hash it, price it, read it again, commit.            *)

ObserveLook ==
    /\ pc = "observe"
    /\ LET a == call.addr
           verdict == IF LookVerdict(a) # "ok" THEN LookVerdict(a)
                      ELSE IF ~CanPay(acct, ObserveQuote(Found(a)))
                      THEN "EnergyExhausted" ELSE "ok"
       IN  IF verdict # "ok" THEN Refusal(verdict)
           ELSE /\ call' = [call EXCEPT !.cell = Found(a)]
                /\ Onward(IF Found(a) = Directory THEN "commit" ELSE "reread")

ObserveReread ==
    /\ pc = "reread"
    /\ LET a == call.addr
           verdict == IF LookVerdict(a) # "ok" THEN LookVerdict(a)
                      ELSE IF Found(a) = Directory THEN "IsADirectoryError"
                      ELSE "ok"
       IN  IF verdict # "ok" THEN Refusal(verdict)
           ELSE call' = [call EXCEPT !.bytes = Found(a)] /\ Onward("commit")

\* Observe of a listing: price it, list it, look at it, commit.
ListDirectory ==
    /\ pc = "list"
    /\ LET a == call.addr
           verdict == IF ~CanPay(acct, ListCost) THEN "EnergyExhausted"
                      ELSE IF LookVerdict(a) # "ok" THEN LookVerdict(a)
                      ELSE IF Found(a) # Directory THEN "NotADirectoryError"
                      ELSE "ok"
       IN  IF verdict # "ok" THEN Refusal(verdict)
           ELSE Onward("listed") /\ UNCHANGED call

ListLook ==
    /\ pc = "listed"
    /\ IF LookVerdict(call.addr) # "ok" THEN Refusal(LookVerdict(call.addr))
       ELSE call' = [call EXCEPT !.cell = Found(call.addr)] /\ Onward("commit")

\* _commit of an Observe.  Mutant: what is logged is what was read last.
CommitReread ==
    /\ pc = "commit"
    /\ LET mj == IF call.op = "list" THEN ListCost ELSE ObserveQuote(call.cell)
           digest == IF call.op = "list" THEN Nothing ELSE call.bytes
       IN  /\ events' = Logged("observe", mj, digest)
           /\ acct' = Debit(acct, mj)
    /\ cells' = [cells EXCEPT ![call.addr] = call.cell]
    /\ Answer(Verdict(events', acct')) /\ bytesRead' = call.bytes
    /\ UNCHANGED <<dirVars, call, historyVars>>
CommitObserve ==
    /\ pc = "commit"
    /\ LET mj == IF call.op = "list" THEN ListCost ELSE ObserveQuote(call.cell)
           digest == IF call.op = "list" THEN Nothing ELSE Digest(call.cell)
       IN  /\ events' = Logged("observe", mj, digest)
           /\ acct' = Debit(acct, mj)
    /\ cells' = [cells EXCEPT ![call.addr] = call.cell]
    /\ Answer(Verdict(events', acct')) /\ bytesRead' = call.bytes
    /\ UNCHANGED <<dirVars, call, historyVars>>

-----------------------------------------------------------------------------
(* Act: settle the destination and stage, log, replace, debit, look.       *)

ActResolve ==
    /\ pc = "act"
    /\ LET a == call.addr
           verdict == IF a \notin InJail THEN "OutsideSpace"
                      ELSE IF Found(a) = Directory THEN "IsADirectoryError"
                      ELSE IF SizeOf[call.data] > MaxWrite THEN "WriteTooLarge"
                      ELSE IF ~CanPay(acct, WriteCost(SizeOf[call.data]))
                      THEN "EnergyExhausted" ELSE "ok"
       IN  IF verdict # "ok" THEN Refusal(verdict)
           ELSE call' = [call EXCEPT !.dest = target[a]] /\ Onward("append")

ActAppend ==
    /\ pc = "append"
    /\ events' = Logged("act", WriteCost(SizeOf[call.data]), call.data)
    /\ pc' = "replace"
    /\ UNCHANGED <<dirVars, acct, cells, call, answer, bytesRead, historyVars>>

\* os.replace goes where the address led at first, and fails on a directory.
\* Mutant: the debit is forgotten.
ActReplaceFree ==
    /\ pc = "replace"
    /\ IF files[call.dest] = Directory
       THEN /\ Answer("OSError") /\ unpaid' = TRUE /\ bytesRead' = Nothing
            /\ UNCHANGED files
       ELSE /\ files' = [files EXCEPT ![call.dest] = call.data]
            /\ pc' = "look"
            /\ UNCHANGED <<answer, unpaid, bytesRead>>
    /\ UNCHANGED <<target, events, acct, cells, call, meddling, strayed>>
ActReplace ==
    /\ pc = "replace"
    /\ IF files[call.dest] = Directory
       THEN /\ Answer("OSError") /\ unpaid' = TRUE /\ bytesRead' = Nothing
            /\ UNCHANGED <<files, acct>>
       ELSE /\ files' = [files EXCEPT ![call.dest] = call.data]
            /\ acct' = Debit(acct, WriteCost(SizeOf[call.data]))
            /\ pc' = "look"
            /\ UNCHANGED <<answer, unpaid, bytesRead>>
    /\ UNCHANGED <<target, events, cells, call, meddling, strayed>>

\* observe(addr) resolves the address again; what it raises leaves propose,
\* with the event logged and paid for.  Mutant: the index is not told.
ActLookUnindexed ==
    /\ pc = "look"
    /\ bytesRead' = Nothing
    /\ Answer(IF LookVerdict(call.addr) # "ok" THEN LookVerdict(call.addr)
              ELSE Verdict(events, acct))
    /\ UNCHANGED <<dirVars, worldVars, call, historyVars>>
ActLook ==
    /\ pc = "look"
    /\ bytesRead' = Nothing
    /\ IF LookVerdict(call.addr) # "ok"
       THEN Answer(LookVerdict(call.addr)) /\ UNCHANGED cells
       ELSE /\ cells' = [cells EXCEPT ![call.addr] = Found(call.addr)]
            /\ Answer(Verdict(events, acct))
    /\ UNCHANGED <<dirVars, events, acct, call, historyVars>>

-----------------------------------------------------------------------------
(* Whoever else works in the directory.                                    *)

OutsideEdit(p, x) ==
    /\ meddling < MaxMeddling /\ files[p] # x
    /\ files' = [files EXCEPT ![p] = x]
    /\ meddling' = meddling + 1
    /\ UNCHANGED <<target, worldVars, pc, call, answer, bytesRead, strayed, unpaid>>

Relink(a, t) ==
    /\ meddling < MaxMeddling /\ target[a] # t
    /\ target' = [target EXCEPT ![a] = t]
    /\ meddling' = meddling + 1 /\ strayed' = (strayed \/ t = Escapes)
    /\ UNCHANGED <<files, worldVars, pc, call, answer, bytesRead, unpaid>>

StepsNext ==
    \/ \E a \in Addrs :
          \/ Begin("observe", a, Nothing) \/ Begin("list", a, Nothing)
          \/ \E data \in Contents : Begin("act", a, data)
          \/ \E t \in Targets[a] : Relink(a, t)
    \/ \E p \in Paths, x \in Held : OutsideEdit(p, x)
    \/ ObserveLook \/ ObserveReread \/ ListDirectory \/ ListLook \/ CommitObserve
    \/ ActResolve \/ ActAppend \/ ActReplace \/ ActLook

StepsSpec == StepsInit /\ [][StepsNext]_stepVars

-----------------------------------------------------------------------------
(* Properties.                                                             *)

\* The file an Observe hashes, prices and reads may be three different files
\* by the time it commits: the charge is still the price of the bytes whose
\* digest is logged, and the account has paid for the whole log, Acts whose
\* file was gone again at the last look included; the one exception is an Act
\* that os.replace refused.
PricedAsLogged ==
    /\ \A i \in 1..Len(events) :
          LET e == events[i]
          IN  e.op = "observe" /\ e.digest # Nothing =>
                  SpendFrom(e) = ReadCost(SizeOf[e.digest])
    /\ pc = "idle" /\ ~unpaid => Spent(events) = acct.spent

\* What a call tells its caller is wrong only if somebody meddled with the
\* directory while it ran.  Left alone, a refused call logged nothing, and
\* the digest an accepted one logged, the cell in the index, the bytes it
\* returned and the bytes on disk are the same.
OnlyMeddlingMisleads ==
    pc = "idle" /\ call # NoCall /\ meddling = 0 =>
        LET e == events[Len(events)]
        IN  IF answer \notin {"ok", "InvariantError"}
            THEN Len(events) = call.before
            ELSE /\ Len(events) = call.before + 1
                 /\ e.digest = (IF call.op = "list" THEN Nothing
                                ELSE Digest(Found(call.addr)))
                 /\ cells[call.addr] = Found(call.addr)
                 /\ call.op = "observe" => bytesRead = e.digest

\* The self check after the commit fires only because somebody led a link out
\* of the jail (I7 is evaluated for every address of the log, at each commit)
\* or an Act was logged and could be neither put in place nor paid; edits,
\* removals and links moved inside the jail never make a commit an error.
SelfCheckBlamesLinks == answer = "InvariantError" => strayed \/ unpaid
=============================================================================
