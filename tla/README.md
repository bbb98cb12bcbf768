# SpaceTEN: formal models, checks and proofs

SpaceTEN keeps a *world*: a directory, an append-only log of what was done to
it, and an energy account that every read, write and model call is charged to.
This directory holds TLA+ models of that program, the TLC configurations that
check them on small instances, and theorems checked by TLAPS. Paths below are
relative to `src/src/spaceten/` unless they begin with `docs/` or `tests/`.

## 1. Inventory

| Component | State it keeps | Operations | What makes it correct |
|---|---|---|---|
| Kernel functions (`kernel/energy.py`, `event.py`, `invariant.py`) | none | price table, debit, `spend_from`, `invariant_issues` | prices exact at block boundaries; replay equals the live debits; I1 to I7 |
| World (`kernel/world.py`) | events, account, cell index (memory); caches | `init`, `load`, `propose` (Observe, Plan, Act, Finish, Failed), `check`, `replay` | energy adds up, the log is one chain, refusals change nothing, the self check never fires, files blamed only on outsiders |
| Workspace (`kernel/space.py`) | the directory | `resolve`, `observe`, `read`, `list_dir` | only locations inside the jail |
| JsonlStore (`store/jsonl.py`, `state.py`, `lock.py`) | `events.jsonl`, `world.json`, `energy.json`, `cells.json`, `tmp/*.part`, the flock | `append`, `load_events`, repair, `stage_write`/`commit_write`, `recover_writes`, caches, `lock` | crash at any system call loses no receipt and no byte; lock always given back |
| MemoryStore (`store/memory.py`) | the same in RAM | the same | used by tests only |
| Agent loop and tools (`agent/`) | conversation, step counter | `run`, `plan`, four tools | every run ends and is explained by the log; work only after a paid plan |
| Providers (`providers/`) | none | `complete` | bill within the hint; every bill known is booked |
| Contest (`contest/`) | none of its own: step files and the world's log | `step`, `finish`, `observe`; `verify` (load, check, read log and files again), parse, board, pack, leaderboard | ok exactly of the runs that keep the rules; judged on bytes the log vouches for; the score adds up |
| CLI (`cli/`) | none | one command per operation; lock-free `status`/`log`/`ledger` | what was shown was true and stays true; readers never wait |

How they interact. A caller (CLI, agent loop) holds a `World` and calls
`propose`; `propose` takes the store's file lock, checks the arguments against
its *in-memory* events and account, appends to the log, changes the file (Act),
debits, writes two caches, and runs `invariant_issues` over everything. The
loop calls the provider *outside* the lock and then proposes what came back.
Processes share nothing but the directory and the lock. Anybody can edit the
directory.

Hard parts: a crash between any two disk writes and during recovery; a system
call that fails in the middle of an Act; a second process whose memory is old;
an edit from outside between any two steps; provider bills that come after the
fact; addresses that are different strings for one file; files and links that
change between two looks of one call; readers and the contest's judge, who look
several times without the lock. `PROJECT.json` ("hazards") lists them at their
lines with the properties that cover them.

## 2. Modules

| Module | Models | Composition |
|---|---|---|
| `Kernel` | price table, account, events, replay, I1 to I7: operators, no state | extended by all but `Anagrams` |
| `Ledger` | abstract promise: a growing list of charges and a falling balance | implemented by `World` and `Store` |
| `World` | one open world and its directory, one action per call | instance of `Ledger` |
| `FileSteps` | Observe, listing and Act, one file access at a time, with a directory that changes in between | extends `Kernel` |
| `Store` | the same calls broken into disk steps, several processes, faults | instance of `Ledger` |
| `Reader` | the lock-free snapshot of the CLI beside the writers of `Store` | extends `Store` |
| `AgentLoop` | `run`, `plan` and the tools over `World`'s actions, any provider | extends `World` |
| `Adapter` | `providers/spacexai.py` as the provider of `AgentLoop` | extends `AgentLoop` |
| `Anagrams` | letters, step and solution files, the judge's board: operators, no state | extended by `Contest` |
| `Contest` | players' commands and the judge over `World` | extends `World`, `Anagrams`; a second instance of `World` is the judge's |
| `MCWorld`, `MCFileSteps`, `MCStore`, `MCReader`, `MCAgentLoop`, `MCAdapter`, `MCContest` | constants for TLC | |
| `KernelProofs`, `WorldProofs`, `FileStepsProofs`, `LoopProofs`, `AdapterProofs`, `StoreProofs`, `StoreAgreementProofs`, `ContestProofs` | theorems | each extends the module it is about; `StoreProofs` also `Reader` |

### Kernel
Contents of files are members of a set `Contents` with a size each; the sha256
digest of a content is the content itself (the hash is taken as injective). An
event is a record `[id, seq, parent, delta, reason, op, addr, digest,
attempted]`; text, token counts, clock and actor take part in no rule and are
left out. `SpentUpTo` is the running sum behind `sum(spend_from(e))`;
`_replay_account` raises at the first debit that does not fit, which under the
energy contract is exactly when the total does not fit (theorem
`ReplayStopsNowhereElse`), so `Replayable` compares the total.

### World
`events`, `acct`, `cells` are `_events`, `_account`, `_cells`; `saved` is the
two cache files; `files` the directory, by resolved location; `nextId` the id
factory; `open` whether an instance is loaded; `answer` how the last call
ended. `balances` and `tampered` are history variables no action reads (except
to update them): the energy left after each event, and per path whether
somebody edited it and whether that was observed since. Each operation has a
*verdict* (its guards and raises, in the code's order) and a commit; when the
verdict is not `"ok"` nothing but `answer` changes. The whole `propose` runs
under the lock, so here it is one step. `Reload` is the end of the process
followed by `World.load`; the parts of it that matter after a crash are in
`Store`. `Place` maps an address string to where `Workspace.resolve` sends it,
or to `Illegal` (`Address()` refuses) or `Escapes` (`resolve` refuses); it does
not change during a behaviour. The parent directories that an Act makes
(`dest.parent.mkdir`) and its reading back of the file after the replace are
not separate steps here: `FileSteps` has them.

### FileSteps
`target` is where `Workspace.resolve` sends an address *now*; links are
retargeted (`Relink`) and files edited between any two steps of a call. `pc` is
the step the call takes next: an Observe hashes and prices (`ObserveLook`),
opens the file again (`ObserveReread`) and commits; a listing is priced and
taken, then looked at; an Act settles its destination, appends, replaces and
pays, and resolves the address once more to index what it wrote. `call` keeps
what the call has seen so far. `meddling`, `strayed` and `unpaid` are history
variables: how often others interfered in this call, whether a link ever led
out of the jail, and whether `os.replace` ever failed. The lock keeps out other
calls, so there is one at a time.

### Store
One action per step that reaches the disk or the lock. `log` is a list of
lines, each the list of the *pieces* written to it (a whole event or `Torn`),
and `ended` whether the last line has its newline: two pieces on one line do
not parse. `pc` says where each process is: opening (init or load), in a call,
idle with an open world, or out. `call` is the call in progress, `todo` the last
Acts `recover_writes` has still to look at, `staged` the `.part` files. A call is
a Plan, an Act, a Finish, a Failed with or without a spend, or an Observe of a
file, which indexes what it saw; a listing and an Observe of a directory reach
the disk as a Plan does and index no digest. A call that would be refused by its
guards, or that finds the lock held, changes nothing and is no step. `Found` is
what the files hold before there is a world. `LoadBegin` makes `.spaceten`, as
taking the lock does. Faults: `Interrupt` (a crash between two steps, or an
`OSError` from the next one), `InterruptStage` (part of the payload, or all of
it), `InterruptAppend` (part of the line, the line without its newline, or all
of it). `atomic_write` is one step: its temporary file is never read.

### Reader
One snapshot per behaviour: `_require_world` and the header, then the log
(`skip_torn`), then the caches, with steps of `Store` in between. `view` is what
was read, `known` which events had been acknowledged when it began.

### AgentLoop
`pc` is the place in `run`/`plan`; `budget` the hint of the request that is
out, `calls` the tool calls still to dispatch. Every propose is the `World`
action with the arguments the code passes, and what it answers decides where
the loop goes (`TakeResult`). `Listing` is the second, unlocked `list_dir` of
the tool. `LockedOut` is `WorldLocked` from a propose.

### Adapter
`length` is the length of the serialized messages, `sent` the
`max_output_tokens` of the request that is out, `asked` and `billed` a history of
the requests sent and of every bill received, `honest` whether the vendor keeps to
the request. A reply becomes one of the loop's three provider actions, or, when
its token counts make a negative sum that `Energy` refuses, an exception that
leaves the run (`BadUsage`).

### Anagrams and Contest
A step file is a list of typed lines (`LinesOf` of a content): `key: t, t, ...`,
list items, equations, and lines that are none of these, each with the texts
between its commas; `ParseStep` and `ParseSolution` decide over them as
`contest/parse.py` does, and `ApplyMove` on the board as `_apply_move`. A value is
the list of its lines, because the three readers of a value that `parse_step` has
joined with newlines differ: `_word_list` takes one word a line, `parse_letter_list`
knows commas but not newlines and refuses two items with no comma between them,
and `normalize_name` puts a name written over several lines together again
(`Broken` lists the ways to do so). Splitting text into lines and stripping it is
left out.
`PlayedUpTo` is the loop of the judge over the log's Acts, as a recursive function
of how far it has come. The contest's key is not typed in: letters alone settle
which words a name is made of (`LettersDecide`, which `Anagrams` assumes;
`MCContest` has TLC check it of the `TERMS`, `NAMES` and `PAIRS` of
`contest/anagrams.py`).
`Contest` has a process per command, which loads the world (or is refused with
`DirtySpace`) and proposes. The judge takes three steps: `JudgeLoad`,
`JudgeCheck` (`check(rebuild=True)`, on the events it loaded and today's files)
and `JudgeReport` (log and step files read again). Others commit and edit in
between; `raced` remembers what they did. The step files are read one by one in
the code and in one action here.

### Operators marked "mutant"
Some definitions are marked `Mutant` and are used by no specification: each is
a broken variant of the definition that follows it, the way a bug in that code
would look. Put in its place, it makes the property named in `PROJECT.json`
("mutants") fail, which shows that the property can fail.

## 3. Runs

Passing runs:

| Run | Config | Shows |
|---|---|---|
| `world` | `MCWorld.cfg` | the account, the chain, the index and the directory stay consistent under every operation, legal or not, with outside edits; `World` implements `Ledger` |
| `file_steps` | `MCFileSteps.cfg` | one file access at a time under edits and retargeted links: the charge is that of the digest logged, and wrong answers or a failing self check have somebody else to blame |
| `store` | `MCStore.cfg` | up to two crashes anywhere, also during recovery and repair: nothing acknowledged is lost, load is refused for nothing but a torn tail; the log implements `Ledger` |
| `readers` | `MCReader.cfg` | two processes with the world open, writing and observing, one of which may be killed, and a lock-free reader between their steps |
| `agent_loop` | `MCAgentLoop.cfg` | runs end, say the truth, and are paid for |
| `adapter` | `MCAdapter.cfg` | requests fit, an honest vendor never breaks the bound, bills are booked, at most one bill of a run is unknown |
| `contest` | `MCContest.cfg` | an ok verdict is exactly a run that keeps the rules, on bytes the log vouches for, also when others race the judge, when steps are overwritten and when a word is extracted again |

Runs that end in a counterexample, each a statement of the repository's own
documents or tests that the code does not keep:

| Run | Property | What happens |
|---|---|---|
| `world_alias` | `LoadBlamesOutsiders` | `recover_writes` and `_dirty_space_issues` key by the address *string*. Write one file under two spellings and `load` refuses the world, although the test of overwriting (`tests/test_store.py:217`) expects a later Act to win |
| `store_stale` | `LogIsOneChain` | `propose` locks but does not read the log again; two open worlds take turns and commit the same `seq` and parent (`docs/DESIGN.md:432`, `:1360`) |
| `store_newline` | `AckedDurable` | a crash after the last byte of a line and before its newline is not seen; the next event is written on the same line and the repair drops both (`docs/DESIGN.md:1275`) |
| `store_error` | `NeverOverspent` | `os.replace` fails after the event is logged and before the debit; the caller goes on and the log overspends (`docs/DESIGN.md:610`) |
| `loop_budget` | `BilledWithinBudget` | the bill is compared with what remains, not with the hint (`docs/DESIGN.md:602`) |

### Known divergences without a run
- When the write of a line fails half way (a full disk), the `OSError` leaves
  `propose` and the caller goes on with the same World; `append` opens the log
  with `"ab"` (`store/jsonl.py:59`), so the next event, whose receipt is returned,
  is written behind the half line and no load finds it. This is the cause of
  `store_newline` again; `MCStoreError.cfg` with `Spends = {2}`,
  `Tears = {"part"}` and `AckedDurable` in place of its invariant shows it.
- After a crash between an Act and `save_caches`, the index is not told of the
  file that `recover_writes` restores, and `cells.json` stays behind until the
  next Observe, while `docs/DESIGN.md:830` calls it derived. `ReceiptsCached`
  speaks of runs without a crash where the index is concerned.
- "Every run ends in `Finish` or `Failed`" (`docs/DESIGN.md:67`), but three things
  leave `run` as an exception that nothing in it catches: a completion that cost
  nothing (no usage object, or one without tokens), which `_complete` proposes as
  a Plan of zero and the kernel refuses with a `ValueError` (`agent/loop.py:101`,
  `kernel/world.py:303`); a held lock (`store/lock.py:28`), from any proposal; and
  a directory that is gone before `list_dir` lists it a second time
  (`agent/tools.py:145`). The model takes all three and puts the run at
  `"raised"`. `RunMatchesLog` then says that the log claims no end, and the
  theorems `RunsKeepTheWorld` and `RunsBlameOutsiders` say what holds of the
  world such a run leaves.
- `World.load` of a directory that has no world raises `FileNotFoundError`, but
  taking the lock has made `.spaceten` by then (`store/lock.py:21`), and from then
  on `World.init` refuses the directory with `WorldExists`. `LoadBegin` takes the
  step; no document promises otherwise, and no property excludes it.

### Bounds, and why they suffice
- `world`: three payloads (one block, two blocks at 4097 bytes, and one over
  `MaxWrite`); four addresses (plain file, directory, escaping, illegal); spends
  0, 2 and 7 around a cap of 6, so that zero, exact and too much all occur;
  `MaxEvents = 5`. Four proposals are enough for write, outside edit, observe,
  overwrite and for a drained account that is asked for more; the theorems of
  section 5 remove the bound.
- `file_steps`: a plain address and one behind a link that may lead to a file, to
  a directory or out of the jail; payloads of one block, of two and over the
  limit; a cap of 6, so that three calls may exhaust it; `MaxEvents = 3` (Init and
  two calls, the second of which sees what the first left), `MaxMeddling = 2`
  edits or relinks per call: one to change what the call saw and one to change it
  back. The theorems remove all these bounds.
- `store`: one process at a time (`OneAtATime`: the user opens the world in
  another process only after the first has ended), two files, of which one is found
  with one payload and the other does not exist, two payloads, spends 2 and 3 (and none) for Plan and Failed
  under a cap of 6, so that a Failed may be exact, clamped or free; `MaxEvents = 4`,
  Init included, `MaxFaults = 2`: a crash in a call and another in the recovery
  from it, or in the repair of the tail. `Tears` leaves out `"line"`, the case of
  `store_newline`. `Faults` leaves out `"error"`, the case of `store_error` and of
  the half-written line above. `MaxEvents` counts events in memory, `MaxFaults`
  all faults. The theorems remove all these bounds, and those on files, payloads
  and processes.
- `readers`: two processes, one file that is found with two blocks in it and may
  be overwritten with one, a cap that pays for that Act or for an Observe of what
  was found, `MaxEvents = 2` per process (so the log grows to three), one crash.
  Neither Plan nor a Failed with a spend is tried: what they leave on the disk is
  what a Finish leaves, but for the sum. `DiesAlone` assumes that the process that
  crashes was the only one with the world open; with another, which does not
  load again, the torn line would be written on, as above. The theorems remove
  the other bounds.
- `agent_loop`: up to two tool calls in a completion, three steps, energies 0
  (free), 5 and 31 (above the cap), a cap of 24 that is above or below
  `MIN_COMPLETION_MJ` (or exactly there) when the third request is due,
  depending on what the tools cost. `MaxEvents = 14` is never reached: Init, the
  seed, three plans with two calls each and the closing event make 12. In
  `loop_budget` the cap is above `PER_CALL_CEILING_MJ`, which is where hint and
  remainder differ. The theorems of section 5 remove the bounds.
- `adapter`: message lengths at the edges of the estimate (3: below one token;
  35/36: 8 and 9 tokens; 80; 152: too long for the cap) and token counts around
  what the sized request allows, and a negative one.
- `contest`: one name made of two words; five step files (an inventory whose name
  and letters are given as lists, two extractions, a pairing, a retraction), the
  solution and `NAMES.md`. All their orders with edits, overwriting and races are
  too many, so a state constraint (`EitherGame`) has TLC look at two games. In
  `EditedGame` the players do each thing once, but one extraction is bad at first,
  an editor may correct it and a player commit it again, and the judge may come at
  any time, raced by one commit or edit (`MaxRaces = 1`) at each place between its
  steps. In `AgainGame` nobody edits or races; the names and the inventory come
  first and the judge after the solution, but a step may be committed twice,
  overwritten with the other extraction, or with itself to extract a word again
  that was taken back. `MaxEvents = 9` is all of that and Init. Finish comes right
  after the solution and ends the play (the judge does not look at it). The
  theorems remove the bounds and the constraint, and put any contest whose letters
  decide in the place of this small one.

### Fairness
- `Store.FairSpec`: weak fairness of `Step(p)`. A process in the middle of a call
  is not waiting for anything (the lock is taken without waiting), so a
  scheduled process takes its next step; beginning a call, leaving and faults
  are not owed by anybody.
- `Reader.ReaderSpec`: the same, and weak fairness of the reader's own steps: it
  waits for nobody.
- `AgentLoop.LoopSpec`, `Adapter.AdapterSpec`: weak fairness of the loop's own
  steps. `run` is a sequential program, and a request comes back because
  `urlopen` has a timeout (`spacexai.py`, `_TIMEOUT_S`). The timeout is one for each
  operation on the socket, so that this also takes it that the vendor does not
  trickle its answer for ever. Outside edits and a held lock are not owed.

What the fair steps lead to does not hang on how often they are taken: each of
them brings its end closer, for every value of the constants (`CallsShorten`,
`ReadersNeverFail`, `RunsShorten` and `AdapterRunsShorten` in section 5).

`CHECK_DEADLOCK FALSE` everywhere: worlds at `MaxEvents` and finished runs stop.

## 4. What the properties say
They are stated, each with the behaviour it is about, at the end of the modules.
The ones to read first: `EnergyAddsUp`, `SelfCheckSilent`, `CheckBlamesOutsiders`
(`World`); `PricedAsLogged`, `OnlyMeddlingMisleads` (`FileSteps`);
`BytesRecoverable`, `AckedDurable`, `OnlyTornRefused`, `HistoryOnlyGrows`
(`Store`); `SnapshotLasts` (`Reader`); `RunMatchesLog`, `ActsFollowPlans`,
`RunEnds` (`AgentLoop`); `BoundIsKept`, `BillsAreBooked`, `OneBillUnknown`
(`Adapter`);
`OkMeansSolved`, `JudgedBytesAreLogged` (`Contest`).

## 5. Proofs
For every value of the constants that satisfies the ASSUMEs of `Kernel` and
`World` (any payloads, sizes, addresses, paths, cap, and any bound on the log):

- `WorldProofs`: `TypeOK`, `EnergyAddsUp`, `OneChain`, `SelfCheckSilent`,
  `OverrunDrains`, `IndexFollowsLog` are invariants of `World!Spec`;
  `NoWorkUnpaid` holds of every step; `World` implements `Ledger`. Then
  `CheckBlamesOutsiders` and `LoadBlamesOutsiders`, under the assumption
  `OneSpelling` (no two addresses in use resolve to one place). The assumption is
  needed: `world_alias` is the counterexample without it.
- `KernelProofs`: `BlocksAreLeast` (the price of any size), `SpentAppend`,
  `ReplayStopsNowhereElse`.
- `FileStepsProofs`, from the ASSUMEs of `Kernel` and `FileSteps` (any directory,
  any links, any number of edits between two steps): `PricedAsLogged`,
  `SelfCheckBlamesLinks`, `OnlyMeddlingMisleads`.
- `LoopProofs`, from the ASSUMEs of `Kernel`, `World` and `AgentLoop` (any
  provider, tool calls, budget and number of steps): `RunMatchesLog`,
  `ActsFollowPlans`, and that `SelfCheckSilent` and
  `EnergyAddsUp` hold throughout a run (`RunsKeepTheWorld`); that a run implements
  `Ledger` and never works unpaid (`RunsImplementLedger`, `RunsPayForWork`); that
  the world it leaves behind passes `check(rebuild=True)` unless somebody else
  edited it (`RunsBlameOutsiders`, with `OneSpelling`); and that it takes at most
  `MaxSteps * (2 * MaxCalls + 2) + 5` steps (`RunsShorten`).
- `AdapterProofs`, from those and `Adapter`'s: `RequestsFit`, `BoundIsKept`,
  `BillsAreBooked`, `OneBillUnknown`; the same about the ledger and the number of steps
  (`AdapterImplementsLedger`, `AdapterRunsShorten`); and of the arithmetic alone,
  `RequestFillsBudget` and `HonestBillFits`.
- `StoreProofs` and `StoreAgreementProofs`, from the ASSUMEs of `Kernel` and
  `Store` (any processes, files, payloads, cap, and any number of events and
  faults):

  | Theorem | Properties | Assumes |
  |---|---|---|
  | `StoreTyped`, `ReaderTyped` | `TypeOK`, the lock included | nothing: any faults, tears and processes |
  | `CallsShorten` | a call or a load takes at most 5 steps and one for each file that recovery looks at | nothing: any faults, tears and processes |
  | `CrashSafety` | `AckedDurable`, `BytesRecoverable`, `NoBytesUnlogged` | `OneAtATime`, `CrashesOnly`, `OneSpelling` |
  | `HistoryKept` | `HistoryOnlyGrows` | the same |
  | `StoreAgreement` | `LogIsOneChain`, `MemoryIsLog`, `OnlyTornRefused`, `ReceiptsCached` | the same |
  | `StoreImplementsLedger` | `LedgerSpec` | the same |
  | `ReaderSafety` | `SnapshotLasts`, `CellsVouched`, `BytesRecoverable` | `CrashesOnly`, `OneSpelling` (and `DiesAlone`, which is part of `ReaderSpec`); any number of processes at once |
  | `ReadersNeverFail` | once the header is there, a snapshot is shown in two steps and never fails | the same |

- `ContestProofs`, from the ASSUMEs of `World`, `Anagrams` and `Contest`, for any
  number of commits and edits while the judge is at work (`MaxRaces`):
  `OkMeansSolved` (`VerdictsAreRight`), and that the commands of the contest keep
  `EnergyAddsUp`, `OneChain` and `SelfCheckSilent` (`ContestKeepsKernel`) and
  implement `Ledger` (`ContestImplementsLedger`). With `OneSpelling` as well:
  `AlarmsExplained`, `ScoreAddsUp`, `JudgedBytesAreLogged`, and
  `CheckBlamesOutsiders` of the world the contest is played in
  (`ContestBlamesOutsiders`).

The assumptions of the `Store` theorems are the ones its runs make, and each is
needed; where the code does not see to one itself, a run or section 3 shows what
happens without it. `CrashesOnly` says that a fault ends the process (an `OSError`
after which the caller goes on is `store_error`, and the half-written line of
section 3) and that no line is torn exactly before its newline
(`store_newline`). `OneAtATime` is the user who opens a world in one process at a
time (`store_stale`). `OneSpelling` is as in `WorldProofs` (`world_alias`:
`recover_writes` keys by the address string).

The argument. None of the properties is inductive alone. `EnergyAddsUp` needs
`TypeOK`; `TypeOK` (the energy left is a natural number) needs each verdict to
have compared the price with it; `OneChain` needs that no id was handed out
twice (`IdsFresh`); `SelfCheckSilent` needs `OneChain` and `EnergyAddsUp` of the
new state; and `Reload`, which takes the index from disk, needs the caches to be
what memory says (`CachesFresh`). `Inv` is their conjunction. Every operation
either commits one event or leaves the log alone, so the proof has one lemma for
the commit (`CommitKeeps`: a `Chargeable` event preserves every conjunct), one
for a quiet step, and one per operation showing that its verdict lets only
`Chargeable` events through. `ReplayIsAccount` shows that rebuilding the account
from the log puts back the account that is there, which settles `check`,
`replay` and `load`. `BytesInv` adds that what the log last recorded at an
address is what its path holds unless somebody edited it since
(`RecordsAccounted` for the last digest, `ActsKept` for the last Act).

A client of `World` implements `Ledger` because every one of its steps is `Paid`:
one event and its charge, or neither. The lemmas about `World`'s operations show
`Paid` next to `Inv'`, and the loop, the adapter and the contest add only that
they do nothing but propose. `BytesInv` carries over to the loop and the contest in
the same way.

`LoopInv` adds to `Inv` where the run is against what the log ends in. The
loop changes the world only by one of `World`'s proposals, so `Inv` carries over;
and because the self check never fires, a proposal that does not answer `"ok"`
has committed nothing (`Outcome`). `CallsBacked` is the strengthening
`ActsFollowPlans` needs: the calls still to dispatch, added to the events since
the last Plan, stay within `MaxCalls`. `AdapterInv` adds that the hint of a
request is never above what is left and that a request that is out was sized by
it (`Sized`), which only `LockedOut` leaves behind, in a run that raised. Bills
are summed as a log of their own, so that the lemma on running totals applies.

The theorems on length each have a measure in the naturals that every step
lowers and nobody else raises: the requests allowed, the calls still to dispatch
and the place in the loop (`StepsAhead`, and `RequestsAhead` with the sending of
the request); the place in a call and the files recovery has yet to look at
(`CallAhead`). `StepsAhead` needs `StepsCounted`, that no request goes out beyond
those allowed; `CallAhead` needs only `Types`, by which what recovery has yet to
look at is among the last Acts of the log. `StepsAhead` and `CallAhead` are zero
at the end of a run or a call, and nowhere else.

`StepsInv` of `FileStepsProofs` says what a call has made sure of (`Poised`):
nobody can take away what it was found able to pay, since the lock keeps other
calls out. The account lags the log only between the append and the replace of
an Act (`Balanced`), and addresses that were in the jail stay there until a link
strays (`Led`). `Undisturbed` adds, for a call nobody meddled with, that what it
has seen is still there.

The `Store` proofs have four layers, each of which assumes the ones before it.
`Types` says what the disk and each process can hold, ties the lock to the place
a process is at (`lock = p` exactly when `pc[p]` is in `Holding`), and bounds
every id by `nextId`. It is inductive under any faults. `Moves` says that a step of
one process leaves the others where they are, and that a process that does not
hold the lock leaves the events of the log alone. `Safe` adds what makes a
crash harmless:
only the last line is ever bad, and while it is nobody is past `load_events`
(`LogShape`); no id of the log is handed out again (`IdsOk`); between staging and
append the bytes of an Act are staged under an id the log does not have, and from
the append on its event is the newest of the log (`CallsLogged`), which is what
keeps the sweep of the staging area and the replacement of a file from touching
other bytes; and the index quotes Acts and Observes of the log (`IndexVouched`). `AckedDurable`,
`BytesRecoverable` and `NoBytesUnlogged` are conjuncts of it, because recovery is
only right if they held before it. Each action has a lemma that it keeps
`Types` and one that it keeps `Safe` and every event of the log (`Kept`, which is
`HistoryOnlyGrows`). `Safe` does not need one process at a time, only that a
process that dies in a call was alone, so `Shown`, what a reader has been told,
is proved on top of it for many writers. `Agreed` is for one process at a time:
what it has in memory at each place of a call (`MemoryFits`), the two caches
(`CachesUpToDate`, and `IndexComplete` as long as nothing has crashed) and the
chain with its replay inside the cap (`OneChain`). Its heart is the lemma
`GrewAgreed`, about the one event an append adds, whether it returns or crashes.
The refinement then maps an append to `Charge` and every other step, crashes and
repairs included, to a stutter. TLC checked each layer on small instances
before it was proved.

`JudgeInv` of `ContestProofs` adds to `BytesInv` what the judge knows. The log
may have moved on since it loaded, and its check compares the files with the log
it *loaded*; so a commit and then an edit of the same file, both between load and
check, might go unnoticed. They do not: an event that records bytes is
never free, so the caches on disk no longer replay from the loaded log, and the
check reports the drift (`SinceLoad`). A check without alarms therefore
establishes that every file holds what the log of that moment records
(`Matching`), and commits keep it so (`WorkKeepsMatching`) until somebody edits a
file (`Seen`).

`OkMeansSolved` compares the board with the rules said without playing. The two
are related after every prefix of the log (`Reflects`): the board has no issue as
long as every step kept the rules, and until then the words on it are those
whose extraction no later step took back (`Standing`), the pairs those no later
retraction undid (`Coupled`). A move that is sound keeps the relation and any
other one leaves an issue that stays. That the board's questions (are these
letters within the name's? do these words use them up?) have the answers of the
key is `LettersDecide`, and is used nowhere else. The verdict is about the log and
the files the judge reads in its last step, with which a behaviour of `Contest`
ends.

`SpentUpTo` and `PlayedUpTo` are recursive functions. That they exist and are
determined on every prefix, and what holds of them there, is proved without an
induction schema: take the least length at which it would fail (`NatMin`, from
the well-foundedness of the naturals).

## 6. What is only model-checked, and what is not modelled
- Only checked by TLC: all liveness (`LockReleased`, `ReaderAnswers`, `RunEnds`,
  `AdapterEnds`), which rests on fairness and ENABLED, out of the prover's reach.
  Of its argument the prover has the half that depends on the constants: each
  step brings the end closer. What is left to TLC is that until the end there is
  a next step to take. Every other property of a passing run is a theorem.
- Not proved, because it is false, is what the five violation runs show.
- Not modelled:
  - `MemoryStore`, which only tests use; the demo; ids and the clock (ids are
    fresh, no rule reads the clock).
  - In `Store`, listings and Observes of a directory, which append and save caches
    as a Plan does and index no digest, and edits from outside, which `World`,
    `FileSteps` and `Contest` have.
  - A Failed whose caller gives an `attempted_mj` other than its spend: `propose`
    would log it, but no caller in the repository does it, and `OverrunDrains`
    speaks of those.
  - The tools payload, which the vendor counts as input and `_max_tokens_for` does
    not: `honest` is a vendor whose input is within the estimate all the same.
  - The hop-by-hop check inside one `resolve` and `Workspace.write`, which
    `propose` never calls: a link changes between two file accesses, not within
    one.
  - `check()` without `rebuild` (a function of state that is checked anyway),
    `SPACETEN_LOCK=0` (which turns the lock off), and the CLI's
    `_integrity_report` for a log that overspends.
  - The contest's `pack`/`unpack` (archives), leaderboard (a sort of reports) and
    the splitting of texts into lines and of lines into terms.
  - Argument handling, rendering and the wire format of requests and replies.
  - The loss of a directory entry after a power cut: renames are taken as durable.

## 7. Plan
Done, in this order: `Kernel`, `Ledger`, `World` with its runs and proofs,
`Store`, `AgentLoop`, `Adapter`; then `Anagrams` and `Contest`, `Reader`,
`FileSteps`, the proofs about the loop, the adapter and the file steps; the
proofs about `Store`, `Reader` and the judge; and last the judge's board
(`OkMeansSolved`), the ledger as a promise of every client of `World`, and how
long calls, snapshots and runs can take.
Left:

1. Theorems about `Store` with failing system calls, for a caller that gives the
   world up after an `OSError`; a run of it; an init cut short.
2. `Contest` with the step files read one by one.
3. `MemoryStore` against `Store`.
