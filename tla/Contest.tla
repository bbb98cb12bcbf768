------------------------------- MODULE Contest ------------------------------
(***************************************************************************)
(* The contest commands (contest/cli.py) and the judge (contest/verify.py) *)
(* over World.  Every command is a process of its own: it loads the world, *)
(* which DirtySpace may refuse, and makes one proposal.  The judge works   *)
(* in three steps, between which it holds no lock and anybody may commit   *)
(* or edit: it loads the world, checks it (rebuild=True), and then reads   *)
(* the log a second time and the step files one by one.  Those last reads  *)
(* are one action here.                                                    *)
(***************************************************************************)
EXTENDS World, Anagrams

CONSTANTS
    StepFiles,      \* addresses under steps/
    Solution,       \* "SOLUTION.md"
    NamesFile,      \* "NAMES.md"
    Root,           \* "."
    LinesOf,        \* the lines of a content
    Drafts,         \* the contents players commit at an address
    Edits,          \* the contents somebody's editor leaves there
    Looked,         \* the addresses players observe
    Touches,        \* bound: how often players touch each of these addresses
    MaxRaces        \* bound on the steps others take during a verify

ASSUME ContestAssumption ==
    /\ StepFiles \cup {Solution, NamesFile} \cup Looked \subseteq Addrs
    /\ Solution \notin StepFiles
    /\ DOMAIN LinesOf = Contents
    /\ Drafts \in [StepFiles \cup {Solution} -> SUBSET Contents]
    /\ Edits \in [StepFiles \cup {Solution} -> SUBSET Contents]
    /\ Touches \in [StepFiles \cup {Solution} \cup Looked -> Nat]
    /\ MaxRaces \in Nat

VARIABLES
    judge,      \* verify_root: "idle", "loaded", "checked", "done"
    loaded,     \* the events and the account of the World it loaded
    alarms,     \* the codes of the issues its check found
    report,     \* the issues and the score it reports
    raced       \* history: what others did since it loaded: "commit", "edit",
                \* and "lateEdit" once it has made its check

judgeVars == <<judge, loaded, alarms, report>>
contestVars == <<vars, judgeVars, raced>>

NoReport == [issues |-> {}, spent |-> 0, remaining |-> 0, events |-> 0]

ContestInit ==
    /\ Init
    /\ judge = "idle" /\ loaded = [events |-> events, acct |-> acct]
    /\ alarms = {} /\ report = NoReport /\ raced = {}

-----------------------------------------------------------------------------
(* Players.                                                                *)

IsStep(e) == e.op = "act" /\ e.addr \in StepFiles
IsSolution(e) == e.op = "act" /\ e.addr = Solution
StepEvents == {i \in 1..Len(events) : IsStep(events[i])}

\* The last Act of SOLUTION.md, 0 if there is none.
SolutionEvent ==
    LET at == {i \in 1..Len(events) : IsSolution(events[i])}
    IN  IF at = {} THEN 0 ELSE CHOOSE i \in at : \A j \in at : j <= i

\* World.load, then what the command proposes.
Command(propose) == IF Loadable THEN propose ELSE Refuse("DirtySpace")

\* spaceten observe: a directory is listed.
ContestObserve(a) ==
    Command(IF At(a) = Directory THEN ProposeList(a, FALSE)
            ELSE ProposeObserve(a, FALSE))

\* contest step: the bytes come from --from, else from the file that is
\* there already, else from standard input; no bytes, no step.
StepBytes(a, from, given) ==
    IF ~from /\ At(a) \in Contents THEN At(a) ELSE given
ContestStep(a, from, given) ==
    LET data == StepBytes(a, from, given)
    IN  SizeOf[data] > 0 /\ Command(ProposeAct(a, data, data, FALSE))

\* contest finish: nothing about SOLUTION.md is looked at.
ContestFinish == Command(ProposeFinish(FALSE))

\* The bound on play: each address so many times, Finish right after the
\* solution, and nothing after it.
MayTouch(a) ==
    Cardinality({i \in 1..Len(events) : events[i].addr = a}) < Touches[a]

\* While the judge is at work, what happens is a race: the commits made since
\* it loaded, and an edit.
RacesRun ==
    Len(events) - Len(loaded.events) + Cardinality(raced \ {"commit"})
Race(kind) ==
    /\ judge # "done" /\ Newest.op # "finish"
    /\ IF judge = "idle" THEN UNCHANGED raced
       ELSE RacesRun < MaxRaces /\ raced' = raced \cup {kind}
    /\ UNCHANGED judgeVars

Play ==
    /\ \/ \E a \in Looked : MayTouch(a) /\ ContestObserve(a)
       \/ \E a \in StepFiles \cup {Solution}, from \in BOOLEAN :
             MayTouch(a) /\ \E given \in Drafts[a] : ContestStep(a, from, given)
       \/ IsSolution(Newest) /\ ContestFinish
    /\ Race("commit")

Edit ==
    /\ \E a \in StepFiles \cup {Solution} :
          \E x \in Edits[a] : OutsideEdit(Place[a], x)
    /\ Race(IF judge = "checked" THEN "lateEdit" ELSE "edit")

-----------------------------------------------------------------------------
(* The judge.                                                              *)

\* The world as the judge's own World has it: its memory, everyone's files.
JudgesWorld == INSTANCE World WITH events <- loaded.events, acct <- loaded.acct

NamesObserved ==
    \E i \in 1..Len(events) :
        events[i].op = "observe" /\ events[i].addr \in {NamesFile, Root}

\* A step is what its file says now, whatever its event wrote there.
MoveAt(a) == IF At(a) \in Contents THEN ParseStep(LinesOf[At(a)]) ELSE Unparsable

\* Mutant: a step file is played once, at its last Act.
PlayedOnce(cutoff) ==
    LET board[i \in 0..Len(events)] ==
            IF i = 0 THEN EmptyBoard
            ELSE IF IsStep(events[i]) /\ i <= cutoff /\ IsLastAct(events, i)
                 THEN ApplyMove(board[i - 1], MoveAt(events[i].addr))
                 ELSE board[i - 1]
    IN  board

\* The board as the moves leave it that are played, in the order of their
\* events, up to the cutoff.
PlayedUpTo(cutoff) ==
    LET board[i \in 0..Len(events)] ==
            IF i = 0 THEN EmptyBoard
            ELSE IF IsStep(events[i]) /\ i <= cutoff
                 THEN ApplyMove(board[i - 1], MoveAt(events[i].addr))
                 ELSE board[i - 1]
    IN  board
Played ==
    LET cutoff == IF SolutionEvent = 0 THEN Len(events) ELSE SolutionEvent
    IN  PlayedUpTo(cutoff)[Len(events)]

\* verify_events after a check that found nothing.
ContestIssues ==
    LET issue(code, found) == IF found THEN {code} ELSE {}
    IN  issue("names_unobserved", ~NamesObserved)
        \cup issue("solution_too_early",
                   SolutionEvent # 0 /\ \E i \in StepEvents : i > SolutionEvent)
        \cup BoardIssues(Played)
        \cup (IF SolutionEvent = 0 THEN {"solution_missing"}
              ELSE IF At(Solution) \notin Contents THEN {"parse_error"}
              ELSE SolutionIssues(LinesOf[At(Solution)]))

JudgeLoad ==
    /\ judge = "idle"
    /\ IF Loadable
       THEN judge' = "loaded" /\ UNCHANGED report
       ELSE judge' = "done" /\ report' = [NoReport EXCEPT !.issues = {"refused"}]
    /\ loaded' = [events |-> events, acct |-> acct]
    /\ UNCHANGED <<vars, alarms, raced>>

\* Mutant: the check is made without rebuild.
QuickCheck ==
    /\ judge = "loaded"
    /\ alarms' = JudgesWorld!CheckIssues \ {"dirty_space", "cache_drift"}
    /\ judge' = "checked"
    /\ UNCHANGED <<vars, loaded, report, raced>>

JudgeCheck ==
    /\ judge = "loaded"
    /\ alarms' = JudgesWorld!CheckIssues
    /\ judge' = "checked"
    /\ UNCHANGED <<vars, loaded, report, raced>>

\* The log is read again; the account is still the one that was checked.
\* Mutant: the score stops at the solution.
ReportToSolution ==
    /\ judge = "checked"
    /\ report' = [issues |-> IF alarms # {} THEN alarms ELSE ContestIssues,
                  spent |-> Spent(SubSeq(events, 1, SolutionEvent)),
                  events |-> Len(events), remaining |-> loaded.acct.remaining]
    /\ judge' = "done"
    /\ UNCHANGED <<vars, loaded, alarms, raced>>
JudgeReport ==
    /\ judge = "checked"
    /\ report' = [issues |-> IF alarms # {} THEN alarms ELSE ContestIssues,
                  spent |-> Spent(events), events |-> Len(events),
                  remaining |-> loaded.acct.remaining]
    /\ judge' = "done"
    /\ UNCHANGED <<vars, loaded, alarms, raced>>

ContestNext == Play \/ Edit \/ JudgeLoad \/ JudgeCheck \/ JudgeReport

ContestSpec == ContestInit /\ [][ContestNext]_contestVars

-----------------------------------------------------------------------------
(* Properties.                                                             *)

Judged == judge = "done" /\ report.issues # {"refused"} /\ alarms = {}

\* What the step of event i says, and what it undoes.
Says(i) == MoveAt(events[i].addr)
TakesBack(i, w) ==
    Says(i).kind = "retract" /\ Says(i).target = "extract" /\ Says(i).word = w
Unpairs(i, n) ==
    \/ Says(i).kind = "retract" /\ Says(i).target = "pair" /\ Says(i).name = n
    \/ \E w \in Pairs[n] : TakesBack(i, w)

\* The rules of the game, said of the log without playing it: a pair is made
\* of two words that were extracted and not taken back before it.
SoundStep(i) ==
    LET m == Says(i)
    IN  CASE m.kind = "inventory" -> GoodInventory(m)
          [] m.kind = "extract" ->
                /\ m.word \in Terms /\ m.evidence # <<>>
                /\ \A k \in 1..Len(m.evidence) :
                      m.evidence[k] \in Names /\ m.word \in Pairs[m.evidence[k]]
          [] m.kind = "pair" ->
                /\ m.name \in Names /\ {m.words[1], m.words[2]} = Pairs[m.name]
                /\ \A w \in Pairs[m.name] : \E j \in StepEvents :
                      /\ j < i /\ Says(j).kind = "extract" /\ Says(j).word = w
                      /\ \A k \in StepEvents : j < k /\ k < i => ~TakesBack(k, w)
          [] m.kind = "retract" -> GoodRetract(m)
          [] OTHER -> FALSE

Solved ==
    /\ NamesObserved
    /\ \E s \in 1..Len(events) :
          /\ IsSolution(events[s])
          /\ \A i \in StepEvents : i < s
          /\ At(Solution) \in Contents /\ SolutionIssues(LinesOf[At(Solution)]) = {}
    /\ \A i \in StepEvents : SoundStep(i)
    /\ \E i \in StepEvents : Says(i).kind = "inventory"
    /\ \E i \in StepEvents : Says(i).kind = "extract"
    /\ \A n \in Names : \E i \in StepEvents :
          /\ Says(i).kind = "pair" /\ Says(i).name = n
          /\ \A j \in StepEvents : j > i => ~Unpairs(j, n)

\* The judge, who plays the steps one after the other on a board and cascades
\* each retraction, says ok exactly of the runs that keep the rules: every
\* step sound, every name paired and never unpaired again, the solution last.
OkMeansSolved == Judged => (report.issues = {} <=> Solved)

\* An ok verdict rests on bytes the log vouches for: each step and the
\* solution were read as an event last recorded them, also when somebody
\* committed while the judge was at work; only an edit after the check can
\* put other bytes under its eyes.
JudgedBytesAreLogged ==
    Judged /\ report.issues = {} /\ "lateEdit" \notin raced =>
        \A i \in 1..Len(events) :
            IsStep(events[i]) \/ IsSolution(events[i]) =>
                LastRecorded(events, events[i].addr, At(events[i].addr))

\* The kernel issues a verify reports are somebody else's doing: the caches
\* drift only under a commit made after the judge loaded, and a file is dirty
\* only after such a commit or an edit.
AlarmsExplained ==
    /\ "cache_drift" \in alarms => "commit" \in raced
    /\ "dirty_space" \in alarms =>
          raced # {} \/ \E p \in Paths : tampered[p] = "unseen"
    /\ "invariant" \notin alarms

\* What the score line says was spent and what it says remains come from two
\* reads; they add up to the cap unless somebody committed in between.
ScoreAddsUp ==
    judge = "done" /\ report.issues # {"refused"} /\ "commit" \notin raced =>
        report.spent + report.remaining = Cap
=============================================================================
