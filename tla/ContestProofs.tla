---------------------------- MODULE ContestProofs ---------------------------
(***************************************************************************)
(* What a verdict of the contest's judge is worth, for every contest: any  *)
(* names, words, step files and drafts, any play, and any number of        *)
(* commits and edits while the judge is at work (MaxRaces is a bound for   *)
(* TLC only).  What a verdict says of the files assumes that a file has    *)
(* one spelling, as in WorldProofs; what it says of the board does not     *)
(* (VerdictsAreRight).                                                     *)
(*                                                                         *)
(* Players only do what World does, so BytesInv carries over (Work says    *)
(* what else a command may do).  SinceLoad relates the log to the one the  *)
(* judge loaded, and Seen what its check has established to the files it   *)
(* reads after it.  Of the board, Reflects says how it stands after the    *)
(* first events of the log; it rests on Anagrams' KeyAssumption.           *)
(***************************************************************************)
EXTENDS Contest, WorldProofs

\* Every Act of the log names the bytes it wrote.
ActsNameBytes ==
    \A i \in 1..Len(events) :
        events[i].op = "act" => events[i].digest \in Contents

\* What the judge loaded is a log that keeps the kernel's invariants, and the
\* account it replays into.
LoadedFits ==
    /\ loaded.acct \in [cap : {Cap}, spent : Nat, remaining : Nat]
    /\ ReplayAccount(loaded.events, Cap) = loaded.acct
    /\ InvariantsHold(loaded.events, loaded.acct, Jail)

\* Others may have gone on since: without a commit the log is the one loaded,
\* and a commit that put other bytes on record has cost something.
SinceLoad ==
    judge \in {"loaded", "checked"} =>
        /\ "commit" \notin raced => events = loaded.events /\ acct = loaded.acct
        /\ loaded.acct.spent <= acct.spent
        /\ acct.spent = loaded.acct.spent =>
              \A a \in Addrs, d \in Contents :
                  LastRecorded(events, a, d) => LastRecorded(loaded.events, a, d)

\* Every file holds what the log last recorded of it.
Matching ==
    \A a \in Addrs, d \in Contents :
        LastRecorded(events, a, d) => a \in Jail /\ At(a) = d

\* A check without alarms has found the log and the files in agreement, and
\* so they stay until somebody edits a file.
Seen ==
    /\ judge \in {"checked", "done"}
    /\ judge = "done" => report.issues # {"refused"}
    /\ alarms = {} /\ "lateEdit" \notin raced
    => Matching

NotCheckedYet == judge \in {"idle", "loaded"} => alarms = {}

\* The inductive invariant.
JudgeInv ==
    /\ BytesInv
    /\ ActsNameBytes
    /\ LoadedFits
    /\ SinceLoad
    /\ Seen
    /\ NotCheckedYet
    /\ AlarmsExplained
    /\ ScoreAddsUp

-----------------------------------------------------------------------------
(* What players and editors do.                                            *)

\* A command that commits: an event that records bytes has been paid for, is
\* in the jail, and the bytes are in place; no other file changed.
Work(e, mj) ==
    /\ Grows(e, mj) /\ mj \in Nat
    /\ e.op = "act" => e.digest \in Contents
    /\ e.digest # Nothing =>
          mj > 0 /\ e.addr \in Jail /\ files'[Place[e.addr]] = e.digest
    /\ \A a \in Jail :
          files'[Place[a]] # files[Place[a]] =>
              e.digest # Nothing /\ Place[a] = Place[e.addr]

Worked == UNCHANGED <<events, acct, files>> \/ \E e, mj : Work(e, mj)

\* A refused command does nothing.
LEMMA RefusedWorks ==
    ASSUME BytesInv, NEW verdict \in Answers \ {"InvariantError"}, Refuse(verdict)
    PROVE  BytesInv' /\ Worked
<1>1. Inv'
  BY RefuseKeeps DEF BytesInv
<1>2. RecordsAccounted' /\ ActsKept'
  BY IdleKeeps DEF Refuse
<1> QED
  BY <1>1, <1>2 DEF BytesInv, Worked, Refuse

\* A commit that leaves the files alone and records no bytes.
LEMMA PlainWork ==
    ASSUME BytesInv, NEW op, NEW mj, NEW reason, NEW a, NEW attempted,
           NEW cells2, op # "act",
           Chargeable(op, mj, reason, a, Nothing, attempted),
           Commit(NewEvent(op, mj, reason, a, Nothing, attempted), cells2),
           UNCHANGED files
    PROVE  Worked
<1> DEFINE e == NewEvent(op, mj, reason, a, Nothing, attempted)
<1>1. Grows(e, mj) /\ mj \in Nat
  BY CommitGrows DEF BytesInv, Inv, Chargeable
<1>2. e.digest = Nothing /\ e.op # "act"
  BY DEF NewEvent
<1> HIDE DEF e
<1> QED
  BY <1>1, <1>2 DEF Work, Worked

\* contest finish.
LEMMA FinishWorks ==
    ASSUME BytesInv, ProposeFinish(FALSE)
    PROVE  BytesInv' /\ Worked
<1>1. FinishVerdict(FALSE) = "ok"
  BY DEF FinishVerdict
<1>2. Inv'
  BY FinishKeeps DEF BytesInv
<1>3. RecordsAccounted' /\ ActsKept'
  <2>1. NoSpend \in Spends \cup {NoSpend} /\ NotAttempted \in {NotAttempted, NoSpend}
    OBVIOUS
  <2> QED
    BY <2>1, FinishPlanFailedAccount
<1>4. Chargeable("finish", 0, "none", Nothing, Nothing, NotAttempted)
  BY DEF Chargeable, Ops, CanPay, NotAttempted, BytesInv, Inv, TypeOK
<1>5. Worked
  BY <1>1, <1>4, PlainWork DEF ProposeFinish, Propose
<1> QED
  BY <1>2, <1>3, <1>5 DEF BytesInv

\* spaceten observe of a directory.
LEMMA ListWorks ==
    ASSUME BytesInv, NEW a \in Addrs, ProposeList(a, FALSE)
    PROVE  BytesInv' /\ Worked
<1>1. Inv'
  BY ListKeeps DEF BytesInv
<1>2. RecordsAccounted' /\ ActsKept'
  BY ListAccounts
<1>3. CASE ListVerdict(a, FALSE) = "ok"
  <2>1. CanPay(acct, ListCost) /\ a \in Jail
    BY <1>3 DEF ListVerdict
  <2>2. Chargeable("observe", ListCost, "io", a, Nothing, NotAttempted)
    BY <2>1 DEF Chargeable, Ops, NotAttempted, ListCost
  <2> QED
    BY <1>1, <1>2, <1>3, <2>2, PlainWork DEF ProposeList, Propose, BytesInv
<1>4. CASE ListVerdict(a, FALSE) # "ok"
  BY <1>1, <1>2, <1>4 DEF ProposeList, Propose, Refuse, BytesInv, Worked
<1> QED
  BY <1>3, <1>4

\* spaceten observe of a file: it puts on record what is there.
LEMMA ObserveWorks ==
    ASSUME BytesInv, OneSpelling, NEW a \in Addrs, ProposeObserve(a, FALSE)
    PROVE  BytesInv' /\ Worked
<1>1. Inv'
  BY ObserveKeeps DEF BytesInv
<1>2. RecordsAccounted' /\ ActsKept'
  BY ObserveAccounts
<1>3. CASE ObserveVerdict(a, FALSE) = "ok"
  <2> DEFINE x == At(a)
             mj == ObserveCost(x)
             e == NewEvent("observe", mj, "io", a, CellDigest(x), NotAttempted)
  <2>1. Commit(e, [cells EXCEPT ![a] = x]) /\ UNCHANGED files
    BY <1>3 DEF ProposeObserve, Propose
  <2>2. CanPay(acct, mj) /\ a \in Jail /\ x # Missing
    BY <1>3 DEF ObserveVerdict
  <2>3. x \in Contents \cup {Directory} /\ x = files[Place[a]]
    BY <2>2, AtType DEF BytesInv, Inv, At
  <2>4. mj \in Nat \ {0} /\ CellDigest(x) \in {x, Nothing}
        /\ CellDigest(x) \in Contents \cup {Nothing}
    BY <2>3, PricesPositive DEF CellDigest
  <2>5. e.op = "observe" /\ e.addr = a /\ e.digest = CellDigest(x)
    BY DEF NewEvent
  <2> HIDE DEF x, mj
  <2>6. Chargeable("observe", mj, "io", a, CellDigest(x), NotAttempted)
    BY <2>2, <2>4 DEF Chargeable, Ops, NotAttempted
  <2>7. Grows(e, mj)
    BY <2>1, <2>6, CommitGrows DEF BytesInv, Inv
  <2> HIDE DEF e
  <2>8. Work(e, mj)
    BY <2>1, <2>2, <2>3, <2>4, <2>5, <2>7 DEF Work
  <2> QED
    BY <1>1, <1>2, <2>8 DEF BytesInv, Worked
<1>4. CASE ObserveVerdict(a, FALSE) # "ok"
  BY <1>1, <1>2, <1>4 DEF ProposeObserve, Propose, Refuse, BytesInv, Worked
<1> QED
  BY <1>3, <1>4

\* contest step: the file holds what the event records.
LEMMA ActWorks ==
    ASSUME BytesInv, OneSpelling, NEW a \in Addrs, NEW data \in Contents,
           ProposeAct(a, data, data, FALSE)
    PROVE  BytesInv' /\ Worked
<1>1. Inv'
  BY ActKeeps DEF BytesInv
<1>2. RecordsAccounted' /\ ActsKept'
  BY ActAccounts
<1>3. CASE ActVerdict(a, data, data, FALSE) = "ok"
  <2> DEFINE mj == WriteCost(SizeOf[data])
             e == NewEvent("act", mj, "io", a, data, NotAttempted)
  <2>1. /\ Commit(e, [cells EXCEPT ![a] = data])
        /\ files' = [files EXCEPT ![Place[a]] = data]
    BY <1>3 DEF ProposeAct, Propose
  <2>2. CanPay(acct, mj) /\ a \in Jail
    BY <1>3 DEF ActVerdict
  <2>3. mj \in Nat \ {0} /\ data # Nothing
    BY PricesPositive, ContentsAssumption
  <2>4. e.op = "act" /\ e.addr = a /\ e.digest = data
    BY DEF NewEvent
  <2> HIDE DEF mj
  <2>5. Chargeable("act", mj, "io", a, data, NotAttempted)
    BY <2>2, <2>3 DEF Chargeable, Ops, NotAttempted
  <2>6. Grows(e, mj)
    BY <2>1, <2>5, CommitGrows DEF BytesInv, Inv
  <2>7. /\ files'[Place[a]] = data
        /\ \A b \in Jail : Place[b] # Place[a] => files'[Place[b]] = files[Place[b]]
    BY <2>1, <2>2 DEF BytesInv, Inv, TypeOK, Jail
  <2> HIDE DEF e
  <2>8. Work(e, mj)
    BY <2>2, <2>3, <2>4, <2>6, <2>7 DEF Work
  <2> QED
    BY <1>1, <1>2, <2>8 DEF BytesInv, Worked
<1>4. CASE ActVerdict(a, data, data, FALSE) # "ok"
  BY <1>1, <1>2, <1>4 DEF ProposeAct, Propose, Refuse, BytesInv, Worked
<1> QED
  BY <1>3, <1>4

\* Whatever players do, the judge's own state is not theirs to change, and
\* once it is at work they leave a trace.
LEMMA PlayWorks ==
    ASSUME BytesInv, OneSpelling, Play
    PROVE  /\ BytesInv' /\ Worked /\ UNCHANGED judgeVars
           /\ judge # "done"
           /\ raced' = IF judge = "idle" THEN raced ELSE raced \cup {"commit"}
<1>1. /\ UNCHANGED judgeVars /\ judge # "done"
      /\ raced' = IF judge = "idle" THEN raced ELSE raced \cup {"commit"}
  BY DEF Play, Race
<1>2. "DirtySpace" \in Answers \ {"InvariantError"}
  BY DEF Answers
<1>3. ASSUME NEW a \in Looked, ContestObserve(a)
      PROVE  BytesInv' /\ Worked
  BY <1>2, <1>3, ContestAssumption, RefusedWorks, ListWorks, ObserveWorks
     DEF ContestObserve, Command
<1>4. ASSUME NEW a \in StepFiles \cup {Solution}, NEW from \in BOOLEAN,
             NEW given \in Drafts[a], ContestStep(a, from, given)
      PROVE  BytesInv' /\ Worked
  <2> DEFINE data == StepBytes(a, from, given)
  <2>1. a \in Addrs /\ data \in Contents
    BY ContestAssumption DEF StepBytes
  <2>2. \/ Refuse("DirtySpace")
        \/ ProposeAct(a, data, data, FALSE)
    BY <1>4 DEF ContestStep, Command
  <2> HIDE DEF data
  <2> QED
    BY <1>2, <2>1, <2>2, RefusedWorks, ActWorks
<1>5. ASSUME ContestFinish PROVE BytesInv' /\ Worked
  BY <1>2, <1>5, RefusedWorks, FinishWorks DEF ContestFinish, Command
<1>6. BytesInv' /\ Worked
  BY <1>3, <1>4, <1>5 DEF Play
<1> QED
  BY <1>1, <1>6

\* An editor changes one file, and is remembered too.
LEMMA EditWorks ==
    ASSUME BytesInv, Edit
    PROVE  /\ BytesInv' /\ UNCHANGED <<events, acct, judgeVars>>
           /\ judge # "done"
           /\ raced' = CASE judge = "idle" -> raced
                         [] judge = "checked" -> raced \cup {"lateEdit"}
                         [] OTHER -> raced \cup {"edit"}
<1>1. /\ UNCHANGED judgeVars /\ judge # "done"
      /\ raced' = CASE judge = "idle" -> raced
                    [] judge = "checked" -> raced \cup {"lateEdit"}
                    [] OTHER -> raced \cup {"edit"}
  BY DEF Edit, Race
<1>2. PICK a \in StepFiles \cup {Solution} :
         \E x \in Edits[a] : OutsideEdit(Place[a], x)
  BY DEF Edit
<1> PICK x \in Edits[a] : OutsideEdit(Place[a], x)
  BY <1>2
<1>3. a \in Addrs /\ x \in Contents
  BY ContestAssumption
<1>4. UNCHANGED <<events, acct, cells, saved, nextId, balances, open, answer>>
  BY DEF OutsideEdit
<1>5. /\ files' \in [Paths -> Contents \cup {Directory, Missing}]
      /\ tampered' \in [Paths -> {"no", "seen", "unseen"}]
  BY <1>3 DEF OutsideEdit, BytesInv, Inv, TypeOK
<1>6. Inv'
  <2>1. open' \in BOOLEAN /\ answer' \in Answers \ {"InvariantError"}
    BY <1>4 DEF BytesInv, Inv, TypeOK, SelfCheckSilent
  <2> QED
    BY <1>4, <1>5, <2>1, QuietKeeps DEF BytesInv
<1>7. RecordsAccounted' /\ ActsKept'
  <2>1. CASE Place[a] \in Paths
    BY <2>1, EditKeeps
  <2>2. CASE Place[a] \notin Paths
    <3>1. UNCHANGED <<files, tampered>>
      BY <2>2 DEF OutsideEdit, BytesInv, Inv, TypeOK
    <3> QED
      BY <1>4, <3>1, IdleKeeps
  <2> QED
    BY <2>1, <2>2
<1> QED
  BY <1>1, <1>4, <1>6, <1>7 DEF BytesInv

-----------------------------------------------------------------------------
(* The judge.                                                              *)

\* check(rebuild=True) of the judge's World is about the log it loaded, the
\* caches and files of now.
LEMMA WhatTheCheckFinds ==
    ASSUME JudgeInv
    PROVE  /\ "invariant" \notin JudgesWorld!CheckIssues
           /\ "cache_drift" \in JudgesWorld!CheckIssues <=> acct # loaded.acct
           /\ "dirty_space" \in JudgesWorld!CheckIssues <=>
                 \E a \in Addrs, d \in Contents :
                     /\ LastRecorded(loaded.events, a, d)
                     /\ ~(a \in Jail /\ At(a) = d)
<1>1. JudgesWorld!ReplayAccount(loaded.events, Cap)
        = ReplayAccount(loaded.events, Cap)
  BY DEF JudgesWorld!ReplayAccount, ReplayAccount, JudgesWorld!Debit, Debit,
         JudgesWorld!FreshAccount, FreshAccount, JudgesWorld!Spent, Spent,
         JudgesWorld!SpentUpTo, SpentUpTo, JudgesWorld!SpendFrom, SpendFrom
<1>2. JudgesWorld!ReplayAccount(loaded.events, Cap) = loaded.acct
  BY <1>1 DEF JudgeInv, LoadedFits
<1>3. JudgesWorld!Jail = Jail
  BY DEF JudgesWorld!Jail, Jail
<1>4. \A jail, account : JudgesWorld!InvariantsHold(loaded.events, account, jail)
                            <=> InvariantsHold(loaded.events, account, jail)
  BY DEF JudgesWorld!InvariantsHold, InvariantsHold, JudgesWorld!LogHolds,
         LogHolds, JudgesWorld!AccountHolds, AccountHolds,
         JudgesWorld!UniqueIds, UniqueIds, JudgesWorld!Sequential, Sequential,
         JudgesWorld!Parented, Parented, JudgesWorld!ParentOk, ParentOk,
         JudgesWorld!NoId, NoId, JudgesWorld!Jailed, Jailed,
         JudgesWorld!NonNegative, NonNegative, JudgesWorld!Conserved, Conserved,
         JudgesWorld!Replays, Replays, JudgesWorld!Spent, Spent,
         JudgesWorld!SpentUpTo, SpentUpTo, JudgesWorld!SpendFrom, SpendFrom
<1>5. JudgesWorld!InvariantsHold(loaded.events, loaded.acct, JudgesWorld!Jail)
  BY <1>3, <1>4 DEF JudgeInv, LoadedFits
<1>6. saved.acct = acct
  BY DEF JudgeInv, BytesInv, Inv, CachesFresh
<1>7. JudgesWorld!DirtyAddrs # {} <=>
        \E a \in Addrs, d \in Contents :
            LastRecorded(loaded.events, a, d) /\ ~(a \in Jail /\ At(a) = d)
  <2>1. \A a, d : JudgesWorld!LastRecorded(loaded.events, a, d)
                     <=> LastRecorded(loaded.events, a, d)
    BY DEF JudgesWorld!LastRecorded, LastRecorded, JudgesWorld!Records, Records
  <2>2. \A a : JudgesWorld!At(a) = At(a)
    BY <1>3 DEF JudgesWorld!At, At
  <2> QED
    BY <1>3, <2>1, <2>2 DEF JudgesWorld!DirtyAddrs
<1> DEFINE drift == saved.acct # loaded.acct \/ loaded.acct # loaded.acct
           dirty == JudgesWorld!DirtyAddrs # {}
<1>8. JudgesWorld!CheckIssues
        = (IF drift THEN {"cache_drift"} ELSE {})
          \cup (IF dirty THEN {"dirty_space"} ELSE {})
  BY <1>2, <1>5 DEF JudgesWorld!CheckIssues
<1>9. drift <=> acct # loaded.acct
  BY <1>6
<1> HIDE DEF drift, dirty
<1>10. /\ "invariant" \notin JudgesWorld!CheckIssues
       /\ "cache_drift" \in JudgesWorld!CheckIssues <=> drift
       /\ "dirty_space" \in JudgesWorld!CheckIssues <=> dirty
  BY <1>8
<1> QED
  BY <1>7, <1>9, <1>10 DEF dirty

\* A step of the judge alone changes nothing of the world.
LEMMA WorldStays ==
    ASSUME BytesInv, ActsNameBytes, UNCHANGED vars
    PROVE  BytesInv' /\ ActsNameBytes' /\ (Matching => Matching')
<1>1. UNCHANGED <<events, acct, cells, saved, files, nextId, open, answer,
                  balances, tampered>>
  BY DEF vars
<1>2. Inv'
  <2>1. open' \in BOOLEAN /\ answer' \in Answers \ {"InvariantError"}
        /\ files' \in [Paths -> Contents \cup {Directory, Missing}]
        /\ tampered' \in [Paths -> {"no", "seen", "unseen"}]
    BY <1>1 DEF BytesInv, Inv, TypeOK, SelfCheckSilent
  <2> QED
    BY <1>1, <2>1, QuietKeeps DEF BytesInv
<1>3. RecordsAccounted' /\ ActsKept'
  BY <1>1, IdleKeeps
<1>4. ActsNameBytes' /\ (Matching => Matching')
  BY <1>1 DEF ActsNameBytes, Matching, At
<1> QED
  BY <1>2, <1>3, <1>4 DEF BytesInv

\* The judge loads the world: log and account are those of the moment.
LEMMA LoadKeepsJudge ==
    ASSUME JudgeInv, JudgeLoad
    PROVE  JudgeInv'
<1>1. /\ judge = "idle" /\ judge' \in {"loaded", "done"}
      /\ judge' = "done" => report'.issues = {"refused"}
      /\ loaded' = [events |-> events, acct |-> acct]
      /\ UNCHANGED <<vars, alarms, raced>>
  BY DEF JudgeLoad, NoReport
<1>2. BytesInv' /\ ActsNameBytes'
  BY <1>1, WorldStays DEF JudgeInv
<1>3. LoadedFits'
  <2>1. Inv
    BY DEF JudgeInv, BytesInv
  <2> QED
    BY <1>1, <2>1, ReplayIsAccount DEF LoadedFits, Inv, TypeOK, vars
<1>4. SinceLoad'
  <2>1. acct.spent \in Nat
    BY DEF JudgeInv, BytesInv, Inv, TypeOK
  <2> QED
    BY <1>1, <2>1 DEF SinceLoad, vars
<1>5. alarms' = {} /\ NotCheckedYet' /\ AlarmsExplained'
  BY <1>1 DEF JudgeInv, NotCheckedYet, AlarmsExplained
<1>6. Seen' /\ ScoreAddsUp'
  BY <1>1 DEF Seen, ScoreAddsUp
<1> QED
  BY <1>2, <1>3, <1>4, <1>5, <1>6 DEF JudgeInv

\* The check: no alarm means that no commit that recorded bytes came in
\* between, because it would have moved the account, and that what the log
\* records is on disk.
LEMMA CheckKeepsJudge ==
    ASSUME JudgeInv, JudgeCheck
    PROVE  JudgeInv'
<1>1. /\ judge = "loaded" /\ judge' = "checked"
      /\ alarms' = JudgesWorld!CheckIssues
      /\ UNCHANGED <<vars, loaded, report, raced>>
  BY DEF JudgeCheck
<1>2. UNCHANGED <<events, acct, files, tampered>>
  BY <1>1 DEF vars
<1>3. BytesInv' /\ ActsNameBytes' /\ (Matching => Matching')
  BY <1>1, WorldStays DEF JudgeInv
<1>4. LoadedFits' /\ SinceLoad' /\ NotCheckedYet' /\ ScoreAddsUp'
  BY <1>1, <1>2 DEF JudgeInv, LoadedFits, SinceLoad, NotCheckedYet, ScoreAddsUp
<1>5. alarms' = {} => Matching
  <2> SUFFICES ASSUME alarms' = {} PROVE Matching
    OBVIOUS
  <2>1. /\ acct = loaded.acct
        /\ \A a \in Addrs, d \in Contents :
              LastRecorded(loaded.events, a, d) => a \in Jail /\ At(a) = d
    BY <1>1, WhatTheCheckFinds
  <2> QED
    BY <1>1, <2>1 DEF JudgeInv, SinceLoad, Matching
<1>6. Seen'
  BY <1>3, <1>5 DEF Seen
<1>7. AlarmsExplained'
  <2>1. "invariant" \notin alarms'
    BY <1>1, WhatTheCheckFinds
  <2>2. "cache_drift" \in alarms' => "commit" \in raced
    BY <1>1, WhatTheCheckFinds DEF JudgeInv, SinceLoad
  <2>3. ASSUME "dirty_space" \in alarms', raced = {}
        PROVE  \E p \in Paths : tampered[p] = "unseen"
    <3>1. events = loaded.events
      BY <1>1, <2>3 DEF JudgeInv, SinceLoad
    <3>2. PICK a \in Addrs : \E d \in Contents :
             LastRecorded(events, a, d) /\ ~(a \in Jail /\ At(a) = d)
      BY <1>1, <2>3, <3>1, WhatTheCheckFinds
    <3>3. a \in Jail /\ tampered[Place[a]] = "unseen"
      BY <3>2 DEF JudgeInv, BytesInv, RecordsAccounted, Accounted
    <3> QED
      BY <3>3 DEF Jail
  <2> QED
    BY <1>1, <1>2, <2>1, <2>2, <2>3 DEF AlarmsExplained
<1> QED
  BY <1>3, <1>4, <1>6, <1>7 DEF JudgeInv

\* The report: without a commit since, the log read again spends what the
\* account that was checked has spent.
LEMMA ReportKeepsJudge ==
    ASSUME JudgeInv, JudgeReport
    PROVE  JudgeInv'
<1>1. /\ judge = "checked" /\ judge' = "done"
      /\ report'.spent = Spent(events)
      /\ report'.remaining = loaded.acct.remaining
      /\ UNCHANGED <<vars, loaded, alarms, raced>>
  BY DEF JudgeReport
<1>2. UNCHANGED <<events, acct, files, tampered>>
  BY <1>1 DEF vars
<1>3. BytesInv' /\ ActsNameBytes' /\ (Matching => Matching')
  BY <1>1, WorldStays DEF JudgeInv
<1>4. LoadedFits' /\ SinceLoad' /\ NotCheckedYet' /\ AlarmsExplained'
  BY <1>1, <1>2 DEF JudgeInv, LoadedFits, SinceLoad, NotCheckedYet, AlarmsExplained
<1>5. Seen'
  BY <1>1, <1>3 DEF JudgeInv, Seen
<1>6. ScoreAddsUp'
  <2> SUFFICES ASSUME "commit" \notin raced
               PROVE  Spent(events) + loaded.acct.remaining = Cap
    BY <1>1 DEF ScoreAddsUp
  <2>1. events = loaded.events
    BY <1>1 DEF JudgeInv, SinceLoad
  <2>2. /\ loaded.acct \in [cap : {Cap}, spent : Nat, remaining : Nat]
        /\ AccountHolds(loaded.events, loaded.acct)
    BY DEF JudgeInv, LoadedFits, InvariantsHold
  <2> QED
    BY <2>1, <2>2 DEF AccountHolds, Conserved, Replays
<1> QED
  BY <1>3, <1>4, <1>5, <1>6 DEF JudgeInv

-----------------------------------------------------------------------------
(* Others, while the judge is at work.                                     *)

\* A commit puts its own bytes in place and leaves the other files alone, so
\* log and files agree after it if they did before.
LEMMA WorkKeepsMatching ==
    ASSUME OneSpelling, Matching, NEW e, NEW mj, Work(e, mj)
    PROVE  Matching'
<1> SUFFICES ASSUME NEW a \in Addrs, NEW d \in Contents,
                    LastRecorded(events', a, d)
             PROVE  a \in Jail /\ At(a)' = d
  BY DEF Matching
<1>1. CASE Records(e, a) /\ e.digest = d
  BY <1>1 DEF Work, Records, At
<1>2. CASE ~Records(e, a) /\ LastRecorded(events, a, d)
  <2>1. a \in Jail /\ At(a) = d
    BY <1>2 DEF Matching
  <2>2. files'[Place[a]] = files[Place[a]]
    BY <1>2, <2>1 DEF Work, OneSpelling, Records
  <2> QED
    BY <2>1, <2>2 DEF At
<1> QED
  BY <1>1, <1>2, LastRecordedGrows DEF Work

\* A commit that records bytes is not free.
LEMMA WorkKeepsSinceLoad ==
    ASSUME JudgeInv, judge \in {"loaded", "checked"}, NEW e, NEW mj, Work(e, mj),
           loaded' = loaded
    PROVE  /\ loaded.acct.spent <= acct'.spent
           /\ acct'.spent = loaded.acct.spent =>
                 \A a \in Addrs, d \in Contents :
                     LastRecorded(events', a, d) => LastRecorded(loaded.events, a, d)
<1>1. acct'.spent = acct.spent + mj /\ mj \in Nat
  BY DEF Work, Grows
<1>2. acct.spent \in Nat /\ loaded.acct.spent \in Nat
      /\ loaded.acct.spent <= acct.spent
  BY DEF JudgeInv, BytesInv, Inv, TypeOK, LoadedFits, SinceLoad
<1>3. ASSUME acct'.spent = loaded.acct.spent,
             NEW a \in Addrs, NEW d \in Contents, LastRecorded(events', a, d)
      PROVE  LastRecorded(loaded.events, a, d)
  <2>1. mj = 0 /\ acct.spent = loaded.acct.spent
    BY <1>1, <1>2, <1>3
  <2>2. ~Records(e, a)
    BY <2>1 DEF Work, Records
  <2>3. LastRecorded(events, a, d)
    BY <1>3, <2>2, LastRecordedGrows DEF Work
  <2> QED
    BY <2>1, <2>3 DEF JudgeInv, SinceLoad
<1> QED
  BY <1>1, <1>2, <1>3

\* Every Act that players commit names its bytes.
LEMMA WorkNamesBytes ==
    ASSUME ActsNameBytes, Worked
    PROVE  ActsNameBytes'
  BY DEF Worked, Work, Grows, ActsNameBytes

\* Players at work.
LEMMA PlayKeepsJudge ==
    ASSUME JudgeInv, OneSpelling, Play
    PROVE  JudgeInv'
<1>1. /\ BytesInv' /\ Worked /\ judge # "done"
      /\ UNCHANGED <<judge, loaded, alarms, report>>
      /\ raced' = IF judge = "idle" THEN raced ELSE raced \cup {"commit"}
  BY PlayWorks DEF JudgeInv, judgeVars
<1>2. ActsNameBytes' /\ LoadedFits' /\ NotCheckedYet' /\ ScoreAddsUp'
  BY <1>1, WorkNamesBytes DEF JudgeInv, LoadedFits, NotCheckedYet, ScoreAddsUp
<1>3. SinceLoad'
  <2> SUFFICES ASSUME judge \in {"loaded", "checked"} PROVE SinceLoad'
    BY <1>1 DEF SinceLoad
  <2>1. "commit" \in raced'
    BY <1>1
  <2>2. CASE UNCHANGED <<events, acct, files>>
    BY <1>1, <2>1, <2>2 DEF JudgeInv, SinceLoad
  <2>3. CASE \E e, mj : Work(e, mj)
    BY <1>1, <2>1, <2>3, WorkKeepsSinceLoad DEF SinceLoad
  <2> QED
    BY <1>1, <2>2, <2>3 DEF Worked
<1>4. Seen'
  <2>1. Matching => Matching'
    <3>1. CASE UNCHANGED <<events, acct, files>>
      BY <3>1 DEF Matching, At
    <3>2. CASE \E e, mj : Work(e, mj)
      BY <3>2, WorkKeepsMatching
    <3> QED
      BY <1>1, <3>1, <3>2 DEF Worked
  <2> QED
    BY <1>1, <2>1 DEF JudgeInv, Seen
<1>5. AlarmsExplained'
  BY <1>1 DEF JudgeInv, NotCheckedYet, AlarmsExplained
<1> QED
  BY <1>1, <1>2, <1>3, <1>4, <1>5 DEF JudgeInv

\* Editors at work: after the check they are remembered as late.
LEMMA EditKeepsJudge ==
    ASSUME JudgeInv, Edit
    PROVE  JudgeInv'
<1>1. /\ BytesInv' /\ judge # "done"
      /\ UNCHANGED <<events, acct, judge, loaded, alarms, report>>
      /\ raced' = CASE judge = "idle" -> raced
                    [] judge = "checked" -> raced \cup {"lateEdit"}
                    [] OTHER -> raced \cup {"edit"}
  BY EditWorks DEF JudgeInv, judgeVars
<1>2. /\ judge = "checked" => "lateEdit" \in raced'
      /\ raced \subseteq raced' /\ ("commit" \in raced' => "commit" \in raced)
      /\ judge # "idle" => raced' # {}
  BY <1>1
<1>3. ActsNameBytes' /\ LoadedFits' /\ SinceLoad' /\ NotCheckedYet' /\ ScoreAddsUp'
  BY <1>1, <1>2 DEF JudgeInv, ActsNameBytes, LoadedFits, SinceLoad, NotCheckedYet,
      ScoreAddsUp
<1>4. Seen'
  BY <1>1, <1>2 DEF Seen
<1>5. AlarmsExplained'
  BY <1>1, <1>2 DEF JudgeInv, NotCheckedYet, AlarmsExplained
<1> QED
  BY <1>1, <1>3, <1>4, <1>5 DEF JudgeInv

-----------------------------------------------------------------------------
(* The theorems.                                                           *)

\* A new world that nobody has judged yet.
LEMMA ContestInitHolds == ContestInit => JudgeInv
<1> SUFFICES ASSUME ContestInit PROVE JudgeInv
  OBVIOUS
<1>1. /\ Init /\ judge = "idle" /\ alarms = {}
      /\ loaded = [events |-> events, acct |-> acct]
  BY DEF ContestInit
<1>2. BytesInv
  BY <1>1, InitAccounts
<1>3. ActsNameBytes
  BY <1>1 DEF Init, ActsNameBytes
<1>4. LoadedFits
  BY <1>1, <1>2, ReplayIsAccount DEF BytesInv, LoadedFits, Inv, TypeOK
<1>5. SinceLoad /\ Seen /\ NotCheckedYet /\ AlarmsExplained /\ ScoreAddsUp
  BY <1>1 DEF SinceLoad, Seen, NotCheckedYet, AlarmsExplained, ScoreAddsUp
<1> QED
  BY <1>2, <1>3, <1>4, <1>5 DEF JudgeInv

\* Every step of the contest keeps the invariant: it is inductive.
LEMMA ContestStepKeeps ==
    ASSUME JudgeInv, OneSpelling, [ContestNext]_contestVars
    PROVE  JudgeInv'
<1>1. CASE UNCHANGED contestVars
  <2>1. UNCHANGED <<vars, judge, loaded, alarms, report, raced>>
    BY <1>1 DEF contestVars, judgeVars
  <2>2. UNCHANGED <<events, acct, files, tampered>>
    BY <2>1 DEF vars
  <2>3. BytesInv' /\ ActsNameBytes' /\ (Matching => Matching')
    BY <2>1, WorldStays DEF JudgeInv
  <2> QED
    BY <2>1, <2>2, <2>3 DEF JudgeInv, LoadedFits, SinceLoad, Seen, NotCheckedYet,
        AlarmsExplained, ScoreAddsUp
<1> QED
  BY <1>1, PlayKeepsJudge, EditKeepsJudge, LoadKeepsJudge, CheckKeepsJudge,
     ReportKeepsJudge DEF ContestNext

\* JudgeInv is an invariant.
LEMMA JudgeInvariant == ASSUME OneSpelling PROVE ContestSpec => []JudgeInv
<1>1. JudgeInv /\ [ContestNext]_contestVars => JudgeInv'
  BY ContestStepKeeps
<1> QED
  BY ContestInitHolds, <1>1, PTL DEF ContestSpec

\* Also of a world that the commands of the contest work on, check blames only
\* editors for a dirty space.
THEOREM ContestBlamesOutsiders ==
    ASSUME OneSpelling PROVE ContestSpec => []CheckBlamesOutsiders
<1>1. JudgeInv => CheckBlamesOutsiders
  BY BytesBlameOutsiders DEF JudgeInv
<1> QED
  BY <1>1, JudgeInvariant, PTL

\* The kernel issues a verify reports are somebody else's doing, however the
\* judge's three looks are interleaved with players and editors.
THEOREM AlarmsAreFair ==
    ASSUME OneSpelling PROVE ContestSpec => []AlarmsExplained
<1>1. JudgeInv => AlarmsExplained
  BY DEF JudgeInv
<1> QED
  BY <1>1, JudgeInvariant, PTL

\* Spent and remaining of a report add up to the cap, although they come from
\* two reads of the log, unless somebody committed in between.
THEOREM ScoresAddUp == ASSUME OneSpelling PROVE ContestSpec => []ScoreAddsUp
<1>1. JudgeInv => ScoreAddsUp
  BY DEF JudgeInv
<1> QED
  BY <1>1, JudgeInvariant, PTL

\* An address of which bytes are on record has a last record.
LEMMA LastRecordExists ==
    ASSUME TypeOK, NEW a, NEW i \in 1..Len(events), Records(events[i], a)
    PROVE  \E d \in Contents : LastRecorded(events, a, d)
<1> DEFINE n == Len(events)
           T == {k \in Nat : k < n /\ Records(events[n - k], a)}
<1>1. n \in Nat /\ \A j \in 1..n : events[j] \in EventType
  BY DEF TypeOK
<1>2. n - i \in Nat /\ n - i < n /\ n - (n - i) = i
  BY <1>1
<1>3. n - i \in T
  BY <1>2
<1>4. PICK k \in T : \A m \in T : k <= m
  BY <1>3, NatMin
<1>5. k \in Nat /\ n - k \in 1..n /\ Records(events[n - k], a)
  BY <1>1, <1>4
<1>6. ASSUME NEW j \in 1..n, j > n - k PROVE ~Records(events[j], a)
  <2>1. n - j \in Nat /\ n - j < n /\ n - (n - j) = j /\ n - j < k
    BY <1>1, <1>5, <1>6
  <2>2. n - j \notin T
    BY <1>4, <1>5, <2>1
  <2> QED
    BY <2>1, <2>2
<1>7. events[n - k].digest \in Contents
  BY <1>1, <1>5 DEF EventType, Records
<1>8. LastRecorded(events, a, events[n - k].digest)
  BY <1>5, <1>6 DEF LastRecorded
<1> QED
  BY <1>7, <1>8

\* The bytes behind a clean verdict are the bytes the log vouches for, at each
\* step and at the solution, whatever was committed or edited before the
\* check and whatever was committed after it.
THEOREM JudgedBytes ==
    ASSUME OneSpelling PROVE ContestSpec => []JudgedBytesAreLogged
<1>1. JudgeInv => JudgedBytesAreLogged
  <2> SUFFICES ASSUME JudgeInv, Judged, "lateEdit" \notin raced,
                      NEW i \in 1..Len(events),
                      IsStep(events[i]) \/ IsSolution(events[i])
               PROVE  LastRecorded(events, events[i].addr, At(events[i].addr))
    BY DEF JudgedBytesAreLogged
  <2> DEFINE a == events[i].addr
  <2>1. Matching
    BY DEF Judged, JudgeInv, Seen
  <2>2. a \in Addrs /\ events[i].op = "act"
    BY ContestAssumption DEF IsStep, IsSolution
  <2>3. Records(events[i], a)
    BY <2>2, ContentsAssumption DEF JudgeInv, ActsNameBytes, Records
  <2>4. PICK d \in Contents : LastRecorded(events, a, d)
    BY <2>3, LastRecordExists DEF JudgeInv, BytesInv, Inv
  <2> QED
    BY <2>1, <2>2, <2>4 DEF Matching
<1> QED
  BY <1>1, JudgeInvariant, PTL

-----------------------------------------------------------------------------
(* The board.  Reflects relates it, after each prefix of the log, to what   *)
(* the log says without being played; the letters decide (KeyAssumption).   *)

\* What the log says, taken up to event i: which words stand as extracted,
\* which names as paired, whether every step so far kept the rules, and which
\* kinds of step there were.
Standing(i, w) == \E j \in StepEvents :
    /\ j <= i /\ Says(j).kind = "extract" /\ Says(j).word = w
    /\ \A k \in StepEvents : j < k /\ k <= i => ~TakesBack(k, w)
Coupled(i, n) == \E j \in StepEvents :
    /\ j <= i /\ Says(j).kind = "pair" /\ Says(j).name = n
    /\ \A k \in StepEvents : j < k /\ k <= i => ~Unpairs(k, n)
SoundUpTo(i) == \A j \in StepEvents : j <= i => SoundStep(j)
SaidUpTo(i, kind) == \E j \in StepEvents : j <= i /\ Says(j).kind = kind

Codes == {"bad_inventory", "bad_extract", "bad_pair", "bad_retract", "parse_error"}
BoardType ==
    [extracted : SUBSET Terms, paired : [Names -> SUBSET Terms],
     issues : SUBSET Codes, inventory : BOOLEAN, extract : BOOLEAN]

\* The board agrees with the log up to event i: it has no issue as long as the
\* rules are kept, and until then it shows the words and pairs that stand.
Reflects(board, i) ==
    /\ board \in BoardType
    /\ board.issues = {} <=> SoundUpTo(i)
    /\ board.issues = {} =>
          /\ \A w \in Terms : w \in board.extracted <=> Standing(i, w)
          /\ \A n \in Names :
                board.paired[n] = IF Coupled(i, n) THEN Pairs[n] ELSE {}
          /\ board.inventory <=> SaidUpTo(i, "inventory")
          /\ board.extract <=> SaidUpTo(i, "extract")

\* Before the first event nothing is said, and the board is empty.
LEMMA EmptyReflects == Reflects(EmptyBoard, 0)
<1>1. \A j \in StepEvents : ~(j <= 0)
  BY DEF StepEvents
<1>2. SoundUpTo(0) /\ (\A w : ~Standing(0, w)) /\ (\A n : ~Coupled(0, n))
      /\ \A kind : ~SaidUpTo(0, kind)
  BY <1>1 DEF SoundUpTo, Standing, Coupled, SaidUpTo
<1>3. EmptyBoard \in BoardType
  BY DEF EmptyBoard, BoardType
<1> QED
  BY <1>2, <1>3 DEF EmptyBoard, Reflects

\* What one more step changes of what the log says.
LEMMA StepSays ==
    ASSUME NEW i \in StepEvents
    PROVE  /\ SoundUpTo(i) <=> SoundUpTo(i - 1) /\ SoundStep(i)
           /\ \A kind : SaidUpTo(i, kind) <=>
                           SaidUpTo(i - 1, kind) \/ Says(i).kind = kind
           /\ \A w : Standing(i, w) <=>
                        \/ Says(i).kind = "extract" /\ Says(i).word = w
                        \/ Standing(i - 1, w) /\ ~TakesBack(i, w)
           /\ \A n : Coupled(i, n) <=>
                        \/ Says(i).kind = "pair" /\ Says(i).name = n
                        \/ Coupled(i - 1, n) /\ ~Unpairs(i, n)
<1>1. /\ \A j \in StepEvents : j <= i <=> j <= i - 1 \/ j = i
      /\ \A j \in StepEvents : j <= i - 1 => j < i
      /\ \A j \in StepEvents : i < j => ~(j <= i)
      /\ i <= i /\ ~(i < i)
  BY DEF StepEvents
<1>2. SoundUpTo(i) <=> SoundUpTo(i - 1) /\ SoundStep(i)
  BY <1>1 DEF SoundUpTo
<1>3. \A kind : SaidUpTo(i, kind) <=> SaidUpTo(i - 1, kind) \/ Says(i).kind = kind
  BY <1>1 DEF SaidUpTo
<1>4. ASSUME NEW w
      PROVE  Standing(i, w) <=> \/ Says(i).kind = "extract" /\ Says(i).word = w
                                \/ Standing(i - 1, w) /\ ~TakesBack(i, w)
  BY <1>1, Zenon DEF Standing
<1>5. ASSUME NEW n
      PROVE  Coupled(i, n) <=> \/ Says(i).kind = "pair" /\ Says(i).name = n
                               \/ Coupled(i - 1, n) /\ ~Unpairs(i, n)
  BY <1>1, Zenon DEF Coupled
<1> QED
  BY <1>2, <1>3, <1>4, <1>5

\* An event that is no step changes nothing of it.
LEMMA NoStepSays ==
    ASSUME NEW i \in Nat \ {0}, i \notin StepEvents, NEW board
    PROVE  Reflects(board, i - 1) => Reflects(board, i)
<1>1. \A j \in StepEvents : j <= i <=> j <= i - 1
  BY DEF StepEvents
<1>2. /\ SoundUpTo(i) <=> SoundUpTo(i - 1)
      /\ \A kind : SaidUpTo(i, kind) <=> SaidUpTo(i - 1, kind)
      /\ \A w : Standing(i, w) <=> Standing(i - 1, w)
      /\ \A n : Coupled(i, n) <=> Coupled(i - 1, n)
  BY <1>1, Zenon DEF SoundUpTo, SaidUpTo, Standing, Coupled
<1> QED
  BY <1>2 DEF Reflects

\* A retraction is of a word or of a pair.
LEMMA RetractTargets ==
    ASSUME NEW a, MoveAt(a).kind = "retract"
    PROVE  MoveAt(a).target \in {"extract", "pair"}
<1>1. ASSUME NEW lines, ParseStep(lines).kind = "retract"
      PROVE  ParseStep(lines).target \in {"extract", "pair"}
  BY <1>1 DEF ParseStep, Unparsable
<1>2. MoveAt(a) # Unparsable
  BY DEF Unparsable
<1> QED
  BY <1>1, <1>2 DEF MoveAt

\* Playing a move keeps the board a board, and no move takes an issue back.
LEMMA MoveKeepsIssues ==
    ASSUME NEW board \in BoardType, NEW a
    PROVE  /\ ApplyMove(board, MoveAt(a)) \in BoardType
           /\ board.issues \subseteq ApplyMove(board, MoveAt(a)).issues
<1> DEFINE m == MoveAt(a)
<1> SUFFICES /\ ApplyMove(board, m) \in BoardType
             /\ board.issues \subseteq ApplyMove(board, m).issues
  OBVIOUS
<1>1. \A code \in Codes : /\ Issue(board, code) \in BoardType
                          /\ board.issues \subseteq Issue(board, code).issues
  BY DEF Issue, BoardType
<1>2. /\ "bad_inventory" \in Codes /\ "bad_extract" \in Codes /\ "bad_pair" \in Codes
      /\ "bad_retract" \in Codes /\ "parse_error" \in Codes
  BY DEF Codes
<1>3. GoodExtract(m) => m.word \in Terms
  BY DEF GoodExtract
<1>4. GoodPair(board.extracted, m) => {m.words[1], m.words[2]} \in SUBSET Terms
  BY DEF GoodPair, BoardType
<1>5. \A w : /\ WithoutWord(board, w) \in BoardType
             /\ WithoutWord(board, w).issues = board.issues
  BY DEF WithoutWord, BoardType
<1> HIDE DEF m
<1>6. CASE m.kind = "inventory"
  BY <1>1, <1>2, <1>6 DEF ApplyMove, BoardType
<1>7. CASE m.kind = "extract"
  BY <1>1, <1>2, <1>3, <1>7 DEF ApplyMove, BoardType
<1>8. CASE m.kind = "pair"
  BY <1>1, <1>2, <1>4, <1>8 DEF ApplyMove, BoardType
<1>9. CASE m.kind = "retract"
  <2>1. CASE ~GoodRetract(m)
    BY <1>1, <1>2, <1>9, <2>1 DEF ApplyMove
  <2>2. CASE GoodRetract(m) /\ m.target = "extract"
    BY <1>5, <1>9, <2>2 DEF ApplyMove
  <2>3. CASE GoodRetract(m) /\ m.target # "extract"
    BY <1>9, <2>3 DEF ApplyMove, BoardType
  <2> QED
    BY <2>1, <2>2, <2>3
<1>10. CASE m.kind \notin {"inventory", "extract", "pair", "retract"}
  BY <1>1, <1>2, <1>10 DEF ApplyMove
<1> QED
  BY <1>6, <1>7, <1>8, <1>9, <1>10

\* On a board without issues a move is found wrong just when it breaks a rule.
LEMMA RulesAreChecked ==
    ASSUME NEW i \in StepEvents, NEW board, Reflects(board, i - 1), board.issues = {}
    PROVE  ApplyMove(board, Says(i)).issues = {} <=> SoundStep(i)
<1> DEFINE m == Says(i)
<1>1. board \in BoardType /\ \A w \in Terms : w \in board.extracted <=> Standing(i - 1, w)
  BY DEF Reflects
<1>2. \A code : Issue(board, code).issues # {}
  BY <1>1 DEF Issue, BoardType
<1>3. CASE m.kind = "inventory"
  <2>1. SoundStep(i) <=> GoodInventory(m)
    BY <1>3 DEF SoundStep
  <2> HIDE DEF m
  <2> QED
    BY <1>1, <1>2, <1>3, <2>1 DEF ApplyMove, BoardType, m
<1>4. CASE m.kind = "extract"
  <2>1. SoundStep(i) <=>
          /\ m.word \in Terms /\ m.evidence # <<>>
          /\ \A k \in 1..Len(m.evidence) :
                m.evidence[k] \in Names /\ m.word \in Pairs[m.evidence[k]]
    BY <1>4 DEF SoundStep
  <2> HIDE DEF m
  <2>2. SoundStep(i) <=> GoodExtract(m)
    BY <2>1, KeyAssumption DEF LettersDecide, GoodExtract
  <2> QED
    BY <1>1, <1>2, <1>4, <2>2 DEF ApplyMove, BoardType, m
<1>5. CASE m.kind = "pair"
  <2>1. SoundStep(i) <=>
          /\ m.name \in Names /\ {m.words[1], m.words[2]} = Pairs[m.name]
          /\ \A w \in Pairs[m.name] : \E j \in StepEvents :
                /\ j < i /\ Says(j).kind = "extract" /\ Says(j).word = w
                /\ \A k \in StepEvents : j < k /\ k < i => ~TakesBack(k, w)
    BY <1>5 DEF SoundStep
  <2>2. \A j \in StepEvents : j < i <=> j <= i - 1
    BY DEF StepEvents
  <2>3. ASSUME NEW w
        PROVE  Standing(i - 1, w) <=>
                 \E j \in StepEvents :
                    /\ j < i /\ Says(j).kind = "extract" /\ Says(j).word = w
                    /\ \A k \in StepEvents : j < k /\ k < i => ~TakesBack(k, w)
    BY <2>2, Zenon DEF Standing
  <2> HIDE DEF m
  <2>4. SoundStep(i) <=>
          /\ m.name \in Names /\ {m.words[1], m.words[2]} = Pairs[m.name]
          /\ \A w \in Pairs[m.name] : Standing(i - 1, w)
    BY <2>1, <2>3
  <2>5. ASSUME NEW n \in Names, NEW v, NEW w
        PROVE  /\ v \in Terms /\ w \in Terms /\ v # w
               /\ Together(LettersOf[v], LettersOf[w]) = LettersOf[n]
               <=> {v, w} = Pairs[n]
    <3>1. PICK x, y \in Pairs[n] : x # y /\ Pairs[n] = {x, y}
      BY AnagramsAssumption
    <3>2. x \in Terms /\ y \in Terms
      BY <3>1, AnagramsAssumption
    <3>3. {v, w} = Pairs[n] => v # w /\ v \in Terms /\ w \in Terms
      BY <3>1, <3>2
    <3> QED
      BY <3>3, KeyAssumption DEF LettersDecide
  <2>6. GoodPair(board.extracted, m) <=>
          /\ m.name \in Names /\ {m.words[1], m.words[2]} = Pairs[m.name]
          /\ \A w \in Pairs[m.name] : w \in board.extracted
    <3>1. board.extracted \subseteq Terms
      BY <1>1 DEF BoardType
    <3> QED
      BY <2>5, <3>1 DEF GoodPair
  <2>7. \A n \in Names : \A w \in Pairs[n] : w \in board.extracted <=> Standing(i - 1, w)
    BY <1>1, AnagramsAssumption
  <2>8. SoundStep(i) <=> GoodPair(board.extracted, m)
    BY <2>4, <2>6, <2>7
  <2> QED
    BY <1>1, <1>2, <1>5, <2>8 DEF ApplyMove, BoardType, m
<1>6. CASE m.kind = "retract"
  <2>1. SoundStep(i) <=> GoodRetract(m)
    BY <1>6 DEF SoundStep
  <2> HIDE DEF m
  <2>2. CASE ~GoodRetract(m)
    BY <1>2, <1>6, <2>1, <2>2 DEF ApplyMove, m
  <2>3. CASE GoodRetract(m) /\ m.target = "extract"
    BY <1>1, <1>6, <2>1, <2>3 DEF ApplyMove, WithoutWord, BoardType, m
  <2>4. CASE GoodRetract(m) /\ m.target # "extract"
    BY <1>1, <1>6, <2>1, <2>4 DEF ApplyMove, BoardType, m
  <2> QED
    BY <2>2, <2>3, <2>4
<1>7. CASE m.kind \notin {"inventory", "extract", "pair", "retract"}
  <2>1. ~SoundStep(i)
    BY <1>7 DEF SoundStep
  <2> HIDE DEF m
  <2> QED
    BY <1>2, <1>7, <2>1 DEF ApplyMove, m
<1> QED
  BY <1>3, <1>4, <1>5, <1>6, <1>7

\* A step that keeps the rules changes words and pairs on the board as it
\* changes those that stand in the log.
LEMMA SoundStepReflects ==
    ASSUME NEW i \in StepEvents, NEW board, Reflects(board, i - 1),
           board.issues = {}, SoundStep(i)
    PROVE  LET next == ApplyMove(board, Says(i))
           IN  /\ \A w \in Terms : w \in next.extracted <=> Standing(i, w)
               /\ \A n \in Names :
                     next.paired[n] = IF Coupled(i, n) THEN Pairs[n] ELSE {}
               /\ next.inventory <=> SaidUpTo(i, "inventory")
               /\ next.extract <=> SaidUpTo(i, "extract")
<1> DEFINE m == Says(i)
           next == ApplyMove(board, m)
<1>1. /\ board \in BoardType
      /\ \A w \in Terms : w \in board.extracted <=> Standing(i - 1, w)
      /\ \A n \in Names :
            board.paired[n] = IF Coupled(i - 1, n) THEN Pairs[n] ELSE {}
      /\ board.inventory <=> SaidUpTo(i - 1, "inventory")
      /\ board.extract <=> SaidUpTo(i - 1, "extract")
  BY DEF Reflects
<1>2. next.issues = {}
  BY RulesAreChecked
<1>3. \A code : Issue(board, code).issues # {}
  BY <1>1 DEF Issue, BoardType
<1>4. /\ \A kind : SaidUpTo(i, kind) <=> SaidUpTo(i - 1, kind) \/ m.kind = kind
      /\ \A w : Standing(i, w) <=> \/ m.kind = "extract" /\ m.word = w
                                   \/ Standing(i - 1, w) /\ ~TakesBack(i, w)
      /\ \A n : Coupled(i, n) <=> \/ m.kind = "pair" /\ m.name = n
                                  \/ Coupled(i - 1, n) /\ ~Unpairs(i, n)
  BY StepSays
<1>5. /\ \A w : TakesBack(i, w) <=>
                   m.kind = "retract" /\ m.target = "extract" /\ m.word = w
      /\ \A n : Unpairs(i, n) <=>
                   \/ m.kind = "retract" /\ m.target = "pair" /\ m.name = n
                   \/ \E w \in Pairs[n] : TakesBack(i, w)
  BY DEF TakesBack, Unpairs
<1>6. m.kind = "retract" => m.target \in {"extract", "pair"}
  BY RetractTargets DEF Says
<1>7. m.kind = "pair" => m.name \in Names /\ {m.words[1], m.words[2]} = Pairs[m.name]
  BY DEF SoundStep
<1> HIDE DEF m
<1> SUFFICES /\ \A w \in Terms : w \in next.extracted <=> Standing(i, w)
             /\ \A n \in Names :
                   next.paired[n] = IF Coupled(i, n) THEN Pairs[n] ELSE {}
             /\ next.inventory <=> SaidUpTo(i, "inventory")
             /\ next.extract <=> SaidUpTo(i, "extract")
  BY DEF m
<1>8. CASE m.kind = "inventory"
  <2>1. next = [board EXCEPT !.inventory = TRUE]
    BY <1>2, <1>3, <1>8 DEF ApplyMove
  <2>2. (\A w : ~TakesBack(i, w)) /\ (\A n : ~Unpairs(i, n))
    BY <1>5, <1>8
  <2> HIDE DEF next
  <2>3. /\ next.extracted = board.extracted /\ next.paired = board.paired
        /\ next.inventory = TRUE /\ next.extract = board.extract
    BY <1>1, <2>1 DEF BoardType
  <2> QED
    BY <1>1, <1>4, <1>8, <2>2, <2>3
<1>9. CASE m.kind = "extract"
  <2>1. next = [board EXCEPT !.extracted = @ \cup {m.word}, !.extract = TRUE]
    BY <1>2, <1>3, <1>9 DEF ApplyMove
  <2>2. (\A w : ~TakesBack(i, w)) /\ (\A n : ~Unpairs(i, n))
    BY <1>5, <1>9
  <2> HIDE DEF next
  <2>3. /\ next.extracted = board.extracted \cup {m.word}
        /\ next.paired = board.paired
        /\ next.inventory = board.inventory /\ next.extract = TRUE
    BY <1>1, <2>1 DEF BoardType
  <2> QED
    BY <1>1, <1>4, <1>9, <2>2, <2>3
<1>10. CASE m.kind = "pair"
  <2>1. next = [board EXCEPT !.paired[m.name] = {m.words[1], m.words[2]}]
    BY <1>2, <1>3, <1>10 DEF ApplyMove
  <2>2. (\A w : ~TakesBack(i, w)) /\ (\A n : ~Unpairs(i, n))
    BY <1>5, <1>10
  <2> HIDE DEF next
  <2>3. /\ next.extracted = board.extracted
        /\ \A n \in Names : next.paired[n] = IF n = m.name THEN Pairs[n]
                                             ELSE board.paired[n]
        /\ next.inventory = board.inventory /\ next.extract = board.extract
    BY <1>1, <1>7, <1>10, <2>1 DEF BoardType
  <2> QED
    BY <1>1, <1>4, <1>10, <2>2, <2>3
<1>11. CASE m.kind = "retract" /\ m.target = "extract"
  <2>1. next = WithoutWord(board, m.word)
    BY <1>2, <1>3, <1>11 DEF ApplyMove
  <2>2. /\ \A w : TakesBack(i, w) <=> m.word = w
        /\ \A n : Unpairs(i, n) <=> m.word \in Pairs[n]
    BY <1>5, <1>11
  <2> HIDE DEF next
  <2>3. /\ next.extracted = board.extracted \ {m.word}
        /\ \A n \in Names :
              next.paired[n] = IF m.word \in board.paired[n] THEN {}
                               ELSE board.paired[n]
        /\ next.inventory = board.inventory /\ next.extract = board.extract
    BY <1>1, <2>1 DEF BoardType, WithoutWord
  <2>4. \A w \in Terms : w \in next.extracted <=> Standing(i, w)
    BY <1>1, <1>4, <1>11, <2>2, <2>3
  <2>5. \A n \in Names : next.paired[n] = IF Coupled(i, n) THEN Pairs[n] ELSE {}
    BY <1>1, <1>4, <1>11, <2>2, <2>3
  <2> QED
    BY <1>1, <1>4, <1>11, <2>3, <2>4, <2>5
<1>12. CASE m.kind = "retract" /\ m.target = "pair"
  <2>1. next = IF m.name \in Names THEN [board EXCEPT !.paired[m.name] = {}]
               ELSE board
    BY <1>2, <1>3, <1>12 DEF ApplyMove
  <2>2. (\A w : ~TakesBack(i, w)) /\ \A n : Unpairs(i, n) <=> m.name = n
    BY <1>5, <1>12
  <2> HIDE DEF next
  <2>3. /\ next.extracted = board.extracted
        /\ \A n \in Names : next.paired[n] = IF n = m.name THEN {}
                                             ELSE board.paired[n]
        /\ next.inventory = board.inventory /\ next.extract = board.extract
    BY <1>1, <2>1 DEF BoardType
  <2> QED
    BY <1>1, <1>4, <1>12, <2>2, <2>3
<1>13. CASE m.kind \notin {"inventory", "extract", "pair", "retract"}
  BY <1>2, <1>3, <1>13 DEF ApplyMove
<1> QED
  BY <1>6, <1>8, <1>9, <1>10, <1>11, <1>12, <1>13

\* One more step: the board goes on agreeing with the log.
LEMMA StepReflects ==
    ASSUME NEW i \in StepEvents, NEW board, Reflects(board, i - 1)
    PROVE  Reflects(ApplyMove(board, Says(i)), i)
<1> DEFINE next == ApplyMove(board, Says(i))
<1>1. board \in BoardType /\ (board.issues = {} <=> SoundUpTo(i - 1))
  BY DEF Reflects
<1>2. next \in BoardType /\ board.issues \subseteq next.issues
  BY <1>1, MoveKeepsIssues DEF Says
<1>3. SoundUpTo(i) <=> SoundUpTo(i - 1) /\ SoundStep(i)
  BY StepSays
<1>4. CASE board.issues # {}
  BY <1>1, <1>2, <1>3, <1>4 DEF Reflects
<1>5. CASE board.issues = {}
  BY <1>1, <1>2, <1>3, <1>5, RulesAreChecked, SoundStepReflects DEF Reflects
<1> QED
  BY <1>4, <1>5

IsPlay(f, n, cutoff) ==
    f = [i \in 0..n |->
            IF i = 0 THEN EmptyBoard
            ELSE IF IsStep(events[i]) /\ i <= cutoff
                 THEN ApplyMove(f[i - 1], MoveAt(events[i].addr))
                 ELSE f[i - 1]]

\* There is a function with the recursive equation of PlayedUpTo.
LEMMA PlayExists ==
    ASSUME Len(events) \in Nat, NEW cutoff
    PROVE  \E f : IsPlay(f, Len(events), cutoff)
<1> DEFINE Bad == {n \in 0..Len(events) : ~\E f : IsPlay(f, n, cutoff)}
<1>1. SUFFICES ASSUME Bad # {} PROVE FALSE
  OBVIOUS
<1>2. PICK n \in Bad : \A m \in Bad : n <= m
  BY <1>1, NatMin, Bad \in SUBSET Nat
<1>3. n # 0
  <2>1. IsPlay([i \in 0..0 |-> EmptyBoard], 0, cutoff)
    BY DEF IsPlay
  <2> QED
    BY <2>1
<1>4. PICK f : IsPlay(f, n - 1, cutoff)
  BY <1>2, <1>3
<1> DEFINE After(board, i) ==
               IF IsStep(events[i]) /\ i <= cutoff
               THEN ApplyMove(board, MoveAt(events[i].addr)) ELSE board
           g == [i \in 0..n |-> IF i = n THEN After(f[n - 1], n) ELSE f[i]]
<1>5. \A i \in 0..(n - 1) :
         f[i] = IF i = 0 THEN EmptyBoard ELSE After(f[i - 1], i)
  BY <1>4 DEF IsPlay
<1> HIDE DEF After
<1>6. ASSUME NEW i \in 0..n
      PROVE  g[i] = IF i = 0 THEN EmptyBoard ELSE After(g[i - 1], i)
  <2>1. CASE i = n
    BY <2>1, <1>3
  <2>2. CASE i # n
    BY <1>5, <2>2
  <2> QED
    BY <2>1, <2>2
<1>7. IsPlay(g, n, cutoff)
  BY <1>6 DEF IsPlay, After
<1> QED
  BY <1>2, <1>7

\* The equation of PlayedUpTo.
LEMMA PlayUnfolds ==
    ASSUME Len(events) \in Nat, NEW cutoff
    PROVE  /\ PlayedUpTo(cutoff)[0] = EmptyBoard
           /\ \A i \in 1..Len(events) :
                 PlayedUpTo(cutoff)[i] =
                    IF IsStep(events[i]) /\ i <= cutoff
                    THEN ApplyMove(PlayedUpTo(cutoff)[i - 1], MoveAt(events[i].addr))
                    ELSE PlayedUpTo(cutoff)[i - 1]
<1>1. IsPlay(PlayedUpTo(cutoff), Len(events), cutoff)
  BY PlayExists DEF PlayedUpTo, IsPlay
<1> HIDE DEF PlayedUpTo
<1> QED
  BY <1>1 DEF IsPlay

\* When no step comes after the cutoff, the board ends up in agreement with the
\* whole log.
LEMMA BoardsReflect ==
    ASSUME Len(events) \in Nat, NEW cutoff \in Nat, \A i \in StepEvents : i <= cutoff
    PROVE  Reflects(PlayedUpTo(cutoff)[Len(events)], Len(events))
<1> DEFINE board == PlayedUpTo(cutoff)
           Bad == {n \in 0..Len(events) : ~Reflects(board[n], n)}
<1>1. SUFFICES ASSUME Bad # {} PROVE FALSE
  OBVIOUS
<1>2. PICK n \in Bad : \A m \in Bad : n <= m
  BY <1>1, NatMin, Bad \in SUBSET Nat
<1>3. n # 0
  BY <1>2, PlayUnfolds, EmptyReflects
<1>4. n \in 1..Len(events) /\ Reflects(board[n - 1], n - 1)
  BY <1>2, <1>3
<1>5. n \in StepEvents <=> IsStep(events[n]) /\ n <= cutoff
  BY <1>4 DEF StepEvents
<1>6. board[n] = IF n \in StepEvents THEN ApplyMove(board[n - 1], Says(n))
                 ELSE board[n - 1]
  BY <1>4, <1>5, PlayUnfolds DEF Says
<1> HIDE DEF board
<1>7. CASE n \in StepEvents
  BY <1>2, <1>4, <1>6, <1>7, StepReflects
<1>8. CASE n \notin StepEvents
  BY <1>2, <1>4, <1>6, <1>8, NoStepSays
<1> QED
  BY <1>7, <1>8

\* SolutionEvent is the last Act of the solution, if there is one.
LEMMA LastSolution ==
    ASSUME Len(events) \in Nat
    PROVE  \/ /\ SolutionEvent = 0
              /\ \A s \in 1..Len(events) : ~IsSolution(events[s])
           \/ /\ SolutionEvent \in 1..Len(events)
              /\ IsSolution(events[SolutionEvent])
              /\ \A s \in 1..Len(events) : IsSolution(events[s]) => s <= SolutionEvent
<1> DEFINE n == Len(events)
           at == {s \in 1..n : IsSolution(events[s])}
           T == {k \in Nat : k < n /\ n - k \in at}
<1>1. CASE at = {}
  BY <1>1 DEF SolutionEvent
<1>2. CASE at # {}
  <2>1. PICK s \in at : TRUE
    BY <1>2
  <2>2. n - s \in T
    <3>1. n - s \in Nat /\ n - s < n /\ n - (n - s) = s
      OBVIOUS
    <3> QED
      BY <3>1
  <2>3. PICK k \in T : \A m \in T : k <= m
    BY <2>2, NatMin
  <2>4. ASSUME NEW j \in at PROVE j <= n - k
    <3>1. n - j \in Nat /\ n - j < n /\ n - (n - j) = j
      OBVIOUS
    <3>2. n - j \in T
      BY <3>1
    <3> QED
      BY <2>3, <3>1, <3>2
  <2>5. \E i \in at : \A j \in at : j <= i
    BY <2>3, <2>4
  <2>6. SolutionEvent \in at /\ \A j \in at : j <= SolutionEvent
    BY <1>2, <2>5 DEF SolutionEvent
  <2> QED
    BY <2>6
<1> QED
  BY <1>1, <1>2

\* The board shows no issue just when the steps kept the rules, one of them
\* took an inventory and one extracted, and every name stands as paired.
LEMMA BoardsTell ==
    ASSUME NEW board, Len(events) \in Nat, Reflects(board, Len(events))
    PROVE  BoardIssues(board) = {} <=>
             /\ \A i \in StepEvents : SoundStep(i)
             /\ \E i \in StepEvents : Says(i).kind = "inventory"
             /\ \E i \in StepEvents : Says(i).kind = "extract"
             /\ \A n \in Names : \E i \in StepEvents :
                   /\ Says(i).kind = "pair" /\ Says(i).name = n
                   /\ \A j \in StepEvents : j > i => ~Unpairs(j, n)
<1> DEFINE N == Len(events)
<1>1. \A j \in StepEvents : j <= N /\ \A i \in StepEvents : j > i <=> i < j
  BY DEF StepEvents
<1>2. SoundUpTo(N) <=> \A i \in StepEvents : SoundStep(i)
  BY <1>1 DEF SoundUpTo
<1>3. \A kind : SaidUpTo(N, kind) <=> \E i \in StepEvents : Says(i).kind = kind
  BY <1>1 DEF SaidUpTo
<1>4. \A n : Coupled(N, n) <=>
                \E i \in StepEvents :
                   /\ Says(i).kind = "pair" /\ Says(i).name = n
                   /\ \A j \in StepEvents : j > i => ~Unpairs(j, n)
  BY <1>1, Zenon DEF Coupled
<1>5. \A n \in Names : Pairs[n] # {}
  BY AnagramsAssumption
<1>6. BoardIssues(board) = {} <=>
        /\ board.issues = {} /\ board.inventory /\ board.extract
        /\ \A n \in Names : board.paired[n] # {}
  BY DEF BoardIssues, Reflects, BoardType
<1>7. BoardIssues(board) = {} <=>
        /\ SoundUpTo(N) /\ SaidUpTo(N, "inventory") /\ SaidUpTo(N, "extract")
        /\ \A n \in Names : Coupled(N, n)
  BY <1>5, <1>6 DEF Reflects
<1> HIDE DEF N
<1> QED
  BY <1>2, <1>3, <1>4, <1>7

\* What verify_events finds is nothing just of a run that keeps the rules.
LEMMA IssuesMeanUnsolved ==
    ASSUME Len(events) \in Nat
    PROVE  ContestIssues = {} <=> Solved
<1> DEFINE solution == /\ At(Solution) \in Contents
                       /\ SolutionIssues(LinesOf[At(Solution)]) = {}
           ruled == /\ \A i \in StepEvents : SoundStep(i)
                    /\ \E i \in StepEvents : Says(i).kind = "inventory"
                    /\ \E i \in StepEvents : Says(i).kind = "extract"
                    /\ \A n \in Names : \E i \in StepEvents :
                          /\ Says(i).kind = "pair" /\ Says(i).name = n
                          /\ \A j \in StepEvents : j > i => ~Unpairs(j, n)
           onTime == SolutionEvent # 0 /\ \A i \in StepEvents : i <= SolutionEvent
<1>1. /\ SolutionEvent \in Nat
      /\ \A i \in StepEvents : i \in 1..Len(events) /\ IsStep(events[i])
  BY LastSolution DEF StepEvents
<1>2. ContestIssues = {} <=>
        NamesObserved /\ onTime /\ BoardIssues(Played) = {} /\ solution
  <2>1. /\ onTime <=> SolutionEvent # 0 /\ ~\E i \in StepEvents : i > SolutionEvent
        /\ \A i \in StepEvents : i > SolutionEvent <=> ~(i <= SolutionEvent)
    BY <1>1
  <2> QED
    BY <2>1 DEF ContestIssues
<1>3. onTime => Played = PlayedUpTo(SolutionEvent)[Len(events)]
  BY DEF Played
<1>4. onTime => (BoardIssues(Played) = {} <=> ruled)
  BY <1>1, <1>3, BoardsReflect, BoardsTell
<1>5. onTime <=>
        \E s \in 1..Len(events) : IsSolution(events[s]) /\ \A i \in StepEvents : i < s
  <2>1. \A i \in StepEvents : \A s \in 1..Len(events) : IsSolution(events[s]) => i # s
    BY <1>1, ContestAssumption DEF IsStep, IsSolution
  <2>2. ASSUME onTime
        PROVE  \E s \in 1..Len(events) :
                  IsSolution(events[s]) /\ \A i \in StepEvents : i < s
    <3>1. SolutionEvent \in 1..Len(events) /\ IsSolution(events[SolutionEvent])
      BY <2>2, LastSolution
    <3>2. \A i \in StepEvents : i < SolutionEvent
      BY <1>1, <2>1, <2>2, <3>1
    <3> QED
      BY <3>1, <3>2
  <2>3. ASSUME NEW s \in 1..Len(events), IsSolution(events[s]),
               \A i \in StepEvents : i < s
        PROVE  onTime
    <3>1. SolutionEvent \in 1..Len(events) /\ s <= SolutionEvent
      BY <2>3, LastSolution
    <3> QED
      BY <1>1, <2>3, <3>1
  <2> QED
    BY <2>2, <2>3
<1>6. Solved <=> NamesObserved /\ onTime /\ solution /\ ruled
  <2>1. Solved <=>
          /\ NamesObserved /\ solution /\ ruled
          /\ \E s \in 1..Len(events) :
                IsSolution(events[s]) /\ \A i \in StepEvents : i < s
    BY Zenon DEF Solved
  <2> QED
    BY <1>5, <2>1
<1> QED
  BY <1>2, <1>4, <1>6
-----------------------------------------------------------------------------
(* The verdict is right, under any spelling.                               *)

\* A command or an edit keeps World's own invariant, and pays.
LEMMA PlayKeepsInv == ASSUME Inv, Play \/ Edit PROVE Inv' /\ Paid
<1>1. "DirtySpace" \in Answers \ {"InvariantError"}
  BY DEF Answers
<1>2. ASSUME NEW a \in Looked, ContestObserve(a) PROVE Inv' /\ Paid
  BY <1>1, <1>2, ContestAssumption, RefuseKeeps, ListKeeps, ObserveKeeps
     DEF ContestObserve, Command
<1>3. ASSUME NEW a \in StepFiles \cup {Solution}, NEW from \in BOOLEAN,
             NEW given \in Drafts[a], ContestStep(a, from, given)
      PROVE  Inv' /\ Paid
  <2> DEFINE data == StepBytes(a, from, given)
  <2>1. a \in Addrs /\ data \in Contents
    BY ContestAssumption DEF StepBytes
  <2>2. Refuse("DirtySpace") \/ ProposeAct(a, data, data, FALSE)
    BY <1>3 DEF ContestStep, Command
  <2> HIDE DEF data
  <2> QED
    BY <1>1, <2>1, <2>2, RefuseKeeps, ActKeeps
<1>4. ASSUME ContestFinish PROVE Inv' /\ Paid
  BY <1>1, <1>4, RefuseKeeps, FinishKeeps DEF ContestFinish, Command
<1>5. ASSUME NEW a \in StepFiles \cup {Solution}, NEW x \in Edits[a],
             OutsideEdit(Place[a], x)
      PROVE  Inv' /\ Paid
  <2>1. x \in Contents
    BY ContestAssumption
  <2>2. /\ files' \in [Paths -> Contents \cup {Directory, Missing}]
        /\ tampered' \in [Paths -> {"no", "seen", "unseen"}]
        /\ open' \in BOOLEAN /\ answer' \in Answers \ {"InvariantError"}
    BY <1>5, <2>1 DEF OutsideEdit, Inv, TypeOK, SelfCheckSilent
  <2> QED
    BY <1>5, <2>2, QuietKeeps DEF OutsideEdit
<1> QED
  BY <1>2, <1>3, <1>4, <1>5 DEF Play, Edit

\* So does every step of the contest.
LEMMA ContestKeepsInv == ASSUME Inv, [ContestNext]_contestVars PROVE Inv' /\ Paid
<1>1. ASSUME UNCHANGED vars PROVE Inv' /\ Paid
  <2>1. UNCHANGED <<events, acct, cells, saved, files, nextId, open, answer,
                    balances, tampered>>
    BY <1>1 DEF vars
  <2>2. /\ files' \in [Paths -> Contents \cup {Directory, Missing}]
        /\ tampered' \in [Paths -> {"no", "seen", "unseen"}]
        /\ open' \in BOOLEAN /\ answer' \in Answers \ {"InvariantError"}
    BY <2>1 DEF Inv, TypeOK, SelfCheckSilent
  <2> QED
    BY <2>1, <2>2, QuietKeeps
<1>2. \/ Play \/ Edit
      \/ UNCHANGED vars
  BY DEF ContestNext, JudgeLoad, JudgeCheck, JudgeReport, contestVars
<1> QED
  BY <1>1, <1>2, PlayKeepsInv

\* Whether a run is solved is a matter of the log and the files.
LEMMA SolvedStays ==
    ASSUME UNCHANGED <<events, files>>
    PROVE  Solved' <=> Solved
<1>1. StepEvents' = StepEvents /\ (NamesObserved' <=> NamesObserved)
  BY DEF StepEvents, NamesObserved
<1>2. \A a : At(a)' = At(a)
  BY DEF At
<1>3. \A i : Says(i)' = Says(i)
  BY <1>2 DEF Says, MoveAt
<1>4. /\ \A i, w : TakesBack(i, w)' <=> TakesBack(i, w)
      /\ \A i, n : Unpairs(i, n)' <=> Unpairs(i, n)
  BY <1>3 DEF TakesBack, Unpairs
<1>5. \A i : SoundStep(i)' <=> SoundStep(i)
  BY <1>1, <1>3, <1>4 DEF SoundStep
<1> QED
  BY <1>1, <1>2, <1>3, <1>4, <1>5 DEF Solved

\* The verdict is right when it is given, and nothing moves after it.
LEMMA VerdictKept ==
    ASSUME Inv, OkMeansSolved, [ContestNext]_contestVars
    PROVE  OkMeansSolved'
<1>1. CASE Play \/ Edit
  <2>1. judge' = judge /\ judge # "done"
    BY <1>1 DEF Play, Edit, Race, judgeVars
  <2> QED
    BY <2>1 DEF OkMeansSolved, Judged
<1>2. CASE JudgeLoad
  <2>1. judge' = "done" => report'.issues = {"refused"}
    BY <1>2 DEF JudgeLoad, NoReport
  <2> QED
    BY <2>1 DEF OkMeansSolved, Judged
<1>3. CASE JudgeCheck
  BY <1>3 DEF JudgeCheck, OkMeansSolved, Judged
<1>4. CASE JudgeReport
  <2>1. /\ report'.issues = IF alarms # {} THEN alarms ELSE ContestIssues
        /\ alarms' = alarms /\ UNCHANGED <<events, files>>
    BY <1>4 DEF JudgeReport, vars
  <2>2. ContestIssues = {} <=> Solved
    BY IssuesMeanUnsolved DEF Inv, TypeOK
  <2>3. Solved' <=> Solved
    BY <2>1, SolvedStays
  <2> QED
    BY <2>1, <2>2, <2>3 DEF OkMeansSolved, Judged
<1>5. CASE UNCHANGED contestVars
  <2>1. UNCHANGED <<judge, report, alarms, events, files>>
    BY <1>5 DEF contestVars, vars, judgeVars
  <2>2. Solved' <=> Solved
    BY <2>1, SolvedStays
  <2> QED
    BY <2>1, <2>2 DEF OkMeansSolved, Judged
<1> QED
  BY <1>1, <1>2, <1>3, <1>4, <1>5 DEF ContestNext

\* The judge, who plays the steps on a board, says ok exactly of the runs that
\* keep the rules of the game, for every contest whose key is in the letters,
\* however many steps were made and taken back, and whatever goes on around it.
THEOREM VerdictsAreRight == ContestSpec => []OkMeansSolved
<1>1. ContestInit => Inv /\ OkMeansSolved
  BY InitHolds DEF ContestInit, OkMeansSolved, Judged
<1>2. Inv /\ OkMeansSolved /\ [ContestNext]_contestVars => (Inv /\ OkMeansSolved)'
  BY ContestKeepsInv, VerdictKept
<1> QED
  BY <1>1, <1>2, PTL DEF ContestSpec

\* The commands of the contest leave log and account in order, whatever the
\* spelling of addresses: no command is refused by the self check.
THEOREM ContestKeepsKernel ==
    ContestSpec => [](EnergyAddsUp /\ OneChain /\ SelfCheckSilent)
<1>1. ContestInit => Inv
  BY InitHolds DEF ContestInit
<1>2. Inv /\ [ContestNext]_contestVars => Inv'
  BY ContestKeepsInv
<1>3. Inv => EnergyAddsUp /\ OneChain /\ SelfCheckSilent
  BY DEF Inv
<1> QED
  BY <1>1, <1>2, <1>3, PTL DEF ContestSpec

\* The contest implements the ledger, and gives away no work when nothing is
\* left: judging costs nothing, and every other command is World's.
THEOREM ContestImplementsLedger == ContestSpec => LedgerSpec /\ NoWorkUnpaid
<1> DEFINE Unpaid ==
      acct.remaining = 0 /\ events' # events =>
          /\ events'[Len(events')].op \in {"finish", "failed"}
          /\ acct' = acct /\ files' = files
<1>1. ContestInit => Inv /\ Promise!LedgerInit
  BY InitHolds, InitIsLedgerInit DEF ContestInit
<1>2. Inv /\ [ContestNext]_contestVars
        => /\ Inv'
           /\ [Promise!LedgerNext]_(Promise!ledgerVars) /\ [Unpaid]_vars
  BY ContestKeepsInv, PaidIsLedgerNext, PaidIsNoFreeWork
<1> QED
  BY <1>1, <1>2, PTL DEF ContestSpec, LedgerSpec, Promise!LedgerSpec, NoWorkUnpaid
=============================================================================
