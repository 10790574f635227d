---------------------------- MODULE OperationsProofs ----------------------------
(***************************************************************************)
(* Proofs about the weekly command, the daily snapshot and the watchdog    *)
(* (Operations), and about the one step of theirs that WeeklyRun opens up, *)
(* the ledger of execute, for any branches, findings and bounds.           *)
(***************************************************************************)
EXTENDS Operations, WeeklyRun, FiniteSetTheorems, SequenceTheorems, TLAPS

(***************************************************************************)
(* Operations.  The inductive invariant OInv holds each job to what it     *)
(* read: the weekly command's run stays completed and its lock keeps its   *)
(* mark and its snapshot valid until it commits, the daily job's mark is   *)
(* of trades that exist, and every line of the digest stays true because   *)
(* completed runs stay completed, marks are only added, and a branch       *)
(* trades in its own turn only.  WatchInv adds that what the watchdog has  *)
(* to tell is an issue of its day or still on its list.                    *)
(***************************************************************************)

(* The rows, alerts, report lines and subjects the jobs write. *)
Statuses == {"none", "running", "completed", "failed"}
Alerts == [branch : Names, run : Days, metric : Metrics, at : Nat, resolved : BOOLEAN]
Reports == [mark : Nat, alerts : SUBSET Metrics]
Lines == [branch : Names, date : Days, status : {"dry", "completed", "skipped", "failed"}, report : Seq(Reports)]
Topics == {<<"stuck">>} \cup ({"missing", "stale"} \X Names) \cup ({"critical"} \X Metrics)

(* The three jobs, as records. *)
WeeklyRecords ==
    [pc : {"idle", "branch", "trade", "mark", "check", "commit", "done"}, todo : Seq(Names), date : Days,
     mode : {"run", "force", "dry"}, status : {"none", "completed", "skipped"}, flow : SUBSET Metrics,
     mark : Nat, snap : Seq(Days), alerts : SUBSET Metrics, rows : SUBSET Alerts, digest : Seq(Lines), exit : {0, 1}]
DailyRecords ==
    [pc : {"idle", "check", "mark", "commit", "done"}, todo : Seq(Names), mark : Nat, day : Days, exit : {0, 1}]
WatchdogRecords ==
    [pc : {"idle", "raise", "done"}, todo : Seq(Topics), since : Nat, saw : SUBSET Alerts, exit : {0, 1}]

(* Every table holds what its columns can. *)
TablesTyped ==
    /\ now \in 0 .. Horizon
    /\ run \in [Names -> [Days -> Statuses]]
    /\ begun \in [Names -> [Days -> Nat]]
    /\ trades \in [Names -> Nat]
    /\ marks \in [Names -> SUBSET Nat]
    /\ snapshots \in [Names -> Seq(Days)]
    /\ riskAlerts \in SUBSET Alerts /\ IsFiniteSet(riskAlerts)
    /\ lock \in [Names -> {"free", "weekly", "daily"}]

WeeklyTyped == weekly \in WeeklyRecords
DailyTyped == daily \in DailyRecords
WatchdogTyped == watchdog \in WatchdogRecords

(* The weekly command works on the branch at the head of its list. *)
Marking == {"mark", "check", "commit"}
Working == {"trade"} \cup Marking

(* The lines told and the branches to come are the branches, in order. *)
Covered(told, todo) ==
    /\ Len(told) + Len(todo) = Len(Branches)
    /\ \A i \in 1 .. Len(told) : told[i].branch = Branches[i]
    /\ \A i \in 1 .. Len(todo) : todo[i] = Branches[Len(told) + i]

(* Where the weekly command is on its way through the branches. *)
Itinerary ==
    /\ weekly.pc = "idle" => weekly.todo = <<>> /\ weekly.digest = <<>>
    /\ weekly.pc \in Working => weekly.todo # <<>>
    /\ weekly.pc = "done" => weekly.todo = <<>>
    /\ weekly.pc # "idle" => Covered(weekly.digest, weekly.todo)

(* A mark is the value of trades that were committed. *)
MarksSound == \A b \in Names : marks[b] \subseteq 0 .. trades[b]

(* What a line of the digest says of its branch, against the tables. *)
Told(e, ran, marked, traded) ==
    /\ e.status \in {"completed", "skipped"} => ran[e.branch][e.date] = "completed"
    /\ e.report # <<>> =>
         /\ e.report[1].mark \in marked[e.branch]
         /\ e.status = "completed" => e.report[1].mark = traded[e.branch]

(* Every line so far is true, and the exit code counts the failures so far. *)
DigestSound ==
    /\ \A i \in 1 .. Len(weekly.digest) : Told(weekly.digest[i], run, marks, trades)
    /\ weekly.exit = 1 <=> \E i \in 1 .. Len(weekly.digest) : weekly.digest[i].status = "failed"

(* Only a completed run has findings. *)
AlertsOfCompleted == \A a \in riskAlerts : run[a.branch][a.run] = "completed"

(* A run whose findings are not yet written has no row of its own, and the *)
(* rows about to be written are its own. *)
FindingsOnce ==
    /\ weekly.pc \in Marking /\ weekly.status = "completed" =>
         \A a \in riskAlerts : a.branch = Branch => a.run # weekly.date
    /\ weekly.pc = "commit" =>
         \A r \in weekly.rows : r.branch = Branch /\ r.run = weekly.date /\ weekly.status = "completed"
    /\ weekly.pc = "commit" => IsFiniteSet(weekly.rows)

(* What the weekly command read and still relies on holds: its run, the mark *)
(* it took under the lock, and the snapshot it found missing. *)
WeeklyInHand ==
    /\ weekly.pc = "trade" => run[Branch][weekly.date] = "running"
    /\ weekly.pc \in Marking => weekly.status # "none" /\ run[Branch][weekly.date] = "completed"
    /\ weekly.pc \in {"check", "commit"} => weekly.mark = trades[Branch] /\ lock[Branch] = "weekly"
    /\ weekly.pc = "commit" /\ weekly.snap # <<>> =>
         Head(weekly.snap) \notin ToSet(snapshots[Branch])

(* The daily job marks trades that were committed, and writes under the lock. *)
DailyInHand ==
    /\ daily.pc \in {"check", "mark", "commit"} => daily.todo # <<>>
    /\ daily.pc \in {"mark", "commit"} => daily.mark <= trades[Head(daily.todo)]
    /\ daily.pc = "commit" => lock[Head(daily.todo)] = "daily"

(* The inductive invariant of the three jobs and their tables. *)
OInv ==
    /\ TablesTyped /\ WeeklyTyped /\ DailyTyped /\ WatchdogTyped
    /\ Itinerary /\ MarksSound /\ DigestSound /\ AlertsOfCompleted /\ FindingsOnce
    /\ WeeklyInHand /\ DailyInHand

(* The subjects with an issue dated since the watchdog began. *)
Open == {i[1] : i \in {j \in issues : j[2] \in Day(watchdog.since) .. Today}}
(* A subject has such an issue, or is still on the watchdog's list. *)
Raised(s) == s \in Open \/ s \in ToSet(watchdog.todo)

(* Everything the watchdog has to tell is raised; it ends well with an empty *)
(* list only. *)
WatchInv ==
    /\ watchdog.since <= now
    /\ watchdog.pc \in {"raise", "done"} /\ watchdog.exit = 0 =>
         /\ \A a \in watchdog.saw :
              ~a.resolved /\ watchdog.since - a.at <= Lookback => Raised(<<"critical", a.metric>>)
         /\ \A b \in Names, d \in Days :
              run[b][d] = "running" /\ begun[b][d] < watchdog.since => Raised(<<"stuck">>)
    /\ watchdog.pc = "done" /\ watchdog.exit = 0 => watchdog.todo = <<>>

(* Today is a day. *)
LEMMA TodayTyped == ASSUME TablesTyped PROVE Today \in Days /\ Today \in Nat
  BY OperationsAssumption DEF OperationsAssumption, TablesTyped, Today, Days, Day

(* The branches are distinct names. *)
LEMMA BranchesTyped == Branches \in Seq(Names) /\ IsInjective(Branches) /\ IsFiniteSet(Metrics) /\ Horizon \in Nat
  BY OperationsAssumption DEF OperationsAssumption, Names, ToSet, Range

(* Telling of the next branch keeps the lines in the order of the branches, *)
(* and no earlier line was about it. *)
LEMMA CoverOne ==
    ASSUME NEW told \in Seq(Lines), NEW todo \in Seq(Names), Covered(told, todo), todo # <<>>
    PROVE  /\ Head(todo) \in Names
           /\ \A i \in 1 .. Len(told) : told[i].branch # Head(todo)
           /\ \A e \in Lines : e.branch = Head(todo) => Covered(Append(told, e), Tail(todo))
<1>1. Head(todo) \in Names /\ Head(todo) = Branches[Len(told) + 1] /\ Len(told) + 1 \in DOMAIN Branches
  BY BranchesTyped DEF Covered
<1>2. ASSUME NEW i \in 1 .. Len(told) PROVE told[i].branch # Head(todo)
  <2>1. i \in DOMAIN Branches /\ i # Len(told) + 1 /\ told[i].branch = Branches[i]
    BY BranchesTyped DEF Covered
  <2> QED
    BY <1>1, <2>1, BranchesTyped DEF IsInjective
<1>3. ASSUME NEW e \in Lines, e.branch = Head(todo) PROVE Covered(Append(told, e), Tail(todo))
  <2>1. \A i \in 1 .. Len(Append(told, e)) : Append(told, e)[i].branch = Branches[i]
    BY <1>1, <1>3, BranchesTyped DEF Covered
  <2>2. \A i \in 1 .. Len(Tail(todo)) : Tail(todo)[i] = Branches[Len(Append(told, e)) + i]
    BY BranchesTyped DEF Covered
  <2> QED
    BY <2>1, <2>2, BranchesTyped DEF Covered
<1> QED
  BY <1>1, <1>2, <1>3

(* While branches are left, the one in hand has no line yet. *)
LEMMA BranchTyped ==
    ASSUME WeeklyTyped, Itinerary, weekly.todo # <<>>
    PROVE  /\ Branch \in Names /\ weekly.pc # "idle"
           /\ weekly.todo \in Seq(Names) /\ weekly.digest \in Seq(Lines)
           /\ Covered(weekly.digest, weekly.todo)
           /\ \A i \in 1 .. Len(weekly.digest) : weekly.digest[i].branch # Branch
<1>1. weekly.todo \in Seq(Names) /\ weekly.digest \in Seq(Lines)
  BY DEF WeeklyTyped, WeeklyRecords
<1>2. weekly.pc # "idle" /\ Covered(weekly.digest, weekly.todo)
  BY DEF Itinerary
<1> QED
  BY <1>1, <1>2, CoverOne DEF Branch

(* EndBranch adds one line and moves to the next branch. *)
LEMMA Ends ==
    ASSUME WeeklyTyped, Itinerary, weekly.todo # <<>>,
           NEW w \in WeeklyRecords, w.todo = weekly.todo, w.digest = weekly.digest, w.exit = weekly.exit,
           NEW e \in Lines, e.branch = Branch, weekly' = EndBranch(w, e)
    PROVE  /\ weekly' \in WeeklyRecords /\ weekly'.pc = "branch"
           /\ weekly'.digest = Append(weekly.digest, e)
           /\ weekly'.exit = IF e.status = "failed" THEN 1 ELSE weekly.exit
           /\ Itinerary'
<1>1. weekly.todo \in Seq(Names) /\ weekly.digest \in Seq(Lines) /\ weekly.exit \in {0, 1}
  BY DEF WeeklyTyped, WeeklyRecords
<1>2. Tail(weekly.todo) \in Seq(Names) /\ Append(weekly.digest, e) \in Seq(Lines)
  BY <1>1
<1>3. /\ weekly'.pc = "branch"
      /\ weekly'.todo = Tail(weekly.todo)
      /\ weekly'.digest = Append(weekly.digest, e)
      /\ weekly'.exit = IF e.status = "failed" THEN 1 ELSE weekly.exit
  BY DEF EndBranch, WeeklyRecords
<1>4. weekly' \in WeeklyRecords
  BY <1>1, <1>2 DEF EndBranch, WeeklyRecords
<1>5. Covered(weekly'.digest, weekly'.todo)
  BY <1>1, <1>3, CoverOne, BranchTyped DEF Branch
<1>6. Itinerary'
  BY <1>3, <1>5 DEF Itinerary, Working, Marking, Covered
<1> QED
  BY <1>3, <1>4, <1>6

(* A true line about the branch in hand keeps the digest true, provided *)
(* completed runs stay completed, marks are only added and the other branches *)
(* do not trade. *)
LEMMA EndBranchOk ==
    ASSUME TablesTyped, WeeklyTyped, Itinerary, DigestSound, weekly.todo # <<>>,
           NEW w \in WeeklyRecords, w.todo = weekly.todo, w.digest = weekly.digest, w.exit = weekly.exit,
           NEW e \in Lines, e.branch = Branch, weekly' = EndBranch(w, e),
           \A b \in Names, d \in Days : run[b][d] = "completed" => run'[b][d] = "completed",
           \A b \in Names : marks[b] \subseteq marks'[b],
           \A b \in Names \ {Branch} : trades'[b] = trades[b],
           Told(e, run', marks', trades')
    PROVE  WeeklyTyped' /\ Itinerary' /\ DigestSound' /\ FindingsOnce' /\ WeeklyInHand'
<1>1. /\ weekly' \in WeeklyRecords /\ weekly'.pc = "branch"
      /\ weekly'.digest = Append(weekly.digest, e)
      /\ weekly'.exit = IF e.status = "failed" THEN 1 ELSE weekly.exit
      /\ Itinerary'
  BY Ends
<1>2. weekly.digest \in Seq(Lines) /\ weekly.exit \in {0, 1}
  BY DEF WeeklyTyped, WeeklyRecords
<1>3. Len(weekly'.digest) = Len(weekly.digest) + 1 /\ weekly'.digest[Len(weekly.digest) + 1] = e
  BY <1>1, <1>2
<1>4. \A i \in 1 .. Len(weekly.digest) : weekly'.digest[i] = weekly.digest[i] /\ weekly.digest[i] \in Lines
  BY <1>1, <1>2
<1>5. ASSUME NEW i \in 1 .. Len(weekly'.digest) PROVE Told(weekly'.digest[i], run', marks', trades')
  <2>1. CASE i = Len(weekly.digest) + 1
    BY <1>3, <2>1
  <2>2. CASE i # Len(weekly.digest) + 1
    <3>1. i \in 1 .. Len(weekly.digest)
      BY <1>2, <1>3, <2>2
    <3>2. Told(weekly.digest[i], run, marks, trades)
      BY <3>1 DEF DigestSound
    <3>3. /\ weekly.digest[i].branch \in Names \ {Branch}
          /\ weekly.digest[i].date \in Days
      BY <3>1, <1>4, BranchTyped DEF Lines
    <3> QED
      BY <3>1, <3>2, <3>3, <1>4 DEF Told
  <2> QED
    BY <2>1, <2>2
<1>6. weekly'.exit = 1 <=> \E i \in 1 .. Len(weekly'.digest) : weekly'.digest[i].status = "failed"
  <2>1. weekly.exit = 1 <=> \E i \in 1 .. Len(weekly.digest) : weekly.digest[i].status = "failed"
    BY DEF DigestSound
  <2>2. Len(weekly.digest) \in Nat
    BY <1>2
  <2>3. CASE e.status = "failed"
    BY <1>1, <1>3, <2>2, <2>3
  <2>4. CASE e.status # "failed"
    <3>1. \A i \in 1 .. Len(weekly'.digest) : i \in 1 .. Len(weekly.digest) \/ i = Len(weekly.digest) + 1
      BY <1>3, <2>2
    <3>2. \A i \in 1 .. Len(weekly.digest) : i \in 1 .. Len(weekly'.digest)
      BY <1>3, <2>2
    <3> QED
      BY <1>1, <1>3, <1>4, <2>1, <2>4, <3>1, <3>2
  <2> QED
    BY <2>3, <2>4
<1>7. DigestSound'
  BY <1>5, <1>6 DEF DigestSound
<1> QED
  BY <1>1, <1>7 DEF WeeklyTyped, FindingsOnce, WeeklyInHand, Marking

(* The digest stays true while it does not change, completed runs stay *)
(* completed, marks are only added and its branches do not trade. *)
LEMMA DigestKept ==
    ASSUME TablesTyped, WeeklyTyped, DigestSound, weekly'.digest = weekly.digest, weekly'.exit = weekly.exit,
           \A b \in Names, d \in Days : run[b][d] = "completed" => run'[b][d] = "completed",
           \A b \in Names : marks[b] \subseteq marks'[b],
           \A i \in 1 .. Len(weekly.digest) : trades'[weekly.digest[i].branch] = trades[weekly.digest[i].branch]
    PROVE  DigestSound'
<1>1. weekly.digest \in Seq(Lines)
  BY DEF WeeklyTyped, WeeklyRecords
<1>2. ASSUME NEW i \in 1 .. Len(weekly.digest) PROVE Told(weekly.digest[i], run', marks', trades')
  <2>1. weekly.digest[i] \in Lines
    BY <1>1
  <2>2. weekly.digest[i].branch \in Names /\ weekly.digest[i].date \in Days
    BY <2>1 DEF Lines
  <2>3. Told(weekly.digest[i], run, marks, trades)
    BY DEF DigestSound
  <2> QED
    BY <2>2, <2>3 DEF Told
<1> QED
  BY <1>2 DEF DigestSound

(* Entry makes a line about the branch in hand. *)
LEMMA EntryTyped ==
    ASSUME WeeklyTyped, Itinerary, weekly.todo # <<>>,
           NEW said \in {"dry", "completed", "skipped", "failed"}, NEW report \in Seq(Reports)
    PROVE  /\ Entry(said, report) \in Lines /\ Entry(said, report).branch = Branch
           /\ Entry(said, report).status = said /\ Entry(said, report).report = report
           /\ Entry(said, report).date = weekly.date
  BY BranchTyped DEF Entry, Lines, WeeklyTyped, WeeklyRecords

(* What is known of the weekly command survives the steps of others, as long as *)
(* they take neither its lock nor its snapshot. *)
LEMMA WeeklyKept ==
    ASSUME OInv, UNCHANGED <<weekly, run, trades, riskAlerts>>,
           \A b \in Names : marks[b] \subseteq marks'[b],
           weekly.pc \in {"check", "commit"} => lock'[Branch] = "weekly",
           weekly.pc = "commit" /\ weekly.snap # <<>> => Head(weekly.snap) \notin ToSet(snapshots'[Branch])
    PROVE  /\ WeeklyTyped' /\ Itinerary' /\ DigestSound' /\ AlertsOfCompleted' /\ FindingsOnce'
           /\ WeeklyInHand'
<1>1. WeeklyTyped' /\ Itinerary' /\ AlertsOfCompleted' /\ FindingsOnce' /\ WeeklyInHand'
  BY DEF OInv, WeeklyTyped, Itinerary, AlertsOfCompleted, FindingsOnce, WeeklyInHand, Branch
<1>2. DigestSound'
  BY DigestKept DEF OInv
<1> QED
  BY <1>1, <1>2

(* What is known of the daily job survives the steps of others, as long as they *)
(* leave it the lock and only add trades. *)
LEMMA DailyKept ==
    ASSUME OInv, UNCHANGED daily,
           \A b \in Names : trades[b] <= trades'[b] /\ trades'[b] \in Nat,
           daily.pc = "commit" => lock'[Head(daily.todo)] = "daily"
    PROVE  DailyTyped' /\ DailyInHand'
<1>1. DailyTyped' /\ (daily.pc \in {"check", "mark", "commit"} => daily.todo # <<>>)
  BY DEF OInv, DailyTyped, DailyInHand
<1>2. ASSUME daily.pc \in {"mark", "commit"} PROVE daily.mark <= trades'[Head(daily.todo)]
  <2>1. Head(daily.todo) \in Names /\ daily.mark \in Nat
    BY <1>1, <1>2 DEF OInv, DailyTyped, DailyRecords
  <2>2. trades[Head(daily.todo)] \in Nat /\ daily.mark <= trades[Head(daily.todo)]
    BY <1>2, <2>1 DEF OInv, TablesTyped, DailyInHand
  <2> QED
    BY <2>1, <2>2
<1> QED
  BY <1>1, <1>2 DEF DailyInHand

(* While the daily job works there is a branch in hand, and NextBranch leaves *)
(* one or ends. *)
LEMMA HeadTyped ==
    ASSUME OInv, daily.pc \in {"check", "mark", "commit"}
    PROVE  /\ daily.todo \in Seq(Names) /\ daily.todo # <<>> /\ Head(daily.todo) \in Names
           /\ \A failed \in BOOLEAN :
                /\ NextBranch(daily, failed) \in DailyRecords
                /\ NextBranch(daily, failed).pc \in {"check", "done"}
                /\ NextBranch(daily, failed).pc = "check" => NextBranch(daily, failed).todo # <<>>
<1>1. daily.todo \in Seq(Names) /\ daily.todo # <<>>
  BY DEF OInv, DailyTyped, DailyRecords, DailyInHand
<1>2. Tail(daily.todo) \in Seq(Names) /\ Head(daily.todo) \in Names
  BY <1>1
<1>3. \A failed \in BOOLEAN : NextBranch(daily, failed) \in DailyRecords
  BY <1>2 DEF OInv, DailyTyped, DailyRecords, NextBranch
<1>4. \A failed \in BOOLEAN : /\ NextBranch(daily, failed).pc \in {"check", "done"}
                              /\ NextBranch(daily, failed).pc = "check" => NextBranch(daily, failed).todo # <<>>
  BY <1>2 DEF OInv, DailyTyped, DailyRecords, NextBranch
<1> QED
  BY <1>1, <1>2, <1>3, <1>4

(* The marks of a branch lie between none and all of its trades. *)
LEMMA MarkedTrades == ASSUME OInv, NEW b \in Names PROVE trades[b] \in Nat /\ marks[b] \subseteq 0 .. trades[b]
  BY DEF OInv, TablesTyped, MarksSound

(* The steps of the daily job keep the invariant. *)
LEMMA DailyStartOInv == ASSUME OInv, DailyStart PROVE OInv'
<1>1. TablesTyped' /\ MarksSound' /\ WatchdogTyped'
  BY DEF OInv, DailyStart, database, TablesTyped, MarksSound, WatchdogTyped
<1>2. /\ WeeklyTyped' /\ Itinerary' /\ DigestSound' /\ AlertsOfCompleted' /\ FindingsOnce' /\ WeeklyInHand'
  BY WeeklyKept DEF DailyStart, database, OInv, WeeklyInHand
<1>3. 0 \in Days
  BY BranchesTyped DEF Days, Day
<1>4. daily' \in DailyRecords
  BY <1>3, BranchesTyped DEF DailyStart, DailyRecords, IdleDaily
<1>5. DailyInHand'
  BY DEF DailyStart, DailyInHand, IdleDaily
<1> QED
  BY <1>1, <1>2, <1>4, <1>5 DEF OInv, DailyTyped

LEMMA DailyCheckOInv == ASSUME OInv, DailyCheck PROVE OInv'
<1>1. TablesTyped' /\ MarksSound' /\ WatchdogTyped'
  BY DEF OInv, DailyCheck, database, TablesTyped, MarksSound, WatchdogTyped
<1>2. /\ WeeklyTyped' /\ Itinerary' /\ DigestSound' /\ AlertsOfCompleted' /\ FindingsOnce' /\ WeeklyInHand'
  BY WeeklyKept DEF DailyCheck, database, OInv, WeeklyInHand
<1>3. Head(daily.todo) \in Names /\ trades[Head(daily.todo)] \in Nat
  BY HeadTyped, MarkedTrades DEF DailyCheck
<1>4. DailyTyped' /\ DailyInHand'
  <2>1. CASE TakenToday(Head(daily.todo))
    <3>1. daily' = NextBranch(daily, FALSE)
      BY <2>1 DEF DailyCheck
    <3> QED
      BY <3>1, HeadTyped DEF DailyCheck, DailyTyped, DailyInHand
  <2>2. CASE ~TakenToday(Head(daily.todo))
    <3>1. daily' = [daily EXCEPT !.pc = "mark", !.mark = trades[Head(daily.todo)]]
      BY <2>2 DEF DailyCheck
    <3>2. daily \in DailyRecords
      BY DEF OInv, DailyTyped
    <3>3. daily' \in DailyRecords /\ daily'.pc = "mark" /\ daily'.mark = trades[Head(daily.todo)]
          /\ daily'.todo = daily.todo
      BY <3>1, <3>2, <1>3 DEF DailyRecords
    <3>4. daily.todo # <<>> /\ trades' = trades
      BY HeadTyped DEF DailyCheck, database
    <3> QED
      BY <3>3, <3>4, <1>3 DEF DailyTyped, DailyInHand
  <2> QED
    BY <2>1, <2>2
<1> QED
  BY <1>1, <1>2, <1>4 DEF OInv

LEMMA DailyMarkOInv == ASSUME OInv, DailyMark PROVE OInv'
<1>1. TablesTyped' /\ MarksSound' /\ WatchdogTyped'
  BY DEF OInv, DailyMark, database, TablesTyped, MarksSound, WatchdogTyped
<1>2. Head(daily.todo) \in Names /\ lock[Head(daily.todo)] = "free"
  BY HeadTyped DEF DailyMark
<1>3. weekly.pc \in {"check", "commit"} => lock'[Branch] = "weekly"
  BY <1>2, BranchTyped DEF DailyMark, OInv, WeeklyInHand, TablesTyped, Itinerary, Working, Marking
<1>4. /\ WeeklyTyped' /\ Itinerary' /\ DigestSound' /\ AlertsOfCompleted' /\ FindingsOnce' /\ WeeklyInHand'
  BY <1>3, WeeklyKept DEF DailyMark, database, OInv, WeeklyInHand
<1>5. DailyTyped'
  BY TodayTyped DEF DailyMark, OInv, DailyTyped, DailyRecords
<1>6. DailyInHand'
  BY <1>2, HeadTyped DEF DailyMark, database, OInv, DailyTyped, DailyRecords, DailyInHand, TablesTyped
<1> QED
  BY <1>1, <1>4, <1>5, <1>6 DEF OInv

LEMMA DailyCommitOInv == ASSUME OInv, DailyCommit PROVE OInv'
<1> DEFINE b == Head(daily.todo)
<1>1. b \in Names /\ lock[b] = "daily" /\ daily.mark \in 0 .. trades[b] /\ daily.mark \in Nat /\ daily.day \in Days
  BY HeadTyped, MarkedTrades DEF DailyCommit, OInv, DailyInHand, DailyTyped, DailyRecords
<1>2. /\ marks' = [marks EXCEPT ![b] = @ \cup {daily.mark}]
      /\ snapshots' = [snapshots EXCEPT ![b] = Append(@, daily.day)]
      /\ lock' = [lock EXCEPT ![b] = "free"]
      /\ daily' = NextBranch(daily, FALSE)
      /\ UNCHANGED <<now, run, begun, trades, riskAlerts, weekly, watchdog>>
  BY DEF DailyCommit
<1> HIDE DEF b
<1>3. TablesTyped'
  <2>1. TablesTyped
    BY DEF OInv
  <2>2. snapshots[b] \in Seq(Days) /\ Append(snapshots[b], daily.day) \in Seq(Days)
    BY <1>1, <2>1 DEF TablesTyped
  <2>3. snapshots' \in [Names -> Seq(Days)]
    BY <1>2, <2>1, <2>2 DEF TablesTyped
  <2>4. marks' \in [Names -> SUBSET Nat]
    BY <1>1, <1>2, <2>1 DEF TablesTyped
  <2> QED
    BY <1>2, <2>1, <2>3, <2>4 DEF TablesTyped
<1>4. MarksSound' /\ \A n \in Names : marks[n] \subseteq marks'[n]
  BY <1>1, <1>2, MarkedTrades DEF OInv, TablesTyped, MarksSound
<1>5. ASSUME weekly.pc \in {"check", "commit"} PROVE lock'[Branch] = "weekly" /\ Branch # b /\ Branch \in Names
  BY <1>1, <1>2, <1>5, BranchTyped DEF OInv, WeeklyInHand, TablesTyped, Itinerary, Working, Marking
<1>6. weekly.pc = "commit" /\ weekly.snap # <<>> => Head(weekly.snap) \notin ToSet(snapshots'[Branch])
  BY <1>1, <1>2, <1>5 DEF OInv, WeeklyInHand, TablesTyped
<1>7. /\ WeeklyTyped' /\ Itinerary' /\ DigestSound' /\ AlertsOfCompleted' /\ FindingsOnce' /\ WeeklyInHand'
  BY <1>2, <1>4, <1>5, <1>6, WeeklyKept
<1>8. DailyTyped' /\ DailyInHand'
  BY <1>2, HeadTyped DEF DailyCommit, DailyTyped, DailyInHand
<1>9. WatchdogTyped'
  BY <1>2 DEF OInv, WatchdogTyped
<1> QED
  BY <1>3, <1>4, <1>7, <1>8, <1>9 DEF OInv

(* Unlocked leaves every row free or held by the other job. *)
LEMMA UnlockedTyped == ASSUME OInv, NEW job \in {"weekly", "daily"} PROVE Unlocked(job) \in [Names -> {"free", "weekly", "daily"}]
  BY DEF OInv, TablesTyped, Unlocked

(* The daily job giving up its lock leaves the weekly command its own. *)
LEMMA UnlockDailyOk ==
    ASSUME OInv, lock' = Unlocked("daily"), UNCHANGED <<now, database, weekly, watchdog>>
    PROVE  /\ TablesTyped' /\ MarksSound' /\ WatchdogTyped' /\ WeeklyTyped' /\ Itinerary' /\ DigestSound'
           /\ AlertsOfCompleted' /\ FindingsOnce' /\ WeeklyInHand'
<1>1. TablesTyped'
  BY UnlockedTyped DEF OInv, database, TablesTyped
<1>2. MarksSound' /\ WatchdogTyped'
  BY DEF OInv, database, MarksSound, WatchdogTyped
<1>3. weekly.pc \in {"check", "commit"} => lock'[Branch] = "weekly"
  BY BranchTyped DEF OInv, WeeklyInHand, TablesTyped, Itinerary, Working, Marking, Unlocked
<1>4. /\ WeeklyTyped' /\ Itinerary' /\ DigestSound' /\ AlertsOfCompleted' /\ FindingsOnce' /\ WeeklyInHand'
  BY <1>3, WeeklyKept DEF database, OInv, WeeklyInHand
<1> QED
  BY <1>1, <1>2, <1>4

LEMMA DailyFailsOInv == ASSUME OInv, DailyFails PROVE OInv'
<1>1. DailyTyped' /\ DailyInHand'
  BY HeadTyped DEF DailyFails, DailyTyped, DailyInHand
<1> QED
  BY <1>1, UnlockDailyOk DEF DailyFails, OInv

LEMMA CrashDailyOInv == ASSUME OInv, CrashDaily PROVE OInv'
<1>1. 0 \in Days
  BY BranchesTyped DEF Days, Day
<1>2. DailyTyped' /\ DailyInHand'
  BY <1>1 DEF CrashDaily, DailyTyped, DailyInHand, DailyRecords, IdleDaily
<1> QED
  BY <1>2, UnlockDailyOk DEF CrashDaily, OInv

(* Time passes. *)
LEMMA TickOInv == ASSUME OInv, Tick PROVE OInv'
<1>1. TablesTyped' /\ MarksSound' /\ WatchdogTyped'
  BY BranchesTyped DEF OInv, Tick, database, TablesTyped, MarksSound, WatchdogTyped
<1>2. /\ WeeklyTyped' /\ Itinerary' /\ DigestSound' /\ AlertsOfCompleted' /\ FindingsOnce' /\ WeeklyInHand'
  BY WeeklyKept DEF Tick, database, OInv, WeeklyInHand
<1>3. DailyTyped' /\ DailyInHand'
  BY DEF OInv, Tick, database, DailyTyped, DailyInHand
<1> QED
  BY <1>1, <1>2, <1>3 DEF OInv

(* An idle weekly command is a weekly command. *)
LEMMA IdleTyped == IdleWeekly \in WeeklyRecords
  BY BranchesTyped DEF IdleWeekly, WeeklyRecords, Days, Day

(* The steps of the weekly command keep the invariant. *)
LEMMA WeeklyStartOInv == ASSUME OInv, WeeklyStart PROVE OInv'
<1>1. TablesTyped' /\ MarksSound' /\ WatchdogTyped' /\ AlertsOfCompleted' /\ DailyTyped' /\ DailyInHand'
  BY DEF OInv, WeeklyStart, database, TablesTyped, MarksSound, WatchdogTyped, AlertsOfCompleted, DailyTyped, DailyInHand
<1>2. PICK mode \in {"run", "force", "dry"} :
         weekly' = [IdleWeekly EXCEPT !.pc = "branch", !.todo = Branches, !.mode = mode]
  BY DEF WeeklyStart
<1>3. /\ weekly' \in WeeklyRecords /\ weekly'.pc = "branch" /\ weekly'.todo = Branches
      /\ weekly'.digest = <<>> /\ weekly'.exit = 0
  BY <1>2, IdleTyped, BranchesTyped DEF WeeklyRecords, IdleWeekly
<1>4. WeeklyTyped' /\ FindingsOnce' /\ WeeklyInHand' /\ DigestSound'
  BY <1>3 DEF WeeklyTyped, FindingsOnce, WeeklyInHand, DigestSound, Marking
<1>5. Itinerary'
  BY <1>3, BranchesTyped DEF Itinerary, Covered, Working, Marking
<1> QED
  BY <1>1, <1>4, <1>5 DEF OInv

LEMMA DryRunOInv == ASSUME OInv, DryRun PROVE OInv'
<1>1. TablesTyped' /\ MarksSound' /\ WatchdogTyped' /\ AlertsOfCompleted' /\ DailyTyped' /\ DailyInHand'
  BY DEF OInv, DryRun, database, TablesTyped, MarksSound, WatchdogTyped, AlertsOfCompleted, DailyTyped, DailyInHand
<1>2. Entry("dry", <<>>) \in Lines /\ Entry("dry", <<>>).branch = Branch
      /\ Told(Entry("dry", <<>>), run, marks, trades)
  <2>1. <<>> \in Seq(Reports)
    OBVIOUS
  <2>2. /\ Entry("dry", <<>>) \in Lines /\ Entry("dry", <<>>).branch = Branch
        /\ Entry("dry", <<>>).status = "dry" /\ Entry("dry", <<>>).report = <<>>
    BY <2>1, EntryTyped DEF DryRun, OInv
  <2> QED
    BY <2>2 DEF Told
<1>3. WeeklyTyped' /\ Itinerary' /\ DigestSound' /\ FindingsOnce' /\ WeeklyInHand'
  BY <1>2, EndBranchOk DEF DryRun, database, OInv, WeeklyTyped
<1> QED
  BY <1>1, <1>3 DEF OInv

(* A line that says failed claims nothing. *)
LEMMA FailedEntry ==
    ASSUME OInv, weekly.todo # <<>>
    PROVE  /\ Entry("failed", <<>>) \in Lines /\ Entry("failed", <<>>).branch = Branch
           /\ \A ran, marked, traded : Told(Entry("failed", <<>>), ran, marked, traded)
<1>1. <<>> \in Seq(Reports)
  OBVIOUS
<1>2. /\ Entry("failed", <<>>) \in Lines /\ Entry("failed", <<>>).branch = Branch
      /\ Entry("failed", <<>>).status = "failed" /\ Entry("failed", <<>>).report = <<>>
  BY <1>1, EntryTyped DEF OInv
<1> QED
  BY <1>2 DEF Told

LEMMA ClaimOInv == ASSUME OInv, Claim PROVE OInv'
<1> DEFINE dated == [weekly EXCEPT !.date = Today]
           latest == run[Branch][Today]
<1>1. weekly.todo # <<>> /\ weekly \in WeeklyRecords /\ Branch \in Names /\ Today \in Days
  BY BranchTyped, TodayTyped DEF Claim, OInv, WeeklyTyped
<1>2. /\ dated \in WeeklyRecords /\ dated.date = Today
      /\ dated.todo = weekly.todo /\ dated.digest = weekly.digest /\ dated.exit = weekly.exit
  BY <1>1 DEF WeeklyRecords
<1>3. MarksSound' /\ WatchdogTyped' /\ DailyTyped' /\ DailyInHand'
  BY DEF OInv, Claim, MarksSound, WatchdogTyped, DailyTyped, DailyInHand
<1> HIDE DEF dated, latest
<1>4. CASE latest = "completed" /\ weekly' = [dated EXCEPT !.pc = "mark", !.status = "skipped", !.flow = {}]
           /\ UNCHANGED <<run, begun>>
  <2>1. TablesTyped' /\ AlertsOfCompleted'
    BY <1>4 DEF OInv, Claim, TablesTyped, AlertsOfCompleted
  <2>2. /\ weekly' \in WeeklyRecords /\ weekly'.pc = "mark" /\ weekly'.status = "skipped" /\ weekly'.date = Today
        /\ weekly'.todo = weekly.todo /\ weekly'.digest = weekly.digest /\ weekly'.exit = weekly.exit
    BY <1>2, <1>4 DEF WeeklyRecords
  <2>3. WeeklyTyped' /\ FindingsOnce' /\ WeeklyInHand'
    BY <1>1, <1>4, <2>2 DEF latest, WeeklyTyped, FindingsOnce, WeeklyInHand, Branch
  <2>4. Itinerary'
    BY <1>1, <2>2 DEF OInv, Claim, Itinerary
  <2>5. DigestSound'
    BY <1>4, <2>2, DigestKept DEF OInv, Claim
  <2> QED
    BY <1>3, <2>1, <2>3, <2>4, <2>5 DEF OInv
<1>5. CASE weekly' = EndBranch(dated, Entry("failed", <<>>)) /\ UNCHANGED <<run, begun>>
  <2>1. TablesTyped' /\ AlertsOfCompleted'
    BY <1>5 DEF OInv, Claim, TablesTyped, AlertsOfCompleted
  <2>2. WeeklyTyped' /\ Itinerary' /\ DigestSound' /\ FindingsOnce' /\ WeeklyInHand'
    BY <1>1, <1>2, <1>5, FailedEntry, EndBranchOk DEF OInv, Claim
  <2> QED
    BY <1>3, <2>1, <2>2 DEF OInv
<1>6. CASE /\ latest \in {"none", "failed"}
           /\ run' = [run EXCEPT ![Branch][Today] = "running"]
           /\ begun' = [begun EXCEPT ![Branch][Today] = now]
           /\ weekly' = [dated EXCEPT !.pc = "trade"]
  <2>1. /\ run' \in [Names -> [Days -> Statuses]] /\ run'[Branch][Today] = "running"
        /\ \A b \in Names, d \in Days : <<b, d>> # <<Branch, Today>> => run'[b][d] = run[b][d]
    BY <1>1, <1>6 DEF OInv, TablesTyped, Statuses
  <2>2. now \in Nat /\ begun' \in [Names -> [Days -> Nat]]
    BY <1>1, <1>6, BranchesTyped DEF OInv, TablesTyped
  <2>3. TablesTyped'
    BY <2>1, <2>2 DEF OInv, Claim, TablesTyped
  <2>4. \A b \in Names, d \in Days : run[b][d] = "completed" => run'[b][d] = "completed"
    BY <1>6, <2>1 DEF latest
  <2>5. AlertsOfCompleted'
    BY <2>4 DEF OInv, Claim, TablesTyped, Alerts, AlertsOfCompleted
  <2>6. /\ weekly' \in WeeklyRecords /\ weekly'.pc = "trade" /\ weekly'.date = Today
        /\ weekly'.todo = weekly.todo /\ weekly'.digest = weekly.digest /\ weekly'.exit = weekly.exit
    BY <1>2, <1>6 DEF WeeklyRecords
  <2>7. WeeklyTyped' /\ FindingsOnce' /\ WeeklyInHand'
    BY <2>1, <2>6 DEF WeeklyTyped, FindingsOnce, WeeklyInHand, Branch, Marking
  <2>8. Itinerary'
    BY <1>1, <2>6 DEF OInv, Claim, Itinerary
  <2>9. DigestSound'
    BY <2>4, <2>6, DigestKept DEF OInv, Claim
  <2> QED
    BY <1>3, <2>3, <2>5, <2>7, <2>8, <2>9 DEF OInv
<1> QED
  BY <1>4, <1>5, <1>6 DEF Claim, dated, latest

(* Only the branch in hand trades, and its run is under way: no completed run *)
(* is touched. *)
LEMMA TradingOk ==
    ASSUME OInv, weekly.pc = "trade",
           NEW ended \in {"running", "completed", "failed"}, run' = [run EXCEPT ![Branch][weekly.date] = ended],
           trades' \in {trades, [trades EXCEPT ![Branch] = @ + 1]},
           UNCHANGED <<now, begun, marks, snapshots, riskAlerts, lock, daily, watchdog>>
    PROVE  /\ TablesTyped' /\ DailyTyped' /\ WatchdogTyped' /\ MarksSound' /\ AlertsOfCompleted' /\ DailyInHand'
           /\ \A b \in Names, d \in Days : run[b][d] = "completed" => run'[b][d] = "completed"
           /\ \A b \in Names \ {Branch} : trades'[b] = trades[b]
<1>1. Branch \in Names /\ weekly.date \in Days /\ run[Branch][weekly.date] = "running"
  BY BranchTyped DEF OInv, Itinerary, Working, WeeklyTyped, WeeklyRecords, WeeklyInHand
<1>2. run' \in [Names -> [Days -> Statuses]]
  BY <1>1 DEF OInv, TablesTyped, Statuses
<1>3. trades' \in [Names -> Nat] /\ \A b \in Names : trades[b] <= trades'[b]
  <2>1. trades \in [Names -> Nat]
    BY DEF OInv, TablesTyped
  <2>2. CASE trades' = trades
    BY <2>1, <2>2
  <2>3. CASE trades' = [trades EXCEPT ![Branch] = @ + 1]
    BY <1>1, <2>1, <2>3
  <2> QED
    BY <2>2, <2>3
<1>4. \A b \in Names \ {Branch} : trades'[b] = trades[b]
  BY <1>1 DEF OInv, TablesTyped
<1>5. \A b \in Names, d \in Days : run[b][d] = "completed" => run'[b][d] = "completed"
  BY <1>1 DEF OInv, TablesTyped
<1>6. TablesTyped'
  BY <1>2, <1>3 DEF OInv, TablesTyped
<1>7. MarksSound'
  BY <1>3, MarkedTrades DEF MarksSound
<1>8. AlertsOfCompleted'
  BY <1>5 DEF OInv, TablesTyped, Alerts, AlertsOfCompleted
<1>9. DailyTyped' /\ DailyInHand'
  BY <1>3, DailyKept DEF OInv, DailyInHand
<1>10. WatchdogTyped'
  BY DEF OInv, WatchdogTyped
<1> QED
  BY <1>4, <1>5, <1>6, <1>7, <1>8, <1>9, <1>10

LEMMA TradingCompletesOInv == ASSUME OInv, TradingCompletes PROVE OInv'
<1>1. /\ Branch \in Names /\ weekly.date \in Days /\ run[Branch][weekly.date] = "running"
      /\ weekly.todo # <<>> /\ weekly \in WeeklyRecords
  BY BranchTyped DEF TradingCompletes, OInv, Itinerary, Working, WeeklyTyped, WeeklyRecords, WeeklyInHand
<1>4. \A i \in 1 .. Len(weekly.digest) : weekly.digest[i].branch \in Names \ {Branch}
  <2>1. /\ weekly.digest \in Seq(Lines)
        /\ \A i \in 1 .. Len(weekly.digest) : weekly.digest[i].branch # Branch
    BY <1>1, BranchTyped DEF OInv
  <2>2. \A i \in 1 .. Len(weekly.digest) : weekly.digest[i] \in Lines
    BY <2>1
  <2> QED
    BY <2>1, <2>2 DEF Lines
<1>2. CASE /\ run' = [run EXCEPT ![Branch][weekly.date] = "completed"]
           /\ \E flow \in SUBSET Metrics :
                weekly' = [weekly EXCEPT !.pc = "mark", !.status = "completed", !.flow = flow]
  <2>1. /\ TablesTyped' /\ DailyTyped' /\ WatchdogTyped' /\ MarksSound' /\ AlertsOfCompleted' /\ DailyInHand'
        /\ \A b \in Names, d \in Days : run[b][d] = "completed" => run'[b][d] = "completed"
        /\ \A b \in Names \ {Branch} : trades'[b] = trades[b]
    BY <1>2, TradingOk DEF TradingCompletes
  <2>2. /\ weekly' \in WeeklyRecords /\ weekly'.pc = "mark" /\ weekly'.status = "completed"
        /\ weekly'.date = weekly.date
        /\ weekly'.todo = weekly.todo /\ weekly'.digest = weekly.digest /\ weekly'.exit = weekly.exit
    BY <1>1, <1>2 DEF WeeklyRecords
  <2>3. run'[Branch][weekly.date] = "completed"
    BY <1>1, <1>2 DEF OInv, TablesTyped
  <2>4. \A a \in riskAlerts : a.branch = Branch => a.run # weekly.date
    BY <1>1 DEF OInv, AlertsOfCompleted
  <2>5. WeeklyTyped' /\ FindingsOnce' /\ WeeklyInHand'
    BY <2>2, <2>3, <2>4 DEF TradingCompletes, WeeklyTyped, FindingsOnce, WeeklyInHand, Branch
  <2>6. Itinerary'
    BY <1>1, <2>2 DEF OInv, TradingCompletes, Itinerary, Working
  <2>7. \A i \in 1 .. Len(weekly.digest) : trades'[weekly.digest[i].branch] = trades[weekly.digest[i].branch]
    BY <1>4, <2>1
  <2>8. DigestSound'
    BY <2>1, <2>2, <2>7, DigestKept DEF OInv, TradingCompletes
  <2> QED
    BY <2>1, <2>5, <2>6, <2>8 DEF OInv
<1>3. CASE weekly' = EndBranch(weekly, Entry("failed", <<>>)) /\ UNCHANGED run
  <2>1. run' = [run EXCEPT ![Branch][weekly.date] = "running"]
    BY <1>1, <1>3 DEF OInv, TablesTyped
  <2>2. /\ TablesTyped' /\ DailyTyped' /\ WatchdogTyped' /\ MarksSound' /\ AlertsOfCompleted' /\ DailyInHand'
        /\ \A b \in Names, d \in Days : run[b][d] = "completed" => run'[b][d] = "completed"
        /\ \A b \in Names \ {Branch} : trades'[b] = trades[b]
    BY <2>1, TradingOk DEF TradingCompletes
  <2>3. WeeklyTyped' /\ Itinerary' /\ DigestSound' /\ FindingsOnce' /\ WeeklyInHand'
    BY <1>1, <1>3, <2>2, FailedEntry, EndBranchOk DEF OInv, TradingCompletes
  <2> QED
    BY <2>2, <2>3 DEF OInv
<1> QED
  BY <1>2, <1>3 DEF TradingCompletes

LEMMA TradingFailsOInv == ASSUME OInv, TradingFails PROVE OInv'
<1>1. /\ Branch \in Names /\ weekly.date \in Days /\ run[Branch][weekly.date] = "running"
      /\ weekly.todo # <<>> /\ weekly \in WeeklyRecords
  BY BranchTyped DEF TradingFails, OInv, Itinerary, Working, WeeklyTyped, WeeklyRecords, WeeklyInHand
<1>2. \E ended \in {"running", "failed"} : run' = [run EXCEPT ![Branch][weekly.date] = ended]
  BY <1>1 DEF TradingFails, OInv, TablesTyped
<1>3. /\ TablesTyped' /\ DailyTyped' /\ WatchdogTyped' /\ MarksSound' /\ AlertsOfCompleted' /\ DailyInHand'
      /\ \A b \in Names, d \in Days : run[b][d] = "completed" => run'[b][d] = "completed"
      /\ \A b \in Names \ {Branch} : trades'[b] = trades[b]
  BY <1>2, TradingOk DEF TradingFails
<1>4. WeeklyTyped' /\ Itinerary' /\ DigestSound' /\ FindingsOnce' /\ WeeklyInHand'
  BY <1>1, <1>3, FailedEntry, EndBranchOk DEF OInv, TradingFails
<1> QED
  BY <1>3, <1>4 DEF OInv

LEMMA WeeklyMarkOInv == ASSUME OInv, WeeklyMark PROVE OInv'
<1>1. /\ Branch \in Names /\ weekly.todo # <<>> /\ weekly \in WeeklyRecords /\ lock[Branch] = "free"
      /\ trades[Branch] \in Nat
  BY BranchTyped, MarkedTrades DEF WeeklyMark, OInv, Itinerary, Working, Marking, WeeklyTyped
<1>2. TablesTyped' /\ MarksSound' /\ WatchdogTyped' /\ AlertsOfCompleted'
  BY <1>1 DEF OInv, WeeklyMark, database, TablesTyped, MarksSound, WatchdogTyped, AlertsOfCompleted
<1>3. DailyTyped' /\ DailyInHand'
  <2>1. daily.pc = "commit" => Head(daily.todo) \in Names /\ lock[Head(daily.todo)] = "daily"
    BY HeadTyped DEF OInv, DailyInHand
  <2>2. daily.pc = "commit" => lock'[Head(daily.todo)] = "daily"
    BY <1>1, <2>1 DEF WeeklyMark, OInv, TablesTyped
  <2>3. \A b \in Names : trades[b] <= trades'[b] /\ trades'[b] \in Nat
    BY MarkedTrades DEF WeeklyMark, database
  <2> QED
    BY <2>2, <2>3, DailyKept DEF WeeklyMark
<1>4. /\ weekly' \in WeeklyRecords /\ weekly'.pc = "check" /\ weekly'.mark = trades[Branch]
      /\ weekly'.status = weekly.status /\ weekly'.date = weekly.date
      /\ weekly'.todo = weekly.todo /\ weekly'.digest = weekly.digest /\ weekly'.exit = weekly.exit
  BY <1>1 DEF WeeklyMark, WeeklyRecords
<1>5. WeeklyTyped' /\ FindingsOnce'
  BY <1>4 DEF OInv, WeeklyMark, database, WeeklyTyped, FindingsOnce, Marking, Branch
<1>6. WeeklyInHand'
  <2>1. lock'[Branch] = "weekly"
    BY <1>1 DEF WeeklyMark, OInv, TablesTyped
  <2> QED
    BY <1>4, <2>1 DEF OInv, WeeklyMark, database, WeeklyInHand, Marking, Branch
<1>7. Itinerary'
  BY <1>1, <1>4 DEF OInv, WeeklyMark, Itinerary, Working, Marking
<1>8. DigestSound'
  BY <1>4, DigestKept DEF OInv, WeeklyMark, database
<1> QED
  BY <1>2, <1>3, <1>5, <1>6, <1>7, <1>8 DEF OInv

(* Findings are rows of the completed run in hand. *)
LEMMA FindingsTyped ==
    ASSUME OInv, weekly.pc = "check"
    PROVE  /\ Findings \in SUBSET Alerts /\ IsFiniteSet(Findings) /\ {f.metric : f \in Findings} \in SUBSET Metrics
           /\ \A f \in Findings : f.branch = Branch /\ f.run = weekly.date /\ weekly.status = "completed"
<1>1. /\ Branch \in Names /\ weekly.date \in Days /\ weekly.flow \in SUBSET Metrics /\ now \in Nat
  BY BranchTyped, BranchesTyped DEF OInv, Itinerary, Working, Marking, WeeklyTyped, WeeklyRecords, TablesTyped
<1>2. CASE weekly.status # "completed"
  <2>1. Findings = {}
    BY <1>2 DEF Findings
  <2> QED
    BY <2>1, FS_EmptySet
<1>3. CASE weekly.status = "completed"
  <2> DEFINE row(m) == [branch |-> Branch, run |-> weekly.date, metric |-> m, at |-> now, resolved |-> FALSE]
  <2>1. Findings = {row(m) : m \in weekly.flow}
    BY <1>3 DEF Findings
  <2>2. \A m \in weekly.flow : row(m) \in Alerts /\ row(m).metric = m /\ row(m).branch = Branch /\ row(m).run = weekly.date
    BY <1>1 DEF Alerts
  <2>3. IsFiniteSet(weekly.flow)
    BY <1>1, BranchesTyped, FS_Subset
  <2>4. IsFiniteSet(Findings)
    <3> DEFINE rows == [m \in weekly.flow |-> row(m)]
    <3>1. rows \in Surjection(weekly.flow, Findings)
      BY <2>1 DEF Surjection
    <3> HIDE DEF rows
    <3> QED
      BY <2>3, <3>1, FS_Surjection
  <2> QED
    BY <1>1, <1>3, <2>1, <2>2, <2>4
<1> QED
  BY <1>2, <1>3

LEMMA WeeklyCheckOInv == ASSUME OInv, WeeklyCheck PROVE OInv'
<1>1. /\ Branch \in Names /\ weekly.todo # <<>> /\ weekly \in WeeklyRecords /\ Today \in Days
  BY BranchTyped, TodayTyped DEF WeeklyCheck, OInv, Itinerary, Working, Marking, WeeklyTyped
<1>2. TablesTyped' /\ MarksSound' /\ WatchdogTyped' /\ AlertsOfCompleted' /\ DailyTyped' /\ DailyInHand'
  BY <1>1 DEF OInv, WeeklyCheck, database, TablesTyped, MarksSound, WatchdogTyped, AlertsOfCompleted, DailyTyped, DailyInHand
<1>3. PICK rows \in {{}, Findings} :
         weekly' = [weekly EXCEPT !.pc = "commit", !.snap = IF TakenToday(Branch) THEN <<>> ELSE <<Today>>,
                                  !.rows = rows, !.alerts = {f.metric : f \in Findings}]
  BY DEF WeeklyCheck
<1>4. /\ rows \in SUBSET Alerts /\ IsFiniteSet(rows) /\ {f.metric : f \in Findings} \in SUBSET Metrics
      /\ \A r \in rows : r.branch = Branch /\ r.run = weekly.date /\ weekly.status = "completed"
  BY FindingsTyped, FS_EmptySet DEF WeeklyCheck
<1>5. (IF TakenToday(Branch) THEN <<>> ELSE <<Today>>) \in Seq(Days)
  BY <1>1
<1>6. /\ weekly' \in WeeklyRecords /\ weekly'.pc = "commit" /\ weekly'.mark = weekly.mark
      /\ weekly'.snap = (IF TakenToday(Branch) THEN <<>> ELSE <<Today>>) /\ weekly'.rows = rows
      /\ weekly'.status = weekly.status /\ weekly'.date = weekly.date
      /\ weekly'.todo = weekly.todo /\ weekly'.digest = weekly.digest /\ weekly'.exit = weekly.exit
  BY <1>1, <1>3, <1>4, <1>5 DEF WeeklyRecords
<1>7. WeeklyTyped' /\ FindingsOnce'
  BY <1>4, <1>6 DEF OInv, WeeklyCheck, database, WeeklyTyped, FindingsOnce, Marking, Branch
<1>8. weekly'.snap # <<>> => Head(weekly'.snap) \notin ToSet(snapshots[Branch])
  <2>1. ASSUME weekly'.snap # <<>> PROVE ~TakenToday(Branch) /\ Head(weekly'.snap) = Today
    BY <1>6, <2>1
  <2> QED
    BY <2>1 DEF TakenToday, ToSet
<1>9. WeeklyInHand'
  BY <1>6, <1>8 DEF OInv, WeeklyCheck, database, WeeklyInHand, Marking, Branch
<1>10. Itinerary'
  BY <1>1, <1>6 DEF OInv, WeeklyCheck, Itinerary, Working, Marking
<1>11. DigestSound'
  BY <1>6, DigestKept DEF OInv, WeeklyCheck, database
<1> QED
  BY <1>2, <1>7, <1>9, <1>10, <1>11 DEF OInv

(* The lines a marking session can end with. *)
LEMMA ReportTyped ==
    ASSUME OInv, weekly.pc \in Marking
    PROVE  /\ Report \in Seq(Reports) /\ Report[1].mark = weekly.mark
           /\ weekly.status \in {"completed", "skipped"}
           /\ Entry(weekly.status, Report) \in Lines /\ Entry(weekly.status, Report).branch = Branch
           /\ Entry(weekly.status, Report).report = Report /\ Entry(weekly.status, Report).date = weekly.date
           /\ Entry(weekly.status, <<>>) \in Lines /\ Entry(weekly.status, <<>>).branch = Branch
           /\ Entry(weekly.status, <<>>).report = <<>> /\ Entry(weekly.status, <<>>).date = weekly.date
<1>1. weekly.mark \in Nat /\ weekly.alerts \in SUBSET Metrics
  BY DEF OInv, WeeklyTyped, WeeklyRecords
<1>2. [mark |-> weekly.mark, alerts |-> weekly.alerts] \in Reports
  BY <1>1 DEF Reports
<1>3. Report \in Seq(Reports) /\ Report[1].mark = weekly.mark /\ <<>> \in Seq(Reports)
  BY <1>2 DEF Report
<1>4. weekly.status \in {"completed", "skipped"} /\ weekly.todo # <<>>
  BY DEF OInv, WeeklyTyped, WeeklyRecords, WeeklyInHand, Itinerary, Working
<1>5. weekly.status \in {"dry", "completed", "skipped", "failed"} /\ WeeklyTyped /\ Itinerary
  BY <1>4 DEF OInv
<1>6. /\ Entry(weekly.status, Report) \in Lines /\ Entry(weekly.status, Report).branch = Branch
      /\ Entry(weekly.status, Report).report = Report /\ Entry(weekly.status, Report).date = weekly.date
  BY <1>3, <1>4, <1>5, EntryTyped
<1>7. /\ Entry(weekly.status, <<>>) \in Lines /\ Entry(weekly.status, <<>>).branch = Branch
      /\ Entry(weekly.status, <<>>).report = <<>> /\ Entry(weekly.status, <<>>).date = weekly.date
  <2> DEFINE none == <<>>
  <2>1. none \in Seq(Reports)
    OBVIOUS
  <2> HIDE DEF none
  <2>2. /\ Entry(weekly.status, none) \in Lines /\ Entry(weekly.status, none).branch = Branch
        /\ Entry(weekly.status, none).report = none /\ Entry(weekly.status, none).date = weekly.date
    BY <1>4, <1>5, <2>1, EntryTyped
  <2> QED
    BY <2>2 DEF none
<1> QED
  BY <1>3, <1>4, <1>6, <1>7

LEMMA WeeklyCommitOInv == ASSUME OInv, WeeklyCommit PROVE OInv'
<1>1. /\ Branch \in Names /\ weekly.todo # <<>> /\ weekly \in WeeklyRecords /\ weekly.date \in Days
      /\ weekly.mark \in Nat /\ weekly.snap \in Seq(Days) /\ weekly.rows \in SUBSET Alerts /\ IsFiniteSet(weekly.rows)
  BY BranchTyped DEF WeeklyCommit, OInv, Itinerary, Working, Marking, WeeklyTyped, WeeklyRecords, FindingsOnce
<1>2. weekly.mark = trades[Branch] /\ lock[Branch] = "weekly" /\ run[Branch][weekly.date] = "completed"
  BY DEF WeeklyCommit, OInv, WeeklyInHand, Marking
<1>3. TablesTyped
  BY DEF OInv
<1>4. TablesTyped'
  <2>1. snapshots' \in [Names -> Seq(Days)]
    <3>1. snapshots[Branch] \o weekly.snap \in Seq(Days)
      BY <1>1, <1>3 DEF TablesTyped
    <3> QED
      BY <1>1, <1>3, <3>1 DEF TablesTyped, WeeklyCommit
  <2>2. marks' \in [Names -> SUBSET Nat] /\ lock' \in [Names -> {"free", "weekly", "daily"}]
    BY <1>1, <1>3 DEF TablesTyped, WeeklyCommit
  <2>3. riskAlerts' \in SUBSET Alerts /\ IsFiniteSet(riskAlerts')
    BY <1>1, <1>3, FS_Union DEF TablesTyped, WeeklyCommit
  <2> QED
    BY <1>3, <2>1, <2>2, <2>3 DEF TablesTyped, WeeklyCommit
<1>5. /\ MarksSound' /\ weekly.mark \in marks'[Branch] /\ \A b \in Names : marks[b] \subseteq marks'[b]
      /\ trades' = trades /\ run' = run
  BY <1>1, <1>2, <1>3, MarkedTrades DEF WeeklyCommit, TablesTyped, MarksSound
<1>6. AlertsOfCompleted'
  <2>1. \A a \in weekly.rows : a.branch = Branch /\ a.run = weekly.date
    BY DEF OInv, WeeklyCommit, FindingsOnce
  <2> QED
    BY <1>2, <2>1 DEF OInv, WeeklyCommit, AlertsOfCompleted
<1>7. DailyTyped' /\ DailyInHand'
  <2>1. daily.pc = "commit" => Head(daily.todo) \in Names /\ lock[Head(daily.todo)] = "daily"
    BY HeadTyped DEF OInv, DailyInHand
  <2>2. daily.pc = "commit" => lock'[Head(daily.todo)] = "daily"
    BY <1>1, <1>2, <1>3, <2>1 DEF WeeklyCommit, TablesTyped
  <2>3. \A b \in Names : trades[b] <= trades'[b] /\ trades'[b] \in Nat
    BY <1>5, MarkedTrades
  <2> QED
    BY <2>2, <2>3, DailyKept DEF WeeklyCommit
<1>8. WatchdogTyped'
  BY DEF OInv, WeeklyCommit, WatchdogTyped
<1>9. /\ Entry(weekly.status, Report) \in Lines /\ Entry(weekly.status, Report).branch = Branch
      /\ Told(Entry(weekly.status, Report), run', marks', trades')
  BY <1>2, <1>5, ReportTyped DEF WeeklyCommit, Marking, Told
<1>10. WeeklyTyped' /\ Itinerary' /\ DigestSound' /\ FindingsOnce' /\ WeeklyInHand'
  BY <1>1, <1>5, <1>9, EndBranchOk DEF WeeklyCommit, OInv
<1> QED
  BY <1>4, <1>5, <1>6, <1>7, <1>8, <1>10 DEF OInv

(* The weekly command giving up its lock leaves the daily job its own. *)
LEMMA UnlockWeeklyOk ==
    ASSUME OInv, lock' = Unlocked("weekly"), UNCHANGED <<now, database, daily, watchdog>>
    PROVE  /\ TablesTyped' /\ MarksSound' /\ WatchdogTyped' /\ AlertsOfCompleted' /\ DailyTyped' /\ DailyInHand'
<1>1. TablesTyped'
  BY UnlockedTyped DEF OInv, database, TablesTyped
<1>2. MarksSound' /\ WatchdogTyped' /\ AlertsOfCompleted'
  BY DEF OInv, database, MarksSound, WatchdogTyped, AlertsOfCompleted
<1>3. daily.pc = "commit" => lock'[Head(daily.todo)] = "daily"
  BY HeadTyped DEF OInv, DailyInHand, Unlocked
<1>4. \A b \in Names : trades[b] <= trades'[b] /\ trades'[b] \in Nat
  BY MarkedTrades DEF database
<1> QED
  BY <1>1, <1>2, <1>3, <1>4, DailyKept

LEMMA WeeklyMarkFailsOInv == ASSUME OInv, WeeklyMarkFails PROVE OInv'
<1>1. weekly.pc \in Marking /\ weekly.todo # <<>> /\ weekly \in WeeklyRecords
      /\ run[Branch][weekly.date] = "completed"
  BY DEF WeeklyMarkFails, OInv, Itinerary, Working, Marking, WeeklyTyped, WeeklyInHand
<1>2. /\ Entry(weekly.status, <<>>) \in Lines /\ Entry(weekly.status, <<>>).branch = Branch
      /\ Told(Entry(weekly.status, <<>>), run, marks, trades)
  BY <1>1, ReportTyped DEF Told
<1>3. WeeklyTyped' /\ Itinerary' /\ DigestSound' /\ FindingsOnce' /\ WeeklyInHand'
  BY <1>1, <1>2, EndBranchOk DEF WeeklyMarkFails, database, OInv
<1> QED
  BY <1>3, UnlockWeeklyOk DEF WeeklyMarkFails, OInv

LEMMA RenderDigestOInv == ASSUME OInv, RenderDigest PROVE OInv'
<1>1. TablesTyped' /\ MarksSound' /\ WatchdogTyped' /\ AlertsOfCompleted' /\ DailyTyped' /\ DailyInHand'
  BY DEF OInv, RenderDigest, database, TablesTyped, MarksSound, WatchdogTyped, AlertsOfCompleted, DailyTyped, DailyInHand
<1>2. /\ weekly' \in WeeklyRecords /\ weekly'.pc = "done"
      /\ weekly'.todo = weekly.todo /\ weekly'.digest = weekly.digest /\ weekly'.exit = weekly.exit
  BY DEF OInv, RenderDigest, WeeklyTyped, WeeklyRecords
<1>3. WeeklyTyped' /\ FindingsOnce' /\ WeeklyInHand'
  BY <1>2 DEF WeeklyTyped, FindingsOnce, WeeklyInHand, Marking
<1>4. Itinerary'
  BY <1>2 DEF OInv, RenderDigest, Itinerary, Working, Marking
<1>5. DigestSound'
  BY <1>2, DigestKept DEF OInv, RenderDigest, database
<1> QED
  BY <1>1, <1>3, <1>4, <1>5 DEF OInv

LEMMA CrashWeeklyOInv == ASSUME OInv, CrashWeekly PROVE OInv'
<1>1. /\ weekly' \in WeeklyRecords /\ weekly'.pc = "idle" /\ weekly'.todo = <<>> /\ weekly'.digest = <<>>
      /\ weekly'.exit = 0
  BY IdleTyped DEF CrashWeekly, IdleWeekly
<1>2. WeeklyTyped' /\ FindingsOnce' /\ WeeklyInHand' /\ DigestSound' /\ Itinerary'
  BY <1>1 DEF WeeklyTyped, FindingsOnce, WeeklyInHand, DigestSound, Itinerary, Working, Marking
<1> QED
  BY <1>2, UnlockWeeklyOk DEF CrashWeekly, OInv

(* Steps that change only the watchdog or the issues. *)
LEMMA WeeklyDailyKept ==
    ASSUME OInv, UNCHANGED <<now, database, lock, weekly, daily>>, WatchdogTyped'
    PROVE  OInv'
<1>1. TablesTyped' /\ MarksSound' /\ DailyTyped' /\ DailyInHand'
  BY DEF OInv, database, TablesTyped, MarksSound, DailyTyped, DailyInHand
<1>2. /\ WeeklyTyped' /\ Itinerary' /\ DigestSound' /\ AlertsOfCompleted' /\ FindingsOnce' /\ WeeklyInHand'
  BY WeeklyKept DEF database, OInv, WeeklyInHand
<1> QED
  BY <1>1, <1>2 DEF OInv

(* SetToSeq lists exactly the elements of a finite set. *)
LEMMA FiniteSeq ==
    ASSUME NEW S, NEW T, S \subseteq T, IsFiniteSet(S)
    PROVE  SetToSeq(S) \in Seq(T) /\ ToSet(SetToSeq(S)) = S
<1> DEFINE n == Cardinality(S)
           f == SetToSeq(S)
<1>1. n \in Nat /\ ExistsBijection(1 .. n, S)
  BY FS_CardinalityType
<1>2. \E g \in [1 .. n -> S] : IsInjective(g)
  BY <1>1 DEF ExistsBijection, Bijection, Injection
<1>3. f \in [1 .. n -> S] /\ IsInjective(f)
  BY <1>2 DEF SetToSeq
<1>4. Cardinality(1 .. n) = n
  BY <1>1, FS_Interval
<1> HIDE DEF f
<1>5. f \in Injection(1 .. n, S)
  BY <1>3 DEF Injection
<1>6. f \in Surjection(1 .. n, S)
  BY <1>4, <1>5, FS_Injection
<1>7. ToSet(f) = S
  BY <1>3, <1>6 DEF ToSet, Surjection
<1>8. f \in Seq(T)
  BY <1>1, <1>3
<1> QED
  BY <1>7, <1>8 DEF f

(* A concatenation has the elements of both parts. *)
LEMMA JoinedSets ==
    ASSUME NEW T, NEW a \in Seq(T), NEW b \in Seq(T)
    PROVE  a \o b \in Seq(T) /\ ToSet(a \o b) = ToSet(a) \cup ToSet(b)
<1>1. a \o b \in Seq(T)
  OBVIOUS
<1>2. ToSet(a \o b) \subseteq ToSet(a) \cup ToSet(b)
  BY DEF ToSet
<1>3. ASSUME NEW x \in ToSet(a) PROVE x \in ToSet(a \o b)
  <2>1. PICK i \in 1 .. Len(a) : x = a[i]
    BY DEF ToSet
  <2>2. i \in 1 .. Len(a \o b) /\ (a \o b)[i] = x
    BY <2>1
  <2> QED
    BY <1>1, <2>2 DEF ToSet
<1>4. ASSUME NEW x \in ToSet(b) PROVE x \in ToSet(a \o b)
  <2>1. PICK i \in 1 .. Len(b) : x = b[i]
    BY DEF ToSet
  <2>2. Len(a) + i \in 1 .. Len(a \o b) /\ (a \o b)[Len(a) + i] = x
    BY <2>1
  <2> QED
    BY <1>1, <2>2 DEF ToSet
<1> QED
  BY <1>1, <1>2, <1>3, <1>4

(* There are finitely many branches. *)
LEMMA NamesFinite == IsFiniteSet(Names)
<1> DEFINE n == Len(Branches)
<1>1. IsFiniteSet(1 .. n)
  BY BranchesTyped, FS_Interval
<1>2. Branches \in Surjection(1 .. n, Names)
  BY BranchesTyped DEF Names, ToSet, Surjection
<1> HIDE DEF n
<1> QED
  BY <1>1, <1>2, FS_Surjection

(* The watchdog's list is well formed and names every stuck run and every *)
(* recent critical row. *)
LEMMA SubjectsTold ==
    ASSUME TablesTyped
    PROVE  /\ Subjects \in Seq(Topics)
           /\ StuckRuns # {} => <<"stuck">> \in ToSet(Subjects)
           /\ \A a \in Unnotified : <<"critical", a.metric>> \in ToSet(Subjects)
<1> DEFINE stuck == IF StuckRuns = {} THEN <<>> ELSE <<<<"stuck">>>>
           M == {<<"missing", b>> : b \in MissingRuns}
           L == {<<"stale", b>> : b \in StaleBranches}
           C == {<<"critical", a.metric>> : a \in Unnotified}
<1>1. stuck \in Seq(Topics) /\ (StuckRuns # {} => <<"stuck">> \in ToSet(stuck))
  <2>1. <<>> \in Seq(Topics) /\ <<<<"stuck">>>> \in Seq(Topics)
    BY DEF Topics
  <2>2. <<"stuck">> \in ToSet(<<<<"stuck">>>>)
    BY DEF ToSet
  <2> QED
    BY <2>1, <2>2
<1>2. SetToSeq(M) \in Seq(Topics) /\ ToSet(SetToSeq(M)) = M
  <2>1. MissingRuns \subseteq Names /\ IsFiniteSet(MissingRuns)
    BY NamesFinite, FS_Subset DEF MissingRuns
  <2>2. M \subseteq Topics
    BY <2>1 DEF Topics
  <2>3. IsFiniteSet(M)
    <3> DEFINE g == [b \in MissingRuns |-> <<"missing", b>>]
    <3>1. g \in Surjection(MissingRuns, M)
      BY DEF Surjection
    <3> HIDE DEF g, M
    <3> QED
      BY <2>1, <3>1, FS_Surjection
  <2> HIDE DEF M
  <2> QED
    BY <2>2, <2>3, FiniteSeq
<1>3. SetToSeq(L) \in Seq(Topics) /\ ToSet(SetToSeq(L)) = L
  <2>1. StaleBranches \subseteq Names /\ IsFiniteSet(StaleBranches)
    BY NamesFinite, FS_Subset DEF StaleBranches
  <2>2. L \subseteq Topics
    BY <2>1 DEF Topics
  <2>3. IsFiniteSet(L)
    <3> DEFINE g == [b \in StaleBranches |-> <<"stale", b>>]
    <3>1. g \in Surjection(StaleBranches, L)
      BY DEF Surjection
    <3> HIDE DEF g, L
    <3> QED
      BY <2>1, <3>1, FS_Surjection
  <2> HIDE DEF L
  <2> QED
    BY <2>2, <2>3, FiniteSeq
<1>4. SetToSeq(C) \in Seq(Topics) /\ ToSet(SetToSeq(C)) = C
  <2>1. Unnotified \subseteq Alerts /\ IsFiniteSet(Unnotified)
    BY FS_Subset DEF Unnotified, TablesTyped
  <2>2. C \subseteq Topics
    BY <2>1 DEF Topics, Alerts
  <2>3. IsFiniteSet(C)
    <3> DEFINE g == [a \in Unnotified |-> <<"critical", a.metric>>]
    <3>1. g \in Surjection(Unnotified, C)
      BY DEF Surjection
    <3> HIDE DEF g, C
    <3> QED
      BY <2>1, <3>1, FS_Surjection
  <2> HIDE DEF C
  <2> QED
    BY <2>2, <2>3, FiniteSeq
<1>5. Subjects = stuck \o SetToSeq(M) \o SetToSeq(L) \o SetToSeq(C)
  BY DEF Subjects
<1>6. \A a \in Unnotified : <<"critical", a.metric>> \in C
  OBVIOUS
<1> DEFINE m == SetToSeq(M)
           l == SetToSeq(L)
           c == SetToSeq(C)
<1>7. m \in Seq(Topics) /\ l \in Seq(Topics) /\ c \in Seq(Topics) /\ ToSet(c) = C /\ Subjects = stuck \o m \o l \o c
  BY <1>2, <1>3, <1>4, <1>5
<1> HIDE DEF stuck, m, l, c, C
<1> DEFINE sm == stuck \o m
           sml == sm \o l
<1>8. sm \in Seq(Topics) /\ ToSet(sm) = ToSet(stuck) \cup ToSet(m)
  BY <1>1, <1>7, JoinedSets
<1> HIDE DEF sm
<1>9. sml \in Seq(Topics) /\ ToSet(sml) = ToSet(sm) \cup ToSet(l)
  BY <1>7, <1>8, JoinedSets
<1> HIDE DEF sml
<1>10. sml \o c \in Seq(Topics) /\ ToSet(sml \o c) = ToSet(sml) \cup ToSet(c)
  BY <1>7, <1>9, JoinedSets
<1>11. Subjects = sml \o c
  BY <1>7 DEF sm, sml
<1>12. Subjects \in Seq(Topics) /\ ToSet(Subjects) = ToSet(stuck) \cup ToSet(m) \cup ToSet(l) \cup C
  BY <1>7, <1>8, <1>9, <1>10, <1>11
<1> QED
  BY <1>1, <1>6, <1>12

(* The steps of the watchdog keep the invariant. *)
LEMMA WatchdogStartOInv == ASSUME OInv, WatchdogStart PROVE OInv'
<1>1. Subjects \in Seq(Topics) /\ now \in Nat /\ riskAlerts \in SUBSET Alerts
  BY SubjectsTold, BranchesTyped DEF OInv, TablesTyped
<1>2. WatchdogTyped'
  BY <1>1 DEF WatchdogStart, WatchdogTyped, WatchdogRecords
<1> QED
  BY <1>2, WeeklyDailyKept DEF WatchdogStart

(* A list is its head and its tail. *)
LEMMA TailTyped ==
    ASSUME NEW T, NEW t \in Seq(T), t # <<>>
    PROVE  Tail(t) \in Seq(T) /\ Head(t) \in T /\ ToSet(t) = {Head(t)} \cup ToSet(Tail(t))
<1>1. Tail(t) \in Seq(T) /\ Head(t) \in T /\ Len(t) \in Nat /\ Len(t) > 0 /\ Head(t) = t[1]
      /\ Len(Tail(t)) = Len(t) - 1 /\ \A i \in 1 .. Len(t) - 1 : Tail(t)[i] = t[i + 1]
  OBVIOUS
<1>2. ASSUME NEW x \in ToSet(t) PROVE x \in {Head(t)} \cup ToSet(Tail(t))
  <2>1. PICK i \in 1 .. Len(t) : x = t[i]
    BY DEF ToSet
  <2>2. CASE i = 1
    BY <1>1, <2>1, <2>2
  <2>3. CASE i # 1
    <3>1. i - 1 \in 1 .. Len(Tail(t)) /\ Tail(t)[i - 1] = x
      BY <1>1, <2>1, <2>3
    <3>2. DOMAIN Tail(t) = 1 .. Len(Tail(t))
      BY <1>1
    <3> QED
      BY <3>1, <3>2 DEF ToSet
  <2> QED
    BY <2>2, <2>3
<1>3. ASSUME NEW x \in ToSet(Tail(t)) PROVE x \in ToSet(t)
  <2>1. PICK i \in 1 .. Len(Tail(t)) : x = Tail(t)[i]
    BY <1>1 DEF ToSet
  <2>2. i + 1 \in 1 .. Len(t) /\ t[i + 1] = x
    BY <1>1, <2>1
  <2> QED
    BY <2>2 DEF ToSet
<1>4. Head(t) \in ToSet(t)
  BY <1>1 DEF ToSet
<1> QED
  BY <1>1, <1>2, <1>3, <1>4

LEMMA EnsureIssueOInv == ASSUME OInv, EnsureIssue PROVE OInv'
<1>1. watchdog.todo \in Seq(Topics) /\ watchdog.todo # <<>> /\ watchdog \in WatchdogRecords
  BY DEF EnsureIssue, OInv, WatchdogTyped, WatchdogRecords
<1>2. Tail(watchdog.todo) \in Seq(Topics)
  BY <1>1
<1>3. WatchdogTyped'
  BY <1>1, <1>2 DEF EnsureIssue, WatchdogTyped, WatchdogRecords
<1> QED
  BY <1>3, WeeklyDailyKept DEF EnsureIssue

LEMMA EnsureIssueFailsOInv == ASSUME OInv, EnsureIssueFails PROVE OInv'
<1>1. WatchdogTyped'
  BY DEF EnsureIssueFails, OInv, WatchdogTyped, WatchdogRecords
<1> QED
  BY <1>1, WeeklyDailyKept DEF EnsureIssueFails

LEMMA WatchdogDoneOInv == ASSUME OInv, WatchdogDone PROVE OInv'
<1>1. WatchdogTyped'
  BY DEF WatchdogDone, OInv, WatchdogTyped, WatchdogRecords
<1> QED
  BY <1>1, WeeklyDailyKept DEF WatchdogDone

(* Handling an alert changes neither its branch nor its run. *)
LEMMA ResolveAlertOInv == ASSUME OInv, ResolveAlert PROVE OInv'
<1>1. PICK a \in riskAlerts : riskAlerts' = (riskAlerts \ {a}) \cup {[a EXCEPT !.resolved = TRUE]}
  BY DEF ResolveAlert
<1> DEFINE r == [a EXCEPT !.resolved = TRUE]
<1>2. riskAlerts \in SUBSET Alerts /\ IsFiniteSet(riskAlerts)
  BY DEF OInv, TablesTyped
<1>3. r \in Alerts /\ r.branch = a.branch /\ r.run = a.run
  BY <1>2 DEF Alerts
<1> HIDE DEF r
<1>4. riskAlerts' = (riskAlerts \ {a}) \cup {r}
  BY <1>1 DEF r
<1>5. riskAlerts' \in SUBSET Alerts /\ IsFiniteSet(riskAlerts')
  <2>1. IsFiniteSet(riskAlerts \ {a})
    BY <1>2, FS_RemoveElement
  <2> QED
    BY <1>2, <1>3, <1>4, <2>1, FS_AddElement
<1>6. TablesTyped'
  BY <1>5 DEF OInv, ResolveAlert, TablesTyped
<1>7. \A n \in riskAlerts' : \E o \in riskAlerts : n.branch = o.branch /\ n.run = o.run
  BY <1>3, <1>4
<1>8. AlertsOfCompleted' /\ FindingsOnce'
  BY <1>7 DEF OInv, ResolveAlert, AlertsOfCompleted, FindingsOnce, Branch
<1>9. WeeklyTyped' /\ DailyTyped' /\ WatchdogTyped' /\ Itinerary' /\ MarksSound'
  BY DEF OInv, ResolveAlert, WeeklyTyped, DailyTyped, WatchdogTyped, Itinerary, MarksSound
<1>10. DigestSound'
  BY DigestKept DEF OInv, ResolveAlert
<1>11. WeeklyInHand' /\ DailyInHand'
  BY DEF OInv, ResolveAlert, WeeklyInHand, DailyInHand, Branch
<1> QED
  BY <1>6, <1>8, <1>9, <1>10, <1>11 DEF OInv

(* The operator fails a running row only, and only while no weekly command runs. *)
LEMMA FlipRunOInv == ASSUME OInv, FlipRun PROVE OInv'
<1>1. PICK b \in Names, d \in Days : run[b][d] = "running" /\ run' = [run EXCEPT ![b][d] = "failed"]
  BY DEF FlipRun
<1>2. run \in [Names -> [Days -> Statuses]]
  BY DEF OInv, TablesTyped
<1>3. /\ run' \in [Names -> [Days -> Statuses]]
      /\ \A n \in Names, e \in Days : run[n][e] = "completed" => run'[n][e] = "completed"
  BY <1>1, <1>2 DEF Statuses
<1>4. TablesTyped'
  BY <1>3 DEF OInv, FlipRun, TablesTyped
<1>5. AlertsOfCompleted'
  BY <1>3 DEF OInv, FlipRun, TablesTyped, Alerts, AlertsOfCompleted
<1>6. DigestSound'
  BY <1>3, DigestKept DEF OInv, FlipRun
<1>7. WeeklyTyped' /\ DailyTyped' /\ WatchdogTyped' /\ Itinerary' /\ MarksSound'
  BY DEF OInv, FlipRun, WeeklyTyped, DailyTyped, WatchdogTyped, Itinerary, MarksSound
<1>8. FindingsOnce' /\ WeeklyInHand' /\ DailyInHand'
  BY DEF OInv, FlipRun, FindingsOnce, WeeklyInHand, DailyInHand, Marking
<1> QED
  BY <1>4, <1>5, <1>6, <1>7, <1>8 DEF OInv

(* A step of none of the jobs. *)
LEMMA StutterOInv == ASSUME OInv, UNCHANGED opsVars PROVE OInv'
<1>1. WatchdogTyped'
  BY DEF OInv, opsVars, WatchdogTyped
<1> QED
  BY <1>1, WeeklyDailyKept DEF opsVars, database

(* The jobs start idle over empty tables. *)
LEMMA InitOInv == OpsInit => OInv
<1> SUFFICES ASSUME OpsInit PROVE OInv
  OBVIOUS
<1>1. 0 \in Days /\ Horizon \in Nat
  BY BranchesTyped DEF Days, Day
<1>2. TablesTyped
  BY <1>1, FS_EmptySet DEF OpsInit, TablesTyped, Statuses
<1>3. WeeklyTyped
  BY IdleTyped DEF OpsInit, WeeklyTyped
<1>4. DailyTyped /\ WatchdogTyped
  BY <1>1 DEF OpsInit, DailyTyped, DailyRecords, IdleDaily, WatchdogTyped, WatchdogRecords, IdleWatchdog
<1>5. Itinerary /\ MarksSound /\ DigestSound
  BY DEF OpsInit, IdleWeekly, Itinerary, Working, Marking, MarksSound, DigestSound
<1>6. AlertsOfCompleted /\ FindingsOnce /\ WeeklyInHand /\ DailyInHand
  BY DEF OpsInit, IdleWeekly, IdleDaily, AlertsOfCompleted, FindingsOnce, WeeklyInHand, DailyInHand, Marking
<1> QED
  BY <1>2, <1>3, <1>4, <1>5, <1>6 DEF OInv

(* Every step keeps the invariant. *)
LEMMA NextOInv == OInv /\ [OpsNext]_opsVars => OInv'
  BY TickOInv, WeeklyStartOInv, DryRunOInv, ClaimOInv, TradingCompletesOInv, TradingFailsOInv, WeeklyMarkOInv,
     WeeklyCheckOInv, WeeklyCommitOInv, WeeklyMarkFailsOInv, RenderDigestOInv, CrashWeeklyOInv,
     DailyStartOInv, DailyCheckOInv, DailyMarkOInv, DailyCommitOInv, DailyFailsOInv, CrashDailyOInv,
     WatchdogStartOInv, EnsureIssueOInv, EnsureIssueFailsOInv, WatchdogDoneOInv, ResolveAlertOInv, FlipRunOInv,
     StutterOInv DEF OpsNext

(* Moments are numbers. *)
LEMMA SinceTyped == ASSUME OInv PROVE watchdog.since \in Nat /\ now \in Nat
  BY BranchesTyped DEF OInv, TablesTyped, WatchdogTyped, WatchdogRecords

(* The days up to a moment are among the days up to a later one. *)
LEMMA OpenKept ==
    ASSUME NEW since \in Nat, NEW t \in Nat, NEW u \in Nat, t <= u
    PROVE  Day(t) <= Day(u) /\ Day(since) \in Nat /\ Day(t) \in Nat /\ Day(since) .. Day(t) \subseteq Day(since) .. Day(u)
  BY DEF Day

(* An issue that counts keeps counting. *)
LEMMA RaisedKept ==
    ASSUME OInv, OInv', now <= now', watchdog'.since = watchdog.since, issues \subseteq issues'
    PROVE  Open \subseteq Open'
<1>1. Day(watchdog.since) .. Today \subseteq Day(watchdog.since) .. Day(now')
  BY OpenKept, SinceTyped DEF Today, OInv, TablesTyped
<1> QED
  BY <1>1 DEF Open, Today

(* Steps that leave the watchdog alone keep what it has to tell, as long as no *)
(* run becomes stuck in its eyes after it looked. *)
LEMMA WatchKept ==
    ASSUME OInv, OInv', WatchInv, now <= now', watchdog' = watchdog, issues \subseteq issues',
           \A b \in Names, d \in Days :
              run'[b][d] = "running" /\ begun'[b][d] < watchdog.since =>
                 run[b][d] = "running" /\ begun[b][d] < watchdog.since
    PROVE  WatchInv'
<1>1. Open \subseteq Open'
  BY RaisedKept
<1>2. watchdog'.since <= now'
  BY SinceTyped DEF WatchInv, OInv, TablesTyped
<1> QED
  BY <1>1, <1>2 DEF WatchInv, Raised

(* A run that starts now began no earlier than the watchdog looked. *)
LEMMA ClaimWatch == ASSUME OInv, OInv', WatchInv, Claim PROVE WatchInv'
<1>1. ASSUME NEW b \in Names, NEW d \in Days, run'[b][d] = "running", begun'[b][d] < watchdog.since
      PROVE  run[b][d] = "running" /\ begun[b][d] < watchdog.since
  <2>1. CASE UNCHANGED <<run, begun>>
    BY <1>1, <2>1
  <2>2. CASE /\ run' = [run EXCEPT ![Branch][Today] = "running"]
             /\ begun' = [begun EXCEPT ![Branch][Today] = now]
    <3>1. Branch \in Names /\ Today \in Days
      BY BranchTyped, TodayTyped DEF Claim, OInv
    <3>2. begun'[Branch][Today] = now /\ ~ (now < watchdog.since)
      BY <2>2, <3>1, SinceTyped DEF OInv, TablesTyped, WatchInv
    <3>3. ~ (b = Branch /\ d = Today)
      BY <1>1, <3>2
    <3> QED
      BY <1>1, <2>2, <3>1, <3>3 DEF OInv, TablesTyped
  <2> QED
    BY <2>1, <2>2 DEF Claim
<1> QED
  BY <1>1, SinceTyped, WatchKept DEF Claim

(* Runs that end are no longer stuck. *)
LEMMA TradingWatch ==
    ASSUME OInv, OInv', WatchInv, TradingCompletes \/ TradingFails \/ FlipRun
    PROVE  WatchInv'
<1>1. \A b \in Names, d \in Days : run'[b][d] = "running" => run[b][d] = "running"
  <2>1. CASE TradingCompletes \/ TradingFails
    <3>1. Branch \in Names /\ weekly.date \in Days
      BY <2>1, BranchTyped DEF TradingCompletes, TradingFails, OInv, Itinerary, Working, WeeklyTyped, WeeklyRecords
    <3>2. run' = run \/ \E ended \in {"completed", "failed"} : run' = [run EXCEPT ![Branch][weekly.date] = ended]
      BY <2>1 DEF TradingCompletes, TradingFails
    <3>3. ASSUME NEW ended \in {"completed", "failed"}, run' = [run EXCEPT ![Branch][weekly.date] = ended]
          PROVE  \A b \in Names, d \in Days : run'[b][d] = "running" => run[b][d] = "running"
      <4>1. run \in [Names -> [Days -> Statuses]]
        BY DEF OInv, TablesTyped
      <4> QED
        BY <3>1, <3>3, <4>1
    <3> QED
      BY <3>2, <3>3
  <2>2. CASE FlipRun
    BY <2>2 DEF FlipRun, OInv, TablesTyped
  <2> QED
    BY <2>1, <2>2
<1>2. begun' = begun /\ UNCHANGED <<now, watchdog, issues>>
  BY DEF TradingCompletes, TradingFails, FlipRun
<1> QED
  BY <1>1, <1>2, SinceTyped, WatchKept

(* The watchdog starts with everything it has to tell on its list. *)
LEMMA WatchdogStartWatch == ASSUME OInv, OInv', WatchInv, WatchdogStart PROVE WatchInv'
<1>1. /\ watchdog'.since = now /\ watchdog'.saw = riskAlerts /\ watchdog'.todo = Subjects
      /\ watchdog'.pc = "raise" /\ now' = now /\ UNCHANGED <<run, begun>>
  BY DEF WatchdogStart, database
<1>2. \A a \in riskAlerts : ~a.resolved /\ now - a.at <= Lookback => <<"critical", a.metric>> \in ToSet(Subjects)
  BY SubjectsTold DEF OInv, Unnotified
<1>3. ASSUME NEW b \in Names, NEW d \in Days, run[b][d] = "running", begun[b][d] < now
      PROVE  <<"stuck">> \in ToSet(Subjects)
  <2>1. <<b, d>> \in StuckRuns
    BY <1>3 DEF StuckRuns
  <2> QED
    BY <2>1, SubjectsTold DEF OInv
<1> QED
  BY <1>1, <1>2, <1>3, SinceTyped DEF WatchInv, Raised

(* What leaves the list is an open issue. *)
LEMMA EnsureIssueWatch == ASSUME OInv, OInv', WatchInv, EnsureIssue PROVE WatchInv'
<1>1. watchdog.todo \in Seq(Topics) /\ watchdog.todo # <<>> /\ watchdog \in WatchdogRecords
  BY DEF EnsureIssue, OInv, WatchdogTyped, WatchdogRecords
<1>2. /\ watchdog'.pc = "raise" /\ watchdog'.since = watchdog.since /\ watchdog'.saw = watchdog.saw
      /\ watchdog'.exit = watchdog.exit /\ watchdog'.todo = Tail(watchdog.todo)
      /\ issues' = issues \cup {<<Head(watchdog.todo), Today>>} /\ UNCHANGED <<now, run, begun>>
  BY <1>1 DEF EnsureIssue, database, WatchdogRecords
<1>3. Open \subseteq Open'
  BY <1>2, SinceTyped, RaisedKept
<1>4. Head(watchdog.todo) \in Open'
  <2>1. Day(watchdog.since) <= Today /\ Day(watchdog.since) \in Nat /\ Today \in Nat
    BY OpenKept, SinceTyped DEF WatchInv, Today
  <2>2. Today \in Day(watchdog'.since) .. Today'
    BY <1>2, <2>1 DEF Today
  <2> DEFINE i == <<Head(watchdog.todo), Today>>
  <2>3. i \in issues' /\ i[1] = Head(watchdog.todo) /\ i[2] = Today
    BY <1>2
  <2> HIDE DEF i
  <2> QED
    BY <2>2, <2>3 DEF Open
<1>5. ToSet(watchdog.todo) = {Head(watchdog.todo)} \cup ToSet(Tail(watchdog.todo))
  BY <1>1, TailTyped
<1>6. \A x : Raised(x) => Raised(x)'
  BY <1>2, <1>3, <1>4, <1>5 DEF Raised
<1> QED
  BY <1>2, <1>6 DEF WatchInv, EnsureIssue

(* A watchdog that fails promises nothing; one that is done has an empty list. *)
LEMMA WatchdogEndsWatch == ASSUME OInv, OInv', WatchInv, EnsureIssueFails \/ WatchdogDone PROVE WatchInv'
<1>1. watchdog \in WatchdogRecords
  BY DEF OInv, WatchdogTyped
<1>2. UNCHANGED <<now, run, begun, issues>>
  BY DEF EnsureIssueFails, WatchdogDone, database
<1>3. CASE EnsureIssueFails
  <2>1. watchdog'.exit = 1 /\ watchdog'.since = watchdog.since
    BY <1>1, <1>3 DEF EnsureIssueFails, WatchdogRecords
  <2> QED
    BY <1>2, <2>1 DEF WatchInv
<1>4. CASE WatchdogDone
  <2>1. /\ watchdog'.pc = "done" /\ watchdog'.since = watchdog.since /\ watchdog'.saw = watchdog.saw
        /\ watchdog'.exit = watchdog.exit /\ watchdog'.todo = watchdog.todo
        /\ watchdog.todo = <<>> /\ watchdog.pc = "raise"
    BY <1>1, <1>4 DEF WatchdogDone, WatchdogRecords
  <2>2. \A x : Raised(x) => Raised(x)'
    BY <1>2, <2>1 DEF Raised, Open, Today
  <2> QED
    BY <1>2, <2>1, <2>2 DEF WatchInv
<1> QED
  BY <1>3, <1>4

(* Every step keeps what the watchdog has to tell. *)
LEMMA NextWatch == ASSUME OInv, OInv', WatchInv, [OpsNext]_opsVars PROVE WatchInv'
<1>1. CASE \/ Tick \/ WeeklyStart \/ DryRun \/ WeeklyMark \/ WeeklyCheck \/ WeeklyCommit \/ WeeklyMarkFails
           \/ RenderDigest \/ CrashWeekly
           \/ DailyStart \/ DailyCheck \/ DailyMark \/ DailyCommit \/ DailyFails \/ CrashDaily
           \/ ResolveAlert \/ UNCHANGED opsVars
  <2>1. UNCHANGED <<run, begun, watchdog, issues>> /\ now' \in {now, now + 1}
    BY <1>1 DEF Tick, WeeklyStart, DryRun, WeeklyMark, WeeklyCheck, WeeklyCommit, WeeklyMarkFails, RenderDigest,
                CrashWeekly, DailyStart, DailyCheck, DailyMark, DailyCommit, DailyFails, CrashDaily, ResolveAlert,
                opsVars, database
  <2>2. now <= now'
    BY <2>1, SinceTyped
  <2> QED
    BY <2>1, <2>2, WatchKept
<1> QED
  BY <1>1, ClaimWatch, TradingWatch, WatchdogStartWatch, EnsureIssueWatch, WatchdogEndsWatch DEF OpsNext

(* No watchdog has looked yet. *)
LEMMA InitWatch == OpsInit => WatchInv
  BY DEF OpsInit, IdleWatchdog, WatchInv

(* Both invariants hold always. *)
LEMMA Invariants == OpsSpec => [](OInv /\ WatchInv)
<1>1. OpsInit => OInv /\ WatchInv
  BY InitOInv, InitWatch
<1>2. OInv /\ WatchInv /\ [OpsNext]_opsVars => OInv' /\ WatchInv'
  BY NextOInv, NextWatch
<1> QED
  BY <1>1, <1>2, PTL DEF OpsSpec

(* What the digest says of a branch is durable when it is said: a completed *)
(* run has its row, a report only a committed mark, and the command reports *)
(* every branch and fails exactly when one failed (run_weekly_pipeline.py *)
(* _main_async), whatever the daily job, the watchdog and the operator do. *)
THEOREM DigestAlwaysTruthful == OpsSpec => []DigestTruthful
<1>1. OInv => DigestTruthful
  <2> SUFFICES ASSUME OInv PROVE DigestTruthful
    OBVIOUS
  <2>1. OpsTypeOK
    BY DEF OInv, TablesTyped, Statuses, MarksSound, OpsTypeOK
  <2>2. /\ weekly.digest \in Seq(Lines) /\ DOMAIN weekly.digest = 1 .. Len(weekly.digest)
        /\ Len(weekly.digest) \in Nat
    BY DEF OInv, WeeklyTyped, WeeklyRecords
  <2>3. \A i \in DOMAIN weekly.digest : Told(weekly.digest[i], run, marks, trades)
    BY <2>2 DEF OInv, DigestSound
  <2>4. ASSUME weekly.pc = "done" PROVE [i \in DOMAIN weekly.digest |-> weekly.digest[i].branch] = Branches
    <3>1. Covered(weekly.digest, <<>>)
      BY <2>4 DEF OInv, Itinerary
    <3>2. Len(weekly.digest) = Len(Branches) /\ \A i \in 1 .. Len(weekly.digest) : weekly.digest[i].branch = Branches[i]
      BY <2>2, <3>1, BranchesTyped DEF Covered
    <3> QED
      BY <2>2, <3>2, BranchesTyped
  <2>5. weekly.exit = 1 <=> \E i \in DOMAIN weekly.digest : weekly.digest[i].status = "failed"
    BY <2>2 DEF OInv, DigestSound
  <2> QED
    BY <2>1, <2>3, <2>4, <2>5 DEF DigestTruthful, Told
<1> QED
  BY <1>1, Invariants, PTL

(* A skipped rerun never writes the day's findings again, and the weekly *)
(* command never adds a second snapshot of a day (run_weekly_pipeline.py *)
(* _mark_snapshot_and_report), whatever the daily job does meanwhile. *)
THEOREM RerunsAlwaysHarmless == OpsSpec => WeeklyRerunHarmless
<1> DEFINE Harmless ==
       weekly'.pc = "branch" /\ weekly.pc = "commit" =>
         /\ snapshots' # snapshots => Head(weekly.snap) \notin ToSet(snapshots[Branch])
         /\ riskAlerts' # riskAlerts =>
              /\ weekly.status = "completed"
              /\ \A a \in riskAlerts : <<a.branch, a.run>> # <<Branch, weekly.date>>
<1>1. ASSUME OInv, [OpsNext]_opsVars PROVE [Harmless]_opsVars
  <2> SUFFICES ASSUME weekly.pc = "commit", weekly'.pc = "branch" PROVE Harmless
    OBVIOUS
  <2>1. WeeklyCommit \/ UNCHANGED database
    BY <1>1 DEF OpsNext, Tick, WeeklyStart, DryRun, Claim, TradingCompletes, TradingFails, WeeklyMark, WeeklyCheck,
                WeeklyMarkFails, RenderDigest, CrashWeekly, DailyStart, DailyCheck, DailyMark, DailyCommit,
                DailyFails, CrashDaily, WatchdogStart, EnsureIssue, EnsureIssueFails, WatchdogDone, ResolveAlert,
                FlipRun, opsVars, database
  <2>2. CASE WeeklyCommit
    <3>1. Branch \in Names /\ weekly \in WeeklyRecords
      BY <1>1, BranchTyped DEF OInv, Itinerary, Working, Marking, WeeklyTyped
    <3>2. ASSUME snapshots' # snapshots PROVE weekly.snap # <<>>
      <4>1. SUFFICES ASSUME weekly.snap = <<>> PROVE FALSE
        OBVIOUS
      <4>2. snapshots \in [Names -> Seq(Days)] /\ snapshots[Branch] \o <<>> = snapshots[Branch]
        BY <1>1, <3>1 DEF OInv, TablesTyped
      <4> QED
        BY <2>2, <3>1, <3>2, <4>1, <4>2 DEF WeeklyCommit
    <3>3. ASSUME riskAlerts' # riskAlerts
          PROVE  /\ weekly.status = "completed"
                 /\ \A a \in riskAlerts : <<a.branch, a.run>> # <<Branch, weekly.date>>
      <4>1. \E r \in weekly.rows : TRUE
        BY <2>2, <3>3 DEF WeeklyCommit
      <4>2. weekly.status = "completed"
        BY <1>1, <4>1 DEF OInv, FindingsOnce
      <4> QED
        BY <1>1, <4>2 DEF OInv, FindingsOnce, Marking
    <3> QED
      BY <1>1, <3>2, <3>3 DEF OInv, WeeklyInHand
  <2>3. CASE UNCHANGED database
    BY <2>3 DEF database
  <2> QED
    BY <2>1, <2>2, <2>3
<1> QED
  BY <1>1, Invariants, PTL DEF OpsSpec, WeeklyRerunHarmless

(* A watchdog that ends well has an issue of its day open for every critical *)
(* row it saw and for every run that was stuck when it looked and still is *)
(* (ops_watchdog.py _main_async). *)
THEOREM SilenceAlwaysMeansHealth == OpsSpec => []SilenceMeansHealth
<1>1. OInv /\ WatchInv => SilenceMeansHealth
  <2> SUFFICES ASSUME WatchInv, watchdog.pc = "done", watchdog.exit = 0 PROVE SilenceMeansHealth
    BY DEF SilenceMeansHealth
  <2>1. ToSet(watchdog.todo) = {}
    BY DEF WatchInv, ToSet
  <2>2. /\ \A a \in watchdog.saw :
              ~a.resolved /\ watchdog.since - a.at <= Lookback => <<"critical", a.metric>> \in Open
        /\ \A b \in Names, d \in Days :
              run[b][d] = "running" /\ begun[b][d] < watchdog.since => <<"stuck">> \in Open
    BY <2>1 DEF WatchInv, Raised
  <2> QED
    BY <2>2 DEF SilenceMeansHealth, Open
<1> QED
  BY <1>1, Invariants, PTL

-----------------------------------------------------------------------------
(***************************************************************************)
(* WeeklyRun, for any set of runners and any bound on the attempts.  The   *)
(* inductive invariant ties each stage of execute to the                   *)
(* committed rows: what a runner decided in transaction 1 stays true of    *)
(* the rows below its attempt (a failed row never changes), the primary    *)
(* key makes the runner that opened a row its only owner, and the trades   *)
(* of a row's attempt are booked, or lost, exactly in the stages that say  *)
(* so.                                                                     *)
(***************************************************************************)

Preparing == {"insert", "inserted"}

(* What a runner decided in transaction 1 still holds. *)
Decided ==
    \A r \in Runners : pc[r] \in Preparing =>
        /\ att[r] \in Attempts
        /\ \A a \in Attempts : a < att[r] => status[a] = "failed"

(* The primary key: at most one uncommitted row per run_id, and none next *)
(* to a committed one. *)
KeyUnique ==
    \A r \in Runners : pc[r] = "inserted" =>
        /\ status[att[r]] = "none"
        /\ \A q \in Runners : pc[q] = "inserted" /\ att[q] = att[r] => q = r

(* When the trades of an attempt are booked or lost, never both. *)
BookedWhen ==
    /\ booked \cap lost = {}
    /\ \A a \in booked \cup lost : status[a] # "none"
    /\ \A a \in Attempts : status[a] = "completed" => a \in booked \cup lost
    /\ \A r \in Runners :
         /\ pc[r] \in Owning => att[r] \in Attempts
         /\ pc[r] = "trading" => att[r] \notin booked \cup lost
         /\ pc[r] = "traded" => att[r] \in booked \cup lost

IInv ==
    /\ TypeOK
    /\ AttemptChain
    /\ Decided
    /\ KeyUnique
    /\ OneTrader
    /\ BookedWhen

(* A runner that fails has booked nothing unless an acknowledgement is lost. *)
FailedInv ==
    /\ FailedHasNoTrades
    /\ \A r \in Runners : pc[r] = "failing" /\ att[r] \in booked => att[r] \in unacked

ledgerVars == <<status, booked, lost>>

(* The day starts without rows and with every runner idle. *)
LEMMA InitIInv == Init => IInv
  BY DEF Init, IInv, TypeOK, AttemptChain, Decided, KeyUnique, OneTrader, BookedWhen,
         Attempts, Status, Stages, Outcomes, Owning, Preparing

USE DEF Attempts, Status, Stages, Outcomes, Owning, Preparing, Goto, End, history

(* The steps that only end a call of execute keep the invariant: they free *)
(* the runner and touch no row. *)
LEMMA EndIInv ==
    ASSUME IInv, NEW r \in Runners, NEW how \in Outcomes, End(r, how),
           UNCHANGED <<status, booked, att, history>>
    PROVE  IInv'
  BY DEF IInv, TypeOK, AttemptChain, Decided, KeyUnique, OneTrader, BookedWhen

(* Committing the inserted row keeps the invariant, whether the runner *)
(* hears of the commit and goes on to trade, or not. *)
LEMMA OpenIInv ==
    ASSUME IInv, NEW r \in Runners, pc[r] = "inserted",
           NEW stage \in {"idle", "trading"}, Goto(r, stage),
           status' = [status EXCEPT ![att[r]] = "running"],
           outcome' \in [Runners -> Outcomes],
           UNCHANGED <<booked, att, history>>
    PROVE  IInv'
<1>1. att[r] \in Attempts
  BY DEF IInv, Decided, BookedWhen
<1>2. TypeOK'
  BY <1>1 DEF IInv, TypeOK
<1>3. AttemptChain'
  BY <1>1 DEF IInv, TypeOK, AttemptChain, Decided, KeyUnique, OneTrader
<1>4. Decided'
  BY <1>1 DEF IInv, TypeOK, Decided, KeyUnique, OneTrader
<1>5. KeyUnique'
  BY <1>1 DEF IInv, TypeOK, Decided, KeyUnique, OneTrader
<1>6. OneTrader'
  BY <1>1 DEF IInv, TypeOK, AttemptChain, Decided, KeyUnique, OneTrader, BookedWhen
<1>7. BookedWhen'
  BY <1>1 DEF IInv, TypeOK, KeyUnique, OneTrader, BookedWhen
<1> QED
  BY <1>2, <1>3, <1>4, <1>5, <1>6, <1>7 DEF IInv

(* The end of the trading transaction keeps the invariant: its trades are *)
(* booked or lost if the runner goes on to "traded". *)
LEMMA TradeIInv ==
    ASSUME IInv, NEW r \in Runners, pc[r] = "trading",
           NEW stage \in {"traded", "failing"}, Goto(r, stage),
           booked' \in {booked, booked \cup {att[r]}},
           lost' \in {lost, lost \cup {att[r]}},
           booked' = booked \/ lost' = lost,
           stage = "traded" => att[r] \in booked' \cup lost',
           unacked' \in {unacked, unacked \cup {att[r]}},
           UNCHANGED <<status, att, outcome, flipped, aged, alerted>>
    PROVE  IInv'
<1>1. att[r] \in Attempts
  BY DEF IInv, Decided, BookedWhen
<1>2. TypeOK'
  BY <1>1 DEF IInv, TypeOK
<1>3. AttemptChain'
  BY <1>1 DEF IInv, TypeOK, AttemptChain, Decided, KeyUnique, OneTrader
<1>4. Decided'
  BY <1>1 DEF IInv, TypeOK, Decided, KeyUnique, OneTrader
<1>5. KeyUnique'
  BY <1>1 DEF IInv, TypeOK, Decided, KeyUnique, OneTrader
<1>6. OneTrader'
  BY <1>1 DEF IInv, TypeOK, AttemptChain, Decided, KeyUnique, OneTrader, BookedWhen
<1>7. BookedWhen'
  BY <1>1 DEF IInv, TypeOK, KeyUnique, OneTrader, BookedWhen
<1> QED
  BY <1>2, <1>3, <1>4, <1>5, <1>6, <1>7 DEF IInv

(* Recording the outcome in the row keeps the invariant. *)
LEMMA RecordIInv ==
    ASSUME IInv, NEW r \in Runners, pc[r] \in Owning,
           NEW new \in {"completed", "failed"}, new = "completed" => att[r] \in booked \cup lost,
           status' = [status EXCEPT ![att[r]] = new],
           NEW how \in Outcomes, End(r, how),
           UNCHANGED <<booked, att, history>>
    PROVE  IInv'
<1>1. att[r] \in Attempts
  BY DEF IInv, Decided, BookedWhen
<1>2. TypeOK'
  BY <1>1 DEF IInv, TypeOK
<1>3. AttemptChain'
  BY <1>1 DEF IInv, TypeOK, AttemptChain, Decided, KeyUnique, OneTrader
<1>4. Decided'
  BY <1>1 DEF IInv, TypeOK, Decided, KeyUnique, OneTrader
<1>5. KeyUnique'
  BY <1>1 DEF IInv, TypeOK, Decided, KeyUnique, OneTrader
<1>6. OneTrader'
  BY <1>1 DEF IInv, TypeOK, AttemptChain, Decided, KeyUnique, OneTrader, BookedWhen
<1>7. BookedWhen'
  BY <1>1 DEF IInv, TypeOK, KeyUnique, OneTrader, BookedWhen
<1> QED
  BY <1>2, <1>3, <1>4, <1>5, <1>6, <1>7 DEF IInv

(* Every action keeps the inductive invariant. *)
LEMMA NextIInv == IInv /\ [Next]_vars => IInv'
<1> SUFFICES ASSUME IInv, [Next]_vars PROVE IInv'
  OBVIOUS
<1>0. MaxAttempts \in Nat \ {0}
  BY WeeklyRunAssumption DEF WeeklyRunAssumption
<1>1. ASSUME NEW r \in Runners, DecideFirst(r) PROVE IInv'
  BY <1>1 DEF DecideFirst, Prepare, IInv, TypeOK, AttemptChain,
              Decided, KeyUnique, OneTrader, BookedWhen
<1>2. ASSUME NEW r \in Runners, DecideRetry(r) PROVE IInv'
  BY <1>2 DEF DecideRetry, IsLatest, Prepare, IInv, TypeOK, AttemptChain,
              Decided, KeyUnique, OneTrader, BookedWhen
<1>3. ASSUME NEW r \in Runners, Refuse(r) PROVE IInv'
  BY <1>3, EndIInv DEF Refuse
<1>4. ASSUME NEW r \in Runners, Skip(r) PROVE IInv'
  BY <1>4, EndIInv DEF Skip
<1>5. ASSUME NEW r \in Runners, Insert(r) PROVE IInv'
  BY <1>5 DEF Insert, KeyHeld, IInv, TypeOK, AttemptChain,
              Decided, KeyUnique, OneTrader, BookedWhen
<1>6. ASSUME NEW r \in Runners, InsertConflict(r) PROVE IInv'
  BY <1>6, EndIInv DEF InsertConflict
<1>7. ASSUME NEW r \in Runners, OpenRun(r) PROVE IInv'
  BY <1>7, OpenIInv DEF OpenRun, IInv, TypeOK
<1>8. ASSUME NEW r \in Runners, OpenRunFails(r) PROVE IInv'
  <2>1. CASE UNCHANGED status
    BY <1>8, <2>1, EndIInv DEF OpenRunFails
  <2>2. CASE status' = [status EXCEPT ![att[r]] = "running"]
    BY <1>8, <2>2, OpenIInv DEF OpenRunFails, IInv, TypeOK
  <2> QED
    BY <1>8, <2>1, <2>2 DEF OpenRunFails
<1>9. ASSUME NEW r \in Runners, Trade(r) PROVE IInv'
  BY <1>9, TradeIInv DEF Trade
<1>9a. ASSUME NEW r \in Runners, TradeLost(r) PROVE IInv'
  BY <1>9a, TradeIInv DEF TradeLost
<1>10. ASSUME NEW r \in Runners, TradeFails(r) PROVE IInv'
  BY <1>10, TradeIInv DEF TradeFails
<1>11. ASSUME NEW r \in Runners, MarkCompleted(r) PROVE IInv'
  BY <1>11, RecordIInv DEF MarkCompleted, IInv, BookedWhen
<1>12. ASSUME NEW r \in Runners, MarkCompletedFails(r) PROVE IInv'
  <2>1. CASE UNCHANGED status
    BY <1>12, <2>1, EndIInv DEF MarkCompletedFails
  <2>2. CASE status' = [status EXCEPT ![att[r]] = "completed"]
    BY <1>12, <2>2, RecordIInv DEF MarkCompletedFails, IInv, BookedWhen
  <2> QED
    BY <1>12, <2>1, <2>2 DEF MarkCompletedFails
<1>13. ASSUME NEW r \in Runners, MarkFailed(r) PROVE IInv'
  <2>1. CASE UNCHANGED status
    BY <1>13, <2>1, EndIInv DEF MarkFailed
  <2>2. CASE status' = [status EXCEPT ![att[r]] = "failed"]
    BY <1>13, <2>2, RecordIInv DEF MarkFailed
  <2> QED
    BY <1>13, <2>1, <2>2 DEF MarkFailed
<1>14. ASSUME NEW r \in Runners, Crash(r) PROVE IInv'
  BY <1>14, EndIInv DEF Crash
<1>15. ASSUME NEW a \in Attempts, OperatorFlips(a) PROVE IInv'
  BY <1>15 DEF OperatorFlips, IInv, TypeOK, AttemptChain,
              Decided, KeyUnique, OneTrader, BookedWhen
<1>16. ASSUME NEW a \in Attempts, GrowsOld(a) PROVE IInv'
  BY <1>16 DEF GrowsOld, IInv, TypeOK, AttemptChain,
              Decided, KeyUnique, OneTrader, BookedWhen
<1>17. ASSUME CheckStuckRuns PROVE IInv'
  <2>1. alerted' \subseteq Attempts
    BY <1>17 DEF CheckStuckRuns, IInv, TypeOK
  <2>2. UNCHANGED <<status, booked, pc, att, outcome, flipped, unacked, lost, aged>>
    BY <1>17 DEF CheckStuckRuns
  <2> QED
    BY <2>1, <2>2 DEF IInv, TypeOK, AttemptChain, Decided, KeyUnique, OneTrader, BookedWhen
<1>18. CASE UNCHANGED vars
  BY <1>18 DEF vars, IInv, TypeOK, AttemptChain, Decided, KeyUnique, OneTrader, BookedWhen
<1> QED
  BY <1>1, <1>2, <1>3, <1>4, <1>5, <1>6, <1>7, <1>8, <1>9, <1>9a,
     <1>10, <1>11, <1>12, <1>13, <1>14, <1>15, <1>16, <1>17, <1>18 DEF Next, Proceed
-----------------------------------------------------------------------------
(* Theorems *)

(* The inductive invariant holds throughout: see InitIInv and NextIInv. *)
THEOREM Inductive == Spec => []IInv
<1>1. Init => IInv
  BY InitIInv
<1>2. IInv /\ [Next]_vars => IInv'
  BY NextIInv
<1> QED
  BY <1>1, <1>2, PTL DEF Spec

(* Every column and stage keeps its type, for any number of runners. *)
THEOREM TypeCorrect == Spec => []TypeOK
  BY Inductive, PTL DEF IInv

(* However many runners race for the day, its attempts form a chain of *)
(* failures with at most one open or completed attempt at its end. *)
THEOREM ChainHolds == Spec => []AttemptChain
  BY Inductive, PTL DEF IInv

(* However many runners race for the day, one at a time trades, under the *)
(* running row of its own attempt. *)
THEOREM TradesAlone == Spec => []OneTrader
  BY Inductive, PTL DEF IInv

-----------------------------------------------------------------------------
(* "completed" and "skipped" answers *)

(* Nobody has been told anything at the start. *)
LEMMA HonestInit == Init => CompletedIsSettled
  BY DEF Init, CompletedIsSettled

(* A completed row keeps its status: only the runner that owns a running *)
(* row, and the operator, change a row, and both need it 'running'. *)
LEMMA CompletedStays ==
    ASSUME IInv, [Next]_vars, NEW a \in Attempts, status[a] = "completed"
    PROVE  status'[a] = "completed" /\ booked \subseteq booked' /\ lost \subseteq lost'
<1>1. ASSUME NEW r \in Runners, pc[r] = "inserted" \/ pc[r] \in Owning PROVE att[r] # a
  BY <1>1 DEF IInv, KeyUnique, OneTrader
<1> QED
  BY <1>1 DEF Next, Proceed, vars, IInv, TypeOK, DecideFirst, DecideRetry, Prepare, Refuse, Skip,
              Insert, InsertConflict, OpenRun, OpenRunFails, Trade, TradeFails, TradeLost, MarkCompleted,
              MarkCompletedFails, MarkFailed, Crash, OperatorFlips, GrowsOld, CheckStuckRuns

(* A row is completed by a runner whose trading has ended, an answer names *)
(* such a row, and neither is ever taken back. *)
LEMMA HonestNext == IInv /\ CompletedIsSettled /\ [Next]_vars => CompletedIsSettled'
<1> SUFFICES ASSUME IInv, CompletedIsSettled, [Next]_vars PROVE CompletedIsSettled'
  OBVIOUS
<1>1. IInv'
  BY NextIInv
<1>2. \A a \in Attempts : status'[a] = "completed" => (a \in booked' <=> a \notin lost')
  BY <1>1 DEF IInv, BookedWhen
<1>3. ASSUME NEW r \in Runners, outcome'[r] \in {"completed", "skipped"}
      PROVE  \E a \in booked' \cup lost' : status'[a] = "completed"
  <2>1. CASE outcome[r] \in {"completed", "skipped"}
    <3>1. PICK a \in booked \cup lost : status[a] = "completed"
      BY <2>1 DEF CompletedIsSettled
    <3> QED
      BY <3>1, CompletedStays DEF IInv, TypeOK
  <2>2. CASE outcome[r] \notin {"completed", "skipped"}
    <3>1. Skip(r) \/ MarkCompleted(r)
      BY <1>3, <2>2 DEF Next, Proceed, vars, IInv, TypeOK, DecideFirst, DecideRetry, Prepare, Refuse, Skip,
              Insert, InsertConflict, OpenRun, OpenRunFails, Trade, TradeFails, TradeLost, MarkCompleted,
              MarkCompletedFails, MarkFailed, Crash, OperatorFlips, GrowsOld, CheckStuckRuns
    <3>2. CASE Skip(r)
      BY <3>2, <1>1 DEF Skip, IInv, BookedWhen
    <3>3. CASE MarkCompleted(r)
      BY <3>3, <1>1 DEF MarkCompleted, IInv, TypeOK, BookedWhen
    <3> QED
      BY <3>1, <3>2, <3>3
  <2> QED
    BY <2>1, <2>2
<1> QED
  BY <1>2, <1>3 DEF CompletedIsSettled

(* Nobody is told that the day is done, by the row or by an answer, before *)
(* its trading has ended, with all its trades durable or, after a swallowed *)
(* database error, with none. *)
THEOREM CompletedMeansSettled == Spec => []CompletedIsSettled
  BY HonestInit, HonestNext, Inductive, PTL DEF Spec
-----------------------------------------------------------------------------
(* The ledger, step by step *)

(* Every step of WeeklyRun is a step of RunLedger or leaves it alone. *)
LEMMA LedgerStep == IInv /\ [Next]_vars => [Ledger!Next]_ledgerVars
<1> SUFFICES ASSUME IInv, [Next]_vars PROVE [Ledger!Next]_ledgerVars
  OBVIOUS
<1> USE DEF Ledger!Attempts, ledgerVars
<1>1. ASSUME NEW r \in Runners, pc[r] = "inserted", UNCHANGED <<booked, lost>>,
             status' = [status EXCEPT ![att[r]] = "running"]
      PROVE  Ledger!Next
  <2>1. att[r] \in Attempts /\ status[att[r]] = "none"
    BY <1>1 DEF IInv, Decided, KeyUnique
  <2>2. ASSUME NEW b \in Attempts
        PROVE  status[b] = IF b < att[r] THEN "failed" ELSE "none"
    BY <1>1, <2>1 DEF IInv, TypeOK, Decided, AttemptChain
  <2>3. Ledger!Open(att[r])
    BY <1>1, <2>2 DEF Ledger!Open
  <2> QED
    BY <2>1, <2>3 DEF Ledger!Next
<1>2. ASSUME NEW r \in Runners, pc[r] = "trading", UNCHANGED status,
             \/ booked' = booked \cup {att[r]} /\ lost' = lost
             \/ lost' = lost \cup {att[r]} /\ booked' = booked
      PROVE  Ledger!Next
  <2>1. att[r] \in Attempts /\ status[att[r]] = "running" /\ att[r] \notin booked \cup lost
    BY <1>2 DEF IInv, BookedWhen, OneTrader
  <2> QED
    BY <1>2, <2>1 DEF Ledger!Next, Ledger!Book, Ledger!Lose
<1>3. ASSUME NEW r \in Runners, pc[r] = "traded", UNCHANGED <<booked, lost>>,
             status' = [status EXCEPT ![att[r]] = "completed"]
      PROVE  Ledger!Next
  <2>1. att[r] \in Attempts /\ status[att[r]] = "running" /\ att[r] \in booked \cup lost
    BY <1>3 DEF IInv, BookedWhen, OneTrader
  <2> QED
    BY <1>3, <2>1 DEF Ledger!Next, Ledger!Complete
<1>4. ASSUME NEW a \in Attempts, status[a] = "running", UNCHANGED <<booked, lost>>,
             status' = [status EXCEPT ![a] = "failed"]
      PROVE  Ledger!Next
  BY <1>4 DEF Ledger!Next, Ledger!Fail
<1>5. ASSUME NEW r \in Runners, pc[r] = "failing"
      PROVE  att[r] \in Attempts /\ status[att[r]] = "running"
  BY <1>5 DEF IInv, BookedWhen, OneTrader
<1>6. ASSUME NEW r \in Runners, Proceed(r) PROVE Ledger!Next \/ UNCHANGED ledgerVars
  BY <1>1, <1>2, <1>3, <1>4, <1>5, <1>6
     DEF Proceed, Insert, InsertConflict, OpenRun, OpenRunFails, Trade, TradeFails, TradeLost,
         MarkCompleted, MarkCompletedFails, MarkFailed
<1>7. ASSUME NEW r \in Runners,
             DecideFirst(r) \/ DecideRetry(r) \/ Refuse(r) \/ Skip(r) \/ Crash(r)
      PROVE  UNCHANGED ledgerVars
  BY <1>7 DEF DecideFirst, DecideRetry, Prepare, Refuse, Skip, Crash
<1>8. ASSUME NEW a \in Attempts, OperatorFlips(a) \/ GrowsOld(a)
      PROVE  Ledger!Next \/ UNCHANGED ledgerVars
  BY <1>4, <1>8 DEF OperatorFlips, GrowsOld
<1> QED
  BY <1>6, <1>7, <1>8 DEF Next, CheckStuckRuns, vars

(* Whatever the runners, their crashes, the operator and lost *)
(* acknowledgements do, the table keeps the promise of RunLedger. *)
THEOREM Implements == Spec => ImplementsLedger
<1>1. Init => Ledger!Init
  BY DEF Init, Ledger!Init, Ledger!Attempts
<1>2. IInv /\ [Next]_vars => [Ledger!Next]_ledgerVars
  BY LedgerStep
<1> QED
  BY <1>1, <1>2, Inductive, PTL DEF Spec, ImplementsLedger, Ledger!Spec, Ledger!ledger, ledgerVars

(* Trades are booked only under the running row of their own attempt, and *)
(* a completed day never changes. *)
THEOREM BooksUnderOwnRow == Spec => BookedUnderOwnRow
<1> DEFINE Step ==
      /\ \A a \in booked' \ booked : status[a] = "running" /\ status'[a] = "running"
      /\ (\E a \in Attempts : status[a] = "completed") => UNCHANGED <<status, booked>>
<1>1. IInv /\ [Next]_vars => [Step]_vars
  <2> SUFFICES ASSUME IInv, [Next]_vars PROVE [Step]_vars
    OBVIOUS
  <2>1. CASE UNCHANGED ledgerVars
    BY <2>1 DEF ledgerVars
  <2>2. CASE Ledger!Next
    <3>1. PICK a \in Attempts : \/ Ledger!Open(a) \/ Ledger!Book(a) \/ Ledger!Lose(a)
                                \/ Ledger!Complete(a) \/ Ledger!Fail(a)
      BY <2>2 DEF Ledger!Next, Ledger!Attempts
    <3>2. ASSUME NEW b \in Attempts PROVE status[b] # "completed"
      BY <3>1 DEF Ledger!Open, Ledger!Book, Ledger!Lose, Ledger!Complete, Ledger!Fail, Ledger!Attempts, IInv, AttemptChain
    <3> QED
      BY <3>1, <3>2 DEF Ledger!Open, Ledger!Book, Ledger!Lose, Ledger!Complete, Ledger!Fail
  <2> QED
    BY <2>1, <2>2, LedgerStep
<1> QED
  BY <1>1, Inductive, PTL DEF Spec, BookedUnderOwnRow

-----------------------------------------------------------------------------
(* What 'failed' says about the trades *)

(* A runner enters "failing" after a rollback or a lost acknowledgement, so *)
(* the row it marks has no trades or is known to be unacknowledged. *)
LEMMA FailedNext ==
    ASSUME IInv, FailedInv, [Next]_vars
    PROVE  FailedInv'
<1>1. IInv'
  BY NextIInv
<1> QED
  BY <1>1 DEF FailedInv, FailedHasNoTrades, IInv, TypeOK, OneTrader, BookedWhen, Next, Proceed, vars,
              DecideFirst, DecideRetry, Prepare, Refuse, Skip,
              Insert, InsertConflict, OpenRun, OpenRunFails, Trade, TradeFails, TradeLost, MarkCompleted,
              MarkCompletedFails, MarkFailed, Crash, OperatorFlips, GrowsOld, CheckStuckRuns

(* Unless an acknowledgement is lost, a row that the runner itself marked *)
(* 'failed' has no trades, so a forced retry does not trade a second time. *)
THEOREM FailedMeansNoTrades == Spec => []FailedHasNoTrades
<1>1. Init => FailedInv
  BY DEF Init, FailedInv, FailedHasNoTrades
<1>2. IInv /\ FailedInv /\ [Next]_vars => FailedInv'
  BY FailedNext
<1>3. FailedInv => FailedHasNoTrades
  BY DEF FailedInv
<1> QED
  BY <1>1, <1>2, <1>3, Inductive, PTL DEF Spec
=============================================================================
