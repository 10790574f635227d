----------------------------- MODULE Operations -----------------------------
(***************************************************************************)
(* The three scheduled jobs around the branches' portfolios and the        *)
(* database they share: the weekly command                                 *)
(* (scripts/run_weekly_pipeline.py), the daily snapshot                    *)
(* (scripts/take_daily_snapshot.py) and the watchdog                       *)
(* (scripts/ops_watchdog.py).  Each job is serial with itself (the         *)
(* concurrency groups of .github/workflows) and overlaps the others freely. *)
(* What execute does of one run is in WeeklyRun; here it is one step with  *)
(* its possible ends.  A mark stands for its NAV: it is the number of      *)
(* trading runs it has seen.                                               *)
(*                                                                         *)
(* Time counts moments, two to a business day: 13:00 UTC, when the weekly  *)
(* command is due, and the evening, past the Monday deadline, when the     *)
(* other two are.  Every fifth day is a Monday; day 0 is one.  The         *)
(* attribution pass before a run writes a table of its own and is left out *)
(* (AnalystWeights computes it).                                           *)
(*                                                                         *)
(* Bug_ operators are wrong variants that no definition uses.              *)
(***************************************************************************)
EXTENDS Integers, Sequences, FiniteSets, SequencesExt, FiniteSetsExt

CONSTANTS
    Branches,      \* the enabled branches, in order
    Metrics,       \* the critical findings a run can have
    Horizon,       \* bound: moments
    Dispatches     \* bound: how many jobs are started

ASSUME OperationsAssumption ==
    /\ Branches \in Seq(Range(Branches)) /\ IsInjective(Branches) /\ IsFiniteSet(Metrics)
    /\ Horizon \in Nat /\ Dispatches \in Nat

VARIABLES
    now,          \* the moment
    run,          \* [branch -> [day -> status of its latest attempt]]
    begun,        \* [branch -> [day -> moment its latest attempt began]]
    trades,       \* [branch -> committed trading runs]
    marks,        \* [branch -> marks committed]
    snapshots,    \* [branch -> sequence of days]
    riskAlerts,   \* set of [branch, run, metric, at, resolved]
    lock,         \* [branch -> who holds its portfolio row]
    weekly,       \* the weekly command
    daily,        \* the daily snapshot job
    watchdog,     \* the watchdog
    issues,       \* titles of open issues, <<subject, day>>
    starts        \* auxiliary: jobs started so far

opsVars == <<now, run, begun, trades, marks, snapshots, riskAlerts, lock, weekly, daily, watchdog, issues, starts>>

Names == ToSet(Branches)
Day(t) == t \div 2
Today == Day(now)
Days == 0 .. Day(Horizon)
Monday(d) == d % 5 = 0

IdleWeekly == [pc |-> "idle", todo |-> <<>>, date |-> 0, mode |-> "run", status |-> "none",
               flow |-> {}, mark |-> 0, snap |-> <<>>, alerts |-> {}, rows |-> {},
               digest |-> <<>>, exit |-> 0]
IdleDaily == [pc |-> "idle", todo |-> <<>>, mark |-> 0, day |-> 0, exit |-> 0]
IdleWatchdog == [pc |-> "idle", todo |-> <<>>, since |-> 0, saw |-> {}, exit |-> 0]

OpsInit ==
    /\ now = 0
    /\ run = [b \in Names |-> [d \in Days |-> "none"]]
    /\ begun = [b \in Names |-> [d \in Days |-> 0]]
    /\ trades = [b \in Names |-> 0]
    /\ marks = [b \in Names |-> {0}]
    /\ snapshots = [b \in Names |-> <<>>]
    /\ riskAlerts = {}
    /\ lock = [b \in Names |-> "free"]
    /\ weekly = IdleWeekly /\ daily = IdleDaily /\ watchdog = IdleWatchdog
    /\ issues = {}
    /\ starts = 0

database == <<run, begun, trades, marks, snapshots, riskAlerts>>

Tick == now < Horizon /\ now' = now + 1
        /\ UNCHANGED <<database, lock, weekly, daily, watchdog, issues, starts>>

Start == starts < Dispatches /\ starts' = starts + 1

-----------------------------------------------------------------------------
(* The weekly command: _main_async, _run_one_branch, _mark_snapshot_and_report *)

Branch == Head(weekly.todo)

WeeklyStart ==
    /\ weekly.pc \in {"idle", "done"} /\ Start
    /\ \E mode \in {"run", "force", "dry"} :
         weekly' = [IdleWeekly EXCEPT !.pc = "branch", !.todo = Branches, !.mode = mode]
    /\ UNCHANGED <<now, database, lock, daily, watchdog, issues>>

\* One line of the digest; a branch that failed never keeps the next from running.
Entry(status, report) == [branch |-> Branch, date |-> weekly.date, status |-> status, report |-> report]
Bug_EndBranch(w, entry) == [w EXCEPT !.pc = "branch", !.todo = IF entry.status = "failed" THEN <<>> ELSE Tail(@),
                                     !.digest = Append(@, entry),
                                     !.exit = IF entry.status = "failed" THEN 1 ELSE @]
EndBranch(w, entry) == [w EXCEPT !.pc = "branch", !.todo = Tail(@), !.digest = Append(@, entry),
                                 !.exit = IF entry.status = "failed" THEN 1 ELSE @]

\* --dry-run stops before anything is read or written.
DryRun ==
    /\ weekly.pc = "branch" /\ weekly.todo # <<>> /\ weekly.mode = "dry"
    /\ weekly' = EndBranch(weekly, Entry("dry", <<>>))
    /\ UNCHANGED <<now, database, lock, daily, watchdog, issues, starts>>

\* The first transaction of execute: skipped, refused, or a row that runs.
\* The date of the run is read here, once for each branch.
Claim ==
    /\ weekly.pc = "branch" /\ weekly.todo # <<>> /\ weekly.mode # "dry"
    /\ LET latest == run[Branch][Today]
           dated == [weekly EXCEPT !.date = Today]
       IN  \/ /\ latest = "completed"
              /\ weekly' = [dated EXCEPT !.pc = "mark", !.status = "skipped", !.flow = {}]
              /\ UNCHANGED <<run, begun>>
           \/ /\ latest = "running" \/ (latest = "failed" /\ weekly.mode = "run")
              /\ weekly' = EndBranch(dated, Entry("failed", <<>>))
              /\ UNCHANGED <<run, begun>>
           \/ /\ latest = "none" \/ (latest = "failed" /\ weekly.mode = "force")
              /\ run' = [run EXCEPT ![Branch][Today] = "running"]
              /\ begun' = [begun EXCEPT ![Branch][Today] = now]
              /\ weekly' = [dated EXCEPT !.pc = "trade"]
    /\ UNCHANGED <<now, trades, marks, snapshots, riskAlerts, lock, daily, watchdog, issues, starts>>

\* The trading transaction and the one after it, which records the end.  A
\* database error swallowed on the way rolls the trades back in silence: the
\* run is recorded as completed and the findings of its order flow stand.
TradingCompletes ==
    /\ weekly.pc = "trade"
    /\ trades' \in {trades, [trades EXCEPT ![Branch] = @ + 1]}
    /\ \/ /\ run' = [run EXCEPT ![Branch][weekly.date] = "completed"]
          /\ \E flow \in SUBSET Metrics :
               weekly' = [weekly EXCEPT !.pc = "mark", !.status = "completed", !.flow = flow]
       \/ /\ weekly' = EndBranch(weekly, Entry("failed", <<>>))     \* _mark_completed raised
          /\ UNCHANGED run
    /\ UNCHANGED <<now, begun, marks, snapshots, riskAlerts, lock, daily, watchdog, issues, starts>>

TradingFails ==
    /\ weekly.pc = "trade"
    /\ \/ run' = [run EXCEPT ![Branch][weekly.date] = "failed"]
       \/ UNCHANGED run                                             \* _mark_failed raised
    /\ weekly' = EndBranch(weekly, Entry("failed", <<>>))
    /\ UNCHANGED <<now, begun, trades, marks, snapshots, riskAlerts, lock, daily, watchdog, issues, starts>>

Bug_WeeklyMark ==
    /\ weekly.pc = "mark"
    /\ weekly' = [weekly EXCEPT !.pc = "check", !.mark = trades[Branch]]
    /\ UNCHANGED <<now, database, lock, daily, watchdog, issues, starts>>

\* mark_to_market updates the portfolio row, which stays locked until commit.
WeeklyMark ==
    /\ weekly.pc = "mark" /\ lock[Branch] = "free"
    /\ lock' = [lock EXCEPT ![Branch] = "weekly"]
    /\ weekly' = [weekly EXCEPT !.pc = "check", !.mark = trades[Branch]]
    /\ UNCHANGED <<now, database, daily, watchdog, issues, starts>>

TakenToday(b) == \E i \in DOMAIN snapshots[b] : snapshots[b][i] = Today

\* Once the row is locked: the day's snapshot is looked for, and the findings
\* of a completed run are written in a savepoint.  The digest shows them
\* whether or not their rows could be written.
Findings == IF weekly.status # "completed" THEN {}
            ELSE {[branch |-> Branch, run |-> weekly.date, metric |-> m, at |-> now, resolved |-> FALSE] : m \in weekly.flow}
WeeklyCheck ==
    /\ weekly.pc = "check"
    /\ \E rows \in {{}, Findings} :
         weekly' = [weekly EXCEPT !.pc = "commit", !.snap = IF TakenToday(Branch) THEN <<>> ELSE <<Today>>,
                                  !.rows = rows,
                                  !.alerts = {f.metric : f \in Findings}]
    /\ UNCHANGED <<now, database, lock, daily, watchdog, issues, starts>>

\* The report joins the summary only once the session has committed.
Report == <<[mark |-> weekly.mark, alerts |-> weekly.alerts]>>
WeeklyCommit ==
    /\ weekly.pc = "commit"
    /\ marks' = [marks EXCEPT ![Branch] = @ \cup {weekly.mark}]
    /\ snapshots' = [snapshots EXCEPT ![Branch] = @ \o weekly.snap]
    /\ riskAlerts' = riskAlerts \cup weekly.rows
    /\ lock' = [lock EXCEPT ![Branch] = "free"]
    /\ weekly' = EndBranch(weekly, Entry(weekly.status, Report))
    /\ UNCHANGED <<now, run, begun, trades, daily, watchdog, issues, starts>>

Unlocked(job) == [b \in Names |-> IF lock[b] = job THEN "free" ELSE lock[b]]

\* Any exception of the marking session: rolled back, logged, carried on.
Bug_WeeklyMarkFails ==
    /\ weekly.pc \in {"mark", "check", "commit"}
    /\ lock' = Unlocked("weekly")
    /\ weekly' = EndBranch(weekly, Entry(weekly.status, IF weekly.pc = "commit" THEN Report ELSE <<>>))
    /\ UNCHANGED <<now, database, daily, watchdog, issues, starts>>

WeeklyMarkFails ==
    /\ weekly.pc \in {"mark", "check", "commit"}
    /\ lock' = Unlocked("weekly")
    /\ weekly' = EndBranch(weekly, Entry(weekly.status, <<>>))
    /\ UNCHANGED <<now, database, daily, watchdog, issues, starts>>

RenderDigest ==
    /\ weekly.pc = "branch" /\ weekly.todo = <<>>
    /\ weekly' = [weekly EXCEPT !.pc = "done"]
    /\ UNCHANGED <<now, database, lock, daily, watchdog, issues, starts>>

-----------------------------------------------------------------------------
(* take_daily_snapshot: snapshot_branch for every branch, one session each *)

DailyStart ==
    /\ daily.pc \in {"idle", "done"} /\ Start
    /\ daily' = [IdleDaily EXCEPT !.pc = IF Branches = <<>> THEN "done" ELSE "check", !.todo = Branches]
    /\ UNCHANGED <<now, database, lock, weekly, watchdog, issues>>

NextBranch(d, failed) ==
    LET rest == Tail(d.todo)
    IN  [d EXCEPT !.pc = IF rest = <<>> THEN "done" ELSE "check", !.todo = rest,
                  !.exit = IF failed THEN 1 ELSE @]

\* The check comes before the prices are fetched and before the row is locked;
\* the books the mark adds up are the ones the session read here.
DailyCheck ==
    /\ daily.pc = "check"
    /\ daily' = IF TakenToday(Head(daily.todo)) THEN NextBranch(daily, FALSE)
                ELSE [daily EXCEPT !.pc = "mark", !.mark = trades[Head(daily.todo)]]
    /\ UNCHANGED <<now, database, lock, weekly, watchdog, issues, starts>>

DailyMark ==
    /\ daily.pc = "mark" /\ lock[Head(daily.todo)] = "free"
    /\ lock' = [lock EXCEPT ![Head(daily.todo)] = "daily"]
    /\ daily' = [daily EXCEPT !.pc = "commit", !.day = Today]
    /\ UNCHANGED <<now, database, weekly, watchdog, issues, starts>>

DailyCommit ==
    /\ daily.pc = "commit"
    /\ LET b == Head(daily.todo)
       IN  /\ marks' = [marks EXCEPT ![b] = @ \cup {daily.mark}]
           /\ snapshots' = [snapshots EXCEPT ![b] = Append(@, daily.day)]
           /\ lock' = [lock EXCEPT ![b] = "free"]
    /\ daily' = NextBranch(daily, FALSE)
    /\ UNCHANGED <<now, run, begun, trades, riskAlerts, weekly, watchdog, issues, starts>>

DailyFails ==
    /\ daily.pc \in {"check", "mark", "commit"}
    /\ lock' = Unlocked("daily")
    /\ daily' = NextBranch(daily, TRUE)
    /\ UNCHANGED <<now, database, weekly, watchdog, issues, starts>>

-----------------------------------------------------------------------------
(* ops_watchdog *)

StaleDays == 2        \* SNAPSHOT_STALE_BUSINESS_DAYS
Lookback == 2         \* CRITICAL_LOOKBACK_HOURS: this moment of the day before is in

\* Two moments are more than STUCK_RUN_HOURS apart.
StuckRuns == {r \in Names \X Days : run[r[1]][r[2]] = "running" /\ begun[r[1]][r[2]] < now}
MissingRuns == {b \in Names : Monday(Today) /\ now % 2 = 1 /\ run[b][Today] # "completed"}
StaleBranches == {b \in Names : \A i \in DOMAIN snapshots[b] : snapshots[b][i] < Today - StaleDays}
Unnotified == {a \in riskAlerts : ~a.resolved /\ now - a.at <= Lookback}

\* The alerts by subject, in the order the checks run; those of one check in
\* any order.
Subjects ==
    (IF StuckRuns = {} THEN <<>> ELSE <<<<"stuck">>>>)
    \o SetToSeq({<<"missing", b>> : b \in MissingRuns})
    \o SetToSeq({<<"stale", b>> : b \in StaleBranches})
    \o SetToSeq({<<"critical", a.metric>> : a \in Unnotified})

WatchdogStart ==
    /\ watchdog.pc \in {"idle", "done"} /\ Start
    /\ watchdog' = [pc |-> "raise", todo |-> Subjects, since |-> now, saw |-> riskAlerts, exit |-> 0]
    /\ UNCHANGED <<now, database, lock, weekly, daily, issues>>

\* ensure_issue: an open issue of the subject and the date is commented on.
Bug_EnsureIssue ==
    /\ watchdog.pc = "raise" /\ watchdog.todo # <<>>
    /\ issues' \in {issues, issues \cup {<<Head(watchdog.todo), Today>>}}
    /\ watchdog' = [watchdog EXCEPT !.todo = Tail(@)]
    /\ UNCHANGED <<now, database, lock, weekly, daily, starts>>

EnsureIssue ==
    /\ watchdog.pc = "raise" /\ watchdog.todo # <<>>
    /\ issues' = issues \cup {<<Head(watchdog.todo), Today>>}
    /\ watchdog' = [watchdog EXCEPT !.todo = Tail(@)]
    /\ UNCHANGED <<now, database, lock, weekly, daily, starts>>

\* gh failed: the exception ends the watchdog with exit code 1.
EnsureIssueFails ==
    /\ watchdog.pc = "raise" /\ watchdog.todo # <<>>
    /\ watchdog' = [watchdog EXCEPT !.pc = "done", !.exit = 1]
    /\ UNCHANGED <<now, database, lock, weekly, daily, issues, starts>>

WatchdogDone ==
    /\ watchdog.pc = "raise" /\ watchdog.todo = <<>>
    /\ watchdog' = [watchdog EXCEPT !.pc = "done"]
    /\ UNCHANGED <<now, database, lock, weekly, daily, issues, starts>>

-----------------------------------------------------------------------------
(* A workflow is cancelled or times out: its sessions roll back.  The operator *)
(* handles an alert, or sets a row of a dead run to 'failed'.                   *)

CrashWeekly ==
    /\ weekly.pc \notin {"idle", "done"}
    /\ weekly' = IdleWeekly
    /\ lock' = Unlocked("weekly")
    /\ UNCHANGED <<now, database, daily, watchdog, issues, starts>>

CrashDaily ==
    /\ daily.pc \notin {"idle", "done"}
    /\ daily' = IdleDaily
    /\ lock' = Unlocked("daily")
    /\ UNCHANGED <<now, database, weekly, watchdog, issues, starts>>

ResolveAlert ==
    /\ \E a \in riskAlerts : ~a.resolved /\ riskAlerts' = (riskAlerts \ {a}) \cup {[a EXCEPT !.resolved = TRUE]}
    /\ UNCHANGED <<now, run, begun, trades, marks, snapshots, lock, weekly, daily, watchdog, issues, starts>>

FlipRun ==
    /\ weekly.pc \in {"idle", "done"}
    /\ \E b \in Names, d \in Days : run[b][d] = "running" /\ run' = [run EXCEPT ![b][d] = "failed"]
    /\ UNCHANGED <<now, begun, trades, marks, snapshots, riskAlerts, lock, weekly, daily, watchdog, issues, starts>>

OpsNext ==
    \/ Tick
    \/ WeeklyStart \/ DryRun \/ Claim \/ TradingCompletes \/ TradingFails \/ WeeklyMark \/ WeeklyCheck
    \/ WeeklyCommit \/ WeeklyMarkFails \/ RenderDigest \/ CrashWeekly
    \/ DailyStart \/ DailyCheck \/ DailyMark \/ DailyCommit \/ DailyFails \/ CrashDaily
    \/ WatchdogStart \/ EnsureIssue \/ EnsureIssueFails \/ WatchdogDone
    \/ ResolveAlert \/ FlipRun

OpsSpec == OpsInit /\ [][OpsNext]_opsVars

-----------------------------------------------------------------------------
(* Properties *)

OpsTypeOK ==
    /\ now \in 0 .. Horizon
    /\ run \in [Names -> [Days -> {"none", "running", "completed", "failed"}]]
    /\ lock \in [Names -> {"free", "weekly", "daily"}]
    /\ \A b \in Names : marks[b] \subseteq 0 .. trades[b]

\* What the digest says of a branch is durable when it is said: a completed
\* run has its row and a report only the numbers of a committed mark, with
\* every finding of that run that has a row; and the command reports every
\* branch and fails exactly when one of them failed (run_weekly_pipeline.py
\* _main_async, _mark_snapshot_and_report).
DigestTruthful ==
    /\ OpsTypeOK
    /\ \A i \in DOMAIN weekly.digest :
         LET e == weekly.digest[i]
         IN  /\ e.status \in {"completed", "skipped"} => run[e.branch][e.date] = "completed"
             /\ e.report # <<>> =>
                  /\ e.report[1].mark \in marks[e.branch]
                  /\ e.status = "completed" => e.report[1].mark = trades[e.branch]
    /\ weekly.pc = "done" =>
         /\ [i \in DOMAIN weekly.digest |-> weekly.digest[i].branch] = Branches
         /\ weekly.exit = 1 <=> \E i \in DOMAIN weekly.digest : weekly.digest[i].status = "failed"

\* A skipped rerun never writes the findings of the day's run again, and the
\* weekly command, which looks for the day's snapshot with the portfolio row
\* locked, never adds a second one, whatever the daily job does meanwhile
\* (run_weekly_pipeline.py:198, :278).
WeeklyRerunHarmless ==
    [][weekly'.pc = "branch" /\ weekly.pc = "commit" =>
         /\ snapshots' # snapshots => Head(weekly.snap) \notin ToSet(snapshots[Branch])
         /\ riskAlerts' # riskAlerts =>
              /\ weekly.status = "completed"
              /\ \A a \in riskAlerts : <<a.branch, a.run>> # <<Branch, weekly.date>>]_opsVars

\* A watchdog that ends well has an issue of its day open for every critical
\* row there was when it looked and for every run still 'running' that began
\* at an earlier moment, so a silent watchdog means nothing to report
\* (ops_watchdog.py _main_async).
SilenceMeansHealth ==
    watchdog.pc = "done" /\ watchdog.exit = 0 =>
        LET open == {i[1] : i \in {j \in issues : j[2] \in Day(watchdog.since) .. Today}}
        IN  /\ \A a \in watchdog.saw :
                 ~a.resolved /\ watchdog.since - a.at <= Lookback => <<"critical", a.metric>> \in open
            /\ \A b \in Names, d \in Days :
                 run[b][d] = "running" /\ begun[b][d] < watchdog.since => <<"stuck">> \in open
=============================================================================
