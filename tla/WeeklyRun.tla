------------------------------- MODULE WeeklyRun -------------------------------
(***************************************************************************)
(* The weekly pipeline run of one branch on one day:                       *)
(* app/modules/equities/weekly_runner.py (WeeklyRunner.execute and         *)
(* PipelineRunsRepository), the operator's recovery and the stuck-run      *)
(* check of scripts/ops_watchdog.py.  Runs of other branches or days share *)
(* no row with this one.                                                   *)
(*                                                                         *)
(* A runner is a process that calls execute: the scheduled job, a manual   *)
(* dispatch, a local command.  execute uses three transactions.  The first *)
(* reads the latest attempt and inserts the row of the next one; its       *)
(* run_id is a function of the attempt number and the primary key, so the  *)
(* second of two concurrent inserts waits for the first transaction and    *)
(* then fails.  The second books the trades; the third records the         *)
(* outcome.  A process can die, and a transaction can fail, at any point;  *)
(* when the connection breaks during a commit, the commit can succeed in   *)
(* the database and still raise in the runner.  And run_fn swallows errors *)
(* of the database (an instrument, an order, an event or an artifact that  *)
(* cannot be written): its transaction is then doomed, yet the block that  *)
(* ends it does not raise, and all of it is rolled back in silence.        *)
(*                                                                         *)
(* An action named Bug_X is a wrong variant of X that no definition uses:  *)
(* a mistake that one of the properties has to catch.                      *)
(***************************************************************************)
EXTENDS Integers

CONSTANTS
    Runners,       \* processes that may run this branch today
    MaxAttempts    \* bound: attempts per branch and day

ASSUME WeeklyRunAssumption == MaxAttempts \in Nat \ {0}

Attempts == 1 .. MaxAttempts
Status   == {"none", "running", "completed", "failed"}   \* "none": no row

VARIABLES
    status,    \* committed pipeline_runs rows, by attempt
    booked,    \* attempts whose trading transaction is durable
    pc,        \* where each runner is in execute
    att,       \* the attempt a runner has decided on
    outcome,   \* how each runner's last call of execute ended
    flipped,   \* attempts whose row the operator set to 'failed'
    unacked,   \* auxiliary: attempts whose trading commit raised although it succeeded
    lost,      \* auxiliary: attempts whose trading was rolled back without raising
    aged,      \* attempts whose row has been running for STUCK_RUN_HOURS
    alerted    \* attempts the watchdog has opened an issue for

vars == <<status, booked, pc, att, outcome, flipped, unacked, lost, aged, alerted>>

(* pc: "insert"   - decided, the INSERT not yet done                       *)
(*     "inserted" - row inserted, transaction 1 not committed              *)
(*     "trading"  - run_fn is running in the trading transaction           *)
(*     "traded"   - trading ended without raising, outcome not recorded    *)
(*     "failing"  - run_fn or its commit raised, failure not yet recorded  *)
Stages == {"idle", "insert", "inserted", "trading", "traded", "failing"}
Owning == {"trading", "traded", "failing"}
Outcomes == {"none", "skipped", "refused", "completed", "failed", "error"}

Init ==
    /\ status = [a \in Attempts |-> "none"]
    /\ booked = {}
    /\ pc = [r \in Runners |-> "idle"]
    /\ att = [r \in Runners |-> 0]
    /\ outcome = [r \in Runners |-> "none"]
    /\ flipped = {}
    /\ unacked = {}
    /\ lost = {}
    /\ aged = {}
    /\ alerted = {}

(* The row find_latest returns. *)
IsLatest(a) == status[a] # "none" /\ \A b \in Attempts : b > a => status[b] = "none"

Goto(r, stage) == pc' = [pc EXCEPT ![r] = stage]

End(r, how) ==
    /\ Goto(r, "idle")
    /\ outcome' = [outcome EXCEPT ![r] = how]

history == <<flipped, unacked, lost, aged, alerted>>

-----------------------------------------------------------------------------
(* Transaction 1: find_latest, _decide_attempt, insert *)

Prepare(r, a) ==
    /\ a \in Attempts
    /\ att' = [att EXCEPT ![r] = a]
    /\ Goto(r, "insert")
    /\ UNCHANGED <<status, booked, outcome, history>>

DecideFirst(r) ==
    /\ pc[r] = "idle"
    /\ \A a \in Attempts : status[a] = "none"
    /\ Prepare(r, 1)

Bug_DecideRetry(r) ==
    /\ pc[r] = "idle"
    /\ \E a \in Attempts :
         IsLatest(a) /\ status[a] \in {"failed", "running"} /\ Prepare(r, a + 1)

DecideRetry(r) ==
    /\ pc[r] = "idle"
    /\ \E a \in Attempts : IsLatest(a) /\ status[a] = "failed" /\ Prepare(r, a + 1)

(* RunInFlightError, ManualInterventionRequired *)
Refuse(r) ==
    /\ pc[r] = "idle"
    /\ \E a \in Attempts : IsLatest(a) /\ status[a] \in {"running", "failed"}
    /\ End(r, "refused")
    /\ UNCHANGED <<status, booked, att, history>>

Skip(r) ==
    /\ pc[r] = "idle"
    /\ \E a \in Attempts : IsLatest(a) /\ status[a] = "completed"
    /\ End(r, "skipped")
    /\ UNCHANGED <<status, booked, att, history>>

(* The INSERT waits while another transaction holds the same key. *)
KeyHeld(r) == \E q \in Runners \ {r} : pc[q] = "inserted" /\ att[q] = att[r]

Insert(r) ==
    /\ pc[r] = "insert"
    /\ ~KeyHeld(r)
    /\ status[att[r]] = "none"
    /\ Goto(r, "inserted")
    /\ UNCHANGED <<status, booked, att, outcome, history>>

Bug_InsertConflictIgnored(r) ==
    /\ pc[r] = "insert"
    /\ ~KeyHeld(r)
    /\ status[att[r]] # "none"
    /\ Goto(r, "inserted")
    /\ UNCHANGED <<status, booked, att, outcome, history>>
Bug_InsertConflictRetried(r) ==
    /\ pc[r] = "insert"
    /\ ~KeyHeld(r)
    /\ status[att[r]] # "none"
    /\ UNCHANGED vars

InsertConflict(r) ==
    /\ pc[r] = "insert"
    /\ ~KeyHeld(r)
    /\ status[att[r]] # "none"
    /\ End(r, "error")
    /\ UNCHANGED <<status, booked, att, history>>

Bug_OpenRun(r) ==
    /\ pc[r] = "inserted"
    /\ Goto(r, "trading")
    /\ UNCHANGED <<status, booked, att, outcome, history>>

OpenRun(r) ==
    /\ pc[r] = "inserted"
    /\ status' = [status EXCEPT ![att[r]] = "running"]
    /\ Goto(r, "trading")
    /\ UNCHANGED <<booked, att, outcome, history>>

OpenRunFails(r) ==
    /\ pc[r] = "inserted"
    /\ \/ UNCHANGED status
       \/ status' = [status EXCEPT ![att[r]] = "running"]
    /\ End(r, "error")
    /\ UNCHANGED <<booked, att, history>>

-----------------------------------------------------------------------------
(* Transaction 2: run_fn *)

Trade(r) ==
    /\ pc[r] = "trading"
    /\ booked' = booked \cup {att[r]}
    /\ Goto(r, "traded")
    /\ UNCHANGED <<status, att, outcome, history>>

Bug_TradeFails(r) ==
    /\ pc[r] = "trading"
    /\ Goto(r, "traded")
    /\ UNCHANGED <<status, booked, att, outcome, history>>

TradeFails(r) ==
    /\ pc[r] = "trading"
    /\ \/ UNCHANGED <<booked, unacked>>
       \/ /\ booked' = booked \cup {att[r]}
          /\ unacked' = unacked \cup {att[r]}
    /\ Goto(r, "failing")
    /\ UNCHANGED <<status, att, outcome, flipped, lost, aged, alerted>>

(* A database error was swallowed: nothing of the attempt is kept. *)
TradeLost(r) ==
    /\ pc[r] = "trading"
    /\ lost' = lost \cup {att[r]}
    /\ Goto(r, "traded")
    /\ UNCHANGED <<status, booked, att, outcome, flipped, unacked, aged, alerted>>

-----------------------------------------------------------------------------
(* Transaction 3: mark_completed or mark_failed *)

MarkCompleted(r) ==
    /\ pc[r] = "traded"
    /\ status' = [status EXCEPT ![att[r]] = "completed"]
    /\ End(r, "completed")
    /\ UNCHANGED <<booked, att, history>>

Bug_MarkCompletedFails(r) ==
    /\ pc[r] = "traded"
    /\ Goto(r, "failing")
    /\ UNCHANGED <<status, booked, att, outcome, history>>

MarkCompletedFails(r) ==
    /\ pc[r] = "traded"
    /\ \/ UNCHANGED status
       \/ status' = [status EXCEPT ![att[r]] = "completed"]
    /\ End(r, "error")
    /\ UNCHANGED <<booked, att, history>>

Bug_MarkFailed(r) ==
    /\ pc[r] = "failing"
    /\ status' = [status EXCEPT ![att[r]] = "error"]
    /\ End(r, "failed")
    /\ UNCHANGED <<booked, att, history>>

(* An error while recording the failure is logged and suppressed; the *)
(* pipeline's own exception is re-raised either way. *)
MarkFailed(r) ==
    /\ pc[r] = "failing"
    /\ \/ status' = [status EXCEPT ![att[r]] = "failed"]
       \/ UNCHANGED status
    /\ End(r, "failed")
    /\ UNCHANGED <<booked, att, history>>

(* A hard kill: open transactions roll back, nothing is recorded. *)
Crash(r) ==
    /\ pc[r] # "idle"
    /\ End(r, "error")
    /\ UNCHANGED <<status, booked, att, history>>

-----------------------------------------------------------------------------
(* Outside the runner *)

(* The documented recovery: a row left 'running' by a process that is gone *)
(* is set to 'failed' by hand. *)
OperatorFlips(a) ==
    /\ status[a] = "running"
    /\ \A r \in Runners : pc[r] \in Owning => att[r] # a
    /\ status' = [status EXCEPT ![a] = "failed"]
    /\ flipped' = flipped \cup {a}
    /\ UNCHANGED <<booked, pc, att, outcome, unacked, lost, aged, alerted>>

GrowsOld(a) ==
    /\ status[a] = "running"
    /\ a \notin aged
    /\ aged' = aged \cup {a}
    /\ UNCHANGED <<status, booked, pc, att, outcome, flipped, unacked, lost, alerted>>

Bug_CheckStuckRuns ==
    /\ alerted = {}
    /\ \E a \in aged : status[a] = "running"
    /\ alerted' = alerted \cup {a \in aged : status[a] = "running"}
    /\ UNCHANGED <<status, booked, pc, att, outcome, flipped, unacked, lost, aged>>

CheckStuckRuns ==
    /\ \E a \in aged \ alerted : status[a] = "running"
    /\ alerted' = alerted \cup {a \in aged : status[a] = "running"}
    /\ UNCHANGED <<status, booked, pc, att, outcome, flipped, unacked, lost, aged>>

(* What a runner does once execute has been called. *)
Proceed(r) ==
    \/ Insert(r) \/ InsertConflict(r) \/ OpenRun(r) \/ OpenRunFails(r)
    \/ Trade(r) \/ TradeFails(r) \/ TradeLost(r)
    \/ MarkCompleted(r) \/ MarkCompletedFails(r) \/ MarkFailed(r)

Next ==
    \/ \E r \in Runners :
         \/ DecideFirst(r) \/ DecideRetry(r) \/ Refuse(r) \/ Skip(r)
         \/ Proceed(r)
         \/ Crash(r)
    \/ \E a \in Attempts : OperatorFlips(a) \/ GrowsOld(a)
    \/ CheckStuckRuns

Spec == Init /\ [][Next]_vars

(* A process that has not died keeps going (the trading step is bounded by *)
(* the job's 90 minute timeout), time passes, and the watchdog is a cron   *)
(* job.  An insert that waits for a key is woken when the holder's         *)
(* transaction ends, hence the strong fairness: the same key cannot be     *)
(* taken again and again past it.  Nothing obliges a runner to start or an *)
(* operator to act.                                                        *)
Fairness ==
    /\ \A r \in Runners : WF_vars(Proceed(r))
    /\ \A r \in Runners : SF_vars(Insert(r) \/ InsertConflict(r))
    /\ \A a \in Attempts : WF_vars(GrowsOld(a))
    /\ WF_vars(CheckStuckRuns)

FairSpec == Spec /\ Fairness

-----------------------------------------------------------------------------
(* Properties *)

(* Every column and every stage has its type. *)
TypeOK ==
    /\ status \in [Attempts -> Status]
    /\ booked \subseteq Attempts
    /\ pc \in [Runners -> Stages]
    /\ att \in [Runners -> Attempts \cup {0}]
    /\ outcome \in [Runners -> Outcomes]
    /\ flipped \subseteq Attempts
    /\ unacked \subseteq Attempts
    /\ lost \subseteq Attempts
    /\ aged \subseteq Attempts
    /\ alerted \subseteq Attempts

(* The rows of a day form a chain: an attempt exists only on top of failed *)
(* ones, so at most one row is 'running' and nothing follows a completed *)
(* run, even when two runners read the table before either has inserted. *)
AttemptChain ==
    \A a, b \in Attempts : a < b /\ status[b] # "none" => status[a] = "failed"

(* Two runners never trade for the branch at the same time, and a runner *)
(* that trades owns the one 'running' row. *)
OneTrader ==
    \A r \in Runners : pc[r] \in Owning =>
        /\ status[att[r]] = "running"
        /\ \A q \in Runners : pc[q] \in Owning => q = r

(* A row says 'completed', and a caller hears "completed" or "skipped", *)
(* only after the trading of that attempt has ended, with all its trades *)
(* durable or with none of them, and none only after an error of the *)
(* database that run_fn swallowed (weekly_runner.py:243-265). *)
CompletedIsSettled ==
    /\ \A a \in Attempts : status[a] = "completed" => (a \in booked <=> a \notin lost)
    /\ \A r \in Runners : outcome[r] \in {"completed", "skipped"} =>
           \E a \in booked \cup lost : status[a] = "completed"

(* What WeeklyRunner's docstring says of the third transaction: "only *)
(* reached after trading data is durable" (weekly_runner.py:173).  A *)
(* swallowed error of the database breaks it. *)
CompletedIsDurable == \A a \in Attempts : status[a] = "completed" => a \in booked

(* A failed row with trades has one of two causes: the operator flipped it, *)
(* or the acknowledgement of its trading commit was lost.  In every other *)
(* case force_retry after a failure trades once (weekly_runner.py:170-172, *)
(* "rolls back on exception (trading data never partially persists)"). *)
FailedHasNoTrades ==
    \A a \in booked : status[a] = "failed" => a \in flipped \cup unacked

(* Trades become durable only under the running row of their own attempt, *)
(* and once a day is completed nothing about it changes again. *)
BookedUnderOwnRow ==
    [][/\ \A a \in booked' \ booked : status[a] = "running" /\ status'[a] = "running"
       /\ (\E a \in Attempts : status[a] = "completed") => UNCHANGED <<status, booked>>]_vars

(* The ledger sees the committed rows and trades of the runners. *)
Ledger == INSTANCE RunLedger
            WITH MaxAttempts <- MaxAttempts, status <- status, booked <- booked, lost <- lost

(* The runners together implement the ledger the table promises. *)
ImplementsLedger == Ledger!Spec

(* execute always returns or dies: waiting for another runner's key never *)
(* becomes waiting for ever. *)
ExecuteReturns == \A r \in Runners : pc[r] # "idle" ~> pc[r] = "idle"

(* A row left 'running' is resolved or the watchdog reports it. *)
StuckRunNoticed ==
    \A a \in Attempts : status[a] = "running" ~> (status[a] # "running" \/ a \in alerted)
=============================================================================
