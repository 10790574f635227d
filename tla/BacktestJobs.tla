------------------------------ MODULE BacktestJobs ------------------------------
(***************************************************************************)
(* Backtests as the API runs them (app/modules/backtest/api.py): a         *)
(* registry of records in memory, one background task per run, a cancel    *)
(* request, a best-effort row in the database and the recovery at startup. *)
(*                                                                         *)
(* The server is one event loop, so a step is what runs between two points *)
(* where a task really suspends: the build of its context, the pipeline of *)
(* a rebalance day and the save.  The days between two rebalances touch    *)
(* memory only; no request can come between them.                          *)
(*                                                                         *)
(* An operator named Bug_X is a wrong variant of X that no definition      *)
(* uses: a mistake that one of the properties has to catch.                *)
(***************************************************************************)
EXTENDS Integers

CONSTANTS
    Jobs,            \* the ids uuid4 will hand out
    Days,            \* trading days of a run
    RebalanceDays    \* the days on which the pipeline runs

ASSUME JobsAssumption ==
    /\ Days \in Nat \ {0}
    /\ RebalanceDays \subseteq 1 .. Days

VARIABLES
    up,       \* the server is running
    status,   \* BacktestRunRecord.status; "none" when _runs has no record
    result,   \* BacktestRunRecord.result: its status and number of snapshots
    event,    \* context.cancelled: "absent" until the record has its context
    task,     \* where the background task is; "lost" or "gone" with its process
    day,      \* simulated day of the pipeline in progress
    row       \* the backtest_runs row: what was saved of the result

vars == <<up, status, result, event, task, day, row>>

Final    == {"completed", "failed", "cancelled"}
Nothing  == [status |-> "none", days |-> 0]
Places   == {"unused", "queued", "building", "pipeline", "persisting", "ended", "lost", "gone"}

Init ==
    /\ up = TRUE
    /\ status = [j \in Jobs |-> "none"]
    /\ result = [j \in Jobs |-> Nothing]
    /\ event = [j \in Jobs |-> "absent"]
    /\ task = [j \in Jobs |-> "unused"]
    /\ day = [j \in Jobs |-> 0]
    /\ row = [j \in Jobs |-> Nothing]

-----------------------------------------------------------------------------
(* The background task *)

Goto(j, p) == task' = [task EXCEPT ![j] = p]

Fail(j) ==
    /\ status' = [status EXCEPT ![j] = "failed"]
    /\ Goto(j, "ended")

(* _run_simulation returns; with two snapshots it computes metrics first, *)
(* and an exception there leaves nothing but the failed record. *)
End(j, outcome, days) ==
    /\ \/ /\ result' = [result EXCEPT ![j] = [status |-> outcome, days |-> days]]
          /\ status' = [status EXCEPT ![j] = outcome]
          /\ Goto(j, "persisting")
       \/ days >= 2 /\ Fail(j) /\ UNCHANGED result
    /\ UNCHANGED day

Upcoming(d) == {r \in RebalanceDays : r >= d}

(* From the top of day d to the next suspension.  The event is looked at *)
(* when a day begins, and cannot change before the next pipeline. *)
Advance(j, d, e) ==
    \/ d <= Days /\ e = "set" /\ End(j, "cancelled", d - 1)
    \/ /\ d <= Days /\ e # "set"
       /\ \E r \in Upcoming(d) :
            /\ \A x \in Upcoming(d) : r <= x
            /\ day' = [day EXCEPT ![j] = r]
       /\ Goto(j, "pipeline")
       /\ UNCHANGED <<status, result>>
    \/ /\ d > Days \/ (e # "set" /\ Upcoming(d) = {})
       /\ End(j, "completed", Days)

Build(j) ==
    /\ task[j] = "queued"
    /\ Goto(j, "building")
    /\ UNCHANGED <<up, status, result, event, day, row>>

Bug_BuildFails(j) ==
    /\ task[j] = "building"
    /\ Goto(j, "ended")
    /\ UNCHANGED <<up, status, result, event, day, row>>
BuildFails(j) ==
    /\ task[j] = "building"
    /\ Fail(j)
    /\ UNCHANGED <<up, result, event, day, row>>

(* A cancel that came before there was a context is passed on to it. *)
Bug_BuildDone(j) ==
    /\ task[j] = "building"
    /\ event' = [event EXCEPT ![j] = "clear"]
    /\ Advance(j, 1, event'[j])
    /\ UNCHANGED <<up, row>>
Bug_BuildDoneHidden(j) ==
    /\ task[j] = "building"
    /\ Advance(j, 1, event[j])
    /\ UNCHANGED <<up, event, row>>
BuildDone(j) ==
    /\ task[j] = "building"
    /\ event' = [event EXCEPT ![j] = IF status[j] = "cancelled" THEN "set" ELSE "clear"]
    /\ Advance(j, 1, event'[j])
    /\ UNCHANGED <<up, row>>

PipelineDone(j) ==
    /\ task[j] = "pipeline"
    /\ Advance(j, day[j] + 1, event[j])
    /\ UNCHANGED <<up, event, row>>

PipelineFails(j) ==
    /\ task[j] = "pipeline"
    /\ End(j, "failed", day[j] - 1)
    /\ UNCHANGED <<up, event, row>>

Persist(j) ==
    /\ task[j] = "persisting"
    /\ row' = [row EXCEPT ![j] = result[j]]
    /\ Goto(j, "ended")
    /\ UNCHANGED <<up, status, result, event, day>>

PersistFails(j) ==
    /\ task[j] = "persisting"
    /\ Goto(j, "ended")
    /\ UNCHANGED <<up, status, result, event, day, row>>

TaskStep(j) ==
    \/ Build(j) \/ BuildFails(j) \/ BuildDone(j)
    \/ PipelineDone(j) \/ PipelineFails(j)
    \/ Persist(j) \/ PersistFails(j)

-----------------------------------------------------------------------------
(* Requests, and the process itself *)

(* The record exists, and says running, before the task is first scheduled. *)
Run(j) ==
    /\ up
    /\ task[j] = "unused"
    /\ status' = [status EXCEPT ![j] = "running"]
    /\ Goto(j, "queued")
    /\ UNCHANGED <<up, result, event, day, row>>

(* Without a record the answer is 404, with a final one it is 409. *)
Bug_Cancel(j) ==
    /\ status[j] # "none"
    /\ status' = [status EXCEPT ![j] = "cancelled"]
    /\ event' = [event EXCEPT ![j] = IF @ = "absent" THEN @ ELSE "set"]
    /\ UNCHANGED <<up, result, task, day, row>>
Cancel(j) ==
    /\ status[j] \notin Final \cup {"none"}
    /\ status' = [status EXCEPT ![j] = "cancelled"]
    /\ event' = [event EXCEPT ![j] = IF @ = "absent" THEN @ ELSE "set"]
    /\ UNCHANGED <<up, result, task, day, row>>

Crash ==
    /\ up
    /\ up' = FALSE
    /\ status' = [j \in Jobs |-> "none"]
    /\ result' = [j \in Jobs |-> Nothing]
    /\ event' = [j \in Jobs |-> "absent"]
    /\ task' = [j \in Jobs |-> CASE task[j] \in {"queued", "building", "pipeline"} -> "lost"
                                 [] task[j] \in {"persisting", "ended"} -> "gone"
                                 [] OTHER -> task[j]]
    /\ UNCHANGED <<day, row>>

(* recover_stale_backtests *)
Restart ==
    /\ ~up
    /\ up' = TRUE
    /\ row' = [j \in Jobs |-> IF row[j].status = "running" THEN [row[j] EXCEPT !.status = "failed"]
                              ELSE row[j]]
    /\ UNCHANGED <<status, result, event, task, day>>

Next ==
    \/ \E j \in Jobs : Run(j) \/ Cancel(j) \/ TaskStep(j)
    \/ Crash \/ Restart

Spec     == Init /\ [][Next]_vars
FairSpec == Spec /\ \A j \in Jobs : WF_vars(TaskStep(j))

-----------------------------------------------------------------------------
(* Properties *)

(* Every variable has its type, and a simulation under way has a context a *)
(* cancel request can reach. *)
TypeOK ==
    /\ up \in BOOLEAN
    /\ status \in [Jobs -> Final \cup {"none", "running"}]
    /\ result \in [Jobs -> [status : Final \cup {"none"}, days : 0 .. Days]]
    /\ event \in [Jobs -> {"absent", "clear", "set"}]
    /\ task \in [Jobs -> Places]
    /\ day \in [Jobs -> 0 .. Days]
    /\ row \in [Jobs -> [status : Final \cup {"none"}, days : 0 .. Days]]
    /\ \A j \in Jobs : task[j] = "pipeline" => event[j] # "absent"

(* An accepted cancel stops the spending: once it was answered no pipeline *)
(* starts any more, wherever the task was when it came, including before *)
(* the run had a context to tell. *)
CancelStops ==
    [][\A j \in Jobs : status[j] = "cancelled" /\ task'[j] = "pipeline"
                         => task[j] = "pipeline" /\ day'[j] = day[j]]_vars

(* What the three places say of an ended run agrees: the record has the *)
(* status of its result, a saved row is that result, all days were *)
(* simulated exactly when it completed, and a run without result failed. *)
RecordMatchesResult ==
    \A j \in Jobs :
        /\ result[j] # Nothing =>
             /\ status[j] = result[j].status
             /\ row[j] \in {Nothing, result[j]}
             /\ result[j].status = "completed" <=> result[j].days = Days
        /\ task[j] = "ended" /\ result[j] = Nothing => status[j] = "failed" /\ row[j] = Nothing

(* The three places are typed and agree. *)
RecordsSound == TypeOK /\ RecordMatchesResult

(* A run that was accepted ends with a final status, or with its process. *)
RunsEnd ==
    \A j \in Jobs :
        task[j] = "queued" ~> \/ task[j] = "ended" /\ status[j] \in Final
                              \/ task[j] \in {"lost", "gone"}
=============================================================================
