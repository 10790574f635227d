------------------------------- MODULE RunLedger -------------------------------
(***************************************************************************)
(* What the pipeline_runs table promises about one (branch, run date),     *)
(* whoever runs the pipeline: attempts open one after another, each only   *)
(* when every earlier one has failed; the trading of an attempt ends once, *)
(* under its open row, with all its trades booked or, when the database    *)
(* failed it in silence, with all of them lost; an attempt completes only  *)
(* when its trading has ended, and after that nothing happens any more.    *)
(*                                                                         *)
(* WeeklyRun is shown to implement this specification.                     *)
(***************************************************************************)
EXTENDS Integers

CONSTANT MaxAttempts    \* bound: attempts per branch and day

Attempts == 1 .. MaxAttempts
Status   == {"none", "running", "completed", "failed"}   \* "none": no row

VARIABLES
    status,   \* status column of the row of each attempt
    booked,   \* attempts whose trades are durable
    lost      \* attempts whose trades were rolled back without a failure

ledger == <<status, booked, lost>>

Init ==
    /\ status = [a \in Attempts |-> "none"]
    /\ booked = {}
    /\ lost = {}

Open(a) ==
    /\ \A b \in Attempts : status[b] = IF b < a THEN "failed" ELSE "none"
    /\ status' = [status EXCEPT ![a] = "running"]
    /\ UNCHANGED <<booked, lost>>

Book(a) ==
    /\ status[a] = "running"
    /\ a \notin booked \cup lost
    /\ booked' = booked \cup {a}
    /\ UNCHANGED <<status, lost>>

Lose(a) ==
    /\ status[a] = "running"
    /\ a \notin booked \cup lost
    /\ lost' = lost \cup {a}
    /\ UNCHANGED <<status, booked>>

Complete(a) ==
    /\ status[a] = "running"
    /\ a \in booked \cup lost
    /\ status' = [status EXCEPT ![a] = "completed"]
    /\ UNCHANGED <<booked, lost>>

Fail(a) ==
    /\ status[a] = "running"
    /\ status' = [status EXCEPT ![a] = "failed"]
    /\ UNCHANGED <<booked, lost>>

Next == \E a \in Attempts : Open(a) \/ Book(a) \/ Lose(a) \/ Complete(a) \/ Fail(a)

Spec == Init /\ [][Next]_ledger
=============================================================================
