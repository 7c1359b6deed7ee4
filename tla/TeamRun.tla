------------------------------ MODULE TeamRun ------------------------------
(***************************************************************************)
(* What a team run promises about its tasks, whatever store, lane and      *)
(* number of processes it has: a task is executed by one process at a      *)
(* time, only after everything it depends on is done; a process executes   *)
(* one task at a time; a finished task stays finished.  A task may be      *)
(* parked for a human before it starts or after its work, and a process    *)
(* that dies leaves the task it was executing running with no process.     *)
(***************************************************************************)
CONSTANTS Task, Worker, NoWorker, DependsOn

VARIABLES
  status,  \* [Task -> Status]
  holder   \* [Task -> Worker or NoWorker]: the process executing the task

vars == <<status, holder>>

Status == {"open", "running", "parked", "done"}

TypeOK ==
  /\ status \in [Task -> Status]
  /\ holder \in [Task -> Worker \cup {NoWorker}]

Init ==
  /\ status = [t \in Task |-> "open"]
  /\ holder = [t \in Task |-> NoWorker]

Start(w, t) ==
  /\ status[t] = "open"
  /\ \A d \in DependsOn[t] : status[d] = "done"
  /\ \A u \in Task : holder[u] # w
  /\ status' = [status EXCEPT ![t] = "running"]
  /\ holder' = [holder EXCEPT ![t] = w]

Finish(w, t) ==
  /\ holder[t] = w
  /\ status' = [status EXCEPT ![t] = "done"]
  /\ holder' = [holder EXCEPT ![t] = NoWorker]

\* A guard after the work.
ParkAfter(w, t) ==
  /\ holder[t] = w
  /\ status' = [status EXCEPT ![t] = "parked"]
  /\ holder' = [holder EXCEPT ![t] = NoWorker]

\* A guard, or the budget, before the work.
ParkBefore(t) ==
  /\ status[t] = "open"
  /\ \A d \in DependsOn[t] : status[d] = "done"
  /\ status' = [status EXCEPT ![t] = "parked"]
  /\ UNCHANGED holder

Release(t) ==
  /\ status[t] = "parked"
  /\ status' = [status EXCEPT ![t] = "open"]
  /\ UNCHANGED holder

Orphan(w, t) ==
  /\ holder[t] = w
  /\ holder' = [holder EXCEPT ![t] = NoWorker]
  /\ UNCHANGED status

Next ==
  \E t \in Task :
    \/ ParkBefore(t)
    \/ Release(t)
    \/ \E w \in Worker : Start(w, t) \/ Finish(w, t) \/ ParkAfter(w, t) \/ Orphan(w, t)

Spec == Init /\ [][Next]_vars
=============================================================================
