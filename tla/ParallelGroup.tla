---------------------------- MODULE ParallelGroup ----------------------------
(***************************************************************************)
(* Bounded parallel jobs (parallel.rs): one thread per job, a gate that    *)
(* lets at most `permits` of them run (a mutex, a counter and a condition  *)
(* variable), and a caller that spawns the jobs and joins them in the      *)
(* order of their declaration.  What a job does is left to the module that *)
(* extends this one; here it ends with an outcome, which may be a panic.   *)
(***************************************************************************)
EXTENDS Integers, FiniteSets

CONSTANTS
    Jobs,       \* the largest number of jobs of a group
    MaxCores,   \* the largest available parallelism considered
    Outcomes,   \* how a job can end
    Success     \* the one outcome that is not a failure

ASSUME GroupAssumption ==
    /\ Jobs \in Nat \ {0}
    /\ MaxCores \in Nat \ {0}
    /\ Success \in Outcomes

Job == 1 .. Jobs

VARIABLES
    size,       \* the number of jobs of this group, declared in the order 1 .. size
    cores,      \* thread::available_parallelism
    thread,     \* where each job's thread is
    available,  \* permits in the gate
    result,     \* how each job ended, Success until then
    caller,     \* what the caller of the group does
    next        \* the job it spawns or joins next

gate      == <<thread, available>>
groupVars == <<size, cores, thread, available, result, caller, next>>

(* permits(job_count)                                                       *)
Permits == IF size <= cores THEN size ELSE cores

Threads(where) == {j \in Job : thread[j] \in where}
Active   == Threads({"running"})
Arriving == Threads({"arriving"})
Waiting  == Threads({"waiting"})

GroupTypeOK ==
    /\ size \in Job
    /\ cores \in 1 .. MaxCores
    /\ thread \in [Job -> {"unspawned", "arriving", "waiting", "running", "ended"}]
    /\ available \in 0 .. Permits
    /\ result \in [Job -> Outcomes]
    /\ caller \in {"spawning", "joining", "returned"}
    /\ next \in Job

GroupInit ==
    /\ size \in Job
    /\ cores \in 1 .. MaxCores
    /\ thread = [j \in Job |-> "unspawned"]
    /\ available = Permits
    /\ result = [j \in Job |-> Success]
    /\ caller = "spawning"
    /\ next = 1

-----------------------------------------------------------------------------
(* The caller *)

Advance(then) ==
    IF next < size THEN next' = next + 1 /\ UNCHANGED caller
                   ELSE next' = 1 /\ caller' = then

Spawn ==
    /\ caller = "spawning"
    /\ thread' = [thread EXCEPT ![next] = "arriving"]
    /\ Advance("joining")
    /\ UNCHANGED <<size, cores, available, result>>

(* The callers of group join every job before they look at any outcome, so *)
(* that the scope has nothing left to wait for.                             *)
Join ==
    /\ caller = "joining" /\ thread[next] = "ended"
    /\ Advance("returned")
    /\ UNCHANGED <<size, cores, gate, result>>

-----------------------------------------------------------------------------
(* The threads *)

(* Gate::acquire, from taking the mutex to leaving it or waiting.           *)
Acquire(j) ==
    /\ thread[j] = "arriving"
    /\ IF available = 0
       THEN thread' = [thread EXCEPT ![j] = "waiting"] /\ UNCHANGED available
       ELSE thread' = [thread EXCEPT ![j] = "running"] /\ available' = available - 1
    /\ UNCHANGED <<size, cores, result, caller, next>>

(* A condition variable may wake a thread that nobody notified.             *)
SpuriousWake(j) ==
    /\ thread[j] = "waiting"
    /\ thread' = [thread EXCEPT ![j] = "arriving"]
    /\ UNCHANGED <<size, cores, available, result, caller, next>>

(* Mutant: nobody is notified.                                              *)
NotifiedNobody(j) == {[thread EXCEPT ![j] = "ended"]}

(* The job returns or panics.  Its permit is dropped by the return and by   *)
(* the unwinding alike: it goes back to the gate and one of the waiting     *)
(* threads is notified.                                                     *)
Notified(j) ==
    LET over == [thread EXCEPT ![j] = "ended"]
    IN  IF Waiting = {} THEN {over} ELSE {[over EXCEPT ![w] = "arriving"] : w \in Waiting}

(* Mutant: a failed job returns its permit twice.                           *)
EndJobTwice(j, outcome) ==
    /\ thread[j] = "running"
    /\ result' = [result EXCEPT ![j] = outcome]
    /\ thread' \in Notified(j)
    /\ available' = available + IF outcome = Success THEN 1 ELSE 2
    /\ UNCHANGED <<size, cores, caller, next>>

(* Mutant: a failed job keeps its permit.                                   *)
EndJobKeeping(j, outcome) ==
    /\ thread[j] = "running"
    /\ result' = [result EXCEPT ![j] = outcome]
    /\ thread' \in Notified(j)
    /\ available' = available + IF outcome = Success THEN 1 ELSE 0
    /\ UNCHANGED <<size, cores, caller, next>>

EndJob(j, outcome) ==
    /\ thread[j] = "running"
    /\ result' = [result EXCEPT ![j] = outcome]
    /\ thread' \in Notified(j)
    /\ available' = available + 1
    /\ UNCHANGED <<size, cores, caller, next>>

-----------------------------------------------------------------------------
(* What the gate keeps *)

(* A permit is in the gate or with a job that runs: none is lost when a job *)
(* panics and none is made up, so no more jobs run than there are permits.  *)
PermitsConserved == available + Cardinality(Active) = Permits

(* No wakeup is lost (parallel.rs, acquire and drop): every permit that is *)
(* free while threads wait has a thread on its way to take it.              *)
NoLostWakeup == Waiting = {} \/ available <= Cardinality(Arriving)

(* When the caller goes on, every job has ended and every permit is back.   *)
GroupIsOver ==
    caller = "returned" =>
        /\ \A j \in 1 .. size : thread[j] = "ended"
        /\ available = Permits
=============================================================================
