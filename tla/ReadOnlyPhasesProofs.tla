------------------------- MODULE ReadOnlyPhasesProofs -------------------------
(* Theorems about ParallelGroup, for every number of jobs and of cores, and *)
(* about ReadOnlyPhases, for every number of jobs, processes, entries and   *)
(* files, every command line and any number of disturbances.                *)
EXTENDS ReadOnlyPhases, FiniteSetTheorems, TLAPS

-----------------------------------------------------------------------------
(* The group by itself *)

(* A step of the group: of its caller, or of one of its threads.            *)
ThreadStep(j) ==
    \/ Acquire(j) \/ SpuriousWake(j)
    \/ \E outcome \in Outcomes : EndJob(j, outcome)
GroupStep == Spawn \/ Join \/ \E j \in Job : ThreadStep(j)

(***************************************************************************)
(* The inductive invariant.  The gate is right whatever the caller does;   *)
(* that the group is over when the caller goes on needs to know which      *)
(* threads exist and which of them were joined.                            *)
(***************************************************************************)
CallerInv ==
    /\ next <= size
    /\ \A j \in Job : thread[j] = "unspawned" <=> IF caller = "spawning" THEN j >= next
                                                                       ELSE j > size
    /\ caller = "joining" => \A j \in 1 .. next - 1 : thread[j] = "ended"
    /\ caller = "returned" => \A j \in 1 .. size : thread[j] = "ended"

GroupInv == GroupTypeOK /\ CallerInv /\ PermitsConserved /\ NoLostWakeup

-----------------------------------------------------------------------------
(* Counting threads *)

Whereabouts == {"unspawned", "arriving", "waiting", "running", "ended"}
USE DEF Whereabouts

Counted(t, where) == {k \in Job : t[k] \in {where}}
Count(t, where) == Cardinality(Counted(t, where))

(* The jobs of a group can be counted.                                      *)
LEMMA JobsFinite == /\ Job \subseteq Nat /\ IsFiniteSet(Job)
                    /\ \A t, where : IsFiniteSet(Counted(t, where)) /\ Count(t, where) \in Nat
<1>1. Job \subseteq Nat /\ IsFiniteSet(Job)
  BY GroupAssumption, FS_Interval DEF Job
<1>2. ASSUME NEW t, NEW where
      PROVE  IsFiniteSet(Counted(t, where)) /\ Count(t, where) \in Nat
  <2>1. Counted(t, where) \in SUBSET Job
    BY DEF Counted
  <2>2. IsFiniteSet(Counted(t, where))
    BY <1>1, <2>1, FS_Subset
  <2>. QED
    BY <2>2, FS_CardinalityType DEF Count
<1>. QED
  BY <1>1, <1>2

(* One thread that moves changes the counts of where it was and where it    *)
(* goes.                                                                    *)
OneMoved(t, u, from, to) ==
    \A where : Count(u, where) = IF where = from THEN Count(t, where) - 1
                                ELSE IF where = to THEN Count(t, where) + 1 ELSE Count(t, where)

(* A job that goes elsewhere is one less there and one more here.           *)
LEMMA Moved ==
    ASSUME NEW t \in [Job -> Whereabouts], NEW j \in Job, NEW b \in Whereabouts, t[j] # b,
           NEW u, u = [t EXCEPT ![j] = b]
    PROVE  OneMoved(t, u, t[j], b)
<1>. SUFFICES ASSUME NEW where
     PROVE Count(u, where) = IF where = t[j] THEN Count(t, where) - 1
              ELSE IF where = b THEN Count(t, where) + 1 ELSE Count(t, where)
  BY DEF OneMoved
<1>0. IsFiniteSet(Counted(t, where)) /\ Count(t, where) \in Nat
  BY JobsFinite
<1>1. CASE where = t[j]
  <2>1. Counted(u, where) = Counted(t, where) \ {j} /\ j \in Counted(t, where)
    BY <1>1 DEF Counted
  <2>. QED
    BY <1>0, <1>1, <2>1, FS_RemoveElement DEF Count
<1>2. CASE where # t[j] /\ where = b
  <2>1. Counted(u, where) = Counted(t, where) \cup {j} /\ j \notin Counted(t, where)
    BY <1>2 DEF Counted
  <2>. QED
    BY <1>0, <1>2, <2>1, FS_AddElement DEF Count
<1>3. CASE where # t[j] /\ where # b
  <2>1. Counted(u, where) = Counted(t, where)
    BY <1>3 DEF Counted
  <2>. QED
    BY <1>3, <2>1 DEF Count
<1>. QED
  BY <1>1, <1>2, <1>3

(* The gate's own figures in these terms.                                   *)
LEMMA GateCounts ==
    /\ Cardinality(Active) = Count(thread, "running")
    /\ Cardinality(Arriving) = Count(thread, "arriving")
    /\ Cardinality(Active)' = Count(thread', "running")
    /\ Cardinality(Arriving)' = Count(thread', "arriving")
BY DEF Active, Arriving, Threads, Count, Counted

-----------------------------------------------------------------------------
(* The initial state, and the steps one by one *)

(* The invariant holds when the group is created.                           *)
LEMMA GroupStarts == GroupInit => GroupInv
<1>. SUFFICES ASSUME GroupInit PROVE GroupInv
  OBVIOUS
<1>1. /\ size \in Nat /\ cores \in Nat /\ size >= 1 /\ cores >= 1
      /\ Permits \in Nat /\ 1 \in Job
  BY GroupAssumption DEF GroupInit, Job, Permits
<1>2. GroupTypeOK
  BY <1>1, GroupAssumption DEF GroupInit, GroupTypeOK
<1>3. CallerInv
  BY <1>1 DEF GroupInit, CallerInv, Job
<1>4. Active = {} /\ Waiting = {}
  BY DEF GroupInit, Active, Waiting, Threads
<1>5. PermitsConserved /\ NoLostWakeup
  BY <1>1, <1>4, FS_EmptySet DEF GroupInit, PermitsConserved, NoLostWakeup
<1>. QED
  BY <1>2, <1>3, <1>5 DEF GroupInv

(* What the invariant gives every step to work with.                        *)
LEMMA Facts ==
    GroupInv =>
      /\ size \in Nat /\ size <= Jobs /\ cores \in Nat /\ next \in Nat /\ next >= 1
      /\ Jobs \in Nat /\ Permits \in Nat /\ available \in Nat
      /\ available + Count(thread, "running") = Permits
      /\ Count(thread, "running") \in Nat /\ Count(thread, "arriving") \in Nat
      /\ Waiting = {} \/ available <= Count(thread, "arriving")
      /\ Waiting = {j \in Job : thread[j] = "waiting"}
<1>. SUFFICES ASSUME GroupInv
     PROVE /\ size \in Nat /\ size <= Jobs /\ cores \in Nat /\ next \in Nat /\ next >= 1
           /\ Jobs \in Nat /\ Permits \in Nat /\ available \in Nat
           /\ available + Count(thread, "running") = Permits
           /\ Count(thread, "running") \in Nat /\ Count(thread, "arriving") \in Nat
           /\ Waiting = {} \/ available <= Count(thread, "arriving")
           /\ Waiting = {j \in Job : thread[j] = "waiting"}
  OBVIOUS
<1>1. /\ size \in Nat /\ size <= Jobs /\ cores \in Nat /\ next \in Nat /\ next >= 1
      /\ Jobs \in Nat
  BY GroupAssumption DEF GroupInv, GroupTypeOK, Job
<1>2. Permits \in Nat /\ available \in Nat
  BY <1>1 DEF Permits, GroupInv, GroupTypeOK
<1>3. Count(thread, "running") \in Nat /\ Count(thread, "arriving") \in Nat
  BY JobsFinite
<1>4. Waiting = {j \in Job : thread[j] = "waiting"}
  BY DEF Waiting, Threads
<1>. QED
  BY <1>1, <1>2, <1>3, <1>4, GateCounts DEF GroupInv, PermitsConserved, NoLostWakeup

(* The caller spawns the next thread, or has spawned all.                   *)
LEMMA SpawnKeeps == GroupInv /\ Spawn => GroupInv'
<1>. SUFFICES ASSUME GroupInv, Spawn PROVE GroupInv'
  OBVIOUS
<1>. USE Facts
<1>1. /\ next \in Job /\ thread[next] = "unspawned" /\ next <= size
      /\ thread \in [Job -> Whereabouts]
  BY DEF GroupInv, GroupTypeOK, CallerInv, Spawn
<1>2. thread' = [thread EXCEPT ![next] = "arriving"]
  BY DEF Spawn
<1>3. GroupTypeOK'
  <2>1. next' \in Job /\ caller' \in {"spawning", "joining", "returned"}
    BY <1>1 DEF Spawn, Advance, GroupInv, GroupTypeOK, Job
  <2>. QED
    BY <1>1, <1>2, <2>1 DEF Spawn, GroupInv, GroupTypeOK, Permits
<1>4. CallerInv'
  <2>1. CASE next < size
    BY <1>1, <1>2, <2>1 DEF Spawn, Advance, GroupInv, CallerInv, Job
  <2>2. CASE next = size
    BY <1>1, <1>2, <2>2 DEF Spawn, Advance, GroupInv, CallerInv, Job
  <2>. QED
    BY <1>1, <2>1, <2>2
<1>5. /\ Count(thread', "running") = Count(thread, "running")
      /\ Count(thread', "arriving") = Count(thread, "arriving") + 1
  <2>1. OneMoved(thread, thread', "unspawned", "arriving")
    BY <1>1, <1>2, Moved
  <2>. QED
    BY <2>1 DEF OneMoved
<1>6. PermitsConserved'
  BY <1>5, GateCounts DEF PermitsConserved, Spawn, Permits
<1>7. NoLostWakeup'
  <2>1. Waiting' = Waiting
    BY <1>1, <1>2 DEF Waiting, Threads
  <2>. QED
    BY <1>5, <2>1, GateCounts DEF NoLostWakeup, Spawn
<1>. QED
  BY <1>3, <1>4, <1>6, <1>7 DEF GroupInv

(* The caller joins a thread that has ended.                                *)
LEMMA JoinKeeps == GroupInv /\ Join => GroupInv'
<1>. SUFFICES ASSUME GroupInv, Join PROVE GroupInv'
  OBVIOUS
<1>. USE Facts
<1>1. GroupTypeOK'
  <2>1. next' \in Job /\ caller' \in {"spawning", "joining", "returned"}
    BY DEF Join, Advance, GroupInv, GroupTypeOK, CallerInv, Job
  <2>. QED
    BY <2>1 DEF Join, gate, GroupInv, GroupTypeOK, Permits
<1>2. CallerInv'
  <2>1. \A j \in 1 .. next : thread[j] = "ended"
    BY DEF Join, GroupInv, CallerInv
  <2>2. CASE next < size
    BY <2>1, <2>2 DEF Join, Advance, gate, GroupInv, CallerInv, Job
  <2>3. CASE next = size
    BY <2>1, <2>3 DEF Join, Advance, gate, GroupInv, CallerInv, Job
  <2>. QED
    BY <2>2, <2>3 DEF GroupInv, CallerInv
<1>3. PermitsConserved' /\ NoLostWakeup'
  BY DEF Join, gate, GroupInv, PermitsConserved, NoLostWakeup, Active, Waiting, Arriving, Threads,
         Permits
<1>. QED
  BY <1>1, <1>2, <1>3 DEF GroupInv

(* A thread that has been spawned and has not ended changes nothing of what *)
(* the caller relies on.                                                    *)
LEMMA CallerUndisturbed ==
    ASSUME GroupInv, UNCHANGED <<size, caller, next>>,
           \A k \in Job : thread'[k] # thread[k] =>
               /\ thread[k] \notin {"unspawned", "ended"}
               /\ thread'[k] # "unspawned"
    PROVE  CallerInv'
<1>. USE Facts
<1>1. \A j \in Job : thread'[j] = "unspawned" <=> thread[j] = "unspawned"
  OBVIOUS
<1>2. \A j \in Job : thread[j] = "ended" => thread'[j] = "ended"
  OBVIOUS
<1>3. 1 .. size \subseteq Job /\ 1 .. next - 1 \subseteq Job
  BY DEF Job, GroupInv, CallerInv
<1>. QED
  BY <1>1, <1>2, <1>3 DEF GroupInv, CallerInv

(* A thread takes a permit, or waits.                                       *)
LEMMA AcquireKeeps ==
    ASSUME GroupInv, NEW j \in Job, Acquire(j) PROVE GroupInv'
<1>. USE Facts
<1>1. /\ thread \in [Job -> Whereabouts]
      /\ thread[j] = "arriving"
  BY DEF Acquire, GroupInv, GroupTypeOK
<1>2. CallerInv'
  BY <1>1, CallerUndisturbed DEF Acquire
<1>3. CASE available = 0
  <2>1. thread' = [thread EXCEPT ![j] = "waiting"] /\ available' = available
    BY <1>3 DEF Acquire
  <2>2. Count(thread', "running") = Count(thread, "running") /\ Count(thread', "arriving") \in Nat
    <3>1. OneMoved(thread, thread', "arriving", "waiting")
      BY <1>1, <2>1, Moved
    <3>. QED
      BY <3>1, JobsFinite DEF OneMoved
  <2>3. GroupTypeOK'
    BY <1>1, <2>1 DEF Acquire, GroupInv, GroupTypeOK, Permits
  <2>4. PermitsConserved' /\ NoLostWakeup'
    BY <1>3, <2>1, <2>2, GateCounts DEF Acquire, PermitsConserved, NoLostWakeup, Permits
  <2>. QED
    BY <1>2, <2>3, <2>4 DEF GroupInv
<1>4. CASE available # 0
  <2>1. thread' = [thread EXCEPT ![j] = "running"] /\ available' = available - 1
    BY <1>4 DEF Acquire
  <2>2. /\ Count(thread', "running") = Count(thread, "running") + 1
        /\ Count(thread', "arriving") = Count(thread, "arriving") - 1
    <3>1. OneMoved(thread, thread', "arriving", "running")
      BY <1>1, <2>1, Moved
    <3>. QED
      BY <3>1 DEF OneMoved
  <2>3. GroupTypeOK'
    BY <1>1, <1>4, <2>1 DEF Acquire, GroupInv, GroupTypeOK, Permits
  <2>4. PermitsConserved'
    BY <2>1, <2>2, GateCounts DEF Acquire, PermitsConserved, Permits
  <2>5. Waiting' = Waiting
    BY <1>1, <2>1 DEF Waiting, Threads
  <2>6. NoLostWakeup'
    BY <2>1, <2>2, <2>5, GateCounts DEF NoLostWakeup
  <2>. QED
    BY <1>2, <2>3, <2>4, <2>6 DEF GroupInv
<1>. QED
  BY <1>3, <1>4

(* A thread wakes up unasked and looks again.                               *)
LEMMA SpuriousWakeKeeps ==
    ASSUME GroupInv, NEW j \in Job, SpuriousWake(j) PROVE GroupInv'
<1>. USE Facts
<1>1. /\ thread \in [Job -> Whereabouts]
      /\ thread[j] = "waiting" /\ thread' = [thread EXCEPT ![j] = "arriving"]
  BY DEF SpuriousWake, GroupInv, GroupTypeOK
<1>2. CallerInv'
  BY <1>1, CallerUndisturbed DEF SpuriousWake
<1>3. GroupTypeOK'
  BY <1>1 DEF SpuriousWake, GroupInv, GroupTypeOK, Permits
<1>4. /\ Count(thread', "running") = Count(thread, "running")
      /\ Count(thread', "arriving") = Count(thread, "arriving") + 1
  <2>1. OneMoved(thread, thread', "waiting", "arriving")
    BY <1>1, Moved
  <2>. QED
    BY <2>1 DEF OneMoved
<1>5. PermitsConserved'
  BY <1>4, GateCounts DEF SpuriousWake, PermitsConserved, Permits
<1>6. Waiting' \subseteq Waiting
  BY <1>1 DEF Waiting, Threads
<1>7. NoLostWakeup'
  BY <1>4, <1>6, GateCounts DEF SpuriousWake, NoLostWakeup
<1>. QED
  BY <1>2, <1>3, <1>5, <1>7 DEF GroupInv

(* A job that ends: its permit is back and at most one waiting thread is on *)
(* its way.                                                                 *)
LEMMA EndJobKeeps ==
    ASSUME GroupInv, NEW j \in Job, NEW outcome \in Outcomes, EndJob(j, outcome) PROVE GroupInv'
<1>. USE Facts
<1>0. PICK over : over = [thread EXCEPT ![j] = "ended"]
  OBVIOUS
<1>1. /\ thread \in [Job -> Whereabouts]
      /\ thread[j] = "running"
      /\ over \in [Job -> Whereabouts]
  BY <1>0 DEF EndJob, GroupInv, GroupTypeOK
<1>2. available' = available + 1 /\ size' = size /\ cores' = cores
  BY DEF EndJob
<1>3. /\ Count(over, "running") = Count(thread, "running") - 1
      /\ Count(over, "arriving") = Count(thread, "arriving")
  <2>1. OneMoved(thread, over, thread[j], "ended")
    <3>1. thread[j] # "ended" /\ "ended" \in Whereabouts
      BY <1>1
    <3>. QED
      BY <1>0, <1>1, <3>1, Moved
  <2>. QED
    BY <1>1, <2>1 DEF OneMoved
<1>4. Count(over, "running") \in Nat
  BY JobsFinite
<1>5. CASE Waiting = {} /\ thread' = over
  <2>1. CallerInv'
    BY <1>0, <1>1, <1>5, CallerUndisturbed DEF EndJob
  <2>2. GroupTypeOK'
    BY <1>0, <1>1, <1>2, <1>3, <1>4, <1>5 DEF EndJob, GroupInv, GroupTypeOK, Permits
  <2>3. PermitsConserved'
    BY <1>2, <1>3, <1>5, GateCounts DEF PermitsConserved, Permits
  <2>4. Waiting' = {}
    BY <1>0, <1>1, <1>5 DEF Waiting, Threads
  <2>. QED
    BY <2>1, <2>2, <2>3, <2>4 DEF GroupInv, NoLostWakeup
<1>6. CASE \E w \in Waiting : thread' = [over EXCEPT ![w] = "arriving"]
  <2>1. PICK w \in Waiting : thread' = [over EXCEPT ![w] = "arriving"]
    BY <1>6
  <2>2. w \in Job /\ over[w] = "waiting" /\ thread[w] = "waiting" /\ w # j
    BY <1>0, <1>1, <2>1 DEF Waiting, Threads
  <2>3. OneMoved(over, thread', "waiting", "arriving")
    BY <1>0, <1>1, <2>1, <2>2, Moved
  <2>8. /\ Count(thread', "running") = Count(thread, "running") - 1
        /\ Count(thread', "arriving") = Count(thread, "arriving") + 1
    BY <1>3, <2>3 DEF OneMoved
  <2>4. CallerInv'
    BY <1>0, <1>1, <2>1, <2>2, CallerUndisturbed DEF EndJob
  <2>5. GroupTypeOK'
    <3>1. thread' \in [Job -> Whereabouts]
      BY <1>0, <1>1, <2>1, <2>2
    <3>2. result' \in [Job -> Outcomes]
      BY DEF EndJob, GroupInv, GroupTypeOK
    <3>3. available' \in 0 .. Permits
      BY <1>2, <1>3, <1>4
    <3>. QED
      BY <3>1, <3>2, <3>3 DEF EndJob, GroupInv, GroupTypeOK, Permits
  <2>6. PermitsConserved'
    BY <1>2, <2>8, GateCounts DEF PermitsConserved, Permits
  <2>7. NoLostWakeup'
    BY <1>2, <2>1, <2>8, GateCounts DEF NoLostWakeup
  <2>. QED
    BY <2>4, <2>5, <2>6, <2>7 DEF GroupInv
<1>. QED
  BY <1>0, <1>5, <1>6 DEF EndJob, Notified

-----------------------------------------------------------------------------
(* Every step of the group keeps the invariant, whatever the jobs do and    *)
(* whoever takes the step.                                                  *)
THEOREM GroupKeeps ==
    GroupInv /\ (GroupStep \/ UNCHANGED groupVars) => GroupInv'
<1>1. ASSUME GroupInv, UNCHANGED groupVars PROVE GroupInv'
  <2>1. UNCHANGED <<size, cores, thread, available, result, caller, next>>
    BY <1>1 DEF groupVars
  <2>2. GroupTypeOK' /\ CallerInv'
    BY <1>1, <2>1 DEF GroupInv, GroupTypeOK, CallerInv, Permits
  <2>3. PermitsConserved' /\ NoLostWakeup'
    BY <1>1, <2>1 DEF GroupInv, PermitsConserved, NoLostWakeup, Permits, Active, Arriving, Waiting,
                      Threads
  <2>. QED
    BY <2>2, <2>3 DEF GroupInv
<1>. QED
  BY <1>1, SpawnKeeps, JoinKeeps, AcquireKeeps, SpuriousWakeKeeps, EndJobKeeps
  DEF GroupStep, ThreadStep

(* When the caller goes on, every job has ended and every permit is back    *)
(* (parallel.rs group).                                                     *)
THEOREM GroupOver == GroupInv => GroupIsOver
<1>. SUFFICES ASSUME GroupInv, caller = "returned"
     PROVE (\A j \in 1 .. size : thread[j] = "ended") /\ available = Permits
  BY DEF GroupIsOver
<1>. USE Facts
<1>1. \A j \in 1 .. size : thread[j] = "ended"
  BY DEF GroupInv, CallerInv
<1>2. \A j \in Job : thread[j] # "running"
  BY <1>1 DEF GroupInv, CallerInv, Job
<1>3. Counted(thread, "running") = {}
  BY <1>2 DEF Counted
<1>4. Count(thread, "running") = 0
  BY <1>3, FS_EmptySet DEF Count
<1>. QED
  BY <1>1, <1>4

HIDE DEF Whereabouts

-----------------------------------------------------------------------------
(* The inductive invariant *)

(* A job by itself: how far it is fits where its thread is and which anchor *)
(* it has, and a file is anchored only where it is, if it still is.         *)
AnchoredIn(a, entries, count) ==
    /\ a \in Anchor /\ a.file <= count
    /\ \A q \in Places : entries[q] = a.file => q = a.place

JobInv(j) ==
    /\ thread[j] \in {"unspawned", "arriving", "waiting"} => step[j] = "start"
    /\ IF thread[j] = "ended" THEN step[j] = "done" ELSE result[j] = "ok"
    /\ step[j] \in {"start", "unanchored"} => anchor[j] = NoAnchor
    /\ step[j] \in {"insert", "anchored"} => anchor[j] # NoAnchor
    /\ step[j] \in {"scanning", "unanchored"} => Kind(j) = "holders"
    /\ step[j] = "done" /\ result[j] = "ok" /\ Kind(j) \in SqliteKinds => anchor[j] # NoAnchor
    /\ anchor[j] # NoAnchor => AnchoredIn(anchor[j], at, created)

(* The files of the surroundings: none is found at two entries.             *)
WorldInv ==
    /\ at \in [Places -> Files \cup {NoFile}] /\ created \in Files
    /\ \A q \in Places : at[q] <= created
    /\ \A q, r \in Places : at[q] # NoFile /\ at[q] = at[r] => q = r
    /\ link \in Places
    /\ retained # NoAnchor => AnchoredIn(retained, at, created)

(* Until the command opens the file, the jobs work with the cached anchor.  *)
Works(j) == anchor[j] # NoAnchor /\ step[j] # "insert" /\ result[j] = "ok"
CacheInv ==
    /\ main \in {"inspecting", "opening"} =>
           \A j \in Job : Works(j) => anchor[j] = retained
    /\ \A j, k \in Job : Works(j) /\ Works(k) => anchor[j] = anchor[k]

(* The command goes on when its jobs are over, and only when all is well.   *)
MainInv ==
    /\ main # "inspecting" => caller = "returned"
    /\ main \in {"opening", "opened"} => command.writes /\ \A j \in 1 .. size : Joined(j)
    /\ opened # NoFile =>
           main = "opened" /\ \A j \in 1 .. size : anchor[j] # NoAnchor => anchor[j].file = opened

(* The scan: a steady process that has the anchored file open is still to   *)
(* be looked at or was found, unless the file has left its entry, for good. *)
Strict == command.destructive /\ ~command.force
GoneFrom(a, entries) == entries[a.place] # a.file
ScanInv(j) ==
    step[j] = "scanning" /\ anchor[j] # NoAnchor =>
        /\ scan.place = anchor[j].place
        /\ \A p \in steady : holds[p] = anchor[j].file =>
               p \in scan.todo \/ p \in scan.found \/ GoneFrom(anchor[j], at)
DoneInv(j) ==
    step[j] = "done" /\ Kind(j) = "holders" /\ result[j] = "ok" /\ anchor[j] # NoAnchor /\ Strict
      => Refuses(decision) \/ \A p \in steady : holds[p] # anchor[j].file
SteadyInv ==
    /\ steady \subseteq Others \ opaque
    /\ steady # {} =>
           \E j \in 1 .. size : Kind(j) = "holders" /\ step[j] \in {"scanning", "done"}

PhasesInv ==
    /\ TypeOK
    /\ GroupInv
    /\ size = Len(command.kinds)
    /\ WorldInv
    /\ \A j \in Job : JobInv(j)
    /\ CacheInv
    /\ MainInv
    /\ \A j \in Job : ScanInv(j) /\ DoneInv(j)
    /\ SteadyInv

-----------------------------------------------------------------------------
(* What the steps have in common *)

(* No anchor is none of the anchors.                                        *)
LEMMA SelfIsNone == NoAnchor.file = 0 /\ NoAnchor \notin Anchor
BY DEF NoAnchor, NoFile, Anchor, Files

(* The end of a job, and what it does to the others.                        *)
LEMMA JobEnds ==
    ASSUME PhasesInv, NEW j \in Job, NEW outcome \in Outcomes, End(j, outcome)
    PROVE  /\ thread[j] = "running" /\ thread'[j] = "ended"
           /\ \A k \in Job \ {j} : thread'[k] = thread[k]
                                    \/ (thread[k] = "waiting" /\ thread'[k] = "arriving")
           /\ step' = [step EXCEPT ![j] = "done"]
           /\ result' = [result EXCEPT ![j] = outcome]
           /\ UNCHANGED <<size, cores, caller, next>>
<1>1. thread \in [Job -> Whereabouts]
  BY DEF PhasesInv, GroupInv, GroupTypeOK, Whereabouts
<1>2. /\ thread[j] = "running" /\ thread' \in Notified(j)
      /\ step' = [step EXCEPT ![j] = "done"] /\ result' = [result EXCEPT ![j] = outcome]
      /\ UNCHANGED <<size, cores, caller, next>>
  BY DEF End, EndJob
<1>3. CASE thread' = [thread EXCEPT ![j] = "ended"]
  BY <1>1, <1>2, <1>3
<1>4. CASE \E w \in Waiting : thread' = [[thread EXCEPT ![j] = "ended"] EXCEPT ![w] = "arriving"]
  <2>1. PICK w \in Waiting : thread' = [[thread EXCEPT ![j] = "ended"] EXCEPT ![w] = "arriving"]
    BY <1>4
  <2>2. w \in Job /\ thread[w] = "waiting" /\ w # j
    BY <1>2 DEF Waiting, Threads
  <2>. QED
    BY <1>1, <1>2, <2>1, <2>2
<1>. QED
  BY <1>2, <1>3, <1>4 DEF Notified

(* A job that moves leaves the others where they are, and everything that   *)
(* the jobs do not share.                                                   *)
JobMoved(j) ==
    /\ thread[j] = "running" /\ thread'[j] \in {"running", "ended"}
    /\ IF thread'[j] = "ended" THEN step'[j] = "done" ELSE result'[j] = result[j]
    /\ \A k \in Job \ {j} :
           /\ step'[k] = step[k] /\ anchor'[k] = anchor[k] /\ result'[k] = result[k]
           /\ thread'[k] = thread[k] \/ (thread[k] = "waiting" /\ thread'[k] = "arriving")
    /\ UNCHANGED <<size, cores, caller, next, command, link, at, created, holds, opaque,
                   disturbed, main, opened>>
    /\ step' \in [Job -> {"start", "insert", "anchored", "unanchored", "scanning", "done"}]
    /\ anchor' \in [Job -> Anchor \cup {NoAnchor}]

(* The steps of a job, each with what it does for the job itself.           *)
JobAction(j) == JobStep(j) \/ Panic(j)

(* The types that the proofs below need.                                    *)
LEMMA TypeFacts ==
    PhasesInv =>
      /\ thread \in [Job -> Whereabouts]
      /\ step \in [Job -> {"start", "insert", "anchored", "unanchored", "scanning", "done"}]
      /\ anchor \in [Job -> Anchor \cup {NoAnchor}]
      /\ retained \in Anchor \cup {NoAnchor}
      /\ result \in [Job -> Outcomes]
      /\ Outcomes = {"ok", "failed"} /\ Success = "ok"
      /\ link \in Places /\ created \in Files /\ at \in [Places -> Files \cup {NoFile}]
      /\ Files \subseteq Nat \ {0} /\ NoFile = 0
BY PhasesAssumption DEF PhasesInv, TypeOK, GroupInv, GroupTypeOK, Whereabouts, Files, NoFile

(* The file the path leads to may be anchored.                              *)
LEMMA BoundAnchored ==
    PhasesInv /\ Bound # NoFile => AnchoredIn([place |-> link, file |-> Bound], at, created)
BY TypeFacts DEF PhasesInv, WorldInv, Bound, AnchoredIn, Anchor

(* Each step of a job moves that job alone.                                 *)
LEMMA JobMoves ==
    ASSUME PhasesInv, NEW j \in Job, JobAction(j)
    PROVE  JobMoved(j)
<1>. USE TypeFacts
<1>1. CASE LookUp(j)
  <2>1. thread[j] = "running" /\ UNCHANGED <<retained, scan, command, world, main, opened, steady>>
    BY <1>1 DEF LookUp, At
  <2>2. CASE \E a \in Anchor, where \in {"insert", "anchored"} : Holding(j, a, where)
    BY <2>1, <2>2 DEF Holding, GoTo, groupVars, JobMoved, world
  <2>3. CASE Unanchored(j)
    <3>1. CASE \E outcome \in Outcomes : End(j, outcome)
      BY <2>1, <2>3, <3>1, JobEnds DEF Unanchored, JobMoved, world
    <3>2. CASE GoTo(j, "unanchored")
      BY <2>1, <2>3, <3>2 DEF Unanchored, GoTo, groupVars, JobMoved, world
    <3>. QED
      BY <2>3, <3>1, <3>2 DEF Unanchored
  <2>4. retained # NoAnchor => retained \in Anchor
    OBVIOUS
  <2>5. Bound # NoFile => [place |-> link, file |-> Bound] \in Anchor
    BY BoundAnchored DEF AnchoredIn
  <2>. QED
    BY <1>1, <2>2, <2>3, <2>4, <2>5 DEF LookUp
<1>2. CASE Insert(j)
  <2>1. /\ thread[j] = "running" /\ step[j] = "insert"
        /\ UNCHANGED <<scan, command, world, main, opened, steady>>
        /\ retained' = IF retained = NoAnchor THEN anchor[j] ELSE retained
    BY <1>2 DEF Insert, At
  <2>2. retained' \in Anchor
    BY <2>1 DEF PhasesInv, JobInv
  <2>3. CASE Holding(j, retained', "anchored")
    BY <2>1, <2>2, <2>3 DEF Holding, GoTo, groupVars, JobMoved, world
  <2>4. CASE Unanchored(j)
    <3>1. CASE \E outcome \in Outcomes : End(j, outcome)
      BY <2>1, <2>4, <3>1, JobEnds DEF Unanchored, JobMoved, world
    <3>2. CASE GoTo(j, "unanchored")
      BY <2>1, <2>4, <3>2 DEF Unanchored, GoTo, groupVars, JobMoved, world
    <3>. QED
      BY <2>4, <3>1, <3>2 DEF Unanchored
  <2>. QED
    BY <1>2, <2>3, <2>4 DEF Insert
<1>3. CASE \/ ValidateSelectors(j) \/ Panic(j) \/ \E outcome \in Outcomes : WorkOnAnchor(j, outcome)
           \/ CannotScan(j) \/ CannotAnchor(j) \/ FinishScan(j)
  <2>1. /\ \E outcome \in Outcomes : End(j, outcome)
        /\ UNCHANGED <<retained, anchor, scan, command, world, main, opened, steady>>
    BY <1>3 DEF ValidateSelectors, Panic, WorkOnAnchor, CannotScan, CannotAnchor, FinishScan, EndScan
  <2>. QED
    BY <2>1, JobEnds DEF JobMoved, world
<1>4. CASE StartScan(j)
  BY <1>4 DEF StartScan, At, GoTo, groupVars, JobMoved, world
<1>5. CASE \E p \in Procs : ScanProcess(j, p)
  BY <1>5 DEF ScanProcess, At, groupVars, JobMoved, world
<1>. QED
  BY <1>1, <1>2, <1>3, <1>4, <1>5 DEF JobAction, JobStep

(* The steps of the group that no job takes.                                *)
GroupOnly ==
    /\ GroupStep /\ UNCHANGED unchangedOutsideGroup /\ UNCHANGED <<size, result>>
    /\ caller = "returned" => caller' = "returned"
    /\ \A k \in Job : \/ thread'[k] = thread[k]
                      \/ /\ thread[k] \in {"unspawned", "arriving", "waiting"}
                         /\ thread'[k] \in {"arriving", "waiting", "running"}

(* The steps of the group leave everything else alone.                      *)
LEMMA GroupOnlySteps ==
    ASSUME PhasesInv,
           \/ CallerStep
           \/ \E j \in Job : Acquire(j) /\ UNCHANGED unchangedOutsideGroup
           \/ \E j \in Job : SpuriousWake(j) /\ UNCHANGED unchangedOutsideGroup
    PROVE  GroupOnly
<1>. USE TypeFacts
<1>1. CASE CallerStep
  <2>1. CASE Spawn
    <3>1. next \in Job /\ thread[next] = "unspawned"
      BY <2>1, Facts DEF PhasesInv, GroupInv, GroupTypeOK, CallerInv, Spawn
    <3>. QED
      BY <1>1, <2>1, <3>1 DEF CallerStep, GroupOnly, GroupStep, Spawn
  <2>2. CASE Join
    BY <1>1, <2>2 DEF CallerStep, GroupOnly, GroupStep, Join, gate
  <2>. QED
    BY <1>1, <2>1, <2>2 DEF CallerStep
<1>2. CASE \E j \in Job : Acquire(j) /\ UNCHANGED unchangedOutsideGroup
  BY <1>2 DEF GroupOnly, GroupStep, ThreadStep, Acquire
<1>3. CASE \E j \in Job : SpuriousWake(j) /\ UNCHANGED unchangedOutsideGroup
  BY <1>3 DEF GroupOnly, GroupStep, ThreadStep, SpuriousWake
<1>. QED
  BY <1>1, <1>2, <1>3

(* The steps of the command after its jobs and of the surroundings.         *)
Disturbance == Retarget \/ Replace \/ Remove \/ OpenOrClose

(* Every step is one of these.                                              *)
LEMMA NextSteps ==
    ASSUME PhasesInv, [Next]_vars
    PROVE  \/ GroupOnly \/ \E j \in Job : JobAction(j)
           \/ EndPhases \/ OpenReadWrite \/ Disturbance \/ UNCHANGED vars
BY GroupOnlySteps DEF Next, JobAction, Disturbance

(* Every step is one of the group or leaves the group alone.                *)
LEMMA JobIsGroupStep ==
    ASSUME PhasesInv, NEW j \in Job, JobAction(j)
    PROVE  GroupStep \/ UNCHANGED groupVars
<1>. USE TypeFacts
<1>1. ASSUME NEW outcome \in Outcomes, End(j, outcome) PROVE GroupStep
  BY <1>1 DEF End, GroupStep, ThreadStep
<1>2. ASSUME NEW where, GoTo(j, where) PROVE UNCHANGED groupVars
  BY <1>2 DEF GoTo
<1>3. ASSUME Unanchored(j) PROVE GroupStep \/ UNCHANGED groupVars
  BY <1>1, <1>2, <1>3 DEF Unanchored
<1>4. CASE LookUp(j) \/ Insert(j)
  BY <1>2, <1>3, <1>4 DEF LookUp, Insert, Holding
<1>5. CASE \/ ValidateSelectors(j) \/ Panic(j) \/ \E outcome \in Outcomes : WorkOnAnchor(j, outcome)
           \/ CannotScan(j) \/ CannotAnchor(j) \/ FinishScan(j)
  BY <1>1, <1>5 DEF ValidateSelectors, Panic, WorkOnAnchor, CannotScan, CannotAnchor, FinishScan, EndScan
<1>6. CASE StartScan(j)
  BY <1>2, <1>6 DEF StartScan
<1>7. CASE \E p \in Procs : ScanProcess(j, p)
  BY <1>7 DEF ScanProcess
<1>. QED
  BY <1>4, <1>5, <1>6, <1>7 DEF JobAction, JobStep

(* Every step keeps the invariant of the group.                             *)
LEMMA GroupKept == PhasesInv /\ [Next]_vars => GroupInv'
<1>. SUFFICES ASSUME PhasesInv, [Next]_vars PROVE GroupInv'
  OBVIOUS
<1>1. GroupStep \/ UNCHANGED groupVars
  BY NextSteps, JobIsGroupStep
  DEF GroupOnly, EndPhases, OpenReadWrite, Disturbance, Retarget, Replace, Remove, OpenOrClose,
      Disturb, vars
<1>. QED
  BY <1>1, GroupKeeps DEF PhasesInv

-----------------------------------------------------------------------------
(* The files *)

(* What is found nowhere else stays so: a file that takes an entry is new.  *)
LEMMA AnchoredStays ==
    ASSUME PhasesInv, [Next]_vars, NEW a, AnchoredIn(a, at, created)
    PROVE  AnchoredIn(a, at', created')
<1>. USE TypeFacts
<1>1. CASE UNCHANGED <<at, created>>
  BY <1>1
<1>2. CASE Replace
  BY <1>2 DEF Replace, AnchoredIn, Anchor
<1>3. CASE Remove
  BY <1>3 DEF Remove, AnchoredIn, Anchor
<1>4. Replace \/ Remove \/ UNCHANGED <<at, created>>
  BY NextSteps, JobMoves
  DEF GroupOnly, unchangedOutsideGroup, JobMoved, EndPhases, OpenReadWrite, Disturbance, Retarget,
      OpenOrClose, vars, world
<1>. QED
  BY <1>1, <1>2, <1>3, <1>4

(* The cache is filled by a job that inserts and emptied by the command.    *)
LEMMA CacheSteps ==
    ASSUME PhasesInv, [Next]_vars
    PROVE  \/ retained' = retained
           \/ OpenReadWrite /\ retained' = NoAnchor
           \/ \E j \in Job : Insert(j) /\ retained = NoAnchor /\ retained' = anchor[j]
BY NextSteps
DEF GroupOnly, unchangedOutsideGroup, EndPhases, OpenReadWrite, Disturbance, Retarget, Replace,
    Remove, OpenOrClose, Disturb, jobs, vars, JobAction, JobStep, LookUp, Insert, ValidateSelectors,
    WorkOnAnchor, StartScan, CannotScan, CannotAnchor, ScanProcess, FinishScan, Panic, EndScan

(* Every step keeps the facts about places and files.                       *)
LEMMA WorldKept == PhasesInv /\ [Next]_vars => WorldInv'
<1>. SUFFICES ASSUME PhasesInv, [Next]_vars PROVE WorldInv'
  OBVIOUS
<1>. USE TypeFacts
<1>1. retained' # NoAnchor => AnchoredIn(retained', at', created')
  <2>1. retained' # NoAnchor => AnchoredIn(retained', at, created)
    BY CacheSteps DEF PhasesInv, WorldInv, JobInv, Insert, At
  <2>. QED
    BY <2>1, AnchoredStays
<1>2. /\ at' \in [Places -> Files \cup {NoFile}] /\ created' \in Files /\ link' \in Places
      /\ \A q \in Places : at'[q] <= created'
      /\ \A q, r \in Places : at'[q] # NoFile /\ at'[q] = at'[r] => q = r
  <2>1. CASE UNCHANGED <<at, created>> /\ link' \in Places
    BY <2>1 DEF PhasesInv, WorldInv
  <2>2. CASE Replace
    <3>1. created' = created + 1 /\ created' \in Files /\ link' = link
      BY <2>2, PhasesAssumption DEF Replace, Files
    <3>2. PICK p \in Places : at' = [at EXCEPT ![p] = created']
      BY <2>2 DEF Replace
    <3>. QED
      <4>1. /\ \A q \in Places : at[q] <= created /\ at[q] \in Nat
            /\ \A q, r \in Places : at[q] # NoFile /\ at[q] = at[r] => q = r
        BY DEF PhasesInv, WorldInv
      <4>2. at' \in [Places -> Files \cup {NoFile}]
        BY <3>1, <3>2
      <4>3. ASSUME NEW q \in Places PROVE at'[q] = IF q = p THEN created' ELSE at[q]
        BY <3>2
      <4>4. created \in Nat
        OBVIOUS
      <4>5. ASSUME NEW q \in Places PROVE at'[q] <= created' /\ at[q] < created'
        <5>1. at[q] \in Nat /\ at[q] <= created
          BY <4>1
        <5>. QED
          BY <3>1, <4>3, <4>4, <5>1
      <4>6. ASSUME NEW q \in Places, NEW r \in Places, at'[q] # NoFile, at'[q] = at'[r] PROVE q = r
        BY <4>1, <4>3, <4>5, <4>6
      <4>. QED
        BY <3>1, <4>2, <4>5, <4>6
  <2>3. CASE Remove
    BY <2>3 DEF Remove, PhasesInv, WorldInv
  <2>4. Replace \/ Remove \/ (UNCHANGED <<at, created>> /\ link' \in Places)
    BY NextSteps, JobMoves
    DEF GroupOnly, unchangedOutsideGroup, JobMoved, EndPhases, OpenReadWrite, Disturbance, Retarget,
        OpenOrClose, vars, world
  <2>. QED
    BY <2>1, <2>2, <2>3, <2>4
<1>. QED
  BY <1>1, <1>2 DEF WorldInv

-----------------------------------------------------------------------------
(* The jobs *)

(* Every step keeps what each job knows of its anchor.                      *)
LEMMA JobInvKept == PhasesInv /\ [Next]_vars => \A k \in Job : JobInv(k)'
<1>. SUFFICES ASSUME PhasesInv, [Next]_vars, NEW k \in Job PROVE JobInv(k)'
  OBVIOUS
<1>. USE TypeFacts
<1>1. JobInv(k) /\ Kind(k)' = Kind(k)
  BY NextSteps, JobMoves
  DEF PhasesInv, Kind, GroupOnly, unchangedOutsideGroup, JobMoved, EndPhases, OpenReadWrite,
      Disturbance, Retarget, Replace, Remove, OpenOrClose, Disturb, vars, world
<1>2. CASE \/ GroupOnly \/ EndPhases \/ OpenReadWrite \/ Disturbance \/ UNCHANGED vars
  <2>1. /\ step'[k] = step[k] /\ anchor'[k] = anchor[k] /\ result'[k] = result[k]
        /\ \/ thread'[k] = thread[k]
           \/ /\ thread[k] \in {"unspawned", "arriving", "waiting"}
              /\ thread'[k] \in {"arriving", "waiting", "running"}
    BY <1>2
    DEF GroupOnly, unchangedOutsideGroup, jobs, EndPhases, OpenReadWrite, groupVars,
        Disturbance, Retarget, Replace, Remove, OpenOrClose, Disturb, vars
  <2>2. anchor[k] # NoAnchor => AnchoredIn(anchor[k], at', created')
    BY <1>1, AnchoredStays DEF JobInv
  <2>. QED
    BY <1>1, <2>1, <2>2 DEF JobInv
<1>3. ASSUME NEW j \in Job, JobAction(j) PROVE JobInv(k)'
  <2>1. JobMoved(j)
    BY <1>3, JobMoves
  <2>2. CASE k # j
    <3>1. /\ step'[k] = step[k] /\ anchor'[k] = anchor[k] /\ result'[k] = result[k]
          /\ \/ thread'[k] = thread[k]
             \/ thread[k] = "waiting" /\ thread'[k] = "arriving"
          /\ UNCHANGED <<at, created>>
      BY <2>1, <2>2 DEF JobMoved
    <3>. QED
      BY <1>1, <3>1 DEF JobInv
  <2>3. CASE k = j
    <3>0. /\ thread[k] = "running" /\ thread'[k] \in {"running", "ended"}
          /\ IF thread'[k] = "ended" THEN step'[k] = "done" ELSE result'[k] = "ok"
          /\ UNCHANGED <<at, created>>
      BY <1>1, <2>1, <2>3 DEF JobMoved, JobInv
    <3>1. CASE LookUp(k)
      <4>1. CASE Unanchored(k)
        <5>1. anchor'[k] = NoAnchor
          BY <4>1 DEF Unanchored
        <5>2. CASE Kind(k) # "holders"
          BY <1>1, <3>0, <4>1, <5>1, <5>2, JobEnds DEF Unanchored, JobInv
        <5>3. CASE Kind(k) = "holders"
          BY <1>1, <3>0, <4>1, <5>1, <5>3, JobEnds DEF Unanchored, GoTo, JobInv, SqliteKinds
        <5>. QED
          BY <5>2, <5>3
      <4>2. CASE \E a \in Anchor, where \in {"insert", "anchored"} :
                    Holding(k, a, where) /\ AnchoredIn(a, at, created)
        BY <1>1, <3>0, <4>2, SelfIsNone DEF Holding, GoTo, JobInv
      <4>. QED
        BY <3>1, <4>1, <4>2, BoundAnchored DEF LookUp, PhasesInv, WorldInv, AnchoredIn
    <3>2. CASE Insert(k)
      <4>1. retained' \in Anchor /\ AnchoredIn(retained', at, created)
        BY <1>1, <3>2 DEF Insert, At, JobInv, PhasesInv, WorldInv
      <4>2. CASE Unanchored(k)
        <5>1. anchor'[k] = NoAnchor
          BY <4>2 DEF Unanchored
        <5>2. CASE Kind(k) # "holders"
          BY <1>1, <3>0, <4>2, <5>1, <5>2, JobEnds DEF Unanchored, JobInv
        <5>3. CASE Kind(k) = "holders"
          BY <1>1, <3>0, <4>2, <5>1, <5>3, JobEnds DEF Unanchored, GoTo, JobInv, SqliteKinds
        <5>. QED
          BY <5>2, <5>3
      <4>3. CASE Holding(k, retained', "anchored")
        BY <1>1, <3>0, <4>1, <4>3, SelfIsNone DEF Holding, GoTo, JobInv
      <4>. QED
        BY <3>2, <4>2, <4>3 DEF Insert
    <3>3. CASE Panic(k)
      BY <1>1, <3>0, <3>3, JobEnds DEF Panic, JobInv
    <3>4. CASE ValidateSelectors(k)
      BY <1>1, <3>0, <3>4, JobEnds DEF ValidateSelectors, JobInv, SqliteKinds
    <3>5. CASE \E outcome \in Outcomes : WorkOnAnchor(k, outcome)
      BY <1>1, <3>0, <3>5, JobEnds DEF WorkOnAnchor, At, JobInv
    <3>6. CASE CannotScan(k) \/ CannotAnchor(k) \/ FinishScan(k)
      <4>1. Kind(k) = "holders" /\ anchor' = anchor /\ End(k, "ok")
        BY <1>1, <3>6 DEF CannotScan, CannotAnchor, FinishScan, EndScan, At, JobInv
      <4>. QED
        BY <1>1, <3>0, <4>1, JobEnds DEF JobInv, SqliteKinds
    <3>7. CASE StartScan(k)
      BY <1>1, <3>0, <3>7 DEF StartScan, GoTo, groupVars, JobInv
    <3>8. CASE \E p \in Procs : ScanProcess(k, p)
      BY <1>1, <3>0, <3>8 DEF ScanProcess, groupVars, JobInv
    <3>. QED
      BY <1>3, <2>3, <3>1, <3>2, <3>3, <3>4, <3>5, <3>6, <3>7, <3>8 DEF JobAction, JobStep
  <2>. QED
    BY <2>2, <2>3
<1>. QED
  BY <1>2, <1>3, NextSteps

-----------------------------------------------------------------------------
(* One file *)

(* What the jobs have done stays when the step is none of theirs.           *)
LEMMA JobsStay ==
    ASSUME PhasesInv, \/ GroupOnly \/ EndPhases \/ OpenReadWrite \/ Disturbance \/ UNCHANGED vars
    PROVE  UNCHANGED <<step, anchor, result, scan, decision, command, size>>
BY DEF GroupOnly, unchangedOutsideGroup, jobs, EndPhases, OpenReadWrite, groupVars,
       Disturbance, Retarget, Replace, Remove, OpenOrClose, Disturb, vars

(* While a job runs the command has not gone on.                            *)
LEMMA RunningMeansInspecting ==
    ASSUME PhasesInv, NEW j \in Job, thread[j] = "running"
    PROVE  main = "inspecting" /\ caller # "returned" /\ j \in 1 .. size
<1>1. j \in 1 .. size
  BY Facts DEF PhasesInv, GroupInv, CallerInv, Job
<1>2. caller # "returned"
  BY <1>1 DEF PhasesInv, GroupInv, CallerInv
<1>. QED
  BY <1>1, <1>2 DEF PhasesInv, MainInv

(* Until the file is opened, every job works with the cached anchor.        *)
LEMMA CacheKept == PhasesInv /\ [Next]_vars => CacheInv'
<1>. SUFFICES ASSUME PhasesInv, [Next]_vars PROVE CacheInv'
  OBVIOUS
<1>. USE TypeFacts
<1>1. CASE \/ GroupOnly \/ EndPhases \/ OpenReadWrite \/ Disturbance \/ UNCHANGED vars
  <2>1. UNCHANGED <<step, anchor, result>>
    BY <1>1, JobsStay
  <2>2. \A k \in Job : Works(k)' <=> Works(k)
    BY <2>1 DEF Works
  <2>3. \A j, k \in Job : Works(j)' /\ Works(k)' => anchor'[j] = anchor'[k]
    BY <2>1, <2>2 DEF PhasesInv, CacheInv
  <2>4. main' \in {"inspecting", "opening"} =>
            main \in {"inspecting", "opening"} /\ retained' = retained
    BY <1>1, CacheSteps
    DEF GroupOnly, unchangedOutsideGroup, jobs, EndPhases, OpenReadWrite,
        Disturbance, Retarget, Replace, Remove, OpenOrClose, Disturb, vars
  <2>. QED
    BY <2>1, <2>2, <2>3, <2>4 DEF PhasesInv, CacheInv
<1>2. ASSUME NEW j \in Job, JobAction(j) PROVE CacheInv'
  <2>1. JobMoved(j) /\ main = "inspecting" /\ main' = "inspecting"
    BY <1>2, JobMoves, RunningMeansInspecting DEF JobMoved
  <2>2. \A k \in Job \ {j} : /\ Works(k)' <=> Works(k)
                             /\ anchor'[k] = anchor[k]
    BY <2>1 DEF JobMoved, Works
  <2>3. \A k \in Job : Works(k) => anchor[k] = retained
    BY <2>1 DEF PhasesInv, CacheInv
  <2>4. \A k \in Job : Works(k) => retained # NoAnchor
    BY <2>3 DEF Works
  <2>5. retained' = retained \/ retained = NoAnchor
    BY <2>1, CacheSteps DEF OpenReadWrite
  <2>6. Works(j)' => anchor'[j] = retained'
    <3>1. CASE LookUp(j)
      <4>1. CASE Unanchored(j)
        BY <4>1 DEF Unanchored, Works
      <4>. QED
        BY <3>1, <4>1 DEF LookUp, Holding, GoTo, Works
    <3>2. CASE Insert(j)
      <4>1. CASE Unanchored(j)
        BY <4>1 DEF Unanchored, Works
      <4>. QED
        BY <3>2, <4>1 DEF Insert, Holding, Works
    <3>3. CASE Panic(j)
      BY <3>3, JobEnds DEF Panic, Works
    <3>4. CASE \/ ValidateSelectors(j) \/ CannotAnchor(j)
      BY <2>1, <3>4 DEF ValidateSelectors, CannotAnchor, EndScan, At, Works, PhasesInv, JobInv
    <3>5. CASE \/ \E outcome \in Outcomes : WorkOnAnchor(j, outcome)
               \/ CannotScan(j) \/ FinishScan(j)
      <4>1. /\ step[j] # "insert" /\ UNCHANGED <<anchor, retained>>
            /\ \E outcome \in Outcomes : End(j, outcome)
        BY <3>5 DEF WorkOnAnchor, CannotScan, FinishScan, EndScan, At
      <4>. QED
        BY <2>1, <2>3, <4>1, JobEnds DEF Works, JobMoved, PhasesInv, JobInv
    <3>6. CASE StartScan(j) \/ \E p \in Procs : ScanProcess(j, p)
      <4>1. step[j] # "insert" /\ UNCHANGED <<anchor, retained, result>>
        BY <3>6 DEF StartScan, ScanProcess, GoTo, groupVars, At
      <4>. QED
        BY <2>3, <4>1 DEF Works
    <3>. QED
      BY <1>2, <3>1, <3>2, <3>3, <3>4, <3>5, <3>6 DEF JobAction, JobStep
  <2>7. \A k \in Job : Works(k)' => anchor'[k] = retained'
    BY <2>2, <2>3, <2>4, <2>5, <2>6
  <2>. QED
    BY <2>7 DEF CacheInv
<1>. QED
  BY <1>1, <1>2, NextSteps

(* The command goes on only after all jobs succeeded.                       *)
LEMMA MainKept == PhasesInv /\ [Next]_vars => MainInv'
<1>. SUFFICES ASSUME PhasesInv, [Next]_vars PROVE MainInv'
  OBVIOUS
<1>. USE TypeFacts
<1>1. CASE GroupOnly \/ Disturbance \/ UNCHANGED vars
  <2>1. UNCHANGED <<anchor, result, decision, command, size, main, opened>>
    BY <1>1, JobsStay
    DEF GroupOnly, unchangedOutsideGroup, Disturbance, Retarget, Replace, Remove, OpenOrClose,
        Disturb, vars
  <2>2. caller = "returned" => caller' = "returned"
    BY <1>1
    DEF GroupOnly, Disturbance, Retarget, Replace, Remove, OpenOrClose, Disturb, groupVars, vars
  <2>. QED
    BY <2>1, <2>2 DEF PhasesInv, MainInv, Joined, Kind
<1>2. CASE EndPhases
  <2>1. UNCHANGED <<anchor, result, decision, command, size>> /\ caller' = caller /\ opened' = opened
    BY <1>2, JobsStay DEF EndPhases, groupVars
  <2>. QED
    BY <1>2, <2>1 DEF EndPhases, PhasesInv, MainInv, Joined, Kind
<1>3. CASE OpenReadWrite
  <2>1. UNCHANGED <<anchor, result, decision, command, size>> /\ caller' = caller
    BY <1>3, JobsStay DEF OpenReadWrite, groupVars
  <2>2. main = "opening" /\ caller = "returned"
    BY <1>3 DEF OpenReadWrite, PhasesInv, MainInv
  <2>3. ASSUME NEW j \in 1 .. size, anchor[j] # NoAnchor PROVE anchor[j] = retained
    <3>1. j \in Job /\ thread[j] = "ended"
      BY <2>2, Facts DEF PhasesInv, GroupInv, CallerInv, Job
    <3>2. step[j] = "done" /\ result[j] = "ok"
      BY <2>2, <3>1 DEF PhasesInv, JobInv, MainInv, Joined
    <3>. QED
      BY <2>2, <2>3, <3>1, <3>2 DEF PhasesInv, CacheInv, Works
  <2>4. opened' # NoFile =>
            main' = "opened" /\ \A j \in 1 .. size : anchor[j] # NoAnchor => anchor[j].file = opened'
    BY <1>3, <2>3 DEF OpenReadWrite
  <2>. QED
    BY <2>1, <2>2, <2>4 DEF PhasesInv, MainInv, Joined, Kind
<1>4. ASSUME NEW j \in Job, JobAction(j) PROVE MainInv'
  <2>1. main = "inspecting" /\ main' = "inspecting" /\ opened' = opened
    BY <1>4, JobMoves, RunningMeansInspecting DEF JobMoved
  <2>. QED
    BY <2>1 DEF PhasesInv, MainInv
<1>. QED
  BY <1>1, <1>2, <1>3, <1>4, NextSteps

-----------------------------------------------------------------------------
(* The holder scan *)

(* There is one holder job in a group.                                      *)
LEMMA OneHolderJob ==
    ASSUME PhasesInv, NEW i \in 1 .. size, NEW j \in 1 .. size, Kind(i) = Kind(j)
    PROVE  i = j
<1>1. command \in Commands /\ command \in Command
  BY PhasesAssumption DEF PhasesInv, TypeOK
<1>2. PICK n \in Job : command.kinds \in [1 .. n -> JobKinds]
  BY <1>1 DEF Command
<1>3. DOMAIN command.kinds = 1 .. size
  <2>1. n \in Nat
    BY <1>2, GroupAssumption DEF Job
  <2>2. Len(command.kinds) = n
    BY <1>2, <2>1
  <2>. QED
    BY <1>2, <2>2 DEF PhasesInv
<1>. QED
  BY <1>1, <1>3, PhasesAssumption DEF Kind

(* A job that has begun is one of the group.                                *)
LEMMA BegunInGroup ==
    ASSUME PhasesInv, NEW j \in Job, step[j] # "start"
    PROVE  j \in 1 .. size
<1>1. thread[j] # "unspawned"
  BY DEF PhasesInv, JobInv
<1>2. Jobs \in Nat /\ size \in Nat /\ next <= size /\ next \in Nat
  BY Facts DEF PhasesInv, GroupInv, CallerInv
<1>. QED
  BY <1>1, <1>2 DEF PhasesInv, GroupInv, CallerInv, Job

(* The steps that concern the scan are those of the holder job.             *)
LEMMA HolderSteps ==
    ASSUME PhasesInv, NEW j \in Job, JobAction(j)
    PROVE  \/ UNCHANGED <<scan, steady, decision>>
           \/ Kind(j) = "holders"
BY DEF JobAction, JobStep, LookUp, Insert, ValidateSelectors, WorkOnAnchor, StartScan, CannotScan,
       CannotAnchor, ScanProcess, FinishScan, Panic, EndScan, Unanchored, At, PhasesInv, JobInv

(* Only the holder scan touches the scan.                                   *)
LEMMA LoneHolder ==
    ASSUME PhasesInv, NEW j \in Job, JobAction(j),
           NEW k \in Job, k # j, Kind(k) = "holders", step[k] # "start"
    PROVE  UNCHANGED <<scan, steady, decision>>
<1>1. k \in 1 .. size
  BY BegunInGroup
<1>2. j \in 1 .. size
  BY JobMoves, RunningMeansInspecting DEF JobMoved
<1>. QED
  BY <1>1, <1>2, OneHolderJob, HolderSteps

(* What the surroundings can do to a scan: a file that is not at its entry  *)
(* does not come back, and a process that closes its file is not steady.    *)
LEMMA DisturbedScan ==
    ASSUME PhasesInv, Disturbance
    PROVE  /\ steady' \subseteq steady
           /\ \A p \in steady' : holds'[p] = holds[p]
           /\ \A a : AnchoredIn(a, at, created) /\ GoneFrom(a, at) => GoneFrom(a, at')
<1>. USE TypeFacts
<1>1. CASE Retarget
  BY <1>1 DEF Retarget
<1>2. CASE Replace
  BY <1>2 DEF Replace, AnchoredIn, GoneFrom, Anchor
<1>3. CASE Remove
  BY <1>3 DEF Remove, AnchoredIn, GoneFrom, Anchor
<1>4. CASE OpenOrClose
  BY <1>4 DEF OpenOrClose, PhasesInv, TypeOK
<1>. QED
  BY <1>1, <1>2, <1>3, <1>4 DEF Disturbance

(* A steady holder stays to be looked at, found, or at a file that left.    *)
LEMMA ScanKept == PhasesInv /\ [Next]_vars => \A k \in Job : ScanInv(k)'
<1>. SUFFICES ASSUME PhasesInv, [Next]_vars, NEW k \in Job, step'[k] = "scanning",
                     anchor'[k] # NoAnchor
     PROVE  /\ scan'.place = anchor'[k].place
            /\ \A p \in steady' : holds'[p] = anchor'[k].file =>
                   p \in scan'.todo \/ p \in scan'.found \/ GoneFrom(anchor'[k], at')
  BY DEF ScanInv, GoneFrom
<1>. USE TypeFacts
<1>1. CASE GroupOnly \/ EndPhases \/ OpenReadWrite \/ UNCHANGED vars
  <2>1. UNCHANGED <<step, anchor, scan>>
    BY <1>1, JobsStay
  <2>2. UNCHANGED <<steady, holds, at>>
    BY <1>1 DEF GroupOnly, unchangedOutsideGroup, EndPhases, OpenReadWrite, vars, world
  <2>. QED
    BY <2>1, <2>2 DEF PhasesInv, ScanInv
<1>2. CASE Disturbance
  <2>1. UNCHANGED <<step, anchor, scan>>
    BY <1>2, JobsStay
  <2>2. AnchoredIn(anchor[k], at, created)
    BY <2>1 DEF PhasesInv, JobInv
  <2>. QED
    BY <1>2, <2>1, <2>2, DisturbedScan DEF PhasesInv, ScanInv
<1>3. ASSUME NEW j \in Job, JobAction(j), j # k
      PROVE  /\ scan'.place = anchor'[k].place
             /\ \A p \in steady' : holds'[p] = anchor'[k].file =>
                    p \in scan'.todo \/ p \in scan'.found \/ GoneFrom(anchor'[k], at')
  <2>1. step[k] = "scanning" /\ anchor'[k] = anchor[k] /\ UNCHANGED <<holds, at>>
    BY <1>3, JobMoves DEF JobMoved
  <2>2. UNCHANGED <<scan, steady>>
    BY <1>3, <2>1, LoneHolder DEF PhasesInv, JobInv
  <2>. QED
    BY <2>1, <2>2 DEF PhasesInv, ScanInv
<1>4. ASSUME JobAction(k)
      PROVE  /\ scan'.place = anchor'[k].place
             /\ \A p \in steady' : holds'[p] = anchor'[k].file =>
                    p \in scan'.todo \/ p \in scan'.found \/ GoneFrom(anchor'[k], at')
  <2>1. CASE StartScan(k)
    <3>1. anchor' = anchor /\ scan'.place = ScannedPlace(k) /\ scan'.todo = Procs
          /\ steady' \subseteq Procs
      BY <2>1 DEF StartScan, NoScan, Others
    <3>. QED
      BY <3>1 DEF ScannedPlace
  <2>2. ASSUME NEW q \in Procs, ScanProcess(k, q)
        PROVE  /\ scan'.place = anchor'[k].place
               /\ \A p \in steady' : holds'[p] = anchor'[k].file =>
                      p \in scan'.todo \/ p \in scan'.found \/ GoneFrom(anchor'[k], at')
    <3>1. UNCHANGED <<anchor, steady, holds, at>> /\ step[k] = "scanning"
      BY <2>2 DEF ScanProcess, At, world
    <3>2. /\ scan'.place = scan.place /\ scan'.todo = scan.todo \ {q}
          /\ scan'.found = IF q \notin opaque /\ at[scan.place] # NoFile /\ HasOpen(q) = at[scan.place]
                           THEN scan.found \cup {q} ELSE scan.found
      BY <2>2 DEF ScanProcess, PhasesInv, TypeOK
    <3>3. scan.place = anchor[k].place /\ anchor[k] # NoAnchor
      BY <3>1 DEF PhasesInv, ScanInv
    <3>4. anchor[k].file # NoFile
      BY <3>3 DEF Anchor
    <3>5. ASSUME NEW p \in steady, holds[p] = anchor[k].file, p = q, ~GoneFrom(anchor[k], at)
          PROVE  p \in scan'.found
      <4>1. p \notin opaque /\ HasOpen(p) = holds[p]
        BY DEF PhasesInv, SteadyInv, HasOpen, Others
      <4>2. at[scan.place] = anchor[k].file
        BY <3>3, <3>5 DEF GoneFrom
      <4>. QED
        BY <3>2, <3>4, <3>5, <4>1, <4>2
    <3>6. \A p \in steady : holds[p] = anchor[k].file =>
              p \in scan.todo \/ p \in scan.found \/ GoneFrom(anchor[k], at)
      BY <3>1, <3>3 DEF PhasesInv, ScanInv
    <3>. QED
      BY <3>1, <3>2, <3>3, <3>5, <3>6
  <2>3. StartScan(k) \/ \E q \in Procs : ScanProcess(k, q)
    BY <1>4, JobEnds
    DEF JobAction, JobStep, LookUp, Insert, ValidateSelectors, WorkOnAnchor, CannotScan,
        CannotAnchor, FinishScan, Panic, EndScan, Unanchored, Holding, GoTo, End
  <2>. QED
    BY <2>1, <2>2, <2>3
<1>. QED
  BY <1>1, <1>2, <1>3, <1>4, NextSteps

(* What an unforced destructive command makes of a scan.                    *)
LEMMA HeldRefuses ==
    ASSUME NEW found, NEW blind, NEW p \in found, p # Self
    PROVE  Refuses(Decide(Scanned(found, blind), TRUE, FALSE))
<1>1. p \in found \ {Self}
  OBVIOUS
<1>2. Scanned(found, blind).verdict = "held" /\ Scanned(found, blind).holders = found
  BY DEF Scanned, Inspection
<1>3. WithoutSelf(Scanned(found, blind)).verdict = "held"
  BY <1>1, <1>2 DEF WithoutSelf, Scanned, Inspection
<1>. QED
  BY <1>3 DEF Decide, Refuses

(* A scan that is over has refused, or the file has left its entry.         *)
LEMMA DoneKept == PhasesInv /\ [Next]_vars => \A k \in Job : DoneInv(k)'
<1>. SUFFICES ASSUME PhasesInv, [Next]_vars, NEW k \in Job, step'[k] = "done", Kind(k)' = "holders",
                     result'[k] = "ok", anchor'[k] # NoAnchor, Strict'
     PROVE  Refuses(decision') \/ \A p \in steady' : holds'[p] # anchor'[k].file
  BY DEF DoneInv
<1>. USE TypeFacts
<1>0. Kind(k) = "holders" /\ Strict
  BY NextSteps, JobMoves, JobsStay DEF JobMoved, Kind, Strict
<1>1. CASE GroupOnly \/ EndPhases \/ OpenReadWrite \/ Disturbance \/ UNCHANGED vars
  <2>1. UNCHANGED <<step, anchor, result, decision>>
    BY <1>1, JobsStay
  <2>2. steady' \subseteq steady /\ \A p \in steady' : holds'[p] = holds[p]
    BY <1>1, DisturbedScan
    DEF GroupOnly, unchangedOutsideGroup, EndPhases, OpenReadWrite, vars, world
  <2>. QED
    BY <1>0, <2>1, <2>2 DEF PhasesInv, DoneInv
<1>2. ASSUME NEW j \in Job, JobAction(j), j # k
      PROVE  Refuses(decision') \/ \A p \in steady' : holds'[p] # anchor'[k].file
  <2>1. step[k] = "done" /\ anchor'[k] = anchor[k] /\ result'[k] = result[k] /\ UNCHANGED holds
    BY <1>2, JobMoves DEF JobMoved
  <2>2. UNCHANGED <<steady, decision>>
    BY <1>0, <1>2, <2>1, LoneHolder
  <2>. QED
    BY <1>0, <2>1, <2>2 DEF PhasesInv, DoneInv
<1>3. ASSUME JobAction(k)
      PROVE  Refuses(decision') \/ \A p \in steady' : holds'[p] # anchor'[k].file
  <2>0. UNCHANGED <<holds, at, link, command>>
    BY <1>3, JobMoves DEF JobMoved
  <2>1. CASE CannotScan(k) \/ CannotAnchor(k)
    <3>1. UNCHANGED <<anchor, steady>> /\ step[k] \in {"start", "anchored", "unanchored"}
      BY <2>1 DEF CannotScan, CannotAnchor, EndScan, At
    <3>2. thread[k] = "running"
      BY <1>3, JobMoves DEF JobMoved
    <3>3. k \in 1 .. size
      BY <3>2, RunningMeansInspecting
    <3>4. steady = {}
      BY <1>0, <3>1, <3>3, OneHolderJob DEF PhasesInv, SteadyInv
    <3>. QED
      BY <3>1, <3>4
  <2>2. CASE FinishScan(k)
    <3>1. /\ UNCHANGED <<anchor, steady>> /\ step[k] = "scanning" /\ scan.todo = {}
          /\ decision' = Decided(k, Scanned(scan.found, scan.blind))
      BY <2>2 DEF FinishScan, EndScan, At
    <3>2. CASE ~Matches(anchor[k])
      BY <3>1, <3>2 DEF Decided, Refuses
    <3>3. CASE Matches(anchor[k])
      <4>1. decision' = Decide(Scanned(scan.found, scan.blind), TRUE, FALSE)
        <5>1. command \in Command
          BY PhasesAssumption DEF PhasesInv, TypeOK
        <5>2. command.destructive = TRUE /\ command.force = FALSE
          BY <1>0, <5>1 DEF Strict, Command
        <5>. QED
          BY <3>1, <3>3, <5>2 DEF Decided
      <4>2. ~GoneFrom(anchor[k], at)
        <5>1. AnchoredIn(anchor[k], at, created)
          BY <3>1 DEF PhasesInv, JobInv
        <5>. QED
          BY <3>3, <5>1 DEF Matches, Bound, AnchoredIn, GoneFrom
      <4>3. ASSUME NEW p \in steady, holds[p] = anchor[k].file PROVE Refuses(decision')
        <5>1. p \in scan.found
          BY <3>1, <4>2, <4>3 DEF PhasesInv, ScanInv
        <5>2. p # Self
          BY DEF PhasesInv, SteadyInv, Others
        <5>. QED
          BY <4>1, <5>1, <5>2, HeldRefuses
      <4>. QED
        BY <2>0, <3>1, <4>3
    <3>. QED
      BY <3>2, <3>3
  <2>3. CannotScan(k) \/ CannotAnchor(k) \/ FinishScan(k)
    <3>1. ASSUME Unanchored(k) PROVE FALSE
      BY <3>1 DEF Unanchored
    <3>2. ASSUME NEW a, NEW where \in {"insert", "anchored", "scanning"}, GoTo(k, where) PROVE FALSE
      BY <3>2 DEF GoTo
    <3>3. ~LookUp(k) /\ ~Insert(k)
      BY <3>1, <3>2 DEF LookUp, Insert, Holding
    <3>4. ~Panic(k)
      BY JobEnds DEF Panic
    <3>5. ~ValidateSelectors(k) /\ \A outcome \in Outcomes : ~WorkOnAnchor(k, outcome)
      BY <1>0 DEF ValidateSelectors, WorkOnAnchor, SqliteKinds
    <3>6. ~StartScan(k)
      BY <3>2 DEF StartScan
    <3>7. \A q \in Procs : ~ScanProcess(k, q)
      BY DEF ScanProcess, At
    <3>. QED
      BY <1>3, <3>3, <3>4, <3>5, <3>6, <3>7 DEF JobAction, JobStep
  <2>. QED
    BY <2>1, <2>2, <2>3
<1>. QED
  BY <1>1, <1>2, <1>3, NextSteps

(* Who is steady has the anchored file open.                                *)
LEMMA SteadyKept == PhasesInv /\ [Next]_vars => SteadyInv'
<1>. SUFFICES ASSUME PhasesInv, [Next]_vars PROVE SteadyInv'
  OBVIOUS
<1>. USE TypeFacts
<1>1. CASE GroupOnly \/ EndPhases \/ OpenReadWrite \/ Disturbance \/ UNCHANGED vars
  <2>1. UNCHANGED <<step, command, size>>
    BY <1>1, JobsStay
  <2>2. steady' \subseteq steady /\ opaque' = opaque
    BY <1>1, DisturbedScan
    DEF GroupOnly, unchangedOutsideGroup, EndPhases, OpenReadWrite, vars, world, Disturbance,
        Retarget, Replace, Remove, OpenOrClose, Disturb
  <2>. QED
    BY <2>1, <2>2 DEF PhasesInv, SteadyInv, Kind
<1>2. ASSUME NEW j \in Job, JobAction(j) PROVE SteadyInv'
  <2>1. JobMoved(j) /\ j \in 1 .. size
    BY <1>2, JobMoves, RunningMeansInspecting DEF JobMoved
  <2>2. CASE StartScan(j)
    <3>1. /\ step'[j] = "scanning" /\ Kind(j) = "holders"
          /\ steady' \subseteq Others \ opaque
      BY <2>2 DEF StartScan, GoTo
    <3>. QED
      BY <2>1, <3>1 DEF SteadyInv, JobMoved, Kind
  <2>3. CASE ~StartScan(j)
    <3>1. steady' = steady
      BY <1>2, <2>3
      DEF JobAction, JobStep, LookUp, Insert, ValidateSelectors, WorkOnAnchor, CannotScan,
          CannotAnchor, ScanProcess, FinishScan, Panic, EndScan
    <3>2. step[j] \in {"scanning", "done"} => step'[j] \in {"scanning", "done"}
      BY <1>2, <2>3, JobEnds
      DEF JobAction, JobStep, LookUp, Insert, ValidateSelectors, WorkOnAnchor, CannotScan,
          CannotAnchor, ScanProcess, FinishScan, Panic, EndScan, At
    <3>3. \A k \in 1 .. size : step[k] \in {"scanning", "done"} => step'[k] \in {"scanning", "done"}
      <4>1. 1 .. size \subseteq Job
        BY Facts DEF PhasesInv, Job
      <4>. QED
        BY <2>1, <3>2, <4>1 DEF JobMoved
    <3>. QED
      BY <2>1, <3>1, <3>3 DEF PhasesInv, SteadyInv, JobMoved, Kind
  <2>. QED
    BY <2>2, <2>3
<1>. QED
  BY <1>1, <1>2, NextSteps

-----------------------------------------------------------------------------
(* Types *)

(* The type of the decision.                                                *)
LEMMA DecideType ==
    ASSUME NEW report, NEW destructive, NEW force
    PROVE  Decide(report, destructive, force) \in Decisions
BY DEF Decide, Decisions

(* The types of the scan and its decision.                                  *)
LEMMA ScanTypeKept ==
    ASSUME PhasesInv, NEW j \in Job, JobAction(j)
    PROVE  /\ scan' \in [place : Places \cup {"none"}, todo : SUBSET Procs, found : SUBSET Procs,
                         blind : BOOLEAN]
           /\ decision' \in Decisions
<1>. USE TypeFacts
<1>0. /\ scan \in [place : Places \cup {"none"}, todo : SUBSET Procs, found : SUBSET Procs,
                   blind : BOOLEAN]
      /\ decision \in Decisions
  BY DEF PhasesInv, TypeOK
<1>1. CASE StartScan(j)
  <2>1. ScannedPlace(j) \in Places
    BY DEF ScannedPlace, Anchor
  <2>2. scan' = [place |-> ScannedPlace(j), todo |-> Procs, found |-> {}, blind |-> FALSE]
    BY <1>1 DEF StartScan, NoScan
  <2>3. decision' = decision
    BY <1>1 DEF StartScan
  <2>. QED
    BY <1>0, <2>1, <2>2, <2>3
<1>2. ASSUME NEW p \in Procs, ScanProcess(j, p)
      PROVE  /\ scan' \in [place : Places \cup {"none"}, todo : SUBSET Procs, found : SUBSET Procs,
                           blind : BOOLEAN]
             /\ decision' \in Decisions
  <2>. DEFINE found == IF /\ p \notin opaque /\ at[scan.place] # NoFile
                          /\ HasOpen(p) = at[scan.place]
                       THEN scan.found \cup {p} ELSE scan.found
              blind == (scan.blind \/ p \in opaque)
  <2>1. /\ decision' = decision
        /\ scan' = [place |-> scan.place, todo |-> scan.todo \ {p}, found |-> found, blind |-> blind]
    BY <1>0, <1>2 DEF ScanProcess
  <2>2. scan.place \in Places \cup {"none"} /\ scan.todo \ {p} \in SUBSET Procs
    BY <1>0
  <2>3. found \in SUBSET Procs
    BY <1>0
  <2>4. blind \in BOOLEAN
    OBVIOUS
  <2>. HIDE DEF found, blind
  <2>. QED
    BY <1>0, <2>1, <2>2, <2>3, <2>4
<1>3. CASE ~StartScan(j) /\ \A p \in Procs : ~ScanProcess(j, p)
  <2>1. scan' = scan
    BY <1>3
    DEF JobAction, JobStep, LookUp, Insert, ValidateSelectors, WorkOnAnchor, CannotScan,
        CannotAnchor, FinishScan, Panic, EndScan
  <2>2. ASSUME NEW report, EndScan(j, report) PROVE decision' \in Decisions
    BY <2>2, DecideType DEF EndScan, Decided, Decisions
  <2>3. ASSUME Unanchored(j) PROVE decision' \in Decisions
    BY <1>0, <2>3 DEF Unanchored, Decisions
  <2>. QED
    BY <1>0, <1>3, <2>1, <2>2, <2>3
    DEF JobAction, JobStep, LookUp, Insert, ValidateSelectors, WorkOnAnchor, CannotScan,
        CannotAnchor, FinishScan, Panic
<1>. QED
  BY <1>1, <1>2, <1>3

(* Every step keeps the types.                                              *)
LEMMA TypeKept == PhasesInv /\ [Next]_vars => TypeOK'
<1>. SUFFICES ASSUME PhasesInv, [Next]_vars PROVE TypeOK'
  OBVIOUS
<1>. USE TypeFacts
<1>0. TypeOK
  BY DEF PhasesInv
<1>1. /\ GroupTypeOK' /\ steady' \subseteq Others
      /\ link' \in Places /\ at' \in [Places -> Files \cup {NoFile}] /\ created' \in Files
  BY GroupKept, WorldKept, SteadyKept DEF GroupInv, WorldInv, SteadyInv
<1>2. retained' \in Anchor \cup {NoAnchor}
  BY WorldKept DEF WorldInv, AnchoredIn
<1>3. /\ step' \in [Job -> {"start", "insert", "anchored", "unanchored", "scanning", "done"}]
      /\ anchor' \in [Job -> Anchor \cup {NoAnchor}]
      /\ command' = command
  BY NextSteps, JobsStay, JobMoves DEF JobMoved
<1>4. /\ scan' \in [place : Places \cup {"none"}, todo : SUBSET Procs, found : SUBSET Procs,
                    blind : BOOLEAN]
      /\ decision' \in Decisions
  <2>1. CASE \/ GroupOnly \/ EndPhases \/ OpenReadWrite \/ Disturbance \/ UNCHANGED vars
    BY <1>0, <2>1, JobsStay DEF TypeOK
  <2>. QED
    BY <2>1, ScanTypeKept, NextSteps
<1>5. /\ main' \in {"inspecting", "opening", "opened", "reported", "failed"}
      /\ opened' \in Files \cup {NoFile}
  <2>1. CASE OpenReadWrite
    <3>1. Bound \in Files \cup {NoFile}
      BY DEF Bound
    <3>2. retained # NoAnchor => retained.file \in Files
      BY DEF Anchor
    <3>. QED
      BY <2>1, <3>1, <3>2 DEF OpenReadWrite
  <2>2. CASE EndPhases
    BY <1>0, <2>2 DEF EndPhases, TypeOK
  <2>3. UNCHANGED <<main, opened>> \/ OpenReadWrite \/ EndPhases
    BY NextSteps, JobMoves
    DEF JobMoved, GroupOnly, unchangedOutsideGroup, Disturbance, Retarget, Replace, Remove,
        OpenOrClose, Disturb, vars
  <2>. QED
    BY <1>0, <2>1, <2>2, <2>3 DEF TypeOK
<1>6. /\ holds' \in [Others -> Files \cup {NoFile}] /\ opaque' \subseteq Others
      /\ disturbed' \in 0 .. command'.disturbances
  <2>0. command.disturbances \in Nat
    BY <1>0, PhasesAssumption DEF TypeOK, Command
  <2>1. CASE Disturbance
    <3>1. opaque' = opaque /\ disturbed' \in 0 .. command'.disturbances
      BY <1>0, <1>3, <2>0, <2>1
      DEF Disturbance, Retarget, Replace, Remove, OpenOrClose, Disturb, TypeOK
    <3>2. holds' \in [Others -> Files \cup {NoFile}]
      <4>1. Bound \in Files \cup {NoFile}
        BY DEF Bound
      <4>. QED
        BY <1>0, <2>1, <4>1 DEF Disturbance, Retarget, Replace, Remove, OpenOrClose, TypeOK
    <3>. QED
      BY <1>0, <3>1, <3>2 DEF TypeOK
  <2>2. CASE UNCHANGED <<holds, opaque, disturbed>>
    BY <1>0, <1>3, <2>2 DEF TypeOK
  <2>. QED
    BY <2>1, <2>2, NextSteps, JobMoves
    DEF JobMoved, GroupOnly, unchangedOutsideGroup, EndPhases, OpenReadWrite, vars, world
<1>. QED
  BY <1>0, <1>1, <1>2, <1>3, <1>4, <1>5, <1>6 DEF TypeOK

-----------------------------------------------------------------------------
(* The invariant holds *)

(* The group has as many jobs as the command line.                          *)
LEMMA CommandKept ==
    PhasesInv /\ [Next]_vars => size' = Len(command.kinds)'
<1>. SUFFICES ASSUME PhasesInv, [Next]_vars PROVE size' = Len(command'.kinds)
  OBVIOUS
<1>. QED
  BY NextSteps, JobsStay, JobMoves DEF JobMoved, PhasesInv

(* The invariant holds when the command begins.                             *)
LEMMA PhasesInit == Init => PhasesInv
<1>. SUFFICES ASSUME Init PROVE PhasesInv
  OBVIOUS
<1>. USE PhasesAssumption
<1>0. Cardinality(Places) \in Nat /\ created \in Files /\ 1 \in Files /\ Files \subseteq Nat \ {0}
  BY DEF Init, Files
<1>1. link \in Places
  <2>1. Places # {}
    BY <1>0, FS_EmptySet
  <2>. QED
    BY <2>1 DEF Init
<1>2. at \in [Places -> Files \cup {NoFile}] /\ \A q \in Places : at[q] <= created
  <2>1. at \in [Places -> 1 .. created] /\ 1 .. created \subseteq Files
    BY <1>0 DEF Init, Files
  <2>. QED
    BY <1>0, <2>1
<1>3. GroupInv /\ size = Len(command.kinds)
  BY GroupStarts DEF Init
<1>4. TypeOK
  <2>1. command \in Commands /\ command.disturbances \in Nat
    BY DEF Init, Command
  <2>2. holds \in [Others -> Files \cup {NoFile}]
    BY <1>2 DEF Init
  <2>3. scan \in [place : Places \cup {"none"}, todo : SUBSET Procs, found : SUBSET Procs,
                  blind : BOOLEAN]
    BY DEF Init, NoScan
  <2>. QED
    BY <1>0, <1>1, <1>2, <1>3, <2>1, <2>2, <2>3 DEF Init, TypeOK, GroupInv, Decisions
<1>5. WorldInv
  BY <1>0, <1>1, <1>2 DEF Init, WorldInv
<1>6. \A j \in Job : JobInv(j) /\ ScanInv(j) /\ DoneInv(j) /\ ~Works(j)
  BY DEF Init, GroupInit, JobInv, ScanInv, DoneInv, Works
<1>7. CacheInv /\ MainInv /\ SteadyInv
  BY <1>6 DEF Init, CacheInv, MainInv, SteadyInv
<1>. QED
  BY <1>3, <1>4, <1>5, <1>6, <1>7 DEF PhasesInv

(* Every step keeps it.                                                     *)
LEMMA PhasesKept == PhasesInv /\ [Next]_vars => PhasesInv'
<1>. SUFFICES ASSUME PhasesInv, [Next]_vars PROVE PhasesInv'
  OBVIOUS
<1>1. \A j \in Job : JobInv(j)'
  BY JobInvKept
<1>2. \A j \in Job : ScanInv(j)' /\ DoneInv(j)'
  BY ScanKept, DoneKept
<1>. QED
  BY <1>1, <1>2, TypeKept, GroupKept, CommandKept, WorldKept, CacheKept, MainKept, SteadyKept
  DEF PhasesInv

(* The inductive invariant, for any jobs, permits, processes and places.    *)
THEOREM PhasesAlways == Spec => []PhasesInv
<1>. QED
  BY PhasesInit, PhasesKept, PTL DEF Spec

-----------------------------------------------------------------------------
(* What follows *)

(* The types of the variables.                                              *)
THEOREM PhasesTypes == Spec => []TypeOK
<1>1. PhasesInv => TypeOK
  BY DEF PhasesInv
<1>. QED
  BY <1>1, PhasesAlways, PTL

(* A free permit always has a thread on its way to it, however many jobs    *)
(* panic and however many wakeups are spurious (parallel.rs Gate).          *)
THEOREM PhasesLoseNoWakeup == Spec => []NoLostWakeup
<1>1. PhasesInv => NoLostWakeup
  BY DEF PhasesInv, GroupInv
<1>. QED
  BY <1>1, PhasesAlways, PTL

(* Permits are neither lost nor made up, and the caller goes on when every  *)
(* job has ended and every permit is back (parallel.rs group).              *)
THEOREM PhasesKeepPermits == Spec => [](PermitsConserved /\ GroupIsOver)
<1>1. PhasesInv => PermitsConserved /\ GroupIsOver
  BY GroupOver DEF PhasesInv, GroupInv
<1>. QED
  BY <1>1, PhasesAlways, PTL

(* The invariant leaves one file to inspect and to open.                    *)
LEMMA OneFileFollows == PhasesInv => OneFile
<1>. SUFFICES ASSUME PhasesInv PROVE OneFile
  OBVIOUS
<1>. USE TypeFacts
<1>1. ASSUME NEW j \in Job PROVE Works(j) <=> j \in {k \in Job : /\ anchor[k] # NoAnchor
                                                                /\ step[k] # "insert"
                                                                /\ result[k] = Success}
  BY DEF Works
<1>2. ASSUME opened # NoFile, NEW j \in 1 .. size, Kind(j) \in SqliteKinds
      PROVE  j \in Job /\ Works(j) /\ anchor[j].file = opened
  <2>1. main = "opened" /\ caller = "returned" /\ (anchor[j] # NoAnchor => anchor[j].file = opened)
    BY <1>2 DEF PhasesInv, MainInv
  <2>2. j \in Job /\ thread[j] = "ended"
    BY <2>1, Facts DEF PhasesInv, GroupInv, CallerInv, Job
  <2>3. result[j] = "ok"
    BY <2>1 DEF PhasesInv, MainInv, Joined
  <2>. QED
    BY <1>2, <2>1, <2>2, <2>3 DEF PhasesInv, JobInv, Works
<1>3. \A j, k \in Job : Works(j) /\ Works(k) => anchor[j] = anchor[k]
  BY DEF PhasesInv, CacheInv
<1>. QED
  BY <1>1, <1>2, <1>3 DEF OneFile

(* Every job that succeeded inspected one file, and that is the file which  *)
(* the command opens for writing (db/mod.rs database_anchor).               *)
THEOREM PhasesInspectOneFile == Spec => []OneFile
<1>. QED
  BY OneFileFollows, PhasesAlways, PTL

(* The invariant leaves no steady holder unseen.                            *)
LEMMA HolderFollows == PhasesInv => HolderNeverMissed
<1>. SUFFICES ASSUME PhasesInv, opened # NoFile, Strict,
                     \A j \in 1 .. size : Kind(j) = "holders" => anchor[j] # NoAnchor,
                     NEW p \in steady
     PROVE  holds[p] # opened
  BY DEF HolderNeverMissed, Strict
<1>. USE TypeFacts
<1>1. PICK j \in 1 .. size : Kind(j) = "holders"
  BY DEF PhasesInv, SteadyInv
<1>2. /\ main = "opened" /\ caller = "returned" /\ command.writes /\ Joined(j)
      /\ anchor[j] # NoAnchor /\ anchor[j].file = opened
  BY <1>1 DEF PhasesInv, MainInv
<1>3. j \in Job /\ thread[j] = "ended"
  BY <1>2, Facts DEF PhasesInv, GroupInv, CallerInv, Job
<1>4. step[j] = "done" /\ result[j] = "ok" /\ ~Refuses(decision)
  BY <1>1, <1>2, <1>3 DEF PhasesInv, JobInv, Joined
<1>. QED
  BY <1>1, <1>2, <1>3, <1>4 DEF PhasesInv, DoneInv

(* An unforced destructive command does not open a file that a readable     *)
(* process has had open since before the scan (safety/holders).             *)
THEOREM PhasesMissNoHolder == Spec => []HolderNeverMissed
<1>. QED
  BY HolderFollows, PhasesAlways, PTL

-----------------------------------------------------------------------------
(* The phases end *)

(* What is left: the steps of the caller and of the command behind it, the  *)
(* steps each job has ahead of it, the processes still to be looked at, and *)
(* the threads that are about to ask for a permit.                          *)
CallerLeft ==
    CASE caller = "spawning" -> (size - next) + size + 1
      [] caller = "joining"  -> size - next + 1
      [] caller = "returned" -> 0
MainAhead == [inspecting |-> 2, opening |-> 1, opened |-> 0, reported |-> 0, failed |-> 0]
StepAhead ==
    [start |-> 5, insert |-> 4, anchored |-> 3, unanchored |-> 3, scanning |-> 2, done |-> 1]
JobAhead(j) == IF thread[j] = "ended" THEN 0 ELSE StepAhead[step[j]]
Ahead == {p \in Job \X (1 .. 5) : p[2] <= JobAhead(p[1])}

PhasesLeft ==
    <<MainAhead[main] + CallerLeft, Cardinality(Ahead), Cardinality(scan.todo),
      Count(thread, "arriving")>>
Less(a, b) ==
    \/ a[1] < b[1]
    \/ a[1] = b[1] /\ a[2] < b[2]
    \/ a[1] = b[1] /\ a[2] = b[2] /\ a[3] < b[3]
    \/ a[1] = b[1] /\ a[2] = b[2] /\ a[3] = b[3] /\ a[4] < b[4]

(* A finite set that loses an element gets smaller.                         *)
LEMMA FewerLeft ==
    ASSUME NEW S, NEW T, IsFiniteSet(T), S \subseteq T, S # T
    PROVE  Cardinality(S) < Cardinality(T)
<1>1. Cardinality(S) \in Nat /\ Cardinality(T) \in Nat
  BY FS_Subset, FS_CardinalityType
<1>. QED
  BY <1>1, FS_Subset

(* The steps of the jobs can be counted.                                    *)
LEMMA AheadFinite == IsFiniteSet(Job \X (1 .. 5))
<1>1. IsFiniteSet(Job)
  BY JobsFinite
<1>2. IsFiniteSet(1 .. 5)
  <2>1. 1 \in Int /\ 5 \in Int
    OBVIOUS
  <2>. QED
    BY <2>1, FS_Interval
<1>. QED
  BY <1>1, <1>2, FS_Product

(* What is left is four numbers.                                            *)
LEMMA PhasesCounted == PhasesInv => PhasesLeft \in Nat \X Nat \X Nat \X Nat
<1>. SUFFICES ASSUME PhasesInv PROVE PhasesLeft \in Nat \X Nat \X Nat \X Nat
  OBVIOUS
<1>1. MainAhead[main] + CallerLeft \in Nat
  <2>1. MainAhead[main] \in Nat
    BY DEF PhasesInv, TypeOK, MainAhead
  <2>2. size \in Nat /\ next \in Nat /\ next <= size /\ caller \in {"spawning", "joining", "returned"}
    BY Facts, JobsFinite DEF PhasesInv, GroupInv, GroupTypeOK, CallerInv
  <2>3. CallerLeft \in Nat
    BY <2>2 DEF CallerLeft
  <2>. QED
    BY <2>1, <2>3
<1>2. Cardinality(Ahead) \in Nat
  <2>1. Ahead \subseteq Job \X (1 .. 5)
    BY DEF Ahead
  <2>. QED
    BY <2>1, AheadFinite, FS_Subset, FS_CardinalityType
<1>3. Cardinality(scan.todo) \in Nat
  <2>1. scan.todo \subseteq Procs
    BY DEF PhasesInv, TypeOK
  <2>. QED
    BY <2>1, PhasesAssumption, FS_Subset, FS_CardinalityType
<1>4. Count(thread, "arriving") \in Nat
  BY JobsFinite
<1>. QED
  BY <1>1, <1>2, <1>3, <1>4 DEF PhasesLeft

(* The caller and the command go on.                                        *)
LEMMA CallerGoesOn ==
    ASSUME PhasesInv, CallerStep \/ EndPhases \/ OpenReadWrite
    PROVE  Less(PhasesLeft', PhasesLeft)
<1>1. /\ size \in Nat /\ next \in Nat /\ next <= size
      /\ main \in {"inspecting", "opening", "opened", "reported", "failed"}
  BY Facts, JobsFinite DEF PhasesInv, TypeOK, GroupInv, GroupTypeOK, CallerInv
<1>2. CASE CallerStep
  <2>1. main' = main /\ MainAhead[main] \in Nat
    BY <1>1, <1>2 DEF CallerStep, unchangedOutsideGroup, MainAhead
  <2>2. CallerLeft' < CallerLeft /\ CallerLeft \in Nat /\ CallerLeft' \in Nat
    BY <1>1, <1>2 DEF CallerStep, Spawn, Join, Advance, CallerLeft
  <2>3. MainAhead[main]' + CallerLeft' < MainAhead[main] + CallerLeft
    BY <2>1, <2>2
  <2>. QED
    BY <2>3 DEF PhasesLeft, Less
<1>3. CASE EndPhases \/ OpenReadWrite
  <2>1. MainAhead[main]' < MainAhead[main] /\ MainAhead[main] \in Nat /\ MainAhead[main]' \in Nat
    BY <1>1, <1>3 DEF EndPhases, OpenReadWrite, MainAhead
  <2>2. CallerLeft' = CallerLeft /\ caller = "returned"
    BY <1>3 DEF EndPhases, OpenReadWrite, PhasesInv, MainInv, groupVars, CallerLeft
  <2>3. CallerLeft = 0
    BY <2>2 DEF CallerLeft
  <2>4. MainAhead[main]' + CallerLeft' < MainAhead[main] + CallerLeft
    BY <2>1, <2>2, <2>3
  <2>. QED
    BY <2>4 DEF PhasesLeft, Less
<1>. QED
  BY <1>2, <1>3

(* A job that has fewer steps ahead of it brings the command on, whomever   *)
(* it wakes and whatever it is about to scan.                               *)
LEMMA JobBringsOn ==
    ASSUME PhasesInv, NEW j \in Job, JobMoved(j), JobAhead(j)' < JobAhead(j)
    PROVE  Less(PhasesLeft', PhasesLeft)
<1>1. (MainAhead[main] + CallerLeft)' = MainAhead[main] + CallerLeft
  BY DEF JobMoved, CallerLeft
<1>2. \A k \in Job : JobAhead(k) \in 0 .. 5 /\ JobAhead(k)' \in 0 .. 5
  BY TypeFacts DEF JobAhead, StepAhead, JobMoved
<1>3. \A k \in Job \ {j} : JobAhead(k)' = JobAhead(k)
  BY DEF JobMoved, JobAhead
<1>4. \A k \in Job : JobAhead(k)' <= JobAhead(k)
  BY <1>2, <1>3
<1>5. Ahead' \subseteq Ahead
  <2>1. ASSUME NEW k \in Job, NEW n \in 1 .. 5, n <= JobAhead(k)' PROVE n <= JobAhead(k)
    BY <1>2, <1>4, <2>1
  <2>. QED
    BY <2>1 DEF Ahead
<1>6. <<j, JobAhead(j)>> \in Ahead /\ <<j, JobAhead(j)>> \notin Ahead'
  <2>1. JobAhead(j) \in 1 .. 5 /\ JobAhead(j) <= JobAhead(j) /\ ~(JobAhead(j) <= JobAhead(j)')
    BY <1>2
  <2>. QED
    BY <2>1 DEF Ahead
<1>7. IsFiniteSet(Ahead)
  <2>1. Ahead \subseteq Job \X (1 .. 5)
    BY DEF Ahead
  <2>. QED
    BY <2>1, AheadFinite, FS_Subset
<1>8. Cardinality(Ahead') < Cardinality(Ahead)
  BY <1>5, <1>6, <1>7, FewerLeft
<1>. QED
  BY <1>1, <1>8 DEF PhasesLeft, Less

(* The steps of a job, the scan of a process aside.                         *)
LEMMA JobGetsOn ==
    ASSUME PhasesInv, NEW j \in Job,
           \/ LookUp(j) \/ Insert(j) \/ ValidateSelectors(j)
           \/ \E outcome \in Outcomes : WorkOnAnchor(j, outcome)
           \/ StartScan(j) \/ CannotScan(j) \/ CannotAnchor(j) \/ FinishScan(j) \/ Panic(j)
    PROVE  JobAhead(j)' < JobAhead(j)
<1>. USE TypeFacts
<1>1. ASSUME NEW outcome \in Outcomes, End(j, outcome) PROVE JobAhead(j)' < JobAhead(j)
  <2>1. thread[j] = "running" /\ thread'[j] = "ended"
    BY <1>1, JobEnds
  <2>. QED
    BY <2>1 DEF JobAhead, StepAhead
<1>2. ASSUME NEW where \in DOMAIN StepAhead, GoTo(j, where), thread[j] = "running",
             StepAhead[where] < StepAhead[step[j]]
      PROVE  JobAhead(j)' < JobAhead(j)
  BY <1>2 DEF GoTo, groupVars, JobAhead, StepAhead
<1>3. ASSUME Unanchored(j), thread[j] = "running", step[j] \in {"start", "insert"}
      PROVE  JobAhead(j)' < JobAhead(j)
  BY <1>1, <1>2, <1>3 DEF Unanchored, StepAhead
<1>4. CASE LookUp(j)
  BY <1>2, <1>3, <1>4 DEF LookUp, At, Holding, StepAhead
<1>5. CASE Insert(j)
  BY <1>2, <1>3, <1>5 DEF Insert, At, Holding, StepAhead
<1>6. CASE \/ ValidateSelectors(j) \/ Panic(j) \/ CannotScan(j) \/ CannotAnchor(j) \/ FinishScan(j)
           \/ \E outcome \in Outcomes : WorkOnAnchor(j, outcome)
  <2>1. \E outcome \in Outcomes : End(j, outcome)
    BY <1>6 DEF ValidateSelectors, Panic, WorkOnAnchor, CannotScan, CannotAnchor, FinishScan, EndScan
  <2>. QED
    BY <1>1, <2>1
<1>7. CASE StartScan(j)
  BY <1>2, <1>7 DEF StartScan, At, StepAhead
<1>. QED
  BY <1>4, <1>5, <1>6, <1>7

(* A process is looked at once in a scan.                                   *)
LEMMA ScanGoesOn ==
    ASSUME PhasesInv, NEW j \in Job, NEW p \in Procs, ScanProcess(j, p)
    PROVE  Less(PhasesLeft', PhasesLeft)
<1>1. UNCHANGED <<main, size, caller, next, thread, step>>
  BY DEF ScanProcess, groupVars
<1>2. (MainAhead[main] + CallerLeft)' = MainAhead[main] + CallerLeft
  BY <1>1 DEF CallerLeft
<1>3. Cardinality(Ahead)' = Cardinality(Ahead)
  BY <1>1 DEF Ahead, JobAhead
<1>4. scan.todo \subseteq Procs /\ p \in scan.todo /\ scan'.todo = scan.todo \ {p}
  BY DEF PhasesInv, TypeOK, ScanProcess
<1>5. IsFiniteSet(scan.todo)
  BY <1>4, PhasesAssumption, FS_Subset
<1>6. Cardinality(scan'.todo) < Cardinality(scan.todo)
  BY <1>4, <1>5, FewerLeft
<1>. QED
  BY <1>2, <1>3, <1>6 DEF PhasesLeft, Less

(* A thread that asks for a permit gets one or waits, and while it waits it *)
(* takes no step.                                                           *)
LEMMA AcquireGoesOn ==
    ASSUME PhasesInv, NEW j \in Job, Acquire(j), UNCHANGED unchangedOutsideGroup
    PROVE  Less(PhasesLeft', PhasesLeft)
<1>. USE TypeFacts
<1>1. UNCHANGED <<main, size, caller, next, step, scan>>
  BY DEF Acquire, unchangedOutsideGroup, jobs
<1>2. (MainAhead[main] + CallerLeft)' = MainAhead[main] + CallerLeft
  BY <1>1 DEF CallerLeft
<1>3. /\ thread[j] = "arriving" /\ thread'[j] \in {"waiting", "running"}
      /\ \A k \in Job \ {j} : thread'[k] = thread[k]
  BY DEF Acquire, Whereabouts
<1>4. \A k \in Job : JobAhead(k)' = JobAhead(k)
  BY <1>1, <1>3 DEF JobAhead
<1>5. Cardinality(Ahead)' = Cardinality(Ahead)
  <2>1. \A p \in Job \X (1 .. 5) : JobAhead(p[1])' = JobAhead(p[1])
    BY <1>4
  <2>2. Ahead' = Ahead
    BY <2>1 DEF Ahead
  <2>. QED
    BY <2>2
<1>6. Count(thread', "arriving") < Count(thread, "arriving")
  <2>1. IsFiniteSet(Counted(thread, "arriving"))
    BY JobsFinite
  <2>2. /\ Counted(thread', "arriving") \subseteq Counted(thread, "arriving")
        /\ j \in Counted(thread, "arriving") /\ j \notin Counted(thread', "arriving")
    BY <1>3 DEF Counted
  <2>. QED
    BY <2>1, <2>2, FewerLeft DEF Count
<1>. QED
  BY <1>1, <1>2, <1>5, <1>6 DEF PhasesLeft, Less

(* A spurious wakeup adds one question for a permit and nothing else.       *)
LEMMA SpuriousWakeAddsNoWork ==
    ASSUME PhasesInv, NEW j \in Job, SpuriousWake(j), UNCHANGED unchangedOutsideGroup
    PROVE  \A n \in 1 .. 3 : PhasesLeft'[n] = PhasesLeft[n]
<1>. USE TypeFacts
<1>1. UNCHANGED <<main, size, caller, next, step, scan>>
  BY DEF SpuriousWake, unchangedOutsideGroup, jobs
<1>2. (MainAhead[main] + CallerLeft)' = MainAhead[main] + CallerLeft
  BY <1>1 DEF CallerLeft
<1>3. \A k \in Job : JobAhead(k)' = JobAhead(k)
  BY <1>1 DEF JobAhead, SpuriousWake, Whereabouts
<1>4. Cardinality(Ahead)' = Cardinality(Ahead)
  <2>1. \A p \in Job \X (1 .. 5) : JobAhead(p[1])' = JobAhead(p[1])
    BY <1>3
  <2>2. Ahead' = Ahead
    BY <2>1 DEF Ahead
  <2>. QED
    BY <2>2
<1>. QED
  BY <1>1, <1>2, <1>4 DEF PhasesLeft

(* The surroundings delay nothing.                                          *)
LEMMA DisturbanceAddsNothing ==
    ASSUME Disturbance
    PROVE  PhasesLeft' = PhasesLeft
<1>1. UNCHANGED <<main, size, caller, next, thread, step, scan>>
  BY DEF Disturbance, Retarget, Replace, Remove, OpenOrClose, Disturb, groupVars, jobs
<1>2. (MainAhead[main] + CallerLeft)' = MainAhead[main] + CallerLeft
  BY <1>1 DEF CallerLeft
<1>3. Ahead' = Ahead
  BY <1>1 DEF Ahead, JobAhead
<1>. QED
  BY <1>1, <1>2, <1>3 DEF PhasesLeft, Count, Counted

(* What the command itself does.                                            *)
CommandStep ==
    \/ CallerStep \/ EndPhases \/ OpenReadWrite
    \/ \E j \in Job : JobStep(j) \/ Panic(j) \/ (Acquire(j) /\ UNCHANGED unchangedOutsideGroup)

(* The phases cannot go on for ever (GroupReturns), with any number of jobs *)
(* and processes: every step of the caller, of a job and of a thread at the *)
(* gate, a panic included, lowers what is left; a file that is replaced, or *)
(* a process that comes and goes, adds nothing; and a thread that wakes for *)
(* no reason only asks for a permit once more (parallel.rs acquire, whose   *)
(* loop is repeated at no other occasion).                                  *)
THEOREM PhasesRunOut ==
    Spec => /\ [](PhasesLeft \in Nat \X Nat \X Nat \X Nat)
            /\ [][/\ CommandStep => Less(PhasesLeft', PhasesLeft)
                  /\ Disturbance => PhasesLeft' = PhasesLeft
                  /\ (\E j \in Job : SpuriousWake(j) /\ UNCHANGED unchangedOutsideGroup) =>
                         \A n \in 1 .. 3 : PhasesLeft'[n] = PhasesLeft[n]]_vars
<1>1. PhasesInv => PhasesLeft \in Nat \X Nat \X Nat \X Nat
  BY PhasesCounted
<1>2. ASSUME PhasesInv, CommandStep PROVE Less(PhasesLeft', PhasesLeft)
  <2>1. ASSUME NEW j \in Job, JobStep(j) \/ Panic(j) PROVE Less(PhasesLeft', PhasesLeft)
    <3>1. CASE \E p \in Procs : ScanProcess(j, p)
      BY <1>2, <3>1, ScanGoesOn
    <3>2. CASE ~\E p \in Procs : ScanProcess(j, p)
      <4>1. JobAhead(j)' < JobAhead(j)
        BY <1>2, <2>1, <3>2, JobGetsOn DEF JobStep
      <4>2. JobMoved(j)
        BY <1>2, <2>1, JobMoves DEF JobAction
      <4>. QED
        BY <1>2, <4>1, <4>2, JobBringsOn
    <3>. QED
      BY <3>1, <3>2
  <2>. QED
    BY <1>2, <2>1, CallerGoesOn, AcquireGoesOn DEF CommandStep
<1>3. PhasesInv /\ [Next]_vars =>
          [/\ CommandStep => Less(PhasesLeft', PhasesLeft)
           /\ Disturbance => PhasesLeft' = PhasesLeft
           /\ (\E j \in Job : SpuriousWake(j) /\ UNCHANGED unchangedOutsideGroup) =>
                  \A n \in 1 .. 3 : PhasesLeft'[n] = PhasesLeft[n]]_vars
  BY <1>2, DisturbanceAddsNothing, SpuriousWakeAddsNoWork
<1>. QED
  BY <1>1, <1>3, PhasesAlways, PTL DEF Spec
=============================================================================
