--------------------------- MODULE CleanOutcomeProofs ---------------------------
(* Theorems about what a CleanRun achieves: which sessions, projects, files *)
(* and snapshots are gone when it ends, compared with what it found, with   *)
(* what its preview showed and with what earlier runs had deleted.          *)
EXTENDS CleanRunProofs

USE DEF command, plan, loop, report, signal, history
USE DEF Steps, ReadOnlySteps, DeletionSteps, CleanupSteps, ReclaimSteps, Exits

BeforePlan    == {"inspect", "lock", "select"}
AfterDeletion == CleanupSteps \cup ReclaimSteps \cup {"report"}
Completed     == pc = "done" /\ exit \in {"ok", "partial"} /\ ~args.dryRun

(***************************************************************************)
(* The selection as a function of what the run found: the sessions the     *)
(* predicates and their subtrees select, the dangling sessions besides     *)
(* them, and all that a completed run deletes.                             *)
(***************************************************************************)

StartMatches == (IF args.aged THEN OlderThan(start, Boundary) ELSE start.rows) \cap args.matches
Chosen       == Selected(start, StartMatches, kept)
Strays       == (Dangling(start) \ kept) \ Chosen
Doomed       == Chosen \cup (IF args.orphans THEN Strays ELSE {})
Planned      == ~HasCycle(start) /\ kept = Retained(start, args.keep)

(* It stays the same while the run lasts.                                   *)
LEMMA PlanFrame ==
    ASSUME args' = args, start' = start, kept' = kept
    PROVE  /\ Chosen' = Chosen /\ Strays' = Strays /\ Doomed' = Doomed /\ Planned' = Planned
           /\ StartMatches' = StartMatches
<1>1. StartMatches' = StartMatches
  BY DEF StartMatches
<1>2. Chosen' = Chosen
  BY <1>1 DEF Chosen
<1>3. Strays' = Strays
  BY <1>2 DEF Strays
<1>. QED
  BY <1>1, <1>2, <1>3 DEF Doomed, Planned

(* What is selected are rows that are not retained.                         *)
LEMMA DoomedRows ==
    /\ Chosen \subseteq start.rows /\ Chosen \cap kept = {}
    /\ Strays \subseteq start.rows /\ Strays \cap kept = {} /\ Strays \cap Chosen = {}
    /\ Doomed \subseteq start.rows /\ Doomed \cap kept = {}
  BY SelectionTypes DEF Chosen, Selected, Strays, Doomed

(* The steps that plan the run or begin another.                            *)
LEMMA OnlyPlanningPlans ==
    ASSUME [Next]_vars, ~SelectSessions, ~Rerun
    PROVE  args' = args /\ start' = start /\ kept' = kept /\ run' = run
<1>. USE DEF Next, Work
<1>1. CASE \/ Inspect \/ AcquireLock \/ Preview \/ Confirm \/ CommitBatch \/ ReportBatch
           \/ EndLoop \/ SessionsDone \/ SelectOrphans \/ DanglingPass \/ OrphansDone
  BY <1>1 DEF Inspect, AcquireLock, Preview, Confirm, CommitBatch, ReportBatch, EndLoop,
              SessionsDone, SelectOrphans, DanglingPass, OrphansDone
<1>2. CASE \/ PruneProjects \/ CheckIntegrity \/ SweepThisRun \/ RemovePruned
           \/ SweepOrphans \/ CompactSnapshots \/ PostDeleteHeadroom \/ BeginReclaim
  BY <1>2 DEF PruneProjects, CheckIntegrity, SweepThisRun, RemovePruned, SweepOrphans,
              CompactSnapshots, PostDeleteHeadroom, BeginReclaim
<1>3. CASE \/ IncrementalVacuum \/ EnterSwap \/ LeaveSwap \/ EndRebuild \/ WriteReport
           \/ PhaseFails \/ NoteSignal \/ HandleSignal \/ Kill \/ UNCHANGED vars
  BY <1>3 DEF IncrementalVacuum, EnterSwap, LeaveSwap, EndRebuild, WriteReport, PhaseFails,
              NoteSignal, HandleSignal, Kill, vars
<1>. QED
  BY <1>1, <1>2, <1>3

(***************************************************************************)
(* The plan.  Nothing is changed before it, a dry run changes nothing at   *)
(* all, and what is planned is what the deletion begins with.              *)
(***************************************************************************)

PlanInv ==
    /\ PartOf(store, start)
    /\ pc \in ReadOnlySteps => store = start /\ phase = "sessions" /\ passes = 0
    /\ pc \in BeforePlan => kept = {}
    /\ pc \notin BeforePlan \cup {"done"} => Planned
    /\ pc = "done" => Planned \/ (store = start /\ kept = {})
    /\ pc \in {"preview", "confirm"} => purge = Chosen
    /\ args.dryRun => store = start /\ deleted = {} /\ pc \in BeforePlan \cup {"preview", "done"}

(* Where a step may go without changing the plan.                           *)
LEMMA PlanKeeps ==
    ASSUME PlanInv, args' = args, start' = start, kept' = kept,
           PartOf(store', start'), deleted' = deleted \/ ~args.dryRun,
           pc \notin ReadOnlySteps, pc' \notin ReadOnlySteps,
           store' = store \/ (~args.dryRun /\ pc # "done"),
           pc = "done" => pc' = "done",
           args.dryRun => pc' = pc
    PROVE  PlanInv'
<1>1. Planned' = Planned
  BY PlanFrame
<1>. QED
  BY <1>1 DEF PlanInv, BeforePlan

(* The steps before the deletion keep it.                                   *)
LEMMA PlanReadOnly ==
    TypeOK /\ PlanInv /\ (Inspect \/ AcquireLock \/ SelectSessions \/ Preview \/ Confirm)
      => PlanInv'
<1>. SUFFICES ASSUME TypeOK, PlanInv,
                     Inspect \/ AcquireLock \/ SelectSessions \/ Preview \/ Confirm
              PROVE  PlanInv'
  OBVIOUS
<1>. USE DEF PlanInv, BeforePlan, Goto, Finish, CheckBefore
<1>1. CASE Inspect \/ AcquireLock
  <2>1. UNCHANGED <<args, start, kept, store, phase, passes, deleted>> /\ store = start
    BY <1>1 DEF Inspect, AcquireLock
  <2>2. pc' \in {"lock", "select", "done"} /\ kept = {} /\ pc \in {"inspect", "lock"}
    BY <1>1 DEF Inspect, AcquireLock
  <2>. QED
    BY <2>1, <2>2
<1>2. CASE SelectSessions
  <2>1. UNCHANGED <<args, start, store, phase, passes, deleted>> /\ store = start /\ pc = "select"
    BY <1>2 DEF SelectSessions
  <2>2. CASE HasCycle(store)
    <3>1. pc' = "done" /\ kept' = kept /\ kept = {}
      BY <1>2, <2>1, <2>2 DEF SelectSessions
    <3>. QED
      BY <2>1, <3>1
  <2>3. CASE ~HasCycle(store)
    <3>1. /\ kept' = Retained(store, args.keep) /\ purge' = Selected(store, Matches, kept')
          /\ pc' = "preview"
      BY <1>2, <2>3 DEF SelectSessions
    <3>2. Matches = StartMatches'
      BY <2>1 DEF Matches, StartMatches
    <3>3. purge' = Chosen' /\ Planned'
      BY <2>1, <2>3, <3>1, <3>2 DEF Chosen, Planned
    <3>. QED
      BY <2>1, <3>1, <3>3
  <2>. QED
    BY <2>2, <2>3
<1>3. CASE Preview \/ Confirm
  <2>1. UNCHANGED <<args, start, kept, store, phase, passes, deleted, purge>>
    BY <1>3 DEF Preview, Confirm
  <2>2. pc \in {"preview", "confirm"} /\ pc' \in {"confirm", "batch", "done"}
    BY <1>3 DEF Preview, Confirm
  <2>3. args.dryRun => pc' = "done"
    BY <1>3 DEF Preview, Confirm
  <2>. QED
    BY <2>1, <2>2, <2>3, PlanFrame
<1>. QED
  BY <1>1, <1>2, <1>3

(* The deletion keeps it.                                                   *)
LEMMA PlanDeletion ==
    TypeOK /\ PlanInv
      /\ (CommitBatch \/ ReportBatch \/ EndLoop \/ SessionsDone \/ SelectOrphans \/ DanglingPass
            \/ OrphansDone)
      => PlanInv'
<1>. SUFFICES ASSUME TypeOK, PlanInv,
                     CommitBatch \/ ReportBatch \/ EndLoop \/ SessionsDone \/ SelectOrphans
                       \/ DanglingPass \/ OrphansDone
              PROVE  PlanInv'
  OBVIOUS
<1>1. /\ UNCHANGED <<args, start, kept>>
      /\ pc \in DeletionSteps
  BY DEF CommitBatch, ReportBatch, EndLoop, SessionsDone, SelectOrphans, DanglingPass, OrphansDone
<1>2. ~args.dryRun /\ PartOf(store, start)
  BY <1>1 DEF PlanInv, BeforePlan
<1>3. pc' \notin ReadOnlySteps
  BY DEF CommitBatch, ReportBatch, EndLoop, SessionsDone, SelectOrphans, DanglingPass, OrphansDone,
         AfterLoop, TypeOK, Goto, CheckThen, Interrupt, Finish
<1>4. PartOf(store', start')
  <2>1. CASE CommitBatch
    BY <2>1, <1>1, <1>2 DEF CommitBatch, PartOf, TypeOK, Store
  <2>2. CASE ~CommitBatch
    BY <2>2, <1>1, <1>2
       DEF ReportBatch, EndLoop, SessionsDone, SelectOrphans, DanglingPass, OrphansDone
  <2>. QED
    BY <2>1, <2>2
<1>. QED
  BY <1>1, <1>2, <1>3, <1>4, PlanKeeps

(* Everything behind it keeps it.                                           *)
LEMMA PlanCleanup ==
    TypeOK /\ PlanInv
      /\ (\/ PruneProjects \/ CheckIntegrity \/ SweepThisRun \/ RemovePruned \/ SweepOrphans
          \/ CompactSnapshots \/ PostDeleteHeadroom \/ BeginReclaim \/ IncrementalVacuum
          \/ EnterSwap \/ LeaveSwap \/ EndRebuild \/ WriteReport)
      => PlanInv'
<1>. SUFFICES ASSUME TypeOK, PlanInv,
                     \/ PruneProjects \/ CheckIntegrity \/ SweepThisRun \/ RemovePruned
                     \/ SweepOrphans \/ CompactSnapshots \/ PostDeleteHeadroom \/ BeginReclaim
                     \/ IncrementalVacuum \/ EnterSwap \/ LeaveSwap \/ EndRebuild \/ WriteReport
              PROVE  PlanInv'
  OBVIOUS
<1>1. /\ UNCHANGED <<args, start, kept, deleted>>
      /\ pc \in AfterDeletion
      /\ pc' \notin ReadOnlySteps
  <2>. USE DEF AfterDeletion, Goto, CheckThen, Interrupt, Finish
  <2>1. CASE \/ PruneProjects \/ CheckIntegrity \/ SweepThisRun \/ RemovePruned \/ SweepOrphans
    BY <2>1 DEF PruneProjects, CheckIntegrity, SweepThisRun, RemovePruned, SweepOrphans
  <2>2. CASE \/ CompactSnapshots \/ PostDeleteHeadroom \/ BeginReclaim \/ IncrementalVacuum
             \/ EnterSwap \/ LeaveSwap \/ EndRebuild \/ WriteReport
    BY <2>2 DEF CompactSnapshots, PostDeleteHeadroom, BeginReclaim, IncrementalVacuum, EnterSwap,
                LeaveSwap, EndRebuild, WriteReport
  <2>. QED
    BY <2>1, <2>2
<1>2. ~args.dryRun /\ PartOf(store, start)
  BY <1>1 DEF PlanInv, BeforePlan, AfterDeletion
<1>3. PartOf(store', start')
  <2>. USE <1>1, <1>2 DEF PartOf, TypeOK, Store
  <2>1. CASE PruneProjects
    BY <2>1 DEF PruneProjects
  <2>2. CASE SweepThisRun
    BY <2>2 DEF SweepThisRun
  <2>3. CASE RemovePruned
    BY <2>3 DEF RemovePruned
  <2>4. CASE SweepOrphans
    BY <2>4 DEF SweepOrphans
  <2>5. CASE ~(PruneProjects \/ SweepThisRun \/ RemovePruned \/ SweepOrphans)
    BY <2>5, BystanderFrame DEF Bystander
  <2>. QED
    BY <2>1, <2>2, <2>3, <2>4, <2>5
<1>4. pc # "done" /\ pc \notin ReadOnlySteps
  BY <1>1 DEF AfterDeletion
<1>. QED
  BY <1>1, <1>2, <1>3, <1>4, PlanKeeps

(* Failures, signals, kills and another run keep it.                        *)
LEMMA PlanFaults ==
    TypeOK /\ PlanInv /\ (PhaseFails \/ NoteSignal \/ HandleSignal \/ Kill \/ Rerun) => PlanInv'
<1>. SUFFICES ASSUME TypeOK, PlanInv, PhaseFails \/ NoteSignal \/ HandleSignal \/ Kill \/ Rerun
              PROVE  PlanInv'
  OBVIOUS
<1>1. CASE Rerun
  BY <1>1 DEF Rerun, PlanInv, PartOf, BeforePlan
<1>2. CASE PhaseFails \/ NoteSignal \/ HandleSignal \/ Kill
  <2>1. /\ UNCHANGED <<args, start, kept, deleted, store, phase, passes, purge>>
        /\ pc' = pc \/ pc' = "done"
    BY <1>2 DEF PhaseFails, NoteSignal, HandleSignal, Kill, Goto, Finish, Interrupt
  <2>. QED
    BY <2>1, PlanFrame DEF PlanInv, BeforePlan
<1>. QED
  BY <1>1, <1>2

(* Every step keeps the plan.                                               *)
LEMMA PlanStep == TypeOK /\ PlanInv /\ [Next]_vars => PlanInv'
<1>1. PlanInv /\ UNCHANGED vars => PlanInv'
  BY PlanFrame DEF PlanInv, vars
<1>. QED
  BY <1>1, PlanReadOnly, PlanDeletion, PlanCleanup, PlanFaults DEF Next, Work

(***************************************************************************)
(* The deletion of the selected sessions.  What is still to be purged and  *)
(* what is gone make up the selection.                                     *)
(***************************************************************************)

SessionsInv ==
    /\ phase = "sessions" /\ pc \in {"batch", "checkpoint", "sessions_done", "orphans"} =>
           purge \subseteq Chosen /\ store.rows = start.rows \ (Chosen \ purge) /\ passes = 0
    /\ pc = "sessions_done" => phase = "sessions" /\ (purge = {} \/ cancelled)
    /\ pc = "orphans" => phase = "sessions" /\ purge = {} /\ args.orphans

(* The steps that neither begin, advance nor end this deletion.             *)
LEMMA SessionsKeep ==
    ASSUME SessionsInv, args' = args, start' = start, kept' = kept,
           pc' \notin {"batch", "checkpoint", "sessions_done", "orphans"}
             \/ (pc' = pc /\ UNCHANGED <<phase, purge, passes, store>> /\ (cancelled => cancelled'))
    PROVE  SessionsInv'
<1>1. Chosen' = Chosen
  BY PlanFrame
<1>. QED
  BY <1>1 DEF SessionsInv

(* A batch takes away some of what is to be purged.                         *)
LEMMA BatchEffect ==
    ASSUME TypeOK, CommitBatch
    PROVE  \E ids \in SUBSET purge :
             /\ purge' = purge \ ids /\ store'.rows = store.rows \ ids
             /\ deleted' = deleted \cup (ids \cap store.rows)
             /\ pc = "batch" /\ pc' = "checkpoint"
             /\ store'.parent = store.parent /\ store'.owner = store.owner
             /\ store'.stamp = store.stamp /\ store'.projects = store.projects
             /\ store'.files = store.files /\ store'.snapshots = store.snapshots
             /\ UNCHANGED <<args, start, kept, preview, phase, candidates, passes, affected,
                            pruned, partial, cancelled, exit, run>>
<1>. DEFINE ids == LowestIds(purge, BatchSize)
<1>1. ids \in SUBSET purge
  BY DEF LowestIds
<1>2. /\ store' = [store EXCEPT !.rows = @ \ ids, !.events = @ \ ids]
      /\ purge' = purge \ ids
      /\ deleted' = deleted \cup (ids \cap store.rows)
      /\ pc = "batch" /\ pc' = "checkpoint"
      /\ UNCHANGED <<args, start, kept, preview, phase, candidates, passes, affected,
                     pruned, partial, cancelled, exit, run>>
  BY DEF CommitBatch, Goto
<1>. HIDE DEF ids
<1>3. /\ store'.rows = store.rows \ ids
      /\ store'.parent = store.parent /\ store'.owner = store.owner
      /\ store'.stamp = store.stamp /\ store'.projects = store.projects
      /\ store'.files = store.files /\ store'.snapshots = store.snapshots
  BY <1>2 DEF TypeOK, Store
<1>. QED
  BY <1>1, <1>2, <1>3

(* The steps up to the end of this deletion.                                *)
LEMMA SessionsEarly ==
    TypeOK /\ PlanInv /\ SessionsInv
      /\ (\/ Inspect \/ AcquireLock \/ SelectSessions \/ Preview \/ Confirm
          \/ CommitBatch \/ ReportBatch \/ EndLoop \/ SessionsDone)
      => SessionsInv'
<1>. SUFFICES ASSUME TypeOK, PlanInv, SessionsInv,
                     \/ Inspect \/ AcquireLock \/ SelectSessions \/ Preview \/ Confirm
                     \/ CommitBatch \/ ReportBatch \/ EndLoop \/ SessionsDone
              PROVE  SessionsInv'
  OBVIOUS
<1>1. CASE Inspect \/ AcquireLock \/ SelectSessions \/ Preview
  BY <1>1 DEF Inspect, AcquireLock, SelectSessions, Preview, SessionsInv, Goto, Finish, CheckBefore
<1>2. CASE Confirm
  <2>1. /\ store = start /\ phase = "sessions" /\ purge = Chosen /\ passes = 0
        /\ UNCHANGED <<args, start, kept, store, phase, purge, passes>>
        /\ pc' \in {"batch", "done"}
    BY <1>2 DEF Confirm, PlanInv, Goto, Finish, CheckBefore
  <2>2. Chosen' = Chosen
    BY <2>1, PlanFrame
  <2>. QED
    BY <2>1, <2>2 DEF SessionsInv
<1>3. CASE CommitBatch
  <2>1. PICK ids \in SUBSET purge :
            /\ purge' = purge \ ids /\ store'.rows = store.rows \ ids
            /\ pc = "batch" /\ pc' = "checkpoint"
            /\ UNCHANGED <<args, start, kept, phase, passes>>
    BY <1>3, BatchEffect
  <2>2. Chosen' = Chosen
    BY <2>1, PlanFrame
  <2>. QED
    BY <2>1, <2>2 DEF SessionsInv
<1>4. CASE ReportBatch \/ EndLoop
  <2>1. UNCHANGED <<args, start, kept, store, phase, purge, passes, cancelled>>
    BY <1>4 DEF ReportBatch, EndLoop
  <2>2. /\ pc \in {"batch", "checkpoint"}
        /\ pc' \in {"batch", "sessions_done", "orphans_done", "pass"}
        /\ pc' = "sessions_done" => phase = "sessions" /\ (purge = {} \/ cancelled)
    BY <1>4 DEF ReportBatch, EndLoop, Goto, AfterLoop, TypeOK
  <2>3. Chosen' = Chosen
    BY <2>1, PlanFrame
  <2>. QED
    BY <2>1, <2>2, <2>3 DEF SessionsInv
<1>5. CASE SessionsDone
  <2>1. UNCHANGED <<args, start, kept, store, phase, purge, passes, cancelled>>
    BY <1>5 DEF SessionsDone
  <2>2. /\ pc = "sessions_done" /\ pc' \in {"orphans", "prune", "done"}
        /\ pc' = "orphans" => ~cancelled /\ args.orphans
    BY <1>5 DEF SessionsDone, CheckThen, Goto, Interrupt, Finish
  <2>3. Chosen' = Chosen
    BY <2>1, PlanFrame
  <2>. QED
    BY <2>1, <2>2, <2>3 DEF SessionsInv
<1>. QED
  BY <1>1, <1>2, <1>3, <1>4, <1>5

(* Every step keeps it.                                                     *)
LEMMA SessionsStep == TypeOK /\ PlanInv /\ SessionsInv /\ [Next]_vars => SessionsInv'
<1>. SUFFICES ASSUME TypeOK, PlanInv, SessionsInv, [Next]_vars PROVE SessionsInv'
  OBVIOUS
<1>. USE DEF Goto, Finish, CheckThen, Interrupt
<1>1. CASE SelectOrphans
  BY <1>1 DEF SelectOrphans, SessionsInv
<1>2. CASE DanglingPass
  BY <1>2 DEF DanglingPass, SessionsInv
<1>3. CASE \/ OrphansDone \/ PruneProjects \/ CheckIntegrity \/ SweepThisRun \/ RemovePruned
           \/ SweepOrphans \/ CompactSnapshots \/ PostDeleteHeadroom
  BY <1>3 DEF OrphansDone, PruneProjects, CheckIntegrity, SweepThisRun, RemovePruned, SweepOrphans,
              CompactSnapshots, PostDeleteHeadroom, SessionsInv
<1>4. CASE \/ BeginReclaim \/ IncrementalVacuum \/ EnterSwap \/ LeaveSwap \/ EndRebuild
           \/ WriteReport
  BY <1>4 DEF BeginReclaim, IncrementalVacuum, EnterSwap, LeaveSwap, EndRebuild, WriteReport,
              SessionsInv
<1>5. CASE PhaseFails \/ Kill \/ Rerun
  BY <1>5 DEF PhaseFails, Kill, Rerun, SessionsInv
<1>6. CASE NoteSignal \/ HandleSignal \/ UNCHANGED vars
  <2>1. /\ UNCHANGED <<args, start, kept, phase, purge, passes, store>>
        /\ cancelled => cancelled'
        /\ pc' = pc \/ pc' = "done"
    BY <1>6 DEF NoteSignal, HandleSignal, vars
  <2>. QED
    BY <2>1, SessionsKeep
<1>. QED
  BY <1>1, <1>2, <1>3, <1>4, <1>5, <1>6, SessionsEarly DEF Next, Work

(***************************************************************************)
(* The deletion of the orphans.  It starts from the rest of the selection, *)
(* where retention and the dangling sessions are what they were; then each *)
(* stray is deleted, to be purged, a candidate or, after a signal,         *)
(* forgotten.                                                              *)
(***************************************************************************)

(* Where only the selected sessions are gone.                               *)
LEMMA RestOfSelection ==
    ASSUME TypeOK, PlanInv, Planned, store.rows = start.rows \ Chosen
    PROVE  /\ Retained(store, args.keep) = kept
           /\ Dangling(store) = Dangling(start) \ Chosen
<1>1. /\ start.rows \in SUBSET Ids /\ start.stamp \in [Ids -> Nat]
      /\ args.keep \in Nat /\ PartOf(store, start)
  BY CleanAssumption DEF TypeOK, Store, PlanInv
<1>2. WithParents(store, start)
  <2>. SUFFICES ASSUME NEW s \in store.rows, start.parent[s] \in start.rows
                PROVE  start.parent[s] \in store.rows
    BY DEF WithParents
  <2>1. Chosen = Selected(start, StartMatches, Retained(start, args.keep))
    BY DEF Chosen, Planned
  <2>2. start.parent[s] \notin Chosen
    BY <2>1, SelectedLeavesNoDangling
  <2>. QED
    BY <2>2
<1>3. kept \subseteq store.rows /\ kept = Retained(start, args.keep)
  BY DoomedRows, SelectionTypes DEF Planned
<1>4. Retained(store, args.keep) = kept
  BY <1>1, <1>2, <1>3, RetainedOfPart
<1>5. Dangling(store) = Dangling(start) \cap store.rows /\ Dangling(start) \subseteq start.rows
  BY <1>1, <1>2, DanglingOfPart, SelectionTypes
<1>. QED
  BY <1>4, <1>5

InOrphans == pc \in {"batch", "checkpoint", "pass", "orphans_done"} /\ phase # "sessions"

OrphansInv ==
    /\ phase # "sessions" => args.orphans
    /\ pc \in {"pass", "orphans_done"} => phase # "sessions"
    /\ InOrphans /\ phase = "events" =>
           /\ store.rows = start.rows \ Chosen
           /\ candidates = Strays /\ purge \cap start.rows \subseteq Chosen /\ passes = 0
    /\ InOrphans /\ phase = "dangling" =>
           /\ store.rows \cap Chosen = {}
           /\ start.rows \ store.rows \subseteq Chosen \cup Strays
           /\ candidates \cup purge \subseteq Strays
           /\ candidates \cap purge = {}
           /\ ~cancelled => Strays \cap store.rows = candidates \cup purge
           /\ ~cancelled /\ pc \in {"pass", "orphans_done"} => purge = {}

(* Outside of this deletion only its frame matters.                         *)
LEMMA OrphansFrame ==
    ASSUME OrphansInv, args' = args, start' = start, kept' = kept, phase' = phase,
           pc' \notin {"batch", "checkpoint", "pass", "orphans_done"}
             \/ (pc' = pc /\ UNCHANGED <<purge, candidates, passes, store>>
                   /\ (cancelled => cancelled'))
    PROVE  OrphansInv'
<1>1. Chosen' = Chosen /\ Strays' = Strays
  BY PlanFrame
<1>. QED
  BY <1>1 DEF OrphansInv, InOrphans

(* The deletion of both kinds.                                              *)
LEMMA OrphansDeletion ==
    TypeOK /\ PlanInv /\ SessionsInv /\ OrphansInv
      /\ (CommitBatch \/ ReportBatch \/ EndLoop \/ SelectOrphans \/ DanglingPass)
      => OrphansInv'
<1>. SUFFICES ASSUME TypeOK, PlanInv, SessionsInv, OrphansInv,
                     CommitBatch \/ ReportBatch \/ EndLoop \/ SelectOrphans \/ DanglingPass
              PROVE  OrphansInv'
  OBVIOUS
<1>1. UNCHANGED <<args, start, kept>> /\ Chosen' = Chosen /\ Strays' = Strays
  <2>1. UNCHANGED <<args, start, kept>>
    BY DEF CommitBatch, ReportBatch, EndLoop, SelectOrphans, DanglingPass
  <2>. QED
    BY <2>1, PlanFrame
<1>2. CASE CommitBatch
  <2>1. PICK ids \in SUBSET purge :
            /\ purge' = purge \ ids /\ store'.rows = store.rows \ ids
            /\ pc = "batch" /\ pc' = "checkpoint"
            /\ UNCHANGED <<phase, candidates, passes, cancelled>>
    BY <1>2, BatchEffect
  <2>2. CASE phase = "sessions"
    BY <1>1, <2>1, <2>2 DEF OrphansInv, InOrphans
  <2>3. CASE phase = "events"
    <3>1. /\ store.rows = start.rows \ Chosen
          /\ candidates = Strays /\ purge \cap start.rows \subseteq Chosen /\ passes = 0
      BY <2>1, <2>3 DEF OrphansInv, InOrphans
    <3>2. store'.rows = start.rows \ Chosen /\ purge' \cap start.rows \subseteq Chosen
      BY <2>1, <3>1
    <3>. QED
      BY <1>1, <2>1, <2>3, <3>1, <3>2 DEF OrphansInv, InOrphans
  <2>4. CASE phase = "dangling"
    <3>1. /\ store.rows \cap Chosen = {}
          /\ start.rows \ store.rows \subseteq Chosen \cup Strays
          /\ candidates \cup purge \subseteq Strays
          /\ candidates \cap purge = {}
          /\ ~cancelled => Strays \cap store.rows = candidates \cup purge
      BY <2>1, <2>4 DEF OrphansInv, InOrphans
    <3>2. /\ store'.rows \cap Chosen = {}
          /\ start.rows \ store'.rows \subseteq Chosen \cup Strays
          /\ candidates \cup purge' \subseteq Strays
          /\ candidates \cap purge' = {}
          /\ ~cancelled => Strays \cap store'.rows = candidates \cup purge'
      BY <2>1, <3>1
    <3>. QED
      BY <1>1, <2>1, <2>4, <3>2 DEF OrphansInv, InOrphans
  <2>. QED
    BY <2>2, <2>3, <2>4 DEF TypeOK
<1>3. CASE ReportBatch \/ EndLoop
  <2>1. UNCHANGED <<store, phase, purge, candidates, passes, cancelled>>
    BY <1>3 DEF ReportBatch, EndLoop
  <2>2. /\ pc \in {"batch", "checkpoint"}
        /\ pc' \in {"batch", "sessions_done", "orphans_done", "pass"}
        /\ pc' \in {"pass", "orphans_done"} => phase # "sessions" /\ (purge = {} \/ cancelled)
    BY <1>3 DEF ReportBatch, EndLoop, Goto, AfterLoop, TypeOK
  <2>. QED
    BY <1>1, <2>1, <2>2 DEF OrphansInv, InOrphans
<1>4. CASE SelectOrphans
  <2>1. /\ candidates' = Dangling(store) \ Retained(store, args.keep)
        /\ purge' = store.events \ store.rows /\ phase' = "events" /\ pc = "orphans"
        /\ pc' = "batch" /\ UNCHANGED <<store, passes>>
    BY <1>4 DEF SelectOrphans, Goto
  <2>2. /\ purge = {} /\ phase = "sessions" /\ passes = 0 /\ args.orphans
        /\ store.rows = start.rows \ Chosen
    BY <2>1 DEF SessionsInv
  <2>3. Planned
    BY <2>1 DEF PlanInv, BeforePlan
  <2>4. candidates' = Strays
    BY <2>1, <2>2, <2>3, RestOfSelection DEF Strays
  <2>. QED
    BY <1>1, <2>1, <2>2, <2>4 DEF OrphansInv, InOrphans
<1>5. CASE DanglingPass
  <2>. DEFINE current == {s \in candidates \cap store.rows :
                             store.parent[s] # NoParent /\ store.parent[s] \notin store.rows}
  <2>1. pc = "pass" /\ phase # "sessions" /\ UNCHANGED <<store, cancelled>>
    BY <1>5 DEF DanglingPass, OrphansInv
  <2>2. CASE passes = MaxPasses \/ current = {}
    <3>1. pc' = "orphans_done" /\ UNCHANGED <<purge, candidates, passes, phase>>
      BY <1>5, <2>2 DEF DanglingPass, Goto
    <3>. QED
      BY <1>1, <2>1, <3>1 DEF OrphansInv, InOrphans
  <2>3. CASE ~(passes = MaxPasses \/ current = {})
    <3>1. /\ purge' = current /\ phase' = "dangling" /\ candidates' = candidates \ current
          /\ pc' = "batch"
      BY <1>5, <2>3 DEF DanglingPass, Goto
    <3>2. current \subseteq candidates /\ candidates \subseteq Strays
      BY <2>1 DEF OrphansInv, InOrphans, TypeOK
    <3>3. /\ store.rows \cap Chosen = {}
          /\ start.rows \ store.rows \subseteq Chosen \cup Strays
          /\ ~cancelled => Strays \cap store.rows = candidates
      BY <2>1, DoomedRows DEF OrphansInv, InOrphans, TypeOK
    <3>. HIDE DEF current
    <3>. QED
      BY <1>1, <2>1, <3>1, <3>2, <3>3 DEF OrphansInv, InOrphans
  <2>. QED
    BY <2>2, <2>3
<1>. QED
  BY <1>2, <1>3, <1>4, <1>5

(* Every step keeps it.                                                     *)
LEMMA OrphansStep ==
    TypeOK /\ PlanInv /\ SessionsInv /\ OrphansInv /\ [Next]_vars => OrphansInv'
<1>. SUFFICES ASSUME TypeOK, PlanInv, SessionsInv, OrphansInv, [Next]_vars PROVE OrphansInv'
  OBVIOUS
<1>. USE DEF Goto, Finish, CheckBefore, CheckThen, Interrupt
<1>1. CASE SelectSessions \/ Rerun
  <2>1. phase' = "sessions" /\ pc' \notin {"pass", "orphans_done"}
    BY <1>1 DEF SelectSessions, Rerun, PlanInv
  <2>. QED
    BY <2>1 DEF OrphansInv, InOrphans
<1>2. CASE Inspect \/ AcquireLock \/ Preview \/ Confirm
  <2>1. phase = "sessions" /\ phase' = phase /\ pc' \notin {"pass", "orphans_done"}
    BY <1>2 DEF Inspect, AcquireLock, Preview, Confirm, PlanInv
  <2>. QED
    BY <1>2, <2>1 DEF OrphansInv, InOrphans
<1>3. CASE \/ SessionsDone \/ OrphansDone \/ PruneProjects \/ CheckIntegrity \/ SweepThisRun
           \/ RemovePruned \/ SweepOrphans \/ CompactSnapshots \/ PostDeleteHeadroom
  <2>1. /\ phase' = phase /\ UNCHANGED <<args, start, kept>>
        /\ pc' \notin {"batch", "checkpoint", "pass", "orphans_done"}
    BY <1>3 DEF SessionsDone, OrphansDone, PruneProjects, CheckIntegrity, SweepThisRun,
                RemovePruned, SweepOrphans, CompactSnapshots, PostDeleteHeadroom
  <2>. QED
    BY <2>1, OrphansFrame
<1>4. CASE \/ BeginReclaim \/ IncrementalVacuum \/ EnterSwap \/ LeaveSwap \/ EndRebuild
           \/ WriteReport \/ PhaseFails \/ Kill
  <2>1. /\ phase' = phase /\ UNCHANGED <<args, start, kept>>
        /\ pc' \notin {"batch", "checkpoint", "pass", "orphans_done"}
    BY <1>4 DEF BeginReclaim, IncrementalVacuum, EnterSwap, LeaveSwap, EndRebuild, WriteReport,
                PhaseFails, Kill
  <2>. QED
    BY <2>1, OrphansFrame
<1>5. CASE NoteSignal \/ HandleSignal \/ UNCHANGED vars
  <2>1. /\ UNCHANGED <<args, start, kept, phase, purge, candidates, passes, store>>
        /\ cancelled => cancelled'
        /\ pc' = pc \/ pc' = "done"
    BY <1>5 DEF NoteSignal, HandleSignal, vars
  <2>. QED
    BY <2>1, OrphansFrame
<1>. QED
  BY <1>1, <1>2, <1>3, <1>4, <1>5, OrphansDeletion DEF Next, Work

(***************************************************************************)
(* The passes.  Each takes at least one level of the dangling trees, so    *)
(* trees of up to MaxPasses levels are gone in the end; deeper ones are    *)
(* not, and what follows is stated for shallow trees.                      *)
(***************************************************************************)

(* A numbering of the dangling sessions by which a child follows its parent. *)
Levels(db, level) ==
    \A s \in Dangling(db) : db.parent[s] \in Dangling(db) => level[db.parent[s]] < level[s]

(* The dangling trees have at most MaxPasses levels.                        *)
Shallow(db) == \E level \in [Dangling(db) -> 1 .. MaxPasses] : Levels(db, level)

LevelInv ==
    \A level \in [Dangling(start) -> 1 .. MaxPasses] :
        Levels(start, level) /\ ~cancelled =>
            /\ InOrphans => \A s \in candidates : level[s] > passes
            /\ pc = "orphans_done" => candidates = {}

(* A dangling session has a parent, which dangles too unless it is missing. *)
LEMMA DanglingParents ==
    ASSUME NEW db, db.rows \in SUBSET Ids, NEW s \in Dangling(db)
    PROVE  /\ s \in db.rows /\ db.parent[s] # NoParent
           /\ db.parent[s] \in db.rows => db.parent[s] \in Dangling(db)
<1>. DEFINE top == {x \in Roots(db) : db.parent[x] # NoParent}
            C == {x \in Dangling(db) : db.parent[x] # NoParent}
<1>1. Dangling(db) = Subtree(db, top) /\ Dangling(db) \subseteq db.rows
  BY SelectionTypes DEF Dangling
<1>2. top \cap db.rows \subseteq C
  BY <1>1, SubtreeClosed
<1>3. ClosedUnderChildren(db, C)
  <2>. SUFFICES ASSUME NEW x \in db.rows, db.parent[x] \in C PROVE x \in C
    BY DEF ClosedUnderChildren
  <2>1. x \in Dangling(db)
    <3>1. ClosedUnderChildren(db, Dangling(db))
      BY SubtreeClosed DEF Dangling
    <3>. QED
      BY <3>1 DEF ClosedUnderChildren
  <2>2. db.parent[x] \in Ids
    BY <1>1
  <2>. QED
    BY <2>1, <2>2, IdsAssumption
<1>4. Dangling(db) \subseteq C
  <2>1. C \in SUBSET db.rows
    BY <1>1
  <2>. QED
    BY <1>1, <1>2, <1>3, <2>1, SubtreeLeast
<1>5. top \subseteq Roots(db)
  OBVIOUS
<1>. QED
  BY <1>1, <1>4, <1>5, TreesWhole

(* What a pass leaves for the next one has its parent among the candidates. *)
LEMMA LeftHaveParents ==
    ASSUME TypeOK, PlanInv, OrphansInv, pc = "pass", ~cancelled,
           NEW s \in candidates,
           ~(s \in store.rows /\ store.parent[s] # NoParent /\ store.parent[s] \notin store.rows)
    PROVE  s \in Dangling(start) /\ start.parent[s] \in candidates
<1>. DEFINE p == start.parent[s]
<1>1. phase \in {"events", "dangling"} /\ InOrphans
  BY DEF OrphansInv, InOrphans, TypeOK
<1>2. /\ Planned /\ store.parent = start.parent /\ store.rows \subseteq start.rows
      /\ start.rows \in SUBSET Ids
  BY DEF PlanInv, BeforePlan, PartOf, TypeOK, Store
<1>3. candidates \subseteq Strays /\ Strays \cap store.rows = candidates /\ store.rows \cap Chosen = {}
  BY <1>1, DoomedRows DEF OrphansInv
<1>4. s \in Dangling(start) /\ s \notin kept /\ s \in store.rows
  BY <1>3 DEF Strays
<1>5. p # NoParent /\ s \in start.rows /\ (p \in start.rows => p \in Dangling(start))
  BY <1>2, <1>4, DanglingParents
<1>6. p \in store.rows
  BY <1>2, <1>4, <1>5
<1>7. p \notin kept
  BY <1>2, <1>4, <1>5, RetainedWhole DEF Planned, ClosedUnderChildren
<1>. QED
  BY <1>2, <1>3, <1>4, <1>5, <1>6, <1>7 DEF Strays

(* A pass takes a level.                                                    *)
LEMMA PassTakesLevel ==
    TypeOK /\ PlanInv /\ OrphansInv /\ LevelInv /\ DanglingPass => LevelInv'
<1>. SUFFICES ASSUME TypeOK, PlanInv, OrphansInv, LevelInv, DanglingPass,
                     NEW level \in [Dangling(start) -> 1 .. MaxPasses],
                     Levels(start, level), ~cancelled
              PROVE  /\ InOrphans' => \A s \in candidates' : level[s] > passes'
                     /\ pc' = "orphans_done" => candidates' = {}
  BY DEF LevelInv, DanglingPass
<1>. DEFINE current == {s \in candidates \cap store.rows :
                           store.parent[s] # NoParent /\ store.parent[s] \notin store.rows}
<1>1. pc = "pass" /\ InOrphans
  BY DEF DanglingPass, OrphansInv, InOrphans
<1>2. \A s \in candidates \ current : s \in Dangling(start) /\ start.parent[s] \in candidates
  BY <1>1, LeftHaveParents
<1>3. candidates \subseteq Dangling(start)
  <2>1. candidates \subseteq Strays
    BY <1>1 DEF OrphansInv, InOrphans, TypeOK
  <2>. QED
    BY <2>1 DEF Strays
<1>4. \A s \in candidates : level[s] \in 1 .. MaxPasses /\ level[s] > passes
  BY <1>1, <1>3 DEF LevelInv
<1>5. CASE passes = MaxPasses \/ current = {}
  <2>1. pc' = "orphans_done" /\ UNCHANGED <<candidates, passes>>
    BY <1>5 DEF DanglingPass, Goto
  <2>2. candidates = {}
    <3>1. CASE passes = MaxPasses
      BY <3>1, <1>4, CleanAssumption
    <3>2. CASE current = {}
      <4>1. ~HasCycle(start)
        BY <1>1 DEF PlanInv, BeforePlan, Planned
      <4>2. candidates \in SUBSET start.rows
        BY <1>3, SelectionTypes
      <4>3. \A s \in candidates : start.parent[s] \in candidates
        BY <1>2, <3>2
      <4>. HIDE DEF current
      <4>. QED
        BY <4>1, <4>2, <4>3 DEF HasCycle
    <3>. QED
      BY <1>5, <3>1, <3>2
  <2>. QED
    BY <2>1, <2>2
<1>6. CASE ~(passes = MaxPasses \/ current = {})
  <2>1. pc' = "batch" /\ candidates' = candidates \ current /\ passes' = passes + 1
    BY <1>6 DEF DanglingPass, Goto
  <2>2. ASSUME NEW s \in candidates \ current PROVE level[s] > passes + 1
    <3>. DEFINE p == start.parent[s]
    <3>1. p \in candidates /\ s \in candidates
      BY <1>2, <2>2
    <3>2. level[p] < level[s]
      BY <1>3, <3>1 DEF Levels
    <3>3. level[p] > passes /\ level[p] \in Nat /\ level[s] \in Nat /\ passes \in Nat
      BY <1>4, <3>1 DEF TypeOK
    <3>. QED
      BY <3>2, <3>3
  <2>. HIDE DEF current
  <2>. QED
    BY <2>1, <2>2
<1>. QED
  BY <1>5, <1>6

(* Every step keeps the levels.                                             *)
LEMMA LevelStep ==
    TypeOK /\ PlanInv /\ SessionsInv /\ OrphansInv /\ LevelInv /\ [Next]_vars => LevelInv'
<1>. SUFFICES ASSUME TypeOK, PlanInv, SessionsInv, OrphansInv, LevelInv, [Next]_vars
              PROVE  LevelInv'
  OBVIOUS
<1>. USE DEF Goto, Finish, CheckBefore, CheckThen, Interrupt
<1>1. CASE SelectSessions \/ Rerun
  BY <1>1 DEF SelectSessions, Rerun, LevelInv, InOrphans
<1>2. CASE Inspect \/ AcquireLock \/ Preview \/ Confirm
  BY <1>2 DEF Inspect, AcquireLock, Preview, Confirm, PlanInv, LevelInv, InOrphans
<1>3. CASE SelectOrphans
  <2>1. /\ start' = start /\ passes' = 0 /\ pc' = "batch"
    BY <1>3 DEF SelectOrphans, SessionsInv
  <2>2. candidates' \subseteq Dangling(start)
    <3>1. OrphansInv' /\ phase' = "events"
      BY <1>3, OrphansStep DEF SelectOrphans
    <3>2. candidates' = Strays'
      BY <2>1, <3>1 DEF OrphansInv, InOrphans
    <3>. QED
      BY <2>1, <3>2 DEF Strays
  <2>3. \A level \in [Dangling(start) -> 1 .. MaxPasses] : \A s \in candidates' : level[s] > 0
    <3>. TAKE level \in [Dangling(start) -> 1 .. MaxPasses]
    <3>. TAKE s \in candidates'
    <3>1. level[s] \in 1 .. MaxPasses
      BY <2>2
    <3>. QED
      BY <3>1, CleanAssumption
  <2>. QED
    BY <2>1, <2>3 DEF LevelInv
<1>4. CASE CommitBatch
  <2>1. UNCHANGED <<start, candidates, passes, phase, cancelled>> /\ pc = "batch" /\ pc' = "checkpoint"
    BY <1>4, BatchEffect
  <2>. QED
    BY <2>1 DEF LevelInv, InOrphans
<1>5. CASE ReportBatch \/ EndLoop
  <2>1. UNCHANGED <<start, candidates, passes, phase, cancelled>> /\ pc \in {"batch", "checkpoint"}
    BY <1>5 DEF ReportBatch, EndLoop
  <2>2. pc' = "orphans_done" => cancelled
    BY <1>5 DEF ReportBatch, EndLoop, AfterLoop, TypeOK
  <2>. QED
    BY <2>1, <2>2 DEF LevelInv, InOrphans
<1>6. CASE \/ SessionsDone \/ OrphansDone \/ PruneProjects \/ CheckIntegrity \/ SweepThisRun
           \/ RemovePruned \/ SweepOrphans \/ CompactSnapshots \/ PostDeleteHeadroom
  <2>1. pc' \notin {"batch", "checkpoint", "pass", "orphans_done"}
    BY <1>6 DEF SessionsDone, OrphansDone, PruneProjects, CheckIntegrity, SweepThisRun,
                RemovePruned, SweepOrphans, CompactSnapshots, PostDeleteHeadroom
  <2>. QED
    BY <2>1 DEF LevelInv, InOrphans
<1>7. CASE \/ BeginReclaim \/ IncrementalVacuum \/ EnterSwap \/ LeaveSwap \/ EndRebuild
           \/ WriteReport \/ PhaseFails \/ Kill
  <2>1. pc' \notin {"batch", "checkpoint", "pass", "orphans_done"}
    BY <1>7 DEF BeginReclaim, IncrementalVacuum, EnterSwap, LeaveSwap, EndRebuild, WriteReport,
                PhaseFails, Kill
  <2>. QED
    BY <2>1 DEF LevelInv, InOrphans
<1>8. CASE NoteSignal \/ HandleSignal \/ UNCHANGED vars
  <2>1. /\ UNCHANGED <<start, phase, candidates, passes>>
        /\ cancelled => cancelled'
        /\ pc' = pc \/ pc' = "done"
    BY <1>8 DEF NoteSignal, HandleSignal, vars
  <2>. QED
    BY <2>1 DEF LevelInv, InOrphans
<1>. QED
  BY <1>1, <1>2, <1>3, <1>4, <1>5, <1>6, <1>7, <1>8, PassTakesLevel DEF Next, Work

(***************************************************************************)
(* The outcome.  Only what is doomed goes, at any moment; whoever passes   *)
(* the deletion without a signal has deleted all of it.                    *)
(***************************************************************************)

OutcomeInv ==
    /\ start.rows \ store.rows \subseteq Doomed
    /\ (pc \in AfterDeletion \/ Completed) /\ (args.orphans => Shallow(start)) =>
           store.rows = start.rows \ Doomed

(* Only a batch deletes sessions.                                           *)
LEMMA RowsFrame ==
    ASSUME TypeOK, [Next]_vars, ~CommitBatch
    PROVE  /\ store'.rows = store.rows /\ store'.parent = store.parent
           /\ store'.owner = store.owner /\ store'.stamp = store.stamp
           /\ deleted' = deleted
<1>. USE DEF TypeOK, Store
<1>1. CASE PruneProjects
  BY <1>1 DEF PruneProjects
<1>2. CASE SweepThisRun
  BY <1>2 DEF SweepThisRun
<1>3. CASE RemovePruned
  BY <1>3 DEF RemovePruned
<1>4. CASE SweepOrphans
  BY <1>4 DEF SweepOrphans
<1>5. CASE \/ Inspect \/ AcquireLock \/ SelectSessions \/ Preview \/ Confirm \/ ReportBatch
           \/ EndLoop \/ SessionsDone \/ SelectOrphans \/ DanglingPass \/ OrphansDone
  BY <1>5 DEF Inspect, AcquireLock, SelectSessions, Preview, Confirm, ReportBatch, EndLoop,
              SessionsDone, SelectOrphans, DanglingPass, OrphansDone
<1>6. CASE \/ CheckIntegrity \/ CompactSnapshots \/ PostDeleteHeadroom \/ BeginReclaim
           \/ IncrementalVacuum \/ EnterSwap \/ LeaveSwap \/ EndRebuild \/ WriteReport
  BY <1>6 DEF CheckIntegrity, CompactSnapshots, PostDeleteHeadroom, BeginReclaim,
              IncrementalVacuum, EnterSwap, LeaveSwap, EndRebuild, WriteReport
<1>7. CASE PhaseFails \/ NoteSignal \/ HandleSignal \/ Kill \/ Rerun \/ UNCHANGED vars
  BY <1>7 DEF PhaseFails, NoteSignal, HandleSignal, Kill, Rerun, vars
<1>. QED
  BY <1>1, <1>2, <1>3, <1>4, <1>5, <1>6, <1>7 DEF Next, Work

(* The deletion is passed by its two checks only.                           *)
LEMMA AfterEntered ==
    ASSUME TypeOK, PlanInv, [Next]_vars, (pc \in AfterDeletion \/ Completed)'
    PROVE  \/ pc \in AfterDeletion \/ Completed
           \/ /\ pc' = "prune" /\ ~cancelled
              /\ \/ pc = "sessions_done" /\ SessionsDone /\ ~args.orphans
                 \/ pc = "orphans_done" /\ OrphansDone
<1>. USE DEF AfterDeletion, Completed, Goto, Finish, CheckBefore, CheckThen, Interrupt
<1>1. CASE Inspect \/ AcquireLock \/ SelectSessions \/ Preview \/ Confirm
  BY <1>1 DEF Inspect, AcquireLock, SelectSessions, Preview, Confirm
<1>2. CASE CommitBatch \/ ReportBatch \/ EndLoop \/ SelectOrphans \/ DanglingPass
  BY <1>2 DEF CommitBatch, ReportBatch, EndLoop, SelectOrphans, DanglingPass, AfterLoop, TypeOK
<1>3. CASE SessionsDone \/ OrphansDone
  BY <1>3 DEF SessionsDone, OrphansDone
<1>4. CASE \/ PruneProjects \/ CheckIntegrity \/ SweepThisRun \/ RemovePruned
           \/ SweepOrphans \/ CompactSnapshots \/ PostDeleteHeadroom \/ BeginReclaim
  BY <1>4 DEF PruneProjects, CheckIntegrity, SweepThisRun, RemovePruned, SweepOrphans,
              CompactSnapshots, PostDeleteHeadroom, BeginReclaim
<1>5. CASE \/ IncrementalVacuum \/ EnterSwap \/ LeaveSwap \/ EndRebuild \/ WriteReport
  BY <1>5 DEF IncrementalVacuum, EnterSwap, LeaveSwap, EndRebuild, WriteReport
<1>6. CASE PhaseFails \/ NoteSignal \/ HandleSignal \/ Kill \/ Rerun
  BY <1>6 DEF PhaseFails, NoteSignal, HandleSignal, Kill, Rerun
<1>7. CASE UNCHANGED vars
  BY <1>7 DEF vars
<1>. QED
  BY <1>1, <1>2, <1>3, <1>4, <1>5, <1>6, <1>7 DEF Next, Work

(* The levels are used up.                                                  *)
LEMMA OrphansAllGone ==
    ASSUME TypeOK, OrphansInv, LevelInv, pc = "orphans_done", ~cancelled, Shallow(start)
    PROVE  store.rows = start.rows \ (Chosen \cup Strays) \/ ~(store.rows \subseteq start.rows)
<1>1. PICK level \in [Dangling(start) -> 1 .. MaxPasses] : Levels(start, level)
  BY DEF Shallow
<1>2. candidates = {}
  BY <1>1 DEF LevelInv
<1>3. InOrphans /\ phase \in {"events", "dangling"}
  BY DEF OrphansInv, InOrphans, TypeOK
<1>. QED
  BY <1>2, <1>3 DEF OrphansInv

(* Every step keeps the outcome.                                            *)
LEMMA OutcomeStep ==
    TypeOK /\ PlanInv /\ SessionsInv /\ OrphansInv /\ LevelInv /\ OutcomeInv /\ [Next]_vars
      => OutcomeInv'
<1>. SUFFICES ASSUME TypeOK, PlanInv, SessionsInv, OrphansInv, LevelInv, OutcomeInv, [Next]_vars
              PROVE  OutcomeInv'
  OBVIOUS
<1>1. CASE SelectSessions \/ Rerun
  <2>1. store'.rows = start'.rows /\ ~(pc \in AfterDeletion \/ Completed)'
    BY <1>1 DEF SelectSessions, Rerun, PlanInv, Goto, Finish, AfterDeletion, Completed
  <2>. QED
    BY <2>1 DEF OutcomeInv
<1>2. CASE CommitBatch
  <2>1. PICK ids \in SUBSET purge :
            /\ store'.rows = store.rows \ ids /\ pc = "batch" /\ pc' = "checkpoint"
            /\ UNCHANGED <<args, start, kept>>
    BY <1>2, BatchEffect
  <2>2. purge \cap start.rows \subseteq Doomed
    <3>1. CASE phase = "sessions"
      BY <2>1, <3>1 DEF SessionsInv, Doomed
    <3>2. CASE phase = "events"
      BY <2>1, <3>2 DEF OrphansInv, InOrphans, Doomed
    <3>3. CASE phase = "dangling"
      BY <2>1, <3>3 DEF OrphansInv, InOrphans, Doomed
    <3>. QED
      BY <3>1, <3>2, <3>3 DEF TypeOK
  <2>3. Doomed' = Doomed
    BY <2>1, PlanFrame
  <2>4. ~(pc \in AfterDeletion \/ Completed)'
    BY <2>1 DEF AfterDeletion, Completed
  <2>. QED
    BY <2>1, <2>2, <2>3, <2>4 DEF OutcomeInv
<1>3. CASE ~(SelectSessions \/ Rerun \/ CommitBatch)
  <2>1. UNCHANGED <<args, start, kept>> /\ store'.rows = store.rows
    BY <1>3, OnlyPlanningPlans, RowsFrame
  <2>2. Doomed' = Doomed
    BY <2>1, PlanFrame
  <2>3. ASSUME (pc \in AfterDeletion \/ Completed)', args.orphans => Shallow(start)
        PROVE  store.rows = start.rows \ Doomed
    <3>1. CASE pc \in AfterDeletion \/ Completed
      BY <2>3, <3>1 DEF OutcomeInv
    <3>2. CASE pc = "sessions_done" /\ ~cancelled /\ ~args.orphans
      BY <3>2 DEF SessionsInv, Doomed
    <3>3. CASE pc = "orphans_done" /\ ~cancelled
      <4>1. args.orphans /\ store.rows \subseteq start.rows
        BY <3>3 DEF OrphansInv, PlanInv, PartOf
      <4>. QED
        BY <2>3, <3>3, <4>1, OrphansAllGone DEF Doomed
    <3>. QED
      BY <2>3, <3>1, <3>2, <3>3, AfterEntered
  <2>. QED
    BY <2>1, <2>2, <2>3 DEF OutcomeInv
<1>. QED
  BY <1>1, <1>2, <1>3

(* All invariants of the run together.                                      *)
CleanInv ==
    TypeOK /\ ReportInv /\ PlanInv /\ SessionsInv /\ OrphansInv /\ LevelInv /\ OutcomeInv

(* They hold in the beginning.                                              *)
LEMMA CleanInvInit == Init => CleanInv
<1>. SUFFICES ASSUME Init PROVE CleanInv
  OBVIOUS
<1>1. TypeOK /\ ReportInv
  BY TypeInit DEF Init, ReportInv, Unreported
<1>2. /\ pc = "inspect" /\ store = start /\ phase = "sessions" /\ passes = 0 /\ kept = {}
      /\ deleted = {}
  BY DEF Init
<1>3. PlanInv
  BY <1>2 DEF PlanInv, PartOf, BeforePlan
<1>4. SessionsInv /\ OrphansInv /\ LevelInv
  BY <1>2 DEF SessionsInv, OrphansInv, LevelInv, InOrphans
<1>5. OutcomeInv
  BY <1>2 DEF OutcomeInv, AfterDeletion, Completed
<1>. QED
  BY <1>1, <1>3, <1>4, <1>5 DEF CleanInv

(* The inductive invariant of a run.                                        *)
THEOREM CleanInvariant == Spec => []CleanInv
<1>1. CleanInv /\ [Next]_vars => CleanInv'
  BY TypeStep, ReportStep, PlanStep, SessionsStep, OrphansStep, LevelStep, OutcomeStep DEF CleanInv
<1>. QED
  BY <1>1, CleanInvInit, PTL DEF Spec

(***************************************************************************)
(* What follows for the sessions.                                          *)
(***************************************************************************)

(* Hard retention: whatever fails or is interrupted, the retained trees     *)
(* stay, with their files and events.                                       *)
THEOREM RetentionHolds == Spec => []RetainedSurvive
<1>1. CleanInv /\ LiveKeepTheirData => RetainedSurvive
  <2>. SUFFICES ASSUME CleanInv, LiveKeepTheirData PROVE RetainedSurvive
    OBVIOUS
  <2>1. kept \subseteq start.rows
    BY SelectionTypes DEF CleanInv, PlanInv, Planned, BeforePlan
  <2>2. kept \subseteq store.rows
    BY <2>1, DoomedRows DEF CleanInv, OutcomeInv
  <2>. QED
    BY <2>2 DEF RetainedSurvive, LiveKeepTheirData
<1>. QED
  BY <1>1, CleanInvariant, LiveDataStays, PTL

(* The retention set computed for the orphans is the one of the selection.  *)
THEOREM RetentionIsStable == Spec => []RetentionStable
<1>1. CleanInv => RetentionStable
  <2>. SUFFICES ASSUME CleanInv, pc = "orphans" PROVE Retained(store, args.keep) = kept
    BY DEF RetentionStable
  <2>1. Planned /\ store.rows = start.rows \ Chosen
    BY DEF CleanInv, PlanInv, BeforePlan, SessionsInv
  <2>. QED
    BY <2>1, RestOfSelection DEF CleanInv
<1>. QED
  BY <1>1, CleanInvariant, PTL

(* With --older-than all that is selected is that old.                      *)
LEMMA ChosenAreOld ==
    ASSUME TypeOK, args.aged
    PROVE  Chosen \subseteq OlderThan(start, Boundary)
<1>. DEFINE old == OlderThan(start, Boundary)
<1>1. start.rows \in SUBSET Ids /\ start.stamp \in [Ids -> Nat] /\ Boundary \in Nat
  BY CleanAssumption DEF TypeOK, Store
<1>2. (StartMatches \ kept) \cap start.rows \subseteq old
  BY DEF StartMatches
<1>3. old \in SUBSET start.rows
  BY DEF OlderThan
<1>. HIDE DEF old
<1>4. Subtree(start, StartMatches \ kept) \subseteq old
  BY <1>1, <1>2, <1>3, OlderThanClosed, SubtreeLeast DEF old
<1>. QED
  BY <1>4 DEF Chosen, Selected, old

(* --older-than alone reaches only sessions untouched since, also through   *)
(* the expansion to descendants and when the run ends early.                *)
THEOREM OnlyInactiveGo == Spec => []OnlyInactiveDeleted
<1>1. CleanInv => OnlyInactiveDeleted
  <2>. SUFFICES ASSUME CleanInv, args.aged, ~args.orphans,
                       NEW s \in start.rows \ store.rows
                PROVE  start.stamp[s] <= Boundary
    BY DEF OnlyInactiveDeleted
  <2>1. start.rows \in SUBSET Ids /\ start.stamp \in [Ids -> Nat] /\ Boundary \in Nat
    BY CleanAssumption DEF CleanInv, TypeOK, Store
  <2>2. s \in OlderThan(start, Boundary)
    BY ChosenAreOld DEF CleanInv, OutcomeInv, Doomed
  <2>3. EffectiveTime(start, s) <= Boundary /\ EffectiveTime(start, s) \in Nat
    BY <2>1, <2>2, EffectiveTimeIsLatest DEF OlderThan
  <2>4. start.stamp[s] <= EffectiveTime(start, s) /\ start.stamp[s] \in Nat
    BY <2>1, EffectiveTimeIsLatest, SubtreeOfOne
  <2>. QED
    BY <2>1, <2>3, <2>4
<1>. QED
  BY <1>1, CleanInvariant, PTL

(* A run that completes leaves no session whose parent it deleted, unless   *)
(* the orphan deletion met its bound: neither the selection, which takes    *)
(* whole subtrees but for the retained trees, nor the dangling sessions     *)
(* leave a child behind.                                                    *)
THEOREM NoNewDanglingLeft ==
    Spec => []((args.orphans => Shallow(start)) => NoNewDangling)
<1>1. CleanInv => ((args.orphans => Shallow(start)) => NoNewDangling)
  <2>. SUFFICES ASSUME CleanInv, args.orphans => Shallow(start),
                       pc = "done", exit \in {"ok", "partial"},
                       NEW s \in store.rows, store.parent[s] \in start.rows
                PROVE  store.parent[s] \in store.rows
    BY DEF NoNewDangling
  <2>. DEFINE p == store.parent[s]
  <2>1. PartOf(store, start)
    BY DEF CleanInv, PlanInv
  <2>2. CASE store = start
    BY <2>2
  <2>3. CASE store # start
    <3>1. Planned /\ store.rows = start.rows \ Doomed
      BY <2>3 DEF CleanInv, PlanInv, OutcomeInv, Completed
    <3>2. s \in start.rows /\ p = start.parent[s] /\ s \notin Doomed
      BY <2>1, <3>1 DEF PartOf
    <3>3. p \notin Chosen
      <4>1. s \in start.rows \ Selected(start, StartMatches, Retained(start, args.keep))
        BY <3>1, <3>2 DEF Doomed, Chosen, Planned
      <4>2. p \notin Selected(start, StartMatches, Retained(start, args.keep))
        BY <3>2, <4>1, SelectedLeavesNoDangling
      <4>. QED
        BY <3>1, <4>2 DEF Chosen, Planned
    <3>4. ASSUME args.orphans, p \in Strays PROVE FALSE
      <4>1. s \in Dangling(start)
        <5>1. ClosedUnderChildren(start, Dangling(start))
          BY SubtreeClosed DEF Dangling
        <5>. QED
          BY <3>2, <3>4, <5>1 DEF Strays, ClosedUnderChildren
      <4>2. s \in kept
        BY <3>2, <3>4, <4>1 DEF Doomed, Strays
      <4>3. p \in kept
        BY <3>1, <3>2, <4>2, RetainedWhole DEF Planned
      <4>. QED
        BY <3>4, <4>3 DEF Strays
    <3>. QED
      BY <3>1, <3>2, <3>3, <3>4 DEF Doomed
  <2>. QED
    BY <2>2, <2>3
<1>. QED
  BY <1>1, CleanInvariant, PTL

(***************************************************************************)
(* Signals.  Within a run the flag is never reset, and behind every phase  *)
(* up to the removal of the snapshots it is read.                          *)
(***************************************************************************)

Noted ==
    /\ cancelled
    /\ \/ pc \in DeletionSteps \cup {"prune", "integrity", "sweep", "remove_pruned"}
       \/ pc = "done" /\ exit \notin {"ok", "partial"}

(* A noted signal stays noted until the run is over.                        *)
LEMMA NotedStep == TypeOK /\ Noted /\ [Next]_vars /\ ~Rerun => Noted'
<1>. SUFFICES ASSUME TypeOK, Noted, [Next]_vars, ~Rerun PROVE Noted'
  OBVIOUS
<1>. USE DEF Noted, Goto, Finish, CheckBefore, CheckThen, Interrupt
<1>1. CASE Inspect \/ AcquireLock \/ SelectSessions \/ Preview \/ Confirm
  BY <1>1 DEF Inspect, AcquireLock, SelectSessions, Preview, Confirm
<1>2. CASE CommitBatch \/ ReportBatch \/ EndLoop \/ SelectOrphans \/ DanglingPass
  BY <1>2 DEF CommitBatch, ReportBatch, EndLoop, SelectOrphans, DanglingPass, AfterLoop, TypeOK
<1>3. CASE SessionsDone \/ OrphansDone
  BY <1>3 DEF SessionsDone, OrphansDone
<1>4. CASE PruneProjects \/ CheckIntegrity \/ SweepThisRun \/ RemovePruned
  BY <1>4 DEF PruneProjects, CheckIntegrity, SweepThisRun, RemovePruned
<1>5. CASE SweepOrphans \/ CompactSnapshots \/ PostDeleteHeadroom \/ BeginReclaim
  BY <1>5 DEF SweepOrphans, CompactSnapshots, PostDeleteHeadroom, BeginReclaim
<1>6. CASE \/ IncrementalVacuum \/ EnterSwap \/ LeaveSwap \/ EndRebuild \/ WriteReport
  BY <1>6 DEF IncrementalVacuum, EnterSwap, LeaveSwap, EndRebuild, WriteReport
<1>7. CASE PhaseFails \/ NoteSignal \/ HandleSignal \/ Kill
  BY <1>7 DEF PhaseFails, NoteSignal, HandleSignal, Kill
<1>8. CASE UNCHANGED vars
  BY <1>8 DEF vars
<1>. QED
  BY <1>1, <1>2, <1>3, <1>4, <1>5, <1>6, <1>7, <1>8 DEF Next, Work

(* A signal noted before the cleanup is over is never lost in a success of  *)
(* this run; another run starts with the flag reset.                        *)
THEOREM CancelReported ==
    ASSUME MaxRuns = 1
    PROVE  Spec => CancelIsReported
<1>. DEFINE Early == cancelled
                       /\ pc \in DeletionSteps \cup {"prune", "integrity", "sweep", "remove_pruned"}
            Unsuccessful == exit \notin {"ok", "partial"}
            First == run \in Nat /\ run >= 1
<1>1. Init => First
  BY DEF Init
<1>2. First /\ [Next]_vars => First' /\ ~Rerun
  <2>1. First /\ [Next]_vars => ~Rerun
    BY DEF Rerun
  <2>2. First /\ [Next]_vars /\ SelectSessions => run' = run
    BY DEF SelectSessions
  <2>3. [Next]_vars /\ ~Rerun => run' = run
    BY <2>2, OnlyPlanningPlans DEF SelectSessions
  <2>. QED
    BY <2>1, <2>3
<1>3. TypeOK /\ First /\ Noted /\ [Next]_vars => Noted'
  BY <1>2, NotedStep
<1>4. Early => Noted
  BY DEF Noted
<1>5. ReportInv /\ Noted => Unsuccessful
  BY DEF ReportInv, Noted
<1>6. CleanInv => TypeOK /\ ReportInv
  BY DEF CleanInv
<1>7. CancelIsReported <=> [](Early => []Unsuccessful)
  BY DEF CancelIsReported
<1>. HIDE DEF Early, Unsuccessful, First
<1>. QED
  BY <1>1, <1>2, <1>3, <1>4, <1>5, <1>6, <1>7, CleanInvariant, PTL DEF Spec

(***************************************************************************)
(* Running it again.  What --older-than leaves of a deleted session's tree *)
(* is old throughout: the subtrees of its orphaned children are, now and   *)
(* when the present run began.                                             *)
(***************************************************************************)

OldTree(db, s) == \A x \in Subtree(db, {s}) : db.stamp[x] <= Boundary

AgedInv ==
    /\ deleted \cap store.rows = {}
    /\ args.aged /\ ~args.orphans =>
           /\ \A s \in store.rows : store.parent[s] \in deleted => OldTree(store, s)
           /\ \A s \in start.rows : start.parent[s] \in deleted \ start.rows => OldTree(start, s)

(* Old trees stay old when rows are taken away.                             *)
LEMMA OldTreeOfPart ==
    ASSUME NEW db, NEW part, PartOf(part, db), NEW s, OldTree(db, s)
    PROVE  OldTree(part, s)
<1>1. Subtree(part, {s}) \subseteq Subtree(db, {s}) /\ part.stamp = db.stamp
  BY SubtreeOfPart DEF PartOf
<1>. QED
  BY <1>1 DEF OldTree

(* Old trees are those of the sessions --older-than selects.                *)
LEMMA OlderThanTrees ==
    ASSUME NEW db, db.rows \in SUBSET Ids, db.stamp \in [Ids -> Nat], NEW s \in db.rows
    PROVE  s \in OlderThan(db, Boundary) <=> OldTree(db, s)
<1>1. Boundary \in Nat
  BY CleanAssumption
<1>2. \A x \in Subtree(db, {s}) : db.stamp[x] \in Nat
  BY SubtreeOfOne
<1>3. EffectiveTime(db, s) \in Nat /\ \E x \in Subtree(db, {s}) : EffectiveTime(db, s) = db.stamp[x]
  BY EffectiveTimeIsLatest
<1>4. \A x \in Subtree(db, {s}) : db.stamp[x] <= EffectiveTime(db, s)
  BY EffectiveTimeIsLatest
<1>. QED
  BY <1>1, <1>2, <1>3, <1>4 DEF OlderThan, OldTree

(* A batch deletes sessions whose children are as old.                      *)
LEMMA AgedBatch ==
    CleanInv /\ AgedInv /\ CommitBatch => AgedInv'
<1>. SUFFICES ASSUME CleanInv, AgedInv, CommitBatch PROVE AgedInv'
  OBVIOUS
<1>1. PICK ids \in SUBSET purge :
          /\ store'.rows = store.rows \ ids /\ deleted' = deleted \cup (ids \cap store.rows)
          /\ pc = "batch"
          /\ store'.parent = store.parent /\ store'.owner = store.owner
          /\ store'.stamp = store.stamp
          /\ UNCHANGED <<args, start, kept>>
  BY BatchEffect DEF CleanInv
<1>2. deleted' \cap store'.rows = {}
  BY <1>1 DEF AgedInv
<1>3. PartOf(store', store) /\ PartOf(store, start) /\ PartOf(store', start)
  BY <1>1 DEF PartOf, CleanInv, PlanInv
<1>4. ASSUME args.aged, ~args.orphans, NEW s \in store'.rows, store'.parent[s] \in deleted'
      PROVE  OldTree(store', s)
  <2>1. s \in store.rows /\ s \in start.rows /\ store.parent[s] = start.parent[s]
        /\ store'.parent[s] = start.parent[s]
    BY <1>3 DEF PartOf
  <2>2. CASE store.parent[s] \in deleted
    <3>1. OldTree(store, s)
      BY <1>4, <2>1, <2>2 DEF AgedInv
    <3>. QED
      BY <1>3, <3>1, OldTreeOfPart
  <2>3. CASE store.parent[s] \in ids
    <3>1. Planned /\ purge \subseteq Chosen
      BY <1>1, <1>4 DEF CleanInv, PlanInv, BeforePlan, SessionsInv, OrphansInv
    <3>2. s \in Chosen
      <4>1. start.parent[s] \in Selected(start, StartMatches, Retained(start, args.keep))
        BY <2>1, <2>3, <3>1 DEF Chosen, Planned
      <4>2. s \in Selected(start, StartMatches, Retained(start, args.keep))
        BY <2>1, <4>1, SelectedLeavesNoDangling
      <4>. QED
        BY <3>1, <4>2 DEF Chosen, Planned
    <3>3. OldTree(start, s)
      <4>1. start.rows \in SUBSET Ids /\ start.stamp \in [Ids -> Nat]
        BY DEF CleanInv, TypeOK, Store
      <4>. QED
        BY <1>4, <2>1, <3>2, <4>1, ChosenAreOld, OlderThanTrees DEF CleanInv
    <3>. QED
      BY <1>3, <3>3, OldTreeOfPart
  <2>. QED
    BY <1>1, <1>4, <2>1, <2>2, <2>3
<1>5. deleted' \ start'.rows = deleted \ start.rows
  <2>1. store.rows \subseteq start.rows
    BY <1>3 DEF PartOf
  <2>. QED
    BY <1>1, <2>1
<1>. QED
  BY <1>1, <1>2, <1>4, <1>5 DEF AgedInv

(* Every step keeps it.                                                     *)
LEMMA AgedStep == CleanInv /\ AgedInv /\ [Next]_vars => AgedInv'
<1>. SUFFICES ASSUME CleanInv, AgedInv, [Next]_vars, ~CommitBatch PROVE AgedInv'
  BY AgedBatch
<1>1. /\ store'.rows = store.rows /\ store'.parent = store.parent /\ deleted' = deleted
      /\ PartOf(store', store)
  BY RowsFrame DEF CleanInv, PartOf
<1>2. \A s : OldTree(store, s) => OldTree(store', s)
  BY <1>1, OldTreeOfPart
<1>3. args' = args /\ (start' = start \/ start' = store)
  BY OnlyPlanningPlans DEF SelectSessions, Rerun
<1>. QED
  BY <1>1, <1>2, <1>3 DEF AgedInv

(* What --older-than began is finished by running it again, wherever the    *)
(* first run ended, when it is the only predicate for the sessions that are *)
(* left and the orphan deletion, if asked for, does not meet its bound.     *)
THEOREM AgedRerunFinishes ==
    Spec => [](store.rows \subseteq args.matches /\ (args.orphans => Shallow(start))
                 => AgedRerunContinues)
<1>1. Init => AgedInv
  BY DEF Init, AgedInv
<1>2. CleanInv /\ AgedInv /\ ((args.orphans => Shallow(start)) => NoNewDangling)
        => (store.rows \subseteq args.matches /\ (args.orphans => Shallow(start))
              => AgedRerunContinues)
  <2>. SUFFICES ASSUME CleanInv, AgedInv, NoNewDangling,
                       store.rows \subseteq args.matches, args.orphans => Shallow(start),
                       args.aged, pc = "done", exit \in {"ok", "partial"},
                       NEW s \in store.rows, s \notin kept, store.parent[s] \in deleted
                PROVE  FALSE
    BY DEF AgedRerunContinues
  <2>. DEFINE p == store.parent[s]
  <2>1. ~args.dryRun
    BY DEF CleanInv, PlanInv
  <2>2. store.rows = start.rows \ Doomed /\ PartOf(store, start)
    BY <2>1 DEF CleanInv, OutcomeInv, Completed, PlanInv
  <2>3. s \in start.rows /\ s \notin Doomed /\ p = start.parent[s]
    BY <2>2 DEF PartOf
  <2>4. p \notin start.rows
    BY DEF NoNewDangling, AgedInv
  <2>5. /\ start.rows \in SUBSET Ids /\ start.stamp \in [Ids -> Nat] /\ deleted \in SUBSET Ids
    BY DEF CleanInv, TypeOK, Store
  <2>6. CASE args.orphans
    <3>. DEFINE top == {x \in Roots(start) : start.parent[x] # NoParent}
    <3>1. s \in top
      BY <2>3, <2>4, <2>5, IdsAssumption DEF Roots
    <3>2. s \in Dangling(start)
      BY <2>3, <3>1, SubtreeClosed DEF Dangling
    <3>. QED
      BY <2>3, <2>6, <3>2 DEF Doomed, Strays
  <2>7. CASE ~args.orphans
    <3>1. OldTree(start, s)
      BY <2>3, <2>4, <2>7 DEF AgedInv
    <3>2. s \in StartMatches \ kept
      BY <2>3, <2>5, <3>1, OlderThanTrees DEF StartMatches
    <3>3. s \in Subtree(start, StartMatches \ kept)
      BY <2>3, <3>2, SubtreeClosed
    <3>. QED
      BY <2>3, <3>3 DEF Doomed, Chosen, Selected
  <2>. QED
    BY <2>6, <2>7
<1>. QED
  BY <1>1, <1>2, AgedStep, CleanInvariant, NoNewDanglingLeft, PTL DEF Spec

(***************************************************************************)
(* The preview.  It is a function of what the run found, like the outcome; *)
(* what remains is to follow the projects, files and snapshots.            *)
(***************************************************************************)

StartOwners(S) == {start.owner[s] : s \in S}

Shown ==
    LET sessions == PreviewSessions(start, StartMatches, kept, args.orphans)
        gone     == PreviewProjects(start, sessions, args.prune)
        orphaned == IF args.orphans THEN Ids \ start.rows ELSE {}
        strays   == IF args.orphans THEN Projects \ start.projects ELSE {}
    IN  [sessions  |-> sessions,
         projects  |-> gone,
         files     |-> start.files \cap (sessions \cup orphaned),
         snapshots |-> start.snapshots \cap (gone \cup strays)]

(* The owners of the sessions found so far.                                 *)
Touched == StartOwners(Chosen \cup (IF phase = "sessions" THEN {} ELSE Dangling(start)))

Working == pc \in DeletionSteps \cup AfterDeletion \/ Completed
Pruned  == pc \in AfterDeletion \ {"prune"} \/ Completed

ShownInv ==
    /\ pc = "confirm" \/ Working => preview = Shown
    /\ Completed => Planned

PrunedInv ==
    /\ Working => affected = Touched
    /\ pc \in AfterDeletion \/ Completed => (args.orphans <=> phase # "sessions")
    /\ pc \in DeletionSteps \cup {"prune"} => store.projects = start.projects
    /\ Pruned =>
           /\ pruned = {p \in start.projects \ StartOwners(store.rows) : args.prune \/ p \in Touched}
           /\ store.projects = start.projects \ pruned

(* Which steps change what is reported about projects.                      *)
LEMMA ReportFrame ==
    ASSUME TypeOK, [Next]_vars, ~Rerun
    PROVE  /\ preview' = preview \/ Preview
           /\ affected' = affected \/ Confirm \/ SelectOrphans
           /\ phase' = phase \/ SelectOrphans \/ DanglingPass
           /\ (pruned' = pruned /\ store'.projects = store.projects) \/ PruneProjects
<1>. USE DEF TypeOK, Store
<1>1. CASE CommitBatch
  BY <1>1, BatchEffect
<1>2. CASE SweepThisRun
  BY <1>2 DEF SweepThisRun
<1>3. CASE RemovePruned
  BY <1>3 DEF RemovePruned
<1>4. CASE SweepOrphans
  BY <1>4 DEF SweepOrphans
<1>5. CASE Inspect \/ AcquireLock \/ SelectSessions \/ Preview \/ Confirm
  BY <1>5 DEF Inspect, AcquireLock, SelectSessions, Preview, Confirm
<1>6. CASE ReportBatch \/ EndLoop \/ SessionsDone \/ SelectOrphans \/ DanglingPass \/ OrphansDone
  BY <1>6 DEF ReportBatch, EndLoop, SessionsDone, SelectOrphans, DanglingPass, OrphansDone
<1>7. CASE \/ PruneProjects \/ CheckIntegrity \/ CompactSnapshots \/ PostDeleteHeadroom
           \/ BeginReclaim \/ IncrementalVacuum
  BY <1>7 DEF PruneProjects, CheckIntegrity, CompactSnapshots, PostDeleteHeadroom, BeginReclaim,
              IncrementalVacuum
<1>8. CASE \/ EnterSwap \/ LeaveSwap \/ EndRebuild \/ WriteReport \/ PhaseFails \/ NoteSignal
           \/ HandleSignal \/ Kill \/ UNCHANGED vars
  BY <1>8 DEF EnterSwap, LeaveSwap, EndRebuild, WriteReport, PhaseFails, NoteSignal,
              HandleSignal, Kill, vars
<1>. QED
  BY <1>1, <1>2, <1>3, <1>4, <1>5, <1>6, <1>7, <1>8 DEF Next, Work

(* Work begins with the operator's agreement, pruning with its step.        *)
LEMMA WorkEntered ==
    ASSUME TypeOK, PlanInv, [Next]_vars
    PROVE  /\ Working' => Working \/ (Confirm /\ pc' = "batch")
           /\ pc' = "confirm" => Preview \/ (pc = "confirm" /\ ~Rerun /\ ~SelectSessions)
           /\ Pruned' => Pruned \/ PruneProjects
           /\ pc' \in DeletionSteps \cup {"prune"} =>
                  pc \in DeletionSteps \cup {"prune"} \/ (Confirm /\ pc' = "batch")
<1>. USE DEF Working, Pruned, AfterDeletion, Completed, Goto, Finish, CheckBefore, CheckThen,
             Interrupt
<1>1. CASE Inspect \/ AcquireLock \/ SelectSessions \/ Preview \/ Confirm
  BY <1>1 DEF Inspect, AcquireLock, SelectSessions, Preview, Confirm, Rerun
<1>2. CASE CommitBatch \/ ReportBatch \/ EndLoop \/ SelectOrphans \/ DanglingPass
  BY <1>2 DEF CommitBatch, ReportBatch, EndLoop, SelectOrphans, DanglingPass, AfterLoop, TypeOK
<1>3. CASE SessionsDone \/ OrphansDone
  BY <1>3 DEF SessionsDone, OrphansDone
<1>4. CASE PruneProjects \/ CheckIntegrity \/ SweepThisRun \/ RemovePruned
  BY <1>4 DEF PruneProjects, CheckIntegrity, SweepThisRun, RemovePruned
<1>5. CASE SweepOrphans \/ CompactSnapshots \/ PostDeleteHeadroom \/ BeginReclaim
  BY <1>5 DEF SweepOrphans, CompactSnapshots, PostDeleteHeadroom, BeginReclaim
<1>6. CASE \/ IncrementalVacuum \/ EnterSwap \/ LeaveSwap \/ EndRebuild \/ WriteReport
  BY <1>6 DEF IncrementalVacuum, EnterSwap, LeaveSwap, EndRebuild, WriteReport
<1>7. CASE PhaseFails \/ NoteSignal \/ HandleSignal \/ Kill \/ Rerun
  BY <1>7 DEF PhaseFails, NoteSignal, HandleSignal, Kill, Rerun, SelectSessions
<1>8. CASE UNCHANGED vars
  BY <1>8 DEF vars, Rerun, SelectSessions
<1>. QED
  BY <1>1, <1>2, <1>3, <1>4, <1>5, <1>6, <1>7, <1>8 DEF Next, Work

(* The preview stays what it was computed to be.                            *)
LEMMA ShownStep == CleanInv /\ ShownInv /\ [Next]_vars => ShownInv'
<1>. SUFFICES ASSUME CleanInv, ShownInv, [Next]_vars PROVE ShownInv'
  OBVIOUS
<1>1. CASE SelectSessions \/ Rerun
  <2>1. pc' # "confirm" /\ ~Working' /\ ~Completed'
    BY <1>1 DEF SelectSessions, Rerun, Goto, Finish, Working, AfterDeletion, Completed
  <2>. QED
    BY <2>1 DEF ShownInv
<1>2. CASE ~(SelectSessions \/ Rerun)
  <2>1. UNCHANGED <<args, start, kept>> /\ Planned' = Planned /\ StartMatches' = StartMatches
    BY <1>2, OnlyPlanningPlans, PlanFrame
  <2>2. Shown' = Shown
    BY <2>1 DEF Shown
  <2>3. CASE Preview
    <3>1. store = start /\ pc = "preview"
      BY <2>3 DEF CleanInv, PlanInv, Preview
    <3>2. Matches = StartMatches
      BY <3>1 DEF Matches, StartMatches
    <3>3. preview' = Shown
      BY <2>3, <3>1, <3>2 DEF Preview, Shown
    <3>4. ~Completed'
      BY <2>3 DEF Preview, Completed, Goto, Finish
    <3>. QED
      BY <2>2, <3>3, <3>4 DEF ShownInv
  <2>4. CASE ~Preview
    <3>1. preview' = preview
      BY <1>2, <2>4, ReportFrame DEF CleanInv
    <3>2. pc' = "confirm" \/ Working' => pc = "confirm" \/ Working
      BY <2>4, WorkEntered DEF CleanInv, Confirm
    <3>3. Completed' => Planned
      <4>1. Completed' => pc \in AfterDeletion \cup DeletionSteps \/ Completed
        BY AfterEntered DEF CleanInv
      <4>. QED
        BY <4>1 DEF CleanInv, PlanInv, BeforePlan, AfterDeletion, ShownInv
    <3>. QED
      BY <2>1, <2>2, <3>1, <3>2, <3>3 DEF ShownInv
  <2>. QED
    BY <2>3, <2>4
<1>. QED
  BY <1>1, <1>2

(* The owners found and the projects pruned follow from what was found.     *)
LEMMA PrunedStep == CleanInv /\ PrunedInv /\ [Next]_vars => PrunedInv'
<1>. SUFFICES ASSUME CleanInv, PrunedInv, [Next]_vars PROVE PrunedInv'
  OBVIOUS
<1>1. CASE SelectSessions \/ Rerun
  <2>1. pc' \notin DeletionSteps \cup AfterDeletion /\ ~Completed'
    BY <1>1 DEF SelectSessions, Rerun, Goto, Finish, AfterDeletion, Completed
  <2>. QED
    BY <2>1 DEF PrunedInv, Working, Pruned, AfterDeletion
<1>2. CASE ~(SelectSessions \/ Rerun)
  <2>1. UNCHANGED <<args, start, kept>> /\ Chosen' = Chosen
    BY <1>2, OnlyPlanningPlans, PlanFrame
  <2>2. \A S : StartOwners(S)' = StartOwners(S)
    BY <2>1 DEF StartOwners
  <2>3. TypeOK /\ PlanInv
    BY DEF CleanInv
  <2>4. store.owner = start.owner
    BY DEF CleanInv, PlanInv, PartOf
  <2>5. ASSUME Working' PROVE affected' = Touched'
    <3>1. CASE Confirm
      <4>1. store = start /\ phase = "sessions" /\ purge = Chosen /\ phase' = phase
        BY <3>1 DEF Confirm, CleanInv, PlanInv
      <4>2. pc' = "batch"
        BY <2>5, <3>1 DEF Confirm, Working, AfterDeletion, Completed, Goto, Finish, CheckBefore
      <4>3. affected' = OwnersOf(Chosen)
        BY <3>1, <4>1, <4>2 DEF Confirm, Finish
      <4>. QED
        BY <2>1, <4>1, <4>3 DEF Touched, StartOwners, OwnersOf
    <3>2. CASE SelectOrphans
      <4>1. /\ pc = "orphans" /\ phase = "sessions" /\ phase' = "events"
            /\ affected' = affected \cup OwnersOf(Dangling(store))
        BY <3>2 DEF SelectOrphans, CleanInv, SessionsInv
      <4>2. Dangling(store) = Dangling(start) \ Chosen
        BY <4>1, RestOfSelection DEF CleanInv, PlanInv, BeforePlan, SessionsInv
      <4>3. affected = StartOwners(Chosen)
        BY <4>1 DEF PrunedInv, Working, Touched
      <4>4. affected' = StartOwners(Chosen \cup Dangling(start))
        BY <2>4, <4>1, <4>2, <4>3 DEF StartOwners, OwnersOf
      <4>. QED
        BY <2>1, <4>1, <4>4 DEF Touched, StartOwners
    <3>3. CASE ~(Confirm \/ SelectOrphans)
      <4>1. affected' = affected /\ Working
        BY <1>2, <2>3, <2>5, <3>3, ReportFrame, WorkEntered
      <4>2. phase' = "sessions" <=> phase = "sessions"
        <5>1. CASE DanglingPass
          BY <5>1 DEF DanglingPass, CleanInv, OrphansInv
        <5>2. CASE ~DanglingPass
          BY <1>2, <2>3, <3>3, <5>2, ReportFrame
        <5>. QED
          BY <5>1, <5>2
      <4>. QED
        BY <2>1, <4>1, <4>2 DEF PrunedInv, Touched, StartOwners
    <3>. QED
      BY <3>1, <3>2, <3>3
  <2>6. ASSUME (pc \in AfterDeletion \/ Completed)' PROVE args.orphans <=> phase' # "sessions"
    <3>1. phase' = phase
      <4>1. ~SelectOrphans /\ ~DanglingPass
        BY <2>6 DEF SelectOrphans, DanglingPass, Goto, AfterDeletion, Completed
      <4>. QED
        BY <1>2, <2>3, <4>1, ReportFrame
    <3>2. CASE pc \in AfterDeletion \/ Completed
      BY <3>1, <3>2 DEF PrunedInv
    <3>3. CASE pc = "sessions_done" /\ ~args.orphans
      BY <3>1, <3>3 DEF CleanInv, SessionsInv
    <3>4. CASE pc = "orphans_done"
      BY <3>1, <3>4 DEF CleanInv, OrphansInv
    <3>. QED
      BY <2>3, <2>6, <3>2, <3>3, <3>4, AfterEntered
  <2>7. ASSUME pc' \in DeletionSteps \cup {"prune"} PROVE store'.projects = start.projects
    <3>1. ~PruneProjects
      BY <2>7 DEF PruneProjects, CheckThen, Goto, Interrupt, Finish
    <3>2. CASE Confirm
      BY <3>2 DEF Confirm, CleanInv, PlanInv
    <3>3. CASE ~Confirm
      BY <1>2, <2>3, <2>7, <3>1, <3>3, ReportFrame, WorkEntered DEF PrunedInv
    <3>. QED
      BY <3>2, <3>3
  <2>8. ASSUME Pruned'
        PROVE  /\ pruned' = {p \in start.projects \ StartOwners(store'.rows) :
                               args.prune \/ p \in Touched'}
               /\ store'.projects = start.projects \ pruned'
    <3>1. store'.rows = store.rows /\ phase' = phase
      <4>1. ~CommitBatch /\ ~SelectOrphans /\ ~DanglingPass
        BY <2>8 DEF CommitBatch, SelectOrphans, DanglingPass, Goto, Pruned, AfterDeletion, Completed
      <4>. QED
        BY <1>2, <2>3, <4>1, ReportFrame, RowsFrame
    <3>2. Touched' = Touched
      BY <2>1, <3>1 DEF Touched, StartOwners
    <3>3. CASE PruneProjects
      <4>1. pc = "prune" /\ affected = Touched /\ store.projects = start.projects
        BY <3>3 DEF PruneProjects, PrunedInv, Working, AfterDeletion
      <4>2. pruned' = {p \in store.projects \ OwnersOf(store.rows) : args.prune \/ p \in affected}
        BY <3>3 DEF PruneProjects
      <4>3. store'.projects = store.projects \ pruned'
        BY <3>3, <2>3 DEF PruneProjects, TypeOK, Store
      <4>4. OwnersOf(store.rows) = StartOwners(store.rows)
        BY <2>4 DEF OwnersOf, StartOwners
      <4>. QED
        BY <3>1, <3>2, <4>1, <4>2, <4>3, <4>4
    <3>4. CASE ~PruneProjects
      BY <1>2, <2>3, <2>8, <3>1, <3>2, <3>4, ReportFrame, WorkEntered DEF PrunedInv
    <3>. QED
      BY <3>3, <3>4
  <2>. QED
    BY <2>1, <2>2, <2>5, <2>6, <2>7, <2>8 DEF PrunedInv
<1>. QED
  BY <1>1, <1>2

(***************************************************************************)
(* Files and snapshots: untouched up to the sweep, then those of this run, *)
(* then with --orphans all that nobody claims, unless something was left.  *)
(***************************************************************************)

Unswept  == pc \in DeletionSteps \cup {"prune", "integrity", "sweep"}
SweptAll == pc \in ReclaimSteps \cup {"gc", "report"} \/ Completed

FilesInv ==
    /\ Unswept => store.files = start.files /\ store.snapshots = start.snapshots
    /\ pc = "remove_pruned" => store.snapshots = start.snapshots
    /\ pc = "sweep_orphans" => args.orphans
    /\ ~partial /\ pc \in {"remove_pruned", "sweep_orphans"} =>
           store.files = start.files \ (start.rows \ store.rows)
    /\ ~partial /\ pc = "sweep_orphans" => store.snapshots = start.snapshots \ pruned
    /\ ~partial /\ SweptAll =>
           /\ store.files = start.files \ (IF args.orphans THEN Ids \ store.rows
                                           ELSE start.rows \ store.rows)
           /\ store.snapshots = start.snapshots \ (IF args.orphans THEN Projects \ store.projects
                                                   ELSE pruned)
    /\ exit = "ok" /\ ~args.dryRun => ~partial

Sweeper == SweepThisRun \/ RemovePruned \/ SweepOrphans

(* Other steps leave them alone, and what was left behind stays noted.      *)
LEMMA FilesFrame ==
    ASSUME TypeOK, [Next]_vars, ~Sweeper, ~Rerun
    PROVE  /\ store'.files = store.files /\ store'.snapshots = store.snapshots
           /\ ~partial' => ~partial
<1>. USE DEF TypeOK, Store, Sweeper
<1>1. CASE CommitBatch
  BY <1>1, BatchEffect
<1>2. CASE PruneProjects
  BY <1>2 DEF PruneProjects
<1>3. CASE Inspect \/ AcquireLock \/ SelectSessions \/ Preview \/ Confirm
  BY <1>3 DEF Inspect, AcquireLock, SelectSessions, Preview, Confirm
<1>4. CASE ReportBatch \/ EndLoop \/ SessionsDone \/ SelectOrphans \/ DanglingPass \/ OrphansDone
  BY <1>4 DEF ReportBatch, EndLoop, SessionsDone, SelectOrphans, DanglingPass, OrphansDone
<1>5. CASE CompactSnapshots
  <2>1. partial => partial'
    <3>1. CASE Faults
      BY <1>5, <3>1 DEF CompactSnapshots, Removes
    <3>2. CASE ~Faults
      BY <1>5, <3>2 DEF CompactSnapshots, Removes
    <3>. QED
      BY <3>1, <3>2
  <2>. QED
    BY <1>5, <2>1 DEF CompactSnapshots
<1>6. CASE \/ CheckIntegrity \/ PostDeleteHeadroom \/ BeginReclaim \/ IncrementalVacuum
  BY <1>6 DEF CheckIntegrity, PostDeleteHeadroom, BeginReclaim, IncrementalVacuum
<1>7. CASE \/ EnterSwap \/ LeaveSwap \/ EndRebuild \/ WriteReport \/ PhaseFails \/ NoteSignal
           \/ HandleSignal \/ Kill \/ UNCHANGED vars
  BY <1>7 DEF EnterSwap, LeaveSwap, EndRebuild, WriteReport, PhaseFails, NoteSignal,
              HandleSignal, Kill, vars
<1>. QED
  BY <1>1, <1>2, <1>3, <1>4, <1>5, <1>6, <1>7 DEF Next, Work

(* The order of the sweeps, and who reports a success.                      *)
LEMMA SweepsEntered ==
    ASSUME TypeOK, PlanInv, ReportInv, [Next]_vars
    PROVE  /\ Unswept' => (Unswept /\ ~Sweeper) \/ Confirm
           /\ pc' = "remove_pruned" => (pc = "remove_pruned" /\ ~Sweeper) \/ SweepThisRun
           /\ pc' = "sweep_orphans" =>
                  (pc = "sweep_orphans" /\ ~Sweeper) \/ (RemovePruned /\ args.orphans)
           /\ SweptAll' =>
                  (SweptAll /\ ~Sweeper) \/ (RemovePruned /\ ~args.orphans) \/ SweepOrphans
           /\ exit' = "ok" =>
                  (exit = "ok" /\ ~Sweeper) \/ args.dryRun \/ (WriteReport /\ ~partial)
<1>. USE DEF Unswept, SweptAll, Completed, Goto, Finish, CheckBefore, CheckThen, Interrupt
<1>1. Sweeper => pc \in {"sweep", "remove_pruned", "sweep_orphans"} /\ pc' # pc
  BY DEF Sweeper, SweepThisRun, RemovePruned, SweepOrphans
<1>2. pc # "done" => exit = "none"
  BY DEF ReportInv
<1>3. CASE Inspect \/ AcquireLock \/ SelectSessions \/ Preview \/ Confirm
  BY <1>1, <1>2, <1>3 DEF Inspect, AcquireLock, SelectSessions, Preview, Confirm
<1>4. CASE CommitBatch \/ ReportBatch \/ EndLoop \/ SelectOrphans \/ DanglingPass
  <2>1. /\ pc \in DeletionSteps /\ exit' = exit
        /\ pc' \in DeletionSteps
    BY <1>4 DEF CommitBatch, ReportBatch, EndLoop, SelectOrphans, DanglingPass, AfterLoop, TypeOK
  <2>. QED
    BY <1>1, <1>2, <2>1
<1>5. CASE SessionsDone \/ OrphansDone
  BY <1>1, <1>2, <1>5 DEF SessionsDone, OrphansDone
<1>6. CASE PruneProjects \/ CheckIntegrity
  BY <1>1, <1>2, <1>6 DEF PruneProjects, CheckIntegrity
<1>7. CASE SweepThisRun
  BY <1>2, <1>7 DEF SweepThisRun
<1>8. CASE RemovePruned
  BY <1>2, <1>8 DEF RemovePruned
<1>9. CASE SweepOrphans
  BY <1>2, <1>9 DEF SweepOrphans
<1>10. CASE CompactSnapshots \/ PostDeleteHeadroom \/ BeginReclaim \/ IncrementalVacuum
  BY <1>1, <1>2, <1>10 DEF CompactSnapshots, PostDeleteHeadroom, BeginReclaim, IncrementalVacuum
<1>11. CASE EnterSwap \/ LeaveSwap \/ EndRebuild \/ WriteReport
  BY <1>1, <1>2, <1>11 DEF EnterSwap, LeaveSwap, EndRebuild, WriteReport
<1>12. CASE PhaseFails \/ NoteSignal \/ HandleSignal \/ Kill \/ Rerun
  <2>1. \/ pc' = pc /\ exit' = exit
        \/ pc' = "done" /\ exit' \notin {"ok", "partial"}
        \/ pc' = "inspect" /\ exit' = "none"
    BY <1>12 DEF PhaseFails, NoteSignal, HandleSignal, Kill, Rerun
  <2>2. UNCHANGED args \/ Rerun
    BY <1>12 DEF PhaseFails, NoteSignal, HandleSignal, Kill
  <2>3. Rerun => pc' = "inspect"
    BY DEF Rerun
  <2>. QED
    BY <1>1, <2>1, <2>2, <2>3
<1>13. CASE UNCHANGED vars
  BY <1>1, <1>13 DEF vars
<1>. QED
  BY <1>3, <1>4, <1>5, <1>6, <1>7, <1>8, <1>9, <1>10, <1>11, <1>12, <1>13 DEF Next, Work

(* Once the run is over only another one changes its record.                *)
LEMMA DoneIsStill ==
    ASSUME TypeOK, [Next]_vars, pc = "done", ~Rerun
    PROVE  UNCHANGED <<pc, exit, partial>>
<1>1. UNCHANGED vars
  BY DEF Next, Work, Inspect, AcquireLock, SelectSessions, Preview, Confirm, CommitBatch,
         ReportBatch, EndLoop, SessionsDone, SelectOrphans, DanglingPass, OrphansDone,
         PruneProjects, CheckIntegrity, SweepThisRun, RemovePruned, SweepOrphans,
         CompactSnapshots, PostDeleteHeadroom, BeginReclaim, IncrementalVacuum, EnterSwap,
         LeaveSwap, EndRebuild, WriteReport, PhaseFails, NoteSignal, HandleSignal, Kill
<1>. QED
  BY <1>1 DEF vars

(* What a sweep that left nothing behind has removed.                       *)
LEMMA RemovesAll ==
    ASSUME NEW eligible, NEW removed, Removes(eligible, removed), TypeOK
    PROVE  ~partial' => removed = eligible /\ ~partial
<1>1. CASE Faults
  BY <1>1 DEF Removes, TypeOK
<1>2. CASE ~Faults
  BY <1>2 DEF Removes, TypeOK
<1>. QED
  BY <1>1, <1>2

(* The three sweeps.                                                        *)
LEMMA FilesSwept == CleanInv /\ PrunedInv /\ FilesInv /\ Sweeper => FilesInv'
<1>. SUFFICES ASSUME CleanInv, PrunedInv, FilesInv, Sweeper PROVE FilesInv'
  OBVIOUS
<1>1. TypeOK /\ ReportInv
  BY DEF CleanInv
<1>2. /\ start.files \in SUBSET Ids /\ start.snapshots \in SUBSET Projects
      /\ start.projects \in SUBSET Projects
  BY <1>1 DEF TypeOK, Store
<1>3. /\ UNCHANGED <<args, start, pruned, reported>>
      /\ pc' = "done" => exit' \in {"interrupted", "error"}
      /\ pc' # "done" => exit' = "none"
  BY <1>1 DEF Sweeper, SweepThisRun, RemovePruned, SweepOrphans, CheckThen, Goto, Interrupt, Finish,
             ReportInv
<1>4. exit' # "ok" /\ ~Completed'
  BY <1>3 DEF Completed
<1>5. CASE SweepThisRun
  <2>1. PICK removed \in SUBSET Ids :
            /\ Removes((store.files \cap reported) \ store.rows, removed)
            /\ store' = [store EXCEPT !.files = @ \ removed]
    BY <1>5 DEF SweepThisRun
  <2>2. pc = "sweep" /\ pc' \in {"remove_pruned", "done"} /\ exit = "none"
    BY <1>1, <1>5 DEF SweepThisRun, CheckThen, Goto, Interrupt, Finish, ReportInv
  <2>3. start.rows \ store.rows = reported
    BY <1>1, <2>2 DEF ReportInv, Unreported
  <2>4. store.files = start.files /\ store.snapshots = start.snapshots
    BY <2>2 DEF FilesInv, Unswept
  <2>5. store'.rows = store.rows /\ store'.snapshots = store.snapshots
        /\ store'.files = store.files \ removed
    BY <1>1, <2>1 DEF TypeOK, Store
  <2>6. ~partial' => store'.files = start.files \ (start.rows \ store.rows)
    BY <1>1, <2>1, <2>3, <2>4, <2>5, RemovesAll
  <2>. QED
    BY <1>3, <1>4, <2>2, <2>4, <2>5, <2>6 DEF FilesInv, Unswept, SweptAll
<1>6. CASE RemovePruned
  <2>1. PICK removed \in SUBSET Projects :
            /\ Removes(store.snapshots \cap pruned, removed)
            /\ store' = [store EXCEPT !.snapshots = @ \ removed]
    BY <1>6 DEF RemovePruned
  <2>2. /\ pc = "remove_pruned" /\ pc' \in {"sweep_orphans", "gc", "headroom", "done"}
        /\ pc' = "sweep_orphans" => args.orphans
        /\ pc' \in {"gc", "headroom"} => ~args.orphans
    BY <1>6 DEF RemovePruned, CheckThen, Goto, Interrupt, Finish
  <2>3. store.snapshots = start.snapshots
    BY <2>2 DEF FilesInv
  <2>4. store'.rows = store.rows /\ store'.projects = store.projects
        /\ store'.files = store.files /\ store'.snapshots = store.snapshots \ removed
    BY <1>1, <2>1 DEF TypeOK, Store
  <2>5. ~partial' => /\ store'.snapshots = start.snapshots \ pruned
                     /\ store'.files = start.files \ (start.rows \ store.rows)
    BY <1>1, <2>1, <2>2, <2>3, <2>4, RemovesAll DEF FilesInv
  <2>. QED
    BY <1>3, <1>4, <2>2, <2>4, <2>5 DEF FilesInv, Unswept, SweptAll
<1>7. CASE SweepOrphans
  <2>1. PICK dirs \in SUBSET Projects, removed \in SUBSET Ids :
            /\ Removes(store.snapshots \ store.projects, dirs)
            /\ Removes(store.files \ store.rows, removed)
            /\ store' = [store EXCEPT !.snapshots = @ \ dirs, !.files = @ \ removed]
    BY <1>7 DEF SweepOrphans
  <2>2. pc = "sweep_orphans" /\ pc' \in {"gc", "headroom", "done"} /\ args.orphans
    BY <1>7 DEF SweepOrphans, CheckThen, Goto, Interrupt, Finish, FilesInv
  <2>3. store'.rows = store.rows /\ store'.projects = store.projects
        /\ store'.files = store.files \ removed /\ store'.snapshots = store.snapshots \ dirs
    BY <1>1, <2>1 DEF TypeOK, Store
  <2>4. store.projects = start.projects \ pruned
    BY <2>2 DEF PrunedInv, Pruned, AfterDeletion
  <2>5. ASSUME ~partial'
        PROVE  /\ store'.files = start.files \ (Ids \ store.rows)
               /\ store'.snapshots = start.snapshots \ (Projects \ store.projects)
    <3>1. removed = store.files \ store.rows /\ dirs = store.snapshots \ store.projects /\ ~partial
      BY <1>1, <2>1, <2>5, RemovesAll
    <3>2. /\ store.files = start.files \ (start.rows \ store.rows)
          /\ store.snapshots = start.snapshots \ pruned
      BY <2>2, <3>1 DEF FilesInv
    <3>. QED
      BY <1>2, <2>3, <2>4, <3>1, <3>2
  <2>. QED
    BY <1>3, <1>4, <2>2, <2>3, <2>5 DEF FilesInv, Unswept, SweptAll
<1>. QED
  BY <1>5, <1>6, <1>7 DEF Sweeper

(* Every step keeps it.                                                     *)
LEMMA FilesStep == CleanInv /\ PrunedInv /\ FilesInv /\ [Next]_vars => FilesInv'
<1>. SUFFICES ASSUME CleanInv, PrunedInv, FilesInv, [Next]_vars, ~Sweeper PROVE FilesInv'
  BY FilesSwept
<1>1. TypeOK /\ PlanInv /\ ReportInv
  BY DEF CleanInv
<1>2. CASE Rerun
  BY <1>2 DEF Rerun, FilesInv, Unswept, SweptAll, Completed
<1>3. CASE ~Rerun
  <2>1. /\ store'.files = store.files /\ store'.snapshots = store.snapshots
        /\ ~partial' => ~partial
    BY <1>1, <1>3, FilesFrame
  <2>2. args' = args /\ start' = start
    BY <1>3, OnlyPlanningPlans DEF SelectSessions
  <2>3. Confirm => store = start /\ pc' # "prune"
    BY <1>1 DEF Confirm, PlanInv, Goto, Finish, CheckBefore
  <2>4. pc' \in {"remove_pruned", "sweep_orphans"} \/ SweptAll' =>
            store'.rows = store.rows /\ store'.projects = store.projects /\ pruned' = pruned
    <3>1. CASE CommitBatch \/ PruneProjects
      BY <3>1 DEF CommitBatch, PruneProjects, Goto, CheckThen, Interrupt, Finish, SweptAll, Completed
    <3>2. CASE ~(CommitBatch \/ PruneProjects)
      BY <1>1, <1>3, <3>2, RowsFrame, ReportFrame
    <3>. QED
      BY <3>1, <3>2
  <2>5. /\ Unswept' => Unswept \/ Confirm
        /\ pc' = "remove_pruned" => pc = "remove_pruned"
        /\ pc' = "sweep_orphans" => pc = "sweep_orphans"
        /\ SweptAll' => SweptAll
        /\ exit' = "ok" => exit = "ok" \/ args.dryRun \/ (WriteReport /\ ~partial)
    BY <1>1, SweepsEntered DEF Sweeper
  <2>6. WriteReport => partial' = partial
    BY DEF WriteReport
  <2>7. exit' = "ok" /\ ~args.dryRun => ~partial'
    <3>1. exit = "ok" => partial' = partial
      <4>. SUFFICES ASSUME exit = "ok" PROVE partial' = partial
        OBVIOUS
      <4>1. pc = "done"
        BY <1>1 DEF ReportInv
      <4>. QED
        BY <1>1, <1>3, <4>1, DoneIsStill
    <3>. QED
      BY <2>5, <2>6, <3>1 DEF FilesInv
  <2>. QED
    BY <2>1, <2>2, <2>3, <2>4, <2>5, <2>7 DEF FilesInv
<1>. QED
  BY <1>2, <1>3

(* What the preview shows is what a completed run deletes.                  *)
LEMMA ShownIsDoomed ==
    ASSUME Planned
    PROVE  PreviewSessions(start, StartMatches, kept, args.orphans) = Doomed
<1>1. StartMatches \in SUBSET start.rows
  BY DEF StartMatches, OlderThan
<1>2. PreviewSessions(start, StartMatches, kept, FALSE) = Chosen
  BY <1>1, PreviewAgrees DEF Planned, Chosen
<1>. QED
  BY <1>2 DEF PreviewSessions, Doomed, Strays

(* A run that completes did what its preview showed, when the database      *)
(* respects the foreign key of the sessions' projects, which clean checks   *)
(* only for what is left, and the orphan deletion does not meet its bound.  *)
THEOREM PreviewIsExact ==
    Spec => [](OwnersOf(start.rows) \subseteq start.projects /\ (args.orphans => Shallow(start))
                 => PreviewExact)
<1>1. Init => ShownInv /\ PrunedInv /\ FilesInv
  BY DEF Init, ShownInv, PrunedInv, FilesInv, Working, Pruned, Unswept, SweptAll, AfterDeletion,
         Completed
<1>2. CleanInv /\ ShownInv /\ PrunedInv /\ FilesInv
        => (OwnersOf(start.rows) \subseteq start.projects /\ (args.orphans => Shallow(start))
              => PreviewExact)
  <2>. SUFFICES ASSUME CleanInv, ShownInv, PrunedInv, FilesInv,
                       OwnersOf(start.rows) \subseteq start.projects,
                       args.orphans => Shallow(start), Completed
                PROVE  /\ start.rows \ store.rows = preview.sessions
                       /\ start.projects \ store.projects = preview.projects
                       /\ exit = "ok" => /\ start.files \ store.files = preview.files
                                         /\ start.snapshots \ store.snapshots = preview.snapshots
    BY DEF PreviewExact, Completed
  <2>1. /\ Planned /\ preview = Shown /\ store.rows = start.rows \ Doomed
        /\ PartOf(store, start) /\ TypeOK
    BY DEF ShownInv, Working, CleanInv, OutcomeInv, PlanInv
  <2>2. Doomed \subseteq start.rows
    BY DoomedRows
  <2>. DEFINE gone == PreviewProjects(start, Doomed, args.prune)
  <2>3. /\ preview.sessions = Doomed /\ preview.projects = gone
        /\ preview.files
             = start.files \cap (Doomed \cup IF args.orphans THEN Ids \ start.rows ELSE {})
        /\ preview.snapshots
             = start.snapshots \cap (gone \cup IF args.orphans THEN Projects \ start.projects ELSE {})
    BY <2>1, ShownIsDoomed DEF Shown
  <2>4. /\ pruned = {p \in start.projects \ StartOwners(store.rows) : args.prune \/ p \in Touched}
        /\ store.projects = start.projects \ pruned
        /\ args.orphans <=> phase # "sessions"
    BY DEF PrunedInv, Pruned
  <2>5. /\ start.rows \in SUBSET Ids /\ start.owner \in [Ids -> Projects]
        /\ start.projects \in SUBSET Projects /\ start.files \in SUBSET Ids
        /\ start.snapshots \in SUBSET Projects
        /\ store.owner = start.owner
    BY <2>1 DEF TypeOK, Store, PartOf
  <2>6. pruned = gone /\ gone \subseteq start.projects
    <3>1. Touched = StartOwners(Doomed \cup (IF args.orphans THEN Dangling(start) ELSE {}))
      <4>1. CASE args.orphans
        <5>1. Doomed \cup Dangling(start) = Chosen \cup Dangling(start)
          BY <4>1 DEF Doomed, Strays
        <5>. QED
          BY <2>4, <4>1, <5>1 DEF Touched
      <4>2. CASE ~args.orphans
        BY <2>4, <4>2 DEF Touched, Doomed
      <4>. QED
        BY <4>1, <4>2
    <3>2. Dangling(start) \subseteq start.rows
      BY SelectionTypes
    <3>3. \A s \in start.rows : start.owner[s] \in start.projects
      BY <2>5 DEF OwnersOf
    <3>4. gone = {p \in start.projects :
                    /\ \A s \in start.rows : start.owner[s] = p => s \in Doomed
                    /\ (\E s \in start.rows : start.owner[s] = p) \/ args.prune}
      BY <2>5, <3>3 DEF PreviewProjects
    <3>5. \A p \in start.projects :
              p \notin StartOwners(store.rows)
                <=> \A s \in start.rows : start.owner[s] = p => s \in Doomed
      BY <2>1 DEF StartOwners
    <3>6. \A p \in start.projects : p \notin StartOwners(store.rows) =>
              (p \in Touched <=> \E s \in start.rows : start.owner[s] = p)
      <4>. SUFFICES ASSUME NEW p \in start.projects, p \notin StartOwners(store.rows)
                    PROVE  p \in Touched <=> \E s \in start.rows : start.owner[s] = p
        OBVIOUS
      <4>1. p \in Touched => \E s \in start.rows : start.owner[s] = p
        BY <2>2, <3>1, <3>2 DEF StartOwners
      <4>2. ASSUME NEW s \in start.rows, start.owner[s] = p PROVE p \in Touched
        <5>1. s \in Doomed
          BY <3>5, <4>2
        <5>. QED
          BY <3>1, <4>2, <5>1 DEF StartOwners
      <4>. QED
        BY <4>1, <4>2
    <3>. QED
      BY <2>4, <3>4, <3>5, <3>6
  <2>7. ASSUME exit = "ok"
        PROVE  /\ start.files \ store.files = preview.files
               /\ start.snapshots \ store.snapshots = preview.snapshots
    <3>1. ~partial
      BY <2>7 DEF FilesInv, Completed
    <3>2. /\ store.files = start.files \ (IF args.orphans THEN Ids \ store.rows
                                          ELSE start.rows \ store.rows)
          /\ store.snapshots = start.snapshots \ (IF args.orphans THEN Projects \ store.projects
                                                  ELSE pruned)
      BY <3>1 DEF FilesInv, SweptAll
    <3>3. start.files \ store.files = preview.files
      BY <2>1, <2>2, <2>3, <2>5, <3>2
    <3>4. start.snapshots \ store.snapshots = preview.snapshots
      <4>. HIDE DEF gone
      <4>. QED
        BY <2>3, <2>4, <2>5, <2>6, <3>2
    <3>. QED
      BY <3>3, <3>4
  <2>. QED
    BY <2>1, <2>2, <2>3, <2>4, <2>6, <2>7
<1>. QED
  BY <1>1, <1>2, ShownStep, PrunedStep, FilesStep, CleanInvariant, PTL DEF Spec
=============================================================================
