---------------------------- MODULE CleanRunProofs ----------------------------
(* Theorems about CleanRun, for every set of sessions and projects, every   *)
(* database, command line, batch size and number of passes, signals and     *)
(* runs.                                                                    *)
EXTENDS CleanRun, SelectionTheorems

USE DEF command, plan, loop, report, signal, history

(***************************************************************************)
(* The operators of the selection yield sets of rows.                      *)
(***************************************************************************)

(* Retention, selection, orphans and the preview name only existing sessions. *)
LEMMA SelectionTypes ==
    ASSUME NEW db, NEW S, NEW K, NEW keep, NEW orphans
    PROVE  /\ Subtree(db, S) \subseteq db.rows
           /\ Retained(db, keep) \subseteq db.rows
           /\ Selected(db, S, K) \subseteq db.rows
           /\ Dangling(db) \subseteq db.rows
           /\ PreviewSessions(db, S, K, orphans) \subseteq db.rows
<1>1. \A T : Subtree(db, T) \subseteq db.rows
  BY SubtreeClosed
<1>2. Retained(db, keep) \subseteq db.rows
  BY <1>1 DEF Retained
<1>3. Selected(db, S, K) \subseteq db.rows
  BY <1>1 DEF Selected
<1>4. Dangling(db) \subseteq db.rows
  BY <1>1 DEF Dangling
<1>5. PreviewSessions(db, S, K, orphans) \subseteq db.rows
  BY <1>1, <1>4 DEF PreviewSessions
<1>. QED
  BY <1>1, <1>2, <1>3, <1>4, <1>5

(***************************************************************************)
(* Types                                                                   *)
(***************************************************************************)

USE DEF Steps, ReadOnlySteps, DeletionSteps, CleanupSteps, ReclaimSteps, Exits

(* Taking rows, projects, files or snapshots away leaves a store.           *)
LEMMA StoreUpdates ==
    ASSUME NEW db \in Store, NEW S, NEW E, NEW P
    PROVE  /\ [db EXCEPT !.rows = @ \ S, !.events = @ \ E] \in Store
           /\ [db EXCEPT !.projects = @ \ P] \in Store
           /\ [db EXCEPT !.files = @ \ S] \in Store
           /\ [db EXCEPT !.snapshots = @ \ P] \in Store
           /\ [db EXCEPT !.snapshots = @ \ P, !.files = @ \ S] \in Store
  BY DEF Store

(* A cleanup records whether something was left.                            *)
LEMMA RemovesType ==
    ASSUME NEW eligible, NEW removed, Removes(eligible, removed), partial \in BOOLEAN
    PROVE  partial' \in BOOLEAN /\ removed \subseteq eligible
<1>1. removed \subseteq eligible
  <2>1. CASE Faults
    BY <2>1 DEF Removes
  <2>2. CASE ~Faults
    BY <2>2 DEF Removes
  <2>. QED
    BY <2>1, <2>2
<1>2. partial' \in BOOLEAN
  <2>1. CASE Faults
    BY <2>1 DEF Removes
  <2>2. CASE ~Faults
    BY <2>2 DEF Removes
  <2>. QED
    BY <2>1, <2>2
<1>. QED
  BY <1>1, <1>2

(* What a fresh process starts with.                                        *)
LEMMA FreshTypes ==
    /\ Nothing \in [sessions : SUBSET Ids, projects : SUBSET Projects,
                    files : SUBSET Ids, snapshots : SUBSET Projects]
    /\ 0 \in 0 .. MaxPasses
    /\ 0 \in 0 .. MaxSignals
  BY CleanAssumption DEF Nothing

(* Where a step can go, and how it can end.                                 *)
LEMMA StepTypes ==
    ASSUME NEW step \in Steps, TypeOK
    PROVE  /\ Goto(step) => pc' \in Steps /\ exit' \in Exits
           /\ CheckBefore(step) => pc' \in Steps /\ exit' \in Exits
           /\ CheckThen(step) => pc' \in Steps /\ exit' \in Exits
           /\ Interrupt => pc' \in Steps /\ exit' \in Exits
  BY DEF Goto, CheckBefore, CheckThen, Interrupt, Finish, TypeOK

(* The steps before the deletion keep the types.                            *)
LEMMA ReadOnlyType ==
    TypeOK /\ (Inspect \/ AcquireLock \/ SelectSessions \/ Preview \/ Confirm) => TypeOK'
<1>. SUFFICES ASSUME TypeOK, Inspect \/ AcquireLock \/ SelectSessions \/ Preview \/ Confirm
              PROVE  TypeOK'
  OBVIOUS
<1>. USE DEF TypeOK
<1>1. CASE Inspect
  BY <1>1 DEF Inspect, CheckBefore, Goto, Finish
<1>2. CASE AcquireLock
  BY <1>2 DEF AcquireLock, Goto
<1>3. CASE SelectSessions
  <2>1. kept' \in SUBSET Ids /\ purge' \in SUBSET Ids
    <3>1. /\ store.rows \in SUBSET Ids
          /\ Retained(store, args.keep) \subseteq store.rows
          /\ \A K : Selected(store, Matches, K) \subseteq store.rows
      BY SelectionTypes DEF Store
    <3>2. CASE HasCycle(store)
      BY <1>3, <3>2 DEF SelectSessions
    <3>3. CASE ~HasCycle(store)
      BY <1>3, <3>1, <3>3 DEF SelectSessions
    <3>. QED
      BY <3>2, <3>3
  <2>. QED
    BY <1>3, <2>1 DEF SelectSessions, Goto, Finish
<1>4. CASE Preview
  <2>. DEFINE sessions == PreviewSessions(store, Matches, kept, args.orphans)
              gone == PreviewProjects(store, sessions, args.prune)
  <2>1. sessions \in SUBSET Ids
    BY SelectionTypes DEF Store
  <2>2. gone \in SUBSET Projects
    BY DEF PreviewProjects
  <2>3. preview' \in [sessions : SUBSET Ids, projects : SUBSET Projects,
                      files : SUBSET Ids, snapshots : SUBSET Projects]
    <3>. HIDE DEF sessions, gone
    <3>1. /\ store.files \in SUBSET Ids /\ store.snapshots \in SUBSET Projects
          /\ preview' = [sessions  |-> sessions,
                         projects  |-> gone,
                         files     |-> store.files \cap
                                         (sessions \cup IF args.orphans THEN Ids \ store.rows ELSE {}),
                         snapshots |-> store.snapshots \cap
                                         (gone \cup IF args.orphans THEN Projects \ store.projects
                                                    ELSE {})]
      BY <1>4 DEF Preview, Store, sessions, gone
    <3>. QED
      BY <2>1, <2>2, <3>1
  <2>. QED
    BY <1>4, <2>3 DEF Preview, Goto, Finish
<1>5. CASE Confirm
  BY <1>5 DEF Confirm, CheckBefore, Goto, Finish, OwnersOf, Store
<1>. QED
  BY <1>1, <1>2, <1>3, <1>4, <1>5

(* The steps of the deletion keep the types.                                *)
LEMMA DeletionType ==
    TypeOK /\ (CommitBatch \/ ReportBatch \/ EndLoop \/ SessionsDone \/ SelectOrphans
                 \/ DanglingPass \/ OrphansDone) => TypeOK'
<1>. SUFFICES ASSUME TypeOK, CommitBatch \/ ReportBatch \/ EndLoop \/ SessionsDone
                               \/ SelectOrphans \/ DanglingPass \/ OrphansDone
              PROVE  TypeOK'
  OBVIOUS
<1>. USE DEF TypeOK
<1>1. CASE CommitBatch
  <2>1. store' \in Store
    BY <1>1, StoreUpdates DEF CommitBatch
  <2>2. purge' \in SUBSET Ids
    BY <1>1 DEF CommitBatch
  <2>3. batch' \in SUBSET Ids /\ deleted' \in SUBSET Ids
    BY <1>1 DEF CommitBatch, Store
  <2>4. late' \in Nat
    BY <1>1 DEF CommitBatch
  <2>. QED
    BY <1>1, <2>1, <2>2, <2>3, <2>4 DEF CommitBatch, Goto
<1>2. CASE ReportBatch
  BY <1>2 DEF ReportBatch, AfterLoop, Goto
<1>3. CASE EndLoop
  BY <1>3 DEF EndLoop, AfterLoop, Goto
<1>4. CASE SessionsDone \/ OrphansDone
  BY <1>4, StepTypes DEF SessionsDone, OrphansDone
<1>5. CASE SelectOrphans
  <2>0. /\ store.rows \in SUBSET Ids /\ store.events \in SUBSET Ids
        /\ store.owner \in [Ids -> Projects]
    BY DEF Store
  <2>1. Dangling(store) \in SUBSET Ids
    BY <2>0, SelectionTypes
  <2>2. OwnersOf(Dangling(store)) \in SUBSET Projects
    BY <2>0, <2>1 DEF OwnersOf
  <2>3. candidates' \in SUBSET Ids
    BY <1>5, <2>1 DEF SelectOrphans
  <2>4. purge' \in SUBSET Ids
    BY <1>5, <2>0 DEF SelectOrphans
  <2>5. affected' \in SUBSET Projects
    BY <1>5, <2>2 DEF SelectOrphans
  <2>. QED
    BY <1>5, <2>3, <2>4, <2>5 DEF SelectOrphans, Goto
<1>6. CASE DanglingPass
  BY <1>6, CleanAssumption DEF DanglingPass, Goto, Store
<1>. QED
  BY <1>1, <1>2, <1>3, <1>4, <1>5, <1>6

(* The cleanup steps keep the types.                                        *)
LEMMA CleanupType ==
    TypeOK /\ (PruneProjects \/ CheckIntegrity \/ SweepThisRun \/ RemovePruned \/ SweepOrphans
                 \/ CompactSnapshots) => TypeOK'
<1>. SUFFICES ASSUME TypeOK, PruneProjects \/ CheckIntegrity \/ SweepThisRun \/ RemovePruned
                               \/ SweepOrphans \/ CompactSnapshots
              PROVE  TypeOK'
  OBVIOUS
<1>. USE DEF TypeOK
<1>1. CASE PruneProjects
  <2>1. store' \in Store /\ pruned' \in SUBSET Projects
    BY <1>1, StoreUpdates DEF PruneProjects, Store
  <2>. QED
    BY <1>1, <2>1, StepTypes DEF PruneProjects
<1>2. CASE CheckIntegrity
  BY <1>2, StepTypes DEF CheckIntegrity, Finish
<1>3. CASE SweepThisRun
  <2>1. store' \in Store /\ partial' \in BOOLEAN
    <3>1. PICK removed \in SUBSET Ids :
              /\ Removes((store.files \cap reported) \ store.rows, removed)
              /\ store' = [store EXCEPT !.files = @ \ removed]
      BY <1>3 DEF SweepThisRun
    <3>. QED
      BY <3>1, StoreUpdates, RemovesType
  <2>. QED
    BY <1>3, <2>1, StepTypes DEF SweepThisRun
<1>4. CASE RemovePruned
  <2>1. store' \in Store /\ partial' \in BOOLEAN
    <3>1. PICK removed \in SUBSET Projects :
              /\ Removes(store.snapshots \cap pruned, removed)
              /\ store' = [store EXCEPT !.snapshots = @ \ removed]
      BY <1>4 DEF RemovePruned
    <3>. QED
      BY <3>1, StoreUpdates, RemovesType
  <2>. QED
    BY <1>4, <2>1, StepTypes DEF RemovePruned
<1>5. CASE SweepOrphans
  <2>1. store' \in Store /\ partial' \in BOOLEAN
    <3>1. PICK dirs \in SUBSET Projects, removed \in SUBSET Ids :
              /\ Removes(store.files \ store.rows, removed)
              /\ store' = [store EXCEPT !.snapshots = @ \ dirs, !.files = @ \ removed]
      BY <1>5 DEF SweepOrphans
    <3>. QED
      BY <3>1, StoreUpdates, RemovesType
  <2>. QED
    BY <1>5, <2>1, StepTypes DEF SweepOrphans
<1>6. CASE CompactSnapshots
  BY <1>6, StepTypes, RemovesType DEF CompactSnapshots
<1>. QED
  BY <1>1, <1>2, <1>3, <1>4, <1>5, <1>6

(* Reclaim and report keep the types.                                       *)
LEMMA ReclaimType ==
    TypeOK /\ (PostDeleteHeadroom \/ BeginReclaim \/ IncrementalVacuum \/ EnterSwap \/ LeaveSwap
                 \/ EndRebuild \/ WriteReport) => TypeOK'
<1>. SUFFICES ASSUME TypeOK, PostDeleteHeadroom \/ BeginReclaim \/ IncrementalVacuum \/ EnterSwap
                               \/ LeaveSwap \/ EndRebuild \/ WriteReport
              PROVE  TypeOK'
  OBVIOUS
<1>. USE DEF TypeOK
<1>1. CASE PostDeleteHeadroom \/ EndRebuild
  BY <1>1, StepTypes DEF PostDeleteHeadroom, EndRebuild
<1>2. CASE BeginReclaim \/ LeaveSwap
  BY <1>2, StepTypes DEF BeginReclaim, LeaveSwap
<1>3. CASE IncrementalVacuum \/ EnterSwap
  BY <1>3, StepTypes DEF IncrementalVacuum, EnterSwap
<1>4. CASE WriteReport
  BY <1>4 DEF WriteReport, Finish
<1>. QED
  BY <1>1, <1>2, <1>3, <1>4

(* So do failures, signals, kills and another run.                          *)
LEMMA OtherType ==
    TypeOK /\ (PhaseFails \/ NoteSignal \/ HandleSignal \/ Kill \/ Rerun) => TypeOK'
<1>. SUFFICES ASSUME TypeOK, PhaseFails \/ NoteSignal \/ HandleSignal \/ Kill \/ Rerun
              PROVE  TypeOK'
  OBVIOUS
<1>. USE DEF TypeOK
<1>1. CASE PhaseFails \/ Kill
  BY <1>1 DEF PhaseFails, Kill, Finish
<1>2. CASE NoteSignal
  BY <1>2, CleanAssumption DEF NoteSignal
<1>3. CASE HandleSignal
  BY <1>3, StepTypes DEF HandleSignal, Finish
<1>4. CASE Rerun
  <2>1. /\ pc' \in Steps /\ exit' \in Exits /\ run' \in Nat
        /\ args' \in Arguments /\ store' \in Store /\ start' \in Store
        /\ late' \in Nat /\ deleted' \in SUBSET Ids
    BY <1>4 DEF Rerun
  <2>2. /\ preview' \in [sessions : SUBSET Ids, projects : SUBSET Projects,
                         files : SUBSET Ids, snapshots : SUBSET Projects]
        /\ passes' \in 0 .. MaxPasses /\ signals' \in 0 .. MaxSignals
    BY <1>4, FreshTypes DEF Rerun
  <2>3. /\ kept' = {} /\ purge' = {} /\ phase' = "sessions" /\ batch' = {} /\ candidates' = {}
        /\ affected' = {} /\ pruned' = {} /\ reported' = {} /\ partial' = FALSE
        /\ cancelled' = FALSE /\ mode' = "Normal" /\ pending' = "none"
    BY <1>4 DEF Rerun
  <2>. QED
    BY <2>1, <2>2, <2>3
<1>. QED
  BY <1>1, <1>2, <1>3, <1>4

(* Every step keeps the types.                                              *)
LEMMA TypeStep == TypeOK /\ [Next]_vars => TypeOK'
<1>1. TypeOK /\ UNCHANGED vars => TypeOK'
  BY DEF TypeOK, vars
<1>. QED
  BY <1>1, ReadOnlyType, DeletionType, CleanupType, ReclaimType, OtherType DEF Next, Work

(* The types hold in the beginning.                                         *)
LEMMA TypeInit == Init => TypeOK
<1>. SUFFICES ASSUME Init PROVE TypeOK
  OBVIOUS
<1>1. store \in Store /\ start \in Store
  BY CleanAssumption DEF Init
<1>2. /\ preview \in [sessions : SUBSET Ids, projects : SUBSET Projects,
                      files : SUBSET Ids, snapshots : SUBSET Projects]
      /\ passes \in 0 .. MaxPasses /\ signals \in 0 .. MaxSignals
  BY FreshTypes DEF Init
<1>3. /\ pc = "inspect" /\ exit = "none" /\ late = 0 /\ deleted = {} /\ run = 1
      /\ args \in Arguments
      /\ kept = {} /\ purge = {} /\ phase = "sessions" /\ batch = {} /\ candidates = {}
      /\ affected = {} /\ pruned = {} /\ reported = {} /\ partial = FALSE
      /\ cancelled = FALSE /\ mode = "Normal" /\ pending = "none"
  BY DEF Init
<1>. QED
  BY <1>1, <1>2, <1>3 DEF TypeOK

(* Type correctness.                                                        *)
THEOREM CleanTypeCorrect == Spec => []TypeOK
  BY TypeInit, TypeStep, PTL DEF Spec

(***************************************************************************)
(* What stays.  That live data stays is not inductive by itself: the       *)
(* snapshots of pruned projects are removed some steps after the projects, *)
(* so a pruned project must still be absent then.                          *)
(***************************************************************************)

LiveInv == LiveKeepTheirData /\ pruned \cap store.projects = {}

(* The steps that touch neither the store nor what was pruned.              *)
Bystander ==
    \/ Inspect \/ AcquireLock \/ SelectSessions \/ Preview \/ Confirm
    \/ ReportBatch \/ EndLoop \/ SessionsDone \/ SelectOrphans \/ DanglingPass \/ OrphansDone
    \/ CheckIntegrity \/ CompactSnapshots \/ PostDeleteHeadroom \/ BeginReclaim
    \/ IncrementalVacuum \/ EnterSwap \/ LeaveSwap \/ EndRebuild \/ WriteReport
    \/ PhaseFails \/ NoteSignal \/ HandleSignal \/ Kill

(* They do not.                                                             *)
LEMMA BystanderFrame == Bystander => UNCHANGED <<store, start, pruned>>
<1>1. Inspect \/ AcquireLock \/ SelectSessions \/ Preview \/ Confirm
        => UNCHANGED <<store, start, pruned>>
  BY DEF Inspect, AcquireLock, SelectSessions, Preview, Confirm
<1>2. ReportBatch \/ EndLoop \/ SessionsDone \/ SelectOrphans \/ DanglingPass \/ OrphansDone
        => UNCHANGED <<store, start, pruned>>
  BY DEF ReportBatch, EndLoop, SessionsDone, SelectOrphans, DanglingPass, OrphansDone
<1>3. CheckIntegrity \/ CompactSnapshots \/ PostDeleteHeadroom \/ BeginReclaim
        => UNCHANGED <<store, start, pruned>>
  BY DEF CheckIntegrity, CompactSnapshots, PostDeleteHeadroom, BeginReclaim
<1>4. IncrementalVacuum \/ EnterSwap \/ LeaveSwap \/ EndRebuild \/ WriteReport
        => UNCHANGED <<store, start, pruned>>
  BY DEF IncrementalVacuum, EnterSwap, LeaveSwap, EndRebuild, WriteReport
<1>5. PhaseFails \/ NoteSignal \/ HandleSignal \/ Kill => UNCHANGED <<store, start, pruned>>
  BY DEF PhaseFails, NoteSignal, HandleSignal, Kill
<1>. QED
  BY <1>1, <1>2, <1>3, <1>4, <1>5 DEF Bystander

(* Taking files or snapshots away that no row and no project claims.        *)
LEMMA UnclaimedMayGo ==
    ASSUME TypeOK, LiveInv,
           NEW files, NEW dirs, files \cap store.rows = {}, dirs \cap store.projects = {},
           \/ store' = [store EXCEPT !.files = @ \ files]
           \/ store' = [store EXCEPT !.snapshots = @ \ dirs]
           \/ store' = [store EXCEPT !.snapshots = @ \ dirs, !.files = @ \ files],
           UNCHANGED <<start, pruned>>
    PROVE  LiveInv'
<1>1. /\ store'.rows = store.rows /\ store'.owner = store.owner
      /\ store'.projects = store.projects /\ store'.events = store.events
      /\ store.files \ files \subseteq store'.files
      /\ store.snapshots \ dirs \subseteq store'.snapshots
  BY DEF TypeOK, Store
<1>. QED
  BY <1>1 DEF LiveInv, LiveKeepTheirData, OwnersOf

(* The steps that change the store keep what is live.                       *)
LEMMA StoreStepsKeepLive ==
    TypeOK /\ LiveInv
      /\ (CommitBatch \/ PruneProjects \/ SweepThisRun \/ RemovePruned \/ SweepOrphans \/ Rerun)
      => LiveInv'
<1>. SUFFICES ASSUME TypeOK, LiveInv,
                     CommitBatch \/ PruneProjects \/ SweepThisRun \/ RemovePruned
                       \/ SweepOrphans \/ Rerun
              PROVE  LiveInv'
  OBVIOUS
<1>1. CASE CommitBatch
  <2>. DEFINE ids == LowestIds(purge, BatchSize)
  <2>1. /\ store'.rows = store.rows \ ids /\ store'.events = store.events \ ids
        /\ store'.owner = store.owner /\ store'.projects = store.projects
        /\ store'.files = store.files /\ store'.snapshots = store.snapshots
    BY <1>1 DEF CommitBatch, TypeOK, Store
  <2>2. UNCHANGED <<start, pruned>>
    BY <1>1 DEF CommitBatch
  <2>. HIDE DEF ids
  <2>. QED
    BY <2>1, <2>2 DEF LiveInv, LiveKeepTheirData, OwnersOf
<1>2. CASE PruneProjects
  <2>1. /\ pruned' \subseteq store.projects \ OwnersOf(store.rows)
        /\ store'.projects = store.projects \ pruned'
        /\ store'.rows = store.rows /\ store'.events = store.events /\ store'.owner = store.owner
        /\ store'.files = store.files /\ store'.snapshots = store.snapshots
        /\ start' = start
    BY <1>2 DEF PruneProjects, TypeOK, Store
  <2>. QED
    BY <2>1 DEF LiveInv, LiveKeepTheirData, OwnersOf
<1>3. CASE SweepThisRun
  <2>1. PICK removed \in SUBSET Ids :
            /\ Removes((store.files \cap reported) \ store.rows, removed)
            /\ store' = [store EXCEPT !.files = @ \ removed]
    BY <1>3 DEF SweepThisRun
  <2>2. removed \cap store.rows = {}
    BY <2>1, RemovesType DEF TypeOK
  <2>3. UNCHANGED <<start, pruned>>
    BY <1>3 DEF SweepThisRun
  <2>. QED
    BY <2>1, <2>2, <2>3, UnclaimedMayGo
<1>4. CASE RemovePruned
  <2>1. PICK removed \in SUBSET Projects :
            /\ Removes(store.snapshots \cap pruned, removed)
            /\ store' = [store EXCEPT !.snapshots = @ \ removed]
    BY <1>4 DEF RemovePruned
  <2>2. removed \cap store.projects = {}
    BY <2>1, RemovesType DEF TypeOK, LiveInv
  <2>3. UNCHANGED <<start, pruned>>
    BY <1>4 DEF RemovePruned
  <2>. QED
    BY <2>1, <2>2, <2>3, UnclaimedMayGo
<1>5. CASE SweepOrphans
  <2>1. PICK dirs \in SUBSET Projects, files \in SUBSET Ids :
            /\ Removes(store.snapshots \ store.projects, dirs)
            /\ Removes(store.files \ store.rows, files)
            /\ store' = [store EXCEPT !.snapshots = @ \ dirs, !.files = @ \ files]
    BY <1>5 DEF SweepOrphans
  <2>2. files \cap store.rows = {} /\ dirs \cap store.projects = {}
    BY <2>1, RemovesType DEF TypeOK
  <2>3. UNCHANGED <<start, pruned>>
    BY <1>5 DEF SweepOrphans
  <2>. QED
    BY <2>1, <2>2, <2>3, UnclaimedMayGo
<1>6. CASE Rerun
  BY <1>6 DEF Rerun, LiveInv, LiveKeepTheirData, OwnersOf
<1>. QED
  BY <1>1, <1>2, <1>3, <1>4, <1>5, <1>6

(* Live sessions keep their project, files and events and live projects     *)
(* their snapshots, whatever is selected, fails or is interrupted.          *)
THEOREM LiveDataStays == Spec => []LiveKeepTheirData
<1>1. Init => LiveInv
  BY DEF Init, LiveInv, LiveKeepTheirData, OwnersOf
<1>2. TypeOK /\ LiveInv /\ [Next]_vars => LiveInv'
  <2>1. LiveInv /\ UNCHANGED <<store, start, pruned>> => LiveInv'
    BY DEF LiveInv, LiveKeepTheirData, OwnersOf
  <2>2. LiveInv /\ Bystander => LiveInv'
    BY <2>1, BystanderFrame
  <2>3. LiveInv /\ UNCHANGED vars => LiveInv'
    BY <2>1 DEF vars
  <2>. QED
    BY <2>2, <2>3, StoreStepsKeepLive DEF Next, Work, Bystander
<1>3. LiveInv => LiveKeepTheirData
  BY DEF LiveInv
<1>. QED
  BY <1>1, <1>2, <1>3, CleanTypeCorrect, PTL DEF Spec

(***************************************************************************)
(* The report.  Between the commit of a batch and its report the two       *)
(* differ by that batch; an error, an abort or a kill may end the run      *)
(* there, and then no count is printed.                                    *)
(***************************************************************************)

Unreported == IF pc = "checkpoint" THEN batch ELSE {}

ReportInv ==
    /\ exit = "none" <=> pc # "done"
    /\ store.rows \subseteq start.rows
    /\ exit \notin {"error", "aborted", "killed"} =>
           start.rows \ store.rows = reported \cup Unreported

(* The steps other than those of a batch and a new run change no row, end   *)
(* the run at most once, and find or leave no batch to report unless they   *)
(* end it without a count.                                                  *)
Quiet ==
    /\ store'.rows = store.rows /\ start' = start
    /\ reported' = reported /\ batch' = batch
    /\ exit' = "none" <=> pc' # "done"
    /\ exit' \notin {"error", "aborted", "killed"} => (pc' = "checkpoint" <=> pc = "checkpoint")
    /\ exit # "none" => exit' = exit

(* Quiet steps keep the invariant of the report.                            *)
LEMMA QuietKeepsReport == ReportInv /\ Quiet /\ pc # "done" => ReportInv'
  BY DEF ReportInv, Quiet, Unreported

(* Before and during the deletion.                                          *)
LEMMA EarlyQuiet ==
    TypeOK /\ ReportInv
      /\ (Inspect \/ AcquireLock \/ SelectSessions \/ Preview \/ Confirm
            \/ EndLoop \/ SessionsDone \/ SelectOrphans \/ DanglingPass \/ OrphansDone)
      => Quiet /\ pc # "done"
<1>. SUFFICES ASSUME TypeOK, ReportInv,
                     Inspect \/ AcquireLock \/ SelectSessions \/ Preview \/ Confirm
                       \/ EndLoop \/ SessionsDone \/ SelectOrphans \/ DanglingPass \/ OrphansDone
              PROVE  Quiet /\ pc # "done"
  OBVIOUS
<1>. USE DEF Quiet, ReportInv, Goto, Finish, CheckBefore, CheckThen, Interrupt
<1>1. CASE Inspect \/ AcquireLock
  BY <1>1 DEF Inspect, AcquireLock
<1>2. CASE SelectSessions
  BY <1>2 DEF SelectSessions
<1>3. CASE Preview
  BY <1>3 DEF Preview
<1>4. CASE Confirm
  BY <1>4 DEF Confirm
<1>5. CASE EndLoop
  BY <1>5 DEF EndLoop, AfterLoop, TypeOK
<1>6. CASE SessionsDone \/ OrphansDone
  BY <1>6 DEF SessionsDone, OrphansDone
<1>7. CASE SelectOrphans
  BY <1>7 DEF SelectOrphans
<1>8. CASE DanglingPass
  BY <1>8 DEF DanglingPass
<1>. QED
  BY <1>1, <1>2, <1>3, <1>4, <1>5, <1>6, <1>7, <1>8

(* After the deletion.                                                      *)
LEMMA LateQuiet ==
    TypeOK /\ ReportInv
      /\ (PruneProjects \/ CheckIntegrity \/ SweepThisRun \/ RemovePruned \/ SweepOrphans
            \/ CompactSnapshots \/ PostDeleteHeadroom \/ BeginReclaim \/ IncrementalVacuum
            \/ EnterSwap \/ LeaveSwap \/ EndRebuild \/ WriteReport)
      => Quiet /\ pc # "done"
<1>. SUFFICES ASSUME TypeOK, ReportInv,
                     PruneProjects \/ CheckIntegrity \/ SweepThisRun \/ RemovePruned \/ SweepOrphans
                       \/ CompactSnapshots \/ PostDeleteHeadroom \/ BeginReclaim
                       \/ IncrementalVacuum \/ EnterSwap \/ LeaveSwap \/ EndRebuild \/ WriteReport
              PROVE  Quiet /\ pc # "done"
  OBVIOUS
<1>. USE DEF Quiet, ReportInv, Goto, Finish, CheckThen, Interrupt
<1>1. CASE PruneProjects
  <2>1. store'.rows = store.rows
    BY <1>1 DEF PruneProjects, TypeOK, Store
  <2>. QED
    BY <1>1, <2>1 DEF PruneProjects
<1>2. CASE CheckIntegrity \/ CompactSnapshots
  BY <1>2 DEF CheckIntegrity, CompactSnapshots
<1>3. CASE SweepThisRun
  <2>1. store'.rows = store.rows
    BY <1>3 DEF SweepThisRun, TypeOK, Store
  <2>. QED
    BY <1>3, <2>1 DEF SweepThisRun
<1>4. CASE RemovePruned
  <2>1. store'.rows = store.rows
    BY <1>4 DEF RemovePruned, TypeOK, Store
  <2>. QED
    BY <1>4, <2>1 DEF RemovePruned
<1>5. CASE SweepOrphans
  <2>1. store'.rows = store.rows
    BY <1>5 DEF SweepOrphans, TypeOK, Store
  <2>. QED
    BY <1>5, <2>1 DEF SweepOrphans
<1>6. CASE PostDeleteHeadroom \/ BeginReclaim \/ IncrementalVacuum
  BY <1>6 DEF PostDeleteHeadroom, BeginReclaim, IncrementalVacuum
<1>7. CASE EnterSwap \/ LeaveSwap \/ EndRebuild \/ WriteReport
  BY <1>7 DEF EnterSwap, LeaveSwap, EndRebuild, WriteReport
<1>. QED
  BY <1>1, <1>2, <1>3, <1>4, <1>5, <1>6, <1>7

(* Failures, signals and kills.                                             *)
LEMMA FaultQuiet ==
    ReportInv /\ (PhaseFails \/ NoteSignal \/ HandleSignal \/ Kill) => Quiet /\ pc # "done"
<1>. SUFFICES ASSUME ReportInv, PhaseFails \/ NoteSignal \/ HandleSignal \/ Kill
              PROVE  Quiet /\ pc # "done"
  OBVIOUS
<1>. USE DEF Quiet, ReportInv, Goto, Finish, Interrupt
<1>1. CASE PhaseFails
  BY <1>1 DEF PhaseFails
<1>2. CASE NoteSignal \/ HandleSignal
  BY <1>2 DEF NoteSignal, HandleSignal
<1>3. CASE Kill
  BY <1>3 DEF Kill
<1>. QED
  BY <1>1, <1>2, <1>3

(* The two steps of a batch move it from the rows to the report.            *)
LEMMA BatchKeepsReport ==
    TypeOK /\ ReportInv /\ (CommitBatch \/ ReportBatch \/ Rerun) => ReportInv'
<1>. SUFFICES ASSUME TypeOK, ReportInv, CommitBatch \/ ReportBatch \/ Rerun PROVE ReportInv'
  OBVIOUS
<1>. USE DEF ReportInv, Unreported
<1>1. CASE CommitBatch
  <2>. DEFINE ids == LowestIds(purge, BatchSize)
  <2>1. /\ store'.rows = store.rows \ ids /\ batch' = ids \cap store.rows
        /\ pc = "batch" /\ pc' = "checkpoint"
        /\ UNCHANGED <<exit, start, reported>>
    BY <1>1 DEF CommitBatch, Goto, TypeOK, Store
  <2>. HIDE DEF ids
  <2>. QED
    BY <2>1
<1>2. CASE ReportBatch
  <2>1. /\ pc = "checkpoint" /\ pc' \notin {"checkpoint", "done"}
        /\ reported' = reported \cup batch
        /\ UNCHANGED <<exit, start, store>>
    BY <1>2 DEF ReportBatch, Goto, AfterLoop, TypeOK
  <2>. QED
    BY <2>1
<1>3. CASE Rerun
  BY <1>3 DEF Rerun
<1>. QED
  BY <1>1, <1>2, <1>3

(* Every step keeps the invariant of the report.                            *)
LEMMA ReportStep == TypeOK /\ ReportInv /\ [Next]_vars => ReportInv'
<1>1. ReportInv /\ UNCHANGED vars => ReportInv'
  BY DEF ReportInv, Unreported, vars
<1>. QED
  BY <1>1, QuietKeepsReport, EarlyQuiet, LateQuiet, FaultQuiet, BatchKeepsReport DEF Next, Work

(* The count a run prints, also when it is interrupted, is exact.           *)
THEOREM ReportIsExact == Spec => []ReportExact
<1>1. Init => ReportInv
  BY DEF Init, ReportInv, Unreported
<1>2. ReportInv => ReportExact
  BY DEF ReportInv, Unreported, ReportExact
<1>. QED
  BY <1>1, <1>2, ReportStep, CleanTypeCorrect, PTL DEF Spec

(***************************************************************************)
(* Signals                                                                 *)
(***************************************************************************)

(* An abort is decided only outside the swap and follows an earlier signal, *)
(* whose flag keeps the run from entering the swap from then on.            *)
AbortInv == pending = "abort" => cancelled /\ mode # "Swap"

(* No step breaks it: only the three steps below touch both sides.          *)
LEMMA AbortStep == TypeOK /\ AbortInv /\ [Next]_vars => AbortInv'
<1>. SUFFICES ASSUME TypeOK, AbortInv, [Next]_vars PROVE AbortInv'
  OBVIOUS
<1>. USE DEF AbortInv
<1>1. CASE Confirm
  BY <1>1 DEF Confirm, CheckBefore, Goto, Finish
<1>2. CASE BeginReclaim \/ LeaveSwap
  BY <1>2 DEF BeginReclaim, LeaveSwap
<1>3. CASE EnterSwap
  BY <1>3 DEF EnterSwap
<1>4. CASE NoteSignal
  BY <1>4 DEF NoteSignal
<1>5. CASE HandleSignal \/ Rerun
  BY <1>5 DEF HandleSignal, Rerun
<1>6. CASE \/ Inspect \/ AcquireLock \/ SelectSessions \/ Preview \/ CommitBatch
           \/ ReportBatch \/ EndLoop \/ SessionsDone \/ SelectOrphans \/ DanglingPass
           \/ OrphansDone
  BY <1>6 DEF Inspect, AcquireLock, SelectSessions, Preview, CommitBatch, ReportBatch,
              EndLoop, SessionsDone, SelectOrphans, DanglingPass, OrphansDone
<1>7. CASE \/ PruneProjects \/ CheckIntegrity \/ SweepThisRun \/ RemovePruned
           \/ SweepOrphans \/ CompactSnapshots \/ PostDeleteHeadroom
           \/ IncrementalVacuum \/ EndRebuild \/ WriteReport \/ PhaseFails \/ Kill
           \/ UNCHANGED vars
  BY <1>7 DEF PruneProjects, CheckIntegrity, SweepThisRun, RemovePruned, SweepOrphans,
              CompactSnapshots, PostDeleteHeadroom, IncrementalVacuum, EndRebuild,
              WriteReport, PhaseFails, Kill, vars
<1>. QED
  BY <1>1, <1>2, <1>3, <1>4, <1>5, <1>6, <1>7 DEF Next, Work

(* The handler never ends the process while the database file is replaced.  *)
THEOREM NoAbortDuringSwap == Spec => []NoAbortInSwap
<1>1. Init => AbortInv
  BY DEF Init, AbortInv
<1>2. AbortInv => NoAbortInSwap
  BY DEF AbortInv, NoAbortInSwap
<1>. QED
  BY <1>1, <1>2, AbortStep, CleanTypeCorrect, PTL DEF Spec

(* While the selected sessions are deleted a batch begins only when none    *)
(* was committed since the first signal.                                    *)
LateInv ==
    phase = "sessions" =>
        /\ late \in {0, 1}
        /\ late = 1 => cancelled
        /\ pc \in ReadOnlySteps \cup {"batch"} => late = 0

(* Only a committed batch counts, and only an unset flag lets the next one  *)
(* begin.                                                                   *)
LEMMA LateStep == TypeOK /\ LateInv /\ [Next]_vars => LateInv'
<1>. SUFFICES ASSUME TypeOK, LateInv, [Next]_vars PROVE LateInv'
  OBVIOUS
<1>. USE DEF LateInv, Goto, Finish, CheckBefore, CheckThen, Interrupt
<1>1. CASE Inspect \/ AcquireLock \/ SelectSessions \/ Preview \/ Confirm
  BY <1>1 DEF Inspect, AcquireLock, SelectSessions, Preview, Confirm
<1>2. CASE CommitBatch
  <2>1. /\ pc = "batch" /\ pc' = "checkpoint"
        /\ late' = IF cancelled THEN late + 1 ELSE late
        /\ UNCHANGED <<phase, cancelled>>
    BY <1>2 DEF CommitBatch
  <2>. QED
    BY <2>1
<1>3. CASE ReportBatch \/ EndLoop
  BY <1>3 DEF ReportBatch, EndLoop, AfterLoop, TypeOK
<1>4. CASE SessionsDone \/ SelectOrphans \/ DanglingPass \/ OrphansDone
  BY <1>4 DEF SessionsDone, SelectOrphans, DanglingPass, OrphansDone
<1>5. CASE \/ PruneProjects \/ CheckIntegrity \/ SweepThisRun \/ RemovePruned
           \/ SweepOrphans \/ CompactSnapshots
  BY <1>5 DEF PruneProjects, CheckIntegrity, SweepThisRun, RemovePruned, SweepOrphans,
              CompactSnapshots
<1>6. CASE \/ PostDeleteHeadroom \/ BeginReclaim \/ IncrementalVacuum
           \/ EnterSwap \/ LeaveSwap \/ EndRebuild \/ WriteReport
  BY <1>6 DEF PostDeleteHeadroom, BeginReclaim, IncrementalVacuum, EnterSwap, LeaveSwap,
              EndRebuild, WriteReport
<1>7. CASE PhaseFails \/ NoteSignal \/ HandleSignal \/ Kill \/ Rerun \/ UNCHANGED vars
  BY <1>7 DEF PhaseFails, NoteSignal, HandleSignal, Kill, Rerun, vars
<1>. QED
  BY <1>1, <1>2, <1>3, <1>4, <1>5, <1>6, <1>7 DEF Next, Work

(* A signal stops the deletion of the selected sessions after one batch.    *)
THEOREM SignalStopsSessions == Spec => []CancelStopsSessions
<1>1. Init => LateInv
  BY DEF Init, LateInv
<1>2. LateInv => CancelStopsSessions
  BY DEF LateInv, CancelStopsSessions
<1>. QED
  BY <1>1, <1>2, LateStep, CleanTypeCorrect, PTL DEF Spec

(***************************************************************************)
(* A run ends                                                              *)
(***************************************************************************)

(* The steps ahead on the longest way, the repetitions of batches and       *)
(* passes aside; where a deletion loop stands depends on what it deletes.   *)
LoopAhead == [sessions |-> 19, events |-> 16, dangling |-> 15]
StepAhead ==
    [inspect |-> 24, lock |-> 23, select |-> 22, preview |-> 21, confirm |-> 20,
     sessions_done |-> 18, orphans |-> 17, pass |-> 15, orphans_done |-> 14,
     prune |-> 13, integrity |-> 12, sweep |-> 11, remove_pruned |-> 10,
     sweep_orphans |-> 9, gc |-> 8, headroom |-> 7, reclaim |-> 6, reclaiming |-> 5,
     swapping |-> 4, verifying |-> 3, report |-> 2, done |-> 0]
StepsLeft == IF pc \in {"batch", "checkpoint"} THEN LoopAhead[phase] ELSE StepAhead[pc]

(* Two steps for each session that is to be purged, and the end of the loop. *)
LoopLeft == CASE pc = "batch"      -> 2 * Cardinality(purge) + 1
              [] pc = "checkpoint" -> 2 * Cardinality(purge) + 2
              [] OTHER             -> 0

RunLeft == <<StepsLeft, MaxPasses - passes, LoopLeft>>
Less(a, b) ==
    \/ a[1] < b[1]
    \/ a[1] = b[1] /\ a[2] < b[2]
    \/ a[1] = b[1] /\ a[2] = b[2] /\ a[3] < b[3]

(* What is left to be purged is finite.                                     *)
LEMMA PurgeFinite ==
    ASSUME NEW S \in SUBSET Ids
    PROVE  IsFiniteSet(S) /\ Cardinality(S) \in Nat
BY IdsAssumption, FS_Subset, FS_CardinalityType

(* A batch takes at least one session.                                      *)
LEMMA BatchTakesOne ==
    ASSUME NEW S \in SUBSET Ids, S # {}
    PROVE  Cardinality(S \ LowestIds(S, BatchSize)) < Cardinality(S)
<1>. DEFINE rest == S \ LowestIds(S, BatchSize)
<1>1. S \subseteq Nat
  BY IdsAssumption
<1>2. PICK m \in S : \A n \in S : m <= n
  BY <1>1, LeastNumber
<1>3. {y \in S : y < m} = {}
  <2>1. ASSUME NEW y \in S, y < m PROVE FALSE
    <3>1. m \in Nat /\ y \in Nat /\ m <= y
      BY <1>1, <1>2
    <3>. QED
      BY <2>1, <3>1
  <2>. QED
    BY <2>1
<1>4. m \in LowestIds(S, BatchSize)
  <2>1. Cardinality({y \in S : y < m}) = 0
    BY <1>3, FS_EmptySet
  <2>2. 0 < BatchSize
    BY CleanAssumption
  <2>. QED
    BY <2>1, <2>2 DEF LowestIds
<1>5. rest \subseteq S /\ rest # S
  BY <1>4
<1>6. IsFiniteSet(S) /\ Cardinality(S) \in Nat /\ rest \in SUBSET Ids
  BY PurgeFinite
<1>. HIDE DEF rest
<1>7. Cardinality(rest) \in Nat
  BY <1>6, PurgeFinite
<1>8. Cardinality(rest) <= Cardinality(S) /\ Cardinality(rest) # Cardinality(S)
  BY <1>5, <1>6, FS_Subset
<1>. QED
  BY <1>6, <1>7, <1>8 DEF rest

(* What is left of a run is three numbers.                                  *)
LEMMA RunIsCounted == TypeOK => RunLeft \in Nat \X Nat \X Nat
<1>. SUFFICES ASSUME TypeOK PROVE RunLeft \in Nat \X Nat \X Nat
  OBVIOUS
<1>1. StepsLeft \in Nat
  BY DEF TypeOK, StepsLeft, LoopAhead, StepAhead
<1>2. MaxPasses - passes \in Nat
  BY CleanAssumption DEF TypeOK
<1>3. LoopLeft \in Nat
  <2>1. Cardinality(purge) \in Nat
    BY PurgeFinite DEF TypeOK
  <2>. QED
    BY <2>1 DEF LoopLeft
<1>. QED
  BY <1>1, <1>2, <1>3 DEF RunLeft

(* A step that leaves fewer steps ahead is progress, whatever is repeated.  *)
LEMMA FewerSteps ==
    ASSUME StepsLeft' < StepsLeft
    PROVE  Less(RunLeft', RunLeft)
BY DEF RunLeft, Less

(* The end of a run is behind all of its steps.                             *)
LEMMA DoneIsLast ==
    ASSUME TypeOK, pc # "done", pc' = "done"
    PROVE  Less(RunLeft', RunLeft)
<1>1. StepsLeft' < StepsLeft
  BY DEF TypeOK, StepsLeft, LoopAhead, StepAhead
<1>. QED
  BY <1>1, FewerSteps

(* A step further on the way, outside the loops, or the end.                *)
LEMMA GoesOn ==
    ASSUME TypeOK, NEW to, pc' \in {to, "done"}, pc \notin {"batch", "checkpoint", "done"},
           to \notin {"batch", "checkpoint"}, StepAhead[to] < StepAhead[pc]
    PROVE  Less(RunLeft', RunLeft)
<1>1. CASE pc' = to
  <2>1. StepsLeft' < StepsLeft
    BY <1>1 DEF StepsLeft
  <2>. QED
    BY <2>1, FewerSteps
<1>2. CASE pc' = "done"
  BY <1>2, DoneIsLast
<1>. QED
  BY <1>1, <1>2

(* The steps before the deletion.                                           *)
LEMMA ReadOnlyGoesOn ==
    ASSUME TypeOK, Inspect \/ AcquireLock \/ SelectSessions \/ Preview
    PROVE  Less(RunLeft', RunLeft)
<1>1. \/ pc = "inspect" /\ pc' \in {"lock", "done"}
      \/ pc = "lock"    /\ pc' \in {"select", "done"}
      \/ pc = "select"  /\ pc' \in {"preview", "done"}
      \/ pc = "preview" /\ pc' \in {"confirm", "done"}
  BY DEF Inspect, AcquireLock, SelectSessions, Preview, Goto, CheckBefore, Finish
<1>. QED
  BY <1>1, GoesOn DEF StepAhead

(* The answer begins the deletion or ends the run.                          *)
LEMMA ConfirmGoesOn ==
    ASSUME TypeOK, Confirm
    PROVE  Less(RunLeft', RunLeft)
<1>1. pc = "confirm" /\ pc' \in {"batch", "done"} /\ phase' = phase
  BY DEF Confirm, Goto, CheckBefore, Finish
<1>2. StepsLeft' < StepsLeft
  BY <1>1 DEF TypeOK, StepsLeft, LoopAhead, StepAhead
<1>. QED
  BY <1>2, FewerSteps

(* A batch, its report and the end of a loop.                               *)
LEMMA BatchGoesOn ==
    ASSUME TypeOK, CommitBatch \/ ReportBatch \/ EndLoop
    PROVE  Less(RunLeft', RunLeft)
<1>0. /\ Cardinality(purge) \in Nat /\ LoopLeft \in Nat /\ MaxPasses - passes \in Nat
      /\ phase \in {"sessions", "events", "dangling"}
  <2>1. Cardinality(purge) \in Nat
    BY PurgeFinite DEF TypeOK
  <2>. QED
    BY <2>1, CleanAssumption DEF TypeOK, LoopLeft
<1>1. CASE CommitBatch
  <2>1. /\ pc = "batch" /\ purge # {} /\ pc' = "checkpoint"
        /\ purge' = purge \ LowestIds(purge, BatchSize)
        /\ UNCHANGED <<phase, passes>>
    BY <1>1 DEF CommitBatch, Goto
  <2>2. purge \in SUBSET Ids /\ purge' \in SUBSET Ids
    BY <2>1 DEF TypeOK
  <2>3. Cardinality(purge') < Cardinality(purge) /\ Cardinality(purge') \in Nat
    BY <2>1, <2>2, BatchTakesOne, PurgeFinite
  <2>4. 2 * Cardinality(purge') + 2 < 2 * Cardinality(purge) + 1
    BY <1>0, <2>3
  <2>5. LoopLeft' < LoopLeft
    BY <2>1, <2>4 DEF LoopLeft
  <2>6. StepsLeft' = StepsLeft
    BY <2>1 DEF StepsLeft
  <2>. QED
    BY <2>1, <2>5, <2>6 DEF RunLeft, Less
<1>2. CASE (ReportBatch \/ EndLoop) /\ pc' = "batch"
  <2>1. pc = "checkpoint" /\ UNCHANGED <<purge, phase, passes>>
    BY <1>2 DEF ReportBatch, EndLoop, Goto, AfterLoop, TypeOK
  <2>2. LoopLeft' < LoopLeft
    BY <1>0, <1>2, <2>1 DEF LoopLeft
  <2>3. StepsLeft' = StepsLeft
    BY <1>2, <2>1 DEF StepsLeft
  <2>. QED
    BY <2>1, <2>2, <2>3 DEF RunLeft, Less
<1>3. CASE (ReportBatch \/ EndLoop) /\ pc' # "batch"
  <2>1. /\ pc \in {"batch", "checkpoint"} /\ UNCHANGED <<purge, phase, passes>>
        /\ \/ phase = "sessions" /\ pc' = "sessions_done"
           \/ phase = "events"   /\ pc' \in {"orphans_done", "pass"}
           \/ phase = "dangling" /\ pc' = "pass"
    BY <1>0, <1>3 DEF ReportBatch, EndLoop, Goto, AfterLoop
  <2>2. CASE phase # "dangling"
    <3>1. StepsLeft' < StepsLeft
      BY <2>1, <2>2 DEF StepsLeft, LoopAhead, StepAhead
    <3>. QED
      BY <3>1, FewerSteps
  <2>3. CASE phase = "dangling"
    <3>1. StepsLeft' = StepsLeft
      BY <2>1, <2>3 DEF StepsLeft, LoopAhead, StepAhead
    <3>2. LoopLeft' = 0 /\ LoopLeft > 0
      BY <1>0, <2>1, <2>3 DEF LoopLeft
    <3>. QED
      BY <2>1, <3>1, <3>2 DEF RunLeft, Less
  <2>. QED
    BY <2>2, <2>3
<1>. QED
  BY <1>1, <1>2, <1>3

(* What lies between and behind the loops; a pass uses up one of few.       *)
LEMMA PassGoesOn ==
    ASSUME TypeOK, SessionsDone \/ SelectOrphans \/ DanglingPass \/ OrphansDone
    PROVE  Less(RunLeft', RunLeft)
<1>1. CASE SessionsDone
  <2>1. pc = "sessions_done" /\ pc' \in {"orphans", "prune", "done"}
    BY <1>1 DEF SessionsDone, CheckThen, Interrupt, Goto, Finish
  <2>. QED
    BY <2>1, GoesOn DEF StepAhead
<1>2. CASE SelectOrphans
  <2>1. pc = "orphans" /\ pc' = "batch" /\ phase' = "events"
    BY <1>2 DEF SelectOrphans, Goto
  <2>2. StepsLeft' < StepsLeft
    BY <2>1 DEF StepsLeft, LoopAhead, StepAhead
  <2>. QED
    BY <2>2, FewerSteps
<1>3. CASE DanglingPass
  <2>1. /\ pc = "pass"
        /\ \/ pc' = "orphans_done"
           \/ pc' = "batch" /\ phase' = "dangling" /\ passes' = passes + 1
    BY <1>3 DEF DanglingPass, Goto
  <2>2. CASE pc' = "orphans_done"
    BY <2>1, <2>2, GoesOn DEF StepAhead
  <2>3. CASE pc' = "batch" /\ phase' = "dangling" /\ passes' = passes + 1
    <3>1. StepsLeft' = StepsLeft
      BY <2>1, <2>3 DEF StepsLeft, LoopAhead, StepAhead
    <3>2. MaxPasses - passes' < MaxPasses - passes
      BY <2>3, CleanAssumption DEF TypeOK
    <3>. QED
      BY <3>1, <3>2 DEF RunLeft, Less
  <2>. QED
    BY <2>1, <2>2, <2>3
<1>4. CASE OrphansDone
  <2>1. pc = "orphans_done" /\ pc' \in {"prune", "done"}
    BY <1>4 DEF OrphansDone, CheckThen, Interrupt, Goto, Finish
  <2>. QED
    BY <2>1, GoesOn DEF StepAhead
<1>. QED
  BY <1>1, <1>2, <1>3, <1>4

(* The cleanup.                                                             *)
LEMMA CleanupGoesOn ==
    ASSUME TypeOK, \/ PruneProjects \/ CheckIntegrity \/ SweepThisRun \/ RemovePruned
                   \/ SweepOrphans \/ CompactSnapshots
    PROVE  Less(RunLeft', RunLeft)
<1>1. \/ pc = "prune"         /\ pc' \in {"integrity", "done"}
      \/ pc = "integrity"     /\ pc' \in {"sweep", "done"}
      \/ pc = "sweep"         /\ pc' \in {"remove_pruned", "done"}
      \/ pc = "remove_pruned" /\ pc' \in {"sweep_orphans", "gc", "headroom", "done"}
      \/ pc = "sweep_orphans" /\ pc' \in {"gc", "headroom", "done"}
      \/ pc = "gc"            /\ pc' \in {"headroom", "done"}
  BY DEF PruneProjects, CheckIntegrity, SweepThisRun, RemovePruned, SweepOrphans,
         CompactSnapshots, CheckThen, Interrupt, Goto, Finish
<1>. QED
  BY <1>1, GoesOn DEF StepAhead

(* The reclaim and the report.                                              *)
LEMMA ReclaimGoesOn ==
    ASSUME TypeOK, \/ PostDeleteHeadroom \/ BeginReclaim \/ IncrementalVacuum \/ EnterSwap
                   \/ LeaveSwap \/ EndRebuild \/ WriteReport
    PROVE  Less(RunLeft', RunLeft)
<1>1. \/ pc = "headroom"   /\ pc' \in {"reclaim", "done"}
      \/ pc = "reclaim"    /\ pc' \in {"reclaiming", "report"}
      \/ pc = "reclaiming" /\ pc' \in {"swapping", "report", "done"}
      \/ pc = "swapping"   /\ pc' = "verifying"
      \/ pc = "verifying"  /\ pc' \in {"report", "done"}
      \/ pc = "report"     /\ pc' = "done"
  BY DEF PostDeleteHeadroom, BeginReclaim, IncrementalVacuum, EnterSwap, LeaveSwap, EndRebuild,
         WriteReport, CheckThen, Interrupt, Goto, Finish
<1>. QED
  BY <1>1, GoesOn DEF StepAhead

(* An error, a kill.                                                        *)
LEMMA FailureEnds ==
    ASSUME TypeOK, PhaseFails \/ Kill
    PROVE  Less(RunLeft', RunLeft)
BY DoneIsLast DEF PhaseFails, Kill, Finish

(* A signal is no step of the run, unless its handler ends it.              *)
LEMMA SignalsDelayNothing ==
    ASSUME TypeOK, NoteSignal \/ HandleSignal
    PROVE  RunLeft' = RunLeft \/ Less(RunLeft', RunLeft)
<1>1. pc # "done" /\ pc' \in {pc, "done"} /\ UNCHANGED <<phase, purge, passes>>
  BY DEF NoteSignal, HandleSignal, Interrupt, Finish
<1>2. CASE pc' = pc
  BY <1>1, <1>2 DEF RunLeft, StepsLeft, LoopLeft
<1>3. CASE pc' = "done"
  BY <1>1, <1>3, DoneIsLast
<1>. QED
  BY <1>1, <1>2, <1>3

(* A run cannot go on for ever: every step of it, whatever fails, takes     *)
(* something off three numbers (the steps ahead, the passes that are left   *)
(* over dangling sessions, the sessions to be purged in the loop), and a    *)
(* signal adds nothing to them; only the operator begins another run        *)
(* (clean/command.rs; delete/orphans.rs DEFAULT_MAX_PASSES).                *)
THEOREM RunsEnd ==
    Spec => /\ [](RunLeft \in Nat \X Nat \X Nat)
            /\ [][/\ Work \/ Confirm \/ PhaseFails \/ Kill => Less(RunLeft', RunLeft)
                  /\ NoteSignal \/ HandleSignal =>
                         RunLeft' = RunLeft \/ Less(RunLeft', RunLeft)]_vars
<1>1. TypeOK => RunLeft \in Nat \X Nat \X Nat
  BY RunIsCounted
<1>2. TypeOK /\ Work => Less(RunLeft', RunLeft)
  BY ReadOnlyGoesOn, BatchGoesOn, PassGoesOn, CleanupGoesOn, ReclaimGoesOn DEF Work
<1>3. TypeOK /\ [Next]_vars =>
          [/\ Work \/ Confirm \/ PhaseFails \/ Kill => Less(RunLeft', RunLeft)
           /\ NoteSignal \/ HandleSignal => RunLeft' = RunLeft \/ Less(RunLeft', RunLeft)]_vars
  BY <1>2, ConfirmGoesOn, FailureEnds, SignalsDelayNothing
<1>. QED
  BY <1>1, <1>3, CleanTypeCorrect, PTL DEF Spec
=============================================================================
