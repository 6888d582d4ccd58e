------------------------------- MODULE CleanRun -------------------------------
(***************************************************************************)
(* One `clean` from its first check to its report: the phases P1 to P21 of *)
(* clean/command.rs with the batched deletion (delete/), the cleanup of    *)
(* storage files and snapshots (clean/cleanup.rs, assets/) and the SIGINT  *)
(* thread (clean/signal.rs), which runs between any two steps.             *)
(*                                                                         *)
(* The database stays locked from P5 to the swap, so no other process      *)
(* writes it.  The full rebuild is VacuumSwap; here it only enters and     *)
(* leaves its swap.  An error or a kill may end every phase, and the same  *)
(* command may be run again.  A phase and the cancellation check behind it *)
(* are one step: the phase does not read the flag.                         *)
(***************************************************************************)
EXTENDS Selection

CONSTANTS
    Databases,  \* databases and data directories to start from
    Arguments,  \* command lines
    BatchSize,  \* ids deleted by one transaction
    MaxPasses,  \* DEFAULT_MAX_PASSES of the orphan deletion
    Boundary,   \* the instant --older-than stands for
    Faults,     \* whether steps may fail and the process may be killed
    MaxSignals, \* bound on the number of SIGINTs
    MaxRuns     \* bound on the number of times the command is run

Store == [rows : SUBSET Ids, parent : [Ids -> Ids \cup {NoParent}],
          owner : [Ids -> Projects], stamp : [Ids -> Nat], projects : SUBSET Projects,
          events : SUBSET Ids, files : SUBSET Ids, snapshots : SUBSET Projects]

ASSUME CleanAssumption ==
    /\ Databases \subseteq Store
    /\ Arguments \subseteq
         [matches : SUBSET Ids, aged : BOOLEAN, keep : Nat, orphans : BOOLEAN,
          prune : BOOLEAN, gc : BOOLEAN, dryRun : BOOLEAN,
          vacuum : {"none", "incremental", "full"}]
    /\ BatchSize \in Nat \ {0} /\ MaxPasses \in Nat /\ Boundary \in Nat
    /\ Faults \in BOOLEAN /\ MaxSignals \in Nat /\ MaxRuns \in Nat

VARIABLES
    pc,         \* the next phase or step
    args,       \* the command line
    store,      \* the database and the data directories
    start,      \* the same when this run began (history)
    kept,       \* the retention set of P6
    preview,    \* what P9 shows the operator
    purge,      \* temp table purge_ids: selected, not yet deleted
    phase,      \* whose deletion loop runs
    batch,      \* sessions of the committed batch that is not yet reported
    candidates, \* temp table dangling_session_candidates
    passes,     \* dangling passes made
    affected,   \* projects that owned a deleted session
    pruned,     \* projects deleted by this run
    reported,   \* deleted_session_ids of the reports
    partial,    \* some external cleanup was left behind
    exit,       \* how the run ended
    cancelled,  \* the flag SIGINT sets
    mode,       \* of the signal controller
    pending,    \* what the signal thread decided and has not done yet
    signals,    \* SIGINTs delivered (bounded by MaxSignals)
    late,       \* batches committed after the first of them (history)
    deleted,    \* session rows deleted by any run (history)
    run         \* runs begun (bounded by MaxRuns)

command  == <<args, start, run>>
plan     == <<kept, preview>>
loop     == <<purge, phase, batch, candidates, passes>>
report   == <<affected, pruned, reported, partial>>
signal   == <<cancelled, mode, pending, signals>>
history  == <<late, deleted>>
vars     == <<pc, command, store, plan, loop, report, exit, signal, history>>

ReadOnlySteps == {"inspect", "lock", "select", "preview", "confirm"}
DeletionSteps == {"batch", "checkpoint", "sessions_done", "orphans", "pass", "orphans_done"}
CleanupSteps  == {"prune", "integrity", "sweep", "remove_pruned", "sweep_orphans", "gc"}
ReclaimSteps  == {"headroom", "reclaim", "reclaiming", "swapping", "verifying"}
Steps == ReadOnlySteps \cup DeletionSteps \cup CleanupSteps \cup ReclaimSteps
           \cup {"report", "done"}
Exits == {"none", "ok", "partial", "interrupted", "refused", "error", "aborted", "killed"}

Nothing == [sessions |-> {}, projects |-> {}, files |-> {}, snapshots |-> {}]

TypeOK ==
    /\ pc \in Steps
    /\ args \in Arguments
    /\ store \in Store
    /\ start \in Store
    /\ kept \in SUBSET Ids
    /\ preview \in [sessions : SUBSET Ids, projects : SUBSET Projects,
                    files : SUBSET Ids, snapshots : SUBSET Projects]
    /\ purge \in SUBSET Ids
    /\ phase \in {"sessions", "events", "dangling"}
    /\ batch \in SUBSET Ids
    /\ candidates \in SUBSET Ids
    /\ passes \in 0 .. MaxPasses
    /\ affected \in SUBSET Projects
    /\ pruned \in SUBSET Projects
    /\ reported \in SUBSET Ids
    /\ partial \in BOOLEAN
    /\ exit \in Exits
    /\ cancelled \in BOOLEAN
    /\ mode \in {"Normal", "Delete", "Reclaim", "Swap"}
    /\ pending \in {"none", "abort", "interrupt"}
    /\ signals \in 0 .. MaxSignals
    /\ late \in Nat
    /\ deleted \in SUBSET Ids
    /\ run \in Nat

Init ==
    /\ args \in Arguments
    /\ store \in Databases
    /\ pc = "inspect"
    /\ start = store
    /\ kept = {} /\ preview = Nothing
    /\ purge = {} /\ phase = "sessions" /\ batch = {} /\ candidates = {} /\ passes = 0
    /\ affected = {} /\ pruned = {} /\ reported = {} /\ partial = FALSE
    /\ exit = "none"
    /\ cancelled = FALSE /\ mode = "Normal" /\ pending = "none" /\ signals = 0
    /\ late = 0
    /\ deleted = {}
    /\ run = 1

-----------------------------------------------------------------------------
(* Helpers *)

Goto(step) == pc' = step /\ UNCHANGED exit
Finish(code) == pc' = "done" /\ exit' = code

(* stop_before_mutation_if_cancelled                                        *)
CheckBefore(step) == IF cancelled THEN Finish("refused") ELSE Goto(step)

(* write_interrupted may fail like any output.                              *)
Interrupt == \E code \in {"interrupted"} \cup (IF Faults THEN {"error"} ELSE {}) : Finish(code)

(* stop_after_delete_if_cancelled                                           *)
CheckThen(step) == IF cancelled THEN Interrupt ELSE Goto(step)

OwnersOf(S) == {store.owner[s] : s \in S}

(* The sessions every given predicate selects.                              *)
Matches == (IF args.aged THEN OlderThan(store, Boundary) ELSE store.rows) \cap args.matches

(* A sweep goes on after a file it cannot remove, and stops when it cannot  *)
(* read a directory; both are recorded as partial failures.                 *)
Removes(eligible, removed) ==
    /\ removed \in IF Faults THEN SUBSET eligible ELSE {eligible}
    /\ partial' \in IF Faults THEN {partial, TRUE} ELSE {partial}
    /\ removed # eligible => partial'

-----------------------------------------------------------------------------
(* P1 to P11: nothing is changed                                            *)

(* P1 to P4: paths, schema, holders and selectors, joined before any error  *)
(* is looked at.                                                            *)
Inspect ==
    /\ pc = "inspect"
    /\ CheckBefore("lock")
    /\ UNCHANGED <<command, store, plan, loop, report, signal, history>>

(* P5, not for a dry run.                                                   *)
AcquireLock ==
    /\ pc = "lock"
    /\ Goto("select")
    /\ UNCHANGED <<command, store, plan, loop, report, signal, history>>

(* Mutant: candidates are not expanded to their descendants.                *)
SelectCandidatesOnly ==
    /\ pc = "select"
    /\ IF HasCycle(store)
       THEN Finish("refused") /\ UNCHANGED <<kept, purge>>
       ELSE /\ kept' = Retained(store, args.keep)
            /\ purge' = Matches \ kept'
            /\ Goto("preview")
    /\ UNCHANGED <<command, store, preview, phase, batch, candidates, passes,
                   report, signal, history>>

(* P6 to P8; every recursive query refuses a parent cycle.                  *)
SelectSessions ==
    /\ pc = "select"
    /\ IF HasCycle(store)
       THEN Finish("refused") /\ UNCHANGED <<kept, purge>>
       ELSE /\ kept' = Retained(store, args.keep)
            /\ purge' = Selected(store, Matches, kept')
            /\ Goto("preview")
    /\ UNCHANGED <<command, store, preview, phase, batch, candidates, passes,
                   report, signal, history>>

(* P9 and P10: the impact is computed anew, by report/impact.rs.            *)
Preview ==
    /\ pc = "preview"
    /\ LET sessions == PreviewSessions(store, Matches, kept, args.orphans)
           gone     == PreviewProjects(store, sessions, args.prune)
           orphaned == IF args.orphans THEN Ids \ store.rows ELSE {}
           strays   == IF args.orphans THEN Projects \ store.projects ELSE {}
       IN  preview' = [sessions  |-> sessions,
                       projects  |-> gone,
                       files     |-> store.files \cap (sessions \cup orphaned),
                       snapshots |-> store.snapshots \cap (gone \cup strays)]
    /\ IF args.dryRun THEN Finish("ok") ELSE Goto("confirm")
    /\ UNCHANGED <<command, store, kept, loop, report, signal, history>>

(* P11: the operator declines, or agrees and the deletion begins.           *)
Confirm ==
    /\ pc = "confirm"
    /\ \/ Finish("refused") /\ UNCHANGED <<affected, mode>>
       \/ /\ CheckBefore("batch")
          /\ affected' = OwnersOf(purge)
          /\ mode' = IF cancelled THEN mode ELSE "Delete"
    /\ UNCHANGED <<command, store, plan, loop, pruned, reported, partial,
                   cancelled, pending, signals, history>>

-----------------------------------------------------------------------------
(* P12 and P13: deletion in bounded transactions                            *)

(* Mutant: the batch stays in purge_ids.                                    *)
CommitBatchAgain ==
    /\ pc = "batch" /\ purge # {}
    /\ LET ids == LowestIds(purge, BatchSize)
       IN  /\ store' = [store EXCEPT !.rows = @ \ ids, !.events = @ \ ids]
           /\ batch' = ids \cap store.rows
           /\ deleted' = deleted \cup batch'
    /\ late' = IF cancelled THEN late + 1 ELSE late
    /\ Goto("checkpoint")
    /\ UNCHANGED <<command, plan, purge, phase, candidates, passes, report, signal>>

(* The rows, their events and the entry in purge_ids go in one transaction. *)
CommitBatch ==
    /\ pc = "batch" /\ purge # {}
    /\ LET ids == LowestIds(purge, BatchSize)
       IN  /\ store' = [store EXCEPT !.rows = @ \ ids, !.events = @ \ ids]
           /\ purge' = purge \ ids
           /\ batch' = ids \cap store.rows
           /\ deleted' = deleted \cup batch'
    /\ late' = IF cancelled THEN late + 1 ELSE late
    /\ Goto("checkpoint")
    /\ UNCHANGED <<command, plan, phase, candidates, passes, report, signal>>

(* Where a deletion loop continues: events it was told to stop end P13, but *)
(* a dangling pass that was stopped is followed by the next one.            *)
AfterLoop(stopped) ==
    CASE phase = "sessions" -> "sessions_done"
      [] phase = "events"   -> IF stopped THEN "orphans_done" ELSE "pass"
      [] phase = "dangling" -> "pass"

(* Mutant: the flag is not polled after a batch.                            *)
ReportBatchUnpolled ==
    /\ pc = "checkpoint"
    /\ reported' = reported \cup batch
    /\ Goto("batch")
    /\ UNCHANGED <<command, store, plan, loop, affected, pruned, partial, signal, history>>

(* Mutant: only the first loop's sessions are reported.                     *)
ReportSessionsOnly ==
    /\ pc = "checkpoint"
    /\ reported' = IF phase = "sessions" THEN reported \cup batch ELSE reported
    /\ Goto(IF cancelled THEN AfterLoop(TRUE) ELSE "batch")
    /\ UNCHANGED <<command, store, plan, loop, affected, pruned, partial, signal, history>>

(* After the WAL checkpoint the batch is reported, and batch_committed polls *)
(* the flag.                                                                *)
ReportBatch ==
    /\ pc = "checkpoint"
    /\ reported' = reported \cup batch
    /\ Goto(IF cancelled THEN AfterLoop(TRUE) ELSE "batch")
    /\ UNCHANGED <<command, store, plan, loop, affected, pruned, partial, signal, history>>

EndLoop ==
    /\ pc = "batch" /\ purge = {}
    /\ Goto(AfterLoop(FALSE))
    /\ UNCHANGED <<command, store, plan, loop, report, signal, history>>

SessionsDone ==
    /\ pc = "sessions_done"
    /\ CheckThen(IF args.orphans THEN "orphans" ELSE "prune")
    /\ UNCHANGED <<command, store, plan, loop, report, signal, history>>

(* Mutant: retention does not protect orphans.                              *)
SelectOrphansUnprotected ==
    /\ pc = "orphans"
    /\ candidates' = Dangling(store)
    /\ affected' = affected \cup OwnersOf(Dangling(store))
    /\ purge' = store.events \ store.rows
    /\ phase' = "events"
    /\ Goto("batch")
    /\ UNCHANGED <<command, store, plan, batch, passes, pruned, reported, partial,
                   signal, history>>

(* Orphans are selected after the sessions are gone, and the retention set  *)
(* is computed again.                                                       *)
SelectOrphans ==
    /\ pc = "orphans"
    /\ candidates' = Dangling(store) \ Retained(store, args.keep)
    /\ affected' = affected \cup OwnersOf(Dangling(store))
    /\ purge' = store.events \ store.rows
    /\ phase' = "events"
    /\ Goto("batch")
    /\ UNCHANGED <<command, store, plan, batch, passes, pruned, reported, partial,
                   signal, history>>

(* Mutant: the passes are not bounded.                                      *)
DanglingPassUnbounded ==
    LET current == {s \in candidates \cap store.rows :
                       store.parent[s] # NoParent /\ store.parent[s] \notin store.rows}
    IN  /\ pc = "pass"
        /\ IF current = {}
           THEN Goto("orphans_done") /\ UNCHANGED loop
           ELSE /\ purge' = current
                /\ phase' = "dangling"
                /\ candidates' = candidates \ current
                /\ passes' = passes + 1
                /\ Goto("batch")
                /\ UNCHANGED batch
        /\ UNCHANGED <<command, store, plan, report, signal, history>>

(* Each pass takes the candidates whose parent is gone by now, level by     *)
(* level; a pass that was stopped forgets the ones it did not delete.       *)
DanglingPass ==
    LET current == {s \in candidates \cap store.rows :
                       store.parent[s] # NoParent /\ store.parent[s] \notin store.rows}
    IN  /\ pc = "pass"
        /\ IF passes = MaxPasses \/ current = {}
           THEN Goto("orphans_done") /\ UNCHANGED loop
           ELSE /\ purge' = current
                /\ phase' = "dangling"
                /\ candidates' = candidates \ current
                /\ passes' = passes + 1
                /\ Goto("batch")
                /\ UNCHANGED batch
        /\ UNCHANGED <<command, store, plan, report, signal, history>>

OrphansDone ==
    /\ pc = "orphans_done"
    /\ CheckThen("prune")
    /\ UNCHANGED <<command, store, plan, loop, report, signal, history>>

-----------------------------------------------------------------------------
(* P14 to P18: what the deleted sessions leave                              *)

(* Projects without a session, among the affected ones or all of them.      *)
PruneProjects ==
    /\ pc = "prune"
    /\ pruned' = {p \in store.projects \ OwnersOf(store.rows) : args.prune \/ p \in affected}
    /\ store' = [store EXCEPT !.projects = @ \ pruned']
    /\ CheckThen("integrity")
    /\ UNCHANGED <<command, plan, loop, affected, reported, partial, signal, history>>

CheckIntegrity ==
    /\ pc = "integrity"
    /\ IF OwnersOf(store.rows) \subseteq store.projects
       THEN CheckThen("sweep") ELSE Finish("error")
    /\ UNCHANGED <<command, store, plan, loop, report, signal, history>>

(* Only files of this run's sessions, and of those only the absent ones.    *)
SweepThisRun ==
    /\ pc = "sweep"
    /\ \E removed \in SUBSET Ids :
         /\ Removes((store.files \cap reported) \ store.rows, removed)
         /\ store' = [store EXCEPT !.files = @ \ removed]
    /\ CheckThen("remove_pruned")
    /\ UNCHANGED <<command, plan, loop, affected, pruned, reported, signal, history>>

(* Mutant: the check behind the removal is missing.                         *)
RemovePrunedUnchecked ==
    /\ pc = "remove_pruned"
    /\ \E removed \in SUBSET Projects :
         /\ Removes(store.snapshots \cap pruned, removed)
         /\ store' = [store EXCEPT !.snapshots = @ \ removed]
    /\ Goto(IF args.orphans THEN "sweep_orphans" ELSE IF args.gc THEN "gc" ELSE "headroom")
    /\ UNCHANGED <<command, plan, loop, affected, pruned, reported, signal, history>>

(* Mutant: the snapshots of all affected projects.                          *)
RemoveAffected ==
    /\ pc = "remove_pruned"
    /\ \E removed \in SUBSET Projects :
         /\ Removes(store.snapshots \cap affected, removed)
         /\ store' = [store EXCEPT !.snapshots = @ \ removed]
    /\ CheckThen(IF args.orphans THEN "sweep_orphans" ELSE IF args.gc THEN "gc" ELSE "headroom")
    /\ UNCHANGED <<command, plan, loop, affected, pruned, reported, signal, history>>

(* The snapshots of the projects pruned by this run.                        *)
RemovePruned ==
    /\ pc = "remove_pruned"
    /\ \E removed \in SUBSET Projects :
         /\ Removes(store.snapshots \cap pruned, removed)
         /\ store' = [store EXCEPT !.snapshots = @ \ removed]
    /\ CheckThen(IF args.orphans THEN "sweep_orphans" ELSE IF args.gc THEN "gc" ELSE "headroom")
    /\ UNCHANGED <<command, plan, loop, affected, pruned, reported, signal, history>>

(* Snapshots without a project first, then files without a session.         *)
SweepOrphans ==
    /\ pc = "sweep_orphans"
    /\ \E dirs \in SUBSET Projects, files \in SUBSET Ids :
         /\ Removes(store.snapshots \ store.projects, dirs)
         /\ Removes(store.files \ store.rows, files)
         /\ store' = [store EXCEPT !.snapshots = @ \ dirs, !.files = @ \ files]
    /\ CheckThen(IF args.gc THEN "gc" ELSE "headroom")
    /\ UNCHANGED <<command, plan, loop, affected, pruned, reported, signal, history>>

(* git gc of the snapshots that stay.                                       *)
CompactSnapshots ==
    /\ pc = "gc"
    /\ Removes({}, {})
    /\ CheckThen("headroom")
    /\ UNCHANGED <<command, store, plan, loop, affected, pruned, reported, signal, history>>

-----------------------------------------------------------------------------
(* P19 to P21: reclaim and report                                           *)

PostDeleteHeadroom ==
    /\ pc = "headroom"
    /\ IF args.vacuum = "full" THEN CheckThen("reclaim") ELSE Goto("reclaim")
    /\ UNCHANGED <<command, store, plan, loop, report, signal, history>>

BeginReclaim ==
    /\ pc = "reclaim"
    /\ IF args.vacuum = "none"
       THEN Goto("report") /\ UNCHANGED mode
       ELSE Goto("reclaiming") /\ mode' = "Reclaim"
    /\ UNCHANGED <<command, store, plan, loop, report, cancelled, pending, signals, history>>

(* The flag is polled before every batch of pages; after the last one, or   *)
(* when no page is free, the result stands.                                 *)
IncrementalVacuum ==
    /\ pc = "reclaiming" /\ args.vacuum = "incremental"
    /\ Goto("report") \/ (cancelled /\ Interrupt)
    /\ UNCHANGED <<command, store, plan, loop, report, signal, history>>

(* Mutant: the swap is entered without reading the flag.                    *)
EnterSwapIgnoringCancel ==
    /\ pc = "reclaiming" /\ args.vacuum = "full"
    /\ Goto("swapping") /\ mode' = "Swap"
    /\ UNCHANGED <<command, store, plan, loop, report, cancelled, pending, signals, history>>

(* VACUUM INTO is done; enter reads the flag and sets the mode under the    *)
(* mutex of the signal controller.                                          *)
EnterSwap ==
    /\ pc = "reclaiming" /\ args.vacuum = "full"
    /\ IF cancelled
       THEN Interrupt /\ UNCHANGED mode
       ELSE Goto("swapping") /\ mode' = "Swap"
    /\ UNCHANGED <<command, store, plan, loop, report, cancelled, pending, signals, history>>

LeaveSwap ==
    /\ pc = "swapping"
    /\ Goto("verifying") /\ mode' = "Reclaim"
    /\ UNCHANGED <<command, store, plan, loop, report, cancelled, pending, signals, history>>

(* Whatever the rebuild returned, a noted signal makes it an interruption.  *)
EndRebuild ==
    /\ pc = "verifying"
    /\ CheckThen("report")
    /\ UNCHANGED <<command, store, plan, loop, report, signal, history>>

WriteReport ==
    /\ pc = "report"
    /\ Finish(IF partial THEN "partial" ELSE "ok")
    /\ UNCHANGED <<command, store, plan, loop, report, signal, history>>

(* Any phase may return its own error; the ones that only record a partial  *)
(* failure, and the swap, which has its own, do not.                        *)
PhaseFails ==
    /\ Faults
    /\ pc \in Steps \ {"sessions_done", "orphans_done", "sweep", "remove_pruned",
                       "sweep_orphans", "gc", "swapping", "done"}
    /\ Finish(IF pc \in ReadOnlySteps THEN "refused"
              ELSE IF pc \in {"reclaiming", "verifying"} /\ cancelled THEN "interrupted"
              ELSE "error")
    /\ UNCHANGED <<command, store, plan, loop, report, signal, history>>

-----------------------------------------------------------------------------
(* The signal thread and the operator                                       *)

(* note_signal decides under the mutex ...                                  *)
NoteSignal ==
    /\ pc # "done" /\ pending = "none" /\ signals < MaxSignals
    /\ cancelled' = TRUE
    /\ pending' = IF mode = "Reclaim" THEN "interrupt"
                  ELSE IF cancelled /\ mode # "Swap" THEN "abort" ELSE "none"
    /\ signals' = signals + 1
    /\ UNCHANGED <<pc, command, store, plan, loop, report, exit, mode, history>>

(* ... and the handler acts after releasing it: process::exit(8), or an     *)
(* interrupt that only a running VACUUM or page batch notices.              *)
HandleSignal ==
    /\ pc # "done" /\ pending # "none"
    /\ pending' = "none"
    /\ \/ pending = "abort" /\ Finish("aborted")
       \/ pending = "interrupt" /\ pc = "reclaiming" /\ Interrupt
       \/ pending = "interrupt" /\ UNCHANGED <<pc, exit>>
    /\ UNCHANGED <<command, store, plan, loop, report, cancelled, mode, signals, history>>

Kill ==
    /\ Faults /\ pc # "done"
    /\ Finish("killed")
    /\ UNCHANGED <<command, store, plan, loop, report, signal, history>>

(* The operator runs the same command again, as a new process.              *)
Rerun ==
    /\ pc = "done" /\ run < MaxRuns
    /\ pc' = "inspect"
    /\ start' = store
    /\ kept' = {} /\ preview' = Nothing
    /\ purge' = {} /\ phase' = "sessions" /\ batch' = {} /\ candidates' = {} /\ passes' = 0
    /\ affected' = {} /\ pruned' = {} /\ reported' = {} /\ partial' = FALSE
    /\ exit' = "none"
    /\ cancelled' = FALSE /\ mode' = "Normal" /\ pending' = "none" /\ signals' = 0
    /\ late' = 0
    /\ run' = run + 1
    /\ UNCHANGED <<args, store, deleted>>

-----------------------------------------------------------------------------
(* What the process does by itself; the answer to the prompt is not.        *)
Work ==
    \/ Inspect \/ AcquireLock \/ SelectSessions \/ Preview
    \/ CommitBatch \/ ReportBatch \/ EndLoop \/ SessionsDone
    \/ SelectOrphans \/ DanglingPass \/ OrphansDone
    \/ PruneProjects \/ CheckIntegrity \/ SweepThisRun \/ RemovePruned
    \/ SweepOrphans \/ CompactSnapshots \/ PostDeleteHeadroom \/ BeginReclaim
    \/ IncrementalVacuum \/ EnterSwap \/ LeaveSwap \/ EndRebuild \/ WriteReport

Next == Work \/ Confirm \/ PhaseFails \/ NoteSignal \/ HandleSignal \/ Kill \/ Rerun

Spec == Init /\ [][Next]_vars

(* Every phase returns: statements have a busy timeout and a batch deadline. *)
FairSpec == Spec /\ WF_vars(Work)

-----------------------------------------------------------------------------
(* Properties                                                               *)

(* Hard retention: no session of the retention set, and none of its files,  *)
(* is ever deleted, by predicates, by subtree expansion or as an orphan,    *)
(* whatever fails or is interrupted.                                        *)
RetainedSurvive ==
    /\ kept \subseteq store.rows
    /\ kept \cap start.files \subseteq store.files
    /\ kept \cap start.events \subseteq store.events

(* Nothing is taken from what stays: live sessions keep their project,      *)
(* storage file and events, live projects their snapshots.                  *)
LiveKeepTheirData ==
    /\ OwnersOf(store.rows) \cap start.projects \subseteq store.projects
    /\ store.rows \cap start.files \subseteq store.files
    /\ store.rows \cap start.events \subseteq store.events
    /\ store.projects \cap start.snapshots \subseteq store.snapshots

(* A run that completes did what its preview showed, although the preview   *)
(* is computed by other code before anything is deleted: the same sessions  *)
(* and projects, and if nothing was left behind the same files and          *)
(* directories.                                                             *)
PreviewExact ==
    pc = "done" /\ exit \in {"ok", "partial"} /\ ~args.dryRun =>
        /\ start.rows \ store.rows = preview.sessions
        /\ start.projects \ store.projects = preview.projects
        /\ exit = "ok" => /\ start.files \ store.files = preview.files
                          /\ start.snapshots \ store.snapshots = preview.snapshots

(* The number of sessions reported as deleted, also by an interrupted run,  *)
(* is the number that is gone; a refusal changed nothing.                   *)
ReportExact ==
    exit \in {"ok", "partial", "interrupted", "refused"} => reported = start.rows \ store.rows

(* README: subtree selection preserves parent-child consistency.  A run     *)
(* that completes leaves no session behind whose parent it deleted.         *)
NoNewDangling ==
    pc = "done" /\ exit \in {"ok", "partial"} =>
        \A s \in store.rows : store.parent[s] \in start.rows => store.parent[s] \in store.rows

(* --older-than alone never reaches a session touched since: an old parent  *)
(* of a young session counts as young, so expansion adds only old ones.     *)
OnlyInactiveDeleted ==
    args.aged /\ ~args.orphans =>
        \A s \in start.rows \ store.rows : start.stamp[s] <= Boundary

(* The orphan deletion computes the retention set again, after the selected *)
(* sessions are gone; the roots that are left have kept their order.        *)
RetentionStable == pc = "orphans" => Retained(store, args.keep) = kept

(* What --older-than began is finished by running it again, wherever the    *)
(* first run ended: the children of a deleted session are as old, and are   *)
(* selected again although they are roots now.  Only the retention set of   *)
(* the second run may keep one, as a root of its own.                       *)
AgedRerunContinues ==
    args.aged /\ pc = "done" /\ exit \in {"ok", "partial"} =>
        \A s \in store.rows \ kept : store.parent[s] \notin deleted

(* A signal stops the deletion of the selected sessions after the batch     *)
(* that is being committed.                                                 *)
CancelStopsSessions == phase = "sessions" => late <= 1

(* The handler never ends the process inside the swap: an abort decided     *)
(* before it may still be pending, but then the swap is not entered.        *)
NoAbortInSwap == pending = "abort" => mode # "Swap"

(* A signal noted before the cleanup is over is never lost in a success.    *)
CancelIsReported ==
    [](cancelled /\ pc \in DeletionSteps \cup {"prune", "integrity", "sweep", "remove_pruned"}
        => [](exit \notin {"ok", "partial"}))

(* Once the operator agreed, the run ends.                                  *)
ConfirmedTerminates == pc = "batch" ~> pc = "done"

(* README: an interrupt during deletion stops after the current committed   *)
(* batch.                                                                   *)
CancelStopsDeletion == late <= 1

=============================================================================
