# Verification of oc-clean

oc-clean is a synchronous Rust command line tool that inspects and cleans the SQLite database and the data
directories of OpenCode. `analyze` and `doctor` read; `clean` and `vacuum` change things that cannot be brought
back. This directory holds TLA+ models of its commands, the TLC instances that check them, and proofs of their main
theorems for the TLAPS proof system.

Paths below are relative to the crate (`src/src/` in `PROJECT.json`).

## 1. The system

| Component | State | Operations | What makes it correct |
|---|---|---|---|
| Full rebuild and swap, `reclaim/vacuum_into.rs` | the canonical file, its `-wal`/`-shm`, the rebuild output, the recovery backup, the recorded identity | checkpoint, `VACUUM INTO`, verify, drop the lock, check, remove sidecars, back up, rename, sync, verify again, roll back | the path always holds a whole database or a whole backup lies beside it; no commit the checks could see is lost; a foreign file is never overwritten |
| Anchored database, `db/mod.rs` | directory handle, open file, resolved path, data version; a process-wide cache of anchors | look up, insert, consume, compare path with handle, exclusive lock, exclusive copy | every part of a command works on one file, the one it locks |
| Signal controller, `clean/signal.rs` | mode, cancellation flag, interrupt handle | `note_signal`, `enter`, `leave`, `set_mode` | a signal is never lost, never ends the process inside the swap |
| Clean pipeline, `clean/command.rs` | the phase; results carried from phase to phase | phases P1 to P21 with cancellation checks | the run does what its preview showed; the report is exact; an interruption is reported |
| Session selection, `select/*.rs`, `clean/selection.rs` | none (queries) | subtree, roots, retention, age, orphans | retained trees and their files stay; subtrees go whole; nothing active goes |
| Impact preview, `report/impact.rs` | none (queries) | sessions, projects, files and snapshots about to go | agrees with the applied run, although it is other code |
| Batched deletion, `delete/mod.rs`, `delete/sessions.rs` | temp table `purge_ids`, one transaction per batch | begin batch, delete, commit, checkpoint, callback | rows, events and the temp table change together; a signal stops the loop |
| Orphan and project deletion, `delete/orphans.rs`, `delete/projects.rs` | temp table of dangling candidates, affected projects | event aggregates, dangling passes, prune | only orphans go; a project goes exactly when it is empty |
| Storage and snapshot cleanup, `clean/cleanup.rs`, `assets/*.rs` | a stack of open directories, counts, partial failures | sweep, remove, `git gc` | only files of sessions and projects that are gone, through no symbolic link; what is left is reported |
| Reclaim dispatch, `clean/reclaim.rs` | result of the reclaim | none, incremental, full; headroom before and after the deletion | a noted signal makes any result an interruption |
| Vacuum command, `reclaim/command.rs` | headroom, holders, lock | confirm, lock, rebuild or incremental | what was measured before the lock is still right |
| Incremental vacuum, `reclaim/incremental.rs` | free pages | page batches | stops between batches, returns what it freed |
| Headroom, `reclaim/headroom.rs`, `reclaim/platform/` | numbers | estimate, compare | no overflow, refuses when the output would not fit |
| Holder scan and confirmation, `safety/` | processes seen, answer | scan, decide, prompt | a readable holder of the file is not missed; nothing happens unasked |
| Parallel jobs, `parallel.rs` | permits, waiting threads | spawn, acquire, release, join | no permit and no wakeup is lost, to a panic least of all |
| Schema compatibility, `db/schema.rs` | none | compare in three tiers | what could change the meaning of a deletion stops it |
| analyze, doctor, `report/`, `doctor/`, `analyze/` | what the statements read so far | one statement after another, without a transaction around them | each figure is true of its moment; the census of orphans is between what was and what is |
| Reports, progress, CLI, paths, errors | none | formatting, parsing, exit codes | the exit code tells what happened |

How they interact. `clean` runs P1 to P4 (paths, schema, holders, selectors) in parallel jobs, takes an exclusive
SQLite lock (P5), selects (P6 to P8), shows the preview (P9, P10), asks (P11), deletes sessions and orphans (P12,
P13), prunes projects and checks integrity (P14, P15), removes files and snapshots (P16 to P18), reclaims space (P19,
P20) and reports (P21). A second thread receives SIGINT, decides under the mutex of the signal controller what to do
and does it after releasing it. The rebuild is called with the locked connection, and drops it before it renames: from
then on it is protected only by comparisons. `vacuum` measures, asks and then locks; `doctor` and `analyze` never
lock. All of them find the database through one cache of anchored files, which the jobs share.

What is hard to test, and therefore listed as hazards in `PROJECT.json`: the unlocked window of the swap, with writers
opening, committing, checkpointing and closing in it; a kill or an I/O error between any two of its steps, the
rollback's own failures included; a signal racing with a change of mode; the preview and the deletion being two
implementations of one selection; retention computed twice, on different databases; partial failures of the file
cleanup, in a tree that others change; interruptions between batches and what a rerun then finds; parallel jobs that
resolve one path while it is rebound; measurements that are used after a prompt; reports put together from statements
with commits between them.

## 2. The modules

| Module | What it is |
|---|---|
| `VacuumSwap` | the full rebuild step by step, with writers, signals, failures, kills and a replaced path |
| `RebuildContract` | what a rebuild promises, without saying how; `VacuumSwap` implements it |
| `VacuumSwapProofs` | all safety properties of the rebuild, that it implements `RebuildContract` and comes to an end |
| `Selection` | which sessions the applied run and the preview select |
| `SelectionTheorems` | facts about the selection for every database; maxima of finite sets and least numbers |
| `CleanRun` | one `clean` from P1 to P21, the signal thread, kills and reruns; uses `Selection` |
| `CleanRunProofs` | type correctness, live data, the report, the two guarantees about signals, and that a run ends |
| `CleanOutcomeProofs` | what a run achieves: retention, age, preview, reruns, no dangling sessions |
| `ParallelGroup` | the scoped threads and the gate of permits they share |
| `HolderGate` | what the three platforms report of the holders of a file, and the decision made of it |
| `ReadOnlyPhases` | the jobs of `clean` and `doctor` in a `ParallelGroup`, the anchor cache, the holder scan, the opening for writing |
| `ReadOnlyPhasesProofs` | that the group loses nothing, and that the phases look at one file, miss no holder and end |
| `Estimates` | the arithmetic of headroom and escalation on words of any size |
| `VacuumCommand` | `vacuum` from its first look to its report; uses `HolderGate` and `Estimates` |
| `VacuumCommandProofs` | what the arithmetic guarantees, all safety properties of the command, and that it ends |
| `Cleanup` | the traversal of storage and snapshot directories among other processes |
| `CleanupProofs` | all safety properties of the traversal, and that it ends |
| `Reports` | `analyze` and `doctor` statement by statement; uses `Selection` |
| `ReportsProofs` | that the figures are true of one moment, and the census of orphans lies between what was and what is |
| `MC...` | command lines, databases and trees for TLC |

The modules meet at the seams of the code. `CleanRun` has the swap as a step it enters and leaves, `VacuumSwap` is its
inside; `VacuumCommand` has it as a step with a size. The cleanup is a few steps of `CleanRun`, which removes any
subset of what it may remove; `Cleanup` is what a subset and a failure are. `ReadOnlyPhases` is P1 to P4 of `clean`
and the checks of `doctor`, which are one step in `CleanRun` and `Reports`.

### VacuumSwap

`pc` is the next step of `vacuum_into`. A file is an inode: `dir` maps the canonical path, the temporary output and
the backup to inodes, `data` says which committed transactions an inode's main file holds, and `whole` which inodes
are complete, sound databases. `walOf` and `walTxns` are the `-wal` entry, `adrift` holds frames in a WAL that was
unlinked while a writer had it open. Each I/O call of the code whose order matters is an action of its own, so a kill
(`Crash`) or another process can come between any two: `RollbackTruncate` and `RollbackCopy` are one `fs::copy`.
A step that may fail has a disjunct for each failure the code tells apart; those that change nothing share
`StepFails`. The loop over backup names is in the model: a name is chosen (`ChooseBackupName`), somebody may create a
file there (`TakeName`), and a creation that finds one (`CreateRecoveryLink`) goes back to the choice. `newcomers` and
`late` are history: the connections opened behind the last look at the sidecars, and what they committed where the
rebuild no longer looks.

Abstractions. Power loss is not modelled: an fsync only orders steps. Two severed WALs of different writers are one
set. A modification always changes the identity tuple (size and mtime; the granularity of mtime is not modelled). The
removal of `-wal` and `-shm` is one step that may fail half way. The temporary file's sidecars share its fate.
"integrity" stands for any verification error. The path is replaced at most once. A file at a name that was taken is
not kept, since the next name is another one; that the path is a symbolic link is one of the failures of `StepFails`.
A connection that is opened behind the look at the sidecars goes unnoticed; that its writes may stay with the replaced
file is what the program's README says of processes that connect after the scan (line 227). `late` names these
commits, and `NoLostCommit` says that nothing else is lost: a connection that was open at the look, or that closed
before it, keeps what it committed, before and after.

SQLite and the other processes are modelled from what this code relies on and are marked external in `PROJECT.json`.

### Selection and CleanRun

A database is a record of rows, parents, owners, time stamps and projects. The recursive queries are given by
what they compute, the least set of rows closed under "child of", which is also how they can be reasoned about.
Session ids are numbers because SQLite orders them, and the order decides batches and ties. The age predicate is
modelled in full because expansion and retention interact with it; the other predicates (archived, project, path,
size) are an arbitrary set `matches`.

`CleanRun` follows `clean/command.rs`: `pc` is the phase or the step in it, `store` the database with the storage
files and snapshot directories, `purge` and `candidates` the temporary tables, `batch` the committed batch that is not
reported yet. A batch commit (`CommitBatch`) and its checkpoint and report (`ReportBatch`) are two steps, because the
first may succeed without the second. `NoteSignal` is the decision under the mutex, `HandleSignal` what the
handler does after releasing it; everything may happen in between. `PhaseFails` is the error return of a phase,
`Kill` a kill, `Rerun` the same command run again. The same `mode` as in the code selects what a signal does.

Abstractions. A phase and the cancellation check behind it are one step: no phase before it reads the flag. The full
rebuild only enters and leaves its swap here. With `Faults` a sweep removes any subset of what it may remove and
records a partial failure. Other processes are excluded by the lock, which is held until a full rebuild gives it up,
where no session is deleted any more; a dry run holds none but changes nothing. The filters of file names that are no
session ids are assumed to work. Event aggregates are not part of the preview. Rerun stands for a new process with the
same arguments.

### ParallelGroup, HolderGate and ReadOnlyPhases

A job is a thread: `arriving` before `Gate::acquire`, `waiting` on the condition variable, `running` with a permit.
Its end, by return or by panic, puts the permit back and notifies one waiting thread, any of them; a thread may
also wake up without having been notified. The caller spawns all threads and joins them in order of declaration.

In `ReadOnlyPhases` a place is a directory entry, `link` the entry the path resolves to, `at` the file found there.
`database_anchor` is two steps, the look at the cache (`LookUp`) and the insertion (`Insert`), because each job opens
the file between them without the mutex. The scan of `/proc` is one step per process. `main` is the command after
the joins: it fails on the first failed job in the order of declaration, or opens the file for writing with the anchor
it takes out of the cache. Around it somebody may point the link elsewhere (`Retarget`), put a new file at an entry
(`Replace`), remove one, and open or close the file. `steady` is history: readable processes whose file stayed open
since the scan began. A report of `HolderGate` is the one of the code without its wording; the sets of reports
of Windows and macOS say what their inspectors can return for a given set of holders.

Abstractions. SQLite opens the anchored file itself (the code opens it through `/proc/self/fd` and compares). A file
that left its entry does not come back, files are not renamed from one entry to another, and no two entries lead
to one file: with a hard link the scan, which compares names, is by design blind. The order in which
the processes are listed does not matter. The words typed at a prompt are yes, no, anything else, or the end of input.

### Estimates and VacuumCommand

`Estimates` has the operations with the width of the code's words, `MaxWord` being the largest; `Overflow` is the
error of a checked operation. In `VacuumCommand` sizes are in pages: the database has `pages`, `free` of them on the
freelist, a main file of `file` pages and `wal` frames beside it; `space` is what the disk has left. `pc` follows
`reclaim/command.rs`: look (`Inspect`), holders, headroom or opening, question, then either the rebuild (lock,
checkpoint, build, close, enter, check, backup, swap) or the batches. The lock ends with `Close`, in the middle of the
rebuild: peers may come back before the check, behind it and behind the backup (`Released`). `seen` is what the first
look measured and the gates use later. Peers open and close the database, commit and checkpoint whenever the lock lets
them; others use the disk. `written` stands for the identity of the main file, which a checkpoint changes. `missed`
(whether a commit came before or behind the last look at the sidecars, too late to be in the output), `quiet`,
`touched`, `moved`, `early` and `consent` are history.

Abstractions. `VACUUM INTO` writes exactly the live pages. A commit costs one frame. Where files live relative to the
free space is one filesystem. Whether the disk has hard links does not change. Failures that leave things as they are
share one disjunct. Replacing the path, the removal of sidecars that others have open, what a failed swap leaves
behind and the loop over backup names are `VacuumSwap`'s subject. `moved` is capped at `MaxPages`.

### Cleanup

A directory is an inode of `Dirs`, `tree[d][n]` its entry `n`. `stack` is the chain of descriptors the traversal has
open, with the names each still has to go through: a directory that was listed keeps that list, whatever happens to
it meanwhile. A step is one system call: open a child without following links, check a file and the database,
unlink, remove a directory. Between a check and the unlink (`pending`) others may move directories to `Elsewhere`, put
files and links at free names, or unlink files. A file removal that fails is a partial failure and goes on, a
snapshot removal that fails gives up its project, a directory that cannot be listed ends its phase. What a phase
removed (`counted`) and what failed in it (`noted`) belong to its own report, which is added to the outcome when the
phase completes (`Completes`). A phase that stops (`PhaseFails`) drops that report: the outcome gets one failure that
stands for the phase, and not what it had removed.

Abstractions. The rows of sessions and projects do not change, since `clean` holds its lock. Each root is in a run
of its own, because no step on one reads the other. Others touch only the tree of the root in use. A name
keeps its kind. Links lead to `Outside`, where nothing may change.

`CleanupAssumption` says what the trees to start from are: a directory is at one entry at most, since directories have
no hard links, the roots are at none, since `storage` and `snapshot` are siblings under the data directory
(`paths/mod.rs:115`), and there are finitely many. Without it a snapshot could lie in two projects at once. `TypeOK`
says besides the types that no directory is open twice: this is what bounds the depth of the traversal.

### Reports

`phase` runs through the statements and directory reads of `analyze`, `analyze --detailed` and `doctor` in their
order; each reads the database of that moment, and others create and delete sessions, projects, files and snapshots
between any two. Attribution is modelled as its query is written, with a row per path and a marker for a cycle, and
compared with `Subtree` of `Selection`, which is a least fixed point. Schema facts stand for what the three tiers
report. `then`, `gone` and `left` are history: the database behind each figure, what was absent at some time, and what
had no owner all the time.

Abstractions. A statement sees one snapshot. Payload is `Bytes` per session. Row counts, table space and headroom are
steps that may fail, since nothing is derived from their figures. A project has at most one snapshot file.

## 3. Runs

| Run (`.cfg`) | Instance | Distinct states | Shows |
|---|---|---|---|
| `vacuum_swap` | 2 writers, 2 transactions (one before the lock), both capabilities and options | about 1,086,000 | `BackupCoversUnverified`, `NoLostCommit`, `CanonicalWhole`, `ForeignTargetKept`, `SuccessKeepsPromisedFiles` |
| `vacuum_swap_live` | 1 writer, fairness | about 245,000 | `Terminates`, `CancelBeforeSwapIsFinal`, refinement `ImplementsContract` |
| `clean_selections` | every forest of 3 sessions with a missing parent and cycles, every selector, keep 0 to 2, with and without orphans and pruning | about 955,000 | `PreviewExact`, `RetainedSurvive`, `RetentionStable`, `NoNewDangling`, `OnlyInactiveDeleted` |
| `clean_interrupted` | 5 databases, every reclaim mode, faults, 3 signals, fairness | about 71,000 | `ReportExact`, `LiveKeepTheirData`, `CancelStopsSessions`, `NoAbortInSwap`, `CancelIsReported`, `ConfirmedTerminates` |
| `clean_rerun` | `--older-than` over all trees, faults, 1 signal, 2 runs | about 1,107,000 | `AgedRerunContinues` |
| `read_only_phases` | 4 command lines with 3 or 4 jobs, 1 or 2 cores, 2 entries, 1 other process, up to 2 disturbances, fairness | about 954,000 | `NoLostWakeup`, `OneFile`, `HolderNeverMissed`, `GroupReturns` |
| `vacuum_command` | 6 command lines, databases of up to 3 pages, disks of up to 6, 1 peer, signals, fairness | about 1,387,000 | `GateCoversRebuild`, `NothingUnasked`, `ReclaimedExact`, `SwapKeepsEverything`, `ReclaimEnds` |
| `cleanup` | 2 trees, 2 roots, with orphans or with `git gc`, 1 failing call, others without bound, fairness | about 447,000 | `OnlyDeadRemoved`, `LeftoversReported`, `CountsExact`, `CleanupEnds` |
| `reports` | 3 databases (a chain, dangling rows, a cycle), 4 command lines, 3 schemas, 3 writes of others | about 895,000 | `FiguresTrue`, `CensusBracketed` |
| `fatal_reported`, `fatal_recoverable`, `cancel_deletion` | one property each | | violated: section 6 |

Most runs check `TypeOK` besides.

Bounds, and why they are enough.

- `Writers`, `Txns`: two writers are needed for "the last connection to close" to mean something; a transaction before
  and one after the lock distinguish what must not be lost from what may come. Sets of transactions are only united
  and compared.
- `Ids`: three sessions make a chain, a fork, a tie of two roots and a cycle of two or three; a fourth id without a
  row is a missing parent and the owner of stray files and events. Three projects: two with rows and one that only
  left a snapshot; some databases give a session a project without a row.
- `BatchSize`: 2 for the selections, so a batch may be full or partial; 1 where interruptions matter, so every
  session is a boundary.
- `MaxPasses`: 3 suffices for the deepest chain; 1 in `clean_interrupted`, so that the bound is met.
- `Boundary`: 0 with stamps 0 and 1, since only "before or after" is compared.
- `MaxSignals`: the third signal is the first that can follow a forced abort that was decided and not yet carried out.
- `MaxRuns`: 2; a third run starts from what the second left, as the second does from the first.
- `read_only_phases`: four jobs on one core wait three deep, on two they overlap. Two entries are what a link can be
  switched between; three files let both be bound and one be new. The unforced `clean` may be disturbed twice, so a
  rebinding can be undone as far as the path goes; the forced and the incremental one show the jobs, not the
  surroundings.
- `vacuum_command`: three pages have all shares of live and free ones, with a main file that lags behind. `MaxSpace` 6
  is what output and copy can need at most with some of the margin, so the gate passes and refuses at every amount
  below; `MaxUsed` 1 is the margin. `MaxWord` 20 is above every sum, so no sum of this run overflows; that a sum which
  does never passes the gate is `HeadroomCovers`, for every word size. Batches of one page make every page
  a boundary. A second attempt is one that can be the last.
- `cleanup`: names stand for a live, a deleted and a forgotten owner at once, so each file and directory has each
  fate. Snapshots are two levels deep, the depth where a directory inside a candidate differs from a candidate. One
  failing call: a second one meets a traversal that recorded the first and otherwise goes on as before.
- `reports`: a database has what makes a figure wrong (a grandchild, a dangling row, a cycle, a project that is
  gone); `--top` 2 of 3 cuts the list. Three writes create, change and remove around one statement.

Fairness. `VacuumSwap`: weak fairness of the rebuild as a whole, since it is one thread whose calls return. Busy
answers are returned, not retried; the one thing it tries again is a backup name that somebody took, so `Terminates`
excepts the runs in which somebody does so for ever (`TakeName`), of whom nothing is assumed. `CleanRun`: weak
fairness of the steps the process takes by itself; statements have a busy timeout, batches a ceiling and subprocesses
end. `ReadOnlyPhases`: weak fairness of the caller and of each thread separately, as the scheduler gives; a waiting
thread is not fair by itself, it has to be notified, which is the point. `VacuumCommand` and `Cleanup`: weak fairness
of the process's own steps. `Reports` is about safety only. The answer to the prompt, signals, kills, panics, spurious
wakeups and other processes are not fair. `ConfirmedTerminates` therefore begins at the first batch and `ReclaimEnds`
behind the question.

Deadlock is checked in the runs of the rebuild, where the other processes can always move; the other specifications
end in final states, so it is switched off there, and that the processes end is a liveness property instead.

## 4. Theorems

All proofs are checked by TLAPS for every value of the constants. Every invariant of a passing run is a theorem, and
so is every action property, and the refinement. Of the liveness properties the safety part is proved: a measure that
every step of the program lowers, and that others do not raise (`RebuildRunsOut`, `RunsEnd`, `PhasesRunOut`,
`WayRunsOut`, `WorkRunsOut`). The three exceptions are part of the statements: the operator may begin another run, a
thread may wake for no reason, and somebody may take the backup name that was just chosen. A theorem whose property
needs a hypothesis has it in its statement; the hypotheses are listed behind the theorems.

- `VacuumSwapProofs`. `TypeCorrect`, and `BackupCovers`: whenever the canonical path holds installed output that is
  not verified, and a backup could be made, a whole backup with everything committed before the rebuild lies beside
  it. The property is not inductive: that the backup is good when the rename happens depends on what earlier checks
  established. `SwapInv` adds, per step, what the path names (`PhaseInv`, `EntryInv`), that the source file is whole
  and holds the recorded transactions (`SourceInv`), and that a backup entry made after the sidecar check is the
  source itself or a complete copy of it (`BackupInv`). `RunInv` adds four parts for the other properties.
  `CommitInv`, for `CommitsKept` (`NoLostCommit`): as long as nobody replaced the path, every open connection uses the
  WAL beside the path (`WalShared`), nobody is connected under the exclusive lock (`Alone`), and behind the sidecar
  check only connections opened behind it have new commits (`BeforeIsBase`), so the rename and the copy of the
  rollback drop nothing else. `WholeInv`, for `CanonicalKept` (`CanonicalWhole`): a verified or restored file is
  opened beside its own WAL only. `TargetInv`, for `ForeignKept` (`ForeignTargetKept`): a file put at the path before
  the last comparison is still there, and the rename is not reached. `OutcomeInv`, for `PromisedFilesKept`
  (`SuccessKeepsPromisedFiles`): who has changed the path has given up the temporary name. `CancelIsFinal`
  (`CancelBeforeSwapIsFinal`) needs a set of states that is never left, `Stopped`. `ContractImplemented`
  (`ImplementsContract`): a step of the rebuild, of another process or of a crash is a step of `RebuildContract` or a
  stutter, shown step by step (`ContractStep`) from `RunInv`, which says that a recovery restores what was there and
  that only a verified file is reported as installed. `RebuildRunsOut`: each step, also one that fails, and a kill
  lower the number of steps ahead (`StepsLeft`), at most 25. The loop over backup names is the one place where the
  rebuild goes back; it does so only when the name was taken, and then the two steps of another attempt are counted
  from the moment it was taken. So the measure is raised by nobody but who takes the name, and by exactly two.
- `SelectionTheorems`. `SelectedLeavesNoDangling`: after the selected sessions are gone, no session is left whose
  parent was deleted: the selected set is a difference of two sets that are closed under children. `PreviewAgrees`:
  without a parent cycle (`HasCycle` databases are refused) the preview, which starts from the topmost matching
  sessions and applies retention to them, shows the set the applied run deletes. A session missed by the preview would
  have a missed parent, so the missed sessions would form a cycle. `RetainedOfPart`: the roots retained in what is
  left of a database are those retained before, when only other sessions went. `MinimalSubset` takes the place of
  induction on finite sets: the strict subsets of a finite set are well-founded, a fact the library has without an
  operator as parameter. The maxima behind ages come from it (`MaxOfFinite`).
- `CleanRunProofs`. `CleanTypeCorrect`. `LiveDataStays` (`LiveKeepTheirData`): live sessions keep project, file and
  events, live projects their snapshots, under all failures and interruptions. It needs that a project pruned by this
  run is not among the projects any more, for the snapshot removal reads only the former set. `ReportIsExact`
  (`ReportExact`): the deleted sessions are the reported ones and the batch in between, which is empty whenever a
  count is printed. `NoAbortDuringSwap` (`NoAbortInSwap`): an abort is decided outside the swap and only after an
  earlier signal, whose flag keeps the run from entering the swap. `SignalStopsSessions` (`CancelStopsSessions`):
  while the selected sessions are deleted, a batch begins only if none was committed since the first signal.
  `RunsEnd`: every step that is not the operator's lowers, in lexicographic order, the steps ahead, the passes over
  the orphans that are left, and the sessions left to purge, of which a batch takes at least one (`BatchTakesOne`); a
  signal never adds to them. Only a rerun begins again.
- `CleanOutcomeProofs`. `CleanInv` gives what is gone in each phase as a function of what the run found: `Chosen`, the
  selected sessions, and `Strays`, the dangling ones besides them. `PlanInv`: nothing changes before the plan is made,
  and it is made of that database. `SessionsInv`: what is still to be purged and what is gone make up `Chosen`.
  `OrphansInv` says the same of the passes over `Strays`, whose bound makes it the hardest: a pass takes those
  candidates that have no living parent, hence all of a level, so after n passes only levels beyond n are left
  (`LevelInv`, for any numbering of levels that grows from parent to child). `OutcomeInv`: only what is doomed goes,
  and who gets past the deletion without a signal deleted all of it. From it follow `RetentionHolds`
  (`RetainedSurvive`), `RetentionIsStable` (`RetentionStable`), `OnlyInactiveGo` (`OnlyInactiveDeleted`: a session is
  old when its whole subtree is, so the old sessions are closed under children and expansion adds none), and
  `NoNewDanglingLeft` (`NoNewDangling`). `CancelReported` (`CancelIsReported`): from a noted signal on, the run is in
  steps that lead to an interruption, an error or a kill. `AgedRerunFinishes` (`AgedRerunContinues`): across runs,
  every session whose parent was deleted has an old subtree (`AgedInv`), so the next run selects it. `PreviewIsExact`
  (`PreviewExact`) adds what the preview showed (`ShownInv`), which projects are affected and pruned (`PrunedInv`) and
  which files are swept when nothing fails (`FilesInv`), and rests on `PreviewAgrees`.
- `ReadOnlyPhasesProofs`. `GroupKeeps`: every step of a group, of any size and on any number of cores, keeps
  `GroupInv`: free and held permits add up, and while threads wait every free permit has a thread on its way to it.
  That no wakeup is lost is inductive because a release wakes a thread for its own permit; how many threads are where
  is counted with the library's facts on cardinality. `GroupOver`: a group that has returned has ended every job and
  has every permit back, since the caller has joined all threads before `next` (`CallerInv`). `PhasesInv` builds on
  it. For `PhasesInspectOneFile` (`OneFile`): until the command opens the file, every job that works, works with the
  cached anchor (`CacheInv`), which nothing replaces; the command goes on only when all jobs succeeded (`MainInv`).
  For `PhasesMissNoHolder` (`HolderNeverMissed`): during the scan a steady holder of the anchored file is still to be
  looked at, or was found, or the file has left its entry (`ScanInv`), and then for good, since no other entry leads
  to it (`AnchoredIn`), so the comparison after the scan refuses (`DoneInv`). `PhasesLoseNoWakeup` and
  `PhasesKeepPermits` carry the facts of the group over. `PhasesRunOut`: every step of the caller, of a job (a panic
  included) and of a thread that asks for a permit lowers what is left, first the caller's steps, then those of the
  jobs, the processes to be looked at, the threads on their way to the gate. A woken thread may find the permit gone
  and wait again, but the end of a job pays for its wakeup; only a spurious wakeup adds to the last number, and
  nothing to the others.
- `VacuumCommandProofs`. `EscalationExact`: saturation does not move the threshold of the second question.
  `HeadroomCovers`: what passes the gate holds the output, the copy, the WAL allowance and a tenth more; a sum that
  overflows never passes. `CommandInv` has a part for each theorem. `CommandHasRoom` (`GateCoversRebuild`) needs per
  step how much of the required space is still there (`SpaceInv`): the checkpoint gives back as many pages as it takes
  when the main file was complete, the build takes the live pages, the copy its own, so the margin is left to others.
  `CommandDoesNothingUnasked` (`NothingUnasked`) needs where the command can be after which answer (`PcInv`) and that
  no signal came before the reclaim once it is past its check (`TouchInv`). `CommandReportsExactly`
  (`ReclaimedExact`): while nobody writes, the freelist and the reported pages add up to the first freelist
  (`ReportInv`). `CommandSwapsTheDatabase` (`SwapKeepsEverything`): under the lock nobody can write, and after it
  a commit before the look at the sidecars is in the WAL there, or was checkpointed and changed the identity; the
  comparisons of the check and of the swap refuse both, so what is missing from the output came behind the look
  (`OutputInv`, `PcInv`). `WayRunsOut`: every step of the command lowers the steps ahead or, in the two places
  that are repeated, the attempts to answer and the pages that remain; peers may free pages for ever and change none
  of these numbers.
- `CleanupProofs`. `CleanupInv` rests on one fact about the surroundings: others move directories away and put files
  and links in their place, so a directory that is at its first entry has always been there (`TreeInv`), and the open
  directories are a path of the first tree (`PathInv`), in which a directory has one place (`Forest`). `CleanupTypes`
  (`TypeOK`) follows for trees of any depth. `OnlyTheDeadGo` (`OnlyDeadRemoved`): which name each level of the stack
  was opened under (`ScopeInv`) says whose entries a step may take; `Outside` is never open. `LeftoversAreReported`
  (`LeftoversReported`): a project to be removed is gone, reported, noted for the report of the phase, or ahead of the
  traversal, in the list of the root or as the directory that is being emptied (`LeftoversInv`).
  `CleanupCountsExactly` (`CountsExact`): a counted directory has gone from its place and stays away, so no
  interference makes the count too high (`CountInv`). Without interference what the tree has lost is what the
  completed phases and the running one counted, until a phase stops and its counts are dropped (`NothingCounts`); from
  then on that phase is in the failures, and only counts of its kind may be too small. `WorkRunsOut`: every step of
  the cleanup lowers the phases to come, the entries to go through, or the directories to close (`WorkLeft`). The
  second number is the hard one: opening a directory adds its entries to the lists. It counts the entries of the first
  tree below whatever is not opened yet (`EntriesLeft`), of which a directory takes its own when it is opened, because
  nothing below it is open (`TodoIsUnopened`). Others add nothing, whatever they put into the tree: a directory that
  is met was always there, and lists are made once.
- `ReportsProofs`. `CensusIsBracketed` (`CensusBracketed`): who is not among the identifiers read was absent when they
  were read (`IdsInv`); what had no owner all the time is counted or still to be looked at (`CountInv`). The phases
  come in a fixed order (`ControlInv`), so "has been read" is a matter of the phase. `FiguresAreTrue` (`FiguresTrue`):
  attribution sums over paths, not over sessions, and its recursion stops at a session that is on the path already.
  The rows of the query are the paths down from a root (`SubtreeRowsAre`); a database with a cycle has a row that ends
  in one, for a longest path without would be prolonged (`NoCycleUnseen`); without a cycle there is one path to each
  session of the subtree (`OnePathEach`), so the sum is that of the subtree (`BytesOfSubtree`). A sum is the number of
  its units (`SumCountsUnits`), the first sessions by size are those with the fewest ahead of them (`RanksNumber`),
  and every session has one age bucket (`AgesAddUp`). What the recursive definitions compute is shown without
  induction: the definition says what a solution is, a solution is given, and two of them would differ first at some
  smallest argument (`LeastNumber`, `MinimalSubset`).

Hypotheses, each part of the theorem:

- `NoNewDanglingLeft`, `AgedRerunFinishes`, `PreviewIsExact`: with `--orphans` the dangling trees have at most
  `MaxPasses` levels (`Shallow`; 32 in the code). Beyond that the deletion stops with `iteration_bound_hit`, and
  `clean` reports success all the same (`delete/orphans.rs:130`); the rest goes in later runs.
- `PreviewIsExact`: every session has its project when the run starts. OpenCode declares this foreign key
  (`db/schema.rs:720`); where it is broken, the preview counts a project that is not there to be pruned.
- `AgedRerunFinishes`: the other predicates exclude none of the sessions that are left. One that matched the deleted
  parent only would not select its children.
- `CancelReported`: one run (`MaxRuns = 1`), as in the run that checks it. `exit` belongs to a process: another run
  starts without the flag and may succeed.

Assumptions: ids are natural numbers and finitely many, as the rows of a table are, and `NoParent` is none of them
(`IdsAssumption`); the instances of databases and command lines have the types of the code (`CleanAssumption`,
`CommandAssumption`, `PhasesAssumption`: a command line names no job twice, entries and processes are finitely many);
`CleanupAssumption` (section 2); `ReportsAssumption`: the boundaries of the ages are a decreasing list of integers;
`Base \subseteq Txns`. TLC evaluates them in every run.

Only model-checked: what `Terminates`, `ConfirmedTerminates`, `GroupReturns`, `ReclaimEnds` and `CleanupEnds` say
beyond their measures, that short of its end some step of the program is always enabled and under fairness taken,
since liveness and `ENABLED` are out of reach of the provers. The three properties that are violated (section 6) have
their counterexamples from TLC.

## 5. What the runs say

Interruptions. A signal before the end of the cleanup is never lost in a success (`CancelIsReported`); one that
arrives after the last check and before the report may be. An interrupt is noticed only by a running statement;
otherwise the flag stops the rebuild at `enter`. `--older-than` alone is safe to rerun: the children of a deleted
session are as old as it was, so they are selected again. Only retention of the second run may keep such a child,
since it has become a root of its own; the property excludes that set.

Measurements before the lock. The headroom gate runs before the prompt and the lock, and the database may grow in
between. `GateCoversRebuild` states what is left of its promise: without writes of others the rebuild does not run out
of disk as long as others use no more than the margin. When a checkpoint was still owed at the first look, the length
of the main file was too small for the copy, and the rebuild may run out; it then fails and leaves the original.

Holders. `HolderNeverMissed` holds only for a scan that had an anchor: when the path leads nowhere as the scan looks
for it, the scan goes by the path, and nothing is compared afterwards. Four rebindings in the right moments then hide
a holder; the property names the case.

The cleanup ends although others refill what it empties (`CleanupEnds`), because a directory is listed once; what they
put there makes the removal of the directory fail, and the failure is reported (`LeftoversReported`).

## 6. Where the program and its documentation differ

With a run:

1. `FatalIsReported`: a signal noted during the swap turns every result of the rebuild into exit code 8, a failed
   rollback included, and the paths needed for the manual recovery are not named (`clean/reclaim.rs:104`).
2. `FatalIsRecoverable`: with `--skip-backup` on a filesystem without hard links no backup exists, and exit code 11
   names one (`reclaim/vacuum_into.rs:712`).
3. `CancelStopsDeletion`: in the deletion of dangling sessions a signal ends one pass and not the passes, each of
   which commits one more batch (`delete/orphans.rs:119`).

Noted while modelling, and part of the models (README is the program's):

- Exit code 11 is also returned when the rename and the removal of the backup failed and the original is untouched
  (`reclaim/vacuum_into.rs:387`; README line 239 says verification and rollback failed).
- After an interrupted deletion a rerun does not in general continue it: descendants are no longer selected and the
  files of the first run are not swept (`clean/command.rs:257`, the hint of `error.rs:176`); `--orphans` removes both.
- A cleanup phase that stops half way (a directory that cannot be listed, a query that fails) drops the count of what
  it removed; the report has its error in the list of partial failures and counts too few files
  (`clean/cleanup.rs:37`). `CountsExact` says that counts are too small in this case only.
- README line 219: every mutating run takes the exclusive lock. `vacuum --incremental` takes none
  (`reclaim/command.rs:190`), so peers may use the freelist between its batches, and its report, the difference of two
  freelist lengths, then counts their pages too. `ReclaimedExact` is about runs without such peers.
- README line 245: with a copied backup the space includes the original database. What is measured is the main
  file before the checkpoint (`reclaim/headroom.rs:75`).
- README line 227: only a platform that could not scan at all makes an unforced run refuse. A `/proc` that cannot be
  listed for lack of permission is reported as partial (`safety/holders/linux.rs`), although no process was seen, and
  the run goes on with a warning.
- Tier 3 of the schema names foreign keys into three tables only, so one into another table that rows are deleted
  from passes (`db/schema.rs:199`).
- README line 88: the census counts what earlier deletions left behind. A session created after the ids were read has
  its file counted (`analyze/orphans.rs:46`); `CensusBracketed` says that nothing else is. A listed file that is gone
  when its size is asked for fails the report.
- README line 213: `/work/repo/` and `/work/repo` are the same pattern. Only literal patterns are stripped, not globs
  (`select/predicates.rs:261`).

## 7. Not modelled

- Formatting, progress, logging, argument and unit parsing, discovery of the database path: they change no state
  that a property here is about.
- Path patterns: whether a glob matches a path is a function on strings, tested as such in the code; the selection
  takes the matching sessions as an arbitrary set.
- The comparison of a schema column by column: `Reports` has its findings by tier and what the command makes of them.
- Pragmas and the switch to WAL mode at opening: SQLite's behaviour, of which the models use only the lock, the
  checkpoint and the snapshot of a statement.
- Power loss, and a filesystem that breaks the promises of `rename`, `link` and `openat`.

Proofs that are left: that the pieces fit at their seams, as theorems: that a cleanup phase of `CleanRun`, which
removes any subset of what it may remove, is what `Cleanup` does to the tree, and that a step of `VacuumCommand` that
swaps is a run of `RebuildContract`.
