---------------------------- MODULE VacuumCommand ----------------------------
(***************************************************************************)
(* `oc-clean vacuum`, rebuild and --incremental, from its first look at    *)
(* the database to its report (reclaim/command.rs), with the gates on its  *)
(* way (holders, headroom, confirmation), among other processes that open  *)
(* the database, commit to it, checkpoint it and use up the disk, and      *)
(* under signals.  Sizes are in pages.  How a rebuild replaces the file    *)
(* step by step is the subject of VacuumSwap; here it is about space, and  *)
(* about what others may do before, under and after the exclusive lock.    *)
(***************************************************************************)
EXTENDS Estimates, HolderGate

CONSTANTS
    Peers,      \* other processes
    Commands,   \* command lines, see Command
    MaxPages,   \* bound: pages of the database
    MaxSpace,   \* bound: free pages on the disk
    MaxWal,     \* bound: frames in the WAL
    MaxUsed,    \* bound: pages that others take from the disk
    BatchPages, \* DEFAULT_PAGES_PER_BATCH
    Attempts    \* CONFIRMATION_ATTEMPTS

Command == [incremental : BOOLEAN, dryRun : BOOLEAN, skipBackup : BOOLEAN,
            skipConfirm : BOOLEAN, force : BOOLEAN]

ASSUME CommandAssumption ==
    /\ Self \notin Peers
    /\ Commands \subseteq Command
    /\ {MaxPages, MaxSpace, MaxWal, MaxUsed} \subseteq Nat
    /\ BatchPages \in Nat \ {0} /\ Attempts \in Nat \ {0}

VARIABLES
    command,
    pages, free, file, wal, \* the database: its pages, those on the freelist,
                            \* the length of the main file, frames in the WAL
    space, links,           \* the disk: free pages, whether it has hard links
    autoVacuum,             \* whether auto_vacuum is INCREMENTAL
    connected,              \* peers with the database open
    used,                   \* pages others took from the disk
    locked,                 \* the command holds the exclusive lock
    pc,
    seen,                   \* what the first look measured
    asked,                  \* local of prompt: questions answered so far
    cancelled, mode,        \* the signal controller
    remaining,              \* local of incremental_vacuum
    initial,                \* the freelist or file length a report is measured from
    output,                 \* pages of the rebuilt file
    reclaimed, exit,        \* what the command reports
    written,                \* the main file was written since its identity was recorded
    quiet,                  \* history: no peer wrote since the first look
    missed,                 \* history: commits that the output cannot hold, those made
                            \* before the last look at the sidecars and those behind it
    touched,                \* history: the command changed the database
    moved,                  \* history: pages the command took off the database, at most MaxPages
    early,                  \* history: a signal arrived before the reclaim began
    consent                 \* history: the operator answered yes

database == <<pages, free, file, wal>>
peers    == <<connected, used>>
signals  == <<cancelled, mode, early>>
progress == <<remaining, initial, output, reclaimed, moved, touched>>
operator == <<asked, consent>>
writes   == <<written, quiet, missed>>
vars == <<command, database, space, links, autoVacuum, peers, locked, pc, seen, operator,
          signals, progress, exit, writes>>

Live == pages - free
Steps == {"inspect", "gate", "headroom", "open", "prompt", "reopen", "begin", "lock",
          "checkpoint", "build", "close", "enter", "check", "backup", "swap", "batches",
          "batch", "report", "ended"}
Released == {"enter", "check", "backup", "swap"}     \* the lock is given up

TypeOK ==
    /\ command \in Commands
    /\ pages \in 1 .. MaxPages /\ free \in 0 .. pages - 1
    /\ file \in 1 .. MaxPages /\ wal \in 0 .. MaxWal
    /\ space \in Nat /\ {links, autoVacuum} \subseteq BOOLEAN
    /\ connected \subseteq Peers /\ used \in 0 .. MaxUsed
    /\ {locked, cancelled, quiet, written, touched, early, consent} \subseteq BOOLEAN
    /\ missed \subseteq {"before", "behind"}
    /\ pc \in Steps
    /\ seen \in [live : 0 .. MaxPages, file : 0 .. MaxPages, noCopy : BOOLEAN,
                 checkpointed : BOOLEAN]
    /\ asked \in 0 .. Attempts
    /\ mode \in {"normal", "reclaim", "swap"}
    /\ {remaining, initial, output, reclaimed, moved} \subseteq 0 .. MaxPages
    /\ exit \in {"none", "ok", "error", "busy", "disk_space", "disk_full", "unavailable",
                 "canceled", "interrupted"}

Init ==
    /\ command \in Commands
    /\ pages \in 1 .. MaxPages /\ free \in 0 .. pages - 1
    /\ file \in 1 .. pages /\ wal \in {pages - file, pages - file + 1} /\ wal <= MaxWal
    /\ IF command.incremental      \* what the way to reclaim depends on
       THEN autoVacuum \in BOOLEAN /\ space = MaxSpace /\ links = TRUE
       ELSE autoVacuum = FALSE /\ space \in 0 .. MaxSpace /\ links \in BOOLEAN
    /\ connected \in SUBSET Peers /\ used = 0
    /\ locked = FALSE /\ pc = "inspect"
    /\ seen = [live |-> 0, file |-> 0, noCopy |-> FALSE, checkpointed |-> FALSE]
    /\ asked = 0 /\ consent = FALSE
    /\ cancelled = FALSE /\ mode = "normal" /\ early = FALSE
    /\ remaining = 0 /\ initial = 0 /\ output = 0 /\ reclaimed = 0 /\ moved = 0
    /\ exit = "none" /\ quiet = TRUE /\ touched = FALSE
    /\ written = FALSE /\ missed = {}

-----------------------------------------------------------------------------
(* The command up to the reclaim *)

GoTo(where) == pc' = where /\ UNCHANGED <<exit, locked>>

(* The command ends; its connection is closed and the lock with it.         *)
Exit(with) == pc' = "ended" /\ exit' = with /\ locked' = FALSE

Before == UNCHANGED <<command, database, space, links, autoVacuum, peers, signals, progress>>

(* The read-only connection: schema, space accounting, the length of the    *)
(* main file, the probe for hard links.                                     *)
Inspect ==
    /\ pc = "inspect"
    /\ \/ /\ seen' = [live |-> Live, file |-> file, noCopy |-> links \/ command.skipBackup,
                      checkpointed |-> file = pages]
          /\ GoTo("gate")
       \/ Exit("error") /\ UNCHANGED seen
    /\ quiet' = TRUE /\ UNCHANGED <<written, missed>>
    /\ Before /\ UNCHANGED operator

(* The scan finds the peers whose descriptors it may read, or what the      *)
(* system lists.                                                            *)
Reports ==
    {Scanned(connected \ opaque, opaque # {}) : opaque \in SUBSET Peers} \cup RootErrors
      \cup RestartManagerReports(connected) \cup LibprocReports(connected)

PassHolders ==
    /\ pc = "gate"
    /\ \E report \in Reports :
           IF Refuses(Decide(report, ~command.dryRun, command.force)) THEN Exit("busy")
           ELSE GoTo(IF command.incremental THEN "open" ELSE "headroom")
    /\ Before /\ UNCHANGED <<seen, writes, operator>>

(* ensure_confirmed, after the report of a dry run: the question is skipped *)
(* on demand and refused when nobody can answer it.                         *)
Confirmed == IF command.incremental THEN "batches" ELSE "reopen"
Confirm ==
    IF command.dryRun THEN Exit("ok")
    ELSE IF command.skipConfirm THEN GoTo(Confirmed)
    ELSE GoTo("prompt") \/ Exit("canceled")

(* run_vacuum_into measures the free space before anything else.            *)
Headroom ==
    /\ pc = "headroom"
    /\ IF Sufficient(space, VacuumRequired(seen.live, seen.file, seen.noCopy))
       THEN Confirm ELSE Exit("disk_space")
    /\ Before /\ UNCHANGED <<seen, writes, operator>>

(* run_incremental opens the database for writing before it asks.           *)
OpenIncremental ==
    /\ pc = "open"
    /\ IF autoVacuum THEN Confirm \/ Exit("error") ELSE Exit("unavailable")
    /\ Before /\ UNCHANGED <<seen, writes, operator>>

(* Mutants: a question asked again without end, an answer not understood    *)
(* that counts as yes.                                                      *)
AnswerAgain ==
    /\ pc = "prompt"
    /\ \E answer \in {"yes", "no", "other", "end"} :
           /\ consent' = (answer = "yes")
           /\ CASE answer = "yes" -> GoTo(Confirmed)
                [] answer = "other" -> GoTo("prompt")
                [] OTHER -> Exit("canceled")
    /\ asked' = IF pc' = "prompt" THEN asked + 1 ELSE 0
    /\ Before /\ UNCHANGED <<seen, writes>>

AnswerPresumed ==
    /\ pc = "prompt"
    /\ \E answer \in {"yes", "no", "other", "end"} :
           /\ consent' = (answer = "yes")
           /\ CASE answer = "other" /\ asked + 1 < Attempts -> GoTo("prompt")
                [] answer \in {"yes", "other"} -> GoTo(Confirmed)
                [] OTHER -> Exit("canceled")
    /\ asked' = IF pc' = "prompt" THEN asked + 1 ELSE 0
    /\ Before /\ UNCHANGED <<seen, writes>>

(* prompt: yes and no end it, anything else is asked again.                 *)
Answer ==
    /\ pc = "prompt"
    /\ \E answer \in {"yes", "no", "other", "end"} :
           /\ consent' = (answer = "yes")
           /\ CASE answer = "yes" -> GoTo(Confirmed)
                [] answer = "other" /\ asked + 1 < Attempts -> GoTo("prompt")
                [] OTHER -> Exit("canceled")
    /\ asked' = IF pc' = "prompt" THEN asked + 1 ELSE 0
    /\ Before /\ UNCHANGED <<seen, writes>>

-----------------------------------------------------------------------------
(* The rebuild, as far as its space goes *)

Reclaiming == UNCHANGED <<command, links, autoVacuum, peers, seen, operator, cancelled, early,
                          writes>>

(* The database is opened for writing and may be interrupted from here on.  *)
Reopen ==
    /\ pc = "reopen"
    /\ \/ GoTo("begin") /\ mode' = "reclaim"
       \/ Exit("error") /\ UNCHANGED mode
    /\ Reclaiming /\ UNCHANGED <<database, space, progress>>

BeginRebuildUnchecked ==    \* mutant: the flag is only looked at before the swap
    /\ pc = "begin" /\ GoTo("lock")
    /\ Reclaiming /\ UNCHANGED <<database, space, mode, progress>>

BeginRebuild ==
    /\ pc = "begin"
    /\ IF cancelled THEN Exit("interrupted") ELSE GoTo("lock")
    /\ Reclaiming /\ UNCHANGED <<database, space, mode, progress>>

AcquireLock ==
    /\ pc = "lock"
    /\ IF connected = {} THEN locked' = TRUE /\ pc' = "checkpoint" /\ UNCHANGED exit
                         ELSE Exit("busy")
    /\ Reclaiming /\ UNCHANGED <<database, space, mode, progress>>

(* A failure of the rebuild reads as an interrupt when a signal came.       *)
Fails(with) ==
    /\ Exit(IF cancelled THEN "interrupted" ELSE with)
    /\ UNCHANGED <<database, space, progress>>

(* The length of the main file is taken for the report; then                *)
(* wal_checkpoint(TRUNCATE) makes it grow before the WAL goes.              *)
Checkpoint ==
    /\ pc = "checkpoint"
    /\ IF pages > file + space THEN Fails("disk_full")
       ELSE \/ /\ initial' = file
               /\ file' = pages /\ wal' = 0 /\ space' = space + file + wal - pages
               /\ touched' = TRUE
               /\ GoTo("build")
               /\ UNCHANGED <<pages, free, remaining, output, reclaimed, moved>>
            \/ Fails("error")
    /\ Reclaiming /\ UNCHANGED mode

(* VACUUM INTO writes the live pages.                                       *)
Build ==
    /\ pc = "build"
    /\ IF Live > space THEN Fails("disk_full")
       ELSE \/ /\ output' = Live /\ space' = space - Live
               /\ GoTo("close")
               /\ UNCHANGED <<database, remaining, initial, reclaimed, moved, touched>>
            \/ Fails("error")
    /\ Reclaiming /\ UNCHANGED mode

(* The identity of the main file is recorded, and the connection and its    *)
(* lock are dropped.                                                        *)
Close ==
    /\ pc = "close"
    /\ \/ /\ pc' = "enter" /\ locked' = FALSE
          /\ UNCHANGED <<exit, database, space, progress>>
       \/ Fails("error")
    /\ Reclaiming /\ UNCHANGED mode

(* SwapObserver::enter: the last look at the flag.                          *)
Enter ==
    /\ pc = "enter"
    /\ IF cancelled THEN Fails("interrupted") /\ UNCHANGED mode
       ELSE GoTo("check") /\ mode' = "swap" /\ UNCHANGED <<database, space, progress>>
    /\ Reclaiming

CheckSourceNot ==           \* mutant: nobody looks whether the lock was followed by writes
    /\ pc = "check"
    /\ GoTo("backup") /\ UNCHANGED <<database, space, mode, progress>>
    /\ Reclaiming

(* The identity of the main file and the lengths of the sidecars; somebody  *)
(* who has the database open may keep one that is not empty.                *)
CheckSource ==
    /\ pc = "check"
    /\ \/ ~written /\ wal = 0 /\ GoTo("backup") /\ UNCHANGED <<database, space, mode, progress>>
       \/ (written \/ wal > 0 \/ connected # {}) /\ Fails("busy") /\ mode' = "reclaim"
       \/ Fails("error") /\ mode' = "reclaim"
    /\ Reclaiming

(* create_recovery_link: a link costs nothing, a copy the whole main file.  *)
CopyPages == IF links \/ command.skipBackup THEN 0 ELSE file

Backup ==
    /\ pc = "backup"
    /\ IF CopyPages > space THEN Fails("disk_full") /\ mode' = "reclaim"
       ELSE \/ /\ space' = space - CopyPages
               /\ GoTo("swap") /\ UNCHANGED <<database, mode, progress>>
            \/ Fails("error") /\ mode' = "reclaim"
    /\ Reclaiming

(* The identity once more; the output becomes the database, and the report  *)
(* counts what it is shorter.  The rename or the verification may fail.     *)
Swap ==
    /\ pc = "swap" /\ mode' = "reclaim"
    /\ IF written THEN Fails("busy")
       ELSE \/ /\ pages' = output /\ free' = 0 /\ file' = output /\ wal' = 0
               /\ moved' = SaturatingSub(pages, output)
               /\ reclaimed' = SaturatingSub(initial, output)
               /\ touched' = TRUE
               /\ GoTo("report")
               /\ UNCHANGED <<space, remaining, initial, output>>
            \/ Fails("error")
    /\ Reclaiming

-----------------------------------------------------------------------------
(* incremental_vacuum *)

BeginBatches ==
    /\ pc = "batches"
    /\ mode' = "reclaim"
    /\ initial' = free /\ remaining' = free
    /\ GoTo(IF free = 0 THEN "report" ELSE "batch")
    /\ Reclaiming /\ UNCHANGED <<database, space, output, reclaimed, moved, touched>>

MoreWhileAny(left) == left > 0      \* mutant: nobody looks at the progress

(* The pages that remain must become fewer for another batch.               *)
More(left) == left > 0 /\ left < remaining

BatchCountedBefore ==       \* mutant: the freelist is read before the batch
    /\ pc = "batch"
    /\ IF cancelled THEN Fails("interrupted")
       ELSE \/ LET taken == Lesser(BatchPages, free)
               IN  /\ wal < MaxWal /\ space > 0
                   /\ pages' = pages - taken /\ free' = free - taken
                   /\ wal' = wal + 1 /\ space' = space - 1
                   /\ moved' = Lesser(moved + taken, MaxPages)
                   /\ touched' = (touched \/ taken > 0)
                   /\ reclaimed' = SaturatingSub(initial, free)
                   /\ remaining' = free'
                   /\ GoTo(IF More(free') THEN "batch" ELSE "report")
                   /\ UNCHANGED <<file, initial, output>>
            \/ Fails("error")
    /\ Reclaiming /\ UNCHANGED mode

(* One PRAGMA incremental_vacuum(BatchPages), a transaction of its own, and *)
(* a new look at the freelist.                                              *)
Batch ==
    /\ pc = "batch"
    /\ IF cancelled THEN Fails("interrupted")
       ELSE \/ LET taken == Lesser(BatchPages, free)
               IN  /\ wal < MaxWal /\ space > 0
                   /\ pages' = pages - taken /\ free' = free - taken
                   /\ wal' = wal + 1 /\ space' = space - 1
                   /\ moved' = Lesser(moved + taken, MaxPages)
                   /\ touched' = (touched \/ taken > 0)
                   /\ reclaimed' = SaturatingSub(initial, free')
                   /\ remaining' = free'
                   /\ GoTo(IF More(free') THEN "batch" ELSE "report")
                   /\ UNCHANGED <<file, initial, output>>
            \/ Fails("error")
    /\ Reclaiming /\ UNCHANGED mode

(* Both ways to reclaim end as interrupted when a signal came meanwhile.    *)
Report ==
    /\ pc = "report"
    /\ Exit(IF cancelled THEN "interrupted" ELSE "ok")
    /\ Reclaiming /\ UNCHANGED <<database, space, mode, progress>>

-----------------------------------------------------------------------------
(* The surroundings, from the first look to the last change *)

(* note_signal: the second one before the reclaim ends the process.         *)
Signal ==
    /\ pc # "ended"
    /\ IF cancelled /\ mode = "normal" THEN Exit("interrupted") ELSE GoTo(pc)
    /\ cancelled' = TRUE
    /\ early' = (early \/ mode = "normal")
    /\ UNCHANGED <<command, database, space, links, autoVacuum, peers, mode, seen, operator,
                   progress, writes>>

Surroundings ==
    /\ pc \notin {"inspect", "report", "ended"}
    /\ UNCHANGED <<command, links, autoVacuum, locked, pc, seen, operator, signals,
                   progress, exit>>

Connect ==
    /\ ~locked
    /\ \E p \in Peers : connected' = (IF p \in connected THEN connected \ {p}
                                                          ELSE connected \cup {p})
    /\ Surroundings /\ UNCHANGED <<database, space, used, writes>>

PeerWrites ==
    /\ connected # {} /\ ~locked
    /\ quiet' = FALSE
    /\ Surroundings /\ UNCHANGED <<connected, used>>

(* A peer takes pages from the freelist or new ones, or frees some.         *)
Commit ==
    /\ PeerWrites
    /\ \/ free > 0 /\ free' = free - 1 /\ UNCHANGED pages
       \/ free = 0 /\ pages < MaxPages /\ pages' = pages + 1 /\ UNCHANGED free
       \/ free + 1 < pages /\ free' = free + 1 /\ UNCHANGED pages
    /\ wal < MaxWal /\ wal' = wal + 1
    /\ space > 0 /\ space' = space - 1
    /\ missed' = missed \cup (IF pc \in {"enter", "check"} THEN {"before"}
                              ELSE IF pc \in {"backup", "swap"} THEN {"behind"} ELSE {})
    /\ UNCHANGED <<file, written>>

(* A checkpoint after which the WAL is used from its beginning again.       *)
PeerCheckpoint ==
    /\ PeerWrites
    /\ wal > 0 /\ pages <= file + space
    /\ file' = pages /\ wal' = 0 /\ space' = space + file + wal - pages
    /\ written' = (written \/ pc \in Released)
    /\ UNCHANGED <<pages, free, missed>>

UseDisk ==
    /\ used < MaxUsed /\ used' = used + 1
    /\ space > 0 /\ space' = space - 1
    /\ Surroundings /\ UNCHANGED <<database, connected, writes>>

-----------------------------------------------------------------------------
Asking == Inspect \/ PassHolders \/ Headroom \/ OpenIncremental \/ Answer
Rebuild ==
    \/ Reopen \/ BeginRebuild \/ AcquireLock \/ Checkpoint \/ Build
    \/ Close \/ Enter \/ CheckSource \/ Backup \/ Swap
Incremental == BeginBatches \/ Batch
Next ==
    \/ Asking \/ Rebuild \/ Incremental \/ Report
    \/ Signal \/ Connect \/ Commit \/ PeerCheckpoint \/ UseDisk

(* The process is scheduled; nobody owes it an answer or a quiet database.  *)
Spec == Init /\ [][Next]_vars /\ WF_vars(Rebuild \/ Incremental \/ Report)

-----------------------------------------------------------------------------
(* What it is for *)

(* A rebuild that passed the headroom gate does not run out of disk while   *)
(* others use no more than its margin and nobody writes to the database,    *)
(* provided the main file was complete at the first look                    *)
(* (reclaim/headroom.rs evaluate_headroom, run before the prompt and the    *)
(* lock in reclaim/command.rs).                                             *)
GateCoversRebuild ==
    exit = "disk_full" => ~quiet \/ ~seen.checkpointed \/ used > Margin(seen.live)

(* The database is left alone unless the command was asked to change it and *)
(* nothing has called it off: not by a dry run, not after a question that   *)
(* was refused, not understood or not answered (safety/confirm.rs), and not *)
(* when a signal came before the reclaim began, wherever between the        *)
(* command's steps that was (reclaim/command.rs "zero database mutations"). *)
NothingUnasked ==
    touched => ~command.dryRun /\ (command.skipConfirm \/ consent) /\ ~early

(* The rebuild writes nothing over the database that lacks a commit made    *)
(* before the last look at its sidecars, not even one made between the      *)
(* release of the lock and that look, in the WAL or checkpointed since      *)
(* (reclaim/vacuum_into.rs drop(database), swap_critical_section); and if   *)
(* nobody committed behind that look either, what it writes is the database *)
(* as it is at that moment, although peers came, wrote and left while the   *)
(* operator was asked (db/mod.rs acquire_exclusive_lock).                   *)
SwapKeepsEverything ==
    [][Swap /\ pc' = "report" =>
           "before" \notin missed /\ (missed = {} => output = Live)]_vars

(* The report of an undisturbed run counts exactly the pages that the       *)
(* database lost, batch by batch or at once (reclaim/incremental.rs).       *)
ReclaimedExact ==
    exit = "ok" /\ quiet /\ seen.checkpointed => reclaimed = moved

(* Once it may go ahead the command comes to its end: the batches of        *)
(* incremental_vacuum end although peers may free pages for ever.           *)
ReclaimEnds == (pc \in {"reopen", "batches"}) ~> (pc = "ended")
=============================================================================
