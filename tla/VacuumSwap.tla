------------------------------ MODULE VacuumSwap ------------------------------
(***************************************************************************)
(* The full rebuild of one database file: reclaim/vacuum_into.rs, called   *)
(* with an exclusively locked connection by clean/reclaim.rs and           *)
(* reclaim/command.rs.  The rebuild writes VACUUM INTO output beside the   *)
(* source, verifies it, releases the lock, and renames it over the source  *)
(* after a recovery backup was made; a failed verification of the          *)
(* installed file copies the backup back.                                  *)
(*                                                                         *)
(* Other processes share the directory.  Writers open the canonical path,  *)
(* commit into its write-ahead log and checkpoint it; somebody may rename  *)
(* another file over the path; the operator may press Ctrl-C; every I/O    *)
(* step may fail and the process may be killed between any two steps.      *)
(*                                                                         *)
(* Abstractions.  A file is an inode holding a set of committed            *)
(* transactions, and is either a whole SQLite database or not.  The WAL    *)
(* and the shared-memory file are directory entries beside the canonical   *)
(* path; removing both is one step.  The sidecars of the temporary file    *)
(* share its fate.  SQLite itself (locks, WAL recovery, the checkpoint of  *)
(* the last connection to close) is modelled from how this code uses it.   *)
(***************************************************************************)
EXTENDS FiniteSets

CONSTANTS
    Txns,       \* transactions any process may commit
    Base,       \* those committed before the rebuild took its lock
    Writers     \* other processes using the database

ASSUME BaseAssumption == Base \subseteq Txns

VARIABLES
    pc,         \* the next step of the rebuild
    dir,        \* directory entries: canonical path, rebuild output, backup
    data,       \* per inode: transactions in the main database file
    whole,      \* inodes whose file is a complete, sound database
    walOf,      \* inode whose frames the -wal entry holds, or Absent
    walTxns,    \* transactions in the -wal entry, not yet checkpointed
    shm,        \* the -shm entry: "empty" (or absent) or "live"
    adrift,     \* transactions in an unlinked WAL still open in a writer
    handle,     \* per writer: the inode it has open, or Absent
    linked,     \* writers whose open WAL is still the -wal entry
    acked,      \* transactions whose commit was acknowledged to anybody
    late,       \* those of connections that opened behind its checks (history)
    newcomers,  \* writers with a connection opened behind the checks (history)
    taken,      \* somebody took the backup name since it was chosen
    seen,       \* the source identity recorded under the lock
    canonical,  \* what the rebuild did to the canonical path (history)
    cancelled,  \* SIGINT was noted
    result,     \* what vacuum_into returned
    exit,       \* what the command reported
    replacedAt, \* step during which the path was replaced (history)
    hardLinks,  \* probed capability of the filesystem
    skipBackup  \* --skip-backup

files    == <<dir, data, whole>>
sidecars == <<walOf, walTxns, shm, adrift>>
conns    == <<handle, linked>>
others   == <<acked, late, newcomers, taken, replacedAt>>
options  == <<hardLinks, skipBackup>>
tool     == <<seen, canonical, result, exit>>
vars     == <<pc, files, sidecars, conns, others, tool, cancelled, options>>

Absent == "absent"
Inodes == {"orig", "output", "copy", "foreign"}
Names  == {"db", "tmp", "bak"}

LockedSteps == {"checkpoint", "vacuum", "rebuild", "verify_output", "identity", "close"}
SwapSteps   == {"swap", "sidecars", "unlink", "backup", "linking", "copying", "final",
                "rename"}
RollbackSteps == {"rb_sidecars", "rb_copy", "rb_copying", "rb_finish"}
Steps == LockedSteps \cup {"recheck", "enter"} \cup SwapSteps
           \cup {"sync", "verify"} \cup RollbackSteps
           \cup {"finish", "drop", "returned", "done", "crashed"}
Results == {"none", "ok", "busy", "io", "integrity", "interrupted", "fatal"}

(***************************************************************************)
(* Behind the last look at the sidecars, which found nobody, and before    *)
(* the path names verified or restored content: a connection opened here   *)
(* goes unnoticed.                                                         *)
(***************************************************************************)
Window == {"unlink", "backup", "linking", "copying", "final", "rename", "sync",
           "verify"} \cup RollbackSteps

TypeOK ==
    /\ pc \in Steps
    /\ dir \in [Names -> Inodes \cup {Absent}]
    /\ data \in [Inodes -> SUBSET Txns]
    /\ whole \in SUBSET Inodes
    /\ walOf \in Inodes \cup {Absent}
    /\ walTxns \in SUBSET Txns
    /\ shm \in {"empty", "live"}
    /\ adrift \in SUBSET Txns
    /\ handle \in [Writers -> Inodes \cup {Absent}]
    /\ linked \in SUBSET Writers
    /\ acked \in SUBSET Txns
    /\ late \in SUBSET Txns
    /\ newcomers \in SUBSET Writers
    /\ taken \in BOOLEAN
    /\ seen \in SUBSET Txns
    /\ canonical \in {"original", "unverified", "verified", "restored"}
    /\ cancelled \in BOOLEAN
    /\ result \in Results
    /\ exit \in Results
    /\ replacedAt \in Steps \cup {"never"}
    /\ hardLinks \in BOOLEAN
    /\ skipBackup \in BOOLEAN

(* The caller holds the exclusive lock and has read data_version; some of   *)
(* the committed transactions may still be in the WAL.                      *)
Init ==
    /\ pc = "checkpoint"
    /\ dir = [n \in Names |-> IF n = "db" THEN "orig" ELSE Absent]
    /\ walTxns \in SUBSET Base
    /\ data = [i \in Inodes |-> IF i = "orig" THEN Base \ walTxns ELSE {}]
    /\ whole = {"orig", "foreign"}
    /\ walOf = "orig"
    /\ shm = "live"
    /\ adrift = {}
    /\ handle = [w \in Writers |-> Absent]
    /\ linked = {}
    /\ acked = Base
    /\ late = {}
    /\ newcomers = {}
    /\ taken = FALSE
    /\ seen = {}
    /\ canonical = "original"
    /\ cancelled \in BOOLEAN
    /\ result = "none"
    /\ exit = "none"
    /\ replacedAt = "never"
    /\ hardLinks \in BOOLEAN
    /\ skipBackup \in BOOLEAN

-----------------------------------------------------------------------------
(* Helpers *)

db == dir["db"]

(* What a connection to the anchored source file reads.                     *)
SourceCommits == data["orig"] \cup (IF walOf = "orig" THEN walTxns ELSE {})

(* What a new connection to the canonical path reads.                       *)
Visible == data[db] \cup (IF walOf = db THEN walTxns ELSE {})

(* ensure_path_matches and ensure_resolved_path_matches: same dev and ino.  *)
TargetMatches == db = "orig"

(* The identity tuple: a checkpoint into the file changes its size or mtime. *)
Unmodified == data["orig"] = seen

(* The -wal entry holds frames written for another database file.           *)
Mixed == walOf \notin {Absent, db} /\ walTxns # {}

(* Opening a database beside a WAL of another one replays foreign pages.    *)
MayContaminate == whole' \in {whole, whole \ {db}}

Goto(step) == pc' = step /\ UNCHANGED result
Return(r)  == pc' = "drop" /\ result' = r

(* Removing the sidecar entries leaves open writers on an unlinked WAL.     *)
SeverWal ==
    /\ walOf' = Absent
    /\ walTxns' = {}
    /\ adrift' = adrift \cup walTxns
    /\ linked' = {}
    /\ UNCHANGED handle

-----------------------------------------------------------------------------
(* Under the exclusive lock                                                 *)

(* PRAGMA wal_checkpoint(TRUNCATE) after the target was compared.           *)
CheckpointSource ==
    /\ pc = "checkpoint"
    /\ IF TargetMatches
       THEN /\ data' = [data EXCEPT !["orig"] = SourceCommits]
            /\ walTxns' = IF walOf = "orig" THEN {} ELSE walTxns
            /\ Goto("vacuum")
       ELSE Return("busy") /\ UNCHANGED <<data, walTxns>>
    /\ UNCHANGED <<dir, whole, walOf, shm, adrift, conns, others, seen,
                   canonical, exit, cancelled, options>>

(* VACUUM INTO creates its output beside the source ...                     *)
BeginRebuild ==
    /\ pc = "vacuum"
    /\ dir' = [dir EXCEPT !["tmp"] = "output"]
    /\ Goto("rebuild")
    /\ UNCHANGED <<data, whole, sidecars, conns, others, seen, canonical,
                   exit, cancelled, options>>

(* ... and fills it with the committed content; the file may come out bad.  *)
FinishRebuild ==
    /\ pc = "rebuild"
    /\ data' = [data EXCEPT !["output"] = SourceCommits]
    /\ whole' \in {whole, whole \cup {"output"}}
    /\ Goto("verify_output")
    /\ UNCHANGED <<dir, sidecars, conns, others, seen, canonical, exit,
                   cancelled, options>>

(* verify_output and restore_wal_and_verify_auto_vacuum.                    *)
VerifyOutput ==
    /\ pc = "verify_output"
    /\ IF "output" \in whole THEN Goto("identity") ELSE Return("integrity")
    /\ UNCHANGED <<files, sidecars, conns, others, seen, canonical, exit,
                   cancelled, options>>

(* data_version unchanged, identity recorded, WAL empty.                    *)
RecordIdentity ==
    /\ pc = "identity"
    /\ IF SourceCommits = Base /\ walTxns = {}
       THEN seen' = data["orig"] /\ Goto("close")
       ELSE Return("busy") /\ UNCHANGED seen
    /\ UNCHANGED <<files, sidecars, conns, others, canonical, exit,
                   cancelled, options>>

(* drop(database): the lock is gone; SQLite removes its sidecars, or leaves *)
(* an empty WAL behind.                                                     *)
CloseSource ==
    /\ pc = "close"
    /\ IF walOf = "orig"
       THEN walOf' \in {"orig", Absent} /\ shm' = "empty"
       ELSE UNCHANGED <<walOf, shm>>
    /\ Goto("recheck")
    /\ UNCHANGED <<files, walTxns, adrift, conns, others, seen, canonical,
                   exit, cancelled, options>>

-----------------------------------------------------------------------------
(* The swap, without any SQLite lock                                        *)

RecheckTarget ==
    /\ pc = "recheck"
    /\ IF TargetMatches THEN Goto("enter") ELSE Return("busy")
    /\ UNCHANGED <<files, sidecars, conns, others, seen, canonical, exit,
                   cancelled, options>>

(* Mutant: the swap is entered without reading the flag.                    *)
EnterSwapIgnoringCancel ==
    /\ pc = "enter"
    /\ Goto("swap")
    /\ UNCHANGED <<files, sidecars, conns, others, seen, canonical, exit,
                   cancelled, options>>

(* SwapObserver::enter reads the cancellation flag under the mode mutex.    *)
EnterSwap ==
    /\ pc = "enter"
    /\ IF cancelled THEN Return("interrupted") ELSE Goto("swap")
    /\ UNCHANGED <<files, sidecars, conns, others, seen, canonical, exit,
                   cancelled, options>>

CheckSource ==
    /\ pc = "swap"
    /\ IF TargetMatches /\ Unmodified THEN Goto("sidecars") ELSE Return("busy")
    /\ UNCHANGED <<files, sidecars, conns, others, seen, canonical, exit,
                   cancelled, options>>

(* Mutant: the sidecars are trusted to be empty.                            *)
CheckSidecarsNot ==
    /\ pc = "sidecars"
    /\ Goto("unlink")
    /\ UNCHANGED <<files, sidecars, conns, others, seen, canonical, exit,
                   cancelled, options>>

(* ensure_sidecars_quiescent: both entries are absent or empty.             *)
CheckSidecars ==
    /\ pc = "sidecars"
    /\ IF walTxns = {} /\ shm = "empty" THEN Goto("unlink") ELSE Return("busy")
    /\ UNCHANGED <<files, sidecars, conns, others, seen, canonical, exit,
                   cancelled, options>>

(* remove_quiescent_sidecars: -wal first; removing -shm may fail after it.  *)
RemoveSidecars ==
    /\ pc = "unlink"
    /\ SeverWal
    /\ \/ shm' = "empty" /\ Goto("backup")
       \/ UNCHANGED shm /\ Return("io")
    /\ UNCHANGED <<files, others, seen, canonical, exit, cancelled, options>>

(* Mutant: --skip-backup means that no backup is made at all.               *)
ChooseBackupNameUnlessSkipped ==
    /\ pc = "backup"
    /\ \/ skipBackup /\ Goto("final") /\ UNCHANGED taken
       \/ ~skipBackup /\ taken' = FALSE /\ Goto("linking")
    /\ UNCHANGED <<files, sidecars, conns, acked, late, newcomers, replacedAt, seen,
                   canonical, exit, cancelled, options>>

(* Mutant: a name that turned out to be taken is proposed again.            *)
ChooseBackupNameOnce ==
    /\ pc = "backup"
    /\ \/ skipBackup /\ ~hardLinks /\ Goto("final")
       \/ (hardLinks \/ ~skipBackup) /\ Goto("linking")
    /\ UNCHANGED <<files, sidecars, conns, others, seen, canonical, exit, cancelled,
                   options>>

(* create_recovery_link makes no backup, or looks for a name: the proposed   *)
(* one while nothing is there, and a numbered one otherwise.                *)
ChooseBackupName ==
    /\ pc = "backup"
    /\ \/ skipBackup /\ ~hardLinks /\ Goto("final") /\ UNCHANGED taken
       \/ (hardLinks \/ ~skipBackup) /\ taken' = FALSE /\ Goto("linking")
    /\ UNCHANGED <<files, sidecars, conns, acked, late, newcomers, replacedAt, seen,
                   canonical, exit, cancelled, options>>

(* A hard link to whatever the path names now, or the start of an exclusive *)
(* copy of the anchored file; AlreadyExists takes it back to the choice.    *)
CreateRecoveryLink ==
    /\ pc = "linking"
    /\ \/ /\ taken
          /\ Goto("backup") /\ UNCHANGED dir
       \/ /\ ~taken /\ hardLinks
          /\ dir' = [dir EXCEPT !["bak"] = db]
          /\ Goto("final")
       \/ /\ ~taken /\ ~hardLinks
          /\ dir' = [dir EXCEPT !["bak"] = "copy"]
          /\ Goto("copying")
    /\ UNCHANGED <<data, whole, sidecars, conns, others, seen, canonical, exit,
                   cancelled, options>>

(* The copy ends; it is torn if the source was written meanwhile.  A failed *)
(* copy is unlinked, which may fail too.                                    *)
FinishCopy ==
    /\ pc = "copying"
    /\ \/ /\ data' = [data EXCEPT !["copy"] = data["orig"]]
          /\ whole' = IF Unmodified THEN whole \cup {"copy"} ELSE whole
          /\ Goto("final") /\ UNCHANGED dir
       \/ /\ dir' \in {dir, [dir EXCEPT !["bak"] = Absent]}
          /\ Return("io") /\ UNCHANGED <<data, whole>>
    /\ UNCHANGED <<sidecars, conns, others, seen, canonical, exit,
                   cancelled, options>>

(* Mutant: the path is not compared again after the backup.                 *)
FinalCheckIdentityOnly ==
    /\ pc = "final"
    /\ IF Unmodified THEN Goto("rename") ELSE Return("busy")
    /\ UNCHANGED <<files, sidecars, conns, others, seen, canonical, exit,
                   cancelled, options>>

(* The path and the identity once more; a refusal leaves the backup.        *)
FinalCheck ==
    /\ pc = "final"
    /\ IF TargetMatches /\ Unmodified THEN Goto("rename") ELSE Return("busy")
    /\ UNCHANGED <<files, sidecars, conns, others, seen, canonical, exit,
                   cancelled, options>>

(* The rename, or its failure with the cleanup of the backup.               *)
RenameOver ==
    /\ pc = "rename"
    /\ \/ /\ dir' = [dir EXCEPT !["db"] = dir["tmp"], !["tmp"] = Absent]
          /\ canonical' = "unverified"
          /\ Goto("sync")
       \/ /\ dir' = [dir EXCEPT !["bak"] = Absent]
          /\ Return("io") /\ UNCHANGED canonical
       \/ /\ dir["bak"] # Absent
          /\ Return("fatal") /\ UNCHANGED <<dir, canonical>>
    /\ UNCHANGED <<data, whole, sidecars, conns, others, seen, exit,
                   cancelled, options>>

-----------------------------------------------------------------------------
(* After the swap                                                           *)

SyncInstalled ==
    /\ pc = "sync"
    /\ Goto("verify")
    /\ UNCHANGED <<files, sidecars, conns, others, seen, canonical, exit,
                   cancelled, options>>

(* Mutant: the installed file is accepted without its integrity check.      *)
VerifyInstalledJournalOnly ==
    /\ pc = "verify"
    /\ IF Mixed THEN MayContaminate /\ walOf' = db ELSE UNCHANGED <<whole, walOf>>
    /\ \/ canonical' = "verified" /\ Goto("finish")
       \/ Goto("rb_sidecars") /\ UNCHANGED canonical
    /\ UNCHANGED <<dir, data, walTxns, shm, adrift, conns, others, seen,
                   exit, cancelled, options>>

(* verify_swapped_database opens the path, so it too replays a leftover WAL; *)
(* a sound file passes unless the check itself cannot be made.              *)
VerifyInstalled ==
    /\ pc = "verify"
    /\ IF Mixed THEN MayContaminate /\ walOf' = db ELSE UNCHANGED <<whole, walOf>>
    /\ \/ db \in whole' /\ canonical' = "verified" /\ Goto("finish")
       \/ Goto("rb_sidecars") /\ UNCHANGED canonical
    /\ UNCHANGED <<dir, data, walTxns, shm, adrift, conns, others, seen,
                   exit, cancelled, options>>

(* Without a backup the failed verification is final.                       *)
RollbackSidecars ==
    /\ pc = "rb_sidecars"
    /\ \/ /\ SeverWal /\ shm' = "empty"
          /\ IF dir["bak"] # Absent THEN Goto("rb_copy") ELSE Return("fatal")
       \/ SeverWal /\ UNCHANGED shm /\ Return("fatal")
       \/ UNCHANGED <<sidecars, conns>> /\ Return("fatal")
    /\ UNCHANGED <<files, others, seen, canonical, exit, cancelled, options>>

(* fs::copy truncates the installed file ...                                *)
RollbackTruncate ==
    /\ pc = "rb_copy"
    /\ \/ whole' = whole \ {db} /\ Goto("rb_copying")
       \/ Return("fatal") /\ UNCHANGED whole
    /\ UNCHANGED <<dir, data, sidecars, conns, others, seen, canonical, exit,
                   cancelled, options>>

(* Mutant: a failed copy back is reported as the verification error.        *)
RollbackCopyUnreported ==
    /\ pc = "rb_copying"
    /\ \/ /\ data' = [data EXCEPT ![db] = data[dir["bak"]]]
          /\ whole' = IF dir["bak"] \in whole THEN whole \cup {db} ELSE whole
          /\ canonical' = "restored"
          /\ Goto("rb_finish")
       \/ Return("integrity") /\ UNCHANGED <<data, whole, canonical>>
    /\ UNCHANGED <<dir, sidecars, conns, others, seen, exit, cancelled, options>>

(* ... and then writes the backup's content into it.                        *)
RollbackCopy ==
    /\ pc = "rb_copying"
    /\ \/ /\ data' = [data EXCEPT ![db] = data[dir["bak"]]]
          /\ whole' = IF dir["bak"] \in whole THEN whole \cup {db} ELSE whole
          /\ canonical' = "restored"
          /\ Goto("rb_finish")
       \/ Return("fatal") /\ UNCHANGED <<data, whole, canonical>>
    /\ UNCHANGED <<dir, sidecars, conns, others, seen, exit, cancelled, options>>

(* Remove the backup and sync; the verification error is returned only when *)
(* both succeed.                                                            *)
RollbackFinish ==
    /\ pc = "rb_finish"
    /\ \/ /\ dir' = [dir EXCEPT !["bak"] = Absent]
          /\ Return("integrity") \/ Return("fatal")
       \/ Return("fatal") /\ UNCHANGED dir
    /\ UNCHANGED <<data, whole, sidecars, conns, others, seen, canonical,
                   exit, cancelled, options>>

(* Mutant: --skip-backup is forgotten once the swap succeeded.              *)
FinishSwapKeepsBackup ==
    /\ pc = "finish"
    /\ \/ /\ dir' = dir
          /\ Return("ok")
       \/ skipBackup /\ dir["bak"] # Absent /\ Return("io") /\ UNCHANGED dir
    /\ UNCHANGED <<data, whole, sidecars, conns, others, seen, canonical,
                   exit, cancelled, options>>

(* --skip-backup removes the verified run's backup.                         *)
FinishSwap ==
    /\ pc = "finish"
    /\ \/ /\ dir' = IF skipBackup THEN [dir EXCEPT !["bak"] = Absent] ELSE dir
          /\ Return("ok")
       \/ skipBackup /\ dir["bak"] # Absent /\ Return("io") /\ UNCHANGED dir
    /\ UNCHANGED <<data, whole, sidecars, conns, others, seen, canonical,
                   exit, cancelled, options>>

(* Mutant: the cleanup returns to a step the run does not have.             *)
DropTemporaryAgain ==
    /\ pc = "drop"
    /\ dir' \in {dir, [dir EXCEPT !["tmp"] = Absent]}
    /\ pc' = "dropped" /\ UNCHANGED result
    /\ UNCHANGED <<data, whole, sidecars, conns, others, seen, canonical,
                   exit, cancelled, options>>

(* TemporaryDatabase::drop runs on every return and only warns on failure.  *)
DropTemporary ==
    /\ pc = "drop"
    /\ dir' \in {dir, [dir EXCEPT !["tmp"] = Absent]}
    /\ Goto("returned")
    /\ UNCHANGED <<data, whole, sidecars, conns, others, seen, canonical,
                   exit, cancelled, options>>

(* The caller reports any result, failed or not, as interrupted once a       *)
(* signal was noted.                                                        *)
ReportResult ==
    /\ pc = "returned"
    /\ exit' = IF cancelled THEN "interrupted" ELSE result
    /\ Goto("done")
    /\ UNCHANGED <<files, sidecars, conns, others, seen, canonical, cancelled,
                   options>>

(* An error return of a step that changed nothing: a metadata or SQLite call *)
(* failed, the statement was interrupted, or SQLite answered busy.          *)
StepFails ==
    /\ pc \in (LockedSteps \ {"close"}) \cup {"recheck", "sync", "finish"}
                \cup (SwapSteps \ {"copying", "rename"})
    /\ \/ Return("io")
       \/ pc \in LockedSteps /\ Return("busy")
    /\ UNCHANGED <<files, sidecars, conns, others, seen, canonical, exit,
                   cancelled, options>>

-----------------------------------------------------------------------------
(* The environment                                                          *)

(* SIGKILL or a panic: no destructor runs, the kernel drops the lock.       *)
Crash ==
    /\ pc \notin {"done", "crashed"}
    /\ pc' = "crashed"
    /\ UNCHANGED <<files, sidecars, conns, others, tool, cancelled, options>>

(* Ctrl-C: note_signal sets the flag in every mode.                         *)
Signal ==
    /\ pc \notin {"done", "crashed"} /\ ~cancelled
    /\ cancelled' = TRUE
    /\ UNCHANGED <<pc, files, sidecars, conns, others, tool, options>>

(* Somebody renames another database over the canonical path.               *)
ReplaceTarget ==
    /\ replacedAt = "never" /\ pc \notin {"done", "crashed"}
    /\ dir' = [dir EXCEPT !["db"] = "foreign"]
    /\ replacedAt' = pc
    /\ UNCHANGED <<pc, data, whole, sidecars, conns, acked, late, newcomers, taken,
                   tool, cancelled, options>>

(* Somebody creates a file at the chosen backup name, or left one at the     *)
(* numbered name, which is not looked at before it is used.                 *)
TakeName ==
    /\ pc = "linking" /\ ~taken
    /\ taken' = TRUE
    /\ UNCHANGED <<pc, files, sidecars, conns, acked, late, newcomers, replacedAt,
                   tool, cancelled, options>>

(* The installed file is damaged by what its second verification looks for. *)
Decay ==
    /\ pc \in {"sync", "verify"} /\ "output" \in whole
    /\ whole' = whole \ {"output"}
    /\ UNCHANGED <<pc, dir, data, sidecars, conns, others, tool, cancelled,
                   options>>

Locked(i) == i = "orig" /\ pc \in LockedSteps

(* A connection reads the path, which creates the sidecars and recovers or  *)
(* adopts the WAL it finds.                                                 *)
WriterOpen(w) ==
    /\ handle[w] = Absent /\ ~Locked(db)
    /\ handle' = [handle EXCEPT ![w] = db]
    /\ linked' = linked \cup {w}
    /\ walOf' = db
    /\ shm' = "live"
    /\ newcomers' = IF pc \in Window THEN newcomers \cup {w} ELSE newcomers
    /\ IF Mixed THEN MayContaminate ELSE UNCHANGED whole
    /\ UNCHANGED <<pc, dir, data, walTxns, adrift, acked, late, taken, replacedAt,
                   tool, cancelled, options>>

(* A commit appends to the WAL the writer has open.  It is late when its     *)
(* connection was opened behind the checks, and they are not over, or the   *)
(* file or the WAL of the connection are no longer those of the path.       *)
WriterCommit(w, t) ==
    /\ handle[w] # Absent /\ t \notin acked
    /\ acked' = acked \cup {t}
    /\ late' = IF w \in newcomers
                  /\ (pc \in Window \/ handle[w] # db \/ w \notin linked)
               THEN late \cup {t} ELSE late
    /\ IF w \in linked
       THEN walTxns' = walTxns \cup {t} /\ UNCHANGED adrift
       ELSE adrift' = adrift \cup {t} /\ UNCHANGED walTxns
    /\ IF w \in linked /\ handle[w] # db THEN MayContaminate ELSE UNCHANGED whole
    /\ UNCHANGED <<pc, dir, data, walOf, shm, conns, newcomers, taken, replacedAt,
                   tool, cancelled, options>>

(* What a checkpoint through this handle moves into its main file.           *)
Checkpointed(w) ==
    LET moved == IF w \notin linked THEN adrift
                 ELSE IF walOf = handle[w] THEN walTxns ELSE {}
    IN  [data EXCEPT ![handle[w]] = @ \cup moved]

WriterCheckpoint(w) ==
    /\ handle[w] # Absent
    /\ data' = Checkpointed(w)
    /\ IF w \in linked
       THEN /\ walTxns' = IF walOf = handle[w] THEN {} ELSE walTxns
            /\ UNCHANGED adrift
       ELSE adrift' = {} /\ UNCHANGED walTxns
    /\ UNCHANGED <<pc, dir, whole, walOf, shm, conns, others, tool, cancelled,
                   options>>

(* The last connection to close checkpoints and removes the sidecars.       *)
WriterClose(w) ==
    /\ handle[w] # Absent
    /\ handle' = [handle EXCEPT ![w] = Absent]
    /\ linked' = linked \ {w}
    /\ newcomers' = newcomers \ {w}
    /\ IF w \in linked /\ linked # {w}
       THEN UNCHANGED <<data, sidecars>>
       ELSE /\ data' = Checkpointed(w)
            /\ IF w \in linked /\ walOf = handle[w]
               THEN walOf' = Absent /\ walTxns' = {} /\ shm' = "empty"
               ELSE UNCHANGED <<walOf, walTxns, shm>>
            /\ adrift' = IF w \in linked THEN adrift ELSE {}
    /\ UNCHANGED <<pc, dir, whole, acked, late, taken, replacedAt, tool, cancelled,
                   options>>

-----------------------------------------------------------------------------
Rebuild ==
    \/ CheckpointSource \/ BeginRebuild \/ FinishRebuild \/ VerifyOutput
    \/ RecordIdentity \/ CloseSource \/ RecheckTarget \/ EnterSwap
    \/ CheckSource \/ CheckSidecars \/ RemoveSidecars \/ ChooseBackupName
    \/ CreateRecoveryLink \/ FinishCopy \/ FinalCheck \/ RenameOver \/ SyncInstalled
    \/ VerifyInstalled \/ RollbackSidecars \/ RollbackTruncate \/ RollbackCopy
    \/ RollbackFinish \/ FinishSwap \/ DropTemporary \/ ReportResult
    \/ StepFails

Writer(w) ==
    \/ WriterOpen(w) \/ WriterCheckpoint(w) \/ WriterClose(w)
    \/ \E t \in Txns : WriterCommit(w, t)

Next ==
    \/ Rebuild \/ Crash \/ Signal \/ ReplaceTarget \/ TakeName \/ Decay
    \/ \E w \in Writers : Writer(w)

Spec == Init /\ [][Next]_vars

(* The rebuild is one thread, and each of its calls returns.  Nothing is     *)
(* assumed of the others.                                                   *)
FairSpec == Spec /\ WF_vars(Rebuild)

-----------------------------------------------------------------------------
(* Properties                                                               *)

(* As long as the canonical path holds output that was installed and not    *)
(* yet verified, whatever fails next and wherever the process is killed,    *)
(* the recovery backup is a whole database with everything the source held  *)
(* when its identity was recorded.  create_recovery_link makes none for     *)
(* --skip-backup on a filesystem without hard links.                        *)
BackupCoversUnverified ==
    canonical = "unverified" /\ (hardLinks \/ ~skipBackup) =>
        /\ dir["bak"] # Absent
        /\ dir["bak"] \in whole
        /\ Base \subseteq data[dir["bak"]]

(* Only a connection opened between the rebuild's last look at the sidecars *)
(* and the verification can lose a commit.  Those of everybody else, before *)
(* or after that look, are never missing from the canonical path: the       *)
(* data_version, identity, WAL and sidecar checks and the copy of the       *)
(* rollback together see every such writer.                                 *)
NoLostCommit == replacedAt = "never" => acked \ late \subseteq Visible

(* However the run ends, short of the fatal error and of an unverified file *)
(* left by a failed sync or a kill, the canonical path names a whole        *)
(* database, unless a connection opened behind the checks committed: every  *)
(* refusal, rename failure and rollback keeps one there.                    *)
CanonicalWhole ==
    replacedAt = "never" /\ late = {} /\ canonical # "unverified" => db \in whole

(* A database somebody put at the path before the last target check is      *)
(* never renamed over, written or unlinked.                                 *)
ForeignTargetKept ==
    replacedAt \in Steps \ ({"rename", "sync", "verify"} \cup RollbackSteps)
        => db = "foreign"

(* A successful run leaves exactly the files it promises: no rebuild output *)
(* unless its removal failed, and the backup if and only if it was asked    *)
(* for, holding the database as it was.                                     *)
SuccessKeepsPromisedFiles ==
    result = "ok" =>
        /\ canonical = "verified" /\ dir["tmp"] = Absent
        /\ IF skipBackup THEN dir["bak"] = Absent
           ELSE dir["bak"] \in whole /\ Base \subseteq data[dir["bak"]]

(* A signal noted before enter_swap always wins: no later step replaces the *)
(* source.                                                                  *)
CancelBeforeSwapIsFinal ==
    [](cancelled /\ pc \in LockedSteps \cup {"recheck", "enter"}
        => [](canonical = "original"))

(* README: after exit code 11 recovery is manual, from the named paths; one *)
(* of them must then hold a whole database.                                 *)
FatalIsRecoverable ==
    exit = "fatal" /\ replacedAt = "never" /\ late = {} =>
        \/ db \in whole
        \/ dir["bak"] # Absent /\ dir["bak"] \in whole

(* README: a failed rollback is reported as such (exit code 11), not as an  *)
(* interruption that only needs a rerun.                                    *)
FatalIsReported == pc = "done" /\ result = "fatal" => exit = "fatal"

(* The run ends unless somebody keeps taking its backup name: a name that is *)
(* taken is given up for another one, which only then can be taken again.   *)
Terminates == []<><<TakeName>>_vars \/ <>(pc \in {"done", "crashed"})

-----------------------------------------------------------------------------
(* The refinement of RebuildContract                                        *)

BackupUsable ==
    dir["bak"] # Absent /\ dir["bak"] \in whole /\ Base \subseteq data[dir["bak"]]

Verdict ==
    IF pc = "crashed" THEN "killed"
    ELSE IF result = "none" THEN "open"
    ELSE IF result \in {"busy", "interrupted", "integrity"} THEN "refused"
    ELSE IF result = "io" THEN "failed" ELSE result

Contract == INSTANCE RebuildContract WITH
    file <- canonical, backup <- BackupUsable,
    protected <- (hardLinks \/ ~skipBackup), verdict <- Verdict

(* Every step of the rebuild, of the other processes and of the operator is *)
(* a step the contract allows, or none at all.                              *)
ImplementsContract == Contract!Spec

=============================================================================
