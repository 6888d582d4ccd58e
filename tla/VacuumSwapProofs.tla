--------------------------- MODULE VacuumSwapProofs ---------------------------
(* Theorems about VacuumSwap, for every set of writers and transactions.    *)
EXTENDS VacuumSwap, Integers, TLAPS

(***************************************************************************)
(* The inductive invariant.  Neither the types nor the property about the  *)
(* backup are inductive: a rollback could write through a missing backup,  *)
(* a rename could install a missing output, a source that lost its content *)
(* would make a worthless backup.  What rules that out is, in turn, that   *)
(* the steps know what is at the canonical path, that the source file is   *)
(* never damaged or shortened once its identity was recorded, and that     *)
(* the backup which passes the final check was made from it.               *)
(***************************************************************************)

(* What each step of the rebuild knows about the canonical path.            *)
PhaseInv ==
    /\ pc \in LockedSteps \cup {"recheck", "enter"} \cup SwapSteps => canonical = "original"
    /\ pc \in {"sync", "verify", "rb_sidecars", "rb_copy", "rb_copying"} => canonical = "unverified"
    /\ pc = "rb_finish" => canonical = "restored"
    /\ pc = "finish" => canonical = "verified"
    /\ pc = "linking" => hardLinks \/ ~skipBackup

(* The directory entries.                                                   *)
EntryInv ==
    /\ dir["db"] \in {"orig", "output", "foreign"}
    /\ canonical # "original" => dir["db"] # "orig"
    /\ pc \in {"rebuild", "verify_output", "identity", "close", "recheck", "enter"} \cup SwapSteps
         => dir["tmp"] = "output"
    /\ pc = "copying" => dir["bak"] = "copy"
    /\ pc \in {"rb_copy", "rb_copying"} => dir["bak"] # Absent

(* The source file: never opened beside a WAL of another file, never        *)
(* damaged, and holding Base once its identity was recorded.                *)
SourceInv ==
    /\ "orig" \in whole
    /\ dir["db"] = "orig" =>
         /\ walOf \in {Absent, "orig"}
         /\ \A w \in Writers : handle[w] \in {Absent, "orig"}
    /\ pc \in {"close", "recheck", "enter"} \cup SwapSteps => seen = Base /\ Base \subseteq data["orig"]

(* The backup, when the run must have one.                                  *)
GoodBackup ==
    /\ dir["bak"] \in {"orig", "copy"}
    /\ dir["bak"] \in whole
    /\ Base \subseteq data[dir["bak"]]

BackupInv ==
    hardLinks \/ ~skipBackup =>
        /\ pc = "final" => GoodBackup \/ dir["db"] # "orig" \/ data["orig"] # seen
        /\ pc = "rename" => GoodBackup
        /\ canonical = "unverified" => GoodBackup

SwapInv == TypeOK /\ PhaseInv /\ EntryInv /\ SourceInv /\ BackupInv

USE DEF Steps, LockedSteps, SwapSteps, RollbackSteps, Results, Inodes, Names,
        Absent

(* The steps of the rebuild keep the types; the copy back needs a file at   *)
(* both ends.                                                               *)
LEMMA RebuildType == TypeOK /\ EntryInv /\ Rebuild => TypeOK'
<1> SUFFICES ASSUME TypeOK, EntryInv, Rebuild PROVE TypeOK'
  OBVIOUS
<1> USE DEF TypeOK, Goto, Return, files, sidecars, conns, others, options, tool
<1>1. CASE CheckpointSource
  BY <1>1 DEF CheckpointSource, SourceCommits
<1>2. CASE BeginRebuild
  BY <1>2 DEF BeginRebuild
<1>3. CASE FinishRebuild
  BY <1>3 DEF FinishRebuild, SourceCommits
<1>4. CASE VerifyOutput
  BY <1>4 DEF VerifyOutput
<1>5. CASE RecordIdentity
  BY <1>5 DEF RecordIdentity
<1>6. CASE CloseSource
  BY <1>6 DEF CloseSource
<1>7. CASE RecheckTarget \/ EnterSwap \/ CheckSource \/ CheckSidecars \/ FinalCheck
           \/ SyncInstalled
  <2>1. pc' \in Steps /\ result' \in Results
    BY <1>7 DEF RecheckTarget, EnterSwap, CheckSource, CheckSidecars, FinalCheck,
                SyncInstalled
  <2>2. UNCHANGED <<files, sidecars, conns, others, seen, canonical, exit,
                    cancelled, options>>
    BY <1>7 DEF RecheckTarget, EnterSwap, CheckSource, CheckSidecars, FinalCheck,
                SyncInstalled
  <2>. QED
    BY <2>1, <2>2
<1>8. CASE RemoveSidecars
  BY <1>8 DEF RemoveSidecars, SeverWal
<1>9. CASE ChooseBackupName \/ CreateRecoveryLink
  <2>1. CASE ChooseBackupName
    <3>1. pc' \in Steps /\ result' \in Results /\ taken' \in BOOLEAN
      BY <2>1 DEF ChooseBackupName
    <3>2. UNCHANGED <<files, sidecars, conns, acked, late, newcomers, replacedAt, seen,
                      canonical, exit, cancelled, options>>
      BY <2>1 DEF ChooseBackupName
    <3>. QED
      BY <3>1, <3>2
  <2>2. CASE CreateRecoveryLink
    BY <2>2 DEF CreateRecoveryLink, db
  <2>. QED
    BY <1>9, <2>1, <2>2
<1>10. CASE FinishCopy
  <2>1. whole' \in SUBSET Inodes /\ data' \in [Inodes -> SUBSET Txns]
    BY <1>10 DEF FinishCopy
  <2>2. dir' \in [Names -> Inodes \cup {Absent}] /\ pc' \in Steps /\ result' \in Results
    BY <1>10 DEF FinishCopy
  <2>. QED
    BY <1>10, <2>1, <2>2 DEF FinishCopy
<1>11. CASE RenameOver
  BY <1>11 DEF RenameOver
<1>12. CASE VerifyInstalled
  <2>1. db \in Inodes \cup {Absent}
    BY DEF db
  <2>2. whole' \in SUBSET Inodes
    BY <1>12 DEF VerifyInstalled, MayContaminate
  <2>3. walOf' \in Inodes \cup {Absent}
    BY <1>12, <2>1 DEF VerifyInstalled
  <2>4. pc' \in Steps /\ result' \in Results
          /\ canonical' \in {"original", "unverified", "verified", "restored"}
    BY <1>12 DEF VerifyInstalled
  <2>. QED
    BY <1>12, <2>2, <2>3, <2>4 DEF VerifyInstalled
<1>13. CASE RollbackSidecars
  BY <1>13 DEF RollbackSidecars, SeverWal
<1>14. CASE RollbackTruncate
  <2>1. whole' \in SUBSET Inodes
    BY <1>14 DEF RollbackTruncate
  <2>. QED
    BY <1>14, <2>1 DEF RollbackTruncate
<1>15. CASE RollbackCopy
  <2>0. dir["db"] \in Inodes /\ dir["bak"] \in Inodes
    BY <1>15 DEF RollbackCopy, EntryInv
  <2>1. data' \in [Inodes -> SUBSET Txns]
    <3>1. CASE data' = [data EXCEPT ![db] = data[dir["bak"]]]
      BY <2>0, <3>1 DEF db
    <3>2. CASE UNCHANGED data
      BY <3>2
    <3>. QED
      BY <1>15, <3>1, <3>2 DEF RollbackCopy
  <2>2. whole' \in SUBSET Inodes
    <3>1. whole' = whole \/ whole' = whole \cup {db}
      BY <1>15 DEF RollbackCopy
    <3>2. db \in Inodes
      BY <2>0 DEF db
    <3>. QED
      BY <3>1, <3>2
  <2>3. pc' \in Steps /\ result' \in Results
          /\ canonical' \in {"original", "unverified", "verified", "restored"}
    BY <1>15 DEF RollbackCopy
  <2>. QED
    BY <1>15, <2>1, <2>2, <2>3 DEF RollbackCopy
<1>16. CASE RollbackFinish
  BY <1>16 DEF RollbackFinish
<1>17. CASE FinishSwap
  BY <1>17 DEF FinishSwap
<1>18. CASE DropTemporary
  BY <1>18 DEF DropTemporary
<1>19. CASE ReportResult
  BY <1>19 DEF ReportResult
<1>20. CASE StepFails
  BY <1>20 DEF StepFails
<1>. QED
  BY <1>1, <1>2, <1>3, <1>4, <1>5, <1>6, <1>7, <1>8, <1>9, <1>10, <1>11,
     <1>12, <1>13, <1>14, <1>15, <1>16, <1>17, <1>18, <1>19, <1>20 DEF Rebuild

(* So do the other processes and the operator.                              *)
LEMMA EnvironmentType ==
    TypeOK /\ (Crash \/ Signal \/ ReplaceTarget \/ TakeName \/ Decay \/ (\E w \in Writers : Writer(w)))
      => TypeOK'
<1> SUFFICES ASSUME TypeOK,
                    \/ Crash \/ Signal \/ ReplaceTarget \/ TakeName \/ Decay
                    \/ \E w \in Writers : Writer(w)
             PROVE  TypeOK'
  OBVIOUS
<1> USE DEF TypeOK, files, sidecars, conns, others, options, tool
<1>1. CASE Crash
  BY <1>1 DEF Crash
<1>2. CASE Signal
  BY <1>2 DEF Signal
<1>3. CASE ReplaceTarget
  BY <1>3 DEF ReplaceTarget
<1>4. CASE TakeName \/ Decay
  <2>1. whole' \in SUBSET Inodes /\ taken' \in BOOLEAN
    BY <1>4 DEF TakeName, Decay
  <2>2. UNCHANGED <<pc, dir, data, sidecars, conns, acked, late, newcomers, replacedAt,
                    tool, cancelled, options>>
    BY <1>4 DEF TakeName, Decay
  <2>. QED
    BY <2>1, <2>2
<1>5. ASSUME NEW w \in Writers, Writer(w) PROVE TypeOK'
  <2>0. db \in Inodes \cup {Absent}
    BY DEF db
  <2>1. CASE WriterOpen(w)
    <3>1. whole' \in SUBSET Inodes
      BY <2>1 DEF WriterOpen, MayContaminate
    <3>2. walOf' \in Inodes \cup {Absent} /\ handle' \in [Writers -> Inodes \cup {Absent}]
            /\ linked' \in SUBSET Writers
      BY <2>0, <2>1 DEF WriterOpen
    <3>. QED
      BY <2>1, <3>1, <3>2 DEF WriterOpen
  <2>2. ASSUME NEW t \in Txns, WriterCommit(w, t) PROVE TypeOK'
    <3>1. whole' \in SUBSET Inodes
      BY <2>2 DEF WriterCommit, MayContaminate
    <3>2. acked' \in SUBSET Txns /\ late' \in SUBSET Txns
            /\ walTxns' \in SUBSET Txns /\ adrift' \in SUBSET Txns
      BY <2>2 DEF WriterCommit
    <3>. QED
      BY <2>2, <3>1, <3>2 DEF WriterCommit
  <2>3. handle[w] # Absent => Checkpointed(w) \in [Inodes -> SUBSET Txns]
    BY DEF Checkpointed
  <2>4. CASE WriterCheckpoint(w)
    BY <2>3, <2>4 DEF WriterCheckpoint
  <2>5. CASE WriterClose(w)
    BY <2>3, <2>5 DEF WriterClose
  <2>. QED
    BY <1>5, <2>1, <2>2, <2>4, <2>5 DEF Writer
<1>. QED
  BY <1>1, <1>2, <1>3, <1>4, <1>5

-----------------------------------------------------------------------------
(***************************************************************************)
(* The inductive step, one lemma per part of the invariant.                *)
(***************************************************************************)

(* What the steps know about the canonical path stays true: only the rename *)
(* makes it unverified, and each later step moves with its phase.           *)
LEMMA PhaseStep == PhaseInv /\ Next => PhaseInv'
<1> SUFFICES ASSUME PhaseInv, Next PROVE PhaseInv'
  OBVIOUS
<1> USE DEF PhaseInv, Goto, Return, tool, options
<1>1. CASE CheckpointSource \/ BeginRebuild \/ FinishRebuild \/ VerifyOutput
           \/ RecordIdentity \/ CloseSource
  BY <1>1 DEF CheckpointSource, BeginRebuild, FinishRebuild, VerifyOutput,
              RecordIdentity, CloseSource
<1>2. CASE RecheckTarget \/ EnterSwap \/ CheckSource \/ CheckSidecars
           \/ RemoveSidecars \/ ChooseBackupName \/ CreateRecoveryLink \/ FinishCopy \/ FinalCheck
  BY <1>2 DEF RecheckTarget, EnterSwap, CheckSource, CheckSidecars, RemoveSidecars,
              ChooseBackupName, CreateRecoveryLink, FinishCopy, FinalCheck
<1>3. CASE RenameOver \/ SyncInstalled \/ VerifyInstalled
  BY <1>3 DEF RenameOver, SyncInstalled, VerifyInstalled
<1>4. CASE RollbackSidecars \/ RollbackTruncate \/ RollbackCopy \/ RollbackFinish
  BY <1>4 DEF RollbackSidecars, RollbackTruncate, RollbackCopy, RollbackFinish
<1>5. CASE FinishSwap \/ DropTemporary \/ ReportResult \/ StepFails
  BY <1>5 DEF FinishSwap, DropTemporary, ReportResult, StepFails
<1>6. CASE Crash \/ Signal \/ ReplaceTarget \/ TakeName \/ Decay
  BY <1>6 DEF Crash, Signal, ReplaceTarget, TakeName, Decay
<1>7. ASSUME NEW w \in Writers, Writer(w) PROVE PhaseInv'
  BY <1>7 DEF Writer, WriterOpen, WriterCommit, WriterCheckpoint, WriterClose
<1>. QED
  BY <1>1, <1>2, <1>3, <1>4, <1>5, <1>6, <1>7 DEF Next, Rebuild

(* The directory keeps its shape: other processes only ever rename their    *)
(* own file over the path.                                                  *)
LEMMA EntryStep == TypeOK /\ PhaseInv /\ EntryInv /\ Next => EntryInv'
<1> SUFFICES ASSUME TypeOK, PhaseInv, EntryInv, Next PROVE EntryInv'
  OBVIOUS
<1>0. dir \in [Names -> Inodes \cup {Absent}]
  BY DEF TypeOK
<1> USE DEF EntryInv, Goto, Return, tool, files, TargetMatches, db
<1>1. CASE CheckpointSource \/ BeginRebuild \/ FinishRebuild \/ VerifyOutput
           \/ RecordIdentity \/ CloseSource
  BY <1>0, <1>1 DEF CheckpointSource, BeginRebuild, FinishRebuild, VerifyOutput,
                    RecordIdentity, CloseSource
<1>2. CASE RecheckTarget \/ EnterSwap \/ CheckSource \/ CheckSidecars
           \/ RemoveSidecars \/ FinalCheck
  BY <1>2 DEF RecheckTarget, EnterSwap, CheckSource, CheckSidecars, RemoveSidecars,
              FinalCheck
<1>3. CASE ChooseBackupName \/ CreateRecoveryLink \/ FinishCopy
  BY <1>0, <1>3 DEF ChooseBackupName, CreateRecoveryLink, FinishCopy
<1>4. CASE RenameOver
  BY <1>0, <1>4 DEF RenameOver
<1>5. CASE SyncInstalled \/ VerifyInstalled
  BY <1>5 DEF SyncInstalled, VerifyInstalled, PhaseInv
<1>6. CASE RollbackSidecars \/ RollbackTruncate
  BY <1>6 DEF RollbackSidecars, RollbackTruncate
<1>7. CASE RollbackCopy
  BY <1>7 DEF RollbackCopy, PhaseInv
<1>8. CASE RollbackFinish \/ FinishSwap \/ DropTemporary
  BY <1>0, <1>8 DEF RollbackFinish, FinishSwap, DropTemporary
<1>9. CASE ReportResult \/ StepFails
  BY <1>9 DEF ReportResult, StepFails
<1>10. CASE Crash \/ Signal \/ TakeName \/ Decay
  BY <1>10 DEF Crash, Signal, TakeName, Decay
<1>11. CASE ReplaceTarget
  BY <1>0, <1>11 DEF ReplaceTarget
<1>12. ASSUME NEW w \in Writers, Writer(w) PROVE EntryInv'
  BY <1>12 DEF Writer, WriterOpen, WriterCommit, WriterCheckpoint, WriterClose
<1>. QED
  BY <1>1, <1>2, <1>3, <1>4, <1>5, <1>6, <1>7, <1>8, <1>9, <1>10, <1>11, <1>12
     DEF Next, Rebuild

(* The source file is never damaged and never loses a transaction: only a   *)
(* rollback truncates a file, and by then the path names another one.       *)
LEMMA SourceStep ==
    TypeOK /\ PhaseInv /\ EntryInv /\ SourceInv /\ Next => SourceInv'
<1> SUFFICES ASSUME TypeOK, PhaseInv, EntryInv, SourceInv, Next PROVE SourceInv'
  OBVIOUS
<1>0. /\ dir \in [Names -> Inodes \cup {Absent}]
      /\ data \in [Inodes -> SUBSET Txns]
      /\ handle \in [Writers -> Inodes \cup {Absent}]
  BY DEF TypeOK
<1> USE DEF SourceInv, Goto, Return, tool, files, sidecars, conns, db
<1>1. CASE CheckpointSource \/ BeginRebuild \/ FinishRebuild \/ VerifyOutput
  BY <1>0, <1>1 DEF CheckpointSource, BeginRebuild, FinishRebuild, VerifyOutput
<1>2. CASE RecordIdentity
  BY <1>0, <1>2 DEF RecordIdentity, SourceCommits
<1>3. CASE CloseSource
  BY <1>3 DEF CloseSource
<1>4. CASE RecheckTarget \/ EnterSwap \/ CheckSource \/ CheckSidecars \/ FinalCheck
  BY <1>4 DEF RecheckTarget, EnterSwap, CheckSource, CheckSidecars, FinalCheck
<1>5. CASE RemoveSidecars \/ ChooseBackupName \/ CreateRecoveryLink \/ FinishCopy
  BY <1>0, <1>5 DEF RemoveSidecars, SeverWal, ChooseBackupName, CreateRecoveryLink, FinishCopy
<1>6. CASE RenameOver
  BY <1>0, <1>6 DEF RenameOver, EntryInv
<1>7. CASE SyncInstalled \/ RollbackSidecars
  BY <1>7 DEF SyncInstalled, RollbackSidecars, SeverWal
<1>8. CASE VerifyInstalled \/ RollbackTruncate \/ RollbackCopy
  <2>1. dir["db"] # "orig" /\ UNCHANGED dir
    BY <1>8 DEF VerifyInstalled, RollbackTruncate, RollbackCopy, PhaseInv, EntryInv
  <2>2. "orig" \in whole'
    BY <1>8, <2>1 DEF VerifyInstalled, MayContaminate, RollbackTruncate, RollbackCopy
  <2>3. pc' \notin {"close", "recheck", "enter"} \cup SwapSteps
    BY <1>8 DEF VerifyInstalled, RollbackTruncate, RollbackCopy
  <2>. QED
    BY <2>1, <2>2, <2>3
<1>9. CASE RollbackFinish \/ FinishSwap \/ DropTemporary
  BY <1>0, <1>9 DEF RollbackFinish, FinishSwap, DropTemporary
<1>10. CASE ReportResult \/ StepFails
  BY <1>10 DEF ReportResult, StepFails
<1>11. CASE Crash \/ Signal \/ TakeName \/ Decay
  BY <1>11 DEF Crash, Signal, TakeName, Decay
<1>12. CASE ReplaceTarget
  BY <1>0, <1>12 DEF ReplaceTarget
<1>13. ASSUME NEW w \in Writers, WriterOpen(w) PROVE SourceInv'
  <2>1. "orig" \in whole'
    BY <1>13 DEF WriterOpen, Mixed, MayContaminate
  <2>2. dir'["db"] = "orig" =>
          walOf' \in {Absent, "orig"} /\ \A v \in Writers : handle'[v] \in {Absent, "orig"}
    BY <1>0, <1>13 DEF WriterOpen
  <2>. QED
    BY <1>13, <2>1, <2>2 DEF WriterOpen
<1>14. ASSUME NEW w \in Writers, NEW t \in Txns, WriterCommit(w, t) PROVE SourceInv'
  <2>1. "orig" \in whole'
    BY <1>14 DEF WriterCommit, MayContaminate
  <2>. QED
    BY <1>14, <2>1 DEF WriterCommit
<1>15. ASSUME NEW w \in Writers, handle[w] # Absent
       PROVE  data["orig"] \subseteq Checkpointed(w)["orig"]
  BY <1>0, <1>15 DEF Checkpointed
<1>16. ASSUME NEW w \in Writers, WriterCheckpoint(w) PROVE SourceInv'
  BY <1>15, <1>16 DEF WriterCheckpoint
<1>17. ASSUME NEW w \in Writers, WriterClose(w) PROVE SourceInv'
  <2>1. data["orig"] \subseteq data'["orig"]
    BY <1>15, <1>17 DEF WriterClose
  <2>2. dir'["db"] = "orig" =>
          walOf' \in {Absent, "orig"} /\ \A v \in Writers : handle'[v] \in {Absent, "orig"}
    BY <1>0, <1>17 DEF WriterClose
  <2>. QED
    BY <1>17, <2>1, <2>2 DEF WriterClose
<1>. QED
  BY <1>1, <1>2, <1>3, <1>4, <1>5, <1>6, <1>7, <1>8, <1>9, <1>10, <1>11, <1>12,
     <1>13, <1>14, <1>16, <1>17 DEF Next, Rebuild, Writer

(* Outside its own copying no step takes content from the source or from    *)
(* the copy, or damages either.                                             *)
LEMMA FilesKept ==
    ASSUME SwapInv, Next, pc # "copying"
    PROVE  /\ whole \cap {"orig", "copy"} \subseteq whole'
           /\ data["orig"] \subseteq data'["orig"]
           /\ data["copy"] \subseteq data'["copy"]
<1>0. /\ data \in [Inodes -> SUBSET Txns] /\ walOf \in Inodes \cup {Absent}
      /\ handle \in [Writers -> Inodes \cup {Absent}]
      /\ db \in {"orig", "output", "foreign"}
  BY DEF SwapInv, TypeOK, EntryInv, db
<1> DEFINE Kept == /\ whole \cap {"orig", "copy"} \subseteq whole'
                   /\ data["orig"] \subseteq data'["orig"]
                   /\ data["copy"] \subseteq data'["copy"]
<1> USE DEF files, sidecars, conns
<1>1. CASE CheckpointSource \/ BeginRebuild \/ FinishRebuild
  BY <1>0, <1>1 DEF CheckpointSource, BeginRebuild, FinishRebuild, SourceCommits
<1>2. CASE VerifyOutput \/ RecordIdentity \/ CloseSource \/ RecheckTarget \/ EnterSwap
           \/ CheckSource \/ CheckSidecars \/ RemoveSidecars \/ ChooseBackupName \/ CreateRecoveryLink
           \/ FinalCheck \/ RenameOver \/ SyncInstalled \/ RollbackSidecars
  BY <1>2 DEF VerifyOutput, RecordIdentity, CloseSource, RecheckTarget, EnterSwap,
              CheckSource, CheckSidecars, RemoveSidecars, ChooseBackupName, CreateRecoveryLink,
              FinalCheck, RenameOver, SyncInstalled, RollbackSidecars
<1>3. CASE VerifyInstalled \/ RollbackTruncate \/ RollbackCopy
  <2>1. db # "orig" /\ db # "copy"
    BY <1>0, <1>3 DEF VerifyInstalled, RollbackTruncate, RollbackCopy, SwapInv,
                      PhaseInv, EntryInv, db
  <2>2. whole \cap {"orig", "copy"} \subseteq whole'
    BY <1>3, <2>1 DEF VerifyInstalled, MayContaminate, RollbackTruncate, RollbackCopy
  <2>3. data["orig"] \subseteq data'["orig"] /\ data["copy"] \subseteq data'["copy"]
    <3>1. data' = data \/ data' = [data EXCEPT ![db] = data[dir["bak"]]]
      BY <1>3 DEF VerifyInstalled, RollbackTruncate, RollbackCopy
    <3>. QED
      BY <1>0, <2>1, <3>1
  <2>. QED
    BY <2>2, <2>3
<1>4. CASE RollbackFinish \/ FinishSwap \/ DropTemporary \/ ReportResult \/ StepFails
  BY <1>4 DEF RollbackFinish, FinishSwap, DropTemporary, ReportResult, StepFails
<1>5. CASE Crash \/ Signal \/ ReplaceTarget \/ TakeName \/ Decay
  BY <1>5 DEF Crash, Signal, ReplaceTarget, TakeName, Decay
<1>6. ASSUME NEW w \in Writers, WriterOpen(w) PROVE Kept
  BY <1>0, <1>6 DEF WriterOpen, Mixed, MayContaminate, SwapInv, SourceInv, db
<1>7. ASSUME NEW w \in Writers, NEW t \in Txns, WriterCommit(w, t) PROVE Kept
  BY <1>0, <1>7 DEF WriterCommit, MayContaminate, SwapInv, SourceInv, db
<1>8. ASSUME NEW w \in Writers, handle[w] # Absent
      PROVE  /\ data["orig"] \subseteq Checkpointed(w)["orig"]
             /\ data["copy"] \subseteq Checkpointed(w)["copy"]
  BY <1>0, <1>8 DEF Checkpointed
<1>9. ASSUME NEW w \in Writers, WriterCheckpoint(w) \/ WriterClose(w) PROVE Kept
  BY <1>8, <1>9 DEF WriterCheckpoint, WriterClose
<1>10. CASE FinishCopy
  BY <1>10 DEF FinishCopy
<1>. QED
  BY <1>1, <1>2, <1>3, <1>4, <1>5, <1>6, <1>7, <1>9, <1>10 DEF Next, Rebuild, Writer

(* A good backup stays good while its name and its file are kept.           *)
LEMMA GoodBackupKept ==
    ASSUME GoodBackup, dir'["bak"] = dir["bak"],
           whole \cap {"orig", "copy"} \subseteq whole',
           data["orig"] \subseteq data'["orig"], data["copy"] \subseteq data'["copy"]
    PROVE  GoodBackup'
BY DEF GoodBackup

(* The backup that passes the final check was made from the source and is   *)
(* kept until the installed file was verified or restored.                  *)
LEMMA BackupStep == SwapInv /\ Next => BackupInv'
<1> SUFFICES ASSUME SwapInv, Next PROVE BackupInv'
  OBVIOUS
<1> USE DEF Goto, Return, tool, files, sidecars, conns, options
<1>0. dir \in [Names -> Inodes \cup {Absent}] /\ data \in [Inodes -> SUBSET Txns]
  BY DEF SwapInv, TypeOK
(* Steps of the rebuild before the backup and after the rename, and those   *)
(* that only end it: an unverified file was unverified before.              *)
<1>1. ASSUME UNCHANGED options, pc' \notin {"final", "rename"}, pc # "copying",
             canonical' = "unverified" =>
                canonical = "unverified" /\ dir'["bak"] = dir["bak"]
      PROVE  BackupInv'
  BY <1>1, FilesKept, GoodBackupKept DEF SwapInv, BackupInv
<1>2. CASE CheckpointSource \/ BeginRebuild \/ FinishRebuild \/ VerifyOutput
           \/ RecordIdentity \/ CloseSource \/ RecheckTarget \/ EnterSwap
           \/ CheckSource \/ CheckSidecars \/ RemoveSidecars
  <2>1. UNCHANGED options /\ pc' \notin {"final", "rename"} /\ pc # "copying"
          /\ canonical' = canonical /\ dir'["bak"] = dir["bak"]
    BY <1>0, <1>2 DEF CheckpointSource, BeginRebuild, FinishRebuild, VerifyOutput,
         RecordIdentity, CloseSource, RecheckTarget, EnterSwap, CheckSource,
         CheckSidecars, RemoveSidecars
  <2>. QED
    BY <1>1, <2>1
<1>3. CASE ChooseBackupName \/ CreateRecoveryLink
  <2>1. /\ UNCHANGED <<options, data, whole>> /\ canonical' = "original" /\ pc' # "rename"
        /\ Base \subseteq data["orig"] /\ "orig" \in whole
    BY <1>3 DEF ChooseBackupName, CreateRecoveryLink, SwapInv, PhaseInv, SourceInv
  <2>2. ASSUME hardLinks, pc' = "final"
        PROVE  GoodBackup' \/ dir'["db"] # "orig"
    BY <1>0, <1>3, <2>1, <2>2 DEF ChooseBackupName, CreateRecoveryLink, GoodBackup, db
  <2>3. hardLinks \/ ~skipBackup => hardLinks \/ pc' # "final"
    BY <1>3 DEF ChooseBackupName, CreateRecoveryLink
  <2>. QED
    BY <2>1, <2>2, <2>3 DEF BackupInv
<1>4. CASE FinishCopy
  <2>1. /\ UNCHANGED <<options, seen>> /\ canonical' = "original" /\ pc' # "rename"
        /\ seen = Base /\ Base \subseteq data["orig"] /\ dir["bak"] = "copy"
    BY <1>4 DEF FinishCopy, SwapInv, PhaseInv, SourceInv, EntryInv
  <2>2. ASSUME pc' = "final" PROVE GoodBackup' \/ data'["orig"] # seen'
    BY <1>0, <1>4, <2>1, <2>2 DEF FinishCopy, Unmodified, GoodBackup
  <2>. QED
    BY <2>1, <2>2 DEF BackupInv
<1>5. CASE FinalCheck
  <2>1. UNCHANGED <<options, dir, data, whole>> /\ canonical' = "original" /\ pc' # "final"
    BY <1>5 DEF FinalCheck, SwapInv, PhaseInv
  <2>2. pc' = "rename" => pc = "final" /\ dir["db"] = "orig" /\ data["orig"] = seen
    BY <1>5 DEF FinalCheck, TargetMatches, Unmodified, db
  <2>. QED
    BY <2>1, <2>2 DEF SwapInv, BackupInv, GoodBackup
<1>6. CASE RenameOver
  <2>1. UNCHANGED <<options, data, whole>> /\ pc' \notin {"final", "rename"}
          /\ pc = "rename" /\ canonical = "original"
    BY <1>6 DEF RenameOver, SwapInv, PhaseInv
  <2>2. canonical' = "unverified" => dir'["bak"] = dir["bak"]
    BY <1>0, <1>6, <2>1 DEF RenameOver
  <2>. QED
    BY <2>1, <2>2 DEF SwapInv, BackupInv, GoodBackup
<1>7. CASE SyncInstalled \/ VerifyInstalled \/ RollbackSidecars \/ RollbackTruncate
           \/ RollbackCopy \/ DropTemporary \/ ReportResult \/ StepFails
  <2>1. UNCHANGED options /\ pc' \notin {"final", "rename"} /\ pc # "copying"
          /\ dir'["bak"] = dir["bak"]
    BY <1>0, <1>7 DEF SyncInstalled, VerifyInstalled, RollbackSidecars,
         RollbackTruncate, RollbackCopy, DropTemporary, ReportResult, StepFails
  <2>2. canonical' = "unverified" => canonical = "unverified"
    BY <1>7 DEF SyncInstalled, VerifyInstalled, RollbackSidecars,
         RollbackTruncate, RollbackCopy, DropTemporary, ReportResult, StepFails
  <2>. QED
    BY <1>1, <2>1, <2>2
<1>8. CASE RollbackFinish \/ FinishSwap
  <2>1. UNCHANGED options /\ pc' \notin {"final", "rename"} /\ pc # "copying"
          /\ canonical' # "unverified"
    BY <1>8 DEF RollbackFinish, FinishSwap, SwapInv, PhaseInv
  <2>. QED
    BY <1>1, <2>1
<1>9. CASE Crash
  BY <1>9 DEF Crash, SwapInv, BackupInv, GoodBackup
(* The others never reach the final check's facts except by falsifying them. *)
<1>10. CASE Signal \/ ReplaceTarget \/ TakeName \/ Decay \/ (\E w \in Writers : Writer(w))
  <2>1. UNCHANGED <<options, pc, canonical, seen>> /\ dir'["bak"] = dir["bak"]
          /\ (dir'["db"] = "orig" => dir["db"] = "orig")
    BY <1>0, <1>10 DEF Signal, ReplaceTarget, TakeName, Decay, Writer, WriterOpen, WriterCommit,
         WriterCheckpoint, WriterClose
  <2>2. CASE pc # "copying"
    <3>1. /\ whole \cap {"orig", "copy"} \subseteq whole'
          /\ data["orig"] \subseteq data'["orig"]
          /\ data["copy"] \subseteq data'["copy"]
      BY <2>2, FilesKept
    <3>2. GoodBackup => GoodBackup'
      BY <2>1, <3>1, GoodBackupKept
    <3>3. pc = "final" /\ data["orig"] # seen => data'["orig"] # seen'
      BY <2>1, <3>1 DEF SwapInv, SourceInv
    <3>. QED
      BY <2>1, <3>2, <3>3 DEF SwapInv, BackupInv
  <2>3. CASE pc = "copying"
    BY <2>1, <2>3 DEF SwapInv, PhaseInv, BackupInv
  <2>. QED
    BY <2>2, <2>3
<1>. QED
  BY <1>2, <1>3, <1>4, <1>5, <1>6, <1>7, <1>8, <1>9, <1>10 DEF Next, Rebuild

-----------------------------------------------------------------------------
(***************************************************************************)
(* The theorems.                                                           *)
(***************************************************************************)

(* The invariant holds when the rebuild is called.                          *)
LEMMA SwapInvInit == Init => SwapInv
BY BaseAssumption DEF Init, SwapInv, TypeOK, PhaseInv, EntryInv, SourceInv, BackupInv

(* The invariant is preserved by every step of anybody.                     *)
LEMMA SwapInvStep == SwapInv /\ [Next]_vars => SwapInv'
<1>1. SwapInv /\ Next => SwapInv'
  BY RebuildType, EnvironmentType, PhaseStep, EntryStep, SourceStep, BackupStep
     DEF SwapInv, Next
<1>2. SwapInv /\ UNCHANGED vars => SwapInv'
  BY DEF SwapInv, TypeOK, PhaseInv, EntryInv, SourceInv, BackupInv, GoodBackup, vars,
         files, sidecars, conns, others, options, tool
<1>. QED
  BY <1>1, <1>2

(* The inductive invariant holds throughout.                                *)
THEOREM SwapInvariant == Spec => []SwapInv
  BY SwapInvInit, SwapInvStep, PTL DEF Spec

(* Every variable keeps its type, for any transactions and writers.         *)
THEOREM TypeCorrect == Spec => []TypeOK
  BY SwapInvariant, PTL DEF SwapInv

(* While installed output is unverified the recovery backup is whole and    *)
(* holds everything committed before the rebuild, whatever writers, signals *)
(* and replacements of the path interleave with vacuum_into.rs.             *)
THEOREM BackupCovers == Spec => []BackupCoversUnverified
<1>1. SwapInv => BackupCoversUnverified
  BY DEF SwapInv, BackupInv, GoodBackup, BackupCoversUnverified
<1>. QED
  BY <1>1, SwapInvariant, PTL

-----------------------------------------------------------------------------
(***************************************************************************)
(* What the run leaves and reports.  Four more invariants rest on the      *)
(* first one; each is inductive relative to it.                            *)
(***************************************************************************)

(* The names after the rename, and the result: a run that has not returned   *)
(* has none, and only a verified one returns "ok".                          *)
OutcomeInv ==
    /\ pc \notin {"drop", "returned", "done", "crashed"} => result = "none"
    /\ canonical # "original" =>
         /\ dir["tmp"] = Absent
         /\ dir["bak"] = Absent \/ GoodBackup
    /\ ~(hardLinks \/ ~skipBackup) => dir["bak"] = Absent
    /\ canonical = "verified" /\ ~skipBackup => GoodBackup
    /\ result = "ok" => canonical = "verified" /\ (skipBackup => dir["bak"] = Absent)

(* A file put at the path before the last check is found by that check.     *)
Overlooked == {"rename", "sync", "verify"} \cup RollbackSteps
TargetInv == replacedAt \in Steps \ Overlooked => dir["db"] = "foreign" /\ pc # "rename"

(* Where the committed transactions are while nobody replaced the path: the *)
(* file at the path follows from the phase, ...                             *)
PathKnown == dir["db"] = IF canonical = "original" THEN "orig" ELSE "output"

(* ... its open connections share the WAL beside it, ...                    *)
WalShared == \A w \in linked : handle[w] = db => walOf = db

(* ... there are none under the exclusive lock, ...                         *)
Alone ==
    /\ pc \in LockedSteps =>
         /\ acked = Base /\ late = {}
         /\ linked = {} /\ \A w \in Writers : handle[w] = Absent
    /\ pc = "close" => walTxns = {}

(* ... whoever has it open when the sidecars are looked at is noticed by    *)
(* them, ...                                                                *)
Noticed ==
    pc \in LockedSteps \cup {"recheck", "enter", "swap", "sidecars"} =>
        /\ newcomers = {}
        /\ shm = "empty" => \A w \in Writers : handle[w] = Absent

(* ... so that a connection keeps its file and its WAL, unless it was opened *)
(* behind that look, ...                                                    *)
OthersUnharmed ==
    \A w \in Writers : handle[w] # Absent /\ w \notin newcomers =>
        pc \notin Window /\ handle[w] = db /\ w \in linked

(* ... the output was built from everything committed by then, ...          *)
OutputComplete ==
    pc \in {"verify_output", "identity", "close", "recheck", "enter"} \cup SwapSteps
        => Base \subseteq data["output"]

(* ... and after the last look at the sidecars the WAL holds only what was  *)
(* committed behind it; what was committed before it and got past the final *)
(* check is what the output was built from.                                 *)
BeforeIsBase ==
    /\ pc \in Window => walTxns \subseteq late
    /\ pc \in {"rename", "sync", "verify"} \cup RollbackSteps => acked \ late \subseteq Base

CommitInv ==
    replacedAt = "never" =>
        /\ PathKnown /\ WalShared /\ Alone /\ Noticed /\ OthersUnharmed
        /\ OutputComplete /\ BeforeIsBase
        /\ acked \ late \subseteq Visible

(* A file that was verified or restored stays whole and is opened beside    *)
(* its own WAL only, unless somebody committed behind the checks.           *)
WholeInv ==
    replacedAt = "never" /\ late = {} /\ canonical \in {"verified", "restored"}
        => db \in whole /\ ~Mixed

(* Every step keeps OutcomeInv: the temporary name is given up and a backup *)
(* exists when the path changes, and only the last step drops it.           *)
LEMMA OutcomeStep == SwapInv /\ OutcomeInv /\ Next => OutcomeInv'
<1> SUFFICES ASSUME SwapInv, OutcomeInv, Next PROVE OutcomeInv'
  OBVIOUS
<1> USE DEF Goto, Return, tool, files, options
<1>0. dir \in [Names -> Inodes \cup {Absent}] /\ skipBackup \in BOOLEAN
  BY DEF SwapInv, TypeOK
(* A step that keeps the path and the backup and returns nothing but an     *)
(* error.                                                                   *)
<1>1. ASSUME UNCHANGED <<canonical, options>>, dir'["bak"] = dir["bak"],
             canonical # "original" => dir'["tmp"] = Absent,
             result' = "ok" => result = "ok",
             pc' \notin {"drop", "returned", "done", "crashed"} => result' = "none",
             pc # "copying"
      PROVE  OutcomeInv'
  BY <1>1, FilesKept, GoodBackupKept DEF OutcomeInv
<1>2. CASE CheckpointSource \/ BeginRebuild \/ FinishRebuild \/ VerifyOutput
           \/ RecordIdentity \/ CloseSource \/ RecheckTarget \/ EnterSwap
           \/ CheckSource \/ CheckSidecars \/ RemoveSidecars \/ FinalCheck
  <2>1. /\ UNCHANGED <<canonical, options>> /\ canonical = "original"
        /\ dir'["bak"] = dir["bak"] /\ pc # "copying" /\ result = "none"
    BY <1>0, <1>2 DEF CheckpointSource, BeginRebuild, FinishRebuild, VerifyOutput,
         RecordIdentity, CloseSource, RecheckTarget, EnterSwap, CheckSource,
         CheckSidecars, RemoveSidecars, FinalCheck, SwapInv, PhaseInv, OutcomeInv
  <2>2. (pc' = "drop" \/ UNCHANGED result) /\ result' # "ok"
    BY <1>2, <2>1 DEF CheckpointSource, BeginRebuild, FinishRebuild, VerifyOutput,
         RecordIdentity, CloseSource, RecheckTarget, EnterSwap, CheckSource,
         CheckSidecars, RemoveSidecars, FinalCheck
  <2>. QED
    BY <1>1, <2>1, <2>2
<1>3. CASE ChooseBackupName \/ CreateRecoveryLink \/ FinishCopy
  <2>1. /\ UNCHANGED <<canonical, options>> /\ canonical = "original" /\ result = "none"
        /\ result' # "ok" /\ (pc' = "drop" \/ UNCHANGED result)
    BY <1>3 DEF ChooseBackupName, CreateRecoveryLink, FinishCopy, SwapInv, PhaseInv, OutcomeInv
  <2>2. ~(hardLinks \/ ~skipBackup) => dir'["bak"] = Absent
    BY <1>0, <1>3 DEF ChooseBackupName, CreateRecoveryLink, FinishCopy, OutcomeInv,
       SwapInv, PhaseInv
  <2>. QED
    BY <2>1, <2>2 DEF OutcomeInv
<1>4. CASE RenameOver
  <2>1. UNCHANGED <<data, whole, options>> /\ canonical = "original" /\ result = "none"
          /\ pc = "rename"
    BY <1>4 DEF RenameOver, SwapInv, PhaseInv, OutcomeInv
  <2>2. CASE canonical' = "unverified" /\ dir'["bak"] = dir["bak"] /\ dir'["tmp"] = Absent
             /\ result' = "none"
    BY <2>1, <2>2 DEF OutcomeInv, SwapInv, BackupInv, GoodBackup
  <2>3. CASE canonical' = "original" /\ dir'["bak"] \in {Absent, dir["bak"]}
             /\ result' # "ok" /\ pc' = "drop"
    BY <2>1, <2>3 DEF OutcomeInv
  <2>. QED
    BY <1>0, <1>4, <2>1, <2>2, <2>3 DEF RenameOver
<1>5. CASE VerifyInstalled
  <2>1. /\ UNCHANGED <<dir, options>> /\ canonical = "unverified" /\ pc # "copying"
        /\ canonical' \in {"unverified", "verified"} /\ result' = "none"
    BY <1>5 DEF VerifyInstalled, SwapInv, PhaseInv, OutcomeInv
  <2>2. GoodBackup => GoodBackup'
    BY <2>1, FilesKept, GoodBackupKept
  <2>. QED
    BY <1>0, <2>1, <2>2 DEF OutcomeInv, SwapInv, BackupInv
<1>6. CASE SyncInstalled \/ RollbackSidecars \/ RollbackTruncate
  <2>1. /\ UNCHANGED <<canonical, dir, options>> /\ pc # "copying" /\ result = "none"
        /\ canonical = "unverified"
    BY <1>6 DEF SyncInstalled, RollbackSidecars, RollbackTruncate, OutcomeInv, SwapInv, PhaseInv
  <2>2. result' # "ok" /\ (pc' = "drop" \/ UNCHANGED result)
    BY <1>6, <2>1 DEF SyncInstalled, RollbackSidecars, RollbackTruncate
  <2>. QED
    BY <1>1, <2>1, <2>2 DEF OutcomeInv
<1>7. CASE RollbackCopy
  <2>1. /\ UNCHANGED <<dir, options>> /\ canonical = "unverified" /\ pc # "copying"
        /\ canonical' \in {"unverified", "restored"} /\ result = "none"
        /\ result' # "ok" /\ (pc' = "drop" \/ UNCHANGED result)
    BY <1>7 DEF RollbackCopy, SwapInv, PhaseInv, OutcomeInv
  <2>2. GoodBackup => GoodBackup'
    BY <2>1, FilesKept, GoodBackupKept
  <2>. QED
    BY <1>0, <2>1, <2>2 DEF OutcomeInv
<1>8. CASE RollbackFinish \/ FinishSwap
  <2>1. /\ UNCHANGED <<canonical, data, whole, options>> /\ dir'["tmp"] = dir["tmp"]
        /\ dir'["bak"] \in {Absent, dir["bak"]} /\ pc' = "drop"
    BY <1>0, <1>8 DEF RollbackFinish, FinishSwap
  <2>2. canonical \in {"restored", "verified"} /\ result' \in {"ok", "io", "integrity", "fatal"}
          /\ (canonical = "verified" /\ ~skipBackup => dir'["bak"] = dir["bak"])
    BY <1>8 DEF RollbackFinish, FinishSwap, SwapInv, PhaseInv
  <2>3. result' = "ok" => canonical' = "verified" /\ (skipBackup' => dir'["bak"] = Absent)
    BY <1>0, <1>8 DEF RollbackFinish, FinishSwap, SwapInv, PhaseInv
  <2>. QED
    BY <2>1, <2>2, <2>3 DEF OutcomeInv, GoodBackup
<1>9. CASE DropTemporary \/ ReportResult \/ StepFails \/ Crash
  <2>1. /\ dir'["bak"] = dir["bak"] /\ dir'["tmp"] \in {Absent, dir["tmp"]}
        /\ pc' \in {"drop", "returned", "done", "crashed"}
        /\ (result' = "ok" => result = "ok")
    BY <1>0, <1>9 DEF DropTemporary, ReportResult, StepFails, Crash
  <2>2. CASE pc = "copying"
    BY <1>9, <2>2 DEF DropTemporary, ReportResult, StepFails, Crash, OutcomeInv, GoodBackup
  <2>3. CASE pc # "copying"
    <3>1. UNCHANGED <<canonical, options>>
      BY <1>9 DEF DropTemporary, ReportResult, StepFails, Crash
    <3>. QED
      BY <1>1, <2>1, <2>3, <3>1 DEF OutcomeInv
  <2>. QED
    BY <2>2, <2>3
<1>10. CASE Signal \/ ReplaceTarget \/ TakeName \/ Decay \/ (\E w \in Writers : Writer(w))
  <2>1. /\ UNCHANGED <<canonical, options, pc, result>>
        /\ dir'["bak"] = dir["bak"] /\ dir'["tmp"] = dir["tmp"]
    BY <1>0, <1>10 DEF Signal, ReplaceTarget, TakeName, Decay, Writer, WriterOpen, WriterCommit,
         WriterCheckpoint, WriterClose
  <2>2. CASE pc = "copying"
    BY <2>1, <2>2 DEF OutcomeInv, SwapInv, PhaseInv
  <2>. QED
    BY <1>1, <2>1, <2>2 DEF OutcomeInv
<1>. QED
  BY <1>2, <1>3, <1>4, <1>5, <1>6, <1>7, <1>8, <1>9, <1>10 DEF Next, Rebuild

(* Only the final check opens the way to the rename, and it finds a file    *)
(* that was put there before.                                               *)
LEMMA TargetStep == SwapInv /\ TargetInv /\ Next => TargetInv'
<1> SUFFICES ASSUME SwapInv, TargetInv, Next PROVE TargetInv'
  OBVIOUS
<1> USE DEF Goto, Return, tool, files, others, TargetInv, Overlooked
<1>0. dir \in [Names -> Inodes \cup {Absent}] /\ pc \in Steps
  BY DEF SwapInv, TypeOK
<1>1. ASSUME UNCHANGED replacedAt, dir'["db"] = dir["db"], pc' # "rename" PROVE TargetInv'
  BY <1>1
<1>2. CASE CheckpointSource \/ BeginRebuild \/ FinishRebuild \/ VerifyOutput
           \/ RecordIdentity \/ CloseSource \/ RecheckTarget \/ EnterSwap
           \/ CheckSource \/ CheckSidecars \/ RemoveSidecars
  BY <1>0, <1>1, <1>2 DEF CheckpointSource, BeginRebuild, FinishRebuild, VerifyOutput,
     RecordIdentity, CloseSource, RecheckTarget, EnterSwap, CheckSource, CheckSidecars,
     RemoveSidecars
<1>3. CASE ChooseBackupName \/ CreateRecoveryLink \/ FinishCopy
  BY <1>0, <1>1, <1>3 DEF ChooseBackupName, CreateRecoveryLink, FinishCopy
<1>4. CASE FinalCheck
  BY <1>4 DEF FinalCheck, TargetMatches, db
<1>5. CASE RenameOver
  BY <1>0, <1>5 DEF RenameOver
<1>6. CASE SyncInstalled \/ VerifyInstalled \/ RollbackSidecars \/ RollbackTruncate
           \/ RollbackCopy \/ RollbackFinish \/ FinishSwap \/ DropTemporary
           \/ ReportResult \/ StepFails
  <2>1. UNCHANGED replacedAt /\ dir'["db"] = dir["db"] /\ pc' # "rename"
    BY <1>0, <1>6 DEF SyncInstalled, VerifyInstalled, RollbackSidecars,
       RollbackTruncate, RollbackCopy, RollbackFinish, FinishSwap, DropTemporary,
       ReportResult, StepFails
  <2>. QED
    BY <1>1, <2>1
<1>7. CASE Crash \/ Signal \/ TakeName \/ Decay
  BY <1>7 DEF Crash, Signal, TakeName, Decay
<1>8. CASE ReplaceTarget
  BY <1>0, <1>8 DEF ReplaceTarget
<1>9. ASSUME NEW w \in Writers, Writer(w) PROVE TargetInv'
  BY <1>9 DEF Writer, WriterOpen, WriterCommit, WriterCheckpoint, WriterClose
<1>. QED
  BY <1>2, <1>3, <1>4, <1>5, <1>6, <1>7, <1>8, <1>9 DEF Next, Rebuild

(* A path nobody replaced was not replaced before.                          *)
LEMMA NeverReplaced ==
    ASSUME TypeOK, Next, replacedAt' = "never"
    PROVE  replacedAt = "never" /\ ~ReplaceTarget
BY DEF TypeOK, Goto, Return, tool, files, others, ReplaceTarget, Next, Rebuild,
   CheckpointSource, BeginRebuild, FinishRebuild,
   VerifyOutput, RecordIdentity, CloseSource, RecheckTarget, EnterSwap, CheckSource,
   CheckSidecars, RemoveSidecars, ChooseBackupName, CreateRecoveryLink, FinishCopy,
   FinalCheck, RenameOver,
   SyncInstalled, VerifyInstalled, RollbackSidecars, RollbackTruncate, RollbackCopy,
   RollbackFinish, FinishSwap, DropTemporary, ReportResult, StepFails, Crash, Signal,
   TakeName, Decay, Writer, WriterOpen, WriterCommit, WriterCheckpoint, WriterClose

(* Which file the path names follows from what the rebuild did to it, as    *)
(* long as nobody else renames.                                             *)
LEMMA CommitPath ==
    ASSUME SwapInv, CommitInv, Next, replacedAt' = "never"
    PROVE  PathKnown'
<1> USE DEF Goto, Return, tool, files, others, PathKnown
<1>0. dir \in [Names -> Inodes \cup {Absent}] /\ pc \in Steps
  BY DEF SwapInv, TypeOK
<1>1. replacedAt = "never" /\ ~ReplaceTarget
  BY NeverReplaced DEF SwapInv
<1>2. dir["db"] = IF canonical = "original" THEN "orig" ELSE "output"
  BY <1>1 DEF CommitInv
<1>3. CASE RenameOver
  BY <1>0, <1>2, <1>3 DEF RenameOver, SwapInv, EntryInv
<1>4. CASE ~RenameOver
  <2>1. dir'["db"] = dir["db"]
    BY <1>0, <1>1, <1>4 DEF Next, Rebuild, CheckpointSource, BeginRebuild, FinishRebuild,
       VerifyOutput, RecordIdentity, CloseSource, RecheckTarget, EnterSwap, CheckSource,
       CheckSidecars, RemoveSidecars, ChooseBackupName, CreateRecoveryLink, FinishCopy, FinalCheck,
       SyncInstalled, VerifyInstalled, RollbackSidecars, RollbackTruncate, RollbackCopy,
       RollbackFinish, FinishSwap, DropTemporary, ReportResult, StepFails, Crash, Signal,
       TakeName, Decay, Writer, WriterOpen, WriterCommit, WriterCheckpoint, WriterClose
  <2>2. canonical' = "original" <=> canonical = "original"
    BY <1>0, <1>1, <1>4 DEF SwapInv, PhaseInv, Next, Rebuild, CheckpointSource,
       BeginRebuild, FinishRebuild, VerifyOutput, RecordIdentity, CloseSource, RecheckTarget, EnterSwap,
       CheckSource, CheckSidecars, RemoveSidecars, ChooseBackupName, CreateRecoveryLink, FinishCopy, FinalCheck,
       SyncInstalled, VerifyInstalled, RollbackSidecars, RollbackTruncate, RollbackCopy,
       RollbackFinish, FinishSwap, DropTemporary, ReportResult, StepFails, Crash, Signal,
       TakeName, Decay, Writer, WriterOpen, WriterCommit, WriterCheckpoint, WriterClose
  <2>. QED
    BY <1>2, <2>1, <2>2
<1>. QED
  BY <1>3, <1>4

(* Nobody else has the file open under the lock: opening it waits, and      *)
(* there was no connection to begin with.                                   *)
LEMMA CommitAlone ==
    ASSUME SwapInv, CommitInv, Next, replacedAt' = "never"
    PROVE  Alone'
<1>0. /\ replacedAt = "never" /\ ~ReplaceTarget
      /\ PathKnown /\ Alone
      /\ (pc \in LockedSteps => db = "orig")
      /\ handle \in [Writers -> Inodes \cup {Absent}]
  BY NeverReplaced DEF SwapInv, TypeOK, CommitInv, PathKnown, PhaseInv, db
<1> USE DEF Goto, Return, tool, files, sidecars, conns, others, Alone
<1>1. CASE CheckpointSource \/ BeginRebuild \/ FinishRebuild \/ VerifyOutput \/ RecordIdentity
  BY <1>0, <1>1 DEF CheckpointSource, BeginRebuild, FinishRebuild, VerifyOutput, RecordIdentity
<1>2. CASE CloseSource \/ RecheckTarget \/ EnterSwap \/ CheckSource \/ CheckSidecars
           \/ RemoveSidecars \/ ChooseBackupName \/ CreateRecoveryLink \/ FinishCopy \/ FinalCheck
           \/ RenameOver \/ SyncInstalled \/ VerifyInstalled \/ RollbackSidecars
           \/ RollbackTruncate \/ RollbackCopy \/ RollbackFinish \/ FinishSwap
           \/ DropTemporary \/ ReportResult \/ StepFails \/ Crash
  <2>1. pc' \notin LockedSteps
    BY <1>2 DEF CloseSource, RecheckTarget, EnterSwap, CheckSource, CheckSidecars,
       RemoveSidecars, ChooseBackupName, CreateRecoveryLink, FinishCopy, FinalCheck, RenameOver,
       SyncInstalled, VerifyInstalled, RollbackSidecars, RollbackTruncate,
       RollbackCopy, RollbackFinish, FinishSwap, DropTemporary, ReportResult,
       StepFails, Crash
  <2>. QED
    BY <2>1
<1>3. CASE Signal \/ TakeName \/ Decay
  BY <1>0, <1>3 DEF Signal, TakeName, Decay
<1>4. ASSUME NEW w \in Writers, Writer(w) PROVE Alone'
  <2>1. pc' = pc
    BY <1>4 DEF Writer, WriterOpen, WriterCommit, WriterCheckpoint, WriterClose
  <2>2. pc \notin LockedSteps
    BY <1>0, <1>4 DEF Writer, WriterOpen, WriterCommit, WriterCheckpoint, WriterClose, Locked
  <2>. QED
    BY <2>1, <2>2
<1>. QED
  BY <1>0, <1>1, <1>2, <1>3, <1>4 DEF Next, Rebuild

(* The connections to the file at the path write to the WAL beside it: only *)
(* removing the WAL takes it from them, and then they hold an unlinked one. *)
LEMMA CommitWal ==
    ASSUME SwapInv, CommitInv, Next, replacedAt' = "never"
    PROVE  WalShared'
<1>0. /\ replacedAt = "never" /\ ~ReplaceTarget
      /\ PathKnown /\ WalShared /\ Alone
      /\ dir \in [Names -> Inodes \cup {Absent}]
      /\ handle \in [Writers -> Inodes \cup {Absent}]
      /\ linked \in SUBSET Writers
  BY NeverReplaced DEF SwapInv, TypeOK, CommitInv
<1> USE DEF Goto, Return, tool, files, sidecars, conns, others, WalShared, db
<1>1. ASSUME UNCHANGED <<conns, walOf>>, dir'["db"] = dir["db"] PROVE WalShared'
  BY <1>0, <1>1
<1>2. CASE CheckpointSource \/ BeginRebuild \/ FinishRebuild \/ VerifyOutput
           \/ RecordIdentity \/ RecheckTarget \/ EnterSwap \/ CheckSource
           \/ CheckSidecars \/ ChooseBackupName \/ CreateRecoveryLink \/ FinishCopy \/ FinalCheck
           \/ SyncInstalled \/ RollbackTruncate \/ RollbackCopy \/ RollbackFinish
           \/ FinishSwap \/ DropTemporary \/ ReportResult \/ StepFails
           \/ Crash \/ Signal \/ TakeName \/ Decay
  <2>1. UNCHANGED <<conns, walOf>> /\ dir'["db"] = dir["db"]
    BY <1>0, <1>2 DEF CheckpointSource, BeginRebuild, FinishRebuild, VerifyOutput,
       RecordIdentity, RecheckTarget, EnterSwap, CheckSource, CheckSidecars,
       ChooseBackupName, CreateRecoveryLink, FinishCopy, FinalCheck, SyncInstalled, RollbackTruncate,
       RollbackCopy, RollbackFinish, FinishSwap, DropTemporary, ReportResult,
       StepFails, Crash, Signal, TakeName, Decay
  <2>. QED
    BY <1>1, <2>1
<1>3. CASE CloseSource
  <2>1. linked = {} /\ linked' = linked
    BY <1>0, <1>3 DEF CloseSource, Alone
  <2>. QED
    BY <2>1
<1>4. CASE RemoveSidecars
  BY <1>4 DEF RemoveSidecars, SeverWal
<1>5. CASE RenameOver
  <2>1. /\ UNCHANGED <<conns, walOf>> /\ dir'["db"] \in {dir["db"], "output"}
        /\ dir["db"] = "orig"
    BY <1>0, <1>5 DEF RenameOver, SwapInv, PhaseInv, EntryInv, PathKnown
  <2>2. \A w \in Writers : handle[w] # "output"
    BY <2>1 DEF SwapInv, SourceInv
  <2>. QED
    BY <1>0, <2>1, <2>2
<1>6. CASE VerifyInstalled
  <2>1. UNCHANGED <<conns, dir>> /\ walOf' \in {walOf, db}
    BY <1>6 DEF VerifyInstalled
  <2>. QED
    BY <1>0, <2>1
<1>7. CASE RollbackSidecars
  <2>1. linked' = {} \/ UNCHANGED <<conns, walOf, dir>>
    BY <1>7 DEF RollbackSidecars, SeverWal
  <2>. QED
    BY <1>1, <2>1
<1>8. ASSUME NEW w \in Writers, WriterOpen(w) PROVE WalShared'
  BY <1>0, <1>8 DEF WriterOpen
<1>9. ASSUME NEW w \in Writers, (\E t \in Txns : WriterCommit(w, t)) \/ WriterCheckpoint(w)
      PROVE WalShared'
  BY <1>1, <1>9 DEF WriterCommit, WriterCheckpoint
<1>10. ASSUME NEW w \in Writers, WriterClose(w) PROVE WalShared'
  <2>1. UNCHANGED dir /\ linked' = linked \ {w}
          /\ \A v \in linked' : handle'[v] = handle[v]
    BY <1>0, <1>10 DEF WriterClose
  <2>2. linked' = {} \/ walOf' = walOf
    BY <1>10 DEF WriterClose
  <2>. QED
    BY <1>0, <2>1, <2>2
<1>. QED
  BY <1>0, <1>2, <1>3, <1>4, <1>5, <1>6, <1>7, <1>8, <1>9, <1>10 DEF Next, Rebuild, Writer

(* The -shm entry of a connection is there until the sidecars are looked at. *)
LEMMA CommitNoticed ==
    ASSUME SwapInv, CommitInv, Next, replacedAt' = "never"
    PROVE  Noticed'
<1>0. /\ replacedAt = "never" /\ ~ReplaceTarget
      /\ Noticed /\ Alone /\ OthersUnharmed
      /\ handle \in [Writers -> Inodes \cup {Absent}]
  BY NeverReplaced DEF SwapInv, TypeOK, CommitInv
<1> USE DEF Goto, Return, tool, sidecars, conns, others, Noticed
<1>1. CASE CheckpointSource \/ BeginRebuild \/ FinishRebuild \/ VerifyOutput \/ RecordIdentity
           \/ RecheckTarget \/ EnterSwap \/ CheckSource \/ CheckSidecars
  BY <1>0, <1>1 DEF CheckpointSource, BeginRebuild, FinishRebuild, VerifyOutput,
     RecordIdentity, RecheckTarget, EnterSwap, CheckSource, CheckSidecars
<1>2. CASE CloseSource
  BY <1>0, <1>2 DEF CloseSource, Alone
<1>3. CASE RemoveSidecars \/ ChooseBackupName \/ CreateRecoveryLink \/ FinishCopy
           \/ FinalCheck \/ RenameOver \/ SyncInstalled \/ VerifyInstalled
           \/ RollbackSidecars \/ RollbackTruncate \/ RollbackCopy \/ RollbackFinish
           \/ FinishSwap \/ DropTemporary \/ ReportResult \/ StepFails \/ Crash
  <2>1. pc' \notin LockedSteps \cup {"recheck", "enter", "swap", "sidecars"}
    BY <1>3 DEF RemoveSidecars, ChooseBackupName, CreateRecoveryLink, FinishCopy,
       FinalCheck, RenameOver, SyncInstalled, VerifyInstalled, RollbackSidecars,
       RollbackTruncate, RollbackCopy, RollbackFinish, FinishSwap, DropTemporary,
       ReportResult, StepFails, Crash
  <2>. QED
    BY <2>1
<1>4. CASE Signal \/ TakeName \/ Decay
  BY <1>0, <1>4 DEF Signal, TakeName, Decay
<1>5. ASSUME NEW w \in Writers, WriterOpen(w) PROVE Noticed'
  BY <1>0, <1>5 DEF WriterOpen, Window
<1>6. ASSUME NEW w \in Writers, (\E t \in Txns : WriterCommit(w, t)) \/ WriterCheckpoint(w)
      PROVE  Noticed'
  BY <1>0, <1>6 DEF WriterCommit, WriterCheckpoint
<1>7. ASSUME NEW w \in Writers, WriterClose(w) PROVE Noticed'
  <2>1. CASE UNCHANGED shm
    BY <1>0, <1>7, <2>1 DEF WriterClose
  <2>2. CASE ~UNCHANGED shm
    <3>1. linked = {w} /\ pc' = pc
      BY <1>7, <2>2 DEF WriterClose
    <3>2. newcomers = {} => \A v \in Writers \ {w} : handle'[v] = Absent
      BY <1>0, <1>7, <3>1 DEF WriterClose, OthersUnharmed
    <3>. QED
      BY <1>0, <1>7, <3>1, <3>2 DEF WriterClose
  <2>. QED
    BY <2>1, <2>2
<1>. QED
  BY <1>0, <1>1, <1>2, <1>3, <1>4, <1>5, <1>6, <1>7 DEF Next, Rebuild, Writer

(* Only the rename and the removal of the WAL take a connection's file or   *)
(* log from it, and whoever is connected then came behind the look at the   *)
(* sidecars.                                                                *)
LEMMA CommitOthers ==
    ASSUME SwapInv, CommitInv, Next, replacedAt' = "never"
    PROVE  OthersUnharmed'
<1>0. /\ replacedAt = "never" /\ ~ReplaceTarget
      /\ Noticed /\ Alone /\ OthersUnharmed
      /\ handle \in [Writers -> Inodes \cup {Absent}]
      /\ dir \in [Names -> Inodes \cup {Absent}]
  BY NeverReplaced DEF SwapInv, TypeOK, CommitInv
<1> USE DEF Goto, Return, tool, files, sidecars, conns, others, OthersUnharmed, Window, db
<1>1. CASE CheckpointSource \/ BeginRebuild \/ FinishRebuild \/ VerifyOutput \/ RecordIdentity
           \/ RecheckTarget \/ EnterSwap \/ CheckSource
  BY <1>0, <1>1 DEF CheckpointSource, BeginRebuild, FinishRebuild, VerifyOutput,
     RecordIdentity, RecheckTarget, EnterSwap, CheckSource
<1>2. CASE CloseSource
  BY <1>0, <1>2 DEF CloseSource
<1>3. CASE CheckSidecars
  BY <1>0, <1>3 DEF CheckSidecars, Noticed
(* In the window every connection is a newcomer's.                          *)
<1>4. ASSUME pc \in Window, UNCHANGED <<handle, newcomers>> PROVE OthersUnharmed'
  BY <1>0, <1>4
<1>5. CASE RemoveSidecars \/ ChooseBackupName \/ CreateRecoveryLink \/ FinishCopy
           \/ FinalCheck \/ RenameOver \/ SyncInstalled \/ VerifyInstalled
           \/ RollbackSidecars \/ RollbackTruncate \/ RollbackCopy \/ RollbackFinish
  <2>1. pc \in Window /\ UNCHANGED <<handle, newcomers>>
    BY <1>5 DEF RemoveSidecars, SeverWal, ChooseBackupName, CreateRecoveryLink,
       FinishCopy, FinalCheck, RenameOver, SyncInstalled, VerifyInstalled,
       RollbackSidecars, RollbackTruncate, RollbackCopy, RollbackFinish
  <2>. QED
    BY <1>4, <2>1
<1>6. CASE FinishSwap \/ DropTemporary \/ ReportResult \/ StepFails \/ Crash
  <2>1. pc' \notin Window /\ UNCHANGED <<conns, newcomers>> /\ dir'["db"] = dir["db"]
    BY <1>0, <1>6 DEF FinishSwap, DropTemporary, ReportResult, StepFails, Crash
  <2>. QED
    BY <1>0, <2>1
<1>7. CASE Signal \/ TakeName \/ Decay
  BY <1>0, <1>7 DEF Signal, TakeName, Decay
<1>8. ASSUME NEW w \in Writers, WriterOpen(w) PROVE OthersUnharmed'
  BY <1>0, <1>8 DEF WriterOpen
<1>9. ASSUME NEW w \in Writers, (\E t \in Txns : WriterCommit(w, t)) \/ WriterCheckpoint(w)
      PROVE  OthersUnharmed'
  BY <1>0, <1>9 DEF WriterCommit, WriterCheckpoint
<1>10. ASSUME NEW w \in Writers, WriterClose(w) PROVE OthersUnharmed'
  BY <1>0, <1>10 DEF WriterClose
<1>. QED
  BY <1>0, <1>1, <1>2, <1>3, <1>5, <1>6, <1>7, <1>8, <1>9, <1>10 DEF Next, Rebuild, Writer

(* The output keeps what VACUUM INTO wrote: everything committed under the  *)
(* lock.                                                                    *)
LEMMA CommitOutput ==
    ASSUME SwapInv, CommitInv, Next, replacedAt' = "never"
    PROVE  OutputComplete'
<1>0. /\ replacedAt = "never" /\ ~ReplaceTarget
      /\ OutputComplete /\ Alone /\ PathKnown /\ acked \ late \subseteq Visible
      /\ data \in [Inodes -> SUBSET Txns]
      /\ handle \in [Writers -> Inodes \cup {Absent}]
  BY NeverReplaced DEF SwapInv, TypeOK, CommitInv
<1> USE DEF Goto, Return, tool, files, OutputComplete
<1>1. CASE CheckpointSource \/ BeginRebuild
  BY <1>1 DEF CheckpointSource, BeginRebuild
<1>2. CASE FinishRebuild
  <2>1. db = "orig" /\ acked = Base /\ late = {}
    BY <1>0, <1>2 DEF FinishRebuild, Alone, PathKnown, SwapInv, PhaseInv, db
  <2>. QED
    BY <1>0, <1>2, <2>1 DEF FinishRebuild, Visible, SourceCommits
<1>3. ASSUME UNCHANGED data,
             pc' \in {"verify_output", "identity", "close", "recheck", "enter"} \cup SwapSteps
               => pc \in {"verify_output", "identity", "close", "recheck", "enter"} \cup SwapSteps
      PROVE OutputComplete'
  BY <1>0, <1>3
<1>4. CASE VerifyOutput \/ RecordIdentity \/ CloseSource \/ RecheckTarget \/ EnterSwap
           \/ CheckSource \/ CheckSidecars \/ RemoveSidecars \/ ChooseBackupName \/ CreateRecoveryLink
           \/ FinalCheck
  BY <1>0, <1>4 DEF VerifyOutput, RecordIdentity, CloseSource, RecheckTarget, EnterSwap,
     CheckSource, CheckSidecars, RemoveSidecars, ChooseBackupName, CreateRecoveryLink, FinalCheck
<1>5. CASE FinishCopy
  BY <1>0, <1>5 DEF FinishCopy
<1>6. CASE RenameOver \/ SyncInstalled \/ VerifyInstalled \/ RollbackSidecars
           \/ RollbackTruncate \/ RollbackCopy \/ RollbackFinish \/ FinishSwap
           \/ DropTemporary \/ ReportResult \/ StepFails \/ Crash
  BY <1>6 DEF RenameOver, SyncInstalled, VerifyInstalled, RollbackSidecars,
     RollbackTruncate, RollbackCopy, RollbackFinish, FinishSwap, DropTemporary,
     ReportResult, StepFails, Crash
<1>7. CASE Signal \/ TakeName \/ Decay
  BY <1>3, <1>7 DEF Signal, TakeName, Decay
<1>8. ASSUME NEW w \in Writers, handle[w] # Absent
      PROVE  data["output"] \subseteq Checkpointed(w)["output"]
  BY <1>0, <1>8 DEF Checkpointed
<1>9. ASSUME NEW w \in Writers, Writer(w) PROVE OutputComplete'
  <2>1. pc' = pc /\ data["output"] \subseteq data'["output"]
    BY <1>8, <1>9 DEF Writer, WriterOpen, WriterCommit, WriterCheckpoint, WriterClose
  <2>. QED
    BY <1>0, <2>1
<1>. QED
  BY <1>0, <1>1, <1>2, <1>4, <1>5, <1>6, <1>7, <1>9 DEF Next, Rebuild

(* Commits behind the checks are the late ones, so what else is committed   *)
(* got past the sidecar check and, at the rename, past the final one.       *)
LEMMA CommitBefore ==
    ASSUME SwapInv, CommitInv, Next, replacedAt' = "never"
    PROVE  BeforeIsBase'
<1>0. /\ replacedAt = "never" /\ ~ReplaceTarget
      /\ BeforeIsBase /\ Alone /\ PathKnown /\ OthersUnharmed
      /\ acked \ late \subseteq Visible
      /\ data \in [Inodes -> SUBSET Txns]
  BY NeverReplaced DEF SwapInv, TypeOK, CommitInv
<1> USE DEF Goto, Return, tool, others, sidecars, BeforeIsBase, Window
<1>1. CASE CheckpointSource \/ BeginRebuild \/ FinishRebuild \/ VerifyOutput
           \/ RecordIdentity \/ CloseSource \/ RecheckTarget \/ EnterSwap \/ CheckSource
           \/ FinishSwap \/ DropTemporary \/ ReportResult \/ StepFails \/ Crash
           \/ RollbackFinish
  <2>1. pc' \notin Window
    BY <1>1 DEF CheckpointSource, BeginRebuild, FinishRebuild, VerifyOutput,
       RecordIdentity, CloseSource, RecheckTarget, EnterSwap, CheckSource, FinishSwap,
       DropTemporary, ReportResult, StepFails, Crash, RollbackFinish
  <2>. QED
    BY <2>1
<1>2. CASE CheckSidecars
  BY <1>2 DEF CheckSidecars
<1>3. CASE RemoveSidecars
  BY <1>3 DEF RemoveSidecars, SeverWal
<1>4. CASE ChooseBackupName \/ CreateRecoveryLink \/ FinishCopy
  BY <1>0, <1>4 DEF ChooseBackupName, CreateRecoveryLink, FinishCopy
<1>5. CASE FinalCheck
  <2>1. UNCHANGED <<walTxns, acked, late>> /\ pc = "final" /\ walTxns \subseteq late
    BY <1>0, <1>5 DEF FinalCheck
  <2>2. pc' = "rename" => acked \ late \subseteq Base
    <3>1. db = "orig" /\ seen = Base
      BY <2>1, <1>0 DEF SwapInv, PhaseInv, SourceInv, PathKnown, db
    <3>. QED
      BY <1>0, <1>5, <2>1, <3>1 DEF FinalCheck, Unmodified, Visible
  <2>. QED
    BY <1>5, <2>1, <2>2 DEF FinalCheck
<1>6. CASE RenameOver \/ SyncInstalled \/ VerifyInstalled \/ RollbackTruncate \/ RollbackCopy
  BY <1>0, <1>6 DEF RenameOver, SyncInstalled, VerifyInstalled, RollbackTruncate, RollbackCopy
<1>7. CASE RollbackSidecars
  BY <1>0, <1>7 DEF RollbackSidecars, SeverWal
<1>8. CASE Signal \/ TakeName \/ Decay
  BY <1>0, <1>8 DEF Signal, TakeName, Decay
<1>9. ASSUME NEW w \in Writers, WriterOpen(w) \/ WriterCheckpoint(w) \/ WriterClose(w)
      PROVE BeforeIsBase'
  <2>1. UNCHANGED <<pc, acked, late>> /\ walTxns' \subseteq walTxns
    BY <1>9 DEF WriterOpen, WriterCheckpoint, WriterClose
  <2>. QED
    BY <1>0, <2>1
<1>10. ASSUME NEW w \in Writers, NEW t \in Txns, WriterCommit(w, t) PROVE BeforeIsBase'
  <2>1. /\ pc' = pc /\ acked' = acked \cup {t}
        /\ (pc \in Window => late' = late \cup {t})
        /\ walTxns' \in {walTxns, walTxns \cup {t}}
    BY <1>0, <1>10 DEF WriterCommit, OthersUnharmed
  <2>. QED
    BY <1>0, <2>1
<1>. QED
  BY <1>0, <1>1, <1>2, <1>3, <1>4, <1>5, <1>6, <1>7, <1>8, <1>9, <1>10
     DEF Next, Rebuild, Writer

(* What a checkpoint through any handle moves between the WAL and the main  *)
(* file stays visible at the path; only what was late is in an unlinked WAL. *)
LEMMA CommitCheckpoint ==
    ASSUME SwapInv, NEW w \in Writers, handle[w] # Absent, dir' = dir,
           data' = Checkpointed(w) \/ data' = data,
           walOf' = walOf \/ walTxns' = {},
           walTxns' = walTxns \/ (w \in linked /\ walOf = handle[w] /\ data' = Checkpointed(w))
    PROVE  Visible \subseteq Visible'
<1>0. /\ data \in [Inodes -> SUBSET Txns] /\ walTxns \in SUBSET Txns
      /\ handle[w] \in Inodes /\ db \in Inodes
      /\ db' = db
  BY DEF SwapInv, TypeOK, EntryInv, db
<1>1. data[db] \subseteq data'[db]
  BY <1>0 DEF Checkpointed
<1>2. CASE walTxns' = walTxns
  BY <1>0, <1>1, <1>2 DEF Visible
<1>3. CASE w \in linked /\ walOf = handle[w] /\ data' = Checkpointed(w)
  <2>1. data'[handle[w]] = data[handle[w]] \cup walTxns
    BY <1>0, <1>3 DEF Checkpointed
  <2>. QED
    BY <1>0, <1>1, <1>3, <2>1 DEF Visible
<1>. QED
  BY <1>2, <1>3

(* Everything that was not committed behind the checks is visible at the    *)
(* path.                                                                    *)
LEMMA CommitVisible ==
    ASSUME SwapInv, OutcomeInv, CommitInv, Next, replacedAt' = "never"
    PROVE  (acked \ late \subseteq Visible)'
<1> DEFINE Kept == (acked \ late \subseteq Visible)'
<1>0. /\ replacedAt = "never" /\ ~ReplaceTarget
      /\ PathKnown /\ WalShared /\ Alone /\ OthersUnharmed
      /\ OutputComplete /\ BeforeIsBase
      /\ acked \ late \subseteq Visible
      /\ data \in [Inodes -> SUBSET Txns]
      /\ dir \in [Names -> Inodes \cup {Absent}]
      /\ db \in {"orig", "output"}
  BY NeverReplaced DEF SwapInv, TypeOK, CommitInv, PathKnown, db
<1> USE DEF Goto, Return, tool, files, sidecars, conns, others
<1>1. ASSUME UNCHANGED <<acked, late>>, Visible \subseteq Visible' PROVE Kept
  BY <1>0, <1>1
<1>2. CASE CheckpointSource \/ FinishRebuild
  <2>1. UNCHANGED <<acked, late>> /\ db' = db /\ db = "orig"
    BY <1>0, <1>2 DEF CheckpointSource, FinishRebuild, PathKnown, SwapInv, PhaseInv, db
  <2>2. Visible \subseteq Visible'
    BY <1>0, <1>2, <2>1 DEF CheckpointSource, FinishRebuild, Visible, SourceCommits
  <2>. QED
    BY <1>1, <2>1, <2>2
<1>3. CASE CloseSource
  BY <1>0, <1>1, <1>3 DEF CloseSource, Alone, Visible, db
<1>4. CASE BeginRebuild \/ ChooseBackupName \/ CreateRecoveryLink \/ FinishCopy \/ RollbackFinish
           \/ FinishSwap \/ DropTemporary
  <2>1. UNCHANGED <<acked, late, walOf, walTxns>> /\ data'[db] = data[db] /\ db' = db
    BY <1>0, <1>4 DEF BeginRebuild, ChooseBackupName, CreateRecoveryLink, FinishCopy, RollbackFinish,
       FinishSwap, DropTemporary, db
  <2>. QED
    BY <1>0, <1>1, <2>1 DEF Visible
<1>5. CASE VerifyOutput \/ RecordIdentity \/ RecheckTarget \/ EnterSwap \/ CheckSource
           \/ CheckSidecars \/ FinalCheck \/ SyncInstalled \/ RollbackTruncate
           \/ ReportResult \/ StepFails \/ Crash \/ Signal \/ TakeName \/ Decay
  <2>1. UNCHANGED <<acked, late, walOf, walTxns, data, dir>>
    BY <1>5 DEF VerifyOutput, RecordIdentity, RecheckTarget, EnterSwap, CheckSource,
       CheckSidecars, FinalCheck, SyncInstalled, RollbackTruncate, ReportResult,
       StepFails, Crash, Signal, TakeName, Decay
  <2>. QED
    BY <1>0, <2>1 DEF Visible, db
<1>6. CASE RemoveSidecars \/ RollbackSidecars
  <2>1. UNCHANGED <<acked, late, data, dir>> /\ walTxns \subseteq late
    BY <1>0, <1>6 DEF RemoveSidecars, RollbackSidecars, BeforeIsBase, Window
  <2>2. acked \ late \subseteq data[db]
    BY <1>0, <2>1 DEF Visible
  <2>. QED
    BY <2>1, <2>2 DEF Visible, db
<1>7. CASE RenameOver
  <2>1. UNCHANGED <<acked, late, data, walOf, walTxns>>
          /\ acked \ late \subseteq Base /\ Base \subseteq data["output"]
    BY <1>0, <1>7 DEF RenameOver, BeforeIsBase, OutputComplete
  <2>2. db' \in {db, "output"}
    BY <1>0, <1>7 DEF RenameOver, SwapInv, EntryInv, db
  <2>. QED
    BY <1>0, <2>1, <2>2 DEF Visible
<1>8. CASE VerifyInstalled
  <2>1. UNCHANGED <<acked, late, data, dir, walTxns>> /\ walOf' \in {walOf, db}
    BY <1>8 DEF VerifyInstalled
  <2>. QED
    BY <1>0, <2>1 DEF Visible, db
<1>9. CASE RollbackCopy
  <2>1. /\ UNCHANGED <<acked, late, dir, walOf, walTxns>>
        /\ acked \ late \subseteq Base
        /\ Base \subseteq data[dir["bak"]]
    BY <1>0, <1>9 DEF RollbackCopy, BeforeIsBase, SwapInv, PhaseInv, EntryInv,
       OutcomeInv, GoodBackup
  <2>2. data' = data \/ data' = [data EXCEPT ![db] = data[dir["bak"]]]
    BY <1>9 DEF RollbackCopy
  <2>. QED
    BY <1>0, <2>1, <2>2 DEF Visible, db
<1>10. ASSUME NEW w \in Writers, WriterOpen(w) PROVE Kept
  <2>1. UNCHANGED <<acked, late, data, dir, walTxns>> /\ walOf' = db
    BY <1>10 DEF WriterOpen
  <2>. QED
    BY <1>0, <2>1 DEF Visible, db
<1>11. ASSUME NEW w \in Writers, NEW t \in Txns, WriterCommit(w, t) PROVE Kept
  <2>1. UNCHANGED <<data, dir, walOf>> /\ acked' = acked \cup {t}
          /\ walTxns \subseteq walTxns'
    BY <1>11 DEF WriterCommit
  <2>2. CASE t \in late'
    BY <1>0, <1>11, <2>1, <2>2 DEF WriterCommit, Visible, db
  <2>3. CASE t \notin late'
    <3>1. late' = late /\ handle[w] = db /\ w \in linked /\ t \in walTxns'
      BY <1>0, <1>11, <2>3 DEF WriterCommit, OthersUnharmed
    <3>2. walOf = db
      BY <1>0, <3>1 DEF WalShared
    <3>. QED
      BY <1>0, <2>1, <3>1, <3>2 DEF Visible, db
  <2>. QED
    BY <2>2, <2>3
<1>12. ASSUME NEW w \in Writers, WriterCheckpoint(w) \/ WriterClose(w) PROVE Kept
  <2>1. UNCHANGED <<acked, late>>
    BY <1>12 DEF WriterCheckpoint, WriterClose
  <2>2. Visible \subseteq Visible'
    BY <1>12, CommitCheckpoint DEF WriterCheckpoint, WriterClose
  <2>. QED
    BY <1>1, <2>1, <2>2
<1>. QED
  BY <1>0, <1>2, <1>3, <1>4, <1>5, <1>6, <1>7, <1>8, <1>9, <1>10, <1>11, <1>12
     DEF Next, Rebuild, Writer

(* Together: every step keeps the whole account of the commits.             *)
LEMMA CommitStep == SwapInv /\ OutcomeInv /\ CommitInv /\ Next => CommitInv'
BY CommitPath, CommitWal, CommitAlone, CommitNoticed, CommitOthers, CommitOutput, CommitBefore,
   CommitVisible
   DEF CommitInv

(* A verified or restored file is damaged by nothing but a WAL of another   *)
(* file, and such a WAL was written behind the checks.                      *)
LEMMA WholeStep ==
    SwapInv /\ OutcomeInv /\ CommitInv /\ WholeInv /\ Next => WholeInv'
<1> SUFFICES ASSUME SwapInv, OutcomeInv, CommitInv, WholeInv, Next,
                    replacedAt' = "never", late' = {}, canonical' \in {"verified", "restored"}
             PROVE  db' \in whole' /\ ~Mixed'
  BY DEF WholeInv
<1>0. /\ replacedAt = "never" /\ ~ReplaceTarget
      /\ PathKnown /\ WalShared /\ OthersUnharmed /\ BeforeIsBase
      /\ dir \in [Names -> Inodes \cup {Absent}]
      /\ walTxns \in SUBSET Txns
  BY NeverReplaced DEF SwapInv, TypeOK, CommitInv
<1> USE DEF Goto, Return, tool, files, sidecars, conns, others, Mixed
<1>1. CASE \/ CheckpointSource \/ BeginRebuild \/ FinishRebuild \/ VerifyOutput
           \/ RecordIdentity \/ CloseSource \/ RecheckTarget \/ EnterSwap \/ CheckSource
           \/ CheckSidecars \/ RemoveSidecars \/ ChooseBackupName \/ CreateRecoveryLink \/ FinishCopy
           \/ FinalCheck \/ RenameOver \/ SyncInstalled \/ RollbackSidecars
           \/ RollbackTruncate
  <2>1. canonical' \in {"original", "unverified"}
    BY <1>1 DEF CheckpointSource, BeginRebuild, FinishRebuild, VerifyOutput,
       RecordIdentity, CloseSource, RecheckTarget, EnterSwap, CheckSource, CheckSidecars,
       RemoveSidecars, ChooseBackupName, CreateRecoveryLink, FinishCopy, FinalCheck, RenameOver,
       SyncInstalled, RollbackSidecars, RollbackTruncate, SwapInv, PhaseInv
  <2>. QED
    BY <2>1
<1>2. CASE VerifyInstalled
  <2>1. /\ UNCHANGED <<dir, walTxns>> /\ db \in whole'
        /\ walOf' = IF Mixed THEN db ELSE walOf
    BY <1>2 DEF VerifyInstalled, SwapInv, PhaseInv
  <2>. QED
    BY <2>1 DEF db
<1>3. CASE RollbackCopy
  <2>1. UNCHANGED <<dir, late, walTxns>> /\ dir["bak"] \in whole /\ walTxns = {}
    BY <1>0, <1>3 DEF RollbackCopy, BeforeIsBase, Window, SwapInv, PhaseInv, EntryInv,
       OutcomeInv, GoodBackup
  <2>2. whole' = whole \cup {db}
    BY <1>3, <2>1 DEF RollbackCopy, SwapInv, PhaseInv
  <2>. QED
    BY <2>1, <2>2 DEF db
<1>4. CASE RollbackFinish \/ FinishSwap \/ DropTemporary \/ ReportResult \/ StepFails
           \/ Crash \/ Signal \/ TakeName \/ Decay
  <2>1. /\ UNCHANGED <<canonical, late, walOf, walTxns>> /\ db' = db
        /\ (UNCHANGED whole \/ (Decay /\ canonical = "unverified"))
    BY <1>0, <1>4 DEF RollbackFinish, FinishSwap, DropTemporary, ReportResult, StepFails,
       Crash, Signal, TakeName, Decay, SwapInv, PhaseInv, db
  <2>. QED
    BY <1>0, <2>1 DEF WholeInv
<1>5. ASSUME NEW w \in Writers, Writer(w) PROVE db' \in whole' /\ ~Mixed'
  <2>1. UNCHANGED <<canonical, dir>> /\ db' = db
    BY <1>5 DEF Writer, WriterOpen, WriterCommit, WriterCheckpoint, WriterClose, db
  <2>2. late = {} /\ (\A t \in Txns : WriterCommit(w, t) => handle[w] = db /\ w \in linked)
    BY <1>0, <1>5 DEF Writer, WriterOpen, WriterCommit, WriterCheckpoint, WriterClose,
       OthersUnharmed
  <2>3. db \in whole /\ ~Mixed
    BY <1>0, <2>1, <2>2 DEF WholeInv
  <2>4. CASE WriterOpen(w)
    BY <2>1, <2>3, <2>4 DEF WriterOpen
  <2>5. ASSUME NEW t \in Txns, WriterCommit(w, t) PROVE db' \in whole' /\ ~Mixed'
    <3>1. UNCHANGED <<whole, walOf>> /\ walOf = db
      BY <1>0, <2>2, <2>5 DEF WriterCommit, WalShared
    <3>. QED
      BY <2>1, <2>3, <3>1
  <2>6. CASE WriterCheckpoint(w) \/ WriterClose(w)
    <3>1. UNCHANGED whole /\ walOf' \in {walOf, Absent} /\ walTxns' \subseteq walTxns
      BY <2>6 DEF WriterCheckpoint, WriterClose
    <3>. QED
      BY <2>1, <2>3, <3>1
  <2>. QED
    BY <1>5, <2>4, <2>5, <2>6 DEF Writer
<1>. QED
  BY <1>0, <1>1, <1>2, <1>3, <1>4, <1>5 DEF Next, Rebuild

(* The five invariants in one.                                              *)
RunInv == SwapInv /\ OutcomeInv /\ TargetInv /\ CommitInv /\ WholeInv

(* They hold when the rebuild is called.                                    *)
LEMMA RunInvInit == Init => RunInv
<1> SUFFICES ASSUME Init PROVE RunInv
  OBVIOUS
<1>1. SwapInv
  BY SwapInvInit
<1>2. OutcomeInv /\ TargetInv /\ WholeInv
  BY DEF Init, OutcomeInv, TargetInv, Overlooked, WholeInv
<1>3. CommitInv
  BY BaseAssumption DEF Init, CommitInv, PathKnown, WalShared, Alone, Noticed,
     OthersUnharmed, OutputComplete, BeforeIsBase, Window, Visible, db
<1>. QED
  BY <1>1, <1>2, <1>3 DEF RunInv

(* Every step of anybody keeps them.                                        *)
LEMMA RunInvStep == RunInv /\ [Next]_vars => RunInv'
<1>1. RunInv /\ Next => RunInv'
  BY SwapInvStep, OutcomeStep, TargetStep, CommitStep, WholeStep DEF RunInv
<1>2. RunInv /\ UNCHANGED vars => RunInv'
  <2> SUFFICES ASSUME RunInv, UNCHANGED vars PROVE RunInv'
    OBVIOUS
  <2> USE DEF vars, files, sidecars, conns, others, options, tool
  <2>1. SwapInv'
    BY SwapInvStep DEF RunInv
  <2>2. OutcomeInv' /\ TargetInv' /\ WholeInv'
    BY DEF RunInv, OutcomeInv, GoodBackup, TargetInv, WholeInv, Mixed, db
  <2>3. CommitInv'
    BY DEF RunInv, CommitInv, PathKnown, WalShared, Alone, Noticed, OthersUnharmed,
       OutputComplete, BeforeIsBase, Visible, db
  <2>. QED
    BY <2>1, <2>2, <2>3 DEF RunInv
<1>. QED
  BY <1>1, <1>2

(* The five invariants hold throughout.                                     *)
THEOREM RunInvariant == Spec => []RunInv
  BY RunInvInit, RunInvStep, PTL DEF Spec

(* No commit that the checks of the swap could have seen is ever missing    *)
(* from the canonical path, however many writers open, checkpoint and close *)
(* it meanwhile and wherever the run fails or is killed.                    *)
THEOREM CommitsKept == Spec => []NoLostCommit
<1>1. RunInv => NoLostCommit
  BY DEF RunInv, CommitInv, NoLostCommit
<1>. QED
  BY <1>1, RunInvariant, PTL

(* A refusal, a failed rename, an accepted installation and a rollback each *)
(* leave a whole database at the path.                                      *)
THEOREM CanonicalKept == Spec => []CanonicalWhole
<1>1. RunInv => CanonicalWhole
  BY DEF RunInv, CommitInv, PathKnown, WholeInv, SwapInv, SourceInv, TypeOK,
     CanonicalWhole, db
<1>. QED
  BY <1>1, RunInvariant, PTL

(* The recheck, the first and the final comparison of the path find every   *)
(* database somebody put there before the last of them.                     *)
THEOREM ForeignKept == Spec => []ForeignTargetKept
<1>1. RunInv => ForeignTargetKept
  BY DEF RunInv, TargetInv, Overlooked, ForeignTargetKept, db
<1>. QED
  BY <1>1, RunInvariant, PTL

(* A successful run leaves no output file behind and keeps the backup       *)
(* exactly when it was asked to.                                            *)
THEOREM PromisedFilesKept == Spec => []SuccessKeepsPromisedFiles
<1>1. RunInv => SuccessKeepsPromisedFiles
  BY DEF RunInv, OutcomeInv, GoodBackup, SwapInv, TypeOK, SuccessKeepsPromisedFiles
<1>. QED
  BY <1>1, RunInvariant, PTL

-----------------------------------------------------------------------------
(***************************************************************************)
(* The cancellation and the contract.                                      *)
(***************************************************************************)

(* A signal was noted and the swap was not entered.                         *)
Stopped == cancelled /\ canonical = "original" /\ pc \notin SwapSteps

(* Once it is so it stays so: enter_swap is the only way into the swap, and *)
(* the only step out of the swap that changes the path is in it.            *)
LEMMA StoppedStep == RunInv /\ Stopped /\ [Next]_vars => Stopped'
<1> SUFFICES ASSUME RunInv, Stopped, [Next]_vars PROVE Stopped'
  OBVIOUS
<1> USE DEF Goto, Return, tool, files, Stopped
<1>0. PhaseInv
  BY DEF RunInv, SwapInv
<1>1. CASE CheckpointSource \/ BeginRebuild \/ FinishRebuild \/ VerifyOutput
           \/ RecordIdentity \/ CloseSource \/ RecheckTarget \/ EnterSwap
  BY <1>1 DEF CheckpointSource, BeginRebuild, FinishRebuild, VerifyOutput,
     RecordIdentity, CloseSource, RecheckTarget, EnterSwap
<1>2. CASE CheckSource \/ CheckSidecars \/ RemoveSidecars \/ ChooseBackupName \/ CreateRecoveryLink
           \/ FinishCopy \/ FinalCheck \/ RenameOver
  BY <1>2 DEF CheckSource, CheckSidecars, RemoveSidecars, ChooseBackupName, CreateRecoveryLink,
     FinishCopy, FinalCheck, RenameOver
<1>3. CASE SyncInstalled \/ VerifyInstalled \/ RollbackSidecars \/ RollbackTruncate
           \/ RollbackCopy \/ RollbackFinish \/ FinishSwap
  BY <1>0, <1>3 DEF PhaseInv, SyncInstalled, VerifyInstalled, RollbackSidecars,
     RollbackTruncate, RollbackCopy, RollbackFinish, FinishSwap
<1>4. CASE DropTemporary \/ ReportResult \/ StepFails \/ Crash \/ Signal \/ ReplaceTarget
           \/ TakeName \/ Decay
  BY <1>4 DEF DropTemporary, ReportResult, StepFails, Crash, Signal, ReplaceTarget, TakeName, Decay
<1>5. ASSUME NEW w \in Writers, Writer(w) PROVE Stopped'
  BY <1>5 DEF Writer, WriterOpen, WriterCommit, WriterCheckpoint, WriterClose
<1>6. CASE UNCHANGED vars
  BY <1>6 DEF vars
<1>. QED
  BY <1>1, <1>2, <1>3, <1>4, <1>5, <1>6 DEF Next, Rebuild

(* A signal noted before enter_swap keeps the source where it is for good.  *)
THEOREM CancelIsFinal == Spec => CancelBeforeSwapIsFinal
<1>1. RunInv /\ cancelled /\ pc \in LockedSteps \cup {"recheck", "enter"} => Stopped
  BY DEF RunInv, SwapInv, PhaseInv, Stopped
<1>2. Stopped => canonical = "original"
  BY DEF Stopped
<1>. QED
  BY <1>1, <1>2, StoppedStep, RunInvariant, PTL DEF Spec, CancelBeforeSwapIsFinal

(* The rebuild starts where the contract does.                              *)
LEMMA ContractInit == Init => Contract!Init
BY DEF Init, Contract!Init, BackupUsable, Verdict

(* Before the installation a step that does not end the run is a            *)
(* preparation, whatever becomes of the backup.                             *)
LEMMA ContractPrepare ==
    ASSUME canonical = "original", UNCHANGED <<canonical, options, Verdict>>
    PROVE  Contract!Next
BY DEF Contract!Next, Contract!Prepare, BackupUsable, options

(* Afterwards the backup is usable as long as it is there.                  *)
LEMMA BackupStays ==
    ASSUME RunInv, Next, canonical # "original"
    PROVE  /\ BackupUsable <=> dir["bak"] # Absent
           /\ dir'["bak"] = dir["bak"] => BackupUsable' = BackupUsable
<1>1. BackupUsable <=> dir["bak"] # Absent
  BY DEF RunInv, OutcomeInv, GoodBackup, BackupUsable
<1>2. pc # "copying"
  BY DEF RunInv, SwapInv, PhaseInv
<1>3. GoodBackup /\ dir'["bak"] = dir["bak"] => GoodBackup'
  BY <1>2, FilesKept, GoodBackupKept DEF RunInv
<1>4. ASSUME dir'["bak"] = dir["bak"] PROVE BackupUsable' = BackupUsable
  <2>1. CASE dir["bak"] = Absent
    BY <1>4, <2>1 DEF BackupUsable
  <2>2. CASE dir["bak"] # Absent
    BY <1>3, <1>4, <2>2 DEF RunInv, OutcomeInv, GoodBackup, BackupUsable
  <2>. QED
    BY <2>1, <2>2
<1>. QED
  BY <1>1, <1>4

(* A return ends the run with the verdict of its result; only a run whose   *)
(* file is not unverified gives up the backup.                              *)
LEMMA ContractEnd ==
    ASSUME RunInv, UNCHANGED <<canonical, data, whole, options>>,
           pc \notin {"drop", "returned", "done", "crashed"}, pc' = "drop",
           dir'["bak"] \in {dir["bak"], Absent},
           canonical = "unverified" => dir'["bak"] = dir["bak"],
           \/ result' = "ok" /\ canonical = "verified"
           \/ result' \in {"busy", "interrupted", "integrity"} /\ canonical \in {"original", "restored"}
           \/ result' = "io" /\ canonical # "restored"
           \/ result' = "fatal" /\ canonical # "verified"
    PROVE  Contract!Next
<1>1. Verdict = "open"
  BY DEF RunInv, OutcomeInv, Verdict
<1>2. /\ result' = "ok" => Verdict' = "ok"
      /\ result' \in {"busy", "interrupted", "integrity"} => Verdict' = "refused"
      /\ result' = "io" => Verdict' = "failed"
      /\ result' = "fatal" => Verdict' = "fatal"
  BY DEF Verdict
<1>3. /\ BackupUsable' \in {BackupUsable, FALSE}
      /\ canonical = "unverified" => BackupUsable' = BackupUsable
  BY DEF BackupUsable
<1>. QED
  BY <1>1, <1>2, <1>3 DEF Contract!Next, Contract!End, options

(* Every step is one of the contract's, or none.                            *)
LEMMA ContractStep == RunInv /\ [Next]_vars => [Contract!Next]_Contract!vars
<1> SUFFICES ASSUME RunInv, [Next]_vars PROVE [Contract!Next]_Contract!vars
  OBVIOUS
<1> USE DEF Goto, Return, tool, files, options
<1>0. /\ PhaseInv /\ dir \in [Names -> Inodes \cup {Absent}]
      /\ (pc \notin {"drop", "returned", "done", "crashed"} => result = "none" /\ Verdict = "open")
  BY DEF RunInv, SwapInv, TypeOK, OutcomeInv, Verdict
(* A step that leaves the path, the result and the name of the backup alone. *)
<1>1. ASSUME Next, UNCHANGED <<canonical, options, Verdict>>, dir'["bak"] = dir["bak"]
      PROVE  [Contract!Next]_Contract!vars
  <2>1. CASE canonical = "original"
    BY <1>1, <2>1, ContractPrepare
  <2>2. CASE canonical # "original"
    BY <1>1, <2>2, BackupStays DEF Contract!vars
  <2>. QED
    BY <2>1, <2>2
<1>2. CASE CheckpointSource \/ BeginRebuild \/ FinishRebuild \/ VerifyOutput
           \/ RecordIdentity \/ CloseSource
  <2>1. canonical = "original" /\ UNCHANGED <<canonical, options>> /\ Next
          /\ pc \notin {"drop", "returned", "done", "crashed"}
    BY <1>0, <1>2 DEF PhaseInv, CheckpointSource, BeginRebuild, FinishRebuild,
       VerifyOutput, RecordIdentity, CloseSource, Next, Rebuild
  <2>2. CASE pc' # "drop"
    <3>1. UNCHANGED Verdict
      BY <1>0, <1>2, <2>1, <2>2 DEF CheckpointSource, BeginRebuild, FinishRebuild,
         VerifyOutput, RecordIdentity, CloseSource, Verdict
    <3>. QED
      BY <2>1, <3>1, ContractPrepare
  <2>3. CASE pc' = "drop"
    <3>1. UNCHANGED <<data, whole, dir>> /\ result' \in {"busy", "integrity"}
      BY <1>2, <2>3 DEF CheckpointSource, BeginRebuild, FinishRebuild, VerifyOutput,
         RecordIdentity, CloseSource
    <3>. QED
      BY <2>1, <2>3, <3>1, ContractEnd
  <2>. QED
    BY <2>2, <2>3
<1>3. CASE RecheckTarget \/ EnterSwap \/ CheckSource \/ CheckSidecars \/ RemoveSidecars
           \/ ChooseBackupName \/ CreateRecoveryLink \/ FinishCopy \/ FinalCheck
  <2>1. canonical = "original" /\ UNCHANGED <<canonical, options>> /\ Next
          /\ pc \notin {"drop", "returned", "done", "crashed"}
    BY <1>0, <1>3 DEF PhaseInv, RecheckTarget, EnterSwap, CheckSource, CheckSidecars,
       RemoveSidecars, ChooseBackupName, CreateRecoveryLink, FinishCopy, FinalCheck, Next, Rebuild
  <2>2. CASE pc' # "drop"
    <3>1. UNCHANGED Verdict
      BY <1>0, <1>3, <2>1, <2>2 DEF RecheckTarget, EnterSwap, CheckSource,
         CheckSidecars, RemoveSidecars, ChooseBackupName, CreateRecoveryLink, FinishCopy,
         FinalCheck, Verdict
    <3>. QED
      BY <2>1, <3>1, ContractPrepare
  <2>3. CASE pc' = "drop"
    <3>1. /\ UNCHANGED <<data, whole>> /\ result' \in {"busy", "interrupted", "io"}
          /\ dir'["bak"] \in {dir["bak"], Absent}
      BY <1>0, <1>3, <2>3 DEF RecheckTarget, EnterSwap, CheckSource, CheckSidecars,
         RemoveSidecars, ChooseBackupName, CreateRecoveryLink, FinishCopy, FinalCheck
    <3>. QED
      BY <2>1, <2>3, <3>1, ContractEnd
  <2>. QED
    BY <2>2, <2>3
<1>4. CASE RenameOver
  <2>1. /\ pc = "rename" /\ canonical = "original" /\ UNCHANGED <<data, whole, options>>
    BY <1>0, <1>4 DEF RenameOver, PhaseInv
  <2>2. CASE canonical' = "unverified" /\ dir'["bak"] = dir["bak"] /\ pc' = "sync"
             /\ UNCHANGED result
    <3>1. (hardLinks \/ ~skipBackup) => BackupUsable
      BY <2>1 DEF RunInv, SwapInv, BackupInv, GoodBackup, BackupUsable
    <3>2. UNCHANGED BackupUsable /\ Verdict = "open" /\ UNCHANGED Verdict
      BY <1>0, <2>1, <2>2 DEF BackupUsable, Verdict
    <3>. QED
      BY <2>1, <2>2, <3>1, <3>2 DEF Contract!Next, Contract!Install
  <2>3. CASE UNCHANGED canonical /\ dir'["bak"] \in {dir["bak"], Absent} /\ pc' = "drop"
             /\ result' \in {"io", "fatal"}
    BY <2>1, <2>3, ContractEnd
  <2>. QED
    BY <1>0, <1>4, <2>2, <2>3 DEF RenameOver
<1>5. CASE VerifyInstalled
  <2>1. /\ pc = "verify" /\ canonical = "unverified" /\ UNCHANGED <<dir, options, result>>
        /\ pc' \notin {"drop", "crashed"} /\ Next
        /\ canonical' \in {"unverified", "verified"}
    BY <1>0, <1>5 DEF VerifyInstalled, PhaseInv, Next, Rebuild
  <2>2. UNCHANGED BackupUsable
    BY <2>1, BackupStays
  <2>3. Verdict = "open" /\ UNCHANGED Verdict
    BY <1>0, <2>1 DEF Verdict
  <2>. QED
    BY <2>1, <2>2, <2>3 DEF Contract!Next, Contract!Accept, Contract!vars
<1>6. CASE SyncInstalled \/ RollbackSidecars \/ RollbackTruncate
  <2>1. /\ canonical = "unverified" /\ UNCHANGED <<canonical, dir, options>> /\ Next
        /\ pc \notin {"drop", "returned", "done", "crashed"} /\ pc' # "crashed"
    BY <1>0, <1>6 DEF PhaseInv, SyncInstalled, RollbackSidecars, RollbackTruncate,
       Next, Rebuild
  <2>2. CASE pc' # "drop"
    <3>1. UNCHANGED result
      BY <1>6, <2>2 DEF SyncInstalled, RollbackSidecars, RollbackTruncate
    <3>2. UNCHANGED Verdict
      BY <2>1, <3>1, <1>0 DEF Verdict
    <3>. QED
      BY <1>1, <2>1, <3>2
  <2>3. CASE pc' = "drop"
    <3>1. UNCHANGED <<data, whole>> /\ result' = "fatal"
      BY <1>6, <2>3 DEF SyncInstalled, RollbackSidecars, RollbackTruncate
    <3>. QED
      BY <2>1, <2>3, <3>1, ContractEnd
  <2>. QED
    BY <2>2, <2>3
<1>7. CASE RollbackCopy
  <2>1. /\ pc = "rb_copying" /\ canonical = "unverified" /\ UNCHANGED <<dir, options>>
        /\ dir["bak"] # Absent /\ Next
    BY <1>0, <1>7 DEF RollbackCopy, PhaseInv, RunInv, SwapInv, EntryInv, Next, Rebuild
  <2>2. CASE canonical' = "restored" /\ pc' = "rb_finish" /\ UNCHANGED result
    <3>1. BackupUsable /\ UNCHANGED BackupUsable
      BY <2>1, BackupStays
    <3>2. Verdict = "open" /\ UNCHANGED Verdict
      BY <1>0, <2>1, <2>2 DEF Verdict
    <3>. QED
      BY <2>1, <2>2, <3>1, <3>2 DEF Contract!Next, Contract!Restore
  <2>3. CASE pc' = "drop" /\ result' = "fatal" /\ UNCHANGED <<data, whole, canonical>>
    BY <2>1, <2>3, ContractEnd
  <2>. QED
    BY <1>7, <2>2, <2>3 DEF RollbackCopy
<1>8. CASE RollbackFinish \/ FinishSwap
  <2>1. /\ UNCHANGED <<canonical, data, whole, options>> /\ pc' = "drop"
        /\ pc \notin {"drop", "returned", "done", "crashed"}
        /\ dir'["bak"] \in {dir["bak"], Absent}
        /\ canonical # "unverified"
        /\ \/ result' \in {"integrity", "fatal"} /\ canonical = "restored"
           \/ result' \in {"ok", "io"} /\ canonical = "verified"
    BY <1>0, <1>8 DEF RollbackFinish, FinishSwap, PhaseInv
  <2>. QED
    BY <2>1, ContractEnd
<1>9. CASE DropTemporary \/ ReportResult
  <2>1. UNCHANGED <<canonical, options, Verdict>> /\ dir'["bak"] = dir["bak"] /\ Next
    BY <1>0, <1>9 DEF DropTemporary, ReportResult, Verdict, Next, Rebuild
  <2>. QED
    BY <1>1, <2>1
<1>10. CASE StepFails
  <2>1. /\ UNCHANGED <<canonical, data, whole, dir, options>> /\ pc' = "drop"
        /\ pc \notin {"drop", "returned", "done", "crashed"}
        /\ \/ result' = "io" /\ canonical # "restored"
           \/ result' = "busy" /\ canonical = "original"
    BY <1>0, <1>10 DEF StepFails, PhaseInv
  <2>. QED
    BY <2>1, ContractEnd
<1>11. CASE Crash
  <2>1. UNCHANGED <<canonical, BackupUsable, options>> /\ Verdict # "killed" /\ Verdict' = "killed"
    BY <1>0, <1>11 DEF Crash, Verdict, BackupUsable, RunInv, SwapInv, TypeOK
  <2>. QED
    BY <2>1 DEF Contract!Next, Contract!Kill
<1>12. CASE Signal \/ ReplaceTarget \/ TakeName \/ Decay \/ (\E w \in Writers : Writer(w))
  <2>1. UNCHANGED <<canonical, options, Verdict>> /\ dir'["bak"] = dir["bak"] /\ Next
    BY <1>0, <1>12 DEF Signal, ReplaceTarget, TakeName, Decay, Writer, WriterOpen, WriterCommit,
       WriterCheckpoint, WriterClose, Verdict, Next
  <2>. QED
    BY <1>1, <2>1
<1>13. CASE UNCHANGED vars
  BY <1>13 DEF vars, Contract!vars, BackupUsable, Verdict
<1>. QED
  BY <1>2, <1>3, <1>4, <1>5, <1>6, <1>7, <1>8, <1>9, <1>10, <1>11, <1>12, <1>13
     DEF Next, Rebuild

(* The rebuild implements its contract, whatever the other processes do.    *)
THEOREM ContractImplemented == Spec => ImplementsContract
<1>1. RunInv /\ RunInv' /\ [Next]_vars => [Contract!Next]_Contract!vars
  BY ContractStep
<1>. QED
  BY <1>1, ContractInit, RunInvariant, PTL DEF Spec, ImplementsContract, Contract!Spec

(***************************************************************************)
(* A rebuild ends                                                          *)
(***************************************************************************)

(* The steps ahead on the longest way to the end, which is the one through  *)
(* a failed verification and the rollback, ...                              *)
StepAhead ==
    [checkpoint |-> 25, vacuum |-> 24, rebuild |-> 23, verify_output |-> 22,
     identity |-> 21, close |-> 20, recheck |-> 19, enter |-> 18, swap |-> 17,
     sidecars |-> 16, unlink |-> 15, backup |-> 14, linking |-> 13, copying |-> 12,
     final |-> 11, rename |-> 10, sync |-> 9, verify |-> 8, rb_sidecars |-> 7,
     rb_copy |-> 6, rb_copying |-> 5, rb_finish |-> 4, finish |-> 4, drop |-> 3,
     returned |-> 2, crashed |-> 0, done |-> 0]

(* ... and the two it takes to find a taken name and choose another one.    *)
Retry == IF pc = "linking" /\ taken THEN 2 ELSE 0
StepsLeft == StepAhead[pc] + Retry

(* Under the lock.                                                          *)
LEMMA LockedGoesOn ==
    ASSUME \/ CheckpointSource \/ BeginRebuild \/ FinishRebuild \/ VerifyOutput
           \/ RecordIdentity \/ CloseSource
    PROVE  StepsLeft' < StepsLeft
BY DEF CheckpointSource, BeginRebuild, FinishRebuild, VerifyOutput, RecordIdentity,
       CloseSource, Goto, Return, StepsLeft, Retry, StepAhead

(* From the release of the lock to the rename; a new name is chosen for one *)
(* that was taken.                                                          *)
LEMMA SwapGoesOn ==
    ASSUME \/ RecheckTarget \/ EnterSwap \/ CheckSource \/ CheckSidecars \/ RemoveSidecars
           \/ ChooseBackupName \/ CreateRecoveryLink \/ FinishCopy \/ FinalCheck \/ RenameOver
    PROVE  StepsLeft' < StepsLeft
BY DEF RecheckTarget, EnterSwap, CheckSource, CheckSidecars, RemoveSidecars,
       ChooseBackupName, CreateRecoveryLink, FinishCopy, FinalCheck, RenameOver, Goto,
       Return, StepsLeft, Retry, StepAhead

(* From the rename to the report.                                           *)
LEMMA InstalledGoesOn ==
    ASSUME \/ SyncInstalled \/ VerifyInstalled \/ RollbackSidecars \/ RollbackTruncate
           \/ RollbackCopy \/ RollbackFinish \/ FinishSwap \/ DropTemporary \/ ReportResult
    PROVE  StepsLeft' < StepsLeft
BY DEF SyncInstalled, VerifyInstalled, RollbackSidecars, RollbackTruncate, RollbackCopy,
       RollbackFinish, FinishSwap, DropTemporary, ReportResult, Goto, Return,
       StepsLeft, Retry, StepAhead

(* A failed step is followed by what every return does; a kill ends it all. *)
LEMMA EndingGoesOn ==
    ASSUME TypeOK, StepFails \/ Crash
    PROVE  StepsLeft' < StepsLeft
BY DEF TypeOK, Steps, LockedSteps, SwapSteps, RollbackSteps, StepFails, Crash, Goto, Return,
       StepsLeft, Retry, StepAhead

(* Nobody else moves the rebuild, forward or back, but who takes its name.  *)
LEMMA OthersDelayNothing ==
    ASSUME Signal \/ ReplaceTarget \/ Decay \/ \E w \in Writers : Writer(w)
    PROVE  StepsLeft' = StepsLeft
BY DEF Signal, ReplaceTarget, Decay, Writer, WriterOpen, WriterCommit, WriterCheckpoint,
       WriterClose, others, StepsLeft, Retry

(* The rebuild can go on for ever only at the hands of somebody who keeps   *)
(* taking its backup name (Terminates): each of its steps, also one that    *)
(* fails, and a kill lower the number of steps ahead.  Whoever takes the    *)
(* name between its choice and its use adds the two steps of one more round *)
(* of the loop of create_recovery_link (vacuum_into.rs:717); no step of a   *)
(* writer, of the operator or of the file system adds any.                  *)
THEOREM RebuildRunsOut ==
    Spec => /\ [](StepsLeft \in 0 .. 25)
            /\ [][/\ Rebuild \/ Crash => StepsLeft' < StepsLeft
                  /\ TakeName => StepsLeft' = StepsLeft + 2
                  /\ ~TakeName => StepsLeft' <= StepsLeft]_vars
<1>1. TypeOK => StepsLeft \in 0 .. 25
  BY DEF TypeOK, Steps, LockedSteps, SwapSteps, RollbackSteps, StepsLeft, Retry, StepAhead
<1>2. TypeOK /\ (Rebuild \/ Crash) => StepsLeft' < StepsLeft
  BY LockedGoesOn, SwapGoesOn, InstalledGoesOn, EndingGoesOn DEF Rebuild
<1>3. TakeName => StepsLeft' = StepsLeft + 2
  BY DEF TakeName, StepsLeft, Retry, StepAhead
<1>4. TypeOK /\ TypeOK' /\ [Next]_vars =>
          [/\ Rebuild \/ Crash => StepsLeft' < StepsLeft
           /\ TakeName => StepsLeft' = StepsLeft + 2
           /\ ~TakeName => StepsLeft' <= StepsLeft]_vars
  <2>1. SUFFICES ASSUME TypeOK, TypeOK', Next, ~TakeName
                 PROVE  StepsLeft' <= StepsLeft
    BY <1>2, <1>3
  <2>2. StepsLeft \in Int /\ StepsLeft' \in Int
    BY <2>1 DEF TypeOK, Steps, LockedSteps, SwapSteps, RollbackSteps, StepsLeft, Retry,
       StepAhead
  <2>. QED
    BY <1>2, <2>1, <2>2, OthersDelayNothing DEF Next
<1>. QED
  BY <1>1, <1>4, TypeCorrect, PTL DEF Spec
=============================================================================
