------------------------- MODULE VacuumCommandProofs -------------------------
(* Theorems about the arithmetic of the safety gates (Estimates), for every *)
(* word size, and about VacuumCommand, for every number of peers, pages and *)
(* attempts, every disk and every command line.                             *)
EXTENDS VacuumCommand, TLAPS

-----------------------------------------------------------------------------
(* The arithmetic of the gates *)

(* The second confirmation is asked for exactly when at least half of all   *)
(* sessions is selected: the multiplication that saturates does not shift   *)
(* the threshold (safety/confirm.rs warrants_escalation).                   *)
THEOREM EscalationExact ==
    ASSUME NEW selected \in Word, NEW total \in Word
    PROVE  WarrantsEscalation(selected, total) <=>
               total > 0 /\ selected > 0 /\ 2 * selected >= total
<1>. USE WordAssumption DEF Word
<1>1. SaturatingMul(total, 1) = total
  BY DEF SaturatingMul
<1>2. SaturatingMul(selected, 2) >= total <=> 2 * selected >= total
  BY DEF SaturatingMul
<1>. QED
  BY <1>1, <1>2 DEF WarrantsEscalation

(* The margin is a tenth, rounded up.                                       *)
LEMMA MarginRoundsUp ==
    ASSUME NEW projected \in Nat
    PROVE  /\ Margin(projected) \in Nat
           /\ 10 * Margin(projected) >= projected
           /\ 10 * Margin(projected) < projected + 10
BY DEF Margin

(* The projected size is a number, no less than what will be live.          *)
LEMMA ProjectedType ==
    ASSUME NEW live \in Nat, NEW selected \in Nat
    PROVE  Projected(live, selected) \in Nat /\ Projected(live, selected) >= live - selected
BY DEF Projected, SaturatingSub

(* Space that passes the headroom gate holds what will be left of the       *)
(* database, a copy of it where no link can be made, and a tenth on top;    *)
(* a sum that overflows never passes (reclaim/headroom.rs                   *)
(* evaluate_headroom).                                                      *)
THEOREM HeadroomCovers ==
    ASSUME NEW live \in Word, NEW selected \in Word, NEW fullSize \in Word,
           NEW walAllowance \in Word, NEW noCopy \in BOOLEAN, NEW available \in Word,
           Sufficient(available, Required(live, selected, fullSize, walAllowance, noCopy))
    PROVE  /\ available >= (live - selected) + walAllowance + IF noCopy THEN 0 ELSE fullSize
           /\ 10 * (available - Projected(live, selected) - walAllowance
                      - BackupCopy(fullSize, noCopy)) >= Projected(live, selected)
<1>. USE WordAssumption DEF Word
<1>. DEFINE projected == Projected(live, selected)
            copy == BackupCopy(fullSize, noCopy)
            sum == projected + copy + walAllowance + Margin(projected)
<1>1. projected \in Nat /\ projected >= live - selected
  BY ProjectedType
<1>2. copy \in Nat /\ copy = IF noCopy THEN 0 ELSE fullSize
  BY DEF BackupCopy
<1>3. Margin(projected) \in Nat /\ 10 * Margin(projected) >= projected
  BY <1>1, MarginRoundsUp
<1>4. Required(live, selected, fullSize, walAllowance, noCopy) = Checked(sum)
  BY DEF Required
<1>5. available >= sum
  BY <1>1, <1>2, <1>3, <1>4 DEF Sufficient, Checked
<1>. HIDE DEF projected, copy
<1>6. /\ available >= (live - selected) + walAllowance + copy
      /\ 10 * (available - projected - walAllowance - copy) >= projected
  BY <1>1, <1>2, <1>3, <1>5
<1>. QED
  BY <1>2, <1>6 DEF projected, copy

-----------------------------------------------------------------------------
(* The inductive invariant *)

Looking    == {"inspect", "gate", "headroom", "open"}
UnderLock  == {"checkpoint", "build", "close"}
Rebuilding == {"begin", "lock"} \cup UnderLock \cup Released
Agreed     == ~command.dryRun /\ (command.skipConfirm \/ consent)

(* Where the command is, and what that says of its line, the questions, the *)
(* lock and the signals.                                                    *)
PcInv ==
    /\ pc \in Looking => asked = 0
    /\ pc = "prompt" => asked < Attempts /\ ~command.dryRun
    /\ pc \in {"headroom", "reopen"} \cup Rebuilding => ~command.incremental
    /\ pc \in {"open", "batches", "batch"} => command.incremental
    /\ pc # "ended" => exit = "none"
    /\ pc \in UnderLock => locked
    /\ pc \in Looking \cup {"prompt", "reopen", "batches"} => mode = "normal"
    /\ pc \in Rebuilding \cup {"batch", "report"} => mode # "normal"
    /\ pc \in {"reopen", "batches", "batch", "report"} \cup Rebuilding => Agreed

(* A change was agreed to, and no signal came before the reclaim.           *)
TouchInv ==
    /\ touched => Agreed /\ ~early /\ mode # "normal"
    /\ early => cancelled
    /\ pc \in Rebuilding \ {"begin"} => ~early

(* What the output holds: the live pages of the database but for what was   *)
(* missed, and nothing was missed before the last look at the sidecars.     *)
OutputInv ==
    /\ pc \in {"close"} \cup Released => output >= 1 /\ (missed = {} => output = Live)
    /\ pc \notin Released \cup {"report", "ended"} => missed = {} /\ ~written
    /\ pc \in {"enter", "check"} /\ "before" \in missed => written \/ wal > 0
    /\ pc \in {"backup", "swap"} /\ "before" \in missed => written

(* While nobody writes: what the gate measured is still so, and the space   *)
(* that it required is there but for what others used.                      *)
Undisturbed == quiet /\ seen.checkpointed
Copy == IF seen.noCopy THEN 0 ELSE seen.file
SpaceInv ==
    /\ Undisturbed /\ ~command.incremental =>
          /\ pc \in {"gate", "headroom", "prompt", "reopen"} \cup Rebuilding =>
                /\ seen.live = Live /\ seen.file = file /\ file = pages
                /\ seen.noCopy = (links \/ command.skipBackup)
          /\ pc \in {"prompt", "reopen", "begin", "lock", "checkpoint", "build"} =>
                space + used >= Live + Copy + Margin(seen.live)
          /\ pc \in {"close", "enter", "check", "backup"} =>
                space + used >= Copy + Margin(seen.live)
    /\ GateCoversRebuild

(* What the report will say is kept up with what the database lost.         *)
ReportInv ==
    /\ Undisturbed => reclaimed = moved
    /\ pc \notin {"batch", "report", "ended"} => reclaimed = 0 /\ moved = 0
    /\ pc \in {"build", "close"} \cup Released /\ Undisturbed => initial = pages
    /\ pc = "batch" /\ quiet => initial = free + moved

CommandInv == TypeOK /\ PcInv /\ TouchInv /\ OutputInv /\ SpaceInv /\ ReportInv

-----------------------------------------------------------------------------
(* What the steps leave alone *)

USE DEF Before, Reclaiming, GoTo, Exit, Fails, Surroundings, PeerWrites, database, peers, signals,
        progress, operator, writes

Exits == {"none", "ok", "error", "busy", "disk_space", "disk_full", "unavailable", "canceled",
          "interrupted"}

(* What type correctness says of the parts of the state.                    *)
LEMMA Types ==
    TypeOK =>
      /\ command \in Command
      /\ command.incremental \in BOOLEAN /\ command.dryRun \in BOOLEAN
      /\ command.skipConfirm \in BOOLEAN /\ command.skipBackup \in BOOLEAN
      /\ MaxPages \in Nat /\ MaxWal \in Nat /\ MaxUsed \in Nat /\ MaxSpace \in Nat
      /\ BatchPages \in Nat \ {0} /\ Attempts \in Nat \ {0}
      /\ pages \in Nat /\ pages >= 1 /\ pages <= MaxPages
      /\ free \in Nat /\ free < pages
      /\ file \in Nat /\ file >= 1 /\ file <= MaxPages
      /\ wal \in Nat /\ wal <= MaxWal /\ space \in Nat
      /\ links \in BOOLEAN /\ autoVacuum \in BOOLEAN
      /\ used \in Nat /\ used <= MaxUsed
      /\ locked \in BOOLEAN /\ cancelled \in BOOLEAN /\ quiet \in BOOLEAN
      /\ written \in BOOLEAN /\ missed \subseteq {"before", "behind"}
      /\ touched \in BOOLEAN /\ early \in BOOLEAN /\ consent \in BOOLEAN
      /\ asked \in Nat /\ asked <= Attempts
      /\ seen.live \in 0 .. MaxPages /\ seen.file \in 0 .. MaxPages
      /\ seen.noCopy \in BOOLEAN /\ seen.checkpointed \in BOOLEAN
      /\ remaining \in 0 .. MaxPages /\ initial \in 0 .. MaxPages /\ output \in 0 .. MaxPages
      /\ reclaimed \in 0 .. MaxPages /\ moved \in 0 .. MaxPages
      /\ Live \in Nat /\ Live >= 1 /\ Live <= pages
      /\ exit \in Exits
BY CommandAssumption DEF TypeOK, Command, Live, Exits

(* Every step is one of these.                                              *)
AskStep == PassHolders \/ Headroom \/ OpenIncremental \/ Answer
(* Every step is one of these.                                              *)
LEMMA NextSteps ==
    ASSUME [Next]_vars
    PROVE  \/ Inspect \/ AskStep \/ Rebuild \/ Incremental \/ Report
           \/ Signal \/ Connect \/ Commit \/ PeerCheckpoint \/ UseDisk \/ UNCHANGED vars
BY DEF Next, Asking, AskStep

(* A question, or a gate: only the command itself gets on.                  *)
LEMMA AskSteps ==
    ASSUME CommandInv, AskStep
    PROVE  /\ UNCHANGED <<command, pages, free, file, wal, space, links, autoVacuum, connected,
                          used, cancelled, mode, early, remaining, initial, output, reclaimed,
                          moved, touched, seen, written, quiet, missed>>
           /\ pc \in {"gate", "headroom", "open", "prompt"} /\ exit = "none"
           /\ \/ /\ pc' = "ended" /\ locked' = FALSE
                 /\ exit' \in {"ok", "error", "busy", "disk_space", "unavailable", "canceled"}
              \/ /\ pc' \in {"headroom", "open", "prompt", "batches", "reopen"}
                 /\ UNCHANGED <<exit, locked>>
           /\ pc = "prompt" => asked' = (IF pc' = "prompt" THEN asked + 1 ELSE 0)
                              /\ consent' \in BOOLEAN
           /\ pc # "prompt" => UNCHANGED <<asked, consent>>
<1>1. CASE PassHolders
  BY <1>1 DEF PassHolders, CommandInv, PcInv
<1>2. CASE Headroom
  BY <1>2 DEF Headroom, Confirm, Confirmed, CommandInv, PcInv
<1>3. CASE OpenIncremental
  BY <1>3 DEF OpenIncremental, Confirm, Confirmed, CommandInv, PcInv
<1>4. CASE Answer
  BY <1>4 DEF Answer, Confirmed, CommandInv, PcInv
<1>. QED
  BY <1>1, <1>2, <1>3, <1>4 DEF AskStep

(* A rebuild, a batch or the report leaves what others own alone.           *)
LEMMA ReclaimSteps ==
    ASSUME Rebuild \/ Incremental \/ Report
    PROVE  UNCHANGED <<command, links, autoVacuum, connected, used, seen, asked, consent,
                       cancelled, early, written, quiet, missed>>
BY DEF Rebuild, Reopen, BeginRebuild, AcquireLock, Checkpoint, Build, Close, Enter, CheckSource,
       Backup, Swap, Incremental, BeginBatches, Batch, Report

(* What peers and other users of the disk leave alone.                      *)
LEMMA SurroundingSteps ==
    ASSUME Connect \/ Commit \/ PeerCheckpoint \/ UseDisk
    PROVE  UNCHANGED <<command, links, autoVacuum, locked, pc, seen, asked, consent, cancelled,
                       mode, early, remaining, initial, output, reclaimed, moved, touched, exit>>
BY DEF Connect, Commit, PeerCheckpoint, UseDisk

-----------------------------------------------------------------------------
(* Types *)

(* A page count less some pages is a page count.                            *)
LEMMA SubType == ASSUME NEW a \in 0 .. MaxPages, NEW b \in Nat PROVE SaturatingSub(a, b) \in 0 .. MaxPages
BY CommandAssumption DEF SaturatingSub

(* The types in three parts: of the database, of the report and of control. *)
DataTypes ==
    /\ pages \in 1 .. MaxPages /\ free \in 0 .. pages - 1
    /\ file \in 1 .. MaxPages /\ wal \in 0 .. MaxWal /\ space \in Nat
ReportTypes ==
    /\ remaining \in 0 .. MaxPages /\ initial \in 0 .. MaxPages /\ output \in 0 .. MaxPages
    /\ reclaimed \in 0 .. MaxPages /\ moved \in 0 .. MaxPages
SeenTypes == seen \in [live : 0 .. MaxPages, file : 0 .. MaxPages, noCopy : BOOLEAN,
                       checkpointed : BOOLEAN]
ControlTypes ==
    /\ command \in Commands /\ links \in BOOLEAN /\ autoVacuum \in BOOLEAN
    /\ connected \subseteq Peers /\ used \in 0 .. MaxUsed
    /\ locked \in BOOLEAN /\ cancelled \in BOOLEAN /\ touched \in BOOLEAN
    /\ quiet \in BOOLEAN /\ written \in BOOLEAN /\ missed \subseteq {"before", "behind"}
    /\ early \in BOOLEAN /\ consent \in BOOLEAN
    /\ pc \in Steps /\ asked \in 0 .. Attempts
    /\ mode \in {"normal", "reclaim", "swap"} /\ exit \in Exits

(* The parts make up the type invariant.                                    *)
LEMMA TypeParts == TypeOK <=> DataTypes /\ ReportTypes /\ SeenTypes /\ ControlTypes
BY DEF TypeOK, DataTypes, ReportTypes, SeenTypes, ControlTypes, Exits

(* So they do after a step.                                                 *)
LEMMA TypePartsNext == TypeOK' <=> (DataTypes /\ ReportTypes /\ SeenTypes /\ ControlTypes)'
BY TypeParts, PTL

(* Every step keeps the types of control.                                   *)
LEMMA ControlTypesKept == CommandInv /\ [Next]_vars => ControlTypes'
<1>. SUFFICES ASSUME CommandInv, [Next]_vars PROVE ControlTypes'
  OBVIOUS
<1>0. ControlTypes
  BY TypeParts DEF CommandInv
<1>1. CASE Inspect
  <2>1. pc' \in Steps /\ exit' \in Exits /\ locked' \in BOOLEAN /\ quiet' \in BOOLEAN
    BY <1>0, <1>1 DEF Inspect, ControlTypes, Steps, Exits
  <2>2. UNCHANGED <<command, links, autoVacuum, connected, used, cancelled, touched, early, consent,
                    asked, mode, written, missed>>
    BY <1>1 DEF Inspect
  <2>. QED
    BY <1>0, <2>1, <2>2 DEF ControlTypes
<1>2. CASE AskStep
  <2>1. asked' \in 0 .. Attempts /\ consent' \in BOOLEAN
    <3>1. asked \in Nat /\ asked <= Attempts /\ Attempts \in Nat /\ consent \in BOOLEAN
      BY Types DEF CommandInv
    <3>2. CASE pc = "prompt"
      <4>1. asked < Attempts
        BY <3>2 DEF CommandInv, PcInv
      <4>. QED
        BY <1>2, <3>1, <3>2, <4>1, AskSteps
    <3>3. CASE pc # "prompt"
      BY <1>2, <3>1, <3>3, AskSteps
    <3>. QED
      BY <3>2, <3>3
  <2>2. pc' \in Steps /\ exit' \in Exits /\ locked' \in BOOLEAN
    BY <1>0, <1>2, AskSteps DEF ControlTypes, Steps, Exits
  <2>3. UNCHANGED <<command, links, autoVacuum, connected, used, cancelled, touched, early, quiet,
                    mode, written, missed>>
    BY <1>2, AskSteps
  <2>. QED
    BY <1>0, <2>1, <2>2, <2>3 DEF ControlTypes
<1>3. CASE Rebuild \/ Incremental \/ Report
  <2>1. UNCHANGED <<command, links, autoVacuum, connected, used, asked, consent, cancelled, early,
                    written, quiet, missed>>
    BY <1>3, ReclaimSteps
  <2>2. pc' \in Steps /\ exit' \in Exits /\ locked' \in BOOLEAN
        /\ mode' \in {"normal", "reclaim", "swap"}
    <3>1. CASE Incremental \/ Report
      BY <1>0, <3>1 DEF Incremental, BeginBatches, Batch, Report, ControlTypes, Steps, Exits
    <3>2. CASE Reopen \/ BeginRebuild \/ AcquireLock \/ Checkpoint \/ Build
      BY <1>0, <3>2
      DEF Reopen, BeginRebuild, AcquireLock, Checkpoint, Build, ControlTypes, Steps, Exits
    <3>3. CASE Close \/ Enter \/ CheckSource \/ Backup \/ Swap
      BY <1>0, <3>3 DEF Close, Enter, CheckSource, Backup, Swap, ControlTypes, Steps, Exits
    <3>. QED
      BY <1>3, <3>1, <3>2, <3>3 DEF Rebuild
  <2>3. touched' \in BOOLEAN
    BY <1>0, <1>3
    DEF Rebuild, Reopen, BeginRebuild, AcquireLock, Checkpoint, Build, Close, Enter, CheckSource,
        Backup, Swap, Incremental, BeginBatches, Batch, Report, ControlTypes
  <2>. QED
    BY <1>0, <2>1, <2>2, <2>3 DEF ControlTypes
<1>4. CASE Signal
  <2>1. early' \in BOOLEAN
    BY <1>0, <1>4 DEF Signal, ControlTypes
  <2>2. pc' \in Steps /\ exit' \in Exits /\ locked' \in BOOLEAN /\ cancelled' \in BOOLEAN
    BY <1>0, <1>4 DEF Signal, ControlTypes, Steps, Exits
  <2>3. UNCHANGED <<command, links, autoVacuum, connected, used, touched, consent, quiet, asked, mode,
                    written, missed>>
    BY <1>4 DEF Signal
  <2>. QED
    BY <1>0, <2>1, <2>2, <2>3 DEF ControlTypes
<1>5. CASE Connect \/ Commit \/ PeerCheckpoint \/ UseDisk
  <2>1. connected' \subseteq Peers
    BY <1>0, <1>5 DEF Connect, Commit, PeerCheckpoint, UseDisk, ControlTypes
  <2>2. used' \in 0 .. MaxUsed
    BY <1>0, <1>5, CommandAssumption DEF Connect, Commit, PeerCheckpoint, UseDisk, ControlTypes
  <2>3. quiet' \in BOOLEAN /\ written' \in BOOLEAN /\ missed' \subseteq {"before", "behind"}
    BY <1>0, <1>5 DEF Connect, Commit, PeerCheckpoint, UseDisk, ControlTypes
  <2>. QED
    BY <1>0, <1>5, <2>1, <2>2, <2>3, SurroundingSteps DEF ControlTypes
<1>6. CASE UNCHANGED vars
  BY <1>0, <1>6 DEF vars, ControlTypes
<1>. QED
  BY <1>1, <1>2, <1>3, <1>4, <1>5, <1>6, NextSteps

(* Every step keeps the types of what was measured.                         *)
LEMMA SeenTypesKept == CommandInv /\ [Next]_vars => SeenTypes'
<1>. SUFFICES ASSUME CommandInv, [Next]_vars PROVE SeenTypes'
  OBVIOUS
<1>0. SeenTypes
  BY TypeParts DEF CommandInv
<1>1. CASE Inspect /\ seen' # seen
  <2>. DEFINE noCopy == (links \/ command.skipBackup)
              complete == (file = pages)
  <2>1. Live \in 0 .. MaxPages /\ file \in 0 .. MaxPages
    BY Types DEF CommandInv
  <2>2. noCopy \in BOOLEAN /\ complete \in BOOLEAN
    OBVIOUS
  <2>3. seen' = [live |-> Live, file |-> file, noCopy |-> noCopy, checkpointed |-> complete]
    BY <1>1 DEF Inspect
  <2>. HIDE DEF noCopy, complete
  <2>. QED
    BY <2>1, <2>2, <2>3 DEF SeenTypes
<1>2. CASE seen' = seen
  BY <1>0, <1>2 DEF SeenTypes
<1>. QED
  BY <1>1, <1>2, NextSteps, AskSteps, ReclaimSteps, SurroundingSteps DEF Signal, vars

(* The steps that write the database or use the disk.                       *)
LEMMA DataTypesKept == CommandInv /\ [Next]_vars => DataTypes'
<1>. SUFFICES ASSUME CommandInv, [Next]_vars PROVE DataTypes'
  OBVIOUS
<1>0. /\ MaxPages \in Nat /\ MaxWal \in Nat
      /\ pages \in Nat /\ pages >= 1 /\ pages <= MaxPages
      /\ free \in Nat /\ free < pages
      /\ file \in Nat /\ file >= 1 /\ file <= MaxPages
      /\ wal \in Nat /\ wal <= MaxWal /\ space \in Nat /\ used \in Nat
      /\ Live \in Nat /\ Live >= 1 /\ Live <= MaxPages
  BY Types DEF CommandInv
<1>1. CASE UNCHANGED <<pages, free, file, wal, space>>
  BY <1>0, <1>1 DEF DataTypes
<1>2. CASE Checkpoint
  BY <1>0, <1>1, <1>2 DEF Checkpoint, DataTypes
<1>3. CASE Build
  BY <1>0, <1>1, <1>3 DEF Build, DataTypes
<1>4. CASE Backup
  <2>1. CopyPages \in Nat
    BY <1>0 DEF CopyPages
  <2>. QED
    BY <1>0, <1>1, <1>4, <2>1 DEF Backup, DataTypes
<1>5. CASE Swap
  <2>1. output \in 1 .. MaxPages
    BY <1>0, <1>5, Types DEF Swap, CommandInv, OutputInv, Released
  <2>. QED
    BY <1>0, <1>1, <1>5, <2>1 DEF Swap, DataTypes
<1>6. CASE Batch
  <2>1. Lesser(BatchPages, free) \in 0 .. free
    BY <1>0, CommandAssumption DEF Lesser
  <2>. QED
    BY <1>0, <1>1, <1>6, <2>1 DEF Batch, DataTypes
<1>7. CASE Commit
  BY <1>0, <1>7 DEF Commit, DataTypes
<1>8. CASE PeerCheckpoint
  BY <1>0, <1>8 DEF PeerCheckpoint, DataTypes
<1>9. CASE UseDisk
  BY <1>0, <1>9 DEF UseDisk, DataTypes
<1>10. \/ Checkpoint \/ Build \/ Backup \/ Swap \/ Batch \/ Commit \/ PeerCheckpoint \/ UseDisk
       \/ UNCHANGED <<pages, free, file, wal, space>>
  BY NextSteps, AskSteps
  DEF Inspect, Rebuild, Incremental, Reopen, BeginRebuild, AcquireLock, Close, Enter, CheckSource,
      BeginBatches, Report, Signal, Connect, vars
<1>. QED
  BY <1>1, <1>2, <1>3, <1>4, <1>5, <1>6, <1>7, <1>8, <1>9, <1>10

(* Every step keeps the types of the report.                                *)
LEMMA ReportTypesKept == CommandInv /\ [Next]_vars => ReportTypes'
<1>. SUFFICES ASSUME CommandInv, [Next]_vars PROVE ReportTypes'
  OBVIOUS
<1>0. ReportTypes /\ pages \in 0 .. MaxPages /\ free \in 0 .. MaxPages /\ file \in 0 .. MaxPages
      /\ Live \in 0 .. MaxPages /\ MaxPages \in Nat
  BY Types, TypeParts DEF CommandInv
<1>1. free' \in 0 .. MaxPages
  BY <1>0, DataTypesKept DEF DataTypes
<1>2. CASE UNCHANGED <<remaining, initial, output, reclaimed, moved>>
  BY <1>0, <1>2 DEF ReportTypes
<1>3. CASE Checkpoint \/ Build \/ BeginBatches
  BY <1>0, <1>3 DEF Checkpoint, Build, BeginBatches, ReportTypes
<1>4. CASE Swap
  <2>1. reclaimed' \in 0 .. MaxPages /\ moved' \in 0 .. MaxPages
    <3>1. output \in Nat /\ initial \in 0 .. MaxPages
      BY <1>0 DEF ReportTypes
    <3>. QED
      BY <1>0, <1>4, <3>1, SubType DEF Swap, ReportTypes
  <2>. QED
    BY <1>0, <1>2, <1>4, <2>1 DEF Swap, ReportTypes
<1>5. CASE Batch /\ ~UNCHANGED <<remaining, initial, output, reclaimed, moved>>
  <2>1. Lesser(BatchPages, free) \in Nat
    BY <1>0, CommandAssumption DEF Lesser
  <2>2. moved' \in 0 .. MaxPages
    BY <1>0, <1>5, <2>1 DEF Batch, Lesser, ReportTypes
  <2>3. reclaimed' \in 0 .. MaxPages
    <3>1. reclaimed' = SaturatingSub(initial, free') \/ reclaimed' = reclaimed
      BY <1>5 DEF Batch
    <3>2. initial \in 0 .. MaxPages /\ free' \in Nat
      BY <1>0, <1>1 DEF ReportTypes
    <3>. QED
      BY <1>0, <3>1, <3>2, SubType DEF ReportTypes
  <2>. QED
    BY <1>0, <1>1, <1>5, <2>2, <2>3 DEF Batch, ReportTypes
<1>6. \/ Checkpoint \/ Build \/ BeginBatches \/ Swap \/ Batch
      \/ UNCHANGED <<remaining, initial, output, reclaimed, moved>>
  BY NextSteps, AskSteps, SurroundingSteps
  DEF Inspect, Rebuild, Incremental, Reopen, BeginRebuild, AcquireLock, Close, Enter, CheckSource,
      Backup, Report, Signal, vars
<1>. QED
  BY <1>2, <1>3, <1>4, <1>5, <1>6

(* Every step keeps the types.                                              *)
LEMMA TypeKept == CommandInv /\ [Next]_vars => TypeOK'
BY DataTypesKept, ReportTypesKept, SeenTypesKept, ControlTypesKept, TypePartsNext

-----------------------------------------------------------------------------
(* Where the command is *)

(* Every step keeps where the command can be after which answer.            *)
LEMMA PcKept == CommandInv /\ [Next]_vars => PcInv'
<1>. SUFFICES ASSUME CommandInv, [Next]_vars PROVE PcInv'
  OBVIOUS
<1>0. PcInv /\ asked \in Nat /\ Attempts \in Nat \ {0}
  BY Types DEF CommandInv
<1>1. CASE Inspect
  BY <1>0, <1>1 DEF Inspect, PcInv, Looking, UnderLock, Released, Rebuilding
<1>2. CASE PassHolders
  BY <1>0, <1>2 DEF PassHolders, PcInv, Looking, UnderLock, Released, Rebuilding
<1>3. CASE Headroom
  BY <1>0, <1>3 DEF Headroom, Confirm, Confirmed, Agreed, PcInv, Looking, UnderLock, Released, Rebuilding
<1>4. CASE OpenIncremental
  BY <1>0, <1>4
  DEF OpenIncremental, Confirm, Confirmed, Agreed, PcInv, Looking, UnderLock, Released, Rebuilding
<1>5. CASE Answer
  BY <1>0, <1>5 DEF Answer, Confirmed, Agreed, PcInv, Looking, UnderLock, Released, Rebuilding
<1>6. CASE Rebuild \/ Incremental \/ Report
  <2>1. UNCHANGED <<command, asked, consent>>
    BY <1>6, ReclaimSteps
  <2>. QED
    BY <1>0, <1>6, <2>1
    DEF Rebuild, Reopen, BeginRebuild, AcquireLock, Checkpoint, Build, Close, Enter, CheckSource,
        Backup, Swap, Incremental, BeginBatches, Batch, Report, Agreed, PcInv, Looking, UnderLock,
        Released, Rebuilding
<1>7. CASE Signal
  BY <1>0, <1>7 DEF Signal, Agreed, PcInv, Looking, UnderLock, Released, Rebuilding
<1>8. CASE Connect \/ Commit \/ PeerCheckpoint \/ UseDisk
  BY <1>0, <1>8, SurroundingSteps DEF Agreed, PcInv
<1>9. CASE UNCHANGED vars
  BY <1>0, <1>9 DEF vars, Agreed, PcInv
<1>. QED
  BY <1>1, <1>2, <1>3, <1>4, <1>5, <1>6, <1>7, <1>8, <1>9, NextSteps DEF AskStep

(* Every step keeps that nothing changed unasked.                           *)
LEMMA TouchKept == CommandInv /\ [Next]_vars => TouchInv'
<1>. SUFFICES ASSUME CommandInv, [Next]_vars PROVE TouchInv'
  OBVIOUS
<1>0. TouchInv /\ PcInv
  BY DEF CommandInv
<1>1. CASE Inspect
  BY <1>0, <1>1 DEF Inspect, TouchInv, Agreed, UnderLock, Released, Rebuilding
<1>2. CASE AskStep
  <2>1. mode = "normal" /\ pc' \notin Rebuilding
    BY <1>0, <1>2, AskSteps DEF PcInv, Looking, Rebuilding, UnderLock, Released
  <2>. QED
    BY <1>0, <1>2, <2>1, AskSteps DEF TouchInv
<1>3. CASE Rebuild \/ Incremental \/ Report
  <2>1. UNCHANGED <<command, consent, cancelled, early>>
    BY <1>3, ReclaimSteps
  <2>2. touched' => touched \/ pc \in {"checkpoint", "swap", "batch"}
    BY <1>3
    DEF Rebuild, Reopen, BeginRebuild, AcquireLock, Checkpoint, Build, Close, Enter, CheckSource,
        Backup, Swap, Incremental, BeginBatches, Batch, Report
  <2>3. pc = "batch" /\ touched' => touched \/ ~cancelled
    BY <1>3
    DEF Rebuild, Reopen, BeginRebuild, AcquireLock, Checkpoint, Build, Close, Enter, CheckSource,
        Backup, Swap, Incremental, BeginBatches, Batch, Report
  <2>4. mode # "normal" => mode' # "normal"
    BY <1>3
    DEF Rebuild, Reopen, BeginRebuild, AcquireLock, Checkpoint, Build, Close, Enter, CheckSource,
        Backup, Swap, Incremental, BeginBatches, Batch, Report
  <2>5. touched' => Agreed /\ ~early /\ mode # "normal"
    BY <1>0, <2>2, <2>3 DEF TouchInv, PcInv, Rebuilding, UnderLock, Released
  <2>6. pc' \in Rebuilding \ {"begin"} => pc \in Rebuilding /\ (pc = "begin" => ~cancelled)
    BY <1>3
    DEF Rebuild, Reopen, BeginRebuild, AcquireLock, Checkpoint, Build, Close, Enter, CheckSource,
        Backup, Swap, Incremental, BeginBatches, Batch, Report, Rebuilding, UnderLock, Released
  <2>. QED
    BY <1>0, <2>1, <2>4, <2>5, <2>6 DEF TouchInv, Agreed
<1>4. CASE Signal
  BY <1>0, <1>4 DEF Signal, TouchInv, PcInv, Agreed, UnderLock, Released, Rebuilding
<1>5. CASE Connect \/ Commit \/ PeerCheckpoint \/ UseDisk
  BY <1>0, <1>5, SurroundingSteps DEF Agreed, TouchInv
<1>6. CASE UNCHANGED vars
  BY <1>0, <1>6 DEF vars, Agreed, TouchInv
<1>. QED
  BY <1>1, <1>2, <1>3, <1>4, <1>5, <1>6, NextSteps

(* Every step keeps what the output holds.                                  *)
LEMMA OutputKept == CommandInv /\ [Next]_vars => OutputInv'
<1>. SUFFICES ASSUME CommandInv, [Next]_vars PROVE OutputInv'
  OBVIOUS
<1>0. OutputInv /\ wal \in Nat
  BY Types DEF CommandInv
<1>. USE DEF Released
<1>1. CASE Build
  <2>1. Live >= 1 /\ missed = {} /\ ~written
    BY <1>0, <1>1, Types DEF Build, OutputInv, CommandInv
  <2>2. \/ pc' = "ended"
        \/ pc' = "close" /\ output' = Live /\ UNCHANGED <<pages, free, written, missed>>
    BY <1>1 DEF Build
  <2>. QED
    BY <2>1, <2>2 DEF OutputInv, Live
<1>2. CASE Close \/ Enter \/ CheckSource \/ Backup
  <2>1. UNCHANGED <<output, pages, free, wal, written, missed>>
    BY <1>2 DEF Close, Enter, CheckSource, Backup
  <2>2. \/ pc' = "ended"
        \/ pc = "close" /\ pc' = "enter"
        \/ pc = "enter" /\ pc' = "check"
        \/ pc = "check" /\ pc' = "backup" /\ ~written /\ wal = 0
        \/ pc = "backup" /\ pc' = "swap"
    BY <1>2 DEF Close, Enter, CheckSource, Backup
  <2>. QED
    BY <1>0, <2>1, <2>2 DEF OutputInv, Live
<1>3. CASE Commit
  <2>1. ~locked /\ UNCHANGED <<pc, output, written>> /\ wal' > 0
        /\ missed' = missed \cup (IF pc \in {"enter", "check"} THEN {"before"}
                                  ELSE IF pc \in {"backup", "swap"} THEN {"behind"} ELSE {})
    BY <1>0, <1>3 DEF Commit
  <2>2. pc # "close"
    BY <2>1 DEF CommandInv, PcInv, UnderLock
  <2>. QED
    BY <1>0, <2>1, <2>2 DEF OutputInv
<1>4. CASE PeerCheckpoint
  <2>1. UNCHANGED <<pc, output, pages, free, missed>> /\ written' = (written \/ pc \in Released)
    BY <1>4 DEF PeerCheckpoint
  <2>. QED
    BY <1>0, <2>1 DEF OutputInv, Live
<1>5. CASE Signal \/ Connect \/ UseDisk \/ UNCHANGED vars
  <2>1. UNCHANGED <<output, pages, free, wal, written, missed>> /\ pc' \in {pc, "ended"}
    BY <1>5 DEF Signal, Connect, UseDisk, vars
  <2>. QED
    BY <1>0, <2>1 DEF OutputInv, Live
<1>6. CASE Swap \/ Report
  <2>1. pc' \in {"report", "ended"}
    BY <1>6 DEF Swap, Report
  <2>. QED
    BY <2>1 DEF OutputInv
<1>7. CASE Inspect \/ AskStep \/ Reopen \/ BeginRebuild \/ AcquireLock \/ Checkpoint \/ Incremental
  <2>1. UNCHANGED <<written, missed>>
    BY <1>7, AskSteps
    DEF Inspect, Reopen, BeginRebuild, AcquireLock, Checkpoint, Incremental, BeginBatches, Batch
  <2>2. pc \notin Released \cup {"report", "ended"} /\ pc' \notin Released \cup {"close"}
    BY <1>7, AskSteps
    DEF Inspect, Reopen, BeginRebuild, AcquireLock, Checkpoint, Incremental, BeginBatches, Batch
  <2>. QED
    BY <1>0, <2>1, <2>2 DEF OutputInv
<1>. QED
  BY <1>1, <1>2, <1>3, <1>4, <1>5, <1>6, <1>7, NextSteps DEF Rebuild

-----------------------------------------------------------------------------
(* The space *)

(* The sizes are numbers.                                                   *)
LEMMA SpaceFacts ==
    CommandInv =>
      /\ space \in Nat /\ used \in Nat /\ Live \in Nat /\ pages \in Nat /\ file \in Nat /\ wal \in Nat
      /\ seen.live \in Nat /\ seen.file \in Nat /\ Copy \in Nat /\ Margin(seen.live) \in Nat
<1>. SUFFICES ASSUME CommandInv
     PROVE  /\ space \in Nat /\ used \in Nat /\ Live \in Nat /\ pages \in Nat /\ file \in Nat
            /\ wal \in Nat
            /\ seen.live \in Nat /\ seen.file \in Nat /\ Copy \in Nat /\ Margin(seen.live) \in Nat
  OBVIOUS
<1>1. seen.live \in Nat /\ seen.file \in Nat
  BY Types DEF CommandInv
<1>. QED
  BY <1>1, Types, MarginRoundsUp DEF CommandInv, Copy

(* The gate requires the live pages, the copy and the margin.               *)
LEMMA HeadroomPassed ==
    ASSUME CommandInv, Sufficient(space, VacuumRequired(seen.live, seen.file, seen.noCopy))
    PROVE  space >= seen.live + Copy + Margin(seen.live)
<1>. USE SpaceFacts
<1>1. Projected(seen.live, 0) = seen.live
  BY DEF Projected, SaturatingSub
<1>2. BackupCopy(seen.file, seen.noCopy) = Copy
  BY DEF BackupCopy, Copy
<1>3. VacuumRequired(seen.live, seen.file, seen.noCopy)
        = Checked(seen.live + Copy + 0 + Margin(seen.live))
  BY <1>1, <1>2 DEF VacuumRequired, Required
<1>. QED
  BY <1>3 DEF Sufficient, Checked

(* Why a step runs out of disk.                                             *)
LEMMA DiskFull ==
    ASSUME CommandInv, [Next]_vars, exit' = "disk_full", exit # "disk_full"
    PROVE  /\ ~command.incremental /\ UNCHANGED <<quiet, seen, used>>
           /\ \/ pc = "checkpoint" /\ pages > file + space
              \/ pc = "build" /\ Live > space
              \/ pc = "backup" /\ CopyPages > space
<1>1. \/ Checkpoint /\ pages > file + space
      \/ Build /\ Live > space
      \/ Backup /\ CopyPages > space
  BY NextSteps, AskSteps, SurroundingSteps
  DEF Inspect, Rebuild, Incremental, Reopen, BeginRebuild, AcquireLock, Checkpoint, Build, Close,
      Enter, CheckSource, Backup, Swap, BeginBatches, Batch, Report, Signal, vars
<1>2. UNCHANGED <<quiet, seen, used>>
  BY <1>1, ReclaimSteps DEF Rebuild
<1>. QED
  BY <1>1, <1>2 DEF Checkpoint, Build, Backup, CommandInv, PcInv, Rebuilding, UnderLock, Released

(* Every step keeps the promise of the gate.                                *)
LEMMA GateKept == CommandInv /\ [Next]_vars => GateCoversRebuild'
<1>. SUFFICES ASSUME CommandInv, [Next]_vars, exit' = "disk_full", quiet', seen'.checkpointed
     PROVE  used' > Margin(seen'.live)
  BY DEF GateCoversRebuild
<1>. USE SpaceFacts
<1>1. CASE exit = "disk_full"
  <2>1. pc = "ended"
    BY <1>1 DEF CommandInv, PcInv
  <2>2. UNCHANGED <<quiet, seen, used>>
    BY <2>1, NextSteps, AskSteps
    DEF Inspect, Rebuild, Incremental, Reopen, BeginRebuild, AcquireLock, Checkpoint, Build, Close,
        Enter, CheckSource, Backup, Swap, BeginBatches, Batch, Report, Signal, Connect, Commit,
        PeerCheckpoint, UseDisk, vars
  <2>. QED
    BY <1>1, <2>2 DEF CommandInv, SpaceInv, GateCoversRebuild
<1>2. CASE exit # "disk_full"
  <2>1. /\ ~command.incremental /\ UNCHANGED <<quiet, seen, used>> /\ Undisturbed
        /\ \/ pc = "checkpoint" /\ pages > file + space
           \/ pc = "build" /\ Live > space
           \/ pc = "backup" /\ CopyPages > space
    BY <1>2, DiskFull DEF Undisturbed
  <2>2. /\ seen.live = Live /\ seen.file = file /\ file = pages
        /\ seen.noCopy = (links \/ command.skipBackup)
    BY <2>1 DEF CommandInv, SpaceInv, Rebuilding, UnderLock, Released
  <2>3. CopyPages = Copy
    BY <2>2 DEF CopyPages, Copy
  <2>4. ~(pages > file + space)
    BY <2>2
  <2>5. CASE pc = "build" /\ Live > space
    <3>1. space + used >= Live + Copy + Margin(seen.live)
      BY <2>1, <2>5 DEF CommandInv, SpaceInv
    <3>. QED
      BY <2>1, <2>5, <3>1
  <2>6. CASE pc = "backup" /\ CopyPages > space
    <3>1. space + used >= Copy + Margin(seen.live)
      BY <2>1, <2>6 DEF CommandInv, SpaceInv
    <3>. QED
      BY <2>1, <2>3, <2>6, <3>1
  <2>. QED
    BY <2>1, <2>4, <2>5, <2>6
<1>. QED
  BY <1>1, <1>2

(* What was measured is still so.                                           *)
Measured ==
    /\ seen.live = Live /\ seen.file = file /\ file = pages
    /\ seen.noCopy = (links \/ command.skipBackup)

(* While nobody wrote, what was measured is still right.                    *)
LEMMA MeasuredKept ==
    ASSUME CommandInv, [Next]_vars, Undisturbed', ~command'.incremental,
           pc' \in {"gate", "headroom", "prompt", "reopen"} \cup Rebuilding
    PROVE  Measured'
<1>1. CASE Inspect
  <2>1. pc' # "ended"
    BY DEF Rebuilding, UnderLock, Released
  <2>2. /\ seen' = [live |-> Live, file |-> file, noCopy |-> links \/ command.skipBackup,
                    checkpointed |-> file = pages]
        /\ UNCHANGED <<command, links, pages, free, file>>
    BY <1>1, <2>1 DEF Inspect
  <2>3. /\ seen'.live = Live /\ seen'.file = file /\ seen'.noCopy = (links \/ command.skipBackup)
        /\ seen'.checkpointed = (file = pages)
    BY <2>2
  <2>. QED
    BY <2>2, <2>3 DEF Measured, Undisturbed, Live
<1>2. ASSUME UNCHANGED <<command, links, seen, quiet>>, pc # "inspect", pc \notin {"ended", "report"},
             ~command.incremental
      PROVE  Measured
  <2>1. pc \in {"gate", "headroom", "prompt", "reopen"} \cup Rebuilding
    BY <1>2, Types DEF CommandInv, PcInv, TypeOK, Steps, Rebuilding, UnderLock, Released
  <2>. QED
    BY <1>2, <2>1 DEF CommandInv, SpaceInv, Measured, Undisturbed
<1>3. CASE UNCHANGED <<command, links, seen, quiet, pages, free, file>> /\ ~Inspect
  <2>1. pc \notin {"inspect", "ended", "report"}
    BY <1>3, NextSteps, AskSteps
    DEF Rebuild, Incremental, Reopen, BeginRebuild, AcquireLock, Checkpoint, Build, Close, Enter,
        CheckSource, Backup, Swap, BeginBatches, Batch, Report, Signal, Connect, Commit,
        PeerCheckpoint, UseDisk, vars, Rebuilding, UnderLock, Released
  <2>. QED
    BY <1>2, <1>3, <2>1 DEF Measured, Live
<1>4. CASE Checkpoint
  <2>1. UNCHANGED <<command, links, seen, quiet>> /\ pc = "checkpoint"
    BY <1>4, ReclaimSteps DEF Rebuild, Checkpoint
  <2>2. Measured
    BY <1>2, <2>1
  <2>3. UNCHANGED <<pages, free>> /\ file' \in {file, pages}
    BY <1>4 DEF Checkpoint
  <2>. QED
    BY <2>1, <2>2, <2>3 DEF Measured, Live
<1>5. Inspect \/ Checkpoint \/ UNCHANGED <<command, links, seen, quiet, pages, free, file>>
  <2>1. ~Swap /\ ~Report /\ pc' \notin {"report", "batch", "ended"}
    BY DEF Swap, Report, Rebuilding, UnderLock, Released
  <2>2. quiet'
    BY DEF Undisturbed
  <2>3. CASE Rebuild \/ Incremental
    <3>1. ~Incremental
      BY <2>1 DEF Incremental, BeginBatches, Batch
    <3>2. UNCHANGED <<command, links, seen, quiet>>
      BY <2>3, ReclaimSteps
    <3>3. Checkpoint \/ UNCHANGED <<pages, free, file>>
      BY <2>1, <2>3, <3>1
      DEF Rebuild, Reopen, BeginRebuild, AcquireLock, Build, Close, Enter, CheckSource, Backup
    <3>. QED
      BY <3>2, <3>3
  <2>4. CASE AskStep
    BY <2>4, AskSteps
  <2>5. CASE Signal \/ Connect \/ Commit \/ PeerCheckpoint \/ UseDisk \/ UNCHANGED vars
    BY <2>2, <2>5 DEF Signal, Connect, Commit, PeerCheckpoint, UseDisk, vars
  <2>. QED
    BY <2>1, <2>3, <2>4, <2>5, NextSteps
<1>. QED
  BY <1>1, <1>3, <1>4, <1>5

(* The room that the gate required.                                         *)
Room ==
    /\ pc \in {"prompt", "reopen", "begin", "lock", "checkpoint", "build"} =>
          space + used >= Live + Copy + Margin(seen.live)
    /\ pc \in {"close", "enter", "check", "backup"} =>
          space + used >= Copy + Margin(seen.live)

(* While nobody wrote, the required space is still there, step by step.     *)
LEMMA RoomKept ==
    ASSUME CommandInv, [Next]_vars, Undisturbed', ~command'.incremental
    PROVE  Room'
<1>. USE SpaceFacts
<1>1. CASE Inspect
  BY <1>1 DEF Inspect, Room
<1>2. CASE Commit \/ PeerCheckpoint
  BY <1>2 DEF Commit, PeerCheckpoint, Undisturbed
<1>3. ASSUME ~command.incremental, UNCHANGED <<quiet, seen>> PROVE Room
  BY <1>3 DEF CommandInv, SpaceInv, Undisturbed, Room
<1>4. CASE AskStep
  <2>1. ~command.incremental /\ UNCHANGED <<quiet, seen, space, used, pages, free>>
    BY <1>4, AskSteps
  <2>2. CASE Headroom
    <3>1. pc = "headroom"
      BY <2>2 DEF Headroom
    <3>2. seen.live = Live
      BY <2>1, <3>1 DEF CommandInv, SpaceInv, Undisturbed
    <3>3. CASE Sufficient(space, VacuumRequired(seen.live, seen.file, seen.noCopy))
      <4>1. space >= Live + Copy + Margin(seen.live)
        BY <3>2, <3>3, HeadroomPassed
      <4>. QED
        BY <1>4, <2>1, <4>1, AskSteps DEF Room, Live, Copy
    <3>4. CASE ~Sufficient(space, VacuumRequired(seen.live, seen.file, seen.noCopy))
      BY <2>2, <3>4 DEF Headroom, Room
    <3>. QED
      BY <3>3, <3>4
  <2>3. CASE PassHolders
    BY <2>3 DEF PassHolders, Room
  <2>4. ~OpenIncremental
    BY <2>1 DEF OpenIncremental, CommandInv, PcInv
  <2>5. CASE Answer
    <3>1. pc = "prompt" /\ Room
      BY <1>3, <2>1, <2>5 DEF Answer
    <3>. QED
      BY <1>4, <2>1, <3>1, AskSteps DEF Room, Live, Copy
  <2>. QED
    BY <1>4, <2>2, <2>3, <2>4, <2>5 DEF AskStep
<1>5. CASE Rebuild
  <2>1. UNCHANGED <<command, quiet, seen, used>>
    BY <1>5, ReclaimSteps
  <2>2. Room
    BY <1>3, <2>1
  <2>3. CASE Reopen \/ BeginRebuild \/ AcquireLock \/ Close \/ Enter \/ CheckSource
    <3>1. UNCHANGED <<pages, free, space>>
      BY <2>3 DEF Reopen, BeginRebuild, AcquireLock, Close, Enter, CheckSource
    <3>2. /\ pc' \in {"begin", "lock", "checkpoint"} =>
                pc \in {"reopen", "begin", "lock"}
          /\ pc' \in {"begin", "lock", "checkpoint", "enter", "check", "backup", "ended"}
          /\ pc' \in {"enter", "check", "backup"} => pc \in {"close", "enter", "check"}
      BY <2>3 DEF Reopen, BeginRebuild, AcquireLock, Close, Enter, CheckSource
    <3>. QED
      BY <2>1, <2>2, <3>1, <3>2 DEF Room, Live, Copy
  <2>4. CASE Checkpoint /\ pc' # "ended"
    <3>1. /\ pc = "checkpoint" /\ pc' = "build" /\ UNCHANGED <<pages, free>>
          /\ space' = space + file + wal - pages
      BY <2>4 DEF Checkpoint
    <3>2. file = pages
      BY <2>1, <3>1 DEF CommandInv, SpaceInv, Undisturbed, Rebuilding, UnderLock, Released
    <3>. QED
      BY <2>1, <2>2, <3>1, <3>2 DEF Room, Live, Copy
  <2>5. CASE Build /\ pc' # "ended"
    <3>1. pc = "build" /\ pc' = "close" /\ space' = space - Live
      BY <2>5 DEF Build
    <3>. QED
      BY <2>1, <2>2, <3>1 DEF Room, Copy
  <2>6. CASE pc' \in {"ended", "swap", "report"}
    BY <2>6 DEF Room
  <2>. QED
    BY <1>5, <2>3, <2>4, <2>5, <2>6 DEF Rebuild, Backup, Swap
<1>6. CASE Incremental \/ Report
  <2>1. UNCHANGED command
    BY <1>6, ReclaimSteps
  <2>2. ~Incremental
    BY <2>1 DEF Incremental, BeginBatches, Batch, CommandInv, PcInv
  <2>. QED
    BY <1>6, <2>2 DEF Report, Room
<1>7. CASE Signal
  <2>1. Room /\ UNCHANGED <<quiet, seen, used, space, pages, free>> /\ pc' \in {pc, "ended"}
    BY <1>3, <1>7 DEF Signal
  <2>. QED
    BY <2>1 DEF Room, Live, Copy
<1>8. CASE Connect \/ UNCHANGED vars
  <2>1. Room /\ UNCHANGED <<quiet, seen, used, space, pages, free, pc>>
    BY <1>3, <1>8 DEF Connect, vars
  <2>. QED
    BY <2>1 DEF Room, Live, Copy
<1>9. CASE UseDisk
  <2>1. Room /\ UNCHANGED <<quiet, seen, pages, free, pc>> /\ used' = used + 1 /\ space' = space - 1
    BY <1>3, <1>9 DEF UseDisk
  <2>2. space' + used' = space + used
    BY <2>1
  <2>. QED
    BY <2>1, <2>2 DEF Room, Live, Copy
<1>. QED
  BY <1>1, <1>2, <1>4, <1>5, <1>6, <1>7, <1>8, <1>9, NextSteps

(* Every step keeps the facts about the space.                              *)
LEMMA SpaceKept == CommandInv /\ [Next]_vars => SpaceInv'
<1>. SUFFICES ASSUME CommandInv, [Next]_vars PROVE SpaceInv'
  OBVIOUS
<1>1. ASSUME Undisturbed', ~command'.incremental
      PROVE  Room' /\ (pc' \in {"gate", "headroom", "prompt", "reopen"} \cup Rebuilding => Measured')
  BY <1>1, RoomKept, MeasuredKept
<1>. QED
  BY <1>1, GateKept DEF SpaceInv, Room, Measured, Rebuilding, UnderLock, Released

-----------------------------------------------------------------------------
(* The report *)

(* A batch that no peer disturbs is counted exactly.                        *)
LEMMA BatchExact ==
    ASSUME CommandInv, Batch, quiet, pc' # "ended"
    PROVE  initial' = free' + moved' /\ reclaimed' = moved' /\ pc' \in {"batch", "report"}
<1>. DEFINE taken == Lesser(BatchPages, free)
<1>0. /\ free \in Nat /\ free <= MaxPages /\ moved \in Nat /\ initial \in 0 .. MaxPages
      /\ MaxPages \in Nat
  BY Types DEF CommandInv
<1>1. /\ free' = free - taken /\ moved' = Lesser(moved + taken, MaxPages)
      /\ reclaimed' = SaturatingSub(initial, free') /\ initial' = initial /\ pc = "batch"
      /\ pc' \in {"batch", "report"}
  BY DEF Batch
<1>2. taken \in Nat /\ taken <= free
  BY <1>0, CommandAssumption DEF Lesser
<1>3. initial = free + moved
  BY <1>1 DEF CommandInv, ReportInv
<1>4. free' \in Nat /\ free' + (moved + taken) = initial
  BY <1>0, <1>1, <1>2, <1>3
<1>5. moved' = moved + taken
  BY <1>0, <1>1, <1>2, <1>4 DEF Lesser
<1>. QED
  BY <1>0, <1>1, <1>2, <1>4, <1>5 DEF SaturatingSub

(* Every step keeps the report exact.                                       *)
LEMMA ReportKept == CommandInv /\ [Next]_vars => ReportInv'
<1>. SUFFICES ASSUME CommandInv, [Next]_vars PROVE ReportInv'
  OBVIOUS
<1>0. ReportInv
  BY DEF CommandInv
<1>. USE DEF Released
<1>1. CASE Inspect
  BY <1>0, <1>1 DEF Inspect, ReportInv
<1>2. CASE AskStep
  <2>1. UNCHANGED <<reclaimed, moved, quiet, seen>> /\ reclaimed = 0 /\ moved = 0
    BY <1>0, <1>2, AskSteps DEF ReportInv
  <2>2. pc' \notin {"batch", "build", "close"} \cup Released
    BY <1>2, AskSteps DEF Released
  <2>. QED
    BY <2>1, <2>2 DEF ReportInv
<1>3. CASE Rebuild
  <2>1. UNCHANGED <<quiet, seen>> /\ ~command.incremental
    BY <1>3, ReclaimSteps
    DEF Rebuild, Reopen, BeginRebuild, AcquireLock, Checkpoint, Build, Close, Enter, CheckSource,
        Backup, Swap, CommandInv, PcInv, Rebuilding, UnderLock, Released
  <2>2. reclaimed = 0 /\ moved = 0
    BY <1>0, <1>3
    DEF Rebuild, Reopen, BeginRebuild, AcquireLock, Checkpoint, Build, Close, Enter, CheckSource,
        Backup, Swap, ReportInv
  <2>3. CASE Swap
    <3>1. ASSUME Undisturbed PROVE initial = pages
      BY <1>0, <2>3, <3>1 DEF Swap, ReportInv, Released
    <3>2. \/ pc' = "report" /\ moved' = SaturatingSub(pages, output)
                            /\ reclaimed' = SaturatingSub(initial, output)
          \/ pc' = "ended" /\ UNCHANGED <<moved, reclaimed>>
      BY <2>3 DEF Swap
    <3>. QED
      BY <1>0, <2>1, <3>1, <3>2 DEF ReportInv, Undisturbed, Released
  <2>4. CASE Checkpoint /\ pc' # "ended"
    <3>1. pc = "checkpoint" /\ pc' = "build" /\ initial' = file
          /\ UNCHANGED <<reclaimed, moved, pages>>
      BY <2>4 DEF Checkpoint
    <3>2. Undisturbed => file = pages
      BY <2>1, <3>1 DEF CommandInv, SpaceInv, Rebuilding, UnderLock, Released
    <3>. QED
      BY <2>1, <2>2, <3>1, <3>2 DEF ReportInv, Undisturbed
  <2>5. CASE Build \/ Close \/ Enter \/ CheckSource \/ Backup
    <3>1. UNCHANGED <<reclaimed, moved, pages, initial>> /\ pc \in {"build", "close"} \cup Released
          /\ pc' \in {"close", "ended"} \cup Released
      BY <2>5 DEF Build, Close, Enter, CheckSource, Backup, Released
    <3>. QED
      BY <1>0, <2>1, <2>2, <3>1 DEF ReportInv, Undisturbed, Released
  <2>6. CASE Reopen \/ BeginRebuild \/ AcquireLock \/ (Checkpoint /\ pc' = "ended")
    <3>1. UNCHANGED <<reclaimed, moved>> /\ pc' \in {"begin", "lock", "checkpoint", "ended"}
      BY <2>6 DEF Reopen, BeginRebuild, AcquireLock, Checkpoint
    <3>. QED
      BY <2>2, <3>1 DEF ReportInv
  <2>. QED
    BY <1>3, <2>3, <2>4, <2>5, <2>6 DEF Rebuild
<1>4. CASE BeginBatches
  <2>1. reclaimed = 0 /\ moved = 0
    BY <1>0, <1>4 DEF BeginBatches, ReportInv
  <2>2. UNCHANGED <<reclaimed, moved, free>> /\ initial' = free /\ pc' \in {"report", "batch"}
        /\ free \in Nat
    BY <1>4, Types DEF BeginBatches, CommandInv
  <2>. QED
    BY <2>1, <2>2 DEF ReportInv
<1>5. CASE Batch
  <2>1. UNCHANGED <<quiet, seen>>
    BY <1>5, ReclaimSteps DEF Incremental
  <2>2. CASE pc' = "ended"
    <3>1. UNCHANGED <<reclaimed, moved>>
      BY <1>5, <2>2 DEF Batch
    <3>. QED
      BY <1>0, <2>1, <2>2, <3>1 DEF ReportInv, Undisturbed
  <2>3. CASE pc' # "ended" /\ quiet
    BY <1>5, <2>1, <2>3, BatchExact DEF ReportInv, Undisturbed
  <2>4. CASE pc' # "ended" /\ ~quiet
    <3>1. pc' \in {"batch", "report"}
      BY <1>5, <2>4 DEF Batch
    <3>. QED
      BY <2>1, <2>4, <3>1 DEF ReportInv, Undisturbed
  <2>. QED
    BY <2>2, <2>3, <2>4
<1>6. CASE Report
  <2>1. UNCHANGED <<quiet, seen, reclaimed, moved>> /\ pc' = "ended"
    BY <1>6 DEF Report
  <2>. QED
    BY <1>0, <2>1 DEF ReportInv, Undisturbed
<1>7. CASE Signal
  <2>1. UNCHANGED <<quiet, seen, reclaimed, moved, initial, pages, free>> /\ pc' \in {pc, "ended"}
        /\ pc # "ended"
    BY <1>7 DEF Signal
  <2>. QED
    BY <1>0, <2>1 DEF ReportInv, Undisturbed
<1>8. CASE Commit \/ PeerCheckpoint
  <2>1. quiet' = FALSE /\ UNCHANGED <<reclaimed, moved, pc>>
    BY <1>8 DEF Commit, PeerCheckpoint
  <2>. QED
    BY <1>0, <2>1 DEF ReportInv, Undisturbed
<1>9. CASE Connect \/ UseDisk \/ UNCHANGED vars
  <2>1. UNCHANGED <<quiet, seen, reclaimed, moved, initial, pages, free, pc>>
    BY <1>9 DEF Connect, UseDisk, vars
  <2>. QED
    BY <1>0, <2>1 DEF ReportInv, Undisturbed
<1>. QED
  BY <1>1, <1>2, <1>3, <1>4, <1>5, <1>6, <1>7, <1>8, <1>9, NextSteps DEF Incremental

-----------------------------------------------------------------------------
(* The invariant holds *)

(* The invariant holds when the command begins.                             *)
LEMMA CommandInit == Init => CommandInv
<1>. SUFFICES ASSUME Init PROVE CommandInv
  OBVIOUS
<1>. USE CommandAssumption
<1>1. DataTypes
  <2>1. pages \in 1 .. MaxPages /\ free \in 0 .. pages - 1 /\ file \in 1 .. MaxPages /\ space \in Nat
    BY DEF Init
  <2>2. wal \in 0 .. MaxWal
    BY <2>1 DEF Init
  <2>. QED
    BY <2>1, <2>2 DEF DataTypes
<1>2. ReportTypes /\ SeenTypes
  BY DEF Init, ReportTypes, SeenTypes
<1>3. ControlTypes
  <2>1. links \in BOOLEAN /\ autoVacuum \in BOOLEAN
    BY DEF Init
  <2>2. used \in 0 .. MaxUsed /\ asked \in 0 .. Attempts
    BY DEF Init
  <2>3. pc \in Steps /\ exit \in Exits /\ mode \in {"normal", "reclaim", "swap"}
    BY DEF Init, Steps, Exits
  <2>. QED
    BY <2>1, <2>2, <2>3 DEF Init, ControlTypes
<1>4. TypeOK
  BY <1>1, <1>2, <1>3, TypeParts
<1>5. PcInv /\ TouchInv /\ OutputInv
  BY DEF Init, PcInv, TouchInv, OutputInv, Looking, Rebuilding, UnderLock, Released
<1>6. SpaceInv
  BY DEF Init, SpaceInv, GateCoversRebuild, Undisturbed
<1>7. ReportInv
  BY DEF Init, ReportInv, Released
<1>. QED
  BY <1>4, <1>5, <1>6, <1>7 DEF CommandInv

(* Every step keeps it.                                                     *)
LEMMA CommandKept == CommandInv /\ [Next]_vars => CommandInv'
BY TypeKept, PcKept, TouchKept, OutputKept, SpaceKept, ReportKept DEF CommandInv

(* The inductive invariant, for any peers, sizes and bounds.                *)
THEOREM CommandAlways == Spec => []CommandInv
<1>. QED
  BY CommandInit, CommandKept, PTL DEF Spec

-----------------------------------------------------------------------------
(* What follows *)

(* The types of the variables.                                              *)
THEOREM CommandTypes == Spec => []TypeOK
<1>1. CommandInv => TypeOK
  BY DEF CommandInv
<1>. QED
  BY <1>1, CommandAlways, PTL

(* What the headroom gate has let pass does not run out of disk, but for    *)
(* what others do meanwhile (reclaim/headroom.rs evaluate_headroom).        *)
THEOREM CommandHasRoom == Spec => []GateCoversRebuild
<1>1. CommandInv => GateCoversRebuild
  BY DEF CommandInv, SpaceInv
<1>. QED
  BY <1>1, CommandAlways, PTL

(* The database is changed only when asked for, confirmed and not called    *)
(* off (safety/confirm.rs, reclaim/command.rs).                             *)
THEOREM CommandDoesNothingUnasked == Spec => []NothingUnasked
<1>1. CommandInv => NothingUnasked
  BY DEF CommandInv, TouchInv, Agreed, NothingUnasked
<1>. QED
  BY <1>1, CommandAlways, PTL

(* The report of an undisturbed run counts what the database lost           *)
(* (reclaim/incremental.rs).                                                *)
THEOREM CommandReportsExactly == Spec => []ReclaimedExact
<1>1. CommandInv => ReclaimedExact
  BY DEF CommandInv, ReportInv, ReclaimedExact, Undisturbed
<1>. QED
  BY <1>1, CommandAlways, PTL

(* What is swapped in lacks no commit made before the last look at the      *)
(* sidecars, though the lock is given up before it, and is the database of  *)
(* that moment if nobody committed behind it (reclaim/vacuum_into.rs).      *)
THEOREM CommandSwapsTheDatabase == Spec => SwapKeepsEverything
<1>. DEFINE Kept == Swap /\ pc' = "report" =>
                       "before" \notin missed /\ (missed = {} => output = Live)
<1>1. CommandInv => Kept
  BY DEF CommandInv, OutputInv, Swap, Released
<1>2. CommandInv /\ [Next]_vars => [Kept]_vars
  BY <1>1
<1>. QED
  BY <1>2, CommandAlways, PTL DEF Spec, SwapKeepsEverything

-----------------------------------------------------------------------------
(* The command comes to its end *)

(* How many steps lie between a step and the end, on the longest way, the   *)
(* repetitions of a question and of a batch aside.                          *)
Ahead == [inspect |-> 15, gate |-> 14, headroom |-> 13, open |-> 13, prompt |-> 12,
          reopen |-> 11, begin |-> 10, lock |-> 9, checkpoint |-> 8, build |-> 7, close |-> 6,
          enter |-> 5, check |-> 4, backup |-> 3, swap |-> 2, batches |-> 3, batch |-> 2,
          report |-> 1, ended |-> 0]

(* The repetitions that are left: attempts to answer, and pages of the      *)
(* freelist as the last batch found it.                                     *)
Repetitions == CASE pc = "prompt" -> Attempts - asked
                 [] pc = "batch"  -> remaining
                 [] OTHER         -> 0
WayLeft == <<Ahead[pc], Repetitions>>
Less(a, b) == a[1] < b[1] \/ (a[1] = b[1] /\ a[2] < b[2])

(* The steps that are ahead are a number.                                   *)
LEMMA AheadIsNumber == \A step \in Steps : Ahead[step] \in Nat
BY DEF Ahead, Steps

(* What is left of the way is two numbers.                                  *)
LEMMA WayIsCounted == CommandInv => WayLeft \in Nat \X Nat
<1>. SUFFICES ASSUME CommandInv PROVE WayLeft \in Nat \X Nat
  OBVIOUS
<1>1. Ahead[pc] \in Nat
  BY AheadIsNumber DEF CommandInv, TypeOK
<1>2. Repetitions \in Nat
  BY Types DEF CommandInv, Repetitions
<1>. QED
  BY <1>1, <1>2 DEF WayLeft

(* A step to a place further on the way is progress, whatever is repeated.  *)
LEMMA Onwards ==
    ASSUME NEW from, NEW to, pc = from, pc' = to, Ahead[to] < Ahead[from]
    PROVE  Less(WayLeft', WayLeft)
<1>1. WayLeft'[1] = Ahead[to] /\ WayLeft[1] = Ahead[from]
  BY DEF WayLeft
<1>. QED
  BY <1>1 DEF Less

(* The steps before the reclaim get on, or ask once more of a few times.    *)
LEMMA AskingGetsOn ==
    ASSUME CommandInv, Asking
    PROVE  Less(WayLeft', WayLeft)
<1>1. CASE Inspect
  <2>1. pc = "inspect" /\ pc' \in {"gate", "ended"}
    BY <1>1 DEF Inspect
  <2>. QED
    BY <2>1, Onwards DEF Ahead
<1>2. CASE PassHolders
  <2>1. pc = "gate" /\ pc' \in {"headroom", "open", "ended"}
    BY <1>2 DEF PassHolders
  <2>. QED
    BY <2>1, Onwards DEF Ahead
<1>3. CASE Headroom \/ OpenIncremental
  <2>1. pc \in {"headroom", "open"} /\ pc' \in {"prompt", "reopen", "batches", "ended"}
    BY <1>3 DEF Headroom, OpenIncremental, Confirm, Confirmed
  <2>. QED
    BY <2>1, Onwards DEF Ahead
<1>4. CASE Answer
  <2>1. /\ pc = "prompt" /\ (pc' = "prompt" => asked' = asked + 1)
        /\ pc' \in {"reopen", "batches", "ended"} \/ (pc' = "prompt" /\ asked + 1 < Attempts)
    BY <1>4 DEF Answer, Confirmed
  <2>2. CASE pc' \in {"reopen", "batches", "ended"}
    BY <2>1, <2>2, Onwards DEF Ahead
  <2>3. CASE pc' = "prompt" /\ asked + 1 < Attempts
    <3>1. Attempts - (asked + 1) < Attempts - asked
      BY Types DEF CommandInv
    <3>2. Repetitions' = Attempts - (asked + 1) /\ Repetitions = Attempts - asked
      BY <2>1, <2>3 DEF Repetitions
    <3>. QED
      BY <2>1, <2>3, <3>1, <3>2 DEF WayLeft, Less
  <2>. QED
    BY <2>1, <2>2, <2>3
<1>. QED
  BY <1>1, <1>2, <1>3, <1>4 DEF Asking

(* The rebuild has no repetitions.                                          *)
LEMMA RebuildGetsOn ==
    ASSUME Rebuild
    PROVE  Less(WayLeft', WayLeft)
<1>1. \/ pc = "reopen"     /\ pc' \in {"begin", "ended"}
      \/ pc = "begin"      /\ pc' \in {"lock", "ended"}
      \/ pc = "lock"       /\ pc' \in {"checkpoint", "ended"}
      \/ pc = "checkpoint" /\ pc' \in {"build", "ended"}
      \/ pc = "build"      /\ pc' \in {"close", "ended"}
      \/ pc = "close"      /\ pc' \in {"enter", "ended"}
      \/ pc = "enter"      /\ pc' \in {"check", "ended"}
      \/ pc = "check"      /\ pc' \in {"backup", "ended"}
      \/ pc = "backup"     /\ pc' \in {"swap", "ended"}
      \/ pc = "swap"       /\ pc' \in {"report", "ended"}
  BY DEF Rebuild, Reopen, BeginRebuild, AcquireLock, Checkpoint, Build, Close, Enter, CheckSource,
         Backup, Swap
<1>. QED
  BY <1>1, Onwards DEF Ahead

(* Another batch follows only when the freelist has become shorter.         *)
LEMMA IncrementalGetsOn ==
    ASSUME Incremental \/ Report
    PROVE  Less(WayLeft', WayLeft)
<1>1. CASE BeginBatches
  <2>1. pc = "batches" /\ pc' \in {"batch", "report"}
    BY <1>1 DEF BeginBatches
  <2>. QED
    BY <2>1, Onwards DEF Ahead
<1>2. CASE Batch
  <2>1. /\ pc = "batch"
        /\ \/ pc' \in {"report", "ended"}
           \/ pc' = "batch" /\ remaining' = free' /\ free' < remaining
    BY <1>2 DEF Batch, More
  <2>2. CASE pc' \in {"report", "ended"}
    BY <2>1, <2>2, Onwards DEF Ahead
  <2>3. CASE pc' = "batch" /\ remaining' = free' /\ free' < remaining
    BY <2>1, <2>3 DEF WayLeft, Less, Repetitions
  <2>. QED
    BY <2>1, <2>2, <2>3
<1>3. CASE Report
  <2>1. pc = "report" /\ pc' = "ended"
    BY <1>3 DEF Report
  <2>. QED
    BY <2>1, Onwards DEF Ahead
<1>. QED
  BY <1>1, <1>2, <1>3 DEF Incremental

(* A signal ends the command or leaves it where it is.                      *)
LEMMA SignalKeepsTheWay ==
    ASSUME CommandInv, Signal
    PROVE  WayLeft' = WayLeft \/ Less(WayLeft', WayLeft)
<1>1. pc # "ended" /\ pc' \in {pc, "ended"} /\ UNCHANGED <<asked, remaining>>
  BY DEF Signal
<1>2. CASE pc' = pc
  BY <1>1, <1>2 DEF WayLeft, Repetitions
<1>3. CASE pc' = "ended"
  <2>1. Ahead["ended"] < Ahead[pc]
    BY <1>1 DEF Ahead, Steps, CommandInv, TypeOK
  <2>. QED
    BY <1>3, <2>1, Onwards
<1>. QED
  BY <1>1, <1>2, <1>3

(* The command cannot go on for ever: each of its steps takes something off *)
(* two numbers (the steps ahead, and the attempts to answer or the pages    *)
(* that remain), and peers, who may free pages for ever, add nothing to     *)
(* them, for another batch needs a shorter freelist                         *)
(* (reclaim/incremental.rs).                                                *)
THEOREM WayRunsOut ==
    Spec => /\ [](WayLeft \in Nat \X Nat)
            /\ [][/\ Asking \/ Rebuild \/ Incremental \/ Report => Less(WayLeft', WayLeft)
                  /\ Connect \/ Commit \/ PeerCheckpoint \/ UseDisk => WayLeft' = WayLeft
                  /\ Signal => WayLeft' = WayLeft \/ Less(WayLeft', WayLeft)]_vars
<1>1. CommandInv => WayLeft \in Nat \X Nat
  BY WayIsCounted
<1>2. Connect \/ Commit \/ PeerCheckpoint \/ UseDisk => WayLeft' = WayLeft
  BY SurroundingSteps DEF WayLeft, Repetitions
<1>3. CommandInv /\ [Next]_vars =>
          [/\ Asking \/ Rebuild \/ Incremental \/ Report => Less(WayLeft', WayLeft)
           /\ Connect \/ Commit \/ PeerCheckpoint \/ UseDisk => WayLeft' = WayLeft
           /\ Signal => WayLeft' = WayLeft \/ Less(WayLeft', WayLeft)]_vars
  BY <1>2, AskingGetsOn, RebuildGetsOn, IncrementalGetsOn, SignalKeepsTheWay
<1>. QED
  BY <1>1, <1>3, CommandAlways, PTL DEF Spec
=============================================================================
