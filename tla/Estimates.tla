------------------------------ MODULE Estimates ------------------------------
(***************************************************************************)
(* The arithmetic of the safety gates: how much free space a rebuild is    *)
(* required to have (reclaim/headroom.rs, clean/reclaim.rs) and when a     *)
(* selection is large enough to be confirmed twice (safety/confirm.rs).    *)
(* Byte counts are unsigned words; MaxWord is the largest of them.         *)
(***************************************************************************)
EXTENDS Integers

CONSTANT MaxWord

ASSUME WordAssumption == MaxWord \in Nat \ {0}

Word == 0 .. MaxWord
Overflow == -1      \* the error of a checked operation

SaturatingAdd(a, b) == IF a + b <= MaxWord THEN a + b ELSE MaxWord
SaturatingSub(a, b) == IF b <= a THEN a - b ELSE 0
SaturatingMul(a, b) == IF a * b <= MaxWord THEN a * b ELSE MaxWord
Lesser(a, b)  == IF a <= b THEN a ELSE b
Checked(a)    == IF a <= MaxWord THEN a ELSE Overflow

-----------------------------------------------------------------------------
(* Headroom *)

(* MarginFraction::DEFAULT of the projected bytes, rounded up.              *)
Margin(projected) == (projected + 9) \div 10

Projected(live, selected) == SaturatingSub(live, selected)

BackupCopyForgotten(fullSize, noCopy) == 0      \* mutant: a link is taken for granted

BackupCopy(fullSize, noCopy) == IF noCopy THEN 0 ELSE fullSize

(* evaluate_headroom: the bytes required, or Overflow.                      *)
Required(live, selected, fullSize, walAllowance, noCopy) ==
    LET projected == Projected(live, selected)
    IN  Checked(projected + BackupCopy(fullSize, noCopy) + walAllowance + Margin(projected))

Sufficient(available, required) == required # Overflow /\ available >= required

(* vacuum: the live bytes, the length of the main file, no WAL allowance.   *)
VacuumRequired(live, fileLength, noCopy) == Required(live, 0, fileLength, 0, noCopy)

WalHeaderBytes == 32
WalFrameHeaderBytes == 24
WalDirtyPagesPerSession == 64
DefaultBatchSize == 2500

OneBatchWalAllowance(selectedBytes, selectedCount, pageSize) ==
    LET frame == SaturatingAdd(pageSize, WalFrameHeaderBytes)
        structural == SaturatingMul(
            SaturatingMul(Lesser(selectedCount, DefaultBatchSize), WalDirtyPagesPerSession), frame)
    IN  SaturatingAdd(SaturatingAdd(SaturatingAdd(WalHeaderBytes, frame), selectedBytes), structural)

(* clean, before the deletion and after it: all pages of the database       *)
(* count for the copy.                                                      *)
PreDeleteRequired(live, selectedBytes, selectedCount, pages, pageSize, noCopy) ==
    Required(live, selectedBytes, pages * pageSize,
             OneBatchWalAllowance(selectedBytes, selectedCount, pageSize), noCopy)

PostDeleteRequired(live, pages, pageSize, noCopy) ==
    Required(live, 0, pages * pageSize, pageSize, noCopy)

-----------------------------------------------------------------------------
(* Confirmation *)

WarrantsEscalation(selected, total) ==
    /\ total > 0 /\ selected > 0
    /\ SaturatingMul(selected, 2) >= SaturatingMul(total, 1)
=============================================================================
