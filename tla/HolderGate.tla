------------------------------ MODULE HolderGate ------------------------------
(***************************************************************************)
(* What a scan for processes that hold the database finds, and what the    *)
(* command makes of it (safety/holders).  A report of the scan is a        *)
(*                                                                         *)
(*   [verdict      |-> "held", "not_held" or "cannot_determine",           *)
(*    holders      |-> the processes seen with the file open,              *)
(*    completeness |-> "complete", "partial" or "unsupported"]             *)
(***************************************************************************)
EXTENDS Integers, FiniteSets

CONSTANT Self   \* the process id of the running command

Completenesses == {"complete", "partial", "unsupported"}
Decisions == {"proceed", "warn", "refuse_held", "refuse_unknown"}

Inspection(verdict, holders, completeness) ==
    [verdict |-> verdict, holders |-> holders, completeness |-> completeness]

CannotDetermine(completeness) == Inspection("cannot_determine", {}, completeness)

(* The end of LinuxHolderInspector::inspect: matches were found in the      *)
(* processes that could be read, `partial` tells whether some could not.    *)
Scanned(matches, partial) ==
    IF matches # {}
    THEN Inspection("held", matches, IF partial THEN "partial" ELSE "complete")
    ELSE IF partial THEN CannotDetermine("partial")
         ELSE Inspection("not_held", {}, "complete")

(* The process list itself cannot be read: root_error_inspection.           *)
RootErrors == {CannotDetermine("partial"), CannotDetermine("unsupported")}

(* WindowsHolderInspector: the restart manager lists every holder, or a call *)
(* of it fails, or its list keeps growing.                                  *)
RestartManagerReports(holders) == {Scanned(holders, FALSE), CannotDetermine("partial")}

(* MacosHolderInspector: the holders among the visible processes are found  *)
(* by path; what is partial is known from another walk over them.           *)
LibprocReports(holders) ==
    {Scanned(found, TRUE) : found \in {{}, holders}}
      \cup {Scanned(holders, FALSE), CannotDetermine("unsupported")}

(* decide, its first half: the command's own descriptors do not count.      *)
WithoutSelf(inspection) ==
    LET others == inspection.holders \ {Self}
    IN  IF inspection.verdict # "held" THEN inspection
        ELSE IF others # {} THEN [inspection EXCEPT !.holders = others]
        ELSE IF inspection.completeness = "complete"
             THEN Inspection("not_held", {}, "complete")
             ELSE CannotDetermine(inspection.completeness)

BlocksDestructiveWork(completeness) == completeness = "unsupported"

(* decide, its second half                                                  *)
Decide(scan, destructive, force) ==
    LET inspection == WithoutSelf(scan)
        strict == destructive /\ ~force
    IN  CASE inspection.verdict = "not_held" -> "proceed"
          [] inspection.verdict = "held" /\ strict -> "refuse_held"
          [] /\ inspection.verdict = "cannot_determine"
             /\ strict /\ BlocksDestructiveWork(inspection.completeness) -> "refuse_unknown"
          [] OTHER -> "warn"

(* GateDecision::into_result                                                *)
Refuses(decision) == decision \in {"refuse_held", "refuse_unknown"}
=============================================================================
