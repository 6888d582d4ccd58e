---------------------------- MODULE RebuildContract ----------------------------
(***************************************************************************)
(* What a full rebuild promises about the database file, without saying    *)
(* how: the file goes from the original to output that is not yet          *)
(* verified, and from there to verified output or back to the original.    *)
(* A protected run never installs output before a recovery backup exists   *)
(* and keeps it until the output is verified or the original restored.     *)
(* A run that says it refused has left, or brought back, the original.     *)
(***************************************************************************)
VARIABLES
    file,       \* what the canonical path holds
    backup,     \* a whole copy of the original exists beside it
    protected,  \* the run can make a backup and was not told to do without
    verdict     \* how the run ended

vars == <<file, backup, protected, verdict>>

TypeOK ==
    /\ file \in {"original", "unverified", "verified", "restored"}
    /\ backup \in BOOLEAN
    /\ protected \in BOOLEAN
    /\ verdict \in {"open", "ok", "refused", "failed", "fatal", "killed"}

Init ==
    /\ file = "original"
    /\ backup = FALSE
    /\ protected \in BOOLEAN
    /\ verdict = "open"

(* Before the installation nothing depends on the backup.                   *)
Prepare ==
    /\ file = "original"
    /\ backup' \in BOOLEAN
    /\ UNCHANGED <<file, protected, verdict>>

Install ==
    /\ verdict = "open" /\ file = "original"
    /\ protected => backup
    /\ file' = "unverified"
    /\ UNCHANGED <<backup, protected, verdict>>

Accept ==
    /\ verdict = "open" /\ file = "unverified"
    /\ file' = "verified"
    /\ UNCHANGED <<backup, protected, verdict>>

Restore ==
    /\ verdict = "open" /\ file = "unverified" /\ backup
    /\ file' = "restored"
    /\ UNCHANGED <<backup, protected, verdict>>

(* The run ends; only the content it vouches for lets the backup go.        *)
End ==
    /\ verdict = "open"
    /\ \/ verdict' = "ok"      /\ file = "verified"
       \/ verdict' = "refused" /\ file \in {"original", "restored"}
       \/ verdict' = "failed"  /\ file # "restored"
       \/ verdict' = "fatal"   /\ file # "verified"
    /\ backup' \in IF file = "unverified" THEN {backup} ELSE {backup, FALSE}
    /\ UNCHANGED <<file, protected>>

Kill ==
    /\ verdict # "killed" /\ verdict' = "killed"
    /\ UNCHANGED <<file, backup, protected>>

Next == Prepare \/ Install \/ Accept \/ Restore \/ End \/ Kill

Spec == Init /\ [][Next]_vars
FairSpec == Spec /\ WF_vars(End \/ Kill)

=============================================================================
