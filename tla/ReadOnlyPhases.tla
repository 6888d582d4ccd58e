---------------------------- MODULE ReadOnlyPhases ----------------------------
(***************************************************************************)
(* What `clean` and `doctor` do before anything else: they inspect the     *)
(* database in parallel jobs (clean/command.rs inspect_read_only_phases,   *)
(* doctor/command.rs), each of which finds the file through a cache of     *)
(* anchored files (db/mod.rs database_anchor), while one of them scans the *)
(* processes for holders of that file (safety/holders).  `clean` then      *)
(* opens the file for writing, with the cached anchor.                     *)
(*                                                                         *)
(* Around them the path may be bound to another file and other processes   *)
(* may open and close the files.  A place is a directory entry, `link` the *)
(* entry the command's path leads to, `at` the file found at each entry.   *)
(***************************************************************************)
EXTENDS ParallelGroup, HolderGate, Sequences

CONSTANTS
    Places,     \* directory entries the path may lead to
    Procs,      \* processes, Self among them
    Commands,   \* command lines, see Command
    MaxFiles    \* bound: files that ever exist

NoFile == 0
Files == 1 .. MaxFiles
Others == Procs \ {Self}

JobKinds == {"database", "holders", "auto_vacuum", "selectors",
             "integrity", "foreign_keys", "space"}
SqliteKinds == JobKinds \ {"holders", "selectors"}

(* kinds: the jobs in the order of their declaration; writes: whether the  *)
(* command opens the database for writing once its jobs have succeeded;    *)
(* destructive: whether holders make it refuse; selector: whether the      *)
(* command line has one; disturbances: bound on the steps of the           *)
(* surroundings during the command.                                         *)
Command == [kinds : UNION {[1 .. n -> JobKinds] : n \in Job}, writes : BOOLEAN,
            destructive : BOOLEAN, force : BOOLEAN, selector : BOOLEAN, disturbances : Nat]

ASSUME PhasesAssumption ==
    /\ Self \in Procs /\ IsFiniteSet(Procs)
    /\ Commands \subseteq Command
    /\ \A c \in Commands : \A i, j \in DOMAIN c.kinds : c.kinds[i] = c.kinds[j] => i = j
    /\ Outcomes = {"ok", "failed"} /\ Success = "ok"
    /\ IsFiniteSet(Places) /\ MaxFiles \in Nat /\ Cardinality(Places) \in 1 .. MaxFiles

Anchor == [place : Places, file : Files]
NoAnchor == [place |-> "none", file |-> NoFile]
NoReport == CannotDetermine("complete")

VARIABLES
    command,    \* the command line
    link, at,   \* the file system
    created,    \* files created so far; a file that went away does not return
    holds,      \* the file each other process has open
    opaque,     \* the processes whose descriptors may not be read
    retained,   \* the cached anchor of the path (DATABASE_ANCHORS)
    step,       \* where each job is
    anchor,     \* the anchor each job works with
    scan,       \* the progress of the holder scan
    decision,   \* what the holder gate decided
    main,       \* the command after its jobs
    opened,     \* the file it opened for writing
    steady,     \* history: processes whose file stayed open since the scan began
    disturbed   \* steps the surroundings made

world  == <<link, at, created, holds, opaque, disturbed>>
jobs   == <<retained, step, anchor, scan, decision>>
vars   == <<groupVars, command, world, jobs, main, opened, steady>>

Bound == at[link]
NoScan == [place |-> "none", todo |-> {}, found |-> {}, blind |-> FALSE]

TypeOK ==
    /\ GroupTypeOK
    /\ command \in Commands
    /\ link \in Places /\ at \in [Places -> Files \cup {NoFile}] /\ created \in Files
    /\ holds \in [Others -> Files \cup {NoFile}] /\ opaque \subseteq Others
    /\ retained \in Anchor \cup {NoAnchor}
    /\ step \in [Job -> {"start", "insert", "anchored", "unanchored", "scanning", "done"}]
    /\ anchor \in [Job -> Anchor \cup {NoAnchor}]
    /\ scan \in [place : Places \cup {"none"}, todo : SUBSET Procs, found : SUBSET Procs,
                 blind : BOOLEAN]
    /\ decision \in Decisions
    /\ main \in {"inspecting", "opening", "opened", "reported", "failed"}
    /\ opened \in Files \cup {NoFile}
    /\ steady \subseteq Others
    /\ disturbed \in 0 .. command.disturbances

Init ==
    /\ command \in Commands
    /\ GroupInit /\ size = Len(command.kinds)
    /\ link = CHOOSE p \in Places : TRUE
    /\ created = Cardinality(Places)      \* no two entries lead to the same file
    /\ at \in [Places -> 1 .. created] /\ at[link] = 1
    /\ \A p, q \in Places : at[p] = at[q] => p = q
    /\ holds \in [Others -> {NoFile} \cup {at[p] : p \in Places}]
    /\ opaque \in SUBSET Others
    /\ retained = NoAnchor
    /\ step = [j \in Job |-> "start"]
    /\ anchor = [j \in Job |-> NoAnchor]
    /\ scan = NoScan
    /\ decision = "proceed"
    /\ main = "inspecting" /\ opened = NoFile /\ steady = {}
    /\ disturbed = 0

-----------------------------------------------------------------------------
(* The anchor cache *)

Kind(j) == command.kinds[j]
At(j, where) == thread[j] = "running" /\ step[j] = where

End(j, outcome) == EndJob(j, outcome) /\ step' = [step EXCEPT ![j] = "done"]

GoTo(j, where) == step' = [step EXCEPT ![j] = where] /\ UNCHANGED groupVars

Holding(j, a, where) == anchor' = [anchor EXCEPT ![j] = a] /\ GoTo(j, where)

(* ensure_path_matches: the path leads to the anchored file still.          *)
Matches(a) == Bound = a.file

(* A job that cannot be anchored fails; only the holder scan goes on when   *)
(* the path leads nowhere, and refuses when the target has changed.         *)
Unanchored(j) ==
    /\ anchor' = [anchor EXCEPT ![j] = NoAnchor]
    /\ IF Kind(j) # "holders" THEN End(j, "failed") /\ UNCHANGED decision
       ELSE IF Bound = NoFile THEN GoTo(j, "unanchored") /\ UNCHANGED decision
       ELSE End(j, "ok") /\ decision' = "refuse_unknown"

(* database_anchor with AnchorRetention::Retain: the cached anchor if there *)
(* is one, else the file the path leads to now.                             *)
LookUp(j) ==
    /\ At(j, "start") /\ Kind(j) # "selectors"
    /\ CASE retained # NoAnchor /\ Matches(retained) ->
                Holding(j, retained, "anchored") /\ UNCHANGED decision
         [] retained = NoAnchor /\ Bound # NoFile ->
                Holding(j, [place |-> link, file |-> Bound], "insert") /\ UNCHANGED decision
         [] OTHER -> Unanchored(j)
    /\ UNCHANGED <<retained, scan, command, world, main, opened, steady>>

(* Mutant: the job goes on with the anchor it opened itself.                *)
InsertOwn(j) ==
    /\ At(j, "insert")
    /\ retained' = IF retained = NoAnchor THEN anchor[j] ELSE retained
    /\ Holding(j, anchor[j], "anchored") /\ UNCHANGED decision
    /\ UNCHANGED <<scan, command, world, main, opened, steady>>

(* ... which becomes the cached one unless another job was faster; the      *)
(* cached anchor must match, and stays when it does not.                    *)
Insert(j) ==
    /\ At(j, "insert")
    /\ retained' = IF retained = NoAnchor THEN anchor[j] ELSE retained
    /\ IF Matches(retained')
       THEN Holding(j, retained', "anchored") /\ UNCHANGED decision
       ELSE Unanchored(j)
    /\ UNCHANGED <<scan, command, world, main, opened, steady>>

-----------------------------------------------------------------------------
(* The jobs *)

(* A job on a read-only connection: SQLite opens the anchored file itself,  *)
(* whatever the path leads to by then.  The file may have been written      *)
(* meanwhile, the schema or the auto-vacuum mode may not fit.               *)
WorkOnAnchor(j, outcome) ==
    /\ At(j, "anchored") /\ Kind(j) \in SqliteKinds
    /\ outcome \in Outcomes
    /\ End(j, outcome)
    /\ UNCHANGED <<retained, anchor, scan, decision, command, world, main, opened, steady>>

ValidateSelectors(j) ==
    /\ At(j, "start") /\ Kind(j) = "selectors"
    /\ End(j, IF command.selector THEN "ok" ELSE "failed")
    /\ UNCHANGED <<retained, anchor, scan, decision, command, world, main, opened, steady>>

Panic(j) ==
    /\ thread[j] = "running"
    /\ End(j, "failed")
    /\ UNCHANGED <<retained, anchor, scan, decision, command, world, main, opened, steady>>

(* The gate's answer to a report (inspect_and_decide): with an anchor the   *)
(* path must lead to the anchored file still, else the command refuses,     *)
(* forced or not.                                                           *)
Decided(j, report) ==
    IF anchor[j] # NoAnchor /\ ~Matches(anchor[j]) THEN "refuse_unknown"
    ELSE Decide(report, command.destructive, command.force)

EndScan(j, report) ==
    /\ decision' = Decided(j, report)
    /\ End(j, "ok")
    /\ UNCHANGED <<retained, anchor, scan, command, world, main, opened, steady>>

(* Mutant: the command's path, whatever it leads to by now.                 *)
ScannedPlaceByPath(j) == link

(* The entry whose file the scan looks for.                                 *)
ScannedPlace(j) == IF anchor[j] = NoAnchor THEN link ELSE anchor[j].place

(* LinuxHolderInspector::inspect: the entry is resolved once, through the   *)
(* anchored directory when there is an anchor, and the processes are        *)
(* listed.                                                                  *)
StartScan(j) ==
    LET place == ScannedPlace(j)
    IN  /\ At(j, "anchored") \/ At(j, "unanchored")
        /\ Kind(j) = "holders"
        /\ at[place] # NoFile
        /\ scan' = [NoScan EXCEPT !.place = place, !.todo = Procs]
        /\ steady' = {p \in Others \ opaque : holds[p] # NoFile}
        /\ GoTo(j, "scanning")
        /\ UNCHANGED <<retained, anchor, decision, command, world, main, opened>>

CannotScan(j) ==
    LET place == ScannedPlace(j)
    IN  /\ At(j, "anchored") \/ At(j, "unanchored")
        /\ Kind(j) = "holders"
        /\ \E report \in (IF at[place] = NoFile THEN {CannotDetermine("unsupported")}
                                                ELSE RootErrors) : EndScan(j, report)

(* The anchor cannot be opened for a reason of its own                      *)
(* (holder_resolution_failure): nothing was scanned.                        *)
CannotAnchor(j) ==
    /\ At(j, "start") /\ Kind(j) = "holders" /\ retained = NoAnchor
    /\ EndScan(j, CannotDetermine("unsupported"))

(* A process is a holder when one of its descriptors is named as the entry  *)
(* is; the command finds itself.                                            *)
HasOpen(p) == IF p = Self THEN retained.file ELSE holds[p]

ScanProcess(j, p) ==
    /\ At(j, "scanning") /\ p \in scan.todo
    /\ scan' = [scan EXCEPT
           !.todo = @ \ {p},
           !.found = IF p \notin opaque /\ at[scan.place] # NoFile /\ HasOpen(p) = at[scan.place]
                     THEN @ \cup {p} ELSE @,
           !.blind = @ \/ p \in opaque]
    /\ UNCHANGED <<groupVars, retained, step, anchor, decision, command, world, main, opened, steady>>

FinishScan(j) ==
    /\ At(j, "scanning") /\ scan.todo = {}
    /\ EndScan(j, Scanned(scan.found, scan.blind))

-----------------------------------------------------------------------------
(* The caller, once its jobs are joined *)

(* Joined: the failures in the order of declaration; the decision of the    *)
(* gate counts as the holder job's for a command that writes.               *)
Joined(j) == result[j] = "ok" /\ ~(Kind(j) = "holders" /\ command.writes /\ Refuses(decision))

EndPhases ==
    /\ caller = "returned" /\ main = "inspecting"
    /\ main' = IF \E j \in 1 .. size : ~Joined(j) THEN "failed"
               ELSE IF command.writes THEN "opening" ELSE "reported"
    /\ UNCHANGED <<groupVars, command, world, jobs, opened, steady>>

(* open_read_write: the cached anchor is taken out of the cache and must    *)
(* match.                                                                   *)
OpenReadWrite ==
    /\ main = "opening"
    /\ retained' = NoAnchor
    /\ LET target == IF retained = NoAnchor THEN Bound ELSE retained.file
           opens_ == target # NoFile /\ Bound = target
       IN  /\ opened' = IF opens_ THEN target ELSE NoFile
           /\ main' = IF opens_ THEN "opened" ELSE "failed"
    /\ UNCHANGED <<groupVars, command, world, step, anchor, scan, decision, steady>>

-----------------------------------------------------------------------------
(* The surroundings, for as long as the command may still open the file *)

Disturb ==
    /\ main \in {"inspecting", "opening"} /\ \A j \in 1 .. size : Joined(j)
    /\ disturbed < command.disturbances /\ disturbed' = disturbed + 1
    /\ UNCHANGED <<groupVars, command, jobs, main, opened, opaque>>

Retarget == Disturb /\ link' \in Places \ {link} /\ UNCHANGED <<at, created, holds, steady>>

(* Another file takes the entry, by a rename over it or after a removal.    *)
Replace ==
    /\ Disturb
    /\ created < MaxFiles /\ created' = created + 1
    /\ \E p \in Places : at' = [at EXCEPT ![p] = created']
    /\ UNCHANGED <<link, holds, steady>>

Remove ==
    /\ Disturb
    /\ \E p \in Places : at[p] # NoFile /\ at' = [at EXCEPT ![p] = NoFile]
    /\ UNCHANGED <<link, created, holds, steady>>

OpenOrClose ==
    /\ Disturb
    /\ \E p \in Others :
           /\ holds' = [holds EXCEPT ![p] = IF @ = NoFile THEN Bound ELSE NoFile]
           /\ holds'[p] # holds[p]
           /\ steady' = steady \ {p}
    /\ UNCHANGED <<link, at, created>>

-----------------------------------------------------------------------------
unchangedOutsideGroup == <<command, world, jobs, main, opened, steady>>

JobStep(j) ==
    \/ LookUp(j) \/ Insert(j) \/ ValidateSelectors(j)
    \/ \E outcome \in Outcomes : WorkOnAnchor(j, outcome)
    \/ StartScan(j) \/ CannotScan(j) \/ CannotAnchor(j) \/ \E p \in Procs : ScanProcess(j, p)
    \/ FinishScan(j)
CallerStep == (Spawn \/ Join) /\ UNCHANGED unchangedOutsideGroup

Next ==
    \/ CallerStep
    \/ \E j \in Job : Acquire(j) /\ UNCHANGED unchangedOutsideGroup
    \/ \E j \in Job : SpuriousWake(j) /\ UNCHANGED unchangedOutsideGroup
    \/ \E j \in Job : JobStep(j)
    \/ \E j \in Job : Panic(j)
    \/ EndPhases \/ OpenReadWrite
    \/ Retarget \/ Replace \/ Remove \/ OpenOrClose

(* The threads are scheduled; nobody owes them a spurious wakeup, a panic   *)
(* or a quiet file system.                                                  *)
Fairness ==
    /\ WF_vars(CallerStep)
    /\ \A j \in Job : WF_vars((Acquire(j) /\ UNCHANGED unchangedOutsideGroup) \/ JobStep(j))
    /\ WF_vars(EndPhases \/ OpenReadWrite)

Spec == Init /\ [][Next]_vars /\ Fairness

-----------------------------------------------------------------------------
(* What it is for *)

(* All the jobs that succeeded inspected one and the same file, although    *)
(* each resolved the path for itself while it could be rebound, and it is   *)
(* the file the command then opens for writing (db/mod.rs database_anchor,  *)
(* AnchorRetention::Consume).                                               *)
OneFile ==
    LET inspected == {j \in Job : /\ anchor[j] # NoAnchor /\ step[j] # "insert"
                                  /\ result[j] = Success}
    IN  /\ \A j, k \in inspected : anchor[j] = anchor[k]
        /\ opened # NoFile =>
               \A j \in 1 .. size : Kind(j) \in SqliteKinds =>
                   j \in inspected /\ anchor[j].file = opened

(* A readable process that has had the opened file open since before the    *)
(* scan has made an unforced destructive command refuse, whatever happened  *)
(* to the path during the scan (safety/holders/mod.rs inspect_and_decide),  *)
(* unless the path led nowhere when the scan looked for its anchor: that    *)
(* scan follows the path and nothing is compared after it.                  *)
HolderNeverMissed ==
    /\ opened # NoFile /\ command.destructive /\ ~command.force
    /\ \A j \in 1 .. size : Kind(j) = "holders" => anchor[j] # NoAnchor
    => \A p \in steady : holds[p] # opened

(* The command always gets out of the group, panicking jobs included, and   *)
(* ends or opens the database (parallel.rs group and join).                 *)
GroupReturns == <>(main \in {"opened", "reported", "failed"})
=============================================================================
