------------------------------- MODULE Cleanup -------------------------------
(***************************************************************************)
(* The file cleanup of `clean`, after its deletions are committed          *)
(* (clean/cleanup.rs): the files of deleted sessions under the storage     *)
(* root (assets/storage.rs), the snapshot directories of projects          *)
(* (assets/snapshot.rs), and the traversal of directories by descriptor    *)
(* that both use (assets/traversal.rs).  One step is one system call, and  *)
(* between any two of them other processes may move a directory away, put  *)
(* a file or a symbolic link at a free name, or remove a file.  The        *)
(* database does not change meanwhile: clean holds its exclusive lock.     *)
(*                                                                         *)
(* A directory is an element of Dirs, `tree[d][n]` what its entry n is: a  *)
(* directory, a regular file, a symbolic link (to Outside) or nothing.     *)
(***************************************************************************)
EXTENDS Integers, FiniteSets, Sequences, SequencesExt

CONSTANTS
    Dirs,
    Order,              \* the names, in the order they are sorted in
    Storage, Snapshot,  \* the two roots
    Outside,            \* what symbolic links lead to
    Elsewhere,          \* where directories are moved to
    Trees,              \* the trees to start from
    Roots,              \* which roots may exist together
    SessionFiles,       \* names that are a session id with .json
    LiveSessions,       \* of them, those whose session is in the database
    DeletedSessions,    \* of them, those whose session this run deleted
    LiveProjects,       \* project ids in the database
    PrunedProjects,     \* project ids this run deleted
    Commands,           \* [orphans, gc: BOOLEAN]
    MaxFaults           \* bound: system calls that fail for a reason of their own

Names == ToSet(Order)
Entry == Dirs \cup {"file", "link", "none"}
NoName == "-"

(* A directory is at one entry at most, and the roots, what links lead to   *)
(* and where directories are moved to are apart from each other.            *)
Apart == {Storage, Snapshot, Outside, Elsewhere}
Forest(t) ==
    \A d, e \in Dirs, n, m \in Names :
        t[d][n] \in Dirs => t[d][n] \notin Apart /\ (t[e][m] = t[d][n] => e = d /\ m = n)

ASSUME CleanupAssumption ==
    /\ IsFiniteSet(Dirs) /\ Apart \subseteq Dirs /\ Cardinality(Apart) = 4
    /\ Dirs \cap {"file", "link", "none"} = {}
    /\ IsFiniteSet(Names) /\ NoName \notin Names
    /\ Trees \subseteq [Dirs -> [Names -> Entry]] /\ \A t \in Trees : Forest(t)
    /\ Commands \subseteq [orphans : BOOLEAN, gc : BOOLEAN] /\ MaxFaults \in Nat
    /\ Roots \subseteq SUBSET {Storage, Snapshot}
    /\ LiveSessions \cup DeletedSessions \subseteq SessionFiles
    /\ LiveSessions \cap DeletedSessions = {}
    /\ LiveProjects \cap PrunedProjects = {}
    /\ SessionFiles \cup LiveProjects \cup PrunedProjects \subseteq Names

VARIABLES
    command,
    tree,
    rooted,     \* which roots exist as directories
    phase,
    stack,      \* the open directories: [dir, name, todo], the root first
    pending,    \* an entry checked and not yet unlinked
    report,     \* the counts of the outcome: files and directories removed
    failures,   \* partial_failures: paths, and phases that stopped
    counted,    \* the counts in the report of the phase (SweepReport, RemovalReport)
    noted,      \* the paths that this report names as failed
    faults,     \* system calls that failed for a reason of their own
    compacted,  \* directories git gc ran in
    first,      \* history: the tree at the beginning
    quiet       \* history: no other process has touched the tree

outcome == <<report, failures>>
account == <<counted, noted>>
vars == <<command, tree, rooted, phase, stack, pending, outcome, account, faults, compacted,
          first, quiet>>

Phases == {"sweep", "prune", "orphans", "sweep_all", "gc", "over"}
Counts == {"files", "dirs"}
Nothing == [c \in Counts |-> 0]
Frame(dir, name, todo) == [dir |-> dir, name |-> name, todo |-> todo]

(* No directory is open twice, whatever links and moves there are: the      *)
(* traversal goes no deeper than there are directories.                     *)
TypeOK ==
    /\ command \in Commands
    /\ tree \in [Dirs -> [Names -> Entry]]
    /\ rooted \in Roots
    /\ phase \in Phases
    /\ stack \in Seq([dir : Dirs, name : Names \cup {NoName}, todo : SUBSET Names])
    /\ \A i, j \in 1 .. Len(stack) : stack[i].dir = stack[j].dir => i = j
    /\ pending \in Names \cup {NoName}
    /\ report \in [Counts -> Nat] /\ counted \in [Counts -> Nat]
    /\ failures \subseteq (Phases \cup Dirs) \X (Names \cup {NoName})
    /\ noted \subseteq Dirs \X (Names \cup {NoName})
    /\ faults \in 0 .. MaxFaults /\ compacted \subseteq Dirs
    /\ first \in Trees /\ quiet \in BOOLEAN

Init ==
    /\ command \in Commands
    /\ tree \in Trees /\ first = tree
    /\ rooted \in Roots
    /\ phase = "sweep" /\ stack = <<>> /\ pending = NoName
    /\ report = Nothing /\ failures = {} /\ counted = Nothing /\ noted = {}
    /\ faults = 0 /\ compacted = {} /\ quiet = TRUE

-----------------------------------------------------------------------------
(* Directories by descriptor *)

Top == Last(stack)
Depth == Len(stack)
Sweeping == phase \in {"sweep", "sweep_all"}
Removing == phase \in {"prune", "orphans"}

(* The name an open directory goes on with, if any.                         *)
Position(n) == CHOOSE i \in DOMAIN Order : Order[i] = n
Foremost == {n \in Top.todo : \A m \in Top.todo : Position(n) <= Position(m)}

Listing(dir) == {n \in Names : tree[dir][n] # "none"}

(* Mutant: the last component of the path is followed.                      *)
OpenChildFollowing(dir, name) ==
    CASE tree[dir][name] \in Dirs -> tree[dir][name]
      [] tree[dir][name] = "link" -> Outside
      [] OTHER -> "none"

(* open_child: O_DIRECTORY | O_NOFOLLOW.                                    *)
OpenChild(dir, name) == IF tree[dir][name] \in Dirs THEN tree[dir][name] ELSE "none"

Count(what) == counted' = [counted EXCEPT ![what] = @ + 1]
Failure(what) == noted' = noted \cup {what}

(* The stack without name n in what its top has to do still, and with a     *)
(* directory opened on top of it.                                           *)
Without(n) == [stack EXCEPT ![Depth].todo = @ \ {n}]
Pushed(n, dir) == Append(Without(n), Frame(dir, n, Listing(dir)))
Popped == Front(stack)

PhaseAfter ==
    CASE phase = "sweep"     -> "prune"
      [] phase = "prune"     -> IF command.orphans THEN "orphans"
                                ELSE IF command.gc THEN "gc" ELSE "over"
      [] phase = "orphans"   -> "sweep_all"
      [] phase = "sweep_all" -> IF command.gc THEN "gc" ELSE "over"
      [] OTHER               -> "over"

EndPhase ==
    /\ phase' = PhaseAfter /\ stack' = <<>> /\ pending' = NoName
    /\ counted' = Nothing /\ noted' = {}

(* record_sweep, record_removal: what the phase reports goes to the outcome.*)
Completes ==
    /\ EndPhase
    /\ report' = [c \in Counts |-> report[c] + counted[c]]
    /\ failures' = failures \cup noted

Call == UNCHANGED <<command, rooted, first, quiet>>
InPhase == Call /\ UNCHANGED outcome
Work == InPhase /\ UNCHANGED faults

(* A call that could have succeeded fails all the same.                     *)
Fault(could) == IF could THEN faults < MaxFaults /\ faults' = faults + 1 ELSE UNCHANGED faults

(* AnchoredDir::open of the root and the names to go through: those it      *)
(* lists, or the projects the phase is about.  A root that is not there, or *)
(* is a symbolic link, has nothing to do.                                   *)
OpenRoot ==
    /\ phase # "over" /\ stack = <<>>
    /\ LET root == IF Sweeping THEN Storage ELSE Snapshot
           todo == CASE phase = "prune" -> PrunedProjects
                     [] phase = "gc"    -> LiveProjects
                     [] OTHER           -> Listing(root)
       IN  IF root \in rooted
           THEN /\ stack' = <<Frame(root, NoName, todo)>>
                /\ UNCHANGED <<phase, pending, outcome, account>>
           ELSE Completes
    /\ Call /\ UNCHANGED <<tree, faults, compacted>>

(* git gc is not asked for what is not installed.                           *)
GitUnavailable ==
    /\ phase = "gc" /\ stack = <<>>
    /\ Completes
    /\ Call /\ UNCHANGED <<tree, faults, compacted>>

PhaseFailsSilently ==       \* mutant: the error of a phase is forgotten
    /\ phase # "over" /\ pending = NoName
    /\ Removing => Depth <= 1
    /\ EndPhase /\ UNCHANGED outcome
    /\ Fault(TRUE)
    /\ Call /\ UNCHANGED <<tree, compacted>>

(* A directory that cannot be read or a query that fails ends the phase;    *)
(* its report is lost, and the outcome has the error in its place.          *)
PhaseFails ==
    /\ phase # "over" /\ pending = NoName
    /\ Removing => Depth <= 1
    /\ EndPhase /\ failures' = failures \cup {<<phase, NoName>>} /\ UNCHANGED report
    /\ Fault(TRUE)
    /\ Call /\ UNCHANGED <<tree, compacted>>

(* A directory is done.                                                     *)
CloseDirectory ==
    /\ stack # <<>> /\ Top.todo = {} /\ pending = NoName
    /\ \/ Depth = 1 /\ Completes
       \/ /\ Depth > 1 /\ ~Removing
          /\ phase = "gc" => Depth = 2
          /\ stack' = Popped /\ UNCHANGED <<phase, pending, outcome, account>>
    /\ Call /\ UNCHANGED <<tree, faults, compacted>>

-----------------------------------------------------------------------------
(* Storage files: sweep_with_progress *)

OpenBucket ==
    /\ Sweeping /\ Depth = 1
    /\ \E n \in Foremost :
           LET dir == OpenChild(Top.dir, n)
           IN  stack' = IF dir = "none" THEN Without(n) ELSE Pushed(n, dir)
    /\ Work /\ UNCHANGED <<tree, phase, pending, account, compacted>>

InScope(n) == phase = "sweep" => n \in DeletedSessions

(* Mutant: the session is not looked up again.                              *)
CheckFileInScope ==
    /\ Sweeping /\ Depth = 2 /\ pending = NoName
    /\ \E n \in Foremost :
           IF tree[Top.dir][n] = "file" /\ n \in SessionFiles /\ InScope(n)
           THEN pending' = n /\ UNCHANGED stack
           ELSE stack' = Without(n) /\ UNCHANGED pending
    /\ Work /\ UNCHANGED <<tree, phase, account, compacted>>

(* A regular file with the name of a session that is in the scope: looked   *)
(* up in the database immediately before it is unlinked.                    *)
CheckFile ==
    /\ Sweeping /\ Depth = 2 /\ pending = NoName
    /\ \E n \in Foremost :
           IF /\ tree[Top.dir][n] = "file"
              /\ n \in SessionFiles /\ InScope(n)
              /\ n \notin LiveSessions
           THEN pending' = n /\ UNCHANGED stack
           ELSE stack' = Without(n) /\ UNCHANGED pending
    /\ Work /\ UNCHANGED <<tree, phase, account, compacted>>

Unlinkable(n) == tree[Top.dir][n] \in {"file", "link"}
Unlinked(dir, n) == [tree EXCEPT ![dir][n] = "none"]

UnlinkFile ==
    /\ Sweeping /\ pending # NoName
    /\ \/ /\ Unlinkable(pending)
          /\ tree' = Unlinked(Top.dir, pending) /\ Count("files") /\ UNCHANGED <<noted, faults>>
       \/ /\ Failure(<<Top.dir, pending>>) /\ Fault(Unlinkable(pending))
          /\ UNCHANGED <<tree, counted>>
    /\ stack' = Without(pending) /\ pending' = NoName
    /\ InPhase /\ UNCHANGED <<phase, compacted>>

-----------------------------------------------------------------------------
(* Snapshot directories: remove_pruned, remove_orphaned *)

(* open_candidate, and the project looked up for an orphan.                 *)
OpenCandidate ==
    /\ Removing /\ Depth = 1
    /\ \E n \in Foremost :
           LET dir == OpenChild(Top.dir, n)
               kept == phase = "orphans" /\ n \in LiveProjects
           IN  stack' = IF dir = "none" \/ kept THEN Without(n) ELSE Pushed(n, dir)
    /\ Work /\ UNCHANGED <<tree, phase, pending, account, compacted>>

(* remove_contents: a directory is entered, anything else unlinked next.    *)
Descend ==
    /\ Removing /\ Depth > 1 /\ pending = NoName
    /\ \E n \in Foremost :
           LET dir == OpenChild(Top.dir, n)
           IN  IF dir = "none" THEN pending' = n /\ UNCHANGED stack
                               ELSE stack' = Pushed(n, dir) /\ UNCHANGED pending
    /\ Work /\ UNCHANGED <<tree, phase, account, compacted>>

(* An error anywhere below a candidate ends its removal.                    *)
Abort ==
    /\ Failure(<<stack[1].dir, stack[2].name>>)
    /\ stack' = <<stack[1]>> /\ pending' = NoName
    /\ UNCHANGED <<tree, counted>>

UnlinkEntry ==
    /\ Removing /\ pending # NoName
    /\ \/ /\ tree[Top.dir][pending] \notin Dirs     \* gone is as good as unlinked
          /\ tree' = Unlinked(Top.dir, pending)
          /\ stack' = Without(pending) /\ pending' = NoName
          /\ UNCHANGED <<account, faults>>
       \/ Abort /\ Fault(tree[Top.dir][pending] \notin Dirs)
    /\ InPhase /\ UNCHANGED <<phase, compacted>>

Removable(dir, n) == OpenChild(dir, n) # "none" /\ Listing(OpenChild(dir, n)) = {}

(* Mutant: a directory that cannot be removed is passed over.               *)
RemoveDirectoryQuietly ==
    /\ Removing /\ Depth > 1 /\ Top.todo = {} /\ pending = NoName
    /\ LET parent == stack[Depth - 1].dir
       IN  \/ /\ Removable(parent, Top.name)
              /\ tree' = Unlinked(parent, Top.name)
              /\ IF Depth = 2 THEN Count("dirs") ELSE UNCHANGED counted
           \/ ~Removable(parent, Top.name) /\ UNCHANGED <<tree, counted>>
    /\ stack' = Popped
    /\ Work /\ UNCHANGED <<phase, pending, noted, compacted>>

(* Mutant: a directory that is not empty is listed again.                   *)
RemoveDirectoryAgain ==
    /\ Removing /\ Depth > 1 /\ Top.todo = {} /\ pending = NoName
    /\ LET parent == stack[Depth - 1].dir
       IN  IF Removable(parent, Top.name)
           THEN /\ tree' = Unlinked(parent, Top.name)
                /\ stack' = Popped
                /\ IF Depth = 2 THEN Count("dirs") ELSE UNCHANGED counted
           ELSE /\ stack' = [stack EXCEPT ![Depth].todo = Listing(Top.dir)]
                /\ UNCHANGED <<tree, counted>>
    /\ Work /\ UNCHANGED <<phase, pending, noted, compacted>>

(* The emptied directory goes by its name, if that is an empty directory.   *)
RemoveDirectory ==
    /\ Removing /\ Depth > 1 /\ Top.todo = {} /\ pending = NoName
    /\ LET parent == stack[Depth - 1].dir
       IN  \/ /\ Removable(parent, Top.name)
              /\ tree' = Unlinked(parent, Top.name)
              /\ stack' = Popped
              /\ IF Depth = 2 THEN Count("dirs") ELSE UNCHANGED counted
              /\ UNCHANGED <<pending, noted, faults>>
           \/ Abort /\ Fault(Removable(parent, Top.name))
    /\ InPhase /\ UNCHANGED <<phase, compacted>>

-----------------------------------------------------------------------------
(* git gc: gc_retained_with_progress *)

OpenProject ==
    /\ phase = "gc" /\ Depth = 1
    /\ \E n \in Foremost :
           LET dir == OpenChild(Top.dir, n)
               deleting == n \in PrunedProjects
           IN  stack' = IF dir = "none" \/ deleting THEN Without(n) ELSE Pushed(n, dir)
    /\ Work /\ UNCHANGED <<tree, phase, pending, account, compacted>>

OpenRepository ==
    /\ phase = "gc" /\ Depth = 2
    /\ \E n \in Foremost :
           LET dir == OpenChild(Top.dir, n)
           IN  stack' = IF dir = "none" THEN Without(n) ELSE Pushed(n, dir)
    /\ Work /\ UNCHANGED <<tree, phase, pending, account, compacted>>

(* compact_repository: git runs in the open directory, wherever it is.      *)
CompactRepository ==
    /\ phase = "gc" /\ Depth = 3
    /\ \/ compacted' = compacted \cup {Top.dir} /\ UNCHANGED <<noted, faults>>
       \/ Failure(<<stack[2].dir, Top.name>>) /\ Fault(TRUE) /\ UNCHANGED compacted
    /\ stack' = Popped
    /\ InPhase /\ UNCHANGED <<tree, phase, pending, counted>>

-----------------------------------------------------------------------------
(* Other processes *)

Others == quiet' = FALSE /\ UNCHANGED <<command, rooted, phase, stack, pending, outcome,
                                        account, faults, compacted, first>>

Buckets == {first[Storage][n] : n \in Names} \cap Dirs

(* They touch the tree of the root in use; what they do to the other one    *)
(* may as well happen when its turn comes.                                  *)
InUse == IF Sweeping THEN {Storage} \cup Buckets
                     ELSE Dirs \ {Storage, Outside, Elsewhere}
Named(d) == {n \in Names : first[d][n] # "none"}

MoveAway ==
    /\ \E d \in InUse : \E n \in Named(d) :
           /\ tree[d][n] \in Dirs /\ tree[Elsewhere][n] = "none"
           /\ tree' = [tree EXCEPT ![Elsewhere][n] = tree[d][n], ![d][n] = "none"]
    /\ Others

(* A file, or a link to a directory, at a name of its own kind.             *)
Put ==
    /\ \E d \in InUse : \E n \in Named(d), what \in {"file", "link"} :
           /\ tree[d][n] = "none"
           /\ first[d][n] \in (IF what = "file" THEN {"file"} ELSE Dirs)
           /\ tree' = [tree EXCEPT ![d][n] = what]
    /\ Others

Unlink ==
    /\ \E d \in InUse : \E n \in Named(d) :
           tree[d][n] = "file" /\ tree' = Unlinked(d, n)
    /\ Others

Sweep   == OpenBucket \/ CheckFile \/ UnlinkFile
Removal == OpenCandidate \/ Descend \/ UnlinkEntry \/ RemoveDirectory
Compact == GitUnavailable \/ OpenProject \/ OpenRepository \/ CompactRepository
CleanupStep == OpenRoot \/ CloseDirectory \/ PhaseFails \/ Sweep \/ Removal \/ Compact
Disturb == phase # "over" /\ (MoveAway \/ Put \/ Unlink)
Next == CleanupStep \/ Disturb

Spec == Init /\ [][Next]_vars /\ WF_vars(CleanupStep)

-----------------------------------------------------------------------------
(* What it is for *)

(* The directories under a name of a snapshot root, at the beginning.       *)
Below(n) ==
    LET project == first[Snapshot][n]
    IN  IF project \notin Dirs THEN {}
        ELSE {project} \cup ({first[project][m] : m \in Names} \cap Dirs)

Protected == {Outside} \cup UNION {Below(n) : n \in LiveProjects}

(* Whatever is moved or linked while it works, the cleanup (whose steps all *)
(* move its own position) removes nothing from what symbolic links lead to, *)
(* nothing from the snapshots of a project in the database and no file of a *)
(* session in the database (assets/traversal.rs; storage.rs                 *)
(* "re-validating"), and git gc runs in repositories of projects in the     *)
(* database only (snapshot.rs gc_retained_with_progress).                   *)
OnlyDeadRemoved ==
    [][<<phase, stack, pending>>' # <<phase, stack, pending>> =>
          /\ \A d \in Protected : tree'[d] = tree[d]
          /\ \A d \in Buckets, n \in LiveSessions : tree'[d][n] = tree[d][n]
          /\ compacted' \subseteq UNION {Below(n) : n \in LiveProjects}]_vars

(* A project directory that should have gone and is still in its place at   *)
(* the end is named in the report, or its whole phase is, although others   *)
(* may have refilled it while it was emptied (cleanup.rs record_removal).   *)
Doomed == PrunedProjects \cup (IF command.orphans THEN Names \ LiveProjects ELSE {})
LeftoversReported ==
    phase = "over" /\ Snapshot \in rooted =>
        \A n \in Doomed :
            tree[Snapshot][n] \in Dirs =>
                \/ <<Snapshot, n>> \in failures
                \/ <<IF n \in PrunedProjects THEN "prune" ELSE "orphans", NoName>> \in failures

(* No snapshot directory is ever counted that has not gone from its place, *)
(* and without interference the counts, those of the phase that is running  *)
(* included, are what the tree has lost - but for what a phase removed that *)
(* stopped before its end, whose report is dropped: then the outcome names  *)
(* that phase, and the counts are too small, never too large                *)
(* (clean/cleanup.rs CleanupOutcome, the Err arms).                         *)
Lost(d) == {n \in Names : first[d][n] # tree[d][n]}
FilesLost == UNION {{d} \X Lost(d) : d \in Buckets}
Total(what) == report[what] + counted[what]
Stopped(phases) == \E p \in phases : <<p, NoName>> \in failures
CountsExact ==
    /\ Total("dirs") <= Cardinality(Lost(Snapshot))
    /\ quiet =>
          /\ Total("files") <= Cardinality(FilesLost)
          /\ Stopped({"sweep", "sweep_all"}) \/ Total("files") = Cardinality(FilesLost)
          /\ Stopped({"prune", "orphans"}) \/ Total("dirs") = Cardinality(Lost(Snapshot))

(* The cleanup ends, also when others refill directories for ever: every    *)
(* directory is listed once (traversal.rs entries, remove_contents).        *)
CleanupEnds == <>(phase = "over")
=============================================================================
