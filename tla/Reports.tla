------------------------------- MODULE Reports -------------------------------
(***************************************************************************)
(* `analyze` and `doctor` on a database that others keep writing           *)
(* (report/command.rs, doctor/command.rs and analyze/*.rs).  They hold no  *)
(* lock and no transaction of their own: every statement reads what is     *)
(* committed when it runs, and every directory is read when its turn       *)
(* comes, so that a commit, a new file or a removal falls between any two  *)
(* of their steps.  The independent checks of doctor are in                *)
(* ReadOnlyPhases; here they are a step with an outcome.                    *)
(*                                                                         *)
(* The database is that of Selection.  A session has Bytes of payload in   *)
(* the tables that attribution adds up.                                     *)
(***************************************************************************)
EXTENDS Integers, Selection, SequencesExt

CONSTANTS
    Commands,       \* [name, force, dbstat, octetLength], see Command
    Databases,      \* databases to start from
    Layouts,        \* and the files beside them: [files, snapshots, full]
    Plausible,      \* time stamps that look like milliseconds of this century
    Schemas,        \* what a schema has that it may not, or lacks: subsets of SchemaFacts
    Bytes,          \* payload of each session
    Top,            \* --top
    Boundaries,     \* the time stamps of the age buckets, the youngest first
    MaxWrites       \* bound: what others do during the command

(* What schema::inspect_report sees, by what the tiers tell apart: the       *)
(* tables and columns that must be there, those that it does not know, and  *)
(* what hangs on the tables that rows are deleted from.                     *)
RequirementFacts == {"no_table", "no_column", "other_affinity"}
ExtensionFacts == {"more_tables", "more_columns", "more_indexes", "drizzle_migrations"}
TargetFacts == {"foreign_key_to_target", "trigger_on_target", "view_of_target"}
OtherFacts == {"foreign_key_to_another", "view_of_another"}
SchemaFacts == RequirementFacts \cup ExtensionFacts \cup TargetFacts \cup OtherFacts

Command == [name : {"standard", "detailed", "doctor"}, force : BOOLEAN,
            dbstat : BOOLEAN, octetLength : BOOLEAN]

ASSUME ReportsAssumption ==
    /\ Commands \subseteq Command
    /\ Databases \subseteq Database
    /\ Layouts \subseteq [files : SUBSET Ids, snapshots : SUBSET Projects, full : SUBSET Projects]
    /\ Schemas \subseteq SUBSET SchemaFacts
    /\ Bytes \in [Ids -> Nat] /\ Top \in Nat
    /\ Boundaries \in Seq(Int)
    /\ \A i, j \in DOMAIN Boundaries : i < j => Boundaries[i] > Boundaries[j]

VARIABLES
    command, schema,
    db,             \* the committed database
    files,          \* storage files, each named by a session id
    snapshots,      \* snapshot directories, each named by a project id
    full,           \* of them, those with a file in it
    phase, failure,
    sound,          \* doctor: what the integrity and foreign key checks said
    todo,           \* what the phase has listed and not yet looked at
    inside,         \* the directory whose file has been listed and not yet sized
    ids, projects,  \* the identifiers read for the census
    largest,        \* the sessions of the report, largest subtree first
    described,      \* of them, those that got their details
    buckets,        \* sessions per age bucket
    counted,        \* what the census counted: [files, directories]
    writes,         \* what others did so far
    then,           \* history: the database when the sizes, and the ages, were read
    gone,           \* history: sessions and projects absent at some time of the command
    left            \* history: files and directories without an owner all the time

world == <<db, files, snapshots, full, writes, gone, left>>
parts == <<largest, described, buckets, counted, then>>
vars  == <<command, schema, world, phase, failure, sound, todo, inside, ids, projects, parts>>

Absent(d) == [files |-> Ids \ d.rows, directories |-> Projects \ d.projects]
Orphans(d, f, s) == [files |-> f \cap Absent(d).files, directories |-> s \cap Absent(d).directories]
Nothing == [files |-> {}, directories |-> {}]
NoProject == "none"

Init ==
    /\ command \in Commands /\ schema \in Schemas /\ db \in Databases
    /\ \E l \in Layouts : files = l.files /\ snapshots = l.snapshots /\ full = l.full
    /\ phase = "schema" /\ failure = "none" /\ sound = TRUE /\ todo = {} /\ inside = NoProject
    /\ ids = {} /\ projects = {}
    /\ largest = <<>> /\ described = {} /\ buckets = <<>> /\ counted = Nothing
    /\ then = [sizes |-> db, ages |-> db]
    /\ writes = 0 /\ gone = Absent(db) /\ left = Orphans(db, files, snapshots)

-----------------------------------------------------------------------------
(* Going on and failing *)

StandardOrder == <<"schema", "space", "sizes", "describe", "ages", "over">>
DetailedOrder ==
    <<"schema", "rows", "space", "sizes", "describe", "ids", "projects", "rows_left",
      "list_files", "files", "list_directories", "directories", "ages",
      "list_overview", "overview", "over">>
DoctorOrder ==
    <<"schema", "checks", "ids", "projects", "rows_left", "list_files", "files",
      "list_directories", "directories", "headroom", "health", "over">>
Order == CASE command.name = "standard" -> StandardOrder
           [] command.name = "detailed" -> DetailedOrder
           [] command.name = "doctor"   -> DoctorOrder

Continue ==
    /\ phase' = Order[1 + CHOOSE i \in DOMAIN Order : Order[i] = phase]
    /\ UNCHANGED failure
Fail(error) == phase' = "over" /\ failure' = error
ContinueIf(ok, error) == IF ok THEN Continue ELSE Fail(error)

In(p) == phase = p /\ UNCHANGED <<command, schema, world>>
Sizing == UNCHANGED <<sound, todo, inside, ids, projects, counted>>
Census == UNCHANGED <<sound, largest, described, buckets, then>>

-----------------------------------------------------------------------------
(* The schema, and doctor's own phases *)

TierOne(facts) == facts \cap RequirementFacts
TierThree(facts) == facts \cap TargetFacts

(* schema::inspect for analyze, whose third tier --force-schema overrides;  *)
(* ensure_schema_compatible for doctor, which reports that tier.            *)
InspectSchema ==
    /\ In("schema")
    /\ ContinueIf(/\ TierOne(schema) = {}
                  /\ TierThree(schema) = {} \/ command.name = "doctor" \/ command.force,
                  "schema_incompatible")
    /\ UNCHANGED <<sound, todo, inside, ids, projects, parts>>

(* run_independent_checks: findings of a check are part of the report, an   *)
(* error of a job is not.                                                   *)
CheckIndependently ==
    /\ In("checks")
    /\ sound' \in BOOLEAN
    /\ Continue \/ Fail("job")
    /\ UNCHANGED <<todo, inside, ids, projects, parts>>

(* vacuum_headroom asks for the length of the file once more, by its path.  *)
EstimateHeadroom ==
    /\ In("headroom")
    /\ Continue \/ Fail("io")
    /\ UNCHANGED <<sound, todo, inside, ids, projects, parts>>

(* timestamp_sanity: the youngest time stamp tells the unit of all.         *)
SaneTimestamps == db.rows = {} \/ Max({db.stamp[s] : s \in db.rows}) \in Plausible

(* When the report is written, ensure_report_health.                        *)
JudgeHealth ==
    /\ In("health")
    /\ ContinueIf(sound /\ SaneTimestamps, "integrity")
    /\ UNCHANGED <<sound, todo, inside, ids, projects, parts>>

-----------------------------------------------------------------------------
(* Sizes *)

(* row_counts: nothing else is derived from these figures.                  *)
CountRows == In("rows") /\ Continue /\ Sizing /\ UNCHANGED parts

(* Without dbstat the space of the tables is estimated from their rows.     *)
Estimable == command.octetLength

MeasureSpace ==
    /\ In("space")
    /\ ContinueIf(command.name = "standard" \/ command.dbstat \/ Estimable, "invalid_argument")
    /\ Sizing /\ UNCHANGED parts

(* The recursive `subtree` table of attribution: a row is a path down from  *)
(* its root; one that came back to a session it holds goes no further.      *)
Cyclic(path) == \E i \in 1 .. Len(path) - 1 : path[i] = Last(path)

Deeper(d, paths) ==
    UNION {{Append(p, c) : c \in {x \in d.rows : d.parent[x] = Last(p)}} :
               p \in {q \in paths : ~Cyclic(q)}}

(* Mutant: the children alone, without theirs.                              *)
SubtreeRowsOfChildren(d) == LET roots == {<<s>> : s \in d.rows} IN roots \cup Deeper(d, roots)

SubtreeRows(d) ==
    LET level[n \in 0 .. Cardinality(d.rows)] ==
            IF n = 0 THEN {<<s>> : s \in d.rows} ELSE Deeper(d, level[n - 1])
    IN  UNION {level[n] : n \in 0 .. Cardinality(d.rows)}

SubtreeBytes(d, root) ==
    SumFunction([p \in {q \in SubtreeRows(d) : q[1] = root} |-> Bytes[Last(p)]])

(* ORDER BY bytes DESC, id ASC LIMIT top                                    *)
Largest(d) ==
    LET bytes == [s \in d.rows |-> SubtreeBytes(d, s)]
        before(s) == {t \in d.rows : bytes[t] > bytes[s] \/ (bytes[t] = bytes[s] /\ t < s)}
    IN  [i \in 1 .. Min({Top, Cardinality(d.rows)}) |->
            CHOOSE s \in d.rows : Cardinality(before(s)) = i - 1]

(* attribution::analyze, one statement; a marked row is an error.           *)
Attribute ==
    LET refused == ~command.octetLength \/ \E p \in SubtreeRows(db) : Cyclic(p)
    IN  /\ In("sizes")
        /\ largest' = IF refused THEN <<>> ELSE Largest(db)
        /\ todo' = Range(largest')
        /\ then' = [then EXCEPT !.sizes = db]
        /\ IF ~refused THEN Continue
           ELSE Fail(IF command.octetLength THEN "schema_incompatible" ELSE "invalid_argument")
        /\ UNCHANGED <<sound, inside, ids, projects, described, buckets, counted>>

(* describe: one statement for every session listed, largest first; one     *)
(* that has gone meanwhile stays without details.                           *)
Describe ==
    /\ In("describe")
    /\ IF todo = {} THEN Continue /\ UNCHANGED <<todo, described>>
       ELSE LET s == largest[Len(largest) - Cardinality(todo) + 1]
            IN  /\ todo' = todo \ {s}
                /\ described' = described \cup ({s} \cap db.rows)
                /\ UNCHANGED <<phase, failure>>
    /\ UNCHANGED <<sound, inside, ids, projects, largest, buckets, counted, then>>

(* The bucket of a session: the first boundary it is younger than.          *)
Bucket(d, s) == Cardinality({i \in DOMAIN Boundaries : d.stamp[s] <= Boundaries[i]}) + 1

DistributeAges ==
    /\ In("ages")
    /\ buckets' = [i \in 1 .. Len(Boundaries) + 1 |-> Cardinality({s \in db.rows : Bucket(db, s) = i})]
    /\ then' = [then EXCEPT !.ages = db]
    /\ Continue
    /\ UNCHANGED <<sound, todo, inside, ids, projects, largest, described, counted>>

-----------------------------------------------------------------------------
(* The orphan census *)

(* Mutant: the sessions without a parent only.                              *)
ReadRootIds ==
    /\ In("ids") /\ Continue
    /\ ids' = {s \in db.rows : db.parent[s] = NoParent}
    /\ Census /\ UNCHANGED <<todo, inside, projects, counted>>

ReadSessionIds ==
    /\ In("ids") /\ Continue
    /\ ids' = db.rows
    /\ Census /\ UNCHANGED <<todo, inside, projects, counted>>

ReadProjectIds ==
    /\ In("projects") /\ Continue
    /\ projects' = db.projects
    /\ Census /\ UNCHANGED <<todo, inside, ids, counted>>

(* orphan_events, dangling_parent_sessions and foreign_key_dangling_rows,   *)
(* each of which joins within one statement.                                *)
CountRowsLeft == In("rows_left") /\ Continue /\ Census /\ UNCHANGED <<todo, inside, ids, projects, counted>>

ListFiles ==
    /\ phase \in {"list_files", "list_overview"} /\ In(phase) /\ Continue
    /\ todo' = files
    /\ Census /\ UNCHANGED <<inside, ids, projects, counted>>

OrphanDirectory(p) == p \notin projects

(* A listed file that has gone when its length is asked for ends the census *)
(* (metadata), one that needs no length does not.                           *)
LookAtFile ==
    /\ In("files")
    /\ IF todo = {} THEN Continue /\ UNCHANGED <<todo, counted>>
       ELSE LET f == Min(todo)
            IN  /\ todo' = todo \ {f}
                /\ IF f \notin ids \cup files THEN Fail("io") ELSE UNCHANGED <<phase, failure>>
                /\ counted' = IF f \notin ids /\ f \in files
                              THEN [counted EXCEPT !.files = @ \cup {f}] ELSE counted
    /\ Census /\ UNCHANGED <<inside, ids, projects>>

(* external_directories adds up every file, whoever owns it.                *)
SizeOverview ==
    /\ In("overview")
    /\ IF todo = {} THEN Continue /\ UNCHANGED todo
       ELSE /\ todo' = todo \ {Min(todo)}
            /\ IF Min(todo) \in files THEN UNCHANGED <<phase, failure>> ELSE Fail("io")
    /\ Census /\ UNCHANGED <<inside, ids, projects, counted>>

ListDirectories ==
    /\ In("list_directories") /\ Continue
    /\ todo' = snapshots
    /\ Census /\ UNCHANGED <<inside, ids, projects, counted>>

(* A directory that has gone when it is read counts as empty                *)
(* (directory_entries); a file that has gone from it ends the census.       *)
LookAtDirectory ==
    /\ In("directories") /\ inside = NoProject
    /\ IF todo = {} THEN Continue /\ UNCHANGED <<todo, inside, counted>>
       ELSE \E p \in todo :
            /\ todo' = todo \ {p}
            /\ inside' = IF OrphanDirectory(p) /\ p \in full THEN p ELSE NoProject
            /\ counted' = IF OrphanDirectory(p)
                          THEN [counted EXCEPT !.directories = @ \cup {p}] ELSE counted
            /\ UNCHANGED <<phase, failure>>
    /\ Census /\ UNCHANGED <<ids, projects>>

SizeInside ==
    /\ In("directories") /\ inside # NoProject
    /\ IF inside \in full THEN UNCHANGED <<phase, failure>> ELSE Fail("io")
    /\ inside' = NoProject
    /\ Census /\ UNCHANGED <<todo, ids, projects, counted>>

-----------------------------------------------------------------------------
(* The others *)

Write ==
    /\ phase # "over" /\ writes < MaxWrites /\ writes' = writes + 1
    /\ UNCHANGED <<command, schema, phase, failure, sound, todo, inside, ids, projects, parts>>

History ==
    /\ gone' = [files |-> gone.files \cup Absent(db').files,
                directories |-> gone.directories \cup Absent(db').directories]
    /\ LET now == Orphans(db', files', snapshots')
       IN  left' = [files |-> left.files \cap now.files,
                    directories |-> left.directories \cap now.directories]

CreateSession ==
    /\ Write
    /\ \E s \in Ids \ db.rows, p \in db.rows \cup {NoParent}, owner \in db.projects :
           db' = [db EXCEPT !.rows = @ \cup {s}, !.parent[s] = p, !.owner[s] = owner]
    /\ UNCHANGED <<files, snapshots, full>> /\ History

DeleteSession ==
    /\ Write
    /\ \E s \in db.rows : db' = [db EXCEPT !.rows = @ \ {s}]
    /\ UNCHANGED <<files, snapshots, full>> /\ History

CreateProject ==
    /\ Write
    /\ \E p \in Projects \ db.projects : db' = [db EXCEPT !.projects = @ \cup {p}]
    /\ UNCHANGED <<files, snapshots, full>> /\ History

DeleteProject ==
    /\ Write
    /\ \E p \in db.projects :
           db' = [db EXCEPT !.projects = @ \ {p}, !.rows = {s \in @ : db.owner[s] # p}]
    /\ UNCHANGED <<files, snapshots, full>> /\ History

PutOrDropFile ==
    /\ Write
    /\ \E f \in Ids : files' = SymDiff(files, {f})
    /\ UNCHANGED <<db, snapshots, full>> /\ History

PutOrDropSnapshot ==
    /\ Write
    /\ \E p \in Projects :
           /\ full' = SymDiff(full, {p})
           /\ snapshots' = IF p \in full THEN snapshots \ {p} ELSE snapshots \cup {p}
    /\ UNCHANGED <<db, files>> /\ History

-----------------------------------------------------------------------------
Next ==
    \/ InspectSchema \/ CheckIndependently \/ EstimateHeadroom \/ JudgeHealth
    \/ CountRows \/ MeasureSpace \/ Attribute \/ Describe \/ DistributeAges
    \/ ReadSessionIds \/ ReadProjectIds \/ CountRowsLeft
    \/ ListFiles \/ LookAtFile \/ SizeOverview \/ ListDirectories \/ LookAtDirectory \/ SizeInside
    \/ CreateSession \/ DeleteSession \/ CreateProject \/ DeleteProject
    \/ PutOrDropFile \/ PutOrDropSnapshot

Spec == Init /\ [][Next]_vars

-----------------------------------------------------------------------------
(* What it is for *)

Reported == phase = "over" /\ failure \in {"none", "integrity"}

(* A report of sizes is true of the database of one moment: its sessions    *)
(* are those with the largest subtrees, each subtree taken once and whole,  *)
(* no report comes from a database with a cycle of parents, and a session   *)
(* lacks its details only when it has gone meanwhile; the age buckets have  *)
(* every session of their moment once (analyze/attribution.rs,              *)
(* analyze/distribution.rs).                                                *)
FiguresTrue ==
    Reported /\ command.name # "doctor" =>
        LET d == then.sizes
            whole(s) == SumFunctionOnSet(Bytes, Subtree(d, {s}))
            listed == Range(largest)
        IN  /\ ~HasCycle(d)
            /\ \A i \in DOMAIN largest : SubtreeBytes(d, largest[i]) = whole(largest[i])
            /\ Cardinality(listed) = Min({Top, Cardinality(d.rows)})
            /\ \A s \in listed, t \in d.rows \ listed : whole(s) >= whole(t)
            /\ listed \ described \subseteq gone.files
            /\ SumFunction(buckets) = Cardinality(then.ages.rows)

(* The census counts a file or a directory only if its session or project   *)
(* has been absent from the database at some moment of the command, and it  *)
(* misses none that had no owner all the time, whatever others commit while *)
(* the directories are read (analyze/orphans.rs).                           *)
CensusBracketed ==
    Reported /\ command.name # "standard" =>
        /\ left.files \subseteq counted.files /\ counted.files \subseteq gone.files
        /\ left.directories \subseteq counted.directories
        /\ counted.directories \subseteq gone.directories
=============================================================================
