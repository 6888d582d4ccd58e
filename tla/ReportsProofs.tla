---------------------------- MODULE ReportsProofs ----------------------------
(* Theorems about Reports, for every database and layout of files, every    *)
(* command line and any number of writes of others between its statements.  *)
EXTENDS Reports, SelectionTheorems

-----------------------------------------------------------------------------
(* The inductive invariant *)

(* What must hold once the identifiers have been read, once the files have  *)
(* been looked at and once the directories have been, by the phases that    *)
(* come later; an error ends a phase without what it was for.               *)
Closing         == {"ages", "list_overview", "overview", "headroom", "health"}
PastDirectories == phase \in Closing \/ Reported
PastFiles       == phase \in {"list_directories", "directories"} \/ PastDirectories
PastProjects    == phase \in {"rows_left", "list_files", "files"} \/ PastFiles
PastIds         == phase = "projects" \/ PastProjects

(* The history is about the world as it is: who has no row now has been     *)
(* absent, and what never had an owner is there and has none now.           *)
HistoryInv ==
    /\ files \subseteq Ids /\ snapshots \subseteq Projects
    /\ gone \in [files : SUBSET Ids, directories : SUBSET Projects]
    /\ Absent(db).files \subseteq gone.files
    /\ Absent(db).directories \subseteq gone.directories
    /\ left.files \subseteq Orphans(db, files, snapshots).files
    /\ left.directories \subseteq Orphans(db, files, snapshots).directories

(* The identifiers, of whenever they were read: who is not among them was   *)
(* absent at that time, and nothing that is left belongs to one of them.    *)
IdsInv ==
    /\ PastIds => Ids \ ids \subseteq gone.files /\ left.files \cap ids = {}
    /\ PastProjects => /\ Projects \ projects \subseteq gone.directories
                       /\ left.directories \cap projects = {}

(* What is left has been counted or is still to be looked at.               *)
CountInv ==
    /\ counted \in [files : SUBSET gone.files, directories : SUBSET gone.directories]
    /\ phase = "files" => todo \subseteq Ids /\ left.files \subseteq counted.files \cup todo
    /\ PastFiles => left.files \subseteq counted.files
    /\ phase = "directories" => /\ todo \subseteq Projects
                                /\ left.directories \subseteq counted.directories \cup todo
    /\ PastDirectories => left.directories \subseteq counted.directories

ControlInv ==
    /\ command \in Command
    /\ phase \in Range(Order)
    /\ phase # "over" => failure = "none"

CensusInv == command.name # "standard" => ControlInv /\ HistoryInv /\ IdsInv /\ CountInv

-----------------------------------------------------------------------------
(* The order of the phases *)

(* No phase comes twice, so that one goes on to the phase listed after it.  *)
LEMMA OrderIsInjective ==
    ASSUME command \in Command
    PROVE  \A i, j \in DOMAIN Order : Order[i] = Order[j] => i = j
<1>1. \A i, j \in DOMAIN StandardOrder : StandardOrder[i] = StandardOrder[j] => i = j
  BY DEF StandardOrder
<1>2. \A i, j \in DOMAIN DetailedOrder : DetailedOrder[i] = DetailedOrder[j] => i = j
  BY SMTT(60) DEF DetailedOrder
<1>3. \A i, j \in DOMAIN DoctorOrder : DoctorOrder[i] = DoctorOrder[j] => i = j
  BY SMTT(60) DEF DoctorOrder
<1>. QED
  BY <1>1, <1>2, <1>3 DEF Order, Command

(* A phase that goes on goes on to the one listed after it.                 *)
LEMMA ContinuesInOrder ==
    ASSUME command \in Command, NEW i \in DOMAIN Order, phase = Order[i], Continue
    PROVE  phase' = Order[1 + i] /\ failure' = failure
<1>. DEFINE j == CHOOSE k \in DOMAIN Order : Order[k] = phase
<1>1. j \in DOMAIN Order /\ Order[j] = phase
  OBVIOUS
<1>2. j = i
  <2>. HIDE DEF j
  <2>. QED
    BY <1>1, OrderIsInjective
<1>. QED
  BY <1>2 DEF Continue

(* Where the census, and the phases beside it, go on to.                    *)
LEMMA DetailedGoesOn ==
    ASSUME command \in Command, command.name = "detailed", Continue
    PROVE  /\ phase = "schema" => phase' = "rows"
           /\ phase = "rows" => phase' = "space"
           /\ phase = "space" => phase' = "sizes"
           /\ phase = "sizes" => phase' = "describe"
           /\ phase = "describe" => phase' = "ids"
           /\ phase = "ids" => phase' = "projects"
           /\ phase = "projects" => phase' = "rows_left"
           /\ phase = "rows_left" => phase' = "list_files"
           /\ phase = "list_files" => phase' = "files"
           /\ phase = "files" => phase' = "list_directories"
           /\ phase = "list_directories" => phase' = "directories"
           /\ phase = "directories" => phase' = "ages"
           /\ phase = "ages" => phase' = "list_overview"
           /\ phase = "list_overview" => phase' = "overview"
           /\ phase = "overview" => phase' = "over"
<1>1. Order = DetailedOrder
  BY DEF Order
<1>2. \A i \in 1 .. 15 : phase = DetailedOrder[i] => phase' = DetailedOrder[1 + i]
  <2>1. \A i \in 1 .. 15 : i \in DOMAIN DetailedOrder
    BY DEF DetailedOrder
  <2>. QED
    BY <1>1, <2>1, ContinuesInOrder
<1>. QED
  BY <1>2 DEF DetailedOrder

(* The order of doctor, phase by phase.                                     *)
LEMMA DoctorGoesOn ==
    ASSUME command \in Command, command.name = "doctor", Continue
    PROVE  /\ phase = "schema" => phase' = "checks"
           /\ phase = "checks" => phase' = "ids"
           /\ phase = "ids" => phase' = "projects"
           /\ phase = "projects" => phase' = "rows_left"
           /\ phase = "rows_left" => phase' = "list_files"
           /\ phase = "list_files" => phase' = "files"
           /\ phase = "files" => phase' = "list_directories"
           /\ phase = "list_directories" => phase' = "directories"
           /\ phase = "directories" => phase' = "headroom"
           /\ phase = "headroom" => phase' = "health"
           /\ phase = "health" => phase' = "over"
<1>1. Order = DoctorOrder
  BY DEF Order
<1>2. \A i \in 1 .. 11 : phase = DoctorOrder[i] => phase' = DoctorOrder[1 + i]
  <2>1. \A i \in 1 .. 11 : i \in DOMAIN DoctorOrder
    BY DEF DoctorOrder
  <2>. QED
    BY <1>1, <2>1, ContinuesInOrder
<1>. QED
  BY <1>2 DEF DoctorOrder

Early  == {"schema", "checks", "rows", "space", "sizes", "describe"}
CensusPhases == {"ids", "projects", "rows_left", "list_files", "files", "list_directories", "directories"}

(* The phases a report with a census can be in.                             *)
LEMMA KnownPhase ==
    ASSUME ControlInv, command.name # "standard"
    PROVE  /\ command.name = "detailed" =>
                 phase \in {"schema", "rows", "space", "sizes", "describe", "ages", "list_overview",
                            "overview", "over"} \cup CensusPhases
           /\ command.name = "doctor" =>
                 phase \in {"schema", "checks", "headroom", "health", "over"} \cup CensusPhases
           /\ command.name \in {"detailed", "doctor"}
BY DEF ControlInv, Command, Order, DetailedOrder, DoctorOrder, Range, CensusPhases

(* The order of both reports around the census.                             *)
LEMMA CensusGoesOn ==
    ASSUME ControlInv, command.name # "standard", phase # "over", Continue, command' = command
    PROVE  /\ failure' = "none" /\ phase' \in Range(Order')
           /\ phase \in Early => phase' \in Early \cup {"ids"}
           /\ phase = "ids" => phase' = "projects"
           /\ phase = "projects" => phase' = "rows_left"
           /\ phase = "rows_left" => phase' = "list_files"
           /\ phase = "list_files" => phase' = "files"
           /\ phase = "files" => phase' = "list_directories"
           /\ phase = "list_directories" => phase' = "directories"
           /\ phase = "directories" => phase' \in Closing
           /\ phase \in Closing => phase' \in Closing \cup {"over"}
<1>1. command \in Command /\ failure' = "none"
  BY DEF ControlInv, Continue
<1>2. CASE command.name = "detailed"
  <2>1. Order' = DetailedOrder
    BY <1>2 DEF Order
  <2>. QED
    BY <1>1, <1>2, <2>1, KnownPhase, DetailedGoesOn DEF DetailedOrder, Range, Early, Closing, CensusPhases
<1>3. CASE command.name = "doctor"
  <2>1. Order' = DoctorOrder
    BY <1>3 DEF Order
  <2>. QED
    BY <1>1, <1>3, <2>1, KnownPhase, DoctorGoesOn DEF DoctorOrder, Range, Early, Closing, CensusPhases
<1>. QED
  BY <1>2, <1>3, KnownPhase


-----------------------------------------------------------------------------
(* Steps of the command *)

Fails == phase' = "over" /\ failure' \notin {"none", "integrity"}
Stays == UNCHANGED <<phase, failure>>

(* A step goes on, ends the report or stays in its phase.                   *)
LEMMA ControlKept ==
    ASSUME ControlInv, command.name # "standard", phase # "over", command' = command,
           Continue \/ phase' = "over" \/ Stays
    PROVE  ControlInv'
<1>1. command' \in Command /\ "over" \in Range(Order')
  BY DEF ControlInv, Command, Order, DetailedOrder, DoctorOrder, Range
<1>2. CASE Continue
  BY <1>1, <1>2, CensusGoesOn DEF ControlInv
<1>3. CASE phase' = "over"
  BY <1>1, <1>3 DEF ControlInv
<1>4. CASE Stays
  <2>1. Order' = Order
    BY DEF Order
  <2>. QED
    BY <1>1, <1>4, <2>1 DEF ControlInv, Stays
<1>. QED
  BY <1>2, <1>3, <1>4

(* The history stays true while the world stays as it is.                   *)
LEMMA HistoryKept == ASSUME HistoryInv, UNCHANGED world PROVE HistoryInv'
BY DEF HistoryInv, world, Absent, Orphans

(* Before the census nothing is promised yet.                               *)
LEMMA EarlyKeeps ==
    ASSUME CensusInv, command.name # "standard", phase \in Early,
           UNCHANGED <<command, world, counted>>,
           Continue \/ Fails \/ Stays
    PROVE  CensusInv'
<1>1. /\ ControlInv /\ HistoryInv /\ IdsInv /\ CountInv
      /\ phase # "over"
  BY DEF CensusInv, Early
<1>2. ControlInv' /\ HistoryInv'
  BY <1>1, ControlKept, HistoryKept DEF Fails
<1>3. phase' \in Early \cup {"ids"} \/ Fails
  BY <1>1, CensusGoesOn DEF Stays
<1>4. ~PastIds' /\ phase' \notin {"files", "directories"}
  BY <1>3 DEF Early, Fails, PastIds, PastProjects, PastFiles, PastDirectories, Closing, Reported
<1>5. counted' \in [files : SUBSET gone'.files, directories : SUBSET gone'.directories]
  BY <1>1 DEF CountInv, world
<1>. QED
  BY <1>2, <1>4, <1>5 DEF CensusInv, IdsInv, CountInv, PastIds, PastProjects, PastFiles

(* After the directories it has kept its promise.                           *)
LEMMA ClosingKeeps ==
    ASSUME CensusInv, command.name # "standard", phase \in Closing,
           UNCHANGED <<command, world, ids, projects, counted>>,
           Continue \/ phase' = "over" \/ Stays
    PROVE  CensusInv'
<1>1. /\ ControlInv /\ HistoryInv /\ IdsInv /\ CountInv
      /\ phase # "over"
  BY DEF CensusInv, Closing
<1>2. ControlInv' /\ HistoryInv'
  BY <1>1, ControlKept, HistoryKept
<1>3. phase' \in Closing \cup {"over"}
  BY <1>1, CensusGoesOn DEF Stays
<1>4. PastDirectories /\ PastFiles /\ PastProjects /\ PastIds
  BY DEF PastIds, PastProjects, PastFiles, PastDirectories
<1>5. phase' \notin {"files", "directories"}
  BY <1>3 DEF Closing
<1>6. UNCHANGED <<left, gone>>
  BY DEF world
<1>. QED
  BY <1>1, <1>2, <1>4, <1>5, <1>6 DEF CensusInv, IdsInv, CountInv


(* An error, other than that of an unsound database, ends the report.       *)
LEMMA FailureKeeps ==
    ASSUME CensusInv, command.name # "standard", phase # "over", Fails,
           UNCHANGED <<command, world>>,
           counted' \in [files : SUBSET gone.files, directories : SUBSET gone.directories]
    PROVE  CensusInv'
<1>1. ControlInv' /\ HistoryInv'
  BY ControlKept, HistoryKept DEF CensusInv, Fails
<1>2. ~PastIds' /\ phase' = "over"
  BY DEF Fails, PastIds, PastProjects, PastFiles, PastDirectories, Closing, Reported
<1>3. gone' = gone
  BY DEF world
<1>. QED
  BY <1>1, <1>2, <1>3 DEF CensusInv, IdsInv, CountInv, PastIds, PastProjects, PastFiles

(* What is left has no row, so that it has none among those read now.       *)
LEMMA IdsStep ==
    ASSUME CensusInv, command.name # "standard", ReadSessionIds
    PROVE  CensusInv'
<1>1. /\ ControlInv /\ HistoryInv /\ CountInv
      /\ phase = "ids" /\ UNCHANGED <<command, world, counted>> /\ Continue /\ ids' = db.rows
  BY DEF CensusInv, ReadSessionIds, In
<1>2. ControlInv' /\ HistoryInv' /\ phase' = "projects"
  BY <1>1, ControlKept, HistoryKept, CensusGoesOn
<1>3. ~PastProjects' /\ ~PastFiles' /\ ~PastDirectories'
  BY <1>2 DEF PastProjects, PastFiles, PastDirectories, Closing, Reported
<1>4. UNCHANGED <<left, gone>>
  BY <1>1 DEF world
<1>5. Ids \ ids' \subseteq gone.files /\ left.files \cap ids' = {}
  BY <1>1 DEF HistoryInv, Absent, Orphans
<1>. QED
  BY <1>1, <1>2, <1>3, <1>4, <1>5 DEF CensusInv, IdsInv, CountInv

(* Reading the project ids: who is not among them is absent now.            *)
LEMMA ProjectsStep ==
    ASSUME CensusInv, command.name # "standard", ReadProjectIds
    PROVE  CensusInv'
<1>1. /\ ControlInv /\ HistoryInv /\ IdsInv /\ CountInv
      /\ phase = "projects" /\ UNCHANGED <<command, world, counted, ids>> /\ Continue
      /\ projects' = db.projects
  BY DEF CensusInv, ReadProjectIds, In
<1>2. ControlInv' /\ HistoryInv' /\ phase' = "rows_left"
  BY <1>1, ControlKept, HistoryKept, CensusGoesOn
<1>3. ~PastFiles' /\ ~PastDirectories' /\ PastIds
  BY <1>1, <1>2 DEF PastIds, PastFiles, PastDirectories, Closing, Reported
<1>4. UNCHANGED <<left, gone>>
  BY <1>1 DEF world
<1>5. Projects \ projects' \subseteq gone.directories /\ left.directories \cap projects' = {}
  BY <1>1 DEF HistoryInv, Absent, Orphans
<1>. QED
  BY <1>1, <1>2, <1>3, <1>4, <1>5 DEF CensusInv, IdsInv, CountInv

(* Counting the rows left behind concerns no file.                          *)
LEMMA RowsLeftStep ==
    ASSUME CensusInv, command.name # "standard", CountRowsLeft
    PROVE  CensusInv'
<1>1. /\ ControlInv /\ HistoryInv /\ IdsInv /\ CountInv
      /\ phase = "rows_left" /\ UNCHANGED <<command, world, counted, ids, projects>> /\ Continue
  BY DEF CensusInv, CountRowsLeft, In
<1>2. ControlInv' /\ HistoryInv' /\ phase' = "list_files"
  BY <1>1, ControlKept, HistoryKept, CensusGoesOn
<1>3. ~PastFiles' /\ ~PastDirectories' /\ PastIds /\ PastProjects
  BY <1>1, <1>2 DEF PastIds, PastProjects, PastFiles, PastDirectories, Closing, Reported
<1>4. UNCHANGED <<left, gone>>
  BY <1>1 DEF world
<1>. QED
  BY <1>1, <1>2, <1>3, <1>4 DEF CensusInv, IdsInv, CountInv

(* Every file that is left is in its directory, hence in the listing.       *)
LEMMA ListFilesStep ==
    ASSUME CensusInv, command.name # "standard", ListFiles
    PROVE  CensusInv'
<1>0. UNCHANGED <<command, world, counted, ids, projects>> /\ Continue /\ todo' = files
  BY DEF ListFiles, In
<1>a. CASE phase = "list_overview"
  BY <1>0, <1>a, ClosingKeeps DEF Closing
<1>b. CASE phase = "list_files"
  <2>1. ControlInv /\ HistoryInv /\ IdsInv /\ CountInv
    BY DEF CensusInv
  <2>2. ControlInv' /\ HistoryInv' /\ phase' = "files"
    BY <1>0, <1>b, <2>1, ControlKept, HistoryKept, CensusGoesOn
  <2>3. ~PastFiles' /\ ~PastDirectories' /\ PastIds /\ PastProjects
    BY <1>b, <2>2 DEF PastIds, PastProjects, PastFiles, PastDirectories, Closing, Reported
  <2>4. UNCHANGED <<left, gone>>
    BY <1>0 DEF world
  <2>5. todo' \subseteq Ids /\ left.files \subseteq todo'
    BY <1>0, <2>1 DEF HistoryInv, Orphans
  <2>. QED
    BY <1>0, <2>1, <2>2, <2>3, <2>4, <2>5 DEF CensusInv, IdsInv, CountInv
<1>. QED
  BY <1>a, <1>b DEF ListFiles

(* The next file to look at is one of those listed.                         *)
LEMMA MinOfIds ==
    ASSUME NEW T \in SUBSET Ids, T # {}
    PROVE  Min(T) \in T
<1>1. \E m \in T : \A n \in T : m =< n
  BY IdsAssumption, LeastNumber
<1>. QED
  BY <1>1 DEF Min

(* A file is looked at once, and counted if it is there and has no owner    *)
(* among the identifiers.                                                   *)
LEMMA LookAtFileStep ==
    ASSUME CensusInv, command.name # "standard", LookAtFile
    PROVE  CensusInv'
<1>1. /\ ControlInv /\ HistoryInv /\ IdsInv /\ CountInv
      /\ phase = "files" /\ UNCHANGED <<command, world, ids, projects>>
      /\ PastIds /\ PastProjects
  BY DEF CensusInv, LookAtFile, In, Census, PastIds, PastProjects
<1>2. UNCHANGED <<left, gone>>
  BY <1>1 DEF world
<1>3. CASE todo = {} 
  <2>1. Continue /\ UNCHANGED <<todo, counted>>
    BY <1>3 DEF LookAtFile
  <2>2. ControlInv' /\ HistoryInv' /\ phase' = "list_directories"
    BY <1>1, <2>1, ControlKept, HistoryKept, CensusGoesOn
  <2>3. ~PastDirectories'
    BY <2>2 DEF PastDirectories, Closing, Reported
  <2>4. left.files \subseteq counted.files
    BY <1>1, <1>3 DEF CountInv
  <2>. QED
    BY <1>1, <1>2, <2>1, <2>2, <2>3, <2>4 DEF CensusInv, IdsInv, CountInv
<1>4. CASE todo # {}
  <2>. DEFINE f == Min(todo)
  <2>1. todo \subseteq Ids
    BY <1>1 DEF CountInv
  <2>2. f \in todo
    BY <1>4, <2>1, MinOfIds
  <2>3. /\ todo' = todo \ {f}
        /\ IF f \notin ids \cup files THEN Fail("io") ELSE Stays
        /\ counted' = IF f \notin ids /\ f \in files
                      THEN [counted EXCEPT !.files = @ \cup {f}] ELSE counted
    BY <1>4 DEF LookAtFile, Stays
  <2>. HIDE DEF f
  <2>4. f \notin ids => f \in gone.files
    BY <1>1, <2>1, <2>2 DEF IdsInv
  <2>5. counted' \in [files : SUBSET gone.files, directories : SUBSET gone.directories]
    BY <1>1, <2>3, <2>4 DEF CountInv
  <2>6. CASE f \notin ids \cup files
    BY <1>1, <2>3, <2>5, <2>6, FailureKeeps DEF Fail, Fails
  <2>7. CASE f \in ids \cup files
    <3>1. ControlInv' /\ HistoryInv' /\ phase' = "files"
      BY <1>1, <2>3, <2>7, ControlKept, HistoryKept DEF Stays
    <3>2. ~PastFiles' /\ ~PastDirectories'
      BY <3>1 DEF PastFiles, PastDirectories, Closing, Reported
    <3>3. f \in left.files => f \notin ids /\ f \in files
      BY <1>1 DEF IdsInv, HistoryInv, Orphans
    <3>4. left.files \subseteq counted'.files \cup todo'
      BY <1>1, <2>3, <3>3 DEF CountInv
    <3>. QED
      BY <1>1, <1>2, <2>1, <2>3, <2>5, <3>1, <3>2, <3>4 DEF CensusInv, IdsInv, CountInv
  <2>. QED
    BY <2>6, <2>7
<1>. QED
  BY <1>3, <1>4


(* The listing has every directory that is left.                            *)
LEMMA ListDirectoriesStep ==
    ASSUME CensusInv, command.name # "standard", ListDirectories
    PROVE  CensusInv'
<1>1. /\ ControlInv /\ HistoryInv /\ IdsInv /\ CountInv
      /\ phase = "list_directories" /\ UNCHANGED <<command, world, counted, ids, projects>>
      /\ Continue /\ todo' = snapshots
  BY DEF CensusInv, ListDirectories, In
<1>2. ControlInv' /\ HistoryInv' /\ phase' = "directories"
  BY <1>1, ControlKept, HistoryKept, CensusGoesOn
<1>3. ~PastDirectories' /\ PastIds /\ PastProjects /\ PastFiles
  BY <1>1, <1>2 DEF PastIds, PastProjects, PastFiles, PastDirectories, Closing, Reported
<1>4. UNCHANGED <<left, gone>>
  BY <1>1 DEF world
<1>5. todo' \subseteq Projects /\ left.directories \subseteq todo'
  BY <1>1 DEF HistoryInv, Orphans
<1>. QED
  BY <1>1, <1>2, <1>3, <1>4, <1>5 DEF CensusInv, IdsInv, CountInv

(* A directory whose project is not among the ids read is counted.          *)
LEMMA LookAtDirectoryStep ==
    ASSUME CensusInv, command.name # "standard", LookAtDirectory
    PROVE  CensusInv'
<1>1. /\ ControlInv /\ HistoryInv /\ IdsInv /\ CountInv
      /\ phase = "directories" /\ UNCHANGED <<command, world, ids, projects>>
      /\ PastIds /\ PastProjects /\ PastFiles
  BY DEF CensusInv, LookAtDirectory, In, Census, PastIds, PastProjects, PastFiles
<1>2. UNCHANGED <<left, gone>>
  BY <1>1 DEF world
<1>3. CASE todo = {}
  <2>1. Continue /\ UNCHANGED <<todo, counted>>
    BY <1>3 DEF LookAtDirectory
  <2>2. ControlInv' /\ HistoryInv' /\ phase' \in Closing
    BY <1>1, <2>1, ControlKept, HistoryKept, CensusGoesOn
  <2>3. phase' \notin {"files", "directories"}
    BY <2>2 DEF Closing
  <2>4. left.directories \subseteq counted.directories
    BY <1>1, <1>3 DEF CountInv
  <2>. QED
    BY <1>1, <1>2, <2>1, <2>2, <2>3, <2>4 DEF CensusInv, IdsInv, CountInv
<1>4. CASE todo # {}
  <2>1. PICK p \in todo :
            /\ todo' = todo \ {p}
            /\ counted' = IF OrphanDirectory(p)
                          THEN [counted EXCEPT !.directories = @ \cup {p}] ELSE counted
            /\ Stays
    BY <1>4 DEF LookAtDirectory, Stays
  <2>2. todo \subseteq Projects
    BY <1>1 DEF CountInv
  <2>3. OrphanDirectory(p) => p \in gone.directories
    BY <1>1, <2>2 DEF IdsInv, OrphanDirectory
  <2>4. counted' \in [files : SUBSET gone.files, directories : SUBSET gone.directories]
    BY <1>1, <2>1, <2>3 DEF CountInv
  <2>5. ControlInv' /\ HistoryInv' /\ phase' = "directories"
    BY <1>1, <2>1, ControlKept, HistoryKept DEF Stays
  <2>6. ~PastDirectories'
    BY <2>5 DEF PastDirectories, Closing, Reported
  <2>7. p \in left.directories => OrphanDirectory(p)
    BY <1>1 DEF IdsInv, OrphanDirectory
  <2>8. left.directories \subseteq counted'.directories \cup todo' /\ counted'.files = counted.files
    BY <1>1, <2>1, <2>7 DEF CountInv
  <2>. QED
    BY <1>1, <1>2, <2>1, <2>2, <2>4, <2>5, <2>6, <2>8 DEF CensusInv, IdsInv, CountInv
<1>. QED
  BY <1>3, <1>4

(* Adding up the size inside a directory counts no directory.               *)
LEMMA SizeInsideStep ==
    ASSUME CensusInv, command.name # "standard", SizeInside
    PROVE  CensusInv'
<1>1. /\ ControlInv /\ HistoryInv /\ IdsInv /\ CountInv
      /\ phase = "directories" /\ UNCHANGED <<command, world, ids, projects, todo, counted>>
      /\ PastIds /\ PastProjects /\ PastFiles
      /\ Stays \/ Fails
  BY DEF CensusInv, SizeInside, In, Census, PastIds, PastProjects, PastFiles, Stays, Fails, Fail
<1>2. CASE Fails
  BY <1>1, <1>2, FailureKeeps DEF CountInv
<1>3. CASE Stays
  <2>1. ControlInv' /\ HistoryInv' /\ phase' = "directories"
    BY <1>1, <1>3, ControlKept, HistoryKept DEF Stays
  <2>2. ~PastDirectories'
    BY <2>1 DEF PastDirectories, Closing, Reported
  <2>3. UNCHANGED <<left, gone>>
    BY <1>1 DEF world
  <2>. QED
    BY <1>1, <2>1, <2>2, <2>3 DEF CensusInv, IdsInv, CountInv
<1>. QED
  BY <1>1, <1>2, <1>3

(* The steps before the census.                                             *)
LEMMA EarlySteps ==
    ASSUME CensusInv, command.name # "standard",
           \/ InspectSchema \/ CheckIndependently \/ CountRows \/ MeasureSpace
           \/ Attribute \/ Describe
    PROVE  CensusInv'
<1>1. /\ phase \in Early /\ UNCHANGED <<command, world, counted>>
      /\ Continue \/ Fails \/ Stays
  <2>1. CASE InspectSchema
    BY <2>1 DEF InspectSchema, In, ContinueIf, Fail, Fails, Early, parts
  <2>2. CASE CheckIndependently
    BY <2>2 DEF CheckIndependently, In, Fail, Fails, Early, parts
  <2>3. CASE CountRows
    BY <2>3 DEF CountRows, In, Sizing, Early
  <2>4. CASE MeasureSpace
    BY <2>4 DEF MeasureSpace, In, ContinueIf, Fail, Fails, Sizing, Early
  <2>5. CASE Attribute
    <3>1. phase = "sizes" /\ UNCHANGED <<command, world, counted>>
      BY <2>5 DEF Attribute, In
    <3>2. Continue \/ Fail("schema_incompatible") \/ Fail("invalid_argument")
      BY <2>5 DEF Attribute
    <3>. QED
      BY <3>1, <3>2 DEF Fail, Fails, Early
  <2>6. CASE Describe
    BY <2>6 DEF Describe, In, Stays, Early
  <2>. QED
    BY <2>1, <2>2, <2>3, <2>4, <2>5, <2>6
<1>. QED
  BY <1>1, EarlyKeeps

(* The steps after the census.                                              *)
LEMMA ClosingSteps ==
    ASSUME CensusInv, command.name # "standard",
           DistributeAges \/ SizeOverview \/ EstimateHeadroom \/ JudgeHealth
    PROVE  CensusInv'
<1>1. /\ phase \in Closing /\ UNCHANGED <<command, world, ids, projects, counted>>
      /\ Continue \/ phase' = "over" \/ Stays
  <2>1. CASE DistributeAges
    BY <2>1 DEF DistributeAges, In, Closing
  <2>2. CASE SizeOverview
    BY <2>2 DEF SizeOverview, In, Census, Fail, Stays, Closing
  <2>3. CASE EstimateHeadroom
    BY <2>3 DEF EstimateHeadroom, In, Fail, Closing, parts
  <2>4. CASE JudgeHealth
    BY <2>4 DEF JudgeHealth, In, ContinueIf, Fail, Closing, parts
  <2>. QED
    BY <2>1, <2>2, <2>3, <2>4
<1>. QED
  BY <1>1, ClosingKeeps

-----------------------------------------------------------------------------
(* Steps of the others *)

Others ==
    \/ CreateSession \/ DeleteSession \/ CreateProject \/ DeleteProject
    \/ PutOrDropFile \/ PutOrDropSnapshot

(* Whatever they do, the history takes it in: more has been absent, and     *)
(* less never had an owner.                                                 *)
LEMMA HistoryTakesIn ==
    ASSUME HistoryInv, Others
    PROVE  /\ HistoryInv'
           /\ gone.files \subseteq gone'.files /\ gone.directories \subseteq gone'.directories
           /\ left'.files \subseteq left.files /\ left'.directories \subseteq left.directories
           /\ UNCHANGED <<command, phase, failure, todo, ids, projects, counted>>
<1>1. /\ UNCHANGED <<command, phase, failure, todo, ids, projects, counted>>
      /\ History
  BY DEF Others, Write, parts, CreateSession, DeleteSession, CreateProject, DeleteProject,
         PutOrDropFile, PutOrDropSnapshot
<1>2. files' \subseteq Ids
  <2>1. CASE PutOrDropFile
    BY <2>1 DEF PutOrDropFile, SymDiff, HistoryInv
  <2>2. CASE ~PutOrDropFile
    BY <2>2 DEF Others, HistoryInv, CreateSession, DeleteSession, CreateProject, DeleteProject,
                PutOrDropSnapshot
  <2>. QED
    BY <2>1, <2>2
<1>3. snapshots' \subseteq Projects
  <2>1. CASE PutOrDropSnapshot
    BY <2>1 DEF PutOrDropSnapshot, HistoryInv
  <2>2. CASE ~PutOrDropSnapshot
    BY <2>2 DEF Others, HistoryInv, CreateSession, DeleteSession, CreateProject, DeleteProject,
                PutOrDropFile
  <2>. QED
    BY <2>1, <2>2
<1>4. Absent(db)'.files \subseteq Ids /\ Absent(db)'.directories \subseteq Projects
  BY DEF Absent
<1>5. /\ gone' = [files |-> gone.files \cup Absent(db)'.files,
                  directories |-> gone.directories \cup Absent(db)'.directories]
      /\ left'.files = left.files \cap Orphans(db, files, snapshots)'.files
      /\ left'.directories = left.directories \cap Orphans(db, files, snapshots)'.directories
  BY <1>1 DEF History
<1>6. /\ gone.files \subseteq gone'.files /\ gone.directories \subseteq gone'.directories
      /\ left'.files \subseteq left.files /\ left'.directories \subseteq left.directories
  BY <1>5
<1>7. gone' \in [files : SUBSET Ids, directories : SUBSET Projects]
  BY <1>4, <1>5 DEF HistoryInv
<1>8. HistoryInv'
  BY <1>2, <1>3, <1>5, <1>7 DEF HistoryInv
<1>. QED
  BY <1>1, <1>6, <1>8

(* What others write keeps what was counted between its bounds.             *)
LEMMA OthersKeep ==
    ASSUME CensusInv, command.name # "standard", Others
    PROVE  CensusInv'
<1>1. ControlInv /\ HistoryInv /\ IdsInv /\ CountInv
  BY DEF CensusInv
<1>2. /\ HistoryInv'
      /\ gone.files \subseteq gone'.files /\ gone.directories \subseteq gone'.directories
      /\ left'.files \subseteq left.files /\ left'.directories \subseteq left.directories
      /\ UNCHANGED <<command, phase, failure, todo, ids, projects, counted>>
  BY <1>1, HistoryTakesIn
<1>3. Order' = Order /\ Reported' = Reported
  BY <1>2 DEF Order, Reported
<1>4. ControlInv'
  BY <1>1, <1>2, <1>3 DEF ControlInv
<1>5. /\ PastIds' = PastIds /\ PastProjects' = PastProjects /\ PastFiles' = PastFiles
      /\ PastDirectories' = PastDirectories
  BY <1>2, <1>3 DEF PastIds, PastProjects, PastFiles, PastDirectories
<1>6. IdsInv'
  BY <1>1, <1>2, <1>5 DEF IdsInv
<1>7. CountInv'
  BY <1>1, <1>2, <1>5 DEF CountInv
<1>. QED
  BY <1>2, <1>4, <1>6, <1>7 DEF CensusInv

-----------------------------------------------------------------------------
(* The theorem *)

(* The invariant holds before the first statement.                          *)
LEMMA CensusInit == Init => CensusInv
<1>. SUFFICES ASSUME Init, command.name # "standard" PROVE ControlInv /\ HistoryInv /\ IdsInv /\ CountInv
  BY DEF CensusInv
<1>1. ControlInv
  <2>1. command \in Command /\ command.name \in {"detailed", "doctor"} /\ phase = "schema"
    BY ReportsAssumption DEF Init, Command
  <2>2. 1 \in DOMAIN Order /\ Order[1] = "schema"
    BY <2>1 DEF Order, DetailedOrder, DoctorOrder
  <2>3. phase \in Range(Order)
    BY <2>1, <2>2 DEF Range
  <2>. QED
    BY <2>1, <2>3 DEF Init, ControlInv
<1>2. PICK l \in Layouts : files = l.files /\ snapshots = l.snapshots
  BY DEF Init
<1>3. files \subseteq Ids /\ snapshots \subseteq Projects
  BY <1>2, ReportsAssumption
<1>4. HistoryInv
  BY <1>3 DEF Init, HistoryInv, Absent, Orphans
<1>5. phase = "schema"
  BY DEF Init
<1>6. ~PastIds /\ phase \notin {"files", "directories"}
  BY <1>5 DEF PastIds, PastProjects, PastFiles, PastDirectories, Closing, Reported
<1>7. counted = [files |-> {}, directories |-> {}]
  BY DEF Init, Nothing
<1>. QED
  BY <1>1, <1>4, <1>6, <1>7 DEF IdsInv, CountInv, PastIds, PastProjects, PastFiles

(* Nothing changes the command line.                                        *)
LEMMA CommandKept == [Next]_vars => command' = command
BY DEF Next, vars, In, InspectSchema, CheckIndependently, EstimateHeadroom, JudgeHealth,
       CountRows, MeasureSpace, Attribute, Describe, DistributeAges, ReadSessionIds,
       ReadProjectIds, CountRowsLeft, ListFiles, LookAtFile, SizeOverview, ListDirectories,
       LookAtDirectory, SizeInside, Write, CreateSession, DeleteSession, CreateProject,
       DeleteProject, PutOrDropFile, PutOrDropSnapshot

(* Every step keeps it.                                                     *)
LEMMA CensusKept == CensusInv /\ [Next]_vars => CensusInv'
<1>. SUFFICES ASSUME CensusInv, [Next]_vars PROVE CensusInv'
  OBVIOUS
<1>0. command' = command
  BY CommandKept
<1>a. CASE command.name = "standard"
  BY <1>0, <1>a DEF CensusInv
<1>b. CASE command.name # "standard"
  <2>1. CASE InspectSchema \/ CheckIndependently \/ CountRows \/ MeasureSpace \/ Attribute \/ Describe
    BY <1>b, <2>1, EarlySteps
  <2>2. CASE DistributeAges \/ SizeOverview \/ EstimateHeadroom \/ JudgeHealth
    BY <1>b, <2>2, ClosingSteps
  <2>3. CASE ReadSessionIds \/ ReadProjectIds \/ CountRowsLeft
    BY <1>b, <2>3, IdsStep, ProjectsStep, RowsLeftStep
  <2>4. CASE ListFiles \/ LookAtFile
    BY <1>b, <2>4, ListFilesStep, LookAtFileStep
  <2>5. CASE ListDirectories \/ LookAtDirectory \/ SizeInside
    BY <1>b, <2>5, ListDirectoriesStep, LookAtDirectoryStep, SizeInsideStep
  <2>6. CASE Others
    BY <1>b, <2>6, OthersKeep
  <2>7. CASE UNCHANGED vars
    <3>1. UNCHANGED <<command, world, phase, failure, todo, ids, projects, counted>>
      BY <2>7 DEF vars, parts
    <3>2. Order' = Order /\ Reported' = Reported /\ UNCHANGED <<gone, left>>
      BY <3>1 DEF Order, Reported, world
    <3>3. HistoryInv' = HistoryInv
      BY <3>1 DEF HistoryInv, world, Absent, Orphans
    <3>. QED
      BY <3>1, <3>2, <3>3 DEF CensusInv, ControlInv, IdsInv, CountInv, PastIds, PastProjects,
                              PastFiles, PastDirectories
  <2>. QED
    BY <2>1, <2>2, <2>3, <2>4, <2>5, <2>6, <2>7 DEF Next, Others
<1>. QED
  BY <1>a, <1>b

(* The census of a report never counts what had an owner all the time and   *)
(* never misses what had none, whatever others commit, create and remove    *)
(* between its statements (analyze/orphans.rs).                             *)
THEOREM CensusIsBracketed == Spec => []CensusBracketed
<1>1. CensusInv => CensusBracketed
  BY DEF CensusInv, CountInv, CensusBracketed, PastFiles, PastDirectories
<1>2. Init => CensusInv
  BY CensusInit
<1>3. CensusInv /\ [Next]_vars => CensusInv'
  BY CensusKept
<1>. QED
  BY <1>1, <1>2, <1>3, PTL DEF Spec

-----------------------------------------------------------------------------
(***************************************************************************)
(* Sums.  A sum of natural numbers is the number of its units, so that it   *)
(* is known from any way to number them.                                  *)
(***************************************************************************)

Units(f, S) == {u \in S \X Nat : u[2] \in 1 .. f[u[1]]}

(* The units of one element are as many as its number, those of the others  *)
(* are others.                                                              *)
LEMMA UnitsOfOneMore ==
    ASSUME NEW S, NEW f, NEW x \in S, f[x] \in Nat, IsFiniteSet(Units(f, S \ {x}))
    PROVE  /\ IsFiniteSet(Units(f, S))
           /\ Cardinality(Units(f, S)) = f[x] + Cardinality(Units(f, S \ {x}))
<1>. DEFINE U == {x} \X (1 .. f[x])
            V == Units(f, S \ {x})
<1>1. IsFiniteSet(U) /\ Cardinality(U) = f[x]
  <2>1. IsFiniteSet(1 .. f[x]) /\ Cardinality(1 .. f[x]) = f[x]
    BY FS_Interval
  <2>2. IsFiniteSet({x}) /\ Cardinality({x}) = 1
    BY FS_Singleton
  <2>3. IsFiniteSet(U) /\ Cardinality(U) = Cardinality({x}) * Cardinality(1 .. f[x])
    BY <2>1, <2>2, FS_Product
  <2>. QED
    BY <2>1, <2>2, <2>3
<1>2. Units(f, S) = U \cup V
  BY DEF Units
<1>3. U \cap V = {}
  BY DEF Units
<1>4. /\ IsFiniteSet(U \cup V)
      /\ Cardinality(U \cup V) = Cardinality(U) + Cardinality(V) - Cardinality(U \cap V)
  <2>1. IsFiniteSet(V)
    OBVIOUS
  <2>. HIDE DEF U, V
  <2>. QED
    BY <1>1, <2>1, FS_Union
<1>5. Cardinality(U \cap V) = 0 /\ Cardinality(V) \in Nat
  BY <1>3, FS_EmptySet, FS_CardinalityType
<1>. QED
  BY <1>1, <1>2, <1>4, <1>5

(* Finitely many numbers have finitely many units.                          *)
LEMMA UnitsFinite ==
    ASSUME NEW S, IsFiniteSet(S), NEW f, \A x \in S : f[x] \in Nat
    PROVE  IsFiniteSet(Units(f, S))
<1>. DEFINE F == {T \in SUBSET S : ~IsFiniteSet(Units(f, T))}
<1>. SUFFICES ASSUME F # {} PROVE FALSE
  OBVIOUS
<1>1. PICK A \in F : \A B \in F : B \subseteq A => B = A
  <2>. HIDE DEF F
  <2>1. \A A \in F : A \subseteq S
    BY DEF F
  <2>. QED
    BY <2>1, MinimalSubset
<1>2. A # {}
  <2>1. Units(f, {}) = {}
    BY DEF Units
  <2>. QED
    BY <2>1, FS_EmptySet
<1>3. PICK x \in A : TRUE
  BY <1>2
<1>4. IsFiniteSet(Units(f, A \ {x}))
  BY <1>1
<1>. QED
  BY <1>4, UnitsOfOneMore

SumRule(f, S, sum) ==
    sum = [s \in SUBSET S |-> IF s = {} THEN 0
                              ELSE f[CHOOSE x \in s : TRUE] + sum[s \ {CHOOSE x \in s : TRUE}]]

(* A sum is the number of its units.                                        *)
LEMMA SumCountsUnits ==
    ASSUME NEW S, IsFiniteSet(S), NEW f, \A x \in S : f[x] \in Nat
    PROVE  SumFunctionOnSet(f, S) = Cardinality(Units(f, S))
<1>. DEFINE count == [s \in SUBSET S |-> Cardinality(Units(f, s))]
            next(s) == CHOOSE x \in s : TRUE
<1>1. count[{}] = 0
  <2>1. Units(f, {}) = {}
    BY DEF Units
  <2>. QED
    BY <2>1, FS_EmptySet
<1>2. \A s \in SUBSET S : s # {} => count[s] = f[next(s)] + count[s \ {next(s)}]
  <2>. SUFFICES ASSUME NEW s \in SUBSET S, s # {} PROVE count[s] = f[next(s)] + count[s \ {next(s)}]
    OBVIOUS
  <2>1. next(s) \in s
    OBVIOUS
  <2>2. IsFiniteSet(Units(f, s \ {next(s)}))
    <3>1. IsFiniteSet(s \ {next(s)})
      BY FS_Subset
    <3>. QED
      BY <3>1, UnitsFinite
  <2>. QED
    BY <2>1, <2>2, UnitsOfOneMore
<1>3. SumRule(f, S, count)
  BY <1>1, <1>2 DEF SumRule
<1>4. ASSUME NEW sum, SumRule(f, S, sum) PROVE sum = count
  <2>. DEFINE F == {s \in SUBSET S : sum[s] # count[s]}
  <2>1. CASE F = {}
    BY <2>1, <1>4 DEF SumRule
  <2>2. CASE F # {}
    <3>1. PICK A \in F : \A B \in F : B \subseteq A => B = A
      <4>1. \A A \in F : A \subseteq S
        OBVIOUS
      <4>. HIDE DEF F
      <4>. QED
        BY <2>2, <4>1, MinimalSubset
    <3>2. A # {}
      BY <1>1, <1>4 DEF SumRule
    <3>3. sum[A] = f[next(A)] + sum[A \ {next(A)}]
      BY <1>4, <3>2 DEF SumRule
    <3>4. sum[A \ {next(A)}] = count[A \ {next(A)}]
      <4>1. next(A) \in A
        BY <3>2
      <4>2. A \ {next(A)} \notin F
        BY <3>1, <4>1
      <4>. QED
        BY <4>2
    <3>. QED
      BY <1>2, <3>1, <3>2, <3>3, <3>4
  <2>. QED
    BY <2>1, <2>2
<1>5. SumFunctionOnSet(f, S) = count[S]
  <2>. HIDE DEF count, next
  <2>. QED
    BY <1>3, <1>4 DEF SumFunctionOnSet, FoldFunctionOnSet, MapThenFoldSet, SumRule
<1>. QED
  BY <1>5

-----------------------------------------------------------------------------
(***************************************************************************)
(* Paths.  The recursive query finds the paths down from every session that *)
(* repeat none but their last.                                            *)
(***************************************************************************)

Descents(d, n) ==
    {q \in [1 .. n + 1 -> d.rows] : /\ \A i \in 1 .. n : d.parent[q[i + 1]] = q[i]
                                    /\ \A i, j \in 1 .. n : q[i] = q[j] => i = j}

(* A path of one session.                                                   *)
LEMMA DescentsBegin == ASSUME NEW d PROVE {<<s>> : s \in d.rows} = Descents(d, 0)
<1>1. ASSUME NEW s \in d.rows PROVE <<s>> \in Descents(d, 0)
  BY DEF Descents
<1>2. ASSUME NEW q \in Descents(d, 0) PROVE q \in {<<s>> : s \in d.rows}
  <2>1. q \in [1 .. 1 -> d.rows]
    BY DEF Descents
  <2>2. q = <<q[1]>> /\ q[1] \in d.rows
    BY <2>1
  <2>. QED
    BY <2>2
<1>. QED
  BY <1>1, <1>2

(* Going one session further down, from every path without a repetition.    *)
LEMMA DescentsGoOn ==
    ASSUME NEW d, NEW n \in Nat
    PROVE  Deeper(d, Descents(d, n)) = Descents(d, n + 1)
<1>1. ASSUME NEW q \in Deeper(d, Descents(d, n)) PROVE q \in Descents(d, n + 1)
  <2>1. PICK p \in Descents(d, n), c \in d.rows :
            ~Cyclic(p) /\ d.parent[c] = Last(p) /\ q = Append(p, c)
    BY <1>1 DEF Deeper
  <2>2. p \in [1 .. n + 1 -> d.rows] /\ p \in Seq(d.rows) /\ Len(p) = n + 1
    BY <2>1 DEF Descents
  <2>3. /\ q \in [1 .. n + 2 -> d.rows]
        /\ \A i \in 1 .. n + 1 : q[i] = p[i]
        /\ q[n + 2] = c
    <3>1. /\ q \in Seq(d.rows) /\ Len(q) = n + 2 /\ q[n + 2] = c
          /\ \A i \in 1 .. n + 1 : q[i] = p[i]
      <4>1. n + 1 + 1 = n + 2
        OBVIOUS
      <4>. QED
        BY <2>1, <2>2, <4>1
    <3>. QED
      BY <3>1
  <2>4. \A i \in 1 .. n + 1 : d.parent[q[i + 1]] = q[i]
    <3>. SUFFICES ASSUME NEW i \in 1 .. n + 1 PROVE d.parent[q[i + 1]] = q[i]
      OBVIOUS
    <3>1. CASE i = n + 1
      BY <2>1, <2>2, <2>3, <3>1 DEF Last
    <3>2. CASE i \in 1 .. n
      BY <2>1, <2>3, <3>2 DEF Descents
    <3>. QED
      BY <3>1, <3>2
  <2>5. \A i \in 1 .. n : p[i] # p[n + 1]
    BY <2>1, <2>2 DEF Cyclic, Last
  <2>6. \A i, j \in 1 .. n + 1 : p[i] = p[j] => i = j
    <3>. SUFFICES ASSUME NEW i \in 1 .. n + 1, NEW j \in 1 .. n + 1, p[i] = p[j] PROVE i = j
      OBVIOUS
    <3>1. CASE i \in 1 .. n /\ j \in 1 .. n
      BY <2>1, <3>1 DEF Descents
    <3>. QED
      BY <2>5, <3>1
  <2>7. n + 1 + 1 = n + 2
    OBVIOUS
  <2>. QED
    BY <2>3, <2>4, <2>6, <2>7 DEF Descents
<1>2. ASSUME NEW q \in Descents(d, n + 1) PROVE q \in Deeper(d, Descents(d, n))
  <2>. DEFINE p == [i \in 1 .. n + 1 |-> q[i]]
              c == q[n + 2]
  <2>1. /\ q \in [1 .. n + 2 -> d.rows]
        /\ \A i \in 1 .. n + 1 : d.parent[q[i + 1]] = q[i]
        /\ \A i, j \in 1 .. n + 1 : q[i] = q[j] => i = j
    <3>1. n + 1 + 1 = n + 2
      OBVIOUS
    <3>. QED
      BY <3>1 DEF Descents
  <2>2. p \in Descents(d, n) /\ p \in Seq(d.rows) /\ Len(p) = n + 1
    BY <2>1 DEF Descents
  <2>3. ~Cyclic(p)
    BY <2>1, <2>2 DEF Cyclic, Last
  <2>4. c \in d.rows /\ d.parent[c] = Last(p)
    BY <2>1, <2>2 DEF Last
  <2>5. q = Append(p, c)
    BY <2>1, <2>2
  <2>. QED
    BY <2>2, <2>3, <2>4, <2>5 DEF Deeper
<1>. QED
  BY <1>1, <1>2

LevelRule(d, level) ==
    level = [n \in 0 .. Cardinality(d.rows) |->
                IF n = 0 THEN {<<s>> : s \in d.rows} ELSE Deeper(d, level[n - 1])]

(* The query finds these paths and no others.                               *)
LEMMA SubtreeRowsAre ==
    ASSUME NEW d, IsFiniteSet(d.rows)
    PROVE  SubtreeRows(d) = UNION {Descents(d, n) : n \in 0 .. Cardinality(d.rows)}
<1>. DEFINE N == Cardinality(d.rows)
            all == [n \in 0 .. N |-> Descents(d, n)]
<1>1. N \in Nat
  BY FS_CardinalityType
<1>2. all[0] = {<<s>> : s \in d.rows} /\ \A n \in 1 .. N : all[n] = Deeper(d, all[n - 1])
  <2>1. ASSUME NEW n \in 1 .. N PROVE all[n] = Deeper(d, all[n - 1])
    <3>1. n - 1 \in Nat /\ n - 1 + 1 = n /\ n - 1 \in 0 .. N /\ n \in 0 .. N
      BY <1>1
    <3>. QED
      BY <3>1, DescentsGoOn
  <2>. QED
    BY <1>1, <2>1, DescentsBegin
<1>3. LevelRule(d, all)
  BY <1>2 DEF LevelRule
<1>4. ASSUME NEW level, LevelRule(d, level) PROVE level = all
  <2>. DEFINE F == {n \in 0 .. N : level[n] # all[n]}
  <2>0. F \subseteq Nat
    OBVIOUS
  <2>1. CASE F = {}
    BY <2>1, <1>4 DEF LevelRule
  <2>2. CASE F # {}
    <3>1. PICK m \in F : \A n \in F : m <= n
      <4>. HIDE DEF F
      <4>. QED
        BY <2>0, <2>2, LeastNumber
    <3>2. m # 0
      BY <1>1, <1>2, <1>4 DEF LevelRule
    <3>3. m - 1 \in 0 .. N /\ m - 1 \notin F /\ m \in 1 .. N
      BY <1>1, <3>1, <3>2
    <3>4. level[m] = Deeper(d, level[m - 1])
      BY <1>4, <3>2, <3>3 DEF LevelRule
    <3>. QED
      BY <1>2, <3>1, <3>3, <3>4
  <2>. QED
    BY <2>1, <2>2
<1>5. SubtreeRows(d) = UNION {all[n] : n \in 0 .. N}
  <2>. DEFINE lv == CHOOSE level : LevelRule(d, level)
  <2>1. lv = all
    <3>. HIDE DEF all
    <3>. QED
      BY <1>3, <1>4
  <2>2. SubtreeRows(d) = UNION {lv[n] : n \in 0 .. N}
    BY DEF SubtreeRows, LevelRule
  <2>. QED
    BY <2>1, <2>2
<1>. QED
  BY <1>5

NoneRepeats(d) == \A p \in SubtreeRows(d) : ~Cyclic(p)

(* A path without a repetition is no longer than the table.                 *)
LEMMA PathFits ==
    ASSUME NEW S, IsFiniteSet(S), NEW m \in Nat, NEW q \in [1 .. m -> S],
           \A i, j \in 1 .. m : q[i] = q[j] => i = j
    PROVE  m <= Cardinality(S)
<1>1. q \in Injection(1 .. m, S)
  BY DEF Injection, IsInjective
<1>2. Cardinality(1 .. m) <= Cardinality(S)
  BY <1>1, FS_Injection
<1>3. Cardinality(1 .. m) = m
  BY FS_Interval
<1>. QED
  BY <1>2, <1>3

(* When the query finds no repetition, a path that starts like one of its   *)
(* own is one of its own, and repeats nothing.                              *)
LEMMA PathOf ==
    ASSUME NEW d, IsFiniteSet(d.rows), NoneRepeats(d),
           NEW n \in Nat, n <= Cardinality(d.rows), NEW q \in Descents(d, n)
    PROVE  /\ q \in SubtreeRows(d)
           /\ n + 1 <= Cardinality(d.rows)
           /\ \A i, j \in 1 .. n + 1 : q[i] = q[j] => i = j
           /\ Len(q) = n + 1 /\ Last(q) = q[n + 1]
<1>0. Cardinality(d.rows) \in Nat /\ n \in 0 .. Cardinality(d.rows)
  BY FS_CardinalityType
<1>1. q \in SubtreeRows(d)
  BY <1>0, SubtreeRowsAre
<1>2. q \in [1 .. n + 1 -> d.rows] /\ Len(q) = n + 1 /\ Last(q) = q[n + 1]
  BY DEF Descents, Last
<1>3. \A i \in 1 .. n : q[i] # q[n + 1]
  BY <1>1, <1>2 DEF NoneRepeats, Cyclic
<1>4. \A i, j \in 1 .. n + 1 : q[i] = q[j] => i = j
  <2>1. \A i, j \in 1 .. n : q[i] = q[j] => i = j
    BY DEF Descents
  <2>. QED
    BY <1>3, <2>1
<1>5. n + 1 <= Cardinality(d.rows)
  BY <1>2, <1>4, PathFits
<1>. QED
  BY <1>1, <1>2, <1>4, <1>5

(* What the query finds.                                                    *)
LEMMA PathHas ==
    ASSUME NEW d, IsFiniteSet(d.rows), NEW p \in SubtreeRows(d)
    PROVE  \E n \in 0 .. Cardinality(d.rows) : n \in Nat /\ p \in Descents(d, n)
<1>1. Cardinality(d.rows) \in Nat
  BY FS_CardinalityType
<1>. QED
  BY <1>1, SubtreeRowsAre

(* A query without a repetition has seen a database without a cycle: the    *)
(* longest path inside one could be prolonged upwards.                      *)
LEMMA NoCycleUnseen ==
    ASSUME NEW d, IsFiniteSet(d.rows), NoneRepeats(d)
    PROVE  ~HasCycle(d)
<1>. SUFFICES ASSUME NEW C \in SUBSET d.rows, C # {}, \A s \in C : d.parent[s] \in C
              PROVE  FALSE
  BY DEF HasCycle
<1>. DEFINE N == Cardinality(d.rows)
            L == {n \in 0 .. N : \E q \in Descents(d, n) : \A i \in 1 .. n + 1 : q[i] \in C}
<1>1. N \in Nat
  BY FS_CardinalityType
<1>2. L \in SUBSET Nat /\ IsFiniteSet(L)
  <2>1. IsFiniteSet(0 .. N)
    BY <1>1, FS_Interval
  <2>2. L \in SUBSET (0 .. N) /\ L \in SUBSET Nat
    OBVIOUS
  <2>. HIDE DEF L
  <2>. QED
    BY <2>1, <2>2, FS_Subset
<1>3. L # {}
  <2>1. PICK s \in C : TRUE
    OBVIOUS
  <2>2. <<s>> \in Descents(d, 0)
    BY DescentsBegin
  <2>3. 0 \in L
    BY <1>1, <2>2
  <2>. QED
    BY <2>3
<1>4. PICK n \in L : \A k \in L : k <= n
  <2>. HIDE DEF L
  <2>. QED
    BY <1>2, <1>3, MaxOfFinite
<1>5. PICK q \in Descents(d, n) : \A i \in 1 .. n + 1 : q[i] \in C
  OBVIOUS
<1>6. n \in Nat /\ n + 1 \in 0 .. N /\ \A i, j \in 1 .. n + 1 : q[i] = q[j] => i = j
  BY <1>1, PathOf
<1>7. \A i \in 1 .. n : d.parent[q[i + 1]] = q[i]
  BY DEF Descents
<1>. DEFINE u == d.parent[q[1]]
            up(m) == [i \in 1 .. m + 1 |-> IF i = 1 THEN u ELSE q[i - 1]]
<1>8. u \in C
  BY <1>5, <1>6
<1>9. ASSUME NEW m \in 1 .. n + 1, \A i \in 1 .. m - 1 : q[i] # u
      PROVE  up(m) \in Descents(d, m) /\ \A i \in 1 .. m + 1 : up(m)[i] \in C
  <2>1. \A i \in 1 .. m + 1 : up(m)[i] \in C /\ up(m)[i] = IF i = 1 THEN u ELSE q[i - 1]
    BY <1>5, <1>6, <1>8
  <2>2. up(m) \in [1 .. m + 1 -> d.rows]
    BY <2>1
  <2>3. \A i \in 1 .. m : d.parent[up(m)[i + 1]] = up(m)[i]
    <3>. SUFFICES ASSUME NEW i \in 1 .. m PROVE d.parent[up(m)[i + 1]] = up(m)[i]
      OBVIOUS
    <3>1. i + 1 \in 1 .. m + 1 /\ i \in 1 .. m + 1 /\ i + 1 - 1 = i /\ i + 1 # 1
      BY <1>6
    <3>2. up(m)[i + 1] = q[i]
      BY <2>1, <3>1
    <3>3. CASE i = 1
      BY <2>1, <3>1, <3>2, <3>3
    <3>4. CASE i # 1
      <4>1. i - 1 \in 1 .. n /\ i - 1 + 1 = i
        BY <1>6, <3>4
      <4>2. up(m)[i] = q[i - 1]
        BY <2>1, <3>1, <3>4
      <4>. QED
        BY <1>7, <3>2, <4>1, <4>2
    <3>. QED
      BY <3>3, <3>4
  <2>4. \A i, j \in 1 .. m : up(m)[i] = up(m)[j] => i = j
    <3>. HIDE DEF u, up
    <3>. SUFFICES ASSUME NEW i \in 1 .. m, NEW j \in 1 .. m, up(m)[i] = up(m)[j] PROVE i = j
      OBVIOUS
    <3>1. i \in 1 .. m + 1 /\ j \in 1 .. m + 1
      BY <1>6
    <3>2. CASE i # 1 /\ j # 1
      BY <1>6, <2>1, <3>1, <3>2
    <3>3. CASE i = 1 /\ j # 1
      BY <1>6, <1>9, <2>1, <3>1, <3>3
    <3>4. CASE i # 1 /\ j = 1
      BY <1>6, <1>9, <2>1, <3>1, <3>4
    <3>. QED
      BY <3>2, <3>3, <3>4
  <2>. QED
    BY <2>1, <2>2, <2>3, <2>4 DEF Descents
<1>10. CASE \A i \in 1 .. n : q[i] # u
  <2>1. n + 1 \in 1 .. n + 1 /\ n + 1 - 1 = n
    BY <1>6
  <2>2. /\ up(n + 1) \in Descents(d, n + 1)
        /\ \A i \in 1 .. n + 1 + 1 : up(n + 1)[i] \in C
    <3>. HIDE DEF u, up
    <3>. QED
      BY <1>9, <1>10, <2>1
  <2>3. n + 1 \in L
    BY <1>6, <2>2
  <2>. QED
    BY <1>4, <1>6, <2>3
<1>11. CASE \E i \in 1 .. n : q[i] = u
  <2>1. PICK j \in 1 .. n : q[j] = u
    BY <1>11
  <2>2. j \in 1 .. n + 1 /\ j \in Nat /\ j <= N /\ \A i \in 1 .. j - 1 : q[i] # u
    <3>1. j \in 1 .. n + 1 /\ j \in Nat /\ j <= N
      BY <1>1, <1>6
    <3>2. \A i \in 1 .. j - 1 : i \in 1 .. n + 1 /\ i # j
      BY <1>6
    <3>. QED
      BY <1>6, <2>1, <3>1, <3>2
  <2>3. up(j) \in Descents(d, j)
    <3>. HIDE DEF u, up
    <3>. QED
      BY <1>9, <2>2
  <2>4. up(j)[1] = up(j)[j + 1]
    BY <2>1, <2>2
  <2>5. 1 \in 1 .. j + 1 /\ j + 1 \in 1 .. j + 1 /\ 1 # j + 1
    BY <2>2
  <2>. HIDE DEF u, up
  <2>. QED
    BY <2>2, <2>3, <2>4, <2>5, PathOf
<1>. QED
  BY <1>10, <1>11

PathsFrom(d, root) == {q \in SubtreeRows(d) : q[1] = root}

(* Every session of a subtree is the last of one path from its root.        *)
LEMMA OnePathEach ==
    ASSUME NEW d, d.rows \subseteq Ids, NoneRepeats(d), NEW root \in d.rows
    PROVE  [p \in PathsFrom(d, root) |-> Last(p)]
               \in Bijection(PathsFrom(d, root), Subtree(d, {root}))
<1>. DEFINE N == Cardinality(d.rows)
            P == PathsFrom(d, root)
            T == Subtree(d, {root})
            last == [p \in P |-> Last(p)]
<1>0. IsFiniteSet(d.rows) /\ N \in Nat
  BY IdsAssumption, FS_Subset, FS_CardinalityType
<1>1. /\ T \subseteq d.rows /\ root \in T
      /\ \A s \in d.rows : d.parent[s] \in T => s \in T
  BY SubtreeClosed DEF ClosedUnderChildren
<1>2. ASSUME NEW p \in P
      PROVE  \E n \in 0 .. N :
                 /\ n \in Nat /\ p \in Descents(d, n) /\ p \in [1 .. n + 1 -> d.rows] /\ p[1] = root
                 /\ \A i \in 1 .. n : d.parent[p[i + 1]] = p[i]
                 /\ \A i, j \in 1 .. n + 1 : p[i] = p[j] => i = j
                 /\ Len(p) = n + 1 /\ Last(p) = p[n + 1] /\ n + 1 <= N
  <2>1. p \in SubtreeRows(d) /\ p[1] = root
    BY DEF PathsFrom
  <2>2. PICK n \in 0 .. N : n \in Nat /\ p \in Descents(d, n)
    BY <1>0, <2>1, PathHas
  <2>3. n <= N
    BY <1>0
  <2>. QED
    BY <1>0, <2>1, <2>2, <2>3, PathOf DEF Descents
<1>3. ASSUME NEW p \in P PROVE Last(p) \in T
  <2>1. PICK n \in 0 .. N :
            /\ n \in Nat /\ p \in [1 .. n + 1 -> d.rows] /\ p[1] = root
            /\ \A i \in 1 .. n : d.parent[p[i + 1]] = p[i]
            /\ Last(p) = p[n + 1]
    BY <1>2
  <2>. DEFINE F == {i \in 1 .. n + 1 : p[i] \notin T}
  <2>2. CASE F = {}
    <3>0. n + 1 \in 1 .. n + 1
      BY <2>1
    <3>1. n + 1 \notin F
      <4>. HIDE DEF F
      <4>. QED
        BY <2>2
    <3>. QED
      BY <2>1, <3>0, <3>1
  <2>3. CASE F # {}
    <3>1. F \in SUBSET Nat
      OBVIOUS
    <3>2. PICK k \in F : \A i \in F : k <= i
      <4>. HIDE DEF F
      <4>. QED
        BY <2>3, <3>1, LeastNumber
    <3>3. k \in 1 .. n + 1 /\ p[k] \notin T /\ k # 1
      BY <1>1, <2>1
    <3>4. k - 1 \in 1 .. n /\ k - 1 + 1 = k /\ k - 1 \in 1 .. n + 1 /\ ~(k <= k - 1)
      BY <2>1, <3>3
    <3>a. k - 1 \notin F
      <4>. HIDE DEF F
      <4>. QED
        BY <3>2, <3>4
    <3>5. p[k - 1] \in T /\ d.parent[p[k]] = p[k - 1] /\ p[k] \in d.rows
      BY <2>1, <3>3, <3>4, <3>a
    <3>. QED
      BY <1>1, <3>3, <3>5
  <2>. QED
    BY <2>2, <2>3
<1>4. last \in Surjection(P, T)
  <2>. DEFINE C == {Last(p) : p \in P}
  <2>1. <<root>> \in P /\ Last(<<root>>) = root
    <3>1. <<root>> \in Descents(d, 0)
      BY DescentsBegin
    <3>2. <<root>> \in SubtreeRows(d)
      BY <1>0, <3>1, SubtreeRowsAre
    <3>. QED
      BY <3>2 DEF PathsFrom, Last
  <2>2. ASSUME NEW s \in d.rows, NEW p \in P, d.parent[s] = Last(p) PROVE s \in C
    <3>1. PICK n \in 0 .. N : /\ n \in Nat /\ p \in Descents(d, n) /\ p \in [1 .. n + 1 -> d.rows]
                              /\ p[1] = root /\ Len(p) = n + 1 /\ n + 1 <= N
      BY <1>2
    <3>2. ~Cyclic(p)
      BY DEF NoneRepeats, PathsFrom
    <3>3. Append(p, s) \in Descents(d, n + 1)
      <4>1. Append(p, s) \in Deeper(d, Descents(d, n))
        BY <2>2, <3>1, <3>2 DEF Deeper
      <4>. QED
        BY <3>1, <4>1, DescentsGoOn
    <3>4. Append(p, s) \in SubtreeRows(d)
      <4>1. n + 1 \in 0 .. N
        BY <1>0, <3>1
      <4>. QED
        BY <1>0, <3>3, <4>1, SubtreeRowsAre
    <3>5. Append(p, s)[1] = root /\ Last(Append(p, s)) = s
      <4>1. p \in Seq(d.rows)
        BY <3>1
      <4>. QED
        BY <3>1, <4>1 DEF Last
    <3>6. Append(p, s) \in P
      BY <3>4, <3>5 DEF PathsFrom
    <3>. QED
      BY <3>5, <3>6
  <2>3. C \in SUBSET d.rows /\ ClosedUnderChildren(d, C)
    <3>1. \A p \in P : Last(p) \in d.rows
      BY <1>1, <1>3
    <3>. QED
      BY <2>2, <3>1 DEF ClosedUnderChildren
  <2>4. {root} \cap d.rows \subseteq C
    BY <2>1
  <2>5. T \subseteq C
    <3>. HIDE DEF C
    <3>. QED
      BY <2>3, <2>4, SubtreeLeast
  <2>6. last \in [P -> T]
    BY <1>3
  <2>7. \A t \in T : \E p \in P : last[p] = t
    BY <2>5
  <2>. QED
    BY <2>6, <2>7 DEF Surjection
<1>5. ASSUME NEW p \in P, NEW q \in P, Last(p) = Last(q) PROVE p = q
  <2>1. PICK m \in 0 .. N :
            /\ m \in Nat /\ p \in [1 .. m + 1 -> d.rows] /\ p[1] = root
            /\ \A i \in 1 .. m : d.parent[p[i + 1]] = p[i]
            /\ \A i, j \in 1 .. m + 1 : p[i] = p[j] => i = j
            /\ Last(p) = p[m + 1]
    BY <1>2
  <2>2. PICK n \in 0 .. N :
            /\ n \in Nat /\ q \in [1 .. n + 1 -> d.rows] /\ q[1] = root
            /\ \A i \in 1 .. n : d.parent[q[i + 1]] = q[i]
            /\ \A i, j \in 1 .. n + 1 : q[i] = q[j] => i = j
            /\ Last(q) = q[n + 1]
    BY <1>2
  <2>3. ASSUME NEW i \in Nat, i <= m, i <= n PROVE p[m + 1 - i] = q[n + 1 - i]
    <3>. DEFINE F == {k \in 0 .. i : p[m + 1 - k] # q[n + 1 - k]}
    <3>1. CASE F = {}
      BY <2>3, <3>1
    <3>2. CASE F # {}
      <4>1. F \in SUBSET Nat
        OBVIOUS
      <4>2. PICK k \in F : \A x \in F : k <= x
        <5>. HIDE DEF F
        <5>. QED
          BY <3>2, <4>1, LeastNumber
      <4>3. k \in 0 .. i /\ k # 0
        <5>0. p[m + 1] = q[n + 1]
          BY <1>5, <2>1, <2>2
        <5>1. m + 1 - 0 = m + 1 /\ n + 1 - 0 = n + 1
          BY <2>1, <2>2
        <5>. QED
          BY <5>0, <5>1
      <4>4. k - 1 \in 0 .. i /\ k - 1 \notin F
        BY <2>3, <4>2, <4>3
      <4>5. p[m + 1 - (k - 1)] = q[n + 1 - (k - 1)]
        BY <4>4
      <4>6. m + 1 - k \in 1 .. m /\ m + 1 - k + 1 = m + 1 - (k - 1)
        BY <2>1, <2>3, <4>3
      <4>7. n + 1 - k \in 1 .. n /\ n + 1 - k + 1 = n + 1 - (k - 1)
        BY <2>2, <2>3, <4>3
      <4>8. p[m + 1 - k] = q[n + 1 - k]
        <5>1. d.parent[p[m + 1 - (k - 1)]] = p[m + 1 - k]
          BY <2>1, <4>6
        <5>2. d.parent[q[n + 1 - (k - 1)]] = q[n + 1 - k]
          BY <2>2, <4>7
        <5>. QED
          BY <4>5, <5>1, <5>2
      <4>. QED
        BY <4>2, <4>8
    <3>. QED
      BY <3>1, <3>2
  <2>4. m = n
    <3>1. CASE m < n
      <4>1. p[m + 1 - m] = q[n + 1 - m] /\ m + 1 - m = 1
        BY <2>1, <2>2, <2>3, <3>1
      <4>2. n + 1 - m \in 1 .. n + 1 /\ n + 1 - m # 1 /\ 1 \in 1 .. n + 1
        BY <2>1, <2>2, <3>1
      <4>. QED
        BY <2>1, <2>2, <4>1, <4>2
    <3>2. CASE n < m
      <4>1. p[m + 1 - n] = q[n + 1 - n] /\ n + 1 - n = 1
        BY <2>1, <2>2, <2>3, <3>2
      <4>2. m + 1 - n \in 1 .. m + 1 /\ m + 1 - n # 1 /\ 1 \in 1 .. m + 1
        BY <2>1, <2>2, <3>2
      <4>. QED
        BY <2>1, <2>2, <4>1, <4>2
    <3>. QED
      BY <2>1, <2>2, <3>1, <3>2
  <2>5. \A x \in 1 .. m + 1 : p[x] = q[x]
    <3>. SUFFICES ASSUME NEW x \in 1 .. m + 1 PROVE p[x] = q[x]
      OBVIOUS
    <3>. DEFINE i == m + 1 - x
    <3>1. i \in Nat /\ i <= m /\ i <= n /\ m + 1 - i = x /\ n + 1 - i = x
      BY <2>1, <2>4
    <3>. HIDE DEF i
    <3>2. p[m + 1 - i] = q[n + 1 - i]
      BY <2>3, <3>1
    <3>. QED
      BY <3>1, <3>2
  <2>. QED
    BY <2>1, <2>2, <2>4, <2>5
<1>6. last \in Injection(P, T)
  <2>1. last \in [P -> T]
    BY <1>3
  <2>2. \A p, q \in P : last[p] = last[q] => p = q
    BY <1>5
  <2>. QED
    BY <2>1, <2>2 DEF Injection, IsInjective
<1>. QED
  BY <1>4, <1>6 DEF Bijection

(* Numbers that correspond one to one have the same sum.                    *)
LEMMA SumsAgree ==
    ASSUME NEW S, NEW T, IsFiniteSet(T), NEW g \in Bijection(S, T), NEW f, NEW h,
           \A x \in S : f[x] = h[g[x]], \A t \in T : h[t] \in Nat
    PROVE  /\ IsFiniteSet(S)
           /\ SumFunctionOnSet(f, S) = SumFunctionOnSet(h, T)
           /\ SumFunctionOnSet(f, S) \in Nat
<1>1. g \in [S -> T] /\ \A x, y \in S : g[x] = g[y] => x = y
  BY DEF Bijection, Injection, IsInjective
<1>2. \A t \in T : \E x \in S : g[x] = t
  BY DEF Bijection, Surjection
<1>3. IsFiniteSet(S)
  BY FS_Injection DEF Bijection
<1>4. \A x \in S : f[x] \in Nat
  BY <1>1
<1>. DEFINE U == Units(f, S)
            V == Units(h, T)
            b == [u \in U |-> <<g[u[1]], u[2]>>]
<1>5. \A u \in U : u = <<u[1], u[2]>> /\ u[1] \in S /\ u[2] \in Nat /\ u[2] \in 1 .. f[u[1]]
  BY DEF Units
<1>6. \A v \in V : v = <<v[1], v[2]>> /\ v[1] \in T /\ v[2] \in Nat /\ v[2] \in 1 .. h[v[1]]
  BY DEF Units
<1>7. b \in Surjection(U, V)
  <2>1. b \in [U -> V]
    <3>. SUFFICES ASSUME NEW u \in U PROVE <<g[u[1]], u[2]>> \in V
      OBVIOUS
    <3>1. g[u[1]] \in T /\ u[2] \in Nat /\ u[2] \in 1 .. h[g[u[1]]]
      BY <1>1, <1>5
    <3>. QED
      BY <3>1 DEF Units
  <2>2. ASSUME NEW v \in V PROVE \E u \in U : b[u] = v
    <3>1. PICK x \in S : g[x] = v[1]
      BY <1>2, <1>6
    <3>2. v[2] \in Nat /\ v[2] \in 1 .. f[x]
      BY <1>6, <3>1
    <3>3. <<x, v[2]>> \in U
      BY <3>2 DEF Units
    <3>4. b[<<x, v[2]>>] = v
      BY <1>6, <3>1, <3>3
    <3>. QED
      BY <3>3, <3>4
  <2>. QED
    BY <2>1, <2>2 DEF Surjection
<1>8. b \in Injection(U, V)
  <2>1. b \in [U -> V]
    BY <1>7 DEF Surjection
  <2>2. ASSUME NEW u \in U, NEW w \in U, b[u] = b[w] PROVE u = w
    <3>1. g[u[1]] = g[w[1]] /\ u[2] = w[2]
      BY <2>2
    <3>. QED
      BY <1>1, <1>5, <3>1
  <2>. QED
    BY <2>1, <2>2 DEF Injection, IsInjective
<1>9. IsFiniteSet(U) /\ IsFiniteSet(V)
  BY <1>3, <1>4, UnitsFinite
<1>10. Cardinality(U) = Cardinality(V) /\ Cardinality(U) \in Nat
  <2>1. b \in Bijection(U, V)
    BY <1>7, <1>8 DEF Bijection
  <2>2. ExistsBijection(U, V)
    BY <2>1 DEF ExistsBijection
  <2>. HIDE DEF U, V, b
  <2>. QED
    BY <1>9, <2>2, FS_Bijection, FS_CardinalityType
<1>. QED
  BY <1>3, <1>4, <1>10, SumCountsUnits

(* The query adds up every session of a subtree once.                       *)
LEMMA BytesOfSubtree ==
    ASSUME NEW d, d.rows \subseteq Ids, NoneRepeats(d), NEW root \in d.rows
    PROVE  /\ SubtreeBytes(d, root) = SumFunctionOnSet(Bytes, Subtree(d, {root}))
           /\ SubtreeBytes(d, root) \in Nat
<1>. DEFINE P == PathsFrom(d, root)
            T == Subtree(d, {root})
            f == [p \in P |-> Bytes[Last(p)]]
            g == [p \in P |-> Last(p)]
<1>1. g \in Bijection(P, T)
  BY OnePathEach
<1>2. IsFiniteSet(T) /\ \A t \in T : Bytes[t] \in Nat
  BY SubtreeClosed, IdsAssumption, FS_Subset, ReportsAssumption
<1>3. \A p \in P : f[p] = Bytes[g[p]]
  OBVIOUS
<1>4. SubtreeBytes(d, root) = SumFunctionOnSet(f, P)
  BY DEF SubtreeBytes, SumFunction, PathsFrom
<1>. HIDE DEF P, T, f, g
<1>5. SumFunctionOnSet(f, P) = SumFunctionOnSet(Bytes, T) /\ SumFunctionOnSet(f, P) \in Nat
  BY <1>1, <1>2, <1>3, SumsAgree
<1>. QED
  BY <1>4, <1>5 DEF T

-----------------------------------------------------------------------------
(* Ranks *)

Ahead(b, S, s) == {t \in S : b[t] > b[s] \/ (b[t] = b[s] /\ t < s)}

(* Who is ahead of another has fewer ahead.                                 *)
LEMMA FewerAhead ==
    ASSUME NEW S \in SUBSET Nat, IsFiniteSet(S), NEW b \in [S -> Nat], NEW s \in S, NEW t \in S
    PROVE  /\ Cardinality(Ahead(b, S, s)) \in 0 .. Cardinality(S) - 1
           /\ t \in Ahead(b, S, s) => Cardinality(Ahead(b, S, t)) < Cardinality(Ahead(b, S, s))
           /\ s # t => t \in Ahead(b, S, s) \/ s \in Ahead(b, S, t)
<1>1. ASSUME NEW x \in S
      PROVE  /\ IsFiniteSet(Ahead(b, S, x)) /\ Cardinality(Ahead(b, S, x)) \in Nat
             /\ x \notin Ahead(b, S, x)
  <2>1. Ahead(b, S, x) \in SUBSET S /\ x \notin Ahead(b, S, x)
    BY DEF Ahead
  <2>. QED
    BY <2>1, FS_Subset, FS_CardinalityType
<1>2. Cardinality(Ahead(b, S, s)) \in 0 .. Cardinality(S) - 1
  <2>1. Ahead(b, S, s) \in SUBSET (S \ {s})
    BY <1>1 DEF Ahead
  <2>2. IsFiniteSet(S \ {s}) /\ Cardinality(S \ {s}) = Cardinality(S) - 1
    BY FS_RemoveElement
  <2>3. Cardinality(Ahead(b, S, s)) <= Cardinality(S \ {s})
    BY <2>1, <2>2, FS_Subset
  <2>4. Cardinality(S) \in Nat
    BY FS_CardinalityType
  <2>. QED
    BY <1>1, <2>2, <2>3, <2>4
<1>3. ASSUME t \in Ahead(b, S, s)
      PROVE  Cardinality(Ahead(b, S, t)) < Cardinality(Ahead(b, S, s))
  <2>1. ASSUME NEW x \in Ahead(b, S, t) PROVE x \in Ahead(b, S, s)
    <3>1. /\ x \in S /\ (b[x] > b[t] \/ (b[x] = b[t] /\ x < t))
          /\ (b[t] > b[s] \/ (b[t] = b[s] /\ t < s))
      BY <1>3 DEF Ahead
    <3>2. /\ x \in Nat /\ s \in Nat /\ t \in Nat
          /\ b[x] \in Nat /\ b[s] \in Nat /\ b[t] \in Nat
      BY <3>1
    <3>3. b[x] > b[s] \/ (b[x] = b[s] /\ x < s)
      BY <3>1, <3>2
    <3>. QED
      BY <3>1, <3>3 DEF Ahead
  <2>2. Ahead(b, S, t) \cup {t} \in SUBSET Ahead(b, S, s)
    BY <1>3, <2>1
  <2>3. Cardinality(Ahead(b, S, t) \cup {t}) = Cardinality(Ahead(b, S, t)) + 1
    BY <1>1, FS_AddElement
  <2>4. Cardinality(Ahead(b, S, t) \cup {t}) <= Cardinality(Ahead(b, S, s))
    BY <1>1, <2>2, FS_Subset
  <2>. QED
    BY <1>1, <2>3, <2>4
<1>4. s # t => t \in Ahead(b, S, s) \/ s \in Ahead(b, S, t)
  <2>1. s \in Nat /\ t \in Nat /\ b[s] \in Nat /\ b[t] \in Nat
    OBVIOUS
  <2>. QED
    BY <2>1 DEF Ahead
<1>. QED
  BY <1>2, <1>3, <1>4

(* Ranks number the rows from none ahead on.                                *)
LEMMA RanksNumber ==
    ASSUME NEW S \in SUBSET Nat, IsFiniteSet(S), NEW b \in [S -> Nat], NEW i \in 1 .. Cardinality(S)
    PROVE  \E s \in S : Cardinality(Ahead(b, S, s)) = i - 1
<1>. DEFINE N == Cardinality(S)
            rank == [s \in S |-> Cardinality(Ahead(b, S, s))]
<1>0. N \in Nat
  BY FS_CardinalityType
<1>1. rank \in [S -> 0 .. N - 1]
  BY FewerAhead
<1>2. ASSUME NEW s \in S, NEW t \in S, rank[s] = rank[t] PROVE s = t
  <2>1. rank[s] \in Nat /\ rank[t] \in Nat
    BY <1>0, <1>1
  <2>. QED
    BY <1>2, <2>1, FewerAhead
<1>3. rank \in Injection(S, 0 .. N - 1)
  BY <1>1, <1>2 DEF Injection, IsInjective
<1>4. IsFiniteSet(0 .. N - 1) /\ Cardinality(0 .. N - 1) = N
  <2>1. /\ IsFiniteSet(0 .. N - 1)
        /\ Cardinality(0 .. N - 1) = IF 0 > N - 1 THEN 0 ELSE N - 1 - 0 + 1
    <3>1. 0 \in Int /\ N - 1 \in Int
      BY <1>0
    <3>. HIDE DEF N
    <3>. QED
      BY <3>1, FS_Interval
  <2>. QED
    BY <1>0, <2>1
<1>5. rank \in Surjection(S, 0 .. N - 1)
  <2>. HIDE DEF rank
  <2>. QED
    BY <1>3, <1>4, FS_Injection
<1>6. i - 1 \in 0 .. N - 1
  BY <1>0
<1>. QED
  BY <1>5, <1>6 DEF Surjection

(* The report lists as many sessions as it may, each once, and nobody left  *)
(* out has a larger subtree.                                                *)
LEMMA LargestAre ==
    ASSUME NEW d, d.rows \subseteq Ids, \A s \in d.rows : SubtreeBytes(d, s) \in Nat
    PROVE  /\ Range(Largest(d)) \subseteq d.rows
           /\ Cardinality(Range(Largest(d))) = Min({Top, Cardinality(d.rows)})
           /\ \A s \in Range(Largest(d)), t \in d.rows \ Range(Largest(d)) :
                  SubtreeBytes(d, s) >= SubtreeBytes(d, t)
<1>. DEFINE S == d.rows
            b == [s \in S |-> SubtreeBytes(d, s)]
            rank(s) == Cardinality(Ahead(b, S, s))
            k == Min({Top, Cardinality(S)})
            L == Largest(d)
<1>0. S \in SUBSET Nat /\ IsFiniteSet(S) /\ Cardinality(S) \in Nat /\ b \in [S -> Nat]
  BY IdsAssumption, FS_Subset, FS_CardinalityType
<1>1. k \in Nat /\ k <= Cardinality(S) /\ (k = Top \/ k = Cardinality(S)) /\ k <= Top
  <2>1. Top \in Nat
    BY ReportsAssumption
  <2>. QED
    BY <1>0, <2>1 DEF Min
<1>2. L = [i \in 1 .. k |-> CHOOSE s \in S : rank(s) = i - 1]
  BY DEF Largest, Ahead
<1>3. \A i \in 1 .. k : L[i] \in S /\ rank(L[i]) = i - 1
  <2>. SUFFICES ASSUME NEW i \in 1 .. k PROVE L[i] \in S /\ rank(L[i]) = i - 1
    OBVIOUS
  <2>1. i \in 1 .. Cardinality(S)
    BY <1>0, <1>1
  <2>2. \E s \in S : rank(s) = i - 1
    <3>. HIDE DEF S, b
    <3>. QED
      BY <1>0, <2>1, RanksNumber
  <2>3. L[i] = CHOOSE s \in S : rank(s) = i - 1
    BY <1>2
  <2>. HIDE DEF rank, S, L
  <2>. QED
    BY <2>2, <2>3
<1>4. DOMAIN L = 1 .. k
  BY <1>2
<1>. HIDE DEF L, k, rank, b, S
<1>5. Range(L) \subseteq S
  BY <1>3, <1>4 DEF Range
<1>6. Cardinality(Range(L)) = k
  <2>1. L \in Surjection(1 .. k, Range(L))
    <3>1. L \in [1 .. k -> Range(L)]
      BY <1>2, <1>4 DEF Range
    <3>. QED
      BY <1>4, <3>1 DEF Surjection, Range
  <2>2. \A i, j \in 1 .. k : L[i] = L[j] => i = j
    <3>. SUFFICES ASSUME NEW i \in 1 .. k, NEW j \in 1 .. k, L[i] = L[j] PROVE i = j
      OBVIOUS
    <3>1. i - 1 = j - 1 /\ i \in Nat /\ j \in Nat
      BY <1>1, <1>3
    <3>. QED
      BY <3>1
  <2>3. L \in Bijection(1 .. k, Range(L))
    BY <2>1, <2>2, <1>4 DEF Bijection, Injection, IsInjective, Surjection
  <2>4. IsFiniteSet(1 .. k) /\ Cardinality(1 .. k) = k
    BY <1>1, FS_Interval
  <2>5. ExistsBijection(1 .. k, Range(L))
    BY <2>3 DEF ExistsBijection
  <2>. QED
    BY <2>4, <2>5, FS_Bijection
<1>7. ASSUME NEW s \in Range(L), NEW t \in S \ Range(L) PROVE b[s] >= b[t]
  <2>1. PICK i \in 1 .. k : s = L[i]
    BY <1>4 DEF Range
  <2>2. s \in S /\ t \in S /\ rank(s) = i - 1 /\ i \in Nat /\ i <= k
    BY <1>1, <1>3, <2>1
  <2>3. rank(t) \in 0 .. Cardinality(S) - 1
    BY <1>0, <2>2, FewerAhead DEF rank
  <2>4. ~(rank(t) < k)
    <3>. SUFFICES ASSUME rank(t) < k PROVE FALSE
      OBVIOUS
    <3>1. rank(t) + 1 \in 1 .. k /\ rank(t) + 1 - 1 = rank(t)
      BY <1>0, <1>1, <2>3
    <3>. DEFINE j == rank(t) + 1
                u == L[j]
    <3>2. u \in S /\ rank(u) = rank(t)
      <4>1. j \in 1 .. k /\ j - 1 = rank(t)
        BY <1>0, <1>1, <2>3, <3>1
      <4>. HIDE DEF j
      <4>. QED
        BY <1>3, <4>1
    <3>3. u = t
      <4>. HIDE DEF u
      <4>1. ~(rank(u) < rank(t)) /\ ~(rank(t) < rank(u))
        BY <1>0, <2>3, <3>2
      <4>. QED
        BY <1>0, <2>2, <3>2, <4>1, FewerAhead DEF rank
    <3>4. u \in Range(L)
      BY <1>4, <3>1 DEF Range
    <3>. QED
      BY <3>3, <3>4
  <2>5. ~(rank(t) < rank(s))
    BY <1>0, <1>1, <2>2, <2>3, <2>4
  <2>6. s # t
    OBVIOUS
  <2>7. s \in Ahead(b, S, t)
    BY <1>0, <2>2, <2>5, <2>6, FewerAhead DEF rank
  <2>8. b[s] \in Nat /\ b[t] \in Nat
    BY <1>0, <2>2
  <2>. QED
    BY <2>7, <2>8 DEF Ahead
<1>. QED
  BY <1>5, <1>6, <1>7 DEF L, k, S, b

(* Counting by kinds counts everybody once.                                 *)
LEMMA KindsAddUp ==
    ASSUME NEW S, IsFiniteSet(S), NEW n \in Nat, NEW kind \in [S -> 1 .. n]
    PROVE  SumFunction([i \in 1 .. n |-> Cardinality({s \in S : kind[s] = i})]) = Cardinality(S)
<1>. DEFINE of(i) == {s \in S : kind[s] = i}
            f == [i \in 1 .. n |-> Cardinality(of(i))]
            number == [i \in 1 .. n |-> CHOOSE c : c \in Bijection(1 .. f[i], of(i))]
            U == Units(f, 1 .. n)
            named == [u \in U |-> number[u[1]][u[2]]]
<1>1. ASSUME NEW i \in 1 .. n PROVE f[i] \in Nat /\ number[i] \in Bijection(1 .. f[i], of(i))
  <2>1. IsFiniteSet(of(i))
    BY FS_Subset
  <2>2. Cardinality(of(i)) \in Nat /\ ExistsBijection(1 .. Cardinality(of(i)), of(i))
    <3>. HIDE DEF of
    <3>. QED
      BY <2>1, FS_CardinalityType
  <2>3. \E c : c \in Bijection(1 .. f[i], of(i))
    BY <2>2 DEF ExistsBijection
  <2>4. number[i] = CHOOSE c : c \in Bijection(1 .. f[i], of(i))
    OBVIOUS
  <2>5. f[i] \in Nat
    BY <2>2
  <2>. HIDE DEF number, f, of
  <2>. QED
    BY <2>3, <2>4, <2>5
<1>. HIDE DEF number
<1>2. ASSUME NEW i \in 1 .. n
      PROVE  /\ \A m \in 1 .. f[i] : number[i][m] \in S /\ kind[number[i][m]] = i
             /\ \A m, l \in 1 .. f[i] : number[i][m] = number[i][l] => m = l
             /\ \A s \in S : kind[s] = i => \E m \in 1 .. f[i] : number[i][m] = s
  <2>1. /\ number[i] \in [1 .. f[i] -> of(i)]
        /\ \A m, l \in 1 .. f[i] : number[i][m] = number[i][l] => m = l
        /\ \A s \in of(i) : \E m \in 1 .. f[i] : number[i][m] = s
    <3>. HIDE DEF f, of
    <3>. QED
      BY <1>1 DEF Bijection, Injection, IsInjective, Surjection
  <2>. HIDE DEF f
  <2>. QED
    BY <2>1
<1>3. \A u \in U : u = <<u[1], u[2]>> /\ u[1] \in 1 .. n /\ u[2] \in Nat /\ u[2] \in 1 .. f[u[1]]
  <2>. HIDE DEF f
  <2>. QED
    BY DEF Units
<1>. HIDE DEF f
<1>4. named \in [U -> S]
  BY <1>2, <1>3
<1>5. ASSUME NEW u \in U, NEW w \in U, named[u] = named[w] PROVE u = w
  <2>1. u[1] = kind[named[u]] /\ w[1] = kind[named[w]]
    BY <1>2, <1>3
  <2>2. u[1] = w[1] /\ number[u[1]][u[2]] = number[u[1]][w[2]]
    BY <1>5, <2>1
  <2>3. u[2] = w[2]
    BY <1>2, <1>3, <2>2
  <2>. QED
    BY <1>3, <2>2, <2>3
<1>6. ASSUME NEW s \in S PROVE \E u \in U : named[u] = s
  <2>1. PICK m \in 1 .. f[kind[s]] : number[kind[s]][m] = s
    BY <1>2
  <2>2. f[kind[s]] \in Nat /\ m \in Nat
    <3>1. kind[s] \in 1 .. n
      OBVIOUS
    <3>2. f[kind[s]] \in Nat
      BY <1>1, <3>1
    <3>. QED
      BY <3>2
  <2>3. <<kind[s], m>> \in U
    BY <2>1, <2>2 DEF Units
  <2>4. named[<<kind[s], m>>] = s
    BY <2>1, <2>3
  <2>. QED
    BY <2>3, <2>4
<1>7. IsFiniteSet(1 .. n) /\ IsFiniteSet(U)
  <2>1. IsFiniteSet(1 .. n)
    BY FS_Interval
  <2>. QED
    BY <1>1, <2>1, UnitsFinite
<1>8. Cardinality(U) = Cardinality(S)
  <2>1. named \in Bijection(U, S)
    BY <1>4, <1>5, <1>6 DEF Bijection, Injection, IsInjective, Surjection
  <2>2. ExistsBijection(U, S)
    BY <2>1 DEF ExistsBijection
  <2>. HIDE DEF U, named
  <2>. QED
    BY <1>7, <2>2, FS_Bijection
<1>9. SumFunctionOnSet(f, 1 .. n) = Cardinality(U)
  BY <1>1, <1>7, SumCountsUnits
<1>10. SumFunction(f) = SumFunctionOnSet(f, 1 .. n)
  BY DEF SumFunction, f
<1>. QED
  BY <1>8, <1>9, <1>10 DEF f

(* Every session has one age.                                               *)
LEMMA AgesAddUp ==
    ASSUME NEW d, d.rows \subseteq Ids
    PROVE  SumFunction([i \in 1 .. Len(Boundaries) + 1 |->
                            Cardinality({s \in d.rows : Bucket(d, s) = i})]) = Cardinality(d.rows)
<1>. DEFINE n == Len(Boundaries) + 1
            kind == [s \in d.rows |-> Bucket(d, s)]
<1>1. n \in Nat /\ n - 1 \in Nat /\ DOMAIN Boundaries = 1 .. n - 1
  BY ReportsAssumption
<1>2. ASSUME NEW s \in d.rows PROVE Bucket(d, s) \in 1 .. n
  <2>. DEFINE older == {i \in DOMAIN Boundaries : d.stamp[s] <= Boundaries[i]}
  <2>1. IsFiniteSet(1 .. n - 1) /\ Cardinality(1 .. n - 1) = n - 1
    <3>. HIDE DEF n
    <3>. QED
      BY <1>1, FS_Interval
  <2>2. older \in SUBSET (1 .. n - 1)
    BY <1>1
  <2>3. Cardinality(older) \in Nat /\ Cardinality(older) <= n - 1
    <3>. HIDE DEF older, n
    <3>. QED
      BY <2>1, <2>2, FS_Subset, FS_CardinalityType
  <2>4. Bucket(d, s) = Cardinality(older) + 1
    BY DEF Bucket
  <2>. HIDE DEF older, n
  <2>. QED
    BY <1>1, <2>3, <2>4
<1>3. kind \in [d.rows -> 1 .. n] /\ IsFiniteSet(d.rows)
  BY <1>2, IdsAssumption, FS_Subset
<1>4. SumFunction([i \in 1 .. n |-> Cardinality({s \in d.rows : kind[s] = i})]) = Cardinality(d.rows)
  <2>. HIDE DEF n, kind
  <2>. QED
    BY <1>1, <1>3, KindsAddUp
<1>5. \A i \in 1 .. n : {s \in d.rows : kind[s] = i} = {s \in d.rows : Bucket(d, s) = i}
  OBVIOUS
<1>. QED
  BY <1>4, <1>5

-----------------------------------------------------------------------------
(* The figures of a report *)

(* What the queries compute of one database, all of whose paths end.        *)
LEMMA AttributionTrue ==
    ASSUME NEW d \in Database, NoneRepeats(d)
    PROVE  LET whole(s) == SumFunctionOnSet(Bytes, Subtree(d, {s}))
               listed == Range(Largest(d))
           IN  /\ ~HasCycle(d)
               /\ listed \subseteq d.rows
               /\ \A i \in DOMAIN Largest(d) : SubtreeBytes(d, Largest(d)[i]) = whole(Largest(d)[i])
               /\ Cardinality(listed) = Min({Top, Cardinality(d.rows)})
               /\ \A s \in listed, t \in d.rows \ listed : whole(s) >= whole(t)
<1>. DEFINE whole(s) == SumFunctionOnSet(Bytes, Subtree(d, {s}))
            L == Largest(d)
<1>1. d.rows \subseteq Ids /\ IsFiniteSet(d.rows)
  BY IdsAssumption, FS_Subset DEF Database
<1>2. ~HasCycle(d)
  BY <1>1, NoCycleUnseen
<1>3. \A s \in d.rows : SubtreeBytes(d, s) = whole(s) /\ SubtreeBytes(d, s) \in Nat
  BY <1>1, BytesOfSubtree
<1>4. /\ Range(L) \subseteq d.rows
      /\ Cardinality(Range(L)) = Min({Top, Cardinality(d.rows)})
      /\ \A s \in Range(L), t \in d.rows \ Range(L) : SubtreeBytes(d, s) >= SubtreeBytes(d, t)
  <2>. HIDE DEF whole
  <2>. QED
    BY <1>1, <1>3, LargestAre
<1>5. \A i \in DOMAIN L : L[i] \in d.rows
  BY <1>4 DEF Range
<1>. HIDE DEF whole, L
<1>6. /\ \A i \in DOMAIN L : SubtreeBytes(d, L[i]) = whole(L[i])
      /\ \A s \in Range(L), t \in d.rows \ Range(L) : whole(s) >= whole(t)
  <2>1. \A i \in DOMAIN L : SubtreeBytes(d, L[i]) = whole(L[i])
    BY <1>3, <1>5
  <2>2. ASSUME NEW s \in Range(L), NEW t \in d.rows \ Range(L) PROVE whole(s) >= whole(t)
    <3>1. s \in d.rows /\ t \in d.rows
      BY <1>4
    <3>. QED
      BY <1>3, <1>4, <3>1
  <2>. QED
    BY <2>1, <2>2
<1>. QED
  BY <1>2, <1>4, <1>6 DEF whole, L

(* The phases after the sessions were described, and after the ages were    *)
(* read; a report that ended without an error has been through all of them. *)
PastDescribe == phase \in CensusPhases \cup {"ages", "list_overview", "overview"} \/ Reported
PastAges     == phase \in {"list_overview", "overview"} \/ Reported

AgesOf(d) ==
    [i \in 1 .. Len(Boundaries) + 1 |-> Cardinality({s \in d.rows : Bucket(d, s) = i})]

(* Who has no row now has been absent; the sessions listed are those of the *)
(* database of their moment, and one not described has been absent or is    *)
(* still to be looked for.                                                  *)
FiguresInv ==
    command.name # "doctor" =>
        /\ ControlInv
        /\ db \in Database /\ then \in [sizes : Database, ages : Database]
        /\ Absent(db).files \subseteq gone.files
        /\ phase = "describe" \/ PastDescribe =>
               NoneRepeats(then.sizes) /\ largest = Largest(then.sizes)
        /\ phase = "describe" => Range(largest) \ described \subseteq gone.files \cup todo
        /\ PastDescribe => Range(largest) \ described \subseteq gone.files
        /\ PastAges => buckets = AgesOf(then.ages)

(* The order of the report without a census.                                *)
LEMMA StandardGoesOn ==
    ASSUME command \in Command, command.name = "standard", Continue
    PROVE  /\ phase = "schema" => phase' = "space"
           /\ phase = "space" => phase' = "sizes"
           /\ phase = "sizes" => phase' = "describe"
           /\ phase = "describe" => phase' = "ages"
           /\ phase = "ages" => phase' = "over"
<1>1. Order = StandardOrder
  BY DEF Order
<1>2. \A i \in 1 .. 5 : phase = StandardOrder[i] => phase' = StandardOrder[1 + i]
  <2>1. \A i \in 1 .. 5 : i \in DOMAIN StandardOrder
    BY DEF StandardOrder
  <2>. QED
    BY <1>1, <2>1, ContinuesInOrder
<1>. QED
  BY <1>2 DEF StandardOrder

Opening == {"schema", "rows", "space"}

(* The phases a report of sizes can be in.                                  *)
LEMMA KnownFigurePhase ==
    ASSUME ControlInv, command.name # "doctor"
    PROVE  /\ command.name = "standard" =>
                 phase \in {"schema", "space", "sizes", "describe", "ages", "over"}
           /\ command.name = "detailed" =>
                 phase \in Opening \cup {"sizes", "describe", "ages", "list_overview", "overview", "over"}
                               \cup CensusPhases
           /\ command.name \in {"standard", "detailed"}
BY DEF ControlInv, Command, Order, StandardOrder, DetailedOrder, Range, CensusPhases, Opening

(* The order of both around the sizes and the ages.                         *)
LEMMA FiguresGoOn ==
    ASSUME ControlInv, command.name # "doctor", phase # "over", Continue, command' = command
    PROVE  /\ failure' = "none" /\ phase' \in Range(Order')
           /\ phase \in Opening => phase' \in Opening \cup {"sizes"}
           /\ phase = "sizes" => phase' = "describe"
           /\ phase = "describe" => phase' \in CensusPhases \cup {"ages"}
           /\ phase \in CensusPhases => phase' \in CensusPhases \cup {"ages"}
           /\ phase = "ages" => phase' \in {"list_overview", "over"}
           /\ phase = "list_overview" => phase' = "overview"
           /\ phase = "overview" => phase' = "over"
<1>1. command \in Command /\ failure' = "none"
  BY DEF ControlInv, Continue
<1>2. CASE command.name = "standard"
  <2>1. Order' = StandardOrder
    BY <1>2 DEF Order
  <2>. QED
    BY <1>1, <1>2, <2>1, KnownFigurePhase, StandardGoesOn DEF StandardOrder, Range, Opening, CensusPhases
<1>3. CASE command.name = "detailed"
  <2>1. Order' = DetailedOrder
    BY <1>3 DEF Order
  <2>. QED
    BY <1>1, <1>3, <2>1, KnownFigurePhase, DetailedGoesOn DEF DetailedOrder, Range, Opening, CensusPhases
<1>. QED
  BY <1>2, <1>3, KnownFigurePhase

(* A step goes on, ends the report or stays in its phase.                   *)
LEMMA FiguresControlKept ==
    ASSUME ControlInv, command.name # "doctor", phase # "over", command' = command,
           Continue \/ phase' = "over" \/ Stays
    PROVE  ControlInv'
<1>1. command' \in Command /\ "over" \in Range(Order')
  BY DEF ControlInv, Command, Order, StandardOrder, DetailedOrder, DoctorOrder, Range
<1>2. CASE Continue
  BY <1>1, <1>2, FiguresGoOn DEF ControlInv
<1>3. CASE phase' = "over"
  BY <1>1, <1>3 DEF ControlInv
<1>4. CASE Stays
  <2>1. Order' = Order
    BY DEF Order
  <2>. QED
    BY <1>1, <1>4, <2>1 DEF ControlInv, Stays
<1>. QED
  BY <1>2, <1>3, <1>4

(* A step that leaves the figures alone and promises nothing new.           *)
LEMMA FiguresCarried ==
    ASSUME FiguresInv, command.name # "doctor", phase # "over",
           UNCHANGED <<command, world, largest, described, buckets, then>>,
           Continue \/ phase' = "over" \/ Stays,
           phase' # "describe", PastDescribe' => PastDescribe, PastAges' => PastAges
    PROVE  FiguresInv'
<1>1. ControlInv'
  BY FiguresControlKept DEF FiguresInv
<1>2. UNCHANGED <<db, gone>> /\ Absent(db)' = Absent(db)
  BY DEF world, Absent
<1>. QED
  BY <1>1, <1>2 DEF FiguresInv

(* Before the sizes, and at an error, nothing is promised.                  *)
LEMMA NothingPromised ==
    ASSUME phase' \in Opening \cup {"sizes"} \/ Fails
    PROVE  phase' # "describe" /\ ~PastDescribe' /\ ~PastAges'
BY DEF Opening, Fails, PastDescribe, PastAges, Reported, CensusPhases

(* The statement of the sizes: an error, or a database without a repetition.*)
LEMMA AttributeStep ==
    ASSUME FiguresInv, command.name # "doctor", Attribute
    PROVE  FiguresInv'
<1>. DEFINE refused == ~command.octetLength \/ \E p \in SubtreeRows(db) : Cyclic(p)
<1>1. /\ ControlInv /\ db \in Database /\ then \in [sizes : Database, ages : Database]
      /\ phase = "sizes" /\ UNCHANGED <<command, world>> /\ phase # "over"
      /\ Absent(db).files \subseteq gone.files
  BY DEF FiguresInv, Attribute, In
<1>2. UNCHANGED <<db, gone>> /\ Absent(db)' = Absent(db)
  BY <1>1 DEF world, Absent
<1>3. then' \in [sizes : Database, ages : Database] /\ then'.sizes = db
  BY <1>1 DEF Attribute
<1>4. CASE refused
  <2>1. Fails
    BY <1>4 DEF Attribute, Fail, Fails
  <2>2. ControlInv' /\ phase' # "describe" /\ ~PastDescribe' /\ ~PastAges'
    BY <1>1, <2>1, FiguresControlKept, NothingPromised DEF Fails
  <2>. QED
    BY <1>1, <1>2, <1>3, <2>2 DEF FiguresInv
<1>5. CASE ~refused
  <2>1. Continue /\ largest' = Largest(db) /\ todo' = Range(largest') /\ NoneRepeats(db)
    BY <1>5 DEF Attribute, NoneRepeats
  <2>2. ControlInv' /\ phase' = "describe"
    BY <1>1, <2>1, FiguresControlKept, FiguresGoOn
  <2>3. ~PastDescribe' /\ ~PastAges'
    BY <2>2 DEF PastDescribe, PastAges, Reported, CensusPhases
  <2>. QED
    BY <1>1, <1>2, <1>3, <2>1, <2>2, <2>3 DEF FiguresInv
<1>. QED
  BY <1>4, <1>5

(* A session listed that has no details when the last one was looked for    *)
(* had gone before.                                                         *)
LEMMA DescribeStep ==
    ASSUME FiguresInv, command.name # "doctor", Describe
    PROVE  FiguresInv'
<1>1. /\ ControlInv /\ db \in Database /\ then \in [sizes : Database, ages : Database]
      /\ phase = "describe" /\ UNCHANGED <<command, world, largest, buckets, then>> /\ phase # "over"
      /\ Absent(db).files \subseteq gone.files
      /\ NoneRepeats(then.sizes) /\ largest = Largest(then.sizes)
      /\ Range(largest) \ described \subseteq gone.files \cup todo
  BY DEF FiguresInv, Describe, In
<1>2. UNCHANGED <<db, gone>> /\ Absent(db)' = Absent(db)
  BY <1>1 DEF world, Absent
<1>3. CASE todo = {}
  <2>1. Continue /\ UNCHANGED <<todo, described>>
    BY <1>3 DEF Describe
  <2>2. ControlInv' /\ phase' \in CensusPhases \cup {"ages"}
    BY <1>1, <2>1, FiguresControlKept, FiguresGoOn
  <2>3. phase' # "describe" /\ ~PastAges'
    BY <2>2 DEF PastAges, Reported, CensusPhases
  <2>. QED
    BY <1>1, <1>2, <1>3, <2>1, <2>2, <2>3 DEF FiguresInv
<1>4. CASE todo # {}
  <2>1. PICK s : /\ todo' = todo \ {s} /\ described' = described \cup ({s} \cap db.rows) /\ Stays
    BY <1>4 DEF Describe, Stays
  <2>2. Range(largest) \subseteq Ids
    BY <1>1, AttributionTrue DEF Database
  <2>3. s \in Range(largest) \ described' => s \in gone.files
    BY <1>1, <2>1, <2>2 DEF Absent
  <2>4. Range(largest) \ described' \subseteq gone.files \cup todo'
    BY <1>1, <2>1, <2>3
  <2>5. ControlInv' /\ phase' = "describe"
    BY <1>1, <2>1, FiguresControlKept DEF Stays
  <2>6. ~PastDescribe' /\ ~PastAges'
    BY <2>5 DEF PastDescribe, PastAges, Reported, CensusPhases
  <2>. QED
    BY <1>1, <1>2, <2>4, <2>5, <2>6 DEF FiguresInv
<1>. QED
  BY <1>3, <1>4

(* The ages are those of the database of this moment.                       *)
LEMMA AgesStep ==
    ASSUME FiguresInv, command.name # "doctor", DistributeAges
    PROVE  FiguresInv'
<1>1. /\ ControlInv /\ db \in Database /\ then \in [sizes : Database, ages : Database]
      /\ phase = "ages" /\ UNCHANGED <<command, world, largest, described>> /\ phase # "over"
      /\ Absent(db).files \subseteq gone.files /\ Continue
      /\ then' = [then EXCEPT !.ages = db] /\ buckets' = AgesOf(db)
  BY DEF FiguresInv, DistributeAges, In, AgesOf
<1>2. UNCHANGED <<db, gone>> /\ Absent(db)' = Absent(db)
  BY <1>1 DEF world, Absent
<1>3. /\ then' \in [sizes : Database, ages : Database]
      /\ then'.sizes = then.sizes /\ then'.ages = db
  BY <1>1
<1>4. ControlInv' /\ phase' # "describe"
  BY <1>1, FiguresControlKept, FiguresGoOn
<1>5. /\ NoneRepeats(then.sizes) /\ largest = Largest(then.sizes)
      /\ Range(largest) \ described \subseteq gone.files
  BY <1>1 DEF FiguresInv, PastDescribe
<1>. QED
  BY <1>1, <1>2, <1>3, <1>4, <1>5 DEF FiguresInv

(* The steps before the sizes, those of the census and those of the         *)
(* overview of the files leave the figures alone.                           *)
LEMMA FiguresLeftAlone ==
    ASSUME FiguresInv, command.name # "doctor",
           \/ InspectSchema \/ CountRows \/ MeasureSpace
           \/ ReadSessionIds \/ ReadProjectIds \/ CountRowsLeft \/ ListFiles \/ LookAtFile
           \/ SizeOverview \/ ListDirectories \/ LookAtDirectory \/ SizeInside
    PROVE  FiguresInv'
<1>0. ControlInv
  BY DEF FiguresInv
<1>1. CASE InspectSchema \/ CountRows \/ MeasureSpace
  <2>1. /\ phase \in Opening /\ UNCHANGED <<command, world, largest, described, buckets, then>>
        /\ Continue \/ Fails
    <3>1. CASE InspectSchema
      BY <3>1 DEF InspectSchema, In, ContinueIf, Fail, Fails, Opening, parts
    <3>2. CASE CountRows
      BY <3>2 DEF CountRows, In, Opening, parts
    <3>3. CASE MeasureSpace
      BY <3>3 DEF MeasureSpace, In, ContinueIf, Fail, Fails, Opening, parts
    <3>. QED
      BY <1>1, <3>1, <3>2, <3>3
  <2>2. phase # "over" /\ (Continue \/ phase' = "over" \/ Stays)
    BY <2>1 DEF Opening, Fails
  <2>3. phase' \in Opening \cup {"sizes"} \/ Fails
    BY <1>0, <2>1, <2>2, FiguresGoOn
  <2>4. phase' # "describe" /\ ~PastDescribe' /\ ~PastAges'
    BY <2>3, NothingPromised
  <2>. QED
    BY <2>1, <2>2, <2>4, FiguresCarried
<1>2. CASE /\ phase # "list_overview"
           /\ \/ ReadSessionIds \/ ReadProjectIds \/ CountRowsLeft \/ ListFiles \/ LookAtFile
              \/ ListDirectories \/ LookAtDirectory \/ SizeInside
  <2>1. /\ phase \in CensusPhases /\ UNCHANGED <<command, world, largest, described, buckets, then>>
        /\ Continue \/ Fails \/ Stays
    <3>1. CASE ReadSessionIds \/ ReadProjectIds \/ CountRowsLeft
      BY <3>1 DEF ReadSessionIds, ReadProjectIds, CountRowsLeft, In, Census, CensusPhases
    <3>2. CASE ListFiles \/ ListDirectories
      BY <1>2, <3>2 DEF ListFiles, ListDirectories, In, Census, CensusPhases
    <3>3. CASE LookAtFile
      <4>1. phase = "files" /\ UNCHANGED <<command, world, largest, described, buckets, then>>
        BY <3>3 DEF LookAtFile, In, Census
      <4>2. Continue \/ Fails \/ Stays
        BY <3>3 DEF LookAtFile, Fail, Fails, Stays
      <4>. QED
        BY <4>1, <4>2 DEF CensusPhases
    <3>4. CASE LookAtDirectory
      BY <3>4 DEF LookAtDirectory, In, Census, Stays, CensusPhases
    <3>5. CASE SizeInside
      BY <3>5 DEF SizeInside, In, Census, Fail, Fails, Stays, CensusPhases
    <3>. QED
      BY <1>2, <3>1, <3>2, <3>3, <3>4, <3>5
  <2>2. phase # "over" /\ (Continue \/ phase' = "over" \/ Stays)
    BY <2>1 DEF CensusPhases, Fails
  <2>3. phase' \in CensusPhases \cup {"ages"} \/ Fails
    BY <1>0, <2>1, <2>2, FiguresGoOn DEF Stays
  <2>4. phase' # "describe" /\ ~PastAges'
    BY <2>3 DEF PastAges, Reported, CensusPhases, Fails
  <2>5. PastDescribe
    BY <2>1 DEF PastDescribe
  <2>. QED
    BY <2>1, <2>2, <2>4, <2>5, FiguresCarried
<1>3. CASE (phase = "list_overview" /\ ListFiles) \/ SizeOverview
  <2>1. /\ phase \in {"list_overview", "overview"}
        /\ UNCHANGED <<command, world, largest, described, buckets, then>>
        /\ Continue \/ Fails \/ Stays
    <3>1. CASE phase = "list_overview" /\ ListFiles
      BY <3>1 DEF ListFiles, In, Census
    <3>2. CASE SizeOverview
      BY <3>2 DEF SizeOverview, In, Census, Fail, Fails, Stays
    <3>. QED
      BY <1>3, <3>1, <3>2
  <2>2. phase # "over" /\ (Continue \/ phase' = "over" \/ Stays)
    BY <2>1 DEF Fails
  <2>3. phase' # "describe"
    BY <1>0, <2>1, <2>2, FiguresGoOn DEF Stays, Fails
  <2>4. PastDescribe /\ PastAges
    BY <2>1 DEF PastDescribe, PastAges
  <2>. QED
    BY <2>1, <2>2, <2>3, <2>4, FiguresCarried
<1>4. ReadSessionIds \/ ReadProjectIds \/ CountRowsLeft \/ LookAtFile \/ ListDirectories
      \/ LookAtDirectory \/ SizeInside => phase # "list_overview"
  BY DEF ReadSessionIds, ReadProjectIds, CountRowsLeft, LookAtFile, ListDirectories,
         LookAtDirectory, SizeInside, In
<1>. QED
  BY <1>1, <1>2, <1>3, <1>4

(* Others leave a database behind, and whoever they delete has been absent. *)
LEMMA FiguresAmongOthers ==
    ASSUME FiguresInv, command.name # "doctor", Others
    PROVE  FiguresInv'
<1>0. ControlInv /\ db \in Database /\ Absent(db).files \subseteq gone.files
  BY DEF FiguresInv
<1>1. /\ UNCHANGED <<command, phase, failure, todo, largest, described, buckets, then>>
      /\ History
  BY DEF Others, Write, parts, CreateSession, DeleteSession, CreateProject, DeleteProject,
         PutOrDropFile, PutOrDropSnapshot
<1>2. db' \in Database
  <2>1. CASE CreateSession
    <3>1. PICK s \in Ids \ db.rows, p \in db.rows \cup {NoParent}, owner \in db.projects :
              db' = [db EXCEPT !.rows = @ \cup {s}, !.parent[s] = p, !.owner[s] = owner]
      BY <2>1 DEF CreateSession
    <3>2. /\ db.rows \cup {s} \in SUBSET Ids
          /\ [db.parent EXCEPT ![s] = p] \in [Ids -> Ids \cup {NoParent}]
          /\ [db.owner EXCEPT ![s] = owner] \in [Ids -> Projects]
      BY <1>0, <3>1 DEF Database
    <3>3. db' = [db EXCEPT !.rows = db.rows \cup {s}, !.parent = [db.parent EXCEPT ![s] = p],
                           !.owner = [db.owner EXCEPT ![s] = owner]]
      BY <1>0, <3>1 DEF Database
    <3>. QED
      BY <1>0, <3>2, <3>3 DEF Database
  <2>2. CASE DeleteSession
    BY <1>0, <2>2 DEF DeleteSession, Database
  <2>3. CASE CreateProject
    BY <1>0, <2>3 DEF CreateProject, Database
  <2>4. CASE DeleteProject
    BY <1>0, <2>4 DEF DeleteProject, Database
  <2>5. CASE PutOrDropFile \/ PutOrDropSnapshot
    BY <1>0, <2>5 DEF PutOrDropFile, PutOrDropSnapshot
  <2>. QED
    BY <2>1, <2>2, <2>3, <2>4, <2>5 DEF Others
<1>3. gone.files \subseteq gone'.files /\ Absent(db)'.files \subseteq gone'.files
  BY <1>1 DEF History
<1>4. Order' = Order /\ Reported' = Reported
  BY <1>1 DEF Order, Reported
<1>5. ControlInv' /\ PastDescribe' = PastDescribe /\ PastAges' = PastAges
  BY <1>0, <1>1, <1>4 DEF ControlInv, PastDescribe, PastAges
<1>. QED
  BY <1>1, <1>2, <1>3, <1>5 DEF FiguresInv

(* The invariant holds before the first statement.                          *)
LEMMA FiguresInit == Init => FiguresInv
<1>. SUFFICES ASSUME Init, command.name # "doctor"
              PROVE  /\ ControlInv /\ db \in Database
                     /\ then \in [sizes : Database, ages : Database]
                     /\ Absent(db).files \subseteq gone.files
                     /\ phase # "describe" /\ ~PastDescribe /\ ~PastAges
  BY DEF FiguresInv
<1>1. command \in Command /\ command.name \in {"standard", "detailed"} /\ phase = "schema"
  BY ReportsAssumption DEF Init, Command
<1>2. ControlInv
  <2>1. 1 \in DOMAIN Order /\ Order[1] = "schema"
    BY <1>1 DEF Order, StandardOrder, DetailedOrder
  <2>. QED
    BY <1>1, <2>1 DEF Init, ControlInv, Range
<1>3. db \in Database /\ then \in [sizes : Database, ages : Database] /\ gone = Absent(db)
  BY ReportsAssumption DEF Init
<1>. QED
  BY <1>1, <1>2, <1>3 DEF PastDescribe, PastAges, Reported, CensusPhases

(* Every step keeps it.                                                     *)
LEMMA FiguresKept == FiguresInv /\ [Next]_vars => FiguresInv'
<1>. SUFFICES ASSUME FiguresInv, [Next]_vars, command.name # "doctor" PROVE FiguresInv'
  <2>. QED
    BY CommandKept DEF FiguresInv
<1>1. phase \notin {"checks", "headroom", "health"}
  BY KnownFigurePhase DEF FiguresInv, Opening, CensusPhases
<1>2. ~CheckIndependently /\ ~EstimateHeadroom /\ ~JudgeHealth
  BY <1>1 DEF CheckIndependently, EstimateHeadroom, JudgeHealth, In
<1>3. CASE UNCHANGED vars
  <2>1. UNCHANGED <<command, world, phase, failure, todo, largest, described, buckets, then>>
    BY <1>3 DEF vars, parts
  <2>2. /\ Order' = Order /\ Reported' = Reported /\ UNCHANGED <<db, gone>>
        /\ Absent(db)' = Absent(db)
    BY <2>1 DEF Order, Reported, world, Absent
  <2>. QED
    BY <2>1, <2>2 DEF FiguresInv, ControlInv, PastDescribe, PastAges
<1>. QED
  BY <1>2, <1>3, FiguresLeftAlone, AttributeStep, DescribeStep, AgesStep, FiguresAmongOthers
     DEF Next, Others

(* A report that is written is true of the database of one moment: the      *)
(* sessions it lists have the largest subtrees, each added up once and      *)
(* whole, no cycle of parents was passed over, every session has one age,   *)
(* and details are missing only of a session that has gone                  *)
(* (analyze/attribution.rs, analyze/distribution.rs).                       *)
THEOREM FiguresAreTrue == Spec => []FiguresTrue
<1>1. FiguresInv => FiguresTrue
  <2>. SUFFICES ASSUME FiguresInv, Reported, command.name # "doctor" PROVE FiguresTrue
    BY DEF FiguresTrue
  <2>1. /\ then.sizes \in Database /\ then.ages \in Database
        /\ NoneRepeats(then.sizes) /\ largest = Largest(then.sizes)
        /\ Range(largest) \ described \subseteq gone.files
        /\ buckets = AgesOf(then.ages)
    BY DEF FiguresInv, PastDescribe, PastAges
  <2>2. SumFunction(buckets) = Cardinality(then.ages.rows)
    BY <2>1, AgesAddUp DEF AgesOf, Database
  <2>. QED
    BY <2>1, <2>2, AttributionTrue DEF FiguresTrue
<1>2. Init => FiguresInv
  BY FiguresInit
<1>3. FiguresInv /\ [Next]_vars => FiguresInv'
  BY FiguresKept
<1>. QED
  BY <1>1, <1>2, <1>3, PTL DEF Spec
=============================================================================
