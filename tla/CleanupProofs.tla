---------------------------- MODULE CleanupProofs ----------------------------
(* Theorems about Cleanup, for every tree of directories, every order of    *)
(* names, any number of faults and of disturbances.                         *)
EXTENDS Cleanup, FiniteSetTheorems, SequenceTheorems, TLAPS

USE DEF outcome, account

-----------------------------------------------------------------------------
(* The inductive invariant *)

(* What others do may take entries away, and put files and links in their   *)
(* place; a directory that is still in its place has been there all along.  *)
TreeInv ==
    /\ \A d \in Dirs \ {Elsewhere}, n \in Names : tree[d][n] \in Dirs => tree[d][n] = first[d][n]
    /\ quiet => \A d \in Dirs, n \in Names : tree[d][n] \in {first[d][n], "none"}

(* The open directories are a path of the first tree, down from the root of *)
(* the phase by the names they were opened under.                           *)
Root == IF Sweeping THEN Storage ELSE Snapshot
PathInv ==
    /\ stack # <<>> => phase # "over" /\ stack[1].dir = Root
    /\ \A i \in 2 .. Len(stack) : /\ stack[i].name \in Names
                                  /\ stack[i].dir = first[stack[i - 1].dir][stack[i].name]

(* Which names a phase goes through, and how deep.                          *)
ScopeInv ==
    /\ Sweeping => Len(stack) <= 2
    /\ phase = "gc" => Len(stack) <= 3
    /\ phase = "prune" /\ stack # <<>> => stack[1].todo \subseteq PrunedProjects
    /\ phase = "gc" /\ stack # <<>> => stack[1].todo \subseteq LiveProjects
    /\ Removing /\ Len(stack) > 1 => stack[2].name \notin LiveProjects
    /\ phase = "gc" /\ Len(stack) > 1 => stack[2].name \in LiveProjects
    /\ pending # NoName => /\ Sweeping \/ Removing
                           /\ Len(stack) > 1
                           /\ Sweeping => pending \notin LiveSessions

CompactedInv == compacted \subseteq UNION {Below(n) : n \in LiveProjects}

(* What a phase has to remove is gone, reported, or still to be done: in    *)
(* the names that are left or in the directory that is being emptied.       *)
Settled(n, p) ==
    tree[Snapshot][n] \in Dirs => <<Snapshot, n>> \in failures \/ <<p, NoName>> \in failures
SoFar(n, p) == Settled(n, p) \/ <<Snapshot, n>> \in noted
Ahead(n) == n \in stack[1].todo \/ (Len(stack) > 1 /\ stack[2].name = n)
Forgotten == Names \ (LiveProjects \cup PrunedProjects)
After(p) == IF p = "prune" THEN {"orphans", "sweep_all", "gc", "over"}
                           ELSE {"sweep_all", "gc", "over"}
RemovedBy(p, names) ==
    /\ phase = p /\ stack # <<>> => \A n \in names : SoFar(n, p) \/ Ahead(n)
    /\ phase \in After(p) => \A n \in names : Settled(n, p)
LeftoversInv ==
    Snapshot \in rooted => /\ RemovedBy("prune", PrunedProjects)
                           /\ command.orphans => RemovedBy("orphans", Forgotten)
                           /\ phase = "orphans" => command.orphans

(* The snapshot directories that have gone from their place, by whomever.   *)
Went == {n \in Names : first[Snapshot][n] \in Dirs /\ tree[Snapshot][n] \notin Dirs}
CountInv ==
    /\ ~Sweeping => counted["files"] = 0
    /\ ~Removing => counted["dirs"] = 0
    /\ Total("dirs") <= Cardinality(Went)
    /\ quiet =>
          /\ Total("files") <= Cardinality(FilesLost)
          /\ Stopped({"sweep", "sweep_all"}) \/ Total("files") = Cardinality(FilesLost)
          /\ Stopped({"prune", "orphans"}) \/ Total("dirs") = Cardinality(Lost(Snapshot))

CleanupInv ==
    TypeOK /\ TreeInv /\ PathInv /\ ScopeInv /\ CompactedInv /\ LeftoversInv /\ CountInv


-----------------------------------------------------------------------------
(* The open directories in the first tree *)

Frames == [dir : Dirs, name : Names \cup {NoName}, todo : SUBSET Names]

(* What type correctness says of the parts of the state.                    *)
LEMMA Types ==
    ASSUME TypeOK
    PROVE  /\ first \in Trees /\ first \in [Dirs -> [Names -> Entry]] /\ Forest(first)
           /\ tree \in [Dirs -> [Names -> Entry]]
           /\ command.orphans \in BOOLEAN /\ command.gc \in BOOLEAN
           /\ stack \in Seq(Frames) /\ Len(stack) \in Nat
           /\ \A i \in 1 .. Len(stack) : /\ stack[i] \in Frames
                                         /\ stack[i].dir \in Dirs /\ stack[i].todo \subseteq Names
           /\ stack # <<>> <=> Len(stack) > 0
<1>1. stack \in Seq(Frames)
  BY DEF TypeOK, Frames
<1>2. Len(stack) \in Nat /\ \A i \in 1 .. Len(stack) : stack[i] \in Frames
  BY <1>1
<1>3. stack # <<>> <=> Len(stack) > 0
  BY <1>1, EmptySeq
<1>. QED
  BY <1>1, <1>2, <1>3, CleanupAssumption DEF TypeOK, Frames

(* The roots, what links lead to and Elsewhere are four directories.        *)
LEMMA ApartDiffer ==
    /\ {Storage, Snapshot, Outside, Elsewhere} \subseteq Dirs
    /\ Storage # Snapshot /\ Storage # Outside /\ Storage # Elsewhere
    /\ Snapshot # Outside /\ Snapshot # Elsewhere /\ Outside # Elsewhere
    /\ "file" \notin Dirs /\ "link" \notin Dirs /\ "none" \notin Dirs
<1>1. Cardinality({Storage, Snapshot, Outside, Elsewhere}) = 4
  BY CleanupAssumption DEF Apart
<1>2. \A a, b, c : IsFiniteSet({a, b, c}) /\ Cardinality({a, b, c}) <= 3
  <2>. SUFFICES ASSUME NEW a, NEW b, NEW c PROVE IsFiniteSet({a, b, c}) /\ Cardinality({a, b, c}) <= 3
    OBVIOUS
  <2>2. IsFiniteSet({a}) /\ Cardinality({a}) = 1
    BY FS_Singleton
  <2>3. /\ IsFiniteSet({a} \cup {b})
        /\ Cardinality({a} \cup {b}) = IF b \in {a} THEN 1 ELSE 2
    BY <2>2, FS_AddElement
  <2>4. /\ IsFiniteSet(({a} \cup {b}) \cup {c})
        /\ Cardinality(({a} \cup {b}) \cup {c}) =
               IF c \in {a} \cup {b} THEN Cardinality({a} \cup {b}) ELSE Cardinality({a} \cup {b}) + 1
    BY <2>3, FS_AddElement
  <2>5. ({a} \cup {b}) \cup {c} = {a, b, c}
    OBVIOUS
  <2>. QED
    BY <2>3, <2>4, <2>5
<1>3. ASSUME \/ Storage = Snapshot \/ Storage = Outside \/ Storage = Elsewhere
             \/ Snapshot = Outside \/ Snapshot = Elsewhere \/ Outside = Elsewhere
      PROVE  FALSE
  <2>1. PICK a, b, c : {Storage, Snapshot, Outside, Elsewhere} = {a, b, c}
    BY <1>3
  <2>2. Cardinality({a, b, c}) <= 3
    BY <1>2
  <2>. QED
    BY <1>1, <2>1, <2>2
<1>. QED
  BY <1>3, CleanupAssumption DEF Apart


(* A directory that is not a root was opened under its one name in the      *)
(* directory above it, which is not what links lead to, nor elsewhere.      *)
LEMMA OpenedIn ==
    ASSUME TypeOK, PathInv, NEW i \in 2 .. Len(stack)
    PROVE  /\ i - 1 \in 1 .. Len(stack)
           /\ stack[i].name \in Names /\ stack[i].dir \in Dirs /\ stack[i].dir \notin Apart
           /\ stack[i].dir = first[stack[i - 1].dir][stack[i].name]
           /\ stack[i - 1].dir \in Dirs
           /\ \A d \in Dirs, n \in Names :
                  first[d][n] = stack[i].dir => d = stack[i - 1].dir /\ n = stack[i].name
<1>1. Len(stack) \in Nat
  BY Types
<1>2. i \in 1 .. Len(stack) /\ i - 1 \in 1 .. Len(stack)
  BY <1>1
<1>3. /\ stack[i].dir \in Dirs /\ stack[i - 1].dir \in Dirs
      /\ stack[i].name \in Names
      /\ stack[i].dir = first[stack[i - 1].dir][stack[i].name]
  BY <1>2, Types DEF PathInv
<1>. QED
  BY <1>2, <1>3, Types DEF Forest

(* The lowest open directory is the root of the phase.                      *)
LEMMA RootOpen ==
    ASSUME TypeOK, PathInv, stack # <<>>
    PROVE  1 \in 1 .. Len(stack) /\ stack[1].dir = Root /\ Root \in {Storage, Snapshot} /\ Root \in Dirs
BY Types, ApartDiffer DEF PathInv, Root

(* No open directory is what links lead to, nor elsewhere.                  *)
LEMMA OpenInPlace ==
    ASSUME TypeOK, PathInv, NEW i \in 1 .. Len(stack)
    PROVE  stack[i].dir \in Dirs \ {Elsewhere, Outside}
<1>1. CASE i = 1
  <2>1. stack # <<>>
    BY Types
  <2>. QED
    BY <1>1, <2>1, RootOpen, ApartDiffer
<1>2. CASE i # 1
  <2>1. i \in 2 .. Len(stack)
    BY <1>2, Types
  <2>. QED
    BY <2>1, OpenedIn DEF Apart
<1>. QED
  BY <1>1, <1>2

(* Below a name of a root only what was below it at the beginning.          *)
LEMMA SecondOpen ==
    ASSUME TypeOK, PathInv, Len(stack) > 1
    PROVE  /\ 2 \in 2 .. Len(stack) /\ 2 \in 1 .. Len(stack)
           /\ stack[2].name \in Names /\ stack[2].dir = first[Root][stack[2].name]
           /\ stack[1].dir = Root
BY OpenedIn, RootOpen, Types

(* The snapshots of a project that stays are reached by its name only.      *)
LEMMA ProtectedByName ==
    ASSUME TypeOK, PathInv, NEW i \in 2 .. Len(stack), NEW n \in LiveProjects,
           stack[i].dir \in Below(n)
    PROVE  Root = Snapshot /\ stack[2].name = n
<1>. DEFINE project == first[Snapshot][n]
<1>1. n \in Names /\ project \in Dirs
  BY CleanupAssumption DEF Below
<1>2. ASSUME NEW j \in 2 .. Len(stack), stack[j].dir = project
      PROVE  Root = Snapshot /\ stack[2].name = n
  <2>1. stack[j - 1].dir = Snapshot /\ stack[j].name = n
    BY <1>1, <1>2, OpenedIn, ApartDiffer
  <2>2. j = 2
    <3>1. CASE j - 1 \in 2 .. Len(stack)
      BY <2>1, <3>1, OpenedIn DEF Apart
    <3>2. CASE j - 1 \notin 2 .. Len(stack)
      BY <3>2, Types
    <3>. QED
      BY <3>1, <3>2
  <2>3. Len(stack) > 1 /\ stack # <<>>
    BY Types
  <2>. QED
    BY <2>1, <2>2, <2>3, RootOpen
<1>3. CASE stack[i].dir = project
  BY <1>2, <1>3
<1>4. CASE stack[i].dir # project
  <2>1. PICK m \in Names : stack[i].dir = first[project][m]
    BY <1>4 DEF Below
  <2>. HIDE DEF project
  <2>2. stack[i - 1].dir = project /\ i - 1 \in 1 .. Len(stack)
    BY <1>1, <2>1, OpenedIn
  <2>3. i - 1 \in 2 .. Len(stack)
    <3>1. project \notin Apart
      BY <1>1, Types, ApartDiffer DEF Forest, project
    <3>2. i - 1 # 1
      <4>1. stack # <<>>
        BY Types
      <4>. QED
        BY <2>2, <3>1, <4>1, RootOpen DEF Apart
    <3>. QED
      BY <2>2, <3>2, Types
  <2>. QED
    BY <1>2, <2>2, <2>3
<1>. QED
  BY <1>3, <1>4

(* A bucket is opened only while the storage root is swept.                 *)
LEMMA BucketByName ==
    ASSUME TypeOK, PathInv, NEW i \in 2 .. Len(stack), stack[i].dir \in Buckets
    PROVE  Root = Storage
<1>1. PICK n \in Names : stack[i].dir = first[Storage][n]
  BY DEF Buckets
<1>2. stack[i - 1].dir = Storage /\ i - 1 \in 1 .. Len(stack)
  BY <1>1, OpenedIn, ApartDiffer
<1>3. i - 1 = 1
  <2>1. CASE i - 1 \in 2 .. Len(stack)
    BY <1>2, <2>1, OpenedIn DEF Apart
  <2>2. CASE i - 1 \notin 2 .. Len(stack)
    BY <1>2, <2>2, Types
  <2>. QED
    BY <2>1, <2>2
<1>4. stack # <<>>
  BY Types
<1>. QED
  BY <1>2, <1>3, <1>4, RootOpen

(* What is emptied, below the root of the snapshots, is nobody's.           *)
LEMMA EmptiedIsDead ==
    ASSUME TypeOK, PathInv, ScopeInv, Removing, NEW i \in 2 .. Len(stack)
    PROVE  stack[i].dir \in Dirs /\ stack[i].dir \notin Protected \cup Buckets \cup {Snapshot}
<1>1. Len(stack) > 1 /\ ~Sweeping /\ Root = Snapshot
  BY Types DEF Removing, Sweeping, Root
<1>2. stack[2].name \notin LiveProjects
  BY <1>1 DEF ScopeInv
<1>. QED
  BY <1>1, <1>2, ProtectedByName, BucketByName, OpenedIn, OpenInPlace, Types, ApartDiffer
     DEF Protected, Apart

(* What is swept is a bucket, and no snapshot.                              *)
LEMMA SweptIsBucket ==
    ASSUME TypeOK, PathInv, ScopeInv, Sweeping, Len(stack) > 1
    PROVE  /\ Len(stack) = 2 /\ stack[2].dir \in Buckets
           /\ stack[2].dir \in Dirs /\ stack[2].dir \notin Protected \cup {Snapshot}
<1>1. Len(stack) = 2 /\ Root = Storage
  <2>1. Len(stack) \in Nat /\ Len(stack) <= 2 /\ Len(stack) > 1
    BY Types DEF ScopeInv
  <2>2. Root = Storage
    BY DEF Root
  <2>3. \A k \in Nat : k <= 2 /\ k > 1 => k = 2
    OBVIOUS
  <2>. QED
    BY <2>1, <2>2, <2>3
<1>2. /\ 2 \in 2 .. Len(stack) /\ 2 \in 1 .. Len(stack)
      /\ stack[2].name \in Names /\ stack[2].dir = first[Storage][stack[2].name]
  BY <1>1, SecondOpen
<1>3. stack[2].dir \in Dirs /\ stack[2].dir \notin Apart
  BY <1>2, OpenedIn
<1>. QED
  BY <1>1, <1>2, <1>3, ProtectedByName, ApartDiffer DEF Protected, Buckets, Apart

(* The root of the snapshots is nobody's in particular.                     *)
LEMMA SnapshotUnprotected ==
    ASSUME TypeOK
    PROVE  Snapshot \notin Protected /\ Snapshot \notin Buckets /\ Snapshot \in Dirs
<1>1. \A d \in Dirs, n \in Names : first[d][n] # Snapshot
  BY Types, ApartDiffer DEF Forest, Apart
<1>2. \A n \in LiveProjects : Snapshot \notin Below(n)
  BY <1>1, ApartDiffer, CleanupAssumption DEF Below
<1>. QED
  BY <1>1, <1>2, ApartDiffer DEF Protected, Buckets


-----------------------------------------------------------------------------
(* What a step does to the stack *)

(* The open directories are some of those before, with no more to do.       *)
Shrunk(s) ==
    /\ s \in Seq(Frames) /\ Len(s) <= Len(stack)
    /\ \A i \in 1 .. Len(s) : /\ s[i].dir = stack[i].dir /\ s[i].name = stack[i].name
                              /\ s[i].todo \subseteq stack[i].todo

(* What going past a name does to the stack.                                *)
LEMMA WithoutEffect ==
    ASSUME TypeOK, stack # <<>>, NEW n
    PROVE  /\ Shrunk(Without(n)) /\ Len(Without(n)) = Len(stack)
           /\ \A i \in 1 .. Len(stack) - 1 : Without(n)[i] = stack[i]
           /\ Without(n)[Len(stack)].todo = stack[Len(stack)].todo \ {n}
<1>1. Len(stack) \in Nat /\ Len(stack) \in 1 .. Len(stack) /\ stack \in Seq(Frames)
  BY Types
<1>2. \A i \in 1 .. Len(stack) : stack[i] \in Frames
  BY Types
<1>. DEFINE top == stack[Len(stack)]
            frame == [top EXCEPT !.todo = @ \ {n}]
<1>3. top \in Frames
  BY <1>1, <1>2
<1>4. frame \in Frames /\ frame.dir = top.dir /\ frame.name = top.name /\ frame.todo = top.todo \ {n}
  <2>. HIDE DEF top
  <2>. QED
    BY <1>3 DEF Frames
<1>5. Without(n) = [stack EXCEPT ![Len(stack)] = frame]
  BY DEF Without, Depth
<1>6. /\ Without(n) \in Seq(Frames) /\ Len(Without(n)) = Len(stack)
      /\ \A j \in 1 .. Len(stack) : Without(n)[j] = IF j = Len(stack) THEN frame ELSE stack[j]
  <2>. HIDE DEF frame
  <2>. QED
    BY <1>1, <1>4, <1>5, ExceptSeq
<1>7. Shrunk(Without(n))
  <2>. HIDE DEF frame
  <2>1. frame.todo \subseteq top.todo
    BY <1>4
  <2>. QED
    BY <1>1, <1>4, <1>6, <2>1 DEF Shrunk
<1>8. \A i \in 1 .. Len(stack) - 1 : Without(n)[i] = stack[i]
  <2>. HIDE DEF frame
  <2>. QED
    BY <1>1, <1>6
<1>9. Without(n)[Len(stack)].todo = stack[Len(stack)].todo \ {n}
  BY <1>1, <1>4, <1>6
<1>. QED
  BY <1>6, <1>7, <1>8, <1>9

(* What closing the last directory does to the stack.                       *)
LEMMA PoppedEffect ==
    ASSUME TypeOK, stack # <<>>
    PROVE  /\ Shrunk(Popped) /\ Len(Popped) = Len(stack) - 1
           /\ \A i \in 1 .. Len(stack) - 1 : Popped[i] = stack[i]
<1>1. Len(stack) \in Nat /\ Len(stack) > 0 /\ \A i \in 1 .. Len(stack) - 1 : stack[i] \in Frames
  BY Types
<1>2. Popped = SubSeq(stack, 1, Len(stack) - 1)
  BY DEF Popped, Front
<1>3. /\ Popped \in Seq(Frames) /\ Len(Popped) = Len(stack) - 1
      /\ \A i \in 1 .. Len(stack) - 1 : Popped[i] = stack[i]
  <2>. DEFINE last == Len(stack) - 1
  <2>1. last \in Nat /\ 1 \in Int /\ last \in Int /\ \A i \in 1 .. last : stack[i] \in Frames
    BY <1>1
  <2>. HIDE DEF last
  <2>2. /\ SubSeq(stack, 1, last) \in Seq(Frames)
        /\ Len(SubSeq(stack, 1, last)) = IF 1 <= last THEN last - 1 + 1 ELSE 0
        /\ \A i \in 1 .. last - 1 + 1 : SubSeq(stack, 1, last)[i] = stack[1 + i - 1]
    BY <2>1, SubSeqProperties
  <2>3. last - 1 + 1 = last /\ \A i \in 1 .. last : 1 + i - 1 = i
    BY <2>1
  <2>4. Len(SubSeq(stack, 1, last)) = last
    BY <2>1, <2>2, <2>3
  <2>. QED
    BY <1>2, <2>2, <2>3, <2>4 DEF last
<1>. QED
  BY <1>1, <1>3 DEF Shrunk

(* Giving up leaves the root open, or nothing.                              *)
LEMMA OneEffect ==
    ASSUME TypeOK, stack # <<>>
    PROVE  /\ Shrunk(<<stack[1]>>) /\ Len(<<stack[1]>>) = 1 /\ <<stack[1]>>[1] = stack[1]
           /\ Shrunk(<<>>) /\ Len(<<>>) = 0
<1>1. Len(stack) \in Nat /\ Len(stack) > 0 /\ stack[1] \in Frames
  BY Types
<1>. QED
  BY <1>1 DEF Shrunk

(* What opening a child does to the stack.                                  *)
LEMMA PushedEffect ==
    ASSUME TypeOK, stack # <<>>, NEW n \in Names, NEW dir \in Dirs
    PROVE  /\ Pushed(n, dir) \in Seq(Frames) /\ Len(Pushed(n, dir)) = Len(stack) + 1
           /\ \A i \in 1 .. Len(stack) : Pushed(n, dir)[i] = Without(n)[i]
           /\ Pushed(n, dir)[Len(stack) + 1] = Frame(dir, n, Listing(dir))
<1>1. Without(n) \in Seq(Frames) /\ Len(Without(n)) = Len(stack) /\ Len(stack) \in Nat
  BY WithoutEffect, Types DEF Shrunk
<1>2. Frame(dir, n, Listing(dir)) \in Frames
  BY DEF Frame, Frames, Listing
<1>. QED
  BY <1>1, <1>2, AppendProperties DEF Pushed

(* The names that are left to do are names.                                 *)
LEMMA ForemostIsTodo ==
    ASSUME TypeOK, stack # <<>>
    PROVE  /\ Top = stack[Len(stack)] /\ Len(stack) \in 1 .. Len(stack)
           /\ Top.dir \in Dirs
           /\ \A n \in Foremost : n \in Names /\ n \in stack[Len(stack)].todo
BY Types DEF Top, Last, Foremost


(* Arithmetic of the lengths of the stack.                                  *)
LEMMA Lengths ==
    \A k \in Nat : /\ k > 1 => k # 1 /\ k # 0 /\ k - 1 > 0
                   /\ k \in {1, 2, 3} => k > 0
                   /\ k \in {1, 2} => k <= 2
                   /\ k <= 2 /\ k > 1 => k = 2
                   /\ k > 1 <=> k \in 2 .. k
                   /\ k > 1 /\ k # 2 => k - 1 \in 2 .. k
OBVIOUS

(* A phase starts with its root, goes down into a directory, goes on with   *)
(* less to do, or ends.                                                     *)
StartsWith(todo) ==
    /\ phase = "prune" => todo = PrunedProjects
    /\ phase = "gc" => todo = LiveProjects
    /\ phase \notin {"prune", "gc"} => todo = Listing(Root)
Started ==
    /\ phase # "over" /\ stack = <<>> /\ Root \in rooted /\ UNCHANGED <<phase, pending, tree>>
    /\ UNCHANGED <<outcome, account>>
    /\ \E todo \in SUBSET Names : stack' = <<Frame(Root, NoName, todo)>> /\ StartsWith(todo)

Enters(n, dir) ==
    /\ phase # "over" /\ stack # <<>> /\ pending = NoName
    /\ n \in Names /\ n \in stack[Len(stack)].todo
    /\ dir \in Dirs /\ dir = tree[stack[Len(stack)].dir][n]
    /\ Sweeping => Len(stack) = 1
    /\ phase = "gc" => Len(stack) <= 2
    /\ phase = "orphans" /\ Len(stack) = 1 => n \notin LiveProjects
    /\ stack' = Pushed(n, dir) /\ UNCHANGED <<phase, pending, tree, outcome, account>>
Entered == \E n \in Names, dir \in Dirs : Enters(n, dir)

Narrowed ==
    /\ phase # "over" /\ stack # <<>> /\ UNCHANGED phase
    /\ Shrunk(stack') /\ Len(stack') > 0
    /\ \/ /\ pending' = NoName
          /\ \/ Len(stack') < Len(stack)
             \/ \E n \in Names : /\ stack' = Without(n)
                                 /\ n = pending \/ n \in stack[Len(stack)].todo
       \/ /\ pending = NoName /\ pending' \in Names /\ stack' = stack /\ Len(stack) > 1
          /\ pending' \in stack[Len(stack)].todo
          /\ Sweeping \/ Removing
          /\ Sweeping => pending' \notin LiveSessions

Ended == phase # "over" /\ EndPhase /\ UNCHANGED tree

(* A child is opened when it is a directory, and not through a link.        *)
LEMMA OpenChildIs ==
    ASSUME TypeOK, NEW d, NEW n
    PROVE  \/ OpenChild(d, n) = "none" /\ tree[d][n] \notin Dirs
           \/ OpenChild(d, n) \in Dirs /\ OpenChild(d, n) = tree[d][n] /\ OpenChild(d, n) # "none"
BY ApartDiffer DEF OpenChild

(* Going past a name narrows what is left to do.                            *)
LEMMA WithoutNarrows ==
    ASSUME TypeOK, stack # <<>>, phase # "over", NEW n \in Names, stack' = Without(n), phase' = phase,
           pending' = NoName, n = pending \/ n \in stack[Len(stack)].todo
    PROVE  Narrowed
BY WithoutEffect, Types DEF Narrowed

(* So does closing the last directory.                                      *)
LEMMA PoppedNarrows ==
    ASSUME TypeOK, Len(stack) > 1, phase # "over", stack' = Popped, phase' = phase, pending' = NoName
    PROVE  Narrowed
<1>1. stack # <<>> /\ Len(stack) \in Nat
  BY Types
<1>2. Shrunk(Popped) /\ Len(Popped) = Len(stack) - 1
  BY <1>1, PoppedEffect
<1>3. \A k \in Nat : k > 1 => k - 1 > 0 /\ k - 1 < k
  OBVIOUS
<1>. QED
  BY <1>1, <1>2, <1>3 DEF Narrowed

(* So does giving up a candidate.                                           *)
LEMMA AbortNarrows ==
    ASSUME TypeOK, Len(stack) > 1, phase # "over", Abort, phase' = phase
    PROVE  Narrowed
BY OneEffect, Types DEF Narrowed, Abort

(* The steps that begin and end phases.                                     *)
LEMMA RootSteps ==
    ASSUME TypeOK, PathInv, OpenRoot \/ GitUnavailable \/ PhaseFails \/ CloseDirectory
    PROVE  Started \/ Narrowed \/ Ended
<1>1. CASE OpenRoot
  <2>. DEFINE todo == CASE phase = "prune" -> PrunedProjects
                        [] phase = "gc"    -> LiveProjects
                        [] OTHER           -> Listing(Root)
  <2>1. todo \subseteq Names /\ StartsWith(todo)
    BY CleanupAssumption DEF Listing, StartsWith
  <2>2. \/ /\ Root \in rooted /\ stack' = <<Frame(Root, NoName, todo)>>
           /\ UNCHANGED <<phase, pending, outcome, account>>
        \/ EndPhase
    BY <1>1 DEF OpenRoot, Completes, Root
  <2>3. phase # "over" /\ stack = <<>> /\ UNCHANGED tree
    BY <1>1 DEF OpenRoot
  <2>. HIDE DEF todo
  <2>. QED
    BY <2>1, <2>2, <2>3 DEF Started, Ended
<1>2. CASE GitUnavailable
  BY <1>2 DEF GitUnavailable, Completes, Ended
<1>3. CASE PhaseFails
  BY <1>3 DEF PhaseFails, Ended
<1>4. CASE CloseDirectory
  <2>1. stack # <<>> /\ pending = NoName /\ UNCHANGED tree
    BY <1>4 DEF CloseDirectory
  <2>2. phase # "over"
    BY <2>1 DEF PathInv
  <2>3. EndPhase \/ (Len(stack) > 1 /\ stack' = Popped /\ UNCHANGED <<phase, pending>>)
    BY <1>4 DEF CloseDirectory, Completes, Depth
  <2>. QED
    BY <2>1, <2>2, <2>3, PoppedNarrows DEF Ended
<1>. QED
  BY <1>1, <1>2, <1>3, <1>4

(* The steps of the sweep of storage files.                                 *)
LEMMA SweepSteps ==
    ASSUME TypeOK, PathInv, ScopeInv, OpenBucket \/ CheckFile \/ UnlinkFile
    PROVE  Entered \/ Narrowed
<1>0. stack # <<>> /\ phase # "over" /\ Sweeping /\ phase' = phase
  BY Types DEF OpenBucket, CheckFile, UnlinkFile, Depth, Sweeping, ScopeInv
<1>1. CASE OpenBucket
  <2>1. /\ Len(stack) = 1 /\ UNCHANGED <<pending, tree, outcome, account>>
        /\ \E n \in Foremost : LET dir == OpenChild(Top.dir, n)
                             IN  stack' = IF dir = "none" THEN Without(n) ELSE Pushed(n, dir)
    BY <1>1 DEF OpenBucket, Depth, Work, InPhase
  <2>2. pending = NoName
    BY <2>1 DEF ScopeInv
  <2>3. PICK n \in Foremost :
            stack' = IF OpenChild(Top.dir, n) = "none" THEN Without(n)
                                                     ELSE Pushed(n, OpenChild(Top.dir, n))
    BY <2>1
  <2>4. CASE OpenChild(Top.dir, n) = "none"
    BY <1>0, <2>1, <2>2, <2>3, <2>4, WithoutNarrows, ForemostIsTodo
  <2>5. CASE OpenChild(Top.dir, n) # "none"
    <3>1. phase # "gc" /\ phase # "orphans"
      BY <1>0 DEF Sweeping
    <3>2. Enters(n, OpenChild(Top.dir, n)) /\ n \in Names /\ OpenChild(Top.dir, n) \in Dirs
      BY <1>0, <2>1, <2>2, <2>3, <2>5, <3>1, OpenChildIs, ForemostIsTodo DEF Enters
    <3>. QED
      BY <3>2 DEF Entered
  <2>. QED
    BY <2>4, <2>5
<1>2. CASE CheckFile
  <2>1. PICK n \in Foremost :
            \/ pending' = n /\ UNCHANGED stack /\ n \notin LiveSessions
            \/ stack' = Without(n) /\ UNCHANGED pending
    BY <1>2 DEF CheckFile
  <2>2. pending = NoName /\ Len(stack) = 2
    BY <1>2 DEF CheckFile, Depth
  <2>3. CASE pending' = n /\ UNCHANGED stack /\ n \notin LiveSessions
    <3>1. Shrunk(stack)
      BY Types DEF Shrunk
    <3>2. n \in Names /\ n \in stack[Len(stack)].todo
      BY <1>0, ForemostIsTodo
    <3>3. Shrunk(stack') /\ Len(stack') > 0 /\ Len(stack) > 1
      BY <2>2, <2>3, <3>1
    <3>. QED
      BY <1>0, <2>2, <2>3, <3>2, <3>3 DEF Narrowed
  <2>4. CASE stack' = Without(n) /\ UNCHANGED pending
    BY <1>0, <2>2, <2>4, WithoutNarrows, ForemostIsTodo
  <2>. QED
    BY <2>1, <2>3, <2>4
<1>3. CASE UnlinkFile
  <2>1. /\ pending # NoName /\ pending \in Names /\ stack' = Without(pending) /\ pending' = NoName
    BY <1>3 DEF UnlinkFile, TypeOK
  <2>. QED
    BY <1>0, <2>1, WithoutNarrows
<1>. QED
  BY <1>1, <1>2, <1>3

(* The steps of the removal of snapshot directories.                        *)
LEMMA RemovalSteps ==
    ASSUME TypeOK, PathInv, ScopeInv, OpenCandidate \/ Descend \/ UnlinkEntry \/ RemoveDirectory
    PROVE  Entered \/ Narrowed
<1>0. stack # <<>> /\ phase # "over" /\ Removing /\ ~Sweeping /\ phase # "gc" /\ phase' = phase
  BY Types DEF OpenCandidate, Descend, UnlinkEntry, RemoveDirectory, Depth, Removing, Sweeping, ScopeInv
<1>1. CASE OpenCandidate
  <2>1. Len(stack) = 1 /\ UNCHANGED <<pending, tree, outcome, account>>
    BY <1>1 DEF OpenCandidate, Depth, Work, InPhase
  <2>2. pending = NoName
    BY <2>1 DEF ScopeInv
  <2>3. PICK n \in Foremost :
            IF OpenChild(Top.dir, n) = "none" \/ (phase = "orphans" /\ n \in LiveProjects)
            THEN stack' = Without(n) ELSE stack' = Pushed(n, OpenChild(Top.dir, n))
    BY <1>1 DEF OpenCandidate
  <2>4. CASE stack' = Without(n)
    BY <1>0, <2>1, <2>2, <2>4, WithoutNarrows, ForemostIsTodo
  <2>5. CASE stack' # Without(n)
    <3>1. Enters(n, OpenChild(Top.dir, n)) /\ n \in Names /\ OpenChild(Top.dir, n) \in Dirs
      BY <1>0, <2>1, <2>2, <2>3, <2>5, OpenChildIs, ForemostIsTodo DEF Enters
    <3>. QED
      BY <3>1 DEF Entered
  <2>. QED
    BY <2>4, <2>5
<1>2. CASE Descend
  <2>1. Len(stack) > 1 /\ UNCHANGED <<tree, outcome, account>> /\ pending = NoName
    BY <1>2 DEF Descend, Depth, Work, InPhase
  <2>3. PICK n \in Foremost :
            IF OpenChild(Top.dir, n) = "none"
            THEN pending' = n /\ UNCHANGED stack
            ELSE stack' = Pushed(n, OpenChild(Top.dir, n)) /\ UNCHANGED pending
    BY <1>2 DEF Descend
  <2>4. CASE OpenChild(Top.dir, n) = "none"
    <3>1. Shrunk(stack)
      BY Types DEF Shrunk
    <3>2. n \in Names /\ n \in stack[Len(stack)].todo
      BY <1>0, ForemostIsTodo
    <3>3. Shrunk(stack') /\ Len(stack') > 0
      BY <1>0, <2>3, <2>4, <3>1, Types
    <3>. QED
      BY <1>0, <2>1, <2>3, <2>4, <3>2, <3>3 DEF Narrowed
  <2>5. CASE OpenChild(Top.dir, n) # "none"
    <3>0. Len(stack) # 1
      BY <2>1, Types, Lengths
    <3>1. Enters(n, OpenChild(Top.dir, n)) /\ n \in Names /\ OpenChild(Top.dir, n) \in Dirs
      BY <1>0, <2>1, <2>3, <2>5, <3>0, OpenChildIs, ForemostIsTodo DEF Enters
    <3>. QED
      BY <3>1 DEF Entered
  <2>. QED
    BY <2>4, <2>5
<1>3. CASE UnlinkEntry
  <2>1. /\ pending # NoName /\ pending \in Names
        /\ (stack' = Without(pending) /\ pending' = NoName) \/ Abort
    BY <1>3 DEF UnlinkEntry, TypeOK
  <2>2. Len(stack) > 1
    BY <2>1 DEF ScopeInv
  <2>. QED
    BY <1>0, <2>1, <2>2, WithoutNarrows, AbortNarrows
<1>4. CASE RemoveDirectory
  <2>1. Len(stack) > 1 /\ pending = NoName
    BY <1>4 DEF RemoveDirectory, Depth
  <2>2. (stack' = Popped /\ UNCHANGED pending) \/ Abort
    BY <1>4 DEF RemoveDirectory
  <2>. QED
    BY <1>0, <2>1, <2>2, PoppedNarrows, AbortNarrows
<1>. QED
  BY <1>1, <1>2, <1>3, <1>4

(* The steps of the compaction of snapshots.                                *)
LEMMA CompactSteps ==
    ASSUME TypeOK, PathInv, ScopeInv, OpenProject \/ OpenRepository \/ CompactRepository
    PROVE  Entered \/ Narrowed
<1>0. /\ stack # <<>> /\ phase = "gc" /\ ~Sweeping /\ ~Removing /\ UNCHANGED <<phase, tree, pending>>
      /\ pending = NoName
  <2>1. phase = "gc" /\ Len(stack) \in {1, 2, 3} /\ UNCHANGED <<phase, tree, pending>>
    BY DEF OpenProject, OpenRepository, CompactRepository, Depth
  <2>2. stack # <<>>
    BY <2>1, Types, Lengths
  <2>3. ~Sweeping /\ ~Removing
    BY <2>1 DEF Sweeping, Removing
  <2>. QED
    BY <2>1, <2>2, <2>3 DEF ScopeInv
<1>1. CASE OpenProject \/ OpenRepository
  <2>1. Len(stack) <= 2 /\ UNCHANGED <<outcome, account>>
    <3>1. Len(stack) \in {1, 2} /\ UNCHANGED <<outcome, account>>
      BY <1>1 DEF OpenProject, OpenRepository, Depth, Work, InPhase
    <3>. QED
      BY <3>1, Types, Lengths
  <2>3. PICK n \in Foremost :
            \/ stack' = Without(n)
            \/ /\ OpenChild(Top.dir, n) # "none"
               /\ stack' = Pushed(n, OpenChild(Top.dir, n))
    BY <1>1 DEF OpenProject, OpenRepository
  <2>4. CASE stack' = Without(n)
    BY <1>0, <2>1, <2>4, WithoutNarrows, ForemostIsTodo
  <2>5. CASE OpenChild(Top.dir, n) # "none" /\ stack' = Pushed(n, OpenChild(Top.dir, n))
    <3>1. Enters(n, OpenChild(Top.dir, n)) /\ n \in Names /\ OpenChild(Top.dir, n) \in Dirs
      BY <1>0, <2>1, <2>5, OpenChildIs, ForemostIsTodo DEF Enters
    <3>. QED
      BY <3>1 DEF Entered
  <2>. QED
    BY <2>3, <2>4, <2>5
<1>2. CASE CompactRepository
  <2>1. Len(stack) > 1 /\ stack' = Popped
    BY <1>2 DEF CompactRepository, Depth
  <2>. QED
    BY <1>0, <2>1, PoppedNarrows
<1>. QED
  BY <1>1, <1>2

(* Every step starts, ends, enters a directory or narrows what is left.     *)
LEMMA StackSteps ==
    ASSUME TypeOK, PathInv, ScopeInv, CleanupStep
    PROVE  Started \/ Entered \/ Narrowed \/ Ended
BY RootSteps, SweepSteps, RemovalSteps, CompactSteps DEF CleanupStep, Sweep, Removal, Compact


-----------------------------------------------------------------------------
(* What a step does to the tree *)

Kept ==
    /\ UNCHANGED <<command, rooted, first, quiet>>
    /\ failures \subseteq failures' /\ (noted \subseteq noted' \/ EndPhase)

(* What no step of the cleanup changes; failures are never forgotten, nor   *)
(* those that a phase has noted before its end.                             *)
LEMMA StepCalls == CleanupStep => Kept
<1>. USE DEF Kept, Call, InPhase, Work, Failure, Abort, Completes
<1>1. OpenRoot \/ CloseDirectory \/ PhaseFails => Kept
  BY DEF OpenRoot, CloseDirectory, PhaseFails
<1>2. OpenBucket \/ CheckFile \/ UnlinkFile => Kept
  BY DEF OpenBucket, CheckFile, UnlinkFile
<1>3. OpenCandidate \/ Descend \/ UnlinkEntry \/ RemoveDirectory => Kept
  BY DEF OpenCandidate, Descend, UnlinkEntry, RemoveDirectory
<1>4. GitUnavailable \/ OpenProject \/ OpenRepository \/ CompactRepository => Kept
  BY DEF GitUnavailable, OpenProject, OpenRepository, CompactRepository
<1>. QED
  BY <1>1, <1>2, <1>3, <1>4 DEF CleanupStep, Sweep, Removal, Compact

(* What others do leaves the traversal where it is.                         *)
LEMMA OthersStay ==
    Disturb => UNCHANGED <<command, rooted, phase, stack, pending, report, failures, counted,
                           noted, faults, compacted, first>> /\ quiet' = FALSE
BY DEF Disturb, MoveAway, Put, Unlink, Others

(* The one entry that a step may take away: a file of a bucket, an entry    *)
(* below a snapshot directory, or such a directory itself.                  *)
FileGoes ==
    /\ Sweeping /\ Len(stack) = 2 /\ pending \in Names
    /\ tree[stack[2].dir][pending] \in {"file", "link"}
    /\ tree' = Unlinked(stack[2].dir, pending)
    /\ counted' = [counted EXCEPT !["files"] = @ + 1] /\ UNCHANGED <<report, phase>>

EntryGoes ==
    /\ Removing /\ Len(stack) > 1 /\ pending \in Names
    /\ tree[stack[Len(stack)].dir][pending] \notin Dirs
    /\ tree' = Unlinked(stack[Len(stack)].dir, pending)
    /\ UNCHANGED <<counted, report, phase>>

DirectoryGoes ==
    /\ Removing /\ Len(stack) > 1
    /\ tree[stack[Len(stack) - 1].dir][stack[Len(stack)].name] \in Dirs
    /\ tree' = Unlinked(stack[Len(stack) - 1].dir, stack[Len(stack)].name)
    /\ counted' = IF Len(stack) = 2 THEN [counted EXCEPT !["dirs"] = @ + 1] ELSE counted
    /\ UNCHANGED <<report, phase>>

Stops == EndPhase /\ UNCHANGED report /\ <<phase, NoName>> \in failures'

(* A step takes away nothing or one of these three; its phase counts that   *)
(* and goes on, hands over what it has counted, or stops.                   *)
LEMMA TreeSteps ==
    ASSUME TypeOK, PathInv, ScopeInv, CleanupStep
    PROVE  \/ UNCHANGED tree /\ (UNCHANGED <<report, counted, phase>> \/ Completes \/ Stops)
           \/ FileGoes \/ EntryGoes \/ DirectoryGoes
<1>. USE DEF Call, InPhase, Work
<1>1. OpenRoot \/ CloseDirectory \/ GitUnavailable =>
          UNCHANGED tree /\ (UNCHANGED <<report, counted, phase>> \/ Completes)
  BY DEF OpenRoot, CloseDirectory, GitUnavailable
<1>2. PhaseFails => UNCHANGED tree /\ Stops
  BY DEF PhaseFails, Stops
<1>3. OpenBucket \/ CheckFile \/ OpenCandidate \/ Descend => UNCHANGED <<tree, report, counted, phase>>
  BY DEF OpenBucket, CheckFile, OpenCandidate, Descend
<1>4. OpenProject \/ OpenRepository \/ CompactRepository => UNCHANGED <<tree, report, counted, phase>>
  BY DEF OpenProject, OpenRepository, CompactRepository
<1>5. CASE UnlinkFile
  <2>1. Sweeping /\ pending \in Names /\ Len(stack) = 2
    <3>1. Sweeping /\ pending # NoName
      BY <1>5 DEF UnlinkFile
    <3>2. Len(stack) <= 2 /\ Len(stack) > 1 /\ Len(stack) \in Nat
      BY <3>1, Types DEF ScopeInv
    <3>. QED
      BY <3>1, <3>2, Lengths DEF TypeOK
  <2>2. Top = stack[2]
    BY <2>1 DEF Top, Last
  <2>. QED
    BY <1>5, <2>1, <2>2 DEF UnlinkFile, FileGoes, Unlinkable, Count
<1>6. CASE UnlinkEntry
  <2>1. Removing /\ pending \in Names /\ Len(stack) > 1
    BY <1>6 DEF UnlinkEntry, ScopeInv, TypeOK
  <2>. QED
    BY <1>6, <2>1 DEF UnlinkEntry, EntryGoes, Abort, Top, Last
<1>7. CASE RemoveDirectory
  <2>1. Removing /\ Len(stack) > 1 /\ UNCHANGED <<report, phase>>
    BY <1>7 DEF RemoveDirectory, Depth
  <2>2. CASE Abort
    BY <2>1, <2>2 DEF Abort
  <2>3. CASE /\ Removable(stack[Len(stack) - 1].dir, stack[Len(stack)].name)
             /\ tree' = Unlinked(stack[Len(stack) - 1].dir, stack[Len(stack)].name)
             /\ IF Len(stack) = 2 THEN Count("dirs") ELSE UNCHANGED counted
    <3>1. tree[stack[Len(stack) - 1].dir][stack[Len(stack)].name] \in Dirs
      BY <2>3, OpenChildIs DEF Removable
    <3>. QED
      BY <2>1, <2>3, <3>1 DEF DirectoryGoes, Count
  <2>. QED
    BY <1>7, <2>2, <2>3 DEF RemoveDirectory, Depth, Top, Last
<1>. QED
  BY <1>1, <1>2, <1>3, <1>4, <1>5, <1>6, <1>7 DEF CleanupStep, Sweep, Removal, Compact

(* The tree after an entry was removed.                                     *)
LEMMA UnlinkedIs ==
    ASSUME TypeOK, NEW d \in Dirs, NEW n \in Names, tree' = Unlinked(d, n)
    PROVE  /\ tree' \in [Dirs -> [Names -> Entry]]
           /\ \A e \in Dirs, m \in Names : tree'[e][m] = IF e = d /\ m = n THEN "none" ELSE tree[e][m]
           /\ \A e \in Dirs \ {d} : tree'[e] = tree[e]
<1>1. tree \in [Dirs -> [Names -> Entry]] /\ "none" \in Entry
  BY Types DEF Entry
<1>2. [tree[d] EXCEPT ![n] = "none"] \in [Names -> Entry]
  BY <1>1
<1>3. tree' = [tree EXCEPT ![d] = [tree[d] EXCEPT ![n] = "none"]]
  BY DEF Unlinked
<1>. QED
  BY <1>1, <1>2, <1>3

(* Where it is: not in what is protected, and not in a bucket if a session  *)
(* of that name is in the database.                                         *)
LEMMA WhatGoes ==
    ASSUME TypeOK, PathInv, ScopeInv, CleanupStep, ~UNCHANGED tree
    PROVE  \E d \in Dirs, n \in Names :
               /\ tree' = Unlinked(d, n)
               /\ d \notin Protected
               /\ d \in Buckets => FileGoes /\ n = pending /\ d = stack[2].dir
               /\ d = Snapshot => DirectoryGoes /\ Len(stack) = 2 /\ n = stack[2].name
<1>0. Len(stack) \in Nat
  BY Types
<1>1. CASE FileGoes
  <2>1. Len(stack) > 1 /\ Sweeping
    BY <1>1, Types DEF FileGoes
  <2>2. stack[2].dir \in Dirs /\ stack[2].dir \notin Protected \cup {Snapshot}
    BY <2>1, SweptIsBucket
  <2>. QED
    BY <1>1, <2>2 DEF FileGoes
<1>2. CASE EntryGoes
  <2>1. Removing /\ Len(stack) \in 2 .. Len(stack) /\ pending \in Names
    BY <1>0, <1>2 DEF EntryGoes
  <2>2. stack[Len(stack)].dir \in Dirs /\ stack[Len(stack)].dir \notin Protected \cup Buckets \cup {Snapshot}
    BY <2>1, EmptiedIsDead
  <2>. QED
    BY <1>2, <2>1, <2>2 DEF EntryGoes
<1>3. CASE DirectoryGoes
  <2>1. Removing /\ Len(stack) \in 2 .. Len(stack)
    BY <1>0, <1>3 DEF DirectoryGoes
  <2>2. stack[Len(stack)].name \in Names
    BY <2>1, OpenedIn
  <2>3. CASE Len(stack) = 2
    <3>1. stack # <<>> /\ Root = Snapshot
      BY <1>0, <2>1, <2>3, Types DEF Root, Removing, Sweeping
    <3>2. stack[1].dir = Snapshot
      BY <3>1, RootOpen
    <3>. QED
      BY <1>3, <2>2, <2>3, <3>2, SnapshotUnprotected DEF DirectoryGoes
  <2>4. CASE Len(stack) # 2
    <3>1. Len(stack) - 1 \in 2 .. Len(stack)
      BY <1>0, <2>1, <2>4, Lengths
    <3>2. /\ stack[Len(stack) - 1].dir \in Dirs
          /\ stack[Len(stack) - 1].dir \notin Protected \cup Buckets \cup {Snapshot}
      BY <2>1, <3>1, EmptiedIsDead
    <3>. QED
      BY <1>3, <2>2, <3>2 DEF DirectoryGoes
  <2>. QED
    BY <2>3, <2>4
<1>. QED
  BY <1>1, <1>2, <1>3, TreeSteps


-----------------------------------------------------------------------------
(* The stack keeps its invariant *)

Distinct(s) == \A i, j \in 1 .. Len(s) : s[i].dir = s[j].dir => i = j
StackInv == stack \in Seq(Frames) /\ Distinct(stack) /\ PathInv /\ ScopeInv
            /\ phase \in Phases /\ pending \in Names \cup {NoName}

(* The stack has these facts already.                                       *)
LEMMA StackOfType == TypeOK /\ PathInv /\ ScopeInv => StackInv
BY DEF TypeOK, StackInv, Distinct, Frames

(* A phase that starts has only its root open.                              *)
LEMMA StartedKeeps ==
    ASSUME TypeOK, PathInv, ScopeInv, first' = first, Started
    PROVE  StackInv'
<1>1. PICK todo \in SUBSET Names : stack' = <<Frame(Root, NoName, todo)>> /\ StartsWith(todo)
  BY DEF Started
<1>2. phase # "over" /\ stack = <<>> /\ UNCHANGED <<phase, pending>>
  BY DEF Started
<1>3. Root \in Dirs
  BY ApartDiffer DEF Root
<1>4. pending = NoName
  BY <1>2, Types DEF ScopeInv
<1>5. /\ Frame(Root, NoName, todo) \in Frames
      /\ Frame(Root, NoName, todo).dir = Root /\ Frame(Root, NoName, todo).todo = todo
  BY <1>3 DEF Frame, Frames
<1>6. Len(stack') = 1 /\ stack'[1] = Frame(Root, NoName, todo) /\ stack' \in Seq(Frames)
  BY <1>1, <1>5
<1>7. Root' = Root /\ Sweeping' = Sweeping /\ Removing' = Removing
  BY <1>2 DEF Root, Sweeping, Removing
<1>8. PathInv' /\ Distinct(stack')
  BY <1>2, <1>5, <1>6, <1>7 DEF PathInv, Distinct
<1>9. ScopeInv'
  BY <1>1, <1>2, <1>4, <1>5, <1>6, <1>7 DEF ScopeInv, StartsWith
<1>. QED
  BY <1>2, <1>6, <1>8, <1>9 DEF StackInv, TypeOK

(* A phase that ends has nothing open.                                      *)
LEMMA EndedKeeps ==
    ASSUME TypeOK, Ended
    PROVE  StackInv'
<1>1. stack' = <<>> /\ pending' = NoName /\ phase' \in Phases
  BY DEF Ended, EndPhase, PhaseAfter, Phases
<1>2. Len(stack') = 0 /\ stack' \in Seq(Frames)
  BY <1>1
<1>. QED
  BY <1>1, <1>2 DEF StackInv, Distinct, PathInv, ScopeInv

(* Narrowing keeps the open directories a path of the first tree.           *)
LEMMA NarrowedKeeps ==
    ASSUME TypeOK, PathInv, ScopeInv, first' = first, Narrowed
    PROVE  StackInv'
<1>1. /\ phase' = phase /\ stack' \in Seq(Frames) /\ Len(stack') <= Len(stack) /\ Len(stack') > 0
      /\ \A i \in 1 .. Len(stack') : /\ stack'[i].dir = stack[i].dir /\ stack'[i].name = stack[i].name
                                     /\ stack'[i].todo \subseteq stack[i].todo
      /\ phase # "over" /\ stack # <<>>
  BY DEF Narrowed, Shrunk
<1>2. Len(stack') \in Nat /\ Len(stack) \in Nat
  BY <1>1, Types
<1>. DEFINE k == Len(stack)
            l == Len(stack')
<1>3. /\ \A i \in 1 .. l : i \in 1 .. k
      /\ \A i \in 2 .. l : i \in 2 .. k /\ i \in 1 .. l /\ i - 1 \in 1 .. l
      /\ l > 1 => k > 1 /\ 2 \in 1 .. l
      /\ 1 \in 1 .. l
  <2>1. k \in Nat /\ l \in Nat /\ l <= k /\ l > 0
    BY <1>1, <1>2
  <2>. HIDE DEF k, l
  <2>. QED
    BY <2>1
<1>4. Root' = Root /\ Sweeping' = Sweeping /\ Removing' = Removing
  BY <1>1 DEF Root, Sweeping, Removing
<1>5. Distinct(stack')
  BY <1>1, <1>3 DEF Distinct, TypeOK
<1>6. PathInv'
  <2>1. \A i \in 2 .. l : /\ stack'[i].name \in Names
                          /\ stack'[i].dir = first[stack'[i - 1].dir][stack'[i].name]
    BY <1>1, <1>3 DEF PathInv
  <2>2. stack'[1].dir = Root
    BY <1>1, <1>3 DEF PathInv
  <2>. QED
    BY <1>1, <1>4, <2>1, <2>2 DEF PathInv
<1>7. (Sweeping => Len(stack') <= 2) /\ (phase = "gc" => Len(stack') <= 3)
  <2>1. \A a, b \in Nat : a <= b => (b <= 2 => a <= 2) /\ (b <= 3 => a <= 3)
    OBVIOUS
  <2>. QED
    BY <1>1, <1>2, <2>1 DEF ScopeInv
<1>8. /\ pending' \in Names \cup {NoName}
      /\ pending' # NoName => /\ Sweeping \/ Removing
                              /\ Len(stack') > 1
                              /\ Sweeping => pending' \notin LiveSessions
  BY DEF Narrowed
<1>9. ScopeInv'
  <2>1. stack # <<>> /\ stack' # <<>>
    BY <1>1, <1>2, EmptySeq
  <2>2. stack'[1].todo \subseteq stack[1].todo
    BY <1>1, <1>3
  <2>3. Len(stack') > 1 => Len(stack) > 1 /\ stack'[2].name = stack[2].name
    BY <1>1, <1>3
  <2>. QED
    BY <1>1, <1>4, <1>7, <1>8, <2>1, <2>2, <2>3 DEF ScopeInv
<1>. QED
  BY <1>1, <1>5, <1>6, <1>8, <1>9 DEF StackInv, TypeOK

(* Entering a child keeps it too: the child stands where it first was.      *)
LEMMA EnteredKeeps ==
    ASSUME TypeOK, TreeInv, PathInv, ScopeInv, first' = first, Entered
    PROVE  StackInv'
<1>1. PICK n \in Names, dir \in Dirs : Enters(n, dir)
  BY DEF Entered
<1>. DEFINE k == Len(stack)
<1>2. /\ phase # "over" /\ stack # <<>> /\ pending = NoName
      /\ n \in stack[k].todo /\ dir = tree[stack[k].dir][n]
      /\ Sweeping => k = 1
      /\ phase = "gc" => k <= 2
      /\ phase = "orphans" /\ k = 1 => n \notin LiveProjects
      /\ stack' = Pushed(n, dir) /\ UNCHANGED <<phase, pending>>
  BY <1>1 DEF Enters
<1>3. k \in Nat /\ k > 0 /\ k \in 1 .. k /\ 1 \in 1 .. k
  BY <1>2, Types
<1>4. /\ Pushed(n, dir) \in Seq(Frames) /\ Len(Pushed(n, dir)) = k + 1
      /\ \A i \in 1 .. k : Pushed(n, dir)[i] = Without(n)[i]
      /\ Pushed(n, dir)[k + 1] = Frame(dir, n, Listing(dir))
  BY <1>2, PushedEffect
<1>5. /\ Len(Without(n)) = k
      /\ \A i \in 1 .. k : /\ Without(n)[i].dir = stack[i].dir /\ Without(n)[i].name = stack[i].name
                           /\ Without(n)[i].todo \subseteq stack[i].todo
  BY <1>2, WithoutEffect DEF Shrunk
<1>6. /\ stack' \in Seq(Frames) /\ Len(stack') = k + 1
      /\ \A i \in 1 .. k : /\ stack'[i].dir = stack[i].dir /\ stack'[i].name = stack[i].name
                           /\ stack'[i].todo \subseteq stack[i].todo
      /\ stack'[k + 1].dir = dir /\ stack'[k + 1].name = n
  <2>. HIDE DEF k
  <2>1. stack'[k + 1].dir = dir /\ stack'[k + 1].name = n
    <3>1. stack'[k + 1] = Frame(dir, n, Listing(dir))
      BY <1>2, <1>4
    <3>. QED
      BY <3>1 DEF Frame
  <2>2. \A i \in 1 .. k : stack'[i] = Without(n)[i]
    BY <1>2, <1>4
  <2>. QED
    BY <1>2, <1>4, <1>5, <2>1, <2>2
<1>7. stack[k].dir \in Dirs \ {Elsewhere} /\ dir = first[stack[k].dir][n] /\ dir \notin Apart
  <2>1. stack[k].dir \in Dirs \ {Elsewhere}
    BY <1>3, OpenInPlace
  <2>2. dir = first[stack[k].dir][n]
    BY <1>2, <2>1 DEF TreeInv
  <2>. QED
    BY <2>1, <2>2, Types DEF Forest
<1>8. \A i \in 1 .. k : stack[i].dir # dir
  <2>. SUFFICES ASSUME NEW i \in 1 .. k, stack[i].dir = dir PROVE FALSE
    OBVIOUS
  <2>1. CASE i = 1
    BY <1>2, <1>7, <2>1, RootOpen DEF Apart
  <2>2. CASE i # 1
    <3>1. i \in 2 .. k
      BY <1>3, <2>2
    <3>2. stack[k].dir = stack[i - 1].dir /\ i - 1 \in 1 .. k
      BY <1>7, <3>1, OpenedIn
    <3>3. i - 1 = k
      BY <1>3, <3>2 DEF TypeOK
    <3>. QED
      BY <1>3, <3>1, <3>3
  <2>. QED
    BY <2>1, <2>2
<1>. HIDE DEF k
<1>9. /\ \A i \in 1 .. k + 1 : i = k + 1 \/ i \in 1 .. k
      /\ \A i \in 2 .. k + 1 : i = k + 1 \/ (i \in 2 .. k /\ i \in 1 .. k /\ i - 1 \in 1 .. k)
      /\ k + 1 - 1 = k /\ 1 \in 1 .. k /\ k \in 1 .. k
  BY <1>3
<1>10. Distinct(stack')
  <2>1. \A i, j \in 1 .. k : stack[i].dir = stack[j].dir => i = j
    BY DEF TypeOK, k
  <2>. QED
    BY <1>6, <1>8, <1>9, <2>1 DEF Distinct
<1>11. Root' = Root /\ Sweeping' = Sweeping /\ Removing' = Removing
  BY <1>2 DEF Root, Sweeping, Removing
<1>12. PathInv'
  <2>1. \A i \in 2 .. k : /\ stack[i].name \in Names
                          /\ stack[i].dir = first[stack[i - 1].dir][stack[i].name]
    BY DEF PathInv, k
  <2>2. \A i \in 2 .. k + 1 : /\ stack'[i].name \in Names
                              /\ stack'[i].dir = first[stack'[i - 1].dir][stack'[i].name]
    BY <1>6, <1>7, <1>9, <2>1
  <2>3. stack'[1].dir = Root
    BY <1>2, <1>6, <1>9 DEF PathInv
  <2>. QED
    BY <1>2, <1>6, <1>11, <2>2, <2>3 DEF PathInv
<1>13. ScopeInv'
  <2>1. /\ Sweeping => k + 1 <= 2
        /\ phase = "gc" => k + 1 <= 3
    BY <1>2, <1>3
  <2>2. stack'[1].todo \subseteq stack[1].todo
    BY <1>6, <1>9
  <2>3. stack'[2].name = IF k = 1 THEN n ELSE stack[2].name
    <3>1. k # 1 => 2 \in 1 .. k
      BY <1>3
    <3>2. CASE k = 1
      BY <1>6, <3>2
    <3>3. CASE k # 1
      BY <1>6, <3>1, <3>3
    <3>. QED
      BY <3>2, <3>3
  <2>4. k = 1 => /\ Removing => n \notin LiveProjects
                 /\ phase = "gc" => n \in LiveProjects
    BY <1>2, CleanupAssumption DEF ScopeInv, Removing
  <2>5. k # 1 => Len(stack) > 1
    <3>1. k # 1 => k > 1
      BY <1>3
    <3>. QED
      BY <3>1 DEF k
  <2>. QED
    BY <1>2, <1>6, <1>11, <2>1, <2>2, <2>3, <2>4, <2>5 DEF ScopeInv
<1>. QED
  BY <1>2, <1>6, <1>10, <1>12, <1>13 DEF StackInv, TypeOK

(* Every step keeps the facts about the stack.                              *)
LEMMA StackKept ==
    ASSUME CleanupInv, [Next]_vars
    PROVE  StackInv'
<1>1. TypeOK /\ TreeInv /\ PathInv /\ ScopeInv
  BY DEF CleanupInv
<1>2. CASE CleanupStep
  BY <1>1, <1>2, StepCalls, StackSteps, StartedKeeps, EnteredKeeps, NarrowedKeeps, EndedKeeps DEF Kept
<1>3. CASE Disturb \/ UNCHANGED vars
  <2>1. UNCHANGED <<phase, stack, pending, first>>
    BY <1>3, OthersStay DEF vars
  <2>2. StackInv
    BY <1>1, StackOfType
  <2>. QED
    BY <2>1, <2>2 DEF StackInv, Distinct, PathInv, ScopeInv, Root, Sweeping, Removing
<1>. QED
  BY <1>2, <1>3 DEF Next


-----------------------------------------------------------------------------
(* Types *)

FailureType == (Phases \cup Dirs) \X (Names \cup {NoName})
NotedType == Dirs \X (Names \cup {NoName})

(* The type of the count of faults.                                         *)
LEMMA FaultType ==
    ASSUME TypeOK, NEW could, Fault(could)
    PROVE  faults' \in 0 .. MaxFaults
BY CleanupAssumption DEF TypeOK, Fault

(* The type of the failures when a candidate is given up.                   *)
LEMMA AbortType ==
    ASSUME TypeOK, Len(stack) > 1, Abort
    PROVE  noted' \subseteq NotedType
<1>1. Len(stack) \in Nat /\ 1 \in 1 .. Len(stack) /\ 2 \in 1 .. Len(stack)
  BY Types
<1>2. stack[1].dir \in Dirs /\ stack[2] \in Frames
  BY <1>1, Types
<1>3. stack[2].name \in Names \cup {NoName}
  BY <1>2 DEF Frames
<1>. QED
  BY <1>2, <1>3 DEF Abort, Failure, TypeOK, NotedType

(* The types of what is reported.                                           *)
LEMMA ReportedTypes ==
    ASSUME TypeOK, PathInv, ScopeInv, CleanupStep
    PROVE  /\ failures' \subseteq FailureType /\ noted' \subseteq NotedType
           /\ faults' \in 0 .. MaxFaults /\ compacted' \subseteq Dirs
<1>. USE DEF Call, InPhase, Work, FailureType, NotedType
<1>0. /\ failures \subseteq FailureType /\ noted \subseteq NotedType
      /\ faults \in 0 .. MaxFaults /\ compacted \subseteq Dirs
  BY DEF TypeOK
<1>1. CASE OpenRoot \/ CloseDirectory \/ GitUnavailable
  BY <1>0, <1>1 DEF OpenRoot, CloseDirectory, GitUnavailable, Completes, EndPhase
<1>2. CASE PhaseFails
  <2>1. failures' = failures \cup {<<phase, NoName>>} /\ Fault(TRUE) /\ compacted' = compacted
    BY <1>2 DEF PhaseFails
  <2>2. <<phase, NoName>> \in FailureType
    BY DEF TypeOK
  <2>3. noted' = {}
    BY <1>2 DEF PhaseFails, EndPhase
  <2>. QED
    BY <1>0, <2>1, <2>2, <2>3, FaultType
<1>3. CASE OpenBucket \/ CheckFile \/ OpenCandidate \/ Descend \/ OpenProject \/ OpenRepository
  BY <1>0, <1>3 DEF OpenBucket, CheckFile, OpenCandidate, Descend, OpenProject, OpenRepository
<1>4. CASE UnlinkFile
  <2>1. compacted' = compacted /\ failures' = failures
    BY <1>4 DEF UnlinkFile
  <2>2. faults' \in 0 .. MaxFaults
    BY <1>0, <1>4, FaultType DEF UnlinkFile
  <2>3. stack # <<>> /\ pending \in Names
    <3>1. Len(stack) > 1
      BY <1>4 DEF UnlinkFile, ScopeInv
    <3>. QED
      BY <1>4, <3>1, Types DEF UnlinkFile, TypeOK
  <2>4. Top.dir \in Dirs
    BY <2>3, ForemostIsTodo
  <2>5. <<Top.dir, pending>> \in NotedType
    BY <2>3, <2>4
  <2>6. noted' = noted \/ noted' = noted \cup {<<Top.dir, pending>>}
    BY <1>4 DEF UnlinkFile, Failure
  <2>. QED
    BY <1>0, <2>1, <2>2, <2>5, <2>6
<1>5. CASE UnlinkEntry
  <2>1. compacted' = compacted /\ Len(stack) > 1
    BY <1>5 DEF UnlinkEntry, ScopeInv
  <2>2. faults' \in 0 .. MaxFaults
    BY <1>0, <1>5, FaultType DEF UnlinkEntry
  <2>3. failures' = failures /\ (noted' = noted \/ Abort)
    BY <1>5 DEF UnlinkEntry
  <2>. QED
    BY <1>0, <2>1, <2>2, <2>3, AbortType
<1>6. CASE RemoveDirectory
  <2>1. compacted' = compacted /\ Len(stack) > 1
    BY <1>6 DEF RemoveDirectory, Depth
  <2>2. faults' \in 0 .. MaxFaults
    BY <1>0, <1>6, FaultType DEF RemoveDirectory
  <2>3. failures' = failures /\ (noted' = noted \/ Abort)
    BY <1>6 DEF RemoveDirectory
  <2>. QED
    BY <1>0, <2>1, <2>2, <2>3, AbortType
<1>7. CASE CompactRepository
  <2>1. Len(stack) = 3
    BY <1>7 DEF CompactRepository, Depth
  <2>2. /\ Top = stack[3] /\ stack[3] \in Frames /\ stack[2] \in Frames
    BY <2>1, Types DEF Top, Last
  <2>3. Top.dir \in Dirs /\ <<stack[2].dir, Top.name>> \in NotedType
    BY <2>2 DEF Frames
  <2>4. /\ failures' = failures
        /\ noted' = noted \/ noted' = noted \cup {<<stack[2].dir, Top.name>>}
        /\ compacted' = compacted \/ compacted' = compacted \cup {Top.dir}
        /\ faults' = faults \/ Fault(TRUE)
    BY <1>7 DEF CompactRepository, Failure
  <2>. QED
    BY <1>0, <2>3, <2>4, FaultType
<1>. QED
  BY <1>1, <1>2, <1>3, <1>4, <1>5, <1>6, <1>7 DEF CleanupStep, Sweep, Removal, Compact

(* What others do, entry by entry: away from where directories are moved    *)
(* to, an entry is as it was, or nothing, or no directory.                  *)
LEMMA DisturbedTree ==
    ASSUME TypeOK, Disturb
    PROVE  /\ tree' \in [Dirs -> [Names -> Entry]]
           /\ \A d \in Dirs \ {Elsewhere}, n \in Names : tree'[d][n] \in Dirs => tree'[d][n] = tree[d][n]
<1>0. tree \in [Dirs -> [Names -> Entry]] /\ {"none", "file", "link"} \subseteq Entry
  BY Types DEF Entry
<1>1. InUse \subseteq Dirs /\ \A d \in Dirs : Named(d) \subseteq Names
  BY ApartDiffer DEF InUse, Buckets, Named
<1>2. CASE MoveAway
  <2>1. PICK d \in InUse : \E n \in Named(d) :
            /\ tree[d][n] \in Dirs /\ tree[Elsewhere][n] = "none"
            /\ tree' = [tree EXCEPT ![Elsewhere][n] = tree[d][n], ![d][n] = "none"]
    BY <1>2 DEF MoveAway
  <2>2. PICK n \in Named(d) :
            /\ tree[d][n] \in Dirs /\ tree[Elsewhere][n] = "none"
            /\ tree' = [tree EXCEPT ![Elsewhere][n] = tree[d][n], ![d][n] = "none"]
    BY <2>1
  <2>3. d \in Dirs /\ n \in Names /\ Elsewhere \in Dirs
    BY <1>1, <2>1, <2>2, ApartDiffer
  <2>. DEFINE middle == [tree EXCEPT ![Elsewhere][n] = tree[d][n]]
  <2>4. /\ middle \in [Dirs -> [Names -> Entry]]
        /\ \A e \in Dirs \ {Elsewhere} : middle[e] = tree[e]
    <3>1. [tree[Elsewhere] EXCEPT ![n] = tree[d][n]] \in [Names -> Entry]
      BY <1>0, <2>3
    <3>2. middle = [tree EXCEPT ![Elsewhere] = [tree[Elsewhere] EXCEPT ![n] = tree[d][n]]]
      OBVIOUS
    <3>. QED
      BY <1>0, <2>3, <3>1, <3>2
  <2>5. /\ tree' \in [Dirs -> [Names -> Entry]]
        /\ \A e \in Dirs, m \in Names :
               tree'[e][m] = IF e = d /\ m = n THEN "none" ELSE middle[e][m]
    <3>1. tree' = [middle EXCEPT ![d] = [middle[d] EXCEPT ![n] = "none"]]
      BY <2>2
    <3>. HIDE DEF middle
    <3>2. [middle[d] EXCEPT ![n] = "none"] \in [Names -> Entry]
      BY <1>0, <2>3, <2>4
    <3>. QED
      BY <2>3, <2>4, <3>1, <3>2
  <2>. HIDE DEF middle
  <2>. QED
    BY <2>4, <2>5, ApartDiffer
<1>3. CASE Put
  <2>1. PICK d \in InUse : \E n \in Named(d), what \in {"file", "link"} :
            tree' = [tree EXCEPT ![d][n] = what]
    BY <1>3 DEF Put
  <2>2. PICK n \in Named(d), what \in {"file", "link"} : tree' = [tree EXCEPT ![d][n] = what]
    BY <2>1
  <2>3. d \in Dirs /\ n \in Names /\ what \in Entry /\ what \notin Dirs
    BY <1>0, <1>1, <2>1, <2>2, ApartDiffer
  <2>4. tree' = [tree EXCEPT ![d] = [tree[d] EXCEPT ![n] = what]]
    BY <2>2
  <2>5. [tree[d] EXCEPT ![n] = what] \in [Names -> Entry]
    BY <1>0, <2>3
  <2>6. /\ tree' \in [Dirs -> [Names -> Entry]]
        /\ \A e \in Dirs, m \in Names : tree'[e][m] = IF e = d /\ m = n THEN what ELSE tree[e][m]
    BY <1>0, <2>3, <2>4, <2>5
  <2>. QED
    BY <2>3, <2>6
<1>4. CASE Unlink
  <2>1. PICK d \in InUse : \E n \in Named(d) : tree' = Unlinked(d, n)
    BY <1>4 DEF Unlink
  <2>2. PICK n \in Named(d) : tree' = Unlinked(d, n)
    BY <2>1
  <2>3. d \in Dirs /\ n \in Names
    BY <1>1, <2>1, <2>2
  <2>. QED
    BY <2>2, <2>3, UnlinkedIs, ApartDiffer
<1>. QED
  BY <1>2, <1>3, <1>4 DEF Disturb

(* Every step keeps the types.                                              *)
LEMMA TypeKept ==
    ASSUME CleanupInv, [Next]_vars
    PROVE  TypeOK'
<1>1. TypeOK /\ PathInv /\ ScopeInv /\ StackInv'
  BY StackKept DEF CleanupInv
<1>2. CASE CleanupStep
  <2>1. UNCHANGED <<command, rooted, first, quiet>>
    BY <1>2, StepCalls DEF Kept
  <2>2. /\ failures' \subseteq FailureType /\ noted' \subseteq NotedType
        /\ faults' \in 0 .. MaxFaults /\ compacted' \subseteq Dirs
    BY <1>1, <1>2, ReportedTypes
  <2>3. tree' \in [Dirs -> [Names -> Entry]]
    <3>1. CASE UNCHANGED tree
      BY <1>1, <3>1, Types
    <3>2. CASE ~UNCHANGED tree
      BY <1>1, <1>2, <3>2, WhatGoes, UnlinkedIs
    <3>. QED
      BY <3>1, <3>2
  <2>4. report' \in [Counts -> Nat] /\ counted' \in [Counts -> Nat]
    <3>1. report \in [Counts -> Nat] /\ counted \in [Counts -> Nat]
      BY <1>1 DEF TypeOK
    <3>2. CASE UNCHANGED report
      <4>1. \/ counted' = counted \/ counted' = Nothing
            \/ \E c \in Counts : counted' = [counted EXCEPT ![c] = @ + 1]
        BY <1>1, <1>2, TreeSteps
           DEF FileGoes, EntryGoes, DirectoryGoes, Counts, Completes, Stops, EndPhase
      <4>. QED
        BY <3>1, <3>2, <4>1 DEF Nothing
    <3>3. CASE Completes
      <4>1. report' = [c \in Counts |-> report[c] + counted[c]] /\ counted' = Nothing
        BY <3>3 DEF Completes, EndPhase
      <4>. QED
        BY <3>1, <4>1 DEF Nothing
    <3>. QED
      BY <1>1, <1>2, <3>2, <3>3, TreeSteps DEF FileGoes, EntryGoes, DirectoryGoes, Stops
  <2>. QED
    BY <1>1, <2>1, <2>2, <2>3, <2>4 DEF TypeOK, StackInv, Distinct, Frames, FailureType, NotedType
<1>3. CASE Disturb
  BY <1>1, <1>3, OthersStay, DisturbedTree DEF TypeOK, StackInv, Distinct, Frames
<1>4. CASE UNCHANGED vars
  BY <1>1, <1>4 DEF vars, TypeOK
<1>. QED
  BY <1>2, <1>3, <1>4 DEF Next

(* Nobody puts a directory where another one was.                           *)
LEMMA TreeKept ==
    ASSUME CleanupInv, [Next]_vars
    PROVE  TreeInv'
<1>1. TypeOK /\ PathInv /\ ScopeInv /\ TreeInv
  BY DEF CleanupInv
<1>2. CASE CleanupStep
  <2>1. UNCHANGED <<first, quiet>>
    BY <1>2, StepCalls DEF Kept
  <2>2. CASE UNCHANGED tree
    BY <1>1, <2>1, <2>2 DEF TreeInv
  <2>3. CASE ~UNCHANGED tree
    <3>1. PICK d \in Dirs, n \in Names : tree' = Unlinked(d, n)
      BY <1>1, <1>2, <2>3, WhatGoes
    <3>2. \A e \in Dirs, m \in Names : tree'[e][m] = IF e = d /\ m = n THEN "none" ELSE tree[e][m]
      BY <1>1, <3>1, UnlinkedIs
    <3>. QED
      BY <1>1, <2>1, <3>2, ApartDiffer DEF TreeInv
  <2>. QED
    BY <2>2, <2>3
<1>3. CASE Disturb
  BY <1>1, <1>3, OthersStay, DisturbedTree DEF TreeInv
<1>4. CASE UNCHANGED vars
  BY <1>1, <1>4 DEF vars, TreeInv
<1>. QED
  BY <1>2, <1>3, <1>4 DEF Next


-----------------------------------------------------------------------------
(* What git gc runs in *)

(* git gc runs only below projects of the database.                         *)
LEMMA CompactedKept ==
    ASSUME CleanupInv, [Next]_vars
    PROVE  CompactedInv'
<1>1. TypeOK /\ PathInv /\ ScopeInv /\ CompactedInv
  BY DEF CleanupInv
<1>2. first' = first
  BY StepCalls, OthersStay DEF Kept, Next, vars
<1>3. \A n : Below(n)' = Below(n)
  BY <1>2 DEF Below
<1>4. CASE compacted' = compacted
  BY <1>1, <1>3, <1>4 DEF CompactedInv
<1>5. CASE compacted' # compacted
  <2>1. CompactRepository
    BY <1>5, OthersStay
       DEF Next, vars, CleanupStep, Sweep, Removal, Compact, Work, OpenRoot, CloseDirectory, PhaseFails,
           OpenBucket, CheckFile, UnlinkFile, OpenCandidate, Descend, UnlinkEntry, RemoveDirectory,
           GitUnavailable, OpenProject, OpenRepository
  <2>2. Len(stack) = 3 /\ phase = "gc" /\ compacted' = compacted \cup {Top.dir}
    BY <1>5, <2>1 DEF CompactRepository, Depth
  <2>3. Top = stack[3] /\ 3 \in 2 .. Len(stack) /\ Len(stack) > 1 /\ 3 - 1 = 2
    BY <2>2 DEF Top, Last
  <2>4. Root = Snapshot
    BY <2>2 DEF Root, Sweeping
  <2>5. stack[2].dir = first[Snapshot][stack[2].name] /\ stack[2].dir \in Dirs
    BY <1>1, <2>3, <2>4, SecondOpen, Types
  <2>6. stack[3].dir = first[stack[2].dir][stack[3].name] /\ stack[3].name \in Names /\ stack[3].dir \in Dirs
    BY <1>1, <2>3, OpenedIn
  <2>7. stack[2].name \in LiveProjects
    BY <1>1, <2>2, <2>3 DEF ScopeInv
  <2>8. stack[3].dir \in Below(stack[2].name)
    BY <2>5, <2>6 DEF Below
  <2>. QED
    BY <1>1, <1>3, <2>2, <2>3, <2>7, <2>8 DEF CompactedInv
<1>. QED
  BY <1>4, <1>5

-----------------------------------------------------------------------------
(* What is left over *)

(* Nothing comes back: a directory that has gone from its place stays away, *)
(* and what is reported stays reported.                                     *)
LEMMA SettledStays ==
    ASSUME CleanupInv, [Next]_vars
    PROVE  /\ failures \subseteq failures' /\ (noted \subseteq noted' \/ EndPhase)
           /\ \A n \in Names : tree'[Snapshot][n] \in Dirs => tree[Snapshot][n] \in Dirs
           /\ \A n \in Names : \A p : Settled(n, p) => Settled(n, p)'
           /\ \A n \in Names : \A p : SoFar(n, p) => SoFar(n, p)' \/ EndPhase
<1>1. TypeOK /\ PathInv /\ ScopeInv /\ TreeInv
  BY DEF CleanupInv
<1>2. failures \subseteq failures' /\ (noted \subseteq noted' \/ EndPhase)
  BY StepCalls, OthersStay DEF Kept, Next, vars
<1>3. \A n \in Names : tree'[Snapshot][n] \in Dirs => tree[Snapshot][n] \in Dirs
  <2>1. CASE CleanupStep
    <3>1. CASE UNCHANGED tree
      BY <3>1
    <3>2. CASE ~UNCHANGED tree
      <4>1. PICK d \in Dirs, n \in Names : tree' = Unlinked(d, n)
        BY <1>1, <2>1, <3>2, WhatGoes
      <4>. QED
        BY <1>1, <4>1, UnlinkedIs, ApartDiffer
    <3>. QED
      BY <3>1, <3>2
  <2>2. CASE Disturb
    BY <1>1, <2>2, DisturbedTree, ApartDiffer
  <2>3. CASE UNCHANGED vars
    BY <2>3 DEF vars
  <2>. QED
    BY <2>1, <2>2, <2>3 DEF Next
<1>. QED
  BY <1>2, <1>3 DEF Settled, SoFar

(* A step of a phase that removes settles what it takes off its list.       *)
LEMMA RemovalSettles ==
    ASSUME CleanupInv, CleanupStep, Removing, stack # <<>>, stack' # <<>>, phase' = phase,
           NEW n \in Names, n \notin LiveProjects, Ahead(n)
    PROVE  Ahead(n)' \/ SoFar(n, phase)'
<1>1. TypeOK /\ PathInv /\ ScopeInv
  BY DEF CleanupInv
<1>2. stack[1].dir = Snapshot /\ 1 \in 1 .. Len(stack) /\ Len(stack) \in Nat
  BY <1>1, RootOpen, Types DEF Root, Removing, Sweeping
<1>3. \A s : /\ tree'[Snapshot][s] \notin Dirs => SoFar(s, phase)'
             /\ <<Snapshot, s>> \in noted' => SoFar(s, phase)'
  BY DEF Settled, SoFar
<1>4. ASSUME Len(stack') >= 1, stack'[1] = stack[1], Len(stack) > 1, Len(stack') > 1,
                   stack'[2].name = stack[2].name
      PROVE  Ahead(n)'
  BY <1>4 DEF Ahead
<1>5. CASE OpenCandidate
  <2>1. Len(stack) = 1 /\ UNCHANGED tree
    BY <1>5 DEF OpenCandidate, Depth
  <2>2. PICK m \in Foremost :
            IF OpenChild(Top.dir, m) = "none" \/ (phase = "orphans" /\ m \in LiveProjects)
            THEN stack' = Without(m) ELSE stack' = Pushed(m, OpenChild(Top.dir, m))
    BY <1>5 DEF OpenCandidate
  <2>3. Top.dir = Snapshot /\ m \in Names
    BY <1>1, <1>2, <2>1, <2>2, ForemostIsTodo
  <2>4. n \in stack[1].todo
    BY <2>1 DEF Ahead
  <2>5. Without(m)[1].todo = stack[1].todo \ {m} /\ Len(Without(m)) = 1
    BY <1>1, <2>1, WithoutEffect
  <2>6. CASE n # m
    <3>1. CASE stack' = Without(m)
      BY <2>4, <2>5, <2>6, <3>1 DEF Ahead
    <3>2. CASE stack' # Without(m)
      <4>1. OpenChild(Top.dir, m) \in Dirs /\ stack' = Pushed(m, OpenChild(Top.dir, m))
        BY <1>1, <2>2, <3>2, OpenChildIs
      <4>2. stack'[1] = Without(m)[1]
        BY <1>1, <1>2, <2>3, <4>1, PushedEffect
      <4>. QED
        BY <2>4, <2>5, <2>6, <4>2 DEF Ahead
    <3>. QED
      BY <3>1, <3>2
  <2>7. CASE n = m
    <3>1. CASE OpenChild(Top.dir, m) = "none"
      <4>1. tree[Snapshot][n] \notin Dirs
        BY <1>1, <2>3, <2>7, <3>1, OpenChildIs, ApartDiffer
      <4>. QED
        BY <1>3, <2>1, <4>1
    <3>2. CASE OpenChild(Top.dir, m) # "none"
      <4>1. OpenChild(Top.dir, m) \in Dirs /\ stack' = Pushed(m, OpenChild(Top.dir, m))
        BY <1>1, <2>2, <2>7, <3>2, OpenChildIs
      <4>2. Len(stack') = 2 /\ stack'[2] = Frame(OpenChild(Top.dir, m), m, Listing(OpenChild(Top.dir, m)))
        BY <1>1, <2>1, <2>3, <4>1, PushedEffect
      <4>. QED
        BY <2>7, <4>2 DEF Ahead, Frame
    <3>. QED
      BY <3>1, <3>2
  <2>. QED
    BY <2>6, <2>7
<1>6. ASSUME Len(stack) > 1, NEW m, stack' = Without(m)
      PROVE  Ahead(n)'
  <2>1. /\ Len(Without(m)) = Len(stack) /\ Shrunk(Without(m))
        /\ \A i \in 1 .. Len(stack) - 1 : Without(m)[i] = stack[i]
    BY <1>1, <1>6, WithoutEffect
  <2>2. \A k \in Nat : k > 1 => k >= 1 /\ 1 \in 1 .. k - 1 /\ 2 \in 1 .. k
    OBVIOUS
  <2>3. stack'[1] = stack[1] /\ stack'[2].name = stack[2].name /\ Len(stack') > 1 /\ Len(stack') >= 1
    BY <1>2, <1>6, <2>1, <2>2 DEF Shrunk
  <2>. QED
    BY <1>4, <1>6, <2>3
<1>7. CASE Descend
  <2>1. Len(stack) > 1
    BY <1>7 DEF Descend, Depth
  <2>2. PICK m \in Foremost :
            IF OpenChild(Top.dir, m) = "none" THEN UNCHANGED stack
            ELSE stack' = Pushed(m, OpenChild(Top.dir, m))
    BY <1>7 DEF Descend
  <2>3. CASE OpenChild(Top.dir, m) = "none"
    BY <2>2, <2>3 DEF Ahead
  <2>4. CASE OpenChild(Top.dir, m) # "none"
    <3>1. OpenChild(Top.dir, m) \in Dirs /\ stack' = Pushed(m, OpenChild(Top.dir, m)) /\ m \in Names
      BY <1>1, <2>2, <2>4, OpenChildIs, ForemostIsTodo
    <3>2. /\ Len(stack') = Len(stack) + 1
          /\ \A i \in 1 .. Len(stack) : stack'[i] = Without(m)[i]
      BY <1>1, <3>1, PushedEffect
    <3>3. /\ Shrunk(Without(m)) /\ Len(Without(m)) = Len(stack)
          /\ \A i \in 1 .. Len(stack) - 1 : Without(m)[i] = stack[i]
      BY <1>1, WithoutEffect
    <3>4. \A k \in Nat : k > 1 => k + 1 > 1 /\ k + 1 >= 1 /\ 1 \in 1 .. k - 1 /\ 1 \in 1 .. k /\ 2 \in 1 .. k
      OBVIOUS
    <3>5. stack'[1] = stack[1] /\ stack'[2].name = stack[2].name /\ Len(stack') > 1 /\ Len(stack') >= 1
      BY <1>2, <2>1, <3>2, <3>3, <3>4 DEF Shrunk
    <3>. QED
      BY <1>4, <2>1, <3>5
  <2>. QED
    BY <2>3, <2>4
<1>8. ASSUME Len(stack) > 1, Abort
      PROVE  Ahead(n)' \/ SoFar(n, phase)'
  <2>1. /\ noted' = noted \cup {<<Snapshot, stack[2].name>>}
        /\ stack' = <<stack[1]>>
    BY <1>2, <1>8 DEF Abort, Failure
  <2>2. stack'[1] = stack[1]
    BY <2>1
  <2>. QED
    BY <1>3, <2>1, <2>2 DEF Ahead
<1>9. CASE UnlinkEntry
  <2>1. Len(stack) > 1
    BY <1>1, <1>9 DEF UnlinkEntry, ScopeInv
  <2>2. stack' = Without(pending) \/ Abort
    BY <1>9 DEF UnlinkEntry
  <2>. QED
    BY <1>6, <1>8, <2>1, <2>2
<1>10. CASE RemoveDirectory
  <2>1. Len(stack) > 1
    BY <1>10 DEF RemoveDirectory, Depth
  <2>2. CASE Abort
    BY <1>8, <2>1, <2>2
  <2>3. CASE stack' = Popped /\ tree' = Unlinked(stack[Len(stack) - 1].dir, stack[Len(stack)].name)
    <3>1. /\ Len(Popped) = Len(stack) - 1
          /\ \A i \in 1 .. Len(stack) - 1 : Popped[i] = stack[i]
      BY <1>1, PoppedEffect
    <3>2. \A k \in Nat : k > 1 => 1 \in 1 .. k - 1 /\ (k = 2 \/ (k - 1 > 1 /\ k - 1 >= 1 /\ 2 \in 1 .. k - 1))
      OBVIOUS
    <3>3. stack'[1] = stack[1]
      BY <1>2, <2>1, <2>3, <3>1, <3>2
    <3>4. CASE Len(stack) = 2
      <4>1. stack[2].name \in Names /\ Snapshot \in Dirs /\ tree' = Unlinked(Snapshot, stack[2].name)
        BY <1>1, <1>2, <2>3, <3>4, SecondOpen, ApartDiffer
      <4>2. tree'[Snapshot][stack[2].name] \notin Dirs
        BY <1>1, <4>1, UnlinkedIs, ApartDiffer
      <4>. QED
        BY <1>3, <3>3, <4>2 DEF Ahead
    <3>5. CASE Len(stack) # 2
      <4>1. Len(stack') > 1 /\ Len(stack') >= 1 /\ stack'[2] = stack[2]
        BY <1>2, <2>1, <2>3, <3>1, <3>2, <3>5
      <4>. QED
        BY <1>4, <2>1, <3>3, <4>1
    <3>. QED
      BY <3>4, <3>5
  <2>. QED
    BY <1>10, <2>2, <2>3 DEF RemoveDirectory, Depth, Top, Last
<1>11. CASE CloseDirectory
  <2>1. phase' = phase => Depth > 1 /\ ~Removing
    BY <1>11 DEF CloseDirectory, Completes, EndPhase, PhaseAfter, Removing
  <2>. QED
    BY <2>1
<1>12. CASE PhaseFails
  BY <1>12 DEF PhaseFails, EndPhase
<1>13. ~(OpenRoot \/ Sweep \/ Compact)
  BY DEF OpenRoot, Sweep, Compact, OpenBucket, CheckFile, UnlinkFile, GitUnavailable, OpenProject,
         OpenRepository, CompactRepository, Removing, Sweeping
<1>. QED
  BY <1>5, <1>7, <1>9, <1>10, <1>11, <1>12, <1>13 DEF CleanupStep, Removal


Removals == {"prune", "orphans"}

(* The phases come in their order.                                          *)
LEMMA PhaseOrder ==
    ASSUME TypeOK, Ended, NEW p \in Removals, p = "orphans" => command.orphans
    PROVE  /\ phase' # phase /\ stack' = <<>>
           /\ phase' \in After(p) => phase = p \/ phase \in After(p)
           /\ phase' = "orphans" => command.orphans
BY DEF Ended, EndPhase, PhaseAfter, After, Removals, TypeOK, Phases

(* A phase that ends has settled what was ahead, or reports that it failed. *)
LEMMA EndSettles ==
    ASSUME CleanupInv, CleanupStep, Ended, Snapshot \in rooted, phase \in Removals,
           NEW n \in Names, stack # <<>> => SoFar(n, phase) \/ Ahead(n)
    PROVE  tree'[Snapshot][n] \in Dirs => <<Snapshot, n>> \in failures' \/ <<phase, NoName>> \in failures'
<1>1. TypeOK /\ PathInv /\ ScopeInv
  BY DEF CleanupInv
<1>2. Root = Snapshot /\ Removing /\ ~Sweeping /\ phase # "gc"
  BY DEF Root, Sweeping, Removing, Removals
<1>3. phase' # phase
  BY <1>1, PhaseOrder DEF Removals
<1>4. failures \subseteq failures' /\ UNCHANGED tree
  BY StepCalls DEF Kept, Ended
<1>5. CASE PhaseFails
  BY <1>5 DEF PhaseFails
<1>6. CASE CloseDirectory
  <2>1. stack # <<>> /\ Top.todo = {} /\ Len(stack) = 1 /\ failures' = failures \cup noted
    BY <1>2, <1>3, <1>6 DEF CloseDirectory, Completes, Depth
  <2>2. ~Ahead(n)
    BY <2>1 DEF Ahead, Top, Last
  <2>. QED
    BY <1>4, <2>1, <2>2 DEF Settled, SoFar
<1>7. ~OpenRoot
  BY <1>2, <1>3 DEF OpenRoot, Sweeping
<1>8. ~Sweep /\ ~Compact
  BY <1>2 DEF Sweep, Compact, OpenBucket, CheckFile, UnlinkFile, GitUnavailable, OpenProject,
              OpenRepository, CompactRepository
<1>9. ~Removal
  BY <1>3 DEF Removal, OpenCandidate, Descend, UnlinkEntry, RemoveDirectory
<1>. QED
  BY <1>5, <1>6, <1>7, <1>8, <1>9 DEF CleanupStep

(* Every step keeps that what a phase has to remove is settled or ahead.    *)
LEMMA RemovedByKept ==
    ASSUME CleanupInv, [Next]_vars, Snapshot \in rooted, NEW p \in Removals,
           NEW names \in SUBSET (Names \ LiveProjects), RemovedBy(p, names),
           p = "prune" => names \subseteq PrunedProjects, p = "orphans" => command.orphans
    PROVE  RemovedBy(p, names)'
<1>0. TypeOK /\ PathInv /\ ScopeInv
  BY DEF CleanupInv
<1>1. \A n \in names : n \in Names /\ n \notin LiveProjects
  OBVIOUS
<1>2. \A n \in names : Settled(n, p) => Settled(n, p)'
  BY <1>1, SettledStays
<1>7. EndPhase \/ \A n \in names : SoFar(n, p) => SoFar(n, p)'
  BY <1>1, SettledStays
<1>3. CASE UNCHANGED <<phase, stack>>
  <2>1. \A n \in names : Ahead(n)' = Ahead(n)
    BY <1>3 DEF Ahead
  <2>2. phase = "over" \/ ~EndPhase
    BY <1>0, <1>3 DEF EndPhase, PhaseAfter, TypeOK, Phases
  <2>3. phase # "over" \/ phase # p
    BY DEF Removals
  <2>. QED
    BY <1>2, <1>3, <1>7, <2>1, <2>2, <2>3 DEF RemovedBy
<1>4. CASE CleanupStep /\ Ended
  <2>1. stack' = <<>> /\ phase' # phase
    BY <1>0, <1>4, PhaseOrder
  <2>2. CASE phase' \in After(p) /\ phase = p
    <3>1. \A n \in names : stack # <<>> => SoFar(n, phase) \/ Ahead(n)
      BY <2>2 DEF RemovedBy
    <3>2. \A n \in names : Settled(n, p)'
      BY <1>1, <1>4, <2>2, <3>1, EndSettles DEF Settled
    <3>. QED
      BY <2>1, <3>2 DEF RemovedBy
  <2>3. CASE phase' \in After(p) /\ phase \in After(p)
    BY <1>2, <2>1, <2>3 DEF RemovedBy
  <2>4. CASE phase' \notin After(p)
    BY <2>1, <2>4 DEF RemovedBy
  <2>. QED
    BY <1>0, <1>4, <2>2, <2>3, <2>4, PhaseOrder
<1>5. CASE CleanupStep /\ Started
  <2>1. phase' = phase /\ UNCHANGED tree
    BY <1>5 DEF Started
  <2>2. CASE phase = p
    <3>1. PICK todo \in SUBSET Names : stack' = <<Frame(Root, NoName, todo)>> /\ StartsWith(todo)
      BY <1>5 DEF Started
    <3>2. stack'[1].todo = todo
      BY <3>1 DEF Frame
    <3>3. Root = Snapshot
      BY <2>2 DEF Root, Sweeping, Removals
    <3>4. \A n \in names : n \in todo \/ tree[Snapshot][n] \notin Dirs
      BY <1>1, <2>2, <3>1, <3>3, ApartDiffer DEF StartsWith, Listing, Removals
    <3>5. phase' \notin After(p)
      BY <2>1, <2>2 DEF After, Removals
    <3>6. \A n \in names : tree[Snapshot][n] \notin Dirs => SoFar(n, p)'
      BY <2>1 DEF Settled, SoFar
    <3>7. \A n \in names : n \in todo => Ahead(n)'
      BY <3>2 DEF Ahead
    <3>. QED
      BY <3>4, <3>5, <3>6, <3>7 DEF RemovedBy
  <2>3. CASE phase # p
    BY <1>2, <2>1, <2>3 DEF RemovedBy
  <2>. QED
    BY <2>2, <2>3
<1>6. CASE CleanupStep /\ (Entered \/ Narrowed)
  <2>1. phase' = phase /\ stack # <<>>
    BY <1>6 DEF Entered, Enters, Narrowed
  <2>2. stack' # <<>>
    <3>1. CASE Entered
      <4>1. PICK n \in Names, dir \in Dirs : stack' = Pushed(n, dir)
        BY <3>1 DEF Entered, Enters
      <4>2. Len(stack') = Len(stack) + 1 /\ Len(stack) \in Nat
        BY <1>0, <2>1, <4>1, PushedEffect, Types
      <4>3. \A k \in Nat : k + 1 # 0
        OBVIOUS
      <4>. QED
        BY <4>2, <4>3
    <3>2. CASE Narrowed
      BY <3>2 DEF Narrowed
    <3>. QED
      BY <1>6, <3>1, <3>2
  <2>3. CASE phase = p
    <3>1. Removing
      BY <2>3 DEF Removing, Removals
    <3>2. \A n \in names : SoFar(n, p) \/ Ahead(n)
      BY <2>1, <2>3 DEF RemovedBy
    <3>3. \A n \in names : Ahead(n) => Ahead(n)' \/ SoFar(n, phase)'
      BY <1>1, <1>6, <2>1, <2>2, <3>1, RemovalSettles
    <3>4. ~EndPhase /\ \A n \in names : SoFar(n, phase)' => SoFar(n, p)'
      BY <2>1, <2>2, <2>3 DEF EndPhase, Settled, SoFar
    <3>5. phase' \notin After(p)
      BY <2>1, <2>3 DEF After, Removals
    <3>. QED
      BY <1>7, <2>1, <2>3, <3>2, <3>3, <3>4, <3>5 DEF RemovedBy
  <2>4. CASE phase # p
    BY <1>2, <2>1, <2>4 DEF RemovedBy
  <2>. QED
    BY <2>3, <2>4
<1>. QED
  BY <1>0, <1>3, <1>4, <1>5, <1>6, StackSteps, OthersStay DEF Next, vars

(* Every step keeps that leftovers are reported.                            *)
LEMMA LeftoversKept ==
    ASSUME CleanupInv, [Next]_vars
    PROVE  LeftoversInv'
<1>0. TypeOK /\ PathInv /\ ScopeInv /\ LeftoversInv
  BY DEF CleanupInv
<1>1. UNCHANGED <<command, rooted>>
  BY StepCalls, OthersStay DEF Kept, Next, vars
<1>. SUFFICES ASSUME Snapshot \in rooted
              PROVE  /\ RemovedBy("prune", PrunedProjects)'
                     /\ command.orphans => RemovedBy("orphans", Forgotten)'
                     /\ phase' = "orphans" => command.orphans
  BY <1>1 DEF LeftoversInv, Forgotten
<1>2. /\ RemovedBy("prune", PrunedProjects)
      /\ command.orphans => RemovedBy("orphans", Forgotten)
      /\ phase = "orphans" => command.orphans
  BY <1>0 DEF LeftoversInv
<1>3. PrunedProjects \subseteq Names \ LiveProjects /\ Forgotten \subseteq Names \ LiveProjects
  BY CleanupAssumption DEF Forgotten
<1>4. RemovedBy("prune", PrunedProjects)'
  BY <1>2, <1>3, RemovedByKept DEF Removals
<1>5. ASSUME command.orphans PROVE RemovedBy("orphans", Forgotten)'
  BY <1>2, <1>3, <1>5, RemovedByKept DEF Removals
<1>6. phase' = "orphans" => command.orphans
  <2>1. CASE CleanupStep
    BY <1>0, <1>2, <2>1, StackSteps, PhaseOrder DEF Started, Entered, Enters, Narrowed, Removals
  <2>2. CASE Disturb \/ UNCHANGED vars
    BY <1>2, <2>2, OthersStay DEF vars
  <2>. QED
    BY <2>1, <2>2 DEF Next
<1>. QED
  BY <1>4, <1>5, <1>6


-----------------------------------------------------------------------------
(* The counts *)

(* What has gone is finite, so it can be counted.                           *)
LEMMA CountedFinite ==
    ASSUME TypeOK
    PROVE  /\ IsFiniteSet(FilesLost) /\ IsFiniteSet(Lost(Snapshot)) /\ IsFiniteSet(Went)
           /\ Went \subseteq Lost(Snapshot)
<1>1. IsFiniteSet(Names)
  BY CleanupAssumption
<1>2. IsFiniteSet(Buckets)
  <2>. DEFINE all == {first[Storage][n] : n \in Names}
              entries == [n \in Names |-> first[Storage][n]]
  <2>1. IsFiniteSet(all)
    <3>1. entries \in Surjection(Names, all)
      BY DEF Surjection
    <3>. HIDE DEF all, entries
    <3>. QED
      BY <1>1, <3>1, FS_Surjection
  <2>. QED
    BY <2>1, FS_Subset DEF Buckets
<1>3. IsFiniteSet(Buckets \X Names)
  BY <1>1, <1>2, FS_Product
<1>4. FilesLost \subseteq Buckets \X Names
  BY DEF FilesLost, Lost
<1>5. IsFiniteSet(FilesLost)
  BY <1>3, <1>4, FS_Subset
<1>6. Went \subseteq Lost(Snapshot)
  BY DEF Went, Lost
<1>. QED
  BY <1>1, <1>5, <1>6, FS_Subset DEF Lost, Went

(* An entry that goes is one lost more, in its directory.                   *)
LEMMA OneLost ==
    ASSUME TypeOK, NEW d \in Dirs, NEW n \in Names, tree' = Unlinked(d, n), first' = first
    PROVE  /\ \A e \in Dirs \ {d} : Lost(e)' = Lost(e)
           /\ first[d][n] # "none" => Lost(d)' = Lost(d) \cup {n}
           /\ first[d][n] = tree[d][n] => n \notin Lost(d)
<1>1. /\ tree' \in [Dirs -> [Names -> Entry]]
      /\ \A e \in Dirs, m \in Names : tree'[e][m] = IF e = d /\ m = n THEN "none" ELSE tree[e][m]
  BY UnlinkedIs
<1>. QED
  BY <1>1 DEF Lost

(* The counts as numbers, before and after a step.                          *)
LEMMA CountTypes ==
    ASSUME TypeOK
    PROVE  /\ \A c \in Counts : report[c] \in Nat /\ counted[c] \in Nat /\ Total(c) \in Nat
           /\ Cardinality(Went) \in Nat /\ Cardinality(FilesLost) \in Nat
           /\ Cardinality(Lost(Snapshot)) \in Nat
<1>1. \A c \in Counts : report[c] \in Nat /\ counted[c] \in Nat
  BY DEF TypeOK
<1>. QED
  BY <1>1, CountedFinite, FS_CardinalityType DEF Total

(* A file that is removed is counted once.                                  *)
LEMMA FileCounts ==
    ASSUME CleanupInv, CleanupStep, FileGoes
    PROVE  CountInv'
<1>0. TypeOK /\ TypeOK' /\ PathInv /\ ScopeInv /\ TreeInv /\ CountInv
  BY TypeKept DEF CleanupInv, Next
<1>1. UNCHANGED <<first, quiet, report, phase>> /\ failures \subseteq failures'
  BY StepCalls DEF Kept, FileGoes
<1>2. PICK d \in Dirs : d = stack[2].dir /\ d \in Buckets /\ d # Snapshot
  <2>1. Len(stack) > 1 /\ Sweeping
    BY DEF FileGoes
  <2>. QED
    BY <1>0, <2>1, SweptIsBucket
<1>3. /\ pending \in Names /\ tree[d][pending] \in {"file", "link"} /\ tree' = Unlinked(d, pending)
      /\ Sweeping /\ Sweeping' /\ Removing' = Removing
      /\ counted'["files"] = counted["files"] + 1 /\ counted'["dirs"] = counted["dirs"]
  BY <1>0, <1>1, <1>2 DEF FileGoes, TypeOK, Counts, Sweeping, Removing
<1>4. Lost(Snapshot)' = Lost(Snapshot) /\ \A e \in Dirs \ {d} : Lost(e)' = Lost(e)
  BY <1>0, <1>1, <1>2, <1>3, OneLost, ApartDiffer
<1>5. Went' = Went
  <2>1. \A n \in Names : tree'[Snapshot][n] = tree[Snapshot][n]
    BY <1>0, <1>2, <1>3, UnlinkedIs, ApartDiffer
  <2>. QED
    BY <1>1, <2>1 DEF Went
<1>6. /\ Total("files")' = Total("files") + 1 /\ Total("dirs")' = Total("dirs")
      /\ Total("files") \in Nat /\ Total("dirs") \in Nat
  BY <1>0, <1>1, <1>3, CountTypes DEF Total, Counts
<1>7. \A phases : Stopped(phases) => Stopped(phases)'
  BY <1>1 DEF Stopped
<1>8. CASE quiet
  <2>1. first[d][pending] = tree[d][pending] /\ first[d][pending] # "none"
    BY <1>0, <1>2, <1>3, <1>8 DEF TreeInv
  <2>2. Lost(d)' = Lost(d) \cup {pending} /\ pending \notin Lost(d)
    BY <1>0, <1>1, <1>2, <1>3, <2>1, OneLost
  <2>3. Buckets' = Buckets /\ Buckets \subseteq Dirs
    BY <1>1 DEF Buckets
  <2>4. FilesLost' = FilesLost \cup {<<d, pending>>}
    BY <1>2, <1>4, <2>2, <2>3 DEF FilesLost
  <2>5. <<d, pending>> \notin FilesLost
    BY <2>2 DEF FilesLost
  <2>6. Cardinality(FilesLost') = Cardinality(FilesLost) + 1 /\ Cardinality(FilesLost) \in Nat
    BY <1>0, <2>4, <2>5, CountedFinite, CountTypes, FS_AddElement
  <2>7. /\ Total("files")' <= Cardinality(FilesLost')
        /\ Stopped({"sweep", "sweep_all"}) \/ Total("files")' = Cardinality(FilesLost')
    BY <1>0, <1>6, <1>8, <2>6 DEF CountInv
  <2>8. /\ Stopped({"prune", "orphans"}) \/ Total("dirs")' = Cardinality(Lost(Snapshot)')
        /\ Total("dirs")' <= Cardinality(Went') /\ (~Removing' => counted'["dirs"] = 0)
    BY <1>0, <1>3, <1>4, <1>5, <1>6, <1>8 DEF CountInv
  <2>. QED
    BY <1>3, <1>7, <2>7, <2>8 DEF CountInv
<1>9. CASE ~quiet
  BY <1>0, <1>1, <1>3, <1>5, <1>6, <1>9 DEF CountInv
<1>. QED
  BY <1>8, <1>9

(* So is a snapshot directory.                                              *)
LEMMA DirectoryCounts ==
    ASSUME CleanupInv, CleanupStep, DirectoryGoes, Len(stack) = 2
    PROVE  CountInv'
<1>0. TypeOK /\ TypeOK' /\ PathInv /\ ScopeInv /\ TreeInv /\ CountInv
  BY TypeKept DEF CleanupInv, Next
<1>1. UNCHANGED <<first, quiet, report, phase>> /\ failures \subseteq failures'
  BY StepCalls DEF Kept, DirectoryGoes
<1>. DEFINE n == stack[2].name
<1>2. n \in Names /\ stack[1].dir = Snapshot /\ Snapshot \in Dirs /\ Snapshot \notin Buckets
  BY <1>0, SecondOpen, SnapshotUnprotected DEF DirectoryGoes, Root, Removing, Sweeping
<1>3. /\ tree[Snapshot][n] \in Dirs /\ tree' = Unlinked(Snapshot, n)
      /\ Removing /\ Removing' /\ Sweeping' = Sweeping
      /\ counted'["files"] = counted["files"] /\ counted'["dirs"] = counted["dirs"] + 1
  BY <1>0, <1>1, <1>2 DEF DirectoryGoes, TypeOK, Counts, Removing, Sweeping
<1>. HIDE DEF n
<1>4. first[Snapshot][n] = tree[Snapshot][n] /\ first[Snapshot][n] # "none"
  BY <1>0, <1>2, <1>3, ApartDiffer DEF TreeInv
<1>5. /\ Lost(Snapshot)' = Lost(Snapshot) \cup {n} /\ n \notin Lost(Snapshot)
      /\ \A e \in Dirs \ {Snapshot} : Lost(e)' = Lost(e)
  BY <1>0, <1>1, <1>2, <1>3, <1>4, OneLost
<1>6. Buckets' = Buckets /\ FilesLost' = FilesLost
  <2>1. Buckets' = Buckets /\ Buckets \subseteq Dirs \ {Snapshot}
    BY <1>1, <1>2 DEF Buckets
  <2>2. \A e \in Buckets : Lost(e)' = Lost(e)
    BY <1>5, <2>1
  <2>. QED
    BY <2>1, <2>2 DEF FilesLost
<1>7. Went' = Went \cup {n} /\ n \notin Went
  <2>1. \A m \in Names : tree'[Snapshot][m] = IF m = n THEN "none" ELSE tree[Snapshot][m]
    BY <1>0, <1>2, <1>3, UnlinkedIs
  <2>. QED
    BY <1>1, <1>2, <1>3, <1>4, <2>1, ApartDiffer DEF Went
<1>8. /\ Cardinality(Went') = Cardinality(Went) + 1
      /\ Cardinality(Lost(Snapshot)') = Cardinality(Lost(Snapshot)) + 1
  BY <1>0, <1>5, <1>7, CountedFinite, FS_AddElement
<1>9. /\ Total("files")' = Total("files") /\ Total("dirs")' = Total("dirs") + 1
      /\ Total("files") \in Nat /\ Total("dirs") \in Nat
      /\ Cardinality(Went) \in Nat /\ Cardinality(Lost(Snapshot)) \in Nat
  BY <1>0, <1>1, <1>3, CountTypes DEF Total, Counts
<1>10. \A phases : Stopped(phases) => Stopped(phases)'
  BY <1>1 DEF Stopped
<1>11. Total("dirs")' <= Cardinality(Went') /\ (~Sweeping' => counted'["files"] = 0)
  BY <1>0, <1>3, <1>8, <1>9 DEF CountInv
<1>12. quiet => /\ Total("files")' <= Cardinality(FilesLost')
                /\ Stopped({"sweep", "sweep_all"}) \/ Total("files")' = Cardinality(FilesLost')
                /\ Stopped({"prune", "orphans"}) \/ Total("dirs")' = Cardinality(Lost(Snapshot)')
  BY <1>0, <1>6, <1>8, <1>9 DEF CountInv
<1>. QED
  BY <1>1, <1>3, <1>10, <1>11, <1>12 DEF CountInv

(* When nothing that is counted goes, the counts stay right while a phase   *)
(* goes on, when it ends, and when it stops and its counts are lost.        *)
LEMMA NothingCounts ==
    ASSUME CleanupInv, CleanupStep, FilesLost' = FilesLost, Went' = Went,
           Lost(Snapshot)' = Lost(Snapshot),
           UNCHANGED <<report, counted, phase>> \/ Completes \/ Stops
    PROVE  CountInv'
<1>0. TypeOK /\ CountInv
  BY DEF CleanupInv
<1>1. UNCHANGED quiet /\ failures \subseteq failures'
  BY StepCalls DEF Kept
<1>2. \A phases : Stopped(phases) => Stopped(phases)'
  BY <1>1 DEF Stopped
<1>3. /\ \A c \in Counts : report[c] \in Nat /\ counted[c] \in Nat /\ Total(c) = report[c] + counted[c]
      /\ Cardinality(Went) \in Nat /\ Cardinality(FilesLost) \in Nat
      /\ "files" \in Counts /\ "dirs" \in Counts
  BY <1>0, CountTypes DEF Total, Counts
<1>4. CASE UNCHANGED <<report, counted, phase>>
  <2>1. /\ Total("files")' = Total("files") /\ Total("dirs")' = Total("dirs")
        /\ Sweeping' = Sweeping /\ Removing' = Removing
    BY <1>4 DEF Total, Sweeping, Removing
  <2>. QED
    BY <1>0, <1>1, <1>2, <1>4, <2>1 DEF CountInv
<1>5. CASE Completes
  <2>1. /\ counted'["files"] = 0 /\ counted'["dirs"] = 0
        /\ report'["files"] = report["files"] + counted["files"]
        /\ report'["dirs"] = report["dirs"] + counted["dirs"]
    BY <1>3, <1>5 DEF Completes, EndPhase, Nothing, Counts
  <2>2. Total("files")' = Total("files") /\ Total("dirs")' = Total("dirs")
    BY <1>3, <2>1 DEF Total
  <2>. QED
    BY <1>0, <1>1, <1>2, <2>1, <2>2 DEF CountInv
<1>6. CASE Stops
  <2>1. /\ counted'["files"] = 0 /\ counted'["dirs"] = 0 /\ report' = report
        /\ <<phase, NoName>> \in failures'
    BY <1>6 DEF Stops, EndPhase, Nothing, Counts
  <2>2. Total("files")' <= Total("files") /\ Total("dirs")' <= Total("dirs")
    BY <1>3, <2>1 DEF Total
  <2>3. Total("files")' \in Nat /\ Total("dirs")' \in Nat /\ Total("files") \in Nat /\ Total("dirs") \in Nat
    BY <1>3, <2>1 DEF Total
  <2>4. Sweeping => Stopped({"sweep", "sweep_all"})'
    BY <2>1 DEF Stopped, Sweeping
  <2>5. Removing => Stopped({"prune", "orphans"})'
    BY <2>1 DEF Stopped, Removing
  <2>6. ~Sweeping => Total("files")' = Total("files")
    BY <1>0, <1>3, <2>1 DEF Total, CountInv
  <2>7. ~Removing => Total("dirs")' = Total("dirs")
    BY <1>0, <1>3, <2>1 DEF Total, CountInv
  <2>8. Total("dirs")' <= Cardinality(Went')
    BY <1>0, <1>3, <2>2, <2>3 DEF CountInv
  <2>9. quiet => /\ Total("files")' <= Cardinality(FilesLost')
                 /\ Stopped({"sweep", "sweep_all"})' \/ Total("files")' = Cardinality(FilesLost')
                 /\ Stopped({"prune", "orphans"})' \/ Total("dirs")' = Cardinality(Lost(Snapshot)')
    <3>1. quiet => Total("files")' <= Cardinality(FilesLost')
      BY <1>0, <1>3, <2>2, <2>3 DEF CountInv
    <3>. QED
      BY <1>0, <1>2, <2>4, <2>5, <2>6, <2>7, <3>1 DEF CountInv
  <2>. QED
    BY <1>1, <2>1, <2>8, <2>9 DEF CountInv
<1>. QED
  BY <1>4, <1>5, <1>6

(* What goes below the snapshot directories is not counted.                 *)
LEMMA BelowCounts ==
    ASSUME CleanupInv, CleanupStep, UNCHANGED <<report, counted, phase>>,
           NEW d \in Dirs \ (Buckets \cup {Snapshot}), NEW n \in Names, tree' = Unlinked(d, n)
    PROVE  CountInv'
<1>0. TypeOK /\ CountInv
  BY DEF CleanupInv
<1>1. UNCHANGED <<first, quiet>>
  BY StepCalls DEF Kept
<1>2. \A e \in Dirs \ {d} : Lost(e)' = Lost(e)
  BY <1>0, <1>1, OneLost
<1>3. Buckets' = Buckets /\ FilesLost' = FilesLost
  <2>1. Buckets' = Buckets /\ Buckets \subseteq Dirs \ {d}
    BY <1>1 DEF Buckets
  <2>2. \A e \in Buckets : Lost(e)' = Lost(e)
    BY <1>2, <2>1
  <2>. QED
    BY <2>1, <2>2 DEF FilesLost
<1>4. Lost(Snapshot)' = Lost(Snapshot)
  BY <1>2, ApartDiffer
<1>5. Went' = Went
  <2>1. \A m \in Names : tree'[Snapshot][m] = tree[Snapshot][m]
    BY <1>0, UnlinkedIs, ApartDiffer
  <2>. QED
    BY <1>1, <2>1 DEF Went
<1>. QED
  BY <1>3, <1>4, <1>5, NothingCounts

(* Every step keeps the counts right.                                       *)
LEMMA CountKept ==
    ASSUME CleanupInv, [Next]_vars
    PROVE  CountInv'
<1>0. TypeOK /\ TypeOK' /\ PathInv /\ ScopeInv /\ TreeInv /\ CountInv
  BY TypeKept DEF CleanupInv
<1>1. CASE CleanupStep
  <2>0. UNCHANGED <<first, quiet>>
    BY <1>1, StepCalls DEF Kept
  <2>1. CASE UNCHANGED tree /\ ~FileGoes /\ ~EntryGoes /\ ~DirectoryGoes
    <3>1. FilesLost' = FilesLost /\ Went' = Went /\ Lost(Snapshot)' = Lost(Snapshot)
      BY <2>0, <2>1 DEF Went, Lost, FilesLost, Buckets
    <3>. QED
      BY <1>0, <1>1, <2>1, <3>1, TreeSteps, NothingCounts
  <2>2. CASE FileGoes
    BY <1>1, <2>2, FileCounts
  <2>3. CASE DirectoryGoes /\ Len(stack) = 2
    BY <1>1, <2>3, DirectoryCounts
  <2>4. CASE (EntryGoes \/ (DirectoryGoes /\ Len(stack) # 2)) /\ ~FileGoes
    <3>1. UNCHANGED <<report, counted, phase>>
      BY <2>4 DEF EntryGoes, DirectoryGoes
    <3>2. CASE UNCHANGED tree
      <4>1. FilesLost' = FilesLost /\ Went' = Went /\ Lost(Snapshot)' = Lost(Snapshot)
        BY <2>0, <3>2 DEF Went, Lost, FilesLost, Buckets
      <4>. QED
        BY <1>1, <3>1, <4>1, NothingCounts
    <3>3. CASE ~UNCHANGED tree
      <4>1. PICK d \in Dirs, n \in Names :
                /\ tree' = Unlinked(d, n)
                /\ d \in Buckets => FileGoes
                /\ d = Snapshot => DirectoryGoes /\ Len(stack) = 2
        BY <1>0, <1>1, <3>3, WhatGoes
      <4>2. CASE d = Snapshot
        BY <1>1, <4>1, <4>2, DirectoryCounts
      <4>3. CASE d # Snapshot
        BY <1>1, <2>4, <3>1, <4>1, <4>3, BelowCounts
      <4>. QED
        BY <4>2, <4>3
    <3>. QED
      BY <3>2, <3>3
  <2>. QED
    BY <1>0, <1>1, <2>1, <2>2, <2>3, <2>4, TreeSteps
<1>2. CASE Disturb
  <2>1. UNCHANGED <<report, counted, phase, first>> /\ quiet' = FALSE
    BY <1>2, OthersStay
  <2>2. Went \subseteq Went'
    BY <1>0, <1>2, <2>1, DisturbedTree, ApartDiffer DEF Went
  <2>3. IsFiniteSet(Went')
    <3>1. Went' \subseteq Names
      BY DEF Went
    <3>. QED
      BY <3>1, CleanupAssumption, FS_Subset
  <2>4. Cardinality(Went) <= Cardinality(Went') /\ Cardinality(Went) \in Nat /\ Cardinality(Went') \in Nat
    BY <1>0, <2>2, <2>3, FS_Subset, FS_CardinalityType, CountedFinite
  <2>5. /\ Total("dirs") \in Nat /\ Total("dirs") <= Cardinality(Went) /\ Total("dirs")' = Total("dirs")
        /\ Sweeping' = Sweeping /\ Removing' = Removing
    BY <1>0, <2>1, CountTypes DEF CountInv, Counts, Total, Sweeping, Removing
  <2>. QED
    BY <1>0, <2>1, <2>4, <2>5 DEF CountInv
<1>3. CASE UNCHANGED vars
  BY <1>0, <1>3 DEF vars, CountInv, Went, Lost, FilesLost, Buckets, Total, Stopped, Sweeping, Removing
<1>. QED
  BY <1>1, <1>2, <1>3 DEF Next


-----------------------------------------------------------------------------
(* The theorems *)

(* The invariant holds when the cleanup begins.                             *)
LEMMA CleanupInit == Init => CleanupInv
<1>. SUFFICES ASSUME Init PROVE CleanupInv
  OBVIOUS
<1>1. /\ stack = <<>> /\ phase = "sweep" /\ pending = NoName /\ failures = {} /\ compacted = {}
      /\ report = Nothing /\ counted = Nothing /\ noted = {} /\ first = tree /\ tree \in Trees
      /\ quiet = TRUE /\ faults = 0
  BY DEF Init
<1>2. TypeOK
  <2>1. Len(stack) = 0 /\ stack \in Seq([dir : Dirs, name : Names \cup {NoName}, todo : SUBSET Names])
    BY <1>1
  <2>2. tree \in [Dirs -> [Names -> Entry]] /\ MaxFaults \in Nat
    BY <1>1, CleanupAssumption
  <2>. QED
    BY <1>1, <2>1, <2>2 DEF Init, TypeOK, Phases, Nothing
<1>3. TreeInv
  BY <1>1 DEF TreeInv
<1>4. PathInv /\ ScopeInv
  <2>1. Len(stack) = 0
    BY <1>1
  <2>2. /\ \A i \in 2 .. 0 : FALSE
        /\ 0 <= 2 /\ 0 <= 3 /\ ~(0 > 1)
    OBVIOUS
  <2>. QED
    BY <1>1, <2>1, <2>2 DEF PathInv, ScopeInv
<1>5. CompactedInv /\ LeftoversInv
  BY <1>1 DEF CompactedInv, LeftoversInv, RemovedBy, After
<1>6. CountInv
  <2>1. FilesLost = {} /\ Lost(Snapshot) = {} /\ Cardinality({}) = 0
    BY <1>1, FS_EmptySet DEF FilesLost, Lost
  <2>2. counted["files"] = 0 /\ counted["dirs"] = 0 /\ Total("files") = 0 /\ Total("dirs") = 0
    BY <1>1 DEF Counts, Nothing, Total
  <2>3. IsFiniteSet(Went) /\ Cardinality(Went) \in Nat
    BY <1>2, CountedFinite, FS_CardinalityType
  <2>. QED
    BY <2>1, <2>2, <2>3 DEF CountInv
<1>. QED
  BY <1>2, <1>3, <1>4, <1>5, <1>6 DEF CleanupInv

(* Every step keeps it.                                                     *)
LEMMA CleanupKept == CleanupInv /\ [Next]_vars => CleanupInv'
BY TypeKept, TreeKept, StackKept, CompactedKept, LeftoversKept, CountKept DEF CleanupInv, StackInv

(* The invariant of the cleanup, for every forest of directories.           *)
THEOREM CleanupAlways == Spec => []CleanupInv
<1>1. Init => CleanupInv
  BY CleanupInit
<1>2. CleanupInv /\ [Next]_vars => CleanupInv'
  BY CleanupKept
<1>. QED
  BY <1>1, <1>2, PTL DEF Spec

(* Types, and no directory is ever open twice: a traversal by descriptor    *)
(* that follows no link goes round in no circle, whatever is moved or       *)
(* linked meanwhile (assets/traversal.rs).                                  *)
THEOREM CleanupTypes == Spec => []TypeOK
<1>1. CleanupInv => TypeOK
  BY DEF CleanupInv
<1>. QED
  BY <1>1, CleanupAlways, PTL

(* The directories of deleted and forgotten projects are gone from their    *)
(* place at the end or in the report (cleanup.rs record_removal).           *)
THEOREM LeftoversAreReported == Spec => []LeftoversReported
<1>1. ASSUME CleanupInv PROVE LeftoversReported
  <2>. SUFFICES ASSUME phase = "over", Snapshot \in rooted, NEW n \in Doomed, tree[Snapshot][n] \in Dirs
                PROVE  \/ <<Snapshot, n>> \in failures
                       \/ <<IF n \in PrunedProjects THEN "prune" ELSE "orphans", NoName>> \in failures
    BY DEF LeftoversReported
  <2>1. /\ RemovedBy("prune", PrunedProjects)
        /\ command.orphans => RemovedBy("orphans", Forgotten)
    BY <1>1 DEF CleanupInv, LeftoversInv
  <2>2. CASE n \in PrunedProjects
    BY <2>1, <2>2 DEF RemovedBy, After, Settled
  <2>3. CASE n \notin PrunedProjects
    <3>1. command.orphans /\ n \in Forgotten
      BY <2>3 DEF Doomed, Forgotten
    <3>. QED
      BY <2>1, <2>3, <3>1 DEF RemovedBy, After, Settled
  <2>. QED
    BY <2>2, <2>3
<1>. QED
  BY <1>1, CleanupAlways, PTL

(* No directory is counted that has not gone.  Without interference no      *)
(* count is too high, and one is too low only when a phase has stopped,     *)
(* whose report is lost: the outcome names it (cleanup.rs CleanupOutcome).  *)
THEOREM CleanupCountsExactly == Spec => []CountsExact
<1>1. ASSUME CleanupInv PROVE CountsExact
  <2>1. TypeOK /\ CountInv
    BY <1>1 DEF CleanupInv
  <2>2. Cardinality(Went) <= Cardinality(Lost(Snapshot))
    BY <2>1, CountedFinite, FS_Subset
  <2>3. /\ Total("dirs") \in Nat /\ Cardinality(Went) \in Nat
        /\ Cardinality(Lost(Snapshot)) \in Nat
    BY <2>1, CountTypes DEF Counts
  <2>4. Total("dirs") <= Cardinality(Lost(Snapshot))
    BY <2>1, <2>2, <2>3 DEF CountInv
  <2>. QED
    BY <2>1, <2>4 DEF CountInv, CountsExact
<1>. QED
  BY <1>1, CleanupAlways, PTL

(* What one step of the cleanup leaves alone.                               *)
LEMMA StepSparesTheLiving ==
    ASSUME CleanupInv, CleanupStep
    PROVE  /\ \A d \in Protected : tree'[d] = tree[d]
           /\ \A d \in Buckets, n \in LiveSessions : tree'[d][n] = tree[d][n]
<1>1. TypeOK /\ PathInv /\ ScopeInv
  BY DEF CleanupInv
<1>2. CASE UNCHANGED tree
  BY <1>2
<1>3. CASE ~UNCHANGED tree
  <2>1. PICK d \in Dirs, n \in Names :
            /\ tree' = Unlinked(d, n)
            /\ d \notin Protected
            /\ d \in Buckets => FileGoes /\ n = pending
    BY <1>1, <1>3, WhatGoes
  <2>2. /\ \A e \in Dirs, m \in Names : tree'[e][m] = IF e = d /\ m = n THEN "none" ELSE tree[e][m]
        /\ \A e \in Dirs \ {d} : tree'[e] = tree[e]
    BY <1>1, <2>1, UnlinkedIs
  <2>3. Protected \subseteq Dirs /\ Buckets \subseteq Dirs /\ LiveSessions \subseteq Names
    BY ApartDiffer, CleanupAssumption DEF Protected, Below, Buckets
  <2>4. d \in Buckets => n \notin LiveSessions
    <3>1. FileGoes => pending # NoName /\ Sweeping
      BY CleanupAssumption DEF FileGoes
    <3>. QED
      BY <1>1, <2>1, <3>1 DEF ScopeInv
  <2>. QED
    BY <2>1, <2>2, <2>3, <2>4
<1>. QED
  BY <1>2, <1>3

(* A step of the cleanup takes nothing from what links lead to, from the    *)
(* snapshots of a project that stays nor a file of a session in the         *)
(* database, and git gc runs nowhere else than in repositories of such      *)
(* projects (assets/storage.rs, assets/snapshot.rs, assets/traversal.rs).   *)
THEOREM OnlyTheDeadGo == Spec => OnlyDeadRemoved
<1>1. CleanupInv /\ CleanupInv' /\ [Next]_vars =>
          [<<phase, stack, pending>>' # <<phase, stack, pending>> =>
              /\ \A d \in Protected : tree'[d] = tree[d]
              /\ \A d \in Buckets, n \in LiveSessions : tree'[d][n] = tree[d][n]
              /\ compacted' \subseteq UNION {Below(n) : n \in LiveProjects}]_vars
  <2>. SUFFICES ASSUME CleanupInv, CleanupInv', [Next]_vars,
                       <<phase, stack, pending>>' # <<phase, stack, pending>>
                PROVE  /\ \A d \in Protected : tree'[d] = tree[d]
                       /\ \A d \in Buckets, n \in LiveSessions : tree'[d][n] = tree[d][n]
                       /\ compacted' \subseteq UNION {Below(n) : n \in LiveProjects}
    OBVIOUS
  <2>1. CleanupStep
    BY OthersStay DEF Next, vars
  <2>2. \A n : Below(n)' = Below(n)
    BY <2>1, StepCalls DEF Kept, Below
  <2>3. compacted' \subseteq UNION {Below(n) : n \in LiveProjects}
    BY <2>2 DEF CleanupInv, CompactedInv
  <2>. QED
    BY <2>1, <2>3, StepSparesTheLiving
<1>. QED
  BY <1>1, CleanupAlways, PTL DEF Spec, OnlyDeadRemoved

-----------------------------------------------------------------------------
(* The work runs out *)

(* Whatever is below a directory of the first tree, and the directory.      *)
Closed(dirs) == \A d \in dirs, n \in Names : first[d][n] \in Dirs => first[d][n] \in dirs
Under(d) == {e \in Dirs : \A dirs \in SUBSET Dirs : d \in dirs /\ Closed(dirs) => e \in dirs}

(* The entries that the open directories have to do still, and those below  *)
(* them in the first tree.                                                  *)
InHand(s) ==
    {e \in Dirs \X Names : \E i \in 1 .. Len(s) : s[i].dir = e[1] /\ e[2] \in s[i].todo}
Within(s) ==
    {e \in Dirs \X Names :
        \E i \in 1 .. Len(s) : \E n \in s[i].todo :
            first[s[i].dir][n] \in Dirs /\ e[1] \in Under(first[s[i].dir][n])}
EntriesLeft(s) == InHand(s) \cup Within(s)

(* What is left of the cleanup: phases to come and to open, entries, and    *)
(* directories to close.  Others have no part in it.                        *)
PhasesLeft ==
    CASE phase = "sweep"     -> 5
      [] phase = "prune"     -> 4
      [] phase = "orphans"   -> 3
      [] phase = "sweep_all" -> 2
      [] phase = "gc"        -> 1
      [] OTHER               -> 0
WorkLeft == <<2 * PhasesLeft + (IF stack = <<>> THEN 1 ELSE 0),
              Cardinality(EntriesLeft(stack)),
              2 * Len(stack) + (IF pending = NoName THEN 1 ELSE 0)>>
Less(a, b) ==
    \/ a[1] < b[1]
    \/ a[1] = b[1] /\ a[2] < b[2]
    \/ a[1] = b[1] /\ a[2] = b[2] /\ a[3] < b[3]

(* An open directory is not to be opened again, and an entry that was       *)
(* checked is still to be done.                                             *)
WorkInv ==
    /\ \A i \in 2 .. Len(stack) : stack[i].name \notin stack[i - 1].todo
    /\ pending # NoName => pending \in stack[Len(stack)].todo

(* What is under a directory is closed, and in whatever is closed.          *)
LEMMA UnderIs ==
    ASSUME NEW d \in Dirs
    PROVE  /\ d \in Under(d) /\ Under(d) \subseteq Dirs /\ Closed(Under(d))
           /\ \A dirs \in SUBSET Dirs : d \in dirs /\ Closed(dirs) => Under(d) \subseteq dirs
<1>1. d \in Under(d) /\ Under(d) \subseteq Dirs
  BY DEF Under
<1>2. \A dirs \in SUBSET Dirs : d \in dirs /\ Closed(dirs) => Under(d) \subseteq dirs
  BY DEF Under
<1>3. Closed(Under(d))
  <2>. SUFFICES ASSUME NEW e \in Under(d), NEW n \in Names, first[e][n] \in Dirs
                PROVE  first[e][n] \in Under(d)
    BY DEF Closed
  <2>1. \A dirs \in SUBSET Dirs : d \in dirs /\ Closed(dirs) => first[e][n] \in dirs
    <3>. TAKE dirs \in SUBSET Dirs
    <3>. HAVE d \in dirs /\ Closed(dirs)
    <3>1. e \in dirs
      BY DEF Under
    <3>. QED
      BY <3>1 DEF Closed
  <2>. QED
    BY <2>1 DEF Under
<1>. QED
  BY <1>1, <1>2, <1>3

OpenDirs == {stack[i].dir : i \in 1 .. Len(stack)}
Unopened == Dirs \ OpenDirs

(* No open directory is below one that is not open.                         *)
LEMMA UnopenedIsClosed ==
    ASSUME TypeOK, PathInv
    PROVE  Closed(Unopened)
<1>. SUFFICES ASSUME NEW d \in Unopened, NEW n \in Names, first[d][n] \in Dirs,
                     NEW i \in 1 .. Len(stack), first[d][n] = stack[i].dir
              PROVE  FALSE
  BY DEF Closed, Unopened, OpenDirs
<1>1. d \in Dirs
  BY DEF Unopened
<1>2. CASE i = 1
  <2>1. stack # <<>>
    BY Types
  <2>2. stack[1].dir \in Apart
    BY <2>1, RootOpen DEF Apart
  <2>3. first[d][n] \notin Apart
    BY <1>1, Types DEF Forest
  <2>. QED
    BY <1>2, <2>2, <2>3
<1>3. CASE i # 1
  <2>1. i \in 2 .. Len(stack)
    BY <1>3, Types
  <2>2. d = stack[i - 1].dir /\ i - 1 \in 1 .. Len(stack)
    BY <1>1, <2>1, OpenedIn
  <2>. QED
    BY <2>2 DEF Unopened, OpenDirs
<1>. QED
  BY <1>2, <1>3

(* What is left to open is not open, nor is anything below it.              *)
LEMMA TodoIsUnopened ==
    ASSUME TypeOK, PathInv, WorkInv, NEW i \in 1 .. Len(stack), NEW n \in stack[i].todo,
           first[stack[i].dir][n] \in Dirs
    PROVE  first[stack[i].dir][n] \in Unopened /\ Under(first[stack[i].dir][n]) \subseteq Unopened
<1>. DEFINE child == first[stack[i].dir][n]
<1>1. stack[i].dir \in Dirs /\ n \in Names
  BY Types
<1>2. child \in Unopened
  <2>. SUFFICES ASSUME NEW j \in 1 .. Len(stack), child = stack[j].dir
                PROVE  FALSE
    BY DEF Unopened, OpenDirs
  <2>1. CASE j = 1
    <3>1. stack # <<>>
      BY Types
    <3>2. stack[1].dir \in Apart
      BY <3>1, RootOpen DEF Apart
    <3>3. child \notin Apart
      BY <1>1, Types DEF Forest
    <3>. QED
      BY <2>1, <3>2, <3>3
  <2>2. CASE j # 1
    <3>1. j \in 2 .. Len(stack)
      BY <2>2, Types
    <3>2. stack[i].dir = stack[j - 1].dir /\ n = stack[j].name /\ j - 1 \in 1 .. Len(stack)
      BY <1>1, <3>1, OpenedIn
    <3>3. i = j - 1
      BY <3>2 DEF TypeOK
    <3>. QED
      BY <3>1, <3>2, <3>3 DEF WorkInv
  <2>. QED
    BY <2>1, <2>2
<1>3. Under(child) \subseteq Unopened
  <2>1. child \in Dirs /\ Unopened \in SUBSET Dirs
    BY DEF Unopened
  <2>. HIDE DEF child
  <2>. QED
    BY <1>2, <2>1, UnderIs, UnopenedIsClosed
<1>. QED
  BY <1>2, <1>3

(* So nothing below what is left to open is an entry of an open directory.  *)
LEMMA WithinIsUnopened ==
    ASSUME TypeOK, PathInv, WorkInv
    PROVE  \A e \in Within(stack) : e[1] \in Unopened
BY TodoIsUnopened DEF Within

(* With less to do in the same directories, fewer entries are left.         *)
LEMMA ShrunkLeavesLess ==
    ASSUME TypeOK, NEW s, Shrunk(s)
    PROVE  InHand(s) \subseteq InHand(stack) /\ Within(s) \subseteq Within(stack)
<1>1. Len(s) \in Nat /\ Len(stack) \in Nat /\ Len(s) <= Len(stack)
  BY Types DEF Shrunk
<1>2. \A i \in 1 .. Len(s) : i \in 1 .. Len(stack)
  BY <1>1
<1>3. \A i \in 1 .. Len(s) : s[i].dir = stack[i].dir /\ s[i].todo \subseteq stack[i].todo
  BY DEF Shrunk
<1>4. InHand(s) \subseteq InHand(stack)
  BY <1>2, <1>3 DEF InHand
<1>5. Within(s) \subseteq Within(stack)
  BY <1>2, <1>3 DEF Within
<1>. QED
  BY <1>4, <1>5

(* An entry of an open directory is left only while that has it to do.      *)
LEMMA DoneInHand ==
    ASSUME TypeOK, NEW s, Shrunk(s), NEW k \in 1 .. Len(stack), NEW n,
           k \in 1 .. Len(s) => n \notin s[k].todo
    PROVE  <<stack[k].dir, n>> \notin InHand(s)
<1>. SUFFICES ASSUME NEW i \in 1 .. Len(s), s[i].dir = stack[k].dir, n \in s[i].todo
              PROVE  FALSE
  BY DEF InHand
<1>1. Len(s) \in Nat /\ Len(stack) \in Nat /\ Len(s) <= Len(stack)
  BY Types DEF Shrunk
<1>2. i \in 1 .. Len(stack)
  BY <1>1
<1>3. stack[i].dir = stack[k].dir
  BY DEF Shrunk
<1>4. i = k
  BY <1>2, <1>3 DEF TypeOK
<1>. QED
  BY <1>4

(* With an entry less to do in the last directory, an entry less is left.   *)
LEMMA OneLessLeft ==
    ASSUME TypeOK, PathInv, WorkInv, NEW s, Shrunk(s), stack # <<>>,
           NEW n \in stack[Len(stack)].todo,
           Len(stack) \in 1 .. Len(s) => n \notin s[Len(stack)].todo
    PROVE  /\ EntriesLeft(s) \subseteq EntriesLeft(stack)
           /\ <<stack[Len(stack)].dir, n>> \in EntriesLeft(stack) \ EntriesLeft(s)
<1>. DEFINE k == Len(stack)
            entry == <<stack[k].dir, n>>
<1>1. k \in 1 .. k /\ stack[k].dir \in Dirs /\ n \in Names
  BY Types
<1>2. EntriesLeft(s) \subseteq EntriesLeft(stack) /\ Within(s) \subseteq Within(stack)
  BY ShrunkLeavesLess DEF EntriesLeft
<1>3. entry \in InHand(stack)
  <2>1. entry \in Dirs \X Names /\ entry[1] = stack[k].dir /\ entry[2] = n
    BY <1>1
  <2>. HIDE DEF entry
  <2>. QED
    BY <1>1, <2>1 DEF InHand
<1>4. entry \notin InHand(s)
  BY <1>1, DoneInHand
<1>5. entry \notin Within(s)
  <2>1. entry[1] \notin Unopened
    BY <1>1 DEF Unopened, OpenDirs
  <2>. HIDE DEF entry
  <2>. QED
    BY <1>2, <2>1, WithinIsUnopened
<1>. QED
  BY <1>2, <1>3, <1>4, <1>5 DEF EntriesLeft

(* A directory that is opened has its entries among what was left before.   *)
LEMMA PushedLeavesLess ==
    ASSUME TypeOK, PathInv, WorkInv, stack # <<>>, NEW n \in Names, n \in stack[Len(stack)].todo,
           NEW dir \in Dirs, dir = first[stack[Len(stack)].dir][n]
    PROVE  /\ EntriesLeft(Pushed(n, dir)) \subseteq EntriesLeft(stack)
           /\ <<stack[Len(stack)].dir, n>> \in EntriesLeft(stack) \ EntriesLeft(Pushed(n, dir))
<1>. DEFINE k == Len(stack)
            entry == <<stack[k].dir, n>>
            new == Pushed(n, dir)
            opened == Under(dir) \X Names
<1>1. k \in 1 .. k /\ k \in Nat /\ stack[k].dir \in Dirs
  BY Types
<1>2. /\ Shrunk(Without(n)) /\ Len(Without(n)) = k /\ n \notin Without(n)[k].todo
  BY WithoutEffect
<1>3. /\ Len(new) = k + 1
      /\ \A i \in 1 .. k : new[i] = Without(n)[i]
      /\ new[k + 1].dir = dir /\ new[k + 1].todo \subseteq Names
  <2>1. new[k + 1] = Frame(dir, n, Listing(dir))
    BY PushedEffect
  <2>2. new[k + 1].dir = dir /\ new[k + 1].todo \subseteq Names
    <3>. HIDE DEF new
    <3>. QED
      BY <2>1 DEF Frame, Listing
  <2>. QED
    BY <2>2, PushedEffect
<1>4. /\ EntriesLeft(Without(n)) \subseteq EntriesLeft(stack)
      /\ entry \in EntriesLeft(stack) \ EntriesLeft(Without(n))
  BY <1>2, OneLessLeft
<1>5. /\ dir \in Under(dir) /\ Closed(Under(dir)) /\ Under(dir) \subseteq Dirs
      /\ Under(dir) \subseteq Unopened
  BY <1>1, UnderIs, TodoIsUnopened
<1>6. \A i \in 1 .. k + 1 : i = k + 1 \/ i \in 1 .. k
  BY <1>1
<1>7. InHand(new) \subseteq InHand(Without(n)) \cup opened
  <2>. SUFFICES ASSUME NEW e \in Dirs \X Names, NEW i \in 1 .. k + 1,
                       new[i].dir = e[1], e[2] \in new[i].todo
                PROVE  e \in InHand(Without(n)) \cup opened
    BY <1>3 DEF InHand
  <2>1. CASE i = k + 1
    <3>1. e[1] \in Under(dir) /\ e[2] \in Names
      BY <1>3, <1>5, <2>1
    <3>. QED
      BY <3>1
  <2>2. CASE i \in 1 .. k
    BY <1>2, <1>3, <2>2 DEF InHand
  <2>. QED
    BY <1>6, <2>1, <2>2
<1>8. Within(new) \subseteq Within(Without(n)) \cup opened
  <2>. SUFFICES ASSUME NEW e \in Within(new) PROVE e \in Within(Without(n)) \cup opened
    OBVIOUS
  <2>. HIDE DEF new, opened, k
  <2>0. e \in Dirs \X Names
    BY DEF Within
  <2>. PICK i \in 1 .. k + 1 : \E m \in new[i].todo :
               first[new[i].dir][m] \in Dirs /\ e[1] \in Under(first[new[i].dir][m])
    BY <1>3 DEF Within
  <2>. PICK m \in new[i].todo :
               first[new[i].dir][m] \in Dirs /\ e[1] \in Under(first[new[i].dir][m])
    OBVIOUS
  <2>1. CASE i = k + 1
    <3>1. first[dir][m] \in Under(dir) /\ first[dir][m] \in Dirs
      BY <1>3, <1>5, <2>1 DEF Closed
    <3>2. Under(dir) \in SUBSET Dirs
      BY <1>5
    <3>3. Under(first[dir][m]) \subseteq Under(dir)
      BY <1>5, <3>1, <3>2, UnderIs
    <3>4. e[1] \in Under(dir) /\ e[2] \in Names
      BY <1>3, <2>0, <2>1, <3>3
    <3>. QED
      BY <2>0, <3>4 DEF opened
  <2>2. CASE i \in 1 .. k
    BY <1>2, <1>3, <2>0, <2>2 DEF Within
  <2>. QED
    BY <1>6, <2>1, <2>2
<1>9. opened \subseteq Within(stack)
  BY <1>1, <1>5 DEF Within
<1>10. entry \notin opened
  <2>1. stack[k].dir \notin Unopened
    BY <1>1 DEF Unopened, OpenDirs
  <2>. QED
    BY <1>5, <2>1
<1>. HIDE DEF entry, new, opened
<1>11. EntriesLeft(new) \subseteq EntriesLeft(Without(n)) \cup opened
  BY <1>7, <1>8 DEF EntriesLeft
<1>12. opened \subseteq EntriesLeft(stack)
  BY <1>9 DEF EntriesLeft
<1>13. EntriesLeft(new) \subseteq EntriesLeft(stack) /\ entry \in EntriesLeft(stack) \ EntriesLeft(new)
  BY <1>4, <1>10, <1>11, <1>12
<1>. QED
  BY <1>13 DEF entry, new, k

(* The entries that are left can be counted, and fewer are a lower number.  *)
LEMMA EntriesCount ==
    ASSUME NEW s, NEW t
    PROVE  /\ Cardinality(EntriesLeft(s)) \in Nat
           /\ EntriesLeft(t) \subseteq EntriesLeft(s) =>
                  Cardinality(EntriesLeft(t)) <= Cardinality(EntriesLeft(s))
           /\ \A e \in EntriesLeft(s) \ EntriesLeft(t) : EntriesLeft(t) \subseteq EntriesLeft(s) =>
                  Cardinality(EntriesLeft(t)) < Cardinality(EntriesLeft(s))
<1>1. IsFiniteSet(Dirs \X Names)
  BY CleanupAssumption, FS_Product
<1>2. EntriesLeft(s) \subseteq Dirs \X Names /\ EntriesLeft(t) \subseteq Dirs \X Names
  BY DEF EntriesLeft, InHand, Within
<1>. HIDE DEF EntriesLeft
<1>3. IsFiniteSet(EntriesLeft(s)) /\ IsFiniteSet(EntriesLeft(t))
  BY <1>1, <1>2, FS_Subset
<1>4. Cardinality(EntriesLeft(s)) \in Nat /\ Cardinality(EntriesLeft(t)) \in Nat
  BY <1>3, FS_CardinalityType
<1>5. EntriesLeft(t) \subseteq EntriesLeft(s) =>
          /\ Cardinality(EntriesLeft(t)) <= Cardinality(EntriesLeft(s))
          /\ Cardinality(EntriesLeft(s)) = Cardinality(EntriesLeft(t)) => EntriesLeft(s) = EntriesLeft(t)
  BY <1>3, FS_Subset
<1>. QED
  BY <1>4, <1>5

(* Every step keeps the two facts about the work in hand.                   *)
LEMMA WorkKept ==
    ASSUME CleanupInv, WorkInv, [Next]_vars
    PROVE  WorkInv'
<1>1. TypeOK /\ TreeInv /\ PathInv /\ ScopeInv
  BY DEF CleanupInv
<1>2. Len(stack) \in Nat /\ (stack # <<>> => Len(stack) > 0)
  BY <1>1, Types
<1>3. CASE Started
  <2>1. PICK todo \in SUBSET Names : stack' = <<Frame(Root, NoName, todo)>>
    BY <1>3 DEF Started
  <2>2. stack = <<>> /\ pending' = pending
    BY <1>3 DEF Started
  <2>3. pending = NoName
    BY <1>1, <2>2, Types DEF ScopeInv
  <2>4. Len(stack') = 1
    BY <2>1
  <2>. QED
    BY <2>2, <2>3, <2>4 DEF WorkInv
<1>4. CASE Ended
  <2>1. stack' = <<>> /\ pending' = NoName
    BY <1>4 DEF Ended, EndPhase
  <2>2. Len(stack') = 0
    BY <2>1
  <2>. QED
    BY <2>1, <2>2 DEF WorkInv
<1>5. CASE Entered
  <2>1. PICK n \in Names, dir \in Dirs : Enters(n, dir)
    BY <1>5 DEF Entered
  <2>. DEFINE k == Len(stack)
  <2>2. stack # <<>> /\ stack' = Pushed(n, dir) /\ pending' = NoName
    BY <2>1 DEF Enters
  <2>3. k \in Nat /\ k > 0
    BY <1>2, <2>2
  <2>4. /\ Len(stack') = k + 1
        /\ \A i \in 1 .. k : stack'[i] = Without(n)[i]
        /\ stack'[k + 1] = Frame(dir, n, Listing(dir))
    BY <1>1, <2>2, PushedEffect
  <2>5. /\ \A i \in 1 .. k : /\ Without(n)[i].name = stack[i].name
                             /\ Without(n)[i].todo \subseteq stack[i].todo
        /\ n \notin Without(n)[k].todo
    BY <1>1, <2>2, WithoutEffect DEF Shrunk
  <2>6. stack'[k + 1].name = n
    <3>. HIDE DEF k
    <3>. QED
      BY <2>4 DEF Frame
  <2>7. \A i \in 2 .. k : stack[i].name \notin stack[i - 1].todo
    BY DEF WorkInv
  <2>. HIDE DEF k
  <2>8. ASSUME NEW i \in 2 .. k + 1
        PROVE  stack'[i].name \notin stack'[i - 1].todo
    <3>1. CASE i = k + 1
      <4>1. i - 1 = k /\ k \in 1 .. k
        BY <2>3, <3>1
      <4>. QED
        BY <2>4, <2>5, <2>6, <3>1, <4>1
    <3>2. CASE i # k + 1
      <4>1. i \in 2 .. k /\ i \in 1 .. k /\ i - 1 \in 1 .. k
        BY <2>3, <3>2
      <4>. QED
        BY <2>4, <2>5, <2>7, <4>1
    <3>. QED
      BY <3>1, <3>2
  <2>. QED
    BY <2>2, <2>4, <2>8 DEF WorkInv
<1>6. CASE Narrowed
  <2>. DEFINE l == Len(stack')
  <2>1. /\ stack' \in Seq(Frames) /\ l <= Len(stack)
        /\ \A i \in 1 .. l : /\ stack'[i].name = stack[i].name
                             /\ stack'[i].todo \subseteq stack[i].todo
    BY <1>6 DEF Narrowed, Shrunk
  <2>2. l \in Nat
    BY <2>1
  <2>. HIDE DEF l
  <2>3. \A i \in 2 .. l : i \in 1 .. l /\ i - 1 \in 1 .. l /\ i \in 2 .. Len(stack)
    BY <1>2, <2>1, <2>2
  <2>4. \A i \in 2 .. l : stack'[i].name \notin stack'[i - 1].todo
    BY <2>1, <2>3 DEF WorkInv
  <2>5. pending' # NoName => stack' = stack /\ pending' \in stack[Len(stack)].todo
    BY <1>6 DEF Narrowed
  <2>6. pending' # NoName => pending' \in stack'[Len(stack')].todo
    BY <2>5
  <2>. QED
    BY <2>4, <2>6 DEF WorkInv, l
<1>7. CASE Disturb \/ UNCHANGED vars
  <2>1. UNCHANGED <<stack, pending>>
    BY <1>7, OthersStay DEF vars
  <2>. QED
    BY <2>1 DEF WorkInv
<1>. QED
  BY <1>1, <1>3, <1>4, <1>5, <1>6, <1>7, StackSteps DEF Next

(* What is left is three numbers.                                           *)
LEMMA WorkIsCounted == TypeOK => WorkLeft \in Nat \X Nat \X Nat
<1>. SUFFICES ASSUME TypeOK PROVE WorkLeft \in Nat \X Nat \X Nat
  OBVIOUS
<1>1. PhasesLeft \in Nat
  BY DEF PhasesLeft
<1>2. 2 * PhasesLeft + (IF stack = <<>> THEN 1 ELSE 0) \in Nat
  BY <1>1
<1>3. Len(stack) \in Nat
  BY Types
<1>4. 2 * Len(stack) + (IF pending = NoName THEN 1 ELSE 0) \in Nat
  BY <1>3
<1>5. Cardinality(EntriesLeft(stack)) \in Nat
  BY EntriesCount
<1>. QED
  BY <1>2, <1>4, <1>5 DEF WorkLeft

(* The measure after a step, which leaves the first tree what it was.       *)
LEMMA WorkAfter ==
    ASSUME first' = first
    PROVE  /\ WorkLeft'[1] = 2 * PhasesLeft' + (IF stack' = <<>> THEN 1 ELSE 0)
           /\ WorkLeft'[2] = Cardinality(EntriesLeft(stack'))
           /\ WorkLeft'[3] = 2 * Len(stack') + (IF pending' = NoName THEN 1 ELSE 0)
           /\ WorkLeft[1] = 2 * PhasesLeft + (IF stack = <<>> THEN 1 ELSE 0)
           /\ WorkLeft[2] = Cardinality(EntriesLeft(stack))
           /\ WorkLeft[3] = 2 * Len(stack) + (IF pending = NoName THEN 1 ELSE 0)
<1>1. EntriesLeft(stack)' = EntriesLeft(stack')
  BY DEF EntriesLeft, InHand, Within, Under, Closed
<1>. QED
  BY <1>1 DEF WorkLeft

(* A phase that has ended leaves fewer.                                     *)
LEMMA FewerPhases ==
    ASSUME TypeOK, phase # "over", phase' = PhaseAfter
    PROVE  PhasesLeft' \in Nat /\ PhasesLeft \in Nat /\ PhasesLeft' < PhasesLeft
BY DEF TypeOK, Phases, PhasesLeft, PhaseAfter

(* In the same phase, with directories open, the entries count next, and    *)
(* then what is open.                                                       *)
LEMMA LessInPhase ==
    ASSUME TypeOK, first' = first, phase' = phase, stack # <<>>, stack' # <<>>,
           \/ Cardinality(EntriesLeft(stack')) < Cardinality(EntriesLeft(stack))
           \/ /\ Cardinality(EntriesLeft(stack')) <= Cardinality(EntriesLeft(stack))
              /\ 2 * Len(stack') + (IF pending' = NoName THEN 1 ELSE 0)
                     < 2 * Len(stack) + (IF pending = NoName THEN 1 ELSE 0)
    PROVE  Less(WorkLeft', WorkLeft)
<1>1. PhasesLeft' = PhasesLeft
  BY DEF PhasesLeft
<1>2. WorkLeft'[1] = WorkLeft[1]
  BY <1>1, WorkAfter
<1>3. Cardinality(EntriesLeft(stack')) \in Nat /\ Cardinality(EntriesLeft(stack)) \in Nat
  BY EntriesCount
<1>4. \/ Cardinality(EntriesLeft(stack')) < Cardinality(EntriesLeft(stack))
      \/ /\ Cardinality(EntriesLeft(stack')) = Cardinality(EntriesLeft(stack))
         /\ 2 * Len(stack') + (IF pending' = NoName THEN 1 ELSE 0)
                < 2 * Len(stack) + (IF pending = NoName THEN 1 ELSE 0)
  BY <1>3
<1>. QED
  BY <1>2, <1>4, WorkAfter DEF Less

(* Every step of the cleanup does some of the work.                         *)
LEMMA StepWorks ==
    ASSUME CleanupInv, WorkInv, CleanupStep
    PROVE  Less(WorkLeft', WorkLeft)
<1>1. TypeOK /\ TreeInv /\ PathInv /\ ScopeInv /\ first' = first
  BY StepCalls DEF Kept, CleanupInv
<1>2. CASE Started
  <2>1. stack = <<>> /\ phase' = phase /\ stack' # <<>>
    <3>1. PICK todo \in SUBSET Names : stack' = <<Frame(Root, NoName, todo)>>
      BY <1>2 DEF Started
    <3>. QED
      BY <1>2, <3>1 DEF Started
  <2>2. PhasesLeft' = PhasesLeft /\ PhasesLeft \in Nat
    BY <2>1 DEF PhasesLeft
  <2>3. 2 * PhasesLeft' + 0 < 2 * PhasesLeft + 1
    BY <2>2
  <2>. QED
    BY <1>1, <2>1, <2>3, WorkAfter DEF Less
<1>3. CASE Ended
  <2>1. phase # "over" /\ phase' = PhaseAfter /\ stack' = <<>>
    BY <1>3 DEF Ended, EndPhase
  <2>2. PhasesLeft' \in Nat /\ PhasesLeft \in Nat /\ PhasesLeft' < PhasesLeft
    BY <1>1, <2>1, FewerPhases
  <2>3. 2 * PhasesLeft' + 1 < 2 * PhasesLeft + (IF stack = <<>> THEN 1 ELSE 0)
    <3>1. \A a, b \in Nat : a < b => 2 * a + 1 < 2 * b + 0 /\ 2 * a + 1 < 2 * b + 1
      OBVIOUS
    <3>. QED
      BY <2>2, <3>1
  <2>. QED
    BY <1>1, <2>1, <2>3, WorkAfter DEF Less
<1>4. CASE Entered
  <2>1. PICK n \in Names, dir \in Dirs : Enters(n, dir)
    BY <1>4 DEF Entered
  <2>2. /\ stack # <<>> /\ n \in stack[Len(stack)].todo /\ dir = tree[stack[Len(stack)].dir][n]
        /\ stack' = Pushed(n, dir) /\ phase' = phase
    BY <2>1 DEF Enters
  <2>3. dir = first[stack[Len(stack)].dir][n]
    <3>1. stack[Len(stack)].dir \in Dirs \ {Elsewhere}
      BY <1>1, <2>2, Types, OpenInPlace
    <3>. QED
      BY <1>1, <2>2, <3>1 DEF TreeInv
  <2>4. Cardinality(EntriesLeft(stack')) < Cardinality(EntriesLeft(stack))
    BY <1>1, <2>2, <2>3, PushedLeavesLess, EntriesCount
  <2>5. stack' # <<>>
    <3>1. Len(Pushed(n, dir)) = Len(stack) + 1 /\ Len(stack) \in Nat
      BY <1>1, <2>2, PushedEffect, Types
    <3>2. Len(stack') # 0
      BY <2>2, <3>1
    <3>. QED
      BY <3>2
  <2>. QED
    BY <1>1, <2>2, <2>4, <2>5, LessInPhase
<1>5. CASE Narrowed
  <2>1. phase' = phase /\ stack # <<>> /\ Shrunk(stack') /\ Len(stack') > 0
    BY <1>5 DEF Narrowed
  <2>2. Len(stack) \in Nat /\ Len(stack') \in Nat /\ stack' # <<>>
    BY <1>1, <2>1, Types DEF Shrunk
  <2>3. Cardinality(EntriesLeft(stack')) <= Cardinality(EntriesLeft(stack))
    <3>1. EntriesLeft(stack') \subseteq EntriesLeft(stack)
      BY <1>1, <2>1, ShrunkLeavesLess DEF EntriesLeft
    <3>. QED
      BY <3>1, EntriesCount
  <2>4. CASE pending' = NoName /\ Len(stack') < Len(stack)
    <3>1. 2 * Len(stack') + 1 < 2 * Len(stack) + (IF pending = NoName THEN 1 ELSE 0)
      BY <2>2, <2>4
    <3>. QED
      BY <1>1, <2>1, <2>2, <2>3, <2>4, <3>1, LessInPhase
  <2>5. ASSUME NEW n \in Names, stack' = Without(n), n = pending \/ n \in stack[Len(stack)].todo
        PROVE  Less(WorkLeft', WorkLeft)
    <3>1. n \in stack[Len(stack)].todo
      BY <2>5, CleanupAssumption DEF WorkInv
    <3>2. n \notin stack'[Len(stack)].todo
      BY <1>1, <2>1, <2>5, WithoutEffect
    <3>3. Cardinality(EntriesLeft(stack')) < Cardinality(EntriesLeft(stack))
      BY <1>1, <2>1, <3>1, <3>2, OneLessLeft, EntriesCount
    <3>. QED
      BY <1>1, <2>1, <2>2, <3>3, LessInPhase
  <2>6. CASE pending = NoName /\ pending' \in Names /\ stack' = stack
    <3>1. pending' # NoName
      BY <2>6, CleanupAssumption
    <3>2. 2 * Len(stack') + 0 < 2 * Len(stack) + 1
      BY <2>2, <2>6
    <3>. QED
      BY <1>1, <2>1, <2>2, <2>3, <2>6, <3>1, <3>2, LessInPhase
  <2>. QED
    BY <1>5, <2>4, <2>5, <2>6 DEF Narrowed
<1>. QED
  BY <1>1, <1>2, <1>3, <1>4, <1>5, StackSteps

(* What others do adds nothing to it.                                       *)
LEMMA OthersAddNothing == Disturb => WorkLeft' = WorkLeft
<1>. SUFFICES ASSUME Disturb PROVE WorkLeft' = WorkLeft
  OBVIOUS
<1>1. UNCHANGED <<phase, stack, pending, first>>
  BY OthersStay
<1>2. EntriesLeft(stack)' = EntriesLeft(stack)
  BY <1>1 DEF EntriesLeft, InHand, Within, Under, Closed
<1>3. PhasesLeft' = PhasesLeft
  BY <1>1 DEF PhasesLeft
<1>. QED
  BY <1>1, <1>2, <1>3 DEF WorkLeft

(* The cleanup cannot go on for ever: each of its steps takes something off *)
(* three numbers (phases to come, entries of the first tree to go through,  *)
(* directories to close), and what others put there meanwhile adds nothing, *)
(* since a directory is listed once and entered where it first was          *)
(* (assets/traversal.rs entries, remove_contents).                          *)
THEOREM WorkRunsOut ==
    Spec => /\ [](WorkLeft \in Nat \X Nat \X Nat)
            /\ [][/\ CleanupStep => Less(WorkLeft', WorkLeft)
                  /\ Disturb => WorkLeft' = WorkLeft]_vars
<1>1. CleanupInv => WorkLeft \in Nat \X Nat \X Nat
  BY WorkIsCounted DEF CleanupInv
<1>2. Init => WorkInv
  <2>. SUFFICES ASSUME Init PROVE WorkInv
    OBVIOUS
  <2>1. Len(stack) = 0 /\ pending = NoName
    BY DEF Init
  <2>. QED
    BY <2>1 DEF WorkInv
<1>3. CleanupInv /\ WorkInv /\ [Next]_vars => WorkInv'
  BY WorkKept
<1>4. CleanupInv /\ WorkInv /\ [Next]_vars =>
          [/\ CleanupStep => Less(WorkLeft', WorkLeft)
           /\ Disturb => WorkLeft' = WorkLeft]_vars
  BY StepWorks, OthersAddNothing
<1>. QED
  BY <1>1, <1>2, <1>3, <1>4, CleanupAlways, PTL DEF Spec
=============================================================================
