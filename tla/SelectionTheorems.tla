--------------------------- MODULE SelectionTheorems ---------------------------
(* Theorems about Selection, for every database.                            *)
EXTENDS Selection, FiniteSetTheorems, TLAPS

(***************************************************************************)
(* Trees.  A subtree is the least set of rows with its roots that is       *)
(* closed under children: the rule to bound it by another such set, and    *)
(* the facts that it is one.                                               *)
(***************************************************************************)

(* A set of rows that holds S and is closed holds the subtree of S.         *)
LEMMA SubtreeLeast ==
    ASSUME NEW db, NEW S, NEW C \in SUBSET db.rows,
           S \cap db.rows \subseteq C, ClosedUnderChildren(db, C)
    PROVE  Subtree(db, S) \subseteq C
  BY DEF Subtree

(* The subtree of S is a set of rows, holds S and is closed.                *)
LEMMA SubtreeClosed ==
    ASSUME NEW db, NEW S
    PROVE  /\ Subtree(db, S) \subseteq db.rows
           /\ S \cap db.rows \subseteq Subtree(db, S)
           /\ ClosedUnderChildren(db, Subtree(db, S))
<1>1. /\ Subtree(db, S) \subseteq db.rows
      /\ S \cap db.rows \subseteq Subtree(db, S)
  BY DEF Subtree
<1>2. ASSUME NEW s \in db.rows, db.parent[s] \in Subtree(db, S)
      PROVE  s \in Subtree(db, S)
  <2>. SUFFICES ASSUME NEW C \in SUBSET db.rows,
                       S \cap db.rows \subseteq C, ClosedUnderChildren(db, C)
                PROVE  s \in C
    BY DEF Subtree
  <2>1. db.parent[s] \in C
    BY <1>2, SubtreeLeast
  <2>. QED
    BY <2>1 DEF ClosedUnderChildren
<1>. QED
  BY <1>1, <1>2 DEF ClosedUnderChildren

(* More selected sessions have a larger subtree.                            *)
LEMMA SubtreeMonotone ==
    ASSUME NEW db, NEW S, NEW T, S \subseteq T
    PROVE  Subtree(db, S) \subseteq Subtree(db, T)
<1>1. S \cap db.rows \subseteq Subtree(db, T)
  BY SubtreeClosed
<1>. QED
  BY <1>1, SubtreeClosed, SubtreeLeast

(***************************************************************************)
(* Retention.  The retained trees are whole: with a session they hold its  *)
(* children and, as they start at roots, its parent.                       *)
(***************************************************************************)

(* The subtree of roots is closed under parents.                            *)
LEMMA TreesWhole ==
    ASSUME NEW db, NEW R, R \subseteq Roots(db)
    PROVE  \A x \in Subtree(db, R) :
               db.parent[x] \in db.rows => db.parent[x] \in Subtree(db, R)
<1>. DEFINE T == Subtree(db, R)
            C == {x \in T : db.parent[x] \in db.rows => db.parent[x] \in T}
<1>1. R \cap db.rows \subseteq C
  BY SubtreeClosed DEF Roots
<1>2. ClosedUnderChildren(db, C)
  BY SubtreeClosed DEF ClosedUnderChildren
<1>3. C \in SUBSET db.rows
  BY SubtreeClosed
<1>4. T \subseteq C
  BY <1>1, <1>2, <1>3, SubtreeLeast
<1>. QED
  BY <1>4

(* --keep-recent protects whole trees.                                      *)
LEMMA RetainedWhole ==
    ASSUME NEW db, NEW keep
    PROVE  /\ ClosedUnderChildren(db, Retained(db, keep))
           /\ \A x \in Retained(db, keep) :
                  db.parent[x] \in db.rows => db.parent[x] \in Retained(db, keep)
<1>1. CASE keep = 0
  BY <1>1 DEF Retained, ClosedUnderChildren
<1>2. CASE keep # 0
  <2>. DEFINE R == {r \in Roots(db) : Cardinality({q \in Roots(db) : Outranks(db, q, r)}) < keep}
  <2>1. Retained(db, keep) = Subtree(db, R)
    BY <1>2 DEF Retained
  <2>2. R \subseteq Roots(db)
    OBVIOUS
  <2>. HIDE DEF R
  <2>. QED
    BY <2>1, <2>2, SubtreeClosed, TreesWhole
<1>. QED
  BY <1>1, <1>2

(***************************************************************************)
(* What a clean deletes.                                                   *)
(***************************************************************************)

(* README: subtree selection preserves parent-child consistency.  No        *)
(* session stays whose parent is deleted, although retention takes sessions *)
(* out of the expanded selection again.                                     *)
THEOREM SelectedLeavesNoDangling ==
    ASSUME NEW db, NEW matches, NEW keep,
           NEW s \in db.rows \ Selected(db, matches, Retained(db, keep))
    PROVE  db.parent[s] \notin Selected(db, matches, Retained(db, keep))
<1>. DEFINE kept == Retained(db, keep)
            tree == Subtree(db, matches \ kept)
<1>. SUFFICES ASSUME db.parent[s] \in tree, db.parent[s] \notin kept
              PROVE  FALSE
  BY DEF Selected
<1>1. s \in tree /\ db.parent[s] \in db.rows
  BY SubtreeClosed DEF ClosedUnderChildren
<1>2. s \in kept
  BY <1>1 DEF Selected
<1>. QED
  BY <1>1, <1>2, RetainedWhole

(* The preview, which starts from the topmost matching sessions, shows the  *)
(* sessions the applied run deletes, whatever the predicates select, unless *)
(* parents form a cycle; a database with one is refused before.             *)
THEOREM PreviewAgrees ==
    ASSUME NEW db, ~HasCycle(db), NEW matches \in SUBSET db.rows, NEW keep
    PROVE  PreviewSessions(db, matches, Retained(db, keep), FALSE)
             = Selected(db, matches, Retained(db, keep))
<1>. DEFINE kept == Retained(db, keep)
            roots == PreviewRoots(db, matches) \ kept
            tree == Subtree(db, roots)
            missed == (matches \ kept) \ tree
<1>1. ASSUME NEW s \in missed PROVE db.parent[s] \in missed
  <2>1. s \notin PreviewRoots(db, matches)
    BY SubtreeClosed DEF PreviewRoots
  <2>2. db.parent[s] \in matches
    BY <2>1 DEF PreviewRoots
  <2>3. db.parent[s] \notin kept
    BY RetainedWhole DEF ClosedUnderChildren
  <2>4. db.parent[s] \notin tree
    BY SubtreeClosed DEF ClosedUnderChildren
  <2>. QED
    BY <2>2, <2>3, <2>4
<1>2. missed = {}
  BY <1>1 DEF HasCycle
<1>3. Subtree(db, matches \ kept) \subseteq tree
  <2>1. (matches \ kept) \cap db.rows \subseteq tree
    BY <1>2
  <2>. QED
    BY <2>1, SubtreeClosed, SubtreeLeast
<1>4. tree \subseteq Subtree(db, matches \ kept)
  BY SubtreeMonotone DEF PreviewRoots
<1>. QED
  BY <1>3, <1>4 DEF PreviewSessions, Selected

(***************************************************************************)
(* Maxima.  A nonempty finite set of numbers has one, so the age of a      *)
(* session is the age of somebody in its subtree.                          *)
(***************************************************************************)

(* Among subsets of a finite set there is one that contains no other.       *)
LEMMA MinimalSubset ==
    ASSUME NEW S, IsFiniteSet(S), NEW F, F # {}, \A A \in F : A \subseteq S
    PROVE  \E A \in F : \A B \in F : B \subseteq A => B = A
<1>1. IsWellFoundedOn(StrictSubsetOrdering(S), SUBSET S)
  BY FS_StrictSubsetOrderingWellFounded, FS_FiniteSubsetsOfFinite
<1>2. F \subseteq SUBSET S
  OBVIOUS
<1>3. PICK A \in F : \A B \in F : <<B, A>> \notin StrictSubsetOrdering(S)
  BY <1>1, <1>2, WFMin
<1>4. ASSUME NEW B \in F, B \subseteq A, B # A PROVE FALSE
  BY <1>3, <1>4 DEF StrictSubsetOrdering
<1>. QED
  BY <1>4

(* Numbers have a least.                                                    *)
LEMMA LeastNumber ==
    ASSUME NEW T \in SUBSET Nat, T # {}
    PROVE  \E m \in T : \A n \in T : m <= n
<1>. DEFINE F == {0 .. m : m \in T}
<1>1. PICK t \in T : TRUE
  OBVIOUS
<1>. DEFINE G == {A \in F : A \subseteq 0 .. t}
<1>2. PICK A \in G : \A B \in G : B \subseteq A => B = A
  <2>1. 0 .. t \in G /\ IsFiniteSet(0 .. t) /\ \A A \in G : A \subseteq 0 .. t
    <3>1. t \in Int /\ 0 \in Int
      BY <1>1
    <3>2. IsFiniteSet(0 .. t)
      BY <3>1, FS_Interval
    <3>3. 0 .. t \in G
      BY <1>1
    <3>. QED
      BY <3>2, <3>3
  <2>. HIDE DEF G
  <2>. QED
    BY <2>1, MinimalSubset
<1>3. PICK m \in T : A = 0 .. m
  BY <1>2
<1>4. ASSUME NEW n \in T, n < m PROVE FALSE
  <2>1. 0 .. n \in G /\ 0 .. n \subseteq A
    BY <1>2, <1>3, <1>4
  <2>2. m \in A /\ m \notin 0 .. n
    BY <1>3, <1>4
  <2>. QED
    BY <1>2, <2>1, <2>2
<1>. QED
  BY <1>4

(* The maximum is the number with the fewest above it.                      *)
LEMMA MaxOfFinite ==
    ASSUME NEW T \in SUBSET Nat, T # {}, IsFiniteSet(T)
    PROVE  Max(T) \in T /\ \A n \in T : n <= Max(T)
<1>. DEFINE F == {{n \in T : n > m} : m \in T}
<1>1. F # {} /\ \A A \in F : A \subseteq T
  OBVIOUS
<1>2. PICK A \in F : \A B \in F : B \subseteq A => B = A
  <2>. HIDE DEF F
  <2>. QED
    BY <1>1, MinimalSubset
<1>3. PICK m \in T : A = {n \in T : n > m}
  OBVIOUS
<1>4. ASSUME NEW n \in T, n > m PROVE FALSE
  <2>. DEFINE B == {k \in T : k > n}
  <2>1. B \in F
    OBVIOUS
  <2>2. \A k \in Nat : k > n => k > m
    BY <1>4
  <2>3. B \subseteq A
    BY <1>3, <2>2
  <2>4. n \in A /\ n \notin B
    BY <1>3, <1>4
  <2>. QED
    BY <1>2, <2>1, <2>3, <2>4
<1>5. \A n \in T : m >= n
  BY <1>4
<1>. QED
  BY <1>5 DEF Max

(* A session's subtree is a finite, nonempty set of sessions.               *)
LEMMA SubtreeOfOne ==
    ASSUME NEW db, db.rows \in SUBSET Ids, NEW s \in db.rows
    PROVE  /\ s \in Subtree(db, {s})
           /\ Subtree(db, {s}) \subseteq Ids
           /\ IsFiniteSet(Subtree(db, {s}))
<1>1. s \in Subtree(db, {s}) /\ Subtree(db, {s}) \subseteq Ids
  BY SubtreeClosed
<1>. QED
  BY <1>1, IdsAssumption, FS_Subset

(* The effective time of a session is the latest in its subtree.            *)
LEMMA EffectiveTimeIsLatest ==
    ASSUME NEW db, db.rows \in SUBSET Ids, db.stamp \in [Ids -> Nat], NEW s \in db.rows
    PROVE  /\ EffectiveTime(db, s) \in Nat
           /\ \E x \in Subtree(db, {s}) : EffectiveTime(db, s) = db.stamp[x]
           /\ \A x \in Subtree(db, {s}) : db.stamp[x] <= EffectiveTime(db, s)
<1>. DEFINE T == Subtree(db, {s})
            V == {db.stamp[x] : x \in T}
            f == [x \in T |-> db.stamp[x]]
<1>1. s \in T /\ T \subseteq Ids /\ IsFiniteSet(T)
  BY SubtreeOfOne
<1>2. V \in SUBSET Nat /\ V # {}
  BY <1>1
<1>3. IsFiniteSet(V)
  <2>1. f \in Surjection(T, V)
    BY DEF Surjection
  <2>. QED
    BY <1>1, <2>1, FS_Surjection
<1>4. Max(V) \in V /\ \A n \in V : n <= Max(V)
  BY <1>2, <1>3, MaxOfFinite
<1>. QED
  BY <1>2, <1>4 DEF EffectiveTime

(* The sessions nobody touched since an instant come with their descendants. *)
LEMMA OlderThanClosed ==
    ASSUME NEW db, db.rows \in SUBSET Ids, db.stamp \in [Ids -> Nat], NEW boundary \in Nat
    PROVE  ClosedUnderChildren(db, OlderThan(db, boundary))
<1>. SUFFICES ASSUME NEW s \in db.rows, db.parent[s] \in OlderThan(db, boundary)
              PROVE  EffectiveTime(db, s) <= boundary
  BY DEF ClosedUnderChildren, OlderThan
<1>. DEFINE p == db.parent[s]
<1>1. p \in db.rows /\ EffectiveTime(db, p) <= boundary
  BY DEF OlderThan
<1>2. Subtree(db, {s}) \subseteq Subtree(db, {p})
  <2>1. {s} \cap db.rows \subseteq Subtree(db, {p})
    BY <1>1, SubtreeClosed DEF ClosedUnderChildren
  <2>. QED
    BY <2>1, SubtreeClosed, SubtreeLeast
<1>3. PICK x \in Subtree(db, {s}) : EffectiveTime(db, s) = db.stamp[x]
  BY EffectiveTimeIsLatest
<1>4. db.stamp[x] <= EffectiveTime(db, p) /\ EffectiveTime(db, p) \in Nat /\ db.stamp[x] \in Nat
  <2>1. x \in Ids
    BY SubtreeOfOne
  <2>. QED
    BY <1>1, <1>2, <2>1, EffectiveTimeIsLatest
<1>. QED
  BY <1>1, <1>3, <1>4

(***************************************************************************)
(* A database with fewer rows.  The deletion only takes rows away; what    *)
(* the selection computes on the rest is compared with what it computed    *)
(* before.                                                                 *)
(***************************************************************************)

PartOf(part, db) ==
    /\ part.rows \subseteq db.rows
    /\ part.parent = db.parent /\ part.owner = db.owner /\ part.stamp = db.stamp

(* No session of the part has lost its parent.                              *)
WithParents(part, db) == \A s \in part.rows : db.parent[s] \in db.rows => db.parent[s] \in part.rows

(* Subtrees shrink, and are the same when they are still there as a whole.  *)
LEMMA SubtreeOfPart ==
    ASSUME NEW db, NEW part, PartOf(part, db), NEW S
    PROVE  /\ Subtree(part, S) \subseteq Subtree(db, S)
           /\ Subtree(db, S) \subseteq part.rows => Subtree(part, S) = Subtree(db, S)
<1>1. Subtree(part, S) \subseteq Subtree(db, S)
  <2>. DEFINE C == Subtree(db, S) \cap part.rows
  <2>1. S \cap part.rows \subseteq C /\ ClosedUnderChildren(part, C)
    BY SubtreeClosed DEF ClosedUnderChildren, PartOf
  <2>. QED
    BY <2>1, SubtreeLeast
<1>2. ASSUME Subtree(db, S) \subseteq part.rows PROVE Subtree(db, S) \subseteq Subtree(part, S)
  <2>. DEFINE C == Subtree(db, S) \cap Subtree(part, S)
  <2>1. S \cap db.rows \subseteq C
    BY <1>2, SubtreeClosed
  <2>2. ClosedUnderChildren(db, C)
    BY <1>2, SubtreeClosed DEF ClosedUnderChildren, PartOf
  <2>3. C \in SUBSET db.rows
    BY SubtreeClosed
  <2>. QED
    BY <2>1, <2>2, <2>3, SubtreeLeast
<1>. QED
  BY <1>1, <1>2

(* A session gets no younger when rows are taken away.                      *)
LEMMA EffectiveTimeOfPart ==
    ASSUME NEW db, db.rows \in SUBSET Ids, db.stamp \in [Ids -> Nat],
           NEW part, PartOf(part, db), NEW s \in part.rows
    PROVE  /\ EffectiveTime(part, s) \in Nat /\ EffectiveTime(db, s) \in Nat
           /\ EffectiveTime(part, s) <= EffectiveTime(db, s)
           /\ Subtree(db, {s}) \subseteq part.rows => EffectiveTime(part, s) = EffectiveTime(db, s)
<1>1. part.rows \in SUBSET Ids /\ part.stamp \in [Ids -> Nat] /\ s \in db.rows
  BY DEF PartOf
<1>2. EffectiveTime(part, s) \in Nat /\ EffectiveTime(db, s) \in Nat
  BY <1>1, EffectiveTimeIsLatest
<1>3. PICK x \in Subtree(part, {s}) : EffectiveTime(part, s) = part.stamp[x]
  BY <1>1, EffectiveTimeIsLatest
<1>4. x \in Subtree(db, {s}) /\ part.stamp = db.stamp
  BY SubtreeOfPart DEF PartOf
<1>5. db.stamp[x] <= EffectiveTime(db, s)
  BY <1>1, <1>4, EffectiveTimeIsLatest
<1>6. ASSUME Subtree(db, {s}) \subseteq part.rows PROVE EffectiveTime(part, s) = EffectiveTime(db, s)
  <2>1. Subtree(part, {s}) = Subtree(db, {s})
    BY <1>6, SubtreeOfPart
  <2>. QED
    BY <1>4, <2>1 DEF EffectiveTime
<1>. QED
  BY <1>2, <1>3, <1>4, <1>5, <1>6

(* The dangling sessions that are left are those that were dangling before. *)
LEMMA DanglingOfPart ==
    ASSUME NEW db, NEW part, PartOf(part, db), WithParents(part, db)
    PROVE  Dangling(part) = Dangling(db) \cap part.rows
<1>. DEFINE top(d) == {s \in Roots(d) : d.parent[s] # NoParent}
<1>1. top(part) = top(db) \cap part.rows
  BY DEF Roots, PartOf, WithParents
<1>2. Dangling(part) \subseteq Dangling(db)
  <2>1. Dangling(part) \subseteq Subtree(db, top(part))
    BY SubtreeOfPart DEF Dangling
  <2>2. Subtree(db, top(part)) \subseteq Subtree(db, top(db))
    BY <1>1, SubtreeMonotone
  <2>. QED
    BY <2>1, <2>2 DEF Dangling
<1>3. Dangling(part) \subseteq part.rows
  BY SubtreeClosed DEF Dangling
<1>4. Dangling(db) \cap part.rows \subseteq Dangling(part)
  <2>. DEFINE C == {x \in Dangling(db) : x \in part.rows => x \in Dangling(part)}
  <2>1. top(db) \cap db.rows \subseteq C
    BY <1>1, SubtreeClosed DEF Dangling
  <2>2. ASSUME NEW s \in db.rows, db.parent[s] \in C PROVE s \in C
    <3>1. s \in Dangling(db) /\ db.parent[s] \in db.rows
      BY <2>2, SubtreeClosed DEF Dangling, ClosedUnderChildren
    <3>2. ASSUME s \in part.rows PROVE s \in Dangling(part)
      <4>1. part.parent[s] \in Dangling(part)
        BY <2>2, <3>1, <3>2 DEF WithParents, PartOf
      <4>. QED
        BY <3>2, <4>1, SubtreeClosed DEF Dangling, ClosedUnderChildren
    <3>. QED
      BY <3>1, <3>2
  <2>3. C \in SUBSET db.rows
    BY SubtreeClosed DEF Dangling
  <2>4. Dangling(db) \subseteq C
    <3>1. ClosedUnderChildren(db, C)
      BY <2>2 DEF ClosedUnderChildren
    <3>. QED
      BY <2>1, <2>3, <3>1, SubtreeLeast DEF Dangling
  <2>. QED
    BY <2>4
<1>. QED
  BY <1>2, <1>3, <1>4

(***************************************************************************)
(* Retention is computed twice, before the deletion and, for the orphans,  *)
(* after it.  That both agree rests on the order: whoever is not among the *)
(* first of its project has enough of these before it.                     *)
(***************************************************************************)

(* Of a finite, strictly ordered set keep the elements with fewer than keep *)
(* before them: every other one has at least keep of the kept before it.    *)
LEMMA EnoughKeptBefore ==
    ASSUME NEW R, IsFiniteSet(R), NEW Before \in [R -> SUBSET R], NEW keep \in Nat,
           \A x \in R : x \notin Before[x],
           \A x \in R : \A y \in Before[x] : Before[y] \subseteq Before[x],
           NEW r \in R, ~(Cardinality(Before[r]) < keep)
    PROVE  keep <= Cardinality({k \in Before[r] : Cardinality(Before[k]) < keep})
<1>. DEFINE K == {k \in R : Cardinality(Before[k]) < keep}
            L == {k \in Before[r] : Cardinality(Before[k]) < keep}
            out == {m \in R : (m = r \/ m \in Before[r]) /\ m \notin K}
            F == {Before[m] : m \in out}
<1>1. \A x \in R : IsFiniteSet(Before[x]) /\ Cardinality(Before[x]) \in Nat
  BY FS_Subset, FS_CardinalityType
<1>2. F # {} /\ \A A \in F : A \subseteq R
  <2>1. r \in out
    OBVIOUS
  <2>2. Before[r] \in F
    BY <2>1
  <2>. QED
    BY <2>2
<1>3. PICK A \in F : \A B \in F : B \subseteq A => B = A
  <2>. HIDE DEF F
  <2>. QED
    BY <1>2, MinimalSubset
<1>4. PICK m \in out : A = Before[m]
  OBVIOUS
<1>5. Before[m] \subseteq L
  <2>. SUFFICES ASSUME NEW y \in Before[m], y \notin L PROVE FALSE
    OBVIOUS
  <2>1. y \in Before[r]
    OBVIOUS
  <2>2. y \in out
    BY <2>1
  <2>3. Before[y] \subseteq Before[m] /\ Before[y] # Before[m]
    OBVIOUS
  <2>. QED
    BY <1>3, <1>4, <2>2, <2>3
<1>6. Cardinality(Before[m]) <= Cardinality(L)
  <2>1. IsFiniteSet(L)
    <3>1. L \subseteq Before[r]
      OBVIOUS
    <3>. QED
      BY <1>1, <3>1, FS_Subset
  <2>. QED
    BY <1>5, <2>1, FS_Subset
<1>7. ~(Cardinality(Before[m]) < keep) /\ Cardinality(Before[m]) \in Nat
  BY <1>1
<1>8. Cardinality(L) \in Nat
  <2>1. L \subseteq Before[r]
    OBVIOUS
  <2>. QED
    BY <1>1, <2>1, FS_Subset, FS_CardinalityType
<1>. HIDE DEF L
<1>. QED
  BY <1>6, <1>7, <1>8 DEF L

(* The roots of a project are strictly ordered.                             *)
LEMMA OutranksOrders ==
    ASSUME NEW db, db.rows \in SUBSET Ids, db.stamp \in [Ids -> Nat]
    PROVE  /\ \A x \in db.rows : ~Outranks(db, x, x)
           /\ \A x, y, z \in db.rows :
                  Outranks(db, z, y) /\ Outranks(db, y, x) => Outranks(db, z, x)
<1>1. \A x \in db.rows : EffectiveTime(db, x) \in Nat /\ x \in Nat
  BY EffectiveTimeIsLatest, IdsAssumption
<1>. QED
  BY <1>1 DEF Outranks

(* The roots that --keep-recent keeps.                                      *)
KeptRoots(db, keep) ==
    {r \in Roots(db) : Cardinality({q \in Roots(db) : Outranks(db, q, r)}) < keep}

(* As long as the retained trees are there and no session becomes a root,   *)
(* the same roots are kept.                                                 *)
LEMMA KeptRootsOfPart ==
    ASSUME NEW db, db.rows \in SUBSET Ids, db.stamp \in [Ids -> Nat],
           NEW part, PartOf(part, db), WithParents(part, db), NEW keep \in Nat,
           Subtree(db, KeptRoots(db, keep)) \subseteq part.rows
    PROVE  KeptRoots(part, keep) = KeptRoots(db, keep)
<1>. DEFINE K == KeptRoots(db, keep)
            above(d, r) == {q \in Roots(d) : Outranks(d, q, r)}
<1>1. Roots(part) = Roots(db) \cap part.rows
  BY DEF Roots, PartOf, WithParents
<1>2. \A d : Roots(d) \subseteq d.rows
  BY DEF Roots
<1>3. part.rows \in SUBSET Ids /\ part.owner = db.owner /\ part.rows \subseteq db.rows
  BY DEF PartOf
<1>4. \A r \in db.rows : IsFiniteSet(above(db, r)) /\ Cardinality(above(db, r)) \in Nat
  BY <1>2, IdsAssumption, FS_Subset, FS_CardinalityType
<1>5. \A r \in db.rows : IsFiniteSet(above(part, r)) /\ Cardinality(above(part, r)) \in Nat
  BY <1>2, <1>3, IdsAssumption, FS_Subset, FS_CardinalityType
<1>6. \A s \in part.rows : /\ EffectiveTime(part, s) \in Nat /\ EffectiveTime(db, s) \in Nat
                           /\ EffectiveTime(part, s) <= EffectiveTime(db, s)
                           /\ s \in Nat
  BY <1>3, EffectiveTimeOfPart, IdsAssumption
<1>7. K \subseteq part.rows
  BY <1>2, SubtreeClosed DEF KeptRoots
<1>8. \A s \in K : EffectiveTime(part, s) = EffectiveTime(db, s)
  <2>. TAKE s \in K
  <2>1. Subtree(db, {s}) \subseteq Subtree(db, K)
    BY SubtreeMonotone
  <2>. QED
    BY <1>7, <2>1, EffectiveTimeOfPart
<1>9. K \subseteq KeptRoots(part, keep)
  <2>. SUFFICES ASSUME NEW r \in K PROVE r \in KeptRoots(part, keep)
    OBVIOUS
  <2>1. r \in Roots(part) /\ r \in db.rows /\ Cardinality(above(db, r)) < keep
    BY <1>1, <1>2, <1>7 DEF KeptRoots
  <2>2. above(part, r) \subseteq above(db, r)
    <3>. SUFFICES ASSUME NEW q \in Roots(part), Outranks(part, q, r) PROVE Outranks(db, q, r)
      BY <1>1
    <3>1. q \in part.rows /\ r \in part.rows
      BY <1>1, <1>7
    <3>. QED
      BY <1>3, <1>6, <1>8, <3>1 DEF Outranks
  <2>3. Cardinality(above(part, r)) <= Cardinality(above(db, r))
    BY <1>4, <2>1, <2>2, FS_Subset
  <2>4. Cardinality(above(part, r)) < keep
    BY <1>4, <1>5, <2>1, <2>3
  <2>. QED
    BY <2>1, <2>4 DEF KeptRoots
<1>10. KeptRoots(part, keep) \subseteq K
  <2>. SUFFICES ASSUME NEW r \in Roots(part), Cardinality(above(part, r)) < keep, r \notin K
                PROVE  FALSE
    BY DEF KeptRoots
  <2>1. r \in Roots(db) /\ r \in db.rows /\ r \in part.rows
    BY <1>1, <1>2
  <2>2. ~(Cardinality(above(db, r)) < keep)
    BY <2>1 DEF KeptRoots
  <2>. DEFINE Before == [x \in Roots(db) |-> above(db, x)]
              L == {k \in Before[r] : Cardinality(Before[k]) < keep}
  <2>3. keep <= Cardinality(L)
    <3>1. IsFiniteSet(Roots(db))
      BY <1>2, IdsAssumption, FS_Subset
    <3>2. Before \in [Roots(db) -> SUBSET Roots(db)]
      OBVIOUS
    <3>3. /\ \A x \in Roots(db) : x \notin Before[x]
          /\ \A x \in Roots(db) : \A y \in Before[x] : Before[y] \subseteq Before[x]
      BY <1>2, OutranksOrders
    <3>4. ~(Cardinality(Before[r]) < keep)
      BY <2>1, <2>2
    <3>. HIDE DEF Before
    <3>. QED
      BY <2>1, <3>1, <3>2, <3>3, <3>4, EnoughKeptBefore
  <2>4. L \subseteq above(part, r)
    <3>. SUFFICES ASSUME NEW k \in L PROVE k \in above(part, r)
      OBVIOUS
    <3>1. k \in K /\ Outranks(db, k, r)
      BY <2>1 DEF KeptRoots
    <3>2. k \in Roots(part) /\ k \in part.rows
      BY <1>1, <1>7, <3>1 DEF KeptRoots
    <3>. QED
      BY <1>3, <1>6, <1>8, <2>1, <3>1, <3>2 DEF Outranks
  <2>5. Cardinality(L) <= Cardinality(above(part, r)) /\ Cardinality(L) \in Nat
    BY <1>5, <2>1, <2>4, FS_Subset, FS_CardinalityType
  <2>. HIDE DEF L
  <2>. QED
    BY <1>5, <2>1, <2>3, <2>5
<1>. QED
  BY <1>9, <1>10

(* The retention set is the same before and after the deletion.             *)
LEMMA RetainedOfPart ==
    ASSUME NEW db, db.rows \in SUBSET Ids, db.stamp \in [Ids -> Nat],
           NEW part, PartOf(part, db), WithParents(part, db), NEW keep \in Nat,
           Retained(db, keep) \subseteq part.rows
    PROVE  Retained(part, keep) = Retained(db, keep)
<1>1. CASE keep = 0
  BY <1>1 DEF Retained
<1>2. CASE keep # 0
  <2>1. \A d : Retained(d, keep) = Subtree(d, KeptRoots(d, keep))
    BY <1>2 DEF Retained, KeptRoots
  <2>2. Subtree(db, KeptRoots(db, keep)) \subseteq part.rows
    BY <2>1
  <2>3. KeptRoots(part, keep) = KeptRoots(db, keep)
    BY <2>2, KeptRootsOfPart
  <2>. QED
    BY <2>1, <2>2, <2>3, SubtreeOfPart
<1>. QED
  BY <1>1, <1>2
=============================================================================
