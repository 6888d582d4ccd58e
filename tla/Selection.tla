------------------------------- MODULE Selection -------------------------------
(***************************************************************************)
(* Which sessions a clean deletes: select/*.rs and clean/selection.rs for  *)
(* the applied run, report/impact.rs for the preview the operator confirms. *)
(*                                                                         *)
(* A database is a record: rows (session ids present), parent, owner and   *)
(* stamp of each session, projects.  The recursive queries are given by    *)
(* what they compute, the least set of rows closed under "child of".       *)
(* Ids are numbers, ordered like the ids SQLite sorts.  The predicates of  *)
(* the command line are the set of sessions they select together.          *)
(***************************************************************************)
EXTENDS FiniteSetsExt

CONSTANTS
    Ids,        \* session ids
    Projects,   \* project ids
    NoParent    \* session.parent_id IS NULL

(* A table has finitely many rows.                                          *)
ASSUME IdsAssumption == Ids \subseteq Nat /\ IsFiniteSet(Ids) /\ NoParent \notin Ids

Database ==
    [rows : SUBSET Ids, parent : [Ids -> Ids \cup {NoParent}],
     owner : [Ids -> Projects], stamp : [Ids -> Nat], projects : SUBSET Projects]

-----------------------------------------------------------------------------
(* Trees                                                                    *)

ClosedUnderChildren(db, C) == \A s \in db.rows : db.parent[s] \in C => s \in C

(* Mutant: only one level of children.                                      *)
SubtreeOneLevel(db, S) == {x \in db.rows : x \in S \/ db.parent[x] \in S}

(* subtree::expand: the sessions and all their descendants.                 *)
Subtree(db, S) ==
    {x \in db.rows : \A C \in SUBSET db.rows :
        S \cap db.rows \subseteq C /\ ClosedUnderChildren(db, C) => x \in C}

(* The cycle marker of the recursive queries, which refuse such a database.  *)
HasCycle(db) ==
    \E C \in SUBSET db.rows : C # {} /\ \A s \in C : db.parent[s] \in C

(* Sessions whose parent is null or missing.                                *)
Roots(db) == {s \in db.rows : db.parent[s] \notin db.rows}

(* dangling_session_ids: the missing-parent sessions and what they take along. *)
Dangling(db) == Subtree(db, {s \in Roots(db) : db.parent[s] # NoParent})

-----------------------------------------------------------------------------
(* Retention and age                                                        *)

EffectiveTime(db, s) == Max({db.stamp[x] : x \in Subtree(db, {s})})

(* The order in which retention::compute counts the roots of a project.     *)
Outranks(db, q, r) ==
    /\ db.owner[q] = db.owner[r]
    /\ LET tq == EffectiveTime(db, q)
           tr == EffectiveTime(db, r)
       IN  tq > tr \/ (tq = tr /\ q > r)

(* The --keep-recent trees of every project.                                *)
Retained(db, keep) ==
    LET kept(r) == Cardinality({q \in Roots(db) : Outranks(db, q, r)}) < keep
    IN  IF keep = 0 THEN {} ELSE Subtree(db, {r \in Roots(db) : kept(r)})

(* Mutant: the age of the session alone.                                    *)
OlderThanItself(db, boundary) == {s \in db.rows : db.stamp[s] <= boundary}

(* --older-than: nothing in the whole subtree was touched since.            *)
OlderThan(db, boundary) == {s \in db.rows : EffectiveTime(db, s) <= boundary}

-----------------------------------------------------------------------------
(* What is deleted, and what is shown before                                *)

(* predicate_candidates, then expand_candidates.                            *)
Selected(db, matches, kept) == Subtree(db, matches \ kept) \ kept

(* selection_roots of the preview.                                          *)
PreviewRoots(db, matches) == {s \in matches \cap db.rows : db.parent[s] \notin matches}

(* plan_selection: retention is applied to the roots only, not to every     *)
(* predicate's result; orphans are added as they are before the deletion.   *)
PreviewSessions(db, matches, kept, orphans) ==
    (Subtree(db, PreviewRoots(db, matches) \ kept) \ kept)
      \cup (IF orphans THEN Dangling(db) \ kept ELSE {})

(* Mutant: only projects that still own a session.                          *)
PreviewProjectsOwning(db, sessions, pruneEmpty) ==
    LET members(p) == {s \in db.rows : db.owner[s] = p}
    IN  {p \in Projects : members(p) # {} /\ members(p) \subseteq sessions}

(* projects_emptied_by                                                      *)
PreviewProjects(db, sessions, pruneEmpty) ==
    LET members(p) == {s \in db.rows : db.owner[s] = p}
    IN  {p \in Projects : /\ members(p) \subseteq sessions
                          /\ members(p) # {} \/ (pruneEmpty /\ p \in db.projects)}

(* One transaction of TempIdBatcher: the lowest ids still to be purged.     *)
LowestIds(S, n) == {x \in S : Cardinality({y \in S : y < x}) < n}

=============================================================================
