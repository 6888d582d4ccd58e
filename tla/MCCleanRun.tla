------------------------------ MODULE MCCleanRun ------------------------------
(***************************************************************************)
(* The instances of CleanRun.  Session 4 has no row: it is the missing     *)
(* parent of a dangling session, and has left a file and events behind.    *)
(***************************************************************************)
EXTENDS CleanRun

CONSTANTS p, q, r   \* projects; r has no row, only a snapshot

Live == {1, 2, 3}

Some(parent, owner, stamp, projects) ==
    [rows |-> Live, parent |-> parent, owner |-> owner, stamp |-> stamp,
     projects |-> projects, events |-> Ids, files |-> Ids, snapshots |-> Projects]

Parents == {f \in [Ids -> Ids \cup {NoParent}] :
              f[4] = NoParent /\ \A s \in Live : f[s] # s}
Stamps == {[s \in Ids |-> IF s = young THEN 1 ELSE 0] : young \in Ids}
Owners == {[s \in Ids |-> IF s = 3 THEN last ELSE p] : last \in {p, q}}

(* Every forest of three sessions, dangling ones and cycles included.       *)
AllDatabases ==
    {Some(f, o, t, {p, q}) : f \in Parents, o \in Owners, t \in Stamps}

Selectors ==
    {[matches |-> S, aged |-> FALSE] : S \in SUBSET Live}
      \cup {[matches |-> Live, aged |-> TRUE]}

Plain(s, keep, orphans, prune) ==
    [matches |-> s.matches, aged |-> s.aged, keep |-> keep, orphans |-> orphans,
     prune |-> prune, gc |-> FALSE, dryRun |-> FALSE, vacuum |-> "none"]

AllSelections ==
    {Plain(s, keep, orphans, prune) :
       s \in Selectors, keep \in {0, 1, 2}, orphans \in BOOLEAN, prune \in BOOLEAN}

-----------------------------------------------------------------------------
(* Few databases for the runs with signals, faults and restarts: a dangling *)
(* chain, a tree in the order of its ids and one against it, a cycle, and a *)
(* session whose project has no row.                                        *)
Chain(a, b, c) == [s \in Ids |-> CASE s = 1 -> a [] s = 2 -> b [] s = 3 -> c [] OTHER -> NoParent]
Mixed == [s \in Ids |-> IF s = 3 THEN q ELSE p]
Even  == [s \in Ids |-> 0]

Tree       == Some(Chain(NoParent, 1, 2), Mixed, Even, {p, q})
FewDatabases ==
    {Some(Chain(4, 1, NoParent), Mixed, Even, {p, q}),
     Tree,
     Some(Chain(3, 3, NoParent), Mixed, Even, {p, q}),
     Some(Chain(2, 1, NoParent), Mixed, Even, {p, q}),
     Some(Chain(NoParent, NoParent, NoParent), Mixed, Even, {p})}

Command(S, keep, gc, dry, vacuum) ==
    [matches |-> S, aged |-> FALSE, keep |-> keep, orphans |-> TRUE, prune |-> FALSE,
     gc |-> gc, dryRun |-> dry, vacuum |-> vacuum]

AnyReclaim ==
    {Command(S, 0, FALSE, FALSE, v) :
        S \in {{1}, {3}}, v \in {"none", "incremental", "full"}}
      \cup {Command({1, 3}, 1, TRUE, FALSE, "none"), Command({1}, 0, FALSE, TRUE, "none"),
            [Command({3}, 0, FALSE, FALSE, "full") EXCEPT !.orphans = FALSE],
            [Command({3}, 0, FALSE, FALSE, "none") EXCEPT !.orphans = FALSE]}

DanglingChain == {Some(Chain(4, 1, NoParent), Mixed, Even, {p, q})}
OrphansOnly   == {Command({}, 0, FALSE, FALSE, "none")}

(* Trees of sessions of different ages, for --older-than run twice.         *)
AgedDatabases == {Some(f, Mixed, t, {p, q}) :
                    f \in {g \in Parents : \A s \in Live : g[s] # 4}, t \in Stamps}
AgedCommands  == {Plain([matches |-> Live, aged |-> TRUE], keep, orphans, FALSE) :
                    keep \in {0, 1}, orphans \in BOOLEAN}

=============================================================================
