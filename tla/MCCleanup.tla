------------------------------ MODULE MCCleanup ------------------------------
(* Values for model checking Cleanup: a bucket with the files of a live     *)
(* session and of one that this run deleted, or that was deleted long ago,  *)
(* and the snapshots of a live, a pruned and a forgotten project.  The same *)
(* few names serve as sessions, projects, repositories and files; the       *)
(* outside has entries of those names.                                      *)
EXTENDS Cleanup

MCDirs  == {"storage", "snapshot", "outside", "elsewhere", "bucket",
            "live", "liverepo", "pruned", "prunedrepo", "forgotten"}
MCOrder == <<"a", "b", "c">>    \* of a live, of a deleted, of a forgotten owner

Has(a, b, c) == [n \in ToSet(MCOrder) |-> CASE n = "a" -> a [] n = "b" -> b [] n = "c" -> c]

Tree(bucket, snapshot) == [d \in MCDirs |->
    CASE d = "storage"    -> Has("none", "bucket", "none")
      [] d = "bucket"     -> bucket
      [] d = "snapshot"   -> snapshot
      [] d = "live"       -> Has("liverepo", "none", "none")
      [] d = "pruned"     -> Has("none", "prunedrepo", "none")
      [] d = "prunedrepo" -> Has("file", "none", "none")
      [] d = "outside"    -> Has("file", "file", "link")
      [] OTHER            -> Has("none", "none", "none")]

MCTrees == {Tree(Has("file", "file", "none"), Has("live", "pruned", "none")),
            Tree(Has("file", "none", "file"), Has("none", "pruned", "forgotten"))}

(* The two roots in runs of their own: no step on one reads the other.      *)
MCRoots == {{"storage"}, {"snapshot"}}

MCCommands == {[orphans |-> FALSE, gc |-> TRUE], [orphans |-> TRUE, gc |-> FALSE]}
=============================================================================
