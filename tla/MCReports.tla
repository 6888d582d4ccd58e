------------------------------ MODULE MCReports ------------------------------
(* Values for model checking Reports: a chain of three sessions, a dangling *)
(* session beside a root and a cycle, with files and snapshots of owners    *)
(* that exist and of owners that do not.                                    *)
EXTENDS Reports

Db(rows, first, second, third, present) ==
    [rows |-> rows, parent |-> <<first, second, third>>, owner |-> <<"p", "p", "q">>,
     stamp |-> <<10, 20, 40>>, projects |-> present]

MCDatabases ==
    {Db({1, 2, 3}, NoParent, 1, 2, {"p", "q"}),
     Db({1, 3}, NoParent, NoParent, 2, {"p", "q"}),
     Db({1, 2}, 2, 1, NoParent, {"p"})}

MCLayouts == {[files |-> {1, 2}, snapshots |-> {"p", "q"}, full |-> {"q"}]}

MCCommands ==
    {[name |-> n, force |-> FALSE, dbstat |-> TRUE, octetLength |-> TRUE] :
        n \in {"standard", "detailed", "doctor"}}
    \cup {[name |-> "detailed", force |-> TRUE, dbstat |-> FALSE, octetLength |-> FALSE]}

MCSchemas == {{}, {"more_tables", "no_column"}, {"trigger_on_target", "foreign_key_to_another"}}

MCBytes == <<2, 1, 2>>
MCBoundaries == <<30, 15>>
=============================================================================
