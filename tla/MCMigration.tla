---------------------------- MODULE MCMigration ----------------------------
(* Instances of Migration for TLC: the workspace database, created at version *)
(* 418 by a script that records itself before its end, with three upgrades,   *)
(* and the license database, whose first upgrade creates system_info.         *)
EXTENDS Migration

Workspace ==
    [len |-> <<3, 2, 1, 2>>, recordAt |-> <<2, 2, 1, 2>>,
     insertsRow |-> <<TRUE, FALSE, FALSE, FALSE>>, rereads |-> TRUE, jumpTo |-> 4]

License ==
    [len |-> <<2, 3, 1, 2>>, recordAt |-> <<0, 2, 1, 2>>,
     insertsRow |-> <<FALSE, TRUE, FALSE, FALSE>>, rereads |-> FALSE, jumpTo |-> 0]

MCPlans == {Workspace, License}

=============================================================================
