----------------------------- MODULE Migration -----------------------------
(***************************************************************************)
(* Creation and upgrade of a database: a driver (Buildpgdb4wsp.bat for a   *)
(* workspace, Buildpgdb4Lic.bat for the license database) looks whether    *)
(* the database is there, creates it by script 1 if it is not, and then    *)
(* runs, in order, each upgrade script whose number is above the version   *)
(* recorded in system_info.  psql runs a script without stopping at        *)
(* errors, and every statement commits by itself.                          *)
(*                                                                         *)
(* Scripts are numbered in their order, and number s stands for the        *)
(* version that script s records.  A statement is in effect once it has    *)
(* been executed without error.  Helpers that belong to one upgrade (step1 *)
(* to step5, uuid-ossp.sql) are statements of it; the data scripts that    *)
(* every run reloads at the end are left out.                              *)
(***************************************************************************)
EXTENDS Integers, FiniteSets

CONSTANTS
    Last,       \* number of the last script
    Plans,      \* what there is to install: the workspace and the license database
    MaxTimes,   \* bound: executions of a statement that are counted
    MaxFaults   \* bound: crashes, broken connections, errors, failed reads

Scripts == 1 .. Last

\* The scripts of a database and the habits of its driver.
Plan ==
    [len        : [Scripts -> Nat \ {0}],   \* statements of a script
     recordAt   : [Scripts -> Nat],         \* the statement that records; 0: none
     insertsRow : [Scripts -> BOOLEAN],     \* it inserts the row, or updates it
     rereads    : BOOLEAN,                  \* reads the version before each script
     jumpTo     : 0 .. Last]                \* "goto spUpdate": a script; 0: no jump

ASSUME PlansAssumption ==
    /\ Last \in Nat \ {0}
    /\ Plans \subseteq Plan
    /\ MaxTimes \in Nat \ {0}
    /\ MaxFaults \in Nat

\* The row of system_info comes from script 1, or from script 2, which nothing jumps
\* over; the last script records itself.
ASSUME RecordingAssumption == \A p \in Plans :
    /\ p.recordAt[Last] \in 1 .. p.len[Last]
    /\ \/ p.recordAt[1] \in 1 .. p.len[1] /\ p.insertsRow[1]
       \/ /\ Last > 1 /\ p.jumpTo = 0
          /\ p.recordAt[2] \in 1 .. p.len[2] /\ p.insertsRow[2]

VARIABLES
    \* the database
    plan,      \* which one is installed; it never changes
    times,     \* [Statements -> 0 .. MaxTimes]: executions without error
    version,   \* version or ver of system_info; 0: no row
    \* the driver
    pc,        \* "off", "read", "decide", "run" or "done"
    cur,       \* the script it has come to
    at,        \* the statement psql has come to
    dbver,     \* the version it knows; -1: the variable has never been set
    old,       \* it found the database
    \* history
    missed,    \* statements that ended in an error
    left,      \* scripts that psql left unfinished and that are not run again
    jumped,    \* scripts that were jumped over
    unread,    \* a reading of the version has failed in this run
    clean,     \* nothing has gone wrong in this run
    faults     \* number of things that went wrong

Len == plan.len
RecordAt == plan.recordAt
InsertsRow == plan.insertsRow
Rereads == plan.rereads
JumpTo == plan.jumpTo

Statements == UNION {{<<s, k>> : k \in 1 .. Len[s]} : s \in Scripts}

database == <<plan, times, version>>
driver   == <<pc, cur, at, dbver, old>>
history  == <<missed, left, jumped, unread, clean, faults>>
vars     == <<database, driver, history>>

Flags == old \in BOOLEAN /\ unread \in BOOLEAN /\ clean \in BOOLEAN

TypeOK ==
    /\ Flags
    /\ plan \in Plans
    /\ times \in [Statements -> 0 .. MaxTimes]
    /\ version \in 0 .. Last
    /\ pc \in {"off", "read", "decide", "run", "done"}
    /\ cur \in 1 .. (Last + 1)
    /\ at \in Nat \ {0}
    /\ dbver \in -1 .. Last
    /\ missed \in SUBSET Statements
    /\ left \in SUBSET Scripts
    /\ jumped \in SUBSET Scripts
    /\ faults \in Nat

\* No database yet, and nobody installs.
Init ==
    /\ plan \in Plans
    /\ times = [st \in Statements |-> 0]
    /\ version = 0
    /\ pc = "off"
    /\ cur = 1
    /\ at = 1
    /\ dbver = -1
    /\ old = FALSE
    /\ missed = {}
    /\ left = {}
    /\ jumped = {}
    /\ unread = FALSE
    /\ clean = TRUE
    /\ faults = 0

\* CREATE DATABASE is the first statement of script 1.
Created == <<1, 1>>
Exists == times[Created] > 0

Fault == faults < MaxFaults /\ faults' = faults + 1 /\ clean' = FALSE

-----------------------------------------------------------------------------
(* The driver *)

\* Before it has a script to run, the driver reads the version, or decides by
\* the one it knows.
NextScript(s) ==
    /\ cur' = s
    /\ at' = 1
    /\ pc' = IF Rereads /\ s <= Last THEN "read" ELSE "decide"

\* Findpgdb.sql: create the database, or upgrade it.  Only the path of the
\* workspace driver that finds the database sets dbver before the version is read.
Start ==
    /\ pc \in {"off", "done"}
    /\ old' = Exists
    /\ dbver' = IF Rereads /\ ~Exists THEN -1 ELSE 0
    /\ cur' = IF Exists THEN 2 ELSE 1
    /\ at' = 1
    /\ pc' = IF Exists THEN "read" ELSE "run"
    /\ unread' = FALSE
    /\ clean' = TRUE
    /\ UNCHANGED <<database, missed, left, jumped, faults>>

\* GetDBVersion, or findtable.sql and getver.sql: without a row dbver stays as it is.
ReadVersion ==
    /\ pc = "read"
    /\ dbver' = IF version = 0 THEN dbver ELSE version
    /\ pc' = "decide"
    /\ UNCHANGED <<database, cur, at, old, history>>

\* psql cannot read the version.  The workspace driver goes on with what it knew;
\* the other one exits.
ReadFails ==
    /\ pc = "read"
    /\ Fault
    /\ unread' = TRUE
    /\ pc' = IF Rereads THEN "decide" ELSE "off"
    /\ UNCHANGED <<database, cur, at, dbver, old, missed, left, jumped>>

\* MUTANT of Needed: "LEQ" for "LSS".
NeededAgain == cur <= Last /\ dbver <= cur

\* "if %dbver% LSS 500 (": run the script.
Needed == cur <= Last /\ dbver < cur

RunScript ==
    /\ pc = "decide"
    /\ dbver >= 0
    /\ Needed
    /\ pc' = "run"
    /\ UNCHANGED <<database, cur, at, dbver, old, history>>

SkipScript ==
    /\ pc = "decide"
    /\ dbver >= 0
    /\ cur <= Last
    /\ ~Needed
    /\ NextScript(cur + 1)
    /\ UNCHANGED <<database, dbver, old, history>>

\* "if  LSS 420": an empty %dbver% is a syntax error, which ends the driver.
Quit ==
    /\ pc = "decide"
    /\ dbver < 0
    /\ pc' = "off"
    /\ UNCHANGED <<database, cur, at, dbver, old, history>>

\* The driver ends if the database nbws is there and CLIC.xml is not.
NoLicence ==
    /\ pc = "decide"
    /\ old
    /\ JumpTo # 0
    /\ cur = 2
    /\ Fault
    /\ pc' = "off"
    /\ UNCHANGED <<database, cur, at, dbver, old, missed, left, jumped, unread>>

\* MUTANT of Jump: the label stands behind the script that is to be run next.
JumpsTooFar ==
    /\ pc = "decide"
    /\ old
    /\ JumpTo > 2
    /\ cur = 2
    /\ jumped' = jumped \union 2 .. JumpTo - 1
    /\ NextScript(JumpTo + 1)
    /\ UNCHANGED <<database, dbver, old, missed, left, unread, clean, faults>>

\* "if %ES_ver% GTR 413 goto spUpdate", after the first reading of the version.
Jump ==
    /\ pc = "decide"
    /\ old
    /\ JumpTo > 2
    /\ cur = 2
    /\ jumped' = jumped \union 2 .. JumpTo - 1
    /\ NextScript(JumpTo)
    /\ UNCHANGED <<database, dbver, old, missed, left, unread, clean, faults>>

Finish ==
    /\ pc = "decide"
    /\ dbver >= 0
    /\ cur = Last + 1
    /\ pc' = "done"
    /\ UNCHANGED <<database, cur, at, dbver, old, history>>

-----------------------------------------------------------------------------
(* psql *)

More(n) == IF n < MaxTimes THEN n + 1 ELSE n

\* MUTANT of Recorded: the upgrades do not record themselves.
RecordedByInsert == IF at = RecordAt[cur] /\ InsertsRow[cur] THEN cur ELSE version

\* "insert into system_info" makes the row, "update system_info" needs one.
Recorded ==
    IF at = RecordAt[cur] /\ (InsertsRow[cur] \/ version > 0) THEN cur ELSE version

\* Nothing takes effect in a database that could not be created.
Effective == Exists \/ (cur = 1 /\ at = 1)

Execute ==
    /\ pc = "run"
    /\ at <= Len[cur]
    /\ Effective
    /\ times' = [times EXCEPT ![<<cur, at>>] = More(@)]
    /\ version' = Recorded
    /\ at' = at + 1
    /\ UNCHANGED <<plan, pc, cur, dbver, old, history>>

\* An error: psql goes on with the next statement.
StatementFails ==
    /\ pc = "run"
    /\ at <= Len[cur]
    /\ IF Effective THEN Fault ELSE UNCHANGED <<clean, faults>>
    /\ missed' = missed \union {<<cur, at>>}
    /\ at' = at + 1
    /\ UNCHANGED <<database, pc, cur, dbver, old, left, jumped, unread>>

\* MUTANT of ScriptEnds: psql's exit is taken for the end of the whole upgrade.
StopsEarly ==
    /\ pc = "run"
    /\ at > Len[cur]
    /\ pc' = "done"
    /\ UNCHANGED <<database, cur, at, dbver, old, history>>

\* MUTANT of ScriptEnds: the label behind a script is that of the script after the next.
ScriptEndsPastNext ==
    /\ pc = "run"
    /\ at > Len[cur]
    /\ NextScript(IF cur < Last THEN cur + 2 ELSE cur + 1)
    /\ UNCHANGED <<database, dbver, old, history>>

ScriptEnds ==
    /\ pc = "run"
    /\ at > Len[cur]
    /\ NextScript(cur + 1)
    /\ UNCHANGED <<database, dbver, old, history>>

\* psql ends before the script does: its connection is lost, or it is killed.
\* Only the creation of the license database looks at its exit code.
PsqlBreaks ==
    /\ pc = "run"
    /\ Fault
    /\ left' = left \union {cur}
    /\ IF cur = 1 /\ ~Rereads
       THEN pc' = "off" /\ UNCHANGED <<cur, at>>
       ELSE NextScript(cur + 1)
    /\ UNCHANGED <<database, dbver, old, missed, jumped, unread>>

\* A later run will not come back to the script: its version is recorded, or it
\* has created the database.
NotResumed == version >= cur \/ (cur = 1 /\ Exists)

\* The machine, or the installation, is stopped.
Crash ==
    /\ pc \notin {"off", "done"}
    /\ Fault
    /\ left' = IF pc = "run" /\ NotResumed THEN left \union {cur} ELSE left
    /\ pc' = "off"
    /\ UNCHANGED <<database, cur, at, dbver, old, missed, jumped, unread>>

Step ==
    \/ ReadVersion \/ RunScript \/ SkipScript \/ Quit \/ Jump \/ Finish
    \/ Execute \/ ScriptEnds \/ (~Effective /\ StatementFails)

Next == Start \/ Step \/ ReadFails \/ NoLicence \/ StatementFails \/ PsqlBreaks \/ Crash

Spec == Init /\ [][Next]_vars

\* A driver that has been started goes on, and an installation is tried again.
FairSpec == Spec /\ WF_vars(Step) /\ WF_vars(Start)

-----------------------------------------------------------------------------
(* Properties *)

\* A statement of script s is in effect, or there is a reason why it is not: it
\* ended in an error, psql left the script, or the driver jumped over it.
InEffect(s, k) ==
    times[<<s, k>>] > 0 \/ <<s, k>> \in missed \/ s \in left \/ s \in jumped

\* A recorded version means that every script up to it has run, wherever and how
\* often the upgrade was interrupted; only errors that psql passes over, a psql
\* that ended early, an interruption after the script had recorded itself, and
\* the jump over the scripts before spUpdate leave one incomplete.
RecordedMeansDone ==
    \A s \in Scripts : s <= version =>
        \A k \in 1 .. Len[s] : InEffect(s, k) \/ (pc = "run" /\ cur = s /\ k >= at)

\* The parts of the inductive invariant that RecordedMeansDone and NotRedone need.

Done(s) == \A k \in 1 .. Len[s] : InEffect(s, k)

\* The script that psql runs is in effect as far as psql has come.
RunAsFar ==
    pc = "run" =>
        /\ cur <= Last /\ at <= Len[cur] + 1 /\ dbver < cur
        /\ \A k \in 1 .. at - 1 : InEffect(cur, k)

\* A database that is there has been created to the end, but for the reasons of
\* InEffect; only a database that is there has a version.
CreatedToTheEnd ==
    /\ Exists => Done(1) \/ (pc = "run" /\ cur = 1)
    /\ version > 0 => Exists

\* The driver comes to a script only when those before it are in effect.
InOrder ==
    /\ pc \in {"read", "decide", "run"} => \A s \in 1 .. cur - 1 : Done(s)
    /\ pc \in {"read", "decide"} => cur > 1 /\ at = 1

\* What the driver takes for the version is not above the one recorded, and is
\* that one, or both are below the script, when the last reading succeeded.
VersionKnown ==
    /\ pc \in {"read", "decide", "run"} => dbver <= version
    /\ ~unread /\ pc = "decide" => version = dbver \/ version < cur
    /\ ~unread /\ pc = "run" => version <= cur

IInv ==
    /\ TypeOK /\ RunAsFar /\ CreatedToTheEnd /\ InOrder /\ VersionKnown
    /\ RecordedMeansDone

\* A script whose version is recorded is not started again, unless the driver
\* could not read the version.
NotRedone == [][RunScript => cur > version \/ unread]_vars

\* A run in which nothing goes wrong, whatever earlier runs left behind, ends with
\* the last version recorded, unless the database was created without the row.
CleanRunUpgrades ==
    pc = "done" /\ clean =>
        \/ version = Last
        \/ version = 0 /\ \/ 1 \in left
                          \/ \E k \in 1 .. Len[1] : <<1, k>> \in missed

\* If installations are tried again, the database is at the last version in the
\* end, and stays there, unless it has no row in which to record it.
UpgradedInTheEnd == <>[](version = Last \/ version = 0)

=============================================================================
