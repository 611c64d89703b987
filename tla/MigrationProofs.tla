-------------------------- MODULE MigrationProofs --------------------------
(***************************************************************************)
(* Proofs about Migration, for any scripts, either driver and any number   *)
(* of faults: a recorded version means that all scripts up to it have run  *)
(* (RecordedMeansDone), no script is run again whose version is recorded,  *)
(* unless the version could not be read (NotRedone), and a run in which    *)
(* nothing goes wrong upgrades the database (CleanRunUpgrades).            *)
(*                                                                         *)
(* What has been in effect stays so: the reasons of InEffect only grow.    *)
(***************************************************************************)
EXTENDS Migration, TLAPS

-----------------------------------------------------------------------------
(* Lemmas about the plan and the statements of its scripts *)

LEMMA PlanType ==
    ASSUME plan \in Plans
    PROVE  /\ Len \in [Scripts -> Nat \ {0}]
           /\ RecordAt \in [Scripts -> Nat]
           /\ InsertsRow \in [Scripts -> BOOLEAN]
           /\ Rereads \in BOOLEAN
           /\ JumpTo \in 0 .. Last
BY PlansAssumption DEF Plan, Len, RecordAt, InsertsRow, Rereads, JumpTo

\* Each statement of a script is one of Statements, and CREATE DATABASE is one.
LEMMA StatementsOf ==
    ASSUME plan \in Plans
    PROVE  /\ \A s \in Scripts : \A k \in 1 .. Len[s] : <<s, k>> \in Statements
           /\ Created \in Statements
           /\ 1 \in Scripts /\ 1 <= Len[1]
<1>1. \A s \in Scripts : \A k \in 1 .. Len[s] : <<s, k>> \in Statements BY DEF Statements
<1>2. 1 \in Scripts BY PlansAssumption DEF Scripts
<1>3. Len[1] \in Nat /\ 1 <= Len[1] BY <1>2, PlanType
<1> QED BY <1>1, <1>2, <1>3 DEF Created

\* Executions that are counted are never forgotten.
LEMMA MoreIsPositive ==
    ASSUME NEW n \in 0 .. MaxTimes PROVE More(n) \in 1 .. MaxTimes
BY PlansAssumption DEF More

-----------------------------------------------------------------------------
(* What has been in effect stays so *)

\* The plan stays, and nothing that was in effect, or excused, is lost.
Grows ==
    /\ plan' = plan
    /\ \A st \in Statements : times[st] > 0 => times'[st] > 0
    /\ missed \subseteq missed'
    /\ left \subseteq left'
    /\ jumped \subseteq jumped'

LEMMA LenStays == ASSUME plan' = plan PROVE Len' = Len /\ Statements' = Statements
BY DEF Len, Statements

LEMMA InEffectStays ==
    ASSUME Grows, NEW s \in Scripts, NEW k \in 1 .. Len[s], InEffect(s, k)
    PROVE  InEffect(s, k)'
<1>1. <<s, k>> \in Statements BY DEF Statements
<1> QED BY <1>1 DEF InEffect, Grows

LEMMA DoneStays == ASSUME Grows, NEW s \in Scripts, Done(s) PROVE Done(s)'
BY InEffectStays, LenStays DEF Done, Grows

\* Every step is one of the actions, or changes nothing.
LEMMA Actions ==
    ASSUME [Next]_vars
    PROVE  \/ Start \/ ReadVersion \/ ReadFails \/ RunScript \/ SkipScript \/ Quit
           \/ NoLicence \/ Jump \/ Finish \/ Execute \/ StatementFails \/ ScriptEnds
           \/ PsqlBreaks \/ Crash \/ UNCHANGED vars
BY DEF Next, Step

\* The statement that psql has come to belongs to the plan.
LEMMA Coming ==
    ASSUME TypeOK, RunAsFar, pc = "run"
    PROVE  /\ cur \in Scripts /\ Len[cur] \in Nat
           /\ at \in Nat /\ 1 <= at
           /\ at <= Len[cur] => at \in 1 .. Len[cur] /\ <<cur, at>> \in Statements
<1>1. cur \in Scripts BY DEF TypeOK, RunAsFar, Scripts
<1>2. Len[cur] \in Nat BY <1>1, PlanType DEF TypeOK
<1>3. at \in Nat /\ 1 <= at BY DEF TypeOK
<1> QED BY <1>1, <1>2, <1>3, StatementsOf DEF TypeOK

LEMMA Growing == ASSUME TypeOK, RunAsFar, [Next]_vars PROVE Grows
<1>1. CASE Execute
  <2>1. <<cur, at>> \in Statements BY <1>1, Coming DEF Execute
  <2>2. times[<<cur, at>>] \in 0 .. MaxTimes BY <2>1 DEF TypeOK
  <2>3. More(times[<<cur, at>>]) > 0 BY <2>2, MoreIsPositive
  <2>4. \A st \in Statements : times[st] > 0 => times'[st] > 0
        BY <1>1, <2>1, <2>3 DEF Execute, TypeOK
  <2> QED BY <1>1, <2>4 DEF Execute, Grows, history
<1>2. CASE StatementFails BY <1>2 DEF StatementFails, Grows, database
<1>3. CASE Jump BY <1>3 DEF Jump, Grows, database
<1>4. CASE PsqlBreaks BY <1>4 DEF PsqlBreaks, Grows, database
<1>5. CASE Crash BY <1>5 DEF Crash, Grows, database
<1>6. CASE Start \/ ReadVersion \/ ReadFails \/ RunScript \/ SkipScript \/ Quit \/ NoLicence
           \/ Finish \/ ScriptEnds
      BY <1>6 DEF Start, ReadVersion, ReadFails, RunScript, SkipScript, Quit, NoLicence,
                  Finish, ScriptEnds, Grows, database, history
<1>7. CASE UNCHANGED vars BY <1>7 DEF vars, database, history, Grows
<1> QED BY <1>1, <1>2, <1>3, <1>4, <1>5, <1>6, <1>7, Actions

-----------------------------------------------------------------------------
(* Types *)

LEMMA InitType == Init => TypeOK
<1>1. Init => Flags BY DEF Init, Flags
<1> QED BY <1>1, PlansAssumption DEF Init, TypeOK

LEMMA NextFlags == ASSUME Flags, [Next]_vars PROVE Flags'
<1>1. CASE Start
  <2>1. Exists \in BOOLEAN BY DEF Exists
  <2> QED BY <1>1, <2>1 DEF Start, Flags
<1>2. CASE ReadFails BY <1>2 DEF ReadFails, Flags, Fault
<1>3. CASE NoLicence BY <1>3 DEF NoLicence, Flags, Fault
<1>4. CASE StatementFails BY <1>4 DEF StatementFails, Flags, Fault
<1>5. CASE PsqlBreaks BY <1>5 DEF PsqlBreaks, Flags, Fault
<1>6. CASE Crash BY <1>6 DEF Crash, Flags, Fault
<1>7. CASE ReadVersion \/ RunScript \/ SkipScript \/ Quit \/ Jump \/ Finish \/ Execute
           \/ ScriptEnds \/ UNCHANGED vars
  <2>1. old' = old /\ unread' = unread /\ clean' = clean
        BY <1>7 DEF ReadVersion, RunScript, SkipScript, Quit, Jump, Finish, Execute, ScriptEnds,
                    history, driver, vars
  <2> QED BY <2>1 DEF Flags
<1> QED BY <1>1, <1>2, <1>3, <1>4, <1>5, <1>6, <1>7, Actions

LEMMA NextType == ASSUME TypeOK, RunAsFar, InOrder, [Next]_vars PROVE TypeOK'
<1> USE PlansAssumption
<1>0. plan' = plan /\ Statements' = Statements /\ Flags'
      BY Growing, LenStays, NextFlags DEF Grows, TypeOK
<1>1. CASE Start BY <1>0, <1>1 DEF Start, TypeOK, database
<1>2. CASE ReadVersion BY <1>0, <1>2 DEF ReadVersion, TypeOK, database, history
<1>3. CASE ReadFails BY <1>0, <1>3 DEF ReadFails, TypeOK, database, Fault
<1>4. CASE RunScript BY <1>0, <1>4 DEF RunScript, TypeOK, database, history
<1>5. CASE SkipScript BY <1>0, <1>5 DEF SkipScript, TypeOK, database, history, NextScript
<1>6. CASE Quit BY <1>0, <1>6 DEF Quit, TypeOK, database, history
<1>7. CASE NoLicence BY <1>0, <1>7 DEF NoLicence, TypeOK, database, Fault
<1>8. CASE Jump
  <2>1. JumpTo \in 0 .. Last /\ JumpTo > 2 BY <1>8, PlanType DEF Jump, TypeOK
  <2>2. jumped' \in SUBSET Scripts BY <1>8, <2>1 DEF Jump, TypeOK, Scripts
  <2> QED BY <1>0, <1>8, <2>1, <2>2 DEF Jump, TypeOK, database, NextScript
<1>9. CASE Finish BY <1>0, <1>9 DEF Finish, TypeOK, database, history
<1>10. CASE Execute
  <2>1. <<cur, at>> \in Statements /\ cur \in 1 .. Last
        BY <1>10, Coming DEF Execute, Scripts
  <2>2. More(times[<<cur, at>>]) \in 0 .. MaxTimes BY <2>1, MoreIsPositive DEF TypeOK
  <2>3. times' \in [Statements -> 0 .. MaxTimes] BY <1>10, <2>2 DEF Execute, TypeOK
  <2>4. version' \in 0 .. Last BY <1>10, <2>1 DEF Execute, Recorded, TypeOK
  <2> QED BY <1>0, <1>10, <2>3, <2>4 DEF Execute, TypeOK, history
<1>11. CASE StatementFails
  <2>1. <<cur, at>> \in Statements BY <1>11, Coming DEF StatementFails
  <2>2. missed' \in SUBSET Statements BY <1>11, <2>1 DEF StatementFails, TypeOK
  <2>3. faults' \in Nat BY <1>11 DEF StatementFails, TypeOK, Fault
  <2> QED BY <1>0, <1>11, <2>2, <2>3 DEF StatementFails, TypeOK, database
<1>12. CASE ScriptEnds
       BY <1>0, <1>12, Coming DEF ScriptEnds, TypeOK, database, history, NextScript, Scripts
<1>13. CASE PsqlBreaks
       BY <1>0, <1>13, Coming DEF PsqlBreaks, TypeOK, database, Fault, NextScript, Scripts
<1>14. CASE Crash
       BY <1>0, <1>14, Coming DEF Crash, TypeOK, database, Fault
<1>15. CASE UNCHANGED vars BY <1>0, <1>15 DEF vars, database, driver, history, TypeOK
<1> QED BY <1>1, <1>2, <1>3, <1>4, <1>5, <1>6, <1>7, <1>8, <1>9, <1>10, <1>11, <1>12,
           <1>13, <1>14, <1>15, Actions

-----------------------------------------------------------------------------
(* The inductive invariant *)

LEMMA InitInvariant == Init => IInv
<1> SUFFICES ASSUME Init PROVE IInv OBVIOUS
<1>1. TypeOK BY InitType
<1>2. ~Exists BY <1>1, StatementsOf DEF Init, Exists, TypeOK
<1>3. RunAsFar /\ InOrder /\ VersionKnown BY DEF Init, RunAsFar, InOrder, VersionKnown
<1>4. CreatedToTheEnd BY <1>2 DEF Init, CreatedToTheEnd
<1>5. RecordedMeansDone BY DEF Init, RecordedMeansDone, Scripts
<1> QED BY <1>1, <1>3, <1>4, <1>5 DEF IInv

\* When no script runs, a recorded version means that the scripts are done.
LEMMA RecordedDone ==
    ASSUME IInv, pc # "run", NEW s \in Scripts, s <= version
    PROVE  Done(s)
BY DEF IInv, RecordedMeansDone, Done

\* A step of the driver: no statement takes effect, and no script is left running.
Quiet == UNCHANGED <<times, version, missed, left>> /\ pc # "run" /\ pc' # "run"

\* What all steps of the driver between two scripts preserve.
LEMMA QuietStep ==
    ASSUME IInv, [Next]_vars, Quiet
    PROVE  RunAsFar' /\ CreatedToTheEnd' /\ RecordedMeansDone'
<1>0. Grows /\ plan' = plan /\ Len' = Len BY Growing, LenStays DEF IInv, Grows
<1>1. RunAsFar' BY DEF Quiet, RunAsFar
<1>2. Exists' = Exists BY DEF Quiet, Exists
<1>3. 1 \in Scripts BY PlansAssumption DEF Scripts
<1>4. Done(1) => Done(1)' BY <1>0, <1>3, DoneStays
<1>5. CreatedToTheEnd' BY <1>2, <1>4 DEF Quiet, IInv, CreatedToTheEnd
<1>6. ASSUME NEW s \in Scripts, s <= version' PROVE Done(s)'
      BY <1>0, <1>6, RecordedDone, DoneStays DEF Quiet
<1>7. RecordedMeansDone' BY <1>6 DEF RecordedMeansDone, Done
<1> QED BY <1>1, <1>5, <1>7

\* The scripts before the one the driver has come to stay done.
LEMMA BeforeStays ==
    ASSUME IInv, [Next]_vars, pc \in {"read", "decide", "run"}
    PROVE  \A s \in 1 .. cur - 1 : Done(s)'
<1>1. \A s \in 1 .. cur - 1 : s \in Scripts /\ Done(s)
      BY PlansAssumption DEF IInv, TypeOK, InOrder, Scripts
<1>2. Grows BY Growing DEF IInv
<1> QED BY <1>1, <1>2, DoneStays

LEMMA StartStep == ASSUME IInv, Start PROVE IInv'
<1>0. [Next]_vars BY DEF Next
<1>1. TypeOK' BY <1>0, NextType DEF IInv
<1>2. Grows /\ Len' = Len BY <1>0, Growing, LenStays DEF IInv, Grows
<1>3. 1 \in Scripts /\ Created \in Statements BY StatementsOf DEF IInv, TypeOK
<1>4. CASE Exists
  <2>1. Quiet BY <1>4 DEF Start, Quiet, database
  <2>2. Done(1) BY <1>4 DEF IInv, CreatedToTheEnd, Start
  <2>3. Done(1)' BY <1>2, <1>3, <2>2, DoneStays
  <2>4. cur' = 2 /\ at' = 1 /\ pc' = "read" /\ dbver' = 0 /\ version' = version
        BY <1>4 DEF Start, database
  <2>5. InOrder'
    <3>1. ASSUME NEW s \in 1 .. cur' - 1 PROVE Done(s)' BY <2>3, <2>4
    <3> QED BY <2>4, <3>1 DEF InOrder
  <2>6. VersionKnown' BY <2>4 DEF VersionKnown, IInv, TypeOK
  <2> QED BY <1>0, <1>1, <2>1, <2>5, <2>6, QuietStep DEF IInv
<1>5. CASE ~Exists
  <2>1. version = 0 BY <1>5 DEF IInv, CreatedToTheEnd, TypeOK
  <2>2. /\ cur' = 1 /\ at' = 1 /\ pc' = "run" /\ version' = 0 /\ times' = times
        /\ dbver' \in {-1, 0} /\ plan' = plan
        BY <1>5, <2>1 DEF Start, database
  <2>3. 1 <= Len'[1] /\ Len'[1] \in Nat /\ 1 <= Last
        BY <1>2, <1>3, StatementsOf, PlanType, PlansAssumption DEF IInv, TypeOK
  <2>4. RunAsFar' BY <2>2, <2>3 DEF RunAsFar
  <2>5. CreatedToTheEnd' BY <1>5, <2>2 DEF CreatedToTheEnd, Exists
  <2>6. InOrder' BY <2>2 DEF InOrder
  <2>7. VersionKnown' BY <2>2 DEF VersionKnown
  <2>8. RecordedMeansDone' BY <2>2 DEF RecordedMeansDone, Scripts
  <2> QED BY <1>1, <2>4, <2>5, <2>6, <2>7, <2>8 DEF IInv
<1> QED BY <1>4, <1>5

\* The version that the driver knows, and the order of the scripts.
LEMMA ReadVersionStep == ASSUME IInv, ReadVersion PROVE IInv'
<1>0. [Next]_vars BY DEF Next, Step
<1>1. TypeOK' BY <1>0, NextType DEF IInv
<1>2. Quiet BY DEF ReadVersion, Quiet, database, history
<1>3. InOrder' BY <1>0, BeforeStays DEF ReadVersion, InOrder, IInv
<1>4. VersionKnown'
      BY DEF ReadVersion, VersionKnown, IInv, InOrder, TypeOK, database, history
<1> QED BY <1>0, <1>1, <1>2, <1>3, <1>4, QuietStep DEF IInv

LEMMA ReadFailsStep == ASSUME IInv, ReadFails PROVE IInv'
<1>0. [Next]_vars BY DEF Next
<1>1. TypeOK' BY <1>0, NextType DEF IInv
<1>2. Quiet BY DEF ReadFails, Quiet, database
<1>3. InOrder' BY <1>0, BeforeStays DEF ReadFails, InOrder, IInv
<1>4. VersionKnown' BY DEF ReadFails, VersionKnown, IInv, database
<1> QED BY <1>0, <1>1, <1>2, <1>3, <1>4, QuietStep DEF IInv

LEMMA RunScriptStep == ASSUME IInv, RunScript PROVE IInv'
<1>0. [Next]_vars BY DEF Next, Step
<1>1. TypeOK' BY <1>0, NextType DEF IInv
<1>2. /\ Grows /\ Len' = Len /\ cur' = cur /\ at' = 1 /\ dbver' = dbver /\ version' = version
      /\ times' = times /\ pc' = "run" /\ pc = "decide" /\ cur > 1 /\ unread' = unread
      BY <1>0, Growing, LenStays DEF IInv, Grows, RunScript, InOrder, database, history
<1>3. cur \in Scripts /\ cur <= Last /\ dbver < cur
      BY DEF RunScript, Needed, IInv, TypeOK, Scripts
<1>4. RunAsFar' BY <1>2, <1>3, PlanType DEF RunAsFar, IInv, TypeOK
<1>5. 1 \in Scripts BY PlansAssumption DEF Scripts
<1>6. CreatedToTheEnd' BY <1>2, <1>5, DoneStays DEF CreatedToTheEnd, IInv, Exists
<1>7. InOrder' BY <1>0, <1>2, BeforeStays DEF InOrder
<1>8. VersionKnown' BY <1>2, <1>3 DEF VersionKnown, IInv, TypeOK
<1>9. ASSUME NEW s \in Scripts, s <= version' PROVE Done(s)'
      BY <1>2, <1>9, RecordedDone, DoneStays
<1>10. RecordedMeansDone' BY <1>9 DEF RecordedMeansDone, Done
<1> QED BY <1>1, <1>4, <1>6, <1>7, <1>8, <1>10 DEF IInv

LEMMA SkipScriptStep == ASSUME IInv, SkipScript PROVE IInv'
<1>0. [Next]_vars BY DEF Next, Step
<1>1. TypeOK' BY <1>0, NextType DEF IInv
<1>2. Quiet BY DEF SkipScript, Quiet, NextScript, database, history
<1>3. cur \in Scripts /\ cur <= version
      BY DEF SkipScript, Needed, IInv, TypeOK, Scripts, VersionKnown
<1>4. ASSUME NEW s \in Scripts, s = cur PROVE Done(s)'
      BY <1>0, <1>3, <1>4, RecordedDone, Growing, DoneStays DEF SkipScript, IInv
<1>5. InOrder'
  <2>1. cur' = cur + 1 /\ at' = 1 /\ pc = "decide" BY DEF SkipScript, NextScript
  <2>2. \A s \in 1 .. cur' - 1 : s \in 1 .. cur - 1 \/ s = cur BY <1>3, <2>1 DEF Scripts
  <2>3. \A s \in 1 .. cur' - 1 : Done(s)' BY <1>0, <1>3, <1>4, <2>1, <2>2, BeforeStays
  <2> QED BY <1>3, <2>1, <2>3 DEF InOrder, Scripts
<1>6. VersionKnown'
      BY DEF SkipScript, VersionKnown, IInv, TypeOK, database, history, NextScript
<1> QED BY <1>0, <1>1, <1>2, <1>5, <1>6, QuietStep DEF IInv

\* The driver ends.
LEMMA EndStep == ASSUME IInv, Quit \/ NoLicence \/ Finish PROVE IInv'
<1>0. [Next]_vars BY DEF Next, Step
<1>1. TypeOK' BY <1>0, NextType DEF IInv
<1>2. Quiet /\ pc' \in {"off", "done"}
      BY DEF Quit, NoLicence, Finish, Quiet, database, history
<1>3. InOrder' /\ VersionKnown' BY <1>2 DEF InOrder, VersionKnown
<1> QED BY <1>0, <1>1, <1>2, <1>3, QuietStep DEF IInv

LEMMA JumpStep == ASSUME IInv, Jump PROVE IInv'
<1>0. [Next]_vars BY DEF Next, Step
<1>1. TypeOK' BY <1>0, NextType DEF IInv
<1>2. Quiet BY DEF Jump, Quiet, NextScript, database
<1>3. JumpTo \in 3 .. Last /\ cur = 2 /\ cur' = JumpTo /\ at' = 1 /\ pc = "decide"
      /\ jumped' = jumped \union 2 .. JumpTo - 1
      BY PlanType DEF Jump, NextScript, IInv, TypeOK
<1>4. InOrder'
  <2>1. ASSUME NEW s \in 1 .. cur' - 1 PROVE Done(s)'
    <3>1. CASE s = 1 BY <1>0, <1>3, <3>1, BeforeStays
    <3>2. CASE s \in jumped' BY <3>2 DEF Done, InEffect
    <3> QED BY <1>3, <2>1, <3>1, <3>2
  <2> QED BY <1>3, <2>1 DEF InOrder
<1>5. VersionKnown'
      BY <1>3 DEF Jump, VersionKnown, IInv, TypeOK, database, NextScript
<1> QED BY <1>0, <1>1, <1>2, <1>4, <1>5, QuietStep DEF IInv

-----------------------------------------------------------------------------
(* The steps of psql *)

\* psql comes past a statement that is now in effect, or excused.
LEMMA Forward ==
    ASSUME IInv, [Next]_vars, pc = "run", pc' = "run", cur' = cur, at' = at + 1,
           at <= Len[cur], dbver' = dbver, unread' = unread,
           \A s \in Scripts, k \in Nat : s = cur /\ k = at => InEffect(s, k)',
           version' = version \/ version' = cur,
           Exists' => Exists \/ cur = 1, version' > 0 => Exists'
    PROVE  IInv'
<1>1. TypeOK' BY NextType DEF IInv
<1>2. Grows /\ Len' = Len BY Growing, LenStays DEF IInv, Grows
<1>3. cur \in Scripts /\ at \in 1 .. Len[cur] /\ Len[cur] \in Nat BY Coming DEF IInv
<1>4. ASSUME NEW s \in Scripts, s = cur, NEW k \in 1 .. at PROVE InEffect(s, k)'
  <2>1. CASE k = at BY <1>3, <1>4, <2>1
  <2>2. CASE k # at
    <3>1. k \in 1 .. Len[s] /\ k \in 1 .. at - 1 BY <1>3, <1>4, <2>2
    <3>2. InEffect(s, k) BY <1>4, <3>1 DEF IInv, RunAsFar
    <3> QED BY <1>2, <3>1, <3>2, InEffectStays
  <2> QED BY <2>1, <2>2
<1>5. RunAsFar' BY <1>2, <1>3, <1>4 DEF RunAsFar, IInv, InEffect
<1>6. 1 \in Scripts BY PlansAssumption DEF Scripts
<1>7. CreatedToTheEnd' BY <1>2, <1>6, DoneStays DEF CreatedToTheEnd, IInv
<1>8. \A s \in 1 .. cur - 1 : Done(s)' BY BeforeStays
<1>9. InOrder' BY <1>8 DEF InOrder
<1>10. VersionKnown' BY <1>3 DEF VersionKnown, IInv, RunAsFar, TypeOK, Scripts
<1>11. ASSUME NEW s \in Scripts, s <= version', NEW k \in 1 .. Len'[s]
       PROVE  InEffect(s, k)' \/ (cur = s /\ k >= at + 1)
  <2>1. CASE s = cur BY <1>2, <1>3, <1>4, <2>1
  <2>2. CASE s < cur BY <1>3, <1>8, <2>2 DEF Done, Scripts
  <2>3. CASE s > cur
    <3>1. s <= version BY <1>3, <1>11, <2>3 DEF Scripts
    <3>2. Done(s) BY <1>3, <2>3, <3>1 DEF IInv, RecordedMeansDone, Done, Scripts
    <3> QED BY <1>2, <3>2, DoneStays DEF Done
  <2> QED BY <1>3, <2>1, <2>2, <2>3 DEF Scripts
<1>12. RecordedMeansDone' BY <1>11 DEF RecordedMeansDone
<1> QED BY <1>1, <1>5, <1>7, <1>9, <1>10, <1>12 DEF IInv

LEMMA ExecuteStep == ASSUME IInv, Execute PROVE IInv'
<1>0. [Next]_vars BY DEF Next, Step
<1>1. cur \in Scripts /\ at \in 1 .. Len[cur] /\ <<cur, at>> \in Statements
      BY Coming DEF IInv, Execute
<1>2. ASSUME NEW s \in Scripts, NEW k \in Nat, s = cur, k = at PROVE InEffect(s, k)'
  <2>1. times[<<cur, at>>] \in 0 .. MaxTimes BY <1>1 DEF IInv, TypeOK
  <2>2. times'[<<cur, at>>] > 0 BY <1>1, <2>1, MoreIsPositive DEF Execute, IInv, TypeOK
  <2> QED BY <1>2, <2>2 DEF InEffect
<1>3. Exists => Exists' BY <1>0, Growing, StatementsOf DEF IInv, TypeOK, Grows, Exists
<1>4. ~Exists => cur = 1 /\ at = 1 BY DEF Execute, Effective
<1>5. ~Exists => Exists'
  <2>1. CASE ~Exists
    <3>1. times[Created] \in 0 .. MaxTimes BY StatementsOf DEF IInv, TypeOK
    <3>2. times'[Created] > 0
          BY <1>1, <1>4, <2>1, <3>1, MoreIsPositive DEF Execute, IInv, TypeOK, Created
    <3> QED BY <3>2 DEF Exists
  <2> QED BY <2>1
<1>6. version' = version \/ version' = cur BY DEF Execute, Recorded
<1> QED BY <1>0, <1>1, <1>2, <1>3, <1>4, <1>5, <1>6, Forward DEF Execute, history

LEMMA StatementFailsStep == ASSUME IInv, StatementFails PROVE IInv'
<1>0. [Next]_vars BY DEF Next
<1>1. \A s \in Scripts, k \in Nat : s = cur /\ k = at => InEffect(s, k)'
      BY DEF StatementFails, InEffect
<1>2. Exists' = Exists /\ version' = version /\ (version > 0 => Exists)
      BY DEF StatementFails, database, Exists, IInv, CreatedToTheEnd
<1> QED BY <1>0, <1>1, <1>2, Forward DEF StatementFails

\* psql ends.  Its script is done, or a later run will come back to it.
LEMMA RunEnds ==
    ASSUME IInv, [Next]_vars, pc = "run", pc' # "run", UNCHANGED <<times, version>>,
           (\A s \in Scripts : s = cur => Done(s)') \/ ~NotResumed
    PROVE  RunAsFar' /\ CreatedToTheEnd' /\ RecordedMeansDone'
<1>1. Grows /\ Exists' = Exists BY Growing DEF IInv, Exists
<1>2. 1 \in Scripts BY PlansAssumption DEF Scripts
<1>3. RunAsFar' BY DEF RunAsFar
<1>4. CreatedToTheEnd' BY <1>1, <1>2, DoneStays DEF CreatedToTheEnd, IInv, NotResumed
<1>5. ASSUME NEW s \in Scripts, s <= version' PROVE Done(s)'
  <2>1. CASE s = cur BY <1>5, <2>1 DEF NotResumed
  <2>2. CASE s # cur
    <3>1. Done(s) BY <1>5, <2>2 DEF IInv, RecordedMeansDone, Done
    <3> QED BY <1>1, <3>1, DoneStays
  <2> QED BY <2>1, <2>2
<1>6. RecordedMeansDone' BY <1>5 DEF RecordedMeansDone, Done
<1> QED BY <1>3, <1>4, <1>6

\* The driver goes on with the next script.
LEMMA GoesOn ==
    ASSUME IInv, [Next]_vars, pc = "run", NextScript(cur + 1), UNCHANGED <<times, version>>,
           dbver' = dbver, unread' = unread, \A s \in Scripts : s = cur => Done(s)'
    PROVE  IInv'
<1>1. TypeOK' BY NextType DEF IInv
<1>2. pc' \in {"read", "decide"} /\ cur' = cur + 1 /\ at' = 1 BY DEF NextScript
<1>3. cur \in 1 .. Last BY Coming DEF IInv, Scripts
<1>4. InOrder'
  <2>1. \A s \in 1 .. cur' - 1 : s \in 1 .. cur - 1 \/ s = cur BY <1>2, <1>3
  <2>2. \A s \in 1 .. cur' - 1 : Done(s)' BY <1>2, <1>3, <2>1, BeforeStays DEF Scripts
  <2> QED BY <1>2, <1>3, <2>2 DEF InOrder
<1>5. VersionKnown' BY <1>2, <1>3 DEF VersionKnown, IInv, TypeOK
<1> QED BY <1>1, <1>2, <1>4, <1>5, RunEnds DEF IInv

LEMMA ScriptEndsStep == ASSUME IInv, ScriptEnds PROVE IInv'
<1>0. [Next]_vars BY DEF Next, Step
<1>1. cur \in Scripts /\ Len[cur] \in Nat BY Coming DEF IInv, ScriptEnds
<1>2. Done(cur) BY <1>1 DEF ScriptEnds, IInv, RunAsFar, TypeOK, Done
<1>3. \A s \in Scripts : s = cur => Done(s)' BY <1>0, <1>2, Growing, DoneStays DEF IInv
<1> QED BY <1>0, <1>3, GoesOn DEF ScriptEnds, database, history

LEMMA PsqlBreaksStep == ASSUME IInv, PsqlBreaks PROVE IInv'
<1>0. [Next]_vars BY DEF Next
<1>1. TypeOK' BY <1>0, NextType DEF IInv
<1>2. \A s \in Scripts : s = cur => Done(s)' BY DEF PsqlBreaks, Done, InEffect
<1>3. CASE cur = 1 /\ ~Rereads
  <2>1. pc' = "off" BY <1>3 DEF PsqlBreaks
  <2>2. InOrder' /\ VersionKnown' BY <2>1 DEF InOrder, VersionKnown
  <2> QED BY <1>0, <1>1, <1>2, <1>3, <2>1, <2>2, RunEnds DEF PsqlBreaks, database, IInv
<1>4. CASE ~(cur = 1 /\ ~Rereads)
      BY <1>0, <1>2, <1>4, GoesOn DEF PsqlBreaks, database
<1> QED BY <1>3, <1>4

LEMMA CrashStep == ASSUME IInv, Crash PROVE IInv'
<1>0. [Next]_vars BY DEF Next
<1>1. TypeOK' BY <1>0, NextType DEF IInv
<1>2. pc' = "off" BY DEF Crash
<1>3. InOrder' /\ VersionKnown' BY <1>2 DEF InOrder, VersionKnown
<1>4. CASE pc = "run" /\ NotResumed
      BY <1>0, <1>1, <1>2, <1>3, <1>4, RunEnds DEF Crash, database, IInv, Done, InEffect
<1>5. CASE pc = "run" /\ ~NotResumed
      BY <1>0, <1>1, <1>2, <1>3, <1>5, RunEnds DEF Crash, database, IInv
<1>6. CASE pc # "run"
      BY <1>0, <1>1, <1>2, <1>3, <1>6, QuietStep DEF Crash, Quiet, database, IInv
<1> QED BY <1>4, <1>5, <1>6

LEMMA StutteringStep == ASSUME IInv, UNCHANGED vars PROVE IInv'
<1>0. [Next]_vars OBVIOUS
<1>1. TypeOK' BY <1>0, NextType DEF IInv
<1>2. UNCHANGED <<times, version, missed, left, jumped, pc, cur, at, dbver, unread>>
      /\ plan' = plan
      BY DEF vars, database, driver, history
<1>3. Len' = Len BY <1>2, LenStays
<1>4. RunAsFar' BY <1>2, <1>3 DEF IInv, RunAsFar, InEffect
<1>5. CreatedToTheEnd' BY <1>2, <1>3 DEF IInv, CreatedToTheEnd, Done, InEffect, Exists
<1>6. InOrder' BY <1>2, <1>3 DEF IInv, InOrder, Done, InEffect
<1>7. VersionKnown' BY <1>2 DEF IInv, VersionKnown
<1>8. RecordedMeansDone' BY <1>2, <1>3 DEF IInv, RecordedMeansDone, InEffect
<1> QED BY <1>1, <1>4, <1>5, <1>6, <1>7, <1>8 DEF IInv

LEMMA NextInvariant == IInv /\ [Next]_vars => IInv'
BY Actions, StartStep, ReadVersionStep, ReadFailsStep, RunScriptStep, SkipScriptStep, EndStep,
   JumpStep, ExecuteStep, StatementFailsStep, ScriptEndsStep, PsqlBreaksStep, CrashStep,
   StutteringStep

-----------------------------------------------------------------------------
(* The theorems *)

\* The inductive invariant holds in every reachable state.
THEOREM Invariance == Spec => []IInv
BY InitInvariant, NextInvariant, PTL DEF Spec

\* A recorded version means that every script up to it has run, for any scripts,
\* either driver, and whatever was interrupted or failed before.
THEOREM RecordedScriptsDone == Spec => []RecordedMeansDone
<1>1. IInv => RecordedMeansDone BY DEF IInv
<1> QED BY <1>1, Invariance, PTL

LEMMA RunScriptIsNew == IInv /\ [Next]_vars => [RunScript => cur > version \/ unread]_vars
<1> SUFFICES ASSUME IInv, RunScript PROVE cur > version \/ unread
    BY DEF vars
<1> QED BY DEF IInv, TypeOK, VersionKnown, RunScript, Needed

\* A script whose version is recorded is not run again by a driver that could
\* read the version.
THEOREM RecordedNotRedone == Spec => NotRedone
BY Invariance, RunScriptIsNew, PTL DEF Spec, NotRedone

-----------------------------------------------------------------------------
(* A clean run ends with the last version recorded *)

\* Script 1 has not been executed to the end, and may have made no row.
RowMissing == 1 \in left \/ \E k \in 1 .. Len[1] : <<1, k>> \in missed

Row == version > 0 \/ RowMissing

FirstMakesRow == RecordAt[1] \in 1 .. Len[1] /\ InsertsRow[1]

\* If script 1 makes the row, it is there when the script has come so far.
RowMade ==
    FirstMakesRow /\ Exists => Row \/ (pc = "run" /\ cur = 1 /\ at <= RecordAt[1])

\* If script 2 does, a clean run makes it: the version was 0, so the script is needed.
RowMadeLater ==
    ~FirstMakesRow /\ clean =>
        /\ pc \in {"read", "decide"} /\ cur > 2 => Row
        /\ pc = "run" /\ (cur > 2 \/ (cur = 2 /\ at > RecordAt[2])) => Row

\* A clean run has recorded the last version when it has come past it.
LastRecorded ==
    clean =>
        /\ pc \in {"read", "decide"} /\ cur = Last + 1 => version \in {0, Last}
        /\ pc = "run" /\ cur = Last /\ at > RecordAt[Last] => version \in {0, Last}

CleanInv ==
    1 \notin jumped /\ RowMade /\ RowMadeLater /\ LastRecorded /\ CleanRunUpgrades

LEMMA Recording ==
    ASSUME TypeOK
    PROVE  /\ Last \in Scripts /\ RecordAt[Last] \in 1 .. Len[Last]
           /\ ~FirstMakesRow => /\ Last > 1 /\ JumpTo = 0
                                /\ RecordAt[2] \in 1 .. Len[2] /\ InsertsRow[2]
           /\ 1 \in Scripts /\ Len[1] \in Nat /\ RecordAt[1] \in Nat
<1>1. plan \in Plans BY DEF TypeOK
<1>2. Last \in Scripts /\ 1 \in Scripts BY PlansAssumption DEF Scripts
<1> QED BY <1>1, <1>2, RecordingAssumption, PlanType
        DEF Len, RecordAt, InsertsRow, JumpTo, FirstMakesRow

\* A row stays, and so does the reason why there is none.
LEMMA RowStays == ASSUME IInv, [Next]_vars, Row PROVE Row'
<1>1. Grows /\ Len' = Len BY Growing, LenStays DEF IInv, Grows
<1>2. RowMissing => RowMissing' BY <1>1 DEF Grows, RowMissing
<1>3. version > 0 => version' > 0
  <2>1. CASE Execute BY <2>1, Coming DEF Execute, Recorded, IInv, TypeOK, Scripts
  <2>2. CASE ~Execute
    <3>1. version' = version
          BY <2>2, Actions DEF Start, ReadVersion, ReadFails, RunScript, SkipScript, Quit, NoLicence,
             Jump, Finish, StatementFails, ScriptEnds, PsqlBreaks, Crash, vars, database
    <3> QED BY <3>1
  <2> QED BY <2>1, <2>2
<1> QED BY <1>2, <1>3 DEF Row

\* The driver that has come past script 1 without a database has missed its creation.
LEMMA NoDatabase ==
    ASSUME IInv, 1 \notin jumped, pc \in {"read", "decide", "run"}, cur > 1, ~Exists
    PROVE  RowMissing
<1>1. 1 \in Scripts /\ 1 \in 1 .. Len[1] /\ Created \in Statements
      BY StatementsOf, Recording DEF IInv, TypeOK
<1>2. 1 \in 1 .. cur - 1 BY DEF IInv, TypeOK
<1>3. InEffect(1, 1) BY <1>1, <1>2 DEF IInv, InOrder, Done
<1>4. ~(times[<<1, 1>>] > 0) BY DEF Exists, Created
<1> QED BY <1>1, <1>3, <1>4 DEF InEffect, RowMissing

LEMMA NextRowMade ==
    ASSUME IInv, 1 \notin jumped, RowMade, [Next]_vars PROVE RowMade'
<1> USE DEF Row
<1>0. Len' = Len /\ RecordAt' = RecordAt /\ FirstMakesRow' = FirstMakesRow
      BY Growing, LenStays DEF IInv, Grows, RecordAt, InsertsRow, FirstMakesRow
<1> SUFFICES ASSUME FirstMakesRow, Exists'
             PROVE  Row' \/ (pc' = "run" /\ cur' = 1 /\ at' <= RecordAt[1])
    BY <1>0 DEF RowMade
<1>1. Len[1] \in Nat /\ RecordAt[1] \in 1 .. Len[1] /\ at \in Nat /\ cur \in Nat /\ version \in Nat
      BY Recording DEF FirstMakesRow, IInv, TypeOK
<1>2. CASE Row BY <1>2, RowStays
<1>3. CASE Exists /\ pc = "run" /\ cur = 1 /\ at <= RecordAt[1]
  <2>1. CASE Execute
    <3>1. at = RecordAt[1] => version' = 1 BY <1>3, <2>1 DEF Execute, Recorded, FirstMakesRow
    <3> QED BY <1>1, <1>3, <2>1, <3>1 DEF Execute
  <2>2. CASE StatementFails
    <3>1. <<1, at>> \in missed' /\ at \in 1 .. Len[1]
          BY <1>1, <1>3, <2>2, Coming DEF StatementFails, IInv
    <3> QED BY <1>0, <3>1 DEF RowMissing
  <2>3. CASE PsqlBreaks BY <1>3, <2>3 DEF PsqlBreaks, RowMissing
  <2>4. CASE Crash BY <1>3, <2>4 DEF Crash, NotResumed, RowMissing
  <2>5. CASE ScriptEnds BY <1>1, <1>3, <2>5 DEF ScriptEnds
  <2>6. CASE UNCHANGED vars BY <1>3, <2>6 DEF vars, driver
  <2> QED BY <1>3, <2>1, <2>2, <2>3, <2>4, <2>5, <2>6, Actions
          DEF Start, ReadVersion, ReadFails, RunScript, SkipScript, Quit, NoLicence, Jump, Finish
<1>4. CASE ~Exists
  <2>1. CASE Execute
    <3>1. pc' = "run" /\ cur' = 1 /\ at = 1 /\ at' = 2
          BY <1>4, <2>1 DEF Execute, Effective
    <3>2. RecordAt[1] = 1 => version' = 1
          BY <1>4, <2>1, <3>1 DEF Execute, Recorded, FirstMakesRow, Effective
    <3> QED BY <1>1, <3>1, <3>2
  <2>2. CASE ~Execute
    <3>1. times' = times
          BY <2>2, Actions DEF Start, ReadVersion, ReadFails, RunScript, SkipScript, Quit, NoLicence,
             Jump, Finish, StatementFails, ScriptEnds, PsqlBreaks, Crash, vars, database
    <3> QED BY <1>4, <3>1 DEF Exists
  <2> QED BY <2>1, <2>2
<1> QED BY <1>2, <1>3, <1>4 DEF RowMade

\* In a run that stays clean only a database that is not there makes statements fail.
LEMMA CleanSteps ==
    ASSUME IInv, [Next]_vars, clean'
    PROVE  /\ Start \/ clean
           /\ ~ReadFails /\ ~NoLicence /\ ~PsqlBreaks /\ ~Crash
           /\ StatementFails => ~Exists
<1>1. ~ReadFails /\ ~NoLicence /\ ~PsqlBreaks /\ ~Crash
      BY DEF ReadFails, NoLicence, PsqlBreaks, Crash, Fault
<1>2. StatementFails => ~Exists BY DEF StatementFails, Effective, Fault
<1>3. Start \/ clean
  <2>1. CASE StatementFails BY <2>1 DEF StatementFails, Fault
  <2>2. CASE ~StatementFails /\ ~Start
    <3>1. clean' = clean
          BY <1>1, <2>2, Actions DEF ReadVersion, RunScript, SkipScript, Quit, Jump, Finish, Execute,
             ScriptEnds, vars, history
    <3> QED BY <3>1
  <2> QED BY <2>1, <2>2
<1> QED BY <1>1, <1>2, <1>3

LEMMA NextRowMadeLater ==
    ASSUME IInv, 1 \notin jumped, RowMadeLater, [Next]_vars PROVE RowMadeLater'
<1>0. Len' = Len /\ RecordAt' = RecordAt /\ FirstMakesRow' = FirstMakesRow
      BY Growing, LenStays DEF IInv, Grows, RecordAt, InsertsRow, FirstMakesRow
<1> SUFFICES ASSUME ~FirstMakesRow, clean',
                    \/ pc' \in {"read", "decide"} /\ cur' > 2
                    \/ pc' = "run" /\ (cur' > 2 \/ (cur' = 2 /\ at' > RecordAt[2]))
             PROVE  Row'
    BY <1>0 DEF RowMadeLater
<1>1. /\ Last > 1 /\ JumpTo = 0 /\ RecordAt[2] \in 1 .. Len[2] /\ InsertsRow[2]
      /\ Len[2] \in Nat /\ at \in Nat /\ cur \in Nat /\ version \in Nat /\ dbver \in -1 .. Last
      BY Recording, PlanType, PlansAssumption DEF IInv, TypeOK, Scripts
<1>2. CASE Start BY <1>1, <1>2 DEF Start
<1>3. CASE Execute
  <2>1. CASE cur = 2 /\ at = RecordAt[2]
    <3>1. version' = 2 BY <1>1, <1>3, <2>1 DEF Execute, Recorded
    <3> QED BY <3>1 DEF Row
  <2>2. CASE ~(cur = 2 /\ at = RecordAt[2])
    <3>1. Row BY <1>1, <1>3, <2>2, CleanSteps DEF Execute, RowMadeLater, Start
    <3> QED BY <3>1, RowStays
  <2> QED BY <2>1, <2>2
<1>4. CASE StatementFails
  <2>1. cur' = cur /\ pc' = pc /\ pc = "run" BY <1>4 DEF StatementFails
  <2>2. cur > 1 BY <1>1, <2>1
  <2>3. ~Exists BY <1>4, CleanSteps
  <2> QED BY <2>1, <2>2, <2>3, NoDatabase, RowStays DEF Row
<1>5. CASE ScriptEnds
  <2>1. cur >= 2 /\ clean BY <1>1, <1>5, CleanSteps DEF ScriptEnds, NextScript, Start
  <2>2. Row BY <1>1, <1>5, <2>1 DEF ScriptEnds, RowMadeLater
  <2> QED BY <2>2, RowStays
<1>6. CASE ReadVersion \/ RunScript
  <2>1. pc \in {"read", "decide"} /\ cur' = cur BY <1>6 DEF ReadVersion, RunScript
  <2>2. RunScript => at' = 1 BY DEF RunScript, IInv, InOrder
  <2>3. cur > 2 BY <1>1, <1>6, <2>1, <2>2 DEF ReadVersion
  <2>4. Row BY <1>6, <2>1, <2>3, CleanSteps DEF RowMadeLater, Start
  <2> QED BY <2>4, RowStays
<1>7. CASE SkipScript
  <2>1. pc = "decide" /\ cur' = cur + 1 /\ dbver >= cur /\ clean
        BY <1>1, <1>7, CleanSteps DEF SkipScript, Needed, NextScript, Start
  <2>2. version > 0 BY <1>1, <2>1 DEF IInv, VersionKnown, InOrder
  <2> QED BY <2>2, RowStays DEF Row
<1>8. CASE Jump BY <1>1, <1>8 DEF Jump
<1>9. CASE UNCHANGED vars
  <2>1. pc' = pc /\ cur' = cur /\ at' = at /\ clean' = clean BY <1>9 DEF vars, driver, history
  <2> QED BY <2>1, RowStays DEF RowMadeLater
<1>10. CASE Quit \/ Finish BY <1>10 DEF Quit, Finish
<1> QED BY <1>2, <1>3, <1>4, <1>5, <1>6, <1>7, <1>8, <1>9, <1>10, CleanSteps, Actions

LEMMA NextLastRecorded ==
    ASSUME IInv, LastRecorded, [Next]_vars PROVE LastRecorded'
<1>0. Len' = Len /\ RecordAt' = RecordAt
      BY Growing, LenStays DEF IInv, Grows, RecordAt
<1> SUFFICES ASSUME clean',
                    \/ pc' \in {"read", "decide"} /\ cur' = Last + 1
                    \/ pc' = "run" /\ cur' = Last /\ at' > RecordAt[Last]
             PROVE  version' \in {0, Last}
    BY <1>0 DEF LastRecorded
<1>1. /\ Last \in Nat \ {0} /\ RecordAt[Last] \in 1 .. Len[Last] /\ Len[Last] \in Nat
      /\ at \in Nat /\ cur \in Nat /\ version \in 0 .. Last /\ dbver \in -1 .. Last
      BY Recording, PlanType, PlansAssumption DEF IInv, TypeOK
<1>2. CASE Start
  <2>1. CASE Exists
    <3>1. Last = 1 BY <1>1, <1>2, <2>1 DEF Start
    <3> QED BY <1>1, <1>2, <3>1 DEF Start, database
  <2>2. CASE ~Exists
    <3>1. version = 0 BY <1>1, <2>2 DEF IInv, CreatedToTheEnd
    <3> QED BY <1>2, <3>1 DEF Start, database
  <2> QED BY <2>1, <2>2
<1>3. CASE Execute
  <2>1. CASE at = RecordAt[Last]
    <3>1. version' = Last \/ (version' = version /\ version = 0)
          BY <1>1, <1>3, <2>1 DEF Execute, Recorded
    <3> QED BY <3>1
  <2>2. CASE at # RecordAt[Last]
    <3>1. version' = version /\ pc = "run" /\ cur = Last /\ at > RecordAt[Last]
          BY <1>1, <1>3, <2>2 DEF Execute, Recorded
    <3> QED BY <1>3, <3>1, CleanSteps DEF LastRecorded, Start
  <2> QED BY <2>1, <2>2
<1>4. CASE StatementFails
  <2>1. version = 0 BY <1>1, <1>4, CleanSteps DEF IInv, CreatedToTheEnd
  <2> QED BY <1>4, <2>1 DEF StatementFails, database
<1>5. CASE ScriptEnds
  <2>1. /\ pc = "run" /\ clean /\ cur = Last /\ at > RecordAt[Last] /\ version' = version
        BY <1>1, <1>5, CleanSteps DEF ScriptEnds, NextScript, Start, database
  <2> QED BY <2>1 DEF LastRecorded
<1>6. CASE ReadVersion
      BY <1>6, CleanSteps DEF ReadVersion, database, LastRecorded, Start
<1>7. CASE RunScript BY <1>1, <1>7 DEF RunScript, IInv, InOrder
<1>8. CASE SkipScript
  <2>1. pc = "decide" /\ cur = Last /\ dbver >= Last /\ version' = version
        BY <1>1, <1>8 DEF SkipScript, Needed, NextScript, database
  <2>2. version = Last BY <1>1, <2>1 DEF IInv, VersionKnown
  <2> QED BY <2>1, <2>2
<1>9. CASE Jump BY <1>1, <1>9, PlanType DEF Jump, NextScript, IInv, TypeOK
<1>10. CASE UNCHANGED vars
       BY <1>10 DEF vars, driver, history, database, LastRecorded
<1>11. CASE Quit \/ Finish BY <1>11 DEF Quit, Finish
<1> QED BY <1>2, <1>3, <1>4, <1>5, <1>6, <1>7, <1>8, <1>9, <1>10, <1>11, CleanSteps, Actions

LEMMA NextCleanRun ==
    ASSUME IInv, CleanInv, [Next]_vars PROVE CleanRunUpgrades'
<1> SUFFICES ASSUME pc' = "done", clean' PROVE version' = Last \/ (version' = 0 /\ RowMissing')
    BY DEF CleanRunUpgrades, RowMissing
<1>0. version \in 0 .. Last /\ Last \in Nat \ {0} /\ Len' = Len
      BY PlansAssumption, Growing, LenStays DEF IInv, TypeOK, Grows
<1>1. CASE Finish
  <2>1. /\ pc = "decide" /\ cur = Last + 1 /\ clean /\ version' = version /\ missed' = missed
        /\ left' = left
        BY <1>1, CleanSteps DEF Finish, Start, database, history
  <2>2. version \in {0, Last} BY <2>1 DEF CleanInv, LastRecorded
  <2>3. version = 0 => RowMissing
    <3>1. CASE ~Exists BY <1>0, <2>1, <3>1, NoDatabase DEF CleanInv
    <3>2. CASE Exists /\ FirstMakesRow BY <2>1, <3>2 DEF CleanInv, RowMade, Row
    <3>3. CASE ~FirstMakesRow
      <4>1. Last > 1 BY <3>3, Recording DEF IInv
      <4> QED BY <1>0, <2>1, <3>3, <4>1 DEF CleanInv, RowMadeLater, Row
    <3> QED BY <3>1, <3>2, <3>3
  <2> QED BY <1>0, <2>1, <2>2, <2>3 DEF RowMissing
<1>2. CASE UNCHANGED vars
      BY <1>0, <1>2 DEF vars, driver, history, database, CleanInv, CleanRunUpgrades, RowMissing
<1>3. CASE ~Finish /\ ~UNCHANGED vars
      BY <1>3, Actions, CleanSteps DEF Start, ReadVersion, RunScript, SkipScript, Quit, Jump,
         Execute, StatementFails, ScriptEnds, NextScript
<1> QED BY <1>1, <1>2, <1>3

LEMMA NextClean == IInv /\ CleanInv /\ [Next]_vars => CleanInv'
<1> SUFFICES ASSUME IInv, CleanInv, [Next]_vars PROVE CleanInv' OBVIOUS
<1>1. 1 \notin jumped'
  <2>1. CASE Jump BY <2>1, PlanType DEF Jump, CleanInv, IInv, TypeOK
  <2>2. CASE ~Jump
    <3>1. jumped' = jumped
          BY <2>2, Actions DEF Start, ReadVersion, ReadFails, RunScript, SkipScript, Quit, NoLicence,
             Finish, Execute, StatementFails, ScriptEnds, PsqlBreaks, Crash, vars, history
    <3> QED BY <3>1 DEF CleanInv
  <2> QED BY <2>1, <2>2
<1> QED BY <1>1, NextRowMade, NextRowMadeLater, NextLastRecorded, NextCleanRun DEF CleanInv

\* A run of a driver in which nothing goes wrong ends with the last version recorded,
\* whatever the runs before it left behind, unless script 1 has left no row for it.
THEOREM CleanRunsUpgrade == Spec => []CleanRunUpgrades
<1>1. Init => CleanInv
  <2> SUFFICES ASSUME Init PROVE CleanInv OBVIOUS
  <2>1. ~Exists BY StatementsOf DEF Init, Exists
  <2> QED BY <2>1 DEF Init, CleanInv, RowMade, RowMadeLater, LastRecorded, CleanRunUpgrades
<1>2. CleanInv => CleanRunUpgrades BY DEF CleanInv
<1> QED BY <1>1, <1>2, Invariance, NextClean, PTL DEF Spec

=============================================================================
