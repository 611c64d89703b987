-------------------------- MODULE PrioritiesProofs --------------------------
(***************************************************************************)
(* Proofs about Priorities, for any number of sessions, rows, numbers and  *)
(* calls: every change is stamped (ChangesStamped), an exchange that was   *)
(* not overtaken is atomic (ExchangesAtomically), and two rows have one    *)
(* priority only if an exchange was overtaken (DistinctUnlessCrossed).     *)
(*                                                                         *)
(* The lock of the version lets one session write at a time, and the       *)
(* sequence is ahead of all that is written or read.                       *)
(***************************************************************************)
EXTENDS Priorities, TLAPS

-----------------------------------------------------------------------------
(* Types *)

LEMMA InitType == Init => TypeOK
BY ConstantsAssumption DEF Init, TypeOK, Gone, Kept

LEMMA ReleaseType ==
    ASSUME TypeOK, NEW w \in Sessions, Release(w)
    PROVE  /\ nextpri' \in Nat \ {0} /\ used' \in SUBSET Ids /\ calls' \in Nat
           /\ op' \in [Sessions -> {"none", "changepri", "insert", "delete"}]
           /\ pc' \in [Sessions -> {"idle", "read2", "lock1", "write1", "lock2", "write2", "commit"}]
           /\ id1' \in [Sessions -> Ids \union {NoId}]
           /\ id2' \in [Sessions -> Ids \union {NoId}]
           /\ pri1' \in [Sessions -> Nat]
           /\ pri2' \in [Sessions -> Nat]
           /\ draft' \in [Sessions -> [Ids -> Nat \union {Kept}]]
           /\ rowLock' \in [Ids -> Sessions \union {NoSession}]
           /\ verLock' \in Sessions \union {NoSession}
BY DEF Release, GoTo, TypeOK

LEMMA SeenType ==
    ASSUME TypeOK, NEW w \in Sessions, NEW i \in Ids PROVE Seen(w, i) \in Nat
BY DEF TypeOK, Seen, Kept

LEMMA ReleaseOthers ==
    ASSUME TypeOK, NEW w \in Sessions, Release(w)
    PROVE  /\ pc'[w] = "idle" /\ op'[w] = "none" /\ pri1'[w] = 0 /\ pri2'[w] = 0
           /\ \A i \in Ids : draft'[w][i] = Kept /\ rowLock'[i] # w
           /\ verLock' # w
           /\ \A v \in Sessions \ {w} :
                 /\ op'[v] = op[v] /\ pc'[v] = pc[v] /\ id1'[v] = id1[v] /\ id2'[v] = id2[v]
                 /\ pri1'[v] = pri1[v] /\ pri2'[v] = pri2[v] /\ draft'[v] = draft[v]
                 /\ verLock = v => verLock' = v
                 /\ \A i \in Ids : rowLock[i] = v => rowLock'[i] = v
           /\ nextpri' = nextpri /\ used' = used
BY ConstantsAssumption DEF Release, GoTo, TypeOK

\* The row that a statement of w has come to, and what it writes there.
LEMMA TargetType ==
    ASSUME TypeOK, ArgumentsAreRows, ExchangesInOrder, IdleIsIdle,
           NEW w \in Sessions, pc[w] \in {"lock1", "write1", "lock2", "write2"}
    PROVE  Target(w) \in Ids /\ Value(w) \in Nat
<1>1. op[w] # "none" BY DEF IdleIsIdle
<1>2. pc[w] \in {"lock1", "write1"} => op[w] = "changepri" BY DEF ExchangesInOrder, InOrder
<1>3. Target(w) \in Ids BY <1>1, <1>2 DEF ArgumentsAreRows, Target, First
<1>4. Value(w) \in Nat BY DEF Value, TypeOK, NewPri, Gone
<1> QED BY <1>3, <1>4

LEMMA Actions ==
    ASSUME [Next]_vars
    PROVE  \/ UNCHANGED vars
           \/ \E w \in Sessions :
                 \/ \E i, j \in Ids : ChangePri(w, i, j)
                 \/ \E i \in Ids : Insert(w, i)
                 \/ \E i \in Ids : Delete(w, i)
                 \/ ReadSecond(w) \/ LockRow(w) \/ WriteRow(w) \/ Commit(w) \/ RollBack(w)
BY DEF Next, NewCall, Statement, DeadlockVictim, Abort

LEMMA NextType ==
    ASSUME TypeOK, ArgumentsAreRows, ExchangesInOrder, IdleIsIdle, [Next]_vars
    PROVE  TypeOK'
<1>1. CASE UNCHANGED vars
      BY <1>1 DEF vars, tables, args, read, locks, TypeOK
<1>2. ASSUME NEW w \in Sessions, NEW i \in Ids, NEW j \in Ids, ChangePri(w, i, j) PROVE TypeOK'
      BY <1>2 DEF ChangePri, Call, GoTo, TypeOK, tables
<1>3. ASSUME NEW w \in Sessions, NEW i \in Ids, Insert(w, i) PROVE TypeOK'
      BY <1>3 DEF Insert, Call, GoTo, TypeOK, tables
<1>4. ASSUME NEW w \in Sessions, NEW i \in Ids, Delete(w, i) PROVE TypeOK'
      BY <1>4 DEF Delete, Call, GoTo, TypeOK, tables
<1>5. ASSUME NEW w \in Sessions, ReadSecond(w) PROVE TypeOK'
  <2>1. id2[w] \in Ids BY <1>5 DEF ReadSecond, ArgumentsAreRows, IdleIsIdle
  <2> QED BY <1>5, <2>1 DEF ReadSecond, GoTo, TypeOK, tables, args, locks
<1>6. ASSUME NEW w \in Sessions, LockRow(w) PROVE TypeOK'
  <2>1. Target(w) \in Ids BY <1>6, TargetType DEF LockRow
  <2> QED BY <1>6, <2>1 DEF LockRow, AfterRow, GoTo, TypeOK, tables, args, read
<1>7. ASSUME NEW w \in Sessions, WriteRow(w) PROVE TypeOK'
  <2>1. Target(w) \in Ids /\ Value(w) \in Nat BY <1>7, TargetType DEF WriteRow
  <2> QED BY <1>7, <2>1 DEF WriteRow, AfterRow, GoTo, TypeOK, tables, args, read
<1>8. ASSUME NEW w \in Sessions, Commit(w) PROVE TypeOK'
  <2>1. Release(w) BY <1>8 DEF Commit
  <2>2. pri' \in [Ids -> Nat] BY <1>8, SeenType DEF Commit
  <2>3. crossed' \in SUBSET Ids BY <1>8 DEF Commit, TypeOK, Exchanged
  <2>4. stale' \in SUBSET Sessions BY <1>8 DEF Commit
  <2>5. stamp' \in Nat BY <1>8 DEF Commit, TypeOK
  <2> QED BY <2>1, <2>2, <2>3, <2>4, <2>5, ReleaseType DEF TypeOK
<1>9. ASSUME NEW w \in Sessions, RollBack(w) PROVE TypeOK'
  <2>1. Release(w) /\ UNCHANGED tables /\ stale' \in SUBSET Sessions
        BY <1>9 DEF RollBack, TypeOK
  <2> QED BY <2>1, ReleaseType DEF TypeOK, tables
<1> QED BY <1>1, <1>2, <1>3, <1>4, <1>5, <1>6, <1>7, <1>8, <1>9, Actions

-----------------------------------------------------------------------------
(* Each part of the invariant *)

LEMMA NextArguments ==
    ASSUME TypeOK, ArgumentsAreRows, [Next]_vars PROVE ArgumentsAreRows'
<1>1. CASE UNCHANGED vars BY <1>1 DEF vars, args, ArgumentsAreRows
<1>2. ASSUME NEW w \in Sessions, NEW i \in Ids, NEW j \in Ids, ChangePri(w, i, j)
      PROVE  ArgumentsAreRows'
      BY <1>2 DEF ChangePri, Call, TypeOK, ArgumentsAreRows
<1>3. ASSUME NEW w \in Sessions, NEW i \in Ids, Insert(w, i) \/ Delete(w, i)
      PROVE  ArgumentsAreRows'
      BY <1>3 DEF Insert, Delete, Call, TypeOK, ArgumentsAreRows
<1>4. ASSUME NEW w \in Sessions, ReadSecond(w) \/ LockRow(w) \/ WriteRow(w)
      PROVE  ArgumentsAreRows'
      BY <1>4 DEF ReadSecond, LockRow, WriteRow, args, ArgumentsAreRows
<1>5. ASSUME NEW w \in Sessions, Release(w) PROVE ArgumentsAreRows'
      BY <1>5 DEF Release, TypeOK, ArgumentsAreRows
<1> QED BY <1>1, <1>2, <1>3, <1>4, <1>5, Actions DEF Commit, RollBack

LEMMA NextIdle ==
    ASSUME TypeOK, ArgumentsAreRows, ExchangesInOrder, IdleIsIdle, [Next]_vars PROVE IdleIsIdle'
<1>1. CASE UNCHANGED vars BY <1>1 DEF vars, args, read, locks, IdleIsIdle
<1>2. ASSUME NEW w \in Sessions, NEW i \in Ids, NEW j \in Ids, ChangePri(w, i, j)
      PROVE  IdleIsIdle'
      BY <1>2 DEF ChangePri, Call, GoTo, TypeOK, IdleIsIdle
<1>3. ASSUME NEW w \in Sessions, NEW i \in Ids, Insert(w, i) \/ Delete(w, i)
      PROVE  IdleIsIdle'
      BY <1>3 DEF Insert, Delete, Call, GoTo, TypeOK, IdleIsIdle
<1>4. ASSUME NEW w \in Sessions, ReadSecond(w) PROVE IdleIsIdle'
      BY <1>4 DEF ReadSecond, GoTo, args, locks, TypeOK, IdleIsIdle
<1>5. ASSUME NEW w \in Sessions, LockRow(w) PROVE IdleIsIdle'
  <2>1. Target(w) \in Ids BY <1>5, TargetType DEF LockRow
  <2> QED BY <1>5, <2>1 DEF LockRow, AfterRow, GoTo, args, read, TypeOK, IdleIsIdle
<1>6. ASSUME NEW w \in Sessions, WriteRow(w) PROVE IdleIsIdle'
  <2>1. Target(w) \in Ids BY <1>6, TargetType DEF WriteRow
  <2> QED BY <1>6, <2>1 DEF WriteRow, AfterRow, GoTo, args, read, TypeOK, IdleIsIdle
<1>7. ASSUME NEW w \in Sessions, Release(w) PROVE IdleIsIdle'
      BY <1>7, ConstantsAssumption DEF Release, GoTo, TypeOK, IdleIsIdle, Gone
<1> QED BY <1>1, <1>2, <1>3, <1>4, <1>5, <1>6, <1>7, Actions DEF Commit, RollBack

\* The row that w is about to write is locked by w.
LEMMA WritesLocked ==
    ASSUME TypeOK, ArgumentsAreRows, ExchangesInOrder, IdleIsIdle, InsertsApart, DeletesOnly,
           NEW w \in Sessions, pc[w] \in {"write1", "write2"}
    PROVE  rowLock[Target(w)] = w
<1>1. CASE op[w] = "changepri" BY <1>1 DEF ExchangesInOrder, InOrder
<1>2. CASE op[w] = "insert" BY <1>2 DEF InsertsApart, Apart, Target, First
<1>3. CASE op[w] = "delete" BY <1>3 DEF DeletesOnly, Target, First
<1>4. op[w] # "none" BY DEF IdleIsIdle
<1> QED BY <1>1, <1>2, <1>3, <1>4 DEF TypeOK

\* A row with an uncommitted change has been inserted, if only by that change.
LEMMA DraftsUsed ==
    ASSUME OneWriter, RowsUsed,
           NEW w \in Sessions, NEW i \in Ids, draft[w][i] # Kept
    PROVE  i \in used
BY ConstantsAssumption DEF OneWriter, RowsUsed

LEMMA NextOneWriter ==
    ASSUME TypeOK, ArgumentsAreRows, ExchangesInOrder, IdleIsIdle, OneWriter, InsertsApart,
           DeletesOnly, RowsUsed, [Next]_vars
    PROVE  OneWriter'
<1>1. CASE UNCHANGED vars BY <1>1 DEF vars, locks, OneWriter
<1>2. ASSUME NEW w \in Sessions, NEW i \in Ids, NEW j \in Ids, ChangePri(w, i, j)
      PROVE  OneWriter'
      BY <1>2 DEF ChangePri, Call, OneWriter
<1>3. ASSUME NEW w \in Sessions, NEW i \in Ids, Insert(w, i) PROVE OneWriter'
      BY <1>3, DraftsUsed DEF Insert, Call, OneWriter, TypeOK
<1>4. ASSUME NEW w \in Sessions, NEW i \in Ids, Delete(w, i) PROVE OneWriter'
      BY <1>4 DEF Delete, Call, OneWriter
<1>5. ASSUME NEW w \in Sessions, ReadSecond(w) PROVE OneWriter'
      BY <1>5 DEF ReadSecond, locks, OneWriter
<1>6. ASSUME NEW w \in Sessions, LockRow(w) PROVE OneWriter'
  <2>1. Target(w) \in Ids BY <1>6, TargetType DEF LockRow
  <2> QED BY <1>6, <2>1, ConstantsAssumption DEF LockRow, RowFree, TypeOK, OneWriter
<1>7. ASSUME NEW w \in Sessions, WriteRow(w) PROVE OneWriter'
  <2>1. Target(w) \in Ids /\ rowLock[Target(w)] = w BY <1>7, TargetType, WritesLocked DEF WriteRow
  <2> QED BY <1>7, <2>1, ConstantsAssumption DEF WriteRow, VersionFree, TypeOK, OneWriter
<1>8. ASSUME NEW w \in Sessions, Release(w) PROVE OneWriter'
      BY <1>8, ReleaseOthers DEF OneWriter
<1> QED BY <1>1, <1>2, <1>3, <1>4, <1>5, <1>6, <1>7, <1>8, Actions DEF Commit, RollBack

\* A commit changes only rows that its session has locked.
LEMMA CommitsLocked ==
    ASSUME TypeOK, OneWriter, NEW w \in Sessions, Commit(w), NEW i \in Ids, rowLock[i] # w
    PROVE  pri'[i] = pri[i] /\ draft[w][i] = Kept
BY DEF OneWriter, Commit, Seen

\* Only commits change the table, the version, or the history.
LEMMA OnlyCommits == ASSUME [Next]_vars PROVE UNCHANGED tables \/ \E w \in Sessions : Commit(w)
BY Actions DEF vars, ChangePri, Insert, Delete, Call, ReadSecond, LockRow, WriteRow, RollBack

LEMMA NextRowsUsed ==
    ASSUME TypeOK, ArgumentsAreRows, ExchangesInOrder, IdleIsIdle, OneWriter, RowsUsed, [Next]_vars
    PROVE  RowsUsed'
<1>1. CASE UNCHANGED vars BY <1>1 DEF vars, tables, locks, RowsUsed
<1>2. ASSUME NEW w \in Sessions, NEW i \in Ids, NEW j \in Ids, ChangePri(w, i, j)
      PROVE  RowsUsed'
      BY <1>2 DEF ChangePri, Call, tables, RowsUsed
<1>3. ASSUME NEW w \in Sessions, NEW i \in Ids, Insert(w, i) \/ Delete(w, i) PROVE RowsUsed'
      BY <1>3 DEF Insert, Delete, Call, tables, TypeOK, RowsUsed
<1>4. ASSUME NEW w \in Sessions, ReadSecond(w) \/ WriteRow(w) PROVE RowsUsed'
      BY <1>4 DEF ReadSecond, WriteRow, tables, locks, RowsUsed
<1>5. ASSUME NEW w \in Sessions, LockRow(w) PROVE RowsUsed'
  <2>1. Target(w) \in Ids BY <1>5, TargetType DEF LockRow
  <2>2. Seen(w, Target(w)) # Gone => Target(w) \in used
        BY <2>1, DraftsUsed DEF Seen, RowsUsed
  <2> QED BY <1>5, <2>1, <2>2 DEF LockRow, tables, TypeOK, RowsUsed
<1>6. ASSUME NEW w \in Sessions, Commit(w) PROVE RowsUsed'
  <2>1. \A i \in Ids : pri'[i] = Seen(w, i) BY <1>6 DEF Commit
  <2>2. used' = used /\ \A i \in Ids : rowLock'[i] \in {NoSession, rowLock[i]}
        BY <1>6 DEF Commit, Release
  <2> QED BY <2>1, <2>2, DraftsUsed DEF Seen, RowsUsed
<1>7. ASSUME NEW w \in Sessions, RollBack(w) PROVE RowsUsed'
      BY <1>7 DEF RollBack, Release, tables, RowsUsed
<1> QED BY <1>1, <1>2, <1>3, <1>4, <1>5, <1>6, <1>7, Actions

LEMMA NextSequence ==
    ASSUME TypeOK, ArgumentsAreRows, ExchangesInOrder, IdleIsIdle, SequenceAhead, [Next]_vars
    PROVE  SequenceAhead'
<1>1. CASE UNCHANGED vars BY <1>1 DEF vars, tables, read, SequenceAhead
<1>2. ASSUME NEW w \in Sessions, NEW i \in Ids, NEW j \in Ids, ChangePri(w, i, j)
      PROVE  SequenceAhead'
      BY <1>2 DEF ChangePri, Call, tables, TypeOK, SequenceAhead
<1>3. ASSUME NEW w \in Sessions, NEW i \in Ids, Insert(w, i) \/ Delete(w, i)
      PROVE  SequenceAhead'
      BY <1>3 DEF Insert, Delete, Call, tables, SequenceAhead
<1>4. ASSUME NEW w \in Sessions, ReadSecond(w) PROVE SequenceAhead'
  <2>1. id2[w] \in Ids BY <1>4 DEF ReadSecond, ArgumentsAreRows, IdleIsIdle
  <2> QED BY <1>4, <2>1 DEF ReadSecond, tables, TypeOK, SequenceAhead
<1>5. ASSUME NEW w \in Sessions, LockRow(w) PROVE SequenceAhead'
      BY <1>5 DEF LockRow, tables, read, SequenceAhead
<1>6. ASSUME NEW w \in Sessions, WriteRow(w) PROVE SequenceAhead'
  <2>1. Target(w) \in Ids /\ Value(w) \in Nat BY <1>6, TargetType DEF WriteRow
  <2>2. Value(w) < nextpri' /\ nextpri' \in Nat /\ nextpri <= nextpri'
        BY <1>6 DEF WriteRow, Value, NewPri, Gone, TypeOK, SequenceAhead
  <2>3. \A v \in Sessions, i \in Ids : draft'[v][i] < nextpri'
        BY <1>6, <2>1, <2>2 DEF WriteRow, TypeOK, SequenceAhead, Kept
  <2>4. /\ \A i \in Ids : pri'[i] < nextpri'
        /\ \A v \in Sessions : pri1'[v] < nextpri' /\ pri2'[v] < nextpri'
        BY <1>6, <2>2 DEF WriteRow, tables, read, TypeOK, SequenceAhead
  <2> QED BY <2>3, <2>4 DEF SequenceAhead
<1>7. ASSUME NEW w \in Sessions, Release(w), \A i \in Ids : pri'[i] \in {pri[i], Seen(w, i)}
      PROVE  SequenceAhead'
  <2>1. \A i \in Ids : pri'[i] < nextpri' BY <1>7 DEF Release, Seen, TypeOK, SequenceAhead
  <2>2. \A v \in Sessions : pri1'[v] < nextpri' /\ pri2'[v] < nextpri'
        BY <1>7, ReleaseOthers DEF TypeOK, SequenceAhead
  <2>3. \A v \in Sessions, i \in Ids : draft'[v][i] < nextpri'
        BY <1>7, ReleaseOthers DEF TypeOK, SequenceAhead, Kept
  <2> QED BY <2>1, <2>2, <2>3 DEF SequenceAhead
<1>8. ASSUME NEW w \in Sessions, Commit(w) PROVE SequenceAhead' BY <1>7, <1>8 DEF Commit
<1>9. ASSUME NEW w \in Sessions, RollBack(w) PROVE SequenceAhead'
      BY <1>7, <1>9 DEF RollBack, tables
<1> QED BY <1>1, <1>2, <1>3, <1>4, <1>5, <1>6, <1>8, <1>9, Actions

-----------------------------------------------------------------------------
(* New rows and deleted rows *)

\* The commit of an insert gives its row the priority it has drafted, and changes
\* no other row; that of a delete takes rows away; that of any call leaves alone
\* the rows of others.
LEMMA InsertCommits ==
    ASSUME InsertsApart, NEW w \in Sessions, op[w] = "insert", Commit(w)
    PROVE  /\ id2[w] \in Ids => pri'[id2[w]] = Seen(w, id2[w])
           /\ \A i \in Ids : i # id2[w] => pri'[i] = pri[i]
BY DEF InsertsApart, Apart, Commit, Seen

LEMMA DeleteCommits ==
    ASSUME DeletesOnly, NEW w \in Sessions, op[w] = "delete", Commit(w)
    PROVE  \A i \in Ids : pri'[i] \in {pri[i], Gone}
BY DEF DeletesOnly, Commit, Seen

LEMMA NextInserts ==
    ASSUME TypeOK, ArgumentsAreRows, ExchangesInOrder, IdleIsIdle, OneWriter, InsertsApart,
           DeletesOnly, RowsUsed, SequenceAhead, [Next]_vars
    PROVE  InsertsApart'
<1> SUFFICES ASSUME NEW u \in Sessions, op'[u] = "insert" PROVE Apart(u)'
    BY DEF InsertsApart, Apart
<1>0. op[u] = "insert" => Apart(u) BY DEF InsertsApart, Apart
<1>1. CASE UNCHANGED vars
      BY <1>0, <1>1 DEF vars, tables, args, read, locks, Apart, ReadFirst, ReadBoth
<1>2. ASSUME NEW w \in Sessions, NEW i \in Ids, NEW j \in Ids, ChangePri(w, i, j)
      PROVE  Apart(u)'
  <2>1. op[u] = "insert" /\ u # w BY <1>2 DEF ChangePri, Call, TypeOK
  <2>2. pri2[w] = Gone /\ (pri1'[w] # Gone => i # id2[u])
        BY <1>0, <1>2, <2>1 DEF ChangePri, Call, TypeOK, IdleIsIdle, Apart
  <2> QED BY <1>0, <1>2, <2>1, <2>2
          DEF ChangePri, Call, GoTo, tables, TypeOK, Apart, ReadFirst, ReadBoth
<1>3. ASSUME NEW w \in Sessions, NEW i \in Ids, Insert(w, i) PROVE Apart(u)'
  <2>1. CASE w = u
    <3>1. op'[u] = "insert" /\ id2'[u] = i /\ i \notin used /\ pc'[u] = "write2"
          BY <1>3, <2>1 DEF Insert, Call, GoTo, TypeOK
    <3>2. \A k \in Ids : draft[u][k] = Kept BY <1>3, <2>1 DEF Insert, Call, IdleIsIdle
    <3>3. \A v \in Sessions : ReadFirst(v)' => id1'[v] # i
          BY <1>3, <2>1, <3>1 DEF Insert, Call, TypeOK, ReadFirst, ExchangesInOrder, InOrder
    <3>4. \A v \in Sessions : ReadBoth(v)' => id2'[v] # i
          BY <1>3, <2>1, <3>1 DEF Insert, Call, TypeOK, ReadFirst, ReadBoth, ExchangesInOrder, InOrder
    <3>5. \A v \in Sessions \ {u} : op'[v] = "insert" => id2'[v] # i
          BY <1>3, <2>1, <3>1 DEF Insert, Call, TypeOK, InsertsApart, Apart
    <3> QED BY <1>3, <2>1, <3>1, <3>2, <3>3, <3>4, <3>5
            DEF Insert, Call, tables, TypeOK, Apart, RowsUsed
  <2>2. CASE w # u
    <3>1. op[u] = "insert" BY <1>3, <2>2 DEF Insert, Call, TypeOK
    <3> QED BY <1>0, <1>3, <2>2, <3>1
            DEF Insert, Call, GoTo, tables, TypeOK, Apart, ReadFirst, ReadBoth
  <2> QED BY <2>1, <2>2
<1>4. ASSUME NEW w \in Sessions, NEW i \in Ids, Delete(w, i) PROVE Apart(u)'
  <2>1. op[u] = "insert" /\ u # w BY <1>4 DEF Delete, Call, TypeOK
  <2> QED BY <1>0, <1>4, <2>1
          DEF Delete, Call, GoTo, tables, TypeOK, Apart, ReadFirst, ReadBoth
<1>5. ASSUME NEW w \in Sessions, ReadSecond(w) PROVE Apart(u)'
  <2>1. op[u] = "insert" /\ u # w
        BY <1>5 DEF ReadSecond, args, ExchangesInOrder, InOrder
  <2>2. pri[id2[w]] # Gone => id2[w] # id2[u] BY <1>0, <2>1 DEF Apart
  <2> QED BY <1>0, <1>5, <2>1, <2>2
          DEF ReadSecond, GoTo, tables, args, locks, TypeOK, Apart, ReadFirst, ReadBoth
<1>6. ASSUME NEW w \in Sessions, LockRow(w) PROVE Apart(u)'
  <2>1. op[u] = "insert" BY <1>6 DEF LockRow, args
  <2>2. u # w BY <1>0, <1>6, <2>1 DEF LockRow, Apart
  <2>3. rowLock'[id2[u]] = u
        BY <1>0, <1>6, <2>1, <2>2, TargetType, ConstantsAssumption
           DEF LockRow, RowFree, TypeOK, Apart
  <2> QED BY <1>0, <1>6, <2>1, <2>2, <2>3
          DEF LockRow, AfterRow, GoTo, tables, args, read, TypeOK, Apart, ReadFirst, ReadBoth
<1>7. ASSUME NEW w \in Sessions, WriteRow(w) PROVE Apart(u)'
  <2>1. op[u] = "insert" BY <1>7 DEF WriteRow, args
  <2>2. CASE w # u
        BY <1>0, <1>7, <2>1, <2>2
        DEF WriteRow, AfterRow, GoTo, tables, args, read, TypeOK, Apart, ReadFirst, ReadBoth
  <2>3. CASE w = u
    <3>1. pc[u] = "write2" /\ Target(u) = id2[u] /\ Value(u) = nextpri
          BY <1>0, <1>7, <2>1, <2>3 DEF WriteRow, Apart, Target, First, Value, NewPri
    <3>2. \A i \in Ids : pri[i] # nextpri BY DEF SequenceAhead, TypeOK
    <3>3. id2[u] \in Ids BY <2>1 DEF ArgumentsAreRows
    <3>4. /\ draft'[u][id2[u]] = nextpri
          /\ \A i \in Ids : i # id2[u] => draft'[u][i] = Kept
          BY <1>0, <1>7, <2>1, <2>3, <3>1, <3>3 DEF WriteRow, TypeOK, Apart
    <3>5. pc'[u] = "commit"
          BY <1>7, <2>3, <3>1 DEF WriteRow, AfterRow, First, GoTo, TypeOK
    <3>6. UNCHANGED <<pri, op, id1, id2, pri1, pri2, rowLock, used>>
          BY <1>7 DEF WriteRow, tables, args, read
    <3> QED BY <1>0, <2>1, <3>2, <3>4, <3>5, <3>6 DEF Apart, ReadFirst, ReadBoth
  <2> QED BY <2>2, <2>3
<1>8. ASSUME NEW w \in Sessions, Release(w),
             Commit(w) \/ pri' = pri
      PROVE  Apart(u)'
  <2>1. u # w /\ op[u] = "insert" BY <1>8, ReleaseOthers
  <2>2. id2[u] \in Ids /\ rowLock[id2[u]] = u BY <1>0, <2>1 DEF ArgumentsAreRows, Apart
  <2>3. pri'[id2[u]] = Gone BY <1>0, <1>8, <2>1, <2>2, CommitsLocked DEF Apart
  <2>4. draft[u][id2[u]] # Kept => \A i \in Ids : pri'[i] = pri[i]
        BY <1>8, <2>1, <2>2 DEF OneWriter, Commit, Seen
  <2> QED BY <1>0, <1>8, <2>1, <2>2, <2>3, <2>4, ReleaseOthers
          DEF Apart, ReadFirst, ReadBoth
<1>9. ASSUME NEW w \in Sessions, Commit(w) \/ RollBack(w) PROVE Apart(u)'
      BY <1>8, <1>9 DEF Commit, RollBack, tables
<1> QED BY <1>1, <1>2, <1>3, <1>4, <1>5, <1>6, <1>7, <1>9, Actions

LEMMA NextDeletes ==
    ASSUME TypeOK, ArgumentsAreRows, ExchangesInOrder, IdleIsIdle, OneWriter, InsertsApart,
           DeletesOnly, RowsUsed, [Next]_vars
    PROVE  DeletesOnly'
<1>1. CASE UNCHANGED vars BY <1>1 DEF vars, tables, args, locks, DeletesOnly
<1>2. ASSUME NEW w \in Sessions, NEW i \in Ids, NEW j \in Ids, ChangePri(w, i, j)
      PROVE  DeletesOnly'
      BY <1>2 DEF ChangePri, Call, GoTo, tables, TypeOK, DeletesOnly
<1>3. ASSUME NEW w \in Sessions, NEW i \in Ids, Insert(w, i) PROVE DeletesOnly'
  <2>1. \A v \in Sessions : op[v] = "delete" /\ pc[v] = "write2" => id2[v] \in Ids /\ id2[v] # i
        BY <1>3 DEF Insert, DeletesOnly, RowsUsed, ArgumentsAreRows
  <2> QED BY <1>3, <2>1 DEF Insert, Call, GoTo, tables, TypeOK, DeletesOnly
<1>4. ASSUME NEW w \in Sessions, NEW i \in Ids, Delete(w, i) PROVE DeletesOnly'
      BY <1>4 DEF Delete, Call, GoTo, tables, TypeOK, DeletesOnly, IdleIsIdle
<1>5. ASSUME NEW w \in Sessions, ReadSecond(w) PROVE DeletesOnly'
      BY <1>5 DEF ReadSecond, GoTo, tables, args, locks, TypeOK, DeletesOnly
<1>6. ASSUME NEW w \in Sessions, LockRow(w) PROVE DeletesOnly'
  <2>1. Target(w) \in Ids BY <1>6, TargetType DEF LockRow
  <2>2. ASSUME NEW v \in Sessions, op[v] = "delete", pc'[v] = "write2"
        PROVE  pri[id2[v]] # Gone /\ rowLock'[id2[v]] = v
    <3>1. CASE v # w
          BY <1>6, <2>1, <2>2, <3>1, ConstantsAssumption
             DEF LockRow, RowFree, GoTo, TypeOK, DeletesOnly, ArgumentsAreRows
    <3>2. CASE v = w
      <4>1. pc[w] = "lock2" /\ Target(w) = id2[w]
            BY <1>6, <2>2, <3>2 DEF LockRow, DeletesOnly, Target, First
      <4>2. Seen(w, id2[w]) # Gone /\ rowLock'[id2[w]] = w
            BY <1>6, <2>1, <2>2, <3>2, <4>1 DEF LockRow, AfterRow, First, GoTo, TypeOK
      <4> QED BY <2>1, <2>2, <3>2, <4>1, <4>2 DEF Seen, DeletesOnly
    <3> QED BY <3>1, <3>2
  <2>3. \A v \in Sessions : op[v] = "delete" => pc'[v] \in {"lock2", "write2", "commit"}
        BY <1>6 DEF LockRow, AfterRow, First, GoTo, TypeOK, DeletesOnly
  <2> QED BY <1>6, <2>2, <2>3 DEF LockRow, tables, args, DeletesOnly
<1>7. ASSUME NEW w \in Sessions, WriteRow(w) PROVE DeletesOnly'
  <2>1. Target(w) \in Ids BY <1>7, TargetType DEF WriteRow
  <2>2. \A v \in Sessions : op[v] = "delete" => pc'[v] \in {"lock2", "write2", "commit"}
        BY <1>7 DEF WriteRow, AfterRow, First, GoTo, TypeOK, DeletesOnly
  <2>3. \A v \in Sessions : op[v] = "delete" /\ pc'[v] = "write2" => pc[v] = "write2"
        BY <1>7 DEF WriteRow, AfterRow, First, GoTo, TypeOK, DeletesOnly
  <2>4. op[w] = "delete" => Target(w) = id2[w] /\ Value(w) = Gone /\ pc[w] = "write2"
        BY <1>7 DEF WriteRow, DeletesOnly, Target, First, Value
  <2>5. \A v \in Sessions, i \in Ids : op[v] = "delete" /\ draft'[v][i] # Kept =>
            draft'[v][i] = Gone /\ pri[i] # Gone
        BY <1>7, <2>1, <2>4 DEF WriteRow, TypeOK, DeletesOnly
  <2> QED BY <1>7, <2>2, <2>3, <2>5 DEF WriteRow, tables, args, DeletesOnly
<1>8. ASSUME NEW w \in Sessions, Release(w), Commit(w) \/ pri' = pri PROVE DeletesOnly'
  <2>1. \A v \in Sessions : op'[v] = "delete" =>
            /\ v # w /\ op[v] = "delete" /\ pc'[v] = pc[v] /\ id2'[v] = id2[v]
            /\ draft'[v] = draft[v] /\ id2[v] \in Ids
        BY <1>8, ReleaseOthers DEF ArgumentsAreRows
  <2>2. \A v \in Sessions \ {w}, i \in Ids : rowLock[i] = v => rowLock'[i] = v /\ pri'[i] = pri[i]
        BY <1>8, ReleaseOthers, CommitsLocked
  <2> QED BY <2>1, <2>2 DEF DeletesOnly, OneWriter
<1>9. ASSUME NEW w \in Sessions, Commit(w) \/ RollBack(w) PROVE DeletesOnly'
      BY <1>8, <1>9 DEF Commit, RollBack, tables
<1> QED BY <1>1, <1>2, <1>3, <1>4, <1>5, <1>6, <1>7, <1>9, Actions

-----------------------------------------------------------------------------
(* Exchanges *)

\* A commit changes the priority of a row that is there by exchanging it or by
\* deleting it, and makes a row appear only if it has inserted it.
LEMMA CommitEffects ==
    ASSUME TypeOK, InsertsApart, NEW w \in Sessions, Commit(w), NEW i \in Ids
    PROVE  /\ pri[i] # Gone => pri'[i] \in {Gone, pri[i]} \/ i \in Exchanged(w)
           /\ pri'[i] # Gone /\ pri[i] = Gone => draft[w][i] \notin {Kept, Gone}
BY DEF Commit, Seen, Exchanged

\* A row that an exchange has read and that is gone does not come back.
LEMMA AbsentStays ==
    ASSUME TypeOK, ArgumentsAreRows, ExchangesInOrder, IdleIsIdle, InsertsApart, DeletesOnly,
           NEW w \in Sessions, Commit(w), NEW v \in Sessions
    PROVE  /\ ReadFirst(v) /\ pri[id1[v]] = Gone => pri'[id1[v]] = Gone
           /\ ReadBoth(v) /\ pri[id2[v]] = Gone => pri'[id2[v]] = Gone
<1>1. \A i \in Ids : pri[i] = Gone /\ pri'[i] # Gone => op[w] = "insert" /\ i = id2[w]
      BY CommitEffects
         DEF ExchangesInOrder, InOrder, DeletesOnly, InsertsApart, Apart, IdleIsIdle, TypeOK
<1>2. op[w] = "insert" => Apart(w) BY DEF InsertsApart
<1> QED BY <1>1, <1>2 DEF Apart, ArgumentsAreRows, ReadFirst, ReadBoth

LEMMA NextReadings ==
    ASSUME TypeOK, ArgumentsAreRows, ExchangesInOrder, IdleIsIdle, OneWriter, InsertsApart,
           DeletesOnly, RowsUsed, ReadingsHold, [Next]_vars
    PROVE  ReadingsHold'
<1>1. CASE UNCHANGED vars
      BY <1>1 DEF vars, tables, args, read, ReadingsHold, ReadFirst, ReadBoth
<1>2. ASSUME NEW w \in Sessions, NEW i \in Ids, NEW j \in Ids, ChangePri(w, i, j)
      PROVE  ReadingsHold'
      BY <1>2 DEF ChangePri, Call, tables, TypeOK, ReadingsHold, ReadFirst, ReadBoth, IdleIsIdle
<1>3. ASSUME NEW w \in Sessions, NEW i \in Ids, Insert(w, i) \/ Delete(w, i)
      PROVE  ReadingsHold'
      BY <1>3 DEF Insert, Delete, Call, tables, TypeOK, ReadingsHold, ReadFirst, ReadBoth
<1>4. ASSUME NEW w \in Sessions, ReadSecond(w) PROVE ReadingsHold'
  <2>1. id2[w] \in Ids /\ pri2'[w] = pri[id2[w]]
        BY <1>4 DEF ReadSecond, TypeOK, ArgumentsAreRows, IdleIsIdle
  <2>2. \A v \in Sessions \ {w} : pri2'[v] = pri2[v] BY <1>4 DEF ReadSecond, TypeOK
  <2>3. UNCHANGED <<pri, stale, op, id1, id2, pri1>> BY <1>4 DEF ReadSecond, tables, args
  <2> QED BY <2>1, <2>2, <2>3 DEF ReadingsHold, ReadFirst, ReadBoth
<1>5. ASSUME NEW w \in Sessions, LockRow(w) \/ WriteRow(w) PROVE ReadingsHold'
      BY <1>5 DEF LockRow, WriteRow, tables, args, read, ReadingsHold, ReadFirst, ReadBoth
<1>6. ASSUME NEW w \in Sessions, Commit(w) PROVE ReadingsHold'
  <2> SUFFICES ASSUME NEW v \in Sessions, v \notin stale', ReadFirst(v)'
               PROVE  /\ pri'[id1'[v]] \in {Gone, pri1'[v]}
                      /\ ReadBoth(v)' => pri'[id2'[v]] \in {Gone, pri2'[v]}
                      /\ ReadBoth(v)' /\ id1'[v] = id2'[v] => pri1'[v] = pri2'[v]
      BY DEF ReadingsHold, ReadBoth
  <2>0. Release(w) BY <1>6 DEF Commit
  <2>1. v # w BY <2>0, ReleaseOthers DEF ReadFirst
  <2>2. UNCHANGED <<op[v], pc[v], id1[v], id2[v], pri1[v], pri2[v]>> BY <2>0, <2>1, ReleaseOthers
  <2>3. /\ v \notin stale /\ id1[v] \notin Exchanged(w)
        /\ ReadBoth(v) => id2[v] \notin Exchanged(w)
        BY <1>6, <2>1 DEF Commit, ExchangesInOrder, InOrder, ReadBoth, ReadFirst
  <2>4. ReadFirst(v) /\ (ReadBoth(v)' <=> ReadBoth(v)) BY <2>2 DEF ReadFirst, ReadBoth
  <2>5. /\ id1[v] \in Ids /\ pri[id1[v]] \in {Gone, pri1[v]}
        /\ ReadBoth(v) => id2[v] \in Ids /\ pri[id2[v]] \in {Gone, pri2[v]}
        /\ ReadBoth(v) /\ id1[v] = id2[v] => pri1[v] = pri2[v]
        BY <2>3, <2>4 DEF ReadingsHold, ArgumentsAreRows, ReadFirst, ReadBoth
  <2>6. /\ pri[id1[v]] = Gone => pri'[id1[v]] = Gone
        /\ ReadBoth(v) /\ pri[id2[v]] = Gone => pri'[id2[v]] = Gone
        BY <1>6, <2>4, AbsentStays
  <2> QED BY <1>6, <2>2, <2>3, <2>4, <2>5, <2>6, CommitEffects
<1>7. ASSUME NEW w \in Sessions, RollBack(w) PROVE ReadingsHold'
      BY <1>7, ReleaseOthers DEF RollBack, tables, ReadingsHold, ReadFirst, ReadBoth, Gone
<1> QED BY <1>1, <1>2, <1>3, <1>4, <1>5, <1>6, <1>7, Actions

\* The session that takes a step keeps its order.

LEMMA LockRowInOrder ==
    ASSUME TypeOK, ArgumentsAreRows, ExchangesInOrder, IdleIsIdle, ReadingsHold,
           NEW w \in Sessions, LockRow(w)
    PROVE  InOrder(w)'
<1>0. InOrder(w) BY DEF ExchangesInOrder, InOrder, InOrder
<1>1. Target(w) \in Ids /\ Value(w) \in Nat BY TargetType DEF LockRow
<1>2. UNCHANGED <<pri, stale, op, id1, id2, pri1, pri2, used, draft, verLock>>
      BY DEF LockRow, tables, args, read
<1>3. pc[w] \in {"lock1", "lock2"} BY DEF LockRow
<1>4. (ReadFirst(w)' <=> ReadFirst(w)) /\ (ReadBoth(w)' <=> ReadBoth(w))
      BY <1>2 DEF ReadFirst, ReadBoth
<1>5. CASE op[w] # "changepri"
  <2>1. pc'[w] \in {"write2", "commit"}
        BY <1>0, <1>3, <1>5 DEF LockRow, AfterRow, First, GoTo, TypeOK, InOrder
  <2> QED BY <1>2, <1>5, <2>1 DEF InOrder
<1>6. CASE op[w] = "changepri"
  <2>1. ReadBoth(w) /\ id1[w] \in Ids /\ id2[w] \in Ids
        BY <1>0, <1>3, <1>6 DEF InOrder, ArgumentsAreRows
  <2>2. /\ pc[w] = "lock1" => pc'[w] \in {"write1", "lock2"}
        /\ pc[w] = "lock2" => pc'[w] \in {"write2", "commit"}
        BY <1>3 DEF LockRow, AfterRow, First, GoTo, TypeOK
  <2>3. /\ pc[w] = "lock1" => Target(w) = id1[w] /\ Value(w) = pri2[w]
        /\ pc[w] = "lock2" => Target(w) = id2[w] /\ Value(w) = pri1[w]
        BY <1>3, <1>6 DEF Target, Value, First
  <2>4. pc'[w] \in {"write1", "write2"} =>
            Target(w)' = Target(w) /\ Seen(w, Target(w)) # Gone /\ rowLock'[Target(w)] = w
        BY <1>1, <1>2, <1>3, <2>2 DEF LockRow, AfterRow, Target, First, GoTo, TypeOK
  <2>5. pc'[w] \in {"lock2", "commit"} =>
            Seen(w, Target(w)) = Gone \/ (Seen(w, Target(w)) = Value(w) /\ rowLock'[Target(w)] = w)
        BY <1>1, <1>3, <2>2 DEF LockRow, AfterRow, First, GoTo, TypeOK
  <2>6. \A i \in Ids : (rowLock[i] = w => rowLock'[i] = w) /\ Seen(w, i)' = Seen(w, i)
        BY <1>1, <1>2 DEF LockRow, TypeOK, Seen
  <2>7. pc[w] = "lock2" /\ w \notin stale => Past(w, id1[w], pri2[w])'
        BY <1>0, <1>2, <1>6, <2>1, <2>6 DEF InOrder, Past
  <2>8. pc'[w] \in {"lock2", "commit"} =>
            IF pc[w] = "lock1" THEN Past(w, id1[w], pri2[w])' ELSE Past(w, id2[w], pri1[w])'
        BY <1>2, <1>3, <2>1, <2>3, <2>5, <2>6 DEF Past
  <2>9. pc'[w] \in {"write1", "write2"} => pri[Target(w)] # Gone
        BY <1>0, <1>1, <1>6, <2>4 DEF Seen, InOrder
  <2>10. pc'[w] = "write1" => \A i \in Ids : draft[w][i] = Kept
        BY <1>0, <1>3, <1>6, <2>2 DEF InOrder
  <2>11. pc'[w] \in {"lock2", "write2", "commit"} /\ w \notin stale =>
            Past(w, id1[w], pri2[w])'
        BY <1>3, <2>2, <2>7, <2>8
  <2>12. pc'[w] = "commit" => Past(w, id2[w], pri1[w])'
        BY <1>3, <2>2, <2>8
  <2>13. pc'[w] \in {"write1", "lock2", "write2", "commit"} BY <1>3, <2>2
  <2>14. pc'[w] \in {"write1", "write2"} => pri'[Target(w)'] # Gone /\ rowLock'[Target(w)'] = w
        BY <1>2, <2>4, <2>9
  <2>15. \A i \in Ids : draft'[w][i] # Kept =>
            i \in {id1'[w], id2'[w]} /\ draft'[w][i] # Gone /\ pri'[i] # Gone
        BY <1>0, <1>2, <1>6 DEF InOrder
  <2>16. ReadBoth(w)' /\ ReadFirst(w)' BY <1>4, <2>1 DEF ReadBoth
  <2>17. id1'[w] \in used' /\ id2'[w] \in used'
        BY <1>0, <1>2, <1>6, <2>1 DEF InOrder, ReadBoth
  <2>18. op'[w] = "changepri" /\ stale' = stale BY <1>2, <1>6
  <2>19. pc'[w] \in {"write1", "lock1"} => \A i \in Ids : draft'[w][i] = Kept
        BY <1>2, <2>10, <2>13
  <2> QED BY <2>11, <2>12, <2>13, <2>14, <2>15, <2>16, <2>17, <2>18, <2>19 DEF InOrder
<1> QED BY <1>5, <1>6

LEMMA WriteRowInOrder ==
    ASSUME TypeOK, ArgumentsAreRows, ExchangesInOrder, IdleIsIdle, ReadingsHold,
           NEW w \in Sessions, WriteRow(w)
    PROVE  InOrder(w)'
<1>0. InOrder(w) BY DEF ExchangesInOrder
<1>1. Target(w) \in Ids /\ Value(w) \in Nat BY TargetType DEF WriteRow
<1>2. UNCHANGED <<pri, stale, op, id1, id2, pri1, pri2, used, rowLock>>
      BY DEF WriteRow, tables, args, read
<1>3. pc[w] \in {"write1", "write2"} BY DEF WriteRow
<1>4. (ReadFirst(w)' <=> ReadFirst(w)) /\ (ReadBoth(w)' <=> ReadBoth(w))
      BY <1>2 DEF ReadFirst, ReadBoth
<1>5. pc'[w] = IF pc[w] = "write1" THEN "lock2" ELSE "commit"
      BY <1>3 DEF WriteRow, AfterRow, First, GoTo, TypeOK
<1>6. CASE op[w] # "changepri" BY <1>2, <1>5, <1>6 DEF InOrder
<1>7. CASE op[w] = "changepri"
  <2>1. ReadBoth(w) /\ id1[w] \in Ids /\ id2[w] \in Ids
        BY <1>0, <1>3, <1>7 DEF InOrder, ArgumentsAreRows
  <2>2. /\ pc[w] = "write1" => Target(w) = id1[w] /\ Value(w) = pri2[w]
        /\ pc[w] = "write2" => Target(w) = id2[w] /\ Value(w) = pri1[w]
        BY <1>3, <1>7 DEF Target, Value, First
  <2>3. Value(w) # Gone /\ Value(w) # Kept
        BY <1>1, <1>3, <2>1, <2>2 DEF ReadBoth, ReadFirst, Kept
  <2>4. pri[Target(w)] # Gone /\ rowLock[Target(w)] = w BY <1>0, <1>3, <1>7 DEF InOrder
  <2>5. /\ draft'[w][Target(w)] = Value(w)
        /\ \A i \in Ids : i # Target(w) => draft'[w][i] = draft[w][i]
        BY <1>1 DEF WriteRow, TypeOK
  <2>6. \A i \in Ids : draft'[w][i] # Kept =>
            i \in {id1'[w], id2'[w]} /\ draft'[w][i] # Gone /\ pri'[i] # Gone
        BY <1>0, <1>2, <1>3, <1>7, <2>2, <2>3, <2>4, <2>5 DEF InOrder
  <2>7. pc[w] = "write1" => Past(w, id1[w], pri2[w])'
        BY <1>2, <2>2, <2>3, <2>4, <2>5 DEF Past, Seen
  <2>8. pc[w] = "write2" => Past(w, id2[w], pri1[w])'
        BY <1>2, <2>2, <2>3, <2>4, <2>5 DEF Past, Seen
  <2>9. pc[w] = "write2" /\ w \notin stale => Past(w, id1[w], pri2[w])'
    <3> SUFFICES ASSUME pc[w] = "write2", w \notin stale PROVE Past(w, id1[w], pri2[w])'
        OBVIOUS
    <3>1. Past(w, id1[w], pri2[w]) BY <1>0, <1>7, <2>1 DEF InOrder
    <3>2. id1[w] = id2[w] => pri1[w] = pri2[w] BY <2>1 DEF ReadingsHold
    <3>3. CASE id1[w] = id2[w] BY <1>2, <2>8, <3>2, <3>3 DEF Past
    <3>4. CASE id1[w] # id2[w] BY <1>2, <2>1, <2>2, <2>5, <3>1, <3>4 DEF Past, Seen
    <3> QED BY <3>3, <3>4
  <2>10. ReadBoth(w)' /\ ReadFirst(w)' BY <1>4, <2>1 DEF ReadBoth
  <2>11. id1'[w] \in used' /\ id2'[w] \in used'
        BY <1>0, <1>2, <1>7, <2>1 DEF InOrder, ReadBoth
  <2>12. op'[w] = "changepri" /\ stale' = stale BY <1>2, <1>7
  <2>13. pc'[w] \in {"lock2", "commit"} BY <1>5
  <2>14. w \notin stale => Past(w, id1[w], pri2[w])' BY <1>3, <2>7, <2>9
  <2>15. pc'[w] = "commit" => Past(w, id2[w], pri1[w])' BY <1>3, <1>5, <2>8
  <2> QED BY <2>6, <2>10, <2>11, <2>12, <2>13, <2>14, <2>15 DEF InOrder
<1> QED BY <1>6, <1>7

\* A session that others pass by, without touching its rows, keeps its order.
LEMMA OthersInOrder ==
    ASSUME TypeOK, ArgumentsAreRows, OneWriter, NEW v \in Sessions, InOrder(v),
           UNCHANGED <<op[v], pc[v], id1[v], id2[v], pri1[v], pri2[v], draft[v]>>,
           verLock' = v => verLock = v,
           \A i \in Ids : rowLock[i] = v => rowLock'[i] = v /\ pri'[i] = pri[i],
           used \subseteq used',
           v \in stale => v \in stale',
           ReadFirst(v) /\ pri[id1[v]] = Gone => pri'[id1[v]] = Gone,
           ReadBoth(v) /\ pri[id2[v]] = Gone => pri'[id2[v]] = Gone
    PROVE  InOrder(v)'
<1>1. (ReadFirst(v)' <=> ReadFirst(v)) /\ (ReadBoth(v)' <=> ReadBoth(v))
      BY DEF ReadFirst, ReadBoth
<1>2. CASE op[v] # "changepri" BY <1>1, <1>2 DEF InOrder
<1>3. CASE op[v] = "changepri"
  <2>1. id1[v] \in Ids /\ id2[v] \in Ids BY <1>3 DEF ArgumentsAreRows
  <2>2. Target(v)' = Target(v) /\ Target(v) \in Ids BY <2>1 DEF Target, First
  <2>3. \A i \in Ids : draft[v][i] # Kept => pri'[i] = pri[i] BY DEF OneWriter
  <2>4. ReadFirst(v) /\ Past(v, id1[v], pri2[v]) => Past(v, id1[v], pri2[v])'
        BY <2>1, <2>3 DEF Past, Seen
  <2>5. ReadBoth(v) /\ Past(v, id2[v], pri1[v]) => Past(v, id2[v], pri1[v])'
        BY <2>1, <2>3 DEF Past, Seen
  <2>6. /\ pc'[v] # "idle" /\ (pc'[v] \in {"read2", "lock1", "write1"} => ReadFirst(v)')
        /\ pc'[v] = "read2" => pri2'[v] = Gone
        /\ ReadFirst(v)' => id1'[v] \in used'
        /\ ReadBoth(v)' => id2'[v] \in used'
        /\ pc'[v] \notin {"read2", "commit"} => ReadBoth(v)'
        /\ verLock' = v => ReadBoth(v)'
        BY <1>1, <1>3 DEF InOrder
  <2>7. \A i \in Ids : draft'[v][i] # Kept =>
            ReadBoth(v)' /\ i \in {id1'[v], id2'[v]} /\ draft'[v][i] # Gone /\ pri'[i] # Gone
        BY <1>1, <1>3, <2>3 DEF InOrder
  <2>8. pc'[v] \in {"lock1", "write1"} => \A i \in Ids : draft'[v][i] = Kept
        BY <1>3 DEF InOrder
  <2>9. pc'[v] \in {"write1", "write2"} => pri'[Target(v)'] # Gone /\ rowLock'[Target(v)'] = v
        BY <1>3, <2>2 DEF InOrder
  <2>10. v \notin stale' /\ ReadBoth(v)' /\ pc'[v] \in {"lock2", "write2", "commit"} =>
            Past(v, id1[v], pri2[v])'
        BY <1>1, <1>3, <2>4 DEF InOrder, ReadBoth
  <2>11. v \notin stale' /\ ReadBoth(v)' /\ pc'[v] = "commit" => Past(v, id2[v], pri1[v])'
        BY <1>1, <1>3, <2>5 DEF InOrder
  <2>12. op'[v] = "changepri" BY <1>3
  <2> QED BY <2>6, <2>7, <2>8, <2>9, <2>10, <2>11, <2>12 DEF InOrder
<1> QED BY <1>2, <1>3

LEMMA NextInOrder ==
    ASSUME TypeOK, ArgumentsAreRows, ExchangesInOrder, IdleIsIdle, OneWriter, InsertsApart,
           DeletesOnly, RowsUsed, ReadingsHold, [Next]_vars
    PROVE  ExchangesInOrder'
<1> SUFFICES ASSUME NEW v \in Sessions PROVE InOrder(v)' BY DEF ExchangesInOrder
<1>0. InOrder(v) BY DEF ExchangesInOrder
<1>1. CASE UNCHANGED vars
      BY <1>0, <1>1, OthersInOrder DEF vars, tables, args, read, locks
<1>2. ASSUME NEW w \in Sessions, NEW i \in Ids, NEW j \in Ids, ChangePri(w, i, j)
      PROVE  InOrder(v)'
  <2>1. CASE v # w
        BY <1>0, <1>2, <2>1, OthersInOrder DEF ChangePri, Call, GoTo, tables, TypeOK
  <2>2. CASE v = w
    <3>1. /\ op'[v] = "changepri" /\ id1'[v] = i /\ id2'[v] = j
          /\ pc'[v] = IF pri[i] = Gone THEN "commit" ELSE "read2"
          /\ pri1'[v] = pri[i] /\ pri2'[v] = Gone
          BY <1>2, <2>2 DEF ChangePri, Call, GoTo, TypeOK, IdleIsIdle
    <3>2. (\A k \in Ids : draft'[v][k] = Kept) /\ verLock' # v
      <4>1. (\A k \in Ids : draft'[v][k] = Kept) /\ verLock' = verLock
            BY <1>2, <2>2 DEF ChangePri, Call, IdleIsIdle
      <4>2. verLock # v BY <1>2, <2>2 DEF ChangePri, Call, IdleIsIdle
      <4> QED BY <4>1, <4>2
    <3>3. pri[i] # Gone => i \in used' BY <1>2 DEF ChangePri, RowsUsed
    <3>4. ~ReadBoth(v)' /\ (ReadFirst(v)' <=> pri[i] # Gone)
          BY <3>1 DEF ReadBoth, ReadFirst
    <3> QED BY <3>1, <3>2, <3>3, <3>4 DEF InOrder
  <2> QED BY <2>1, <2>2
<1>3. ASSUME NEW w \in Sessions, NEW i \in Ids, Insert(w, i) PROVE InOrder(v)'
  <2>1. CASE v # w
    <3>1. UNCHANGED <<op[v], pc[v], id1[v], id2[v], pri1[v], pri2[v], draft[v], verLock, pri, stale>>
          BY <1>3, <2>1 DEF Insert, Call, GoTo, tables, TypeOK
    <3>2. used \subseteq used' BY <1>3 DEF Insert
    <3>3. \A k \in Ids : rowLock[k] = v => rowLock'[k] = v
          BY <1>3, <2>1, ConstantsAssumption DEF Insert, TypeOK, RowsUsed
    <3> QED BY <1>0, <3>1, <3>2, <3>3, OthersInOrder
  <2>2. CASE v = w
        BY <1>3, <2>2 DEF Insert, Call, GoTo, TypeOK, InOrder
  <2> QED BY <2>1, <2>2
<1>4. ASSUME NEW w \in Sessions, NEW i \in Ids, Delete(w, i) PROVE InOrder(v)'
  <2>1. CASE v # w
        BY <1>0, <1>4, <2>1, OthersInOrder DEF Delete, Call, GoTo, tables, TypeOK
  <2>2. CASE v = w
        BY <1>4, <2>2 DEF Delete, Call, GoTo, TypeOK, InOrder
  <2> QED BY <2>1, <2>2
<1>5. ASSUME NEW w \in Sessions, ReadSecond(w) PROVE InOrder(v)'
  <2>1. CASE v # w
        BY <1>0, <1>5, <2>1, OthersInOrder DEF ReadSecond, GoTo, tables, args, locks, TypeOK
  <2>2. CASE v = w
    <3>1. op[v] = "changepri" /\ ReadFirst(v) /\ id2[v] \in Ids /\ pc[v] = "read2"
          BY <1>0, <1>5, <2>2 DEF ReadSecond, InOrder, ArgumentsAreRows
    <3>2. /\ pri2'[v] = pri[id2[v]]
          /\ pc'[v] = IF pri[id2[v]] = Gone THEN "commit" ELSE "lock1"
          BY <1>5, <2>2 DEF ReadSecond, GoTo, TypeOK
    <3>3. UNCHANGED <<pri, stale, op, id1, id2, pri1, used, draft, rowLock, verLock>>
          BY <1>5 DEF ReadSecond, tables, args, locks
    <3>4. ReadFirst(v)' /\ (ReadBoth(v)' <=> pri[id2[v]] # Gone) /\ ~ReadBoth(v)
          BY <1>0, <3>1, <3>2, <3>3 DEF ReadFirst, ReadBoth, InOrder
    <3>5. (\A k \in Ids : draft'[v][k] = Kept) /\ verLock' # v
          BY <1>0, <3>1, <3>3, <3>4 DEF InOrder
    <3>6. id1'[v] \in used' /\ (ReadBoth(v)' => id2'[v] \in used')
          BY <1>0, <3>1, <3>3, <3>4 DEF InOrder, RowsUsed
    <3>7. op'[v] = "changepri" BY <3>1, <3>3
    <3> QED BY <3>2, <3>4, <3>5, <3>6, <3>7 DEF InOrder
  <2> QED BY <2>1, <2>2
<1>6. ASSUME NEW w \in Sessions, LockRow(w) PROVE InOrder(v)'
  <2>1. CASE v # w
    <3>1. UNCHANGED <<op[v], pc[v], id1[v], id2[v], pri1[v], pri2[v], draft[v], verLock, pri, stale, used>>
          BY <1>6, <2>1 DEF LockRow, GoTo, tables, args, read, TypeOK
    <3>2. \A k \in Ids : rowLock[k] = v => rowLock'[k] = v
          BY <1>6, <2>1, TargetType, ConstantsAssumption DEF LockRow, RowFree, TypeOK
    <3> QED BY <1>0, <3>1, <3>2, OthersInOrder
  <2> QED BY <1>6, <2>1, LockRowInOrder
<1>7. ASSUME NEW w \in Sessions, WriteRow(w) PROVE InOrder(v)'
  <2>1. CASE v # w
        BY <1>0, <1>7, <2>1, OthersInOrder, TargetType
           DEF WriteRow, GoTo, tables, args, read, TypeOK
  <2> QED BY <1>7, <2>1, WriteRowInOrder
<1>8. ASSUME NEW w \in Sessions, Release(w),
             \/ Commit(w)
             \/ pri' = pri /\ stale' = stale \ {w}
      PROVE  InOrder(v)'
  <2>1. CASE v = w
    <3>1. op'[v] = "none" /\ pc'[v] = "idle" BY <1>8, <2>1, ReleaseOthers
    <3> QED BY <3>1 DEF InOrder
  <2>2. CASE v # w
    <3>1. /\ UNCHANGED <<op[v], pc[v], id1[v], id2[v], pri1[v], pri2[v], draft[v], used>>
          /\ verLock' = v => verLock = v
      <4>1. UNCHANGED <<op[v], pc[v], id1[v], id2[v], pri1[v], pri2[v], draft[v], used>>
            BY <1>8, <2>2, ReleaseOthers
      <4>2. verLock' = v => verLock = v BY <1>8, ConstantsAssumption DEF Release
      <4> QED BY <4>1, <4>2
    <3>2. \A i \in Ids : rowLock[i] = v => rowLock'[i] = v /\ pri'[i] = pri[i]
          BY <1>8, <2>2, ReleaseOthers, CommitsLocked
    <3>3. v \in stale => v \in stale' BY <1>8, <2>2 DEF Commit
    <3>4. /\ ReadFirst(v) /\ pri[id1[v]] = Gone => pri'[id1[v]] = Gone
          /\ ReadBoth(v) /\ pri[id2[v]] = Gone => pri'[id2[v]] = Gone
          BY <1>8, AbsentStays DEF ArgumentsAreRows, ReadFirst, ReadBoth
    <3> QED BY <1>0, <3>1, <3>2, <3>3, <3>4, OthersInOrder
  <2> QED BY <2>1, <2>2
<1>9. ASSUME NEW w \in Sessions, Commit(w) \/ RollBack(w) PROVE InOrder(v)'
      BY <1>8, <1>9 DEF Commit, RollBack, tables
<1> QED BY <1>1, <1>2, <1>3, <1>4, <1>5, <1>6, <1>7, <1>9, Actions

\* What the commit of an exchange that was not overtaken does.
LEMMA ExchangeCommits ==
    ASSUME TypeOK, ArgumentsAreRows, ExchangesInOrder, ReadingsHold,
           NEW w \in Sessions, Commit(w), op[w] = "changepri", ReadBoth(w), w \notin stale
    PROVE  pri' = Exchange(w)
<1>1. InOrder(w) BY DEF ExchangesInOrder
<1>2. id1[w] \in Ids /\ id2[w] \in Ids BY DEF ArgumentsAreRows
<1>3. Past(w, id1[w], pri2[w]) /\ Past(w, id2[w], pri1[w])
      BY <1>1 DEF InOrder, Commit
<1>4. \A i \in Ids : draft[w][i] # Kept =>
          i \in {id1[w], id2[w]} /\ draft[w][i] # Gone /\ pri[i] # Gone
      BY <1>1 DEF InOrder
<1>5. \A i \in Ids : pri[i] = Gone <=> Seen(w, i) = Gone BY <1>4 DEF Seen
<1>6. pri[id1[w]] # Gone => Seen(w, id1[w]) = pri2[w] BY <1>2, <1>3, <1>5 DEF Past
<1>7. pri[id2[w]] # Gone => Seen(w, id2[w]) = pri1[w] BY <1>2, <1>3, <1>5 DEF Past
<1>8. id1[w] = id2[w] => pri1[w] = pri2[w] BY DEF ReadingsHold
<1>9. \A i \in Ids : Seen(w, i) = IF pri[i] = Gone THEN Gone
                                  ELSE IF i = id1[w] THEN pri2[w]
                                  ELSE IF i = id2[w] THEN pri1[w] ELSE pri[i]
      BY <1>4, <1>5, <1>6, <1>7, <1>8 DEF Seen
<1> QED BY <1>9 DEF Commit, Exchange

\* The commit of an exchange that has not read both rows changes nothing.
LEMMA FailedExchange ==
    ASSUME TypeOK, ExchangesInOrder, NEW w \in Sessions, Commit(w), op[w] = "changepri",
           ~ReadBoth(w)
    PROVE  tables' = tables
<1>1. (\A i \in Ids : draft[w][i] = Kept) /\ verLock # w
      BY DEF ExchangesInOrder, InOrder
<1>2. pri' = pri BY <1>1 DEF Commit, Seen, TypeOK
<1>3. stamp' = stamp /\ crossed' = crossed BY <1>1 DEF Commit, Exchanged
<1> QED BY <1>2, <1>3 DEF tables

LEMMA NextDistinct ==
    ASSUME TypeOK, ArgumentsAreRows, ExchangesInOrder, IdleIsIdle, OneWriter, InsertsApart,
           DeletesOnly, RowsUsed, ReadingsHold, DistinctUnlessCrossed, [Next]_vars
    PROVE  DistinctUnlessCrossed'
<1>1. ASSUME UNCHANGED tables PROVE DistinctUnlessCrossed'
      BY <1>1 DEF tables, DistinctUnlessCrossed
<1>2. ASSUME NEW w \in Sessions, Commit(w), crossed' = {} PROVE DistinctUnlessCrossed'
  <2>1. crossed = {} /\ \A i \in Exchanged(w) : ~Overtaken(w) BY <1>2 DEF Commit
  <2>2. \A i, j \in Ids : i # j /\ pri[i] # Gone => pri[i] # pri[j]
        BY <2>1 DEF DistinctUnlessCrossed
  <2>3. CASE op[w] = "insert"
    <3>1. Apart(w) BY <2>3 DEF InsertsApart
    <3>2. id2[w] \in Ids BY <2>3 DEF ArgumentsAreRows
    <3>3. \A i \in Ids : i # id2[w] => pri'[i] = pri[i] BY <1>2, <2>3, InsertCommits
    <3>4. pri'[id2[w]] # Gone => \A i \in Ids : pri[i] # pri'[id2[w]]
          BY <1>2, <3>1, <3>2 DEF Apart, Commit, Seen
    <3> QED BY <2>2, <3>2, <3>3, <3>4 DEF DistinctUnlessCrossed
  <2>4. CASE op[w] = "delete"
        BY <1>2, <2>2, <2>4, DeleteCommits DEF DistinctUnlessCrossed
  <2>5. CASE op[w] = "changepri"
    <3>1. CASE \A i \in Ids : draft[w][i] = Kept
          BY <1>2, <2>2, <3>1 DEF Commit, Seen, DistinctUnlessCrossed
    <3>2. ASSUME NEW k \in Ids, draft[w][k] # Kept PROVE DistinctUnlessCrossed'
      <4>1. ReadBoth(w) /\ draft[w][k] # Gone /\ pri[k] # Gone
            BY <2>5, <3>2 DEF ExchangesInOrder, InOrder
      <4>2. w \notin stale /\ pri[id1[w]] # Gone /\ pri[id2[w]] # Gone
            BY <2>1, <3>2, <4>1 DEF Exchanged, Overtaken
      <4>3. pri' = Exchange(w) BY <1>2, <2>5, <4>1, <4>2, ExchangeCommits
      <4>4. pri[id1[w]] = pri1[w] /\ pri[id2[w]] = pri2[w]
            BY <4>1, <4>2 DEF ReadingsHold, ReadBoth
      <4>5. id1[w] \in Ids /\ id2[w] \in Ids BY <2>5 DEF ArgumentsAreRows
      <4>6. \A i \in Ids : pri'[i] = IF pri[i] = Gone THEN Gone
                                     ELSE IF i = id1[w] THEN pri[id2[w]]
                                     ELSE IF i = id2[w] THEN pri[id1[w]] ELSE pri[i]
            BY <4>3, <4>4 DEF Exchange
      <4> QED BY <2>2, <4>2, <4>5, <4>6 DEF DistinctUnlessCrossed
    <3> QED BY <3>1, <3>2
  <2>6. op[w] # "none" BY <1>2 DEF Commit, IdleIsIdle
  <2> QED BY <2>3, <2>4, <2>5, <2>6 DEF TypeOK
<1>3. ASSUME NEW w \in Sessions, Commit(w) PROVE DistinctUnlessCrossed'
      BY <1>2, <1>3 DEF DistinctUnlessCrossed
<1> QED BY <1>1, <1>3, OnlyCommits

-----------------------------------------------------------------------------
(* The theorems *)

LEMMA InitInvariant == Init => IInv
<1> SUFFICES ASSUME Init PROVE IInv OBVIOUS
<1>1. TypeOK BY InitType
<1>2. ArgumentsAreRows /\ RowsUsed /\ IdleIsIdle
      BY ConstantsAssumption DEF Init, ArgumentsAreRows, RowsUsed, IdleIsIdle, Gone
<1>3. OneWriter /\ SequenceAhead BY DEF Init, OneWriter, SequenceAhead, Gone, Kept
<1>4. InsertsApart /\ DeletesOnly BY DEF Init, InsertsApart, DeletesOnly
<1>5. ReadingsHold BY DEF Init, ReadingsHold, ReadFirst, ReadBoth
<1>6. ExchangesInOrder BY DEF Init, ExchangesInOrder, InOrder
<1>7. DistinctUnlessCrossed BY DEF Init, DistinctUnlessCrossed
<1> QED BY <1>1, <1>2, <1>3, <1>4, <1>5, <1>6, <1>7 DEF IInv

LEMMA NextInvariant == IInv /\ [Next]_vars => IInv'
<1> SUFFICES ASSUME IInv, [Next]_vars PROVE IInv' OBVIOUS
<1> USE DEF IInv
<1>1. TypeOK' BY NextType
<1>2. ArgumentsAreRows' /\ IdleIsIdle' /\ RowsUsed' BY NextArguments, NextIdle, NextRowsUsed
<1>3. OneWriter' /\ SequenceAhead' BY NextOneWriter, NextSequence
<1>4. InsertsApart' /\ DeletesOnly' BY NextInserts, NextDeletes
<1>5. ReadingsHold' /\ ExchangesInOrder' BY NextReadings, NextInOrder
<1>6. DistinctUnlessCrossed' BY NextDistinct
<1> QED BY <1>1, <1>2, <1>3, <1>4, <1>5, <1>6

\* The inductive invariant of the ordered lists.
THEOREM Invariance == Spec => []IInv
BY InitInvariant, NextInvariant, PTL DEF Spec

\* Two rows of a list have one priority only if an exchange was committed one of
\* whose rows another call had exchanged or deleted since it was read (changepri).
THEOREM DistinctPriorities == Spec => []DistinctUnlessCrossed
<1>1. IInv => DistinctUnlessCrossed BY DEF IInv
<1> QED BY <1>1, Invariance, PTL

LEMMA CommitStamps ==
    ASSUME TypeOK, OneWriter, [Next]_vars, pri' # pri PROVE stamp' > stamp
<1>1. PICK w \in Sessions : Commit(w) BY OnlyCommits DEF tables
<1>2. PICK i \in Ids : pri'[i] # pri[i] BY <1>1 DEF Commit, TypeOK
<1>3. rowLock[i] = w /\ draft[w][i] # Kept BY <1>1, <1>2, CommitsLocked DEF Commit, Seen
<1>4. verLock = w BY <1>3 DEF OneWriter
<1> QED BY <1>1, <1>4 DEF Commit, TypeOK

\* Every commit that changes a list moves the version 'NetworkSetting'.
THEOREM EveryChangeStamped == Spec => ChangesStamped
<1>1. IInv /\ [Next]_vars => [pri' # pri => stamp' > stamp]_vars
      BY CommitStamps DEF IInv
<1> QED BY <1>1, Invariance, PTL DEF Spec, ChangesStamped

LEMMA ExchangeIsAtomic ==
    ASSUME IInv, [Next]_vars, NEW w \in Sessions, pc[w] = "commit", pc'[w] = "idle",
           tables' # tables, op[w] = "changepri", w \notin stale
    PROVE  /\ pri' = Exchange(w)
           /\ pri[id1[w]] \in {Gone, pri1[w]}
           /\ pri[id2[w]] \in {Gone, pri2[w]}
<1> USE DEF IInv
<1>1. PICK v \in Sessions : Commit(v) BY OnlyCommits
<1>2. v = w BY <1>1, ReleaseOthers DEF Commit
<1>3. ReadBoth(w) BY <1>1, <1>2, FailedExchange
<1>4. pri' = Exchange(w) BY <1>1, <1>2, <1>3, ExchangeCommits
<1> QED BY <1>3, <1>4 DEF ReadingsHold, ReadBoth

\* An exchange that was not overtaken changes both priorities as one statement
\* would, of the rows as they are when it commits.
THEOREM ExchangesAreAtomic == Spec => ExchangesAtomically
<1>1. IInv /\ [Next]_vars =>
        [\A w \in Sessions :
           (/\ pc[w] = "commit" /\ pc'[w] = "idle" /\ tables' # tables
            /\ op[w] = "changepri" /\ w \notin stale)
           => /\ pri' = Exchange(w)
              /\ pri[id1[w]] \in {Gone, pri1[w]}
              /\ pri[id2[w]] \in {Gone, pri2[w]}]_vars
      BY ExchangeIsAtomic
<1> QED BY <1>1, Invariance, PTL DEF Spec, ExchangesAtomically

=============================================================================
