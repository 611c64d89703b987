------------------------- MODULE DeviceGroupsProofs -------------------------
(***************************************************************************)
(* Proofs about DeviceGroups, for any number of sessions, groups, devices, *)
(* owners and calls, with or without the licence in the comparison of      *)
(* owners: members are members of groups that exist (MembersHaveGroups),   *)
(* names that differ only in case come from races (VariantsOnlyByRace), and*)
(* clients are told of what changes for them (Told).                       *)
(*                                                                         *)
(* Who takes a group away has its row to itself; who adds a member refers  *)
(* to the row before the commit, and waits for whoever has it; and the     *)
(* cascade has visited every member when the deletion commits.             *)
(***************************************************************************)
EXTENDS DeviceGroups, TLAPS

-----------------------------------------------------------------------------
(* Types *)

\* The Boolean arrays, apart from the rest of TypeOK.
Flags == moved \in [Sessions -> BOOLEAN] /\ found \in [Sessions -> BOOLEAN]

\* The columns of TypeOK that the invariant is about.
Typed ==
    /\ grp \in [GroupIds -> GroupRow \union {NoGroup}]
    /\ member \in SUBSET Rows
    /\ stamp \in [Stamps -> Nat]
    /\ nextid \in Nat \ {0}
    /\ calls \in Nat
    /\ known \in SUBSET GroupIds
    /\ raced \in SUBSET SUBSET GroupIds
    /\ since \in [Sessions -> SUBSET GroupIds]
    /\ op \in [Sessions -> Ops]
    /\ pc \in [Sessions -> Statements]
    /\ gid \in [Sessions -> GroupIds \union {0}]
    /\ want \in [Sessions -> GroupRow \union {NoGroup}]
    /\ todo \in [Sessions -> SUBSET Devices]
    /\ dev \in [Sessions -> Devices \union {NoDevice}]
    /\ usr \in [Sessions -> Users \union {PublicUser}]
    /\ due \in [Sessions -> SUBSET Stamps]
    /\ draftGrp \in [Sessions -> [GroupIds -> GroupRow \union {NoGroup, Kept}]]
    /\ draftRow \in [Sessions -> [Rows -> {"kept", "in", "out"}]]
    /\ grpLock \in [GroupIds -> Sessions \union {NoSession}]
    /\ shared \in [GroupIds -> SUBSET Sessions]
    /\ rowLock \in [Rows -> Sessions \union {NoSession}]
    /\ stampLock \in [Stamps -> Sessions \union {NoSession}]

LEMMA TypesOf == TypeOK <=> Flags /\ Typed
BY DEF TypeOK, Flags, Typed

LEMMA GroupIdsType == GroupIds \subseteq Nat \ {0} /\ 0 \notin GroupIds
BY NamesAssumption DEF GroupIds

LEMMA InitType == Init => TypeOK
<1>1. Init => Flags BY DEF Init, Flags
<1>2. Init => Typed
      BY NamesAssumption, MarkersAssumption
         DEF Init, Typed, Ops, Statements, Stamps, AnyOwner
<1> QED BY <1>1, <1>2, TypesOf

GroupStep(w) ==
    Insert(w) \/ LockGroup(w) \/ CheckName(w) \/ WriteGroup(w) \/ DeleteGroup(w)

RowStep(w) ==
    \/ LookForStamp(w) \/ PutStamp(w) \/ RowsDone(w) \/ NextRow(w) \/ LockRow(w)
    \/ ReadUser(w) \/ ReadLicence(w) \/ InsertRow(w) \/ DeleteRow(w) \/ ForeignKey(w)

\* A step of a session is a new call, a statement, a commit, or an end without one.
LEMMA Actions ==
    ASSUME [Next]_vars
    PROVE  \/ UNCHANGED vars
           \/ \E w \in Sessions :
                 NewCall(w) \/ GroupStep(w) \/ RowStep(w) \/ Commit(w) \/ RollBack(w)
BY DEF Next, Statement, NameExists, StampIsThere, NotUnique, NoOwner, RowIsThere, GroupGone,
       DeadlockVictim, Abort, GroupStep, RowStep

\* What LockGroup may do to the lock of the group and to the stamps due.
LEMMA LockGroupEffects ==
    ASSUME NEW w \in Sessions, LockGroup(w)
    PROVE  /\ \/ grpLock' = grpLock
              \/ Exists(w, gid[w]) /\ grpLock' = [grpLock EXCEPT ![gid[w]] = w]
           /\ \/ due' = due
              \/ Exists(w, gid[w]) /\ due' = [due EXCEPT ![w] = {StampOf(GroupSeen(w, gid[w]).owner)}]
BY DEF LockGroup

\* What ReadUser may do to the user and to the stamps due.
LEMMA ReadUserEffects ==
    ASSUME NEW w \in Sessions, ReadUser(w)
    PROVE  \/ UNCHANGED <<usr, due>>
           \/ /\ Exists(w, gid[w])
              /\ usr' = [usr EXCEPT ![w] = GroupSeen(w, gid[w]).owner.user]
              /\ \E D \in SUBSET {PublicStamp} : due' = [due EXCEPT ![w] = D]
<1> DEFINE u == GroupSeen(w, gid[w]).owner.user
<1>1. \/ UNCHANGED <<usr, due>>
      \/ /\ Exists(w, gid[w])
         /\ usr' = [usr EXCEPT ![w] = u]
         /\ due' = [due EXCEPT ![w] = IF u = PublicUser THEN {PublicStamp} ELSE {}]
      BY DEF ReadUser
<1> QED BY <1>1

LEMMA NextFlags == ASSUME Flags, [Next]_vars PROVE Flags'
<1>1. CASE UNCHANGED vars BY <1>1 DEF vars, history, trigger, Flags
<1>2. ASSUME NEW w \in Sessions, NewCall(w) PROVE Flags'
      BY <1>2 DEF NewCall, Upsert, Update, Delete, AddMembers, DeleteMembers, Call, history,
                  trigger, Flags
<1>3. ASSUME NEW w \in Sessions, GroupStep(w) \/ RowStep(w), ~LookForStamp(w) PROVE Flags'
      BY <1>3 DEF GroupStep, RowStep, Insert, LockGroup, CheckName, PutStamp, WriteGroup,
                  DeleteGroup, RowsDone, NextRow, LockRow, ReadUser, ReadLicence, InsertRow,
                  DeleteRow, ForeignKey, history, trigger, Flags
<1>4. ASSUME NEW w \in Sessions, LookForStamp(w) PROVE Flags'
  <2>1. moved' = moved BY <1>4 DEF LookForStamp, history
  <2>2. found' \in [Sessions -> BOOLEAN] BY <1>4 DEF LookForStamp, Flags
  <2> QED BY <2>1, <2>2 DEF Flags
<1>5. ASSUME NEW w \in Sessions, Commit(w) PROVE Flags'
  <2>1. moved' \in [Sessions -> BOOLEAN] BY <1>5 DEF Commit, Flags
  <2>2. found' \in [Sessions -> BOOLEAN] BY <1>5 DEF Commit, Release, Flags
  <2> QED BY <2>1, <2>2 DEF Flags
<1>6. ASSUME NEW w \in Sessions, RollBack(w) PROVE Flags'
      BY <1>6 DEF RollBack, Release, Flags
<1> QED BY <1>1, <1>2, <1>3, <1>4, <1>5, <1>6, Actions

LEMMA ReleaseType ==
    ASSUME Typed, NEW w \in Sessions, Release(w)
    PROVE  /\ nextid' \in Nat \ {0} /\ calls' \in Nat
           /\ op' \in [Sessions -> Ops]
           /\ pc' \in [Sessions -> Statements]
           /\ gid' \in [Sessions -> GroupIds \union {0}]
           /\ want' \in [Sessions -> GroupRow \union {NoGroup}]
           /\ todo' \in [Sessions -> SUBSET Devices]
           /\ dev' \in [Sessions -> Devices \union {NoDevice}]
           /\ usr' \in [Sessions -> Users \union {PublicUser}]
           /\ due' \in [Sessions -> SUBSET Stamps]
           /\ draftGrp' \in [Sessions -> [GroupIds -> GroupRow \union {NoGroup, Kept}]]
           /\ draftRow' \in [Sessions -> [Rows -> {"kept", "in", "out"}]]
           /\ grpLock' \in [GroupIds -> Sessions \union {NoSession}]
           /\ shared' \in [GroupIds -> SUBSET Sessions]
           /\ rowLock' \in [Rows -> Sessions \union {NoSession}]
           /\ stampLock' \in [Stamps -> Sessions \union {NoSession}]
<1>1. "idle" \in Statements /\ "none" \in Ops BY DEF Statements, Ops
<1> QED BY <1>1 DEF Release, GoTo, Typed

\* What the end of a transaction leaves of w, and of the others.
LEMMA ReleaseOthers ==
    ASSUME Typed, NEW w \in Sessions, Release(w)
    PROVE  /\ pc'[w] = "idle" /\ op'[w] = "none" /\ gid'[w] = 0 /\ want'[w] = NoGroup
           /\ \A g \in GroupIds : draftGrp'[w][g] = Kept /\ grpLock'[g] # w
           /\ \A r \in Rows : draftRow'[w][r] = "kept"
           /\ \A g \in GroupIds : shared'[g] = shared[g] \ {w}
           /\ \A g \in GroupIds, v \in Sessions \ {w} : grpLock'[g] = v <=> grpLock[g] = v
           /\ \A g \in GroupIds : grpLock'[g] \in {grpLock[g], NoSession}
           /\ \A v \in Sessions \ {w} :
                 /\ op'[v] = op[v] /\ pc'[v] = pc[v] /\ gid'[v] = gid[v] /\ want'[v] = want[v]
                 /\ todo'[v] = todo[v] /\ dev'[v] = dev[v]
                 /\ draftGrp'[v] = draftGrp[v] /\ draftRow'[v] = draftRow[v]
           /\ nextid' = nextid
BY MarkersAssumption DEF Release, GoTo, Typed

\* The arguments of a new call, and where it begins.
LEMMA NewCalls ==
    ASSUME Typed, NEW w \in Sessions, NewCall(w)
    PROVE  \E f \in Ops \ {"none"}, g \in GroupIds \union {0}, row \in GroupRow \union {NoGroup},
              ds \in SUBSET Devices, s \in {"insert", "lock", "rows", "commit"} :
                 /\ Call(w, f, g, row, ds, s)
                 /\ s = "insert" => f = "devicegroup_upsert" /\ g = 0 /\ row # NoGroup
                 /\ s = "lock" => f \in {"update", "delete"} /\ g \in GroupIds
                 /\ s = "rows" => f \notin GroupOps /\ g \in GroupIds
                 /\ s = "commit" => f = "devicegroup_upsert" /\ g = 0 /\ row = NoGroup
                 /\ f = "update" => row # NoGroup
                 /\ f = "delete" => row = NoGroup
<1>0. /\ known \subseteq GroupIds
      /\ \A n \in Names, o \in Owners : [name |-> n, owner |-> o] \in GroupRow
      /\ NoGroup \notin GroupRow
      BY NamesAssumption, MarkersAssumption DEF Typed, GroupRow
<1>1. CASE \E n \in Names, o \in Owners : Upsert(w, n, o)
  <2>1. PICK n \in Names, o \in Owners : Upsert(w, n, o) BY <1>1
  <2>2. CASE NameInUse(n)
        BY <1>0, <2>1, <2>2 DEF Upsert, Ops, GroupOps
  <2>3. CASE ~NameInUse(n)
        BY <1>0, <2>1, <2>3 DEF Upsert, Ops, GroupOps
  <2> QED BY <2>2, <2>3
<1>2. CASE \E g \in known, n \in Names, o \in Owners : Update(w, g, n, o)
      BY <1>0, <1>2 DEF Update, Ops
<1>3. CASE \E g \in known : Delete(w, g)
      BY <1>0, <1>3 DEF Delete, Ops
<1>4. CASE \E g \in known : DeleteMembers(w, g)
  <2>1. PICK g \in known : DeleteMembers(w, g) BY <1>4
  <2> DEFINE ds == {d \in Devices : <<g, d>> \in member}
  <2>2. Call(w, "devicegroupdevice_delete_static", g, NoGroup, ds, "rows")
        BY <2>1 DEF DeleteMembers
  <2>3. ds \in SUBSET Devices OBVIOUS
  <2> HIDE DEF ds
  <2> QED BY <1>0, <2>2, <2>3 DEF Ops, GroupOps
<1>5. CASE \E g \in known, ds \in SUBSET Devices : AddMembers(w, g, ds)
      BY <1>0, <1>5 DEF AddMembers, Ops, GroupOps
<1> QED BY <1>1, <1>2, <1>3, <1>4, <1>5 DEF NewCall

LEMMA StampsType ==
    ASSUME Typed
    PROVE  /\ \A o \in AnyOwner : StampOf(o) \in Stamps
           /\ PublicStamp \in Stamps
           /\ \A w \in Sessions, g \in GroupIds :
                 /\ GroupSeen(w, g) \in GroupRow \union {NoGroup}
                 /\ GroupSeen(w, g) # NoGroup =>
                       GroupSeen(w, g).owner \in AnyOwner
                       /\ GroupSeen(w, g).owner.user \in Users \union {PublicUser}
                       /\ GroupSeen(w, g).owner.lic \in Licences
BY DEF Typed, StampOf, Stamps, AnyOwner, GroupSeen, GroupRow

LEMMA DueForType ==
    ASSUME Typed, NEW w \in Sessions, want[w] # NoGroup PROVE DueFor(w) \subseteq Stamps
<1>1. want[w].owner \in AnyOwner BY DEF Typed, GroupRow
<1>2. Exists(w, gid[w]) => GroupSeen(w, gid[w]).owner \in AnyOwner BY StampsType DEF Exists
<1>3. AnyOwner \subseteq Stamps BY DEF Stamps
<1> QED BY <1>1, <1>2, <1>3, StampsType DEF DueFor

LEMMA CallType == ASSUME Typed, NEW w \in Sessions, NewCall(w) PROVE Typed'
<1>1. PICK f \in Ops \ {"none"}, g \in GroupIds \union {0}, row \in GroupRow \union {NoGroup},
           ds \in SUBSET Devices, s \in {"insert", "lock", "rows", "commit"} :
             Call(w, f, g, row, ds, s)
      BY NewCalls
<1>2. s \in Statements BY DEF Statements
<1> QED BY <1>1, <1>2
        DEF Call, GoTo, Typed, tables, history, trigger, drafts, locks

LEMMA GroupStepType ==
    ASSUME Typed, StepsInOrder, NEW w \in Sessions,
           GroupStep(w)
    PROVE  Typed'
<1>0. InOrder(w) BY DEF StepsInOrder
<1>1. CASE Insert(w)
  <2>1. nextid \in GroupIds BY <1>1, NamesAssumption DEF Insert, GroupIds, Typed
  <2> QED BY <1>1, <2>1 DEF Insert, GoTo, Typed, tables, history, visit, trigger, drafts, Statements
<1>2. CASE LockGroup(w)
  <2>1. gid[w] \in GroupIds BY <1>0, <1>2 DEF LockGroup, InOrder
  <2>2. Exists(w, gid[w]) => StampOf(GroupSeen(w, gid[w]).owner) \in Stamps
        BY <2>1, StampsType DEF Exists
  <2>3. UNCHANGED <<tables, nextid, calls, since, args, visit, usr, drafts, shared, rowLock, stampLock>>
        BY <1>2 DEF LockGroup, history
  <2>4. grpLock' \in [GroupIds -> Sessions \union {NoSession}]
    <3>1. grpLock' = grpLock \/ grpLock' = [grpLock EXCEPT ![gid[w]] = w]
          BY <1>2, LockGroupEffects
    <3>2. grpLock \in [GroupIds -> Sessions \union {NoSession}] BY DEF Typed
    <3> QED BY <2>1, <3>1, <3>2
  <2>5. pc' \in [Sessions -> Statements] BY <1>2 DEF LockGroup, GoTo, Typed, Statements
  <2>6. due' \in [Sessions -> SUBSET Stamps] BY <1>2, <2>2, LockGroupEffects DEF Typed
  <2> QED BY <2>3, <2>4, <2>5, <2>6 DEF Typed, tables, args, visit, drafts
<1>3. CASE CheckName(w)
  <2>1. want[w] # NoGroup BY <1>0, <1>3 DEF CheckName, InOrder, GroupOps
  <2>2. DueFor(w) \subseteq Stamps BY <2>1, DueForType
  <2> QED BY <1>3, <2>2
          DEF CheckName, GoTo, Typed, tables, args, visit, drafts, locks, Statements
<1>4. CASE WriteGroup(w)
      BY <1>4 DEF WriteGroup, GoTo, Typed, tables, history, args, visit, trigger, locks, Statements
<1>5. CASE DeleteGroup(w)
  <2>1. Members(w) \subseteq Devices BY DEF Members
  <2> QED BY <1>5, <2>1
          DEF DeleteGroup, GoTo, Typed, tables, history, args, trigger, locks, Statements
<1> QED BY <1>1, <1>2, <1>3, <1>4, <1>5 DEF GroupStep

LEMMA RowStepType ==
    ASSUME Typed, StepsInOrder, NEW w \in Sessions,
           RowStep(w)
    PROVE  Typed'
<1>0. InOrder(w) BY DEF StepsInOrder
<1>1. CASE LookForStamp(w)
  <2>1. pc' \in [Sessions -> Statements]
        BY <1>1 DEF LookForStamp, AfterStamps, GoTo, Typed, Statements
  <2>2. UNCHANGED <<tables, nextid, calls, since, args, visit, usr, due, drafts, locks>>
        BY <1>1 DEF LookForStamp, history
  <2> QED BY <2>1, <2>2 DEF Typed, tables, args, visit, drafts, locks
<1>2. CASE PutStamp(w)
      BY <1>2 DEF PutStamp, NextDue, GoTo, Typed, tables, history, args, visit, drafts, Statements
<1>3. CASE RowsDone(w)
      BY <1>3 DEF RowsDone, GoTo, Typed, tables, history, args, visit, trigger, drafts, locks,
                  Statements
<1>4. CASE NextRow(w)
      BY <1>4 DEF NextRow, GoTo, Typed, tables, history, args, trigger, drafts, locks, Statements
<1>5. CASE LockRow(w)
  <2>1. pc' \in [Sessions -> Statements] BY <1>5 DEF LockRow, GoTo, Typed, Statements
  <2>2. UNCHANGED <<tables, nextid, calls, since, args, visit, usr, due, drafts, grpLock, shared,
                    stampLock>>
        BY <1>5 DEF LockRow, history, trigger
  <2>3. rowLock' \in [Rows -> Sessions \union {NoSession}]
    <3>1. rowLock' = rowLock \/ rowLock' = [rowLock EXCEPT ![Row(w)] = w] BY <1>5 DEF LockRow
    <3> QED BY <3>1 DEF Typed
  <2> QED BY <2>1, <2>2, <2>3 DEF Typed, tables, args, visit, drafts
<1>6. CASE ReadUser(w)
  <2>1. Exists(w, gid[w]) => GroupSeen(w, gid[w]).owner.user \in Users \union {PublicUser}
        BY StampsType DEF Exists
  <2>2. pc' \in [Sessions -> Statements]
    <3>1. \E x \in {"look", "lic", "member"} : pc' = [pc EXCEPT ![w] = x]
          BY <1>6, Zenon DEF ReadUser, GoTo
    <3>2. pc \in [Sessions -> Statements] /\ {"look", "lic", "member"} \subseteq Statements
          BY DEF Typed, Statements
    <3> QED BY <3>1, <3>2
  <2>3. UNCHANGED <<tables, nextid, calls, since, args, visit, drafts, locks>>
        BY <1>6 DEF ReadUser, history
  <2>4. usr' \in [Sessions -> Users \union {PublicUser}]
    <3>1. usr' = usr \/ \E u \in Users \union {PublicUser} : usr' = [usr EXCEPT ![w] = u]
          BY <1>6, <2>1, ReadUserEffects
    <3>2. usr \in [Sessions -> Users \union {PublicUser}] BY DEF Typed
    <3> QED BY <3>1, <3>2
  <2>5. due' \in [Sessions -> SUBSET Stamps]
    <3>1. due' = due \/ \E D \in SUBSET {PublicStamp} : due' = [due EXCEPT ![w] = D]
          BY <1>6, ReadUserEffects
    <3>2. due \in [Sessions -> SUBSET Stamps] BY DEF Typed
    <3>3. PublicStamp \in Stamps BY DEF Stamps
    <3> QED BY <3>1, <3>2, <3>3
  <2> QED BY <2>2, <2>3, <2>4, <2>5 DEF Typed, tables, args, visit, drafts, locks
<1>7. CASE ReadLicence(w)
  <2>1. [user |-> usr[w], lic |-> GroupSeen(w, gid[w]).owner.lic] \in Stamps
        BY <1>7, StampsType DEF ReadLicence, Exists, Typed, Stamps, AnyOwner
  <2> QED BY <1>7, <2>1
          DEF ReadLicence, GoTo, Typed, tables, history, args, visit, drafts, locks, Statements
<1>8. CASE InsertRow(w)
      BY <1>8 DEF InsertRow, GoTo, Typed, tables, history, args, visit, trigger, Statements
<1>9. CASE DeleteRow(w)
      BY <1>9 DEF DeleteRow, GoTo, Typed, tables, history, args, visit, trigger, locks, Statements
<1>10. CASE ForeignKey(w)
      BY <1>10 DEF ForeignKey, GoTo, Typed, tables, history, args, visit, trigger, drafts, Statements
<1> QED BY <1>1, <1>2, <1>3, <1>4, <1>5, <1>6, <1>7, <1>8, <1>9, <1>10 DEF RowStep

LEMMA CommitType == ASSUME Typed, NEW w \in Sessions, Commit(w) PROVE Typed'
<1>1. Release(w) BY DEF Commit
<1>2. grp' \in [GroupIds -> GroupRow \union {NoGroup}] BY StampsType DEF Commit
<1>3. member' \in SUBSET Rows BY DEF Commit
<1>4. stamp' \in [Stamps -> Nat] BY DEF Commit, Typed
<1>5. known' \in SUBSET GroupIds BY DEF Commit, Typed
<1>6. raced' \in SUBSET SUBSET GroupIds
  <2>1. since[w] \subseteq GroupIds /\ raced \in SUBSET SUBSET GroupIds BY DEF Typed
  <2>2. \A g \in GroupIds, h \in since[w] : {g, h} \in SUBSET GroupIds BY <2>1
  <2>3. \A p \in raced' : p \in raced \/ \E g \in GroupIds, h \in since[w] : p = {g, h}
        BY DEF Commit
  <2> QED BY <2>1, <2>2, <2>3
<1>7. since' \in [Sessions -> SUBSET GroupIds] BY DEF Commit, Typed
<1> QED BY <1>1, <1>2, <1>3, <1>4, <1>5, <1>6, <1>7, ReleaseType DEF Typed

LEMMA NextType == ASSUME TypeOK, StepsInOrder, [Next]_vars PROVE TypeOK'
<1>0. Flags /\ Typed BY TypesOf
<1>1. ASSUME UNCHANGED vars PROVE Typed'
      BY <1>0, <1>1 DEF vars, tables, history, args, visit, trigger, drafts, locks, Typed
<1>2. ASSUME NEW w \in Sessions, RollBack(w) PROVE Typed'
  <2>1. Release(w) /\ UNCHANGED tables /\ since' \in [Sessions -> SUBSET GroupIds]
        BY <1>0, <1>2 DEF RollBack, Typed
  <2> QED BY <1>0, <2>1, ReleaseType DEF Typed, tables
<1>3. ASSUME NEW w \in Sessions, NewCall(w) \/ GroupStep(w) \/ RowStep(w) \/ Commit(w)
      PROVE  Typed'
      BY <1>0, <1>3, CallType, GroupStepType, RowStepType, CommitType
<1>4. Typed' BY <1>1, <1>2, <1>3, Actions
<1>5. Flags' BY <1>0, NextFlags
<1> QED BY <1>4, <1>5 DEF TypeOK, Flags, Typed

-----------------------------------------------------------------------------
(* What the steps leave alone *)

LEMMA RowStepsLeave ==
    ASSUME NEW w \in Sessions, RowStep(w)
    PROVE  UNCHANGED <<grp, member, nextid, op, gid, want, draftGrp, grpLock>>
BY DEF RowStep, LookForStamp, PutStamp, RowsDone, NextRow, LockRow, ReadUser, ReadLicence,
       InsertRow, DeleteRow, ForeignKey, tables, args, drafts, locks

LEMMA RowStepsShare ==
    ASSUME NEW w \in Sessions, RowStep(w)
    PROVE  shared' = shared \/ ForeignKey(w)
BY DEF RowStep, LookForStamp, PutStamp, RowsDone, NextRow, LockRow, ReadUser, ReadLicence,
       InsertRow, DeleteRow, locks

LEMMA GroupStepsLeave ==
    ASSUME NEW w \in Sessions, GroupStep(w)
    PROVE  UNCHANGED <<grp, member, op, want, dev, draftRow, shared>>
BY DEF GroupStep, Insert, LockGroup, CheckName, WriteGroup, DeleteGroup, tables, args, visit,
       drafts, locks

\* A new call finds its session idle, and changes only where it is and its arguments.
LEMMA CallsLeave ==
    ASSUME Typed, GroupsLocked, StepsInOrder, AddedRefer, ReferencedStay,
           NEW w \in Sessions, NewCall(w)
    PROVE  /\ UNCHANGED <<grp, member, nextid, draftGrp, draftRow, grpLock, shared>>
           /\ \A v \in Sessions \ {w} :
                 /\ op'[v] = op[v] /\ pc'[v] = pc[v] /\ gid'[v] = gid[v] /\ want'[v] = want[v]
                 /\ todo'[v] = todo[v] /\ dev'[v] = dev[v]
           /\ \A g \in GroupIds :
                 draftGrp[w][g] = Kept /\ grpLock[g] # w /\ w \notin shared[g]
           /\ \A r \in Rows : draftRow[w][r] # "in"
<1>1. pc[w] = "idle"
      BY DEF NewCall, Upsert, Update, Delete, AddMembers, DeleteMembers, Call
<1>2. op[w] = "none" BY <1>1 DEF StepsInOrder, InOrder
<1>3. op[w] \notin GroupOps /\ ~Adds(w) BY <1>2 DEF GroupOps, Adds
<1>4. PICK f \in Ops \ {"none"}, id \in GroupIds \union {0}, row \in GroupRow \union {NoGroup},
           ds \in SUBSET Devices, s \in {"insert", "lock", "rows", "commit"} :
             Call(w, f, id, row, ds, s)
      BY NewCalls
<1>5. UNCHANGED <<grp, member, nextid, draftGrp, draftRow, grpLock, shared>>
      BY <1>4 DEF Call, tables, drafts, locks
<1>6. \A v \in Sessions \ {w} :
         /\ op'[v] = op[v] /\ pc'[v] = pc[v] /\ gid'[v] = gid[v] /\ want'[v] = want[v]
         /\ todo'[v] = todo[v] /\ dev'[v] = dev[v]
      BY <1>4 DEF Call, GoTo, Typed
<1>7. \A g \in GroupIds : draftGrp[w][g] = Kept /\ grpLock[g] # w /\ w \notin shared[g]
      BY <1>3 DEF GroupsLocked, ReferencedStay
<1>8. \A r \in Rows : draftRow[w][r] # "in" BY <1>3 DEF AddedRefer
<1> QED BY <1>5, <1>6, <1>7, <1>8

-----------------------------------------------------------------------------
(* Who has a group *)

LEMMA NextLocked ==
    ASSUME Typed, GroupsLocked, NewIds, StepsInOrder, ReferencedStay, AddedRefer, [Next]_vars
    PROVE  GroupsLocked'
<1>1. CASE UNCHANGED vars BY <1>1 DEF vars, args, drafts, locks, GroupsLocked
<1>2. ASSUME NEW w \in Sessions, NewCall(w) PROVE GroupsLocked'
      BY <1>2, CallsLeave DEF GroupsLocked
<1>3. ASSUME NEW w \in Sessions, Insert(w) PROVE GroupsLocked'
  <2>1. nextid \in GroupIds BY <1>3, NamesAssumption DEF Insert, GroupIds, Typed
  <2>2. op[w] = "devicegroup_upsert" /\ gid[w] = 0 BY <1>3 DEF Insert, StepsInOrder, InOrder
  <2>3. /\ \A g \in GroupIds : draftGrp[w][g] = Kept /\ grpLock[g] # w
        BY <2>2, GroupIdsType DEF GroupsLocked
  <2>4. /\ grpLock[nextid] = NoSession /\ grp[nextid] = NoGroup
        BY <2>1 DEF NewIds, Typed
  <2>5. shared[nextid] = {} BY <2>1, <2>4 DEF ReferencedStay, Typed
  <2>6. \A v \in Sessions : draftGrp[v][nextid] = Kept
        BY <2>1, <2>4, MarkersAssumption DEF GroupsLocked
  <2> QED BY <1>3, <2>1, <2>2, <2>3, <2>4, <2>5, <2>6
          DEF Insert, drafts, GroupsLocked, GroupOps, Typed
<1>4. ASSUME NEW w \in Sessions, LockGroup(w) PROVE GroupsLocked'
  <2>1. gid[w] \in GroupIds /\ op[w] \in GroupOps
        BY <1>4 DEF LockGroup, StepsInOrder, InOrder, GroupOps
  <2>2. grpLock' = grpLock \/ grpLock' = [grpLock EXCEPT ![gid[w]] = w]
        BY <1>4, LockGroupEffects
  <2>3. UNCHANGED <<op, gid, draftGrp, shared>> /\ GroupFree(w, gid[w])
        BY <1>4 DEF LockGroup, args, drafts
  <2>4. \A v \in Sessions, g \in GroupIds :
           /\ grpLock[g] = v => grpLock'[g] = v
           /\ grpLock'[g] = v => grpLock[g] = v \/ (v = w /\ g = gid[w])
        BY <2>1, <2>2, <2>3, MarkersAssumption DEF GroupFree, Typed
  <2> QED BY <2>1, <2>3, <2>4 DEF GroupsLocked, GroupFree
<1>5. ASSUME NEW w \in Sessions, CheckName(w) PROVE GroupsLocked'
      BY <1>5 DEF CheckName, args, drafts, locks, GroupsLocked
<1>6. ASSUME NEW w \in Sessions, WriteGroup(w) \/ DeleteGroup(w) PROVE GroupsLocked'
  <2>1. gid[w] \in GroupIds /\ op[w] \in GroupOps /\ grpLock[gid[w]] = w
        BY <1>6 DEF WriteGroup, DeleteGroup, StepsInOrder, InOrder, GroupOps
  <2>2. UNCHANGED <<op, gid, grpLock, shared>>
        BY <1>6 DEF WriteGroup, DeleteGroup, args, locks
  <2>3. \A v \in Sessions, g \in GroupIds :
           draftGrp'[v][g] # Kept => draftGrp[v][g] # Kept \/ (v = w /\ g = gid[w])
        BY <1>6, <2>1 DEF WriteGroup, DeleteGroup, Typed
  <2> QED BY <2>1, <2>2, <2>3 DEF GroupsLocked
<1>7. ASSUME NEW w \in Sessions, RowStep(w) PROVE GroupsLocked'
  <2>1. UNCHANGED <<op, gid, draftGrp, grpLock>> BY <1>7, RowStepsLeave
  <2>2. CASE shared' = shared BY <2>1, <2>2 DEF GroupsLocked
  <2>3. CASE ForeignKey(w)
    <3>1. gid[w] \in GroupIds /\ Adds(w) BY <2>3 DEF ForeignKey, StepsInOrder, InOrder, InRows
    <3>2. grpLock[gid[w]] = NoSession
          BY <2>3, <3>1 DEF ForeignKey, GroupsLocked, Adds, GroupOps
    <3>3. \A g \in GroupIds : g # gid[w] => shared'[g] = shared[g]
          BY <2>3, <3>1 DEF ForeignKey, Typed
    <3> QED BY <2>1, <3>1, <3>2, <3>3, MarkersAssumption DEF GroupsLocked
  <2> QED BY <1>7, <2>2, <2>3, RowStepsShare
<1>8. ASSUME NEW w \in Sessions, Release(w) PROVE GroupsLocked'
      BY <1>8, ReleaseOthers DEF GroupsLocked
<1>9. ASSUME NEW w \in Sessions, Commit(w) \/ RollBack(w) PROVE GroupsLocked'
      BY <1>8, <1>9 DEF Commit, RollBack
<1>10. ASSUME NEW w \in Sessions, GroupStep(w) PROVE GroupsLocked'
      BY <1>3, <1>4, <1>5, <1>6, <1>10 DEF GroupStep
<1> QED BY <1>1, <1>2, <1>7, <1>9, <1>10, Actions

\* A commit writes only groups that its session has.
LEMMA CommitsLocked ==
    ASSUME GroupsLocked, NEW w \in Sessions, Commit(w), NEW g \in GroupIds, grpLock[g] # w
    PROVE  grp'[g] = grp[g]
BY DEF GroupsLocked, Commit, GroupSeen

LEMMA NextNewIds ==
    ASSUME Typed, GroupsLocked, NewIds, StepsInOrder, ReferencedStay, AddedRefer, [Next]_vars
    PROVE  NewIds'
<1>1. CASE UNCHANGED vars BY <1>1 DEF vars, tables, locks, NewIds
<1>2. ASSUME NEW w \in Sessions, NewCall(w) PROVE NewIds' BY <1>2, CallsLeave DEF NewIds
<1>3. ASSUME NEW w \in Sessions, Insert(w) PROVE NewIds'
  <2>1. grp' = grp /\ nextid' = nextid + 1 /\ grpLock' = [grpLock EXCEPT ![nextid] = w]
        BY <1>3 DEF Insert, tables
  <2> QED BY <2>1, GroupIdsType DEF NewIds, Typed
<1>4. ASSUME NEW w \in Sessions, LockGroup(w) PROVE NewIds'
  <2>1. \/ grpLock' = grpLock
        \/ Exists(w, gid[w]) /\ grpLock' = [grpLock EXCEPT ![gid[w]] = w]
        BY <1>4, LockGroupEffects
  <2>2. Exists(w, gid[w]) =>
            gid[w] \in GroupIds /\ (grp[gid[w]] # NoGroup \/ grpLock[gid[w]] # NoSession)
        BY MarkersAssumption DEF Exists, GroupSeen, GroupsLocked
  <2>3. UNCHANGED <<grp, nextid>> BY <1>4 DEF LockGroup, tables
  <2> QED BY <2>1, <2>2, <2>3 DEF NewIds, Typed
<1>5. ASSUME NEW w \in Sessions, CheckName(w) \/ WriteGroup(w) \/ DeleteGroup(w) PROVE NewIds'
      BY <1>5 DEF CheckName, WriteGroup, DeleteGroup, tables, locks, NewIds
<1>6. ASSUME NEW w \in Sessions, RowStep(w) PROVE NewIds' BY <1>6, RowStepsLeave DEF NewIds
<1>7. ASSUME NEW w \in Sessions, Commit(w) PROVE NewIds'
  <2>1. nextid' = nextid /\ \A g \in GroupIds : grpLock'[g] \in {grpLock[g], NoSession}
        BY <1>7, ReleaseOthers DEF Commit
  <2>2. \A g \in GroupIds : grpLock[g] = NoSession => grp'[g] = grp[g]
        BY <1>7, CommitsLocked, MarkersAssumption
  <2> QED BY <2>1, <2>2 DEF NewIds
<1>8. ASSUME NEW w \in Sessions, RollBack(w) PROVE NewIds'
      BY <1>8, ReleaseOthers DEF RollBack, tables, NewIds
<1> QED BY <1>1, <1>2, <1>3, <1>4, <1>5, <1>6, <1>7, <1>8, Actions DEF GroupStep

-----------------------------------------------------------------------------
(* The steps of a call in order *)

\* A session that others pass by keeps its order.
LEMMA OthersInOrder ==
    ASSUME NEW v \in Sessions, InOrder(v),
           UNCHANGED <<op[v], pc[v], gid[v], want[v], draftGrp[v]>>,
           \A g \in GroupIds : grpLock[g] = v => grpLock'[g] = v
    PROVE  InOrder(v)'
BY DEF InOrder, Adds

LEMMA NewCallInOrder ==
    ASSUME Typed, GroupsLocked, StepsInOrder, AddedRefer, ReferencedStay,
           NEW w \in Sessions, NewCall(w)
    PROVE  InOrder(w)'
<1>1. PICK f \in Ops \ {"none"}, g \in GroupIds \union {0}, row \in GroupRow \union {NoGroup},
           ds \in SUBSET Devices, s \in {"insert", "lock", "rows", "commit"} :
                 /\ Call(w, f, g, row, ds, s)
                 /\ s = "insert" => f = "devicegroup_upsert" /\ g = 0 /\ row # NoGroup
                 /\ s = "lock" => f \in {"update", "delete"} /\ g \in GroupIds
                 /\ s = "rows" => f \notin GroupOps /\ g \in GroupIds
                 /\ s = "commit" => f = "devicegroup_upsert" /\ g = 0 /\ row = NoGroup
                 /\ f = "update" => row # NoGroup
                 /\ f = "delete" => row = NoGroup
      BY NewCalls
<1>2. op'[w] = f /\ pc'[w] = s /\ gid'[w] = g /\ want'[w] = row
      BY <1>1 DEF Call, GoTo, Typed
<1>3. \A h \in GroupIds : draftGrp'[w][h] = Kept BY CallsLeave
<1>4. Kept # NoGroup BY MarkersAssumption
<1> QED BY <1>1, <1>2, <1>3, <1>4, GroupIdsType DEF InOrder, GroupOps, InRows

LEMMA GroupStepInOrder ==
    ASSUME Typed, GroupsLocked, NewIds, StepsInOrder, NEW w \in Sessions, GroupStep(w)
    PROVE  InOrder(w)'
<1>0. InOrder(w) BY DEF StepsInOrder
<1>1. Kept # NoGroup BY MarkersAssumption
<1>2. CASE Insert(w)
  <2>1. nextid \in GroupIds BY <1>2, NamesAssumption DEF Insert, GroupIds, Typed
  <2>2. /\ op'[w] = "devicegroup_upsert" /\ gid'[w] = nextid /\ pc'[w] = "name"
        /\ want'[w] # NoGroup /\ grpLock'[nextid] = w
        BY <1>0, <1>2, <2>1 DEF Insert, GoTo, Typed, InOrder
  <2>3. draftGrp'[w][nextid] = Kept
    <3>1. grpLock[nextid] = NoSession BY <2>1 DEF NewIds, Typed
    <3>2. draftGrp[w][nextid] = Kept BY <2>1, <3>1, MarkersAssumption DEF GroupsLocked
    <3> QED BY <1>2, <3>2 DEF Insert, drafts
  <2> QED BY <1>1, <2>1, <2>2, <2>3 DEF InOrder, GroupOps, InRows
<1>3. CASE LockGroup(w)
  <2>1. op[w] \in {"update", "delete"} /\ gid[w] \in GroupIds BY <1>0, <1>3 DEF LockGroup, InOrder
  <2>2. draftGrp[w][gid[w]] # NoGroup BY <1>0, <1>3, <2>1 DEF LockGroup, InOrder
  <2>3. UNCHANGED <<op, gid, want, draftGrp>> BY <1>3 DEF LockGroup, args, drafts
  <2>4. pc'[w] \in {"commit", "look", "name"} BY <1>3 DEF LockGroup, GoTo, Typed
  <2>5. pc'[w] = "look" => want[w] = NoGroup BY <1>3 DEF LockGroup, GoTo, Typed
  <2>6. pc'[w] = "name" => want[w] # NoGroup BY <1>3 DEF LockGroup, GoTo, Typed
  <2>7. pc'[w] # "commit" => grpLock'[gid[w]] = w
        BY <1>3, <2>1 DEF LockGroup, GoTo, Typed
  <2> QED BY <1>0, <2>1, <2>2, <2>3, <2>4, <2>5, <2>6, <2>7 DEF InOrder, GroupOps, InRows, Adds
<1>4. CASE CheckName(w)
  <2>1. UNCHANGED <<op, gid, want, draftGrp, grpLock>>
        BY <1>4 DEF CheckName, args, drafts, locks
  <2>2. pc[w] = "name" /\ pc'[w] = "look" BY <1>4 DEF CheckName, GoTo, Typed
  <2> QED BY <1>0, <2>1, <2>2 DEF InOrder, GroupOps, InRows, Adds
<1>5. CASE WriteGroup(w)
  <2>1. UNCHANGED <<op, gid, want, grpLock>> BY <1>5 DEF WriteGroup, args, locks
  <2>2. pc[w] = "group" /\ pc'[w] = "commit" /\ op[w] \in GroupOps \ {"delete"}
        BY <1>5 DEF WriteGroup, GoTo, Typed
  <2>3. gid[w] \in GroupIds /\ want[w] # NoGroup BY <1>0, <2>2 DEF InOrder, GroupOps
  <2>4. draftGrp'[w][gid[w]] = want[w] BY <1>5, <2>3 DEF WriteGroup, Typed
  <2> QED BY <1>0, <2>1, <2>2, <2>3, <2>4 DEF InOrder, GroupOps, InRows, Adds
<1>6. CASE DeleteGroup(w)
  <2>1. UNCHANGED <<op, gid, want, grpLock>> BY <1>6 DEF DeleteGroup, args, locks
  <2>2. pc[w] = "group" /\ pc'[w] = "rows" /\ op[w] = "delete"
        BY <1>6 DEF DeleteGroup, GoTo, Typed
  <2>3. gid[w] \in GroupIds BY <1>0, <2>2 DEF InOrder, GroupOps
  <2>4. draftGrp'[w][gid[w]] = NoGroup BY <1>6, <2>3 DEF DeleteGroup, Typed
  <2> QED BY <1>0, <2>1, <2>2, <2>3, <2>4 DEF InOrder, GroupOps, InRows, Adds
<1> QED BY <1>2, <1>3, <1>4, <1>5, <1>6 DEF GroupStep

\* The statements that the rows of members and the stamps take, one after another.
LEMMA RowStepsGo ==
    ASSUME Typed, StepsInOrder, NEW w \in Sessions, RowStep(w)
    PROVE  /\ \/ pc[w] = "look" /\ pc'[w] \in {"put", AfterStamps(w)}
              \/ pc[w] = "put" /\ pc'[w] = "look"
              \/ pc[w] = "rows" /\ pc'[w] \in {"commit", "row"}
              \/ pc[w] = "rows" /\ pc'[w] \in {"rows", "user"}
              \/ pc[w] = "row" /\ pc'[w] \in {"rows", "user"}
              \/ pc[w] = "user" /\ pc'[w] \in {"look", "lic"} /\ Exists(w, gid[w])
              \/ pc[w] = "user" /\ pc'[w] = "member" /\ ~Adds(w)
              \/ pc[w] = "lic" /\ pc'[w] = "look" /\ Exists(w, gid[w])
              \/ pc[w] = "member" /\ pc'[w] = "fk" /\ Adds(w)
              \/ pc[w] = "member" /\ pc'[w] = "rows" /\ ~Adds(w)
              \/ pc[w] = "fk" /\ pc'[w] = "rows"
           /\ \A v \in Sessions \ {w} : pc'[v] = pc[v]
<1>1. CASE LookForStamp(w) BY <1>1 DEF LookForStamp, GoTo, Typed
<1>2. CASE PutStamp(w) BY <1>2 DEF PutStamp, GoTo, Typed
<1>3. CASE RowsDone(w) \/ NextRow(w) BY <1>3 DEF RowsDone, NextRow, GoTo, Typed
<1>4. CASE LockRow(w) BY <1>4 DEF LockRow, GoTo, Typed
<1>5. CASE ReadUser(w) BY <1>5 DEF ReadUser, GoTo, Typed
<1>6. CASE ReadLicence(w) BY <1>6 DEF ReadLicence, GoTo, Typed
<1>7. CASE InsertRow(w) \/ DeleteRow(w) BY <1>7 DEF InsertRow, DeleteRow, GoTo, Typed
<1>8. CASE ForeignKey(w) BY <1>8 DEF ForeignKey, GoTo, Typed
<1> QED BY <1>1, <1>2, <1>3, <1>4, <1>5, <1>6, <1>7, <1>8 DEF RowStep

LEMMA RowStepInOrder ==
    ASSUME Typed, StepsInOrder, NEW w \in Sessions, RowStep(w)
    PROVE  InOrder(w)'
<1>0. InOrder(w) BY DEF StepsInOrder
<1>1. UNCHANGED <<op, gid, want, draftGrp, grpLock>> BY RowStepsLeave
<1>2. (Adds(w)' <=> Adds(w)) /\ (Adds(w) => op[w] \notin GroupOps) BY <1>1 DEF Adds, GroupOps
<1>3. Exists(w, gid[w]) => gid[w] \in GroupIds /\ draftGrp[w][gid[w]] # NoGroup
      BY MarkersAssumption DEF Exists, GroupSeen
<1>4. pc[w] \in InRows /\ Exists(w, gid[w]) => op[w] \notin GroupOps
      BY <1>0, <1>3 DEF InOrder
<1>5. pc'[w] \in {"put", "look", "group", "commit"} \union InRows
      BY RowStepsGo DEF AfterStamps, InRows
<1>6. gid[w] \in GroupIds BY <1>0, RowStepsGo DEF InOrder, InRows
<1>7. CASE op[w] \in GroupOps /\ pc[w] \in {"look", "put"}
  <2>1. pc'[w] \in {"look", "put", "group"} BY <1>7, RowStepsGo DEF AfterStamps
  <2> QED BY <1>0, <1>1, <1>2, <1>6, <1>7, <2>1 DEF InOrder, InRows
<1>8. CASE op[w] \in GroupOps /\ pc[w] \in InRows
  <2>1. op[w] = "delete" /\ draftGrp[w][gid[w]] = NoGroup BY <1>0, <1>8 DEF InOrder
  <2>2. pc'[w] \in {"commit", "row", "rows", "user", "member"}
        BY <1>2, <1>4, <1>8, RowStepsGo DEF InRows
  <2> QED BY <1>0, <1>1, <1>2, <1>6, <2>1, <2>2 DEF InOrder, InRows
<1>9. CASE op[w] \notin GroupOps
  <2>1. draftGrp[w][gid[w]] # NoGroup BY <1>0, <1>6, <1>9 DEF InOrder, GroupOps
  <2>2. pc'[w] \notin {"group"} BY <1>9, RowStepsGo DEF AfterStamps
  <2>3. pc'[w] = "fk" => Adds(w) BY <1>9, RowStepsGo DEF AfterStamps
  <2>4. op[w] \notin {"update", "delete", "devicegroup_upsert"} BY <1>9 DEF GroupOps
  <2> QED BY <1>1, <1>2, <1>5, <1>6, <1>9, <2>1, <2>2, <2>3, <2>4 DEF InOrder, InRows
<1> QED BY <1>7, <1>8, <1>9, RowStepsGo DEF InRows

\* The session that takes a step does not touch what the others' order speaks of.
LEMMA StepsPassBy ==
    ASSUME Typed, GroupsLocked, NewIds, StepsInOrder, NEW w \in Sessions,
           GroupStep(w) \/ RowStep(w), NEW v \in Sessions \ {w}
    PROVE  /\ UNCHANGED <<op[v], pc[v], gid[v], want[v], draftGrp[v], todo[v], dev[v], draftRow[v]>>
           /\ \A g \in GroupIds : grpLock[g] = v => grpLock'[g] = v
<1>1. CASE RowStep(w)
  <2>1. UNCHANGED <<op, gid, want, draftGrp, grpLock>> BY <1>1, RowStepsLeave
  <2>2. pc'[v] = pc[v] BY <1>1, RowStepsGo
  <2>3. UNCHANGED <<todo[v], dev[v], draftRow[v]>>
        BY <1>1 DEF RowStep, LookForStamp, PutStamp, RowsDone, NextRow, LockRow, ReadUser,
                    ReadLicence, InsertRow, DeleteRow, ForeignKey, visit, drafts, Typed
  <2> QED BY <2>1, <2>2, <2>3
<1>2. CASE GroupStep(w)
  <2>1. UNCHANGED <<op, want, dev, draftRow>> BY <1>2, GroupStepsLeave
  <2>2. UNCHANGED <<pc[v], gid[v], draftGrp[v], todo[v]>>
        BY <1>2 DEF GroupStep, Insert, LockGroup, CheckName, WriteGroup, DeleteGroup, GoTo, args,
                    visit, drafts, Typed
  <2>3. ASSUME NEW g \in GroupIds, grpLock[g] = v PROVE grpLock'[g] = v
    <3>1. CASE Insert(w)
      <4>1. grpLock' = [grpLock EXCEPT ![nextid] = w] BY <3>1 DEF Insert
      <4>2. g < nextid /\ nextid \in Nat BY <2>3, MarkersAssumption DEF NewIds, Typed
      <4>3. g # nextid BY <4>2, GroupIdsType
      <4> QED BY <2>3, <4>1, <4>3 DEF Typed
    <3>2. CASE LockGroup(w)
      <4>1. grpLock' = grpLock \/ grpLock' = [grpLock EXCEPT ![gid[w]] = w]
            BY <3>2, LockGroupEffects
      <4>2. grpLock[gid[w]] \in {NoSession, w} BY <3>2 DEF LockGroup, GroupFree
      <4> QED BY <2>3, <4>1, <4>2, MarkersAssumption DEF Typed
    <3>3. CASE CheckName(w) \/ WriteGroup(w) \/ DeleteGroup(w)
          BY <2>3, <3>3 DEF CheckName, WriteGroup, DeleteGroup, locks
    <3> QED BY <1>2, <3>1, <3>2, <3>3 DEF GroupStep
  <2> QED BY <2>1, <2>2, <2>3
<1> QED BY <1>1, <1>2

LEMMA NextInOrder ==
    ASSUME Typed, GroupsLocked, NewIds, StepsInOrder, ReferencedStay, AddedRefer, [Next]_vars
    PROVE  StepsInOrder'
<1> SUFFICES ASSUME NEW v \in Sessions PROVE InOrder(v)' BY DEF StepsInOrder
<1>0. InOrder(v) BY DEF StepsInOrder
<1>1. CASE UNCHANGED vars
      BY <1>0, <1>1, OthersInOrder DEF vars, args, drafts, locks
<1>2. ASSUME NEW w \in Sessions, NewCall(w) PROVE InOrder(v)'
  <2>1. CASE v = w BY <1>2, <2>1, NewCallInOrder
  <2>2. CASE v # w BY <1>0, <1>2, <2>2, CallsLeave, OthersInOrder
  <2> QED BY <2>1, <2>2
<1>3. ASSUME NEW w \in Sessions, GroupStep(w) \/ RowStep(w) PROVE InOrder(v)'
  <2>1. CASE v = w BY <1>3, <2>1, GroupStepInOrder, RowStepInOrder
  <2>2. CASE v # w BY <1>0, <1>3, <2>2, StepsPassBy, OthersInOrder
  <2> QED BY <2>1, <2>2
<1>4. ASSUME NEW w \in Sessions, Release(w) PROVE InOrder(v)'
  <2>1. CASE v = w
    <3>1. pc'[v] = "idle" /\ op'[v] = "none" /\ gid'[v] = 0 BY <1>4, <2>1, ReleaseOthers
    <3> QED BY <3>1, GroupIdsType DEF InOrder, InRows
  <2>2. CASE v # w BY <1>0, <1>4, <2>2, ReleaseOthers, OthersInOrder
  <2> QED BY <2>1, <2>2
<1>5. ASSUME NEW w \in Sessions, Commit(w) \/ RollBack(w) PROVE InOrder(v)'
      BY <1>4, <1>5 DEF Commit, RollBack
<1> QED BY <1>1, <1>2, <1>3, <1>5, Actions

-----------------------------------------------------------------------------
(* References to groups, and members *)

LEMMA NextReferenced ==
    ASSUME Typed, GroupsLocked, NewIds, StepsInOrder, ReferencedStay, AddedRefer, [Next]_vars
    PROVE  ReferencedStay'
<1>1. CASE UNCHANGED vars BY <1>1 DEF vars, tables, args, locks, ReferencedStay, Adds
<1>2. ASSUME NEW w \in Sessions, NewCall(w) PROVE ReferencedStay'
  <2>1. \A g \in GroupIds : \A v \in shared[g] : v \in Sessions \ {w}
        BY <1>2, CallsLeave DEF Typed
  <2> QED BY <1>2, <2>1, CallsLeave DEF ReferencedStay, Adds
<1>3. ASSUME NEW w \in Sessions, GroupStep(w) PROVE ReferencedStay'
  <2>1. UNCHANGED <<grp, op, shared>> BY <1>3, GroupStepsLeave
  <2>2. op[w] \in GroupOps
        BY <1>3 DEF GroupStep, Insert, LockGroup, CheckName, WriteGroup, DeleteGroup, StepsInOrder,
                    InOrder, GroupOps
  <2>3. \A g \in GroupIds : \A v \in shared[g] : v \in Sessions \ {w}
        BY <2>2 DEF ReferencedStay, Adds, GroupOps, Typed
  <2> QED BY <1>3, <2>1, <2>3, StepsPassBy DEF ReferencedStay, Adds
<1>4. ASSUME NEW w \in Sessions, RowStep(w) PROVE ReferencedStay'
  <2>1. UNCHANGED <<grp, op, gid>> BY <1>4, RowStepsLeave
  <2>2. CASE shared' = shared BY <2>1, <2>2 DEF ReferencedStay, Adds
  <2>3. CASE ForeignKey(w)
    <3>1. gid[w] \in GroupIds /\ Adds(w)
          BY <2>3 DEF ForeignKey, StepsInOrder, InOrder, InRows
    <3>2. draftGrp[w][gid[w]] = Kept BY <3>1 DEF GroupsLocked, Adds, GroupOps
    <3>3. grp[gid[w]] # NoGroup BY <2>3, <3>2 DEF ForeignKey, Referenced, Exists, GroupSeen
    <3>4. \A g \in GroupIds : \A v \in shared'[g] : v \in shared[g] \/ (v = w /\ g = gid[w])
          BY <2>3, <3>1 DEF ForeignKey, Typed
    <3> QED BY <2>1, <3>1, <3>3, <3>4 DEF ReferencedStay, Adds
  <2> QED BY <1>4, <2>2, <2>3, RowStepsShare
<1>5. ASSUME NEW w \in Sessions, Release(w),
             \A g \in GroupIds : grpLock[g] # w => grp'[g] = grp[g]
      PROVE  ReferencedStay'
  <2>1. \A g \in GroupIds : \A v \in shared'[g] : v \in shared[g] /\ v \in Sessions \ {w}
        BY <1>5, ReleaseOthers DEF Typed
  <2>2. \A g \in GroupIds : \A v \in shared'[g] : grpLock[g] # w
        BY <1>5, <2>1 DEF GroupsLocked
  <2> QED BY <1>5, <2>1, <2>2, ReleaseOthers DEF ReferencedStay, Adds
<1>6. ASSUME NEW w \in Sessions, Commit(w) PROVE ReferencedStay'
  <2>1. Release(w) BY <1>6 DEF Commit
  <2>2. \A g \in GroupIds : grpLock[g] # w => grp'[g] = grp[g] BY <1>6, CommitsLocked
  <2> QED BY <1>5, <2>1, <2>2
<1>7. ASSUME NEW w \in Sessions, RollBack(w) PROVE ReferencedStay'
      BY <1>5, <1>7 DEF RollBack, tables
<1> QED BY <1>1, <1>2, <1>3, <1>4, <1>6, <1>7, Actions

LEMMA NextAdded ==
    ASSUME Typed, GroupsLocked, NewIds, StepsInOrder, ReferencedStay, AddedRefer, [Next]_vars
    PROVE  AddedRefer'
<1>1. CASE UNCHANGED vars BY <1>1 DEF vars, args, visit, drafts, locks, AddedRefer, Adds
<1>2. ASSUME NEW w \in Sessions, NewCall(w) PROVE AddedRefer'
  <2>1. \A v \in Sessions, r \in Rows : draftRow'[v][r] = "in" =>
           v \in Sessions \ {w} /\ draftRow[v][r] = "in"
        BY <1>2, CallsLeave
  <2>2. \A v \in Sessions \ {w} : op'[v] = op[v] /\ pc'[v] = pc[v] /\ gid'[v] = gid[v] /\ dev'[v] = dev[v]
        BY <1>2, CallsLeave
  <2>3. shared' = shared BY <1>2, CallsLeave
  <2> QED BY <2>1, <2>2, <2>3 DEF AddedRefer, Adds
<1>3. ASSUME NEW w \in Sessions, GroupStep(w) PROVE AddedRefer'
  <2>1. UNCHANGED <<op, shared, draftRow>> BY <1>3, GroupStepsLeave
  <2>2. op[w] \in GroupOps
        BY <1>3 DEF GroupStep, Insert, LockGroup, CheckName, WriteGroup, DeleteGroup, StepsInOrder,
                    InOrder, GroupOps
  <2>3. \A r \in Rows : draftRow[w][r] # "in" BY <2>2 DEF AddedRefer, Adds, GroupOps
  <2> QED BY <1>3, <2>1, <2>3, StepsPassBy DEF AddedRefer, Adds
<1>4. ASSUME NEW w \in Sessions, RowStep(w) PROVE AddedRefer'
  <2>1. UNCHANGED <<op, gid>> BY <1>4, RowStepsLeave
  <2>2. \A g \in GroupIds : shared[g] \subseteq shared'[g]
    <3>1. shared' = shared \/ shared' = [shared EXCEPT ![gid[w]] = @ \union {w}]
          BY <1>4, RowStepsShare DEF ForeignKey
    <3>2. shared \in [GroupIds -> SUBSET Sessions] BY DEF Typed
    <3> QED BY <3>1, <3>2
  <2> SUFFICES ASSUME NEW r \in Rows, draftRow'[w][r] = "in"
               PROVE  /\ Adds(w) /\ r[1] = gid[w]
                      /\ w \in shared'[r[1]] \/ (pc'[w] = "fk" /\ dev'[w] = r[2])
      BY <1>4, <2>1, <2>2, StepsPassBy DEF AddedRefer, Adds, Rows
  <2>3. r[1] \in GroupIds BY DEF Rows
  <2>4. CASE draftRow[w][r] = "in"
    <3>1. Adds(w) /\ r[1] = gid[w] /\ (w \in shared[r[1]] \/ (pc[w] = "fk" /\ dev[w] = r[2]))
          BY <2>4 DEF AddedRefer
    <3>2. pc[w] = "fk" => ForeignKey(w)
          BY <1>4 DEF RowStep, LookForStamp, PutStamp, RowsDone, NextRow, LockRow, ReadUser,
                      ReadLicence, InsertRow, DeleteRow
    <3>3. ForeignKey(w) => w \in shared'[gid[w]] BY <2>3, <3>1 DEF ForeignKey, Typed
    <3> QED BY <2>2, <2>3, <3>1, <3>2, <3>3
  <2>5. CASE draftRow[w][r] # "in"
    <3>1. InsertRow(w) /\ r = Row(w)
          BY <1>4, <2>5 DEF RowStep, LookForStamp, PutStamp, RowsDone, NextRow, LockRow, ReadUser,
                      ReadLicence, InsertRow, DeleteRow, ForeignKey, drafts, Typed
    <3>2. pc'[w] = "fk" /\ dev' = dev /\ Adds(w) BY <3>1 DEF InsertRow, GoTo, visit, Typed
    <3> QED BY <3>1, <3>2 DEF Row
  <2> QED BY <2>4, <2>5
<1>5. ASSUME NEW w \in Sessions, Commit(w) \/ RollBack(w) PROVE AddedRefer'
  <2>1. Release(w) BY <1>5 DEF Commit, RollBack
  <2>2. \A g \in GroupIds, v \in Sessions \ {w} : v \in shared[g] => v \in shared'[g]
        BY <2>1, ReleaseOthers
  <2> QED BY <2>1, <2>2, ReleaseOthers DEF AddedRefer, Adds, Rows
<1> QED BY <1>1, <1>2, <1>3, <1>4, <1>5, Actions

\* What a commit makes of the members.
LEMMA CommitMembers ==
    ASSUME Typed, AddedRefer, NEW w \in Sessions, Commit(w)
    PROVE  \A r \in member' :
              /\ r \in Rows /\ draftRow[w][r] # "out"
              /\ r \in member \/ (Adds(w) /\ w \in shared[r[1]])
<1>1. pc[w] = "commit" /\ member' = {r \in Rows : RowSeen(w, r)} BY DEF Commit
<1>2. \A r \in Rows : draftRow[w][r] = "in" => Adds(w) /\ w \in shared[r[1]]
      BY <1>1 DEF AddedRefer
<1>3. \A r \in Rows : RowSeen(w, r) =>
         \/ draftRow[w][r] = "kept" /\ r \in member
         \/ draftRow[w][r] = "in"
      BY DEF RowSeen
<1> QED BY <1>1, <1>2, <1>3

LEMMA NextComplete ==
    ASSUME Typed, GroupsLocked, NewIds, StepsInOrder, ReferencedStay, AddedRefer,
           CascadeComplete, [Next]_vars
    PROVE  CascadeComplete'
<1> SUFFICES ASSUME NEW v \in Sessions, op'[v] = "delete", gid'[v] \in GroupIds,
                    draftGrp'[v][gid'[v]] = NoGroup
             PROVE  Complete(v)'
    BY DEF CascadeComplete, Complete
<1>0. Complete(v) BY DEF CascadeComplete
<1>a. Kept # NoGroup BY MarkersAssumption
<1>1. CASE UNCHANGED vars
      BY <1>0, <1>1 DEF vars, tables, args, visit, drafts, Complete, CascadeMisses
<1>2. ASSUME NEW w \in Sessions, NewCall(w) PROVE Complete(v)'
  <2>1. v # w BY <1>2, <1>a, CallsLeave
  <2>2. UNCHANGED <<member, op[v], pc[v], gid[v], todo[v], dev[v], draftGrp, draftRow>>
        BY <1>2, <2>1, CallsLeave
  <2> QED BY <1>0, <2>2 DEF Complete, CascadeMisses
<1>3. ASSUME NEW w \in Sessions, GroupStep(w) \/ RowStep(w), w # v PROVE Complete(v)'
  <2>1. UNCHANGED <<op[v], pc[v], gid[v], todo[v], dev[v], draftGrp[v], draftRow[v]>>
        BY <1>3, StepsPassBy
  <2>2. member' = member BY <1>3, GroupStepsLeave, RowStepsLeave
  <2> QED BY <1>0, <2>1, <2>2 DEF Complete, CascadeMisses
<1>4. ASSUME GroupStep(v) PROVE Complete(v)'
  <2>1. UNCHANGED <<member, op, dev, draftRow>> BY <1>4, GroupStepsLeave
  <2>2. InOrder(v)' BY <1>4, GroupStepInOrder
  <2>3. pc'[v] \in {"rows", "row", "user", "member", "commit"} BY <2>2 DEF InOrder
  <2>4. CASE DeleteGroup(v)
    <3>1. gid' = gid /\ pc'[v] = "rows" /\ todo'[v] = Members(v)
          BY <2>4 DEF DeleteGroup, GoTo, args, Typed
    <3>2. \A d \in Devices : <<gid[v], d>> \in Rows BY <3>1 DEF Rows
    <3>3. \A r \in Rows : draftRow[v][r] # "in" BY <2>1 DEF AddedRefer, Adds
    <3>4. \A d \in Devices : <<gid[v], d>> \in member /\ draftRow[v][<<gid[v], d>>] # "out" =>
             d \in Members(v)
          BY <3>2, <3>3 DEF Members, RowSeen, Typed
    <3> QED BY <2>1, <3>1, <3>4 DEF Complete, CascadeMisses
  <2>5. CASE LockGroup(v)
    <3>1. UNCHANGED <<gid, draftGrp>> /\ pc[v] = "lock" BY <2>5 DEF LockGroup, args, drafts
    <3> QED BY <2>1, <3>1 DEF StepsInOrder, InOrder
  <2>6. CASE Insert(v) \/ CheckName(v) \/ WriteGroup(v)
        BY <2>1, <2>3, <2>6 DEF Insert, CheckName, WriteGroup, GoTo, Typed, StepsInOrder, InOrder
  <2> QED BY <1>4, <2>4, <2>5, <2>6 DEF GroupStep
<1>5. ASSUME RowStep(v) PROVE Complete(v)'
  <2>1. UNCHANGED <<member, op, gid, draftGrp>> BY <1>5, RowStepsLeave
  <2>2. /\ op[v] = "delete" /\ gid[v] \in GroupIds /\ ~Adds(v)
        /\ pc[v] \in {"rows", "row", "user", "member"}
        /\ ~Exists(v, gid[v])
    <3>1. pc[v] \in {"rows", "row", "user", "member", "commit"}
          BY <2>1 DEF StepsInOrder, InOrder
    <3>2. ~Exists(v, gid[v]) BY <1>a, <2>1 DEF Exists, GroupSeen
    <3> QED BY <1>5, <2>1, <3>1, <3>2, RowStepsGo DEF Adds
  <2> DEFINE Misses == {d \in Devices : <<gid[v], d>> \in member /\ draftRow[v][<<gid[v], d>>] # "out"}
  <2>3. Misses \subseteq IF pc[v] = "rows" THEN todo[v] ELSE todo[v] \union {dev[v]}
        BY <1>0, <2>1, <2>2 DEF Complete, CascadeMisses
  <2>4. CASE pc[v] = "rows"
    <3>1. RowsDone(v) \/ NextRow(v)
          BY <1>5, <2>4 DEF RowStep, LookForStamp, PutStamp, LockRow, ReadUser, ReadLicence,
                            InsertRow, DeleteRow, ForeignKey
    <3>2. draftRow' = draftRow BY <3>1 DEF RowsDone, NextRow, drafts
    <3>3. RowsDone(v) => todo[v] = {} BY DEF RowsDone
    <3>4. NextRow(v) => pc'[v] = "row" /\ todo[v] \subseteq todo'[v] \union {dev'[v]}
      <4> SUFFICES ASSUME NextRow(v)
                   PROVE  pc'[v] = "row" /\ todo[v] \subseteq todo'[v] \union {dev'[v]}
          OBVIOUS
      <4>1. pc'[v] = "row" BY <2>2 DEF NextRow, GoTo, Typed
      <4>2. \E d \in todo[v] : todo'[v] = todo[v] \ {d} /\ dev'[v] = d BY DEF NextRow, Typed
      <4> QED BY <4>1, <4>2
    <3> QED BY <2>1, <2>3, <2>4, <3>1, <3>2, <3>3, <3>4 DEF Complete, CascadeMisses
  <2>5. CASE pc[v] # "rows"
    <3>1. LockRow(v) \/ ReadUser(v) \/ DeleteRow(v)
          BY <1>5, <2>2, <2>5 DEF RowStep, LookForStamp, PutStamp, RowsDone, NextRow, ReadLicence,
                            InsertRow, ForeignKey
    <3>2. UNCHANGED visit BY <3>1 DEF LockRow, ReadUser, DeleteRow
    <3>3. CASE pc'[v] \in {"user", "member"}
      <4>1. draftRow' = draftRow
            BY <3>1, <3>3 DEF LockRow, ReadUser, DeleteRow, GoTo, drafts, Typed
      <4> QED BY <2>1, <2>3, <2>5, <3>2, <3>3, <4>1 DEF Complete, CascadeMisses, visit
    <3>4. CASE pc'[v] = "rows"
      <4>1. \A d \in Devices : draftRow'[v][<<gid[v], d>>] # "out" =>
               draftRow[v][<<gid[v], d>>] # "out"
        <5>1. \/ draftRow' = draftRow
              \/ draftRow' = [draftRow EXCEPT ![v][Row(v)] = "out"]
              BY <3>1 DEF LockRow, ReadUser, DeleteRow, drafts
        <5>2. \A d \in Devices : <<gid[v], d>> \in Rows BY <2>2 DEF Rows
        <5>3. draftRow \in [Sessions -> [Rows -> {"kept", "in", "out"}]] BY DEF Typed
        <5> QED BY <5>1, <5>2, <5>3
      <4>2. ASSUME dev[v] \in Devices, <<gid[v], dev[v]>> \in member
            PROVE  draftRow'[v][<<gid[v], dev[v]>>] = "out"
        <5>1. Row(v) \in Rows BY <2>2, <4>2 DEF Row, Rows
        <5>2. CASE LockRow(v)
          <6>1. ~RowSeen(v, Row(v)) /\ draftRow' = draftRow
                BY <3>4, <5>2 DEF LockRow, GoTo, drafts, Typed
          <6> QED BY <4>2, <5>1, <6>1 DEF RowSeen, Row, Typed
        <5>3. CASE DeleteRow(v) BY <5>1, <5>3 DEF DeleteRow, Row, Typed
        <5>4. ~ReadUser(v) BY <3>4, <2>2 DEF ReadUser, GoTo, Typed
        <5> QED BY <3>1, <5>2, <5>3, <5>4
      <4> QED BY <2>1, <2>3, <2>5, <3>2, <3>4, <4>1, <4>2 DEF Complete, CascadeMisses, visit
    <3> QED BY <2>2, <2>5, <3>3, <3>4, <1>5, RowStepsGo
  <2> QED BY <2>4, <2>5
<1>6. ASSUME NEW w \in Sessions, Commit(w) PROVE Complete(v)'
  <2>0. Release(w) BY <1>6 DEF Commit
  <2>1. v # w BY <2>0, ReleaseOthers
  <2>2. UNCHANGED <<op[v], pc[v], gid[v], todo[v], dev[v], draftGrp[v], draftRow[v]>>
        BY <2>0, <2>1, ReleaseOthers
  <2>3. gid[v] \in GroupIds /\ draftGrp[v][gid[v]] = NoGroup BY <2>2
  <2>4. w \notin shared[gid[v]] BY <1>a, <2>1, <2>3 DEF GroupsLocked
  <2>5. \A d \in Devices : <<gid[v], d>> \in member' => <<gid[v], d>> \in member
    <3> SUFFICES ASSUME NEW d \in Devices, <<gid[v], d>> \in member' PROVE <<gid[v], d>> \in member
        OBVIOUS
    <3>1. <<gid[v], d>>[1] = gid[v] OBVIOUS
    <3> QED BY <1>6, <2>4, <3>1, CommitMembers
  <2> QED BY <1>0, <2>2, <2>5 DEF Complete, CascadeMisses
<1>7. ASSUME NEW w \in Sessions, RollBack(w) PROVE Complete(v)'
  <2>1. Release(w) /\ member' = member BY <1>7 DEF RollBack, tables
  <2>2. v # w BY <2>1, ReleaseOthers
  <2> QED BY <1>0, <2>1, <2>2, ReleaseOthers DEF Complete, CascadeMisses
<1>8. ASSUME NEW w \in Sessions, GroupStep(w) \/ RowStep(w) PROVE Complete(v)'
      BY <1>3, <1>4, <1>5, <1>8
<1> QED BY <1>1, <1>2, <1>6, <1>7, <1>8, Actions

-----------------------------------------------------------------------------
(* The theorems *)

LEMMA NextMembers ==
    ASSUME Typed, GroupsLocked, StepsInOrder, ReferencedStay, AddedRefer, CascadeComplete,
           MembersHaveGroups, [Next]_vars
    PROVE  MembersHaveGroups'
<1>1. ASSUME UNCHANGED <<grp, member>> PROVE MembersHaveGroups'
      BY <1>1 DEF MembersHaveGroups
<1>2. ASSUME NEW w \in Sessions, Commit(w) PROVE MembersHaveGroups'
  <2> SUFFICES ASSUME NEW r \in member' PROVE grp'[r[1]] # NoGroup BY DEF MembersHaveGroups
  <2>1. /\ r \in Rows /\ draftRow[w][r] # "out"
        /\ r \in member \/ (Adds(w) /\ w \in shared[r[1]])
        BY <1>2, CommitMembers
  <2>2. r[1] \in GroupIds /\ r[2] \in Devices /\ r = <<r[1], r[2]>> BY <2>1 DEF Rows
  <2>3. grp[r[1]] # NoGroup BY <2>1, <2>2 DEF MembersHaveGroups, ReferencedStay
  <2>4. draftGrp[w][r[1]] # NoGroup
    <3> SUFFICES ASSUME draftGrp[w][r[1]] = NoGroup PROVE FALSE OBVIOUS
    <3>1. gid[w] = r[1] BY <2>2, MarkersAssumption DEF GroupsLocked
    <3>2. op[w] = "delete" BY <2>2, <3>1 DEF StepsInOrder, InOrder
    <3>3. r \in member BY <2>1, <3>2 DEF Adds
    <3>4. CascadeMisses(w) = {}
          BY <1>2, <2>2, <3>1, <3>2 DEF Commit, CascadeComplete, Complete
    <3>5. r[2] \in CascadeMisses(w) BY <2>1, <2>2, <3>1, <3>3 DEF CascadeMisses
    <3> QED BY <3>4, <3>5
  <2>5. grp'[r[1]] = GroupSeen(w, r[1]) BY <1>2, <2>2 DEF Commit
  <2> QED BY <2>3, <2>4, <2>5 DEF GroupSeen
<1>3. ASSUME NEW w \in Sessions, NewCall(w) PROVE MembersHaveGroups' BY <1>1, <1>3, CallsLeave
<1>4. ASSUME NEW w \in Sessions, GroupStep(w) \/ RowStep(w) PROVE MembersHaveGroups'
      BY <1>1, <1>4, GroupStepsLeave, RowStepsLeave
<1>5. ASSUME NEW w \in Sessions, RollBack(w) PROVE MembersHaveGroups'
      BY <1>1, <1>5 DEF RollBack, tables
<1>6. ASSUME UNCHANGED vars PROVE MembersHaveGroups' BY <1>1, <1>6 DEF vars, tables
<1> QED BY <1>2, <1>3, <1>4, <1>5, <1>6, Actions

LEMMA InitInvariant == Init => IInv
<1> SUFFICES ASSUME Init PROVE IInv OBVIOUS
<1>1. TypeOK BY InitType
<1>2. GroupsLocked /\ NewIds /\ ReferencedStay
      BY MarkersAssumption DEF Init, GroupsLocked, NewIds, ReferencedStay
<1>3. StepsInOrder
      BY GroupIdsType, MarkersAssumption DEF Init, StepsInOrder, InOrder, InRows
<1>4. AddedRefer /\ CascadeComplete /\ MembersHaveGroups
      BY DEF Init, AddedRefer, CascadeComplete, Complete, MembersHaveGroups
<1> QED BY <1>1, <1>2, <1>3, <1>4 DEF IInv

LEMMA NextInvariant == IInv /\ [Next]_vars => IInv'
<1> SUFFICES ASSUME IInv, [Next]_vars PROVE IInv' OBVIOUS
<1>0. /\ TypeOK /\ GroupsLocked /\ NewIds /\ StepsInOrder /\ ReferencedStay /\ AddedRefer
      /\ CascadeComplete /\ MembersHaveGroups
      BY DEF IInv
<1>1. Typed BY <1>0, TypesOf
<1>2. TypeOK' BY <1>0, NextType
<1>3. GroupsLocked' /\ NewIds' BY <1>0, <1>1, NextLocked, NextNewIds
<1>4. StepsInOrder' BY <1>0, <1>1, NextInOrder
<1>5. ReferencedStay' /\ AddedRefer' BY <1>0, <1>1, NextReferenced, NextAdded
<1>6. CascadeComplete' BY <1>0, <1>1, NextComplete
<1>7. MembersHaveGroups' BY <1>0, <1>1, NextMembers
<1> QED BY <1>2, <1>3, <1>4, <1>5, <1>6, <1>7 DEF IInv

\* The inductive invariant of the groups: locks, references, and the cascade.
THEOREM Invariance == Spec => []IInv
BY InitInvariant, NextInvariant, PTL DEF Spec

\* Members are members of groups that exist, although their trigger looks at the
\* group long before their foreign key does, and deletions run meanwhile.
THEOREM NoOrphans == Spec => []MembersHaveGroups
<1>1. IInv => MembersHaveGroups BY DEF IInv
<1> QED BY <1>1, Invariance, PTL

-----------------------------------------------------------------------------
(* Names that differ in their case only *)

\* The call has looked for names like the one it writes.
Checked(w) ==
    /\ gid[w] \in GroupIds
    /\ op[w] \in GroupOps \ {"delete"}
    /\ pc[w] \in {"look", "put", "group"} \/ draftGrp[w][gid[w]] # Kept

Similar(row, row2) == row.owner = row2.owner /\ Lower[row.name] = Lower[row2.name]

\* What is there now, like the group that such a call writes, has come since; and
\* deletions write nothing but deletions.
NameChecked(w) ==
    /\ Checked(w) =>
        /\ draftGrp[w][gid[w]] \in {Kept, want[w]}
        /\ \A g \in GroupIds \ {gid[w]} :
              grp[g] # NoGroup /\ Similar(grp[g], want[w]) => g \in since[w]
    /\ op[w] = "delete" => \A g \in GroupIds : draftGrp[w][g] \in {Kept, NoGroup}

NamesChecked == \A w \in Sessions : NameChecked(w)

LEMMA CheckedWrites ==
    ASSUME IInv, NEW w \in Sessions, Checked(w)
    PROVE  pc[w] # "idle" /\ draftGrp[w][gid[w]] # NoGroup
BY DEF IInv, StepsInOrder, InOrder, Checked, GroupOps

\* What steps other than commits do to the groups and to what is remembered of them.
LEMMA Forgets ==
    ASSUME IInv, NEW w \in Sessions,
           NewCall(w) \/ GroupStep(w) \/ RowStep(w) \/ RollBack(w)
    PROVE  /\ grp' = grp /\ raced' = raced
           /\ \A v \in Sessions \ {w} : since'[v] = since[v]
           /\ since'[w] = since[w] \/ CheckName(w) \/ RollBack(w)
<1>0. Typed BY TypesOf DEF IInv
<1>1. CASE NewCall(w) BY <1>0, <1>1, NewCalls DEF Call, tables, history
<1>2. CASE GroupStep(w)
      BY <1>0, <1>2 DEF GroupStep, Insert, LockGroup, CheckName, WriteGroup, DeleteGroup, tables,
                        history, Typed
<1>3. CASE RowStep(w)
      BY <1>3 DEF RowStep, LookForStamp, PutStamp, RowsDone, NextRow, LockRow, ReadUser,
                  ReadLicence, InsertRow, DeleteRow, ForeignKey, tables, history
<1>4. CASE RollBack(w) BY <1>0, <1>4 DEF RollBack, tables, Typed
<1> QED BY <1>1, <1>2, <1>3, <1>4

\* What a commit makes of a group, and what the other calls remember of it.
LEMMA Commits ==
    ASSUME IInv, NEW w \in Sessions, NameChecked(w), Commit(w), NEW g \in GroupIds,
           grp'[g] # NoGroup, grp'[g] # grp[g]
    PROVE  /\ g = gid[w] /\ Checked(w) /\ grp'[g] = draftGrp[w][g]
           /\ \A v \in Sessions \ {w} : pc[v] # "idle" => g \in since'[v]
           /\ \A h \in since[w] : {g, h} \in raced'
<1>0. Typed /\ GroupsLocked /\ StepsInOrder BY TypesOf DEF IInv
<1>1. grp'[g] = GroupSeen(w, g) BY DEF Commit
<1>2. draftGrp[w][g] # Kept /\ grp'[g] = draftGrp[w][g] BY <1>1 DEF GroupSeen
<1>3. g = gid[w] /\ op[w] \in GroupOps BY <1>0, <1>2 DEF GroupsLocked
<1>4. op[w] # "delete" BY <1>2 DEF NameChecked
<1>5. Checked(w) BY <1>2, <1>3, <1>4 DEF Checked
<1> DEFINE written == {x \in GroupIds : draftGrp[w][x] \notin {Kept, NoGroup}}
<1>6. g \in written BY <1>2
<1>7. /\ \A v \in Sessions \ {w} : pc[v] # "idle" => since'[v] = since[v] \union written
      /\ raced' = raced \union {{x, h} : x \in written, h \in since[w]}
      BY DEF Commit
<1> HIDE DEF written
<1> QED BY <1>2, <1>3, <1>5, <1>6, <1>7

\* A call keeps what it remembers while another session takes a step.
LEMMA OthersNames ==
    ASSUME IInv, NEW w \in Sessions, NameChecked(w),
           NewCall(w) \/ GroupStep(w) \/ RowStep(w) \/ Commit(w) \/ RollBack(w),
           NEW v \in Sessions \ {w}, NameChecked(v)
    PROVE  NameChecked(v)'
<1>0. Typed /\ GroupsLocked /\ NewIds /\ StepsInOrder /\ AddedRefer /\ ReferencedStay
      BY TypesOf DEF IInv
<1>1. UNCHANGED <<op[v], pc[v], gid[v], want[v], draftGrp[v]>>
  <2>1. CASE NewCall(w) BY <1>0, <2>1, CallsLeave
  <2>2. CASE GroupStep(w) \/ RowStep(w) BY <1>0, <2>2, StepsPassBy
  <2>3. CASE Commit(w) \/ RollBack(w) BY <1>0, <2>3, ReleaseOthers DEF Commit, RollBack
  <2> QED BY <2>1, <2>2, <2>3
<1>2. op'[v] = "delete" => \A g \in GroupIds : draftGrp'[v][g] \in {Kept, NoGroup}
      BY <1>1 DEF NameChecked
<1>3. Checked(v)' => Checked(v) BY <1>1 DEF Checked
<1>4. since[v] \subseteq since'[v] \/ pc[v] = "idle"
  <2>1. CASE Commit(w) BY <1>0, <2>1 DEF Commit
  <2>2. CASE ~Commit(w) BY <2>2, Forgets
  <2> QED BY <2>1, <2>2
<1>5. ASSUME Checked(v), NEW g \in GroupIds \ {gid[v]}, grp'[g] # NoGroup,
             Similar(grp'[g], want[v])
      PROVE  g \in since'[v]
  <2>1. CASE grp'[g] = grp[g] BY <1>4, <1>5, <2>1, CheckedWrites DEF NameChecked
  <2>2. CASE grp'[g] # grp[g]
    <3>1. Commit(w) BY <2>2, Forgets
    <3> QED BY <1>5, <2>2, <3>1, Commits, CheckedWrites
  <2> QED BY <2>1, <2>2
<1> QED BY <1>1, <1>2, <1>3, <1>5 DEF NameChecked, Similar

\* The call itself: it remembers nothing of what came before its check, and the
\* check has found no name like its own.
LEMMA OwnNames ==
    ASSUME IInv, NEW w \in Sessions, NameChecked(w),
           NewCall(w) \/ GroupStep(w) \/ RowStep(w) \/ Commit(w) \/ RollBack(w)
    PROVE  NameChecked(w)'
<1>0. Typed /\ GroupsLocked /\ NewIds /\ StepsInOrder /\ AddedRefer /\ ReferencedStay
      BY TypesOf DEF IInv
<1>a. InOrder(w) BY <1>0 DEF StepsInOrder
<1>1. CASE NewCall(w)
  <2>1. draftGrp' = draftGrp /\ \A g \in GroupIds : draftGrp[w][g] = Kept
        BY <1>0, <1>1, CallsLeave
  <2>2. pc'[w] \in {"insert", "lock", "rows", "commit"}
        BY <1>0, <1>1, NewCalls DEF Call, GoTo, Typed
  <2> QED BY <2>1, <2>2 DEF NameChecked, Checked
<1>2. CASE Commit(w) \/ RollBack(w)
  <2>1. op'[w] = "none" BY <1>0, <1>2, ReleaseOthers DEF Commit, RollBack
  <2> QED BY <2>1 DEF NameChecked, Checked, GroupOps
<1>3. CASE Insert(w)
  <2>1. draftGrp' = draftGrp /\ op' = op BY <1>3 DEF Insert, drafts
  <2>2. gid[w] = 0 BY <1>3, <1>a DEF Insert, InOrder
  <2>3. \A g \in GroupIds : draftGrp[w][g] = Kept
        BY <1>0, <2>2, GroupIdsType DEF GroupsLocked
  <2>4. pc'[w] = "name" BY <1>0, <1>3 DEF Insert, GoTo, Typed
  <2> QED BY <2>1, <2>3, <2>4 DEF NameChecked, Checked
<1>4. CASE LockGroup(w)
  <2>1. UNCHANGED <<grp, op, gid, want, draftGrp, since>>
        BY <1>4 DEF LockGroup, tables, args, drafts, history
  <2>2. pc'[w] \in {"commit", "name"} \/ want[w] = NoGroup
        BY <1>0, <1>4 DEF LockGroup, GoTo, Typed
  <2>3. want[w] = NoGroup => op[w] = "delete" BY <1>4, <1>a DEF LockGroup, InOrder
  <2>4. Checked(w)' => Checked(w) BY <2>1, <2>2, <2>3 DEF Checked
  <2> QED BY <2>1, <2>4 DEF NameChecked
<1>5. CASE CheckName(w)
  <2>1. UNCHANGED <<grp, op, gid, want, draftGrp>> /\ ~NameTaken(w)
        BY <1>5 DEF CheckName, tables, args, drafts
  <2>2. gid[w] \in GroupIds /\ op[w] \in GroupOps \ {"delete"}
        BY <1>5, <1>a DEF CheckName, InOrder
  <2>3. ASSUME NEW g \in GroupIds \ {gid[w]}, grp[g] # NoGroup PROVE ~Similar(grp[g], want[w])
    <3>1. GroupSeen(w, g) = grp[g] BY <1>0 DEF GroupsLocked, GroupSeen
    <3> QED BY <2>1, <2>3, <3>1 DEF NameTaken, Exists, Similar
  <2>4. draftGrp[w][gid[w]] \in {Kept, want[w]} BY <2>2 DEF NameChecked, Checked
  <2> QED BY <2>1, <2>2, <2>3, <2>4 DEF NameChecked
<1>6. CASE WriteGroup(w)
  <2>1. UNCHANGED <<grp, op, gid, want, since>> BY <1>6 DEF WriteGroup, tables, args, history
  <2>2. gid[w] \in GroupIds /\ pc[w] = "group" /\ op[w] \in GroupOps \ {"delete"}
        BY <1>6, <1>a DEF WriteGroup, InOrder
  <2>3. Checked(w) BY <2>2 DEF Checked
  <2>4. draftGrp'[w][gid[w]] = want[w] BY <1>0, <1>6, <2>2 DEF WriteGroup, Typed
  <2> QED BY <2>1, <2>2, <2>3, <2>4 DEF NameChecked
<1>7. CASE DeleteGroup(w)
  <2>1. op' = op /\ op[w] = "delete" /\ gid[w] \in GroupIds
        BY <1>7, <1>a DEF DeleteGroup, args, InOrder, GroupOps
  <2>2. \A g \in GroupIds : draftGrp'[w][g] \in {draftGrp[w][g], NoGroup}
        BY <1>0, <1>7 DEF DeleteGroup, Typed
  <2> QED BY <2>1, <2>2 DEF NameChecked, Checked
<1>8. CASE RowStep(w)
  <2>1. UNCHANGED <<grp, op, gid, want, draftGrp>> BY <1>8, RowStepsLeave
  <2>2. since'[w] = since[w]
        BY <1>8 DEF RowStep, LookForStamp, PutStamp, RowsDone, NextRow, LockRow, ReadUser,
                    ReadLicence, InsertRow, DeleteRow, ForeignKey, history
  <2>3. /\ pc[w] \in InRows /\ op[w] \in GroupOps => op[w] = "delete"
        /\ pc'[w] \in {"look", "put", "group"} => pc[w] \in InRows \union {"look", "put"}
        BY <1>0, <1>8, <1>a, RowStepsGo DEF InOrder, InRows
  <2>4. Checked(w)' => Checked(w) BY <2>1, <2>3 DEF Checked
  <2> QED BY <2>1, <2>2, <2>4 DEF NameChecked
<1> QED BY <1>1, <1>2, <1>3, <1>4, <1>5, <1>6, <1>7, <1>8 DEF GroupStep

\* Of two groups that have become alike one has just been committed, and the other
\* was there, and is remembered.
LEMMA NextVariants ==
    ASSUME IInv, NamesChecked, VariantsOnlyByRace, [Next]_vars
    PROVE  NamesChecked' /\ VariantsOnlyByRace'
<1>1. CASE UNCHANGED vars
  <2>1. UNCHANGED <<grp, raced, since, op, pc, gid, want, draftGrp>>
        BY <1>1 DEF vars, tables, history, args, drafts
  <2> QED BY <2>1 DEF NamesChecked, NameChecked, Checked, VariantsOnlyByRace
<1>2. ASSUME NEW w \in Sessions,
             NewCall(w) \/ GroupStep(w) \/ RowStep(w) \/ Commit(w) \/ RollBack(w)
      PROVE  NamesChecked' /\ VariantsOnlyByRace'
  <2>1. NamesChecked' BY <1>2, OthersNames, OwnNames DEF NamesChecked
  <2>2. NameChecked(w) BY DEF NamesChecked
  <2>3. raced \subseteq raced'
    <3>1. CASE Commit(w) BY <3>1 DEF Commit
    <3>2. CASE ~Commit(w) BY <1>2, <3>2, Forgets
    <3> QED BY <3>1, <3>2
  <2>4. ASSUME NEW g \in GroupIds, NEW h \in GroupIds, g # h, grp'[g] # NoGroup,
               grp'[h] # NoGroup, Similar(grp'[g], grp'[h]), grp'[g] # grp[g]
        PROVE  {g, h} \in raced'
    <3>1. Commit(w) BY <1>2, <2>4, Forgets
    <3>2. g = gid[w] /\ Checked(w) /\ grp'[g] = draftGrp[w][g] /\ draftGrp[w][g] # Kept
      <4>1. g = gid[w] /\ Checked(w) /\ grp'[g] = draftGrp[w][g]
            BY <2>2, <2>4, <3>1, Commits
      <4>2. draftGrp[w][g] # Kept BY <2>4, <3>1 DEF Commit, GroupSeen
      <4> QED BY <4>1, <4>2
    <3>3. grp'[g] = want[w] BY <2>2, <3>2 DEF NameChecked
    <3>4. grp'[h] = grp[h] BY <2>2, <2>4, <3>1, <3>2, Commits
    <3>5. h \in since[w] BY <2>2, <2>4, <3>2, <3>3, <3>4 DEF NameChecked, Similar
    <3> QED BY <2>2, <2>4, <3>1, <3>5, Commits
  <2>5. ASSUME NEW g \in GroupIds, NEW h \in GroupIds, g # h, grp'[g] # NoGroup,
               grp'[h] # NoGroup, Similar(grp'[g], grp'[h])
        PROVE  {g, h} \in raced'
    <3>1. CASE grp'[g] # grp[g] BY <2>4, <2>5, <3>1
    <3>2. CASE grp'[h] # grp[h]
      <4>1. Similar(grp'[h], grp'[g]) BY <2>5 DEF Similar
      <4>2. {h, g} \in raced' BY <2>4, <2>5, <3>2, <4>1
      <4>3. {h, g} = {g, h} OBVIOUS
      <4> QED BY <4>2, <4>3
    <3>3. CASE grp'[g] = grp[g] /\ grp'[h] = grp[h]
      <4>1. {g, h} \in raced BY <2>5, <3>3 DEF VariantsOnlyByRace, Similar
      <4> QED BY <2>3, <4>1
    <3> QED BY <3>1, <3>2, <3>3
  <2>6. VariantsOnlyByRace' BY <2>5 DEF VariantsOnlyByRace, Similar
  <2> QED BY <2>1, <2>6
<1> QED BY <1>1, <1>2, Actions

\* Groups of one owner whose names differ in their case only are the work of calls
\* that ran at the same time, for any number of sessions and any names.
THEOREM VariantsAreRaces == Spec => []VariantsOnlyByRace
<1>1. Init => NamesChecked /\ VariantsOnlyByRace
      BY DEF Init, NamesChecked, NameChecked, Checked, GroupOps, VariantsOnlyByRace
<1>2. IInv /\ NamesChecked /\ VariantsOnlyByRace /\ [Next]_vars
         => NamesChecked' /\ VariantsOnlyByRace'
      BY NextVariants
<1> QED BY <1>1, <1>2, Invariance, PTL DEF Spec

-----------------------------------------------------------------------------
(* The stamps that a call holds for what it will commit *)

RowOps == {"devicegroupdevice_upsert_static", "devicegroupdevice_delete_static"}

Held(w) == {k \in Stamps : stampLock[k] = w}

\* The groups that have been committed; a call that creates one has an id of its own.
IdsKnown(w) ==
    /\ op[w] = "none" => gid[w] = 0
    /\ op[w] \notin {"none", "devicegroup_upsert"} => gid[w] \in known
    /\ op[w] = "devicegroup_upsert" /\ gid[w] \in GroupIds =>
          gid[w] \notin known /\ grpLock[gid[w]] = w
    /\ op[w] \in {"update", "delete"} /\ grpLock[gid[w]] = w => grp[gid[w]] # NoGroup

GroupsKnown ==
    /\ \A g \in GroupIds : grp[g] # NoGroup => g \in known
    /\ \A g \in known : g < nextid
    /\ \A w \in Sessions : IdsKnown(w)

\* The stamps of what the call writes, as the trigger reckons them.
Needs(w) ==
    LET old == grp[gid[w]].owner
        new == want[w].owner
    IN  IF want[w] = NoGroup THEN {StampOf(old)}
        ELSE IF grp[gid[w]] # NoGroup /\ OwnerChanges(old, new)
        THEN {PublicStamp, IF new.user = PublicUser THEN old ELSE new}
        ELSE {StampOf(new)}

\* A call that writes a group has put them, or is to put them.
GroupStamped(w) ==
    op[w] \in GroupOps /\ gid[w] \in GroupIds =>
        /\ pc[w] \in {"lock", "name", "look", "put", "group"} => draftGrp[w][gid[w]] = Kept
        /\ pc[w] \in {"look", "put"} => Needs(w) \subseteq due[w] \union Held(w)
        /\ pc[w] = "group" \/ draftGrp[w][gid[w]] # Kept => Needs(w) \subseteq Held(w)
        /\ draftGrp[w][gid[w]] \in {Kept, want[w]}

\* A call that writes members has put the stamp of the group's owner, if the group
\* still is there and has the owner that it had.
RowStamped(w) ==
    op[w] \in RowOps /\ ~moved[w] /\ grp[gid[w]] # NoGroup =>
        LET k == StampOf(grp[gid[w]].owner) IN
        /\ (\E r \in Rows : draftRow[w][r] # "kept") => k \in Held(w)
        /\ pc[w] \in {"look", "put"} => k \in due[w] \union Held(w)
        /\ pc[w] = "lic" => usr[w] = grp[gid[w]].owner.user /\ usr[w] # PublicUser
        /\ pc[w] \in {"member", "fk"} => k \in Held(w)

\* A call writes members of its group only.
RowDrafts(w) ==
    \A r \in Rows : draftRow[w][r] # "kept" =>
        /\ r[1] = gid[w]
        /\ op[w] \in RowOps \/ (op[w] = "delete" /\ draftGrp[w][gid[w]] = NoGroup)

Stamping(w) == GroupStamped(w) /\ RowStamped(w) /\ RowDrafts(w)

StampsPut == \A w \in Sessions : Stamping(w)

\* What IInv says, taken apart.
LEMMA Parts ==
    ASSUME IInv
    PROVE  /\ Typed /\ Flags /\ GroupsLocked /\ NewIds /\ StepsInOrder /\ ReferencedStay
           /\ AddedRefer
           /\ \A w \in Sessions : InOrder(w)
BY TypesOf DEF IInv, StepsInOrder

\* Only a session that has a group locked writes it, and none can write a group that
\* was there once and is not any more.
LEMMA CommitWrites ==
    ASSUME IInv, GroupsKnown, StampsPut, NEW w \in Sessions, Commit(w), NEW g \in GroupIds
    PROVE  /\ draftGrp[w][g] = Kept => grp'[g] = grp[g]
           /\ draftGrp[w][g] # Kept =>
                 /\ g = gid[w] /\ grpLock[g] = w /\ op[w] \in GroupOps
                 /\ grp'[g] = want[w] /\ draftGrp[w][g] = want[w]
                 /\ Needs(w) \subseteq Held(w)
                 /\ op[w] # "devicegroup_upsert" => grp[g] # NoGroup
                 /\ op[w] = "delete" <=> want[w] = NoGroup
           /\ g \in known /\ grp[g] = NoGroup => grp'[g] = NoGroup
<1>0. Typed /\ GroupsLocked /\ InOrder(w) /\ IdsKnown(w) /\ GroupStamped(w)
      BY Parts DEF GroupsKnown, StampsPut, Stamping
<1>1. grp'[g] = GroupSeen(w, g) BY DEF Commit
<1>2. draftGrp[w][g] = Kept => grp'[g] = grp[g] BY <1>1 DEF GroupSeen
<1>3. ASSUME draftGrp[w][g] # Kept
      PROVE  /\ g = gid[w] /\ grpLock[g] = w /\ op[w] \in GroupOps
             /\ grp'[g] = want[w] /\ draftGrp[w][g] = want[w]
             /\ Needs(w) \subseteq Held(w)
             /\ op[w] # "devicegroup_upsert" => grp[g] # NoGroup
             /\ op[w] = "delete" <=> want[w] = NoGroup
  <2>1. g = gid[w] /\ grpLock[g] = w /\ op[w] \in GroupOps BY <1>0, <1>3 DEF GroupsLocked
  <2>2. draftGrp[w][g] = want[w] /\ Needs(w) \subseteq Held(w) BY <1>0, <1>3, <2>1 DEF GroupStamped
  <2>3. grp'[g] = want[w] BY <1>1, <1>3, <2>2 DEF GroupSeen
  <2>4. op[w] # "devicegroup_upsert" => grp[g] # NoGroup
        BY <1>0, <2>1 DEF IdsKnown, GroupOps
  <2>5. want[w] = NoGroup => op[w] = "delete" BY <1>0, <2>1, <2>2 DEF InOrder
  <2>6. op[w] = "delete" => want[w] = NoGroup BY <1>0 DEF InOrder
  <2> QED BY <2>1, <2>2, <2>3, <2>4, <2>5, <2>6
<1>4. g \in known /\ grp[g] = NoGroup => grp'[g] = NoGroup
  <2>1. CASE draftGrp[w][g] = Kept BY <1>2, <2>1
  <2>2. CASE draftGrp[w][g] # Kept BY <1>0, <1>3, <2>2 DEF IdsKnown
  <2> QED BY <2>1, <2>2
<1> QED BY <1>2, <1>3, <1>4

\* The database changes only when a call commits.
LEMMA Tables ==
    ASSUME IInv, NEW w \in Sessions,
           NewCall(w) \/ GroupStep(w) \/ RowStep(w) \/ RollBack(w)
    PROVE  /\ grp' = grp /\ member' = member /\ stamp' = stamp /\ known' = known
           /\ \A v \in Sessions \ {w} : moved'[v] = moved[v]
           /\ ~RollBack(w) => moved' = moved
<1>0. Flags BY Parts
<1>1. CASE NewCall(w)
      BY <1>1 DEF NewCall, Upsert, Update, Delete, AddMembers, DeleteMembers, Call, tables, history
<1>2. CASE GroupStep(w)
      BY <1>2 DEF GroupStep, Insert, LockGroup, CheckName, WriteGroup, DeleteGroup, tables, history
<1>3. CASE RowStep(w)
      BY <1>3 DEF RowStep, LookForStamp, PutStamp, RowsDone, NextRow, LockRow, ReadUser,
                  ReadLicence, InsertRow, DeleteRow, ForeignKey, tables, history
<1>4. CASE RollBack(w) BY <1>0, <1>4 DEF RollBack, tables, Flags
<1> QED BY <1>1, <1>2, <1>3, <1>4

\* What the steps of a session leave of the others, and of the stamps they hold.
LEMMA Others ==
    ASSUME IInv, NEW w \in Sessions,
           NewCall(w) \/ GroupStep(w) \/ RowStep(w) \/ Commit(w) \/ RollBack(w),
           NEW v \in Sessions \ {w}
    PROVE  /\ UNCHANGED <<op[v], pc[v], gid[v], want[v], draftGrp[v], draftRow[v], due[v], usr[v]>>
           /\ Held(v) \subseteq Held(v)'
           /\ \A g \in GroupIds : grpLock'[g] = v <=> grpLock[g] = v
<1>0. Typed /\ GroupsLocked /\ NewIds /\ StepsInOrder /\ ReferencedStay /\ AddedRefer BY Parts
<1>1. CASE NewCall(w)
  <2>1. UNCHANGED <<due, usr, stampLock>>
        BY <1>1 DEF NewCall, Upsert, Update, Delete, AddMembers, DeleteMembers, Call, trigger, locks
  <2> QED BY <1>0, <1>1, <2>1, CallsLeave DEF Held
<1>2. CASE GroupStep(w) \/ RowStep(w)
  <2>1. UNCHANGED <<op[v], pc[v], gid[v], want[v], draftGrp[v], draftRow[v]>>
        BY <1>0, <1>2, StepsPassBy
  <2>2. UNCHANGED <<due[v], usr[v]>>
    <3>1. CASE LockGroup(w)
      <4>1. usr' = usr BY <3>1 DEF LockGroup
      <4>2. due' = due \/ \E D \in SUBSET Stamps : due' = [due EXCEPT ![w] = D]
            BY <1>0, <3>1, LockGroupEffects, StampsType DEF Exists
      <4> QED BY <1>0, <4>1, <4>2 DEF Typed
    <3>2. CASE ReadUser(w) BY <1>0, <3>2, ReadUserEffects DEF Typed
    <3>3. CASE ~LockGroup(w) /\ ~ReadUser(w)
          BY <1>0, <1>2, <3>3 DEF GroupStep, RowStep, Insert, CheckName, WriteGroup, DeleteGroup,
             LookForStamp, PutStamp, RowsDone, NextRow, LockRow, ReadLicence, InsertRow,
             DeleteRow, ForeignKey, trigger, Typed
    <3> QED BY <3>1, <3>2, <3>3
  <2>3. Held(v) \subseteq Held(v)'
    <3>1. CASE PutStamp(w)
      <4>1. PICK k \in Stamps : StampFree(w, k) /\ stampLock' = [stampLock EXCEPT ![k] = w]
            BY <3>1 DEF PutStamp, CanPut
      <4>2. stampLock[k] # v BY <4>1, MarkersAssumption DEF StampFree
      <4> QED BY <1>0, <4>1, <4>2 DEF Held, Typed
    <3>2. CASE ~PutStamp(w)
      <4>1. stampLock' = stampLock
            BY <1>2, <3>2 DEF GroupStep, RowStep, Insert, LockGroup, CheckName, WriteGroup,
               DeleteGroup, LookForStamp, RowsDone, NextRow, LockRow, ReadUser, ReadLicence,
               InsertRow, DeleteRow, ForeignKey, locks
      <4> QED BY <4>1 DEF Held
    <3> QED BY <3>1, <3>2
  <2>4. \A g \in GroupIds : grpLock'[g] = v => grpLock[g] = v
    <3>1. CASE Insert(w)
          BY <1>0, <3>1 DEF Insert, Typed
    <3>2. CASE LockGroup(w)
          BY <1>0, <3>2, LockGroupEffects DEF Typed
    <3>3. CASE ~Insert(w) /\ ~LockGroup(w)
          BY <1>2, <3>3, RowStepsLeave DEF GroupStep, CheckName, WriteGroup, DeleteGroup, locks
    <3> QED BY <3>1, <3>2, <3>3
  <2> QED BY <1>0, <1>2, <2>1, <2>2, <2>3, <2>4, StepsPassBy
<1>3. CASE Commit(w) \/ RollBack(w)
  <2>1. Release(w) BY <1>3 DEF Commit, RollBack
  <2>2. UNCHANGED <<due[v], usr[v]>> BY <1>0, <2>1 DEF Release, Typed
  <2>3. Held(v) \subseteq Held(v)' BY <1>0, <2>1 DEF Release, Held, Typed
  <2> QED BY <1>0, <2>1, <2>2, <2>3, ReleaseOthers
<1> QED BY <1>1, <1>2, <1>3

LEMMA NextKnown ==
    ASSUME IInv, GroupsKnown, StampsPut, NEW w \in Sessions,
           NewCall(w) \/ GroupStep(w) \/ RowStep(w) \/ Commit(w) \/ RollBack(w)
    PROVE  GroupsKnown'
<1>0. Typed /\ GroupsLocked /\ NewIds /\ StepsInOrder /\ ReferencedStay /\ AddedRefer
      /\ InOrder(w) /\ IdsKnown(w)
      BY Parts DEF GroupsKnown
<1>1. known \subseteq known' /\ nextid <= nextid' /\ nextid \in Nat /\ nextid' \in Nat
  <2>1. known \subseteq known' BY Tables DEF Commit
  <2>2. CASE Insert(w) BY <1>0, <2>1, <2>2 DEF Insert, Typed
  <2>3. CASE ~Insert(w)
    <3>1. nextid' = nextid
          BY <1>0, <2>3, CallsLeave, RowStepsLeave, ReleaseOthers
             DEF GroupStep, LockGroup, CheckName, WriteGroup, DeleteGroup, Commit, RollBack
    <3> QED BY <1>0, <2>1, <3>1 DEF Typed
  <2> QED BY <2>2, <2>3
<1>2. CASE ~Commit(w)
  <2>1. grp' = grp /\ known' = known BY <1>2, Tables
  <2>2. ASSUME NEW v \in Sessions \ {w} PROVE IdsKnown(v)'
    <3>1. IdsKnown(v) BY DEF GroupsKnown
    <3>2. gid[v] \in known => gid[v] \in GroupIds BY <1>0 DEF Typed
    <3> QED BY <2>1, <3>1, <3>2, Others DEF IdsKnown
  <2>3. IdsKnown(w)'
    <3>1. CASE NewCall(w)
      <4>1. PICK f \in Ops \ {"none"}, g \in GroupIds \union {0}, row \in GroupRow \union {NoGroup},
                 ds \in SUBSET Devices, s \in {"insert", "lock", "rows", "commit"} :
                   /\ Call(w, f, g, row, ds, s)
                   /\ s = "insert" => f = "devicegroup_upsert" /\ g = 0 /\ row # NoGroup
                   /\ s = "commit" => f = "devicegroup_upsert" /\ g = 0 /\ row = NoGroup
                   /\ s = "lock" => f \in {"update", "delete"}
                   /\ s = "rows" => f \notin GroupOps
            BY <1>0, <3>1, NewCalls
      <4>2. g # 0 => g \in known
        <5>1. gid'[w] = g /\ op'[w] = f BY <1>0, <4>1 DEF Call, Typed
        <5>2. CASE \E n \in Names, o \in Owners : Upsert(w, n, o)
              BY <1>0, <5>1, <5>2 DEF Upsert, Call, Typed
        <5>3. CASE \E h \in known : \/ \E n \in Names, o \in Owners : Update(w, h, n, o)
                                    \/ \E ds2 \in SUBSET Devices : AddMembers(w, h, ds2)
                                    \/ Delete(w, h) \/ DeleteMembers(w, h)
              BY <1>0, <5>1, <5>3 DEF Update, Delete, AddMembers, DeleteMembers, Call, Typed
        <5> QED BY <3>1, <5>2, <5>3 DEF NewCall
      <4>3. gid'[w] = g /\ op'[w] = f BY <1>0, <4>1 DEF Call, Typed
      <4>4. \A h \in GroupIds : grpLock'[h] # w BY <1>0, <3>1, CallsLeave
      <4>5. g = 0 => f = "devicegroup_upsert"
        <5>1. g = 0 => 0 \notin GroupIds BY GroupIdsType
        <5>2. s \in {"lock", "rows"} => g \in GroupIds
          <6>1. CASE \E n \in Names, o \in Owners : Upsert(w, n, o)
                BY <1>0, <4>1, <6>1 DEF Upsert, Call, GoTo, Typed
          <6>2. CASE \E h \in known : \/ \E n \in Names, o \in Owners : Update(w, h, n, o)
                                      \/ \E ds2 \in SUBSET Devices : AddMembers(w, h, ds2)
                                      \/ Delete(w, h) \/ DeleteMembers(w, h)
                BY <1>0, <4>3, <6>2 DEF Update, Delete, AddMembers, DeleteMembers, Call, Typed
          <6> QED BY <3>1, <6>1, <6>2 DEF NewCall
        <5> QED BY <4>1, <5>1, <5>2
      <4>6. f = "devicegroup_upsert" => g = 0 BY <4>1 DEF GroupOps
      <4> QED BY <1>0, <2>1, <4>2, <4>3, <4>4, <4>5, <4>6, GroupIdsType DEF IdsKnown, Typed
    <3>2. CASE RollBack(w)
          BY <1>0, <3>2, ReleaseOthers, GroupIdsType DEF RollBack, IdsKnown
    <3>3. CASE Insert(w)
      <4>1. op[w] = "devicegroup_upsert" /\ op' = op BY <1>0, <3>3 DEF Insert, InOrder
      <4>2. gid'[w] = nextid /\ nextid \in GroupIds /\ grpLock'[nextid] = w
            BY <1>0, <3>3, NamesAssumption DEF Insert, GroupIds, Typed
      <4>3. nextid \notin known BY <1>0, GroupIdsType DEF GroupsKnown, Typed
      <4> QED BY <2>1, <4>1, <4>2, <4>3 DEF IdsKnown
    <3>4. CASE LockGroup(w)
      <4>1. op' = op /\ gid' = gid /\ op[w] \in {"update", "delete"} /\ gid[w] \in GroupIds
            BY <1>0, <3>4 DEF LockGroup, args, InOrder
      <4>2. Exists(w, gid[w]) => grp[gid[w]] # NoGroup
        <5>1. draftGrp[w][gid[w]] = Kept
              BY <3>4, <4>1 DEF StampsPut, Stamping, GroupStamped, LockGroup, GroupOps
        <5> QED BY <5>1 DEF Exists, GroupSeen
      <4>3. grpLock'[gid[w]] = w => grpLock[gid[w]] = w \/ Exists(w, gid[w])
            BY <3>4, <4>1, LockGroupEffects
      <4> QED BY <1>0, <2>1, <4>1, <4>2, <4>3 DEF IdsKnown
    <3>5. CASE CheckName(w) \/ WriteGroup(w) \/ DeleteGroup(w)
          BY <1>0, <2>1, <3>5 DEF CheckName, WriteGroup, DeleteGroup, args, locks, IdsKnown
    <3>6. CASE RowStep(w) BY <1>0, <2>1, <3>6, RowStepsLeave DEF IdsKnown
    <3> QED BY <1>2, <3>1, <3>2, <3>3, <3>4, <3>5, <3>6 DEF GroupStep
  <2>4. \A g \in known' : g < nextid'
        BY <1>0, <1>1, <2>1, GroupIdsType DEF GroupsKnown, Typed
  <2> QED BY <2>1, <2>2, <2>3, <2>4 DEF GroupsKnown
<1>3. CASE Commit(w)
  <2> DEFINE written == {g \in GroupIds : draftGrp[w][g] \notin {Kept, NoGroup}}
  <2>1. known' = known \union written BY <1>3 DEF Commit
  <2>2. \A g \in written : grpLock[g] = w /\ g \in GroupIds BY <1>0 DEF GroupsLocked
  <2>3. \A g \in GroupIds : draftGrp[w][g] \notin {Kept, NoGroup} => g \in known' BY <2>1
  <2> HIDE DEF written
  <2>4. \A g \in GroupIds : grp'[g] # NoGroup => g \in known'
        BY <1>1, <1>3, <2>3 DEF Commit, GroupSeen, GroupsKnown
  <2>5. ASSUME NEW g \in known' PROVE g < nextid'
    <3>1. g < nextid
      <4>1. CASE g \in known BY <4>1 DEF GroupsKnown
      <4>2. CASE g \in written BY <1>0, <2>2, <4>2, MarkersAssumption DEF NewIds
      <4> QED BY <2>1, <4>1, <4>2
    <3>2. g \in Nat BY <1>0, <2>1, <2>2, GroupIdsType DEF Typed
    <3> QED BY <1>1, <3>1, <3>2
  <2>6. ASSUME NEW v \in Sessions \ {w} PROVE IdsKnown(v)'
    <3>1. IdsKnown(v) BY DEF GroupsKnown
    <3>2. UNCHANGED <<op[v], gid[v]>> /\ \A g \in GroupIds : grpLock'[g] = v <=> grpLock[g] = v
          BY <1>3, Others
    <3>3. \A g \in GroupIds : grpLock[g] = v => grp'[g] = grp[g] /\ g \notin written
          BY <1>0, <1>3, <2>2, CommitsLocked
    <3>4. op[v] \in {"update", "delete"} => gid[v] \in GroupIds BY <1>0, <3>1 DEF IdsKnown, Typed
    <3> QED BY <1>1, <2>1, <3>1, <3>2, <3>3, <3>4 DEF IdsKnown
  <2>7. IdsKnown(w)' BY <1>0, <1>3, ReleaseOthers, GroupIdsType DEF Commit, IdsKnown
  <2> QED BY <2>4, <2>5, <2>6, <2>7 DEF GroupsKnown
<1> QED BY <1>2, <1>3

\* The group of another call stays what its stamps are reckoned from, unless a commit
\* gives it another owner, and then the call knows that the group has moved.
LEMMA OthersStamping ==
    ASSUME IInv, GroupsKnown, StampsPut, NEW w \in Sessions,
           NewCall(w) \/ GroupStep(w) \/ RowStep(w) \/ Commit(w) \/ RollBack(w),
           NEW v \in Sessions \ {w}
    PROVE  Stamping(v)'
<1>0. Typed /\ GroupsLocked /\ InOrder(v) /\ IdsKnown(v) /\ Stamping(v)
      BY Parts DEF GroupsKnown, StampsPut
<1>1. /\ UNCHANGED <<op[v], pc[v], gid[v], want[v], draftGrp[v], draftRow[v], due[v], usr[v]>>
      /\ Held(v) \subseteq Held(v)'
      BY Others
<1>2. RowDrafts(v)' BY <1>0, <1>1 DEF Stamping, RowDrafts
<1>3. ASSUME op[v] \in GroupOps, gid[v] \in GroupIds, grpLock[gid[v]] = v
      PROVE  grp'[gid[v]] = grp[gid[v]]
      BY <1>0, <1>3, Tables, CommitsLocked
<1>4. GroupStamped(v)'
  <2> SUFFICES ASSUME op[v] \in GroupOps, gid[v] \in GroupIds PROVE GroupStamped(v)'
      BY <1>1 DEF GroupStamped
  <2>1. CASE grpLock[gid[v]] = v
    <3>1. Needs(v)' = Needs(v) BY <1>1, <1>3, <2>1 DEF Needs
    <3> QED BY <1>0, <1>1, <3>1 DEF Stamping, GroupStamped
  <2>2. CASE grpLock[gid[v]] # v
    <3>1. draftGrp[v][gid[v]] = Kept BY <1>0, <2>2 DEF GroupsLocked
    <3>2. pc[v] \notin {"name", "look", "put", "group"} BY <1>0, <2>2 DEF InOrder
    <3> QED BY <1>1, <3>1, <3>2 DEF GroupStamped
  <2> QED BY <2>1, <2>2
<1>5. RowStamped(v)'
  <2> SUFFICES ASSUME op[v] \in RowOps, ~moved'[v], grp'[gid[v]] # NoGroup PROVE RowStamped(v)'
      BY <1>1 DEF RowStamped
  <2>1. gid[v] \in known /\ gid[v] \in GroupIds BY <1>0 DEF IdsKnown, RowOps, Typed
  <2>2. pc[v] # "idle" BY <1>0 DEF InOrder, RowOps
  <2>3. grp[gid[v]] # NoGroup /\ ~moved[v] /\ grp'[gid[v]].owner = grp[gid[v]].owner
    <3>1. CASE Commit(w)
      <4>1. grp[gid[v]] # NoGroup BY <2>1, <3>1, CommitWrites
      <4>2. ~moved[v] /\ ~MovedBy(w, gid[v]) BY <2>2, <3>1 DEF Commit
      <4>3. grp'[gid[v]].owner = grp[gid[v]].owner
            BY <2>1, <3>1, <4>1, <4>2 DEF Commit, GroupSeen, MovedBy
      <4> QED BY <4>1, <4>2, <4>3
    <3>2. CASE ~Commit(w) BY <3>2, Tables
    <3> QED BY <3>1, <3>2
  <2> QED BY <1>0, <1>1, <2>3 DEF Stamping, RowStamped
<1> QED BY <1>2, <1>4, <1>5 DEF Stamping

\* What a call that writes a group does about its stamps.
LEMMA GroupStepStamping ==
    ASSUME IInv, GroupsKnown, StampsPut, NEW w \in Sessions, GroupStep(w)
    PROVE  Stamping(w)'
<1>0. Typed /\ GroupsLocked /\ StepsInOrder /\ InOrder(w) /\ IdsKnown(w)
      BY Parts DEF GroupsKnown
<1>a. GroupStamped(w) /\ RowStamped(w) /\ RowDrafts(w) BY DEF StampsPut, Stamping
<1>1. op[w] \in GroupOps /\ op' = op /\ want' = want /\ grp' = grp /\ draftRow' = draftRow
  <2>1. op[w] \in GroupOps
        BY <1>0 DEF GroupStep, Insert, LockGroup, CheckName, WriteGroup, DeleteGroup, InOrder, GroupOps
  <2> QED BY <2>1, GroupStepsLeave
<1>2. RowStamped(w)' BY <1>1 DEF RowStamped, RowOps, GroupOps
<1>3. CASE Insert(w)
  <2>1. gid[w] = 0 /\ op[w] = "devicegroup_upsert" BY <1>0, <1>3 DEF Insert, InOrder
  <2>2. \A g \in GroupIds : draftGrp[w][g] = Kept BY <1>0, <2>1, GroupIdsType DEF GroupsLocked
  <2>3. draftGrp' = draftGrp /\ pc'[w] = "name" BY <1>0, <1>3 DEF Insert, GoTo, drafts, Typed
  <2>4. GroupStamped(w)' BY <2>2, <2>3 DEF GroupStamped
  <2>5. \A r \in Rows : draftRow[w][r] = "kept" BY <1>a, <2>1 DEF RowDrafts, RowOps
  <2>6. RowDrafts(w)' BY <1>1, <2>5 DEF RowDrafts
  <2> QED BY <1>2, <2>4, <2>6 DEF Stamping
<1>4. CASE ~Insert(w)
  <2>1. gid' = gid /\ stampLock' = stampLock
        BY <1>4 DEF GroupStep, LockGroup, CheckName, WriteGroup, DeleteGroup, args, locks
  <2>2. Needs(w)' = Needs(w) /\ Held(w)' = Held(w) BY <1>1, <2>1 DEF Needs, Held
  <2>3. gid[w] \in GroupIds
    <3>1. pc[w] \in {"lock", "name", "group"}
          BY <1>4 DEF GroupStep, LockGroup, CheckName, WriteGroup, DeleteGroup
    <3> QED BY <1>0, <1>1, <3>1 DEF InOrder
  <2>4. CASE LockGroup(w)
    <3>1. draftGrp' = draftGrp /\ draftGrp[w][gid[w]] = Kept
          BY <1>a, <1>1, <2>3, <2>4 DEF LockGroup, drafts, GroupStamped
    <3>2. pc'[w] \in {"commit", "name"} \/
             (/\ pc'[w] = "look" /\ want[w] = NoGroup
              /\ due'[w] = {StampOf(GroupSeen(w, gid[w]).owner)})
          BY <1>0, <2>4 DEF LockGroup, GoTo, Typed
    <3>3. GroupSeen(w, gid[w]) = grp[gid[w]] BY <3>1 DEF GroupSeen
    <3>4. want[w] = NoGroup => Needs(w) = {StampOf(grp[gid[w]].owner)} BY DEF Needs
    <3>5. GroupStamped(w)' BY <1>1, <2>1, <2>2, <3>1, <3>2, <3>3, <3>4 DEF GroupStamped
    <3>6. RowDrafts(w)' BY <1>a, <1>1, <2>1, <3>1 DEF RowDrafts
    <3> QED BY <1>2, <3>5, <3>6 DEF Stamping
  <2>5. CASE CheckName(w)
    <3>1. draftGrp' = draftGrp /\ draftGrp[w][gid[w]] = Kept
          BY <1>a, <1>1, <2>3, <2>5 DEF CheckName, drafts, GroupStamped
    <3>2. pc'[w] = "look" /\ due'[w] = DueFor(w) BY <1>0, <2>5 DEF CheckName, GoTo, Typed
    <3>3. GroupSeen(w, gid[w]) = grp[gid[w]] BY <3>1 DEF GroupSeen
    <3>4. want[w] # NoGroup BY <1>0, <2>5 DEF CheckName, InOrder, GroupOps
    <3>5. DueFor(w) = Needs(w) BY <2>3, <3>3, <3>4 DEF DueFor, Needs, Exists
    <3>6. GroupStamped(w)' BY <1>1, <2>1, <2>2, <3>1, <3>2, <3>5 DEF GroupStamped
    <3>7. RowDrafts(w)' BY <1>a, <1>1, <2>1, <3>1 DEF RowDrafts
    <3> QED BY <1>2, <3>6, <3>7 DEF Stamping
  <2>6. CASE WriteGroup(w) \/ DeleteGroup(w)
    <3>1. pc[w] = "group" BY <2>6 DEF WriteGroup, DeleteGroup
    <3>2. Needs(w) \subseteq Held(w) /\ draftGrp[w][gid[w]] = Kept
          BY <1>a, <1>1, <2>3, <3>1 DEF GroupStamped
    <3>3. draftGrp'[w][gid[w]] = want[w]
          BY <1>0, <2>3, <2>6 DEF WriteGroup, DeleteGroup, InOrder, Typed
    <3>4. pc'[w] \in {"commit", "rows"} BY <1>0, <2>6 DEF WriteGroup, DeleteGroup, GoTo, Typed
    <3>5. GroupStamped(w)' BY <1>1, <2>1, <2>2, <3>2, <3>3, <3>4 DEF GroupStamped
    <3>6. \A r \in Rows : draftRow[w][r] = "kept"
          BY <1>a, <1>1, <3>2, MarkersAssumption DEF RowDrafts, RowOps, GroupOps
    <3>7. RowDrafts(w)' BY <1>1, <3>6 DEF RowDrafts
    <3> QED BY <1>2, <3>5, <3>7 DEF Stamping
  <2> QED BY <1>4, <2>4, <2>5, <2>6 DEF GroupStep
<1> QED BY <1>3, <1>4

\* A stamp that is put was due, and is held afterwards.
LEMMA Putting ==
    ASSUME IInv, NEW w \in Sessions, RowStep(w)
    PROVE  /\ Held(w) \subseteq Held(w)'
           /\ PutStamp(w) => due[w] \union Held(w) \subseteq due'[w] \union Held(w)'
<1>0. Typed BY Parts
<1>1. CASE PutStamp(w)
  <2>1. PICK k \in Stamps : /\ stampLock' = [stampLock EXCEPT ![k] = w]
                            /\ due' = [due EXCEPT ![w] = @ \ {k}]
        BY <1>1 DEF PutStamp
  <2>2. Held(w)' = Held(w) \union {k} BY <1>0, <2>1 DEF Held, Typed
  <2>3. due'[w] = due[w] \ {k} BY <1>0, <2>1 DEF Typed
  <2> QED BY <2>2, <2>3
<1>2. CASE ~PutStamp(w)
  <2>1. stampLock' = stampLock
        BY <1>2 DEF RowStep, LookForStamp, RowsDone, NextRow, LockRow, ReadUser, ReadLicence,
           InsertRow, DeleteRow, ForeignKey, locks
  <2> QED BY <1>2, <2>1 DEF Held
<1> QED BY <1>1, <1>2

\* What the rows of members and the stamps do to the group that a call writes.
LEMMA RowStepGroups ==
    ASSUME IInv, StampsPut, NEW w \in Sessions, RowStep(w)
    PROVE  GroupStamped(w)'
<1>0. Typed /\ InOrder(w) /\ StepsInOrder BY Parts
<1>a. GroupStamped(w) BY DEF StampsPut, Stamping
<1>1. UNCHANGED <<grp, op, gid, want, draftGrp>> BY RowStepsLeave
<1>2. Needs(w)' = Needs(w) BY <1>1 DEF Needs
<1> SUFFICES ASSUME op[w] \in GroupOps, gid[w] \in GroupIds PROVE GroupStamped(w)'
    BY <1>1 DEF GroupStamped
<1>3. CASE LookForStamp(w)
  <2>1. due' = due /\ pc[w] = "look" BY <1>3 DEF LookForStamp
  <2>2. pc'[w] = "put" \/ (pc'[w] = "group" /\ due[w] = {})
        BY <1>0, <1>3 DEF LookForStamp, GoTo, AfterStamps, Typed
  <2> QED BY <1>a, <1>1, <1>2, <2>1, <2>2, Putting DEF GroupStamped
<1>4. CASE PutStamp(w)
  <2>1. pc[w] = "put" /\ pc'[w] = "look" BY <1>0, <1>4 DEF PutStamp, GoTo, Typed
  <2> QED BY <1>a, <1>1, <1>2, <1>4, <2>1, Putting DEF GroupStamped
<1>5. CASE ~LookForStamp(w) /\ ~PutStamp(w)
  <2>1. pc[w] \in InRows
        BY <1>5 DEF RowStep, RowsDone, NextRow, LockRow, ReadUser, ReadLicence, InsertRow,
           DeleteRow, ForeignKey, InRows
  <2>2. draftGrp[w][gid[w]] = NoGroup BY <1>0, <2>1 DEF InOrder
  <2>3. ~Exists(w, gid[w]) BY <2>2, MarkersAssumption DEF Exists, GroupSeen
  <2>4. pc'[w] \notin {"lock", "name", "look", "put", "group"}
        BY <1>0, <2>1, <2>3, RowStepsGo DEF InRows
  <2>5. draftGrp[w][gid[w]] # Kept BY <2>2, MarkersAssumption
  <2> QED BY <1>a, <1>1, <1>2, <2>4, <2>5, Putting DEF GroupStamped
<1> QED BY <1>3, <1>4, <1>5

\* The members written are of the call's own group.
LEMMA RowStepDrafts ==
    ASSUME IInv, GroupsKnown, StampsPut, NEW w \in Sessions, RowStep(w)
    PROVE  RowDrafts(w)'
<1>0. Typed /\ InOrder(w) /\ IdsKnown(w) BY Parts DEF GroupsKnown
<1>a. RowDrafts(w) BY DEF StampsPut, Stamping
<1>1. UNCHANGED <<op, gid, draftGrp>> BY RowStepsLeave
<1>2. CASE InsertRow(w) \/ DeleteRow(w)
  <2>1. pc[w] = "member" BY <1>2 DEF InsertRow, DeleteRow
  <2>2. gid[w] \in GroupIds /\ (op[w] \in GroupOps => op[w] = "delete" /\ draftGrp[w][gid[w]] = NoGroup)
        BY <1>0, <2>1 DEF InOrder, InRows
  <2>3. op[w] \in RowOps \union GroupOps
        BY <1>0, <2>2, GroupIdsType DEF IdsKnown, Typed, Ops, GroupOps, RowOps
  <2>4. \A r \in Rows : draftRow'[w][r] # "kept" => draftRow[w][r] # "kept" \/ r = Row(w)
        BY <1>0, <1>2 DEF InsertRow, DeleteRow, Typed
  <2>5. Row(w)[1] = gid[w] BY DEF Row
  <2> QED BY <1>a, <1>1, <2>2, <2>3, <2>4, <2>5 DEF RowDrafts
<1>3. CASE ~InsertRow(w) /\ ~DeleteRow(w)
  <2>1. draftRow' = draftRow
        BY <1>3 DEF RowStep, LookForStamp, PutStamp, RowsDone, NextRow, LockRow, ReadUser,
           ReadLicence, ForeignKey, drafts
  <2> QED BY <1>a, <1>1, <2>1 DEF RowDrafts
<1> QED BY <1>2, <1>3

\* What a call that writes members does about the stamp of its group's owner.
LEMMA RowStepStamps ==
    ASSUME IInv, GroupsKnown, StampsPut, NEW w \in Sessions, RowStep(w)
    PROVE  RowStamped(w)'
<1>0. Typed /\ GroupsLocked /\ InOrder(w) /\ IdsKnown(w) BY Parts DEF GroupsKnown
<1>a. RowStamped(w) BY DEF StampsPut, Stamping
<1>1. UNCHANGED <<grp, op, gid>> BY RowStepsLeave
<1>2. moved' = moved
      BY DEF RowStep, LookForStamp, PutStamp, RowsDone, NextRow, LockRow, ReadUser, ReadLicence,
             InsertRow, DeleteRow, ForeignKey, history
<1> DEFINE o == grp[gid[w]].owner
           k == StampOf(grp[gid[w]].owner)
<1> SUFFICES ASSUME op[w] \in RowOps, ~moved[w], grp[gid[w]] # NoGroup
             PROVE  /\ (\E r \in Rows : draftRow'[w][r] # "kept") => k \in Held(w)'
                    /\ pc'[w] \in {"look", "put"} => k \in due'[w] \union Held(w)'
                    /\ pc'[w] = "lic" => usr'[w] = o.user /\ usr'[w] # PublicUser
                    /\ pc'[w] \in {"member", "fk"} => k \in Held(w)'
    BY <1>1, <1>2 DEF RowStamped
<1>3. /\ (\E r \in Rows : draftRow[w][r] # "kept") => k \in Held(w)
      /\ pc[w] \in {"look", "put"} => k \in due[w] \union Held(w)
      /\ pc[w] = "lic" => usr[w] = o.user /\ usr[w] # PublicUser
      /\ pc[w] \in {"member", "fk"} => k \in Held(w)
      BY <1>a DEF RowStamped
<1>4. gid[w] \in GroupIds /\ GroupSeen(w, gid[w]) = grp[gid[w]] /\ Exists(w, gid[w])
  <2>1. gid[w] \in GroupIds BY <1>0 DEF IdsKnown, RowOps, Typed
  <2>2. draftGrp[w][gid[w]] = Kept BY <1>0, <2>1 DEF GroupsLocked, GroupOps, RowOps
  <2> QED BY <2>1, <2>2 DEF GroupSeen, Exists
<1>5. o \in AnyOwner /\ k \in Stamps BY <1>0, <1>4, StampsType
<1>6. CASE InsertRow(w) \/ DeleteRow(w)
  <2>1. pc[w] = "member" BY <1>6 DEF InsertRow, DeleteRow
  <2>2. k \in Held(w)' BY <1>3, <2>1, Putting
  <2>3. pc'[w] \in {"fk", "rows"} BY <1>0, <1>6 DEF InsertRow, DeleteRow, GoTo, Typed
  <2> QED BY <2>2, <2>3
<1>7. CASE ~InsertRow(w) /\ ~DeleteRow(w)
  <2>1. draftRow' = draftRow
        BY <1>7 DEF RowStep, LookForStamp, PutStamp, RowsDone, NextRow, LockRow, ReadUser,
           ReadLicence, ForeignKey, drafts
  <2>2. (\E r \in Rows : draftRow'[w][r] # "kept") => k \in Held(w)' BY <1>3, <2>1, Putting
  <2>3. CASE LookForStamp(w)
    <3>1. due' = due /\ pc[w] = "look" BY <2>3 DEF LookForStamp
    <3>2. pc'[w] = "put" \/ (pc'[w] = "member" /\ due[w] = {})
          BY <1>0, <2>3 DEF LookForStamp, GoTo, AfterStamps, GroupOps, RowOps, Typed
    <3> QED BY <1>3, <2>2, <3>1, <3>2, Putting
  <2>4. CASE PutStamp(w)
    <3>1. pc[w] = "put" /\ pc'[w] = "look" BY <1>0, <2>4 DEF PutStamp, GoTo, Typed
    <3> QED BY <1>3, <2>2, <2>4, <3>1, Putting
  <2>5. CASE ReadUser(w)
    <3>1. /\ usr' = [usr EXCEPT ![w] = o.user]
          /\ due' = [due EXCEPT ![w] = IF o.user = PublicUser THEN {PublicStamp} ELSE {}]
          /\ pc' = [pc EXCEPT ![w] = IF o.user = PublicUser THEN "look" ELSE "lic"]
          BY <1>4, <2>5 DEF ReadUser, GoTo
    <3>2. CASE o.user = PublicUser
      <4>1. k = PublicStamp BY <3>2 DEF StampOf
      <4> QED BY <1>0, <2>2, <3>1, <3>2, <4>1 DEF Typed
    <3>3. CASE o.user # PublicUser
      <4>1. pc'[w] = "lic" /\ usr'[w] = o.user BY <1>0, <3>1, <3>3 DEF Typed
      <4> QED BY <2>2, <3>3, <4>1
    <3> QED BY <3>2, <3>3
  <2>6. CASE ReadLicence(w)
    <3>1. usr[w] = o.user /\ o.user # PublicUser BY <1>3, <2>6 DEF ReadLicence
    <3>2. k = o BY <3>1 DEF StampOf
    <3>3. o = [user |-> usr[w], lic |-> o.lic] BY <1>5, <3>1 DEF AnyOwner
    <3>4. due'[w] = {[user |-> usr[w], lic |-> o.lic]} /\ pc'[w] = "look"
          BY <1>0, <1>4, <2>6 DEF ReadLicence, GoTo, Typed
    <3> QED BY <2>2, <3>2, <3>3, <3>4
  <2>7. CASE RowsDone(w) \/ NextRow(w) \/ LockRow(w) \/ ForeignKey(w)
    <3>1. pc[w] \in {"rows", "row", "fk"} BY <2>7 DEF RowsDone, NextRow, LockRow, ForeignKey
    <3>2. pc'[w] \in {"commit", "row", "rows", "user"} BY <3>1, Parts, RowStepsGo
    <3> QED BY <2>2, <3>2
  <2> QED BY <1>7, <2>3, <2>4, <2>5, <2>6, <2>7 DEF RowStep
<1> QED BY <1>6, <1>7

LEMMA NextStamping ==
    ASSUME IInv, GroupsKnown, StampsPut, NEW w \in Sessions,
           NewCall(w) \/ GroupStep(w) \/ RowStep(w) \/ Commit(w) \/ RollBack(w)
    PROVE  StampsPut'
<1>0. Typed /\ GroupsLocked /\ StepsInOrder /\ ReferencedStay /\ AddedRefer /\ InOrder(w)
      /\ IdsKnown(w)
      BY Parts DEF GroupsKnown
<1>1. CASE NewCall(w)
  <2>1. /\ \A g \in GroupIds : draftGrp'[w][g] = Kept
        /\ draftRow' = draftRow
        BY <1>0, <1>1, CallsLeave
  <2>2. pc'[w] \in {"insert", "lock", "rows", "commit"}
        BY <1>0, <1>1, NewCalls DEF Call, GoTo, Typed
  <2>3. op[w] = "none" /\ gid[w] = 0
    <3>1. pc[w] = "idle"
          BY <1>1 DEF NewCall, Upsert, Update, Delete, AddMembers, DeleteMembers, Call
    <3> QED BY <1>0, <3>1 DEF InOrder, IdsKnown
  <2>4. \A r \in Rows : draftRow[w][r] = "kept"
        BY <2>3 DEF StampsPut, Stamping, RowDrafts, RowOps
  <2>5. GroupStamped(w)' BY <2>1, <2>2 DEF GroupStamped
  <2>6. RowStamped(w)' BY <2>1, <2>2, <2>4 DEF RowStamped
  <2>7. RowDrafts(w)' BY <2>1, <2>4 DEF RowDrafts
  <2> QED BY <2>5, <2>6, <2>7, OthersStamping DEF StampsPut, Stamping
<1>2. CASE Commit(w) \/ RollBack(w)
  <2>1. op'[w] = "none" /\ \A r \in Rows : draftRow'[w][r] = "kept"
        BY <1>0, <1>2, ReleaseOthers DEF Commit, RollBack
  <2>2. Stamping(w)'
        BY <2>1 DEF Stamping, GroupStamped, RowStamped, RowDrafts, GroupOps, RowOps
  <2> QED BY <2>2, OthersStamping DEF StampsPut
<1>3. CASE GroupStep(w) BY <1>3, GroupStepStamping, OthersStamping DEF StampsPut
<1>4. CASE RowStep(w)
      BY <1>4, RowStepGroups, RowStepDrafts, RowStepStamps, OthersStamping DEF StampsPut, Stamping
<1> QED BY <1>1, <1>2, <1>3, <1>4

-----------------------------------------------------------------------------
(* What clients see changes with their stamp *)

\* The devices of a group.
MembersOf(g) == {d \in Devices : <<g, d>> \in member}

Shown(g, k) == grp[g] # NoGroup /\ StampOf(grp[g].owner) = k

\* What a stamp's clients see is the same if each of its groups is.
LEMMA SameVisible ==
    ASSUME NEW k \in Stamps,
           \A g \in GroupIds : Shown(g, k)' <=> Shown(g, k),
           \A g \in GroupIds : Shown(g, k) =>
              grp'[g].name = grp[g].name /\ MembersOf(g)' = MembersOf(g)
    PROVE  Visible(k)' = Visible(k)
<1> DEFINE shown == {g \in GroupIds : Shown(g, k)}
<1>1. shown' = shown OBVIOUS
<1>2. Visible(k) = {<<g, grp[g].name, MembersOf(g)>> : g \in shown}
      BY DEF Visible, Shown, MembersOf
<1>3. Visible(k)' = {<<g, grp'[g].name, MembersOf(g)'>> : g \in shown'}
      BY DEF Visible, Shown, MembersOf
<1>4. \A g \in shown : grp'[g].name = grp[g].name /\ MembersOf(g)' = MembersOf(g) OBVIOUS
<1> HIDE DEF shown
<1> QED BY <1>1, <1>2, <1>3, <1>4

\* A commit leaves the rows of a group that its drafts do not speak of.
LEMMA OtherMembers ==
    ASSUME IInv, NEW w \in Sessions, Commit(w), NEW g \in GroupIds,
           \A r \in Rows : r[1] = g => draftRow[w][r] = "kept"
    PROVE  MembersOf(g)' = MembersOf(g)
<1>1. member' = {r \in Rows : RowSeen(w, r)} BY DEF Commit
<1>2. ASSUME NEW d \in Devices PROVE <<g, d>> \in member' <=> <<g, d>> \in member
  <2>1. <<g, d>> \in Rows /\ draftRow[w][<<g, d>>] = "kept" BY DEF Rows
  <2> QED BY <1>1, <2>1 DEF RowSeen
<1> QED BY <1>2 DEF MembersOf

\* A commit that does not hold a stamp changes nothing that its clients see.
LEMMA UnheldUnseen ==
    ASSUME IInv, GroupsKnown, StampsPut, NEW w \in Sessions, Commit(w),
           op[w] \in GroupOps \/ ~moved[w],
           NEW k \in Stamps, k \notin Held(w), ~GivenAway(k)
    PROVE  Visible(k)' = Visible(k)
<1>0. Typed /\ GroupsLocked /\ InOrder(w) /\ IdsKnown(w) /\ GroupStamped(w) /\ RowStamped(w)
      /\ RowDrafts(w)
      BY Parts DEF GroupsKnown, StampsPut, Stamping
<1>1. ASSUME NEW g \in GroupIds
      PROVE  /\ Shown(g, k)' <=> Shown(g, k)
             /\ Shown(g, k) => grp'[g].name = grp[g].name /\ MembersOf(g)' = MembersOf(g)
  <2>1. CASE draftGrp[w][g] = Kept /\ \A r \in Rows : r[1] = g => draftRow[w][r] = "kept"
    <3>1. grp'[g] = grp[g] BY <2>1, CommitWrites
    <3>2. MembersOf(g)' = MembersOf(g) BY <2>1, OtherMembers
    <3> QED BY <3>1, <3>2 DEF Shown
  <2>2. CASE draftGrp[w][g] = Kept /\ \E r \in Rows : r[1] = g /\ draftRow[w][r] # "kept"
    <3>1. g = gid[w] BY <1>0, <2>2 DEF RowDrafts
    <3>2. op[w] \in RowOps BY <1>0, <2>2, <3>1, MarkersAssumption DEF RowDrafts
    <3>3. grp'[g] = grp[g] BY <2>2, CommitWrites
    <3>4. grp[g] # NoGroup => StampOf(grp[g].owner) \in Held(w)
          BY <1>0, <2>2, <3>1, <3>2 DEF RowStamped, RowOps, GroupOps
    <3> QED BY <3>3, <3>4 DEF Shown
  <2>3. CASE draftGrp[w][g] # Kept
    <3>1. /\ g = gid[w] /\ op[w] \in GroupOps /\ grp'[g] = want[w] /\ k \notin Needs(w)
          /\ op[w] # "devicegroup_upsert" => grp[g] # NoGroup
          /\ op[w] = "delete" <=> want[w] = NoGroup
          BY <2>3, CommitWrites
    <3>2. CASE want[w] = NoGroup
      <4>1. Needs(w) = {StampOf(grp[g].owner)} BY <3>1, <3>2 DEF Needs
      <4> QED BY <3>1, <3>2, <4>1 DEF Shown
    <3>3. CASE want[w] # NoGroup
      <4>1. want[w].owner \in AnyOwner BY <1>0, <3>3 DEF Typed, GroupRow
      <4>2. grp[g] # NoGroup => grp[g].owner \in AnyOwner BY <1>0 DEF Typed, GroupRow
      <4>3. StampOf(want[w].owner) \in Needs(w)
            BY <3>1, <3>3 DEF Needs, StampOf
      <4>4. ~Shown(g, k)' BY <3>1, <4>3 DEF Shown
      <4>5. ASSUME Shown(g, k) PROVE FALSE
        <5>1. grp[g] # NoGroup /\ StampOf(grp[g].owner) = k BY <4>5 DEF Shown
        <5>2. StampOf(want[w].owner) # k BY <3>1, <4>3
        <5>3. StampOf(want[w].owner) = PublicStamp \/ k = PublicStamp
              BY <3>1, <3>3, <5>1, <5>2 DEF GivenAway
        <5>4. CASE OwnerChanges(grp[g].owner, want[w].owner)
          <6>1. Needs(w) = {PublicStamp, IF want[w].owner.user = PublicUser
                                         THEN grp[g].owner ELSE want[w].owner}
                BY <3>1, <3>3, <5>1, <5>4 DEF Needs
          <6>2. k # PublicStamp BY <3>1, <6>1
          <6>3. k = grp[g].owner BY <5>1, <6>2 DEF StampOf
          <6>4. want[w].owner.user = PublicUser
                BY <4>1, <5>3, <6>2, MarkersAssumption DEF StampOf
          <6> QED BY <3>1, <6>1, <6>3, <6>4
        <5>5. CASE ~OwnerChanges(grp[g].owner, want[w].owner)
          <6>1. grp[g].owner.user = want[w].owner.user BY <5>5 DEF OwnerChanges
          <6>2. grp[g].owner.user = PublicUser
                BY <4>1, <4>2, <5>1, <5>3, <6>1, MarkersAssumption DEF StampOf
          <6> QED BY <5>1, <5>2, <6>1, <6>2 DEF StampOf
        <5> QED BY <5>4, <5>5
      <4> QED BY <4>4, <4>5
    <3> QED BY <3>2, <3>3
  <2> QED BY <2>1, <2>2, <2>3
<1>2. \A g \in GroupIds : Shown(g, k)' <=> Shown(g, k) BY <1>1
<1>3. \A g \in GroupIds : Shown(g, k) =>
         grp'[g].name = grp[g].name /\ MembersOf(g)' = MembersOf(g)
      BY <1>1
<1> QED BY <1>2, <1>3, SameVisible

LEMMA NextTold ==
    ASSUME IInv, GroupsKnown, StampsPut, Next
    PROVE  \A k \in Stamps : Visible(k)' # Visible(k) =>
              \/ stamp'[k] # stamp[k]
              \/ GivenAway(k)
              \/ \E w \in Sessions : pc[w] = "commit" /\ pc'[w] = "idle" /\ op[w] \notin GroupOps /\ moved[w]
<1>0. Typed BY Parts
<1> SUFFICES ASSUME NEW k \in Stamps, Visible(k)' # Visible(k)
             PROVE  \/ stamp'[k] # stamp[k]
                    \/ GivenAway(k)
                    \/ \E w \in Sessions : pc[w] = "commit" /\ pc'[w] = "idle" /\ op[w] \notin GroupOps /\ moved[w]
    OBVIOUS
<1>1. ASSUME UNCHANGED <<grp, member>> PROVE FALSE BY <1>1 DEF Visible
<1>2. CASE UNCHANGED vars BY <1>1, <1>2 DEF vars, tables
<1>3. ASSUME NEW w \in Sessions, NewCall(w) \/ GroupStep(w) \/ RowStep(w) \/ RollBack(w)
      PROVE  FALSE
      BY <1>1, <1>3, Tables
<1>4. ASSUME NEW w \in Sessions, Commit(w)
      PROVE  \/ stamp'[k] # stamp[k] \/ GivenAway(k)
             \/ pc[w] = "commit" /\ pc'[w] = "idle" /\ op[w] \notin GroupOps /\ moved[w]
  <2>1. pc[w] = "commit" /\ pc'[w] = "idle" BY <1>0, <1>4, ReleaseOthers DEF Commit
  <2>2. k \in Held(w) => stamp'[k] # stamp[k]
    <3>1. stamp[k] \in Nat BY <1>0 DEF Typed
    <3> QED BY <1>4, <3>1 DEF Commit, Held
  <2> QED BY <1>4, <2>1, <2>2, UnheldUnseen
<1> QED BY <1>2, <1>3, <1>4, Actions

\* Whatever shows to the clients of a stamp comes with that stamp, for any sessions,
\* groups, devices and owners, but for groups given from one private owner to
\* another, and members changed while their group was given away.
THEOREM ClientsAreTold == Spec => Told
<1>1. Init => GroupsKnown /\ StampsPut
  <2> SUFFICES ASSUME Init PROVE GroupsKnown /\ StampsPut OBVIOUS
  <2>1. GroupsKnown BY DEF Init, GroupsKnown, IdsKnown
  <2>2. StampsPut
        BY DEF Init, StampsPut, Stamping, GroupStamped, RowStamped, RowDrafts, GroupOps, RowOps
  <2> QED BY <2>1, <2>2
<1>2. IInv /\ GroupsKnown /\ StampsPut /\ [Next]_vars => GroupsKnown' /\ StampsPut'
  <2> SUFFICES ASSUME IInv, GroupsKnown, StampsPut, [Next]_vars PROVE GroupsKnown' /\ StampsPut'
      OBVIOUS
  <2>1. CASE UNCHANGED vars
    <3>1. UNCHANGED <<grp, known, nextid, moved, op, pc, gid, want, usr, due, draftGrp, draftRow,
                      grpLock, stampLock>>
          BY <2>1 DEF vars, tables, history, args, trigger, drafts, locks
    <3>2. GroupsKnown' BY <3>1 DEF GroupsKnown, IdsKnown
    <3>3. StampsPut'
          BY <3>1 DEF StampsPut, Stamping, GroupStamped, RowStamped, RowDrafts, Needs, Held
    <3> QED BY <3>2, <3>3
  <2> QED BY <2>1, NextKnown, NextStamping, Actions
<1>3. IInv /\ GroupsKnown /\ StampsPut /\ [Next]_vars =>
        [\A k \in Stamps : Visible(k)' # Visible(k) =>
            \/ stamp'[k] # stamp[k]
            \/ GivenAway(k)
            \/ \E w \in Sessions : pc[w] = "commit" /\ pc'[w] = "idle" /\ op[w] \notin GroupOps /\ moved[w]]_vars
      BY NextTold
<1> QED BY <1>1, <1>2, <1>3, Invariance, PTL DEF Spec, Told

=============================================================================
