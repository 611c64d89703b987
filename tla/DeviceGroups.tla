---------------------------- MODULE DeviceGroups ----------------------------
(***************************************************************************)
(* Device groups of the workspace database (nbwsp.sql): the groups         *)
(* (devicegroup), the devices in them (devicegroupdevice), and the version *)
(* stamps by which clients learn of changes: one row of objtimestamp for   *)
(* the public groups of everybody, and one row of objprivatetimestamp for  *)
(* each private owner, inserted when the owner's first change is stamped.  *)
(*                                                                         *)
(* Every call is one transaction under READ COMMITTED.  An action runs one *)
(* SQL statement of it, or of the triggers it fires, up to the next point  *)
(* where it may wait.  What a call has written lies in the draft of its    *)
(* session until it commits; a stamp it has written is a stamp it locks.   *)
(*                                                                         *)
(* Link groups have the same tables, functions and triggers, except that   *)
(* their trigger compares only the users of the two owners.  Of the two    *)
(* types of members, static and dynamic, only one is here.                 *)
(***************************************************************************)
EXTENDS Integers, FiniteSets

CONSTANTS
    Sessions,         \* database sessions, each running one call at a time
    Devices,          \* rows of devices
    Names,            \* names of groups
    Lower,            \* a function on Names: lower()
    Users,            \* user ids
    PublicUser,       \* user id -1
    Licences,         \* licguid
    Owners,           \* the owners that calls name
    ComparesLicence,  \* TRUE for device groups, FALSE for link groups
    PublicStamp,      \* the row 'PublicDeviceGroup' of objtimestamp
    NoGroup,          \* "no such group"
    Kept,             \* in a draft: not written by the transaction
    NoSession,        \* holder of a free lock
    NoDevice,         \* no row visited yet
    MaxGroup,         \* bound: ids the sequence of devicegroup hands out
    MaxCalls          \* bound: calls made

GroupIds == 1 .. MaxGroup
AnyOwner == [user : Users \union {PublicUser}, lic : Licences]
GroupRow == [name : Names, owner : AnyOwner]
Rows == GroupIds \X Devices
Stamps == {PublicStamp} \union AnyOwner

ASSUME NamesAssumption ==
    /\ Lower = [n \in Names |-> Lower[n]]
    /\ PublicUser \notin Users
    /\ Owners \subseteq AnyOwner
    /\ ComparesLicence \in BOOLEAN
    /\ MaxGroup \in Nat
    /\ MaxCalls \in Nat

ASSUME MarkersAssumption ==
    /\ PublicStamp \notin AnyOwner
    /\ NoGroup \notin GroupRow
    /\ Kept \notin GroupRow \union {NoGroup}
    /\ NoSession \notin Sessions
    /\ NoDevice \notin Devices

Ops == {"none", "devicegroup_upsert", "update", "delete",
        "devicegroupdevice_upsert_static", "devicegroupdevice_delete_static"}

Statements == {"idle", "insert", "lock", "name", "look", "put", "group",
               "rows", "row", "user", "lic", "member", "fk", "commit"}

VARIABLES
    \* the committed database
    grp,        \* [GroupIds -> GroupRow \union {NoGroup}]: devicegroup
    member,     \* SUBSET Rows: devicegroupdevice
    stamp,      \* [Stamps -> Nat]: commits that stamped it; 0: no row, except Public
    nextid,     \* the sequence of devicegroup
    \* calls
    calls,      \* number of calls made
    known,      \* history: ids of groups that have been committed
    raced,      \* history: pairs of groups, one committed after the other's name check
    since,      \* history: [Sessions -> SUBSET GroupIds], committed since the check
    moved,      \* history: [Sessions -> BOOLEAN], the group got another owner meanwhile
    op,         \* the call a session runs
    pc,         \* the statement it has come to
    gid,        \* id of the group
    want,       \* the row of devicegroup it is to write; NoGroup: to delete it
    todo,       \* devices whose rows the call has still to visit
    dev,        \* the device it has come to
    usr,        \* the user that the trigger has read
    due,        \* stamps the trigger has still to put
    found,      \* whether the row to stamp is there: "tid is null"
    draftGrp,   \* [Sessions -> [GroupIds -> GroupRow \union {NoGroup, Kept}]]
    draftRow,   \* [Sessions -> [Rows -> {"kept", "in", "out"}]]
    \* locks
    grpLock,    \* [GroupIds -> Sessions \union {NoSession}], by UPDATE and DELETE
    shared,     \* [GroupIds -> SUBSET Sessions], by the foreign key of a member
    rowLock,    \* [Rows -> Sessions \union {NoSession}]
    stampLock   \* [Stamps -> Sessions \union {NoSession}]

tables  == <<grp, member, stamp, known, raced>>
args    == <<op, gid, want>>
visit   == <<todo, dev>>
trigger == <<usr, due, found>>
drafts  == <<draftGrp, draftRow>>
locks   == <<grpLock, shared, rowLock, stampLock>>
history == <<since, moved>>
vars    == <<tables, nextid, calls, history, args, pc, visit, trigger, drafts, locks>>

TypeOK ==
    /\ grp \in [GroupIds -> GroupRow \union {NoGroup}]
    /\ member \in SUBSET Rows
    /\ stamp \in [Stamps -> Nat]
    /\ nextid \in Nat \ {0}
    /\ calls \in Nat
    /\ known \in SUBSET GroupIds
    /\ raced \in SUBSET SUBSET GroupIds
    /\ since \in [Sessions -> SUBSET GroupIds]
    /\ moved \in [Sessions -> BOOLEAN]
    /\ op \in [Sessions -> Ops]
    /\ pc \in [Sessions -> Statements]
    /\ gid \in [Sessions -> GroupIds \union {0}]
    /\ want \in [Sessions -> GroupRow \union {NoGroup}]
    /\ todo \in [Sessions -> SUBSET Devices]
    /\ dev \in [Sessions -> Devices \union {NoDevice}]
    /\ usr \in [Sessions -> Users \union {PublicUser}]
    /\ due \in [Sessions -> SUBSET Stamps]
    /\ found \in [Sessions -> BOOLEAN]
    /\ draftGrp \in [Sessions -> [GroupIds -> GroupRow \union {NoGroup, Kept}]]
    /\ draftRow \in [Sessions -> [Rows -> {"kept", "in", "out"}]]
    /\ grpLock \in [GroupIds -> Sessions \union {NoSession}]
    /\ shared \in [GroupIds -> SUBSET Sessions]
    /\ rowLock \in [Rows -> Sessions \union {NoSession}]
    /\ stampLock \in [Stamps -> Sessions \union {NoSession}]

\* No groups; the row of objprivatetimestamp of a private owner comes later.
Init ==
    /\ grp = [g \in GroupIds |-> NoGroup]
    /\ member = {}
    /\ stamp = [k \in Stamps |-> 0]
    /\ nextid = 1
    /\ calls = 0
    /\ known = {}
    /\ raced = {}
    /\ since = [w \in Sessions |-> {}]
    /\ moved = [w \in Sessions |-> FALSE]
    /\ op = [w \in Sessions |-> "none"]
    /\ pc = [w \in Sessions |-> "idle"]
    /\ gid = [w \in Sessions |-> 0]
    /\ want = [w \in Sessions |-> NoGroup]
    /\ todo = [w \in Sessions |-> {}]
    /\ dev = [w \in Sessions |-> NoDevice]
    /\ usr = [w \in Sessions |-> PublicUser]
    /\ due = [w \in Sessions |-> {}]
    /\ found = [w \in Sessions |-> FALSE]
    /\ draftGrp = [w \in Sessions |-> [g \in GroupIds |-> Kept]]
    /\ draftRow = [w \in Sessions |-> [r \in Rows |-> "kept"]]
    /\ grpLock = [g \in GroupIds |-> NoSession]
    /\ shared = [g \in GroupIds |-> {}]
    /\ rowLock = [r \in Rows |-> NoSession]
    /\ stampLock = [k \in Stamps |-> NoSession]

-----------------------------------------------------------------------------
(* What a session sees and may lock *)

GroupSeen(w, g) == IF draftGrp[w][g] = Kept THEN grp[g] ELSE draftGrp[w][g]
RowSeen(w, r) == IF draftRow[w][r] = "kept" THEN r \in member ELSE draftRow[w][r] = "in"

Exists(w, g) == g \in GroupIds /\ GroupSeen(w, g) # NoGroup

GroupFree(w, g) == grpLock[g] \in {NoSession, w} /\ shared[g] \subseteq {w}
RowFree(w, r) == rowLock[r] \in {NoSession, w}
StampFree(w, k) == stampLock[k] \in {NoSession, w}

\* The row of devicegroupdevice that the call has come to.
Row(w) == <<gid[w], dev[w]>>

\* The stamp of the groups of an owner.
StampOf(o) == IF o.user = PublicUser THEN PublicStamp ELSE o

GoTo(w, statement) == pc' = [pc EXCEPT ![w] = statement]

Call(w, f, g, row, ds, statement) ==
    /\ pc[w] = "idle"
    /\ calls < MaxCalls
    /\ calls' = calls + 1
    /\ op' = [op EXCEPT ![w] = f]
    /\ gid' = [gid EXCEPT ![w] = g]
    /\ want' = [want EXCEPT ![w] = row]
    /\ todo' = [todo EXCEPT ![w] = ds]
    /\ GoTo(w, statement)
    /\ UNCHANGED <<tables, nextid, history, dev, trigger, drafts, locks>>

\* The transaction ends: w has no draft and no lock any more.
Release(w) ==
    /\ GoTo(w, "idle")
    /\ op' = [op EXCEPT ![w] = "none"]
    /\ gid' = [gid EXCEPT ![w] = 0]
    /\ want' = [want EXCEPT ![w] = NoGroup]
    /\ todo' = [todo EXCEPT ![w] = {}]
    /\ dev' = [dev EXCEPT ![w] = NoDevice]
    /\ usr' = [usr EXCEPT ![w] = PublicUser]
    /\ due' = [due EXCEPT ![w] = {}]
    /\ found' = [found EXCEPT ![w] = FALSE]
    /\ draftGrp' = [draftGrp EXCEPT ![w] = [g \in GroupIds |-> Kept]]
    /\ draftRow' = [draftRow EXCEPT ![w] = [r \in Rows |-> "kept"]]
    /\ grpLock' = [g \in GroupIds |-> IF grpLock[g] = w THEN NoSession ELSE grpLock[g]]
    /\ shared' = [g \in GroupIds |-> shared[g] \ {w}]
    /\ rowLock' = [r \in Rows |-> IF rowLock[r] = w THEN NoSession ELSE rowLock[r]]
    /\ stampLock' = [k \in Stamps |-> IF stampLock[k] = w THEN NoSession ELSE stampLock[k]]
    /\ UNCHANGED <<nextid, calls>>

\* An error: raised to the client, or turned into -2 by EXCEPTION WHEN OTHERS
\* after everything the call did has been undone.
RollBack(w) ==
    /\ Release(w)
    /\ since' = [since EXCEPT ![w] = {}]
    /\ moved' = [moved EXCEPT ![w] = FALSE]
    /\ UNCHANGED tables

\* The commit of w gives group g another owner.
MovedBy(w, g) ==
    /\ g \in GroupIds
    /\ draftGrp[w][g] \notin {Kept, NoGroup}
    /\ grp[g] # NoGroup
    /\ draftGrp[w][g].owner # grp[g].owner

Commit(w) ==
    LET written == {g \in GroupIds : draftGrp[w][g] \notin {Kept, NoGroup}} IN
    /\ pc[w] = "commit"
    /\ grp' = [g \in GroupIds |-> GroupSeen(w, g)]
    /\ member' = {r \in Rows : RowSeen(w, r)}
    /\ stamp' = [k \in Stamps |-> IF stampLock[k] = w THEN stamp[k] + 1 ELSE stamp[k]]
    /\ known' = known \union written
    /\ raced' = raced \union {{g, h} : g \in written, h \in since[w]}
    /\ since' = [v \in Sessions |-> IF v = w \/ pc[v] = "idle" THEN {} ELSE since[v] \union written]
    /\ moved' = [v \in Sessions |-> v # w /\ pc[v] # "idle" /\ (moved[v] \/ MovedBy(w, gid[v]))]
    /\ Release(w)

-----------------------------------------------------------------------------
(* devicegroup_upsert(vm), and the updates and deletions of applications *)

\* "select id into vm_id from devicegroup where strname=vm.strname": of any owner.
NameInUse(n) == n \in {grp[g].name : g \in {h \in GroupIds : grp[h] # NoGroup}}

\* If the name is there control reaches the end of the function, which is an
\* error; otherwise the insert takes the next id, of a row that is nobody else's
\* until the call commits.
Upsert(w, n, o) ==
    IF NameInUse(n)
    THEN Call(w, "devicegroup_upsert", 0, NoGroup, {}, "commit")
    ELSE Call(w, "devicegroup_upsert", 0, [name |-> n, owner |-> o], {}, "insert")

Insert(w) ==
    /\ pc[w] = "insert"
    /\ nextid <= MaxGroup
    /\ nextid' = nextid + 1
    /\ gid' = [gid EXCEPT ![w] = nextid]
    /\ grpLock' = [grpLock EXCEPT ![nextid] = w]
    /\ GoTo(w, "name")
    /\ UNCHANGED <<tables, calls, history, op, want, visit, trigger, drafts, shared, rowLock, stampLock>>

Update(w, g, n, o) == Call(w, "update", g, [name |-> n, owner |-> o], {}, "lock")
Delete(w, g) == Call(w, "delete", g, NoGroup, {}, "lock")

\* "update" and "delete" take the row before their trigger fires.  Nothing
\* happens if it is gone by then; the trigger of an update returns OLD if no
\* column changes, and name and owner are two columns of several.
LockGroup(w) ==
    LET g == gid[w] IN
    /\ pc[w] = "lock"
    /\ GroupFree(w, g)
    /\ \/ ~Exists(w, g) /\ GoTo(w, "commit") /\ UNCHANGED <<grpLock, due>>
       \/ /\ Exists(w, g)
          /\ grpLock' = [grpLock EXCEPT ![g] = w]
          /\ \/ /\ want[w] = NoGroup
                /\ due' = [due EXCEPT ![w] = {StampOf(GroupSeen(w, g).owner)}]
                /\ GoTo(w, "look")
             \/ want[w] # NoGroup /\ GoTo(w, "name") /\ UNCHANGED due
             \/ want[w] = GroupSeen(w, g) /\ GoTo(w, "commit") /\ UNCHANGED due
    /\ UNCHANGED <<tables, nextid, calls, history, args, visit, usr, found, drafts,
                   shared, rowLock, stampLock>>

\* MUTANT of NameTaken: nothing but the unique index looks at the name.
NameNeverTaken(w) == FALSE

\* DeviceGroupNameExists, called by the trigger of devicegroup.  The licence of an
\* owner is a value here: that of public groups is '-1'.  The column admits NULL,
\* which the comparison in the code never finds equal; such rows are left out.
NameTaken(w) ==
    \E g \in GroupIds \ {gid[w]} :
        /\ Exists(w, g)
        /\ Lower[GroupSeen(w, g).name] = Lower[want[w].name]
        /\ GroupSeen(w, g).owner = want[w].owner

\* "not (NEW.userid=OLD.userid and NEW.licguid=OLD.licguid)"
OwnerChanges(old, new) == old.user # new.user \/ (ComparesLicence /\ old.lic # new.lic)

\* MUTANT of DueFor: an update stamps for the new owner only.
DueForNew(w) == {StampOf(want[w].owner)}

\* The stamps an insert or an update puts: of two private owners only the new one's.
DueFor(w) ==
    LET new == want[w].owner
        old == GroupSeen(w, gid[w]).owner
    IN  IF Exists(w, gid[w]) /\ OwnerChanges(old, new)
        THEN {PublicStamp, IF new.user = PublicUser THEN old ELSE new}
        ELSE {StampOf(new)}

CheckName(w) ==
    /\ pc[w] = "name"
    /\ ~NameTaken(w)
    /\ due' = [due EXCEPT ![w] = DueFor(w)]
    /\ since' = [since EXCEPT ![w] = {}]
    /\ GoTo(w, "look")
    /\ UNCHANGED <<tables, nextid, calls, moved, args, visit, usr, found, drafts, locks>>

\* RAISE EXCEPTION 'name exists'
NameExists(w) ==
    /\ pc[w] = "name"
    /\ NameTaken(w)
    /\ RollBack(w)

-----------------------------------------------------------------------------
(* The stamps, which the triggers put before the row itself is written *)

GroupOps == {"devicegroup_upsert", "update", "delete"}

NextDue(w, k) == k \in due[w] /\ (k = PublicStamp \/ PublicStamp \notin due[w])

\* What the trigger was fired for.
AfterStamps(w) == IF op[w] \in GroupOps THEN "group" ELSE "member"

\* "select id into tid from objprivatetimestamp"; the public row is always there.
LookForStamp(w) ==
    /\ pc[w] = "look"
    /\ \/ /\ due[w] = {}
          /\ GoTo(w, AfterStamps(w))
          /\ UNCHANGED found
       \/ \E k \in Stamps :
            /\ NextDue(w, k)
            /\ found' = [found EXCEPT ![w] = k = PublicStamp \/ stamp[k] > 0 \/ stampLock[k] = w]
            /\ GoTo(w, "put")
    /\ UNCHANGED <<tables, nextid, calls, history, args, visit, usr, due, drafts, locks>>

\* The row is updated, or inserted if no other session has inserted it by now.
CanPut(w, k) == StampFree(w, k) /\ (found[w] \/ stamp[k] = 0)

PutStamp(w) ==
    /\ pc[w] = "put"
    /\ \E k \in Stamps :
         /\ NextDue(w, k)
         /\ CanPut(w, k)
         /\ stampLock' = [stampLock EXCEPT ![k] = w]
         /\ due' = [due EXCEPT ![w] = @ \ {k}]
    /\ GoTo(w, "look")
    /\ UNCHANGED <<tables, nextid, calls, history, args, visit, usr, found, drafts,
                   grpLock, shared, rowLock>>

\* MUTANT of StampIsThere: the insert is tried again, for ever.
InsertAgain(w) == pc[w] = "put" /\ UNCHANGED vars

\* objprivatetimestamp_un is violated.
StampIsThere(w) ==
    /\ pc[w] = "put"
    /\ \E k \in Stamps : NextDue(w, k) /\ StampFree(w, k) /\ ~found[w] /\ stamp[k] > 0
    /\ RollBack(w)

-----------------------------------------------------------------------------
(* The row of devicegroup *)

\* devicegroup_index_name_userid: a name once for each user, whatever the licence.
SameEntry(row, row2) == row.name = row2.name /\ row.owner.user = row2.owner.user

\* Another session has written, or taken away, an entry of the index like this one.
EntryBusy(w) ==
    \E v \in Sessions \ {w}, g \in GroupIds :
        /\ draftGrp[v][g] # Kept
        /\ \E row \in {grp[g], draftGrp[v][g]} \ {NoGroup} : SameEntry(row, want[w])

EntryTaken(w) ==
    \E g \in GroupIds \ {gid[w]} : grp[g] # NoGroup /\ SameEntry(grp[g], want[w])

WriteGroup(w) ==
    /\ pc[w] = "group"
    /\ op[w] \in GroupOps \ {"delete"}
    /\ ~EntryBusy(w)
    /\ ~EntryTaken(w)
    /\ draftGrp' = [draftGrp EXCEPT ![w][gid[w]] = want[w]]
    /\ GoTo(w, "commit")
    /\ UNCHANGED <<tables, nextid, calls, history, args, visit, trigger, draftRow, locks>>

NotUnique(w) ==
    /\ pc[w] = "group"
    /\ op[w] \in GroupOps \ {"delete"}
    /\ ~EntryBusy(w)
    /\ EntryTaken(w)
    /\ RollBack(w)

\* MUTANT of Members: the foreign key of devicegroupdevice does not cascade.
NothingCascaded(w) == {}

\* The rows that "delete from devicegroupdevice where devicegroupid" sees.
Members(w) == {d \in Devices : RowSeen(w, <<gid[w], d>>)}

\* The row goes, and ON DELETE CASCADE starts to visit its members.
DeleteGroup(w) ==
    /\ pc[w] = "group"
    /\ op[w] = "delete"
    /\ draftGrp' = [draftGrp EXCEPT ![w][gid[w]] = NoGroup]
    /\ todo' = [todo EXCEPT ![w] = Members(w)]
    /\ GoTo(w, "rows")
    /\ UNCHANGED <<tables, nextid, calls, history, args, dev, trigger, draftRow, locks>>

-----------------------------------------------------------------------------
(* The rows of devicegroupdevice *)

AddMembers(w, g, ds) == Call(w, "devicegroupdevice_upsert_static", g, NoGroup, ds, "rows")

DeleteMembers(w, g) ==
    Call(w, "devicegroupdevice_delete_static", g, NoGroup, {d \in Devices : <<g, d>> \in member}, "rows")

Adds(w) == op[w] = "devicegroupdevice_upsert_static"

RowsDone(w) ==
    /\ pc[w] = "rows"
    /\ todo[w] = {}
    /\ GoTo(w, "commit")
    /\ UNCHANGED <<tables, nextid, calls, history, args, visit, trigger, drafts, locks>>

\* The next device.  A row that is there already is not inserted again.
NextRow(w) ==
    /\ pc[w] = "rows"
    /\ \E d \in todo[w] :
         /\ todo' = [todo EXCEPT ![w] = @ \ {d}]
         /\ dev' = [dev EXCEPT ![w] = d]
         /\ GoTo(w, IF ~Adds(w) THEN "row" ELSE IF RowSeen(w, <<gid[w], d>>) THEN "rows" ELSE "user")
    /\ UNCHANGED <<tables, nextid, calls, history, args, trigger, drafts, locks>>

\* "delete" takes the row before its trigger fires, unless it is gone by then.
LockRow(w) ==
    /\ pc[w] = "row"
    /\ RowFree(w, Row(w))
    /\ \/ ~RowSeen(w, Row(w)) /\ GoTo(w, "rows") /\ UNCHANGED rowLock
       \/ /\ RowSeen(w, Row(w))
          /\ rowLock' = [rowLock EXCEPT ![Row(w)] = w]
          /\ GoTo(w, "user")
    /\ UNCHANGED <<tables, nextid, calls, history, args, visit, trigger, drafts,
                   grpLock, shared, stampLock>>

\* "select userid from devicegroup".  A row that goes with its group finds none,
\* and stamps nothing: the trigger of the group has.
ReadUser(w) ==
    /\ pc[w] = "user"
    /\ \/ /\ Exists(w, gid[w])
          /\ LET u == GroupSeen(w, gid[w]).owner.user IN
                /\ usr' = [usr EXCEPT ![w] = u]
                /\ due' = [due EXCEPT ![w] = IF u = PublicUser THEN {PublicStamp} ELSE {}]
                /\ GoTo(w, IF u = PublicUser THEN "look" ELSE "lic")
       \/ ~Exists(w, gid[w]) /\ ~Adds(w) /\ GoTo(w, "member") /\ UNCHANGED <<usr, due>>
    /\ UNCHANGED <<tables, nextid, calls, history, args, visit, found, drafts, locks>>

\* "select licguid from devicegroup", a statement later: the group may have got
\* another owner in between.
ReadLicence(w) ==
    /\ pc[w] = "lic"
    /\ Exists(w, gid[w])
    /\ due' = [due EXCEPT ![w] = {[user |-> usr[w], lic |-> GroupSeen(w, gid[w]).owner.lic]}]
    /\ GoTo(w, "look")
    /\ UNCHANGED <<tables, nextid, calls, history, args, visit, usr, found, drafts, locks>>

\* There is no owner to stamp for: userid or licguid of the stamp would be null.
NoOwner(w) ==
    /\ ~Exists(w, gid[w])
    /\ pc[w] = "lic" \/ (pc[w] = "user" /\ Adds(w))
    /\ RollBack(w)

InsertRow(w) ==
    /\ pc[w] = "member"
    /\ Adds(w)
    /\ RowFree(w, Row(w))
    /\ Row(w) \notin member
    /\ rowLock' = [rowLock EXCEPT ![Row(w)] = w]
    /\ draftRow' = [draftRow EXCEPT ![w][Row(w)] = "in"]
    /\ GoTo(w, "fk")
    /\ UNCHANGED <<tables, nextid, calls, history, args, visit, trigger, draftGrp,
                   grpLock, shared, stampLock>>

\* devicegroupdevice_unique is violated.
RowIsThere(w) ==
    /\ pc[w] = "member"
    /\ Adds(w)
    /\ RowFree(w, Row(w))
    /\ Row(w) \in member
    /\ RollBack(w)

DeleteRow(w) ==
    /\ pc[w] = "member"
    /\ ~Adds(w)
    /\ draftRow' = [draftRow EXCEPT ![w][Row(w)] = "out"]
    /\ GoTo(w, "rows")
    /\ UNCHANGED <<tables, nextid, calls, history, args, visit, trigger, draftGrp, locks>>

\* MUTANT of Referenced: the group is not looked up again.
NotReferenced(w) == TRUE

\* devicegroupdevice_devicegroupid, checked when the insert is done.
Referenced(w) == Exists(w, gid[w])

ForeignKey(w) ==
    /\ pc[w] = "fk"
    /\ grpLock[gid[w]] \in {NoSession, w}
    /\ Referenced(w)
    /\ shared' = [shared EXCEPT ![gid[w]] = @ \union {w}]
    /\ GoTo(w, "rows")
    /\ UNCHANGED <<tables, nextid, calls, history, args, visit, trigger, drafts,
                   grpLock, rowLock, stampLock>>

GroupGone(w) ==
    /\ pc[w] = "fk"
    /\ grpLock[gid[w]] \in {NoSession, w}
    /\ ~Referenced(w)
    /\ RollBack(w)

-----------------------------------------------------------------------------
(* Deadlocks and broken calls *)

\* The sessions that w waits for.
WaitsFor(w) ==
    { v \in Sessions \ {w} :
        \/ pc[w] = "lock" /\ (grpLock[gid[w]] = v \/ v \in shared[gid[w]])
        \/ pc[w] = "fk" /\ grpLock[gid[w]] = v
        \/ pc[w] = "put" /\ \E k \in Stamps : NextDue(w, k) /\ stampLock[k] = v
        \/ (pc[w] = "row" \/ (pc[w] = "member" /\ Adds(w))) /\ rowLock[Row(w)] = v
        \/ /\ pc[w] = "group" /\ op[w] \in GroupOps \ {"delete"}
           /\ \E g \in GroupIds : /\ draftGrp[v][g] # Kept
                                  /\ \E row \in {grp[g], draftGrp[v][g]} \ {NoGroup} :
                                        SameEntry(row, want[w]) }

\* w is in a circle of waiting sessions.
Deadlocked(w) ==
    \E S \in SUBSET Sessions : w \in S /\ \A v \in S : WaitsFor(v) \intersect S # {}

DeadlockVictim(w) == Deadlocked(w) /\ RollBack(w)

\* The connection is lost, or the client cancels.
Abort(w) == pc[w] # "idle" /\ RollBack(w)

NewCall(w) ==
    \/ \E n \in Names, o \in Owners : Upsert(w, n, o)
    \/ \E g \in known, n \in Names, o \in Owners : Update(w, g, n, o)
    \/ \E g \in known : Delete(w, g) \/ DeleteMembers(w, g)
    \/ \E g \in known, ds \in SUBSET Devices : AddMembers(w, g, ds)

Statement(w) ==
    \/ Insert(w) \/ LockGroup(w) \/ CheckName(w) \/ NameExists(w)
    \/ LookForStamp(w) \/ PutStamp(w) \/ StampIsThere(w)
    \/ WriteGroup(w) \/ NotUnique(w) \/ DeleteGroup(w)
    \/ RowsDone(w) \/ NextRow(w) \/ LockRow(w) \/ ReadUser(w) \/ ReadLicence(w) \/ NoOwner(w)
    \/ InsertRow(w) \/ RowIsThere(w) \/ DeleteRow(w) \/ ForeignKey(w) \/ GroupGone(w)
    \/ Commit(w)

Next == \E w \in Sessions : NewCall(w) \/ Statement(w) \/ DeadlockVictim(w) \/ Abort(w)

Spec == Init /\ [][Next]_vars

\* A call that can go on does, and the server resolves deadlocks; nobody has to
\* make a call or to break one off.
FairSpec == Spec /\ \A w \in Sessions : WF_vars(Statement(w)) /\ WF_vars(DeadlockVictim(w))

-----------------------------------------------------------------------------
(* Properties *)

\* Members are members of groups that exist, whatever is deleted while they are
\* added: the trigger looks at the group long before the foreign key does.
MembersHaveGroups == \A r \in member : grp[r[1]] # NoGroup

\* The parts of the inductive invariant that MembersHaveGroups needs.

\* Who writes a group has it, and is the only one to rely on it.
GroupsLocked ==
    \A w \in Sessions, g \in GroupIds :
        /\ draftGrp[w][g] # Kept => grpLock[g] = w /\ gid[w] = g /\ op[w] \in GroupOps
        /\ grpLock[g] = w => gid[w] = g /\ op[w] \in GroupOps /\ shared[g] \subseteq {w}

\* Ids that the sequence has not handed out are of no group, and of no lock.
NewIds == \A g \in GroupIds : grp[g] # NoGroup \/ grpLock[g] # NoSession => g < nextid

\* Only a deletion takes a group away, it has the group by then, and it goes
\* through the members when it has.
InRows == {"rows", "row", "user", "lic", "member", "fk"}

InOrder(w) ==
    /\ pc[w] = "idle" => op[w] = "none"
    /\ gid[w] \in GroupIds /\ draftGrp[w][gid[w]] = NoGroup =>
          op[w] = "delete" /\ pc[w] \in {"rows", "row", "user", "member", "commit"}
    /\ pc[w] \in {"name", "look", "put", "group"} /\ op[w] \in GroupOps =>
          gid[w] \in GroupIds /\ grpLock[gid[w]] = w
    /\ pc[w] \in InRows \union {"look", "put"} => gid[w] \in GroupIds
    /\ pc[w] \in InRows /\ op[w] \in GroupOps => op[w] = "delete" /\ draftGrp[w][gid[w]] = NoGroup
    /\ pc[w] = "insert" => op[w] = "devicegroup_upsert" /\ gid[w] = 0
    /\ pc[w] = "lock" => op[w] \in {"update", "delete"} /\ gid[w] \in GroupIds
    /\ pc[w] = "name" => op[w] \in GroupOps \ {"delete"}
    /\ pc[w] = "fk" => Adds(w)
    /\ op[w] = "delete" => want[w] = NoGroup
    /\ op[w] = "update" \/ (op[w] = "devicegroup_upsert" /\ pc[w] # "commit") => want[w] # NoGroup

StepsInOrder == \A w \in Sessions : InOrder(w)

\* A group that a session has referenced stays until the session is done.
ReferencedStay ==
    \A g \in GroupIds : \A w \in shared[g] : grp[g] # NoGroup /\ Adds(w) /\ gid[w] = g

\* A row that is added refers to the group, or is just about to.
AddedRefer ==
    \A w \in Sessions, r \in Rows :
        draftRow[w][r] = "in" =>
            /\ Adds(w) /\ r[1] = gid[w]
            /\ w \in shared[r[1]] \/ (pc[w] = "fk" /\ dev[w] = r[2])

\* The cascade has each member of the deleted group behind it or before it.
CascadeMisses(w) ==
    {d \in Devices : <<gid[w], d>> \in member /\ draftRow[w][<<gid[w], d>>] # "out"}

Complete(w) ==
    op[w] = "delete" /\ gid[w] \in GroupIds /\ draftGrp[w][gid[w]] = NoGroup =>
        CascadeMisses(w) \subseteq
            CASE pc[w] = "commit" -> {}
              [] pc[w] = "rows" -> todo[w]
              [] OTHER -> todo[w] \union {dev[w]}

CascadeComplete == \A w \in Sessions : Complete(w)

IInv == TypeOK /\ GroupsLocked /\ NewIds /\ StepsInOrder /\ ReferencedStay /\ AddedRefer
        /\ CascadeComplete /\ MembersHaveGroups

\* An owner's groups differ in more than the case of their names, unless one was
\* committed after the other's call had looked for such names: the name check
\* and the index, which minds the case, are two steps of the call.
VariantsOnlyByRace ==
    \A g, h \in GroupIds :
        (/\ g # h
         /\ grp[g] # NoGroup /\ grp[h] # NoGroup
         /\ grp[g].owner = grp[h].owner
         /\ Lower[grp[g].name] = Lower[grp[h].name])
        => {g, h} \in raced

\* What clients that watch stamp k copy: the groups, and the devices in them.
Visible(k) ==
    {<<g, grp[g].name, {d \in Devices : <<g, d>> \in member}>> :
        g \in {h \in GroupIds : grp[h] # NoGroup /\ StampOf(grp[h].owner) = k}}

\* A group goes from one private owner to another, neither of whom is public:
\* the trigger stamps for the new owner, and the old one is not told.
GivenAway(k) ==
    \E g \in GroupIds :
        /\ grp[g] # NoGroup /\ grp'[g] # NoGroup
        /\ StampOf(grp[g].owner) = k /\ k # PublicStamp
        /\ StampOf(grp'[g].owner) \notin {k, PublicStamp}

\* A change that shows to the clients of a stamp puts that stamp in the same
\* commit, with two exceptions: a group given from one private owner to another,
\* and members changed by a call during which the group got another owner.
Told ==
    [][\A k \in Stamps : Visible(k)' # Visible(k) =>
          \/ stamp'[k] # stamp[k]
          \/ GivenAway(k)
          \/ \E w \in Sessions : pc[w] = "commit" /\ pc'[w] = "idle" /\ op[w] \notin GroupOps /\ moved[w]]_vars

\* Every call ends, although members take the stamp before the group and the
\* changes of groups take it after.
CallsEnd == \A w \in Sessions : pc[w] # "idle" ~> pc[w] = "idle"

=============================================================================
