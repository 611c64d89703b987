-------------------------------- MODULE Sites --------------------------------
(***************************************************************************)
(* Sites of the workspace database (nbwsp.sql): the tree of sites (tables  *)
(* site and site2site), the devices placed in them (devicesitedevice), and *)
(* the functions that change them while other sessions do the same.        *)
(*                                                                         *)
(* Every call is one transaction under READ COMMITTED.  An action runs one *)
(* SQL statement of it, up to the next point where the statement may wait: *)
(* for a row of site or devicesitedevice, for the row 'site' of            *)
(* objtimestamp that the triggers update, or for the shared lock by which  *)
(* a foreign key holds the site a device is placed in.  What a call has    *)
(* written lies in the draft of its session until it commits.              *)
(*                                                                         *)
(* A row of site2site is inserted and deleted with its row of site, so the *)
(* two are one row here, and the customised attributes that go with a site *)
(* are left out.                                                           *)
(***************************************************************************)
EXTENDS Integers, FiniteSets

CONSTANTS
    Sessions,    \* database sessions, each running one call at a time
    Devices,     \* rows of devices
    Names,       \* names of sites
    Lower,       \* a function on Names: lower()
    RootName,    \* the name of site 1, "Entire Network"
    NoRow,       \* "no such site"
    Kept,        \* in a draft: not written by the transaction
    NoSession,   \* holder of a free lock
    NoDevice,    \* no row visited yet
    MaxSite,     \* bound: ids the sequence of site hands out
    MaxCalls     \* bound: calls made

ASSUME NamesAssumption ==
    /\ Lower = [n \in Names |-> Lower[n]]
    /\ RootName \in Names
    /\ NoSession \notin Sessions
    /\ MaxSite \in Nat \ {0}
    /\ MaxCalls \in Nat

\* The server admits a number of sessions (max_connections).
ASSUME SessionsAssumption == IsFiniteSet(Sessions) /\ Sessions # {}

Root == 1
SiteIds == 1 .. MaxSite
Nowhere == 0                       \* of a device that has no row
SiteRow == [name : Names, parent : 0 .. MaxSite]

ASSUME MarkersAssumption ==
    /\ NoRow \notin SiteRow
    /\ Kept \notin SiteRow \union {NoRow}
    /\ Kept \notin 0 .. MaxSite

Ops == {"site_addormodify", "site_devices_addormodify", "site_remove",
        "device_site_move", "device_site_set", "device_site_set2"}

Statements == {"idle", "parent", "lock", "name", "write", "unlink", "delete", "set2", "rows",
               "row", "count", "insert", "fk", "touch", "bump", "commit"}

VARIABLES
    \* the committed database
    site,        \* [SiteIds -> SiteRow \union {NoRow}]
    place,       \* [Devices -> 0 .. MaxSite]: devicesitedevice
    modifytime,  \* of the row 'site' of objtimestamp: commits that stamped it
    nextid,      \* the sequence of site
    \* calls
    calls,       \* number of calls made
    removed,     \* history: sites that have been removed
    lost,        \* history: devices whose row others deleted during the call
    op,          \* the function a session runs
    pc,          \* the statement it has come to
    sid,         \* nsiteid, nsiteidto or ssite.id
    other,       \* nparent, nsiteidfrom, or the parent set2 moves devices to
    nam,         \* ssite.name
    devs,        \* the devices of the call
    loop,        \* what is done with the rows in todo
    todo,        \* rows the statement has still to visit
    dev,         \* the row it has come to
    draftSite,   \* [Sessions -> [SiteIds -> SiteRow \union {NoRow, Kept}]]
    draftPlace,  \* [Sessions -> [Devices -> 0 .. MaxSite \union {Kept}]]
    \* locks
    siteLock,    \* [SiteIds -> Sessions \union {NoSession}], by UPDATE and DELETE
    shared,      \* [SiteIds -> SUBSET Sessions], by foreign keys
    devLock,     \* [Devices -> Sessions \union {NoSession}]
    verLock      \* holder of the row 'site' of objtimestamp

tables == <<site, place, modifytime, removed>>
args   == <<op, sid, other, nam, devs>>
rows   == <<loop, todo, dev>>
drafts == <<draftSite, draftPlace>>
locks  == <<siteLock, shared, devLock, verLock>>
vars   == <<tables, nextid, calls, lost, pc, args, rows, drafts, locks>>

TypeOK ==
    /\ site \in [SiteIds -> SiteRow \union {NoRow}]
    /\ place \in [Devices -> 0 .. MaxSite]
    /\ modifytime \in Nat
    /\ nextid \in Nat
    /\ calls \in Nat
    /\ removed \in SUBSET SiteIds
    /\ lost \in [Sessions -> SUBSET Devices]
    /\ op \in [Sessions -> Ops]
    /\ pc \in [Sessions -> Statements]
    /\ sid \in [Sessions -> 0 .. MaxSite]
    /\ other \in [Sessions -> 0 .. MaxSite]
    /\ nam \in [Sessions -> Names]
    /\ devs \in [Sessions -> SUBSET Devices]
    /\ loop \in [Sessions -> {"delete", "reassign", "place"}]
    /\ todo \in [Sessions -> SUBSET Devices]
    /\ dev \in [Sessions -> Devices \union {NoDevice}]
    /\ draftSite \in [Sessions -> [SiteIds -> SiteRow \union {NoRow, Kept}]]
    /\ draftPlace \in [Sessions -> [Devices -> (0 .. MaxSite) \union {Kept}]]
    /\ siteLock \in [SiteIds -> Sessions \union {NoSession}]
    /\ shared \in [SiteIds -> SUBSET Sessions]
    /\ devLock \in [Devices -> Sessions \union {NoSession}]
    /\ verLock \in Sessions \union {NoSession}

\* Site 1 is the whole network; its parent 0 is no site.
Init ==
    /\ site = [s \in SiteIds |-> IF s = Root THEN [name |-> RootName, parent |-> 0] ELSE NoRow]
    /\ place = [d \in Devices |-> Nowhere]
    /\ modifytime = 0
    /\ nextid = Root + 1
    /\ calls = 0
    /\ removed = {}
    /\ lost = [w \in Sessions |-> {}]
    /\ op = [w \in Sessions |-> "site_addormodify"]
    /\ pc = [w \in Sessions |-> "idle"]
    /\ sid = [w \in Sessions |-> 0]
    /\ other = [w \in Sessions |-> 0]
    /\ nam = [w \in Sessions |-> RootName]
    /\ devs = [w \in Sessions |-> {}]
    /\ loop = [w \in Sessions |-> "place"]
    /\ todo = [w \in Sessions |-> {}]
    /\ dev = [w \in Sessions |-> NoDevice]
    /\ draftSite = [w \in Sessions |-> [s \in SiteIds |-> Kept]]
    /\ draftPlace = [w \in Sessions |-> [d \in Devices |-> Kept]]
    /\ siteLock = [s \in SiteIds |-> NoSession]
    /\ shared = [s \in SiteIds |-> {}]
    /\ devLock = [d \in Devices |-> NoSession]
    /\ verLock = NoSession

-----------------------------------------------------------------------------
(* What a session sees and may lock *)

SiteSeen(w, s) == IF draftSite[w][s] = Kept THEN site[s] ELSE draftSite[w][s]
PlaceSeen(w, d) == IF draftPlace[w][d] = Kept THEN place[d] ELSE draftPlace[w][d]

Exists(w, s) == s \in SiteIds /\ SiteSeen(w, s) # NoRow

SiteFree(w, s) == siteLock[s] \in {NoSession, w} /\ shared[s] \subseteq {w}
DeviceFree(w, d) == devLock[d] \in {NoSession, w}
VersionFree(w) == verLock \in {NoSession, w}

GoTo(w, statement) == pc' = [pc EXCEPT ![w] = statement]

\* Sites a client may know: they are, or were, in the table.
Known == {s \in SiteIds : site[s] # NoRow} \union removed

\* The call that session w makes.
Call(w, f, s, t, n, ds) ==
    /\ pc[w] = "idle"
    /\ calls < MaxCalls
    /\ calls' = calls + 1
    /\ op' = [op EXCEPT ![w] = f]
    /\ sid' = [sid EXCEPT ![w] = s]
    /\ other' = [other EXCEPT ![w] = t]
    /\ nam' = [nam EXCEPT ![w] = n]
    /\ devs' = [devs EXCEPT ![w] = ds]
    /\ UNCHANGED <<tables, nextid, lost, drafts, locks>>

\* The transaction ends: w has no draft and no lock any more.
Release(w) ==
    /\ GoTo(w, "idle")
    /\ op' = [op EXCEPT ![w] = "site_addormodify"]
    /\ sid' = [sid EXCEPT ![w] = 0]
    /\ other' = [other EXCEPT ![w] = 0]
    /\ nam' = [nam EXCEPT ![w] = RootName]
    /\ devs' = [devs EXCEPT ![w] = {}]
    /\ loop' = [loop EXCEPT ![w] = "place"]
    /\ todo' = [todo EXCEPT ![w] = {}]
    /\ dev' = [dev EXCEPT ![w] = NoDevice]
    /\ draftSite' = [draftSite EXCEPT ![w] = [s \in SiteIds |-> Kept]]
    /\ draftPlace' = [draftPlace EXCEPT ![w] = [d \in Devices |-> Kept]]
    /\ siteLock' = [s \in SiteIds |-> IF siteLock[s] = w THEN NoSession ELSE siteLock[s]]
    /\ shared' = [s \in SiteIds |-> shared[s] \ {w}]
    /\ devLock' = [d \in Devices |-> IF devLock[d] = w THEN NoSession ELSE devLock[d]]
    /\ verLock' = IF verLock = w THEN NoSession ELSE verLock
    /\ UNCHANGED <<nextid, calls>>

\* An error: raised to the client, or turned into -1 by EXCEPTION WHEN OTHERS
\* after everything the call did has been undone.
RollBack(w) ==
    /\ Release(w)
    /\ lost' = [lost EXCEPT ![w] = {}]
    /\ UNCHANGED tables

Commit(w) ==
    /\ pc[w] = "commit"
    /\ site' = [s \in SiteIds |-> SiteSeen(w, s)]
    /\ place' = [d \in Devices |-> PlaceSeen(w, d)]
    /\ modifytime' = IF verLock = w THEN modifytime + 1 ELSE modifytime
    /\ removed' = removed \union {s \in SiteIds : draftSite[w][s] = NoRow}
    /\ lost' = [v \in Sessions |->
                  IF v = w \/ pc[v] = "idle" THEN {}
                  ELSE lost[v] \union {d \in Devices : draftPlace[w][d] = Nowhere}]
    /\ Release(w)

-----------------------------------------------------------------------------
(* site_addormodify(nparent, ssite), site_devices_addormodify(nparent, ...) *)

\* The lookup of ssite.id decides between insert and update; a site that has
\* been removed meanwhile is inserted again, under nparent and with a new id.
AddOrModify(w, f, s, p, n, ds) ==
    /\ p \in SiteIds
    /\ IF Exists(w, s) THEN Call(w, f, s, 0, n, ds) ELSE Call(w, f, 0, p, n, ds)
    /\ GoTo(w, IF Exists(w, s) THEN "lock" ELSE "parent")
    /\ UNCHANGED rows

\* MUTANT of ParentThere: nparent is not looked up.
ParentAssumed(w) == TRUE

ParentThere(w) == Exists(w, other[w])

\* "if r_id is NULL then return -1"; otherwise the insert takes the next id, of
\* a row that is nobody else's until the call commits.
CheckParent(w) ==
    /\ pc[w] = "parent"
    /\ \/ /\ ParentThere(w)
          /\ nextid <= MaxSite
          /\ nextid' = nextid + 1
          /\ sid' = [sid EXCEPT ![w] = nextid]
          /\ siteLock' = [siteLock EXCEPT ![nextid] = w]
          /\ GoTo(w, "name")
       \/ /\ ~ParentThere(w)
          /\ GoTo(w, "commit")
          /\ UNCHANGED <<nextid, sid, siteLock>>
    /\ UNCHANGED <<tables, calls, lost, op, other, nam, devs, rows, drafts, shared, devLock, verLock>>

\* "site_id > 0" then device_site_set2, which starts with its own look at the site.
AfterWrite(w) == IF op[w] = "site_devices_addormodify" THEN "set2" ELSE "commit"

\* "update site ... where id = site_id" takes the row before its trigger fires.
\* Nothing is updated, and no error given, if the row is gone by then.  The
\* trigger returns OLD if no column changes; name is one column of several.
LockSite(w) ==
    /\ pc[w] = "lock"
    /\ SiteFree(w, sid[w])
    /\ \/ /\ ~Exists(w, sid[w])
          /\ GoTo(w, AfterWrite(w))
          /\ UNCHANGED siteLock
       \/ /\ Exists(w, sid[w])
          /\ siteLock' = [siteLock EXCEPT ![sid[w]] = w]
          /\ \/ GoTo(w, "name")
             \/ SiteSeen(w, sid[w]).name = nam[w] /\ GoTo(w, AfterWrite(w))
    /\ UNCHANGED <<tables, nextid, calls, lost, args, rows, drafts, shared, devLock, verLock>>

\* MUTANT of NameTaken: nothing but the unique constraint looks at the name.
NameNeverTaken(w) == FALSE

\* SiteNameExists, called by the trigger of site.
NameTaken(w) ==
    \E s \in SiteIds \ {sid[w]} :
        /\ Exists(w, s)
        /\ Lower[SiteSeen(w, s).name] = Lower[nam[w]]

CheckName(w) ==
    /\ pc[w] = "name"
    /\ ~NameTaken(w)
    /\ GoTo(w, "write")
    /\ UNCHANGED <<tables, nextid, calls, lost, args, rows, drafts, locks>>

\* RAISE EXCEPTION 'name exists': nothing is left of the call but the used id.
NameExists(w) ==
    /\ pc[w] = "name"
    /\ NameTaken(w)
    /\ RollBack(w)

\* The trigger bumps the version, and only then the row and its index entry are
\* written: site_uniq_name compares with everything committed by now.
WriteSite(w) ==
    LET s == sid[w]
        p == IF Exists(w, s) THEN SiteSeen(w, s).parent ELSE other[w]
    IN
    /\ pc[w] = "write"
    /\ VersionFree(w)
    /\ \A t \in SiteIds \ {s} : Exists(w, t) => SiteSeen(w, t).name # nam[w]
    /\ verLock' = w
    /\ draftSite' = [draftSite EXCEPT ![w][s] = [name |-> nam[w], parent |-> p]]
    /\ GoTo(w, AfterWrite(w))
    /\ UNCHANGED <<tables, nextid, calls, lost, args, rows, draftPlace, siteLock, shared, devLock>>

NotUnique(w) ==
    /\ pc[w] = "write"
    /\ VersionFree(w)
    /\ \E t \in SiteIds \ {sid[w]} : Exists(w, t) /\ SiteSeen(w, t).name = nam[w]
    /\ RollBack(w)

-----------------------------------------------------------------------------
(* site_remove(nsiteid) *)

SiteRemove(w, s) ==
    /\ Call(w, "site_remove", s, 0, nam[w], {})
    /\ GoTo(w, "unlink")
    /\ UNCHANGED rows

\* "delete from site2site": its trigger bumps the version, if there is a row.
\* Only another removal of the same site wants that row, and it needs the
\* version as well, so the two waits of the statement are one here.
Unlink(w) ==
    /\ pc[w] = "unlink"
    /\ \/ ~Exists(w, sid[w]) /\ UNCHANGED verLock
       \/ Exists(w, sid[w]) /\ VersionFree(w) /\ verLock' = w
    /\ GoTo(w, "delete")
    /\ UNCHANGED <<tables, nextid, calls, lost, args, rows, drafts, siteLock, shared, devLock>>

\* MUTANT of Cascaded: the foreign key of devicesitedevice does not cascade.
NothingCascaded(w) == {}

\* Rows that go with site sid by ON DELETE CASCADE.
Cascaded(w) == {d \in Devices : PlaceSeen(w, d) = sid[w]}

\* "delete from site", and the cascade, which visits the rows one by one.
DeleteSite(w) ==
    /\ pc[w] = "delete"
    /\ SiteFree(w, sid[w])
    /\ \/ /\ ~Exists(w, sid[w])
          /\ GoTo(w, "bump")
          /\ UNCHANGED <<siteLock, verLock, draftSite, rows>>
       \/ /\ Exists(w, sid[w])
          /\ VersionFree(w)
          /\ siteLock' = [siteLock EXCEPT ![sid[w]] = w]
          /\ verLock' = w
          /\ draftSite' = [draftSite EXCEPT ![w][sid[w]] = NoRow]
          /\ loop' = [loop EXCEPT ![w] = "delete"]
          /\ todo' = [todo EXCEPT ![w] = Cascaded(w)]
          /\ GoTo(w, "rows")
          /\ UNCHANGED dev
    /\ UNCHANGED <<tables, nextid, calls, lost, args, draftPlace, shared, devLock>>

-----------------------------------------------------------------------------
(* device_site_move, device_site_set and device_site_set2 *)

\* "update devicesitedevice set siteid=nsiteidto where siteid=nsiteidfrom"
DeviceSiteMove(w, from, to) ==
    /\ Call(w, "device_site_move", to, from, nam[w], {})
    /\ loop' = [loop EXCEPT ![w] = "reassign"]
    /\ todo' = [todo EXCEPT ![w] = {d \in Devices : PlaceSeen(w, d) = from}]
    /\ GoTo(w, "rows")
    /\ UNCHANGED dev

DeviceSiteSet(w, s, d) ==
    /\ Call(w, "device_site_set", s, 0, nam[w], {d})
    /\ loop' = [loop EXCEPT ![w] = "place"]
    /\ todo' = [todo EXCEPT ![w] = {d}]
    /\ GoTo(w, "rows")
    /\ UNCHANGED dev

CallSet2(w, s, ds) ==
    /\ Call(w, "device_site_set2", s, 0, nam[w], ds)
    /\ GoTo(w, "set2")
    /\ UNCHANGED rows

\* device_site_set2 moves the devices of its site to the parent, unless the site
\* is the whole network, before it places those it is given.  Without a row of
\* site2site it returns -1, which site_devices_addormodify ignores.  It reads the
\* parent in a statement of its own; that and the snapshot of the update are one
\* step, as the parent of a site never changes, and a site that is removed between
\* the two has no devices left to move.
DeviceSiteSet2(w) ==
    LET p == SiteSeen(w, sid[w]).parent IN
    /\ pc[w] = "set2"
    /\ \/ /\ ~Exists(w, sid[w])
          /\ GoTo(w, "commit")
          /\ UNCHANGED <<other, loop, todo>>
       \/ /\ Exists(w, sid[w])
          /\ other' = [other EXCEPT ![w] = p]
          /\ loop' = [loop EXCEPT ![w] = IF p > 0 THEN "reassign" ELSE "place"]
          /\ todo' = [todo EXCEPT ![w] = IF p > 0 THEN {d \in Devices : PlaceSeen(w, d) = sid[w]}
                                                 ELSE devs[w]]
          /\ GoTo(w, "rows")
    /\ UNCHANGED <<tables, nextid, calls, lost, op, sid, nam, devs, dev, drafts, locks>>

\* The site whose devices are reassigned, and the site they are reassigned to.
From(w) == IF op[w] = "device_site_move" THEN other[w] ELSE sid[w]
Target(w) == IF loop[w] = "reassign" /\ op[w] # "device_site_move" THEN other[w] ELSE sid[w]

\* A loop over rows takes the next one: a statement finds them in any order.
NextRow(w) ==
    /\ pc[w] = "rows"
    /\ \E d \in todo[w] :
          /\ dev' = [dev EXCEPT ![w] = d]
          /\ todo' = [todo EXCEPT ![w] = @ \ {d}]
    /\ GoTo(w, IF loop[w] = "place" THEN "count" ELSE "row")
    /\ UNCHANGED <<tables, nextid, calls, lost, args, loop, drafts, locks>>

\* After the last row: the foreign keys of reassigned rows, then what follows.
RowsDone(w) ==
    /\ pc[w] = "rows"
    /\ todo[w] = {}
    /\ GoTo(w, CASE loop[w] = "delete" -> "bump"
                 [] loop[w] = "place" -> "touch"
                 [] OTHER -> "fk")
    /\ UNCHANGED <<tables, nextid, calls, lost, args, rows, drafts, locks>>

\* MUTANT of Hit: the rows are selected first, and then updated by their device.
HitAnyway(w, d) == PlaceSeen(w, d) # Nowhere

\* Whether the row still is what the statement looks for.
Hit(w, d) ==
    IF loop[w] = "place" THEN PlaceSeen(w, d) # Nowhere ELSE PlaceSeen(w, d) = From(w)

\* The row is locked, and looked at again if that took a wait: it may be gone,
\* or have been given to another site, by then.
LockRow(w) ==
    LET d == dev[w]
        hit == Hit(w, d)
        new == IF loop[w] = "delete" THEN Nowhere ELSE Target(w)
    IN
    /\ pc[w] = "row"
    /\ DeviceFree(w, d)
    /\ GoTo(w, IF loop[w] = "place" /\ hit /\ PlaceSeen(w, d) # new THEN "fk" ELSE "rows")
    /\ devLock' = IF hit THEN [devLock EXCEPT ![d] = w] ELSE devLock
    /\ draftPlace' = IF hit THEN [draftPlace EXCEPT ![w][d] = new] ELSE draftPlace
    /\ UNCHANGED <<tables, nextid, calls, lost, args, rows, draftSite, siteLock, shared, verLock>>

\* MUTANT of CountRows: a device that has a row already is taken to be done.
CountIsEnough(w) ==
    /\ pc[w] = "count"
    /\ GoTo(w, IF PlaceSeen(w, dev[w]) = Nowhere THEN "insert" ELSE "rows")
    /\ UNCHANGED <<tables, nextid, calls, lost, args, rows, drafts, locks>>

\* "if (select count( * ) ... ) < 1 then insert", a statement before the update.
CountRows(w) ==
    /\ pc[w] = "count"
    /\ GoTo(w, IF PlaceSeen(w, dev[w]) = Nowhere THEN "insert" ELSE "row")
    /\ UNCHANGED <<tables, nextid, calls, lost, args, rows, drafts, locks>>

\* devicesitedevice_uniq_deviceid makes the insert wait for a row of the same
\* device that is not committed yet.  The update after the insert changes nothing.
InsertRow(w) ==
    /\ pc[w] = "insert"
    /\ DeviceFree(w, dev[w])
    /\ PlaceSeen(w, dev[w]) = Nowhere
    /\ devLock' = [devLock EXCEPT ![dev[w]] = w]
    /\ draftPlace' = [draftPlace EXCEPT ![w][dev[w]] = sid[w]]
    /\ GoTo(w, "fk")
    /\ UNCHANGED <<tables, nextid, calls, lost, args, rows, draftSite, siteLock, shared, verLock>>

\* MUTANT of RowIsThere: the insert is repeated until it succeeds.
InsertAgain(w) ==
    /\ pc[w] = "insert"
    /\ DeviceFree(w, dev[w])
    /\ PlaceSeen(w, dev[w]) # Nowhere
    /\ GoTo(w, "insert")
    /\ UNCHANGED <<tables, nextid, calls, lost, args, rows, drafts, locks>>

\* unique_violation: another session has placed the device since the count.
RowIsThere(w) ==
    /\ pc[w] = "insert"
    /\ DeviceFree(w, dev[w])
    /\ PlaceSeen(w, dev[w]) # Nowhere
    /\ RollBack(w)

\* MUTANT of Referenced: devicesitedevice has no foreign key on site.
NotReferenced(w) == TRUE

\* The site that devicesitedevice_fk_siteid finds for the rows just written.
Referenced(w) == Exists(w, Target(w))

\* Rows of a reassigning update to check, if any; a placed row is checked at once.
Written(w) == loop[w] = "place" \/ \E d \in Devices : devLock[d] = w

AfterCheck(w) ==
    CASE loop[w] = "place" -> GoTo(w, "rows") /\ UNCHANGED rows
      [] op[w] = "device_site_move" -> GoTo(w, "touch") /\ UNCHANGED rows
      [] OTHER -> /\ loop' = [loop EXCEPT ![w] = "place"]
                  /\ todo' = [todo EXCEPT ![w] = devs[w]]
                  /\ GoTo(w, "rows")
                  /\ UNCHANGED dev

\* The check holds the site by a shared lock, once nobody is changing it.
ForeignKey(w) ==
    /\ pc[w] = "fk"
    /\ \/ ~Written(w) /\ UNCHANGED shared
       \/ /\ Written(w)
          /\ Target(w) \in SiteIds => siteLock[Target(w)] \in {NoSession, w}
          /\ Referenced(w)
          /\ shared' = [s \in SiteIds |-> IF s = Target(w) THEN shared[s] \union {w} ELSE shared[s]]
    /\ AfterCheck(w)
    /\ UNCHANGED <<tables, nextid, calls, lost, args, drafts, siteLock, devLock, verLock>>

NoSuchSite(w) ==
    /\ pc[w] = "fk"
    /\ Written(w)
    /\ Target(w) \in SiteIds => siteLock[Target(w)] \in {NoSession, w}
    /\ ~Referenced(w)
    /\ RollBack(w)

-----------------------------------------------------------------------------
(* The last statements of the calls that place devices or remove a site *)

\* "update site set lasttimestamp=now()": the trigger returns OLD, so nothing
\* changes, but the row is locked for update.
TouchSite(w) ==
    /\ pc[w] = "touch"
    /\ sid[w] \in SiteIds => SiteFree(w, sid[w])
    /\ siteLock' = IF Exists(w, sid[w]) THEN [siteLock EXCEPT ![sid[w]] = w] ELSE siteLock
    /\ GoTo(w, "bump")
    /\ UNCHANGED <<tables, nextid, calls, lost, args, rows, drafts, shared, devLock, verLock>>

\* MUTANT of Bump: the placing of devices is not taken for a change of the sites.
BumpForgotten(w) ==
    /\ pc[w] = "bump"
    /\ GoTo(w, "commit")
    /\ UNCHANGED <<tables, nextid, calls, lost, args, rows, drafts, locks>>

\* "update objtimestamp set modifytime=now() where typename='site'"
Bump(w) ==
    /\ pc[w] = "bump"
    /\ VersionFree(w)
    /\ verLock' = w
    /\ GoTo(w, "commit")
    /\ UNCHANGED <<tables, nextid, calls, lost, args, rows, drafts, siteLock, shared, devLock>>

-----------------------------------------------------------------------------
(* Deadlocks, and the whole *)

\* w waits for a lock that v holds.
WaitsFor(w, v) ==
    /\ v # w
    /\ \/ /\ pc[w] \in {"lock", "delete", "touch"}
          /\ sid[w] \in SiteIds
          /\ siteLock[sid[w]] = v \/ v \in shared[sid[w]]
       \/ /\ \/ pc[w] \in {"write", "bump"}
             \/ pc[w] = "unlink" /\ Exists(w, sid[w])
             \/ pc[w] = "delete" /\ Exists(w, sid[w]) /\ SiteFree(w, sid[w])
          /\ verLock = v
       \/ pc[w] \in {"row", "insert"} /\ devLock[dev[w]] = v
       \/ pc[w] = "fk" /\ Written(w) /\ Target(w) \in SiteIds /\ siteLock[Target(w)] = v

\* w is in a set of sessions each of which waits for another and is waited for.
Deadlocked(w) ==
    \E S \in SUBSET Sessions :
        /\ w \in S
        /\ \A x \in S : /\ \E y \in S : WaitsFor(x, y)
                        /\ \E y \in S : WaitsFor(y, x)

\* The server rolls back one call of a deadlock.
DeadlockVictim(w) == Deadlocked(w) /\ RollBack(w)

\* A broken session, or a statement that fails for a reason of its own.
Abort(w) == pc[w] # "idle" /\ RollBack(w)

\* The arguments are sites the client knows; as parent of a new site it may also
\* name one that is not there yet.
NewCall(w) ==
    \/ \E s \in Known \union {0}, p \in Known \union {nextid}, n \in Names :
          \/ AddOrModify(w, "site_addormodify", s, p, n, {})
          \/ \E ds \in SUBSET Devices :
                AddOrModify(w, "site_devices_addormodify", s, p, n, ds)
    \/ \E s \in Known : SiteRemove(w, s)
    \/ \E s, t \in Known : s # t /\ DeviceSiteMove(w, s, t)
    \/ \E s \in Known, d \in Devices : DeviceSiteSet(w, s, d)
    \/ \E s \in Known, ds \in SUBSET Devices : CallSet2(w, s, ds)

Statement(w) ==
    \/ CheckParent(w) \/ LockSite(w) \/ CheckName(w) \/ NameExists(w) \/ WriteSite(w) \/ NotUnique(w)
    \/ Unlink(w) \/ DeleteSite(w)
    \/ DeviceSiteSet2(w) \/ NextRow(w) \/ RowsDone(w) \/ LockRow(w)
    \/ CountRows(w) \/ InsertRow(w) \/ RowIsThere(w) \/ ForeignKey(w) \/ NoSuchSite(w)
    \/ TouchSite(w) \/ Bump(w) \/ Commit(w)

Next == \E w \in Sessions : NewCall(w) \/ Statement(w) \/ DeadlockVictim(w) \/ Abort(w)

Spec == Init /\ [][Next]_vars

\* A call that can go on does, and the server resolves deadlocks; nobody has to
\* make a call or to break one off.
FairSpec == Spec /\ \A w \in Sessions : WF_vars(Statement(w)) /\ WF_vars(DeadlockVictim(w))

-----------------------------------------------------------------------------
(* Properties *)

\* The sites are a forest: the parent of a site is an older site, so that every
\* walk up or down the tree ends (retrieve_all_devices_by_siteid and
\* retrieve_all_devices_by_siteids loop until theirs does).  The parent may be
\* missing only because it has been removed: site_remove leaves the children.
ParentsAreOlder ==
    \A s \in SiteIds : site[s] # NoRow =>
        /\ site[s].parent < s
        /\ s # Root => site[s].parent \in Known

\* The trigger compares names before the index entry is made and without regard
\* to case, the index with regard to it.  Sites whose names differ only in case
\* come from calls that ran at the same time: there are never more of them than
\* there are sessions.
SameNamesBounded ==
    \A n \in Names :
        Cardinality({s \in SiteIds : site[s] # NoRow /\ Lower[site[s].name] = Lower[n]})
            <= Cardinality(Sessions)

\* A device is in a site that exists, whatever is removed while it is placed.
PlacesExist == \A d \in Devices : place[d] # Nowhere => site[place[d]] # NoRow

\* Clients reread sites and the devices in them only when the version of 'site'
\* has moved: every committed change stamps it.
ChangesStamped ==
    [][site' # site \/ place' # place => modifytime' > modifytime]_vars

\* A call that has placed devices in a site, and commits, has them there.  Only
\* a device whose row was deleted meanwhile, with the site it was in, may be
\* elsewhere or nowhere: the count had seen the row, the update did not.
PlacedUnlessLost ==
    [][\A w \in Sessions :
         (pc[w] = "commit" /\ pc'[w] = "idle" /\ tables' # tables /\ Exists(w, sid[w]))
         => \A d \in devs[w] : place'[d] = sid[w] \/ d \in lost[w]]_vars

\* Every call ends, although calls wait for each other in different orders:
\* site_remove takes the version before the site, the others after it, and two
\* device_site_set calls for one site hold it by shared locks both want to raise.
CallsEnd == \A w \in Sessions : pc[w] # "idle" ~> pc[w] = "idle"

\* What w has been asked for; a site that is yet to be created has no id.
NoRequest == [op |-> "none", site |-> 0, from |-> 0, name |-> RootName, devs |-> {}]
Request(w) ==
    IF pc[w] = "idle" THEN NoRequest
    ELSE [op |-> op[w],
          site |-> IF sid[w] \in Known THEN sid[w] ELSE 0,
          from |-> IF op[w] = "device_site_move" THEN other[w] ELSE 0,
          name |-> nam[w],
          devs |-> devs[w]]

Tree == INSTANCE SiteTree WITH NoCall <- NoRequest, request <- [w \in Sessions |-> Request(w)]

\* Calls run beside each other, one statement after another, and rows change
\* between their statements; yet a call that commits does what it was asked to,
\* in one step, to the tree as it is then: a removal takes exactly the devices
\* that are in the site by then, a move only devices that still are in its first
\* site, and a site that is renamed or refilled keeps its place in the tree.
ActsAtomically == Tree!Spec

-----------------------------------------------------------------------------
(* The inductive invariant behind ParentsAreOlder, PlacesExist and ChangesStamped *)

\* Ids at or above nextid are not in use, and not locked.
IdsBounded ==
    /\ nextid > Root
    /\ \A s \in SiteIds : s \in Known \/ siteLock[s] # NoSession => s < nextid

\* A row that is written, or about to be, is locked, and with what parent.
WritesLocked ==
    \A w \in Sessions :
        /\ pc[w] \in {"name", "write"} =>
               /\ sid[w] \in SiteIds
               /\ siteLock[sid[w]] = w
               /\ site[sid[w]] # NoRow \/ (other[w] \in Known /\ other[w] < sid[w])
        /\ \A s \in SiteIds : draftSite[w][s] # Kept =>
               /\ siteLock[s] = w
               /\ draftSite[w][s] # NoRow => /\ draftSite[w][s].parent < s
                                             /\ s # Root => draftSite[w][s].parent \in Known
        /\ \A d \in Devices : draftPlace[w][d] # Kept => devLock[d] = w

\* Up to its first write a call has neither drafts nor shared locks.
CallsStartClean ==
    \A w \in Sessions :
        /\ pc[w] \in {"idle", "parent", "lock", "name", "write", "unlink", "delete"} =>
               \A s \in SiteIds : draftSite[w][s] = Kept
        /\ pc[w] \in {"idle", "parent", "lock", "name", "write", "unlink", "delete", "set2"} =>
               /\ \A d \in Devices : draftPlace[w][d] = Kept
               /\ \A s \in SiteIds : w \notin shared[s]

\* Statements run in the functions and loops they belong to.
StatementsInPlace ==
    \A w \in Sessions :
        /\ pc[w] \in {"unlink", "delete"} => op[w] = "site_remove"
        /\ pc[w] \in {"count", "insert"} => loop[w] = "place"

\* A site held by a shared lock is there, and nobody else changes it.
SharedHold ==
    \A s \in SiteIds :
        /\ siteLock[s] # NoSession => shared[s] \subseteq {siteLock[s]}
        /\ \A w \in shared[s] : SiteSeen(w, s) # NoRow

\* The foreign key of a row just written has still to be checked.
Unchecked(w, d) ==
    /\ draftPlace[w][d] = Target(w)
    /\ \/ loop[w] = "reassign" /\ pc[w] \in {"rows", "row", "fk"}
       \/ loop[w] = "place" /\ pc[w] = "fk" /\ dev[w] = d

\* A device is placed in a site that is held, is yet to be checked, or in which
\* the device already was.
PlacesHeld ==
    \A w \in Sessions, d \in Devices :
        draftPlace[w][d] \notin {Kept, Nowhere} =>
            \/ draftPlace[w][d] \in SiteIds /\ w \in shared[draftPlace[w][d]]
            \/ Unchecked(w, d)
            \/ draftPlace[w][d] = place[d]

\* A removal has still to visit every row that is in its site.
CascadesFinish ==
    \A w \in Sessions, s \in SiteIds :
        draftSite[w][s] = NoRow =>
            /\ s = sid[w] /\ op[w] = "site_remove" /\ loop[w] = "delete"
            /\ pc[w] \in {"rows", "row", "bump", "commit"}
            /\ \A d \in Devices : PlaceSeen(w, d) = s =>
                   \/ pc[w] \in {"rows", "row"} /\ d \in todo[w]
                   \/ pc[w] = "row" /\ d = dev[w]

\* A call that has changed a site, or is about to commit, holds the version.
VersionHeld ==
    \A w \in Sessions :
        /\ \A s \in SiteIds : draftSite[w][s] # Kept => verLock = w
        /\ pc[w] = "commit" => \A d \in Devices : draftPlace[w][d] # Kept => verLock = w

IInv ==
    /\ TypeOK
    /\ IdsBounded
    /\ WritesLocked
    /\ CallsStartClean
    /\ StatementsInPlace
    /\ SharedHold
    /\ PlacesHeld
    /\ CascadesFinish
    /\ VersionHeld
    /\ ParentsAreOlder
    /\ PlacesExist

-----------------------------------------------------------------------------
(* What else holds of calls on their way, so that they act atomically *)

AddOps == {"site_addormodify", "site_devices_addormodify"}
Set2Ops == {"site_devices_addormodify", "device_site_set2"}
LoopStatements == {"rows", "row", "count", "insert", "fk"}

\* Site 1 was never unknown, and nobody locks a site that has been removed.
RemovedGone ==
    /\ Root \in Known
    /\ \A s \in removed : site[s] = NoRow /\ siteLock[s] = NoSession

\* The functions run their own statements and loops, over their own devices.
InFunction(w) ==
    /\ pc[w] \in {"idle", "parent", "lock", "name", "write"} => op[w] \in AddOps
    /\ pc[w] = "set2" => op[w] \in Set2Ops
    /\ pc[w] \in LoopStatements =>
           \/ op[w] = "site_remove" /\ loop[w] = "delete"
           \/ op[w] = "device_site_move" /\ loop[w] = "reassign"
           \/ op[w] \in Set2Ops \union {"device_site_set"} /\ loop[w] = "place"
           \/ op[w] \in Set2Ops /\ loop[w] = "reassign" /\ other[w] # 0
    /\ pc[w] \in LoopStatements /\ loop[w] = "place" =>
           /\ todo[w] \subseteq devs[w]
           /\ pc[w] # "rows" => dev[w] \in devs[w]
    /\ pc[w] = "fk" => loop[w] # "delete"
    /\ pc[w] = "touch" => op[w] \notin {"site_addormodify", "site_remove"}
    /\ pc[w] = "bump" => op[w] # "site_addormodify"

\* The version is taken by the first write, and by the last statement at the latest.
VersionTaken(w) ==
    /\ pc[w] \in {"idle", "parent", "lock", "name", "write"} => verLock # w
    /\ pc[w] = "commit" /\ op[w] \notin AddOps \union Set2Ops => verLock = w
    /\ pc[w] = "commit" /\ op[w] = "site_addormodify" /\ verLock = w =>
           draftSite[w][sid[w]] \notin {Kept, NoRow}

\* w creates site sid: it is no other session's, and w will write it or has.
Creating(w) ==
    /\ sid[w] \in SiteIds
    /\ siteLock[sid[w]] = w
    /\ pc[w] \in {"name", "write"} \/ draftSite[w][sid[w]] \notin {Kept, NoRow}

\* The site of a call is one it was given, or one that it creates.
SiteOfCall(w) ==
    /\ op[w] \notin AddOps => sid[w] \in Known
    /\ pc[w] \in {"idle", "parent"} => sid[w] = 0
    /\ sid[w] \notin Known =>
           \/ sid[w] = 0 /\ pc[w] \in {"idle", "parent", "commit"} /\ verLock # w
           \/ Creating(w)

\* device_site_set2 has found its site, and has not returned without doing anything.
InSet2(w) ==
    \/ pc[w] \in LoopStatements \union {"touch", "bump"}
    \/ pc[w] = "commit" /\ verLock = w

\* site_devices_addormodify has locked the site whose devices are replaced.
Refilling(w) ==
    /\ siteLock[sid[w]] = w
    /\ SiteSeen(w, sid[w]) # NoRow
    /\ other[w] = SiteSeen(w, sid[w]).parent

\* A call of device_site_set2 by itself has not, and the site may be removed after
\* it has been looked up; while it is there its parent is the one that was read.
ParentRead(w) == site[sid[w]] = NoRow \/ other[w] = site[sid[w]].parent

\* The devices that are replaced go to the parent of the site.
RefillSound(w) ==
    /\ op[w] = "site_devices_addormodify" =>
           /\ pc[w] = "set2" => siteLock[sid[w]] = w \/ (sid[w] \in removed /\ verLock # w)
           /\ InSet2(w) => Refilling(w)
    /\ op[w] = "device_site_set2" /\ InSet2(w) => ParentRead(w)
    /\ op[w] \in Set2Ops /\ pc[w] \in LoopStatements /\ loop[w] = "reassign" =>
           \A d \in Devices : draftPlace[w][d] \in {Kept, other[w]}

\* A row of site that is written is as the call wants it, and what clients see
\* of the other rows leaves room for its name.
SitesAsAsked(w) ==
    /\ \A s \in SiteIds : draftSite[w][s] \notin {Kept, NoRow} =>
           /\ s = sid[w]
           /\ op[w] \in AddOps
           /\ draftSite[w][s].name = nam[w]
           /\ \A t \in SiteIds \ {s} : site[t] # NoRow => site[t].name # nam[w]
           /\ site[s] # NoRow => draftSite[w][s].parent = site[s].parent
    /\ \A s \in SiteIds : draftSite[w][s] = NoRow => site[s] # NoRow
    /\ op[w] = "site_remove" /\ pc[w] \in {"rows", "row", "bump", "commit"} =>
           draftSite[w][sid[w]] = NoRow \/ sid[w] \in removed

\* A device's row that is written is where the call wants it, and came from there.
PlacesAsAsked(w) ==
    \A d \in Devices : draftPlace[w][d] # Kept =>
        \/ op[w] = "site_remove" /\ draftPlace[w][d] = Nowhere /\ place[d] = sid[w]
        \/ op[w] = "device_site_move" /\ draftPlace[w][d] = sid[w] /\ place[d] = other[w]
        \/ /\ op[w] \in Set2Ops \union {"device_site_set"}
           /\ draftPlace[w][d] = sid[w]
           /\ d \in devs[w]
        \/ /\ op[w] \in Set2Ops
           /\ draftPlace[w][d] = other[w]
           /\ other[w] # 0
           /\ place[d] = sid[w]

CallSound(w) ==
    /\ InFunction(w)
    /\ VersionTaken(w)
    /\ SiteOfCall(w)
    /\ RefillSound(w)
    /\ SitesAsAsked(w)
    /\ PlacesAsAsked(w)

CallInv == RemovedGone /\ \A w \in Sessions : CallSound(w)

==============================================================================
