----------------------------- MODULE SitesProofs -----------------------------
(***************************************************************************)
(* Proofs about Sites, for every number of sessions, devices, names, sites *)
(* and calls.  A step is made by one session w.  OthersKept, TablesKept    *)
(* and CommitMoves say what it may change: nothing of another session, and *)
(* of the tables only what w has drafted and commits.  With them each part *)
(* of the inductive invariant IInv is proved for w by its actions and for  *)
(* the other sessions at once.                                             *)
(***************************************************************************)
EXTENDS Sites, TLAPS

USE NamesAssumption, MarkersAssumption

\* A step of session w.
Step(w) == NewCall(w) \/ Statement(w) \/ DeadlockVictim(w) \/ Abort(w)

\* Init establishes the inductive invariant.
LEMMA InitInv == Init => IInv
<1> SUFFICES ASSUME Init PROVE IInv
    OBVIOUS
<1>1. TypeOK
    BY DEF Init, TypeOK, Ops, SiteRow, SiteIds, Root, Nowhere, Statements
<1>2. IdsBounded /\ WritesLocked /\ CallsStartClean /\ StatementsInPlace
    BY DEF Init, IdsBounded, WritesLocked, CallsStartClean, StatementsInPlace, Known, SiteIds, Root
<1>3. SharedHold /\ PlacesHeld /\ CascadesFinish
    BY DEF Init, SharedHold, PlacesHeld, CascadesFinish, SiteIds
<1>4. ParentsAreOlder /\ PlacesExist /\ VersionHeld
    BY DEF Init, ParentsAreOlder, PlacesExist, VersionHeld, SiteIds, Root, Nowhere
<1> QED
    BY <1>1, <1>2, <1>3, <1>4 DEF IInv

-----------------------------------------------------------------------------
(* Types *)

\* An update of a function by a value of its range has its type, at any argument.
LEMMA Updated ==
    ASSUME NEW A, NEW B, NEW f \in [A -> B], NEW a, NEW b \in B
    PROVE  [f EXCEPT ![a] = b] \in [A -> B]
OBVIOUS

LEMMA UpdatedTwice ==
    ASSUME NEW A, NEW B, NEW C, NEW f \in [A -> [B -> C]], NEW a, NEW b, NEW c \in C
    PROVE  [f EXCEPT ![a][b] = c] \in [A -> [B -> C]]
OBVIOUS

\* A row written to a draft keeps its type.
LEMMA DraftTypes ==
    ASSUME TypeOK, NEW w, NEW x
    PROVE  /\ \A row \in SiteRow \union {NoRow} :
                  [draftSite EXCEPT ![w][x] = row]
                      \in [Sessions -> [SiteIds -> SiteRow \union {NoRow, Kept}]]
           /\ \A s \in 0 .. MaxSite :
                  [draftPlace EXCEPT ![w][x] = s]
                      \in [Sessions -> [Devices -> (0 .. MaxSite) \union {Kept}]]
<1>1. /\ draftSite \in [Sessions -> [SiteIds -> SiteRow \union {NoRow, Kept}]]
      /\ draftPlace \in [Sessions -> [Devices -> (0 .. MaxSite) \union {Kept}]]
    BY DEF TypeOK
<1>2. ASSUME NEW row \in SiteRow \union {NoRow}
      PROVE  [draftSite EXCEPT ![w][x] = row]
                 \in [Sessions -> [SiteIds -> SiteRow \union {NoRow, Kept}]]
    <2>1. row \in SiteRow \union {NoRow, Kept}
        OBVIOUS
    <2> QED
        BY <1>1, <2>1, UpdatedTwice
<1>3. ASSUME NEW s \in 0 .. MaxSite
      PROVE  [draftPlace EXCEPT ![w][x] = s]
                 \in [Sessions -> [Devices -> (0 .. MaxSite) \union {Kept}]]
    <2>1. s \in (0 .. MaxSite) \union {Kept}
        OBVIOUS
    <2> QED
        BY <1>1, <2>1, UpdatedTwice
<1> QED
    BY <1>2, <1>3

\* Going on to another statement keeps the type of pc.
LEMMA GoToTypes ==
    ASSUME TypeOK, NEW w \in Sessions
    PROVE  \A x \in {"idle", "parent", "lock", "name", "write", "unlink", "delete", "set2", "rows",
                   "row", "count", "insert", "fk", "touch", "bump", "commit"} :
               GoTo(w, x) => pc' \in [Sessions -> Statements]
BY DEF TypeOK, GoTo, Statements

\* Making a call keeps the types of everything but the loop of the caller.
LEMMA CallTypes ==
    ASSUME TypeOK, NEW w \in Sessions, NEW f \in Ops, NEW s \in 0 .. MaxSite,
           NEW t \in 0 .. MaxSite, NEW n \in Names, NEW ds \in SUBSET Devices,
           Call(w, f, s, t, n, ds),
           loop' \in [Sessions -> {"delete", "reassign", "place"}],
           todo' \in [Sessions -> SUBSET Devices], dev' = dev,
           NEW statement \in {"parent", "lock", "unlink", "set2", "rows"}, GoTo(w, statement)
    PROVE  TypeOK'
<1> USE DEF TypeOK, Call
<1>1. pc' \in [Sessions -> Statements]
    BY GoToTypes
<1>2. /\ op' \in [Sessions -> Ops]
      /\ sid' \in [Sessions -> 0 .. MaxSite]
      /\ other' \in [Sessions -> 0 .. MaxSite]
      /\ nam' \in [Sessions -> Names]
      /\ devs' \in [Sessions -> SUBSET Devices]
    BY Updated
<1>3. calls' \in Nat
    OBVIOUS
<1> QED
    BY <1>1, <1>2, <1>3 DEF tables, drafts, locks

\* The types are kept by a new call.
LEMMA NewCallTypes ==
    ASSUME TypeOK, NEW w \in Sessions, NewCall(w)
    PROVE  TypeOK'
<1> USE DEF Ops
<1>0. Known \subseteq 0 .. MaxSite /\ Known \union {0} \subseteq 0 .. MaxSite
    BY DEF Known, SiteIds, TypeOK
<1>1. ASSUME NEW f \in {"site_addormodify", "site_devices_addormodify"},
             NEW s \in Known \union {0}, NEW p, NEW n \in Names,
             NEW ds \in SUBSET Devices, AddOrModify(w, f, s, p, n, ds)
      PROVE  TypeOK'
    <2>1. /\ loop' \in [Sessions -> {"delete", "reassign", "place"}]
          /\ todo' \in [Sessions -> SUBSET Devices]
          /\ dev' = dev
        BY <1>1 DEF AddOrModify, rows, TypeOK
    <2>2. s \in 0 .. MaxSite /\ f \in Ops
        BY <1>0
    <2>3. CASE Exists(w, s)
        <3>1. Call(w, f, s, 0, n, ds) /\ GoTo(w, "lock") /\ 0 \in 0 .. MaxSite
            BY <1>1, <2>3, NamesAssumption DEF AddOrModify
        <3> QED
            BY <2>1, <2>2, <3>1, CallTypes
    <2>4. CASE ~Exists(w, s)
        <3>1. Call(w, f, 0, p, n, ds) /\ GoTo(w, "parent")
            BY <1>1, <2>4 DEF AddOrModify
        <3>2. 0 \in 0 .. MaxSite /\ p \in 0 .. MaxSite
            BY <1>1, NamesAssumption DEF AddOrModify, SiteIds
        <3> QED
            BY <2>1, <2>2, <3>1, <3>2, CallTypes
    <2> QED
        BY <2>3, <2>4
<1>2. ASSUME NEW s \in Known, SiteRemove(w, s) PROVE TypeOK'
    <2>1. nam[w] \in Names /\ s \in 0 .. MaxSite
        BY <1>0 DEF TypeOK
    <2>2. /\ loop' \in [Sessions -> {"delete", "reassign", "place"}]
          /\ todo' \in [Sessions -> SUBSET Devices]
          /\ dev' = dev
        BY <1>2 DEF SiteRemove, rows, TypeOK
    <2> QED
        BY <1>2, <2>1, <2>2, CallTypes DEF SiteRemove
<1>3. ASSUME NEW s \in Known, NEW t \in Known, DeviceSiteMove(w, s, t) PROVE TypeOK'
    <2>1. nam[w] \in Names /\ s \in 0 .. MaxSite /\ t \in 0 .. MaxSite
        BY <1>0 DEF TypeOK
    <2>2. /\ loop' \in [Sessions -> {"delete", "reassign", "place"}]
          /\ todo' \in [Sessions -> SUBSET Devices]
          /\ dev' = dev
        BY <1>3 DEF DeviceSiteMove, TypeOK
    <2> QED
        BY <1>3, <2>1, <2>2, CallTypes DEF DeviceSiteMove
<1>4. ASSUME NEW s \in Known, NEW d \in Devices, DeviceSiteSet(w, s, d) PROVE TypeOK'
    <2>1. nam[w] \in Names /\ s \in 0 .. MaxSite
        BY <1>0 DEF TypeOK
    <2>2. /\ loop' \in [Sessions -> {"delete", "reassign", "place"}]
          /\ todo' \in [Sessions -> SUBSET Devices]
          /\ dev' = dev
        BY <1>4 DEF DeviceSiteSet, TypeOK
    <2> QED
        BY <1>4, <2>1, <2>2, CallTypes DEF DeviceSiteSet
<1>5. ASSUME NEW s \in Known, NEW ds \in SUBSET Devices, CallSet2(w, s, ds) PROVE TypeOK'
    <2>1. nam[w] \in Names /\ s \in 0 .. MaxSite
        BY <1>0 DEF TypeOK
    <2>2. /\ loop' \in [Sessions -> {"delete", "reassign", "place"}]
          /\ todo' \in [Sessions -> SUBSET Devices]
          /\ dev' = dev
        BY <1>5 DEF CallSet2, rows, TypeOK
    <2> QED
        BY <1>5, <2>1, <2>2, CallTypes DEF CallSet2
<1> QED
    BY <1>1, <1>2, <1>3, <1>4, <1>5 DEF NewCall

\* The types are kept when a transaction ends.
LEMMA ReleaseTypes ==
    ASSUME TypeOK, NEW w \in Sessions, Release(w),
           site' \in [SiteIds -> SiteRow \union {NoRow}],
           place' \in [Devices -> 0 .. MaxSite], modifytime' \in Nat,
           removed' \in SUBSET SiteIds, lost' \in [Sessions -> SUBSET Devices]
    PROVE  TypeOK'
<1> USE DEF TypeOK, Release
<1>1. pc' \in [Sessions -> Statements] /\ op' \in [Sessions -> Ops]
    BY GoToTypes DEF Ops
<1>2. /\ sid' \in [Sessions -> 0 .. MaxSite]
      /\ other' \in [Sessions -> 0 .. MaxSite]
      /\ nam' \in [Sessions -> Names]
      /\ devs' \in [Sessions -> SUBSET Devices]
    OBVIOUS
<1>3. /\ loop' \in [Sessions -> {"delete", "reassign", "place"}]
      /\ todo' \in [Sessions -> SUBSET Devices]
      /\ dev' \in [Sessions -> Devices \union {NoDevice}]
    OBVIOUS
<1>4. /\ draftSite' \in [Sessions -> [SiteIds -> SiteRow \union {NoRow, Kept}]]
      /\ draftPlace' \in [Sessions -> [Devices -> (0 .. MaxSite) \union {Kept}]]
    OBVIOUS
<1>5. /\ siteLock' \in [SiteIds -> Sessions \union {NoSession}]
      /\ shared' \in [SiteIds -> SUBSET Sessions]
      /\ devLock' \in [Devices -> Sessions \union {NoSession}]
      /\ verLock' \in Sessions \union {NoSession}
    OBVIOUS
<1> QED
    BY <1>1, <1>2, <1>3, <1>4, <1>5

LEMMA RollBackTypes ==
    ASSUME TypeOK, NEW w \in Sessions, RollBack(w)
    PROVE  TypeOK'
<1>1. /\ site' \in [SiteIds -> SiteRow \union {NoRow}]
      /\ place' \in [Devices -> 0 .. MaxSite]
      /\ modifytime' \in Nat
      /\ removed' \in SUBSET SiteIds
      /\ lost' \in [Sessions -> SUBSET Devices]
    BY DEF TypeOK, RollBack, tables
<1> QED
    BY <1>1, ReleaseTypes DEF RollBack

LEMMA CommitTypes ==
    ASSUME TypeOK, NEW w \in Sessions, Commit(w)
    PROVE  TypeOK'
<1>1. \A s \in SiteIds : SiteSeen(w, s) \in SiteRow \union {NoRow}
    BY DEF TypeOK, SiteSeen
<1>2. \A d \in Devices : PlaceSeen(w, d) \in 0 .. MaxSite
    BY DEF TypeOK, PlaceSeen
<1>3. /\ site' \in [SiteIds -> SiteRow \union {NoRow}]
      /\ place' \in [Devices -> 0 .. MaxSite]
    BY <1>1, <1>2 DEF Commit
<1>4. modifytime' \in Nat /\ removed' \in SUBSET SiteIds
    BY DEF TypeOK, Commit
<1>5. lost' \in [Sessions -> SUBSET Devices]
    BY DEF TypeOK, Commit
<1> QED
    BY <1>3, <1>4, <1>5, ReleaseTypes DEF Commit

\* The types are kept by the statements on sites.
LEMMA SiteStatementTypes ==
    ASSUME TypeOK, NEW w \in Sessions,
           \/ CheckParent(w) \/ LockSite(w) \/ CheckName(w) \/ WriteSite(w)
           \/ Unlink(w) \/ DeleteSite(w) \/ TouchSite(w) \/ Bump(w)
    PROVE  TypeOK'
<1> USE DEF TypeOK, tables, args, rows, drafts, locks
<1>0. AfterWrite(w) \in {"set2", "commit"}
    BY DEF AfterWrite
<1>1. CASE CheckParent(w)
    <2>1. /\ nextid' \in Nat
          /\ sid' \in [Sessions -> 0 .. MaxSite]
        <3>1. CASE UNCHANGED <<nextid, sid>>
            BY <3>1
        <3>2. CASE /\ nextid <= MaxSite
                   /\ nextid' = nextid + 1
                   /\ sid' = [sid EXCEPT ![w] = nextid]
            <4>1. nextid \in 0 .. MaxSite
                BY <3>2
            <4> QED
                BY <3>2, <4>1, Updated
        <3> QED
            BY <1>1, <3>1, <3>2 DEF CheckParent
    <2>2. siteLock' \in [SiteIds -> Sessions \union {NoSession}]
        BY <1>1 DEF CheckParent
    <2>3. \E x \in {"name", "commit"} : GoTo(w, x)
        BY <1>1 DEF CheckParent
    <2> QED
        BY <1>1, <2>1, <2>2, <2>3, GoToTypes DEF CheckParent
<1>2. CASE LockSite(w)
    <2>1. siteLock' \in [SiteIds -> Sessions \union {NoSession}]
        BY <1>2 DEF LockSite
    <2>2. \E x \in {"set2", "commit", "name"} : GoTo(w, x)
        BY <1>0, <1>2 DEF LockSite
    <2> QED
        BY <1>2, <2>1, <2>2, GoToTypes DEF LockSite
<1>3. CASE CheckName(w)
    BY <1>3, GoToTypes DEF CheckName
<1>4. CASE WriteSite(w)
    <2> DEFINE p == IF Exists(w, sid[w]) THEN SiteSeen(w, sid[w]).parent ELSE other[w]
    <2>1. p \in 0 .. MaxSite
        BY DEF Exists, SiteSeen, SiteRow
    <2>2. [name |-> nam[w], parent |-> p] \in SiteRow
        BY <2>1 DEF SiteRow
    <2>3. draftSite' = [draftSite EXCEPT ![w][sid[w]] = [name |-> nam[w], parent |-> p]]
        BY <1>4 DEF WriteSite
    <2> HIDE DEF p
    <2>4. draftSite' \in [Sessions -> [SiteIds -> SiteRow \union {NoRow, Kept}]]
        BY <2>2, <2>3
    <2> QED
        BY <1>0, <1>4, <2>4, GoToTypes DEF WriteSite
<1>5. CASE Unlink(w)
    BY <1>5, GoToTypes DEF Unlink
<1>6. CASE DeleteSite(w)
    <2>1. Cascaded(w) \in SUBSET Devices
        BY DEF Cascaded
    <2>2. /\ siteLock' \in [SiteIds -> Sessions \union {NoSession}]
          /\ verLock' \in Sessions \union {NoSession}
        <3>1. /\ siteLock' = siteLock \/ siteLock' = [siteLock EXCEPT ![sid[w]] = w]
              /\ verLock' \in {verLock, w}
            BY <1>6 DEF DeleteSite
        <3> QED
            BY <3>1, Updated
    <2>3. draftSite' \in [Sessions -> [SiteIds -> SiteRow \union {NoRow, Kept}]]
        <3>1. draftSite' = draftSite \/ draftSite' = [draftSite EXCEPT ![w][sid[w]] = NoRow]
            BY <1>6 DEF DeleteSite
        <3>2. [draftSite EXCEPT ![w][sid[w]] = NoRow]
                  \in [Sessions -> [SiteIds -> SiteRow \union {NoRow, Kept}]]
            BY DraftTypes
        <3> QED
            BY <3>1, <3>2
    <2>4. /\ loop' \in [Sessions -> {"delete", "reassign", "place"}]
          /\ todo' \in [Sessions -> SUBSET Devices]
          /\ dev' = dev
        <3>1. \/ loop' = loop /\ todo' = todo /\ dev' = dev
              \/ /\ loop' = [loop EXCEPT ![w] = "delete"]
                 /\ todo' = [todo EXCEPT ![w] = Cascaded(w)]
                 /\ dev' = dev
            BY <1>6 DEF DeleteSite
        <3>2. /\ [loop EXCEPT ![w] = "delete"] \in [Sessions -> {"delete", "reassign", "place"}]
              /\ [todo EXCEPT ![w] = Cascaded(w)] \in [Sessions -> SUBSET Devices]
            BY <2>1, Updated
        <3> QED
            BY <3>1, <3>2
    <2>5. \E x \in {"bump", "rows"} : GoTo(w, x)
        BY <1>6 DEF DeleteSite
    <2> QED
        BY <1>6, <2>2, <2>3, <2>4, <2>5, GoToTypes DEF DeleteSite
<1>7. CASE TouchSite(w)
    BY <1>7, GoToTypes DEF TouchSite
<1>8. CASE Bump(w)
    BY <1>8, GoToTypes DEF Bump
<1> QED
    BY <1>1, <1>2, <1>3, <1>4, <1>5, <1>6, <1>7, <1>8

\* The types are kept by the statements on the places of devices.
LEMMA PlaceStatementTypes ==
    ASSUME TypeOK, NEW w \in Sessions,
           \/ DeviceSiteSet2(w) \/ NextRow(w) \/ RowsDone(w) \/ LockRow(w)
           \/ CountRows(w) \/ InsertRow(w) \/ ForeignKey(w)
    PROVE  TypeOK'
<1> USE DEF TypeOK, tables, args, rows, drafts, locks
<1>1. CASE DeviceSiteSet2(w)
    <2>1. CASE Exists(w, sid[w])
        <3> DEFINE p == SiteSeen(w, sid[w]).parent
        <3>1. p \in 0 .. MaxSite
            BY <2>1 DEF Exists, SiteSeen, SiteRow
        <3> HIDE DEF p
        <3>2. other' = [other EXCEPT ![w] = p]
            BY <1>1, <2>1 DEF DeviceSiteSet2, p
        <3>3. /\ loop' \in [Sessions -> {"delete", "reassign", "place"}]
              /\ todo' \in [Sessions -> SUBSET Devices]
            <4>1. /\ loop' = [loop EXCEPT ![w] = IF p > 0 THEN "reassign" ELSE "place"]
                  /\ todo' = [todo EXCEPT ![w] = IF p > 0
                                                 THEN {d \in Devices : PlaceSeen(w, d) = sid[w]}
                                                 ELSE devs[w]]
                BY <1>1, <2>1 DEF DeviceSiteSet2, p
            <4> QED
                BY <4>1, Updated
        <3>4. GoTo(w, "rows")
            BY <1>1, <2>1 DEF DeviceSiteSet2
        <3> QED
            BY <1>1, <3>1, <3>2, <3>3, <3>4, GoToTypes DEF DeviceSiteSet2
    <2>2. CASE ~Exists(w, sid[w])
        BY <1>1, <2>2, GoToTypes DEF DeviceSiteSet2
    <2> QED
        BY <2>1, <2>2
<1>2. CASE NextRow(w)
    BY <1>2, GoToTypes DEF NextRow
<1>3. CASE RowsDone(w)
    BY <1>3, GoToTypes DEF RowsDone
<1>4. CASE LockRow(w)
    <2>1. Target(w) \in 0 .. MaxSite
        BY DEF Target
    <2>2. draftPlace' \in [Sessions -> [Devices -> (0 .. MaxSite) \union {Kept}]]
        <3> DEFINE new == IF loop[w] = "delete" THEN Nowhere ELSE Target(w)
        <3>1. new \in 0 .. MaxSite
            BY <2>1 DEF Nowhere
        <3>2. draftPlace' = [draftPlace EXCEPT ![w][dev[w]] = new] \/ draftPlace' = draftPlace
            BY <1>4 DEF LockRow
        <3> HIDE DEF new
        <3>3. [draftPlace EXCEPT ![w][dev[w]] = new]
                  \in [Sessions -> [Devices -> (0 .. MaxSite) \union {Kept}]]
            BY <3>1, DraftTypes
        <3> QED
            BY <3>2, <3>3
    <2>3. \E x \in {"fk", "rows"} : GoTo(w, x)
        BY <1>4 DEF LockRow
    <2>4. devLock' \in [Devices -> Sessions \union {NoSession}]
        BY <1>4 DEF LockRow
    <2> QED
        BY <1>4, <2>2, <2>3, <2>4, GoToTypes DEF LockRow
<1>5. CASE CountRows(w)
    BY <1>5, GoToTypes DEF CountRows
<1>6. CASE InsertRow(w)
    BY <1>6, GoToTypes DEF InsertRow
<1>7. CASE ForeignKey(w)
    <2>1. AfterCheck(w)
        BY <1>7 DEF ForeignKey
    <2>2. /\ loop' \in [Sessions -> {"delete", "reassign", "place"}]
          /\ todo' \in [Sessions -> SUBSET Devices]
          /\ dev' = dev
        <3>1. \/ loop' = loop /\ todo' = todo /\ dev' = dev
              \/ /\ loop' = [loop EXCEPT ![w] = "place"]
                 /\ todo' = [todo EXCEPT ![w] = devs[w]]
                 /\ dev' = dev
            BY <2>1 DEF AfterCheck
        <3>2. /\ [loop EXCEPT ![w] = "place"] \in [Sessions -> {"delete", "reassign", "place"}]
              /\ [todo EXCEPT ![w] = devs[w]] \in [Sessions -> SUBSET Devices]
            BY Updated
        <3> QED
            BY <3>1, <3>2
    <2>3. \E x \in {"rows", "touch"} : GoTo(w, x)
        BY <2>1 DEF AfterCheck
    <2>4. shared' \in [SiteIds -> SUBSET Sessions]
        <3> DEFINE new == [s \in SiteIds |-> IF s = Target(w) THEN shared[s] \union {w} ELSE shared[s]]
        <3>1. new \in [SiteIds -> SUBSET Sessions]
            OBVIOUS
        <3>2. shared' = new \/ shared' = shared
            BY <1>7 DEF ForeignKey
        <3> QED
            BY <3>1, <3>2
    <2> QED
        BY <1>7, <2>2, <2>3, <2>4, GoToTypes DEF ForeignKey
<1> QED
    BY <1>1, <1>2, <1>3, <1>4, <1>5, <1>6, <1>7

\* The types are kept by every step.
LEMMA StepTypes ==
    ASSUME TypeOK, NEW w \in Sessions, Step(w)
    PROVE  TypeOK'
BY NewCallTypes, RollBackTypes, CommitTypes, SiteStatementTypes, PlaceStatementTypes
   DEF Step, Statement, NameExists, NotUnique, RowIsThere, NoSuchSite, DeadlockVictim, Abort

-----------------------------------------------------------------------------
(* What a step changes *)

\* Nothing of session v changes, nor does what v has locked.
Untouched(v) ==
    /\ pc'[v] = pc[v] /\ op'[v] = op[v] /\ sid'[v] = sid[v] /\ other'[v] = other[v]
    /\ loop'[v] = loop[v] /\ todo'[v] = todo[v] /\ dev'[v] = dev[v]
    /\ draftSite'[v] = draftSite[v] /\ draftPlace'[v] = draftPlace[v]
    /\ \A s \in SiteIds : /\ siteLock'[s] = v <=> siteLock[s] = v
                          /\ v \in shared'[s] <=> v \in shared[s]
    /\ \A d \in Devices : devLock'[d] = v <=> devLock[d] = v

\* A call, and the end of one, leave the other sessions alone.
LEMMA OthersKeptByCalls ==
    ASSUME TypeOK, NEW w \in Sessions, NEW v \in Sessions \ {w},
           NewCall(w) \/ RollBack(w) \/ Commit(w)
    PROVE  Untouched(v)
<1> USE DEF TypeOK
<1>1. CASE NewCall(w)
    BY <1>1 DEF Untouched, NewCall, AddOrModify, SiteRemove, DeviceSiteMove, DeviceSiteSet, CallSet2, Call,
                GoTo, rows, drafts, locks
<1>2. CASE Release(w)
    BY <1>2 DEF Untouched, Release, GoTo
<1> QED
    BY <1>1, <1>2 DEF RollBack, Commit

\* So do the statements on sites: a lock that is taken was free.
LEMMA OthersKeptBySiteStatements ==
    ASSUME TypeOK, IdsBounded, NEW w \in Sessions, NEW v \in Sessions \ {w},
           \/ CheckParent(w) \/ LockSite(w) \/ CheckName(w) \/ WriteSite(w)
           \/ Unlink(w) \/ DeleteSite(w) \/ TouchSite(w) \/ Bump(w)
    PROVE  Untouched(v)
<1> USE DEF TypeOK, Untouched, GoTo, args, rows, drafts, locks
<1>1. CASE CheckParent(w)
    <2>1. nextid \in SiteIds => siteLock[nextid] = NoSession
        BY DEF IdsBounded
    <2> QED
        BY <1>1, <2>1 DEF CheckParent
<1>2. CASE LockSite(w)
    BY <1>2 DEF LockSite, SiteFree
<1>3. CASE CheckName(w)
    BY <1>3 DEF CheckName
<1>4. CASE WriteSite(w)
    BY <1>4 DEF WriteSite
<1>5. CASE Unlink(w)
    BY <1>5 DEF Unlink
<1>6. CASE DeleteSite(w)
    BY <1>6 DEF DeleteSite, SiteFree
<1>7. CASE TouchSite(w)
    BY <1>7 DEF TouchSite, SiteFree
<1>8. CASE Bump(w)
    BY <1>8 DEF Bump
<1> QED
    BY <1>1, <1>2, <1>3, <1>4, <1>5, <1>6, <1>7, <1>8

\* And the statements on the places of devices.
LEMMA OthersKeptByPlaceStatements ==
    ASSUME TypeOK, NEW w \in Sessions, NEW v \in Sessions \ {w},
           \/ DeviceSiteSet2(w) \/ NextRow(w) \/ RowsDone(w) \/ LockRow(w)
           \/ CountRows(w) \/ InsertRow(w) \/ ForeignKey(w)
    PROVE  Untouched(v)
<1> USE DEF TypeOK, Untouched, GoTo, args, rows, drafts, locks
<1>1. CASE DeviceSiteSet2(w)
    BY <1>1 DEF DeviceSiteSet2
<1>2. CASE NextRow(w)
    BY <1>2 DEF NextRow
<1>3. CASE RowsDone(w)
    BY <1>3 DEF RowsDone
<1>4. CASE LockRow(w)
    BY <1>4 DEF LockRow, DeviceFree
<1>5. CASE CountRows(w)
    BY <1>5 DEF CountRows
<1>6. CASE InsertRow(w)
    BY <1>6 DEF InsertRow, DeviceFree
<1>7. CASE ForeignKey(w)
    <2>1. /\ pc'[v] = pc[v] /\ loop'[v] = loop[v] /\ todo'[v] = todo[v] /\ dev'[v] = dev[v]
        <3>1. AfterCheck(w)
            BY <1>7 DEF ForeignKey
        <3> QED
            BY <3>1 DEF AfterCheck
    <2>2. \A s \in SiteIds : v \in shared'[s] <=> v \in shared[s]
        <3>1. \/ shared' = shared
              \/ shared' = [s \in SiteIds |-> IF s = Target(w) THEN shared[s] \union {w}
                                                             ELSE shared[s]]
            BY <1>7 DEF ForeignKey
        <3>2. \A s \in SiteIds : shared'[s] = shared[s] \/ shared'[s] = shared[s] \union {w}
            BY <3>1, Zenon
        <3> QED
            BY <3>2
    <2> QED
        BY <1>7, <2>1, <2>2 DEF ForeignKey
<1> QED
    BY <1>1, <1>2, <1>3, <1>4, <1>5, <1>6, <1>7

\* A step of w leaves the other sessions alone.
LEMMA OthersKept ==
    ASSUME TypeOK, IdsBounded, NEW w \in Sessions, Step(w)
    PROVE  \A v \in Sessions \ {w} : Untouched(v)
BY OthersKeptByCalls, OthersKeptBySiteStatements, OthersKeptByPlaceStatements
   DEF Step, Statement, NameExists, NotUnique, RowIsThere, NoSuchSite, DeadlockVictim, Abort

\* The tables change by the commits only.
LEMMA TablesKept ==
    ASSUME NEW w \in Sessions, Step(w), ~Commit(w)
    PROVE  UNCHANGED tables
<1>1. NewCall(w) => UNCHANGED tables
    BY DEF NewCall, AddOrModify, SiteRemove, DeviceSiteMove, DeviceSiteSet, CallSet2, Call
<1>2. RollBack(w) => UNCHANGED tables
    BY DEF RollBack
<1>3. Statement(w) /\ ~RollBack(w) => UNCHANGED tables
    BY DEF Statement, CheckParent, LockSite, CheckName, NameExists, WriteSite, NotUnique, Unlink,
           DeleteSite, DeviceSiteSet2, NextRow, RowsDone, LockRow, CountRows, InsertRow, RowIsThere,
           ForeignKey, NoSuchSite, TouchSite, Bump
<1> QED
    BY <1>1, <1>2, <1>3 DEF Step, DeadlockVictim, Abort

\* A commit writes the drafts of w, of rows that w has locked, and what clients
\* know of sites stays known.
LEMMA CommitMoves ==
    ASSUME IInv, NEW w \in Sessions, Commit(w)
    PROVE  /\ \A s \in SiteIds : site'[s] = SiteSeen(w, s)
           /\ \A d \in Devices : place'[d] = PlaceSeen(w, d)
           /\ \A s \in SiteIds : draftSite[w][s] # Kept => siteLock[s] = w
           /\ \A d \in Devices : draftPlace[w][d] # Kept => devLock[d] = w
           /\ Known \subseteq Known'
<1>1. /\ \A s \in SiteIds : site'[s] = SiteSeen(w, s)
      /\ \A d \in Devices : place'[d] = PlaceSeen(w, d)
      /\ removed' = removed \union {s \in SiteIds : draftSite[w][s] = NoRow}
    BY DEF Commit, IInv, TypeOK
<1>2. /\ \A s \in SiteIds : draftSite[w][s] # Kept => siteLock[s] = w
      /\ \A d \in Devices : draftPlace[w][d] # Kept => devLock[d] = w
    BY DEF IInv, WritesLocked
<1>3. Known \subseteq Known'
    BY <1>1 DEF Known, SiteSeen
<1> QED
    BY <1>1, <1>2, <1>3

\* A session whose transaction has ended has no draft and no lock.
LEMMA Released ==
    ASSUME TypeOK, NEW w \in Sessions, Release(w)
    PROVE  /\ pc'[w] = "idle"
           /\ \A s \in SiteIds : draftSite'[w][s] = Kept /\ siteLock'[s] # w /\ w \notin shared'[s]
           /\ \A d \in Devices : draftPlace'[w][d] = Kept
BY DEF TypeOK, Release, GoTo

-----------------------------------------------------------------------------
(* Control flow *)

LEMMA StatementsInPlaceStep ==
    ASSUME IInv, NEW w \in Sessions, Step(w)
    PROVE  StatementsInPlace'
<1> USE DEF IInv, TypeOK
<1>1. \A v \in Sessions \ {w} : Untouched(v)
    BY OthersKept
<1>2. /\ pc'[w] \in {"unlink", "delete"} => op'[w] = "site_remove"
      /\ pc'[w] \in {"count", "insert"} => loop'[w] = "place"
    <2> USE DEF StatementsInPlace, GoTo
    <2>1. CASE NewCall(w)
        BY <2>1 DEF NewCall, AddOrModify, SiteRemove, DeviceSiteMove, DeviceSiteSet, CallSet2, Call
    <2>2. CASE Release(w)
        BY <2>2, Released
    <2>3. CASE CheckParent(w) \/ LockSite(w) \/ WriteSite(w) \/ CheckName(w)
        BY <2>3 DEF CheckParent, LockSite, WriteSite, CheckName, AfterWrite
    <2>4. CASE Unlink(w) \/ DeleteSite(w) \/ TouchSite(w) \/ Bump(w)
        BY <2>4 DEF Unlink, DeleteSite, TouchSite, Bump, args
    <2>5. CASE DeviceSiteSet2(w) \/ NextRow(w) \/ RowsDone(w) \/ LockRow(w)
        BY <2>5 DEF DeviceSiteSet2, NextRow, RowsDone, LockRow
    <2>6. CASE CountRows(w) \/ InsertRow(w) \/ ForeignKey(w)
        BY <2>6 DEF CountRows, InsertRow, ForeignKey, AfterCheck, rows
    <2> QED
        BY <2>1, <2>2, <2>3, <2>4, <2>5, <2>6
           DEF Step, Statement, NameExists, NotUnique, RowIsThere, NoSuchSite, DeadlockVictim, Abort,
               RollBack, Commit
<1> HIDE DEF IInv, TypeOK
<1>3. \A v \in Sessions \ {w} : pc'[v] = pc[v] /\ op'[v] = op[v] /\ loop'[v] = loop[v]
    BY <1>1 DEF Untouched
<1>4. StatementsInPlace
    BY DEF IInv
<1> QED
    BY <1>2, <1>3, <1>4 DEF StatementsInPlace

LEMMA CallsStartCleanStep ==
    ASSUME IInv, NEW w \in Sessions, Step(w)
    PROVE  CallsStartClean'
<1> USE DEF IInv, TypeOK
<1>1. \A v \in Sessions \ {w} : Untouched(v)
    BY OthersKept
<1>2. /\ pc'[w] \in {"idle", "parent", "lock", "name", "write", "unlink", "delete"} =>
             \A s \in SiteIds : draftSite'[w][s] = Kept
      /\ pc'[w] \in {"idle", "parent", "lock", "name", "write", "unlink", "delete", "set2"} =>
             /\ \A d \in Devices : draftPlace'[w][d] = Kept
             /\ \A s \in SiteIds : w \notin shared'[s]
    <2> USE DEF CallsStartClean, GoTo
    <2>1. CASE NewCall(w)
        <3>1. pc[w] = "idle" /\ UNCHANGED <<draftSite, draftPlace, shared>>
            BY <2>1 DEF NewCall, AddOrModify, SiteRemove, DeviceSiteMove, DeviceSiteSet, CallSet2, Call,
                        drafts, locks
        <3> QED
            BY <3>1
    <2>2. CASE Release(w)
        BY <2>2, Released
    <2>3. CASE CheckParent(w) \/ LockSite(w) \/ CheckName(w) \/ Unlink(w)
        <3>1. /\ pc[w] \in {"parent", "lock", "name", "unlink"}
              /\ UNCHANGED <<draftSite, draftPlace, shared>>
            BY <2>3 DEF CheckParent, LockSite, CheckName, Unlink, drafts, locks
        <3> QED
            BY <3>1
    <2>4. CASE WriteSite(w)
        <3>1. /\ pc[w] = "write" /\ pc'[w] \in {"set2", "commit"}
              /\ UNCHANGED <<draftPlace, shared>>
            BY <2>4 DEF WriteSite, AfterWrite
        <3> QED
            BY <3>1
    <2>5. CASE DeleteSite(w) \/ TouchSite(w) \/ Bump(w)
        BY <2>5 DEF DeleteSite, TouchSite, Bump
    <2>6. CASE DeviceSiteSet2(w) \/ NextRow(w) \/ RowsDone(w) \/ LockRow(w)
        BY <2>6 DEF DeviceSiteSet2, NextRow, RowsDone, LockRow
    <2>7. CASE CountRows(w) \/ InsertRow(w) \/ ForeignKey(w)
        BY <2>7 DEF CountRows, InsertRow, ForeignKey, AfterCheck
    <2> QED
        BY <2>1, <2>2, <2>3, <2>4, <2>5, <2>6, <2>7
           DEF Step, Statement, NameExists, NotUnique, RowIsThere, NoSuchSite, DeadlockVictim, Abort,
               RollBack, Commit
<1>3. ASSUME NEW v \in Sessions \ {w}
      PROVE  /\ pc'[v] = pc[v] /\ draftSite'[v] = draftSite[v] /\ draftPlace'[v] = draftPlace[v]
             /\ \A s \in SiteIds : v \in shared'[s] <=> v \in shared[s]
    BY <1>1 DEF Untouched
<1> HIDE DEF TypeOK
<1>4. ASSUME NEW v \in Sessions
      PROVE  /\ pc'[v] \in {"idle", "parent", "lock", "name", "write", "unlink", "delete"} =>
                    \A s \in SiteIds : draftSite'[v][s] = Kept
             /\ pc'[v] \in {"idle", "parent", "lock", "name", "write", "unlink", "delete", "set2"} =>
                    /\ \A d \in Devices : draftPlace'[v][d] = Kept
                    /\ \A s \in SiteIds : v \notin shared'[s]
    <2>1. CASE v = w
        BY <1>2, <2>1
    <2>2. CASE v # w
        BY <1>3, <2>2 DEF CallsStartClean
    <2> QED
        BY <2>1, <2>2
<1> QED
    BY <1>4 DEF CallsStartClean

-----------------------------------------------------------------------------
(* The tree of sites *)

\* What clients know of sites stays known.
LEMMA KnownKept ==
    ASSUME IInv, NEW w \in Sessions, Step(w)
    PROVE  Known \subseteq Known'
<1>1. CASE Commit(w)
    BY <1>1, CommitMoves
<1>2. CASE ~Commit(w)
    BY <1>2, TablesKept DEF Known, tables
<1> QED
    BY <1>1, <1>2

\* A site that w sees is known or locked.
LEMMA SeenBounded ==
    ASSUME IInv, NEW w \in Sessions, NEW s, Exists(w, s)
    PROVE  s \in SiteIds /\ (s \in Known \/ siteLock[s] # NoSession)
<1>1. s \in SiteIds /\ SiteSeen(w, s) # NoRow
    BY DEF Exists
<1>2. CASE draftSite[w][s] = Kept
    BY <1>1, <1>2 DEF SiteSeen, Known
<1>3. CASE draftSite[w][s] # Kept
    BY <1>1, <1>3 DEF IInv, WritesLocked
<1> QED
    BY <1>1, <1>2, <1>3

LEMMA IdsBoundedStep ==
    ASSUME IInv, NEW w \in Sessions, Step(w)
    PROVE  IdsBounded'
<1> USE DEF IInv
<1>1. \A s \in SiteIds : s \in Known \/ siteLock[s] # NoSession => s < nextid
    BY DEF IdsBounded
<1>2. nextid \in Nat /\ nextid > Root
    BY DEF TypeOK, IdsBounded
<1>3. CASE Commit(w)
    <2>1. nextid' = nextid /\ \A s \in SiteIds : siteLock'[s] # NoSession => siteLock[s] # NoSession
        BY <1>3 DEF Commit, Release, TypeOK
    <2>2. \A s \in SiteIds : s \in Known' => s \in Known \/ siteLock[s] # NoSession
        <3>1. removed' = removed \union {s \in SiteIds : draftSite[w][s] = NoRow}
            BY <1>3 DEF Commit
        <3> QED
            BY <1>3, <3>1, CommitMoves DEF Known, SiteSeen
    <2> QED
        BY <1>1, <1>2, <2>1, <2>2 DEF IdsBounded
<1>4. CASE ~Commit(w)
    <2>1. Known' = Known
        BY <1>4, TablesKept DEF Known, tables
    <2>2. \/ /\ nextid' = nextid
             /\ \A s \in SiteIds : siteLock'[s] # NoSession => s \in Known \/ siteLock[s] # NoSession
          \/ /\ nextid' = nextid + 1
             /\ \A s \in SiteIds : siteLock'[s] # NoSession => s = nextid \/ siteLock[s] # NoSession
        <3> USE DEF TypeOK
        <3>1. CASE NewCall(w)
            BY <3>1 DEF NewCall, AddOrModify, SiteRemove, DeviceSiteMove, DeviceSiteSet, CallSet2, Call, locks
        <3>2. CASE RollBack(w)
            BY <3>2 DEF RollBack, Release
        <3>3. CASE CheckParent(w)
            BY <3>3 DEF CheckParent
        <3>4. CASE LockSite(w) \/ DeleteSite(w) \/ TouchSite(w)
            <4>1. \/ siteLock' = siteLock
                  \/ Exists(w, sid[w]) /\ siteLock' = [siteLock EXCEPT ![sid[w]] = w]
                BY <3>4 DEF LockSite, DeleteSite, TouchSite
            <4>2. nextid' = nextid
                BY <3>4 DEF LockSite, DeleteSite, TouchSite
            <4> QED
                BY <4>1, <4>2, SeenBounded
        <3>5. CASE CheckName(w) \/ WriteSite(w) \/ Unlink(w) \/ Bump(w)
            BY <3>5 DEF CheckName, WriteSite, Unlink, Bump, locks
        <3>6. CASE DeviceSiteSet2(w) \/ NextRow(w) \/ RowsDone(w) \/ LockRow(w)
            BY <3>6 DEF DeviceSiteSet2, NextRow, RowsDone, LockRow, locks
        <3>7. CASE CountRows(w) \/ InsertRow(w) \/ ForeignKey(w)
            BY <3>7 DEF CountRows, InsertRow, ForeignKey, locks
        <3> QED
            BY <1>4, <3>1, <3>2, <3>3, <3>4, <3>5, <3>6, <3>7
               DEF Step, Statement, NameExists, NotUnique, RowIsThere, NoSuchSite, DeadlockVictim, Abort
    <2>3. \A s \in SiteIds : s \in Int
        BY DEF SiteIds
    <2> QED
        BY <1>1, <1>2, <2>1, <2>2, <2>3 DEF IdsBounded, Root
<1> QED
    BY <1>3, <1>4

LEMMA ParentsAreOlderStep ==
    ASSUME IInv, NEW w \in Sessions, Step(w)
    PROVE  ParentsAreOlder'
<1>1. CASE Commit(w)
    <2> SUFFICES ASSUME NEW s \in SiteIds, site'[s] # NoRow
                 PROVE  /\ site'[s].parent < s
                        /\ s # Root => site'[s].parent \in Known'
        BY DEF ParentsAreOlder
    <2>1. site'[s] = SiteSeen(w, s) /\ Known \subseteq Known'
        BY <1>1, CommitMoves
    <2>2. CASE draftSite[w][s] = Kept
        BY <2>1, <2>2 DEF SiteSeen, IInv, ParentsAreOlder
    <2>3. CASE draftSite[w][s] # Kept
        BY <2>1, <2>3 DEF SiteSeen, IInv, WritesLocked
    <2> QED
        BY <2>2, <2>3
<1>2. CASE ~Commit(w)
    BY <1>2, TablesKept DEF IInv, ParentsAreOlder, Known, tables
<1> QED
    BY <1>1, <1>2

-----------------------------------------------------------------------------
(* Drafts and their locks *)

\* A row of site that another session has locked does not change.
LEMMA LockedSitesStay ==
    ASSUME IInv, NEW w \in Sessions, Step(w), NEW v \in Sessions \ {w}
    PROVE  /\ \A s \in SiteIds : siteLock[s] = v => site'[s] = site[s]
           /\ \A d \in Devices : devLock[d] = v => place'[d] = place[d]
<1>1. CASE Commit(w)
    BY <1>1, CommitMoves DEF SiteSeen, PlaceSeen
<1>2. CASE ~Commit(w)
    BY <1>2, TablesKept DEF tables
<1> QED
    BY <1>1, <1>2

\* What WritesLocked says of session v.
WritesLockedBy(v) ==
    /\ pc[v] \in {"name", "write"} =>
           /\ sid[v] \in SiteIds
           /\ siteLock[sid[v]] = v
           /\ site[sid[v]] # NoRow \/ (other[v] \in Known /\ other[v] < sid[v])
    /\ \A s \in SiteIds : draftSite[v][s] # Kept =>
           /\ siteLock[s] = v
           /\ draftSite[v][s] # NoRow => /\ draftSite[v][s].parent < s
                                         /\ s # Root => draftSite[v][s].parent \in Known
    /\ \A d \in Devices : draftPlace[v][d] # Kept => devLock[d] = v

\* The other sessions' drafts stay locked.
LEMMA OthersWritesLocked ==
    ASSUME IInv, NEW w \in Sessions, Step(w), NEW v \in Sessions \ {w}
    PROVE  WritesLockedBy(v)'
<1>1. Untouched(v)
    BY OthersKept DEF IInv
<1>2. WritesLockedBy(v)
    BY DEF IInv, WritesLocked, WritesLockedBy
<1>3. Known \subseteq Known'
    BY KnownKept
<1>4. pc'[v] \in {"name", "write"} =>
          /\ sid'[v] \in SiteIds
          /\ siteLock'[sid'[v]] = v
          /\ site'[sid'[v]] # NoRow \/ (other'[v] \in Known' /\ other'[v] < sid'[v])
    BY <1>1, <1>2, <1>3, LockedSitesStay DEF WritesLockedBy, Untouched
<1>5. \A s \in SiteIds : draftSite'[v][s] # Kept =>
          /\ siteLock'[s] = v
          /\ draftSite'[v][s] # NoRow => /\ draftSite'[v][s].parent < s
                                         /\ s # Root => draftSite'[v][s].parent \in Known'
    BY <1>1, <1>2, <1>3 DEF WritesLockedBy, Untouched
<1>6. \A d \in Devices : draftPlace'[v][d] # Kept => devLock'[d] = v
    BY <1>1, <1>2 DEF WritesLockedBy, Untouched
<1> QED
    BY <1>4, <1>5, <1>6 DEF WritesLockedBy

\* Before it writes the row, a call has locked it, or an id that nobody has.
LEMMA LockedBeforeWrite ==
    ASSUME IInv, NEW w \in Sessions, CheckParent(w) \/ LockSite(w) \/ CheckName(w)
    PROVE  WritesLockedBy(w)'
<1> USE DEF IInv, TypeOK, GoTo
<1>1. /\ UNCHANGED <<tables, draftSite, draftPlace, devLock, other>>
      /\ \A s \in SiteIds : siteLock[s] = w => siteLock'[s] = w
    <2>1. CASE CheckParent(w) \/ CheckName(w)
        BY <2>1 DEF CheckParent, CheckName, drafts, locks, args, IdsBounded
    <2>2. CASE LockSite(w)
        BY <2>2 DEF LockSite, drafts, locks, args
    <2> QED
        BY <2>1, <2>2
<1>2. Known' = Known
    BY <1>1 DEF Known, tables
<1>3. \A s \in SiteIds : draftSite[w][s] = Kept
    BY DEF CallsStartClean, CheckParent, LockSite, CheckName
<1>4. pc'[w] \in {"name", "write"} =>
          /\ sid'[w] \in SiteIds
          /\ siteLock'[sid'[w]] = w
          /\ site[sid'[w]] # NoRow \/ (other[w] \in Known /\ other[w] < sid'[w])
    <2>1. CASE CheckParent(w) /\ pc'[w] \in {"name", "write"}
        <3>1. /\ ParentThere(w) /\ nextid <= MaxSite
              /\ sid'[w] = nextid
              /\ siteLock' = [siteLock EXCEPT ![nextid] = w]
            BY <2>1 DEF CheckParent
        <3>2. other[w] \in Known
            BY <1>3, <3>1 DEF ParentThere, Exists, SiteSeen, Known
        <3>3. nextid \in SiteIds
            BY <3>1 DEF SiteIds, IdsBounded, Root
        <3>4. other[w] < nextid
            BY <3>2 DEF IdsBounded, Known
        <3> QED
            BY <3>1, <3>2, <3>3, <3>4
    <2>2. CASE LockSite(w) /\ pc'[w] \in {"name", "write"}
        <3>1. Exists(w, sid[w]) /\ siteLock' = [siteLock EXCEPT ![sid[w]] = w] /\ sid' = sid
            BY <2>2 DEF LockSite, AfterWrite, args
        <3>2. sid[w] \in SiteIds /\ site[sid[w]] # NoRow
            BY <1>3, <3>1 DEF Exists, SiteSeen
        <3> QED
            BY <3>1, <3>2
    <2>3. CASE CheckName(w)
        BY <2>3 DEF CheckName, WritesLocked, args, locks
    <2> QED
        BY <2>1, <2>2, <2>3
<1>5. \A d \in Devices : draftPlace[w][d] # Kept => devLock[d] = w
    BY DEF WritesLocked
<1> QED
    BY <1>1, <1>2, <1>3, <1>4, <1>5 DEF WritesLockedBy, tables

\* The row that is written has an older parent.
LEMMA WriteSiteLocked ==
    ASSUME IInv, NEW w \in Sessions, WriteSite(w)
    PROVE  WritesLockedBy(w)'
<1> DEFINE p == IF Exists(w, sid[w]) THEN SiteSeen(w, sid[w]).parent ELSE other[w]
<1>1. /\ draftSite' = [draftSite EXCEPT ![w][sid[w]] = [name |-> nam[w], parent |-> p]]
      /\ UNCHANGED <<tables, siteLock, devLock, draftPlace>>
      /\ pc[w] = "write" /\ pc'[w] \in {"set2", "commit"}
    BY DEF WriteSite, AfterWrite, GoTo, IInv, TypeOK
<1>2. /\ sid[w] \in SiteIds /\ siteLock[sid[w]] = w
      /\ site[sid[w]] # NoRow \/ (other[w] \in Known /\ other[w] < sid[w])
    BY <1>1 DEF IInv, WritesLocked
<1>3. \A s \in SiteIds : draftSite[w][s] = Kept
    BY <1>1 DEF IInv, CallsStartClean
<1>4. p < sid[w] /\ (sid[w] # Root => p \in Known)
    <2>1. CASE site[sid[w]] # NoRow
        BY <1>2, <1>3, <2>1 DEF IInv, ParentsAreOlder, Exists, SiteSeen
    <2>2. CASE site[sid[w]] = NoRow
        BY <1>2, <1>3, <2>2 DEF Exists, SiteSeen
    <2> QED
        BY <2>1, <2>2
<1> HIDE DEF p
<1>5. Known' = Known
    BY <1>1 DEF Known, tables
<1>6. \A s \in SiteIds : draftSite'[w][s] # Kept =>
          s = sid[w] /\ draftSite'[w][s] = [name |-> nam[w], parent |-> p]
    BY <1>1, <1>3 DEF IInv, TypeOK
<1>7. \A d \in Devices : draftPlace'[w][d] # Kept => devLock'[d] = w
    BY <1>1 DEF IInv, WritesLocked
<1> QED
    BY <1>1, <1>2, <1>4, <1>5, <1>6, <1>7 DEF WritesLockedBy

\* The other statements write only what they lock.
LEMMA LockedWhileWritten ==
    ASSUME IInv, NEW w \in Sessions,
           \/ NewCall(w) \/ Unlink(w) \/ DeleteSite(w) \/ TouchSite(w) \/ Bump(w)
           \/ DeviceSiteSet2(w) \/ NextRow(w) \/ RowsDone(w) \/ LockRow(w)
           \/ CountRows(w) \/ InsertRow(w) \/ ForeignKey(w)
    PROVE  WritesLockedBy(w)'
<1> USE DEF IInv, TypeOK, GoTo
<1>1. \A s \in SiteIds : draftSite[w][s] # Kept =>
          /\ siteLock[s] = w
          /\ draftSite[w][s] # NoRow => /\ draftSite[w][s].parent < s
                                        /\ s # Root => draftSite[w][s].parent \in Known
    BY DEF WritesLocked
<1>2. \A d \in Devices : draftPlace[w][d] # Kept => devLock[d] = w
    BY DEF WritesLocked
<1>3. UNCHANGED tables
    BY DEF NewCall, AddOrModify, SiteRemove, DeviceSiteMove, DeviceSiteSet, CallSet2, Call, Unlink, DeleteSite,
           TouchSite, Bump, DeviceSiteSet2, NextRow, RowsDone, LockRow, CountRows, InsertRow, ForeignKey
<1>4. Known' = Known
    BY <1>3 DEF Known, tables
<1>5. pc'[w] \notin {"name", "write"}
    <2>1. CASE NewCall(w)
        BY <2>1 DEF NewCall, AddOrModify, SiteRemove, DeviceSiteMove, DeviceSiteSet, CallSet2, Call
    <2>2. CASE Unlink(w) \/ DeleteSite(w) \/ TouchSite(w) \/ Bump(w)
        BY <2>2 DEF Unlink, DeleteSite, TouchSite, Bump
    <2>3. CASE DeviceSiteSet2(w) \/ NextRow(w) \/ RowsDone(w) \/ LockRow(w)
        BY <2>3 DEF DeviceSiteSet2, NextRow, RowsDone, LockRow
    <2>4. CASE CountRows(w) \/ InsertRow(w) \/ ForeignKey(w)
        BY <2>4 DEF CountRows, InsertRow, ForeignKey, AfterCheck
    <2> QED
        BY <2>1, <2>2, <2>3, <2>4
<1>6. /\ \A s \in SiteIds : siteLock[s] = w => siteLock'[s] = w
      /\ \/ draftSite' = draftSite
         \/ /\ sid[w] \in SiteIds /\ siteLock'[sid[w]] = w
            /\ draftSite' = [draftSite EXCEPT ![w][sid[w]] = NoRow]
    <2>1. CASE DeleteSite(w)
        BY <2>1 DEF DeleteSite, Exists
    <2>2. CASE TouchSite(w)
        BY <2>2 DEF TouchSite, drafts
    <2>3. CASE ~DeleteSite(w) /\ ~TouchSite(w)
        BY <2>3 DEF NewCall, AddOrModify, SiteRemove, DeviceSiteMove, DeviceSiteSet, CallSet2, Call, Unlink,
                    Bump, DeviceSiteSet2, NextRow, RowsDone, LockRow, CountRows, InsertRow, ForeignKey,
                    drafts, locks
    <2> QED
        BY <2>1, <2>2, <2>3
<1>7. \A d \in Devices : draftPlace'[w][d] # Kept => devLock'[d] = w
    <2>1. CASE LockRow(w)
        BY <1>2, <2>1 DEF LockRow
    <2>2. CASE InsertRow(w)
        BY <1>2, <2>2 DEF InsertRow
    <2>3. CASE ~LockRow(w) /\ ~InsertRow(w)
        <3>1. draftPlace' = draftPlace /\ devLock' = devLock
            BY <2>3 DEF NewCall, AddOrModify, SiteRemove, DeviceSiteMove, DeviceSiteSet, CallSet2, Call, Unlink,
                        DeleteSite, TouchSite, Bump, DeviceSiteSet2, NextRow, RowsDone, CountRows,
                        ForeignKey, drafts, locks
        <3> QED
            BY <1>2, <3>1
    <2> QED
        BY <2>1, <2>2, <2>3
<1>8. \A s \in SiteIds : draftSite'[w][s] # Kept =>
          /\ siteLock'[s] = w
          /\ draftSite'[w][s] # NoRow => /\ draftSite'[w][s].parent < s
                                         /\ s # Root => draftSite'[w][s].parent \in Known'
    <2>1. CASE draftSite' = draftSite
        BY <1>1, <1>4, <1>6, <2>1
    <2>2. CASE /\ sid[w] \in SiteIds /\ siteLock'[sid[w]] = w
               /\ draftSite' = [draftSite EXCEPT ![w][sid[w]] = NoRow]
        <3>1. draftSite'[w] = [draftSite[w] EXCEPT ![sid[w]] = NoRow]
            BY <2>2
        <3> QED
            BY <1>1, <1>4, <1>6, <2>2, <3>1
    <2> QED
        BY <1>6, <2>1, <2>2
<1> QED
    BY <1>5, <1>7, <1>8 DEF WritesLockedBy

LEMMA WritesLockedStep ==
    ASSUME IInv, NEW w \in Sessions, Step(w)
    PROVE  WritesLocked'
<1>1. ASSUME Release(w) PROVE WritesLockedBy(w)'
    BY <1>1, Released DEF IInv, WritesLockedBy
<1>2. WritesLockedBy(w)'
    BY <1>1, LockedBeforeWrite, WriteSiteLocked, LockedWhileWritten
       DEF Step, Statement, NameExists, NotUnique, RowIsThere, NoSuchSite, DeadlockVictim, Abort,
           RollBack, Commit
<1>3. \A v \in Sessions \ {w} : WritesLockedBy(v)'
    BY OthersWritesLocked
<1>4. \A v \in Sessions : WritesLockedBy(v)'
    BY <1>2, <1>3
<1> QED
    BY <1>4 DEF WritesLocked, WritesLockedBy

-----------------------------------------------------------------------------
(* Shared locks *)

\* A site is locked by w only if nobody else held it by a shared lock.
LEMMA LocksTaken ==
    ASSUME IInv, NEW w \in Sessions, Step(w)
    PROVE  \A s \in SiteIds : siteLock'[s] = w =>
               siteLock[s] = w \/ SiteFree(w, s) \/ s = nextid
<1> USE DEF IInv, TypeOK
<1>1. CASE NewCall(w)
    BY <1>1 DEF NewCall, AddOrModify, SiteRemove, DeviceSiteMove, DeviceSiteSet, CallSet2, Call, locks
<1>2. CASE Release(w)
    BY <1>2, Released
<1>3. CASE CheckParent(w)
    BY <1>3 DEF CheckParent
<1>4. CASE LockSite(w)
    BY <1>4 DEF LockSite
<1>5. CASE DeleteSite(w)
    BY <1>5 DEF DeleteSite
<1>6. CASE TouchSite(w)
    BY <1>6 DEF TouchSite
<1>7. CASE CheckName(w) \/ WriteSite(w) \/ Unlink(w) \/ Bump(w)
    BY <1>7 DEF CheckName, WriteSite, Unlink, Bump, locks
<1>8. CASE DeviceSiteSet2(w) \/ NextRow(w) \/ RowsDone(w) \/ LockRow(w)
    BY <1>8 DEF DeviceSiteSet2, NextRow, RowsDone, LockRow, locks
<1>9. CASE CountRows(w) \/ InsertRow(w) \/ ForeignKey(w)
    BY <1>9 DEF CountRows, InsertRow, ForeignKey, locks
<1> QED
    BY <1>1, <1>2, <1>3, <1>4, <1>5, <1>6, <1>7, <1>8, <1>9
       DEF Step, Statement, NameExists, NotUnique, RowIsThere, NoSuchSite, DeadlockVictim, Abort,
           RollBack, Commit

\* A site held by w is there, and was held before or is not being changed by
\* another session.
LEMMA SharedTaken ==
    ASSUME IInv, NEW w \in Sessions, Step(w)
    PROVE  \A s \in SiteIds : w \in shared'[s] =>
               /\ w \in shared[s] \/ siteLock[s] \in {NoSession, w}
               /\ SiteSeen(w, s)' # NoRow
<1> USE DEF IInv, TypeOK, GoTo
<1>0. \A s \in SiteIds : w \in shared[s] => SiteSeen(w, s) # NoRow
    BY DEF SharedHold
<1>1. CASE Release(w)
    BY <1>1, Released
<1>2. CASE WriteSite(w)
    <2>1. \A s \in SiteIds : w \notin shared'[s]
        BY <1>2 DEF WriteSite, CallsStartClean
    <2> QED
        BY <2>1
<1>3. CASE DeleteSite(w)
    <2>1. \A s \in SiteIds : w \notin shared'[s]
        BY <1>3 DEF DeleteSite, CallsStartClean
    <2> QED
        BY <2>1
<1>4. CASE ForeignKey(w)
    <2>1. UNCHANGED <<site, draftSite>>
        BY <1>4 DEF ForeignKey, tables, drafts
    <2>2. CASE UNCHANGED shared
        BY <1>0, <2>1, <2>2 DEF SiteSeen
    <2>3. CASE /\ Target(w) \in SiteIds => siteLock[Target(w)] \in {NoSession, w}
               /\ Referenced(w)
               /\ shared' = [s \in SiteIds |-> IF s = Target(w) THEN shared[s] \union {w} ELSE shared[s]]
        <3>1. SiteSeen(w, Target(w)) # NoRow
            BY <2>3 DEF Referenced, Exists
        <3>2. \A s \in SiteIds : w \in shared'[s] => w \in shared[s] \/ s = Target(w)
            BY <2>3
        <3> QED
            BY <1>0, <2>1, <2>3, <3>1, <3>2 DEF SiteSeen
    <2> QED
        BY <1>4, <2>2, <2>3 DEF ForeignKey
<1>5. ASSUME ~Commit(w), UNCHANGED <<shared, draftSite>>
      PROVE  \A s \in SiteIds : w \in shared'[s] => w \in shared[s] /\ SiteSeen(w, s)' # NoRow
    BY <1>0, <1>5, TablesKept DEF tables, SiteSeen
<1>6. \/ NewCall(w) \/ CheckParent(w) \/ LockSite(w) \/ CheckName(w) \/ Unlink(w) \/ TouchSite(w)
      \/ Bump(w) \/ DeviceSiteSet2(w) \/ NextRow(w) \/ RowsDone(w) \/ LockRow(w)
      \/ CountRows(w) \/ InsertRow(w)
      => UNCHANGED <<shared, draftSite>>
    BY DEF NewCall, AddOrModify, SiteRemove, DeviceSiteMove, DeviceSiteSet, CallSet2, Call, CheckParent, LockSite,
           CheckName, Unlink, TouchSite, Bump, DeviceSiteSet2, NextRow, RowsDone, LockRow, CountRows,
           InsertRow, drafts, locks
<1> QED
    BY <1>1, <1>2, <1>3, <1>4, <1>5, <1>6
       DEF Step, Statement, NameExists, NotUnique, RowIsThere, NoSuchSite, DeadlockVictim, Abort,
           RollBack, Commit

LEMMA SharedHoldStep ==
    ASSUME IInv, NEW w \in Sessions, Step(w)
    PROVE  SharedHold'
<1>1. \A v \in Sessions \ {w} : Untouched(v)
    BY OthersKept DEF IInv
<1>2. TypeOK /\ TypeOK'
    BY StepTypes DEF IInv
<1>3. ASSUME NEW s \in SiteIds, siteLock'[s] # NoSession, NEW y \in shared'[s]
      PROVE  y = siteLock'[s]
    <2> DEFINE x == siteLock'[s]
    <2>1. x \in Sessions /\ y \in Sessions
        BY <1>2, <1>3 DEF TypeOK
    <2>2. siteLock[s] # NoSession => shared[s] \subseteq {siteLock[s]}
        BY DEF IInv, SharedHold
    <2>3. CASE x # w
        <3>1. siteLock[s] = x
            BY <1>1, <2>1, <2>3 DEF Untouched
        <3>2. y # w => y \in shared[s]
            BY <1>1, <1>3, <2>1 DEF Untouched
        <3>3. y = w => y \in shared[s]
            BY <1>3, <2>1, <2>3, <3>1, SharedTaken
        <3> QED
            BY <1>3, <2>2, <3>1, <3>2, <3>3
    <2>4. CASE x = w /\ y # w
        <3>1. y \in shared[s]
            BY <1>1, <1>3, <2>1, <2>4 DEF Untouched
        <3>2. siteLock[s] # w
            BY <1>3, <2>2, <2>4, <3>1
        <3>3. ~SiteFree(w, s)
            BY <2>4, <3>1 DEF SiteFree
        <3>4. s # nextid
            <4>1. Exists(y, s)
                BY <3>1 DEF IInv, SharedHold, Exists
            <4>2. s < nextid
                BY <2>1, <4>1, SeenBounded DEF IInv, IdsBounded
            <4> QED
                BY <1>2, <4>2 DEF TypeOK
        <3> QED
            BY <2>4, <3>2, <3>3, <3>4, LocksTaken
    <2> QED
        BY <2>3, <2>4
<1>4. ASSUME NEW s \in SiteIds, NEW v \in shared'[s]
      PROVE  SiteSeen(v, s)' # NoRow
    <2>1. v \in Sessions
        BY <1>2, <1>4 DEF TypeOK
    <2>2. CASE v = w
        BY <1>4, <2>2, SharedTaken
    <2>3. CASE v # w
        <3>1. v \in shared[s] /\ draftSite'[v] = draftSite[v]
            BY <1>1, <1>4, <2>1, <2>3 DEF Untouched
        <3>2. SiteSeen(v, s) # NoRow
            BY <3>1 DEF IInv, SharedHold
        <3>3. CASE Commit(w) /\ draftSite[w][s] # Kept
            <4>1. siteLock[s] = w
                BY <3>3, CommitMoves
            <4> QED
                BY <2>3, <3>1, <4>1 DEF IInv, SharedHold
        <3>4. CASE Commit(w) /\ draftSite[w][s] = Kept
            <4>1. site'[s] = site[s]
                BY <3>4, CommitMoves DEF SiteSeen
            <4> QED
                BY <3>1, <3>2, <4>1 DEF SiteSeen
        <3>5. CASE ~Commit(w)
            BY <3>1, <3>2, <3>5, TablesKept DEF SiteSeen, tables
        <3> QED
            BY <3>3, <3>4, <3>5
    <2> QED
        BY <2>2, <2>3
<1> QED
    BY <1>3, <1>4 DEF SharedHold

-----------------------------------------------------------------------------
(* The sites that devices are placed in *)

\* What PlacesHeld says of session v and device d.
Held(v, d) == draftPlace[v][d] \in SiteIds /\ v \in shared[draftPlace[v][d]]

PlaceHeldBy(v, d) ==
    draftPlace[v][d] \notin {Kept, Nowhere} =>
        Held(v, d) \/ Unchecked(v, d) \/ draftPlace[v][d] = place[d]

LEMMA OthersPlacesHeld ==
    ASSUME IInv, NEW w \in Sessions, Step(w), NEW v \in Sessions \ {w}, NEW d \in Devices
    PROVE  PlaceHeldBy(v, d)'
<1>1. Untouched(v)
    BY OthersKept DEF IInv
<1>2. PlaceHeldBy(v, d)
    BY DEF IInv, PlacesHeld, PlaceHeldBy, Held
<1>3. draftPlace[v][d] # Kept => place'[d] = place[d]
    BY LockedSitesStay DEF IInv, WritesLocked
<1>4. Unchecked(v, d)' <=> Unchecked(v, d)
    BY <1>1 DEF Untouched, Unchecked, Target
<1>5. Held(v, d) => Held(v, d)'
    BY <1>1 DEF Untouched, Held
<1> QED
    BY <1>1, <1>2, <1>3, <1>4, <1>5 DEF PlaceHeldBy, Untouched

\* Nothing is placed up to the first write.
LEMMA NothingPlaced ==
    ASSUME IInv, NEW w \in Sessions, NEW d \in Devices,
           \/ NewCall(w) \/ CheckParent(w) \/ LockSite(w) \/ CheckName(w) \/ WriteSite(w)
           \/ Unlink(w) \/ DeleteSite(w) \/ DeviceSiteSet2(w)
    PROVE  PlaceHeldBy(w, d)'
<1>1. /\ pc[w] \in {"idle", "parent", "lock", "name", "write", "unlink", "delete", "set2"}
      /\ draftPlace' = draftPlace
    BY DEF NewCall, AddOrModify, SiteRemove, DeviceSiteMove, DeviceSiteSet, CallSet2, Call, CheckParent, LockSite,
           CheckName, WriteSite, Unlink, DeleteSite, DeviceSiteSet2, drafts
<1>2. draftPlace'[w][d] = Kept
    BY <1>1 DEF IInv, CallsStartClean
<1> QED
    BY <1>2 DEF PlaceHeldBy

\* A statement that writes no place leaves what has to be checked.
LEMMA PlacesUnwritten ==
    ASSUME IInv, NEW w \in Sessions, NEW d \in Devices,
           NextRow(w) \/ RowsDone(w) \/ CountRows(w) \/ TouchSite(w) \/ Bump(w)
    PROVE  PlaceHeldBy(w, d)'
<1>1. UNCHANGED <<place, draftPlace, shared>>
    BY DEF NextRow, RowsDone, CountRows, TouchSite, Bump, tables, drafts, locks
<1>2. Unchecked(w, d) => Unchecked(w, d)'
    <2>1. UNCHANGED <<op, sid, other, loop>>
        BY DEF NextRow, RowsDone, CountRows, TouchSite, Bump, args, rows
    <2>2. Target(w)' = Target(w)
        BY <2>1 DEF Target
    <2>3. /\ pc[w] \in {"rows", "count", "touch", "bump"}
          /\ pc[w] = "rows" /\ loop[w] = "reassign" => pc'[w] \in {"row", "fk"}
        BY DEF NextRow, RowsDone, CountRows, TouchSite, Bump, GoTo, IInv, TypeOK
    <2> QED
        BY <1>1, <2>1, <2>2, <2>3 DEF Unchecked
<1>3. PlaceHeldBy(w, d)
    BY DEF IInv, PlacesHeld, PlaceHeldBy, Held
<1> QED
    BY <1>1, <1>2, <1>3 DEF PlaceHeldBy, Held

\* A row that is written is still to be checked, unless it is as it was.
LEMMA PlacesWritten ==
    ASSUME IInv, NEW w \in Sessions, NEW d \in Devices, LockRow(w) \/ InsertRow(w)
    PROVE  PlaceHeldBy(w, d)'
<1> USE DEF IInv, TypeOK
<1>0. PlaceHeldBy(w, d)
    BY DEF PlacesHeld, PlaceHeldBy, Held
<1>1. UNCHANGED <<place, shared, op, sid, other, loop, dev>>
    BY DEF LockRow, InsertRow, tables, args, rows
<1>2. Target(w)' = Target(w)
    BY <1>1 DEF Target
<1>3. CASE LockRow(w)
    <2> DEFINE hit == IF loop[w] = "place" THEN PlaceSeen(w, dev[w]) # Nowhere
                                            ELSE PlaceSeen(w, dev[w]) = From(w)
               new == IF loop[w] = "delete" THEN Nowhere ELSE Target(w)
    <2>1. /\ pc[w] = "row"
          /\ pc'[w] = IF loop[w] = "place" /\ hit /\ PlaceSeen(w, dev[w]) # new THEN "fk" ELSE "rows"
          /\ draftPlace' = IF hit THEN [draftPlace EXCEPT ![w][dev[w]] = new] ELSE draftPlace
        BY <1>3 DEF LockRow, Hit, GoTo
    <2> HIDE DEF hit
    <2>2. CASE d # dev[w] \/ ~hit
        <3>1. draftPlace'[w][d] = draftPlace[w][d]
            BY <2>1, <2>2
        <3>2. Unchecked(w, d) => Unchecked(w, d)'
            BY <1>1, <1>2, <2>1, <3>1 DEF Unchecked
        <3> QED
            BY <1>0, <1>1, <3>1, <3>2 DEF PlaceHeldBy, Held
    <2>3. CASE d = dev[w] /\ hit
        <3>1. draftPlace'[w][d] = new
            BY <2>1, <2>3
        <3>2. CASE loop[w] = "delete"
            BY <3>1, <3>2 DEF PlaceHeldBy
        <3>3. CASE loop[w] = "reassign"
            BY <1>1, <1>2, <2>1, <3>1, <3>3 DEF PlaceHeldBy, Unchecked
        <3>4. CASE loop[w] = "place" /\ PlaceSeen(w, d) # new
            BY <1>1, <1>2, <2>1, <2>3, <3>1, <3>4 DEF PlaceHeldBy, Unchecked
        <3>5. CASE loop[w] = "place" /\ PlaceSeen(w, d) = new
            <4>1. draftPlace[w][d] = new \/ place[d] = new
                BY <3>5 DEF PlaceSeen
            <4>2. ~Unchecked(w, d)
                BY <2>1, <3>5 DEF Unchecked
            <4> HIDE DEF new
            <4> QED
                BY <1>0, <1>1, <3>1, <4>1, <4>2 DEF PlaceHeldBy, Held
        <3> QED
            BY <3>2, <3>3, <3>4, <3>5
    <2> QED
        BY <2>2, <2>3
<1>4. CASE InsertRow(w)
    <2>1. /\ pc[w] = "insert" /\ pc'[w] = "fk"
          /\ draftPlace' = [draftPlace EXCEPT ![w][dev[w]] = sid[w]]
        BY <1>4 DEF InsertRow, GoTo
    <2>2. loop[w] = "place" /\ Target(w) = sid[w]
        BY <2>1 DEF StatementsInPlace, Target
    <2>3. CASE d = dev[w]
        <3>1. draftPlace'[w][d] = sid[w]
            BY <2>1, <2>3
        <3> QED
            BY <1>1, <1>2, <2>1, <2>2, <2>3, <3>1 DEF PlaceHeldBy, Unchecked
    <2>4. CASE d # dev[w]
        <3>1. draftPlace'[w][d] = draftPlace[w][d]
            BY <2>1, <2>4
        <3>2. ~Unchecked(w, d)
            BY <2>1 DEF Unchecked
        <3> QED
            BY <1>0, <1>1, <3>1, <3>2 DEF PlaceHeldBy, Held
    <2> QED
        BY <2>3, <2>4
<1> QED
    BY <1>3, <1>4

\* The check holds the site of the rows that had to be checked.
LEMMA PlacesChecked ==
    ASSUME IInv, NEW w \in Sessions, NEW d \in Devices, ForeignKey(w)
    PROVE  PlaceHeldBy(w, d)'
<1>0. PlaceHeldBy(w, d)
    BY DEF IInv, PlacesHeld, PlaceHeldBy, Held
<1>1. UNCHANGED <<place, draftPlace>>
    BY DEF ForeignKey, tables, drafts
<1>2. CASE ~Written(w)
    <2>1. draftPlace[w][d] = Kept
        BY <1>2 DEF Written, IInv, WritesLocked
    <2> QED
        BY <1>1, <2>1 DEF PlaceHeldBy
<1>3. CASE Written(w)
    <2>1. /\ Target(w) \in SiteIds
          /\ shared' = [s \in SiteIds |-> IF s = Target(w) THEN shared[s] \union {w} ELSE shared[s]]
        BY <1>3 DEF ForeignKey, Referenced, Exists
    <2>2. \A s \in SiteIds : w \in shared[s] \/ s = Target(w) => w \in shared'[s]
        BY <2>1
    <2> QED
        BY <1>0, <1>1, <2>1, <2>2 DEF PlaceHeldBy, Held, Unchecked
<1> QED
    BY <1>2, <1>3

LEMMA PlacesHeldStep ==
    ASSUME IInv, NEW w \in Sessions, Step(w)
    PROVE  PlacesHeld'
<1>1. ASSUME Release(w), NEW d \in Devices PROVE PlaceHeldBy(w, d)'
    BY <1>1, Released DEF IInv, PlaceHeldBy
<1>2. \A d \in Devices : PlaceHeldBy(w, d)'
    BY <1>1, NothingPlaced, PlacesUnwritten, PlacesWritten, PlacesChecked
       DEF Step, Statement, NameExists, NotUnique, RowIsThere, NoSuchSite, DeadlockVictim, Abort,
           RollBack, Commit
<1>3. \A v \in Sessions \ {w}, d \in Devices : PlaceHeldBy(v, d)'
    BY OthersPlacesHeld
<1>4. \A v \in Sessions, d \in Devices : PlaceHeldBy(v, d)'
    BY <1>2, <1>3
<1> QED
    BY <1>4 DEF PlacesHeld, PlaceHeldBy, Held

-----------------------------------------------------------------------------
(* Removals and their cascades *)

\* What CascadesFinish says of session v and site s.
CascadeFinishes(v, s) ==
    draftSite[v][s] = NoRow =>
        /\ s = sid[v] /\ op[v] = "site_remove" /\ loop[v] = "delete"
        /\ pc[v] \in {"rows", "row", "bump", "commit"}
        /\ \A d \in Devices : PlaceSeen(v, d) = s =>
               \/ pc[v] \in {"rows", "row"} /\ d \in todo[v]
               \/ pc[v] = "row" /\ d = dev[v]

\* No other session brings a device to a site that is being removed.
LEMMA NobodyPlacedInRemoved ==
    ASSUME IInv, NEW w \in Sessions, Step(w), NEW v \in Sessions \ {w}, NEW s \in SiteIds,
           draftSite[v][s] = NoRow, NEW d \in Devices, place'[d] = s
    PROVE  place[d] = s
<1> SUFFICES ASSUME place[d] # s PROVE FALSE
    OBVIOUS
<1>1. Commit(w)
    BY TablesKept DEF tables
<1>2. draftPlace[w][d] = s
    BY <1>1, CommitMoves DEF PlaceSeen
<1>3. s # Nowhere /\ s # Kept
    BY <1>2, <1>1, CommitMoves DEF SiteIds, Nowhere, PlaceSeen
<1>4. ~Unchecked(w, d)
    BY <1>1 DEF Commit, Unchecked
<1>5. w \in shared[s]
    BY <1>2, <1>3, <1>4 DEF IInv, PlacesHeld
<1>6. siteLock[s] = v
    BY DEF IInv, WritesLocked
<1>7. siteLock[s] # NoSession
    BY <1>6
<1> QED
    BY <1>5, <1>6, <1>7 DEF IInv, SharedHold

LEMMA OthersCascade ==
    ASSUME IInv, NEW w \in Sessions, Step(w), NEW v \in Sessions \ {w}, NEW s \in SiteIds
    PROVE  CascadeFinishes(v, s)'
<1>1. Untouched(v)
    BY OthersKept DEF IInv
<1>2. CascadeFinishes(v, s)
    BY DEF IInv, CascadesFinish, CascadeFinishes
<1>3. ASSUME draftSite[v][s] = NoRow, NEW d \in Devices, PlaceSeen(v, d)' = s
      PROVE  PlaceSeen(v, d) = s
    <2>1. CASE draftPlace[v][d] = Kept
        BY <1>1, <1>3, <2>1, NobodyPlacedInRemoved DEF PlaceSeen, Untouched
    <2>2. CASE draftPlace[v][d] # Kept
        BY <1>1, <1>3, <2>2 DEF PlaceSeen, Untouched
    <2> QED
        BY <2>1, <2>2
<1>4. draftSite'[v][s] = NoRow =>
          \A d \in Devices : PlaceSeen(v, d)' = s =>
              \/ pc'[v] \in {"rows", "row"} /\ d \in todo'[v]
              \/ pc'[v] = "row" /\ d = dev'[v]
    BY <1>1, <1>2, <1>3 DEF CascadeFinishes, Untouched
<1> QED
    BY <1>1, <1>2, <1>4 DEF CascadeFinishes, Untouched

\* Statements that come before a removal, or in a call that removes nothing.
LEMMA NothingRemoved ==
    ASSUME IInv, NEW w \in Sessions, NEW s \in SiteIds,
           \/ NewCall(w) \/ CheckParent(w) \/ LockSite(w) \/ CheckName(w) \/ WriteSite(w)
           \/ Unlink(w) \/ DeviceSiteSet2(w) \/ CountRows(w) \/ InsertRow(w) \/ ForeignKey(w)
           \/ TouchSite(w)
    PROVE  CascadeFinishes(w, s)'
<1>1. /\ pc[w] \in {"idle", "parent", "lock", "name", "write", "unlink", "set2", "count", "insert",
                    "fk", "touch"}
      /\ draftSite' = draftSite \/ WriteSite(w)
    BY DEF NewCall, AddOrModify, SiteRemove, DeviceSiteMove, DeviceSiteSet, CallSet2, Call, CheckParent, LockSite,
           CheckName, WriteSite, Unlink, DeviceSiteSet2, CountRows, InsertRow, ForeignKey, TouchSite,
           drafts
<1>2. draftSite[w][s] # NoRow
    BY <1>1 DEF IInv, CallsStartClean, CascadesFinish
<1>3. WriteSite(w) => draftSite'[w][s] = draftSite[w][s] \/ draftSite'[w][s] \in SiteRow
    <2> SUFFICES ASSUME WriteSite(w), s = sid[w] PROVE draftSite'[w][s] \in SiteRow
        BY DEF WriteSite, IInv, TypeOK
    <2> DEFINE p == IF Exists(w, s) THEN SiteSeen(w, s).parent ELSE other[w]
    <2>1. draftSite' = [draftSite EXCEPT ![w][s] = [name |-> nam[w], parent |-> p]]
        BY DEF WriteSite
    <2>2. p \in 0 .. MaxSite
        BY DEF IInv, TypeOK, Exists, SiteSeen, SiteRow
    <2> HIDE DEF p
    <2> QED
        BY <2>1, <2>2 DEF IInv, TypeOK, SiteRow
<1> QED
    BY <1>1, <1>2, <1>3 DEF CascadeFinishes

\* The removal of a site has to visit the devices in it.
LEMMA CascadeStarts ==
    ASSUME IInv, NEW w \in Sessions, NEW s \in SiteIds, DeleteSite(w)
    PROVE  CascadeFinishes(w, s)'
<1> USE DEF IInv, TypeOK
<1>1. draftSite[w][s] = Kept
    BY DEF CallsStartClean, DeleteSite
<1>2. CASE ~Exists(w, sid[w])
    BY <1>1, <1>2 DEF DeleteSite, CascadeFinishes
<1>3. CASE Exists(w, sid[w])
    <2>1. /\ draftSite' = [draftSite EXCEPT ![w][sid[w]] = NoRow]
          /\ loop'[w] = "delete" /\ pc'[w] = "rows" /\ todo'[w] = Cascaded(w)
          /\ UNCHANGED <<op, sid, place, draftPlace>>
          /\ op[w] = "site_remove"
        BY <1>3 DEF DeleteSite, GoTo, tables, args, StatementsInPlace
    <2>2. draftSite'[w][s] = NoRow => s = sid[w]
        BY <1>1, <2>1
    <2>3. \A d \in Devices : PlaceSeen(w, d)' = sid[w] => d \in todo'[w]
        BY <2>1 DEF Cascaded, PlaceSeen
    <2> QED
        BY <2>1, <2>2, <2>3 DEF CascadeFinishes
<1> QED
    BY <1>2, <1>3

\* It visits them one by one, and is done when none is left.
LEMMA CascadeGoesOn ==
    ASSUME IInv, NEW w \in Sessions, NEW s \in SiteIds,
           NextRow(w) \/ RowsDone(w) \/ LockRow(w) \/ Bump(w)
    PROVE  CascadeFinishes(w, s)'
<1> USE DEF IInv, TypeOK
<1>0. UNCHANGED <<draftSite, op, sid, loop, place>>
    BY DEF NextRow, RowsDone, LockRow, Bump, drafts, args, rows, tables
<1> SUFFICES ASSUME draftSite[w][s] = NoRow, CascadeFinishes(w, s)
             PROVE  CascadeFinishes(w, s)'
    BY <1>0 DEF CascadesFinish, CascadeFinishes
<1>1. /\ s = sid[w] /\ op[w] = "site_remove" /\ loop[w] = "delete"
      /\ pc[w] \in {"rows", "row", "bump", "commit"}
      /\ \A d \in Devices : PlaceSeen(w, d) = s =>
             \/ pc[w] \in {"rows", "row"} /\ d \in todo[w]
             \/ pc[w] = "row" /\ d = dev[w]
    BY DEF CascadeFinishes
<1>2. CASE NextRow(w)
    <2>1. PICK d \in todo[w] : /\ dev' = [dev EXCEPT ![w] = d]
                               /\ todo' = [todo EXCEPT ![w] = @ \ {d}]
        BY <1>2 DEF NextRow
    <2>2. pc[w] = "rows" /\ pc'[w] = "row" /\ draftPlace' = draftPlace
        BY <1>1, <1>2 DEF NextRow, GoTo, drafts
    <2>3. \A e \in Devices : PlaceSeen(w, e)' = s => e \in todo'[w] \/ e = dev'[w]
        BY <1>0, <1>1, <2>1, <2>2 DEF PlaceSeen
    <2> QED
        BY <1>0, <1>1, <2>2, <2>3 DEF CascadeFinishes
<1>3. CASE RowsDone(w)
    <2>1. pc[w] = "rows" /\ pc'[w] = "bump" /\ draftPlace' = draftPlace /\ todo[w] = {}
        BY <1>1, <1>3 DEF RowsDone, GoTo, drafts
    <2>2. \A e \in Devices : PlaceSeen(w, e)' # s
        BY <1>0, <1>1, <2>1 DEF PlaceSeen
    <2> QED
        BY <1>0, <1>1, <2>1, <2>2 DEF CascadeFinishes
<1>4. CASE LockRow(w)
    <2>1. /\ pc[w] = "row" /\ pc'[w] = "rows" /\ todo' = todo
          /\ draftPlace' = IF PlaceSeen(w, dev[w]) = s
                           THEN [draftPlace EXCEPT ![w][dev[w]] = Nowhere] ELSE draftPlace
        BY <1>1, <1>4 DEF LockRow, Hit, GoTo, rows, From
    <2>2. ASSUME NEW e \in Devices, e = dev[w] PROVE PlaceSeen(w, e)' # s
        <3>1. CASE PlaceSeen(w, e) = s
            <4>1. draftPlace'[w][e] = Nowhere
                BY <2>1, <2>2, <3>1
            <4> QED
                BY <4>1 DEF PlaceSeen, Nowhere, SiteIds
        <3>2. CASE PlaceSeen(w, e) # s
            BY <1>0, <2>1, <2>2, <3>2 DEF PlaceSeen
        <3> QED
            BY <3>1, <3>2
    <2>3. \A e \in Devices : e # dev[w] => PlaceSeen(w, e)' = PlaceSeen(w, e)
        BY <1>0, <2>1 DEF PlaceSeen
    <2>4. \A e \in Devices : PlaceSeen(w, e)' = s => e \in todo'[w]
        <3> SUFFICES ASSUME NEW e \in Devices, PlaceSeen(w, e)' = s PROVE e \in todo'[w]
            OBVIOUS
        <3>1. e # dev[w]
            BY <2>2
        <3> QED
            BY <1>1, <2>1, <2>3, <3>1
    <2> QED
        BY <1>0, <1>1, <2>1, <2>4 DEF CascadeFinishes
<1>5. CASE Bump(w)
    <2>1. pc[w] = "bump" /\ pc'[w] = "commit" /\ draftPlace' = draftPlace
        BY <1>5 DEF Bump, GoTo, drafts
    <2> QED
        BY <1>0, <1>1, <2>1 DEF CascadeFinishes, PlaceSeen
<1> QED
    BY <1>2, <1>3, <1>4, <1>5

LEMMA CascadesFinishStep ==
    ASSUME IInv, NEW w \in Sessions, Step(w)
    PROVE  CascadesFinish'
<1>1. ASSUME Release(w), NEW s \in SiteIds PROVE CascadeFinishes(w, s)'
    BY <1>1, Released DEF IInv, CascadeFinishes
<1>2. \A s \in SiteIds : CascadeFinishes(w, s)'
    BY <1>1, NothingRemoved, CascadeStarts, CascadeGoesOn
       DEF Step, Statement, NameExists, NotUnique, RowIsThere, NoSuchSite, DeadlockVictim, Abort,
           RollBack, Commit
<1>3. \A v \in Sessions \ {w}, s \in SiteIds : CascadeFinishes(v, s)'
    BY OthersCascade
<1>4. \A v \in Sessions, s \in SiteIds : CascadeFinishes(v, s)'
    BY <1>2, <1>3
<1> QED
    BY <1>4 DEF CascadesFinish, CascadeFinishes

-----------------------------------------------------------------------------
(* The version of the sites *)

\* A session keeps the version until its transaction ends.
LEMMA VersionKept ==
    ASSUME NEW w \in Sessions, Step(w)
    PROVE  /\ \A v \in Sessions \ {w} : verLock = v => verLock' = v
           /\ verLock = w => verLock' = w \/ Release(w)
<1>1. CASE NewCall(w)
    BY <1>1 DEF NewCall, AddOrModify, SiteRemove, DeviceSiteMove, DeviceSiteSet, CallSet2, Call, locks
<1>2. CASE Release(w)
    BY <1>2 DEF Release
<1>3. CASE CheckParent(w) \/ LockSite(w) \/ CheckName(w) \/ WriteSite(w)
    BY <1>3 DEF CheckParent, LockSite, CheckName, WriteSite, VersionFree, locks
<1>4. CASE Unlink(w) \/ DeleteSite(w) \/ TouchSite(w) \/ Bump(w)
    BY <1>4 DEF Unlink, DeleteSite, TouchSite, Bump, VersionFree
<1>5. CASE DeviceSiteSet2(w) \/ NextRow(w) \/ RowsDone(w) \/ LockRow(w)
    BY <1>5 DEF DeviceSiteSet2, NextRow, RowsDone, LockRow, locks
<1>6. CASE CountRows(w) \/ InsertRow(w) \/ ForeignKey(w)
    BY <1>6 DEF CountRows, InsertRow, ForeignKey, locks
<1> QED
    BY <1>1, <1>2, <1>3, <1>4, <1>5, <1>6
       DEF Step, Statement, NameExists, NotUnique, RowIsThere, NoSuchSite, DeadlockVictim, Abort,
           RollBack, Commit

LEMMA VersionHeldStep ==
    ASSUME IInv, NEW w \in Sessions, Step(w)
    PROVE  VersionHeld'
<1> USE DEF IInv, GoTo
<1>1. ASSUME NEW v \in Sessions \ {w}
      PROVE  /\ \A s \in SiteIds : draftSite'[v][s] # Kept => verLock' = v
             /\ pc'[v] = "commit" => \A d \in Devices : draftPlace'[v][d] # Kept => verLock' = v
    <2>1. Untouched(v)
        BY OthersKept
    <2>2. /\ draftSite'[v] = draftSite[v] /\ draftPlace'[v] = draftPlace[v] /\ pc'[v] = pc[v]
          /\ verLock = v => verLock' = v
        BY <2>1, VersionKept DEF Untouched
    <2> QED
        BY <2>2 DEF VersionHeld
<1>2. \A s \in SiteIds : draftSite'[w][s] # Kept => verLock' = w
    <2>1. CASE Release(w)
        BY <2>1, Released
    <2>2. CASE WriteSite(w) \/ (DeleteSite(w) /\ Exists(w, sid[w]))
        BY <2>2 DEF WriteSite, DeleteSite
    <2>3. CASE draftSite' = draftSite /\ ~Release(w)
        BY <2>3, VersionKept DEF VersionHeld
    <2>4. draftSite' = draftSite \/ Release(w) \/ WriteSite(w) \/ (DeleteSite(w) /\ Exists(w, sid[w]))
        <3> HIDE DEF IInv, GoTo
        <3>1. \/ NewCall(w) \/ CheckParent(w) \/ LockSite(w) \/ CheckName(w) \/ Unlink(w)
              \/ (DeleteSite(w) /\ ~Exists(w, sid[w])) \/ TouchSite(w) \/ Bump(w)
              => draftSite' = draftSite
            BY DEF NewCall, AddOrModify, SiteRemove, DeviceSiteMove, DeviceSiteSet, CallSet2, Call, CheckParent,
                   LockSite, CheckName, Unlink, DeleteSite, TouchSite, Bump, drafts
        <3>2. \/ DeviceSiteSet2(w) \/ NextRow(w) \/ RowsDone(w) \/ LockRow(w) \/ CountRows(w)
              \/ InsertRow(w) \/ ForeignKey(w)
              => draftSite' = draftSite
            BY DEF DeviceSiteSet2, NextRow, RowsDone, LockRow, CountRows, InsertRow, ForeignKey, drafts
        <3> QED
            BY <3>1, <3>2
               DEF Step, Statement, NameExists, NotUnique, RowIsThere, NoSuchSite, DeadlockVictim, Abort,
                   RollBack, Commit
    <2> QED
        BY <2>1, <2>2, <2>3, <2>4
<1>3. pc'[w] = "commit" => \A d \in Devices : draftPlace'[w][d] # Kept => verLock' = w
    <2> USE DEF TypeOK
    <2>1. CASE NewCall(w)
        BY <2>1 DEF NewCall, AddOrModify, SiteRemove, DeviceSiteMove, DeviceSiteSet, CallSet2, Call
    <2>2. CASE Release(w)
        BY <2>2, Released
    <2>3. CASE CheckParent(w) \/ LockSite(w) \/ CheckName(w) \/ WriteSite(w) \/ DeviceSiteSet2(w)
        <3>1. pc[w] \in {"parent", "lock", "name", "write", "set2"} /\ draftPlace' = draftPlace
            BY <2>3 DEF CheckParent, LockSite, CheckName, WriteSite, DeviceSiteSet2, drafts
        <3> QED
            BY <3>1 DEF CallsStartClean
    <2>4. CASE Bump(w)
        BY <2>4 DEF Bump
    <2>5. CASE Unlink(w) \/ DeleteSite(w) \/ TouchSite(w)
        BY <2>5 DEF Unlink, DeleteSite, TouchSite
    <2>6. CASE NextRow(w) \/ RowsDone(w) \/ LockRow(w) \/ CountRows(w) \/ InsertRow(w) \/ ForeignKey(w)
        BY <2>6 DEF NextRow, RowsDone, LockRow, CountRows, InsertRow, ForeignKey, AfterCheck
    <2> QED
        BY <2>1, <2>2, <2>3, <2>4, <2>5, <2>6
           DEF Step, Statement, NameExists, NotUnique, RowIsThere, NoSuchSite, DeadlockVictim, Abort,
               RollBack, Commit
<1> HIDE DEF IInv
<1>4. ASSUME NEW v \in Sessions
      PROVE  /\ \A s \in SiteIds : draftSite'[v][s] # Kept => verLock' = v
             /\ pc'[v] = "commit" => \A d \in Devices : draftPlace'[v][d] # Kept => verLock' = v
    BY <1>1, <1>2, <1>3
<1> QED
    BY <1>4 DEF VersionHeld

-----------------------------------------------------------------------------
(* The invariant, and what follows from it *)

\* A place that is committed is in a site that stays.
LEMMA PlacesExistStep ==
    ASSUME IInv, NEW w \in Sessions, Step(w)
    PROVE  PlacesExist'
<1>1. CASE Commit(w)
    <2> SUFFICES ASSUME NEW d \in Devices, place'[d] # Nowhere
                 PROVE  site'[place'[d]] # NoRow
        BY DEF PlacesExist
    <2> DEFINE s == place'[d]
    <2>1. s = PlaceSeen(w, d) /\ s \in SiteIds
        <3>1. s = PlaceSeen(w, d)
            BY <1>1, CommitMoves
        <3>2. TypeOK'
            BY StepTypes DEF IInv
        <3>3. s \in 0 .. MaxSite /\ s # 0
            BY <3>2 DEF TypeOK, Nowhere
        <3> QED
            BY <3>1, <3>3 DEF SiteIds
    <2> HIDE DEF s
    <2>2. site'[s] = SiteSeen(w, s)
        BY <1>1, <2>1, CommitMoves
    <2>3. pc[w] = "commit"
        BY <1>1 DEF Commit
    <2>4. CASE place[d] = s
        <3>1. site[s] # NoRow
            BY <2>1, <2>4 DEF IInv, PlacesExist, SiteIds, Nowhere
        <3>2. draftSite[w][s] # NoRow
            BY <2>1, <2>3 DEF IInv, CascadesFinish
        <3> QED
            BY <2>2, <3>1, <3>2 DEF SiteSeen, s
    <2>5. CASE place[d] # s
        <3>1. draftPlace[w][d] = s /\ s \notin {Kept, Nowhere}
            BY <2>1, <2>5 DEF PlaceSeen, SiteIds, Nowhere
        <3>2. ~Unchecked(w, d)
            BY <2>3 DEF Unchecked
        <3>3. w \in shared[s]
            BY <2>5, <3>1, <3>2 DEF IInv, PlacesHeld
        <3>4. SiteSeen(w, s) # NoRow
            BY <2>1, <3>3 DEF IInv, SharedHold
        <3> QED
            BY <2>2, <3>4 DEF s
    <2> QED
        BY <2>4, <2>5
<1>2. CASE ~Commit(w)
    BY <1>2, TablesKept DEF IInv, PlacesExist, tables
<1> QED
    BY <1>1, <1>2

\* Every step preserves the inductive invariant.
LEMMA NextInv == IInv /\ [Next]_vars => IInv'
<1> SUFFICES ASSUME IInv, [Next]_vars PROVE IInv'
    OBVIOUS
<1>1. ASSUME NEW w \in Sessions, Step(w) PROVE IInv'
    BY <1>1, StepTypes, IdsBoundedStep, WritesLockedStep, CallsStartCleanStep, StatementsInPlaceStep,
       SharedHoldStep, PlacesHeldStep, CascadesFinishStep, VersionHeldStep, ParentsAreOlderStep,
       PlacesExistStep
       DEF IInv
<1>2. CASE UNCHANGED vars
    <2>1. TypeOK'
        BY <1>2 DEF IInv, TypeOK, vars, tables, args, rows, drafts, locks
    <2>2. IdsBounded' /\ WritesLocked' /\ CallsStartClean' /\ StatementsInPlace'
        BY <1>2 DEF IInv, IdsBounded, WritesLocked, CallsStartClean, StatementsInPlace, Known,
                    vars, tables, args, rows, drafts, locks
    <2>3. SharedHold' /\ PlacesHeld' /\ VersionHeld'
        BY <1>2 DEF IInv, SharedHold, PlacesHeld, VersionHeld, SiteSeen, Unchecked, Target,
                    vars, tables, args, rows, drafts, locks
    <2>4. CascadesFinish' /\ ParentsAreOlder' /\ PlacesExist'
        BY <1>2 DEF IInv, CascadesFinish, ParentsAreOlder, PlacesExist, PlaceSeen, Known,
                    vars, tables, args, rows, drafts, locks
    <2> QED
        BY <2>1, <2>2, <2>3, <2>4 DEF IInv
<1> QED
    BY <1>1, <1>2 DEF Next, Step

\* In every reachable state the inductive invariant holds.
THEOREM Invariance == Spec => []IInv
<1>1. Init => IInv
    BY InitInv
<1>2. IInv /\ [Next]_vars => IInv'
    BY NextInv
<1> QED
    BY <1>1, <1>2, PTL DEF Spec

\* The sites are a forest, whatever is created, renamed and removed at the same
\* time: a parent is an older site, which may have been removed.
THEOREM TreeOrdered == Spec => []ParentsAreOlder
<1>1. IInv => ParentsAreOlder
    BY DEF IInv
<1> QED
    BY <1>1, Invariance, PTL

\* No committed device is in a site that does not exist, whatever is removed
\* while devices are placed and moved.
THEOREM PlacesSound == Spec => []PlacesExist
<1>1. IInv => PlacesExist
    BY DEF IInv
<1> QED
    BY <1>1, Invariance, PTL

\* Every commit that changes a site, or the place of a device, moves the version
\* by which clients know that they have to read again.
THEOREM EveryChangeStamped == Spec => ChangesStamped
<1>1. IInv /\ [Next]_vars => [site' # site \/ place' # place => modifytime' > modifytime]_vars
    <2> SUFFICES ASSUME IInv, Next, site' # site \/ place' # place
                 PROVE  modifytime' > modifytime
        BY DEF vars, tables
    <2>1. PICK w \in Sessions : Step(w)
        BY DEF Next, Step
    <2>2. Commit(w)
        BY <2>1, TablesKept DEF tables
    <2>3. (\E s \in SiteIds : draftSite[w][s] # Kept) \/ (\E d \in Devices : draftPlace[w][d] # Kept)
        <3> SUFFICES ASSUME \A s \in SiteIds : draftSite[w][s] = Kept,
                            \A d \in Devices : draftPlace[w][d] = Kept
                     PROVE  site' = site /\ place' = place
            OBVIOUS
        <3> QED
            BY <2>2 DEF Commit, SiteSeen, PlaceSeen, IInv, TypeOK
    <2>4. verLock = w
        BY <2>2, <2>3 DEF Commit, IInv, VersionHeld
    <2> QED
        BY <2>2, <2>4 DEF Commit, IInv, TypeOK
<1> QED
    BY <1>1, Invariance, PTL DEF Spec, ChangesStamped

-----------------------------------------------------------------------------
(* The devices of a call *)

\* The functions that place devices they are given.
PlaceOps == {"site_devices_addormodify", "device_site_set", "device_site_set2"}

\* w has written nothing: its commit would change no table.
WroteNothing(w) ==
    /\ \A s \in SiteIds : draftSite[w][s] = Kept
    /\ \A d \in Devices : draftPlace[w][d] = Kept
    /\ verLock # w

\* Device d is where w was asked to place it, or others deleted its row meanwhile.
Placed(w, d) == d \in lost[w] \/ draftPlace[w][d] = sid[w]

\* The loop has still to come to device d, or is about it.
StillToPlace(w, d) ==
    \/ pc[w] \in {"rows", "count", "insert", "row", "fk"} /\ d \in todo[w]
    \/ pc[w] \in {"count", "insert"} /\ d = dev[w]
    \/ pc[w] = "row" /\ d = dev[w] /\ PlaceSeen(w, d) # Nowhere

\* A call that places devices goes through all of them, or writes nothing.
Placing(w) ==
    /\ op[w] \notin PlaceOps => devs[w] = {}
    /\ pc[w] = "idle" => op[w] \notin PlaceOps /\ loop[w] # "delete" /\ WroteNothing(w)
    /\ op[w] \in PlaceOps =>
           /\ loop[w] # "delete"
           /\ pc[w] \notin {"unlink", "delete"}
           /\ pc[w] \in {"parent", "lock", "name", "write"} =>
                  op[w] = "site_devices_addormodify" /\ WroteNothing(w)
           /\ pc[w] = "set2" =>
                  WroteNothing(w) \/ (sid[w] \in SiteIds /\ draftSite[w][sid[w]] \notin {Kept, NoRow})
           /\ pc[w] \in LoopStatements /\ loop[w] = "place" =>
                  \A d \in devs[w] : Placed(w, d) \/ StillToPlace(w, d)
           /\ pc[w] \in {"touch", "bump"} => \A d \in devs[w] : Placed(w, d)
           /\ pc[w] = "commit" => WroteNothing(w) \/ \A d \in devs[w] : Placed(w, d)

PlacedInv == \A w \in Sessions : Placing(w)

\* The name and the devices of a call, and whether it holds the version.
LEMMA OthersArgsKept ==
    ASSUME TypeOK, NEW w \in Sessions, Step(w), NEW v \in Sessions \ {w}
    PROVE  nam'[v] = nam[v] /\ devs'[v] = devs[v] /\ (verLock' = v <=> verLock = v)
<1> USE DEF TypeOK
<1>0. v \in Sessions /\ v # w /\ v # NoSession
    BY NamesAssumption
<1>1. CASE NewCall(w)
    BY <1>0, <1>1 DEF NewCall, AddOrModify, SiteRemove, DeviceSiteMove, DeviceSiteSet, CallSet2, Call, locks
<1>2. CASE Release(w)
    BY <1>0, <1>2 DEF Release
<1>3. CASE CheckParent(w) \/ LockSite(w) \/ CheckName(w) \/ WriteSite(w)
    BY <1>0, <1>3 DEF CheckParent, LockSite, CheckName, WriteSite, VersionFree, locks, args
<1>4. CASE Unlink(w) \/ DeleteSite(w) \/ TouchSite(w) \/ Bump(w)
    BY <1>0, <1>4 DEF Unlink, DeleteSite, TouchSite, Bump, VersionFree, args
<1>5. CASE DeviceSiteSet2(w) \/ NextRow(w) \/ RowsDone(w) \/ LockRow(w)
    BY <1>0, <1>5 DEF DeviceSiteSet2, NextRow, RowsDone, LockRow, locks, args
<1>6. CASE CountRows(w) \/ InsertRow(w) \/ ForeignKey(w)
    BY <1>0, <1>6 DEF CountRows, InsertRow, ForeignKey, locks, args
<1> QED
    BY <1>1, <1>2, <1>3, <1>4, <1>5, <1>6
       DEF Step, Statement, NameExists, NotUnique, RowIsThere, NoSuchSite, DeadlockVictim, Abort,
           RollBack, Commit

\* Nothing is taken from what a call of another session has lost.
LEMMA LossesRemembered ==
    ASSUME TypeOK, NEW w \in Sessions, Step(w), NEW v \in Sessions \ {w}, pc[v] # "idle"
    PROVE  lost[v] \subseteq lost'[v]
<1> USE DEF TypeOK
<1>1. CASE NewCall(w)
    BY <1>1 DEF NewCall, AddOrModify, SiteRemove, DeviceSiteMove, DeviceSiteSet, CallSet2, Call
<1>2. CASE RollBack(w)
    BY <1>2 DEF RollBack
<1>3. CASE Commit(w)
    <2>1. lost'[v] = lost[v] \union {d \in Devices : draftPlace[w][d] = Nowhere}
        BY <1>3 DEF Commit
    <2> QED
        BY <2>1
<1>4. CASE CheckParent(w) \/ LockSite(w) \/ CheckName(w) \/ WriteSite(w)
    BY <1>4 DEF CheckParent, LockSite, CheckName, WriteSite
<1>5. CASE Unlink(w) \/ DeleteSite(w) \/ TouchSite(w) \/ Bump(w)
    BY <1>5 DEF Unlink, DeleteSite, TouchSite, Bump
<1>6. CASE DeviceSiteSet2(w) \/ NextRow(w) \/ RowsDone(w) \/ LockRow(w)
    BY <1>6 DEF DeviceSiteSet2, NextRow, RowsDone, LockRow
<1>7. CASE CountRows(w) \/ InsertRow(w) \/ ForeignKey(w)
    BY <1>7 DEF CountRows, InsertRow, ForeignKey
<1> QED
    BY <1>1, <1>2, <1>3, <1>4, <1>5, <1>6, <1>7
       DEF Step, Statement, NameExists, NotUnique, RowIsThere, NoSuchSite, DeadlockVictim, Abort

\* A row that a session sees stays, or the session has lost it.
LEMMA SeenOrLost ==
    ASSUME IInv, NEW w \in Sessions, Step(w), NEW v \in Sessions \ {w}, NEW d \in Devices,
           pc[v] # "idle", PlaceSeen(v, d) # Nowhere
    PROVE  PlaceSeen(v, d)' # Nowhere \/ d \in lost'[v]
<1>1. draftPlace'[v] = draftPlace[v]
    BY OthersKept DEF IInv, Untouched
<1>2. CASE Commit(w)
    <2>1. place'[d] = PlaceSeen(w, d)
        BY <1>2, CommitMoves
    <2>2. draftPlace[w][d] = Nowhere => d \in lost'[v]
        BY <1>2 DEF Commit
    <2> QED
        BY <1>1, <2>1, <2>2 DEF PlaceSeen
<1>3. CASE ~Commit(w)
    BY <1>1, <1>3, TablesKept DEF tables, PlaceSeen
<1> QED
    BY <1>2, <1>3

\* What is said of the call of another session stays true.
LEMMA OthersPlacing ==
    ASSUME IInv, NEW w \in Sessions, Step(w), NEW v \in Sessions \ {w}, Placing(v)
    PROVE  Placing(v)'
<1>1. /\ pc'[v] = pc[v] /\ op'[v] = op[v] /\ sid'[v] = sid[v] /\ loop'[v] = loop[v]
      /\ todo'[v] = todo[v] /\ dev'[v] = dev[v]
      /\ draftSite'[v] = draftSite[v] /\ draftPlace'[v] = draftPlace[v]
    BY OthersKept DEF IInv, Untouched
<1>2. /\ devs'[v] = devs[v] /\ devs[v] \subseteq Devices
      /\ verLock' = v <=> verLock = v
      /\ pc[v] # "idle" => lost[v] \subseteq lost'[v]
    BY OthersArgsKept, LossesRemembered DEF IInv, TypeOK
<1>3. WroteNothing(v)' <=> WroteNothing(v)
    BY <1>1, <1>2 DEF WroteNothing
<1>4. ASSUME NEW d \in devs[v], pc[v] # "idle", Placed(v, d) PROVE Placed(v, d)'
    BY <1>1, <1>2, <1>4 DEF Placed
<1>5. ASSUME NEW d \in devs[v], pc[v] # "idle", Placed(v, d) \/ StillToPlace(v, d)
      PROVE  Placed(v, d)' \/ StillToPlace(v, d)'
    <2>1. PlaceSeen(v, d) # Nowhere => PlaceSeen(v, d)' # Nowhere \/ Placed(v, d)'
        BY <1>2, <1>5, SeenOrLost DEF Placed
    <2> QED
        BY <1>1, <1>4, <1>5, <2>1 DEF StillToPlace
<1> QED
    BY <1>1, <1>2, <1>3, <1>4, <1>5 DEF Placing, LoopStatements

\* A session whose transaction has ended, or that makes a call.
LEMMA PlacingBegins ==
    ASSUME IInv, NEW w \in Sessions, Placing(w), NewCall(w) \/ Release(w)
    PROVE  Placing(w)'
<1> USE DEF IInv, TypeOK
<1>1. CASE Release(w)
    <2>1. WroteNothing(w)'
        BY <1>1 DEF Release, WroteNothing
    <2>2. /\ pc'[w] = "idle" /\ op'[w] = "site_addormodify" /\ devs'[w] = {} /\ loop'[w] = "place"
        BY <1>1 DEF Release, GoTo
    <2> QED
        BY <2>1, <2>2 DEF Placing, PlaceOps
<1>2. ASSUME NewCall(w) PROVE Placing(w)'
    <2>1. pc[w] = "idle" /\ loop[w] # "delete" /\ UNCHANGED <<drafts, verLock>>
        BY <1>2 DEF NewCall, AddOrModify, SiteRemove, DeviceSiteMove, DeviceSiteSet, CallSet2, Call, Placing,
                    locks
    <2>2. WroteNothing(w)'
        BY <2>1 DEF Placing, WroteNothing, drafts
    <2>3. \/ /\ op'[w] \notin PlaceOps /\ devs'[w] = {} /\ pc'[w] # "idle"
          \/ /\ op'[w] = "site_devices_addormodify"
             /\ pc'[w] \in {"parent", "lock"} /\ loop'[w] = loop[w]
          \/ /\ op'[w] \in PlaceOps /\ pc'[w] = "rows" /\ loop'[w] = "place" /\ todo'[w] = devs'[w]
          \/ op'[w] \in PlaceOps /\ pc'[w] = "set2" /\ loop'[w] = loop[w]
        <3>1. ASSUME NEW f \in AddOps, NEW s, NEW p, NEW n, NEW ds, AddOrModify(w, f, s, p, n, ds),
                     f = "site_addormodify" => ds = {}
              PROVE  /\ op'[w] = f /\ devs'[w] = ds
                     /\ pc'[w] \in {"parent", "lock"} /\ loop'[w] = loop[w]
            BY <3>1 DEF AddOrModify, Call, GoTo, rows
        <3>2. ASSUME NEW s, SiteRemove(w, s)
              PROVE  op'[w] = "site_remove" /\ devs'[w] = {} /\ pc'[w] = "unlink"
            BY <3>2 DEF SiteRemove, Call, GoTo
        <3>3. ASSUME NEW s, NEW t, DeviceSiteMove(w, s, t)
              PROVE  op'[w] = "device_site_move" /\ devs'[w] = {} /\ pc'[w] = "rows"
            BY <3>3 DEF DeviceSiteMove, Call, GoTo
        <3>4. ASSUME NEW s, NEW d, DeviceSiteSet(w, s, d)
              PROVE  /\ op'[w] = "device_site_set" /\ pc'[w] = "rows" /\ loop'[w] = "place"
                     /\ todo'[w] = devs'[w]
            BY <3>4 DEF DeviceSiteSet, Call, GoTo
        <3>5. ASSUME NEW s, NEW ds, CallSet2(w, s, ds)
              PROVE  op'[w] = "device_site_set2" /\ pc'[w] = "set2" /\ loop'[w] = loop[w]
            BY <3>5 DEF CallSet2, Call, GoTo, rows
        <3> QED
            BY <1>2, <3>1, <3>2, <3>3, <3>4, <3>5 DEF NewCall, PlaceOps, AddOps
    <2> QED
        BY <2>1, <2>2, <2>3 DEF Placing, StillToPlace, LoopStatements, PlaceOps
<1> QED
    BY <1>1, <1>2

\* Until the site is written, nothing is; then come the devices.
LEMMA PlacingSites ==
    ASSUME IInv, NEW w \in Sessions, Placing(w),
           \/ CheckParent(w) \/ LockSite(w) \/ CheckName(w) \/ WriteSite(w)
           \/ Unlink(w) \/ DeleteSite(w)
    PROVE  Placing(w)'
<1> USE DEF IInv, TypeOK
<1>1. CASE CheckParent(w) \/ LockSite(w) \/ CheckName(w)
    <2>1. /\ pc[w] \in {"parent", "lock", "name"}
          /\ pc'[w] \in {"name", "write", "set2", "commit"}
          /\ pc'[w] # "idle"
          /\ UNCHANGED <<op, devs, loop, drafts, verLock>>
        BY <1>1 DEF CheckParent, LockSite, CheckName, AfterWrite, GoTo, args, rows, drafts, locks
    <2>2. WroteNothing(w)' <=> WroteNothing(w)
        BY <2>1 DEF WroteNothing, drafts
    <2> QED
        BY <2>1, <2>2 DEF Placing, LoopStatements
<1>2. CASE WriteSite(w)
    <2>1. /\ pc[w] = "write" /\ pc'[w] = AfterWrite(w)
          /\ UNCHANGED <<op, devs, loop, sid>>
        BY <1>2 DEF WriteSite, GoTo, args, rows
    <2>2. sid[w] \in SiteIds
        BY <2>1 DEF WritesLocked
    <2>3. draftSite'[w][sid[w]] \in SiteRow \union {NoRow, Kept} /\ draftSite'[w][sid[w]] # NoRow
          /\ draftSite'[w][sid[w]] # Kept
        <3>1. draftSite'[w][sid[w]] =
                  [name |-> nam[w],
                   parent |-> IF Exists(w, sid[w]) THEN SiteSeen(w, sid[w]).parent ELSE other[w]]
            BY <1>2, <2>2 DEF WriteSite
        <3>2. Exists(w, sid[w]) => SiteSeen(w, sid[w]) \in SiteRow
            BY <2>2 DEF Exists, SiteSeen
        <3>3. draftSite'[w][sid[w]] \in SiteRow
            BY <3>1, <3>2 DEF SiteRow
        <3> QED
            BY <3>3
    <2>4. op[w] \in PlaceOps => AfterWrite(w) \in {"set2", "commit"}
        BY DEF AfterWrite
    <2>5. op[w] \in PlaceOps /\ pc[w] = "write" => op[w] = "site_devices_addormodify"
        BY DEF Placing, PlaceOps
    <2> QED
        BY <2>1, <2>2, <2>3, <2>4, <2>5 DEF Placing, AfterWrite, LoopStatements, PlaceOps
<1>3. CASE Unlink(w) \/ DeleteSite(w)
    <2>1. /\ op[w] \notin PlaceOps /\ pc'[w] # "idle" /\ UNCHANGED <<op, devs>>
        BY <1>3 DEF Unlink, DeleteSite, GoTo, args, Placing
    <2> QED
        BY <2>1 DEF Placing
<1> QED
    BY <1>1, <1>2, <1>3

\* The loop over the devices, or a removal's or a move's over rows.
LEMMA PlacingLoop ==
    ASSUME IInv, NEW w \in Sessions, Placing(w),
           \/ DeviceSiteSet2(w) \/ NextRow(w) \/ RowsDone(w) \/ CountRows(w)
    PROVE  Placing(w)'
<1> USE DEF IInv, TypeOK
<1>0. /\ UNCHANGED <<op, devs, sid, lost, drafts, locks, place>>
      /\ pc'[w] # "idle" /\ pc[w] # "idle"
    BY DEF DeviceSiteSet2, NextRow, RowsDone, CountRows, GoTo, args, tables
<1>1. /\ WroteNothing(w)' <=> WroteNothing(w)
      /\ \A d \in devs[w] : /\ Placed(w, d)' <=> Placed(w, d)
                            /\ PlaceSeen(w, d)' = PlaceSeen(w, d)
    BY <1>0 DEF WroteNothing, Placed, PlaceSeen, drafts, locks
<1>2. CASE DeviceSiteSet2(w)
    <2>1. /\ pc[w] = "set2"
          /\ \/ pc'[w] = "commit" /\ ~Exists(w, sid[w])
             \/ pc'[w] = "rows" /\ loop'[w] = "reassign"
             \/ pc'[w] = "rows" /\ loop'[w] = "place" /\ todo'[w] = devs[w]
        BY <1>2 DEF DeviceSiteSet2, GoTo
    <2>2. ~Exists(w, sid[w]) /\ op[w] \in PlaceOps => WroteNothing(w)
        BY <2>1 DEF Placing, Exists, SiteSeen
    <2>3. loop'[w] = loop[w] \/ loop'[w] # "delete"
        BY <1>2 DEF DeviceSiteSet2
    <2> QED
        BY <1>0, <1>1, <2>1, <2>2, <2>3 DEF Placing, StillToPlace, LoopStatements
<1>3. CASE NextRow(w)
    <2>1. /\ pc[w] = "rows" /\ loop'[w] = loop[w]
          /\ dev'[w] \in todo[w] /\ todo'[w] = todo[w] \ {dev'[w]}
          /\ pc'[w] = IF loop[w] = "place" THEN "count" ELSE "row"
        BY <1>3 DEF NextRow, GoTo
    <2> QED
        BY <1>0, <1>1, <2>1 DEF Placing, StillToPlace, LoopStatements
<1>4. CASE RowsDone(w)
    <2>1. /\ pc[w] = "rows" /\ todo[w] = {} /\ UNCHANGED <<loop, todo, dev>>
          /\ loop[w] = "place" => pc'[w] = "touch"
          /\ loop[w] = "reassign" => pc'[w] = "fk"
          /\ loop[w] = "delete" => pc'[w] = "bump"
        BY <1>4 DEF RowsDone, GoTo, rows
    <2>2. loop[w] \in {"delete", "place", "reassign"}
        OBVIOUS
    <2> QED
        BY <1>0, <1>1, <2>1, <2>2 DEF Placing, StillToPlace, LoopStatements
<1>5. CASE CountRows(w)
    <2>1. /\ pc[w] = "count" /\ UNCHANGED <<loop, todo, dev>>
          /\ pc'[w] = IF PlaceSeen(w, dev[w]) = Nowhere THEN "insert" ELSE "row"
        BY <1>5 DEF CountRows, GoTo, rows
    <2> QED
        BY <1>0, <1>1, <2>1 DEF Placing, StillToPlace, LoopStatements
<1> QED
    BY <1>2, <1>3, <1>4, <1>5

\* A row that is written is where it should be: one that is not written had gone.
LEMMA PlacingRows ==
    ASSUME IInv, NEW w \in Sessions, Placing(w),
           LockRow(w) \/ InsertRow(w) \/ ForeignKey(w)
    PROVE  Placing(w)'
<1> USE DEF IInv, TypeOK
<1>0. /\ UNCHANGED <<op, devs, sid, lost>>
      /\ pc'[w] # "idle" /\ pc[w] \in {"row", "insert", "fk"}
      /\ pc'[w] \in {"rows", "fk", "touch"}
    BY DEF LockRow, InsertRow, ForeignKey, AfterCheck, GoTo, args
<1>1. ASSUME pc[w] # "fk", UNCHANGED rows, loop[w] = "place",
             NEW d \in Devices, d # dev[w] => draftPlace'[w][d] = draftPlace[w][d],
             d = dev[w] => Placed(w, d)' \/ StillToPlace(w, d)',
             op[w] \in PlaceOps, d \in devs[w],
             pc'[w] \in {"rows", "fk"}
      PROVE  Placed(w, d)' \/ StillToPlace(w, d)'
    <2>1. Placed(w, d) \/ StillToPlace(w, d)
        BY <1>0, <1>1 DEF Placing, LoopStatements
    <2> QED
        BY <1>0, <1>1, <2>1 DEF Placed, StillToPlace, rows
<1>2. CASE LockRow(w)
    <2>1. /\ pc[w] = "row" /\ pc'[w] \in {"rows", "fk"} /\ UNCHANGED rows
          /\ \A d \in Devices : d # dev[w] => draftPlace'[w][d] = draftPlace[w][d]
        BY <1>2 DEF LockRow, GoTo
    <2>2. ASSUME loop[w] = "place", op[w] \in PlaceOps, NEW d \in devs[w], d = dev[w]
          PROVE  Placed(w, d)' \/ StillToPlace(w, d)'
        <3>1. CASE PlaceSeen(w, d) # Nowhere
            BY <1>0, <1>2, <2>1, <2>2, <3>1 DEF LockRow, Hit, Target, Placed
        <3>2. CASE PlaceSeen(w, d) = Nowhere
            <4>1. pc'[w] = "rows" /\ draftPlace' = draftPlace
                BY <1>2, <2>1, <2>2, <3>2 DEF LockRow, Hit, GoTo
            <4>2. Placed(w, d) \/ d \in todo[w]
                BY <2>1, <2>2, <3>2 DEF Placing, StillToPlace, LoopStatements
            <4> QED
                BY <1>0, <2>1, <4>1, <4>2 DEF Placed, StillToPlace, rows
        <3> QED
            BY <3>1, <3>2
    <2>3. ASSUME loop[w] = "place", op[w] \in PlaceOps, NEW d \in devs[w]
          PROVE  Placed(w, d)' \/ StillToPlace(w, d)'
        <3>1. d \in Devices
            OBVIOUS
        <3>2. d # dev[w] => draftPlace'[w][d] = draftPlace[w][d]
            BY <2>1, <3>1
        <3> QED
            BY <1>1, <2>1, <2>2, <2>3, <3>1, <3>2
    <2>4. loop'[w] = loop[w]
        BY <2>1 DEF rows
    <2>5. /\ op[w] \notin PlaceOps => devs[w] = {}
          /\ op[w] \in PlaceOps => loop[w] # "delete"
        BY DEF Placing
    <2>6. op'[w] = op[w] /\ devs'[w] = devs[w]
        BY <1>0
    <2> QED
        BY <2>1, <2>3, <2>4, <2>5, <2>6 DEF Placing
<1>3. CASE InsertRow(w)
    <2>1. /\ pc[w] = "insert" /\ pc'[w] = "fk" /\ UNCHANGED rows
          /\ \A d \in Devices : /\ d # dev[w] => draftPlace'[w][d] = draftPlace[w][d]
                                /\ d = dev[w] => draftPlace'[w][d] = sid[w]
        BY <1>3 DEF InsertRow, GoTo
    <2>2. loop[w] = "place"
        BY <2>1 DEF StatementsInPlace
    <2>3. ASSUME op[w] \in PlaceOps, NEW d \in devs[w] PROVE Placed(w, d)' \/ StillToPlace(w, d)'
        <3>1. d \in Devices
            OBVIOUS
        <3>2. d = dev[w] => Placed(w, d)'
            BY <1>0, <2>1, <3>1 DEF Placed
        <3> QED
            BY <1>1, <2>1, <2>2, <2>3, <3>1, <3>2
    <2>4. /\ op[w] \notin PlaceOps => devs[w] = {}
          /\ loop'[w] = "place" /\ op'[w] = op[w] /\ devs'[w] = devs[w]
        BY <1>0, <2>1, <2>2 DEF Placing, rows
    <2> QED
        BY <2>1, <2>3, <2>4 DEF Placing
<1>4. CASE ForeignKey(w)
    <2>1. pc[w] = "fk" /\ UNCHANGED draftPlace
        BY <1>4 DEF ForeignKey, drafts
    <2>2. \A d \in devs[w] : Placed(w, d)' <=> Placed(w, d)
        BY <1>0, <2>1 DEF Placed
    <2>3. \/ pc'[w] = "rows" /\ UNCHANGED rows /\ loop[w] = "place"
          \/ pc'[w] = "touch" /\ UNCHANGED rows /\ op[w] = "device_site_move"
          \/ pc'[w] = "rows" /\ loop'[w] = "place" /\ todo'[w] = devs[w]
        <3>1. AfterCheck(w)
            BY <1>4 DEF ForeignKey
        <3> QED
            BY <3>1 DEF AfterCheck, GoTo
    <2> QED
        BY <1>0, <2>1, <2>2, <2>3 DEF Placing, StillToPlace, LoopStatements, PlaceOps, rows
<1> QED
    BY <1>2, <1>3, <1>4

\* When the devices are placed, what is left of the call moves none of them.
LEMMA PlacingEnds ==
    ASSUME IInv, NEW w \in Sessions, Placing(w), TouchSite(w) \/ Bump(w)
    PROVE  Placing(w)'
<1> USE DEF IInv, TypeOK
<1>1. /\ UNCHANGED <<op, devs, sid, lost, loop, draftPlace>>
      /\ pc[w] \in {"touch", "bump"} /\ pc'[w] \in {"bump", "commit"}
    BY DEF TouchSite, Bump, GoTo, args, rows, drafts
<1>2. \A d \in devs[w] : Placed(w, d)' <=> Placed(w, d)
    BY <1>1 DEF Placed
<1> QED
    BY <1>1, <1>2 DEF Placing, LoopStatements

LEMMA PlacedStep ==
    ASSUME IInv, PlacedInv, [Next]_vars
    PROVE  PlacedInv'
<1>1. ASSUME NEW w \in Sessions, Step(w) PROVE PlacedInv'
    <2>1. Placing(w)'
        BY <1>1, PlacingBegins, PlacingSites, PlacingLoop, PlacingRows, PlacingEnds
           DEF PlacedInv, Step, Statement, NameExists, NotUnique, RowIsThere, NoSuchSite,
               DeadlockVictim, Abort, RollBack, Commit
    <2>2. \A v \in Sessions \ {w} : Placing(v)'
        BY <1>1, OthersPlacing DEF PlacedInv
    <2> QED
        BY <2>1, <2>2 DEF PlacedInv
<1>2. CASE UNCHANGED vars
    <2>1. ASSUME NEW w \in Sessions PROVE Placing(w)' <=> Placing(w)
        BY <1>2 DEF Placing, Placed, StillToPlace, PlaceSeen, WroteNothing,
                    vars, tables, args, rows, drafts, locks
    <2> QED
        BY <2>1 DEF PlacedInv
<1> QED
    BY <1>1, <1>2 DEF Next, Step

\* A call that has placed devices in a site, and commits, has them there, but for
\* devices whose rows others deleted while it ran.
THEOREM PlacedAsAsked == Spec => PlacedUnlessLost
<1>1. Init => PlacedInv
    <2> SUFFICES ASSUME Init, NEW w \in Sessions PROVE Placing(w)
        BY DEF PlacedInv
    <2> QED
        BY DEF Init, Placing, PlaceOps, WroteNothing, LoopStatements
<1>2. IInv /\ PlacedInv /\ [Next]_vars => PlacedInv'
    BY PlacedStep
<1>3. IInv /\ PlacedInv /\ [Next]_vars =>
          [\A w \in Sessions :
             (pc[w] = "commit" /\ pc'[w] = "idle" /\ tables' # tables /\ Exists(w, sid[w]))
             => \A d \in devs[w] : place'[d] = sid[w] \/ d \in lost[w]]_vars
    <2> SUFFICES ASSUME IInv, PlacedInv, Next, NEW w \in Sessions, pc[w] = "commit", pc'[w] = "idle",
                        tables' # tables, NEW d \in devs[w]
                 PROVE  place'[d] = sid[w] \/ d \in lost[w]
        OBVIOUS
    <2>1. PICK v \in Sessions : Step(v)
        BY DEF Next, Step
    <2>2. v = w
        BY <2>1, OthersKept DEF IInv, Untouched
    <2>3. Commit(w)
        BY <2>1, <2>2, TablesKept
    <2>4. ~WroteNothing(w)
        <3> SUFFICES ASSUME WroteNothing(w) PROVE tables' = tables
            OBVIOUS
        <3>1. site' = site /\ place' = place
            BY <2>3 DEF Commit, WroteNothing, SiteSeen, PlaceSeen, IInv, TypeOK
        <3>2. modifytime' = modifytime /\ removed' = removed
            BY <2>3 DEF Commit, WroteNothing, IInv, TypeOK
        <3> QED
            BY <3>1, <3>2 DEF tables
    <2>5. Placed(w, d)
        BY <2>4 DEF PlacedInv, Placing
    <2>6. d \in Devices /\ sid[w] # Kept
        BY DEF IInv, TypeOK
    <2>7. place'[d] = PlaceSeen(w, d)
        BY <2>3, <2>6, CommitMoves
    <2> QED
        BY <2>5, <2>6, <2>7 DEF Placed, PlaceSeen
<1> QED
    BY <1>1, <1>2, <1>3, Invariance, PTL DEF Spec, PlacedUnlessLost

=============================================================================
