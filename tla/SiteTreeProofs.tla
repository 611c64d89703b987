--------------------------- MODULE SiteTreeProofs ---------------------------
(***************************************************************************)
(* Sites implements SiteTree: CallInv is an invariant, and with it every   *)
(* step of Sites is a step of SiteTree or changes nothing there.  At the   *)
(* end: sites whose names differ only in case are never more than the      *)
(* sessions (SameNamesBounded).                                            *)
(***************************************************************************)
EXTENDS SitesProofs, FiniteSetTheorems

Inv == IInv /\ CallInv

LEMMA InitCallInv == Init => CallInv
<1> SUFFICES ASSUME Init PROVE CallInv
    OBVIOUS
<1> USE NamesAssumption, MarkersAssumption DEF Init
<1>1. Root \in SiteIds /\ [name |-> RootName, parent |-> 0] \in SiteRow
    BY DEF Root, SiteIds, SiteRow
<1>2. RemovedGone
    BY <1>1 DEF RemovedGone, Known
<1>3. ASSUME NEW w \in Sessions PROVE CallSound(w)
    <2>1. InFunction(w) /\ VersionTaken(w)
        BY DEF InFunction, VersionTaken, AddOps, Set2Ops, LoopStatements
    <2>2. SiteOfCall(w) /\ RefillSound(w)
        BY DEF SiteOfCall, RefillSound, InSet2, AddOps, Set2Ops, LoopStatements
    <2>3. SitesAsAsked(w) /\ PlacesAsAsked(w)
        BY DEF SitesAsAsked, PlacesAsAsked
    <2> QED
        BY <2>1, <2>2, <2>3 DEF CallSound
<1> QED
    BY <1>2, <1>3 DEF CallInv

-----------------------------------------------------------------------------
(* What a step leaves to the other sessions *)

\* Removed sites stay removed, and nobody locks them again.
LEMMA RemovedGrows ==
    ASSUME IInv, NEW w \in Sessions, Step(w)
    PROVE  removed \subseteq removed'
<1>1. CASE Commit(w)
    BY <1>1 DEF Commit
<1>2. CASE ~Commit(w)
    BY <1>2, TablesKept DEF tables
<1> QED
    BY <1>1, <1>2

\* A session locks only rows it sees, and the row it is about to insert.
LEMMA RemovedNotLocked ==
    ASSUME IInv, NEW w \in Sessions, Step(w), NEW s \in SiteIds, siteLock[s] # w,
           s < nextid, ~Exists(w, s)
    PROVE  siteLock'[s] # w
<1> USE DEF IInv, TypeOK
<1>1. CASE NewCall(w)
    BY <1>1 DEF NewCall, AddOrModify, SiteRemove, DeviceSiteMove, DeviceSiteSet, CallSet2, Call, locks
<1>2. CASE Release(w)
    BY <1>2, Released
<1>3. CASE CheckParent(w)
    BY <1>3 DEF CheckParent
<1>4. CASE LockSite(w)
    BY <1>4 DEF LockSite
<1>5. CASE DeleteSite(w)
    BY <1>5 DEF DeleteSite
<1>6. CASE TouchSite(w)
    BY <1>6 DEF TouchSite
<1>7. CASE CheckName(w) \/ WriteSite(w) \/ Unlink(w) \/ Bump(w)
    BY <1>7 DEF CheckName, WriteSite, Unlink, Bump, locks
<1>8. CASE DeviceSiteSet2(w) \/ NextRow(w) \/ RowsDone(w) \/ LockRow(w)
    BY <1>8 DEF DeviceSiteSet2, NextRow, RowsDone, LockRow, locks
<1>9. CASE CountRows(w) \/ InsertRow(w) \/ ForeignKey(w)
    BY <1>9 DEF CountRows, InsertRow, ForeignKey, locks
<1> QED
    BY <1>1, <1>2, <1>3, <1>4, <1>5, <1>6, <1>7, <1>8, <1>9
       DEF Step, Statement, NameExists, NotUnique, RowIsThere, NoSuchSite, DeadlockVictim, Abort,
           RollBack, Commit

LEMMA RemovedGoneStep ==
    ASSUME Inv, NEW w \in Sessions, Step(w)
    PROVE  RemovedGone'
<1> USE DEF Inv, IInv, TypeOK
<1>1. Root \in Known'
    BY KnownKept DEF CallInv, RemovedGone
<1>2. ASSUME NEW s \in removed PROVE site[s] = NoRow /\ siteLock[s] = NoSession /\ s \in SiteIds
    BY DEF CallInv, RemovedGone
<1>3. CASE Commit(w)
    <2>1. ASSUME NEW s \in removed' PROVE site'[s] = NoRow /\ siteLock'[s] = NoSession
        <3>1. s \in SiteIds /\ (s \in removed \/ draftSite[w][s] = NoRow)
            BY <1>2, <1>3, <2>1 DEF Commit
        <3>2. CASE s \in removed
            <4>1. draftSite[w][s] = Kept
                BY <1>2, <3>2, NamesAssumption DEF WritesLocked
            <4> QED
                BY <1>2, <1>3, <3>2, <4>1 DEF Commit, Release, SiteSeen
        <3>3. CASE draftSite[w][s] = NoRow
            <4>1. siteLock[s] = w /\ NoRow # Kept
                BY <3>1, <3>3, MarkersAssumption DEF WritesLocked
            <4> QED
                BY <1>3, <3>1, <3>3, <4>1 DEF Commit, Release, SiteSeen
        <3> QED
            BY <3>1, <3>2, <3>3
    <2> QED
        BY <1>1, <2>1 DEF RemovedGone
<1>4. CASE ~Commit(w)
    <2>1. UNCHANGED tables
        BY <1>4, TablesKept
    <2>2. ASSUME NEW s \in removed PROVE siteLock'[s] = NoSession
        <3>1. s < nextid
            BY <1>2, <2>2 DEF IdsBounded, Known
        <3>2. ~Exists(w, s)
            <4>1. draftSite[w][s] = Kept
                BY <1>2, <2>2, NamesAssumption DEF WritesLocked
            <4> QED
                BY <1>2, <2>2, <4>1 DEF Exists, SiteSeen
        <3>3. siteLock'[s] # w
            <4>1. s \in SiteIds /\ siteLock[s] # w
                BY <1>2, <2>2, NamesAssumption
            <4> QED
                BY <3>1, <3>2, <4>1, RemovedNotLocked
        <3>4. ASSUME NEW v \in Sessions \ {w} PROVE siteLock'[s] # v
            BY <1>2, <2>2, <3>4, OthersKept, NamesAssumption DEF Untouched
        <3>5. siteLock'[s] \in Sessions \union {NoSession}
            <4>1. TypeOK'
                BY StepTypes
            <4> QED
                BY <1>2, <2>2, <4>1
        <3> QED
            BY <3>3, <3>4, <3>5
    <2> QED
        BY <1>1, <1>2, <2>1, <2>2 DEF RemovedGone, tables
<1> QED
    BY <1>3, <1>4

\* A call that has come past the lookup of its parent, or has taken the version,
\* has a site.
LEMMA SidThere ==
    ASSUME Inv, NEW w \in Sessions, pc[w] \notin {"idle", "parent", "commit"} \/ verLock = w
    PROVE  sid[w] \in SiteIds
<1>1. SiteOfCall(w)
    BY DEF Inv, CallInv, CallSound
<1>2. CASE sid[w] \in Known
    BY <1>2 DEF Known, Inv, IInv, TypeOK
<1>3. CASE sid[w] \notin Known
    BY <1>1, <1>3 DEF SiteOfCall, Creating
<1> QED
    BY <1>2, <1>3

\* While a session has a draft of a site, no other session commits one.
LEMMA SitesStayWhileDrafted ==
    ASSUME Inv, NEW w \in Sessions, Step(w), NEW v \in Sessions \ {w},
           NEW s \in SiteIds, draftSite[v][s] # Kept
    PROVE  site' = site
<1>1. verLock = v
    BY DEF Inv, IInv, VersionHeld
<1>2. CASE Commit(w)
    <2>1. \A t \in SiteIds : draftSite[w][t] = Kept
        BY <1>1 DEF Inv, IInv, VersionHeld
    <2>2. site' = [t \in SiteIds |-> site[t]]
        BY <1>2, <2>1 DEF Commit, SiteSeen
    <2> QED
        BY <2>2 DEF Inv, IInv, TypeOK
<1>3. CASE ~Commit(w)
    BY <1>3, TablesKept DEF tables
<1> QED
    BY <1>2, <1>3

\* A site that is known keeps its parent until it is removed, for good.
LEMMA ParentsStay ==
    ASSUME Inv, NEW w \in Sessions, Step(w), NEW s \in Known
    PROVE  site'[s] = NoRow \/ (site[s] # NoRow /\ site'[s].parent = site[s].parent)
<1> USE DEF Inv, IInv, TypeOK
<1>1. s \in SiteIds
    BY DEF Known
<1>2. CASE Commit(w)
    <2>1. site'[s] = SiteSeen(w, s)
        BY <1>1, <1>2 DEF Commit
    <2>2. CASE draftSite[w][s] \notin {Kept, NoRow}
        <3>1. siteLock[s] = w
            BY <1>1, <2>2 DEF WritesLocked
        <3>2. site[s] # NoRow
            BY <3>1, NamesAssumption DEF Known, CallInv, RemovedGone
        <3>3. draftSite[w][s].parent = site[s].parent
            BY <1>1, <2>2, <3>2 DEF CallInv, CallSound, SitesAsAsked
        <3> QED
            BY <2>1, <2>2, <3>2, <3>3 DEF SiteSeen
    <2> QED
        BY <2>1, <2>2 DEF SiteSeen
<1>3. CASE ~Commit(w)
    BY <1>3, TablesKept DEF tables
<1> QED
    BY <1>2, <1>3

\* A step of w leaves the calls of the others sound.
LEMMA OthersSound ==
    ASSUME Inv, NEW w \in Sessions, Step(w), NEW v \in Sessions \ {w}
    PROVE  CallSound(v)'
<1>1. Untouched(v) /\ nam'[v] = nam[v] /\ devs'[v] = devs[v] /\ (verLock' = v <=> verLock = v)
    BY OthersKept, OthersArgsKept DEF Inv, IInv
<1>2. Known \subseteq Known' /\ removed \subseteq removed'
    BY KnownKept, RemovedGrows DEF Inv
<1>3. CallSound(v)
    BY DEF Inv, CallInv
<1>4. pc[v] \notin {"idle", "parent", "commit"} \/ verLock = v => sid[v] \in SiteIds
    BY SidThere
<1>5. /\ \A s \in SiteIds : siteLock[s] = v => site'[s] = site[s]
      /\ \A d \in Devices : devLock[d] = v => place'[d] = place[d]
    BY LockedSitesStay DEF Inv
<1>6. InFunction(v)' /\ VersionTaken(v)'
    <2>1. InFunction(v)'
        BY <1>1, <1>3 DEF CallSound, InFunction, Untouched
    <2>2. VersionTaken(v)'
        BY <1>1, <1>3 DEF CallSound, VersionTaken, Untouched
    <2> QED
        BY <2>1, <2>2
<1>7. SiteOfCall(v)'
    BY <1>1, <1>2, <1>3 DEF CallSound, SiteOfCall, Creating, Untouched
<1>8. RefillSound(v)'
    <2>1. RefillSound(v)
        BY <1>3 DEF CallSound
    <2>2. Refilling(v) /\ sid[v] \in SiteIds => Refilling(v)'
        BY <1>1, <1>5 DEF Refilling, SiteSeen, Untouched
    <2>3. pc'[v] = pc[v] /\ op'[v] = op[v] /\ sid'[v] = sid[v] /\ loop'[v] = loop[v]
          /\ other'[v] = other[v] /\ draftPlace'[v] = draftPlace[v]
          /\ (sid[v] \in SiteIds /\ siteLock[sid[v]] = v => siteLock'[sid[v]] = v)
        BY <1>1 DEF Untouched
    <2>4. InSet2(v)' <=> InSet2(v)
        BY <1>1, <2>3 DEF InSet2
    <2>5. op[v] = "device_site_set2" /\ ParentRead(v) => ParentRead(v)'
        <3>1. op[v] = "device_site_set2" => sid[v] \in Known
            BY <1>3 DEF CallSound, SiteOfCall, AddOps
        <3> QED
            BY <2>3, <3>1, ParentsStay DEF ParentRead
    <2>6. pc[v] = "set2" \/ InSet2(v) => sid[v] \in SiteIds
        BY <1>4 DEF InSet2, LoopStatements
    <2> QED
        BY <1>1, <1>2, <2>1, <2>2, <2>3, <2>4, <2>5, <2>6 DEF RefillSound
<1>9. SitesAsAsked(v)'
    <2>1. \A s \in SiteIds : draftSite[v][s] # Kept => site' = site
        BY SitesStayWhileDrafted
    <2>2. SitesAsAsked(v)
        BY <1>3 DEF CallSound
    <2>3. draftSite'[v] = draftSite[v] /\ sid'[v] = sid[v] /\ op'[v] = op[v] /\ pc'[v] = pc[v]
        BY <1>1 DEF Untouched
    <2> QED
        BY <1>1, <1>2, <2>1, <2>2, <2>3, MarkersAssumption DEF SitesAsAsked
<1>10. PlacesAsAsked(v)'
    <2>1. \A d \in Devices : draftPlace[v][d] # Kept => place'[d] = place[d]
        BY <1>5 DEF Inv, IInv, WritesLocked
    <2>2. PlacesAsAsked(v)
        BY <1>3 DEF CallSound
    <2>3. draftPlace'[v] = draftPlace[v] /\ sid'[v] = sid[v] /\ op'[v] = op[v] /\ other'[v] = other[v]
        BY <1>1 DEF Untouched
    <2> QED
        BY <1>1, <2>1, <2>2, <2>3 DEF PlacesAsAsked
<1> QED
    BY <1>6, <1>7, <1>8, <1>9, <1>10 DEF CallSound

-----------------------------------------------------------------------------
(* What a step leaves to the session that takes it *)

\* After its end a call has nothing left to be sound about.
LEMMA ReleasedSound ==
    ASSUME Inv, NEW w \in Sessions, Release(w)
    PROVE  CallSound(w)'
<1>1. /\ pc'[w] = "idle" /\ op'[w] = "site_addormodify" /\ sid'[w] = 0 /\ verLock' # w
      /\ \A s \in SiteIds : draftSite'[w][s] = Kept
      /\ \A d \in Devices : draftPlace'[w][d] = Kept
    BY NamesAssumption DEF Release, GoTo, Inv, IInv, TypeOK
<1>2. InFunction(w)' /\ VersionTaken(w)'
    BY <1>1 DEF InFunction, VersionTaken, AddOps, Set2Ops, LoopStatements
<1>3. SiteOfCall(w)' /\ RefillSound(w)'
    BY <1>1 DEF SiteOfCall, RefillSound, InSet2, AddOps, Set2Ops
<1>4. SitesAsAsked(w)' /\ PlacesAsAsked(w)'
    BY <1>1, MarkersAssumption DEF SitesAsAsked, PlacesAsAsked
<1> QED
    BY <1>2, <1>3, <1>4 DEF CallSound

\* A call begins with a site it may be about, and with no draft.
LEMMA NewCallSound ==
    ASSUME Inv, NEW w \in Sessions, NewCall(w)
    PROVE  CallSound(w)'
<1> USE DEF Inv, IInv, TypeOK
<1>1. /\ pc[w] = "idle" /\ UNCHANGED <<tables, drafts, locks>>
    BY DEF NewCall, AddOrModify, SiteRemove, DeviceSiteMove, DeviceSiteSet, CallSet2, Call
<1>2. /\ verLock' # w
      /\ \A s \in SiteIds : draftSite'[w][s] = Kept
      /\ \A d \in Devices : draftPlace'[w][d] = Kept
    BY <1>1 DEF CallInv, CallSound, VersionTaken, CallsStartClean, drafts, locks
<1>3. \/ pc'[w] = "parent" /\ sid'[w] = 0 /\ op'[w] \in AddOps
      \/ pc'[w] = "lock" /\ sid'[w] \in Known /\ op'[w] \in AddOps
      \/ pc'[w] = "unlink" /\ sid'[w] \in Known /\ op'[w] = "site_remove"
      \/ pc'[w] = "rows" /\ sid'[w] \in Known /\ op'[w] = "device_site_move" /\ loop'[w] = "reassign"
      \/ /\ pc'[w] = "rows" /\ sid'[w] \in Known /\ op'[w] = "device_site_set" /\ loop'[w] = "place"
         /\ todo'[w] = devs'[w]
      \/ pc'[w] = "set2" /\ sid'[w] \in Known /\ op'[w] = "device_site_set2"
    <2>1. ASSUME NEW f \in AddOps, NEW s, NEW p, NEW n, NEW ds, AddOrModify(w, f, s, p, n, ds)
          PROVE  \/ pc'[w] = "parent" /\ sid'[w] = 0 /\ op'[w] \in AddOps
                 \/ pc'[w] = "lock" /\ sid'[w] \in Known /\ op'[w] \in AddOps
        <3>1. CASE Exists(w, s)
            <4>1. s \in SiteIds /\ draftSite[w][s] = Kept
                BY <1>1, <3>1 DEF Exists, CallsStartClean
            <4>2. s \in Known
                BY <3>1, <4>1 DEF Exists, SiteSeen, Known
            <4> QED
                BY <2>1, <3>1, <4>2 DEF AddOrModify, Call, GoTo, AddOps
        <3>2. CASE ~Exists(w, s)
            BY <2>1, <3>2 DEF AddOrModify, Call, GoTo, AddOps
        <3> QED
            BY <3>1, <3>2
    <2>2. CASE \E s \in Known : SiteRemove(w, s)
        BY <2>2 DEF SiteRemove, Call, GoTo
    <2>3. CASE \E s, t \in Known : s # t /\ DeviceSiteMove(w, s, t)
        BY <2>3 DEF DeviceSiteMove, Call, GoTo
    <2>4. CASE \E s \in Known, d \in Devices : DeviceSiteSet(w, s, d)
        BY <2>4 DEF DeviceSiteSet, Call, GoTo
    <2>5. CASE \E s \in Known, ds \in SUBSET Devices : CallSet2(w, s, ds)
        BY <2>5 DEF CallSet2, Call, GoTo
    <2> QED
        BY <2>1, <2>2, <2>3, <2>4, <2>5 DEF NewCall, AddOps
<1>4. Known' = Known
    BY <1>1 DEF Known, tables
<1>5. InFunction(w)' /\ VersionTaken(w)'
    BY <1>2, <1>3 DEF InFunction, VersionTaken, AddOps, Set2Ops, LoopStatements
<1>6. SiteOfCall(w)' /\ RefillSound(w)'
    BY <1>2, <1>3, <1>4 DEF SiteOfCall, RefillSound, InSet2, AddOps, Set2Ops, LoopStatements
<1>7. SitesAsAsked(w)' /\ PlacesAsAsked(w)'
    <2>1. SitesAsAsked(w)'
        <3>1. op'[w] = "site_remove" => pc'[w] = "unlink"
            BY <1>3 DEF AddOps
        <3> QED
            BY <1>2, <3>1, MarkersAssumption DEF SitesAsAsked
    <2>2. PlacesAsAsked(w)'
        BY <1>2 DEF PlacesAsAsked
    <2> QED
        BY <2>1, <2>2
<1> QED
    BY <1>5, <1>6, <1>7 DEF CallSound

\* Before its first write a call has no draft, and not the version.
LEMMA CleanBefore ==
    ASSUME Inv, NEW w \in Sessions,
           pc[w] \in {"parent", "lock", "name", "write", "unlink", "delete"}
    PROVE  /\ \A s \in SiteIds : draftSite[w][s] = Kept /\ SiteSeen(w, s) = site[s]
           /\ \A d \in Devices : draftPlace[w][d] = Kept
           /\ pc[w] # "parent" => sid[w] \in SiteIds
           /\ pc[w] \in {"lock", "unlink", "delete"} => sid[w] \in Known
<1>1. /\ \A s \in SiteIds : draftSite[w][s] = Kept
      /\ \A d \in Devices : draftPlace[w][d] = Kept
    BY DEF Inv, IInv, CallsStartClean
<1>2. pc[w] # "parent" => sid[w] \in SiteIds
    BY SidThere
<1>3. pc[w] \in {"lock", "unlink", "delete"} => sid[w] \in Known
    BY <1>1, <1>2 DEF Inv, CallInv, CallSound, SiteOfCall, Creating
<1> QED
    BY <1>1, <1>2, <1>3 DEF SiteSeen

\* The statements that look before a site is written.
LEMMA LookingSound ==
    ASSUME Inv, NEW w \in Sessions,
           CheckParent(w) \/ LockSite(w) \/ CheckName(w) \/ Unlink(w)
    PROVE  CallSound(w)'
<1> USE DEF Inv, IInv, TypeOK
<1>1. pc[w] \in {"parent", "lock", "name", "unlink"} /\ UNCHANGED <<tables, drafts>>
    BY DEF CheckParent, LockSite, CheckName, Unlink
<1>2. /\ \A s \in SiteIds : draftSite'[w][s] = Kept
      /\ \A d \in Devices : draftPlace'[w][d] = Kept
    BY <1>1, CleanBefore DEF drafts
<1>3. Known' = Known
    BY <1>1 DEF Known, tables
<1>4. InFunction(w) /\ VersionTaken(w) /\ SiteOfCall(w) /\ UNCHANGED op
    BY DEF CallInv, CallSound, CheckParent, LockSite, CheckName, Unlink, args
<1>5. \/ pc'[w] = "commit" /\ sid'[w] = 0 /\ op[w] \in AddOps /\ verLock' # w
      \/ pc'[w] = "name" /\ op[w] \in AddOps /\ verLock' # w /\ sid'[w] \in SiteIds /\ siteLock'[sid'[w]] = w
      \/ pc'[w] = "write" /\ op[w] \in AddOps /\ verLock' # w /\ sid'[w] \in SiteIds /\ siteLock'[sid'[w]] = w
      \/ /\ pc'[w] = AfterWrite(w) /\ op[w] \in AddOps /\ verLock' # w /\ sid'[w] \in Known
         /\ sid'[w] \in removed \/ siteLock'[sid'[w]] = w
      \/ pc'[w] = "delete" /\ op[w] = "site_remove" /\ sid'[w] \in Known
    <2>1. CASE CheckParent(w)
        <3>1. nextid <= MaxSite => nextid \in SiteIds
            BY DEF IdsBounded, Root, SiteIds
        <3>2. pc[w] = "parent" /\ sid[w] = 0 /\ verLock' = verLock
            BY <1>4, <2>1 DEF CheckParent, SiteOfCall
        <3> QED
            BY <1>4, <2>1, <3>1, <3>2 DEF CheckParent, GoTo, InFunction, VersionTaken
    <2>2. CASE LockSite(w)
        <3>1. /\ pc[w] = "lock" /\ sid[w] \in Known /\ sid[w] \in SiteIds /\ UNCHANGED <<sid, verLock>>
              /\ Exists(w, sid[w]) <=> site[sid[w]] # NoRow
            BY <2>2, CleanBefore DEF LockSite, args, Exists
        <3>2. \/ ~Exists(w, sid[w]) /\ pc'[w] = AfterWrite(w)
              \/ siteLock'[sid[w]] = w /\ (pc'[w] = "name" \/ pc'[w] = AfterWrite(w))
            BY <2>2, <3>1 DEF LockSite, GoTo
        <3> QED
            BY <1>4, <3>1, <3>2 DEF InFunction, VersionTaken, Known
    <2>3. CASE CheckName(w)
        BY <1>4, <2>3 DEF CheckName, GoTo, InFunction, VersionTaken, WritesLocked, args, locks
    <2>4. CASE Unlink(w)
        BY <1>4, <2>4, CleanBefore DEF Unlink, GoTo, StatementsInPlace, args
    <2> QED
        BY <2>1, <2>2, <2>3, <2>4
<1>6. InFunction(w)' /\ VersionTaken(w)'
    BY <1>4, <1>5 DEF InFunction, VersionTaken, AddOps, Set2Ops, LoopStatements, AfterWrite
<1>7. SiteOfCall(w)'
    BY <1>3, <1>4, <1>5 DEF SiteOfCall, Creating, AddOps, AfterWrite
<1>8. RefillSound(w)'
    BY <1>1, <1>4, <1>5 DEF RefillSound, InSet2, AddOps, Set2Ops, LoopStatements, AfterWrite, tables
<1>9. SitesAsAsked(w)' /\ PlacesAsAsked(w)'
    <2>1. SitesAsAsked(w)'
        BY <1>2, <1>4, <1>5, MarkersAssumption DEF SitesAsAsked, AddOps, AfterWrite
    <2>2. PlacesAsAsked(w)'
        BY <1>2 DEF PlacesAsAsked
    <2> QED
        BY <2>1, <2>2
<1> QED
    BY <1>6, <1>7, <1>8, <1>9 DEF CallSound

\* A site is written as the call was asked to.
LEMMA WriteSiteSound ==
    ASSUME Inv, NEW w \in Sessions, WriteSite(w)
    PROVE  CallSound(w)'
<1> USE DEF Inv, IInv, TypeOK
<1> DEFINE s == sid[w]
           p == IF Exists(w, s) THEN SiteSeen(w, s).parent ELSE other[w]
           row == [name |-> nam[w], parent |-> p]
<1>1. pc[w] = "write" /\ s \in SiteIds /\ siteLock[s] = w
    BY DEF WriteSite, WritesLocked
<1>2. /\ UNCHANGED <<tables, args, rows, draftPlace, siteLock>>
      /\ pc'[w] = AfterWrite(w)
      /\ verLock' = w
      /\ draftSite' = [draftSite EXCEPT ![w][s] = row]
      /\ \A t \in SiteIds \ {s} : Exists(w, t) => SiteSeen(w, t).name # nam[w]
    BY DEF WriteSite, GoTo
<1>3. /\ \A t \in SiteIds : draftSite[w][t] = Kept /\ SiteSeen(w, t) = site[t]
      /\ \A d \in Devices : draftPlace[w][d] = Kept
    BY <1>1, CleanBefore
<1>4. row \in SiteRow /\ row \notin {Kept, NoRow}
    <2>1. p \in 0 .. MaxSite
        <3>1. Exists(w, s) => SiteSeen(w, s) \in SiteRow
            BY <1>1, <1>3 DEF Exists
        <3> QED
            BY <3>1 DEF SiteRow
    <2> QED
        BY <2>1, MarkersAssumption DEF SiteRow
<1>5. site[s] # NoRow => row.parent = site[s].parent
    BY <1>1, <1>3 DEF Exists
<1>6. row.name = nam[w]
    OBVIOUS
<1> HIDE DEF row
<1>7. /\ draftSite'[w][s] = row
      /\ \A t \in SiteIds \ {s} : draftSite'[w][t] = Kept
    BY <1>1, <1>2, <1>3
<1> HIDE DEF s, p
<1>8. Known' = Known
    BY <1>2 DEF Known, tables
<1>9. op[w] \in AddOps /\ InFunction(w)
    BY <1>1 DEF CallInv, CallSound, InFunction
<1>10. InFunction(w)'
    BY <1>2, <1>9 DEF InFunction, AfterWrite, AddOps, Set2Ops, LoopStatements, args
<1>11. VersionTaken(w)'
    BY <1>2, <1>4, <1>7, <1>9 DEF VersionTaken, AfterWrite, AddOps, Set2Ops, args, s
<1>12. SiteOfCall(w)'
    BY <1>1, <1>2, <1>4, <1>7, <1>8, <1>9 DEF SiteOfCall, Creating, AfterWrite, args, s
<1>13. RefillSound(w)'
    BY <1>1, <1>2, <1>9 DEF RefillSound, InSet2, AfterWrite, AddOps, Set2Ops, LoopStatements, args, s
<1>14. SitesAsAsked(w)'
    <2>1. \A t \in SiteIds \ {s} : site[t] # NoRow => site[t].name # nam[w]
        BY <1>2, <1>3 DEF Exists
    <2>2. site' = site /\ nam' = nam /\ op' = op /\ sid'[w] = s
        BY <1>2 DEF tables, args, s
    <2>3. ASSUME NEW t \in SiteIds, draftSite'[w][t] # Kept
          PROVE  t = s /\ draftSite'[w][t] = row
        BY <1>7, <2>3
    <2>4. NoRow # Kept
        BY MarkersAssumption
    <2>5. ASSUME NEW t \in SiteIds, draftSite'[w][t] \notin {Kept, NoRow}
          PROVE  /\ t = sid'[w]
                 /\ draftSite'[w][t].name = nam'[w]
                 /\ \A u \in SiteIds \ {t} : site'[u] # NoRow => site'[u].name # nam'[w]
                 /\ site'[t] # NoRow => draftSite'[w][t].parent = site'[t].parent
        BY <1>5, <1>6, <2>1, <2>2, <2>3, <2>5
    <2> QED
        BY <1>4, <1>9, <2>2, <2>3, <2>4, <2>5 DEF SitesAsAsked, AddOps
<1>15. PlacesAsAsked(w)'
    BY <1>2, <1>3 DEF PlacesAsAsked
<1> QED
    BY <1>10, <1>11, <1>12, <1>13, <1>14, <1>15 DEF CallSound

\* A site that is removed is one that is there.
LEMMA DeleteSiteSound ==
    ASSUME Inv, NEW w \in Sessions, DeleteSite(w)
    PROVE  CallSound(w)'
<1> USE DEF Inv, IInv, TypeOK
<1>1. pc[w] = "delete" /\ op[w] = "site_remove" /\ UNCHANGED <<tables, args, draftPlace>>
    BY DEF DeleteSite, StatementsInPlace
<1>2. /\ \A t \in SiteIds : draftSite[w][t] = Kept /\ SiteSeen(w, t) = site[t]
      /\ \A d \in Devices : draftPlace[w][d] = Kept
      /\ sid[w] \in SiteIds /\ sid[w] \in Known
    BY <1>1, CleanBefore
<1>3. Known' = Known
    BY <1>1 DEF Known, tables
<1>4. \/ pc'[w] = "bump" /\ draftSite' = draftSite /\ sid[w] \in removed
      \/ /\ pc'[w] = "rows" /\ loop'[w] = "delete" /\ site[sid[w]] # NoRow
         /\ draftSite' = [draftSite EXCEPT ![w][sid[w]] = NoRow]
    BY <1>2 DEF DeleteSite, GoTo, Exists, Known
<1>5. InFunction(w)' /\ VersionTaken(w)'
    BY <1>1, <1>4 DEF InFunction, VersionTaken, AddOps, Set2Ops, LoopStatements, args
<1>6. SiteOfCall(w)' /\ RefillSound(w)'
    BY <1>1, <1>2, <1>3, <1>4 DEF SiteOfCall, RefillSound, InSet2, AddOps, Set2Ops, LoopStatements, args
<1>7. SitesAsAsked(w)'
    <2>1. \A t \in SiteIds : draftSite'[w][t] = Kept \/ (draftSite'[w][t] = NoRow /\ site[t] # NoRow)
        BY <1>2, <1>4
    <2>2. draftSite'[w][sid[w]] = NoRow \/ sid[w] \in removed
        BY <1>2, <1>4
    <2> QED
        BY <1>1, <2>1, <2>2, MarkersAssumption DEF SitesAsAsked, tables, args
<1>8. PlacesAsAsked(w)'
    BY <1>1, <1>2 DEF PlacesAsAsked
<1> QED
    BY <1>5, <1>6, <1>7, <1>8 DEF CallSound

\* The last statements change nothing but the locks.
LEMMA LastSound ==
    ASSUME Inv, NEW w \in Sessions, TouchSite(w) \/ Bump(w)
    PROVE  CallSound(w)'
<1> USE DEF Inv, IInv, TypeOK
<1>1. /\ UNCHANGED <<tables, args, rows, drafts>>
      /\ \/ pc[w] = "touch" /\ pc'[w] = "bump"
         \/ pc[w] = "bump" /\ pc'[w] = "commit" /\ verLock' = w
    BY DEF TouchSite, Bump, GoTo
<1>2. sid[w] \in SiteIds
    BY <1>1, SidThere
<1>3. siteLock[sid[w]] = w => siteLock'[sid[w]] = w
    BY <1>2 DEF TouchSite, Bump
<1>4. CallSound(w) /\ Known' = Known
    BY <1>1 DEF CallInv, Known, tables
<1>5. InFunction(w)' /\ VersionTaken(w)'
    BY <1>1, <1>4 DEF CallSound, InFunction, VersionTaken, AddOps, Set2Ops, LoopStatements, args, rows
<1>6. SiteOfCall(w)'
    BY <1>1, <1>2, <1>3, <1>4 DEF CallSound, SiteOfCall, Creating, SiteIds, args, drafts
<1>7. RefillSound(w)'
    <2>1. Refilling(w) => Refilling(w)'
        BY <1>1, <1>3 DEF Refilling, SiteSeen, tables, args, drafts
    <2>2. ParentRead(w)' <=> ParentRead(w)
        BY <1>1 DEF ParentRead, tables, args
    <2>3. InSet2(w) /\ pc'[w] \notin LoopStatements \union {"set2"}
        BY <1>1 DEF InSet2, LoopStatements
    <2> QED
        BY <1>1, <1>4, <2>1, <2>2, <2>3 DEF CallSound, RefillSound, args
<1>8. SitesAsAsked(w)' /\ PlacesAsAsked(w)'
    <2>1. SitesAsAsked(w)'
        BY <1>1, <1>4 DEF CallSound, InFunction, SitesAsAsked, tables, args, drafts
    <2>2. PlacesAsAsked(w)'
        BY <1>1, <1>4 DEF CallSound, PlacesAsAsked, tables, args, drafts
    <2> QED
        BY <2>1, <2>2
<1> QED
    BY <1>5, <1>6, <1>7, <1>8 DEF CallSound

\* site_devices_addormodify finds its site again if and only if it has locked it.
LEMMA RefillFound ==
    ASSUME Inv, NEW w \in Sessions, pc[w] = "set2", op[w] = "site_devices_addormodify"
    PROVE  /\ Exists(w, sid[w]) <=> siteLock[sid[w]] = w
           /\ ~Exists(w, sid[w]) => verLock # w
<1>1. sid[w] \in SiteIds
    BY SidThere
<1>2. CallSound(w)
    BY DEF Inv, CallInv
<1>3. draftSite[w][sid[w]] # Kept => siteLock[sid[w]] = w
    BY <1>1 DEF Inv, IInv, WritesLocked
<1>4. draftSite[w][sid[w]] # NoRow
    BY <1>1, <1>2 DEF Inv, IInv, CascadesFinish
<1>5. sid[w] \in removed => siteLock[sid[w]] # w /\ site[sid[w]] = NoRow
    BY NamesAssumption DEF Inv, CallInv, RemovedGone
<1>6. CASE siteLock[sid[w]] = w
    <2>1. sid[w] \in Known => site[sid[w]] # NoRow
        BY <1>5, <1>6 DEF Known
    <2>2. sid[w] \notin Known => draftSite[w][sid[w]] # Kept
        BY <1>1, <1>2 DEF CallSound, SiteOfCall, Creating, SiteIds
    <2> QED
        BY <1>1, <1>4, <1>6, <2>1, <2>2 DEF Exists, SiteSeen
<1>7. CASE siteLock[sid[w]] # w
    BY <1>1, <1>2, <1>3, <1>5, <1>7 DEF CallSound, RefillSound, Exists, SiteSeen
<1> QED
    BY <1>6, <1>7

\* The functions that only place devices write no site.
LEMMA NoSiteWritten ==
    ASSUME Inv, NEW w \in Sessions,
           op[w] \in {"device_site_set", "device_site_set2", "device_site_move"}
    PROVE  \A t \in SiteIds : draftSite[w][t] = Kept
<1>1. SitesAsAsked(w) /\ op[w] \notin AddOps
    BY DEF Inv, CallInv, CallSound, AddOps
<1>2. \A t \in SiteIds : draftSite[w][t] \in {Kept, NoRow}
    BY <1>1 DEF SitesAsAsked
<1>3. \A t \in SiteIds : draftSite[w][t] # NoRow
    BY DEF Inv, IInv, CascadesFinish
<1> QED
    BY <1>2, <1>3

LEMMA DeviceSiteSet2Sound ==
    ASSUME Inv, NEW w \in Sessions, DeviceSiteSet2(w)
    PROVE  CallSound(w)'
<1> USE DEF Inv, IInv, TypeOK
<1>1. /\ pc[w] = "set2" /\ op[w] \in Set2Ops /\ CallSound(w)
      /\ UNCHANGED <<tables, op, sid, nam, devs, dev, drafts, locks>>
    BY DEF DeviceSiteSet2, CallInv, CallSound, InFunction
<1>2. sid[w] \in SiteIds
    BY <1>1, SidThere
<1>3. op[w] = "site_devices_addormodify" =>
          /\ Exists(w, sid[w]) <=> siteLock[sid[w]] = w
          /\ ~Exists(w, sid[w]) => verLock # w
    BY <1>1, RefillFound
<1>4. \/ ~Exists(w, sid[w]) /\ pc'[w] = "commit"
      \/ /\ Exists(w, sid[w]) /\ pc'[w] = "rows" /\ other'[w] = SiteSeen(w, sid[w]).parent
         /\ \/ loop'[w] = "reassign" /\ other'[w] # 0
            \/ loop'[w] = "place" /\ todo'[w] = devs[w]
    <2>1. CASE Exists(w, sid[w])
        <3> DEFINE p == SiteSeen(w, sid[w]).parent
        <3>1. /\ pc' = [pc EXCEPT ![w] = "rows"] /\ other' = [other EXCEPT ![w] = p]
              /\ loop' = [loop EXCEPT ![w] = IF p > 0 THEN "reassign" ELSE "place"]
              /\ todo' = [todo EXCEPT ![w] = IF p > 0 THEN {d \in Devices : PlaceSeen(w, d) = sid[w]}
                                                     ELSE devs[w]]
            BY <2>1 DEF DeviceSiteSet2, GoTo
        <3>2. p > 0 => p # 0
            OBVIOUS
        <3> HIDE DEF p
        <3>3. CASE p > 0
            BY <3>1, <3>2, <3>3, <2>1 DEF p
        <3>4. CASE ~(p > 0)
            BY <3>1, <3>4, <2>1 DEF p
        <3> QED
            BY <3>3, <3>4
    <2>2. CASE ~Exists(w, sid[w])
        BY <2>2 DEF DeviceSiteSet2, GoTo
    <2> QED
        BY <2>1, <2>2
<1>5. /\ Known' = Known
      /\ \A s \in SiteIds : SiteSeen(w, s)' = SiteSeen(w, s)
      /\ \A d \in Devices : draftPlace'[w][d] = Kept
    BY <1>1 DEF Known, SiteSeen, tables, drafts, CallsStartClean
<1>6. InFunction(w)' /\ VersionTaken(w)'
    BY <1>1, <1>4 DEF InFunction, VersionTaken, AddOps, Set2Ops, LoopStatements
<1>7. SiteOfCall(w)'
    BY <1>1, <1>2, <1>4, <1>5 DEF CallSound, SiteOfCall, Creating, SiteIds, AddOps, drafts, locks
<1>8. RefillSound(w)'
    <2>1. op'[w] = op[w] /\ sid'[w] = sid[w] /\ pc'[w] \in {"commit", "rows"}
          /\ (~Exists(w, sid[w]) => pc'[w] = "commit") /\ verLock' = verLock
        BY <1>1, <1>4 DEF locks
    <2>2. ASSUME op[w] = "site_devices_addormodify", InSet2(w)' PROVE Refilling(w)'
        <3>1. Exists(w, sid[w])
            BY <1>3, <2>1, <2>2 DEF InSet2, LoopStatements
        <3>2. /\ siteLock'[sid'[w]] = w
              /\ SiteSeen(w, sid[w])' # NoRow
              /\ other'[w] = SiteSeen(w, sid[w])'.parent
            BY <1>1, <1>2, <1>3, <1>4, <1>5, <2>2, <3>1 DEF locks, Exists
        <3> QED
            BY <3>2 DEF Refilling
    <2>3. ASSUME op[w] = "device_site_set2", InSet2(w)' PROVE ParentRead(w)'
        <3>1. SiteSeen(w, sid[w]) = site[sid[w]] /\ site' = site
            BY <1>1, <1>2, <2>3, NoSiteWritten DEF SiteSeen, tables
        <3>2. Exists(w, sid[w]) => other'[w] = site[sid[w]].parent
            BY <1>4, <3>1
        <3>3. ~Exists(w, sid[w]) => site[sid[w]] = NoRow
            BY <1>2, <3>1 DEF Exists
        <3> QED
            BY <2>1, <3>1, <3>2, <3>3 DEF ParentRead
    <2>4. ASSUME NEW d \in Devices PROVE draftPlace'[w][d] \in {Kept, other'[w]}
        BY <1>5
    <2>5. pc'[w] # "set2"
        BY <2>1
    <2> QED
        BY <2>1, <2>2, <2>3, <2>4, <2>5 DEF RefillSound
<1>9. SitesAsAsked(w)' /\ PlacesAsAsked(w)'
    <2>1. SitesAsAsked(w)'
        BY <1>1, <1>4 DEF CallSound, SitesAsAsked, Set2Ops, tables, drafts
    <2>2. PlacesAsAsked(w)'
        BY <1>5 DEF PlacesAsAsked
    <2> QED
        BY <2>1, <2>2
<1> QED
    BY <1>6, <1>7, <1>8, <1>9 DEF CallSound

RowStatement(w) ==
    NextRow(w) \/ RowsDone(w) \/ LockRow(w) \/ CountRows(w) \/ InsertRow(w) \/ ForeignKey(w)

\* The loops over rows stay in their functions.
LEMMA RowsInFunction ==
    ASSUME Inv, NEW w \in Sessions, RowStatement(w)
    PROVE  /\ InFunction(w)'
           /\ pc[w] \in LoopStatements
           /\ pc'[w] \in LoopStatements \union {"touch", "bump"}
           /\ op[w] = "site_remove" => pc'[w] \in {"rows", "row", "bump"}
           /\ loop'[w] \in {loop[w], "place"}
           /\ UNCHANGED <<tables, args, draftSite, siteLock, verLock>>
<1> USE DEF Inv, IInv, TypeOK
<1>1. pc[w] \in LoopStatements /\ UNCHANGED <<tables, args, draftSite, siteLock, verLock>>
    BY DEF RowStatement, NextRow, RowsDone, LockRow, CountRows, InsertRow, ForeignKey, LoopStatements,
           drafts, locks
<1>2. InFunction(w) /\ (pc[w] \in {"count", "insert"} => loop[w] = "place")
    BY DEF CallInv, CallSound, StatementsInPlace
<1>3. /\ InFunction(w)'
      /\ pc'[w] \in LoopStatements \union {"touch", "bump"}
      /\ op[w] = "site_remove" => pc'[w] \in {"rows", "row", "bump"}
      /\ loop'[w] \in {loop[w], "place"}
    <2> USE DEF InFunction, LoopStatements, AddOps, Set2Ops, GoTo, args
    <2>1. CASE NextRow(w)
        BY <1>2, <2>1 DEF NextRow
    <2>2. CASE RowsDone(w)
        BY <1>2, <2>2 DEF RowsDone, rows
    <2>3. CASE LockRow(w)
        <3>1. /\ pc[w] = "row" /\ UNCHANGED <<rows, args>>
              /\ pc'[w] = "rows" \/ (pc'[w] = "fk" /\ loop[w] = "place")
            BY <2>3 DEF LockRow
        <3> QED
            BY <1>2, <3>1 DEF rows
    <2>4. CASE CountRows(w) \/ InsertRow(w)
        BY <1>2, <2>4 DEF CountRows, InsertRow, rows
    <2>5. CASE ForeignKey(w)
        <3>1. pc[w] = "fk" /\ AfterCheck(w) /\ UNCHANGED args
            BY <2>5 DEF ForeignKey
        <3>2. \/ loop[w] = "place" /\ pc'[w] = "rows" /\ UNCHANGED rows
              \/ op[w] = "device_site_move" /\ pc'[w] = "touch" /\ UNCHANGED rows
              \/ /\ loop[w] # "place" /\ op[w] # "device_site_move" /\ pc'[w] = "rows"
                 /\ loop'[w] = "place" /\ todo'[w] = devs[w]
            BY <3>1 DEF AfterCheck
        <3> QED
            BY <1>2, <3>1, <3>2 DEF rows
    <2> QED
        BY <2>1, <2>2, <2>3, <2>4, <2>5 DEF RowStatement
<1> QED
    BY <1>1, <1>3

\* A row of devicesitedevice is written for the device of the loop, if the row
\* is found, or found missing.
LEMMA RowWritten ==
    ASSUME Inv, NEW w \in Sessions, RowStatement(w), NEW d \in Devices,
           draftPlace'[w][d] # draftPlace[w][d]
    PROVE  /\ d = dev[w]
           /\ \/ pc[w] = "insert" /\ draftPlace'[w][d] = sid[w]
              \/ /\ pc[w] = "row" /\ Hit(w, d)
                 /\ draftPlace'[w][d] = IF loop[w] = "delete" THEN Nowhere ELSE Target(w)
<1> USE DEF Inv, IInv, TypeOK
<1>1. CASE LockRow(w)
    <2> DEFINE new == IF loop[w] = "delete" THEN Nowhere ELSE Target(w)
    <2>1. /\ pc[w] = "row"
          /\ draftPlace' = IF Hit(w, dev[w]) THEN [draftPlace EXCEPT ![w][dev[w]] = new] ELSE draftPlace
        BY <1>1 DEF LockRow
    <2> HIDE DEF new
    <2>2. Hit(w, dev[w]) /\ d = dev[w] /\ draftPlace'[w][d] = new
        BY <2>1
    <2> QED
        BY <2>1, <2>2 DEF new
<1>2. CASE InsertRow(w)
    BY <1>2 DEF InsertRow
<1>3. CASE NextRow(w) \/ RowsDone(w) \/ CountRows(w) \/ ForeignKey(w)
    BY <1>3 DEF NextRow, RowsDone, CountRows, ForeignKey, drafts
<1> QED
    BY <1>1, <1>2, <1>3 DEF RowStatement

LEMMA RowsSound ==
    ASSUME Inv, NEW w \in Sessions, RowStatement(w)
    PROVE  CallSound(w)'
<1> USE DEF Inv, IInv, TypeOK
<1>1. /\ InFunction(w)' /\ pc[w] \in LoopStatements
      /\ pc'[w] \in LoopStatements \union {"touch", "bump"}
      /\ op[w] = "site_remove" => pc'[w] \in {"rows", "row", "bump"}
      /\ loop'[w] \in {loop[w], "place"}
      /\ UNCHANGED <<tables, args, draftSite, siteLock, verLock>>
    BY RowsInFunction
<1>2. CallSound(w) /\ sid[w] \in SiteIds /\ Known' = Known
    BY <1>1, SidThere DEF CallInv, LoopStatements, Known, tables
<1>3. VersionTaken(w)'
    BY <1>1 DEF VersionTaken, LoopStatements
<1>4. SiteOfCall(w)'
    BY <1>1, <1>2 DEF CallSound, SiteOfCall, Creating, LoopStatements, SiteIds, args
<1>5. Refilling(w) => Refilling(w)'
    BY <1>1 DEF Refilling, SiteSeen, tables, args
<1>6. ASSUME NEW d \in Devices, draftPlace'[w][d] # draftPlace[w][d]
      PROVE  d = dev[w]
    BY <1>6, RowWritten
<1>7. ParentRead(w)' <=> ParentRead(w)
    BY <1>1 DEF ParentRead, tables, args
<1>8. RefillSound(w)'
    <2>1. ASSUME op[w] \in Set2Ops, loop'[w] = "reassign", NEW d \in Devices
          PROVE  draftPlace'[w][d] \in {Kept, other[w]}
        <3>1. loop[w] = "reassign" /\ draftPlace[w][d] \in {Kept, other[w]}
            BY <1>1, <1>2, <2>1 DEF CallSound, RefillSound
        <3>2. pc[w] # "insert" /\ Target(w) = other[w]
            BY <2>1, <3>1 DEF StatementsInPlace, Target, Set2Ops
        <3> QED
            BY <3>1, <3>2, RowWritten
    <2>2. InSet2(w) /\ pc'[w] # "set2" /\ op' = op /\ other' = other
        BY <1>1 DEF InSet2, LoopStatements, args
    <2> QED
        BY <1>2, <1>5, <1>7, <2>1, <2>2 DEF CallSound, RefillSound
<1>9. SitesAsAsked(w)'
    <2>1. op[w] = "site_remove" => pc[w] \in {"rows", "row"}
        BY <1>1, <1>2 DEF CallSound, InFunction, LoopStatements, Set2Ops, StatementsInPlace
    <2> QED
        BY <1>1, <1>2, <2>1 DEF CallSound, SitesAsAsked, tables, args
<1>10. PlacesAsAsked(w)'
    <2> SUFFICES ASSUME NEW d \in Devices, draftPlace'[w][d] # Kept
                 PROVE
                  \/ op[w] = "site_remove" /\ draftPlace'[w][d] = Nowhere /\ place[d] = sid[w]
                  \/ op[w] = "device_site_move" /\ draftPlace'[w][d] = sid[w] /\ place[d] = other[w]
                  \/ /\ op[w] \in Set2Ops \union {"device_site_set"}
                     /\ draftPlace'[w][d] = sid[w]
                     /\ d \in devs[w]
                  \/ /\ op[w] \in Set2Ops
                     /\ draftPlace'[w][d] = other[w]
                     /\ other[w] # 0
                     /\ place[d] = sid[w]
        BY <1>1 DEF PlacesAsAsked, tables, args
    <2>1. PlacesAsAsked(w) /\ InFunction(w)
        BY <1>2 DEF CallSound
    <2>2. CASE draftPlace'[w][d] = draftPlace[w][d]
        BY <2>1, <2>2 DEF PlacesAsAsked
    <2>3. CASE draftPlace'[w][d] # draftPlace[w][d]
        <3>1. d = dev[w] /\ (\/ pc[w] = "insert" /\ draftPlace'[w][d] = sid[w]
                             \/ /\ pc[w] = "row" /\ Hit(w, d)
                                /\ draftPlace'[w][d] = IF loop[w] = "delete" THEN Nowhere ELSE Target(w))
            BY <2>3, RowWritten
        <3>2. PlaceSeen(w, d) = place[d] \/ PlaceSeen(w, d) = draftPlace[w][d]
            BY DEF PlaceSeen
        <3>3. sid[w] # Nowhere
            BY <1>2 DEF SiteIds, Nowhere
        <3>4. CASE loop[w] = "place"
            BY <1>1, <2>1, <3>1, <3>4 DEF InFunction, LoopStatements, Target
        <3>5. CASE loop[w] = "delete"
            <4>1. /\ op[w] = "site_remove" /\ pc[w] = "row" /\ draftPlace'[w][d] = Nowhere
                  /\ PlaceSeen(w, d) = sid[w]
                BY <1>1, <2>1, <3>1, <3>5 DEF InFunction, StatementsInPlace, Hit, From
            <4>2. draftPlace[w][d] # Kept => draftPlace[w][d] = Nowhere
                BY <2>1, <4>1 DEF PlacesAsAsked, Set2Ops
            <4> QED
                BY <3>3, <4>1, <4>2 DEF PlaceSeen
        <3>6. CASE loop[w] = "reassign" /\ op[w] = "device_site_move"
            <4>1. draftPlace'[w][d] = sid[w] /\ PlaceSeen(w, d) = other[w]
                BY <3>1, <3>6 DEF StatementsInPlace, Hit, From, Target
            <4>2. draftPlace[w][d] # Kept => place[d] = other[w]
                BY <2>1, <3>6 DEF PlacesAsAsked, Set2Ops
            <4> QED
                BY <3>6, <4>1, <4>2 DEF PlaceSeen
        <3>7. CASE loop[w] = "reassign" /\ op[w] # "device_site_move"
            <4>1. op[w] \in Set2Ops /\ other[w] # 0
                BY <1>1, <2>1, <3>7 DEF InFunction
            <4>2. draftPlace'[w][d] = other[w] /\ PlaceSeen(w, d) = sid[w]
                BY <3>1, <3>7 DEF StatementsInPlace, Hit, From, Target
            <4>3. draftPlace[w][d] \in {Kept, other[w]}
                BY <1>1, <1>2, <3>7, <4>1 DEF CallSound, RefillSound
            <4> QED
                BY <2>3, <4>1, <4>2, <4>3 DEF PlaceSeen
        <3> QED
            BY <3>4, <3>5, <3>6, <3>7
    <2> QED
        BY <2>2, <2>3
<1> QED
    BY <1>1, <1>3, <1>4, <1>8, <1>9, <1>10 DEF CallSound

-----------------------------------------------------------------------------
(* The invariant *)

\* Every step preserves the invariant.
LEMMA NextCallInv == Inv /\ [Next]_vars => Inv'
<1> SUFFICES ASSUME Inv, [Next]_vars PROVE Inv'
    OBVIOUS
<1>1. IInv'
    BY NextInv DEF Inv
<1>2. ASSUME NEW w \in Sessions, Step(w) PROVE CallInv'
    <2>1. CallSound(w)'
        BY <1>2, ReleasedSound, NewCallSound, LookingSound, WriteSiteSound, DeleteSiteSound, LastSound,
           DeviceSiteSet2Sound, RowsSound
           DEF Step, Statement, NameExists, NotUnique, RowIsThere, NoSuchSite, DeadlockVictim, Abort,
               RollBack, Commit, RowStatement
    <2> QED
        BY <1>2, <2>1, OthersSound, RemovedGoneStep DEF CallInv
<1>3. CASE UNCHANGED vars
    <2>1. RemovedGone'
        BY <1>3 DEF Inv, CallInv, RemovedGone, Known, vars, tables, locks
    <2>2. ASSUME NEW w \in Sessions PROVE CallSound(w)'
        <3>1. CallSound(w)
            BY DEF Inv, CallInv
        <3>2. InFunction(w)' /\ VersionTaken(w)'
            BY <1>3, <3>1 DEF CallSound, InFunction, VersionTaken, vars, args, rows, drafts, locks
        <3>3. SiteOfCall(w)' /\ RefillSound(w)'
            BY <1>3, <3>1 DEF CallSound, SiteOfCall, Creating, RefillSound, InSet2, Refilling, ParentRead,
                              SiteSeen, Known, vars, tables, args, rows, drafts, locks
        <3>4. SitesAsAsked(w)' /\ PlacesAsAsked(w)'
            BY <1>3, <3>1 DEF CallSound, SitesAsAsked, PlacesAsAsked, vars, tables, args, rows, drafts
        <3> QED
            BY <3>2, <3>3, <3>4 DEF CallSound
    <2> QED
        BY <1>1, <2>1, <2>2 DEF CallInv, Inv
<1> QED
    BY <1>1, <1>2, <1>3 DEF Next, Step, Inv

\* Every call on its way is sound: it runs its own function, it has locked what
\* it writes, and what it has written is what it was asked to write.
THEOREM CallsSound == Spec => []CallInv
<1>1. Init => Inv
    BY InitInv, InitCallInv DEF Inv
<1>2. Inv /\ [Next]_vars => Inv'
    BY NextCallInv
<1>3. Inv => CallInv
    BY DEF Inv
<1> QED
    BY <1>1, <1>2, <1>3, PTL DEF Spec

-----------------------------------------------------------------------------
(* What is asked for stays until the call ends *)

\* A step of w leaves what the others have asked for.
LEMMA OthersRequest ==
    ASSUME Inv, NEW w \in Sessions, Step(w), NEW v \in Sessions \ {w}
    PROVE  Request(v)' = Request(v)
<1>1. Untouched(v) /\ nam'[v] = nam[v] /\ devs'[v] = devs[v]
    BY OthersKept, OthersArgsKept DEF Inv, IInv
<1>2. ASSUME pc[v] # "idle" PROVE sid[v] \in Known' <=> sid[v] \in Known
    <2>1. CASE sid[v] \in Known
        BY <2>1, KnownKept DEF Inv
    <2>2. CASE sid[v] = 0 /\ sid[v] \notin Known
        <3>1. TypeOK'
            BY StepTypes DEF Inv, IInv
        <3> QED
            BY <2>2, <3>1 DEF Known, SiteIds, TypeOK
    <2>3. CASE sid[v] # 0 /\ sid[v] \notin Known
        <3>1. sid[v] \in SiteIds /\ siteLock[sid[v]] = v
            BY <2>3 DEF Inv, CallInv, CallSound, SiteOfCall, Creating
        <3>2. site'[sid[v]] = NoRow
            BY <2>3, <3>1, LockedSitesStay DEF Inv, Known
        <3>3. sid[v] \notin removed'
            <4>1. CASE Commit(w)
                BY <2>3, <3>1, <4>1, MarkersAssumption DEF Commit, Known, Inv, IInv, WritesLocked
            <4>2. CASE ~Commit(w)
                BY <2>3, <4>2, TablesKept DEF tables, Known
            <4> QED
                BY <4>1, <4>2
        <3> QED
            BY <2>3, <3>2, <3>3 DEF Known
    <2> QED
        BY <2>1, <2>2, <2>3
<1>3. pc'[v] = pc[v] /\ op'[v] = op[v] /\ sid'[v] = sid[v] /\ other'[v] = other[v]
    BY <1>1 DEF Untouched
<1> QED
    BY <1>1, <1>2, <1>3 DEF Request, NoRequest

\* So do the statements of w with what w has: no session knows the id that an
\* insert takes.
LEMMA StatementRequest ==
    ASSUME Inv, NEW w \in Sessions, Step(w), ~NewCall(w), ~Commit(w), ~RollBack(w)
    PROVE  Request(w)' = Request(w) /\ UNCHANGED tables
<1> USE DEF Inv, IInv, TypeOK
<1>1. UNCHANGED tables
    BY TablesKept
<1>2. Known' = Known
    BY <1>1 DEF Known, tables
<1>3. CASE CheckParent(w)
    <2>1. pc[w] = "parent" /\ pc'[w] # "idle" /\ UNCHANGED <<op, other, nam, devs>>
        BY <1>3 DEF CheckParent, GoTo
    <2>2. sid[w] = 0 /\ (sid'[w] = 0 \/ sid'[w] = nextid)
        BY <1>3, <2>1 DEF CheckParent, CallInv, CallSound, SiteOfCall
    <2>3. nextid \notin Known /\ 0 \notin Known
        BY DEF IdsBounded, Known, SiteIds
    <2> QED
        BY <1>1, <1>2, <2>1, <2>2, <2>3 DEF Request
<1>4. CASE DeviceSiteSet2(w)
    <2>1. /\ pc[w] = "set2" /\ pc'[w] \in {"commit", "rows"} /\ op[w] # "device_site_move"
          /\ UNCHANGED <<op, sid, nam, devs>>
        BY <1>4 DEF DeviceSiteSet2, GoTo, CallInv, CallSound, InFunction, Set2Ops
    <2> QED
        BY <1>1, <1>2, <2>1 DEF Request
<1>5. CASE LockSite(w) \/ CheckName(w) \/ WriteSite(w) \/ Unlink(w) \/ DeleteSite(w) \/ TouchSite(w) \/ Bump(w)
    <2>1. pc[w] # "idle" /\ pc'[w] # "idle" /\ UNCHANGED args
        BY <1>5 DEF LockSite, CheckName, WriteSite, Unlink, DeleteSite, TouchSite, Bump, GoTo, AfterWrite
    <2> QED
        BY <1>1, <1>2, <2>1 DEF Request, args
<1>6. CASE RowStatement(w)
    <2>1. pc[w] # "idle" /\ pc'[w] # "idle" /\ UNCHANGED args
        BY <1>6, RowsInFunction DEF LoopStatements
    <2> QED
        BY <1>1, <1>2, <2>1 DEF Request, args
<1> QED
    BY <1>1, <1>3, <1>4, <1>5, <1>6
       DEF Step, Statement, NameExists, NotUnique, RowIsThere, NoSuchSite, DeadlockVictim, Abort,
           RowStatement

\* A session that takes a step, other than to make a call, runs one.
LEMMA BusyBefore ==
    ASSUME NEW w \in Sessions, Step(w), ~NewCall(w)
    PROVE  pc[w] # "idle"
<1>1. CASE \/ CheckParent(w) \/ LockSite(w) \/ CheckName(w) \/ NameExists(w) \/ WriteSite(w)
           \/ NotUnique(w) \/ Unlink(w) \/ DeleteSite(w) \/ TouchSite(w) \/ Bump(w) \/ Commit(w)
    BY <1>1 DEF CheckParent, LockSite, CheckName, NameExists, WriteSite, NotUnique, Unlink, DeleteSite,
                TouchSite, Bump, Commit
<1>2. CASE \/ DeviceSiteSet2(w) \/ NextRow(w) \/ RowsDone(w) \/ LockRow(w) \/ CountRows(w)
           \/ InsertRow(w) \/ RowIsThere(w) \/ ForeignKey(w) \/ NoSuchSite(w)
    BY <1>2 DEF DeviceSiteSet2, NextRow, RowsDone, LockRow, CountRows, InsertRow, RowIsThere, ForeignKey,
                NoSuchSite
<1>3. CASE DeadlockVictim(w)
    <2>1. \E v \in Sessions : WaitsFor(w, v)
        BY <1>3 DEF DeadlockVictim, Deadlocked
    <2> QED
        BY <2>1 DEF WaitsFor
<1>4. CASE Abort(w)
    BY <1>4 DEF Abort
<1> QED
    BY <1>1, <1>2, <1>3, <1>4 DEF Step, Statement

\* A request is not NoRequest.
LEMMA RequestMade ==
    ASSUME TypeOK, NEW w \in Sessions, pc[w] # "idle"
    PROVE  /\ Request(w) # NoRequest
           /\ Request(w) \in Tree!Requests
<1>1. /\ Request(w).op = op[w] /\ NoRequest.op = "none" /\ op[w] # "none"
    BY DEF Request, NoRequest, TypeOK, Ops
<1>2. Request(w) \in Tree!Requests
    BY NamesAssumption DEF Request, Tree!Requests, TypeOK, Ops
<1> QED
    BY <1>1, <1>2

LEMMA AskRefines ==
    ASSUME Inv, NEW w \in Sessions, NewCall(w)
    PROVE  Tree!Ask(w)
<1> USE DEF Inv, IInv
<1>1. pc[w] = "idle" /\ pc'[w] # "idle" /\ UNCHANGED tables
    BY DEF NewCall, AddOrModify, SiteRemove, DeviceSiteMove, DeviceSiteSet, CallSet2, Call, GoTo, TypeOK
<1>2. Step(w) /\ TypeOK'
    BY StepTypes DEF Step
<1>3. Request(w)' \in Tree!Requests
    <2>1. /\ op'[w] \in Ops /\ sid'[w] \in 0 .. MaxSite /\ other'[w] \in 0 .. MaxSite
          /\ nam'[w] \in Names /\ devs'[w] \in SUBSET Devices
        BY <1>2 DEF TypeOK
    <2> QED
        BY <1>1, <2>1, NamesAssumption DEF Request, Tree!Requests, Ops
<1>4. \A v \in Sessions \ {w} : Request(v)' = Request(v)
    BY <1>2, OthersRequest
<1>5. Request(w) = NoRequest
    BY <1>1 DEF Request
<1> QED
    BY <1>1, <1>3, <1>4, <1>5 DEF Tree!Ask, Tree!tree, tables

\* The request of a call that ends is dropped, and no other.
LEMMA RequestDropped ==
    ASSUME Inv, NEW w \in Sessions, Step(w), Release(w), pc[w] # "idle"
    PROVE  /\ Request(w) # NoRequest
           /\ [v \in Sessions |-> Request(v)']
                  = [[v \in Sessions |-> Request(v)] EXCEPT ![w] = NoRequest]
<1>1. Request(w)' = NoRequest
    BY Released DEF Inv, IInv, Request, NoRequest
<1>2. \A v \in Sessions \ {w} : Request(v)' = Request(v)
    BY OthersRequest
<1>3. Request(w) # NoRequest
    BY RequestMade DEF Inv, IInv
<1>4. \A v \in Sessions : Request(v)' = [[x \in Sessions |-> Request(x)] EXCEPT ![w] = NoRequest][v]
    BY <1>1, <1>2
<1> QED
    BY <1>3, <1>4

LEMMA FailRefines ==
    ASSUME Inv, NEW w \in Sessions, Step(w), RollBack(w), pc[w] # "idle"
    PROVE  Tree!Fail(w)
<1>1. Release(w) /\ UNCHANGED tables
    BY DEF RollBack
<1> QED
    BY <1>1, RequestDropped DEF Tree!Fail, Tree!tree, tables

-----------------------------------------------------------------------------
(* What a commit does to the tables *)

\* Only the row of the call's own site is written.
LEMMA CommittedSites ==
    ASSUME Inv, NEW w \in Sessions, Commit(w)
    PROVE  /\ (\A s \in SiteIds : draftSite[w][s] = Kept) => UNCHANGED <<site, removed>>
           /\ sid[w] \in SiteIds /\ draftSite[w][sid[w]] # Kept =>
                  /\ site' = [site EXCEPT ![sid[w]] = draftSite[w][sid[w]]]
                  /\ removed' = IF draftSite[w][sid[w]] = NoRow THEN removed \union {sid[w]}
                                                                ELSE removed
           /\ place' = [d \in Devices |-> PlaceSeen(w, d)]
           /\ modifytime' = IF verLock = w THEN modifytime + 1 ELSE modifytime
<1> USE DEF Inv, IInv, TypeOK
<1>1. /\ site' = [s \in SiteIds |-> SiteSeen(w, s)]
      /\ removed' = removed \union {s \in SiteIds : draftSite[w][s] = NoRow}
      /\ place' = [d \in Devices |-> PlaceSeen(w, d)]
      /\ modifytime' = IF verLock = w THEN modifytime + 1 ELSE modifytime
    BY DEF Commit
<1>2. (\A s \in SiteIds : draftSite[w][s] = Kept) => UNCHANGED <<site, removed>>
    BY <1>1, MarkersAssumption DEF SiteSeen
<1>3. \A s \in SiteIds \ {sid[w]} : draftSite[w][s] = Kept
    BY DEF CallInv, CallSound, SitesAsAsked, CascadesFinish
<1>4. ASSUME sid[w] \in SiteIds, draftSite[w][sid[w]] # Kept
      PROVE  /\ site' = [site EXCEPT ![sid[w]] = draftSite[w][sid[w]]]
             /\ removed' = IF draftSite[w][sid[w]] = NoRow THEN removed \union {sid[w]} ELSE removed
    <2>1. \A s \in SiteIds : SiteSeen(w, s) = IF s = sid[w] THEN draftSite[w][sid[w]] ELSE site[s]
        BY <1>3, <1>4 DEF SiteSeen
    <2>2. {s \in SiteIds : draftSite[w][s] = NoRow}
              = IF draftSite[w][sid[w]] = NoRow THEN {sid[w]} ELSE {}
        BY <1>3, <1>4, MarkersAssumption
    <2> QED
        BY <1>1, <2>1, <2>2
<1> QED
    BY <1>1, <1>2, <1>4

\* A site that is renamed is there and keeps its parent; one that is created
\* comes under a site that is known.
LEMMA CommittedRow ==
    ASSUME Inv, NEW w \in Sessions, Commit(w), sid[w] \in SiteIds,
           draftSite[w][sid[w]] \notin {Kept, NoRow}
    PROVE  /\ \A t \in SiteIds \ {sid[w]} : site[t] # NoRow => site[t].name # nam[w]
           /\ removed' = removed
           /\ sid[w] \in Known => /\ site[sid[w]] # NoRow
                                  /\ site' = [site EXCEPT ![sid[w]].name = nam[w]]
                                  /\ draftSite[w][sid[w]].parent = site[sid[w]].parent
           /\ sid[w] \notin Known =>
                  /\ draftSite[w][sid[w]].parent \in Known
                  /\ draftSite[w][sid[w]].parent < sid[w]
                  /\ site' = [site EXCEPT ![sid[w]] =
                                  [name |-> nam[w], parent |-> draftSite[w][sid[w]].parent]]
<1> USE DEF Inv, IInv, TypeOK
<1> DEFINE s == sid[w]
           row == draftSite[w][s]
<1>1. /\ site' = [site EXCEPT ![s] = row]
      /\ removed' = removed
    BY CommittedSites
<1>2. /\ \A t \in SiteIds \ {s} : site[t] # NoRow => site[t].name # nam[w]
      /\ row.name = nam[w]
      /\ site[s] # NoRow => row.parent = site[s].parent
    BY DEF CallInv, CallSound, SitesAsAsked
<1>3. row \in SiteRow
    OBVIOUS
<1>4. row = [name |-> nam[w], parent |-> row.parent]
    BY <1>2, <1>3 DEF SiteRow
<1>5. siteLock[s] = w /\ row.parent < s /\ (s # Root => row.parent \in Known)
    BY DEF WritesLocked
<1>6. CASE s \in Known
    <2>1. s \notin removed
        BY <1>5, NamesAssumption DEF CallInv, RemovedGone
    <2>2. site[s] # NoRow /\ site[s] \in SiteRow
        BY <1>6, <2>1 DEF Known
    <2>3. [site[s] EXCEPT !.name = nam[w]] = row
        BY <1>2, <1>4, <2>2 DEF SiteRow
    <2>4. site' = [site EXCEPT ![s].name = nam[w]]
        BY <1>1, <2>3
    <2> QED
        BY <1>1, <1>2, <1>6, <2>2, <2>4
<1>7. CASE s \notin Known
    <2>1. s # Root
        BY <1>7 DEF CallInv, RemovedGone
    <2> QED
        BY <1>1, <1>2, <1>4, <1>5, <1>7, <2>1
<1> QED
    BY <1>6, <1>7

\* A device comes only into a site that is there.
LEMMA CommittedPlace ==
    ASSUME Inv, NEW w \in Sessions, Commit(w), NEW d \in Devices,
           draftPlace[w][d] \notin {Kept, Nowhere}
    PROVE  draftPlace[w][d] \in SiteIds /\ SiteSeen(w, draftPlace[w][d]) # NoRow
<1> USE DEF Inv, IInv, TypeOK
<1> DEFINE t == draftPlace[w][d]
<1>1. t \in SiteIds /\ pc[w] = "commit"
    BY DEF Nowhere, SiteIds, Commit
<1>2. CASE w \in shared[t]
    BY <1>1, <1>2 DEF SharedHold
<1>3. CASE t = place[d]
    <2>1. site[t] # NoRow
        BY <1>1, <1>3 DEF PlacesExist
    <2>2. PlaceSeen(w, d) = t
        BY <1>3 DEF PlaceSeen
    <2>3. draftSite[w][t] # NoRow
        <3> HIDE DEF t
        <3> QED
            BY <1>1, <2>2 DEF CascadesFinish
    <2> HIDE DEF t, Inv
    <2> QED
        BY <1>1, <2>1, <2>3 DEF SiteSeen, t
<1>4. ~Unchecked(w, d)
    BY <1>1 DEF Unchecked
<1> QED
    BY <1>2, <1>3, <1>4 DEF PlacesHeld

-----------------------------------------------------------------------------
(* A commit is a commit of SiteTree *)

\* A call that has not taken the version has changed nothing.
LEMMA NothingRefines ==
    ASSUME Inv, NEW w \in Sessions, Commit(w), verLock # w
    PROVE  Tree!Nothing(Request(w))
<1> USE DEF Inv, IInv, TypeOK
<1>1. /\ pc[w] = "commit"
      /\ \A s \in SiteIds : draftSite[w][s] = Kept
      /\ \A d \in Devices : draftPlace[w][d] = Kept
    BY DEF Commit, VersionHeld
<1>2. op[w] \in AddOps \union Set2Ops
    BY <1>1 DEF CallInv, CallSound, VersionTaken
<1>3. UNCHANGED <<site, removed, modifytime>>
    BY <1>1, CommittedSites
<1>4. place' = place
    <2>1. place' = [d \in Devices |-> PlaceSeen(w, d)]
        BY CommittedSites
    <2> QED
        BY <1>1, <2>1 DEF PlaceSeen
<1> QED
    BY <1>1, <1>2, <1>3, <1>4 DEF Tree!Nothing, Tree!tree, Request, AddOps, Set2Ops

\* device_site_set
LEMMA SetRefines ==
    ASSUME Inv, NEW w \in Sessions, Commit(w), verLock = w, op[w] = "device_site_set"
    PROVE  Tree!Set(Request(w))
<1> USE DEF Inv, IInv, TypeOK
<1> DEFINE s == sid[w]
           P == {d \in Devices : draftPlace[w][d] = s}
<1>1. pc[w] = "commit" /\ s \in SiteIds /\ s \in Known
    BY SidThere DEF Commit, CallInv, CallSound, SiteOfCall, AddOps
<1>2. \A t \in SiteIds : draftSite[w][t] = Kept
    BY NoSiteWritten
<1>3. \A d \in Devices : draftPlace[w][d] # Kept => draftPlace[w][d] = s /\ d \in devs[w]
    BY DEF CallInv, CallSound, PlacesAsAsked, Set2Ops
<1>4. UNCHANGED <<site, removed>> /\ modifytime' = modifytime + 1
    BY <1>2, CommittedSites
<1>5. P # {} => site[s] # NoRow
    <2> SUFFICES ASSUME NEW d \in Devices, draftPlace[w][d] = s PROVE site[s] # NoRow
        OBVIOUS
    <2>1. s # Kept /\ s # Nowhere
        BY <1>1, MarkersAssumption DEF SiteIds, Nowhere
    <2> QED
        BY <1>1, <1>2, <2>1, CommittedPlace DEF SiteSeen
<1>6. place' = [d \in Devices |-> IF d \in P THEN s ELSE place[d]]
    <2>1. \A d \in Devices : PlaceSeen(w, d) = IF d \in P THEN s ELSE place[d]
        BY <1>1, <1>3, MarkersAssumption DEF PlaceSeen, SiteIds
    <2> QED
        BY <2>1, CommittedSites
<1>7. P \in SUBSET devs[w]
    BY <1>1, <1>3, MarkersAssumption DEF SiteIds
<1>8. Request(w).op = op[w] /\ Request(w).site = s /\ Request(w).devs = devs[w]
    BY <1>1 DEF Request
<1> HIDE DEF s, P
<1> QED
    BY <1>4, <1>5, <1>6, <1>7, <1>8 DEF Tree!Set, Tree!Placing, Tree!Stamped

\* device_site_move
LEMMA MoveRefines ==
    ASSUME Inv, NEW w \in Sessions, Commit(w), verLock = w, op[w] = "device_site_move"
    PROVE  Tree!Move(Request(w))
<1> USE DEF Inv, IInv, TypeOK
<1> DEFINE s == sid[w]
           R == {d \in Devices : draftPlace[w][d] = s}
<1>1. pc[w] = "commit" /\ s \in SiteIds /\ s \in Known
    BY SidThere DEF Commit, CallInv, CallSound, SiteOfCall, AddOps
<1>2. \A t \in SiteIds : draftSite[w][t] = Kept
    BY NoSiteWritten
<1>3. \A d \in Devices : draftPlace[w][d] # Kept => draftPlace[w][d] = s /\ place[d] = other[w]
    BY DEF CallInv, CallSound, PlacesAsAsked, Set2Ops
<1>4. UNCHANGED <<site, removed>> /\ modifytime' = modifytime + 1
    BY <1>2, CommittedSites
<1>5. R # {} => site[s] # NoRow
    <2> SUFFICES ASSUME NEW d \in Devices, draftPlace[w][d] = s PROVE site[s] # NoRow
        OBVIOUS
    <2>1. s # Kept /\ s # Nowhere
        BY <1>1, MarkersAssumption DEF SiteIds, Nowhere
    <2> QED
        BY <1>1, <1>2, <2>1, CommittedPlace DEF SiteSeen
<1>6. place' = [d \in Devices |-> IF d \in R THEN s ELSE place[d]]
    <2>1. \A d \in Devices : PlaceSeen(w, d) = IF d \in R THEN s ELSE place[d]
        BY <1>1, <1>3, MarkersAssumption DEF PlaceSeen, SiteIds
    <2> QED
        BY <2>1, CommittedSites
<1>7. R \in SUBSET {d \in Devices : place[d] = other[w]}
    BY <1>1, <1>3, MarkersAssumption DEF SiteIds
<1>8. Request(w).op = op[w] /\ Request(w).site = s /\ Request(w).from = other[w]
    BY <1>1 DEF Request
<1> HIDE DEF s, R
<1> QED
    BY <1>4, <1>5, <1>6, <1>7, <1>8 DEF Tree!Move, Tree!In, Tree!Placing, Tree!Stamped

\* site_remove
LEMMA RemoveRefines ==
    ASSUME Inv, NEW w \in Sessions, Commit(w), verLock = w, op[w] = "site_remove"
    PROVE  Tree!Remove(Request(w))
<1> USE DEF Inv, IInv, TypeOK
<1> DEFINE s == sid[w]
<1>1. pc[w] = "commit" /\ s \in SiteIds /\ s \in Known
    BY SidThere DEF Commit, CallInv, CallSound, SiteOfCall, AddOps
<1>2. \A d \in Devices : draftPlace[w][d] # Kept => draftPlace[w][d] = Nowhere /\ place[d] = s
    BY DEF CallInv, CallSound, PlacesAsAsked, Set2Ops
<1>3. /\ place' = [d \in Devices |-> PlaceSeen(w, d)]
      /\ modifytime' = modifytime + 1
    BY CommittedSites
<1>4. Request(w).op = op[w] /\ Request(w).site = s
    BY <1>1 DEF Request
<1>5. CASE draftSite[w][s] = NoRow
    <2>1. site' = [site EXCEPT ![s] = NoRow] /\ removed' = removed \union {s}
        BY <1>1, <1>5, MarkersAssumption, CommittedSites
    <2>2. site[s] # NoRow
        BY <1>1, <1>5 DEF CallInv, CallSound, SitesAsAsked
    <2>3. place' = [d \in Devices |-> IF place[d] = s THEN 0 ELSE place[d]]
        <3>1. \A d \in Devices : PlaceSeen(w, d) # s
            BY <1>1, <1>5 DEF CascadesFinish
        <3>2. \A d \in Devices : PlaceSeen(w, d) = IF place[d] = s THEN 0 ELSE place[d]
            BY <1>2, <3>1 DEF PlaceSeen, Nowhere
        <3> QED
            BY <1>3, <3>2
    <2> HIDE DEF s
    <2> QED
        BY <1>3, <1>4, <2>1, <2>2, <2>3 DEF Tree!Remove, Tree!In, Tree!Placing, Tree!Stamped
<1>6. CASE draftSite[w][s] # NoRow
    <2>1. site[s] = NoRow
        BY <1>1, <1>6 DEF CallInv, CallSound, SitesAsAsked, RemovedGone
    <2>2. \A t \in SiteIds : draftSite[w][t] = Kept
        <3>0. SitesAsAsked(w) /\ op[w] \notin AddOps
            BY DEF CallInv, CallSound, AddOps
        <3>1. \A t \in SiteIds : draftSite[w][t] \in {Kept, NoRow}
            BY <3>0 DEF SitesAsAsked
        <3>2. \A t \in SiteIds : draftSite[w][t] = NoRow => t = s
            BY DEF CascadesFinish
        <3> QED
            BY <1>6, <3>1, <3>2
    <2>3. UNCHANGED <<site, removed>>
        BY <2>2, CommittedSites
    <2>4. place' = place
        <3>1. \A d \in Devices : place[d] # s
            BY <1>1, <2>1 DEF PlacesExist, SiteIds, Nowhere
        <3>2. \A d \in Devices : PlaceSeen(w, d) = place[d]
            BY <1>2, <3>1 DEF PlaceSeen
        <3> QED
            BY <1>3, <3>2
    <2> HIDE DEF s
    <2> QED
        BY <1>3, <1>4, <2>1, <2>3, <2>4 DEF Tree!Remove, Tree!Stamped
<1> QED
    BY <1>5, <1>6

\* site_addormodify
LEMMA AddOrModifyRefines ==
    ASSUME Inv, NEW w \in Sessions, Commit(w), verLock = w, op[w] = "site_addormodify"
    PROVE  Tree!Create(Request(w)) \/ Tree!Modify(Request(w))
<1> USE DEF Inv, IInv, TypeOK
<1> DEFINE s == sid[w]
           p == draftSite[w][s].parent
<1>1. pc[w] = "commit" /\ s \in SiteIds
    BY SidThere DEF Commit
<1>2. draftSite[w][s] \notin {Kept, NoRow}
    BY <1>1 DEF CallInv, CallSound, VersionTaken
<1>3. /\ \A t \in SiteIds \ {s} : site[t] # NoRow => site[t].name # nam[w]
      /\ removed' = removed
      /\ s \in Known => /\ site[s] # NoRow
                        /\ site' = [site EXCEPT ![s].name = nam[w]]
      /\ s \notin Known => /\ p \in Known
                           /\ p < s
                           /\ site' = [site EXCEPT ![s] = [name |-> nam[w], parent |-> p]]
    BY <1>1, <1>2, CommittedRow
<1>4. modifytime' = modifytime + 1
    BY CommittedSites
<1>5. place' = place
    <2>1. \A d \in Devices : draftPlace[w][d] = Kept
        BY DEF CallInv, CallSound, PlacesAsAsked, Set2Ops
    <2> QED
        BY <2>1, CommittedSites DEF PlaceSeen
<1>6. /\ Request(w).op = op[w] /\ Request(w).name = nam[w] /\ Request(w).devs = devs[w]
      /\ Request(w).site = IF s \in Known THEN s ELSE 0
    BY <1>1 DEF Request
<1>7. Tree!SiteIds = SiteIds /\ Tree!Known = Known
    BY DEF Tree!SiteIds, SiteIds, Tree!Known, Known
<1> HIDE DEF s, p
<1>8. CASE s \in Known
    <2>1. s # 0
        BY <1>1 DEF SiteIds
    <2> QED
        BY <1>3, <1>4, <1>5, <1>6, <1>7, <1>8, <2>1
           DEF Tree!Modify, Tree!Renamed, Tree!NameFree, Tree!Stamped
<1>9. CASE s \notin Known
    <2>1. Tree!NameFree(s, nam[w])
        BY <1>3, <1>7 DEF Tree!NameFree
    <2>2. Tree!Placing(s, {}, p, {})
        BY <1>5 DEF Tree!Placing
    <2>3. {} \in SUBSET devs[w] /\ s \in SiteIds \ Known
        BY <1>1, <1>9
    <2> QED
        BY <1>3, <1>4, <1>6, <1>7, <1>9, <2>1, <2>2, <2>3 DEF Tree!Create, Tree!Stamped
<1> QED
    BY <1>8, <1>9

\* The devices that device_site_set2 places in the site, and those it has taken out
\* of it.
Asked(w) == {d \in Devices : draftPlace[w][d] = sid[w]}
TakenOut(w) == {d \in Devices : draftPlace[w][d] = other[w] /\ other[w] # 0}

LEMMA CommittedDevices ==
    ASSUME Inv, NEW w \in Sessions, Commit(w), op[w] \in Set2Ops,
           sid[w] \in SiteIds, other[w] < sid[w]
    PROVE  /\ place' = [d \in Devices |-> IF d \in Asked(w) THEN sid[w]
                                          ELSE IF d \in TakenOut(w) THEN other[w] ELSE place[d]]
           /\ Asked(w) \in SUBSET devs[w]
           /\ \A d \in TakenOut(w) : place[d] = sid[w]
           /\ TakenOut(w) # {} => other[w] \in SiteIds /\ site[other[w]] # NoRow
<1> USE DEF Inv, IInv, TypeOK
<1> DEFINE s == sid[w]
           t == other[w]
<1>1. s # 0 /\ s # Kept /\ t # s /\ t # Kept
    BY MarkersAssumption DEF SiteIds
<1>2. \A d \in Devices : draftPlace[w][d] # Kept =>
          \/ draftPlace[w][d] = s /\ d \in devs[w]
          \/ draftPlace[w][d] = t /\ t # 0 /\ place[d] = s
    BY DEF CallInv, CallSound, PlacesAsAsked, Set2Ops
<1>3. place' = [d \in Devices |-> IF d \in Asked(w) THEN s ELSE IF d \in TakenOut(w) THEN t ELSE place[d]]
    <2>1. \A d \in Devices :
              PlaceSeen(w, d) = IF d \in Asked(w) THEN s ELSE IF d \in TakenOut(w) THEN t ELSE place[d]
        BY <1>1, <1>2 DEF PlaceSeen, Asked, TakenOut
    <2> QED
        BY <2>1, CommittedSites
<1>4. Asked(w) \in SUBSET devs[w] /\ \A d \in TakenOut(w) : place[d] = s
    BY <1>1, <1>2 DEF Asked, TakenOut
<1>5. \A u \in SiteIds \ {s} : draftSite[w][u] = Kept
    BY DEF CallInv, CallSound, SitesAsAsked, CascadesFinish, Set2Ops
<1>6. ASSUME NEW d \in TakenOut(w) PROVE t \in SiteIds /\ site[t] # NoRow
    <2>1. t \in SiteIds /\ SiteSeen(w, t) # NoRow
        BY <1>1, <1>6, CommittedPlace DEF Nowhere, TakenOut
    <2> QED
        BY <1>1, <1>5, <2>1 DEF SiteSeen
<1> QED
    BY <1>3, <1>4, <1>6

\* A site that is there is refilled.
LEMMA DevicesReplaced ==
    ASSUME Inv, NEW w \in Sessions, Commit(w), op[w] \in Set2Ops,
           sid[w] \in SiteIds, site[sid[w]] # NoRow, other[w] = site[sid[w]].parent
    PROVE  Tree!Replaced(Request(w))
<1>1. other[w] < sid[w]
    BY DEF Inv, IInv, ParentsAreOlder
<1>2. /\ place' = [d \in Devices |-> IF d \in Asked(w) THEN sid[w]
                                     ELSE IF d \in TakenOut(w) THEN other[w] ELSE place[d]]
      /\ Asked(w) \in SUBSET devs[w]
      /\ \A d \in TakenOut(w) : place[d] = sid[w]
      /\ TakenOut(w) # {} => other[w] \in SiteIds /\ site[other[w]] # NoRow
    BY <1>1, CommittedDevices
<1>3. Request(w).site = sid[w] /\ Request(w).devs = devs[w]
    BY DEF Request, Known, Commit
<1>4. Tree!SiteIds = SiteIds
    BY DEF Tree!SiteIds, SiteIds
<1>5. TakenOut(w) \in SUBSET Tree!In(sid[w])
    BY <1>2 DEF Tree!In, TakenOut
<1>6. Tree!Placing(sid[w], Asked(w), site[sid[w]].parent, TakenOut(w))
    BY <1>2 DEF Tree!Placing
<1> QED
    BY <1>2, <1>3, <1>4, <1>5, <1>6 DEF Tree!Replaced

\* device_site_set2, called by itself
LEMMA FillRefines ==
    ASSUME Inv, NEW w \in Sessions, Commit(w), verLock = w, op[w] = "device_site_set2"
    PROVE  Tree!Fill(Request(w))
<1> USE DEF Inv, IInv, TypeOK
<1>1. pc[w] = "commit" /\ sid[w] \in SiteIds /\ sid[w] \in Known
    BY SidThere DEF Commit, CallInv, CallSound, SiteOfCall, AddOps
<1>2. \A t \in SiteIds : draftSite[w][t] = Kept
    BY NoSiteWritten
<1>3. ParentRead(w)
    BY <1>1 DEF CallInv, CallSound, RefillSound, InSet2
<1>4. UNCHANGED <<site, removed>> /\ modifytime' = modifytime + 1
    BY <1>2, CommittedSites
<1>5. Request(w).op = op[w] /\ Request(w).site = sid[w]
    BY <1>1 DEF Request
<1>6. CASE site[sid[w]] # NoRow
    <2>1. Tree!Replaced(Request(w))
        BY <1>1, <1>3, <1>6, DevicesReplaced DEF ParentRead, Set2Ops
    <2> QED
        BY <1>4, <1>5, <1>6, <2>1 DEF Tree!Fill, Tree!Stamped
<1>7. CASE site[sid[w]] = NoRow
    <2>1. ASSUME NEW d \in Devices PROVE draftPlace[w][d] = Kept
        <3>1. sid[w] # Nowhere /\ sid[w] # Kept
            BY <1>1, MarkersAssumption DEF SiteIds, Nowhere
        <3>2. draftPlace[w][d] # sid[w]
            <4>1. SiteSeen(w, sid[w]) = NoRow
                BY <1>1, <1>2, <1>7 DEF SiteSeen
            <4> QED
                BY <3>1, <4>1, CommittedPlace
        <3>3. place[d] # sid[w]
            BY <1>7, <3>1 DEF PlacesExist
        <3> QED
            BY <3>2, <3>3 DEF CallInv, CallSound, PlacesAsAsked, Set2Ops
    <2>2. place' = place
        <3>1. place' = [d \in Devices |-> PlaceSeen(w, d)]
            BY CommittedSites
        <3> QED
            BY <2>1, <3>1 DEF PlaceSeen
    <2> QED
        BY <1>4, <1>5, <1>7, <2>2 DEF Tree!Fill, Tree!Stamped
<1> QED
    BY <1>6, <1>7

\* site_devices_addormodify
LEMMA RefillRefines ==
    ASSUME Inv, NEW w \in Sessions, Commit(w), verLock = w, op[w] = "site_devices_addormodify"
    PROVE  Tree!Create(Request(w)) \/ Tree!Refill(Request(w))
<1> USE DEF Inv, IInv, TypeOK
<1> DEFINE s == sid[w]
           t == other[w]
<1>1. pc[w] = "commit" /\ s \in SiteIds /\ s # 0
    BY SidThere DEF Commit, SiteIds
<1>2. siteLock[s] = w /\ SiteSeen(w, s) # NoRow /\ t = SiteSeen(w, s).parent
    BY <1>1 DEF CallInv, CallSound, RefillSound, InSet2, Refilling
<1>3. t < s
    BY <1>1, <1>2 DEF SiteSeen, ParentsAreOlder, WritesLocked
<1>4. modifytime' = modifytime + 1
    BY CommittedSites
<1>5. \A u \in SiteIds \ {s} : draftSite[w][u] = Kept
    BY DEF CallInv, CallSound, SitesAsAsked, CascadesFinish
<1>6. /\ Request(w).op = op[w] /\ Request(w).name = nam[w] /\ Request(w).devs = devs[w]
      /\ Request(w).site = IF s \in Known THEN s ELSE 0
    BY <1>1 DEF Request
<1>7. Tree!SiteIds = SiteIds /\ Tree!Known = Known
    BY DEF Tree!SiteIds, SiteIds, Tree!Known, Known
<1>8. CASE s \in Known
    <2>1. site[s] # NoRow
        BY <1>2, <1>8, NamesAssumption DEF CallInv, RemovedGone, Known
    <2>2. site[s].parent = t /\ (Tree!Renamed(s, nam[w]) \/ UNCHANGED site) /\ removed' = removed
        <3>1. CASE draftSite[w][s] = Kept
            BY <1>1, <1>2, <1>5, <3>1, CommittedSites DEF SiteSeen
        <3>2. CASE draftSite[w][s] # Kept
            <4>1. draftSite[w][s] \notin {Kept, NoRow}
                BY <1>2, <3>2 DEF SiteSeen
            <4>2. /\ \A u \in SiteIds \ {s} : site[u] # NoRow => site[u].name # nam[w]
                  /\ removed' = removed
                  /\ site' = [site EXCEPT ![s].name = nam[w]]
                  /\ draftSite[w][s].parent = site[s].parent
                BY <1>1, <1>8, <4>1, CommittedRow
            <4>3. t = site[s].parent
                BY <1>2, <3>2, <4>2 DEF SiteSeen
            <4> HIDE DEF s, t
            <4> QED
                BY <1>7, <4>2, <4>3 DEF Tree!Renamed, Tree!NameFree
        <3> QED
            BY <3>1, <3>2
    <2>3. Tree!Replaced(Request(w))
        BY <1>1, <2>1, <2>2, DevicesReplaced DEF Set2Ops
    <2>4. Request(w).site = s
        BY <1>6, <1>8
    <2> HIDE DEF s, t
    <2> QED
        BY <1>1, <1>4, <1>6, <2>1, <2>2, <2>3, <2>4 DEF Tree!Refill, Tree!Stamped
<1>9. CASE s \notin Known
    <2>1. draftSite[w][s] \notin {Kept, NoRow}
        BY <1>1, <1>2, <1>9 DEF Known, SiteSeen
    <2>2. /\ \A u \in SiteIds \ {s} : site[u] # NoRow => site[u].name # nam[w]
          /\ removed' = removed
          /\ t \in Known
          /\ site' = [site EXCEPT ![s] = [name |-> nam[w], parent |-> t]]
        BY <1>1, <1>2, <1>9, <2>1, CommittedRow DEF SiteSeen
    <2>3. /\ place' = [d \in Devices |-> IF d \in Asked(w) THEN s
                                         ELSE IF d \in TakenOut(w) THEN t ELSE place[d]]
          /\ Asked(w) \in SUBSET devs[w]
          /\ \A d \in TakenOut(w) : place[d] = s
        BY <1>1, <1>3, CommittedDevices DEF Set2Ops
    <2>4. TakenOut(w) = {}
        <3>1. \A d \in Devices : place[d] # s
            BY <1>1, <1>9 DEF PlacesExist, Known, Nowhere
        <3> QED
            BY <2>3, <3>1 DEF TakenOut
    <2>5. Tree!Placing(s, Asked(w), t, {})
        BY <2>3, <2>4 DEF Tree!Placing
    <2>6. s \in SiteIds \ Known
        BY <1>1, <1>9
    <2> HIDE DEF s, t
    <2>7. Tree!NameFree(s, nam[w])
        BY <1>7, <2>2 DEF Tree!NameFree
    <2> QED
        BY <1>3, <1>4, <1>6, <1>7, <1>9, <2>2, <2>3, <2>5, <2>6, <2>7 DEF Tree!Create, Tree!Stamped
<1> QED
    BY <1>8, <1>9

LEMMA CommitRefines ==
    ASSUME Inv, NEW w \in Sessions, Commit(w)
    PROVE  Tree!Commit(w)
<1>1. Step(w) /\ Release(w) /\ pc[w] # "idle"
    BY DEF Step, Statement, Commit
<1>2. /\ Request(w) # NoRequest
      /\ [v \in Sessions |-> Request(v)'] = [[v \in Sessions |-> Request(v)] EXCEPT ![w] = NoRequest]
    BY <1>1, RequestDropped
<1>3. op[w] \in Ops
    BY DEF Inv, IInv, TypeOK
<1>4. \/ Tree!Create(Request(w)) \/ Tree!Modify(Request(w)) \/ Tree!Refill(Request(w))
      \/ Tree!Nothing(Request(w)) \/ Tree!Set(Request(w)) \/ Tree!Fill(Request(w))
      \/ Tree!Move(Request(w)) \/ Tree!Remove(Request(w))
    BY <1>3, NothingRefines, SetRefines, FillRefines, MoveRefines, RemoveRefines, AddOrModifyRefines,
       RefillRefines DEF Ops
<1>5. [v \in Sessions |-> Request(v)][w] = Request(w)
    OBVIOUS
<1> QED
    BY <1>2, <1>4, <1>5 DEF Tree!Commit

\* Every step is a step of SiteTree, or changes nothing there.
LEMMA NextRefines == Inv /\ [Next]_vars => [Tree!Next]_Tree!vars
<1> SUFFICES ASSUME Inv, [Next]_vars PROVE Tree!Next \/ UNCHANGED Tree!vars
    OBVIOUS
<1>1. ASSUME NEW w \in Sessions, Step(w) PROVE Tree!Next \/ UNCHANGED Tree!vars
    <2>1. CASE NewCall(w)
        BY <2>1, AskRefines DEF Tree!Next
    <2>2. CASE Commit(w)
        BY <2>2, CommitRefines DEF Tree!Next
    <2>3. CASE RollBack(w) /\ ~NewCall(w)
        BY <1>1, <2>3, BusyBefore, FailRefines DEF Tree!Next
    <2>4. CASE ~NewCall(w) /\ ~Commit(w) /\ ~RollBack(w)
        <3>1. Request(w)' = Request(w) /\ UNCHANGED tables
            BY <1>1, <2>4, StatementRequest
        <3>2. \A v \in Sessions : Request(v)' = Request(v)
            BY <1>1, <3>1, OthersRequest
        <3> QED
            BY <3>1, <3>2 DEF Tree!vars, Tree!tree, tables
    <2> QED
        BY <2>1, <2>2, <2>3, <2>4
<1>2. CASE UNCHANGED vars
    <2>1. \A v \in Sessions : Request(v)' = Request(v)
        BY <1>2 DEF Request, Known, vars, tables, args
    <2> QED
        BY <1>2, <2>1 DEF vars, tables, Tree!vars, Tree!tree
<1> QED
    BY <1>1, <1>2 DEF Next, Step

LEMMA InitRefines == Init => Tree!Init
<1> SUFFICES ASSUME Init PROVE Tree!Init
    OBVIOUS
<1>1. \A w \in Sessions : Request(w) = NoRequest
    BY DEF Init, Request
<1> QED
    BY <1>1 DEF Init, Tree!Init, Tree!SiteIds, SiteIds, Root, Nowhere

\* A call that commits does what it was asked to, in one step and to the tree as
\* it is then, whatever runs beside it; a call that fails does nothing.
THEOREM CallsAreAtomic == Spec => ActsAtomically
<1>1. Init => Inv /\ Tree!Init
    BY InitInv, InitCallInv, InitRefines DEF Inv
<1>2. Inv /\ [Next]_vars => Inv'
    BY NextCallInv
<1>3. Inv /\ [Next]_vars => [Tree!Next]_Tree!vars
    BY NextRefines
<1> QED
    BY <1>1, <1>2, <1>3, PTL DEF Spec, ActsAtomically, Tree!Spec

-----------------------------------------------------------------------------
(* Sites with the same name.  A call that has passed the check of its name *)
(* claims the name for its site until it ends.  Only a passed check adds   *)
(* to the sites that have or claim a name, and whoever passes it has seen  *)
(* that no other site has the name: all of them are then sites of calls on *)
(* their way, of which each session has one.                               *)

USE SessionsAssumption

\* Session w has passed the check for a name like n, and writes site s.
Claims(w, s, n) ==
    /\ s = sid[w]
    /\ Lower[nam[w]] = Lower[n]
    /\ pc[w] = "write" \/ draftSite[w][s] \notin {Kept, NoRow}

HasName(s, n) == site[s] # NoRow /\ Lower[site[s].name] = Lower[n]

\* The sites that have a name like n, or will have if all calls commit.
Named(n) == {s \in SiteIds : HasName(s, n) \/ \E w \in Sessions : Claims(w, s, n)}

\* A finite set, no larger than that of the sessions.
NotMany(S) == IsFiniteSet(S) /\ Cardinality(S) <= Cardinality(Sessions)

NamedBounded ==
    \A n \in Names : NotMany(Named(n))

LEMMA NotManyLess ==
    ASSUME NEW T, NEW S \in SUBSET T, NotMany(T)
    PROVE  NotMany(S)
<1>1. IsFiniteSet(S) /\ Cardinality(S) <= Cardinality(T)
    BY FS_Subset DEF NotMany
<1>2. Cardinality(S) \in Nat /\ Cardinality(T) \in Nat /\ Cardinality(Sessions) \in Nat
    BY <1>1, FS_CardinalityType DEF NotMany
<1> QED
    BY <1>1, <1>2 DEF NotMany

\* What every session has one of is not many.
LEMMA NotManyOfSessions ==
    ASSUME NEW f, NEW S, \A x \in S : \E w \in Sessions : f[w] = x
    PROVE  NotMany(S)
<1> DEFINE T == {f[w] : w \in Sessions}
           g == [w \in Sessions |-> f[w]]
<1>1. g \in Surjection(Sessions, T)
    BY DEF Surjection
<1>2. S \in SUBSET T
    OBVIOUS
<1> HIDE DEF g, T
<1>3. NotMany(T)
    BY <1>1, FS_Surjection DEF NotMany
<1> QED
    BY <1>2, <1>3, NotManyLess

\* Of other sessions a step changes no claim.
LEMMA OtherClaims ==
    ASSUME Inv, NEW w \in Sessions, Step(w), NEW v \in Sessions \ {w}, NEW s, NEW n
    PROVE  Claims(v, s, n)' <=> Claims(v, s, n)
<1>1. Untouched(v)
    BY OthersKept DEF Inv, IInv
<1>2. nam'[v] = nam[v]
    BY OthersArgsKept DEF Inv, IInv
<1> QED
    BY <1>1, <1>2 DEF Untouched, Claims

\* A step other than a commit gives no site a name.
LEMMA CommittedNames ==
    ASSUME Inv, NEW w \in Sessions, Step(w), NEW s \in SiteIds, NEW n, HasName(s, n)'
    PROVE  HasName(s, n) \/ Claims(w, s, n)
<1>1. CASE Commit(w)
    <2>1. site'[s] = SiteSeen(w, s)
        BY <1>1, CommitMoves DEF Inv
    <2>2. draftSite[w][s] \notin {Kept, NoRow} => s = sid[w] /\ draftSite[w][s].name = nam[w]
        BY DEF Inv, CallInv, CallSound, SitesAsAsked
    <2> QED
        BY <2>1, <2>2 DEF HasName, Claims, SiteSeen
<1>2. CASE ~Commit(w)
    BY <1>2, TablesKept DEF tables, HasName
<1> QED
    BY <1>1, <1>2

\* Only a check that is passed makes a claim.
LEMMA OwnClaims ==
    ASSUME Inv, NEW w \in Sessions, Step(w), ~CheckName(w), NEW s \in SiteIds, NEW n,
           Claims(w, s, n)'
    PROVE  Claims(w, s, n)
<1> USE DEF Inv, IInv, TypeOK
<1>1. CASE NewCall(w)
    <2>1. pc[w] = "idle" /\ pc'[w] # "write" /\ draftSite' = draftSite
        BY <1>1 DEF NewCall, AddOrModify, SiteRemove, DeviceSiteMove, DeviceSiteSet, CallSet2, Call, GoTo, drafts
    <2> QED
        BY <2>1 DEF Claims, CallsStartClean
<1>2. CASE Release(w)
    BY <1>2, Released DEF Claims
<1>3. CASE CheckParent(w)
    <2>1. pc[w] = "parent" /\ pc'[w] # "write" /\ draftSite' = draftSite
        BY <1>3 DEF CheckParent, GoTo, drafts
    <2> QED
        BY <2>1 DEF Claims, CallsStartClean
<1>4. CASE WriteSite(w)
    <2>1. pc[w] = "write" /\ UNCHANGED <<sid, nam>>
        BY <1>4 DEF WriteSite, args
    <2> QED
        BY <2>1 DEF Claims
<1>5. CASE DeleteSite(w)
    <2>1. /\ pc'[w] # "write" /\ UNCHANGED <<sid, nam>>
          /\ draftSite'[w][s] \in {draftSite[w][s], NoRow}
        BY <1>5 DEF DeleteSite, GoTo, args
    <2> QED
        BY <2>1 DEF Claims
<1>6. CASE LockSite(w) \/ Unlink(w) \/ TouchSite(w) \/ Bump(w)
    <2>1. pc'[w] # "write" /\ UNCHANGED <<sid, nam, draftSite>>
        BY <1>6 DEF LockSite, Unlink, TouchSite, Bump, AfterWrite, GoTo, args, drafts
    <2> QED
        BY <2>1 DEF Claims
<1>7. CASE DeviceSiteSet2(w) \/ NextRow(w) \/ RowsDone(w) \/ LockRow(w)
    <2>1. pc'[w] # "write" /\ UNCHANGED <<sid, nam, draftSite>>
        BY <1>7 DEF DeviceSiteSet2, NextRow, RowsDone, LockRow, GoTo, args, drafts
    <2> QED
        BY <2>1 DEF Claims
<1>8. CASE CountRows(w) \/ InsertRow(w) \/ ForeignKey(w)
    <2>1. pc'[w] # "write" /\ UNCHANGED <<sid, nam, draftSite>>
        BY <1>8 DEF CountRows, InsertRow, ForeignKey, AfterCheck, GoTo, args, drafts
    <2> QED
        BY <2>1 DEF Claims
<1> QED
    BY <1>1, <1>2, <1>3, <1>4, <1>5, <1>6, <1>7, <1>8
       DEF Step, Statement, NameExists, NotUnique, RowIsThere, NoSuchSite, DeadlockVictim, Abort,
           RollBack, Commit

\* When a check is passed, no site but the one of the call has the name.
LEMMA CheckPassed ==
    ASSUME Inv, NEW w \in Sessions, CheckName(w), NEW n, Lower[nam[w]] = Lower[n],
           NEW s \in SiteIds, HasName(s, n)
    PROVE  s = sid[w]
<1>1. pc[w] = "name" /\ ~NameTaken(w)
    BY DEF CheckName
<1>2. draftSite[w][s] = Kept
    BY <1>1 DEF Inv, IInv, CallsStartClean
<1> QED
    BY <1>1, <1>2 DEF NameTaken, Exists, SiteSeen, HasName

\* The sites that have or claim a name become no more than the sessions.
LEMMA NamedStep ==
    ASSUME Inv, NEW w \in Sessions, Step(w), NamedBounded
    PROVE  NamedBounded'
<1> SUFFICES ASSUME NEW n \in Names PROVE NotMany(Named(n)')
    BY DEF NamedBounded, NotMany
<1>1. CASE CheckName(w) /\ Lower[nam[w]] = Lower[n]
    <2>1. ASSUME NEW s \in SiteIds, HasName(s, n)' PROVE s = sid[w]
        <3>1. HasName(s, n)
            BY <1>1, <2>1 DEF CheckName, tables, HasName
        <3> QED
            BY <1>1, <3>1, CheckPassed
    <2>2. sid' = sid
        BY <1>1 DEF CheckName, args
    <2>3. \A s \in Named(n)' : \E v \in Sessions : sid[v] = s
        BY <2>1, <2>2 DEF Named, Claims
    <2> QED
        BY <2>3, NotManyOfSessions
<1>2. CASE CheckName(w) /\ Lower[nam[w]] # Lower[n]
    <2>1. ASSUME NEW s PROVE ~Claims(w, s, n)'
        BY <1>2 DEF CheckName, args, Claims
    <2>2. Named(n)' \subseteq Named(n)
        BY <2>1, CommittedNames, OtherClaims DEF Named
    <2> QED
        BY <2>2, NotManyLess DEF NamedBounded
<1>3. CASE ~CheckName(w)
    <2>1. Named(n)' \subseteq Named(n)
        BY <1>3, CommittedNames, OtherClaims, OwnClaims DEF Named
    <2> QED
        BY <2>1, NotManyLess DEF NamedBounded
<1> QED
    BY <1>1, <1>2, <1>3

\* In the beginning one site has a name, and there is a session.
LEMMA InitNamed == Init => NamedBounded
<1> SUFFICES ASSUME Init, NEW n \in Names PROVE NotMany(Named(n))
    BY DEF NamedBounded
<1>1. Named(n) \subseteq {Root}
    BY DEF Init, Named, HasName, Claims
<1> DEFINE f == [w \in Sessions |-> Root]
<1>2. \A s \in Named(n) : \E w \in Sessions : f[w] = s
    BY <1>1
<1> HIDE DEF f
<1> QED
    BY <1>2, NotManyOfSessions

\* There are never more sites whose names differ only in case than there are
\* sessions, although the check of a name and the unique index, which minds the
\* case, are two steps of a call.
THEOREM NamesBounded == Spec => []SameNamesBounded
<1>1. Init => Inv /\ NamedBounded
    BY InitInv, InitCallInv, InitNamed DEF Inv
<1>2. Inv /\ NamedBounded /\ [Next]_vars => Inv' /\ NamedBounded'
    <2> SUFFICES ASSUME Inv, NamedBounded, [Next]_vars PROVE NamedBounded'
        BY NextCallInv
    <2>1. CASE UNCHANGED vars
        BY <2>1 DEF NamedBounded, Named, HasName, Claims, vars, tables, args, drafts
    <2>2. ASSUME NEW w \in Sessions, Step(w) PROVE NamedBounded'
        BY <2>2, NamedStep
    <2> QED
        BY <2>1, <2>2 DEF Next, Step
<1>3. NamedBounded => SameNamesBounded
    <2> DEFINE Same(n) == {s \in SiteIds : site[s] # NoRow /\ Lower[site[s].name] = Lower[n]}
    <2> SUFFICES ASSUME NamedBounded, NEW n \in Names PROVE NotMany(Same(n))
        BY DEF SameNamesBounded, NotMany
    <2>1. Same(n) \in SUBSET Named(n)
        BY DEF Named, HasName
    <2> HIDE DEF Same
    <2> QED
        BY <2>1, NotManyLess DEF NamedBounded
<1> QED
    BY <1>1, <1>2, <1>3, PTL DEF Spec

=============================================================================
