------------------------------ MODULE SiteWalk ------------------------------
(***************************************************************************)
(* The devices below a list of sites: retrieve_all_devices_by_siteids      *)
(* first climbs from each site of the list and drops those that lie below  *)
(* another one, and then walks down, level by level, from those that are   *)
(* left.  Each step of the walks is a query of its own and sees what has   *)
(* been committed by then: other sessions create and remove sites and move *)
(* devices between the steps.                                              *)
(*                                                                         *)
(* The tree of sites and its changes are those that module Sites shows the *)
(* functions on sites to commit: a parent is older than its site and never *)
(* changes, and the removal of a site leaves its children behind.          *)
(***************************************************************************)
EXTENDS Integers, Sequences, FiniteSets, SequencesExt

CONSTANTS
    Devices,     \* rows of devices
    MaxSite,     \* bound: ids of sites
    MaxList,     \* bound: length of the list
    MaxChanges   \* bound: changes committed during the call

ASSUME BoundsAssumption == MaxSite \in Nat \ {0} /\ MaxList \in Nat /\ MaxChanges \in Nat

Root == 1
SiteIds == 1 .. MaxSite
NoRow == -1    \* parent of a site that is not there
Nowhere == 0   \* site of a device that is in none

VARIABLES
    \* the committed database
    parent,    \* [SiteIds -> -1 .. MaxSite]: site2site
    place,     \* [Devices -> 0 .. MaxSite]: devicesitedevice
    nextid,    \* the sequence of site
    \* the call
    pc,        \* "idle", "climb", "fetch", "devices", "children" or "done"
    ids,       \* the argument
    idps,      \* what is left of it
    f1,        \* sites of idps that are done
    idv,       \* the site that the climb has come to
    idt,       \* the level that the walk has come to
    returned,  \* [Devices -> Nat]: how often a device has been returned
    \* history
    changes,   \* changes committed during the call
    moved      \* devices moved during the call

database == <<parent, place, nextid>>
call     == <<pc, ids, idps, f1, idv, idt, returned>>
history  == <<changes, moved>>
vars     == <<database, call, history>>

TypeOK ==
    /\ parent \in [SiteIds -> NoRow .. MaxSite]
    /\ place \in [Devices -> 0 .. MaxSite]
    /\ nextid \in 2 .. MaxSite + 1
    /\ pc \in {"idle", "climb", "fetch", "devices", "children", "done"}
    /\ ids \in Seq(SiteIds)
    /\ idps \in Seq(SiteIds)
    /\ f1 \in 0 .. Len(idps)
    /\ idv \in SiteIds \union {0}
    /\ idt \in SUBSET SiteIds
    /\ returned \in [Devices -> Nat]
    /\ changes \in Nat
    /\ moved \in SUBSET Devices

\* Any tree that calls on sites have left: site 1 is there, other sites have
\* older parents, which may have been removed, and devices are in sites.
Init ==
    /\ parent \in [SiteIds -> NoRow .. MaxSite]
    /\ parent[Root] = 0
    /\ \A s \in SiteIds \ {Root} : parent[s] = NoRow \/ parent[s] \in 1 .. s - 1
    /\ nextid \in 2 .. MaxSite + 1
    /\ \A s \in SiteIds : s >= nextid => parent[s] = NoRow
    /\ place \in [Devices -> 0 .. MaxSite]
    /\ \A d \in Devices : place[d] # Nowhere => parent[place[d]] # NoRow
    /\ pc = "idle"
    /\ ids = <<>>
    /\ idps = <<>>
    /\ f1 = 0
    /\ idv = 0
    /\ idt = {}
    /\ returned = [d \in Devices |-> 0]
    /\ changes = 0
    /\ moved = {}

-----------------------------------------------------------------------------
(* retrieve_all_devices_by_siteids(ids) *)

\* The climb starts at the next site of list l, or the fetching at the first.
ClimbNext(l, n) ==
    /\ idps' = l
    /\ IF n < Len(l)
       THEN pc' = "climb" /\ f1' = n /\ idv' = l[n + 1]
       ELSE pc' = "fetch" /\ f1' = 0 /\ idv' = 0

Start(l) ==
    /\ pc = "idle"
    /\ ids' = l
    /\ ClimbNext(l, 0)
    /\ UNCHANGED <<database, idt, returned, history>>

\* MUTANT of Dropped: sites below other sites of the list stay in it.
DroppedIfBroken == parent[idv] = NoRow

\* "pid is null", or "pid = any( idps )".
Dropped == parent[idv] = NoRow \/ parent[idv] \in ToSet(idps)

\* One "select parentid into pid from site2site where siteid=idv".
Climb ==
    /\ pc = "climb"
    /\ \/ /\ Dropped
          /\ ClimbNext(RemoveAt(idps, f1 + 1), f1)
       \/ /\ ~Dropped
          /\ parent[idv] = 0
          /\ ClimbNext(idps, f1 + 1)
       \/ /\ ~Dropped
          /\ parent[idv] > 0
          /\ idv' = parent[idv]
          /\ UNCHANGED <<pc, idps, f1>>
    /\ UNCHANGED <<database, ids, idt, returned, history>>

Return(ds) == returned' = [d \in Devices |-> returned[d] + IF d \in ds THEN 1 ELSE 0]

In(sites) == {d \in Devices : place[d] \in sites}

\* retrieve_all_devices_by_siteid(idv): site 1 stands for all devices, placed or not.
Fetch ==
    /\ pc = "fetch"
    /\ f1 < Len(idps)
    /\ LET s == idps[f1 + 1] IN
       IF s = Root
       THEN Return(Devices) /\ f1' = f1 + 1 /\ UNCHANGED <<pc, idt>>
       ELSE Return(In({s})) /\ idt' = {s} /\ pc' = "devices" /\ UNCHANGED f1
    /\ UNCHANGED <<database, ids, idps, idv, history>>

Children(sites) == {s \in SiteIds : parent[s] \in sites}

\* retrieve_only_unassign_devices_by_parentsiteids( idt ): the devices of the
\* level below, ...
FetchLevel ==
    /\ pc = "devices"
    /\ Return(In(Children(idt)))
    /\ pc' = "children"
    /\ UNCHANGED <<database, ids, idps, f1, idv, idt, history>>

\* MUTANT of NextLevel: the levels are gathered, idt1 not being reset.
LevelsGathered ==
    /\ pc = "children"
    /\ idt' = idt \union Children(idt)
    /\ IF Children(idt) # {} THEN pc' = "devices" /\ UNCHANGED f1
                             ELSE pc' = "fetch" /\ f1' = f1 + 1
    /\ UNCHANGED <<database, ids, idps, idv, returned, history>>

\* MUTANT of NextLevel: the walk ends at the first level below.
FirstLevelOnly ==
    /\ pc = "children"
    /\ idt' = Children(idt)
    /\ pc' = "fetch"
    /\ f1' = f1 + 1
    /\ UNCHANGED <<database, ids, idps, idv, returned, history>>

\* ... and then that level itself, in a second query.
NextLevel ==
    /\ pc = "children"
    /\ idt' = Children(idt)
    /\ IF idt' # {} THEN pc' = "devices" /\ UNCHANGED f1
                    ELSE pc' = "fetch" /\ f1' = f1 + 1
    /\ UNCHANGED <<database, ids, idps, idv, returned, history>>

Finish ==
    /\ pc = "fetch"
    /\ f1 = Len(idps)
    /\ pc' = "done"
    /\ UNCHANGED <<database, ids, idps, f1, idv, idt, returned, history>>

-----------------------------------------------------------------------------
(* What other sessions commit during the call *)

Change ==
    /\ pc \notin {"idle", "done"}
    /\ changes < MaxChanges
    /\ changes' = changes + 1
    /\ UNCHANGED call

\* site_addormodify: the new site is younger than its parent.
CreateSite(p) ==
    /\ parent[p] # NoRow
    /\ nextid <= MaxSite
    /\ Change
    /\ parent' = [parent EXCEPT ![nextid] = p]
    /\ nextid' = nextid + 1
    /\ UNCHANGED <<place, moved>>

\* site_remove: the devices in the site go, the sites below it stay.
RemoveSite(s) ==
    /\ s # Root
    /\ parent[s] # NoRow
    /\ Change
    /\ parent' = [parent EXCEPT ![s] = NoRow]
    /\ place' = [d \in Devices |-> IF place[d] = s THEN Nowhere ELSE place[d]]
    /\ moved' = moved \union In({s})
    /\ UNCHANGED nextid

\* device_site_set, device_site_move.
MoveDevice(d, s) ==
    /\ parent[s] # NoRow
    /\ place[d] # s
    /\ Change
    /\ place' = [place EXCEPT ![d] = s]
    /\ moved' = moved \union {d}
    /\ UNCHANGED <<parent, nextid>>

Walk == Climb \/ Fetch \/ FetchLevel \/ NextLevel \/ Finish

Next ==
    \/ \E n \in 0 .. MaxList : \E l \in [1 .. n -> SiteIds] : Start(l)
    \/ Walk
    \/ \E s \in SiteIds : CreateSite(s) \/ RemoveSite(s)
    \/ \E d \in Devices, s \in SiteIds : MoveDevice(d, s)

Spec == Init /\ [][Next]_vars

\* The call goes on; nobody else has to do anything.
FairSpec == Spec /\ WF_vars(Walk)

-----------------------------------------------------------------------------
(* Properties *)

\* The sites from s up to the first that has no parent in the table.
Path[s \in SiteIds] ==
    {s} \union IF parent[s] \in 1 .. s - 1 THEN Path[parent[s]] ELSE {}

Rooted(s) == Root \in Path[s]

NoDuplicates == \A i, j \in DOMAIN ids : i # j => ids[i] # ids[j]

\* What the function promises: the devices in sites that lie below a site of the
\* list, or all of them for site 1.  A site that was cut off from site 1 when a
\* site above it was removed counts for nothing, even if it is in the list itself.
Promised ==
    IF Root \in ToSet(ids) THEN Devices
    ELSE {d \in Devices : place[d] # Nowhere /\ Rooted(place[d])
                          /\ Path[place[d]] \intersect ToSet(ids) # {}}

\* If nothing changes meanwhile the function returns what it promises, and each
\* device once, unless the list has a site twice.
ReturnsWhatItPromises ==
    pc = "done" /\ changes = 0 =>
        \A d \in Devices :
            IF d \in Promised
            THEN returned[d] >= 1 /\ (NoDuplicates => returned[d] = 1)
            ELSE returned[d] = 0

\* Whatever changes meanwhile, a device that nobody moves is not returned twice.
NotTwice ==
    NoDuplicates => \A d \in Devices \ moved : returned[d] <= 1

\* Whatever changes meanwhile, a device that stays where it is, below sites that
\* stay as well, is returned.
StayedAreReturned == pc = "done" => \A d \in Promised \ moved : returned[d] >= 1

\* The walks end although sites are created under the level they have come to.
WalksEnd == pc = "climb" ~> pc = "done"

=============================================================================
