------------------------------ MODULE SiteTree ------------------------------
(***************************************************************************)
(* What the functions on sites promise their callers: a call that commits  *)
(* does to the tree of sites, and to the devices placed in it, what it was *)
(* asked to, in one step and to the tree as it is at that step; a call     *)
(* that fails does nothing.  Sites, where calls run statement by statement *)
(* beside each other, is shown to implement this module.                   *)
(***************************************************************************)
EXTENDS Integers

CONSTANTS
    Sessions,  \* database sessions, each running one call at a time
    Devices,   \* rows of devices
    Names,     \* names of sites
    RootName,  \* the name of site 1, "Entire Network"
    NoRow,     \* "no such site"
    NoCall,    \* the request of a session that runs no call
    MaxSite    \* bound: ids the sequence of site hands out

VARIABLES
    site,        \* the rows of site and site2site
    place,       \* the site of each device, 0 for none
    modifytime,  \* the version of the sites
    removed,     \* sites that have been removed
    request      \* what each session has asked for

tree == <<site, place, modifytime, removed>>
vars == <<tree, request>>

SiteIds == 1 .. MaxSite

\* site is 0 for a site to be created, from is 0 but for device_site_move.
Requests == [op : {"site_addormodify", "site_devices_addormodify", "site_remove",
                   "device_site_move", "device_site_set", "device_site_set2"},
             site : 0 .. MaxSite, from : 0 .. MaxSite, name : Names, devs : SUBSET Devices]

Init ==
    /\ site = [s \in SiteIds |-> IF s = 1 THEN [name |-> RootName, parent |-> 0] ELSE NoRow]
    /\ place = [d \in Devices |-> 0]
    /\ modifytime = 0
    /\ removed = {}
    /\ request = [w \in Sessions |-> NoCall]

Known == {s \in SiteIds : site[s] # NoRow} \union removed
In(s) == {d \in Devices : place[d] = s}
NameFree(s, n) == \A t \in SiteIds \ {s} : site[t] # NoRow => site[t].name # n

\* Devices P come into site s, devices R into site t.
Placing(s, P, t, R) ==
    place' = [d \in Devices |-> IF d \in P THEN s ELSE IF d \in R THEN t ELSE place[d]]

Stamped == modifytime' = modifytime + 1

-----------------------------------------------------------------------------
(* What a call may do when it commits *)

\* A new site, under a site that is there or was when the call began.
Create(r) ==
    /\ r.op \in {"site_addormodify", "site_devices_addormodify"}
    /\ r.site = 0
    /\ \E s \in SiteIds \ Known, p \in Known, P \in SUBSET r.devs :
          /\ p < s
          /\ NameFree(s, r.name)
          /\ site' = [site EXCEPT ![s] = [name |-> r.name, parent |-> p]]
          /\ Placing(s, P, p, {})
    /\ Stamped
    /\ UNCHANGED removed

Renamed(s, n) == NameFree(s, n) /\ site' = [site EXCEPT ![s].name = n]

Modify(r) ==
    /\ r.op = "site_addormodify"
    /\ r.site # 0
    /\ site[r.site] # NoRow
    /\ Renamed(r.site, r.name)
    /\ Stamped
    /\ UNCHANGED <<place, removed>>

\* The devices of the site go to its parent, but for those that are asked for.
Replaced(r) ==
    \E P \in SUBSET r.devs, R \in SUBSET In(r.site) :
        /\ R # {} => site[r.site].parent \in SiteIds /\ site[site[r.site].parent] # NoRow
        /\ Placing(r.site, P, site[r.site].parent, R)

Refill(r) ==
    /\ r.op = "site_devices_addormodify"
    /\ r.site # 0
    /\ site[r.site] # NoRow
    /\ Renamed(r.site, r.name) \/ UNCHANGED site
    /\ Replaced(r)
    /\ Stamped
    /\ UNCHANGED removed

\* The site may be removed after the call has found it: then no device is in it, and
\* the call places none there.
Fill(r) ==
    /\ r.op = "device_site_set2"
    /\ IF site[r.site] = NoRow THEN UNCHANGED place ELSE Replaced(r)
    /\ Stamped
    /\ UNCHANGED <<site, removed>>

\* No change of columns, no parent, or a site that has been removed meanwhile.
Nothing(r) ==
    /\ r.op \in {"site_addormodify", "site_devices_addormodify", "device_site_set2"}
    /\ UNCHANGED tree

Set(r) ==
    /\ r.op = "device_site_set"
    /\ \E P \in SUBSET r.devs : /\ P # {} => site[r.site] # NoRow
                                /\ Placing(r.site, P, 0, {})
    /\ Stamped
    /\ UNCHANGED <<site, removed>>

\* Only devices that are in the first site by now, and only to a site that is.
Move(r) ==
    /\ r.op = "device_site_move"
    /\ \E R \in SUBSET In(r.from) : /\ R # {} => site[r.site] # NoRow
                                    /\ Placing(r.site, R, 0, {})
    /\ Stamped
    /\ UNCHANGED <<site, removed>>

\* The site goes, and with it the places of exactly the devices that are in it.
Remove(r) ==
    /\ r.op = "site_remove"
    /\ \/ site[r.site] = NoRow /\ UNCHANGED <<site, place, removed>>
       \/ /\ site[r.site] # NoRow
          /\ site' = [site EXCEPT ![r.site] = NoRow]
          /\ Placing(0, In(r.site), 0, {})
          /\ removed' = removed \union {r.site}
    /\ Stamped

-----------------------------------------------------------------------------
Ask(w) ==
    /\ request[w] = NoCall
    /\ request'[w] \in Requests
    /\ request' = [request EXCEPT ![w] = request'[w]]
    /\ UNCHANGED tree

Fail(w) ==
    /\ request[w] # NoCall
    /\ request' = [request EXCEPT ![w] = NoCall]
    /\ UNCHANGED tree

Commit(w) ==
    /\ request[w] # NoCall
    /\ request' = [request EXCEPT ![w] = NoCall]
    /\ \/ Create(request[w]) \/ Modify(request[w]) \/ Refill(request[w]) \/ Nothing(request[w])
       \/ Set(request[w]) \/ Fill(request[w]) \/ Move(request[w]) \/ Remove(request[w])

Next == \E w \in Sessions : Ask(w) \/ Fail(w) \/ Commit(w)

Spec == Init /\ [][Next]_vars

=============================================================================
