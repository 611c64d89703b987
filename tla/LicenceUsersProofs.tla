------------------------- MODULE LicenceUsersProofs -------------------------
(***************************************************************************)
(* Proofs about LicenceUsers, for any number of sessions, names, users,    *)
(* roles, workspaces and calls: links are links of users that exist        *)
(* (LinksHaveUsers), and an import does at its commit what it would do     *)
(* alone, but for the type it has read too early (ImportsAtomically).  Of  *)
(* a list of links only those are missing that others have taken away      *)
(* (LinkedUnlessLost), and doubles of names come from races alone          *)
(* (DoublesOnlyByRace).                                                    *)
(*                                                                         *)
(* Who writes a user has it to itself, and so has its links; who adds a    *)
(* link refers to the user before the commit.  What an import has linked   *)
(* follows from how far it has come in its list.                           *)
(***************************************************************************)
EXTENDS LicenceUsers, SequenceTheorems, TLAPS

-----------------------------------------------------------------------------
(* Types *)

Args == Import \union Names \union {NoArgs}
Rows == UserRow \union {NoUser}
Drafts == UserRow \union {NoUser, Kept}

LEMMA IdsType ==
    /\ UserIds \subseteq Nat \ {0} /\ 0 \notin UserIds
    /\ RoleIds \subseteq Nat \ {0}
    /\ Workspaces \subseteq Targets /\ RoleIds \subseteq Targets
    /\ ByName \notin Workspaces
BY NamesAssumption, MarkersAssumption DEF UserIds, RoleIds, Targets

LEMMA ImportType ==
    ASSUME NEW import \in Import
    PROVE  /\ import.name \in Names /\ import.type \in {Local, 1} /\ import.role \in Names
           /\ import.ws \in Workspaces
           /\ \A n \in Names : [name |-> n, type |-> import.type] \in UserRow
BY DEF Import, UserRow

LEMMA ListsType ==
    ASSUME NEW S, NEW l \in Lists(S), S \subseteq Targets
    PROVE  /\ l \in Seq(Targets \union {ByName})
           /\ 1 \in DOMAIN l
           /\ \A i \in DOMAIN l : l[i] \in S
<1>1. PICK n \in 1 .. MaxList : l \in [1 .. n -> S] BY DEF Lists
<1>2. n \in Nat BY NamesAssumption
<1>3. l \in Seq(S) BY <1>1, <1>2
<1>4. l \in Seq(Targets \union {ByName}) BY <1>1, <1>2
<1> QED BY <1>1, <1>2, <1>4

\* The lists of an import.
LEMMA ImportLists ==
    ASSUME NEW ws \in Workspaces
    PROVE  /\ <<ByName, ws>> \in Seq(Targets \union {ByName})
           /\ <<ws, ByName>> \in Seq(Targets \union {ByName})
           /\ <<ByName>> \in Seq(Targets \union {ByName})
           /\ <<>> \in Seq(Targets \union {ByName})
BY IdsType

LEMMA InitType == Init => TypeOK
<1>1. [name |-> Admin, type |-> Local] \in UserRow BY NamesAssumption DEF UserRow
<1>2. 1 \in RoleIds /\ 1 \in UserIds BY NamesAssumption DEF RoleIds, UserIds
<1>3. <<1, 1>> \in Links BY <1>2 DEF Links, Targets
<1>4. 2 \in 1 .. MaxUser + 1 /\ 2 \in 1 .. MaxRole + 1 BY NamesAssumption
<1>5. <<>> \in Seq(Targets \union {ByName}) OBVIOUS
<1> QED BY <1>1, <1>3, <1>4, <1>5, NamesAssumption DEF Init, TypeOK, Ops, Statements

-----------------------------------------------------------------------------
(* The steps *)

LocalStep(w) ==
    \/ InsertUser(w) \/ ReadType(w) \/ UpdateUser(w) \/ UnlinkRoles(w) \/ UnlinkWorkspaces(w)
    \/ LookForLink(w) \/ InsertLink(w) \/ ForeignKeys(w) \/ LockUser(w)

\* A step of a session is a new call, a statement, a commit, or an end without one.
LEMMA Actions ==
    ASSUME [Next]_vars
    PROVE  \/ UNCHANGED vars
           \/ \E w \in Sessions :
                 NewCall(w) \/ LocalStep(w) \/ InsertRole(w) \/ Commit(w) \/ RollBack(w)
BY DEF Next, Statement, NotUnique, LinkIsThere, NoSuchRole, NoSuchKey, Protected, DeadlockVictim,
       Abort, LocalStep

\* How calls begin.
Starts(f, u, import, l, s) ==
    \/ /\ f = "importuser" /\ u = 0 /\ import \in Import /\ l = <<ByName, import.ws>> /\ s = "insert"
       /\ Named(import.name) = {}
    \/ /\ f = "importuser" /\ u \in UserIds /\ user[u] # NoUser
       /\ import \in Import /\ l = <<>> /\ s = "type"
    \/ /\ f = "importrole" /\ u = 0 /\ import \in Names /\ l = <<>> /\ s \in {"commit", "newrole"}
       /\ s = "newrole" => import \notin {role[r] : r \in RoleIds}
    \/ f = "delete" /\ u \in UserIds /\ import = NoArgs /\ l = <<>> /\ s = "delete"
    \/ /\ f = "link" /\ u \in UserIds /\ import = NoArgs /\ s = "look"
       /\ 1 \in DOMAIN l /\ \A i \in DOMAIN l : l[i] # ByName

LEMMA NewCalls ==
    ASSUME TypeOK, NEW w \in Sessions, NewCall(w)
    PROVE  \E f \in Ops, u \in UserIds \union {0}, import \in Args,
              l \in Seq(Targets \union {ByName}), s \in Statements :
                 /\ Call(w, f, u, import, l, s)
                 /\ Starts(f, u, import, l, s)
                 /\ u < nextuser \/ user[u] # NoUser
<1> USE DEF Ops, Statements
<1>0. nextuser \in 1 .. MaxUser + 1 /\ nextuser \in Nat \ {0} BY NamesAssumption DEF TypeOK
<1>1. CASE \E import \in Imports : ImportUser(w, import)
  <2>1. PICK import \in Imports : ImportUser(w, import) BY <1>1
  <2>2. import \in Import /\ import \in Args BY NamesAssumption DEF Args
  <2>3. import.ws \in Workspaces BY <2>2, ImportType
  <2>4. CASE /\ Named(import.name) = {}
             /\ Call(w, "importuser", 0, import, <<ByName, import.ws>>, "insert")
    <3>1. Starts("importuser", 0, import, <<ByName, import.ws>>, "insert") BY <2>2, <2>4 DEF Starts
    <3>2. 0 < nextuser BY <1>0
    <3> QED BY <2>2, <2>3, <2>4, <3>1, <3>2, ImportLists
  <2>5. CASE \E u \in Named(import.name) : Call(w, "importuser", u, import, <<>>, "type")
        BY <2>2, <2>3, <2>5, ImportLists DEF Starts, Named
  <2> QED BY <2>1, <2>4, <2>5 DEF ImportUser
<1>2. CASE \E n \in Names : ImportRole(w, n)
  <2>1. PICK n \in Names : ImportRole(w, n) BY <1>2
  <2>2. PICK s \in {"commit", "newrole"} :
           /\ Call(w, "importrole", 0, n, <<>>, s)
           /\ s = "newrole" => n \notin {role[r] : r \in RoleIds}
        BY <2>1 DEF ImportRole
  <2>3. n \in Args /\ <<>> \in Seq(Targets \union {ByName}) BY DEF Args
  <2>4. Starts("importrole", 0, n, <<>>, s) BY <2>2 DEF Starts
  <2>5. 0 < nextuser BY <1>0
  <2> QED BY <2>2, <2>3, <2>4, <2>5
<1>3. CASE \E u \in 1 .. nextuser - 1 : DeleteUser(w, u)
  <2>1. PICK u \in 1 .. nextuser - 1 : DeleteUser(w, u) BY <1>3
  <2>2. u \in UserIds /\ u < nextuser BY <1>0, NamesAssumption DEF UserIds
  <2>3. NoArgs \in Args /\ <<>> \in Seq(Targets \union {ByName}) BY DEF Args
  <2> QED BY <2>1, <2>2, <2>3 DEF Starts, DeleteUser
<1>4. CASE \E u \in 1 .. nextuser - 1 : \E l \in Lists(RoleIds) \union Lists(Workspaces) : Link(w, u, l)
  <2>1. PICK u \in 1 .. nextuser - 1, l \in Lists(RoleIds) \union Lists(Workspaces) : Link(w, u, l)
        BY <1>4
  <2>2. u \in UserIds /\ u < nextuser BY <1>0, NamesAssumption DEF UserIds
  <2>3. /\ l \in Seq(Targets \union {ByName})
        /\ 1 \in DOMAIN l
        /\ \A i \in DOMAIN l : l[i] \in Targets
    <3>1. CASE l \in Lists(RoleIds) BY <3>1, ListsType, IdsType
    <3>2. CASE l \in Lists(Workspaces) BY <3>2, ListsType, IdsType
    <3> QED BY <2>1, <3>1, <3>2
  <2>4. \A i \in DOMAIN l : l[i] # ByName BY <2>3, MarkersAssumption
  <2>5. NoArgs \in Args BY DEF Args
  <2> QED BY <2>1, <2>2, <2>3, <2>4, <2>5 DEF Starts, Link
<1> QED BY <1>1, <1>2, <1>3, <1>4 DEF NewCall

\* The end of a transaction leaves nothing of w.
LEMMA ReleaseClears ==
    ASSUME TypeOK, NEW w \in Sessions, Release(w)
    PROVE  /\ pc'[w] = "idle" /\ op'[w] = "none" /\ uid'[w] = 0 /\ list'[w] = <<>>
           /\ at'[w] = 1 /\ type'[w] = NoType
           /\ \A u \in UserIds : draftUser'[w][u] = Kept /\ w \notin shared'[u]
           /\ \A l \in Links : draftLink'[w][l] = "kept"
           /\ nextuser' = nextuser
BY DEF Release, GoTo, TypeOK

\* What a step leaves as it is of session v.
Same(v) ==
    /\ op'[v] = op[v] /\ pc'[v] = pc[v] /\ uid'[v] = uid[v] /\ want'[v] = want[v]
    /\ list'[v] = list[v] /\ at'[v] = at[v] /\ type'[v] = type[v]
    /\ draftUser'[v] = draftUser[v] /\ draftLink'[v] = draftLink[v]
    /\ \A u \in UserIds : v \in shared'[u] <=> v \in shared[u]

LEMMA ReleaseOthers ==
    ASSUME TypeOK, NEW w \in Sessions, Release(w), NEW v \in Sessions \ {w}
    PROVE  Same(v)
BY DEF Release, GoTo, TypeOK, Same

LEMMA CallOthers ==
    ASSUME TypeOK, NEW w \in Sessions, NEW v \in Sessions \ {w},
           NEW f, NEW u, NEW import, NEW l, NEW s, Call(w, f, u, import, l, s)
    PROVE  Same(v)
BY DEF Call, GoTo, TypeOK, Same, drafts

\* What local steps leave alone.
LEMMA LocalFrame ==
    ASSUME NEW w \in Sessions, LocalStep(w)
    PROVE  UNCHANGED <<tables, nextrole, calls, history, args>>
BY DEF LocalStep, InsertUser, ReadType, UpdateUser, UnlinkRoles, UnlinkWorkspaces, Unlink,
       LookForLink, InsertLink, ForeignKeys, LockUser

\* ... and what they may do to the variables of w.
LEMMA LocalEffects ==
    ASSUME TypeOK, NEW w \in Sessions, LocalStep(w)
    PROVE  /\ \E s : pc' = [pc EXCEPT ![w] = s]
           /\ nextuser' # nextuser \/ uid' # uid => InsertUser(w)
           /\ list' # list \/ type' # type => ReadType(w)
           /\ at' = at \/ at' = [at EXCEPT ![w] = at[w] + 1]
           /\ draftUser' # draftUser => InsertUser(w) \/ UpdateUser(w) \/ LockUser(w)
           /\ draftLink' # draftLink => UnlinkRoles(w) \/ UnlinkWorkspaces(w) \/ InsertLink(w)
           /\ shared' # shared => ForeignKeys(w)
<1>1. CASE InsertUser(w) BY <1>1 DEF InsertUser, GoTo, loop
<1>2. CASE ReadType(w) BY <1>2 DEF ReadType, GoTo, drafts
<1>3. CASE UpdateUser(w)
  <2>1. \E s : pc' = [pc EXCEPT ![w] = s] BY <1>3 DEF UpdateUser, GoTo
  <2> QED BY <1>3, <2>1 DEF UpdateUser, loop
<1>4. CASE UnlinkRoles(w) BY <1>4 DEF UnlinkRoles, Unlink, GoTo, loop
<1>5. CASE UnlinkWorkspaces(w)
  <2>1. \E s : Unlink(w, Workspaces, s) BY <1>5 DEF UnlinkWorkspaces
  <2> QED BY <1>5, <2>1 DEF Unlink, GoTo, loop
<1>6. CASE LookForLink(w)
  <2>1. /\ at' = at \/ at' = [at EXCEPT ![w] = at[w] + 1]
        /\ \E s : pc' = [pc EXCEPT ![w] = s]
        BY <1>6 DEF LookForLink, Advance, GoTo
  <2> QED BY <1>6, <2>1 DEF LookForLink, drafts
<1>7. CASE InsertLink(w) BY <1>7 DEF InsertLink, GoTo, loop
<1>8. CASE ForeignKeys(w)
  <2>1. /\ at' = [at EXCEPT ![w] = at[w] + 1]
        /\ \E s : pc' = [pc EXCEPT ![w] = s]
        BY <1>8 DEF ForeignKeys, Advance, GoTo
  <2> QED BY <1>8, <2>1 DEF ForeignKeys, drafts
<1>9. CASE LockUser(w)
  <2>1. \E s : pc' = [pc EXCEPT ![w] = s] BY <1>9 DEF LockUser, GoTo
  <2> QED BY <1>9, <2>1 DEF LockUser, loop
<1> QED BY <1>1, <1>2, <1>3, <1>4, <1>5, <1>6, <1>7, <1>8, <1>9 DEF LocalStep

\* What a call knows of its arguments at some statements.
LEMMA Arguments ==
    ASSUME TypeOK, CallsInOrder, NEW w \in Sessions
    PROVE  /\ pc[w] \in {"insert", "type", "update"} => op[w] = "importuser"
           /\ pc[w] = "delete" => op[w] = "delete"
           /\ pc[w] = "newrole" => op[w] = "importrole" /\ want[w] \in Names
           /\ pc[w] \in {"unrole", "unws"} => op[w] \in {"importuser", "delete"}
           /\ pc[w] \in {"look", "put", "fk"} => op[w] \in {"importuser", "link"}
           /\ pc[w] \in {"type", "update", "unrole", "unws", "look", "put", "fk", "delete"} =>
                 uid[w] \in UserIds
           /\ pc[w] = "insert" => uid[w] \notin UserIds
           /\ pc[w] = "idle" <=> op[w] = "none"
           /\ op[w] = "importuser" => want[w] \in Import
<1>1. InOrder(w) BY DEF CallsInOrder
<1>2. op[w] \in Ops /\ pc[w] \in Statements BY DEF TypeOK
<1> QED BY <1>1, <1>2 DEF InOrder, Steps, Ops, Statements

\* UpdateUser finds the user that is committed, or none at all.
UpdateUserWrites(w) ==
    LET u == uid[w] IN
    /\ u \in UserIds /\ Free(w, u) /\ ~Written(w, u)
    /\ op[w] = "importuser" /\ want[w] \in Import
    /\ \/ user[u] = NoUser /\ draftUser' = draftUser
       \/ /\ user[u] \in UserRow
          /\ [name |-> user[u].name, type |-> want[w].type] \in UserRow
          /\ draftUser' = [draftUser EXCEPT ![w][u] =
                              [name |-> user[u].name, type |-> want[w].type]]

LEMMA UpdateUserEffects ==
    ASSUME TypeOK, CallsInOrder, ImportsSound, NEW w \in Sessions, UpdateUser(w)
    PROVE  UpdateUserWrites(w)
<1> DEFINE u == uid[w]
<1>1. pc[w] = "update" /\ Free(w, u) BY DEF UpdateUser
<1>2. u \in UserIds /\ op[w] = "importuser" /\ want[w] \in Import BY <1>1, Arguments
<1>3. ~Written(w, u) BY <1>1, <1>2 DEF ImportsSound, ImportSound
<1>4. Exists(w, u) <=> user[u] # NoUser BY <1>2, <1>3 DEF Exists, UserSeen
<1>5. user[u] \in UserRow \union {NoUser} BY <1>2 DEF TypeOK
<1>6. user[u] # NoUser =>
         /\ [user[u] EXCEPT !.type = want[w].type] = [name |-> user[u].name, type |-> want[w].type]
         /\ [name |-> user[u].name, type |-> want[w].type] \in UserRow
      BY <1>2, <1>5, ImportType DEF UserRow
<1>7. \/ ~Exists(w, u) /\ draftUser' = draftUser
      \/ /\ Exists(w, u)
         /\ draftUser' = [draftUser EXCEPT ![w][u] = [user[u] EXCEPT !.type = want[w].type]]
      BY DEF UpdateUser
<1> QED BY <1>1, <1>2, <1>3, <1>4, <1>5, <1>6, <1>7 DEF UpdateUserWrites

LEMMA DraftUserType ==
    ASSUME TypeOK, CallsInOrder, ImportsSound, NEW w \in Sessions, LocalStep(w)
    PROVE  /\ draftUser' \in [Sessions -> [UserIds -> Drafts]]
           /\ \/ draftUser' = draftUser
              \/ \E u \in UserIds, row \in UserRow \union {NoUser} :
                    draftUser' = [draftUser EXCEPT ![w][u] = row]
<1>0. draftUser \in [Sessions -> [UserIds -> Drafts]] BY DEF TypeOK, Drafts
<1>1. \/ draftUser' = draftUser
      \/ \E u \in UserIds, row \in UserRow \union {NoUser} :
            draftUser' = [draftUser EXCEPT ![w][u] = row]
  <2>1. CASE InsertUser(w)
    <3>1. want[w] \in Import BY <2>1, Arguments DEF InsertUser
    <3>2. [name |-> want[w].name, type |-> want[w].type] \in UserRow BY <3>1, ImportType
    <3>3. nextuser \in UserIds BY <2>1, NamesAssumption DEF InsertUser, UserIds, TypeOK
    <3> QED BY <2>1, <3>2, <3>3 DEF InsertUser
  <2>2. CASE UpdateUser(w)
    <3>1. UpdateUserWrites(w) BY <2>2, UpdateUserEffects
    <3> QED BY <3>1 DEF UpdateUserWrites
  <2>3. CASE LockUser(w)
    <3>1. uid[w] \in UserIds BY <2>3, Arguments DEF LockUser
    <3> QED BY <2>3, <3>1 DEF LockUser
  <2>4. draftUser' # draftUser => InsertUser(w) \/ UpdateUser(w) \/ LockUser(w) BY LocalEffects
  <2> QED BY <2>1, <2>2, <2>3, <2>4
<1>2. ASSUME NEW u \in UserIds, NEW row \in UserRow \union {NoUser},
             draftUser' = [draftUser EXCEPT ![w][u] = row]
      PROVE  draftUser' \in [Sessions -> [UserIds -> Drafts]]
  <2>1. row \in Drafts BY DEF Drafts
  <2> QED BY <1>0, <1>2, <2>1
<1> QED BY <1>0, <1>1, <1>2

\* The links that Unlink leaves, and those that InsertLink adds to.
LEMMA UnlinkEffects ==
    ASSUME TypeOK, NEW w \in Sessions, NEW targets, NEW s, Unlink(w, targets, s)
    PROVE  /\ draftLink' \in [Sessions -> [Links -> {"kept", "in", "out"}]]
           /\ \A v \in Sessions \ {w} : draftLink'[v] = draftLink[v]
           /\ \A l \in Links :
                 draftLink'[w][l] = IF l[1] = uid[w] /\ l[2] \in targets /\ LinkSeen(w, l)
                                    THEN "out" ELSE draftLink[w][l]
<1> DEFINE f == [l \in Links |-> IF l[1] = uid[w] /\ l[2] \in targets /\ LinkSeen(w, l)
                                 THEN "out" ELSE draftLink[w][l]]
<1>1. draftLink \in [Sessions -> [Links -> {"kept", "in", "out"}]] BY DEF TypeOK
<1>2. draftLink' = [draftLink EXCEPT ![w] = f] BY DEF Unlink
<1>3. f \in [Links -> {"kept", "in", "out"}] BY <1>1
<1>4. \A l \in Links : f[l] = IF l[1] = uid[w] /\ l[2] \in targets /\ LinkSeen(w, l)
                              THEN "out" ELSE draftLink[w][l]
      OBVIOUS
<1> HIDE DEF f
<1> QED BY <1>1, <1>2, <1>3, <1>4

LEMMA InsertLinkEffects ==
    ASSUME TypeOK, CallsInOrder, NEW w \in Sessions, InsertLink(w)
    PROVE  \E t \in Targets :
              /\ Meant(w) = {t} /\ <<uid[w], t>> \in Links
              /\ ~LinkSeen(w, <<uid[w], t>>)
              /\ draftLink' \in [Sessions -> [Links -> {"kept", "in", "out"}]]
              /\ \A v \in Sessions \ {w} : draftLink'[v] = draftLink[v]
              /\ \A l \in Links :
                    draftLink'[w][l] = IF l = <<uid[w], t>> THEN "in" ELSE draftLink[w][l]
<1>1. PICK t \in Targets : /\ Meant(w) = {t}
                           /\ ~LinkSeen(w, <<uid[w], t>>)
                           /\ draftLink' = [draftLink EXCEPT ![w][<<uid[w], t>>] = "in"]
      BY DEF InsertLink
<1>2. uid[w] \in UserIds BY Arguments DEF InsertLink
<1>3. <<uid[w], t>> \in Links BY <1>2 DEF Links
<1>4. draftLink \in [Sessions -> [Links -> {"kept", "in", "out"}]] BY DEF TypeOK
<1> QED BY <1>1, <1>3, <1>4

LEMMA ForeignKeysEffects ==
    ASSUME TypeOK, CallsInOrder, NEW w \in Sessions, ForeignKeys(w)
    PROVE  /\ uid[w] \in UserIds /\ Unwritten(w, uid[w]) /\ Referenced(w) /\ ~RoleUnknown(w)
           /\ pc[w] = "fk"
           /\ shared' \in [UserIds -> SUBSET Sessions]
           /\ w \in shared'[uid[w]]
           /\ \A u \in UserIds, v \in Sessions :
                 v \in shared'[u] => v \in shared[u] \/ (v = w /\ u = uid[w])
           /\ \A u \in UserIds : shared[u] \subseteq shared'[u]
<1>1. /\ pc[w] = "fk" /\ Unwritten(w, uid[w]) /\ Referenced(w) /\ ~RoleUnknown(w)
      /\ shared' = [shared EXCEPT ![uid[w]] = shared[uid[w]] \union {w}]
      BY DEF ForeignKeys
<1>2. uid[w] \in UserIds BY <1>1, Arguments
<1>3. shared \in [UserIds -> SUBSET Sessions] BY DEF TypeOK
<1> QED BY <1>1, <1>2, <1>3

LEMMA DraftLinkType ==
    ASSUME TypeOK, CallsInOrder, NEW w \in Sessions, LocalStep(w)
    PROVE  /\ draftLink' \in [Sessions -> [Links -> {"kept", "in", "out"}]]
           /\ \A v \in Sessions \ {w} : draftLink'[v] = draftLink[v]
<1>1. CASE UnlinkRoles(w) BY <1>1, UnlinkEffects DEF UnlinkRoles
<1>2. CASE UnlinkWorkspaces(w)
  <2>1. PICK s \in {"commit", "look"} : Unlink(w, Workspaces, s) BY <1>2 DEF UnlinkWorkspaces
  <2> QED BY <2>1, UnlinkEffects
<1>3. CASE InsertLink(w) BY <1>3, InsertLinkEffects
<1>4. CASE draftLink' = draftLink BY <1>4 DEF TypeOK
<1>5. draftLink' # draftLink => UnlinkRoles(w) \/ UnlinkWorkspaces(w) \/ InsertLink(w)
      BY LocalEffects
<1> QED BY <1>1, <1>2, <1>3, <1>4, <1>5

LEMMA LocalOthers ==
    ASSUME TypeOK, CallsInOrder, ImportsSound,
           NEW w \in Sessions, LocalStep(w), NEW v \in Sessions \ {w}
    PROVE  Same(v)
<1>1. op'[v] = op[v] /\ want'[v] = want[v] BY LocalFrame DEF args
<1>0. pc \in [Sessions -> Statements] /\ at \in [Sessions -> Nat] BY DEF TypeOK
<1>2. pc'[v] = pc[v] /\ at'[v] = at[v]
  <2>1. pc'[v] = pc[v] BY <1>0, LocalEffects
  <2>2. at' = at \/ at' = [at EXCEPT ![w] = at[w] + 1] BY LocalEffects
  <2> QED BY <1>0, <2>1, <2>2
<1>3. uid'[v] = uid[v]
  <2>1. uid' = uid \/ uid' = [uid EXCEPT ![w] = nextuser] BY LocalEffects DEF InsertUser
  <2> QED BY <2>1 DEF TypeOK
<1>4. list'[v] = list[v] /\ type'[v] = type[v]
  <2>1. CASE ReadType(w)
    <3>1. \E l, t : list' = [list EXCEPT ![w] = l] /\ type' = [type EXCEPT ![w] = t]
          BY <2>1 DEF ReadType
    <3> QED BY <3>1 DEF TypeOK
  <2> QED BY <2>1, LocalEffects
<1>5. draftUser'[v] = draftUser[v]
  <2>1. draftUser \in [Sessions -> [UserIds -> Drafts]] BY DEF TypeOK, Drafts
  <2> QED BY <2>1, DraftUserType
<1>6. draftLink'[v] = draftLink[v] BY DraftLinkType
<1>7. \A u \in UserIds : v \in shared'[u] <=> v \in shared[u]
  <2>1. CASE ForeignKeys(w) BY <2>1, ForeignKeysEffects
  <2> QED BY <2>1, LocalEffects
<1> QED BY <1>1, <1>2, <1>3, <1>4, <1>5, <1>6, <1>7 DEF Same

LEMMA LocalType ==
    ASSUME TypeOK, CallsInOrder, ImportsSound, NEW w \in Sessions, LocalStep(w)
    PROVE  TypeOK'
<1>1. UNCHANGED <<tables, nextrole, calls, history, args>> BY LocalFrame
<1>2. nextuser' \in 1 .. MaxUser + 1 /\ uid' \in [Sessions -> UserIds \union {0}]
  <2>1. CASE InsertUser(w)
    <3>1. nextuser \in UserIds /\ nextuser + 1 \in 1 .. MaxUser + 1
          BY <2>1, NamesAssumption DEF InsertUser, UserIds, TypeOK
    <3>2. nextuser' = nextuser + 1 /\ uid' = [uid EXCEPT ![w] = nextuser] BY <2>1 DEF InsertUser
    <3> QED BY <3>1, <3>2 DEF TypeOK
  <2> QED BY <2>1, LocalEffects DEF TypeOK
<1>3. pc' \in [Sessions -> Statements]
  <2>1. \E s \in Statements : pc' = [pc EXCEPT ![w] = s]
        BY DEF LocalStep, InsertUser, ReadType, UpdateUser, UnlinkRoles, UnlinkWorkspaces, Unlink,
               LookForLink, InsertLink, ForeignKeys, LockUser, Advance, GoTo, Statements
  <2> QED BY <2>1 DEF TypeOK
<1>4. list' \in [Sessions -> Seq(Targets \union {ByName})] /\ type' \in [Sessions -> {Local, 1, NoType}]
  <2>1. CASE ReadType(w)
    <3>1. want[w] \in Import /\ uid[w] \in UserIds BY <2>1, Arguments DEF ReadType
    <3>2. want[w].ws \in Workspaces BY <3>1, ImportType
    <3> DEFINE t == IF Exists(w, uid[w]) THEN user[uid[w]].type ELSE NoType
               l == IF t = Local THEN <<want[w].ws, ByName>> ELSE <<ByName>>
    <3>3. type' = [type EXCEPT ![w] = t] /\ list' = [list EXCEPT ![w] = l] BY <2>1 DEF ReadType
    <3>4. t \in {Local, 1, NoType}
      <4>1. pc[w] = "type" /\ op[w] = "importuser" BY <2>1, Arguments DEF ReadType
      <4>2. ~Written(w, uid[w]) BY <4>1 DEF ImportsSound, ImportSound
      <4>3. user[uid[w]] \in UserRow \union {NoUser} BY <3>1 DEF TypeOK
      <4> QED BY <4>2, <4>3 DEF Exists, UserSeen, UserRow
    <3>5. l \in Seq(Targets \union {ByName}) BY <3>2, ImportLists
    <3> HIDE DEF t, l
    <3> QED BY <3>3, <3>4, <3>5 DEF TypeOK
  <2> QED BY <2>1, LocalEffects DEF TypeOK
<1>5. at' \in [Sessions -> Nat]
  <2>1. at \in [Sessions -> Nat] BY DEF TypeOK
  <2>2. at' = at \/ at' = [at EXCEPT ![w] = at[w] + 1] BY LocalEffects
  <2> QED BY <2>1, <2>2
<1>6. draftUser' \in [Sessions -> [UserIds -> UserRow \union {NoUser, Kept}]]
      BY DraftUserType DEF Drafts
<1>7. draftLink' \in [Sessions -> [Links -> {"kept", "in", "out"}]] BY DraftLinkType
<1>8. shared' \in [UserIds -> SUBSET Sessions]
  <2>1. CASE ForeignKeys(w) BY <2>1, ForeignKeysEffects
  <2> QED BY <2>1, LocalEffects DEF TypeOK
<1> QED BY <1>1, <1>2, <1>3, <1>4, <1>5, <1>6, <1>7, <1>8 DEF TypeOK, tables, history, args

LEMMA CallType ==
    ASSUME TypeOK, NEW w \in Sessions, NEW f \in Ops, NEW u \in UserIds \union {0},
           NEW import \in Args, NEW l \in Seq(Targets \union {ByName}), NEW s \in Statements,
           Call(w, f, u, import, l, s)
    PROVE  TypeOK'
<1>1. want' \in [Sessions -> Import \union Names \union {NoArgs}] BY DEF Call, TypeOK, Args
<1>2. UNCHANGED <<tables, nextuser, nextrole, history, at, type, drafts, shared>> /\ calls' \in Nat
      BY DEF Call, TypeOK
<1>3. /\ op' \in [Sessions -> Ops]
      /\ pc' \in [Sessions -> Statements]
      /\ uid' \in [Sessions -> UserIds \union {0}]
      BY DEF Call, GoTo, TypeOK
<1>4. list' \in [Sessions -> Seq(Targets \union {ByName})]
  <2>1. list \in [Sessions -> Seq(Targets \union {ByName})] BY DEF TypeOK
  <2> QED BY <2>1 DEF Call
<1> QED BY <1>1, <1>2, <1>3, <1>4 DEF TypeOK, tables, history, drafts

LEMMA ReleaseType ==
    ASSUME TypeOK, NEW w \in Sessions, Release(w)
    PROVE  /\ op' \in [Sessions -> Ops]
           /\ pc' \in [Sessions -> Statements]
           /\ uid' \in [Sessions -> UserIds \union {0}]
           /\ want' \in [Sessions -> Import \union Names \union {NoArgs}]
           /\ list' \in [Sessions -> Seq(Targets \union {ByName})]
           /\ at' \in [Sessions -> Nat]
           /\ type' \in [Sessions -> {Local, 1, NoType}]
           /\ draftUser' \in [Sessions -> [UserIds -> UserRow \union {NoUser, Kept}]]
           /\ draftLink' \in [Sessions -> [Links -> {"kept", "in", "out"}]]
           /\ shared' \in [UserIds -> SUBSET Sessions]
           /\ nextuser' \in 1 .. MaxUser + 1 /\ calls' \in Nat
<1>1. "idle" \in Statements /\ "none" \in Ops BY DEF Statements, Ops
<1>2. /\ op' \in [Sessions -> Ops]
      /\ pc' \in [Sessions -> Statements]
      /\ uid' \in [Sessions -> UserIds \union {0}]
      /\ want' \in [Sessions -> Import \union Names \union {NoArgs}]
      /\ nextuser' \in 1 .. MaxUser + 1 /\ calls' \in Nat
      BY <1>1 DEF Release, GoTo, TypeOK
<1>3. list' \in [Sessions -> Seq(Targets \union {ByName})]
  <2>1. list \in [Sessions -> Seq(Targets \union {ByName})] BY DEF TypeOK
  <2>2. <<>> \in Seq(Targets \union {ByName}) OBVIOUS
  <2> QED BY <2>1, <2>2 DEF Release
<1>4. /\ at' \in [Sessions -> Nat]
      /\ type' \in [Sessions -> {Local, 1, NoType}]
      /\ draftUser' \in [Sessions -> [UserIds -> UserRow \union {NoUser, Kept}]]
      /\ draftLink' \in [Sessions -> [Links -> {"kept", "in", "out"}]]
      /\ shared' \in [UserIds -> SUBSET Sessions]
      BY DEF Release, TypeOK
<1> QED BY <1>2, <1>3, <1>4

LEMMA RememberType ==
    ASSUME TypeOK, NEW w \in Sessions, NEW new \in SUBSET Entries, NEW changed, NEW unlinked,
           Remember(w, new, changed, unlinked)
    PROVE  /\ raced' \in SUBSET SUBSET Entries
           /\ since' \in [Sessions -> SUBSET Entries]
           /\ stale' \in SUBSET Sessions
           /\ lost' \in [Sessions -> SUBSET Targets]
<1>1. raced' \in SUBSET SUBSET Entries
  <2>1. since[w] \subseteq Entries /\ raced \in SUBSET SUBSET Entries BY DEF TypeOK
  <2>2. \A e \in new, f \in since[w] : {e, f} \in SUBSET Entries BY <2>1
  <2>3. raced' = raced \union {{e, f} : e \in new, f \in since[w]} BY DEF Remember
  <2> HIDE DEF Entries
  <2> QED BY <2>1, <2>2, <2>3
<1>2. since' \in [Sessions -> SUBSET Entries]
  <2>1. since \in [Sessions -> SUBSET Entries] BY DEF TypeOK
  <2> QED BY <2>1 DEF Remember
<1>3. stale' \in SUBSET Sessions BY DEF Remember
<1>4. lost' \in [Sessions -> SUBSET Targets]
  <2>1. lost \in [Sessions -> SUBSET Targets] BY DEF TypeOK
  <2> QED BY <2>1 DEF Remember
<1> QED BY <1>1, <1>2, <1>3, <1>4

LEMMA CommitType == ASSUME TypeOK, NEW w \in Sessions, Commit(w) PROVE TypeOK'
<1>1. Release(w) /\ UNCHANGED <<role, nextrole>> BY DEF Commit
<1>2. user' \in [UserIds -> UserRow \union {NoUser}]
  <2>1. \A u \in UserIds : UserSeen(w, u) \in UserRow \union {NoUser}
        BY DEF UserSeen, Written, TypeOK
  <2> QED BY <2>1 DEF Commit
<1>3. links' \in SUBSET Links BY DEF Commit
<1>4. /\ raced' \in SUBSET SUBSET Entries
      /\ since' \in [Sessions -> SUBSET Entries]
      /\ stale' \in SUBSET Sessions
      /\ lost' \in [Sessions -> SUBSET Targets]
  <2> DEFINE changed == {u \in UserIds : draftUser[w][u] \notin {Kept, NoUser}}
             new == {"user"} \X {u \in changed : user[u] = NoUser}
  <2>1. new \in SUBSET Entries BY DEF Entries
  <2>2. Remember(w, new, changed, links \ links') BY DEF Commit
  <2> HIDE DEF changed, new
  <2> QED BY <2>1, <2>2, RememberType
<1> QED BY <1>1, <1>2, <1>3, <1>4, ReleaseType DEF TypeOK

LEMMA InsertRoleType ==
    ASSUME TypeOK, CallsInOrder, NEW w \in Sessions, InsertRole(w) PROVE TypeOK'
<1>1. Release(w) /\ UNCHANGED <<user, links>> BY DEF InsertRole
<1>2. want[w] \in Names BY Arguments DEF InsertRole
<1>3. nextrole \in RoleIds /\ nextrole' \in 1 .. MaxRole + 1
      BY NamesAssumption DEF InsertRole, RoleIds, TypeOK
<1>4. role' \in [RoleIds -> Names \union {NoName}] BY <1>2, <1>3 DEF InsertRole, TypeOK
<1>5. /\ raced' \in SUBSET SUBSET Entries
      /\ since' \in [Sessions -> SUBSET Entries]
      /\ stale' \in SUBSET Sessions
      /\ lost' \in [Sessions -> SUBSET Targets]
  <2> DEFINE new == {<<"role", nextrole>>}
  <2>1. new \in SUBSET Entries BY <1>3 DEF Entries
  <2>2. Remember(w, new, {}, {}) BY DEF InsertRole
  <2> HIDE DEF new
  <2> QED BY <2>1, <2>2, RememberType
<1> QED BY <1>1, <1>3, <1>4, <1>5, ReleaseType DEF TypeOK

LEMMA RollBackType == ASSUME TypeOK, NEW w \in Sessions, RollBack(w) PROVE TypeOK'
<1>1. Release(w) /\ UNCHANGED <<tables, nextrole>> BY DEF RollBack
<1>2. /\ since' \in [Sessions -> SUBSET Entries]
      /\ stale' \in SUBSET Sessions
      /\ lost' \in [Sessions -> SUBSET Targets]
      BY DEF RollBack, TypeOK
<1> QED BY <1>1, <1>2, ReleaseType DEF TypeOK, tables

LEMMA NextType == ASSUME TypeOK, CallsInOrder, ImportsSound, [Next]_vars PROVE TypeOK'
<1>1. CASE UNCHANGED vars BY <1>1 DEF vars, tables, history, args, loop, drafts, TypeOK
<1>2. ASSUME NEW w \in Sessions, NewCall(w) PROVE TypeOK' BY <1>2, NewCalls, CallType
<1>3. ASSUME NEW w \in Sessions, LocalStep(w) PROVE TypeOK' BY <1>3, LocalType
<1>4. ASSUME NEW w \in Sessions, InsertRole(w) PROVE TypeOK' BY <1>4, InsertRoleType
<1>5. ASSUME NEW w \in Sessions, Commit(w) PROVE TypeOK' BY <1>5, CommitType
<1>6. ASSUME NEW w \in Sessions, RollBack(w) PROVE TypeOK' BY <1>6, RollBackType
<1> QED BY <1>1, <1>2, <1>3, <1>4, <1>5, <1>6, Actions

-----------------------------------------------------------------------------
(* What steps do to the tables and to other sessions *)

Step(w) == NewCall(w) \/ LocalStep(w) \/ InsertRole(w) \/ Commit(w) \/ RollBack(w)

Sound == TypeOK /\ CallsInOrder /\ ImportsSound

LEMMA StepsOfSessions == ASSUME [Next]_vars PROVE UNCHANGED vars \/ \E w \in Sessions : Step(w)
BY Actions DEF Step

LEMMA StepOthers ==
    ASSUME Sound, NEW w \in Sessions, Step(w), NEW v \in Sessions \ {w}
    PROVE  Same(v)
<1>1. CASE NewCall(w) BY <1>1, NewCalls, CallOthers DEF Sound
<1>2. CASE LocalStep(w) BY <1>2, LocalOthers DEF Sound
<1>3. CASE InsertRole(w) BY <1>3, ReleaseOthers DEF InsertRole, Sound
<1>4. CASE Commit(w) BY <1>4, ReleaseOthers DEF Commit, Sound
<1>5. CASE RollBack(w) BY <1>5, ReleaseOthers DEF RollBack, Sound
<1> QED BY <1>1, <1>2, <1>3, <1>4, <1>5 DEF Step

\* A step that is not a commit leaves users and links; roles only come.
LEMMA Database ==
    ASSUME TypeOK, NewIds, NEW w \in Sessions, Step(w)
    PROVE  /\ ~Commit(w) => user' = user /\ links' = links
           /\ ~InsertRole(w) => role' = role /\ nextrole' = nextrole
           /\ \A r \in RoleIds : role[r] # NoName => role'[r] = role[r]
           /\ nextuser \in Nat \ {0} /\ nextuser <= nextuser'
           /\ nextrole \in Nat \ {0} /\ nextrole <= nextrole'
<1>0. nextuser \in Nat \ {0} /\ nextrole \in Nat \ {0} BY NamesAssumption DEF TypeOK
<1>1. CASE NewCall(w)
  <2>1. UNCHANGED <<user, links, role, nextrole, nextuser>>
        BY <1>1, NewCalls DEF Call, tables
  <2> QED BY <1>0, <2>1
<1>2. CASE LocalStep(w)
  <2>1. UNCHANGED <<user, links, role, nextrole>> BY <1>2, LocalFrame DEF tables
  <2>2. nextuser' = nextuser \/ nextuser' = nextuser + 1 BY <1>2, LocalEffects DEF InsertUser
  <2> QED BY <1>0, <2>1, <2>2
<1>3. CASE InsertRole(w)
  <2>1. /\ UNCHANGED <<user, links, nextuser>> /\ nextrole' = nextrole + 1
        /\ role' = [role EXCEPT ![nextrole] = want[w]]
        BY <1>3 DEF InsertRole, Release
  <2>2. \A r \in RoleIds : role[r] # NoName => r # nextrole BY <1>0, IdsType DEF NewIds
  <2>3. role \in [RoleIds -> Names \union {NoName}] BY DEF TypeOK
  <2> QED BY <1>0, <1>3, <2>1, <2>2, <2>3
<1>4. CASE Commit(w)
  <2>1. UNCHANGED <<role, nextrole, nextuser>> BY <1>4 DEF Commit, Release
  <2> QED BY <1>0, <1>4, <2>1
<1>5. CASE RollBack(w)
  <2>1. UNCHANGED <<user, links, role, nextrole, nextuser>> BY <1>5 DEF RollBack, Release, tables
  <2> QED BY <1>0, <2>1
<1> QED BY <1>1, <1>2, <1>3, <1>4, <1>5 DEF Step

LEMMA CommitEffects ==
    ASSUME TypeOK, NEW w \in Sessions, Commit(w)
    PROVE  /\ pc[w] = "commit" /\ Release(w)
           /\ \A u \in UserIds : user'[u] = UserSeen(w, u)
           /\ \A l \in Links : l \in links' <=> LinkSeen(w, l)
           /\ links' \subseteq Links
BY DEF Commit

-----------------------------------------------------------------------------
(* Users are locked by who writes them *)

\* What a session has written after a step it had, or has got to itself.
LEMMA LocalWrites ==
    ASSUME Sound, UsersLocked, NEW w \in Sessions, LocalStep(w),
           NEW u \in UserIds, draftUser'[w][u] # Kept
    PROVE  /\ u = uid'[w] /\ op[w] \in {"importuser", "delete"} /\ op'[w] = op[w]
           /\ \/ Free(w, u) /\ uid'[w] = uid[w]
              \/ u = nextuser /\ InsertUser(w)
<1>0. op'[w] = op[w] BY LocalFrame DEF args
<1>1. draftUser \in [Sessions -> [UserIds -> Drafts]] /\ uid \in [Sessions -> UserIds \union {0}]
      BY DEF Sound, TypeOK, Drafts
<1>2. Written(w, u) => /\ u = uid[w] /\ op[w] \in {"importuser", "delete"} /\ Free(w, u)
      BY DEF UsersLocked
<1>3. CASE InsertUser(w)
  <2>1. pc[w] = "insert" /\ uid[w] \notin UserIds /\ op[w] = "importuser"
        BY <1>3, Arguments DEF InsertUser, Sound
  <2>2. /\ uid' = [uid EXCEPT ![w] = nextuser]
        /\ draftUser' = [draftUser EXCEPT ![w][nextuser] = [name |-> want[w].name, type |-> want[w].type]]
        BY <1>3 DEF InsertUser
  <2>3. u = nextuser
    <3>1. CASE u # nextuser
      <4>1. draftUser'[w][u] = draftUser[w][u] BY <1>1, <2>2, <3>1
      <4> QED BY <1>2, <2>1, <4>1 DEF Written
    <3> QED BY <3>1
  <2> QED BY <1>0, <1>1, <1>3, <2>1, <2>2, <2>3
<1>4. CASE ~InsertUser(w)
  <2>1. uid'[w] = uid[w] BY <1>4, LocalEffects DEF Sound
  <2>2. CASE draftUser' = draftUser BY <1>0, <1>2, <2>1, <2>2 DEF Written
  <2>3. CASE UpdateUser(w)
    <3>1. UpdateUserWrites(w) BY <2>3, UpdateUserEffects DEF Sound
    <3>2. CASE u = uid[w] BY <1>0, <2>1, <3>1, <3>2 DEF UpdateUserWrites
    <3>3. CASE u # uid[w]
      <4>1. draftUser'[w][u] = draftUser[w][u] BY <1>1, <3>1, <3>3 DEF UpdateUserWrites
      <4> QED BY <1>2, <3>3, <4>1 DEF Written
    <3> QED BY <3>2, <3>3
  <2>4. CASE LockUser(w)
    <3>1. pc[w] = "delete" /\ Free(w, uid[w]) BY <2>4 DEF LockUser
    <3>2. op[w] = "delete" BY <3>1, Arguments DEF Sound
    <3>3. draftUser' = draftUser \/ draftUser' = [draftUser EXCEPT ![w][uid[w]] = NoUser]
          BY <2>4 DEF LockUser
    <3>4. CASE u = uid[w] BY <1>0, <2>1, <3>1, <3>2, <3>4
    <3>5. CASE u # uid[w]
      <4>1. draftUser'[w][u] = draftUser[w][u] BY <1>1, <3>3, <3>5
      <4> QED BY <1>2, <3>5, <4>1 DEF Written
    <3> QED BY <3>4, <3>5
  <2>5. draftUser' # draftUser => InsertUser(w) \/ UpdateUser(w) \/ LockUser(w)
        BY LocalEffects DEF Sound
  <2> QED BY <1>4, <2>2, <2>3, <2>4, <2>5
<1> QED BY <1>3, <1>4

\* A session that makes, ends or has no call has written nothing.
LEMMA NothingWritten ==
    ASSUME Sound, UsersLocked, NEW w \in Sessions, pc[w] = "idle"
    PROVE  /\ op[w] = "none" /\ uid[w] \notin UserIds /\ at[w] = 1 /\ type[w] = NoType
           /\ \A u \in UserIds : ~Written(w, u)
           /\ \A l \in Links : draftLink[w][l] = "kept"
<1>1. InOrder(w) BY DEF Sound, CallsInOrder
<1>2. op[w] = "none" BY Arguments DEF Sound
<1>3. uid[w] \notin UserIds /\ at[w] = 1 /\ type[w] = NoType BY <1>1, <1>2 DEF InOrder
<1>4. \A u \in UserIds : ~Written(w, u) BY <1>2 DEF UsersLocked
<1>5. \A l \in Links : l[1] \in UserIds BY DEF Links
<1>6. \A l \in Links : draftLink[w][l] = "kept" BY <1>1, <1>3, <1>5 DEF InOrder
<1> QED BY <1>2, <1>3, <1>4, <1>6

LEMMA NextLocked ==
    ASSUME Sound, UsersLocked, NewIds, ReferencedStay, [Next]_vars
    PROVE  UsersLocked'
<1>1. CASE UNCHANGED vars
      BY <1>1 DEF vars, args, drafts, UsersLocked, Free, Unwritten, Written
<1>2. ASSUME NEW w \in Sessions, Step(w) PROVE UsersLocked'
  <2>1. \A v \in Sessions \ {w} : Same(v) BY <1>2, StepOthers
  <2>2. \A v \in Sessions : uid[v] < nextuser BY DEF NewIds
  <2>3. \A u \in UserIds : u # nextuser \/ \A v \in Sessions : ~Written(v, u) /\ v \notin shared[u]
    <3>1. nextuser \in Nat /\ \A v \in Sessions : uid[v] # nextuser
      <4>1. nextuser \in Nat BY NamesAssumption DEF Sound, TypeOK
      <4> QED BY <2>2, <4>1
    <3> QED BY <3>1 DEF UsersLocked, ReferencedStay
  <2>4. shared \in [UserIds -> SUBSET Sessions] BY DEF Sound, TypeOK
  <2>5. ASSUME NEW u \in UserIds, draftUser'[w][u] # Kept
        PROVE  /\ u = uid'[w] /\ op'[w] \in {"importuser", "delete"}
               /\ Unwritten(w, u) /\ shared[u] \subseteq {w}
               /\ shared'[u] \subseteq shared[u] \union {w}
    <3>1. CASE LocalStep(w)
      <4>1. u = uid'[w] /\ op'[w] \in {"importuser", "delete"}
            BY <2>5, <3>1, LocalWrites
      <4>2. Unwritten(w, u) /\ shared[u] \subseteq {w}
            BY <2>3, <2>4, <2>5, <3>1, LocalWrites DEF Free, Unwritten
      <4>3. shared'[u] \subseteq shared[u] \union {w}
        <5>1. CASE ForeignKeys(w) BY <2>4, <5>1, ForeignKeysEffects DEF Sound
        <5> QED BY <3>1, <5>1, LocalEffects DEF Sound
      <4> QED BY <4>1, <4>2, <4>3
    <3>2. CASE NewCall(w)
      <4>1. pc[w] = "idle" /\ draftUser' = draftUser
            BY <3>2, NewCalls DEF Call, drafts, Sound
      <4> QED BY <2>5, <4>1, NothingWritten DEF Written
    <3>3. CASE InsertRole(w) \/ Commit(w) \/ RollBack(w)
          BY <2>5, <3>3, ReleaseClears DEF InsertRole, Commit, RollBack, Sound
    <3> QED BY <1>2, <3>1, <3>2, <3>3 DEF Step
  <2>6. ASSUME NEW v \in Sessions \ {w}, NEW u \in UserIds, draftUser'[v][u] # Kept
        PROVE  /\ u = uid'[v] /\ op'[v] \in {"importuser", "delete"}
               /\ \A x \in Sessions \ {v} : draftUser'[x][u] = Kept
               /\ shared'[u] \subseteq {v}
    <3>1. Same(v) BY <2>1
    <3>2. Written(v, u) /\ u = uid[v] /\ op[v] \in {"importuser", "delete"} /\ Free(v, u)
          BY <2>6, <3>1 DEF Same, Written, UsersLocked
    <3>3. draftUser'[w][u] = Kept BY <2>5, <3>2 DEF Unwritten
    <3>4. \A x \in Sessions \ {v, w} : draftUser'[x][u] = Kept
          BY <2>1, <3>2 DEF Same, Free, Unwritten, Written
    <3>5. w \notin shared'[u]
      <4>1. w \notin shared[u] BY <3>2 DEF Free
      <4>2. CASE ForeignKeys(w)
            BY <3>2, <4>1, <4>2, ForeignKeysEffects DEF Sound, Unwritten
      <4>3. CASE ~ForeignKeys(w) /\ LocalStep(w)
        <5>1. shared' = shared BY <4>3, LocalEffects DEF Sound
        <5> QED BY <4>1, <5>1
      <4>4. CASE NewCall(w) BY <4>1, <4>4, NewCalls DEF Call, Sound
      <4>5. CASE InsertRole(w) \/ Commit(w) \/ RollBack(w)
            BY <4>5, ReleaseClears DEF InsertRole, Commit, RollBack, Sound
      <4> QED BY <1>2, <4>2, <4>3, <4>4, <4>5 DEF Step
    <3>6. \A x \in Sessions \ {v} : x \notin shared'[u]
          BY <2>1, <3>2, <3>5 DEF Same, Free
    <3>7. shared' \in [UserIds -> SUBSET Sessions]
          BY NextType DEF Sound, TypeOK
    <3> QED BY <3>1, <3>2, <3>3, <3>4, <3>6, <3>7 DEF Same
  <2>7. ASSUME NEW u \in UserIds, draftUser'[w][u] # Kept
        PROVE  \A x \in Sessions \ {w} : draftUser'[x][u] = Kept
        BY <2>1, <2>5, <2>7 DEF Same, Unwritten, Written
  <2> QED BY <2>5, <2>6, <2>7 DEF UsersLocked, Free, Unwritten, Written
<1> QED BY <1>1, <1>2, StepsOfSessions

-----------------------------------------------------------------------------
(* The sequences are ahead *)

\* A new call of an import is of a user that is there.
LEMMA IdsBelow ==
    ASSUME Sound, UsersLocked, NewIds, NEW w \in Sessions, Step(w)
    PROVE  /\ uid'[w] < nextuser'
           /\ \/ uid'[w] = uid[w]
              \/ uid'[w] \notin UserIds
              \/ op'[w] # "importuser"
              \/ user[uid'[w]] # NoUser
              \/ InsertUser(w) /\ uid'[w] = nextuser
<1>0. nextuser \in Nat \ {0} BY NamesAssumption DEF Sound, TypeOK
<1>1. CASE NewCall(w)
  <2>1. PICK f \in Ops, u \in UserIds \union {0}, import \in Args,
             l \in Seq(Targets \union {ByName}), s \in Statements :
                 /\ Call(w, f, u, import, l, s)
                 /\ Starts(f, u, import, l, s)
                 /\ u < nextuser \/ user[u] # NoUser
        BY <1>1, NewCalls DEF Sound
  <2>2. uid'[w] = u /\ op'[w] = f /\ nextuser' = nextuser
        BY <2>1 DEF Call, Sound, TypeOK
  <2>3. u < nextuser
    <3>1. CASE u = 0 BY <1>0, <3>1
    <3>2. CASE u \in UserIds BY <2>1, <3>2 DEF NewIds
    <3> QED BY <3>1, <3>2
  <2>4. u \notin UserIds \/ f # "importuser" \/ user[u] # NoUser
        BY <2>1, IdsType DEF Starts
  <2> QED BY <2>2, <2>3, <2>4
<1>2. CASE InsertUser(w)
  <2>1. uid'[w] = nextuser /\ nextuser' = nextuser + 1 BY <1>2 DEF InsertUser, Sound, TypeOK
  <2> QED BY <1>0, <1>2, <2>1
<1>3. CASE LocalStep(w) /\ ~InsertUser(w)
  <2>1. uid'[w] = uid[w] /\ nextuser' = nextuser BY <1>3, LocalEffects DEF Sound
  <2> QED BY <2>1 DEF NewIds
<1>4. CASE InsertRole(w) \/ Commit(w) \/ RollBack(w)
  <2>1. uid'[w] = 0 /\ nextuser' = nextuser
        BY <1>4, ReleaseClears DEF InsertRole, Commit, RollBack, Sound
  <2> QED BY <1>0, <2>1, IdsType
<1> QED BY <1>1, <1>2, <1>3, <1>4 DEF Step

\* No user appears but one that was being created.
LEMMA UsersCome ==
    ASSUME Sound, UsersLocked, NEW w \in Sessions, Step(w), NEW u \in UserIds, user'[u] # user[u]
    PROVE  Commit(w) /\ Written(w, u) /\ user'[u] = draftUser[w][u] /\ u = uid[w] /\ Free(w, u)
<1>1. Commit(w)
  <2>1. CASE NewCall(w) BY <2>1, NewCalls DEF Call, tables, Sound
  <2>2. CASE LocalStep(w) BY <2>2, LocalFrame DEF tables
  <2> QED BY <2>1, <2>2 DEF Step, InsertRole, RollBack, tables
<1>2. user'[u] = UserSeen(w, u) BY <1>1, CommitEffects DEF Sound
<1> QED BY <1>1, <1>2 DEF UserSeen, UsersLocked

LEMMA NextNewIds ==
    ASSUME Sound, UsersLocked, NewIds, [Next]_vars
    PROVE  NewIds'
<1>1. CASE UNCHANGED vars
  <2>1. UNCHANGED <<user, role, nextuser, nextrole, uid, op, draftUser>>
        BY <1>1 DEF vars, tables, args, drafts
  <2> QED BY <2>1 DEF NewIds, Creates, Written
<1>2. ASSUME NEW w \in Sessions, Step(w) PROVE NewIds'
  <2>1. \A v \in Sessions \ {w} : Same(v) BY <1>2, StepOthers
  <2>2. /\ nextuser \in Nat \ {0} /\ nextuser <= nextuser'
        /\ nextrole \in Nat \ {0} /\ nextrole <= nextrole'
        BY <1>2, Database DEF Sound
  <2>3. nextuser' \in Nat /\ nextrole' \in Nat /\ \A v \in Sessions : uid[v] \in Nat
    <3>1. TypeOK' BY NextType DEF Sound
    <3>2. nextuser' \in Nat /\ nextrole' \in Nat BY <3>1, NamesAssumption DEF TypeOK
    <3>3. \A v \in Sessions : uid[v] \in Nat
      <4>1. \A v \in Sessions : uid[v] \in UserIds \union {0} BY DEF Sound, TypeOK
      <4>2. UserIds \union {0} \subseteq Nat BY IdsType
      <4> QED BY <4>1, <4>2
    <3> QED BY <3>2, <3>3
  <2>4. \A v \in Sessions : uid[v] < nextuser BY DEF NewIds
  <2>5. ASSUME NEW u \in UserIds, user'[u] # NoUser PROVE u < nextuser'
    <3>1. CASE user'[u] = user[u] BY <2>2, <2>3, <2>5, <3>1, IdsType DEF NewIds
    <3>2. CASE user'[u] # user[u]
      <4>1. u = uid[w] BY <1>2, <3>2, UsersCome
      <4> QED BY <2>2, <2>3, <2>4, <4>1, IdsType
    <3> QED BY <3>1, <3>2
  <2>6. ASSUME NEW v \in Sessions PROVE uid'[v] < nextuser'
    <3>1. CASE v = w BY <1>2, <3>1, IdsBelow
    <3>2. CASE v # w
      <4>1. uid'[v] = uid[v] /\ uid[v] \in Nat BY <2>1, <2>3, <3>2, IdsType DEF Same
      <4> QED BY <2>2, <2>3, <2>4, <4>1
    <3> QED BY <3>1, <3>2
  <2>7. ASSUME NEW r \in RoleIds, role'[r] # NoName PROVE r < nextrole'
    <3>1. CASE InsertRole(w)
      <4>1. nextrole' = nextrole + 1 /\ role' = [role EXCEPT ![nextrole] = want[w]]
            BY <3>1 DEF InsertRole
      <4>2. r = nextrole \/ role'[r] = role[r]
        <5>1. role \in [RoleIds -> Names \union {NoName}] BY DEF Sound, TypeOK
        <5> QED BY <4>1, <5>1
      <4> QED BY <2>2, <2>7, <4>1, <4>2, IdsType DEF NewIds
    <3>2. CASE ~InsertRole(w)
      <4>1. role'[r] = role[r] BY <1>2, <3>2, Database DEF Sound
      <4> QED BY <2>2, <2>3, <2>7, <4>1, IdsType DEF NewIds
    <3> QED BY <3>1, <3>2
  <2>8. ASSUME NEW v \in Sessions, NEW x \in Sessions, NEW u \in UserIds, v # x,
               draftUser'[v][u] # Kept, draftUser'[v][u] # NoUser, user'[u] = NoUser,
               op'[x] = "importuser"
        PROVE  uid'[x] # u
    <3>1. user[u] = NoUser
      <4>1. CASE user'[u] # user[u]
        <5>1. Written(w, u) /\ Commit(w) /\ Free(w, u) BY <1>2, <4>1, UsersCome
        <5>2. CASE v = w BY <2>8, <5>1, <5>2, ReleaseClears DEF Commit, Sound
        <5>3. CASE v # w BY <2>1, <2>8, <5>1, <5>3 DEF Same, Free, Unwritten, Written
        <5> QED BY <5>2, <5>3
      <4> QED BY <2>8, <4>1
    <3>2. CASE v = w
      <4>1. op[x] = "importuser" /\ uid'[x] = uid[x] BY <2>1, <2>8, <3>2 DEF Same
      <4>2. CASE Written(w, u) /\ draftUser[w][u] # NoUser
            BY <2>8, <3>1, <3>2, <4>1, <4>2 DEF NewIds, Creates
      <4>3. CASE InsertUser(w) /\ u = nextuser BY <2>4, <2>2, <4>1, <4>3
      <4>4. CASE UpdateUser(w)
        <5>1. UpdateUserWrites(w) BY <4>4, UpdateUserEffects DEF Sound
        <5>2. draftUser'[w][u] = draftUser[w][u]
          <6>1. draftUser \in [Sessions -> [UserIds -> Drafts]] BY DEF Sound, TypeOK, Drafts
          <6> QED BY <3>1, <5>1, <6>1, MarkersAssumption DEF UpdateUserWrites
        <5> QED BY <2>8, <3>2, <4>2, <5>2 DEF Written
      <4>5. CASE draftUser'[w][u] = draftUser[w][u] BY <2>8, <3>2, <4>2, <4>5 DEF Written
      <4>6. CASE InsertUser(w) \/ LockUser(w)
        <5>1. draftUser \in [Sessions -> [UserIds -> Drafts]] BY DEF Sound, TypeOK, Drafts
        <5>2. CASE InsertUser(w)
          <6>1. draftUser' = [draftUser EXCEPT ![w][nextuser] =
                                 [name |-> want[w].name, type |-> want[w].type]]
                BY <5>2 DEF InsertUser
          <6>2. u = nextuser \/ draftUser'[w][u] = draftUser[w][u] BY <5>1, <6>1
          <6> QED BY <4>3, <4>5, <5>2, <6>2
        <5>3. CASE LockUser(w)
          <6>1. draftUser' = draftUser \/ draftUser' = [draftUser EXCEPT ![w][uid[w]] = NoUser]
                BY <5>3 DEF LockUser
          <6>2. draftUser'[w][u] \in {NoUser, draftUser[w][u]} BY <5>1, <6>1
          <6> QED BY <2>8, <3>2, <4>5, <6>2
        <5> QED BY <4>6, <5>2, <5>3
      <4>7. CASE NewCall(w)
        <5>1. draftUser' = draftUser BY <4>7, NewCalls DEF Call, drafts, Sound
        <5> QED BY <4>5, <5>1
      <4>8. CASE InsertRole(w) \/ Commit(w) \/ RollBack(w)
            BY <2>8, <3>2, <4>8, ReleaseClears DEF InsertRole, Commit, RollBack, Sound
      <4>9. CASE LocalStep(w)
        <5>1. draftUser' # draftUser => InsertUser(w) \/ UpdateUser(w) \/ LockUser(w)
              BY <4>9, LocalEffects DEF Sound
        <5> QED BY <4>4, <4>5, <4>6, <5>1
      <4> QED BY <1>2, <4>7, <4>8, <4>9 DEF Step
    <3>3. CASE v # w
      <4>1. Creates(v, u) BY <2>1, <2>8, <3>1, <3>3 DEF Same, Creates, Written
      <4>2. CASE x # w BY <2>1, <2>8, <4>1, <4>2 DEF Same, NewIds
      <4>3. CASE x = w
        <5>1. CASE uid'[w] = u /\ uid'[w] = uid[w]
          <6>1. op[w] = "importuser"
            <7>1. CASE NewCall(w)
              <8>1. pc[w] = "idle" BY <7>1, NewCalls DEF Call, Sound
              <8> QED BY <5>1, <8>1, NothingWritten
            <7>2. CASE LocalStep(w) BY <2>8, <4>3, <7>2, LocalFrame DEF args
            <7>3. CASE InsertRole(w) \/ Commit(w) \/ RollBack(w)
                  BY <2>8, <4>3, <7>3, ReleaseClears DEF InsertRole, Commit, RollBack, Sound
            <7> QED BY <1>2, <7>1, <7>2, <7>3 DEF Step
          <6> QED BY <3>3, <4>1, <5>1, <6>1 DEF NewIds
        <5>2. CASE uid'[w] = nextuser /\ uid'[w] = u
          <6>1. u = uid[v] BY <4>1 DEF Creates, UsersLocked
          <6> QED BY <2>2, <2>4, <5>2, <6>1
        <5> QED BY <1>2, <2>8, <3>1, <4>3, <5>1, <5>2, IdsBelow
      <4> QED BY <4>2, <4>3
    <3> QED BY <3>2, <3>3
  <2>9. \A v, x \in Sessions, u \in UserIds :
           v # x /\ Creates(v, u)' /\ op'[x] = "importuser" => uid'[x] # u
        BY <2>8 DEF Creates, Written
  <2> QED BY <2>5, <2>6, <2>7, <2>9 DEF NewIds
<1> QED BY <1>1, <1>2, StepsOfSessions

-----------------------------------------------------------------------------
(* Calls in order *)

LEMMA ListsOfImports ==
    ASSUME Sound, NEW w \in Sessions, op[w] = "importuser", pc[w] # "type"
    PROVE  /\ list[w] \in {<<ByName, want[w].ws>>, <<want[w].ws, ByName>>, <<ByName>>}
           /\ 1 \in DOMAIN list[w]
           /\ pc[w] \in {"insert", "update", "unrole", "unws"} => at[w] = 1
<1>1. ImportSound(w) BY DEF Sound, ImportsSound
<1>2. list[w] \in {<<ByName, want[w].ws>>, <<want[w].ws, ByName>>, <<ByName>>}
      BY <1>1 DEF ImportSound
<1>3. pc[w] \in {"insert", "update", "unrole", "unws"} => at[w] = 1
      BY <1>1 DEF ImportSound
<1>4. 1 \in DOMAIN list[w] BY <1>2
<1> QED BY <1>2, <1>3, <1>4

LEMMA AdvanceEffects ==
    ASSUME Sound, NEW w \in Sessions, Advance(w), pc[w] \in {"look", "put", "fk"}
    PROVE  /\ at[w] \in 1 .. Len(list[w]) /\ at'[w] = at[w] + 1
           /\ pc'[w] = IF at[w] = Len(list[w]) THEN "commit"
                       ELSE IF op[w] = "importuser" /\ type[w] = NoType THEN "put" ELSE "look"
           /\ pc'[w] # "commit" => at'[w] \in DOMAIN list[w]
<1>1. at[w] \in DOMAIN list[w] BY DEF Sound, CallsInOrder, InOrder
<1>2. list[w] \in Seq(Targets \union {ByName}) BY DEF Sound, TypeOK
<1>3. DOMAIN list[w] = 1 .. Len(list[w]) /\ Len(list[w]) \in Nat BY <1>2
<1>4. at \in [Sessions -> Nat] /\ pc \in [Sessions -> Statements] BY DEF Sound, TypeOK
<1>5. at'[w] = at[w] + 1 BY <1>4 DEF Advance
<1>6. pc'[w] = IF at[w] = Len(list[w]) THEN "commit"
               ELSE IF op[w] = "importuser" /\ type[w] = NoType THEN "put" ELSE "look"
      BY <1>4 DEF Advance, GoTo
<1>7. pc'[w] # "commit" => at[w] # Len(list[w]) BY <1>6
<1>8. at[w] # Len(list[w]) => at[w] + 1 \in DOMAIN list[w] BY <1>1, <1>3
<1> QED BY <1>1, <1>3, <1>5, <1>6, <1>7, <1>8

\* Most steps leave the call, its user and its list.
LEMMA OrderKept ==
    ASSUME NEW w \in Sessions, InOrder(w),
           op'[w] = op[w], want'[w] = want[w], uid'[w] = uid[w], list'[w] = list[w],
           op[w] # "none", pc[w] # "insert",
           pc'[w] \in Steps(op[w]), pc'[w] \notin {"insert", "newrole"},
           pc'[w] \in {"look", "put", "fk"} => at'[w] \in DOMAIN list[w],
           \A l \in Links : draftLink'[w][l] # "kept" => l[1] = uid[w]
    PROVE  InOrder(w)'
BY DEF InOrder

LEMMA LocalInOrder ==
    ASSUME Sound, NEW w \in Sessions, LocalStep(w)
    PROVE  InOrder(w)'
<1>1. op'[w] = op[w] /\ want'[w] = want[w] BY LocalFrame DEF args
<1>2. InOrder(w) BY DEF Sound, CallsInOrder
<1>3. /\ pc \in [Sessions -> Statements] /\ at \in [Sessions -> Nat]
      /\ uid \in [Sessions -> UserIds \union {0}] /\ type \in [Sessions -> {Local, 1, NoType}]
      /\ list \in [Sessions -> Seq(Targets \union {ByName})]
      BY DEF Sound, TypeOK
<1>4. \A l \in Links : draftLink[w][l] # "kept" => l[1] = uid[w] BY <1>2 DEF InOrder
<1>5. CASE InsertUser(w)
  <2>1. pc[w] = "insert" /\ op[w] = "importuser" /\ want[w] \in Import /\ uid[w] \notin UserIds
        BY <1>5, Arguments DEF InsertUser, Sound
  <2>2. pc'[w] = "put" /\ uid'[w] = nextuser /\ UNCHANGED <<loop, type, draftLink>>
        BY <1>3, <1>5 DEF InsertUser, GoTo
  <2>3. nextuser \in UserIds BY <1>5, NamesAssumption DEF InsertUser, UserIds, Sound, TypeOK
  <2>4. at[w] = 1 /\ 1 \in DOMAIN list[w] BY <2>1, ListsOfImports
  <2>5. \A l \in Links : draftLink[w][l] = "kept" BY <1>4, <2>1 DEF Links
  <2> QED BY <1>1, <2>1, <2>2, <2>3, <2>4, <2>5 DEF InOrder, Steps, loop
<1>6. CASE ReadType(w)
  <2>1. pc[w] = "type" /\ op[w] = "importuser" /\ want[w] \in Import /\ uid[w] \in UserIds
        BY <1>6, Arguments DEF ReadType, Sound
  <2>2. pc'[w] = "update" /\ UNCHANGED <<uid, at, draftLink>>
        BY <1>3, <1>6 DEF ReadType, GoTo, drafts
  <2> QED BY <1>1, <1>4, <2>1, <2>2 DEF InOrder, Steps
<1>7. CASE UpdateUser(w)
  <2>1. pc[w] = "update" /\ op[w] = "importuser" BY <1>7, Arguments DEF UpdateUser, Sound
  <2>2. pc'[w] \in {"unrole", "look"} /\ UNCHANGED <<uid, loop, draftLink>>
        BY <1>3, <1>7 DEF UpdateUser, GoTo
  <2>3. at[w] = 1 /\ 1 \in DOMAIN list[w] BY <2>1, ListsOfImports
  <2> QED BY <1>1, <1>2, <1>4, <2>1, <2>2, <2>3, OrderKept DEF Steps, loop
<1>8. CASE UnlinkRoles(w)
  <2>1. pc[w] = "unrole" /\ op[w] \in {"importuser", "delete"}
        BY <1>8, Arguments DEF UnlinkRoles, Sound
  <2>2. pc'[w] = "unws" /\ UNCHANGED <<uid, loop>>
        BY <1>3, <1>8 DEF UnlinkRoles, Unlink, GoTo
  <2>3. \A l \in Links : draftLink'[w][l] # "kept" => l[1] = uid[w]
        BY <1>4, <1>8, UnlinkEffects DEF UnlinkRoles, Sound
  <2> QED BY <1>1, <1>2, <2>1, <2>2, <2>3, OrderKept DEF Steps, loop
<1>9. CASE UnlinkWorkspaces(w)
  <2>1. pc[w] = "unws" /\ op[w] \in {"importuser", "delete"}
        BY <1>9, Arguments DEF UnlinkWorkspaces, Sound
  <2>2. PICK s \in {"commit", "look"} :
           /\ s = IF op[w] = "delete" THEN "commit" ELSE "look"
           /\ Unlink(w, Workspaces, s)
        BY <1>9 DEF UnlinkWorkspaces
  <2>3. pc'[w] = s /\ UNCHANGED <<uid, loop>> BY <1>3, <2>2 DEF Unlink, GoTo
  <2>4. \A l \in Links : draftLink'[w][l] # "kept" => l[1] = uid[w]
        BY <1>4, <2>2, UnlinkEffects DEF Sound
  <2>5. s = "look" => op[w] = "importuser" /\ at[w] = 1 /\ 1 \in DOMAIN list[w]
        BY <2>1, <2>2, ListsOfImports
  <2> QED BY <1>1, <1>2, <2>1, <2>2, <2>3, <2>4, <2>5, OrderKept DEF Steps, loop
<1>10. CASE LookForLink(w)
  <2>1. pc[w] = "look" /\ op[w] \in {"importuser", "link"}
        BY <1>10, Arguments DEF LookForLink, Sound
  <2>2. UNCHANGED <<uid, list, draftLink>> BY <1>10 DEF LookForLink, drafts
  <2>3. Advance(w) \/ (GoTo(w, "put") /\ at' = at) BY <1>10 DEF LookForLink
  <2>4. /\ pc'[w] \in {"commit", "put", "look"}
        /\ pc'[w] # "commit" => at'[w] \in DOMAIN list[w]
    <3>1. CASE Advance(w) BY <2>1, <3>1, AdvanceEffects
    <3>2. CASE GoTo(w, "put") /\ at' = at BY <1>2, <1>3, <2>1, <3>2 DEF GoTo, InOrder
    <3> QED BY <2>3, <3>1, <3>2
  <2> QED BY <1>1, <1>2, <1>4, <2>1, <2>2, <2>4, OrderKept DEF Steps
<1>11. CASE InsertLink(w)
  <2>1. pc[w] = "put" /\ op[w] \in {"importuser", "link"}
        BY <1>11, Arguments DEF InsertLink, Sound
  <2>2. pc'[w] = "fk" /\ UNCHANGED <<uid, loop>> BY <1>3, <1>11 DEF InsertLink, GoTo
  <2>3. \A l \in Links : draftLink'[w][l] # "kept" => l[1] = uid[w]
    <3>1. PICK t \in Targets :
             \A l \in Links : draftLink'[w][l] = IF l = <<uid[w], t>> THEN "in" ELSE draftLink[w][l]
          BY <1>11, InsertLinkEffects DEF Sound
    <3> QED BY <1>4, <3>1
  <2>4. at[w] \in DOMAIN list[w] BY <1>2, <2>1 DEF InOrder
  <2> QED BY <1>1, <1>2, <2>1, <2>2, <2>3, <2>4, OrderKept DEF Steps, loop
<1>12. CASE ForeignKeys(w)
  <2>1. pc[w] = "fk" /\ op[w] \in {"importuser", "link"}
        BY <1>12, Arguments DEF ForeignKeys, Sound
  <2>2. Advance(w) /\ UNCHANGED <<uid, list, draftLink>> BY <1>12 DEF ForeignKeys, drafts
  <2>3. /\ pc'[w] \in {"commit", "put", "look"}
        /\ pc'[w] # "commit" => at'[w] \in DOMAIN list[w]
        BY <2>1, <2>2, AdvanceEffects
  <2> QED BY <1>1, <1>2, <1>4, <2>1, <2>2, <2>3, OrderKept DEF Steps
<1>13. CASE LockUser(w)
  <2>1. pc[w] = "delete" /\ op[w] = "delete" BY <1>13, Arguments DEF LockUser, Sound
  <2>2. pc'[w] \in {"commit", "unrole"} /\ UNCHANGED <<uid, loop, draftLink>>
        BY <1>3, <1>13 DEF LockUser, GoTo
  <2> QED BY <1>1, <1>2, <1>4, <2>1, <2>2, OrderKept DEF Steps, loop
<1> QED BY <1>5, <1>6, <1>7, <1>8, <1>9, <1>10, <1>11, <1>12, <1>13 DEF LocalStep

LEMMA NextInOrder ==
    ASSUME Sound, UsersLocked, [Next]_vars
    PROVE  CallsInOrder'
<1>1. CASE UNCHANGED vars
  <2>1. UNCHANGED <<op, pc, uid, want, list, at, type, draftLink>>
        BY <1>1 DEF vars, args, loop, drafts
  <2> QED BY <2>1 DEF Sound, CallsInOrder, InOrder
<1>2. ASSUME NEW w \in Sessions, Step(w) PROVE CallsInOrder'
  <2>1. ASSUME NEW v \in Sessions \ {w} PROVE InOrder(v)'
    <3>1. Same(v) /\ InOrder(v) BY <1>2, StepOthers DEF Sound, CallsInOrder
    <3> QED BY <3>1 DEF Same, InOrder
  <2>2. InOrder(w)'
    <3>1. CASE NewCall(w)
      <4>1. PICK f \in Ops, u \in UserIds \union {0}, import \in Args,
                 l \in Seq(Targets \union {ByName}), s \in Statements :
                   Call(w, f, u, import, l, s) /\ Starts(f, u, import, l, s)
            BY <3>1, NewCalls DEF Sound
      <4>2. /\ op'[w] = f /\ uid'[w] = u /\ want'[w] = import /\ list'[w] = l /\ pc'[w] = s
            /\ at' = at /\ type' = type /\ draftLink' = draftLink
            BY <4>1 DEF Call, GoTo, drafts, Sound, TypeOK
      <4>3. pc[w] = "idle" BY <4>1 DEF Call
      <4>4. at[w] = 1 /\ type[w] = NoType /\ \A k \in Links : draftLink[w][k] = "kept"
            BY <4>3, NothingWritten
      <4>5. /\ s \in Steps(f) /\ f # "none"
            /\ u \in UserIds <=> f \in {"importuser", "link", "delete"} /\ s # "insert"
            /\ f = "importuser" => import \in Import
            /\ s = "newrole" => import \in Names
            BY <4>1, IdsType DEF Starts, Steps
      <4>6. /\ f = "link" => ByName \notin {l[i] : i \in DOMAIN l}
            /\ s \in {"look", "put", "fk"} => 1 \in DOMAIN l
            BY <4>1 DEF Starts
      <4> QED BY <4>2, <4>4, <4>5, <4>6 DEF InOrder
    <3>2. CASE LocalStep(w) BY <3>2, LocalInOrder
    <3>3. CASE InsertRole(w) \/ Commit(w) \/ RollBack(w)
      <4>1. /\ pc'[w] = "idle" /\ op'[w] = "none" /\ uid'[w] = 0 /\ at'[w] = 1 /\ type'[w] = NoType
            /\ \A k \in Links : draftLink'[w][k] = "kept"
            BY <3>3, ReleaseClears DEF InsertRole, Commit, RollBack, Sound
      <4> QED BY <4>1, IdsType DEF InOrder, Steps
    <3> QED BY <1>2, <3>1, <3>2, <3>3 DEF Step
  <2> QED BY <2>1, <2>2 DEF CallsInOrder
<1> QED BY <1>1, <1>2, StepsOfSessions

-----------------------------------------------------------------------------
(* References, and links taken away *)

LEMMA NextReferenced ==
    ASSUME Sound, UsersLocked, NewIds, ReferencedStay, [Next]_vars
    PROVE  ReferencedStay'
<1>1. CASE UNCHANGED vars
  <2>1. UNCHANGED <<user, op, uid, draftUser, shared>>
        BY <1>1 DEF vars, tables, args, drafts
  <2> QED BY <2>1 DEF ReferencedStay, Exists, UserSeen, Written
<1>2. ASSUME NEW w \in Sessions, Step(w) PROVE ReferencedStay'
  <2>0. shared' \in [UserIds -> SUBSET Sessions] BY NextType DEF Sound, TypeOK
  <2>1. ASSUME NEW u \in UserIds, NEW v \in Sessions \ {w}, v \in shared'[u]
        PROVE  Exists(v, u)' /\ u = uid'[v] /\ op'[v] \in {"importuser", "link"}
    <3>1. Same(v) BY <1>2, StepOthers
    <3>2. v \in shared[u] BY <2>1, <3>1 DEF Same
    <3>3. Exists(v, u) /\ u = uid[v] /\ op[v] \in {"importuser", "link"} BY <3>2 DEF ReferencedStay
    <3>4. user'[u] = user[u]
      <4>1. user'[u] # user[u] => Free(w, u) BY <1>2, UsersCome
      <4> QED BY <3>2, <4>1 DEF Free
    <3> QED BY <3>1, <3>3, <3>4 DEF Same, Exists, UserSeen, Written
  <2>2. ASSUME NEW u \in UserIds, w \in shared'[u]
        PROVE  Exists(w, u)' /\ u = uid'[w] /\ op'[w] \in {"importuser", "link"}
    <3>1. CASE NewCall(w)
      <4>1. pc[w] = "idle" /\ shared' = shared BY <3>1, NewCalls DEF Call, Sound
      <4>2. u = uid[w] BY <2>2, <4>1 DEF ReferencedStay
      <4> QED BY <4>1, <4>2, NothingWritten
    <3>2. CASE LocalStep(w)
      <4>1. op'[w] = op[w] /\ user' = user BY <3>2, LocalFrame DEF args, tables
      <4>2. CASE ForeignKeys(w)
        <5>1. UNCHANGED <<uid, draftUser>> BY <4>2 DEF ForeignKeys, drafts
        <5>2. u = uid[w] /\ op[w] \in {"importuser", "link"} /\ Exists(w, u)
          <6>1. pc[w] = "fk" /\ Referenced(w) BY <4>2, ForeignKeysEffects DEF Sound
          <6>2. op[w] \in {"importuser", "link"} BY <6>1, Arguments DEF Sound
          <6>3. w \in shared[u] \/ u = uid[w] BY <2>2, <4>2, ForeignKeysEffects DEF Sound
          <6> QED BY <6>1, <6>2, <6>3 DEF Referenced, ReferencedStay
        <5> QED BY <4>1, <5>1, <5>2 DEF Exists, UserSeen, Written
      <4>3. CASE ~ForeignKeys(w)
        <5>1. shared' = shared BY <3>2, <4>3, LocalEffects DEF Sound
        <5>2. Exists(w, u) /\ u = uid[w] /\ op[w] \in {"importuser", "link"}
              BY <2>2, <5>1 DEF ReferencedStay
        <5>3. ~InsertUser(w) BY <5>2, Arguments DEF InsertUser, Sound
        <5>4. ~LockUser(w) BY <5>2, Arguments DEF LockUser, Sound
        <5>5. uid' = uid BY <3>2, <5>3, LocalEffects DEF Sound
        <5>6. CASE UpdateUser(w)
          <6>1. UpdateUserWrites(w) BY <5>6, UpdateUserEffects DEF Sound
          <6>2. draftUser \in [Sessions -> [UserIds -> Drafts]] BY DEF Sound, TypeOK, Drafts
          <6>3. draftUser'[w][u] = draftUser[w][u] \/ draftUser'[w][u] \in UserRow
                BY <5>2, <6>1, <6>2 DEF UpdateUserWrites
          <6> QED BY <4>1, <5>2, <5>5, <6>3, MarkersAssumption DEF Exists, UserSeen, Written
        <5>7. CASE ~UpdateUser(w)
          <6>1. draftUser' = draftUser BY <3>2, <5>3, <5>4, <5>7, LocalEffects DEF Sound
          <6> QED BY <4>1, <5>2, <5>5, <6>1 DEF Exists, UserSeen, Written
        <5> QED BY <5>6, <5>7
      <4> QED BY <4>2, <4>3
    <3>3. CASE InsertRole(w) \/ Commit(w) \/ RollBack(w)
          BY <2>2, <3>3, ReleaseClears DEF InsertRole, Commit, RollBack, Sound
    <3> QED BY <1>2, <3>1, <3>2, <3>3 DEF Step
  <2>3. \A u \in UserIds : \A v \in shared'[u] : v \in Sessions BY <2>0
  <2> QED BY <2>1, <2>2, <2>3 DEF ReferencedStay
<1> QED BY <1>1, <1>2, StepsOfSessions

\* A session that is not in the middle of a call has no links in its draft.
LEMMA DraftsOfLinks ==
    ASSUME Sound, UsersLocked, NEW w \in Sessions, Step(w), ~LocalStep(w)
    PROVE  \A l \in Links : draftLink'[w][l] = "kept"
<1>1. CASE NewCall(w)
  <2>1. pc[w] = "idle" /\ draftLink' = draftLink BY <1>1, NewCalls DEF Call, drafts, Sound
  <2> QED BY <2>1, NothingWritten
<1>2. CASE InsertRole(w) \/ Commit(w) \/ RollBack(w)
      BY <1>2, ReleaseClears DEF InsertRole, Commit, RollBack, Sound
<1> QED BY <1>1, <1>2 DEF Step

LEMMA NextAdded ==
    ASSUME Sound, UsersLocked, NewIds, AddedRefer, [Next]_vars
    PROVE  AddedRefer'
<1>0. \A l \in Links : l[1] \in UserIds /\ l = <<l[1], l[2]>> BY DEF Links
<1>1. CASE UNCHANGED vars
  <2>1. UNCHANGED <<role, op, pc, draftLink, shared>>
        BY <1>1 DEF vars, tables, args, drafts
  <2> QED BY <2>1 DEF AddedRefer
<1>2. ASSUME NEW w \in Sessions, Step(w) PROVE AddedRefer'
  <2>0. \A r \in RoleIds : role[r] # NoName => role'[r] # NoName BY <1>2, Database DEF Sound
  <2>1. ASSUME NEW v \in Sessions \ {w}, NEW l \in Links, draftLink'[v][l] = "in"
        PROVE  /\ op'[v] \in {"importuser", "link"}
               /\ \/ pc'[v] = "fk"
                  \/ v \in shared'[l[1]] /\ (l[2] \in RoleIds => role'[l[2]] # NoName)
    <3>1. Same(v) BY <1>2, StepOthers
    <3>2. draftLink[v][l] = "in" BY <2>1, <3>1 DEF Same
    <3>3. /\ op[v] \in {"importuser", "link"}
          /\ \/ pc[v] = "fk"
             \/ v \in shared[l[1]] /\ (l[2] \in RoleIds => role[l[2]] # NoName)
          BY <3>2 DEF AddedRefer
    <3> QED BY <1>0, <2>0, <3>1, <3>3 DEF Same
  <2>2. ASSUME NEW l \in Links, draftLink'[w][l] = "in"
        PROVE  /\ op'[w] \in {"importuser", "link"}
               /\ \/ pc'[w] = "fk"
                  \/ w \in shared'[l[1]] /\ (l[2] \in RoleIds => role'[l[2]] # NoName)
    <3>1. LocalStep(w) BY <1>2, <2>2, DraftsOfLinks
    <3>2. op'[w] = op[w] /\ role' = role BY <3>1, LocalFrame DEF args, tables
    <3>3. CASE InsertLink(w)
      <4>1. pc[w] = "put" /\ pc'[w] = "fk" BY <3>3 DEF InsertLink, GoTo, Sound, TypeOK
      <4> QED BY <3>2, <4>1, Arguments DEF Sound
    <3>4. CASE ~InsertLink(w)
      <4>1. draftLink[w][l] = "in"
        <5>1. CASE UnlinkRoles(w) BY <2>2, <5>1, UnlinkEffects DEF UnlinkRoles, Sound
        <5>2. CASE UnlinkWorkspaces(w)
          <6>1. PICK s \in {"commit", "look"} : Unlink(w, Workspaces, s)
                BY <5>2 DEF UnlinkWorkspaces
          <6> QED BY <2>2, <6>1, UnlinkEffects DEF Sound
        <5> QED BY <2>2, <3>1, <3>4, <5>1, <5>2, LocalEffects DEF Sound
      <4>2. /\ op[w] \in {"importuser", "link"}
            /\ \/ pc[w] = "fk"
               \/ w \in shared[l[1]] /\ (l[2] \in RoleIds => role[l[2]] # NoName)
            BY <4>1 DEF AddedRefer
      <4>3. CASE ForeignKeys(w)
        <5>1. l[1] = uid[w] BY <4>1 DEF Sound, CallsInOrder, InOrder
        <5>2. w \in shared'[l[1]] BY <4>3, <5>1, ForeignKeysEffects DEF Sound
        <5>3. l[2] \in RoleIds => role[l[2]] # NoName
          <6>1. ~RoleUnknown(w) BY <4>3, ForeignKeysEffects DEF Sound
          <6>2. l = <<uid[w], l[2]>> BY <1>0, <5>1
          <6> QED BY <4>1, <6>1, <6>2 DEF RoleUnknown
        <5> QED BY <3>2, <4>2, <5>2, <5>3
      <4>4. CASE ~ForeignKeys(w)
        <5>1. shared' = shared BY <3>1, <4>4, LocalEffects DEF Sound
        <5>2. pc[w] # "fk"
          BY <3>1, <3>4, <4>4 DEF LocalStep, InsertUser, ReadType, UpdateUser, UnlinkRoles,
             UnlinkWorkspaces, LookForLink, LockUser
        <5> QED BY <3>2, <4>2, <5>1, <5>2
      <4> QED BY <4>3, <4>4
    <3> QED BY <3>3, <3>4
  <2> QED BY <2>1, <2>2 DEF AddedRefer
<1> QED BY <1>1, <1>2, StepsOfSessions

\* A user once written by the transaction stays so while it lasts.
LEMMA WrittenStays ==
    ASSUME Sound, NEW w \in Sessions, LocalStep(w), NEW u \in UserIds, Written(w, u)
    PROVE  Written(w, u)'
<1>1. draftUser \in [Sessions -> [UserIds -> Drafts]] BY DEF Sound, TypeOK, Drafts
<1>2. CASE draftUser' = draftUser BY <1>2 DEF Written
<1>3. ASSUME NEW x \in UserIds, NEW row \in UserRow \union {NoUser},
             draftUser' = [draftUser EXCEPT ![w][x] = row]
      PROVE  Written(w, u)'
  <2>1. draftUser'[w][u] = draftUser[w][u] \/ draftUser'[w][u] = row BY <1>1, <1>3
  <2>2. row # Kept BY MarkersAssumption
  <2> QED BY <2>1, <2>2 DEF Written
<1> QED BY <1>2, <1>3, DraftUserType DEF Sound

\* Links that a call takes away are links of its user, which it has written.
LEMMA UnlinksWritten ==
    ASSUME Sound, DeletionsUnlink, NEW w \in Sessions, pc[w] \in {"unrole", "unws"},
           NEW l \in Links, l[1] = uid[w], LinkSeen(w, l)
    PROVE  Written(w, l[1])
<1>1. op[w] \in {"importuser", "delete"} BY Arguments DEF Sound
<1>2. CASE op[w] = "delete" BY <1>2 DEF DeletionsUnlink
<1>3. CASE op[w] = "importuser"
  <2>1. ImportSound(w) BY <1>3 DEF Sound, ImportsSound
  <2>2. ~Written(w, uid[w]) => Linked(w) = {} BY <2>1 DEF ImportSound
  <2>3. l[2] \in Targets /\ l = <<uid[w], l[2]>> BY DEF Links
  <2>4. l[2] \in Linked(w) BY <2>3 DEF Linked
  <2> QED BY <2>2, <2>4
<1> QED BY <1>1, <1>2, <1>3

LEMMA NextTaken ==
    ASSUME Sound, UsersLocked, DeletionsUnlink, TakenLocked, [Next]_vars
    PROVE  TakenLocked'
<1>1. CASE UNCHANGED vars
  <2>1. UNCHANGED drafts BY <1>1 DEF vars
  <2> QED BY <2>1 DEF drafts, TakenLocked, Written
<1>2. ASSUME NEW w \in Sessions, Step(w) PROVE TakenLocked'
  <2>1. ASSUME NEW v \in Sessions \ {w}, NEW l \in Links, draftLink'[v][l] = "out"
        PROVE  Written(v, l[1])'
    <3>1. Same(v) BY <1>2, StepOthers
    <3> QED BY <2>1, <3>1 DEF Same, TakenLocked, Written
  <2>2. ASSUME NEW l \in Links, draftLink'[w][l] = "out" PROVE Written(w, l[1])'
    <3>1. LocalStep(w) BY <1>2, <2>2, DraftsOfLinks
    <3>2. l[1] \in UserIds BY DEF Links
    <3>3. Written(w, l[1])
      <4>1. CASE draftLink[w][l] = "out" BY <4>1 DEF TakenLocked
      <4>2. CASE UnlinkRoles(w)
        <5>1. pc[w] = "unrole" /\ Unlink(w, RoleIds, "unws") BY <4>2 DEF UnlinkRoles
        <5>2. draftLink[w][l] = "out" \/ (l[1] = uid[w] /\ LinkSeen(w, l))
              BY <2>2, <5>1, UnlinkEffects DEF Sound
        <5> QED BY <4>1, <5>1, <5>2, UnlinksWritten
      <4>3. CASE UnlinkWorkspaces(w)
        <5>1. PICK s \in {"commit", "look"} : pc[w] = "unws" /\ Unlink(w, Workspaces, s)
              BY <4>3 DEF UnlinkWorkspaces
        <5>2. draftLink[w][l] = "out" \/ (l[1] = uid[w] /\ LinkSeen(w, l))
              BY <2>2, <5>1, UnlinkEffects DEF Sound
        <5> QED BY <4>1, <5>1, <5>2, UnlinksWritten
      <4>4. CASE InsertLink(w) BY <2>2, <4>1, <4>4, InsertLinkEffects DEF Sound
      <4> QED BY <2>2, <3>1, <4>1, <4>2, <4>3, <4>4, LocalEffects DEF Sound
    <3> QED BY <3>1, <3>2, <3>3, WrittenStays
  <2> QED BY <2>1, <2>2 DEF TakenLocked
<1> QED BY <1>1, <1>2, StepsOfSessions

-----------------------------------------------------------------------------
(* Deletions, and links of users that exist *)

\* Nobody else changes a user that a session has written, or links of it.
LEMMA WrittenFixed ==
    ASSUME Sound, UsersLocked, NewIds, AddedRefer, TakenLocked,
           NEW w \in Sessions, Step(w), NEW v \in Sessions \ {w},
           NEW u \in UserIds, Written(v, u)
    PROVE  /\ user'[u] = user[u]
           /\ \A l \in Links : l[1] = u => (l \in links' <=> l \in links)
<1>1. Free(v, u) BY DEF UsersLocked
<1>2. ~Written(w, u) /\ w \notin shared[u] BY <1>1 DEF Free, Unwritten
<1>3. user'[u] = user[u] BY <1>2, UsersCome
<1>4. ASSUME NEW l \in Links, l[1] = u PROVE l \in links' <=> l \in links
  <2>1. CASE Commit(w)
    <3>1. l \in links' <=> LinkSeen(w, l) BY <2>1, CommitEffects DEF Sound
    <3>2. draftLink[w][l] # "out" BY <1>2, <1>4 DEF TakenLocked
    <3>3. draftLink[w][l] # "in"
      <4>1. pc[w] = "commit" BY <2>1 DEF Commit
      <4> QED BY <1>2, <1>4, <4>1 DEF AddedRefer
    <3>4. draftLink[w][l] \in {"kept", "in", "out"} BY DEF Sound, TypeOK
    <3> QED BY <3>1, <3>2, <3>3, <3>4 DEF LinkSeen
  <2>2. CASE ~Commit(w) BY <2>2, Database DEF Sound
  <2> QED BY <2>1, <2>2
<1> QED BY <1>3, <1>4

\* ... so that the session sees the same links.
LEMMA LinkedFixed ==
    ASSUME Sound, UsersLocked, NewIds, AddedRefer, TakenLocked,
           NEW w \in Sessions, Step(w), NEW v \in Sessions \ {w}, Written(v, uid[v])
    PROVE  Linked(v)' = Linked(v)
<1>1. Same(v) BY StepOthers
<1>2. CASE uid[v] \in UserIds
  <2>1. ASSUME NEW t \in Targets PROVE <<uid[v], t>> \in links' <=> <<uid[v], t>> \in links
    <3>1. <<uid[v], t>> \in Links BY <1>2 DEF Links
    <3> QED BY <1>2, <3>1, WrittenFixed
  <2> QED BY <1>1, <2>1 DEF Same, Linked, LinkSeen
<1>3. CASE uid[v] \notin UserIds
  <2>1. \A t \in Targets : <<uid[v], t>> \notin Links BY <1>3 DEF Links
  <2>2. links \subseteq Links BY DEF Sound, TypeOK
  <2>3. links' \subseteq Links
    <3>1. CASE Commit(w) BY <3>1, CommitEffects DEF Sound
    <3>2. CASE ~Commit(w) BY <2>2, <3>2, Database DEF Sound
    <3> QED BY <3>1, <3>2
  <2> QED BY <1>1, <2>1, <2>2, <2>3 DEF Same, Linked, LinkSeen
<1> QED BY <1>2, <1>3

LEMMA NextDeletions ==
    ASSUME Sound, UsersLocked, NewIds, AddedRefer, TakenLocked, DeletionsUnlink, [Next]_vars
    PROVE  DeletionsUnlink'
<1>1. CASE UNCHANGED vars
  <2>1. UNCHANGED <<links, op, pc, uid, draftUser, draftLink>>
        BY <1>1 DEF vars, tables, args, drafts
  <2> QED BY <2>1 DEF DeletionsUnlink, Unlinked, Linked, LinkSeen, Written
<1>2. ASSUME NEW w \in Sessions, Step(w) PROVE DeletionsUnlink'
  <2>1. ASSUME NEW v \in Sessions \ {w}, op'[v] = "delete"
        PROVE  (/\ pc[v] = "delete" => ~Written(v, uid[v])
                /\ pc[v] \in {"unrole", "unws"} => Written(v, uid[v])
                /\ Written(v, uid[v]) => draftUser[v][uid[v]] = NoUser /\ Unlinked(v))'
    <3>1. Same(v) BY <1>2, StepOthers
    <3>2. /\ pc[v] = "delete" => ~Written(v, uid[v])
          /\ pc[v] \in {"unrole", "unws"} => Written(v, uid[v])
          /\ Written(v, uid[v]) => draftUser[v][uid[v]] = NoUser /\ Unlinked(v)
          BY <2>1, <3>1 DEF Same, DeletionsUnlink
    <3>3. Written(v, uid[v]) => Linked(v)' = Linked(v) BY <1>2, LinkedFixed
    <3> QED BY <3>1, <3>2, <3>3 DEF Same, Unlinked, Written
  <2>2. ASSUME op'[w] = "delete"
        PROVE  (/\ pc[w] = "delete" => ~Written(w, uid[w])
                /\ pc[w] \in {"unrole", "unws"} => Written(w, uid[w])
                /\ Written(w, uid[w]) => draftUser[w][uid[w]] = NoUser /\ Unlinked(w))'
    <3>1. CASE NewCall(w)
      <4>1. PICK f \in Ops, u \in UserIds \union {0}, import \in Args,
                 l \in Seq(Targets \union {ByName}), s \in Statements :
                   Call(w, f, u, import, l, s) /\ Starts(f, u, import, l, s)
            BY <3>1, NewCalls DEF Sound
      <4>2. op'[w] = f /\ uid'[w] = u /\ pc'[w] = s /\ draftUser' = draftUser
            BY <4>1 DEF Call, GoTo, drafts, Sound, TypeOK
      <4>3. u \in UserIds /\ s = "delete" BY <2>2, <4>1, <4>2 DEF Starts
      <4>4. ~Written(w, u) BY <4>1, <4>3, NothingWritten DEF Call
      <4> QED BY <4>2, <4>3, <4>4 DEF Written
    <3>2. CASE LocalStep(w)
      <4>1. op[w] = "delete" /\ links' = links BY <2>2, <3>2, LocalFrame DEF args, tables
      <4>2. /\ pc[w] = "delete" => ~Written(w, uid[w])
            /\ pc[w] \in {"unrole", "unws"} => Written(w, uid[w])
            /\ Written(w, uid[w]) => draftUser[w][uid[w]] = NoUser /\ Unlinked(w)
            BY <4>1 DEF DeletionsUnlink
      <4>3. pc \in [Sessions -> Statements] BY DEF Sound, TypeOK
      <4>4. CASE LockUser(w)
        <5>1. pc[w] = "delete" /\ uid[w] \in UserIds /\ uid' = uid
              BY <4>4, Arguments DEF LockUser, Sound
        <5>2. CASE ~Exists(w, uid[w]) /\ GoTo(w, "commit") /\ UNCHANGED draftUser
          <6>1. pc'[w] = "commit" BY <4>3, <5>2 DEF GoTo
          <6> QED BY <4>2, <5>1, <5>2, <6>1 DEF Written
        <5>3. CASE draftUser' = [draftUser EXCEPT ![w][uid[w]] = NoUser] /\ GoTo(w, "unrole")
          <6>1. pc'[w] = "unrole" BY <4>3, <5>3 DEF GoTo
          <6>2. draftUser \in [Sessions -> [UserIds -> Drafts]] BY DEF Sound, TypeOK, Drafts
          <6>3. draftUser'[w][uid[w]] = NoUser BY <5>1, <5>3, <6>2
          <6> QED BY <5>1, <6>1, <6>3, MarkersAssumption DEF Unlinked, Written
        <5> QED BY <4>4, <5>2, <5>3 DEF LockUser
      <4>5. CASE UnlinkRoles(w)
        <5>1. pc[w] = "unrole" /\ uid[w] \in UserIds /\ Unlink(w, RoleIds, "unws")
              BY <4>5, Arguments DEF UnlinkRoles, Sound
        <5>2. uid' = uid /\ draftUser' = draftUser /\ pc'[w] = "unws"
              BY <4>3, <5>1 DEF Unlink, GoTo
        <5>3. ASSUME NEW t \in RoleIds, LinkSeen(w, <<uid[w], t>>)' PROVE FALSE
          <6>1. <<uid[w], t>> \in Links BY <5>1 DEF Links, Targets
          <6>2. draftLink'[w][<<uid[w], t>>] = IF LinkSeen(w, <<uid[w], t>>) THEN "out"
                                               ELSE draftLink[w][<<uid[w], t>>]
                BY <5>1, <6>1, UnlinkEffects DEF Sound
          <6> QED BY <4>1, <5>2, <5>3, <6>2 DEF LinkSeen
        <5>4. Linked(w)' \intersect RoleIds = {} BY <5>2, <5>3 DEF Linked
        <5> QED BY <4>2, <5>1, <5>2, <5>4 DEF Unlinked, Written
      <4>6. CASE UnlinkWorkspaces(w)
        <5>1. pc[w] = "unws" /\ uid[w] \in UserIds /\ Unlink(w, Workspaces, "commit")
              BY <4>1, <4>6, Arguments DEF UnlinkWorkspaces, Sound
        <5>2. uid' = uid /\ draftUser' = draftUser /\ pc'[w] = "commit"
              BY <4>3, <5>1 DEF Unlink, GoTo
        <5>3. Written(w, uid[w]) /\ Linked(w) \intersect RoleIds = {}
              BY <4>2, <5>1 DEF Unlinked
        <5>4. ASSUME NEW t \in Targets, LinkSeen(w, <<uid[w], t>>)' PROVE FALSE
          <6>1. <<uid[w], t>> \in Links BY <5>1 DEF Links
          <6>2. draftLink'[w][<<uid[w], t>>] =
                   IF t \in Workspaces /\ LinkSeen(w, <<uid[w], t>>) THEN "out"
                   ELSE draftLink[w][<<uid[w], t>>]
                BY <5>1, <6>1, UnlinkEffects DEF Sound
          <6>3. LinkSeen(w, <<uid[w], t>>) /\ t \notin Workspaces
                BY <4>1, <5>2, <5>4, <6>2 DEF LinkSeen
          <6>4. t \in RoleIds BY <6>3 DEF Targets
          <6> QED BY <5>3, <6>3, <6>4 DEF Linked, Targets
        <5>5. Linked(w)' = {} BY <5>2, <5>4 DEF Linked
        <5> QED BY <4>2, <5>1, <5>2, <5>3, <5>5 DEF Unlinked, Written
      <4>7. LockUser(w) \/ UnlinkRoles(w) \/ UnlinkWorkspaces(w)
        <5>1. pc[w] \notin {"insert", "type", "update", "look", "put", "fk"}
              BY <4>1, Arguments DEF Sound
        <5> QED BY <3>2, <5>1 DEF LocalStep, InsertUser, ReadType, UpdateUser, LookForLink,
                   InsertLink, ForeignKeys
      <4> QED BY <4>4, <4>5, <4>6, <4>7
    <3>3. CASE InsertRole(w) \/ Commit(w) \/ RollBack(w)
          BY <2>2, <3>3, ReleaseClears DEF InsertRole, Commit, RollBack, Sound
    <3> QED BY <1>2, <3>1, <3>2, <3>3 DEF Step
  <2> QED BY <2>1, <2>2 DEF DeletionsUnlink
<1> QED BY <1>1, <1>2, StepsOfSessions

\* The row an import has written is one of a user.
LEMMA ImportWrites ==
    ASSUME Sound, NEW w \in Sessions, op[w] = "importuser", NEW u \in UserIds, u = uid[w],
           Written(w, u), pc[w] \in {"unrole", "unws", "look", "put", "fk", "commit"}
    PROVE  draftUser[w][u] \in UserRow /\ draftUser[w][u] # NoUser
<1>1. ImportSound(w) BY DEF Sound, ImportsSound
<1>2. draftUser[w][u] = [name |-> IF user[u] = NoUser THEN want[w].name ELSE user[u].name,
                         type |-> want[w].type]
      BY <1>1 DEF ImportSound
<1>3. want[w] \in Import BY Arguments DEF Sound
<1>4. user[u] \in UserRow \union {NoUser} BY DEF Sound, TypeOK
<1>5. user[u] # NoUser => user[u].name \in Names BY <1>4 DEF UserRow
<1>6. (IF user[u] = NoUser THEN want[w].name ELSE user[u].name) \in Names BY <1>3, <1>5, ImportType
<1>7. draftUser[w][u] \in UserRow BY <1>2, <1>3, <1>6, ImportType
<1> QED BY <1>7, MarkersAssumption

LEMMA NextLinksHaveUsers ==
    ASSUME Sound, UsersLocked, NewIds, ReferencedStay, AddedRefer, TakenLocked,
           DeletionsUnlink, LinksHaveUsers, [Next]_vars
    PROVE  LinksHaveUsers'
<1>1. CASE UNCHANGED vars
  <2>1. UNCHANGED <<user, role, links>> BY <1>1 DEF vars, tables
  <2> QED BY <2>1 DEF LinksHaveUsers
<1>2. ASSUME NEW w \in Sessions, Step(w) PROVE LinksHaveUsers'
  <2>1. CASE ~Commit(w)
    <3>1. user' = user /\ links' = links BY <1>2, <2>1, Database DEF Sound
    <3>2. \A r \in RoleIds : role[r] # NoName => role'[r] # NoName BY <1>2, Database DEF Sound
    <3> QED BY <3>1, <3>2 DEF LinksHaveUsers
  <2>2. ASSUME Commit(w), NEW l \in links'
        PROVE  user'[l[1]] # NoUser /\ (l[2] \in RoleIds => role'[l[2]] # NoName)
    <3>1. l \in Links /\ LinkSeen(w, l) /\ pc[w] = "commit" /\ role' = role
          BY <2>2, CommitEffects DEF Sound, Commit
    <3>2. l[1] \in UserIds /\ l[2] \in Targets /\ l = <<l[1], l[2]>> BY <3>1 DEF Links
    <3>3. user'[l[1]] = UserSeen(w, l[1]) BY <2>2, <3>2, CommitEffects DEF Sound
    <3>4. CASE draftLink[w][l] = "in"
      <4>1. w \in shared[l[1]] /\ (l[2] \in RoleIds => role[l[2]] # NoName)
            BY <3>1, <3>4 DEF AddedRefer
      <4>2. Exists(w, l[1]) BY <3>2, <4>1 DEF ReferencedStay
      <4> QED BY <3>1, <3>3, <4>1, <4>2 DEF Exists
    <3>5. CASE draftLink[w][l] = "kept"
      <4>1. l \in links BY <3>1, <3>5 DEF LinkSeen
      <4>2. user[l[1]] # NoUser /\ (l[2] \in RoleIds => role[l[2]] # NoName)
            BY <4>1 DEF LinksHaveUsers
      <4>3. CASE Written(w, l[1])
        <5>1. l[1] = uid[w] /\ op[w] \in {"importuser", "delete"}
              BY <3>2, <4>3 DEF UsersLocked
        <5>2. l[2] \in Linked(w)
          <6>1. l = <<uid[w], l[2]>> BY <3>2, <5>1
          <6>2. LinkSeen(w, <<uid[w], l[2]>>) BY <3>1, <6>1
          <6> QED BY <3>2, <6>2 DEF Linked
        <5>3. op[w] # "delete" BY <3>1, <4>3, <5>1, <5>2 DEF DeletionsUnlink, Unlinked
        <5>4. draftUser[w][l[1]] # NoUser BY <3>1, <3>2, <4>3, <5>1, <5>3, ImportWrites
        <5> QED BY <3>1, <3>3, <4>2, <4>3, <5>4 DEF UserSeen
      <4>4. CASE ~Written(w, l[1]) BY <3>1, <3>3, <4>2, <4>4 DEF UserSeen
      <4> QED BY <4>3, <4>4
    <3> QED BY <3>1, <3>4, <3>5 DEF LinkSeen
  <2> QED BY <2>1, <2>2 DEF LinksHaveUsers
<1> QED BY <1>1, <1>2, StepsOfSessions

-----------------------------------------------------------------------------
(* Imports, while others take steps *)

AtWork == {"unrole", "unws", "look", "put", "fk", "commit"}

\* The last part of ImportSound.
Work(w) ==
    LET u == uid[w] IN
    IF Written(w, u)
    THEN /\ LinksAsAsked(w)
         /\ draftUser[w][u] = [name |-> IF user[u] = NoUser THEN want[w].name ELSE user[u].name,
                               type |-> want[w].type]
         /\ user[u] = NoUser => /\ pc[w] \in {"put", "fk", "commit"}
                                /\ type[w] = NoType /\ list[w] = <<ByName, want[w].ws>>
         /\ pc[w] = "commit" => at[w] = Len(list[w]) + 1
         /\ pc[w] \in {"unrole", "unws"} => type[w] = Local
    ELSE user[u] = NoUser /\ pc[w] # "commit" /\ (pc[w] # "fk" => Linked(w) = {})

LEMMA Works == ASSUME NEW w \in Sessions, ImportSound(w), pc[w] \in AtWork PROVE Work(w)
BY DEF ImportSound, Work, AtWork

\* A user that does not exist has no links.
LEMMA NothingLinked ==
    ASSUME Sound, LinksHaveUsers, NEW u \in UserIds, user[u] = NoUser
    PROVE  \A t \in Targets : <<u, t>> \notin links
BY DEF LinksHaveUsers

\* No user that an import has found or created comes from somebody else.
LEMMA NobodyCreates ==
    ASSUME Sound, UsersLocked, NewIds, NEW w \in Sessions, Step(w), NEW v \in Sessions \ {w},
           op[v] = "importuser", uid[v] \in UserIds, user[uid[v]] = NoUser
    PROVE  user'[uid[v]] = NoUser
<1>1. CASE user'[uid[v]] # user[uid[v]]
  <2>1. Written(w, uid[v]) /\ user'[uid[v]] = draftUser[w][uid[v]] BY <1>1, UsersCome
  <2>2. ~Creates(w, uid[v]) BY DEF NewIds
  <2> QED BY <2>1, <2>2 DEF Creates
<1> QED BY <1>1

\* An import of a user that somebody changes is stale.
LEMMA ChangedIsStale ==
    ASSUME Sound, UsersLocked, NewIds, NEW w \in Sessions, Step(w), NEW v \in Sessions \ {w},
           op[v] = "importuser", uid[v] \in UserIds
    PROVE  /\ v \in stale => v \in stale'
           /\ pc[v] # "type" /\ user'[uid[v]] # user[uid[v]] /\ user'[uid[v]] # NoUser => v \in stale'
<1>1. pc[v] # "idle" BY Arguments DEF Sound
<1>2. v \in stale => v \in stale'
  <2>1. CASE NewCall(w) BY <2>1, NewCalls DEF Call, history, Sound
  <2>2. CASE LocalStep(w) BY <2>2, LocalFrame DEF history
  <2>3. CASE InsertRole(w) \/ Commit(w)
    <3>1. \E new, changed, unlinked : Remember(w, new, changed, unlinked)
          BY <2>3 DEF InsertRole, Commit
    <3> QED BY <1>1, <3>1 DEF Remember
  <2>4. CASE RollBack(w) BY <2>4 DEF RollBack
  <2> QED BY <2>1, <2>2, <2>3, <2>4 DEF Step
<1>3. ASSUME pc[v] # "type", user'[uid[v]] # user[uid[v]], user'[uid[v]] # NoUser
      PROVE  v \in stale'
  <2>1. Commit(w) /\ Written(w, uid[v]) /\ user'[uid[v]] = draftUser[w][uid[v]]
        BY <1>3, UsersCome
  <2> DEFINE changed == {u \in UserIds : draftUser[w][u] \notin {Kept, NoUser}}
  <2>2. uid[v] \in changed BY <1>3, <2>1 DEF Written
  <2>3. \E new, unlinked : Remember(w, new, changed, unlinked) BY <2>1 DEF Commit
  <2>4. Knows(v) BY <1>3 DEF Knows
  <2> HIDE DEF changed
  <2> QED BY <1>1, <2>2, <2>3, <2>4 DEF Remember
<1> QED BY <1>2, <1>3

LEMMA OtherWorks ==
    ASSUME Sound, UsersLocked, NewIds, AddedRefer, TakenLocked, LinksHaveUsers', TypeOK',
           NEW w \in Sessions, Step(w), NEW v \in Sessions \ {w},
           op[v] = "importuser", uid[v] \in UserIds, pc[v] \in AtWork, ImportSound(v)
    PROVE  Work(v)'
<1> DEFINE u == uid[v]
<1>1. Same(v) BY StepOthers
<1>2. Work(v) BY Works
<1>3. CASE Written(v, u)
  <2>1. user'[u] = user[u] /\ \A l \in Links : l[1] = u => (l \in links' <=> l \in links)
        BY <1>3, WrittenFixed
  <2>2. Linked(v)' = Linked(v) BY <1>3, LinkedFixed
  <2>3. Reached(v)' = Reached(v) BY <1>1 DEF Same, Reached
  <2>4. LinksIn(links, u)' = LinksIn(links, u)
    <3>1. links \subseteq Links /\ links' \subseteq Links BY DEF Sound, TypeOK
    <3>2. {k \in links' : k[1] = u} = {k \in links : k[1] = u} BY <2>1, <3>1
    <3>3. uid'[v] = u BY <1>1 DEF Same
    <3> HIDE DEF u
    <3> QED BY <3>2, <3>3 DEF LinksIn, u
  <2>5. Remaining(v)' = Remaining(v)
    <3> HIDE DEF u
    <3> QED BY <1>1, <2>1, <2>4 DEF Same, Remaining, u
  <2>6. LinksAsAsked(v)'
    <3>1. LinksAsAsked(v) BY <1>2, <1>3 DEF Work
    <3>2. want'[v] = want[v] BY <1>1 DEF Same
    <3>3. RolesNamed(want[v].role) \subseteq RolesNamed(want[v].role)'
      <4> DEFINE n == want[v].role
      <4>1. n' = n BY <3>2
      <4>2. \A r \in RoleIds : role[r] # NoName => role'[r] = role[r] BY Database DEF Sound
      <4> HIDE DEF n
      <4>3. RolesNamed(n) \subseteq RolesNamed(n)' BY <4>1, <4>2 DEF RolesNamed
      <4> QED BY <4>3 DEF n
    <3> QED BY <2>2, <2>3, <2>5, <3>1, <3>3 DEF LinksAsAsked
  <2> QED BY <1>1, <1>2, <1>3, <2>1, <2>6 DEF Same, Work, Written
<1>4. CASE ~Written(v, u)
  <2>1. user[u] = NoUser /\ pc[v] # "commit" /\ (pc[v] # "fk" => Linked(v) = {})
        BY <1>2, <1>4 DEF Work
  <2>2. user'[u] = NoUser BY <2>1, NobodyCreates
  <2>3. pc[v] # "fk" => Linked(v)' = {}
    <3>1. ASSUME pc[v] # "fk", NEW t \in Targets, LinkSeen(v, <<u, t>>)' PROVE FALSE
      <4>1. uid'[v] = u /\ draftLink'[v] = draftLink[v] BY <1>1 DEF Same
      <4>2. CASE draftLink[v][<<u, t>>] = "kept"
        <5>1. <<u, t>> \in links' BY <3>1, <4>1, <4>2 DEF LinkSeen
        <5> QED BY <2>2, <5>1 DEF LinksHaveUsers
      <4>3. CASE draftLink[v][<<u, t>>] # "kept"
        <5>1. LinkSeen(v, <<u, t>>) BY <3>1, <4>1, <4>3 DEF LinkSeen
        <5> QED BY <2>1, <3>1, <5>1 DEF Linked
      <4> QED BY <4>2, <4>3
    <3>2. uid'[v] = u BY <1>1 DEF Same
    <3> QED BY <3>1, <3>2 DEF Linked
  <2> QED BY <1>1, <1>4, <2>1, <2>2, <2>3 DEF Same, Work, Written
<1> QED BY <1>3, <1>4

LEMMA OtherImports ==
    ASSUME Sound, UsersLocked, NewIds, AddedRefer, TakenLocked, LinksHaveUsers', TypeOK',
           NEW w \in Sessions, Step(w), NEW v \in Sessions \ {w}, op'[v] = "importuser"
    PROVE  ImportSound(v)'
<1> DEFINE u == uid[v]
<1>1. Same(v) BY StepOthers
<1>2. op[v] = "importuser" BY <1>1 DEF Same
<1>3. ImportSound(v) BY <1>2 DEF Sound, ImportsSound
<1>4. pc[v] # "insert" => u \in UserIds
      BY <1>2 DEF Sound, CallsInOrder, InOrder
<1>5. pc[v] \in Steps("importuser") BY <1>2 DEF Sound, CallsInOrder, InOrder
<1>6. /\ pc[v] \in {"insert", "type", "update", "unrole", "unws"} => at[v] = 1
      /\ pc[v] = "insert" => list[v] = <<ByName, want[v].ws>> /\ type[v] = NoType
      /\ pc[v] # "type" => list[v] \in {<<ByName, want[v].ws>>, <<want[v].ws, ByName>>, <<ByName>>}
      /\ pc[v] \in {"type", "update"} =>
            ~Written(v, u) /\ \A l \in Links : draftLink[v][l] = "kept"
      BY <1>3 DEF ImportSound
<1>7. pc[v] \notin {"insert", "type"} /\ user'[u] # NoUser =>
         /\ type[v] # NoType /\ (v \notin stale' => type[v] = user'[u].type)
         /\ list[v] = IF type[v] = Local THEN <<want[v].ws, ByName>> ELSE <<ByName>>
  <2> SUFFICES ASSUME pc[v] \notin {"insert", "type"}, user'[u] # NoUser
               PROVE  /\ type[v] # NoType /\ (v \notin stale' => type[v] = user'[u].type)
                      /\ list[v] = IF type[v] = Local THEN <<want[v].ws, ByName>> ELSE <<ByName>>
      OBVIOUS
  <2>1. u \in UserIds BY <1>4
  <2>2. user[u] # NoUser BY <1>2, <2>1, NobodyCreates
  <2>3. /\ type[v] # NoType /\ (v \notin stale => type[v] = user[u].type)
        /\ list[v] = IF type[v] = Local THEN <<want[v].ws, ByName>> ELSE <<ByName>>
        BY <1>3, <2>2 DEF ImportSound
  <2>4. v \notin stale' => v \notin stale /\ user'[u] = user[u]
        BY <1>2, <2>1, ChangedIsStale
  <2> QED BY <2>3, <2>4
<1>8. pc[v] \in AtWork => Work(v)'
  <2>1. pc[v] \in AtWork => u \in UserIds BY <1>4 DEF AtWork
  <2> QED BY <1>2, <1>3, <2>1, OtherWorks
<1>9. Written(v, u)' <=> Written(v, u) BY <1>1 DEF Same, Written
<1> QED BY <1>1, <1>6, <1>7, <1>8, <1>9 DEF Same, ImportSound, Work, AtWork

-----------------------------------------------------------------------------
(* Imports, while they take steps of their own *)

\* What the import has come to in its list.
LEMMA Meaning ==
    ASSUME Sound, NEW w \in Sessions, op[w] = "importuser", pc[w] \in {"look", "put", "fk"}
    PROVE  /\ at[w] \in Nat \ {0}
           /\ \/ /\ list[w][at[w]] = ByName /\ Meant(w) = RolesNamed(want[w].role)
                 /\ pc[w] # "fk" => ByName \notin Reached(w)
              \/ list[w][at[w]] # ByName /\ Meant(w) = {list[w][at[w]]}
           /\ Meant(w) \subseteq Targets
<1> DEFINE ws == want[w].ws
<1>1. ws \in Workspaces /\ ws # ByName
  <2>1. want[w] \in Import BY Arguments DEF Sound
  <2> QED BY <2>1, ImportType, IdsType
<1>2. list[w] \in {<<ByName, ws>>, <<ws, ByName>>, <<ByName>>} BY ListsOfImports
<1>3. at[w] \in DOMAIN list[w] BY DEF Sound, CallsInOrder, InOrder
<1>4. ws \in Targets /\ RolesNamed(want[w].role) \subseteq Targets BY <1>1, IdsType DEF RolesNamed
<1> HIDE DEF ws
<1>5. CASE list[w] = <<ByName, ws>>
  <2>1. at[w] \in {1, 2} BY <1>3, <1>5
  <2>2. at[w] = 1 => list[w][at[w]] = ByName /\ (pc[w] # "fk" => Reached(w) = {})
        BY <1>5 DEF Reached
  <2>3. at[w] = 2 => list[w][at[w]] = ws BY <1>5
  <2> QED BY <1>1, <1>4, <2>1, <2>2, <2>3 DEF Meant
<1>6. CASE list[w] = <<ws, ByName>>
  <2>1. at[w] \in {1, 2} BY <1>3, <1>6
  <2>2. at[w] = 1 => list[w][at[w]] = ws BY <1>6
  <2>3. at[w] = 2 => list[w][at[w]] = ByName BY <1>6
  <2>4. at[w] = 2 /\ pc[w] # "fk" => ByName \notin Reached(w)
    <3>1. ASSUME at[w] = 2, pc[w] # "fk" PROVE Reached(w) = {list[w][i] : i \in 1 .. 1}
          BY <3>1 DEF Reached
    <3>2. \A i \in 1 .. 1 : list[w][i] = ws BY <1>6
    <3> QED BY <1>1, <3>1, <3>2
  <2> QED BY <1>1, <1>4, <2>1, <2>2, <2>3, <2>4 DEF Meant
<1>7. CASE list[w] = <<ByName>>
  <2>1. at[w] = 1 BY <1>3, <1>7
  <2>2. list[w][at[w]] = ByName /\ (pc[w] # "fk" => Reached(w) = {}) BY <1>7, <2>1 DEF Reached
  <2> QED BY <1>4, <2>1, <2>2 DEF Meant
<1> QED BY <1>2, <1>5, <1>6, <1>7

\* The list at the next place.
LEMMA ReachedGrows ==
    ASSUME NEW w \in Sessions, at[w] \in Nat \ {0}, pc[w] # "fk", list'[w] = list[w],
           \/ pc'[w] = "fk" /\ at'[w] = at[w]
           \/ pc'[w] # "fk" /\ at'[w] = at[w] + 1
    PROVE  Reached(w)' = Reached(w) \union {list[w][at[w]]}
<1>1. Reached(w) = {list[w][i] : i \in 1 .. at[w] - 1} BY DEF Reached
<1>2. Reached(w)' = {list[w][i] : i \in 1 .. at[w]} BY DEF Reached
<1>3. 1 .. at[w] = (1 .. at[w] - 1) \union {at[w]} OBVIOUS
<1> QED BY <1>1, <1>2, <1>3

\* ... and the link it stands for.
LEMMA LinksGrow ==
    ASSUME NEW w \in Sessions, LinksAsAsked(w), NEW t, NEW x,
           Reached(w)' = Reached(w) \union {x}, Remaining(w)' = Remaining(w),
           Linked(w)' = Linked(w) \union {t}, role' = role, want'[w] = want[w],
           IF x = ByName THEN t \in RolesNamed(want[w].role) /\ ByName \notin Reached(w) ELSE t = x
    PROVE  LinksAsAsked(w)'
<1>1. RolesNamed(want[w].role)' = RolesNamed(want[w].role) BY DEF RolesNamed
<1>2. CASE x = ByName
  <2>1. Linked(w) = Remaining(w) \union Reached(w) BY <1>2 DEF LinksAsAsked
  <2>2. Linked(w)' = Remaining(w)' \union (Reached(w)' \ {ByName}) \union {t} BY <1>2, <2>1
  <2> QED BY <1>1, <1>2, <2>2 DEF LinksAsAsked
<1>3. CASE x # ByName
  <2>1. CASE ByName \in Reached(w)
    <3>1. PICK r \in RolesNamed(want[w].role) :
             Linked(w) = Remaining(w) \union (Reached(w) \ {ByName}) \union {r}
          BY <2>1 DEF LinksAsAsked
    <3>2. Linked(w)' = Remaining(w)' \union (Reached(w)' \ {ByName}) \union {r} BY <1>3, <3>1
    <3> QED BY <1>1, <2>1, <3>2 DEF LinksAsAsked
  <2>2. CASE ByName \notin Reached(w) BY <1>3, <2>2 DEF LinksAsAsked
  <2> QED BY <2>1, <2>2
<1> QED BY <1>2, <1>3

\* Most steps leave the user, the list and the type.
LEMMA ImportKept ==
    ASSUME NEW w \in Sessions, ImportSound(w), pc[w] \notin {"insert", "type"},
           uid'[w] = uid[w], list'[w] = list[w], type'[w] = type[w], want'[w] = want[w],
           user' = user, stale' = stale,
           pc'[w] \in AtWork, pc'[w] \in {"unrole", "unws"} => at'[w] = 1, Work(w)'
    PROVE  ImportSound(w)'
BY DEF ImportSound, Work, AtWork

LEMMA InsertUserImports ==
    ASSUME Sound, NewIds, LinksHaveUsers, NEW w \in Sessions, InsertUser(w)
    PROVE  ImportSound(w)'
<1>1. pc[w] = "insert" /\ op[w] = "importuser" /\ uid[w] \notin UserIds
      BY Arguments DEF InsertUser, Sound
<1>2. PICK n \in UserIds : n = nextuser
      BY NamesAssumption DEF InsertUser, UserIds, Sound, TypeOK
<1>3. user[n] = NoUser
  <2>1. user[n] # NoUser => n < n BY <1>2 DEF NewIds
  <2> QED BY <1>2, <2>1, IdsType
<1>4. /\ pc'[w] = "put" /\ uid'[w] = n
      /\ UNCHANGED <<user, role, links, want, list, at, type, draftLink>>
      BY <1>2 DEF InsertUser, GoTo, loop, args, tables, Sound, TypeOK
<1>5. draftUser'[w][n] = [name |-> want[w].name, type |-> want[w].type]
  <2>1. draftUser \in [Sessions -> [UserIds -> Drafts]] BY DEF Sound, TypeOK, Drafts
  <2> QED BY <1>2, <2>1 DEF InsertUser
<1>6. at[w] = 1 /\ list[w] = <<ByName, want[w].ws>> /\ type[w] = NoType
      BY <1>1 DEF Sound, ImportsSound, ImportSound
<1>7. draftUser'[w][n] # Kept
  <2>1. want[w] \in Import BY <1>1, Arguments DEF Sound
  <2>2. draftUser'[w][n] \in UserRow BY <1>5, <2>1, ImportType
  <2> QED BY <2>2, MarkersAssumption
<1>8. LinksAsAsked(w)'
  <2>1. Reached(w)' = {}
    <3>1. Reached(w)' = {list'[w][i] : i \in 1 .. 0} BY <1>4, <1>6 DEF Reached
    <3> QED BY <3>1
  <2>2. Remaining(w)' = {} BY <1>3, <1>4 DEF Remaining
  <2>3. Linked(w)' = {}
    <3>1. \A l \in Links : draftLink[w][l] = "kept"
          BY <1>1 DEF Sound, CallsInOrder, InOrder, Links
    <3>2. ASSUME NEW t \in Targets, LinkSeen(w, <<uid[w], t>>)' PROVE FALSE
      <4>1. <<n, t>> \in Links BY DEF Links
      <4>2. <<n, t>> \in links BY <1>4, <3>1, <3>2, <4>1 DEF LinkSeen
      <4> QED BY <1>3, <4>2, NothingLinked
    <3> QED BY <3>2 DEF Linked
  <2> QED BY <2>1, <2>2, <2>3 DEF LinksAsAsked
<1> QED BY <1>3, <1>4, <1>5, <1>6, <1>7, <1>8 DEF ImportSound, Written

LEMMA ReadTypeImports ==
    ASSUME Sound, NEW w \in Sessions, ReadType(w)
    PROVE  ImportSound(w)'
<1>1. pc[w] = "type" /\ op[w] = "importuser" /\ uid[w] \in UserIds
      BY Arguments DEF ReadType, Sound
<1>2. at[w] = 1 /\ ~Written(w, uid[w]) /\ \A l \in Links : draftLink[w][l] = "kept"
      BY <1>1 DEF Sound, ImportsSound, ImportSound
<1> DEFINE t == IF Exists(w, uid[w]) THEN user[uid[w]].type ELSE NoType
           lst == IF t = Local THEN <<want[w].ws, ByName>> ELSE <<ByName>>
<1>3. /\ pc'[w] = "update" /\ type'[w] = t /\ list'[w] = lst
      /\ UNCHANGED <<user, stale, want, uid, at, draftUser, draftLink>>
  <2>1. type' = [type EXCEPT ![w] = t] /\ list' = [list EXCEPT ![w] = lst] BY DEF ReadType
  <2> HIDE DEF t, lst
  <2>2. type'[w] = t /\ list'[w] = lst BY <2>1 DEF Sound, TypeOK
  <2>3. pc'[w] = "update" BY DEF ReadType, GoTo, Sound, TypeOK
  <2>4. UNCHANGED <<user, stale, want, uid, at, draftUser, draftLink>>
        BY DEF ReadType, tables, history, args, drafts
  <2> QED BY <2>2, <2>3, <2>4
<1>4. user[uid[w]] # NoUser => t = user[uid[w]].type /\ t \in {Local, 1}
  <2>1. user[uid[w]] \in UserRow \union {NoUser} BY <1>1 DEF Sound, TypeOK
  <2> QED BY <1>1, <1>2, <2>1 DEF Exists, UserSeen, UserRow
<1>5. t \in {Local, 1} => t # NoType BY DEF Local, NoType
<1> HIDE DEF t
<1> QED BY <1>2, <1>3, <1>4, <1>5 DEF ImportSound, Written

LEMMA UpdateUserImports ==
    ASSUME Sound, LinksHaveUsers, NEW w \in Sessions, UpdateUser(w)
    PROVE  ImportSound(w)'
<1>1. pc[w] = "update" /\ UpdateUserWrites(w) BY UpdateUserEffects DEF UpdateUser, Sound
<1>2. uid[w] \in UserIds /\ op[w] = "importuser" BY <1>1 DEF UpdateUserWrites
<1>3. ImportSound(w) BY <1>2 DEF Sound, ImportsSound
<1>4. at[w] = 1 /\ \A l \in Links : draftLink[w][l] = "kept" BY <1>1, <1>3 DEF ImportSound
<1>5. /\ pc'[w] = IF type[w] = Local THEN "unrole" ELSE "look"
      /\ UNCHANGED <<user, role, links, stale, want, uid, list, at, type, draftLink>>
      BY DEF UpdateUser, GoTo, tables, history, args, loop, Sound, TypeOK
<1>6. Linked(w)' = LinksIn(links, uid[w])
  <2>1. ASSUME NEW t \in Targets PROVE LinkSeen(w, <<uid[w], t>>)' <=> <<uid[w], t>> \in links
    <3>1. <<uid[w], t>> \in Links BY <1>2 DEF Links
    <3> QED BY <1>4, <1>5, <3>1 DEF LinkSeen
  <2>2. Linked(w)' = {t \in Targets : <<uid[w], t>> \in links} BY <1>5, <2>1 DEF Linked
  <2>3. links \subseteq Links BY DEF Sound, TypeOK
  <2>4. ASSUME NEW t \in LinksIn(links, uid[w]) PROVE t \in Linked(w)'
    <3>1. PICK l \in links : l[1] = uid[w] /\ t = l[2] BY DEF LinksIn
    <3>2. l = <<l[1], l[2]>> /\ l[2] \in Targets BY <2>3 DEF Links
    <3> QED BY <2>2, <3>1, <3>2
  <2>5. ASSUME NEW t \in Linked(w)' PROVE t \in LinksIn(links, uid[w])
    <3>1. <<uid[w], t>> \in links BY <2>2
    <3> QED BY <3>1 DEF LinksIn
  <2> QED BY <2>4, <2>5
<1>7. Work(w)'
  <2>1. CASE user[uid[w]] = NoUser /\ draftUser' = draftUser
    <3>1. ~Written(w, uid[w])' BY <1>1, <1>5, <2>1 DEF UpdateUserWrites, Written
    <3>2. LinksIn(links, uid[w]) = {} BY <1>2, <2>1 DEF LinksIn, LinksHaveUsers
    <3> QED BY <1>5, <1>6, <2>1, <3>1, <3>2 DEF Work
  <2>2. CASE user[uid[w]] # NoUser
    <3>1. /\ [name |-> user[uid[w]].name, type |-> want[w].type] \in UserRow
          /\ draftUser' = [draftUser EXCEPT ![w][uid[w]] =
                              [name |-> user[uid[w]].name, type |-> want[w].type]]
          BY <1>1, <2>2 DEF UpdateUserWrites
    <3>2. draftUser \in [Sessions -> [UserIds -> Drafts]] BY DEF Sound, TypeOK, Drafts
    <3>3. draftUser'[w][uid[w]] = [name |-> user[uid[w]].name, type |-> want[w].type]
          BY <1>2, <3>1, <3>2
    <3>4. Written(w, uid[w])' BY <1>5, <3>1, <3>3, MarkersAssumption DEF Written
    <3>5. Reached(w)' = {}
      <4>1. Reached(w)' = {list'[w][i] : i \in 1 .. 0} BY <1>4, <1>5 DEF Reached
      <4> QED BY <4>1
    <3>6. Remaining(w)' = LinksIn(links, uid[w]) BY <1>5, <2>2 DEF Remaining, LinksIn
    <3>7. LinksAsAsked(w)' BY <1>6, <3>5, <3>6 DEF LinksAsAsked
    <3> QED BY <1>5, <2>2, <3>3, <3>4, <3>7 DEF Work
  <2> QED BY <1>1, <2>1, <2>2, MarkersAssumption DEF UpdateUserWrites
<1> QED BY <1>1, <1>3, <1>4, <1>5, <1>7, ImportKept DEF AtWork

\* Unlinking takes away the targets that the session sees linked.
LEMMA LinkedAfterUnlink ==
    ASSUME Sound, NEW w \in Sessions, NEW targets, NEW s, Unlink(w, targets, s), uid[w] \in UserIds
    PROVE  Linked(w)' = Linked(w) \ targets
<1>1. uid' = uid /\ links' = links BY DEF Unlink, tables
<1>2. ASSUME NEW t \in Targets
      PROVE  LinkSeen(w, <<uid[w], t>>)' <=> LinkSeen(w, <<uid[w], t>>) /\ t \notin targets
  <2>1. <<uid[w], t>> \in Links BY DEF Links
  <2>2. draftLink'[w][<<uid[w], t>>] = IF t \in targets /\ LinkSeen(w, <<uid[w], t>>) THEN "out"
                                       ELSE draftLink[w][<<uid[w], t>>]
        BY <2>1, UnlinkEffects DEF Sound
  <2> QED BY <1>1, <2>2 DEF LinkSeen
<1> QED BY <1>1, <1>2 DEF Linked

\* An unlinking step of an import leaves what Remaining says.
LEMMA UnlinkImports ==
    ASSUME Sound, NEW w \in Sessions, op[w] = "importuser", uid[w] \in UserIds,
           NEW targets, NEW s, Unlink(w, targets, s),
           \/ pc[w] = "unrole" /\ targets = RoleIds /\ s = "unws"
           \/ pc[w] = "unws" /\ targets = Workspaces /\ s = "look"
    PROVE  ImportSound(w)'
<1>1. ImportSound(w) BY DEF Sound, ImportsSound
<1>2. Work(w) BY <1>1, Works DEF AtWork
<1>3. at[w] = 1 BY <1>1 DEF ImportSound
<1>4. pc'[w] = s /\ UNCHANGED <<user, links, role, stale, want, uid, list, at, type, draftUser>>
      BY DEF Unlink, GoTo, tables, history, args, loop, Sound, TypeOK
<1>5. Linked(w)' = Linked(w) \ targets BY LinkedAfterUnlink
<1>6. Work(w)'
  <2>1. CASE Written(w, uid[w])
    <3>1. Reached(w) = {} /\ Reached(w)' = {}
      <4>1. Reached(w) = {list[w][i] : i \in 1 .. 0} BY <1>3 DEF Reached
      <4>2. Reached(w)' = {list'[w][i] : i \in 1 .. 0} BY <1>3, <1>4 DEF Reached
      <4> QED BY <4>1, <4>2
    <3>2. type[w] = Local /\ user[uid[w]] # NoUser /\ LinksAsAsked(w) BY <1>2, <2>1 DEF Work
    <3>3. Linked(w) = Remaining(w) BY <3>1, <3>2 DEF LinksAsAsked
    <3>4. Linked(w)' = Remaining(w)'
      <4> DEFINE mine == LinksIn(links, uid[w])
      <4>1. Remaining(w) = IF pc[w] = "unrole" THEN mine ELSE mine \ RoleIds
            BY <3>2 DEF Remaining
      <4>2. mine' = mine BY <1>4 DEF LinksIn
      <4>3. Remaining(w)' = IF s = "unws" THEN mine \ RoleIds ELSE {}
        <5>1. s # "unrole" OBVIOUS
        <5>2. user'[uid'[w]] # NoUser /\ type'[w] = Local BY <1>4, <3>2
        <5>3. Remaining(w)' = IF pc'[w] = "unws" THEN mine' \ RoleIds ELSE {}
              BY <1>4, <5>1, <5>2 DEF Remaining
        <5> QED BY <1>4, <4>2, <5>3
      <4>4. Linked(w) \subseteq RoleIds \union Workspaces BY DEF Linked, Targets
      <4> HIDE DEF mine
      <4> QED BY <1>5, <3>3, <4>1, <4>3, <4>4
    <3>5. LinksAsAsked(w)' BY <3>1, <3>4 DEF LinksAsAsked
    <3> QED BY <1>2, <1>4, <2>1, <3>2, <3>5 DEF Work, Written
  <2>2. CASE ~Written(w, uid[w]) BY <1>2, <1>4, <1>5, <2>2 DEF Work, Written
  <2> QED BY <2>1, <2>2
<1> QED BY <1>1, <1>3, <1>4, <1>6, ImportKept DEF AtWork

\* What remains is the same while the import goes through its list.
LEMMA RemainingKept ==
    ASSUME NEW w \in Sessions, UNCHANGED <<user, links>>, uid'[w] = uid[w], type'[w] = type[w],
           pc[w] \notin {"unrole", "unws"}, pc'[w] \notin {"unrole", "unws"}
    PROVE  Remaining(w)' = Remaining(w)
BY DEF Remaining, LinksIn

LEMMA InsertLinkImports ==
    ASSUME Sound, NEW w \in Sessions, InsertLink(w), op[w] = "importuser"
    PROVE  ImportSound(w)'
<1>1. pc[w] = "put" /\ uid[w] \in UserIds BY Arguments DEF InsertLink, Sound
<1>2. ImportSound(w) /\ Work(w) BY <1>1, Works DEF Sound, ImportsSound, AtWork
<1>3. /\ pc'[w] = "fk"
      /\ UNCHANGED <<user, links, role, stale, want, uid, list, at, type, draftUser>>
      BY DEF InsertLink, GoTo, tables, history, args, loop, Sound, TypeOK
<1>4. PICK t \in Targets :
         /\ Meant(w) = {t}
         /\ \A l \in Links : draftLink'[w][l] = IF l = <<uid[w], t>> THEN "in" ELSE draftLink[w][l]
      BY InsertLinkEffects DEF Sound
<1>5. Work(w)'
  <2>1. CASE Written(w, uid[w])
    <3>1. LinksAsAsked(w) BY <1>2, <2>1 DEF Work
    <3>2. Linked(w)' = Linked(w) \union {t}
      <4>1. ASSUME NEW x \in Targets
            PROVE  LinkSeen(w, <<uid[w], x>>)' <=> LinkSeen(w, <<uid[w], x>>) \/ x = t
        <5>1. <<uid[w], x>> \in Links BY <1>1 DEF Links
        <5>2. draftLink'[w][<<uid[w], x>>] = IF x = t THEN "in" ELSE draftLink[w][<<uid[w], x>>]
              BY <1>4, <5>1
        <5> QED BY <1>3, <5>2 DEF LinkSeen
      <4> QED BY <1>3, <4>1 DEF Linked
    <3>3. Remaining(w)' = Remaining(w) BY <1>1, <1>3, RemainingKept
    <3>4. Reached(w)' = Reached(w) \union {list[w][at[w]]}
      <4>1. at[w] \in Nat \ {0} BY <1>1, Meaning
      <4> QED BY <1>1, <1>3, <4>1, ReachedGrows
    <3>5. IF list[w][at[w]] = ByName THEN t \in RolesNamed(want[w].role) /\ ByName \notin Reached(w)
          ELSE t = list[w][at[w]]
          BY <1>1, <1>4, Meaning
    <3>6. LinksAsAsked(w)' BY <1>3, <3>1, <3>2, <3>3, <3>4, <3>5, LinksGrow
    <3> QED BY <1>1, <1>2, <1>3, <2>1, <3>6 DEF Work, Written
  <2>2. CASE ~Written(w, uid[w]) BY <1>2, <1>3, <2>2 DEF Work, Written
  <2> QED BY <2>1, <2>2
<1> QED BY <1>1, <1>2, <1>3, <1>5, ImportKept DEF AtWork

LEMMA LookForLinkImports ==
    ASSUME Sound, NEW w \in Sessions, LookForLink(w), op[w] = "importuser"
    PROVE  ImportSound(w)'
<1>1. pc[w] = "look" /\ uid[w] \in UserIds BY Arguments DEF LookForLink, Sound
<1>2. ImportSound(w) /\ Work(w) BY <1>1, Works DEF Sound, ImportsSound, AtWork
<1>3. UNCHANGED <<user, links, role, stale, want, uid, list, type, draftUser, draftLink>>
      BY DEF LookForLink, tables, history, args, drafts
<1>4. Linked(w)' = Linked(w) BY <1>3 DEF Linked, LinkSeen
<1>5. CASE \E t \in Meant(w) : LinkSeen(w, <<uid[w], t>>)
  <2>1. PICK t \in Meant(w) : LinkSeen(w, <<uid[w], t>>) BY <1>5
  <2>2. t \in Targets /\ t \in Linked(w) BY <1>1, <2>1, Meaning DEF Linked
  <2>3. /\ at'[w] = at[w] + 1 /\ pc'[w] \in {"commit", "put", "look"}
        /\ pc'[w] = "commit" => at[w] = Len(list[w])
        BY <1>1, <1>5, AdvanceEffects DEF LookForLink
  <2>4. Written(w, uid[w]) BY <1>1, <1>2, <2>2 DEF Work
  <2>5. LinksAsAsked(w) /\ user[uid[w]] # NoUser BY <1>1, <1>2, <2>4 DEF Work
  <2>6. Remaining(w)' = Remaining(w) BY <1>1, <1>3, <2>3, RemainingKept
  <2>7. Reached(w)' = Reached(w) \union {list[w][at[w]]}
    <3>1. at[w] \in Nat \ {0} BY <1>1, Meaning
    <3> QED BY <1>1, <1>3, <2>3, <3>1, ReachedGrows
  <2>8. IF list[w][at[w]] = ByName THEN t \in RolesNamed(want[w].role) /\ ByName \notin Reached(w)
        ELSE t = list[w][at[w]]
        BY <1>1, <2>1, Meaning
  <2>9. Linked(w)' = Linked(w) \union {t} BY <1>4, <2>2
  <2>10. LinksAsAsked(w)' BY <1>3, <2>5, <2>6, <2>7, <2>8, <2>9, LinksGrow
  <2>11. Work(w)' BY <1>2, <1>3, <2>3, <2>4, <2>5, <2>10 DEF Work, Written
  <2> QED BY <1>1, <1>2, <1>3, <2>3, <2>11, ImportKept DEF AtWork
<1>6. CASE ~\E t \in Meant(w) : LinkSeen(w, <<uid[w], t>>)
  <2>1. pc'[w] = "put" /\ at' = at BY <1>6 DEF LookForLink, GoTo, Sound, TypeOK
  <2>2. Work(w)'
    <3>1. CASE Written(w, uid[w])
      <4>1. LinksAsAsked(w) /\ user[uid[w]] # NoUser BY <1>1, <1>2, <3>1 DEF Work
      <4>2. Remaining(w)' = Remaining(w) BY <1>1, <1>3, <2>1, RemainingKept
      <4>3. Reached(w)' = Reached(w) BY <1>1, <1>3, <2>1 DEF Reached
      <4>4. RolesNamed(want[w].role)' = RolesNamed(want[w].role) BY <1>3 DEF RolesNamed
      <4>5. LinksAsAsked(w)' BY <1>4, <4>1, <4>2, <4>3, <4>4 DEF LinksAsAsked
      <4> QED BY <1>2, <1>3, <2>1, <3>1, <4>1, <4>5 DEF Work, Written
    <3>2. CASE ~Written(w, uid[w]) BY <1>1, <1>2, <1>3, <1>4, <2>1, <3>2 DEF Work, Written
    <3> QED BY <3>1, <3>2
  <2> QED BY <1>1, <1>2, <1>3, <2>1, <2>2, ImportKept DEF AtWork
<1> QED BY <1>5, <1>6

LEMMA ForeignKeysImports ==
    ASSUME Sound, NEW w \in Sessions, ForeignKeys(w), op[w] = "importuser"
    PROVE  ImportSound(w)'
<1>1. pc[w] = "fk" /\ uid[w] \in UserIds /\ Referenced(w) BY ForeignKeysEffects DEF Sound
<1>2. ImportSound(w) /\ Work(w) BY <1>1, Works DEF Sound, ImportsSound, AtWork
<1>3. UNCHANGED <<user, links, role, stale, want, uid, list, type, draftUser, draftLink>>
      BY DEF ForeignKeys, tables, history, args, drafts
<1>4. /\ at'[w] = at[w] + 1 /\ pc'[w] \in {"commit", "put", "look"}
      /\ pc'[w] = "commit" => at[w] = Len(list[w])
      /\ type[w] = NoType => pc'[w] # "look"
      BY <1>1, AdvanceEffects DEF ForeignKeys
<1>5. Written(w, uid[w]) BY <1>1, <1>2 DEF Referenced, Exists, UserSeen, Work
<1>6. LinksAsAsked(w)'
  <2>1. LinksAsAsked(w) BY <1>2, <1>5 DEF Work
  <2>2. Linked(w)' = Linked(w) BY <1>3 DEF Linked, LinkSeen
  <2>3. Remaining(w)' = Remaining(w) BY <1>1, <1>3, <1>4, RemainingKept
  <2>4. Reached(w)' = Reached(w)
    <3>1. at[w] \in Nat BY DEF Sound, TypeOK
    <3>2. at'[w] - 1 = at[w] BY <1>4, <3>1
    <3> QED BY <1>1, <1>3, <1>4, <3>2 DEF Reached
  <2>5. RolesNamed(want[w].role)' = RolesNamed(want[w].role) BY <1>3 DEF RolesNamed
  <2> QED BY <2>1, <2>2, <2>3, <2>4, <2>5 DEF LinksAsAsked
<1>7. Work(w)' BY <1>2, <1>3, <1>4, <1>5, <1>6 DEF Work, Written
<1> QED BY <1>1, <1>2, <1>3, <1>4, <1>7, ImportKept DEF AtWork

LEMMA NextImports ==
    ASSUME Sound, UsersLocked, NewIds, AddedRefer, TakenLocked, LinksHaveUsers, LinksHaveUsers',
           [Next]_vars
    PROVE  ImportsSound'
<1>1. CASE UNCHANGED vars
  <2>1. UNCHANGED <<user, role, links, stale, op, pc, uid, want, list, at, type, draftUser, draftLink>>
        BY <1>1 DEF vars, tables, history, args, loop, drafts
  <2>2. \A v \in Sessions : /\ Linked(v)' = Linked(v) /\ Reached(v)' = Reached(v)
                             /\ Remaining(v)' = Remaining(v)
        BY <2>1 DEF Linked, LinkSeen, Reached, Remaining, LinksIn
  <2>3. \A v \in Sessions : LinksAsAsked(v)' <=> LinksAsAsked(v)
        BY <2>1, <2>2 DEF LinksAsAsked, RolesNamed
  <2> QED BY <2>1, <2>2, <2>3 DEF Sound, ImportsSound, ImportSound, Written
<1>2. ASSUME NEW w \in Sessions, Step(w) PROVE ImportsSound'
  <2>0. TypeOK' BY NextType DEF Sound
  <2>1. ASSUME NEW v \in Sessions \ {w}, op'[v] = "importuser" PROVE ImportSound(v)'
        BY <1>2, <2>0, <2>1, OtherImports
  <2>2. ASSUME op'[w] = "importuser" PROVE ImportSound(w)'
    <3>1. CASE NewCall(w)
      <4>1. PICK f \in Ops, u \in UserIds \union {0}, import \in Args,
                 l \in Seq(Targets \union {ByName}), s \in Statements :
                   Call(w, f, u, import, l, s) /\ Starts(f, u, import, l, s)
            BY <3>1, NewCalls DEF Sound
      <4>2. /\ op'[w] = f /\ uid'[w] = u /\ want'[w] = import /\ list'[w] = l /\ pc'[w] = s
            /\ at' = at /\ type' = type /\ draftLink' = draftLink /\ draftUser' = draftUser
            BY <4>1 DEF Call, GoTo, drafts, Sound, TypeOK
      <4>3. /\ at[w] = 1 /\ type[w] = NoType
            /\ \A x \in UserIds : ~Written(w, x)
            /\ \A k \in Links : draftLink[w][k] = "kept"
            BY <4>1, NothingWritten DEF Call
      <4>4. \/ s = "insert" /\ l = <<ByName, import.ws>>
            \/ s = "type" /\ u \in UserIds
            BY <2>2, <4>1, <4>2 DEF Starts
      <4> QED BY <4>2, <4>3, <4>4 DEF ImportSound, Written
    <3>2. CASE LocalStep(w)
      <4>1. op[w] = "importuser" BY <2>2, <3>2, LocalFrame DEF args
      <4>2. CASE UnlinkRoles(w)
        <5>1. pc[w] = "unrole" /\ uid[w] \in UserIds /\ Unlink(w, RoleIds, "unws")
              BY <4>2, Arguments DEF UnlinkRoles, Sound
        <5> QED BY <4>1, <5>1, UnlinkImports
      <4>3. CASE UnlinkWorkspaces(w)
        <5>1. pc[w] = "unws" /\ uid[w] \in UserIds /\ Unlink(w, Workspaces, "look")
              BY <4>1, <4>3, Arguments DEF UnlinkWorkspaces, Sound
        <5> QED BY <4>1, <5>1, UnlinkImports
      <4>4. ~LockUser(w) BY <4>1, Arguments DEF LockUser, Sound
      <4> QED BY <3>2, <4>1, <4>2, <4>3, <4>4, InsertUserImports, ReadTypeImports, UpdateUserImports,
                 InsertLinkImports, LookForLinkImports, ForeignKeysImports DEF LocalStep
    <3>3. CASE InsertRole(w) \/ Commit(w) \/ RollBack(w)
          BY <2>2, <3>3, ReleaseClears DEF InsertRole, Commit, RollBack, Sound
    <3> QED BY <1>2, <3>1, <3>2, <3>3 DEF Step
  <2> QED BY <2>1, <2>2 DEF ImportsSound
<1> QED BY <1>1, <1>2, StepsOfSessions

-----------------------------------------------------------------------------
(* The invariant, and what follows from it *)

LEMMA InitInvariant == Init => IInv
<1> SUFFICES ASSUME Init PROVE IInv
    OBVIOUS
<1>1. TypeOK BY InitType
<1>2. 0 \notin UserIds /\ 1 \in UserIds /\ 1 \in RoleIds
      BY NamesAssumption DEF UserIds, RoleIds
<1>3. Admin \in Names /\ Admin # NoName BY NamesAssumption, MarkersAssumption
<1>4. [name |-> Admin, type |-> Local] # NoUser
  <2>1. [name |-> Admin, type |-> Local] \in UserRow BY <1>3 DEF UserRow
  <2> QED BY <2>1, MarkersAssumption
<1>5. \A w \in Sessions, u \in UserIds : ~Written(w, u) BY DEF Init, Written
<1>6. UsersLocked BY <1>5 DEF UsersLocked
<1>7. NewIds
  <2>1. \A u \in UserIds : user[u] # NoUser => u < nextuser
        BY DEF Init
  <2>2. \A w \in Sessions : uid[w] < nextuser BY DEF Init
  <2>3. \A r \in RoleIds : role[r] # NoName => r < nextrole BY DEF Init
  <2>4. \A v \in Sessions, u \in UserIds : ~Creates(v, u) BY <1>5 DEF Creates
  <2> QED BY <2>1, <2>2, <2>3, <2>4 DEF NewIds
<1>8. CallsInOrder BY <1>2 DEF Init, CallsInOrder, InOrder, Steps
<1>9. ReferencedStay BY DEF Init, ReferencedStay
<1>10. AddedRefer /\ TakenLocked BY DEF Init, AddedRefer, TakenLocked
<1>11. DeletionsUnlink /\ ImportsSound BY DEF Init, DeletionsUnlink, ImportsSound
<1>12. LinksHaveUsers
  <2>1. links = {<<1, 1>>} /\ user[1] = [name |-> Admin, type |-> Local] /\ role[1] = Admin
        BY <1>2 DEF Init
  <2> QED BY <1>3, <1>4, <2>1 DEF LinksHaveUsers
<1> QED BY <1>1, <1>6, <1>7, <1>8, <1>9, <1>10, <1>11, <1>12 DEF IInv

LEMMA NextInvariant == IInv /\ [Next]_vars => IInv'
<1> SUFFICES ASSUME IInv, [Next]_vars PROVE IInv'
    OBVIOUS
<1>1. /\ Sound /\ UsersLocked /\ NewIds /\ ReferencedStay /\ AddedRefer /\ TakenLocked
      /\ DeletionsUnlink /\ LinksHaveUsers
      BY DEF IInv, Sound
<1>2. TypeOK' BY <1>1, NextType DEF Sound
<1>3. UsersLocked' BY <1>1, NextLocked
<1>4. NewIds' BY <1>1, NextNewIds
<1>5. CallsInOrder' BY <1>1, NextInOrder
<1>6. ReferencedStay' BY <1>1, NextReferenced
<1>7. AddedRefer' BY <1>1, NextAdded
<1>8. TakenLocked' BY <1>1, NextTaken
<1>9. DeletionsUnlink' BY <1>1, NextDeletions
<1>10. LinksHaveUsers' BY <1>1, NextLinksHaveUsers
<1>11. ImportsSound' BY <1>1, <1>10, NextImports
<1> QED BY <1>2, <1>3, <1>4, <1>5, <1>6, <1>7, <1>8, <1>9, <1>10, <1>11 DEF IInv

\* IInv is an inductive invariant of the calls of nbclic.sql: who writes a user has
\* it to itself, who adds a link has referred to its user, deletions unlink before
\* they commit, and imports have linked what their list says.
THEOREM Invariance == Spec => []IInv
<1>1. Init => IInv BY InitInvariant
<1>2. IInv /\ [Next]_vars => IInv' BY NextInvariant
<1> QED BY <1>1, <1>2, PTL DEF Spec

\* No link of user2role or user2workspace is of a user that has been deleted, or to
\* a role that is not there, whatever is deleted while importuser links.
THEOREM LinksSound == Spec => []LinksHaveUsers
<1>1. IInv => LinksHaveUsers BY DEF IInv
<1> QED BY <1>1, Invariance, PTL

\* The links of a user, as the call sees them, are the links it commits.
LEMMA CommittedLinks ==
    ASSUME TypeOK, NEW w \in Sessions, Commit(w), uid[w] \in UserIds
    PROVE  LinksIn(links', uid[w]) = Linked(w)
<1>1. links' = {l \in Links : LinkSeen(w, l)} BY DEF Commit
<1>2. ASSUME NEW t \in LinksIn(links', uid[w]) PROVE t \in Linked(w)
  <2>1. PICK l \in links' : l[1] = uid[w] /\ t = l[2] BY DEF LinksIn
  <2>2. l \in Links /\ LinkSeen(w, l) BY <1>1
  <2>3. l = <<uid[w], t>> /\ t \in Targets BY <2>1, <2>2 DEF Links
  <2> QED BY <2>2, <2>3 DEF Linked
<1>3. ASSUME NEW t \in Linked(w) PROVE t \in LinksIn(links', uid[w])
  <2>1. t \in Targets /\ LinkSeen(w, <<uid[w], t>>) BY DEF Linked
  <2>2. <<uid[w], t>> \in Links BY <2>1 DEF Links
  <2>3. <<uid[w], t>> \in links' BY <1>1, <2>1, <2>2
  <2> QED BY <2>3 DEF LinksIn
<1> QED BY <1>2, <1>3

LEMMA CommitImports ==
    ASSUME IInv, NEW w \in Sessions \ stale, Commit(w), op[w] = "importuser"
    PROVE  Imported(w)
<1> DEFINE ws == want[w].ws
           names == RolesNamed(want[w].role)
           isnew == user[uid[w]] = NoUser
<1>0. Sound /\ TypeOK /\ pc[w] = "commit" BY DEF IInv, Sound, Commit
<1>1. uid[w] \in UserIds /\ ImportSound(w) /\ Work(w)
  <2>1. ImportSound(w) BY <1>0 DEF Sound, ImportsSound
  <2>2. uid[w] \in UserIds BY <1>0 DEF Sound, CallsInOrder, InOrder
  <2> QED BY <1>0, <2>1, <2>2, Works DEF AtWork
<1>2. Written(w, uid[w]) BY <1>0, <1>1 DEF Work
<1>3. /\ LinksAsAsked(w) /\ at[w] = Len(list[w]) + 1
      /\ draftUser[w][uid[w]] = [name |-> IF isnew THEN want[w].name ELSE user[uid[w]].name,
                                 type |-> want[w].type]
      /\ isnew => list[w] = <<ByName, ws>>
      BY <1>0, <1>1, <1>2 DEF Work
<1>4. ~isnew => /\ type[w] = user[uid[w]].type
                /\ list[w] = IF type[w] = Local THEN <<ws, ByName>> ELSE <<ByName>>
      BY <1>0, <1>1 DEF ImportSound
<1>5. user' = [user EXCEPT ![uid[w]] =
                  [name |-> IF @ = NoUser THEN want[w].name ELSE @.name, type |-> want[w].type]]
  <2>1. user' = [x \in UserIds |-> UserSeen(w, x)] BY DEF Commit
  <2>2. user \in [UserIds -> UserRow \union {NoUser}] BY <1>0 DEF TypeOK
  <2>3. \A x \in UserIds : x # uid[w] => UserSeen(w, x) = user[x] BY DEF IInv, UsersLocked, UserSeen
  <2>4. UserSeen(w, uid[w]) = draftUser[w][uid[w]] BY <1>2 DEF UserSeen
  <2> QED BY <1>3, <2>1, <2>2, <2>3, <2>4
<1>6. \A l \in Links : l[1] # uid[w] => (l \in links' <=> l \in links)
  <2>1. \A l \in Links : l[1] # uid[w] => draftLink[w][l] = "kept"
        BY <1>0 DEF Sound, CallsInOrder, InOrder
  <2> QED BY <1>0, <2>1, CommitEffects DEF LinkSeen
<1>7. ws # ByName
  <2>1. want[w] \in Import BY <1>0, Arguments DEF Sound
  <2> QED BY <2>1, ImportType, IdsType
<1>8. Reached(w) = IF isnew \/ user[uid[w]].type = Local THEN {ByName, ws} ELSE {ByName}
  <2>1. Len(list[w]) \in Nat BY <1>0 DEF TypeOK
  <2>2. Reached(w) = {list[w][i] : i \in 1 .. Len(list[w])} BY <1>0, <1>3, <2>1 DEF Reached
  <2> HIDE DEF ws
  <2>3. CASE list[w] = <<ByName, ws>>
    <3>1. Reached(w) = {list[w][i] : i \in 1 .. 2} BY <2>2, <2>3
    <3>2. Reached(w) = {ByName, ws} BY <2>3, <3>1
    <3> QED BY <1>3, <1>4, <1>7, <2>3, <3>2
  <2>4. CASE list[w] = <<ws, ByName>>
    <3>1. Reached(w) = {list[w][i] : i \in 1 .. 2} BY <2>2, <2>4
    <3>2. Reached(w) = {ByName, ws} BY <2>4, <3>1
    <3> QED BY <1>3, <1>4, <1>7, <2>4, <3>2
  <2>5. CASE list[w] = <<ByName>>
    <3>1. Reached(w) = {list[w][i] : i \in 1 .. 1} BY <2>2, <2>5
    <3>2. Reached(w) = {ByName} BY <2>5, <3>1
    <3> QED BY <1>3, <1>4, <1>7, <2>5, <3>2
  <2> QED BY <1>3, <1>4, <2>3, <2>4, <2>5
<1>9. Remaining(w) = IF isnew \/ user[uid[w]].type = Local THEN {} ELSE LinksIn(links, uid[w])
      BY <1>0, <1>4 DEF Remaining
<1>10. PICK r \in names : Linked(w) = Remaining(w) \union (Reached(w) \ {ByName}) \union {r}
      BY <1>3, <1>8 DEF LinksAsAsked
<1>11. LinksIn(links', uid[w]) = IF isnew \/ user[uid[w]].type = Local
                                 THEN {ws, r} ELSE LinksIn(links, uid[w]) \union {r}
  <2>1. LinksIn(links', uid[w]) = Linked(w) BY <1>0, <1>1, CommittedLinks
  <2> HIDE DEF ws, isnew
  <2> QED BY <1>7, <1>8, <1>9, <1>10, <2>1
<1> QED BY <1>5, <1>6, <1>11 DEF Imported

\* What the statements of importuser do between them is, at the commit, the import
\* of a user, whatever other calls do meanwhile: the one exception is an import of
\* a user that another import has changed since this one read its type.
THEOREM ImportsAreAtomic == Spec => ImportsAtomically
<1>1. IInv /\ [Next]_vars =>
         [\A w \in Sessions \ stale : Commit(w) /\ op[w] = "importuser" => Imported(w)]_vars
      BY CommitImports
<1> QED BY <1>1, Invariance, PTL DEF Spec, ImportsAtomically

-----------------------------------------------------------------------------
(* Doubles *)

\* Of the users and roles with the name that a call is about to insert, and has not
\* found, it has been remembered that they came after its lookup.
Inserts(w) == pc[w] = "insert" \/ (op[w] = "importuser" /\ uid[w] \in UserIds /\ Creates(w, uid[w]))

LookedUp(w) ==
    /\ Inserts(w) => \A u \in UserIds :
          user[u] # NoUser /\ Lower[user[u].name] = Lower[want[w].name] => <<"user", u>> \in since[w]
    /\ pc[w] = "newrole" => \A r \in RoleIds : role[r] = want[w] => <<"role", r>> \in since[w]

LookupsRemembered == \A w \in Sessions : LookedUp(w)

\* A user that is there keeps its name.
LEMMA NamesStay ==
    ASSUME IInv, NEW w \in Sessions, Step(w), NEW u \in UserIds,
           user[u] # NoUser, user'[u] # NoUser
    PROVE  user'[u].name = user[u].name
<1>0. Sound /\ UsersLocked /\ DeletionsUnlink BY DEF IInv, Sound
<1>1. CASE user'[u] # user[u]
  <2>1. /\ Commit(w) /\ Written(w, u) /\ user'[u] = draftUser[w][u] /\ u = uid[w]
        BY <1>0, <1>1, UsersCome
  <2>2. pc[w] = "commit" BY <2>1 DEF Commit
  <2>3. op[w] \in {"importuser", "delete"} BY <1>0, <2>1 DEF UsersLocked
  <2>4. op[w] = "importuser" BY <1>0, <2>1, <2>3 DEF DeletionsUnlink
  <2>5. Work(w) BY <1>0, <2>2, <2>4, Works DEF Sound, ImportsSound, AtWork
  <2> QED BY <2>1, <2>5 DEF Work
<1> QED BY <1>1

\* What others commit is remembered for the calls that run.
LEMMA CommitsRemembered ==
    ASSUME IInv, NEW w \in Sessions, Step(w), NEW v \in Sessions \ {w}, pc[v] # "idle"
    PROVE  /\ since[v] \subseteq since'[v]
           /\ \A u \in UserIds : user[u] = NoUser /\ user'[u] # NoUser => <<"user", u>> \in since'[v]
           /\ \A r \in RoleIds : role'[r] # role[r] => <<"role", r>> \in since'[v]
<1>0. Sound /\ TypeOK /\ UsersLocked /\ NewIds BY DEF IInv, Sound
<1>1. CASE Commit(w)
  <2> DEFINE changed == {u \in UserIds : draftUser[w][u] \notin {Kept, NoUser}}
             new == {"user"} \X {u \in changed : user[u] = NoUser}
  <2>1. Remember(w, new, changed, links \ links') /\ role' = role BY <1>1 DEF Commit
  <2>2. since'[v] = since[v] \union new
    <3> HIDE DEF new, changed
    <3> QED BY <2>1 DEF Remember
  <2>3. ASSUME NEW u \in UserIds, user[u] = NoUser, user'[u] # NoUser
        PROVE  <<"user", u>> \in new
    <3>1. Written(w, u) /\ user'[u] = draftUser[w][u] BY <1>0, <2>3, UsersCome
    <3> QED BY <2>3, <3>1 DEF Written
  <2> QED BY <2>1, <2>2, <2>3
<1>2. CASE InsertRole(w)
  <2>1. /\ Remember(w, {<<"role", nextrole>>}, {}, {}) /\ user' = user
        /\ role' = [role EXCEPT ![nextrole] = want[w]]
        BY <1>2 DEF InsertRole
  <2>2. since'[v] = since[v] \union {<<"role", nextrole>>} BY <2>1 DEF Remember
  <2>3. \A r \in RoleIds : role'[r] # role[r] => r = nextrole BY <1>0, <2>1 DEF TypeOK
  <2> QED BY <2>1, <2>2, <2>3
<1>3. CASE ~Commit(w) /\ ~InsertRole(w)
  <2>1. user' = user /\ role' = role BY <1>0, <1>3, Database
  <2>2. since'[v] = since[v]
    <3>1. CASE NewCall(w) BY <1>0, <3>1, NewCalls DEF Call, history
    <3>2. CASE LocalStep(w) BY <3>2, LocalFrame DEF history
    <3>3. CASE RollBack(w) BY <1>0, <3>3 DEF RollBack, TypeOK
    <3> QED BY <1>3, <3>1, <3>2, <3>3 DEF Step
  <2> QED BY <2>1, <2>2
<1> QED BY <1>1, <1>2, <1>3

LEMMA OtherLookups ==
    ASSUME IInv, NEW w \in Sessions, Step(w), NEW v \in Sessions \ {w}, LookedUp(v)
    PROVE  LookedUp(v)'
<1>0. Sound /\ TypeOK /\ UsersLocked /\ NewIds /\ AddedRefer /\ TakenLocked BY DEF IInv, Sound
<1>1. Same(v) BY <1>0, StepOthers
<1>2. ASSUME Inserts(v)', NEW u \in UserIds,
             user'[u] # NoUser, Lower[user'[u].name] = Lower[want'[v].name]
      PROVE  <<"user", u>> \in since'[v]
  <2>1. Inserts(v)
    <3>1. CASE pc[v] = "insert" BY <3>1 DEF Inserts
    <3>2. CASE pc[v] # "insert"
      <4>1. op[v] = "importuser" /\ uid[v] \in UserIds /\ Creates(v, uid[v])'
            BY <1>1, <1>2, <3>2 DEF Inserts, Same
      <4>2. Written(v, uid[v]) /\ draftUser[v][uid[v]] # NoUser /\ user'[uid[v]] = NoUser
            BY <1>1, <4>1 DEF Creates, Same, Written
      <4>3. user[uid[v]] = NoUser BY <1>0, <4>1, <4>2, WrittenFixed
      <4> QED BY <4>1, <4>2, <4>3 DEF Inserts, Creates
    <3> QED BY <3>1, <3>2
  <2>2. pc[v] # "idle" BY <1>0, <2>1, Arguments DEF Inserts, Sound
  <2>3. CASE user[u] = NoUser BY <1>2, <2>2, <2>3, CommitsRemembered
  <2>4. CASE user[u] # NoUser
    <3>1. user'[u].name = user[u].name BY <1>2, <2>4, NamesStay
    <3>2. <<"user", u>> \in since[v] BY <1>1, <1>2, <2>1, <2>4, <3>1 DEF Same, LookedUp
    <3> QED BY <2>2, <3>2, CommitsRemembered
  <2> QED BY <2>3, <2>4
<1>3. ASSUME pc'[v] = "newrole", NEW r \in RoleIds, role'[r] = want'[v]
      PROVE  <<"role", r>> \in since'[v]
  <2>1. pc[v] = "newrole" /\ want'[v] = want[v] BY <1>1, <1>3 DEF Same
  <2>2. CASE role'[r] = role[r]
    <3>1. <<"role", r>> \in since[v] BY <1>3, <2>1, <2>2 DEF LookedUp
    <3> QED BY <2>1, <3>1, CommitsRemembered
  <2>3. CASE role'[r] # role[r] BY <2>1, <2>3, CommitsRemembered
  <2> QED BY <2>2, <2>3
<1> QED BY <1>2, <1>3 DEF LookedUp

LEMMA OwnLookups ==
    ASSUME IInv, NEW w \in Sessions, Step(w), LookedUp(w)
    PROVE  LookedUp(w)'
<1>0. Sound /\ TypeOK /\ UsersLocked BY DEF IInv, Sound
<1>1. CASE NewCall(w)
  <2>1. PICK f \in Ops, u \in UserIds \union {0}, import \in Args,
             l \in Seq(Targets \union {ByName}), s \in Statements :
               Call(w, f, u, import, l, s) /\ Starts(f, u, import, l, s)
        BY <1>0, <1>1, NewCalls
  <2>2. /\ op'[w] = f /\ uid'[w] = u /\ want'[w] = import /\ pc'[w] = s
        /\ user' = user /\ role' = role /\ draftUser' = draftUser
        BY <1>0, <2>1 DEF Call, GoTo, drafts, tables, TypeOK
  <2>3. \A x \in UserIds : ~Written(w, x) BY <1>0, <2>1, NothingWritten DEF Call
  <2>4. Inserts(w)' => s = "insert" BY <2>2, <2>3 DEF Inserts, Creates, Written
  <2>5. s = "insert" => Named(import.name) = {} BY <2>1 DEF Starts
  <2>6. s = "newrole" => import \notin {role[r] : r \in RoleIds} BY <2>1 DEF Starts
  <2> QED BY <2>2, <2>4, <2>5, <2>6 DEF LookedUp, Named
<1>2. CASE LocalStep(w)
  <2>1. UNCHANGED <<user, role, since, want, op>> BY <1>2, LocalFrame DEF tables, history, args
  <2>2. pc'[w] \notin {"insert", "newrole"}
    <3>1. \E s \in Statements \ {"insert", "newrole"} : pc' = [pc EXCEPT ![w] = s]
          BY <1>2 DEF LocalStep, InsertUser, ReadType, UpdateUser, UnlinkRoles, UnlinkWorkspaces,
             Unlink, LookForLink, InsertLink, ForeignKeys, LockUser, Advance, GoTo, Statements
    <3> QED BY <1>0, <3>1 DEF TypeOK
  <2>3. ASSUME Inserts(w)' PROVE Inserts(w)
    <3>1. op[w] = "importuser" /\ uid'[w] \in UserIds /\ Creates(w, uid[w])'
          BY <2>1, <2>2, <2>3 DEF Inserts
    <3>2. CASE InsertUser(w) BY <3>2 DEF InsertUser, Inserts
    <3>3. CASE ~InsertUser(w)
      <4>1. uid'[w] = uid[w] BY <1>0, <1>2, <3>3, LocalEffects
      <4>2. ~LockUser(w) BY <1>0, <3>1, Arguments DEF LockUser, Sound
      <4>3. draftUser' = draftUser
        <5>1. CASE UpdateUser(w)
          <6>1. UpdateUserWrites(w) BY <1>0, <5>1, UpdateUserEffects DEF Sound
          <6>2. user[uid[w]] = NoUser BY <2>1, <3>1, <4>1 DEF Creates
          <6> QED BY <6>1, <6>2, MarkersAssumption DEF UpdateUserWrites
        <5> QED BY <1>0, <1>2, <3>3, <4>2, <5>1, LocalEffects
      <4> QED BY <2>1, <3>1, <4>1, <4>3 DEF Inserts, Creates, Written
    <3> QED BY <3>2, <3>3
  <2> QED BY <2>1, <2>2, <2>3 DEF LookedUp
<1>3. CASE InsertRole(w) \/ Commit(w) \/ RollBack(w)
  <2>1. pc'[w] = "idle" /\ op'[w] = "none"
        BY <1>0, <1>3, ReleaseClears DEF InsertRole, Commit, RollBack
  <2> QED BY <2>1 DEF LookedUp, Inserts
<1> QED BY <1>1, <1>2, <1>3 DEF Step

LEMMA NextDoubles ==
    ASSUME IInv, LookupsRemembered, DoublesOnlyByRace, [Next]_vars
    PROVE  LookupsRemembered' /\ DoublesOnlyByRace'
<1>0. Sound /\ TypeOK /\ UsersLocked /\ NewIds /\ DeletionsUnlink BY DEF IInv, Sound
<1>1. CASE UNCHANGED vars
  <2>1. UNCHANGED <<user, role, raced, since, op, pc, uid, want, draftUser>>
        BY <1>1 DEF vars, tables, history, args, drafts
  <2> QED BY <2>1 DEF LookupsRemembered, LookedUp, Inserts, Creates, Written, DoublesOnlyByRace
<1>2. ASSUME NEW w \in Sessions, Step(w) PROVE LookupsRemembered' /\ DoublesOnlyByRace'
  <2>1. LookupsRemembered' BY <1>2, OtherLookups, OwnLookups DEF LookupsRemembered
  <2>2. LookedUp(w) BY DEF LookupsRemembered
  <2>3. raced \subseteq raced'
    <3>1. CASE Commit(w) \/ InsertRole(w) BY <3>1 DEF Commit, InsertRole, Remember
    <3>2. CASE NewCall(w) BY <1>0, <3>2, NewCalls DEF Call, tables
    <3>3. CASE LocalStep(w) BY <3>3, LocalFrame DEF tables
    <3>4. CASE RollBack(w) BY <3>4 DEF RollBack, tables
    <3> QED BY <1>2, <3>1, <3>2, <3>3, <3>4 DEF Step
  <2>4. ASSUME NEW u \in UserIds, NEW v \in UserIds, u # v, user[u] = NoUser, user'[u] # NoUser,
               user'[v] # NoUser, Lower[user'[u].name] = Lower[user'[v].name]
        PROVE  {<<"user", u>>, <<"user", v>>} \in raced'
    <3>1. Commit(w) /\ Written(w, u) /\ user'[u] = draftUser[w][u] /\ u = uid[w]
          BY <1>0, <1>2, <2>4, UsersCome
    <3>2. user'[v] = user[v]
      <4>1. user'[v] # user[v] => v = uid[w] BY <1>0, <1>2, UsersCome
      <4> QED BY <2>4, <3>1, <4>1
    <3>3. op[w] = "importuser"
          BY <1>0, <2>4, <3>1 DEF UsersLocked, DeletionsUnlink
    <3>4. Work(w) BY <1>0, <3>1, <3>3, Works DEF Sound, ImportsSound, AtWork, Commit
    <3>5. user'[u].name = want[w].name BY <2>4, <3>1, <3>4 DEF Work
    <3>6. Inserts(w) BY <2>4, <3>1, <3>3 DEF Inserts, Creates
    <3>7. <<"user", v>> \in since[w] BY <2>2, <2>4, <3>2, <3>5, <3>6 DEF LookedUp
    <3> DEFINE changed == {x \in UserIds : draftUser[w][x] \notin {Kept, NoUser}}
               new == {"user"} \X {x \in changed : user[x] = NoUser}
    <3>8. <<"user", u>> \in new BY <2>4, <3>1 DEF Written
    <3>9. Remember(w, new, changed, links \ links') BY <3>1 DEF Commit
    <3> HIDE DEF new, changed
    <3>10. raced' = raced \union {{e, f} : e \in new, f \in since[w]} BY <3>9 DEF Remember
    <3> QED BY <3>7, <3>8, <3>10
  <2>5. ASSUME NEW u \in UserIds, NEW v \in UserIds, u # v, user'[u] # NoUser,
               user'[v] # NoUser, Lower[user'[u].name] = Lower[user'[v].name]
        PROVE  {<<"user", u>>, <<"user", v>>} \in raced'
    <3>1. CASE user[u] = NoUser BY <2>4, <2>5, <3>1
    <3>2. CASE user[v] = NoUser
      <4>1. {<<"user", v>>, <<"user", u>>} \in raced' BY <2>4, <2>5, <3>2
      <4>2. {<<"user", v>>, <<"user", u>>} = {<<"user", u>>, <<"user", v>>} OBVIOUS
      <4> QED BY <4>1, <4>2
    <3>3. CASE user[u] # NoUser /\ user[v] # NoUser
      <4>1. user'[u].name = user[u].name /\ user'[v].name = user[v].name
            BY <1>2, <2>5, <3>3, NamesStay
      <4> QED BY <2>3, <2>5, <3>3, <4>1 DEF DoublesOnlyByRace
    <3> QED BY <3>1, <3>2, <3>3
  <2>6. ASSUME NEW r \in RoleIds, NEW s \in RoleIds, r # s, role'[r] # NoName, role'[r] = role'[s]
        PROVE  {<<"role", r>>, <<"role", s>>} \in raced'
    <3>1. CASE InsertRole(w)
      <4>1. /\ pc[w] = "newrole" /\ role' = [role EXCEPT ![nextrole] = want[w]]
            /\ raced' = raced \union {{e, f} : e \in {<<"role", nextrole>>}, f \in since[w]}
            BY <3>1 DEF InsertRole, Remember
      <4>2. \A x \in RoleIds : role'[x] = IF x = nextrole THEN want[w] ELSE role[x]
            BY <1>0, <4>1 DEF TypeOK
      <4>3. CASE r = nextrole
        <5>1. <<"role", s>> \in since[w] BY <2>2, <2>6, <4>1, <4>2, <4>3 DEF LookedUp
        <5> QED BY <4>1, <4>3, <5>1
      <4>4. CASE s = nextrole
        <5>1. <<"role", r>> \in since[w] BY <2>2, <2>6, <4>1, <4>2, <4>4 DEF LookedUp
        <5>2. {<<"role", s>>, <<"role", r>>} \in raced' BY <4>1, <4>4, <5>1
        <5>3. {<<"role", s>>, <<"role", r>>} = {<<"role", r>>, <<"role", s>>} OBVIOUS
        <5> QED BY <5>2, <5>3
      <4>5. CASE r # nextrole /\ s # nextrole BY <2>3, <2>6, <4>2, <4>5 DEF DoublesOnlyByRace
      <4> QED BY <4>3, <4>4, <4>5
    <3>2. CASE ~InsertRole(w)
      <4>1. role' = role BY <1>0, <1>2, <3>2, Database
      <4> QED BY <2>3, <2>6, <4>1 DEF DoublesOnlyByRace
    <3> QED BY <3>1, <3>2
  <2> QED BY <2>1, <2>5, <2>6 DEF DoublesOnlyByRace
<1> QED BY <1>1, <1>2, StepsOfSessions

\* Two users that differ in the case of their names only, or two roles of one name,
\* come from a race alone: one was committed after the import of the other had
\* looked for the name and found nothing.
THEOREM DoublesAreRaces == Spec => []DoublesOnlyByRace
<1>1. Init => LookupsRemembered /\ DoublesOnlyByRace
  <2> SUFFICES ASSUME Init PROVE LookupsRemembered /\ DoublesOnlyByRace
      OBVIOUS
  <2>1. LookupsRemembered BY DEF Init, LookupsRemembered, LookedUp, Inserts
  <2>2. DoublesOnlyByRace BY DEF Init, DoublesOnlyByRace
  <2> QED BY <2>1, <2>2
<1>2. IInv /\ LookupsRemembered /\ DoublesOnlyByRace /\ [Next]_vars
         => LookupsRemembered' /\ DoublesOnlyByRace'
      BY NextDoubles
<1> QED BY <1>1, <1>2, Invariance, PTL DEF Spec

-----------------------------------------------------------------------------
(* Lists of links *)

\* What a list has been gone through is linked, or has been taken away since.
LinksMade(w) ==
    op[w] = "link" => /\ Reached(w) \subseteq Linked(w) \union lost[w]
                      /\ pc[w] = "commit" => at[w] = Len(list[w]) + 1

AllLinksMade == \A w \in Sessions : LinksMade(w)

LEMMA OtherLinksMade ==
    ASSUME IInv, NEW w \in Sessions, Step(w), NEW v \in Sessions \ {w}, LinksMade(v)
    PROVE  LinksMade(v)'
<1>0. Sound /\ TypeOK /\ NewIds BY DEF IInv, Sound
<1>1. Same(v) BY <1>0, StepOthers
<1>2. SUFFICES ASSUME op'[v] = "link" PROVE Reached(v)' \subseteq Linked(v)' \union lost'[v]
      BY <1>1 DEF Same, LinksMade
<1>3. op[v] = "link" /\ Reached(v)' = Reached(v) BY <1>1, <1>2 DEF Same, Reached
<1>4. uid[v] \in UserIds /\ pc[v] # "idle"
      BY <1>0, <1>3 DEF Sound, CallsInOrder, InOrder, Steps
<1>5. lost[v] \subseteq lost'[v]
  <2>1. CASE Commit(w) \/ InsertRole(w)
    <3>1. \E new, changed, unlinked : Remember(w, new, changed, unlinked)
          BY <2>1 DEF InsertRole, Commit
    <3> QED BY <1>4, <3>1 DEF Remember
  <2>2. CASE NewCall(w) BY <1>0, <2>2, NewCalls DEF Call, history
  <2>3. CASE LocalStep(w) BY <2>3, LocalFrame DEF history
  <2>4. CASE RollBack(w) BY <1>0, <2>4 DEF RollBack, TypeOK
  <2> QED BY <2>1, <2>2, <2>3, <2>4 DEF Step
<1>6. ASSUME NEW t \in Linked(v), t \notin Linked(v)' PROVE t \in lost'[v]
  <2>1. t \in Targets /\ LinkSeen(v, <<uid[v], t>>) /\ ~LinkSeen(v, <<uid[v], t>>)'
        BY <1>1, <1>6 DEF Linked, Same
  <2>2. <<uid[v], t>> \in links \ links' BY <1>1, <2>1 DEF LinkSeen, Same
  <2>3. Commit(w) BY <1>0, <2>2, Database
  <2>4. \E new, changed : Remember(w, new, changed, links \ links') BY <2>3 DEF Commit
  <2> DEFINE gone == links \ links'
  <2>5. \E new, changed : Remember(w, new, changed, gone) BY <2>4
  <2>6. <<uid[v], t>> \in gone BY <2>2
  <2> HIDE DEF gone
  <2>7. lost'[v] = lost[v] \union {x \in Targets : <<uid[v], x>> \in gone}
        BY <1>4, <2>5 DEF Remember
  <2> QED BY <2>1, <2>6, <2>7
<1>7. Reached(v) \subseteq Linked(v) \union lost[v] BY <1>3 DEF LinksMade
<1> QED BY <1>3, <1>5, <1>6, <1>7

\* A list of links is of roles and workspaces, not of names.
LEMMA MeaningOfLinks ==
    ASSUME Sound, NEW w \in Sessions, op[w] = "link", pc[w] \in {"look", "put", "fk"}
    PROVE  /\ at[w] \in Nat \ {0} /\ list[w][at[w]] \in Targets
           /\ Meant(w) = {list[w][at[w]]}
<1>1. at[w] \in DOMAIN list[w] /\ ByName \notin {list[w][i] : i \in DOMAIN list[w]}
      BY DEF Sound, CallsInOrder, InOrder
<1>2. list[w] \in Seq(Targets \union {ByName}) BY DEF Sound, TypeOK
<1>3. list[w][at[w]] \in Targets \union {ByName} /\ at[w] \in Nat \ {0} BY <1>1, <1>2
<1>4. list[w][at[w]] # ByName BY <1>1
<1> QED BY <1>3, <1>4 DEF Meant

LEMMA OwnLinksMade ==
    ASSUME IInv, NEW w \in Sessions, Step(w), LinksMade(w)
    PROVE  LinksMade(w)'
<1>0. Sound /\ TypeOK BY DEF IInv, Sound
<1>1. SUFFICES ASSUME op'[w] = "link"
               PROVE  /\ Reached(w)' \subseteq Linked(w)' \union lost'[w]
                      /\ pc'[w] = "commit" => at'[w] = Len(list'[w]) + 1
      BY DEF LinksMade
<1>2. CASE NewCall(w)
  <2>1. PICK f \in Ops, u \in UserIds \union {0}, import \in Args,
             l \in Seq(Targets \union {ByName}), s \in Statements :
               Call(w, f, u, import, l, s) /\ Starts(f, u, import, l, s)
        BY <1>0, <1>2, NewCalls
  <2>2. op'[w] = f /\ pc'[w] = s /\ at' = at BY <1>0, <2>1 DEF Call, GoTo, TypeOK
  <2>3. s = "look" BY <1>1, <2>1, <2>2 DEF Starts
  <2>4. at[w] = 1
    <3>1. UsersLocked BY DEF IInv
    <3> QED BY <1>0, <2>1, <3>1, NothingWritten DEF Call
  <2>5. Reached(w)' = {list'[w][i] : i \in 1 .. 0} BY <2>2, <2>3, <2>4 DEF Reached
  <2> QED BY <2>2, <2>3, <2>5
<1>3. CASE LocalStep(w)
  <2>1. op[w] = "link" /\ UNCHANGED <<links, lost, want>>
        BY <1>1, <1>3, LocalFrame DEF args, tables, history
  <2>2. Reached(w) \subseteq Linked(w) \union lost[w] BY <2>1 DEF LinksMade
  <2>3. CASE LookForLink(w)
    <3>1. pc[w] = "look" /\ UNCHANGED <<uid, list, draftLink>> BY <2>3 DEF LookForLink, drafts
    <3>2. Linked(w)' = Linked(w) BY <2>1, <3>1 DEF Linked, LinkSeen
    <3>3. CASE \E t \in Meant(w) : LinkSeen(w, <<uid[w], t>>)
      <4>1. /\ at'[w] = at[w] + 1 /\ pc'[w] \in {"commit", "put", "look"}
            /\ pc'[w] = "commit" => at[w] = Len(list[w])
            BY <1>0, <2>3, <3>1, <3>3, AdvanceEffects DEF LookForLink
      <4>2. list[w][at[w]] \in Linked(w) BY <1>0, <2>1, <3>1, <3>3, MeaningOfLinks DEF Linked
      <4>3. Reached(w)' = Reached(w) \union {list[w][at[w]]}
        <5>1. at[w] \in Nat \ {0} BY <1>0, <2>1, <3>1, MeaningOfLinks
        <5> QED BY <3>1, <4>1, <5>1, ReachedGrows
      <4> QED BY <2>1, <2>2, <3>1, <3>2, <4>1, <4>2, <4>3
    <3>4. CASE ~\E t \in Meant(w) : LinkSeen(w, <<uid[w], t>>)
      <4>1. pc'[w] = "put" /\ at' = at BY <1>0, <2>3, <3>4 DEF LookForLink, GoTo, TypeOK
      <4>2. Reached(w)' = Reached(w) BY <3>1, <4>1 DEF Reached
      <4> QED BY <2>1, <2>2, <3>2, <4>1, <4>2
    <3> QED BY <3>3, <3>4
  <2>4. CASE InsertLink(w)
    <3>1. pc[w] = "put" /\ pc'[w] = "fk" /\ UNCHANGED <<uid, list, at>>
          BY <1>0, <2>4 DEF InsertLink, GoTo, loop, TypeOK
    <3>2. uid[w] \in UserIds BY <1>0, <3>1, Arguments DEF Sound
    <3>3. PICK t \in Targets :
             /\ Meant(w) = {t}
             /\ \A l \in Links : draftLink'[w][l] = IF l = <<uid[w], t>> THEN "in" ELSE draftLink[w][l]
          BY <1>0, <2>4, InsertLinkEffects DEF Sound
    <3>4. t = list[w][at[w]] /\ at[w] \in Nat \ {0} BY <1>0, <2>1, <3>1, <3>3, MeaningOfLinks
    <3>5. Reached(w)' = Reached(w) \union {t} BY <3>1, <3>4, ReachedGrows
    <3>6. Linked(w) \union {t} \subseteq Linked(w)'
      <4>1. ASSUME NEW x \in Targets, LinkSeen(w, <<uid[w], x>>) \/ x = t
            PROVE  LinkSeen(w, <<uid[w], x>>)'
        <5>1. <<uid[w], x>> \in Links BY <3>2 DEF Links
        <5>2. draftLink'[w][<<uid[w], x>>] = IF x = t THEN "in" ELSE draftLink[w][<<uid[w], x>>]
              BY <3>3, <5>1
        <5> QED BY <2>1, <3>1, <4>1, <5>2 DEF LinkSeen
      <4> QED BY <3>1, <4>1 DEF Linked
    <3> QED BY <2>1, <2>2, <3>1, <3>5, <3>6
  <2>5. CASE ForeignKeys(w)
    <3>1. pc[w] = "fk" /\ UNCHANGED <<uid, list, draftLink>> BY <2>5 DEF ForeignKeys, drafts
    <3>2. /\ at'[w] = at[w] + 1 /\ pc'[w] \in {"commit", "put", "look"}
          /\ pc'[w] = "commit" => at[w] = Len(list[w])
          BY <1>0, <2>5, <3>1, AdvanceEffects DEF ForeignKeys
    <3>3. Linked(w)' = Linked(w) BY <2>1, <3>1 DEF Linked, LinkSeen
    <3>4. Reached(w)' = Reached(w)
      <4>1. at[w] \in Nat BY <1>0 DEF TypeOK
      <4>2. at'[w] - 1 = at[w] BY <3>2, <4>1
      <4> QED BY <3>1, <3>2, <4>2 DEF Reached
    <3> QED BY <2>1, <2>2, <3>1, <3>2, <3>3, <3>4
  <2>6. LookForLink(w) \/ InsertLink(w) \/ ForeignKeys(w)
    <3>1. pc[w] \notin {"insert", "type", "update", "unrole", "unws", "delete"}
          BY <1>0, <2>1, Arguments DEF Sound
    <3> QED BY <1>3, <3>1 DEF LocalStep, InsertUser, ReadType, UpdateUser, UnlinkRoles,
               UnlinkWorkspaces, LockUser
  <2> QED BY <2>3, <2>4, <2>5, <2>6
<1>4. CASE InsertRole(w) \/ Commit(w) \/ RollBack(w)
      BY <1>0, <1>1, <1>4, ReleaseClears DEF InsertRole, Commit, RollBack
<1> QED BY <1>2, <1>3, <1>4 DEF Step

LEMMA CommitLinks ==
    ASSUME IInv, AllLinksMade, NEW w \in Sessions, Commit(w), op[w] = "link",
           NEW i \in DOMAIN list[w]
    PROVE  list[w][i] \in LinksIn(links', uid[w]) \union lost[w]
<1>1. Sound /\ TypeOK /\ pc[w] = "commit" BY DEF IInv, Sound, Commit
<1>2. uid[w] \in UserIds BY <1>1 DEF Sound, CallsInOrder, InOrder
<1>3. at[w] = Len(list[w]) + 1 /\ Reached(w) \subseteq Linked(w) \union lost[w]
      BY <1>1 DEF AllLinksMade, LinksMade
<1>4. i \in 1 .. Len(list[w]) /\ Len(list[w]) \in Nat
  <2>1. list[w] \in Seq(Targets \union {ByName}) BY <1>1 DEF TypeOK
  <2> QED BY <2>1
<1>5. Reached(w) = {list[w][j] : j \in 1 .. Len(list[w])} BY <1>1, <1>3, <1>4 DEF Reached
<1> QED BY <1>1, <1>2, <1>3, <1>4, <1>5, CommittedLinks

\* A list of roles or workspaces for which the answer is true is linked when the
\* call commits, but for what others have unlinked from the user since it began.
THEOREM ListsAreLinked == Spec => LinkedUnlessLost
<1>1. Init => AllLinksMade BY DEF Init, AllLinksMade, LinksMade
<1>2. IInv /\ AllLinksMade /\ [Next]_vars => AllLinksMade'
  <2> SUFFICES ASSUME IInv, AllLinksMade, [Next]_vars PROVE AllLinksMade'
      OBVIOUS
  <2>1. CASE UNCHANGED vars
    <3>1. UNCHANGED <<links, lost, op, pc, uid, list, at, draftLink>>
          BY <2>1 DEF vars, tables, history, args, loop, drafts
    <3> QED BY <3>1 DEF AllLinksMade, LinksMade, Reached, Linked, LinkSeen
  <2>2. ASSUME NEW w \in Sessions, Step(w) PROVE AllLinksMade'
        BY <2>2, OtherLinksMade, OwnLinksMade DEF AllLinksMade
  <2> QED BY <2>1, <2>2, StepsOfSessions
<1>3. IInv /\ AllLinksMade /\ [Next]_vars =>
         [\A w \in Sessions : Commit(w) /\ op[w] = "link" =>
            \A i \in DOMAIN list[w] : list[w][i] \in LinksIn(links', uid[w]) \union lost[w]]_vars
      BY CommitLinks
<1> QED BY <1>1, <1>2, <1>3, Invariance, PTL DEF Spec, LinkedUnlessLost

=============================================================================
