---------------------------- MODULE LicenceUsers ----------------------------
(***************************************************************************)
(* Users and roles of the license database (nbclic.sql): the users, the    *)
(* roles, and the links of a user to roles (user2role) and to workspaces   *)
(* (user2workspace).  importuser and importrole look for a name and insert *)
(* it if it is not there; importuser then links the user to one role and   *)
(* one workspace, after it has removed all links of a local user.          *)
(*                                                                         *)
(* Every call is one transaction under READ COMMITTED, and an action is    *)
(* one SQL statement of it, up to the next point where it may wait.  What  *)
(* a call has written lies in the draft of its session until it commits;   *)
(* a user it has written is a user it locks.                               *)
(*                                                                         *)
(* Columns of users other than the name and authentication_type are left   *)
(* out, and so are the functions of a role, which only importrole and      *)
(* updaterole2function touch, and deletions of roles.                      *)
(***************************************************************************)
EXTENDS Integers, Sequences, FiniteSets

CONSTANTS
    Sessions,    \* database sessions, each running one call at a time
    Names,       \* names of users and roles
    Lower,       \* a function on Names: lower()
    Admin,       \* the name 'admin'
    Workspaces,  \* workspaceguid
    Imports,     \* the arguments of calls of importuser
    ByName,      \* in a list: the role that the import names
    NoUser,      \* "no such user"
    NoName,      \* name of a role that does not exist
    NoArgs,      \* of a call that imports nothing
    Kept,        \* in a draft: not written by the transaction
    MaxUser,     \* bound: ids the sequence of users hands out
    MaxRole,     \* bound: ids the sequence of roles hands out
    MaxList,     \* bound: length of an array
    MaxCalls     \* bound: calls made

UserIds == 1 .. MaxUser
RoleIds == 1 .. MaxRole
Targets == RoleIds \union Workspaces
Links == UserIds \X Targets

Local == 0           \* authentication_type of a local user; 1 stands for the others
NoType == -1         \* not read, or null
UserRow == [name : Names, type : {Local, 1}]
Import == [name : Names, type : {Local, 1}, ws : Workspaces, role : Names]

ASSUME NamesAssumption ==
    /\ Lower = [n \in Names |-> Lower[n]]
    /\ Admin \in Names
    /\ Imports \subseteq Import
    /\ MaxUser \in Nat \ {0}
    /\ MaxRole \in Nat \ {0}
    /\ MaxList \in Nat
    /\ MaxCalls \in Nat

ASSUME MarkersAssumption ==
    /\ NoUser \notin UserRow
    /\ Kept \notin UserRow \union {NoUser}
    /\ NoName \notin Names
    /\ NoArgs \notin Import \union Names
    /\ ByName \notin Targets
    /\ Workspaces \intersect RoleIds = {}

Ops == {"none", "importuser", "importrole", "link", "delete"}

Statements == {"idle", "insert", "type", "update", "unrole", "unws", "look", "put",
               "fk", "newrole", "delete", "commit"}

VARIABLES
    \* the committed database
    user,       \* [UserIds -> UserRow \union {NoUser}]
    role,       \* [RoleIds -> Names \union {NoName}]
    links,      \* SUBSET Links: user2role and user2workspace
    nextuser,   \* the sequence of user
    nextrole,   \* the sequence of role
    \* calls
    calls,      \* number of calls made
    raced,      \* history: pairs of users or roles, one committed after the other's lookup
    since,      \* history: [Sessions -> users and roles committed since its lookup]
    stale,      \* history: imports whose user another import has changed since they read its type
    lost,       \* history: [Sessions -> SUBSET Targets], unlinked by others meanwhile
    op,         \* the call a session runs
    pc,         \* the statement it has come to
    uid,        \* ds_id, or the user it was given
    want,       \* what it imports
    list,       \* what it links the user to, in order
    at,         \* how far it has come in the list
    type,       \* r_authtype
    draftUser,  \* [Sessions -> [UserIds -> UserRow \union {NoUser, Kept}]]
    draftLink,  \* [Sessions -> [Links -> {"kept", "in", "out"}]]
    shared      \* [UserIds -> SUBSET Sessions]: locked by a foreign key

tables  == <<user, role, links, raced>>
history == <<since, stale, lost>>
args    == <<op, want>>
loop    == <<list, at>>
drafts  == <<draftUser, draftLink>>
vars    == <<tables, nextuser, nextrole, calls, history, args, pc, uid, loop, type, drafts, shared>>

Entries == {"user"} \X UserIds \union {"role"} \X RoleIds

TypeOK ==
    /\ user \in [UserIds -> UserRow \union {NoUser}]
    /\ role \in [RoleIds -> Names \union {NoName}]
    /\ links \in SUBSET Links
    /\ nextuser \in 1 .. MaxUser + 1
    /\ nextrole \in 1 .. MaxRole + 1
    /\ calls \in Nat
    /\ raced \in SUBSET SUBSET Entries
    /\ since \in [Sessions -> SUBSET Entries]
    /\ stale \in SUBSET Sessions
    /\ lost \in [Sessions -> SUBSET Targets]
    /\ op \in [Sessions -> Ops]
    /\ pc \in [Sessions -> Statements]
    /\ uid \in [Sessions -> UserIds \union {0}]
    /\ want \in [Sessions -> Import \union Names \union {NoArgs}]
    /\ list \in [Sessions -> Seq(Targets \union {ByName})]
    /\ at \in [Sessions -> Nat]
    /\ type \in [Sessions -> {Local, 1, NoType}]
    /\ draftUser \in [Sessions -> [UserIds -> UserRow \union {NoUser, Kept}]]
    /\ draftLink \in [Sessions -> [Links -> {"kept", "in", "out"}]]
    /\ shared \in [UserIds -> SUBSET Sessions]

\* The database is created with the user admin in role 1.
Init ==
    /\ user = [u \in UserIds |-> IF u = 1 THEN [name |-> Admin, type |-> Local] ELSE NoUser]
    /\ role = [r \in RoleIds |-> IF r = 1 THEN Admin ELSE NoName]
    /\ links = {<<1, 1>>}
    /\ nextuser = 2
    /\ nextrole = 2
    /\ calls = 0
    /\ raced = {}
    /\ since = [w \in Sessions |-> {}]
    /\ stale = {}
    /\ lost = [w \in Sessions |-> {}]
    /\ op = [w \in Sessions |-> "none"]
    /\ pc = [w \in Sessions |-> "idle"]
    /\ uid = [w \in Sessions |-> 0]
    /\ want = [w \in Sessions |-> NoArgs]
    /\ list = [w \in Sessions |-> <<>>]
    /\ at = [w \in Sessions |-> 1]
    /\ type = [w \in Sessions |-> NoType]
    /\ draftUser = [w \in Sessions |-> [u \in UserIds |-> Kept]]
    /\ draftLink = [w \in Sessions |-> [l \in Links |-> "kept"]]
    /\ shared = [u \in UserIds |-> {}]

-----------------------------------------------------------------------------
(* What a session sees and may lock *)

Written(w, u) == draftUser[w][u] # Kept
UserSeen(w, u) == IF Written(w, u) THEN draftUser[w][u] ELSE user[u]
LinkSeen(w, l) == IF draftLink[w][l] = "kept" THEN l \in links ELSE draftLink[w][l] = "in"
Exists(w, u) == u \in UserIds /\ UserSeen(w, u) # NoUser

\* Nobody else writes the user; nobody else refers to it, either.
Unwritten(w, u) == \A v \in Sessions \ {w} : ~Written(v, u)
Free(w, u) == Unwritten(w, u) /\ shared[u] \subseteq {w}

GoTo(w, statement) == pc' = [pc EXCEPT ![w] = statement]

Call(w, f, u, import, l, statement) ==
    /\ pc[w] = "idle"
    /\ calls < MaxCalls
    /\ calls' = calls + 1
    /\ op' = [op EXCEPT ![w] = f]
    /\ uid' = [uid EXCEPT ![w] = u]
    /\ want' = [want EXCEPT ![w] = import]
    /\ list' = [list EXCEPT ![w] = l]
    /\ GoTo(w, statement)
    /\ UNCHANGED <<tables, nextuser, nextrole, history, at, type, drafts, shared>>

\* The transaction ends: w has no draft and no lock any more.
Release(w) ==
    /\ GoTo(w, "idle")
    /\ op' = [op EXCEPT ![w] = "none"]
    /\ uid' = [uid EXCEPT ![w] = 0]
    /\ want' = [want EXCEPT ![w] = NoArgs]
    /\ list' = [list EXCEPT ![w] = <<>>]
    /\ at' = [at EXCEPT ![w] = 1]
    /\ type' = [type EXCEPT ![w] = NoType]
    /\ draftUser' = [draftUser EXCEPT ![w] = [u \in UserIds |-> Kept]]
    /\ draftLink' = [draftLink EXCEPT ![w] = [l \in Links |-> "kept"]]
    /\ shared' = [u \in UserIds |-> shared[u] \ {w}]
    /\ UNCHANGED <<nextuser, calls>>

\* An error: EXCEPTION WHEN OTHERS answers -2, or false, when everything the call
\* did has been undone.
RollBack(w) ==
    /\ Release(w)
    /\ since' = [since EXCEPT ![w] = {}]
    /\ stale' = stale \ {w}
    /\ lost' = [lost EXCEPT ![w] = {}]
    /\ UNCHANGED <<tables, nextrole>>

\* It has read the type of a user that it has found.
Knows(v) == op[v] = "importuser" /\ uid[v] \in UserIds /\ pc[v] # "type"

\* What a commit of w leaves to the histories of the calls that run beside it.
Remember(w, new, changed, unlinked) ==
    LET others == {v \in Sessions \ {w} : pc[v] # "idle"} IN
    /\ raced' = raced \union {{e, f} : e \in new, f \in since[w]}
    /\ since' = [v \in Sessions |-> IF v \in others THEN since[v] \union new ELSE {}]
    /\ stale' = {v \in others : v \in stale \/ (Knows(v) /\ uid[v] \in changed)}
    /\ lost' = [v \in Sessions |-> IF v \in others
                                   THEN lost[v] \union {t \in Targets : <<uid[v], t>> \in unlinked}
                                   ELSE {}]

Commit(w) ==
    LET changed == {u \in UserIds : draftUser[w][u] \notin {Kept, NoUser}} IN
    /\ pc[w] = "commit"
    /\ user' = [u \in UserIds |-> UserSeen(w, u)]
    /\ links' = {l \in Links : LinkSeen(w, l)}
    /\ Remember(w, {"user"} \X {u \in changed : user[u] = NoUser}, changed, links \ links')
    /\ Release(w)
    /\ UNCHANGED <<role, nextrole>>

-----------------------------------------------------------------------------
(* importrole(r): no constraint keeps the names of roles different *)

ImportRole(w, n) ==
    \/ n \in {role[r] : r \in RoleIds} /\ Call(w, "importrole", 0, n, <<>>, "commit")
    \/ /\ n \notin {role[r] : r \in RoleIds}
       /\ nextrole + Cardinality({v \in Sessions : pc[v] = "newrole"}) <= MaxRole
       /\ Call(w, "importrole", 0, n, <<>>, "newrole")

\* The insert waits for nothing, and the call is over.
InsertRole(w) ==
    /\ pc[w] = "newrole"
    /\ nextrole <= MaxRole
    /\ nextrole' = nextrole + 1
    /\ role' = [role EXCEPT ![nextrole] = want[w]]
    /\ Remember(w, {<<"role", nextrole>>}, {}, {})
    /\ Release(w)
    /\ UNCHANGED <<user, links>>

-----------------------------------------------------------------------------
(* importuser(r, wssguid, rolename) *)

\* MUTANT of Named: names are compared as they are written.
NamedExactly(n) == {u \in UserIds : user[u] # NoUser /\ user[u].name = n}

\* "select id into ds_id": one of the users with such a name, in whatever case.
Named(n) == {u \in UserIds : user[u] # NoUser /\ Lower[user[u].name] = Lower[n]}

ImportUser(w, import) ==
    \/ /\ Named(import.name) = {}
       /\ nextuser + Cardinality({v \in Sessions : pc[v] = "insert"}) <= MaxUser
       /\ Call(w, "importuser", 0, import, <<ByName, import.ws>>, "insert")
    \/ \E u \in Named(import.name) : Call(w, "importuser", u, import, <<>>, "type")

\* Another session has written an entry of user_name_uk like the new one.
EntryBusy(w) ==
    \E v \in Sessions \ {w}, u \in UserIds :
        /\ Written(v, u)
        /\ \E row \in {user[u], draftUser[v][u]} \ {NoUser} : row.name = want[w].name

EntryTaken(w) == \E u \in UserIds : user[u] # NoUser /\ user[u].name = want[w].name

InsertUser(w) ==
    /\ pc[w] = "insert"
    /\ nextuser <= MaxUser
    /\ ~EntryBusy(w)
    /\ ~EntryTaken(w)
    /\ nextuser' = nextuser + 1
    /\ uid' = [uid EXCEPT ![w] = nextuser]
    /\ draftUser' = [draftUser EXCEPT ![w][nextuser] = [name |-> want[w].name, type |-> want[w].type]]
    /\ GoTo(w, "put")
    /\ UNCHANGED <<tables, nextrole, calls, history, args, loop, type, draftLink, shared>>

NotUnique(w) ==
    /\ pc[w] = "insert"
    /\ ~EntryBusy(w)
    /\ EntryTaken(w)
    /\ RollBack(w)

\* "select authentication_type into r_authtype": null if the user is gone.
ReadType(w) ==
    /\ pc[w] = "type"
    /\ LET t == IF Exists(w, uid[w]) THEN user[uid[w]].type ELSE NoType IN
          /\ type' = [type EXCEPT ![w] = t]
          /\ list' = [list EXCEPT ![w] =
                         IF t = Local THEN <<want[w].ws, ByName>> ELSE <<ByName>>]
    /\ GoTo(w, "update")
    /\ UNCHANGED <<tables, nextuser, nextrole, calls, history, args, uid, at, drafts, shared>>

\* The update of the user passes over one that is gone.
UpdateUser(w) ==
    LET u == uid[w] IN
    /\ pc[w] = "update"
    /\ Free(w, u)
    /\ IF Exists(w, u)
       THEN draftUser' = [draftUser EXCEPT ![w][u] = [user[u] EXCEPT !.type = want[w].type]]
       ELSE UNCHANGED draftUser
    /\ GoTo(w, IF type[w] = Local THEN "unrole" ELSE "look")
    /\ UNCHANGED <<tables, nextuser, nextrole, calls, history, args, uid, loop, type, draftLink, shared>>

\* "delete from user2role" and "delete from user2workspace", of an import or by
\* ON DELETE CASCADE.  Only who has written the user deletes links of it, so that
\* they wait for nothing.
Unlink(w, targets, statement) ==
    /\ draftLink' = [draftLink EXCEPT ![w] =
          [l \in Links |-> IF l[1] = uid[w] /\ l[2] \in targets /\ LinkSeen(w, l)
                           THEN "out" ELSE draftLink[w][l]]]
    /\ GoTo(w, statement)
    /\ UNCHANGED <<tables, nextuser, nextrole, calls, history, args, uid, loop, type, draftUser, shared>>

\* MUTANT of UnlinkRoles: a local user keeps the roles it has.
UnlinkNoRoles(w) == pc[w] = "unrole" /\ Unlink(w, {}, "unws")

UnlinkRoles(w) == pc[w] = "unrole" /\ Unlink(w, RoleIds, "unws")

UnlinkWorkspaces(w) ==
    pc[w] = "unws" /\ Unlink(w, Workspaces, IF op[w] = "delete" THEN "commit" ELSE "look")

-----------------------------------------------------------------------------
(* The links, also of updateuser2role(uid, roleids), updateuser2workspace(uid, *)
(* guids) and setworkspaceadmin(wssguid)                                       *)

Link(w, u, l) == Call(w, "link", u, NoArgs, l, "look")

\* "select id from role where lower(name)=lower(rolename)"
RolesNamed(n) == {r \in RoleIds : role[r] # NoName /\ Lower[role[r]] = Lower[n]}

\* The target that the call has come to: none or several, if no role or several
\* roles have the name.
Meant(w) == IF list[w][at[w]] = ByName THEN RolesNamed(want[w].role) ELSE {list[w][at[w]]}

Advance(w) ==
    /\ at' = [at EXCEPT ![w] = @ + 1]
    /\ GoTo(w, IF at[w] = Len(list[w]) THEN "commit"
               ELSE IF op[w] = "importuser" /\ type[w] = NoType THEN "put" ELSE "look")

\* MUTANT of LookForLink: the loop ends at a link that is there.
LookForFirstLink(w) ==
    /\ pc[w] = "look"
    /\ Cardinality(Meant(w)) <= 1
    /\ GoTo(w, IF \E t \in Meant(w) : LinkSeen(w, <<uid[w], t>>) THEN "commit" ELSE "put")
    /\ UNCHANGED <<tables, nextuser, nextrole, calls, history, args, uid, loop, type, drafts, shared>>

LookForLink(w) ==
    /\ pc[w] = "look"
    /\ Cardinality(Meant(w)) <= 1
    /\ IF \E t \in Meant(w) : LinkSeen(w, <<uid[w], t>>)
       THEN Advance(w)
       ELSE GoTo(w, "put") /\ UNCHANGED at
    /\ UNCHANGED <<tables, nextuser, nextrole, calls, history, args, uid, list, type, drafts, shared>>

\* Another session has written the entry of user2role_unique or user2workspace_un.
LinkBusy(w, l) == \E v \in Sessions \ {w} : draftLink[v][l] # "kept"

InsertLink(w) ==
    /\ pc[w] = "put"
    /\ \E t \in Targets :
         /\ Meant(w) = {t}
         /\ ~LinkBusy(w, <<uid[w], t>>)
         /\ ~LinkSeen(w, <<uid[w], t>>)
         /\ draftLink' = [draftLink EXCEPT ![w][<<uid[w], t>>] = "in"]
    /\ GoTo(w, "fk")
    /\ UNCHANGED <<tables, nextuser, nextrole, calls, history, args, uid, loop, type, draftUser, shared>>

\* MUTANT of LinkIsThere: the insert is tried again, for ever.
InsertAgain(w) == pc[w] = "put" /\ UNCHANGED vars

\* user2role_unique or user2workspace_un is violated.
LinkIsThere(w) ==
    /\ pc[w] = "put"
    /\ \E t \in Targets :
         /\ Meant(w) = {t}
         /\ ~LinkBusy(w, <<uid[w], t>>)
         /\ LinkSeen(w, <<uid[w], t>>)
    /\ RollBack(w)

\* No role, so that roleid would be null, or a subquery with more than one row.
NoSuchRole(w) ==
    /\ pc[w] \in {"look", "put"}
    /\ \/ Cardinality(Meant(w)) > 1
       \/ pc[w] = "put" /\ Meant(w) = {}
    /\ RollBack(w)

\* user2role_fk_roleid
RoleUnknown(w) == \E r \in RoleIds : draftLink[w][<<uid[w], r>>] = "in" /\ role[r] = NoName

\* MUTANT of Referenced: the user is not looked up again.
NotReferenced(w) == TRUE

\* user2role_fk_userid, user2workspace_fkuser
Referenced(w) == Exists(w, uid[w])

ForeignKeys(w) ==
    /\ pc[w] = "fk"
    /\ ~RoleUnknown(w)
    /\ Unwritten(w, uid[w])
    /\ Referenced(w)
    /\ shared' = [shared EXCEPT ![uid[w]] = @ \union {w}]
    /\ Advance(w)
    /\ UNCHANGED <<tables, nextuser, nextrole, calls, history, args, uid, list, type, drafts>>

NoSuchKey(w) ==
    /\ pc[w] = "fk"
    /\ RoleUnknown(w) \/ (Unwritten(w, uid[w]) /\ ~Referenced(w))
    /\ RollBack(w)

-----------------------------------------------------------------------------
(* Deletions of users by applications *)

DeleteUser(w, u) == Call(w, "delete", u, NoArgs, <<>>, "delete")

\* The row is taken before the trigger of user looks at the name.
LockUser(w) ==
    LET u == uid[w] IN
    /\ pc[w] = "delete"
    /\ Free(w, u)
    /\ \/ ~Exists(w, u) /\ GoTo(w, "commit") /\ UNCHANGED draftUser
       \/ /\ Exists(w, u)
          /\ user[u].name # Admin
          /\ draftUser' = [draftUser EXCEPT ![w][u] = NoUser]
          /\ GoTo(w, "unrole")
    /\ UNCHANGED <<tables, nextuser, nextrole, calls, history, args, uid, loop, type, draftLink, shared>>

\* "Can not delete the system default user"
Protected(w) ==
    /\ pc[w] = "delete"
    /\ Free(w, uid[w])
    /\ Exists(w, uid[w])
    /\ user[uid[w]].name = Admin
    /\ RollBack(w)

-----------------------------------------------------------------------------
(* Deadlocks and broken calls *)

\* The sessions that w waits for.
WaitsFor(w) ==
    {v \in Sessions \ {w} :
        \/ pc[w] \in {"update", "delete"} /\ (Written(v, uid[w]) \/ v \in shared[uid[w]])
        \/ pc[w] = "fk" /\ Written(v, uid[w])
        \/ pc[w] = "put" /\ \E t \in Meant(w) : draftLink[v][<<uid[w], t>>] # "kept"
        \/ /\ pc[w] = "insert"
           /\ \E u \in UserIds : /\ Written(v, u)
                                  /\ \E row \in {user[u], draftUser[v][u]} \ {NoUser} :
                                        row.name = want[w].name}

\* w is in a circle of waiting sessions.
Deadlocked(w) ==
    \E S \in SUBSET Sessions : w \in S /\ \A v \in S : WaitsFor(v) \intersect S # {}

DeadlockVictim(w) == Deadlocked(w) /\ RollBack(w)

\* The connection is lost, or the client cancels.
Abort(w) == pc[w] # "idle" /\ RollBack(w)

Lists(S) == UNION {[1 .. n -> S] : n \in 1 .. MaxList}

NewCall(w) ==
    \/ \E import \in Imports : ImportUser(w, import)
    \/ \E n \in Names : ImportRole(w, n)
    \/ \E u \in 1 .. nextuser - 1 :
          DeleteUser(w, u) \/ \E l \in Lists(RoleIds) \union Lists(Workspaces) : Link(w, u, l)

Statement(w) ==
    \/ InsertRole(w) \/ InsertUser(w) \/ NotUnique(w) \/ ReadType(w) \/ UpdateUser(w)
    \/ UnlinkRoles(w) \/ UnlinkWorkspaces(w)
    \/ LookForLink(w) \/ InsertLink(w) \/ LinkIsThere(w) \/ NoSuchRole(w)
    \/ ForeignKeys(w) \/ NoSuchKey(w) \/ LockUser(w) \/ Protected(w)
    \/ Commit(w)

Next == \E w \in Sessions : NewCall(w) \/ Statement(w) \/ DeadlockVictim(w) \/ Abort(w)

Spec == Init /\ [][Next]_vars

\* A call that can go on does, and the server resolves deadlocks; nobody has to
\* make a call or to break one off.
FairSpec == Spec /\ \A w \in Sessions : WF_vars(Statement(w)) /\ WF_vars(DeadlockVictim(w))

-----------------------------------------------------------------------------
(* Properties *)

\* Links are links of users that exist and to roles that exist, whatever is
\* deleted while they are made: the user is looked up long before the foreign key
\* does it again.
LinksHaveUsers ==
    \A l \in links : user[l[1]] # NoUser /\ (l[2] \in RoleIds => role[l[2]] # NoName)

\* What user u is linked to in table t.
LinksIn(t, u) == {l[2] : l \in {k \in t : k[1] = u}}

\* What it does to the user, if it has found it as it was read, or has created it.
Imported(w) ==
    LET u == uid[w] IN
    \E r \in RolesNamed(want[w].role) :
        /\ user' = [user EXCEPT ![u] =
                       [name |-> IF @ = NoUser THEN want[w].name ELSE @.name,
                        type |-> want[w].type]]
        /\ LinksIn(links', u) = IF user[u] = NoUser \/ user[u].type = Local
                               THEN {want[w].ws, r} ELSE LinksIn(links, u) \union {r}
        /\ \A l \in Links : l[1] # u => (l \in links' <=> l \in links)

\* The statements of an import do, at its commit, what they would do alone: a new
\* or local user is left with exactly the role and the workspace of the import, any
\* other user keeps the links it has and gets the role.  The exception is an import
\* that read the type before another import of the same user committed: it goes by
\* the type it has read, and may unlink what the other one has linked.
ImportsAtomically ==
    [][\A w \in Sessions \ stale : Commit(w) /\ op[w] = "importuser" => Imported(w)]_vars

\* The parts of the inductive invariant that LinksHaveUsers and ImportsAtomically
\* need.

\* Who has written a user is the only one to rely on it.
UsersLocked ==
    \A w \in Sessions, u \in UserIds : Written(w, u) =>
        u = uid[w] /\ op[w] \in {"importuser", "delete"} /\ Free(w, u)

\* Ids that the sequences have not handed out are of nobody.  A user that is being
\* created has not been found by an import.
Creates(w, u) == Written(w, u) /\ draftUser[w][u] # NoUser /\ user[u] = NoUser

NewIds ==
    /\ \A u \in UserIds : user[u] # NoUser => u < nextuser
    /\ \A w \in Sessions : uid[w] < nextuser
    /\ \A r \in RoleIds : role[r] # NoName => r < nextrole
    /\ \A v, w \in Sessions, u \in UserIds :
          v # w /\ Creates(v, u) /\ op[w] = "importuser" => uid[w] # u

\* A call takes the steps of its function, and writes links of its user only.
Steps(f) ==
    CASE f = "none" -> {"idle"}
      [] f = "importuser" -> {"insert", "type", "update", "unrole", "unws", "look", "put", "fk", "commit"}
      [] f = "importrole" -> {"newrole", "commit"}
      [] f = "link" -> {"look", "put", "fk", "commit"}
      [] f = "delete" -> {"delete", "unrole", "unws", "commit"}

InOrder(w) ==
    /\ pc[w] \in Steps(op[w])
    /\ uid[w] \in UserIds <=> op[w] \in {"importuser", "link", "delete"} /\ pc[w] # "insert"
    /\ op[w] = "importuser" => want[w] \in Import
    /\ pc[w] = "newrole" => want[w] \in Names
    /\ op[w] = "none" => at[w] = 1 /\ type[w] = NoType
    /\ \A l \in Links : draftLink[w][l] # "kept" => l[1] = uid[w]
    /\ op[w] = "link" => ByName \notin {list[w][i] : i \in DOMAIN list[w]}
    /\ pc[w] \in {"look", "put", "fk"} => at[w] \in DOMAIN list[w]

CallsInOrder == \A w \in Sessions : InOrder(w)

\* A user that a session has referenced stays until the session is done.
ReferencedStay ==
    \A u \in UserIds : \A w \in shared[u] :
        Exists(w, u) /\ u = uid[w] /\ op[w] \in {"importuser", "link"}

\* A link that is added refers to its user and its role, or is just about to.
AddedRefer ==
    \A w \in Sessions, l \in Links : draftLink[w][l] = "in" =>
        /\ op[w] \in {"importuser", "link"}
        /\ \/ pc[w] = "fk"
           \/ w \in shared[l[1]] /\ (l[2] \in RoleIds => role[l[2]] # NoName)

\* Who takes a link away has the user to itself.
TakenLocked == \A w \in Sessions, l \in Links : draftLink[w][l] = "out" => Written(w, l[1])

\* What the user of a call is linked to as the call sees it.
Linked(w) == {t \in Targets : LinkSeen(w, <<uid[w], t>>)}

\* A deletion has the links behind it when it commits.
Unlinked(w) ==
    /\ pc[w] \in {"unws", "commit"} => Linked(w) \intersect RoleIds = {}
    /\ pc[w] = "commit" => Linked(w) = {}

DeletionsUnlink ==
    \A w \in Sessions : op[w] = "delete" =>
        /\ pc[w] = "delete" => ~Written(w, uid[w])
        /\ pc[w] \in {"unrole", "unws"} => Written(w, uid[w])
        /\ Written(w, uid[w]) => draftUser[w][uid[w]] = NoUser /\ Unlinked(w)

\* The part of the list that an import has linked.
Reached(w) == {list[w][i] : i \in 1 .. (IF pc[w] = "fk" THEN at[w] ELSE at[w] - 1)}

\* What the import found linked and has left so.
Remaining(w) ==
    IF user[uid[w]] = NoUser THEN {}
    ELSE IF type[w] # Local \/ pc[w] = "unrole" THEN LinksIn(links, uid[w])
    ELSE IF pc[w] = "unws" THEN LinksIn(links, uid[w]) \ RoleIds
    ELSE {}

LinksAsAsked(w) ==
    IF ByName \in Reached(w)
    THEN \E r \in RolesNamed(want[w].role) :
            Linked(w) = Remaining(w) \union (Reached(w) \ {ByName}) \union {r}
    ELSE Linked(w) = Remaining(w) \union Reached(w)

\* An import has written its user if it is to commit, and has linked it as far as
\* it has come in the list.
ImportSound(w) ==
    LET u == uid[w] IN
    /\ pc[w] \in {"insert", "type", "update", "unrole", "unws"} => at[w] = 1
    /\ pc[w] = "insert" => list[w] = <<ByName, want[w].ws>> /\ type[w] = NoType
    /\ pc[w] # "type" => list[w] \in {<<ByName, want[w].ws>>, <<want[w].ws, ByName>>, <<ByName>>}
    /\ pc[w] \in {"type", "update"} =>
          ~Written(w, u) /\ \A l \in Links : draftLink[w][l] = "kept"
    /\ pc[w] \notin {"insert", "type"} /\ user[u] # NoUser =>
          /\ type[w] # NoType /\ (w \notin stale => type[w] = user[u].type)
          /\ list[w] = IF type[w] = Local THEN <<want[w].ws, ByName>> ELSE <<ByName>>
    /\ pc[w] \in {"unrole", "unws", "look", "put", "fk", "commit"} =>
          IF Written(w, u)
          THEN /\ LinksAsAsked(w)
               /\ draftUser[w][u] = [name |-> IF user[u] = NoUser THEN want[w].name ELSE user[u].name,
                                     type |-> want[w].type]
               /\ user[u] = NoUser => /\ pc[w] \in {"put", "fk", "commit"}
                                      /\ type[w] = NoType /\ list[w] = <<ByName, want[w].ws>>
               /\ pc[w] = "commit" => at[w] = Len(list[w]) + 1
               /\ pc[w] \in {"unrole", "unws"} => type[w] = Local
          ELSE user[u] = NoUser /\ pc[w] # "commit" /\ (pc[w] # "fk" => Linked(w) = {})

ImportsSound == \A w \in Sessions : op[w] = "importuser" => ImportSound(w)

IInv ==
    /\ TypeOK /\ UsersLocked /\ NewIds /\ CallsInOrder /\ ReferencedStay /\ AddedRefer
    /\ TakenLocked /\ DeletionsUnlink /\ ImportsSound /\ LinksHaveUsers

\* A list of links for which the answer is true is linked when the call commits,
\* but for what another call has unlinked since it began.
LinkedUnlessLost ==
    [][\A w \in Sessions : Commit(w) /\ op[w] = "link" =>
          \A i \in DOMAIN list[w] : list[w][i] \in LinksIn(links', uid[w]) \union lost[w]]_vars

\* Users differ in more than the case of their names, and roles in their names,
\* unless one was committed after the other's import had looked for the name.
DoublesOnlyByRace ==
    /\ \A u, v \in UserIds :
          u # v /\ user[u] # NoUser /\ user[v] # NoUser /\ Lower[user[u].name] = Lower[user[v].name]
          => {<<"user", u>>, <<"user", v>>} \in raced
    /\ \A r, s \in RoleIds :
          r # s /\ role[r] # NoName /\ role[r] = role[s]
          => {<<"role", r>>, <<"role", s>>} \in raced

\* Every call ends, although an import takes the user before its links and the
\* other calls take a link before the user.
CallsEnd == \A w \in Sessions : pc[w] # "idle" ~> pc[w] = "idle"

=============================================================================
