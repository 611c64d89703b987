# A verification of the NetBrain databases

This repository builds and installs the NetBrain Enterprise Server.  Its own
program logic lives in two PostgreSQL databases, the *workspace database*
(`src/support/nbwsp.sql`, nearly three hundred PL/pgSQL functions, with the triggers,
views and tables they serve) and the *license database* (`src/support/nbclic.sql`), in the command
scripts that create, upgrade and drop them, and in the installer around them.
Applications on many machines call the functions at the same time and keep
copies of the tables; nothing but the transactions and locks of PostgreSQL
keeps them apart.  That is what is verified here.

The project holds TLA+ modules translated from the SQL source and the command
scripts, TLC runs that check them on small instances, and proofs for TLAPS that
hold for every value of the constants.

| module | what it is |
|---|---|
| `VersionCache` | the cache-version protocol: versioned tables, triggers, polling clients |
| `CopiedTable` | abstract specification: what the protocol promises its clients |
| `Sites` | the site tree and the devices placed in it, under concurrent calls |
| `SiteTree` | abstract specification: what the calls on sites do when each is atomic |
| `SiteWalk` | the walks over the site tree, while the tree changes |
| `DeviceGroups` | device groups and link groups, their owners and the stamps of the owners |
| `Priorities` | the ordered credential lists: priorities and their exchange |
| `LicenceUsers` | users and roles of the license database, imports and links |
| `Migration` | creation and upgrade of a database by the command scripts |
| `MC...` | instances for TLC: `lower()`, symmetry, inputs |
| `...Proofs` | the safety properties of the module, proved |

`tlc -config X.cfg MCX` runs a check (section 5 names the pairs; `SiteWalk` needs no `MC`
module), `tlapm XProofs.tla` checks proofs.


## 1. Inventory

### 1.1 Cache-version protocol (`nbwsp.sql`)

*State.*  `objtimestamp(typename, modifytime)`: one row, the *version*, for each
of about forty types of object.  Every versioned table has a column
`lasttimestamp`.  Clients keep a copy and the version `dt` of the copy.

*Operations.*  Row triggers `process_*_dt` store `now()` in the version and in the
row (some return `OLD` first when no column changes).  `valid_version_time(dt,
type)` tells whether the version is newer than `dt`.  `view_*_retrieve(ibegin,
imax, dt, type)` reads the version again, and then the rows with
`id > ibegin`, in some views only those with `lasttimestamp > dt`, up to `imax`
of them.

*Interaction.*  Every other component of the database calls this one through its
triggers; clients see the other components only through it.

*Hard.*  `now()` is the time at which a transaction began, but its changes appear
when it commits: versions can move backwards.  A retrieval has two statements
with two snapshots, a copy takes several retrievals.  All writers of a table meet in
one row of `objtimestamp` after they have locked rows of their own.

*Correct when* a client that is told "up to date" has the committed rows, or
there is a reason one can name; writers of a table are serialised; no transaction
waits for ever; a polling client catches up.

### 1.2 Site tree (`nbwsp.sql`)

*State.*  `site`, `site2site` (the parent of each site), `devicesitedevice` (at
most one site for a device), the version `'site'`.  Site 1 is *Entire Network*.

*Operations.*  `site_addormodify`, `site_devices_addormodify`, `site_remove`,
`device_site_move`, `device_site_set`, `device_site_set2`; the triggers
`process_site_dt` and `process_site2site_dt`; `sitenameexists`; walks over the tree
(`retrieve_all_devices_by_siteid`, `..._siteids`).

*Hard.*  Every function looks something up and acts on it in a later statement.
`site2site.parentid` has no foreign key, `site_remove` leaves children behind, the
tree is never checked for cycles but walked in loops, a query a step.  The trigger compares names
without regard to case, the unique constraint with regard to it.  A foreign
key with cascade ties `devicesitedevice` to `site`.  The functions take their
locks in different orders.

*Correct when* the sites are a forest, every placed device is in a site that
exists, a committed placing holds, every committed change moves the version, every
call ends, a call that commits has done what it was asked to as if it had run alone at
the moment of its commit, and a walk returns the devices below its sites once each.

### 1.3 Device groups and link groups (`nbwsp.sql`)

*State.*  `devicegroup`, `devicegroupdevice` and the tables of link groups; a group belongs to
everybody (`userid = -1`) or to a user of a license, and moves the public version or that user's
version in `objprivatetimestamp`.

*Operations.*  `devicegroup_upsert`, `devicegroupdevice_upsert_static`,
`devicegroupdevice_delete_static`, updates and deletions by applications; the triggers
`process_devicegroup_dt` and `process_devicegroupdevice_dt`; the same for link groups.

*Hard.*  The triggers look for the owner's row of `objprivatetimestamp` and
insert it when there is none; a change of owner has to stamp two owners and stamps one;
`devicegroup_upsert` returns `lastval()`, which may be the id of the stamp;
the owner is read, in two statements, before the foreign key holds the group; the trigger looks
for names without regard to case, the index minds the case and the user but not the license.

*Correct when* members are members of groups that exist; each owner is told of each change of a
group he can see before or after it; names are unique per owner; a returned id is that of the
group; every call ends.

### 1.4 Device settings and network facts (`nbwsp.sql`)

`devicesetting`, `device_property`, `interfacesetting`, `ip2mac`, LAN and L2 switch
tables, discovery results.  Wide functions of one pattern: look for the row by its
name, then insert or update.  Where no unique constraint backs the lookup
two sessions insert twice; where one does, one of the calls is rolled back and
answers `-2` or raises.  *Correct when* there is one row per name and the answer tells
which happened.

### 1.5 Ordered credential lists (`nbwsp.sql`)

`fixupnatinfo` and the `nomp_*` tables of passwords, SNMP strings and jump boxes have a column
`ipri`, which the insert trigger sets from a sequence; `changepri` exchanges two priorities by two
reads and two updates.  *Hard.*  No constraint keeps priorities apart, the reads take no
lock, and the updates lock the rows in the order of the arguments.  *Correct when* the
priorities of a list stay distinct, an exchange does what one statement would, clients
are told, and every call ends.

### 1.6 License and user database (`nbclic.sql`)

*State.*  `user`, `role`, `role2virtualfunction`, `user2role`, `user2workspace`, and the licenses.

*Operations.*  `importuser` (create or update a user, remove the links of a local one, link it to
a role found by name and to a workspace), `importrole`, `updateuser2role`,
`updateuser2workspace`, `setworkspaceadmin`, `updaterole2function`; deletions by
applications, with cascades and a trigger that protects `admin`.

*Hard.*  Names are looked up in lower case and constrained in their own case, and those of roles
are not constrained at all; an import reads the type of a user and unlinks by it two
statements later; the lookup of a user, the update and the foreign keys of the links are statements of their
own, between which the user may be deleted or imported by another session; a role that is missing or
double fails only when it is used, after the links have been removed.

*Correct when* a user exists once, links refer to users and roles that exist, an import that commits
leaves the roles and workspaces it is meant to leave, one that fails leaves nothing, and every call ends.

### 1.7 Schema migration (`Buildpgdb4wsp.bat`, `Buildpgdb4Lic.bat`, `nbwsp5xx.sql`, `nbclic5xx.sql`)

*State.*  The tables of a database and `system_info.version`.

*Operations.*  The drivers look whether the database is there, create it by `nbwsp.sql` or
`nbclic.sql` if it is not, and else run, in order, each script with a higher number than the
version, through `psql`, which does not stop at errors.

*Hard.*  The workspace driver reads the version again before each script, goes on with the one
it knew when it cannot, and jumps over the scripts up to 501 by the version of another product
(`Buildpgdb4wsp.bat:107`); when nothing was ever read, the empty variable is a syntax error
that ends the driver.  The license driver reads it once and ends when it cannot.  Some scripts record their version at the beginning, the
others at the end, some insert the row and others update it.  A run may be stopped anywhere and
started again.

*Correct when* a recorded version means that all scripts up to it are in effect, or there is a reason
one can name; none is repeated whose version is recorded; an installation that is
tried again ends with the last version.

### 1.8 Installation and removal of workspaces (`Setup.bat`, `WSfiles/*.bat`)

Sequential scripts that register services, copy files, create and drop databases; a
step may fail and the script be run again.

### 1.9 The rest

Read-only views and retrievals (one shape, covered by 1.1); InstallShield
dialogues and packaging scripts (`Package*/`); the PostgreSQL 8.4 distribution,
helper programs and generated data.  They have no state of their own that a model
could say more about than the text does.


## 2. Plan

In the order of what matters most to the users of the system:

1. `VersionCache`: the protocol every client relies on.  *Done, proved.*
2. `Sites`: the component with the richest locking, foreign keys and cascades.
   *Done, proved.*  `SiteTree`, what its callers are
   promised, and the refinement `Sites => SiteTree`.  *Done, checked and proved.*
3. `DeviceGroups`: groups, owners and the two kinds of stamps.  *Done, proved.*
4. `Migration`: the drivers with failing statements, crashes and repeated runs.  *Done, proved.*
5. `Priorities`: exchanges under concurrency.  *Done, proved.*
6. `SiteWalk`: the loops over the tree; it stands on what `Sites` keeps, that parents are older.
   *Done, proved.*
7. `LicenceUsers`: users and roles under concurrent imports.  *Done, proved.*
8. An abstract specification `CopiedTable` of what 1.1 promises a client, and the
   refinement `VersionCache => CopiedTable`.  *Done, checked and proved.*
9. `UpsertRace`: the look-then-insert pattern of 1.4 with and without a unique constraint,
   and its abstract specification, an atomic upsert.
10. `WorkspaceLifecycle` for 1.8, in the manner of `Migration`.

The safety properties and refinements of 1 to 8 are proved.


## 3. What PostgreSQL is taken to do

The functions are ordinary PL/pgSQL and rely on the server; what the server does is
modelled from how they use it and marked *external* in the map.

* *READ COMMITTED* (the default; nothing in the source changes it).  Every statement of
  a transaction sees what is committed when it starts, and the changes of its own
  transaction: `Current`, `SiteSeen`, `PlaceSeen`, `GroupSeen`, `UserSeen`, `Seen` read the draft
  over the committed state.
* An `UPDATE` or `DELETE` locks a row first; if it had to wait it looks at
  the row again and passes over it when it is gone or no longer matches.  `BEFORE ROW`
  triggers fire after that (`LockRow` then `FireTrigger`; `LockSite` then `CheckName`;
  `LockUser` then `Protected`).
* `now()` is the time the transaction began (`start`).
* Sequences are not transactional (`nextid`, `nextpri`, `nextuser`).
* A unique index makes an insert wait for an uncommitted row with the same key, and fails
  if it commits (`InsertRow`/`RowIsThere`, `WriteSite`/`NotUnique`, `PutStamp`/`StampIsThere`,
  `EntryBusy`/`EntryTaken`).
* A foreign key is checked when its statement ends, and holds the referenced row by a
  shared lock until the end of the transaction; it waits for a transaction that is
  changing that row.  PostgreSQL 8.4 has one shared mode, so any update of the row waits for it.
* `ON DELETE CASCADE` runs as a statement of its own on the rows it finds.
* Locks are kept to the end of the transaction.  Of a cycle of waiting transactions one
  is rolled back.
* `EXCEPTION WHEN OTHERS` undoes everything the function did; the
  locks it took go as well.
* A null where the table wants a value, and a subquery with more than one row, are errors.
* `psql < script` runs each statement of the script as a transaction of its own, and goes on after errors.

In `VersionCache` a transaction has up to `MaxStmts` statements in any order, each of which may come to
several rows; elsewhere a call is a
transaction of its own, as the applications make them.


## 4. The modules and the code

### 4.1 VersionCache

One versioned table.  `content`, `lasttimestamp` and `modifytime` are the committed
rows, their stamps and the row of `objtimestamp`; a deleted row keeps the time of its
deletion.  `touched` and `draft` hold what a transaction has changed, `rowLock` and
`verLock` what it has locked; `stmt` is the row its statement has come to, and `rest` the rows it has
still to come to.  A client has a copy `cache` with version `dt`; during a
poll `seen` is the version read at its start, and ids up to `ibegin` have been asked for.

| action | code |
|---|---|
| `Begin`, `Commit`, `Abort` | the client's transaction; `now()` is read in `Begin` |
| `Insert`, `Update`, `Delete` | a statement of any function that writes the table, such as `device_property_upsert`, `device_property_update` and `device_customized_info_delete`, whose one `DELETE` takes several rows |
| `GoOn` (of `FireTrigger`, `SkipUnchanged`, `LockRow`) | the statement comes to its next row, in any order, or ends |
| `LockRow` | the row is locked before its trigger |
| `FireTrigger` | `process_device_property_dt` and its kind: version and stamp |
| `SkipUnchanged` | `return OLD` of `process_device_customized_info_dt` |
| `StartPoll` | `valid_version_time` |
| `Check`, `CheckFails` | first statement of `view_*_retrieve` |
| `Fetch` | its second statement: filter, order, limit |
| `Restart` | an application starts without a copy |

`Incremental`, `Ordered`, `MaxPage` and `SkipSame` choose among the kinds of view and
trigger in the source: filtered on `lasttimestamp` or whole, ordered by `id` in the view or the query or not,
with a limit or not (`imax < 0`), returning `OLD` for an unchanged row or not.

`highest` and `missed` are history variables.  `missed[c]` has the rows whose last
change client `c` could not be told of: the transaction began no later than a version `c`
had already read.

*Abstracted.*  Contents are model values.  Only changes of one table are looked at; a
trigger that stamps several types writes each of their rows in the same way.  A client
keeps asking with the last id of a full page and stops at the first page that is not
full, as the parameters of the functions suggest; the applications are not part of this
repository.

`CopiedTable` is what users of the table may go by.  It has no sessions, locks, pages or polls:
the table with its stamps and version, and at each client a copy, the version `known` that the copy
is of, and the rows `late` that it may not be told of.

| action | what may happen |
|---|---|
| `Change` | a transaction changes some rows at once, none of which has been deleted, stamps them and takes the version to the time it began; if there has been a version as late as that, some clients may not be told |
| `Answer` | a copy takes some rows as they are; it loses rows, or may miss changes, only while the version is below the highest there has been (or loses them from pages in no order); it stays of its version, or comes to a higher one that has been, and then each row the view shows is right, or changed after that version, or late |
| `Forget` | a client begins anew |

`VersionCache` is mapped to it by `content`, `lasttimestamp`, `modifytime`, `highest`, `cache`, `dt` and `missed`
(`Copied == INSTANCE CopiedTable WITH ...`), and `CopiesAsPromised` is `Copied!Spec`: a commit is `Change`, the
end of each statement of a retrieval is `Answer` or nothing, and everything else is nothing.

### 4.2 Sites

`site` has a name and a parent for each id, so that `site` and `site2site` are one: their
rows are inserted and deleted by the same functions, and a row that is deleted by one
statement before the other is locked until the call ends.  `place` is
`devicesitedevice`.  `modifytime` counts the commits that stamped `'site'`.
A session has a program counter `pc`, the arguments of its call, the
rows `todo` of the loop it is in, and its drafts.

| `pc` | actions | code |
|---|---|---|
| `idle` | `AddOrModify`, `SiteRemove`, `DeviceSiteMove`, `DeviceSiteSet`, `CallSet2` | beginning of the functions |
| `parent` | `CheckParent` | lookup of `nparent`, `nextval` |
| `lock` | `LockSite` | the `UPDATE` of `site` takes the row |
| `name` | `CheckName`, `NameExists` | `sitenameexists` in the trigger |
| `write` | `WriteSite`, `NotUnique` | the trigger's version, the row and its index entry |
| `unlink` | `Unlink` | `delete from site2site` |
| `delete` | `DeleteSite` | `delete from site` |
| `set2` | `DeviceSiteSet2` | the lookup of the parent in `device_site_set2`, called by itself or by `site_devices_addormodify` |
| `rows`, `row` | `NextRow`, `RowsDone`, `LockRow` | the rows of an update, a cascade or the loop over the devices |
| `count`, `insert` | `CountRows`, `InsertRow`, `RowIsThere` | `if count < 1 then insert` |
| `fk` | `ForeignKey`, `NoSuchSite` | check of `devicesitedevice_fk_siteid` |
| `touch` | `TouchSite` | `update site set lasttimestamp` (the trigger returns `OLD`: only the lock is left of it) |
| `bump` | `Bump` | `update objtimestamp` |
| `commit` | `Commit` | the end of the call, with `1`, or with `-1` and nothing done |

`removed` and `lost` are history variables: the sites that have been removed, and for
each call the devices whose row another call deleted while it ran.

*Abstracted.*  The columns of a site other than its name and parent; they matter only in
that an update with the same name may or may not change something (`LockSite`).  The
customised attributes of a site, which nobody refers to.  The removal of
devices, which would only add another cascade into `devicesitedevice`.  The removed
site's row in `site2site` is not locked apart from `verLock`, which the same statement
takes.  The lookup of the parent in `device_site_set2` and the snapshot of its update are one step:
a parent never changes, and a site that is removed between the two has no devices left to move.
The unique name of a site is that of the schema as `nbwsp.sql` creates it: a later
upgrade (`nbwsp511.sql`) drops the constraint `site_uniq_name`, and 500 and 512 replace some of
the functions; that variant is not modelled.

### 4.3 SiteTree, and how Sites implements it

`SiteTree` has the tables of `Sites` and, for each session, its `request`.  A call is two
steps: `Ask` records it, and `Fail` or `Commit` ends it.  Only `Commit` changes tables, in one
step:

| action | what a call may do at its commit |
|---|---|
| `Create` | add a site under a known parent, and place devices it was given |
| `Modify` | rename a site that exists, which keeps its parent |
| `Refill` | rename it or not; move devices that are in it to its parent; place devices it was given |
| `Fill` | the same without renaming (`device_site_set2` by itself, which does not lock the site); if the site was removed after the call had found it, only the version moves |
| `Nothing` | leave everything, as after `-1` or an update without changes |
| `Set`, `Move` | place the device; move devices that are in the first site to the second |
| `Remove` | remove the site with the places of exactly the devices in it |

Everything but `Nothing` moves the version.  "In it" is said of the tables at that step.
`Create`, `Refill`, `Fill`, `Set` and `Move` leave open which of the devices are moved: a device may have
come or gone while the call ran (`PlacedUnlessLost` says when one that was given may be missing).

`Sites` is mapped to it by its own tables and by `Request(w)`: nothing while `pc[w]` is `idle`, and
then the function and its arguments, with site `0` as long as the id is not one that anybody else
knows.  That is `Tree == INSTANCE SiteTree WITH ...`, and `ActsAtomically` is `Tree!Spec`.

### 4.4 SiteWalk

One call of `retrieve_all_devices_by_siteids` while other sessions commit changes.  `parent` and
`place` are the committed tables, in any state that calls on sites can leave; that they
leave only such trees, parents older than their sites, is `ParentsAreOlder` of `Sites`.  `ids`, `idps`,
`f1`, `idv` and `idt` are the function's own variables, `returned` counts how often a
device has been returned.

| action | code |
|---|---|
| `Start` | the call, `idps := ids` |
| `Climb` | one lookup of `parentid`; a site below another of the list, or cut off, is dropped |
| `Fetch` | `retrieve_all_devices_by_siteid` of the next site: all devices for site 1, or those in the site |
| `FetchLevel`, `NextLevel` | the devices in the sites one level below, and then, in a second query, those sites |
| `Finish` | the loop over `idps` ends |
| `CreateSite`, `RemoveSite`, `MoveDevice` | what commits of the calls of 4.2 change |

### 4.5 DeviceGroups

`grp` is `devicegroup` with a name and an owner (user and license), `member` is
`devicegroupdevice`, `stamp` has the row `'PublicDeviceGroup'` of `objtimestamp` and the rows of
`objprivatetimestamp`, `0` for one that is not there yet.  `due` holds the stamps that the
trigger that runs has still to put.

| `pc` | actions | code |
|---|---|---|
| `idle` | `Upsert`, `Update`, `Delete`, `AddMembers`, `DeleteMembers` | beginning of the functions, and statements of applications |
| `insert` | `Insert` | `nextval`; `devicegroup_upsert` inserts |
| `lock` | `LockGroup` | `UPDATE` or `DELETE` takes the row before the trigger |
| `name` | `CheckName`, `NameExists` | the trigger looks for the name in lower case |
| `look` | `LookForStamp` | `select id into tid from objprivatetimestamp` |
| `put` | `PutStamp`, `StampIsThere` | the stamp is updated, or inserted into a unique key |
| `group` | `WriteGroup`, `NotUnique`, `DeleteGroup` | the row and its index entry; the row goes and the cascade starts |
| `rows`, `row` | `RowsDone`, `NextRow`, `LockRow` | the loop over devices, or the rows of a `DELETE` |
| `user`, `lic` | `ReadUser`, `ReadLicence`, `NoOwner` | the trigger of the member reads the owner, in two statements |
| `member` | `InsertRow`, `RowIsThere`, `DeleteRow` | the row of the member |
| `fk` | `ForeignKey`, `GroupGone` | `devicegroupdevice_devicegroupid` |
| `commit` | `Commit` | the end of the call |

`known`, `raced`, `since` and `moved` are history variables: committed groups, pairs of groups one of
which was committed after the other's name check, and calls during which their group got
another owner.

Link groups have the same tables, functions and triggers, except that their trigger compares
only the users of two owners: `ComparesLicence` is `FALSE`.

*Abstracted.*  Static and dynamic members are alike, and only one kind is here.  The answer of
`devicegroup_upsert`, which is `lastval()` and so the id of the stamp that the trigger may just have inserted.  Columns of a group other than name and owner.  The column `licguid` may be null
(`nbwsp.sql:312`, `4068`), and a null is equal to nothing in the trigger's comparison (1729), so that
only the index defends the names of such groups; the functions are called with a license, or `'-1'`
for a public group, and an owner here is such a value.

### 4.6 Priorities

`pri` is the column `ipri` of one list; `stamp` is the version `'NetworkSetting'`.

| `pc` | actions | code |
|---|---|---|
| `idle` | `ChangePri`, `Insert`, `Delete` | the function with its first `select`; the trigger's `nextval`; an application's `DELETE` |
| `read2` | `ReadSecond` | `select ipri into ipri2` |
| `lock1`, `lock2` | `LockRow` | the row of the update, if it is still there |
| `write1`, `write2` | `WriteRow` | the trigger's version and the row |
| `commit` | `Commit` | the end of the call |

`stale` has the exchanges for which a row they had read was exchanged since; `crossed` the rows
written by an exchange that was stale, or one of whose rows was deleted, when it committed.

### 4.7 Migration

A `plan` says of each script how many statements it has, which of them records the version and whether
by `INSERT` or `UPDATE`, and of the driver whether it reads the version before each script
(`rereads`) and where it jumps to (`jumpTo`).  `MCMigration` has the two plans of the source, shortened:
the workspace database and the license database.  `times` counts how often each statement has
taken effect, `version` is `system_info`; `pc`, `cur`, `at`, `dbver` and `old` are the driver with its
`psql`.

| action | code |
|---|---|
| `Start` | `Findpgdb.sql`: create the database or upgrade it |
| `ReadVersion`, `ReadFails` | `GetDBVersion`, or `findtable.sql` and `getver.sql` |
| `RunScript`, `SkipScript`, `Finish` | `if %dbver% LSS n (` |
| `Quit` | the comparison of an empty `%dbver%` |
| `Jump`, `NoLicence` | `goto spUpdate`; no `CLIC.xml` |
| `Execute`, `StatementFails`, `ScriptEnds` | `psql < script` |
| `PsqlBreaks`, `Crash` | `psql` is cut off; the machine or the installation is stopped |

`missed`, `left`, `jumped`, `unread` and `clean` are history: statements that failed, scripts cut off and not
run again, scripts jumped over, a reading that failed in this run, and nothing wrong in it.

*Abstracted.*  What a statement does; a statement is in effect when it has been executed without
error.  Helpers of a script (`step1` to `step5`, `uuid-ossp.sql`) are statements of it.  The data scripts that
every run reloads at the end, and scripts that a driver names and the repository does not have.

### 4.8 LicenceUsers

`user` has the name and the type of authentication of each user, `role` the name of each role, `links`
the rows of `user2role` and `user2workspace`.  A call works through `list`, the roles and workspaces it
is to link the user `uid` to; `ByName` in it stands for the role that an import names.

| `pc` | actions | code |
|---|---|---|
| `idle` | `ImportUser`, `ImportRole`, `Link`, `DeleteUser` | the functions, with the lookup of the name |
| `insert` | `InsertUser`, `NotUnique` | `insert into "user"`, `user_name_uk` |
| `type` | `ReadType` | `select authentication_type into r_authtype` |
| `update` | `UpdateUser` | the update of the user |
| `unrole`, `unws` | `UnlinkRoles`, `UnlinkWorkspaces` | the deletions of links: of a local user that is imported, or a cascade |
| `look` | `LookForLink`, `NoSuchRole` | `if not exists` ..., the subquery for the role |
| `put` | `InsertLink`, `LinkIsThere`, `NoSuchRole` | the insert and its unique key |
| `fk` | `ForeignKeys`, `NoSuchKey` | the foreign keys of the link |
| `newrole` | `InsertRole` | the insert of `importrole`, which ends the call |
| `delete` | `LockUser`, `Protected` | the deletion takes the row; its trigger protects `admin` |
| `commit` | `Commit` | the end of the call |

History variables: `stale`, imports whose user another import has changed since they read its type;
`lost`, what others have unlinked from the user of a call while it ran; `raced` and `since`, pairs of
users or roles one of which was committed after the other's lookup.

*Abstracted.*  Columns of users other than the name and the type, and so passwords and the history of
logins; the functions of a role, which only `importrole` and `updaterole2function` touch; deletions
of roles; licenses.


## 5. Runs

All runs allow the system to stop (`CHECK_DEADLOCK FALSE`): the bounds on transactions
and calls are used up.  Waiting for ever is what the liveness properties look for.

| run | module, configuration | what it shows | bounds |
|---|---|---|---|
| `vc_incremental` | `MCVersionCache`, `VersionCacheIncremental.cfg` | `IInv`, `CopiesAsPromised`, `StaleOnlyIfOvertaken`, `DeadlocksNeedTwoRows` for an ordered view filtered on stamps, a row a page, with `SkipSame` | 2 writers, 1 client, 2 ids, 2 contents, 3 transactions of 2 statements of one or two rows |
| `vc_live` | `MCVersionCache`, `VersionCacheLive.cfg` | `TransactionsEnd`, `CopiesCatchUp` for a view read whole | 2 writers, 1 client, 2 ids |
| `sites_names` | `MCSites`, `SitesNames.cfg` | `ParentsAreOlder`, `SameNamesBounded` | 2 sessions, 3 names that differ in case, 4 calls, 5 ids |
| `sites_places` | `MCSites`, `SitesPlaces.cfg` | `IInv`, `PlacesExist`, `ChangesStamped`, `PlacedUnlessLost` | 2 sessions, 1 device, 4 calls, 5 ids |
| `sites_atomic` | `MCSites`, `SitesAtomic.cfg` | `CallInv`, `ActsAtomically`: `Sites` implements `SiteTree` | 2 sessions, 1 device, 3 names, 3 calls, 3 ids |
| `sites_live` | `MCSites`, `SitesLive.cfg` | `CallsEnd` | 2 sessions, 1 device, 2 names, 3 calls, 4 ids |
| `walk` | `SiteWalk`, `SiteWalk.cfg` | `ReturnsWhatItPromises`, `NotTwice`, `StayedAreReturned`, `WalksEnd` | any tree of 4 sites, 1 device, lists of up to 3 sites, 2 changes meanwhile |
| `groups_members` | `MCDeviceGroups`, `DeviceGroupsMembers.cfg` | `IInv`, `MembersHaveGroups`, `Told` | 2 sessions, 2 devices, 1 name, 2 groups, 1 user, 2 licenses, 4 calls |
| `link_groups` | `MCDeviceGroups`, `LinkGroups.cfg` | `VariantsOnlyByRace`, `CallsEnd` for link groups | 2 sessions, 1 device, 2 names that differ in case, 3 groups, 3 calls |
| `priorities` | `MCPriorities`, `Priorities.cfg` | `IInv`, `DistinctUnlessCrossed`, `ExchangesAtomically`, `ChangesStamped`, `CallsEnd` | 2 sessions, 3 rows, 4 priorities, 5 calls |
| `licence_users` | `MCLicenceUsers`, `LicenceUsers.cfg` | `IInv`, `LinksHaveUsers`, `ImportsAtomically`, `LinkedUnlessLost`, `DoublesOnlyByRace`, `CallsEnd` | 2 sessions, 3 names of which 2 differ in case, 1 workspace, 3 users, 2 roles, lists of 2, 3 calls |
| `migration` | `MCMigration`, `Migration.cfg` | `IInv`, `RecordedMeansDone`, `CleanRunUpgrades`, `NotRedone`, `UpgradedInTheEnd` | both drivers, 4 scripts, 3 mishaps, any number of runs |

### The bounds

A version moves backwards with two writers; a third transaction moves
it forward again, and a client may poll between any two of them.  Two rows are needed for
a deadlock inside the table, and two statements to take two locks.  With two ids and a row
a page the last page is empty, so that the second page is neither the first nor the last.

In `Sites` each hazard is a race of two
calls prepared by at most two earlier ones (make a site, place a device): four calls.
`sites_atomic` and `sites_live` make do with three: one to make a site, or to place a device in
site 1, and two that race; ids that run out in `sites_atomic` only block the call that wants
one, which the liveness run must avoid.  Deadlocks arise between sites and the version with one
device; a deadlock of two device rows, as two `device_site_set2` calls could make, is not reached.
Case variants need two free names and one for the third site.  Elsewhere ids suffice for one
insertion per call.

A walk of four sites has room for a site of the list below another one, two levels down, beside a
branch of its own; two changes can move a device out of the way of the walk and back, or remove a site and create
another.

In `DeviceGroups` a race is prepared by a call that makes the group and one that fills it; two
devices are needed for a cascade that has one member behind it and one before it, two licenses
for an owner who differs in the license only.  `LicenceUsers` starts with a user, so that three calls
prepare a race by one; a second role needs a call of its own.  In `Priorities` two exchanges that cross in a third row
need three rows, with three insertions before them.

In `Migration` four scripts are the creation, one that records at its beginning, one at its end, and one to
jump over; three mishaps are one in the creation, one in an upgrade, and one in the run
after it.

### What the properties say

* `StaleOnlyIfOvertaken`.  A client with an up-to-date version has the committed content
  of a row unless (a) the row's last transaction had begun no later than a version the
  client had already read, or (b) the version has been set back below the row's stamp
  by a transaction that began earlier and committed later, and no commit has raised it
  since.  Both cases are reachable: they are what the design costs.  A client cured of (a) has to
  reread from the beginning; (b) ends with the next change of the table.  Paged reading
  is covered for views ordered by `id` (`PagesInOrder`), in their definition or in the query of the function.
  One has neither: `linkgroupview` (`nbwsp.sql:11758`, read in pages at 11795).  PostgreSQL promises it
  nothing, and with pages in any order the property fails.
  For views read whole the theorem of section 6 covers it.
* `CopiesAsPromised`.  Users of a table need not think of its sessions and pages: it changes by whole
  transactions, and a copy that comes to a version has all that it can have been told.  A row
  that has been deleted is never written again, because a statement that waited for it looks again
  (`LockRow`), and ids are not handed out twice.  Every change moves the version to the time stamped
  on its rows, because the row of `objtimestamp` admits one transaction with changes of
  the table, whichever rows they are (`WritersSerialised`); it also bounds the throughput of the table.
* `DeadlocksNeedTwoRows`.  In every cycle of waiting transactions there is one that waits for a row while it
  has changed or locked another.  So transactions that come to one row each cannot deadlock among
  themselves.  Committing each statement is not enough: a `DELETE` of several rows (`nbwsp.sql:471`) holds its first
  row and the version when it waits for the next one, which an upsert may have locked that waits for the version.
* `TransactionsEnd`, `CopiesCatchUp`.  With the server's deadlock detection no
  transaction waits for ever, and a polling client has again and again a copy that is right
  but for the rows of (a) and (b).
* `ParentsAreOlder`.  A parent has a smaller id than its child, and is or was a site.  So the
  tree has no cycle and each walk ends.  It does not say that the parent exists: a site
  may be removed under its children, and `nparent` may be removed between the lookup
  and the insertion.
* `SameNamesBounded`.  The name check is done before the version row serialises the
  writers; sites whose names differ in case only can arise, at most one for each session
  that runs at the time.
* `PlacesExist`.  No device is left in a removed site, although `devicesitedevice` is
  changed by calls that looked for the site earlier, and cascades run beside them.
* `ChangesStamped` (`Sites`).  A commit that changes a site or a placing moves the version:
  `devicesitedevice` has no trigger, each function has to do it.
* `PlacedUnlessLost`.  After a committed placing the devices are in the site, except those
  whose row was removed with another site between the count and the update.
  `device_site_set` answers `1` for such a device too.
* `ActsAtomically`.  A call runs as up to a dozen statements, each of which sees what other
  sessions have committed by then.  Whatever they do in between, its commit is one step of
  `SiteTree` to the tables as they are then: a removal takes the places of all devices in the
  site and of no others, a move only takes devices that still are in the first site, a site
  that is refilled gives its devices to the parent it has, and a failure leaves no trace.  `device_site_set2` looks its site up without locking it, when it is
  called by itself; if the site goes meanwhile, the call moves the version and nothing else.  It
  depends on the row being looked at again after a wait (`Hit`), on the locks that are held to
  the end, and on foreign keys.
* `CallInv`.  Why that is so, for the calls that are on their way: the invariant of the proof.
* `ReturnsWhatItPromises`.  Without changes meanwhile, the climb that shortens the list while it
  walks over it, and the walk down, return the devices below the list, each once.  A site that is cut off from
  the root counts for nothing, even if it is in the list itself.
* `NotTwice`, `StayedAreReturned`.  Under changes a device that nobody moves is never
  returned twice, and a device that stays, under sites that stay, is always returned.
* `MembersHaveGroups`.  A member's trigger looks at the group two statements before the insertion,
  the foreign key after it; the cascade of a deletion reads the members once.  Still no member is left
  without a group.
* `Told`.  A commit after which the clients of a stamp would see something else puts that stamp.  The
  exceptions are what the triggers do not do: a group given from one private owner to another
  (`GivenAway`) stamps the new owner only, and a call on members during which the group got another owner
  stamps the one it had read.
* `VariantsOnlyByRace`, `DoublesOnlyByRace`.  Names that differ in case only, and roles with one name, arise
  only from calls one of which committed after the other had looked; a call that runs alone
  never makes them, whatever others have left behind.
* `DistinctUnlessCrossed`.  Priorities stay distinct until an exchange commits one of whose rows
  another call has exchanged or deleted since it was read.  Then they may not, and stay so.
* `ExchangesAtomically`.  An exchange that was not overtaken does what one statement would.  An exchange of a row
  that is deleted meanwhile changes the other one only.
* `LinksHaveUsers`.  Links are of users that exist and to roles that exist, although the user of a list is
  looked at only by the foreign key of each link.
* `ImportsAtomically`.  An import that commits leaves the user with the type of the import and, if it is new or
  was local, with exactly the role and the workspace of the import, else with what it had and the role;
  other users keep their links.  The exception is an import that read the type before another import of the
  user committed: it may take the links of a user that is local no longer.
* `LinkedUnlessLost`.  A list of roles or workspaces is linked when the call commits, links found and passed
  over included, but for what another call has unlinked meanwhile.
* `RecordedMeansDone`.  Each statement of each script up to the recorded version has taken effect, failed, belongs to
  a script that was cut off after it had recorded itself (or as the creation, which is not repeated),
  or to one that was jumped over.  All four happen; there is no other way to lose one, however often the
  installation is interrupted.
* `CleanRunUpgrades`.  A run without mishap ends with the last version, whatever earlier runs have left behind,
  unless the database was created without its row in `system_info`.
* `NotRedone`.  No script is run whose version is recorded, unless the version could not be read.
* `UpgradedInTheEnd`.  If installations are tried again, the last version is recorded in the end, with the same
  exception.
* `CallsEnd`.  `site_remove` locks the version before the site and the other functions
  after it; two `device_site_set` for one site hold it by shared locks and both want it
  for update; members take the stamp before the group, and changes of groups the group first; exchanges take
  rows in the order of their arguments; an import takes the user before its links and a list of links the
  link before the user.  Every cycle is found by the server and one of the calls fails.

### Fairness

`vc_live` assumes weak fairness of a session's next statement, of its commit,
of deadlock detection and of polling; the other liveness runs on calls (`sites_live`, `link_groups`,
`priorities`, `licence_users`) of a session's statements and of deadlock
detection.  A statement that can run is run by the server; a function called from an
application is carried through to its end; the server checks every wait for a deadlock
after `deadlock_timeout`; the applications poll on a timer.  In `vc_live` a session is
assumed to commit in the end once it has stopped issuing statements: a session that stays
idle in its transaction for ever blocks the table, and no property could hold.  Nobody
has to begin a transaction or a call, to abort one or to restart.  Strong fairness is not needed:
the bound on transactions and calls leaves finitely many overtakings of a waiting statement.

`walk` assumes that the call goes on, and of the others nothing.  `migration` assumes that a driver that was
started goes on, as long as nobody stops it, and that somebody starts it again: `UpgradedInTheEnd` is what
trying again is worth.

### Mutants

Beside a definition stands a faulty form of it, marked `MUTANT`, for each
property: a forgotten stamp or version, a dropped lookup of the parent or of the name, a
missing cascade or foreign key, an update left out, `LIMIT` without `ORDER BY`, a
trigger that waits for its own session, an insert repeated for ever, an update that does not
look again at the row it has waited for, a loop that ends early, a driver that compares with `LEQ`.  With the faulty
form in place TLC finds the property violated in its run.


## 6. Proofs

The proof modules have the same layout: lemmas on the parts of the inductive
invariant `IInv` that every action needs, lemmas by action or group of actions that each part is
kept, the theorem `Invariance` (`Spec => []IInv`), and the properties from it.  None of the properties
proved is inductive as it stands: each speaks of the committed state, and what a call will
commit is known only from its draft and its locks.  TLC checks the invariants too: `IInv` in
`vc_incremental`, `sites_places`, `groups_members`, `migration`, `priorities` and `licence_users`, `CallInv`
in `sites_atomic`; `IInv` of `SiteWalkProofs` holds on the instance of `walk` too (module `SiteWalkProofs` with the
constants of `SiteWalk.cfg`).

`VersionCacheProofs` assumes `NoValAssumption`, `NoWriterAssumption`, `BoundsAssumption` and
`ViewAssumption`: the markers are no contents or writers, the bounds are natural numbers, the
three switches are Boolean.  Nothing is assumed of the numbers of writers, clients, rows,
contents, transactions or of the page size.

* `Serialised` (`WritersSerialised`, which only the proof states): from `ChangersHoldVersion`, the transactions
  that have changed a row are those that hold the version row.
* `CopiesKeepTheirPromise` (`CopiesAsPromised`): initial states are initial states of `CopiedTable`; a commit is
  `Change` of the rows it has touched (`CommitRefines`), a page is `Answer` (`FetchRefines`), and so is the end
  of a poll that is told there is nothing new (`CheckFailsRefines`).  That a commit writes no deleted row is
  `RowsHaveOneWriter`: a row is written by one transaction at a time, which has locked it and
  seen it there after that, or has inserted it under an id that was in no use (`NewIdsUnused`).  Loss of rows
  needs a version set back since the poll began (`PollsMoveForward`, `VersionsBounded`), and the copy at the
  end of a poll is right by `CopiesExplained`.
* `StaleExplained` (`StaleOnlyIfOvertaken`): from `CopiesExplained`.  During a poll the copy
  answers for two versions, `seen` up to `ibegin` and `dt` beyond it; each row of the copy is
  right, or missed, or stamped after the version that answers for it.  The first case
  is lost only by a commit, which then either stamps the row later than what the client
  knows or puts it into `missed`.  A poll needs `PagesInOrder`: the rows below the last
  id of a page that are not in it do not match the view.  `VersionsBounded` turns
  "stamped later" into `SetBack` once the client is told there is nothing new.
* `DeadlockNeedsTwoRows` (`DeadlocksNeedTwoRows`): who holds the version has changed a row
  (`ChangersHoldVersion`), which nobody else has locked (`RowsHaveOneWriter`); so if somebody in the cycle waits
  for it, its holder waits for a row other than that one.  If all in the cycle wait for rows, the row that
  is wanted of a transaction is not the row it wants.
* `TypeCorrect`, `Invariance`.

`SitesProofs` assumes `NamesAssumption` and `MarkersAssumption`: `lower()` is a function on the
names, the name of the root is one of them, and the markers differ from the values they are
not.  Sessions, devices, names, ids and calls are arbitrary.

* `TreeOrdered` (`ParentsAreOlder`): a parent is looked up before the id of its child is
  drawn from the sequence, and an id at or above `nextid` is neither a site, nor was one, nor is
  locked (`IdsBounded`); the parent in a draft is older than the site (`WritesLocked`).
  A removal adds to `removed`, so a parent stays *known*.
* `PlacesSound` (`PlacesExist`): a device in a draft is in a site held by the shared lock of
  the call, or is still to be checked, or has not moved (`PlacesHeld`); a site that is held
  exists and nobody else changes it (`SharedHold`); a removal has all rows of its site either
  in its draft or still to visit (`CascadesFinish`).  The removal's exclusive lock
  and the shared lock exclude each other, so at its commit no other call has a
  checked row in its site, and a row placed earlier is seen by the cascade.
* `EveryChangeStamped` (`ChangesStamped`): whoever has changed a site, or commits a change of a
  placing, holds the version (`VersionHeld`).
* `PlacedAsAsked` (`PlacedUnlessLost`): of every device of a call, as long as it runs, either the draft has it in
  the site, or its row has been lost, or the loop has still to come to it; a call that gives up earlier has
  written nothing (`PlacedInv`).  A row that has been counted and is gone at the update has been deleted
  by another commit in between (`SeenOrLost`).
* `Invariance`.

`SiteTreeProofs` extends `SitesProofs`.  Only `NamesBounded` needs a further assumption, that the sessions
are finitely many and at least one (`SessionsAssumption`): the server admits a fixed number of them.

* `CallsSound` (`CallInv`): what a call that is on its way has drafted is what it was asked for.
  `SiteOfCall`: its site is one that others know, or one it creates and holds locked, so
  nobody else can change whether it is known.  `RefillSound`: `site_devices_addormodify` has locked the
  site it refills (`Refilling`), so its parent stays the one that was read; a `device_site_set2` by itself has
  not, but as long as the site is there its parent is the one that was read (`ParentRead`), because
  other sessions never change a parent (`ParentsStay`).  `SitesAsAsked`: the row of a site
  that is written has the name asked for and its old parent, and leaves no other site of that
  name.  `PlacesAsAsked`: a device's row that is written is where the call
  wants it, and came from where it says, because the row was looked at again under its lock.
  `VersionTaken`: only calls on one site that change nothing commit without the version.
  Of other sessions `OthersSound` says that a step cannot disturb this: what a call has drafted
  it has locked, and whoever writes a site holds the version, so that no other site is
  written until it commits (`SitesStayWhileDrafted`).
* `CallsAreAtomic` (`ActsAtomically`): initial states are initial states of `SiteTree`; a new call
  is `Ask` (`AskRefines`), an error, a deadlock or a broken session is `Fail` (`FailRefines`), a
  commit is `Commit`, by one lemma per function (`AddOrModifyRefines`, `RefillRefines`,
  `FillRefines`, `SetRefines`, `MoveRefines`, `RemoveRefines`, and `NothingRefines` for all of them), and every
  other statement changes neither the tables nor any request (`StatementRequest`,
  `OthersRequest`).

* `NamesBounded` (`SameNamesBounded`): a call that has passed the check of its name claims the name until it ends
  (`Claims`).  The sites that have or claim a name like n (`Named`) become more by a passed check only
  (`OwnClaims`, `CommittedNames`), and then no site but the caller's has the name (`CheckPassed`), so that all of
  them are sites of calls on their way, at most one of each session (`NotManyOfSessions`).

`SiteWalkProofs` assumes `BoundsAssumption`: there are sites to come, and the bounds on lists and changes are
natural numbers.  The devices are arbitrary, the first tree is any tree of any size.

* `Path` is recursive.  That it has the value of its body (`PathExists`), that it has only older sites
  (`PathOlder`), that a path goes on with the paths of the sites on it, and that the paths of
  two trees agree where their parents agree are inductions over the ids of sites; each one looks at the
  oldest site for which the claim fails (`Oldest`), which exists because a set of natural numbers has a least
  element.
* `ReturnedOnce` (`NotTwice`): when the climbs have come past a site of the list, no other site of the list is
  above it (`Climbing`, `KeptClean`), and no site of the level the walk has come to is above another one of
  the level or of the list (`Level`).  So the places below what is still to come are places
  below which nothing has been returned (`ReturnedOver`).  Sites created meanwhile are younger than those above
  them, and a site is never put elsewhere, so a path only ever loses its older part, when a site on it is removed.
* `StayedReturned` (`StayedAreReturned`): a device that stays below sites that stay is below a site of the list that
  is still to be fetched, or below the level, until it is returned (`PromisedToCome`).
* `ReturnsPromised` (`ReturnsWhatItPromises`): from both, and from `Undisturbed`, that as long as nothing changes
  the walk does not leave what is below the list.
* `WalkTerminates`: the triple `Distance` (stage, sites of the list that are left, and the steps the climb or the walk
  can still take) is lowered by every step of the call and kept by all others, because a level has only
  younger sites than the one above it.  That is the argument for `WalksEnd` but for the fairness.
* `TypeCorrect`, `Invariance`.

`DeviceGroupsProofs` assumes `NamesAssumption` and `MarkersAssumption`, with the same meaning, and holds for
device groups and link groups.

* `NoOrphans` (`MembersHaveGroups`): a deletion has its group to itself and the foreign key of a member
  shares it (`GroupsLocked`, `ReferencedStay`), so they exclude each other until the commit.  A row that is added
  refers to its group when its call commits (`AddedRefer`), and a deletion has every member in its draft or
  still to visit (`CascadeComplete`): a member that is committed after the cascade has looked would have had to
  share the group meanwhile.
* `VariantsAreRaces` (`VariantsOnlyByRace`): when a call is past the name check, every group of the owner and the
  name, but for case, that is committed has been committed since the check, and the history knows (`NamesChecked`).
* `ClientsAreTold` (`Told`): of what a call has drafted follows which stamps it has to hold at its commit
  (`StampsPut`): for a group those of its owners (`GroupStamped`), for a member that of the owner the trigger
  read (`RowStamped`), which is still the owner unless the group has changed hands (`moved`).  What
  shows under a stamp that a call does not hold is the same before and after its commit (`UnheldUnseen`).
* `Invariance`.

`PrioritiesProofs` assumes `ConstantsAssumption`: the markers are no rows or sessions.

* `EveryChangeStamped` (`ChangesStamped`): who has written a row has the version (`OneWriter`).
* `DistinctPriorities` (`DistinctUnlessCrossed`) and `ExchangesAreAtomic` (`ExchangesAtomically`): the version also
  means that one session writes at a time.  The sequence is ahead of every priority in use, read or drafted
  (`SequenceAhead`), so a new row has a number of its own (`InsertsApart`).  An exchange that is not
  stale still knows the priorities of its rows (`ReadingsHold`), and has written as far as it has come
  (`InOrder`).
* `Invariance`.

`MigrationProofs` assumes `PlansAssumption`, that there is a script and every script has a statement, and
`RecordingAssumption`, that the row of system_info is made by script 1, or by script 2 if the driver does not
jump over scripts, and that the last script records itself; both hold of the two drivers in the code.  Otherwise the
scripts, the places where they record, the jump and the bound on mishaps are arbitrary.

* `RecordedScriptsDone` (`RecordedMeansDone`): what is in effect, or excused, stays so (`InEffectStays`).  The driver
  comes to a script when those before it are done (`InOrder` of `Migration`), psql has done what is before
  its statement (`RunAsFar`), a database that is there has been created to the end (`CreatedToTheEnd`),
  and the version the driver goes by is never above the recorded one (`VersionKnown`), so that it passes over
  recorded scripts only.
* `RecordedNotRedone` (`NotRedone`): after a reading that succeeded, both are equal or below the script.
* `CleanRunsUpgrade` (`CleanRunUpgrades`): once script 1 has come as far as the insert, the row is there or its
  statement has been missed (`RowMade`); if script 2 makes the row, a clean run that finds none runs that script
  and makes it (`RowMadeLater`).  A clean run that has come past the last script has recorded it or found it
  recorded (`LastRecorded`).
* `Invariance`.

`LicenceUsersProofs` assumes `NamesAssumption` and `MarkersAssumption`: `lower()` is any function on the names,
imports are what their type says, the bounds are numbers, and the markers are no rows, names or
targets.

* `LinksSound` (`LinksHaveUsers`): who writes a user has it to itself (`UsersLocked`), and whoever adds a link
  has shared its user since the foreign key looked (`AddedRefer`, `ReferencedStay`), so that the deletion of a
  user and a new link to it exclude each other.  A deletion takes away every link before it commits
  (`DeletionsUnlink`), and links are taken away by those only who have written their user
  (`TakenLocked`), so that no link reappears meanwhile.
* `ImportsAreAtomic` (`ImportsAtomically`): `ImportsSound` says what an import has linked from how far it has
  come: what it found and left (`Remaining`), and the part of its list behind it (`Reached`), with one of
  the roles that the name stands for.  It needs `LinksHaveUsers`, since an import of a user that does not exist
  any more must find nothing linked and fail at its foreign key; and `NewIds`, since a user that is
  being created cannot be one that another import has found.  Of other sessions: as long as an import has
  not written its user, others may change it, which makes the import stale or leaves no user
  (`ChangedIsStale`, `NobodyCreates`); afterwards neither the user nor its links change (`WrittenFixed`).
* `DoublesAreRaces` (`DoublesOnlyByRace`): of every user and role of the name that a call is about to insert, and did
  not find, `since` remembers that it was committed after the lookup (`LookupsRemembered`), because users keep
  their names (`NamesStay`).
* `ListsAreLinked` (`LinkedUnlessLost`): what a call has gone through of its list is linked, in what it sees, or in
  `lost` (`AllLinksMade`).
* `Invariance`.


## 7. Model-checked only, and not modelled

*Model-checked only.*  The liveness properties (`TransactionsEnd`, `CopiesCatchUp`, `WalksEnd`, `UpgradedInTheEnd` and the
four `CallsEnd`): liveness under fairness is beyond the prover.  Every other property of the runs is a theorem.

*Not modelled.*

* The component 1.4, planned as `UpsertRace`: its functions are of one shape.
* The scripts of 1.8, planned; they keep their state in services and files of Windows.
* Views that join several tables; answers of the functions to their callers (`-1`, `-2`, ids), except where
  they decide what the caller does next.
* The site managers that upgrades 503 to 512 bring, the rearrangement of devices of inner sites in upgrade 503,
  the driver `UpdateOldDB.bat` for databases of old releases, and the data scripts.  Scripts
  513 and 514 are named by both drivers and not in the repository.
* Serializable transactions, which the applications could choose but the source does not ask for; loss of
  the whole server, after which PostgreSQL has the committed state that each module
  starts its transactions from (a lost session is `Abort`).
* The C headers of PostgreSQL 8.4 under `src/Postgresql 8.4/include`, which are nearly all of the repository's
  lines in a compiled language: they declare the server's interface and are not used by the program's
  own logic, which is SQL and batch files.  The map has only the lines of the latter.

*Hazards without a property* are listed in `PROJECT.json` with the reason.
