---------------------------- MODULE VersionCache ----------------------------
(***************************************************************************)
(* The cache-version protocol of the workspace database (nbwsp.sql).       *)
(*                                                                         *)
(* A versioned table (device_property, device_customized_info,             *)
(* bgpneighbor, ...) has one row in objtimestamp whose modifytime is the   *)
(* version of the table.  Every row-level BEFORE trigger process_*_dt      *)
(* stores now() in that modifytime and in the lasttimestamp of the row it  *)
(* fires for.  Clients keep a copy of the table and the version dt of the  *)
(* copy; they ask valid_version_time(dt) whether the table has moved on,   *)
(* and reread it, in pages, through view_*_retrieve(ibegin, imax, dt).     *)
(*                                                                         *)
(* Transactions run under READ COMMITTED.  now() is the time at which the  *)
(* transaction BEGAN, while its changes appear when it COMMITS: two        *)
(* transactions may commit in the other order than they began, and the     *)
(* version of the table then moves backwards.  The module keeps that gap,  *)
(* the row locks, and the two separate reads a retrieval function makes.   *)
(***************************************************************************)
EXTENDS Integers, FiniteSets

CONSTANTS
    Writers,       \* database sessions that change the table
    Clients,       \* applications that keep a copy of it
    Vals,          \* contents a row can have
    NoVal,         \* "no such row", in the table and in a copy
    NoWriter,      \* owner of a free lock
    MaxId,         \* bound: ids the sequence of the table hands out
    MaxTxns,       \* bound: transactions begun
    MaxStmts,      \* bound: statements of one transaction
    MaxPage,       \* imax; 0 stands for a negative imax, "no limit"
    Incremental,   \* the view filters on lasttimestamp > dt
    Ordered,       \* the view has ORDER BY id
    SkipSame       \* the trigger returns OLD when no column changes

ASSUME NoValAssumption == NoVal \notin Vals
ASSUME NoWriterAssumption == NoWriter \notin Writers
ASSUME BoundsAssumption == /\ MaxId \in Nat
                           /\ MaxTxns \in Nat
                           /\ MaxStmts \in Nat
                           /\ MaxPage \in Nat
ASSUME ViewAssumption == /\ Incremental \in BOOLEAN
                         /\ Ordered \in BOOLEAN
                         /\ SkipSame \in BOOLEAN

Ids == 1 .. MaxId
Content == Vals \union {NoVal}

VARIABLES
    \* the committed database
    content,        \* [Ids -> Content]
    lasttimestamp,  \* [Ids -> Nat]; of a deleted row, when it was deleted
    modifytime,     \* objtimestamp.modifytime of the table
    highest,        \* history: the highest modifytime there has been
    nextid,         \* the id sequence: not transactional
    clock,          \* wall clock, read by now() at the start of a transaction
    begun,          \* number of transactions begun
    \* writing transactions
    wpc,            \* "idle", "running", "lockrow" or "trigger"
    start,          \* now() in the transaction
    stmts,          \* statements issued
    stmt,           \* the statement under way: the row it is at, and its new content
    rest,           \* rows the statement has still to come to
    touched,        \* rows the transaction has changed
    draft,          \* their uncommitted contents
    rowLock,        \* [Ids -> Writers \union {NoWriter}]
    verLock,        \* owner of the lock on the objtimestamp row
    \* clients
    cpc,            \* "idle", "check" or "fetch"
    dt,             \* version of the copy
    seen,           \* version read at the start of the poll under way
    ibegin,         \* rows up to this id have been asked for
    cache,          \* [Clients -> [Ids -> Content]]
    missed          \* history: rows whose last change a client was not told

dbVars     == <<content, lasttimestamp, modifytime, highest>>
seqVars    == <<nextid, clock, begun>>
txnVars    == <<wpc, start, stmts, stmt, rest, touched, draft>>
lockVars   == <<rowLock, verLock>>
clientVars == <<cpc, dt, seen, ibegin, cache>>
vars == <<dbVars, seqVars, txnVars, lockVars, clientVars, missed>>

Statement == [row : Ids, val : Content]
NoStmt == [row |-> 1, val |-> NoVal]

TypeOK ==
    /\ content \in [Ids -> Content]
    /\ lasttimestamp \in [Ids -> Nat]
    /\ modifytime \in Nat
    /\ highest \in Nat
    /\ nextid \in Nat \ {0}
    /\ clock \in Nat \ {0}
    /\ begun \in Nat
    /\ wpc \in [Writers -> {"idle", "running", "lockrow", "trigger"}]
    /\ start \in [Writers -> Nat]
    /\ stmts \in [Writers -> Nat]
    /\ stmt \in [Writers -> [row : Int, val : Content]]
    /\ \A w \in Writers : wpc[w] \in {"lockrow", "trigger"} => stmt[w] \in Statement
    /\ rest \in [Writers -> SUBSET Ids]
    /\ touched \in [Writers -> SUBSET Ids]
    /\ draft \in [Writers -> [Ids -> Content]]
    /\ rowLock \in [Ids -> Writers \union {NoWriter}]
    /\ verLock \in Writers \union {NoWriter}
    /\ cpc \in [Clients -> {"idle", "check", "fetch"}]
    /\ dt \in [Clients -> Nat]
    /\ seen \in [Clients -> Nat]
    /\ ibegin \in [Clients -> 0 .. MaxId]
    /\ cache \in [Clients -> [Ids -> Content]]
    /\ missed \in [Clients -> SUBSET Ids]

Init ==
    /\ content = [r \in Ids |-> NoVal]
    /\ lasttimestamp = [r \in Ids |-> 0]
    /\ modifytime = 0
    /\ highest = 0
    /\ nextid = 1
    /\ clock = 1
    /\ begun = 0
    /\ wpc = [w \in Writers |-> "idle"]
    /\ start = [w \in Writers |-> 0]
    /\ stmts = [w \in Writers |-> 0]
    /\ stmt = [w \in Writers |-> NoStmt]
    /\ rest = [w \in Writers |-> {}]
    /\ touched = [w \in Writers |-> {}]
    /\ draft = [w \in Writers |-> [r \in Ids |-> NoVal]]
    /\ rowLock = [r \in Ids |-> NoWriter]
    /\ verLock = NoWriter
    /\ cpc = [c \in Clients |-> "idle"]
    /\ dt = [c \in Clients |-> 0]
    /\ seen = [c \in Clients |-> 0]
    /\ ibegin = [c \in Clients |-> 0]
    /\ cache = [c \in Clients |-> [r \in Ids |-> NoVal]]
    /\ missed = [c \in Clients |-> {}]

-----------------------------------------------------------------------------
(* Writers *)

\* The contents transaction w sees: its own changes over what is committed.
Current(w, r) == IF r \in touched[w] THEN draft[w][r] ELSE content[r]

\* Two transactions may read the same time: the clock need not move between.
Begin(w) ==
    /\ wpc[w] = "idle"
    /\ begun < MaxTxns
    /\ begun' = begun + 1
    /\ clock' \in {clock, clock + 1}
    /\ wpc' = [wpc EXCEPT ![w] = "running"]
    /\ start' = [start EXCEPT ![w] = clock']
    /\ UNCHANGED <<dbVars, nextid, stmts, stmt, rest, touched, draft, lockVars, clientVars, missed>>

\* MUTANT of Issue: the calling function bumps objtimestamp itself, first.
IssueAfterBump(w, r, v, more, pc) ==
    /\ wpc[w] = "running"
    /\ stmts[w] < MaxStmts
    /\ stmts' = [stmts EXCEPT ![w] = @ + 1]
    /\ stmt' = [stmt EXCEPT ![w] = [row |-> r, val |-> v]]
    /\ rest' = [rest EXCEPT ![w] = more]
    /\ wpc' = [wpc EXCEPT ![w] = pc]
    /\ verLock' = IF verLock = NoWriter THEN w ELSE verLock
    /\ UNCHANGED <<dbVars, clock, begun, start, touched, draft, rowLock, clientVars, missed>>

\* A statement that comes to row r first and would leave v in it, and then to
\* the rows more.
Issue(w, r, v, more, pc) ==
    /\ wpc[w] = "running"
    /\ stmts[w] < MaxStmts
    /\ stmts' = [stmts EXCEPT ![w] = @ + 1]
    /\ stmt' = [stmt EXCEPT ![w] = [row |-> r, val |-> v]]
    /\ rest' = [rest EXCEPT ![w] = more]
    /\ wpc' = [wpc EXCEPT ![w] = pc]
    /\ UNCHANGED <<dbVars, clock, begun, start, touched, draft, lockVars, clientVars, missed>>

\* nextval() is evaluated before the BEFORE INSERT trigger fires, and is not
\* undone by a rollback; nobody else sees the row, so there is nothing to lock.
Insert(w, v) ==
    /\ nextid <= MaxId
    /\ nextid' = nextid + 1
    /\ Issue(w, nextid, v, {}, "trigger")

Update(w, r, v) ==
    /\ Current(w, r) # NoVal
    /\ Issue(w, r, v, {}, "lockrow")
    /\ UNCHANGED nextid

\* One DELETE takes all the rows R its condition selects, in the order in which
\* the scan comes to them: the rows of one object in device_customized_info.
Delete(w, R) ==
    /\ \A r \in R : Current(w, r) # NoVal
    /\ \E r \in R : Issue(w, r, NoVal, R \ {r}, "lockrow")
    /\ UNCHANGED nextid

\* The statement is done with a row: it comes to the next one, or ends.
GoOn(w) ==
    \/ /\ rest[w] = {}
       /\ wpc' = [wpc EXCEPT ![w] = "running"]
       /\ UNCHANGED <<stmt, rest>>
    \/ \E r \in rest[w] :
          /\ wpc' = [wpc EXCEPT ![w] = "lockrow"]
          /\ stmt' = [stmt EXCEPT ![w].row = r]
          /\ rest' = [rest EXCEPT ![w] = @ \ {r}]

\* MUTANT of LockRow: a statement that had to wait goes on with the row it found.
LockRowFound(w) ==
    /\ wpc[w] = "lockrow"
    /\ rowLock[stmt[w].row] \in {NoWriter, w}
    /\ wpc' = [wpc EXCEPT ![w] = "trigger"]
    /\ rowLock' = [rowLock EXCEPT ![stmt[w].row] = w]
    /\ UNCHANGED <<dbVars, seqVars, start, stmts, stmt, rest, touched, draft, verLock,
                   clientVars, missed>>

\* The row is locked before its trigger fires.  A statement that had to wait
\* looks at the row again: if it has been deleted meanwhile it is passed over.
LockRow(w) ==
    LET r == stmt[w].row IN
    /\ wpc[w] = "lockrow"
    /\ rowLock[r] \in {NoWriter, w}
    /\ IF Current(w, r) = NoVal
       THEN GoOn(w) /\ UNCHANGED rowLock
       ELSE /\ wpc' = [wpc EXCEPT ![w] = "trigger"]
            /\ rowLock' = [rowLock EXCEPT ![r] = w]
            /\ UNCHANGED <<stmt, rest>>
    /\ UNCHANGED <<dbVars, seqVars, start, stmts, touched, draft, verLock, clientVars, missed>>

Unchanged(w) ==
    /\ SkipSame
    /\ stmt[w].val # NoVal
    /\ Current(w, stmt[w].row) = stmt[w].val

\* "return OLD": the row keeps its stamp and the version does not move.
SkipUnchanged(w) ==
    /\ wpc[w] = "trigger"
    /\ Unchanged(w)
    /\ GoOn(w)
    /\ UNCHANGED <<dbVars, seqVars, start, stmts, touched, draft, lockVars, clientVars, missed>>

\* MUTANT of VersionFree: the trigger updates objtimestamp over a connection of
\* its own, which waits for the session itself after its first change.
VersionUnused(w) == verLock = NoWriter

\* The update of the objtimestamp row waits for a transaction that holds it.
VersionFree(w) == verLock \in {NoWriter, w}

\* update objtimestamp set modifytime=now(); NEW.lasttimestamp=now().
FireTrigger(w) ==
    /\ wpc[w] = "trigger"
    /\ ~Unchanged(w)
    /\ VersionFree(w)
    /\ verLock' = w
    /\ touched' = [touched EXCEPT ![w] = @ \union {stmt[w].row}]
    /\ draft' = [draft EXCEPT ![w][stmt[w].row] = stmt[w].val]
    /\ GoOn(w)
    /\ UNCHANGED <<dbVars, seqVars, start, stmts, rowLock, clientVars, missed>>

Release(w) ==
    /\ wpc' = [wpc EXCEPT ![w] = "idle"]
    /\ touched' = [touched EXCEPT ![w] = {}]
    /\ rowLock' = [r \in Ids |-> IF rowLock[r] = w THEN NoWriter ELSE rowLock[r]]
    /\ verLock' = IF verLock = w THEN NoWriter ELSE verLock
    /\ start' = [start EXCEPT ![w] = 0]
    /\ stmts' = [stmts EXCEPT ![w] = 0]
    /\ stmt' = [stmt EXCEPT ![w] = NoStmt]
    /\ rest' = [rest EXCEPT ![w] = {}]
    /\ draft' = [draft EXCEPT ![w] = [r \in Ids |-> NoVal]]

\* The version client c would compare the next change with.
Known(c) == IF cpc[c] = "idle" THEN dt[c] ELSE seen[c]

\* MUTANT of Stamp: the UPDATE branch forgets NEW.lasttimestamp.
StampOnlyNew(w, r) ==
    IF r \in touched[w] /\ content[r] = NoVal THEN start[w] ELSE lasttimestamp[r]

\* lasttimestamp of row r when w commits.
Stamp(w, r) == IF r \in touched[w] THEN start[w] ELSE lasttimestamp[r]

\* MUTANT of Version: the trigger forgets the objtimestamp row.
VersionKept(w) == modifytime

\* modifytime of the objtimestamp row when w commits.
Version(w) == IF verLock = w THEN start[w] ELSE modifytime

Commit(w) ==
    /\ wpc[w] = "running"
    /\ content' = [r \in Ids |-> Current(w, r)]
    /\ lasttimestamp' = [r \in Ids |-> Stamp(w, r)]
    /\ modifytime' = Version(w)
    /\ highest' = IF modifytime' > highest THEN modifytime' ELSE highest
    /\ missed' = [c \in Clients |-> IF start[w] <= Known(c)
                                    THEN missed[c] \union touched[w]
                                    ELSE missed[c] \ touched[w]]
    /\ Release(w)
    /\ UNCHANGED <<seqVars, clientVars>>

RollBack(w) ==
    /\ wpc[w] # "idle"
    /\ Release(w)
    /\ UNCHANGED <<dbVars, seqVars, clientVars, missed>>

\* w waits for a lock that v holds.
WaitsFor(w, v) ==
    /\ v # w
    /\ \/ wpc[w] = "lockrow" /\ rowLock[stmt[w].row] = v
       \/ wpc[w] = "trigger" /\ ~Unchanged(w) /\ verLock = v

\* Transactions that wait for each other: each waits for at most one other.
Cycle(S) == \A x \in S : /\ \E y \in S : WaitsFor(x, y)
                         /\ \E y \in S : WaitsFor(y, x)

Deadlocked(w) == \E S \in SUBSET Writers : w \in S /\ Cycle(S)

\* A failed statement, a cancelled call or a broken session.
Abort(w) == RollBack(w)

\* The server rolls back one transaction of a deadlock.
DeadlockVictim(w) == Deadlocked(w) /\ RollBack(w)

-----------------------------------------------------------------------------
(* Clients *)

\* valid_version_time(dt): the client reads the version and starts a poll when
\* it is newer than its copy.  It is the version it will know afterwards.
StartPoll(c) ==
    /\ cpc[c] = "idle"
    /\ modifytime > dt[c]
    /\ seen' = [seen EXCEPT ![c] = modifytime]
    /\ ibegin' = [ibegin EXCEPT ![c] = 0]
    /\ cpc' = [cpc EXCEPT ![c] = "check"]
    /\ UNCHANGED <<dbVars, seqVars, txnVars, lockVars, dt, cache, missed>>

\* The poll is over: the copy stands for the version read at its start.
EndPoll(c) ==
    /\ cpc' = [cpc EXCEPT ![c] = "idle"]
    /\ dt' = [dt EXCEPT ![c] = seen[c]]
    /\ seen' = [seen EXCEPT ![c] = 0]
    /\ ibegin' = [ibegin EXCEPT ![c] = 0]

Rest(c) == {r \in Ids : r > ibegin[c]}

\* First statement of a retrieval: its own read of the version.
Check(c) ==
    /\ cpc[c] = "check"
    /\ modifytime > dt[c]
    /\ cpc' = [cpc EXCEPT ![c] = "fetch"]
    /\ UNCHANGED <<dbVars, seqVars, txnVars, lockVars, dt, seen, ibegin, cache, missed>>

\* The version has gone back to dt or before since the poll began: the call
\* returns no row, and the client takes that for the end of the table.
CheckFails(c) ==
    /\ cpc[c] = "check"
    /\ modifytime <= dt[c]
    /\ EndPoll(c)
    /\ cache' = [cache EXCEPT ![c] = [r \in Ids |-> IF ~Incremental /\ r \in Rest(c)
                                                    THEN NoVal ELSE cache[c][r]]]
    /\ missed' = [missed EXCEPT ![c] = @ \union
                     {r \in Rest(c) : Incremental => lasttimestamp[r] > dt[c]}]
    /\ UNCHANGED <<dbVars, seqVars, txnVars, lockVars>>

\* Rows the second statement of a retrieval selects, before LIMIT.
Matching(c) == {r \in Rest(c) : /\ content[r] # NoVal
                                /\ Incremental => lasttimestamp[r] > dt[c]}

\* MUTANT of Pages: LIMIT without ORDER BY.
AnyPages(S) ==
    IF MaxPage = 0 \/ Cardinality(S) <= MaxPage
    THEN {S} ELSE {P \in SUBSET S : Cardinality(P) = MaxPage}

\* What LIMIT imax may leave of them.
Pages(S) ==
    IF MaxPage = 0 \/ Cardinality(S) <= MaxPage
    THEN {S}
    ELSE {P \in SUBSET S : /\ Cardinality(P) = MaxPage
                           /\ Ordered => \A p \in P, q \in S \ P : p < q}

\* The client stores page P, which stands for the ids ibegin+1 .. upto.
StorePage(c, P, upto) ==
    LET answered == {r \in Rest(c) : r <= upto} IN
    /\ cache' = [cache EXCEPT ![c] =
                    [r \in Ids |-> IF r \in P THEN content[r]
                                   ELSE IF ~Incremental /\ r \in answered THEN NoVal
                                   ELSE cache[c][r]]]
    /\ missed' = [missed EXCEPT ![c] = @ \ (IF Incremental THEN P ELSE answered)]

\* Second statement of a retrieval, with a snapshot of its own.  A full page
\* makes the client ask again from its last id, any other page ends the poll.
Fetch(c) ==
    /\ cpc[c] = "fetch"
    /\ \E P \in Pages(Matching(c)) :
          IF MaxPage = 0 \/ Cardinality(P) < MaxPage
          THEN EndPoll(c) /\ StorePage(c, P, MaxId)
          ELSE \E last \in P :
                  /\ \A p \in P : p <= last
                  /\ ibegin' = [ibegin EXCEPT ![c] = last]
                  /\ cpc' = [cpc EXCEPT ![c] = "check"]
                  /\ StorePage(c, P, last)
                  /\ UNCHANGED <<dt, seen>>
    /\ UNCHANGED <<dbVars, seqVars, txnVars, lockVars>>

\* The application is restarted and has no copy.
Restart(c) ==
    /\ cpc[c] = "idle"
    /\ dt[c] > 0
    /\ dt' = [dt EXCEPT ![c] = 0]
    /\ cache' = [cache EXCEPT ![c] = [r \in Ids |-> NoVal]]
    /\ missed' = [missed EXCEPT ![c] = {}]
    /\ UNCHANGED <<dbVars, seqVars, txnVars, lockVars, cpc, seen, ibegin>>

-----------------------------------------------------------------------------
WriterStep(w) ==
    \/ Begin(w)
    \/ \E v \in Vals : Insert(w, v)
    \/ \E r \in Ids, v \in Vals : Update(w, r, v)
    \/ \E R \in SUBSET Ids : Delete(w, R)
    \/ LockRow(w)
    \/ SkipUnchanged(w)
    \/ FireTrigger(w)
    \/ Commit(w)
    \/ Abort(w)
    \/ DeadlockVictim(w)

ClientStep(c) ==
    \/ StartPoll(c)
    \/ Check(c)
    \/ CheckFails(c)
    \/ Fetch(c)
    \/ Restart(c)

Next == (\E w \in Writers : WriterStep(w)) \/ (\E c \in Clients : ClientStep(c))

Spec == Init /\ [][Next]_vars

\* A session runs the statement it has issued and ends its transaction, the
\* server resolves deadlocks, and a client goes on polling; nobody has to begin
\* a transaction, to roll one back or to restart.
Fairness ==
    /\ \A w \in Writers : /\ WF_vars(LockRow(w))
                          /\ WF_vars(SkipUnchanged(w))
                          /\ WF_vars(FireTrigger(w))
                          /\ WF_vars(Commit(w))
                          /\ WF_vars(DeadlockVictim(w))
    /\ \A c \in Clients : /\ WF_vars(StartPoll(c))
                          /\ WF_vars(Check(c))
                          /\ WF_vars(CheckFails(c))
                          /\ WF_vars(Fetch(c))

FairSpec == Spec /\ Fairness

-----------------------------------------------------------------------------
(* Properties *)

\* The objtimestamp row serialises the writers of a table from the first
\* trigger of a transaction to its end: no two transactions have uncommitted
\* changes of the same table, whichever rows they change.
WritersSerialised ==
    \A v, w \in Writers : touched[v] # {} /\ touched[w] # {} => v = w

\* Paged reading goes by id, so it needs a view that is ordered by id.
PagesInOrder == Ordered \/ MaxPage = 0

\* The version once was at least the stamp of row r and has gone back below it:
\* a transaction that began earlier has committed later.
SetBack(r) == modifytime < lasttimestamp[r] /\ lasttimestamp[r] <= highest

\* Rows of which a view can tell the client the truth: a view filtered on
\* lasttimestamp says nothing of a deleted row.
Shown(r) == Incremental => content[r] # NoVal

\* A client that is told its copy is up to date (modifytime <= dt) has the
\* committed content of every row the view shows, but for two reasons: the
\* transaction that changed the row last had begun no later than a version the
\* client had already read (process_*_dt stamp with the time of the beginning,
\* view_*_retrieve compare with >), or the version has been set back below the
\* stamp of the row and no later commit has raised it again.
StaleOnlyIfOvertaken ==
    PagesInOrder => \A c \in Clients, r \in Ids :
        (/\ cpc[c] = "idle"
         /\ modifytime <= dt[c]
         /\ Shown(r)
         /\ cache[c][r] # content[r])
        => r \in missed[c] \/ SetBack(r)

\* A row is locked before the objtimestamp row, which is what every change of the
\* table shares, so that row alone lets no two changes deadlock: in every cycle
\* of waiting transactions one waits for a row while it has another, and
\* transactions that come to a single row each never wait for each other.
DeadlocksNeedTwoRows ==
    \A S \in SUBSET Writers : S # {} /\ Cycle(S) =>
        \E v \in S : /\ wpc[v] = "lockrow"
                     /\ \E r \in Ids \ {stmt[v].row} : r \in touched[v] \/ rowLock[r] = v

Copied == INSTANCE CopiedTable WITH
    InOrder <- PagesInOrder, table <- content, stamp <- lasttimestamp, version <- modifytime,
    copy <- cache, known <- dt, late <- missed

\* Transactions lock and change one row after another and end in any order, and
\* clients read page by page what is committed at each; yet the table changes by
\* whole transactions, none of which brings a deleted row back, whatever they
\* waited for, and a client that comes to a version has every row that it can
\* have been told of, and has lost none but after the version was set back.
CopiesAsPromised == Copied!Spec

\* Every transaction ends: a session is never left waiting for the row of
\* another transaction or for the objtimestamp row.
TransactionsEnd == \A w \in Writers : wpc[w] # "idle" ~> wpc[w] = "idle"

Fresh(c) == \A r \in Ids : Shown(r) =>
                \/ cache[c][r] = content[r]
                \/ r \in missed[c]
                \/ SetBack(r)

\* A client that goes on polling has, again and again, a copy that is right but
\* for the rows it cannot be told about.
CopiesCatchUp == \A c \in Clients : []<>Fresh(c)

-----------------------------------------------------------------------------
(* The inductive invariant behind the safety properties *)

\* No version, stamp or known version is above the highest version there was.
VersionsBounded ==
    /\ modifytime <= highest
    /\ \A r \in Ids : lasttimestamp[r] <= highest
    /\ \A c \in Clients : dt[c] <= highest /\ seen[c] <= highest

\* The transactions that have changed a row are those that hold the objtimestamp row.
ChangersHoldVersion == \A w \in Writers : touched[w] # {} <=> verLock = w

\* w has changed row r, or comes to its trigger.
Writing(w, r) == r \in touched[w] \/ (wpc[w] = "trigger" /\ stmt[w].row = r)

\* Ids that the sequence has not handed out have had no row.
NewIdsUnused ==
    \A r \in Ids : r >= nextid => lasttimestamp[r] = 0 /\ rowLock[r] = NoWriter

\* A row has one writer at a time, which has locked it or inserted it, so that
\* nobody else has it locked; and a row that is written is there or has never been.
RowsHaveOneWriter ==
    \A w \in Writers, r \in Ids : Writing(w, r) =>
        /\ r < nextid
        /\ content[r] # NoVal \/ lasttimestamp[r] = 0
        /\ content[r] # NoVal => rowLock[r] = w
        /\ rowLock[r] \in {NoWriter, w}
        /\ \A v \in Writers : Writing(v, r) => v = w

\* Transactions have a time of their own, and only they hold locks.
HoldersAtWork ==
    \A w \in Writers :
        /\ wpc[w] # "idle" => start[w] > 0
        /\ verLock = w => wpc[w] # "idle"
        /\ \A r \in Ids : rowLock[r] = w => wpc[w] # "idle"

\* A poll is for a version the client does not know yet.
PollsMoveForward == \A c \in Clients : cpc[c] # "idle" => seen[c] > dt[c]

LiveRowsStamped == \A r \in Ids : content[r] # NoVal => lasttimestamp[r] > 0

\* The version up to which the copy of c answers for row r.
Answered(c, r) == IF cpc[c] = "idle" \/ r > ibegin[c] THEN dt[c] ELSE seen[c]

Explained(c, r) ==
    \/ cache[c][r] = content[r]
    \/ r \in missed[c]
    \/ lasttimestamp[r] > Answered(c, r)

CopiesExplained ==
    PagesInOrder => \A c \in Clients, r \in Ids : Shown(r) => Explained(c, r)

\* Everything the safety properties follow from: checked by TLC as an invariant
\* and proved inductive in VersionCacheProofs.
IInv ==
    /\ TypeOK
    /\ VersionsBounded
    /\ ChangersHoldVersion
    /\ HoldersAtWork
    /\ PollsMoveForward
    /\ LiveRowsStamped
    /\ CopiesExplained
    /\ NewIdsUnused
    /\ RowsHaveOneWriter

=============================================================================
