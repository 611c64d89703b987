----------------------------- MODULE Priorities -----------------------------
(***************************************************************************)
(* The ordered credential lists of the workspace database (nbwsp.sql): the *)
(* rows of one table nomp_* or fixupnatinfo, each with a priority ipri.    *)
(* The insert trigger gives a new row the next number of a sequence, and   *)
(* changepri exchanges the priorities of two rows by two reads and two     *)
(* updates of one transaction.  No constraint keeps priorities different.  *)
(*                                                                         *)
(* An action is one SQL statement of a transaction under READ COMMITTED,   *)
(* or its first part, up to a point where it may wait: for the row, or for *)
(* the row 'NetworkSetting' of objtimestamp that its trigger updates.      *)
(***************************************************************************)
EXTENDS Integers, FiniteSets

CONSTANTS
    Sessions,    \* database sessions, each running one call at a time
    Ids,         \* ids of rows
    NoId,        \* argument of a call that has no second row
    NoSession,   \* holder of a free lock
    MaxPri,      \* bound: numbers the sequence hands out
    MaxCalls     \* bound: calls made

ASSUME ConstantsAssumption ==
    /\ NoId \notin Ids
    /\ NoSession \notin Sessions
    /\ MaxPri \in Nat
    /\ MaxCalls \in Nat

Gone == 0     \* priority of a row that does not exist
Kept == -1    \* in a draft: not written by the transaction

VARIABLES
    pri,      \* [Ids -> Nat]: the committed table
    stamp,    \* version 'NetworkSetting': commits that stamped it
    nextpri,  \* the sequence of ipri
    used,     \* ids that the sequence of the table has handed out
    calls,    \* number of calls made
    crossed,  \* history: rows written by an exchange overtaken in a row it had read
    stale,    \* history: sessions for which a row they have read was exchanged since
    op,       \* the call a session runs
    pc,       \* the statement it has come to
    id1, id2, \* its rows
    pri1, pri2, \* ipri1 and ipri2, as read
    draft,    \* [Sessions -> [Ids -> Nat \union {Kept}]]
    rowLock,  \* [Ids -> Sessions \union {NoSession}]
    verLock   \* holder of the row 'NetworkSetting'

tables == <<pri, stamp, crossed>>
args   == <<op, id1, id2>>
read   == <<pri1, pri2>>
locks  == <<rowLock, verLock>>
vars   == <<tables, nextpri, used, calls, stale, args, pc, read, draft, locks>>

TypeOK ==
    /\ pri \in [Ids -> Nat]
    /\ stamp \in Nat
    /\ nextpri \in Nat \ {0}
    /\ used \in SUBSET Ids
    /\ calls \in Nat
    /\ crossed \in SUBSET Ids
    /\ stale \in SUBSET Sessions
    /\ op \in [Sessions -> {"none", "changepri", "insert", "delete"}]
    /\ pc \in [Sessions -> {"idle", "read2", "lock1", "write1", "lock2", "write2", "commit"}]
    /\ id1 \in [Sessions -> Ids \union {NoId}]
    /\ id2 \in [Sessions -> Ids \union {NoId}]
    /\ pri1 \in [Sessions -> Nat]
    /\ pri2 \in [Sessions -> Nat]
    /\ draft \in [Sessions -> [Ids -> Nat \union {Kept}]]
    /\ rowLock \in [Ids -> Sessions \union {NoSession}]
    /\ verLock \in Sessions \union {NoSession}

Init ==
    /\ pri = [i \in Ids |-> Gone]
    /\ stamp = 0
    /\ nextpri = 1
    /\ used = {}
    /\ calls = 0
    /\ crossed = {}
    /\ stale = {}
    /\ op = [w \in Sessions |-> "none"]
    /\ pc = [w \in Sessions |-> "idle"]
    /\ id1 = [w \in Sessions |-> NoId]
    /\ id2 = [w \in Sessions |-> NoId]
    /\ pri1 = [w \in Sessions |-> 0]
    /\ pri2 = [w \in Sessions |-> 0]
    /\ draft = [w \in Sessions |-> [i \in Ids |-> Kept]]
    /\ rowLock = [i \in Ids |-> NoSession]
    /\ verLock = NoSession

-----------------------------------------------------------------------------

Seen(w, i) == IF draft[w][i] = Kept THEN pri[i] ELSE draft[w][i]
RowFree(w, i) == rowLock[i] \in {NoSession, w}
VersionFree(w) == verLock \in {NoSession, w}
GoTo(w, statement) == pc' = [pc EXCEPT ![w] = statement]

Call(w, f, i, j, statement) ==
    /\ pc[w] = "idle"
    /\ calls < MaxCalls
    /\ calls' = calls + 1
    /\ op' = [op EXCEPT ![w] = f]
    /\ id1' = [id1 EXCEPT ![w] = i]
    /\ id2' = [id2 EXCEPT ![w] = j]
    /\ GoTo(w, statement)
    /\ UNCHANGED <<tables, nextpri, stale, pri2, draft, verLock>>

Release(w) ==
    /\ GoTo(w, "idle")
    /\ op' = [op EXCEPT ![w] = "none"]
    /\ id1' = [id1 EXCEPT ![w] = NoId]
    /\ id2' = [id2 EXCEPT ![w] = NoId]
    /\ pri1' = [pri1 EXCEPT ![w] = 0]
    /\ pri2' = [pri2 EXCEPT ![w] = 0]
    /\ draft' = [draft EXCEPT ![w] = [i \in Ids |-> Kept]]
    /\ rowLock' = [i \in Ids |-> IF rowLock[i] = w THEN NoSession ELSE rowLock[i]]
    /\ verLock' = IF verLock = w THEN NoSession ELSE verLock
    /\ UNCHANGED <<nextpri, used, calls>>

\* An error, of which changepri makes the answer false: all is undone.
RollBack(w) ==
    /\ Release(w)
    /\ stale' = stale \ {w}
    /\ UNCHANGED tables

\* Rows whose priority the commit of w exchanges.
Exchanged(w) == {i \in Ids : draft[w][i] \notin {Kept, Gone} /\ pri[i] # Gone}

\* A row that the exchange of w has read has been exchanged, or deleted, since.
Overtaken(w) == w \in stale \/ Gone \in {pri[id1[w]], pri[id2[w]]}

Commit(w) ==
    /\ pc[w] = "commit"
    /\ pri' = [i \in Ids |-> Seen(w, i)]
    /\ stamp' = IF verLock = w THEN stamp + 1 ELSE stamp
    /\ crossed' = crossed \union {i \in Exchanged(w) : Overtaken(w)}
    /\ stale' = {v \in Sessions \ {w} :
                   \/ v \in stale
                   \/ id1[v] \in Exchanged(w)
                   \/ id2[v] \in Exchanged(w) /\ pc[v] # "read2"}
    /\ Release(w)

-----------------------------------------------------------------------------
(* changepri(tablename, id1, id2) *)

\* "SELECT ipri ... INTO ipri1", and false if there is none.
ChangePri(w, i, j) ==
    /\ Call(w, "changepri", i, j, IF pri[i] = Gone THEN "commit" ELSE "read2")
    /\ pri1' = [pri1 EXCEPT ![w] = pri[i]]
    /\ UNCHANGED <<used, rowLock>>

ReadSecond(w) ==
    /\ pc[w] = "read2"
    /\ pri2' = [pri2 EXCEPT ![w] = pri[id2[w]]]
    /\ GoTo(w, IF pri[id2[w]] = Gone THEN "commit" ELSE "lock1")
    /\ UNCHANGED <<tables, nextpri, used, calls, stale, args, pri1, draft, locks>>

\* "NEW.ipri=nextval(...)"
NewPri == nextpri

\* The row a statement has come to, what it writes there, and what comes after it.
First(w) == pc[w] \in {"lock1", "write1"}
Target(w) == IF First(w) THEN id1[w] ELSE id2[w]
Value(w) ==
    CASE op[w] = "delete" -> Gone
      [] op[w] = "insert" -> NewPri
      [] OTHER -> IF First(w) THEN pri2[w] ELSE pri1[w]

\* MUTANT of AfterRow: the second row is not updated.
OneRowOnly(w) == "commit"

AfterRow(w) == IF First(w) THEN "lock2" ELSE "commit"

\* MUTANT of LockRow: an update waits for a row that is gone.
LockRowThere(w) ==
    LET i == Target(w) IN
    /\ pc[w] \in {"lock1", "lock2"}
    /\ RowFree(w, i)
    /\ Seen(w, i) # Gone
    /\ rowLock' = [rowLock EXCEPT ![i] = w]
    /\ GoTo(w, IF pc[w] = "lock1" THEN "write1" ELSE "write2")
    /\ UNCHANGED <<tables, nextpri, used, calls, stale, args, read, draft, verLock>>

\* "update ... where id": takes the row, and passes over one that is gone.  The
\* trigger returns OLD if nothing changes.
LockRow(w) ==
    LET i == Target(w) IN
    /\ pc[w] \in {"lock1", "lock2"}
    /\ RowFree(w, i)
    /\ IF Seen(w, i) = Gone
       THEN GoTo(w, AfterRow(w)) /\ UNCHANGED rowLock
       ELSE /\ rowLock' = [rowLock EXCEPT ![i] = w]
            /\ GoTo(w, IF Seen(w, i) = Value(w) THEN AfterRow(w)
                       ELSE IF pc[w] = "lock1" THEN "write1" ELSE "write2")
    /\ UNCHANGED <<tables, nextpri, used, calls, stale, args, read, draft, verLock>>

\* MUTANT of WriteRow: the trigger does not stamp.
WriteUnstamped(w) ==
    /\ pc[w] \in {"write1", "write2"}
    /\ draft' = [draft EXCEPT ![w][Target(w)] = Value(w)]
    /\ GoTo(w, AfterRow(w))
    /\ UNCHANGED <<tables, nextpri, used, calls, stale, args, read, locks>>

WriteRow(w) ==
    /\ pc[w] \in {"write1", "write2"}
    /\ VersionFree(w)
    /\ op[w] = "insert" => nextpri <= MaxPri
    /\ nextpri' = IF op[w] = "insert" THEN nextpri + 1 ELSE nextpri
    /\ verLock' = w
    /\ draft' = [draft EXCEPT ![w][Target(w)] = Value(w)]
    /\ GoTo(w, AfterRow(w))
    /\ UNCHANGED <<tables, used, calls, stale, args, read, rowLock>>

-----------------------------------------------------------------------------
(* Inserts and deletes of applications *)

\* The row of a new id is nobody else's; its trigger stamps, and then numbers it.
Insert(w, i) ==
    /\ i \notin used
    /\ used' = used \union {i}
    /\ Call(w, "insert", NoId, i, "write2")
    /\ rowLock' = [rowLock EXCEPT ![i] = w]
    /\ UNCHANGED pri1

Delete(w, i) ==
    /\ Call(w, "delete", NoId, i, "lock2")
    /\ UNCHANGED <<pri1, used, rowLock>>

-----------------------------------------------------------------------------

WaitsFor(w) ==
    {v \in Sessions \ {w} :
        \/ pc[w] \in {"lock1", "lock2"} /\ rowLock[Target(w)] = v
        \/ pc[w] \in {"write1", "write2"} /\ verLock = v}

Deadlocked(w) ==
    \E S \in SUBSET Sessions : w \in S /\ \A v \in S : WaitsFor(v) \intersect S # {}

DeadlockVictim(w) == Deadlocked(w) /\ RollBack(w)

\* The connection is lost, or the client cancels.
Abort(w) == pc[w] # "idle" /\ RollBack(w)

NewCall(w) ==
    \/ \E i, j \in Ids : ChangePri(w, i, j)
    \/ \E i \in Ids : Insert(w, i) \/ Delete(w, i)

Statement(w) == ReadSecond(w) \/ LockRow(w) \/ WriteRow(w) \/ Commit(w)

Next == \E w \in Sessions : NewCall(w) \/ Statement(w) \/ DeadlockVictim(w) \/ Abort(w)

Spec == Init /\ [][Next]_vars

\* A call that can go on does, and the server resolves deadlocks; nobody has to
\* make a call or to break one off.
FairSpec == Spec /\ \A w \in Sessions : WF_vars(Statement(w)) /\ WF_vars(DeadlockVictim(w))

-----------------------------------------------------------------------------
(* Properties *)

\* Rows have different priorities until an exchange commits one of whose rows
\* another call has exchanged or deleted since it was read: only calls that overlap
\* in a row can give two rows one priority, and no constraint stops them.
DistinctUnlessCrossed ==
    crossed = {} => \A i, j \in Ids : i # j /\ pri[i] # Gone => pri[i] # pri[j]

\* A priority that w exchanges with goes to the other row, unless it is gone.
Exchange(w) ==
    [i \in Ids |-> IF pri[i] = Gone THEN Gone
                   ELSE IF i = id1[w] THEN pri2[w]
                   ELSE IF i = id2[w] THEN pri1[w] ELSE pri[i]]

\* An exchange whose rows nobody else has exchanged meanwhile does what one
\* statement would: both priorities change places, and nothing else changes.
ExchangesAtomically ==
    [][\A w \in Sessions :
         (/\ pc[w] = "commit" /\ pc'[w] = "idle" /\ tables' # tables
          /\ op[w] = "changepri" /\ w \notin stale)
         => /\ pri' = Exchange(w)
            /\ pri[id1[w]] \in {Gone, pri1[w]}
            /\ pri[id2[w]] \in {Gone, pri2[w]}]_vars

\* Clients reread the list when the version moves: every change stamps it.
ChangesStamped == [][pri' # pri => stamp' > stamp]_vars

\* The parts of the inductive invariant that the properties above need.

ReadFirst(w) == op[w] = "changepri" /\ pri1[w] # Gone
ReadBoth(w) == ReadFirst(w) /\ pri2[w] # Gone

\* Only the session that has the version has written, and only rows it has.
OneWriter ==
    \A w \in Sessions, i \in Ids : draft[w][i] # Kept => verLock = w /\ rowLock[i] = w

\* The sequence is ahead of every priority in use, read or about to be written.
SequenceAhead ==
    /\ \A i \in Ids : pri[i] < nextpri
    /\ \A w \in Sessions : pri1[w] < nextpri /\ pri2[w] < nextpri
    /\ \A w \in Sessions, i \in Ids : draft[w][i] < nextpri

\* A new row is nobody else's, and gets a priority that no row has.
Apart(w) ==
    /\ id2[w] \in used /\ pri[id2[w]] = Gone /\ rowLock[id2[w]] = w
    /\ pc[w] \in {"write2", "commit"}
    /\ \A i \in Ids : i # id2[w] => draft[w][i] = Kept
    /\ draft[w][id2[w]] # Kept => \A i \in Ids : pri[i] # draft[w][id2[w]]
    /\ \A v \in Sessions : ReadFirst(v) => id1[v] # id2[w]
    /\ \A v \in Sessions : ReadBoth(v) => id2[v] # id2[w]
    /\ \A v \in Sessions \ {w} : op[v] = "insert" => id2[v] # id2[w]

InsertsApart == \A w \in Sessions : op[w] = "insert" => Apart(w)

ArgumentsAreRows ==
    \A w \in Sessions :
        /\ op[w] = "changepri" => id1[w] \in Ids
        /\ op[w] # "none" => id2[w] \in Ids

DeletesOnly ==
    \A w \in Sessions : op[w] = "delete" =>
        /\ pc[w] \in {"lock2", "write2", "commit"}
        /\ pc[w] = "write2" => pri[id2[w]] # Gone /\ rowLock[id2[w]] = w
        /\ \A i \in Ids : draft[w][i] # Kept => draft[w][i] = Gone /\ pri[i] # Gone

\* An exchange none of whose rows was exchanged since knows their priorities, ...
ReadingsHold ==
    \A w \in Sessions \ stale :
        /\ ReadFirst(w) => pri[id1[w]] \in {Gone, pri1[w]}
        /\ ReadBoth(w) => pri[id2[w]] \in {Gone, pri2[w]}
        /\ ReadBoth(w) /\ id1[w] = id2[w] => pri1[w] = pri2[w]

\* A row that w has come past has the priority p, or has been deleted.
Past(w, i, p) == Seen(w, i) = Gone \/ (Seen(w, i) = p /\ rowLock[i] = w)

\* ... and has written as far as it has come.
InOrder(w) ==
    /\ pc[w] \in {"read2", "lock1", "write1"} => op[w] = "changepri" /\ ReadFirst(w)
    /\ pc[w] = "read2" => pri2[w] = Gone
    /\ op[w] = "changepri" =>
          /\ ReadFirst(w) => id1[w] \in used
          /\ pc[w] # "idle" /\ (pc[w] \notin {"read2", "commit"} => ReadBoth(w))
          /\ ReadBoth(w) => id2[w] \in used
          /\ verLock = w => ReadBoth(w)
          /\ \A i \in Ids : draft[w][i] # Kept =>
                ReadBoth(w) /\ i \in {id1[w], id2[w]} /\ draft[w][i] # Gone /\ pri[i] # Gone
          /\ pc[w] \in {"lock1", "write1"} => \A i \in Ids : draft[w][i] = Kept
          /\ pc[w] \in {"write1", "write2"} => pri[Target(w)] # Gone /\ rowLock[Target(w)] = w
          /\ w \notin stale /\ ReadBoth(w) /\ pc[w] \in {"lock2", "write2", "commit"} =>
                Past(w, id1[w], pri2[w])
          /\ w \notin stale /\ ReadBoth(w) /\ pc[w] = "commit" => Past(w, id2[w], pri1[w])

ExchangesInOrder == \A w \in Sessions : InOrder(w)

RowsUsed == \A i \in Ids : pri[i] # Gone \/ rowLock[i] # NoSession => i \in used

IdleIsIdle ==
    \A w \in Sessions :
        /\ pc[w] = "idle" =>
              /\ op[w] = "none" /\ pri2[w] = Gone /\ verLock # w
              /\ \A i \in Ids : draft[w][i] = Kept /\ rowLock[i] # w
        /\ op[w] = "none" => pc[w] = "idle"

IInv ==
    /\ TypeOK /\ ArgumentsAreRows /\ OneWriter /\ SequenceAhead /\ InsertsApart /\ DeletesOnly
    /\ ReadingsHold /\ ExchangesInOrder /\ RowsUsed /\ IdleIsIdle
    /\ DistinctUnlessCrossed

\* Every call ends: of two exchanges that hold each other's rows, or a row and the
\* version the other wants, one answers false.
CallsEnd == \A w \in Sessions : pc[w] # "idle" ~> pc[w] = "idle"

=============================================================================
