------------------------- MODULE VersionCacheProofs -------------------------
(***************************************************************************)
(* Proofs about VersionCache, for every number of sessions, clients, rows, *)
(* transactions and statements, every page size and both kinds of view.    *)
(* The inductive invariant IInv is split by conjunct: each lemma shows     *)
(* that a step from a state with IInv restores one of its parts.  The last *)
(* part shows that VersionCache implements CopiedTable.                    *)
(***************************************************************************)
EXTENDS VersionCache, TLAPS

USE NoValAssumption, NoWriterAssumption, BoundsAssumption, ViewAssumption

\* Init establishes the inductive invariant.
LEMMA InitInv == Init => IInv
<1> SUFFICES ASSUME Init PROVE IInv
    OBVIOUS
<1>1. TypeOK
    BY DEF Init, TypeOK, Content, NoStmt
<1>2. VersionsBounded /\ ChangersHoldVersion /\ PollsMoveForward /\ LiveRowsStamped
    BY DEF Init, VersionsBounded, ChangersHoldVersion, PollsMoveForward, LiveRowsStamped
<1>3. HoldersAtWork
    BY DEF Init, HoldersAtWork
<1>4. CopiesExplained
    BY DEF Init, CopiesExplained, Explained
<1>5. NewIdsUnused /\ RowsHaveOneWriter
    BY DEF Init, NewIdsUnused, RowsHaveOneWriter, Writing
<1> QED
    BY <1>1, <1>2, <1>3, <1>4, <1>5 DEF IInv

-----------------------------------------------------------------------------
\* Issuing a statement on a row of the table keeps the types.
LEMMA IssueTypes ==
    ASSUME TypeOK, NEW w \in Writers, NEW r \in Ids, NEW v \in Content,
           NEW more \in SUBSET Ids, NEW pc \in {"lockrow", "trigger"},
           Issue(w, r, v, more, pc), nextid' \in Nat \ {0}
    PROVE  TypeOK'
<1> USE DEF TypeOK, Issue
<1>1. [row |-> r, val |-> v] \in Statement /\ r \in Int
    BY DEF Statement, Ids
<1>2. stmt' \in [Writers -> [row : Int, val : Content]]
    BY <1>1
<1>3. \A x \in Writers : wpc'[x] \in {"lockrow", "trigger"} => stmt'[x] \in Statement
    BY <1>1
<1> QED
    BY <1>2, <1>3 DEF dbVars, lockVars, clientVars

\* A statement that is done with a row waits for another one of the table or ends.
LEMMA GoOnTypes ==
    ASSUME TypeOK, NEW w \in Writers, GoOn(w)
    PROVE  /\ wpc' \in [Writers -> {"idle", "running", "lockrow", "trigger"}]
           /\ wpc'[w] \in {"running", "lockrow"}
           /\ stmt' \in [Writers -> [row : Int, val : Content]]
           /\ rest' \in [Writers -> SUBSET Ids]
           /\ wpc'[w] = "lockrow" => stmt'[w] \in Statement
           /\ \A x \in Writers \ {w} : wpc'[x] = wpc[x] /\ stmt'[x] = stmt[x]
<1>1. CASE wpc' = [wpc EXCEPT ![w] = "running"] /\ UNCHANGED <<stmt, rest>>
    BY <1>1 DEF TypeOK
<1>2. ASSUME NEW r \in rest[w],
             wpc' = [wpc EXCEPT ![w] = "lockrow"],
             stmt' = [stmt EXCEPT ![w].row = r],
             rest' = [rest EXCEPT ![w] = @ \ {r}]
      PROVE  /\ wpc' \in [Writers -> {"idle", "running", "lockrow", "trigger"}]
             /\ wpc'[w] \in {"running", "lockrow"}
             /\ stmt' \in [Writers -> [row : Int, val : Content]]
             /\ rest' \in [Writers -> SUBSET Ids]
             /\ wpc'[w] = "lockrow" => stmt'[w] \in Statement
             /\ \A x \in Writers \ {w} : wpc'[x] = wpc[x] /\ stmt'[x] = stmt[x]
    <2>1. r \in Ids /\ r \in Int
        BY DEF TypeOK, Ids
    <2>2. stmt' = [stmt EXCEPT ![w] = [row |-> r, val |-> stmt[w].val]]
        <3>1. stmt[w] \in [row : Int, val : Content]
            BY DEF TypeOK
        <3>2. [stmt[w] EXCEPT !.row = r] = [row |-> r, val |-> stmt[w].val]
            BY <3>1
        <3>3. stmt' = [stmt EXCEPT ![w] = [stmt[w] EXCEPT !.row = r]]
            BY <1>2
        <3> QED
            BY <3>2, <3>3
    <2>3. stmt' \in [Writers -> [row : Int, val : Content]] /\ stmt'[w] \in Statement
        BY <2>1, <2>2 DEF TypeOK, Statement
    <2>4. \A x \in Writers \ {w} : wpc'[x] = wpc[x] /\ stmt'[x] = stmt[x]
        BY <1>2, <2>2 DEF TypeOK
    <2>5. wpc' \in [Writers -> {"idle", "running", "lockrow", "trigger"}] /\ wpc'[w] = "lockrow"
        BY <1>2 DEF TypeOK
    <2>6. rest' \in [Writers -> SUBSET Ids]
        <3>1. rest \in [Writers -> SUBSET Ids] /\ rest[w] \ {r} \in SUBSET Ids
            BY DEF TypeOK
        <3> QED
            BY <1>2, <3>1
    <2> QED
        BY <2>3, <2>4, <2>5, <2>6
<1> QED
    BY <1>1, <1>2 DEF GoOn

\* The types are kept by what a writer does.
LEMMA WriterTypes ==
    ASSUME TypeOK, NEW w \in Writers, WriterStep(w)
    PROVE  TypeOK'
<1> USE DEF TypeOK, dbVars, seqVars, txnVars, lockVars, clientVars, Content, Statement, Ids
<1>1. CASE Begin(w)
    <2>1. clock' \in Nat \ {0} /\ begun' \in Nat
        BY <1>1 DEF Begin
    <2> QED
        BY <1>1, <2>1 DEF Begin
<1>2. ASSUME NEW v \in Vals, Insert(w, v) PROVE TypeOK'
    <2>1. nextid \in Ids /\ nextid' \in Nat \ {0}
        BY <1>2 DEF Insert
    <2> QED
        BY <1>2, <2>1, IssueTypes DEF Insert
<1>3. ASSUME NEW r \in Ids, NEW v \in Vals, Update(w, r, v) PROVE TypeOK'
    BY <1>3, IssueTypes DEF Update
<1>4. ASSUME NEW R \in SUBSET Ids, Delete(w, R) PROVE TypeOK'
    <2>1. PICK r \in R : Issue(w, r, NoVal, R \ {r}, "lockrow")
        BY <1>4 DEF Delete
    <2>2. r \in Ids /\ R \ {r} \in SUBSET Ids /\ nextid' \in Nat \ {0}
        BY <1>4 DEF Delete
    <2> QED
        BY <2>1, <2>2, IssueTypes
<1>5. CASE LockRow(w)
    <2>1. CASE Current(w, stmt[w].row) = NoVal
        <3>1. GoOn(w) /\ UNCHANGED rowLock
            BY <1>5, <2>1 DEF LockRow
        <3> HIDE DEF TypeOK
        <3>2. /\ wpc' \in [Writers -> {"idle", "running", "lockrow", "trigger"}]
              /\ stmt' \in [Writers -> [row : Int, val : Content]]
              /\ rest' \in [Writers -> SUBSET Ids]
              /\ \A x \in Writers : wpc'[x] \in {"lockrow", "trigger"} => stmt'[x] \in Statement
            <4> HIDE DEF Statement, Content, Ids
            <4>1. \A x \in Writers : wpc[x] \in {"lockrow", "trigger"} => stmt[x] \in Statement
                BY DEF TypeOK
            <4> QED
                BY <3>1, <4>1, GoOnTypes
        <3> QED
            BY <1>5, <3>1, <3>2 DEF LockRow, TypeOK
    <2>2. CASE Current(w, stmt[w].row) # NoVal
        <3>1. stmt[w].row \in 1 .. MaxId
            BY <1>5 DEF LockRow
        <3>2. /\ wpc' = [wpc EXCEPT ![w] = "trigger"]
              /\ rowLock' = [rowLock EXCEPT ![stmt[w].row] = w]
              /\ UNCHANGED <<stmt, rest>>
            BY <1>5, <2>2 DEF LockRow
        <3>3. \A x \in Writers : wpc'[x] \in {"lockrow", "trigger"}
                                      => wpc[x] \in {"lockrow", "trigger"}
            BY <1>5, <3>2 DEF LockRow
        <3> QED
            BY <1>5, <3>1, <3>2, <3>3 DEF LockRow
    <2> QED
        BY <2>1, <2>2
<1>6. ASSUME wpc[w] = "trigger", GoOn(w),
             touched' \in [Writers -> SUBSET Ids],
             draft' \in [Writers -> [Ids -> Content]],
             verLock' \in Writers \union {NoWriter},
             UNCHANGED <<dbVars, seqVars, start, stmts, rowLock, clientVars, missed>>
      PROVE  TypeOK'
    <2> HIDE DEF TypeOK, Statement, Content, Ids
    <2>1. /\ wpc' \in [Writers -> {"idle", "running", "lockrow", "trigger"}]
          /\ stmt' \in [Writers -> [row : Int, val : Content]]
          /\ rest' \in [Writers -> SUBSET Ids]
          /\ \A x \in Writers : wpc'[x] \in {"lockrow", "trigger"} => stmt'[x] \in Statement
        <3>1. \A x \in Writers : wpc[x] \in {"lockrow", "trigger"} => stmt[x] \in Statement
            BY DEF TypeOK
        <3> QED
            BY <1>6, <3>1, GoOnTypes
    <2> QED
        BY <1>6, <2>1 DEF TypeOK
<1>7. CASE SkipUnchanged(w)
    BY <1>6, <1>7 DEF SkipUnchanged
<1>10. CASE FireTrigger(w)
    <2>1. stmt[w].row \in Ids /\ stmt[w].val \in Content
        BY <1>10 DEF FireTrigger
    <2>2. touched' \in [Writers -> SUBSET Ids] /\ verLock' \in Writers \union {NoWriter}
        BY <1>10, <2>1 DEF FireTrigger
    <2>3. draft' \in [Writers -> [Ids -> Content]]
        BY <1>10, <2>1 DEF FireTrigger
    <2>4. /\ wpc[w] = "trigger" /\ GoOn(w)
          /\ UNCHANGED <<dbVars, seqVars, start, stmts, rowLock, clientVars, missed>>
        BY <1>10 DEF FireTrigger
    <2> QED
        BY <1>6, <2>2, <2>3, <2>4
<1>8. CASE Commit(w)
    BY <1>8, SMTT(30) DEF Commit, Stamp, Version, Release, Current, NoStmt
<1>9. CASE RollBack(w)
    BY <1>9 DEF RollBack, Release, NoStmt
<1> QED
    BY <1>1, <1>2, <1>3, <1>4, <1>5, <1>7, <1>8, <1>9, <1>10
       DEF WriterStep, Abort, DeadlockVictim

\* The types are kept by what a client does.
LEMMA ClientTypes ==
    ASSUME TypeOK, NEW c \in Clients, ClientStep(c)
    PROVE  TypeOK'
<1> USE DEF TypeOK, dbVars, seqVars, txnVars, lockVars, Content, Ids
<1>1. CASE StartPoll(c)
    BY <1>1, SMTT(30) DEF StartPoll
<1>2. CASE Check(c)
    BY <1>2, SMTT(30) DEF Check
<1>3. CASE CheckFails(c)
    BY <1>3, SMTT(30) DEF CheckFails, EndPoll, Rest
<1>4. CASE Fetch(c)
    <2>1. PICK P \in Pages(Matching(c)) :
              IF MaxPage = 0 \/ Cardinality(P) < MaxPage
              THEN EndPoll(c) /\ StorePage(c, P, MaxId)
              ELSE \E last \in P :
                      /\ ibegin' = [ibegin EXCEPT ![c] = last]
                      /\ cpc' = [cpc EXCEPT ![c] = "check"]
                      /\ StorePage(c, P, last)
                      /\ UNCHANGED <<dt, seen>>
        BY <1>4 DEF Fetch
    <2>2. P \subseteq Ids
        BY <2>1 DEF Pages, Matching, Rest
    <2>3. ASSUME NEW upto, StorePage(c, P, upto)
          PROVE  /\ cache' \in [Clients -> [Ids -> Content]]
                 /\ missed' \in [Clients -> SUBSET Ids]
        BY <2>3, <2>2 DEF StorePage
    <2>4. CASE EndPoll(c) /\ StorePage(c, P, MaxId)
        BY <1>4, <2>3, <2>4 DEF Fetch, EndPoll
    <2>5. ASSUME NEW last \in P,
                 ibegin' = [ibegin EXCEPT ![c] = last],
                 cpc' = [cpc EXCEPT ![c] = "check"],
                 StorePage(c, P, last),
                 UNCHANGED <<dt, seen>>
          PROVE  TypeOK'
        <3>1. ibegin' \in [Clients -> 0 .. MaxId]
            BY <2>2, <2>5
        <3> QED
            BY <1>4, <2>3, <2>5, <3>1 DEF Fetch
    <2> QED
        BY <2>1, <2>4, <2>5
<1>5. CASE Restart(c)
    BY <1>5 DEF Restart
<1> QED
    BY <1>1, <1>2, <1>3, <1>4, <1>5 DEF ClientStep

-----------------------------------------------------------------------------
\* Versions stay below the highest one: a commit that stamps rows holds the
\* objtimestamp row and so raises the version to its stamp.
LEMMA WriterBounds ==
    ASSUME IInv, NEW w \in Writers, WriterStep(w)
    PROVE  VersionsBounded' /\ LiveRowsStamped' /\ PollsMoveForward'
<1> USE DEF IInv, TypeOK, VersionsBounded, LiveRowsStamped, PollsMoveForward
<1>1. CASE Commit(w)
    <2>1. PollsMoveForward'
        BY <1>1 DEF Commit, clientVars
    <2>2. LiveRowsStamped'
        BY <1>1 DEF Commit, Stamp, Current, HoldersAtWork
    <2>3. highest <= highest' /\ modifytime' <= highest' /\ highest' \in Nat
        BY <1>1 DEF Commit, Version
    <2>4. \A r \in Ids : r \in touched[w] => start[w] <= highest'
        BY <1>1, <2>3 DEF Commit, Version, ChangersHoldVersion
    <2>5. ASSUME NEW r \in Ids PROVE lasttimestamp'[r] <= highest'
        BY <1>1, <2>3, <2>4 DEF Commit, Stamp
    <2>6. \A c \in Clients : dt'[c] <= highest' /\ seen'[c] <= highest'
        BY <1>1, <2>3 DEF Commit, clientVars, Version
    <2> QED
        BY <2>1, <2>2, <2>3, <2>5, <2>6
<1>2. CASE UNCHANGED <<dbVars, clientVars>>
    BY <1>2 DEF dbVars, clientVars
<1> QED
    BY <1>1, <1>2 DEF WriterStep, Begin, Insert, Update, Delete, Issue, GoOn, LockRow, SkipUnchanged,
       FireTrigger, Abort, DeadlockVictim, RollBack

LEMMA ClientBounds ==
    ASSUME IInv, NEW c \in Clients, ClientStep(c)
    PROVE  VersionsBounded' /\ LiveRowsStamped' /\ PollsMoveForward'
<1> USE DEF IInv, TypeOK, VersionsBounded, LiveRowsStamped, PollsMoveForward, dbVars
<1>1. CASE StartPoll(c)
    BY <1>1 DEF StartPoll
<1>2. CASE Check(c)
    BY <1>2 DEF Check
<1>3. CASE CheckFails(c)
    BY <1>3 DEF CheckFails, EndPoll
<1>4. CASE Fetch(c)
    <2>1. CASE EndPoll(c)
        BY <1>4, <2>1 DEF Fetch, EndPoll
    <2>2. CASE cpc' = [cpc EXCEPT ![c] = "check"] /\ UNCHANGED <<dt, seen>>
        BY <1>4, <2>2 DEF Fetch
    <2> QED
        BY <1>4, <2>1, <2>2 DEF Fetch
<1>5. CASE Restart(c)
    BY <1>5 DEF Restart
<1> QED
    BY <1>1, <1>2, <1>3, <1>4, <1>5 DEF ClientStep

-----------------------------------------------------------------------------
\* Locks are taken in the order row, objtimestamp row, and kept to the end.
LEMMA WriterLocks ==
    ASSUME IInv, NEW w \in Writers, WriterStep(w)
    PROVE  ChangersHoldVersion' /\ HoldersAtWork'
<1> USE DEF IInv, TypeOK, ChangersHoldVersion, HoldersAtWork
<1>1. CASE Begin(w)
    <2>1. clock' > 0
        BY <1>1 DEF Begin
    <2> QED
        BY <1>1, <2>1 DEF Begin, lockVars
<1>2. ASSUME NEW r, NEW v, NEW more, NEW pc \in {"lockrow", "trigger"},
             Issue(w, r, v, more, pc)
      PROVE  ChangersHoldVersion' /\ HoldersAtWork'
    BY <1>2 DEF Issue, lockVars
<1>3. ASSUME GoOn(w)
      PROVE  wpc'[w] \in {"running", "lockrow"} /\ \A x \in Writers \ {w} : wpc'[x] = wpc[x]
    BY <1>3, GoOnTypes
<1>4. CASE LockRow(w)
    <2>1. CASE GoOn(w) /\ UNCHANGED rowLock
        BY <1>3, <1>4, <2>1 DEF LockRow
    <2>2. CASE /\ wpc' = [wpc EXCEPT ![w] = "trigger"]
               /\ rowLock' = [rowLock EXCEPT ![stmt[w].row] = w]
        BY <1>4, <2>2 DEF LockRow, Statement
    <2> QED
        BY <1>4, <2>1, <2>2 DEF LockRow
<1>5. CASE SkipUnchanged(w)
    BY <1>3, <1>5 DEF SkipUnchanged, lockVars
<1>6. CASE FireTrigger(w)
    BY <1>3, <1>6 DEF FireTrigger, VersionFree
<1>7. CASE Release(w)
    BY <1>7 DEF Release
<1> QED
    BY <1>1, <1>2, <1>4, <1>5, <1>6, <1>7
       DEF WriterStep, Insert, Update, Delete, Commit, RollBack, Abort, DeadlockVictim

LEMMA ClientLocks ==
    ASSUME IInv, NEW c \in Clients, ClientStep(c)
    PROVE  ChangersHoldVersion' /\ HoldersAtWork'
<1>1. UNCHANGED <<txnVars, lockVars>>
    BY DEF ClientStep, StartPoll, Check, CheckFails, Fetch, Restart
<1> QED
    BY <1>1 DEF IInv, ChangersHoldVersion, HoldersAtWork, txnVars, lockVars

-----------------------------------------------------------------------------
\* A copy that was explained stays explained when a writer acts.  Only a commit
\* counts: it either stamps its rows above what the client has been answered
\* for, or puts them among the rows the client will not be told about.
LEMMA WriterCopies ==
    ASSUME IInv, NEW w \in Writers, WriterStep(w)
    PROVE  CopiesExplained'
<1> USE DEF IInv, TypeOK, CopiesExplained, PagesInOrder
<1>1. CASE Commit(w)
    <2> SUFFICES ASSUME PagesInOrder, NEW c \in Clients, NEW r \in Ids, Shown(r)'
                 PROVE  Explained(c, r)'
        OBVIOUS
    <2>1. cache' = cache /\ Answered(c, r)' = Answered(c, r)
        BY <1>1 DEF Commit, clientVars, Answered
    <2>2. Answered(c, r) <= Known(c) /\ Answered(c, r) \in Nat /\ Known(c) \in Nat
        BY DEF Answered, Known, PollsMoveForward
    <2>3. CASE r \in touched[w]
        <3>1. lasttimestamp'[r] = start[w]
            BY <1>1, <2>3 DEF Commit, Stamp
        <3>2. CASE start[w] <= Known(c)
            BY <1>1, <2>3, <3>2 DEF Commit, Explained
        <3>3. CASE start[w] > Known(c)
            BY <2>1, <2>2, <3>1, <3>3 DEF Explained
        <3> QED
            BY <2>2, <3>2, <3>3
    <2>4. CASE r \notin touched[w]
        <3>1. content'[r] = content[r] /\ lasttimestamp'[r] = lasttimestamp[r]
            BY <1>1, <2>4 DEF Commit, Stamp, Current
        <3>2. r \in missed'[c] <=> r \in missed[c]
            BY <1>1, <2>4 DEF Commit
        <3>3. Explained(c, r)
            BY <3>1 DEF Shown
        <3> QED
            BY <2>1, <3>1, <3>2, <3>3 DEF Explained
    <2> QED
        BY <2>3, <2>4
<1>2. CASE UNCHANGED <<dbVars, clientVars, missed>>
    BY <1>2 DEF dbVars, clientVars, Shown, Explained, Answered
<1> QED
    BY <1>1, <1>2 DEF WriterStep, Begin, Insert, Update, Delete, Issue, GoOn, LockRow, SkipUnchanged,
       FireTrigger, Abort, DeadlockVictim, RollBack

\* A page that is not full holds every row that matches; a full page of an
\* ordered view holds every row that matches up to the last one in it.
LEMMA PageIsPrefix ==
    ASSUME PagesInOrder, NEW S \in SUBSET Ids, NEW P \in Pages(S)
    PROVE  /\ P \subseteq S
           /\ MaxPage = 0 \/ Cardinality(P) < MaxPage => P = S
           /\ MaxPage # 0 => \A p \in P, q \in S \ P : p < q
<1>1. CASE MaxPage = 0 \/ Cardinality(S) <= MaxPage
    BY <1>1 DEF Pages
<1>2. CASE ~(MaxPage = 0 \/ Cardinality(S) <= MaxPage)
    BY <1>2 DEF Pages, PagesInOrder
<1> QED
    BY <1>1, <1>2

\* A copy stays explained when a page of its poll is stored: a row the page
\* answers for without containing it does not match, so it is gone or older
\* than the copy.
LEMMA FetchCopies ==
    ASSUME IInv, NEW c \in Clients, Fetch(c), PagesInOrder, NEW r \in Ids, Shown(r)
    PROVE  Explained(c, r)'
<1>1. PICK P \in Pages(Matching(c)) :
          IF MaxPage = 0 \/ Cardinality(P) < MaxPage
          THEN EndPoll(c) /\ StorePage(c, P, MaxId)
          ELSE \E last \in P :
                  /\ \A p \in P : p <= last
                  /\ ibegin' = [ibegin EXCEPT ![c] = last]
                  /\ cpc' = [cpc EXCEPT ![c] = "check"]
                  /\ StorePage(c, P, last)
                  /\ UNCHANGED <<dt, seen>>
    BY DEF Fetch
<1>2. Matching(c) \in SUBSET Ids
    BY DEF Matching, Rest
<1>3. /\ P \subseteq Matching(c)
      /\ MaxPage = 0 \/ Cardinality(P) < MaxPage => P = Matching(c)
      /\ MaxPage # 0 => \A p \in P, q \in Matching(c) \ P : p < q
    BY <1>2, PageIsPrefix, Zenon
<1> USE DEF IInv, TypeOK
<1>4. content' = content /\ lasttimestamp' = lasttimestamp /\ cpc[c] = "fetch"
    BY DEF Fetch, dbVars
<1>5. Explained(c, r)
    BY DEF CopiesExplained
<1>6. r \in Int /\ ibegin[c] \in Int /\ dt[c] \in Nat /\ seen[c] \in Nat /\ lasttimestamp[r] \in Nat
    BY DEF Ids
<1>7. ASSUME NEW upto, StorePage(c, P, upto), r \in P
      PROVE  cache'[c][r] = content[r]
    BY <1>7 DEF StorePage
<1>8. ASSUME NEW upto, StorePage(c, P, upto), r \notin P, r \in Rest(c), r \notin Matching(c), r <= upto
      PROVE  Explained(c, r)'
    <2>1. CASE Incremental
        <3>1. lasttimestamp[r] <= dt[c]
            BY <1>6, <1>8, <2>1 DEF Matching, Shown
        <3>2. cache[c][r] = content[r] \/ r \in missed[c]
            BY <1>4, <1>5, <1>6, <1>8, <3>1 DEF Explained, Answered, Rest
        <3>3. cache'[c][r] = cache[c][r] /\ (r \in missed[c] => r \in missed'[c])
            BY <1>8, <2>1 DEF StorePage
        <3> QED
            BY <1>4, <3>2, <3>3 DEF Explained
    <2>2. CASE ~Incremental
        <3>1. content[r] = NoVal
            BY <1>8, <2>2 DEF Matching
        <3>2. cache'[c][r] = NoVal
            BY <1>8, <2>2 DEF StorePage
        <3> QED
            BY <1>4, <3>1, <3>2 DEF Explained
    <2> QED
        BY <2>1, <2>2
<1>9. ASSUME NEW upto, StorePage(c, P, upto), r \notin P, ~(r \in Rest(c) /\ r <= upto),
             Answered(c, r)' = Answered(c, r)
      PROVE  Explained(c, r)'
    <2>1. cache'[c][r] = cache[c][r] /\ (r \in missed[c] => r \in missed'[c])
        BY <1>9 DEF StorePage
    <2> QED
        BY <1>4, <1>5, <1>9, <2>1 DEF Explained
<1>10. CASE MaxPage = 0 \/ Cardinality(P) < MaxPage
    <2>1. EndPoll(c) /\ StorePage(c, P, MaxId)
        BY <1>1, <1>10
    <2>2. CASE r \in P
        BY <1>4, <1>7, <2>1, <2>2 DEF Explained
    <2>3. CASE r \notin P /\ r \in Rest(c)
        BY <1>3, <1>8, <1>10, <2>1, <2>3 DEF Ids
    <2>4. CASE r \notin P /\ r \notin Rest(c)
        <3>1. Answered(c, r)' = Answered(c, r)
            BY <1>4, <2>1, <2>4 DEF EndPoll, Answered, Rest
        <3> QED
            BY <1>9, <2>1, <2>4, <3>1
    <2> QED
        BY <2>2, <2>3, <2>4
<1>11. CASE ~(MaxPage = 0 \/ Cardinality(P) < MaxPage)
    <2>1. PICK last \in P :
              /\ \A p \in P : p <= last
              /\ ibegin' = [ibegin EXCEPT ![c] = last]
              /\ cpc' = [cpc EXCEPT ![c] = "check"]
              /\ StorePage(c, P, last)
              /\ UNCHANGED <<dt, seen>>
        BY <1>1, <1>11
    <2>2. last \in Int /\ last > ibegin[c]
        BY <1>3 DEF Matching, Rest, Ids
    <2>3. CASE r \in P
        BY <1>4, <1>7, <2>1, <2>3 DEF Explained
    <2>4. CASE r \notin P /\ r \in Rest(c) /\ r <= last
        <3>1. r \notin Matching(c)
            BY <1>3, <1>6, <1>11, <2>1, <2>2, <2>4
        <3> QED
            BY <1>8, <2>1, <2>4, <3>1
    <2>5. CASE r \notin P /\ ~(r \in Rest(c) /\ r <= last)
        <3>1. Answered(c, r)' = Answered(c, r)
            BY <1>4, <1>6, <2>1, <2>2, <2>5 DEF Answered, Rest
        <3> QED
            BY <1>9, <2>1, <2>5, <3>1
    <2> QED
        BY <2>3, <2>4, <2>5
<1> QED
    BY <1>10, <1>11

LEMMA ClientCopies ==
    ASSUME IInv, NEW c \in Clients, ClientStep(c)
    PROVE  CopiesExplained'
<1> USE DEF IInv, TypeOK
<1> SUFFICES ASSUME PagesInOrder, NEW d \in Clients, NEW r \in Ids, Shown(r)'
             PROVE  Explained(d, r)'
    BY DEF CopiesExplained, PagesInOrder
<1>1. UNCHANGED dbVars
    BY DEF ClientStep, StartPoll, Check, CheckFails, Fetch, Restart
<1>2. Shown(r) /\ Explained(d, r)
    BY <1>1 DEF CopiesExplained, Shown, dbVars
<1>3. CASE d # c
    <2>1. /\ cpc'[d] = cpc[d] /\ dt'[d] = dt[d] /\ seen'[d] = seen[d]
          /\ ibegin'[d] = ibegin[d] /\ cache'[d] = cache[d] /\ missed'[d] = missed[d]
        BY <1>3 DEF ClientStep, StartPoll, Check, CheckFails, Fetch, Restart, EndPoll, StorePage
    <2> QED
        BY <1>1, <1>2, <2>1 DEF Explained, Answered, dbVars
<1>4. CASE d = c /\ StartPoll(c)
    BY <1>1, <1>2, <1>4 DEF StartPoll, Explained, Answered, dbVars, Ids
<1>5. CASE d = c /\ Check(c)
    BY <1>1, <1>2, <1>5 DEF Check, Explained, Answered, dbVars
<1>6. CASE d = c /\ CheckFails(c)
    <2>1. CASE r \in missed'[c]
        BY <1>6, <2>1 DEF Explained
    <2>2. CASE r \notin missed'[c] /\ r \in Rest(c)
        <3>1. Incremental /\ ~(lasttimestamp[r] > dt[c])
            BY <1>6, <2>2 DEF CheckFails
        <3>2. cache[c][r] = content[r]
            BY <1>2, <1>6, <2>2, <3>1 DEF CheckFails, Explained, Answered, Rest
        <3> QED
            BY <1>1, <1>6, <3>1, <3>2 DEF CheckFails, Explained, dbVars
    <2>3. CASE r \notin missed'[c] /\ r \notin Rest(c)
        <3>1. cache'[c][r] = cache[c][r] /\ r \notin missed[c]
            BY <1>6, <2>3 DEF CheckFails
        <3>2. Answered(c, r)' = Answered(c, r)
            BY <1>6, <2>3 DEF CheckFails, EndPoll, Answered, Rest
        <3> QED
            BY <1>1, <1>2, <1>6, <3>1, <3>2 DEF Explained, dbVars
    <2> QED
        BY <2>1, <2>2, <2>3
<1>7. CASE d = c /\ Fetch(c)
    BY <1>2, <1>7, FetchCopies
<1>8. CASE d = c /\ Restart(c)
    <2>1. cache'[c][r] = NoVal /\ Answered(c, r)' = 0
        BY <1>8 DEF Restart, Answered
    <2>2. content[r] = NoVal \/ lasttimestamp[r] > 0
        BY DEF LiveRowsStamped
    <2> QED
        BY <1>1, <1>8, <2>1, <2>2 DEF Explained, dbVars
<1> QED
    BY <1>3, <1>4, <1>5, <1>6, <1>7, <1>8 DEF ClientStep

-----------------------------------------------------------------------------
\* Nobody but w writes row r when w has locked it and found it there.
LEMMA LockedByOne ==
    ASSUME IInv, NEW w \in Writers, NEW r \in Ids,
           rowLock[r] \in {NoWriter, w}, Current(w, r) # NoVal
    PROVE  /\ \A v \in Writers : Writing(v, r) => v = w
           /\ r < nextid
           /\ content[r] # NoVal \/ lasttimestamp[r] = 0
<1>1. CASE r \in touched[w]
    BY <1>1 DEF IInv, RowsHaveOneWriter, Writing
<1>2. CASE r \notin touched[w]
    <2>1. content[r] # NoVal
        BY <1>2 DEF Current
    <2>2. lasttimestamp[r] > 0 /\ lasttimestamp[r] \in Nat /\ nextid \in Nat /\ r \in Nat
        BY <2>1 DEF IInv, LiveRowsStamped, TypeOK, Ids
    <2>3. r < nextid
        BY <2>2 DEF IInv, NewIdsUnused
    <2>4. \A v \in Writers : Writing(v, r) => v = w
        BY <2>1 DEF IInv, RowsHaveOneWriter
    <2> QED
        BY <2>1, <2>3, <2>4
<1> QED
    BY <1>1, <1>2

\* Rows keep having one writer when no commit changes them and nobody but w
\* comes to write a row, of which it is then the only writer.
LEMMA RowsKept ==
    ASSUME IInv, NEW w \in Writers,
           UNCHANGED <<content, lasttimestamp>>,
           nextid <= nextid', nextid' \in Nat,
           \A v \in Writers \ {w}, r \in Ids : Writing(v, r)' => Writing(v, r),
           \A v \in Writers \ {w}, r \in Ids : rowLock[r] = v => rowLock'[r] = v,
           \A r \in Ids : rowLock'[r] \in {rowLock[r], NoWriter, w},
           \A r \in Ids : rowLock'[r] = w => rowLock[r] = w \/ Writing(w, r)',
           \A r \in Ids : Writing(w, r)' =>
               /\ r < nextid'
               /\ content[r] # NoVal \/ lasttimestamp[r] = 0
               /\ content[r] # NoVal => rowLock'[r] = w
               /\ rowLock'[r] \in {NoWriter, w}
               /\ \A v \in Writers : Writing(v, r) => v = w
    PROVE  NewIdsUnused' /\ RowsHaveOneWriter'
<1>1. NewIdsUnused'
    <2>1. nextid \in Nat /\ \A r \in Ids : r \in Nat
        BY DEF IInv, TypeOK, Ids
    <2> SUFFICES ASSUME NEW r \in Ids, r >= nextid'
                 PROVE  lasttimestamp[r] = 0 /\ rowLock'[r] = NoWriter
        BY DEF NewIdsUnused, Ids
    <2>2. lasttimestamp[r] = 0 /\ rowLock[r] = NoWriter
        BY <2>1 DEF IInv, NewIdsUnused
    <2>3. ~Writing(w, r)'
        BY <2>1
    <2> QED
        BY <2>2, <2>3
<1>2. ASSUME NEW v \in Writers, NEW r \in Ids, Writing(v, r)'
      PROVE  /\ r < nextid'
             /\ content'[r] # NoVal \/ lasttimestamp'[r] = 0
             /\ content'[r] # NoVal => rowLock'[r] = v
             /\ rowLock'[r] \in {NoWriter, v}
             /\ \A x \in Writers : Writing(x, r)' => x = v
    <2>1. CASE v = w
        BY <1>2, <2>1
    <2>2. CASE v # w
        <3>1. Writing(v, r)
            BY <1>2, <2>2
        <3>2. nextid \in Nat /\ r \in Nat
            BY DEF IInv, TypeOK, Ids
        <3>3. /\ r < nextid
              /\ content[r] # NoVal \/ lasttimestamp[r] = 0
              /\ content[r] # NoVal => rowLock[r] = v
              /\ rowLock[r] \in {NoWriter, v}
              /\ \A x \in Writers : Writing(x, r) => x = v
            BY <3>1 DEF IInv, RowsHaveOneWriter
        <3>4. rowLock'[r] # w
            BY <2>2, <3>1, <3>3
        <3>5. /\ r < nextid'
              /\ content'[r] # NoVal => rowLock'[r] = v
              /\ rowLock'[r] \in {NoWriter, v}
            BY <2>2, <3>2, <3>3, <3>4
        <3>6. \A x \in Writers : Writing(x, r)' => x = v
            BY <2>2, <3>1, <3>3
        <3> QED
            BY <3>3, <3>5, <3>6
    <2> QED
        BY <2>1, <2>2
<1> QED
    BY <1>1, <1>2 DEF RowsHaveOneWriter

\* A row that is written was inserted by the transaction, under an id nobody
\* else knows, or locked when it was there; so it stays what it was for others
\* until the commit.
LEMMA WriterRows ==
    ASSUME IInv, NEW w \in Writers, WriterStep(w)
    PROVE  NewIdsUnused' /\ RowsHaveOneWriter'
<1> USE DEF dbVars, seqVars, lockVars
<1>1. nextid \in Nat /\ nextid + 1 \in Nat /\ \A r \in Ids : r \in Nat
    BY DEF IInv, TypeOK, Ids
<1>2. wpc \in [Writers -> {"idle", "running", "lockrow", "trigger"}]
      /\ stmt \in [Writers -> [row : Int, val : Content]]
      /\ touched \in [Writers -> SUBSET Ids]
      /\ rowLock \in [Ids -> Writers \union {NoWriter}]
    BY DEF IInv, TypeOK
<1>3. \A v \in Writers, r \in Ids : Writing(v, r) =>
          /\ r < nextid
          /\ content[r] # NoVal \/ lasttimestamp[r] = 0
          /\ content[r] # NoVal => rowLock[r] = v
          /\ rowLock[r] \in {NoWriter, v}
          /\ \A x \in Writers : Writing(x, r) => x = v
    BY DEF IInv, RowsHaveOneWriter
<1>4. ASSUME UNCHANGED <<content, lasttimestamp, nextid, touched, rowLock>>,
             \A v \in Writers : wpc'[v] = "trigger" => wpc[v] = "trigger" /\ stmt'[v] = stmt[v]
      PROVE  NewIdsUnused' /\ RowsHaveOneWriter'
    <2>1. \A v \in Writers, r \in Ids : Writing(v, r)' => Writing(v, r)
        BY <1>4 DEF Writing
    <2> QED
        BY <1>1, <1>3, <1>4, <2>1, RowsKept
<1>14. ASSUME GoOn(w)
       PROVE  \A v \in Writers : wpc'[v] = "trigger" => wpc[v] = "trigger" /\ stmt'[v] = stmt[v]
    BY <1>14, GoOnTypes DEF IInv
<1>5. CASE Begin(w)
    BY <1>2, <1>4, <1>5 DEF Begin
<1>6. ASSUME NEW v \in Vals, Insert(w, v) PROVE NewIdsUnused' /\ RowsHaveOneWriter'
    <2>1. nextid \in Ids /\ nextid' = nextid + 1 /\ Issue(w, nextid, v, {}, "trigger")
        BY <1>6 DEF Insert, Ids, IInv, TypeOK
    <2>2. UNCHANGED <<content, lasttimestamp, touched, rowLock>>
        BY <2>1 DEF Issue
    <2>3. \A x \in Writers \ {w}, r \in Ids : Writing(x, r)' => Writing(x, r)
        BY <1>2, <2>1 DEF Issue, Writing
    <2>4. lasttimestamp[nextid] = 0 /\ content[nextid] = NoVal /\ rowLock[nextid] = NoWriter
        BY <1>1, <2>1 DEF IInv, NewIdsUnused, LiveRowsStamped
    <2>5. ~\E x \in Writers : Writing(x, nextid)
        BY <1>1, <1>3, <2>1
    <2>6. ASSUME NEW r \in Ids, Writing(w, r)'
          PROVE  /\ r < nextid'
                 /\ content[r] # NoVal \/ lasttimestamp[r] = 0
                 /\ content[r] # NoVal => rowLock'[r] = w
                 /\ rowLock'[r] \in {NoWriter, w}
                 /\ \A x \in Writers : Writing(x, r) => x = w
        <3>1. Writing(w, r) \/ r = nextid
            BY <1>2, <2>1, <2>2, <2>6 DEF Issue, Writing
        <3>2. CASE Writing(w, r)
            BY <1>1, <1>3, <2>1, <2>2, <3>2
        <3>3. CASE r = nextid
            <4>1. r < nextid' /\ lasttimestamp[r] = 0 /\ content[r] = NoVal
                BY <1>1, <2>1, <2>4, <3>3
            <4>2. rowLock'[r] = NoWriter
                BY <2>2, <2>4, <3>3
            <4>3. \A x \in Writers : ~Writing(x, r)
                BY <2>5, <3>3
            <4> QED
                BY <4>1, <4>2, <4>3
        <3> QED
            BY <3>1, <3>2, <3>3
    <2> QED
        BY <1>1, <2>1, <2>2, <2>3, <2>6, RowsKept
<1>7. ASSUME NEW r, NEW v, NEW more, Issue(w, r, v, more, "lockrow"), UNCHANGED nextid
      PROVE  NewIdsUnused' /\ RowsHaveOneWriter'
    BY <1>2, <1>4, <1>7 DEF Issue
<1>8. CASE LockRow(w)
    <2>1. PICK s \in Ids : s = stmt[w].row
        BY <1>8 DEF LockRow, IInv, TypeOK, Statement
    <2>2. CASE Current(w, s) = NoVal
        BY <1>4, <1>8, <1>14, <2>1, <2>2 DEF LockRow
    <2>3. CASE Current(w, s) # NoVal
        <3>1. /\ rowLock[s] \in {NoWriter, w}
              /\ wpc' = [wpc EXCEPT ![w] = "trigger"]
              /\ rowLock' = [rowLock EXCEPT ![s] = w]
              /\ UNCHANGED <<content, lasttimestamp, nextid, touched, stmt>>
            BY <1>8, <2>1, <2>3 DEF LockRow
        <3>2. \A x \in Writers \ {w}, r \in Ids : Writing(x, r)' => Writing(x, r)
            BY <1>2, <3>1 DEF Writing
        <3>3. \A x \in Writers \ {w}, r \in Ids : rowLock[r] = x => rowLock'[r] = x
            BY <1>2, <3>1, NoWriterAssumption
        <3>4. ASSUME NEW r \in Ids, Writing(w, r)'
              PROVE  /\ r < nextid'
                     /\ content[r] # NoVal \/ lasttimestamp[r] = 0
                     /\ content[r] # NoVal => rowLock'[r] = w
                     /\ rowLock'[r] \in {NoWriter, w}
                     /\ \A x \in Writers : Writing(x, r) => x = w
            <4>1. r = s \/ Writing(w, r)
                BY <1>2, <2>1, <3>1, <3>4 DEF Writing
            <4>2. CASE r = s
                BY <1>2, <2>3, <3>1, <4>2, LockedByOne
            <4>3. CASE r # s /\ Writing(w, r)
                BY <1>2, <1>3, <3>1, <4>3
            <4> QED
                BY <4>1, <4>2, <4>3
        <3>5. \A r \in Ids : rowLock'[r] \in {rowLock[r], NoWriter, w}
            BY <1>2, <3>1
        <3>6. \A r \in Ids : rowLock'[r] = w => rowLock[r] = w \/ Writing(w, r)'
            BY <1>2, <2>1, <3>1 DEF Writing
        <3> QED
            BY <1>1, <3>1, <3>2, <3>3, <3>4, <3>5, <3>6, RowsKept
    <2> QED
        BY <2>2, <2>3
<1>9. CASE SkipUnchanged(w)
    BY <1>4, <1>9, <1>14 DEF SkipUnchanged
<1>10. CASE FireTrigger(w)
    <2>1. /\ wpc[w] = "trigger" /\ GoOn(w)
          /\ touched' = [touched EXCEPT ![w] = @ \union {stmt[w].row}]
          /\ UNCHANGED <<content, lasttimestamp, nextid, rowLock>>
        BY <1>10 DEF FireTrigger
    <2>2. \A x \in Writers, r \in Ids : Writing(x, r)' => Writing(x, r)
        BY <1>2, <1>14, <2>1 DEF Writing
    <2> QED
        BY <1>1, <1>3, <2>1, <2>2, RowsKept
<1>11. ASSUME Release(w)
       PROVE  /\ \A v \in Writers, r \in Ids : Writing(v, r)' => v # w /\ Writing(v, r)
              /\ \A v \in Writers \ {w}, r \in Ids : rowLock[r] = v => rowLock'[r] = v
              /\ \A r \in Ids : rowLock'[r] \in {rowLock[r], NoWriter} /\ rowLock'[r] # w
    BY <1>2, <1>11, NoWriterAssumption DEF Release, Writing
<1>12. CASE RollBack(w)
    <2>1. Release(w) /\ UNCHANGED <<content, lasttimestamp, nextid>>
        BY <1>12 DEF RollBack
    <2> QED
        BY <1>1, <1>3, <1>11, <2>1, RowsKept
<1>13. CASE Commit(w)
    <2>1. /\ Release(w) /\ UNCHANGED nextid
          /\ content' = [r \in Ids |-> Current(w, r)]
          /\ lasttimestamp' = [r \in Ids |-> Stamp(w, r)]
        BY <1>13 DEF Commit
    <2>2. \A r \in Ids : ~Writing(w, r) => content'[r] = content[r]
                                           /\ lasttimestamp'[r] = lasttimestamp[r]
        BY <2>1 DEF Current, Stamp, Writing
    <2>3. NewIdsUnused'
        <3> SUFFICES ASSUME NEW r \in Ids, r >= nextid
                     PROVE  lasttimestamp'[r] = 0 /\ rowLock'[r] = NoWriter
            BY <2>1 DEF NewIdsUnused
        <3>1. ~Writing(w, r)
            BY <1>1, <1>3
        <3>2. lasttimestamp[r] = 0 /\ rowLock[r] = NoWriter
            BY DEF IInv, NewIdsUnused
        <3> QED
            BY <1>11, <2>1, <2>2, <3>1, <3>2
    <2>4. ASSUME NEW v \in Writers, NEW r \in Ids, Writing(v, r)'
          PROVE  /\ r < nextid'
                 /\ content'[r] # NoVal \/ lasttimestamp'[r] = 0
                 /\ content'[r] # NoVal => rowLock'[r] = v
                 /\ rowLock'[r] \in {NoWriter, v}
                 /\ \A x \in Writers : Writing(x, r)' => x = v
        <3>1. v # w /\ Writing(v, r)
            BY <1>11, <2>1, <2>4
        <3>2. content'[r] = content[r] /\ lasttimestamp'[r] = lasttimestamp[r]
            BY <1>3, <2>2, <3>1
        <3> QED
            BY <1>3, <1>11, <2>1, <3>1, <3>2
    <2> QED
        BY <2>3, <2>4 DEF RowsHaveOneWriter
<1> QED
    BY <1>5, <1>6, <1>7, <1>8, <1>9, <1>10, <1>12, <1>13
       DEF WriterStep, Update, Delete, Abort, DeadlockVictim, Content

LEMMA ClientRows ==
    ASSUME IInv, NEW c \in Clients, ClientStep(c)
    PROVE  NewIdsUnused' /\ RowsHaveOneWriter'
<1>1. UNCHANGED <<dbVars, seqVars, txnVars, lockVars>>
    BY DEF ClientStep, StartPoll, Check, CheckFails, Fetch, Restart
<1> QED
    BY <1>1 DEF IInv, NewIdsUnused, RowsHaveOneWriter, Writing, dbVars, seqVars, txnVars, lockVars

-----------------------------------------------------------------------------
\* IInv is inductive.
LEMMA StepInv == IInv /\ [Next]_vars => IInv'
<1> SUFFICES ASSUME IInv, [Next]_vars PROVE IInv'
    OBVIOUS
<1>1. ASSUME NEW w \in Writers, WriterStep(w) PROVE IInv'
    <2>1. TypeOK
        BY DEF IInv
    <2> QED
        BY <1>1, <2>1, WriterTypes, WriterBounds, WriterLocks, WriterCopies, WriterRows DEF IInv
<1>2. ASSUME NEW c \in Clients, ClientStep(c) PROVE IInv'
    <2>1. TypeOK
        BY DEF IInv
    <2> QED
        BY <1>2, <2>1, ClientTypes, ClientBounds, ClientLocks, ClientCopies, ClientRows DEF IInv
<1>3. CASE UNCHANGED vars
    <2> USE <1>3 DEF vars, dbVars, seqVars, txnVars, lockVars, clientVars, IInv
    <2>1. TypeOK'
        BY DEF TypeOK
    <2>2. VersionsBounded' /\ ChangersHoldVersion' /\ PollsMoveForward' /\ LiveRowsStamped'
        BY DEF VersionsBounded, ChangersHoldVersion, PollsMoveForward, LiveRowsStamped
    <2>3. HoldersAtWork'
        BY DEF HoldersAtWork
    <2>4. CopiesExplained'
        BY DEF CopiesExplained, PagesInOrder, Shown, Explained, Answered
    <2>5. NewIdsUnused' /\ RowsHaveOneWriter'
        BY DEF NewIdsUnused, RowsHaveOneWriter, Writing
    <2> QED
        BY <2>1, <2>2, <2>3, <2>4, <2>5
<1> QED
    BY <1>1, <1>2, <1>3 DEF Next

\* The inductive invariant of the protocol holds in every reachable state.
THEOREM Invariance == Spec => []IInv
<1> QED
    BY InitInv, StepInv, PTL DEF Spec

\* Every variable of the protocol keeps to its type.
THEOREM TypeCorrect == Spec => []TypeOK
<1>1. IInv => TypeOK
    BY DEF IInv
<1> QED
    BY <1>1, Invariance, PTL

\* The triggers of one table never run in two transactions at once: whichever
\* rows they change, the objtimestamp row is locked from the first of them to
\* the end of the transaction.
THEOREM Serialised == Spec => []WritersSerialised
<1>1. IInv => WritersSerialised
    BY DEF IInv, ChangersHoldVersion, WritersSerialised
<1> QED
    BY <1>1, Invariance, PTL

\* A client that is told its copy is up to date has the committed content of
\* every row its view shows, unless the change was stamped no later than a
\* version the client had read, or the version has been set back below it.
THEOREM StaleExplained == Spec => []StaleOnlyIfOvertaken
<1>1. ASSUME IInv, PagesInOrder, NEW c \in Clients, NEW r \in Ids,
             cpc[c] = "idle", modifytime <= dt[c], Shown(r), cache[c][r] # content[r]
      PROVE  r \in missed[c] \/ SetBack(r)
    <2>1. r \in missed[c] \/ lasttimestamp[r] > dt[c]
        BY <1>1 DEF IInv, CopiesExplained, Explained, Answered
    <2>2. CASE lasttimestamp[r] > dt[c]
        <3>1. /\ modifytime \in Nat /\ dt[c] \in Nat /\ lasttimestamp[r] \in Nat
              /\ lasttimestamp[r] <= highest
            BY <1>1 DEF IInv, TypeOK, VersionsBounded
        <3> QED
            BY <1>1, <2>2, <3>1 DEF SetBack
    <2> QED
        BY <2>1, <2>2
<1>2. IInv => StaleOnlyIfOvertaken
    BY <1>1 DEF StaleOnlyIfOvertaken
<1> QED
    BY <1>2, Invariance, PTL

\* Whatever the number of sessions, in every deadlock on one table there is a
\* transaction that waits for a row while it has changed or locked another one:
\* the objtimestamp row alone, which every change shares, never makes one.
THEOREM DeadlockNeedsTwoRows == Spec => []DeadlocksNeedTwoRows
<1>1. ASSUME IInv, NEW S \in SUBSET Writers, S # {}, Cycle(S)
      PROVE  \E v \in S : /\ wpc[v] = "lockrow"
                          /\ \E r \in Ids \ {stmt[v].row} : r \in touched[v] \/ rowLock[r] = v
    <2>1. \A x \in S : /\ wpc[x] \in {"lockrow", "trigger"}
                       /\ \E y \in S : WaitsFor(x, y)
                       /\ \E y \in S : WaitsFor(y, x)
        BY <1>1 DEF Cycle, WaitsFor
    <2>2. \A x \in S : wpc[x] = "lockrow" => stmt[x].row \in Ids
        BY <1>1 DEF IInv, TypeOK, Statement
    <2>3. ASSUME NEW x \in S, NEW y \in S, wpc[x] = "trigger", WaitsFor(x, y)
          PROVE  wpc[y] = "lockrow" /\ \E r \in Ids \ {stmt[y].row} : r \in touched[y]
        \* y holds the objtimestamp row, so it has changed a row and waits for one.
        <3>1. verLock = y
            BY <2>3 DEF WaitsFor
        <3>2. PICK r \in Ids : r \in touched[y]
            BY <1>1, <3>1 DEF IInv, ChangersHoldVersion, TypeOK
        <3>3. PICK z \in S : WaitsFor(y, z)
            BY <2>1
        <3>4. wpc[y] = "lockrow" /\ rowLock[stmt[y].row] = z /\ z # y
            BY <3>1, <3>3 DEF WaitsFor
        <3>5. rowLock[r] \in {NoWriter, y}
            BY <1>1, <3>2 DEF IInv, RowsHaveOneWriter, Writing
        <3>6. r # stmt[y].row
            BY <3>4, <3>5
        <3> QED
            BY <3>2, <3>4, <3>6
    <2>4. ASSUME \A x \in S : wpc[x] = "lockrow", NEW x \in S
          PROVE  \E r \in Ids \ {stmt[x].row} : rowLock[r] = x
        \* The row that another one wants of x is not the row that x wants.
        <3>1. PICK y \in S : WaitsFor(y, x)
            BY <2>1
        <3>2. PICK z \in S : WaitsFor(x, z)
            BY <2>1
        <3>3. rowLock[stmt[y].row] = x /\ rowLock[stmt[x].row] = z /\ z # x
            BY <2>4, <3>1, <3>2 DEF WaitsFor
        <3>4. stmt[y].row \in Ids
            BY <2>2, <2>4
        <3> QED
            BY <3>3, <3>4
    <2>5. CASE \E x \in S : wpc[x] = "trigger"
        BY <2>1, <2>3, <2>5
    <2>6. CASE \A x \in S : wpc[x] = "lockrow"
        BY <1>1, <2>4, <2>6
    <2> QED
        BY <2>1, <2>5, <2>6
<1>2. IInv => DeadlocksNeedTwoRows
    BY <1>1 DEF DeadlocksNeedTwoRows
<1> QED
    BY <1>2, Invariance, PTL

-----------------------------------------------------------------------------
(* VersionCache implements CopiedTable *)

LEMMA InitRefines == Init => Copied!Init
BY DEF Init, Copied!Init, Copied!Ids, Ids

\* What the abstract module speaks of.
promised == <<content, lasttimestamp, modifytime, highest, cache, dt, missed>>

LEMMA StutterRefines ==
    ASSUME UNCHANGED promised
    PROVE  UNCHANGED Copied!vars
BY DEF promised, Copied!vars, Copied!rows

\* A commit changes the rows that the transaction has written, none of which has
\* been deleted, or nothing.
LEMMA CommitRefines ==
    ASSUME IInv, NEW w \in Writers, Commit(w)
    PROVE  Copied!Change(touched[w]) \/ UNCHANGED promised
<1> USE DEF clientVars
<1>1. /\ content \in [Ids -> Content] /\ lasttimestamp \in [Ids -> Nat]
      /\ missed \in [Clients -> SUBSET Ids] /\ touched[w] \in SUBSET Ids
      /\ start[w] \in Nat /\ modifytime \in Nat /\ highest \in Nat
      /\ draft[w] \in [Ids -> Content]
    BY DEF IInv, TypeOK
<1>2. /\ content' = [r \in Ids |-> Current(w, r)]
      /\ lasttimestamp' = [r \in Ids |-> Stamp(w, r)]
      /\ modifytime' = Version(w)
      /\ highest' = IF modifytime' > highest THEN modifytime' ELSE highest
      /\ missed' = [c \in Clients |-> IF start[w] <= Known(c)
                                      THEN missed[c] \union touched[w]
                                      ELSE missed[c] \ touched[w]]
      /\ UNCHANGED <<cache, dt>>
    BY DEF Commit
<1>3. CASE touched[w] = {}
    <2>1. content' = content /\ lasttimestamp' = lasttimestamp
        BY <1>1, <1>2, <1>3 DEF Current, Stamp
    <2>2. modifytime' = modifytime
        BY <1>2, <1>3 DEF Version, IInv, ChangersHoldVersion
    <2>3. highest' = highest
        BY <1>1, <1>2, <2>2 DEF IInv, VersionsBounded
    <2>4. missed' = missed
        BY <1>1, <1>2, <1>3
    <2> QED
        BY <1>2, <2>1, <2>2, <2>3, <2>4 DEF promised
<1>4. CASE touched[w] # {}
    <2>1. modifytime' = start[w] /\ start[w] > 0
        BY <1>2, <1>4 DEF Version, IInv, ChangersHoldVersion, HoldersAtWork
    <2>2. \A r \in touched[w] : ~Copied!Deleted(r)
        BY <1>1 DEF Copied!Deleted, IInv, RowsHaveOneWriter, Writing
    <2>3. content' \in [Ids -> Vals \union {NoVal}]
          /\ \A r \in Ids \ touched[w] : content'[r] = content[r]
        BY <1>1, <1>2 DEF Current, Content
    <2>4. lasttimestamp' = [r \in Ids |-> IF r \in touched[w] THEN modifytime'
                                                               ELSE lasttimestamp[r]]
        BY <1>2, <2>1 DEF Stamp
    <2>5. \E C \in SUBSET Clients :
              /\ C # {} => modifytime' <= highest
              /\ missed' = [c \in Clients |-> IF c \in C THEN missed[c] \union touched[w]
                                                         ELSE missed[c] \ touched[w]]
        <3> DEFINE C == {c \in Clients : start[w] <= Known(c)}
        <3>1. \A c \in Clients : Known(c) \in Nat /\ Known(c) <= highest
            BY DEF Known, IInv, TypeOK, VersionsBounded
        <3>2. C # {} => modifytime' <= highest
            BY <1>1, <2>1, <3>1
        <3>3. missed' = [c \in Clients |-> IF c \in C THEN missed[c] \union touched[w]
                                                      ELSE missed[c] \ touched[w]]
            BY <1>2
        <3> HIDE DEF C
        <3>4. C \in SUBSET Clients
            BY DEF C
        <3> QED
            BY <3>2, <3>3, <3>4
    <2> QED
        BY <1>2, <1>4, <2>1, <2>2, <2>3, <2>4, <2>5 DEF Copied!Change, Copied!Ids, Ids
<1> QED
    BY <1>3, <1>4

\* Every other step of a writer is its own business.
LEMMA WriterRefines ==
    ASSUME IInv, NEW w \in Writers, WriterStep(w)
    PROVE  (\E S \in SUBSET Copied!Ids : Copied!Change(S)) \/ UNCHANGED promised
<1>1. CASE Commit(w)
    <2>1. touched[w] \in SUBSET Copied!Ids
        BY DEF IInv, TypeOK, Copied!Ids, Ids
    <2> QED
        BY <1>1, <2>1, CommitRefines
<1>2. CASE UNCHANGED <<dbVars, clientVars, missed>>
    BY <1>2 DEF dbVars, clientVars, promised
<1> QED
    BY <1>1, <1>2 DEF WriterStep, Begin, Insert, Update, Delete, Issue, GoOn, LockRow, SkipUnchanged,
       FireTrigger, Abort, DeadlockVictim, RollBack

\* A client gets an answer that leaves in its copy what the table has, what it had,
\* or, where it may lose rows, no row; if the poll ends with it the copy is right
\* but for what CopiesExplained allows.
LEMMA AnswerRefines ==
    ASSUME IInv, CopiesExplained', NEW c \in Clients, UNCHANGED dbVars,
           NEW f, cache' = [cache EXCEPT ![c] = f], f \in [Ids -> Content],
           NEW A \in SUBSET Ids, missed' = [missed EXCEPT ![c] = A],
           A \subseteq missed[c] \/ modifytime < highest,
           \A r \in Ids : \/ f[r] \in {content[r], cache[c][r]}
                          \/ f[r] = NoVal /\ (modifytime < highest \/ ~PagesInOrder),
           \/ UNCHANGED dt
           \/ cpc[c] # "idle" /\ cpc'[c] = "idle" /\ dt' = [dt EXCEPT ![c] = seen[c]]
    PROVE  Copied!Answer(c)
<1> USE DEF dbVars
<1>1. \E T, L \in SUBSET Copied!Ids :
          /\ L # {} => Copied!SetBack \/ ~PagesInOrder
          /\ Copied!Copies(c, T, L)
    <2> DEFINE T == {r \in Ids : f[r] = content[r]}
               L == {r \in Ids : f[r] \notin {content[r], cache[c][r]}}
    <2>1. L # {} => Copied!SetBack \/ ~PagesInOrder
        BY DEF Copied!SetBack
    <2>2. f = [r \in Ids |-> IF r \in T THEN content[r]
                             ELSE IF r \in L THEN NoVal ELSE cache[c][r]]
        <3>1. \A r \in Ids : f[r] = IF r \in T THEN content[r]
                                    ELSE IF r \in L THEN NoVal ELSE cache[c][r]
            OBVIOUS
        <3> HIDE DEF T, L
        <3> QED
            BY <3>1
    <2>3. T \in SUBSET Copied!Ids /\ L \in SUBSET Copied!Ids
        BY DEF Copied!Ids, Ids
    <2> HIDE DEF T, L
    <2>4. Copied!Copies(c, T, L)
        BY <2>2 DEF Copied!Copies, Copied!Ids, Ids
    <2> QED
        BY <2>1, <2>3, <2>4
<1>2. \E B \in SUBSET Copied!Ids :
          /\ missed' = [missed EXCEPT ![c] = B]
          /\ B \subseteq missed[c] \/ Copied!SetBack
    BY DEF Copied!SetBack, Copied!Ids, Ids
<1>3. UNCHANGED dt \/ \E k \in dt[c] + 1 .. highest : Copied!ComesTo(c, k)
    <2> SUFFICES ASSUME cpc[c] # "idle", cpc'[c] = "idle", dt' = [dt EXCEPT ![c] = seen[c]]
                 PROVE  \E k \in dt[c] + 1 .. highest : Copied!ComesTo(c, k)
        OBVIOUS
    <2>1. seen[c] \in dt[c] + 1 .. highest
        <3>1. dt[c] \in Nat /\ seen[c] \in Nat /\ highest \in Nat
            BY DEF IInv, TypeOK
        <3>2. dt[c] < seen[c] /\ seen[c] <= highest
            BY DEF IInv, PollsMoveForward, VersionsBounded
        <3> QED
            BY <3>1, <3>2
    <2>2. dt'[c] = seen[c]
        BY DEF IInv, TypeOK
    <2>3. ASSUME PagesInOrder, NEW r \in Ids
          PROVE  \/ Incremental /\ content[r] = NoVal
                 \/ cache'[c][r] = content[r]
                 \/ lasttimestamp[r] > seen[c]
                 \/ r \in missed'[c]
        BY <2>2, <2>3 DEF CopiesExplained, Explained, Answered, Shown, PagesInOrder
    <2>4. Copied!ComesTo(c, seen[c])
        BY <2>3 DEF Copied!ComesTo, Copied!Ids, Ids
    <2> QED
        BY <2>1, <2>4
<1> QED
    BY <1>1, <1>2, <1>3 DEF Copied!Answer, Copied!rows

\* What a page leaves in the copy: a row that the page answers for and does not
\* contain is gone, if the pages go by id.
LEMMA FetchRefines ==
    ASSUME IInv, CopiesExplained', NEW c \in Clients, Fetch(c)
    PROVE  Copied!Answer(c)
<1> USE DEF dbVars
<1>1. PICK P \in Pages(Matching(c)) :
          IF MaxPage = 0 \/ Cardinality(P) < MaxPage
          THEN EndPoll(c) /\ StorePage(c, P, MaxId)
          ELSE \E last \in P :
                  /\ \A p \in P : p <= last
                  /\ ibegin' = [ibegin EXCEPT ![c] = last]
                  /\ cpc' = [cpc EXCEPT ![c] = "check"]
                  /\ StorePage(c, P, last)
                  /\ UNCHANGED <<dt, seen>>
    BY DEF Fetch
<1>2. Matching(c) \in SUBSET Ids /\ P \in SUBSET Ids
    BY <1>1 DEF Matching, Rest, Pages
<1>3. UNCHANGED dbVars /\ cpc[c] = "fetch" /\ cpc \in [Clients -> {"idle", "check", "fetch"}]
      /\ cache \in [Clients -> [Ids -> Content]] /\ content \in [Ids -> Content]
      /\ missed \in [Clients -> SUBSET Ids]
    BY DEF Fetch, IInv, TypeOK
<1>4. ASSUME NEW upto, StorePage(c, P, upto),
             PagesInOrder => \A r \in Matching(c) : r <= upto => r \in P,
             \/ UNCHANGED dt
             \/ cpc'[c] = "idle" /\ dt' = [dt EXCEPT ![c] = seen[c]]
      PROVE  Copied!Answer(c)
    <2> DEFINE answered == {r \in Rest(c) : r <= upto}
               f == [r \in Ids |-> IF r \in P THEN content[r]
                                   ELSE IF ~Incremental /\ r \in answered THEN NoVal
                                   ELSE cache[c][r]]
               A == missed[c] \ (IF Incremental THEN P ELSE answered)
    <2>1. cache' = [cache EXCEPT ![c] = f] /\ missed' = [missed EXCEPT ![c] = A]
        BY <1>4 DEF StorePage
    <2>2. f \in [Ids -> Content] /\ A \in SUBSET Ids /\ A \subseteq missed[c]
        BY <1>3 DEF Content
    <2>3. ASSUME NEW r \in Ids
          PROVE  \/ f[r] \in {content[r], cache[c][r]}
                 \/ f[r] = NoVal /\ ~PagesInOrder
        <3>1. CASE r \in P \/ Incremental \/ r \notin answered
            BY <3>1
        <3>2. CASE r \notin P /\ ~Incremental /\ r \in answered /\ PagesInOrder
            BY <1>4, <3>2 DEF Matching
        <3> QED
            BY <3>1, <3>2
    <2> HIDE DEF f, A
    <2> QED
        BY <1>3, <1>4, <2>1, <2>2, <2>3, AnswerRefines
<1>5. CASE MaxPage = 0 \/ Cardinality(P) < MaxPage
    <2>1. EndPoll(c) /\ StorePage(c, P, MaxId)
        BY <1>1, <1>5
    <2>2. PagesInOrder => P = Matching(c)
        BY <1>1, <1>2, <1>5, PageIsPrefix
    <2>3. cpc'[c] = "idle" /\ dt' = [dt EXCEPT ![c] = seen[c]]
        BY <1>3, <2>1 DEF EndPoll
    <2> QED
        BY <1>4, <2>1, <2>2, <2>3
<1>6. CASE ~(MaxPage = 0 \/ Cardinality(P) < MaxPage)
    <2>1. PICK last \in P : StorePage(c, P, last) /\ UNCHANGED dt
        BY <1>1, <1>6
    <2>2. ASSUME PagesInOrder, NEW r \in Matching(c), r <= last, r \notin P PROVE FALSE
        <3>1. last < r
            BY <1>1, <1>2, <1>6, <2>2, PageIsPrefix
        <3> QED
            BY <1>2, <2>2, <3>1 DEF Ids
    <2> QED
        BY <1>4, <2>1, <2>2
<1> QED
    BY <1>5, <1>6

\* A poll that is told there is nothing new loses rows only if the version has
\* been set back since it began.
LEMMA CheckFailsRefines ==
    ASSUME IInv, CopiesExplained', NEW c \in Clients, CheckFails(c)
    PROVE  Copied!Answer(c)
<1> DEFINE f == [r \in Ids |-> IF ~Incremental /\ r \in Rest(c) THEN NoVal ELSE cache[c][r]]
           A == missed[c] \union {r \in Rest(c) : Incremental => lasttimestamp[r] > dt[c]}
<1>1. UNCHANGED dbVars /\ cpc[c] # "idle"
    BY DEF CheckFails
<1>2. cache' = [cache EXCEPT ![c] = f] /\ missed' = [missed EXCEPT ![c] = A]
    BY DEF CheckFails
<1>3. cache[c] \in [Ids -> Content] /\ missed[c] \in SUBSET Ids
    BY DEF IInv, TypeOK
<1>4. f \in [Ids -> Content] /\ A \in SUBSET Ids
    BY <1>3 DEF Content, Rest
<1>5. modifytime < highest
    <2>1. modifytime \in Nat /\ highest \in Nat /\ dt[c] \in Nat /\ seen[c] \in Nat
        BY DEF IInv, TypeOK
    <2>2. modifytime <= dt[c] /\ dt[c] < seen[c] /\ seen[c] <= highest
        BY <1>1 DEF CheckFails, IInv, PollsMoveForward, VersionsBounded
    <2> QED
        BY <2>1, <2>2
<1>6. \A r \in Ids : f[r] \in {content[r], cache[c][r]} \/ f[r] = NoVal
    OBVIOUS
<1>7. cpc'[c] = "idle" /\ dt' = [dt EXCEPT ![c] = seen[c]]
    BY DEF CheckFails, EndPoll, IInv, TypeOK
<1> HIDE DEF f, A
<1> QED
    BY <1>1, <1>2, <1>4, <1>5, <1>6, <1>7, AnswerRefines

LEMMA ClientRefines ==
    ASSUME IInv, CopiesExplained', NEW c \in Clients, ClientStep(c)
    PROVE  Copied!Answer(c) \/ Copied!Forget(c) \/ UNCHANGED promised
<1>1. CASE StartPoll(c) \/ Check(c)
    BY <1>1 DEF StartPoll, Check, promised, dbVars
<1>2. CASE Restart(c)
    BY <1>2 DEF Restart, dbVars, Copied!Forget, Copied!rows, Copied!Ids, Ids
<1> QED
    BY <1>1, <1>2, FetchRefines, CheckFailsRefines DEF ClientStep

LEMMA NextRefines == IInv /\ IInv' /\ [Next]_vars => [Copied!Next]_Copied!vars
<1> SUFFICES ASSUME IInv, IInv', [Next]_vars
             PROVE  Copied!Next \/ UNCHANGED Copied!vars
    OBVIOUS
<1>1. CopiesExplained'
    BY DEF IInv
<1>2. ASSUME NEW w \in Writers, WriterStep(w) PROVE Copied!Next \/ UNCHANGED Copied!vars
    BY <1>2, WriterRefines, StutterRefines DEF Copied!Next
<1>3. ASSUME NEW c \in Clients, ClientStep(c) PROVE Copied!Next \/ UNCHANGED Copied!vars
    BY <1>1, <1>3, ClientRefines, StutterRefines DEF Copied!Next
<1>4. CASE UNCHANGED vars
    BY <1>4, StutterRefines DEF vars, dbVars, clientVars, promised
<1> QED
    BY <1>2, <1>3, <1>4 DEF Next

\* The protocol keeps what it promises, for any number of writers, clients and rows,
\* any page size and any view: the table changes by whole transactions that bring no
\* deleted row back, and a client that comes to a version has every row right but
\* for later changes and for those it came too late to be told of.
THEOREM CopiesKeepTheirPromise == Spec => CopiesAsPromised
<1>1. Init => IInv /\ Copied!Init
    BY InitInv, InitRefines
<1>2. IInv /\ [Next]_vars => IInv'
    BY StepInv
<1>3. IInv /\ IInv' /\ [Next]_vars => [Copied!Next]_Copied!vars
    BY NextRefines
<1> QED
    BY <1>1, <1>2, <1>3, PTL DEF Spec, CopiesAsPromised, Copied!Spec

=============================================================================
