---------------------------- MODULE CopiedTable ----------------------------
(***************************************************************************)
(* What the cache-version protocol promises its clients.  There is a table *)
(* that transactions change, each at once, and a copy of it at every       *)
(* client.  A copy takes rows as they are in the table, loses rows only    *)
(* when the version of the table has been set back, and when it moves on   *)
(* to another version it is right, but for rows changed after that version *)
(* and rows whose change the client has come too late for.  VersionCache,  *)
(* where transactions lock rows one after another and clients read page by *)
(* page, is shown to implement this module.                                *)
(***************************************************************************)
EXTENDS Integers

CONSTANTS
    Clients,      \* applications that keep a copy of the table
    Vals,         \* contents a row can have
    NoVal,        \* "no such row", in the table and in a copy
    MaxId,        \* bound: ids the sequence of the table hands out
    Incremental,  \* the view shows changes only, and no deleted rows
    InOrder       \* the pages of the view go by id

VARIABLES
    table,    \* the rows of the table
    stamp,    \* when the transaction began that changed a row last, 0 for none
    version,  \* when the transaction began that changed the table last
    highest,  \* the highest version there has been
    copy,     \* the rows each client has
    known,    \* the version of its copy
    late      \* rows whose change a client may not be told of

rows == <<table, stamp, version, highest>>
vars == <<rows, copy, known, late>>

Ids == 1 .. MaxId

Init ==
    /\ table = [r \in Ids |-> NoVal]
    /\ stamp = [r \in Ids |-> 0]
    /\ version = 0
    /\ highest = 0
    /\ copy = [c \in Clients |-> [r \in Ids |-> NoVal]]
    /\ known = [c \in Clients |-> 0]
    /\ late = [c \in Clients |-> {}]

-----------------------------------------------------------------------------
(* Transactions *)

\* A row that has been deleted: its id is not handed out again.
Deleted(r) == stamp[r] > 0 /\ table[r] = NoVal

\* A transaction changes the rows S, none of which has been deleted, and takes
\* the table to the time at which it began.  If there has been a version as
\* late as that, some clients may have read it, and will not be told of S.
Change(S) ==
    /\ S # {}
    /\ \A r \in S : ~Deleted(r)
    /\ version' > 0
    /\ table' \in [Ids -> Vals \union {NoVal}]
    /\ \A r \in Ids \ S : table'[r] = table[r]
    /\ stamp' = [r \in Ids |-> IF r \in S THEN version' ELSE stamp[r]]
    /\ highest' = IF version' > highest THEN version' ELSE highest
    /\ \E C \in SUBSET Clients :
          /\ C # {} => version' <= highest
          /\ late' = [c \in Clients |-> IF c \in C THEN late[c] \union S ELSE late[c] \ S]
    /\ UNCHANGED <<copy, known>>

-----------------------------------------------------------------------------
(* Clients *)

SetBack == version < highest

\* The copy of c takes the rows T as they are, and loses the rows L.
Copies(c, T, L) ==
    copy' = [copy EXCEPT ![c] = [r \in Ids |-> IF r \in T THEN table[r]
                                               ELSE IF r \in L THEN NoVal
                                               ELSE copy[c][r]]]

\* The copy of c becomes that of version k: every row that the view shows is
\* right, or was changed after k, or is one that c may not be told of.
ComesTo(c, k) ==
    /\ known' = [known EXCEPT ![c] = k]
    /\ InOrder => \A r \in Ids :
          \/ Incremental /\ table[r] = NoVal
          \/ copy'[c][r] = table[r]
          \/ stamp[r] > k
          \/ r \in late'[c]

\* The client gets an answer: some rows of the table, all of one moment.
Answer(c) ==
    /\ \E T, L \in SUBSET Ids :
          /\ L # {} => SetBack \/ ~InOrder
          /\ Copies(c, T, L)
    /\ \E A \in SUBSET Ids :
          /\ late' = [late EXCEPT ![c] = A]
          /\ A \subseteq late[c] \/ SetBack
    /\ UNCHANGED known \/ \E k \in known[c] + 1 .. highest : ComesTo(c, k)
    /\ UNCHANGED rows

\* The client begins anew, without a copy.
Forget(c) ==
    /\ copy' = [copy EXCEPT ![c] = [r \in Ids |-> NoVal]]
    /\ known' = [known EXCEPT ![c] = 0]
    /\ late' = [late EXCEPT ![c] = {}]
    /\ UNCHANGED rows

Next ==
    \/ \E S \in SUBSET Ids : Change(S)
    \/ \E c \in Clients : Answer(c) \/ Forget(c)

Spec == Init /\ [][Next]_vars

=============================================================================
