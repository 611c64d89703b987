--------------------------- MODULE SiteWalkProofs ---------------------------
(***************************************************************************)
(* What the retrieval of devices below a list of sites returns, whatever   *)
(* other sessions commit between its steps, for every number of sites and  *)
(* devices, every list and every number of changes (NotTwice,              *)
(* StayedAreReturned, ReturnsWhatItPromises).                              *)
(*                                                                         *)
(* Path is recursive, and what is known of it comes from inductions over   *)
(* the ids of sites: a parent is older than its site.  Each of them looks  *)
(* at the least site for which a claim fails, so that the induction is a   *)
(* set of numbers having a least element, which WellFoundedInduction       *)
(* states of any set.                                                      *)
(***************************************************************************)
EXTENDS SiteWalk, SequenceTheorems, WellFoundedInduction, TLAPS

USE BoundsAssumption DEF Root, SiteIds, NoRow, Nowhere

-----------------------------------------------------------------------------
(* Paths in a tree *)

\* P gives the paths that Path gives if par are the parents of sites.
IsPath(par, P) ==
    P = [s \in SiteIds |-> {s} \union IF par[s] \in 1 .. s - 1 THEN P[par[s]] ELSE {}]

\* A set of numbers has a least element.
LEMMA LeastElement ==
    ASSUME NEW T \in SUBSET Nat, T # {}
    PROVE  \E m \in T : \A k \in T : m <= k
<1> DEFINE R == OpToRel(<, Nat)
<1>1. IsWellFoundedOn(R, Nat)
    BY NatLessThanWellFounded
<1>2. \A x, y \in Nat : x < y => <<x, y>> \in R
    BY DEF OpToRel
<1> HIDE DEF R
<1>3. \E x \in T : \A y \in T : <<y, x>> \notin R
    BY <1>1, WFMin
<1>4. \A x, y \in T : <<y, x>> \notin R => x <= y
    BY <1>2
<1> QED
    BY <1>3, <1>4

\* Sites that all fail to have some property include one whose older sites have it.
LEMMA Oldest ==
    ASSUME NEW Bad \in SUBSET SiteIds,
           \A s \in Bad : \E t \in Bad : t < s
    PROVE  Bad = {}
<1> SUFFICES ASSUME Bad # {} PROVE FALSE
    OBVIOUS
<1>1. Bad \in SUBSET Nat
    OBVIOUS
<1>2. PICK m \in Bad : \A k \in Bad : m <= k
    BY <1>1, LeastElement
<1> QED
    BY <1>2

\* The recursion of Path ends: it has the value of its body.
LEMMA PathExists ==
    ASSUME NEW par
    PROVE  \E P : IsPath(par, P)
<1> DEFINE Body(f, s) == {s} \union IF par[s] \in 1 .. s - 1 THEN f[par[s]] ELSE {}
           Upto(n, f) == \A s \in 1 .. n : f[s] = Body(f, s)
           Bad == {n \in SiteIds : ~ \E f : Upto(n, f)}
<1>1. ASSUME NEW n \in SiteIds, NEW g, Upto(n - 1, g) PROVE \E f : Upto(n, f)
    <2> DEFINE h == [s \in 1 .. n |-> Body(g, s)]
    <2>1. \A s \in 1 .. n : h[s] = Body(g, s)
        OBVIOUS
    <2> HIDE DEF h
    <2>2. \A s \in 1 .. n - 1 : h[s] = g[s]
        <3> HIDE DEF Body
        <3>1. \A s \in 1 .. n - 1 : s \in 1 .. n
            OBVIOUS
        <3> QED
            BY <1>1, <2>1, <3>1
    <2>3. ASSUME NEW s \in 1 .. n PROVE Body(h, s) = Body(g, s)
        <3>1. \A t \in 1 .. s - 1 : h[t] = g[t]
            BY <2>2
        <3> QED
            BY <3>1
    <2> HIDE DEF Body
    <2>4. Upto(n, h)
        BY <2>1, <2>3
    <2> QED
        BY <2>4
<1>2. ASSUME NEW s \in Bad PROVE \E t \in Bad : t < s
    <2>1. CASE s = 1
        <3>1. Upto(s - 1, <<>>)
            BY <2>1
        <3> HIDE DEF Upto
        <3> QED
            BY <1>1, <3>1
    <2>2. CASE s # 1
        <3> HIDE DEF Upto
        <3>1. \A f : ~ Upto(s - 1, f)
            BY <1>1
        <3>2. s - 1 \in SiteIds /\ s - 1 < s
            BY <2>2
        <3> HIDE DEF Upto
        <3>3. s - 1 \in Bad
            BY <3>1, <3>2
        <3> QED
            BY <3>2, <3>3
    <2> QED
        BY <2>1, <2>2
<1>3. Bad = {}
    <2>1. Bad \in SUBSET SiteIds
        OBVIOUS
    <2> HIDE DEF Bad
    <2> QED
        BY <1>2, <2>1, Oldest
<1>4. PICK f : \A s \in SiteIds : f[s] = Body(f, s)
    <2>1. MaxSite \in SiteIds \ Bad
        BY <1>3
    <2> QED
        BY <2>1
<1> DEFINE P == [s \in SiteIds |-> f[s]]
<1>5. \A s \in SiteIds : P[s] = Body(P, s)
    <2>1. \A s \in SiteIds : par[s] \in 1 .. s - 1 => P[par[s]] = f[par[s]]
        OBVIOUS
    <2>2. \A s \in SiteIds : Body(P, s) = Body(f, s)
        BY <2>1
    <2> HIDE DEF Body
    <2> QED
        BY <1>4, <2>2
<1>6. P = [s \in SiteIds |-> Body(P, s)]
    <2> P = [s \in SiteIds |-> P[s]]
        OBVIOUS
    <2> HIDE DEF Body, P
    <2> QED
        BY <1>5
<1>7. IsPath(par, P)
    <2> HIDE DEF P
    <2> QED
        BY <1>6 DEF IsPath
<1> QED
    BY <1>7

\* Path satisfies its own equation, in every state.
LEMMA PathIsPath == IsPath(parent, Path)
BY PathExists DEF IsPath, Path

LEMMA PathIsPathNext == IsPath(parent', Path')
<1>1. IsPath(parent, Path)'
    BY PathIsPath, PTL
<1> QED
    BY <1>1 DEF IsPath

\* A path has its site, and otherwise only older ones.
LEMMA PathOlder ==
    ASSUME NEW par, NEW P, IsPath(par, P), NEW s \in SiteIds
    PROVE  s \in P[s] /\ P[s] \subseteq 1 .. s
<1> DEFINE Bad == {n \in SiteIds : ~(P[n] \subseteq 1 .. n)}
<1>1. ASSUME NEW n \in SiteIds
      PROVE  P[n] = {n} \union IF par[n] \in 1 .. n - 1 THEN P[par[n]] ELSE {}
    BY DEF IsPath
<1>2. ASSUME NEW n \in Bad PROVE \E m \in Bad : m < n
    <2>1. par[n] \in 1 .. n - 1
        BY <1>1
    <2>2. par[n] \in SiteIds /\ par[n] < n
        BY <2>1
    <2>3. P[n] = {n} \union P[par[n]]
        BY <1>1, <2>1
    <2>4. P[par[n]] \subseteq 1 .. par[n] => P[n] \subseteq 1 .. n
        BY <2>2, <2>3
    <2> QED
        BY <2>2, <2>4
<1>3. Bad = {}
    <2>1. Bad \in SUBSET SiteIds
        OBVIOUS
    <2> HIDE DEF Bad
    <2> QED
        BY <1>2, <2>1, Oldest
<1> QED
    BY <1>1, <1>3

\* The path of a site with a parent is that of its parent with the site itself.
LEMMA PathOfParent ==
    ASSUME NEW par, NEW P, IsPath(par, P), NEW s \in SiteIds, par[s] \in 1 .. s - 1
    PROVE  P[s] = {s} \union P[par[s]] /\ s \notin P[par[s]] /\ par[s] \in P[s]
<1>1. P[s] = {s} \union P[par[s]]
    BY DEF IsPath
<1>2. par[s] \in P[par[s]] /\ P[par[s]] \subseteq 1 .. par[s]
    BY PathOlder
<1> QED
    BY <1>1, <1>2

LEMMA PathOfOrphan ==
    ASSUME NEW par, NEW P, IsPath(par, P), NEW s \in SiteIds, par[s] \notin 1 .. s - 1
    PROVE  P[s] = {s}
BY DEF IsPath

\* The path of a site on a path is the rest of that path.
LEMMA PathRest ==
    ASSUME NEW par, NEW P, IsPath(par, P), NEW a \in SiteIds, NEW y \in P[a]
    PROVE  P[y] = {x \in P[a] : x <= y}
<1> DEFINE Good(n) == \A z \in P[n] : P[z] = {x \in P[n] : x <= z}
           Bad == {n \in SiteIds : ~Good(n)}
<1>1. ASSUME NEW n \in SiteIds, par[n] \in 1 .. n - 1 => Good(par[n]) PROVE Good(n)
    <2> SUFFICES ASSUME NEW z \in P[n] PROVE P[z] = {x \in P[n] : x <= z}
        OBVIOUS
    <2>1. P[n] \subseteq 1 .. n
        BY PathOlder
    <2>2. CASE z = n
        BY <2>1, <2>2
    <2>3. CASE z # n /\ par[n] \in 1 .. n - 1
        <3>1. P[n] = {n} \union P[par[n]]
            BY <2>3, PathOfParent
        <3>2. P[z] = {x \in P[par[n]] : x <= z}
            BY <1>1, <2>3, <3>1
        <3> QED
            BY <2>1, <2>3, <3>1, <3>2
    <2>4. CASE z # n /\ par[n] \notin 1 .. n - 1
        BY <2>4, PathOfOrphan
    <2> QED
        BY <2>2, <2>3, <2>4
<1>2. ASSUME NEW n \in Bad PROVE \E m \in Bad : m < n
    <2> HIDE DEF Good
    <2>1. par[n] \in 1 .. n - 1 /\ ~Good(par[n])
        BY <1>1
    <2>2. par[n] \in Bad /\ par[n] < n
        BY <2>1
    <2> QED
        BY <2>2
<1>3. Bad = {}
    <2>1. Bad \in SUBSET SiteIds
        OBVIOUS
    <2> HIDE DEF Bad
    <2> QED
        BY <1>2, <2>1, Oldest
<1>4. Good(a)
    <2> HIDE DEF Good
    <2> QED
        BY <1>3
<1> QED
    BY <1>4

\* Every site on a path but the first is the parent of another one.
LEMMA PathChild ==
    ASSUME NEW par, NEW P, IsPath(par, P),
           NEW a \in SiteIds, NEW t \in P[a], t # a
    PROVE  \E u \in P[a] : par[u] = t
<1> DEFINE Good(n) == \A z \in P[n] : z # n => \E u \in P[n] : par[u] = z
           Bad == {n \in SiteIds : ~Good(n)}
<1>1. ASSUME NEW n \in SiteIds, par[n] \in 1 .. n - 1 => Good(par[n]) PROVE Good(n)
    <2> SUFFICES ASSUME NEW z \in P[n], z # n PROVE \E u \in P[n] : par[u] = z
        OBVIOUS
    <2>1. par[n] \in 1 .. n - 1
        BY PathOfOrphan
    <2>2. P[n] = {n} \union P[par[n]]
        BY <2>1, PathOfParent
    <2> QED
        BY <1>1, <2>1, <2>2
<1>2. ASSUME NEW n \in Bad PROVE \E m \in Bad : m < n
    <2> HIDE DEF Good
    <2>1. par[n] \in 1 .. n - 1 /\ ~Good(par[n])
        BY <1>1
    <2>2. par[n] \in Bad /\ par[n] < n
        BY <2>1
    <2> QED
        BY <2>2
<1>3. Bad = {}
    <2>1. Bad \in SUBSET SiteIds
        OBVIOUS
    <2> HIDE DEF Bad
    <2> QED
        BY <1>2, <2>1, Oldest
<1>4. Good(a)
    <2> HIDE DEF Good
    <2> QED
        BY <1>3
<1> QED
    BY <1>4

\* A change of the parent of one site leaves the paths that do not come to it, and
\* if it takes the parent away it cuts the others there.
LEMMA PathCut ==
    ASSUME NEW par, NEW P, IsPath(par, P), NEW par2, NEW Q, IsPath(par2, Q),
           NEW r \in SiteIds, \A s \in SiteIds \ {r} : par2[s] = par[s],
           NEW a \in SiteIds
    PROVE  /\ r \notin P[a] => Q[a] = P[a]
           /\ r \in P[a] /\ par2[r] \notin 1 .. r - 1 => Q[a] = {x \in P[a] : x >= r}
<1> DEFINE Good(n) == /\ r \notin P[n] => Q[n] = P[n]
                      /\ r \in P[n] /\ par2[r] \notin 1 .. r - 1
                             => Q[n] = {x \in P[n] : x >= r}
           Bad == {n \in SiteIds : ~Good(n)}
<1>1. ASSUME NEW n \in SiteIds, par[n] \in 1 .. n - 1 => Good(par[n]) PROVE Good(n)
    <2>1. P[n] \subseteq 1 .. n /\ n \in P[n]
        BY PathOlder
    <2>2. CASE n = r
        <3>1. par2[r] \notin 1 .. r - 1 => Q[n] = {n}
            BY <2>2, PathOfOrphan
        <3> QED
            BY <2>1, <2>2, <3>1
    <2>3. CASE n # r /\ par[n] \in 1 .. n - 1
        <3>1. par2[n] = par[n]
            BY <2>3
        <3>2. P[n] = {n} \union P[par[n]]
            BY <2>3, PathOfParent
        <3>3. Q[n] = {n} \union Q[par[n]]
            BY <2>3, <3>1, PathOfParent
        <3>4. par[n] \in SiteIds
            BY <2>3
        <3>5. P[par[n]] \subseteq 1 .. par[n]
            BY <3>4, PathOlder
        <3>6. CASE r \in P[par[n]] /\ par2[r] \notin 1 .. r - 1
            <4>1. Q[par[n]] = {x \in P[par[n]] : x >= r}
                BY <1>1, <2>3, <3>6
            <4>2. n >= r
                BY <2>3, <3>5, <3>6
            <4> QED
                BY <3>2, <3>3, <3>6, <4>1, <4>2
        <3>7. CASE r \notin P[par[n]]
            BY <1>1, <2>3, <3>2, <3>3, <3>7
        <3> QED
            BY <2>3, <3>2, <3>6, <3>7
    <2>4. CASE n # r /\ par[n] \notin 1 .. n - 1
        <3>1. par2[n] = par[n]
            BY <2>4
        <3>2. P[n] = {n} /\ Q[n] = {n}
            BY <2>4, <3>1, PathOfOrphan
        <3> QED
            BY <2>4, <3>2
    <2> QED
        BY <2>2, <2>3, <2>4
<1>2. ASSUME NEW n \in Bad PROVE \E m \in Bad : m < n
    <2> HIDE DEF Good
    <2>1. par[n] \in 1 .. n - 1 /\ ~Good(par[n])
        BY <1>1
    <2>2. par[n] \in Bad /\ par[n] < n
        BY <2>1
    <2> QED
        BY <2>2
<1>3. Bad = {}
    <2>1. Bad \in SUBSET SiteIds
        OBVIOUS
    <2> HIDE DEF Bad
    <2> QED
        BY <1>2, <2>1, Oldest
<1>4. Good(a)
    <2> HIDE DEF Good
    <2> QED
        BY <1>3
<1> QED
    BY <1>4

-----------------------------------------------------------------------------
(* Lists *)

LEMMA ToSetOfSites ==
    ASSUME NEW l \in Seq(SiteIds)
    PROVE  /\ ToSet(l) \subseteq SiteIds
           /\ DOMAIN l = 1 .. Len(l) /\ Len(l) \in Nat
           /\ \A i \in 1 .. Len(l) : l[i] \in SiteIds /\ l[i] \in ToSet(l)
           /\ \A x \in ToSet(l) : \E i \in 1 .. Len(l) : l[i] = x
<1>1. DOMAIN l = 1 .. Len(l) /\ Len(l) \in Nat
    OBVIOUS
<1>2. \A i \in 1 .. Len(l) : l[i] \in SiteIds
    OBVIOUS
<1> QED
    BY <1>1, <1>2 DEF ToSet

\* Element k is removed, and those behind it move up.
LEMMA RemoveAtMovesUp ==
    ASSUME NEW l \in Seq(SiteIds), NEW k \in 1 .. Len(l)
    PROVE  /\ RemoveAt(l, k) \in Seq(SiteIds)
           /\ Len(RemoveAt(l, k)) = Len(l) - 1
           /\ \A i \in 1 .. Len(l) - 1 :
                  RemoveAt(l, k)[i] = IF i < k THEN l[i] ELSE l[i + 1]
<1> DEFINE a == SubSeq(l, 1, k - 1)
           b == SubSeq(l, k + 1, Len(l))
<1>1. Len(l) \in Nat /\ \A i \in 1 .. Len(l) : l[i] \in SiteIds
    BY ToSetOfSites
<1>2. a \in Seq(SiteIds) /\ Len(a) = k - 1 /\ \A i \in 1 .. k - 1 : a[i] = l[i]
    <2>1. 1 \in Int /\ k - 1 \in Int /\ \A i \in 1 .. k - 1 : l[i] \in SiteIds
        BY <1>1
    <2>2. /\ a \in Seq(SiteIds)
          /\ Len(a) = IF 1 <= k - 1 THEN (k - 1) - 1 + 1 ELSE 0
          /\ \A i \in 1 .. (k - 1) - 1 + 1 : a[i] = l[1 + i - 1]
        BY <2>1, SubSeqProperties
    <2> HIDE DEF a
    <2>3. ASSUME NEW i \in 1 .. k - 1 PROVE i \in 1 .. (k - 1) - 1 + 1 /\ 1 + i - 1 = i
        OBVIOUS
    <2> QED
        BY <2>2, <2>3
<1>3. b \in Seq(SiteIds) /\ Len(b) = Len(l) - k /\ \A i \in 1 .. Len(l) - k : b[i] = l[k + i]
    <2>1. k + 1 \in Int /\ Len(l) \in Int /\ \A i \in k + 1 .. Len(l) : l[i] \in SiteIds
        BY <1>1
    <2>2. /\ b \in Seq(SiteIds)
          /\ Len(b) = IF k + 1 <= Len(l) THEN Len(l) - (k + 1) + 1 ELSE 0
          /\ \A i \in 1 .. Len(l) - (k + 1) + 1 : b[i] = l[(k + 1) + i - 1]
        BY <2>1, SubSeqProperties
    <2> HIDE DEF b
    <2>3. ASSUME NEW i \in 1 .. Len(l) - k
          PROVE  i \in 1 .. Len(l) - (k + 1) + 1 /\ (k + 1) + i - 1 = k + i
        BY <1>1
    <2>4. Len(b) = Len(l) - k
        BY <1>1, <2>2
    <2> QED
        BY <2>2, <2>3, <2>4
<1> HIDE DEF a, b
<1>4. a \in Seq(SiteIds) /\ b \in Seq(SiteIds)
    BY <1>2, <1>3
<1>5. /\ a \o b \in Seq(SiteIds)
      /\ Len(a \o b) = Len(a) + Len(b)
      /\ \A i \in 1 .. Len(a) + Len(b) :
             (a \o b)[i] = IF i <= Len(a) THEN a[i] ELSE b[i - Len(a)]
    BY <1>4, ConcatProperties
<1>6. Len(a) = k - 1 /\ Len(b) = Len(l) - k /\ Len(a) + Len(b) = Len(l) - 1
    BY <1>1, <1>2, <1>3
<1> DEFINE c == a \o b
<1>7. \A i \in 1 .. Len(l) - 1 : c[i] = IF i <= k - 1 THEN a[i] ELSE b[i - (k - 1)]
    BY <1>5, <1>6
<1> HIDE DEF c
<1>8. ASSUME NEW i \in 1 .. Len(l) - 1
      PROVE  c[i] = IF i < k THEN l[i] ELSE l[i + 1]
    <2>1. CASE i < k
        <3>1. i \in 1 .. k - 1 /\ i <= k - 1
            BY <2>1
        <3>2. c[i] = a[i]
            BY <1>7, <3>1
        <3> QED
            BY <1>2, <2>1, <3>1, <3>2
    <2>2. CASE i >= k
        <3>1. i - (k - 1) \in 1 .. Len(l) - k /\ k + (i - (k - 1)) = i + 1
            BY <1>1, <2>2
        <3>2. c[i] = b[i - (k - 1)]
            BY <1>7, <2>2
        <3>3. b[i - (k - 1)] = l[i + 1]
            BY <1>3, <3>1
        <3> QED
            BY <2>2, <3>2, <3>3
    <2> QED
        BY <1>1, <2>1, <2>2
<1>9. RemoveAt(l, k) = c
    BY DEF RemoveAt, a, b, c
<1>10. c \in Seq(SiteIds) /\ Len(c) = Len(l) - 1
    BY <1>5, <1>6 DEF c
<1> QED
    BY <1>8, <1>9, <1>10

LEMMA RemoveAtLeaves ==
    ASSUME NEW l \in Seq(SiteIds), NEW k \in 1 .. Len(l)
    PROVE  /\ ToSet(RemoveAt(l, k)) \subseteq ToSet(l)
           /\ \A x \in ToSet(l) : x # l[k] => x \in ToSet(RemoveAt(l, k))
<1> DEFINE m == RemoveAt(l, k)
<1>1. m \in Seq(SiteIds) /\ Len(m) = Len(l) - 1 /\ Len(l) \in Nat
    BY RemoveAtMovesUp, ToSetOfSites
<1>2. \A i \in 1 .. Len(l) - 1 : m[i] = IF i < k THEN l[i] ELSE l[i + 1]
    BY RemoveAtMovesUp
<1> HIDE DEF m
<1>3. ASSUME NEW x \in ToSet(m) PROVE x \in ToSet(l)
    <2>1. PICK i \in 1 .. Len(l) - 1 : m[i] = x
        BY <1>1, ToSetOfSites
    <2>2. i \in 1 .. Len(l) /\ i + 1 \in 1 .. Len(l)
        BY <1>1
    <2> QED
        BY <1>2, <2>1, <2>2, ToSetOfSites
<1>4. ASSUME NEW x \in ToSet(l), x # l[k] PROVE x \in ToSet(m)
    <2>1. PICK i \in 1 .. Len(l) : l[i] = x
        BY ToSetOfSites
    <2>2. CASE i < k
        <3>1. i \in 1 .. Len(m) /\ m[i] = x
            BY <1>1, <1>2, <2>1, <2>2
        <3> QED
            BY <1>1, <3>1, ToSetOfSites
    <2>3. CASE i > k
        <3>1. i - 1 \in 1 .. Len(m) /\ m[i - 1] = x
            BY <1>1, <1>2, <2>1, <2>3
        <3> QED
            BY <1>1, <3>1, ToSetOfSites
    <2> QED
        BY <1>1, <1>4, <2>1, <2>2, <2>3
<1> QED
    BY <1>3, <1>4 DEF m

-----------------------------------------------------------------------------
(* The invariant *)

\* The tree that the calls on sites leave: a parent is older than its site, site 1
\* stays, ids are not used again, and devices are in sites that are there.
Tree ==
    /\ parent[Root] = 0
    /\ \A s \in SiteIds \ {Root} : parent[s] = NoRow \/ parent[s] \in 1 .. s - 1
    /\ \A s \in SiteIds : s >= nextid => parent[s] = NoRow
    /\ \A d \in Devices : place[d] # Nowhere => parent[place[d]] # NoRow

\* Positions of the list that are still to be fetched below.
Pending == CASE pc = "fetch"                   -> f1 + 1 .. Len(idps)
             [] pc \in {"devices", "children"} -> f1 + 2 .. Len(idps)
             [] OTHER                          -> {}

Walking == pc \in {"devices", "children"}
Fetched == pc \in {"fetch", "devices", "children", "done"}

\* What is left of the list is a part of it, without new duplicates, and nothing
\* is returned before its first site is fetched.
List ==
    /\ ToSet(idps) \subseteq ToSet(ids)
    /\ NoDuplicates => \A i, j \in DOMAIN idps : i # j => idps[i] # idps[j]
    /\ pc = "climb" => f1 < Len(idps)
    /\ Walking => f1 < Len(idps) /\ idps[f1 + 1] # Root /\ idt # {}
    /\ pc \in {"idle", "climb"} \/ (pc = "fetch" /\ f1 = 0) =>
           \A d \in Devices : returned[d] = 0
    /\ pc = "done" => f1 = Len(idps)

\* The climb is above idps[f1 + 1], and has passed no site of the list.  It may
\* be on a site that has been cut off from there.
Climbing ==
    pc = "climb" =>
        LET a == idps[f1 + 1] IN
        /\ idv \in 1 .. a
        /\ idv \in Path[a] \/ \A x \in Path[a] : x > idv
        /\ idv # a => a < nextid
        /\ \A x \in ToSet(idps) \intersect Path[a] : x # a => x < idv
        /\ idv = Root /\ a # Root => Root \notin ToSet(idps)

\* The sites that the climbs have left in the list.
Kept == CASE pc = "climb" -> 1 .. f1
          [] Fetched      -> DOMAIN idps
          [] OTHER        -> {}

\* No site that was kept is below another one of the list.
KeptClean ==
    \A i \in Kept :
        /\ idps[i] < nextid
        /\ ToSet(idps) \intersect Path[idps[i]] \subseteq {idps[i]}
        /\ idps[i] # Root => Root \notin ToSet(idps)

\* s is strictly below a site of X.
Below(s, X) == parent[s] \in 1 .. s - 1 /\ Path[parent[s]] \intersect X # {}

\* The level has no site below another one of it, or below or above one still
\* to be fetched.
Level ==
    Walking /\ NoDuplicates =>
        /\ idt \subseteq 1 .. nextid - 1
        /\ \A t, u \in idt : t \in Path[u] => t = u
        /\ \A t \in idt, j \in Pending : idps[j] \notin Path[t] /\ t \notin Path[idps[j]]

\* The sites whose devices and those of all sites below them are still to come.
Coming == CASE pc = "devices"  -> idt
            [] pc = "children" -> Children(idt)
            [] OTHER           -> {}

\* A device that was returned is not to come again.
Over(d) ==
    returned[d] >= 1 /\ place[d] # Nowhere =>
        /\ \A j \in Pending : idps[j] \notin Path[place[d]]
        /\ ~Below(place[d], Coming)

ReturnedOver ==
    NoDuplicates => \A d \in Devices \ moved : returned[d] <= 1 /\ Over(d)

\* A device that stays and was not returned is still to come.
ToCome(d) ==
    IF Root \in ToSet(ids)
    THEN (pc = "climb" /\ Root \in ToSet(idps)) \/ (\E j \in Pending : idps[j] = Root)
    ELSE \/ pc = "climb" /\ Path[place[d]] \intersect ToSet(idps) # {}
         \/ \E j \in Pending : idps[j] \in Path[place[d]]
         \/ Below(place[d], Coming)

PromisedToCome ==
    pc # "idle" => \A d \in Promised \ moved : returned[d] = 0 => ToCome(d)

\* As long as nothing changes the walk is below sites of the list and site 1.
Undisturbed ==
    changes = 0 =>
        /\ moved = {}
        /\ pc = "climb" => idv \in Path[idps[f1 + 1]]
        /\ \A i \in Kept : Rooted(idps[i])
        /\ Walking => \A t \in idt : Rooted(t) /\ Path[t] \intersect ToSet(ids) # {}
        /\ \A d \in Devices : returned[d] >= 1 => d \in Promised

IInv ==
    /\ TypeOK
    /\ Tree
    /\ List
    /\ Climbing
    /\ KeptClean
    /\ Level
    /\ ReturnedOver
    /\ PromisedToCome
    /\ Undisturbed

-----------------------------------------------------------------------------
(* What a step does to the database *)

\* A step of the call.
CallStep == (\E n \in 0 .. MaxList : \E l \in [1 .. n -> SiteIds] : Start(l)) \/ Walk

LEMMA CallStepReads ==
    ASSUME CallStep
    PROVE  UNCHANGED <<database, history>>
BY DEF CallStep, Walk, Start, Climb, Fetch, FetchLevel, NextLevel, Finish

\* Only site 1 has no parent and is there.
LEMMA Parents ==
    ASSUME TypeOK, Tree, NEW s \in SiteIds
    PROVE  /\ parent[s] \in Int
           /\ parent[s] = 0 <=> s = Root
           /\ parent[s] > 0 <=> parent[s] \in 1 .. s - 1
           /\ parent[s] = NoRow \/ parent[s] = 0 \/ parent[s] \in 1 .. s - 1
           /\ parent[s] \in 1 .. s - 1 => s < nextid /\ parent[s] \in SiteIds
           /\ parent[s] # NoRow => s < nextid
BY DEF TypeOK, Tree

\* The call comes to the next site of list l, or to the fetching.
LEMMA ClimbNextCases ==
    ASSUME NEW l \in Seq(SiteIds), NEW k \in 0 .. Len(l), ClimbNext(l, k)
    PROVE  /\ idps' = l
           /\ \/ /\ k < Len(l) /\ k + 1 \in 1 .. Len(l)
                 /\ pc' = "climb" /\ f1' = k /\ idv' = l[k + 1] /\ idv' \in SiteIds
              \/ /\ k = Len(l)
                 /\ pc' = "fetch" /\ f1' = 0 /\ idv' = 0
           /\ f1' \in 0 .. Len(l)
<1>1. Len(l) \in Nat /\ \A i \in 1 .. Len(l) : l[i] \in SiteIds
    BY ToSetOfSites
<1>2. CASE k < Len(l)
    <2>1. k + 1 \in 1 .. Len(l) /\ l[k + 1] \in SiteIds
        BY <1>1, <1>2
    <2> QED
        BY <1>1, <1>2, <2>1 DEF ClimbNext
<1>3. CASE k = Len(l)
    BY <1>1, <1>3 DEF ClimbNext
<1> QED
    BY <1>1, <1>2, <1>3

\* Where the climb is, and what the list is like there.
LEMMA ClimbAt ==
    ASSUME IInv, pc = "climb"
    PROVE  /\ f1 \in Nat /\ Len(idps) \in Nat /\ f1 + 1 \in 1 .. Len(idps) /\ f1 < Len(idps)
           /\ idps[f1 + 1] \in SiteIds
           /\ idv \in SiteIds /\ idv <= idps[f1 + 1]
           /\ f1 \in 0 .. Len(RemoveAt(idps, f1 + 1))
           /\ RemoveAt(idps, f1 + 1) \in Seq(SiteIds)
           /\ f1 + 1 \in 0 .. Len(idps)
<1>1. f1 \in Nat /\ Len(idps) \in Nat /\ f1 + 1 \in 1 .. Len(idps) /\ f1 < Len(idps)
    BY DEF IInv, TypeOK, List
<1>2. idps \in Seq(SiteIds) /\ idps[f1 + 1] \in SiteIds
    BY <1>1, ToSetOfSites DEF IInv, TypeOK
<1>3. idv \in 1 .. idps[f1 + 1]
    BY DEF IInv, Climbing
<1>4. RemoveAt(idps, f1 + 1) \in Seq(SiteIds) /\ Len(RemoveAt(idps, f1 + 1)) = Len(idps) - 1
    BY <1>1, <1>2, RemoveAtMovesUp
<1> QED
    BY <1>1, <1>2, <1>3, <1>4

\* The site that is fetched next, or below.
LEMMA FetchAt ==
    ASSUME IInv, (pc = "fetch" /\ f1 < Len(idps)) \/ Walking
    PROVE  /\ f1 \in Nat /\ Len(idps) \in Nat /\ f1 + 1 \in 1 .. Len(idps)
           /\ idps[f1 + 1] \in SiteIds /\ idps[f1 + 1] \in ToSet(idps)
<1>1. f1 \in Nat /\ Len(idps) \in Nat /\ f1 + 1 \in 1 .. Len(idps)
    BY DEF IInv, TypeOK, List
<1> QED
    BY <1>1, ToSetOfSites DEF IInv, TypeOK

LEMMA TypeOKNext ==
    ASSUME IInv, Next
    PROVE  TypeOK'
<1>1. TypeOK /\ Tree /\ List
    BY DEF IInv
<1>2. CASE CallStep
    <2>1. UNCHANGED <<parent, place, nextid, changes, moved>>
        BY <1>2, CallStepReads DEF database, history
    <2>2. ASSUME NEW n \in 0 .. MaxList, NEW l \in [1 .. n -> SiteIds], Start(l) PROVE TypeOK'
        <3>1. l \in Seq(SiteIds) /\ 0 \in 0 .. Len(l)
            OBVIOUS
        <3>2. ClimbNext(l, 0) /\ ids' = l /\ UNCHANGED <<idt, returned>>
            BY <2>2 DEF Start
        <3>3. idps' = l /\ pc' \in {"climb", "fetch"} /\ f1' \in 0 .. Len(l)
              /\ idv' \in SiteIds \union {0}
            BY <3>1, <3>2, ClimbNextCases
        <3> QED
            BY <1>1, <2>1, <3>1, <3>2, <3>3 DEF TypeOK
    <2>3. CASE Climb
        <3>1. pc = "climb" /\ UNCHANGED <<ids, idt, returned>>
            BY <2>3 DEF Climb
        <3>2. CASE ClimbNext(RemoveAt(idps, f1 + 1), f1)
            BY <1>1, <2>1, <3>1, <3>2, ClimbAt, ClimbNextCases DEF TypeOK
        <3>3. CASE ClimbNext(idps, f1 + 1)
            <4>1. f1 + 1 \in 0 .. Len(idps) /\ idps \in Seq(SiteIds)
                BY <1>1, <3>1, ClimbAt DEF TypeOK
            <4>2. idps' = idps /\ pc' \in {"climb", "fetch"} /\ f1' \in 0 .. Len(idps)
                  /\ idv' \in SiteIds \union {0}
                BY <3>3, <4>1, ClimbNextCases
            <4> QED
                BY <1>1, <2>1, <3>1, <4>1, <4>2 DEF TypeOK
        <3>4. CASE parent[idv] > 0 /\ idv' = parent[idv] /\ UNCHANGED <<pc, idps, f1>>
            <4>1. parent[idv] \in SiteIds
                BY <1>1, <3>1, <3>4, ClimbAt, Parents
            <4> QED
                BY <1>1, <2>1, <3>1, <3>4, <4>1 DEF TypeOK
        <3> QED
            BY <2>3, <3>2, <3>3, <3>4 DEF Climb
    <2>4. ASSUME NEW ds, Return(ds) PROVE returned' \in [Devices -> Nat]
        BY <1>1, <2>4 DEF Return, TypeOK
    <2>5. CASE Fetch
        <3>1. /\ f1' = f1 + 1 \/ f1' = f1
              /\ idt' = idt \/ idt' = {idps[f1 + 1]}
              /\ pc' \in {"fetch", "devices"}
              /\ pc = "fetch" /\ f1 < Len(idps)
              /\ UNCHANGED <<ids, idps, idv>>
            BY <2>5 DEF Fetch
        <3>2. returned' \in [Devices -> Nat]
            BY <2>4, <2>5 DEF Fetch
        <3>3. /\ f1 \in Nat /\ Len(idps) \in Nat /\ f1 + 1 \in 1 .. Len(idps)
              /\ idps[f1 + 1] \in SiteIds
            BY <3>1, FetchAt
        <3>4. f1' \in 0 .. Len(idps)
            <4>1. f1 + 1 \in 0 .. Len(idps) /\ f1 \in 0 .. Len(idps)
                BY <3>3
            <4> QED
                BY <3>1, <4>1
        <3>5. idt' \in SUBSET SiteIds
            BY <1>1, <3>1, <3>2, <3>3 DEF TypeOK
        <3> QED
            BY <1>1, <2>1, <3>1, <3>2, <3>4, <3>5 DEF TypeOK
    <2>6. CASE FetchLevel
        <3>1. returned' \in [Devices -> Nat]
            BY <2>4, <2>6 DEF FetchLevel
        <3> QED
            BY <1>1, <2>1, <2>6, <3>1 DEF FetchLevel, TypeOK
    <2>7. CASE NextLevel
        <3>1. /\ f1' = f1 + 1 \/ f1' = f1
              /\ idt' = Children(idt)
              /\ pc' \in {"fetch", "devices"}
              /\ Walking
              /\ UNCHANGED <<ids, idps, idv, returned>>
            BY <2>7 DEF NextLevel, Walking
        <3>2. Children(idt) \subseteq SiteIds
            BY DEF Children
        <3>3. /\ f1 \in Nat /\ Len(idps) \in Nat /\ f1 + 1 \in 1 .. Len(idps)
              /\ idps[f1 + 1] \in SiteIds
            BY <3>1, FetchAt
        <3>4. f1' \in 0 .. Len(idps)
            <4>1. f1 + 1 \in 0 .. Len(idps) /\ f1 \in 0 .. Len(idps)
                BY <3>3
            <4> QED
                BY <3>1, <4>1
        <3>5. idt' \in SUBSET SiteIds
            BY <1>1, <3>1, <3>2, <3>3 DEF TypeOK
        <3> QED
            BY <1>1, <2>1, <3>1, <3>2, <3>4, <3>5 DEF TypeOK
    <2>8. CASE Finish
        BY <1>1, <2>1, <2>8 DEF Finish, TypeOK
    <2> QED
        BY <1>2, <2>2, <2>3, <2>5, <2>6, <2>7, <2>8 DEF CallStep, Walk
<1> USE DEF TypeOK
<1>3. ASSUME NEW s \in SiteIds, CreateSite(s) PROVE TypeOK'
    BY <1>1, <1>3 DEF CreateSite, Change, call
<1>4. ASSUME NEW s \in SiteIds, RemoveSite(s) PROVE TypeOK'
    BY <1>1, <1>4 DEF RemoveSite, Change, call, In
<1>5. ASSUME NEW d \in Devices, NEW s \in SiteIds, MoveDevice(d, s) PROVE TypeOK'
    BY <1>1, <1>5 DEF MoveDevice, Change, call
<1> HIDE DEF TypeOK
<1> QED
    BY <1>2, <1>3, <1>4, <1>5 DEF Next, CallStep

LEMMA TreeNext ==
    ASSUME TypeOK, Tree, Next
    PROVE  Tree'
<1> USE DEF TypeOK, Tree
<1>1. CASE CallStep
    BY <1>1, CallStepReads DEF database
<1>2. ASSUME NEW p \in SiteIds, CreateSite(p) PROVE Tree'
    <2>1. p < nextid /\ nextid \in SiteIds /\ nextid # Root
        BY <1>2 DEF CreateSite
    <2>2. parent' = [parent EXCEPT ![nextid] = p] /\ nextid' = nextid + 1 /\ place' = place
        BY <1>2 DEF CreateSite
    <2> QED
        BY <2>1, <2>2
<1>3. ASSUME NEW s \in SiteIds, RemoveSite(s) PROVE Tree'
    BY <1>3 DEF RemoveSite
<1>4. ASSUME NEW d \in Devices, NEW s \in SiteIds, MoveDevice(d, s) PROVE Tree'
    BY <1>4 DEF MoveDevice
<1> HIDE DEF TypeOK, Tree
<1> QED
    BY <1>1, <1>2, <1>3, <1>4 DEF Next, CallStep

LEMMA PathUnchanged ==
    ASSUME UNCHANGED parent
    PROVE  Path' = Path
BY DEF Path

\* Only the path of the new site changes.
LEMMA PathCreate ==
    ASSUME TypeOK, Tree, NEW p \in SiteIds, CreateSite(p)
    PROVE  \A s \in SiteIds : s # nextid => Path'[s] = Path[s]
<1>1. nextid \in SiteIds /\ \A s \in SiteIds \ {nextid} : parent'[s] = parent[s]
    BY DEF TypeOK, CreateSite
<1>2. ASSUME NEW s \in SiteIds, s # nextid PROVE nextid \notin Path[s]
    <2>1. CASE s < nextid
        <3>1. Path[s] \subseteq 1 .. s
            BY PathIsPath, PathOlder
        <3> QED
            BY <2>1, <3>1 DEF TypeOK
    <2>2. CASE s > nextid
        <3>1. parent[s] = NoRow
            BY <2>2 DEF TypeOK, Tree
        <3>2. parent[s] \notin 1 .. s - 1
            BY <3>1
        <3>3. Path[s] = {s}
            BY <3>2, PathIsPath, PathOfOrphan
        <3> QED
            BY <1>2, <3>3
    <2> QED
        BY <1>2, <2>1, <2>2 DEF TypeOK
<1>3. ASSUME NEW s \in SiteIds, s # nextid PROVE Path'[s] = Path[s]
    BY <1>1, <1>2, <1>3, PathIsPath, PathIsPathNext, PathCut
<1> QED
    BY <1>3

\* The paths that have the removed site end there.
LEMMA PathRemove ==
    ASSUME TypeOK, Tree, NEW r \in SiteIds, RemoveSite(r), NEW s \in SiteIds
    PROVE  /\ r \notin Path[s] => Path'[s] = Path[s]
           /\ r \in Path[s] => Path'[s] = {x \in Path[s] : x >= r}
<1>1. (\A t \in SiteIds \ {r} : parent'[t] = parent[t]) /\ parent'[r] \notin 1 .. r - 1
    BY DEF TypeOK, RemoveSite
<1> QED
    BY <1>1, PathIsPath, PathIsPathNext, PathCut

-----------------------------------------------------------------------------
(* What the other sessions change in the tree *)

OtherStep ==
    \/ \E s \in SiteIds : CreateSite(s) \/ RemoveSite(s)
    \/ \E d \in Devices, s \in SiteIds : MoveDevice(d, s)

LEMMA NextSteps == Next <=> CallStep \/ OtherStep
BY DEF Next, CallStep, OtherStep

\* They leave the call alone, and count as changes.
LEMMA OtherStepChanges ==
    ASSUME TypeOK, OtherStep
    PROVE  /\ UNCHANGED <<pc, ids, idps, f1, idv, idt, returned>>
           /\ pc # "idle" /\ pc # "done"
           /\ changes' # 0
<1>1. OtherStep => Change
    BY DEF OtherStep, CreateSite, RemoveSite, MoveDevice
<1> QED
    BY <1>1 DEF TypeOK, Change, call

\* A device is moved or stays in its site, which is still there.
LEMMA OtherStepPlaces ==
    ASSUME TypeOK, Tree, OtherStep
    PROVE  /\ moved \subseteq moved'
           /\ \A d \in Devices \ moved' : place'[d] = place[d]
<1>1. ASSUME NEW p \in SiteIds, CreateSite(p)
      PROVE  moved' = moved /\ place' = place
    BY <1>1 DEF CreateSite
<1>2. ASSUME NEW r \in SiteIds, RemoveSite(r)
      PROVE  moved \subseteq moved' /\ \A d \in Devices \ moved' : place'[d] = place[d]
    BY <1>2 DEF RemoveSite, In, TypeOK
<1>3. ASSUME NEW d \in Devices, NEW s \in SiteIds, MoveDevice(d, s)
      PROVE  moved \subseteq moved' /\ \A e \in Devices \ moved' : place'[e] = place[e]
    BY <1>3 DEF MoveDevice, TypeOK
<1> QED
    BY <1>1, <1>2, <1>3 DEF OtherStep

\* The path of a site that was there, or will come later, becomes shorter at most.
LEMMA OtherStepPaths ==
    ASSUME TypeOK, Tree, OtherStep, NEW s \in SiteIds, s # nextid
    PROVE  /\ Path'[s] \subseteq Path[s]
           /\ \A x \in Path'[s], y \in Path[s] : x <= y => y \in Path'[s]
           /\ parent'[s] = parent[s] \/ parent'[s] = NoRow
<1>1. ASSUME NEW p \in SiteIds, CreateSite(p)
      PROVE  Path'[s] = Path[s] /\ parent'[s] = parent[s]
    BY <1>1, PathCreate DEF CreateSite, TypeOK
<1>2. ASSUME NEW r \in SiteIds, RemoveSite(r)
      PROVE  /\ Path'[s] = Path[s] \/ Path'[s] = {x \in Path[s] : x >= r}
             /\ parent'[s] = parent[s] \/ parent'[s] = NoRow
    BY <1>2, PathRemove DEF RemoveSite, TypeOK
<1>3. ASSUME NEW d \in Devices, NEW t \in SiteIds, MoveDevice(d, t)
      PROVE  Path'[s] = Path[s] /\ parent'[s] = parent[s]
    BY <1>3, PathUnchanged DEF MoveDevice
<1>4. Path[s] \subseteq 1 .. s
    BY PathIsPath, PathOlder
<1>5. CASE Path'[s] = Path[s]
    BY <1>1, <1>2, <1>3, <1>5 DEF OtherStep
<1>6. ASSUME NEW r \in SiteIds, RemoveSite(r), Path'[s] = {x \in Path[s] : x >= r}
      PROVE  /\ Path'[s] \subseteq Path[s]
             /\ \A x \in Path'[s], y \in Path[s] : x <= y => y \in Path'[s]
    BY <1>4, <1>6
<1> QED
    BY <1>1, <1>2, <1>3, <1>5, <1>6 DEF OtherStep

LEMMA OtherStepIds ==
    ASSUME TypeOK, OtherStep
    PROVE  nextid \in Nat /\ nextid' \in Nat /\ nextid <= nextid'
<1>1. nextid' = nextid \/ nextid' = nextid + 1
    BY DEF OtherStep, CreateSite, RemoveSite, MoveDevice
<1> QED
    BY <1>1 DEF TypeOK

-----------------------------------------------------------------------------
(* The list, and the climbs *)

\* The call comes to the next site of the list: what that means for the list.
LEMMA ClimbNextList ==
    ASSUME NEW l \in Seq(SiteIds), NEW k \in 0 .. Len(l), ClimbNext(l, k),
           ToSet(l) \subseteq ToSet(ids'),
           NoDuplicates' => \A i, j \in DOMAIN l : i # j => l[i] # l[j],
           \A d \in Devices : returned'[d] = 0
    PROVE  List'
<1>1. idps' = l
    BY ClimbNextCases
<1>2. CASE k < Len(l) /\ pc' = "climb" /\ f1' = k
    BY <1>1, <1>2 DEF List, Walking
<1>3. CASE k = Len(l) /\ pc' = "fetch" /\ f1' = 0
    BY <1>1, <1>3 DEF List, Walking
<1> QED
    BY <1>2, <1>3, ClimbNextCases

LEMMA ListNext ==
    ASSUME IInv, Next
    PROVE  List'
<1>1. TypeOK /\ List
    BY DEF IInv
<1>2. ASSUME NEW n \in 0 .. MaxList, NEW l \in [1 .. n -> SiteIds], Start(l) PROVE List'
    <2>1. l \in Seq(SiteIds) /\ 0 \in 0 .. Len(l) /\ ClimbNext(l, 0) /\ ids' = l
          /\ returned' = returned /\ pc = "idle"
        BY <1>2 DEF Start
    <2>2. \A d \in Devices : returned'[d] = 0
        BY <1>1, <2>1 DEF List
    <2>3. NoDuplicates' => \A i, j \in DOMAIN l : i # j => l[i] # l[j]
        BY <2>1 DEF NoDuplicates
    <2> QED
        BY <2>1, <2>2, <2>3, ClimbNextList
<1>3. CASE Climb
    <2>1. pc = "climb" /\ ids' = ids /\ returned' = returned /\ idps \in Seq(SiteIds)
        BY <1>1, <1>3 DEF Climb, TypeOK
    <2>2. \A d \in Devices : returned'[d] = 0
        BY <1>1, <2>1 DEF List
    <2>3. NoDuplicates' <=> NoDuplicates
        BY <2>1 DEF NoDuplicates
    <2>4. CASE ClimbNext(RemoveAt(idps, f1 + 1), f1)
        <3> DEFINE l == RemoveAt(idps, f1 + 1)
        <3>1. f1 + 1 \in 1 .. Len(idps) /\ f1 \in 0 .. Len(l) /\ l \in Seq(SiteIds)
              /\ Len(idps) \in Nat
            BY <2>1, ClimbAt
        <3>2. ToSet(l) \subseteq ToSet(ids')
            BY <1>1, <2>1, <3>1, RemoveAtLeaves DEF List
        <3>3. ASSUME NoDuplicates', NEW i \in DOMAIN l, NEW j \in DOMAIN l, i # j
              PROVE  l[i] # l[j]
            <4>1. /\ Len(l) = Len(idps) - 1
                  /\ \A m \in 1 .. Len(idps) - 1 :
                         l[m] = IF m < f1 + 1 THEN idps[m] ELSE idps[m + 1]
                BY <2>1, <3>1, RemoveAtMovesUp
            <4>2. DOMAIN l = 1 .. Len(idps) - 1 /\ DOMAIN idps = 1 .. Len(idps)
                BY <2>1, <3>1, <4>1, ToSetOfSites
            <4>3. \A m, n \in DOMAIN idps : m # n => idps[m] # idps[n]
                BY <1>1, <2>3, <3>3 DEF List
            <4> HIDE DEF l
            <4> DEFINE up(m) == IF m < f1 + 1 THEN m ELSE m + 1
            <4>4. i \in 1 .. Len(idps) - 1 /\ j \in 1 .. Len(idps) - 1
                BY <3>3, <4>2
            <4>5. up(i) \in DOMAIN idps /\ up(j) \in DOMAIN idps /\ up(i) # up(j)
                BY <3>1, <3>3, <4>2, <4>4
            <4>6. l[i] = idps[up(i)] /\ l[j] = idps[up(j)]
                BY <4>1, <4>4
            <4> QED
                BY <4>3, <4>5, <4>6
        <3> HIDE DEF l
        <3> QED
            BY <2>2, <2>4, <3>1, <3>2, <3>3, ClimbNextList DEF l
    <2>5. CASE ClimbNext(idps, f1 + 1)
        <3>1. f1 + 1 \in 0 .. Len(idps)
            BY <2>1, ClimbAt
        <3>2. ToSet(idps) \subseteq ToSet(ids')
            BY <1>1, <2>1 DEF List
        <3>3. NoDuplicates' => \A i, j \in DOMAIN idps : i # j => idps[i] # idps[j]
            BY <1>1, <2>3 DEF List
        <3> QED
            BY <2>1, <2>2, <2>5, <3>1, <3>2, <3>3, ClimbNextList
    <2>6. CASE UNCHANGED <<pc, idps, f1>>
        BY <1>1, <2>1, <2>3, <2>6 DEF List, Walking
    <2> QED
        BY <1>3, <2>4, <2>5, <2>6 DEF Climb
<1>4. CASE UNCHANGED <<ids, idps>>
    <2>1. NoDuplicates' <=> NoDuplicates
        BY <1>4 DEF NoDuplicates
    <2>2. CASE Fetch
        <3>1. f1 \in Nat /\ f1 < Len(idps) /\ UNCHANGED <<ids, idps>>
            BY <1>1, <2>2 DEF Fetch, TypeOK
        <3>2. CASE idps[f1 + 1] = Root
            <4>1. pc' = "fetch" /\ f1' = f1 + 1 /\ f1' # 0
                BY <2>2, <3>1, <3>2 DEF Fetch
            <4> QED
                BY <1>1, <2>1, <3>1, <4>1 DEF List, Walking
        <3>3. CASE idps[f1 + 1] # Root
            <4>1. pc' = "devices" /\ f1' = f1 /\ idt' # {}
                BY <2>2, <3>3 DEF Fetch
            <4> QED
                BY <1>1, <2>1, <3>1, <3>3, <4>1 DEF List, Walking
        <3> QED
            BY <3>2, <3>3
    <2>3. CASE FetchLevel
        BY <1>1, <1>4, <2>1, <2>3 DEF FetchLevel, List, Walking
    <2>4. CASE NextLevel
        BY <1>1, <1>4, <2>1, <2>4 DEF NextLevel, List, Walking, TypeOK
    <2>5. CASE Finish
        BY <1>1, <1>4, <2>1, <2>5 DEF Finish, List, Walking
    <2>6. CASE OtherStep
        <3>1. UNCHANGED <<pc, f1, idt, returned>>
            BY <1>1, <2>6, OtherStepChanges
        <3> QED
            BY <1>1, <1>4, <2>1, <3>1 DEF List, Walking
    <2> QED
        BY <1>2, <1>3, <2>2, <2>3, <2>4, <2>5, <2>6, NextSteps DEF CallStep, Walk
<1>5. Fetch \/ FetchLevel \/ NextLevel \/ Finish \/ OtherStep => UNCHANGED <<ids, idps>>
    BY <1>1, OtherStepChanges DEF Fetch, FetchLevel, NextLevel, Finish
<1> QED
    BY <1>2, <1>3, <1>4, <1>5, NextSteps DEF CallStep, Walk

\* A climb starts at the site itself.
LEMMA ClimbNextClimbing ==
    ASSUME NEW l \in Seq(SiteIds), NEW k \in 0 .. Len(l), ClimbNext(l, k)
    PROVE  Climbing'
<1> SUFFICES ASSUME pc' = "climb" PROVE Climbing'
    BY DEF Climbing
<1>1. idps' = l /\ f1' = k /\ idv' = l[k + 1] /\ idv' \in SiteIds
    BY ClimbNextCases
<1>2. idv' \in Path'[idv'] /\ Path'[idv'] \subseteq 1 .. idv'
    BY <1>1, PathIsPathNext, PathOlder
<1> QED
    BY <1>1, <1>2 DEF Climbing

LEMMA ClimbingNext ==
    ASSUME IInv, Next
    PROVE  Climbing'
<1>1. TypeOK /\ Tree /\ Climbing
    BY DEF IInv
<1> SUFFICES ASSUME pc' = "climb" PROVE Climbing'
    BY DEF Climbing
<1>2. ASSUME NEW n \in 0 .. MaxList, NEW l \in [1 .. n -> SiteIds], Start(l) PROVE Climbing'
    <2>1. l \in Seq(SiteIds) /\ 0 \in 0 .. Len(l) /\ ClimbNext(l, 0)
        BY <1>2 DEF Start
    <2> QED
        BY <2>1, ClimbNextClimbing
<1> DEFINE a == idps[f1 + 1]
<1>3. pc = "climb" => /\ idv \in 1 .. a /\ a \in SiteIds
                      /\ idv \in Path[a] \/ \A x \in Path[a] : x > idv
                      /\ idv # a => a < nextid
                      /\ \A x \in ToSet(idps) \intersect Path[a] : x # a => x < idv
                      /\ idv = Root /\ a # Root => Root \notin ToSet(idps)
    BY <1>1, ClimbAt DEF Climbing
<1>4. /\ \A s \in SiteIds : s \in Path[s] /\ Path[s] \subseteq 1 .. s
      /\ \A s \in SiteIds : s \in Path'[s] /\ Path'[s] \subseteq 1 .. s
    BY PathIsPath, PathIsPathNext, PathOlder
<1>5. CASE Climb
    <2>1. pc = "climb" /\ f1 \in 0 .. Len(RemoveAt(idps, f1 + 1)) /\ f1 + 1 \in 0 .. Len(idps)
          /\ RemoveAt(idps, f1 + 1) \in Seq(SiteIds) /\ idps \in Seq(SiteIds)
        BY <1>1, <1>5, ClimbAt DEF Climb, TypeOK
    <2>2. CASE ClimbNext(RemoveAt(idps, f1 + 1), f1) \/ ClimbNext(idps, f1 + 1)
        BY <2>1, <2>2, ClimbNextClimbing
    <2>3. CASE ~Dropped /\ parent[idv] > 0 /\ idv' = parent[idv] /\ UNCHANGED <<pc, idps, f1>>
        <3> DEFINE p == parent[idv]
        <3>1. Path' = Path /\ nextid' = nextid
            BY <1>5, PathUnchanged DEF Climb, database
        <3>2. idv \in SiteIds /\ p \in 1 .. idv - 1 /\ idv < nextid /\ p \in SiteIds
            BY <1>1, <1>3, <2>1, <2>3, Parents
        <3>3. p \notin ToSet(idps)
            BY <2>3 DEF Dropped
        <3>4. nextid \in Nat
            BY <1>1 DEF TypeOK
        <3>5. p \in 1 .. a /\ p # a /\ a < nextid
            <4>1. idv # a => a < nextid
                BY <1>3, <2>1
            <4> QED
                BY <1>3, <2>1, <3>2, <3>4, <4>1
        <3>6. /\ p \in Path[a] \/ \A x \in Path[a] : x > p
              /\ \A x \in ToSet(idps) \intersect Path[a] : x # a => x < p
            <4>1. CASE idv \in Path[a]
                <5>1. Path[idv] = {x \in Path[a] : x <= idv}
                    BY <1>3, <2>1, <4>1, PathIsPath, PathRest
                <5>2. Path[idv] = {idv} \union Path[p] /\ p \in Path[idv]
                    BY <3>2, PathIsPath, PathOfParent
                <5>3. ASSUME NEW x \in ToSet(idps) \intersect Path[a], x # a PROVE x < p
                    <6>1. x < idv /\ x \in 1 .. a
                        BY <1>3, <1>4, <2>1, <5>3
                    <6>2. x \in Path[p]
                        BY <1>3, <2>1, <5>1, <5>2, <6>1
                    <6>3. x \in 1 .. p
                        BY <1>4, <3>2, <6>2
                    <6> QED
                        BY <3>2, <3>3, <6>3
                <5> QED
                    BY <5>1, <5>2, <5>3
            <4>2. CASE \A x \in Path[a] : x > idv
                <5>1. \A x \in Path[a] : x \in 1 .. a
                    BY <1>3, <1>4, <2>1
                <5>2. \A x \in Path[a] : x > p
                    BY <1>3, <2>1, <3>2, <4>2, <5>1
                <5>3. \A x \in ToSet(idps) \intersect Path[a] : x # a => FALSE
                    BY <1>3, <2>1, <4>2, <5>1
                <5> QED
                    BY <5>2, <5>3
            <4> QED
                BY <1>3, <2>1, <4>1, <4>2
        <3>7. idps'[f1' + 1] = a
            BY <2>3
        <3> HIDE DEF a, p
        <3>8. idv' = p /\ idps' = idps
            BY <2>3 DEF p
        <3> QED
            BY <3>1, <3>3, <3>5, <3>6, <3>7, <3>8 DEF Climbing
    <2> QED
        BY <1>5, <2>2, <2>3 DEF Climb
<1>6. CASE OtherStep
    <2>1. UNCHANGED <<pc, idps, f1, idv>> /\ pc = "climb"
        BY <1>1, <1>6, OtherStepChanges
    <2>2. nextid \in Nat /\ nextid' \in Nat /\ nextid <= nextid'
        BY <1>1, <1>6, OtherStepIds
    <2>3. idps'[f1' + 1] = a
        BY <2>1
    <2>4. CASE a # nextid
        <3>1. /\ Path'[a] \subseteq Path[a]
              /\ \A x \in Path'[a], y \in Path[a] : x <= y => y \in Path'[a]
            BY <1>1, <1>3, <1>6, <2>1, <2>4, OtherStepPaths
        <3>2. idv \in Path'[a] \/ \A x \in Path'[a] : x > idv
            <4>1. \A x \in Path'[a] : x \in Int
                BY <1>3, <1>4, <2>1
            <4> QED
                BY <1>3, <2>1, <3>1, <4>1
        <3>3. idv # a => a < nextid'
            BY <1>3, <2>1, <2>2
        <3> HIDE DEF a
        <3> QED
            BY <1>3, <2>1, <2>3, <3>1, <3>2, <3>3 DEF Climbing
    <2>5. CASE a = nextid
        <3>1. idv = a
            BY <1>3, <2>1, <2>2, <2>5
        <3>2. a \in Path'[a] /\ Path'[a] \subseteq 1 .. a
            BY <1>3, <1>4, <2>1
        <3> HIDE DEF a
        <3> QED
            BY <1>3, <2>1, <2>3, <3>1, <3>2 DEF Climbing
    <2> QED
        BY <2>4, <2>5
<1> QED
    BY <1>2, <1>5, <1>6, NextSteps DEF CallStep, Walk, Fetch, FetchLevel, NextLevel, Finish

\* The sites of the list that climbs have left in it.
LEMMA ClimbNextKept ==
    ASSUME NEW l \in Seq(SiteIds), NEW k \in 0 .. Len(l), ClimbNext(l, k)
    PROVE  Kept' = 1 .. k /\ idps' = l
<1>1. DOMAIN l = 1 .. Len(l)
    OBVIOUS
<1>2. idps' = l
    BY ClimbNextCases
<1>3. CASE pc' = "climb" /\ f1' = k
    BY <1>2, <1>3 DEF Kept, Fetched
<1>4. CASE pc' = "fetch" /\ k = Len(l)
    BY <1>1, <1>2, <1>4 DEF Kept, Fetched
<1> QED
    BY <1>2, <1>3, <1>4, ClimbNextCases

LEMMA KeptSites ==
    ASSUME IInv
    PROVE  \A i \in Kept : idps[i] \in SiteIds /\ idps[i] \in ToSet(idps)
<1>1. idps \in Seq(SiteIds) /\ (pc = "climb" => f1 \in Nat /\ f1 < Len(idps))
    BY ClimbAt DEF IInv, TypeOK
<1>2. DOMAIN idps = 1 .. Len(idps) /\ Len(idps) \in Nat
    BY <1>1, ToSetOfSites
<1>3. Kept \subseteq 1 .. Len(idps)
    BY <1>1, <1>2 DEF Kept, Fetched
<1> QED
    BY <1>1, <1>3, ToSetOfSites

\* What KeptClean says of one site.
CleanSite(s) ==
    /\ s < nextid
    /\ ToSet(idps) \intersect Path[s] \subseteq {s}
    /\ s # Root => Root \notin ToSet(idps)

LEMMA KeptCleanNext ==
    ASSUME IInv, Next
    PROVE  KeptClean'
<1>1. TypeOK /\ Tree /\ Climbing /\ \A i \in Kept : CleanSite(idps[i])
    BY DEF IInv, KeptClean, CleanSite
<1> SUFFICES ASSUME NEW i \in Kept' PROVE CleanSite(idps[i])'
    BY DEF KeptClean, CleanSite
<1>2. ASSUME NEW n \in 0 .. MaxList, NEW l \in [1 .. n -> SiteIds], Start(l) PROVE FALSE
    <2>1. l \in Seq(SiteIds) /\ 0 \in 0 .. Len(l) /\ ClimbNext(l, 0)
        BY <1>2 DEF Start
    <2>2. Kept' = 1 .. 0
        BY <2>1, ClimbNextKept
    <2> QED
        BY <2>2
<1>3. CASE Climb
    <2>1. pc = "climb" /\ f1 \in 0 .. Len(RemoveAt(idps, f1 + 1)) /\ f1 + 1 \in 0 .. Len(idps)
          /\ f1 + 1 \in 1 .. Len(idps) /\ f1 \in Nat /\ Len(idps) \in Nat
          /\ RemoveAt(idps, f1 + 1) \in Seq(SiteIds) /\ idps \in Seq(SiteIds)
        BY <1>1, <1>3, ClimbAt DEF Climb, TypeOK
    <2>2. Path' = Path /\ nextid' = nextid
        BY <1>3, PathUnchanged DEF Climb, database
    <2>3. Kept = 1 .. f1
        BY <2>1 DEF Kept, Fetched
    <2>4. CASE ClimbNext(RemoveAt(idps, f1 + 1), f1)
        <3>1. Kept' = 1 .. f1 /\ idps' = RemoveAt(idps, f1 + 1)
            BY <2>1, <2>4, ClimbNextKept
        <3>2. i \in 1 .. f1 /\ i \in 1 .. Len(idps) - 1 /\ i < f1 + 1
            BY <2>1, <3>1
        <3>3. idps'[i] = idps[i]
            BY <2>1, <3>1, <3>2, RemoveAtMovesUp
        <3>4. ToSet(idps') \subseteq ToSet(idps)
            BY <2>1, <3>1, RemoveAtLeaves
        <3>5. CleanSite(idps[i])
            BY <1>1, <2>3, <3>2
        <3> QED
            BY <2>2, <3>3, <3>4, <3>5 DEF CleanSite
    <2>5. CASE ClimbNext(idps, f1 + 1) /\ parent[idv] = 0
        <3>1. Kept' = 1 .. f1 + 1 /\ idps' = idps
            BY <2>1, <2>5, ClimbNextKept
        <3>2. CASE i \in 1 .. f1
            BY <1>1, <2>2, <2>3, <3>1, <3>2 DEF CleanSite
        <3>3. CASE i = f1 + 1
            <4> DEFINE a == idps[f1 + 1]
            <4>1. idv = Root
                BY <1>1, <2>1, <2>5, ClimbAt, Parents
            <4>2. /\ a \in SiteIds /\ (idv # a => a < nextid)
                  /\ \A x \in ToSet(idps) \intersect Path[a] : x # a => x < idv
                  /\ idv = Root /\ a # Root => Root \notin ToSet(idps)
                BY <1>1, <2>1, ClimbAt DEF Climbing
            <4>3. Path[a] \subseteq 1 .. a
                BY <4>2, PathIsPath, PathOlder
            <4>4. a < nextid
                BY <1>1, <4>1, <4>2 DEF TypeOK
            <4>5. ToSet(idps) \intersect Path[a] \subseteq {a}
                BY <4>1, <4>2, <4>3
            <4> HIDE DEF a
            <4>6. CleanSite(a)
                BY <4>1, <4>2, <4>4, <4>5 DEF CleanSite
            <4> QED
                BY <2>2, <3>1, <3>3, <4>6 DEF CleanSite, a
        <3> QED
            BY <2>1, <3>1, <3>2, <3>3
    <2>6. CASE UNCHANGED <<pc, idps, f1>>
        <3>1. Kept' = Kept
            BY <2>6 DEF Kept, Fetched
        <3> QED
            BY <1>1, <2>2, <2>6, <3>1 DEF CleanSite
    <2> QED
        BY <1>3, <2>4, <2>5, <2>6 DEF Climb
<1>4. CASE Fetch \/ FetchLevel \/ NextLevel \/ Finish
    <2>1. idps' = idps /\ UNCHANGED database /\ Fetched /\ Fetched'
        BY <1>4 DEF Fetch, FetchLevel, NextLevel, Finish, Fetched
    <2>2. Path' = Path /\ nextid' = nextid
        BY <2>1, PathUnchanged DEF database
    <2>3. Kept' = Kept
        BY <2>1 DEF Kept, Fetched
    <2> QED
        BY <1>1, <2>1, <2>2, <2>3 DEF CleanSite
<1>5. CASE OtherStep
    <2>1. UNCHANGED <<pc, idps, f1>>
        BY <1>1, <1>5, OtherStepChanges
    <2>2. Kept' = Kept /\ idps'[i] = idps[i]
        BY <2>1 DEF Kept, Fetched
    <2>3. CleanSite(idps[i]) /\ idps[i] \in SiteIds
        BY <1>1, <2>2, KeptSites
    <2>4. nextid \in Nat /\ nextid' \in Nat /\ nextid <= nextid'
        BY <1>1, <1>5, OtherStepIds
    <2>5. idps[i] # nextid
        BY <2>3, <2>4 DEF CleanSite
    <2>6. Path'[idps[i]] \subseteq Path[idps[i]]
        BY <1>1, <1>5, <2>3, <2>5, OtherStepPaths
    <2> QED
        BY <2>1, <2>2, <2>3, <2>4, <2>6 DEF CleanSite
<1> QED
    BY <1>2, <1>3, <1>4, <1>5, NextSteps DEF CallStep, Walk

-----------------------------------------------------------------------------
(* The walks *)

LEMMA PathTransitive ==
    ASSUME NEW z \in SiteIds, NEW y \in Path[z], NEW x \in Path[y]
    PROVE  x \in Path[z] /\ y \in SiteIds /\ x <= y
BY PathIsPath, PathOlder, PathRest

\* A child of a set of sites has the path of its parent below it.
LEMMA ChildPath ==
    ASSUME TypeOK, Tree, NEW X \in SUBSET SiteIds, NEW c \in Children(X)
    PROVE  /\ c \in SiteIds /\ parent[c] \in X /\ parent[c] \in 1 .. c - 1 /\ c < nextid
           /\ Path[c] = {c} \union Path[parent[c]]
           /\ parent[c] \in Path[c] /\ c \notin Path[parent[c]]
<1>1. c \in SiteIds /\ parent[c] \in X /\ parent[c] > 0
    <2>1. c \in SiteIds /\ parent[c] \in X
        BY DEF Children
    <2>2. parent[c] \in SiteIds
        BY <2>1
    <2> QED
        BY <2>1, <2>2
<1>2. parent[c] \in 1 .. c - 1 /\ c < nextid
    BY <1>1, Parents
<1> QED
    BY <1>1, <1>2, PathIsPath, PathOfParent

\* If no site of a level is below another one, no site of the next is, ...
LEMMA ChildrenApart ==
    ASSUME TypeOK, Tree, NEW X \in SUBSET SiteIds,
           \A t, u \in X : t \in Path[u] => t = u,
           NEW b \in Children(X), NEW c \in Children(X), b \in Path[c]
    PROVE  b = c
<1> SUFFICES ASSUME b # c PROVE FALSE
    OBVIOUS
<1>1. b \in Path[parent[c]] /\ parent[c] \in X /\ parent[b] \in X
    <2>1. Path[c] = {c} \union Path[parent[c]] /\ parent[c] \in X
        BY ChildPath
    <2>2. parent[b] \in X
        BY ChildPath
    <2> QED
        BY <2>1, <2>2
<1>2. parent[b] \in Path[b] /\ parent[b] \in 1 .. b - 1 /\ b \in SiteIds
    BY ChildPath
<1>3. parent[b] \in Path[parent[c]] /\ b <= parent[c]
    <2>1. parent[c] \in SiteIds
        BY <1>1
    <2>2. parent[b] \in Path[parent[c]]
        BY <1>1, <1>2, <2>1, PathTransitive
    <2>3. b \in 1 .. parent[c]
        BY <1>1, <2>1, PathIsPath, PathOlder
    <2> QED
        BY <2>2, <2>3
<1>4. parent[b] = parent[c]
    BY <1>1, <1>3
<1> QED
    BY <1>1, <1>2, <1>3, <1>4

\* ... and a site that is neither above nor below those of a level is neither
\* above nor below those of the next one.
LEMMA ChildrenBeside ==
    ASSUME TypeOK, Tree, NEW X \in SUBSET SiteIds, NEW s \in SiteIds,
           \A t \in X : s \notin Path[t] /\ t \notin Path[s],
           NEW c \in Children(X)
    PROVE  s \notin Path[c] /\ c \notin Path[s]
<1>1. Path[c] = {c} \union Path[parent[c]] /\ parent[c] \in X /\ parent[c] \in Path[c]
    BY ChildPath
<1>2. c \notin Path[s]
    <2> SUFFICES ASSUME c \in Path[s] PROVE FALSE
        OBVIOUS
    <2>1. parent[c] \in Path[s]
        BY <1>1, PathTransitive
    <2> QED
        BY <1>1, <2>1
<1>3. s # c
    BY <1>1
<1> QED
    BY <1>1, <1>2, <1>3

LEMMA PendingSites ==
    ASSUME TypeOK, List
    PROVE  /\ Pending \subseteq DOMAIN idps
           /\ \A j \in Pending : idps[j] \in SiteIds /\ idps[j] \in ToSet(idps)
           /\ Pending # {} => Kept = DOMAIN idps
           /\ pc = "fetch" => Pending = f1 + 1 .. Len(idps)
           /\ Walking => Pending = f1 + 2 .. Len(idps)
           /\ ~Walking /\ pc # "fetch" => Pending = {}
<1>1. DOMAIN idps = 1 .. Len(idps) /\ Len(idps) \in Nat /\ f1 \in Nat
      /\ \A i \in 1 .. Len(idps) : idps[i] \in SiteIds /\ idps[i] \in ToSet(idps)
    BY ToSetOfSites DEF TypeOK
<1>2. CASE pc = "fetch"
    <2>1. Pending = f1 + 1 .. Len(idps) /\ Kept = DOMAIN idps
        BY <1>2 DEF Pending, Kept, Fetched
    <2> QED
        BY <1>1, <1>2, <2>1 DEF Walking
<1>3. CASE Walking
    <2>1. Pending = f1 + 2 .. Len(idps) /\ Kept = DOMAIN idps
        BY <1>3 DEF Pending, Kept, Fetched, Walking
    <2> QED
        BY <1>1, <1>3, <2>1 DEF Walking
<1>4. CASE pc # "fetch" /\ ~Walking
    <2>1. Pending = {}
        BY <1>4 DEF Pending, Walking
    <2> QED
        BY <1>4, <2>1
<1> QED
    BY <1>2, <1>3, <1>4

\* Sites of the list that are still to be fetched are neither above nor below
\* each other, unless one of them is there twice.
LEMMA PendingApart ==
    ASSUME IInv, NoDuplicates, Fetched,
           NEW i \in DOMAIN idps, NEW j \in DOMAIN idps, i # j
    PROVE  idps[i] \notin Path[idps[j]] /\ idps[i] # idps[j]
<1>1. idps[i] # idps[j] /\ j \in Kept /\ i \in Kept
    BY DEF IInv, List, Kept, Fetched
<1>2. idps[i] \in ToSet(idps)
    BY <1>1, KeptSites
<1> QED
    BY <1>1, <1>2 DEF IInv, KeptClean

LEMMA LevelNext ==
    ASSUME IInv, Next
    PROVE  Level'
<1>1. TypeOK /\ Tree /\ List /\ Level /\ KeptClean /\ List' /\ TypeOK'
    BY ListNext, TypeOKNext DEF IInv
<1> SUFFICES ASSUME Walking', NoDuplicates'
             PROVE  /\ idt' \subseteq 1 .. nextid' - 1
                    /\ \A t, u \in idt' : t \in Path'[u] => t = u
                    /\ \A t \in idt', j \in Pending' :
                           idps'[j] \notin Path'[t] /\ t \notin Path'[idps'[j]]
    BY DEF Level
<1>2. CASE Fetch
    <2> DEFINE s == idps[f1 + 1]
    <2>1. pc = "fetch" /\ f1 < Len(idps) /\ s # Root
          /\ idt' = {s} /\ pc' = "devices" /\ f1' = f1
          /\ UNCHANGED <<database, ids, idps>>
        BY <1>2 DEF Fetch, Walking
    <2>2. Path' = Path /\ nextid' = nextid /\ NoDuplicates
        BY <2>1, PathUnchanged DEF database, NoDuplicates
    <2>3. f1 + 1 \in DOMAIN idps /\ s \in SiteIds
        BY <1>1, <2>1, FetchAt
    <2>4. s < nextid
        BY <2>1, <2>3 DEF IInv, KeptClean, Kept, Fetched
    <2>5. ASSUME NEW j \in Pending' PROVE idps[j] \notin Path[s] /\ s \notin Path[idps[j]]
        <3>1. j \in f1 + 2 .. Len(idps)
            BY <1>1, <2>1 DEF Pending
        <3>2. j \in DOMAIN idps /\ j # f1 + 1
            BY <1>1, <2>3, <3>1 DEF TypeOK
        <3> QED
            BY <2>1, <2>2, <2>3, <3>2, PendingApart DEF Fetched
    <2> HIDE DEF s
    <2>6. s \in 1 .. nextid - 1
        BY <1>1, <2>3, <2>4 DEF TypeOK
    <2> QED
        BY <2>1, <2>2, <2>5, <2>6
<1>3. CASE FetchLevel
    <2>1. Walking /\ UNCHANGED <<database, ids, idps, f1, idt>>
        BY <1>3 DEF FetchLevel, Walking
    <2>2. Path' = Path /\ nextid' = nextid /\ NoDuplicates /\ Pending' = Pending
        BY <1>3, <2>1, PathUnchanged DEF database, NoDuplicates, FetchLevel, Pending
    <2> QED
        BY <1>1, <2>1, <2>2 DEF Level
<1>4. CASE NextLevel
    <2>1. Walking /\ UNCHANGED <<database, ids, idps, f1>> /\ idt' = Children(idt)
        BY <1>4 DEF NextLevel, Walking
    <2>2. Path' = Path /\ nextid' = nextid /\ NoDuplicates /\ Pending' = Pending
        BY <1>4, <2>1, PathUnchanged DEF database, NoDuplicates, NextLevel, Pending, Walking
    <2>3. idt \in SUBSET SiteIds /\ nextid \in Nat
        BY <1>1 DEF TypeOK
    <2>4. idt' \subseteq 1 .. nextid - 1
        BY <1>1, <2>1, <2>3, ChildPath
    <2>5. \A t, u \in idt' : t \in Path[u] => t = u
        BY <1>1, <2>1, <2>2, <2>3, ChildrenApart DEF Level
    <2>6. ASSUME NEW c \in Children(idt), NEW j \in Pending
          PROVE  idps[j] \notin Path[c] /\ c \notin Path[idps[j]]
        <3>1. idps[j] \in SiteIds
            BY <1>1, PendingSites
        <3>2. \A t \in idt : idps[j] \notin Path[t] /\ t \notin Path[idps[j]]
            BY <1>1, <2>1, <2>2 DEF Level
        <3> QED
            BY <1>1, <2>3, <3>1, <3>2, ChildrenBeside
    <2> QED
        BY <2>1, <2>2, <2>4, <2>5, <2>6
<1>5. CASE OtherStep
    <2>1. Walking /\ UNCHANGED <<pc, ids, idps, f1, idt>>
        BY <1>1, <1>5, OtherStepChanges DEF Walking
    <2>2. NoDuplicates /\ Pending' = Pending
        BY <2>1 DEF NoDuplicates, Pending
    <2>3. nextid \in Nat /\ nextid' \in Nat /\ nextid <= nextid'
        BY <1>1, <1>5, OtherStepIds
    <2>4. /\ idt \subseteq 1 .. nextid - 1
          /\ \A t, u \in idt : t \in Path[u] => t = u
          /\ \A t \in idt, j \in Pending : idps[j] \notin Path[t] /\ t \notin Path[idps[j]]
        BY <1>1, <2>1, <2>2 DEF Level
    <2>5. ASSUME NEW t \in idt PROVE Path'[t] \subseteq Path[t]
        <3>1. t \in SiteIds /\ t # nextid
            BY <1>1, <2>3, <2>4 DEF TypeOK
        <3> QED
            BY <1>1, <1>5, <3>1, OtherStepPaths
    <2>6. ASSUME NEW j \in Pending PROVE Path'[idps[j]] \subseteq Path[idps[j]]
        <3>1. idps[j] \in SiteIds /\ j \in Kept
            BY <1>1, PendingSites
        <3>2. idps[j] # nextid
            BY <1>1, <2>3, <3>1 DEF KeptClean
        <3> QED
            BY <1>1, <1>5, <3>1, <3>2, OtherStepPaths
    <2>7. ASSUME NEW t \in idt PROVE t \in 1 .. nextid' - 1
        <3>1. t \in 1 .. nextid - 1
            BY <2>4
        <3>2. \A m, n \in Nat : m <= n /\ t \in 1 .. m - 1 => t \in 1 .. n - 1
            OBVIOUS
        <3> QED
            BY <2>3, <3>1, <3>2
    <2>8. ASSUME NEW t \in idt, NEW j \in Pending
          PROVE  idps[j] \notin Path'[t] /\ t \notin Path'[idps[j]]
        BY <2>4, <2>5, <2>6
    <2>9. \A t, u \in idt : t \in Path'[u] => t = u
        BY <2>4, <2>5
    <2> QED
        BY <2>1, <2>2, <2>7, <2>8, <2>9
<1>6. ASSUME (\E n \in 0 .. MaxList : \E l \in [1 .. n -> SiteIds] : Start(l))
             \/ Climb \/ Finish
      PROVE  FALSE
    BY <1>6 DEF Start, Climb, Finish, ClimbNext, Walking
<1> QED
    BY <1>2, <1>3, <1>4, <1>5, <1>6, NextSteps DEF CallStep, Walk

\* Sites that are below others stay so, ...
LEMMA OtherStepBelow ==
    ASSUME TypeOK, Tree, OtherStep, NEW s \in SiteIds, s < nextid, Below(s, Coming)'
    PROVE  Below(s, Coming)
<1>1. parent'[s] \in 1 .. s - 1 /\ \E c \in Path'[parent'[s]] : c \in Coming'
    BY DEF Below
<1>2. nextid \in Nat /\ s # nextid
    BY DEF TypeOK
<1>3. parent'[s] = parent[s]
    BY <1>1, <1>2, OtherStepPaths
<1> DEFINE p == parent[s]
<1>4. p \in 1 .. s - 1 /\ p \in SiteIds /\ p < nextid /\ p # nextid
    BY <1>1, <1>2, <1>3
<1>5. Path'[p] \subseteq Path[p] /\ Path[p] \subseteq 1 .. p
    BY <1>4, OtherStepPaths, PathIsPath, PathOlder
<1>6. PICK c \in Path'[p] : c \in Coming'
    BY <1>1, <1>3
<1>7. c \in Path[p] /\ c \in SiteIds /\ c # nextid
    BY <1>2, <1>4, <1>5, <1>6
<1>8. pc' = pc /\ idt' = idt /\ idt \in SUBSET SiteIds
    BY OtherStepChanges DEF TypeOK
<1>9. c \in Coming
    <2>1. CASE pc = "devices"
        BY <1>6, <1>8, <2>1 DEF Coming
    <2>2. CASE pc = "children"
        <3>1. parent'[c] \in idt
            BY <1>6, <1>8, <2>2 DEF Coming, Children
        <3>2. parent'[c] = parent[c]
            BY <1>2, <1>7, <1>8, <3>1, OtherStepPaths
        <3> QED
            BY <1>7, <2>2, <3>1, <3>2 DEF Coming, Children
    <2>3. CASE pc \notin {"devices", "children"}
        BY <1>6, <1>8, <2>3 DEF Coming
    <2> QED
        BY <2>1, <2>2, <2>3
<1> QED
    BY <1>3, <1>4, <1>7, <1>9 DEF Below

\* ... and above a site that stays connected with site 1 nothing changes.
LEMMA OtherStepRooted ==
    ASSUME TypeOK, Tree, OtherStep, NEW s \in SiteIds, s < nextid, Root \in Path'[s]
    PROVE  /\ Path'[s] = Path[s]
           /\ \A x \in Path[s] : parent'[x] = parent[x]
           /\ parent[s] \in 1 .. s - 1 => Path'[parent[s]] = Path[parent[s]]
<1>1. nextid \in Nat /\ s # nextid
    BY DEF TypeOK
<1>2. Path[s] \subseteq 1 .. s
    BY PathIsPath, PathOlder
<1>3. \A x \in Path[s] : x \in SiteIds /\ x # nextid
    BY <1>1, <1>2
<1>4. Path'[s] = Path[s]
    BY <1>1, <1>2, OtherStepPaths
<1>5. ASSUME NEW x \in Path[s] PROVE parent'[x] = parent[x]
    <2>1. CASE x = Root
        BY <1>1, <1>3, <2>1, TreeNext, NextSteps DEF Tree
    <2>2. CASE x # Root
        <3> SUFFICES ASSUME parent'[x] = NoRow PROVE FALSE
            BY <1>3, OtherStepPaths
        <3>1. x \in SiteIds /\ x \in Path'[s]
            BY <1>3, <1>4
        <3>2. Path'[x] = {y \in Path'[s] : y <= x}
            BY <3>1, PathIsPathNext, PathRest
        <3>3. Path'[x] = {x}
            BY <3>1, PathIsPathNext, PathOfOrphan
        <3> QED
            BY <2>2, <3>1, <3>2, <3>3
    <2> QED
        BY <2>1, <2>2
<1>6. ASSUME parent[s] \in 1 .. s - 1 PROVE Path'[parent[s]] = Path[parent[s]]
    <2>1. s \in Path[s]
        BY PathIsPath, PathOlder
    <2>2. parent'[s] = parent[s]
        BY <1>5, <2>1
    <2>3. Path[s] = {s} \union Path[parent[s]] /\ s \notin Path[parent[s]]
        BY <1>6, PathIsPath, PathOfParent
    <2>4. Path'[s] = {s} \union Path'[parent[s]] /\ s \notin Path'[parent[s]]
        BY <1>6, <2>2, PathIsPathNext, PathOfParent
    <2> QED
        BY <1>4, <2>3, <2>4
<1> QED
    BY <1>4, <1>5, <1>6

-----------------------------------------------------------------------------
(* No device is returned twice *)

LEMMA PlacedAt ==
    ASSUME TypeOK, Tree, NEW d \in Devices, place[d] # Nowhere
    PROVE  place[d] \in SiteIds /\ place[d] < nextid
BY Parents DEF TypeOK, Tree

\* If site 1 is left in the list, nothing else is.
LEMMA RootAlone ==
    ASSUME IInv, NoDuplicates, Fetched, NEW i \in DOMAIN idps, idps[i] = Root
    PROVE  i = 1 /\ Len(idps) = 1
<1>1. idps \in Seq(SiteIds) /\ Kept = DOMAIN idps
    BY DEF IInv, TypeOK, Kept, Fetched
<1>2. DOMAIN idps = 1 .. Len(idps) /\ Len(idps) \in Nat /\ Root \in ToSet(idps)
    BY <1>1, ToSetOfSites
<1>3. \A j \in DOMAIN idps : j = i
    BY <1>1, <1>2, PendingApart DEF IInv, KeptClean
<1>4. 1 \in DOMAIN idps /\ Len(idps) \in DOMAIN idps
    BY <1>2
<1> QED
    BY <1>3, <1>4

LEMMA ReturnedOverNext ==
    ASSUME IInv, Next
    PROVE  ReturnedOver'
<1>1. TypeOK /\ Tree /\ List /\ Level /\ ReturnedOver
    BY DEF IInv
<1> SUFFICES ASSUME NoDuplicates', NEW d \in Devices, d \notin moved'
             PROVE  returned'[d] <= 1 /\ Over(d)'
    BY DEF ReturnedOver
<1> DEFINE s == place[d]
<1>2. returned[d] \in Nat
    BY <1>1 DEF TypeOK
<1>3. ASSUME returned'[d] = 0 PROVE returned'[d] <= 1 /\ Over(d)'
    BY <1>3 DEF Over
<1>4. ASSUME UNCHANGED <<ids, history>>
      PROVE  NoDuplicates /\ returned[d] <= 1 /\ Over(d)
    BY <1>1, <1>4 DEF ReturnedOver, NoDuplicates, history
<1>5. CASE pc \in {"idle", "climb"} /\ returned' = returned
    BY <1>1, <1>3, <1>5 DEF List
<1>6. CASE Fetch
    <2> DEFINE r == idps[f1 + 1]
    <2>1. pc = "fetch" /\ f1 < Len(idps) /\ UNCHANGED <<database, ids, idps, history>>
        BY <1>6 DEF Fetch
    <2>2. Path' = Path /\ place' = place /\ parent' = parent
        BY <2>1, PathUnchanged DEF database
    <2>3. NoDuplicates /\ returned[d] <= 1 /\ Over(d)
        BY <1>4, <2>1
    <2>4. f1 + 1 \in DOMAIN idps /\ r \in SiteIds /\ f1 \in Nat /\ Len(idps) \in Nat
        BY <1>1, <2>1, FetchAt
    <2>5. Pending = f1 + 1 .. Len(idps)
        BY <2>1 DEF Pending
    <2>6. CASE r = Root
        <3>1. f1 + 1 = 1 /\ Len(idps) = 1
            BY <2>1, <2>3, <2>4, <2>6, RootAlone DEF Fetched
        <3>2. returned[d] = 0
            BY <1>1, <2>1, <2>4, <3>1 DEF List
        <3>3. Return(Devices) /\ f1' = f1 + 1 /\ pc' = "fetch"
            BY <1>6, <2>1, <2>6 DEF Fetch
        <3>4. returned'[d] = 1
            BY <3>2, <3>3 DEF Return
        <3>5. Pending' = {} /\ Coming' = {}
            BY <2>1, <2>4, <3>1, <3>3 DEF Pending, Coming
        <3> QED
            BY <3>4, <3>5 DEF Over, Below
    <2>7. CASE r # Root
        <3>1. Return(In({r})) /\ idt' = {r} /\ pc' = "devices" /\ f1' = f1
            BY <1>6, <2>7 DEF Fetch
        <3>2. Pending' = f1 + 2 .. Len(idps) /\ Coming' = {r}
            BY <2>1, <3>1 DEF Pending, Coming
        <3>3. CASE s = r
            <4>1. s # Nowhere /\ f1 + 1 \in Pending /\ s \in Path[s] /\ Path[s] \subseteq 1 .. s
                BY <2>4, <2>5, <3>3, PathIsPath, PathOlder
            <4>2. returned[d] = 0
                BY <1>2, <2>3, <3>3, <4>1 DEF Over
            <4>3. returned'[d] = 1
                BY <3>1, <3>3, <4>2 DEF Return, In
            <4>4. ASSUME NEW j \in Pending' PROVE idps[j] \notin Path[s]
                <5>1. j \in DOMAIN idps /\ j # f1 + 1
                    BY <1>1, <2>4, <3>2 DEF TypeOK
                <5> QED
                    BY <2>1, <2>3, <2>4, <3>3, <5>1, PendingApart DEF Fetched
            <4>5. ~(parent[s] \in 1 .. s - 1 /\ Path[parent[s]] \intersect {r} # {})
                BY <2>4, <3>3, PathIsPath, PathOfParent
            <4> HIDE DEF s, r
            <4>6. place'[d] = s
                BY <2>2 DEF s
            <4> QED
                BY <2>1, <2>2, <3>2, <4>3, <4>4, <4>5, <4>6 DEF Over, Below
        <3>4. CASE s # r
            <4>1. returned'[d] = returned[d]
                BY <1>2, <3>1, <3>4 DEF Return, In
            <4> SUFFICES ASSUME returned[d] >= 1, s # Nowhere
                         PROVE  /\ \A j \in Pending' : idps[j] \notin Path[s]
                                /\ ~(parent[s] \in 1 .. s - 1
                                     /\ Path[parent[s]] \intersect {r} # {})
                BY <2>1, <2>2, <2>3, <3>2, <4>1 DEF Over, Below
            <4>2. \A j \in Pending : idps[j] \notin Path[s]
                BY <2>3 DEF Over
            <4>3. f1 + 1 \in Pending /\ Pending' \subseteq Pending
                BY <2>1, <2>4, <2>5, <3>2
            <4>4. s \in SiteIds
                BY <1>1, PlacedAt
            <4>5. parent[s] \in 1 .. s - 1 => Path[parent[s]] \subseteq Path[s]
                BY <4>4, PathIsPath, PathOfParent
            <4> QED
                BY <4>2, <4>3, <4>5
        <3> QED
            BY <3>3, <3>4
    <2> QED
        BY <2>6, <2>7
<1>7. CASE FetchLevel
    <2>1. pc = "devices" /\ pc' = "children" /\ Return(In(Children(idt)))
          /\ UNCHANGED <<database, ids, idps, f1, idt, history>>
        BY <1>7 DEF FetchLevel
    <2>2. Path' = Path /\ place' = place /\ parent' = parent
        BY <2>1, PathUnchanged DEF database
    <2>3. NoDuplicates /\ returned[d] <= 1 /\ Over(d)
        BY <1>4, <2>1
    <2>4. Pending' = Pending /\ Coming = idt /\ Coming' = Children(idt)
        BY <2>1, <2>2 DEF Pending, Coming, Children
    <2>5. idt \in SUBSET SiteIds
        BY <1>1 DEF TypeOK
    <2>6. /\ \A t, u \in idt : t \in Path[u] => t = u
          /\ \A t \in idt, j \in Pending : idps[j] \notin Path[t] /\ t \notin Path[idps[j]]
        BY <1>1, <2>1, <2>3 DEF Level, Walking
    <2>7. CASE s \in Children(idt)
        <3>1. /\ s \in SiteIds /\ parent[s] \in idt /\ parent[s] \in 1 .. s - 1
              /\ s \notin Path[parent[s]] /\ parent[s] \in Path[parent[s]]
            BY <1>1, <2>5, <2>7, ChildPath, PathIsPath, PathOlder
        <3>2. Below(s, idt) /\ s # Nowhere
            BY <3>1 DEF Below
        <3>3. returned[d] = 0
            BY <1>2, <2>3, <2>4, <3>2 DEF Over
        <3>4. returned'[d] = 1
            BY <2>1, <2>7, <3>3 DEF Return, In
        <3>5. ASSUME NEW j \in Pending PROVE idps[j] \notin Path[s]
            <4>1. idps[j] \in SiteIds
                BY <1>1, PendingSites
            <4> QED
                BY <1>1, <2>5, <2>6, <2>7, <4>1, ChildrenBeside
        <3>6. ASSUME NEW c \in Children(idt) PROVE c \notin Path[parent[s]]
            <4>1. c \in Path[parent[s]] => c \in Path[s]
                BY <3>1, PathIsPath, PathOfParent
            <4>2. c \in Path[s] => c = s
                BY <1>1, <2>5, <2>6, <2>7, ChildrenApart
            <4> QED
                BY <3>1, <4>1, <4>2
        <3> HIDE DEF s
        <3>7. place'[d] = s
            BY <2>2 DEF s
        <3> QED
            BY <2>1, <2>2, <2>4, <3>4, <3>5, <3>6, <3>7 DEF Over, Below
    <2>8. CASE s \notin Children(idt)
        <3>1. returned'[d] = returned[d]
            BY <1>2, <2>1, <2>8 DEF Return, In
        <3> SUFFICES ASSUME returned[d] >= 1, s # Nowhere,
                            parent[s] \in 1 .. s - 1,
                            NEW c \in Path[parent[s]], c \in Children(idt)
                     PROVE  FALSE
            BY <2>1, <2>2, <2>3, <2>4, <3>1 DEF Over, Below
        <3>2. parent[c] \in idt /\ parent[c] \in Path[c]
            BY <1>1, <2>5, ChildPath
        <3>3. parent[s] \in SiteIds
            BY <1>1, Parents, PlacedAt
        <3>4. parent[c] \in Path[parent[s]]
            BY <3>2, <3>3, PathTransitive
        <3>5. Below(s, idt)
            BY <3>2, <3>4 DEF Below
        <3> QED
            BY <2>3, <2>4, <3>5 DEF Over
    <2> QED
        BY <2>7, <2>8
<1>8. CASE NextLevel \/ Finish
    <2>1. UNCHANGED <<database, ids, idps, returned, history>>
        BY <1>8 DEF NextLevel, Finish
    <2>2. Path' = Path /\ place' = place /\ parent' = parent
        BY <2>1, PathUnchanged DEF database
    <2>3. returned[d] <= 1 /\ Over(d)
        BY <1>4, <2>1
    <2>4. Pending' \subseteq Pending /\ Coming' \subseteq Coming
        <3>1. CASE NextLevel
            <4>1. Pending = f1 + 2 .. Len(idps) /\ Coming = Children(idt)
                BY <3>1 DEF NextLevel, Pending, Coming
            <4>2. CASE pc' = "devices" /\ f1' = f1
                <5>1. idt' = Children(idt)
                    BY <3>1 DEF NextLevel
                <5> QED
                    BY <2>1, <4>1, <4>2, <5>1 DEF Pending, Coming
            <4>3. CASE pc' = "fetch" /\ f1' = f1 + 1
                <5>1. f1 \in Nat /\ (f1 + 1) + 1 = f1 + 2
                    BY <1>1 DEF TypeOK
                <5>2. Coming' = {}
                    BY <4>3 DEF Coming
                <5>3. Pending' = f1 + 2 .. Len(idps)
                    BY <2>1, <4>3, <5>1 DEF Pending
                <5> QED
                    BY <4>1, <5>2, <5>3
            <4> QED
                BY <3>1, <4>2, <4>3 DEF NextLevel
        <3>2. CASE Finish
            BY <3>2 DEF Finish, Pending, Coming
        <3> QED
            BY <1>8, <3>1, <3>2
    <2> QED
        BY <2>1, <2>2, <2>3, <2>4 DEF Over, Below
<1>9. CASE OtherStep
    <2>1. UNCHANGED <<pc, ids, idps, f1, returned>>
        BY <1>1, <1>9, OtherStepChanges
    <2>2. d \notin moved /\ place'[d] = s /\ NoDuplicates /\ Pending' = Pending
        BY <1>1, <1>9, <2>1, OtherStepPlaces DEF NoDuplicates, Pending
    <2>3. returned[d] <= 1 /\ Over(d)
        BY <1>1, <2>2 DEF ReturnedOver
    <2> SUFFICES ASSUME returned[d] >= 1, s # Nowhere
                 PROVE  /\ \A j \in Pending : idps[j] \notin Path'[s]
                        /\ ~(parent'[s] \in 1 .. s - 1
                             /\ Path'[parent'[s]] \intersect Coming' # {})
        BY <2>1, <2>2, <2>3 DEF Over, Below
    <2>4. s \in SiteIds /\ s < nextid /\ s # nextid
        BY <1>1, PlacedAt DEF TypeOK
    <2>5. Path'[s] \subseteq Path[s]
        BY <1>1, <1>9, <2>4, OtherStepPaths
    <2>6. (\A j \in Pending : idps[j] \notin Path[s]) /\ ~Below(s, Coming)
        BY <2>3 DEF Over
    <2> HIDE DEF s
    <2>7. ASSUME NEW t, t = s PROVE ~Below(t, Coming)'
        BY <1>1, <1>9, <2>4, <2>6, <2>7, OtherStepBelow
    <2> QED
        BY <2>5, <2>6, <2>7 DEF Below
<1>10. (\E n \in 0 .. MaxList : \E l \in [1 .. n -> SiteIds] : Start(l)) \/ Climb
           => pc \in {"idle", "climb"} /\ returned' = returned
    BY DEF Start, Climb
<1> QED
    BY <1>5, <1>6, <1>7, <1>8, <1>9, <1>10, NextSteps DEF CallStep, Walk

-----------------------------------------------------------------------------
(* Every device that stays is returned *)

\* A device that should have been returned and has not been moved.
Due(d) == d \in Promised \ moved /\ returned[d] = 0

LEMMA DuePlaced ==
    ASSUME TypeOK, Tree, NEW d \in Devices, Due(d), Root \notin ToSet(ids)
    PROVE  /\ place[d] \in SiteIds /\ place[d] < nextid
           /\ Root \in Path[place[d]] /\ Path[place[d]] \intersect ToSet(ids) # {}
BY PlacedAt DEF Due, Promised, Rooted

\* The climb drops a site of the list only if a site above it is left there.
LEMMA DroppedCovered ==
    ASSUME IInv, pc = "climb", Dropped, NEW s \in SiteIds, Root \in Path[s],
           NEW x \in ToSet(idps), x \in Path[s]
    PROVE  \E y \in ToSet(RemoveAt(idps, f1 + 1)) : y \in Path[s]
<1> DEFINE a == idps[f1 + 1]
<1>1. TypeOK /\ Tree /\ idps \in Seq(SiteIds)
    BY DEF IInv, TypeOK
<1>2. a \in SiteIds /\ idv \in SiteIds /\ idv <= a /\ f1 + 1 \in 1 .. Len(idps)
    BY ClimbAt
<1>3. CASE x # a
    BY <1>1, <1>2, <1>3, RemoveAtLeaves
<1>4. CASE x = a
    <2>1. Path[a] = {y \in Path[s] : y <= a}
        BY <1>4, PathIsPath, PathRest
    <2>2. Root \in Path[a]
        BY <1>2, <2>1
    <2>3. idv \in Path[a]
        <3>1. idv \in Path[a] \/ \A y \in Path[a] : y > idv
            BY DEF IInv, Climbing
        <3> QED
            BY <1>2, <2>2, <3>1
    <2>4. Path[idv] = {y \in Path[a] : y <= idv}
        BY <1>2, <2>3, PathIsPath, PathRest
    <2>5. Root \in Path[idv]
        BY <1>2, <2>2, <2>4
    <2>6. parent[idv] # NoRow
        <3>1. parent[idv] = NoRow => Path[idv] = {idv}
            BY <1>2, PathIsPath, PathOfOrphan
        <3>2. parent[Root] # NoRow
            BY <1>1 DEF Tree
        <3> QED
            BY <2>5, <3>1, <3>2
    <2>7. parent[idv] \in ToSet(idps)
        BY <2>6 DEF Dropped
    <2>8. parent[idv] \in 1 .. idv - 1
        <3>1. parent[idv] \in SiteIds
            BY <1>1, <2>7, ToSetOfSites
        <3> QED
            BY <1>1, <1>2, <3>1, Parents
    <2>9. parent[idv] \in Path[s] /\ parent[idv] # a
        <3>1. parent[idv] \in Path[idv]
            BY <1>2, <2>8, PathIsPath, PathOfParent
        <3> QED
            BY <1>2, <2>1, <2>4, <2>8, <3>1
    <2> QED
        BY <1>1, <1>2, <2>7, <2>9, RemoveAtLeaves
<1> QED
    BY <1>3, <1>4

\* Site 1 is never dropped.
LEMMA RootStays ==
    ASSUME IInv, pc = "climb", Root \in ToSet(idps), Dropped
    PROVE  Root \in ToSet(RemoveAt(idps, f1 + 1))
<1>1. TypeOK /\ Tree /\ idps \in Seq(SiteIds) /\ f1 + 1 \in 1 .. Len(idps)
      /\ idv \in SiteIds /\ idv <= idps[f1 + 1] /\ idps[f1 + 1] \in SiteIds
    BY ClimbAt DEF IInv, TypeOK
<1>2. idv # Root
    <2>1. 0 \notin ToSet(idps)
        BY <1>1, ToSetOfSites
    <2> QED
        BY <1>1, <2>1 DEF Dropped, Tree
<1>3. idps[f1 + 1] # Root
    BY <1>1, <1>2
<1> QED
    BY <1>1, <1>3, RemoveAtLeaves

\* All of the list is still to come when the first climb starts, and what climbs
\* have left of it is to come when the fetching starts.
LEMMA ClimbNextToCome ==
    ASSUME NEW l \in Seq(SiteIds), NEW k \in 0 .. Len(l), ClimbNext(l, k),
           NEW d \in Devices,
           IF Root \in ToSet(ids') THEN Root \in ToSet(l)
                                   ELSE \E x \in ToSet(l) : x \in Path'[place'[d]]
    PROVE  ToCome(d)'
<1>1. idps' = l
    BY ClimbNextCases
<1>2. CASE pc' = "climb"
    BY <1>1, <1>2 DEF ToCome
<1>3. CASE pc' = "fetch" /\ f1' = 0
    <2>1. Pending' = 1 .. Len(l)
        BY <1>1, <1>3 DEF Pending
    <2>2. \A x \in ToSet(l) : \E j \in Pending' : idps'[j] = x
        BY <1>1, <2>1, ToSetOfSites
    <2> QED
        BY <2>2 DEF ToCome
<1> QED
    BY <1>2, <1>3, ClimbNextCases

LEMMA PromisedToComeNext ==
    ASSUME IInv, Next
    PROVE  PromisedToCome'
<1>1. TypeOK /\ Tree /\ List /\ TypeOK' /\ Tree' /\ PromisedToCome
    BY TypeOKNext, TreeNext DEF IInv
<1> SUFFICES ASSUME pc' # "idle", NEW d \in Devices, Due(d)' PROVE ToCome(d)'
    BY DEF PromisedToCome, Due, Promised
<1> DEFINE s == place[d]
<1>2. ASSUME pc # "idle", Due(d) PROVE ToCome(d)
    BY <1>1, <1>2 DEF PromisedToCome, Due
<1>3. ASSUME NEW n \in 0 .. MaxList, NEW l \in [1 .. n -> SiteIds], Start(l)
      PROVE  ToCome(d)'
    <2>1. l \in Seq(SiteIds) /\ 0 \in 0 .. Len(l) /\ ClimbNext(l, 0) /\ ids' = l
        BY <1>3 DEF Start
    <2>2. Root \notin ToSet(l) => \E x \in ToSet(l) : x \in Path'[place'[d]]
        BY <2>1 DEF Due, Promised
    <2> QED
        BY <2>1, <2>2, ClimbNextToCome
<1>4. ASSUME UNCHANGED <<database, ids, history>>, returned[d] = 0
      PROVE  /\ Path' = Path /\ place'[d] = s /\ parent' = parent /\ Due(d)
             /\ Root \notin ToSet(ids) => s \in SiteIds /\ Root \in Path[s]
    <2>1. Path' = Path /\ place' = place /\ parent' = parent /\ ids' = ids /\ moved' = moved
        BY <1>4, PathUnchanged DEF database, history
    <2>2. Promised' = Promised
        BY <2>1 DEF Promised, Rooted
    <2>3. Due(d)
        BY <1>4, <2>1, <2>2 DEF Due
    <2> QED
        BY <1>1, <2>1, <2>3, DuePlaced
<1>5. CASE Climb
    <2>1. pc = "climb" /\ UNCHANGED <<database, ids, returned, history>>
        BY <1>5 DEF Climb
    <2>2. returned[d] = 0
        BY <2>1 DEF Due
    <2>3. /\ Path' = Path /\ place'[d] = s /\ ids' = ids
          /\ Root \notin ToSet(ids) => s \in SiteIds /\ Root \in Path[s]
        BY <1>4, <2>1, <2>2
    <2>4. IF Root \in ToSet(ids) THEN Root \in ToSet(idps)
                                 ELSE \E x \in ToSet(idps) : x \in Path[s]
        <3>1. ToCome(d) /\ Pending = {} /\ Coming = {}
            BY <1>2, <1>4, <2>1, <2>2 DEF Pending, Coming
        <3> QED
            BY <3>1 DEF ToCome, Below
    <2>5. f1 \in 0 .. Len(RemoveAt(idps, f1 + 1)) /\ f1 + 1 \in 0 .. Len(idps)
          /\ RemoveAt(idps, f1 + 1) \in Seq(SiteIds) /\ idps \in Seq(SiteIds)
        BY <1>1, <2>1, ClimbAt DEF TypeOK
    <2>6. CASE Dropped /\ ClimbNext(RemoveAt(idps, f1 + 1), f1)
        <3> DEFINE l == RemoveAt(idps, f1 + 1)
        <3>1. Root \in ToSet(ids) => Root \in ToSet(l)
            BY <2>1, <2>4, <2>6, RootStays
        <3>2. Root \notin ToSet(ids) => \E x \in ToSet(l) : x \in Path[s]
            BY <2>1, <2>3, <2>4, <2>6, DroppedCovered
        <3> HIDE DEF l, s
        <3> QED
            BY <2>3, <2>5, <2>6, <3>1, <3>2, ClimbNextToCome DEF l
    <2>7. CASE ClimbNext(idps, f1 + 1)
        <3> HIDE DEF s
        <3> QED
            BY <2>3, <2>4, <2>5, <2>7, ClimbNextToCome
    <2>8. CASE UNCHANGED <<pc, idps, f1>>
        <3>1. pc' = "climb" /\ idps' = idps
            BY <2>1, <2>8
        <3> HIDE DEF s
        <3> QED
            BY <2>3, <2>4, <3>1 DEF ToCome
    <2> QED
        BY <1>5, <2>6, <2>7, <2>8 DEF Climb
<1>6. CASE Fetch
    <2> DEFINE r == idps[f1 + 1]
    <2>1. pc = "fetch" /\ f1 < Len(idps) /\ UNCHANGED <<database, ids, idps, history>>
        BY <1>6 DEF Fetch
    <2>2. f1 \in Nat /\ Len(idps) \in Nat /\ returned[d] \in Nat
        BY <1>1, <2>1, FetchAt DEF TypeOK
    <2>3. Pending = f1 + 1 .. Len(idps) /\ Coming = {}
        BY <2>1 DEF Pending, Coming
    <2>4. r # Root /\ Return(In({r})) /\ idt' = {r} /\ pc' = "devices" /\ f1' = f1
        <3>1. CASE r = Root
            <4>1. Return(Devices)
                BY <1>6, <3>1 DEF Fetch
            <4>2. returned'[d] = returned[d] + 1
                BY <4>1 DEF Return
            <4> QED
                BY <2>2, <4>2 DEF Due
        <3> QED
            BY <1>6, <3>1 DEF Fetch
    <2>5. returned[d] = 0 /\ d \notin In({r})
        BY <2>2, <2>4 DEF Return, Due
    <2>6. /\ Path' = Path /\ place'[d] = s /\ parent' = parent /\ Due(d)
          /\ Root \notin ToSet(ids) => s \in SiteIds /\ Root \in Path[s]
        BY <1>4, <2>1, <2>5
    <2>7. Pending' = f1 + 2 .. Len(idps) /\ Coming' = {r} /\ idps' = idps /\ ids' = ids
        BY <2>1, <2>4 DEF Pending, Coming
    <2>8. PICK j \in Pending : IF Root \in ToSet(ids) THEN idps[j] = Root
                                                      ELSE idps[j] \in Path[s]
        <3>1. ToCome(d)
            BY <1>2, <2>1, <2>6
        <3> QED
            BY <2>1, <2>3, <3>1 DEF ToCome, Below
    <2>9. CASE j = f1 + 1
        <3>1. Root \notin ToSet(ids) /\ r \in Path[s] /\ s \in SiteIds
            BY <2>4, <2>6, <2>8, <2>9
        <3>2. s # r
            BY <2>5 DEF In
        <3>3. parent[s] \in 1 .. s - 1
            BY <3>1, <3>2, PathIsPath, PathOfOrphan
        <3>4. r \in Path[parent[s]]
            BY <3>1, <3>2, <3>3, PathIsPath, PathOfParent
        <3> HIDE DEF s, r
        <3> QED
            BY <2>6, <2>7, <3>1, <3>3, <3>4 DEF ToCome, Below
    <2>10. CASE j # f1 + 1
        <3>1. j \in Pending'
            BY <2>2, <2>3, <2>7, <2>10
        <3> HIDE DEF s, r
        <3> QED
            BY <2>6, <2>7, <2>8, <3>1 DEF ToCome
    <2> QED
        BY <2>9, <2>10
<1>7. CASE FetchLevel
    <2>1. pc = "devices" /\ pc' = "children" /\ Return(In(Children(idt)))
          /\ UNCHANGED <<database, ids, idps, f1, idt, history>>
        BY <1>7 DEF FetchLevel
    <2>2. returned[d] = 0 /\ d \notin In(Children(idt))
        BY <1>1, <2>1 DEF Return, Due, TypeOK
    <2>3. /\ Path' = Path /\ place'[d] = s /\ parent' = parent /\ Due(d)
          /\ Root \notin ToSet(ids) => s \in SiteIds /\ Root \in Path[s]
        BY <1>4, <2>1, <2>2
    <2>4. Pending' = Pending /\ Coming = idt /\ Coming' = Children(idt)
        BY <2>1, <2>3 DEF Pending, Coming, Children
    <2>5. ToCome(d)
        BY <1>2, <2>1, <2>3
    <2>6. CASE Root \notin ToSet(ids) /\ Below(s, idt)
        <3>1. s \in SiteIds /\ parent[s] \in 1 .. s - 1 /\ parent[s] \in SiteIds
            BY <1>1, <2>3, <2>6, Parents DEF Below
        <3>2. PICK t \in Path[parent[s]] : t \in idt
            BY <2>6 DEF Below
        <3>3. t # parent[s]
            BY <2>2, <3>1, <3>2 DEF In, Children
        <3>4. PICK u \in Path[parent[s]] : parent[u] = t
            BY <3>1, <3>2, <3>3, PathIsPath, PathChild
        <3>5. u \in SiteIds
            BY <3>1, <3>4, PathIsPath, PathOlder
        <3>6. u \in Children(idt)
            BY <3>2, <3>4, <3>5 DEF Children
        <3> HIDE DEF s
        <3> QED
            BY <2>1, <2>3, <2>4, <2>6, <3>1, <3>4, <3>6 DEF ToCome, Below
    <2>7. CASE \E j \in Pending : IF Root \in ToSet(ids) THEN idps[j] = Root
                                                         ELSE idps[j] \in Path[s]
        <3> HIDE DEF s
        <3> QED
            BY <2>1, <2>3, <2>4, <2>7 DEF ToCome
    <2> QED
        BY <2>1, <2>4, <2>5, <2>6, <2>7 DEF ToCome
<1>8. CASE NextLevel
    <2>1. pc = "children" /\ UNCHANGED <<database, ids, idps, returned, history>>
        BY <1>8 DEF NextLevel
    <2>2. returned[d] = 0
        BY <2>1 DEF Due
    <2>3. /\ Path' = Path /\ place'[d] = s /\ parent' = parent /\ Due(d)
        BY <1>4, <2>1, <2>2
    <2>4. ToCome(d)
        BY <1>2, <2>1, <2>3
    <2>5. Pending = f1 + 2 .. Len(idps) /\ Coming = Children(idt)
        BY <2>1 DEF Pending, Coming
    <2>6. Pending' = Pending /\ Coming' = Coming
        <3>1. CASE Children(idt) # {}
            <4>1. pc' = "devices" /\ f1' = f1 /\ idt' = Children(idt)
                BY <1>8, <3>1 DEF NextLevel
            <4> QED
                BY <2>1, <2>5, <4>1 DEF Pending, Coming
        <3>2. CASE Children(idt) = {}
            <4>1. pc' = "fetch" /\ f1' = f1 + 1 /\ f1 \in Nat /\ (f1 + 1) + 1 = f1 + 2
                BY <1>1, <1>8, <3>2 DEF NextLevel, TypeOK
            <4>2. Pending' = f1 + 2 .. Len(idps)
                BY <2>1, <4>1 DEF Pending
            <4>3. Coming' = {}
                BY <4>1 DEF Coming
            <4> QED
                BY <2>5, <3>2, <4>2, <4>3
        <3> QED
            BY <3>1, <3>2
    <2> HIDE DEF s
    <2> QED
        BY <2>1, <2>3, <2>4, <2>6 DEF ToCome, Below, s
<1>9. CASE Finish
    <2>1. pc = "fetch" /\ f1 = Len(idps) /\ UNCHANGED <<database, ids, returned, history>>
        BY <1>9 DEF Finish
    <2>2. ToCome(d)
        BY <1>2, <1>4, <2>1 DEF Due
    <2>3. Pending = {} /\ Coming = {}
        <3>1. Pending = f1 + 1 .. Len(idps) /\ Len(idps) \in Nat
            BY <1>1, <2>1, FetchAt DEF Pending, TypeOK
        <3> QED
            BY <2>1, <3>1 DEF Coming
    <2> QED
        BY <2>1, <2>2, <2>3 DEF ToCome, Below
<1>10. CASE OtherStep
    <2>1. UNCHANGED <<pc, ids, idps, f1, idt, returned>> /\ pc # "idle"
        BY <1>1, <1>10, OtherStepChanges
    <2>2. d \notin moved /\ place'[d] = s /\ Pending' = Pending /\ returned[d] = 0
        BY <1>1, <1>10, <2>1, OtherStepPlaces DEF Due, Pending
    <2>3. CASE Root \in ToSet(ids)
        <3>1. Due(d)
            BY <2>2, <2>3 DEF Due, Promised
        <3>2. ToCome(d)
            BY <1>2, <2>1, <3>1
        <3> QED
            BY <2>1, <2>2, <2>3, <3>2 DEF ToCome
    <2>4. CASE Root \notin ToSet(ids)
        <3>1. s # Nowhere /\ Root \in Path'[s] /\ Path'[s] \intersect ToSet(ids) # {}
            BY <2>1, <2>2, <2>4 DEF Due, Promised, Rooted
        <3>2. s \in SiteIds /\ s < nextid
            <4>1. s \in SiteIds
                BY <1>1, <3>1 DEF TypeOK
            <4>2. parent[s] # NoRow
                BY <1>1, <3>1 DEF Tree
            <4> QED
                BY <1>1, <4>1, <4>2, Parents
        <3>3. /\ Path'[s] = Path[s]
              /\ \A x \in Path[s] : parent'[x] = parent[x]
              /\ parent[s] \in 1 .. s - 1 => Path'[parent[s]] = Path[parent[s]]
            BY <1>1, <1>10, <3>1, <3>2, OtherStepRooted
        <3>4. Due(d)
            BY <2>2, <3>1, <3>3 DEF Due, Promised, Rooted
        <3>5. ToCome(d)
            BY <1>2, <2>1, <3>4
        <3>6. s \in Path[s] /\ parent'[s] = parent[s]
            BY <3>2, <3>3, PathIsPath, PathOlder
        <3>7. CASE Below(s, Coming)
            <4>1. parent[s] \in 1 .. s - 1
                BY <3>7 DEF Below
            <4>2. PICK c \in Path[parent[s]] : c \in Coming
                BY <3>7 DEF Below
            <4>3. c \in Path[s] /\ c \in SiteIds
                BY <3>2, <4>1, <4>2, PathIsPath, PathOfParent, PathOlder
            <4>4. parent'[c] = parent[c]
                BY <3>3, <4>3
            <4>5. c \in Coming'
                BY <2>1, <4>2, <4>3, <4>4 DEF Coming, Children
            <4> HIDE DEF s
            <4> QED
                BY <2>1, <2>2, <2>4, <3>3, <3>6, <4>1, <4>2, <4>5 DEF ToCome, Below
        <3>8. CASE ~Below(s, Coming)
            <4>1. \/ pc = "climb" /\ Path[s] \intersect ToSet(idps) # {}
                  \/ \E j \in Pending : idps[j] \in Path[s]
                BY <2>4, <3>5, <3>8 DEF ToCome
            <4> HIDE DEF s
            <4> QED
                BY <2>1, <2>2, <2>4, <3>3, <4>1 DEF ToCome
        <3> QED
            BY <3>7, <3>8
    <2> QED
        BY <2>3, <2>4
<1> QED
    BY <1>3, <1>5, <1>6, <1>7, <1>8, <1>9, <1>10, NextSteps DEF CallStep, Walk

-----------------------------------------------------------------------------
(* Nothing else is returned as long as nothing changes *)

LEMMA UndisturbedNext ==
    ASSUME IInv, Next
    PROVE  Undisturbed'
<1>1. TypeOK /\ Tree /\ List /\ Climbing /\ Undisturbed
    BY DEF IInv
<1>2. CASE OtherStep
    BY <1>1, <1>2, OtherStepChanges DEF Undisturbed
<1> SUFFICES ASSUME CallStep, changes' = 0 PROVE Undisturbed'
    BY <1>2, NextSteps DEF Undisturbed
<1>3. /\ Path' = Path /\ place' = place /\ parent' = parent
      /\ moved' = moved /\ changes = 0 /\ moved = {}
    BY <1>1, CallStepReads, PathUnchanged DEF database, history, Undisturbed
<1>4. /\ pc = "climb" => idv \in Path[idps[f1 + 1]]
      /\ \A i \in Kept : Root \in Path[idps[i]]
      /\ Walking => \A t \in idt : Root \in Path[t] /\ Path[t] \intersect ToSet(ids) # {}
      /\ \A d \in Devices : returned[d] >= 1 => d \in Promised
    BY <1>1, <1>3 DEF Undisturbed, Rooted
<1>5. SUFFICES /\ pc' = "climb" => idv' \in Path[idps'[f1' + 1]]
               /\ \A i \in Kept' : Root \in Path[idps'[i]]
               /\ Walking' => \A t \in idt' : Root \in Path[t]
                                             /\ Path[t] \intersect ToSet(ids') # {}
               /\ \A d \in Devices : returned'[d] >= 1 => d \in Promised'
    BY <1>3 DEF Undisturbed, Rooted
<1>6. \A d \in Devices : returned[d] \in Nat
    BY <1>1 DEF TypeOK
<1>7. ids' = ids => Promised' = Promised
    BY <1>3 DEF Promised, Rooted
<1>8. ASSUME NEW l \in Seq(SiteIds), NEW k \in 0 .. Len(l), ClimbNext(l, k)
      PROVE  (pc' = "climb" => idv' \in Path[idps'[f1' + 1]]) /\ ~Walking'
    <2>1. CASE pc' = "climb"
        <3>1. idps'[f1' + 1] = idv' /\ idv' \in SiteIds
            BY <1>8, <2>1, ClimbNextCases
        <3> QED
            BY <2>1, <3>1, PathIsPath, PathOlder DEF Walking
    <2>2. CASE pc' = "fetch"
        BY <2>2 DEF Walking
    <2> QED
        BY <1>8, <2>1, <2>2, ClimbNextCases
<1>9. CASE pc \in {"idle", "climb"} /\ returned' = returned
    <2>1. \A d \in Devices : returned'[d] = 0
        BY <1>1, <1>9 DEF List
    <2>2. ASSUME NEW n \in 0 .. MaxList, NEW l \in [1 .. n -> SiteIds], Start(l)
          PROVE  /\ pc' = "climb" => idv' \in Path[idps'[f1' + 1]]
                 /\ Kept' = {} /\ ~Walking'
        <3>1. l \in Seq(SiteIds) /\ 0 \in 0 .. Len(l) /\ ClimbNext(l, 0)
            BY <2>2 DEF Start
        <3> QED
            BY <1>8, <3>1, ClimbNextKept
    <2>3. CASE Climb
        <3> DEFINE a == idps[f1 + 1]
        <3>1. pc = "climb" /\ f1 \in 0 .. Len(RemoveAt(idps, f1 + 1)) /\ f1 + 1 \in 0 .. Len(idps)
              /\ f1 + 1 \in 1 .. Len(idps) /\ f1 \in Nat /\ Len(idps) \in Nat
              /\ RemoveAt(idps, f1 + 1) \in Seq(SiteIds) /\ idps \in Seq(SiteIds)
              /\ idv \in SiteIds /\ a \in SiteIds
            BY <1>1, <2>3, ClimbAt DEF Climb, TypeOK
        <3>2. Kept = 1 .. f1
            BY <3>1 DEF Kept, Fetched
        <3>3. CASE ClimbNext(RemoveAt(idps, f1 + 1), f1)
            <4>1. Kept' = 1 .. f1 /\ idps' = RemoveAt(idps, f1 + 1)
                BY <3>1, <3>3, ClimbNextKept
            <4>2. ASSUME NEW i \in 1 .. f1 PROVE idps'[i] = idps[i]
                <5>1. i \in 1 .. Len(idps) - 1 /\ i < f1 + 1
                    BY <3>1
                <5> QED
                    BY <3>1, <4>1, <5>1, RemoveAtMovesUp
            <4>3. \A i \in Kept' : Root \in Path[idps'[i]]
                BY <1>4, <3>2, <4>1, <4>2
            <4>4. (pc' = "climb" => idv' \in Path[idps'[f1' + 1]]) /\ ~Walking'
                BY <1>8, <3>1, <3>3
            <4> QED
                BY <2>1, <4>3, <4>4
        <3>4. CASE ClimbNext(idps, f1 + 1) /\ parent[idv] = 0
            <4>1. Kept' = 1 .. f1 + 1 /\ idps' = idps
                BY <3>1, <3>4, ClimbNextKept
            <4>2. idv = Root
                BY <1>1, <3>1, <3>4, Parents
            <4>3. \A i \in 1 .. f1 + 1 : i \in 1 .. f1 \/ i = f1 + 1
                BY <3>1
            <4>4. \A i \in Kept' : Root \in Path[idps'[i]]
                <5>1. Root \in Path[idps[f1 + 1]]
                    BY <1>4, <3>1, <4>2
                <5> QED
                    BY <1>4, <3>2, <4>1, <4>3, <5>1
            <4> QED
                BY <1>8, <2>1, <3>1, <3>4, <4>4
        <3>5. CASE parent[idv] > 0 /\ idv' = parent[idv] /\ UNCHANGED <<pc, idps, f1>>
            <4>1. parent[idv] \in 1 .. idv - 1
                BY <1>1, <3>1, <3>5, Parents
            <4>2. parent[idv] \in Path[idv]
                BY <3>1, <4>1, PathIsPath, PathOfParent
            <4>3. parent[idv] \in Path[a]
                BY <1>4, <3>1, <4>2, PathTransitive
            <4>4. Kept' = Kept /\ pc' = "climb" /\ ~Walking'
                BY <3>1, <3>5 DEF Kept, Fetched, Walking
            <4> QED
                BY <1>4, <2>1, <3>1, <3>5, <4>3, <4>4
        <3> QED
            BY <2>3, <3>3, <3>4, <3>5 DEF Climb
    <2>4. (\E n \in 0 .. MaxList : \E l \in [1 .. n -> SiteIds] : Start(l)) \/ Climb
        BY <1>9 DEF CallStep, Walk, Fetch, FetchLevel, NextLevel, Finish
    <2> QED
        BY <2>1, <2>2, <2>3, <2>4
<1>10. CASE Fetch \/ FetchLevel \/ NextLevel \/ Finish
    <2>1. UNCHANGED <<ids, idps>> /\ pc' # "climb" /\ Fetched /\ Fetched'
        BY <1>10 DEF Fetch, FetchLevel, NextLevel, Finish, Fetched
    <2>2. Kept' = Kept
        BY <2>1 DEF Kept, Fetched
    <2>3. Promised' = Promised
        BY <1>7, <2>1
    <2>4. ToSet(idps) \subseteq ToSet(ids) /\ Kept = DOMAIN idps
        BY <1>1, <2>1 DEF List, Kept, Fetched
    <2>5. ASSUME Walking, NEW c \in Children(idt)
          PROVE  Root \in Path[c] /\ Path[c] \intersect ToSet(ids) # {}
        <3>1. parent[c] \in idt /\ Path[c] = {c} \union Path[parent[c]]
            BY <1>1, ChildPath DEF TypeOK
        <3> QED
            BY <1>4, <2>5, <3>1
    <2>6. ASSUME NEW X, Return(In(X)),
                 \A t \in X : t # Nowhere /\ Root \in Path[t] /\ Path[t] \intersect ToSet(ids) # {}
          PROVE  \A d \in Devices : returned'[d] >= 1 => d \in Promised
        <3> SUFFICES ASSUME NEW d \in Devices, returned'[d] >= 1, d \notin Promised PROVE FALSE
            OBVIOUS
        <3>1. returned[d] = 0
            BY <1>4, <1>6
        <3>2. d \in In(X)
            BY <2>6, <3>1 DEF Return
        <3> QED
            BY <2>6, <3>2 DEF In, Promised, Rooted
    <2>7. CASE Fetch
        <3> DEFINE r == idps[f1 + 1]
        <3>1. pc = "fetch" /\ f1 < Len(idps)
            BY <2>7 DEF Fetch
        <3>2. f1 + 1 \in DOMAIN idps /\ r \in SiteIds /\ r \in ToSet(ids)
            BY <1>1, <2>4, <3>1, FetchAt
        <3>3. CASE r = Root
            <4>1. pc' = "fetch" /\ Promised = Devices
                BY <2>7, <3>2, <3>3 DEF Fetch, Promised
            <4> QED
                BY <1>4, <2>1, <2>2, <2>3, <4>1 DEF Walking
        <3>4. CASE r # Root
            <4>1. Return(In({r})) /\ idt' = {r} /\ pc' = "devices"
                BY <2>7, <3>4 DEF Fetch
            <4>2. Root \in Path[r] /\ r \in Path[r]
                BY <1>4, <2>4, <3>2, PathIsPath, PathOlder
            <4>3. \A t \in {r} : t # Nowhere /\ Root \in Path[t] /\ Path[t] \intersect ToSet(ids) # {}
                BY <3>2, <4>2
            <4>4. \A d \in Devices : returned'[d] >= 1 => d \in Promised
                BY <2>6, <4>1, <4>3
            <4> QED
                BY <1>4, <2>1, <2>2, <2>3, <4>1, <4>3, <4>4
        <3> QED
            BY <3>3, <3>4
    <2>8. CASE FetchLevel
        <3>1. Walking /\ Return(In(Children(idt))) /\ idt' = idt
            BY <2>8 DEF FetchLevel, Walking
        <3>2. \A c \in Children(idt) : c # Nowhere
            BY DEF Children
        <3>3. \A d \in Devices : returned'[d] >= 1 => d \in Promised
            BY <2>5, <2>6, <3>1, <3>2
        <3> QED
            BY <1>4, <2>1, <2>2, <2>3, <3>1, <3>3
    <2>9. CASE NextLevel
        <3>1. Walking /\ returned' = returned /\ idt' = Children(idt)
            BY <2>9 DEF NextLevel, Walking
        <3> QED
            BY <1>4, <2>1, <2>2, <2>3, <2>5, <3>1
    <2>10. CASE Finish
        <3>1. ~Walking' /\ returned' = returned
            BY <2>10 DEF Finish, Walking
        <3> QED
            BY <1>4, <2>1, <2>2, <2>3, <3>1
    <2> QED
        BY <1>10, <2>7, <2>8, <2>9, <2>10
<1>11. (\E n \in 0 .. MaxList : \E l \in [1 .. n -> SiteIds] : Start(l)) \/ Climb
           => pc \in {"idle", "climb"} /\ returned' = returned
    BY DEF Start, Climb
<1> QED
    BY <1>9, <1>10, <1>11 DEF CallStep, Walk

-----------------------------------------------------------------------------
(* The invariant holds *)

LEMMA InitIInv == Init => IInv
<1> SUFFICES ASSUME Init PROVE IInv
    OBVIOUS
<1>1. pc = "idle" /\ ids = <<>> /\ idps = <<>> /\ f1 = 0 /\ changes = 0 /\ moved = {}
      /\ idt = {} /\ idv = 0 /\ returned = [d \in Devices |-> 0]
    BY DEF Init
<1>2. TypeOK /\ Tree
    BY DEF Init, TypeOK, Tree
<1>3. List
    BY <1>1 DEF List, Walking, ToSet
<1>4. Climbing /\ Level /\ PromisedToCome
    BY <1>1 DEF Climbing, Level, PromisedToCome, Walking
<1>5. Kept = {}
    BY <1>1 DEF Kept, Fetched
<1>6. ReturnedOver
    BY <1>1 DEF ReturnedOver, Over
<1>7. KeptClean /\ Undisturbed
    BY <1>1, <1>5 DEF KeptClean, Undisturbed, Walking
<1> QED
    BY <1>2, <1>3, <1>4, <1>6, <1>7 DEF IInv

LEMMA StutterIInv ==
    ASSUME IInv, UNCHANGED vars
    PROVE  IInv'
<1>1. UNCHANGED <<parent, place, nextid, pc, ids, idps, f1, idv, idt, returned, changes, moved>>
    BY DEF vars, database, call, history
<1>2. Path' = Path
    BY <1>1, PathUnchanged
<1>3. Kept' = Kept /\ Pending' = Pending /\ Coming' = Coming /\ Promised' = Promised
    BY <1>1, <1>2 DEF Kept, Fetched, Pending, Coming, Children, Promised, Rooted
<1>4. NoDuplicates' = NoDuplicates
    BY <1>1 DEF NoDuplicates
<1>5. TypeOK' /\ Tree' /\ List'
    BY <1>1, <1>4 DEF IInv, TypeOK, Tree, List, Walking
<1>6. Climbing' /\ KeptClean' /\ Level'
    BY <1>1, <1>2, <1>3, <1>4 DEF IInv, Climbing, KeptClean, Level, Walking
<1>7. ReturnedOver' /\ PromisedToCome' /\ Undisturbed'
    BY <1>1, <1>2, <1>3, <1>4
       DEF IInv, ReturnedOver, Over, Below, PromisedToCome, ToCome, Undisturbed, Walking, Rooted
<1> QED
    BY <1>5, <1>6, <1>7 DEF IInv

\* The promises of the walk hold in every state.
THEOREM Invariance == Spec => []IInv
<1>1. IInv /\ [Next]_vars => IInv'
    <2> SUFFICES ASSUME IInv, Next \/ UNCHANGED vars PROVE IInv'
        OBVIOUS
    <2>1. CASE Next
        <3>1. TypeOK' /\ Tree' /\ List' /\ Climbing' /\ KeptClean' /\ Level'
            BY <2>1, TypeOKNext, TreeNext, ListNext, ClimbingNext, KeptCleanNext, LevelNext
               DEF IInv
        <3>2. ReturnedOver' /\ PromisedToCome' /\ Undisturbed'
            BY <2>1, ReturnedOverNext, PromisedToComeNext, UndisturbedNext
        <3> QED
            BY <3>1, <3>2 DEF IInv
    <2> QED
        BY <2>1, StutterIInv
<1> QED
    BY <1>1, InitIInv, PTL DEF Spec

-----------------------------------------------------------------------------
(* The call comes to its end *)

OldestOf(X) == CHOOSE t \in X : \A u \in X : t <= u

\* How far the call is from its end: the stage, the sites of the list that are left
\* in it, and the steps that the climb or the walk can still take for the first of
\* them.  A walk starts at one site, and has at most MaxSite levels below it.
Distance ==
    CASE pc = "climb"    -> <<2, Len(idps) - f1, idv>>
      [] pc = "fetch"    -> <<1, Len(idps) - f1, 2 * MaxSite + 2>>
      [] pc = "devices"  -> <<1, Len(idps) - f1, 2 * (MaxSite - OldestOf(idt)) + 1>>
      [] pc = "children" -> <<1, Len(idps) - f1, 2 * (MaxSite - OldestOf(idt))>>
      [] OTHER           -> <<0, 0, 0>>

\* x comes before y in the lexicographic order.
Nearer(x, y) ==
    \/ x[1] < y[1]
    \/ x[1] = y[1] /\ x[2] < y[2]
    \/ x[1] = y[1] /\ x[2] = y[2] /\ x[3] < y[3]

\* Every step of the call brings it nearer to its end, and nothing that others
\* commit puts it back.
ComesToItsEnd ==
    [][pc # "idle" => IF Walk THEN Nearer(Distance', Distance) ELSE Distance' = Distance]_vars

LEMMA OldestOfSites ==
    ASSUME NEW X \in SUBSET SiteIds, X # {}
    PROVE  OldestOf(X) \in X /\ OldestOf(X) \in SiteIds /\ \A u \in X : OldestOf(X) <= u
<1>1. X \in SUBSET Nat
    OBVIOUS
<1>2. \E t \in X : \A u \in X : t <= u
    BY <1>1, LeastElement
<1> QED
    BY <1>2 DEF OldestOf

\* The distance is in a well-founded order: triples of natural numbers.
LEMMA DistanceNatural ==
    ASSUME IInv
    PROVE  Distance \in Nat \X Nat \X Nat
<1>1. f1 \in Nat /\ Len(idps) - f1 \in Nat
    <2>1. idps \in Seq(SiteIds) /\ f1 \in 0 .. Len(idps)
        BY DEF IInv, TypeOK
    <2>2. Len(idps) \in Nat
        BY <2>1
    <2> QED
        BY <2>1, <2>2
<1>2. CASE pc = "climb"
    <2>1. idv \in Nat
        BY <1>2, ClimbAt
    <2> QED
        BY <1>1, <1>2, <2>1 DEF Distance
<1>3. CASE Walking
    <2>1. OldestOf(idt) \in SiteIds
        BY <1>3, OldestOfSites DEF IInv, TypeOK, List
    <2>2. 2 * (MaxSite - OldestOf(idt)) \in Nat /\ 2 * (MaxSite - OldestOf(idt)) + 1 \in Nat
        BY <2>1
    <2> QED
        BY <1>1, <1>3, <2>2 DEF Distance, Walking
<1>4. CASE pc = "fetch"
    BY <1>1, <1>4 DEF Distance
<1>5. CASE pc \notin {"climb", "fetch", "devices", "children"}
    BY <1>5 DEF Distance
<1> QED
    BY <1>2, <1>3, <1>4, <1>5 DEF Walking

LEMMA StepsComeNearer ==
    ASSUME IInv, Walk
    PROVE  Nearer(Distance', Distance)
<1>1. TypeOK /\ Tree /\ List
    BY DEF IInv
<1>2. f1 \in Nat /\ Len(idps) \in Nat
    BY <1>1, ToSetOfSites DEF TypeOK
<1>3. CASE Climb
    <2>1. pc = "climb" /\ idv \in SiteIds /\ idps \in Seq(SiteIds) /\ f1 + 1 \in 1 .. Len(idps)
          /\ f1 \in 0 .. Len(RemoveAt(idps, f1 + 1)) /\ f1 + 1 \in 0 .. Len(idps)
          /\ RemoveAt(idps, f1 + 1) \in Seq(SiteIds)
          /\ Len(RemoveAt(idps, f1 + 1)) = Len(idps) - 1
        BY <1>1, <1>3, ClimbAt, RemoveAtMovesUp DEF Climb, TypeOK
    <2>2. Distance = <<2, Len(idps) - f1, idv>>
        BY <2>1 DEF Distance
    <2>3. ASSUME NEW l \in Seq(SiteIds), NEW k \in 0 .. Len(l), ClimbNext(l, k),
                 Len(l) - k < Len(idps) - f1
          PROVE  Nearer(Distance', Distance)
        <3>1. CASE pc' = "climb" /\ f1' = k /\ idps' = l
            <4>1. Distance' = <<2, Len(l) - k, idv'>>
                BY <3>1 DEF Distance
            <4> QED
                BY <2>2, <2>3, <4>1 DEF Nearer
        <3>2. CASE pc' = "fetch"
            <4>1. Distance' = <<1, Len(idps') - f1', 2 * MaxSite + 2>>
                BY <3>2 DEF Distance
            <4> QED
                BY <2>2, <4>1 DEF Nearer
        <3> QED
            BY <2>3, <3>1, <3>2, ClimbNextCases
    <2>4. CASE ClimbNext(RemoveAt(idps, f1 + 1), f1)
        <3>1. Len(RemoveAt(idps, f1 + 1)) - f1 < Len(idps) - f1
            BY <1>2, <2>1
        <3> QED
            BY <2>1, <2>3, <2>4, <3>1
    <2>5. CASE ClimbNext(idps, f1 + 1)
        <3>1. Len(idps) - (f1 + 1) < Len(idps) - f1
            BY <1>2
        <3> QED
            BY <2>1, <2>3, <2>5, <3>1
    <2>6. CASE parent[idv] > 0 /\ idv' = parent[idv] /\ UNCHANGED <<pc, idps, f1>>
        <3>1. parent[idv] < idv
            BY <1>1, <2>1, <2>6, Parents
        <3>2. Distance' = <<2, Len(idps) - f1, parent[idv]>>
            BY <2>1, <2>6 DEF Distance
        <3> QED
            BY <2>2, <3>1, <3>2 DEF Nearer
    <2> QED
        BY <1>3, <2>4, <2>5, <2>6 DEF Climb
<1>4. CASE Fetch
    <2> DEFINE r == idps[f1 + 1]
    <2>1. pc = "fetch" /\ f1 < Len(idps) /\ idps' = idps
        BY <1>4 DEF Fetch
    <2>2. Distance = <<1, Len(idps) - f1, 2 * MaxSite + 2>>
        BY <2>1 DEF Distance
    <2>3. CASE r = Root
        <3>1. pc' = "fetch" /\ f1' = f1 + 1
            BY <1>4, <2>1, <2>3 DEF Fetch
        <3>2. Distance' = <<1, Len(idps) - (f1 + 1), 2 * MaxSite + 2>>
            BY <2>1, <3>1 DEF Distance
        <3>3. Len(idps) - (f1 + 1) < Len(idps) - f1
            BY <1>2
        <3> QED
            BY <2>2, <3>2, <3>3 DEF Nearer
    <2>4. CASE r # Root
        <3>1. pc' = "devices" /\ f1' = f1 /\ idt' = {r}
            BY <1>4, <2>4 DEF Fetch
        <3>2. r \in SiteIds
            BY <2>1, FetchAt
        <3>3. OldestOf({r}) \in SiteIds
            BY <3>2, OldestOfSites
        <3>4. Distance' = <<1, Len(idps) - f1, 2 * (MaxSite - OldestOf({r})) + 1>>
            BY <2>1, <3>1 DEF Distance
        <3>5. 2 * (MaxSite - OldestOf({r})) + 1 < 2 * MaxSite + 2
            BY <3>3
        <3> QED
            BY <2>2, <3>4, <3>5 DEF Nearer
    <2> QED
        BY <2>3, <2>4
<1>5. CASE FetchLevel
    <2>1. pc = "devices" /\ pc' = "children" /\ UNCHANGED <<idps, f1, idt>>
        BY <1>5 DEF FetchLevel
    <2>2. OldestOf(idt) \in SiteIds
        BY <1>1, <2>1, OldestOfSites DEF TypeOK, List, Walking
    <2>3. /\ Distance = <<1, Len(idps) - f1, 2 * (MaxSite - OldestOf(idt)) + 1>>
          /\ Distance' = <<1, Len(idps) - f1, 2 * (MaxSite - OldestOf(idt))>>
        BY <2>1 DEF Distance
    <2>4. 2 * (MaxSite - OldestOf(idt)) < 2 * (MaxSite - OldestOf(idt)) + 1
        BY <2>2
    <2> QED
        BY <2>3, <2>4 DEF Nearer
<1>6. CASE NextLevel
    <2>1. pc = "children" /\ idps' = idps /\ idt' = Children(idt)
        BY <1>6 DEF NextLevel
    <2>2. OldestOf(idt) \in SiteIds /\ \A t \in idt : OldestOf(idt) <= t
        BY <1>1, <2>1, OldestOfSites DEF TypeOK, List, Walking
    <2>3. Distance = <<1, Len(idps) - f1, 2 * (MaxSite - OldestOf(idt))>>
        BY <2>1 DEF Distance
    <2>4. CASE Children(idt) # {}
        <3>1. pc' = "devices" /\ f1' = f1
            BY <1>6, <2>4 DEF NextLevel
        <3> DEFINE c == OldestOf(Children(idt))
        <3>2. c \in Children(idt) /\ c \in SiteIds
            <4>1. Children(idt) \in SUBSET SiteIds
                BY DEF Children
            <4> QED
                BY <2>4, <4>1, OldestOfSites
        <3>3. parent[c] \in idt /\ parent[c] \in 1 .. c - 1
            BY <1>1, <3>2, ChildPath DEF TypeOK
        <3>4. OldestOf(idt) <= parent[c]
            BY <2>2, <3>3
        <3>5. Distance' = <<1, Len(idps) - f1, 2 * (MaxSite - c) + 1>>
            BY <2>1, <3>1 DEF Distance
        <3> HIDE DEF c
        <3>6. 2 * (MaxSite - c) + 1 < 2 * (MaxSite - OldestOf(idt))
            BY <2>2, <3>2, <3>3, <3>4
        <3> QED
            BY <2>3, <3>5, <3>6 DEF Nearer
    <2>5. CASE Children(idt) = {}
        <3>1. pc' = "fetch" /\ f1' = f1 + 1
            BY <1>6, <2>5 DEF NextLevel
        <3>2. Distance' = <<1, Len(idps) - (f1 + 1), 2 * MaxSite + 2>>
            BY <2>1, <3>1 DEF Distance
        <3>3. Len(idps) - (f1 + 1) < Len(idps) - f1
            BY <1>2
        <3> QED
            BY <2>3, <3>2, <3>3 DEF Nearer
    <2> QED
        BY <2>4, <2>5
<1>7. CASE Finish
    <2>1. pc = "fetch" /\ pc' = "done"
        BY <1>7 DEF Finish
    <2>2. Distance = <<1, Len(idps) - f1, 2 * MaxSite + 2>> /\ Distance' = <<0, 0, 0>>
        BY <2>1 DEF Distance
    <2> QED
        BY <2>2 DEF Nearer
<1> QED
    BY <1>3, <1>4, <1>5, <1>6, <1>7 DEF Walk

LEMMA DistanceKept ==
    ASSUME IInv, [Next]_vars, ~Walk, pc # "idle"
    PROVE  Distance' = Distance
<1>1. CASE OtherStep
    BY <1>1, OtherStepChanges DEF IInv, Distance
<1>2. CASE UNCHANGED vars
    BY <1>2 DEF vars, call, Distance
<1>3. CASE \E n \in 0 .. MaxList : \E l \in [1 .. n -> SiteIds] : Start(l)
    BY <1>3 DEF Start
<1> QED
    BY <1>1, <1>2, <1>3, NextSteps DEF CallStep

-----------------------------------------------------------------------------
(* Theorems *)

\* Whatever the sessions do, the call and the tree keep their shape: positions are
\* in the list, and sites have older parents.
THEOREM TypeCorrect == Spec => [](TypeOK /\ Tree)
<1>1. IInv => TypeOK /\ Tree
    BY DEF IInv
<1> QED
    BY <1>1, Invariance, PTL

\* Whatever changes during the call, a device that nobody moves is returned once
\* at most, unless the list has a site twice.
THEOREM ReturnedOnce == Spec => []NotTwice
<1>1. IInv => NotTwice
    BY DEF IInv, ReturnedOver, NotTwice
<1> QED
    BY <1>1, Invariance, PTL

\* Whatever changes during the call, a device that stays below sites that stay is
\* returned.
THEOREM StayedReturned == Spec => []StayedAreReturned
<1>1. IInv => StayedAreReturned
    <2> SUFFICES ASSUME IInv, pc = "done", NEW d \in Promised \ moved, returned[d] = 0
                 PROVE  FALSE
        <3>1. \A d \in Promised : d \in Devices /\ (IInv => returned[d] \in Nat)
            BY DEF Promised, IInv, TypeOK
        <3> QED
            BY <3>1 DEF StayedAreReturned
    <2>1. ToCome(d)
        BY DEF IInv, PromisedToCome
    <2>2. Pending = {} /\ Coming = {}
        BY DEF Pending, Coming
    <2> QED
        BY <2>1, <2>2 DEF ToCome, Below
<1> QED
    BY <1>1, Invariance, PTL

\* A call during which nothing changes returns the devices below the sites of the
\* list, each of them once, and no others.
THEOREM ReturnsPromised == Spec => []ReturnsWhatItPromises
<1>1. IInv /\ NotTwice /\ StayedAreReturned => ReturnsWhatItPromises
    <2> SUFFICES ASSUME IInv, NotTwice, StayedAreReturned, pc = "done", changes = 0,
                        NEW d \in Devices
                 PROVE  IF d \in Promised
                        THEN returned[d] >= 1 /\ (NoDuplicates => returned[d] = 1)
                        ELSE returned[d] = 0
        BY DEF ReturnsWhatItPromises
    <2>1. moved = {} /\ (returned[d] >= 1 => d \in Promised) /\ returned[d] \in Nat
        BY DEF IInv, Undisturbed, TypeOK
    <2>2. NoDuplicates => returned[d] <= 1
        BY <2>1 DEF NotTwice
    <2>3. d \in Promised => returned[d] >= 1
        BY <2>1 DEF StayedAreReturned
    <2> QED
        BY <2>1, <2>2, <2>3
<1> QED
    BY <1>1, Invariance, ReturnedOnce, StayedReturned, PTL

\* Whatever changes during the call, each of its steps brings it nearer to its end:
\* no more steps are left than there are triples below the distance, which does not
\* grow when others create sites under the level that the walk has come to.
THEOREM WalkTerminates == Spec => [](Distance \in Nat \X Nat \X Nat) /\ ComesToItsEnd
<1>1. IInv => Distance \in Nat \X Nat \X Nat
    BY DistanceNatural
<1>2. IInv /\ [Next]_vars
          => [pc # "idle" => IF Walk THEN Nearer(Distance', Distance)
                                     ELSE Distance' = Distance]_vars
    BY StepsComeNearer, DistanceKept
<1> QED
    BY <1>1, <1>2, Invariance, PTL DEF Spec, ComesToItsEnd

=============================================================================
