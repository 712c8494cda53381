------------------------- MODULE PersonalSyncProofs -------------------------
(***************************************************************************)
(* Theorems about PersonalSync, for any records, accounts, limits and      *)
(* numbers of edits and failures: types and the caps, that the base has    *)
(* only what the account acknowledged, that the cursor passes nothing by,  *)
(* and that every tombstone is for a record that was removed or retired.   *)
(*                                                                         *)
(* A step of the argument is about one record nobody touched: what the     *)
(* answers of a running cycle make of it, and whether a change to it is    *)
(* still to be pushed.  MergeAll is defined along the answers, so what is  *)
(* needed of it comes from its smallest counterexample.                    *)
(***************************************************************************)
EXTENDS PersonalSync, FiniteSetTheorems, SequenceTheorems, WellFoundedInduction, TLAPS

\* A live version is a stamp of this device or an odd one of another, so it is below the
\* last stamp, which only a tombstone may have.
LiveStamps   == 0..(2 * MaxLocal + 1)
LiveVersions == [Records -> LiveStamps]
LiveStates   == [base : LiveVersions, cursor : Nat]
LiveChange   == {c \in Change : c.at # 0 /\ (c.deleted \/ c.at <= 2 * MaxLocal + 1)}
LiveHeld     == {h \in Held : /\ h.at = 0 <=> h.rev = 0
                              /\ h.at = 0 => ~h.deleted
                              /\ h.deleted \/ h.at <= 2 * MaxLocal + 1}
LiveRecords  == [Records -> LiveHeld]

\* A request has one change of a record at most.
Pushes == {R \in SUBSET LiveChange : \A c, d \in R : c.id = d.id => c = d}
Cycles == [stage : {"idle", "sending", "done", "failed"}, account : Accounts,
           todo : Seq(Pushes), since : Nat, got : Seq(SUBSET LiveChange), rev : Nat]

\* The types the argument needs.
StoreInv ==
    /\ profile \in LiveVersions /\ WithinCaps(profile)
    /\ file \in LiveVersions \cup {NoFile}
    /\ file # NoFile => WithinCaps(file)
    /\ sync \in LiveStates /\ saved \in LiveStates
    /\ localEdits \in 0..MaxLocal

ServerInv == account \in Accounts /\ server \in [Accounts -> LiveRecords]

CycleInv ==
    /\ cycle \in Cycles
    /\ cycle.stage = "sending" => cycle.todo # <<>>
    /\ cycle.stage = "done" => cycle.todo = <<>> /\ cycle.got # <<>>

GhostInv ==
    /\ born \subseteq Records /\ touched \subseteq Records /\ overtaken \subseteq Records
    /\ evicted \subseteq Records /\ removed \subseteq Records /\ resetLost \in BOOLEAN

Types == StoreInv /\ ServerInv /\ CycleInv /\ GhostInv

\* The revision of what an account holds, and what a profile should say of a record.
Newest(held) == Max({held[r].rev : r \in Records} \cup {0})
Said(h) == IF h.deleted THEN 0 ELSE h.at

\* The base and cursor of s are true of what an account holds, but for records
\* a cycle overtook (ot) or that were dropped when answers were merged (ev).
TrueOf(s, held, ot, ev) == \A r \in Records \ ot :
    /\ s.base[r] <= held[r].at
    /\ s.cursor <= Newest(held)
    /\ r \notin ev /\ held[r].rev <= s.cursor => s.base[r] = Said(held[r])

\* Some request still to be sent has a change of record r, no older than at.
Untold(todo, r, at) == \E i \in DOMAIN todo : \E c \in todo[i] : c.id = r /\ c.at >= at

\* How far cycle c has come with record r of a profile p, when neither it nor base s changed:
\* before the first answer what differs from the base is still to be pushed, the answers make
\* nothing newer than the account has but what is, and after an answer the merged profile says
\* what the account does, as far as the cycle has seen it.
OnCourse(c, s, p, held, ev, r) ==
    /\ c.rev <= Newest(held)
    /\ c.got = <<>> => /\ c.since = s.cursor
                       /\ (p[r] = s.base[r] \/ Untold(c.todo, r, p[r]))
    /\ p[r] <= held[r].at \/ Untold(c.todo, r, p[r])
    /\ MergeAll(p, c.got)[r] <= p[r] \/ MergeAll(p, c.got)[r] <= held[r].at
    /\ c.got # <<>> /\ r \notin ev /\ held[r].rev <= c.rev
          => MergeAll(p, c.got)[r] = Said(held[r]) \/ Untold(c.todo, r, p[r])

Tracked(c, s, p, a, held, ot, ev, tc) ==
    c.stage \in {"sending", "done"} =>
        \A r \in Records \ (tc \cup ot) : c.account = a /\ OnCourse(c, s, p, held, ev, r)

TrueNow == TrueOf(sync, server[account], overtaken, evicted)
           /\ TrueOf(saved, server[account], overtaken, evicted)
OnTrack == Tracked(cycle, sync, profile, account, server[account], overtaken, evicted, touched)

BaseInv == resetLost \/ (TrueNow /\ OnTrack)

\* Whatever is deleted, or would be, was removed or retired: what base b has and versions p lack, the
\* tombstones that are to be pushed, those of the answers and those of the accounts.
LackedIsRemoved(b, p) == \A r \in Records : b[r] # 0 /\ p[r] = 0 => r \in removed
BasesFit == /\ LackedIsRemoved(sync.base, profile) /\ LackedIsRemoved(saved.base, profile)
            /\ file # NoFile => LackedIsRemoved(saved.base, file)
PushesFit == \A i \in DOMAIN cycle.todo : \A c \in cycle.todo[i] : c.deleted => c.id \in removed
AnswersFit == \A i \in DOMAIN cycle.got : \A c \in cycle.got[i] : c.deleted => c.id \in removed
ServerFits == \A a \in Accounts, r \in Records : server[a][r].deleted => r \in removed
Fit == BasesFit /\ PushesFit /\ AnswersFit /\ ServerFits

IInv == Types /\ BaseInv /\ (resetLost \/ Fit)

-----------------------------------------------------------------------------
(***************************************************************************)
(* Numbers and finite sets.                                                *)
(***************************************************************************)

LEMMA Smallest ==
  ASSUME NEW T, T \subseteq Nat, T # {}
  PROVE  \E m \in T : \A n \in T : m <= n
<1>1. PICK m \in T : \A n \in T : ~(<<n, m>> \in OpToRel(<, Nat))
  BY NatLessThanWellFounded, WFMin
<1>2. \A n \in T : ~(n < m)
  BY <1>1 DEF OpToRel
<1> QED BY <1>2

\* A finite set of numbers has a largest one: the one with the fewest above it.
LEMMA Largest ==
  ASSUME NEW T, T \subseteq Nat, T # {}, IsFiniteSet(T)
  PROVE  Max(T) \in T /\ \A n \in T : Max(T) >= n
<1> DEFINE Above(x) == {y \in T : y > x}
           Counts == {Cardinality(Above(x)) : x \in T}
<1>1. \A x \in T : IsFiniteSet(Above(x)) /\ Cardinality(Above(x)) \in Nat
  BY FS_Subset, FS_CardinalityType
<1>2. Counts \subseteq Nat /\ Counts # {}
  BY <1>1
<1>3. PICK n \in Counts : \A k \in Counts : n <= k
  <2> HIDE DEF Counts
  <2> QED BY <1>2, Smallest
<1>4. PICK x \in T : n = Cardinality(Above(x))
  BY <1>3
<1>5. ASSUME NEW y \in T, y > x PROVE FALSE
  <2>1. Above(y) \in SUBSET Above(x) /\ Above(y) # Above(x)
    <3>1. x \in Nat /\ y \in Nat
      BY <1>5
    <3>2. y \in Above(x) /\ y \notin Above(y)
      BY <1>5, <3>1
    <3>3. ASSUME NEW z \in Above(y) PROVE z \in Above(x)
      BY <1>5, <3>1
    <3> QED BY <3>2, <3>3
  <2>2. Cardinality(Above(y)) <= Cardinality(Above(x))
        /\ Cardinality(Above(y)) # Cardinality(Above(x))
    BY <1>1, <2>1, FS_Subset
  <2>3. Cardinality(Above(y)) \in Counts
    OBVIOUS
  <2>4. Cardinality(Above(y)) \in Nat /\ n \in Nat
    BY <1>1, <1>4
  <2> HIDE DEF Above, Counts
  <2> QED BY <1>3, <1>4, <2>2, <2>3, <2>4
<1>6. \A y \in T : x >= y
  BY <1>5
<1> HIDE DEF Above, Counts
<1>7. \E z \in T : \A y \in T : z >= y
  BY <1>6
<1> QED BY <1>7, Zenon DEF Max

\* Every place of a sequence of length m is in one of its parts.
LEMMA PartBounds ==
  ASSUME NEW n \in Nat \ {0}, NEW m \in Nat, NEW k \in 1..m
  PROVE  /\ (k - 1) \div n + 1 \in 1..((m + n - 1) \div n)
         /\ (m + n - 1) \div n \in Nat
<1> DEFINE q == (k - 1) \div n
           t == (m + n - 1) \div n
<1>1. q \in Nat /\ n * q <= k - 1 /\ k - 1 < n * q + n
  OBVIOUS
<1>2. t \in Nat /\ n * t <= m + n - 1 /\ m + n - 1 < n * t + n
  OBVIOUS
<1> HIDE DEF q, t
<1>3. ASSUME t <= q PROVE FALSE
  <2>1. n * t <= n * q
    BY <1>1, <1>2, <1>3
  <2>2. n * t \in Nat /\ n * q \in Nat
    BY <1>1, <1>2
  <2> QED BY <1>1, <1>2, <2>1, <2>2
<1>4. q + 1 \in 1..t
  BY <1>1, <1>2, <1>3
<1> QED BY <1>2, <1>4 DEF q, t

\* A sequence from SetToSeqs has every element of the set.
LEMMA AllListed ==
  ASSUME NEW S, IsFiniteSet(S), NEW s \in SetToSeqs(S)
  PROVE  /\ Len(s) = Cardinality(S) /\ Len(s) \in Nat /\ DOMAIN s = 1..Len(s)
         /\ \A k \in DOMAIN s : s[k] \in S
         /\ \A x \in S : \E k \in DOMAIN s : s[k] = x
<1> DEFINE n == Cardinality(S)
<1>1. n \in Nat
  BY FS_CardinalityType
<1>2. s \in [1..n -> S] /\ \A i, j \in 1..n : i # j => s[i] # s[j]
  BY DEF SetToSeqs
<1>3. IsFiniteSet(1..n) /\ Cardinality(1..n) = n
  BY <1>1, FS_Interval
<1> HIDE DEF n
<1>4. s \in Injection(1..n, S)
  BY <1>2 DEF Injection, IsInjective
<1>5. s \in Surjection(1..n, S)
  BY <1>3, <1>4, FS_Injection DEF n
<1>6. \A x \in S : \E k \in 1..n : s[k] = x
  BY <1>5 DEF Surjection
<1>7. s \in Seq(S) /\ Len(s) = n
  BY <1>1, <1>2
<1> QED BY <1>1, <1>2, <1>6, <1>7 DEF n

-----------------------------------------------------------------------------
(***************************************************************************)
(* The caps.                                                               *)
(***************************************************************************)

LEMMA Numbers ==
  /\ Records \subseteq Nat /\ Records # {} /\ IsFiniteSet(Records) /\ Accounts # {}
  /\ BatchLimit \in Nat \ {0} /\ MAX_FAVOURITES \in Nat \ {0} /\ MAX_HISTORY \in Nat \ {0}
  /\ MaxLocal \in Nat /\ Favourites \subseteq Records /\ History \subseteq Records
  /\ 0 \in LiveStamps /\ Blank \in LiveVersions /\ Fresh \in LiveStates
  /\ WithinCaps(Blank)
<1>1. 0 \in LiveStamps /\ Blank \in LiveVersions
  BY SyncAssumption DEF LiveStamps, LiveVersions, Blank
<1>2. Fresh \in LiveStates
  BY <1>1 DEF Fresh, LiveStates
<1>3. Live(Blank) \cap Favourites = {} /\ Live(Blank) \cap History = {}
  BY DEF Live, Blank
<1>4. WithinCaps(Blank)
  <2>1. Cardinality({}) = 0
    BY FS_EmptySet
  <2>2. /\ Cardinality(Live(Blank) \cap Favourites) = 0
        /\ Cardinality(Live(Blank) \cap History) = 0
    BY <1>3, <2>1, Zenon
  <2> QED BY <2>2, SyncAssumption DEF WithinCaps
<1>5. Favourites \subseteq Records /\ History \subseteq Records
  BY SyncAssumption DEF Favourites, History
<1> QED BY <1>1, <1>2, <1>4, <1>5, SyncAssumption

\* A part of what fits fits.
LEMMA PartFits ==
  ASSUME NEW T, NEW S \in SUBSET T, IsFiniteSet(T), NEW n \in Nat, Cardinality(T) <= n
  PROVE  Cardinality(S) <= n
<1>1. /\ Cardinality(S) <= Cardinality(T) /\ Cardinality(T) \in Nat
      /\ Cardinality(S) \in Nat
  BY FS_Subset, FS_CardinalityType
<1> QED BY <1>1

LEMMA Finite ==
  ASSUME NEW S \in SUBSET Records
  PROVE  IsFiniteSet(S)
  BY Numbers, FS_Subset

\* No more than n are the newest n: each has a different number of others before it.
LEMMA TopFits ==
  ASSUME NEW p \in [Records -> Nat], NEW rs \in SUBSET Records, NEW n \in Nat \ {0}
  PROVE  Top(p, rs, n) \in SUBSET rs /\ Cardinality(Top(p, rs, n)) <= n
<1> DEFINE First(r) == {x \in rs : Before(p, x, r)}
           top == Top(p, rs, n)
           rank == [r \in top |-> Cardinality(First(r))]
<1>1. IsFiniteSet(rs) /\ Records \subseteq Nat
  BY Numbers, Finite
<1>2. \A r \in rs : IsFiniteSet(First(r)) /\ Cardinality(First(r)) \in Nat
  BY <1>1, FS_Subset, FS_CardinalityType
<1>3. \A r \in rs : r \in Nat /\ p[r] \in Nat
  BY <1>1
<1>4. ASSUME NEW r \in top PROVE r \in rs /\ rank[r] \in 0..(n - 1)
  BY <1>2 DEF Top
<1>5. ASSUME NEW r \in top, NEW z \in top, Before(p, r, z) PROVE rank[r] # rank[z]
  <2>1. First(r) \in SUBSET First(z) /\ r \in First(z) /\ r \notin First(r)
    <3>1. r \in rs /\ z \in rs
      BY <1>4
    <3>2. ~Before(p, r, r)
      BY <1>3, <3>1 DEF Before
    <3>3. ASSUME NEW x \in rs, Before(p, x, r) PROVE Before(p, x, z)
      BY <1>3, <1>5, <3>1, <3>3 DEF Before
    <3> QED BY <1>5, <3>1, <3>2, <3>3
  <2>2. Cardinality(First(r)) # Cardinality(First(z))
    <3>1. IsFiniteSet(First(z)) /\ First(r) # First(z) /\ First(r) \in SUBSET First(z)
      BY <1>2, <1>4, <2>1
    <3> HIDE DEF First
    <3> QED BY <3>1, FS_Subset
  <2> QED BY <2>2
<1>6. ASSUME NEW r \in top, NEW z \in top, r # z PROVE rank[r] # rank[z]
  <2>1. r \in Nat /\ z \in Nat /\ p[r] \in Nat /\ p[z] \in Nat
    BY <1>3, <1>4
  <2>2. Before(p, r, z) \/ Before(p, z, r)
    BY <1>6, <2>1 DEF Before
  <2> QED BY <1>5, <2>2
<1>7. rank \in [top -> 0..(n - 1)]
  BY <1>4
<1>8. top \in SUBSET rs
  BY DEF Top
<1> HIDE DEF rank, top
<1>9. rank \in Injection(top, 0..(n - 1))
  BY <1>6, <1>7 DEF Injection, IsInjective
<1>10. IsFiniteSet(0..(n - 1)) /\ Cardinality(0..(n - 1)) = n
  BY FS_Interval
<1>11. Cardinality(top) <= n
  BY <1>9, <1>10, FS_Injection
<1> QED BY <1>8, <1>11 DEF top

\* Versions q are those of p, or of no record.
OutOf(q, p) == \A r \in Records : q[r] = 0 \/ q[r] = p[r]

\* What is kept of versions p: nothing new, of the favourites those given, and of the history
\* no more than the cap.
LEMMA KeptFacts ==
  ASSUME NEW p \in LiveVersions, NEW favourites \in SUBSET Favourites, NEW cutoff,
         NEW q, q = Kept(p, favourites, cutoff)
  PROVE  /\ q \in LiveVersions /\ OutOf(q, p)
         /\ Live(q) \cap Favourites \in SUBSET (Live(p) \cap favourites)
         /\ Cardinality(Live(q) \cap History) <= MAX_HISTORY
<1> DEFINE recent == Recent(p, cutoff)
           top == Top(p, recent, MAX_HISTORY)
<1>1. \A r \in Records : p[r] \in LiveStamps /\ p[r] \in Nat
  BY DEF LiveVersions, LiveStamps
<1>2. recent \in SUBSET Records /\ recent \subseteq History /\ p \in [Records -> Nat]
  BY <1>1 DEF Recent, Live, LiveVersions
<1>3. top \in SUBSET recent /\ Cardinality(top) <= MAX_HISTORY
  <2> HIDE DEF recent
  <2> QED BY <1>2, TopFits, Numbers
<1>4. q = [r \in Records |-> IF r \in favourites \cup top THEN p[r] ELSE 0]
  BY DEF Kept, Only
<1>5. History \cap Favourites = {}
  BY DEF History
<1> HIDE DEF recent, top
<1>6. q \in LiveVersions /\ OutOf(q, p)
  BY <1>1, <1>4, Numbers DEF LiveVersions, OutOf
<1>7. Live(q) \cap Favourites \in SUBSET (Live(p) \cap favourites)
  BY <1>2, <1>3, <1>4, <1>5 DEF Live
<1>8. Live(q) \cap History \in SUBSET top
  BY <1>4, <1>5 DEF Live
<1>9. IsFiniteSet(top)
  BY <1>2, <1>3, Finite
<1>10. Cardinality(Live(q) \cap History) <= MAX_HISTORY
  BY <1>3, <1>8, <1>9, PartFits, Numbers
<1> QED BY <1>6, <1>7, <1>10

LEMMA CappedFacts ==
  ASSUME NEW p \in LiveVersions, NEW cutoff
  PROVE  /\ Capped(p, cutoff) \in LiveVersions /\ WithinCaps(Capped(p, cutoff))
         /\ OutOf(Capped(p, cutoff), p)
<1> DEFINE favourites == Live(p) \cap Favourites
           top == Top(p, favourites, MAX_FAVOURITES)
           q == Capped(p, cutoff)
<1>1. p \in [Records -> Nat]
  BY DEF LiveVersions, LiveStamps
<1>2. favourites \in SUBSET Records /\ favourites \in SUBSET Favourites
  BY DEF Live
<1>3. top \in SUBSET favourites /\ Cardinality(top) <= MAX_FAVOURITES
  <2> HIDE DEF favourites
  <2> QED BY <1>1, <1>2, TopFits, Numbers
<1>4. q = Kept(p, top, cutoff)
  BY DEF Capped
<1> HIDE DEF favourites, top, q
<1>5. top \in SUBSET Favourites /\ IsFiniteSet(top)
  BY <1>2, <1>3, Finite
<1>6. /\ q \in LiveVersions /\ OutOf(q, p)
      /\ Live(q) \cap Favourites \in SUBSET (Live(p) \cap top)
      /\ Cardinality(Live(q) \cap History) <= MAX_HISTORY
  BY <1>4, <1>5, KeptFacts
<1>7. Live(q) \cap Favourites \in SUBSET top
  BY <1>6
<1>8. Cardinality(Live(q) \cap Favourites) <= MAX_FAVOURITES
  BY <1>3, <1>5, <1>7, PartFits, Numbers
<1> QED BY <1>6, <1>8 DEF WithinCaps, q

\* A profile with no favourite more, and a history within its cap, has no more than the caps.
LEMMA FewerFit ==
  ASSUME NEW p \in LiveVersions, NEW q \in LiveVersions,
         Live(q) \cap Favourites \subseteq Live(p) \cap Favourites,
         Cardinality(Live(p) \cap Favourites) <= MAX_FAVOURITES,
         Cardinality(Live(q) \cap History) <= MAX_HISTORY
  PROVE  WithinCaps(q)
<1>1. IsFiniteSet(Live(p) \cap Favourites)
  BY Finite DEF Live
<1>2. Live(q) \cap Favourites \in SUBSET (Live(p) \cap Favourites)
  OBVIOUS
<1>3. Cardinality(Live(q) \cap Favourites) <= MAX_FAVOURITES
  BY <1>1, <1>2, PartFits, Numbers
<1> QED BY <1>3 DEF WithinCaps

LEMMA RetainedFacts ==
  ASSUME NEW p \in LiveVersions, NEW cutoff,
         Cardinality(Live(p) \cap Favourites) <= MAX_FAVOURITES
  PROVE  Retained(p, cutoff) \in LiveVersions /\ WithinCaps(Retained(p, cutoff))
<1> DEFINE q == Retained(p, cutoff)
<1>1. q = Kept(p, Favourites, cutoff) /\ Favourites \in SUBSET Favourites
  BY DEF Retained
<1> HIDE DEF q
<1>2. /\ q \in LiveVersions
      /\ Live(q) \cap Favourites \in SUBSET (Live(p) \cap Favourites)
      /\ Cardinality(Live(q) \cap History) <= MAX_HISTORY
  BY <1>1, KeptFacts
<1>3. WithinCaps(q)
  BY <1>2, FewerFit
<1> QED BY <1>2, <1>3 DEF q

LEMMA OnlyFacts ==
  ASSUME NEW p \in LiveVersions, WithinCaps(p), NEW rs
  PROVE  Only(p, rs) \in LiveVersions /\ WithinCaps(Only(p, rs))
<1> DEFINE q == Only(p, rs)
<1>1. q \in LiveVersions
  BY Numbers DEF Only, LiveVersions
<1>2. Live(q) \subseteq Live(p)
  BY DEF Live, Only
<1> HIDE DEF q
<1>3. /\ IsFiniteSet(Live(p) \cap History)
      /\ Live(q) \cap History \in SUBSET (Live(p) \cap History)
      /\ Live(q) \cap Favourites \subseteq Live(p) \cap Favourites
  BY <1>2, Finite DEF Live
<1>4. Cardinality(Live(q) \cap History) <= MAX_HISTORY
  BY <1>3, PartFits, Numbers DEF WithinCaps
<1>5. WithinCaps(q)
  BY <1>1, <1>3, <1>4, FewerFit DEF WithinCaps
<1> QED BY <1>1, <1>5 DEF q

-----------------------------------------------------------------------------
(***************************************************************************)
(* Merging answers, record by record.                                      *)
(***************************************************************************)

\* What an answer makes of version x of record r.
Outcome(x, answer, r) ==
    IF \E c \in answer : c.id = r
    THEN LET c == CHOOSE d \in answer : d.id = r
         IN  IF c.deleted THEN 0 ELSE IF c.at > x THEN c.at ELSE x
    ELSE x

\* f is p with the answers g merged one after the other.
Follows(f, p, g) ==
    f[0] = p /\ \A k \in 1..Len(g) : f[k] = [r \in Records |-> Outcome(f[k - 1][r], g[k], r)]

NextMerge(f, p, g, k) == IF k = 0 THEN p ELSE Merge(f[k - 1], g[k])

LEMMA MergesExist ==
  ASSUME NEW p, NEW g, NEW n \in Nat
  PROVE  \E f : f = [k \in 0..n |-> NextMerge(f, p, g, k)]
<1> DEFINE Has(m) == \E f : f = [k \in 0..m |-> NextMerge(f, p, g, k)]
<1>1. SUFFICES ASSUME ~Has(n) PROVE FALSE
  OBVIOUS
<1> DEFINE Bad == {m \in 0..n : ~Has(m)}
<1>2. PICK m \in Bad : \A k \in Bad : m <= k
  <2>1. Bad \subseteq Nat /\ Bad # {}
    BY <1>1
  <2> HIDE DEF Bad
  <2> QED BY <2>1, Smallest
<1>3. m \in 0..n /\ ~Has(m) /\ m \in Nat
  BY <1>2
<1>4. CASE m = 0
  <2> DEFINE f == [k \in 0..0 |-> p]
  <2>1. f = [k \in 0..0 |-> NextMerge(f, p, g, k)]
    BY DEF NextMerge
  <2> HIDE DEF f
  <2> QED BY <1>3, <1>4, <2>1
<1>5. CASE m # 0
  <2>1. m - 1 \in 0..n /\ ~(m <= m - 1) /\ m - 1 \in 0..(m - 1)
    BY <1>3, <1>5
  <2>2. Has(m - 1)
    BY <1>2, <2>1
  <2>3. PICK f : f = [k \in 0..(m - 1) |-> NextMerge(f, p, g, k)]
    BY <2>2
  <2> DEFINE v == Merge(f[m - 1], g[m])
             h == [k \in 0..m |-> IF k = m THEN v ELSE f[k]]
  <2> HIDE DEF v
  <2>6. \A k \in 0..(m - 1) : h[k] = f[k]
    BY <1>3
  <2>7. ASSUME NEW k \in 0..m PROVE h[k] = NextMerge(h, p, g, k)
    <3>1. CASE k = m
      <4>1. h[k] = v /\ h[m - 1] = f[m - 1]
        BY <1>3, <2>1, <2>6, <3>1
      <4> HIDE DEF h
      <4> QED BY <1>5, <3>1, <4>1 DEF v, NextMerge
    <3>2. CASE k # m /\ k # 0
      <4>1. k \in 0..(m - 1) /\ k - 1 \in 0..(m - 1)
        BY <1>3, <3>2
      <4>2. h[k] = f[k] /\ h[k - 1] = f[k - 1]
        BY <2>6, <4>1
      <4> HIDE DEF h
      <4>3. f[k] = NextMerge(f, p, g, k)
        BY <2>3, <4>1, Zenon
      <4> QED BY <3>2, <4>2, <4>3 DEF NextMerge
    <3>3. CASE k = 0 /\ k # m
      <4>1. 0 \in 0..(m - 1)
        BY <1>3, <1>5
      <4>2. h[0] = f[0] /\ f[0] = NextMerge(f, p, g, 0)
        BY <2>3, <2>6, <4>1, Zenon
      <4> HIDE DEF h
      <4> QED BY <3>3, <4>2 DEF NextMerge
    <3> QED BY <3>1, <3>2, <3>3
  <2>8. h = [k \in 0..m |-> NextMerge(h, p, g, k)]
    BY <2>7
  <2> HIDE DEF h
  <2> QED BY <1>3, <2>8
<1> QED BY <1>4, <1>5

LEMMA MergeAllFollows ==
  ASSUME NEW p, NEW g, Len(g) \in Nat
  PROVE  \E f : Follows(f, p, g) /\ MergeAll(p, g) = f[Len(g)]
<1>0. \E h : h = [k \in 0..Len(g) |-> NextMerge(h, p, g, k)]
  BY MergesExist
<1> DEFINE f == CHOOSE f : f = [k \in 0..Len(g) |-> IF k = 0 THEN p ELSE Merge(f[k - 1], g[k])]
<1>1. \E h : h = [k \in 0..Len(g) |-> IF k = 0 THEN p ELSE Merge(h[k - 1], g[k])]
  BY <1>0, Zenon DEF NextMerge
<1>2. f = [k \in 0..Len(g) |-> IF k = 0 THEN p ELSE Merge(f[k - 1], g[k])]
  BY <1>1, Zenon
<1>3. MergeAll(p, g) = f[Len(g)]
  BY Zenon DEF MergeAll
<1> HIDE DEF f
<1>4. f[0] = p
  BY <1>2
<1>5. \A k \in 1..Len(g) : f[k] = Merge(f[k - 1], g[k])
  BY <1>2
<1>6. \A k \in 1..Len(g) : f[k] = [r \in Records |-> Outcome(f[k - 1][r], g[k], r)]
  BY <1>5 DEF Merge, Outcome
<1> QED BY <1>3, <1>4, <1>6 DEF Follows

\* What n answers of g make of record r, from one to the next.
Along(f, g, r, n) == \A k \in 1..n : f[k][r] = Outcome(f[k - 1][r], g[k], r)

\* The answers agree on a record when the versions they start from do.
LEMMA SameOutcome ==
  ASSUME NEW f, NEW h, NEW g, NEW r, NEW n \in Nat, f[0][r] = h[0][r],
         Along(f, g, r, n), Along(h, g, r, n)
  PROVE  f[n][r] = h[n][r]
<1> DEFINE Bad == {k \in 0..n : f[k][r] # h[k][r]}
<1>1. SUFFICES ASSUME Bad # {} PROVE FALSE
  OBVIOUS
<1>2. PICK m \in Bad : \A k \in Bad : m <= k
  <2>1. Bad \subseteq Nat
    OBVIOUS
  <2> HIDE DEF Bad
  <2> QED BY <1>1, <2>1, Smallest
<1>3. m \in 1..n /\ m - 1 \in 0..n /\ ~(m <= m - 1)
  <2>1. m \in 0..n /\ m # 0
    BY <1>2
  <2> QED BY <2>1
<1>4. f[m - 1][r] = h[m - 1][r]
  BY <1>2, <1>3
<1>5. f[m][r] = h[m][r]
  BY <1>3, <1>4, Zenon DEF Along
<1> QED BY <1>2, <1>5

LEMMA SameMerge ==
  ASSUME NEW p, NEW q, NEW g, Len(g) \in Nat, NEW r \in Records, p[r] = q[r]
  PROVE  MergeAll(p, g)[r] = MergeAll(q, g)[r]
<1>1. PICK f : Follows(f, p, g) /\ MergeAll(p, g) = f[Len(g)]
  BY MergeAllFollows
<1>2. PICK h : Follows(h, q, g) /\ MergeAll(q, g) = h[Len(g)]
  BY MergeAllFollows
<1>3. Along(f, g, r, Len(g))
  BY <1>1 DEF Follows, Along
<1>4. Along(h, g, r, Len(g))
  BY <1>2 DEF Follows, Along
<1>5. f[0][r] = h[0][r]
  BY <1>1, <1>2 DEF Follows
<1>6. f[Len(g)][r] = h[Len(g)][r]
  BY <1>3, <1>4, <1>5, SameOutcome
<1> QED BY <1>1, <1>2, <1>6

LEMMA MergeNone ==
  ASSUME NEW p
  PROVE  MergeAll(p, <<>>) = p
<1>1. Len(<<>>) = 0
  OBVIOUS
<1>2. PICK f : Follows(f, p, <<>>) /\ MergeAll(p, <<>>) = f[Len(<<>>)]
  BY <1>1, MergeAllFollows
<1> QED BY <1>1, <1>2 DEF Follows

LEMMA MergeAppend ==
  ASSUME NEW p, NEW T, NEW g \in Seq(T), NEW a \in T, NEW r \in Records
  PROVE  MergeAll(p, Append(g, a))[r] = Outcome(MergeAll(p, g)[r], a, r)
<1> DEFINE b == Append(g, a)
           n == Len(g)
<1>1. /\ n \in Nat /\ Len(b) = n + 1 /\ b[n + 1] = a /\ \A k \in 1..n : b[k] = g[k]
  OBVIOUS
<1> HIDE DEF b
<1>2. PICK f : Follows(f, p, g) /\ MergeAll(p, g) = f[Len(g)]
  BY <1>1, MergeAllFollows
<1>3. PICK h : Follows(h, p, b) /\ MergeAll(p, b) = h[Len(b)]
  BY <1>1, MergeAllFollows
<1>4. Along(f, g, r, n)
  BY <1>2 DEF Follows, Along
<1>5. \A k \in 1..(n + 1) : h[k][r] = Outcome(h[k - 1][r], b[k], r)
  <2>1. \A k \in 1..Len(b) : h[k][r] = Outcome(h[k - 1][r], b[k], r)
    BY <1>3 DEF Follows
  <2>2. Len(b) = n + 1
    BY <1>1
  <2> QED BY <2>1, <2>2, Zenon
<1>6. Along(h, g, r, n)
  BY <1>1, <1>5 DEF Along
<1>7. f[0][r] = h[0][r]
  BY <1>2, <1>3 DEF Follows
<1> HIDE DEF n
<1>8. f[n][r] = h[n][r]
  BY <1>1, <1>4, <1>6, <1>7, SameOutcome
<1>9. h[n + 1][r] = Outcome(h[n][r], a, r)
  <2>1. n + 1 \in 1..(n + 1) /\ n + 1 - 1 = n
    BY <1>1
  <2> QED BY <1>1, <1>5, <2>1
<1> QED BY <1>1, <1>2, <1>3, <1>8, <1>9 DEF b, n

LEMMA OutcomeFacts ==
  ASSUME NEW x \in LiveStamps, NEW answer \in SUBSET LiveChange, NEW r
  PROVE  /\ Outcome(x, answer, r) \in LiveStamps
         /\ Outcome(x, answer, r) = 0 => x = 0 \/ \E c \in answer : c.id = r /\ c.deleted
<1>1. CASE \E c \in answer : c.id = r
  <2> DEFINE c == CHOOSE d \in answer : d.id = r
  <2>1. c \in answer /\ c.id = r
    BY <1>1
  <2>2. Outcome(x, answer, r) = IF c.deleted THEN 0 ELSE IF c.at > x THEN c.at ELSE x
    BY <1>1 DEF Outcome
  <2> HIDE DEF c
  <2>3. c.at \in Nat /\ c.at # 0 /\ (c.deleted \/ c.at \in LiveStamps)
    BY <2>1 DEF LiveChange, Change, Stamps, LiveStamps
  <2>4. 0 \in LiveStamps /\ x \in Nat
    BY SyncAssumption DEF LiveStamps
  <2> QED BY <2>1, <2>2, <2>3, <2>4
<1>2. CASE ~(\E c \in answer : c.id = r)
  BY <1>2 DEF Outcome
<1> QED BY <1>1, <1>2

LEMMA MergeAllType ==
  ASSUME NEW p \in LiveVersions, NEW g \in Seq(SUBSET LiveChange)
  PROVE  /\ MergeAll(p, g) \in LiveVersions
         /\ \A r \in Records : MergeAll(p, g)[r] = 0 =>
               \/ p[r] = 0
               \/ \E k \in 1..Len(g) : \E c \in g[k] : c.id = r /\ c.deleted
<1> DEFINE n == Len(g)
<1>1. n \in Nat /\ \A k \in 1..n : g[k] \in SUBSET LiveChange
  OBVIOUS
<1>2. PICK f : Follows(f, p, g) /\ MergeAll(p, g) = f[n]
  BY <1>1, MergeAllFollows
<1> DEFINE Gone(r, k) == p[r] = 0 \/ \E j \in 1..k : \E c \in g[j] : c.id = r /\ c.deleted
           Good(k) == f[k] \in LiveVersions /\ \A r \in Records : f[k][r] = 0 => Gone(r, k)
           Bad == {k \in 0..n : ~Good(k)}
<1>3. ASSUME Bad # {} PROVE FALSE
  <2>1. PICK m \in Bad : \A k \in Bad : m <= k
    <3>1. Bad \subseteq Nat
      OBVIOUS
    <3> HIDE DEF Bad
    <3> QED BY <1>3, <3>1, Smallest
  <2>2. m \in 0..n /\ ~Good(m)
    BY <2>1
  <2>3. m # 0
    <3>1. Good(0)
      BY <1>2 DEF Follows
    <3> QED BY <2>2, <3>1
  <2>4. m \in 1..n /\ m - 1 \in 0..n /\ ~(m <= m - 1) /\ m \in Nat
    BY <1>1, <2>2, <2>3
  <2>5. Good(m - 1)
    BY <2>1, <2>4
  <2>6. f[m] = [r \in Records |-> Outcome(f[m - 1][r], g[m], r)]
    BY <1>2, <2>4 DEF Follows
  <2>7. ASSUME NEW r \in Records PROVE f[m][r] \in LiveStamps /\ (f[m][r] = 0 => Gone(r, m))
    <3>1. f[m - 1][r] \in LiveStamps /\ g[m] \in SUBSET LiveChange
      BY <1>1, <2>4, <2>5 DEF LiveVersions
    <3>2. /\ f[m][r] \in LiveStamps
          /\ f[m][r] = 0 => f[m - 1][r] = 0 \/ \E c \in g[m] : c.id = r /\ c.deleted
      BY <2>6, <3>1, OutcomeFacts
    <3>3. Gone(r, m - 1) => Gone(r, m)
      <4>1. 1..(m - 1) \subseteq 1..m
        BY <2>4
      <4> QED BY <4>1
    <3>4. m \in 1..m
      BY <2>4
    <3>5. f[m - 1][r] = 0 => Gone(r, m - 1)
      BY <2>5
    <3> QED BY <3>2, <3>3, <3>4, <3>5
  <2>8. Good(m)
    BY <2>6, <2>7 DEF LiveVersions
  <2> QED BY <2>2, <2>8
<1>4. Good(n)
  BY <1>1, <1>3
<1> QED BY <1>2, <1>4

-----------------------------------------------------------------------------
(***************************************************************************)
(* The account: revisions, stored requests and answers.                    *)
(***************************************************************************)

LEMMA NewestFacts ==
  ASSUME NEW held, \A r \in Records : held[r].rev \in Nat
  PROVE  /\ Newest(held) \in Nat /\ \A r \in Records : held[r].rev <= Newest(held)
         /\ Newest(held) = 0 \/ \E r \in Records : held[r].rev = Newest(held)
         /\ Max({held[r].rev : r \in Records}) \in Nat
         /\ Max({held[r].rev : r \in Records}) <= Newest(held)
<1> DEFINE T == {held[r].rev : r \in Records}
           U == T \cup {0}
<1>1. T \subseteq Nat /\ U \subseteq Nat /\ U # {} /\ T # {}
  <2>1. PICK r \in Records : TRUE
    BY SyncAssumption
  <2>2. held[r].rev \in T
    OBVIOUS
  <2> QED BY <2>2
<1>2. IsFiniteSet(T)
  <2> DEFINE f == [r \in Records |-> held[r].rev]
  <2>1. f \in Surjection(Records, T)
    BY DEF Surjection
  <2> QED BY <2>1, SyncAssumption, FS_Surjection
<1>3. IsFiniteSet(U)
  BY <1>2, FS_AddElement
<1>4. \A r \in Records : held[r].rev \in U
  OBVIOUS
<1>5. \A x \in U : x = 0 \/ \E r \in Records : held[r].rev = x
  OBVIOUS
<1>6. T \subseteq U
  OBVIOUS
<1> HIDE DEF T, U
<1>7. Max(U) \in U /\ \A x \in U : Max(U) >= x
  BY <1>1, <1>3, Largest
<1>8. Max(T) \in T
  BY <1>1, <1>2, Largest
<1>9. Newest(held) = Max(U)
  BY DEF Newest, U, T
<1>10. Newest(held) \in Nat /\ \A r \in Records : held[r].rev <= Newest(held)
  BY <1>1, <1>4, <1>7, <1>9
<1>11. Newest(held) = 0 \/ \E r \in Records : held[r].rev = Newest(held)
  BY <1>5, <1>7, <1>9
<1>12. Max(T) \in Nat /\ Max(T) <= Newest(held)
  BY <1>1, <1>6, <1>7, <1>8, <1>9
<1> QED BY <1>10, <1>11, <1>12 DEF T

LEMMA NewestGrows ==
  ASSUME NEW held, NEW later, \A r \in Records : held[r].rev \in Nat,
         \A r \in Records : later[r].rev \in Nat /\ held[r].rev <= later[r].rev
  PROVE  Newest(held) <= Newest(later)
<1>1. /\ Newest(held) \in Nat
      /\ Newest(held) = 0 \/ \E r \in Records : held[r].rev = Newest(held)
  BY NewestFacts
<1>2. Newest(later) \in Nat /\ \A r \in Records : later[r].rev <= Newest(later)
  BY NewestFacts
<1> QED BY <1>1, <1>2

\* Storing a request: last writer wins.
LEMMA StoredFacts ==
  ASSUME NEW a \in Accounts, NEW request \in Pushes, server \in [Accounts -> LiveRecords]
  PROVE  /\ Stored(a, request) \in LiveRecords
         /\ \A r \in Records :
              /\ Stored(a, request)[r].at >= server[a][r].at
              /\ Stored(a, request)[r].rev >= server[a][r].rev
              /\ \/ Stored(a, request)[r] = server[a][r]
                 \/ \E c \in request : /\ c.id = r /\ Stored(a, request)[r].at = c.at
                                       /\ Stored(a, request)[r].deleted = c.deleted
              /\ Stored(a, request)[r] # server[a][r]
                    => Stored(a, request)[r].rev > Newest(server[a])
         /\ \A c \in request : Stored(a, request)[c.id].at >= c.at
<1> DEFINE new == Accepted(a, request)
           n == Newest(server[a])
           h == Stored(a, request)
<1>1. \A r \in Records : server[a][r] \in LiveHeld
  BY DEF LiveRecords
<1>2. \A r \in Records : server[a][r].rev \in Nat /\ server[a][r].at \in Nat
  BY <1>1 DEF LiveHeld, Held, Stamps
<1>3. n \in Nat /\ \A r \in Records : server[a][r].rev <= n
  BY <1>2, NewestFacts
<1>4. ServerRev(a) = n
  BY DEF ServerRev, Newest
<1>5. \A c \in new : c \in request /\ c \in LiveChange /\ c.at > server[a][c.id].at
  BY DEF Accepted, Pushes
<1>6. \A c \in request : c \in LiveChange /\ (c \notin new => ~(c.at > server[a][c.id].at))
  BY DEF Accepted, Pushes
<1>7. \A c, d \in request : c.id = d.id => c = d
  BY DEF Pushes
<1> HIDE DEF n, new
<1>8. h = [r \in Records |->
             IF \E c \in new : c.id = r
             THEN [at |-> (CHOOSE d \in new : d.id = r).at,
                   deleted |-> (CHOOSE d \in new : d.id = r).deleted, rev |-> n + 1]
             ELSE server[a][r]]
  BY <1>4 DEF Stored, new
<1> HIDE DEF h
<1>9. ASSUME NEW r \in Records, NEW c \in new, c.id = r
      PROVE  /\ h[r] = [at |-> c.at, deleted |-> c.deleted, rev |-> n + 1]
             /\ h[r] \in LiveHeld /\ h[r].at > server[a][r].at /\ h[r].rev > n
             /\ c \in request
  <2> DEFINE d == CHOOSE d \in new : d.id = r
  <2>1. d \in new /\ d.id = r
    BY <1>9
  <2>2. d = c
    BY <1>5, <1>7, <1>9, <2>1
  <2>3. h[r] = [at |-> d.at, deleted |-> d.deleted, rev |-> n + 1]
    BY <1>8, <1>9
  <2> HIDE DEF d
  <2>4. c \in LiveChange /\ c.at > server[a][r].at /\ c \in request
    BY <1>5, <1>9
  <2>5. /\ c.at \in Stamps /\ c.at # 0 /\ c.deleted \in BOOLEAN
        /\ c.deleted \/ c.at <= 2 * MaxLocal + 1
    BY <2>4 DEF LiveChange, Change
  <2>6. h[r] = [at |-> c.at, deleted |-> c.deleted, rev |-> n + 1]
    BY <2>2, <2>3
  <2>7. h[r].at = c.at /\ h[r].deleted = c.deleted /\ h[r].rev = n + 1 /\ n + 1 \in Nat
    BY <1>3, <2>6
  <2>8. h[r] \in Held
    BY <2>5, <2>6, <2>7 DEF Held
  <2>9. n + 1 # 0 /\ n + 1 > n
    BY <1>3
  <2>10. h[r] \in LiveHeld
    BY <2>5, <2>7, <2>8, <2>9 DEF LiveHeld
  <2> QED BY <2>4, <2>6, <2>7, <2>9, <2>10
<1>10. ASSUME NEW r \in Records, ~(\E c \in new : c.id = r)
       PROVE  h[r] = server[a][r]
  BY <1>8, <1>10
<1>11. ASSUME NEW r \in Records
       PROVE  /\ h[r] \in LiveHeld /\ h[r].at >= server[a][r].at /\ h[r].rev >= server[a][r].rev
              /\ \/ h[r] = server[a][r]
                 \/ \E c \in request : c.id = r /\ h[r].at = c.at /\ h[r].deleted = c.deleted
              /\ h[r] # server[a][r] => h[r].rev > n
  <2>1. CASE \E c \in new : c.id = r
    <3>1. PICK c \in new : c.id = r
      BY <2>1
    <3>2. /\ h[r] = [at |-> c.at, deleted |-> c.deleted, rev |-> n + 1]
          /\ h[r] \in LiveHeld /\ h[r].at > server[a][r].at /\ h[r].rev > n
          /\ c \in request
      BY <1>9, <3>1
    <3>3. h[r].at = c.at /\ h[r].deleted = c.deleted /\ h[r].rev = n + 1
      BY <3>2
    <3>4. h[r].at \in Nat /\ server[a][r].at \in Nat /\ h[r].at > server[a][r].at
      BY <1>2, <3>2 DEF LiveHeld, Held, Stamps
    <3>5. h[r].rev >= server[a][r].rev
      BY <1>2, <1>3, <3>3
    <3> QED BY <3>1, <3>2, <3>3, <3>4, <3>5
  <2>2. CASE ~(\E c \in new : c.id = r)
    <3>1. h[r] = server[a][r]
      BY <1>10, <2>2
    <3> QED BY <1>1, <1>2, <3>1
  <2> QED BY <2>1, <2>2
<1>12. ASSUME NEW c \in request PROVE h[c.id].at >= c.at
  <2>0. c \in LiveChange /\ c.id \in Records /\ c.at \in Nat
    BY <1>6 DEF LiveChange, Change, Stamps
  <2>1. CASE c \in new
    <3>1. h[c.id] = [at |-> c.at, deleted |-> c.deleted, rev |-> n + 1]
      BY <1>9, <2>0, <2>1
    <3>2. h[c.id].at = c.at
      BY <3>1
    <3> QED BY <2>0, <3>2
  <2>2. CASE c \notin new
    <3>1. ~(c.at > server[a][c.id].at)
      BY <1>6, <2>2
    <3>2. h[c.id].at \in Nat /\ h[c.id].at >= server[a][c.id].at /\ server[a][c.id].at \in Nat
      BY <1>2, <1>11, <2>0 DEF LiveHeld, Held, Stamps
    <3> QED BY <2>0, <3>1, <3>2
  <2> QED BY <2>1, <2>2
<1>13. h \in LiveRecords
  BY <1>8, <1>11 DEF LiveRecords
<1> QED BY <1>11, <1>12, <1>13 DEF h, n

\* What an answer tells of a record, and what it makes of a version.
LEMMA AnswerFacts ==
  ASSUME NEW held \in LiveRecords, NEW request, NEW since \in Nat
  PROVE  /\ Answer(held, request, since) \in SUBSET LiveChange
         /\ \A c \in Answer(held, request, since) : c.deleted => held[c.id].deleted
         /\ \A r \in Records :
              \/ /\ held[r].at = 0 \/ (held[r].rev <= since /\ ~(\E c \in request : c.id = r))
                 /\ \A x : Outcome(x, Answer(held, request, since), r) = x
              \/ /\ held[r].at # 0
                 /\ \A x : Outcome(x, Answer(held, request, since), r) =
                        IF held[r].deleted THEN 0 ELSE IF held[r].at > x THEN held[r].at ELSE x
<1> DEFINE A == Answer(held, request, since)
           Told == {r \in Records : held[r].at # 0
                      /\ (held[r].rev > since \/ \E c \in request : c.id = r)}
           Entry(r) == [id |-> r, at |-> held[r].at, deleted |-> held[r].deleted]
<1>1. \A r \in Records : /\ held[r] \in LiveHeld /\ held[r].rev \in Nat /\ held[r].at \in Stamps
                         /\ held[r].deleted \in BOOLEAN
                         /\ held[r].deleted \/ held[r].at <= 2 * MaxLocal + 1
  BY DEF LiveRecords, LiveHeld, Held
<1>2. A = {Entry(r) : r \in Told}
  BY DEF Answer
<1>3. \A r \in Told : r \in Records /\ held[r].at # 0
  OBVIOUS
<1>4. \A r \in Told : Entry(r).id = r /\ Entry(r).at = held[r].at /\ Entry(r).deleted = held[r].deleted
  OBVIOUS
<1>5. \A r \in Told : Entry(r) \in LiveChange
  BY <1>1, <1>3 DEF LiveChange, Change
<1> HIDE DEF A
<1>6. A \in SUBSET LiveChange /\ \A c \in A : c.deleted => held[c.id].deleted
  <2> HIDE DEF Told, Entry
  <2> QED BY <1>2, <1>3, <1>4, <1>5
<1>7. ASSUME NEW r \in Records, r \in Told, NEW x
      PROVE  Outcome(x, A, r) = IF held[r].deleted THEN 0 ELSE IF held[r].at > x THEN held[r].at ELSE x
  <2> HIDE DEF Told, Entry
  <2>1. Entry(r) \in A /\ Entry(r).id = r
    BY <1>2, <1>4, <1>7
  <2> DEFINE c == CHOOSE d \in A : d.id = r
  <2>2. c \in A /\ c.id = r
    BY <2>1
  <2>3. Outcome(x, A, r) = IF c.deleted THEN 0 ELSE IF c.at > x THEN c.at ELSE x
    BY <2>1 DEF Outcome
  <2> HIDE DEF c
  <2>4. c.at = held[r].at /\ c.deleted = held[r].deleted
    BY <1>2, <1>4, <2>2
  <2> QED BY <2>3, <2>4
<1>8. ASSUME NEW r \in Records, r \notin Told, NEW x
      PROVE  Outcome(x, A, r) = x
  <2>1. ~(\E c \in A : c.id = r)
    <3> HIDE DEF Told, Entry
    <3> QED BY <1>2, <1>4, <1>8
  <2> QED BY <2>1 DEF Outcome
<1>9. ASSUME NEW r \in Records, r \notin Told
      PROVE held[r].at = 0 \/ (held[r].rev <= since /\ ~(\E c \in request : c.id = r))
  BY <1>1, <1>9
<1>10. \A r \in Told : r \in Records /\ held[r].at # 0
  OBVIOUS
<1> HIDE DEF Told
<1> QED BY <1>6, <1>7, <1>8, <1>9, <1>10 DEF A

-----------------------------------------------------------------------------
(***************************************************************************)
(* The requests of a cycle.                                                *)
(***************************************************************************)

LEMMA MaxOfTwo ==
  ASSUME NEW x \in Nat, NEW y \in Nat
  PROVE  Max({x, y}) \in Nat /\ Max({x, y}) >= x /\ Max({x, y}) >= y
         /\ (Max({x, y}) = x \/ Max({x, y}) = y)
<1>1. IsFiniteSet({x} \cup {y}) /\ {x} \cup {y} = {x, y}
  BY FS_Singleton, FS_AddElement
<1>2. Max({x, y}) \in {x, y} /\ \A n \in {x, y} : Max({x, y}) >= n
  BY <1>1, Largest
<1> QED BY <1>2

LEMMA MaxOfThree ==
  ASSUME NEW x \in Nat, NEW y \in Nat, NEW z \in Nat
  PROVE  Max({x, y, z}) \in Nat /\ Max({x, y, z}) >= x /\ Max({x, y, z}) >= y
         /\ Max({x, y, z}) >= z
<1>1. IsFiniteSet(({x} \cup {y}) \cup {z}) /\ ({x} \cup {y}) \cup {z} = {x, y, z}
  BY FS_Singleton, FS_AddElement
<1>2. Max({x, y, z}) \in {x, y, z} /\ \A n \in {x, y, z} : Max({x, y, z}) >= n
  BY <1>1, Largest
<1> QED BY <1>2

LEMMA PartFacts ==
  ASSUME NEW S, IsFiniteSet(S), NEW s \in SetToSeqs(S)
  PROVE  /\ Parts(s) \in Nat
         /\ \A i : Part(s, i) \subseteq S
         /\ \A x \in S : \E i \in 1..Parts(s) : x \in Part(s, i)
<1>1. /\ Len(s) \in Nat /\ DOMAIN s = 1..Len(s)
      /\ \A k \in DOMAIN s : s[k] \in S
      /\ \A x \in S : \E k \in DOMAIN s : s[k] = x
  BY AllListed
<1>2. BatchLimit \in Nat \ {0}
  BY SyncAssumption
<1>3. Parts(s) \in Nat
  <2>1. Len(s) = 0 => Parts(s) \in Nat
    BY <1>2 DEF Parts
  <2>2. ASSUME Len(s) # 0 PROVE Parts(s) \in Nat
    <3>1. 1 \in 1..Len(s)
      BY <1>1, <2>2
    <3> QED BY <1>1, <1>2, <3>1, PartBounds DEF Parts
  <2> QED BY <2>1, <2>2
<1>4. \A i : Part(s, i) \subseteq S
  BY <1>1 DEF Part
<1>5. ASSUME NEW x \in S PROVE \E i \in 1..Parts(s) : x \in Part(s, i)
  <2>1. PICK k \in 1..Len(s) : s[k] = x
    BY <1>1
  <2>2. PICK q \in Nat : (k - 1) \div BatchLimit = q
    BY <1>1, <1>2
  <2>3. (k - 1) \div BatchLimit + 1 \in 1..Parts(s)
    BY <1>1, <1>2, PartBounds DEF Parts
  <2>4. q + 1 \in 1..Parts(s)
    BY <2>2, <2>3
  <2>5. k \in DOMAIN s /\ (q + 1) - 1 = q
    BY <1>1
  <2>6. x \in Part(s, q + 1)
    BY <2>1, <2>2, <2>5, Zenon DEF Part
  <2> QED BY <2>4, <2>6
<1> QED BY <1>3, <1>4, <1>5

\* A tombstone is later than the base and than every edit here.
LEMMA TombstoneFacts ==
  ASSUME NEW at \in LiveStamps, localEdits \in 0..MaxLocal
  PROVE  TombstoneAt(at) \in Stamps /\ TombstoneAt(at) # 0
<1>1. Now \in Nat /\ Now <= 2 * MaxLocal + 2 /\ at + 1 \in Nat /\ at + 1 <= 2 * MaxLocal + 2
      /\ at + 1 # 0 /\ at + 1 >= 1
  BY SyncAssumption DEF Now, LiveStamps
<1> DEFINE m == Max({Now, at + 1})
<1>2. m \in Nat /\ m >= at + 1 /\ (m = Now \/ m = at + 1)
  BY <1>1, MaxOfTwo
<1> HIDE DEF m
<1>3. m \in Stamps /\ m # 0
  BY <1>1, <1>2, SyncAssumption DEF Stamps
<1> QED BY <1>3 DEF TombstoneAt, m

LEMMA RequestsFacts ==
  ASSUME profile \in LiveVersions, sync.base \in LiveVersions, localEdits \in 0..MaxLocal,
         NEW us \in SetToSeqs(Upserts), NEW ds \in SetToSeqs(Deletes)
  PROVE  /\ Requests(us, ds) \in Seq(Pushes) /\ Requests(us, ds) # <<>>
         /\ \A r \in Records : profile[r] # sync.base[r] => Untold(Requests(us, ds), r, profile[r])
         /\ \A i \in DOMAIN Requests(us, ds) : \A c \in Requests(us, ds)[i] :
               c.deleted => c.id \in Records /\ sync.base[c.id] # 0 /\ profile[c.id] = 0
<1>1. /\ Upserts \subseteq Records /\ Deletes \subseteq Records
      /\ IsFiniteSet(Upserts) /\ IsFiniteSet(Deletes)
      /\ \A r \in Upserts : profile[r] # 0
      /\ \A r \in Deletes : profile[r] = 0 /\ sync.base[r] # 0
      /\ \A r \in Records : profile[r] # sync.base[r] => r \in Upserts \cup Deletes
  <2>1. Upserts \in SUBSET Records /\ Deletes \in SUBSET Records
    BY DEF Upserts, Deletes, Live
  <2>2. IsFiniteSet(Upserts) /\ IsFiniteSet(Deletes)
    BY <2>1, SyncAssumption, FS_Subset
  <2> QED BY <2>1, <2>2 DEF Upserts, Deletes, Live
<1> DEFINE n == Max({1, Parts(us), Parts(ds)})
           q == Requests(us, ds)
<1>2. /\ Parts(us) \in Nat /\ \A i : Part(us, i) \subseteq Upserts
      /\ \A x \in Upserts : \E i \in 1..Parts(us) : x \in Part(us, i)
  BY <1>1, PartFacts
<1>3. /\ Parts(ds) \in Nat /\ \A i : Part(ds, i) \subseteq Deletes
      /\ \A x \in Deletes : \E i \in 1..Parts(ds) : x \in Part(ds, i)
  BY <1>1, PartFacts
<1>4. n \in Nat /\ n >= 1 /\ n >= Parts(us) /\ n >= Parts(ds)
  BY <1>2, <1>3, MaxOfThree
<1>5. q = [i \in 1..n |-> Request(us, ds, i)]
  BY DEF Requests
<1> HIDE DEF n, q
<1>6. \A r \in Records : profile[r] \in LiveStamps /\ sync.base[r] \in LiveStamps
  BY DEF LiveVersions
<1> DEFINE Up(r) == [id |-> r, at |-> profile[r], deleted |-> FALSE]
           Down(r) == [id |-> r, at |-> TombstoneAt(sync.base[r]), deleted |-> TRUE]
<1>7. \A i : Request(us, ds, i) = {Up(r) : r \in Part(us, i)} \cup {Down(r) : r \in Part(ds, i)}
  BY DEF Request
<1>8. \A r \in Upserts : Up(r) \in LiveChange
  <2> TAKE r \in Upserts
  <2>1. r \in Records /\ profile[r] \in LiveStamps /\ profile[r] # 0
    BY <1>1, <1>6
  <2>2. profile[r] \in Stamps /\ profile[r] <= 2 * MaxLocal + 1
    BY <2>1, SyncAssumption DEF LiveStamps, Stamps
  <2> QED BY <2>1, <2>2 DEF LiveChange, Change
<1>9. \A r \in Deletes : Down(r) \in LiveChange
  <2> TAKE r \in Deletes
  <2>1. r \in Records /\ sync.base[r] \in LiveStamps
    BY <1>1, <1>6
  <2>2. TombstoneAt(sync.base[r]) \in Stamps /\ TombstoneAt(sync.base[r]) # 0
    BY <2>1, TombstoneFacts
  <2> QED BY <2>1, <2>2 DEF LiveChange, Change
<1>10. \A r : /\ Up(r).id = r /\ Up(r).at = profile[r] /\ Up(r).deleted = FALSE
              /\ Down(r).id = r /\ Down(r).at = TombstoneAt(sync.base[r]) /\ Down(r).deleted = TRUE
  OBVIOUS
<1> HIDE DEF Up, Down
<1>11. \A i : \A c \in Request(us, ds, i) :
          \/ c.id \in Upserts /\ c = Up(c.id)
          \/ c.id \in Deletes /\ c = Down(c.id)
  BY <1>2, <1>3, <1>7, <1>10
<1>12. Upserts \cap Deletes = {}
  BY <1>1
<1>13. \A i : Request(us, ds, i) \in Pushes
  <2> TAKE i
  <2>1. Request(us, ds, i) \in SUBSET LiveChange
    BY <1>8, <1>9, <1>11
  <2>2. \A c, d \in Request(us, ds, i) : c.id = d.id => c = d
    BY <1>11, <1>12
  <2> QED BY <2>1, <2>2 DEF Pushes
<1>14. q \in Seq(Pushes) /\ Len(q) = n /\ DOMAIN q = 1..n
  BY <1>4, <1>5, <1>13
<1>15. q # <<>>
  BY <1>4, <1>14
<1>16. ASSUME NEW r \in Records, profile[r] # sync.base[r] PROVE Untold(q, r, profile[r])
  <2>0. profile[r] \in Nat
    BY <1>6 DEF LiveStamps
  <2>1. CASE r \in Upserts
    <3>1. PICK i \in 1..Parts(us) : r \in Part(us, i)
      BY <1>2, <2>1
    <3>2. i \in 1..n /\ Up(r) \in Request(us, ds, i)
      BY <1>2, <1>4, <1>7, <3>1
    <3>3. Up(r).id = r /\ Up(r).at >= profile[r]
      BY <1>10, <2>0
    <3>4. i \in DOMAIN q /\ Up(r) \in q[i]
      BY <1>5, <3>2
    <3> QED BY <3>3, <3>4 DEF Untold
  <2>2. CASE r \in Deletes
    <3>1. PICK i \in 1..Parts(ds) : r \in Part(ds, i)
      BY <1>3, <2>2
    <3>2. i \in 1..n /\ Down(r) \in Request(us, ds, i)
      BY <1>3, <1>4, <1>7, <3>1
    <3>3. Down(r).id = r /\ Down(r).at \in Stamps
      BY <1>9, <1>10, <2>2 DEF LiveChange, Change
    <3>4. Down(r).at >= profile[r]
      BY <1>1, <2>2, <3>3 DEF Stamps
    <3>5. i \in DOMAIN q /\ Down(r) \in q[i]
      BY <1>5, <3>2
    <3> QED BY <3>3, <3>4, <3>5 DEF Untold
  <2> QED BY <1>1, <1>16, <2>1, <2>2
<1>17. ASSUME NEW i \in DOMAIN q, NEW c \in q[i], c.deleted
       PROVE  c.id \in Records /\ sync.base[c.id] # 0 /\ profile[c.id] = 0
  <2>1. c \in Request(us, ds, i)
    BY <1>5, <1>17
  <2>2. c.id \in Deletes
    <3>1. CASE c = Up(c.id)
      BY <1>10, <1>17, <3>1
    <3> QED BY <1>11, <2>1, <3>1
  <2> QED BY <1>1, <2>2
<1> QED BY <1>14, <1>15, <1>16, <1>17 DEF q

-----------------------------------------------------------------------------
(***************************************************************************)
(* What a write or a merge changes.                                        *)
(***************************************************************************)

\* An account's records after some writes: of those that changed, the revision is newer.
Newer(held, later) == \A r \in Records :
    /\ later[r].at >= held[r].at /\ later[r].rev >= held[r].rev
    /\ later[r] # held[r] => later[r].rev > Newest(held)

LEMMA HeldFacts ==
  ASSUME NEW held \in LiveRecords
  PROVE  /\ \A r \in Records : held[r].rev \in Nat /\ held[r].at \in Nat
         /\ \A r \in Records : held[r].at = 0 <=> held[r].rev = 0
         /\ \A r \in Records : held[r].at = 0 => ~held[r].deleted
         /\ Newest(held) \in Nat /\ \A r \in Records : held[r].rev <= Newest(held)
         /\ Newer(held, held)
<1>1. \A r \in Records : held[r] \in LiveHeld
  BY DEF LiveRecords
<1>2. \A r \in Records : held[r].rev \in Nat /\ held[r].at \in Nat
  BY <1>1 DEF LiveHeld, Held, Stamps
<1>3. \A r \in Records : (held[r].at = 0 <=> held[r].rev = 0) /\ (held[r].at = 0 => ~held[r].deleted)
  BY <1>1 DEF LiveHeld
<1>4. Newest(held) \in Nat /\ \A r \in Records : held[r].rev <= Newest(held)
  BY <1>2, NewestFacts
<1>5. Newer(held, held)
  BY <1>2 DEF Newer
<1> QED BY <1>2, <1>3, <1>4, <1>5

LEMMA NewerGrows ==
  ASSUME NEW held \in LiveRecords, NEW later \in LiveRecords, Newer(held, later)
  PROVE  Newest(held) <= Newest(later)
  BY HeldFacts, NewestGrows DEF Newer

\* A request is stored whatever becomes of its answer.
LEMMA StoreStep ==
  ASSUME Types, cycle.stage = "sending"
  PROVE  /\ Head(cycle.todo) \in Pushes /\ Tail(cycle.todo) \in Seq(Pushes)
         /\ Stored(cycle.account, Head(cycle.todo)) \in LiveRecords
         /\ Newer(server[cycle.account], Stored(cycle.account, Head(cycle.todo)))
         /\ 1 \in DOMAIN cycle.todo /\ Head(cycle.todo) = cycle.todo[1]
         /\ Len(cycle.todo) \in Nat /\ DOMAIN cycle.todo = 1..Len(cycle.todo)
         /\ Len(cycle.todo) = 1 => Tail(cycle.todo) = <<>>
         /\ Len(cycle.todo) # 1 => Tail(cycle.todo) # <<>>
         /\ \A i \in DOMAIN cycle.todo : i # 1 =>
               i - 1 \in DOMAIN Tail(cycle.todo) /\ Tail(cycle.todo)[i - 1] = cycle.todo[i]
         /\ \A i \in DOMAIN Tail(cycle.todo) : \E j \in DOMAIN cycle.todo :
               Tail(cycle.todo)[i] = cycle.todo[j]
<1>1. /\ cycle.todo \in Seq(Pushes) /\ cycle.todo # <<>> /\ cycle.account \in Accounts
      /\ server \in [Accounts -> LiveRecords]
  BY DEF Types, CycleInv, Cycles, ServerInv
<1>2. /\ Head(cycle.todo) \in Pushes /\ Tail(cycle.todo) \in Seq(Pushes)
      /\ Len(cycle.todo) \in Nat /\ Len(cycle.todo) # 0 /\ DOMAIN cycle.todo = 1..Len(cycle.todo)
      /\ Head(cycle.todo) = cycle.todo[1]
      /\ Len(Tail(cycle.todo)) = Len(cycle.todo) - 1
      /\ \A i \in 1..Len(Tail(cycle.todo)) : Tail(cycle.todo)[i] = cycle.todo[i + 1]
      /\ DOMAIN Tail(cycle.todo) = 1..Len(Tail(cycle.todo))
  BY <1>1
<1>3. /\ Stored(cycle.account, Head(cycle.todo)) \in LiveRecords
      /\ Newer(server[cycle.account], Stored(cycle.account, Head(cycle.todo)))
  BY <1>1, <1>2, StoredFacts DEF Newer
<1>4. 1 \in DOMAIN cycle.todo
  BY <1>2
<1>5. /\ Len(cycle.todo) = 1 => Tail(cycle.todo) = <<>>
      /\ Len(cycle.todo) # 1 => Tail(cycle.todo) # <<>>
  <2>1. /\ Len(Tail(cycle.todo)) = Len(cycle.todo) - 1 /\ Len(cycle.todo) \in Nat
        /\ Tail(cycle.todo) \in Seq(Pushes)
    BY <1>2
  <2>2. Len(Tail(cycle.todo)) = 0 <=> Tail(cycle.todo) = <<>>
    BY <2>1, EmptySeq
  <2> QED BY <2>1, <2>2
<1>6. ASSUME NEW i \in DOMAIN cycle.todo, i # 1
      PROVE  i - 1 \in DOMAIN Tail(cycle.todo) /\ Tail(cycle.todo)[i - 1] = cycle.todo[i]
  <2>1. i \in Nat /\ i - 1 \in 1..Len(Tail(cycle.todo)) /\ (i - 1) + 1 = i
    BY <1>2, <1>6
  <2>2. Tail(cycle.todo)[i - 1] = cycle.todo[(i - 1) + 1]
    BY <1>2, <2>1
  <2> QED BY <1>2, <2>1, <2>2
<1>7. ASSUME NEW i \in DOMAIN Tail(cycle.todo)
      PROVE  \E j \in DOMAIN cycle.todo : Tail(cycle.todo)[i] = cycle.todo[j]
  <2>1. i + 1 \in DOMAIN cycle.todo /\ Tail(cycle.todo)[i] = cycle.todo[i + 1]
    BY <1>2
  <2> QED BY <2>1
<1> QED BY <1>2, <1>3, <1>4, <1>5, <1>6, <1>7

\* What merging the answers makes of the profile.
LEMMA MergedFacts ==
  ASSUME Types, MergeAnswers
  PROVE  /\ Merged \in LiveVersions /\ profile' \in LiveVersions /\ WithinCaps(profile')
         /\ Dropped \subseteq Records /\ removed' = removed \cup Dropped
         /\ \A r \in Records : /\ r \notin Dropped => profile'[r] = Merged[r]
                               /\ r \in Dropped => profile'[r] = 0
         /\ \A r \in Records : Merged[r] = 0 =>
               \/ profile[r] = 0
               \/ \E k \in DOMAIN cycle.got : \E c \in cycle.got[k] : c.id = r /\ c.deleted
<1>1. profile \in LiveVersions /\ cycle.got \in Seq(SUBSET LiveChange)
  BY DEF Types, StoreInv, CycleInv, Cycles
<1>2. /\ Merged \in LiveVersions
      /\ \A r \in Records : Merged[r] = 0 =>
            \/ profile[r] = 0
            \/ \E k \in 1..Len(cycle.got) : \E c \in cycle.got[k] : c.id = r /\ c.deleted
  BY <1>1, MergeAllType DEF Merged
<1>3. DOMAIN cycle.got = 1..Len(cycle.got)
  BY <1>1
<1>4. removed' = removed \cup Dropped /\ \E cutoff : profile' = Capped(Merged, cutoff)
  BY DEF MergeAnswers
<1>5. PICK cutoff : profile' = Capped(Merged, cutoff)
  BY <1>4
<1>6. /\ profile' \in LiveVersions /\ WithinCaps(profile')
      /\ OutOf(profile', Merged)
  <2> DEFINE m == Merged
             q == Capped(m, cutoff)
  <2>1. m \in LiveVersions
    BY <1>2
  <2> HIDE DEF m
  <2>2. q \in LiveVersions /\ WithinCaps(q) /\ OutOf(q, m)
    BY <2>1, CappedFacts
  <2>3. profile' = q
    BY <1>5 DEF m
  <2> HIDE DEF q
  <2> QED BY <2>2, <2>3 DEF m
<1>7. Dropped \subseteq Records
  BY DEF Dropped, Live
<1>8. ASSUME NEW r \in Records
      PROVE  /\ r \notin Dropped => profile'[r] = Merged[r]
             /\ r \in Dropped => profile'[r] = 0
  BY <1>6 DEF Dropped, Live, OutOf
<1> QED BY <1>2, <1>3, <1>4, <1>6, <1>7, <1>8

-----------------------------------------------------------------------------
(***************************************************************************)
(* Types.                                                                  *)
(***************************************************************************)

LEMMA EditTypes ==
  ASSUME Types, NEW p \in LiveVersions, WithinCaps(p), Edit(p), born' \subseteq Records
  PROVE  Types'
<1>1. /\ localEdits < MaxLocal /\ localEdits' = localEdits + 1
      /\ profile' = p /\ file' = p
      /\ touched' = IF Running THEN touched \cup {r \in Records : profile'[r] # profile[r]} ELSE {}
      /\ removed' = removed \cup (Live(profile) \ Live(profile'))
      /\ UNCHANGED <<sync, saved, account, server, cycle, overtaken, evicted, resetLost>>
  BY DEF Edit
<1>2. localEdits' \in 0..MaxLocal
  BY <1>1, Numbers DEF Types, StoreInv
<1>3. StoreInv'
  BY <1>1, <1>2 DEF Types, StoreInv
<1>4. touched' \subseteq Records /\ removed' \subseteq Records
  BY <1>1 DEF Types, GhostInv, Live
<1>5. GhostInv'
  BY <1>1, <1>4 DEF Types, GhostInv
<1>6. ServerInv' /\ CycleInv'
  BY <1>1 DEF Types, ServerInv, CycleInv
<1> QED BY <1>3, <1>5, <1>6 DEF Types

LEMMA StampedFacts ==
  ASSUME Types, localEdits < MaxLocal, NEW r \in Records
  PROVE  Stamped(r) \in LiveVersions /\ Live(Stamped(r)) \subseteq Live(profile) \cup {r}
<1>1. Now + 2 \in LiveStamps
  BY Numbers DEF Types, StoreInv, Now, LiveStamps
<1>2. profile \in LiveVersions
  BY DEF Types, StoreInv
<1> QED BY <1>1, <1>2 DEF Stamped, LiveVersions, Live

LEMMA NewIdFacts ==
  ASSUME Types, NEW rs \in SUBSET Records, rs \ born # {}
  PROVE  NewId(rs) \in rs /\ born \cup {NewId(rs)} \subseteq Records
<1>1. \E r \in rs \ born : TRUE
  OBVIOUS
<1>2. NewId(rs) \in rs \ born
  BY <1>1 DEF NewId
<1> QED BY <1>2 DEF Types, GhostInv

LEMMA ProfileFacts ==
  ASSUME Types
  PROVE  /\ profile \in LiveVersions /\ WithinCaps(profile) /\ born \subseteq Records
         /\ IsFiniteSet(Live(profile) \cap Favourites)
         /\ Cardinality(Live(profile) \cap Favourites) \in Nat
<1>1. IsFiniteSet(Live(profile) \cap Favourites)
  BY Finite DEF Live
<1> QED BY <1>1, FS_CardinalityType DEF Types, StoreInv, GhostInv

LEMMA AddFavouriteTypes ==
  ASSUME Types, NEW s \in Stations, AddFavourite(s)
  PROVE  Types'
<1>1. /\ s \ born # {} /\ Cardinality(Live(profile) \cap Favourites) < MAX_FAVOURITES
      /\ Edit(Stamped(NewId(s))) /\ born' = born \cup {NewId(s)}
  BY DEF AddFavourite
<1>2. s \in SUBSET Records /\ s \subseteq Favourites
  BY SyncAssumption DEF Favourites
<1> DEFINE r == NewId(s)
           q == Stamped(r)
           had == Live(profile) \cap Favourites
<1>3. r \in s /\ born' \subseteq Records
  BY <1>1, <1>2, NewIdFacts
<1>4. r \in Records /\ r \in Favourites /\ r \notin History
  BY <1>2, <1>3 DEF History
<1>5. localEdits < MaxLocal
  BY <1>1 DEF Edit
<1> HIDE DEF r
<1>6. q \in LiveVersions /\ Live(q) \subseteq Live(profile) \cup {r}
  BY <1>4, <1>5, StampedFacts
<1>7. WithinCaps(profile) /\ IsFiniteSet(had) /\ Cardinality(had) \in Nat
  BY ProfileFacts
<1> HIDE DEF q
<1>8. /\ IsFiniteSet(had \cup {r})
      /\ Cardinality(had \cup {r}) = IF r \in had THEN Cardinality(had) ELSE Cardinality(had) + 1
  <2> HIDE DEF had
  <2> QED BY <1>7, FS_AddElement
<1>9. Cardinality(had \cup {r}) <= MAX_FAVOURITES
  <2>1. Cardinality(had) < MAX_FAVOURITES /\ MAX_FAVOURITES \in Nat
    BY <1>1, Numbers
  <2> HIDE DEF had
  <2> QED BY <1>7, <1>8, <2>1
<1>10. Live(q) \cap Favourites \in SUBSET (had \cup {r})
  BY <1>6
<1>11. Cardinality(Live(q) \cap Favourites) <= MAX_FAVOURITES
  <2> HIDE DEF had
  <2> QED BY <1>8, <1>9, <1>10, PartFits, Numbers
<1>12. /\ Live(q) \cap History \in SUBSET (Live(profile) \cap History)
       /\ IsFiniteSet(Live(profile) \cap History)
  BY <1>4, <1>6, Finite DEF Live
<1>13. Cardinality(Live(q) \cap History) <= MAX_HISTORY
  BY <1>7, <1>12, PartFits, Numbers DEF WithinCaps
<1>14. WithinCaps(q) /\ Edit(q)
  BY <1>1, <1>11, <1>13 DEF WithinCaps, q, r
<1> QED BY <1>3, <1>6, <1>14, EditTypes

LEMMA RemoveFavouriteTypes ==
  ASSUME Types, NEW s \in Stations, RemoveFavourite(s)
  PROVE  Types'
<1>1. Edit(Only(profile, Records \ s)) /\ born' = born
  BY DEF RemoveFavourite
<1>2. Only(profile, Records \ s) \in LiveVersions /\ WithinCaps(Only(profile, Records \ s))
  BY ProfileFacts, OnlyFacts
<1>3. born' \subseteq Records
  BY <1>1, ProfileFacts
<1> QED BY <1>1, <1>2, <1>3, EditTypes

\* An entry of the history that was just played, and what is retained then.
LEMMA PlayedFacts ==
  ASSUME Types, localEdits < MaxLocal, NEW r \in History, NEW cutoff
  PROVE  Retained(Stamped(r), cutoff) \in LiveVersions /\ WithinCaps(Retained(Stamped(r), cutoff))
<1> DEFINE q == Stamped(r)
<1>1. q \in LiveVersions /\ Live(q) \subseteq Live(profile) \cup {r}
  BY StampedFacts, Numbers
<1>2. r \notin Favourites
  BY DEF History
<1> HIDE DEF q
<1>3. Live(q) \cap Favourites \in SUBSET (Live(profile) \cap Favourites)
  BY <1>1, <1>2
<1>4. Cardinality(Live(q) \cap Favourites) <= MAX_FAVOURITES
  BY <1>3, ProfileFacts, PartFits, Numbers DEF WithinCaps
<1>5. Retained(q, cutoff) \in LiveVersions /\ WithinCaps(Retained(q, cutoff))
  BY <1>1, <1>4, RetainedFacts
<1> QED BY <1>5 DEF q

LEMMA NewEntryTypes ==
  ASSUME Types, NewEntry
  PROVE  Types'
<1>1. /\ History \ born # {} /\ born' = born \cup {NewId(History)}
      /\ \E cutoff : Edit(Retained(Stamped(NewId(History)), cutoff))
  BY DEF NewEntry
<1>2. PICK cutoff : Edit(Retained(Stamped(NewId(History)), cutoff))
  BY <1>1
<1>3. NewId(History) \in History /\ born' \subseteq Records
  BY <1>1, NewIdFacts, Numbers
<1>4. localEdits < MaxLocal
  BY <1>2 DEF Edit
<1> QED BY <1>2, <1>3, <1>4, PlayedFacts, EditTypes

LEMMA ContinueTypes ==
  ASSUME Types, NEW r \in Records, Continue(r)
  PROVE  Types'
<1>1. r \in History /\ born' = born /\ \E cutoff : Edit(Retained(Stamped(r), cutoff))
  BY DEF Continue
<1>2. PICK cutoff : Edit(Retained(Stamped(r), cutoff))
  BY <1>1
<1>3. localEdits < MaxLocal /\ born' \subseteq Records
  BY <1>1, <1>2, ProfileFacts DEF Edit
<1> QED BY <1>1, <1>2, <1>3, PlayedFacts, EditTypes

LEMMA ClearHistoryTypes ==
  ASSUME Types, ClearHistory
  PROVE  Types'
<1>1. Edit(Only(profile, Favourites)) /\ born' = born
  BY DEF ClearHistory
<1>2. Only(profile, Favourites) \in LiveVersions /\ WithinCaps(Only(profile, Favourites))
  BY ProfileFacts, OnlyFacts
<1>3. born' \subseteq Records
  BY <1>1, ProfileFacts
<1> QED BY <1>1, <1>2, <1>3, EditTypes

\* A write of another device is newer than all the account has.
LEMMA RemoteWrites ==
  ASSUME Types, NEW r \in Records, NEW at \in Stamps, NEW gone \in BOOLEAN, Remote(r, at, gone)
  PROVE  /\ server' \in [Accounts -> LiveRecords] /\ Newer(server[account], server'[account])
         /\ \A x \in Records : server'[account][x].deleted =>
               server[account][x].deleted \/ x \in removed'
         /\ \A a \in Accounts : a # account => server'[a] = server[a]
<1>1. /\ at > server[account][r].at /\ at % 2 = 1
      /\ server' = [server EXCEPT ![account][r] =
                      [at |-> at, deleted |-> gone, rev |-> ServerRev(account) + 1]]
      /\ removed' = IF gone THEN removed \cup {r} ELSE removed
  BY DEF Remote
<1>2. account \in Accounts /\ server \in [Accounts -> LiveRecords]
  BY DEF Types, ServerInv
<1> DEFINE held == server[account]
           later == server'[account]
           h == [at |-> at, deleted |-> gone, rev |-> ServerRev(account) + 1]
<1>3. held \in LiveRecords
  BY <1>2
<1>4. later = [held EXCEPT ![r] = h] /\ \A a \in Accounts : a # account => server'[a] = server[a]
  BY <1>1, <1>2
<1>5. ServerRev(account) = Newest(held) /\ Newest(held) \in Nat
      /\ \A x \in Records : held[x].rev <= Newest(held) /\ held[x].rev \in Nat /\ held[x].at \in Nat
  BY <1>3, HeldFacts DEF ServerRev, Newest
<1>6. at \in Nat /\ at # 0 /\ at <= 2 * MaxLocal + 1
  <2>1. at \in Nat /\ at <= 2 * MaxLocal + 2 /\ at % 2 = 1 /\ MaxLocal \in Nat
    BY <1>1, Numbers DEF Stamps
  <2>2. (2 * MaxLocal + 2) % 2 = 0 /\ 0 % 2 = 0
    BY <2>1
  <2>3. at # 2 * MaxLocal + 2 /\ at # 0
    BY <2>1, <2>2
  <2> QED BY <2>1, <2>3
<1>7. h.at = at /\ h.deleted = gone /\ h.rev = Newest(held) + 1 /\ h \in Held
  BY <1>5 DEF Held
<1>8. h \in LiveHeld
  BY <1>5, <1>6, <1>7 DEF LiveHeld
<1> HIDE DEF h, held, later
<1>9. later \in LiveRecords
  BY <1>3, <1>4, <1>8 DEF LiveRecords
<1>10. \A x \in Records : x # r => later[x] = held[x]
  BY <1>3, <1>4 DEF LiveRecords
<1>11. later[r] = h
  BY <1>3, <1>4 DEF LiveRecords
<1>12. Newer(held, later)
  <2> SUFFICES ASSUME NEW x \in Records
               PROVE  /\ later[x].at >= held[x].at /\ later[x].rev >= held[x].rev
                      /\ later[x] # held[x] => later[x].rev > Newest(held)
    BY DEF Newer
  <2>1. CASE x = r
    <3>1. later[x].at = at /\ later[x].rev = Newest(held) + 1
      BY <1>7, <1>11, <2>1
    <3>2. at > held[x].at
      BY <1>1, <2>1 DEF held
    <3> QED BY <1>5, <1>6, <3>1, <3>2
  <2>2. CASE x # r
    BY <1>5, <1>10, <2>2
  <2> QED BY <2>1, <2>2
<1>13. server' \in [Accounts -> LiveRecords]
  <2>1. server' = [server EXCEPT ![account] = later]
    BY <1>1, <1>2, <1>4 DEF later
  <2> QED BY <1>2, <1>9, <2>1
<1>14. ASSUME NEW x \in Records, later[x].deleted PROVE held[x].deleted \/ x \in removed'
  BY <1>1, <1>7, <1>10, <1>11, <1>14
<1> QED BY <1>4, <1>12, <1>13, <1>14 DEF held, later

LEMMA RemoteAddFacts ==
  ASSUME Types, NEW rs \in Stations \cup {History}, RemoteAdd(rs)
  PROVE  \E r \in Records, at \in Stamps, gone \in BOOLEAN : Remote(r, at, gone)
<1>1. rs \in SUBSET Records
  BY SyncAssumption, Numbers
<1>2. rs \ born # {} /\ \E at \in Stamps : Remote(NewId(rs), at, FALSE)
  BY DEF RemoteAdd
<1>3. NewId(rs) \in Records
  BY <1>1, <1>2, NewIdFacts
<1> QED BY <1>2, <1>3

LEMMA RemoteTypes ==
  ASSUME Types, NEW r \in Records, NEW at \in Stamps, NEW gone \in BOOLEAN, Remote(r, at, gone)
  PROVE  Types'
<1>1. /\ born' = born \cup {r} /\ removed' = IF gone THEN removed \cup {r} ELSE removed
      /\ UNCHANGED <<store, account, cycle, localEdits, touched, overtaken, evicted, resetLost>>
  BY DEF Remote
<1>2. server' \in [Accounts -> LiveRecords]
  BY RemoteWrites
<1>3. StoreInv' /\ CycleInv' /\ ServerInv'
  BY <1>1, <1>2 DEF Types, StoreInv, CycleInv, ServerInv, store
<1>4. GhostInv'
  BY <1>1 DEF Types, GhostInv
<1> QED BY <1>3, <1>4 DEF Types

LEMMA StartTypes ==
  ASSUME Types, Start
  PROVE  Types'
<1>1. PICK us \in SetToSeqs(Upserts), ds \in SetToSeqs(Deletes) :
         cycle' = [Idle EXCEPT !.stage = "sending", !.account = account,
                               !.todo = Requests(us, ds), !.since = sync.cursor]
  BY DEF Start
<1>2. /\ touched' = {}
      /\ UNCHANGED <<store, account, server, counts, born, overtaken, evicted, removed, resetLost>>
  BY DEF Start
<1>3. profile \in LiveVersions /\ sync.base \in LiveVersions /\ sync.cursor \in Nat
      /\ localEdits \in 0..MaxLocal /\ account \in Accounts
  BY DEF Types, StoreInv, LiveStates, ServerInv
<1>4. Requests(us, ds) \in Seq(Pushes) /\ Requests(us, ds) # <<>>
  BY <1>3, RequestsFacts
<1> DEFINE q == Requests(us, ds)
<1> HIDE DEF q
<1>5. cycle' = [stage |-> "sending", account |-> account, todo |-> q,
                since |-> sync.cursor, got |-> <<>>, rev |-> 0]
  BY <1>1 DEF Idle, q
<1>6. cycle' \in Cycles
  BY <1>3, <1>4, <1>5 DEF Cycles, q
<1>7. CycleInv'
  BY <1>4, <1>5, <1>6 DEF CycleInv, q
<1>8. StoreInv' /\ ServerInv'
  BY <1>2 DEF Types, StoreInv, ServerInv, store, counts
<1>9. GhostInv'
  BY <1>2 DEF Types, GhostInv
<1> QED BY <1>7, <1>8, <1>9 DEF Types

\* What a delivered request changes.
LEMMA DeliverFacts ==
  ASSUME Types, Deliver,
         NEW request, request = Head(cycle.todo),
         NEW held, held = Stored(cycle.account, request)
  PROVE  /\ held \in LiveRecords /\ request \in Pushes /\ Since \in Nat
         /\ server' \in [Accounts -> LiveRecords] /\ server'[cycle.account] = held
         /\ \A a \in Accounts : a # cycle.account => server'[a] = server[a]
         /\ cycle'.account = cycle.account /\ cycle'.since = cycle.since
         /\ cycle'.todo = Tail(cycle.todo) /\ cycle'.todo \in Seq(Pushes)
         /\ cycle'.got = Append(cycle.got, Answer(held, request, Since))
         /\ cycle.got \in Seq(SUBSET LiveChange)
         /\ Answer(held, request, Since) \in SUBSET LiveChange
         /\ cycle'.rev \in Nat /\ cycle'.rev <= Newest(held)
         /\ cycle' \in Cycles /\ cycle'.got # <<>>
         /\ cycle'.stage = IF cycle'.todo = <<>> THEN "done" ELSE "sending"
<1>0. /\ cycle.stage = "sending"
      /\ server' = [server EXCEPT ![cycle.account] = held]
      /\ cycle' = [cycle EXCEPT
                 !.todo  = Tail(@),
                 !.got   = Append(@, Answer(held, request, Since)),
                 !.rev   = Max({held[r].rev : r \in Records}),
                 !.stage = IF Len(cycle.todo) = 1 THEN "done" ELSE "sending"]
  BY DEF Deliver
<1>1. /\ cycle \in Cycles /\ cycle.account \in Accounts /\ cycle.since \in Nat
      /\ cycle.got \in Seq(SUBSET LiveChange)
      /\ server \in [Accounts -> LiveRecords]
  BY DEF Types, CycleInv, Cycles, ServerInv
<1>2. /\ held \in LiveRecords /\ request \in Pushes /\ Tail(cycle.todo) \in Seq(Pushes)
      /\ Len(cycle.todo) = 1 => Tail(cycle.todo) = <<>>
      /\ Len(cycle.todo) # 1 => Tail(cycle.todo) # <<>>
  BY <1>0, StoreStep
<1>3. Since \in Nat
  BY <1>1 DEF Since
<1>4. Answer(held, request, Since) \in SUBSET LiveChange
  BY <1>2, <1>3, AnswerFacts
<1> DEFINE ans == Answer(held, request, Since)
           top == Max({held[r].rev : r \in Records})
           st == IF Len(cycle.todo) = 1 THEN "done" ELSE "sending"
<1>5. top \in Nat /\ top <= Newest(held)
  BY <1>2, HeldFacts, NewestFacts
<1> HIDE DEF ans, top, st
<1>6. cycle' = [cycle EXCEPT !.todo = Tail(cycle.todo), !.got = Append(cycle.got, ans),
                             !.rev = top, !.stage = st]
  BY <1>0 DEF ans, top, st
<1>7. /\ cycle'.stage = st /\ cycle'.todo = Tail(cycle.todo) /\ cycle'.got = Append(cycle.got, ans)
      /\ cycle'.rev = top /\ cycle'.account = cycle.account /\ cycle'.since = cycle.since
  BY <1>1, <1>6 DEF Cycles
<1>8. Append(cycle.got, ans) \in Seq(SUBSET LiveChange) /\ Append(cycle.got, ans) # <<>>
  <2>1. Append(cycle.got, ans) \in Seq(SUBSET LiveChange) /\ Len(cycle.got) \in Nat
        /\ Len(Append(cycle.got, ans)) = Len(cycle.got) + 1
    BY <1>1, <1>4 DEF ans
  <2> QED BY <2>1, EmptySeq
<1>9. st \in {"sending", "done"} /\ st = IF Tail(cycle.todo) = <<>> THEN "done" ELSE "sending"
  BY <1>2 DEF st
<1>10. cycle' \in Cycles
  BY <1>1, <1>2, <1>5, <1>6, <1>8, <1>9 DEF Cycles
<1>11. /\ server' \in [Accounts -> LiveRecords] /\ server'[cycle.account] = held
       /\ \A a \in Accounts : a # cycle.account => server'[a] = server[a]
  BY <1>0, <1>1, <1>2
<1> QED BY <1>1, <1>2, <1>3, <1>4, <1>5, <1>7, <1>8, <1>9, <1>10, <1>11 DEF ans

LEMMA DeliverTypes ==
  ASSUME Types, Deliver
  PROVE  Types'
<1> DEFINE request == Head(cycle.todo)
           held == Stored(cycle.account, request)
<1>1. UNCHANGED <<store, account, counts, ghosts>>
  BY DEF Deliver
<1>2. /\ cycle' \in Cycles /\ cycle'.got # <<>>
      /\ cycle'.stage = IF cycle'.todo = <<>> THEN "done" ELSE "sending"
      /\ server' \in [Accounts -> LiveRecords]
  BY DeliverFacts
<1>3. CycleInv'
  BY <1>2 DEF CycleInv
<1>4. StoreInv' /\ ServerInv' /\ GhostInv'
  BY <1>1, <1>2 DEF Types, StoreInv, ServerInv, GhostInv, store, counts, ghosts
<1> QED BY <1>3, <1>4 DEF Types

LEMMA FailTypes ==
  ASSUME Types, Fail
  PROVE  Types'
<1>1. /\ cycle.stage = "sending" /\ cycle' = [cycle EXCEPT !.stage = "failed"]
      /\ UNCHANGED <<store, account, localEdits, remoteEdits, ghosts>>
      /\ \/ server' = server
         \/ server' = [server EXCEPT ![cycle.account] = Stored(cycle.account, Head(cycle.todo))]
  BY DEF Fail
<1>2. cycle \in Cycles /\ server \in [Accounts -> LiveRecords]
  BY DEF Types, CycleInv, ServerInv
<1>3. cycle' \in Cycles /\ cycle'.stage = "failed"
  BY <1>1, <1>2 DEF Cycles
<1>4. Stored(cycle.account, Head(cycle.todo)) \in LiveRecords
  BY <1>1, StoreStep
<1>5. server' \in [Accounts -> LiveRecords]
  BY <1>1, <1>2, <1>4
<1>6. CycleInv'
  BY <1>3 DEF CycleInv
<1>7. StoreInv' /\ ServerInv' /\ GhostInv'
  BY <1>1, <1>5 DEF Types, StoreInv, ServerInv, GhostInv, store, ghosts
<1> QED BY <1>6, <1>7 DEF Types

LEMMA IdleFacts == Idle \in Cycles /\ Idle.stage = "idle" /\ Idle.got = <<>>
<1>1. Idle.account \in Accounts
  <2>1. \E a \in Accounts : TRUE
    BY Numbers
  <2> QED BY <2>1 DEF Idle
<1> QED BY <1>1 DEF Idle, Cycles

LEMMA RenewTypes ==
  ASSUME Types, Renew
  PROVE  Types'
<1>1. /\ cycle' = [cycle EXCEPT !.account = account]
      /\ UNCHANGED <<store, account, server, counts, ghosts>>
  BY DEF Renew
<1>2. cycle \in Cycles /\ account \in Accounts
  BY DEF Types, CycleInv, ServerInv
<1>3. /\ cycle' \in Cycles /\ cycle'.stage = cycle.stage /\ cycle'.todo = cycle.todo
      /\ cycle'.got = cycle.got
  BY <1>1, <1>2 DEF Cycles
<1>4. CycleInv'
  BY <1>3 DEF Types, CycleInv
<1>5. StoreInv' /\ ServerInv' /\ GhostInv'
  BY <1>1 DEF Types, StoreInv, ServerInv, GhostInv, store, counts, ghosts
<1> QED BY <1>4, <1>5 DEF Types

LEMMA IdleTypes ==
  ASSUME cycle' = Idle
  PROVE  CycleInv'
  BY IdleFacts DEF CycleInv

LEMMA HandleFailureTypes ==
  ASSUME Types, HandleFailure
  PROVE  Types'
<1>1. cycle' = Idle /\ UNCHANGED <<store, account, server, counts, ghosts>>
  BY DEF HandleFailure
<1>2. StoreInv' /\ ServerInv' /\ GhostInv'
  BY <1>1 DEF Types, StoreInv, ServerInv, GhostInv, store, counts, ghosts
<1> QED BY <1>1, <1>2, IdleTypes DEF Types

LEMMA ApplyTypes ==
  ASSUME Types, Apply
  PROVE  Types'
<1>1. /\ MergeAnswers /\ file' = profile'
      /\ sync' = MatchedTo(profile', cycle.rev) /\ saved' \in {sync', saved}
      /\ overtaken' = overtaken \cup touched /\ evicted' = evicted \cup Dropped
      /\ touched' = {} /\ cycle' = Idle
      /\ UNCHANGED <<account, server, counts, born, resetLost>>
  BY DEF Apply, NewBase
<1>2. /\ profile' \in LiveVersions /\ WithinCaps(profile')
      /\ Dropped \subseteq Records /\ removed' = removed \cup Dropped
  BY <1>1, MergedFacts
<1>3. cycle.rev \in Nat /\ saved \in LiveStates /\ localEdits \in 0..MaxLocal
  BY DEF Types, CycleInv, Cycles, StoreInv
<1>4. sync' \in LiveStates /\ saved' \in LiveStates
  BY <1>1, <1>2, <1>3 DEF MatchedTo, LiveStates
<1>5. StoreInv'
  BY <1>1, <1>2, <1>3, <1>4 DEF StoreInv, counts
<1>6. GhostInv' /\ ServerInv'
  BY <1>1, <1>2 DEF Types, GhostInv, ServerInv
<1> QED BY <1>1, <1>5, <1>6, IdleTypes DEF Types

LEMMA ApplyFailsTypes ==
  ASSUME Types, ApplyFails
  PROVE  Types'
<1>1. /\ MergeAnswers
      /\ touched' = {} /\ cycle' = Idle
      /\ UNCHANGED <<file, sync, saved, account, server, localEdits, remoteEdits,
                     born, overtaken, evicted, resetLost>>
  BY DEF ApplyFails
<1>2. /\ profile' \in LiveVersions /\ WithinCaps(profile')
      /\ Dropped \subseteq Records /\ removed' = removed \cup Dropped
  BY <1>1, MergedFacts
<1>3. StoreInv'
  BY <1>1, <1>2 DEF Types, StoreInv
<1>4. GhostInv' /\ ServerInv'
  BY <1>1, <1>2 DEF Types, GhostInv, ServerInv
<1> QED BY <1>1, <1>3, <1>4, IdleTypes DEF Types

LEMMA ResetFacts ==
  ASSUME Types, Reset
  PROVE  /\ sync' = Fresh /\ sync' \in LiveStates /\ saved' \in LiveStates
         /\ resetLost' \in BOOLEAN /\ (resetLost => resetLost')
         /\ ~resetLost' => saved' = Fresh
<1>1. /\ sync' = Fresh
      /\ \/ (saved' = Fresh /\ resetLost' = resetLost)
         \/ (saved' = saved /\ resetLost' = TRUE)
  BY DEF Reset
<1>2. saved \in LiveStates /\ resetLost \in BOOLEAN
  BY DEF Types, StoreInv, GhostInv
<1> QED BY <1>1, <1>2, Numbers

LEMMA PairTypes ==
  ASSUME Types, NEW a \in Accounts, Pair(a)
  PROVE  Types'
<1>1. /\ account' = a /\ Reset /\ touched' = IF Running THEN Records ELSE {}
      /\ UNCHANGED <<profile, file, server, cycle, localEdits, remoteEdits, born,
                     overtaken, evicted, removed>>
  BY DEF Pair
<1>2. sync' \in LiveStates /\ saved' \in LiveStates /\ resetLost' \in BOOLEAN
  BY <1>1, ResetFacts
<1>3. StoreInv' /\ ServerInv' /\ CycleInv'
  BY <1>1, <1>2 DEF Types, StoreInv, ServerInv, CycleInv
<1>4. GhostInv'
  BY <1>1, <1>2 DEF Types, GhostInv
<1> QED BY <1>3, <1>4 DEF Types

\* Of the favourites of a station one stays, with a version one of them has.
LEMMA CollapsedFacts ==
  ASSUME NEW p \in LiveVersions, NEW firsts \in SUBSET (Live(p) \cap Favourites)
  PROVE  /\ Collapsed(p, firsts) \in LiveVersions
         /\ Live(Collapsed(p, firsts)) \cap Favourites \in SUBSET (Live(p) \cap Favourites)
<1>1. \A r \in Records : p[r] \in LiveStamps /\ p[r] \in Nat
  BY DEF LiveVersions, LiveStamps
<1>2. ASSUME NEW r \in firsts
      PROVE  Max({p[x] : x \in SameStation(r)}) \in LiveStamps
  <2> DEFINE same == SameStation(r)
             T == {p[x] : x \in same}
  <2>1. same \in SUBSET Records /\ r \in same
    BY SyncAssumption DEF SameStation, Favourites
  <2> HIDE DEF same
  <2>2. T \subseteq Nat /\ T \subseteq LiveStamps /\ T # {}
    BY <1>1, <2>1
  <2>3. IsFiniteSet(same)
    BY <2>1, Finite
  <2>4. IsFiniteSet(T)
    <3> DEFINE f == [x \in same |-> p[x]]
    <3>1. f \in Surjection(same, T)
      BY DEF Surjection
    <3> QED BY <2>3, <3>1, FS_Surjection
  <2> HIDE DEF T
  <2>5. Max(T) \in LiveStamps
    BY <2>2, <2>4, Largest
  <2> QED BY <2>5 DEF T, same
<1> DEFINE q == Collapsed(p, firsts)
<1>3. q = [r \in Records |-> IF r \in firsts THEN Max({p[x] : x \in SameStation(r)})
                             ELSE IF r \in Favourites THEN 0 ELSE p[r]]
  BY DEF Collapsed
<1> HIDE DEF q
<1>4. q \in LiveVersions
  <2>1. ASSUME NEW r \in Records PROVE q[r] \in LiveStamps
    BY <1>1, <1>2, <1>3, Numbers
  <2> QED BY <1>3, <2>1 DEF LiveVersions
<1>5. \A r \in Records : r \in Favourites /\ r \notin firsts => q[r] = 0
  BY <1>3
<1>6. Live(q) \cap Favourites \subseteq firsts
  BY <1>5 DEF Live
<1> QED BY <1>4, <1>6 DEF q

LEMMA RestartTypes ==
  ASSUME Types, Restart
  PROVE  Types'
<1>1. /\ file # NoFile /\ sync' = saved /\ file' = profile'
      /\ cycle' = Idle /\ touched' = {}
      /\ removed' = removed \cup (Live(file) \ Live(profile'))
      /\ UNCHANGED <<account, server, localEdits, remoteEdits, born, overtaken, evicted>>
      /\ UNCHANGED <<saved, resetLost>>
  BY DEF Restart, Process
<1>2. PICK firsts \in SUBSET (Live(file) \cap Favourites), cutoff \in Cutoffs(file) :
         profile' = Retained(Collapsed(file, firsts), cutoff)
  BY DEF Restart
<1>3. file \in LiveVersions /\ WithinCaps(file)
  BY <1>1 DEF Types, StoreInv
<1> DEFINE q == Collapsed(file, firsts)
<1>4. q \in LiveVersions /\ Live(q) \cap Favourites \in SUBSET (Live(file) \cap Favourites)
  BY <1>3, CollapsedFacts
<1> HIDE DEF q
<1>5. Cardinality(Live(q) \cap Favourites) <= MAX_FAVOURITES
  <2>1. IsFiniteSet(Live(file) \cap Favourites)
    BY Finite DEF Live
  <2> QED BY <1>3, <1>4, <2>1, PartFits, Numbers DEF WithinCaps
<1>6. profile' \in LiveVersions /\ WithinCaps(profile')
  <2>1. Retained(q, cutoff) \in LiveVersions /\ WithinCaps(Retained(q, cutoff))
    BY <1>4, <1>5, RetainedFacts
  <2>2. profile' = Retained(q, cutoff)
    BY <1>2 DEF q
  <2> QED BY <2>1, <2>2
<1>7. StoreInv'
  BY <1>1, <1>6 DEF Types, StoreInv
<1>8. removed' \subseteq Records
  BY <1>1 DEF Types, GhostInv, Live
<1>9. ServerInv' /\ GhostInv'
  BY <1>1, <1>8 DEF Types, ServerInv, GhostInv
<1> QED BY <1>1, <1>7, <1>9, IdleTypes DEF Types

LEMMA RestartFreshTypes ==
  ASSUME Types, RestartFresh
  PROVE  Types'
<1>1. /\ profile' = Blank /\ file' = NoFile /\ Reset
      /\ cycle' = Idle /\ touched' = {}
      /\ UNCHANGED <<account, server, localEdits, remoteEdits, born, overtaken, evicted, removed>>
  BY DEF RestartFresh, Process
<1>2. sync' \in LiveStates /\ saved' \in LiveStates /\ resetLost' \in BOOLEAN
  BY <1>1, ResetFacts
<1>3. profile' \in LiveVersions /\ WithinCaps(profile')
  BY <1>1, Numbers
<1>4. StoreInv'
  BY <1>1, <1>2, <1>3 DEF Types, StoreInv
<1>5. ServerInv' /\ GhostInv'
  BY <1>1, <1>2 DEF Types, ServerInv, GhostInv
<1> QED BY <1>1, <1>4, <1>5, IdleTypes DEF Types

LEMMA InitTypes == Init => Types
<1> SUFFICES ASSUME Init PROVE Types
  OBVIOUS
<1>1. /\ profile = Blank /\ file = NoFile /\ sync = Fresh /\ saved = Fresh
      /\ account = CHOOSE a \in Accounts : TRUE
      /\ server = [a \in Accounts |-> [r \in Records |-> Nothing]]
      /\ cycle = Idle /\ localEdits = 0
      /\ born = {} /\ touched = {} /\ overtaken = {} /\ evicted = {} /\ removed = {}
      /\ resetLost = FALSE
  BY DEF Init
<1>2. StoreInv
  BY <1>1, Numbers DEF StoreInv
<1>3. Nothing \in LiveHeld
  BY SyncAssumption DEF Nothing, LiveHeld, Held, Stamps
<1>4. account \in Accounts
  <2>1. \E a \in Accounts : TRUE
    BY Numbers
  <2> QED BY <1>1, <2>1
<1>5. ServerInv
  BY <1>1, <1>3, <1>4 DEF ServerInv, LiveRecords
<1>6. CycleInv
  BY <1>1, IdleFacts DEF CycleInv
<1>7. GhostInv
  BY <1>1 DEF GhostInv
<1> QED BY <1>2, <1>5, <1>6, <1>7 DEF Types

LEMMA TypesStep ==
  ASSUME Types, [Next]_vars
  PROVE  Types'
<1>1. CASE UNCHANGED vars
  <2>1. StoreInv' /\ ServerInv' /\ CycleInv' /\ GhostInv'
    BY <1>1 DEF Types, StoreInv, ServerInv, CycleInv, GhostInv, vars, store, counts, ghosts
  <2> QED BY <2>1 DEF Types
<1>2. ASSUME NEW s \in Stations, AddFavourite(s) \/ RemoveFavourite(s) PROVE Types'
  BY <1>2, AddFavouriteTypes, RemoveFavouriteTypes
<1>3. CASE NewEntry \/ ClearHistory
  BY <1>3, NewEntryTypes, ClearHistoryTypes
<1>4. ASSUME NEW r \in Records, Continue(r) PROVE Types'
  BY <1>4, ContinueTypes
<1>5. ASSUME NEW rs \in Stations \cup {History}, RemoteAdd(rs) PROVE Types'
  BY <1>5, RemoteAddFacts, RemoteTypes
<1>6. ASSUME NEW r \in Records, RemoteEdit(r) PROVE Types'
  BY <1>6, RemoteTypes DEF RemoteEdit
<1>7. CASE Start
  BY <1>7, StartTypes
<1>8. CASE Deliver
  BY <1>8, DeliverTypes
<1>9. CASE Renew
  BY <1>9, RenewTypes
<1>10. CASE Fail
  BY <1>10, FailTypes
<1>11. CASE HandleFailure
  BY <1>11, HandleFailureTypes
<1>12. CASE Apply
  BY <1>12, ApplyTypes
<1>13. CASE ApplyFails
  BY <1>13, ApplyFailsTypes
<1>14. ASSUME NEW a \in Accounts, Pair(a) PROVE Types'
  BY <1>14, PairTypes
<1>15. CASE Restart
  BY <1>15, RestartTypes
<1>16. CASE RestartFresh
  BY <1>16, RestartFreshTypes
<1> QED
  BY <1>1, <1>2, <1>3, <1>4, <1>5, <1>6, <1>7, <1>8, <1>9, <1>10, <1>11, <1>12, <1>13,
     <1>14, <1>15, <1>16, Zenon DEF Next

-----------------------------------------------------------------------------
(***************************************************************************)
(* The base and the course of a cycle.                                     *)
(***************************************************************************)

LEMMA TrueOfLater ==
  ASSUME NEW s \in LiveStates, NEW held \in LiveRecords, NEW later \in LiveRecords,
         Newer(held, later), NEW ot, NEW ev, NEW ot2, NEW ev2, ot \subseteq ot2, ev \subseteq ev2,
         TrueOf(s, held, ot, ev)
  PROVE  TrueOf(s, later, ot2, ev2)
<1> SUFFICES ASSUME NEW r \in Records \ ot2
             PROVE  /\ s.base[r] <= later[r].at
                    /\ s.cursor <= Newest(later)
                    /\ r \notin ev2 /\ later[r].rev <= s.cursor => s.base[r] = Said(later[r])
  BY DEF TrueOf
<1>1. /\ s.base[r] <= held[r].at
      /\ s.cursor <= Newest(held)
      /\ r \notin ev /\ held[r].rev <= s.cursor => s.base[r] = Said(held[r])
  BY DEF TrueOf
<1>2. s.base[r] \in Nat /\ s.cursor \in Nat
  BY DEF LiveStates, LiveVersions, LiveStamps
<1>3. /\ held[r].at \in Nat /\ later[r].at \in Nat /\ held[r].rev \in Nat /\ later[r].rev \in Nat
      /\ Newest(held) \in Nat /\ Newest(later) \in Nat
  BY HeldFacts
<1>4. Newest(held) <= Newest(later)
  BY NewerGrows
<1>5. /\ later[r].at >= held[r].at
      /\ later[r] # held[r] => later[r].rev > Newest(held)
  BY DEF Newer
<1>6. s.base[r] <= later[r].at /\ s.cursor <= Newest(later)
  BY <1>1, <1>2, <1>3, <1>4, <1>5
<1>7. ASSUME r \notin ev2, later[r].rev <= s.cursor PROVE s.base[r] = Said(later[r])
  <2>1. later[r] = held[r]
    BY <1>1, <1>2, <1>3, <1>5, <1>7
  <2> QED BY <1>1, <1>7, <2>1
<1> QED BY <1>6, <1>7

LEMMA FreshTrue ==
  ASSUME NEW held \in LiveRecords, NEW ot, NEW ev
  PROVE  TrueOf(Fresh, held, ot, ev)
<1> SUFFICES ASSUME NEW r \in Records
             PROVE  /\ Fresh.base[r] <= held[r].at
                    /\ Fresh.cursor <= Newest(held)
                    /\ held[r].rev <= Fresh.cursor => Fresh.base[r] = Said(held[r])
  BY DEF TrueOf
<1>1. Fresh.base[r] = 0 /\ Fresh.cursor = 0
  BY DEF Fresh, Blank
<1>2. /\ held[r].at \in Nat /\ held[r].rev \in Nat /\ Newest(held) \in Nat
      /\ held[r].at = 0 <=> held[r].rev = 0
      /\ held[r].at = 0 => ~held[r].deleted
  BY HeldFacts
<1> QED BY <1>1, <1>2 DEF Said

\* Writes of others, and edits of other records, take a cycle off no course.
LEMMA OnCourseLater ==
  ASSUME NEW c \in Cycles, NEW s, NEW p \in LiveVersions, NEW p2 \in LiveVersions,
         NEW held \in LiveRecords, NEW later \in LiveRecords, Newer(held, later),
         NEW ev, NEW r \in Records, p2[r] = p[r], OnCourse(c, s, p, held, ev, r)
  PROVE  OnCourse(c, s, p2, later, ev, r)
<1>1. c.rev \in Nat /\ c.got \in Seq(SUBSET LiveChange) /\ Len(c.got) \in Nat
  BY DEF Cycles
<1>2. /\ held[r].at \in Nat /\ later[r].at \in Nat /\ held[r].rev \in Nat /\ later[r].rev \in Nat
      /\ Newest(held) \in Nat /\ Newest(later) \in Nat
  BY HeldFacts
<1>3. Newest(held) <= Newest(later)
  BY NewerGrows
<1>4. /\ later[r].at >= held[r].at
      /\ later[r] # held[r] => later[r].rev > Newest(held)
  BY DEF Newer
<1> DEFINE m == MergeAll(p, c.got)[r]
<1>5. MergeAll(p2, c.got)[r] = m
  BY <1>1, SameMerge
<1>6. p[r] \in Nat /\ m \in Nat
  <2>1. MergeAll(p, c.got) \in LiveVersions
    BY <1>1, MergeAllType
  <2> QED BY <2>1 DEF LiveVersions, LiveStamps
<1> DEFINE untold == Untold(c.todo, r, p[r])
<1>7. /\ c.rev <= Newest(held)
      /\ c.got = <<>> => c.since = s.cursor /\ (p[r] = s.base[r] \/ untold)
      /\ p[r] <= held[r].at \/ untold
      /\ m <= p[r] \/ m <= held[r].at
      /\ c.got # <<>> /\ r \notin ev /\ held[r].rev <= c.rev => m = Said(held[r]) \/ untold
  BY DEF OnCourse
<1> HIDE DEF m, untold
<1>8. c.rev <= Newest(later)
  BY <1>1, <1>2, <1>3, <1>7
<1>9. p[r] <= later[r].at \/ untold
  <2>1. p[r] <= held[r].at => p[r] <= later[r].at
    BY <1>2, <1>4, <1>6
  <2> QED BY <1>7, <2>1
<1>10. m <= p[r] \/ m <= later[r].at
  BY <1>2, <1>4, <1>6, <1>7
<1>11. ASSUME c.got # <<>>, r \notin ev, later[r].rev <= c.rev
       PROVE  m = Said(later[r]) \/ untold
  <2>1. later[r] = held[r]
    BY <1>1, <1>2, <1>4, <1>7, <1>11
  <2>2. held[r].rev <= c.rev
    BY <1>11, <2>1
  <2> QED BY <1>7, <1>11, <2>1, <2>2
<1>12. /\ MergeAll(p2, c.got)[r] = m /\ Untold(c.todo, r, p2[r]) = untold
  BY <1>5 DEF untold
<1> QED BY <1>7, <1>8, <1>9, <1>10, <1>11, <1>12 DEF OnCourse

LEMMA TrackedLater ==
  ASSUME NEW c \in Cycles, NEW s, NEW p \in LiveVersions, NEW p2 \in LiveVersions, NEW a,
         NEW held \in LiveRecords, NEW later \in LiveRecords, Newer(held, later),
         NEW ot, NEW ev, NEW tc, NEW tc2, tc \subseteq tc2,
         \A r \in Records \ tc2 : p2[r] = p[r],
         Tracked(c, s, p, a, held, ot, ev, tc)
  PROVE  Tracked(c, s, p2, a, later, ot, ev, tc2)
<1> SUFFICES ASSUME c.stage \in {"sending", "done"}, NEW r \in Records \ (tc2 \cup ot)
             PROVE  c.account = a /\ OnCourse(c, s, p2, later, ev, r)
  BY DEF Tracked
<1>1. c.account = a /\ OnCourse(c, s, p, held, ev, r)
  BY DEF Tracked
<1>2. r \in Records /\ p2[r] = p[r]
  OBVIOUS
<1> QED BY <1>1, <1>2, OnCourseLater

\* A cycle starts on course.
LEMMA StartOnCourse ==
  ASSUME NEW c \in Cycles, NEW s \in LiveStates, NEW p \in LiveVersions, NEW held \in LiveRecords,
         NEW ev, NEW ot, NEW r \in Records \ ot, TrueOf(s, held, ot, ev),
         c.rev = 0, c.got = <<>>, c.since = s.cursor,
         p[r] # s.base[r] => Untold(c.todo, r, p[r])
  PROVE  OnCourse(c, s, p, held, ev, r)
<1>1. MergeAll(p, c.got)[r] = p[r]
  BY MergeNone
<1>2. Newest(held) \in Nat /\ held[r].at \in Nat
  BY HeldFacts
<1>3. s.base[r] <= held[r].at
  BY DEF TrueOf
<1>4. p[r] \in Nat
  BY DEF LiveVersions, LiveStamps
<1>5. p[r] <= held[r].at \/ Untold(c.todo, r, p[r])
  <2>1. CASE p[r] = s.base[r]
    BY <1>3, <2>1
  <2>2. CASE p[r] # s.base[r]
    BY <2>2
  <2> QED BY <2>1, <2>2
<1>6. c.rev <= Newest(held)
  BY <1>2
<1>7. MergeAll(p, c.got)[r] <= p[r]
  BY <1>1, <1>4
<1>8. p[r] = s.base[r] \/ Untold(c.todo, r, p[r])
  OBVIOUS
<1> QED BY <1>5, <1>6, <1>7, <1>8, Zenon DEF OnCourse

\* A change still to be pushed is in the first request or in a later one.
LEMMA UntoldNext ==
  ASSUME Types, cycle.stage = "sending", NEW r \in Records, NEW at, Untold(cycle.todo, r, at)
  PROVE  \/ Untold(Tail(cycle.todo), r, at)
         \/ \E c \in Head(cycle.todo) : c.id = r /\ c.at >= at
<1>1. PICK i \in DOMAIN cycle.todo : \E c \in cycle.todo[i] : c.id = r /\ c.at >= at
  BY DEF Untold
<1>2. CASE i = 1
  BY <1>1, <1>2, StoreStep
<1>3. CASE i # 1
  <2>1. i - 1 \in DOMAIN Tail(cycle.todo) /\ Tail(cycle.todo)[i - 1] = cycle.todo[i]
    BY <1>3, StoreStep
  <2> QED BY <1>1, <2>1 DEF Untold
<1> QED BY <1>2, <1>3

\* A delivered request keeps a cycle on course.
LEMMA DeliverOnCourse ==
  ASSUME Types, Deliver, NEW r \in Records \ overtaken, cycle.account = account,
         TrueOf(sync, server[account], overtaken, evicted),
         OnCourse(cycle, sync, profile, server[account], evicted, r)
  PROVE  OnCourse(cycle', sync, profile, server'[account], evicted, r)
<1> DEFINE request == Head(cycle.todo)
           held == Stored(cycle.account, request)
           old == server[account]
           answer == Answer(held, request, Since)
           m == MergeAll(profile, cycle.got)[r]
           told == \E c \in request : c.id = r
           before == Untold(cycle.todo, r, profile[r])
           after == Untold(Tail(cycle.todo), r, profile[r])
           next == MergeAll(profile, cycle'.got)[r]
<1>0. cycle.stage = "sending"
  BY DEF Deliver
<1>1. /\ held \in LiveRecords /\ request \in Pushes /\ Since \in Nat
      /\ server'[cycle.account] = held
      /\ cycle'.since = cycle.since /\ cycle'.todo = Tail(cycle.todo)
      /\ cycle'.got = Append(cycle.got, answer)
      /\ cycle.got \in Seq(SUBSET LiveChange) /\ answer \in SUBSET LiveChange
      /\ cycle'.rev \in Nat /\ cycle'.rev <= Newest(held) /\ cycle'.got # <<>>
  BY DeliverFacts
<1>2. /\ old \in LiveRecords /\ profile \in LiveVersions /\ sync \in LiveStates
      /\ account \in Accounts /\ server \in [Accounts -> LiveRecords]
  BY DEF Types, ServerInv, StoreInv
<1>3. /\ \A x \in Records : held[x].at >= old[x].at
      /\ held[r] # old[r] => told
      /\ \A c \in request : held[c.id].at >= c.at
  <2>1. server[cycle.account] = old
    OBVIOUS
  <2> QED BY <1>1, <1>2, <2>1, StoredFacts
<1>4. /\ held[r].at \in Nat /\ old[r].at \in Nat /\ held[r].rev \in Nat
      /\ held[r].at = 0 <=> held[r].rev = 0
      /\ held[r].at = 0 => ~held[r].deleted
  BY <1>1, <1>2, HeldFacts
<1>5. held[r].at >= old[r].at
  BY <1>3
<1>6. profile[r] \in Nat /\ m \in Nat
  <2>1. MergeAll(profile, cycle.got) \in LiveVersions
    BY <1>1, <1>2, MergeAllType
  <2> QED BY <1>2, <2>1 DEF LiveVersions, LiveStamps
<1>7. before => after \/ (told /\ profile[r] <= held[r].at)
  <2> SUFFICES ASSUME before, ~after PROVE told /\ profile[r] <= held[r].at
    OBVIOUS
  <2>1. PICK c \in request : c.id = r /\ c.at >= profile[r]
    BY <1>0, UntoldNext
  <2>2. c.at \in Nat
    BY <1>1 DEF Pushes, LiveChange, Change, Stamps
  <2>3. held[r].at >= c.at
    BY <1>3, <2>1
  <2>4. profile[r] <= held[r].at
    BY <1>4, <1>6, <2>1, <2>2, <2>3
  <2> QED BY <2>1, <2>4
<1>8. /\ cycle.got = <<>> => cycle.since = sync.cursor /\ (profile[r] = sync.base[r] \/ before)
      /\ profile[r] <= old[r].at \/ before
      /\ m <= profile[r] \/ m <= old[r].at
  BY DEF OnCourse
<1>9. r \notin evicted /\ old[r].rev <= sync.cursor => sync.base[r] = Said(old[r])
  BY DEF TrueOf
<1>10. next = Outcome(m, answer, r)
  BY <1>1, MergeAppend
<1>11. \/ /\ held[r].at = 0 \/ (held[r].rev <= Since /\ ~told)
          /\ next = m
       \/ /\ held[r].at # 0
          /\ next = IF held[r].deleted THEN 0 ELSE IF held[r].at > m THEN held[r].at ELSE m
  BY <1>1, <1>10, AnswerFacts
<1>12. cycle.got = <<>> => m = profile[r]
  BY MergeNone
<1>13. Since = IF cycle.got = <<>> THEN cycle.since ELSE 0
  BY DEF Since
<1> HIDE DEF request, held, old, answer, m, told, before, after, next
<1>14. profile[r] <= held[r].at \/ after
  <2>1. profile[r] <= old[r].at => profile[r] <= held[r].at
    BY <1>4, <1>5, <1>6
  <2> QED BY <1>7, <1>8, <2>1, Zenon
<1>15. m <= profile[r] \/ m <= held[r].at
  <2>1. m <= old[r].at => m <= held[r].at
    BY <1>4, <1>5, <1>6
  <2> QED BY <1>8, <2>1, Zenon
<1>16. next <= profile[r] \/ next <= held[r].at
  BY <1>4, <1>6, <1>11, <1>15
<1>17. ASSUME held[r].at < m PROVE after
  <2>1. ~(m <= held[r].at)
    BY <1>4, <1>6, <1>17
  <2>2. m <= profile[r]
    BY <1>15, <2>1, Zenon
  <2>3. ~(profile[r] <= held[r].at)
    BY <1>4, <1>6, <1>17, <2>2
  <2> QED BY <1>14, <2>3, Zenon
<1>18. ASSUME r \notin evicted PROVE next = Said(held[r]) \/ after
  <2>1. CASE held[r].at # 0
             /\ next = IF held[r].deleted THEN 0 ELSE IF held[r].at > m THEN held[r].at ELSE m
    <3>1. CASE held[r].deleted \/ held[r].at > m \/ held[r].at = m
      <4>1. held[r].deleted => next = Said(held[r])
        BY <2>1 DEF Said
      <4>2. ASSUME ~held[r].deleted, held[r].at > m \/ held[r].at = m PROVE next = Said(held[r])
        BY <1>4, <1>6, <2>1, <4>2 DEF Said
      <4> QED BY <3>1, <4>1, <4>2
    <3>2. CASE held[r].at < m
      BY <1>17, <3>2
    <3>3. held[r].at > m \/ held[r].at = m \/ held[r].at < m
      BY <1>4, <1>6
    <3> QED BY <3>1, <3>2, <3>3
  <2>2. CASE held[r].at = 0 /\ next = m
    <3>1. Said(held[r]) = 0
      BY <1>4, <2>2 DEF Said
    <3>2. CASE m = 0
      BY <2>2, <3>1, <3>2
    <3>3. CASE m # 0
      <4>1. held[r].at < m
        BY <1>6, <2>2, <3>3
      <4> QED BY <1>17, <4>1
    <3> QED BY <3>2, <3>3
  <2>3. CASE held[r].at # 0 /\ held[r].rev <= Since /\ ~told /\ next = m
    <3>1. cycle.got = <<>>
      <4>1. held[r].rev # 0
        BY <1>4, <2>3
      <4>2. Since # 0
        BY <1>4, <2>3, <4>1
      <4> QED BY <1>13, <4>2
    <3>2. Since = sync.cursor /\ m = profile[r] /\ (profile[r] = sync.base[r] \/ before)
      BY <1>8, <1>12, <1>13, <3>1, Zenon
    <3>3. held[r] = old[r]
      BY <1>3, <2>3, Zenon
    <3>4. sync.base[r] = Said(held[r])
      BY <1>9, <1>18, <2>3, <3>2, <3>3
    <3>5. CASE profile[r] = sync.base[r]
      BY <2>3, <3>2, <3>4, <3>5
    <3>6. CASE before
      BY <1>7, <2>3, <3>6, Zenon
    <3> QED BY <3>2, <3>5, <3>6, Zenon
  <2> QED BY <1>11, <2>1, <2>2, <2>3, Zenon
<1>19. /\ Untold(cycle'.todo, r, profile[r]) = after
       /\ MergeAll(profile, cycle'.got)[r] = next /\ server'[account] = held
  BY <1>1 DEF after, next
<1> QED BY <1>1, <1>14, <1>16, <1>18, <1>19, Zenon DEF OnCourse

LEMMA HeldNow ==
  ASSUME Types
  PROVE  /\ server[account] \in LiveRecords /\ Newer(server[account], server[account])
         /\ sync \in LiveStates /\ saved \in LiveStates /\ profile \in LiveVersions
         /\ cycle \in Cycles /\ account \in Accounts
<1>1. server[account] \in LiveRecords
  BY DEF Types, ServerInv
<1> QED BY <1>1, HeldFacts DEF Types, StoreInv, CycleInv, ServerInv

\* An account that others write to stays what the base says of it.
LEMMA StaysTrue ==
  ASSUME Types, TrueNow, Types', Newer(server[account], server'[account]),
         UNCHANGED <<sync, saved, account, overtaken, evicted>>
  PROVE  TrueNow'
<1>1. server'[account] \in LiveRecords
  BY DEF Types, ServerInv
<1>2. /\ TrueOf(sync, server'[account], overtaken, evicted)
      /\ TrueOf(saved, server'[account], overtaken, evicted)
  BY <1>1, HeldNow, TrueOfLater DEF TrueNow
<1> QED BY <1>2 DEF TrueNow

\* And so does the course of a cycle, when others write and the user edits.
LEMMA StaysOnTrack ==
  ASSUME Types, OnTrack, Types', Newer(server[account], server'[account]),
         UNCHANGED <<sync, account, cycle, overtaken, evicted>>,
         touched \subseteq touched', \A r \in Records \ touched' : profile'[r] = profile[r]
  PROVE  OnTrack'
<1>1. server'[account] \in LiveRecords /\ profile' \in LiveVersions
  BY DEF Types, ServerInv, StoreInv
<1> DEFINE tc == touched'
           p == profile'
           held == server'[account]
<1>2. Tracked(cycle, sync, p, account, held, overtaken, evicted, tc)
  <2>1. held \in LiveRecords /\ p \in LiveVersions /\ Newer(server[account], held)
        /\ touched \subseteq tc /\ \A r \in Records \ tc : p[r] = profile[r]
    BY <1>1
  <2> HIDE DEF tc, p, held
  <2> QED BY <2>1, HeldNow, TrackedLater DEF OnTrack
<1> QED BY <1>2 DEF OnTrack

LEMMA NotTracked ==
  ASSUME cycle'.stage \notin {"sending", "done"} \/ Records \subseteq touched' \cup overtaken'
  PROVE  OnTrack'
  BY DEF OnTrack, Tracked

\* An edit leaves the records it does not touch alone.
LEMMA EditStays ==
  ASSUME Types, Types', TrueNow, OnTrack, NEW p, Edit(p)
  PROVE  TrueNow' /\ OnTrack' /\ resetLost' = resetLost
<1>1. /\ touched' = IF Running THEN touched \cup {r \in Records : profile'[r] # profile[r]} ELSE {}
      /\ UNCHANGED <<sync, saved, account, server, cycle, overtaken, evicted, resetLost>>
  BY DEF Edit
<1>2. Newer(server[account], server'[account])
  BY <1>1, HeldNow
<1>3. TrueNow'
  BY <1>1, <1>2, StaysTrue
<1>4. CASE Running
  <2>1. touched \subseteq touched' /\ \A r \in Records \ touched' : profile'[r] = profile[r]
    BY <1>1, <1>4
  <2> QED BY <1>1, <1>2, <1>3, <2>1, StaysOnTrack
<1>5. CASE ~Running
  <2>1. cycle'.stage \notin {"sending", "done"}
    BY <1>1, <1>5 DEF Running
  <2> QED BY <1>1, <1>3, <2>1, NotTracked
<1> QED BY <1>4, <1>5

\* Everything the user does is an edit.
UserActs == \/ \E s \in Stations : AddFavourite(s) \/ RemoveFavourite(s)
            \/ NewEntry \/ ClearHistory
            \/ \E r \in Records : Continue(r)

LEMMA UserEdits ==
  ASSUME UserActs
  PROVE  \E p : Edit(p)
<1>1. ASSUME NEW s \in Stations, AddFavourite(s) PROVE \E p : Edit(p)
  BY <1>1 DEF AddFavourite
<1>2. ASSUME NEW s \in Stations, RemoveFavourite(s) PROVE \E p : Edit(p)
  BY <1>2 DEF RemoveFavourite
<1>3. CASE NewEntry
  BY <1>3 DEF NewEntry
<1>4. CASE ClearHistory
  BY <1>4 DEF ClearHistory
<1>5. ASSUME NEW r \in Records, Continue(r) PROVE \E p : Edit(p)
  BY <1>5 DEF Continue
<1> QED BY <1>1, <1>2, <1>3, <1>4, <1>5 DEF UserActs

LEMMA RemoteStays ==
  ASSUME Types, Types', TrueNow, OnTrack,
         NEW r \in Records, NEW at \in Stamps, NEW gone \in BOOLEAN, Remote(r, at, gone)
  PROVE  TrueNow' /\ OnTrack' /\ resetLost' = resetLost
<1>1. UNCHANGED <<store, account, cycle, touched, overtaken, evicted, resetLost>>
  BY DEF Remote
<1>2. Newer(server[account], server'[account])
  BY RemoteWrites
<1>3. UNCHANGED <<sync, saved, profile>>
  BY <1>1 DEF store
<1>4. TrueNow'
  BY <1>1, <1>2, <1>3, StaysTrue
<1>5. touched \subseteq touched' /\ \A x \in Records \ touched' : profile'[x] = profile[x]
  BY <1>1, <1>3
<1>6. OnTrack'
  BY <1>1, <1>2, <1>3, <1>5, StaysOnTrack
<1> QED BY <1>1, <1>4, <1>6

LEMMA StartStays ==
  ASSUME Types, Types', TrueNow, Start
  PROVE  TrueNow' /\ OnTrack' /\ resetLost' = resetLost
<1>1. PICK us \in SetToSeqs(Upserts), ds \in SetToSeqs(Deletes) :
         cycle' = [Idle EXCEPT !.stage = "sending", !.account = account,
                               !.todo = Requests(us, ds), !.since = sync.cursor]
  BY DEF Start
<1>2. /\ touched' = {}
      /\ UNCHANGED <<store, account, server, counts, born, overtaken, evicted, removed, resetLost>>
  BY DEF Start
<1>3. profile \in LiveVersions /\ sync.base \in LiveVersions /\ localEdits \in 0..MaxLocal
  BY DEF Types, StoreInv, LiveStates
<1>4. \A r \in Records : profile[r] # sync.base[r] => Untold(Requests(us, ds), r, profile[r])
  BY <1>3, RequestsFacts
<1> DEFINE q == Requests(us, ds)
<1> HIDE DEF q
<1>5. cycle' = [stage |-> "sending", account |-> account, todo |-> q,
                since |-> sync.cursor, got |-> <<>>, rev |-> 0]
  BY <1>1 DEF Idle, q
<1>6. /\ cycle'.account = account /\ cycle'.todo = q /\ cycle'.since = sync.cursor
      /\ cycle'.got = <<>> /\ cycle'.rev = 0
  BY <1>5
<1>7. UNCHANGED <<sync, saved, profile>>
  BY <1>2 DEF store
<1>8. Newer(server[account], server'[account])
  BY <1>2, HeldNow
<1>9. TrueNow'
  BY <1>2, <1>7, <1>8, StaysTrue
<1>10. cycle' \in Cycles
  BY DEF Types, CycleInv
<1>11. ASSUME NEW r \in Records \ overtaken
       PROVE  OnCourse(cycle', sync, profile, server[account], evicted, r)
  <2>1. TrueOf(sync, server[account], overtaken, evicted)
    BY DEF TrueNow
  <2>2. profile[r] # sync.base[r] => Untold(cycle'.todo, r, profile[r])
    BY <1>4, <1>6 DEF q
  <2> DEFINE c == cycle'
  <2>3. /\ c \in Cycles /\ c.rev = 0 /\ c.got = <<>> /\ c.since = sync.cursor
        /\ profile[r] # sync.base[r] => Untold(c.todo, r, profile[r])
    BY <1>6, <1>10, <2>2
  <2> HIDE DEF c
  <2>4. OnCourse(c, sync, profile, server[account], evicted, r)
    BY <2>1, <2>3, HeldNow, StartOnCourse
  <2> QED BY <2>4 DEF c
<1>12. Tracked(cycle', sync, profile, account, server[account], overtaken, evicted, touched')
  BY <1>6, <1>11 DEF Tracked
<1>13. OnTrack'
  BY <1>2, <1>7, <1>12 DEF OnTrack
<1> QED BY <1>2, <1>9, <1>13

LEMMA DeliverStays ==
  ASSUME Types, Types', TrueNow, OnTrack, Deliver
  PROVE  TrueNow' /\ OnTrack' /\ resetLost' = resetLost
<1> DEFINE request == Head(cycle.todo)
           held == Stored(cycle.account, request)
<1>1. cycle.stage = "sending" /\ UNCHANGED <<store, account, counts, ghosts>>
  BY DEF Deliver
<1>2. /\ server'[cycle.account] = held
      /\ \A a \in Accounts : a # cycle.account => server'[a] = server[a]
      /\ cycle'.account = cycle.account
  BY DeliverFacts
<1>3. Newer(server[cycle.account], held)
  BY <1>1, StoreStep
<1>4. Newer(server[account], server'[account])
  <2>1. CASE cycle.account = account
    BY <1>2, <1>3, <2>1
  <2>2. CASE cycle.account # account
    BY <1>2, <2>2, HeldNow
  <2> QED BY <2>1, <2>2
<1>5. UNCHANGED <<sync, saved, profile, account, overtaken, evicted, touched, resetLost>>
  BY <1>1 DEF store, ghosts
<1>6. TrueNow'
  BY <1>4, <1>5, StaysTrue
<1>7. ASSUME NEW r \in Records \ (touched \cup overtaken)
      PROVE  cycle'.account = account /\ OnCourse(cycle', sync, profile, server'[account], evicted, r)
  <2>1. cycle.account = account /\ OnCourse(cycle, sync, profile, server[account], evicted, r)
    BY <1>1 DEF OnTrack, Tracked
  <2>2. OnCourse(cycle', sync, profile, server'[account], evicted, r)
    BY <2>1, DeliverOnCourse DEF TrueNow
  <2> QED BY <1>2, <2>1, <2>2
<1>8. Tracked(cycle', sync, profile, account, server'[account], overtaken, evicted, touched)
  BY <1>7, Zenon DEF Tracked
<1>9. OnTrack'
  BY <1>5, <1>8 DEF OnTrack
<1> QED BY <1>5, <1>6, <1>9

LEMMA RenewStays ==
  ASSUME Types, Types', TrueNow, OnTrack, Renew
  PROVE  TrueNow' /\ OnTrack' /\ resetLost' = resetLost
<1>1. /\ cycle.stage = "sending" /\ cycle.account # account
      /\ UNCHANGED <<store, account, server, counts, ghosts>>
  BY DEF Renew
<1>2. UNCHANGED <<sync, saved, profile, account, overtaken, evicted, touched, resetLost>>
  BY <1>1 DEF store, ghosts
<1>3. Newer(server[account], server'[account])
  BY <1>1, HeldNow
<1>4. TrueNow'
  BY <1>2, <1>3, StaysTrue
<1>5. Records \subseteq touched \cup overtaken
  BY <1>1 DEF OnTrack, Tracked
<1>6. OnTrack'
  BY <1>2, <1>5, NotTracked
<1> QED BY <1>2, <1>4, <1>6

LEMMA FailStays ==
  ASSUME Types, Types', TrueNow, Fail
  PROVE  TrueNow' /\ OnTrack' /\ resetLost' = resetLost
<1>1. /\ cycle.stage = "sending" /\ cycle' = [cycle EXCEPT !.stage = "failed"]
      /\ UNCHANGED <<store, account, localEdits, remoteEdits, ghosts>>
      /\ \/ server' = server
         \/ server' = [server EXCEPT ![cycle.account] = Stored(cycle.account, Head(cycle.todo))]
  BY DEF Fail
<1>2. UNCHANGED <<sync, saved, account, overtaken, evicted, resetLost>>
  BY <1>1 DEF store, ghosts
<1>3. cycle.account \in Accounts /\ server \in [Accounts -> LiveRecords] /\ cycle \in Cycles
      /\ account \in Accounts
  BY DEF Types, ServerInv, CycleInv, Cycles
<1>4. Newer(server[cycle.account], Stored(cycle.account, Head(cycle.todo)))
  BY <1>1, StoreStep
<1>5. Newer(server[account], server'[account])
  <2>1. CASE server' = server
    BY <2>1, HeldNow
  <2>2. CASE server' = [server EXCEPT ![cycle.account] = Stored(cycle.account, Head(cycle.todo))]
    <3>1. CASE cycle.account = account
      BY <1>3, <1>4, <2>2, <3>1
    <3>2. CASE cycle.account # account
      <4>1. server'[account] = server[account]
        BY <1>3, <2>2, <3>2
      <4> QED BY <4>1, HeldNow
    <3> QED BY <3>1, <3>2
  <2> QED BY <1>1, <2>1, <2>2
<1>6. TrueNow'
  BY <1>2, <1>5, StaysTrue
<1>7. cycle'.stage = "failed"
  BY <1>1, <1>3 DEF Cycles
<1>8. OnTrack'
  BY <1>7, NotTracked
<1> QED BY <1>2, <1>6, <1>8

LEMMA ApplyStays ==
  ASSUME Types, Types', TrueNow, OnTrack, Apply
  PROVE  TrueNow' /\ OnTrack' /\ resetLost' = resetLost
<1>1. /\ cycle.stage = "done"
      /\ MergeAnswers
      /\ sync' = MatchedTo(profile', cycle.rev) /\ saved' \in {sync', saved}
      /\ overtaken' = overtaken \cup touched /\ evicted' = evicted \cup Dropped
      /\ cycle' = Idle
      /\ UNCHANGED <<account, server, resetLost>>
  BY DEF Apply, NewBase, counts
<1> DEFINE held == server[account]
<1>2. held \in LiveRecords /\ Newer(held, held) /\ saved \in LiveStates
  BY HeldNow
<1>3. \A r \in Records : /\ r \notin Dropped => profile'[r] = Merged[r]
                         /\ r \in Dropped => profile'[r] = 0
  BY <1>1, MergedFacts
<1>4. cycle.todo = <<>> /\ cycle.got # <<>>
  BY <1>1 DEF Types, CycleInv
<1>5. \A r \in Records : Merged[r] \in Nat /\ profile[r] \in Nat /\ held[r].at \in Nat
  BY <1>1, <1>2, MergedFacts, HeldNow, HeldFacts DEF LiveVersions, LiveStamps
<1>6. ASSUME NEW r \in Records \ overtaken'
      PROVE  /\ sync'.base[r] <= held[r].at
             /\ sync'.cursor <= Newest(held)
             /\ r \notin evicted' /\ held[r].rev <= sync'.cursor => sync'.base[r] = Said(held[r])
  <2>1. r \in Records \ (touched \cup overtaken)
    BY <1>1
  <2>2. OnCourse(cycle, sync, profile, held, evicted, r)
    BY <1>1, <2>1 DEF OnTrack, Tracked
  <2>3. ~Untold(cycle.todo, r, profile[r])
    BY <1>4 DEF Untold
  <2>4. /\ cycle.rev <= Newest(held) /\ profile[r] <= held[r].at
        /\ Merged[r] <= profile[r] \/ Merged[r] <= held[r].at
        /\ r \notin evicted /\ held[r].rev <= cycle.rev => Merged[r] = Said(held[r])
    BY <1>4, <2>2, <2>3, Zenon DEF OnCourse, Merged
  <2>5. sync'.base = profile' /\ sync'.cursor = cycle.rev
    BY <1>1 DEF MatchedTo
  <2>6. Merged[r] <= held[r].at
    BY <1>5, <2>4
  <2>7. profile'[r] <= held[r].at
    <3>1. CASE r \in Dropped
      BY <1>3, <1>5, <3>1
    <3>2. CASE r \notin Dropped
      BY <1>3, <2>6, <3>2
    <3> QED BY <3>1, <3>2
  <2>8. ASSUME r \notin evicted', held[r].rev <= cycle.rev PROVE profile'[r] = Said(held[r])
    <3>1. r \notin Dropped /\ r \notin evicted
      BY <1>1, <2>8
    <3> QED BY <1>3, <2>4, <2>8, <3>1
  <2> QED BY <2>4, <2>5, <2>7, <2>8
<1>7. TrueOf(sync', held, overtaken', evicted')
  BY <1>6 DEF TrueOf
<1>8. TrueOf(saved, held, overtaken', evicted')
  <2> DEFINE ot == overtaken'
             ev == evicted'
  <2>1. overtaken \subseteq ot /\ evicted \subseteq ev
    BY <1>1
  <2> HIDE DEF ot, ev
  <2>2. TrueOf(saved, held, ot, ev)
    BY <1>2, <2>1, TrueOfLater DEF TrueNow
  <2> QED BY <2>2 DEF ot, ev
<1>9. TrueOf(saved', held, overtaken', evicted')
  BY <1>1, <1>7, <1>8
<1>10. TrueNow'
  BY <1>1, <1>7, <1>9 DEF TrueNow
<1>11. OnTrack'
  BY <1>1, IdleFacts, NotTracked
<1> QED BY <1>1, <1>10, <1>11

LEMMA EndsStay ==
  ASSUME Types, Types', TrueNow, HandleFailure \/ ApplyFails
  PROVE  TrueNow' /\ OnTrack' /\ resetLost' = resetLost
<1>1. cycle' = Idle /\ UNCHANGED <<sync, saved, account, server, overtaken, evicted, resetLost>>
  BY DEF HandleFailure, ApplyFails, store, ghosts
<1>2. Newer(server[account], server'[account])
  BY <1>1, HeldNow
<1>3. TrueNow'
  BY <1>1, <1>2, StaysTrue
<1> QED BY <1>1, <1>3, IdleFacts, NotTracked

LEMMA RestartStays ==
  ASSUME Types, TrueNow, Restart
  PROVE  TrueNow' /\ OnTrack' /\ resetLost' = resetLost
<1>1. /\ cycle' = Idle /\ sync' = saved
      /\ UNCHANGED <<saved, account, server, overtaken, evicted, resetLost>>
  BY DEF Restart, Process
<1>2. TrueNow'
  BY <1>1 DEF TrueNow
<1> QED BY <1>1, <1>2, IdleFacts, NotTracked

\* After a reset that was saved there is no base that could be wrong.
LEMMA ResetStays ==
  ASSUME Types, Types', Reset, UNCHANGED <<server, overtaken, evicted>>, ~resetLost'
  PROVE  TrueNow'
<1>1. sync' = Fresh /\ saved' = Fresh
  BY ResetFacts
<1>2. server'[account'] \in LiveRecords
  BY DEF Types, ServerInv
<1> DEFINE held == server'[account']
           ot == overtaken'
           ev == evicted'
<1>3. TrueOf(Fresh, held, ot, ev)
  <2> HIDE DEF held, ot, ev
  <2> QED BY <1>2, FreshTrue DEF held
<1> QED BY <1>1, <1>3 DEF TrueNow

LEMMA PairStays ==
  ASSUME Types, Types', NEW a \in Accounts, Pair(a), ~resetLost'
  PROVE  TrueNow' /\ OnTrack'
<1>1. /\ Reset /\ touched' = IF Running THEN Records ELSE {}
      /\ UNCHANGED <<server, cycle, overtaken, evicted>>
  BY DEF Pair
<1>2. TrueNow'
  BY <1>1, ResetStays
<1>3. cycle'.stage \notin {"sending", "done"} \/ Records \subseteq touched' \cup overtaken'
  BY <1>1 DEF Running
<1> QED BY <1>2, <1>3, NotTracked

LEMMA RestartFreshStays ==
  ASSUME Types, Types', RestartFresh, ~resetLost'
  PROVE  TrueNow' /\ OnTrack'
<1>1. Reset /\ cycle' = Idle /\ UNCHANGED <<server, overtaken, evicted>>
  BY DEF RestartFresh, Process
<1>2. TrueNow'
  BY <1>1, ResetStays
<1> QED BY <1>1, <1>2, IdleFacts, NotTracked

LEMMA LostStays ==
  ASSUME Types, resetLost, [Next]_vars
  PROVE  resetLost'
<1>1. CASE UNCHANGED vars
  BY <1>1 DEF vars, ghosts
<1>2. CASE UserActs
  BY <1>2, UserEdits DEF Edit
<1>3. CASE \/ \E rs \in Stations \cup {History} : RemoteAdd(rs)
           \/ \E r \in Records : RemoteEdit(r)
  BY <1>3 DEF RemoteAdd, RemoteEdit, Remote
<1>4. CASE Start \/ Deliver \/ Renew \/ Fail \/ HandleFailure \/ Apply \/ ApplyFails
  BY <1>4 DEF Start, Deliver, Renew, Fail, HandleFailure, Apply, ApplyFails, ghosts
<1>5. CASE (\E a \in Accounts : Pair(a)) \/ Restart \/ RestartFresh
  BY <1>5, ResetFacts DEF Pair, Restart, RestartFresh
<1> QED BY <1>1, <1>2, <1>3, <1>4, <1>5, Zenon DEF Next, UserActs

LEMMA BaseStep ==
  ASSUME Types, Types', BaseInv, [Next]_vars
  PROVE  BaseInv'
<1>0. SUFFICES ASSUME ~resetLost' PROVE TrueNow' /\ OnTrack'
  BY DEF BaseInv
<1>14. TrueNow /\ OnTrack
  BY <1>0, LostStays DEF BaseInv
<1>1. CASE UNCHANGED vars
  BY <1>1, <1>14 DEF vars, store, ghosts, TrueNow, OnTrack
<1>2. CASE UserActs
  BY <1>14, <1>2, UserEdits, EditStays
<1>3. ASSUME NEW rs \in Stations \cup {History}, RemoteAdd(rs) PROVE TrueNow' /\ OnTrack'
  BY <1>14, <1>3, RemoteAddFacts, RemoteStays
<1>4. ASSUME NEW r \in Records, RemoteEdit(r) PROVE TrueNow' /\ OnTrack'
  BY <1>14, <1>4, RemoteStays DEF RemoteEdit
<1>5. CASE Start
  BY <1>14, <1>5, StartStays
<1>6. CASE Deliver
  BY <1>14, <1>6, DeliverStays
<1>7. CASE Renew
  BY <1>14, <1>7, RenewStays
<1>8. CASE Fail
  BY <1>14, <1>8, FailStays
<1>9. CASE Apply
  BY <1>14, <1>9, ApplyStays
<1>10. CASE HandleFailure \/ ApplyFails
  BY <1>14, <1>10, EndsStay
<1>11. ASSUME NEW a \in Accounts, Pair(a) PROVE TrueNow' /\ OnTrack'
  BY <1>0, <1>11, PairStays
<1>12. CASE Restart
  BY <1>14, <1>12, RestartStays
<1>13. CASE RestartFresh
  BY <1>0, <1>13, RestartFreshStays
<1> QED
  BY <1>1, <1>2, <1>3, <1>4, <1>5, <1>6, <1>7, <1>8, <1>9, <1>10, <1>11, <1>12, <1>13,
     Zenon DEF Next, UserActs

-----------------------------------------------------------------------------
(***************************************************************************)
(* Tombstones.                                                             *)
(***************************************************************************)

LEMMA CycleFits ==
  ASSUME PushesFit, AnswersFit, removed \subseteq removed', cycle' = cycle
  PROVE  PushesFit' /\ AnswersFit'
  BY DEF PushesFit, AnswersFit

LEMMA IdleFits ==
  ASSUME cycle' = Idle
  PROVE  PushesFit' /\ AnswersFit'
  BY DEF PushesFit, AnswersFit, Idle

LEMMA ServerStillFits ==
  ASSUME ServerFits, removed \subseteq removed', server' = server
  PROVE  ServerFits'
  BY DEF ServerFits

\* What an edit takes out of the profile was removed or retired.
LEMMA EditFits ==
  ASSUME Fit, NEW p, Edit(p)
  PROVE  Fit'
<1>1. /\ file' = profile' /\ removed' = removed \cup (Live(profile) \ Live(profile'))
      /\ UNCHANGED <<sync, saved, server, cycle>>
  BY DEF Edit
<1>2. \A r \in Records : profile'[r] = 0 => profile[r] = 0 \/ r \in removed'
  BY <1>1 DEF Live
<1>3. removed \subseteq removed'
  BY <1>1
<1>4. BasesFit'
  BY <1>1, <1>2, <1>3 DEF Fit, BasesFit, LackedIsRemoved
<1> QED BY <1>1, <1>3, <1>4, CycleFits, ServerStillFits DEF Fit

\* The store is as it was.
LEMMA BasesStillFit ==
  ASSUME BasesFit, UNCHANGED <<profile, file, sync, saved>>, removed \subseteq removed'
  PROVE  BasesFit'
  BY DEF BasesFit, LackedIsRemoved

LEMMA RemoteFits ==
  ASSUME Types, Fit,
         NEW r \in Records, NEW at \in Stamps, NEW gone \in BOOLEAN, Remote(r, at, gone)
  PROVE  Fit'
<1>1. /\ UNCHANGED <<store, account, cycle>>
      /\ removed' = IF gone THEN removed \cup {r} ELSE removed
  BY DEF Remote
<1>2. removed \subseteq removed' /\ UNCHANGED <<profile, file, sync, saved>>
  BY <1>1 DEF store
<1>3. ServerFits'
  <2> SUFFICES ASSUME NEW a \in Accounts, NEW x \in Records, server'[a][x].deleted
               PROVE  x \in removed'
    BY DEF ServerFits
  <2>1. CASE a = account
    <3>1. server[account][x].deleted \/ x \in removed'
      BY <2>1, RemoteWrites
    <3> QED BY <1>2, <3>1, HeldNow DEF Fit, ServerFits
  <2>2. CASE a # account
    <3>1. server'[a] = server[a]
      BY <2>2, RemoteWrites
    <3> QED BY <1>2, <3>1 DEF Fit, ServerFits
  <2> QED BY <2>1, <2>2
<1> QED BY <1>1, <1>2, <1>3, CycleFits, BasesStillFit DEF Fit

LEMMA StartFits ==
  ASSUME Types, Fit, Start
  PROVE  Fit'
<1>1. PICK us \in SetToSeqs(Upserts), ds \in SetToSeqs(Deletes) :
         cycle' = [Idle EXCEPT !.stage = "sending", !.account = account,
                               !.todo = Requests(us, ds), !.since = sync.cursor]
  BY DEF Start
<1>2. UNCHANGED <<store, server, removed>>
  BY DEF Start
<1>3. profile \in LiveVersions /\ sync.base \in LiveVersions /\ localEdits \in 0..MaxLocal
  BY DEF Types, StoreInv, LiveStates
<1> DEFINE q == Requests(us, ds)
<1>4. \A i \in DOMAIN q : \A c \in q[i] :
         c.deleted => c.id \in Records /\ sync.base[c.id] # 0 /\ profile[c.id] = 0
  BY <1>3, RequestsFacts
<1> HIDE DEF q
<1>5. cycle'.todo = q /\ cycle'.got = <<>>
  BY <1>1 DEF Idle, q
<1>6. PushesFit'
  BY <1>2, <1>4, <1>5 DEF PushesFit, Fit, BasesFit, LackedIsRemoved
<1>7. AnswersFit'
  BY <1>5 DEF AnswersFit
<1>8. BasesFit' /\ ServerFits'
  BY <1>2, BasesStillFit, ServerStillFits DEF Fit, store
<1> QED BY <1>6, <1>7, <1>8 DEF Fit

\* What a stored request deletes was removed.
LEMMA StoredFits ==
  ASSUME Types, Fit, cycle.stage = "sending", NEW r \in Records,
         Stored(cycle.account, Head(cycle.todo))[r].deleted
  PROVE  r \in removed
<1>1. Head(cycle.todo) \in Pushes /\ 1 \in DOMAIN cycle.todo /\ Head(cycle.todo) = cycle.todo[1]
  BY StoreStep
<1>2. cycle.account \in Accounts /\ server \in [Accounts -> LiveRecords]
  BY DEF Types, CycleInv, Cycles, ServerInv
<1> DEFINE h == Stored(cycle.account, Head(cycle.todo))
<1>3. h[r] = server[cycle.account][r]
      \/ \E c \in Head(cycle.todo) : c.id = r /\ h[r].deleted = c.deleted
  BY <1>1, <1>2, StoredFacts
<1>4. CASE h[r] = server[cycle.account][r]
  BY <1>2, <1>4 DEF Fit, ServerFits
<1>5. CASE \E c \in Head(cycle.todo) : c.id = r /\ h[r].deleted = c.deleted
  BY <1>1, <1>5 DEF Fit, PushesFit
<1> QED BY <1>3, <1>4, <1>5

LEMMA DeliverFits ==
  ASSUME Types, Fit, Deliver
  PROVE  Fit'
<1> DEFINE request == Head(cycle.todo)
           held == Stored(cycle.account, request)
           answer == Answer(held, request, Since)
<1>1. cycle.stage = "sending" /\ UNCHANGED <<store, ghosts>>
  BY DEF Deliver
<1>2. UNCHANGED <<profile, file, sync, saved, removed>>
  BY <1>1 DEF store, ghosts
<1>3. /\ server'[cycle.account] = held
      /\ \A a \in Accounts : a # cycle.account => server'[a] = server[a]
      /\ cycle'.todo = Tail(cycle.todo) /\ cycle'.got = Append(cycle.got, answer)
      /\ cycle.got \in Seq(SUBSET LiveChange) /\ answer \in SUBSET LiveChange
      /\ held \in LiveRecords /\ Since \in Nat
  BY DeliverFacts
<1>4. \A r \in Records : held[r].deleted => r \in removed
  BY <1>1, StoredFits
<1>5. ServerFits'
  BY <1>2, <1>3, <1>4 DEF Fit, ServerFits
<1>6. PushesFit'
  <2>1. \A i \in DOMAIN Tail(cycle.todo) : \E j \in DOMAIN cycle.todo :
           Tail(cycle.todo)[i] = cycle.todo[j]
    BY <1>1, StoreStep
  <2> QED BY <1>2, <1>3, <2>1 DEF Fit, PushesFit
<1>7. \A c \in answer : c.deleted => c.id \in removed
  <2>1. \A c \in answer : (c.deleted => held[c.id].deleted) /\ c.id \in Records
    BY <1>3, AnswerFacts DEF LiveChange, Change
  <2> QED BY <1>4, <2>1
<1> HIDE DEF answer
<1>8. AnswersFit'
  <2> SUFFICES ASSUME NEW i \in DOMAIN cycle'.got, NEW c \in cycle'.got[i], c.deleted
               PROVE  c.id \in removed
    BY <1>2 DEF AnswersFit
  <2>1. /\ DOMAIN cycle.got = 1..Len(cycle.got) /\ Len(cycle.got) \in Nat
        /\ DOMAIN cycle'.got = 1..(Len(cycle.got) + 1)
        /\ \A j \in 1..Len(cycle.got) : cycle'.got[j] = cycle.got[j]
        /\ cycle'.got[Len(cycle.got) + 1] = answer
    BY <1>3
  <2>2. CASE i \in 1..Len(cycle.got)
    BY <2>1, <2>2 DEF Fit, AnswersFit
  <2>3. CASE i = Len(cycle.got) + 1
    BY <1>7, <2>1, <2>3
  <2> QED BY <2>1, <2>2, <2>3
<1> QED BY <1>2, <1>5, <1>6, <1>8, BasesStillFit DEF Fit

LEMMA FailFits ==
  ASSUME Types, Fit, Fail
  PROVE  Fit'
<1>1. /\ cycle.stage = "sending" /\ cycle' = [cycle EXCEPT !.stage = "failed"]
      /\ UNCHANGED <<store, ghosts>>
      /\ \/ server' = server
         \/ server' = [server EXCEPT ![cycle.account] = Stored(cycle.account, Head(cycle.todo))]
  BY DEF Fail
<1>2. UNCHANGED <<profile, file, sync, saved, removed>>
  BY <1>1 DEF store, ghosts
<1>3. \A r \in Records : Stored(cycle.account, Head(cycle.todo))[r].deleted => r \in removed
  BY <1>1, StoredFits
<1>4. server \in [Accounts -> LiveRecords] /\ cycle \in Cycles
  BY DEF Types, ServerInv, CycleInv
<1>5. ServerFits'
  BY <1>1, <1>2, <1>3, <1>4 DEF Fit, ServerFits
<1>6. cycle'.todo = cycle.todo /\ cycle'.got = cycle.got
  BY <1>1, <1>4 DEF Cycles
<1>7. PushesFit' /\ AnswersFit'
  BY <1>2, <1>6 DEF Fit, PushesFit, AnswersFit
<1> QED BY <1>2, <1>5, <1>7, BasesStillFit DEF Fit

LEMMA RenewFits ==
  ASSUME Types, Fit, Renew
  PROVE  Fit'
<1>1. cycle' = [cycle EXCEPT !.account = account] /\ UNCHANGED <<store, server, ghosts>>
  BY DEF Renew
<1>2. UNCHANGED <<profile, file, sync, saved, removed>>
  BY <1>1 DEF store, ghosts
<1>3. cycle'.todo = cycle.todo /\ cycle'.got = cycle.got
  BY <1>1, HeldNow DEF Cycles
<1>4. PushesFit' /\ AnswersFit'
  BY <1>2, <1>3 DEF Fit, PushesFit, AnswersFit
<1> QED BY <1>1, <1>2, <1>4, BasesStillFit, ServerStillFits DEF Fit

\* What merging takes out of the profile was removed elsewhere or is dropped.
LEMMA MergeFits ==
  ASSUME Types, Fit, MergeAnswers, NEW r \in Records, profile'[r] = 0
  PROVE  profile[r] = 0 \/ r \in removed \cup Dropped
<1>1. CASE r \in Dropped
  BY <1>1
<1>2. CASE r \notin Dropped
  <2>1. Merged[r] = 0
    BY <1>2, MergedFacts
  <2>2. \/ profile[r] = 0
        \/ \E k \in DOMAIN cycle.got : \E c \in cycle.got[k] : c.id = r /\ c.deleted
    BY <2>1, MergedFacts
  <2> QED BY <2>2 DEF Fit, AnswersFit
<1> QED BY <1>1, <1>2

LEMMA AppliesFit ==
  ASSUME Types, Fit, Apply \/ ApplyFails
  PROVE  Fit'
<1>1. MergeAnswers /\ cycle' = Idle /\ server' = server
  BY DEF Apply, ApplyFails
<1>2. \A r \in Records : profile'[r] = 0 => profile[r] = 0 \/ r \in removed'
  BY <1>1, MergeFits, MergedFacts
<1>5. removed \subseteq removed'
  BY <1>1, MergedFacts
<1>4. BasesFit'
  <2>1. CASE Apply
    <3>1. file' = profile' /\ sync'.base = profile' /\ saved' \in {sync', saved}
      BY <2>1 DEF Apply, NewBase, MatchedTo
    <3> QED BY <1>2, <1>5, <3>1 DEF Fit, BasesFit, LackedIsRemoved
  <2>2. CASE ApplyFails
    <3>1. UNCHANGED <<file, sync, saved>>
      BY <2>2 DEF ApplyFails
    <3> QED BY <1>2, <1>5, <3>1 DEF Fit, BasesFit, LackedIsRemoved
  <2> QED BY <2>1, <2>2
<1> QED BY <1>1, <1>4, <1>5, IdleFits, ServerStillFits DEF Fit

LEMMA RestartFits ==
  ASSUME Fit, Restart
  PROVE  Fit'
<1>1. /\ file # NoFile /\ file' = profile' /\ sync' = saved /\ cycle' = Idle
      /\ removed' = removed \cup (Live(file) \ Live(profile'))
      /\ UNCHANGED <<server, saved>>
  BY DEF Restart, Process
<1>2. \A r \in Records : profile'[r] = 0 => file[r] = 0 \/ r \in removed'
  BY <1>1 DEF Live
<1>3. removed \subseteq removed'
  BY <1>1
<1>4. BasesFit'
  BY <1>1, <1>2, <1>3 DEF Fit, BasesFit, LackedIsRemoved
<1> QED BY <1>1, <1>3, <1>4, IdleFits, ServerStillFits DEF Fit

LEMMA FreshFits ==
  ASSUME sync' = Fresh, saved' = Fresh
  PROVE  BasesFit'
  BY DEF BasesFit, LackedIsRemoved, Fresh, Blank

LEMMA PairFits ==
  ASSUME Types, Fit, NEW a \in Accounts, Pair(a), ~resetLost'
  PROVE  Fit'
<1>1. Reset /\ UNCHANGED <<server, cycle, removed>>
  BY DEF Pair
<1>2. BasesFit'
  BY <1>1, ResetFacts, FreshFits
<1> QED BY <1>1, <1>2, CycleFits, ServerStillFits DEF Fit

LEMMA RestartFreshFits ==
  ASSUME Types, Fit, RestartFresh, ~resetLost'
  PROVE  Fit'
<1>1. Reset /\ cycle' = Idle /\ UNCHANGED <<server, removed>>
  BY DEF RestartFresh, Process
<1>2. BasesFit'
  BY <1>1, ResetFacts, FreshFits
<1> QED BY <1>1, <1>2, IdleFits, ServerStillFits DEF Fit

LEMMA TombStep ==
  ASSUME Types, resetLost \/ Fit, [Next]_vars
  PROVE  (resetLost \/ Fit)'
<1>0. SUFFICES ASSUME ~resetLost' PROVE Fit'
  OBVIOUS
<1>14. Fit
  BY <1>0, LostStays
<1>1. CASE UNCHANGED vars
  BY <1>1, <1>14 DEF vars, store, ghosts, Fit, BasesFit, LackedIsRemoved, PushesFit, AnswersFit,
     ServerFits
<1>2. CASE UserActs
  BY <1>14, <1>2, UserEdits, EditFits
<1>3. ASSUME NEW rs \in Stations \cup {History}, RemoteAdd(rs) PROVE Fit'
  BY <1>14, <1>3, RemoteAddFacts, RemoteFits
<1>4. ASSUME NEW r \in Records, RemoteEdit(r) PROVE Fit'
  BY <1>14, <1>4, RemoteFits DEF RemoteEdit
<1>5. CASE Start
  BY <1>14, <1>5, StartFits
<1>6. CASE Deliver
  BY <1>14, <1>6, DeliverFits
<1>7. CASE Renew
  BY <1>14, <1>7, RenewFits
<1>8. CASE Fail
  BY <1>14, <1>8, FailFits
<1>9. CASE HandleFailure
  <2>1. cycle' = Idle /\ UNCHANGED <<profile, file, sync, saved, server, removed>>
    BY <1>9 DEF HandleFailure, store, ghosts
  <2> QED BY <1>14, <2>1, IdleFits, ServerStillFits, BasesStillFit DEF Fit
<1>10. CASE Apply \/ ApplyFails
  BY <1>14, <1>10, AppliesFit
<1>11. ASSUME NEW a \in Accounts, Pair(a) PROVE Fit'
  BY <1>0, <1>14, <1>11, PairFits
<1>12. CASE Restart
  BY <1>14, <1>12, RestartFits
<1>13. CASE RestartFresh
  BY <1>0, <1>14, <1>13, RestartFreshFits
<1> QED
  BY <1>1, <1>2, <1>3, <1>4, <1>5, <1>6, <1>7, <1>8, <1>9, <1>10, <1>11, <1>12, <1>13,
     Zenon DEF Next, UserActs

-----------------------------------------------------------------------------
(***************************************************************************)
(* The theorems.                                                           *)
(***************************************************************************)

LEMMA InitInv == Init => IInv
<1> SUFFICES ASSUME Init PROVE IInv
  OBVIOUS
<1>1. Types
  BY InitTypes
<1>2. /\ profile = Blank /\ file = NoFile /\ sync = Fresh /\ saved = Fresh
      /\ server = [a \in Accounts |-> [r \in Records |-> Nothing]] /\ cycle = Idle
  BY DEF Init
<1>3. server[account] \in LiveRecords
  BY <1>1, HeldNow
<1>4. TrueNow
  BY <1>2, <1>3, FreshTrue DEF TrueNow
<1>5. OnTrack
  BY <1>2, IdleFacts DEF OnTrack, Tracked
<1>6. BasesFit
  BY <1>2 DEF BasesFit, LackedIsRemoved, Fresh, Blank
<1>7. PushesFit /\ AnswersFit
  BY <1>2 DEF PushesFit, AnswersFit, Idle
<1>8. ServerFits
  BY <1>2 DEF ServerFits, Nothing
<1> QED BY <1>1, <1>4, <1>5, <1>6, <1>7, <1>8 DEF IInv, BaseInv, Fit

LEMMA StepInv == IInv /\ [Next]_vars => IInv'
<1> SUFFICES ASSUME IInv, [Next]_vars PROVE IInv'
  OBVIOUS
<1>1. Types /\ BaseInv /\ (resetLost \/ Fit)
  BY DEF IInv, BaseInv
<1>2. Types'
  BY <1>1, TypesStep
<1>3. BaseInv'
  BY <1>1, <1>2, BaseStep
<1>4. (resetLost \/ Fit)'
  BY <1>1, TombStep
<1> QED BY <1>2, <1>3, <1>4 DEF IInv, BaseInv

LEMMA Invariance == Spec => []IInv
  BY InitInv, StepInv, PTL DEF Spec

LEMMA TypesImplyTypeOK == Types => TypeOK
<1> SUFFICES ASSUME Types PROVE TypeOK
  OBVIOUS
<1>1. LiveStamps \subseteq Stamps
  BY Numbers DEF LiveStamps, Stamps
<1>2. LiveVersions \subseteq Versions
  BY <1>1 DEF LiveVersions, Versions
<1>3. LiveStates \subseteq SyncStates
  BY <1>2 DEF LiveStates, SyncStates
<1>4. LiveRecords \subseteq [Records -> Held]
  BY DEF LiveRecords, LiveHeld
<1>5. Pushes \subseteq SUBSET Change /\ LiveChange \subseteq Change
  BY DEF Pushes, LiveChange
<1>6. profile \in Versions /\ WithinCaps(profile) /\ file \in Versions \cup {NoFile}
      /\ sync \in SyncStates /\ saved \in SyncStates
  BY <1>2, <1>3 DEF Types, StoreInv
<1>7. account \in Accounts /\ server \in [Accounts -> [Records -> Held]]
  BY <1>4 DEF Types, ServerInv
<1>8. /\ cycle.stage \in {"idle", "sending", "done", "failed"} /\ cycle.account \in Accounts
      /\ cycle.todo \in Seq(Pushes) /\ cycle.got \in Seq(SUBSET LiveChange)
  BY DEF Types, CycleInv, Cycles
<1>9. \A i \in DOMAIN cycle.todo : cycle.todo[i] \subseteq Change
  BY <1>5, <1>8
<1>10. \A i \in DOMAIN cycle.got : cycle.got[i] \subseteq Change
  BY <1>5, <1>8
<1>11. UNION {born, touched, overtaken, evicted, removed} \subseteq Records
       /\ resetLost \in BOOLEAN
  BY DEF Types, GhostInv
<1> QED BY <1>6, <1>7, <1>8, <1>9, <1>10, <1>11 DEF TypeOK

LEMMA TrueImpliesKnown == resetLost \/ TrueNow => BaseIsAcknowledged /\ CursorCovers
<1> SUFFICES ASSUME TrueNow, ~resetLost PROVE BaseIsAcknowledged /\ CursorCovers
  BY DEF BaseIsAcknowledged, CursorCovers
<1>1. TrueOf(sync, server[account], overtaken, evicted)
  BY DEF TrueNow
<1>2. BaseIsAcknowledged
  BY <1>1 DEF TrueOf, BaseIsAcknowledged
<1>3. CursorCovers
  BY <1>1 DEF TrueOf, CursorCovers, Said, Shown
<1> QED BY <1>2, <1>3

\* SyncOK: every variable keeps its type, a collection its cap, and the base never has a version
\* the account has not acknowledged, but for records an edit overtook (matched_to).
THEOREM BaseStaysAcknowledged == Spec => []SyncOK
<1>1. IInv => SyncOK
  BY TypesImplyTypeOK, TrueImpliesKnown DEF IInv, BaseInv, SyncOK
<1> QED BY <1>1, Invariance, PTL

\* CursorCovers: what the account held up to the cursor is in the profile, or the next cycle
\* pushes a difference, but for records an edit overtook or that were dropped, for their age or
\* by a cap, when answers were merged (sync_once, chunked requests, apply_incoming_records).
THEOREM CursorPassesNothingBy == Spec => []CursorCovers
<1>1. IInv => CursorCovers
  BY TrueImpliesKnown DEF IInv, BaseInv
<1> QED BY <1>1, Invariance, PTL

\* TombstonesAreDeliberate: no tombstone on any account but for a record a user removed or the
\* store retired; what is only missing, because the file was lost or the account is another,
\* is never deleted (created_fresh, reset_personal_sync_state).
THEOREM DeletionsAreMeant == Spec => []TombstonesAreDeliberate
<1>1. IInv => TombstonesAreDeliberate
  BY Zenon DEF IInv, Fit, ServerFits, TombstonesAreDeliberate
<1> QED BY <1>1, Invariance, PTL

=============================================================================
