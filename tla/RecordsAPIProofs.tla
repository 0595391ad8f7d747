-------------------------- MODULE RecordsAPIProofs --------------------------
(***************************************************************************)
(* Proofs about RecordsAPI and Keywords, for any alphabet, lengths,        *)
(* contents, searches and page sizes.                                      *)
(***************************************************************************)
EXTENDS RecordsAPI, FiniteSetTheorems, WellFoundedInduction, TLAPS

-----------------------------------------------------------------------------
(* The rows that are found, in their order                                 *)

\* The ranks of a finite set of numbers are 1, 2, ... up to its size, and each
\* is the rank of one element.
LEMMA Ranks ==
  ASSUME NEW n \in Nat, NEW I \in SUBSET (1..n)
  PROVE  /\ Cardinality(I) \in Nat
         /\ \A i \in I : Rank(i, I) \in 1..Cardinality(I)
         /\ \A i, j \in I : Rank(i, I) = Rank(j, I) => i = j
         /\ \A k \in 1..Cardinality(I) : \E i \in I : Rank(i, I) = k
<1> DEFINE UpTo(i) == {j \in I : j <= i}
<1>1. IsFiniteSet(I) /\ Cardinality(I) \in Nat
  <2>1. IsFiniteSet(1..n)
    <3>1. 1 \in Int /\ n \in Int OBVIOUS
    <3> QED BY <3>1, FS_Interval
  <2> QED BY <2>1, FS_Subset, FS_CardinalityType
<1>2. \A i \in I : UpTo(i) \in SUBSET I /\ i \in UpTo(i)
  OBVIOUS
<1>3. \A i \in I : /\ IsFiniteSet(UpTo(i)) /\ Cardinality(UpTo(i)) \in Nat
                   /\ Cardinality(UpTo(i)) <= Cardinality(I)
                   /\ Cardinality(UpTo(i)) # 0
  <2> SUFFICES ASSUME NEW i \in I
               PROVE  /\ IsFiniteSet(UpTo(i)) /\ Cardinality(UpTo(i)) \in Nat
                      /\ Cardinality(UpTo(i)) <= Cardinality(I)
                      /\ Cardinality(UpTo(i)) # 0
    OBVIOUS
  <2>1. IsFiniteSet(UpTo(i)) /\ Cardinality(UpTo(i)) <= Cardinality(I)
    <3> HIDE DEF UpTo
    <3> QED BY <1>1, <1>2, FS_Subset
  <2>2. UpTo(i) # {} BY <1>2
  <2> HIDE DEF UpTo
  <2> QED BY <2>1, <2>2, FS_CardinalityType, FS_EmptySet
<1>4. \A i \in I : Rank(i, I) \in 1..Cardinality(I)
  <2> SUFFICES ASSUME NEW i \in I PROVE Cardinality(UpTo(i)) \in 1..Cardinality(I)
    BY DEF Rank
  <2> HIDE DEF UpTo
  <2> QED BY <1>1, <1>3
<1>5. ASSUME NEW i \in I, NEW j \in I, i < j PROVE Rank(i, I) # Rank(j, I)
  <2>1. UpTo(i) \in SUBSET UpTo(j) /\ j \in UpTo(j) /\ j \notin UpTo(i)
    <3>1. i \in Nat /\ j \in Nat /\ \A k \in I : k \in Nat OBVIOUS
    <3>2. \A k \in I : k <= i => k <= j BY <1>5, <3>1
    <3>3. j \in UpTo(j) /\ j \notin UpTo(i) BY <1>5, <3>1
    <3>4. UpTo(i) \subseteq UpTo(j) BY <3>2
    <3> QED BY <3>3, <3>4
  <2>2. Cardinality(UpTo(i)) # Cardinality(UpTo(j))
    <3> HIDE DEF UpTo
    <3> QED BY <1>3, <2>1, FS_Subset
  <2> QED BY <2>2 DEF Rank
<1>6. \A i, j \in I : Rank(i, I) = Rank(j, I) => i = j
  <2> SUFFICES ASSUME NEW i \in I, NEW j \in I, i # j PROVE Rank(i, I) # Rank(j, I)
    OBVIOUS
  <2>1. i < j \/ j < i OBVIOUS
  <2> QED BY <1>5, <2>1
<1>7. \A k \in 1..Cardinality(I) : \E i \in I : Rank(i, I) = k
  <2> DEFINE K == 1..Cardinality(I)
             f == [i \in I |-> Rank(i, I)]
  <2>1. f \in [I -> K] BY <1>4
  <2>2. f \in Injection(I, K) BY <1>6, <2>1 DEF Injection, IsInjective
  <2>3. IsFiniteSet(K) /\ Cardinality(K) = Cardinality(I)
    <3>1. 1 \in Int /\ Cardinality(I) \in Int BY <1>1
    <3>2. Cardinality(I) \in Nat BY <1>1
    <3> QED BY <3>1, <3>2, FS_Interval
  <2>4. f \in Surjection(I, K)
    <3> HIDE DEF f, K
    <3> QED BY <2>2, <2>3, FS_Injection
  <2> QED BY <2>4 DEF Surjection
<1> QED BY <1>1, <1>4, <1>6, <1>7

\* What Hits is: the found rows, each at its rank.
LEMMA HitsByRank ==
  ASSUME NEW s \in Seq(Requests), NEW query
  PROVE  LET I == FoundRows(s, query)
             H == Hits(s, query)
         IN  /\ I \in SUBSET (1..Len(s))
             /\ H \in Seq(Requests) /\ Len(H) = Cardinality(I)
             /\ \A i \in I : Rank(i, I) \in 1..Len(H) /\ H[Rank(i, I)] = s[i]
             /\ \A k \in 1..Len(H) : \E i \in I : Rank(i, I) = k /\ H[k] = s[i]
<1> DEFINE I == FoundRows(s, query)
           H == Hits(s, query)
           At(k) == CHOOSE i \in I : Rank(i, I) = k
<1>1. I \in SUBSET (1..Len(s)) /\ Len(s) \in Nat
  BY DEF FoundRows
<1>2. Cardinality(I) \in Nat BY <1>1, Ranks
<1>3. \A k \in 1..Cardinality(I) : At(k) \in I /\ Rank(At(k), I) = k
  <2> HIDE DEF I
  <2> QED BY <1>1, Ranks
<1>4. H = [k \in 1..Cardinality(I) |-> s[At(k)]]
  BY DEF Hits
<1> HIDE DEF I, H
<1>5. \A i \in I : s[i] \in Requests
  BY <1>1
<1>6. H \in [1..Cardinality(I) -> Requests]
  <2> HIDE DEF At
  <2> QED BY <1>3, <1>4, <1>5
<1>7. H \in Seq(Requests) /\ Len(H) = Cardinality(I)
  BY <1>2, <1>6
<1>8. \A k \in 1..Len(H) : Rank(At(k), I) = k /\ At(k) \in I /\ H[k] = s[At(k)]
  BY <1>3, <1>4, <1>7
<1>9. \A i \in I : Rank(i, I) \in 1..Len(H) /\ H[Rank(i, I)] = s[i]
  <2> SUFFICES ASSUME NEW i \in I
               PROVE  Rank(i, I) \in 1..Len(H) /\ H[Rank(i, I)] = s[i]
    OBVIOUS
  <2>1. Rank(i, I) \in 1..Len(H) BY <1>1, <1>7, Ranks
  <2>2. At(Rank(i, I)) = i
    <3> HIDE DEF At
    <3>1. At(Rank(i, I)) \in I /\ Rank(At(Rank(i, I)), I) = Rank(i, I)
      BY <1>8, <2>1
    <3> QED BY <1>1, <3>1, Ranks
  <2> QED BY <1>8, <2>1, <2>2
<1> HIDE DEF At
<1> QED BY <1>1, <1>7, <1>8, <1>9 DEF I, H

\* Hits lists what is found, and all of it.
LEMMA HitsAreFound ==
  ASSUME NEW s \in Seq(Requests), NEW query
  PROVE  /\ \A k \in 1..Len(Hits(s, query)) :
              Hits(s, query)[k] \in Range(s) /\ Found(Hits(s, query)[k], query)
         /\ \A r \in Range(s) : Found(r, query) =>
              \E k \in 1..Len(Hits(s, query)) : Hits(s, query)[k] = r
<1> DEFINE I == FoundRows(s, query)
           H == Hits(s, query)
<1>1. /\ \A i \in I : Rank(i, I) \in 1..Len(H) /\ H[Rank(i, I)] = s[i]
      /\ \A k \in 1..Len(H) : \E i \in I : H[k] = s[i]
  BY HitsByRank
<1> HIDE DEF H
<1>2. \A i : i \in I <=> i \in DOMAIN s /\ Found(s[i], query)
  BY DEF FoundRows
<1> HIDE DEF I
<1>3. \A k \in 1..Len(H) : H[k] \in Range(s) /\ Found(H[k], query)
  BY <1>1, <1>2 DEF Range
<1>4. ASSUME NEW r \in Range(s), Found(r, query) PROVE \E k \in 1..Len(H) : H[k] = r
  <2>1. PICK i \in DOMAIN s : s[i] = r BY DEF Range
  <2>2. i \in I BY <1>2, <1>4, <2>1
  <2> QED BY <1>1, <2>1, <2>2
<1> QED BY <1>3, <1>4 DEF H

\* Of a table without repetition, Hits has none.
LEMMA HitsInjective ==
  ASSUME NEW s \in Seq(Requests), NEW query, IsInjective(s)
  PROVE  \A j, k \in 1..Len(Hits(s, query)) :
           Hits(s, query)[j] = Hits(s, query)[k] => j = k
<1> DEFINE I == FoundRows(s, query)
           H == Hits(s, query)
<1>1. /\ I \subseteq DOMAIN s
      /\ \A k \in 1..Len(H) : \E i \in I : Rank(i, I) = k /\ H[k] = s[i]
  BY HitsByRank
<1> HIDE DEF H, I
<1> QED BY <1>1 DEF IsInjective, H

\* What is stored later is found behind what is there.
LEMMA HitsGrow ==
  ASSUME NEW s \in Seq(Requests), NEW t \in Seq(Requests), NEW query,
         Len(s) <= Len(t), \A i \in 1..Len(s) : s[i] = t[i]
  PROVE  /\ Len(Hits(s, query)) <= Len(Hits(t, query))
         /\ \A k \in 1..Len(Hits(s, query)) : Hits(s, query)[k] = Hits(t, query)[k]
<1> DEFINE I == FoundRows(s, query)
           J == FoundRows(t, query)
           G == Hits(s, query)
           H == Hits(t, query)
<1>1. /\ I \in SUBSET (1..Len(s)) /\ Len(s) \in Nat
      /\ J \in SUBSET (1..Len(t)) /\ Len(t) \in Nat
      /\ G \in Seq(Requests) /\ Len(G) = Cardinality(I)
      /\ H \in Seq(Requests) /\ Len(H) = Cardinality(J)
      /\ \A i \in J : Rank(i, J) \in 1..Len(H) /\ H[Rank(i, J)] = t[i]
      /\ \A k \in 1..Len(G) : \E i \in I : Rank(i, I) = k /\ G[k] = s[i]
  BY HitsByRank
<1>2. I \in SUBSET J /\ \A j \in J : j <= Len(s) => j \in I
  BY DEF FoundRows
<1> HIDE DEF G, H, I, J
<1>3. Cardinality(I) <= Cardinality(J)
  <2>1. IsFiniteSet(J)
    <3>1. 1 \in Int /\ Len(t) \in Int BY <1>1
    <3>2. IsFiniteSet(1..Len(t)) BY <3>1, FS_Interval
    <3> QED BY <1>1, <3>2, FS_Subset
  <2> QED BY <1>2, <2>1, FS_Subset
<1>4. \A i \in I : Rank(i, J) = Rank(i, I)
  <2> SUFFICES ASSUME NEW i \in I PROVE Rank(i, J) = Rank(i, I)
    OBVIOUS
  <2>1. i \in Nat /\ i <= Len(s) /\ \A j \in J : j \in Nat BY <1>1
  <2>2. \A j \in J : j <= i => j \in I BY <1>1, <1>2, <2>1
  <2>3. {j \in J : j <= i} = {j \in I : j <= i} BY <1>2, <2>2
  <2> QED BY <2>3 DEF Rank
<1>5. ASSUME NEW k \in 1..Len(G) PROVE G[k] = H[k]
  <2>1. PICK i \in I : Rank(i, I) = k /\ G[k] = s[i] BY <1>1
  <2>2. H[k] = t[i] BY <1>1, <1>2, <1>4, <2>1
  <2> QED BY <1>1, <2>1, <2>2
<1> QED BY <1>1, <1>3, <1>5 DEF G, H

-----------------------------------------------------------------------------
(* The inductive invariant                                                 *)

\* The table is what TrafficLog says: each record once, none of them pending, and
\* only of requests that were read.
TableInv ==
  /\ content \in Contents
  /\ log \in Seq(Requests) /\ IsInjective(log)
  /\ pending \subseteq taken /\ Range(log) \subseteq taken /\ taken \subseteq Requests
  /\ pending \cap Range(log) = {}
  /\ \A r \in taken : content[r].read

\* The table has only grown since the walk began.
BaseInv == Len(base) <= Len(log) /\ \A i \in 1..Len(base) : base[i] = log[i]

\* The records of s are different hits of H, from the one after lo to hi, and
\* among them is every hit of B in that stretch.
Stretch(H, B, s, lo, hi) ==
  /\ IsInjective(s)
  /\ \A r \in Range(s) : \E k \in 1..Len(H) : lo < k /\ k <= hi /\ H[k] = r
  /\ \A k \in 1..Len(B) : lo < k /\ k <= hi => B[k] \in Range(s)

\* So it is with the hits of the table as it is, and of what it was at the start.
Covers(s, lo, hi) == Stretch(Hits(log, q), Hits(base, q), s, lo, hi)

\* What the client has seen are the pages before the one it asks for, or up to
\* the one it has an answer for.
SeenInv ==
  /\ at = "idle" => page = 1 /\ rows = <<>> /\ seen = <<>>
  /\ Covers(seen, 0, IF at = "answered" THEN size * page ELSE size * (page - 1))

\* What it has been given is the page it asked for.
RowsInv ==
  /\ \A r \in Range(rows) : Found(r, q)
  /\ at = "counting" => Covers(rows, size * (page - 1), size * page)

\* The pages counted after a page hold it, and all that was there at the start.
CountInv ==
  /\ at # "answered" => ~miscount
  /\ at = "answered" /\ miscount => pages = 0
  /\ at = "answered" /\ ~miscount =>
       /\ Len(Hits(base, q)) <= size * pages
       /\ rows # <<>> => page <= pages

IInv == TypeOK /\ TableInv /\ BaseInv /\ SeenInv /\ RowsInv /\ CountInv /\ FetchedIsCaptured

\* What the assumptions and the invariant say of the variables, for the steps.
LEMMA Types ==
  ASSUME IInv
  PROVE  /\ size \in Nat \ {0} /\ page \in Nat \ {0} /\ pages \in Nat
         /\ log \in Seq(Requests) /\ base \in Seq(Requests)
         /\ rows \in Seq(Requests) /\ seen \in Seq(Requests)
         /\ at \in {"idle", "asked", "counting", "answered"}
         /\ q \in Text /\ miscount \in BOOLEAN
<1>1. <<>> \in Text BY DEF Text, Char
<1> QED BY <1>1, RecordsAssumption DEF IInv, TypeOK, TableInv

\* The first page begins at the first hit, and each page ends where the next
\* begins.
LEMMA Pages ==
  ASSUME NEW a \in Nat \ {0}, NEW b \in Nat \ {0}
  PROVE  /\ a * b \in Nat /\ a * (b - 1) \in Nat
         /\ a * b = a * (b - 1) + a
         /\ a * (1 - 1) = 0
         /\ a * ((b + 1) - 1) = a * b
OBVIOUS

\* The number of pages is enough for n hits, and no page beyond it has one.
LEMMA PagesHold ==
  ASSUME NEW n \in Nat, NEW a \in Nat \ {0}
  PROVE  /\ (n + a - 1) \div a \in Nat
         /\ n <= a * ((n + a - 1) \div a)
         /\ \A b \in Nat \ {0} : a * (b - 1) < n => b <= (n + a - 1) \div a
<1>1. (n + a - 1) \div a \in Nat /\ n <= a * ((n + a - 1) \div a)
  OBVIOUS
<1>2. ASSUME NEW b \in Nat \ {0}, a * (b - 1) < n PROVE b <= (n + a - 1) \div a
  BY <1>2
<1> QED BY <1>1, <1>2

\* Nothing is stored and nobody asks.
LEMMA InitIInv == Init => IInv
<1> SUFFICES ASSUME Init PROVE IInv
  OBVIOUS
<1>1. /\ log = <<>> /\ pending = {} /\ taken = {} /\ content \in Contents
      /\ at = "idle" /\ q = <<>> /\ size = 1 /\ page = 1 /\ rows = <<>> /\ pages = 0
      /\ base = <<>> /\ seen = <<>> /\ miscount = FALSE /\ got = Nothing
  BY DEF Init, Table!Init
<1>2. Range(<<>>) = {} /\ IsInjective(<<>>) /\ <<>> \in Seq(Requests) /\ Len(<<>>) = 0
  BY DEF Range, IsInjective
<1>3. TypeOK
  <2>1. page \in Nat \ {0} /\ pages \in Nat /\ Len(rows) <= size BY <1>1, <1>2
  <2>2. rows \in Seq(Requests) /\ base \in Seq(Requests) /\ seen \in Seq(Requests)
    BY <1>1, <1>2
  <2>3. q \in Queries \cup {<<>>} /\ size \in Sizes \cup {1} BY <1>1
  <2> QED BY <1>1, <2>1, <2>2, <2>3 DEF TypeOK
<1>4. TableInv /\ BaseInv BY <1>1, <1>2 DEF TableInv, BaseInv
<1>5. SeenInv BY <1>1, <1>2 DEF SeenInv, Covers, Stretch
<1>6. RowsInv /\ CountInv BY <1>1, <1>2 DEF RowsInv, CountInv
<1>7. FetchedIsCaptured BY <1>1 DEF FetchedIsCaptured
<1> QED BY <1>3, <1>4, <1>5, <1>6, <1>7 DEF IInv

\* A page holds the hits of its stretch.
LEMMA PageCut ==
  ASSUME IInv, NEW H \in Seq(Requests)
  PROVE  LET lo == size * (page - 1)
         IN  /\ PageOf(H) \in Seq(Requests) /\ Len(PageOf(H)) <= size
             /\ \A k \in 1..Len(PageOf(H)) :
                  /\ lo + k \in 1..Len(H) /\ lo + k <= size * page
                  /\ PageOf(H)[k] = H[lo + k]
             /\ \A k \in 1..Len(H) : lo < k /\ k <= size * page =>
                  k - lo \in 1..Len(PageOf(H)) /\ PageOf(H)[k - lo] = H[k]
<1> DEFINE lo == size * (page - 1)
           hi == size * page
           n  == Len(H)
           e  == IF hi < n THEN hi ELSE n
           P  == SubSeq(H, lo + 1, e)
<1>1. lo \in Nat /\ hi \in Nat /\ hi = lo + size /\ size \in Nat /\ n \in Nat
  BY Types, Pages
<1>2. PageOf(H) = P
  BY DEF PageOf
<1> HIDE DEF lo, hi
<1>3. e \in Nat /\ e <= hi /\ e <= n /\ \A k \in 1..n : k <= hi => k <= e
  BY <1>1
<1>4. \A k \in (lo + 1)..e : k \in 1..n
  BY <1>1, <1>3
<1> HIDE DEF e, n
<1>5. /\ P \in Seq(Requests)
      /\ Len(P) = IF lo + 1 <= e THEN e - lo ELSE 0
      /\ \A k \in 1..(e - lo) : P[k] = H[lo + k]
  BY <1>1, <1>3, <1>4 DEF n
<1> HIDE DEF P
<1>6. /\ Len(P) <= size
      /\ \A k \in 1..Len(P) : lo + k \in 1..n /\ lo + k <= hi /\ P[k] = H[lo + k]
      /\ \A k \in 1..n : lo < k /\ k <= hi => k - lo \in 1..Len(P) /\ P[k - lo] = H[k]
  <2>1. Len(P) <= size BY <1>1, <1>3, <1>5
  <2>2. ASSUME NEW k \in 1..Len(P)
        PROVE  lo + k \in 1..n /\ lo + k <= hi /\ P[k] = H[lo + k]
    <3>1. k \in 1..(e - lo) BY <1>1, <1>3, <1>5, <2>2
    <3>2. k \in Nat /\ lo + k <= e /\ lo + k >= 1 /\ lo + k \in Int BY <1>1, <1>3, <3>1
    <3> QED BY <1>1, <1>3, <1>5, <3>1, <3>2
  <2>3. ASSUME NEW k \in 1..n, lo < k, k <= hi
        PROVE  k - lo \in 1..Len(P) /\ P[k - lo] = H[k]
    <3>1. k <= e /\ k \in Nat BY <1>1, <1>3, <2>3
    <3>2. k - lo \in 1..(e - lo) /\ lo + (k - lo) = k BY <1>1, <1>3, <2>3, <3>1
    <3>3. Len(P) = e - lo BY <1>1, <1>3, <1>5, <2>3, <3>1
    <3> QED BY <1>5, <3>2, <3>3
  <2> QED BY <2>1, <2>2, <2>3
<1> QED BY <1>2, <1>5, <1>6 DEF lo, hi, n

\* Every step keeps the types, and no page is longer than asked.
LEMMA StepTypeOK == IInv /\ [Next]_vars => TypeOK'
<1> SUFFICES ASSUME IInv, [Next]_vars PROVE TypeOK'
  OBVIOUS
<1> TypeOK BY DEF IInv
<1>1. ASSUME \/ Record \/ FetchFails \/ UNCHANGED vars
             \/ \E r \in Requests, opts \in Options : Fetch(r, opts)
      PROVE  TypeOK'
  <2>1. UNCHANGED walkVars BY <1>1 DEF Record, Fetch, FetchFails, vars
  <2> QED BY <2>1 DEF TypeOK, walkVars
<1>2. ASSUME Search PROVE TypeOK'
  <2>1. rows = <<>> /\ size' \in Nat \ {0}
    BY <1>2, RecordsAssumption DEF IInv, SeenInv, Search
  <2>2. Len(rows') <= size'
    BY <1>2, <2>1 DEF Search
  <2>3. base' \in Seq(Requests) BY <1>2, Types DEF Search
  <2> QED BY <1>2, <2>2, <2>3 DEF Search, TypeOK
<1>3. ASSUME Done PROVE TypeOK'
  <2>1. /\ at' = "idle" /\ q' = <<>> /\ size' = 1 /\ page' = 1 /\ rows' = <<>> /\ pages' = 0
        /\ base' = <<>> /\ seen' = <<>> /\ miscount' = FALSE
    BY <1>3 DEF Done
  <2>2. page' \in Nat \ {0} /\ pages' \in Nat /\ Len(rows') <= size' BY <2>1
  <2>3. rows' \in Seq(Requests) /\ base' \in Seq(Requests) /\ seen' \in Seq(Requests)
    BY <2>1
  <2>4. q' \in Queries \cup {<<>>} /\ size' \in Sizes \cup {1} BY <2>1
  <2> QED BY <2>1, <2>2, <2>3, <2>4 DEF TypeOK
<1>4. ASSUME PullPage PROVE TypeOK'
  <2>1. Hits(log, q) \in Seq(Requests) BY Types, HitsByRank
  <2>2. rows' \in Seq(Requests) /\ Len(rows') <= size
    BY <1>4, <2>1, PageCut DEF PullPage
  <2> QED BY <1>4, <2>2 DEF PullPage, TypeOK
<1>5. ASSUME NEW n \in Nat, Answer(n), miscount' \in BOOLEAN PROVE TypeOK'
  <2>1. seen' \in Seq(Requests) BY <1>5, Types DEF Answer
  <2> QED BY <1>5, <2>1 DEF Answer, TypeOK
<1>6. ASSUME CountPages \/ CountFails PROVE TypeOK'
  <2>1. Len(Hits(log, q)) \in Nat BY Types, HitsByRank
  <2>2. TotalPages(Hits(log, q)) \in Nat
    BY <2>1, Types, PagesHold DEF TotalPages
  <2>3. miscount' \in BOOLEAN BY <1>6, Types DEF CountPages, CountFails
  <2> QED BY <1>5, <1>6, <2>2, <2>3 DEF CountPages, CountFails
<1>7. ASSUME NextPage PROVE TypeOK'
  <2>1. page' \in Nat \ {0} BY <1>7, Types DEF NextPage
  <2> QED BY <1>7, <2>1 DEF NextPage, TypeOK
<1> QED BY <1>1, <1>2, <1>3, <1>4, <1>6, <1>7 DEF Next, PullFails, EndWalk

\* What the table does in a step: it grows at its end, or stays.
LEMMA TableSteps ==
  ASSUME IInv, [Next]_vars
  PROVE  /\ content' = content
         /\ \/ UNCHANGED log
            \/ Record /\ \E r \in pending : pending' = pending \ {r} /\ log' = Append(log, r)
<1>1. ASSUME Record
      PROVE  /\ content' = content
             /\ \/ UNCHANGED log
                \/ \E r \in pending : pending' = pending \ {r} /\ log' = Append(log, r)
  BY <1>1 DEF Record, Table!Next, Table!Drop, Table!Take, Table!Store
<1>2. ASSUME UNCHANGED tableVars PROVE content' = content /\ UNCHANGED log
  BY <1>2 DEF tableVars
<1>3. ASSUME NEW r \in Requests, NEW opts \in Options, Fetch(r, opts)
      PROVE  UNCHANGED tableVars
  BY <1>3 DEF Fetch
<1>4. ASSUME \/ Search \/ PullPage \/ PullFails \/ CountPages \/ CountFails
             \/ NextPage \/ EndWalk \/ FetchFails \/ UNCHANGED vars
      PROVE  UNCHANGED tableVars
  BY <1>4 DEF Search, PullPage, PullFails, CountPages, CountFails, Answer, NextPage, EndWalk,
              FetchFails, Done, vars
<1> QED BY <1>1, <1>2, <1>3, <1>4 DEF Next

-----------------------------------------------------------------------------
(* Stretches of hits                                                       *)

\* A stretch is one still when hits come behind.
LEMMA StretchGrows ==
  ASSUME NEW H, NEW G, NEW B, NEW s, NEW lo, NEW hi, Stretch(H, B, s, lo, hi),
         Len(H) \in Nat, Len(G) \in Nat, Len(H) <= Len(G),
         \A k \in 1..Len(H) : H[k] = G[k]
  PROVE  Stretch(G, B, s, lo, hi)
<1>1. \A k \in 1..Len(H) : k \in 1..Len(G)
  OBVIOUS
<1> QED BY <1>1 DEF Stretch

\* What is concatenated is what is in the one or in the other, and two sequences
\* that have nothing in common make one without repetition.
LEMMA ConcatOfDistinct ==
  ASSUME NEW S, NEW s \in Seq(S), NEW t \in Seq(S)
  PROVE  /\ Range(s \o t) = Range(s) \cup Range(t)
         /\ IsInjective(s) /\ IsInjective(t) /\ Range(s) \cap Range(t) = {}
              => IsInjective(s \o t)
<1> DEFINE u == s \o t
           m == Len(s)
           n == Len(t)
<1>1. /\ m \in Nat /\ n \in Nat
      /\ DOMAIN s = 1..m /\ DOMAIN t = 1..n /\ DOMAIN u = 1..(m + n)
      /\ \A i \in 1..(m + n) : u[i] = IF i <= m THEN s[i] ELSE t[i - m]
  OBVIOUS
<1> HIDE DEF u, m, n
<1>2. \A i \in 1..m : i \in 1..(m + n) /\ u[i] = s[i]
  BY <1>1
<1>3. \A i \in 1..n : m + i \in 1..(m + n) /\ u[m + i] = t[i]
  <2> SUFFICES ASSUME NEW i \in 1..n PROVE m + i \in 1..(m + n) /\ u[m + i] = t[i]
    OBVIOUS
  <2>1. m + i \in 1..(m + n) /\ ~(m + i <= m) /\ (m + i) - m = i BY <1>1
  <2> QED BY <1>1, <2>1
<1>4. \A i \in 1..(m + n) : \/ i \in 1..m /\ u[i] = s[i]
                            \/ i - m \in 1..n /\ u[i] = t[i - m]
  BY <1>1
<1>5. Range(u) = Range(s) \cup Range(t)
  <2>1. Range(s) \subseteq Range(u) BY <1>1, <1>2 DEF Range
  <2>2. Range(t) \subseteq Range(u) BY <1>1, <1>3 DEF Range
  <2>3. Range(u) \subseteq Range(s) \cup Range(t) BY <1>1, <1>4 DEF Range
  <2> QED BY <2>1, <2>2, <2>3
<1>6. ASSUME IsInjective(s), IsInjective(t), Range(s) \cap Range(t) = {}
      PROVE  IsInjective(u)
  <2> SUFFICES ASSUME NEW i \in 1..(m + n), NEW j \in 1..(m + n), u[i] = u[j] PROVE i = j
    BY <1>1 DEF IsInjective
  <2>1. CASE i \in 1..m /\ u[i] = s[i]
    <3>1. CASE j \in 1..m /\ u[j] = s[j] BY <1>1, <1>6, <2>1, <3>1 DEF IsInjective
    <3>2. CASE j - m \in 1..n /\ u[j] = t[j - m] BY <1>1, <1>6, <2>1, <3>2 DEF Range
    <3> QED BY <1>4, <3>1, <3>2
  <2>2. CASE i - m \in 1..n /\ u[i] = t[i - m]
    <3>1. CASE j \in 1..m /\ u[j] = s[j] BY <1>1, <1>6, <2>2, <3>1 DEF Range
    <3>2. CASE j - m \in 1..n /\ u[j] = t[j - m]
      <4>1. i - m = j - m BY <1>1, <1>6, <2>2, <3>2 DEF IsInjective
      <4> QED BY <1>1, <4>1
    <3> QED BY <1>4, <3>1, <3>2
  <2> QED BY <1>4, <2>1, <2>2
<1> QED BY <1>5, <1>6 DEF u

\* A stretch and the next one are one stretch.
LEMMA StretchesJoin ==
  ASSUME NEW S, NEW s \in Seq(S), NEW t \in Seq(S), NEW H, NEW B,
         NEW m \in Nat, NEW n \in Nat, m <= n,
         \A j, k \in 1..Len(H) : H[j] = H[k] => j = k,
         Stretch(H, B, s, 0, m), Stretch(H, B, t, m, n)
  PROVE  Stretch(H, B, s \o t, 0, n)
<1>1. Range(s) \cap Range(t) = {}
  <2> SUFFICES ASSUME NEW r \in Range(s), r \in Range(t) PROVE FALSE
    OBVIOUS
  <2>1. PICK j \in 1..Len(H) : j <= m /\ H[j] = r BY DEF Stretch
  <2>2. PICK k \in 1..Len(H) : m < k /\ H[k] = r BY DEF Stretch
  <2>3. j = k BY <2>1, <2>2
  <2> QED BY <2>1, <2>2, <2>3
<1>2. IsInjective(s \o t) /\ Range(s \o t) = Range(s) \cup Range(t)
  BY <1>1, ConcatOfDistinct DEF Stretch
<1>3. \A r \in Range(s) : \E k \in 1..Len(H) : 0 < k /\ k <= n /\ H[k] = r
  BY DEF Stretch
<1>4. \A r \in Range(t) : \E k \in 1..Len(H) : 0 < k /\ k <= n /\ H[k] = r
  BY DEF Stretch
<1>5. \A k \in 1..Len(B) : 0 < k /\ k <= n => B[k] \in Range(s) \cup Range(t)
  <2> SUFFICES ASSUME NEW k \in 1..Len(B), k <= n PROVE B[k] \in Range(s) \cup Range(t)
    OBVIOUS
  <2>1. 0 < k /\ (k <= m \/ m < k) OBVIOUS
  <2> QED BY <2>1 DEF Stretch
<1> HIDE DEF Stretch
<1> QED BY <1>2, <1>3, <1>4, <1>5 DEF Stretch

-----------------------------------------------------------------------------
(* Steps                                                                   *)

\* An append adds one element, and no repetition when the element is new.
LEMMA AppendOfNew ==
  ASSUME NEW S, NEW s \in Seq(S), NEW x \in S
  PROVE  /\ Range(Append(s, x)) = Range(s) \cup {x}
         /\ IsInjective(s) /\ x \notin Range(s) => IsInjective(Append(s, x))
<1> DEFINE t == <<x>>
<1>1. Append(s, x) = s \o t /\ t \in Seq(S)
  OBVIOUS
<1>2. Range(t) = {x} /\ IsInjective(t)
  BY DEF Range, IsInjective
<1> HIDE DEF t
<1>3. /\ Range(s \o t) = Range(s) \cup Range(t)
      /\ IsInjective(s) /\ Range(s) \cap Range(t) = {} => IsInjective(s \o t)
  BY <1>1, <1>2, ConcatOfDistinct
<1> QED BY <1>1, <1>2, <1>3

\* Every step keeps the table free of repetitions.
LEMMA StepTable == IInv /\ [Next]_vars => TableInv'
<1> SUFFICES ASSUME IInv, [Next]_vars PROVE TableInv'
  OBVIOUS
<1>0. /\ content \in Contents /\ content' = content
      /\ log \in Seq(Requests) /\ IsInjective(log)
      /\ pending \subseteq taken /\ Range(log) \subseteq taken /\ taken \subseteq Requests
      /\ pending \cap Range(log) = {} /\ \A r \in taken : content[r].read
  BY TableSteps DEF IInv, TableInv
<1>1. CASE Record
  <2>1. CASE Table!Drop
    BY <1>0, <2>1 DEF TableInv, Table!Drop
  <2>2. ASSUME NEW r \in Requests, Table!Take(r) PROVE TableInv'
    <3>1. taken' = taken \cup {r} /\ \A x \in taken' \ taken : content[x].read
      BY <1>1, <2>2 DEF Record, Table!Take
    <3>2. \A x \in taken' : content'[x].read BY <1>0, <3>1
    <3> QED BY <1>0, <2>2, <3>2 DEF TableInv, Table!Take
  <2>3. ASSUME NEW r \in Requests, Table!Store(r) PROVE TableInv'
    <3>1. /\ r \in pending /\ pending' = pending \ {r} /\ log' = Append(log, r)
          /\ taken' = taken
      BY <2>3 DEF Table!Store
    <3>2. Range(log') = Range(log) \cup {r} /\ IsInjective(log') /\ log' \in Seq(Requests)
      BY <1>0, <3>1, AppendOfNew
    <3> QED BY <1>0, <3>1, <3>2 DEF TableInv
  <2> QED BY <1>1, <2>1, <2>2, <2>3 DEF Record, Table!Next
<1>2. CASE UNCHANGED tableVars
  BY <1>0, <1>2 DEF TableInv, tableVars
<1>3. ASSUME NEW r \in Requests, NEW opts \in Options, Fetch(r, opts)
      PROVE  UNCHANGED tableVars
  BY <1>3 DEF Fetch
<1>4. ASSUME \/ Search \/ PullPage \/ PullFails \/ CountPages \/ CountFails
             \/ NextPage \/ EndWalk \/ FetchFails \/ UNCHANGED vars
      PROVE  UNCHANGED tableVars
  BY <1>4 DEF Search, PullPage, PullFails, CountPages, CountFails, Answer, NextPage, EndWalk,
              FetchFails, Done, vars
<1> QED BY <1>1, <1>2, <1>3, <1>4 DEF Next

\* In a step the rows keep their places.
LEMMA LogGrows ==
  ASSUME IInv, [Next]_vars
  PROVE  /\ log' \in Seq(Requests) /\ Len(log) <= Len(log')
         /\ \A i \in 1..Len(log) : log[i] = log'[i]
<1>1. log \in Seq(Requests) /\ pending \subseteq Requests
  BY DEF IInv, TableInv
<1>2. CASE UNCHANGED log BY <1>1, <1>2
<1>3. ASSUME NEW r \in pending, log' = Append(log, r)
      PROVE  /\ log' \in Seq(Requests) /\ Len(log) <= Len(log')
             /\ \A i \in 1..Len(log) : log[i] = log'[i]
  BY <1>1, <1>3
<1> QED BY <1>2, <1>3, TableSteps

\* Every step keeps what the walk began with at the start of the table.
LEMMA StepBase == IInv /\ [Next]_vars => BaseInv'
<1> SUFFICES ASSUME IInv, [Next]_vars PROVE BaseInv'
  OBVIOUS
<1>0. /\ Len(base) \in Nat /\ Len(log) \in Nat /\ Len(log') \in Nat
      /\ Len(base) <= Len(log) /\ \A i \in 1..Len(base) : base[i] = log[i]
      /\ Len(log) <= Len(log') /\ \A i \in 1..Len(log) : log[i] = log'[i]
  BY LogGrows, Types DEF IInv, BaseInv
<1>1. CASE base' = base BY <1>0, <1>1 DEF BaseInv
<1>2. CASE base' = log BY <1>0, <1>2 DEF BaseInv
<1>3. CASE base' = <<>>
  <2>1. Len(base') = 0 BY <1>3
  <2> QED BY <1>0, <2>1 DEF BaseInv
<1>4. ASSUME NEW r \in Requests, NEW opts \in Options, Fetch(r, opts) PROVE base' = base
  BY <1>4 DEF Fetch, walkVars
<1>5. ASSUME \/ Record \/ PullPage \/ CountPages \/ CountFails \/ NextPage \/ FetchFails
             \/ UNCHANGED vars
      PROVE  base' = base
  BY <1>5 DEF Record, PullPage, CountPages, CountFails, Answer, NextPage, FetchFails, walkVars,
              vars
<1>6. ASSUME Search PROVE base' = log BY <1>6 DEF Search
<1>7. ASSUME PullFails \/ EndWalk PROVE base' = <<>> BY <1>7 DEF PullFails, EndWalk, Done
<1> QED BY <1>1, <1>2, <1>3, <1>4, <1>5, <1>6, <1>7 DEF Next

\* What is found depends on the contents, which no step changes: so the hits of a
\* table after a step are those it would have had before.
LEMMA HitsSteady ==
  ASSUME content' = content
  PROVE  /\ Hits(log, q)' = Hits(log', q') /\ Hits(base, q)' = Hits(base', q')
         /\ \A r : Found(r, q)' = Found(r, q')
<1>1. \A r : Found(r, q)' = Found(r, q')
  BY DEF Found
<1>2. FoundRows(log, q)' = FoundRows(log', q') /\ FoundRows(base, q)' = FoundRows(base', q')
  BY DEF FoundRows, Found
<1> QED BY <1>1, <1>2 DEF Hits

\* The hits of the table, and of what it was when the walk began.
LEMMA HitsTypes ==
  ASSUME IInv
  PROVE  /\ Hits(log, q) \in Seq(Requests) /\ Len(Hits(log, q)) \in Nat
         /\ Hits(base, q) \in Seq(Requests) /\ Len(Hits(base, q)) \in Nat
         /\ \A j, k \in 1..Len(Hits(log, q)) : Hits(log, q)[j] = Hits(log, q)[k] => j = k
         /\ Len(Hits(base, q)) <= Len(Hits(log, q))
         /\ \A k \in 1..Len(Hits(base, q)) : Hits(base, q)[k] = Hits(log, q)[k]
<1>1. log \in Seq(Requests) /\ base \in Seq(Requests) /\ IsInjective(log)
  BY Types DEF IInv, TableInv
<1>2. Hits(log, q) \in Seq(Requests) /\ Hits(base, q) \in Seq(Requests)
  BY <1>1, HitsByRank
<1>3. \A j, k \in 1..Len(Hits(log, q)) : Hits(log, q)[j] = Hits(log, q)[k] => j = k
  BY <1>1, HitsInjective
<1>4. /\ Len(Hits(base, q)) <= Len(Hits(log, q))
      /\ \A k \in 1..Len(Hits(base, q)) : Hits(base, q)[k] = Hits(log, q)[k]
  BY <1>1, HitsGrow DEF IInv, BaseInv
<1> QED BY <1>2, <1>3, <1>4

\* What a stretch of hits is, it still is when the table has grown.
LEMMA CoversStay ==
  ASSUME IInv, [Next]_vars, q' = q, base' = base, NEW s, NEW lo, NEW hi, Covers(s, lo, hi)
  PROVE  Stretch(Hits(log, q)', Hits(base, q)', s, lo, hi)
<1>1. log \in Seq(Requests) BY Types
<1>2. Hits(log, q)' = Hits(log', q) /\ Hits(base, q)' = Hits(base, q)
  BY HitsSteady, TableSteps
<1>3. /\ Len(Hits(log, q)) <= Len(Hits(log', q))
      /\ \A k \in 1..Len(Hits(log, q)) : Hits(log, q)[k] = Hits(log', q)[k]
  BY <1>1, LogGrows, HitsGrow
<1>4. Len(Hits(log, q)) \in Nat /\ Len(Hits(log', q)) \in Nat
  <2>1. Hits(log, q) \in Seq(Requests) /\ Hits(log', q) \in Seq(Requests)
    BY <1>1, LogGrows, HitsByRank
  <2> QED BY <2>1
<1>5. Stretch(Hits(log', q), Hits(base, q), s, lo, hi)
  BY <1>3, <1>4, StretchGrows DEF Covers
<1> QED BY <1>2, <1>5

\* No hits are asked for yet.
LEMMA EmptyStretch ==
  ASSUME NEW H, NEW B PROVE Stretch(H, B, <<>>, 0, 0)
<1>1. Range(<<>>) = {} /\ IsInjective(<<>>) BY DEF Range, IsInjective
<1>2. \A k \in 1..Len(B) : ~(k <= 0) OBVIOUS
<1> QED BY <1>1, <1>2 DEF Stretch

\* Every step keeps what the client has seen: the hits of the pages it is through.
LEMMA StepSeen == IInv /\ [Next]_vars => SeenInv'
<1> SUFFICES ASSUME IInv, [Next]_vars PROVE SeenInv'
  OBVIOUS
<1> DEFINE upto == IF at = "answered" THEN size * page ELSE size * (page - 1)
           H == Hits(log, q)
           B == Hits(base, q)
<1>0. /\ Covers(seen, 0, upto)
      /\ at = "idle" => page = 1 /\ rows = <<>> /\ seen = <<>>
      /\ size \in Nat \ {0} /\ page \in Nat \ {0}
  BY Types DEF IInv, SeenInv
<1>g. ASSUME Stretch(H', B', seen', 0, upto'),
             at' = "idle" => page' = 1 /\ rows' = <<>> /\ seen' = <<>>
      PROVE  SeenInv'
  BY <1>g DEF SeenInv, Covers
<1> HIDE DEF H, B
<1>1. ASSUME UNCHANGED walkVars PROVE SeenInv'
  <2>1. q' = q /\ base' = base /\ seen' = seen /\ upto' = upto
    BY <1>1 DEF walkVars
  <2>2. Stretch(H', B', seen, 0, upto)
    BY <1>0, <2>1, CoversStay DEF H, B
  <2> QED BY <1>0, <1>1, <1>g, <2>1, <2>2 DEF walkVars
<1>2. ASSUME Search PROVE SeenInv'
  <2>1. seen' = <<>> /\ at' = "asked" /\ page' = 1 /\ size' \in Nat \ {0}
    BY <1>0, <1>2, RecordsAssumption DEF IInv, SeenInv, Search
  <2>2. upto' = 0
    <3>1. size' * (1 - 1) = 0 BY <2>1, Pages
    <3> QED BY <2>1, <3>1
  <2>3. Stretch(H', B', seen', 0, upto') BY <2>1, <2>2, EmptyStretch
  <2> QED BY <1>g, <2>1, <2>3
<1>3. ASSUME Done PROVE SeenInv'
  <2>1. seen' = <<>> /\ at' = "idle" /\ page' = 1 /\ size' = 1 /\ rows' = <<>>
    BY <1>3 DEF Done
  <2>2. upto' = 0
    <3>1. size' * (page' - 1) = 0 BY <2>1
    <3> QED BY <2>1, <3>1
  <2>3. Stretch(H', B', seen', 0, upto') BY <2>1, <2>2, EmptyStretch
  <2> QED BY <1>g, <2>1, <2>3
<1>4. ASSUME PullPage PROVE SeenInv'
  <2>1. /\ q' = q /\ base' = base /\ seen' = seen /\ at' = "counting" /\ upto' = upto
    BY <1>4 DEF PullPage
  <2>2. Stretch(H', B', seen, 0, upto)
    BY <1>0, <2>1, CoversStay DEF H, B
  <2> QED BY <1>g, <2>1, <2>2
<1>5. ASSUME NEW n, Answer(n) PROVE SeenInv'
  <2>1. /\ q' = q /\ base' = base /\ seen' = seen \o rows /\ at = "counting"
        /\ at' = "answered" /\ size' = size /\ page' = page
    BY <1>5 DEF Answer
  <2> DEFINE m == size * (page - 1)
             hi == size * page
  <2>2. m \in Nat /\ hi \in Nat /\ m <= hi /\ upto = m /\ upto' = hi
    <3>1. m \in Nat /\ hi \in Nat /\ hi = m + size BY <1>0, Pages
    <3> QED BY <1>0, <2>1, <3>1
  <2>3. Covers(seen, 0, m) /\ Covers(rows, m, hi)
    BY <1>0, <2>1, <2>2 DEF IInv, RowsInv
  <2> HIDE DEF m, hi, upto
  <2>4. Covers(seen \o rows, 0, hi)
    BY <2>2, <2>3, StretchesJoin, HitsTypes, Types DEF Covers
  <2>5. Stretch(H', B', seen \o rows, 0, hi)
    BY <2>1, <2>4, CoversStay DEF H, B
  <2> QED BY <1>g, <2>1, <2>2, <2>5
<1>6. ASSUME NextPage PROVE SeenInv'
  <2>1. /\ q' = q /\ base' = base /\ seen' = seen /\ at = "answered" /\ at' = "asked"
        /\ size' = size /\ page' = page + 1
    BY <1>6 DEF NextPage
  <2>2. upto' = upto
    <3>1. size * ((page + 1) - 1) = size * page BY <1>0, Pages
    <3> QED BY <2>1, <3>1
  <2>3. Stretch(H', B', seen, 0, upto)
    BY <1>0, <2>1, CoversStay DEF H, B
  <2> QED BY <1>g, <2>1, <2>2, <2>3
<1>7. ASSUME NEW r \in Requests, NEW opts \in Options, Fetch(r, opts) PROVE UNCHANGED walkVars
  BY <1>7 DEF Fetch
<1>8. ASSUME Record \/ FetchFails \/ UNCHANGED vars PROVE UNCHANGED walkVars
  BY <1>8 DEF Record, FetchFails, vars
<1>9. ASSUME CountPages \/ CountFails PROVE \E n : Answer(n)
  BY <1>9 DEF CountPages, CountFails
<1> QED
  BY <1>1, <1>2, <1>3, <1>4, <1>5, <1>6, <1>7, <1>8, <1>9 DEF Next, PullFails, EndWalk

\* Every step keeps the rows: the page asked for, of records that are found.
LEMMA StepRows == IInv /\ [Next]_vars => RowsInv'
<1> SUFFICES ASSUME IInv, [Next]_vars PROVE RowsInv'
  OBVIOUS
<1> DEFINE H == Hits(log, q)
           B == Hits(base, q)
           lo == size * (page - 1)
           hi == size * page
           Right(s) == \A r \in Range(s) : Found(r, q)
<1>0. Right(rows) /\ (at = "counting" => Covers(rows, lo, hi)) /\ content' = content
  BY TableSteps DEF IInv, RowsInv
<1>g. ASSUME Right(rows)', at' = "counting" => Stretch(H', B', rows', lo', hi')
      PROVE  RowsInv'
  BY <1>g DEF RowsInv, Covers
<1>r. ASSUME rows' = <<>> PROVE Right(rows)'
  <2>1. Range(<<>>) = {} BY DEF Range
  <2> QED BY <1>r, <2>1
<1>s. ASSUME rows' = rows, q' = q PROVE Right(rows)'
  BY <1>0, <1>s, HitsSteady
<1> HIDE DEF H, B, Right
<1>1. ASSUME UNCHANGED walkVars PROVE RowsInv'
  <2>1. q' = q /\ base' = base /\ rows' = rows /\ at' = at /\ lo' = lo /\ hi' = hi
    BY <1>1 DEF walkVars
  <2>2. at = "counting" => Stretch(H', B', rows, lo, hi)
    <3> HIDE DEF lo, hi
    <3> QED BY <1>0, <2>1, CoversStay DEF H, B
  <2> QED BY <1>g, <1>s, <2>1, <2>2
<1>2. ASSUME Search PROVE RowsInv'
  <2>1. rows' = <<>> /\ at' = "asked"
    BY <1>2 DEF Search, IInv, SeenInv
  <2> QED BY <1>g, <1>r, <2>1
<1>3. ASSUME Done PROVE RowsInv'
  BY <1>3, <1>g, <1>r DEF Done
<1>4. ASSUME PullPage PROVE RowsInv'
  <2>1. /\ rows' = PageOf(Hits(log, q)) /\ q' = q /\ base' = base
        /\ log' = log /\ lo' = lo /\ hi' = hi
    BY <1>4 DEF PullPage, tableVars
  <2> DEFINE P == PageOf(H)
  <2>2. lo \in Nat /\ hi \in Nat
    BY Types, Pages
  <2>3. H \in Seq(Requests) /\ B \in Seq(Requests) /\ Len(H) \in Nat /\ Len(B) \in Nat
    BY HitsTypes DEF H, B
  <2>4. /\ P \in Seq(Requests)
        /\ \A k \in 1..Len(P) : lo + k \in 1..Len(H) /\ lo + k <= hi /\ P[k] = H[lo + k]
        /\ \A k \in 1..Len(H) : lo < k /\ k <= hi =>
             k - lo \in 1..Len(P) /\ P[k - lo] = H[k]
    BY <2>3, PageCut
  <2>5. /\ DOMAIN P = 1..Len(P)
        /\ \A r \in Range(P) : \E k \in 1..Len(P) : P[k] = r
    BY <2>4 DEF Range
  <2> HIDE DEF lo, hi, P
  <2>6. IsInjective(P)
    <3> SUFFICES ASSUME NEW j \in 1..Len(P), NEW k \in 1..Len(P), P[j] = P[k] PROVE j = k
      BY <2>5 DEF IsInjective
    <3>1. H[lo + j] = H[lo + k] /\ lo + j \in 1..Len(H) /\ lo + k \in 1..Len(H)
      BY <2>4
    <3>2. lo + j = lo + k BY <3>1, HitsTypes DEF H
    <3> QED BY <2>2, <3>2
  <2>7. \A r \in Range(P) : \E k \in 1..Len(H) : lo < k /\ k <= hi /\ H[k] = r
    <3> SUFFICES ASSUME NEW r \in Range(P)
                 PROVE  \E k \in 1..Len(H) : lo < k /\ k <= hi /\ H[k] = r
      OBVIOUS
    <3>1. PICK k \in 1..Len(P) : P[k] = r BY <2>5
    <3>2. lo + k \in 1..Len(H) /\ lo < lo + k /\ lo + k <= hi /\ H[lo + k] = r
      BY <2>2, <2>4, <3>1
    <3> QED BY <3>2
  <2>8. \A k \in 1..Len(B) : lo < k /\ k <= hi => B[k] \in Range(P)
    <3> SUFFICES ASSUME NEW k \in 1..Len(B), lo < k, k <= hi PROVE B[k] \in Range(P)
      OBVIOUS
    <3>1. k \in 1..Len(H) /\ B[k] = H[k] BY <2>3, HitsTypes DEF H, B
    <3>2. k - lo \in DOMAIN P /\ P[k - lo] = B[k] BY <2>4, <2>5, <3>1
    <3> QED BY <3>2 DEF Range
  <2>9. Stretch(H, B, P, lo, hi)
    BY <2>6, <2>7, <2>8 DEF Stretch
  <2>10. H' = H /\ B' = B
    BY <1>0, <2>1, HitsSteady DEF H, B
  <2>11. Right(rows)'
    <3>1. rows' = P BY <2>1 DEF P, H
    <3>2. \A r \in Range(P) : r \in Range(H)
      BY <2>3, <2>7 DEF Range
    <3>3. \A r \in Range(H) : Found(r, q)
      <4>1. \A k \in 1..Len(H) : Found(H[k], q)
        BY Types, HitsAreFound DEF H
      <4> QED BY <2>3, <4>1 DEF Range
    <3> QED BY <1>0, <2>1, <3>1, <3>2, <3>3, HitsSteady DEF Right
  <2> QED BY <1>g, <2>1, <2>9, <2>10, <2>11 DEF P, H
<1>5. ASSUME \/ CountPages \/ CountFails \/ NextPage PROVE RowsInv'
  <2>1. rows' = rows /\ q' = q /\ at' # "counting"
    BY <1>5 DEF CountPages, CountFails, NextPage, Answer
  <2> QED BY <1>g, <1>s, <2>1
<1>6. ASSUME NEW r \in Requests, NEW opts \in Options, Fetch(r, opts) PROVE UNCHANGED walkVars
  BY <1>6 DEF Fetch
<1>7. ASSUME Record \/ FetchFails \/ UNCHANGED vars PROVE UNCHANGED walkVars
  BY <1>7 DEF Record, FetchFails, vars
<1> QED BY <1>1, <1>2, <1>3, <1>4, <1>5, <1>6, <1>7 DEF Next, PullFails, EndWalk

\* Every step keeps what the number of pages says of the page and of the walk.
LEMMA StepCount == IInv /\ [Next]_vars => CountInv'
<1> SUFFICES ASSUME IInv, [Next]_vars PROVE CountInv'
  OBVIOUS
<1>0. /\ at # "answered" => ~miscount
      /\ at = "answered" /\ miscount => pages = 0
      /\ at = "answered" /\ ~miscount =>
           Len(Hits(base, q)) <= size * pages /\ (rows # <<>> => page <= pages)
  BY DEF IInv, CountInv
<1>h. ASSUME q' = q, base' = base PROVE Hits(base, q)' = Hits(base, q)
  BY <1>h, TableSteps, HitsSteady
<1>1. ASSUME UNCHANGED walkVars PROVE CountInv'
  BY <1>0, <1>1, <1>h DEF CountInv, walkVars
<1>2. ASSUME Search \/ Done \/ PullPage PROVE CountInv'
  <2>1. at' # "answered" /\ ~miscount'
    BY <1>0, <1>2 DEF Search, Done, PullPage
  <2> QED BY <2>1 DEF CountInv
<1>3. ASSUME CountPages PROVE CountInv'
  <2> DEFINE n == Len(Hits(log, q))
             t == TotalPages(Hits(log, q))
  <2>1. /\ q' = q /\ base' = base /\ rows' = rows /\ page' = page /\ size' = size
        /\ pages' = t /\ ~miscount' /\ at = "counting"
    BY <1>0, <1>3 DEF CountPages, Answer
  <2>2. size \in Nat \ {0} /\ page \in Nat \ {0} /\ rows \in Seq(Requests) /\ n \in Nat
    BY Types, HitsTypes
  <2>3. /\ t \in Nat /\ n <= size * t
        /\ size * (page - 1) < n => page <= t
    <3> t = (n + size - 1) \div size BY DEF TotalPages
    <3> HIDE DEF n, t
    <3> QED BY <2>2, PagesHold
  <2>4. Len(Hits(base, q)) <= n /\ Len(Hits(base, q)) \in Nat
    BY HitsTypes
  <2>5. rows # <<>> => size * (page - 1) < n
    <3> SUFFICES ASSUME rows # <<>> PROVE size * (page - 1) < n
      OBVIOUS
    <3>1. rows[1] \in Range(rows)
      <4>1. 1 \in DOMAIN rows BY <2>2
      <4> QED BY <4>1 DEF Range
    <3>2. \A r \in Range(rows) : \E k \in 1..n : size * (page - 1) < k
      BY <2>1 DEF IInv, RowsInv, Covers, Stretch
    <3>3. PICK k \in 1..n : size * (page - 1) < k BY <3>1, <3>2
    <3>4. size * (page - 1) \in Nat BY <2>2, Pages
    <3> HIDE DEF n
    <3> QED BY <2>2, <3>3, <3>4
  <2>6. Len(Hits(base, q)) <= size * t
    <3>1. size * t \in Nat BY <2>2, <2>3
    <3> HIDE DEF n, t
    <3> QED BY <2>2, <2>3, <2>4, <3>1
  <2> HIDE DEF n, t
  <2> QED BY <1>h, <2>1, <2>3, <2>5, <2>6 DEF CountInv
<1>4. ASSUME CountFails PROVE CountInv'
  <2>1. pages' = 0 /\ miscount' /\ at' = "answered"
    BY <1>4 DEF CountFails, Answer
  <2> QED BY <2>1 DEF CountInv
<1>5. ASSUME NextPage PROVE CountInv'
  <2>1. at = "answered" /\ page < pages /\ at' = "asked" /\ miscount' = miscount
    BY <1>5 DEF NextPage
  <2>2. ~miscount BY <1>0, <2>1, Types
  <2> QED BY <2>1, <2>2 DEF CountInv
<1>6. ASSUME NEW r \in Requests, NEW opts \in Options, Fetch(r, opts) PROVE UNCHANGED walkVars
  BY <1>6 DEF Fetch
<1>7. ASSUME Record \/ FetchFails \/ UNCHANGED vars PROVE UNCHANGED walkVars
  BY <1>7 DEF Record, FetchFails, vars
<1> QED BY <1>1, <1>2, <1>3, <1>4, <1>5, <1>6, <1>7 DEF Next, PullFails, EndWalk

\* A buffer that has not been read has all its bytes.
LEMMA FreshBuffer ==
  ASSUME NEW S, NEW s \in Seq(S)
  PROVE  Bytes(NewBuffer(s)) = s
BY DEF Bytes, NewBuffer

\* What is written as hexadecimal digits is read back.
LEMMA HexInverts ==
  ASSUME NEW s \in Text
  PROVE  DecodeString(hex(s)) = s
<1> DEFINE n == Len(s)
           h == hex(s)
<1>1. n \in Nat /\ s \in [1..n -> Char] BY DEF Text
<1> HIDE DEF n
<1>2. \A i \in 1..(2 * n) : (i + 1) \div 2 \in 1..n BY <1>1
<1>3. h = [i \in 1..(2 * n) |-> HexOf[s[(i + 1) \div 2]][IF i % 2 = 1 THEN 1 ELSE 2]]
  BY DEF hex, n
<1> HIDE DEF h
<1>4. \A c \in Char : /\ HexOf[c][1] \in HexDigit /\ HexOf[c][2] \in HexDigit
                      /\ HexOf[c] = <<HexOf[c][1], HexOf[c][2]>>
  BY HexAssumption
<1>5. h \in [1..(2 * n) -> HexDigit]
  <2> SUFFICES ASSUME NEW i \in 1..(2 * n)
               PROVE  HexOf[s[(i + 1) \div 2]][IF i % 2 = 1 THEN 1 ELSE 2] \in HexDigit
    BY <1>3
  <2>1. s[(i + 1) \div 2] \in Char BY <1>1, <1>2
  <2> QED BY <1>4, <2>1
<1>6. Len(h) = 2 * n /\ 2 * n \in Nat BY <1>1, <1>5
<1>7. (2 * n) % 2 = 0 /\ (2 * n) \div 2 = n BY <1>1
<1>8. ASSUME NEW k \in 1..n PROVE HexOf[s[k]] = <<h[2 * k - 1], h[2 * k]>> /\ s[k] \in Char
  <2>1. /\ 2 * k - 1 \in 1..(2 * n) /\ 2 * k \in 1..(2 * n)
        /\ ((2 * k - 1) + 1) \div 2 = k /\ (2 * k + 1) \div 2 = k
        /\ (2 * k - 1) % 2 = 1 /\ (2 * k) % 2 = 0
    BY <1>1
  <2>2. h[2 * k - 1] = HexOf[s[k]][1] /\ h[2 * k] = HexOf[s[k]][2] BY <1>3, <2>1
  <2>3. s[k] \in Char BY <1>1
  <2> QED BY <1>4, <2>2, <2>3
<1>9. \A k \in 1..n, c \in Char : IsByte(c, h, k) <=> c = s[k]
  BY <1>8, HexAssumption DEF IsByte
<1>10. \A k \in 1..n : (CHOOSE c \in Char : IsByte(c, h, k)) = s[k]
  BY <1>8, <1>9
<1>11. DecodeString(h) = [k \in 1..n |-> CHOOSE c \in Char : IsByte(c, h, k)]
  BY <1>6, <1>7, <1>8, <1>9 DEF DecodeString
<1> QED BY <1>1, <1>10, <1>11 DEF h

\* The record of a row has the bodies that were captured.
LEMMA DecodedIs ==
  ASSUME NEW c \in Exchanges, Decoded(MakeRecord(c)) # Nothing
  PROVE  LET d == Decoded(MakeRecord(c))
         IN  /\ d.request_body = c.up /\ d.body = c.down
             /\ d.images = c.images /\ d.url = c.url
<1> DEFINE m == MakeRecord(c)
<1>1. c.up \in Text /\ c.down \in Text BY DEF Exchanges
<1>b. Bytes(NewBuffer(c.up)) = c.up /\ Bytes(NewBuffer(c.down)) = c.down
  BY <1>1, FreshBuffer DEF Text
<1> DEFINE kept == extractKeywords({NewBuffer(c.down), NewBuffer(c.up)})
           made == [host |-> c.host, method |-> c.method, status |-> c.status,
                    url |-> c.url, images |-> c.images, body |-> c.down,
                    request_body |-> c.up, keywords |-> kept]
<1>m. m = made BY <1>b DEF MakeRecord
<1> HIDE DEF kept, m
<1>2. m.request_body = c.up /\ m.body = c.down BY <1>m
<1>3. DecodeString(hex(c.up)) = c.up /\ DecodeString(hex(c.down)) = c.down
  BY <1>1, HexInverts
<1> DEFINE d == [m EXCEPT !.request_body = c.up, !.body = c.down]
<1>4. Decoded(m) = d BY <1>2, <1>3 DEF Decoded, m
<1>5. d.request_body = c.up /\ d.body = c.down /\ d.images = c.images /\ d.url = c.url
  BY <1>m
<1> HIDE DEF made, d
<1> QED BY <1>4, <1>5 DEF m

\* Every step keeps: what was fetched is what was captured.
LEMMA StepFetched == IInv /\ [Next]_vars => FetchedIsCaptured'
<1> SUFFICES ASSUME IInv, [Next]_vars PROVE FetchedIsCaptured'
  OBVIOUS
<1>0. content' = content /\ content \in [Requests -> Exchanges]
  BY TableSteps, RecordsAssumption DEF IInv, TableInv
<1>t. Range(log) \subseteq taken /\ \A r \in taken : content[r].read
  BY DEF IInv, TableInv
<1>l. Range(log) \subseteq Range(log')
  <2>1. \A i \in 1..Len(log) : i \in 1..Len(log') /\ log[i] = log'[i]
    BY LogGrows, Types
  <2>2. DOMAIN log = 1..Len(log) /\ DOMAIN log' = 1..Len(log') BY LogGrows, Types
  <2> QED BY <2>1, <2>2 DEF Range
<1>1. ASSUME got' = got PROVE FetchedIsCaptured'
  BY <1>0, <1>l, <1>1 DEF IInv, FetchedIsCaptured
<1>2. ASSUME got' = Nothing PROVE FetchedIsCaptured'
  BY <1>2 DEF FetchedIsCaptured
<1>3. ASSUME NEW r \in Requests, NEW opts \in Options, Fetch(r, opts), got' # Nothing
      PROVE  FetchedIsCaptured'
  <2> DEFINE c     == content[r]
             d     == Decoded(MakeRecord(c))
             side  == IF "request" \in opts THEN "request" ELSE "response"
             body  == IF side = "request" THEN c.up ELSE c.down
             reply == Reply(d, opts)
  <2>1. r \in Range(log) /\ getCaptureRecord(r) = d /\ d # Nothing
    BY <1>3 DEF Fetch, getCaptureRecord
  <2>2. reply # Nothing /\ got' = [of |-> r, opts |-> opts, reply |-> reply]
    BY <1>3, <2>1 DEF Fetch
  <2>3. c \in Exchanges BY <1>0
  <2>4. /\ d.request_body = c.up /\ d.body = c.down
        /\ d.images = c.images /\ d.url = c.url
    BY <2>1, <2>3, DecodedIs
  <2> HIDE DEF d
  <2>5. d.url BY <2>2 DEF Reply
  <2>6. /\ reply.data = IF "embed" \in opts /\ Gunzip(body) # NotGzip
                        THEN Gunzip(body) ELSE body
        /\ reply.type = IF "embed" \notin opts THEN "attachment"
                        ELSE IF side \in c.images THEN "image" ELSE "text"
    BY <2>4, <2>5 DEF Reply
  <2>7. got'.of = r /\ got'.opts = opts /\ got'.reply = reply
    BY <2>2
  <2> HIDE DEF reply
  <2>8. (reply.type = "image") <=> ("embed" \in opts /\ side \in c.images)
    <3>1. CASE "embed" \notin opts BY <2>6, <3>1
    <3>2. CASE "embed" \in opts /\ side \in c.images BY <2>6, <3>2
    <3>3. CASE "embed" \in opts /\ side \notin c.images BY <2>6, <3>3
    <3> QED BY <3>1, <3>2, <3>3
  <2>9. r \in Range(log') /\ c.read BY <1>l, <1>t, <2>1
  <2> QED BY <1>0, <2>6, <2>7, <2>8, <2>9 DEF FetchedIsCaptured
<1>4. ASSUME Search \/ FetchFails PROVE got' = Nothing
  BY <1>4 DEF Search, FetchFails
<1>5. ASSUME \/ Record \/ PullPage \/ PullFails \/ CountPages \/ CountFails
             \/ NextPage \/ EndWalk \/ UNCHANGED vars
      PROVE  got' = got
  BY <1>5 DEF Record, PullPage, PullFails, CountPages, CountFails, Answer, NextPage, EndWalk,
              Done, vars
<1> QED BY <1>1, <1>2, <1>3, <1>4, <1>5 DEF Next

\* Every step keeps the inductive invariant.
LEMMA StepIInv == IInv /\ [Next]_vars => IInv'
BY StepTypeOK, StepTable, StepBase, StepSeen, StepRows, StepCount, StepFetched DEF IInv

\* The inductive invariant of RecordsAPI.
LEMMA Inductive == Spec => []IInv
BY InitIInv, StepIInv, PTL DEF Spec

-----------------------------------------------------------------------------
(* Words and texts                                                         *)

\* t is part of s, from the character after the o-th.
Sits(t, s) ==
  \E o \in Nat : o + Len(t) <= Len(s) /\ \A k \in 1..Len(t) : t[k] = s[o + k]

\* The characters of a part of s.
LEMMA Cut ==
  ASSUME NEW S, NEW s \in Seq(S), NEW a \in Nat \ {0}, NEW b \in Nat, b <= Len(s)
  PROVE  /\ SubSeq(s, a, b) \in Seq(S)
         /\ Len(SubSeq(s, a, b)) = IF a <= b THEN b - a + 1 ELSE 0
         /\ \A k \in 1..Len(SubSeq(s, a, b)) : SubSeq(s, a, b)[k] = s[(a - 1) + k]
<1>1. \A k \in a..b : k \in 1..Len(s)
  OBVIOUS
<1>2. /\ SubSeq(s, a, b) \in Seq(S)
      /\ Len(SubSeq(s, a, b)) = IF a <= b THEN b - a + 1 ELSE 0
  BY <1>1
<1>3. \A k \in 1..Len(SubSeq(s, a, b)) : SubSeq(s, a, b)[k] = s[(a - 1) + k]
  BY <1>1
<1> QED BY <1>2, <1>3

\* To occur is to sit somewhere.
LEMMA OccursSits ==
  ASSUME NEW S, NEW s \in Seq(S), NEW t \in Seq(S)
  PROVE  Occurs(t, s) <=> Sits(t, s)
<1>0. Len(s) \in Nat /\ Len(t) \in Nat OBVIOUS
<1>1. ASSUME NEW u \in Seq(S)
      PROVE  IsPrefix(t, u) <=> Len(t) <= Len(u) /\ \A k \in 1..Len(t) : t[k] = u[k]
  <2>1. CASE Len(t) <= Len(u)
    <3>1. /\ SubSeq(t, 1, Len(t)) = t /\ SubSeq(u, 1, Len(t)) \in Seq(S)
          /\ Len(SubSeq(u, 1, Len(t))) = Len(t)
          /\ \A k \in 1..Len(t) : SubSeq(u, 1, Len(t))[k] = u[k]
      BY <2>1
    <3>2. t = SubSeq(u, 1, Len(t)) <=> \A k \in 1..Len(t) : t[k] = u[k]
      BY <3>1
    <3> QED BY <2>1, <3>1, <3>2 DEF IsPrefix
  <2>2. CASE ~(Len(t) <= Len(u)) BY <2>2 DEF IsPrefix
  <2> QED BY <2>1, <2>2
<1>2. ASSUME Occurs(t, s) PROVE Sits(t, s)
  <2>1. PICK u \in Suffixes(s) : IsPrefix(t, u) BY <1>2 DEF Occurs
  <2>2. CASE u = <<>>
    <3>1. u \in Seq(S) /\ Len(u) = 0 BY <2>2
    <3>2. Len(t) <= Len(u) BY <1>1, <2>1, <3>1
    <3>3. Len(t) = 0 BY <1>0, <3>1, <3>2
    <3>4. 0 + Len(t) <= Len(s) /\ \A k \in 1..Len(t) : t[k] = s[0 + k] BY <1>0, <3>3
    <3> QED BY <3>4 DEF Sits
  <2>3. ASSUME NEW l \in 1..Len(s), u = SubSeq(s, l, Len(s)) PROVE Sits(t, s)
    <3>1. /\ u \in Seq(S) /\ Len(u) = Len(s) - l + 1
          /\ \A k \in 1..Len(u) : u[k] = s[(l - 1) + k]
      BY <1>0, <2>3, Cut
    <3>2. Len(t) <= Len(u) /\ \A k \in 1..Len(t) : t[k] = u[k] BY <1>1, <2>1, <3>1
    <3>3. /\ l - 1 \in Nat /\ (l - 1) + Len(t) <= Len(s)
          /\ \A k \in 1..Len(t) : t[k] = s[(l - 1) + k]
      BY <1>0, <3>1, <3>2
    <3> QED BY <3>3 DEF Sits
  <2> QED BY <2>1, <2>2, <2>3 DEF Suffixes
<1>3. ASSUME Sits(t, s) PROVE Occurs(t, s)
  <2>1. PICK o \in Nat : o + Len(t) <= Len(s) /\ \A k \in 1..Len(t) : t[k] = s[o + k]
    BY <1>3 DEF Sits
  <2>2. CASE Len(t) = 0
    <3>1. <<>> \in Seq(S) /\ <<>> \in Suffixes(s) BY DEF Suffixes
    <3>2. Len(t) <= Len(<<>>) /\ \A k \in 1..Len(t) : t[k] = <<>>[k] BY <2>2
    <3>3. IsPrefix(t, <<>>) BY <1>1, <3>1, <3>2
    <3> QED BY <3>1, <3>3 DEF Occurs
  <2>3. CASE Len(t) # 0
    <3> DEFINE u == SubSeq(s, o + 1, Len(s))
    <3>1. o + 1 \in 1..Len(s) /\ o + 1 \in Nat \ {0} BY <1>0, <2>1, <2>3
    <3>2. /\ u \in Seq(S) /\ Len(u) = Len(s) - o
          /\ \A k \in 1..Len(u) : u[k] = s[((o + 1) - 1) + k]
      <4>1. /\ u \in Seq(S) /\ Len(u) = IF o + 1 <= Len(s) THEN Len(s) - (o + 1) + 1 ELSE 0
            /\ \A k \in 1..Len(u) : u[k] = s[((o + 1) - 1) + k]
        BY <1>0, <3>1, Cut
      <4> HIDE DEF u
      <4> QED BY <1>0, <3>1, <4>1
    <3>3. u \in Suffixes(s) BY <3>1 DEF Suffixes
    <3> HIDE DEF u
    <3>4. Len(t) <= Len(u) /\ \A k \in 1..Len(t) : t[k] = u[k]
      <4>1. Len(t) <= Len(u) BY <1>0, <2>1, <3>2
      <4>2. ASSUME NEW k \in 1..Len(t) PROVE t[k] = u[k]
        <5>1. k \in 1..Len(u) /\ ((o + 1) - 1) + k = o + k BY <1>0, <3>2, <4>1
        <5> QED BY <2>1, <3>2, <5>1
      <4> QED BY <4>1, <4>2
    <3> QED BY <1>1, <3>2, <3>3, <3>4 DEF Occurs
  <2> QED BY <2>2, <2>3
<1> QED BY <1>2, <1>3

\* A part of a part is a part.
LEMMA SitsTransitive ==
  ASSUME NEW S, NEW s \in Seq(S), NEW t \in Seq(S), NEW u \in Seq(S),
         Sits(s, t), Sits(t, u)
  PROVE  Sits(s, u)
<1>0. Len(s) \in Nat /\ Len(t) \in Nat /\ Len(u) \in Nat OBVIOUS
<1>1. PICK m \in Nat : m + Len(s) <= Len(t) /\ \A k \in 1..Len(s) : s[k] = t[m + k]
  BY DEF Sits
<1>2. PICK n \in Nat : n + Len(t) <= Len(u) /\ \A k \in 1..Len(t) : t[k] = u[n + k]
  BY DEF Sits
<1>3. n + m \in Nat /\ (n + m) + Len(s) <= Len(u)
  BY <1>0, <1>1, <1>2
<1>4. ASSUME NEW k \in 1..Len(s) PROVE s[k] = u[(n + m) + k]
  <2>1. m + k \in 1..Len(t) /\ n + (m + k) = (n + m) + k BY <1>0, <1>1
  <2> QED BY <1>1, <1>2, <2>1
<1> QED BY <1>3, <1>4 DEF Sits

\* A part of a text sits in it, and in every larger part.
LEMMA CutSits ==
  ASSUME NEW S, NEW s \in Seq(S), NEW a \in Nat \ {0}, NEW b \in Nat, b <= Len(s),
         NEW i \in Nat, NEW j \in Nat, a <= i, i <= j, j <= b
  PROVE  Sits(SubSeq(s, i, j), SubSeq(s, a, b)) /\ Sits(SubSeq(s, a, b), s)
<1> DEFINE t == SubSeq(s, i, j)
           u == SubSeq(s, a, b)
<1>0. Len(s) \in Nat OBVIOUS
<1>1. Len(t) = j - i + 1 /\ \A k \in 1..Len(t) : t[k] = s[(i - 1) + k]
  BY <1>0, Cut
<1>2. Len(u) = b - a + 1 /\ \A k \in 1..Len(u) : u[k] = s[(a - 1) + k]
  BY <1>0, Cut
<1> HIDE DEF t, u
<1>3. i - a \in Nat /\ (i - a) + Len(t) <= Len(u)
  BY <1>1, <1>2
<1>4. ASSUME NEW k \in 1..Len(t) PROVE t[k] = u[(i - a) + k]
  <2>1. (i - a) + k \in 1..Len(u) /\ (a - 1) + ((i - a) + k) = (i - 1) + k
    BY <1>1, <1>2
  <2> QED BY <1>1, <1>2, <2>1
<1>5. Sits(t, u) BY <1>3, <1>4 DEF Sits
<1>6. a - 1 \in Nat /\ (a - 1) + Len(u) <= Len(s) BY <1>0, <1>2
<1>7. Sits(u, s) BY <1>2, <1>6 DEF Sits
<1> QED BY <1>5, <1>7 DEF t, u

\* A text in lower case has its letters in the same places.
LEMMA LowerKeeps ==
  ASSUME NEW s \in Text
  PROVE  /\ Lower(s) \in Text /\ Len(Lower(s)) = Len(s)
         /\ \A k \in 1..Len(s) :
              /\ Lower(s)[k] = IF s[k] \in Safe THEN LowerOf[s[k]] ELSE s[k]
              /\ (Lower(s)[k] \in Safe) <=> (s[k] \in Safe)
<1> DEFINE C == Safe \cup Unsafe \cup {Blank}
           low(c) == IF c \in Safe THEN LowerOf[c] ELSE c
<1>1. s \in Seq(C) /\ Len(s) \in Nat /\ DOMAIN s = 1..Len(s) /\ \A k \in 1..Len(s) : s[k] \in C
  BY DEF Text, Char
<1>2. \A c \in C : low(c) \in C /\ (low(c) \in Safe <=> c \in Safe)
  BY KeywordsAssumption
<1>3. Lower(s) = [k \in 1..Len(s) |-> low(s[k])]
  BY <1>1 DEF Lower
<1> HIDE DEF C, low
<1>4. Lower(s) \in [1..Len(s) -> C]
  BY <1>1, <1>2, <1>3
<1>5. Lower(s) \in Seq(C) /\ Len(Lower(s)) = Len(s)
  BY <1>1, <1>4
<1>6. \A k \in 1..Len(s) : Lower(s)[k] = low(s[k]) /\ (Lower(s)[k] \in Safe <=> s[k] \in Safe)
  BY <1>1, <1>2, <1>3
<1> QED BY <1>5, <1>6 DEF Text, Char, C, low

\* A part of a text in lower case is the part in lower case.
LEMMA LowerSits ==
  ASSUME NEW s \in Text, NEW t \in Text, Sits(s, t)
  PROVE  Sits(Lower(s), Lower(t))
<1>0. Len(s) \in Nat /\ Len(t) \in Nat BY DEF Text, Char
<1>1. PICK o \in Nat : o + Len(s) <= Len(t) /\ \A k \in 1..Len(s) : s[k] = t[o + k]
  BY DEF Sits
<1>2. ASSUME NEW k \in 1..Len(s) PROVE Lower(s)[k] = Lower(t)[o + k]
  <2>1. o + k \in 1..Len(t) BY <1>0, <1>1
  <2>2. s[k] = t[o + k] BY <1>1
  <2> QED BY <2>1, <2>2, LowerKeeps
<1>3. Len(Lower(s)) = Len(s) /\ Len(Lower(t)) = Len(t) BY LowerKeeps
<1> QED BY <1>1, <1>2, <1>3 DEF Sits

\* The beginning of a text.
LEMMA PrefixIs ==
  ASSUME NEW S, NEW s \in Seq(S), NEW n \in Nat
  PROVE  /\ Prefix(s, n) \in Seq(S)
         /\ Len(Prefix(s, n)) = IF Len(s) < n THEN Len(s) ELSE n
         /\ \A k \in 1..Len(Prefix(s, n)) : Prefix(s, n)[k] = s[k]
         /\ Sits(Prefix(s, n), s)
<1> DEFINE e == IF Len(s) < n THEN Len(s) ELSE n
<1>1. e \in Nat /\ e <= Len(s) /\ Len(s) \in Nat /\ Prefix(s, n) = SubSeq(s, 1, e)
  BY DEF Prefix
<1> DEFINE p == SubSeq(s, 1, e)
<1>2. /\ p \in Seq(S) /\ Len(p) = IF 1 <= e THEN e - 1 + 1 ELSE 0
      /\ \A k \in 1..Len(p) : p[k] = s[(1 - 1) + k]
  <2> HIDE DEF e
  <2> QED BY <1>1, Cut
<1>3. /\ p \in Seq(S) /\ Len(p) = e /\ Len(p) <= Len(s)
      /\ \A k \in 1..Len(p) : p[k] = s[k] /\ p[k] = s[0 + k]
  <2> HIDE DEF p, e
  <2> QED BY <1>1, <1>2
<1>4. Sits(p, s)
  <2>1. 0 \in Nat /\ 0 + Len(p) <= Len(s)
    <3> HIDE DEF p, e
    <3> QED BY <1>1, <1>3
  <2> HIDE DEF p
  <2> QED BY <1>3, <2>1 DEF Sits
<1> QED BY <1>1, <1>3, <1>4

\* The least element of a set of numbers is where a search by the order of
\* numbers ends, the greatest one is where a search from above does.
LEMMA Extremes ==
  ASSUME NEW n \in Nat, NEW T \in SUBSET (1..n), T # {}
  PROVE  /\ \E x \in T : \A y \in T : x <= y
         /\ \E x \in T : \A y \in T : y <= x
<1> DEFINE Less == {ss \in Nat \X Nat : ss[1] < ss[2]}
<1>1. IsWellFoundedOn(Less, Nat)
  BY NatLessThanWellFounded DEF OpToRel
<1>2. \A x, y \in Nat : y < x => <<y, x>> \in Less
  OBVIOUS
<1> HIDE DEF Less
<1>3. ASSUME NEW D \in SUBSET Nat, D # {} PROVE \E x \in D : \A y \in D : x <= y
  <2>1. PICK x \in D : \A y \in D : ~(<<y, x>> \in Less)
    BY <1>1, <1>3, WFMin
  <2>2. ASSUME NEW y \in D PROVE x <= y
    <3>1. x \in Nat /\ y \in Nat OBVIOUS
    <3>2. ~(y < x) BY <1>2, <2>1, <3>1
    <3> QED BY <3>1, <3>2
  <2> QED BY <2>2
<1>4. \A x \in T : x \in Nat /\ n - x \in Nat
  OBVIOUS
<1>5. \E x \in T : \A y \in T : x <= y
  BY <1>3, <1>4
<1>6. \E x \in T : \A y \in T : y <= x
  <2> DEFINE D == {n - x : x \in T}
  <2>1. D \in SUBSET Nat /\ D # {} BY <1>4
  <2>2. PICK d \in D : \A y \in D : d <= y
    <3> HIDE DEF D
    <3> QED BY <1>3, <2>1
  <2>3. PICK x \in T : d = n - x OBVIOUS
  <2>4. ASSUME NEW y \in T PROVE y <= x
    <3>1. n - y \in D OBVIOUS
    <3>2. n - x <= n - y BY <2>2, <2>3, <3>1
    <3> QED BY <1>4, <3>2
  <2> QED BY <2>4
<1> QED BY <1>5, <1>6

\* Every stretch of safe characters is within a word.
LEMMA WithinWord ==
  ASSUME NEW s \in Text, NEW i \in 1..Len(s), NEW j \in 1..Len(s), i <= j,
         \A k \in i..j : s[k] \in Safe
  PROVE  \E w \in Words(s) : Len(w) >= j - i + 1 /\ Sits(SubSeq(s, i, j), w)
<1> DEFINE n == Len(s)
           Before == {x \in 1..n : x <= i /\ \A k \in x..i : s[k] \in Safe}
           After  == {x \in 1..n : j <= x /\ \A k \in j..x : s[k] \in Safe}
<1>0. n \in Nat BY DEF Text, Char
<1>1. i \in Before /\ j \in After
  OBVIOUS
<1>2. PICK a \in Before : \A x \in Before : a <= x
  <2>1. Before \in SUBSET (1..n) /\ Before # {} BY <1>1
  <2> HIDE DEF Before, n
  <2> QED BY <1>0, <2>1, Extremes
<1>3. PICK b \in After : \A x \in After : x <= b
  <2>1. After \in SUBSET (1..n) /\ After # {} BY <1>1
  <2> HIDE DEF After, n
  <2> QED BY <1>0, <2>1, Extremes
<1>4. /\ a \in 1..n /\ b \in 1..n /\ a <= i /\ j <= b
      /\ \A k \in a..i : s[k] \in Safe
      /\ \A k \in j..b : s[k] \in Safe
  OBVIOUS
<1>5. \A k \in a..b : s[k] \in Safe
  <2> SUFFICES ASSUME NEW k \in a..b PROVE s[k] \in Safe
    OBVIOUS
  <2>1. k \in a..i \/ k \in i..j \/ k \in j..b BY <1>0, <1>4
  <2> QED BY <1>4, <2>1
<1>6. a = 1 \/ s[a - 1] \notin Safe
  <2> SUFFICES ASSUME a # 1, s[a - 1] \in Safe PROVE FALSE
    OBVIOUS
  <2>1. a - 1 \in 1..n /\ a - 1 <= i BY <1>0, <1>4
  <2>2. ASSUME NEW k \in (a - 1)..i PROVE s[k] \in Safe
    <3>1. k = a - 1 \/ k \in a..i BY <1>0, <1>4
    <3> QED BY <1>4, <3>1
  <2>3. a - 1 \in Before BY <2>1, <2>2
  <2>4. a <= a - 1 BY <1>2, <2>3
  <2> QED BY <1>4, <2>4
<1>7. b = n \/ s[b + 1] \notin Safe
  <2> SUFFICES ASSUME b # n, s[b + 1] \in Safe PROVE FALSE
    OBVIOUS
  <2>1. b + 1 \in 1..n /\ j <= b + 1 BY <1>0, <1>4
  <2>2. ASSUME NEW k \in j..(b + 1) PROVE s[k] \in Safe
    <3>1. k = b + 1 \/ k \in j..b BY <1>0, <1>4
    <3> QED BY <1>4, <3>1
  <2>3. b + 1 \in After BY <2>1, <2>2
  <2>4. b + 1 <= b BY <1>3, <2>3
  <2> QED BY <1>4, <2>4
<1> DEFINE w == SubSeq(s, a, b)
<1>8. a <= b BY <1>0, <1>4
<1>9. w \in Words(s)
  <2> DEFINE Ends == {p \in (1..n) \X (1..n) :
                       /\ p[1] <= p[2] /\ \A k \in p[1]..p[2] : s[k] \in Safe
                       /\ p[1] = 1 \/ s[p[1] - 1] \notin Safe
                       /\ p[2] = n \/ s[p[2] + 1] \notin Safe}
  <2>1. <<a, b>> \in (1..n) \X (1..n) /\ <<a, b>>[1] = a /\ <<a, b>>[2] = b
    <3> HIDE DEF n
    <3> QED BY <1>4
  <2>2. <<a, b>> \in Ends
    <3> HIDE DEF n
    <3> QED BY <1>5, <1>6, <1>7, <1>8, <2>1
  <2>3. Words(s) = {SubSeq(s, p[1], p[2]) : p \in Ends} BY DEF Words
  <2> HIDE DEF Ends
  <2> QED BY <2>1, <2>2, <2>3
<1>10. Len(w) = b - a + 1 /\ Sits(SubSeq(s, i, j), w)
  <2>1. a \in Nat \ {0} /\ b \in Nat /\ b <= n /\ i \in Nat /\ j \in Nat BY <1>0, <1>4
  <2>2. s \in Seq(Safe \cup Unsafe \cup {Blank}) BY DEF Text, Char
  <2>3. Sits(SubSeq(s, i, j), w) BY <1>4, <2>1, <2>2, CutSits
  <2>4. Len(w) = b - a + 1 BY <1>8, <2>1, <2>2, Cut
  <2> QED BY <2>3, <2>4
<1>11. b - a + 1 >= j - i + 1 BY <1>0, <1>4
<1> QED BY <1>9, <1>10, <1>11

\* A word is a part of its text.
LEMMA WordSits ==
  ASSUME NEW s \in Text, NEW w \in Words(s)
  PROVE  w \in Text /\ Len(w) \in Nat /\ Sits(w, s)
<1> DEFINE S == Safe \cup Unsafe \cup {Blank}
<1>1. s \in Seq(S) /\ Len(s) \in Nat BY DEF Text, Char
<1>2. PICK i \in 1..Len(s), j \in 1..Len(s) : i <= j /\ w = SubSeq(s, i, j)
  BY DEF Words
<1>3. i \in Nat \ {0} /\ j \in Nat /\ j <= Len(s) BY <1>1
<1> HIDE DEF S
<1>4. w \in Seq(S) BY <1>1, <1>2, <1>3, Cut
<1>5. Sits(w, s) BY <1>1, <1>2, <1>3, CutSits
<1> QED BY <1>4, <1>5 DEF Text, Char, S

\* What a body decompresses to is a text.
IsBody(s) == s \in Text /\ Gunzip(s) \in Text \cup {NotGzip}

\* The text of a body is longer than what its search covers, and begins with it.
LEMMA PeekIs ==
  ASSUME NEW s, IsBody(s)
  PROVE  LET text == peek(NewBuffer(s))
         IN  /\ text \in Text /\ Searchable(s) \in Text
             /\ Len(Searchable(s)) <= Len(text)
             /\ \A k \in 1..Len(Searchable(s)) : Searchable(s)[k] = text[k]
             /\ Sits(text, s) \/ (Gunzip(s) # NotGzip /\ Sits(text, Gunzip(s)))
<1> DEFINE text == peek(NewBuffer(s))
           dst  == Gunzip(s)
<1>1. s \in Seq(Char) /\ (dst # NotGzip => dst \in Seq(Char)) BY DEF IsBody, Text
<1>2. PeekLength \in Nat /\ ReadAhead + PeekLength \in Nat /\ ReadAhead \in Nat
  BY KeywordsAssumption
<1>b. Bytes(NewBuffer(s)) = s BY <1>1, FreshBuffer
<1> HIDE DEF dst
<1>3. CASE dst # NotGzip /\ Len(dst) >= PeekLength
  <2>1. text = Prefix(dst, PeekLength) /\ Searchable(s) = Prefix(dst, PeekLength)
    BY <1>b, <1>3 DEF peek, Searchable, dst
  <2> QED BY <1>1, <1>2, <1>3, <2>1, PrefixIs DEF Text, dst
<1>4. CASE dst # NotGzip /\ ~(Len(dst) >= PeekLength)
  <2>1. text = Prefix(s, ReadAhead + PeekLength) /\ Searchable(s) = <<>>
    BY <1>b, <1>4 DEF peek, Searchable, dst
  <2>2. text \in Seq(Char) /\ Sits(text, s) BY <1>1, <1>2, <2>1, PrefixIs
  <2>3. Searchable(s) \in Seq(Char) /\ Len(Searchable(s)) = 0 BY <2>1
  <2>4. Len(text) \in Nat BY <2>2
  <2> HIDE DEF text
  <2> QED BY <2>2, <2>3, <2>4 DEF Text, text
<1>5. CASE dst = NotGzip
  <2> DEFINE t == Prefix(s, PeekLength)
  <2>1. text = Prefix(s, ReadAhead + PeekLength) /\ Searchable(s) = t
    BY <1>b, <1>5 DEF peek, Searchable, dst
  <2> HIDE DEF text
  <2>2. /\ text \in Seq(Char) /\ Sits(text, s)
        /\ Len(text) = IF Len(s) < ReadAhead + PeekLength
                       THEN Len(s) ELSE ReadAhead + PeekLength
        /\ \A k \in 1..Len(text) : text[k] = s[k]
    BY <1>1, <1>2, <2>1, PrefixIs
  <2>3. /\ t \in Seq(Char)
        /\ Len(t) = IF Len(s) < PeekLength THEN Len(s) ELSE PeekLength
        /\ \A k \in 1..Len(t) : t[k] = s[k]
    BY <1>1, <1>2, PrefixIs
  <2>4. Len(s) \in Nat BY <1>1
  <2> HIDE DEF t
  <2>5. Len(t) <= Len(text) BY <1>2, <2>2, <2>3, <2>4
  <2>6. \A k \in 1..Len(t) : t[k] = text[k]
    <3> SUFFICES ASSUME NEW k \in 1..Len(t) PROVE t[k] = text[k]
      OBVIOUS
    <3>1. k \in 1..Len(text) BY <2>2, <2>3, <2>5
    <3> QED BY <2>2, <2>3, <3>1
  <2> QED BY <2>1, <2>2, <2>3, <2>5, <2>6 DEF Text, text
<1> QED BY <1>3, <1>4, <1>5

\* A keyword of a body is a part of its text in lower case.
LEMMA KeywordSits ==
  ASSUME NEW s, IsBody(s), NEW w \in Words(Lower(peek(NewBuffer(s))))
  PROVE  /\ w \in Text
         /\ \/ Sits(w, Lower(s))
            \/ Gunzip(s) # NotGzip /\ Sits(w, Lower(Gunzip(s)))
<1> DEFINE p   == peek(NewBuffer(s))
           dst == Gunzip(s)
<1>1. s \in Text /\ (dst # NotGzip => dst \in Text) BY DEF IsBody
<1>2. p \in Text /\ (Sits(p, s) \/ (dst # NotGzip /\ Sits(p, dst))) BY PeekIs
<1> HIDE DEF p, dst
<1>3. /\ Lower(p) \in Text /\ Lower(s) \in Text /\ (dst # NotGzip => Lower(dst) \in Text)
      /\ Sits(Lower(p), Lower(s)) \/ (dst # NotGzip /\ Sits(Lower(p), Lower(dst)))
  BY <1>1, <1>2, LowerKeeps, LowerSits
<1>4. w \in Text /\ Sits(w, Lower(p)) BY <1>3, WordSits DEF p
<1>5. /\ w \in Seq(Char) /\ Lower(p) \in Seq(Char)
      /\ Lower(s) \in Seq(Char) /\ (dst # NotGzip => Lower(dst) \in Seq(Char))
  BY <1>3, <1>4 DEF Text
<1> QED BY <1>3, <1>4, <1>5, SitsTransitive DEF dst

\* What may be expected to be found in a body is part of a keyword.
LEMMA WordIsKept ==
  ASSUME NEW b, IsBody(b), NEW buffers, NewBuffer(b) \in buffers, NEW t \in Text,
         InWord(t, Searchable(b))
  PROVE  \E w \in extractKeywords(buffers) : Occurs(Lower(t), w)
<1> DEFINE S == Safe \cup Unsafe \cup {Blank}
           s == Searchable(b)
           p == peek(NewBuffer(b))
           L == Lower(p)
<1>1. /\ p \in Text /\ s \in Text /\ Len(s) <= Len(p)
      /\ \A k \in 1..Len(s) : s[k] = p[k]
  BY PeekIs
<1>i. PICK i \in 1..Len(s) : \E j \in (i + MinWord - 1)..Len(s) :
        (\A k \in i..j : s[k] \in Safe) /\ Occurs(Lower(t), Lower(SubSeq(s, i, j)))
  BY DEF InWord
<1>2. PICK j \in (i + MinWord - 1)..Len(s) :
        (\A k \in i..j : s[k] \in Safe) /\ Occurs(Lower(t), Lower(SubSeq(s, i, j)))
  BY <1>i
<1>3. MinWord \in Nat \ {0} BY KeywordsAssumption
<1> HIDE DEF s, p
<1>4. Len(s) \in Nat /\ Len(p) \in Nat /\ s \in Seq(S) /\ p \in Seq(S) BY <1>1 DEF Text, Char
<1>5. /\ i \in 1..Len(s) /\ j \in 1..Len(s) /\ i \in 1..Len(p) /\ j \in 1..Len(p)
      /\ i <= j /\ j - i + 1 >= MinWord /\ i \in Nat \ {0} /\ j \in Nat /\ j <= Len(s)
  BY <1>1, <1>2, <1>3, <1>4
<1>6. L \in Text /\ Len(L) = Len(p) /\ \A k \in 1..Len(p) : (L[k] \in Safe) <=> (p[k] \in Safe)
  BY <1>1, LowerKeeps
<1>7. \A k \in i..j : k \in 1..Len(s) /\ k \in 1..Len(p)
  BY <1>4, <1>5
<1>8. \A k \in i..j : L[k] \in Safe
  BY <1>1, <1>2, <1>6, <1>7
<1> HIDE DEF L
<1>9. PICK w \in Words(L) : Len(w) >= j - i + 1 /\ Sits(SubSeq(L, i, j), w)
  <2>1. i \in 1..Len(L) /\ j \in 1..Len(L) BY <1>5, <1>6
  <2> QED BY <1>5, <1>6, <1>8, <2>1, WithinWord
<1>10. w \in Text /\ Len(w) \in Nat
  BY <1>6, WordSits
<1>11. w \in extractKeywords(buffers)
  <2>1. Len(w) >= MinWord BY <1>3, <1>5, <1>9, <1>10
  <2>2. w \in UNION {Words(Lower(peek(x))) : x \in buffers} BY <1>9 DEF L, p
  <2> QED BY <2>1, <2>2 DEF extractKeywords
<1> DEFINE c == SubSeq(s, i, j)
           d == SubSeq(L, i, j)
<1>12. /\ c \in Seq(S) /\ Len(c) = j - i + 1 /\ \A k \in 1..Len(c) : c[k] = s[(i - 1) + k]
  BY <1>4, <1>5, Cut
<1>13. /\ d \in Seq(S) /\ Len(d) = j - i + 1 /\ \A k \in 1..Len(d) : d[k] = L[(i - 1) + k]
  <2>1. L \in Seq(S) /\ j <= Len(L) BY <1>5, <1>6 DEF Text, Char
  <2> QED BY <1>5, <2>1, Cut
<1> HIDE DEF c, d
<1>14. Lower(c) = d
  <2>1. c \in Text BY <1>12 DEF Text, Char
  <2>2. Lower(c) \in Seq(S) /\ Len(Lower(c)) = Len(d)
    BY <1>12, <1>13, <2>1, LowerKeeps DEF Text, Char
  <2>3. ASSUME NEW k \in 1..Len(d) PROVE Lower(c)[k] = d[k]
    <3>1. k \in 1..Len(c) /\ (i - 1) + k \in i..j BY <1>5, <1>12, <1>13
    <3>2. c[k] = p[(i - 1) + k] BY <1>1, <1>7, <1>12, <3>1
    <3>3. Lower(c)[k] = IF c[k] \in Safe THEN LowerOf[c[k]] ELSE c[k]
      BY <2>1, <3>1, LowerKeeps
    <3>4. L[(i - 1) + k] = IF p[(i - 1) + k] \in Safe
                           THEN LowerOf[p[(i - 1) + k]] ELSE p[(i - 1) + k]
      BY <1>1, <1>7, <3>1, LowerKeeps DEF L
    <3> QED BY <1>13, <3>2, <3>3, <3>4
  <2> HIDE DEF S
  <2> QED BY <1>13, <2>2, <2>3
<1> HIDE DEF S
<1>15. Lower(t) \in Seq(S) /\ w \in Seq(S) BY <1>10, LowerKeeps DEF Text, Char, S
<1>16. Sits(Lower(t), d)
  <2>1. Occurs(Lower(t), d) BY <1>2, <1>14 DEF c
  <2> QED BY <1>13, <1>15, <2>1, OccursSits
<1>17. Sits(Lower(t), w) BY <1>9, <1>13, <1>15, <1>16, SitsTransitive DEF d
<1>18. Occurs(Lower(t), w) BY <1>15, <1>17, OccursSits
<1> QED BY <1>11, <1>18

-----------------------------------------------------------------------------
(* What follows                                                            *)

\* A term of the search is a text, and the bodies of an exchange are bodies.
LEMMA Terms ==
  ASSUME IInv, NEW r \in Requests
  PROVE  /\ \A t \in Words(q) : t \in Text
         /\ IsBody(content[r].up) /\ IsBody(content[r].down)
         /\ content[r].host \in Text /\ content[r].method \in Text
<1>1. content \in Contents /\ content \in [Requests -> Exchanges]
  BY RecordsAssumption DEF IInv, TableInv
<1>2. \A body \in {content[r].up, content[r].down} : Gunzip(body) \in Text \cup {NotGzip}
  BY <1>1, RecordsAssumption
<1>3. q \in Text BY Types
<1>4. /\ content[r].up \in Text /\ content[r].down \in Text
      /\ content[r].host \in Text /\ content[r].method \in Text
  BY <1>1 DEF Exchanges
<1> QED BY <1>2, <1>3, <1>4, WordSits DEF IsBody

\* What is found has a reason to be.
LEMMA FoundHasReason ==
  ASSUME IInv, NEW r \in Requests, Found(r, q), NEW t \in Words(q)
  PROVE  \/ \E body \in {content[r].up, content[r].down} :
              \/ Occurs(Lower(t), Lower(body))
              \/ Gunzip(body) # NotGzip /\ Occurs(Lower(t), Lower(Gunzip(body)))
         \/ InColumns(t, content[r])
<1> DEFINE c == content[r]
           kept == extractKeywords({NewBuffer(c.down), NewBuffer(c.up)})
<1>1. t \in Text /\ IsBody(c.up) /\ IsBody(c.down) BY Terms
<1>2. (\E w \in kept : Occurs(Lower(t), w)) \/ InColumns(t, c)
  BY DEF Found, Matches, MakeRecord, InColumns
<1> HIDE DEF c
<1>3. ASSUME NEW w \in kept, Occurs(Lower(t), w)
      PROVE  \E body \in {c.up, c.down} :
               \/ Occurs(Lower(t), Lower(body))
               \/ Gunzip(body) # NotGzip /\ Occurs(Lower(t), Lower(Gunzip(body)))
  <2>1. PICK body \in {c.up, c.down} : w \in Words(Lower(peek(NewBuffer(body))))
    BY DEF extractKeywords
  <2> DEFINE dst == Gunzip(body)
  <2>2. IsBody(body) BY <1>1
  <2>3. w \in Text /\ (Sits(w, Lower(body)) \/ (dst # NotGzip /\ Sits(w, Lower(dst))))
    BY <2>1, <2>2, KeywordSits
  <2>4. /\ Lower(t) \in Seq(Char) /\ w \in Seq(Char)
        /\ Lower(body) \in Seq(Char) /\ (dst # NotGzip => Lower(dst) \in Seq(Char))
    BY <1>1, <2>2, <2>3, LowerKeeps DEF IsBody, Text
  <2> HIDE DEF dst
  <2>5. Sits(Lower(t), w) BY <1>3, <2>4, OccursSits
  <2>6. Sits(Lower(t), Lower(body)) \/ (dst # NotGzip /\ Sits(Lower(t), Lower(dst)))
    BY <2>3, <2>4, <2>5, SitsTransitive
  <2>7. Occurs(Lower(t), Lower(body)) \/ (dst # NotGzip /\ Occurs(Lower(t), Lower(dst)))
    BY <2>4, <2>6, OccursSits
  <2> QED BY <2>7 DEF dst
<1> HIDE DEF kept
<1> QED BY <1>2, <1>3 DEF c

\* What its search should find is found.
LEMMA FindableIsFound ==
  ASSUME IInv, NEW r \in Requests, Findable(content[r])
  PROVE  Found(r, q)
<1> SUFFICES ASSUME NEW t \in Words(q) PROVE Matches(MakeRecord(content[r]), t)
  BY DEF Found
<1> DEFINE c == content[r]
           buffers == {NewBuffer(c.down), NewBuffer(c.up)}
           kept == extractKeywords(buffers)
<1>1. t \in Text /\ IsBody(c.up) /\ IsBody(c.down) BY Terms
<1>2. InWord(t, Searchable(c.up)) \/ InWord(t, Searchable(c.down)) \/ InColumns(t, c)
  BY DEF Findable
<1>3. /\ MakeRecord(c).keywords = kept /\ MakeRecord(c).host = c.host
      /\ MakeRecord(c).method = c.method /\ MakeRecord(c).status = c.status
  BY DEF MakeRecord
<1> HIDE DEF c
<1>4. ASSUME InWord(t, Searchable(c.up)) \/ InWord(t, Searchable(c.down))
      PROVE  \E w \in kept : Occurs(Lower(t), w)
  <2>1. NewBuffer(c.up) \in buffers /\ NewBuffer(c.down) \in buffers OBVIOUS
  <2> HIDE DEF buffers
  <2> QED BY <1>1, <1>4, <2>1, WordIsKept
<1> HIDE DEF kept
<1>5. \/ \E w \in kept \cup {Lower(c.host)} : Occurs(Lower(t), w)
      \/ t = c.method
      \/ NumberIn(t) = c.status
  BY <1>2, <1>4 DEF InColumns
<1>6. Matches(MakeRecord(c), t) BY <1>3, <1>5 DEF Matches
<1> QED BY <1>6 DEF c

\* Larger numbers of pages hold more.
LEMMA MorePages ==
  ASSUME NEW a \in Nat, NEW m \in Nat, NEW n \in Nat, m <= n
  PROVE  a * m \in Nat /\ a * n \in Nat /\ a * m <= a * n
OBVIOUS

\* The type invariant of RecordsAPI: no page is longer than asked.
THEOREM TypeCorrect == Spec => []TypeOK
<1>1. IInv => TypeOK BY DEF IInv
<1> QED BY <1>1, Inductive, PTL

\* A page with records on it is within the count that comes with it: the count
\* comes second and the table only grows.
THEOREM PagesAreCounted == Spec => []PageCounted
<1>1. IInv => PageCounted BY DEF IInv, CountInv, PageCounted
<1> QED BY <1>1, Inductive, PTL

\* The body that is given back is the one that was captured.
THEOREM FetchedAreCaptured == Spec => []FetchedIsCaptured
<1>1. IInv => FetchedIsCaptured BY DEF IInv
<1> QED BY <1>1, Inductive, PTL

\* Nothing is found by chance: what is searched are parts of the bodies and the
\* columns, and a part of a part is a part.
THEOREM HitsHaveReasons == Spec => []FoundForAReason
<1>1. ASSUME IInv PROVE FoundForAReason
  <2>1. \A r \in Range(rows) : r \in Requests /\ Found(r, q)
    <3>1. Range(rows) \subseteq Requests BY <1>1, Types DEF Range
    <3> QED BY <1>1, <3>1 DEF IInv, RowsInv
  <2> QED BY <1>1, <2>1, FoundHasReason DEF FoundForAReason
<1> QED BY <1>1, Inductive, PTL

\* A walk through the pages shows every record that was stored when it began and
\* that its search should find, and none twice: rows are only added behind the
\* others, so that no page that was read moves, and the last count holds the hits
\* of the table at the start.
THEOREM WalkIsComplete == Spec => []WalkFindsAll
<1>1. ASSUME IInv PROVE WalkFindsAll
  <2>1. IsInjective(seen) BY <1>1 DEF IInv, SeenInv, Covers, Stretch
  <2>2. ASSUME at = "answered", page >= pages, ~miscount,
               NEW r \in Range(base), Findable(content[r])
        PROVE  r \in Range(seen)
    <3> DEFINE B == Hits(base, q)
    <3>1. /\ base \in Seq(Requests) /\ size \in Nat \ {0}
          /\ page \in Nat \ {0} /\ pages \in Nat
      BY <1>1, Types
    <3>2. Range(base) \subseteq Requests BY <3>1 DEF Range
    <3>3. Found(r, q) BY <1>1, <2>2, <3>2, FindableIsFound
    <3>4. PICK k \in 1..Len(B) : B[k] = r BY <3>1, <3>3, HitsAreFound
    <3>5. Len(B) <= size * pages /\ Len(B) \in Nat
      BY <1>1, <2>2, HitsTypes DEF IInv, CountInv
    <3>6. /\ \A i \in 1..Len(B) : 0 < i /\ i <= size * page => B[i] \in Range(seen)
      BY <1>1, <2>2 DEF IInv, SeenInv, Covers, Stretch
    <3>7. size * pages \in Nat /\ size * page \in Nat /\ size * pages <= size * page
      BY <2>2, <3>1, MorePages
    <3> HIDE DEF B
    <3>8. 0 < k /\ k <= size * page BY <3>4, <3>5, <3>7
    <3> QED BY <3>4, <3>6, <3>8
  <2> QED BY <2>1, <2>2 DEF WalkFindsAll
<1> QED BY <1>1, Inductive, PTL
=============================================================================
