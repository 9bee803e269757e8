-------------------------- MODULE Contacts_proofs ---------------------------
(***************************************************************************)
(* Proofs about the contacts an operator lists, edits, looks up and logs:  *)
(* the invariant of each component is inductive by itself, and as the      *)
(* components share no state, ContactSafe holds in every behaviour of the  *)
(* desk.                                                                   *)
(***************************************************************************)
EXTENDS MCDesk, FiniteSetTheorems, WellFoundedInduction, SequenceTheorems, TLAPS

-----------------------------------------------------------------------------
(* EditorList: v1 is logged, v2 newest, v3 mode, v4 session, v5 list, v6 total, v7 page, v8 size, v9 cursor,
   v10 asked, v11 search, v12 ops, v13 gone. *)

\* The component counts as the lemmas on finite sets do.
LEMMA ListCount == ASSUME NEW S PROVE List!Cardinality(S) = Cardinality(S)
  BY DEF List!Cardinality, Cardinality, List!IsFiniteSet, IsFiniteSet

\* Its least and greatest are what their names say.
LEMMA ListMin ==
  ASSUME NEW S \in SUBSET Int, NEW x \in S, \A y \in S : x <= y PROVE List!Min(S) = x
<1>1. List!Min(S) \in S
  BY DEF List!Min
<1>2. \A w \in S : List!Min(S) <= w
  BY DEF List!Min
<1>3. List!Min(S) \in Int /\ x \in Int
  BY <1>1
<1> QED BY <1>1, <1>2, <1>3

\* The least of two.
LEMMA ListMin2 ==
  ASSUME NEW a \in Int, NEW b \in Int PROVE List!Min({a, b}) = IF a <= b THEN a ELSE b
  BY ListMin

\* The least of three.
LEMMA ListMin3 ==
  ASSUME NEW a \in Int, NEW b \in Int, NEW c \in Int
  PROVE  LET m == List!Min({a, b, c}) IN m \in {a, b, c} /\ m <= a /\ m <= b /\ m <= c
<1> DEFINE x == IF a <= b THEN (IF a <= c THEN a ELSE c) ELSE IF b <= c THEN b ELSE c
<1>1. x \in {a, b, c} /\ \A y \in {a, b, c} : x <= y
  OBVIOUS
<1> HIDE DEF x
<1>2. List!Min({a, b, c}) = x
  BY <1>1, ListMin
<1> QED BY <1>1, <1>2

\* The greatest of two.
LEMMA ListMax2 ==
  ASSUME NEW a \in Int, NEW b \in Int PROVE List!Max({a, b}) = IF a >= b THEN a ELSE b
<1> DEFINE m == List!Max({a, b})
<1>1. m \in {a, b}
  BY DEF List!Max
<1>2. \A w \in {a, b} : m >= w
  BY DEF List!Max
<1> HIDE DEF m
<1>3. m >= a /\ m >= b /\ (m = a \/ m = b)
  BY <1>1, <1>2
<1>4. m = IF a >= b THEN a ELSE b
  BY <1>3
<1> QED BY <1>4 DEF m

\* How many contacts are listed up to this one.
Rank(S, x) == Cardinality({y \in S : y >= x})

\* Ranks number the contacts.
LEMMA RankIsPosition ==
  ASSUME NEW S, IsFiniteSet(S), S \subseteq Int
  PROVE  /\ \A x \in S : Rank(S, x) \in 1..Cardinality(S)
         /\ \A x, y \in S : Rank(S, x) = Rank(S, y) => x = y
         /\ \A i \in 1..Cardinality(S) : \E x \in S : Rank(S, x) = i
<1> DEFINE Up(x) == {y \in S : y >= x}
           f == [x \in S |-> Rank(S, x)]
<1>0. Cardinality(S) \in Nat
  BY FS_CardinalityType
<1>1. \A x : IsFiniteSet(Up(x)) /\ Cardinality(Up(x)) \in Nat /\ Cardinality(Up(x)) <= Cardinality(S)
  BY FS_Subset, FS_CardinalityType
<1>2. ASSUME NEW x \in S PROVE Rank(S, x) \in 1..Cardinality(S)
  <2>1. x \in Up(x) /\ IsFiniteSet(Up(x))
    BY <1>1
  <2>2. Cardinality(Up(x)) # 0
    BY <2>1, FS_EmptySet
  <2> QED BY <1>0, <1>1, <2>2 DEF Rank
<1>3. ASSUME NEW x \in S, NEW y \in S, Rank(S, x) = Rank(S, y), x < y PROVE FALSE
  <2>1. Up(y) \in SUBSET Up(x) /\ x \in Up(x) /\ x \notin Up(y)
    <3>1. x \in Int /\ y \in Int /\ x >= x /\ ~(x >= y)
      BY <1>3
    <3>2. \A z \in S : z >= y => z >= x
      BY <1>3, <3>1
    <3> QED BY <3>1, <3>2
  <2>2. Cardinality(Up(x)) = Cardinality(Up(y))
    BY <1>3 DEF Rank
  <2> HIDE DEF Up
  <2> QED BY <1>1, <2>1, <2>2, FS_Subset
<1>4. ASSUME NEW x \in S, NEW y \in S, Rank(S, x) = Rank(S, y) PROVE x = y
  <2>1. x \in Int /\ y \in Int
    OBVIOUS
  <2> QED BY <1>3, <1>4, <2>1
<1>5. f \in Injection(S, 1..Cardinality(S))
  BY <1>2, <1>4 DEF Injection, IsInjective
<1>6. IsFiniteSet(1..Cardinality(S)) /\ Cardinality(1..Cardinality(S)) = Cardinality(S)
  BY <1>0, FS_Interval
<1>7. f \in Surjection(S, 1..Cardinality(S))
  BY <1>5, <1>6, FS_Injection
<1>8. ASSUME NEW i \in 1..Cardinality(S) PROVE \E x \in S : Rank(S, x) = i
  BY <1>7 DEF Surjection
<1> QED BY <1>2, <1>4, <1>8

\* The list of a set has its contacts, each at its rank.
LEMMA ListedByRank ==
  ASSUME NEW S, IsFiniteSet(S), S \subseteq Int
  PROVE  /\ List!Listed(S) \in Seq(S) /\ Len(List!Listed(S)) = Cardinality(S)
         /\ \A i \in 1..Cardinality(S) : List!Listed(S)[i] \in S
         /\ \A x \in S : List!Listed(S)[Rank(S, x)] = x
<1> DEFINE C(x) == List!Cardinality({y \in S : y >= x})
           L == [i \in 1..List!Cardinality(S) |-> CHOOSE x \in S : C(x) = i]
<1>1. List!Listed(S) = L
  BY DEF List!Listed
<1>a. \A x : C(x) = Rank(S, x)
  BY ListCount DEF Rank
<1>b. List!Cardinality(S) = Cardinality(S)
  BY ListCount
<1> HIDE DEF C
<1>2. Cardinality(S) \in Nat
  BY FS_CardinalityType
<1>3. ASSUME NEW i \in 1..Cardinality(S) PROVE L[i] \in S /\ Rank(S, L[i]) = i
  <2>1. \E x \in S : C(x) = i
    <3>1. \E x \in S : Rank(S, x) = i
      BY RankIsPosition
    <3> QED BY <3>1, <1>a
  <2>2. L[i] = CHOOSE x \in S : C(x) = i
    BY <1>b
  <2> HIDE DEF L
  <2> QED BY <1>a, <2>1, <2>2
<1>4. L \in Seq(S) /\ Len(L) = Cardinality(S)
  <2>1. L \in [1..Cardinality(S) -> S]
    BY <1>3, <1>b
  <2> HIDE DEF L
  <2> QED BY <1>2, <2>1
<1> HIDE DEF L
<1>5. ASSUME NEW x \in S PROVE L[Rank(S, x)] = x
  <2>1. Rank(S, x) \in 1..Cardinality(S)
    BY RankIsPosition
  <2>2. L[Rank(S, x)] \in S /\ Rank(S, L[Rank(S, x)]) = Rank(S, x)
    BY <1>3, <2>1
  <2> QED BY <2>2, RankIsPosition
<1> QED BY <1>1, <1>3, <1>4, <1>5

\* A page up to the last one begins within the list.
LEMMA PageBegins ==
  ASSUME NEW n \in Nat, NEW s \in Nat \ {0}, NEW p \in Nat \ {0}, p <= List!PagesFor(n, s)
  PROVE  (p - 1) * s \in Nat /\ p * s \in Nat /\ (p - 1) * s < p * s /\ (IF n = 0 THEN (p - 1) * s = 0 ELSE (p - 1) * s < n)
<1>1. CASE n = 0
  BY <1>1 DEF List!PagesFor
<1>2. CASE n # 0
  <2> DEFINE q == (n + s - 1) \div s
  <2>1. q \in Int /\ q * s <= n + s - 1
    OBVIOUS
  <2>2. p <= q
    BY <1>2 DEF List!PagesFor
  <2> HIDE DEF q
  <2>3. p * s <= q * s
    BY <2>1, <2>2
  <2>4. p * s <= n + s - 1 /\ (p - 1) * s = p * s - s
    BY <2>1, <2>3
  <2> QED BY <1>2, <2>4
<1> QED BY <1>1, <1>2

\* Every list has a page, and no more than its contacts fill.
LEMMA PagesExist ==
  ASSUME NEW n \in Nat, NEW s \in Nat \ {0}
  PROVE  List!PagesFor(n, s) \in Nat \ {0}
<1>1. CASE n = 0
  BY <1>1 DEF List!PagesFor
<1>2. CASE n # 0
  <2> DEFINE m == n + s - 1
  <2>1. m \in Nat /\ m >= s
    BY <1>2
  <2> HIDE DEF m
  <2>2. m \div s \in Int /\ m \div s >= 1
    BY <2>1
  <2> QED BY <1>2, <2>2 DEF List!PagesFor, m
<1> QED BY <1>1, <1>2

\* The rows of a page are contacts of the logbook, and there are some if it has any.
LEMMA RowsOfPage ==
  ASSUME IsFiniteSet(v1), v1 \subseteq Int, NEW s \in Nat \ {0}, NEW p \in Nat \ {0},
         p <= List!PagesFor(Cardinality(v1), s)
  PROVE  LET n == Cardinality(v1)
             a == (p - 1) * s
         IN  /\ n \in Nat /\ a \in Nat /\ p * s \in Nat
             /\ List!Rows(p, s) \in Seq(v1)
             /\ Len(List!Rows(p, s)) = (IF p * s <= n THEN p * s ELSE n) - a
             /\ \A i \in 1..Len(List!Rows(p, s)) : List!Rows(p, s)[i] = List!Listed(v1)[a + i]
             /\ n > 0 => List!Rows(p, s) # <<>>
<1> DEFINE n == Cardinality(v1)
           a == (p - 1) * s
           c == p * s
           b == IF c <= n THEN c ELSE n
           L == List!Listed(v1)
<1>1. n \in Nat
  BY FS_CardinalityType
<1>2. a \in Nat /\ c \in Nat /\ a < c /\ (IF n = 0 THEN a = 0 ELSE a < n)
  BY <1>1, PageBegins
<1>3. List!Rows(p, s) = SubSeq(L, a + 1, b)
  BY <1>1, <1>2, ListMin2, ListCount DEF List!Rows
<1>4. \A i \in 1..n : L[i] \in v1
  BY ListedByRank
<1> HIDE DEF n, a, c, L
<1>5. a + 1 \in Int /\ b \in Int /\ \A i \in (a + 1)..b : L[i] \in v1
  BY <1>1, <1>2, <1>4
<1> HIDE DEF b
<1> DEFINE R == SubSeq(L, a + 1, b)
<1>6. /\ R \in Seq(v1)
      /\ Len(R) = (IF a + 1 <= b THEN b - (a + 1) + 1 ELSE 0)
      /\ \A i \in 1..b - (a + 1) + 1 : R[i] = L[a + 1 + i - 1]
  BY <1>5, SubSeqProperties
<1> HIDE DEF R
<1>7. Len(R) = b - a
  BY <1>1, <1>2, <1>6 DEF b
<1>8. \A i \in 1..Len(R) : R[i] = L[a + i]
  <2> SUFFICES ASSUME NEW i \in 1..Len(R) PROVE R[i] = L[a + i]
    OBVIOUS
  <2>1. i \in 1..b - (a + 1) + 1 /\ a + 1 + i - 1 = a + i
    BY <1>1, <1>2, <1>5, <1>7
  <2> QED BY <1>6, <2>1
<1>9. n > 0 => R # <<>>
  BY <1>1, <1>2, <1>6, <1>7 DEF b
<1> QED BY <1>1, <1>2, <1>3, <1>6, <1>7, <1>8, <1>9 DEF n, a, c, b, L, R

\* What is on the screen: contacts that were once logged, and some of them if there were any.
ViewInv ==
    /\ v5 \in Seq(1..v2) /\ v6 \in Nat /\ (v6 > 0 => v5 # <<>>)
    /\ v7 \in Nat \ {0} /\ v8 \in Sizes /\ v9 \in Nat \ {0}

\* A delete is of a contact once logged, and what was deleted stays so; the result still
\* asked for has no contact reported as deleted.
ListOp(o) ==
    /\ o.kind = "delete" => o.id \in 1..v2
    /\ o.kind = "deleted" => o.id \in (1..v2) \ v1
    /\ o.kind = "found" =>
          /\ o.gen \in Nat /\ o.gen <= v11.gen /\ o.rows \in Seq(1..v2)
          /\ o.gen = v11.gen /\ v11.on => \A i \in DOMAIN o.rows : o.rows[i] \notin v13

\* A search is its three fields.
IsSearch(f) == f = [on |-> f.on, gen |-> f.gen, waits |-> f.waits]

\* The inductive invariant: it holds at the start, every step keeps it, and it implies what is checked.
ListInv ==
    /\ v2 \in Nat /\ v1 \subseteq 1..v2 /\ v13 \subseteq (1..v2) \ v1
    /\ ViewInv
    /\ IsSearch(v11) /\ v11.gen \in 0..(MaxSearches + 1) /\ (v11.on => v11.gen <= MaxSearches)
    /\ \A o \in v12 : ListOp(o)

\* The contacts logged are finitely many.
LEMMA LoggedIsFinite ==
  ASSUME v2 \in Nat, v1 \subseteq 1..v2
  PROVE  IsFiniteSet(v1) /\ Cardinality(v1) \in Nat /\ v1 \subseteq Int
<1>1. IsFiniteSet(1..v2)
  BY FS_Interval
<1>2. IsFiniteSet(v1)
  BY <1>1, FS_Subset
<1> QED BY <1>2, FS_CardinalityType

\* A sequence of some values is one of more.
LEMMA SeqWidens ==
  ASSUME NEW S, NEW T, S \subseteq T, NEW q \in Seq(S) PROVE q \in Seq(T)
<1>1. Len(q) \in Nat /\ q \in [1..Len(q) -> T]
  OBVIOUS
<1> QED BY <1>1

\* What a page loads: contacts of the logbook, some if there are any.
LEMMA PageIsLoaded ==
  ASSUME v2 \in Nat, v1 \subseteq 1..v2, v8 \in Sizes, NEW p \in Nat \ {0}, NEW n \in Nat
  PROVE  LET q == List!LoadedPage(p, n) IN q \in Nat \ {0} /\ q <= List!PagesFor(Cardinality(v1), v8)
<1>1. v8 \in Nat \ {0}
  BY ListAssumption
<1>2. List!PagesFor(n, v8) \in Nat \ {0} /\ List!PagesFor(Cardinality(v1), v8) \in Nat \ {0}
  BY <1>1, LoggedIsFinite, PagesExist
<1> DEFINE x == List!PagesFor(n, v8)
           y == List!PagesFor(Cardinality(v1), v8)
<1>3. List!LoadedPage(p, n) = List!Min({p, x, y})
  BY ListCount DEF List!LoadedPage
<1> HIDE DEF x, y
<1>4. x \in Nat \ {0} /\ y \in Nat \ {0}
  BY <1>2 DEF x, y
<1>5. p \in Int /\ x \in Int /\ y \in Int
  BY <1>4
<1>6. List!Min({p, x, y}) \in {p, x, y} /\ List!Min({p, x, y}) <= y
  BY <1>5, ListMin3
<1> QED BY <1>3, <1>4, <1>6 DEF y

\* A page that is installed is one the logbook has.
LEMMA ViewInstalled ==
  ASSUME v2 \in Nat, v1 \subseteq 1..v2, ViewInv, NEW p \in Nat \ {0}, p <= List!PagesFor(Cardinality(v1), v8),
         List!Install(p), v2' = v2
  PROVE  ViewInv' /\ v8' = v8
<1>1. CASE UNCHANGED <<v5, v6, v7, v8, v9>>
  BY <1>1 DEF ViewInv
<1>2. CASE v7' = p /\ v5' = List!Rows(p, v8) /\ v6' = Cardinality(v1) /\ v9' = 1 /\ v8' = v8
  <2>1. v8 \in Nat \ {0}
    BY ListAssumption DEF ViewInv
  <2>2. List!Rows(p, v8) \in Seq(v1) /\ Cardinality(v1) \in Nat /\ (Cardinality(v1) > 0 => List!Rows(p, v8) # <<>>)
    BY <2>1, LoggedIsFinite, RowsOfPage
  <2>3. List!Rows(p, v8) \in Seq(1..v2)
    BY <2>2, SeqWidens
  <2> QED BY <1>2, <2>2, <2>3 DEF ViewInv
<1> QED BY <1>1, <1>2, ListCount DEF List!Install, List!view

\* A reload leaves a page that exists.
LEMMA ViewReloaded ==
  ASSUME v2 \in Nat, v1 \subseteq 1..v2, ViewInv, NEW searching, List!Reload(searching), v2' = v2
  PROVE  ViewInv' /\ v8' = v8
<1>1. CASE UNCHANGED <<v5, v6, v7, v8, v9>>
  BY <1>1 DEF ViewInv
<1>2. CASE List!Install(List!LoadedPage(v7, v6))
  <2>1. v7 \in Nat \ {0} /\ v6 \in Nat /\ v8 \in Sizes
    BY DEF ViewInv
  <2> DEFINE p == List!LoadedPage(v7, v6)
  <2>2. p \in Nat \ {0} /\ p <= List!PagesFor(Cardinality(v1), v8)
    BY <2>1, PageIsLoaded
  <2> HIDE DEF p
  <2>3. List!Install(p)
    BY <1>2 DEF p
  <2> QED BY <2>2, <2>3, ViewInstalled
<1> QED BY <1>1, <1>2 DEF List!Reload, List!view

\* What is known of a request stays known as contacts are logged and deleted.
LEMMA OpStands ==
  ASSUME NEW o, ListOp(o), v2 \in Nat, v2' \in Nat, v2 <= v2', v11.gen \in Nat, v11'.gen \in Nat,
         \A x \in 1..v2 : x \notin v1 => x \notin v1',
         v11.gen <= v11'.gen, v11'.on /\ v11'.gen = v11.gen => v11.on /\ v13' = v13
  PROVE  ListOp(o)'
<1>1. 1..v2 \subseteq 1..v2'
  OBVIOUS
<1>2. o.rows \in Seq(1..v2) => o.rows \in Seq(1..v2')
  BY <1>1, SeqWidens
<1>3. o.gen \in Nat /\ o.gen <= v11.gen => o.gen <= v11'.gen
  OBVIOUS
<1>4. o.gen \in Nat /\ o.gen <= v11.gen /\ o.gen = v11'.gen => o.gen = v11.gen /\ v11'.gen = v11.gen
  OBVIOUS
<1> QED BY <1>1, <1>2, <1>3, <1>4 DEF ListOp

\* It holds at the start.
LEMMA ListStart == ASSUME List!EditorListInit PROVE ListInv
<1> DEFINE n == Cardinality(v1)
<1>1. /\ v1 = 1..(MaxId - 1) /\ v2 = MaxId - 1 /\ v8 \in Sizes /\ v7 = 1 /\ v9 = 1 /\ v6 = MaxId - 1
      /\ v5 = List!Rows(1, v8) /\ v12 = {} /\ v13 = {} /\ v11 = [on |-> FALSE, gen |-> 0, waits |-> FALSE]
  BY DEF List!EditorListInit
<1>2. v2 \in Nat /\ v6 \in Nat /\ v8 \in Nat \ {0} /\ v1 \subseteq 1..v2
  BY <1>1, ListAssumption
<1>3. IsFiniteSet(v1) /\ n \in Nat /\ n = v6 /\ v1 \subseteq Int
  BY <1>1, <1>2, ListAssumption, FS_Interval, LoggedIsFinite
<1>4. 1 <= List!PagesFor(n, v8)
  BY <1>2, <1>3, PagesExist
<1>5. List!Rows(1, v8) \in Seq(v1) /\ (n > 0 => List!Rows(1, v8) # <<>>)
  BY <1>2, <1>3, <1>4, RowsOfPage
<1>6. v5 \in Seq(1..v2)
  BY <1>1, <1>2, <1>5, SeqWidens
<1> HIDE DEF n
<1>7. ViewInv
  BY <1>1, <1>2, <1>3, <1>5, <1>6 DEF ViewInv
<1>8. IsSearch(v11) /\ v11.gen = 0 /\ ~v11.on
  BY <1>1 DEF IsSearch
<1> QED BY <1>1, <1>2, <1>7, <1>8, ListAssumption DEF ListInv

\* And it implies what is checked.
LEMMA ListSafe == ASSUME ListInv PROVE List!PageExists
  BY DEF ListInv, ViewInv, List!PageExists

\* A resize shows a page of the new size, and the contact under the cursor if it is still logged.
LEMMA ResizeFindsContact ==
  ASSUME ListInv, List!Resize
  PROVE  ViewInv' /\ List!ResizeKeepsContact
<1>1. v2 \in Nat /\ v1 \subseteq 1..v2 /\ ViewInv /\ v2' = v2
  BY DEF ListInv, List!Resize
<1>2. IsFiniteSet(v1) /\ Cardinality(v1) \in Nat /\ v1 \subseteq Int
  BY <1>1, LoggedIsFinite
<1> DEFINE n == Cardinality(v1)
           kept == v9 <= Len(v5) /\ v5[v9] \in v1
           at == IF kept THEN Rank(v1, v5[v9]) ELSE List!Min({(v7 - 1) * v8 + v9, List!Max({v6, 1})})
           P(s) == List!Min({(at - 1) \div s + 1, List!PagesFor(n, s)})
<1>3. PICK s \in Sizes \ {v8} :
         /\ v8' = s /\ v7' = P(s) /\ v5' = List!Rows(P(s), s) /\ v6' = n
         /\ v9' = List!Max({1, List!Min({at - (P(s) - 1) * s, Len(List!Rows(P(s), s))})})
  BY ListCount DEF List!Resize, Rank
<1>4. s \in Nat \ {0} /\ v8 \in Nat \ {0} /\ v7 \in Nat \ {0} /\ v9 \in Nat \ {0} /\ v6 \in Nat
  BY <1>1, ListAssumption DEF ViewInv
<1>5. kept => at = Rank(v1, v5[v9]) /\ at \in 1..n
  BY <1>2, RankIsPosition
<1>6. at \in Nat \ {0}
  <2>1. CASE kept
    BY <1>2, <1>5, <2>1
  <2>2. CASE ~kept
    <3>1. (v7 - 1) * v8 \in Nat
      BY <1>4
    <3>2. (v7 - 1) * v8 + v9 \in Nat \ {0}
      BY <1>4, <3>1
    <3>3. List!Max({v6, 1}) \in Nat \ {0}
      BY <1>4, ListMax2
    <3> DEFINE x == (v7 - 1) * v8 + v9
               y == List!Max({v6, 1})
    <3>4. x \in Nat \ {0} /\ y \in Nat \ {0}
      BY <3>2, <3>3
    <3> HIDE DEF x, y
    <3>5. List!Min({x, y}) \in Nat \ {0}
      BY <3>4, ListMin2
    <3> QED BY <2>2, <3>5 DEF x, y
  <2> QED BY <2>1, <2>2
<1>a. List!PagesFor(n, s) \in Nat \ {0}
  BY <1>2, <1>4, PagesExist
<1>b. n > 0 => List!PagesFor(n, s) = (n + s - 1) \div s
  BY DEF List!PagesFor
<1> DEFINE d == (at - 1) \div s
           p == P(s)
           q == List!PagesFor(n, s)
<1> HIDE DEF at, kept, n
<1>7. d \in Nat /\ d * s <= at - 1 /\ at - 1 < d * s + s
  BY <1>4, <1>6
<1> HIDE DEF d
<1>8. P(s) = IF d + 1 <= q THEN d + 1 ELSE q
  <2>1. d + 1 \in Int /\ q \in Int
    BY <1>7, <1>a
  <2> QED BY <2>1, ListMin2 DEF d
<1>9. p \in Nat \ {0} /\ p <= List!PagesFor(n, s)
  BY <1>7, <1>8, <1>a
<1> HIDE DEF P, q
<1> DEFINE R == List!Rows(p, s)
           a == (p - 1) * s
<1>10. /\ n \in Nat /\ a \in Nat /\ p * s \in Nat /\ R \in Seq(v1)
       /\ Len(R) = (IF p * s <= n THEN p * s ELSE n) - a
       /\ \A i \in 1..Len(R) : R[i] = List!Listed(v1)[a + i]
       /\ n > 0 => R # <<>>
  BY <1>2, <1>4, <1>9, RowsOfPage DEF n
<1> HIDE DEF R, a, p
<1>11. v9' = List!Max({1, List!Min({at - a, Len(R)})})
  BY <1>3 DEF R, a, p
<1>12. at - a \in Int /\ Len(R) \in Int
  BY <1>6, <1>10
<1>13. List!Min({at - a, Len(R)}) = IF at - a <= Len(R) THEN at - a ELSE Len(R)
  BY <1>12, ListMin2
<1>14. List!Min({at - a, Len(R)}) \in Int
  BY <1>12, <1>13
<1>15. v9' = IF 1 >= List!Min({at - a, Len(R)}) THEN 1 ELSE List!Min({at - a, Len(R)})
  <2> DEFINE k == List!Min({at - a, Len(R)})
  <2>1. k \in Int /\ v9' = List!Max({1, k})
    BY <1>11, <1>14
  <2> HIDE DEF k
  <2>2. List!Max({1, k}) = IF 1 >= k THEN 1 ELSE k
    BY <2>1, ListMax2
  <2> QED BY <2>1, <2>2 DEF k
<1>16. v9' \in Nat \ {0}
  BY <1>14, <1>15
<1>17. R \in Seq(1..v2)
  BY <1>1, <1>10, SeqWidens
<1>18. ViewInv'
  BY <1>1, <1>3, <1>9, <1>10, <1>16, <1>17 DEF ViewInv, R, p
<1>19. ASSUME kept PROVE v5'[v9'] = v5[v9]
  <2>1. at \in 1..n /\ n > 0
    BY <1>5, <1>10, <1>19
  <2>2. q = (n + s - 1) \div s
    BY <1>b, <2>1 DEF q
  <2>3. d + 1 <= q
    <3>1. (d + 1) * s <= n + s - 1
      <4>1. d * s <= n - 1
        <5>1. d * s \in Int /\ at \in Int /\ n \in Int /\ at <= n
          BY <1>4, <1>6, <1>7, <1>10, <2>1
        <5> QED BY <1>7, <5>1
      <4>2. (d + 1) * s = d * s + s
        BY <1>4, <1>7
      <4> QED BY <1>4, <1>7, <1>10, <4>1, <4>2
    <3> DEFINE m == n + s - 1
    <3>2. m \in Nat /\ (d + 1) * s <= m /\ d + 1 \in Nat
      BY <1>4, <1>7, <1>10, <3>1
    <3> HIDE DEF m
    <3>3. d + 1 <= m \div s
      BY <1>4, <3>2
    <3> QED BY <2>2, <3>3 DEF m
  <2>4. p = d + 1
    BY <1>8, <2>3 DEF p
  <2>5. a = d * s /\ p * s = d * s + s
    BY <1>4, <1>7, <2>4 DEF a
  <2>6. at - a >= 1 /\ at - a <= Len(R)
    BY <1>4, <1>6, <1>7, <1>10, <2>1, <2>5
  <2>7. v9' = at - a
    BY <1>12, <1>13, <1>15, <2>6
  <2>8. R[at - a] = List!Listed(v1)[a + (at - a)]
    BY <1>10, <1>12, <2>6
  <2>9. a + (at - a) = at
    BY <1>6, <1>10
  <2>10. v5[v9] \in v1 /\ at = Rank(v1, v5[v9])
    BY <1>5, <1>19 DEF kept
  <2>11. List!Listed(v1)[at] = v5[v9]
    BY <1>2, <2>10, ListedByRank
  <2> QED BY <1>3, <2>7, <2>8, <2>9, <2>11 DEF R, p
<1>20. List!ResizeKeepsContact
  BY <1>19 DEF List!ResizeKeepsContact, kept
<1> QED BY <1>18, <1>20

\* Only a resize changes the size of a page, and only a search result that arrives leaves the
\* work outstanding: no other step says anything about the contact kept or a contact gone.
LEMMA ListRests ==
  ASSUME v8' = v8, \A o \in v12 \ v12' : o.kind # "found"
  PROVE  List!NoGhosts /\ List!ResizeKeepsContact
  BY DEF List!NoGhosts, List!ResizeKeepsContact

\* Every step keeps it.
LEMMA ListStep ==
  ASSUME ListInv, [List!EditorListNext]_(List!listVars)
  PROVE  ListInv' /\ List!NoGhosts /\ List!ResizeKeepsContact
<1>0. /\ v2 \in Nat /\ v1 \subseteq 1..v2 /\ v13 \subseteq (1..v2) \ v1 /\ ViewInv
      /\ IsSearch(v11) /\ v11.gen \in 0..(MaxSearches + 1) /\ (v11.on => v11.gen <= MaxSearches)
      /\ \A o \in v12 : ListOp(o)
  BY DEF ListInv
<1>a. v11.gen \in Nat /\ MaxSearches \in Nat
  BY <1>0, ListAssumption
\* The contacts, the search and the work are left alone.
<1>b. ASSUME UNCHANGED <<v1, v2, v11, v12, v13>>, ViewInv' PROVE ListInv'
  <2>1. \A o \in v12' : ListOp(o)'
    BY <1>0, <1>a, <1>b, OpStands
  <2> QED BY <1>0, <1>b, <2>1 DEF ListInv
<1>c. ASSUME UNCHANGED <<v2, v5, v6, v7, v8, v9>> PROVE ViewInv'
  BY <1>0, <1>c DEF ViewInv
<1>1. CASE List!MoveCursor
  <2>1. UNCHANGED <<v1, v2, v11, v12, v13>>
    BY <1>1 DEF List!MoveCursor, List!InList
  <2>2. ViewInv' /\ v8' = v8
    <3>1. CASE v9' = v9 + 1 /\ UNCHANGED <<v5, v6, v7, v8>>
      BY <1>0, <2>1, <3>1 DEF ViewInv
    <3>2. CASE List!Install(List!LoadedPage(v7 + 1, v6))
      <4> DEFINE p == List!LoadedPage(v7 + 1, v6)
      <4>1. v7 + 1 \in Nat \ {0} /\ v6 \in Nat /\ v8 \in Sizes
        BY <1>0 DEF ViewInv
      <4>2. p \in Nat \ {0} /\ p <= List!PagesFor(Cardinality(v1), v8)
        BY <1>0, <4>1, PageIsLoaded
      <4> HIDE DEF p
      <4>3. List!Install(p)
        BY <3>2 DEF p
      <4> QED BY <1>0, <2>1, <4>2, <4>3, ViewInstalled
    <3> QED BY <1>1, <3>1, <3>2 DEF List!MoveCursor
  <2> QED BY <1>b, <2>1, <2>2, ListRests
<1>2. CASE List!TypeSearch
  <2>1. UNCHANGED <<v1, v2, v12, v13>>
    BY <1>2 DEF List!TypeSearch, List!InList
  <2>2. CASE v11.gen < MaxSearches /\ v11' = [on |-> TRUE, gen |-> v11.gen + 1, waits |-> TRUE] /\ UNCHANGED List!view
    <3>1. UNCHANGED <<v5, v6, v7, v8, v9>>
      BY <2>2 DEF List!view
    <3>2. IsSearch(v11') /\ v11'.gen = v11.gen + 1
      BY <2>2 DEF IsSearch
    <3>3. v11'.gen \in 0..(MaxSearches + 1) /\ v11'.gen <= MaxSearches /\ v11'.gen \in Nat
      BY <1>a, <2>2, <3>2
    <3>4. \A o \in v12' : ListOp(o)'
      BY <1>0, <1>a, <2>1, <3>2, <3>3, OpStands
    <3> QED BY <1>0, <1>c, <2>1, <3>1, <3>2, <3>3, <3>4, ListRests DEF ListInv
  <2>3. CASE v11' = [v11 EXCEPT !.on = FALSE] /\ List!Reload(FALSE)
    <3>1. ViewInv' /\ v8' = v8
      BY <1>0, <2>1, <2>3, ViewReloaded
    <3>2. v11' = [on |-> FALSE, gen |-> v11.gen, waits |-> v11.waits]
      BY <1>0, <2>3 DEF IsSearch
    <3>3. IsSearch(v11') /\ v11'.gen = v11.gen /\ ~v11'.on
      BY <3>2 DEF IsSearch
    <3>4. \A o \in v12' : ListOp(o)'
      BY <1>0, <1>a, <2>1, <3>3, OpStands
    <3> QED BY <1>0, <2>1, <3>1, <3>3, <3>4, ListRests DEF ListInv
  <2> QED BY <1>2, <2>2, <2>3 DEF List!TypeSearch
<1>3. CASE \/ List!OpenForm \/ List!LeaveForm \/ List!Cancel \/ UNCHANGED List!listVars
           \/ \E q \in List!Questions : List!Ask(q)
  <2>1. UNCHANGED <<v1, v2, v5, v6, v7, v8, v9, v11, v12, v13>>
    BY <1>3 DEF List!OpenForm, List!LeaveForm, List!Cancel, List!Ask, List!listVars, List!view, List!InList
  <2> QED BY <1>b, <1>c, <2>1, ListRests
<1>4. CASE List!Confirm
  <2>1. UNCHANGED <<v1, v2, v5, v6, v7, v8, v9, v11, v13>>
    BY <1>4 DEF List!Confirm, List!view
  <2>2. ASSUME NEW o \in v12'
        PROVE  \/ o \in v12
               \/ o = [kind |-> "delete", session |-> v4, id |-> List!UnderCursor] /\ List!Range(v5) # {}
               \/ \E k \in {"purge", "sent"} : o = [kind |-> k, session |-> v4]
    BY <1>4, <2>2 DEF List!Confirm
  <2>3. ASSUME NEW o \in v12' PROVE ListOp(o)'
    <3>1. CASE o \in v12
      BY <1>0, <1>a, <2>1, <3>1, OpStands
    <3>2. CASE o = [kind |-> "delete", session |-> v4, id |-> List!UnderCursor] /\ List!Range(v5) # {}
      <4>1. v5 \in Seq(1..v2) /\ v9 \in Nat \ {0} /\ Len(v5) > 0
        BY <1>0, <3>2 DEF ViewInv, List!Range
      <4>2. List!UnderCursor \in 1..v2
        <5>1. \A i \in 1..Len(v5) : v5[i] \in 1..v2
          BY <4>1, ElementOfSeq
        <5>0. Len(v5) \in Nat
          BY <4>1
        <5>2. 1 \in 1..Len(v5) /\ (~(v9 > Len(v5)) => v9 \in 1..Len(v5))
          BY <4>1, <5>0
        <5> QED BY <5>1, <5>2 DEF List!UnderCursor
      <4> QED BY <2>1, <3>2, <4>2 DEF ListOp
    <3>3. ASSUME NEW k \in {"purge", "sent"}, o = [kind |-> k, session |-> v4] PROVE ListOp(o)'
      BY <3>3 DEF ListOp
    <3> QED BY <2>2, <3>1, <3>2, <3>3
  <2>4. v12 \subseteq v12'
    BY <1>4 DEF List!Confirm
  <2> QED BY <1>0, <1>c, <2>1, <2>3, <2>4, ListRests DEF ListInv
<1>5. CASE List!Resize
  <2>1. UNCHANGED <<v1, v2, v11, v12, v13>>
    BY <1>5 DEF List!Resize
  <2>2. ViewInv' /\ List!ResizeKeepsContact
    BY <1>5, ResizeFindsContact
  <2>3. List!NoGhosts
    BY <2>1 DEF List!NoGhosts
  <2> QED BY <1>b, <2>1, <2>2, <2>3
<1>6. CASE List!LogAnother
  <2>1. v2' = v2 + 1 /\ v1' = v1 \cup {v2 + 1} /\ UNCHANGED <<v5, v6, v7, v8, v9, v11, v12, v13>>
    BY <1>6 DEF List!LogAnother, List!view
  <2>2. v2' \in Nat /\ v2 <= v2' /\ 1..v2 \subseteq 1..v2' /\ v2 + 1 \in 1..v2' /\ v2 + 1 \notin 1..v2
    BY <1>0, <2>1
  <2>3. v1' \subseteq 1..v2' /\ v13' \subseteq (1..v2') \ v1'
    BY <1>0, <2>1, <2>2
  <2>4. \A x \in 1..v2 : x \notin v1 => x \notin v1'
    BY <2>1, <2>2
  <2>5. \A o \in v12' : ListOp(o)'
    BY <1>0, <1>a, <2>1, <2>2, <2>4, OpStands
  <2>6. ViewInv'
    BY <1>0, <2>1, <2>2, SeqWidens DEF ViewInv
  <2> QED BY <1>0, <2>1, <2>2, <2>3, <2>5, <2>6, ListRests DEF ListInv
<1>7. CASE List!SearchRuns
  <2>1. UNCHANGED <<v1, v2, v5, v6, v7, v8, v9, v13>> /\ v11' = [v11 EXCEPT !.waits = FALSE]
    BY <1>7 DEF List!SearchRuns, List!view
  <2>2. v11' = [on |-> v11.on, gen |-> v11.gen, waits |-> FALSE]
    BY <1>0, <2>1 DEF IsSearch
  <2>3. IsSearch(v11') /\ v11'.on = v11.on /\ v11'.gen = v11.gen
    BY <2>2 DEF IsSearch
  <2> DEFINE S == v1 \cap Hits
             new == [kind |-> "found", gen |-> v11.gen, rows |-> List!Listed(S)]
  <2>4. v12' = v12 \/ v12' = v12 \cup {new}
    BY <1>7 DEF List!SearchRuns
  <2>5. List!Listed(S) \in Seq(1..v2) /\ \A i \in DOMAIN List!Listed(S) : List!Listed(S)[i] \notin v13
    <3>1. IsFiniteSet(v1) /\ v1 \subseteq Int
      BY <1>0, LoggedIsFinite
    <3>2. IsFiniteSet(S) /\ S \subseteq Int /\ S \subseteq v1
      BY <3>1, FS_Subset
    <3> HIDE DEF S
    <3>3. /\ List!Listed(S) \in Seq(S) /\ Len(List!Listed(S)) = Cardinality(S)
          /\ \A i \in 1..Cardinality(S) : List!Listed(S)[i] \in S
      BY <3>2, ListedByRank
    <3>4. List!Listed(S) \in Seq(1..v2)
      BY <1>0, <3>2, <3>3, SeqWidens
    <3>5. DOMAIN List!Listed(S) = 1..Cardinality(S)
      BY <3>3
    <3> QED BY <1>0, <3>2, <3>3, <3>4, <3>5
  <2>6. ASSUME NEW o \in v12' PROVE ListOp(o)'
    <3>1. CASE o \in v12
      BY <1>0, <1>a, <2>1, <2>3, <3>1, OpStands
    <3>2. CASE o = new
      <4>1. o.kind = "found" /\ o.gen = v11.gen /\ o.rows = List!Listed(S)
        BY <3>2
      <4> HIDE DEF S
      <4>2. o.rows \in Seq(1..v2) /\ \A i \in DOMAIN o.rows : o.rows[i] \notin v13
        BY <2>5, <4>1
      <4> QED BY <1>a, <2>1, <2>3, <4>1, <4>2 DEF ListOp
    <3> QED BY <2>4, <2>6, <3>1, <3>2
  <2> HIDE DEF new
  <2> QED BY <1>0, <1>c, <2>1, <2>3, <2>4, <2>6, ListRests DEF ListInv
<1>8. ASSUME NEW o \in v12, List!Works(o) PROVE ListInv' /\ List!NoGhosts /\ List!ResizeKeepsContact
  <2>1. UNCHANGED <<v2, v5, v6, v7, v8, v9, v11, v13>> /\ o.kind \in {"delete", "purge"} /\ v1' \subseteq v1
    BY <1>8 DEF List!Works, List!view
  <2>2. \A x \in v12 \ v12' : x = o
    BY <1>8 DEF List!Works
  <2>3. ASSUME NEW x \in v12'
        PROVE  \/ x \in v12
               \/ x = [kind |-> "deleted", session |-> o.session, id |-> o.id] /\ o.kind = "delete" /\ v1' = v1 \ {o.id}
               \/ x = [kind |-> "purged", session |-> o.session]
    BY <1>8, <2>3 DEF List!Works
  <2>4. ASSUME NEW x \in v12' PROVE ListOp(x)'
    <3>1. CASE x \in v12
      BY <1>0, <1>a, <2>1, <3>1, OpStands
    <3>2. CASE x = [kind |-> "deleted", session |-> o.session, id |-> o.id] /\ o.kind = "delete" /\ v1' = v1 \ {o.id}
      <4>1. o.id \in 1..v2
        BY <1>0, <3>2 DEF ListOp
      <4> QED BY <2>1, <3>2, <4>1 DEF ListOp
    <3>3. CASE x = [kind |-> "purged", session |-> o.session]
      BY <3>3 DEF ListOp
    <3> QED BY <2>3, <3>1, <3>2, <3>3
  <2>5. List!NoGhosts /\ List!ResizeKeepsContact
    BY <2>1, <2>2, ListRests
  <2> QED BY <1>0, <1>c, <2>1, <2>4, <2>5 DEF ListInv
<1>9. ASSUME NEW o \in v12, List!SearchArrives(o) PROVE ListInv' /\ List!NoGhosts /\ List!ResizeKeepsContact
  <2>1. UNCHANGED <<v1, v2, v11, v13>> /\ o.kind = "found" /\ v12' = v12 \ {o} /\ ListOp(o)
    BY <1>0, <1>9 DEF List!SearchArrives
  <2>2. \A x \in v12' : ListOp(x)'
    BY <1>0, <1>a, <2>1, OpStands
  <2>3. CASE List!Wanted(o)
    <3>1. v5' = o.rows /\ v6' = Len(o.rows) /\ v9' = 1 /\ v7' = v7 /\ v8' = v8
      BY <1>9, <2>3 DEF List!SearchArrives
    <3>2. o.rows \in Seq(1..v2) /\ \A i \in DOMAIN o.rows : o.rows[i] \notin v13
      BY <2>1, <2>3 DEF ListOp, List!Wanted
    <3>3. ViewInv'
      BY <1>0, <2>1, <3>1, <3>2 DEF ViewInv
    <3>4. List!Range(v5') \cap v13 = {}
      BY <3>1, <3>2 DEF List!Range
    <3>5. List!NoGhosts /\ List!ResizeKeepsContact
      BY <3>1, <3>4 DEF List!NoGhosts, List!ResizeKeepsContact
    <3> QED BY <1>0, <2>1, <2>2, <3>3, <3>5 DEF ListInv
  <2>4. CASE ~List!Wanted(o)
    <3>1. UNCHANGED <<v5, v6, v7, v8, v9>>
      BY <1>9, <2>4 DEF List!SearchArrives, List!view
    <3>2. List!NoGhosts /\ List!ResizeKeepsContact
      BY <3>1 DEF List!NoGhosts, List!ResizeKeepsContact
    <3> QED BY <1>0, <1>c, <2>1, <2>2, <3>1, <3>2 DEF ListInv
  <2> QED BY <2>3, <2>4
<1>10. ASSUME NEW o \in v12, List!Completed(o) PROVE ListInv' /\ List!NoGhosts /\ List!ResizeKeepsContact
  <2>1. UNCHANGED <<v1, v2>> /\ o.kind \in {"deleted", "purged", "sent"} /\ v12' = v12 \ {o} /\ ListOp(o)
        /\ v11' = List!SearchAfter(o) /\ List!Reload(v11'.on)
        /\ v13' = v13 \cup (IF o.kind = "purged" THEN (1..v2) \ v1 ELSE IF o.kind = "deleted" THEN {o.id} ELSE {})
    BY <1>0, <1>10 DEF List!Completed
  <2>2. ViewInv' /\ v8' = v8
    BY <1>0, <2>1, ViewReloaded
  <2>3. v13' \subseteq (1..v2) \ v1
    BY <1>0, <2>1 DEF ListOp
  <2>4. /\ IsSearch(v11') /\ v11'.gen \in 0..(MaxSearches + 1) /\ (v11'.on => v11'.gen <= MaxSearches)
        /\ v11.gen <= v11'.gen /\ (v11'.on => v11' = v11 /\ v13' = v13)
    <3>1. CASE o.kind \in {"deleted", "purged"} /\ v11.on
      <4>1. v11' = [on |-> FALSE, gen |-> MaxSearches + 1, waits |-> FALSE]
        BY <2>1, <3>1 DEF List!SearchAfter
      <4>2. IsSearch(v11') /\ ~v11'.on /\ v11'.gen = MaxSearches + 1
        BY <4>1 DEF IsSearch
      <4> QED BY <1>0, <1>a, <4>2
    <3>2. CASE ~(o.kind \in {"deleted", "purged"} /\ v11.on)
      <4>1. v11' = v11
        BY <2>1, <3>2 DEF List!SearchAfter
      <4>2. v11.on => v13' = v13
        BY <2>1, <3>2
      <4> QED BY <1>0, <1>a, <4>1, <4>2
    <3> QED BY <3>1, <3>2
  <2>5. v11'.gen \in Nat
    BY <1>a, <2>4
  <2>6. \A x \in v12' : ListOp(x)'
    BY <1>0, <1>a, <2>1, <2>4, <2>5, OpStands
  <2>7. List!NoGhosts /\ List!ResizeKeepsContact
    BY <2>1, <2>2, ListRests
  <2> QED BY <1>0, <2>1, <2>2, <2>3, <2>4, <2>6, <2>7 DEF ListInv
<1> QED BY <1>1, <1>2, <1>3, <1>4, <1>5, <1>6, <1>7, <1>8, <1>9, <1>10 DEF List!EditorListNext, List!EditorListStep

-----------------------------------------------------------------------------
(* EditorForm: v1 is stored, v2 listed, v3 pending, v4 gen, v5 mode, v6 form, v7 ops. *)

\* A form is its five fields.
IsEdit(f) == f = [id |-> f.id, session |-> f.session, rev |-> f.rev, text |-> f.text, typed |-> f.typed]

\* What a message on its way may be about: not the future, nothing typed since the save it
\* completes, no form opened after the work it completes was begun in the list.
OpIsPast(o) ==
    /\ o.gen \in Nat /\ o.session \in Nat /\ o.rev \in Nat /\ o.gen <= v4
    /\ o.kind = "fetched" => o.rev = 0
    /\ o.gen = v4 =>
          /\ o.session <= v6.session
          /\ o.session = v6.session => o.rev <= v6.rev
          /\ o.kind = "saved" /\ o.session = v6.session /\ o.rev = v6.rev => ~v6.typed
          /\ o.kind = "other" /\ v5 # "list" => o.session < v6.session

\* The inductive invariant.
FormInv ==
    /\ v4 \in Nat /\ v5 \in {"list", "edit", "askSave"}
    /\ IsEdit(v6) /\ v6.session \in Nat /\ v6.rev \in Nat
    /\ v6.typed => v5 # "list" /\ v6.rev # 0
    /\ \A o \in v7 : OpIsPast(o)

\* It holds at the start.
LEMMA FormStart == ASSUME Form!EditorFormInit PROVE FormInv
  BY DEF Form!EditorFormInit, FormInv, IsEdit, Form!NoForm

\* The form loses its input, or keeps it, and nothing is sent.
LEMMA FormRests ==
  ASSUME FormInv, v4' = v4, v7' \subseteq v7, v5' \in {"list", "edit", "askSave"}, IsEdit(v6'),
         v6'.session = v6.session, v6'.rev = v6.rev,
         ~v6'.typed \/ (v6'.typed = v6.typed /\ v5' # "list"),
         v5' # "list" => v5 # "list"
  PROVE  FormInv'
<1>1. ASSUME NEW o \in v7' PROVE OpIsPast(o)'
  <2>1. OpIsPast(o)
    BY DEF FormInv
  <2> QED BY <2>1 DEF OpIsPast
<1> QED BY <1>1 DEF FormInv

\* Every step keeps it.
LEMMA FormStep ==
  ASSUME FormInv, [Form!EditorFormNext]_(Form!formVars)
  PROVE  FormInv' /\ Form!TypedSurvives
<1> USE DEF Form!TypedSurvives
<1>0. /\ v4 \in Nat /\ v5 \in {"list", "edit", "askSave"} /\ IsEdit(v6) /\ v6.session \in Nat /\ v6.rev \in Nat
      /\ (v6.typed => v5 # "list" /\ v6.rev # 0) /\ \A o \in v7 : OpIsPast(o)
  BY DEF FormInv
<1>a. v6 = [id |-> v6.id, session |-> v6.session, rev |-> v6.rev, text |-> v6.text, typed |-> v6.typed]
  BY <1>0 DEF IsEdit
<1>1. CASE Form!Reopen
  <2>1. v4' = v4 + 1 /\ v5' = "list" /\ v7' = v7
        /\ v6' = [id |-> None, session |-> 0, rev |-> 0, text |-> 0, typed |-> FALSE]
    BY <1>1 DEF Form!Reopen, Form!NoForm
  <2>2. ASSUME NEW o \in v7' PROVE OpIsPast(o)'
    BY <1>0, <2>1 DEF OpIsPast
  <2>3. IsEdit(v6') /\ ~v6'.typed
    BY <2>1 DEF IsEdit
  <2> QED BY <1>0, <2>1, <2>2, <2>3 DEF FormInv
<1>2. ASSUME NEW c \in Contacts, Form!Open(c) PROVE FormInv' /\ Form!TypedSurvives
  <2>1. v4' = v4 /\ v5' = "edit" /\ v5 = "list"
        /\ v6' = [id |-> c, session |-> v6.session + 1, rev |-> 0, text |-> v2[c], typed |-> FALSE]
    BY <1>2 DEF Form!Open
  <2>2. ASSUME NEW o \in v7'
        PROVE  o \in v7 \/ o = [kind |-> "fetched", gen |-> v4, session |-> v6.session + 1, rev |-> 0, id |-> c]
    BY <1>2, <2>2 DEF Form!Open, Form!Sends
  <2>3. IsEdit(v6') /\ ~v6'.typed /\ v6'.session = v6.session + 1 /\ v6'.rev = 0
    BY <2>1 DEF IsEdit
  <2>4. ASSUME NEW o \in v7' PROVE OpIsPast(o)'
    <3>1. CASE o \in v7
      BY <1>0, <2>1, <2>3, <3>1 DEF OpIsPast
    <3>2. CASE o = [kind |-> "fetched", gen |-> v4, session |-> v6.session + 1, rev |-> 0, id |-> c]
      BY <1>0, <2>1, <2>3, <3>2 DEF OpIsPast
    <3> QED BY <2>2, <3>1, <3>2
  <2> QED BY <1>0, <2>1, <2>3, <2>4 DEF FormInv
<1>3. CASE Form!Type
  <2>1. v4' = v4 /\ v5' = "edit" /\ v5 = "edit" /\ v7' = v7 /\ v6' = [v6 EXCEPT !.rev = @ + 1, !.typed = TRUE]
    BY <1>3 DEF Form!Type
  <2>2. v6' = [id |-> v6.id, session |-> v6.session, rev |-> v6.rev + 1, text |-> v6.text, typed |-> TRUE]
    BY <1>a, <2>1
  <2>3. IsEdit(v6') /\ v6'.session = v6.session /\ v6'.rev = v6.rev + 1
    BY <2>2 DEF IsEdit
  <2>4. ASSUME NEW o \in v7' PROVE OpIsPast(o)'
    BY <1>0, <2>1, <2>3 DEF OpIsPast
  <2> QED BY <1>0, <2>1, <2>3, <2>4 DEF FormInv
<1>4. CASE Form!AskSave \/ UNCHANGED Form!formVars
  <2>1. UNCHANGED <<v4, v6, v7>> /\ (v5' = v5 \/ (v5 = "edit" /\ v5' = "askSave"))
    BY <1>4 DEF Form!AskSave, Form!formVars
  <2> QED BY <1>0, <2>1, FormRests
<1>9. CASE Form!Leave
  <2>1. UNCHANGED <<v4, v7>> /\ v5' = "list" /\ v6' = [v6 EXCEPT !.typed = FALSE]
    BY <1>9 DEF Form!Leave
  <2>2. v6' = [id |-> v6.id, session |-> v6.session, rev |-> v6.rev, text |-> v6.text, typed |-> FALSE]
    BY <1>a, <2>1
  <2>3. IsEdit(v6') /\ ~v6'.typed /\ v6'.session = v6.session /\ v6'.rev = v6.rev
    BY <2>2 DEF IsEdit
  <2> QED BY <1>0, <2>1, <2>3, FormRests
<1>5. CASE Form!Save
  <2>1. v4' = v4 /\ v5' = "edit" /\ v5 = "askSave"
    BY <1>5 DEF Form!Save
  <2>2. CASE v6' = v6 /\ v7' = v7
    BY <1>0, <2>1, <2>2, FormRests
  <2>3. ASSUME NEW new, v6' = [v6 EXCEPT !.typed = FALSE, !.text = new],
               v7' = v7 \cup {[kind |-> "saved", gen |-> v4, session |-> v6.session, rev |-> v6.rev, id |-> v6.id]}
        PROVE  FormInv' /\ Form!TypedSurvives
    <3>1. v6' = [id |-> v6.id, session |-> v6.session, rev |-> v6.rev, text |-> new, typed |-> FALSE]
      BY <1>a, <2>3
    <3>2. IsEdit(v6') /\ ~v6'.typed /\ v6'.session = v6.session /\ v6'.rev = v6.rev
      BY <3>1 DEF IsEdit
    <3>3. ASSUME NEW o \in v7' PROVE OpIsPast(o)'
      <4>1. CASE o \in v7
        BY <1>0, <2>1, <3>2, <4>1 DEF OpIsPast
      <4>2. CASE o = [kind |-> "saved", gen |-> v4, session |-> v6.session, rev |-> v6.rev, id |-> v6.id]
        BY <1>0, <2>1, <3>2, <4>2 DEF OpIsPast
      <4> QED BY <2>3, <4>1, <4>2
    <3> QED BY <1>0, <2>1, <2>3, <3>2, <3>3 DEF FormInv
  <2> QED BY <1>5, <2>2, <2>3 DEF Form!Save, Form!Sends
<1>6. CASE Form!Begin
  <2>1. UNCHANGED <<v4, v5, v6>> /\ v5 = "list"
        /\ v7' = v7 \cup {[kind |-> "other", gen |-> v4, session |-> v6.session, rev |-> 0, id |-> None]}
    BY <1>6 DEF Form!Begin, Form!Sends
  <2>2. ASSUME NEW o \in v7' PROVE OpIsPast(o)'
    <3>1. CASE o \in v7
      BY <1>0, <2>1, <3>1 DEF OpIsPast
    <3>2. CASE o = [kind |-> "other", gen |-> v4, session |-> v6.session, rev |-> 0, id |-> None]
      BY <1>0, <2>1, <3>2 DEF OpIsPast
    <3> QED BY <2>1, <3>1, <3>2
  <2> QED BY <1>0, <2>1, <2>2 DEF FormInv
<1>7. ASSUME NEW o \in v7, Form!Completed(o) PROVE FormInv' /\ Form!TypedSurvives
  <2>1. v4' = v4 /\ v7' = v7 \ {o} /\ OpIsPast(o) /\ o.kind \in {"saved", "other"}
    BY <1>0, <1>7 DEF Form!Completed
  <2>2. CASE Form!ClosesForm(o)
    <3>1. ~v6.typed
      BY <1>0, <2>1, <2>2 DEF Form!ClosesForm, OpIsPast
    <3>2. v5' = "list" /\ v6' = [v6 EXCEPT !.typed = FALSE]
      BY <1>7, <2>2 DEF Form!Completed
    <3>3. v6' = [id |-> v6.id, session |-> v6.session, rev |-> v6.rev, text |-> v6.text, typed |-> FALSE]
      BY <1>a, <3>2
    <3>4. IsEdit(v6') /\ ~v6'.typed /\ v6'.session = v6.session /\ v6'.rev = v6.rev
      BY <3>3 DEF IsEdit
    <3> QED BY <1>0, <2>1, <3>1, <3>2, <3>4, FormRests
  <2>3. CASE ~Form!ClosesForm(o)
    <3>1. v5' = v5 /\ v6' = v6
      BY <1>7, <2>3 DEF Form!Completed
    <3> QED BY <1>0, <2>1, <3>1, FormRests
  <2> QED BY <2>2, <2>3
<1>8. ASSUME NEW o \in v7, Form!RemoteArrives(o) PROVE FormInv' /\ Form!TypedSurvives
  <2>1. v4' = v4 /\ v5' = v5 /\ v7' = v7 \ {o} /\ OpIsPast(o) /\ o.kind = "fetched"
    BY <1>0, <1>8 DEF Form!RemoteArrives
  <2>2. CASE Form!Applies(o)
    <3>1. ~v6.typed
      BY <1>0, <2>1, <2>2 DEF Form!Applies, OpIsPast
    <3>2. v6' = [v6 EXCEPT !.text = v1[v6.id], !.typed = FALSE]
      BY <1>8, <2>2 DEF Form!RemoteArrives
    <3>3. v6' = [id |-> v6.id, session |-> v6.session, rev |-> v6.rev, text |-> v1[v6.id], typed |-> FALSE]
      BY <1>a, <3>2
    <3>4. IsEdit(v6') /\ ~v6'.typed /\ v6'.session = v6.session /\ v6'.rev = v6.rev
      BY <3>3 DEF IsEdit
    <3> QED BY <1>0, <2>1, <3>1, <3>4, FormRests
  <2>3. CASE ~Form!Applies(o)
    <3>1. v6' = v6
      BY <1>8, <2>3 DEF Form!RemoteArrives
    <3> QED BY <1>0, <2>1, <3>1, FormRests
  <2> QED BY <2>2, <2>3
<1> QED BY <1>1, <1>2, <1>3, <1>4, <1>5, <1>6, <1>7, <1>8, <1>9 DEF Form!EditorFormNext

-----------------------------------------------------------------------------
(* FormLookup: v1 is form, v2 partner, v3 done, v4 recent, v5 book, v6 rows, v7 saved, v8 asked. *)

\* The values of the form, the rows and the questions.
GridSources == {"none", "callbook", "manual", "wsjtx", "ref"}
LookupForms == [call : Calls \cup {None}, name : Lookup!Value, grid : Lookup!Value, carried : BOOLEAN,
                source : GridSources, gen : Nat, retain : BOOLEAN]
LookupRows == [call : Calls, name : Lookup!Value, grid : Lookup!Value, carried : BOOLEAN, book : Books]
Questions == [call : Calls, book : Books, gen : Nat]

\* A name and a grid of call c; a grid WSJT-X gave for another is marked as carried.
Owns(c, name, grid, carried) == name \in {None, Typed, c} /\ (grid \in {None, Typed, c} \/ carried)

\* The form shows data of its own callsign; a grid typed, or of a reference, is marked as such.
OwnForm(f, p) ==
    /\ f \in LookupForms
    /\ f.grid = Typed => f.source \in {"manual", "ref"}
    /\ f.source = "manual" => f.grid \in {None, Typed}
    /\ f.call # None => Owns(f.call, f.name, f.grid, f.carried) /\ p \in {None, Typed, f.call}

\* The inductive invariant.
LookupInv ==
    /\ OwnForm(v1, v2)
    /\ v5 \in Books /\ v6 \in Seq(LookupRows) /\ v7 \in {0, Len(v6)} /\ v8 \subseteq Questions
    /\ \A i \in DOMAIN v6 : Owns(v6[i].call, v6[i].name, v6[i].grid, v6[i].carried)

\* It holds at the start.
LEMMA LookupStart == ASSUME Lookup!FormLookupInit PROVE LookupInv
<1>1. PICK retain \in BOOLEAN :
         v1 = [call |-> None, name |-> None, grid |-> None, carried |-> FALSE, source |-> "none", gen |-> 0,
               retain |-> retain]
  BY DEF Lookup!FormLookupInit
<1>2. PICK no : no = FALSE
  OBVIOUS
<1>3. v1 = [call |-> None, name |-> None, grid |-> None, carried |-> no, source |-> "none", gen |-> 0, retain |-> retain]
  BY <1>1, <1>2
<1>4. None \in Lookup!Value /\ no \in BOOLEAN /\ None # Typed
  BY <1>2, LookupAssumption DEF Lookup!Value
<1>5. OwnForm(v1, v2)
  BY ONLY <1>3, <1>4, retain \in BOOLEAN DEF OwnForm, LookupForms, GridSources
<1> QED BY <1>5 DEF Lookup!FormLookupInit, LookupInv

\* A form with another grid.
LEMMA GridWritten ==
  ASSUME NEW f \in LookupForms, NEW v \in Lookup!Value, NEW from \in GridSources
  PROVE  LET g == Lookup!WithGrid(f, v, from)
         IN  /\ g \in LookupForms /\ g.call = f.call /\ g.name = f.name /\ g.grid = v /\ g.source = from
             /\ g.gen = f.gen
<1>1. PICK g, no : g = Lookup!WithGrid(f, v, from) /\ no = FALSE
  OBVIOUS
<1>2. f = [call |-> f.call, name |-> f.name, grid |-> f.grid, carried |-> f.carried, source |-> f.source,
           gen |-> f.gen, retain |-> f.retain]
  BY DEF LookupForms
<1>3. g = [[[f EXCEPT !.grid = v] EXCEPT !.carried = no] EXCEPT !.source = from]
  BY <1>1, Zenon DEF Lookup!WithGrid
<1>4. g = [call |-> f.call, name |-> f.name, grid |-> v, carried |-> no, source |-> from, gen |-> f.gen, retain |-> f.retain]
  BY <1>2, <1>3
<1>5. /\ f.call \in Calls \cup {None} /\ f.name \in Lookup!Value /\ f.gen \in Nat /\ f.retain \in BOOLEAN
      /\ no \in BOOLEAN
  BY <1>1 DEF LookupForms
<1>6. g \in LookupForms
  BY ONLY <1>4, <1>5, v \in Lookup!Value, from \in GridSources DEF LookupForms
<1> QED BY <1>1, <1>4, <1>6

\* A callsign is asked about at most once, and the other questions stay.
LEMMA AsksOrNot ==
  ASSUME LookupInv, NEW c \in Calls \cup {None}, NEW d, NEW before, NEW b \in Books, Lookup!Ask(c, d, before, b)
  PROVE  v8 \subseteq v8' /\ v8' \subseteq Questions
<1>1. CASE v8' = v8
  BY <1>1 DEF LookupInv
<1>2. CASE c # None /\ v8' = v8 \cup {[call |-> c, book |-> b, gen |-> v1.gen]}
  <2>1. v1.gen \in Nat
    BY DEF LookupInv, OwnForm, LookupForms
  <2>2. [call |-> c, book |-> b, gen |-> v1.gen] \in Questions
    BY <1>2, <2>1 DEF Questions
  <2> QED BY <1>2, <2>2 DEF LookupInv
<1> QED BY <1>1, <1>2 DEF Lookup!Ask

\* The emptied form of another callsign.
LEMMA EmptyForm ==
  ASSUME LookupInv, NEW c \in Calls \cup {None}, NEW p, p \in {None, Typed, c} \/ c = None
  PROVE  /\ OwnForm(Lookup!Emptied(c), p)
         /\ OwnForm([Lookup!Emptied(c) EXCEPT !.source = v1.source], p)
         /\ OwnForm(Lookup!WithGrid(Lookup!Emptied(c), c, "wsjtx"), p)
         /\ OwnForm(Lookup!WithGrid(Lookup!Emptied(c), Typed, "ref"), p)
         /\ OwnForm([Lookup!Emptied(c) EXCEPT !.gen = @ + 2], p)
<1>1. v1 \in LookupForms
  BY DEF LookupInv, OwnForm
<1>2. /\ v1.source \in GridSources /\ v1.gen \in Nat /\ v1.gen + 2 \in Nat /\ v1.retain \in BOOLEAN
      /\ None \in Lookup!Value /\ c \in Lookup!Value /\ Typed \in Lookup!Value /\ None # Typed /\ c # Typed
  BY <1>1, LookupAssumption DEF LookupForms, Lookup!Value
<1>a. PICK no, e : no = FALSE /\ e = Lookup!Emptied(c)
  OBVIOUS
<1>3. e = [call |-> c, name |-> None, grid |-> None, carried |-> no, source |-> "none", gen |-> v1.gen, retain |-> v1.retain]
  <2>1. v1 = [call |-> v1.call, name |-> v1.name, grid |-> v1.grid, carried |-> v1.carried, source |-> v1.source,
              gen |-> v1.gen, retain |-> v1.retain]
    BY <1>1 DEF LookupForms
  <2>2. e = [[[[[v1 EXCEPT !.call = c] EXCEPT !.name = None] EXCEPT !.grid = None] EXCEPT !.carried = no] EXCEPT !.source = "none"]
    BY <1>a, Zenon DEF Lookup!Emptied
  <2> QED BY <2>1, <2>2
<1>4. [e EXCEPT !.source = v1.source]
         = [call |-> c, name |-> None, grid |-> None, carried |-> no, source |-> v1.source, gen |-> v1.gen, retain |-> v1.retain]
  BY <1>3
<1>6. [e EXCEPT !.gen = @ + 2]
         = [call |-> c, name |-> None, grid |-> None, carried |-> no, source |-> "none", gen |-> v1.gen + 2, retain |-> v1.retain]
  BY <1>3
<1>b. no \in BOOLEAN
  BY <1>a
<1>c. e.call = c /\ e.name = None /\ "wsjtx" \in GridSources /\ "ref" \in GridSources
  BY <1>3 DEF GridSources
<1>7. OwnForm(e, p) /\ e \in LookupForms
  BY <1>2, <1>3, <1>b DEF OwnForm, Owns, LookupForms, GridSources
<1>8. OwnForm([e EXCEPT !.source = v1.source], p)
  BY <1>2, <1>4, <1>b DEF OwnForm, Owns, LookupForms, GridSources
<1>9. OwnForm([e EXCEPT !.gen = @ + 2], p)
  BY <1>2, <1>6, <1>b DEF OwnForm, Owns, LookupForms, GridSources
<1>10. OwnForm(Lookup!WithGrid(e, c, "wsjtx"), p)
  <2>1. PICK g : g = Lookup!WithGrid(e, c, "wsjtx")
    OBVIOUS
  <2>a. PICK w : w = "wsjtx"
    OBVIOUS
  <2>b. g = Lookup!WithGrid(e, c, w) /\ w \in GridSources /\ c \in Lookup!Value /\ e \in LookupForms
    BY <1>2, <1>7, <1>c, <2>1, <2>a, Zenon
  <2>c. g \in LookupForms /\ g.call = e.call /\ g.name = e.name /\ g.grid = c /\ g.source = w
    BY ONLY <2>b, GridWritten
  <2>2. g \in LookupForms /\ g.call = c /\ g.name = None /\ g.grid = c /\ g.source = "wsjtx"
    BY <1>c, <2>a, <2>c
  <2> QED BY <1>2, <2>1, <2>2 DEF OwnForm, Owns
<1>11. OwnForm(Lookup!WithGrid(e, Typed, "ref"), p)
  <2>1. PICK g : g = Lookup!WithGrid(e, Typed, "ref")
    OBVIOUS
  <2>a. PICK w : w = "ref"
    OBVIOUS
  <2>b. g = Lookup!WithGrid(e, Typed, w) /\ w \in GridSources /\ Typed \in Lookup!Value /\ e \in LookupForms
    BY <1>2, <1>7, <1>c, <2>1, <2>a, Zenon
  <2>c. g \in LookupForms /\ g.call = e.call /\ g.name = e.name /\ g.grid = Typed /\ g.source = w
    BY ONLY <2>b, GridWritten
  <2>2. g \in LookupForms /\ g.call = c /\ g.name = None /\ g.grid = Typed /\ g.source = "ref"
    BY <1>c, <2>a, <2>c
  <2> QED BY <1>2, <2>1, <2>2 DEF OwnForm, Owns
<1> QED BY <1>a, <1>7, <1>8, <1>9, <1>10, <1>11

\* clearForm leaves a form of the open logbook.
LEMMA FormCleared == ASSUME LookupInv, Lookup!ClearForm PROVE OwnForm(v1', v2') /\ v5' = v5 /\ v8' = v8
<1>1. v2' \in {None, v2} /\ v5' = v5 /\ v8' = v8
  BY DEF Lookup!ClearForm
<1>2. CASE v1.retain
  <2>1. v1' = [v1 EXCEPT !.gen = @ + 1] /\ v1 \in LookupForms
    BY <1>2 DEF Lookup!ClearForm, LookupInv, OwnForm
  <2>2. v1' \in LookupForms /\ v1'.grid = v1.grid /\ v1'.source = v1.source /\ v1'.call = v1.call /\ v1'.name = v1.name
        /\ v1'.carried = v1.carried
    BY <2>1 DEF LookupForms
  <2> QED BY <1>1, <2>2 DEF LookupInv, OwnForm
<1>3. CASE ~v1.retain
  BY <1>1, <1>3, EmptyForm DEF Lookup!ClearForm
<1> QED BY <1>1, <1>2, <1>3

\* fillCallbookData on a form that has no callsign, or the answer's.
LEMMA FormFilled ==
  ASSUME LookupInv, NEW q \in Questions, NEW known, Lookup!Fill(q, known), v1.call \in {None, q.call}
  PROVE  OwnForm(v1', v2') /\ (v1.grid = Typed => v1'.grid = Typed)
<1>1. v1 \in LookupForms /\ (v1.grid = Typed => v1.source \in {"manual", "ref"}) /\ q.call \in Calls
      /\ (v1.source = "manual" => v1.grid \in {None, Typed})
  BY DEF LookupInv, OwnForm, Questions
<1>2. v1 = [call |-> v1.call, name |-> v1.name, grid |-> v1.grid, carried |-> v1.carried, source |-> v1.source,
            gen |-> v1.gen, retain |-> v1.retain]
      /\ q.call \in Lookup!Value /\ None \in Lookup!Value /\ q.call # Typed /\ None # Typed
  BY <1>1, LookupAssumption DEF LookupForms, Lookup!Value
<1>3. v1.call # None => Owns(v1.call, v1.name, v1.grid, v1.carried) /\ v2 \in {None, Typed, v1.call}
  BY DEF LookupInv, OwnForm
<1>a. /\ v1.call \in Calls \cup {None} /\ v1.grid \in Lookup!Value /\ v1.carried \in BOOLEAN /\ v1.source \in GridSources
      /\ v1.gen \in Nat /\ v1.retain \in BOOLEAN
  BY <1>1 DEF LookupForms
<1>4. CASE known = {}
  <2>1. v2' = v2
        /\ v1' = [v1 EXCEPT !.name = None, !.grid = IF Lookup!OurGrid THEN None ELSE @,
                            !.source = IF Lookup!OurGrid THEN "none" ELSE @]
    BY <1>4 DEF Lookup!Fill
  <2>2. v1' = [call |-> v1.call, name |-> None, grid |-> IF Lookup!OurGrid THEN None ELSE v1.grid, carried |-> v1.carried,
               source |-> IF Lookup!OurGrid THEN "none" ELSE v1.source, gen |-> v1.gen, retain |-> v1.retain]
    BY <1>2, <2>1
  <2>3. v1' \in LookupForms
    BY <1>2, <1>a, <2>2 DEF LookupForms, GridSources
  <2> QED BY <1>1, <1>2, <1>3, <2>1, <2>2, <2>3 DEF OwnForm, Owns, Lookup!OurGrid
<1>5. CASE known # {}
  <2> DEFINE ours == "grid" \in known /\ Lookup!OurGrid
  <2>1. v2' = q.call
        /\ v1' = [v1 EXCEPT !.name = q.call, !.grid = IF ours THEN q.call ELSE @,
                            !.source = IF ours THEN "callbook" ELSE @]
    BY <1>5 DEF Lookup!Fill
  <2>2. v1' = [call |-> v1.call, name |-> q.call, grid |-> IF ours THEN q.call ELSE v1.grid, carried |-> v1.carried,
               source |-> IF ours THEN "callbook" ELSE v1.source, gen |-> v1.gen, retain |-> v1.retain]
    BY <1>2, <2>1
  <2>3. v1' \in LookupForms
    BY <1>2, <1>a, <2>2 DEF LookupForms, GridSources
  <2>4. v1'.grid = Typed => v1'.source \in {"manual", "ref"}
    BY <1>1, <1>2, <2>2 DEF Lookup!OurGrid
  <2>5. v1'.source = "manual" => v1'.grid \in {None, Typed}
    BY <1>1, <1>2, <2>2 DEF Lookup!OurGrid
  <2>6. v1'.call # None => Owns(v1'.call, v1'.name, v1'.grid, v1'.carried) /\ v2' \in {None, Typed, v1'.call}
    BY <1>3, <2>1, <2>2 DEF Owns
  <2>7. v1.grid = Typed => v1'.grid = Typed
    BY <1>1, <2>2 DEF Lookup!OurGrid
  <2> QED BY <2>3, <2>4, <2>5, <2>6, <2>7 DEF OwnForm
<1> QED BY <1>4, <1>5

\* enrichSavedQSO completes the row with data of its own callsign.
LEMMA RowCompleted ==
  ASSUME LookupInv, NEW q \in Questions, NEW known, Lookup!Completes(q, known)
  PROVE  /\ Lookup!Completed(q, known) \in Seq(LookupRows) /\ Len(Lookup!Completed(q, known)) = Len(v6)
         /\ \A i \in DOMAIN Lookup!Completed(q, known) :
               LET n == Lookup!Completed(q, known)[i] IN Owns(n.call, n.name, n.grid, n.carried)
         /\ v7 = Len(v6) /\ Lookup!Completed(q, known)[v7].name # None
<1> DEFINE r == v6[v7]
           n == [call |-> r.call, name |-> IF r.name = None THEN q.call ELSE r.name,
                 grid |-> IF r.grid = None /\ "grid" \in known THEN q.call ELSE r.grid, carried |-> r.carried, book |-> r.book]
           new == Lookup!Completed(q, known)
<1>1. v6 \in Seq(LookupRows) /\ v7 = Len(v6) /\ v7 # 0 /\ r.call = q.call
  BY DEF LookupInv, Lookup!Completes, Lookup!IsForSaved
<1>2. v7 \in DOMAIN v6 /\ r \in LookupRows
  BY <1>1
<1>3. new = [v6 EXCEPT ![v7] = n]
  <2> DEFINE m == [r EXCEPT !.name = IF @ = None THEN q.call ELSE @]
             w == [v6 EXCEPT ![v7] = m]
             g == [m EXCEPT !.grid = IF @ = None /\ "grid" \in known THEN q.call ELSE @]
  <2>1. r = [call |-> r.call, name |-> r.name, grid |-> r.grid, carried |-> r.carried, book |-> r.book]
    BY <1>2 DEF LookupRows
  <2>2. m = [call |-> r.call, name |-> IF r.name = None THEN q.call ELSE r.name, grid |-> r.grid, carried |-> r.carried,
             book |-> r.book]
    BY <2>1
  <2>3. g = n
    <3> DEFINE x == IF r.name = None THEN q.call ELSE r.name
               y == IF r.grid = None /\ "grid" \in known THEN q.call ELSE r.grid
    <3>1. m = [call |-> r.call, name |-> x, grid |-> r.grid, carried |-> r.carried, book |-> r.book]
      BY <2>2
    <3>2. g = [m EXCEPT !.grid = y]
      BY <3>1
    <3> HIDE DEF x, y, m, r
    <3>3. [m EXCEPT !.grid = y] = [call |-> r.call, name |-> x, grid |-> y, carried |-> r.carried, book |-> r.book]
      BY <3>1
    <3>4. n = [call |-> r.call, name |-> x, grid |-> y, carried |-> r.carried, book |-> r.book]
      BY DEF x, y
    <3> QED BY <3>2, <3>3, <3>4
  <2>4. w[v7] = m
    BY <1>1, <1>2
  <2>5. new = [w EXCEPT ![v7] = [w[v7] EXCEPT !.grid = IF @ = None /\ "grid" \in known THEN q.call ELSE @]]
    BY DEF Lookup!Completed
  <2>6. new = [w EXCEPT ![v7] = n]
    BY <2>3, <2>4, <2>5
  <2> HIDE DEF m, g, n, r, new
  <2> QED BY <1>1, <1>2, <2>6
<1>4. q.call \in Calls /\ q.call \in Lookup!Value /\ q.call # None
  BY LookupAssumption DEF Questions, Lookup!Value
<1>5. n \in LookupRows /\ n.name # None
  BY <1>2, <1>4 DEF LookupRows
<1>6. Owns(r.call, r.name, r.grid, r.carried)
  BY <1>2 DEF LookupInv
<1>7. Owns(n.call, n.name, n.grid, n.carried)
  BY <1>1, <1>6 DEF Owns
<1> HIDE DEF n, r, new
<1>8. new \in Seq(LookupRows) /\ Len(new) = Len(v6) /\ DOMAIN new = DOMAIN v6
  BY <1>1, <1>2, <1>3, <1>5
<1>9. \A i \in DOMAIN v6 : new[i] = IF i = v7 THEN n ELSE v6[i]
  <2>1. new[v7] = n
    BY <1>2, <1>3
  <2>2. ASSUME NEW i \in DOMAIN v6 \ {v7} PROVE new[i] = v6[i]
    BY <1>3, Zenon
  <2> QED BY <2>1, <2>2
<1>10. \A i \in DOMAIN new : Owns(new[i].call, new[i].name, new[i].grid, new[i].carried)
  BY <1>7, <1>8, <1>9 DEF LookupInv
<1>11. new[v7].name # None
  BY <1>2, <1>5, <1>9
<1> QED BY <1>1, <1>8, <1>10, <1>11 DEF new

\* An answer fills the form and the row of its own callsign only.
LEMMA Answers ==
  ASSUME LookupInv, NEW q \in v8, NEW known, Lookup!Answer(q, known)
  PROVE  LookupInv' /\ Lookup!TypedGridStays /\ Lookup!BlankStaysBlank
<1>0. /\ OwnForm(v1, v2) /\ v5 \in Books /\ v6 \in Seq(LookupRows) /\ v7 \in {0, Len(v6)} /\ v8 \subseteq Questions
      /\ \A i \in DOMAIN v6 : Owns(v6[i].call, v6[i].name, v6[i].grid, v6[i].carried)
  BY DEF LookupInv
<1>1. v8' = v8 \ {q} /\ v5' = v5 /\ q \in Questions /\ q.call # None
  BY <1>0, LookupAssumption DEF Lookup!Answer, Questions
<1>2. CASE UNCHANGED <<v1, v2>>
  <2>1. OwnForm(v1', v2')
    BY <1>0, <1>2
  <2>2. CASE v6' = v6 /\ v7' \in {0, v7}
    BY <1>0, <1>1, <1>2, <2>1, <2>2 DEF LookupInv, Lookup!TypedGridStays, Lookup!BlankStaysBlank
  <2>3. CASE v6' = Lookup!Completed(q, known) /\ v7' \in {0, v7} /\ Lookup!Completes(q, known)
    BY <1>0, <1>1, <1>2, <2>1, <2>3, RowCompleted DEF LookupInv, Lookup!TypedGridStays, Lookup!BlankStaysBlank
  <2> QED BY <2>2, <2>3 DEF Lookup!Answer
<1>3. CASE ~UNCHANGED <<v1, v2>>
  <2>1. Lookup!Fill(q, known) /\ v1.call \in {None, q.call} /\ (Lookup!OwnsAnswer(q) \/ v1.call = q.call)
    BY <1>3 DEF Lookup!Answer, Lookup!OwnsAnswer
  <2>2. OwnForm(v1', v2') /\ (v1.grid = Typed => v1'.grid = Typed)
    BY <1>1, <2>1, FormFilled
  <2>3. v1.call = None => q.gen = v1.gen
    BY <1>1, <2>1 DEF Lookup!OwnsAnswer
  <2>4. Lookup!TypedGridStays /\ Lookup!BlankStaysBlank
    BY <1>1, <2>2, <2>3 DEF Lookup!TypedGridStays, Lookup!BlankStaysBlank
  <2>5. CASE v6' = v6 /\ v7' \in {0, v7}
    BY <1>0, <1>1, <2>2, <2>4, <2>5 DEF LookupInv
  <2>6. CASE v6' = Lookup!Completed(q, known) /\ v7' \in {0, v7} /\ Lookup!Completes(q, known)
    BY <1>0, <1>1, <2>2, <2>4, <2>6, RowCompleted DEF LookupInv
  <2> QED BY <2>5, <2>6 DEF Lookup!Answer
<1> QED BY <1>2, <1>3

\* What was found about a callsign reaches the contact saved with it.
LEMMA ContactReached == ASSUME LookupInv PROVE Lookup!AnswerReachesContact
<1>1. SUFFICES ASSUME NEW q \in v8, NEW known \in Lookup!Knows \ {{}}, v7 # 0, q.book = v5,
                      v6[Len(v6)].book = v5, v6[Len(v6)].call = q.call, q.gen < v1.gen, Lookup!Answer(q, known)
               PROVE  v6'[Len(v6)].name # None
  BY DEF Lookup!AnswerReachesContact
<1>2. v7 = Len(v6) /\ q \in Questions /\ v1 \in LookupForms
  BY <1>1 DEF LookupInv, OwnForm
<1>3. Lookup!Completes(q, known)
  BY <1>1, <1>2 DEF Lookup!Completes, Lookup!IsForSaved
<1>4. ~Lookup!OwnsAnswer(q)
  <2>1. q.gen \in Nat /\ v1.gen \in Nat
    BY <1>2 DEF Questions, LookupForms
  <2> QED BY <1>1, <2>1 DEF Lookup!OwnsAnswer
<1>5. v6' = Lookup!Completed(q, known)
  BY <1>1, <1>3, <1>4 DEF Lookup!Answer
<1> QED BY <1>2, <1>3, <1>5, RowCompleted

\* Every step keeps it.
LEMMA LookupStep ==
  ASSUME LookupInv, [Lookup!FormLookupNext]_(Lookup!lookupVars)
  PROVE  /\ LookupInv'
         /\ Lookup!TypedGridStays /\ Lookup!AnswerReachesContact /\ Lookup!BlankStaysBlank
<1>0. /\ OwnForm(v1, v2) /\ v5 \in Books /\ v6 \in Seq(LookupRows) /\ v7 \in {0, Len(v6)} /\ v8 \subseteq Questions
      /\ \A i \in DOMAIN v6 : Owns(v6[i].call, v6[i].name, v6[i].grid, v6[i].carried)
  BY DEF LookupInv
<1>a. v1 \in LookupForms /\ v1.call \in Calls \cup {None}
  BY <1>0 DEF OwnForm, LookupForms
<1>b. SUFFICES LookupInv' /\ Lookup!TypedGridStays /\ Lookup!BlankStaysBlank
  BY ContactReached
\* Only an answer takes a question away.
<1>c. ASSUME OwnForm(v1', v2'), v5' \in Books, UNCHANGED <<v6, v7>>, v8 \subseteq v8', v8' \subseteq Questions
      PROVE  LookupInv' /\ Lookup!TypedGridStays /\ Lookup!BlankStaysBlank
  BY <1>0, <1>c DEF LookupInv, Lookup!TypedGridStays, Lookup!BlankStaysBlank
<1>1. CASE Lookup!Commit
  <2>1. UNCHANGED <<v1, v2, v5, v6, v7>>
    BY <1>1 DEF Lookup!Commit
  <2>2. v8 \subseteq v8' /\ v8' \subseteq Questions
    <3>1. PICK before : Lookup!Ask(v1.call, v3, before, v5)
      BY <1>1 DEF Lookup!Commit
    <3> QED BY <1>0, <1>a, <3>1, AsksOrNot
  <2> QED BY <1>0, <1>c, <2>1, <2>2
<1>2. CASE Lookup!ThreeSecondsPass \/ UNCHANGED Lookup!lookupVars
  BY <1>0, <1>2, <1>c DEF Lookup!ThreeSecondsPass, Lookup!lookupVars
<1>d. /\ None \in Lookup!Value /\ Typed \in Lookup!Value /\ v1.call \in Lookup!Value
      /\ v1.call # Typed /\ None # Typed
  BY <1>a, LookupAssumption DEF Lookup!Value
<1>3. CASE Lookup!TypeField \/ Lookup!WSJTXRepeats
  <2>1. UNCHANGED <<v2, v5, v6, v7, v8>>
        /\ \/ v1' = [v1 EXCEPT !.name = Typed]
           \/ v1' = Lookup!WithGrid(v1, Typed, "manual") \/ v1' = Lookup!WithGrid(v1, Typed, "ref")
           \/ v1' = Lookup!WithGrid(v1, None, "none") \/ v1' = Lookup!WithGrid(v1, v1.call, "wsjtx")
    BY <1>3 DEF Lookup!TypeField, Lookup!WSJTXRepeats
  <2>2. CASE v1' = [v1 EXCEPT !.name = Typed]
    <3>1. v1' \in LookupForms /\ v1'.name = Typed /\ v1'.grid = v1.grid /\ v1'.source = v1.source /\ v1'.call = v1.call
          /\ v1'.carried = v1.carried
      BY <1>a, <2>2 DEF LookupForms, Lookup!Value
    <3>2. OwnForm(v1', v2')
      BY <1>0, <2>1, <3>1 DEF OwnForm, Owns
    <3> QED BY <1>0, <1>c, <2>1, <3>2
  <2>3. ASSUME NEW v \in {None, Typed, v1.call}, NEW from \in GridSources, v1' = Lookup!WithGrid(v1, v, from),
               v = Typed => from \in {"manual", "ref"}, from = "manual" => v = Typed
        PROVE  LookupInv' /\ Lookup!TypedGridStays /\ Lookup!BlankStaysBlank
    <3>1. v1' \in LookupForms /\ v1'.name = v1.name /\ v1'.grid = v /\ v1'.source = from /\ v1'.call = v1.call
      BY <1>a, <1>d, <2>3, GridWritten
    <3>2. OwnForm(v1', v2')
      BY <1>0, <2>1, <2>3, <3>1 DEF OwnForm, Owns
    <3> QED BY <1>0, <1>c, <2>1, <3>2
  <2> QED BY <1>d, <2>1, <2>2, <2>3 DEF GridSources
<1>4. CASE Lookup!Save
  <2> DEFINE r == [call |-> v1.call, name |-> v1.name, grid |-> v1.grid, carried |-> v1.carried, book |-> v5]
  <2>1. Lookup!ClearForm /\ v6' = Append(v6, r) /\ v7' = Len(v6') /\ v1.call # None
    BY <1>4 DEF Lookup!Save
  <2>2. OwnForm(v1', v2') /\ v5' = v5 /\ v8' = v8
    BY <2>1, FormCleared
  <2>3. r \in LookupRows /\ Owns(r.call, r.name, r.grid, r.carried)
    BY <1>0, <1>a, <2>1 DEF OwnForm, LookupForms, LookupRows
  <2> HIDE DEF r
  <2>4. v6' \in Seq(LookupRows) /\ v7' \in {0, Len(v6')}
    BY <1>0, <2>1, <2>3
  <2>5. \A i \in DOMAIN v6' : Owns(v6'[i].call, v6'[i].name, v6'[i].grid, v6'[i].carried)
    <3>1. ASSUME NEW i \in DOMAIN v6' PROVE v6'[i] = r \/ (i \in DOMAIN v6 /\ v6'[i] = v6[i])
      BY <1>0, <2>1, <2>3, <3>1
    <3> QED BY <1>0, <2>3, <3>1
  <2>6. Lookup!TypedGridStays /\ Lookup!BlankStaysBlank
    BY <2>2 DEF Lookup!TypedGridStays, Lookup!BlankStaysBlank
  <2> QED BY <1>0, <2>2, <2>4, <2>5, <2>6 DEF LookupInv
<1>5. CASE Lookup!Clear
  <2>1. OwnForm(v1', v2') /\ v5' = v5 /\ v8' = v8 /\ UNCHANGED <<v6, v7>>
    BY <1>5, FormCleared DEF Lookup!Clear
  <2> QED BY <1>0, <1>c, <2>1
<1>6. ASSUME NEW c \in Lookup!Anyone, Lookup!ChangeCall(c)
      PROVE  LookupInv' /\ Lookup!TypedGridStays /\ Lookup!BlankStaysBlank
  <2>1. v1' = Lookup!Emptied(c) /\ v2' = None /\ UNCHANGED <<v5, v6, v7, v8>> /\ c \in Calls \cup {None}
    BY <1>6 DEF Lookup!ChangeCall, Lookup!Anyone
  <2>2. OwnForm(v1', v2')
    BY <2>1, EmptyForm
  <2> QED BY <1>0, <1>c, <2>1, <2>2
<1>7. ASSUME NEW c \in Lookup!Anyone, Lookup!WSJTXMovesOn(c)
      PROVE  LookupInv' /\ Lookup!TypedGridStays /\ Lookup!BlankStaysBlank
  <2>1. /\ c \in Calls \cup {None} /\ v2' = None /\ UNCHANGED <<v5, v6, v7>> /\ Lookup!Ask(c, v3, v4, v5)
        /\ \/ v1' = [Lookup!Emptied(c) EXCEPT !.source = v1.source]
           \/ v1' = Lookup!WithGrid(Lookup!Emptied(c), c, "wsjtx")
    BY <1>7 DEF Lookup!WSJTXMovesOn, Lookup!Anyone
  <2>2. OwnForm(v1', v2')
    BY <2>1, EmptyForm
  <2>3. v8 \subseteq v8' /\ v8' \subseteq Questions
    BY <1>0, <2>1, AsksOrNot
  <2> QED BY <1>0, <1>c, <2>1, <2>2, <2>3
<1>8. ASSUME NEW b \in Books, Lookup!SwitchBook(b)
      PROVE  LookupInv' /\ Lookup!TypedGridStays /\ Lookup!BlankStaysBlank
  <2>1. UNCHANGED <<v1, v2, v6, v7>> /\ v5' = b /\ Lookup!Ask(v1.call, None, Lookup!NothingRecent, b)
    BY <1>8 DEF Lookup!SwitchBook
  <2>2. v8 \subseteq v8' /\ v8' \subseteq Questions
    BY <1>a, <2>1, AsksOrNot
  <2> QED BY <1>0, <1>c, <2>1, <2>2
<1>9. ASSUME NEW q \in v8, NEW known \in Lookup!Knows, Lookup!Answer(q, known)
      PROVE  LookupInv' /\ Lookup!TypedGridStays /\ Lookup!BlankStaysBlank
  BY <1>9, Answers
<1>10. ASSUME NEW q \in v8, NEW known \in Lookup!Knows, Lookup!AnswerFails(q, known)
      PROVE  LookupInv' /\ Lookup!TypedGridStays /\ Lookup!BlankStaysBlank
  <2>1. UNCHANGED <<v1, v2, v5, v6, v7>> /\ v8' \subseteq v8
    BY <1>10 DEF Lookup!AnswerFails
  <2> QED BY <1>0, <2>1 DEF LookupInv, Lookup!TypedGridStays, Lookup!BlankStaysBlank
<1>11. ASSUME NEW c \in Calls, Lookup!FromTable(c)
      PROVE  LookupInv' /\ Lookup!TypedGridStays /\ Lookup!BlankStaysBlank
  <2>1. v2' = (IF c # v1.call THEN None ELSE v2) /\ UNCHANGED <<v5, v6, v7>> /\ Lookup!Ask(c, v3, v4, v5)
    BY <1>11 DEF Lookup!FromTable
  <2>2. v2' \in {None, Typed, c} /\ c # None
    BY <1>0, <2>1, LookupAssumption DEF OwnForm
  <2>3. v8 \subseteq v8' /\ v8' \subseteq Questions
    BY <1>0, <2>1, AsksOrNot
  <2>4. CASE Lookup!RefFree
    <3>1. v1' = Lookup!Emptied(c) \/ v1' = Lookup!WithGrid(Lookup!Emptied(c), Typed, "ref")
      BY <1>11, <2>4 DEF Lookup!FromTable
    <3>2. OwnForm(v1', v2')
      BY <2>2, <3>1, EmptyForm
    <3> QED BY <1>0, <1>c, <2>1, <2>3, <3>2
  <2>5. CASE ~Lookup!RefFree
    <3>1. PICK k : k = (v1.source = "wsjtx" /\ v1.grid \notin {None, c})
      OBVIOUS
    <3>2. v1' = [v1 EXCEPT !.call = c, !.name = None, !.carried = v1.source = "wsjtx" /\ v1.grid \notin {None, c}]
      BY <1>11, <2>5 DEF Lookup!FromTable
    <3>3. v1' = [[[v1 EXCEPT !.call = c] EXCEPT !.name = None] EXCEPT !.carried = k]
      BY <3>1, <3>2, Zenon
    <3>4. k \in BOOLEAN
      BY <3>1
    <3>5. /\ v1' \in LookupForms /\ v1'.call = c /\ v1'.name = None /\ v1'.grid = v1.grid /\ v1'.source = v1.source
          /\ v1'.carried = k
      BY <1>a, <1>d, <3>3, <3>4 DEF LookupForms
    <3>6. v1.source = "manual" \/ v1.source = "wsjtx"
      BY <2>5 DEF Lookup!RefFree
    <3>7. OwnForm(v1', v2')
      BY <1>0, <2>2, <3>1, <3>5, <3>6 DEF OwnForm, Owns
    <3> QED BY <1>0, <1>c, <2>1, <2>3, <3>7
  <2> QED BY <2>4, <2>5
<1> QED BY <1>1, <1>2, <1>3, <1>4, <1>5, <1>6, <1>7, <1>8, <1>9, <1>10, <1>11 DEF Lookup!FormLookupNext

\* And it implies what is checked.
LEMMA LookupSafe == ASSUME LookupInv PROVE Lookup!OwnData
  BY DEF LookupInv, OwnForm, Owns, Lookup!OwnData

-----------------------------------------------------------------------------
(* CallbookCascade: v1 is priority, v2 order, v3 shape, v4 fallback, v5 run, v6 asking, v7 pos, v8 merged,
   v9 failed, v10 first, v11 last, v12 outcome. *)

\* A result or none.
Data == Cascade!Result \cup {Cascade!NoData}

\* The inductive invariant.
CascadeInv ==
    /\ v5 \in Cascade!Whom /\ v6 \in Cascade!Whom
    /\ v8 \in Data /\ v10 \in Data /\ v11 \in Data
    /\ v12 \in {"open", "data", "error", "nothing"}
    /\ v5 = "call" => v10 = Cascade!NoData
    /\ Cascade!OperatingEntityWins /\ Cascade!FoundIsReturned

\* It holds at the start.
LEMMA CascadeStart == ASSUME Cascade!CascadeInit PROVE CascadeInv
  BY DEF Cascade!CascadeInit, CascadeInv, Cascade!Whom, Data, Cascade!OperatingEntityWins, Cascade!FoundIsReturned

\* A source's result is a result; what is not of the base call is of the call itself.
LEMMA AnswerIsResult ==
  ASSUME v5 \in Cascade!Whom, v6 \in Cascade!Whom, NEW s, NEW r \in Cascade!Answers(s)
  PROVE  /\ r \in Cascade!Result
         /\ v5 = "call" /\ ~r.base /\ r.country # Cascade!Blank => r.country = "own"
<1>1. r \in Cascade!About(v6, FALSE) \/ r \in Cascade!About(v6, TRUE)
  BY DEF Cascade!Answers
<1>2. ASSUME NEW b \in BOOLEAN, r \in Cascade!About(v6, b)
      PROVE  /\ r \in Cascade!Result
             /\ v5 = "call" /\ ~r.base /\ r.country # Cascade!Blank => r.country = "own"
  <2> DEFINE v == IF v5 = "base" \/ v6 = "base" \/ b THEN "home" ELSE "own"
  <2>1. r \in [base : {b \/ v6 # v5}, name : {Cascade!Blank, v}, country : {Cascade!Blank, v}, state : {Cascade!Blank, v}]
    BY <1>2 DEF Cascade!About
  <2>2. v \in Cascade!Value /\ Cascade!Blank \in Cascade!Value
    BY DEF Cascade!Value
  <2>3. r \in Cascade!Result
    BY <2>1, <2>2 DEF Cascade!Result
  <2>4. v5 = "call" /\ ~r.base => v = "own"
    BY <2>1 DEF Cascade!Whom
  <2> QED BY <2>1, <2>3, <2>4
<1> QED BY <1>1, <1>2

\* No answer is not an answer.
LEMMA NoDataIsNone == Cascade!NoData \notin Cascade!Result
  BY DEF Cascade!NoData, Cascade!Result, Cascade!Value, Cascade!Blank

\* Merging keeps the baseline, and a baseline of the base call takes the later country.
LEMMA MergeKeeps ==
  ASSUME NEW d \in Cascade!Result, NEW s \in Cascade!Result
  PROVE  LET m == Cascade!Merge(d, s)
         IN  /\ m \in Cascade!Result /\ m # Cascade!NoData
             /\ m.base = d.base
             /\ d.base /\ s.country # Cascade!Blank => m.country = s.country
             /\ Cascade!Keeps(d, m)
<1> DEFINE m == Cascade!Merge(d, s)
           Fill(f, over) == IF s[f] # Cascade!Blank /\ (d[f] = Cascade!Blank \/ over) THEN s[f] ELSE d[f]
<1>1. m = [base |-> d.base, name |-> Fill("name", d.base), country |-> Fill("country", d.base),
           state |-> Fill("state", FALSE)]
  BY DEF Cascade!Merge, Cascade!Override
<1>2. /\ s.name \in Cascade!Value /\ s.country \in Cascade!Value /\ s.state \in Cascade!Value
      /\ d.name \in Cascade!Value /\ d.country \in Cascade!Value /\ d.state \in Cascade!Value /\ d.base \in BOOLEAN
  BY DEF Cascade!Result
<1>3. m \in Cascade!Result
  BY <1>1, <1>2 DEF Cascade!Result
<1>4. m.base = d.base /\ (d.base /\ s.country # Cascade!Blank => m.country = s.country)
  BY <1>1
<1>5. m.name = Fill("name", d.base) /\ m.country = Fill("country", d.base) /\ m.state = Fill("state", FALSE)
  BY <1>1
<1> HIDE DEF m
<1>6. ASSUME NEW f \in {"name", "country", "state"}
      PROVE  /\ d[f] # Cascade!Blank => m[f] # Cascade!Blank
             /\ ~d.base /\ d[f] # Cascade!Blank => m[f] = d[f]
  <2>1. CASE f = "name"
    BY <1>5, <2>1
  <2>2. CASE f = "country"
    BY <1>5, <2>2
  <2>3. CASE f = "state"
    BY <1>5, <2>3
  <2> QED BY <2>1, <2>2, <2>3
<1>7. Cascade!Keeps(d, m)
  BY <1>6 DEF Cascade!Keeps
<1> QED BY <1>3, <1>4, <1>7, NoDataIsNone DEF m

\* Every step keeps it.
LEMMA CascadeStep ==
  ASSUME CascadeInv, [Cascade!CascadeNext]_(Cascade!cascadeVars)
  PROVE  CascadeInv' /\ Cascade!BaselineStands
<1>0. /\ v5 \in Cascade!Whom /\ v6 \in Cascade!Whom /\ v8 \in Data /\ v10 \in Data /\ v11 \in Data
      /\ v12 \in {"open", "data", "error", "nothing"} /\ (v5 = "call" => v10 = Cascade!NoData)
      /\ Cascade!OperatingEntityWins /\ Cascade!FoundIsReturned
  BY DEF CascadeInv
<1>1. CASE Cascade!Answered
  <2>1. PICK r \in Cascade!Answers(v2[v7]) : v8' = Cascade!With(v8, r) /\ v11' = r
    BY <1>1 DEF Cascade!Answered
  <2>2. v12 = "open" /\ v6' = v5 /\ UNCHANGED <<v5, v10, v12>>
    BY <1>1 DEF Cascade!Answered, Cascade!Asks, Cascade!Moves, Cascade!Kept
  <2>3. r \in Cascade!Result /\ (v5 = "call" /\ ~r.base /\ r.country # Cascade!Blank => r.country = "own")
    BY <1>0, AnswerIsResult
  <2>4. CASE v8 = Cascade!NoData
    <3>1. v8' = r
      BY <2>1, <2>4 DEF Cascade!With
    <3>2. (Cascade!OperatingEntityWins)'
      BY <2>1, <3>1 DEF Cascade!OperatingEntityWins
    <3>3. Cascade!BaselineStands
      BY <2>2, <2>4 DEF Cascade!BaselineStands
    <3> QED BY <1>0, <2>1, <2>2, <2>3, <3>1, <3>2, <3>3 DEF CascadeInv, Data, Cascade!FoundIsReturned
  <2>5. CASE v8 # Cascade!NoData
    <3>1. v8 \in Cascade!Result /\ v8' = Cascade!Merge(v8, r)
      BY <1>0, <2>1, <2>5 DEF Cascade!With, Data
    <3>2. /\ v8' \in Cascade!Result /\ v8' # Cascade!NoData /\ v8'.base = v8.base
          /\ (v8.base /\ r.country # Cascade!Blank => v8'.country = r.country) /\ Cascade!Keeps(v8, v8')
      BY <2>3, <3>1, MergeKeeps
    <3>3. (Cascade!OperatingEntityWins)'
      BY <2>1, <2>2, <2>3, <3>2 DEF Cascade!OperatingEntityWins
    <3>4. Cascade!BaselineStands
      BY <2>2, <3>2 DEF Cascade!BaselineStands
    <3> QED BY <1>0, <2>1, <2>2, <2>3, <3>2, <3>3, <3>4 DEF CascadeInv, Data, Cascade!FoundIsReturned
  <2> QED BY <2>4, <2>5
<1>2. CASE Cascade!NotFound \/ Cascade!Failed \/ UNCHANGED Cascade!cascadeVars
  <2>1. UNCHANGED <<v5, v8, v10, v12>> /\ v11' \in {v11, Cascade!NoData} /\ v6' \in {v5, v6, "base"}
    BY <1>2 DEF Cascade!NotFound, Cascade!Failed, Cascade!Moves, Cascade!Kept, Cascade!cascadeVars
  <2>2. (Cascade!OperatingEntityWins)' /\ (Cascade!FoundIsReturned)'
    BY <1>0, <2>1 DEF Cascade!OperatingEntityWins, Cascade!FoundIsReturned
  <2>3. Cascade!BaselineStands
    BY <2>1 DEF Cascade!BaselineStands, Cascade!Keeps
  <2>4. v6' \in Cascade!Whom /\ v11' \in Data
    BY <1>0, <2>1 DEF Cascade!Whom, Data
  <2> QED BY <1>0, <2>1, <2>2, <2>3, <2>4 DEF CascadeInv
<1>3. CASE Cascade!Concludes /\ Cascade!Again
  <2>1. /\ v5' = "base" /\ v6' = "base" /\ v10' = v8 /\ v8' = Cascade!NoData /\ v12' = v12 /\ v11' = v11
        /\ v12 = "open"
    BY <1>3 DEF Cascade!Concludes
  <2>2. CascadeInv'
    BY <1>0, <2>1 DEF CascadeInv, Cascade!Whom, Data, Cascade!OperatingEntityWins, Cascade!FoundIsReturned
  <2> QED BY <2>1, <2>2 DEF Cascade!BaselineStands
<1>4. CASE Cascade!Concludes /\ ~Cascade!Again
  <2> DEFINE found == IF v10 # Cascade!NoData /\ v8 # Cascade!NoData THEN Cascade!Merge(v10, v8)
                      ELSE IF v8 # Cascade!NoData THEN v8 ELSE v10
  <2>1. /\ v8' = found /\ v12' = IF found # Cascade!NoData THEN "data" ELSE IF v9 THEN "error" ELSE "nothing"
        /\ UNCHANGED <<v5, v6, v10, v11>> /\ v12 = "open"
    BY <1>4 DEF Cascade!Concludes
  <2>2. /\ found \in Data
        /\ found = Cascade!NoData => v10 = Cascade!NoData
        /\ v10 = Cascade!NoData => found = v8
        /\ v10 # Cascade!NoData => Cascade!Keeps(v10, found)
    <3>1. CASE v10 # Cascade!NoData /\ v8 # Cascade!NoData
      <4>1. v10 \in Cascade!Result /\ v8 \in Cascade!Result
        BY <1>0, <3>1 DEF Data
      <4> QED BY <3>1, <4>1, MergeKeeps DEF Data
    <3>2. CASE v10 = Cascade!NoData
      BY <1>0, <3>2
    <3>3. CASE v8 = Cascade!NoData /\ v10 # Cascade!NoData
      BY <1>0, <3>3 DEF Cascade!Keeps
    <3> QED BY <3>1, <3>2, <3>3
  <2> HIDE DEF found
  <2>3. v12' \in {"data", "error", "nothing"} /\ (v12' = "data" <=> v8' # Cascade!NoData)
    BY <2>1
  <2>4. (Cascade!FoundIsReturned)'
    BY <2>1, <2>2, <2>3 DEF Cascade!FoundIsReturned
  <2>5. (Cascade!OperatingEntityWins)'
    BY <1>0, <2>1, <2>2 DEF Cascade!OperatingEntityWins
  <2>6. Cascade!BaselineStands
    BY <2>1, <2>2, <2>3 DEF Cascade!BaselineStands
  <2> QED BY <1>0, <2>1, <2>2, <2>3, <2>4, <2>5, <2>6 DEF CascadeInv
<1> QED BY <1>1, <1>2, <1>3, <1>4 DEF Cascade!CascadeNext

\* And it implies what is checked.
LEMMA CascadeSafe ==
  ASSUME CascadeInv PROVE Cascade!OperatingEntityWins /\ Cascade!FoundIsReturned
  BY DEF CascadeInv

-----------------------------------------------------------------------------
(* CallbookSessions: v1 is client, v2 key, v3 old, v4 alive, v5 issued, v6 lookup, v7 since, v8 refused. *)

\* A lookup is its three fields.
IsWorker(f) == f = [at |-> f.at, key |-> f.key, sleep |-> f.sleep]

\* A key just issued is known to nobody but its worker, so that nobody can have had it refused.
Secret(w) ==
    v6[w].at = "store" =>
        /\ v6[w].key # 0 /\ v6[w].key # v2 /\ v6[w].key \notin v8
        /\ \A u \in Lookups \ {w} : v6[u].key # v6[w].key

\* The inductive invariant.
SessionsInv ==
    /\ v5 \in Nat /\ v2 \in 0..v5 /\ v8 \subseteq 1..v5
    /\ v6 = [w \in Lookups |-> v6[w]]
    /\ \A w \in Lookups :
          /\ IsWorker(v6[w]) /\ v6[w].key \in 0..v5
          /\ v6[w].at = "cached" => v6[w].key # 0
          /\ Secret(w)
    /\ Sessions!DeadKeyIsGone /\ Sessions!OutageKeepsSession

\* It holds at the start.
LEMMA SessionsStart == ASSUME Sessions!SessionsInit PROVE SessionsInv
  BY DEF Sessions!SessionsInit, SessionsInv, IsWorker, Secret, Sessions!Rest, Sessions!DeadKeyIsGone,
         Sessions!OutageKeepsSession, Sessions!At

\* Worker w goes on, with its key, the cached one or none; its new key is no secret.
LEMMA WorkerMoves ==
  ASSUME SessionsInv, NEW w \in Lookups, NEW f, v6' = [v6 EXCEPT ![w] = f], IsWorker(f),
         f.key \in {0, v2, v6[w].key}, v5' = v5, v1' = v1, v2' = v2,
         f.at # "store", f.at = "cached" => f.key # 0,
         v6[w].at = "store" => f.key = 0,
         v8' = v8 \/ (v8' = v8 \cup {f.key} /\ f.key # 0 /\ f.at = "drop" /\ v6[w].at # "store" /\ v6[w].key = f.key),
         v6[w].at = "drop" => v2 \notin v8 \/ v2 # v6[w].key,
         f.at = "drop" /\ v1 = "qrz" => f.key \in v8'
  PROVE  SessionsInv'
<1>1. /\ v5 \in Nat /\ v2 \in 0..v5 /\ v8 \subseteq 1..v5 /\ v6 = [u \in Lookups |-> v6[u]]
      /\ \A u \in Lookups : IsWorker(v6[u]) /\ v6[u].key \in 0..v5 /\ (v6[u].at = "cached" => v6[u].key # 0)
      /\ \A u \in Lookups : Secret(u)
  BY DEF SessionsInv
<1>2. v6'[w] = f /\ \A u \in Lookups \ {w} : v6'[u] = v6[u]
  BY <1>1
<1>3. v6' = [u \in Lookups |-> v6'[u]]
  BY <1>1
<1>4. f.key \in 0..v5
  BY <1>1
<1>5. v8' \subseteq 1..v5
  <2>1. f.key # 0 => f.key \in 1..v5
    BY <1>1, <1>4
  <2> QED BY <1>1, <2>1
<1>6. ASSUME NEW u \in Lookups PROVE Secret(u)'
  <2>1. CASE u = w
    BY <1>2, <2>1 DEF Secret
  <2>2. CASE u # w /\ v6[u].at = "store"
    <3>1. v6'[u] = v6[u] /\ v6[u].key # 0 /\ v6[u].key # v2 /\ v6[u].key \notin v8
      BY <1>1, <1>2, <2>2 DEF Secret
    <3>2. \A x \in Lookups \ {u} : v6[x].key # v6[u].key
      BY <1>1, <2>2 DEF Secret
    <3>3. v6[w].key # v6[u].key
      BY <2>2, <3>2
    <3>4. f.key # v6[u].key
      BY <3>1, <3>3
    <3>5. v6'[u].key \notin v8'
      BY <3>1, <3>4
    <3>6. \A x \in Lookups \ {u} : v6'[x].key # v6'[u].key
      BY <1>2, <3>1, <3>2, <3>4
    <3> QED BY <3>1, <3>5, <3>6 DEF Secret
  <2>3. CASE u # w /\ v6[u].at # "store"
    BY <1>2, <2>3 DEF Secret
  <2> QED BY <2>1, <2>2, <2>3
<1>7. (Sessions!DeadKeyIsGone)'
  <2>0. Sessions!DeadKeyIsGone
    BY DEF SessionsInv
  <2>1. SUFFICES ASSUME v2' \in v8' PROVE \E u \in Lookups : v6'[u].at = "drop" /\ v6'[u].key = v2'
    BY DEF Sessions!DeadKeyIsGone, Sessions!At
  <2>2. CASE v2 \in v8
    <3>1. PICK u \in Lookups : v6[u].at = "drop" /\ v6[u].key = v2
      BY <2>0, <2>2 DEF Sessions!DeadKeyIsGone, Sessions!At
    <3>2. u # w
      BY <2>2, <3>1
    <3> QED BY <1>2, <3>1, <3>2
  <2>3. CASE v2 \notin v8
    <3>1. f.key = v2 /\ f.at = "drop"
      BY <2>1, <2>3
    <3> QED BY <1>2, <3>1
  <2> QED BY <2>2, <2>3
<1>8. (Sessions!OutageKeepsSession)'
  <2>0. v1 = "qrz" => \A u \in Lookups : v6[u].at = "drop" => v6[u].key \in v8
    BY DEF SessionsInv, Sessions!OutageKeepsSession, Sessions!At
  <2>1. v8 \subseteq v8'
    OBVIOUS
  <2>2. ASSUME NEW u \in Lookups, v1' = "qrz", v6'[u].at = "drop" PROVE v6'[u].key \in v8'
    BY <1>2, <2>0, <2>1, <2>2
  <2> QED BY <2>2 DEF Sessions!OutageKeepsSession, Sessions!At
<1>9. \A u \in Lookups : IsWorker(v6'[u]) /\ v6'[u].key \in 0..v5' /\ (v6'[u].at = "cached" => v6'[u].key # 0)
  BY <1>1, <1>2, <1>4
<1> QED BY <1>1, <1>3, <1>5, <1>6, <1>7, <1>8, <1>9 DEF SessionsInv

\* Nobody's stage or key changes; a key that nobody has may come to be the cached one.
LEMMA SessionTicks ==
  ASSUME SessionsInv, v5' \in Nat, v5 <= v5', v8' = v8, v1' = v1,
         v2' = v2 \/ (v2' > v5 /\ v2' <= v5'), v2' \in Int,
         v6' = [w \in Lookups |-> v6'[w]],
         \A w \in Lookups : IsWorker(v6'[w]) /\ v6'[w].at = v6[w].at /\ v6'[w].key = v6[w].key
  PROVE  SessionsInv'
<1>1. /\ v5 \in Nat /\ v2 \in 0..v5 /\ v8 \subseteq 1..v5
      /\ \A u \in Lookups : v6[u].key \in 0..v5 /\ (v6[u].at = "cached" => v6[u].key # 0)
      /\ \A u \in Lookups : Secret(u)
  BY DEF SessionsInv
<1>2. v2' \in 0..v5' /\ v8' \subseteq 1..v5'
  BY <1>1
<1>3. \A u \in Lookups : v6'[u].key # v2' \/ v2' = v2
  BY <1>1
<1>4. \A u \in Lookups : v6'[u].key \in 0..v5' /\ (v6'[u].at = "cached" => v6'[u].key # 0)
  BY <1>1
<1>5. ASSUME NEW u \in Lookups PROVE Secret(u)'
  BY <1>1, <1>3 DEF Secret
<1>6. (Sessions!DeadKeyIsGone)'
  <2>1. v2' # v2 => v2' \notin v8'
    BY <1>1
  <2> QED BY <2>1 DEF SessionsInv, Sessions!DeadKeyIsGone, Sessions!At
<1>7. (Sessions!OutageKeepsSession)'
  BY DEF SessionsInv, Sessions!OutageKeepsSession, Sessions!At
<1> QED BY <1>2, <1>4, <1>5, <1>6, <1>7 DEF SessionsInv

\* Every step keeps it.
LEMMA SessionsStep ==
  ASSUME SessionsInv, [Sessions!SessionsNext]_(Sessions!sessionVars)
  PROVE  SessionsInv'
<1> USE DEF Sessions!At, Sessions!Rest
<1>0. /\ v5 \in Nat /\ v2 \in 0..v5 /\ v8 \subseteq 1..v5 /\ v6 = [u \in Lookups |-> v6[u]]
      /\ \A u \in Lookups : IsWorker(v6[u]) /\ v6[u].key \in 0..v5 /\ (v6[u].at = "cached" => v6[u].key # 0)
      /\ \A u \in Lookups : Secret(u)
  BY DEF SessionsInv
<1>1. ASSUME NEW w \in Lookups, Sessions!Start(w) PROVE SessionsInv'
  <2> DEFINE f == v6'[w]
  <2>1. v6' = [v6 EXCEPT ![w] = f] /\ IsWorker(f) /\ f.key \in {0, v2} /\ f.at \in {"cached", "login"}
        /\ (f.at = "cached" => f.key # 0)
    BY <1>1, <1>0 DEF Sessions!Start, Sessions!Goes, IsWorker
  <2>2. v5' = v5 /\ v1' = v1 /\ v2' = v2 /\ v8' = v8 /\ v6[w].at = "idle"
    BY <1>1 DEF Sessions!Start
  <2> HIDE DEF f
  <2> QED BY <2>1, <2>2, WorkerMoves
<1>2. ASSUME NEW w \in Lookups,
             \/ Sessions!Found(w) \/ Sessions!GivesUp(w)
             \/ Sessions!Lost(w) /\ v1 = "qrz"
      PROVE  SessionsInv'
  <2> DEFINE f == [at |-> "idle", key |-> 0, sleep |-> 0]
  <2>1. v6' = [v6 EXCEPT ![w] = f] /\ v6[w].at \notin {"store", "drop"}
    BY <1>2 DEF Sessions!Found, Sessions!GivesUp, Sessions!Lost, Sessions!Ends
  <2>2. v5' = v5 /\ v1' = v1 /\ v2' = v2 /\ v8' = v8
    BY <1>2 DEF Sessions!Found, Sessions!GivesUp, Sessions!Lost
  <2>3. IsWorker(f) /\ f.key = 0 /\ f.at = "idle"
    BY DEF IsWorker
  <2> HIDE DEF f
  <2> QED BY <2>1, <2>2, <2>3, WorkerMoves
<1>3. ASSUME NEW w \in Lookups, Sessions!Refused(w) \/ (Sessions!Lost(w) /\ v1 # "qrz") PROVE SessionsInv'
  <2> DEFINE f == [at |-> "drop", key |-> v6[w].key, sleep |-> v6[w].sleep]
  <2>1. v6' = [v6 EXCEPT ![w].at = "drop"] /\ v6[w].at = "cached"
    BY <1>3 DEF Sessions!Refused, Sessions!Lost
  <2>2. [v6[w] EXCEPT !.at = "drop"] = f /\ v6[w].key # 0
    <3>1. v6[w] = [at |-> v6[w].at, key |-> v6[w].key, sleep |-> v6[w].sleep]
      BY <1>0 DEF IsWorker
    <3> QED BY <1>0, <2>1, <3>1
  <2>3. v5' = v5 /\ v1' = v1 /\ v2' = v2 /\ (v8' = v8 \cup {v6[w].key} \/ (v8' = v8 /\ v1 # "qrz"))
    BY <1>3 DEF Sessions!Refused, Sessions!Lost
  <2>4. IsWorker(f) /\ f.key = v6[w].key /\ f.at = "drop"
    BY DEF IsWorker
  <2> HIDE DEF f
  <2> QED BY <2>1, <2>2, <2>3, <2>4, WorkerMoves
<1>4. ASSUME NEW w \in Lookups, Sessions!Drop(w) PROVE SessionsInv'
  <2> DEFINE f == [at |-> "login", key |-> 0, sleep |-> 0]
  <2>1. v6' = [v6 EXCEPT ![w] = f] /\ v6[w].at = "drop" /\ v2' = 0 /\ v1' = v1 /\ v5' = v5 /\ v8' = v8
    BY <1>4 DEF Sessions!Drop
  <2>2. v6'[w] = f /\ (\A u \in Lookups \ {w} : v6'[u] = v6[u]) /\ v6' = [u \in Lookups |-> v6'[u]]
    BY <1>0, <2>1
  <2>3. \A u \in Lookups : /\ IsWorker(v6'[u]) /\ v6'[u].key \in 0..v5'
                           /\ (v6'[u].at = "cached" => v6'[u].key # 0)
    BY <1>0, <2>1, <2>2 DEF IsWorker
  <2>4. ASSUME NEW u \in Lookups PROVE Secret(u)'
    BY <1>0, <2>1, <2>2 DEF Secret
  <2>5. v2' \notin v8' /\ v2' \in 0..v5'
    BY <1>0, <2>1
  <2>6. (Sessions!OutageKeepsSession)'
    BY <2>1, <2>2 DEF SessionsInv, Sessions!OutageKeepsSession
  <2>7. (Sessions!DeadKeyIsGone)'
    BY <2>5 DEF Sessions!DeadKeyIsGone
  <2> QED BY <1>0, <2>1, <2>2, <2>3, <2>4, <2>5, <2>6, <2>7 DEF SessionsInv
<1>5. ASSUME NEW w \in Lookups, Sessions!LogsIn(w) PROVE SessionsInv'
  <2> DEFINE f == [at |-> "store", key |-> v5 + 1, sleep |-> 0]
  <2>1. v6' = [v6 EXCEPT ![w] = f] /\ v6[w].at = "login" /\ v2' = v2 /\ v1' = v1 /\ v5' = v5 + 1 /\ v8' = v8
    BY <1>5 DEF Sessions!LogsIn
  <2>2. v6'[w] = f /\ (\A u \in Lookups \ {w} : v6'[u] = v6[u]) /\ v6' = [u \in Lookups |-> v6'[u]]
    BY <1>0, <2>1
  <2>3. /\ v5' \in Nat /\ v2' \in 0..v5' /\ v8' \subseteq 1..v5' /\ v5 + 1 \in 0..v5' /\ v5 + 1 # v2 /\ v5 + 1 \notin v8
        /\ v5 + 1 # 0 /\ \A u \in Lookups : v6[u].key \in 0..v5' /\ v6[u].key # v5 + 1
    BY <1>0, <2>1
  <2>4. \A u \in Lookups : /\ IsWorker(v6'[u]) /\ v6'[u].key \in 0..v5'
                           /\ (v6'[u].at = "cached" => v6'[u].key # 0)
    BY <1>0, <2>2, <2>3 DEF IsWorker
  <2>5. ASSUME NEW u \in Lookups PROVE Secret(u)'
    BY <1>0, <2>1, <2>2, <2>3 DEF Secret
  <2>6. (Sessions!OutageKeepsSession)'
    BY <2>1, <2>2 DEF SessionsInv, Sessions!OutageKeepsSession
  <2>7. (Sessions!DeadKeyIsGone)'
    BY <2>1, <2>2 DEF SessionsInv, Sessions!DeadKeyIsGone
  <2> QED BY <2>2, <2>3, <2>4, <2>5, <2>6, <2>7 DEF SessionsInv
<1>6. ASSUME NEW w \in Lookups, Sessions!Store(w) PROVE SessionsInv'
  <2> DEFINE k == v6[w].key
             f == [at |-> "fresh", key |-> k, sleep |-> Sessions!Pause]
  <2>1. v6' = [v6 EXCEPT ![w] = f] /\ v6[w].at = "store" /\ v2' = k /\ v1' = v1 /\ v5' = v5 /\ v8' = v8
    BY <1>6 DEF Sessions!Store, Sessions!Goes
  <2>2. v6'[w] = f /\ (\A u \in Lookups \ {w} : v6'[u] = v6[u]) /\ v6' = [u \in Lookups |-> v6'[u]]
    BY <1>0, <2>1
  <2>3. k \in 0..v5 /\ k \notin v8 /\ \A u \in Lookups \ {w} : v6[u].key # k
    BY <1>0, <2>1 DEF Secret
  <2>4. f.at = "fresh" /\ f.key = k /\ IsWorker(f)
    BY DEF IsWorker
  <2> HIDE DEF f, k
  <2>5. \A u \in Lookups : /\ IsWorker(v6'[u]) /\ v6'[u].key \in 0..v5'
                           /\ (v6'[u].at = "cached" => v6'[u].key # 0)
    BY <1>0, <2>1, <2>2, <2>3, <2>4
  <2>6. ASSUME NEW u \in Lookups PROVE Secret(u)'
    BY <1>0, <2>1, <2>2, <2>3, <2>4 DEF Secret, k
  <2>7. (Sessions!OutageKeepsSession)'
    BY <2>1, <2>2, <2>4 DEF SessionsInv, Sessions!OutageKeepsSession
  <2>8. (Sessions!DeadKeyIsGone)'
    BY <2>1, <2>3 DEF Sessions!DeadKeyIsGone
  <2> QED BY <1>0, <2>1, <2>2, <2>3, <2>5, <2>6, <2>7, <2>8 DEF SessionsInv
<1>7. CASE \/ Sessions!TestConnection \/ Sessions!Ages \/ UNCHANGED Sessions!sessionVars
           \/ \E k \in v4 : Sessions!Expire(k)
  <2>1. v6' = v6 /\ v8' = v8 /\ v1' = v1 /\ ((v2' = v2 /\ v5' = v5) \/ (v2' = v5 + 1 /\ v5' = v5 + 1))
    BY <1>7 DEF Sessions!TestConnection, Sessions!Ages, Sessions!Expire, Sessions!sessionVars
  <2>2. v5' \in Nat /\ v5 <= v5' /\ (v2' = v2 \/ (v2' > v5 /\ v2' <= v5')) /\ v2' \in Int
    BY <1>0, <2>1
  <2>3. v6' = [w \in Lookups |-> v6'[w]]
        /\ \A w \in Lookups : IsWorker(v6'[w]) /\ v6'[w].at = v6[w].at /\ v6'[w].key = v6[w].key
    BY <1>0, <2>1
  <2> QED BY <2>1, <2>2, <2>3, SessionTicks
<1>8. CASE Sessions!Tick
  <2>1. v6' = [w \in Lookups |-> IF v6[w].sleep > 0 THEN [v6[w] EXCEPT !.sleep = @ - 1] ELSE v6[w]]
        /\ v8' = v8 /\ v1' = v1 /\ v2' = v2 /\ v5' = v5
    BY <1>8 DEF Sessions!Tick
  <2>2. ASSUME NEW w \in Lookups PROVE IsWorker(v6'[w]) /\ v6'[w].at = v6[w].at /\ v6'[w].key = v6[w].key
    BY <1>0, <2>1 DEF IsWorker
  <2>3. v6' = [w \in Lookups |-> v6'[w]]
    BY <2>1
  <2>4. v5' \in Nat /\ v5 <= v5' /\ v2' \in Int
    BY <1>0, <2>1
  <2> QED BY <2>1, <2>2, <2>3, <2>4, SessionTicks
<1> QED BY <1>1, <1>2, <1>3, <1>4, <1>5, <1>6, <1>7, <1>8 DEF Sessions!SessionsNext

\* And it implies what is checked.
LEMMA SessionsSafe ==
  ASSUME SessionsInv PROVE Sessions!DeadKeyIsGone /\ Sessions!OutageKeepsSession
  BY DEF SessionsInv

-----------------------------------------------------------------------------
(* DupeCheck: v1 is rows, v2 book, v3 form, v4 cache, v5 confirmed, v6 retain, v7 ops, v8 lost, v9 warned. *)

\* A verdict is its four fields.
IsVerdict(c) == c = [fresh |-> c.fresh, key |-> c.key, book |-> c.book, dupe |-> c.dupe]

\* A verdict in use is about the open logbook, and one the log gives now if every writer was heard.
DupeInv ==
    /\ v1 = [b \in Books |-> v1[b]] /\ v2 \in Books
    /\ \A b \in Books : \A c \in v1[b] : c.call # None
    /\ v5 => v9
    /\ v7 \subseteq [book : Books, written : BOOLEAN]
    /\ IsVerdict(v4)
    /\ v4.fresh => v4.book = v2 /\ (Dupe!Settled => v4.dupe \in Dupe!Answers(v2, v4.key))

\* It holds at the start.
LEMMA DupeStart == ASSUME Dupe!DupeInit PROVE DupeInv
<1>1. v4 = Dupe!NoKey /\ v1 \in [Books -> SUBSET Dupe!Contact] /\ v2 \in Books /\ v5 = FALSE /\ v7 = {}
  BY DEF Dupe!DupeInit
<1>2. \A c \in Dupe!Contact : c.call # None
  BY DupeAssumption DEF Dupe!Contact
<1>3. IsVerdict(v4) /\ ~v4.fresh
  BY <1>1 DEF IsVerdict, Dupe!NoKey
<1>4. \A b \in Books : v1[b] \in SUBSET Dupe!Contact
  BY <1>1
<1> QED BY <1>1, <1>2, <1>3, <1>4 DEF DupeInv

\* checkDupe's verdict is the one kept for the fields and the logbook, or a new one.
LEMMA VerdictIsAnswer ==
  ASSUME DupeInv, NEW f, NEW b \in Books, NEW c \in Dupe!Checked(f, b)
  PROVE  /\ IsVerdict(c)
         /\ \/ c = v4 /\ (f.call = None \/ Dupe!Cached(f, b))
            \/ c.fresh /\ c.key = f /\ c.book = b /\ c.dupe \in Dupe!Answers(b, f)
<1>1. CASE f.call = None \/ Dupe!Cached(f, b)
  BY <1>1 DEF Dupe!Checked, DupeInv
<1>2. CASE ~(f.call = None \/ Dupe!Cached(f, b))
  <2>1. PICK d \in Dupe!Answers(b, f) : c = [fresh |-> TRUE, key |-> f, book |-> b, dupe |-> d]
    BY <1>2 DEF Dupe!Checked
  <2> QED BY <2>1 DEF IsVerdict
<1> QED BY <1>1, <1>2

\* A verdict that the data revision has left behind.
LEMMA VerdictGetsOld ==
  ASSUME NEW c, IsVerdict(c), v4' = [c EXCEPT !.fresh = FALSE]
  PROVE  IsVerdict(v4') /\ ~v4'.fresh
<1>1. c = [fresh |-> c.fresh, key |-> c.key, book |-> c.book, dupe |-> c.dupe]
  BY DEF IsVerdict
<1>2. v4' = [fresh |-> FALSE, key |-> c.key, book |-> c.book, dupe |-> c.dupe]
  BY <1>1
<1> QED BY <1>2 DEF IsVerdict

\* A step after which no verdict is in use.
LEMMA VerdictDropped ==
  ASSUME DupeInv, IsVerdict(v4'), ~v4'.fresh,
         v1' = [b \in Books |-> v1'[b]], v2' \in Books, \A b \in Books : \A x \in v1'[b] : x.call # None,
         v5' => v9', v7' \subseteq [book : Books, written : BOOLEAN]
  PROVE  DupeInv'
  BY DEF DupeInv, IsVerdict

\* A step that makes no verdict untrue.
LEMMA VerdictStands ==
  ASSUME DupeInv, v4' = v4, v2' = v2, v1' = [b \in Books |-> v1'[b]],
         \A b \in Books : \A x \in v1'[b] : x.call # None,
         v5' => v9', v7' \subseteq [book : Books, written : BOOLEAN],
         (Dupe!Settled)' => Dupe!Settled /\ v1'[v2] = v1[v2]
  PROVE  DupeInv'
<1>1. ASSUME v4'.fresh, (Dupe!Settled)' PROVE v4'.dupe \in (Dupe!Answers(v2, v4.key))'
  BY <1>1 DEF DupeInv, Dupe!Answers, Dupe!Matches
<1> QED BY <1>1 DEF DupeInv, IsVerdict

\* A contact that is logged drops the verdict.
LEMMA DupeLogs ==
  ASSUME DupeInv, NEW c, c.call # None, v1' = [v1 EXCEPT ![v2] = @ \cup {c}]
  PROVE  v1' = [b \in Books |-> v1'[b]] /\ \A b \in Books : \A x \in v1'[b] : x.call # None
<1>1. v1 = [b \in Books |-> v1[b]] /\ v2 \in Books /\ \A b \in Books : \A x \in v1[b] : x.call # None
  BY DEF DupeInv
<1>2. \A b \in Books : v1'[b] = IF b = v2 THEN v1[v2] \cup {c} ELSE v1[b]
  BY <1>1
<1> QED BY <1>1, <1>2

\* A contact that the log has is saved only after the warning.
LEMMA DupeWarns ==
  ASSUME DupeInv, Dupe!Save, v4' = Dupe!NoKey, Dupe!Settled, Dupe!Answers(v2, v3) = {TRUE} PROVE v9
<1>1. PICK c \in Dupe!Checked(v3, v2) :
         \/ v4' = c
         \/ v3.call # None /\ ~Dupe!Warned(c)
  BY DEF Dupe!Save
<1>2. v3.call # None
  <2>1. PICK x \in v1[v2] : x.call = v3.call
    BY DEF Dupe!Answers, Dupe!Matches
  <2> QED BY <2>1 DEF DupeInv
<1>3. v2 \in Books
  BY DEF DupeInv
<1>4. c.fresh /\ c.dupe \in Dupe!Answers(v2, v3)
  <2>1. CASE c = v4 /\ Dupe!Cached(v3, v2)
    BY <2>1 DEF DupeInv, Dupe!Cached
  <2>2. CASE c.fresh /\ c.key = v3 /\ c.book = v2 /\ c.dupe \in Dupe!Answers(v2, v3)
    BY <2>2
  <2> QED BY <1>2, <1>3, <2>1, <2>2, VerdictIsAnswer
<1>5. c # Dupe!NoKey
  BY <1>4 DEF Dupe!NoKey
<1>6. c.dupe
  BY <1>4
<1> QED BY <1>1, <1>2, <1>5, <1>6 DEF Dupe!Warned, DupeInv

\* Every step keeps it.
LEMMA DupeStep ==
  ASSUME DupeInv, [Dupe!DupeNext]_(Dupe!dupeVars)
  PROVE  DupeInv' /\ Dupe!NoSilentDuplicate
<1>0. /\ v1 = [b \in Books |-> v1[b]] /\ v2 \in Books /\ \A b \in Books : \A c \in v1[b] : c.call # None
      /\ (v5 => v9) /\ v7 \subseteq [book : Books, written : BOOLEAN] /\ IsVerdict(v4)
  BY DEF DupeInv
<1>a. IsVerdict(Dupe!NoKey) /\ ~Dupe!NoKey.fresh
  <2> DEFINE k == [call |-> None]
  <2>1. Dupe!NoKey = [fresh |-> FALSE, key |-> k, book |-> None, dupe |-> FALSE]
    BY DEF Dupe!NoKey
  <2> HIDE DEF k
  <2> QED BY <2>1 DEF IsVerdict
<1>b. Dupe!NoSilentDuplicate
  BY DupeWarns DEF Dupe!NoSilentDuplicate
<1> SUFFICES DupeInv'
  BY <1>b
<1>1. CASE \/ UNCHANGED Dupe!dupeVars \/ (\E f \in Dupe!FormOf : Dupe!OtherFill(f))
           \/ \E c \in FewCalls \cup {None} : Dupe!TypeCall(c)
  <2>1. UNCHANGED <<v1, v2, v4, v7, v8>> /\ ((v5' = v5 /\ v9' = v9) \/ ~v5')
    BY <1>1 DEF Dupe!TypeCall, Dupe!OtherFill, Dupe!dupeVars
  <2>2. (Dupe!Settled)' => Dupe!Settled
    BY <2>1 DEF Dupe!Settled
  <2> QED BY <1>0, <2>1, <2>2, VerdictStands
<1>2. CASE Dupe!LeaveField \/ \E f \in Dupe!FormOf : Dupe!FromTable(f)
  <2>1. PICK f : UNCHANGED <<v1, v2, v5, v7, v8, v9>> /\ v4' \in Dupe!Checked(f, v2)
    BY <1>2 DEF Dupe!LeaveField, Dupe!FromTable
  <2>2. IsVerdict(v4') /\ (v4' = v4 \/ (v4'.fresh /\ v4'.key = f /\ v4'.book = v2
                                       /\ v4'.dupe \in Dupe!Answers(v2, f)))
    BY <1>0, <2>1, VerdictIsAnswer
  <2>3. (Dupe!Settled)' => Dupe!Settled
    BY <2>1 DEF Dupe!Settled
  <2>4. CASE v4' = v4
    BY <1>0, <2>1, <2>3, <2>4, VerdictStands
  <2>5. CASE v4'.fresh /\ v4'.key = f /\ v4'.book = v2 /\ v4'.dupe \in Dupe!Answers(v2, f)
    <3>1. v4'.dupe \in (Dupe!Answers(v2, v4.key))'
      BY <2>1, <2>5 DEF Dupe!Answers, Dupe!Matches
    <3> QED BY <1>0, <2>1, <2>2, <2>5, <3>1 DEF DupeInv, IsVerdict
  <2> QED BY <2>2, <2>4, <2>5
<1>3. CASE Dupe!Delete
  <2>1. UNCHANGED <<v1, v2, v5, v7, v9>> /\ v4' = Dupe!NoKey
    BY <1>3 DEF Dupe!Delete
  <2> QED BY <1>0, <1>a, <2>1, VerdictDropped
<1>4. CASE Dupe!Save
  <2>1. PICK c \in Dupe!Checked(v3, v2) :
           /\ v5' = Dupe!Warned(c) /\ v9' = Dupe!Warned(c)
           /\ \/ v4' = c /\ UNCHANGED <<v1, v3, v8>>
              \/ v3.call # None /\ Dupe!Logged(v3) /\ Dupe!Changed(Dupe!NoKey)
    BY <1>4 DEF Dupe!Save
  <2>2. v2' = v2 /\ v7' = v7 /\ (v5' => v9')
    BY <1>4, <2>1 DEF Dupe!Save
  <2>3. CASE v4' = c /\ UNCHANGED <<v1, v3, v8>>
    <3>1. IsVerdict(c) /\ (c = v4 \/ (c.fresh /\ c.key = v3 /\ c.book = v2 /\ c.dupe \in Dupe!Answers(v2, v3)))
      BY <1>0, <2>1, VerdictIsAnswer
    <3>2. (Dupe!Settled)' => Dupe!Settled
      BY <2>2, <2>3 DEF Dupe!Settled
    <3>3. CASE c = v4
      BY <1>0, <2>2, <2>3, <3>2, <3>3, VerdictStands
    <3>4. CASE c.fresh /\ c.key = v3 /\ c.book = v2 /\ c.dupe \in Dupe!Answers(v2, v3)
      <4>1. v4'.dupe \in (Dupe!Answers(v2, v4.key))'
        BY <2>2, <2>3, <3>4 DEF Dupe!Answers, Dupe!Matches
      <4> QED BY <1>0, <2>2, <2>3, <3>1, <3>4, <4>1 DEF DupeInv, IsVerdict
    <3> QED BY <3>1, <3>3, <3>4
  <2>4. CASE v3.call # None /\ Dupe!Logged(v3) /\ Dupe!Changed(Dupe!NoKey)
    <3>1. v1' = [v1 EXCEPT ![v2] = @ \cup {v3}] /\ v4' = [Dupe!NoKey EXCEPT !.fresh = FALSE]
      BY <2>4 DEF Dupe!Logged, Dupe!Changed
    <3>2. v1' = [b \in Books |-> v1'[b]] /\ \A b \in Books : \A x \in v1'[b] : x.call # None
      BY <2>4, <3>1, DupeLogs
    <3> QED BY <1>0, <1>a, <2>2, <3>1, <3>2, VerdictDropped, VerdictGetsOld
  <2> QED BY <2>1, <2>3, <2>4
<1>5. ASSUME NEW c \in Dupe!Contact, Dupe!WSJTXLogs(c) PROVE DupeInv'
  <2>1. /\ v1' = [v1 EXCEPT ![v2] = @ \cup {c}] /\ v4' = [Dupe!NoKey EXCEPT !.fresh = FALSE]
        /\ UNCHANGED <<v2, v5, v7, v9>>
    BY <1>5 DEF Dupe!WSJTXLogs, Dupe!Logged, Dupe!Changed
  <2>2. c.call # None
    BY DupeAssumption DEF Dupe!Contact
  <2>3. v1' = [b \in Books |-> v1'[b]] /\ \A b \in Books : \A x \in v1'[b] : x.call # None
    BY <2>1, <2>2, DupeLogs
  <2> QED BY <1>0, <1>a, <2>1, <2>3, VerdictDropped, VerdictGetsOld
<1>6. CASE Dupe!StartWork
  <2>1. v7' = v7 \cup {[book |-> v2, written |-> FALSE]} /\ UNCHANGED <<v1, v2, v4, v5, v8, v9>>
    BY <1>6 DEF Dupe!StartWork
  <2>a. [book |-> v2, written |-> FALSE] \in [book : Books, written : BOOLEAN]
    BY <1>0
  <2>2. v7' \subseteq [book : Books, written : BOOLEAN]
    BY <1>0, <2>1, <2>a
  <2>3. (Dupe!Settled)' => Dupe!Settled
    BY <2>1 DEF Dupe!Settled
  <2> QED BY <1>0, <2>1, <2>2, <2>3, VerdictStands
<1>7. CASE Dupe!Reload
  <2>1. UNCHANGED <<v1, v2, v5, v7, v9>> /\ v4' = [v4 EXCEPT !.fresh = FALSE]
    BY <1>7 DEF Dupe!Reload, Dupe!Changed
  <2> QED BY <1>0, <2>1, VerdictDropped, VerdictGetsOld
<1>8. ASSUME NEW o \in v7, Dupe!WorkWrites(o) PROVE DupeInv'
  <2>1. PICK s \in Dupe!Written(v1[o.book]) : v1' = [v1 EXCEPT ![o.book] = s]
    BY <1>8 DEF Dupe!WorkWrites
  <2>2. v7' = (v7 \ {o}) \cup {[o EXCEPT !.written = TRUE]} /\ ~o.written /\ UNCHANGED <<v2, v4, v5, v8, v9>>
    BY <1>8 DEF Dupe!WorkWrites
  <2>3. o \in [book : Books, written : BOOLEAN]
    BY <1>0
  <2>a. o.book \in Books /\ o = [book |-> o.book, written |-> o.written]
    BY <2>3
  <2>b. [o EXCEPT !.written = TRUE].book = o.book /\ [o EXCEPT !.written = TRUE].written
    BY <2>a
  <2>4. [o EXCEPT !.written = TRUE] \in [book : Books, written : BOOLEAN]
    BY <2>3
  <2>5. v7' \subseteq [book : Books, written : BOOLEAN]
    BY <1>0, <2>2, <2>4
  <2>6. s \subseteq v1[o.book] \cup Dupe!Contact
    BY DEF Dupe!Written
  <2>7. \A x \in s : x.call # None
    BY <1>0, <2>a, <2>6, DupeAssumption DEF Dupe!Contact
  <2>8. \A b \in Books : v1'[b] = IF b = o.book THEN s ELSE v1[b]
    BY <1>0, <2>1
  <2>9. v1' = [b \in Books |-> v1'[b]] /\ \A b \in Books : \A x \in v1'[b] : x.call # None
    BY <1>0, <2>1, <2>7, <2>8
  <2>10. (Dupe!Settled)' => Dupe!Settled /\ v1'[v2] = v1[v2]
    BY <1>0, <2>2, <2>a, <2>b, <2>8 DEF Dupe!Settled
  <2> QED BY <1>0, <2>2, <2>5, <2>9, <2>10, VerdictStands
<1>9. ASSUME NEW o \in v7, Dupe!WorkAnnounced(o) PROVE DupeInv'
  <2>1. UNCHANGED <<v1, v2, v5, v9>> /\ v4' = [v4 EXCEPT !.fresh = FALSE] /\ v7' \subseteq v7
    BY <1>9 DEF Dupe!WorkAnnounced, Dupe!Changed
  <2> QED BY <1>0, <2>1, VerdictDropped, VerdictGetsOld
<1>10. ASSUME NEW o \in v7, Dupe!WorkDiscarded(o) PROVE DupeInv'
  <2>1. UNCHANGED <<v1, v2, v4, v5, v9>> /\ v7' = v7 \ {o} /\ v8' = v8 \cup {o.book}
    BY <1>10 DEF Dupe!WorkDiscarded
  <2>2. (Dupe!Settled)' => Dupe!Settled
    BY <2>1 DEF Dupe!Settled
  <2> QED BY <1>0, <2>1, <2>2, VerdictStands
<1>11. ASSUME NEW b \in Books, Dupe!Switch(b) PROVE DupeInv'
  <2>1. PICK c \in Dupe!Checked(v3, b) : v4' = [c EXCEPT !.fresh = FALSE]
    BY <1>11 DEF Dupe!Switch, Dupe!Changed
  <2>2. IsVerdict(c)
    BY VerdictIsAnswer
  <2>3. v2' = b /\ UNCHANGED <<v1, v5, v7, v9>>
    BY <1>11 DEF Dupe!Switch
  <2> QED BY <1>0, <2>1, <2>2, <2>3, VerdictDropped, VerdictGetsOld
<1> QED BY <1>1, <1>2, <1>3, <1>4, <1>5, <1>6, <1>7, <1>8, <1>9, <1>10, <1>11 DEF Dupe!DupeNext

\* And it implies what is checked.
LEMMA DupeSafe == ASSUME DupeInv PROVE Dupe!VerdictIsCurrent
  BY DEF DupeInv, Dupe!VerdictIsCurrent, Dupe!Cached

-----------------------------------------------------------------------------
(* ContestEntry: v1 is book, v2 active, v3 comment, v4 tag, v5 tagFor, v6 sent, v7 keep, v8 retain, v9 state,
   v10 disk, v11 logged. *)

\* A logbook's contests are the keys of a map, sorted.
\* A contest in the comment is the tag, and that of the contest it was made for.
TagInv(text, was, for) ==
    text \in Contests => text = was /\ (was = for \/ for = NoContest)

\* The inductive invariant.
EntryInv ==
    /\ v1 \in DOMAIN Order
    /\ v2 \in [DOMAIN Order -> Entry!Active] /\ v10.active \in [DOMAIN Order -> Entry!Active]
    /\ v4 \in Entry!Active /\ TagInv(v3, v4, v5)
    /\ Entry!TagIsOfContest /\ Entry!ExchangeIsOfContest

\* It holds at the start.
LEMMA EntryStart == ASSUME Entry!EntryInit PROVE EntryInv
<1>1. v1 \in DOMAIN Order /\ v4 = NoContest /\ v3 = NoText /\ v2 = [b \in DOMAIN Order |-> NoContest] /\ v10.active = v2
  BY DEF Entry!EntryInit, Entry!Logbooks
<1>2. v11.contest = NoContest /\ v11.comment = NoText /\ v11.sent = NoText
  BY DEF Entry!EntryInit
<1>3. NoContest \in Entry!Active /\ NoText \notin Contests
  BY EntryAssumption DEF Entry!Active
<1>4. Entry!ExchangeIsOfContest
  BY <1>2, EntryAssumption DEF Entry!ExchangeIsOfContest
<1>5. v2 \in [DOMAIN Order -> Entry!Active] /\ v10.active \in [DOMAIN Order -> Entry!Active] /\ v4 \in Entry!Active
  BY <1>1, <1>3
<1> QED BY <1>1, <1>2, <1>3, <1>4, <1>5 DEF EntryInv, TagInv, Entry!TagIsOfContest, Entry!ExchangeIsOfContest

\* applyContestComment leaves the name of the contest it saw, or none; it never takes the operator's words.
LEMMA TaggedIsOfContest ==
  ASSUME NEW id \in Entry!Active, NEW text, NEW was \in Entry!Active, NEW for, TagInv(text, was, for)
  PROVE  LET t == Entry!Tagged(id, text, was, for)
         IN  /\ t[2] \in Entry!Active /\ TagInv(t[1], t[2], t[3])
             /\ t[1] \in Contests => t[1] = id
             /\ text = Typed => t[1] = Typed
<1> DEFINE t == Entry!Tagged(id, text, was, for)
<1>0. /\ NoText \notin Contests /\ NoContest \notin Contests /\ Typed \notin Contests /\ Typed # NoContest /\ Typed # NoText
      /\ was # Typed /\ id # Typed /\ NoContest \in Entry!Active
  BY EntryAssumption DEF Entry!Active
<1>1. CASE id = for /\ id # NoContest
  <2>1. t[1] = text /\ t[2] = was /\ t[3] = for
    BY <1>1 DEF Entry!Tagged
  <2> QED BY <1>0, <1>1, <2>1 DEF TagInv
<1>2. CASE id = NoContest
  <2>1. t[1] = (IF was # NoContest /\ text = was THEN NoText ELSE text) /\ t[2] = NoContest
    BY <1>2 DEF Entry!Tagged
  <2>2. t[1] \notin Contests
    BY <1>0, <2>1 DEF TagInv
  <2> QED BY <1>0, <2>1, <2>2 DEF TagInv
<1>3. CASE id # for /\ id # NoContest /\ text \in {NoText, was}
  <2>1. t[1] = id /\ t[2] = id /\ t[3] = id
    BY <1>3 DEF Entry!Tagged
  <2> QED BY <1>0, <1>3, <2>1 DEF TagInv
<1>4. CASE id # for /\ id # NoContest /\ text \notin {NoText, was}
  <2>1. t[1] = text /\ t[2] = NoContest
    BY <1>4 DEF Entry!Tagged
  <2> QED BY <1>0, <1>4, <2>1 DEF TagInv
<1> QED BY <1>1, <1>2, <1>3, <1>4

\* The contest after the active one is one of the logbook's, or none.
LEMMA NextContest ==
  ASSUME EntryInv, Order[v1] # <<>> PROVE Entry!After(v1) \in Entry!Active
<1> DEFINE o == Order[v1]
           here == {i \in DOMAIN o : o[i] = v2[v1]}
<1>1. o \in Seq(Contests) /\ o # <<>> /\ \A i, j \in DOMAIN o : i # j => o[i] # o[j]
  BY EntryAssumption DEF EntryInv
<1>2. o[1] \in Contests
  BY <1>1
<1>3. ASSUME NEW i \in here, i < Len(o) PROVE o[1 + CHOOSE k \in here : TRUE] \in Contests
  <2>1. (CHOOSE k \in here : TRUE) \in here
    BY <1>3
  <2>2. (CHOOSE k \in here : TRUE) = i
    BY <1>1, <1>3, <2>1
  <2>3. i \in DOMAIN o
    BY <1>3
  <2>4. i + 1 \in 1..Len(o)
    BY <1>1, <1>3, <2>3
  <2> QED BY <1>1, <2>2, <2>4
<1> QED BY <1>2, <1>3 DEF Entry!After, Entry!Active

\* A step that changes neither the comment and its tag nor the contact logged last.
LEMMA EntryRests ==
  ASSUME EntryInv, UNCHANGED <<v3, v4, v5, v11>>, v1' \in DOMAIN Order,
         v2' \in [DOMAIN Order -> Entry!Active], v10'.active \in [DOMAIN Order -> Entry!Active]
  PROVE  EntryInv' /\ Entry!OwnCommentStays
<1>1. (Entry!TagIsOfContest)' /\ (Entry!ExchangeIsOfContest)'
  BY DEF EntryInv, Entry!TagIsOfContest, Entry!ExchangeIsOfContest
<1> QED BY <1>1 DEF EntryInv, Entry!OwnCommentStays

\* A step that applies the tag of a contest.
LEMMA EntryTags ==
  ASSUME EntryInv, NEW id \in Entry!Active, NEW text, NEW was \in Entry!Active, NEW for, TagInv(text, was, for),
         Entry!Tags(id, text, was, for), UNCHANGED <<v2, v10>>, v1' \in DOMAIN Order,
         (Entry!TagIsOfContest)', (Entry!ExchangeIsOfContest)'
  PROVE  EntryInv' /\ (text = Typed => v3' = Typed)
<1> DEFINE t == Entry!Tagged(id, text, was, for)
<1>1. v3' = t[1] /\ v4' = t[2] /\ v5' = t[3]
  BY DEF Entry!Tags, Entry!Becomes
<1>2. /\ t[2] \in Entry!Active /\ TagInv(t[1], t[2], t[3])
      /\ text = Typed => t[1] = Typed
  BY TaggedIsOfContest
<1> HIDE DEF t
<1> QED BY <1>1, <1>2 DEF EntryInv, TagInv

\* clearForm.
LEMMA EntryCleared ==
  ASSUME EntryInv, NEW t, NEW was \in Entry!Active, NEW for, NEW x, TagInv(t, was, for),
         Entry!Cleared(t, was, for, x), UNCHANGED <<v1, v2, v10>>,
         (Entry!TagIsOfContest)', (Entry!ExchangeIsOfContest)'
  PROVE  EntryInv'
<1>0. v2[v1] \in Entry!Active /\ v1 \in DOMAIN Order
  BY DEF EntryInv
<1>1. CASE v8
  <2>1. v3' = t /\ v4' = was /\ v5' = for
    BY <1>1 DEF Entry!Cleared, Entry!Becomes
  <2> QED BY <2>1 DEF EntryInv, TagInv
<1>2. CASE ~v8
  <2> DEFINE text == IF v7 THEN t ELSE NoText
  <2>1. Entry!Tags(v2[v1], text, was, NoContest)
    BY <1>2 DEF Entry!Cleared
  <2>2. TagInv(text, was, NoContest)
    BY EntryAssumption DEF TagInv
  <2> HIDE DEF text
  <2> QED BY <1>0, <2>1, <2>2, EntryTags
<1> QED BY <1>1, <1>2

\* Every step keeps it.
LEMMA EntryStep ==
  ASSUME EntryInv, [Entry!EntryNext]_(Entry!entryVars)
  PROVE  EntryInv' /\ Entry!OwnCommentStays
<1>0. /\ v1 \in DOMAIN Order /\ v2 \in [DOMAIN Order -> Entry!Active]
      /\ v10.active \in [DOMAIN Order -> Entry!Active] /\ v4 \in Entry!Active /\ TagInv(v3, v4, v5)
      /\ Entry!TagIsOfContest /\ Entry!ExchangeIsOfContest /\ v2[v1] \in Entry!Active
  BY DEF EntryInv
\* Contacts are logged by saveQSO only.
<1>a. ASSUME v11' = v11 PROVE (Entry!TagIsOfContest)' /\ (Entry!ExchangeIsOfContest)'
  BY <1>0, <1>a DEF Entry!TagIsOfContest, Entry!ExchangeIsOfContest
<1>1. ASSUME NEW t \in {NoText, Typed}, Entry!TypeComment(t) PROVE EntryInv' /\ Entry!OwnCommentStays
  <2>1. v3' = t /\ UNCHANGED <<v1, v2, v4, v5, v10, v11>>
    BY <1>1 DEF Entry!TypeComment
  <2>2. t \notin Contests
    BY EntryAssumption
  <2>3. Entry!OwnCommentStays
    BY <1>1, <2>1 DEF Entry!OwnCommentStays
  <2> QED BY <1>0, <1>a, <2>1, <2>2, <2>3 DEF EntryInv, TagInv
<1>2. CASE \/ Entry!TypeExchange(NoText) \/ Entry!TypeExchange(Typed) \/ Entry!ToggleRetain
           \/ UNCHANGED Entry!entryVars
  <2>1. UNCHANGED <<v1, v2, v3, v4, v5, v10, v11>>
    BY <1>2 DEF Entry!TypeExchange, Entry!ToggleRetain, Entry!entryVars
  <2> QED BY <1>0, <2>1, EntryRests
<1>3. CASE Entry!ToggleKeep \/ Entry!MenuSaves
  <2>1. UNCHANGED <<v1, v2, v3, v4, v5, v11>> /\ (v10' = v10 \/ v10'.active = v2)
    BY <1>3 DEF Entry!ToggleKeep, Entry!MenuSaves, Entry!Saved
  <2> QED BY <1>0, <2>1, EntryRests
<1>4. CASE Entry!Tick \/ Entry!LeaveCall
  <2>1. Entry!Tags(v2[v1], v3, v4, v5) /\ UNCHANGED <<v1, v2, v10, v11>>
    BY <1>4 DEF Entry!Tick, Entry!LeaveCall
  <2>2. EntryInv' /\ (v3 = Typed => v3' = Typed)
    BY <1>0, <1>a, <2>1, EntryTags
  <2> QED BY <2>2 DEF Entry!OwnCommentStays
<1>5. ASSUME NEW b \in DOMAIN Order, Entry!SwitchLogbook(b) PROVE EntryInv' /\ Entry!OwnCommentStays
  <2>1. Entry!Tags(v2[b], v3, v4, v5) /\ v1' = b /\ UNCHANGED <<v2, v10, v11>> /\ v2[b] \in Entry!Active
    BY <1>0, <1>5 DEF Entry!SwitchLogbook
  <2>2. EntryInv' /\ (v3 = Typed => v3' = Typed)
    BY <1>0, <1>a, <2>1, EntryTags
  <2> QED BY <2>2 DEF Entry!OwnCommentStays
<1>6. CASE Entry!Clear
  <2>1. Entry!Cleared(v3, v4, v5, v6) /\ UNCHANGED <<v1, v2, v10, v11>>
    BY <1>6 DEF Entry!Clear
  <2>2. EntryInv'
    BY <1>0, <1>a, <2>1, EntryCleared
  <2> QED BY <1>6, <2>2 DEF Entry!OwnCommentStays
<1>7. CASE Entry!Save
  <2> DEFINE id == v2[v1]
             t == Entry!Tagged(id, v3, v4, v5)
             x == Entry!Prefill(id, v6)
  <2>1. v11' = [contest |-> id, comment |-> t[1], sent |-> x] /\ Entry!Cleared(t[1], t[2], t[3], x)
        /\ UNCHANGED <<v1, v2, v10>>
    BY <1>7 DEF Entry!Save
  <2>2. t[2] \in Entry!Active /\ TagInv(t[1], t[2], t[3]) /\ (t[1] \in Contests => t[1] = id)
    BY <1>0, TaggedIsOfContest
  <2>3. id \in Prefilled => x = id
    BY DEF Entry!Prefill
  <2> HIDE DEF id, t, x
  <2>4. v11'.contest = id /\ v11'.comment = t[1] /\ v11'.sent = x
    BY <2>1
  <2>5. (Entry!TagIsOfContest)' /\ (Entry!ExchangeIsOfContest)'
    BY <2>2, <2>3, <2>4 DEF Entry!TagIsOfContest, Entry!ExchangeIsOfContest
  <2>6. EntryInv'
    BY <2>1, <2>2, <2>5, EntryCleared
  <2> QED BY <1>7, <2>6 DEF Entry!OwnCommentStays
<1>8. CASE Entry!CycleContest
  <2>1. v2' = [v2 EXCEPT ![v1] = Entry!After(v1)] /\ v10'.active = v2' /\ UNCHANGED <<v1, v3, v4, v5, v11>>
    BY <1>8 DEF Entry!CycleContest, Entry!Saved
  <2>2. Entry!After(v1) \in Entry!Active
    BY <1>8, NextContest DEF Entry!CycleContest
  <2>3. v2' \in [DOMAIN Order -> Entry!Active]
    BY <1>0, <2>1, <2>2
  <2> QED BY <1>0, <2>1, <2>3, EntryRests
<1>9. ASSUME NEW c \in Entry!Active, Entry!PickContest(c) PROVE EntryInv' /\ Entry!OwnCommentStays
  <2>1. v2' = [v2 EXCEPT ![v1] = c] /\ UNCHANGED <<v1, v3, v4, v5, v10, v11>>
    BY <1>9 DEF Entry!PickContest
  <2>2. v2' \in [DOMAIN Order -> Entry!Active]
    BY <1>0, <2>1
  <2> QED BY <1>0, <2>1, <2>2, EntryRests
<1>10. CASE Entry!Restart
  <2> DEFINE text == IF v10.state.retain THEN v10.state.text ELSE NoText
             old == IF text \in Contests THEN Typed ELSE text
             t == Entry!Tagged(v10.active[v1], old, NoContest, NoContest)
  <2>1. v2' = v10.active /\ v3' = t[1] /\ v4' = t[2] /\ v5' = t[3] /\ UNCHANGED <<v1, v10, v11>>
    BY <1>10 DEF Entry!Restart, Entry!Tags, Entry!Becomes
  <2>2. old \notin Contests /\ NoContest \in Entry!Active
    BY EntryAssumption DEF Entry!Active
  <2>3. TagInv(old, NoContest, NoContest) /\ v10.active[v1] \in Entry!Active
    BY <1>0, <2>2 DEF TagInv
  <2> HIDE DEF old
  <2>4. t[2] \in Entry!Active /\ TagInv(t[1], t[2], t[3])
    BY <2>2, <2>3, TaggedIsOfContest
  <2> HIDE DEF t
  <2>5. (Entry!TagIsOfContest)' /\ (Entry!ExchangeIsOfContest)'
    BY <1>a, <2>1
  <2>6. EntryInv'
    BY <1>0, <2>1, <2>4, <2>5 DEF EntryInv, TagInv
  <2> QED BY <1>10, <2>6 DEF Entry!OwnCommentStays
<1> QED BY <1>1, <1>2, <1>3, <1>4, <1>5, <1>6, <1>7, <1>8, <1>9, <1>10 DEF Entry!EntryNext, Entry!Logbooks

\* And it implies what is checked.
LEMMA EntrySafe == ASSUME EntryInv PROVE Entry!TagIsOfContest /\ Entry!ExchangeIsOfContest
  BY DEF EntryInv

-----------------------------------------------------------------------------
(* ContactDelete: v1 is row, v2 listed, v3 server, v4 made, v5 upload, v6 deletion, v7 toast, v8 shared,
   v9 offline. *)

\* An upload and a deletion under way.
Uploads == [stage : {"none", "wire", "answered"}, id : Nat]
Deletions == [stage : {"none", "begun", "local"}, id : Nat]

\* Every id was given out by the server.
DeleteInv ==
    /\ v4 \in Nat /\ v3 \subseteq 1..v4
    /\ v1 \in {-1} \cup 0..v4 /\ v2 \in {-1} \cup 0..v4
    /\ v5 \in Uploads /\ v5.id <= v4
    /\ v6 \in Deletions /\ v6.id <= v4
    /\ v7 = "removed" => v4 >= 1
    /\ Deletion!RemovedIsGone

\* It holds at the start.
LEMMA DeleteStart == ASSUME Deletion!DeleteInit PROVE DeleteInv
  BY DEF Deletion!DeleteInit, DeleteInv, Deletion!NoWork, Uploads, Deletions, Deletion!RemovedIsGone

\* Every step keeps it.
LEMMA DeleteStep == ASSUME DeleteInv, [Deletion!DeleteNext]_(Deletion!deleteVars) PROVE DeleteInv'
<1> USE DEF DeleteInv, Deletion!Gone, Deletion!NoWork, Deletion!RemovedIsGone
<1>0. CASE UNCHANGED <<v1, v2, v3, v4, v5, v6, v7>>
  BY <1>0
<1>1. CASE Deletion!Confirm
  <2>1. v6' = [stage |-> "begun", id |-> v2] /\ v2 \in 0..v4 /\ v7' = "none"
    BY <1>1 DEF Deletion!Confirm
  <2>2. v6' \in Deletions /\ v6'.id <= v4
    BY <2>1 DEF Deletions
  <2> QED BY <1>1, <2>1, <2>2 DEF Deletion!Confirm
<1>2. CASE Deletion!DeleteRow
  <2>1. v6' \in Deletions /\ v6'.id <= v4
    BY <1>2 DEF Deletion!DeleteRow, Deletions
  <2>2. v1' \in {-1} \cup 0..v4 /\ UNCHANGED <<v2, v3, v4, v5, v7>>
    BY <1>2 DEF Deletion!DeleteRow
  <2> QED BY <2>1, <2>2
<1>3. CASE Deletion!DeleteCopy
  <2>1. v6' \in Deletions /\ v6'.id <= v4' /\ UNCHANGED <<v1, v2, v4, v5>>
    BY <1>3 DEF Deletion!DeleteCopy, Deletions
  <2>2. v3' \subseteq 1..v4 /\ (v7' = "removed" => v6.id > 0 /\ v3' = v3 \ {v6.id})
    BY <1>3 DEF Deletion!DeleteCopy, Deletion!Tried
  <2>3. v6.id \in Nat
    BY DEF Deletions
  <2>4. v7' = "removed" => v4 >= 1 /\ (v4 <= 1 => v3' = {})
    BY <2>2, <2>3
  <2>5. v4' = v4 /\ v3' \subseteq 1..v4'
    BY <2>1, <2>2, <1>3 DEF Deletion!DeleteCopy
  <2>6. v1' = v1 /\ v2' = v2 /\ v5' = v5
    BY <2>1
  <2> QED BY <2>1, <2>4, <2>5, <2>6
<1>4. CASE Deletion!ReadPage
  BY <1>4 DEF Deletion!ReadPage
<1>5. CASE Deletion!StartUpload \/ Deletion!UploadFails
  <2>1. v5' \in Uploads /\ v5'.id <= v4
    BY <1>5 DEF Deletion!StartUpload, Deletion!UploadFails, Uploads
  <2>2. UNCHANGED <<v1, v2, v3, v4, v6, v7>>
    BY <1>5 DEF Deletion!StartUpload, Deletion!UploadFails
  <2> QED BY <2>1, <2>2
<1>6. CASE Deletion!ServerStores
  <2>1. v4' = v4 + 1 /\ v3' = v3 \cup {v4 + 1} /\ UNCHANGED <<v1, v2, v6, v7>>
    BY <1>6 DEF Deletion!ServerStores
  <2>2. v5' \in Uploads /\ v5'.id <= v4'
    BY <1>6, <2>1 DEF Deletion!ServerStores, Uploads
  <2>3. ~(v7 = "removed" /\ v4 + 1 <= 1)
    OBVIOUS
  <2>4. v4 \in Nat /\ v3 \subseteq 1..v4 /\ v1 \in {-1} \cup 0..v4 /\ v2 \in {-1} \cup 0..v4
    OBVIOUS
  <2>5. v4' \in Nat /\ v3' \subseteq 1..v4'
    BY <2>1, <2>4
  <2>6. v1' \in {-1} \cup 0..v4' /\ v2' \in {-1} \cup 0..v4'
    BY <2>1, <2>4
  <2>7. v6' \in Deletions /\ v6'.id <= v4'
    <3>1. v6 \in Deletions /\ v6.id <= v4 /\ v6.id \in Nat /\ v4 \in Nat
      BY DEF Deletions
    <3>2. v6' = v6
      BY <2>1
    <3> QED BY <2>1, <3>1, <3>2
  <2>8. (v7' = "removed" => v4' >= 1) /\ ~(v7' = "removed" /\ v4' <= 1)
    BY <2>1, <2>3, <2>4
  <2> QED BY <2>2, <2>5, <2>6, <2>7, <2>8
<1>7. CASE Deletion!Attach
  <2>1. v5' \in Uploads /\ v5'.id <= v4 /\ v5.id \in Nat
    BY <1>7 DEF Deletion!Attach, Uploads
  <2>2. v1' \in {-1} \cup 0..v4 /\ UNCHANGED <<v2, v3, v4, v6, v7>>
    BY <1>7, <2>1 DEF Deletion!Attach
  <2> QED BY <2>1, <2>2
<1>8. ASSUME NEW c, Deletion!DownloadCopy(c) \/ Deletion!ServerDeletes(c) PROVE DeleteInv'
  <2>0. v3 \subseteq 0..v4 /\ v1 \in {-1} \cup 0..v4 /\ 0 \in 0..v4
    OBVIOUS
  <2>1. v1' \in {-1} \cup 0..v4 /\ v3' \subseteq v3
    <3>1. CASE Deletion!DownloadCopy(c)
      BY <2>0, <3>1 DEF Deletion!DownloadCopy
    <3>2. CASE Deletion!ServerDeletes(c)
      BY <2>0, <3>2 DEF Deletion!ServerDeletes
    <3> QED BY <1>8, <3>1, <3>2
  <2>2. v2' = v2 /\ v4' = v4 /\ v5' = v5 /\ v6' = v6 /\ v7' = v7
    BY <1>8 DEF Deletion!DownloadCopy, Deletion!ServerDeletes
  <2>3. v3' \subseteq 1..v4' /\ (v3 = {} => v3' = {})
    BY <2>1, <2>2
  <2> QED BY <2>1, <2>2, <2>3
<1>9. CASE Deletion!Network \/ UNCHANGED Deletion!deleteVars
  BY <1>0, <1>9 DEF Deletion!Network, Deletion!deleteVars
<1> QED BY <1>1, <1>2, <1>3, <1>4, <1>5, <1>6, <1>7, <1>8, <1>9 DEF Deletion!DeleteNext

\* And it implies what is checked.
LEMMA DeleteSafe == ASSUME DeleteInv PROVE Deletion!RemovedIsGone
  BY DEF DeleteInv

-----------------------------------------------------------------------------
(* The desk. *)

\* A component that runs begins as it says.
LEMMA ContactStart ==
  ASSUME DeskInit
  PROVE  /\ part = "list" => List!EditorListInit
         /\ part = "form" => Form!EditorFormInit
         /\ part = "lookup" => Lookup!FormLookupInit
         /\ part = "cascade" => Cascade!CascadeInit
         /\ part = "sessions" => Sessions!SessionsInit
         /\ part = "dupe" => Dupe!DupeInit
         /\ part = "entry" => Entry!EntryInit
         /\ part = "delete" => Deletion!DeleteInit
  BY DEF DeskInit

\* It takes its own steps, or rests: the components share no state.
LEMMA ContactStep ==
  ASSUME [DeskNext]_allVars
  PROVE  /\ part' = part
         /\ part = "list" => [List!EditorListNext]_(List!listVars)
         /\ part = "form" => [Form!EditorFormNext]_(Form!formVars)
         /\ part = "lookup" => [Lookup!FormLookupNext]_(Lookup!lookupVars)
         /\ part = "cascade" => [Cascade!CascadeNext]_(Cascade!cascadeVars)
         /\ part = "sessions" => [Sessions!SessionsNext]_(Sessions!sessionVars)
         /\ part = "dupe" => [Dupe!DupeNext]_(Dupe!dupeVars)
         /\ part = "entry" => [Entry!EntryNext]_(Entry!entryVars)
         /\ part = "delete" => [Deletion!DeleteNext]_(Deletion!deleteVars)
<1>1. CASE UNCHANGED allVars
  <2>1. /\ part' = part /\ v1' = v1 /\ v2' = v2 /\ v3' = v3 /\ v4' = v4 /\ v5' = v5 /\ v6' = v6 /\ v7' = v7
        /\ v8' = v8 /\ v9' = v9 /\ v10' = v10 /\ v11' = v11 /\ v12' = v12 /\ v13' = v13 /\ v14' = v14
        /\ v15' = v15 /\ v16' = v16 /\ v17' = v17 /\ v18' = v18 /\ v19' = v19
    BY <1>1 DEF allVars, r7, r8, r9, r10, r11, r12, r13, r14, r15, r17, to8
  <2> QED BY <2>1 DEF List!listVars, List!view, Form!formVars, Lookup!lookupVars, Cascade!cascadeVars,
          Sessions!sessionVars, Dupe!dupeVars, Entry!entryVars, Deletion!deleteVars
<1>2. CASE DeskNext
  BY <1>2 DEF DeskNext, ListRuns, FormRuns, LookupRuns, CascadeRuns, SessionsRuns, DupeRuns, EntryRuns,
        DeletionRuns, FeedRuns, StreamRuns, ServerRuns, TlsRuns, PumpRuns, TableRuns, FocusRuns, PickerRuns,
        PSKRuns, NetRuns, SolarRuns, RecentRuns, RouteRuns
<1> QED BY <1>1, <1>2

\* The invariant of the component that runs.
ContactInv ==
    /\ part = "list" => ListInv
    /\ part = "form" => FormInv
    /\ part = "lookup" => LookupInv
    /\ part = "cascade" => CascadeInv
    /\ part = "sessions" => SessionsInv
    /\ part = "dupe" => DupeInv
    /\ part = "entry" => EntryInv
    /\ part = "delete" => DeleteInv

\* For any number of contacts, callsigns, sources, workers and contests: the list shows a page
\* that exists and nothing deleted, typed input survives every completion, an answer stays with
\* its own contact (a grid of WSJT-X kept by an Enter in the DX table is set apart), and what is
\* warned of, sent and reported is true of this contact.
THEOREM ContactsAreSafe == DeskSpec => ContactSafe
<1>1. DeskInit => ContactInv
  BY ContactStart, ListStart, FormStart, LookupStart, CascadeStart, SessionsStart, DupeStart, EntryStart,
     DeleteStart DEF ContactInv
<1>2. ContactInv /\ [DeskNext]_allVars => ContactInv'
  BY ContactStep, ListStep, FormStep, LookupStep, CascadeStep, SessionsStep, DupeStep, EntryStep, DeleteStep DEF ContactInv
<1>3. ContactInv => /\ part = "list" => List!PageExists
                    /\ part = "lookup" => Lookup!OwnData
                    /\ part = "cascade" => Cascade!OperatingEntityWins /\ Cascade!FoundIsReturned
                    /\ part = "sessions" => Sessions!DeadKeyIsGone /\ Sessions!OutageKeepsSession
                    /\ part = "dupe" => Dupe!VerdictIsCurrent
                    /\ part = "entry" => Entry!TagIsOfContest /\ Entry!ExchangeIsOfContest
                    /\ part = "delete" => Deletion!RemovedIsGone
  BY ListSafe, LookupSafe, CascadeSafe, SessionsSafe, DupeSafe, EntrySafe, DeleteSafe DEF ContactInv
<1>4. ContactInv /\ [DeskNext]_allVars => (/\ part = "list" => List!NoGhosts /\ List!ResizeKeepsContact
                                           /\ part = "form" => Form!TypedSurvives
                                           /\ part = "lookup" => Lookup!TypedGridStays /\ Lookup!AnswerReachesContact /\ Lookup!BlankStaysBlank
                                           /\ part = "cascade" => Cascade!BaselineStands
                                           /\ part = "dupe" => Dupe!NoSilentDuplicate
                                           /\ part = "entry" => Entry!OwnCommentStays)
  BY ContactStep, ListStep, FormStep, LookupStep, CascadeStep, DupeStep, EntryStep DEF ContactInv
<1> QED BY <1>1, <1>2, <1>3, <1>4, PTL DEF DeskSpec, ContactSafe

=============================================================================
