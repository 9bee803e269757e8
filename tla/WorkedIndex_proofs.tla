------------------------ MODULE WorkedIndex_proofs ------------------------
(***************************************************************************)
(* Why the worked index never drifts from the log, and why the panel that  *)
(* reads it keeps the promise of WorkedLog.                                *)
(*                                                                         *)
(* The invariant IndexInv says that the stored index is the one a rebuild  *)
(* would write and the counters those of a scan.  Every aggregate is a     *)
(* function of the set of rows that count in its key (Over, Group), so the *)
(* proof is about sets: a row that joins a group adds one to its numbers   *)
(* and moves its edges by a comparison (OverMore), one that leaves takes   *)
(* them back while edges and mask come from the table (LeftIsOver), an     *)
(* edit is both (ReindexedIsRebuild), and a backfill pass joins one row    *)
(* after the other (BackfilledIsRebuild).  Min, Max and the fold of the    *)
(* pass are reached through a smallest counterexample (SmallestSubset).    *)
(***************************************************************************)
EXTENDS WorkedIndex, FiniteSetTheorems, WellFoundedInduction, TLAPS

-----------------------------------------------------------------------------
(* Finite sets: a smallest one, the least and the greatest of their numbers. *)

\* A family of subsets of a finite set has a smallest member.
LEMMA SmallestSubset ==
  ASSUME NEW S, IsFiniteSet(S), NEW B, \A T \in B : T \subseteq S, B # {}
  PROVE  \E T \in B : \A U \in B : U \subseteq T => U = T
<1>1. IsWellFoundedOn(StrictSubsetOrdering(S), FiniteSubsetsOf(S))
  BY FS_StrictSubsetOrderingWellFounded
<1>2. B \subseteq FiniteSubsetsOf(S)
  BY FS_Subset DEF FiniteSubsetsOf
<1>3. \E T \in B : \A U \in B : ~(<<U, T>> \in StrictSubsetOrdering(S))
  BY <1>1, <1>2, WFMin
<1> QED BY <1>3 DEF StrictSubsetOrdering

\* The least of some numbers is one of them.
LEMMA MinOf ==
  ASSUME NEW S \in SUBSET Int, IsFiniteSet(S), S # {}
  PROVE  Min(S) \in S /\ \A y \in S : Min(S) <= y
<1> DEFINE HasMin(T) == \E x \in T : \A y \in T : x <= y
           B == {T \in SUBSET S : T # {} /\ ~HasMin(T)}
<1>1. B = {}
  <2> SUFFICES ASSUME B # {} PROVE FALSE
    OBVIOUS
  <2>0. \A T \in B : T \subseteq S
    OBVIOUS
  <2>1. PICK T \in B : \A U \in B : U \subseteq T => U = T
    <3>1. PICK C : C = B
      OBVIOUS
    <3> HIDE DEF B
    <3>2. C # {} /\ \A T \in C : T \subseteq S
      BY <2>0, <3>1
    <3>3. \E T \in C : \A U \in C : U \subseteq T => U = T
      BY <3>2, SmallestSubset
    <3> QED BY <3>1, <3>3
  <2>2. T \in SUBSET S /\ T # {} /\ ~HasMin(T)
    BY <2>1
  <2>3. PICK x \in T : TRUE
    BY <2>2
  <2>4. T \ {x} # {}
    BY <2>2, <2>3
  <2>5. HasMin(T \ {x})
    <3>1. T \ {x} \notin B
      <4> HIDE DEF B
      <4>1. T \ {x} \subseteq T /\ T \ {x} # T
        BY <2>3
      <4> QED BY <2>1, <4>1
    <3>2. T \ {x} \in SUBSET S
      BY <2>2
    <3> HIDE DEF HasMin
    <3> QED BY <2>4, <3>1, <3>2
  <2>6. PICK m \in T \ {x} : \A y \in T \ {x} : m <= y
    BY <2>5
  <2> QED BY <2>2, <2>3, <2>6
<1>2. \E x \in S : \A y \in S : x <= y
  BY <1>1
<1> QED BY <1>2 DEF Min

\* The greatest of some numbers is one of them.
LEMMA MaxOf ==
  ASSUME NEW S \in SUBSET Int, IsFiniteSet(S), S # {}
  PROVE  Max(S) \in S /\ \A y \in S : Max(S) >= y
<1> DEFINE HasMax(T) == \E x \in T : \A y \in T : x >= y
           B == {T \in SUBSET S : T # {} /\ ~HasMax(T)}
<1>1. B = {}
  <2> SUFFICES ASSUME B # {} PROVE FALSE
    OBVIOUS
  <2>0. \A T \in B : T \subseteq S
    OBVIOUS
  <2>1. PICK T \in B : \A U \in B : U \subseteq T => U = T
    <3>1. PICK C : C = B
      OBVIOUS
    <3> HIDE DEF B
    <3>2. C # {} /\ \A T \in C : T \subseteq S
      BY <2>0, <3>1
    <3>3. \E T \in C : \A U \in C : U \subseteq T => U = T
      BY <3>2, SmallestSubset
    <3> QED BY <3>1, <3>3
  <2>2. T \in SUBSET S /\ T # {} /\ ~HasMax(T)
    BY <2>1
  <2>3. PICK x \in T : TRUE
    BY <2>2
  <2>4. T \ {x} # {}
    BY <2>2, <2>3
  <2>5. HasMax(T \ {x})
    <3>1. T \ {x} \notin B
      <4> HIDE DEF B
      <4>1. T \ {x} \subseteq T /\ T \ {x} # T
        BY <2>3
      <4> QED BY <2>1, <4>1
    <3>2. T \ {x} \in SUBSET S
      BY <2>2
    <3> HIDE DEF HasMax
    <3> QED BY <2>4, <3>1, <3>2
  <2>6. PICK m \in T \ {x} : \A y \in T \ {x} : m >= y
    BY <2>5
  <2> QED BY <2>2, <2>3, <2>6
<1>2. \E x \in S : \A y \in S : x >= y
  BY <1>1
<1> QED BY <1>2 DEF Max

\* Two things are finitely many.
LEMMA PairIsFinite == ASSUME NEW a, NEW b PROVE IsFiniteSet({a, b})
<1>1. {a, b} = {a} \cup {b}
  OBVIOUS
<1>2. IsFiniteSet({a})
  BY FS_Singleton
<1> QED BY <1>1, <1>2, FS_AddElement

\* One more number, and the least or the greatest moves by a comparison.
LEMMA MinMore ==
  ASSUME NEW S \in SUBSET Int, IsFiniteSet(S), NEW a \in Int
  PROVE  /\ Min({a}) = a
         /\ S # {} => Min({Min(S), a}) = Min(S \cup {a})
<1>1. Min({a}) = a
  <2>1. {a} \in SUBSET Int /\ IsFiniteSet({a}) /\ {a} # {}
    BY FS_Singleton
  <2>2. Min({a}) \in {a}
    BY <2>1, MinOf
  <2> QED BY <2>2
<1>2. ASSUME S # {} PROVE Min({Min(S), a}) = Min(S \cup {a})
  <2> DEFINE m == Min(S)
             n == Min(S \cup {a})
             l == Min({m, a})
  <2>1. m \in S /\ \A y \in S : m <= y
    BY <1>2, MinOf
  <2>2. n \in S \cup {a} /\ \A y \in S \cup {a} : n <= y
    BY MinOf, FS_AddElement
  <2>3. IsFiniteSet({m, a})
    BY PairIsFinite
  <2>4. l \in {m, a} /\ l <= m /\ l <= a
    BY <2>1, <2>3, MinOf
  <2> HIDE DEF m, n, l
  <2>5. l = n
    BY <2>1, <2>2, <2>4
  <2> QED BY <2>5 DEF m, n, l
<1> QED BY <1>1, <1>2

\* The same for the greatest.
LEMMA MaxMore ==
  ASSUME NEW S \in SUBSET Int, IsFiniteSet(S), NEW a \in Int
  PROVE  /\ Max({a}) = a
         /\ S # {} => Max({Max(S), a}) = Max(S \cup {a})
<1>1. Max({a}) = a
  <2>1. {a} \in SUBSET Int /\ IsFiniteSet({a}) /\ {a} # {}
    BY FS_Singleton
  <2>2. Max({a}) \in {a}
    BY <2>1, MaxOf
  <2> QED BY <2>2
<1>2. ASSUME S # {} PROVE Max({Max(S), a}) = Max(S \cup {a})
  <2> DEFINE m == Max(S)
             n == Max(S \cup {a})
             l == Max({m, a})
  <2>1. m \in S /\ \A y \in S : m >= y
    BY <1>2, MaxOf
  <2>2. n \in S \cup {a} /\ \A y \in S \cup {a} : n >= y
    BY MaxOf, FS_AddElement
  <2>3. IsFiniteSet({m, a})
    BY PairIsFinite
  <2>4. l \in {m, a} /\ l >= m /\ l >= a
    BY <2>1, <2>3, MaxOf
  <2> HIDE DEF m, n, l
  <2>5. l = n
    BY <2>1, <2>2, <2>4
  <2> QED BY <2>5 DEF m, n, l
<1> QED BY <1>1, <1>2

\* A counter that would fall below zero stays there; no other does.
LEMMA AtLeastZero == \A n \in Nat : Max({0, n}) = n
<1> SUFFICES ASSUME NEW n \in Nat PROVE Max({0, n}) = n
  OBVIOUS
<1>1. IsFiniteSet({0, n})
  BY PairIsFinite
<1>2. Max({0, n}) \in {0, n} /\ Max({0, n}) >= n
  BY <1>1, MaxOf
<1> QED BY <1>2

-----------------------------------------------------------------------------
(* The aggregates of a log. *)

\* What a row of the log holds, whichever write it had last.
Entries ==
    [call : {f.call : f \in Forms},
     grid : {f.grid : f \in Forms} \cup {a.grid : a \in Fills},
     dxcc : {None} \cup {f.dxcc : f \in Forms} \cup {a.dxcc : a \in Fills}
                \cup {EntityOf[f.call] : f \in Forms},
     band : {f.band : f \in Forms}, mode : {f.mode : f \in Forms},
     stamp : {f.stamp : f \in Forms}, conf : BOOLEAN, src : {f.src : f \in Forms}]

\* The forms are contacts with a number for a stamp, no row is none of them, and
\* the log is finite.
IndexAssumption ==
    /\ IsFiniteSet(Ids)
    /\ Forms \subseteq Entries
    /\ \A f \in Forms : f.stamp \in Int
    /\ NoRow \notin Entries

Logs == [Ids -> Entries \cup {NoRow}]

\* The aggregate of a set of rows.
Over(log, k, A) ==
    [n |-> Cardinality(A), conf |-> Cardinality({i \in A : log[i].conf}),
     mask |-> MaskOf(k, {log[i].src : i \in A}),
     first |-> Min({log[i].stamp : i \in A}), last |-> Max({log[i].stamp : i \in A})]

\* A contact's stamp can be compared and its confirmation tested.
LEMMA StampIsNumber == ASSUME IndexAssumption, NEW r \in Entries PROVE r.stamp \in Int /\ r.conf \in BOOLEAN
  BY DEF IndexAssumption, Entries

\* A group is a finite set of logged rows.
LEMMA GroupOf ==
  ASSUME IndexAssumption, NEW log \in Logs, NEW k
  PROVE  /\ Group(log, k) \subseteq LoggedIn(log)
         /\ IsFiniteSet(Group(log, k))
         /\ Cardinality(Group(log, k)) \in Nat
         /\ Cardinality(Group(log, k)) = 0 <=> Group(log, k) = {}
<1>1. Group(log, k) \subseteq Ids /\ Group(log, k) \subseteq LoggedIn(log)
  BY DEF Group, LoggedIn
<1>2. IsFiniteSet(Group(log, k))
  BY <1>1, FS_Subset DEF IndexAssumption
<1> QED BY <1>1, <1>2, FS_CardinalityType, FS_EmptySet

\* A logged row is a contact.
LEMMA LoggedIsContact ==
  ASSUME NEW log \in Logs PROVE \A i \in LoggedIn(log) : i \in Ids /\ log[i] \in Entries
  BY DEF Logs, LoggedIn

\* The index has an aggregate for each key with a contact, and it is that of its group.
LEMMA RebuildOf ==
  ASSUME NEW log
  PROVE  /\ DOMAIN rebuildWorkedIndex(log) = {k \in UNION {KeysOf(log[i]) : i \in LoggedIn(log)} : TRUE}
         /\ \A k : k \in DOMAIN rebuildWorkedIndex(log) <=> Group(log, k) # {}
         /\ \A k \in DOMAIN rebuildWorkedIndex(log) :
                rebuildWorkedIndex(log)[k] = Over(log, k, Group(log, k))
<1>1. DOMAIN rebuildWorkedIndex(log) = UNION {KeysOf(log[i]) : i \in LoggedIn(log)}
  BY DEF rebuildWorkedIndex
<1>2. \A k \in DOMAIN rebuildWorkedIndex(log) : rebuildWorkedIndex(log)[k] = Summary(log, k)
  BY DEF rebuildWorkedIndex
<1>3. \A k : Summary(log, k) = Over(log, k, Group(log, k))
  BY DEF Summary, Over, Sources, First, Last
<1>4. \A k : k \in UNION {KeysOf(log[i]) : i \in LoggedIn(log)} <=> Group(log, k) # {}
  BY DEF Group
<1> QED BY <1>1, <1>2, <1>3, <1>4

\* Rows that say the same have the same aggregate.
LEMMA OverSame ==
  ASSUME NEW log, NEW log2, NEW k, NEW A,
         \A i \in A : log[i].conf = log2[i].conf /\ log[i].src = log2[i].src /\ log[i].stamp = log2[i].stamp
  PROVE  Over(log, k, A) = Over(log2, k, A)
<1>1. {i \in A : log[i].conf} = {i \in A : log2[i].conf}
  OBVIOUS
<1>2. {log[i].src : i \in A} = {log2[i].src : i \in A}
  OBVIOUS
<1>3. {log[i].stamp : i \in A} = {log2[i].stamp : i \in A}
  OBVIOUS
<1> QED BY <1>1, <1>2, <1>3 DEF Over

\* The stamps of some rows.
LEMMA StampsOf ==
  ASSUME IndexAssumption, NEW log \in Logs, NEW A, A \subseteq LoggedIn(log)
  PROVE  /\ {log[i].stamp : i \in A} \in SUBSET Int
         /\ IsFiniteSet({log[i].stamp : i \in A})
         /\ IsFiniteSet(A) /\ Cardinality(A) \in Nat
         /\ IsFiniteSet({i \in A : log[i].conf}) /\ Cardinality({i \in A : log[i].conf}) \in Nat
<1>1. \A i \in A : log[i].stamp \in Int /\ i \in Ids
  BY LoggedIsContact, StampIsNumber
<1>2. IsFiniteSet(A)
  BY <1>1, FS_Subset DEF IndexAssumption
<1>3. IsFiniteSet({log[i].stamp : i \in A})
  <2> DEFINE T == {log[i].stamp : i \in A}
             f == [i \in A |-> log[i].stamp]
  <2>1. f \in Surjection(A, T)
    BY DEF Surjection
  <2> HIDE DEF f, T
  <2>2. IsFiniteSet(T)
    BY <1>2, <2>1, FS_Surjection
  <2> QED BY <2>2 DEF T
<1>4. IsFiniteSet({i \in A : log[i].conf})
  BY <1>2, FS_Subset
<1> QED BY <1>1, <1>2, <1>3, <1>4, FS_CardinalityType

\* A row joins an aggregate.
LEMMA OverMore ==
  ASSUME IndexAssumption, NEW log \in Logs, NEW k, NEW A, A \subseteq LoggedIn(log),
         NEW i \in LoggedIn(log) \ A
  PROVE  /\ A = {} => Over(log, k, A \cup {i}) = Single(k, log[i])
         /\ A # {} => Over(log, k, A \cup {i}) = Joined(Over(log, k, A), k, log[i])
<1> DEFINE S == {log[j].stamp : j \in A}
           C == {j \in A : log[j].conf}
           B == A \cup {i}
           c == Confirms(log[i])
<1>1. log[i].stamp \in Int /\ log[i].conf \in BOOLEAN
  BY LoggedIsContact, StampIsNumber
<1>2. S \in SUBSET Int /\ IsFiniteSet(S) /\ IsFiniteSet(A) /\ IsFiniteSet(C)
      /\ Cardinality(A) \in Nat /\ Cardinality(C) \in Nat
  BY StampsOf
<1>3. {log[j].stamp : j \in B} = S \cup {log[i].stamp}
  OBVIOUS
<1>4. {log[j].src : j \in B} = {log[j].src : j \in A} \cup {log[i].src}
  OBVIOUS
<1>5. Cardinality(B) = Cardinality(A) + 1
  BY <1>2, FS_AddElement
<1>6. Cardinality({j \in B : log[j].conf}) = Cardinality(C) + c
  <2> DEFINE D == {j \in B : log[j].conf}
  <2>1. CASE log[i].conf
    <3>1. D = C \cup {i} /\ i \notin C
      BY <2>1
    <3>2. c = 1
      BY <2>1 DEF Confirms
    <3> HIDE DEF C, D, c
    <3>3. Cardinality(D) = Cardinality(C) + c
      BY <1>2, <3>1, <3>2, FS_AddElement
    <3> QED BY <3>3 DEF D
  <2>2. CASE ~log[i].conf
    <3>1. D = C
      BY <2>2
    <3>2. c = 0
      BY <2>2 DEF Confirms
    <3> HIDE DEF C, D, c
    <3>3. Cardinality(D) = Cardinality(C) + c
      BY <1>2, <3>1, <3>2
    <3> QED BY <3>3 DEF D
  <2> QED BY <1>1, <2>1, <2>2
<1>7. MaskOf(k, {log[j].src : j \in B}) = MaskOf(k, {log[j].src : j \in A}) \cup MaskOf(k, {log[i].src})
  BY <1>4 DEF MaskOf
<1>8. Over(log, k, B) =
        [n |-> Cardinality(A) + 1, conf |-> Cardinality(C) + c,
         mask |-> MaskOf(k, {log[j].src : j \in A}) \cup MaskOf(k, {log[i].src}),
         first |-> Min(S \cup {log[i].stamp}), last |-> Max(S \cup {log[i].stamp})]
  BY <1>3, <1>5, <1>6, <1>7 DEF Over
<1>9. CASE A = {}
  <2>1. Cardinality(A) = 0 /\ Cardinality(C) = 0 /\ S = {} /\ MaskOf(k, {log[j].src : j \in A}) = {}
    <3>1. C = {} /\ {log[j].src : j \in A} = {} /\ S = {}
      BY <1>9
    <3> QED BY <1>9, <3>1, FS_EmptySet DEF MaskOf
  <2>2. Min(S \cup {log[i].stamp}) = log[i].stamp /\ Max(S \cup {log[i].stamp}) = log[i].stamp
    <3>1. S \cup {log[i].stamp} = {log[i].stamp}
      BY <2>1
    <3> HIDE DEF S
    <3> QED BY <1>1, <1>2, <3>1, MinMore, MaxMore
  <2>3. c \in Nat
    BY DEF Confirms
  <2>4. Over(log, k, B) = Single(k, log[i])
    <3> DEFINE M == MaskOf(k, {log[j].src : j \in A})
               m == MaskOf(k, {log[i].src})
    <3>1. Single(k, log[i]) = [n |-> 1, conf |-> c, mask |-> m,
                               first |-> log[i].stamp, last |-> log[i].stamp]
      BY DEF Single
    <3>2. Over(log, k, B) = [n |-> Cardinality(A) + 1, conf |-> Cardinality(C) + c, mask |-> M \cup m,
                             first |-> Min(S \cup {log[i].stamp}), last |-> Max(S \cup {log[i].stamp})]
      BY <1>8
    <3>3. M = {}
      BY <2>1
    <3> HIDE DEF S, C, B, c, M, m
    <3>4. Cardinality(A) + 1 = 1 /\ Cardinality(C) + c = c /\ M \cup m = m
      BY <2>1, <2>3, <3>3
    <3> QED BY <2>2, <3>1, <3>2, <3>4
  <2> QED BY <1>9, <2>4 DEF B
<1>10. CASE A # {}
  <2>1. S # {}
    BY <1>10
  <2> HIDE DEF S
  <2>2. /\ Min(S \cup {log[i].stamp}) = Min({Min(S), log[i].stamp})
        /\ Max(S \cup {log[i].stamp}) = Max({Max(S), log[i].stamp})
    BY <1>1, <1>2, <2>1, MinMore, MaxMore
  <2>3. Over(log, k, B) = Joined(Over(log, k, A), k, log[i])
    <3> DEFINE M == MaskOf(k, {log[j].src : j \in A})
    <3>1. Over(log, k, A) = [n |-> Cardinality(A), conf |-> Cardinality(C), mask |-> M,
                             first |-> Min(S), last |-> Max(S)]
      BY DEF Over, S
    <3> DEFINE m == MaskOf(k, {log[i].src})
               o == Over(log, k, A)
    <3>2. Joined(o, k, log[i]) = [n |-> o.n + 1, conf |-> o.conf + c, mask |-> o.mask \cup m,
                                  first |-> Min({o.first, log[i].stamp}),
                                  last |-> Max({o.last, log[i].stamp})]
      BY DEF Joined
    <3>3. Over(log, k, B) = [n |-> Cardinality(A) + 1, conf |-> Cardinality(C) + c, mask |-> M \cup m,
                             first |-> Min(S \cup {log[i].stamp}), last |-> Max(S \cup {log[i].stamp})]
      BY <1>8 DEF S
    <3> HIDE DEF B, C, M, m, o, c
    <3>4. o.n = Cardinality(A) /\ o.conf = Cardinality(C) /\ o.mask = M
          /\ o.first = Min(S) /\ o.last = Max(S)
      BY <3>1 DEF o
    <3> QED BY <2>2, <3>2, <3>3, <3>4 DEF o
  <2> QED BY <1>10, <2>3
<1> QED BY <1>9, <1>10

-----------------------------------------------------------------------------
(* The deltas: each takes the index of one log to that of the next. *)

\* The groups of two logs that agree outside one row.
LEMMA GroupApart ==
  ASSUME NEW log \in Logs, NEW log2 \in Logs, NEW i \in Ids,
         \A j \in Ids \ {i} : log2[j] = log[j]
  PROVE  \A k : Group(log, k) \ {i} = Group(log2, k) \ {i} /\ Group(log, k) \ {i} \subseteq LoggedIn(log2)
  BY DEF Group, LoggedIn

\* Two logs' aggregates of rows that say the same in both.
LEMMA OverApart ==
  ASSUME NEW log \in Logs, NEW log2 \in Logs, NEW i \in Ids,
         \A j \in Ids \ {i} : log2[j] = log[j], NEW k
  PROVE  Over(log, k, Group(log, k) \ {i}) = Over(log2, k, Group(log, k) \ {i})
<1>1. \A j \in Group(log, k) \ {i} : log[j] = log2[j]
  BY DEF Group, LoggedIn
<1> QED BY <1>1, OverSame

\* An upsert for each key that a row joins.
LEMMA AddedIsRebuild ==
  ASSUME IndexAssumption, NEW log \in Logs, NEW log2 \in Logs, NEW i \in LoggedIn(log2), NEW K,
         \A j \in Ids \ {i} : log2[j] = log[j],
         \A k \in K : Group(log2, k) = Group(log, k) \cup {i} /\ i \notin Group(log, k),
         \A k : k \notin K => Group(log2, k) = Group(log, k),
         i \in LoggedIn(log) => /\ log[i].conf = log2[i].conf /\ log[i].src = log2[i].src
                                /\ log[i].stamp = log2[i].stamp
  PROVE  Added(rebuildWorkedIndex(log), K, log2[i]) = rebuildWorkedIndex(log2)
<1> DEFINE a == rebuildWorkedIndex(log)
           b == rebuildWorkedIndex(log2)
           r == log2[i]
           c == Added(a, K, r)
<1>1. /\ \A k : k \in DOMAIN a <=> Group(log, k) # {}
      /\ \A k : k \in DOMAIN b <=> Group(log2, k) # {}
      /\ \A k \in DOMAIN a : a[k] = Over(log, k, Group(log, k))
      /\ \A k \in DOMAIN b : b[k] = Over(log2, k, Group(log2, k))
  BY RebuildOf
<1>2. DOMAIN c = DOMAIN a \cup K
  BY DEF Added
<1>3. \A k \in DOMAIN c :
        c[k] = IF k \notin K THEN a[k] ELSE IF k \in DOMAIN a THEN Joined(a[k], k, r) ELSE Single(k, r)
  BY DEF Added
<1>4. c = [k \in DOMAIN c |-> c[k]] /\ b = [k \in DOMAIN b |-> b[k]]
  BY DEF Added, rebuildWorkedIndex
<1> HIDE DEF a, b, c, r
<1>5. DOMAIN c = DOMAIN b
  <2>1. \A k : k \in DOMAIN b <=> k \in DOMAIN a \/ k \in K
    BY <1>1
  <2> QED BY <1>2, <2>1
<1>6. \A k : Group(log, k) \subseteq LoggedIn(log2) /\ Over(log, k, Group(log, k)) = Over(log2, k, Group(log, k))
  <2> TAKE k
  <2>1. \A j \in Group(log, k) :
          /\ log[j].conf = log2[j].conf /\ log[j].src = log2[j].src /\ log[j].stamp = log2[j].stamp
          /\ j \in LoggedIn(log2)
    BY DEF Group, LoggedIn
  <2> QED BY <2>1, OverSame
<1>7. ASSUME NEW k \in DOMAIN c PROVE c[k] = b[k]
  <2>0. b[k] = Over(log2, k, Group(log2, k))
    BY <1>1, <1>5, <1>7
  <2>1. CASE k \notin K
    <3>1. k \in DOMAIN a /\ c[k] = a[k]
      BY <1>2, <1>3, <1>7, <2>1
    <3>2. a[k] = Over(log2, k, Group(log2, k))
      BY <1>1, <1>6, <2>1, <3>1
    <3> QED BY <2>0, <3>1, <3>2
  <2>2. CASE k \in K
    <3> DEFINE G == Group(log, k)
    <3>1. Group(log2, k) = G \cup {i} /\ i \in LoggedIn(log2) \ G /\ G \subseteq LoggedIn(log2)
      BY <1>6, <2>2
    <3>2. /\ G = {} => Over(log2, k, G \cup {i}) = Single(k, r)
          /\ G # {} => Over(log2, k, G \cup {i}) = Joined(Over(log2, k, G), k, r)
      <4>0. \A B : B \subseteq LoggedIn(log2) /\ i \in LoggedIn(log2) \ B =>
                /\ B = {} => Over(log2, k, B \cup {i}) = Single(k, log2[i])
                /\ B # {} => Over(log2, k, B \cup {i}) = Joined(Over(log2, k, B), k, log2[i])
        <5> TAKE B
        <5> HAVE B \subseteq LoggedIn(log2) /\ i \in LoggedIn(log2) \ B
        <5> QED BY OverMore
      <4> HIDE DEF G
      <4>1. /\ G = {} => Over(log2, k, G \cup {i}) = Single(k, log2[i])
            /\ G # {} => Over(log2, k, G \cup {i}) = Joined(Over(log2, k, G), k, log2[i])
        BY <3>1, <4>0
      <4> QED BY <4>1 DEF r
    <3>3. CASE G = {}
      <4>1. c[k] = Single(k, r)
        BY <1>1, <1>3, <1>7, <2>2, <3>3
      <4> QED BY <2>0, <3>1, <3>2, <3>3, <4>1
    <3>4. CASE G # {}
      <4>1. c[k] = Joined(a[k], k, r) /\ a[k] = Over(log, k, G)
        BY <1>1, <1>3, <1>7, <2>2, <3>4
      <4>2. Over(log, k, G) = Over(log2, k, G)
        BY <1>6
      <4> QED BY <2>0, <3>1, <3>2, <3>4, <4>1, <4>2
    <3> QED BY <3>3, <3>4
  <2> QED BY <2>1, <2>2
<1>8. c = b
  BY <1>4, <1>5, <1>7
<1> QED BY <1>8 DEF a, b, c, r

\* The aggregate a row leaves, when others stay: its numbers go back to theirs.
LEMMA LeftIsOver ==
  ASSUME IndexAssumption, NEW log \in Logs, NEW i \in LoggedIn(log), NEW k,
         i \in Group(log, k), NEW log2
  PROVE  LET A == Group(log, k) \ {i}
             o == Over(log, k, Group(log, k))
         IN  /\ o.n > 1 <=> A # {}
             /\ A # {} => Left(o, k, log[i], log2) =
                  [n |-> Over(log, k, A).n, conf |-> Over(log, k, A).conf, mask |-> Sources(log2, k),
                   first |-> First(log2, k), last |-> Last(log2, k)]
<1> DEFINE A == Group(log, k) \ {i}
           o == Over(log, k, Group(log, k))
           p == Over(log, k, A)
           c == Confirms(log[i])
<1>1. A \subseteq LoggedIn(log) /\ i \in LoggedIn(log) \ A /\ Group(log, k) = A \cup {i}
  BY DEF Group
<1>2. /\ IsFiniteSet(A) /\ Cardinality(A) \in Nat /\ Cardinality({j \in A : log[j].conf}) \in Nat
      /\ Cardinality(A) = 0 <=> A = {}
  <2>1. IsFiniteSet(A) /\ Cardinality(A) \in Nat /\ Cardinality({j \in A : log[j].conf}) \in Nat
    BY <1>1, StampsOf
  <2> QED BY <2>1, FS_EmptySet
<1>3. p.n = Cardinality(A) /\ p.conf = Cardinality({j \in A : log[j].conf})
  BY DEF Over
<1>4. p.n \in Nat /\ p.conf \in Nat /\ (p.n = 0 <=> A = {}) /\ c \in Nat
  <2>1. c \in Nat
    BY DEF Confirms
  <2> HIDE DEF A, p, c
  <2> QED BY <1>2, <1>3, <2>1
<1>5. /\ A = {} => o = Single(k, log[i])
      /\ A # {} => o = Joined(p, k, log[i])
  <2> HIDE DEF A
  <2>1. /\ A = {} => Over(log, k, A \cup {i}) = Single(k, log[i])
        /\ A # {} => Over(log, k, A \cup {i}) = Joined(Over(log, k, A), k, log[i])
    BY <1>1, OverMore
  <2> QED BY <1>1, <2>1
<1>7. A = {} => o.n = 1
  BY <1>5 DEF Single
<1>8. A # {} => o.n = p.n + 1 /\ o.conf = p.conf + c
  BY <1>5 DEF Joined
<1> HIDE DEF A, o, p, c
<1>9. o.n > 1 <=> A # {}
  BY <1>4, <1>7, <1>8
<1>10. ASSUME A # {}
       PROVE  Left(o, k, log[i], log2) =
                [n |-> p.n, conf |-> p.conf, mask |-> Sources(log2, k),
                 first |-> First(log2, k), last |-> Last(log2, k)]
  <2>1. o.n - 1 = p.n /\ o.conf - c = p.conf
    BY <1>4, <1>8, <1>10
  <2>2. Max({0, o.conf - c}) = p.conf
    BY <1>4, <2>1, AtLeastZero
  <2>3. Left(o, k, log[i], log2) =
          [n |-> o.n - 1, conf |-> Max({0, o.conf - c}), mask |-> Sources(log2, k),
           first |-> First(log2, k), last |-> Last(log2, k)]
    BY DEF Left, c
  <2> QED BY <2>1, <2>2, <2>3
<1> QED BY <1>9, <1>10 DEF A, o, p

\* An aggregate with the numbers of some rows and the edges of a whole group.
Edged(log, k, A) ==
    [n |-> Over(log, k, A).n, conf |-> Over(log, k, A).conf, mask |-> Sources(log, k),
     first |-> First(log, k), last |-> Last(log, k)]

\* With all of the group counted, that is the group's aggregate.
LEMMA EdgedIsOver == ASSUME NEW log, NEW k PROVE Edged(log, k, Group(log, k)) = Over(log, k, Group(log, k))
  BY DEF Edged, Over, Sources, First, Last

\* What is left of the index when a row has left its keys.
LEMMA RemovedOf ==
  ASSUME IndexAssumption, NEW log \in Logs, NEW log2 \in Logs, NEW i \in LoggedIn(log),
         \A j \in Ids \ {i} : log2[j] = log[j],
         NEW m, m = Removed(rebuildWorkedIndex(log), log[i], log2)
  PROVE  /\ m = [k \in DOMAIN m |-> m[k]]
         /\ \A k : k \in DOMAIN m <=> Group(log, k) \ {i} # {}
         /\ \A k \in DOMAIN m :
                /\ k \in KeysOf(log[i]) => m[k] = Edged(log2, k, Group(log, k) \ {i})
                /\ k \notin KeysOf(log[i]) => m[k] = Over(log2, k, Group(log, k) \ {i})
<1> DEFINE a == rebuildWorkedIndex(log)
           stays == {k \in DOMAIN a : k \in KeysOf(log[i]) => a[k].n > 1}
<1>1. /\ \A k : k \in DOMAIN a <=> Group(log, k) # {}
      /\ \A k \in DOMAIN a : a[k] = Over(log, k, Group(log, k))
  BY RebuildOf
<1>2. m = [k \in stays |-> IF k \in KeysOf(log[i]) THEN Left(a[k], k, log[i], log2) ELSE a[k]]
  BY DEF Removed
<1>3. \A k : i \in Group(log, k) <=> k \in KeysOf(log[i])
  BY DEF Group
<1>4. \A k : Over(log, k, Group(log, k) \ {i}) = Over(log2, k, Group(log, k) \ {i})
  BY OverApart, LoggedIsContact
<1> HIDE DEF a
<1>5. m = [k \in DOMAIN m |-> m[k]] /\ DOMAIN m = stays
  BY <1>2
<1>6. ASSUME NEW k, k \in KeysOf(log[i])
      PROVE  /\ k \in stays <=> Group(log, k) \ {i} # {}
             /\ k \in stays => m[k] = Edged(log2, k, Group(log, k) \ {i})
  <2> DEFINE A == Group(log, k) \ {i}
             o == Over(log, k, Group(log, k))
  <2>1. i \in Group(log, k) /\ k \in DOMAIN a /\ a[k] = o
    BY <1>1, <1>3, <1>6
  <2>2. /\ o.n > 1 <=> A # {}
        /\ A # {} => Left(o, k, log[i], log2) =
             [n |-> Over(log, k, A).n, conf |-> Over(log, k, A).conf, mask |-> Sources(log2, k),
              first |-> First(log2, k), last |-> Last(log2, k)]
    BY <2>1, LeftIsOver
  <2>3. Over(log, k, A) = Over(log2, k, A)
    BY <1>4
  <2> HIDE DEF A, o
  <2>4. k \in stays <=> A # {}
    BY <1>6, <2>1, <2>2
  <2>5. k \in stays => m[k] = Left(o, k, log[i], log2)
    BY <1>2, <1>6, <2>1
  <2>6. k \in stays => m[k] = Edged(log2, k, A)
    BY <2>2, <2>3, <2>4, <2>5 DEF Edged
  <2> QED BY <2>4, <2>6 DEF A
<1>7. ASSUME NEW k, k \notin KeysOf(log[i])
      PROVE  /\ k \in stays <=> Group(log, k) \ {i} # {}
             /\ k \in stays => m[k] = Over(log2, k, Group(log, k) \ {i})
  <2>1. Group(log, k) \ {i} = Group(log, k)
    BY <1>3, <1>7
  <2>2. k \in stays <=> k \in DOMAIN a
    BY <1>7
  <2>3. k \in stays => m[k] = a[k]
    BY <1>2, <1>7
  <2> QED BY <1>1, <1>4, <2>1, <2>2, <2>3
<1> HIDE DEF stays
<1> QED BY <1>5, <1>6, <1>7

\* A deleted row.
LEMMA DroppedIsRebuild ==
  ASSUME IndexAssumption, NEW log \in Logs, NEW log2 \in Logs, NEW i \in LoggedIn(log),
         \A j \in Ids \ {i} : log2[j] = log[j], log2[i] = NoRow
  PROVE  Removed(rebuildWorkedIndex(log), log[i], log2) = rebuildWorkedIndex(log2)
<1> DEFINE b == rebuildWorkedIndex(log2)
           r == Removed(rebuildWorkedIndex(log), log[i], log2)
<1>0. PICK m : m = r
  OBVIOUS
<1>1. /\ m = [k \in DOMAIN m |-> m[k]]
      /\ \A k : k \in DOMAIN m <=> Group(log, k) \ {i} # {}
      /\ \A k \in DOMAIN m :
             /\ k \in KeysOf(log[i]) => m[k] = Edged(log2, k, Group(log, k) \ {i})
             /\ k \notin KeysOf(log[i]) => m[k] = Over(log2, k, Group(log, k) \ {i})
  BY <1>0, RemovedOf
<1>2. \A k : Group(log, k) \ {i} = Group(log2, k)
  BY DEF Group, LoggedIn
<1>3. /\ \A k : k \in DOMAIN b <=> Group(log2, k) # {}
      /\ \A k \in DOMAIN b : b[k] = Over(log2, k, Group(log2, k))
      /\ b = [k \in DOMAIN b |-> b[k]]
  BY RebuildOf DEF rebuildWorkedIndex
<1> HIDE DEF b, r
<1>4. DOMAIN m = DOMAIN b
  BY <1>1, <1>2, <1>3
<1>5. \A k \in DOMAIN m : m[k] = b[k]
  BY <1>1, <1>2, <1>3, <1>4, EdgedIsOver
<1> QED BY <1>0, <1>1, <1>3, <1>4, <1>5 DEF b, r

\* The edges of a group already tell of its members.
LEMMA EdgesTell ==
  ASSUME IndexAssumption, NEW log \in Logs, NEW k, NEW i \in Group(log, k)
  PROVE  /\ Sources(log, k) \cup MaskOf(k, {log[i].src}) = Sources(log, k)
         /\ Min({First(log, k), log[i].stamp}) = First(log, k)
         /\ Max({Last(log, k), log[i].stamp}) = Last(log, k)
<1> DEFINE S == {log[j].stamp : j \in Group(log, k)}
           s == log[i].stamp
<1>1. Group(log, k) \subseteq LoggedIn(log)
  BY GroupOf
<1>2. S \in SUBSET Int /\ IsFiniteSet(S)
  BY <1>1, StampsOf
<1>3. s \in S /\ S # {} /\ S \cup {s} = S /\ s \in Int
  BY <1>2
<1>4. First(log, k) = Min(S) /\ Last(log, k) = Max(S)
  BY DEF First, Last
<1>5. Min({Min(S), s}) = Min(S) /\ Max({Max(S), s}) = Max(S)
  <2> HIDE DEF S, s
  <2>1. Min({Min(S), s}) = Min(S \cup {s}) /\ Max({Max(S), s}) = Max(S \cup {s})
    BY <1>2, <1>3, MinMore, MaxMore
  <2> QED BY <1>3, <2>1
<1>6. Sources(log, k) \cup MaskOf(k, {log[i].src}) = Sources(log, k)
  BY DEF Sources, MaskOf
<1> QED BY <1>4, <1>5, <1>6

\* An edited row: it stops counting and starts to count in one transaction.
LEMMA ReindexedIsRebuild ==
  ASSUME IndexAssumption, NEW log \in Logs, NEW log2 \in Logs, NEW i \in LoggedIn(log), i \in LoggedIn(log2),
         \A j \in Ids \ {i} : log2[j] = log[j]
  PROVE  Added(Removed(rebuildWorkedIndex(log), log[i], log2), KeysOf(log2[i]), log2[i])
            = rebuildWorkedIndex(log2)
<1> DEFINE b == rebuildWorkedIndex(log2)
           r == Removed(rebuildWorkedIndex(log), log[i], log2)
           K == KeysOf(log2[i])
           A(k) == Group(log, k) \ {i}
<1>0. PICK m : m = r
  OBVIOUS
<1> DEFINE c == Added(m, K, log2[i])
<1>1. /\ \A k : k \in DOMAIN m <=> A(k) # {}
      /\ \A k \in DOMAIN m :
             /\ k \in KeysOf(log[i]) => m[k] = Edged(log2, k, A(k))
             /\ k \notin KeysOf(log[i]) => m[k] = Over(log2, k, A(k))
  BY <1>0, RemovedOf
<1>2. /\ \A k : A(k) \subseteq LoggedIn(log2) /\ i \in LoggedIn(log2) \ A(k)
      /\ \A k \in K : Group(log2, k) = A(k) \cup {i}
      /\ \A k : k \notin K => Group(log2, k) = A(k)
  BY DEF Group, LoggedIn
<1>3. /\ \A k : k \in DOMAIN b <=> Group(log2, k) # {}
      /\ \A k \in DOMAIN b : b[k] = Over(log2, k, Group(log2, k))
      /\ b = [k \in DOMAIN b |-> b[k]]
  BY RebuildOf DEF rebuildWorkedIndex
<1>4. /\ DOMAIN c = DOMAIN m \cup K
      /\ c = [k \in DOMAIN c |-> c[k]]
      /\ \A k \in DOMAIN c : c[k] = IF k \notin K THEN m[k]
                                    ELSE IF k \in DOMAIN m THEN Joined(m[k], k, log2[i])
                                    ELSE Single(k, log2[i])
  BY DEF Added
<1> HIDE DEF b, r, K, c
<1>5. DOMAIN c = DOMAIN b
  <2>1. \A k : k \in DOMAIN b <=> k \in DOMAIN m \/ k \in K
    BY <1>1, <1>2, <1>3
  <2> QED BY <1>4, <2>1
<1>6. ASSUME NEW k \in DOMAIN c PROVE c[k] = b[k]
  <2> DEFINE G == Group(log2, k)
             B == Group(log, k) \ {i}
             new == log2[i]
  <2>0. b[k] = Over(log2, k, G)
    BY <1>3, <1>5, <1>6
  <2>1. \A D : D \subseteq LoggedIn(log2) /\ i \in LoggedIn(log2) \ D =>
            /\ D = {} => Over(log2, k, D \cup {i}) = Single(k, new)
            /\ D # {} => Over(log2, k, D \cup {i}) = Joined(Over(log2, k, D), k, new)
    <3> TAKE D
    <3> HAVE D \subseteq LoggedIn(log2) /\ i \in LoggedIn(log2) \ D
    <3> QED BY OverMore
  <2>2. /\ B = {} => Over(log2, k, B \cup {i}) = Single(k, new)
        /\ B # {} => Over(log2, k, B \cup {i}) = Joined(Over(log2, k, B), k, new)
    <3>1. B \subseteq LoggedIn(log2) /\ i \in LoggedIn(log2) \ B
      BY <1>2
    <3> HIDE DEF B
    <3> QED BY <2>1, <3>1
  <2>3. CASE k \notin K
    <3>1. k \in DOMAIN m /\ c[k] = m[k] /\ G = B
      BY <1>2, <1>4, <1>6, <2>3
    <3> QED BY <1>1, <2>0, <3>1, EdgedIsOver
  <2>4. CASE k \in K /\ B = {}
    <3>1. c[k] = Single(k, new) /\ G = B \cup {i}
      BY <1>1, <1>2, <1>4, <1>6, <2>4
    <3> QED BY <2>0, <2>2, <2>4, <3>1
  <2>5. CASE k \in K /\ B # {}
    <3>1. k \in DOMAIN m /\ c[k] = Joined(m[k], k, new) /\ G = B \cup {i}
      BY <1>1, <1>2, <1>4, <1>6, <2>5
    <3>2. Over(log2, k, G) = Joined(Over(log2, k, B), k, new)
      BY <2>2, <2>5, <3>1
    <3>3. CASE k \notin KeysOf(log[i])
      BY <1>1, <2>0, <3>1, <3>2, <3>3
    <3>4. CASE k \in KeysOf(log[i])
      <4> DEFINE o == Over(log2, k, B)
      <4>1. m[k] = Edged(log2, k, B)
        BY <1>1, <3>1, <3>4
      <4>2. m[k].n = o.n /\ m[k].conf = o.conf /\ m[k].mask = Sources(log2, k)
            /\ m[k].first = First(log2, k) /\ m[k].last = Last(log2, k)
        BY <4>1 DEF Edged
      <4>3. Joined(m[k], k, new) =
              [n |-> o.n + 1, conf |-> o.conf + Confirms(new), mask |-> Sources(log2, k),
               first |-> First(log2, k), last |-> Last(log2, k)]
        <5>1. i \in Group(log2, k)
          BY <3>1
        <5>2. /\ Sources(log2, k) \cup MaskOf(k, {new.src}) = Sources(log2, k)
              /\ Min({First(log2, k), new.stamp}) = First(log2, k)
              /\ Max({Last(log2, k), new.stamp}) = Last(log2, k)
          BY <5>1, EdgesTell
        <5> HIDE DEF o, new
        <5> QED BY <4>2, <5>2 DEF Joined
      <4>4. Over(log2, k, G).n = o.n + 1 /\ Over(log2, k, G).conf = o.conf + Confirms(new)
        <5> HIDE DEF o, new, G
        <5> QED BY <3>2 DEF Joined, o
      <4>5. Over(log2, k, G) = Edged(log2, k, G)
        BY EdgedIsOver
      <4>6. Edged(log2, k, G) = [n |-> o.n + 1, conf |-> o.conf + Confirms(new), mask |-> Sources(log2, k),
                                 first |-> First(log2, k), last |-> Last(log2, k)]
        <5> HIDE DEF o, new, G
        <5> QED BY <4>4 DEF Edged
      <4> QED BY <2>0, <3>1, <4>3, <4>5, <4>6
    <3> QED BY <3>3, <3>4
  <2> QED BY <2>3, <2>4, <2>5
<1>7. c = b
  BY <1>3, <1>4, <1>5, <1>6
<1> QED BY <1>0, <1>7 DEF b, r, K, c

-----------------------------------------------------------------------------
(* The fold of a backfill pass. *)

Chosen(s) == CHOOSE x \in s : TRUE

\* One step of the fold, from the value of the others.
Folded(ix, log, g, s) ==
    IF s = {} THEN ix ELSE Added(g[s \ {Chosen(s)}], Levels(log[Chosen(s)]), log[Chosen(s)])

\* A value for each of the subsets.
ForSubsets(F, gained) == F = [s \in SUBSET gained |-> F[s]]

\* FoldSet chooses a function that takes those steps on every subset.
LEMMA FoldOf ==
  ASSUME NEW ix, NEW gained, NEW log
  PROVE  BackfilledIndex(ix, gained, log)
           = (CHOOSE g : g = [s \in SUBSET gained |-> Folded(ix, log, g, s)])[gained]
  BY DEF BackfilledIndex, FoldSet, MapThenFoldSet, Folded, Chosen

\* Whatever function takes those steps is the one that the fold chooses.
LEMMA FoldIs ==
  ASSUME NEW ix, NEW gained, IsFiniteSet(gained), NEW log,
         NEW F, ForSubsets(F, gained),
         \A s \in SUBSET gained : F[s] = Folded(ix, log, F, s)
  PROVE  BackfilledIndex(ix, gained, log) = F[gained]
<1>0. F = [s \in SUBSET gained |-> Folded(ix, log, F, s)]
  BY DEF ForSubsets
<1>1. PICK g : g = CHOOSE h : h = [s \in SUBSET gained |-> Folded(ix, log, h, s)]
  OBVIOUS
<1>2. g = [s \in SUBSET gained |-> Folded(ix, log, g, s)]
  BY <1>0, <1>1
<1>3. \A s \in SUBSET gained : g[s] = Folded(ix, log, g, s) /\ F[s] = Folded(ix, log, F, s)
  BY <1>2
<1> DEFINE B == {s \in SUBSET gained : g[s] # F[s]}
<1>4. B = {}
  <2> SUFFICES ASSUME B # {} PROVE FALSE
    OBVIOUS
  <2>1. PICK T \in B : \A U \in B : U \subseteq T => U = T
    <3>0. \A T \in B : T \subseteq gained
      OBVIOUS
    <3>1. PICK C : C = B
      OBVIOUS
    <3> HIDE DEF B
    <3>2. \E T \in C : \A U \in C : U \subseteq T => U = T
      BY <3>0, <3>1, SmallestSubset
    <3> QED BY <3>1, <3>2
  <2>2. T \in SUBSET gained /\ g[T] # F[T]
    BY <2>1
  <2>3. CASE T = {}
    <3>1. g[T] = ix /\ F[T] = ix
      BY <1>3, <2>2, <2>3 DEF Folded
    <3> QED BY <2>2, <3>1
  <2>4. CASE T # {}
    <3>1. Chosen(T) \in T
      BY <2>4 DEF Chosen
    <3>2. PICK U : U = T \ {Chosen(T)}
      OBVIOUS
    <3>3. U \subseteq T /\ U # T /\ U \in SUBSET gained
      BY <2>2, <3>1, <3>2
    <3>4. g[U] = F[U]
      BY <2>1, <3>3
    <3>5. /\ g[T] = Added(g[U], Levels(log[Chosen(T)]), log[Chosen(T)])
          /\ F[T] = Added(F[U], Levels(log[Chosen(T)]), log[Chosen(T)])
      BY <1>3, <2>2, <2>4, <3>2 DEF Folded
    <3> QED BY <2>2, <3>4, <3>5
  <2> QED BY <2>3, <2>4
<1>5. g[gained] = F[gained]
  BY <1>4
<1> QED BY <1>1, <1>5, FoldOf

\* The entities that a call may have.
Known == {EntityOf[f.call] : f \in Forms}

\* The log of which some rows have got their entities.
Named(log, es, s) == [i \in Ids |-> IF i \in s THEN [log[i] EXCEPT !.dxcc = es[i]] ELSE log[i]]

\* It is a log of the same rows.
LEMMA NamedOf ==
  ASSUME NoRow \notin Entries, NEW log \in Logs, NEW es, NEW s,
         s \subseteq LoggedIn(log), \A i \in s : es[i] \in Known
  PROVE  /\ Named(log, es, s) \in Logs
         /\ LoggedIn(Named(log, es, s)) = LoggedIn(log)
<1>1. \A i \in s : i \in Ids /\ log[i] \in Entries /\ [log[i] EXCEPT !.dxcc = es[i]] \in Entries
  BY LoggedIsContact DEF Entries, Known
<1>2. \A i \in Ids : log[i] \in Entries \cup {NoRow}
  BY DEF Logs
<1>3. \A i \in Ids : Named(log, es, s)[i] = IF i \in s THEN [log[i] EXCEPT !.dxcc = es[i]] ELSE log[i]
  BY DEF Named
<1>4. Named(log, es, s) \in Logs
  BY <1>1, <1>2 DEF Named, Logs
<1>5. \A i \in Ids : Named(log, es, s)[i] # NoRow <=> log[i] # NoRow
  <2> TAKE i \in Ids
  <2>1. CASE i \in s
    BY <1>1, <1>3, <2>1
  <2>2. CASE i \notin s
    BY <1>3, <2>2
  <2> QED BY <2>1, <2>2
<1> QED BY <1>4, <1>5 DEF LoggedIn

\* A row that gets its entity joins the levels of it and keeps its other keys.
LEMMA NamedJoins ==
  ASSUME NEW log \in Logs, NEW log2 \in Logs, NEW i \in Ids,
         i \in LoggedIn(log), i \in LoggedIn(log2), \A j \in Ids \ {i} : log2[j] = log[j],
         log[i].dxcc = None, log2[i].call = log[i].call, log2[i].grid = log[i].grid
  PROVE  /\ \A k \in Levels(log2[i]) : Group(log2, k) = Group(log, k) \cup {i} /\ i \notin Group(log, k)
         /\ \A k : k \notin Levels(log2[i]) => Group(log2, k) = Group(log, k)
<1> DEFINE r == log[i]
           r2 == log2[i]
<1>2. r.call = r2.call /\ r.grid = r2.grid /\ r.dxcc = None
  OBVIOUS
<1> HIDE DEF r, r2
<1>3. KeysOf(r2) = KeysOf(r) \cup Levels(r2)
  <2>1. Levels(r) = {}
    BY <1>2 DEF Levels
  <2> QED BY <1>2, <2>1 DEF KeysOf
<1>4. \A k \in Levels(r2) : k \notin KeysOf(r)
  <2>1. Levels(r) = {}
    BY <1>2 DEF Levels
  <2>2. \A k \in KeysOf(r) : k[1] # "dxcc"
    BY <2>1 DEF KeysOf
  <2>3. \A k \in Levels(r2) : k[1] = "dxcc"
    BY DEF Levels
  <2> QED BY <2>2, <2>3
<1>5. \A k : i \in Group(log, k) <=> k \in KeysOf(r)
  BY DEF Group, r
<1>6. \A k : i \in Group(log2, k) <=> k \in KeysOf(r2)
  BY DEF Group, r2
<1>7. \A k : Group(log, k) \ {i} = Group(log2, k) \ {i}
  BY GroupApart
<1> HIDE DEF r, r2
<1>8. \A k \in Levels(r2) : Group(log2, k) = Group(log, k) \cup {i} /\ i \notin Group(log, k)
  BY <1>3, <1>4, <1>5, <1>6, <1>7
<1>9. ASSUME NEW k, k \notin Levels(r2) PROVE Group(log2, k) = Group(log, k)
  <2>1. i \in Group(log, k) <=> i \in Group(log2, k)
    BY <1>3, <1>5, <1>6, <1>9
  <2> QED BY <1>7, <2>1
<1> QED BY <1>8, <1>9 DEF r2

\* A backfill pass leaves the index that a rebuild would write.
LEMMA BackfilledIsRebuild ==
  ASSUME IndexAssumption, NEW log \in Logs, NEW gained, gained \subseteq LoggedIn(log), NEW es,
         \A i \in gained : log[i].dxcc = None /\ es[i] # None /\ es[i] \in Known
  PROVE  BackfilledIndex(rebuildWorkedIndex(log), gained, Named(log, es, gained))
            = rebuildWorkedIndex(Named(log, es, gained))
<1> DEFINE ix == rebuildWorkedIndex(log)
           N(s) == Named(log, es, s)
           F == [s \in SUBSET gained |-> rebuildWorkedIndex(N(s))]
           end == N(gained)
<1>0. NoRow \notin Entries
  BY DEF IndexAssumption
<1>1. IsFiniteSet(gained)
  <2>1. gained \subseteq Ids
    BY DEF LoggedIn
  <2> QED BY <2>1, FS_Subset DEF IndexAssumption
<1>2. ASSUME NEW s \in SUBSET gained PROVE N(s) \in Logs /\ LoggedIn(N(s)) = LoggedIn(log)
  <2>1. s \subseteq LoggedIn(log) /\ \A i \in s : es[i] \in Known
    OBVIOUS
  <2> HIDE DEF N, F, ix, end
  <2>2. Named(log, es, s) \in Logs /\ LoggedIn(Named(log, es, s)) = LoggedIn(log)
    BY <1>0, <2>1, NamedOf
  <2> QED BY <2>2 DEF N
<1>3. ASSUME NEW s \in SUBSET gained PROVE F[s] = Folded(ix, end, F, s)
  <2>0. F[s] = rebuildWorkedIndex(N(s))
    OBVIOUS
  <2>1. CASE s = {}
    <3>1. N(s) = log
      BY <2>1 DEF Named, Logs
    <3>2. Folded(ix, end, F, s) = ix
      BY <2>1 DEF Folded
    <3> QED BY <2>0, <3>1, <3>2
  <2>2. CASE s # {}
    <3>1. PICK c : c = Chosen(s)
      OBVIOUS
    <3>2. c \in s /\ c \in gained /\ c \in Ids
      BY <2>2, <3>1 DEF Chosen, LoggedIn
    <3>3. PICK u : u = s \ {c}
      OBVIOUS
    <3>4. u \in SUBSET gained /\ c \notin u /\ s = u \cup {c}
      BY <3>2, <3>3
    <3>5. PICK log1, log2 : log1 = N(u) /\ log2 = N(s)
      OBVIOUS
    <3>6. /\ log1 \in Logs /\ log2 \in Logs
          /\ c \in LoggedIn(log1) /\ c \in LoggedIn(log2)
      <4>1. c \in LoggedIn(log)
        BY <3>2
      <4> QED BY <1>2, <3>4, <3>5, <4>1
    <3>7. /\ log1[c] = log[c] /\ log2[c] = [log[c] EXCEPT !.dxcc = es[c]] /\ end[c] = log2[c]
          /\ \A j \in Ids \ {c} : log2[j] = log1[j]
      BY <3>2, <3>4, <3>5 DEF Named
    <3> HIDE DEF N, F, end, ix
    <3>8. log1[c].dxcc = None /\ log1[c] \in Entries
      BY <3>2, <3>6, <3>7, LoggedIsContact
    <3>9. /\ log2[c].call = log1[c].call /\ log2[c].grid = log1[c].grid
          /\ log1[c].conf = log2[c].conf /\ log1[c].src = log2[c].src /\ log1[c].stamp = log2[c].stamp
      <4>1. PICK r, r2, e : r = log1[c] /\ r2 = log2[c] /\ e = es[c]
        OBVIOUS
      <4>2. r \in Entries /\ r2 = [r EXCEPT !.dxcc = e]
        BY <3>7, <3>8, <4>1
      <4>3. /\ r2.call = r.call /\ r2.grid = r.grid
            /\ r.conf = r2.conf /\ r.src = r2.src /\ r.stamp = r2.stamp
        BY <4>2 DEF Entries
      <4> QED BY <4>1, <4>3
    <3>10. Added(rebuildWorkedIndex(log1), Levels(log2[c]), log2[c]) = rebuildWorkedIndex(log2)
      <4>1. PICK K : K = Levels(log2[c])
        OBVIOUS
      <4>2. \A j \in Ids \ {c} : log2[j] = log1[j]
        BY <3>7
      <4>3. /\ \A k \in K : Group(log2, k) = Group(log1, k) \cup {c} /\ c \notin Group(log1, k)
            /\ \A k : k \notin K => Group(log2, k) = Group(log1, k)
        <5>1. /\ \A k \in Levels(log2[c]) : Group(log2, k) = Group(log1, k) \cup {c} /\ c \notin Group(log1, k)
              /\ \A k : k \notin Levels(log2[c]) => Group(log2, k) = Group(log1, k)
          BY <3>2, <3>6, <3>8, <3>9, <4>2, NamedJoins
        <5> QED BY <4>1, <5>1
      <4>4. Added(rebuildWorkedIndex(log1), K, log2[c]) = rebuildWorkedIndex(log2)
        BY <3>6, <3>9, <4>2, <4>3, AddedIsRebuild
      <4> QED BY <4>1, <4>4
    <3>11. F[u] = rebuildWorkedIndex(log1)
      BY <3>4, <3>5 DEF F
    <3>12. Folded(ix, end, F, s) = Added(F[u], Levels(end[c]), end[c])
      BY <2>2, <3>1, <3>3 DEF Folded
    <3> QED BY <2>0, <3>5, <3>7, <3>10, <3>11, <3>12
  <2> QED BY <2>1, <2>2
<1>4. ForSubsets(F, gained)
  BY DEF ForSubsets
<1>5. F[gained] = rebuildWorkedIndex(end)
  OBVIOUS
<1> HIDE DEF F, ix, end
<1>6. BackfilledIndex(ix, gained, end) = F[gained]
  BY <1>1, <1>3, <1>4, FoldIs
<1>7. BackfilledIndex(ix, gained, end) = rebuildWorkedIndex(end)
  BY <1>5, <1>6
<1> QED BY <1>7 DEF ix, end

\* An edit that changes no contribution needs no delta.
LEMMA SameContributionIsSame ==
  ASSUME NEW log \in Logs, NEW log2 \in Logs, NEW i \in LoggedIn(log), i \in LoggedIn(log2),
         \A j \in Ids \ {i} : log2[j] = log[j], SameContribution(log[i], log2[i])
  PROVE  rebuildWorkedIndex(log) = rebuildWorkedIndex(log2) /\ scanCoverage(log) = scanCoverage(log2)
<1>1. PICK r, r2 : r = log[i] /\ r2 = log2[i]
  OBVIOUS
<1>2. r \in Entries /\ r2 \in Entries /\ i \in Ids
  BY <1>1, LoggedIsContact
<1>3. /\ BaseOf[r.call] = BaseOf[r2.call] /\ r.grid = r2.grid /\ r.dxcc = r2.dxcc
      /\ r.band = r2.band /\ r.mode = r2.mode /\ r.stamp = r2.stamp /\ r.conf = r2.conf /\ r.src = r2.src
  <2>1. PICK b, b2 : b = BaseOf[r.call] /\ b2 = BaseOf[r2.call]
    OBVIOUS
  <2>2. [r EXCEPT !.call = b] = [r2 EXCEPT !.call = b2]
    BY <1>1, <2>1 DEF SameContribution, contributionOf
  <2> DEFINE x == [r EXCEPT !.call = b]
             y == [r2 EXCEPT !.call = b2]
  <2>3. /\ x.call = b /\ x.grid = r.grid /\ x.dxcc = r.dxcc /\ x.band = r.band
        /\ x.mode = r.mode /\ x.stamp = r.stamp /\ x.conf = r.conf /\ x.src = r.src
    BY <1>2 DEF Entries
  <2>4. /\ y.call = b2 /\ y.grid = r2.grid /\ y.dxcc = r2.dxcc /\ y.band = r2.band
        /\ y.mode = r2.mode /\ y.stamp = r2.stamp /\ y.conf = r2.conf /\ y.src = r2.src
    BY <1>2 DEF Entries
  <2>5. x = y
    BY <2>2
  <2> HIDE DEF x, y
  <2> QED BY <2>1, <2>3, <2>4, <2>5
<1>4. KeysOf(r) = KeysOf(r2)
  BY <1>3 DEF KeysOf, Levels
<1>5. LoggedIn(log) = LoggedIn(log2)
  BY DEF LoggedIn
<1>6. \A j \in LoggedIn(log) : KeysOf(log[j]) = KeysOf(log2[j])
  BY <1>1, <1>4 DEF LoggedIn
<1>7. \A k : Group(log, k) = Group(log2, k) /\ Group(log, k) \subseteq LoggedIn(log)
  BY <1>5, <1>6 DEF Group
<1>8. \A j \in LoggedIn(log) :
         /\ log[j].conf = log2[j].conf /\ log[j].src = log2[j].src /\ log[j].stamp = log2[j].stamp
         /\ log[j].dxcc = log2[j].dxcc /\ log[j].band = log2[j].band
  <2> TAKE j \in LoggedIn(log)
  <2>1. CASE j = i
    BY <1>1, <1>3, <2>1
  <2>2. CASE j # i
    BY <2>2 DEF LoggedIn
  <2> QED BY <2>1, <2>2
<1>9. rebuildWorkedIndex(log) = rebuildWorkedIndex(log2)
  <2> DEFINE a == rebuildWorkedIndex(log)
             b == rebuildWorkedIndex(log2)
  <2>1. /\ \A k : k \in DOMAIN a <=> Group(log, k) # {}
        /\ \A k : k \in DOMAIN b <=> Group(log2, k) # {}
        /\ \A k \in DOMAIN a : a[k] = Over(log, k, Group(log, k))
        /\ \A k \in DOMAIN b : b[k] = Over(log2, k, Group(log2, k))
    BY RebuildOf
  <2>2. a = [k \in DOMAIN a |-> a[k]] /\ b = [k \in DOMAIN b |-> b[k]]
    BY DEF rebuildWorkedIndex
  <2> HIDE DEF a, b
  <2>3. DOMAIN a = DOMAIN b
    BY <1>7, <2>1
  <2>4. ASSUME NEW k \in DOMAIN a PROVE a[k] = b[k]
    <3>1. \A j \in Group(log, k) :
            log[j].conf = log2[j].conf /\ log[j].src = log2[j].src /\ log[j].stamp = log2[j].stamp
      BY <1>7, <1>8
    <3>2. Over(log, k, Group(log, k)) = Over(log2, k, Group(log, k))
      BY <3>1, OverSame
    <3> QED BY <1>7, <2>1, <2>3, <3>2
  <2>5. a = b
    BY <2>2, <2>3, <2>4
  <2> QED BY <2>5 DEF a, b
<1>10. scanCoverage(log) = scanCoverage(log2)
  <2>1. {j \in LoggedIn(log) : log[j].dxcc = None} = {j \in LoggedIn(log2) : log2[j].dxcc = None}
    BY <1>5, <1>8
  <2>2. {j \in LoggedIn(log) : log[j].band = None} = {j \in LoggedIn(log2) : log2[j].band = None}
    BY <1>5, <1>8
  <2>3. Lacking(log, "dxcc") = Lacking(log2, "dxcc")
    BY <2>1 DEF Lacking
  <2>4. Lacking(log, "band") = Lacking(log2, "band")
    BY <2>2 DEF Lacking
  <2> QED BY <1>5, <2>3, <2>4 DEF scanCoverage
<1> QED BY <1>9, <1>10

-----------------------------------------------------------------------------
(* The completeness counters. *)

\* The rows without a value in column c.
Bare(log, c) == {i \in LoggedIn(log) : log[i][c] = None}

\* The counters are cardinalities of finite sets.
LEMMA CoverageOf ==
  ASSUME IndexAssumption, NEW log
  PROVE  /\ scanCoverage(log) = [qsos |-> Cardinality(LoggedIn(log)),
                                 noDXCC |-> Cardinality(Bare(log, "dxcc")),
                                 noBand |-> Cardinality(Bare(log, "band"))]
         /\ IsFiniteSet(LoggedIn(log)) /\ IsFiniteSet(Bare(log, "dxcc")) /\ IsFiniteSet(Bare(log, "band"))
         /\ Cardinality(LoggedIn(log)) \in Nat /\ Cardinality(Bare(log, "dxcc")) \in Nat
         /\ Cardinality(Bare(log, "band")) \in Nat
<1>1. LoggedIn(log) \subseteq Ids /\ Bare(log, "dxcc") \subseteq Ids /\ Bare(log, "band") \subseteq Ids
  BY DEF LoggedIn, Bare
<1>2. IsFiniteSet(LoggedIn(log)) /\ IsFiniteSet(Bare(log, "dxcc")) /\ IsFiniteSet(Bare(log, "band"))
  BY <1>1, FS_Subset DEF IndexAssumption
<1>3. scanCoverage(log) = [qsos |-> Cardinality(LoggedIn(log)),
                           noDXCC |-> Cardinality(Bare(log, "dxcc")),
                           noBand |-> Cardinality(Bare(log, "band"))]
  BY DEF scanCoverage, Lacking, Bare
<1> QED BY <1>2, <1>3, FS_CardinalityType

\* A counter follows a row that comes, and one that goes.
LEMMA MovedIsCount ==
  ASSUME NEW S, IsFiniteSet(S), NEW i, i \notin S, NEW T, NEW b \in BOOLEAN,
         T = IF b THEN S \cup {i} ELSE S
  PROVE  /\ Moved(Cardinality(S), 1, b) = Cardinality(T)
         /\ Moved(Cardinality(T), -1, b) = Cardinality(S)
<1>1. Cardinality(S) \in Nat
  BY FS_CardinalityType
<1>2. PICK n \in Nat : n = Cardinality(S)
  BY <1>1
<1>3. CASE b
  <2>1. Cardinality(T) = n + 1
    BY <1>2, <1>3, FS_AddElement
  <2>2. Max({0, n + 1}) = n + 1 /\ Max({0, n}) = n
    BY AtLeastZero
  <2>3. (n + 1) + (-1) = n
    OBVIOUS
  <2> QED BY <1>2, <1>3, <2>1, <2>2, <2>3 DEF Moved
<1>4. CASE ~b
  BY <1>4 DEF Moved
<1> QED BY <1>3, <1>4

\* A row is logged, or read the other way, deleted.
LEMMA RowCounts ==
  ASSUME IndexAssumption, NEW log \in Logs, NEW log2 \in Logs, NEW i \in Ids,
         \A j \in Ids \ {i} : log2[j] = log[j], i \notin LoggedIn(log), i \in LoggedIn(log2)
  PROVE  /\ applyCoverageDelta(scanCoverage(log), log2[i], 1) = scanCoverage(log2)
         /\ applyCoverageDelta(scanCoverage(log2), log2[i], -1) = scanCoverage(log)
<1> DEFINE r == log2[i]
           Q == LoggedIn(log)   Q2 == LoggedIn(log2)
           D == Bare(log, "dxcc")   D2 == Bare(log2, "dxcc")
           B == Bare(log, "band")   B2 == Bare(log2, "band")
           s == scanCoverage(log)   s2 == scanCoverage(log2)
<1>1. /\ s = [qsos |-> Cardinality(Q), noDXCC |-> Cardinality(D), noBand |-> Cardinality(B)]
      /\ IsFiniteSet(Q) /\ IsFiniteSet(D) /\ IsFiniteSet(B)
  BY CoverageOf
<1>2. s2 = [qsos |-> Cardinality(Q2), noDXCC |-> Cardinality(D2), noBand |-> Cardinality(B2)]
      /\ IsFiniteSet(Q2)
  BY CoverageOf
<1>3. Q2 = Q \cup {i} /\ i \notin Q
  BY DEF LoggedIn
<1>4. D2 = (IF r.dxcc = None THEN D \cup {i} ELSE D) /\ i \notin D
  <2>1. CASE r.dxcc = None
    BY <2>1 DEF LoggedIn, Bare
  <2>2. CASE r.dxcc # None
    BY <2>2 DEF LoggedIn, Bare
  <2> QED BY <2>1, <2>2
<1>5. B2 = (IF r.band = None THEN B \cup {i} ELSE B) /\ i \notin B
  <2>1. CASE r.band = None
    BY <2>1 DEF LoggedIn, Bare
  <2>2. CASE r.band # None
    BY <2>2 DEF LoggedIn, Bare
  <2> QED BY <2>1, <2>2
<1> HIDE DEF r, Q, Q2, D, D2, B, B2, s, s2
<1>7. /\ Moved(Cardinality(Q), 1, TRUE) = Cardinality(Q2)
      /\ Moved(Cardinality(Q2), -1, TRUE) = Cardinality(Q)
  <2> DEFINE b == TRUE
  <2>1. b \in BOOLEAN
    OBVIOUS
  <2>2. Q2 = IF b THEN Q \cup {i} ELSE Q
    BY <1>3
  <2> HIDE DEF b
  <2>3. Moved(Cardinality(Q), 1, b) = Cardinality(Q2) /\ Moved(Cardinality(Q2), -1, b) = Cardinality(Q)
    BY <1>1, <1>3, <2>1, <2>2, MovedIsCount
  <2> QED BY <2>3 DEF b
<1>8. /\ Moved(Cardinality(D), 1, r.dxcc = None) = Cardinality(D2)
      /\ Moved(Cardinality(D2), -1, r.dxcc = None) = Cardinality(D)
  <2> DEFINE b == r.dxcc = None
  <2>1. b \in BOOLEAN
    OBVIOUS
  <2>2. D2 = IF b THEN D \cup {i} ELSE D
    BY <1>4
  <2> HIDE DEF b
  <2>3. Moved(Cardinality(D), 1, b) = Cardinality(D2) /\ Moved(Cardinality(D2), -1, b) = Cardinality(D)
    BY <1>1, <1>4, <2>1, <2>2, MovedIsCount
  <2> QED BY <2>3 DEF b
<1>9. /\ Moved(Cardinality(B), 1, r.band = None) = Cardinality(B2)
      /\ Moved(Cardinality(B2), -1, r.band = None) = Cardinality(B)
  <2> DEFINE b == r.band = None
  <2>1. b \in BOOLEAN
    OBVIOUS
  <2>2. B2 = IF b THEN B \cup {i} ELSE B
    BY <1>5
  <2> HIDE DEF b
  <2>3. Moved(Cardinality(B), 1, b) = Cardinality(B2) /\ Moved(Cardinality(B2), -1, b) = Cardinality(B)
    BY <1>1, <1>5, <2>1, <2>2, MovedIsCount
  <2> QED BY <2>3 DEF b
<1>10. applyCoverageDelta(s, r, 1) = s2
  BY <1>1, <1>2, <1>7, <1>8, <1>9 DEF applyCoverageDelta
<1>11. applyCoverageDelta(s2, r, -1) = s
  BY <1>1, <1>2, <1>7, <1>8, <1>9 DEF applyCoverageDelta
<1> QED BY <1>10, <1>11 DEF r, s, s2

\* A row is changed: it goes and it comes.
LEMMA ReindexedCounts ==
  ASSUME IndexAssumption, NEW log \in Logs, NEW log2 \in Logs, NEW i \in Ids, i \in LoggedIn(log),
         i \in LoggedIn(log2), \A j \in Ids \ {i} : log2[j] = log[j]
  PROVE  applyCoverageDelta(applyCoverageDelta(scanCoverage(log), log[i], -1), log2[i], 1)
            = scanCoverage(log2)
<1>1. PICK log1 : log1 = [log EXCEPT ![i] = NoRow]
  OBVIOUS
<1>2. log1 \in Logs /\ i \notin LoggedIn(log1) /\ \A j \in Ids \ {i} : log1[j] = log[j]
  BY <1>1 DEF Logs, LoggedIn
<1>3. applyCoverageDelta(scanCoverage(log), log[i], -1) = scanCoverage(log1)
  <2>1. \A j \in Ids \ {i} : log[j] = log1[j]
    BY <1>2
  <2> QED BY <1>2, <2>1, RowCounts
<1>4. applyCoverageDelta(scanCoverage(log1), log2[i], 1) = scanCoverage(log2)
  <2>1. \A j \in Ids \ {i} : log2[j] = log1[j]
    BY <1>2
  <2> QED BY <1>2, <2>1, RowCounts
<1> QED BY <1>3, <1>4

\* A backfill pass takes off what it named.
LEMMA BackfilledCounts ==
  ASSUME IndexAssumption, NEW log \in Logs, NEW gained, gained \subseteq LoggedIn(log), NEW es,
         \A i \in gained : log[i].dxcc = None /\ es[i] # None /\ es[i] \in Known
  PROVE  Backfilled(scanCoverage(log), gained) = scanCoverage(Named(log, es, gained))
<1> DEFINE log2 == Named(log, es, gained)
           D == Bare(log, "dxcc")   D2 == Bare(log2, "dxcc")
           B == Bare(log, "band")   B2 == Bare(log2, "band")
           n == Cardinality(D)   g == Cardinality(gained)
           s == scanCoverage(log)   s2 == scanCoverage(log2)
<1>0. NoRow \notin Entries
  BY DEF IndexAssumption
<1>1. LoggedIn(log2) = LoggedIn(log)
  <2>1. \A i \in gained : es[i] \in Known
    OBVIOUS
  <2>3. LoggedIn(Named(log, es, gained)) = LoggedIn(log)
    BY ONLY <1>0, <2>1, log \in Logs, gained \subseteq LoggedIn(log), NamedOf
  <2> QED BY <2>3
<1>2. s = [qsos |-> Cardinality(LoggedIn(log)), noDXCC |-> n, noBand |-> Cardinality(B)]
      /\ IsFiniteSet(D) /\ n \in Nat
  BY CoverageOf
<1>3. s2 = [qsos |-> Cardinality(LoggedIn(log2)), noDXCC |-> Cardinality(D2), noBand |-> Cardinality(B2)]
      /\ Cardinality(D2) \in Nat
  BY CoverageOf
<1>4. ASSUME NEW i \in LoggedIn(log)
      PROVE  /\ log2[i].band = log[i].band
             /\ log2[i].dxcc = IF i \in gained THEN es[i] ELSE log[i].dxcc
  <2>1. PICK r, e : r = log[i] /\ e = es[i]
    OBVIOUS
  <2>2. r \in Entries /\ i \in Ids
    BY <2>1, LoggedIsContact
  <2>3. log2[i] = IF i \in gained THEN [r EXCEPT !.dxcc = e] ELSE r
    BY <2>1, <2>2 DEF Named
  <2>4. [r EXCEPT !.dxcc = e].band = r.band /\ [r EXCEPT !.dxcc = e].dxcc = e
    BY <2>2 DEF Entries
  <2> HIDE DEF log2
  <2>5. CASE i \in gained
    BY <2>1, <2>3, <2>4, <2>5
  <2>6. CASE i \notin gained
    BY <2>1, <2>3, <2>6
  <2> QED BY <2>5, <2>6
<1> HIDE DEF log2
<1>5. B2 = B
  BY <1>1, <1>4 DEF Bare
<1>6. D2 = D \ gained /\ gained \subseteq D
  <2>1. gained \subseteq D
    BY DEF Bare
  <2>2. \A i \in LoggedIn(log) : log2[i].dxcc = None <=> log[i].dxcc = None /\ i \notin gained
    BY <1>4
  <2> QED BY <1>1, <2>1, <2>2 DEF Bare
<1>7. g \in Nat /\ Cardinality(D2) = n - g
  <2>1. IsFiniteSet(gained) /\ D \cap gained = gained
    BY <1>2, <1>6, FS_Subset
  <2>2. Cardinality(D \ gained) = Cardinality(D) - Cardinality(D \cap gained)
    BY <1>2, FS_Difference
  <2> QED BY <1>6, <2>1, <2>2, FS_CardinalityType
<1>8. Max({0, n - g}) = n - g
  <2>1. n - g \in Nat
    BY <1>3, <1>7
  <2> QED BY <2>1, AtLeastZero
<1>9. Backfilled(s, gained) = s2
  <2> HIDE DEF D, D2, B, B2, n
  <2> QED BY <1>1, <1>2, <1>3, <1>5, <1>7, <1>8 DEF Backfilled
<1> QED BY <1>9 DEF log2

-----------------------------------------------------------------------------
(* The invariant. *)

\* A pass holds entities of calls, for rows it has seen.
PassIsKnown == pass # Idle => \A i \in DOMAIN pass : i \in Ids /\ pass[i] \in Known /\ pass[i] # None

IndexInv == rows \in Logs /\ PassIsKnown /\ IndexIsRebuild /\ CoverageIsScan

\* A new row.
LEMMA InsertedIsRebuild ==
  ASSUME IndexAssumption, NEW log \in Logs, NEW log2 \in Logs, NEW i \in Ids, log[i] = NoRow,
         i \in LoggedIn(log2), \A j \in Ids \ {i} : log2[j] = log[j]
  PROVE  Added(rebuildWorkedIndex(log), KeysOf(log2[i]), log2[i]) = rebuildWorkedIndex(log2)
<1>1. PICK K : K = KeysOf(log2[i])
  OBVIOUS
<1>2. i \notin LoggedIn(log)
  BY DEF LoggedIn
<1>3. \A k : Group(log, k) \ {i} = Group(log2, k) \ {i} /\ i \notin Group(log, k)
  <2>1. \A k : Group(log, k) \ {i} = Group(log2, k) \ {i}
    BY GroupApart
  <2> QED BY <1>2, <2>1 DEF Group
<1>4. \A k : i \in Group(log2, k) <=> k \in K
  BY <1>1 DEF Group
<1>5. /\ \A k \in K : Group(log2, k) = Group(log, k) \cup {i} /\ i \notin Group(log, k)
      /\ \A k : k \notin K => Group(log2, k) = Group(log, k)
  BY <1>3, <1>4
<1>6. Added(rebuildWorkedIndex(log), K, log2[i]) = rebuildWorkedIndex(log2)
  BY <1>2, <1>5, AddedIsRebuild
<1> QED BY <1>1, <1>6

\* The index and the counters follow an edited row.
LEMMA ReindexedFollows ==
  ASSUME IndexAssumption, IndexInv, NEW i \in Ids, rows[i] # NoRow, NEW r \in Entries,
         rows' = [rows EXCEPT ![i] = r], Reindexed(rows[i], r, rows')
  PROVE  rows' \in Logs /\ idx' = rebuildWorkedIndex(rows') /\ cover' = scanCoverage(rows')
<1>1. PICK log, log2 : log = rows /\ log2 = rows'
  OBVIOUS
<1>2. /\ log \in Logs /\ idx = rebuildWorkedIndex(log) /\ cover = scanCoverage(log)
      /\ i \in LoggedIn(log)
  BY <1>1 DEF IndexInv, IndexIsRebuild, CoverageIsScan, LoggedIn
<1>3. log2 = [log EXCEPT ![i] = r] /\ NoRow \notin Entries
  BY <1>1 DEF IndexAssumption
<1>4. /\ log2 \in Logs /\ log2[i] = r /\ i \in LoggedIn(log2)
      /\ \A j \in Ids \ {i} : log2[j] = log[j]
  BY <1>2, <1>3 DEF Logs, LoggedIn
<1>5. CASE SameContribution(log[i], r)
  <2>1. SameContribution(log[i], log2[i])
    BY <1>4, <1>5
  <2>2. rebuildWorkedIndex(log) = rebuildWorkedIndex(log2) /\ scanCoverage(log) = scanCoverage(log2)
    BY <1>2, <1>4, <2>1, SameContributionIsSame
  <2>3. idx' = idx /\ cover' = cover
    BY <1>1, <1>5 DEF Reindexed
  <2> QED BY <1>1, <1>2, <1>4, <2>2, <2>3
<1>6. CASE ~SameContribution(log[i], r)
  <2>1. /\ idx' = Added(Removed(idx, log[i], log2), KeysOf(r), r)
        /\ cover' = applyCoverageDelta(applyCoverageDelta(cover, log[i], -1), r, 1)
    BY <1>1, <1>6 DEF Reindexed
  <2>2. Added(Removed(rebuildWorkedIndex(log), log[i], log2), KeysOf(log2[i]), log2[i])
            = rebuildWorkedIndex(log2)
    BY <1>2, <1>4, ReindexedIsRebuild
  <2>3. applyCoverageDelta(applyCoverageDelta(scanCoverage(log), log[i], -1), log2[i], 1)
            = scanCoverage(log2)
    BY <1>2, <1>4, ReindexedCounts
  <2> QED BY <1>1, <1>2, <1>4, <2>1, <2>2, <2>3
<1> QED BY <1>5, <1>6

\* What an edit makes of a row is a contact.
LEMMA EditIsContact ==
  ASSUME IndexAssumption, NEW r \in Entries, NEW f \in Forms
  PROVE  [f EXCEPT !.dxcc = EntityAfter(r, f), !.conf = f.conf \/ r.conf] \in Entries
<1>1. f \in Entries
  BY DEF IndexAssumption
<1>2. EntityAfter(r, f) \in {r.dxcc, f.dxcc, None}
  BY DEF EntityAfter
<1>3. PICK e : e = EntityAfter(r, f)
  OBVIOUS
<1>4. e \in {None} \cup {g.dxcc : g \in Forms} \cup {a.dxcc : a \in Fills} \cup {EntityOf[g.call] : g \in Forms}
  BY <1>1, <1>2, <1>3 DEF Entries
<1>5. (f.conf \/ r.conf) \in BOOLEAN
  BY <1>1 DEF Entries
<1>6. [f EXCEPT !.dxcc = e, !.conf = f.conf \/ r.conf] \in Entries
  <2> DEFINE c == f.conf \/ r.conf
  <2>1. c \in BOOLEAN
    BY <1>5
  <2> HIDE DEF c
  <2>2. [f EXCEPT !.dxcc = e, !.conf = c] \in Entries
    BY <1>1, <1>4, <2>1 DEF Entries
  <2> QED BY <2>2 DEF c
<1> QED BY <1>3, <1>6

\* What a callbook answer makes of a row is a contact.
LEMMA FillIsContact ==
  ASSUME NEW r \in Entries, NEW a \in Fills
  PROVE  Filled(r, a.grid, a.dxcc) \in Entries
<1>1. PICK g, e : /\ g = (IF r.grid = None THEN a.grid ELSE r.grid)
                  /\ e = (IF r.dxcc = None THEN a.dxcc ELSE r.dxcc)
  OBVIOUS
<1>2. Filled(r, a.grid, a.dxcc) = [r EXCEPT !.grid = g, !.dxcc = e]
  BY <1>1 DEF Filled, Entries
<1>3. /\ g \in {f.grid : f \in Forms} \cup {b.grid : b \in Fills}
      /\ e \in {None} \cup {f.dxcc : f \in Forms} \cup {b.dxcc : b \in Fills} \cup {EntityOf[f.call] : f \in Forms}
  BY <1>1 DEF Entries
<1> QED BY <1>2, <1>3 DEF Entries

\* A migrated, empty database satisfies the invariant.
LEMMA IndexStart == ASSUME IndexAssumption, IndexInit PROVE IndexInv
<1>1. rows \in Logs
  BY DEF IndexInit, Logs
<1>2. PassIsKnown /\ IndexIsRebuild /\ CoverageIsScan
  BY DEF IndexInit, PassIsKnown, IndexIsRebuild, CoverageIsScan
<1> QED BY <1>1, <1>2 DEF IndexInv

\* Every write of the table leaves the index and the counters a rebuild would write.
LEMMA IndexStep ==
  ASSUME IndexAssumption, IndexInv, [IndexNext]_indexVars
  PROVE  IndexInv'
<1>0. NoRow \notin Entries /\ Forms \subseteq Entries /\ rows \in Logs
  BY DEF IndexAssumption, IndexInv
<1>1. ASSUME NEW i \in Ids, NEW f \in Forms, Insert(i, f) PROVE IndexInv'
  <2>1. PICK log, log2 : log = rows /\ log2 = rows'
    OBVIOUS
  <2>2. f \in Entries /\ log \in Logs /\ log[i] = NoRow /\ log2 = [log EXCEPT ![i] = f]
    BY <1>0, <1>1, <2>1 DEF Insert
  <2>3. /\ log2 \in Logs /\ log2[i] = f /\ i \in LoggedIn(log2)
        /\ \A j \in Ids \ {i} : log2[j] = log[j]
    BY <1>0, <2>2 DEF Logs, LoggedIn
  <2>4. idx' = Added(rebuildWorkedIndex(log), KeysOf(log2[i]), log2[i])
    BY <1>1, <2>1, <2>3 DEF Insert, IndexInv, IndexIsRebuild
  <2>5. cover' = applyCoverageDelta(scanCoverage(log), log2[i], 1)
    BY <1>1, <2>1, <2>3 DEF Insert, IndexInv, CoverageIsScan
  <2>6. idx' = rebuildWorkedIndex(log2)
    BY <2>2, <2>3, <2>4, InsertedIsRebuild
  <2>7. cover' = scanCoverage(log2)
    <3>1. i \notin LoggedIn(log)
      BY <2>2 DEF LoggedIn
    <3>2. /\ i \in Ids /\ log \in Logs /\ log2 \in Logs /\ i \in LoggedIn(log2)
          /\ \A j \in Ids \ {i} : log2[j] = log[j]
      BY <2>2, <2>3
    <3>3. applyCoverageDelta(scanCoverage(log), log2[i], 1) = scanCoverage(log2)
      BY ONLY IndexAssumption, <3>1, <3>2, RowCounts
    <3> QED BY <2>5, <3>3
  <2>8. PassIsKnown'
    BY <1>1 DEF Insert, IndexInv, PassIsKnown
  <2> QED BY <2>1, <2>3, <2>6, <2>7, <2>8 DEF IndexInv, IndexIsRebuild, CoverageIsScan
<1>2. ASSUME NEW i \in Ids, NEW f \in Forms, Update(i, f) PROVE IndexInv'
  <2>1. PICK r : r = [f EXCEPT !.dxcc = EntityAfter(rows[i], f), !.conf = f.conf \/ rows[i].conf]
    OBVIOUS
  <2>2. rows[i] \in Entries /\ rows[i] # NoRow
    BY <1>0, <1>2 DEF Update, Logs
  <2>3. r \in Entries
    BY <2>1, <2>2, EditIsContact
  <2>4. rows' = [rows EXCEPT ![i] = r] /\ Reindexed(rows[i], r, rows')
    BY <1>2, <2>1 DEF Update
  <2>5. rows' \in Logs /\ idx' = rebuildWorkedIndex(rows') /\ cover' = scanCoverage(rows')
    BY <2>2, <2>3, <2>4, ReindexedFollows
  <2>6. PassIsKnown'
    BY <1>2 DEF Update, IndexInv, PassIsKnown
  <2> QED BY <2>5, <2>6 DEF IndexInv, IndexIsRebuild, CoverageIsScan
<1>3. ASSUME NEW i \in Ids, NEW a \in Fills, Enrich(i, a) PROVE IndexInv'
  <2>1. PICK r : r = Filled(rows[i], a.grid, a.dxcc)
    OBVIOUS
  <2>2. rows[i] \in Entries /\ rows[i] # NoRow
    BY <1>0, <1>3 DEF Enrich, Logs
  <2>3. r \in Entries
    BY <2>1, <2>2, FillIsContact
  <2>4. rows' = [rows EXCEPT ![i] = r] /\ Reindexed(rows[i], r, rows')
    BY <1>3, <2>1 DEF Enrich
  <2>5. rows' \in Logs /\ idx' = rebuildWorkedIndex(rows') /\ cover' = scanCoverage(rows')
    BY <2>2, <2>3, <2>4, ReindexedFollows
  <2>6. PassIsKnown'
    BY <1>3 DEF Enrich, IndexInv, PassIsKnown
  <2> QED BY <2>5, <2>6 DEF IndexInv, IndexIsRebuild, CoverageIsScan
<1>4. ASSUME NEW i \in Ids, Delete(i) PROVE IndexInv'
  <2>1. PICK log, log2 : log = rows /\ log2 = rows'
    OBVIOUS
  <2>2. log \in Logs /\ i \in LoggedIn(log) /\ log2 = [log EXCEPT ![i] = NoRow]
    BY <1>0, <1>4, <2>1 DEF Delete, LoggedIn
  <2>3. /\ log2 \in Logs /\ log2[i] = NoRow /\ i \notin LoggedIn(log2)
        /\ \A j \in Ids \ {i} : log2[j] = log[j]
        /\ \A j \in Ids \ {i} : log[j] = log2[j]
    BY <2>2 DEF Logs, LoggedIn
  <2>4. /\ idx' = Removed(rebuildWorkedIndex(log), log[i], log2)
        /\ cover' = applyCoverageDelta(scanCoverage(log), log[i], -1)
    BY <1>4, <2>1 DEF Delete, IndexInv, IndexIsRebuild, CoverageIsScan
  <2>5. idx' = rebuildWorkedIndex(log2)
    BY <2>2, <2>3, <2>4, DroppedIsRebuild
  <2>6. cover' = scanCoverage(log2)
    <3>1. i \in Ids /\ log \in Logs /\ i \in LoggedIn(log) /\ \A j \in Ids \ {i} : log[j] = log2[j]
      BY <2>2, <2>3
    <3>2. log2 \in Logs /\ i \notin LoggedIn(log2)
      BY <2>3
    <3>3. applyCoverageDelta(scanCoverage(log), log[i], -1) = scanCoverage(log2)
      BY ONLY IndexAssumption, <3>1, <3>2, RowCounts
    <3> QED BY <2>4, <3>3
  <2>7. PassIsKnown'
    BY <1>4 DEF Delete, IndexInv, PassIsKnown
  <2> QED BY <2>1, <2>3, <2>5, <2>6, <2>7 DEF IndexInv, IndexIsRebuild, CoverageIsScan
<1>5. CASE Purge
  <2>1. rows' \in Logs
    BY <1>5 DEF Purge, Logs
  <2>2. PassIsKnown'
    BY <1>5 DEF Purge, IndexInv, PassIsKnown
  <2> QED BY <1>5, <2>1, <2>2 DEF Purge, IndexInv, IndexIsRebuild, CoverageIsScan
<1>6. CASE BackfillRead
  <2>1. PICK S \in SUBSET {i \in LoggedIn(rows) : rows[i].dxcc = None /\ EntityOf[rows[i].call] # None} :
            pass' = [i \in S |-> EntityOf[rows[i].call]]
    BY <1>6 DEF BackfillRead
  <2>2. ASSUME NEW i \in S PROVE i \in Ids /\ EntityOf[rows[i].call] \in Known /\ EntityOf[rows[i].call] # None
    <3>1. i \in LoggedIn(rows)
      BY <2>2
    <3>2. i \in Ids /\ rows[i] \in Entries
      BY <1>0, <3>1, LoggedIsContact
    <3>3. rows[i].call \in {f.call : f \in Forms}
      BY <3>2 DEF Entries
    <3> QED BY <2>1, <3>2, <3>3 DEF Known
  <2>3. DOMAIN pass' = S /\ \A i \in S : pass'[i] = EntityOf[rows[i].call]
    BY <2>1
  <2>4. PassIsKnown'
    BY <2>2, <2>3 DEF PassIsKnown
  <2> QED BY <1>6, <2>4 DEF BackfillRead, IndexInv, IndexIsRebuild, CoverageIsScan
<1>7. CASE BackfillWrite
  <2>1. PICK log, log2, es : log = rows /\ log2 = rows' /\ es = pass
    OBVIOUS
  <2> DEFINE gained == {i \in DOMAIN es : log[i] # NoRow /\ log[i].dxcc = None}
  <2>2. /\ log2 = Named(log, es, gained)
        /\ idx' = BackfilledIndex(rebuildWorkedIndex(log), gained, log2)
        /\ cover' = Backfilled(scanCoverage(log), gained)
        /\ pass' = Idle
    BY <1>7, <2>1 DEF BackfillWrite, Named, IndexInv, IndexIsRebuild, CoverageIsScan
  <2>3. \A i \in DOMAIN es : i \in Ids /\ es[i] \in Known /\ es[i] # None
    BY <1>7, <2>1 DEF BackfillWrite, IndexInv, PassIsKnown
  <2>4. gained \subseteq LoggedIn(log)
    BY <2>3 DEF LoggedIn
  <2>5. \A i \in gained : log[i].dxcc = None /\ es[i] # None /\ es[i] \in Known
    BY <2>3
  <2> HIDE DEF gained
  <2>6. log \in Logs
    BY <1>0, <2>1
  <2>7. log2 \in Logs
    <3>1. \A i \in gained : es[i] \in Known
      BY <2>5
    <3> QED BY <1>0, <2>2, <2>4, <2>6, <3>1, NamedOf
  <2>8. idx' = rebuildWorkedIndex(log2)
    BY <2>2, <2>4, <2>5, <2>6, BackfilledIsRebuild
  <2>9. cover' = scanCoverage(log2)
    BY <2>2, <2>4, <2>5, <2>6, BackfilledCounts
  <2>10. PassIsKnown'
    BY <2>2 DEF PassIsKnown
  <2> QED BY <2>1, <2>7, <2>8, <2>9, <2>10 DEF IndexInv, IndexIsRebuild, CoverageIsScan
<1>8. CASE Rebuild
  BY <1>8 DEF Rebuild, IndexInv, IndexIsRebuild, CoverageIsScan, PassIsKnown
<1>9. CASE Restart
  BY <1>9 DEF Restart, IndexInv, IndexIsRebuild, CoverageIsScan, PassIsKnown
<1>10. CASE UNCHANGED indexVars
  BY <1>10 DEF indexVars, IndexInv, IndexIsRebuild, CoverageIsScan, PassIsKnown
<1> QED BY <1>1, <1>2, <1>3, <1>4, <1>5, <1>6, <1>7, <1>8, <1>9, <1>10 DEF IndexNext

\* The worked index of every database, however its rows were written, is the
\* one that a rebuild would write, and its counters are those of a scan
\* (store/worked_index.go).
THEOREM IndexIsHonest == IndexAssumption => (IndexSpec => []IndexTruthful)
<1> SUFFICES ASSUME IndexAssumption PROVE IndexSpec => []IndexTruthful
  OBVIOUS
<1>1. IndexInit => IndexInv
  BY IndexStart
<1>2. IndexInv /\ [IndexNext]_indexVars => IndexInv'
  BY IndexStep
<1>3. IndexInv => IndexTruthful
  BY DEF IndexInv, IndexTruthful
<1> QED BY <1>1, <1>2, <1>3, PTL DEF IndexSpec

\* What a rebuild writes is well formed: each aggregate counts something, and
\* takes its edges and its sources from the contacts.
LEMMA IndexIsTyped == ASSUME IndexAssumption, IndexInv PROVE IndexTypeOK
<1>0. rows \in Logs /\ idx = rebuildWorkedIndex(rows) /\ cover = scanCoverage(rows)
  BY DEF IndexInv, IndexIsRebuild, CoverageIsScan
<1>1. \A i \in LoggedIn(rows) : /\ rows[i].stamp \in {f.stamp : f \in Forms}
                                /\ rows[i].src \in {f.src : f \in Forms}
  BY <1>0, LoggedIsContact DEF Entries
<1>2. ASSUME NEW k \in DOMAIN idx PROVE idx[k] \in Aggregates /\ idx[k].n > 0
  <2> DEFINE A == Group(rows, k)
             S == {rows[i].stamp : i \in A}
  <2>1. idx[k] = Over(rows, k, A) /\ A # {}
    BY <1>0, <1>2, RebuildOf
  <2>2. A \subseteq LoggedIn(rows) /\ Cardinality(A) \in Nat /\ Cardinality(A) # 0
    BY <1>0, <2>1, GroupOf
  <2>3. S \in SUBSET Int /\ IsFiniteSet(S) /\ S # {} /\ Cardinality({i \in A : rows[i].conf}) \in Nat
    BY <1>0, <2>1, <2>2, StampsOf
  <2>4. Min(S) \in S /\ Max(S) \in S
    BY <2>3, MinOf, MaxOf
  <2>5. Min(S) \in {f.stamp : f \in Forms} /\ Max(S) \in {f.stamp : f \in Forms}
    BY <1>1, <2>2, <2>4
  <2>6. MaskOf(k, {rows[i].src : i \in A}) \in SUBSET {f.src : f \in Forms}
    BY <1>1, <2>2 DEF MaskOf
  <2>7. PICK n, c, m, f, l : /\ n = Cardinality(A) /\ c = Cardinality({i \in A : rows[i].conf})
                             /\ m = MaskOf(k, {rows[i].src : i \in A}) /\ f = Min(S) /\ l = Max(S)
    OBVIOUS
  <2>8. idx[k] = [n |-> n, conf |-> c, mask |-> m, first |-> f, last |-> l]
    BY <2>1, <2>7 DEF Over
  <2>9. n \in Nat /\ n > 0 /\ c \in Nat
    BY <2>2, <2>3, <2>7
  <2>10. PICK X, T : X = {g.src : g \in Forms} /\ T = {g.stamp : g \in Forms}
    OBVIOUS
  <2>11. f \in T /\ l \in T /\ m \in SUBSET X
    BY ONLY <2>5, <2>6, <2>7, <2>10
  <2>12. Aggregates = [n : Nat, conf : Nat, mask : SUBSET X, first : T, last : T]
    BY <2>10 DEF Aggregates
  <2> QED BY ONLY <2>8, <2>9, <2>11, <2>12
<1>3. cover \in [qsos : Nat, noDXCC : Nat, noBand : Nat]
  BY <1>0, CoverageOf, FS_CardinalityType
<1> QED BY <1>0, <1>2, <1>3 DEF IndexTypeOK, Logs

\* The types of the table, the index and the counters.
THEOREM IndexTypeCorrect == IndexAssumption => (IndexSpec => []IndexTypeOK)
<1> SUFFICES ASSUME IndexAssumption PROVE IndexSpec => []IndexTypeOK
  OBVIOUS
<1>1. IndexInit => IndexInv
  BY IndexStart
<1>2. IndexInv /\ [IndexNext]_indexVars => IndexInv'
  BY IndexStep
<1>3. IndexInv => IndexTypeOK
  BY IndexIsTyped
<1> QED BY <1>1, <1>2, <1>3, PTL DEF IndexSpec

-----------------------------------------------------------------------------
(* The promise of WorkedLog. *)

\* The index and the counter answer what a look at the rows would.
LEMMA AnswersAreTrue == ASSUME IndexAssumption, IndexInv PROVE Answers = Panel!Verdicts(rows)
<1>1. \A s : s \in DOMAIN idx <=> \E i \in LoggedIn(rows) : s \in KeysOf(rows[i])
  <2>1. \A s : s \in DOMAIN rebuildWorkedIndex(rows) <=> Group(rows, s) # {}
    BY RebuildOf
  <2> QED BY <2>1 DEF IndexInv, IndexIsRebuild, Group
<1>2. DXCCComplete <=> ~\E i \in LoggedIn(rows) : rows[i].dxcc = None
  <2>1. cover = [qsos |-> Cardinality(LoggedIn(rows)), noDXCC |-> Cardinality(Bare(rows, "dxcc")),
                 noBand |-> Cardinality(Bare(rows, "band"))]
        /\ IsFiniteSet(Bare(rows, "dxcc"))
    BY CoverageOf DEF IndexInv, CoverageIsScan
  <2>2. DXCCComplete <=> Cardinality(Bare(rows, "dxcc")) = 0
    BY <2>1 DEF DXCCComplete
  <2>3. DXCCComplete <=> Bare(rows, "dxcc") = {}
    BY <2>1, <2>2, FS_EmptySet
  <2> QED BY <2>3 DEF Bare
<1>3. ASSUME NEW s \in Asked
      PROVE  Verdict(s \in DOMAIN idx, s[1] # "dxcc" \/ DXCCComplete) = Panel!Truth(rows, s)
  <2>1. Panel!Logged(rows) = LoggedIn(rows)
    BY DEF Panel!Logged, LoggedIn
  <2>2. Panel!Truth(rows, s) =
          IF \E i \in LoggedIn(rows) : s \in KeysOf(rows[i]) THEN "worked"
          ELSE IF \E i \in LoggedIn(rows) : s[1] = "dxcc" /\ rows[i].dxcc = None THEN "unknown"
          ELSE "new"
    BY <2>1 DEF Panel!Truth, IsWith, MayHideEntity
  <2>3. Verdict(s \in DOMAIN idx, s[1] # "dxcc" \/ DXCCComplete) =
          IF s \in DOMAIN idx THEN "worked"
          ELSE IF s[1] # "dxcc" \/ DXCCComplete THEN "new" ELSE "unknown"
    BY DEF Verdict
  <2> QED BY <1>1, <1>2, <2>2, <2>3
<1> QED BY <1>3 DEF Answers, Panel!Verdicts

\* An empty log and its verdicts.
LEMMA PanelStart == ASSUME IndexAssumption, IndexInit PROVE Panel!LogInit
<1>1. Answers = Panel!Verdicts(rows)
  BY IndexStart, AnswersAreTrue
<1> QED BY <1>1 DEF Panel!LogInit, IndexInit

\* A write of the table is a write of the log, a backfill completes rows, and
\* the verdicts are true after it.
LEMMA PanelStep ==
  ASSUME IndexAssumption, IndexInv, IndexInv', [IndexNext]_indexVars,
         Answers' = Panel!Verdicts(rows')
  PROVE  Panel!LogNext
<1>1. DOMAIN rows' = Ids /\ rows' \in Logs /\ rows \in Logs
  BY DEF IndexInv, Logs
<1>2. ASSUME NEW i \in Ids, \/ \E f \in Forms : Insert(i, f) \/ Update(i, f)
                            \/ \E a \in Fills : Enrich(i, a)
                            \/ Delete(i)
      PROVE  Panel!Write(i)
  BY <1>1, <1>2 DEF Panel!Write, Insert, Update, Enrich, Delete, Logs
<1>3. ASSUME Purge PROVE Panel!Clear
  BY <1>3 DEF Purge, Panel!Clear, Panel!Logged
<1>4. ASSUME BackfillWrite PROVE Panel!Resolve
  <2>1. PICK log, log2, es, gained :
           /\ log = rows /\ log2 = rows' /\ es = pass
           /\ gained = {i \in DOMAIN pass : rows[i] # NoRow /\ rows[i].dxcc = None}
    OBVIOUS
  <2>2. log2 = Named(log, es, gained)
    BY <1>4, <2>1 DEF BackfillWrite, Named
  <2>3. \A i \in DOMAIN es : i \in Ids /\ es[i] \in Known
    BY <1>4, <2>1 DEF BackfillWrite, IndexInv, PassIsKnown
  <2>4. gained \subseteq LoggedIn(log)
    BY <2>1, <2>3 DEF LoggedIn
  <2>5. \A i \in gained : es[i] \in Known
    BY <2>1, <2>3
  <2>6. log \in Logs /\ NoRow \notin Entries
    BY <1>1, <2>1 DEF IndexAssumption
  <2>7. LoggedIn(Named(log, es, gained)) = LoggedIn(log)
    BY ONLY <2>4, <2>5, <2>6, NamedOf
  <2> QED BY <2>1, <2>2, <2>7 DEF Panel!Resolve, Panel!Logged, LoggedIn
<1>5. ASSUME rows' = rows PROVE Panel!Resolve
  BY <1>5 DEF Panel!Resolve, Panel!Logged
<1>6. \/ \E i \in Ids : Panel!Write(i)
      \/ Panel!Resolve
      \/ Panel!Clear
  BY <1>2, <1>3, <1>4, <1>5 DEF IndexNext, BackfillRead, Rebuild, Restart, indexVars
<1> QED BY <1>1, <1>6 DEF Panel!LogNext

\* The worked panel keeps its promise: "worked" only of a station that has a
\* contact, "new" only when no contact can hide it, after every write of the
\* table, with the answers looked up in the index and one counter instead of the
\* log (store/worked_index.go, the refinement of WorkedLog).
THEOREM PanelKeepsWord == IndexAssumption => (IndexSpec => PanelIsHonest)
<1> SUFFICES ASSUME IndexAssumption PROVE IndexSpec => PanelIsHonest
  OBVIOUS
<1>1. IndexInit => IndexInv
  BY IndexStart
<1>2. IndexInv /\ [IndexNext]_indexVars => IndexInv'
  BY IndexStep
<1>3. IndexInit => Panel!LogInit
  BY PanelStart
<1>4. IndexInv => Answers = Panel!Verdicts(rows)
  BY AnswersAreTrue
<1>5. IndexInv /\ IndexInv' /\ [IndexNext]_indexVars /\ (Answers = Panel!Verdicts(rows))'
        => [Panel!LogNext]_<<rows, Answers>>
  BY PanelStep
<1> QED BY <1>1, <1>2, <1>3, <1>4, <1>5, PTL DEF IndexSpec, PanelIsHonest, Panel!LogSpec
=============================================================================
