--------------------------- MODULE Panels_proofs ----------------------------
(***************************************************************************)
(* Proofs about what is on the operator's screens and in the browsers: the *)
(* invariant of each component is inductive by itself, and as the          *)
(* components share no state, BoardSafe and PanelsSafe hold in every       *)
(* behaviour of the desk.                                                  *)
(***************************************************************************)
EXTENDS MCDesk, FiniteSetTheorems, WellFoundedInduction, SequenceTheorems, TLAPS

-----------------------------------------------------------------------------
(* Sets of numbers, and queues. *)

\* A family of subsets of a finite set has a smallest member.
LEMMA SmallestOf ==
  ASSUME NEW S, IsFiniteSet(S), NEW B, \A T \in B : T \subseteq S, B # {}
  PROVE  \E T \in B : \A U \in B : U \subseteq T => U = T
<1>1. IsWellFoundedOn(StrictSubsetOrdering(S), FiniteSubsetsOf(S))
  BY FS_StrictSubsetOrderingWellFounded
<1>2. B \subseteq FiniteSubsetsOf(S)
  BY FS_Subset DEF FiniteSubsetsOf
<1>3. \E T \in B : \A U \in B : ~(<<U, T>> \in StrictSubsetOrdering(S))
  BY <1>1, <1>2, WFMin
<1> QED BY <1>3 DEF StrictSubsetOrdering

\* There is a first of any numbers.
LEMMA FirstOf ==
  ASSUME NEW S \in SUBSET Int, IsFiniteSet(S), S # {}
  PROVE  \E i \in S : \A j \in S : i <= j
<1> DEFINE UpTo(i) == {j \in S : j <= i}
<1>1. PICK B : B = {UpTo(i) : i \in S}
  OBVIOUS
<1>2. B # {} /\ \A T \in B : T \subseteq S
  BY <1>1
<1>3. PICK T \in B : \A U \in B : U \subseteq T => U = T
  BY <1>2, SmallestOf
<1>4. PICK i \in S : T = UpTo(i)
  BY <1>1, <1>3
<1>5. ASSUME NEW j \in S, j < i PROVE FALSE
  <2>0. UpTo(j) \in B
    BY <1>1
  <2>1. i \in UpTo(i) /\ i \notin UpTo(j) /\ \A k \in UpTo(j) : k \in UpTo(i)
    BY <1>5
  <2> QED BY <2>0, <2>1, <1>3, <1>4
<1> QED BY <1>5

\* What is somewhere in a queue.
Holds(q, x) == \E i \in DOMAIN q : q[i] = x

\* What leaves a queue: its head, and nothing else.
LEMMA Leaves ==
  ASSUME NEW S, NEW q \in Seq(S), q # <<>>
  PROVE  Tail(q) \in Seq(S) /\ Head(q) \in S /\ \A x : Holds(q, x) => x = Head(q) \/ Holds(Tail(q), x)
<1>1. Tail(q) \in Seq(S) /\ Head(q) \in S /\ Len(q) \in Nat /\ Len(Tail(q)) = Len(q) - 1
  OBVIOUS
<1>2. ASSUME NEW x, NEW i \in DOMAIN q, q[i] = x, x # Head(q) PROVE \E j \in DOMAIN Tail(q) : Tail(q)[j] = x
  <2>1. i \in 2..Len(q)
    BY <1>2
  <2>2. i - 1 \in DOMAIN Tail(q) /\ Tail(q)[i - 1] = x
    BY <1>1, <1>2, <2>1
  <2> QED BY <2>2
<1> QED BY <1>1, <1>2 DEF Holds

\* What joins a queue is in it, with the others.
LEMMA Joins ==
  ASSUME NEW S, NEW q \in Seq(S), NEW y \in S
  PROVE  Append(q, y) \in Seq(S) /\ Holds(Append(q, y), y) /\ \A x : Holds(q, x) => Holds(Append(q, y), x)
<1>1. Append(q, y) \in Seq(S) /\ Len(Append(q, y)) = Len(q) + 1 /\ Len(q) \in Nat
  OBVIOUS
<1>2. Len(q) + 1 \in DOMAIN Append(q, y) /\ Append(q, y)[Len(q) + 1] = y
  BY <1>1
<1>3. ASSUME NEW x, NEW i \in DOMAIN q, q[i] = x PROVE i \in DOMAIN Append(q, y) /\ Append(q, y)[i] = x
  BY <1>1, <1>3
<1> QED BY <1>1, <1>2, <1>3 DEF Holds

\* Nothing else joins or appears.
LEMMA OnlyJoins ==
  ASSUME NEW S, NEW q \in Seq(S), NEW y \in S
  PROVE  \A x : Holds(Append(q, y), x) => Holds(q, x) \/ x = y
<1>1. Len(Append(q, y)) = Len(q) + 1 /\ Len(q) \in Nat /\ Append(q, y) \in Seq(S)
  OBVIOUS
<1>2. ASSUME NEW x, NEW i \in DOMAIN Append(q, y), Append(q, y)[i] = x, x # y PROVE \E j \in DOMAIN q : q[j] = x
  <2>1. i \in 1..Len(q)
    BY <1>1, <1>2
  <2>2. i \in DOMAIN q /\ q[i] = x
    BY <1>2, <2>1
  <2> QED BY <2>2
<1> QED BY <1>2 DEF Holds

\* Nothing appears in the rest of a queue.
LEMMA OnlyLeaves ==
  ASSUME NEW S, NEW q \in Seq(S), q # <<>>
  PROVE  Holds(q, Head(q)) /\ \A x : Holds(Tail(q), x) => Holds(q, x)
<1>1. Len(q) \in Nat /\ Len(Tail(q)) = Len(q) - 1 /\ Tail(q) \in Seq(S) /\ Len(q) # 0
  OBVIOUS
<1>2. 1 \in DOMAIN q /\ q[1] = Head(q)
  BY <1>1
<1>3. ASSUME NEW x, NEW i \in DOMAIN Tail(q), Tail(q)[i] = x PROVE \E j \in DOMAIN q : q[j] = x
  <2>1. i + 1 \in DOMAIN q /\ q[i + 1] = x
    BY <1>1, <1>3
  <2> QED BY <2>1
<1> QED BY <1>2, <1>3 DEF Holds

-----------------------------------------------------------------------------
(* DashboardFeed: v1 is rows, v2 conn, v3 book, v4 owed, v5 rev, v6 dirty, v7 pushed,
   v8 stats, v9 online, v10 board, v11 form, v12 found, v13 sentPartner, v14 failed. *)

\* A panel's or a total's place in the history of a logbook, and a computation.
Dated == [book : Books \cup {"unset"}, rows : Nat]

\* The totals of a connection at a revision, the boards and what is being computed.
Computation == [conn : Nat, rev : Nat, totals : Dated]
Boards == [panels : Dated, totals : Dated, partner : FewCalls \cup {None}]
Computing == [due : BOOLEAN, stage : {"none", "reads", "done"}, of : Computation, cache : Computation]

\* A computation of this connection is of this logbook, and one of this revision too is
\* of the contacts as they are, but for those a worker just wrote.
Trusty(x) ==
    /\ x.conn <= v2 /\ x.rev <= v5
    /\ x.conn = v2 => (x.totals = Feed!Unset \/ x.totals.book = v3)
    /\ x.conn = v2 /\ x.rev = v5 /\ ~v4 => x.totals \in {Feed!Now, Feed!Unset}

\* One that is to be read yet is of the logbook of its connection.
Started(x) ==
    /\ x.conn <= v2 /\ x.rev <= v5 /\ x.totals.book \in Books
    /\ x.conn = v2 => x.totals.book = v3

\* The values of the variables.
FeedTypes ==
    /\ v1 \in [Books -> Nat] /\ v2 \in Nat /\ v3 \in Books /\ v4 \in BOOLEAN /\ v5 \in Nat /\ v6 \in BOOLEAN /\ v9 \in BOOLEAN
    /\ v8 \in Computing
    /\ v10 \in Boards /\ v7 \in Dated
    /\ v11 \in FewCalls \cup {None} /\ v12 \in FewCalls \cup {None} /\ v13 \in FewCalls \cup {None}
    /\ v14 \in [panels : BOOLEAN, totals : BOOLEAN]

\* What the marks say of the panels, unless their last query failed: a fingerprint that
\* is kept is that of the panels shown, so one forgotten by a switch lets the next through.
PanelsFollow ==
    /\ ~v6 /\ ~v4 => v7 = Feed!Now \/ v14.panels
    /\ v9 => v10.panels \in {v7, Feed!Unset} \/ (v7 = Feed!Unset /\ v14.panels)

\* The totals shown are those of their revision, unless the last computation failed.
TotalsFollow ==
    v9 /\ ~v8.due /\ v8.stage = "none" =>
          /\ v10.totals = Feed!Unset \/ v10.totals.book = v3 \/ v14.totals
          /\ ~v4 => v10.totals \in {Feed!Now, Feed!Unset} \/ v8.cache.rev # v5 \/ v14.totals

\* The inductive invariant.
FeedInv ==
    /\ FeedTypes /\ v2 >= 1
    /\ Trusty(v8.cache) /\ (v8.stage = "done" => Trusty(v8.of)) /\ (v8.stage = "reads" => Started(v8.of))
    /\ PanelsFollow /\ TotalsFollow

\* The values that have no logbook, and one that has.
LEMMA UnsetIsDated == Feed!Unset \in Dated /\ Feed!Unset.book = "unset"
  BY DEF Feed!Unset, Dated

\* What the panels show now is dated, with the open logbook.
LEMMA NowIsDated == ASSUME v1 \in [Books -> Nat], v3 \in Books PROVE Feed!Now \in Dated /\ Feed!Now.book = v3 /\ Feed!Now # Feed!Unset
  BY BooksAssumption DEF Feed!Unset, Feed!Now, Dated

\* A logbook and its revision make a date.
LEMMA DatedIs == ASSUME NEW b \in Books, NEW n \in Nat PROVE [book |-> b, rows |-> n] \in Dated
  BY DEF Dated

\* The totals before any are computed.
LEMMA NoTotalsIs ==
  /\ Feed!NoTotals \in Computation /\ Feed!NoTotals.conn = 1 /\ Feed!NoTotals.rev = 0
  /\ Feed!NoTotals.totals = Feed!Unset
  BY UnsetIsDated DEF Feed!NoTotals, Computation

\* It holds at the start.
LEMMA FeedStart == ASSUME Feed!DashboardFeedInit PROVE FeedInv
<1>1. v8 \in Computing /\ v8.cache = Feed!NoTotals /\ v8.stage = "none"
  BY NoTotalsIs DEF Feed!DashboardFeedInit, Computing
<1>2. v10 \in Boards
  BY UnsetIsDated DEF Feed!DashboardFeedInit, Feed!EmptyBoard, Boards
<1>3. FeedTypes
  BY <1>1, <1>2, UnsetIsDated DEF Feed!DashboardFeedInit, FeedTypes
<1>4. Trusty(v8.cache)
  BY <1>1, NoTotalsIs DEF Trusty, Feed!DashboardFeedInit
<1> QED BY <1>1, <1>3, <1>4 DEF Feed!DashboardFeedInit, FeedInv, PanelsFollow, TotalsFollow

\* The computations and the connection a push leaves: only their mark changes, or the
\* connection is another.
LEMMA PushKeepsTotals ==
  ASSUME FeedInv, NEW d \in BOOLEAN, v8' = [v8 EXCEPT !.due = d], v4' = v4, v5' = v5, v1' = v1, v3' \in Books,
         (v2' = v2 /\ v3' = v3) \/ v2' = v2 + 1
  PROVE  /\ v8' \in Computing /\ v8'.due = d
         /\ Trusty(v8.cache)' /\ (v8.stage = "done" => Trusty(v8.of))' /\ (v8.stage = "reads" => Started(v8.of))'
<1>1. /\ v8' \in Computing /\ v8'.due = d /\ v8'.stage = v8.stage /\ v8'.of = v8.of /\ v8'.cache = v8.cache
  BY DEF FeedInv, FeedTypes, Computing
<1>2. v8.of \in Computation /\ v8.cache \in Computation
  BY DEF FeedInv, FeedTypes, Computing
<1>3. ASSUME NEW x \in Computation, Trusty(x) PROVE Trusty(x)'
  BY <1>3 DEF Trusty, FeedInv, FeedTypes, Feed!Now, Computation
<1>4. ASSUME NEW x \in Computation, Started(x) PROVE Started(x)'
  BY <1>4 DEF Started, FeedInv, FeedTypes, Computation
<1> QED BY <1>1, <1>2, <1>3, <1>4 DEF FeedInv

\* What a push leaves.
LEMMA PushStep ==
  ASSUME FeedInv, NEW isDirty \in BOOLEAN, NEW mark \in Dated, NEW sent \in FewCalls \cup {None}, NEW isDue \in BOOLEAN,
         Feed!PushAll(isDirty, mark, sent, isDue, v10), v9' = v9, v4' = v4, v5' = v5, v1' = v1, v3' \in Books,
         v11' = v11, v12' = v12,
         \/ v2' = v2 /\ v3' = v3 /\ isDirty = v6 /\ mark = v7 /\ isDue = v8.due
         \/ v2' = v2 + 1 /\ isDirty /\ mark = Feed!Unset /\ isDue
  PROVE  FeedInv'
<1> DEFINE Here == [book |-> v3', rows |-> v1'[v3']]
<1>3. Here \in Dated /\ Here = Feed!Now' /\ v10.panels \in Dated /\ v10.totals \in Dated
  BY DatedIs DEF FeedInv, FeedTypes, Feed!Now, Boards
<1>4. CASE ~v9
  <2>1. v6' = isDirty /\ v7' = mark /\ v13' = sent /\ v10' = v10 /\ v14' = v14 /\ v8' = [v8 EXCEPT !.due = isDue]
    BY <1>4 DEF Feed!PushAll
  <2>0. /\ v8' \in Computing /\ v8'.due = isDue
        /\ Trusty(v8.cache)' /\ (v8.stage = "done" => Trusty(v8.of))' /\ (v8.stage = "reads" => Started(v8.of))'
    BY <2>1, PushKeepsTotals
  <2>2. FeedTypes'
    BY <2>1, <2>0, <1>4 DEF FeedInv, FeedTypes
  <2>3. PanelsFollow' /\ TotalsFollow'
    BY <2>1, <1>4, <1>3 DEF PanelsFollow, TotalsFollow, FeedInv, Feed!Now
  <2> QED BY <2>2, <2>3, <2>0 DEF FeedInv, FeedTypes
<1>5. CASE v9
  <2>0. PICK reads \in BOOLEAN :
          /\ reads => isDirty
          /\ v10' = [v10 EXCEPT !.partner = Feed!PartnerPush(sent).shown, !.panels = IF reads /\ mark # Here THEN Here ELSE @]
          /\ v13' = Feed!PartnerPush(sent).sent /\ v6' = FALSE /\ v7' = IF reads THEN Here ELSE mark
          /\ v14' = [v14 EXCEPT !.panels = IF isDirty THEN ~reads ELSE @]
          /\ \E minute \in BOOLEAN : v8' = [v8 EXCEPT !.due = isDue \/ isDirty \/ minute]
    BY <1>5 DEF Feed!PushAll
  <2> DEFINE News == IF reads /\ mark # Here THEN Here ELSE v10.panels
             lost == IF isDirty THEN ~reads ELSE v14.panels
  <2>1. /\ v10' = [v10 EXCEPT !.partner = Feed!PartnerPush(sent).shown, !.panels = News]
        /\ v14' = [v14 EXCEPT !.panels = lost]
    BY <2>0 DEF FeedInv, FeedTypes, Boards
  <2>2. Feed!PartnerPush(sent).shown \in FewCalls \cup {None} /\ Feed!PartnerPush(sent).sent \in FewCalls \cup {None}
    BY DEF Feed!PartnerPush, FeedInv, FeedTypes, Boards
  <2>3. News \in Dated /\ v7' \in Dated /\ lost \in BOOLEAN
    BY <1>3, <2>0 DEF FeedInv, FeedTypes
  <2>8. PICK d \in BOOLEAN : v8' = [v8 EXCEPT !.due = d] /\ (isDue \/ isDirty => d)
    BY <2>0
  <2>9. /\ v8' \in Computing /\ v8'.due = d /\ v8'.stage = v8.stage /\ v8'.cache = v8.cache
        /\ Trusty(v8.cache)' /\ (v8.stage = "done" => Trusty(v8.of))' /\ (v8.stage = "reads" => Started(v8.of))'
    <3>1. v8'.stage = v8.stage /\ v8'.cache = v8.cache
      BY <2>8 DEF FeedInv, FeedTypes, Computing
    <3> QED BY <2>8, <3>1, PushKeepsTotals
  <2>4. /\ v14' \in [panels : BOOLEAN, totals : BOOLEAN] /\ v14'.panels = lost /\ v14'.totals = v14.totals
    BY <2>1, <2>3 DEF FeedInv, FeedTypes
  <2>5. v10' \in Boards /\ v10'.panels = News /\ v10'.totals = v10.totals
    <3> HIDE DEF News, Here
    <3> QED BY <2>1, <2>2, <2>3 DEF FeedInv, FeedTypes, Boards
  <2>6. FeedTypes'
    <3>1. v6' \in BOOLEAN /\ v7' \in Dated /\ v13' \in FewCalls \cup {None}
      BY <2>0, <2>2, <2>3
    <3>2. v8' \in Computing /\ v10' \in Boards /\ v14' \in [panels : BOOLEAN, totals : BOOLEAN]
      BY <2>4, <2>5, <2>9
    <3> HIDE DEF News, Here, lost
    <3> QED BY <3>1, <3>2 DEF FeedInv, FeedTypes
  <2>7. PanelsFollow'
    <3>0. Feed!Unset' = Feed!Unset /\ Here # Feed!Unset
      BY BooksAssumption DEF Feed!Unset
    <3>1. v10'.panels \in {v7', Feed!Unset} \/ (v7' = Feed!Unset /\ v14'.panels)
      <4>1. CASE reads /\ mark # Here
        BY <4>1, <2>0, <2>5
      <4>2. CASE reads /\ mark = Here
        <5>1. mark = v7 /\ v7 # Feed!Unset
          BY <4>2, <3>0
        <5>2. v10'.panels = v10.panels /\ v7' = v7
          BY <4>2, <2>0, <2>5, <5>1
        <5> QED BY <5>1, <5>2, <1>5 DEF PanelsFollow, FeedInv
      <4>3. CASE ~reads /\ isDirty
        <5>1. v10'.panels = v10.panels /\ v7' = mark /\ v14'.panels = TRUE
          BY <4>3, <2>0, <2>4, <2>5
        <5> QED BY <5>1, <1>5 DEF PanelsFollow, FeedInv
      <4>4. CASE ~reads /\ ~isDirty
        <5>1. v10'.panels = v10.panels /\ v7' = mark /\ v14'.panels = v14.panels /\ mark = v7
          BY <4>4, <2>0, <2>4, <2>5
        <5> QED BY <5>1, <1>5 DEF PanelsFollow, FeedInv
      <4> QED BY <4>1, <4>2, <4>3, <4>4
    <3>2. ~v4 => v7' = Feed!Now' \/ v14'.panels
      <4>1. CASE reads
        BY <4>1, <2>0, <1>3
      <4>2. CASE ~reads /\ isDirty
        BY <4>2, <2>4
      <4>3. CASE ~reads /\ ~isDirty
        <5>1. v7' = v7 /\ v14'.panels = v14.panels /\ ~v6 /\ Feed!Now' = Feed!Now
          BY <4>3, <2>0, <2>4 DEF Feed!Now
        <5> QED BY <5>1 DEF PanelsFollow, FeedInv
      <4> QED BY <4>1, <4>2, <4>3
    <3> HIDE DEF Here
    <3> QED BY <3>0, <3>1, <3>2 DEF PanelsFollow
  <2>10. TotalsFollow'
    <3>1. CASE isDirty \/ isDue
      BY <3>1, <2>8, <2>9 DEF TotalsFollow
    <3>2. CASE ~isDirty /\ ~isDue
      <4> HIDE DEF Here, News
      <4> QED BY <3>2, <2>8, <2>9, <1>5, <2>4, <2>5 DEF TotalsFollow, FeedInv, Feed!Now
    <3> QED BY <3>1, <3>2
  <2> QED BY <2>6, <2>7, <2>10, <2>9 DEF FeedInv, FeedTypes
<1> QED BY <1>4, <1>5

\* Every step keeps it.
LEMMA FeedStep == ASSUME FeedInv, [Feed!DashboardFeedNext]_(Feed!feedVars) PROVE FeedInv'
<1> USE DEF FeedInv, FeedTypes
<1>0. CASE UNCHANGED Feed!feedVars
  BY <1>0 DEF Feed!feedVars, Trusty, Started, PanelsFollow, TotalsFollow, Feed!Now
<1>1. CASE Feed!Push
  <2>1. v11' = v11 /\ v12' = v12 /\ Feed!PushAll(v6, v7, v13, v8.due, v10) /\ v9' = v9 /\ v4' = v4 /\ v5' = v5 /\ v1' = v1
        /\ v3' = v3 /\ v2' = v2
    BY <1>1 DEF Feed!Push
  <2>2. v8.due \in BOOLEAN
    BY DEF Computing
  <2> QED BY <2>1, <2>2, PushStep
<1>7. CASE Feed!Switch
  <2>1. v11' = v11 /\ v12' = v12 /\ Feed!PushAll(TRUE, Feed!Unset, None, TRUE, v10) /\ v9' = v9 /\ v4' = v4 /\ v5' = v5
        /\ v1' = v1 /\ v3' \in Books /\ v2' = v2 + 1
    BY <1>7 DEF Feed!Switch
  <2> QED BY <2>1, UnsetIsDated, PushStep
<1>2. CASE Feed!StatsStart
  <2> DEFINE reuse == v8.cache.conn = v2 /\ v8.cache.rev = v5 /\ v8.cache.totals # Feed!Unset
             from == [conn |-> v2, rev |-> v5, totals |-> IF reuse THEN v8.cache.totals ELSE [book |-> v3, rows |-> 0]]
  <2>0. v8.cache \in Computation /\ v8.cache.totals \in Dated
    BY DEF Computing, Computation
  <2>1. /\ v8' = [v8 EXCEPT !.due = FALSE, !.stage = IF reuse THEN "done" ELSE "reads", !.of = from]
        /\ UNCHANGED <<v1, v2, v3, v4, v5, v6, v7, v9, v10, v11, v12, v13, v14>>
    BY <1>2 DEF Feed!StatsStart
  <2>2. /\ from \in Computation /\ from.conn = v2 /\ from.rev = v5
        /\ from.totals = IF reuse THEN v8.cache.totals ELSE [book |-> v3, rows |-> 0]
    BY <2>0, DatedIs DEF Computation
  <2> HIDE DEF from
  <2>3. /\ v8' \in Computing /\ v8'.cache = v8.cache /\ v8'.of = from /\ v8'.stage = IF reuse THEN "done" ELSE "reads"
    BY <2>1, <2>2 DEF Computing
  <2>4. Trusty(v8.cache)' /\ PanelsFollow' /\ TotalsFollow'
    BY <2>1, <2>3 DEF Trusty, PanelsFollow, TotalsFollow, Feed!Now
  <2>5. CASE reuse
    BY <2>1, <2>2, <2>3, <2>4, <2>5 DEF Trusty, Feed!Now
  <2>6. CASE ~reuse
    <3>1. from.totals.book = v3
      BY <2>2, <2>6
    <3> QED BY <2>1, <2>2, <2>3, <2>4, <2>6, <3>1 DEF Started
  <2> QED BY <2>5, <2>6
<1>3. CASE Feed!StatsRead
  <2> DEFINE b == v8.of.totals.book
             read == [v8.of EXCEPT !.totals.rows = v1[b]]
  <2>1. /\ v8.stage = "reads" /\ v8' = [v8 EXCEPT !.stage = "done", !.of.totals.rows = v1[b]]
        /\ UNCHANGED <<v1, v2, v3, v4, v5, v6, v7, v9, v10, v11, v12, v13, v14>>
    BY <1>3 DEF Feed!StatsRead
  <2>2. v8.of \in Computation /\ v8.of.totals \in Dated /\ b \in Books /\ v1[b] \in Nat
    BY <2>1 DEF Computing, Computation, Started
  <2>3. read.conn = v8.of.conn /\ read.rev = v8.of.rev /\ read.totals = [book |-> b, rows |-> v1[b]] /\ read \in Computation
    <3>1. [v8.of.totals EXCEPT !.rows = v1[b]] = [book |-> b, rows |-> v1[b]]
      BY <2>2 DEF Dated
    <3>2. read = [v8.of EXCEPT !.totals = [v8.of.totals EXCEPT !.rows = v1[b]]]
      BY <2>2 DEF Computation
    <3> QED BY <3>1, <3>2, <2>2, DatedIs DEF Computation
  <2>4. v8' = [v8 EXCEPT !.stage = "done", !.of = read]
    BY <2>1 DEF Computing
  <2> HIDE DEF read
  <2>5. v8' \in Computing /\ v8'.cache = v8.cache /\ v8'.of = read /\ v8'.stage = "done"
    BY <2>4, <2>3 DEF Computing
  <2>6. Trusty(v8.cache)' /\ PanelsFollow' /\ TotalsFollow'
    BY <2>1, <2>5 DEF Trusty, PanelsFollow, TotalsFollow, Feed!Now
  <2>7. read.conn = v2 => read.totals.book = v3 /\ read.totals = Feed!Now
    BY <2>1, <2>3 DEF Started, Feed!Now
  <2>8. Trusty(v8.of)'
    BY <2>1, <2>3, <2>5, <2>7 DEF Started, Trusty, Feed!Now
  <2> QED BY <2>1, <2>5, <2>6, <2>8
<1>4. CASE Feed!StatsApply
  <2>0. /\ v8.stage = "done" /\ UNCHANGED <<v1, v2, v3, v4, v5, v6, v7, v9, v11, v12, v13>>
    BY <1>4 DEF Feed!StatsApply
  <2>1. CASE v8.of.conn # v2
    <3>1. v8' = [v8 EXCEPT !.stage = "none", !.due = TRUE] /\ v10' = v10 /\ v14' = v14
      BY <1>4, <2>1 DEF Feed!StatsApply
    <3>2. v8' \in Computing /\ v8'.cache = v8.cache /\ v8'.stage = "none" /\ v8'.due
      BY <3>1 DEF Computing
    <3> QED BY <2>0, <3>1, <3>2 DEF Trusty, PanelsFollow, TotalsFollow, Feed!Now
  <2>2. CASE v8.of.conn = v2
    <3>1. /\ v8' = [v8 EXCEPT !.stage = "none", !.cache = v8.of] /\ v10' = IF v9 THEN [v10 EXCEPT !.totals = v8.of.totals] ELSE v10
          /\ v14' = [v14 EXCEPT !.totals = FALSE]
      BY <1>4, <2>2 DEF Feed!StatsApply
    <3>7. v14' \in [panels : BOOLEAN, totals : BOOLEAN] /\ v14'.panels = v14.panels
      BY <3>1
    <3>2. v8.of \in Computation /\ v8.of.totals \in Dated
      BY DEF Computing, Computation
    <3>3. v8' \in Computing /\ v8'.cache = v8.of /\ v8'.stage = "none"
      BY <3>1, <3>2 DEF Computing
    <3>4. /\ v10' \in Boards /\ v10'.panels = v10.panels
          /\ v9 => v10'.totals = v8.of.totals
      BY <3>1, <3>2 DEF Boards
    <3>5. Trusty(v8.cache)' /\ PanelsFollow'
      BY <2>0, <3>3, <3>4, <3>7 DEF Trusty, PanelsFollow, Feed!Now, Feed!Unset
    <3>6. TotalsFollow'
      BY <2>0, <2>2, <3>2, <3>3, <3>4 DEF TotalsFollow, Trusty, Feed!Now
    <3> QED BY <2>0, <3>3, <3>4, <3>5, <3>6, <3>7
  <2> QED BY <2>1, <2>2
<1>11. CASE Feed!StatsFail
  <2>1. /\ v8' = [v8 EXCEPT !.stage = "none"] /\ v14' = [v14 EXCEPT !.totals = TRUE]
        /\ UNCHANGED <<v1, v2, v3, v4, v5, v6, v7, v9, v10, v11, v12, v13>>
    BY <1>11 DEF Feed!StatsFail
  <2>2. v8' \in Computing /\ v8'.cache = v8.cache /\ v8'.stage = "none"
    BY <2>1 DEF Computing
  <2>3. v14' \in [panels : BOOLEAN, totals : BOOLEAN] /\ v14'.panels = v14.panels /\ v14'.totals
    BY <2>1
  <2>4. Trusty(v8.cache)' /\ PanelsFollow' /\ TotalsFollow'
    BY <2>1, <2>2, <2>3 DEF Trusty, PanelsFollow, TotalsFollow, Feed!Now, Feed!Unset
  <2> QED BY <2>1, <2>2, <2>3, <2>4
<1>5. CASE Feed!Write
  BY <1>5 DEF Feed!Write, Trusty, Started, PanelsFollow, TotalsFollow, Feed!Now, Dated, Computation
<1>6. CASE Feed!Invalidate
  <2>1. /\ v4 /\ v4' = FALSE /\ v6' = TRUE /\ v5' = v5 + 1 /\ v8' = [v8 EXCEPT !.cache = Feed!NoTotals]
        /\ UNCHANGED <<v1, v2, v3, v7, v9, v10, v11, v12, v13, v14>>
    BY <1>6 DEF Feed!Invalidate
  <2>2. v8' \in Computing /\ v8'.cache = Feed!NoTotals /\ v8'.of = v8.of /\ v8'.stage = v8.stage /\ v8'.due = v8.due /\ v8.of \in Computation
    BY <2>1, NoTotalsIs DEF Computing
  <2>3. Trusty(v8.cache)'
    BY <2>1, <2>2, NoTotalsIs DEF Trusty, Feed!Unset
  <2>4. /\ (v8.stage = "done" => Trusty(v8.of))' /\ (v8.stage = "reads" => Started(v8.of))'
    BY <2>1, <2>2 DEF Trusty, Started, Computation
  <2>5. PanelsFollow'
    BY <2>1 DEF PanelsFollow, Feed!Unset
  <2>6. TotalsFollow'
    BY <2>1, <2>2, NoTotalsIs DEF TotalsFollow, Feed!Unset
  <2>7. FeedTypes'
    <3>1. v5' \in Nat
      BY <2>1
    <3>2. v8' \in Computing
      BY <2>2
    <3> QED BY <2>1, <3>1, <3>2
  <2> QED BY <2>1, <2>3, <2>4, <2>5, <2>6, <2>7
<1>8. CASE Feed!ServerUp
  <2>1. v10' = Feed!EmptyBoard /\ UNCHANGED <<v1, v2, v3, v4, v5, v6, v7, v8, v11, v12, v13, v14>> /\ v9' = TRUE
    BY <1>8 DEF Feed!ServerUp
  <2>2. /\ v10' \in Boards
        /\ v10'.panels = Feed!Unset /\ v10'.totals = Feed!Unset
    BY <2>1, UnsetIsDated DEF Feed!EmptyBoard, Boards
  <2>3. FeedTypes'
    BY <2>1, <2>2
  <2>4. Feed!Unset' = Feed!Unset
    BY DEF Feed!Unset
  <2>5. PanelsFollow' /\ TotalsFollow'
    BY <2>1, <2>2, <2>4 DEF PanelsFollow, TotalsFollow, Feed!Now
  <2>6. /\ Trusty(v8.cache)' /\ (v8.stage = "done" => Trusty(v8.of))' /\ (v8.stage = "reads" => Started(v8.of))'
    BY <2>1 DEF Trusty, Started, Feed!Now
  <2> QED BY <2>1, <2>3, <2>5, <2>6
<1>9. CASE Feed!ServerDown
  <2>1. v8' = [v8 EXCEPT !.due = FALSE] /\ v9' = FALSE /\ UNCHANGED <<v1, v2, v3, v4, v5, v6, v7, v10, v11, v12, v13, v14>>
    BY <1>9 DEF Feed!ServerDown
  <2>2. v8' \in Computing /\ v8'.cache = v8.cache /\ v8'.of = v8.of /\ v8'.stage = v8.stage
    BY <2>1 DEF Computing
  <2>3. FeedTypes'
    BY <2>1, <2>2
  <2>4. PanelsFollow' /\ TotalsFollow'
    BY <2>1, <2>2 DEF PanelsFollow, TotalsFollow, Feed!Now
  <2>5. /\ Trusty(v8.cache)' /\ (v8.stage = "done" => Trusty(v8.of))' /\ (v8.stage = "reads" => Started(v8.of))'
    BY <2>1, <2>2 DEF Trusty, Started, Feed!Now
  <2> QED BY <2>1, <2>3, <2>4, <2>5
<1>10. CASE Feed!LookupAnswers \/ \E c \in FewCalls \cup {None} : Feed!TypeCall(c)
  <2>1. v11' \in FewCalls \cup {None} /\ v12' \in FewCalls \cup {None} /\ UNCHANGED <<v1, v2, v3, v4, v5, v6, v7, v8, v9, v10, v13, v14>>
    BY <1>10 DEF Feed!LookupAnswers, Feed!TypeCall
  <2> QED BY <2>1 DEF Trusty, Started, PanelsFollow, TotalsFollow, Feed!Now
<1> QED BY <1>0, <1>1, <1>2, <1>3, <1>4, <1>5, <1>6, <1>7, <1>8, <1>9, <1>10, <1>11 DEF Feed!DashboardFeedNext

\* And it implies what is checked.
LEMMA FeedSafe == ASSUME FeedInv PROVE Feed!BoardShowsLog /\ Feed!CachedTotalsAreTrue
  BY DEF FeedInv, PanelsFollow, TotalsFollow, Trusty, Feed!BoardShowsLog, Feed!CachedTotalsAreTrue, Feed!Quiet

-----------------------------------------------------------------------------
(* DashboardServer, the streams: v1 is value, v2 publishing, v3 subscribers, v4 buffer,
   v5 stage, v6 shown, v7 missed, v8 running. *)

\* The stages of a stream.
Stages == {"away", "accepted", "seeded", "streaming"}

\* What a browser that shows x has waiting in q, of a panel that is at n: nothing older
\* than what it shows, nothing newer than there is, in order.
Ascends(q, x, n) ==
    /\ x <= n /\ \A i \in 1..Len(q) : x <= q[i] /\ q[i] <= n
    /\ \A i, j \in 1..Len(q) : i <= j => q[i] <= q[j]

\* What it shows once it has read everything.
Reads(q, x) == IF q = <<>> THEN x ELSE q[Len(q)]

\* Of one client: nothing waits before it subscribes, and what waits brings it up to date.
ClientInv(c) ==
    /\ v6[c] <= v1
    /\ v5[c] \in {"accepted", "seeded"} => v4[c] = <<>>
    /\ v5[c] # "away" => Ascends(v4[c], v6[c], v1)
    /\ v2 = 0 /\ v5[c] \in {"seeded", "streaming"} /\ c \notin v7 => Reads(v4[c], v6[c]) = v1

\* The values of the variables.
StreamTypes ==
    /\ v1 \in Nat /\ v2 \in {0, v1} /\ v3 \subseteq Clients /\ v4 \in [Clients -> Seq(Nat)]
    /\ v5 \in [Clients -> Stages] /\ v6 \in [Clients -> Nat] /\ v7 \subseteq Clients

\* The inductive invariant.
StreamInv == StreamTypes /\ Web!SlotsAreReturned /\ \A c \in Clients : ClientInv(c)

\* The component counts as the lemmas on finite sets do.
LEMMA WebCount == ASSUME NEW S PROVE Web!Cardinality(S) = Cardinality(S)
  BY DEF Web!Cardinality, Cardinality, Web!IsFiniteSet, IsFiniteSet

\* An empty buffer has no events.
LEMMA EmptyHasNoEvent == ASSUME NEW q \in Seq(Nat) PROVE q = <<>> <=> Len(q) = 0
  OBVIOUS

\* The event appended is the newest.
LEMMA EventAppended ==
  ASSUME NEW q \in Seq(Nat), NEW x \in Nat, NEW n \in Nat, Ascends(q, x, n)
  PROVE  Append(q, n) \in Seq(Nat) /\ Ascends(Append(q, n), x, n) /\ Reads(Append(q, n), x) = n /\ Append(q, n) # q
<1> DEFINE r == Append(q, n)
<1>1. r \in Seq(Nat) /\ Len(r) = Len(q) + 1 /\ r[Len(q) + 1] = n /\ r # <<>> /\ \A i \in 1..Len(q) : r[i] = q[i]
  OBVIOUS
<1> HIDE DEF r
<1>2. \A i \in 1..Len(r) : i \in 1..Len(q) \/ i = Len(q) + 1
  BY <1>1
<1>3. \A i \in 1..Len(q) : q[i] \in Nat
  OBVIOUS
<1> QED BY <1>1, <1>2, <1>3 DEF Ascends, Reads

\* Reading the oldest event goes forward, and changes nothing of where reading all leads.
LEMMA EventRead ==
  ASSUME NEW q \in Seq(Nat), NEW x \in Nat, NEW n \in Nat, Ascends(q, x, n), q # <<>>
  PROVE  /\ Tail(q) \in Seq(Nat) /\ Head(q) \in Nat /\ Head(q) >= x
         /\ Ascends(Tail(q), Head(q), n) /\ Reads(Tail(q), Head(q)) = Reads(q, x)
<1> DEFINE r == Tail(q)
<1>1. r \in Seq(Nat) /\ Len(q) \in Nat /\ Len(q) >= 1 /\ Head(q) = q[1] /\ Len(r) = Len(q) - 1
  OBVIOUS
<1>2. \A i \in 1..Len(r) : r[i] = q[i + 1] /\ i + 1 \in 1..Len(q)
  OBVIOUS
<1>4. \A i \in 1..Len(q) : q[i] \in Nat
  OBVIOUS
<1> HIDE DEF r
<1>3. r = <<>> <=> Len(q) = 1
  <2>1. r = <<>> <=> Len(r) = 0
    BY <1>1, EmptyHasNoEvent
  <2> QED BY <2>1, <1>1
<1>5. 1 \in 1..Len(q)
  BY <1>1
<1>6. /\ \A i \in 1..Len(q) : x <= q[i] /\ q[i] <= n
      /\ \A i, j \in 1..Len(q) : i <= j => q[i] <= q[j]
  BY DEF Ascends
<1>7. \A i \in 1..Len(r) : q[1] <= r[i] /\ r[i] <= n
  <2> SUFFICES ASSUME NEW i \in 1..Len(r) PROVE q[1] <= q[i + 1] /\ q[i + 1] <= n
    BY <1>2
  <2>1. i + 1 \in 1..Len(q) /\ 1 <= i + 1
    BY <1>2
  <2> QED BY <2>1, <1>5, <1>6
<1>8. \A i, j \in 1..Len(r) : i <= j => r[i] <= r[j]
  <2> SUFFICES ASSUME NEW i \in 1..Len(r), NEW j \in 1..Len(r), i <= j PROVE q[i + 1] <= q[j + 1]
    BY <1>2
  <2>1. i + 1 \in 1..Len(q) /\ j + 1 \in 1..Len(q) /\ i + 1 <= j + 1
    BY <1>2
  <2> QED BY <2>1, <1>6
<1>9. Ascends(r, q[1], n)
  BY <1>5, <1>6, <1>7, <1>8 DEF Ascends
<1>10. Reads(r, q[1]) = Reads(q, x)
  <2>1. CASE Len(q) = 1
    BY <2>1, <1>1, <1>3 DEF Reads
  <2>2. CASE Len(q) # 1
    <3>1. Len(r) \in 1..Len(r) /\ r # <<>>
      BY <2>2, <1>1, <1>3
    <3>2. r[Len(r)] = q[Len(r) + 1] /\ Len(r) + 1 = Len(q)
      <4>1. r[Len(r)] = q[Len(r) + 1]
        BY <3>1, <1>2
      <4>2. Len(r) + 1 = Len(q)
        BY <1>1
      <4> QED BY <4>1, <4>2
    <3> QED BY <3>1, <3>2 DEF Reads
  <2> QED BY <2>1, <2>2
<1>11. q[1] \in Nat /\ q[1] >= x
  BY <1>4, <1>5, <1>6
<1> QED BY <1>1, <1>9, <1>10, <1>11 DEF r

\* It holds at the start.
LEMMA StreamStart == ASSUME Web!DashboardStreamInit PROVE StreamInv
<1>1. Web!SlotsAreReturned
  BY WebCount, WebAssumption, FS_EmptySet DEF Web!DashboardStreamInit, Web!SlotsAreReturned
<1>2. StreamTypes
  BY DEF Web!DashboardStreamInit, StreamTypes, Stages
<1>3. \A c \in Clients : ClientInv(c)
  BY DEF Web!DashboardStreamInit, ClientInv
<1> QED BY <1>1, <1>2, <1>3 DEF StreamInv

\* Every step keeps it, and no browser goes back.
LEMMA StreamStep ==
  ASSUME StreamInv, [Web!DashboardStreamNext]_(Web!streamVars) PROVE StreamInv' /\ Web!StreamNeverGoesBack
<1> USE DEF StreamTypes
<1>a. /\ StreamTypes /\ Web!SlotsAreReturned /\ \A c \in Clients : ClientInv(c)
  BY DEF StreamInv
<1>0. CASE UNCHANGED Web!streamVars
  BY <1>0, <1>a DEF StreamInv, ClientInv, Web!streamVars, Web!SlotsAreReturned, Web!StreamNeverGoesBack
<1>1. CASE Web!SetPanel
  <2>1. v1' = v1 + 1 /\ v2' = v1 + 1 /\ UNCHANGED <<v3, v4, v5, v6, v7>> /\ v2 = 0
    BY <1>1 DEF Web!SetPanel
  <2>2. ASSUME NEW c \in Clients PROVE ClientInv(c)'
    <3>1. v5[c] # "away" => Ascends(v4[c], v6[c], v1 + 1)
      BY <1>a DEF ClientInv, Ascends
    <3> QED BY <1>a, <2>1, <3>1 DEF ClientInv
  <2> QED BY <2>1, <2>2, <1>a DEF StreamInv, Web!SlotsAreReturned, Web!StreamNeverGoesBack
<1>2. CASE Web!Publish
  <2>1. /\ v2 # 0 /\ v2' = 0 /\ UNCHANGED <<v1, v3, v5, v6>> /\ v2 = v1
        /\ v4' = [c \in Clients |-> IF c \in v3 /\ Len(v4[c]) < Buffer THEN Append(v4[c], v2) ELSE v4[c]]
        /\ v7' = v7 \cup {c \in Clients : \/ (v5[c] = "seeded" /\ v6[c] # v2) \/ (v5[c] = "streaming" /\ v4'[c] = v4[c])}
    <3>1. v2 # 0 /\ v2 = v1
      BY <1>2, <1>a DEF Web!Publish
    <3> QED BY <3>1, <1>2 DEF Web!Publish
  <2>2. ASSUME NEW c \in Clients PROVE ClientInv(c)' /\ v4'[c] \in Seq(Nat)
    <3>1. v4[c] \in Seq(Nat) /\ v6[c] \in Nat /\ v1 \in Nat
      BY <1>a
    <3>2. CASE v4'[c] = v4[c]
      BY <2>1, <3>1, <3>2, <1>a DEF ClientInv, Reads
    <3>3. CASE v4'[c] # v4[c]
      <4>1. v4'[c] = Append(v4[c], v1) /\ c \in v3
        BY <2>1, <3>3
      <4>2. v5[c] = "streaming"
        BY <4>1, <1>a DEF Web!SlotsAreReturned
      <4> QED BY <4>1, <4>2, <2>1, <3>1, <1>a, EventAppended DEF ClientInv
    <3> QED BY <3>2, <3>3
  <2>3. v4' \in [Clients -> Seq(Nat)]
    BY <2>1, <2>2
  <2> QED BY <2>1, <2>2, <2>3, <1>a DEF StreamInv, Web!SlotsAreReturned, Web!StreamNeverGoesBack
<1>3. CASE Web!Stop
  BY <1>3, <1>a DEF Web!Stop, StreamInv, ClientInv, Web!SlotsAreReturned, Web!StreamNeverGoesBack
<1>4. ASSUME NEW c \in Clients, Web!Connect(c) PROVE StreamInv' /\ Web!StreamNeverGoesBack
  <2>1. /\ v5[c] = "away" /\ v5' = [v5 EXCEPT ![c] = "accepted"] /\ v4' = [v4 EXCEPT ![c] = <<>>] /\ v7' = v7 \ {c}
        /\ UNCHANGED <<v1, v2, v3, v6>>
    BY <1>4 DEF Web!Connect, Web!Go
  <2>2. v5' \in [Clients -> Stages] /\ v4' \in [Clients -> Seq(Nat)] /\ v5'[c] = "accepted" /\ v4'[c] = <<>>
        /\ \A d \in Clients \ {c} : v5'[d] = v5[d] /\ v4'[d] = v4[d]
    BY <2>1, <1>a DEF Stages
  <2>3. ASSUME NEW d \in Clients \ {c} PROVE ClientInv(d)'
    BY <2>1, <2>2, <1>a DEF ClientInv
  <2>4. ClientInv(c)'
    <3>1. v6[c] \in Nat /\ v6[c] <= v1 /\ v1 \in Nat
      BY <1>a DEF ClientInv
    <3> QED BY <2>1, <2>2, <3>1 DEF ClientInv, Ascends
  <2>5. Web!SlotsAreReturned'
    BY <2>1, <2>2, <1>a DEF Web!SlotsAreReturned
  <2> QED BY <2>1, <2>2, <2>3, <2>4, <2>5, <1>a DEF StreamInv, Web!StreamNeverGoesBack
<1>5. ASSUME NEW c \in Clients, Web!WriteSnapshot(c) PROVE StreamInv' /\ Web!StreamNeverGoesBack
  <2>1. /\ v5[c] = "accepted" /\ v5' = [v5 EXCEPT ![c] = "seeded"] /\ v6' = [v6 EXCEPT ![c] = v1]
        /\ UNCHANGED <<v1, v2, v3, v4, v7>>
    BY <1>5 DEF Web!WriteSnapshot, Web!Go
  <2>2. v5' \in [Clients -> Stages] /\ v6' \in [Clients -> Nat] /\ v5'[c] = "seeded" /\ v6'[c] = v1
        /\ \A d \in Clients \ {c} : v5'[d] = v5[d] /\ v6'[d] = v6[d]
    BY <2>1, <1>a DEF Stages
  <2>3. ASSUME NEW d \in Clients \ {c} PROVE ClientInv(d)'
    BY <2>1, <2>2, <1>a DEF ClientInv
  <2>4. ClientInv(c)'
    BY <2>1, <2>2, <1>a DEF ClientInv, Ascends, Reads
  <2>5. Web!SlotsAreReturned'
    BY <2>1, <2>2, <1>a DEF Web!SlotsAreReturned
  <2>6. Web!StreamNeverGoesBack
    BY <2>1, <2>2, <1>a DEF Web!StreamNeverGoesBack
  <2> QED BY <2>1, <2>2, <2>3, <2>4, <2>5, <2>6, <1>a DEF StreamInv
<1>6. ASSUME NEW c \in Clients, Web!Subscribe(c) PROVE StreamInv' /\ Web!StreamNeverGoesBack
  <2>1. /\ v5[c] = "seeded" /\ UNCHANGED <<v1, v2, v4, v6, v7>>
        /\ \/ /\ Cardinality(v3) < MaxSubscribers /\ v5' = [v5 EXCEPT ![c] = "streaming"] /\ v3' = v3 \cup {c}
           \/ v5' = [v5 EXCEPT ![c] = "away"] /\ v3' = v3
    BY <1>6, WebCount DEF Web!Subscribe, Web!Go
  <2>2. /\ v5' \in [Clients -> Stages] /\ \A d \in Clients \ {c} : v5'[d] = v5[d]
        /\ v5'[c] = IF v3' = v3 \cup {c} THEN "streaming" ELSE "away"
    BY <2>1, <1>a DEF Stages, Web!SlotsAreReturned
  <2>3. ASSUME NEW d \in Clients PROVE ClientInv(d)'
    BY <2>1, <2>2, <1>a DEF ClientInv
  <2>4. Web!SlotsAreReturned'
    <3>1. v3' = {d \in Clients : v5'[d] = "streaming"}
      BY <2>1, <2>2, <1>a DEF Web!SlotsAreReturned
    <3>2. IsFiniteSet(v3) /\ Cardinality(v3) <= MaxSubscribers /\ Cardinality(v3) \in Nat
      BY <1>a, WebCount, WebAssumption, FS_Subset, FS_CardinalityType DEF Web!SlotsAreReturned
    <3>3. Cardinality(v3') <= MaxSubscribers
      <4>1. CASE v3' = v3
        BY <4>1, <3>2
      <4>2. CASE v3' # v3
        <5>1. Cardinality(v3) < MaxSubscribers /\ v3' = v3 \cup {c} /\ c \notin v3
          BY <4>2, <2>1
        <5>2. Cardinality(v3') = Cardinality(v3) + 1
          BY <5>1, <3>2, FS_AddElement
        <5> QED BY <5>1, <5>2, <3>2, WebAssumption
      <4> QED BY <4>1, <4>2
    <3> QED BY <3>1, <3>3, WebCount DEF Web!SlotsAreReturned
  <2> QED BY <2>1, <2>2, <2>3, <2>4, <1>a DEF StreamInv, Web!StreamNeverGoesBack
<1>7. ASSUME NEW c \in Clients, Web!WriteEvent(c) PROVE StreamInv' /\ Web!StreamNeverGoesBack
  <2>1. /\ v5[c] = "streaming" /\ v4[c] # <<>> /\ v4' = [v4 EXCEPT ![c] = Tail(v4[c])]
        /\ v6' = [v6 EXCEPT ![c] = Head(v4[c])] /\ UNCHANGED <<v1, v2, v3, v5, v7>>
    BY <1>7 DEF Web!WriteEvent
  <2>2. v4[c] \in Seq(Nat) /\ v6[c] \in Nat /\ v1 \in Nat /\ Ascends(v4[c], v6[c], v1)
    BY <1>a, <2>1 DEF ClientInv
  <2>3. /\ Tail(v4[c]) \in Seq(Nat) /\ Head(v4[c]) \in Nat /\ Head(v4[c]) >= v6[c]
        /\ Ascends(Tail(v4[c]), Head(v4[c]), v1) /\ Reads(Tail(v4[c]), Head(v4[c])) = Reads(v4[c], v6[c])
    BY <2>1, <2>2, EventRead
  <2>4. /\ v4' \in [Clients -> Seq(Nat)] /\ v6' \in [Clients -> Nat] /\ v4'[c] = Tail(v4[c]) /\ v6'[c] = Head(v4[c])
        /\ \A d \in Clients \ {c} : v4'[d] = v4[d] /\ v6'[d] = v6[d]
    BY <2>1, <2>3, <1>a
  <2>5. ASSUME NEW d \in Clients \ {c} PROVE ClientInv(d)'
    BY <2>1, <2>4, <1>a DEF ClientInv
  <2>6. ClientInv(c)'
    BY <2>1, <2>3, <2>4, <1>a DEF ClientInv, Ascends
  <2>7. Web!SlotsAreReturned'
    BY <2>1, <1>a DEF Web!SlotsAreReturned
  <2>8. Web!StreamNeverGoesBack
    BY <2>1, <2>3, <2>4, <1>a DEF Web!StreamNeverGoesBack
  <2> QED BY <2>1, <2>4, <2>5, <2>6, <2>7, <2>8, <1>a DEF StreamInv
<1>8. ASSUME NEW c \in Clients, Web!End(c) PROVE StreamInv' /\ Web!StreamNeverGoesBack
  <2>1. v5[c] # "away" /\ v5' = [v5 EXCEPT ![c] = "away"] /\ v3' = v3 \ {c} /\ UNCHANGED <<v1, v2, v4, v6, v7>>
    BY <1>8 DEF Web!End
  <2>2. v5' \in [Clients -> Stages] /\ v5'[c] = "away" /\ \A d \in Clients \ {c} : v5'[d] = v5[d]
    BY <2>1, <1>a DEF Stages
  <2>3. ASSUME NEW d \in Clients PROVE ClientInv(d)'
    BY <2>1, <2>2, <1>a DEF ClientInv
  <2>4. Web!SlotsAreReturned'
    <3>1. v3' = {d \in Clients : v5'[d] = "streaming"}
      BY <2>1, <2>2, <1>a DEF Web!SlotsAreReturned
    <3>2. IsFiniteSet(v3) /\ Cardinality(v3) <= MaxSubscribers /\ Cardinality(v3) \in Nat /\ v3' \subseteq v3
      BY <1>a, <2>1, WebCount, WebAssumption, FS_Subset, FS_CardinalityType DEF Web!SlotsAreReturned
    <3>3. Cardinality(v3') <= Cardinality(v3) /\ Cardinality(v3') \in Nat
      BY <3>2, FS_Subset, FS_CardinalityType
    <3> QED BY <3>1, <3>2, <3>3, WebCount, WebAssumption DEF Web!SlotsAreReturned
  <2> QED BY <2>1, <2>2, <2>3, <2>4, <1>a DEF StreamInv, Web!StreamNeverGoesBack
<1> QED BY <1>0, <1>1, <1>2, <1>3, <1>4, <1>5, <1>6, <1>7, <1>8 DEF Web!DashboardStreamNext

\* And it implies what is checked.
LEMMA StreamSafe == ASSUME StreamInv PROVE Web!StreamIsComplete /\ Web!SlotsAreReturned
  BY DEF StreamInv, ClientInv, Reads, Web!StreamIsComplete

-----------------------------------------------------------------------------
(* DashboardServer, its life: v9 is enabled, v10 restart, v11 settings, v12 client, v13 online,
   v14 waits, v15 server, v16 ended, v17 starts. *)

\* The stages of a server, and what is told of one.
Lives == {"none", "binding", "listening", "ended"}
Reports == [of : Web!Ids, told : {"nothing", "up", "down", "timeout"}]

\* A server whose start has not been heard is nobody's, has one start, and one said to be up listens
\* or has ended; so does the one that is online.
ServerTypes ==
    /\ v9 \in BOOLEAN /\ v10 \in BOOLEAN /\ v12 \in {0} \cup Web!Ids /\ v13 \in BOOLEAN /\ v14 \in BOOLEAN
    /\ v15 \in [Web!Ids -> Lives] /\ v16 \subseteq Web!Ids /\ v17 \subseteq Reports
Unheard(r) ==
    /\ v15[r.of] # "none" /\ r.of # v12
    /\ r.told = "up" => v15[r.of] = "listening" \/ r.of \in v16

\* The inductive invariant.
ServerInv ==
    /\ ServerTypes
    /\ \A r \in v17 : Unheard(r)
    /\ \A q, r \in v17 : q.of = r.of => q = r
    /\ \A s \in v16 : v15[s] = "ended"
    /\ v12 # 0 => v15[v12] # "none"
    /\ v13 => v12 # 0 /\ (v15[v12] = "listening" \/ v12 \in v16)

\* It holds at the start.
LEMMA NoServerZero == 0 \notin Web!Ids
  BY WebAssumption DEF Web!Ids

\* It holds at the start.
LEMMA ServerStart == ASSUME Web!DashboardServerInit PROVE ServerInv
  BY NoServerZero DEF Web!DashboardServerInit, ServerInv, ServerTypes, Lives

\* What Stop leaves: its server has ended, the others are as they were.
LEMMA StopEnds ==
  ASSUME ServerInv
  PROVE  /\ Web!Stopped \in [Web!Ids -> Lives] /\ (v12 # 0 => Web!Stopped[v12] = "ended")
         /\ \A s \in Web!Ids : Web!Stopped[s] = IF s = v12 THEN "ended" ELSE v15[s]
  BY NoServerZero DEF ServerInv, ServerTypes, Lives, Web!Stopped

\* A start begins one server nobody knew, or nothing.
LEMMA StartBegins ==
  ASSUME NEW left \in [Web!Ids -> Lives], Web!StartFrom(left)
  PROVE  \/ v15' = left /\ v14' = v14 /\ v17' = v17
         \/ \E s \in Web!Ids : /\ left[s] = "none" /\ v15' = [left EXCEPT ![s] = "binding"] /\ v14' = TRUE
                               /\ v17' = v17 \cup {[of |-> s, told |-> "nothing"]}
<1>1. CASE v14 \/ \A s \in Web!Ids : left[s] # "none"
  BY <1>1 DEF Web!StartFrom
<1>2. CASE ~(v14 \/ \A s \in Web!Ids : left[s] # "none")
  <2> DEFINE Free(i) == left[i] = "none" /\ \A j \in Web!Ids : left[j] = "none" => i <= j
             s == CHOOSE i \in Web!Ids : Free(i)
  <2>1. \E i \in Web!Ids : Free(i)
    <3>1. {i \in Web!Ids : left[i] = "none"} # {}
      BY <1>2
    <3>2. IsFiniteSet(Web!Ids) /\ Web!Ids \subseteq Int
      BY WebAssumption, FS_Interval DEF Web!Ids
    <3>3. IsFiniteSet({i \in Web!Ids : left[i] = "none"})
      BY <3>2, FS_Subset
    <3> QED BY <3>1, <3>2, <3>3, FirstOf
  <2>2. s \in Web!Ids /\ left[s] = "none"
    BY <2>1
  <2>3. v15' = [left EXCEPT ![s] = "binding"] /\ v14' = TRUE /\ v17' = v17 \cup {[of |-> s, told |-> "nothing"]}
    BY <1>2 DEF Web!StartFrom
  <2> QED BY <2>2, <2>3
<1> QED BY <1>1, <1>2

\* It keeps the invariant, from what Stop left or from the servers as they are.
LEMMA StartKeeps ==
  ASSUME ServerInv, NEW left \in [Web!Ids -> Lives], Web!StartFrom(left), v9' \in BOOLEAN, v10' \in BOOLEAN, v16' = v16,
         \A s \in Web!Ids : left[s] = "none" <=> v15[s] = "none",
         \/ left = v15 /\ v12' = v12 /\ v13' = v13
         \/ v12' = 0 /\ v13' = FALSE /\ \A s \in Web!Ids : left[s] = IF s = v12 THEN "ended" ELSE v15[s]
  PROVE  ServerInv' /\ \A s \in Web!Ids : left[s] # "none" => v15'[s] = left[s]
<1>1. CASE v15' = left /\ v14' = v14 /\ v17' = v17
  <2>1. ServerTypes'
    BY <1>1, NoServerZero DEF ServerInv, ServerTypes
  <2>2. ASSUME NEW r \in v17 PROVE Unheard(r)'
    BY <1>1, NoServerZero DEF ServerInv, ServerTypes, Reports, Unheard
  <2>3. /\ \A s \in v16' : v15'[s] = "ended"
        /\ v12' # 0 => v15'[v12'] # "none"
        /\ v13' => v12' # 0 /\ (v15'[v12'] = "listening" \/ v12' \in v16')
    BY <1>1 DEF ServerInv, ServerTypes
  <2> QED BY <1>1, <2>1, <2>2, <2>3 DEF ServerInv
<1>2. ASSUME NEW s \in Web!Ids, left[s] = "none", v15' = [left EXCEPT ![s] = "binding"], v14' = TRUE,
             v17' = v17 \cup {[of |-> s, told |-> "nothing"]}
      PROVE  ServerInv' /\ \A i \in Web!Ids : left[i] # "none" => v15'[i] = left[i]
  <2>0. /\ v15' \in [Web!Ids -> Lives] /\ v15'[s] = "binding" /\ \A i \in Web!Ids \ {s} : v15'[i] = left[i]
        /\ v15[s] = "none"
    BY <1>2 DEF Lives
  <2>1. ServerTypes'
    <3>1. [of |-> s, told |-> "nothing"] \in Reports
      BY DEF Reports
    <3>2. v17' \subseteq Reports
      BY <1>2, <3>1 DEF ServerInv, ServerTypes
    <3> QED BY <2>0, <3>2, <1>2 DEF ServerInv, ServerTypes
  <2>2. ASSUME NEW r \in v17 PROVE Unheard(r)' /\ r.of # s
    BY <2>0, <1>2, NoServerZero DEF ServerInv, ServerTypes, Reports, Unheard
  <2>3. Unheard([of |-> s, told |-> "nothing"])'
    BY <2>0, NoServerZero DEF Unheard, ServerInv, ServerTypes
  <2>4. \A q, r \in v17' : q.of = r.of => q = r
    BY <1>2, <2>2 DEF ServerInv
  <2>5. /\ \A i \in v16' : v15'[i] = "ended"
        /\ v12' # 0 => v15'[v12'] # "none"
        /\ v13' => v12' # 0 /\ (v15'[v12'] = "listening" \/ v12' \in v16')
    BY <1>2, <2>0 DEF ServerInv, ServerTypes
  <2> QED BY <1>2, <2>0, <2>1, <2>2, <2>3, <2>4, <2>5 DEF ServerInv
<1> QED BY <1>1, <1>2, StartBegins

\* A stop that begins nothing keeps it.
LEMMA StopKeeps ==
  ASSUME ServerInv, v15' = Web!Stopped, v12' = 0, v13' = FALSE, v9' \in BOOLEAN, v10' \in BOOLEAN, v14' \in BOOLEAN,
         v16' = v16, v17' = v17
  PROVE  ServerInv' /\ Web!RestartFreesThePort
<1>1. ServerTypes'
  BY StopEnds DEF ServerInv, ServerTypes
<1>2. ASSUME NEW r \in v17 PROVE Unheard(r)'
  BY StopEnds, NoServerZero DEF ServerInv, ServerTypes, Reports, Unheard
<1> QED BY <1>1, <1>2, StopEnds DEF ServerInv, ServerTypes, Web!RestartFreesThePort

\* Every step keeps it, and a restart leaves the port free.
LEMMA ServerStep ==
  ASSUME ServerInv, [Web!DashboardServerNext]_(Web!serverVars) PROVE ServerInv' /\ Web!RestartFreesThePort
<1>a. ServerTypes
  BY DEF ServerInv
<1>0. CASE UNCHANGED Web!serverVars
  BY <1>0 DEF ServerInv, ServerTypes, Unheard, Web!serverVars, Web!RestartFreesThePort
<1>1. CASE Web!Save
  BY <1>1 DEF Web!Save, ServerInv, ServerTypes, Unheard, Web!RestartFreesThePort
<1>2. CASE Web!TickOff
  BY <1>2, <1>a, StopKeeps DEF Web!TickOff, ServerTypes
<1>3. CASE Web!TickRestart
  <2>1. \A s \in Web!Ids : Web!Stopped[s] = IF s = v12 THEN "ended" ELSE v15[s]
    BY StopEnds
  <2>2. \A s \in Web!Ids : Web!Stopped[s] = "none" <=> v15[s] = "none"
    BY <2>1, NoServerZero DEF ServerInv
  <2>3. Web!StartFrom(Web!Stopped) /\ v10' = FALSE /\ v12' = 0 /\ v13' = FALSE /\ v9' = v9 /\ v16' = v16
    BY <1>3 DEF Web!TickRestart
  <2>4. v9 \in BOOLEAN /\ Web!Stopped \in [Web!Ids -> Lives]
    BY StopEnds, <1>a DEF ServerTypes
  <2>5. ServerInv' /\ \A s \in Web!Ids : Web!Stopped[s] # "none" => v15'[s] = Web!Stopped[s]
    BY <2>1, <2>2, <2>3, <2>4, StartKeeps
  <2> QED BY <2>1, <2>5, <1>a DEF Web!RestartFreesThePort, ServerTypes
<1>4. CASE Web!TickOnline
  BY <1>4, <1>a, StopKeeps DEF Web!TickOnline, ServerTypes
<1>5. CASE Web!TickOffline
  <2>1. Web!StartFrom(v15) /\ v10' = v10 /\ v12' = v12 /\ v13' = v13 /\ v9' = v9 /\ v16' = v16
    BY <1>5 DEF Web!TickOffline
  <2>2. v9 \in BOOLEAN /\ v10 \in BOOLEAN
    BY <1>a DEF ServerTypes
  <2> QED BY <2>1, <2>2, <1>a, StartKeeps DEF Web!RestartFreesThePort, ServerTypes
<1>6. CASE Web!Later
  BY <1>6 DEF Web!Later, ServerInv, ServerTypes, Unheard, Web!RestartFreesThePort
<1>7. ASSUME NEW r \in v17, Web!GiveUp(r) PROVE ServerInv' /\ Web!RestartFreesThePort
  <2> DEFINE gone == [r EXCEPT !.told = "timeout"]
  <2>1. v17' = (v17 \ {r}) \cup {gone} /\ UNCHANGED <<v9, v10, v12, v13, v14, v15, v16>>
    BY <1>7 DEF Web!GiveUp
  <2>2. gone \in Reports /\ gone.of = r.of /\ gone.told = "timeout"
    BY <1>a DEF ServerTypes, Reports
  <2> HIDE DEF gone
  <2>3. Unheard(gone)'
    BY <2>1, <2>2 DEF ServerInv, Unheard
  <2>4. \A q \in v17 : Unheard(q)'
    BY <2>1 DEF ServerInv, Unheard
  <2>5. ServerTypes'
    BY <2>1, <2>2, <1>a DEF ServerTypes
  <2> QED BY <2>1, <2>2, <2>3, <2>4, <2>5 DEF ServerInv, Web!RestartFreesThePort
<1>8. ASSUME NEW r \in v17, Web!Status(r) PROVE ServerInv' /\ Web!RestartFreesThePort
  BY <1>8, NoServerZero DEF Web!Status, ServerInv, ServerTypes, Unheard, Reports, Web!RestartFreesThePort
<1>9. ASSUME NEW s \in Web!Ids, Web!Bind(s) PROVE ServerInv' /\ Web!RestartFreesThePort
  <2>1. PICK up \in BOOLEAN :
          /\ v15' = [v15 EXCEPT ![s] = IF up THEN "listening" ELSE "ended"]
          /\ v17' = {IF r.of = s /\ r.told = "nothing" THEN [r EXCEPT !.told = IF up THEN "up" ELSE "down"] ELSE r : r \in v17}
    BY <1>9 DEF Web!Bind
  <2>2. v15[s] = "binding" /\ UNCHANGED <<v9, v10, v12, v13, v14, v16>>
    BY <1>9 DEF Web!Bind
  <2> DEFINE Told(r) == IF r.of = s /\ r.told = "nothing" THEN [r EXCEPT !.told = IF up THEN "up" ELSE "down"] ELSE r
  <2>3. ASSUME NEW r \in v17 PROVE /\ Told(r) \in Reports /\ Told(r).of = r.of
                                   /\ Told(r).told = "up" => Told(r) = r \/ (up /\ r.of = s)
    BY <1>a DEF ServerTypes, Reports
  <2>4. v17' = {Told(r) : r \in v17}
    BY <2>1
  <2> HIDE DEF Told
  <2>5. /\ v15' \in [Web!Ids -> Lives] /\ v15'[s] = IF up THEN "listening" ELSE "ended"
        /\ \A i \in Web!Ids \ {s} : v15'[i] = v15[i]
    BY <2>1, <1>a DEF ServerTypes, Lives
  <2>6. ASSUME NEW r \in v17 PROVE Unheard(Told(r))'
    <3>1. r.of \in Web!Ids /\ Unheard(r)
      BY <1>a DEF ServerInv, ServerTypes, Reports
    <3>2. v15'[r.of] # "none" /\ r.of # v12
      BY <3>1, <2>5 DEF Unheard
    <3>3. CASE Told(r) = r
      BY <3>1, <3>2, <3>3, <2>2, <2>5 DEF Unheard
    <3>4. CASE Told(r) # r
      BY <3>1, <3>2, <3>4, <2>2, <2>3, <2>5 DEF Unheard
    <3> QED BY <3>3, <3>4
  <2>7. ServerTypes'
    BY <2>2, <2>3, <2>4, <2>5, <1>a DEF ServerTypes
  <2>8. \A q, r \in v17' : q.of = r.of => q = r
    BY <2>3, <2>4 DEF ServerInv
  <2>9. /\ \A i \in v16' : v15'[i] = "ended"
        /\ v12' # 0 => v15'[v12'] # "none"
        /\ v13' => v12' # 0 /\ (v15'[v12'] = "listening" \/ v12' \in v16')
    BY <2>2, <2>5, <1>a DEF ServerInv, ServerTypes
  <2> QED BY <2>2, <2>4, <2>6, <2>7, <2>8, <2>9 DEF ServerInv, Web!RestartFreesThePort
<1>10. ASSUME NEW s \in Web!Ids, Web!ServeEnds(s) PROVE ServerInv' /\ Web!RestartFreesThePort
  BY <1>10 DEF Web!ServeEnds, ServerInv, ServerTypes, Unheard, Reports, Lives, Web!RestartFreesThePort
<1> QED BY <1>0, <1>1, <1>2, <1>3, <1>4, <1>5, <1>6, <1>7, <1>8, <1>9, <1>10 DEF Web!DashboardServerNext

\* And it implies what is checked.
LEMMA ServerSafe == ASSUME ServerInv PROVE Web!OnlineIsListening
  BY DEF ServerInv, Web!OnlineIsListening

-----------------------------------------------------------------------------
(* HybridListener: v1 is conn, v2 loop, v3 results, v4 slots, v5 raw, v6 closing. *)

\* Where a connection may be.
Places == {"away", "kernel", "worker", "peeked", "result", "served", "closed"}

\* What the channel holds.
Heard == Conns \cup {"failed"}

\* The connections that are being classified.
Classified(f) == {c \in Conns : f[c] \in {"worker", "peeked"}}

\* A worker's connection belongs to the loop until it is handed over, the channel
\* holds every classified one, and Close leaves less and less.
TlsInv ==
    /\ v1 \in [Conns -> Places] /\ v3 \in Seq(Heard)
    /\ Tls!SlotsAreHeld
    /\ v2 \in Conns => v1[v2] = "worker"
    /\ \A c \in Conns : v1[c] = "result" => Holds(v3, c)
    /\ v6 \in {"joins", "drains", "done"} => ~v5 /\ \A c \in Conns : v1[c] # "kernel"
    /\ v6 \in {"drains", "done"} => v2 = "ended" /\ Classified(v1) = {}
    /\ v6 = "done" => v3 = <<>>

\* The component counts as the lemmas on finite sets do.
LEMMA TlsCount == ASSUME NEW S PROVE Tls!Cardinality(S) = Cardinality(S)
  BY DEF Tls!Cardinality, Cardinality, Tls!IsFiniteSet, IsFiniteSet

\* What one connection's move from f does to the number of those being classified.
Recounts(f, g, c, x) ==
    /\ f[c] \notin {"worker", "peeked"} /\ x \in {"worker", "peeked"} =>
          Cardinality(Classified(g)) = Cardinality(Classified(f)) + 1
    /\ f[c] \in {"worker", "peeked"} /\ x \notin {"worker", "peeked"} =>
          Cardinality(Classified(g)) = Cardinality(Classified(f)) - 1
    /\ (f[c] \in {"worker", "peeked"} <=> x \in {"worker", "peeked"}) => Classified(g) = Classified(f)

\* It grows, shrinks or stays as the connection comes, goes or does neither.
LEMMA ClassifiedMoves ==
  ASSUME NEW f \in [Conns -> Places], NEW c \in Conns, NEW x \in Places
  PROVE  Recounts(f, [f EXCEPT ![c] = x], c, x)
<1> DEFINE g == [f EXCEPT ![c] = x]
<1>1. g[c] = x /\ \A d \in Conns \ {c} : g[d] = f[d]
  OBVIOUS
<1> HIDE DEF g
<1>2. IsFiniteSet(Classified(f)) /\ Cardinality(Classified(f)) \in Nat
  BY TlsAssumption, FS_Subset, FS_CardinalityType DEF Classified
<1>3. ASSUME f[c] \notin {"worker", "peeked"}, x \in {"worker", "peeked"}
      PROVE  Cardinality(Classified(g)) = Cardinality(Classified(f)) + 1
  <2>1. Classified(g) = Classified(f) \cup {c} /\ c \notin Classified(f)
    BY <1>1, <1>3 DEF Classified
  <2> QED BY <1>2, <2>1, FS_AddElement
<1>4. ASSUME f[c] \in {"worker", "peeked"}, x \notin {"worker", "peeked"}
      PROVE  Cardinality(Classified(g)) = Cardinality(Classified(f)) - 1
  <2>1. Classified(g) = Classified(f) \ {c} /\ c \in Classified(f)
    BY <1>1, <1>4 DEF Classified
  <2> QED BY <1>2, <2>1, FS_RemoveElement
<1>5. ASSUME f[c] \in {"worker", "peeked"} <=> x \in {"worker", "peeked"} PROVE Classified(g) = Classified(f)
  BY <1>1, <1>5 DEF Classified
<1>6. Recounts(f, g, c, x)
  BY <1>3, <1>4, <1>5 DEF Recounts
<1> QED BY <1>6 DEF g

\* It holds at the start.
LEMMA TlsStart == ASSUME Tls!HybridListenerInit PROVE TlsInv
<1>1. v1 = [c \in Conns |-> "away"] /\ v2 = "slot" /\ v3 = <<>> /\ v4 = 0 /\ v6 = "no"
  BY DEF Tls!HybridListenerInit
<1>2. Tls!Classified = {}
  BY <1>1 DEF Tls!Classified
<1>3. Cardinality({}) = 0
  BY FS_EmptySet
<1>4. Tls!SlotsAreHeld
  BY <1>1, <1>2, <1>3, TlsCount DEF Tls!SlotsAreHeld
<1>5. v1 \in [Conns -> Places] /\ v3 \in Seq(Heard) /\ v2 \notin Conns
  BY <1>1, TlsAssumption DEF Places, Heard
<1> QED BY <1>1, <1>4, <1>5 DEF TlsInv

\* Every step keeps it.
LEMMA TlsStep == ASSUME TlsInv, [Tls!HybridListenerNext]_(Tls!listenerVars) PROVE TlsInv'
<1> DEFINE n == Cardinality(Classified(v1))
           m == Cardinality(Classified(v1)')
<1>t. /\ v1 \in [Conns -> Places] /\ v3 \in Seq(Heard)
      /\ v4 = n + (IF v2 = "accept" THEN 1 ELSE 0) /\ n \in Nat
      /\ v2 \in Conns => v1[v2] = "worker"
      /\ \A c \in Conns : v1[c] = "result" => Holds(v3, c)
      /\ v6 \in {"joins", "drains", "done"} => ~v5 /\ \A c \in Conns : v1[c] # "kernel"
      /\ v6 \in {"drains", "done"} => v2 = "ended" /\ Classified(v1) = {}
      /\ v6 = "done" => v3 = <<>>
  <2>1. n \in Nat
    BY TlsAssumption, FS_Subset, FS_CardinalityType DEF Classified
  <2>2. Tls!Classified = Classified(v1)
    BY DEF Tls!Classified, Classified
  <2>3. v4 = n + (IF v2 = "accept" THEN 1 ELSE 0)
    BY <2>2, TlsCount DEF TlsInv, Tls!SlotsAreHeld
  <2> HIDE DEF n
  <2> QED BY <2>1, <2>3 DEF TlsInv
<1>s. ASSUME /\ v1' \in [Conns -> Places] /\ v3' \in Seq(Heard)
             /\ v4' = m + (IF v2' = "accept" THEN 1 ELSE 0)
             /\ v2' \in Conns => v1'[v2'] = "worker"
             /\ \A c \in Conns : v1'[c] = "result" => Holds(v3', c)
             /\ v6' \in {"joins", "drains", "done"} => ~v5' /\ \A c \in Conns : v1'[c] # "kernel"
             /\ v6' \in {"drains", "done"} => v2' = "ended" /\ Classified(v1)' = {}
             /\ v6' = "done" => v3' = <<>>
      PROVE  TlsInv'
  <2>1. Tls!Classified' = Classified(v1)'
    BY DEF Tls!Classified, Classified
  <2>2. Tls!SlotsAreHeld'
    BY <1>s, <2>1, TlsCount DEF Tls!SlotsAreHeld
  <2> HIDE DEF m
  <2> QED BY <1>s, <2>2 DEF TlsInv
<1> HIDE DEF n, m
<1>e. ASSUME v1' = v1 PROVE m = n /\ Classified(v1)' = Classified(v1)
  BY <1>e DEF n, m, Classified
<1>h. "failed" \in Heard /\ \A c \in Conns : c \in Heard
  BY DEF Heard
<1>n. "slot" \notin Conns /\ "accept" \notin Conns /\ "ended" \notin Conns /\ "failed" \notin Conns
  BY TlsAssumption
<1>m. ASSUME NEW c \in Conns, NEW x \in Places, v1' = [v1 EXCEPT ![c] = x]
      PROVE  /\ v1' \in [Conns -> Places] /\ v1'[c] = x /\ \A d \in Conns \ {c} : v1'[d] = v1[d]
             /\ v1[c] \notin {"worker", "peeked"} /\ x \in {"worker", "peeked"} => m = n + 1
             /\ v1[c] \in {"worker", "peeked"} /\ x \notin {"worker", "peeked"} => m = n - 1
             /\ (v1[c] \in {"worker", "peeked"} <=> x \in {"worker", "peeked"}) =>
                   m = n /\ Classified(v1)' = Classified(v1)
  <2>1. v1' \in [Conns -> Places] /\ v1'[c] = x /\ \A d \in Conns \ {c} : v1'[d] = v1[d]
    BY <1>t, <1>m
  <2>2. Recounts(v1, v1', c, x)
    BY <1>t, <1>m, ClassifiedMoves
  <2>3. Classified(v1)' = Classified(v1')
    BY DEF Classified
  <2> QED BY <2>1, <2>2, <2>3 DEF Recounts, n, m
<1>0. CASE UNCHANGED Tls!listenerVars
  BY <1>0, <1>e, <1>s, <1>t DEF Tls!listenerVars
<1>1. CASE Tls!TakeSlot
  <2>1. v1' = v1 /\ v3' = v3 /\ v5' = v5 /\ v6' = v6 /\ v2 = "slot"
    BY <1>1 DEF Tls!TakeSlot
  <2>2. \/ v4' = v4 + 1 /\ v2' = "accept"
        \/ v2' = "ended" /\ v4' = v4
    BY <1>1 DEF Tls!TakeSlot
  <2>3. v4' = n + (IF v2' = "accept" THEN 1 ELSE 0)
    BY ONLY <1>t, <2>1, <2>2
  <2> QED BY <1>e, <1>n, <1>s, <1>t, <2>1, <2>2, <2>3
<1>2. CASE Tls!AcceptFails
  <2>1. v1' = v1 /\ v5' = v5 /\ v6' = v6 /\ v2 = "accept" /\ v2' = "ended" /\ v4' = v4 - 1
    BY <1>2 DEF Tls!AcceptFails
  <2>2. v3' = v3 \/ v3' = Append(v3, "failed")
    BY <1>2 DEF Tls!AcceptFails, Tls!Failed
  <2>3. v3' \in Seq(Heard) /\ \A c \in Conns : v1[c] = "result" => Holds(v3', c)
    <3>1. CASE v3' = v3
      BY <1>t, <3>1
    <3>2. CASE v3' = Append(v3, "failed")
      BY <1>h, <1>t, <3>2, Joins
    <3> QED BY <2>2, <3>1, <3>2
  <2>4. v4' = n
    BY ONLY <1>t, <2>1
  <2> QED BY <1>e, <1>n, <1>s, <1>t, <2>1, <2>3, <2>4
<1>3. CASE Tls!Serve
  <2>1. v3 # <<>> /\ v3' = Tail(v3) /\ v2' = v2 /\ v4' = v4 /\ v5' = v5 /\ v6' = v6
    BY <1>3 DEF Tls!Serve
  <2>2. CASE v1' = v1 /\ Head(v3) = "failed"
    <3>1. \A c \in Conns : v1[c] = "result" => Holds(v3', c)
      BY <1>n, <1>t, <2>1, <2>2, <1>h, Leaves
    <3> QED BY <1>e, <1>s, <1>t, <2>1, <2>2, <3>1, <1>h, Leaves
  <2>3. CASE Head(v3) # "failed" /\ v1[Head(v3)] = "result" /\ v1' = [v1 EXCEPT ![Head(v3)] = "served"]
    <3>1. PICK h \in Conns : h = Head(v3)
      BY <1>t, <2>1, <2>3, Leaves DEF Heard
    <3>2. "served" \in Places /\ v1' = [v1 EXCEPT ![h] = "served"] /\ v1[h] = "result"
      BY <2>3, <3>1 DEF Places
    <3>3. \A c \in Conns : v1'[c] = "result" => v1[c] = "result" /\ c # h
      BY <1>m, <3>2
    <3>4. Tail(v3) \in Seq(Heard) /\ \A c \in Conns : v1'[c] = "result" => Holds(v3', c)
      BY <1>h, <1>t, <2>1, <3>1, <3>3, Leaves
    <3>5. m = n /\ v1' \in [Conns -> Places] /\ \A c \in Conns : (v1'[c] = "kernel" => v1[c] = "kernel") /\ (v1[c] = "worker" => v1'[c] = "worker")
      BY <1>m, <3>2
    <3>6. Classified(v1)' = Classified(v1)
      BY <1>m, <3>2
    <3> QED BY ONLY <1>n, <1>s, <1>t, <2>1, <3>4, <3>5, <3>6
  <2> QED BY <1>3, <2>2, <2>3 DEF Tls!Serve, Tls!Moves, Tls!Failed
<1>4. CASE Tls!CloseBegins
  BY <1>4, <1>e, <1>s, <1>t DEF Tls!CloseBegins
<1>5. CASE Tls!CloseRaw
  <2>1. v1' = [c \in Conns |-> IF v1[c] = "kernel" THEN "closed" ELSE v1[c]] /\ v6 = "told" /\ v6' = "joins" /\ ~v5'
    BY <1>5 DEF Tls!CloseRaw
  <2>2. v2' = v2 /\ v3' = v3 /\ v4' = v4
    BY <1>5 DEF Tls!CloseRaw
  <2>3. v1' \in [Conns -> Places]
    BY <1>t, <2>1 DEF Places
  <2>4. Classified(v1)' = Classified(v1)
    BY <2>1 DEF Classified
  <2>5. m = n
    BY <2>4 DEF m, n
  <2>6. \A c \in Conns : /\ v1'[c] # "kernel" /\ (v1'[c] = "result" => v1[c] = "result")
                         /\ (v1[c] = "worker" => v1'[c] = "worker")
    BY <2>1
  <2> QED BY <1>s, <1>t, <2>1, <2>2, <2>3, <2>5, <2>6
<1>6. CASE Tls!Join
  <2>1. Classified(v1) = {}
    BY <1>6 DEF Tls!Join, Classified
  <2> QED BY <1>6, <1>e, <1>s, <1>t, <2>1 DEF Tls!Join
<1>7. CASE Tls!Drain
  <2>1. v6 = "drains" /\ v2' = v2 /\ v4' = v4 /\ v5' = v5
    BY <1>7 DEF Tls!Drain
  <2>2. CASE v3 = <<>> /\ v6' = "done" /\ v1' = v1 /\ v3' = v3
    BY <1>e, <1>s, <1>t, <2>1, <2>2
  <2>3. CASE v3 # <<>> /\ v3' = Tail(v3) /\ v6' = v6 /\ v1' = v1 /\ Head(v3) = "failed"
    <3>1. \A c \in Conns : v1[c] = "result" => Holds(v3', c)
      BY <1>n, <1>t, <2>3, <1>h, Leaves
    <3> QED BY <1>e, <1>s, <1>t, <2>1, <2>3, <3>1, <1>h, Leaves
  <2>4. CASE /\ v3 # <<>> /\ v3' = Tail(v3) /\ v6' = v6 /\ Head(v3) # "failed" /\ v1[Head(v3)] = "result"
             /\ v1' = [v1 EXCEPT ![Head(v3)] = "closed"]
    <3>1. PICK h \in Conns : h = Head(v3)
      BY <1>t, <2>4, Leaves DEF Heard
    <3>2. "closed" \in Places /\ v1' = [v1 EXCEPT ![h] = "closed"] /\ v1[h] = "result"
      BY <2>4, <3>1 DEF Places
    <3>3. \A c \in Conns : v1'[c] = "result" => v1[c] = "result" /\ c # h
      BY <1>m, <3>2
    <3>4. Tail(v3) \in Seq(Heard) /\ \A c \in Conns : v1'[c] = "result" => Holds(v3', c)
      BY <1>h, <1>t, <2>4, <3>1, <3>3, Leaves
    <3>5. m = n /\ v1' \in [Conns -> Places] /\ \A c \in Conns : (v1'[c] = "kernel" => v1[c] = "kernel") /\ (v1[c] = "worker" => v1'[c] = "worker")
      BY <1>m, <3>2
    <3>6. Classified(v1)' = Classified(v1)
      BY <1>m, <3>2
    <3> QED BY ONLY <1>n, <1>s, <1>t, <2>1, <2>4, <3>4, <3>5, <3>6
  <2> QED BY <1>7, <2>2, <2>3, <2>4 DEF Tls!Drain, Tls!Moves, Tls!Failed
<1>8. ASSUME NEW c \in Conns, Tls!Arrive(c) PROVE TlsInv'
  <2>1. "kernel" \in Places /\ v5 /\ v1[c] = "away" /\ v1' = [v1 EXCEPT ![c] = "kernel"]
    BY <1>8 DEF Tls!Arrive, Tls!Moves, Places
  <2>2. v2' = v2 /\ v3' = v3 /\ v4' = v4 /\ v5' = v5 /\ v6' = v6
    BY <1>8 DEF Tls!Arrive
  <2> QED BY <1>m, <1>s, <1>t, <2>1, <2>2
<1>9. ASSUME NEW c \in Conns, Tls!Accept(c) PROVE TlsInv'
  <2>1. /\ "worker" \in Places /\ v2 = "accept" /\ v5 /\ v1[c] = "kernel" /\ v1' = [v1 EXCEPT ![c] = "worker"]
        /\ v2' = c
    BY <1>9 DEF Tls!Accept, Tls!Moves, Places
  <2>2. v3' = v3 /\ v4' = v4 /\ v5' = v5 /\ v6' = v6
    BY <1>9 DEF Tls!Accept
  <2>3. v4' = n + 1 /\ m = n + 1 /\ v2' # "accept"
    BY <1>m, <1>n, <1>t, <2>1, <2>2
  <2>4. v4' = m + (IF v2' = "accept" THEN 1 ELSE 0)
    BY ONLY <1>t, <2>3
  <2> QED BY <1>m, <1>s, <1>t, <2>1, <2>2, <2>4
<1>10. ASSUME NEW c \in Conns, Tls!HandOver(c) PROVE TlsInv'
  <2>1. v2 = c /\ v3' = v3 /\ v5' = v5 /\ v6' = v6
    BY <1>10 DEF Tls!HandOver
  <2>2. CASE v2' = "slot" /\ v1' = v1 /\ v4' = v4
    BY <1>e, <1>n, <1>s, <1>t, <2>1, <2>2
  <2>3. CASE v1[c] = "worker" /\ v1' = [v1 EXCEPT ![c] = "closed"] /\ v2' = "ended" /\ v4' = v4 - 1
    <3>1. "closed" \in Places
      BY DEF Places
    <3>4. v1[c] = "worker" /\ v2 # "accept"
      BY <1>n, <2>1, <2>3
    <3>2. m = n - 1 /\ v4 = n
      <4>1. m = n - 1
        BY <1>m, <2>3, <3>1, <3>4
      <4> QED BY ONLY <1>t, <3>4, <4>1
    <3>3. v4' = m + (IF v2' = "accept" THEN 1 ELSE 0)
      BY ONLY <1>t, <2>3, <3>2
    <3> QED BY <1>m, <1>n, <1>s, <1>t, <2>1, <2>3, <3>1, <3>3
  <2> QED BY <1>10, <2>2, <2>3 DEF Tls!HandOver, Tls!Moves
<1>11. ASSUME NEW c \in Conns, Tls!Peek(c) PROVE TlsInv'
  <2>1. v2 # c /\ v2' = v2 /\ v3' = v3 /\ v5' = v5 /\ v6' = v6
    BY <1>11 DEF Tls!Peek
  <2>2. CASE v1[c] = "worker" /\ v1' = [v1 EXCEPT ![c] = "closed"] /\ v4' = v4 - 1
    <3>1. "closed" \in Places
      BY DEF Places
    <3>2. m = n - 1
      BY <1>m, <2>2, <3>1
    <3>3. v4' = m + (IF v2' = "accept" THEN 1 ELSE 0)
      BY ONLY <1>t, <2>1, <2>2, <3>2
    <3>4. v6 \notin {"drains", "done"}
      BY <1>t, <2>2 DEF Classified
    <3> QED BY <1>m, <1>s, <1>t, <2>1, <2>2, <3>1, <3>3, <3>4
  <2>3. CASE v1[c] = "worker" /\ v1' = [v1 EXCEPT ![c] = "peeked"] /\ v4' = v4
    <3>1. "peeked" \in Places
      BY DEF Places
    <3> QED BY <1>m, <1>s, <1>t, <2>1, <2>3, <3>1
  <2> QED BY <1>11, <2>2, <2>3 DEF Tls!Peek, Tls!Moves
<1>12. ASSUME NEW c \in Conns, Tls!Deliver(c) PROVE TlsInv'
  <2>1. v4' = v4 - 1 /\ v2' = v2 /\ v5' = v5 /\ v6' = v6
    BY <1>12 DEF Tls!Deliver
  <2>2. /\ v1[c] = "peeked"
        /\ \/ v1' = [v1 EXCEPT ![c] = "result"] /\ v3' = Append(v3, c)
           \/ v1' = [v1 EXCEPT ![c] = "closed"] /\ v3' = v3
    BY <1>12 DEF Tls!Deliver, Tls!Moves
  <2>3. PICK x \in {"result", "closed"} : v1' = [v1 EXCEPT ![c] = x] /\ v3' = (IF x = "result" THEN Append(v3, c) ELSE v3)
    BY <2>2
  <2>4. x \in Places
    BY DEF Places
  <2>5. m = n - 1
    BY <1>m, <2>2, <2>3, <2>4
  <2>6. v4' = m + (IF v2' = "accept" THEN 1 ELSE 0)
    BY ONLY <1>t, <2>1, <2>5
  <2>7. v3' \in Seq(Heard) /\ \A d \in Conns : v1'[d] = "result" => Holds(v3', d)
    <3>0. \A d \in Conns : v1'[d] = "result" => v1[d] = "result" \/ (d = c /\ x = "result")
      BY <1>m, <2>3, <2>4
    <3>1. CASE x = "result"
      BY <1>h, <1>t, <2>3, <3>0, <3>1, Joins
    <3>2. CASE x = "closed"
      BY <1>t, <2>3, <3>0, <3>2
    <3> QED BY <3>1, <3>2
  <2>8. v6 \notin {"drains", "done"} /\ c # v2
    BY <1>t, <2>2 DEF Classified
  <2> QED BY <1>m, <1>s, <1>t, <2>1, <2>2, <2>3, <2>4, <2>6, <2>7, <2>8
<1> QED BY <1>0, <1>1, <1>2, <1>3, <1>4, <1>5, <1>6, <1>7, <1>8, <1>9, <1>10, <1>11, <1>12
        DEF Tls!HybridListenerNext

\* And it implies what is checked.
LEMMA TlsSafe == ASSUME TlsInv PROVE Tls!NoneLeftBehind /\ Tls!SlotsAreHeld
<1>1. ASSUME v6 = "done", NEW c \in Conns PROVE v1[c] \in {"away", "served", "closed"}
  <2>1. v1[c] \in Places /\ v1[c] # "kernel" /\ c \notin Classified(v1)
    BY <1>1 DEF TlsInv
  <2>2. v1[c] # "result"
    BY <1>1 DEF TlsInv, Holds
  <2> QED BY <2>1, <2>2 DEF Classified, Places
<1> QED BY <1>1 DEF TlsInv, Tls!NoneLeftBehind

-----------------------------------------------------------------------------
(* DownloadPump: v1 is op, v2 active, v3 mode, v4 captured, v5 result, v6 channel, v7 closed, v8 worker, v9 sent,
   v10 outcome, v11 pending, v12 drained, v13 arriving, v14 cancelled. *)

\* What a worker may send, how it ends and what is shown of it.
Sendable == {"progress", "error", "done", "aborted", "failed"}
Arrival == [op : Pump!Ops, msg : Sendable \cup {"close"}]
Outcomes == {"none", "done", "aborted", "failed"}
Results == [of : 0..MaxDownloads, shows : Outcomes \cup {"unfinished"}]

\* A message that is not progress tells how the operation ended.
Tells(x, end) == x = "progress" \/ (x = "error" /\ end = "failed") \/ (x # "error" /\ x = end)

\* A message of operation o is in its channel or on its way to the owner loop.
Under(o, x) == Holds(v6[o], x) \/ [op |-> o, msg |-> x] \in v13

\* The values of the variables.
PumpTypes ==
    /\ v1 \in 0..MaxDownloads /\ v5 \in Results
    /\ v6 \in [Pump!Ops -> Seq(Sendable)]
    /\ v8 \in [Pump!Ops -> {"idle", "works", "closes", "ended"}]
    /\ v10 \in [Pump!Ops -> Outcomes]
    /\ v13 \subseteq Arrival

\* What is sent of an operation is true of it, and nothing follows the end of its channel.
PumpSends ==
    /\ \A o \in Pump!Ops :
          /\ v8[o] \in {"idle", "works"} <=> v10[o] = "none"
          /\ o \in v7 => v8[o] = "ended"
          /\ o \in v12 => o \in v7 /\ v6[o] = <<>>
          /\ \A x \in Sendable : Under(o, x) => Tells(x, v10[o])
          /\ [op |-> o, msg |-> "close"] \in v13 => o \in v12
    /\ \A m, n \in v13 : m.op = n.op => m = n

\* The active operation is read, and how it ended is on the way, or known to be an error.
PumpReads ==
    /\ v2 <=> v1 # 0
    /\ v1 # 0 => /\ v1 \in v11
                 /\ v1 \in v12 => [op |-> v1, msg |-> "close"] \in v13
                 /\ v10[v1] # "none" => v4 = v1 \/ \E x \in Sendable \ {"progress"} : Under(v1, x)

\* The inductive invariant.
PumpInv == PumpTypes /\ PumpSends /\ PumpReads /\ Pump!ResultIsHonest

\* It holds at the start.
LEMMA PumpStart == ASSUME Pump!DownloadPumpInit PROVE PumpInv
<1>1. PumpTypes
  BY PumpAssumption DEF Pump!DownloadPumpInit, PumpTypes, Pump!Nothing, Results, Outcomes
<1>2. PumpSends
  <2>1. \A x : ~Holds(<<>>, x)
    BY DEF Holds
  <2> QED BY <2>1 DEF Pump!DownloadPumpInit, PumpSends, Under
<1>3. PumpReads /\ Pump!ResultIsHonest
  BY DEF Pump!DownloadPumpInit, PumpReads, Pump!ResultIsHonest
<1> QED BY <1>1, <1>2, <1>3 DEF PumpInv

\* A step of the owner loop's that leaves the workers and the messages alone.
LEMMA PumpRests ==
  ASSUME PumpInv, UNCHANGED <<v6, v7, v8, v10, v12, v13>>, v1' \in 0..MaxDownloads,
         v5' \in Results, PumpReads', Pump!ResultIsHonest'
  PROVE  PumpInv'
<1>1. PumpTypes' /\ PumpSends'
  BY DEF PumpInv, PumpTypes, PumpSends, Under
<1> QED BY <1>1 DEF PumpInv

\* Every step keeps it.
LEMMA PumpStep == ASSUME PumpInv, [Pump!DownloadPumpNext]_(Pump!pumpVars) PROVE PumpInv'
<1> USE DEF Pump!workerVars
<1>o. Pump!Ops = 1..MaxDownloads
  BY DEF Pump!Ops
<1>0. CASE UNCHANGED Pump!pumpVars
  BY <1>0, PumpRests DEF Pump!pumpVars, PumpInv, PumpTypes, PumpReads, Under, Pump!ResultIsHonest
<1>1. CASE Pump!Start
  <2>1. PICK o \in Pump!Ops : v8[o] = "idle" /\ v1' = o /\ v8' = [v8 EXCEPT ![o] = "works"]
    BY <1>1 DEF Pump!Start
  <2>2. UNCHANGED <<v4, v5, v6, v7, v10, v12, v13>> /\ v2' = TRUE /\ v3' = "running"
    BY <1>1 DEF Pump!Start
  <2>3. v10[o] = "none" /\ o \notin v12
    BY <2>1 DEF PumpInv, PumpSends
  <2>4. o # 0 /\ o \in v11'
    BY <1>1, <2>1, <2>3, <1>o DEF Pump!Start, Pump!Read
  <2>5. PumpTypes'
    BY <2>1, <2>2, <1>o, PumpAssumption DEF PumpInv, PumpTypes
  <2>6. PumpSends'
    BY <2>1, <2>2 DEF PumpInv, PumpTypes, PumpSends, Under
  <2>7. PumpReads' /\ Pump!ResultIsHonest'
    BY <2>1, <2>2, <2>3, <2>4 DEF PumpReads, Pump!ResultIsHonest
  <2> QED BY <2>5, <2>6, <2>7 DEF PumpInv
<1>2. CASE Pump!Abort \/ Pump!OtherMessage
  <2>1. v2 /\ v11' = (IF v1 = 0 \/ v1 \in v12 THEN v11 ELSE v11 \cup {v1}) /\ v3' \in {v3, "running"}
    BY <1>2 DEF Pump!Abort, Pump!OtherMessage, Pump!Read
  <2>2. UNCHANGED <<v1, v2, v4, v5, v6, v7, v8, v10, v12, v13>>
    BY <1>2 DEF Pump!Abort, Pump!OtherMessage
  <2>3. PumpReads' /\ Pump!ResultIsHonest'
    BY <2>1, <2>2 DEF PumpInv, PumpReads, Under, Pump!ResultIsHonest
  <2> QED BY <2>2, <2>3, PumpRests DEF PumpInv, PumpTypes
<1>3. CASE Pump!Acknowledge
  <2>1. v5' = Pump!Nothing /\ v3' = "list" /\ UNCHANGED <<v1, v2, v4, v6, v7, v8, v10, v11, v12, v13>>
    BY <1>3 DEF Pump!Acknowledge
  <2>2. PumpReads' /\ Pump!ResultIsHonest'
    BY <2>1 DEF PumpInv, PumpReads, Under, Pump!ResultIsHonest
  <2>3. v5' \in Results
    BY <2>1, PumpAssumption DEF Pump!Nothing, Results, Outcomes
  <2> QED BY <2>1, <2>2, <2>3, PumpRests DEF PumpInv, PumpTypes
\* A worker's message joins its channel.
<1>p. ASSUME NEW o \in Pump!Ops, NEW x \in Sendable, v6' = [v6 EXCEPT ![o] = Append(v6[o], x)], v13' = v13
      PROVE  /\ v6' \in [Pump!Ops -> Seq(Sendable)] /\ Under(o, x)'
             /\ \A p \in Pump!Ops : \A y \in Sendable : Under(p, y) => Under(p, y)'
             /\ \A p \in Pump!Ops : \A y \in Sendable : Under(p, y)' => Under(p, y) \/ (p = o /\ y = x)
  <2>1. v6[o] \in Seq(Sendable)
    BY DEF PumpInv, PumpTypes
  <2>2. /\ v6'[o] \in Seq(Sendable) /\ Holds(v6'[o], x) /\ \A y : Holds(v6[o], y) => Holds(v6'[o], y)
        /\ \A y : Holds(v6'[o], y) => Holds(v6[o], y) \/ y = x
    <3>1. v6'[o] = Append(v6[o], x)
      BY <1>p DEF PumpInv, PumpTypes
    <3> QED BY <2>1, <3>1, Joins, OnlyJoins
  <2>3. v6' \in [Pump!Ops -> Seq(Sendable)] /\ \A p \in Pump!Ops \ {o} : v6'[p] = v6[p]
    BY <1>p, <2>2 DEF PumpInv, PumpTypes
  <2> QED BY <1>p, <2>2, <2>3 DEF Under
<1>4. ASSUME NEW o \in Pump!Ops, Pump!SendProgress(o) PROVE PumpInv'
  <2>1. v8[o] = "works" /\ UNCHANGED <<v1, v2, v3, v4, v5, v7, v8, v10, v11, v12, v13>>
    BY <1>4 DEF Pump!SendProgress
  <2>2. CASE UNCHANGED v6
    BY <2>1, <2>2, PumpRests DEF PumpInv, PumpTypes, PumpReads, Under, Pump!ResultIsHonest
  <2>3. CASE v6' = [v6 EXCEPT ![o] = Append(v6[o], "progress")]
    <3>1. /\ v6' \in [Pump!Ops -> Seq(Sendable)]
          /\ \A p \in Pump!Ops : \A y \in Sendable : Under(p, y) => Under(p, y)'
          /\ \A p \in Pump!Ops : \A y \in Sendable : Under(p, y)' => Under(p, y) \/ y = "progress"
      <4>1. "progress" \in Sendable
        BY DEF Sendable
      <4> QED BY <2>1, <2>3, <4>1, <1>p
    <3>2. \A p \in v12 \cap Pump!Ops : v6'[p] = v6[p]
      <4>1. o \notin v12
        BY <2>1 DEF PumpInv, PumpSends
      <4> QED BY <2>3, <4>1 DEF PumpInv, PumpTypes
    <3>3. PumpSends'
      BY <2>1, <3>1, <3>2 DEF PumpInv, PumpSends, Tells
    <3>4. PumpReads'
      BY <2>1, <3>1, <1>o DEF PumpInv, PumpReads, PumpTypes
    <3> QED BY <2>1, <3>1, <3>3, <3>4 DEF PumpInv, PumpTypes, Pump!ResultIsHonest
  <2> QED BY <1>4, <2>2, <2>3 DEF Pump!SendProgress, Pump!Put, Pump!Progress
<1>5. ASSUME NEW o \in Pump!Ops, Pump!Finish(o) PROVE PumpInv'
  <2>1. /\ v8[o] = "works" /\ v8' = [v8 EXCEPT ![o] = "closes"]
        /\ UNCHANGED <<v1, v2, v3, v4, v5, v7, v11, v12, v13>>
    BY <1>5 DEF Pump!Finish
  <2>2. PICK end \in Sendable \ {"progress"} :
          /\ v6' = [v6 EXCEPT ![o] = Append(v6[o], end)]
          /\ v10' = [v10 EXCEPT ![o] = IF end = "error" THEN "failed" ELSE end]
    BY <1>5 DEF Pump!Finish, Pump!Put, Pump!Terminals, Pump!Error, Sendable
  <2>3. /\ v6' \in [Pump!Ops -> Seq(Sendable)] /\ Under(o, end)'
        /\ \A p \in Pump!Ops : \A y \in Sendable : Under(p, y) => Under(p, y)'
        /\ \A p \in Pump!Ops : \A y \in Sendable : Under(p, y)' => Under(p, y) \/ (p = o /\ y = end)
    BY <2>1, <2>2, <1>p
  <2>4. /\ v10' \in [Pump!Ops -> Outcomes] /\ v10'[o] # "none" /\ Tells(end, v10'[o])
        /\ \A p \in Pump!Ops \ {o} : v10'[p] = v10[p]
    BY <2>2 DEF PumpInv, PumpTypes, Outcomes, Sendable, Tells
  <2>5. v10[o] = "none" /\ o \notin v7 /\ o \notin v12
    BY <2>1 DEF PumpInv, PumpSends
  <2>6. v8' \in [Pump!Ops -> {"idle", "works", "closes", "ended"}] /\ v8'[o] = "closes"
        /\ \A p \in Pump!Ops \ {o} : v8'[p] = v8[p]
    BY <2>1 DEF PumpInv, PumpTypes
  <2>7. PumpTypes'
    BY <2>1, <2>3, <2>4, <2>6 DEF PumpInv, PumpTypes
  <2>8. PumpSends'
    <3>1. \A p \in Pump!Ops \ {o} : v6'[p] = v6[p]
      BY <2>2 DEF PumpInv, PumpTypes
    <3>2. \A x \in Sendable : Under(o, x) => x = "progress"
      BY <2>5 DEF PumpInv, PumpSends, Tells, Sendable
    <3>3. ASSUME NEW p \in Pump!Ops, NEW x \in Sendable, Under(p, x)' PROVE Tells(x, v10'[p])
      <4>1. CASE p = o
        BY <2>3, <2>4, <3>2, <3>3, <4>1 DEF Tells
      <4>2. CASE p # o
        BY <2>3, <2>4, <3>3, <4>2 DEF PumpInv, PumpSends
      <4> QED BY <4>1, <4>2
    <3>4. ASSUME NEW p \in Pump!Ops PROVE v8'[p] \in {"idle", "works"} <=> v10'[p] = "none"
      BY <2>4, <2>6 DEF PumpInv, PumpSends
    <3>5. ASSUME NEW p \in Pump!Ops
          PROVE  /\ p \in v7' => v8'[p] = "ended"
                 /\ p \in v12' => p \in v7' /\ v6'[p] = <<>>
                 /\ [op |-> p, msg |-> "close"] \in v13' => p \in v12'
      BY <2>1, <2>5, <2>6, <3>1 DEF PumpInv, PumpSends
    <3> QED BY <2>1, <3>3, <3>4, <3>5 DEF PumpInv, PumpSends
  <2>9. PumpReads'
    <3>1. v1 = o => \E x \in Sendable \ {"progress"} : Under(v1, x)'
      BY <2>1, <2>3
    <3>2. ASSUME v1 # 0, v1 # o, v10[v1] # "none"
          PROVE  v4 = v1 \/ \E x \in Sendable \ {"progress"} : Under(v1, x)'
      BY <2>1, <2>3, <3>2, <1>o DEF PumpInv, PumpTypes, PumpReads
    <3>3. v1 # 0 /\ v1 # o => v10'[v1] = v10[v1]
      BY <2>4, <1>o DEF PumpInv, PumpTypes
    <3> QED BY <2>1, <3>1, <3>2, <3>3 DEF PumpInv, PumpReads
  <2>10. Pump!ResultIsHonest'
    <3>1. v3 = "result" /\ v5.of # 0 => v5.of \in Pump!Ops /\ v5.of # o
      BY <2>5, <1>o DEF PumpInv, PumpTypes, Results, Pump!ResultIsHonest
    <3> QED BY <2>1, <2>4, <3>1 DEF PumpInv, Pump!ResultIsHonest
  <2> QED BY <2>7, <2>8, <2>9, <2>10 DEF PumpInv
<1>6. ASSUME NEW o \in Pump!Ops, Pump!CloseChannel(o) PROVE PumpInv'
  <2>1. /\ v8[o] = "closes" /\ v8' = [v8 EXCEPT ![o] = "ended"] /\ v7' = v7 \cup {o}
        /\ UNCHANGED <<v1, v2, v3, v4, v5, v6, v10, v11, v12, v13>>
    BY <1>6 DEF Pump!CloseChannel
  <2>2. PumpTypes' /\ PumpReads' /\ Pump!ResultIsHonest'
    BY <2>1 DEF PumpInv, PumpTypes, PumpReads, Under, Pump!ResultIsHonest
  <2>3. PumpSends'
    BY <2>1 DEF PumpInv, PumpTypes, PumpSends, Under
  <2> QED BY <2>2, <2>3 DEF PumpInv
<1>7. ASSUME NEW o \in Pump!Ops, Pump!Receive(o) PROVE PumpInv'
  <2>1. /\ ~\E m \in v13 : m.op = o
        /\ UNCHANGED <<v1, v2, v3, v4, v5, v7, v8, v10, v11>>
    BY <1>7 DEF Pump!Receive
  <2>2. CASE /\ v6[o] # <<>> /\ v6' = [v6 EXCEPT ![o] = Tail(v6[o])]
             /\ v13' = v13 \cup {[op |-> o, msg |-> Head(v6[o])]} /\ UNCHANGED v12
    <3> DEFINE a == [op |-> o, msg |-> Head(v6[o])]
    <3>1. /\ Tail(v6[o]) \in Seq(Sendable) /\ Head(v6[o]) \in Sendable /\ Holds(v6[o], Head(v6[o]))
          /\ \A x : Holds(v6[o], x) => x = Head(v6[o]) \/ Holds(Tail(v6[o]), x)
          /\ \A x : Holds(Tail(v6[o]), x) => Holds(v6[o], x)
      <4>1. v6[o] \in Seq(Sendable)
        BY DEF PumpInv, PumpTypes
      <4> QED BY <2>2, <4>1, Leaves, OnlyLeaves
    <3>2. v6' \in [Pump!Ops -> Seq(Sendable)] /\ v6'[o] = Tail(v6[o]) /\ \A p \in Pump!Ops \ {o} : v6'[p] = v6[p]
      BY <2>2, <3>1 DEF PumpInv, PumpTypes
    <3>3. a \in Arrival /\ a.op = o /\ a.msg \in Sendable
      BY <3>1 DEF Arrival
    <3>4. \A p \in Pump!Ops : \A x : [op |-> p, msg |-> x] = a => p = o /\ x = Head(v6[o])
      OBVIOUS
    <3>5. v13' = v13 \cup {a}
      BY <2>2
    <3> HIDE DEF a
    <3>6. \A p \in Pump!Ops : \A x \in Sendable : Under(p, x) <=> Under(p, x)'
      <4>1. ASSUME NEW p \in Pump!Ops \ {o}, NEW x \in Sendable PROVE Under(p, x) <=> Under(p, x)'
        BY <3>2, <3>4, <3>5 DEF Under
      <4>2. ASSUME NEW x \in Sendable PROVE Under(o, x) => Under(o, x)'
        <5>1. x = Head(v6[o]) => [op |-> o, msg |-> x] \in v13'
          BY <3>5 DEF a
        <5> QED BY <3>1, <3>2, <3>5, <5>1 DEF Under
      <4>3. ASSUME NEW x \in Sendable PROVE Under(o, x)' => Under(o, x)
        BY <3>1, <3>2, <3>4, <3>5 DEF Under
      <4> QED BY <4>1, <4>2, <4>3
    <3>7. PumpTypes'
      BY <2>1, <3>2, <3>3, <3>5 DEF PumpInv, PumpTypes
    <3>8. PumpSends'
      <4>1. o \notin v12
        BY <2>2 DEF PumpInv, PumpSends
      <4>2. \A m, n \in v13' : m.op = n.op => m = n
        BY <2>1, <3>3, <3>5 DEF PumpInv, PumpSends
      <4>3. \A p \in Pump!Ops : [op |-> p, msg |-> "close"] # a
        BY <3>1, <3>4 DEF Sendable
      <4> QED BY <2>1, <2>2, <3>2, <3>5, <3>6, <4>1, <4>2, <4>3 DEF PumpInv, PumpSends
    <3>9. PumpReads'
      BY <2>1, <2>2, <3>5, <3>6, <1>o DEF PumpInv, PumpReads, PumpTypes
    <3> QED BY <2>1, <3>7, <3>8, <3>9 DEF PumpInv, Pump!ResultIsHonest
  <2>3. CASE /\ v6[o] = <<>> /\ o \in v7 /\ UNCHANGED v6
             /\ v13' = v13 \cup {[op |-> o, msg |-> "close"]} /\ v12' = v12 \cup {o}
    <3> DEFINE a == [op |-> o, msg |-> "close"]
    <3>3. a \in Arrival /\ a.op = o
      BY DEF Arrival
    <3>4. \A p \in Pump!Ops : \A x : [op |-> p, msg |-> x] = a <=> p = o /\ x = "close"
      OBVIOUS
    <3>5. v13' = v13 \cup {a}
      BY <2>3
    <3> HIDE DEF a
    <3>6. \A p \in Pump!Ops : \A x \in Sendable : Under(p, x) <=> Under(p, x)'
      BY <2>3, <3>4, <3>5 DEF Under, Sendable
    <3>7. PumpTypes'
      BY <2>1, <2>3, <3>3, <3>5 DEF PumpInv, PumpTypes
    <3>8. PumpSends'
      <4>2. \A m, n \in v13' : m.op = n.op => m = n
        BY <2>1, <3>3, <3>5 DEF PumpInv, PumpSends
      <4> QED BY <2>1, <2>3, <3>4, <3>5, <3>6, <4>2 DEF PumpInv, PumpSends
    <3>9. PumpReads'
      <4>1. v1 = o => [op |-> v1, msg |-> "close"] \in v13'
        BY <2>3
      <4> QED BY <2>1, <2>3, <3>5, <3>6, <4>1, <1>o DEF PumpInv, PumpReads, PumpTypes
    <3> QED BY <2>1, <3>7, <3>8, <3>9 DEF PumpInv, Pump!ResultIsHonest
  <2> QED BY <1>7, <2>2, <2>3 DEF Pump!Receive, Pump!Close
<1>8. ASSUME NEW m \in v13, Pump!Take(m) PROVE PumpInv'
  <2>1. v13' = v13 \ {m} /\ UNCHANGED <<v6, v7, v8, v10, v12>>
    BY <1>8 DEF Pump!Take
  <2>2. m \in Arrival /\ m.op \in Pump!Ops /\ m = [op |-> m.op, msg |-> m.msg]
    BY DEF PumpInv, PumpTypes, Arrival
  <2>3. PumpSends'
    BY <2>1 DEF PumpInv, PumpSends, Under
  <2>s. ASSUME v1' \in 0..MaxDownloads, v5' \in Results, PumpReads', Pump!ResultIsHonest' PROVE PumpInv'
    BY <2>1, <2>3, <2>s DEF PumpInv, PumpTypes
  <2>4. CASE m.op # v1 /\ UNCHANGED <<v1, v2, v3, v4, v5, v11>>
    <3>1. \A x : [op |-> v1, msg |-> x] \in v13 => [op |-> v1, msg |-> x] \in v13'
      BY <2>1, <2>4
    <3>2. PumpReads'
      BY <2>1, <2>4, <3>1 DEF PumpInv, PumpReads, Under
    <3> QED BY <2>1, <2>4, <2>s, <3>2 DEF PumpInv, PumpTypes, Pump!ResultIsHonest
  <2> SUFFICES ASSUME m.op = v1 PROVE PumpInv'
    BY <1>8, <2>4 DEF Pump!Take
  <2>5. v1 # 0 /\ v2 /\ v1 \in Pump!Ops
    BY <2>2, <1>o DEF PumpInv, PumpReads
  <2>6. m.msg \in Sendable => v1 \notin v12 /\ Tells(m.msg, v10[v1])
    <3>1. ASSUME m.msg \in Sendable, v1 \in v12 PROVE FALSE
      <4>1. [op |-> v1, msg |-> "close"] \in v13
        BY <2>5, <3>1 DEF PumpInv, PumpReads
      <4>2. [op |-> v1, msg |-> "close"].op = m.op
        OBVIOUS
      <4>3. [op |-> v1, msg |-> "close"] = m
        BY <4>1, <4>2 DEF PumpInv, PumpSends
      <4> QED BY <3>1, <4>3 DEF Sendable
    <3>2. m.msg \in Sendable => Under(v1, m.msg)
      BY <2>2 DEF Under
    <3> QED BY <2>5, <3>1, <3>2 DEF PumpInv, PumpSends
  <2>7. CASE /\ m.msg = "progress" /\ v3' = "running" /\ UNCHANGED <<v1, v2, v4, v5>>
             /\ v11' = (IF v1 = 0 \/ v1 \in v12 THEN v11 \ {v1} ELSE (v11 \ {v1}) \cup {v1})
    <3>1. v1 \in v11' /\ v1 \notin v12'
      BY <2>1, <2>5, <2>6, <2>7 DEF Sendable
    <3>2. \A x \in Sendable \ {"progress"} : Under(v1, x) => Under(v1, x)'
      BY <2>1, <2>7 DEF Under
    <3>3. PumpReads'
      BY <2>1, <2>5, <2>7, <3>1, <3>2 DEF PumpInv, PumpReads
    <3> QED BY <2>7, <3>3, <2>s DEF PumpInv, PumpTypes, Pump!ResultIsHonest
  <2>8. CASE /\ m.msg = "error" /\ v4' = v1 /\ UNCHANGED <<v1, v2, v3, v5>>
             /\ v11' = (IF v1 = 0 \/ v1 \in v12 THEN v11 \ {v1} ELSE (v11 \ {v1}) \cup {v1})
    <3>1. v1 \in v11' /\ v1 \notin v12'
      BY <2>1, <2>5, <2>6, <2>8 DEF Sendable
    <3>3. PumpReads'
      BY <2>1, <2>5, <2>8, <3>1 DEF PumpInv, PumpReads
    <3> QED BY <2>1, <2>8, <3>3, <2>s DEF PumpInv, PumpTypes, Pump!ResultIsHonest
  <2>f. ASSUME NEW shows \in Outcomes \cup {"unfinished"}, Pump!Finalizes(shows), v10[v1] # "none",
               shows \in {"done", "aborted", "unfinished"} => v10[v1] = shows
        PROVE  PumpInv'
    <3>1. v2' = FALSE /\ v1' = 0 /\ v5' = [of |-> v1, shows |-> shows]
      BY <2>f DEF Pump!Finalizes
    <3>2. v5' \in Results /\ v5'.of = v1 /\ v5'.shows = shows
      BY <2>5, <3>1, <1>o DEF Results
    <3>3. PumpReads' /\ Pump!ResultIsHonest'
      BY <2>f, <2>1, <3>1, <3>2 DEF PumpReads, Pump!ResultIsHonest
    <3> QED BY <3>1, <3>2, <3>3, <2>s, PumpAssumption
  <2>9. CASE m.msg = "close" /\ Pump!Finalizes(IF v4 = 0 THEN "unfinished" ELSE "failed")
    <3>1. v1 \in v12 /\ v6[v1] = <<>> /\ v10[v1] # "none"
      BY <2>2, <2>5, <2>9 DEF PumpInv, PumpSends
    <3>2. ASSUME NEW x \in Sendable, Under(v1, x) PROVE FALSE
      <4>1. ~Holds(v6[v1], x)
        BY <3>1 DEF Holds
      <4>2. [op |-> v1, msg |-> x] \in v13
        BY <3>2, <4>1 DEF Under
      <4>3. [op |-> v1, msg |-> x] = m
        <5>1. [op |-> v1, msg |-> x].op = m.op
          OBVIOUS
        <5> QED BY <4>2, <5>1 DEF PumpInv, PumpSends
      <4> QED BY <2>9, <4>3 DEF Sendable
    <3>3. v4 = v1
      BY <2>5, <3>1, <3>2 DEF PumpInv, PumpReads
    <3>4. Pump!Finalizes("failed")
      BY <2>5, <2>9, <3>3
    <3> QED BY <2>f, <3>1, <3>4 DEF Outcomes
  <2>10. CASE /\ m.msg \in {"done", "aborted", "failed"}
              /\ Pump!Finalizes(IF m.msg = "done" /\ v4 # 0 THEN "failed" ELSE m.msg)
    <3>1. v10[v1] = m.msg
      BY <2>6, <2>10 DEF Sendable, Tells
    <3> DEFINE shows == IF m.msg = "done" /\ v4 # 0 THEN "failed" ELSE m.msg
    <3>2. /\ shows \in Outcomes \cup {"unfinished"} /\ v10[v1] # "none"
          /\ shows \in {"done", "aborted", "unfinished"} => v10[v1] = shows
      BY <2>10, <3>1 DEF Outcomes
    <3>3. Pump!Finalizes(shows)
      BY <2>10
    <3> HIDE DEF shows
    <3> QED BY <2>f, <3>2, <3>3
  <2> QED BY <1>8, <2>7, <2>8, <2>9, <2>10, <2>5 DEF Pump!Take, Pump!Read, Pump!Progress, Pump!Error, Pump!Close, Pump!Terminals
<1> QED BY <1>0, <1>1, <1>2, <1>3, <1>4, <1>5, <1>6, <1>7, <1>8 DEF Pump!DownloadPumpNext

\* And it implies what is checked.
LEMMA PumpSafe == ASSUME PumpInv PROVE Pump!AlwaysBeingRead /\ Pump!ResultIsHonest
<1>1. v1 \in v12 /\ v1 # 0 => \E m \in v13 : m.op = v1
  <2>1. [op |-> v1, msg |-> "close"].op = v1
    OBVIOUS
  <2> QED BY <2>1 DEF PumpInv, PumpReads
<1> QED BY <1>1 DEF PumpInv, PumpReads, Pump!AlwaysBeingRead

-----------------------------------------------------------------------------
(* SpotTable: v1 is stored, v2 book, v3 flying, v4 batches, v5 filter, v6 settling, v7 cached,
   v8 sortedBand, v9 ready, v10 shown, v11 cursor, v12 selected. *)

\* The cache holds every spot that passes its filters, and the table on the screen is the cache
\* of these filters.
Complete(c) == c.made => Table!Range(Table!Matches(v1[c.of], c.by)) \subseteq Table!Range(c.rows)

\* A spot on its way.
Flights == [stage : {"none", "store", "announce"}, of : Books \cup {None}, spot : Spots \cup {None}]

\* The inductive invariant.
TableInv ==
    /\ v2 \in Books /\ v3 \in Flights
    /\ Table!SelectedIsHighlighted
    /\ v9 => v10 = v7.rows /\ v7.made /\ v7.by = v5
    /\ v3.stage # "announce" => Complete(v7)

\* It holds at the start.
LEMMA TableStart == ASSUME Table!SpotInit PROVE TableInv
  BY DEF Table!SpotInit, Table!NoCache, Table!Nothing, Flights, TableInv, Complete, Table!SelectedIsHighlighted

\* Sorting loses no spot.
LEMMA SortKeepsSpots ==
  ASSUME NEW rows, NEW s \in Table!ByFrequency(rows)
  PROVE  Table!Range(rows) \subseteq Table!Range(s)
<1>1. PICK p \in Table!Bijection(DOMAIN rows, DOMAIN rows) : s = [i \in DOMAIN rows |-> rows[p[i]]]
  BY DEF Table!ByFrequency
<1>2. ASSUME NEW i \in DOMAIN rows PROVE rows[i] \in Table!Range(s)
  <2>1. PICK j \in DOMAIN rows : p[j] = i
    BY DEF Table!Bijection, Table!Surjection
  <2>2. j \in DOMAIN s /\ s[j] = rows[i]
    BY <1>1, <2>1
  <2> QED BY <2>2 DEF Table!Range
<1> QED BY <1>2 DEF Table!Range

\* A cache that was made again is complete.
LEMMA RequeryIsComplete ==
  ASSUME NEW sorted, NEW c \in Table!Requeried(sorted)
  PROVE  Complete(c) /\ c.made /\ c.by = v5 /\ c.of = v2
  BY SortKeepsSpots DEF Table!Requeried, Complete

\* Every step keeps it, and a rebuild keeps the call that was selected.
LEMMA TableStep ==
  ASSUME TableInv, [Table!SpotNext]_(Table!spotVars) PROVE TableInv' /\ Table!SelectionFollowsCall
<1>0. CASE UNCHANGED Table!spotVars
  BY <1>0 DEF Table!spotVars, TableInv, Complete, Table!SelectedIsHighlighted, Table!SelectionFollowsCall
<1>1. ASSUME NEW s \in Spots, Table!Drain(s) PROVE TableInv' /\ Table!SelectionFollowsCall
  BY <1>1 DEF Table!Drain, Flights, TableInv, Complete, Table!SelectedIsHighlighted, Table!SelectionFollowsCall
<1>2. ASSUME NEW f, Table!FilterKey(f) PROVE TableInv' /\ Table!SelectionFollowsCall
  BY <1>2 DEF Table!FilterKey, TableInv, Complete, Table!SelectedIsHighlighted, Table!SelectionFollowsCall
<1>3. ASSUME NEW i, Table!MoveCursor(i) PROVE TableInv' /\ Table!SelectionFollowsCall
  BY <1>3 DEF Table!MoveCursor, TableInv, Complete, Table!SelectedIsHighlighted, Table!SelectionFollowsCall
<1>4. ASSUME NEW b \in Books, Table!Switch(b) PROVE TableInv' /\ Table!SelectionFollowsCall
  BY <1>4 DEF Table!Switch, TableInv, Complete, Table!SelectedIsHighlighted, Table!SelectionFollowsCall
<1>5. CASE Table!Works
  <2>1. UNCHANGED <<v2, v5, v7, v9, v10, v11, v12>> /\ v3.stage = "store"
    BY <1>5 DEF Table!Works
  <2>2. CASE v3' = [v3 EXCEPT !.stage = "announce"]
    <3>1. v3' \in Flights /\ v3'.stage = "announce"
      BY <2>2 DEF TableInv, Flights
    <3> QED BY <2>1, <3>1 DEF TableInv, Table!SelectedIsHighlighted, Table!SelectionFollowsCall
  <2>3. CASE v3' = Table!Nothing /\ v1' = v1
    <3>1. v3' \in Flights
      BY <2>3 DEF TableInv, Flights, Table!Nothing
    <3> QED BY <2>1, <2>3, <3>1 DEF TableInv, Complete, Table!SelectedIsHighlighted, Table!SelectionFollowsCall
  <2> QED BY <1>5, <2>2, <2>3 DEF Table!Works
<1>6. CASE Table!Purge
  BY <1>6 DEF Table!Purge, TableInv, Complete, Table!SelectedIsHighlighted, Table!SelectionFollowsCall
<1>7. CASE Table!Announced
  BY <1>7, RequeryIsComplete DEF Table!Announced, Table!Filtered, Table!Valid, Table!NoCache, Table!Nothing, Flights, TableInv, Complete,
     Table!SelectedIsHighlighted, Table!SelectionFollowsCall
<1>8. CASE Table!Settles
  BY <1>8 DEF Table!Settles, TableInv, Complete, Table!SelectedIsHighlighted, Table!SelectionFollowsCall
<1>10. CASE Table!Open
  BY <1>10 DEF Table!Open, TableInv, Complete, Table!SelectedIsHighlighted, Table!SelectionFollowsCall
<1>9. CASE Table!Build
  <2>1. /\ Table!Filtered(v7, v8) /\ v10' = v7'.rows /\ v9' = TRUE /\ UNCHANGED <<v1, v2, v3, v5>>
        /\ v12' = IF v10' = <<>> THEN None ELSE v10'[v11']
    BY <1>9 DEF Table!Build
  <2>2. v7'.made /\ v7'.by = v5 /\ (v3.stage # "announce" => Complete(v7'))
    BY <2>1, RequeryIsComplete DEF Table!Filtered, Table!Valid, TableInv
  <2>3. TableInv'
    BY <2>1, <2>2 DEF TableInv, Complete, Table!SelectedIsHighlighted
  <2>4. ASSUME v12 # None, v12.call \in Table!CallsOf(v10') PROVE v12'.call = v12.call
    <3> DEFINE same == {i \in DOMAIN v10' : v12 # None /\ v10'[i].call = v12.call}
    <3>1. same # {} /\ v10' # <<>>
      BY <2>4 DEF Table!CallsOf
    <3>2. v11' \in same
      BY <1>9, <3>1 DEF Table!Build
    <3> QED BY <2>1, <3>1, <3>2
  <2> QED BY <2>3, <2>4 DEF Table!SelectionFollowsCall
<1> QED BY <1>0, <1>1, <1>2, <1>3, <1>4, <1>5, <1>6, <1>7, <1>8, <1>9, <1>10 DEF Table!SpotNext

\* And it implies what is checked.
LEMMA TableSafe == ASSUME TableInv PROVE Table!SelectedIsHighlighted /\ Table!NoSpotIsMissed
  BY DEF TableInv, Complete, Table!NoSpotIsMissed

-----------------------------------------------------------------------------
(* SettingsForms, its focus: v1 is menu, v2 opts, v3 row, v4 marker, v5 rev, v6 testing, v7 verdict. *)

\* The forms with rows that hide.
FormNames == {"integrations", "callbook", "chooser", "rig", "contest", "wstation", "wrig"}

\* The forms there are.
LEMMA FormsAre == DOMAIN Focus!Forms = FormNames
  BY DEF Focus!Forms, FormNames

\* The rows of each form.
LEMMA FormRows ==
  /\ Len(Focus!Forms["integrations"]) = 8 /\ Len(Focus!Forms["callbook"]) = 5 /\ Len(Focus!Forms["chooser"]) = 7
  /\ Len(Focus!Forms["rig"]) = 5 /\ Len(Focus!Forms["contest"]) = 3
  /\ Len(Focus!Forms["wstation"]) = 5 /\ Len(Focus!Forms["wrig"]) = 5
  /\ \A f \in FormNames : DOMAIN Focus!Forms[f] = 1..Len(Focus!Forms[f])
  /\ \A f \in FormNames : Focus!Forms[f][1].needs = {} /\ Focus!Forms[f][1].hides = {}
  BY DEF Focus!Forms, FormNames, Focus!StationRows, Focus!RigRows, Focus!Row, Focus!Always, Focus!In

\* A form's first row is always shown.
LEMMA FormIsOpen ==
  ASSUME NEW f \in FormNames
  PROVE  /\ Len(Focus!Forms[f]) \in Nat \ {0} /\ DOMAIN Focus!Forms[f] = 1..Len(Focus!Forms[f])
         /\ 1 \in DOMAIN Focus!Forms[f] /\ Focus!Forms[f][1].needs = {} /\ Focus!Forms[f][1].hides = {}
<1> DEFINE n == Len(Focus!Forms[f])
<1>1. n \in {3, 5, 7, 8}
  BY FormRows, Zenon DEF FormNames
<1> HIDE DEF n
<1>2. n \in Nat \ {0}
  BY <1>1
<1>3. DOMAIN Focus!Forms[f] = 1..n
  BY FormRows DEF n
<1>4. Focus!Forms[f][1].needs = {} /\ Focus!Forms[f][1].hides = {}
  BY FormRows
<1> QED BY <1>2, <1>3, <1>4 DEF n

\* A form's first row is shown.
LEMMA FirstIsShown ==
  ASSUME v1 \in FormNames, NEW on
  PROVE  /\ Len(Focus!Rows) \in Nat \ {0} /\ DOMAIN Focus!Rows = 1..Len(Focus!Rows)
         /\ Focus!Shown(on) \subseteq 1..Len(Focus!Rows) /\ 1 \in Focus!Shown(on)
  BY FormIsOpen DEF Focus!Rows, Focus!Shown

\* What Space changes in a form stays in sight.
LEMMA TogglesAreShown ==
  ASSUME NEW f \in {"chooser", "rig", "contest"}, NEW i \in DOMAIN Focus!Forms[f],
         Focus!Forms[f][i].kind \notin Focus!Fixed
  PROVE  Focus!Forms[f][i].needs = {} /\ Focus!Forms[f][i].hides = {}
<1> USE FormRows DEF FormNames, Focus!Fixed, Focus!Forms, Focus!StationRows, Focus!RigRows, Focus!Row, Focus!Always, Focus!In
<1>1. CASE f = "chooser"
  <2>1. i \in 1..7
    BY <1>1
  <2>2. CASE i \in 1..5
    BY <1>1, <2>2
  <2>3. CASE i \in 6..7
    BY <1>1, <2>3
  <2> QED BY <2>1, <2>2, <2>3
<1>2. CASE f = "rig"
  <2>1. i \in 1..5
    BY <1>2
  <2> QED BY <1>2, <2>1
<1>3. CASE f = "contest"
  <2>1. i \in 1..3
    BY <1>3
  <2> QED BY <1>3, <2>1
<1> QED BY <1>1, <1>2, <1>3

\* A slot round the form from i: what `steps` further on is.
LEMMA RoundIs ==
  ASSUME NEW n \in Nat \ {0}, NEW i \in 1..n, NEW s \in 0..n
  PROVE  Focus!Round(i, s, n) = IF i + s <= n THEN i + s ELSE i + s - n
<1>1. ASSUME NEW a \in 0..2 * n - 1 PROVE a % n = IF a < n THEN a ELSE a - n
  OBVIOUS
<1>2. i - 1 + s \in 0..2 * n - 1
  OBVIOUS
<1> QED BY <1>1, <1>2 DEF Focus!Round

\* The component's least and greatest are what their names say.
LEMMA FocusMin == ASSUME NEW S \in SUBSET Int, NEW x \in S, \A y \in S : x <= y PROVE Focus!Min(S) = x
<1>1. Focus!Min(S) \in S
  BY DEF Focus!Min
<1>2. \A w \in S : Focus!Min(S) <= w
  BY DEF Focus!Min
<1>3. Focus!Min(S) \in Int /\ x \in Int
  BY <1>1
<1> QED BY <1>1, <1>2, <1>3

\* And the greatest.
LEMMA FocusMax == ASSUME NEW S \in SUBSET Int, NEW x \in S, \A y \in S : x >= y PROVE Focus!Max(S) = x
<1>1. Focus!Max(S) \in S
  BY DEF Focus!Max
<1>2. \A w \in S : Focus!Max(S) >= w
  BY DEF Focus!Max
<1>3. Focus!Max(S) \in Int /\ x \in Int
  BY <1>1
<1> QED BY <1>1, <1>2, <1>3

\* A set of rows has a least and a greatest one.
LEMMA RowsAreBounded ==
  ASSUME NEW n \in Nat, NEW S \in SUBSET (0..n), S # {}
  PROVE  /\ Focus!Min(S) \in S /\ \A y \in S : Focus!Min(S) <= y
         /\ Focus!Max(S) \in S /\ \A y \in S : Focus!Max(S) >= y
<1>1. IsFiniteSet(0..n)
  BY FS_Interval
<1>2. PICK x \in S : \A y \in S : x <= y
  <2>1. IsFiniteSet(S)
    BY <1>1, FS_Subset
  <2>2. S \in SUBSET Int
    OBVIOUS
  <2> QED BY <2>1, <2>2, FirstOf
<1>3. PICK z \in S : \A y \in S : z >= y
  <2> DEFINE T == {n - y : y \in S}
  <2>1. T \in SUBSET Int /\ T \subseteq 0..n /\ T # {}
    OBVIOUS
  <2>2. IsFiniteSet(T)
    BY <1>1, <2>1, FS_Subset
  <2> HIDE DEF T
  <2>3. PICK t \in T : \A u \in T : t <= u
    BY <2>1, <2>2, FirstOf
  <2>4. PICK z \in S : t = n - z
    BY DEF T
  <2>5. ASSUME NEW y \in S PROVE z >= y
    <3>1. n - y \in T
      BY DEF T
    <3>2. n - z <= n - y
      BY <2>3, <2>4, <3>1
    <3> QED BY <3>2
  <2> QED BY <2>5
<1> QED BY <1>2, <1>3, FocusMin, FocusMax

\* The rows shown are rows of the form, and there are some.
LEMMA ShownRows ==
  ASSUME v1 \in FormNames, NEW on
  PROVE  /\ Focus!Min(Focus!Shown(on)) \in Focus!Shown(on)
         /\ Focus!Max(Focus!Shown(on)) \in Focus!Shown(on)
         /\ \A k \in Focus!Shown(on) : Focus!Min(Focus!Shown(on)) <= k /\ k <= Focus!Max(Focus!Shown(on))
<1> DEFINE n == Len(Focus!Rows)
           S == Focus!Shown(on)
<1>1. n \in Nat \ {0} /\ S \subseteq 1..n /\ 1 \in S
  BY FirstIsShown
<1> HIDE DEF n, S
<1>2. n \in Nat /\ S \in SUBSET (0..n) /\ S # {}
  BY <1>1
<1>3. /\ Focus!Min(S) \in S /\ \A y \in S : Focus!Min(S) <= y
      /\ Focus!Max(S) \in S /\ \A y \in S : Focus!Max(S) >= y
  BY <1>2, RowsAreBounded
<1>4. \A y \in S : y <= Focus!Max(S)
  BY <1>1, <1>3
<1> QED BY <1>3, <1>4 DEF S

\* The row after i is the nearest shown one below it, or else the first.
LEMMA AfterIsNext ==
  ASSUME v1 \in FormNames, NEW on, NEW i \in 1..Len(Focus!Rows)
  PROVE  /\ Focus!After(i, on) \in Focus!Shown(on)
         /\ \A k \in Focus!Shown(on) : k > i => i < Focus!After(i, on) /\ Focus!After(i, on) <= k
         /\ (\A k \in Focus!Shown(on) : k <= i) => \A k \in Focus!Shown(on) : Focus!After(i, on) <= k
<1> DEFINE n == Len(Focus!Rows)
           S == Focus!Shown(on)
           T == {s \in 1..n : Focus!Round(i, s, n) \in S}
           m == Focus!Min(T)
<1>1. n \in Nat \ {0} /\ S \subseteq 1..n /\ 1 \in S
  BY FirstIsShown
<1>2. Focus!After(i, on) = Focus!Round(i, m, n)
  BY DEF Focus!After
<1> HIDE DEF n, S
<1>3. i \in 1..n
  BY DEF n
<1>4. ASSUME NEW k \in S, k > i PROVE k - i \in T
  <2>1. k - i \in 1..n /\ i + (k - i) = k
    BY <1>1, <1>3, <1>4
  <2> QED BY <1>1, <1>3, <2>1, RoundIs
<1>5. ASSUME NEW k \in S, k <= i PROVE k + n - i \in T
  <2>1. k + n - i \in 1..n /\ i + (k + n - i) = k + n /\ k > 0
    BY <1>1, <1>3, <1>5
  <2> QED BY <1>1, <1>3, <2>1, RoundIs
<1>6. T # {} /\ T \subseteq 0..n
  BY <1>1, <1>3, <1>4, <1>5
<1>7. m \in T /\ \A s \in T : m <= s
  BY <1>1, <1>6, RowsAreBounded
<1> DEFINE a == Focus!Round(i, m, n)
<1>8. a \in S /\ m \in 1..n /\ a = IF i + m <= n THEN i + m ELSE i + m - n
  BY <1>1, <1>3, <1>7, RoundIs
<1> HIDE DEF T, m, a
<1>9. ASSUME NEW k \in S, k > i PROVE i < a /\ a <= k
  BY <1>1, <1>3, <1>4, <1>7, <1>8, <1>9
<1>10. ASSUME \A k \in S : k <= i, NEW k \in S PROVE a <= k
  <2>1. k <= i /\ a <= i
    BY <1>8, <1>10
  <2> QED BY <1>1, <1>3, <1>5, <1>7, <1>8, <2>1
<1> QED BY <1>2, <1>8, <1>9, <1>10 DEF S, a

\* The row before i is one that is shown.
LEMMA BeforeIsShown ==
  ASSUME v1 \in FormNames, NEW i \in 1..Len(Focus!Rows)
  PROVE  Focus!Before(i) \in Focus!Shown(v2)
<1> DEFINE n == Len(Focus!Rows)
           S == Focus!Shown(v2)
           T == {s \in 0..n - 1 : Focus!Round(i, s, n) \in S}
           m == Focus!Max(T)
<1>1. n \in Nat \ {0} /\ S \subseteq 1..n /\ 1 \in S
  BY FirstIsShown
<1>2. Focus!Before(i) = Focus!Round(i, m, n)
  BY DEF Focus!Before
<1> HIDE DEF n, S
<1>3. i \in 1..n
  BY DEF n
<1>4. T # {} /\ T \subseteq 0..n
  <2>1. CASE i = 1
    <3>1. Focus!Round(i, 0, n) = 1
      BY <1>1, <1>3, <2>1, RoundIs
    <3> QED BY <1>1, <3>1
  <2>2. CASE i # 1
    <3>1. n + 1 - i \in 0..n - 1 /\ i + (n + 1 - i) = n + 1
      BY <1>1, <1>3, <2>2
    <3>2. Focus!Round(i, n + 1 - i, n) = 1
      BY <1>1, <1>3, <3>1, RoundIs
    <3> QED BY <1>1, <3>1, <3>2
  <2> QED BY <1>1, <2>1, <2>2
<1>5. m \in T
  BY <1>1, <1>4, RowsAreBounded
<1> QED BY <1>2, <1>5 DEF S

\* A form is on one of its rows, which is shown and shows the focus, and the test of the
\* login looks at what is in the form.
FocusInv ==
    /\ v1 \in FormNames \cup {"list"} /\ v4 \in [FormNames -> Nat]
    /\ v1 # "list" => v3 \in 0..Len(Focus!Rows)
    /\ Focus!OneMarker /\ Focus!HiddenNeverFocused
    /\ v1 = "callbook" /\ v6 # 0 => v6 = v5

\* It holds at the start.
LEMMA FocusStart == ASSUME Focus!FocusInit PROVE FocusInv
<1>1. CASE v1 = "list"
  BY <1>1, FormsAre DEF Focus!FocusInit, FocusInv, Focus!OneMarker, Focus!HiddenNeverFocused, Focus!OwnFocus, Focus!Wizard
<1>2. CASE v1 = "wstation"
  <2>1. 1 \in 0..Len(Focus!Rows)
    BY <1>2, FirstIsShown DEF FormNames
  <2> QED BY <1>2, <2>1, FormsAre DEF Focus!FocusInit, FocusInv, Focus!OneMarker, Focus!HiddenNeverFocused, Focus!Wizard, FormNames
<1> QED BY <1>1, <1>2 DEF Focus!FocusInit

\* The focus goes to a row, and shows there.
LEMMA FocusMoves ==
  ASSUME FocusInv, v1 \in FormNames, NEW on, v2' = on, NEW i, i = 0 \/ i \in Focus!Shown(on), Focus!Focus(i), v1' = v1,
         v1' = "callbook" /\ v6' # 0 => v6' = v5'
  PROVE  FocusInv'
<1>1. v3' = i /\ i \in 0..Len(Focus!Rows)
  BY FirstIsShown DEF Focus!Focus
<1>2. v4' \in [FormNames -> Nat] /\ (v1 \in Focus!OwnFocus => v4'[v1] = i)
  BY <1>1 DEF Focus!Focus, FocusInv
<1>3. v1' # "list" => v3' \in 0..Len(Focus!Rows)'
  BY <1>1 DEF Focus!Rows
<1>4. Focus!OneMarker' /\ Focus!HiddenNeverFocused'
  <2>1. i = 0 \/ i \in Focus!Shown(v2)'
    BY DEF Focus!Shown, Focus!Rows
  <2> QED BY <1>1, <1>2, <2>1 DEF Focus!OneMarker, Focus!HiddenNeverFocused
<1> QED BY <1>2, <1>3, <1>4 DEF FocusInv

\* Nothing of the focus moves, and what was in sight stays.
LEMMA FocusStays ==
  ASSUME FocusInv, UNCHANGED <<v1, v3, v4>>, v1' = "callbook" /\ v6' # 0 => v6' = v5',
         v1 \notin Focus!Wizard \cup {"list"} /\ v3 # 0 => v3 \in Focus!Shown(v2)'
  PROVE  FocusInv'
  BY DEF FocusInv, Focus!OneMarker, Focus!HiddenNeverFocused, Focus!Rows

\* Every step keeps it.
LEMMA FocusStep ==
  ASSUME FocusInv, [Focus!FocusNext]_(Focus!focusVars)
  PROVE  FocusInv' /\ Focus!VerdictIsForForm
<1>k. Focus!Keys => v1 \in FormNames /\ (v1 = "callbook" => v6 = 0) /\ v3 \in 0..Len(Focus!Rows)
  BY DEF Focus!Keys, FocusInv
<1>s. v1 \notin Focus!Wizard \cup {"list"} /\ v3 # 0 => v3 \in Focus!Shown(v2)
  BY DEF FocusInv, Focus!HiddenNeverFocused
<1>0. ASSUME UNCHANGED <<v1, v2, v3, v4, v5, v6>> PROVE FocusInv'
  BY <1>0 DEF FocusInv, Focus!OneMarker, Focus!HiddenNeverFocused, Focus!Rows, Focus!Shown
\* All but the answer of a test, the opening and the leaving of a form keep the verdict.
<1>v. ASSUME v7' = v7 \/ v1' # "callbook" \/ v1' # v1 PROVE Focus!VerdictIsForForm
  BY <1>v DEF Focus!VerdictIsForForm
<1>1. CASE Focus!Tab
  <2> DEFINE i == IF v3 = 0 THEN Focus!Min(Focus!Shown(v2)) ELSE IF v3 = Focus!Max(Focus!Shown(v2)) THEN 0 ELSE Focus!After(v3, v2)
  <2>1. Focus!Focus(i) /\ UNCHANGED <<v1, v2, v5, v6, v7>> /\ Focus!Keys
    BY <1>1 DEF Focus!Tab
  <2>2. Focus!Min(Focus!Shown(v2)) \in Focus!Shown(v2)
    BY <1>k, <2>1, ShownRows
  <2>3. v3 # 0 => Focus!After(v3, v2) \in Focus!Shown(v2)
    BY <1>k, <2>1, AfterIsNext
  <2>4. i = 0 \/ i \in Focus!Shown(v2)
    BY <2>2, <2>3
  <2> HIDE DEF i
  <2> QED BY <1>k, <1>v, <2>1, <2>4, FocusMoves DEF FocusInv
<1>2. CASE Focus!BackTab
  <2> DEFINE i == IF v3 = 0 THEN Focus!Max(Focus!Shown(v2)) ELSE IF v3 = Focus!Min(Focus!Shown(v2)) THEN 0 ELSE Focus!Before(v3)
  <2>1. Focus!Focus(i) /\ UNCHANGED <<v1, v2, v5, v6, v7>> /\ Focus!Keys
    BY <1>2 DEF Focus!BackTab
  <2>2. Focus!Max(Focus!Shown(v2)) \in Focus!Shown(v2)
    BY <1>k, <2>1, ShownRows
  <2>3. v3 # 0 => Focus!Before(v3) \in Focus!Shown(v2)
    BY <1>k, <2>1, BeforeIsShown
  <2>4. i = 0 \/ i \in Focus!Shown(v2)
    BY <2>2, <2>3
  <2> HIDE DEF i
  <2> QED BY <1>k, <1>v, <2>1, <2>4, FocusMoves DEF FocusInv
<1>3. CASE Focus!EnterNext
  <2>1. Focus!Focus(Focus!After(v3, v2)) /\ UNCHANGED <<v1, v2, v5, v6, v7>> /\ Focus!Keys /\ v3 # 0
    BY <1>3 DEF Focus!EnterNext
  <2>2. Focus!After(v3, v2) \in Focus!Shown(v2)
    BY <1>k, <2>1, AfterIsNext
  <2> QED BY <1>k, <1>v, <2>1, <2>2, FocusMoves DEF FocusInv
<1>4. CASE Focus!Toggle
  <2>1. Focus!Keys /\ v3 # 0 /\ Focus!Rows[v3].kind \notin Focus!Fixed /\ UNCHANGED <<v1, v6, v7>>
    BY <1>4 DEF Focus!Toggle
  <2>2. PICK on : /\ v2' = on
                  /\ IF v1 \in {"integrations", "callbook"} THEN Focus!FixFocus(on) ELSE UNCHANGED <<v3, v4>>
    BY <1>4 DEF Focus!Toggle
  <2>t. v1' = "callbook" /\ v6' # 0 => v6' = v5'
    BY <1>k, <2>1
  <2>3. CASE v1 \in {"integrations", "callbook"} /\ v3 \notin Focus!Shown(on)
    <3>1. Focus!Focus(Focus!After(v3, on))
      BY <2>2, <2>3 DEF Focus!FixFocus
    <3>2. Focus!After(v3, on) \in Focus!Shown(on)
      BY <1>k, <2>1, AfterIsNext
    <3> QED BY <1>k, <1>v, <2>1, <2>2, <2>t, <3>1, <3>2, FocusMoves
  <2>4. CASE ~(v1 \in {"integrations", "callbook"} /\ v3 \notin Focus!Shown(on))
    <3>1. UNCHANGED <<v3, v4>>
      BY <2>2, <2>4 DEF Focus!FixFocus
    <3>2. v1 \notin Focus!Wizard => v3 \in Focus!Shown(on)
      <4>1. CASE v1 \in {"chooser", "rig", "contest"}
        <5>1. v3 \in DOMAIN Focus!Forms[v1]
          BY <1>k, <2>1, FirstIsShown DEF Focus!Rows
        <5>2. Focus!Forms[v1][v3].needs = {} /\ Focus!Forms[v1][v3].hides = {}
          BY <2>1, <4>1, <5>1, TogglesAreShown DEF Focus!Rows
        <5> QED BY <5>1, <5>2 DEF Focus!Shown, Focus!Rows
      <4> QED BY <1>k, <2>1, <2>4, <4>1 DEF FormNames, Focus!Wizard
    <3>3. v1 \notin Focus!Wizard => v3 \in Focus!Shown(v2)'
      BY <2>1, <2>2, <3>2 DEF Focus!Shown, Focus!Rows
    <3> QED BY <1>v, <2>1, <2>t, <3>1, <3>3, FocusStays
  <2> QED BY <2>3, <2>4
<1>5. CASE Focus!Type
  <2>1. UNCHANGED <<v1, v2, v3, v4, v6, v7>> /\ Focus!Keys
    BY <1>5 DEF Focus!Type
  <2>2. v1 \notin Focus!Wizard \cup {"list"} /\ v3 # 0 => v3 \in Focus!Shown(v2)'
    BY <1>s, <2>1 DEF Focus!Shown, Focus!Rows
  <2> QED BY <1>k, <1>v, <2>1, <2>2, FocusStays
<1>6. CASE Focus!Test
  <2>1. UNCHANGED <<v1, v2, v3, v4, v5, v7>> /\ v6' = v5
    BY <1>6 DEF Focus!Test
  <2>2. v1 \notin Focus!Wizard \cup {"list"} /\ v3 # 0 => v3 \in Focus!Shown(v2)'
    BY <1>s, <2>1 DEF Focus!Shown, Focus!Rows
  <2> QED BY <1>v, <2>1, <2>2, FocusStays
<1>7. CASE Focus!Answered
  <2>1. UNCHANGED <<v1, v2, v3, v4, v5>> /\ v6 # 0 /\ v7' = v6 /\ v6' = 0
    BY <1>7 DEF Focus!Answered
  <2>2. v1 \notin Focus!Wizard \cup {"list"} /\ v3 # 0 => v3 \in Focus!Shown(v2)'
    BY <1>s, <2>1 DEF Focus!Shown, Focus!Rows
  <2>3. Focus!VerdictIsForForm
    BY <2>1 DEF FocusInv, Focus!VerdictIsForForm
  <2> QED BY <2>1, <2>2, <2>3, FocusStays
<1>8. CASE Focus!Advanced
  <2>1. UNCHANGED <<v1, v3, v4, v5, v6, v7>> /\ v1 = "wstation"
    BY <1>8 DEF Focus!Advanced
  <2> QED BY <1>v, <2>1, FocusStays DEF Focus!Wizard
<1>9. CASE Focus!Leave
  <2>1. v1' = "list" /\ v4' = [v4 EXCEPT ![v1] = 0] /\ v1 # "list"
    BY <1>9 DEF Focus!Leave, Focus!Keys
  <2>2. FocusInv'
    BY <2>1 DEF FocusInv, Focus!OneMarker, Focus!HiddenNeverFocused, Focus!OwnFocus, Focus!Wizard
  <2> QED BY <1>v, <2>1, <2>2
<1>10. CASE Focus!WizardStep
  <2>1. v1' \in Focus!Wizard /\ v3' = 1 /\ UNCHANGED <<v4, v7>>
    BY <1>10 DEF Focus!WizardStep, Focus!Reset
  <2>2. 1 \in 0..Len(Focus!Rows)'
    <3>1. v1' \in FormNames
      BY <2>1 DEF Focus!Wizard, FormNames
    <3>2. Len(Focus!Forms[v1']) \in Nat \ {0}
      BY <3>1, FormIsOpen
    <3> QED BY <3>2 DEF Focus!Rows
  <2>3. FocusInv'
    BY <2>1, <2>2 DEF FocusInv, Focus!OneMarker, Focus!HiddenNeverFocused, Focus!Wizard, FormNames
  <2> QED BY <1>v, <2>1, <2>3
<1>11. ASSUME v1 = "list", NEW f \in FormNames, NEW on, Focus!Open(f, on) PROVE FocusInv' /\ Focus!VerdictIsForForm
  <2>1. /\ v1' = f /\ v3' = 1 /\ v6' = 0
        /\ v4' = [v4 EXCEPT ![f] = IF f \in Focus!OwnFocus THEN 1 ELSE 0]
    BY <1>11 DEF Focus!Open, Focus!Reset
  <2>2. 1 \in 0..Len(Focus!Rows)' /\ 1 \in Focus!Shown(v2)'
    <3>1. Len(Focus!Forms[f]) \in Nat \ {0} /\ 1 \in DOMAIN Focus!Forms[f] /\ Focus!Forms[f][1].needs = {} /\ Focus!Forms[f][1].hides = {}
      BY FormIsOpen
    <3> QED BY <2>1, <3>1 DEF Focus!Rows, Focus!Shown
  <2>3. FocusInv'
    BY <2>1, <2>2 DEF FocusInv, Focus!OneMarker, Focus!HiddenNeverFocused
  <2>4. f # "list"
    BY DEF FormNames
  <2> QED BY <1>11, <1>v, <2>1, <2>3, <2>4
<1>12. CASE UNCHANGED Focus!focusVars
  BY <1>0, <1>v, <1>12 DEF Focus!focusVars
<1> QED BY <1>1, <1>2, <1>3, <1>4, <1>5, <1>6, <1>7, <1>8, <1>9, <1>10, <1>11, <1>12, FormsAre DEF Focus!FocusNext

\* And it implies what is checked.
LEMMA FocusSafe == ASSUME FocusInv PROVE Focus!OneMarker /\ Focus!HiddenNeverFocused /\ Focus!AllReachable
<1> DEFINE S == Focus!Shown(v2)
           least == Focus!Min(S)
           greatest == Focus!Max(S)
           tab(j) == IF j = 0 THEN least ELSE IF j = greatest THEN 0 ELSE Focus!After(j, v2)
<1> SUFFICES ASSUME v1 # "list", NEW seen \in SUBSET (S \cup {0, v3}), v3 \in seen, \A j \in seen : tab(j) \in seen
             PROVE  S \cup {0} \subseteq seen
  BY DEF FocusInv, Focus!AllReachable
<1>1. v1 \in FormNames /\ v3 \in 0..Len(Focus!Rows)
  BY DEF FocusInv
<1>2. /\ least \in S /\ greatest \in S /\ \A k \in S : least <= k /\ k <= greatest
  BY <1>1, ShownRows
<1>3. PICK n \in Nat : n = Len(Focus!Rows) /\ S \subseteq 1..n
  BY <1>1, FirstIsShown
\* Tab goes from a row to the nearest one shown below it.
<1>4. ASSUME NEW i \in seen, i # 0, i # greatest, NEW k \in S, k > i
      PROVE  tab(i) \in S /\ tab(i) > i /\ tab(i) <= k
  <2>1. i \in 1..Len(Focus!Rows)
    BY <1>1, <1>3, <1>4
  <2>2. Focus!After(i, v2) \in S /\ i < Focus!After(i, v2) /\ Focus!After(i, v2) <= k
    BY <1>1, <1>4, <2>1, AfterIsNext
  <2>3. tab(i) = Focus!After(i, v2)
    BY <1>4
  <2>4. Focus!After(i, v2) \in Int /\ i \in Int
    BY <1>3, <2>1, <2>2
  <2> HIDE DEF tab
  <2> QED BY <2>2, <2>3, <2>4
<1>5. ASSUME NEW i \in seen, i # 0 PROVE tab(i) = 0 \/ tab(i) \in S
  <2>1. i \in 1..Len(Focus!Rows)
    BY <1>1, <1>3, <1>5
  <2> QED BY <1>1, <2>1, AfterIsNext
<1>6. tab(0) = least
  OBVIOUS
<1>g. greatest # 0 /\ tab(greatest) = 0
  BY <1>2, <1>3
<1> HIDE DEF S, least, greatest, tab
<1>i. \A k \in S : k \in Int /\ k > 0 /\ k \in 0..n
  BY <1>3
\* It comes to the button: the greatest row it goes to cannot be followed by another.
<1>7. 0 \in seen
  <2> SUFFICES ASSUME 0 \notin seen PROVE FALSE
    OBVIOUS
  <2>1. tab(v3) \in S \cap seen
    BY <1>5
  <2>2. S \cap seen \in SUBSET (0..n) /\ S \cap seen # {}
    BY <1>3, <2>1
  <2>3. PICK m \in S \cap seen : \A k \in S \cap seen : m >= k
    BY <2>2, RowsAreBounded
  <2>4. CASE m = greatest
    BY <1>g, <2>3, <2>4
  <2>5. CASE m # greatest
    <3>1. greatest > m /\ m # 0
      BY <1>2, <1>3, <2>3, <2>5
    <3>2. tab(m) \in S /\ tab(m) > m
      BY <1>2, <1>4, <2>3, <2>5, <3>1
    <3>3. m \in Int /\ tab(m) \in Int
      BY <1>i, <2>3, <3>2
    <3>4. tab(m) \in seen
      BY <2>3
    <3>5. m >= tab(m)
      BY <2>3, <3>2, <3>4
    <3> QED BY <3>2, <3>3, <3>5
  <2> QED BY <2>4, <2>5
\* And from there to every row: the least it misses follows one it does not.
<1>8. S \subseteq seen
  <2> SUFFICES ASSUME S \ seen # {} PROVE FALSE
    OBVIOUS
  <2>0. S \ seen \in SUBSET (0..n)
    BY <1>i
  <2>1. PICK d \in S \ seen : \A k \in S \ seen : d <= k
    BY <2>0, RowsAreBounded
  <2>2. least \in seen /\ least < d
    <3>1. least \in seen
      BY <1>6, <1>7
    <3>2. least <= d /\ least # d /\ least \in Int /\ d \in Int
      BY <1>2, <1>3, <2>1, <3>1
    <3> QED BY <3>1, <3>2
  <2> DEFINE Below == {k \in S : k < d}
  <2>3. Below \in SUBSET (0..n) /\ Below # {}
    BY <1>2, <1>i, <2>2
  <2>4. PICK e \in Below : \A k \in Below : e >= k
    BY <2>3, RowsAreBounded
  <2>5. e \in S /\ e < d /\ e \in seen /\ e # 0 /\ e # greatest
    <3>1. e \in S /\ e < d /\ e \in Int /\ d \in Int /\ e # 0
      BY <1>3, <2>1, <2>4
    <3>2. e \in seen
      BY <2>1, <3>1
    <3>3. greatest >= d /\ greatest \in Int
      BY <1>2, <1>3, <2>1
    <3> QED BY <3>1, <3>2, <3>3
  <2>6. tab(e) \in S /\ tab(e) > e /\ tab(e) <= d
    BY <1>4, <2>1, <2>5
  <2>7. tab(e) \in seen
    BY <2>5
  <2>8. tab(e) # d /\ tab(e) \in Int /\ d \in Int /\ e \in Int
    BY <1>i, <2>1, <2>5, <2>6, <2>7
  <2>9. tab(e) \in Below
    BY <2>6, <2>8
  <2> QED BY <2>4, <2>6, <2>8, <2>9
<1> QED BY <1>7, <1>8 DEF FocusInv

-----------------------------------------------------------------------------
(* SettingsForms, its stations: v1 is config, v2 editing, v3 form, v4 list, v5 chosen, v6 wanted, v7 fetches,
   v8 profiles, v9 failed, v10 forms. *)

\* A station form is its three fields.
IsForm(f) == f = [server |-> f.server, station |-> f.station, profile |-> f.profile]

\* The inductive invariant.
PickerInv == IsForm(v3) /\ Picker!ListIsOfForm /\ Picker!ProfileIsOfChosen

\* It holds at the start.
LEMMA PickerStart == ASSUME Picker!PickerInit PROVE PickerInv
  BY DEF Picker!PickerInit, PickerInv, IsForm, Picker!ListIsOfForm, Picker!ProfileIsOfChosen

\* The station chosen is that of the form, and its profile is on the way or known to be lost.
LEMMA ChooseKeeps ==
  ASSUME PickerInv, NEW s, NEW id, Picker!Choose(s, id), v4' = s
  PROVE  PickerInv'
<1>1. v5' = id /\ v9' = (v3.server = None) /\ v3' = [v3 EXCEPT !.station = [server |-> s, id |-> id]]
  BY DEF Picker!Choose
<1>2. IsForm(v3') /\ v3'.station = [server |-> s, id |-> id]
  BY <1>1 DEF PickerInv, IsForm
<1>3. CASE v3.server = None
  BY <1>1, <1>2, <1>3 DEF PickerInv, Picker!ListIsOfForm, Picker!ProfileIsOfChosen
<1>4. CASE v3.server # None
  <2>1. [server |-> v3.server, id |-> id] \in v8'
    BY <1>4 DEF Picker!Choose, Picker!AskProfile
  <2> QED BY <1>1, <1>2, <2>1 DEF PickerInv, Picker!ListIsOfForm, Picker!ProfileIsOfChosen
<1> QED BY <1>3, <1>4

\* A form that is opened lists nothing.
LEMMA LoadKeeps == ASSUME NEW b, Picker!Load(b) PROVE PickerInv'
<1>1. v3' = [server |-> v1[b].server, station |-> v1[b].station, profile |-> Picker!Own] /\ v4' = None
  BY DEF Picker!Load
<1>2. IsForm(v3')
  BY <1>1 DEF IsForm
<1> QED BY <1>1, <1>2 DEF PickerInv, Picker!ListIsOfForm, Picker!ProfileIsOfChosen

\* Every step keeps it.
LEMMA PickerStep == ASSUME PickerInv, [Picker!PickerNext]_(Picker!pickVars) PROVE PickerInv'
<1>0. CASE UNCHANGED <<v3, v4, v5, v8, v9>>
  BY <1>0 DEF PickerInv, IsForm, Picker!ListIsOfForm, Picker!ProfileIsOfChosen
<1>1. ASSUME NEW b, Picker!StartEdit(b) \/ Picker!Duplicate(b) PROVE PickerInv'
  BY <1>1, LoadKeeps DEF Picker!StartEdit, Picker!Duplicate
<1>2. ASSUME (\E b : Picker!Save(b)) \/ Picker!Cancel \/ Picker!PressUpdate \/ UNCHANGED Picker!pickVars PROVE PickerInv'
  BY <1>0, <1>2 DEF Picker!Save, Picker!Cancel, Picker!PressUpdate, Picker!pickVars
<1>3. ASSUME NEW s, Picker!TypeServer(s) PROVE PickerInv'
  <2>1. v3' = [v3 EXCEPT !.server = s] /\ UNCHANGED <<v4, v5, v8, v9>>
    BY <1>3 DEF Picker!TypeServer
  <2>2. IsForm(v3') /\ v3'.station = v3.station /\ v3'.profile = v3.profile
    BY <2>1 DEF PickerInv, IsForm
  <2> QED BY <2>1, <2>2 DEF PickerInv, Picker!ListIsOfForm, Picker!ProfileIsOfChosen
<1>4. ASSUME NEW s, Picker!ListArrives(s) PROVE PickerInv'
  BY <1>4, ChooseKeeps DEF Picker!ListArrives
<1>5. ASSUME NEW s, Picker!ListFails(s) PROVE PickerInv'
  BY <1>5 DEF Picker!ListFails, PickerInv, IsForm, Picker!ListIsOfForm, Picker!ProfileIsOfChosen
<1>6. ASSUME NEW p \in v8, Picker!ProfileArrives(p) PROVE PickerInv'
  <2>1. v8' = v8 \ {p} /\ UNCHANGED <<v4, v5, v9>> /\ v3' = IF Picker!IsChosen(p) THEN [v3 EXCEPT !.profile = p] ELSE v3
    BY <1>6 DEF Picker!ProfileArrives
  <2>2. CASE Picker!IsChosen(p)
    <3>1. IsForm(v3') /\ v3'.station = v3.station /\ v3'.profile = p
      BY <2>1, <2>2 DEF PickerInv, IsForm
    <3> QED BY <2>1, <2>2, <3>1 DEF PickerInv, Picker!IsChosen, Picker!ListIsOfForm, Picker!ProfileIsOfChosen
  <2>3. CASE ~Picker!IsChosen(p)
    BY <2>1, <2>3 DEF PickerInv, IsForm, Picker!IsChosen, Picker!ListIsOfForm, Picker!ProfileIsOfChosen
  <2> QED BY <2>2, <2>3
<1>7. ASSUME NEW p \in v8, Picker!ProfileFails(p) PROVE PickerInv'
  BY <1>7 DEF Picker!ProfileFails, PickerInv, IsForm, Picker!IsChosen, Picker!ListIsOfForm, Picker!ProfileIsOfChosen
<1>8. CASE Picker!StartCreate
  <2>1. v3' = [v3 EXCEPT !.profile = Picker!Nothing] /\ UNCHANGED <<v4, v5, v8, v9>>
    BY <1>8 DEF Picker!StartCreate
  <2>2. IsForm(v3') /\ v3'.station = v3.station /\ v3'.profile = Picker!Nothing
    BY <2>1 DEF PickerInv, IsForm
  <2>3. ~Picker!IsStation(Picker!Nothing)
    BY PickerAssumption DEF Picker!IsStation, Picker!Nothing
  <2> QED BY <2>1, <2>2, <2>3 DEF PickerInv, Picker!ListIsOfForm, Picker!ProfileIsOfChosen
<1>9. CASE Picker!Cycle
  BY <1>9, ChooseKeeps DEF Picker!Cycle
<1> QED BY <1>1, <1>2, <1>3, <1>4, <1>5, <1>6, <1>7, <1>8, <1>9 DEF Picker!PickerNext

\* And it implies what is checked.
LEMMA PickerSafe == ASSUME PickerInv PROVE Picker!ListIsOfForm /\ Picker!ProfileIsOfChosen
  BY DEF PickerInv

-----------------------------------------------------------------------------
(* PSKReporter: v1 is book, v2 station, v3 onScreen, v4 enabled, v5 fetching, v6 flight, v7 fetched, v8 lastCall,
   v9 stamps, v10 cache, v11 asked, v12 again, v13 table, v14 spots, v15 key, v16 need, v17 load, v18 crashed,
   v19 left. *)

\* A load of the reports.
Loading == [stage : {"none", "query", "rows"}, call : Calls \cup {None}, of : Books \cup {None}, rows : SUBSET PSK!Report]

\* The spots that are loaded or shown are stored under the callsign they are for, and what
\* was answered in these minutes is in a young cache file; or it could not be written, no
\* fetch is under way, and the memory of the fetch stands for it.
PSKInv ==
    /\ v1 \in Books /\ v2 \in [Books -> Calls] /\ v13 \in [Books -> SUBSET PSK!Report]
    /\ v6 \in Calls \cup {None} /\ v16 \in Calls \cup {None} /\ v17 \in Loading
    /\ v17.stage # "none" => v17.of \in Books
    /\ v17.stage = "rows" => \A s \in v17.rows : s.under = v17.call
    /\ PSK!SpotsMatchKey
    /\ v6 # None => v11 \subseteq v10.young
    /\ \A c \in v11 \ v10.young : c = v8 /\ v7 /\ c \in v9.new
    /\ v10 \in [files : SUBSET Calls, young : SUBSET Calls]
    /\ v9 \in [made : BOOLEAN, known : SUBSET Calls, new : SUBSET Calls] /\ v7 \in BOOLEAN /\ v12 = FALSE

\* It holds at the start.
LEMMA PSKStart == ASSUME PSK!PSKInit PROVE PSKInv
<1>1. v10 \in [files : SUBSET Calls, young : SUBSET Calls] /\ v9 \in [made : BOOLEAN, known : SUBSET Calls, new : SUBSET Calls]
  <2>1. PICK old \in SUBSET Calls : v10 = [files |-> old, young |-> {}]
    BY DEF PSK!PSKInit
  <2>2. v10 \in [files : SUBSET Calls, young : SUBSET Calls]
    BY <2>1
  <2>3. v9 = [PSK!NoStamps EXCEPT !.made = TRUE]
    BY DEF PSK!PSKInit
  <2>4. v9 = [made |-> TRUE, known |-> {}, new |-> {}]
    BY <2>3 DEF PSK!NoStamps
  <2> QED BY <2>2, <2>4
<1>2. v17 \in Loading /\ v17.stage = "none"
  BY DEF PSK!PSKInit, Loading, PSK!NoLoad
<1> QED BY <1>1, <1>2 DEF PSK!PSKInit, PSKInv, PSK!SpotsMatchKey

\* Every step keeps it.
LEMMA PSKStep == ASSUME PSKInv, [PSK!PSKNext]_(PSK!pskVars) PROVE PSKInv'
<1> USE DEF PSKInv, PSK!SpotsMatchKey, PSK!desk, PSK!fetch, PSK!server, PSK!view
<1>a. v2[v1] \in Calls
  OBVIOUS
<1>0. CASE UNCHANGED PSK!pskVars
  BY <1>0 DEF PSK!pskVars
<1>1. CASE PSK!Update
  <2>1. (v15' = v15 /\ v14' = v14) \/ (v15' = None /\ v14' = {})
    BY <1>1 DEF PSK!Update
  <2>2. v6' \in Calls \cup {None}
    BY <1>1, <1>a DEF PSK!Update, PSK!Call
  <2>3. UNCHANGED <<v1, v2, v10, v12, v13, v16, v17>>
    BY <1>1 DEF PSK!Update
  <2>4. v9' = [v9 EXCEPT !.made = TRUE] /\ v8' = v2[v1] /\ v7' = (v7 /\ v2[v1] = v8)
    BY <1>1 DEF PSK!Update, PSK!Changed, PSK!Call
  <2>5. v9' \in [made : BOOLEAN, known : SUBSET Calls, new : SUBSET Calls] /\ v9'.new = v9.new /\ v7' \in BOOLEAN
    BY <2>4
  <2>6. CASE v2[v1] # v8
    <3>1. v11' \subseteq v10.young
      BY <1>1, <2>6 DEF PSK!Update, PSK!Changed, PSK!Call, PSK!OnFile
    <3> QED BY <2>1, <2>2, <2>3, <2>5, <3>1
  <2>7. CASE v2[v1] = v8
    <3>1. v11' = v11 /\ v8' = v8 /\ v7' = v7
      BY <1>1, <2>4, <2>7 DEF PSK!Update, PSK!Changed, PSK!Call
    <3>2. v6' # None => v11 \subseteq v10.young
      <4>1. CASE v6' = v6
        BY <4>1
      <4>2. CASE PSK!Due
        BY <4>2, <2>7 DEF PSK!Due, PSK!Changed, PSK!Call
      <4> QED BY <4>1, <4>2, <1>1 DEF PSK!Update
    <3> QED BY <2>1, <2>2, <2>3, <2>5, <3>1, <3>2
  <2> QED BY <2>6, <2>7
<1>2. ASSUME NEW young \in BOOLEAN, v6 # None, PSK!Arrives(young),
             (young /\ PSK!Answered) \/ (v6 \notin v10.young /\ UNCHANGED <<v10, v11, v12>>)
      PROVE  PSKInv'
  <2>1. v13' \in [Books -> SUBSET PSK!Report]
    <3>1. v6 \in Calls
      BY <1>2
    <3>2. [about |-> v6, under |-> v2[v1]] \in PSK!Report
      BY <1>a, <3>1 DEF PSK!Report
    <3>3. v13' = v13 \/ v13' = [v13 EXCEPT ![v1] = v13[v1] \cup {[about |-> v6, under |-> v2[v1]]}]
      BY <1>2 DEF PSK!Arrives, PSK!Call
    <3>4. v13[v1] \cup {[about |-> v6, under |-> v2[v1]]} \in SUBSET PSK!Report
      BY <3>2
    <3> QED BY <3>3, <3>4
  <2>2. v9' \in [made : BOOLEAN, known : SUBSET Calls, new : SUBSET Calls] /\ v8' = v2[v1] /\ v7' = TRUE /\ (young => v2[v1] \in v9'.new)
    BY <1>2, <1>a DEF PSK!Arrives, PSK!Call
  <2>3. UNCHANGED <<v1, v2, v16, v17>> /\ v6' = None /\ v15' = None /\ v14' = {}
    BY <1>2 DEF PSK!Arrives
  <2>4. v11 \subseteq v10.young
    BY <1>2
  <2>5. /\ v10' \in [files : SUBSET Calls, young : SUBSET Calls] /\ v12' = FALSE
        /\ \A c \in v11' \ v10'.young : young /\ c = v2[v1]
    <3>1. CASE UNCHANGED <<v10, v11, v12>>
      BY <2>4, <3>1
    <3>2. CASE young /\ PSK!Answered /\ v6 \notin v10.young
      <4>1. v12' = FALSE
        BY <3>2, <2>4 DEF PSK!Answered
      <4>2. CASE v10' = [files |-> v10.files \cup {v6}, young |-> v10.young \cup {v6}] /\ v11' = v11 \cup {v6}
        BY <4>1, <4>2, <2>4, <1>2
      <4>3. CASE v10' \in {v10, PSK!Without(v6)} /\ v11' = IF v6 = v2[v1] THEN v11 \cup {v6} ELSE v11
        <5>1. v10' \in [files : SUBSET Calls, young : SUBSET Calls] /\ v10'.young = v10.young
          BY <4>3 DEF PSK!Without
        <5>2. \A c \in v11' : c \in v11 \/ c = v2[v1]
          BY <4>3
        <5> QED BY <4>1, <5>1, <5>2, <2>4, <3>2
      <4> QED BY <3>2, <4>2, <4>3 DEF PSK!Answered, PSK!Call
    <3>3. CASE young /\ PSK!Answered /\ v6 \in v10.young
      BY <3>1, <3>3 DEF PSK!Answered
    <3> QED BY <1>2, <3>1, <3>2, <3>3
  <2> QED BY <2>1, <2>2, <2>3, <2>5
<1>10. CASE PSK!FetchDone
  <2>1. v6 # None /\ PSK!Answered /\ PSK!Arrives(TRUE)
    BY <1>10 DEF PSK!FetchDone
  <2> QED BY <1>2, <2>1
<1>11. CASE PSK!FetchFallsBack
  <2>1. v6 \notin v10.young /\ UNCHANGED <<v10, v11, v12>> /\ PSK!Arrives(FALSE) /\ v6 \in Calls
    BY <1>11 DEF PSK!FetchFallsBack
  <2> QED BY <1>2, <2>1, LookupAssumption
<1>3. CASE PSK!FetchFails
  <2>1. v10' \in [files : SUBSET Calls, young : SUBSET Calls] /\ v10'.young = v10.young
    BY <1>3 DEF PSK!FetchFails, PSK!Without
  <2>2. v6' = None /\ UNCHANGED <<v1, v2, v7, v8, v9, v11, v12, v13, v14, v15, v16, v17>>
    BY <1>3 DEF PSK!FetchFails
  <2> QED BY <2>1, <2>2
<1>4. CASE PSK!View
  BY <1>4, <1>a DEF PSK!View, PSK!Call
<1>5. CASE PSK!StartLoad
  <2>1. v17' = [stage |-> "query", call |-> v16, of |-> v1, rows |-> {}] /\ v16' = None
    BY <1>5 DEF PSK!StartLoad
  <2>2. UNCHANGED <<v1, v2, v6, v7, v8, v9, v10, v11, v12, v13, v14, v15>>
    BY <1>5 DEF PSK!StartLoad
  <2>3. v17' \in Loading /\ v17'.stage = "query" /\ v17'.of \in Books
    BY <2>1 DEF Loading
  <2> QED BY <2>1, <2>2, <2>3
<1>6. CASE PSK!Query
  <2>1. PICK r \in SUBSET PSK!Report :
          v17' = [v17 EXCEPT !.stage = "rows", !.rows = r] /\ \A s \in r : s.under = v17.call
    <3>1. PICK r \in {{s \in v13[v17.of] : s.under = v17.call}} \cup (IF v17.of = v1 THEN {} ELSE {{}}) :
            v17' = [v17 EXCEPT !.stage = "rows", !.rows = r]
      BY <1>6 DEF PSK!Query
    <3>2. v17.of \in Books
      BY <1>6 DEF PSK!Query
    <3>3. r \in SUBSET PSK!Report /\ \A s \in r : s.under = v17.call
      BY <3>1, <3>2
    <3> QED BY <3>1, <3>3
  <2>2. v17' \in Loading /\ v17'.of = v17.of /\ v17'.call = v17.call /\ v17'.rows = r
    BY <2>1 DEF Loading
  <2>3. v17.of \in Books
    BY <1>6 DEF PSK!Query
  <2>4. UNCHANGED <<v1, v2, v6, v7, v8, v9, v10, v11, v12, v13, v14, v15, v16>>
    BY <1>6 DEF PSK!Query
  <2> QED BY <2>1, <2>2, <2>3, <2>4
<1>7. CASE PSK!Loaded
  <2>1. v17' \in Loading /\ v17'.stage = "none"
    BY <1>7 DEF PSK!Loaded, PSK!NoLoad, Loading
  <2>2. \A s \in v14' : s.under = v15'
    BY <1>7 DEF PSK!Loaded
  <2>3. UNCHANGED <<v1, v2, v6, v7, v8, v9, v10, v11, v12, v13, v16>>
    BY <1>7 DEF PSK!Loaded
  <2> QED BY <2>1, <2>2, <2>3
<1>8. ASSUME NEW b \in Books, PSK!Switch(b) PROVE PSKInv'
  BY <1>8 DEF PSK!Switch
<1>9. CASE PSK!Toggle
  <2>1. v11' \subseteq v10.young /\ v9' = PSK!NoStamps /\ v7' = FALSE /\ UNCHANGED <<v1, v2, v6, v8, v10, v12, v13, v14, v15, v16, v17>>
    BY <1>9 DEF PSK!Toggle, PSK!OnFile
  <2>2. v9' \in [made : BOOLEAN, known : SUBSET Calls, new : SUBSET Calls]
    BY <2>1 DEF PSK!NoStamps
  <2> QED BY <2>1, <2>2
<1>12. CASE PSK!FiveMinutes
  <2>1. /\ v11' = {} /\ v10' = [v10 EXCEPT !.young = {}] /\ v9' = [v9 EXCEPT !.new = {}]
        /\ UNCHANGED <<v1, v2, v6, v7, v8, v12, v13, v14, v15, v16, v17>>
    BY <1>12 DEF PSK!FiveMinutes
  <2> QED BY <2>1
<1>13. CASE \E on \in BOOLEAN : PSK!Show(on)
  BY <1>13 DEF PSK!Show
<1> QED BY <1>0, <1>1, <1>2, <1>3, <1>4, <1>5, <1>6, <1>7, <1>8, <1>9, <1>10, <1>11, <1>12, <1>13 DEF PSK!PSKNext

\* And it implies what is checked.
LEMMA PSKSafe == ASSUME PSKInv PROVE PSK!SpotsMatchKey /\ PSK!AskedOnce
  BY DEF PSKInv, PSK!AskedOnce

-----------------------------------------------------------------------------
(* Connectivity: v1 is net, v2 servers, v3 linked, v4 book, v5 inet, v6 rapid, v7 ticked, v8 wl, v9 station,
   v10 radio, v11 probes, v12 checks, v13 posts, v14 version, v15 learnt, v16 changes,
   v17 edited. *)

\* What is known of the network, and of Wavelog.
Nets == [online : BOOLEAN, confirmed : BOOLEAN, streak : 0..2]
WavelogStates == [online : BOOLEAN, failed : BOOLEAN, force : BOOLEAN]

\* The inductive invariant.
NetInv ==
    /\ v4 \in Books /\ v5 \in Nets /\ v8 \in WavelogStates
    /\ v12 \in [Checks -> Net!Request] /\ v17 \in BOOLEAN /\ Net!NeverForgotten

\* It holds at the start.
LEMMA NetStart == ASSUME Net!ConnInit PROVE NetInv
<1>1. v12 \in [Checks -> Net!Request]
  BY DEF Net!ConnInit, Net!Request
<1>2. v5 \in Nets /\ v8 \in WavelogStates
  BY DEF Net!ConnInit, Nets, WavelogStates
<1>3. v4 \in Books /\ v17 = FALSE /\ v7 = FALSE
  BY DEF Net!ConnInit
<1> QED BY <1>1, <1>2, <1>3 DEF NetInv, Net!NeverForgotten, Net!EveryServerIsTried

\* A check may start, and one that is due does.
LEMMA CheckStarts ==
  ASSUME NEW on \in BOOLEAN, NEW first \in BOOLEAN, NEW w \in WavelogStates, NEW due \in BOOLEAN,
         v12 \in [Checks -> Net!Request], Net!CheckWavelog(on, first, w, due), UNCHANGED <<v3, v4>>, v4 \in Books
  PROVE  /\ v8' \in WavelogStates /\ v12' \in [Checks -> Net!Request]
         /\ \/ ~on \/ v4' \notin v3'
            \/ ~(Net!Quiet)'
            \/ ~first /\ ~w.force /\ v8' = w /\ v12' = v12
<1>1. CASE Net!Unchecked(on)
  BY <1>1 DEF Net!CheckWavelog, Net!Unchecked, WavelogStates
<1>2. CASE ~Net!Unchecked(on) /\ (Net!Forced(first, w) \/ (~w.online /\ w.failed /\ due))
  <2>1. v8' \in WavelogStates
    BY <1>2 DEF Net!CheckWavelog, WavelogStates
  <2>2. PICK c \in Checks : v12' = [v12 EXCEPT ![c] = [of |-> v4, at |-> "asked"]]
    BY <1>2 DEF Net!CheckWavelog
  <2>3. [of |-> v4, at |-> "asked"] \in Net!Request
    BY DEF Net!Request
  <2>4. v12'[c] = [of |-> v4, at |-> "asked"]
    BY <2>2
  <2>5. ~(Net!Quiet)'
    BY <2>4 DEF Net!Quiet, Net!Idle
  <2> QED BY <2>1, <2>2, <2>3, <2>5
<1>3. CASE ~Net!Unchecked(on) /\ ~(Net!Forced(first, w) \/ (~w.online /\ w.failed /\ due))
  BY <1>3 DEF Net!CheckWavelog, Net!Forced
<1> QED BY <1>1, <1>2, <1>3

\* Every step keeps it.
LEMMA NetStep == ASSUME NetInv, [Net!ConnNext]_(Net!connVars) PROVE NetInv'
<1> USE DEF NetInv
<1>0. CASE UNCHANGED <<v3, v4, v5, v7, v8, v12, v17>>
  BY <1>0 DEF Net!NeverForgotten, Net!EveryServerIsTried, Net!Quiet
<1> USE DEF Net!outside, Net!wavelog
<1>1. CASE Net!Tick
  <2>1. PICK due \in BOOLEAN : Net!CheckWavelog(v5.online, ~v7, v8, due)
    BY <1>1 DEF Net!Tick
  <2>2. UNCHANGED <<v3, v4, v5, v17>> /\ v7' = TRUE
    BY <1>1 DEF Net!Tick
  <2>3. v5.online \in BOOLEAN /\ (~v7) \in BOOLEAN
    BY DEF Nets
  <2>4. /\ v8' \in WavelogStates /\ v12' \in [Checks -> Net!Request]
        /\ \/ ~v5.online \/ v4' \notin v3'
           \/ ~(Net!Quiet)'
           \/ v7 /\ v8' = v8 /\ v12' = v12
    BY <2>1, <2>2, <2>3, CheckStarts
  <2> QED BY <2>2, <2>4 DEF Net!NeverForgotten, Net!EveryServerIsTried, Net!Quiet
<1>2. ASSUME NEW p, Net!Online(p) PROVE NetInv'
  <2>1. v5' = [online |-> TRUE, confirmed |-> TRUE, streak |-> 0] /\ UNCHANGED <<v3, v4, v7>>
    BY <1>2 DEF Net!Online
  <2>2. v5' \in Nets
    BY <2>1 DEF Nets
  <2>3. CASE v5.online
    <3>1. UNCHANGED <<v8, v12, v17>>
      BY <1>2, <2>3 DEF Net!Online
    <3> QED BY <2>1, <2>2, <2>3, <3>1 DEF Net!NeverForgotten, Net!EveryServerIsTried, Net!Quiet
  <2>4. CASE ~v5.online
    <3> DEFINE w == [v8 EXCEPT !.force = TRUE]
    <3>1. w \in WavelogStates /\ w.force
      BY DEF WavelogStates
    <3>2. Net!CheckWavelog(TRUE, FALSE, w, FALSE) /\ v17' = FALSE
      BY <1>2, <2>4 DEF Net!Online
    <3> HIDE DEF w
    <3>3. v8' \in WavelogStates /\ v12' \in [Checks -> Net!Request] /\ (v4' \notin v3' \/ ~(Net!Quiet)')
      BY <2>1, <3>1, <3>2, CheckStarts
    <3> QED BY <2>1, <2>2, <3>2, <3>3 DEF Net!NeverForgotten, Net!EveryServerIsTried
  <2> QED BY <2>3, <2>4
<1>3. ASSUME NEW p, Net!Offline(p) PROVE NetInv'
  <2> DEFINE s == IF v5.streak = 2 THEN 2 ELSE v5.streak + 1
  <2>1. s \in 0..2 /\ v5' = [v5 EXCEPT !.streak = s, !.online = @ /\ s < 2]
    BY <1>3 DEF Net!Offline, Nets
  <2>2. v5' \in Nets /\ (v5'.online => v5.online)
    BY <2>1 DEF Nets
  <2>3. UNCHANGED <<v3, v4, v7, v8, v12, v17>>
    BY <1>3 DEF Net!Offline
  <2> QED BY <2>2, <2>3 DEF Net!NeverForgotten, Net!EveryServerIsTried, Net!Quiet
<1>4. ASSUME NEW c \in Checks, Net!CheckAnswers(c) PROVE NetInv'
  <2>1. v12' = [v12 EXCEPT ![c] = Net!Works(v12[c])] /\ UNCHANGED <<v3, v4, v5, v7, v8, v17>>
    BY <1>4 DEF Net!CheckAnswers
  <2>2. Net!Works(v12[c]) \in Net!Request /\ Net!Works(v12[c]) # Net!Idle
    BY <1>4 DEF Net!CheckAnswers, Net!Works, Net!Reached, Net!Request, Net!Idle
  <2> QED BY <2>1, <2>2 DEF Net!NeverForgotten, Net!EveryServerIsTried, Net!Quiet
<1>5. ASSUME NEW c \in Checks, Net!Status(c) PROVE NetInv'
  <2>1. v12' = [v12 EXCEPT ![c] = Net!Idle] /\ v12[c].at \in {"up", "down"}
    BY <1>5 DEF Net!Status
  <2>2. v8' = [v8 EXCEPT !.online = (v12[c].at = "up"), !.failed = (v12[c].at = "down")]
    BY <1>5 DEF Net!Status
  <2>3. v8' \in WavelogStates /\ (v8'.online \/ v8'.failed)
    BY <2>1, <2>2 DEF WavelogStates
  <2>4. v12' \in [Checks -> Net!Request] /\ UNCHANGED <<v4, v5, v17>>
    BY <1>5, <2>1 DEF Net!Request, Net!Status
  <2> QED BY <2>3, <2>4 DEF Net!NeverForgotten, Net!EveryServerIsTried
<1>6. ASSUME NEW b \in Books, Net!SwitchLogbook(b) PROVE NetInv'
  <2>1. v8' \in WavelogStates /\ v8'.force /\ v4' \in Books /\ v17' = FALSE /\ UNCHANGED <<v5, v12>>
    BY <1>6 DEF Net!SwitchLogbook, WavelogStates
  <2> QED BY <2>1 DEF Net!NeverForgotten, Net!EveryServerIsTried
<1>7. ASSUME NEW k, Net!PostAnswers(k) \/ Net!RadioResult(k) PROVE NetInv'
  BY <1>0, <1>7 DEF Net!PostAnswers, Net!RadioResult
<1>8. ASSUME NEW p, Net!ProbeAnswers(p) PROVE NetInv'
  BY <1>0, <1>8 DEF Net!ProbeAnswers
<1>9. ASSUME Net!NetChanges \/ (\E b : Net!ServerChanges(b)) \/ \E cluster : Net!NetworkError(cluster) PROVE NetInv'
  BY <1>0, <1>9 DEF Net!NetChanges, Net!ServerChanges, Net!NetworkError
<1>11. CASE Net!LeaveMenu
  <2>1. v8' \in WavelogStates /\ v8'.force /\ v17' = FALSE /\ UNCHANGED <<v4, v5, v12>>
    BY <1>11 DEF Net!LeaveMenu, WavelogStates
  <2> QED BY <2>1 DEF Net!NeverForgotten, Net!EveryServerIsTried
<1>12. ASSUME NEW b \in Books, Net!EditLink(b) PROVE NetInv'
  <2>1. UNCHANGED <<v4, v5, v7, v8, v12>> /\ v17' = (v17 \/ b = v4) /\ (b # v4 => (v4 \in v3' <=> v4 \in v3))
    BY <1>12 DEF Net!EditLink
  <2> QED BY <2>1 DEF Net!NeverForgotten, Net!EveryServerIsTried, Net!Quiet
<1>10. CASE UNCHANGED Net!connVars
  BY <1>0, <1>10 DEF Net!connVars
<1> QED BY <1>1, <1>2, <1>3, <1>4, <1>5, <1>6, <1>7, <1>8, <1>9, <1>10, <1>11, <1>12 DEF Net!ConnNext

\* And it implies what is checked.
LEMMA NetSafe == ASSUME NetInv PROVE Net!NeverForgotten
  BY DEF NetInv

-----------------------------------------------------------------------------
(* SolarPanel: v1 is wanted, v2 net, v3 shown, v4 failed, v5 fetching, v6 tried, v7 reply, v8 recent,
   v9 file, v10 young, v11 answered, v12 again, v13 times. *)

\* What answered in these minutes is in the file, and young.
SolarInv == v10 \in BOOLEAN /\ v11 \in BOOLEAN /\ (v11 => v9 = "good" /\ v10) /\ v12 = FALSE

\* It holds at the start.
LEMMA SolarStart == ASSUME Solar!SolarInit PROVE SolarInv
  BY DEF Solar!SolarInit, SolarInv

\* Every step keeps it.
LEMMA SolarStep == ASSUME SolarInv, [Solar!SolarNext]_(Solar!solarVars) PROVE SolarInv'
<1> USE DEF SolarInv
<1>0. CASE UNCHANGED Solar!solarVars
  BY <1>0 DEF Solar!solarVars
<1>1. CASE Solar!MaybeFetch \/ Solar!Result \/ Solar!NetChanges \/ Solar!Setting
  <2>1. UNCHANGED <<v9, v10, v11, v12>>
    BY <1>1 DEF Solar!MaybeFetch, Solar!Result, Solar!NetChanges, Solar!Setting, Solar!disk
  <2> QED BY <2>1
<1>3. CASE Solar!FiveMinutes
  <2>1. PICK y \in {FALSE, v10} : v10' = y /\ v11' = (v11 /\ y)
    BY <1>3 DEF Solar!FiveMinutes
  <2>2. v9' = v9 /\ v12' = v12
    BY <1>3 DEF Solar!FiveMinutes
  <2> QED BY <2>1, <2>2
<1>2. CASE Solar!Attempt
  <2>1. CASE UNCHANGED Solar!disk
    BY <2>1 DEF Solar!disk
  <2>2. CASE ~Solar!Fresh /\ \E body \in {"good", "bad"} : Solar!FromServer(body)
    BY <2>2 DEF Solar!Fresh, Solar!FromServer
  <2> QED BY <1>2, <2>1, <2>2 DEF Solar!Attempt
<1> QED BY <1>0, <1>1, <1>2, <1>3 DEF Solar!SolarNext

\* And it implies what is checked.
LEMMA SolarSafe == ASSUME SolarInv PROVE Solar!ServerIsSpared
  BY DEF SolarInv, Solar!ServerIsSpared

-----------------------------------------------------------------------------
(* RecentTable: v1 is book, v2 owed, v3 contest, v4 list, v5 failed, v6 asked, v7 late, v8 need, v9 quiet. *)

\* The tables and the reloads there may be.
Views == [book : Books, contest : BOOLEAN, current : BOOLEAN]
Reloads == [book : Books, contest : BOOLEAN, read : {"no", "current", "past"}, old : BOOLEAN]

\* A reload of the open logbook that none asked for later has overtaken, and one that finds what
\* the log holds for the active contest.
Fresh(q) == q.book = v1 /\ ~q.old

\* A reload brings the table of the open logbook and contest, which may be on the screen.
Finds(q) == q.book = v1 /\ q.contest = (v1 \in v3) /\ q.read # "past"
IsLog == v4.book = v1 /\ v4.contest = (v1 \in v3) /\ v4.current

\* The table is of the open logbook or something brings it there; the last fresh reload finds the
\* log, and when there is none left it was answered, or one that was overtaken came later.
Brought == v8 \/ v2 \/ v5 \/ v4.book = v1 \/ \E i \in DOMAIN v6 : v6[i].book = v1
LastFinds ==
    ~v8 /\ ~v2 /\ v1 \notin v9 =>
        \A i \in DOMAIN v6 : Fresh(v6[i]) /\ (\A k \in DOMAIN v6 : k > i => ~Fresh(v6[k]))
            => Finds(v6[i])
Settled ==
    ~v8 /\ ~v2 /\ ~v5 /\ v1 \notin v9 /\ (\A i \in DOMAIN v6 : ~Fresh(v6[i])) => (v7 \/ IsLog)

\* The values of the variables.
RecentTypes ==
    /\ v1 \in Books /\ v2 \in BOOLEAN /\ v4 \in Views /\ v5 \in BOOLEAN /\ v6 \in Seq(Reloads) /\ v7 \in BOOLEAN /\ v8 \in BOOLEAN

\* The inductive invariant.
RecentInv == RecentTypes /\ Brought /\ LastFinds /\ Settled

\* It holds at the start.
LEMMA RecentStart == ASSUME Recent!TableInit PROVE RecentInv
<1> USE DEF Recent!TableInit
<1>1. v4 \in Views /\ v4.book = v1 /\ v4.contest = (v1 \in v3) /\ v4.current
  BY DEF Views
<1>2. v6 = <<>> /\ v6 \in Seq(Reloads)
  OBVIOUS
<1>3. v1 \in Books /\ v2 = FALSE /\ v5 = FALSE /\ v7 = FALSE /\ v8 = FALSE
  OBVIOUS
<1> HIDE DEF Recent!TableInit
<1>4. DOMAIN v6 = {}
  BY <1>2
<1>5. Brought /\ LastFinds
  BY <1>1, <1>4 DEF Brought, LastFinds
<1>6. Settled
  BY <1>1 DEF Settled, IsLog
<1> QED BY <1>1, <1>2, <1>3, <1>5, <1>6 DEF RecentInv, RecentTypes

\* What is asked for is a reload.
LEMMA RequestIs == ASSUME NEW b \in Books PROVE Recent!Request(b) \in Reloads
  BY DEF Recent!Request, Reloads

\* A reload that is asked for is the last fresh one.
LEMMA ReloadAsked ==
  ASSUME NEW q \in Seq(Reloads), Recent!Reloads(q, v1'), v1' \in Books, v3' = v3, v4' \in Views, v5' = v5, v7' = v7,
         v2' \in BOOLEAN, v8' \in BOOLEAN, RecentTypes
  PROVE  RecentInv'
<1>1. PICK r \in Reloads : r.book = v1' /\ r.contest = (v1' \in v3) /\ r.read = "no" /\ r.old = FALSE /\ v6' = Append(q, r)
  <2>1. Recent!Request(v1') \in Reloads
    BY DEF Recent!Request, Reloads
  <2> QED BY <2>1 DEF Recent!Reloads, Recent!Request
<1>2. v6' \in Seq(Reloads) /\ Len(v6') = Len(q) + 1 /\ Len(q) \in Nat /\ v6'[Len(q) + 1] = r
  BY <1>1
<1>3. PICK n \in Nat : n \in DOMAIN v6' /\ v6'[n] = r /\ \A i \in DOMAIN v6' : i # n => n > i
  BY <1>2
<1>4. Fresh(r)' /\ Finds(r)'
  BY <1>1 DEF Fresh, Finds
<1>5. (\A i \in DOMAIN v6 : Fresh(v6[i]) /\ (\A k \in DOMAIN v6 : k > i => ~Fresh(v6[k])) => i = n)'
  BY <1>3, <1>4
<1>6. LastFinds'
  BY <1>3, <1>4, <1>5 DEF LastFinds
<1>7. Settled'
  BY <1>3, <1>4 DEF Settled
<1>8. Brought'
  BY <1>1, <1>3 DEF Brought
<1>9. RecentTypes'
  BY <1>2 DEF RecentTypes
<1> QED BY <1>6, <1>7, <1>8, <1>9 DEF RecentInv

\* What stays of the reloads: the same places, whatever is noted of each.
LEMMA SameReloads ==
  ASSUME NEW q \in Seq(Reloads), NEW s, DOMAIN s = DOMAIN q, s = [i \in DOMAIN q |-> s[i]], \A i \in DOMAIN q : s[i] \in Reloads
  PROVE  s \in Seq(Reloads)
<1>1. DOMAIN q = 1..Len(q) /\ Len(q) \in Nat
  OBVIOUS
<1>2. s \in [1..Len(q) -> Reloads]
  BY <1>1
<1> QED BY <1>1, <1>2

\* What was read of a table that has changed is past.
LEMMA PastReloads ==
  ASSUME NEW q \in Seq(Reloads), NEW b
  PROVE  /\ Recent!Past(q, b) \in Seq(Reloads) /\ DOMAIN Recent!Past(q, b) = DOMAIN q
         /\ \A i \in DOMAIN q : /\ Recent!Past(q, b)[i].book = q[i].book
                                /\ q[i].book # b => Recent!Past(q, b)[i] = q[i]
<1> DEFINE s == Recent!Past(q, b)
<1>1. s = [i \in DOMAIN q |-> s[i]] /\ DOMAIN s = DOMAIN q
  BY DEF Recent!Past
<1>2. ASSUME NEW i \in DOMAIN q PROVE s[i] \in Reloads /\ s[i].book = q[i].book /\ (q[i].book # b => s[i] = q[i])
  <2>1. q[i] \in Reloads
    OBVIOUS
  <2>2. [q[i] EXCEPT !.read = "past"] \in Reloads /\ [q[i] EXCEPT !.read = "past"].book = q[i].book
    BY <2>1 DEF Reloads
  <2>3. s[i] = IF q[i].book = b /\ q[i].read = "current" THEN [q[i] EXCEPT !.read = "past"] ELSE q[i]
    BY DEF Recent!Past
  <2> QED BY <2>1, <2>2, <2>3
<1> HIDE DEF s
<1>3. s \in Seq(Reloads)
  BY <1>1, <1>2, SameReloads
<1> QED BY <1>1, <1>2, <1>3 DEF s

\* A newer request leaves the others in their places.
LEMMA SupersededReloads ==
  ASSUME NEW q \in Seq(Reloads) PROVE Recent!Superseded(q) \in Seq(Reloads)
<1> DEFINE s == Recent!Superseded(q)
<1>1. s = [i \in DOMAIN q |-> s[i]] /\ DOMAIN s = DOMAIN q
  BY DEF Recent!Superseded
<1>2. ASSUME NEW i \in DOMAIN q PROVE s[i] \in Reloads
  <2>1. q[i] \in Reloads /\ s[i] = [q[i] EXCEPT !.old = TRUE]
    BY DEF Recent!Superseded
  <2> HIDE DEF s
  <2> QED BY <2>1 DEF Reloads
<1> HIDE DEF s
<1>3. s \in Seq(Reloads)
  BY <1>1, <1>2, SameReloads
<1> QED BY <1>3 DEF s

\* The reloads but the i-th.
Without(q, i) == SubSeq(q, 1, i - 1) \o SubSeq(q, i + 1, Len(q))

\* What the others are once the i-th was answered: moved up, and overtaken if it was asked later.
LEMMA OtherReloads ==
  ASSUME NEW q \in Seq(Reloads), NEW i \in DOMAIN q
  PROVE  /\ Without(q, i) \in Seq(Reloads) /\ Len(Without(q, i)) = Len(q) - 1
         /\ \A j \in 1..Len(q) - 1 : Without(q, i)[j] = IF j < i THEN q[j] ELSE q[j + 1]
<1>1. Len(q) \in Nat /\ i \in 1..Len(q)
  OBVIOUS
<1> DEFINE a == SubSeq(q, 1, i - 1)
           b == SubSeq(q, i + 1, Len(q))
<1>2. a \in Seq(Reloads) /\ Len(a) = i - 1 /\ \A j \in 1..i - 1 : a[j] = q[j]
  BY <1>1
<1>3. b \in Seq(Reloads) /\ Len(b) = Len(q) - i /\ \A j \in 1..Len(q) - i : b[j] = q[i + j]
  BY <1>1
<1>4. Without(q, i) = a \o b
  BY DEF Without
<1> HIDE DEF a, b
<1>5. a \o b \in Seq(Reloads) /\ Len(a \o b) = Len(q) - 1
  BY <1>1, <1>2, <1>3
<1>c. \A k \in 1..Len(a) + Len(b) : (a \o b)[k] = IF k <= Len(a) THEN a[k] ELSE b[k - Len(a)]
  BY <1>2, <1>3, ConcatProperties, Zenon
<1>6. ASSUME NEW j \in 1..Len(q) - 1 PROVE (a \o b)[j] = IF j < i THEN q[j] ELSE q[j + 1]
  <2>1. CASE j < i
    BY <2>1, <1>1, <1>2, <1>3
  <2>2. CASE ~(j < i)
    <3>1. j - (i - 1) \in 1..Len(q) - i /\ i + (j - (i - 1)) = j + 1
      BY <2>2, <1>1
    <3>2. j \in 1..Len(a) + Len(b) /\ ~(j <= Len(a)) /\ j - Len(a) = j - (i - 1)
      BY <2>2, <1>1, <1>2, <1>3
    <3>3. (a \o b)[j] = b[j - (i - 1)]
      BY <3>2, <1>c
    <3> QED BY <2>2, <3>1, <3>3, <1>3
  <2> QED BY <2>1, <2>2
<1> QED BY <1>4, <1>5, <1>6

\* What an answer leaves, whether it was of this logbook, of another or an error.
LEMMA RefreshedKeeps == ASSUME RecentInv, NEW i \in DOMAIN v6, Recent!Refreshed(i) PROVE RecentInv'
<1>a. RecentTypes /\ Brought /\ LastFinds /\ Settled
  BY DEF RecentInv
<1>b. v6 \in Seq(Reloads) /\ Len(v6) \in Nat /\ DOMAIN v6 = 1..Len(v6) /\ \A k \in DOMAIN v6 : v6[k] \in Reloads
  BY <1>a DEF RecentTypes
<1> DEFINE q == v6[i]
           others == Without(v6, i)
           At(j) == IF j < i THEN j ELSE j + 1
<1>1. /\ others \in Seq(Reloads) /\ DOMAIN others = 1..Len(v6) - 1
      /\ \A j \in DOMAIN others : others[j] = v6[At(j)]
  <2>1. /\ others \in Seq(Reloads) /\ Len(others) = Len(v6) - 1
        /\ \A j \in 1..Len(v6) - 1 : others[j] = IF j < i THEN v6[j] ELSE v6[j + 1]
    BY <1>b, OtherReloads, Zenon
  <2> HIDE DEF others
  <2>2. DOMAIN others = 1..Len(v6) - 1
    BY <1>b, <2>1
  <2> QED BY <2>1, <2>2
<1>2. UNCHANGED <<v1, v2, v3, v8, v9>> /\ q.read # "no" /\ q \in Reloads
  BY <1>b DEF Recent!Refreshed
<1>3. /\ \A j \in DOMAIN others : At(j) \in DOMAIN v6 /\ At(j) # i
      /\ \A k \in DOMAIN v6 : k # i => \E j \in DOMAIN others : At(j) = k
      /\ \A j, k \in DOMAIN others : j > k <=> At(j) > At(k)
  <2>1. ASSUME NEW k \in DOMAIN v6, k # i PROVE \E j \in DOMAIN others : At(j) = k
    <3>1. CASE k < i
      BY <3>1, <1>1, <1>b
    <3>2. CASE ~(k < i)
      <4>1. k - 1 \in DOMAIN others /\ At(k - 1) = k
        BY <3>2, <2>1, <1>1, <1>b
      <4> QED BY <4>1
    <3> QED BY <3>1, <3>2
  <2> QED BY <2>1, <1>1, <1>b
<1> HIDE DEF At, others
<1>4. CASE q.book # v1
  <2>1. v6' = others /\ UNCHANGED <<v4, v5, v7>>
    BY <1>4 DEF Recent!Refreshed, others, Without
  <2>2. RecentTypes'
    BY <2>1, <1>1, <1>2, <1>a DEF RecentTypes
  <2>3. Brought'
    BY <2>1, <1>1, <1>2, <1>3, <1>4, <1>a DEF Brought
  <2>4. \A j \in DOMAIN others : Fresh(v6[j])' <=> Fresh(v6[At(j)])
    BY <2>1, <1>1, <1>2 DEF Fresh
  <2>5. ~Fresh(q)
    BY <1>4 DEF Fresh
  <2>6. LastFinds'
    <3> SUFFICES ASSUME ~v8, ~v2, v1 \notin v9, NEW j \in DOMAIN others, Fresh(v6[j])',
                        \A m \in DOMAIN others : m > j => ~Fresh(v6[m])'
                 PROVE  Finds(v6[j])'
      BY <2>1, <1>2 DEF LastFinds
    <3>1. Fresh(v6[At(j)]) /\ At(j) \in DOMAIN v6
      BY <2>4, <1>3
    <3>2. ASSUME NEW k \in DOMAIN v6, k > At(j), Fresh(v6[k]) PROVE FALSE
      <4>1. PICK m \in DOMAIN others : At(m) = k
        BY <3>2, <2>5, <1>3
      <4> QED BY <4>1, <3>2, <2>4, <1>3
    <3>3. Finds(v6[At(j)])
      BY <3>1, <3>2, <1>a DEF LastFinds
    <3> QED BY <3>3, <2>1, <1>1, <1>2 DEF Finds
  <2>7. Settled'
    <3> SUFFICES ASSUME ~v8, ~v2, ~v5, v1 \notin v9, \A j \in DOMAIN others : ~Fresh(v6[j])' PROVE v7 \/ IsLog
      BY <2>1, <1>2 DEF Settled, IsLog
    <3>1. \A k \in DOMAIN v6 : ~Fresh(v6[k])
      BY <2>4, <2>5, <1>3
    <3> QED BY <3>1, <1>a DEF Settled
  <2> QED BY <2>2, <2>3, <2>6, <2>7 DEF RecentInv
<1>5. CASE q.book = v1
  <2> DEFINE Marked(j) == [others[j] EXCEPT !.old = others[j].old \/ j < i]
  <2>1. /\ v6' = [j \in DOMAIN others |-> Marked(j)]
        /\ \/ v5' = TRUE /\ UNCHANGED <<v4, v7>>
           \/ v4' = [book |-> q.book, contest |-> q.contest, current |-> q.read = "current"] /\ v5' = FALSE /\ v7' = q.old
    BY <1>5 DEF Recent!Refreshed, others, Without
  <2>2. ASSUME NEW j \in DOMAIN others
        PROVE  /\ Marked(j) \in Reloads /\ Marked(j).book = v6[At(j)].book /\ Marked(j).contest = v6[At(j)].contest
               /\ Marked(j).read = v6[At(j)].read /\ (Marked(j).old <=> v6[At(j)].old \/ j < i)
    <3>1. others[j] \in Reloads /\ others[j] = v6[At(j)]
      BY <1>1, <1>3, <1>b
    <3> QED BY <3>1 DEF Reloads
  <2> HIDE DEF Marked
  <2>3. v6' \in Seq(Reloads) /\ DOMAIN v6' = DOMAIN others /\ \A j \in DOMAIN others : v6'[j] = Marked(j)
    <3>1. DOMAIN v6' = DOMAIN others /\ v6' = [j \in DOMAIN others |-> v6'[j]] /\ \A j \in DOMAIN others : v6'[j] = Marked(j)
      BY <2>1
    <3> QED BY <3>1, <2>2, <1>1, SameReloads
  <2>4. v4' \in Views /\ v5' \in BOOLEAN /\ v7' \in BOOLEAN
    <3>1. [book |-> q.book, contest |-> q.contest, current |-> q.read = "current"] \in Views /\ q.old \in BOOLEAN
      BY <1>2 DEF Reloads, Views
    <3> QED BY <2>1, <3>1, <1>a DEF RecentTypes
  <2>5. \A j \in DOMAIN others : Fresh(v6[j])' <=> Fresh(v6[At(j)]) /\ At(j) > i
    <3> SUFFICES ASSUME NEW j \in DOMAIN others PROVE Fresh(v6[j])' <=> Fresh(v6[At(j)]) /\ At(j) > i
      OBVIOUS
    <3>1. ~(j < i) <=> At(j) > i
      BY <1>1, <1>b DEF At
    <3> QED BY <3>1, <2>2, <2>3, <1>2 DEF Fresh
  <2>6. \A k \in DOMAIN v6 : Fresh(v6[k]) /\ k > i => \E j \in DOMAIN others : At(j) = k /\ Fresh(v6[j])'
    <3> SUFFICES ASSUME NEW k \in DOMAIN v6, Fresh(v6[k]), k > i PROVE \E j \in DOMAIN others : At(j) = k /\ Fresh(v6[j])'
      OBVIOUS
    <3>1. k # i
      BY <1>b
    <3>2. PICK j \in DOMAIN others : At(j) = k
      BY <3>1, <1>3
    <3> QED BY <3>2, <2>5
  <2>7. RecentTypes'
    BY <2>3, <2>4, <1>2, <1>a DEF RecentTypes
  <2>8. Brought'
    BY <2>1, <1>2, <1>5 DEF Brought
  <2>9. LastFinds'
    <3> SUFFICES ASSUME ~v8, ~v2, v1 \notin v9, NEW j \in DOMAIN others, Fresh(v6[j])',
                        \A m \in DOMAIN others : m > j => ~Fresh(v6[m])'
                 PROVE  Finds(v6[j])'
      BY <2>3, <1>2 DEF LastFinds
    <3>1. Fresh(v6[At(j)]) /\ At(j) \in DOMAIN v6 /\ At(j) > i
      BY <2>5, <1>3
    <3>2. ASSUME NEW k \in DOMAIN v6, k > At(j), Fresh(v6[k]) PROVE FALSE
      <4>1. k > i
        BY <3>1, <3>2, <1>b
      <4>2. PICK m \in DOMAIN others : At(m) = k /\ Fresh(v6[m])'
        BY <3>2, <4>1, <2>6
      <4> QED BY <4>2, <3>2, <1>3
    <3>3. Finds(v6[At(j)])
      BY <3>1, <3>2, <1>a DEF LastFinds
    <3> QED BY <3>3, <2>2, <2>3, <1>2 DEF Finds
  <2>10. Settled'
    <3> SUFFICES ASSUME ~v8, ~v2, ~v5', v1 \notin v9, \A j \in DOMAIN others : ~Fresh(v6[j])' PROVE v7' \/ IsLog'
      BY <2>3, <1>2 DEF Settled
    <3>1. v4' = [book |-> q.book, contest |-> q.contest, current |-> q.read = "current"] /\ v7' = q.old
      BY <2>1
    <3>2. CASE q.old
      BY <3>1, <3>2
    <3>3. CASE ~q.old
      <4>1. Fresh(q) /\ \A k \in DOMAIN v6 : k > i => ~Fresh(v6[k])
        BY <3>3, <1>5, <2>6 DEF Fresh
      <4>2. Finds(q)
        BY <4>1, <1>a DEF LastFinds
      <4>3. q.read = "current"
        BY <4>2, <1>2 DEF Finds, Reloads
      <4> QED BY <3>1, <4>2, <4>3, <1>2 DEF Finds, IsLog
    <3> QED BY <3>2, <3>3
  <2> QED BY <2>7, <2>8, <2>9, <2>10 DEF RecentInv
<1> QED BY <1>4, <1>5

\* Every step keeps it.
LEMMA RecentStep == ASSUME RecentInv, [Recent!TableNext]_(Recent!tableVars) PROVE RecentInv'
<1>a. RecentTypes /\ Brought /\ LastFinds /\ Settled
  BY DEF RecentInv
<1>b. v1 \in Books /\ v2 \in BOOLEAN /\ v4 \in Views /\ v6 \in Seq(Reloads)
  BY <1>a DEF RecentTypes
<1>c. ASSUME NEW b \in Books PROVE Recent!Outdated(b) \in Views /\ (Recent!Outdated(b).book = v4.book)
                                   /\ (v4.book # b => Recent!Outdated(b) = v4)
  BY <1>b DEF Views, Recent!Outdated
<1>0. CASE UNCHANGED Recent!tableVars
  BY <1>0, <1>a DEF Recent!tableVars, RecentInv, RecentTypes, Brought, LastFinds, Settled, IsLog, Fresh, Finds
<1>1. CASE Recent!Save
  BY <1>1, <1>a, <1>b, <1>c, PastReloads, ReloadAsked DEF Recent!Save, RecentTypes
<1>2. CASE Recent!WSJTXLogs
  <2>1. /\ v4' = Recent!Outdated(v1) /\ v8' = TRUE /\ UNCHANGED <<v1, v2, v3, v5, v7>>
        /\ Recent!Reloads(Recent!Past(v6, v1), v1) \/ v6' = Recent!Past(v6, v1)
    BY <1>2 DEF Recent!WSJTXLogs
  <2>2. v6' \in Seq(Reloads)
    <3>1. Recent!Request(v1) \in Reloads /\ Recent!Past(v6, v1) \in Seq(Reloads)
      BY <1>b, PastReloads, RequestIs
    <3>2. v6' \in {Recent!Past(v6, v1), Append(Recent!Past(v6, v1), Recent!Request(v1))}
      BY <2>1 DEF Recent!Reloads
    <3> QED BY <3>1, <3>2
  <2> QED BY <2>1, <2>2, <1>a, <1>b, <1>c DEF RecentInv, RecentTypes, Brought, LastFinds, Settled
<1>3. ASSUME NEW b \in Books, Recent!WorkWrites(b) PROVE RecentInv'
  <2>1. v4' = Recent!Outdated(b) /\ v6' = Recent!Past(v6, b) /\ v9' = v9 \cup {b} /\ UNCHANGED <<v1, v2, v3, v5, v7, v8>>
    BY <1>3 DEF Recent!WorkWrites
  <2>2. /\ v6' \in Seq(Reloads) /\ DOMAIN v6' = DOMAIN v6
        /\ \A i \in DOMAIN v6 : v6'[i].book = v6[i].book /\ (v6[i].book # b => v6'[i] = v6[i])
    BY <2>1, <1>b, PastReloads
  <2>3. RecentTypes' /\ Brought'
    BY <2>1, <2>2, <1>a, <1>c DEF RecentTypes, Brought
  <2>4. CASE b = v1
    BY <2>1, <2>3, <2>4 DEF RecentInv, LastFinds, Settled
  <2>5. CASE b # v1
    <3>1. \A i \in DOMAIN v6 : Fresh(v6[i])' <=> Fresh(v6[i])
      BY <2>1, <2>2, <2>5 DEF Fresh
    <3>2. LastFinds'
      BY <2>1, <2>2, <3>1, <2>5, <1>a DEF LastFinds, Finds, Fresh
    <3>3. IsLog => IsLog'
      BY <2>1, <2>5, <1>c DEF IsLog
    <3>4. Settled'
      BY <2>1, <2>2, <3>1, <3>3, <1>a DEF Settled
    <3> QED BY <2>3, <3>2, <3>4 DEF RecentInv
  <2> QED BY <2>4, <2>5
<1>4. CASE Recent!WorkDone
  <2>1. UNCHANGED <<v1, v2, v3, v4, v5, v7>>
    BY <1>4 DEF Recent!WorkDone
  <2>2. CASE Recent!Reloads(v6, v1) /\ UNCHANGED v8
    BY <2>1, <2>2, <1>a, <1>b, ReloadAsked DEF RecentTypes
  <2>3. CASE v8' = TRUE /\ UNCHANGED <<v6, v9>>
    BY <2>1, <2>3, <1>a DEF RecentInv, RecentTypes, Brought, LastFinds, Settled
  <2> QED BY <1>4, <2>2, <2>3 DEF Recent!WorkDone
<1>5. CASE Recent!ChangeContest
  BY <1>5, <1>a DEF Recent!ChangeContest, RecentInv, RecentTypes, Brought, LastFinds, Settled
<1>6. CASE Recent!MenuContest
  BY <1>6, <1>a DEF Recent!MenuContest, RecentInv, RecentTypes, Brought, LastFinds, Settled
<1>7. ASSUME NEW b \in Books, Recent!CycleLogbook(b) PROVE RecentInv'
  <2>1. v1' = b /\ v8' = TRUE /\ Recent!Reloads(Recent!Superseded(v6), b) /\ UNCHANGED <<v2, v3, v4, v5, v7>>
    BY <1>7 DEF Recent!CycleLogbook
  <2> QED BY <2>1, <1>a, <1>b, SupersededReloads, ReloadAsked DEF RecentTypes
<1>8. ASSUME NEW b \in Books, Recent!PickLogbook(b) PROVE RecentInv'
  <2>1. v1' = b /\ v2' = TRUE /\ v6' = Recent!Superseded(v6) /\ UNCHANGED <<v3, v4, v5, v7, v8>>
    BY <1>8 DEF Recent!PickLogbook
  <2>2. v6' \in Seq(Reloads)
    BY <2>1, <1>b, SupersededReloads
  <2> QED BY <2>1, <2>2, <1>a DEF RecentInv, RecentTypes, Brought, LastFinds, Settled
<1>9. CASE Recent!LogbookSwitched
  <2>1. v2' = FALSE /\ v8' = TRUE /\ Recent!Reloads(v6, v1) /\ UNCHANGED <<v1, v3, v4, v5, v7>>
    BY <1>9 DEF Recent!LogbookSwitched
  <2> QED BY <2>1, <1>a, <1>b, ReloadAsked DEF RecentTypes
<1>10. CASE Recent!PendingReload
  <2>1. v8' = FALSE /\ Recent!Reloads(v6, v1) /\ UNCHANGED <<v1, v2, v3, v4, v5, v7>>
    BY <1>10 DEF Recent!PendingReload
  <2> QED BY <2>1, <1>a, <1>b, ReloadAsked DEF RecentTypes
<1>11. ASSUME NEW i \in DOMAIN v6, Recent!Read(i) PROVE RecentInv'
  <2>1. PICK r \in {"current", "past"} : v6' = [v6 EXCEPT ![i].read = r] /\ (~v6[i].old => r = "current")
    BY <1>11 DEF Recent!Read
  <2>2. UNCHANGED <<v1, v2, v3, v4, v5, v7, v8, v9>>
    BY <1>11 DEF Recent!Read
  <2> DEFINE x == [v6[i] EXCEPT !.read = r]
  <2>3. v6[i] \in Reloads
    BY <1>b
  <2>4. x \in Reloads /\ x.book = v6[i].book /\ x.contest = v6[i].contest /\ x.old = v6[i].old /\ x.read = r
    BY <2>3 DEF Reloads
  <2>5. v6' = [v6 EXCEPT ![i] = x]
    BY <2>1
  <2> HIDE DEF x
  <2>6. v6' \in Seq(Reloads) /\ DOMAIN v6' = DOMAIN v6 /\ v6'[i] = x /\ \A k \in DOMAIN v6 : k # i => v6'[k] = v6[k]
    BY <2>4, <2>5, <1>b
  <2>7. \A k \in DOMAIN v6 : (Fresh(v6[k])' <=> Fresh(v6[k])) /\ v6'[k].book = v6[k].book
    BY <2>2, <2>4, <2>6 DEF Fresh
  <2>8. \A k \in DOMAIN v6 : Fresh(v6[k]) /\ Finds(v6[k]) => Finds(v6[k])'
    BY <2>1, <2>2, <2>4, <2>6 DEF Fresh, Finds
  <2>9. RecentTypes' /\ Brought'
    BY <2>2, <2>6, <2>7, <1>a DEF RecentTypes, Brought
  <2>10. LastFinds'
    BY <2>2, <2>6, <2>7, <2>8, <1>a DEF LastFinds
  <2>11. Settled'
    BY <2>2, <2>6, <2>7, <1>a DEF Settled, IsLog
  <2> QED BY <2>9, <2>10, <2>11 DEF RecentInv
<1>12. ASSUME NEW i \in DOMAIN v6, Recent!Refreshed(i) PROVE RecentInv'
  BY <1>12, <1>a, RefreshedKeeps DEF RecentInv
<1> QED BY <1>0, <1>1, <1>2, <1>3, <1>4, <1>5, <1>6, <1>7, <1>8, <1>9, <1>10, <1>11, <1>12 DEF Recent!TableNext

\* And it implies what is checked.
LEMMA RecentSafe == ASSUME RecentInv PROVE Recent!TableIsOfBook /\ Recent!TableIsLog
<1>1. CASE ~Recent!Arrived
  BY <1>1 DEF Recent!TableIsOfBook, Recent!TableIsLog
<1>2. CASE Recent!Arrived
  <2>1. v6 = <<>> /\ ~v8 /\ ~v2 /\ ~v5 /\ DOMAIN v6 = {}
    BY <1>2 DEF Recent!Arrived
  <2>2. v4.book = v1
    BY <2>1 DEF RecentInv, Brought
  <2>3. ~v7 /\ v1 \notin v9 => IsLog
    BY <2>1 DEF RecentInv, Settled
  <2>4. IsLog => v4 = [book |-> v1, contest |-> v1 \in v3, current |-> TRUE]
    BY DEF IsLog, RecentInv, RecentTypes, Views
  <2> QED BY <2>2, <2>3, <2>4 DEF Recent!TableIsOfBook, Recent!TableIsLog
<1> QED BY <1>1, <1>2

-----------------------------------------------------------------------------
(* ScreenRouting: v1 is screen, v2 spot, v3 help, v4 confirm, v5 editor, v6 menu, v7 book,
   v8 call, v9 up, v10 over. *)

\* The models there may be.
Editors == [made : BOOLEAN, done : BOOLEAN, book : Books, mode : {"list", "form", "running"}, dialog : BOOLEAN]
Menus == [made : BOOLEAN, done : BOOLEAN]

\* The screens reached from the menu.
Submenus == {"chooser", "submenu", "general", "notifications"}

\* The inductive invariant.
RouteInv ==
    /\ v5 \in Editors /\ v6 \in Menus /\ v7 \in Books
    /\ Route!OperationInView /\ Route!ScreenHasModel /\ Route!OneOverlay
    /\ v1 \in Submenus => v6.made

\* It holds at the start.
LEMMA RouteStart == ASSUME Route!RouteInit PROVE RouteInv
  BY DEF Route!RouteInit, RouteInv, Submenus, Editors, Menus, Route!OperationInView, Route!ScreenHasModel, Route!OneOverlay, Route!Running

\* What a key makes.
LEMMA NewModels ==
  /\ Route!NewMenu \in Menus /\ Route!NewMenu.made
  /\ v7 \in Books => Route!NewEditor \in Editors /\ Route!NewEditor.made /\ Route!NewEditor.mode = "list"
  BY DEF Route!NewEditor, Route!NewMenu, Editors, Menus

\* Every step keeps it.
LEMMA RouteStep == ASSUME RouteInv, [Route!RouteNext]_(Route!routeVars) PROVE RouteInv'
<1> USE DEF RouteInv, Route!OperationInView, Route!ScreenHasModel, Route!OneOverlay, Route!Running, Route!NoOverlay,
            Route!Keys, Route!overlays, Route!rest, Route!Go, Submenus
<1>0. CASE UNCHANGED Route!routeVars
  BY <1>0 DEF Route!routeVars
<1>1. CASE Route!SpotKey \/ Route!HelpKey \/ Route!ConfirmKey
  BY <1>1 DEF Route!SpotKey, Route!HelpKey, Route!ConfirmKey
<1>2. CASE Route!QuitKey \/ Route!HelpOpens \/ Route!OpenSpot
  BY <1>2 DEF Route!QuitKey, Route!HelpOpens, Route!OpenSpot
<1>3. CASE Route!EditorKey
  BY <1>3, NewModels DEF Route!EditorKey
<1>4. CASE Route!MenuKey
  <2>1. CASE v1 = "menu"
    BY <1>4, <2>1 DEF Route!MenuKey
  <2>2. CASE v1 # "menu"
    BY <1>4, <2>2, NewModels DEF Route!MenuKey
  <2> QED BY <2>1, <2>2
<1>5. ASSUME NEW step, Route!PaneKey(step) PROVE RouteInv'
  <2>1. PICK target \in {"qso", "partner", "aprs", "dxc", "psk", "ref", "bpl", "editor", "menu"} :
          /\ Route!Go(target)
          /\ v5' = IF target = "editor" /\ ~v5.made THEN Route!NewEditor ELSE v5
          /\ v6' = IF target = "menu" /\ ~v6.made THEN Route!NewMenu ELSE v6
    <3>1. PICK k \in DOMAIN Route!Panes :
            LET target == Route!Panes[k]
            IN /\ Route!Go(target)
               /\ v5' = IF target = "editor" /\ ~v5.made THEN Route!NewEditor ELSE v5
               /\ v6' = IF target = "menu" /\ ~v6.made THEN Route!NewMenu ELSE v6
      BY <1>5 DEF Route!PaneKey
    <3>2. Route!Panes[k] \in {"qso", "partner", "aprs", "dxc", "psk", "ref", "bpl", "editor", "menu"}
      BY DEF Route!Panes
    <3> QED BY <3>1, <3>2
  <2> QED BY <2>1, NewModels
<1>6. CASE Route!BackToForm \/ Route!BackToPartner \/ Route!CallChanges
  BY <1>6 DEF Route!BackToForm, Route!BackToPartner, Route!CallChanges
<1>7. CASE Route!LeaveMenu
  BY <1>7 DEF Route!LeaveMenu, Menus
<1>8. CASE Route!LeaveSub
  <2>1. PICK s \in {"menu", "qso"} : Route!Go(IF v1 = "notifications" /\ s = "menu" THEN "general" ELSE s)
    BY <1>8 DEF Route!LeaveSub
  <2>2. v1 \in Submenus /\ v6' \in {v6, Route!NewMenu} /\ v5' = v5
    BY <1>8 DEF Route!LeaveSub
  <2>3. v6' \in Menus /\ v6'.made
    BY <2>2, NewModels
  <2>4. v1' \in {"general", "menu", "qso"} /\ UNCHANGED <<v2, v3, v4, v7>> /\ v5.mode # "running"
    BY <2>1
  <2> QED BY <2>2, <2>3, <2>4
<1>9. CASE Route!LeaveEditor
  BY <1>9 DEF Route!LeaveEditor, Editors
<1>10. CASE Route!Draw
  BY <1>10 DEF Route!Draw, Editors
<1>11. CASE Route!Abort
  BY <1>11 DEF Route!Abort, Editors
<1>12. CASE Route!Bounce
  BY <1>12 DEF Route!Bounce, Route!Ended
<1>13. CASE Route!Finished
  BY <1>13 DEF Route!Finished, Editors
<1>14. ASSUME NEW s \in Route!Screens, Route!ScreenKey(s) PROVE RouteInv'
  BY <1>14 DEF Route!ScreenKey, Route!Answers, Route!Services
<1>15. ASSUME NEW s \in Route!Screens, Route!OpenSub(s) PROVE RouteInv'
  BY <1>15 DEF Route!OpenSub, Route!Ended
<1>16. ASSUME NEW b \in Books, Route!SwitchLogbook(b) PROVE RouteInv'
  BY <1>16 DEF Route!SwitchLogbook
<1>17. ASSUME NEW mode \in {"list", "form", "running"}, Route!EditorActs(mode) PROVE RouteInv'
  BY <1>17 DEF Route!EditorActs, Route!Ended, Editors
<1>18. ASSUME NEW s \in Route!Services, Route!Service(s) PROVE RouteInv'
  BY <1>18 DEF Route!Service
<1> QED BY <1>0, <1>1, <1>2, <1>3, <1>4, <1>5, <1>6, <1>7, <1>8, <1>9, <1>10, <1>11, <1>12, <1>13, <1>14, <1>15,
            <1>16, <1>17, <1>18 DEF Route!RouteNext

\* And it implies what is checked.
LEMMA RouteSafe == ASSUME RouteInv PROVE Route!OperationInView /\ Route!ScreenHasModel /\ Route!OneOverlay
  BY DEF RouteInv

-----------------------------------------------------------------------------
(* The desk. *)

\* A component that runs begins as it says.
LEMMA PanelStart ==
  ASSUME DeskInit
  PROVE  /\ part = "feed" => Feed!DashboardFeedInit
         /\ part = "stream" => Web!DashboardStreamInit
         /\ part = "server" => Web!DashboardServerInit
         /\ part = "tls" => Tls!HybridListenerInit
         /\ part = "pump" => Pump!DownloadPumpInit
         /\ part = "spots" => Table!SpotInit
         /\ part = "focus" => Focus!FocusInit
         /\ part = "picker" => Picker!PickerInit
         /\ part = "psk" => PSK!PSKInit
         /\ part = "net" => Net!ConnInit
         /\ part = "solar" => Solar!SolarInit
         /\ part = "recent" => Recent!TableInit
         /\ part = "route" => Route!RouteInit
  BY DEF DeskInit

\* It takes its own steps, or rests: the components share no state.
LEMMA PanelStep ==
  ASSUME [DeskNext]_allVars
  PROVE  /\ part' = part
         /\ part = "feed" => [Feed!DashboardFeedNext]_(Feed!feedVars)
         /\ part = "stream" => [Web!DashboardStreamNext]_(Web!streamVars)
         /\ part = "server" => [Web!DashboardServerNext]_(Web!serverVars)
         /\ part = "tls" => [Tls!HybridListenerNext]_(Tls!listenerVars)
         /\ part = "pump" => [Pump!DownloadPumpNext]_(Pump!pumpVars)
         /\ part = "spots" => [Table!SpotNext]_(Table!spotVars)
         /\ part = "focus" => [Focus!FocusNext]_(Focus!focusVars)
         /\ part = "picker" => [Picker!PickerNext]_(Picker!pickVars)
         /\ part = "psk" => [PSK!PSKNext]_(PSK!pskVars)
         /\ part = "net" => [Net!ConnNext]_(Net!connVars)
         /\ part = "solar" => [Solar!SolarNext]_(Solar!solarVars)
         /\ part = "recent" => [Recent!TableNext]_(Recent!tableVars)
         /\ part = "route" => [Route!RouteNext]_(Route!routeVars)
<1>1. CASE UNCHANGED allVars
  <2>1. /\ part' = part /\ v1' = v1 /\ v2' = v2 /\ v3' = v3 /\ v4' = v4 /\ v5' = v5 /\ v6' = v6 /\ v7' = v7
        /\ v8' = v8 /\ v9' = v9 /\ v10' = v10 /\ v11' = v11 /\ v12' = v12 /\ v13' = v13 /\ v14' = v14
        /\ v15' = v15 /\ v16' = v16 /\ v17' = v17 /\ v18' = v18 /\ v19' = v19
    BY <1>1 DEF allVars, r7, r8, r9, r10, r11, r12, r13, r14, r15, r17, to8
  <2> QED BY <2>1 DEF Feed!feedVars, Web!streamVars, Web!serverVars, Tls!listenerVars, Pump!pumpVars,
          Table!spotVars, Focus!focusVars, Picker!pickVars, PSK!pskVars, Net!connVars, Solar!solarVars,
          Recent!tableVars, Route!routeVars
<1>2. CASE DeskNext
  BY <1>2 DEF DeskNext, ListRuns, FormRuns, LookupRuns, CascadeRuns, SessionsRuns, DupeRuns, EntryRuns,
        DeletionRuns, FeedRuns, StreamRuns, ServerRuns, TlsRuns, PumpRuns, TableRuns, FocusRuns, PickerRuns,
        PSKRuns, NetRuns, SolarRuns, RecentRuns, RouteRuns
<1> QED BY <1>1, <1>2

\* The invariant of the component that runs.
BoardInv ==
    /\ part = "feed" => FeedInv
    /\ part = "stream" => StreamInv
    /\ part = "server" => ServerInv
    /\ part = "tls" => TlsInv

\* For any number of contacts, browsers, servers and connections: the dashboard comes to show
\* the open logbook and its true totals where their last query did not fail, a browser misses
\* nothing that was buffered for it and never goes back, a restart finds the port free, and
\* slots and connections are given up.
THEOREM BoardIsSafe == DeskSpec => BoardSafe
<1>1. DeskInit => BoardInv
  BY PanelStart, FeedStart, StreamStart, ServerStart, TlsStart DEF BoardInv
<1>2. BoardInv /\ [DeskNext]_allVars => BoardInv'
  BY PanelStep, FeedStep, StreamStep, ServerStep, TlsStep DEF BoardInv
<1>3. BoardInv => /\ part = "feed" => Feed!BoardShowsLog /\ Feed!CachedTotalsAreTrue
                  /\ part = "stream" => Web!StreamIsComplete /\ Web!SlotsAreReturned
                  /\ part = "server" => Web!OnlineIsListening
                  /\ part = "tls" => Tls!NoneLeftBehind /\ Tls!SlotsAreHeld
  BY FeedSafe, StreamSafe, ServerSafe, TlsSafe DEF BoardInv
<1>4. BoardInv /\ [DeskNext]_allVars => (/\ part = "stream" => Web!StreamNeverGoesBack
                                         /\ part = "server" => Web!RestartFreesThePort)
  BY PanelStep, StreamStep, ServerStep DEF BoardInv
<1> QED BY <1>1, <1>2, <1>3, <1>4, PTL DEF DeskSpec, BoardSafe

\* The invariant of the component that runs.
PanelsInv ==
    /\ part = "pump" => PumpInv
    /\ part = "spots" => TableInv
    /\ part = "focus" => FocusInv
    /\ part = "picker" => PickerInv
    /\ part = "psk" => PSKInv
    /\ part = "net" => NetInv
    /\ part = "solar" => SolarInv
    /\ part = "recent" => RecentInv
    /\ part = "route" => RouteInv

\* For any number of operations, spots, servers, checks and reloads: what a panel, a menu or a
\* form shows is of what it stands beside, no spot is missed, an offline server is asked again
\* (after an edit of its link, once the menu is left with Escape), a callsign that was answered is
\* not asked for twice while its file or the memory of its fetch lasts, and the keys reach the
\* screen that is drawn.
THEOREM PanelsAreSafe == DeskSpec => PanelsSafe
<1>1. DeskInit => PanelsInv
  BY PanelStart, PumpStart, TableStart, FocusStart, PickerStart, PSKStart, NetStart, SolarStart, RecentStart,
     RouteStart DEF PanelsInv
<1>2. PanelsInv /\ [DeskNext]_allVars => PanelsInv'
  BY PanelStep, PumpStep, TableStep, FocusStep, PickerStep, PSKStep, NetStep, SolarStep, RecentStep, RouteStep DEF PanelsInv
<1>3. PanelsInv => /\ part = "pump" => Pump!AlwaysBeingRead /\ Pump!ResultIsHonest
                   /\ part = "spots" => Table!SelectedIsHighlighted /\ Table!NoSpotIsMissed
                   /\ part = "focus" => Focus!OneMarker /\ Focus!HiddenNeverFocused /\ Focus!AllReachable
                   /\ part = "picker" => Picker!ListIsOfForm /\ Picker!ProfileIsOfChosen
                   /\ part = "psk" => PSK!SpotsMatchKey /\ PSK!AskedOnce
                   /\ part = "net" => Net!NeverForgotten
                   /\ part = "solar" => Solar!ServerIsSpared
                   /\ part = "recent" => Recent!TableIsOfBook /\ Recent!TableIsLog
                   /\ part = "route" => Route!OperationInView /\ Route!ScreenHasModel /\ Route!OneOverlay
  BY PumpSafe, TableSafe, FocusSafe, PickerSafe, PSKSafe, NetSafe, SolarSafe, RecentSafe, RouteSafe DEF PanelsInv
<1>4. PanelsInv /\ [DeskNext]_allVars => (/\ part = "spots" => Table!SelectionFollowsCall
                                          /\ part = "focus" => Focus!VerdictIsForForm)
  BY PanelStep, TableStep, FocusStep DEF PanelsInv
<1> QED BY <1>1, <1>2, <1>3, <1>4, PTL DEF DeskSpec, PanelsSafe

=============================================================================
