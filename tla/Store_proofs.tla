---------------------------- MODULE Store_proofs ----------------------------
(***************************************************************************)
(* Why what CQOps keeps on disk survives: the schema of a logbook, however *)
(* often its migration is cut short; the credential, whichever of the two  *)
(* files a save reaches; and the catalog with its selections.              *)
(*                                                                         *)
(* MigInv pairs what every file holds (Stored) with what the migration     *)
(* has achieved before the k-th statement of its path (Reached): each      *)
(* object is there or its statement is still ahead.  SecretsInv says what  *)
(* holds between the two writes of a save.  CatInv adds to the catalog's   *)
(* properties that a removed database is not listed in the config in use   *)
(* either, and that a station sync belongs to an edit that was counted.    *)
(***************************************************************************)
EXTENDS MCStore, SequenceTheorems, FiniteSetTheorems, TLAPS

-----------------------------------------------------------------------------
(* Migrations. *)

\* What a path is made of.
Statements ==
    {"qsos", "idx_wavelog_id", "idx_base_call", "idx_dirty", "worked_tables",
     "dxcc", "wavelog_id", "wavelog_dirty", "wavelog_dirty_rev", "base_call", "submode",
     "drop_flag_index", "drop_flag", "drop_redundant", "dxcc_source", "confirmed_count", "probe",
     "backfill", "rules", "version"}

\* Two sequences, one after the other.
IsJoint(u, s, t) ==
    /\ u \in Seq(Statements) /\ Len(u) = Len(s) + Len(t)
    /\ \A i \in 1..Len(s) : u[i] = s[i]
    /\ \A i \in 1..Len(t) : u[Len(s) + i] = t[i]

\* Two sequences of statements joined: the first, then the second.
LEMMA JointOf ==
  ASSUME NEW s \in Seq(Statements), NEW t \in Seq(Statements)
  PROVE  IsJoint(s \o t, s, t)
<1>1. /\ s \o t \in Seq(Statements) /\ Len(s \o t) = Len(s) + Len(t)
      /\ \A i \in 1..Len(s) + Len(t) : (s \o t)[i] = IF i <= Len(s) THEN s[i] ELSE t[i - Len(s)]
  BY ConcatProperties
<1>2. ASSUME NEW i \in 1..Len(s) PROVE (s \o t)[i] = s[i]
  BY <1>1
<1>3. ASSUME NEW i \in 1..Len(t) PROVE (s \o t)[Len(s) + i] = t[i]
  <2>1. Len(s) + i \in 1..Len(s) + Len(t) /\ ~(Len(s) + i <= Len(s)) /\ Len(s) + i - Len(s) = i
    OBVIOUS
  <2> QED BY <1>1, <2>1
<1> QED BY <1>1, <1>2, <1>3 DEF IsJoint

\* CommonSteps as one sequence.
Common ==
    <<"dxcc", "wavelog_id", "wavelog_dirty", "wavelog_dirty_rev", "base_call", "submode",
      "idx_wavelog_id", "drop_flag_index", "drop_flag", "drop_redundant",
      "worked_tables", "dxcc_source", "confirmed_count", "probe">>

\* The steps both paths take, written out.
LEMMA CommonIs == Mig!CommonSteps = Common /\ Common \in Seq(Statements) /\ Len(Common) = 14
<1> DEFINE t == <<"idx_wavelog_id", "drop_flag_index", "drop_flag", "drop_redundant",
                  "worked_tables", "dxcc_source", "confirmed_count", "probe">>
           s == Mig!AddColumns
           u == Common
<1>1. s \in Seq(Statements) /\ Len(s) = 6
  BY DEF Mig!AddColumns, Statements
<1>2. t \in Seq(Statements) /\ Len(t) = 8
  BY DEF Statements
<1>3. u \in Seq(Statements) /\ Len(u) = 14
  BY DEF Statements, Common
<1>4. \A i \in 1..6 : u[i] = s[i]
  BY DEF Mig!AddColumns, Common
<1>5. \A i \in 1..8 : u[6 + i] = t[i]
  BY DEF Common
<1>6. PICK c : c = s \o t
  OBVIOUS
<1>7. PICK m \in Nat, n \in Nat : m = 6 /\ n = 8
  OBVIOUS
<1>8. Mig!CommonSteps = c
  BY <1>6 DEF Mig!CommonSteps
<1> HIDE DEF s, t, u
<1>9. /\ c \in Seq(Statements) /\ Len(c) = m + n
      /\ \A i \in 1..m : c[i] = s[i]
      /\ \A i \in 1..n : c[m + i] = t[i]
  <2>1. IsJoint(c, s, t)
    BY <1>1, <1>2, <1>6, JointOf, Zenon
  <2> QED BY <1>1, <1>2, <1>7, <2>1 DEF IsJoint
<1>10. ASSUME NEW i \in 1..14 PROVE c[i] = u[i]
  <2>1. CASE i \in 1..6
    BY <1>4, <1>7, <1>9, <2>1
  <2>2. CASE i \notin 1..6
    <3>1. PICK j : j = i - 6
      OBVIOUS
    <3>2. j \in 1..8 /\ i = 6 + j
      BY <2>2, <3>1
    <3>3. c[6 + j] = t[j] /\ u[6 + j] = t[j]
      BY <1>5, <1>7, <1>9, <3>2
    <3> QED BY <3>2, <3>3
  <2> QED BY <2>1, <2>2
<1>11. c = u
  <2>1. Len(c) = 14
    BY <1>7, <1>9
  <2> QED BY <1>3, <1>9, <1>10, <2>1, SeqEqual
<1> QED BY <1>3, <1>8, <1>11 DEF u

\* A current database takes them and checks the rules.
LEMMA CurrentIs ==
  /\ Mig!CurrentSteps \in Seq(Statements) /\ Len(Mig!CurrentSteps) = 15
  /\ \A i \in 1..14 : Mig!CurrentSteps[i] = Common[i]
  /\ Mig!CurrentSteps[15] = "rules"
<1> DEFINE t == <<"rules">>
<1>1. t \in Seq(Statements) /\ Len(t) = 1 /\ t[1] = "rules"
  BY DEF Statements
<1>2. Mig!CurrentSteps = Common \o t
  BY CommonIs DEF Mig!CurrentSteps
<1>3. PICK m \in Nat, n \in Nat : m = 14 /\ n = 1
  OBVIOUS
<1> HIDE DEF t
<1>4. /\ Mig!CurrentSteps \in Seq(Statements) /\ Len(Mig!CurrentSteps) = m + n
      /\ \A i \in 1..m : Mig!CurrentSteps[i] = Common[i]
      /\ \A i \in 1..n : Mig!CurrentSteps[m + i] = t[i]
  <2>1. IsJoint(Mig!CurrentSteps, Common, t)
    BY <1>1, <1>2, CommonIs, JointOf, Zenon
  <2> QED BY <1>1, <1>3, <2>1, CommonIs DEF IsJoint
<1>5. Mig!CurrentSteps[14 + 1] = t[1]
  BY <1>3, <1>4
<1> QED BY <1>1, <1>3, <1>4, <1>5

\* An older one takes the base list first; contacts, rules and version come last.
LEMMA UpgradeIs ==
  /\ Mig!UpgradeSteps \in Seq(Statements) /\ Len(Mig!UpgradeSteps) = 22
  /\ \A i \in 1..5 : Mig!UpgradeSteps[i] = Mig!BaseList[i]
  /\ \A i \in 1..14 : Mig!UpgradeSteps[5 + i] = Common[i]
  /\ Mig!UpgradeSteps[20] = "backfill" /\ Mig!UpgradeSteps[21] = "rules" /\ Mig!UpgradeSteps[22] = "version"
<1> DEFINE t == <<"backfill", "rules", "version">>
           s == Mig!BaseList
<1>0. PICK h, u : h = s \o Common /\ u = h \o t
  OBVIOUS
<1>1. t \in Seq(Statements) /\ Len(t) = 3 /\ t[1] = "backfill" /\ t[2] = "rules" /\ t[3] = "version"
  BY DEF Statements
<1>2. s \in Seq(Statements) /\ Len(s) = 5
  BY DEF Mig!BaseList, Statements
<1>3. Mig!UpgradeSteps = (s \o Common) \o t
  BY CommonIs DEF Mig!UpgradeSteps
<1>4. Mig!UpgradeSteps = u
  BY <1>0, <1>3
<1>5. PICK m \in Nat, n \in Nat, l \in Nat, k \in Nat : m = 5 /\ n = 14 /\ l = 19 /\ k = 3
  OBVIOUS
<1> HIDE DEF s, t
<1>6. /\ h \in Seq(Statements) /\ Len(h) = m + n
      /\ \A i \in 1..m : h[i] = s[i]
      /\ \A i \in 1..n : h[m + i] = Common[i]
  <2>1. IsJoint(h, s, Common)
    BY <1>0, <1>2, CommonIs, JointOf, Zenon
  <2> QED BY <1>2, <1>5, <2>1, CommonIs DEF IsJoint
<1>7. Len(h) = l
  BY <1>5, <1>6
<1>8. /\ u \in Seq(Statements) /\ Len(u) = l + k
      /\ \A i \in 1..l : u[i] = h[i]
      /\ \A i \in 1..k : u[l + i] = t[i]
  <2>1. IsJoint(u, h, t)
    BY <1>0, <1>1, <1>6, JointOf, Zenon
  <2> QED BY <1>1, <1>5, <1>7, <2>1 DEF IsJoint
<1>9. \A i \in 1..5 : u[i] = s[i]
  <2> TAKE i \in 1..5
  <2>1. i \in 1..l /\ i \in 1..m
    BY <1>5
  <2>2. u[i] = h[i]
    BY <1>8, <2>1
  <2>3. h[i] = s[i]
    BY <1>6, <2>1
  <2> QED BY <2>2, <2>3
<1>10. \A i \in 1..14 : u[5 + i] = Common[i]
  <2> TAKE i \in 1..14
  <2>1. 5 + i \in 1..l
    BY <1>5
  <2>2. h[5 + i] = Common[i]
    BY <1>5, <1>6
  <2> QED BY <1>8, <2>1, <2>2
<1>11. u[19 + 1] = t[1] /\ u[19 + 2] = t[2] /\ u[19 + 3] = t[3]
  BY <1>5, <1>8
<1> QED BY <1>1, <1>4, <1>5, <1>8, <1>9, <1>10, <1>11 DEF s


\* What an open logbook must have, and what it must have lost.
Objects == Mig!Columns \cup Mig!WorkedColumns \cup {"qsos", "worked_tables"}
Drops == {"drop_flag_index", "drop_flag", "drop_redundant"}

\* Where the steps that order matters for stand in the upgrade.
LEMMA UpgradeOrder ==
  /\ \A k \in 1..22 : /\ Mig!UpgradeSteps[k] = "probe" => k = 19
                      /\ Mig!UpgradeSteps[k] = "backfill" <=> k = 20
                      /\ Mig!UpgradeSteps[k] = "rules" <=> k = 21
                      /\ Mig!UpgradeSteps[k] = "version" <=> k = 22
  /\ \A o \in Objects \cup Drops : \E k \in 1..22 : Mig!UpgradeSteps[k] = o
<1>1. ASSUME NEW k \in 1..5
      PROVE  Mig!UpgradeSteps[k] \notin {"probe", "backfill", "rules", "version"}
  <2>1. Mig!UpgradeSteps[k] = Mig!BaseList[k]
    BY UpgradeIs
  <2>2. k = 1 \/ k = 2 \/ k = 3 \/ k = 4 \/ k = 5
    OBVIOUS
  <2>3. Mig!BaseList[k] \in {"qsos", "idx_wavelog_id", "idx_base_call", "idx_dirty", "worked_tables"}
    BY <2>2 DEF Mig!BaseList
  <2> QED BY <2>1, <2>3
<1>2. ASSUME NEW k \in 6..19
      PROVE  Mig!UpgradeSteps[k] \notin {"backfill", "rules", "version"} /\ (Mig!UpgradeSteps[k] = "probe" => k = 19)
  <2>1. PICK i : i = k - 5
    OBVIOUS
  <2>2. i \in 1..14 /\ 5 + i = k
    BY <2>1
  <2>3. Mig!UpgradeSteps[k] = Common[i]
    BY <2>2, UpgradeIs
  <2>4. Common[i] \notin {"backfill", "rules", "version"} /\ (Common[i] = "probe" => i = 14)
    BY <2>2 DEF Common
  <2> QED BY <2>2, <2>3, <2>4
<1>3. ASSUME NEW k \in 1..22
      PROVE  /\ Mig!UpgradeSteps[k] = "probe" => k = 19
             /\ Mig!UpgradeSteps[k] = "backfill" <=> k = 20
             /\ Mig!UpgradeSteps[k] = "rules" <=> k = 21
             /\ Mig!UpgradeSteps[k] = "version" <=> k = 22
  <2>1. CASE k \in 1..5
    BY <1>1, <2>1
  <2>2. CASE k \in 6..19
    BY <1>2, <2>2
  <2>3. CASE k = 20 \/ k = 21 \/ k = 22
    BY <2>3, UpgradeIs
  <2> QED BY <2>1, <2>2, <2>3
<1>4. ASSUME NEW o \in Objects \cup Drops PROVE \E k \in 1..22 : Mig!UpgradeSteps[k] = o
  <2>1. CASE o = "qsos"
    <3>1. Mig!UpgradeSteps[1] = "qsos"
      BY UpgradeIs DEF Mig!BaseList
    <3> QED BY <2>1, <3>1
  <2>2. CASE o # "qsos"
    <3>1. \E i \in 1..14 : Common[i] = o
      <4>1. o \in {"dxcc", "wavelog_id", "wavelog_dirty", "wavelog_dirty_rev", "base_call", "submode",
                   "drop_flag_index", "drop_flag", "drop_redundant", "worked_tables",
                   "dxcc_source", "confirmed_count"}
        BY <2>2 DEF Objects, Mig!Columns, Mig!WorkedColumns, Drops
      <4>2. /\ Common[1] = "dxcc" /\ Common[2] = "wavelog_id" /\ Common[3] = "wavelog_dirty"
            /\ Common[4] = "wavelog_dirty_rev" /\ Common[5] = "base_call" /\ Common[6] = "submode"
            /\ Common[8] = "drop_flag_index" /\ Common[9] = "drop_flag" /\ Common[10] = "drop_redundant"
            /\ Common[11] = "worked_tables" /\ Common[12] = "dxcc_source" /\ Common[13] = "confirmed_count"
        BY DEF Common
      <4> HIDE DEF Common
      <4> QED BY <4>1, <4>2
    <3>2. PICK i \in 1..14 : Common[i] = o
      BY <3>1
    <3>3. Mig!UpgradeSteps[5 + i] = o /\ 5 + i \in 1..22
      BY <3>2, UpgradeIs
    <3> QED BY <3>3
  <2> QED BY <2>1, <2>2
<1> QED BY <1>3, <1>4

\* The same for a current database, whose table is there.
LEMMA CurrentOrder ==
  /\ \A k \in 1..15 : /\ Mig!CurrentSteps[k] # "backfill" /\ Mig!CurrentSteps[k] # "version"
                      /\ Mig!CurrentSteps[k] = "rules" <=> k = 15
  /\ \A o \in (Objects \cup Drops) \ {"qsos"} : \E k \in 1..15 : Mig!CurrentSteps[k] = o
<1>1. ASSUME NEW k \in 1..15
      PROVE  /\ Mig!CurrentSteps[k] # "backfill" /\ Mig!CurrentSteps[k] # "version"
             /\ Mig!CurrentSteps[k] = "rules" <=> k = 15
  <2>1. CASE k \in 1..14
    BY <2>1, CurrentIs DEF Common
  <2>2. CASE k = 15
    BY <2>2, CurrentIs
  <2> QED BY <2>1, <2>2
<1>2. ASSUME NEW o \in (Objects \cup Drops) \ {"qsos"} PROVE \E k \in 1..15 : Mig!CurrentSteps[k] = o
  <2>1. o \in {"dxcc", "wavelog_id", "wavelog_dirty", "wavelog_dirty_rev", "base_call", "submode",
               "drop_flag_index", "drop_flag", "drop_redundant", "worked_tables",
               "dxcc_source", "confirmed_count"}
    BY DEF Objects, Mig!Columns, Mig!WorkedColumns, Drops
  <2>2. /\ Common[1] = "dxcc" /\ Common[2] = "wavelog_id" /\ Common[3] = "wavelog_dirty"
        /\ Common[4] = "wavelog_dirty_rev" /\ Common[5] = "base_call" /\ Common[6] = "submode"
        /\ Common[8] = "drop_flag_index" /\ Common[9] = "drop_flag" /\ Common[10] = "drop_redundant"
        /\ Common[11] = "worked_tables" /\ Common[12] = "dxcc_source" /\ Common[13] = "confirmed_count"
    BY DEF Common
  <2> HIDE DEF Common
  <2>3. PICK i \in 1..14 : Common[i] = o
    BY <2>1, <2>2
  <2>4. Mig!CurrentSteps[i] = o /\ i \in 1..15
    BY <2>3, CurrentIs
  <2> QED BY <2>4
<1> QED BY <1>1, <1>2

\* What is left of a path, and how it shortens.
LEMMA RestOf ==
  ASSUME NEW S \in Seq(Statements), NEW k \in 1..Len(S) + 1
  PROVE  /\ SubSeq(S, k, Len(S)) = <<>> <=> k = Len(S) + 1
         /\ k \in 1..Len(S) => /\ Head(SubSeq(S, k, Len(S))) = S[k]
                               /\ Tail(SubSeq(S, k, Len(S))) = SubSeq(S, k + 1, Len(S))
<1>0. PICK t : t = SubSeq(S, k, Len(S))
  OBVIOUS
<1>1. Len(S) \in Nat
  OBVIOUS
<1>2. Len(t) = Len(S) - k + 1
  BY <1>0, <1>1
<1>3. t = <<>> <=> k = Len(S) + 1
  <2>1. t \in Seq(Statements)
    BY <1>0
  <2>2. t # <<>> => Len(t) # 0
    BY <2>1, EmptySeq
  <2>3. t = <<>> => Len(t) = 0
    OBVIOUS
  <2>4. Len(t) = 0 <=> k = Len(S) + 1
    BY <1>1, <1>2
  <2> QED BY <2>2, <2>3, <2>4
<1>4. ASSUME k \in 1..Len(S) PROVE Head(t) = S[k] /\ Tail(t) = SubSeq(S, k + 1, Len(S)) /\ t # <<>>
  BY <1>0, <1>1, <1>3, <1>4
<1> QED BY <1>0, <1>3, <1>4


\* The statements of the migration under way.
Path == IF upgrade THEN Mig!UpgradeSteps ELSE Mig!CurrentSteps

\* What every file holds, between two statements and between two starts.
Stored ==
    /\ upgrade \in BOOLEAN
    /\ version \in 0..Mig!schemaVersion
    /\ version = Mig!schemaVersion =>
          "qsos" \in have /\ based = logged /\ (rules = "current" => counted = logged)

\* What a migration has achieved before the k-th statement of its path.
Reached(k) ==
    /\ \A o \in Objects : o \in have \/ \E j \in k..Len(Path) : Path[j] = o
    /\ "idx_flag" \in have => \E j \in k..Len(Path) : Path[j] = "drop_flag_index"
    /\ "flag" \in have => \E j \in k..Len(Path) : Path[j] = "drop_flag"
    /\ "idx_country" \in have => \E j \in k..Len(Path) : Path[j] = "drop_redundant"
    /\ upgrade /\ k > 20 => based = logged
    /\ upgrade /\ k > 21 => counted = logged /\ rules = "current"
    /\ upgrade /\ k > 22 => version = Mig!schemaVersion
    /\ ~upgrade => version = Mig!schemaVersion
    /\ ~upgrade /\ k > 15 => rules = "current"

\* The inductive invariant.
MigInv ==
    /\ Stored
    /\ todo # <<"closed">> =>
          \E k \in 1..Len(Path) + 1 : todo = SubSeq(Path, k, Len(Path)) /\ Reached(k)

\* The path is one of the two.
LEMMA PathIs ==
  ASSUME upgrade \in BOOLEAN
  PROVE  /\ Path \in Seq(Statements) /\ Len(Path) \in Nat
         /\ upgrade => Path = Mig!UpgradeSteps /\ Len(Path) = 22
         /\ ~upgrade => Path = Mig!CurrentSteps /\ Len(Path) = 15
  BY UpgradeIs, CurrentIs DEF Path

\* Each statement moves one further.
LEMMA Moves ==
  ASSUME Stored, NEW k \in 1..Len(Path) + 1, todo = SubSeq(Path, k, Len(Path)), todo # <<>>
  PROVE  /\ k \in 1..Len(Path) /\ Head(todo) = Path[k] /\ k + 1 \in 1..Len(Path) + 1
         /\ Tail(todo) = SubSeq(Path, k + 1, Len(Path))
<1>1. Path \in Seq(Statements) /\ Len(Path) \in Nat
  BY PathIs DEF Stored
<1>2. PICK S, t : S = Path /\ t = todo
  OBVIOUS
<1>3. S \in Seq(Statements) /\ k \in 1..Len(S) + 1 /\ t = SubSeq(S, k, Len(S))
  BY <1>1, <1>2
<1>4. /\ SubSeq(S, k, Len(S)) = <<>> <=> k = Len(S) + 1
      /\ k \in 1..Len(S) => /\ Head(SubSeq(S, k, Len(S))) = S[k]
                            /\ Tail(SubSeq(S, k, Len(S))) = SubSeq(S, k + 1, Len(S))
  BY <1>3, RestOf, Zenon
<1>5. k \in 1..Len(S)
  BY <1>1, <1>2, <1>3, <1>4
<1> QED BY <1>1, <1>2, <1>3, <1>4, <1>5

\* The open logbook is at the end of its path.
LEMMA AtTheEnd ==
  ASSUME Stored, NEW k \in 1..Len(Path) + 1, todo = SubSeq(Path, k, Len(Path)), todo = <<>>
  PROVE  k = Len(Path) + 1
<1>1. Path \in Seq(Statements) /\ Len(Path) \in Nat
  BY PathIs DEF Stored
<1> QED BY <1>1, RestOf

\* An open logbook is at the end of its path, so nothing is ahead of it.
LEMMA InvIsMigrated == ASSUME MigInv PROVE Mig!OpenIsMigrated /\ Mig!VersionVouches
<1>1. Mig!VersionVouches
  BY DEF MigInv, Stored, Mig!VersionVouches
<1>2. ASSUME todo = <<>>
      PROVE  /\ Mig!Columns \cup Mig!WorkedColumns \cup {"qsos", "worked_tables"} \subseteq have
             /\ have \cap {"flag", "idx_flag", "idx_country"} = {}
             /\ version = Mig!schemaVersion /\ rules = "current"
             /\ based = logged /\ counted = logged
  <2>1. PICK k \in 1..Len(Path) + 1 : todo = SubSeq(Path, k, Len(Path)) /\ Reached(k)
    BY <1>2 DEF MigInv
  <2>2. k = Len(Path) + 1
    BY <1>2, <2>1, AtTheEnd DEF MigInv
  <2>3. Len(Path) \in Nat /\ (upgrade => Len(Path) = 22) /\ (~upgrade => Len(Path) = 15)
    BY PathIs DEF MigInv, Stored
  <2>4. \A j : j \notin k..Len(Path)
    BY <2>2, <2>3
  <2>5. /\ \A o \in Objects : o \in have
        /\ "idx_flag" \notin have /\ "flag" \notin have /\ "idx_country" \notin have
    BY <2>1, <2>4 DEF Reached
  <2>6. version = Mig!schemaVersion /\ rules = "current"
    <3>1. CASE upgrade
      <4>1. k > 22 /\ k > 21
        BY <2>2, <2>3, <3>1
      <4> QED BY <2>1, <3>1, <4>1 DEF Reached
    <3>2. CASE ~upgrade
      <4>0. Len(Path) = 15
        BY <2>3, <3>2, Zenon
      <4>1. k > 15
        BY <2>2, <4>0
      <4>2. (~upgrade => version = Mig!schemaVersion) /\ (~upgrade /\ k > 15 => rules = "current")
        BY <2>1 DEF Reached
      <4> QED BY <3>2, <4>1, <4>2, Zenon
    <3> QED BY <3>1, <3>2 DEF MigInv, Stored
  <2> QED BY <2>5, <2>6 DEF Objects, MigInv, Stored
<1> QED BY <1>1, <1>2 DEF Mig!OpenIsMigrated

\* A file of any release: nothing is promised beyond its version.
LEMMA MigStart == ASSUME Mig!MigInit PROVE MigInv
<1>1. upgrade \in BOOLEAN /\ todo = <<"closed">> /\ version \in 0..Mig!schemaVersion
  BY DEF Mig!MigInit, Mig!schemaVersion
<1>2. ASSUME version = Mig!schemaVersion
      PROVE  "qsos" \in have /\ based = logged /\ (rules = "current" => counted = logged)
  <2>1. version = 4
    BY <1>2 DEF Mig!schemaVersion
  <2>2. "qsos" \in have
    BY <2>1 DEF Mig!MigInit, Mig!Released
  <2>3. based = logged
    BY <2>1 DEF Mig!MigInit
  <2>4. rules \in {"old"} \cup (IF counted = logged THEN {"current"} ELSE {})
    BY <2>1 DEF Mig!MigInit
  <2> QED BY <2>2, <2>3, <2>4
<1> QED BY <1>1, <1>2 DEF MigInv, Stored


\* Every statement of the migration keeps the invariant.
LEMMA StatementStep ==
  ASSUME MigInv, Mig!Step PROVE MigInv'
<1>0. Stored /\ upgrade \in BOOLEAN /\ todo # <<>> /\ todo # <<"closed">>
  BY DEF MigInv, Stored, Mig!Step, Mig!Create, Mig!DropFlagIndex, Mig!DropFlag, Mig!DropRedundant,
        Mig!Probe, Mig!Backfill,
         Mig!EnsureRules, Mig!WriteVersion, Mig!Executing, Mig!BaseList, Mig!ToSet, Mig!Columns, Mig!WorkedColumns
<1>1. PICK k \in 1..Len(Path) + 1 : todo = SubSeq(Path, k, Len(Path)) /\ Reached(k)
  BY <1>0 DEF MigInv
<1>2. /\ k \in 1..Len(Path) /\ Head(todo) = Path[k] /\ k + 1 \in 1..Len(Path) + 1
      /\ Tail(todo) = SubSeq(Path, k + 1, Len(Path))
  BY <1>0, <1>1, Moves
<1>3. upgrade' = upgrade /\ logged' = logged /\ Path' = Path
  BY DEF Mig!Step, Mig!Create, Mig!DropFlagIndex, Mig!DropFlag, Mig!DropRedundant, Mig!Probe, Mig!Backfill,
         Mig!EnsureRules, Mig!WriteVersion, Mig!Goes, Path
<1>4. PICK n \in Nat : n = Len(Path)
  BY <1>0, PathIs
<1>5. (upgrade => Path = Mig!UpgradeSteps /\ n = 22) /\ (~upgrade => Path = Mig!CurrentSteps /\ n = 15)
  BY <1>0, <1>4, PathIs
<1>6. \A x : (\E j \in k..n : Path[j] = x) => Head(todo) = x \/ \E j \in k + 1..n : Path[j] = x
  <2> TAKE x
  <2> HAVE \E j \in k..n : Path[j] = x
  <2> QED BY <1>2, <1>4
\* Where the statements are that order matters for.
<1>7. /\ Head(todo) = "probe" => ~upgrade \/ k = 19
      /\ Head(todo) = "backfill" <=> upgrade /\ k = 20
      /\ Head(todo) = "rules" <=> (upgrade /\ k = 21) \/ (~upgrade /\ k = 15)
      /\ Head(todo) = "version" <=> upgrade /\ k = 22
  <2>1. CASE upgrade
    <3>1. Path[k] = Mig!UpgradeSteps[k] /\ k \in 1..22
      BY <1>2, <1>4, <1>5, <2>1
    <3> QED BY <1>2, <2>1, <3>1, UpgradeOrder
  <2>2. CASE ~upgrade
    <3>1. Path[k] = Mig!CurrentSteps[k] /\ k \in 1..15
      BY <1>2, <1>4, <1>5, <2>2
    <3> QED BY <1>2, <2>2, <3>1, CurrentOrder
  <2> QED BY <2>1, <2>2
<1>8. k \in 1..n /\ (upgrade => k \in 1..22) /\ (~upgrade => k \in 1..15)
  BY <1>2, <1>4, <1>5
<1>9. ASSUME Mig!Backfill, based # logged PROVE MigInv'
  <2>1. /\ todo' = todo /\ have' = have /\ counted' = counted /\ rules' = rules /\ version' = version
        /\ Head(todo) = "backfill"
    BY <1>9 DEF Mig!Backfill, Mig!Executing
  <2>2. upgrade /\ k = 20 /\ version # Mig!schemaVersion
    BY <1>0, <1>7, <1>9, <2>1 DEF Stored
  <2>3. Stored'
    BY <1>0, <1>3, <2>1, <2>2 DEF Stored, Mig!schemaVersion
  <2>4. Reached(k)'
    BY <1>1, <1>3, <2>1, <2>2 DEF Reached, Mig!schemaVersion
  <2> QED BY <1>1, <1>3, <2>1, <2>3, <2>4 DEF MigInv
<1>10. ASSUME Mig!Goes, Stored',
              \A o \in Objects : o \in have \/ Head(todo) = o => o \in have',
              "idx_flag" \in have' => "idx_flag" \in have /\ Head(todo) # "drop_flag_index",
              "flag" \in have' => "flag" \in have /\ Head(todo) # "drop_flag",
              "idx_country" \in have' => "idx_country" \in have /\ Head(todo) # "drop_redundant",
              upgrade /\ k + 1 > 20 => based' = logged',
              upgrade /\ k + 1 > 21 => counted' = logged' /\ rules' = "current",
              upgrade /\ k + 1 > 22 => version' = Mig!schemaVersion,
              ~upgrade => version' = Mig!schemaVersion,
              ~upgrade /\ k + 1 > 15 => rules' = "current"
       PROVE  MigInv'
  <2>1. todo' = SubSeq(Path, k + 1, Len(Path))
    BY <1>2, <1>10 DEF Mig!Goes
  <2>2. \A o \in Objects : o \in have' \/ \E j \in k + 1..n : Path[j] = o
    <3> TAKE o \in Objects
    <3>1. o \in have \/ \E j \in k..n : Path[j] = o
      BY <1>1, <1>4 DEF Reached
    <3> QED BY <1>6, <1>10, <3>1
  <2>3. /\ "idx_flag" \in have' => \E j \in k + 1..n : Path[j] = "drop_flag_index"
        /\ "flag" \in have' => \E j \in k + 1..n : Path[j] = "drop_flag"
        /\ "idx_country" \in have' => \E j \in k + 1..n : Path[j] = "drop_redundant"
    BY <1>1, <1>4, <1>6, <1>10 DEF Reached
  <2>4. Reached(k + 1)'
    BY <1>3, <1>4, <1>10, <2>2, <2>3 DEF Reached, Mig!schemaVersion
  <2> QED BY <1>2, <1>3, <1>10, <2>1, <2>4 DEF MigInv
<1>11. /\ upgrade /\ k > 20 => based = logged
       /\ upgrade /\ k > 21 => counted = logged /\ rules = "current"
       /\ upgrade /\ k > 22 => version = Mig!schemaVersion
       /\ ~upgrade => version = Mig!schemaVersion
       /\ ~upgrade /\ k > 15 => rules = "current"
       /\ version = Mig!schemaVersion => "qsos" \in have /\ based = logged /\ (rules = "current" => counted = logged)
  BY <1>0, <1>1 DEF Reached, Stored
<1>12. /\ upgrade /\ k + 1 > 20 => k > 20 \/ Head(todo) = "backfill"
       /\ upgrade /\ k + 1 > 21 => k > 21 \/ Head(todo) = "rules"
       /\ upgrade /\ k + 1 > 22 => k > 22 \/ Head(todo) = "version"
       /\ ~upgrade /\ k + 1 > 15 => k > 15 \/ Head(todo) = "rules"
  <2>1. k > 20 \/ k = 20 \/ k + 1 <= 20
    OBVIOUS
  <2>2. k > 21 \/ k = 21 \/ k + 1 <= 21
    OBVIOUS
  <2>3. k > 22 \/ k = 22 \/ k + 1 <= 22
    OBVIOUS
  <2>4. k > 15 \/ k = 15 \/ k + 1 <= 15
    OBVIOUS
  <2> QED BY <1>7, <2>1, <2>2, <2>3, <2>4
\* A statement on the schema alone.
<1>13. ASSUME Mig!Goes, UNCHANGED <<based, counted, rules, version>>,
              Head(todo) \notin {"backfill", "rules", "version"},
              \A o \in Objects : o \in have \/ Head(todo) = o => o \in have',
              "idx_flag" \in have' => "idx_flag" \in have /\ Head(todo) # "drop_flag_index",
              "flag" \in have' => "flag" \in have /\ Head(todo) # "drop_flag",
              "idx_country" \in have' => "idx_country" \in have /\ Head(todo) # "drop_redundant"
       PROVE  MigInv'
  <2>1. "qsos" \in have => "qsos" \in have'
    BY <1>13 DEF Objects
  <2>2. Stored'
    BY <1>0, <1>3, <1>13, <2>1 DEF Stored, Mig!schemaVersion
  <2>3. /\ upgrade /\ k + 1 > 20 => based' = logged'
        /\ upgrade /\ k + 1 > 21 => counted' = logged' /\ rules' = "current"
        /\ upgrade /\ k + 1 > 22 => version' = Mig!schemaVersion
        /\ ~upgrade => version' = Mig!schemaVersion
        /\ ~upgrade /\ k + 1 > 15 => rules' = "current"
    BY <1>3, <1>11, <1>12, <1>13
  <2> QED BY <1>10, <1>13, <2>2, <2>3
<1>14. ASSUME Mig!Create PROVE MigInv'
  <2>1. /\ Mig!Goes /\ UNCHANGED <<based, counted, rules, version>>
        /\ Head(todo) \in {"qsos", "idx_wavelog_id", "idx_base_call", "idx_dirty", "worked_tables"}
                             \cup Mig!Columns \cup Mig!WorkedColumns
    BY <1>14 DEF Mig!Create, Mig!BaseList, Mig!ToSet
  <2>2. PICK o : o = Head(todo)
    OBVIOUS
  <2>3. have' = IF o \in have \/ ~(Mig!Needs(o) \subseteq have) THEN have ELSE have \cup Mig!Brings(o)
    BY <1>14, <2>2 DEF Mig!Create
  <2>4. have \subseteq have' /\ (o \in Objects => o \in have')
    <3>1. o \in Objects => Mig!Needs(o) = {}
      BY DEF Objects, Mig!Columns, Mig!WorkedColumns, Mig!Needs
    <3>2. o \in Mig!Brings(o)
      BY DEF Mig!Brings
    <3> QED BY <2>3, <3>1, <3>2
  <2>5. /\ "idx_flag" \in have' => "idx_flag" \in have
        /\ "flag" \in have' => "flag" \in have
        /\ "idx_country" \in have' => "idx_country" \in have
    BY <2>1, <2>2, <2>3 DEF Mig!Brings, Mig!Columns, Mig!WorkedColumns
  <2>6. o \notin {"drop_flag_index", "drop_flag", "drop_redundant", "backfill", "rules", "version"}
    BY <2>1, <2>2 DEF Mig!Columns, Mig!WorkedColumns
  <2> QED BY <1>13, <2>1, <2>2, <2>4, <2>5, <2>6
<1>15. ASSUME Mig!DropFlagIndex \/ Mig!DropFlag \/ Mig!DropRedundant PROVE MigInv'
  <2>1. Mig!Goes /\ UNCHANGED <<based, counted, rules, version>> /\ Head(todo) \in Drops
    BY <1>15 DEF Mig!DropFlagIndex, Mig!DropFlag, Mig!DropRedundant, Mig!Executing, Drops
  <2>2. /\ \A o \in Objects : o \in have \/ Head(todo) = o => o \in have'
        /\ "idx_flag" \in have' => "idx_flag" \in have /\ Head(todo) # "drop_flag_index"
        /\ "flag" \in have' => "flag" \in have /\ Head(todo) # "drop_flag"
        /\ "idx_country" \in have' => "idx_country" \in have /\ Head(todo) # "drop_redundant"
    BY <1>15 DEF Mig!DropFlagIndex, Mig!DropFlag, Mig!DropRedundant, Mig!Executing, Objects,
          Mig!Columns, Mig!WorkedColumns
  <2> QED BY <1>13, <2>1, <2>2 DEF Drops
\* A statement on the data: the schema stays.
<1>16. ASSUME have' = have, Head(todo) \in {"probe", "backfill", "rules", "version"}
       PROVE  /\ \A o \in Objects : o \in have \/ Head(todo) = o => o \in have'
              /\ "idx_flag" \in have' => "idx_flag" \in have /\ Head(todo) # "drop_flag_index"
              /\ "flag" \in have' => "flag" \in have /\ Head(todo) # "drop_flag"
              /\ "idx_country" \in have' => "idx_country" \in have /\ Head(todo) # "drop_redundant"
  BY <1>16 DEF Objects, Mig!Columns, Mig!WorkedColumns
<1>17. ASSUME Mig!Probe PROVE MigInv'
  <2>1. Mig!Goes /\ UNCHANGED <<have, based, version>> /\ Head(todo) = "probe"
    BY <1>17 DEF Mig!Probe, Mig!Executing
  <2>2. \/ UNCHANGED <<counted, rules>>
        \/ counted' = based /\ rules' = "current"
    BY <1>17 DEF Mig!Probe, Mig!Rebuilds
  <2>3. Stored'
    BY <1>0, <1>3, <2>1, <2>2 DEF Stored, Mig!schemaVersion
  <2>4. (upgrade => k + 1 <= 20) /\ (~upgrade => k < 15)
    <3>1. CASE upgrade
      BY <1>7, <2>1, <3>1
    <3>2. CASE ~upgrade
      BY <1>7, <1>8, <2>1, <3>2
    <3> QED BY <3>1, <3>2
  <2>5. /\ upgrade /\ k + 1 > 20 => based' = logged'
        /\ upgrade /\ k + 1 > 21 => counted' = logged' /\ rules' = "current"
        /\ upgrade /\ k + 1 > 22 => version' = Mig!schemaVersion
        /\ ~upgrade => version' = Mig!schemaVersion
        /\ ~upgrade /\ k + 1 > 15 => rules' = "current"
    BY <1>11, <2>1, <2>4
  <2> QED BY <1>10, <1>16, <2>1, <2>3, <2>5
<1>18. ASSUME Mig!Backfill, based = logged PROVE MigInv'
  <2>1. Mig!Goes /\ UNCHANGED <<have, based, counted, rules, version>> /\ Head(todo) = "backfill"
    BY <1>18 DEF Mig!Backfill, Mig!Executing
  <2>2. Stored'
    BY <1>0, <1>3, <2>1 DEF Stored, Mig!schemaVersion
  <2>3. upgrade /\ k = 20
    BY <1>7, <2>1
  <2>4. /\ upgrade /\ k + 1 > 20 => based' = logged'
        /\ upgrade /\ k + 1 > 21 => counted' = logged' /\ rules' = "current"
        /\ upgrade /\ k + 1 > 22 => version' = Mig!schemaVersion
        /\ ~upgrade => version' = Mig!schemaVersion
        /\ ~upgrade /\ k + 1 > 15 => rules' = "current"
    BY <1>3, <1>18, <2>1, <2>3
  <2> QED BY <1>10, <1>16, <2>1, <2>2, <2>4
<1>19. ASSUME Mig!EnsureRules PROVE MigInv'
  <2>1. Mig!Goes /\ UNCHANGED <<have, based, version>> /\ Head(todo) = "rules"
    BY <1>19 DEF Mig!EnsureRules, Mig!Executing
  <2>2. based = logged
    <3>1. CASE upgrade
      BY <1>7, <1>11, <2>1, <3>1
    <3>2. CASE ~upgrade
      BY <1>11, <3>2
    <3> QED BY <3>1, <3>2
  <2>3. \/ ~upgrade /\ rules = "current" /\ UNCHANGED <<counted, rules>>
        \/ counted' = based /\ rules' = "current"
    BY <1>19 DEF Mig!EnsureRules, Mig!RulesHold, Mig!Rebuilds
  <2>4. counted' = logged /\ rules' = "current"
    <3>1. CASE ~upgrade /\ rules = "current" /\ UNCHANGED <<counted, rules>>
      BY <1>11, <3>1
    <3> QED BY <2>2, <2>3, <3>1
  <2>5. Stored'
    BY <1>0, <1>3, <2>1, <2>4 DEF Stored, Mig!schemaVersion
  <2>6. upgrade => k = 21
    BY <1>7, <2>1
  <2>7. /\ upgrade /\ k + 1 > 20 => based' = logged'
        /\ upgrade /\ k + 1 > 21 => counted' = logged' /\ rules' = "current"
        /\ upgrade /\ k + 1 > 22 => version' = Mig!schemaVersion
        /\ ~upgrade => version' = Mig!schemaVersion
        /\ ~upgrade /\ k + 1 > 15 => rules' = "current"
    BY <1>3, <1>11, <2>1, <2>2, <2>4, <2>6
  <2> QED BY <1>10, <1>16, <2>1, <2>5, <2>7
<1>20. ASSUME Mig!WriteVersion PROVE MigInv'
  <2>1. Mig!Goes /\ UNCHANGED <<have, based, counted, rules>> /\ Head(todo) = "version" /\ version' = Mig!schemaVersion
    BY <1>20 DEF Mig!WriteVersion, Mig!Executing
  <2>2. upgrade /\ k = 22 /\ n = 22 /\ Path = Mig!UpgradeSteps
    BY <1>5, <1>7, <2>1
  <2>3. based = logged /\ counted = logged /\ rules = "current"
    BY <1>11, <2>2
  <2>4. "qsos" \in have
    <3>1. "qsos" \in have \/ \E j \in 22..22 : Mig!UpgradeSteps[j] = "qsos"
      BY <1>1, <1>4, <2>2 DEF Reached, Objects
    <3>2. \A j \in 22..22 : Mig!UpgradeSteps[j] = "version"
      BY UpgradeIs
    <3> QED BY <3>1, <3>2
  <2>5. Stored'
    BY <1>0, <1>3, <2>1, <2>3, <2>4 DEF Stored, Mig!schemaVersion
  <2>6. /\ upgrade /\ k + 1 > 20 => based' = logged'
        /\ upgrade /\ k + 1 > 21 => counted' = logged' /\ rules' = "current"
        /\ upgrade /\ k + 1 > 22 => version' = Mig!schemaVersion
        /\ ~upgrade => version' = Mig!schemaVersion
        /\ ~upgrade /\ k + 1 > 15 => rules' = "current"
    BY <1>3, <2>1, <2>2, <2>3
  <2> QED BY <1>10, <1>16, <2>1, <2>5, <2>6
<1> QED BY <1>9, <1>14, <1>15, <1>17, <1>18, <1>19, <1>20 DEF Mig!Step

\* A path from its first statement on is the path.
LEMMA WholeOf == ASSUME NEW S \in Seq(Statements) PROVE SubSeq(S, 1, Len(S)) = S
  OBVIOUS

\* Opening starts a path, a contact is logged at its end, and an end may come anywhere.
LEMMA MigStep == ASSUME MigInv, [Mig!MigNext]_(Mig!migVars) PROVE MigInv'
<1>0. Stored
  BY DEF MigInv
<1>1. CASE UNCHANGED Mig!migVars
  BY <1>1 DEF Mig!migVars, MigInv, Stored, Reached, Path, Mig!schemaVersion
<1>2. CASE Mig!Open
  <2>1. /\ UNCHANGED <<have, logged, based, counted, rules, version>>
        /\ upgrade' = (version < Mig!schemaVersion)
        /\ todo' = IF version < Mig!schemaVersion THEN Mig!UpgradeSteps ELSE Mig!CurrentSteps
    BY <1>2 DEF Mig!Open
  <2>2. upgrade' \in BOOLEAN /\ version \in 0..4 /\ Mig!schemaVersion = 4
    BY <1>0, <2>1 DEF Stored, Mig!schemaVersion
  <2>3. Stored'
    BY <1>0, <2>1, <2>2 DEF Stored
  <2>4. CASE version < Mig!schemaVersion
    <3>1. upgrade' /\ Path' = Mig!UpgradeSteps /\ todo' = Mig!UpgradeSteps
      BY <2>1, <2>4 DEF Path
    <3>2. Mig!UpgradeSteps \in Seq(Statements) /\ Len(Mig!UpgradeSteps) = 22
      BY UpgradeIs
    <3>3. \A o \in Objects \cup Drops : \E j \in 1..22 : Mig!UpgradeSteps[j] = o
      BY UpgradeOrder
    <3>4. Reached(1)'
      <4>1. \A o \in Objects \cup Drops : \E j \in 1..Len(Path') : Path'[j] = o
        BY <3>1, <3>2, <3>3
      <4>2. ~(1 > 20) /\ ~(1 > 21) /\ ~(1 > 22)
        OBVIOUS
      <4>3. \A o \in Objects : o \in Objects \cup Drops
        OBVIOUS
      <4>4. {"drop_flag_index", "drop_flag", "drop_redundant"} \subseteq Objects \cup Drops
        BY DEF Drops
      <4> QED BY <3>1, <4>1, <4>2, <4>3, <4>4, Zenon DEF Reached
    <3>5. todo' = SubSeq(Path', 1, Len(Path'))
      <4>1. SubSeq(Mig!UpgradeSteps, 1, Len(Mig!UpgradeSteps)) = Mig!UpgradeSteps
        BY <3>2, WholeOf, Zenon
      <4> QED BY <3>1, <4>1, Zenon
    <3>6. 1 \in 1..Len(Path') + 1
      BY <3>1, <3>2
    <3>7. \E k \in 1..Len(Path') + 1 : todo' = SubSeq(Path', k, Len(Path')) /\ Reached(k)'
      BY <3>4, <3>5, <3>6, Zenon
    <3> QED BY <2>3, <3>7 DEF MigInv
  <2>5. CASE ~(version < Mig!schemaVersion)
    <3>1. ~upgrade' /\ Path' = Mig!CurrentSteps /\ todo' = Mig!CurrentSteps /\ version = Mig!schemaVersion /\ version' = version
      <4>1. ~upgrade' /\ todo' = Mig!CurrentSteps /\ version' = version
        BY <2>1, <2>5, Zenon
      <4>2. Path' = Mig!CurrentSteps
        BY <4>1, Zenon DEF Path
      <4>3. version = Mig!schemaVersion
        BY <2>2, <2>5
      <4> QED BY <4>1, <4>2, <4>3
    <3>2. Mig!CurrentSteps \in Seq(Statements) /\ Len(Mig!CurrentSteps) = 15
      BY CurrentIs
    <3>3. \A o \in (Objects \cup Drops) \ {"qsos"} : \E j \in 1..15 : Mig!CurrentSteps[j] = o
      BY CurrentOrder
    <3>4. "qsos" \in have'
      BY <1>0, <2>1, <3>1 DEF Stored
    <3>5. Reached(1)'
      BY <3>1, <3>2, <3>3, <3>4 DEF Reached, Drops, Objects, Mig!Columns, Mig!WorkedColumns, Mig!schemaVersion
    <3>6. todo' = SubSeq(Path', 1, Len(Path'))
      <4>1. SubSeq(Mig!CurrentSteps, 1, Len(Mig!CurrentSteps)) = Mig!CurrentSteps
        BY <3>2, WholeOf, Zenon
      <4> QED BY <3>1, <4>1, Zenon
    <3>7. 1 \in 1..Len(Path') + 1
      BY <3>1, <3>2
    <3>8. \E k \in 1..Len(Path') + 1 : todo' = SubSeq(Path', k, Len(Path')) /\ Reached(k)'
      BY <3>5, <3>6, <3>7, Zenon
    <3> QED BY <2>3, <3>8 DEF MigInv
  <2> QED BY <2>4, <2>5
<1>3. CASE Mig!LogContact
  <2>1. todo = <<>> /\ UNCHANGED <<have, rules, version, todo, upgrade>>
    BY <1>3 DEF Mig!LogContact
  <2>2. Mig!OpenIsMigrated
    BY InvIsMigrated
  <2>3. based = logged /\ counted = logged /\ version = Mig!schemaVersion /\ rules = "current"
    BY <2>1, <2>2 DEF Mig!OpenIsMigrated
  <2>4. based' = logged' /\ counted' = logged'
    BY <1>3, <2>3 DEF Mig!LogContact
  <2>5. Stored'
    BY <1>0, <2>1, <2>4 DEF Stored, Mig!schemaVersion
  <2>6. PICK k \in 1..Len(Path) + 1 : todo = SubSeq(Path, k, Len(Path)) /\ Reached(k)
    BY <2>1 DEF MigInv
  <2>7. Path' = Path
    BY <2>1 DEF Path
  <2>8. Reached(k)'
    BY <2>1, <2>3, <2>4, <2>6, <2>7 DEF Reached, Mig!schemaVersion
  <2> QED BY <2>1, <2>5, <2>6, <2>7, <2>8 DEF MigInv
<1>4. CASE Mig!Ends
  BY <1>4 DEF Mig!Ends, MigInv, Stored, Mig!schemaVersion
<1> QED BY <1>1, <1>2, <1>3, <1>4, StatementStep DEF Mig!MigNext

\* Whatever release wrote the file and however often a migration of it died: an
\* open logbook has the current schema, base calls and index, and a version that
\* says "current" vouches for the base calls (migrations.go, Migrate).
THEOREM MigrationsComplete == Mig!MigSpec => [](Mig!OpenIsMigrated /\ Mig!VersionVouches)
<1>1. Mig!MigInit => MigInv
  BY MigStart
<1>2. MigInv /\ [Mig!MigNext]_(Mig!migVars) => MigInv'
  BY MigStep
<1>3. MigInv => Mig!OpenIsMigrated /\ Mig!VersionVouches
  BY InvIsMigrated
<1> QED BY <1>1, <1>2, <1>3, PTL DEF Mig!MigSpec

-----------------------------------------------------------------------------
(* The credential. *)

\* None and a file that cannot be read are no credentials.
SecretsAssumption == None \notin Values /\ Foreign \notin Values /\ Foreign # None /\ MaxSteps \in Nat

\* Between the two writes of a save the store is what was written; what the
\* program holds and what the YAML has in plain text can be found again.
SecretsInv ==
    /\ Secrets!StoreTypeOK
    /\ Secrets!CredentialKept /\ Secrets!DirtyIsKnown
    /\ saver = "scrub" => up \in {"up", "bare"} /\ (up = "up" => ~store.dirty)
    /\ up = "up" => live.plain \in kept
    /\ yaml.plain # None => yaml.plain \in kept

\* The first files: one of them has the credential.
LEMMA SecretsStart == ASSUME SecretsAssumption, Secrets!StoreInit PROVE SecretsInv
<1>1. Secrets!StoreTypeOK
  <2>1. PICK v \in Values, x \in {"old", "current"} :
          \/ yaml = [plain |-> v, enabled |-> TRUE, version |-> x, serial |-> x = "current"] /\ enc = None
          \/ yaml = [plain |-> None, enabled |-> TRUE, version |-> x, serial |-> x = "current"] /\ enc = v
    BY DEF Secrets!StoreInit
  <2>2. enc \in Values \cup {None, Foreign} /\ yaml.plain \in Values \cup {None}
    BY <2>1
  <2>3. yaml \in Secrets!Fields
    <3>1. PICK p, e, y : p = yaml.plain /\ e = TRUE /\ y = (x = "current")
      OBVIOUS
    <3>2. yaml = [plain |-> p, enabled |-> e, version |-> x, serial |-> y]
      <4>1. CASE yaml = [plain |-> v, enabled |-> TRUE, version |-> x, serial |-> x = "current"]
        BY <3>1, <4>1, Zenon
      <4>2. CASE yaml = [plain |-> None, enabled |-> TRUE, version |-> x, serial |-> x = "current"]
        BY <3>1, <4>2, Zenon
      <4> QED BY <2>1, <4>1, <4>2
    <3>3. p \in Values \cup {None} /\ e \in BOOLEAN /\ y \in BOOLEAN
      BY <2>2, <3>1
    <3>4. x \in {"old", "current"}
      OBVIOUS
    <3> QED BY ONLY <3>2, <3>3, <3>4 DEF Secrets!Fields
  <2>4. /\ up = "down" /\ live = yaml /\ store = [v |-> None, dirty |-> FALSE] /\ saver = "idle"
        /\ kept = {yaml.plain, enc} \ {None} /\ steps = 0
    BY DEF Secrets!StoreInit
  <2>5. kept \subseteq Values \cup {None} /\ steps \in 0..MaxSteps
    BY <2>1, <2>4 DEF SecretsAssumption
  <2> QED BY <2>2, <2>3, <2>4, <2>5 DEF Secrets!StoreTypeOK
<1>2. Secrets!Found \in kept
  BY DEF Secrets!StoreInit, Secrets!Found, Secrets!Loaded, SecretsAssumption
<1>3. up = "down" /\ saver = "idle" /\ (yaml.plain # None => yaml.plain \in kept)
  BY DEF Secrets!StoreInit
<1> QED BY <1>1, <1>2, <1>3 DEF SecretsInv, Secrets!CredentialKept, Secrets!DirtyIsKnown

\* A start, an edit, either write of a save, and what fails: the credential stays within reach.
LEMMA SecretsStep == ASSUME SecretsAssumption, SecretsInv, [Secrets!StoreNext]_(Secrets!storeVars) PROVE SecretsInv'
<1>0. /\ Secrets!StoreTypeOK /\ Secrets!Found \in kept
      /\ (up = "up" /\ ~store.dirty) => Secrets!Loaded = store.v
      /\ saver = "scrub" => up \in {"up", "bare"} /\ (up = "up" => ~store.dirty)
      /\ up = "up" => live.plain \in kept
      /\ yaml.plain # None => yaml.plain \in kept
  BY DEF SecretsInv, Secrets!CredentialKept, Secrets!DirtyIsKnown
<1>a. /\ None \notin Values /\ Foreign \notin Values /\ Foreign # None /\ MaxSteps \in Nat
  BY DEF SecretsAssumption
<1>b. /\ yaml \in Secrets!Fields /\ live \in Secrets!Fields
      /\ enc \in Values \cup {None, Foreign} /\ up \in {"down", "up", "bare", "refused"}
      /\ store \in [v : Values \cup {None}, dirty : BOOLEAN] /\ saver \in {"idle", "scrub"}
      /\ kept \subseteq Values \cup {None} /\ steps \in 0..MaxSteps
  BY <1>0 DEF Secrets!StoreTypeOK
<1>c. Secrets!Loaded \in Values \cup {None} /\ Secrets!Synced \in [v : Values \cup {None}, dirty : BOOLEAN]
      /\ Secrets!Synced.v = live.plain
  BY <1>b DEF Secrets!Loaded, Secrets!Synced, Secrets!Fields
<1>1. CASE UNCHANGED Secrets!storeVars
  BY <1>0, <1>b, <1>1 DEF Secrets!storeVars, SecretsInv, Secrets!StoreTypeOK, Secrets!CredentialKept,
        Secrets!DirtyIsKnown, Secrets!Found, Secrets!Loaded
<1>2. CASE Secrets!Start
  <2> DEFINE c == Secrets!Upgrade(yaml)
             v == IF c.plain # None THEN c.plain ELSE Secrets!Loaded
  <2>1. c \in Secrets!Fields /\ c.plain = yaml.plain
    BY <1>b DEF Secrets!Upgrade, Secrets!Stamped, Secrets!VersionBefore, Secrets!Fields
  <2>r. saver' = "idle" /\ UNCHANGED <<yaml, kept>> /\ steps' \in 0..MaxSteps
    BY <1>2, <1>a, <1>b DEF Secrets!Start, Secrets!Stepping
  <2>o. CASE Secrets!CannotRead(c) /\ up' = IF Secrets!Validate(live') THEN "bare" ELSE "refused"
    <3>1. live' = c /\ UNCHANGED <<enc, store>> /\ up' \in {"bare", "refused"}
      BY <2>o DEF Secrets!CannotRead
    <3> HIDE DEF c
    <3>2. Secrets!StoreTypeOK'
      BY <1>b, <2>1, <2>r, <3>1 DEF Secrets!StoreTypeOK
    <3>3. Secrets!Found' = Secrets!Found
      BY <2>r, <3>1 DEF Secrets!Found, Secrets!Loaded
    <3> QED BY <1>0, <2>r, <3>1, <3>2, <3>3 DEF SecretsInv, Secrets!CredentialKept, Secrets!DirtyIsKnown
  <2>a. CASE Secrets!ApplySecrets(c) /\ up' = IF Secrets!Validate(live') THEN "up" ELSE "refused"
   <3>2. PICK writes \in BOOLEAN : Secrets!Persist(v, writes)
     BY <2>a DEF Secrets!ApplySecrets
   <3>3. live' = [c EXCEPT !.plain = IF Secrets!Loaded # None THEN Secrets!Loaded ELSE c.plain] /\ up' \in {"up", "refused"}
     BY <2>a DEF Secrets!ApplySecrets
   <3> HIDE DEF c
   <3>4. v \in Values \cup {None} /\ v = IF yaml.plain # None THEN yaml.plain ELSE Secrets!Loaded
     BY <1>c, <2>1 DEF Secrets!Fields
   <3>5. live' \in Secrets!Fields /\ live'.plain = Secrets!Found
     BY <1>c, <2>1, <3>3, <2>r DEF Secrets!Fields, Secrets!Found
   <3> HIDE DEF v
   <3>6. /\ enc' \in Values \cup {None, Foreign}
         /\ store' \in [v : Values \cup {None}, dirty : BOOLEAN]
         /\ ~store'.dirty => Secrets!Loaded' = store'.v
     <4>1. v \in Values \cup {None}
       BY <3>4
     <4>2. CASE writes
       <5>1. enc' = v /\ store' = [v |-> v, dirty |-> FALSE]
         BY <3>2, <4>2 DEF Secrets!Persist
       <5>2. v # Foreign
         BY <1>a, <4>1
       <5> QED BY <4>1, <5>1, <5>2 DEF Secrets!Loaded
     <4>3. CASE ~writes
       <5>1. enc' = enc /\ store' = [v |-> v, dirty |-> v # Secrets!Loaded]
         BY <3>2, <4>3 DEF Secrets!Persist
       <5>2. Secrets!Loaded' = Secrets!Loaded
         BY <5>1 DEF Secrets!Loaded
       <5> QED BY <1>b, <4>1, <5>1, <5>2
     <4> QED BY <4>2, <4>3
   <3>7. Secrets!Found' \in kept'
     <4>1. CASE enc' = enc
       BY <1>0, <3>3, <2>r, <4>1 DEF Secrets!Found, Secrets!Loaded
     <4>2. CASE enc' = v
       BY <1>0, <1>a, <3>3, <2>r, <3>4, <4>2 DEF Secrets!Found, Secrets!Loaded
     <4> QED BY <3>2, <4>1, <4>2 DEF Secrets!Persist
   <3>8. Secrets!StoreTypeOK'
     BY <1>b, <3>3, <2>r, <3>5, <3>6 DEF Secrets!StoreTypeOK
   <3> QED BY <1>0, <3>3, <2>r, <3>5, <3>6, <3>7, <3>8 DEF SecretsInv, Secrets!CredentialKept, Secrets!DirtyIsKnown
  <2> QED BY <1>2, <2>o, <2>a DEF Secrets!Start
<1>3. CASE Secrets!Edit
  <2>1. PICK v \in Values \cup {None} :
          /\ live' = [live EXCEPT !.plain = v, !.enabled = v # None]
          /\ kept' = kept \cup {v}
    BY <1>3 DEF Secrets!Edit
  <2>2. UNCHANGED <<yaml, enc, up, store, saver>> /\ steps' \in 0..MaxSteps
    BY <1>3, <1>a, <1>b DEF Secrets!Edit, Secrets!Stepping
  <2>3. live' \in Secrets!Fields /\ live'.plain = v
    BY <1>b, <2>1 DEF Secrets!Fields
  <2>4. Secrets!Found' = Secrets!Found /\ Secrets!Loaded' = Secrets!Loaded
    BY <2>2 DEF Secrets!Found, Secrets!Loaded
  <2>5. Secrets!StoreTypeOK'
    BY <1>b, <2>1, <2>2, <2>3 DEF Secrets!StoreTypeOK
  <2> QED BY <1>0, <2>1, <2>2, <2>3, <2>4, <2>5 DEF SecretsInv, Secrets!CredentialKept, Secrets!DirtyIsKnown
<1>4. CASE Secrets!SaveSecrets
  <2>1. up \in {"up", "bare"} /\ saver = "idle" /\ UNCHANGED <<yaml, up, live, kept, steps>>
    BY <1>4 DEF Secrets!SaveSecrets
  <2>2. CASE (up = "bare" \/ ~Secrets!Synced.dirty) /\ saver' = "scrub" /\ UNCHANGED <<enc, store>>
    <3>1. up = "up" => ~store.dirty
      BY <2>2, <1>b DEF Secrets!Synced
    <3> QED BY <1>0, <1>b, <2>1, <2>2, <3>1 DEF SecretsInv, Secrets!StoreTypeOK, Secrets!CredentialKept,
          Secrets!DirtyIsKnown, Secrets!Found, Secrets!Loaded
  <2>3. CASE /\ up = "up" /\ Secrets!Synced.dirty /\ saver' = "scrub"
             /\ enc' = Secrets!Synced.v /\ store' = [Secrets!Synced EXCEPT !.dirty = FALSE]
    <3>1. store' \in [v : Values \cup {None}, dirty : BOOLEAN] /\ store'.v = live.plain /\ ~store'.dirty
      BY <1>c, <2>3
    <3>2. enc' = live.plain /\ Secrets!Loaded' = live.plain /\ live.plain \in Values \cup {None}
      BY <1>a, <1>b, <1>c, <2>3 DEF Secrets!Loaded, Secrets!Fields
    <3>3. Secrets!Found' \in kept'
      BY <1>0, <2>1, <2>3, <3>2 DEF Secrets!Found
    <3>4. Secrets!StoreTypeOK'
      BY <1>b, <2>1, <2>3, <3>1, <3>2 DEF Secrets!StoreTypeOK
    <3> QED BY <1>0, <2>1, <2>3, <3>1, <3>2, <3>3, <3>4 DEF SecretsInv, Secrets!CredentialKept,
          Secrets!DirtyIsKnown
  <2>4. CASE up = "up" /\ Secrets!Synced.dirty /\ Secrets!GivesUp
    <3>1. saver' = "idle" /\ enc' = enc /\ store' = Secrets!Synced /\ store'.dirty
      BY <2>4 DEF Secrets!GivesUp
    <3>2. Secrets!Found' = Secrets!Found
      BY <2>1, <3>1 DEF Secrets!Found, Secrets!Loaded
    <3>3. Secrets!StoreTypeOK'
      BY <1>b, <1>c, <2>1, <3>1 DEF Secrets!StoreTypeOK
    <3> QED BY <1>0, <2>1, <3>1, <3>2, <3>3 DEF SecretsInv, Secrets!CredentialKept, Secrets!DirtyIsKnown
  <2> QED BY <1>4, <2>2, <2>3, <2>4 DEF Secrets!SaveSecrets
<1>5. CASE Secrets!SaveYaml
  <2>1. /\ saver = "scrub" /\ yaml' = Secrets!scrubbedCopy(live)
        /\ kept' = {live.plain, IF up = "up" THEN store.v ELSE IF Secrets!Loaded # None THEN Secrets!Loaded ELSE live.plain}
        /\ saver' = "idle" /\ UNCHANGED <<enc, up, live, store, steps>>
    BY <1>5 DEF Secrets!SaveYaml
  <2>2. yaml' \in Secrets!Fields /\ yaml'.plain = IF up = "up" THEN None ELSE live.plain
    BY <1>b, <2>1 DEF Secrets!scrubbedCopy, Secrets!Fields
  <2>3. Secrets!Loaded' = Secrets!Loaded /\ (up = "up" => Secrets!Loaded = store.v)
    BY <1>0, <2>1 DEF Secrets!Loaded
  <2>4. Secrets!Found' \in kept' /\ live.plain \in kept'
    BY <2>1, <2>2, <2>3 DEF Secrets!Found
  <2>5. Secrets!StoreTypeOK'
    <3>1. live.plain \in Values \cup {None} /\ store.v \in Values \cup {None}
      BY <1>b DEF Secrets!Fields
    <3>2. kept' \subseteq Values \cup {None}
      BY <1>c, <2>1, <3>1
    <3> QED BY <1>b, <2>1, <2>2, <3>2 DEF Secrets!StoreTypeOK
  <2> QED BY <1>0, <2>1, <2>2, <2>3, <2>4, <2>5 DEF SecretsInv, Secrets!CredentialKept, Secrets!DirtyIsKnown
<1>6. CASE Secrets!YamlFails
  BY <1>0, <1>b, <1>6 DEF Secrets!YamlFails, SecretsInv, Secrets!StoreTypeOK, Secrets!CredentialKept,
        Secrets!DirtyIsKnown, Secrets!Found, Secrets!Loaded
<1>7. CASE Secrets!End
  <2>1. /\ up' = "down" /\ saver' = "idle" /\ store' = [v |-> None, dirty |-> FALSE] /\ live' = yaml
        /\ UNCHANGED <<yaml, enc, kept, steps>>
    BY <1>7 DEF Secrets!End
  <2>2. Secrets!StoreTypeOK'
    BY <1>b, <2>1 DEF Secrets!StoreTypeOK
  <2>3. Secrets!Found' = Secrets!Found
    BY <2>1 DEF Secrets!Found, Secrets!Loaded
  <2> QED BY <1>0, <2>1, <2>2, <2>3 DEF SecretsInv, Secrets!CredentialKept, Secrets!DirtyIsKnown
<1>8. CASE Secrets!HandEdit
  <2>1. PICK v \in Values :
          /\ yaml' = [yaml EXCEPT !.plain = v, !.enabled = TRUE]
          /\ kept' = kept \cup {v}
    BY <1>8 DEF Secrets!HandEdit
  <2>2. up = "down" /\ UNCHANGED <<enc, up, live, store, saver>> /\ steps' \in 0..MaxSteps
    BY <1>8, <1>a, <1>b DEF Secrets!HandEdit, Secrets!Stepping
  <2>3. yaml' \in Secrets!Fields /\ yaml'.plain = v
    BY <1>b, <2>1 DEF Secrets!Fields
  <2>4. Secrets!Found' \in kept'
    BY <1>0, <2>1, <2>2, <2>3 DEF Secrets!Found, Secrets!Loaded
  <2>5. Secrets!StoreTypeOK'
    BY <1>b, <2>1, <2>2, <2>3 DEF Secrets!StoreTypeOK
  <2> QED BY <1>0, <2>1, <2>2, <2>3, <2>4, <2>5 DEF SecretsInv, Secrets!CredentialKept, Secrets!DirtyIsKnown
<1>9. CASE Secrets!FileDamaged
  <2>1. up = "down" /\ enc' = Foreign /\ kept' = {yaml.plain, None} /\ UNCHANGED <<yaml, up, live, store, saver>>
        /\ steps' \in 0..MaxSteps
    BY <1>9, <1>a, <1>b DEF Secrets!FileDamaged, Secrets!Stepping
  <2>2. Secrets!Found' \in kept'
    BY <2>1 DEF Secrets!Found, Secrets!Loaded
  <2>3. Secrets!StoreTypeOK'
    BY <1>b, <2>1 DEF Secrets!StoreTypeOK, Secrets!Fields
  <2> QED BY <1>0, <2>1, <2>2, <2>3 DEF SecretsInv, Secrets!CredentialKept, Secrets!DirtyIsKnown
<1> QED BY <1>1, <1>2, <1>3, <1>4, <1>5, <1>6, <1>7, <1>8, <1>9 DEF Secrets!StoreNext

\* Wherever a save fails or the program dies between secrets.enc and config.yaml,
\* the next start finds the credential of the last save or of a later edit, and
\* a store that is not dirty is the file (config.go Save, secrets.go).
THEOREM CredentialSurvives == SecretsAssumption => (Secrets!StoreSpec => []Secrets!ConfigSafe)
<1> SUFFICES ASSUME SecretsAssumption PROVE Secrets!StoreSpec => []Secrets!ConfigSafe
  OBVIOUS
<1>1. Secrets!StoreInit => SecretsInv
  BY SecretsStart
<1>2. SecretsInv /\ [Secrets!StoreNext]_(Secrets!storeVars) => SecretsInv'
  BY SecretsStep
<1>3. SecretsInv => Secrets!ConfigSafe
  BY DEF SecretsInv, Secrets!ConfigSafe
<1> QED BY <1>1, <1>2, <1>3, PTL DEF Secrets!StoreSpec

-----------------------------------------------------------------------------
(* The catalog. *)

\* None is neither an operator nor an entry nor a contest.
CatAssumption ==
    /\ None \notin Ops /\ None \notin Cat!Entry
    /\ None \notin [book : Books, inUse : BOOLEAN]
    /\ MaxChanges \in Nat

\* Every logbook of a config names an operator that the config has.
Resolves(c) == \A b \in Cat!Listed(c) : c.books[b].op \in Cat!Known(c.ops) \cup {None}

\* The generations: each is one sync's; the latest belongs to the last edit of its
\* logbook, or that one was not saved, and has not been applied yet.
Generations ==
    /\ gen \in Nat /\ gen <= changes /\ changes \in 0..MaxChanges
    /\ edition \in [Books -> 0..gen] /\ synced \in [Books -> 0..gen]
    /\ held \in 0..gen /\ unsaved \subseteq Books
    /\ syncs \subseteq [book : Books, gen : 1..gen]
    /\ \A s \in syncs : s.gen = gen => edition[s.book] \in {0, gen} /\ synced[s.book] = 0
    /\ \A s, t \in syncs : s.gen = t.gen => s = t
    /\ Cat!SyncIsLatest

\* No station data is a sync's.
Rested == held = 0 /\ unsaved = {} /\ synced = [b \in Books |-> 0]

\* A removed database is listed nowhere: a save of the config in use must not
\* bring it back.
CatInv ==
    /\ cfg \in Cat!Configs /\ disk \in Cat!Configs /\ app \in Cat!Entry /\ running \in BOOLEAN
    /\ files \in [Books -> {"none", "log", "removed"}]
    /\ Generations
    /\ Cat!CopiesAgree /\ (running \/ Rested)
    /\ Resolves(cfg) /\ Resolves(disk)
    /\ \A b \in Books : files[b] = "removed" => b \notin Cat!Listed(cfg) \cup Cat!Listed(disk)

\* The invariant is the catalog's properties and more.
LEMMA CatInvIsSafe == ASSUME CatInv PROVE Cat!CatalogSafe
<1>1. Cat!OperatorsResolve
  BY DEF CatInv, Cat!OperatorsResolve, Resolves
<1>2. Cat!ListedKeepsLog
  BY DEF CatInv, Cat!ListedKeepsLog
<1> QED BY <1>1, <1>2 DEF CatInv, Cat!CatalogSafe, Generations

\* A field of an entry replaced.
LEMMA EntryWith ==
  ASSUME CatAssumption, NEW e \in Cat!Entry
  PROVE  /\ \A x \in Rigs \cup {None} : [e EXCEPT !.rig = x] \in Cat!Entry /\ [e EXCEPT !.rig = x].op = e.op
         /\ \A x \in Ops \cup {None} : [e EXCEPT !.op = x] \in Cat!Entry /\ [e EXCEPT !.op = x].op = x
         /\ \A x \in Contests \cup {None} : [e EXCEPT !.contest = x] \in Cat!Entry /\ [e EXCEPT !.contest = x].op = e.op
         /\ e # None
  BY DEF Cat!Entry, CatAssumption

\* An entry of a config replaced: the others stay, and it keeps its operators.
LEMMA BookWith ==
  ASSUME CatAssumption, NEW c \in Cat!Configs, NEW b \in Books, NEW e \in Cat!Entry
  PROVE  LET d == [c EXCEPT !.books = [@ EXCEPT ![b] = e]]
         IN  /\ d \in Cat!Configs /\ d.books = [c.books EXCEPT ![b] = e] /\ d.ops = c.ops /\ d.active = c.active
             /\ Cat!Listed(d) = Cat!Listed(c) \cup {b}
             /\ Resolves(c) /\ e.op \in Cat!Known(c.ops) \cup {None} => Resolves(d)
<1> DEFINE d == [c EXCEPT !.books = [@ EXCEPT ![b] = e]]
<1>1. /\ d \in Cat!Configs /\ d.books = [c.books EXCEPT ![b] = e] /\ d.ops = c.ops /\ d.active = c.active
  BY DEF Cat!Configs
<1>2. c.books \in [Books -> Cat!Entry \cup {None}] /\ e # None
  BY EntryWith DEF Cat!Configs
<1> HIDE DEF d
<1>3. Cat!Listed(d) = Cat!Listed(c) \cup {b}
  BY <1>1, <1>2 DEF Cat!Listed
<1>4. ASSUME Resolves(c), e.op \in Cat!Known(c.ops) \cup {None} PROVE Resolves(d)
  BY <1>1, <1>2, <1>3, <1>4 DEF Resolves, Cat!Listed
<1> QED BY <1>1, <1>3, <1>4 DEF d


\* The entry of the active logbook, and the one a selection writes.
LEMMA ActiveIs ==
  ASSUME CatAssumption, CatInv, running
  PROVE  /\ cfg.active \in Books /\ cfg.active \in Cat!Listed(cfg) /\ app = cfg.books[cfg.active]
         /\ app \in Cat!Entry /\ app.op \in Cat!Known(cfg.ops) \cup {None}
<1>1. cfg.active \in Books /\ cfg.active \in Cat!Listed(cfg) /\ app = cfg.books[cfg.active] /\ app \in Cat!Entry
  BY DEF CatInv, Cat!CopiesAgree, Cat!Configs
<1>2. Resolves(cfg)
  BY DEF CatInv
<1> QED BY <1>1, <1>2 DEF Resolves

\* What a selection makes of the config: one field of the active logbook's entry.
IsSelection(f, x) ==
    \/ f = "rig" /\ x \in Rigs \cup {None}
    \/ f = "op" /\ x \in Cat!Known(cfg.ops) \cup {None}
    \/ f = "contest" /\ x \in Contests \cup {None}

\* The config a selection makes: the active entry changes, and still resolves.
LEMMA ChosenIs ==
  ASSUME CatAssumption, CatInv, running, NEW f, NEW x, IsSelection(f, x)
  PROVE  /\ Cat!Chosen(f, x) \in Cat!Configs /\ Cat!Listed(Cat!Chosen(f, x)) = Cat!Listed(cfg)
         /\ Cat!Chosen(f, x).active = cfg.active /\ Cat!Chosen(f, x).books[cfg.active] = [app EXCEPT ![f] = x]
         /\ [app EXCEPT ![f] = x] \in Cat!Entry /\ Resolves(Cat!Chosen(f, x)) /\ Cat!Chosen(f, x).ops = cfg.ops
<1>1. /\ cfg.active \in Books /\ cfg.active \in Cat!Listed(cfg) /\ app = cfg.books[cfg.active]
      /\ app \in Cat!Entry /\ app.op \in Cat!Known(cfg.ops) \cup {None}
  BY ActiveIs
<1>2. PICK e : e = [app EXCEPT ![f] = x]
  OBVIOUS
<1>3. e \in Cat!Entry /\ e.op \in Cat!Known(cfg.ops) \cup {None}
  <2>1. CASE f = "rig" /\ x \in Rigs \cup {None}
    BY <1>1, <1>2, <2>1, EntryWith
  <2>2. CASE f = "op" /\ x \in Cat!Known(cfg.ops) \cup {None}
    <3>1. x \in Ops \cup {None}
      BY <2>2 DEF Cat!Known, CatInv, Cat!Configs
    <3> QED BY <1>1, <1>2, <2>2, <3>1, EntryWith
  <2>3. CASE f = "contest" /\ x \in Contests \cup {None}
    BY <1>1, <1>2, <2>3, EntryWith
  <2> QED BY <2>1, <2>2, <2>3 DEF IsSelection
<1>4. cfg \in Cat!Configs /\ Resolves(cfg) /\ cfg.books \in [Books -> Cat!Entry \cup {None}]
  BY DEF CatInv, Cat!Configs
<1>5. Cat!Chosen(f, x) = [cfg EXCEPT !.books = [@ EXCEPT ![cfg.active] = e]]
  BY <1>1, <1>2 DEF Cat!Chosen
<1>6. PICK d : d = Cat!Chosen(f, x)
  OBVIOUS
<1>7. /\ d \in Cat!Configs /\ d.books = [cfg.books EXCEPT ![cfg.active] = e] /\ d.ops = cfg.ops /\ d.active = cfg.active
      /\ Cat!Listed(d) = Cat!Listed(cfg) \cup {cfg.active} /\ Resolves(d)
  <2>1. PICK c, b : c = cfg /\ b = cfg.active
    OBVIOUS
  <2>2. d = [c EXCEPT !.books = [@ EXCEPT ![b] = e]]
    BY <1>5, <1>6, <2>1
  <2>3. c \in Cat!Configs /\ b \in Books /\ Resolves(c) /\ e.op \in Cat!Known(c.ops) \cup {None}
    BY <1>1, <1>3, <1>4, <2>1
  <2> QED BY <1>3, <2>1, <2>2, <2>3, BookWith
<1>8. d.books[cfg.active] = e
  BY <1>1, <1>4, <1>7
<1> QED BY <1>1, <1>2, <1>3, <1>6, <1>7, <1>8

\* No edit of a logbook, no new generation.
LEMMA GenerationsStay ==
  ASSUME Generations, UNCHANGED Cat!syncVars, changes' \in 0..MaxChanges, changes <= changes'
  PROVE  Generations'
  BY DEF Generations, Cat!SyncIsLatest, Cat!syncVars

\* The copy in App.Logbook, after a step that leaves the station data alone.
LEMMA CopiesStay ==
  ASSUME CatInv, running, UNCHANGED Cat!syncVars, cfg'.active = cfg.active,
         cfg'.active \in Cat!Listed(cfg'), app' = cfg'.books[cfg'.active]
  PROVE  Cat!CopiesAgree'
<1>1. held = IF cfg.active \in unsaved THEN 0 ELSE synced[cfg.active]
  BY DEF CatInv, Cat!CopiesAgree
<1>2. held' = held /\ unsaved' = unsaved /\ synced' = synced
  BY DEF Cat!syncVars
<1>3. held' = IF cfg'.active \in unsaved' THEN 0 ELSE synced'[cfg'.active]
  BY <1>1, <1>2
<1>4. (cfg.active \in Cat!Listed(cfg))'
  OBVIOUS
<1> QED BY <1>3, <1>4 DEF Cat!CopiesAgree

\* A change of the catalog that lists no new logbook.
LEMMA SmallChange ==
  ASSUME CatAssumption, CatInv, Cat!Catalogs, NEW d \in Cat!Configs, cfg' = d, Resolves(d),
         Cat!Listed(d) \subseteq Cat!Listed(cfg), disk' = d \/ disk' = disk,
         app' \in Cat!Entry, d.active = cfg.active, d.active \in Cat!Listed(d), app' = d.books[d.active]
  PROVE  CatInv'
<1>1. running /\ running' = running /\ files' = files /\ UNCHANGED Cat!syncVars /\ changes' = changes + 1 /\ changes < MaxChanges
  BY DEF Cat!Catalogs, Cat!Changing
<1>2. Generations'
  BY <1>1, GenerationsStay DEF CatInv, Generations, CatAssumption
<1>3. Cat!CopiesAgree'
  BY <1>1, CopiesStay
<1>4. disk' \in Cat!Configs /\ Resolves(disk') /\ Cat!Listed(disk') \subseteq Cat!Listed(cfg) \cup Cat!Listed(disk)
  <2>1. CASE disk' = d
    BY <2>1
  <2>2. CASE disk' = disk
    BY <2>2 DEF CatInv
  <2> QED BY <2>1, <2>2
<1>5. cfg' \in Cat!Configs /\ Resolves(cfg') /\ Cat!Listed(cfg') \subseteq Cat!Listed(cfg)
  OBVIOUS
<1>6. \A b \in Books : files[b] = "removed" => b \notin Cat!Listed(cfg) \cup Cat!Listed(disk)
  BY DEF CatInv
<1>7. \A b \in Books : files'[b] = "removed" => b \notin Cat!Listed(cfg') \cup Cat!Listed(disk')
  BY <1>1, <1>4, <1>5, <1>6
<1>8. files' \in [Books -> {"none", "log", "removed"}] /\ running' \in BOOLEAN /\ running' /\ app' \in Cat!Entry
  BY <1>1 DEF CatInv
<1>9. (Resolves(cfg) /\ Resolves(disk))' /\ (\A b \in Books : files[b] = "removed" => b \notin Cat!Listed(cfg) \cup Cat!Listed(disk))'
  BY <1>4, <1>5, <1>7
<1> QED BY <1>2, <1>3, <1>4, <1>5, <1>8, <1>9 DEF CatInv


\* A selection, saved or not.
LEMMA SelectionStep ==
  ASSUME CatAssumption, CatInv, Cat!Catalogs, NEW f, NEW x, IsSelection(f, x), Cat!Choose(f, x),
         disk' = cfg' \/ disk' = disk
  PROVE  CatInv'
<1>1. running
  BY DEF Cat!Catalogs, Cat!Changing
<1>2. PICK d : d = Cat!Chosen(f, x)
  OBVIOUS
<1>3. /\ d \in Cat!Configs /\ Cat!Listed(d) = Cat!Listed(cfg) /\ d.active = cfg.active
      /\ d.books[cfg.active] = [app EXCEPT ![f] = x] /\ [app EXCEPT ![f] = x] \in Cat!Entry /\ Resolves(d)
  BY <1>1, <1>2, ChosenIs
<1>4. cfg' = d /\ app' = [app EXCEPT ![f] = x]
  BY <1>2 DEF Cat!Choose
<1>5. d.active \in Cat!Listed(d)
  BY <1>1, <1>3, ActiveIs
<1> QED BY <1>3, <1>4, <1>5, SmallChange

\* A change that touches neither the logbooks nor takes an operator away.
LEMMA AsideStep ==
  ASSUME CatAssumption, CatInv, Cat!Catalogs, NEW d \in Cat!Configs, cfg' = d, d.books = cfg.books, d.active = cfg.active,
         Cat!Known(cfg.ops) \subseteq Cat!Known(d.ops), disk' = d \/ disk' = disk, UNCHANGED app
  PROVE  CatInv'
<1>1. running
  BY DEF Cat!Catalogs, Cat!Changing
<1>2. Cat!Listed(d) = Cat!Listed(cfg)
  BY DEF Cat!Listed
<1>3. Resolves(cfg)
  BY DEF CatInv
<1>4. Resolves(d)
  BY <1>2, <1>3 DEF Resolves
<1>5. /\ d.active \in Cat!Listed(d) /\ app' = d.books[d.active] /\ app' \in Cat!Entry
  BY <1>1, <1>2, ActiveIs
<1> QED BY <1>2, <1>4, <1>5, SmallChange

\* The rig menu's operations.
LEMMA RigStep ==
  ASSUME CatAssumption, CatInv, Cat!NewRigChooser \/ Cat!SelectRig \/ Cat!SaveRig \/ Cat!DeleteRig
  PROVE  CatInv'
<1>1. cfg \in Cat!Configs /\ cfg.rigs \subseteq Rigs
  BY DEF CatInv, Cat!Configs
<1>2. CASE Cat!NewRigChooser
  BY <1>1, <1>2, SelectionStep DEF Cat!NewRigChooser, IsSelection
<1>3. CASE Cat!SelectRig
  BY <1>1, <1>3, SelectionStep DEF Cat!SelectRig, IsSelection, Cat!Save
<1>4. CASE Cat!SaveRig
  <2>1. PICK r \in Rigs : cfg' = [cfg EXCEPT !.rigs = @ \cup {r}]
    BY <1>4 DEF Cat!SaveRig
  <2>2. PICK d : d = [cfg EXCEPT !.rigs = @ \cup {r}]
    OBVIOUS
  <2>3. d \in Cat!Configs /\ d.books = cfg.books /\ d.active = cfg.active /\ d.ops = cfg.ops
    BY <1>1, <2>1, <2>2 DEF Cat!Configs
  <2>4. Cat!Catalogs /\ cfg' = d /\ (disk' = d \/ disk' = disk) /\ UNCHANGED app
    BY <1>4, <2>1, <2>2 DEF Cat!SaveRig, Cat!Save
  <2> QED BY <2>3, <2>4, AsideStep
<1>5. CASE Cat!DeleteRig
  <2>1. PICK r \in cfg.rigs : cfg' = [cfg EXCEPT !.rigs = @ \ {r}]
    BY <1>5 DEF Cat!DeleteRig
  <2>2. PICK d : d = [cfg EXCEPT !.rigs = @ \ {r}]
    OBVIOUS
  <2>3. d \in Cat!Configs /\ d.books = cfg.books /\ d.active = cfg.active /\ d.ops = cfg.ops
    BY <1>1, <2>1, <2>2 DEF Cat!Configs
  <2>4. Cat!Catalogs /\ cfg' = d /\ (disk' = d \/ disk' = disk) /\ UNCHANGED app
    BY <1>5, <2>1, <2>2 DEF Cat!DeleteRig, Cat!Save
  <2> QED BY <2>3, <2>4, AsideStep
<1> QED BY <1>2, <1>3, <1>4, <1>5

\* A deleted operator is named by no logbook.
LEMMA WithoutOperatorResolves ==
  ASSUME CatAssumption, NEW c \in Cat!Configs, Resolves(c), NEW o \in Ops, NEW d \in Cat!Configs,
         d.ops = [c.ops EXCEPT ![o] = None], d.books = Cat!WithoutOperator(c.books, o)
  PROVE  /\ Cat!Listed(d) = Cat!Listed(c) /\ Resolves(d)
         /\ \A b \in Cat!Listed(c) : d.books[b] = [c.books[b] EXCEPT !.op = IF @ = o THEN None ELSE @]
<1>1. c.books \in [Books -> Cat!Entry \cup {None}] /\ c.ops \in [Ops -> Ops \cup {None}]
  BY DEF Cat!Configs
<1>2. ASSUME NEW b \in Books
      PROVE  d.books[b] = IF c.books[b] # None /\ c.books[b].op = o THEN [c.books[b] EXCEPT !.op = None] ELSE c.books[b]
  BY DEF Cat!WithoutOperator
<1>3. \A e \in Cat!Entry : [e EXCEPT !.op = None] \in Cat!Entry /\ [e EXCEPT !.op = None].op = None /\ e # None
  BY EntryWith
<1>4. Cat!Listed(d) = Cat!Listed(c)
  <2>1. ASSUME NEW b \in Books PROVE d.books[b] # None <=> c.books[b] # None
    <3>1. CASE c.books[b] = None
      BY <1>2, <3>1
    <3>2. CASE c.books[b] # None
      <4>1. c.books[b] \in Cat!Entry
        BY <1>1, <3>2
      <4> QED BY <1>2, <1>3, <3>2, <4>1
    <3> QED BY <3>1, <3>2
  <2> QED BY <2>1 DEF Cat!Listed
<1>5. \A p \in Cat!Known(c.ops) : p # o => p \in Cat!Known(d.ops)
  BY <1>1 DEF Cat!Known
<1>6. ASSUME NEW b \in Cat!Listed(d) PROVE d.books[b].op \in Cat!Known(d.ops) \cup {None}
  <2>1. b \in Books /\ c.books[b] \in Cat!Entry /\ c.books[b].op \in Cat!Known(c.ops) \cup {None} /\ c.books[b] # None
    BY <1>1, <1>4, <1>6 DEF Resolves, Cat!Listed
  <2>2. CASE c.books[b].op = o
    BY <1>2, <1>3, <2>1, <2>2
  <2>3. CASE c.books[b].op # o
    BY <1>2, <1>5, <2>1, <2>3
  <2> QED BY <2>2, <2>3
<1>7. ASSUME NEW b \in Cat!Listed(c) PROVE d.books[b] = [c.books[b] EXCEPT !.op = IF @ = o THEN None ELSE @]
  <2>1. b \in Books /\ c.books[b] \in Cat!Entry /\ c.books[b] # None
    BY <1>1 DEF Cat!Listed
  <2>2. CASE c.books[b].op = o
    BY <1>2, <2>1, <2>2
  <2>3. CASE c.books[b].op # o
    <3>1. d.books[b] = c.books[b]
      BY <1>2, <2>1, <2>3
    <3>2. \A e \in Cat!Entry : [e EXCEPT !.op = e.op] = e
      BY DEF Cat!Entry
    <3> QED BY <2>1, <2>3, <3>1, <3>2
  <2> QED BY <2>2, <2>3
<1> QED BY <1>4, <1>6, <1>7 DEF Resolves

\* The operator menu's operations.
LEMMA OperatorStep ==
  ASSUME CatAssumption, CatInv, Cat!SelectOperator \/ Cat!SaveOperator \/ Cat!DeleteOperator
  PROVE  CatInv'
<1>1. cfg \in Cat!Configs /\ cfg.ops \in [Ops -> Ops \cup {None}] /\ Resolves(cfg)
  BY DEF CatInv, Cat!Configs
<1>2. CASE Cat!SelectOperator
  BY <1>2, SelectionStep DEF Cat!SelectOperator, IsSelection, Cat!Save
<1>3. CASE Cat!SaveOperator
  <2>1. PICK o \in Ops, call \in Ops : cfg' = [cfg EXCEPT !.ops = [@ EXCEPT ![o] = call]]
    BY <1>3 DEF Cat!SaveOperator
  <2>2. PICK d : d = [cfg EXCEPT !.ops = [@ EXCEPT ![o] = call]]
    OBVIOUS
  <2>3. d \in Cat!Configs /\ d.books = cfg.books /\ d.active = cfg.active /\ d.ops = [cfg.ops EXCEPT ![o] = call]
    BY <1>1, <2>1, <2>2 DEF Cat!Configs
  <2>4. Cat!Known(cfg.ops) \subseteq Cat!Known(d.ops)
    BY <1>1, <2>1, <2>3 DEF Cat!Known, CatAssumption
  <2>5. Cat!Catalogs /\ cfg' = d /\ (disk' = d \/ disk' = disk) /\ UNCHANGED app
    BY <1>3, <2>1, <2>2 DEF Cat!SaveOperator, Cat!Save
  <2> QED BY <2>3, <2>4, <2>5, AsideStep
<1>4. CASE Cat!DeleteOperator
  <2>1. PICK o \in Cat!Known(cfg.ops) :
          /\ cfg' = [cfg EXCEPT !.ops = [@ EXCEPT ![o] = None], !.books = Cat!WithoutOperator(@, o)]
          /\ app' = [app EXCEPT !.op = IF @ = o THEN None ELSE @]
    BY <1>4 DEF Cat!DeleteOperator
  <2>2. PICK d : d = [cfg EXCEPT !.ops = [@ EXCEPT ![o] = None], !.books = Cat!WithoutOperator(@, o)]
    OBVIOUS
  <2>3. o \in Ops
    BY <1>1 DEF Cat!Known
  <2>4. Cat!WithoutOperator(cfg.books, o) \in [Books -> Cat!Entry \cup {None}]
    <3>1. cfg.books \in [Books -> Cat!Entry \cup {None}]
      BY <1>1 DEF Cat!Configs
    <3>2. \A e \in Cat!Entry : [e EXCEPT !.op = None] \in Cat!Entry
      BY EntryWith
    <3> QED BY <3>1, <3>2 DEF Cat!WithoutOperator
  <2>5. /\ d \in Cat!Configs /\ d.books = Cat!WithoutOperator(cfg.books, o) /\ d.active = cfg.active
        /\ d.ops = [cfg.ops EXCEPT ![o] = None]
    BY <1>1, <2>2, <2>3, <2>4 DEF Cat!Configs
  <2>6. /\ Cat!Listed(d) = Cat!Listed(cfg) /\ Resolves(d)
        /\ \A b \in Cat!Listed(cfg) : d.books[b] = [cfg.books[b] EXCEPT !.op = IF @ = o THEN None ELSE @]
    <3>1. PICK c : c = cfg
      OBVIOUS
    <3>2. c \in Cat!Configs /\ Resolves(c) /\ d.ops = [c.ops EXCEPT ![o] = None] /\ d.books = Cat!WithoutOperator(c.books, o)
      BY <1>1, <2>5, <3>1
    <3> QED BY <2>3, <2>5, <3>1, <3>2, WithoutOperatorResolves
  <2>7. Cat!Catalogs /\ cfg' = d /\ (disk' = d \/ disk' = disk)
    BY <1>4, <2>1, <2>2 DEF Cat!DeleteOperator, Cat!Save
  <2>8. running /\ cfg.active \in Cat!Listed(cfg) /\ app = cfg.books[cfg.active] /\ app \in Cat!Entry
    BY <2>7, ActiveIs DEF Cat!Catalogs, Cat!Changing
  <2>9. app' = d.books[d.active] /\ d.active \in Cat!Listed(d)
    BY <2>1, <2>5, <2>6, <2>8
  <2>10. app' \in Cat!Entry
    <3>1. [app EXCEPT !.op = None] \in Cat!Entry /\ [app EXCEPT !.op = app.op] = app
      BY <2>8, EntryWith DEF Cat!Entry
    <3> QED BY <2>1, <2>8, <3>1
  <2> QED BY <2>5, <2>6, <2>7, <2>9, <2>10, SmallChange
<1> QED BY <1>2, <1>3, <1>4


\* A contest written beside a selection.
LEMMA WithContestIs ==
  ASSUME CatAssumption, NEW c \in Cat!Configs, NEW x \in Contests,
         NEW ct \in [book : Books, inUse : BOOLEAN] \cup {None}
  PROVE  /\ Cat!WithContest(c, x, ct) \in Cat!Configs /\ Cat!WithContest(c, x, ct).books = c.books
         /\ Cat!WithContest(c, x, ct).active = c.active /\ Cat!WithContest(c, x, ct).ops = c.ops
  BY DEF Cat!WithContest, Cat!Configs

\* Two configs with the same logbooks and operators resolve alike.
LEMMA SameBooks ==
  ASSUME NEW c, NEW d, d.books = c.books, d.ops = c.ops
  PROVE  Cat!Listed(d) = Cat!Listed(c) /\ (Resolves(c) => Resolves(d))
  BY DEF Cat!Listed, Resolves

\* A contest is written, and the active logbook's selection with it.
LEMMA ContestWritten ==
  ASSUME CatAssumption, CatInv, Cat!Catalogs, NEW x \in Contests, NEW y \in Contests \cup {None},
         NEW ct \in [book : Books, inUse : BOOLEAN] \cup {None},
         \/ cfg' = Cat!WithContest(Cat!Chosen("contest", y), x, ct) /\ app' = [app EXCEPT !.contest = y]
         \/ cfg' = Cat!WithContest(cfg, x, ct) /\ app' = app,
         disk' = cfg' \/ disk' = disk
  PROVE  CatInv'
<1>1. running
  BY DEF Cat!Catalogs, Cat!Changing
<1>2. /\ cfg.active \in Cat!Listed(cfg) /\ app = cfg.books[cfg.active] /\ app \in Cat!Entry /\ cfg \in Cat!Configs /\ Resolves(cfg)
  BY <1>1, ActiveIs DEF CatInv
<1>3. PICK c : /\ c \in Cat!Configs /\ Cat!Listed(c) = Cat!Listed(cfg) /\ c.active = cfg.active /\ Resolves(c)
               /\ c.books[cfg.active] = app' /\ app' \in Cat!Entry /\ cfg' = Cat!WithContest(c, x, ct)
  <2>1. CASE cfg' = Cat!WithContest(Cat!Chosen("contest", y), x, ct) /\ app' = [app EXCEPT !.contest = y]
    <3>1. IsSelection("contest", y)
      BY DEF IsSelection
    <3>2. /\ Cat!Chosen("contest", y) \in Cat!Configs /\ Cat!Listed(Cat!Chosen("contest", y)) = Cat!Listed(cfg)
          /\ Cat!Chosen("contest", y).active = cfg.active
          /\ Cat!Chosen("contest", y).books[cfg.active] = [app EXCEPT !["contest"] = y]
          /\ [app EXCEPT !["contest"] = y] \in Cat!Entry /\ Resolves(Cat!Chosen("contest", y))
      BY <1>1, <3>1, ChosenIs
    <3> QED BY <2>1, <3>2
  <2>2. CASE cfg' = Cat!WithContest(cfg, x, ct) /\ app' = app
    BY <1>2, <2>2
  <2> QED BY <2>1, <2>2
<1>4. PICK d : d = Cat!WithContest(c, x, ct)
  OBVIOUS
<1>5. d \in Cat!Configs /\ d.books = c.books /\ d.active = c.active /\ d.ops = c.ops
  BY <1>3, <1>4, WithContestIs
<1>6. Cat!Listed(d) = Cat!Listed(cfg) /\ Resolves(d)
  BY <1>3, <1>5, SameBooks
<1> QED BY <1>2, <1>3, <1>4, <1>5, <1>6, SmallChange

\* The contest menu's operations.
LEMMA ContestStep ==
  ASSUME CatAssumption, CatInv, Cat!SelectContest \/ Cat!CreateContest \/ Cat!EditContest \/ Cat!DeleteContest
  PROVE  CatInv'
<1>0. /\ cfg.active \in Books /\ app.contest \in Contests \cup {None}
      /\ None \notin [book : Books, inUse : BOOLEAN]
  BY DEF CatInv, Cat!Configs, Cat!Entry, CatAssumption
<1>1. CASE Cat!SelectContest
  BY <1>1, SelectionStep DEF Cat!SelectContest, IsSelection, Cat!Save
<1>2. CASE Cat!CreateContest
  <2>1. PICK x \in Contests :
          /\ cfg' = Cat!WithContest(Cat!Chosen("contest", x), x, [book |-> cfg.active, inUse |-> TRUE])
          /\ app' = [app EXCEPT !.contest = x]
    BY <1>2 DEF Cat!CreateContest
  <2>2. Cat!Catalogs /\ (disk' = cfg' \/ disk' = disk)
    BY <1>2 DEF Cat!CreateContest, Cat!saveConfig, Cat!Save
  <2>3. PICK ct : ct = [book |-> cfg.active, inUse |-> TRUE]
    OBVIOUS
  <2>4. ct \in [book : Books, inUse : BOOLEAN] \cup {None}
    BY <1>0, <2>3
  <2> QED BY <2>1, <2>2, <2>3, <2>4, ContestWritten
<1>3. CASE Cat!EditContest
  <2>1. PICK x \in Contests, u \in BOOLEAN, left \in Contests \cup {None} :
          /\ cfg' = Cat!WithContest(Cat!Chosen("contest", left), x, [book |-> cfg.active, inUse |-> u])
          /\ app' = [app EXCEPT !.contest = left]
    <3>1. PICK x \in {y \in Contests : Cat!Own(y)}, u \in BOOLEAN :
            LET left == IF ~u /\ app.contest = x THEN None ELSE app.contest
            IN /\ cfg' = Cat!WithContest(Cat!Chosen("contest", left), x, [book |-> cfg.active, inUse |-> u])
               /\ app' = [app EXCEPT !.contest = left]
      BY <1>3 DEF Cat!EditContest
    <3>2. PICK left : left = IF ~u /\ app.contest = x THEN None ELSE app.contest
      OBVIOUS
    <3>3. left \in Contests \cup {None} /\ x \in Contests
      BY <1>0, <3>1, <3>2
    <3> QED BY <3>1, <3>2, <3>3
  <2>2. Cat!Catalogs /\ (disk' = cfg' \/ disk' = disk)
    BY <1>3 DEF Cat!EditContest, Cat!saveConfig, Cat!Save
  <2>3. PICK ct : ct = [book |-> cfg.active, inUse |-> u]
    OBVIOUS
  <2>4. ct \in [book : Books, inUse : BOOLEAN] \cup {None}
    BY <1>0, <2>1, <2>3
  <2> QED BY <2>1, <2>2, <2>3, <2>4, ContestWritten
<1>4. CASE Cat!DeleteContest
  <2>1. PICK x \in Contests, left \in Contests \cup {None} :
          /\ \/ left = app.contest /\ cfg' = Cat!WithContest(cfg, x, None)
             \/ cfg' = Cat!WithContest(Cat!Chosen("contest", left), x, None)
          /\ app' = [app EXCEPT !.contest = left]
    <3>1. PICK x \in {y \in Contests : Cat!Own(y)} :
            LET left == IF app.contest = x THEN None ELSE app.contest
            IN /\ cfg' = Cat!WithContest(IF left = app.contest THEN cfg ELSE Cat!Chosen("contest", left), x, None)
               /\ app' = [app EXCEPT !.contest = left]
      BY <1>4 DEF Cat!DeleteContest
    <3>2. PICK left : left = IF app.contest = x THEN None ELSE app.contest
      OBVIOUS
    <3>3. left \in Contests \cup {None} /\ x \in Contests
      BY <1>0, <3>1, <3>2
    <3>4. /\ cfg' = Cat!WithContest(IF left = app.contest THEN cfg ELSE Cat!Chosen("contest", left), x, None)
          /\ app' = [app EXCEPT !.contest = left]
      BY <3>1, <3>2
    <3> QED BY <3>3, <3>4
  <2>2. Cat!Catalogs /\ (disk' = cfg' \/ disk' = disk)
    BY <1>4 DEF Cat!DeleteContest
  <2>3. PICK ct : ct = None
    OBVIOUS
  <2>4. left = app.contest => app' = app
    BY <2>1 DEF CatInv, Cat!Entry
  <2>5. \/ cfg' = Cat!WithContest(Cat!Chosen("contest", left), x, ct) /\ app' = [app EXCEPT !.contest = left]
        \/ cfg' = Cat!WithContest(cfg, x, ct) /\ app' = app
    BY <2>1, <2>3, <2>4
  <2> QED BY <2>1, <2>2, <2>3, <2>5, ContestWritten
<1> QED BY <1>1, <1>2, <1>3, <1>4

\* The settings menus, which may leave a config that Validate refuses.
LEMMA SettingsStep == ASSUME CatAssumption, CatInv, Cat!SaveSettings PROVE CatInv'
<1>1. cfg \in Cat!Configs
  BY DEF CatInv
<1>2. PICK bad \in BOOLEAN : cfg' = [cfg EXCEPT !.bad = bad]
  BY DEF Cat!SaveSettings
<1>3. PICK d : d = [cfg EXCEPT !.bad = bad]
  OBVIOUS
<1>4. d \in Cat!Configs /\ d.books = cfg.books /\ d.active = cfg.active /\ d.ops = cfg.ops
  BY <1>1, <1>2, <1>3 DEF Cat!Configs
<1>5. Cat!Catalogs /\ cfg' = d /\ (disk' = d \/ disk' = disk) /\ UNCHANGED app
  BY <1>2, <1>3 DEF Cat!SaveSettings, Cat!saveConfig, Cat!Save
<1> QED BY <1>4, <1>5, AsideStep

\* Another logbook becomes the active one.
LEMMA SwitchStep == ASSUME CatAssumption, CatInv, Cat!SwitchLogbook PROVE CatInv'
<1>1. PICK b \in Cat!Listed(cfg) \ {cfg.active} : Cat!Opened(cfg, b) /\ held' = synced[b] /\ unsaved' = unsaved \ {b}
  BY DEF Cat!SwitchLogbook
<1>2. PICK d : d = [cfg EXCEPT !.active = b]
  OBVIOUS
<1>3. cfg \in Cat!Configs /\ Resolves(cfg) /\ b \in Books /\ disk \in Cat!Configs /\ Resolves(disk)
      /\ \A x \in Books : files[x] = "removed" => x \notin Cat!Listed(cfg) \cup Cat!Listed(disk)
  BY DEF CatInv, Cat!Listed
<1>4. d \in Cat!Configs /\ d.books = cfg.books /\ d.active = b /\ d.ops = cfg.ops
  BY <1>2, <1>3 DEF Cat!Configs
<1>5. Cat!Listed(d) = Cat!Listed(cfg) /\ Resolves(d)
  BY <1>3, <1>4, SameBooks
<1>6. /\ cfg' = d /\ app' = d.books[b] /\ files' = [files EXCEPT ![b] = "log"] /\ (disk' = d \/ disk' = disk)
  <2>1. disk' \in {cfg', disk}
    BY DEF Cat!SwitchLogbook, Cat!Save
  <2> QED BY <1>1, <1>2, <1>4, <2>1 DEF Cat!Opened
<1>7. running /\ running' = running /\ changes' = changes + 1 /\ changes < MaxChanges
      /\ UNCHANGED <<gen, edition, syncs, synced>>
  BY DEF Cat!SwitchLogbook, Cat!Changing
<1>8. Generations'
  BY <1>1, <1>3, <1>7 DEF CatInv, Generations, CatAssumption, Cat!SyncIsLatest
<1>9. app' \in Cat!Entry
  BY <1>1, <1>3, <1>4, <1>6 DEF Cat!Configs, Cat!Listed
<1>10. Cat!CopiesAgree'
  BY <1>1, <1>4, <1>5, <1>6, <1>7 DEF Cat!CopiesAgree
<1>11. files' \in [Books -> {"none", "log", "removed"}] /\ running' \in BOOLEAN /\ running'
  BY <1>3, <1>6, <1>7 DEF CatInv
<1>12. /\ cfg' \in Cat!Configs /\ disk' \in Cat!Configs /\ Resolves(cfg') /\ Resolves(disk')
       /\ Cat!Listed(cfg') = Cat!Listed(cfg) /\ Cat!Listed(disk') \subseteq Cat!Listed(cfg) \cup Cat!Listed(disk)
  <2>1. CASE disk' = d
    BY <1>4, <1>5, <1>6, <2>1
  <2>2. CASE disk' = disk
    BY <1>3, <1>4, <1>5, <1>6, <2>2
  <2> QED BY <1>6, <2>1, <2>2
<1>13. \A x \in Books : files'[x] = "removed" => files[x] = "removed"
  BY <1>3, <1>6 DEF CatInv
<1>14. /\ (Resolves(cfg) /\ Resolves(disk))'
       /\ (\A x \in Books : files[x] = "removed" => x \notin Cat!Listed(cfg) \cup Cat!Listed(disk))'
  BY <1>3, <1>12, <1>13
<1> QED BY <1>8, <1>9, <1>10, <1>11, <1>12, <1>14 DEF CatInv


\* The parts of Generations.
LEMMA GenerationsAre ==
  ASSUME Generations
  PROVE  /\ gen \in Nat /\ gen <= changes /\ changes \in 0..MaxChanges
         /\ edition \in [Books -> 0..gen] /\ synced \in [Books -> 0..gen]
         /\ held \in 0..gen /\ unsaved \subseteq Books
         /\ syncs \subseteq [book : Books, gen : 1..gen]
         /\ \A s \in syncs : s.gen = gen => edition[s.book] \in {0, gen} /\ synced[s.book] = 0
         /\ \A s, t \in syncs : s.gen = t.gen => s = t
         /\ \A x \in Books : synced[x] # 0 => edition[x] \in {0, synced[x]}
  BY DEF Generations, Cat!SyncIsLatest

\* A save of the station form: a new generation, which is its logbook's.
LEMMA EditGenerations ==
  ASSUME Generations, NEW b \in Books, Cat!Edits(b), changes' = changes + 1, changes < MaxChanges, MaxChanges \in Nat
  PROVE  Generations'
<1>1. /\ gen \in Nat /\ gen <= changes /\ changes \in 0..MaxChanges
      /\ edition \in [Books -> 0..gen] /\ synced \in [Books -> 0..gen]
      /\ held \in 0..gen /\ unsaved \subseteq Books
      /\ syncs \subseteq [book : Books, gen : 1..gen]
      /\ \A s, t \in syncs : s.gen = t.gen => s = t
      /\ \A x \in Books : synced[x] # 0 => edition[x] \in {0, synced[x]}
  BY GenerationsAre
<1>2. PICK n \in Nat : n = gen + 1
  BY <1>1
<1>3. /\ gen' = n /\ edition' = [edition EXCEPT ![b] = n] /\ synced' = [synced EXCEPT ![b] = 0]
      /\ syncs' \in {syncs, syncs \cup {[book |-> b, gen |-> n]}}
      /\ held' \in {0, held} /\ unsaved' = unsaved \ {b}
  BY <1>2 DEF Cat!Edits, Cat!Entered
<1>4. n <= changes' /\ changes' \in 0..MaxChanges /\ 0..gen \subseteq 0..n /\ 1..gen \subseteq 1..n /\ n \in 1..n /\ 0 \in 0..n
      /\ n \notin 1..gen
  BY <1>1, <1>2
<1>5. edition' \in [Books -> 0..n] /\ synced' \in [Books -> 0..n] /\ held' \in 0..n /\ unsaved' \subseteq Books
  BY <1>1, <1>3, <1>4
<1>6. ASSUME NEW s \in syncs'
      PROVE s \in [book : Books, gen : 1..n] /\ (s.gen = n => edition'[s.book] \in {0, n} /\ synced'[s.book] = 0)
  <2>1. CASE s \in syncs
    <3>1. s \in [book : Books, gen : 1..gen]
      BY <1>1, <2>1
    <3> QED BY <1>4, <3>1
  <2>2. CASE s = [book |-> b, gen |-> n]
    BY <1>1, <1>3, <1>4, <2>2
  <2> QED BY <1>3, <2>1, <2>2
<1>7. ASSUME NEW s \in syncs', NEW t \in syncs', s.gen = t.gen PROVE s = t
  <2>1. \A x \in syncs : x.gen \in 1..gen
    BY <1>1
  <2>2. \A x \in syncs' : x \in syncs \/ x = [book |-> b, gen |-> n]
    BY <1>3
  <2> QED BY <1>1, <1>4, <1>7, <2>1, <2>2
<1>8. \A x \in Books : synced'[x] # 0 => edition'[x] \in {0, synced'[x]}
  BY <1>1, <1>3
<1> QED BY <1>2, <1>3, <1>4, <1>5, <1>6, <1>7, <1>8 DEF Generations, Cat!SyncIsLatest

\* A save of the station form that fails: the logbook's data is no sync's.
LEMMA UnsavedGenerations ==
  ASSUME Generations, NEW b \in Books, Cat!EditsUnsaved(b), changes' = changes + 1, changes < MaxChanges, MaxChanges \in Nat
  PROVE  Generations'
<1>1. /\ gen \in Nat /\ gen <= changes /\ changes \in 0..MaxChanges
      /\ edition \in [Books -> 0..gen] /\ synced \in [Books -> 0..gen]
      /\ held \in 0..gen /\ unsaved \subseteq Books
      /\ syncs \subseteq [book : Books, gen : 1..gen]
      /\ \A s \in syncs : s.gen = gen => edition[s.book] \in {0, gen} /\ synced[s.book] = 0
      /\ \A s, t \in syncs : s.gen = t.gen => s = t
      /\ \A x \in Books : synced[x] # 0 => edition[x] \in {0, synced[x]}
  BY GenerationsAre
<1>2. /\ gen' = gen /\ edition' = [edition EXCEPT ![b] = 0] /\ synced' = [synced EXCEPT ![b] = 0]
      /\ syncs' = syncs /\ held' \in {0, held} /\ unsaved' = unsaved \ {b}
  BY DEF Cat!EditsUnsaved, Cat!Entered
<1>3. edition' \in [Books -> 0..gen'] /\ synced' \in [Books -> 0..gen'] /\ held' \in 0..gen' /\ unsaved' \subseteq Books
  BY <1>1, <1>2
<1>4. \A s \in syncs' : s.gen = gen' => edition'[s.book] \in {0, gen'} /\ synced'[s.book] = 0
  BY <1>1, <1>2
<1>5. \A x \in Books : synced'[x] # 0 => edition'[x] \in {0, synced'[x]}
  BY <1>1, <1>2
<1>6. gen' \in Nat /\ gen' <= changes' /\ changes' \in 0..MaxChanges
  BY <1>1, <1>2
<1> QED BY <1>1, <1>2, <1>3, <1>4, <1>5, <1>6 DEF Generations, Cat!SyncIsLatest

\* A new logbook is listed and its database is made.
LEMMA CreateStep == ASSUME CatAssumption, CatInv, Cat!CreateLogbook PROVE CatInv'
<1>1. PICK b \in Books \ Cat!Listed(cfg), o \in Cat!Known(cfg.ops) \cup {None} :
          /\ Cat!Opened([cfg EXCEPT !.books = [@ EXCEPT ![b] = [rig |-> app.rig, op |-> o, contest |-> None]]], b)
          /\ disk' \in {cfg', disk}
          /\ Cat!Edits(b) \/ Cat!EditsUnsaved(b)
  BY DEF Cat!CreateLogbook, Cat!Save
<1>2. PICK e, c, d : /\ e = [rig |-> app.rig, op |-> o, contest |-> None]
                     /\ c = [cfg EXCEPT !.books = [@ EXCEPT ![b] = e]]
                     /\ d = [c EXCEPT !.active = b]
  OBVIOUS
<1>3. cfg \in Cat!Configs /\ Resolves(cfg) /\ disk \in Cat!Configs /\ Resolves(disk)
      /\ \A x \in Books : files[x] = "removed" => x \notin Cat!Listed(cfg) \cup Cat!Listed(disk)
  BY DEF CatInv
<1>4. e \in Cat!Entry /\ e.op \in Cat!Known(cfg.ops) \cup {None}
  <2>1. app.rig \in Rigs \cup {None} /\ o \in Ops \cup {None}
    BY DEF CatInv, Cat!Configs, Cat!Entry, Cat!Known
  <2> QED BY <1>2, <2>1 DEF Cat!Entry
<1>5. /\ c \in Cat!Configs /\ c.books = [cfg.books EXCEPT ![b] = e] /\ Cat!Listed(c) = Cat!Listed(cfg) \cup {b} /\ Resolves(c)
  <2>1. PICK c0 : c0 = cfg
    OBVIOUS
  <2>2. c = [c0 EXCEPT !.books = [@ EXCEPT ![b] = e]] /\ c0 \in Cat!Configs /\ Resolves(c0)
        /\ e.op \in Cat!Known(c0.ops) \cup {None}
    BY <1>2, <1>3, <1>4, <2>1
  <2> QED BY <1>4, <2>1, <2>2, BookWith
<1>6. d \in Cat!Configs /\ d.books = c.books /\ d.active = b /\ d.ops = c.ops
  BY <1>2, <1>5 DEF Cat!Configs
<1>7. Cat!Listed(d) = Cat!Listed(cfg) \cup {b} /\ Resolves(d)
  BY <1>5, <1>6, SameBooks
<1>8. /\ cfg' = d /\ app' = d.books[b] /\ files' = [files EXCEPT ![b] = "log"] /\ (disk' = d \/ disk' = disk)
  BY <1>1, <1>2, <1>6 DEF Cat!Opened
<1>9. running /\ running' = running /\ changes' = changes + 1 /\ changes < MaxChanges
  BY DEF Cat!CreateLogbook, Cat!Changing
<1>10. Generations'
  BY <1>1, <1>9, EditGenerations, UnsavedGenerations DEF CatInv, CatAssumption
<1>11. app' \in Cat!Entry
  BY <1>3, <1>4, <1>5, <1>6, <1>8 DEF Cat!Configs
<1>12. Cat!CopiesAgree'
  <2>1. held' = IF b = cfg'.active THEN 0 ELSE held
    BY <1>1 DEF Cat!Edits, Cat!EditsUnsaved, Cat!Entered
  <2>2. synced' = [synced EXCEPT ![b] = 0] /\ synced \in [Books -> 0..gen]
    BY <1>1 DEF Cat!Edits, Cat!EditsUnsaved, Cat!Entered, CatInv, Generations
  <2> QED BY <1>6, <1>7, <1>8, <2>1, <2>2 DEF Cat!CopiesAgree
<1>13. files' \in [Books -> {"none", "log", "removed"}] /\ running' \in BOOLEAN /\ running'
  BY <1>8, <1>9 DEF CatInv
<1>14. /\ cfg' \in Cat!Configs /\ disk' \in Cat!Configs /\ Resolves(cfg') /\ Resolves(disk')
       /\ Cat!Listed(cfg') = Cat!Listed(cfg) \cup {b} /\ Cat!Listed(disk') \subseteq Cat!Listed(cfg) \cup Cat!Listed(disk) \cup {b}
  <2>1. CASE disk' = d
    BY <1>6, <1>7, <1>8, <2>1
  <2>2. CASE disk' = disk
    BY <1>3, <1>6, <1>7, <1>8, <2>2
  <2> QED BY <1>8, <2>1, <2>2
<1>15. \A x \in Books : files'[x] = "removed" => files[x] = "removed" /\ x # b
  BY <1>8 DEF CatInv
<1>16. /\ (Resolves(cfg) /\ Resolves(disk))'
       /\ (\A x \in Books : files[x] = "removed" => x \notin Cat!Listed(cfg) \cup Cat!Listed(disk))'
  BY <1>3, <1>14, <1>15
<1> QED BY <1>10, <1>11, <1>12, <1>13, <1>14, <1>16 DEF CatInv

\* The station form's save of a logbook.
LEMMA EditStep == ASSUME CatAssumption, CatInv, Cat!EditLogbook PROVE CatInv'
<1>1. PICK b \in Cat!Listed(cfg), o \in Cat!Known(cfg.ops) \cup {None} : \E e :
          /\ e = [cfg.books[b] EXCEPT !.op = o]
          /\ cfg' = [cfg EXCEPT !.books = [@ EXCEPT ![b] = e]]
          /\ app' = IF b = cfg.active THEN e ELSE app
          /\ disk' \in {cfg', disk}
          /\ Cat!Edits(b) \/ Cat!EditsUnsaved(b)
  BY DEF Cat!EditLogbook
<1>0. PICK e :
          /\ e = [cfg.books[b] EXCEPT !.op = o]
          /\ cfg' = [cfg EXCEPT !.books = [@ EXCEPT ![b] = e]]
          /\ app' = IF b = cfg.active THEN e ELSE app
          /\ disk' \in {cfg', disk}
          /\ Cat!Edits(b) \/ Cat!EditsUnsaved(b)
  BY <1>1
<1>2. PICK d : d = [cfg EXCEPT !.books = [@ EXCEPT ![b] = e]]
  OBVIOUS
<1>3. cfg \in Cat!Configs /\ Resolves(cfg) /\ disk \in Cat!Configs /\ Resolves(disk)
      /\ \A x \in Books : files[x] = "removed" => x \notin Cat!Listed(cfg) \cup Cat!Listed(disk)
  BY DEF CatInv
<1>4. b \in Books /\ e \in Cat!Entry /\ e.op \in Cat!Known(cfg.ops) \cup {None}
  <2>1. b \in Books /\ cfg.books[b] \in Cat!Entry /\ o \in Ops \cup {None}
    BY <1>0, <1>3 DEF Cat!Configs, Cat!Listed, Cat!Known
  <2> QED BY <1>0, <2>1, EntryWith
<1>5. /\ d \in Cat!Configs /\ d.books = [cfg.books EXCEPT ![b] = e] /\ Cat!Listed(d) = Cat!Listed(cfg) \cup {b} /\ Resolves(d)
      /\ d.active = cfg.active
  <2>1. PICK c0 : c0 = cfg
    OBVIOUS
  <2>2. d = [c0 EXCEPT !.books = [@ EXCEPT ![b] = e]] /\ c0 \in Cat!Configs /\ Resolves(c0)
        /\ e.op \in Cat!Known(c0.ops) \cup {None}
    BY <1>2, <1>3, <1>4, <2>1
  <2> QED BY <1>4, <2>1, <2>2, BookWith
<1>6. /\ cfg' = d /\ (disk' = d \/ disk' = disk) /\ UNCHANGED files
      /\ running /\ running' = running /\ changes' = changes + 1 /\ changes < MaxChanges
  BY <1>0, <1>2 DEF Cat!EditLogbook, Cat!Changing
<1>7. /\ cfg.active \in Cat!Listed(cfg) /\ app = cfg.books[cfg.active] /\ app \in Cat!Entry /\ cfg.active \in Books
  BY <1>6, ActiveIs
<1>8. app' \in Cat!Entry /\ app' = d.books[d.active] /\ d.active \in Cat!Listed(d)
  BY <1>0, <1>3, <1>4, <1>5, <1>7 DEF Cat!Configs
<1>9. Generations'
  BY <1>0, <1>4, <1>6, EditGenerations, UnsavedGenerations DEF CatInv, CatAssumption
<1>10. Cat!CopiesAgree'
  <2>1. /\ held' = (IF b = cfg'.active THEN 0 ELSE held) /\ unsaved' = unsaved \ {b}
        /\ synced' = [synced EXCEPT ![b] = 0]
    BY <1>0 DEF Cat!Edits, Cat!EditsUnsaved, Cat!Entered
  <2>2. synced \in [Books -> 0..gen] /\ held = IF cfg.active \in unsaved THEN 0 ELSE synced[cfg.active]
    BY <1>6 DEF CatInv, Generations, Cat!CopiesAgree
  <2>3. cfg'.active = cfg.active
    BY <1>5, <1>6
  <2>4. held' = IF cfg'.active \in unsaved' THEN 0 ELSE synced'[cfg'.active]
    BY <1>4, <1>7, <2>1, <2>2, <2>3
  <2> QED BY <1>6, <1>8, <2>4 DEF Cat!CopiesAgree
<1>11. files' \in [Books -> {"none", "log", "removed"}] /\ running' \in BOOLEAN /\ running'
  BY <1>6 DEF CatInv
<1>12. /\ cfg' \in Cat!Configs /\ disk' \in Cat!Configs /\ Resolves(cfg') /\ Resolves(disk')
       /\ Cat!Listed(cfg') = Cat!Listed(cfg) /\ Cat!Listed(disk') \subseteq Cat!Listed(cfg) \cup Cat!Listed(disk)
  <2>1. CASE disk' = d
    BY <1>0, <1>5, <1>6, <2>1
  <2>2. CASE disk' = disk
    BY <1>0, <1>3, <1>5, <1>6, <2>2
  <2> QED BY <1>6, <2>1, <2>2
<1>13. /\ (Resolves(cfg) /\ Resolves(disk))'
       /\ (\A x \in Books : files[x] = "removed" => x \notin Cat!Listed(cfg) \cup Cat!Listed(disk))'
  BY <1>3, <1>6, <1>12
<1> QED BY <1>8, <1>9, <1>10, <1>11, <1>12, <1>13 DEF CatInv

\* A logbook goes from the catalog, its database only once the file agrees.
LEMMA DeleteStep == ASSUME CatAssumption, CatInv, Cat!DeleteLogbook PROVE CatInv'
<1>1. PICK b \in Cat!Listed(cfg) \ {cfg.active} :
          /\ cfg' = [cfg EXCEPT !.books = [@ EXCEPT ![b] = None]]
          /\ Cat!Save(cfg')
          /\ Cat!Removes(b)
  BY DEF Cat!DeleteLogbook
<1>2. PICK d : d = [cfg EXCEPT !.books = [@ EXCEPT ![b] = None]]
  OBVIOUS
<1>3. cfg \in Cat!Configs /\ Resolves(cfg) /\ disk \in Cat!Configs /\ Resolves(disk)
      /\ \A x \in Books : files[x] = "removed" => x \notin Cat!Listed(cfg) \cup Cat!Listed(disk)
  BY DEF CatInv
<1>4. b \in Books /\ d \in Cat!Configs /\ d.books = [cfg.books EXCEPT ![b] = None] /\ d.ops = cfg.ops /\ d.active = cfg.active
  BY <1>1, <1>2, <1>3 DEF Cat!Configs, Cat!Listed
<1>5. cfg.books \in [Books -> Cat!Entry \cup {None}]
  BY <1>3 DEF Cat!Configs
<1>6. Cat!Listed(d) = Cat!Listed(cfg) \ {b}
  BY <1>4, <1>5 DEF Cat!Listed
<1>7. Resolves(d)
  BY <1>3, <1>4, <1>5, <1>6 DEF Resolves, Cat!Listed
<1>8. /\ cfg' = d /\ (disk' = d \/ disk' = disk) /\ UNCHANGED <<app, Cat!syncVars>>
      /\ running /\ running' = running /\ changes' = changes + 1 /\ changes < MaxChanges
  BY <1>1, <1>2 DEF Cat!DeleteLogbook, Cat!Save, Cat!Changing
<1>9. /\ cfg.active \in Cat!Listed(cfg) /\ app = cfg.books[cfg.active] /\ app \in Cat!Entry /\ cfg.active \in Books
  BY <1>8, ActiveIs
<1>10. app' \in Cat!Entry /\ app' = d.books[d.active] /\ d.active \in Cat!Listed(d)
  BY <1>1, <1>4, <1>5, <1>6, <1>8, <1>9
<1>11. Generations'
  BY <1>8, GenerationsStay DEF CatInv, Generations, CatAssumption
<1>12. Cat!CopiesAgree'
  BY <1>4, <1>8, <1>10, CopiesStay
<1>13. /\ files' = files \/ (b \notin Cat!Listed(disk') /\ files' = [files EXCEPT ![b] = "removed"])
  BY <1>1 DEF Cat!Removes
<1>14. files' \in [Books -> {"none", "log", "removed"}] /\ running' \in BOOLEAN /\ running'
  BY <1>8, <1>13 DEF CatInv
<1>15. /\ cfg' \in Cat!Configs /\ disk' \in Cat!Configs /\ Resolves(cfg') /\ Resolves(disk')
       /\ Cat!Listed(cfg') = Cat!Listed(cfg) \ {b} /\ Cat!Listed(disk') \subseteq Cat!Listed(cfg) \cup Cat!Listed(disk)
  <2>1. CASE disk' = d
    BY <1>4, <1>6, <1>7, <1>8, <2>1
  <2>2. CASE disk' = disk
    BY <1>3, <1>4, <1>6, <1>7, <1>8, <2>2
  <2> QED BY <1>8, <2>1, <2>2
<1>16. \A x \in Books : files'[x] = "removed" => x \notin Cat!Listed(cfg') \cup Cat!Listed(disk')
  BY <1>3, <1>13, <1>15 DEF CatInv
<1>17. /\ (Resolves(cfg) /\ Resolves(disk))'
       /\ (\A x \in Books : files[x] = "removed" => x \notin Cat!Listed(cfg) \cup Cat!Listed(disk))'
  BY <1>15, <1>16
<1> QED BY <1>10, <1>11, <1>12, <1>14, <1>15, <1>17 DEF CatInv

\* Neither a catalog entry nor a database is touched, and what is saved is the config in use.
LEMMA CatalogStays ==
  ASSUME CatAssumption, CatInv, running, UNCHANGED <<cfg, running, files>>, disk' \in {cfg, disk},
         app' \in Cat!Entry, Generations', Cat!CopiesAgree'
  PROVE  CatInv'
<1>1. cfg \in Cat!Configs /\ Resolves(cfg) /\ disk \in Cat!Configs /\ Resolves(disk)
      /\ \A x \in Books : files[x] = "removed" => x \notin Cat!Listed(cfg) \cup Cat!Listed(disk)
  BY DEF CatInv
<1>2. /\ disk' \in Cat!Configs /\ Resolves(disk') /\ Cat!Listed(disk') \subseteq Cat!Listed(cfg) \cup Cat!Listed(disk)
  <2>1. CASE disk' = cfg
    BY <1>1, <2>1
  <2>2. CASE disk' = disk
    BY <1>1, <2>2
  <2> QED BY <2>1, <2>2
<1>3. /\ (Resolves(cfg) /\ Resolves(disk))'
      /\ (\A x \in Books : files[x] = "removed" => x \notin Cat!Listed(cfg) \cup Cat!Listed(disk))'
  BY <1>1, <1>2
<1> QED BY <1>2, <1>3 DEF CatInv

\* The result of a station sync: an entry of App.Config, and App.Logbook's once it is saved.
LEMMA SyncStep == ASSUME CatAssumption, CatInv, Cat!StationSyncDone PROVE CatInv'
<1>1. PICK s \in syncs :
          /\ syncs' = syncs \ {s}
          /\ \/ UNCHANGED <<app, disk, synced, held, unsaved>>
             \/ /\ Cat!IsLatest(s) /\ s.book \in Cat!Listed(cfg)
                /\ synced' = [synced EXCEPT ![s.book] = s.gen]
                /\ \/ disk' = cfg /\ Cat!Refreshed(s.book)
                   \/ unsaved' = unsaved \cup {s.book} /\ UNCHANGED <<app, disk, held>>
  BY DEF Cat!StationSyncDone
<1>2. running /\ UNCHANGED <<cfg, running, files, gen, edition, changes>>
  BY DEF Cat!StationSyncDone
<1>3. /\ gen \in Nat /\ gen <= changes /\ changes \in 0..MaxChanges
      /\ edition \in [Books -> 0..gen] /\ synced \in [Books -> 0..gen]
      /\ held \in 0..gen /\ unsaved \subseteq Books
      /\ syncs \subseteq [book : Books, gen : 1..gen]
      /\ \A x \in syncs : x.gen = gen => edition[x.book] \in {0, gen} /\ synced[x.book] = 0
      /\ \A x, y \in syncs : x.gen = y.gen => x = y
      /\ \A x \in Books : synced[x] # 0 => edition[x] \in {0, synced[x]}
  BY GenerationsAre DEF CatInv
<1>4. s \in [book : Books, gen : 1..gen]
  BY <1>1, <1>3
<1>5. /\ cfg.active \in Books /\ cfg.active \in Cat!Listed(cfg) /\ app = cfg.books[cfg.active] /\ app \in Cat!Entry
      /\ held = IF cfg.active \in unsaved THEN 0 ELSE synced[cfg.active]
  BY <1>2, ActiveIs DEF CatInv, Cat!CopiesAgree
<1>6. CASE UNCHANGED <<app, disk, synced, held, unsaved>>
  <2>1. Generations'
    BY <1>1, <1>2, <1>3, <1>6 DEF Generations, Cat!SyncIsLatest
  <2>2. Cat!CopiesAgree'
    BY <1>2, <1>5, <1>6 DEF Cat!CopiesAgree, Cat!Listed
  <2> QED BY <1>2, <1>5, <1>6, <2>1, <2>2, CatalogStays
<1>7. CASE /\ Cat!IsLatest(s) /\ s.book \in Cat!Listed(cfg)
           /\ synced' = [synced EXCEPT ![s.book] = s.gen]
           /\ \/ disk' = cfg /\ Cat!Refreshed(s.book)
              \/ unsaved' = unsaved \cup {s.book} /\ UNCHANGED <<app, disk, held>>
  <2>1. s.gen = gen /\ s.book \in Books /\ edition[s.book] \in {0, gen} /\ synced[s.book] = 0
    BY <1>1, <1>3, <1>4, <1>7 DEF Cat!IsLatest
  <2>2. synced' \in [Books -> 0..gen] /\ synced'[s.book] = gen /\ \A x \in Books \ {s.book} : synced'[x] = synced[x]
    BY <1>3, <1>4, <1>7, <2>1
  <2>3. \A t \in syncs' : t \in syncs /\ t.gen # gen
    BY <1>1, <1>3, <2>1
  <2>4. /\ app' = app /\ disk' \in {cfg, disk} /\ held' \in 0..gen /\ unsaved' \subseteq Books
        /\ held' = IF cfg.active \in unsaved' THEN 0 ELSE synced'[cfg.active]
    <3>1. CASE disk' = cfg /\ Cat!Refreshed(s.book)
      <4>1. CASE s.book = cfg.active
        BY <1>3, <1>5, <2>1, <2>2, <3>1, <4>1 DEF Cat!Refreshed
      <4>2. CASE s.book # cfg.active
        BY <1>3, <1>5, <2>2, <3>1, <4>2 DEF Cat!Refreshed
      <4> QED BY <4>1, <4>2
    <3>2. CASE unsaved' = unsaved \cup {s.book} /\ UNCHANGED <<app, disk, held>>
      BY <1>3, <1>5, <2>1, <2>2, <3>2
    <3> QED BY <1>7, <3>1, <3>2
  <2>5. \A x \in Books : synced'[x] # 0 => edition[x] \in {0, synced'[x]}
    BY <1>3, <2>1, <2>2
  <2>6. Generations'
    BY <1>1, <1>2, <1>3, <2>2, <2>3, <2>4, <2>5 DEF Generations, Cat!SyncIsLatest
  <2>7. Cat!CopiesAgree'
    BY <1>2, <1>5, <2>4 DEF Cat!CopiesAgree, Cat!Listed
  <2> QED BY <1>2, <1>5, <2>4, <2>6, <2>7, CatalogStays
<1> QED BY <1>1, <1>6, <1>7

\* A cursor is saved with the config, and App.Logbook is the entry of App.Config again.
LEMMA CursorStep == ASSUME CatAssumption, CatInv, Cat!PersistCursor PROVE CatInv'
<1>1. PICK b \in Cat!Listed(cfg) : Cat!Refreshed(b)
  BY DEF Cat!PersistCursor
<1>2. /\ running /\ UNCHANGED <<cfg, running, files, gen, edition, syncs, synced>> /\ disk' \in {cfg, disk}
      /\ changes' = changes + 1 /\ changes < MaxChanges
  BY DEF Cat!PersistCursor, Cat!Changing, Cat!Save
<1>3. /\ gen \in Nat /\ gen <= changes /\ changes \in 0..MaxChanges
      /\ edition \in [Books -> 0..gen] /\ synced \in [Books -> 0..gen]
      /\ held \in 0..gen /\ unsaved \subseteq Books
      /\ syncs \subseteq [book : Books, gen : 1..gen]
      /\ \A x \in syncs : x.gen = gen => edition[x.book] \in {0, gen} /\ synced[x.book] = 0
      /\ \A x, y \in syncs : x.gen = y.gen => x = y
      /\ \A x \in Books : synced[x] # 0 => edition[x] \in {0, synced[x]}
  BY GenerationsAre DEF CatInv
<1>4. /\ cfg.active \in Books /\ cfg.active \in Cat!Listed(cfg) /\ app = cfg.books[cfg.active] /\ app \in Cat!Entry
      /\ held = IF cfg.active \in unsaved THEN 0 ELSE synced[cfg.active]
  BY <1>2, ActiveIs DEF CatInv, Cat!CopiesAgree
<1>5. /\ app' = app /\ held' \in 0..gen /\ unsaved' \subseteq Books
      /\ held' = IF cfg.active \in unsaved' THEN 0 ELSE synced'[cfg.active]
  <2>1. CASE b = cfg.active
    BY <1>1, <1>2, <1>3, <1>4, <2>1 DEF Cat!Refreshed
  <2>2. CASE b # cfg.active
    BY <1>1, <1>2, <1>3, <1>4, <2>2 DEF Cat!Refreshed
  <2> QED BY <2>1, <2>2
<1>6. Generations'
  BY <1>2, <1>3, <1>5 DEF Generations, Cat!SyncIsLatest, CatAssumption
<1>7. Cat!CopiesAgree'
  BY <1>2, <1>4, <1>5 DEF Cat!CopiesAgree, Cat!Listed
<1> QED BY <1>2, <1>4, <1>5, <1>6, <1>7, CatalogStays

\* The program ends: its counters are gone, the file stays.
LEMMA EndStep == ASSUME CatAssumption, CatInv, Cat!End PROVE CatInv'
<1>1. /\ running' = FALSE /\ gen' = 0 /\ edition' = [b \in Books |-> 0] /\ syncs' = {} /\ synced' = edition'
      /\ held' = 0 /\ unsaved' = {}
      /\ UNCHANGED <<cfg, app, disk, files, changes>>
  BY DEF Cat!End
<1>2. Generations'
  BY <1>1 DEF CatInv, Generations, Cat!SyncIsLatest
<1>3. Cat!CopiesAgree'
  BY <1>1 DEF Cat!CopiesAgree
<1>4. Rested'
  BY <1>1 DEF Rested
<1> QED BY <1>1, <1>2, <1>3, <1>4 DEF CatInv, Resolves, Cat!Listed

\* The next start reads the file.
LEMMA StartStep == ASSUME CatAssumption, CatInv, Cat!Start PROVE CatInv'
<1>1. /\ disk.active \in Cat!Listed(disk) /\ running' = TRUE /\ cfg' = disk /\ app' = disk.books[disk.active]
      /\ UNCHANGED <<disk, files, Cat!syncVars, changes>>
  BY DEF Cat!Start, Cat!Validate
<1>2. Generations'
  BY <1>1 DEF CatInv, Generations, Cat!SyncIsLatest, Cat!syncVars
<1>3. Cat!CopiesAgree' /\ app' \in Cat!Entry
  <2>1. held' = 0 /\ unsaved' = {} /\ \A b \in Books : synced'[b] = 0
    BY <1>1 DEF Cat!Start, CatInv, Rested, Cat!syncVars
  <2>2. disk.active \in Books /\ disk.books[disk.active] \in Cat!Entry
    BY <1>1 DEF CatInv, Cat!Configs, Cat!Listed
  <2> QED BY <1>1, <2>1, <2>2 DEF Cat!CopiesAgree, Cat!Listed
<1>4. /\ (Resolves(cfg) /\ Resolves(disk))'
      /\ (\A x \in Books : files[x] = "removed" => x \notin Cat!Listed(cfg) \cup Cat!Listed(disk))'
  BY <1>1 DEF CatInv
<1> QED BY <1>1, <1>2, <1>3, <1>4 DEF CatInv

\* Every step of the catalog keeps the invariant.
LEMMA CatalogStep == ASSUME CatAssumption, CatInv, [Cat!CatNext]_(Cat!catVars) PROVE CatInv'
<1>1. CASE UNCHANGED Cat!catVars
  BY <1>1 DEF Cat!catVars, CatInv, Generations, Rested, Cat!SyncIsLatest, Cat!CopiesAgree, Resolves, Cat!Listed
<1> QED BY <1>1, RigStep, OperatorStep, ContestStep, SettingsStep, SwitchStep, CreateStep, EditStep, DeleteStep,
           SyncStep, CursorStep, EndStep, StartStep DEF Cat!CatNext

\* What the wizard leaves satisfies it.
LEMMA CatalogStart == ASSUME CatAssumption, Cat!CatInit PROVE CatInv
<1>1. PICK b \in Books, r \in Rigs, sel \in Rigs \cup {None}, o \in Ops \cup {None} :
          /\ cfg = [books |-> [x \in Books |-> IF x = b THEN [rig |-> sel, op |-> o, contest |-> None] ELSE None],
                    rigs |-> {r}, ops |-> [x \in Ops |-> IF x = o THEN o ELSE None],
                    contests |-> [x \in Contests |-> None], active |-> b, bad |-> FALSE]
          /\ app = cfg.books[b]
          /\ files = [x \in Books |-> IF x = b THEN "log" ELSE "none"]
  BY DEF Cat!CatInit
<1>2. /\ disk = cfg /\ running = TRUE
      /\ gen = 0 /\ edition = [x \in Books |-> 0] /\ syncs = {} /\ synced = edition /\ changes = 0
      /\ held = 0 /\ unsaved = {}
  BY DEF Cat!CatInit
<1>3. PICK e : e = [rig |-> sel, op |-> o, contest |-> None]
  OBVIOUS
<1>4. e \in Cat!Entry /\ e # None /\ e.op = o
  BY <1>1, <1>3 DEF Cat!Entry, CatAssumption
<1>5. /\ cfg.books = [x \in Books |-> IF x = b THEN e ELSE None] /\ cfg.rigs = {r}
      /\ cfg.ops = [x \in Ops |-> IF x = o THEN o ELSE None] /\ cfg.active = b
  BY <1>1, <1>3
<1>6. /\ cfg.books \in [Books -> Cat!Entry \cup {None}] /\ cfg.ops \in [Ops -> Ops \cup {None}]
      /\ [x \in Contests |-> None] \in [Contests -> [book : Books, inUse : BOOLEAN] \cup {None}]
  BY <1>4, <1>5
<1>7. cfg \in Cat!Configs
  BY <1>1, <1>5, <1>6 DEF Cat!Configs
<1>8. Cat!Listed(cfg) = {b} /\ app = e
  BY <1>1, <1>4, <1>5 DEF Cat!Listed
<1>9. Resolves(cfg)
  <2>1. o \in Cat!Known(cfg.ops) \cup {None}
    BY <1>5 DEF Cat!Known, CatAssumption
  <2> QED BY <1>1, <1>4, <1>5, <1>8, <2>1 DEF Resolves
<1>10. Generations
  BY <1>2 DEF Generations, Cat!SyncIsLatest, CatAssumption
<1>11. files \in [Books -> {"none", "log", "removed"}] /\ \A x \in Books : files[x] # "removed"
  BY <1>1
<1>12. Cat!CopiesAgree
  BY <1>1, <1>2, <1>5, <1>8 DEF Cat!CopiesAgree
<1> QED BY <1>2, <1>4, <1>7, <1>8, <1>9, <1>10, <1>11, <1>12 DEF CatInv

\* Whatever the menus do and whichever saves fail, the two copies of the active logbook
\* agree, but for the station data of a sync whose own save failed; every logbook's
\* operator exists, a listed logbook keeps its database, and a station sync result
\* replaces the data of no newer edit but one whose save failed.
THEOREM CatalogKept == CatAssumption => (Cat!CatSpec => []Cat!CatalogSafe)
<1> SUFFICES ASSUME CatAssumption PROVE Cat!CatSpec => []Cat!CatalogSafe
  OBVIOUS
<1>1. Cat!CatInit => CatInv
  BY CatalogStart
<1>2. CatInv /\ [Cat!CatNext]_(Cat!catVars) => CatInv'
  BY CatalogStep
<1>3. CatInv => Cat!CatalogSafe
  BY CatInvIsSafe
<1> QED BY <1>1, <1>2, <1>3, PTL DEF Cat!CatSpec

-----------------------------------------------------------------------------
(* All of the disk: the components side by side, as the run has them. *)

\* The migration's theorem for the behaviours the run checks: the other
\* components' steps leave the schema alone.
THEOREM DiskIsMigrated == DiskSpec => []OpenIsMigrated
<1>1. DiskInit => Mig!MigInit
  BY DEF DiskInit
<1>2. [DiskNext]_allVars => [Mig!MigNext]_(Mig!migVars)
  BY DEF DiskNext, IndexRuns, MigRuns, CatRuns, SecretsRun, LockRuns, allVars, migVars, Mig!migVars
<1> QED BY <1>1, <1>2, MigrationsComplete, PTL DEF DiskSpec, Mig!MigSpec, OpenIsMigrated

\* The catalog and the credential for the same behaviours: what CatalogKept and
\* CredentialSurvives say of them, with the same exceptions.
THEOREM ConfigIsDurable == SecretsAssumption /\ CatAssumption => (DiskSpec => []ConfigDurable)
<1> SUFFICES ASSUME SecretsAssumption, CatAssumption PROVE DiskSpec => []ConfigDurable
  OBVIOUS
<1>1. DiskInit => Cat!CatInit /\ Secrets!StoreInit
  BY DEF DiskInit
<1>2. [DiskNext]_allVars => [Cat!CatNext]_(Cat!catVars)
  BY DEF DiskNext, IndexRuns, MigRuns, CatRuns, SecretsRun, LockRuns, allVars, catVars, Cat!catVars
<1>3. [DiskNext]_allVars => [Secrets!StoreNext]_(Secrets!storeVars)
  BY DEF DiskNext, IndexRuns, MigRuns, CatRuns, SecretsRun, LockRuns, allVars, storeVars, Secrets!storeVars
<1>4. Cat!CatSpec => []Cat!CatalogSafe
  BY CatalogKept
<1>5. Secrets!StoreSpec => []Secrets!ConfigSafe
  BY CredentialSurvives
<1> QED BY <1>1, <1>2, <1>3, <1>4, <1>5, PTL DEF DiskSpec, Cat!CatSpec, Secrets!StoreSpec, ConfigDurable

\* The index for the same behaviours: it is at every moment what a rebuild from
\* the rows would write, and the counters are what a scan would count.
THEOREM IndexIsKept == Index!IndexAssumption => (DiskSpec => []IndexTruthful)
<1> SUFFICES ASSUME Index!IndexAssumption PROVE DiskSpec => []IndexTruthful
  OBVIOUS
<1>1. DiskInit => Index!IndexInit
  BY DEF DiskInit
<1>2. [DiskNext]_allVars => [Index!IndexNext]_(Index!indexVars)
  BY DEF DiskNext, IndexRuns, MigRuns, CatRuns, SecretsRun, LockRuns, allVars, indexVars, Index!indexVars
<1>3. Index!IndexSpec => []Index!IndexTruthful
  BY Index!IndexIsHonest
<1> QED BY <1>1, <1>2, <1>3, PTL DEF DiskSpec, Index!IndexSpec, IndexTruthful

\* The refinement for the same behaviours: the panel answers from the index what
\* WorkedLog promises from the whole log.
THEOREM PanelIsKept == Index!IndexAssumption => (DiskSpec => PanelIsHonest)
<1> SUFFICES ASSUME Index!IndexAssumption PROVE DiskSpec => PanelIsHonest
  OBVIOUS
<1>1. DiskInit => Index!IndexInit
  BY DEF DiskInit
<1>2. [DiskNext]_allVars => [Index!IndexNext]_(Index!indexVars)
  BY DEF DiskNext, IndexRuns, MigRuns, CatRuns, SecretsRun, LockRuns, allVars, indexVars, Index!indexVars
<1>3. Index!IndexSpec => Index!PanelIsHonest
  BY Index!PanelKeepsWord
<1> QED BY <1>1, <1>2, <1>3, PTL DEF DiskSpec, Index!IndexSpec, PanelIsHonest

-----------------------------------------------------------------------------
(* The single-instance lock. *)

\* None is neither a program nor an inode.
LockAssumption == None \notin Instances /\ None \notin Int /\ MaxInodes \in Nat

\* Who has the lock file open, and who its lock.
HasFile(i) == stage[i] \in {"opened", "locked", "owner", "closing"}
HasLock(i) == stage[i] \in {"locked", "owner", "closing"}

\* The inductive invariant: there is one lock file, every program that has a
\* file open has that one, and who is past tryLockOS holds its lock.
LockInv ==
    /\ \A i \in Instances : HasFile(i) => fd[i] = name /\ name # None
    /\ \A i \in Instances : HasLock(i) => lock[name] = i
    /\ \A i \in open : stage[i] = "owner" /\ pid = i
    /\ name = None => inodes = 0

\* Every step keeps the types.
LEMMA LockTypeStep == ASSUME LockAssumption, Lock!LockTypeOK, [Lock!LockNext]_(Lock!lockVars) PROVE Lock!LockTypeOK'
<1>1. CASE UNCHANGED Lock!lockVars
  BY <1>1 DEF Lock!LockTypeOK, Lock!lockVars, Lock!Inodes
<1>2. ASSUME NEW i \in Instances,
             Lock!Started(i) \/ Lock!OpenFile(i) \/ Lock!TryLock(i) \/ Lock!Init(i) \/ Lock!CloseDB(i) \/ Lock!CloseLock(i) \/ Lock!Dies(i)
      PROVE  Lock!LockTypeOK'
  <2>1. Lock!Freed(i) \in [Lock!Inodes -> Instances \cup {None}]
    BY DEF Lock!LockTypeOK, Lock!Freed
  <2>2. CASE Lock!OpenFile(i)
    <3>1. name' \in Lock!Inodes /\ inodes' \in 0..MaxInodes
      BY <2>2 DEF Lock!OpenFile, LockAssumption, Lock!LockTypeOK, Lock!Inodes
    <3> QED BY <2>2, <3>1 DEF Lock!OpenFile, Lock!At, Lock!LockTypeOK, Lock!Stages
  <2>3. CASE Lock!TryLock(i)
    BY <2>3 DEF Lock!TryLock, Lock!tryLockOS, Lock!At, Lock!LockTypeOK, Lock!Stages
  <2>4. CASE Lock!Init(i) \/ Lock!CloseLock(i) \/ Lock!Dies(i)
    BY <2>1, <2>4 DEF Lock!Init, Lock!CloseLock, Lock!Dies, Lock!release, Lock!LeftInPlace, Lock!At, Lock!LockTypeOK, Lock!Stages
  <2>5. CASE Lock!Started(i) \/ Lock!CloseDB(i)
    BY <2>5 DEF Lock!Started, Lock!CloseDB, Lock!At, Lock!LockTypeOK, Lock!Stages
  <2> QED BY <1>2, <2>2, <2>3, <2>4, <2>5
<1> QED BY <1>1, <1>2 DEF Lock!LockNext

\* Every step keeps the lock with the one that passed Lock!tryLockOS.
LEMMA LockStep ==
  ASSUME LockAssumption, Lock!LockTypeOK, Lock!LockTypeOK', LockInv, [Lock!LockNext]_(Lock!lockVars) PROVE LockInv'
<1>1. CASE UNCHANGED Lock!lockVars
  BY <1>1 DEF LockInv, HasFile, HasLock, Lock!lockVars
<1>2. ASSUME NEW i \in Instances, Lock!Started(i) PROVE LockInv'
  BY <1>2 DEF Lock!Started, Lock!At, Lock!LockTypeOK, LockInv, HasFile, HasLock
<1>3. ASSUME NEW i \in Instances, Lock!OpenFile(i) PROVE LockInv'
  <2>1. name' # None /\ (name # None => name' = name) /\ stage[i] = "opening"
    BY <1>3 DEF Lock!OpenFile, Lock!At, LockAssumption, Lock!LockTypeOK, Lock!Inodes
  <2>2. \A j \in Instances \ {i} : stage'[j] = stage[j] /\ fd'[j] = fd[j]
    BY <1>3 DEF Lock!OpenFile, Lock!At, Lock!LockTypeOK
  <2>3. stage'[i] = "opened" /\ fd'[i] = name'
    BY <1>3 DEF Lock!OpenFile, Lock!At, Lock!LockTypeOK
  <2> QED BY <1>3, <2>1, <2>2, <2>3 DEF Lock!OpenFile, Lock!LockTypeOK, LockInv, HasFile, HasLock
<1>4. ASSUME NEW i \in Instances, Lock!TryLock(i) PROVE LockInv'
  <2>0. UNCHANGED <<name, inodes, pid, open>> /\ stage[i] = "opened" /\ fd[i] = name /\ name \in Lock!Inodes
    BY <1>4 DEF Lock!TryLock, Lock!tryLockOS, Lock!At, LockInv, HasFile, Lock!LockTypeOK
  <2>1. \A j \in Instances \ {i} : stage'[j] = stage[j] /\ fd'[j] = fd[j]
    BY <1>4 DEF Lock!TryLock, Lock!tryLockOS, Lock!At, Lock!LockTypeOK
  <2>2. CASE stage'[i] = "locked" /\ lock[name] = None /\ lock' = [lock EXCEPT ![name] = i] /\ fd' = fd
    BY <2>0, <2>1, <2>2 DEF LockAssumption, Lock!LockTypeOK, LockInv, HasFile, HasLock
  <2>3. CASE stage'[i] = "off" /\ lock' = lock
    BY <2>0, <2>1, <2>3 DEF Lock!LockTypeOK, LockInv, HasFile, HasLock
  <2> QED BY <1>4, <2>0, <2>2, <2>3 DEF Lock!TryLock, Lock!tryLockOS, Lock!At, Lock!LockTypeOK
<1>5. ASSUME NEW i \in Instances, Lock!Init(i) \/ Lock!CloseLock(i) \/ Lock!Dies(i) \/ Lock!CloseDB(i),
             stage'[i] # "owner"
      PROVE  LockInv'
  <2>1. \A j \in Instances \ {i} : stage'[j] = stage[j] /\ fd'[j] = fd[j]
    BY <1>5 DEF Lock!Init, Lock!CloseLock, Lock!Dies, Lock!CloseDB, Lock!release, Lock!At, Lock!LockTypeOK
  <2>2. name' = name /\ inodes' = inodes
    BY <1>5 DEF Lock!Init, Lock!CloseLock, Lock!Dies, Lock!CloseDB, Lock!release, Lock!LeftInPlace
  <2>3. open' \subseteq open \ {i}
    BY <1>5 DEF Lock!Init, Lock!CloseLock, Lock!Dies, Lock!CloseDB, Lock!At, LockInv, Lock!LockTypeOK
  <2>4. pid' = pid \/ (pid' = i /\ stage[i] = "locked")
    BY <1>5 DEF Lock!Init, Lock!CloseLock, Lock!Dies, Lock!CloseDB, Lock!At, Lock!LockTypeOK
  <2>5. stage[i] = "locked" => open = {}
    BY DEF LockInv, HasLock, HasFile, Lock!LockTypeOK
  <2>6. \A j \in Instances \ {i} : lock[name] = j /\ name # None => lock'[name] = j
    BY <1>5 DEF Lock!Init, Lock!CloseLock, Lock!Dies, Lock!CloseDB, Lock!release, Lock!Freed, Lock!LockTypeOK
  <2>7. \/ stage'[i] = "off"
        \/ stage[i] = "owner" /\ stage'[i] = "closing" /\ fd' = fd /\ lock' = lock
    BY <1>5 DEF Lock!Init, Lock!CloseLock, Lock!Dies, Lock!CloseDB, Lock!At, Lock!LockTypeOK
  <2> QED BY <2>1, <2>2, <2>3, <2>4, <2>5, <2>6, <2>7 DEF Lock!LockTypeOK, LockInv, HasFile, HasLock
<1>6. ASSUME NEW i \in Instances, Lock!Init(i), stage'[i] = "owner" PROVE LockInv'
  <2>1. /\ stage[i] = "locked" /\ open' = open \cup {i} /\ pid' = i
        /\ UNCHANGED <<fd, name, inodes, lock>>
        /\ \A j \in Instances \ {i} : stage'[j] = stage[j]
    BY <1>6 DEF Lock!Init, Lock!At, Lock!LockTypeOK
  <2>2. open = {}
    BY <2>1 DEF LockInv, HasLock, HasFile, Lock!LockTypeOK
  <2> QED BY <1>6, <2>1, <2>2 DEF Lock!LockTypeOK, LockInv, HasFile, HasLock
<1>7. ASSUME NEW i \in Instances, Lock!CloseLock(i) \/ Lock!Dies(i) \/ Lock!CloseDB(i) PROVE stage'[i] # "owner"
  BY <1>7 DEF Lock!CloseLock, Lock!Dies, Lock!CloseDB, Lock!At, Lock!LockTypeOK
<1>8. ASSUME NEW i \in Instances, Lock!Init(i) \/ Lock!CloseLock(i) \/ Lock!Dies(i) \/ Lock!CloseDB(i) PROVE LockInv'
  BY <1>5, <1>6, <1>7, <1>8
<1> QED BY <1>1, <1>2, <1>3, <1>4, <1>8 DEF Lock!LockNext

\* The component counts as the lemmas on finite sets do.
LEMMA LockCount == ASSUME NEW S PROVE Lock!Cardinality(S) = Cardinality(S)
  BY DEF Lock!Cardinality, Cardinality, Lock!IsFiniteSet, IsFiniteSet

\* The one that has the database open is the one the file names.
LEMMA LockSafe == ASSUME LockInv PROVE Lock!OneOwner /\ Lock!PidIsOwner
<1>1. Lock!PidIsOwner
  BY DEF LockInv, Lock!PidIsOwner
<1>2. open = {} \/ open = {pid}
  BY <1>1 DEF Lock!PidIsOwner
<1>3. Cardinality(open) = 0 \/ Cardinality(open) = 1
  BY <1>2, FS_EmptySet, FS_Singleton
<1> QED BY <1>1, <1>3, LockCount DEF Lock!OneOwner

\* For any number of programs: whatever order they start, fail, end or die in, at
\* most one has the database open, and the lock file names it.
THEOREM LockIsOwned == LockAssumption => (DiskSpec => []OneOwner)
<1> SUFFICES ASSUME LockAssumption PROVE DiskSpec => []OneOwner
  OBVIOUS
<1>1. DiskInit => Lock!LockTypeOK /\ LockInv
  BY DEF DiskInit, LockAssumption, Lock!LockInit, Lock!LockTypeOK, LockInv, HasFile, HasLock, Lock!Stages, Lock!Inodes
<1>2. [DiskNext]_allVars => [Lock!LockNext]_(Lock!lockVars)
  BY DEF DiskNext, IndexRuns, MigRuns, CatRuns, SecretsRun, LockRuns, allVars, lockVars, Lock!lockVars
<1>3. Lock!LockTypeOK /\ LockInv /\ [DiskNext]_allVars => Lock!LockTypeOK' /\ LockInv'
  BY <1>2, LockTypeStep, LockStep
<1>4. LockInv => OneOwner
  BY LockSafe DEF OneOwner
<1> QED BY <1>1, <1>3, <1>4, PTL DEF DiskSpec

-----------------------------------------------------------------------------
(* Types. *)

\* A migration is started finitely often.
MigAssumption == MaxStarts \in Nat

\* The contacts with a base call and those the index counts are logged ones.
LEMMA MigTypeStep == ASSUME MigAssumption, Mig!MigTypeOK, [Mig!MigNext]_(Mig!migVars) PROVE Mig!MigTypeOK'
<1>0. MaxStarts \in Nat /\ Mig!schemaVersion = 4
  BY DEF MigAssumption, Mig!schemaVersion
<1>1. CASE UNCHANGED Mig!migVars
  BY <1>1 DEF Mig!MigTypeOK, Mig!migVars, Mig!schemaVersion
<1>2. CASE Mig!Open
  BY <1>0, <1>2 DEF Mig!Open, Mig!MigTypeOK, Mig!schemaVersion
<1>3. CASE Mig!Create \/ Mig!DropFlagIndex \/ Mig!DropFlag \/ Mig!DropRedundant \/ Mig!WriteVersion \/ Mig!Ends
  BY <1>0, <1>3 DEF Mig!Create, Mig!DropFlagIndex, Mig!DropFlag, Mig!DropRedundant, Mig!WriteVersion, Mig!Ends,
         Mig!Goes, Mig!MigTypeOK
<1>4. CASE Mig!Probe \/ Mig!EnsureRules \/ Mig!Backfill
  BY <1>0, <1>4 DEF Mig!Probe, Mig!EnsureRules, Mig!Backfill, Mig!Rebuilds, Mig!Goes, Mig!MigTypeOK
<1>5. CASE Mig!LogContact
  BY <1>0, <1>5 DEF Mig!LogContact, Mig!MigTypeOK
<1> QED BY <1>1, <1>2, <1>3, <1>4, <1>5 DEF Mig!MigNext, Mig!Step

\* The file of any release.
LEMMA MigTypeStart == ASSUME MigAssumption, Mig!MigInit PROVE Mig!MigTypeOK
<1>1. logged \subseteq Contacts /\ based \subseteq logged /\ counted \subseteq based
  <2>1. logged \in IF have = {} THEN {{}} ELSE SUBSET Contacts
    BY DEF Mig!MigInit
  <2>2. based \in IF version = 0 THEN {{}} ELSE {logged}
    BY DEF Mig!MigInit
  <2>3. counted \in IF "worked_tables" \in have THEN SUBSET based ELSE {{}}
    BY DEF Mig!MigInit
  <2> QED BY <2>1, <2>2, <2>3
<1>2. version \in 0..4 /\ starts = 0
  BY DEF Mig!MigInit
<1>3. rules \in {"none", "old", "current"}
  BY DEF Mig!MigInit
<1> QED BY <1>1, <1>2, <1>3 DEF MigAssumption, Mig!MigTypeOK, Mig!schemaVersion

\* What the invariant of the catalog says of its variables.
LEMMA CatIsTyped == ASSUME CatAssumption, CatInv PROVE Cat!CatTypeOK
<1>1. gen \in 0..MaxChanges /\ \A g : g \in 1..gen => g \in 1..MaxChanges
  BY DEF CatInv, Generations, CatAssumption
<1>2. syncs \subseteq [book : Books, gen : 1..MaxChanges]
  BY <1>1 DEF CatInv, Generations
<1> QED BY <1>1, <1>2 DEF CatInv, Generations, Cat!CatTypeOK

\* Whatever is written, and wherever a program dies: the rows, the schema, the
\* catalog, the credential and the lock have their types.
THEOREM DiskIsTyped ==
  /\ Index!IndexAssumption /\ MigAssumption /\ CatAssumption /\ SecretsAssumption /\ LockAssumption
  => (DiskSpec => []DiskTypeOK)
<1> SUFFICES ASSUME Index!IndexAssumption, MigAssumption, CatAssumption, SecretsAssumption, LockAssumption
             PROVE  DiskSpec => []DiskTypeOK
  OBVIOUS
<1> DEFINE Types == Mig!MigTypeOK /\ CatInv /\ SecretsInv /\ Lock!LockTypeOK
<1>1. DiskInit => Index!IndexInit /\ Types
  <2> SUFFICES ASSUME DiskInit PROVE Index!IndexInit /\ Types
    OBVIOUS
  <2>1. Index!IndexInit /\ Mig!MigInit /\ Cat!CatInit /\ Secrets!StoreInit /\ Lock!LockInit
    BY DEF DiskInit
  <2>2. Lock!LockTypeOK
    BY <2>1 DEF LockAssumption, Lock!LockInit, Lock!LockTypeOK, Lock!Stages, Lock!Inodes
  <2> QED BY <2>1, <2>2, MigTypeStart, CatalogStart, SecretsStart
<1>2. Types /\ [DiskNext]_allVars => Types'
  <2> SUFFICES ASSUME Types, [DiskNext]_allVars PROVE Types'
    OBVIOUS
  <2>1. [Mig!MigNext]_(Mig!migVars)
    BY DEF DiskNext, IndexRuns, MigRuns, CatRuns, SecretsRun, LockRuns, allVars, migVars, Mig!migVars
  <2>2. [Cat!CatNext]_(Cat!catVars)
    BY DEF DiskNext, IndexRuns, MigRuns, CatRuns, SecretsRun, LockRuns, allVars, catVars, Cat!catVars
  <2>3. [Secrets!StoreNext]_(Secrets!storeVars)
    BY DEF DiskNext, IndexRuns, MigRuns, CatRuns, SecretsRun, LockRuns, allVars, storeVars, Secrets!storeVars
  <2>4. [Lock!LockNext]_(Lock!lockVars)
    BY DEF DiskNext, IndexRuns, MigRuns, CatRuns, SecretsRun, LockRuns, allVars, lockVars, Lock!lockVars
  <2> QED BY <2>1, <2>2, <2>3, <2>4, MigTypeStep, CatalogStep, SecretsStep, LockTypeStep
<1>3. [DiskNext]_allVars => [Index!IndexNext]_(Index!indexVars)
  BY DEF DiskNext, IndexRuns, MigRuns, CatRuns, SecretsRun, LockRuns, allVars, indexVars, Index!indexVars
<1>4. Index!IndexSpec => []Index!IndexTypeOK
  BY Index!IndexTypeCorrect
<1>5. Types /\ Index!IndexTypeOK => DiskTypeOK
  BY CatIsTyped DEF SecretsInv, DiskTypeOK
<1> HIDE DEF Types
<1> QED BY <1>1, <1>2, <1>3, <1>4, <1>5, PTL DEF DiskSpec, Index!IndexSpec
==============================================================================
