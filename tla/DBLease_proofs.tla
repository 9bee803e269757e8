--------------------------- MODULE DBLease_proofs ---------------------------
(***************************************************************************)
(* What TLAPS proves of DBLease, for any sets of logbooks, contacts,       *)
(* handles and jobs: the type invariant, and that no replaced handle       *)
(* leaks.                                                                  *)
(***************************************************************************)
EXTENDS DBLease, FiniteSetTheorems, TLAPS

\* Acquiring, releasing and retiring keep the table well-formed.
LEMMA TableTypes ==
    ASSUME NEW t \in Tables, NEW h \in Handles, NEW n \in Nat
    PROVE  /\ Acquire(t, h, n) \in Tables
           /\ Release(t, h) \in Tables
           /\ Retire(t, h) \in Tables
<1>1. Acquire(t, h, n) \in Tables
  BY DEF Acquire, Tables
<1>2. Release(t, h) \in Tables
  <2>1. CASE t.refs[h] > 1
    BY <2>1 DEF Release, Tables
  <2>2. CASE ~(t.refs[h] > 1)
    <3>1. /\ [t.refs EXCEPT ![h] = 0] \in [Handles -> Nat]
          /\ t.retired \ {h} \in SUBSET Handles
          /\ t.open \ (t.retired \cap {h}) \in SUBSET Handles
      BY DEF Tables
    <3>2. Release(t, h) = [refs    |-> [t.refs EXCEPT ![h] = 0],
                           retired |-> t.retired \ {h},
                           open    |-> t.open \ (t.retired \cap {h})]
      BY <2>2 DEF Release, Tables
    <3>3. QED BY <3>1, <3>2 DEF Tables
  <2>3. QED BY <2>1, <2>2
<1>3. Retire(t, h) \in Tables
  BY DEF Retire, Tables
<1>4. QED BY <1>1, <1>2, <1>3

\* The contacts a result starts chains for are finitely many, so that their
\* number, less the one the lease is handed to, is a count of leases.
LEMMA NewChainsCount ==
    ASSUME NEW h, NEW ids \in SUBSET Contacts, NEW x
    PROVE  LET new == NewChains(h, ids)
               n   == Cardinality(new \ {x}) IN
           /\ Cardinality(new) \in Nat /\ n \in Nat
           /\ Cardinality(new) = IF x \in new THEN n + 1 ELSE n
<1> DEFINE new == NewChains(h, ids)
<1>1. new \in SUBSET Contacts
  BY DEF NewChains
<1>2. IsFiniteSet(new) /\ Cardinality(new) \in Nat
  BY <1>1, LeaseAssumption, FS_Subset, FS_CardinalityType DEF LeaseAssumption
<1> HIDE DEF new
<1>3. /\ IsFiniteSet(new \ {x})
      /\ Cardinality(new \ {x}) = IF x \in new THEN Cardinality(new) - 1 ELSE Cardinality(new)
  BY <1>2, FS_RemoveElement
<1>4. x \in new => Cardinality(new) # 0
  BY <1>2, FS_EmptySet
<1>5. QED BY <1>2, <1>3, <1>4 DEF new

\* A result's new chains are chains.
LEMMA StartedType ==
    ASSUME TypeOK, NEW h \in Handles, NEW new, NEW open
    PROVE  Started(h, new, h \in open) \in [Keys -> ChainStates]
<1>1. (h \in open) \in BOOLEAN
  OBVIOUS
<1>2. ASSUME NEW safe \in BOOLEAN PROVE Started(h, new, safe) \in [Keys -> ChainStates]
  BY DEF TypeOK, Started, ChainStates
<1>3. QED BY ONLY <1>1, <1>2, Zenon

\* Every state has the types TypeOK gives: the counts of leases in particular
\* never go below zero.
THEOREM TypeCorrect == Spec => []TypeOK
<1>1. Init => TypeOK
  BY LeaseAssumption DEF LeaseAssumption, Init, TypeOK, Tables, JobStates, ChainStates,
                         NoJob, NoChain, Kinds
<1>2. TypeOK /\ [Next]_vars => TypeOK'
  <2> SUFFICES ASSUME TypeOK, [Next]_vars PROVE TypeOK'
    OBVIOUS
  <2>0. ASSUME NEW h \in Handles PROVE NoJob(h) \in JobStates /\ NoChain(h) \in ChainStates
    BY DEF NoJob, NoChain, JobStates, ChainStates, Kinds
  <2>1. CASE SwitchLogbook
    <3>1. PICK h \in Handles \ used :
             /\ used' = used \cup {h}
             /\ cur' = h
             /\ table' = Retire([table EXCEPT !.open = @ \cup {h}], cur)
      BY <2>1 DEF SwitchLogbook
    <3>2. [table EXCEPT !.open = @ \cup {h}] \in Tables
      BY DEF TypeOK, Tables
    <3>3. table' \in Tables
      BY <3>1, <3>2, TableTypes DEF TypeOK
    <3>4. QED BY <2>1, <3>1, <3>3 DEF SwitchLogbook, TypeOK
  <2>2. ASSUME NEW j \in Jobs, NEW kind \in Kinds, StartJob(j, kind) PROVE TypeOK'
    <3>1. table' \in Tables
      BY <2>2, TableTypes DEF StartJob, TypeOK
    <3>2. job' \in [Jobs -> JobStates]
      <4>1. [NoJob(cur) EXCEPT !.st = "run", !.kind = kind] \in JobStates
        BY DEF TypeOK, NoJob, JobStates
      <4>2. QED BY <2>2, <4>1 DEF StartJob, TypeOK
    <3>3. acts' \in 0..MaxActs
      BY <2>2, LeaseAssumption DEF StartJob, TypeOK, LeaseAssumption
    <3>4. QED BY <2>2, <3>1, <3>2, <3>3 DEF StartJob, TypeOK
  <2>3. ASSUME NEW j \in Jobs, ScanEnds(j) PROVE TypeOK'
    <3>1. job[j].h \in Handles
      BY DEF TypeOK, JobStates
    <3>2. QED BY <2>3, <3>1, <2>0, TableTypes DEF ScanEnds, TypeOK
  <2>4. ASSUME NEW j \in Jobs, WorkerEnds(j) PROVE TypeOK'
    <3>1. job' \in [Jobs -> JobStates]
      <4>1. PICK ids \in SUBSET Contacts :
               job' = [job EXCEPT ![j] = [job[j] EXCEPT !.st = "result", !.ids = ids]]
        BY <2>4 DEF WorkerEnds, TypeOK, JobStates
      <4>2. [job[j] EXCEPT !.st = "result", !.ids = ids] \in JobStates
        BY DEF TypeOK, JobStates
      <4>3. QED BY <4>1, <4>2 DEF TypeOK
    <3>2. QED BY <2>4, <3>1 DEF WorkerEnds, TypeOK
  <2>5. ASSUME NEW j \in Jobs, NothingToDo(j) PROVE TypeOK'
    <3>1. job[j].h \in Handles
      BY DEF TypeOK, JobStates
    <3>2. job' \in [Jobs -> JobStates]
      BY <2>5, <3>1, <2>0 DEF NothingToDo, TypeOK, JobStates
    <3>3. table' \in Tables
      BY <2>5, <3>1, TableTypes DEF NothingToDo, TypeOK
    <3>4. QED BY <2>5, <3>2, <3>3 DEF NothingToDo, TypeOK
  <2>6. ASSUME NEW j \in Jobs, NEW first \in Contacts, UploadResult(j, first) PROVE TypeOK'
    <3> DEFINE h   == job[j].h
               new == NewChains(h, job[j].ids)
               t   == IF first \in new THEN table ELSE Release(table, h)
    <3>1. h \in Handles /\ job[j].ids \in SUBSET Contacts
      BY DEF TypeOK, JobStates
    <3>2. t \in Tables
      BY <3>1, TableTypes DEF TypeOK
    <3>3. table' \in Tables
      <4>1. table' = Acquire(t, h, Cardinality(new \ {first}))
        BY <2>6 DEF UploadResult
      <4> HIDE DEF t, new, h
      <4>2. Cardinality(new \ {first}) \in Nat
        BY <3>1, NewChainsCount DEF new
      <4>3. QED BY <3>1, <3>2, <4>1, <4>2, TableTypes
    <3>4. chain' \in [Keys -> ChainStates]
      <4>1. chain' = Started(h, new, h \in t.open)
        BY <2>6 DEF UploadResult
      <4>2. Started(h, new, h \in t.open) \in [Keys -> ChainStates]
        BY <3>1, StartedType
      <4>3. QED BY ONLY <4>1, <4>2
    <3>5. queued' \subseteq Keys
      BY <2>6, <3>1 DEF UploadResult, TypeOK, Keys, Key
    <3>6. job' \in [Jobs -> JobStates]
      BY <2>6, <3>1, <2>0 DEF UploadResult, TypeOK
    <3>7. UNCHANGED <<cur, book, used, acts>>
      BY <2>6 DEF UploadResult
    <3>8. QED BY <3>3, <3>4, <3>5, <3>6, <3>7 DEF TypeOK
  <2>7. ASSUME NEW j \in Jobs, NEW first \in Contacts, RetryResult(j, first) PROVE TypeOK'
    <3> DEFINE h   == job[j].h
               new == NewChains(h, job[j].ids)
               t   == Acquire(table, h, Cardinality(new \ {first}))
    <3>1. h \in Handles /\ job[j].ids \in SUBSET Contacts
      BY DEF TypeOK, JobStates
    <3>2. t \in Tables
      BY <3>1, NewChainsCount, TableTypes DEF TypeOK
    <3>3. table' \in Tables
      <4>1. table' = IF first \in new THEN t ELSE Release(t, h)
        BY <2>7 DEF RetryResult
      <4> HIDE DEF t, new, h
      <4>2. QED BY <3>1, <3>2, <4>1, TableTypes
    <3>4. chain' \in [Keys -> ChainStates]
      <4>1. chain' = Started(h, new, h \in table.open)
        BY <2>7 DEF RetryResult
      <4>2. Started(h, new, h \in table.open) \in [Keys -> ChainStates]
        BY <3>1, StartedType
      <4>3. QED BY ONLY <4>1, <4>2
    <3>5. job' \in [Jobs -> JobStates]
      BY <2>7, <3>1, <2>0 DEF RetryResult, TypeOK
    <3>6. UNCHANGED <<cur, book, used, queued, acts>>
      BY <2>7 DEF RetryResult
    <3>7. QED BY <3>3, <3>4, <3>5, <3>6 DEF TypeOK
  <2>8. ASSUME NEW c \in Contacts, Save(c) PROVE TypeOK'
    <3>1. Key(cur, c) \in Keys
      BY DEF TypeOK, Keys, Key
    <3>2. table' \in Tables
      BY <2>8, TableTypes DEF Save, TypeOK
    <3>3. chain' \in [Keys -> ChainStates]
      <4>1. [st |-> "run", h |-> cur, safe |-> TRUE] \in ChainStates
        BY DEF TypeOK, ChainStates
      <4>2. QED BY <2>8, <3>1, <4>1 DEF Save, TypeOK
    <3>4. acts' \in 0..MaxActs
      BY <2>8, LeaseAssumption DEF Save, TypeOK, LeaseAssumption
    <3>5. queued' \subseteq Keys
      BY <2>8, <3>1 DEF Save, TypeOK
    <3>6. UNCHANGED <<cur, book, used, job>>
      BY <2>8 DEF Save
    <3>7. QED BY <3>2, <3>3, <3>4, <3>5, <3>6 DEF TypeOK
  <2>9. ASSUME NEW k \in Keys, PatchEnds(k) PROVE TypeOK'
    BY <2>9 DEF PatchEnds, TypeOK, ChainStates
  <2>10. ASSUME NEW k \in Keys, PatchResult(k) PROVE TypeOK'
    <3>1. chain[k].h \in Handles
      BY DEF TypeOK, ChainStates
    <3>2. chain' \in [Keys -> ChainStates]
      BY <2>10, <3>1, <2>0 DEF PatchResult, TypeOK, ChainStates
    <3>3. table' \in Tables
      BY <2>10, <3>1, TableTypes DEF PatchResult, TypeOK
    <3>4. QED BY <2>10, <3>2, <3>3 DEF PatchResult, TypeOK
  <2>11. CASE UNCHANGED vars
    BY <2>11 DEF vars, TypeOK
  <2>12. QED
    BY <2>1, <2>2, <2>3, <2>4, <2>5, <2>6, <2>7, <2>8, <2>9, <2>10, <2>11 DEF Next, JobStep
<1>3. QED BY <1>1, <1>2, PTL DEF Spec

-----------------------------------------------------------------------------
\* OpenIsHeld, of a table, a current handle and the handles opened so far: it
\* is inductive once retired handles are known to be among the latter.
Kept(t, current, opened) ==
    /\ t.open = {current} \cup t.retired
    /\ current \notin t.retired
    /\ \A g \in t.retired : t.refs[g] > 0
    /\ t.retired \subseteq opened

HeldInv == Kept(table, cur, used) /\ cur \in used

\* More leases leave a well-kept table well kept.
LEMMA AcquireKept ==
    ASSUME NEW t \in Tables, NEW h \in Handles, NEW n \in Nat, NEW current, NEW opened,
           Kept(t, current, opened)
    PROVE  Kept(Acquire(t, h, n), current, opened)
<1>1. /\ Acquire(t, h, n).open = t.open
      /\ Acquire(t, h, n).retired = t.retired
      /\ Acquire(t, h, n).refs = [t.refs EXCEPT ![h] = @ + n]
  BY DEF Tables, Acquire
<1>2. QED BY <1>1 DEF Kept, Tables

\* So does a release: the last one closes the handle it forgets.
LEMMA ReleaseKept ==
    ASSUME NEW t \in Tables, NEW h \in Handles, NEW current, NEW opened,
           Kept(t, current, opened)
    PROVE  Kept(Release(t, h), current, opened)
<1>1. CASE t.refs[h] > 1
  <2>1. /\ Release(t, h).open = t.open
        /\ Release(t, h).retired = t.retired
        /\ Release(t, h).refs = [t.refs EXCEPT ![h] = @ - 1]
    BY <1>1 DEF Release, Tables
  <2>2. QED BY <1>1, <2>1 DEF Tables, Kept
<1>2. CASE ~(t.refs[h] > 1)
  <2>1. /\ Release(t, h).open = t.open \ (t.retired \cap {h})
        /\ Release(t, h).retired = t.retired \ {h}
        /\ Release(t, h).refs = [t.refs EXCEPT ![h] = 0]
    BY <1>2 DEF Release, Tables
  <2>2. QED BY <2>1 DEF Tables, Kept
<1>3. QED BY <1>1, <1>2

\* And so does a switch to a handle never used before.
LEMMA SwitchKept ==
    ASSUME TypeOK, HeldInv, NEW h \in Handles \ used
    PROVE  Kept(Retire([table EXCEPT !.open = @ \cup {h}], cur), h, used \cup {h})
<1> DEFINE t == [table EXCEPT !.open = @ \cup {h}]
<1>1. /\ t.open = table.open \cup {h} /\ t.retired = table.retired /\ t.refs = table.refs
      /\ t \in Tables
  BY DEF TypeOK, Tables
<1> HIDE DEF t
<1>2. CASE t.refs[cur] > 0
  <2>1. /\ Retire(t, cur).open = t.open
        /\ Retire(t, cur).retired = t.retired \cup {cur}
        /\ Retire(t, cur).refs = t.refs
    BY <1>1, <1>2 DEF Retire, Tables
  <2>2. QED BY <1>1, <1>2, <2>1 DEF HeldInv, Kept, t
<1>3. CASE ~(t.refs[cur] > 0)
  <2>1. /\ Retire(t, cur).open = t.open \ {cur}
        /\ Retire(t, cur).retired = t.retired
        /\ Retire(t, cur).refs = t.refs
    BY <1>1, <1>3 DEF Retire, Tables
  <2>2. QED BY <1>1, <1>3, <2>1 DEF HeldInv, Kept, t
<1>4. QED BY <1>2, <1>3

\* No replaced handle leaks: whatever is open is the current handle, or retired
\* and held, so that the last release closes it.
THEOREM NoHandleLeaks == Spec => []OpenIsHeld
<1>1. Init => HeldInv
  BY DEF Init, HeldInv, Kept
<1>2. TypeOK /\ HeldInv /\ [Next]_vars => HeldInv'
  <2> SUFFICES ASSUME TypeOK, HeldInv, [Next]_vars PROVE HeldInv'
    OBVIOUS
  <2>0. /\ table \in Tables
        /\ \A j \in Jobs : job[j].h \in Handles /\ job[j].ids \in SUBSET Contacts
        /\ \A k \in Keys : chain[k].h \in Handles
        /\ cur \in Handles
    BY DEF TypeOK, JobStates, ChainStates
  <2>1. CASE SwitchLogbook
    BY <2>1, SwitchKept DEF SwitchLogbook, HeldInv
  <2>2. ASSUME NEW j \in Jobs, NEW kind \in Kinds, StartJob(j, kind) PROVE HeldInv'
    BY <2>0, <2>2, AcquireKept DEF StartJob, HeldInv
  <2>3. ASSUME NEW j \in Jobs, ScanEnds(j) PROVE HeldInv'
    BY <2>0, <2>3, ReleaseKept DEF ScanEnds, HeldInv
  <2>4. ASSUME NEW j \in Jobs, WorkerEnds(j) PROVE HeldInv'
    BY <2>4 DEF WorkerEnds, HeldInv
  <2>5. ASSUME NEW j \in Jobs, NothingToDo(j) PROVE HeldInv'
    BY <2>0, <2>5, ReleaseKept DEF NothingToDo, HeldInv
  <2>6. ASSUME NEW j \in Jobs, NEW first \in Contacts, UploadResult(j, first) PROVE HeldInv'
    <3> DEFINE h   == job[j].h
               new == NewChains(h, job[j].ids)
               t   == IF first \in new THEN table ELSE Release(table, h)
               n   == Cardinality(new \ {first})
    <3>1. t \in Tables /\ Kept(t, cur, used)
      BY <2>0, TableTypes, ReleaseKept DEF HeldInv
    <3>2. n \in Nat
      BY <2>0, NewChainsCount
    <3>3. table' = Acquire(t, h, n) /\ UNCHANGED <<cur, used>>
      BY <2>6 DEF UploadResult
    <3>4. h \in Handles
      BY <2>0
    <3> HIDE DEF h, new, t, n
    <3>5. QED BY <3>1, <3>2, <3>3, <3>4, AcquireKept DEF HeldInv
  <2>7. ASSUME NEW j \in Jobs, NEW first \in Contacts, RetryResult(j, first) PROVE HeldInv'
    <3> DEFINE h   == job[j].h
               new == NewChains(h, job[j].ids)
               n   == Cardinality(new \ {first})
               t   == Acquire(table, h, n)
    <3>1. n \in Nat
      BY <2>0, NewChainsCount
    <3>2. table' = (IF first \in new THEN t ELSE Release(t, h)) /\ UNCHANGED <<cur, used>>
      BY <2>7 DEF RetryResult
    <3>3. h \in Handles
      BY <2>0
    <3> HIDE DEF h, new, n
    <3>4. t \in Tables /\ Kept(t, cur, used)
      BY <2>0, <3>1, <3>3, TableTypes, AcquireKept DEF HeldInv
    <3> HIDE DEF t
    <3>5. QED BY <3>2, <3>3, <3>4, ReleaseKept DEF HeldInv
  <2>8. ASSUME NEW c \in Contacts, Save(c) PROVE HeldInv'
    BY <2>0, <2>8, AcquireKept DEF Save, HeldInv
  <2>9. ASSUME NEW k \in Keys, PatchEnds(k) PROVE HeldInv'
    BY <2>9 DEF PatchEnds, HeldInv
  <2>10. ASSUME NEW k \in Keys, PatchResult(k) PROVE HeldInv'
    BY <2>0, <2>10, ReleaseKept DEF PatchResult, HeldInv
  <2>11. CASE UNCHANGED vars
    BY <2>11 DEF vars, HeldInv
  <2>12. QED
    BY <2>1, <2>2, <2>3, <2>4, <2>5, <2>6, <2>7, <2>8, <2>9, <2>10, <2>11 DEF Next, JobStep
<1>3. HeldInv => OpenIsHeld
  BY DEF HeldInv, Kept, OpenIsHeld
<1>4. QED BY <1>1, <1>2, <1>3, TypeCorrect, PTL DEF Spec

-----------------------------------------------------------------------------
\* The users of a handle can be counted.
LEMMA UsersFinite ==
    ASSUME NEW h
    PROVE  /\ IsFiniteSet(JobsOn(h))   /\ Cardinality(JobsOn(h)) \in Nat
           /\ IsFiniteSet(ChainsOn(h)) /\ Cardinality(ChainsOn(h)) \in Nat
<1>1. IsFiniteSet(Keys)
  BY LeaseAssumption, FS_Product DEF LeaseAssumption, Keys
<1>2. JobsOn(h) \in SUBSET Jobs /\ ChainsOn(h) \in SUBSET Keys
  BY DEF JobsOn, ChainsOn
<1>3. IsFiniteSet(JobsOn(h)) /\ IsFiniteSet(ChainsOn(h))
  BY <1>1, <1>2, LeaseAssumption, FS_Subset DEF LeaseAssumption
<1>4. QED BY <1>3, FS_CardinalityType

\* As many contacts of a logbook as local ids.
LEMMA KeysCount ==
    ASSUME NEW S, IsFiniteSet(S), NEW h
    PROVE  LET T == {Key(h, c) : c \in S} IN
           IsFiniteSet(T) /\ Cardinality(T) = Cardinality(S)
<1> DEFINE T == {Key(h, c) : c \in S}
           f == [c \in S |-> Key(h, c)]
<1>1. f \in Surjection(S, T)
  BY DEF Surjection
<1>2. f \in Injection(S, T)
  BY DEF Injection, IsInjective, Key
<1>3. QED BY <1>1, <1>2, FS_Surjection

\* A release by one of the users counted gives back one lease, and closes the
\* handle only when no lease is left.
LEMMA ReleaseCount ==
    ASSUME NEW t \in Tables, NEW h \in Handles, t.refs[h] > 0
    PROVE  /\ Release(t, h).refs = [t.refs EXCEPT ![h] = @ - 1]
           /\ \A g \in t.open : Release(t, h).refs[g] > 0 => g \in Release(t, h).open
<1>1. CASE t.refs[h] > 1
  BY <1>1 DEF Release, Tables
<1>2. CASE ~(t.refs[h] > 1)
  <2>1. t.refs[h] = 1
    BY <1>2 DEF Tables
  <2>2. /\ Release(t, h).open = t.open \ (t.retired \cap {h})
        /\ Release(t, h).refs = [t.refs EXCEPT ![h] = 0]
    BY <1>2 DEF Release, Tables
  <2>3. QED BY <2>1, <2>2 DEF Tables
<1>3. QED BY <1>1, <1>2

\* A job that starts is one user more of its handle ...
LEMMA JobStarts ==
    ASSUME TypeOK, NEW j \in Jobs, NEW r, job[j].st = "idle", r.st # "idle",
           job' = [job EXCEPT ![j] = r], NEW g
    PROVE  Cardinality(JobsOn(g)') = Cardinality(JobsOn(g)) + (IF g = r.h THEN 1 ELSE 0)
<1>1. JobsOn(g)' = IF g = r.h THEN JobsOn(g) \cup {j} ELSE JobsOn(g)
  BY DEF TypeOK, JobsOn
<1>2. j \notin JobsOn(g)
  BY DEF JobsOn
<1>3. IsFiniteSet(JobsOn(g)) /\ Cardinality(JobsOn(g)) \in Nat
  BY UsersFinite
<1>4. Cardinality(JobsOn(g) \cup {j}) = Cardinality(JobsOn(g)) + 1
  BY <1>2, <1>3, FS_AddElement
<1>5. QED BY <1>1, <1>3, <1>4

\* ... and one that ends, one user less.
LEMMA JobEnds ==
    ASSUME TypeOK, NEW j \in Jobs, NEW r, job[j].st # "idle", r.st = "idle",
           job' = [job EXCEPT ![j] = r], NEW g
    PROVE  Cardinality(JobsOn(g)') = Cardinality(JobsOn(g)) - (IF g = job[j].h THEN 1 ELSE 0)
<1>1. JobsOn(g)' = IF g = job[j].h THEN JobsOn(g) \ {j} ELSE JobsOn(g)
  BY DEF TypeOK, JobsOn
<1>2. g = job[j].h => j \in JobsOn(g)
  BY DEF JobsOn
<1>3. IsFiniteSet(JobsOn(g)) /\ Cardinality(JobsOn(g)) \in Nat
  BY UsersFinite
<1>4. j \in JobsOn(g) => Cardinality(JobsOn(g) \ {j}) = Cardinality(JobsOn(g)) - 1
  BY <1>3, FS_RemoveElement
<1>5. QED BY <1>1, <1>2, <1>3, <1>4

\* A chain that starts, and one that drains.
LEMMA ChainStarts ==
    ASSUME TypeOK, NEW k \in Keys, NEW r, chain[k].st = "none", r.st # "none",
           chain' = [chain EXCEPT ![k] = r], NEW g
    PROVE  Cardinality(ChainsOn(g)') = Cardinality(ChainsOn(g)) + (IF g = r.h THEN 1 ELSE 0)
<1>1. ChainsOn(g)' = IF g = r.h THEN ChainsOn(g) \cup {k} ELSE ChainsOn(g)
  BY DEF TypeOK, ChainsOn
<1>2. k \notin ChainsOn(g)
  BY DEF ChainsOn
<1>3. IsFiniteSet(ChainsOn(g)) /\ Cardinality(ChainsOn(g)) \in Nat
  BY UsersFinite
<1>4. Cardinality(ChainsOn(g) \cup {k}) = Cardinality(ChainsOn(g)) + 1
  BY <1>2, <1>3, FS_AddElement
<1>5. QED BY <1>1, <1>3, <1>4

LEMMA ChainDrains ==
    ASSUME TypeOK, NEW k \in Keys, NEW r, chain[k].st # "none", r.st = "none",
           chain' = [chain EXCEPT ![k] = r], NEW g
    PROVE  Cardinality(ChainsOn(g)')
             = Cardinality(ChainsOn(g)) - (IF g = chain[k].h THEN 1 ELSE 0)
<1>1. ChainsOn(g)' = IF g = chain[k].h THEN ChainsOn(g) \ {k} ELSE ChainsOn(g)
  BY DEF TypeOK, ChainsOn
<1>2. g = chain[k].h => k \in ChainsOn(g)
  BY DEF ChainsOn
<1>3. IsFiniteSet(ChainsOn(g)) /\ Cardinality(ChainsOn(g)) \in Nat
  BY UsersFinite
<1>4. k \in ChainsOn(g) => Cardinality(ChainsOn(g) \ {k}) = Cardinality(ChainsOn(g)) - 1
  BY <1>3, FS_RemoveElement
<1>5. QED BY <1>1, <1>2, <1>3, <1>4

\* The chains a result starts.
LEMMA ChainsStarted ==
    ASSUME TypeOK, NEW h \in Handles, NEW ids \in SUBSET Contacts, NEW open,
           chain' = Started(h, NewChains(h, ids), h \in open), NEW g
    PROVE  Cardinality(ChainsOn(g)')
             = Cardinality(ChainsOn(g))
               + (IF g = h THEN Cardinality(NewChains(h, ids)) ELSE 0)
<1> DEFINE new == NewChains(h, ids)
           T   == {Key(h, c) : c \in new}
<1>1. T \subseteq Keys /\ \A k \in T : chain[k].st = "none"
  BY DEF TypeOK, Keys, Key, NewChains
<1>2. ChainsOn(g)' = IF g = h THEN ChainsOn(g) \cup T ELSE ChainsOn(g)
  <2>1. ASSUME NEW k \in T PROVE chain'[k].st = "run" /\ chain'[k].h = h
    <3>1. \E c \in new : k = Key(h, c)
      OBVIOUS
    <3>2. QED BY <1>1, <3>1 DEF Started
  <2>2. ASSUME NEW k \in Keys \ T PROVE chain'[k] = chain[k]
    <3>1. ~ \E c \in new : k = Key(h, c)
      OBVIOUS
    <3>2. QED BY <3>1 DEF Started
  <2> HIDE DEF T
  <2>3. QED BY <1>1, <2>1, <2>2 DEF ChainsOn
<1>3. T \cap ChainsOn(g) = {}
  BY <1>1 DEF ChainsOn
<1>4. new \in SUBSET Contacts
  BY DEF NewChains
<1>5. IsFiniteSet(new) /\ Cardinality(new) \in Nat
  BY <1>4, LeaseAssumption, FS_Subset, FS_CardinalityType DEF LeaseAssumption
<1>6. IsFiniteSet(T) /\ Cardinality(T) = Cardinality(new)
  BY <1>5, KeysCount
<1> HIDE DEF T, new
<1>7. Cardinality(ChainsOn(g) \cup T) = Cardinality(ChainsOn(g)) + Cardinality(new)
  BY <1>3, <1>5, <1>6, UsersFinite, FS_Union, FS_EmptySet
<1>8. QED BY <1>2, <1>7, UsersFinite DEF new

\* Whoever uses a handle holds a lease of it.
UsersHold ==
    /\ \A j \in Jobs : job[j].st # "idle" => table.refs[job[j].h] > 0
    /\ \A k \in Keys : chain[k].st # "none" => table.refs[chain[k].h] > 0

LEMMA LeasesHeld == TypeOK /\ RefsAreLeases => UsersHold
<1> SUFFICES ASSUME TypeOK, RefsAreLeases PROVE UsersHold
  OBVIOUS
<1>1. ASSUME NEW j \in Jobs, job[j].st # "idle" PROVE table.refs[job[j].h] > 0
  <2> DEFINE h == job[j].h
  <2>1. h \in Handles /\ j \in JobsOn(h)
    BY <1>1 DEF TypeOK, JobStates, JobsOn
  <2>2. Cardinality(JobsOn(h)) # 0
    BY <2>1, UsersFinite, FS_EmptySet
  <2>3. QED BY <2>1, <2>2, UsersFinite DEF RefsAreLeases
<1>2. ASSUME NEW k \in Keys, chain[k].st # "none" PROVE table.refs[chain[k].h] > 0
  <2> DEFINE h == chain[k].h
  <2>1. h \in Handles /\ k \in ChainsOn(h)
    BY <1>2 DEF TypeOK, ChainStates, ChainsOn
  <2>2. Cardinality(ChainsOn(h)) # 0
    BY <2>1, UsersFinite, FS_EmptySet
  <2>3. QED BY <2>1, <2>2, UsersFinite DEF RefsAreLeases
<1>3. QED BY <1>1, <1>2 DEF UsersHold

\* What acquiring does to the counts.
LEMMA AcquireCount ==
    ASSUME NEW t \in Tables, NEW h \in Handles, NEW n \in Nat
    PROVE  /\ Acquire(t, h, n).refs = [t.refs EXCEPT ![h] = @ + n]
           /\ Acquire(t, h, n).open = t.open
BY DEF Acquire, Tables

\* Every lease is released exactly once: the count of a handle is the number of
\* its users, whoever the lease is handed to.
THEOREM LeasesCounted == Spec => []RefsAreLeases
<1>1. Init => RefsAreLeases
  <2> SUFFICES ASSUME Init, NEW h \in Handles
               PROVE  table.refs[h] = Cardinality(JobsOn(h)) + Cardinality(ChainsOn(h))
    BY DEF RefsAreLeases
  <2>1. JobsOn(h) = {} /\ ChainsOn(h) = {}
    BY DEF Init, JobsOn, ChainsOn, NoJob, NoChain
  <2>2. table.refs[h] = 0
    BY DEF Init
  <2>3. QED BY <2>1, <2>2, FS_EmptySet
<1>2. TypeOK /\ RefsAreLeases /\ [Next]_vars => RefsAreLeases'
  <2> SUFFICES ASSUME TypeOK, RefsAreLeases, [Next]_vars, NEW g \in Handles
               PROVE  table'.refs[g] = Cardinality(JobsOn(g)') + Cardinality(ChainsOn(g)')
    BY DEF RefsAreLeases
  <2>0. /\ table \in Tables /\ table.refs \in [Handles -> Nat]
        /\ \A j \in Jobs : job[j].h \in Handles /\ job[j].ids \in SUBSET Contacts
        /\ \A k \in Keys : chain[k].h \in Handles
        /\ cur \in Handles
        /\ table.refs[g] = Cardinality(JobsOn(g)) + Cardinality(ChainsOn(g))
        /\ Cardinality(JobsOn(g)) \in Nat /\ Cardinality(ChainsOn(g)) \in Nat
    BY UsersFinite DEF TypeOK, Tables, JobStates, ChainStates, RefsAreLeases
  <2>h. UsersHold
    BY LeasesHeld
  <2>j. (UNCHANGED job => JobsOn(g)' = JobsOn(g)) /\ (UNCHANGED chain => ChainsOn(g)' = ChainsOn(g))
    BY DEF JobsOn, ChainsOn
  <2>1. CASE SwitchLogbook
    <3>1. table'.refs = table.refs
      BY <2>0, <2>1 DEF SwitchLogbook, Retire, Tables
    <3>2. QED BY <2>0, <2>1, <2>j, <3>1 DEF SwitchLogbook
  <2>2. ASSUME NEW j \in Jobs, NEW kind \in Kinds, StartJob(j, kind)
        PROVE  table'.refs[g] = Cardinality(JobsOn(g)') + Cardinality(ChainsOn(g)')
    <3> DEFINE r == [NoJob(cur) EXCEPT !.st = "run", !.kind = kind]
    <3>1. /\ job' = [job EXCEPT ![j] = r] /\ job[j].st = "idle" /\ r.st # "idle" /\ r.h = cur
      BY <2>2 DEF StartJob, NoJob
    <3> HIDE DEF r
    <3>2. Cardinality(JobsOn(g)') = Cardinality(JobsOn(g)) + (IF g = cur THEN 1 ELSE 0)
      BY <3>1, JobStarts
    <3>3. table'.refs = [table.refs EXCEPT ![cur] = @ + 1]
      <4>1. Acquire(table, cur, 1).refs = [table.refs EXCEPT ![cur] = @ + 1]
        BY <2>0, AcquireCount
      <4>2. QED BY <2>2, <4>1 DEF StartJob
    <3>4. UNCHANGED chain
      BY <2>2 DEF StartJob
    <3>5. QED BY <2>0, <2>j, <3>2, <3>3, <3>4
  <2>3. ASSUME NEW j \in Jobs, job[j].st # "idle", job' = [job EXCEPT ![j] = NoJob(job[j].h)],
               table' = Release(table, job[j].h), UNCHANGED chain
        PROVE  table'.refs[g] = Cardinality(JobsOn(g)') + Cardinality(ChainsOn(g)')
    <3>1. NoJob(job[j].h).st = "idle"
      BY DEF NoJob
    <3>2. Cardinality(JobsOn(g)') = Cardinality(JobsOn(g)) - (IF g = job[j].h THEN 1 ELSE 0)
      BY <2>3, <3>1, JobEnds
    <3>3. table'.refs = [table.refs EXCEPT ![job[j].h] = @ - 1]
      BY <2>0, <2>h, <2>3, ReleaseCount DEF UsersHold
    <3>4. QED BY <2>0, <2>j, <2>3, <3>2, <3>3
  <2>4. ASSUME NEW j \in Jobs, ScanEnds(j)
        PROVE  table'.refs[g] = Cardinality(JobsOn(g)') + Cardinality(ChainsOn(g)')
    BY <2>3, <2>4 DEF ScanEnds
  <2>5. ASSUME NEW j \in Jobs, WorkerEnds(j)
        PROVE  table'.refs[g] = Cardinality(JobsOn(g)') + Cardinality(ChainsOn(g)')
    <3>1. JobsOn(g)' = JobsOn(g)
      BY <2>5 DEF WorkerEnds, JobsOn, TypeOK, JobStates
    <3>2. QED BY <2>0, <2>j, <2>5, <3>1 DEF WorkerEnds
  <2>6. ASSUME NEW j \in Jobs, NothingToDo(j)
        PROVE  table'.refs[g] = Cardinality(JobsOn(g)') + Cardinality(ChainsOn(g)')
    <3>1. CASE UNCHANGED table
      <4>1. CASE job' = [job EXCEPT ![j].st = "run", ![j].again = TRUE]
        <5>1. JobsOn(g)' = JobsOn(g)
          BY <2>6, <4>1 DEF NothingToDo, JobsOn, TypeOK, JobStates
        <5>2. QED BY <2>0, <2>j, <2>6, <3>1, <5>1 DEF NothingToDo
      <4>2. QED BY <2>3, <2>6, <4>1 DEF NothingToDo
    <3>2. CASE ~ UNCHANGED table
      BY <2>3, <2>6, <3>2 DEF NothingToDo
    <3>3. QED BY <3>1, <3>2
  <2>7. ASSUME NEW j \in Jobs, NEW first \in Contacts, UploadResult(j, first)
        PROVE  table'.refs[g] = Cardinality(JobsOn(g)') + Cardinality(ChainsOn(g)')
    <3> DEFINE h   == job[j].h
               new == NewChains(h, job[j].ids)
               t   == IF first \in new THEN table ELSE Release(table, h)
               n   == Cardinality(new \ {first})
    <3>1. /\ chain' = Started(h, new, h \in t.open)
          /\ table' = Acquire(t, h, n)
          /\ job' = [job EXCEPT ![j] = NoJob(h)]
          /\ job[j].st # "idle"
      BY <2>7 DEF UploadResult
    <3>2. Cardinality(ChainsOn(g)')
            = Cardinality(ChainsOn(g)) + (IF g = h THEN Cardinality(new) ELSE 0)
      BY <2>0, <3>1, ChainsStarted
    <3>3. Cardinality(JobsOn(g)') = Cardinality(JobsOn(g)) - (IF g = h THEN 1 ELSE 0)
      BY <3>1, JobEnds DEF NoJob
    <3>4. /\ Cardinality(new) \in Nat /\ n \in Nat
          /\ Cardinality(new) = IF first \in new THEN n + 1 ELSE n
      BY <2>0, NewChainsCount
    <3>5. h \in Handles /\ table.refs[h] > 0 /\ t \in Tables
      BY <2>0, <2>h, <3>1, TableTypes DEF UsersHold
    <3>6. t.refs = IF first \in new THEN table.refs ELSE [table.refs EXCEPT ![h] = @ - 1]
      BY <2>0, <3>5, ReleaseCount
    <3> HIDE DEF t, new, n, h
    <3>7. table'.refs = [t.refs EXCEPT ![h] = @ + n]
      BY <3>1, <3>4, <3>5, AcquireCount
    <3>8. QED BY <2>0, <3>2, <3>3, <3>4, <3>5, <3>6, <3>7
  <2>8. ASSUME NEW j \in Jobs, NEW first \in Contacts, RetryResult(j, first)
        PROVE  table'.refs[g] = Cardinality(JobsOn(g)') + Cardinality(ChainsOn(g)')
    <3> DEFINE h   == job[j].h
               new == NewChains(h, job[j].ids)
               n   == Cardinality(new \ {first})
               t   == Acquire(table, h, n)
    <3>1. /\ chain' = Started(h, new, h \in table.open)
          /\ table' = IF first \in new THEN t ELSE Release(t, h)
          /\ job' = [job EXCEPT ![j] = NoJob(h)]
          /\ job[j].st # "idle"
      BY <2>8 DEF RetryResult
    <3>2. Cardinality(ChainsOn(g)')
            = Cardinality(ChainsOn(g)) + (IF g = h THEN Cardinality(new) ELSE 0)
      BY <2>0, <3>1, ChainsStarted
    <3>3. Cardinality(JobsOn(g)') = Cardinality(JobsOn(g)) - (IF g = h THEN 1 ELSE 0)
      BY <3>1, JobEnds DEF NoJob
    <3>4. /\ Cardinality(new) \in Nat /\ n \in Nat
          /\ Cardinality(new) = IF first \in new THEN n + 1 ELSE n
      BY <2>0, NewChainsCount
    <3>5. h \in Handles /\ table.refs[h] > 0
      BY <2>0, <2>h, <3>1 DEF UsersHold
    <3> HIDE DEF new, n, h
    <3>6. t \in Tables /\ t.refs = [table.refs EXCEPT ![h] = @ + n]
      <4>1. t \in Tables
        BY <2>0, <3>4, <3>5, TableTypes
      <4>2. t.refs = [table.refs EXCEPT ![h] = @ + n]
        BY <2>0, <3>4, <3>5, AcquireCount
      <4>3. QED BY <4>1, <4>2
    <3>7. t.refs[h] > 0
      BY <2>0, <3>4, <3>5, <3>6
    <3> HIDE DEF t
    <3>8. table'.refs = IF first \in new THEN t.refs ELSE [t.refs EXCEPT ![h] = @ - 1]
      BY <3>1, <3>5, <3>6, <3>7, ReleaseCount
    <3>9. QED BY <2>0, <3>2, <3>3, <3>4, <3>5, <3>6, <3>8
  <2>9. ASSUME NEW c \in Contacts, Save(c)
        PROVE  table'.refs[g] = Cardinality(JobsOn(g)') + Cardinality(ChainsOn(g)')
    <3> DEFINE k == Key(cur, c)
               r == [st |-> "run", h |-> cur, safe |-> TRUE]
    <3>1. CASE chain[k].st = "none"
      <4>1. k \in Keys
        BY DEF TypeOK, Keys, Key
      <4>2. chain' = [chain EXCEPT ![k] = r] /\ UNCHANGED job
        BY <2>9, <3>1 DEF Save
      <4>3. table'.refs = [table.refs EXCEPT ![cur] = @ + 1]
        BY <2>0, <2>9, <3>1, AcquireCount DEF Save
      <4>4. r.st # "none" /\ r.h = cur
        OBVIOUS
      <4> HIDE DEF r, k
      <4>5. Cardinality(ChainsOn(g)') = Cardinality(ChainsOn(g)) + (IF g = cur THEN 1 ELSE 0)
        BY <3>1, <4>1, <4>2, <4>4, ChainStarts
      <4>6. QED BY <2>0, <2>j, <4>2, <4>3, <4>5
    <3>2. CASE chain[k].st # "none"
      BY <2>0, <2>j, <2>9, <3>2 DEF Save
    <3>3. QED BY <3>1, <3>2
  <2>10. ASSUME NEW k \in Keys, PatchEnds(k)
         PROVE  table'.refs[g] = Cardinality(JobsOn(g)') + Cardinality(ChainsOn(g)')
    <3>1. ChainsOn(g)' = ChainsOn(g)
      BY <2>10 DEF PatchEnds, ChainsOn, TypeOK, ChainStates
    <3>2. QED BY <2>0, <2>j, <2>10, <3>1 DEF PatchEnds
  <2>11. ASSUME NEW k \in Keys, PatchResult(k)
         PROVE  table'.refs[g] = Cardinality(JobsOn(g)') + Cardinality(ChainsOn(g)')
    <3>1. CASE k \in queued
      <4>1. ChainsOn(g)' = ChainsOn(g)
        BY <2>11, <3>1 DEF PatchResult, ChainsOn, TypeOK, ChainStates
      <4>2. QED BY <2>0, <2>j, <2>11, <3>1, <4>1 DEF PatchResult
    <3>2. CASE k \notin queued
      <4>1. /\ chain' = [chain EXCEPT ![k] = NoChain(chain[k].h)]
            /\ table' = Release(table, chain[k].h)
            /\ chain[k].st # "none" /\ UNCHANGED job
        BY <2>11, <3>2 DEF PatchResult
      <4>2. NoChain(chain[k].h).st = "none"
        BY DEF NoChain
      <4>3. Cardinality(ChainsOn(g)')
              = Cardinality(ChainsOn(g)) - (IF g = chain[k].h THEN 1 ELSE 0)
        BY <4>1, <4>2, ChainDrains
      <4>4. table'.refs = [table.refs EXCEPT ![chain[k].h] = @ - 1]
        BY <2>0, <2>h, <4>1, ReleaseCount DEF UsersHold
      <4>5. QED BY <2>0, <2>j, <4>1, <4>3, <4>4
    <3>3. QED BY <3>1, <3>2
  <2>12. CASE UNCHANGED vars
    BY <2>0, <2>j, <2>12 DEF vars
  <2>13. QED
    BY <2>1, <2>2, <2>4, <2>5, <2>6, <2>7, <2>8, <2>9, <2>10, <2>11, <2>12 DEF Next, JobStep
<1>3. QED BY <1>1, <1>2, TypeCorrect, PTL DEF Spec

\* A step closes no handle that still has a lease after it, the one exception
\* being a result whose lease is given back before the later ones are taken.
StillOpen == \A g \in table.open : table'.refs[g] > 0 => g \in table'.open

\* A worker never finds its database closed: a lease taken on an open handle
\* keeps the handle open through every hand-over, up to its release.
THEOREM DatabaseStaysOpen == Spec => []UsersHaveOpenDB
<1>1. Init => UsersHaveOpenDB
  BY DEF Init, UsersHaveOpenDB, NoJob, NoChain
<1>2. /\ TypeOK /\ RefsAreLeases /\ UsersHold /\ OpenIsHeld /\ UsersHaveOpenDB
      /\ [Next]_vars /\ UsersHold'
      => UsersHaveOpenDB'
  <2> SUFFICES ASSUME TypeOK, RefsAreLeases, UsersHold, OpenIsHeld, UsersHaveOpenDB, [Next]_vars,
                      UsersHold'
               PROVE  UsersHaveOpenDB'
    OBVIOUS
  <2>0. /\ table \in Tables
        /\ \A j \in Jobs : job[j].h \in Handles /\ job[j].ids \in SUBSET Contacts
        /\ \A k \in Keys : chain[k].h \in Handles
        /\ cur \in Handles /\ cur \in table.open
    BY DEF TypeOK, JobStates, ChainStates, OpenIsHeld
  <2>a. ASSUME StillOpen,
               \A j \in Jobs : job'[j].st # "idle" => job'[j].h \in table.open,
               \A k \in Keys : chain'[k].st # "none" /\ chain'[k].safe => chain'[k].h \in table.open
        PROVE  UsersHaveOpenDB'
    BY <2>a DEF StillOpen, UsersHold, UsersHaveOpenDB
  <2>r. ASSUME NEW h \in Handles, table.refs[h] > 0, table' = Release(table, h)
        PROVE  StillOpen
    BY <2>0, <2>r, ReleaseCount DEF StillOpen
  <2>q. ASSUME NEW h \in Handles, NEW n \in Nat, table' = Acquire(table, h, n)
        PROVE  StillOpen
    BY <2>0, <2>q, AcquireCount DEF StillOpen
  <2>u. ASSUME UNCHANGED table PROVE StillOpen
    BY <2>u DEF StillOpen
  <2>1. CASE SwitchLogbook
    <3>1. PICK h \in Handles \ used :
            table' = Retire([table EXCEPT !.open = @ \cup {h}], cur)
      BY <2>1 DEF SwitchLogbook
    <3>2. StillOpen
      BY <2>0, <3>1 DEF StillOpen, Retire, Tables
    <3>3. UNCHANGED <<job, chain>>
      BY <2>1 DEF SwitchLogbook
    <3>4. QED BY <2>a, <3>2, <3>3 DEF UsersHaveOpenDB
  <2>2. ASSUME NEW j \in Jobs, NEW kind \in Kinds, StartJob(j, kind) PROVE UsersHaveOpenDB'
    <3>1. StillOpen
      BY <2>0, <2>2, <2>q DEF StartJob
    <3>2. \A i \in Jobs : job'[i].st # "idle" => job'[i].h \in table.open
      BY <2>0, <2>2 DEF StartJob, TypeOK, NoJob, UsersHaveOpenDB
    <3>3. UNCHANGED chain
      BY <2>2 DEF StartJob
    <3>4. QED BY <2>a, <3>1, <3>2, <3>3 DEF UsersHaveOpenDB
  <2>3. ASSUME NEW j \in Jobs, job' = [job EXCEPT ![j] = NoJob(job[j].h)]
        PROVE  \A i \in Jobs : job'[i].st # "idle" => job'[i].h \in table.open
    BY <2>3 DEF TypeOK, NoJob, UsersHaveOpenDB
  <2>4. ASSUME NEW j \in Jobs, ScanEnds(j) PROVE UsersHaveOpenDB'
    <3>1. StillOpen
      BY <2>0, <2>4, <2>r DEF ScanEnds, UsersHold
    <3>2. QED BY <2>a, <2>3, <2>4, <3>1 DEF ScanEnds, UsersHaveOpenDB
  <2>5. ASSUME NEW j \in Jobs, WorkerEnds(j) PROVE UsersHaveOpenDB'
    <3>1. \A i \in Jobs : job'[i].st # "idle" => job[i].st # "idle" /\ job'[i].h = job[i].h
      BY <2>5 DEF WorkerEnds, TypeOK, JobStates
    <3>2. UNCHANGED <<table, chain>>
      BY <2>5 DEF WorkerEnds
    <3>3. QED BY <2>a, <2>u, <3>1, <3>2 DEF UsersHaveOpenDB
  <2>6. ASSUME NEW j \in Jobs, NothingToDo(j) PROVE UsersHaveOpenDB'
    <3>1. StillOpen
      BY <2>0, <2>6, <2>r, <2>u DEF NothingToDo, UsersHold
    <3>2. \A i \in Jobs : job'[i].st # "idle" => job'[i].h \in table.open
      <4>1. CASE job' = [job EXCEPT ![j].st = "run", ![j].again = TRUE]
        BY <2>6, <4>1 DEF NothingToDo, TypeOK, JobStates, UsersHaveOpenDB
      <4>2. QED BY <2>3, <2>6, <4>1 DEF NothingToDo
    <3>3. UNCHANGED chain
      BY <2>6 DEF NothingToDo
    <3>4. QED BY <2>a, <3>1, <3>2, <3>3 DEF UsersHaveOpenDB
  <2>s. ASSUME NEW h \in Handles, NEW new, NEW open, chain' = Started(h, new, h \in open),
               NEW k \in Keys, chain'[k].st # "none", chain'[k].safe
        PROVE  \/ chain[k].st # "none" /\ chain[k].safe /\ chain'[k].h = chain[k].h
               \/ chain'[k].h = h /\ h \in open
    <3>1. CASE \E c \in new : k = Key(h, c)
      BY <2>s, <3>1 DEF Started
    <3>2. CASE ~ \E c \in new : k = Key(h, c)
      BY <2>s, <3>2 DEF Started
    <3>3. QED BY <3>1, <3>2
  <2>7. ASSUME NEW j \in Jobs, NEW first \in Contacts, UploadResult(j, first)
        PROVE  UsersHaveOpenDB'
    <3> DEFINE h   == job[j].h
               new == NewChains(h, job[j].ids)
               t   == IF first \in new THEN table ELSE Release(table, h)
               n   == Cardinality(new \ {first})
    <3>1. /\ chain' = Started(h, new, h \in t.open)
          /\ table' = Acquire(t, h, n)
          /\ job' = [job EXCEPT ![j] = NoJob(h)]
          /\ job[j].st # "idle"
      BY <2>7 DEF UploadResult
    <3>2. h \in Handles /\ table.refs[h] > 0 /\ t \in Tables /\ h \in table.open
      BY <2>0, <3>1, TableTypes DEF UsersHold, UsersHaveOpenDB
    <3>3. n \in Nat
      BY <2>0, NewChainsCount
    <3>4. \A i \in Jobs : job'[i].st # "idle" => job[i].st # "idle" /\ i # j /\ job'[i].h = job[i].h
      BY <3>1 DEF TypeOK, NoJob
    <3>5. CASE h \in t.open
      <4>1. StillOpen
        <5>1. \A g \in table.open : g # h => g \in t.open
          BY <2>0, <3>2 DEF Release, Tables
        <5>2. QED BY <3>1, <3>2, <3>3, <3>5, <5>1, AcquireCount DEF StillOpen
      <4>2. \A k \in Keys : chain'[k].st # "none" /\ chain'[k].safe => chain'[k].h \in table.open
        BY <2>s, <3>1, <3>2 DEF UsersHaveOpenDB
      <4>3. QED BY <2>a, <3>4, <4>1, <4>2 DEF UsersHaveOpenDB
    <3>6. CASE h \notin t.open
      <4>1. first \notin new /\ t = Release(table, h)
        BY <3>2, <3>6
      <4>2. table.refs[h] = 1
        BY <2>0, <3>2, <3>6, <4>1 DEF Release, Tables
      <4>3. table'.open = table.open \ {h}
        <5>1. t.open = table.open \ {h}
          BY <2>0, <3>2, <3>6, <4>1, <4>2 DEF Release, Tables
        <5>2. QED BY <3>1, <3>2, <3>3, <5>1, AcquireCount
      <4>4. JobsOn(h) = {j} /\ ChainsOn(h) = {}
        <5>1. /\ IsFiniteSet(JobsOn(h)) /\ Cardinality(JobsOn(h)) \in Nat
              /\ IsFiniteSet(ChainsOn(h)) /\ Cardinality(ChainsOn(h)) \in Nat
          BY UsersFinite
        <5>2. Cardinality(JobsOn(h)) + Cardinality(ChainsOn(h)) = 1
          BY <3>2, <4>2 DEF RefsAreLeases
        <5>3. j \in JobsOn(h)
          BY <3>1 DEF JobsOn
        <5>4. Cardinality(JobsOn(h)) = 1 /\ Cardinality(ChainsOn(h)) = 0
          <6>1. Cardinality(JobsOn(h)) # 0
            BY <5>1, <5>3, FS_EmptySet
          <6>2. QED BY <5>1, <5>2, <6>1
        <5>5. QED BY <5>1, <5>3, <5>4, FS_EmptySet, FS_Singleton
      <4>5. \A i \in Jobs : job'[i].st # "idle" => job'[i].h \in table'.open
        BY <3>4, <4>3, <4>4 DEF UsersHaveOpenDB, JobsOn
      <4>6. \A k \in Keys : chain'[k].st # "none" /\ chain'[k].safe => chain'[k].h \in table'.open
        <5> SUFFICES ASSUME NEW k \in Keys, chain'[k].st # "none", chain'[k].safe
                     PROVE  chain'[k].h \in table'.open
          OBVIOUS
        <5>0. chain' = Started(h, new, h \in t.open) /\ h \in Handles
          BY <3>1, <3>2
        <5>1. chain[k].st # "none" /\ chain[k].safe /\ chain'[k].h = chain[k].h
          <6> HIDE DEF h, new, t
          <6>1. QED BY <2>s, <5>0, <3>6
        <5>2. chain[k].h # h
          BY <4>4, <5>1 DEF ChainsOn
        <5>3. QED BY <4>3, <5>1, <5>2 DEF UsersHaveOpenDB
      <4>7. QED BY <4>5, <4>6 DEF UsersHaveOpenDB
    <3>7. QED BY <3>5, <3>6
  <2>8. ASSUME NEW j \in Jobs, NEW first \in Contacts, RetryResult(j, first)
        PROVE  UsersHaveOpenDB'
    <3> DEFINE h   == job[j].h
               new == NewChains(h, job[j].ids)
               n   == Cardinality(new \ {first})
               t   == Acquire(table, h, n)
    <3>1. /\ chain' = Started(h, new, h \in table.open)
          /\ table' = IF first \in new THEN t ELSE Release(t, h)
          /\ job' = [job EXCEPT ![j] = NoJob(h)]
          /\ job[j].st # "idle"
      BY <2>8 DEF RetryResult
    <3>2. h \in Handles /\ table.refs[h] > 0 /\ h \in table.open
      BY <2>0, <3>1 DEF UsersHold, UsersHaveOpenDB
    <3>3. n \in Nat
      BY <2>0, NewChainsCount
    <3>4. \A i \in Jobs : job'[i].st # "idle" => job'[i].h \in table.open
      BY <2>3, <3>1
    <3>5. \A k \in Keys : chain'[k].st # "none" /\ chain'[k].safe => chain'[k].h \in table.open
      BY <2>s, <3>1, <3>2 DEF UsersHaveOpenDB
    <3> HIDE DEF h, new, n
    <3>6. t \in Tables /\ t.open = table.open /\ t.refs[h] > 0
      <4>1. t \in Tables
        BY <2>0, <3>2, <3>3, TableTypes
      <4>2. t.refs = [table.refs EXCEPT ![h] = @ + n] /\ t.open = table.open
        BY <2>0, <3>2, <3>3, AcquireCount
      <4>3. QED BY <2>0, <3>2, <3>3, <4>1, <4>2 DEF Tables
    <3> HIDE DEF t
    <3>7. StillOpen
      BY <3>1, <3>2, <3>6, ReleaseCount DEF StillOpen
    <3>8. QED BY <2>a, <3>4, <3>5, <3>7
  <2>9. ASSUME NEW c \in Contacts, Save(c) PROVE UsersHaveOpenDB'
    <3>1. StillOpen
      BY <2>0, <2>9, <2>q, <2>u DEF Save
    <3>2. \A k \in Keys : chain'[k].st # "none" /\ chain'[k].safe => chain'[k].h \in table.open
      BY <2>0, <2>9 DEF Save, TypeOK, UsersHaveOpenDB
    <3>3. UNCHANGED job
      BY <2>9 DEF Save
    <3>4. QED BY <2>a, <3>1, <3>2, <3>3 DEF UsersHaveOpenDB
  <2>10. ASSUME NEW k \in Keys, PatchEnds(k) PROVE UsersHaveOpenDB'
    <3>1. \A l \in Keys : chain'[l].st # "none" => /\ chain[l].st # "none"
                                                   /\ chain'[l].h = chain[l].h
                                                   /\ chain'[l].safe = chain[l].safe
      BY <2>10 DEF PatchEnds, TypeOK, ChainStates
    <3>2. UNCHANGED <<table, job>>
      BY <2>10 DEF PatchEnds
    <3>3. QED BY <2>a, <2>u, <3>1, <3>2 DEF UsersHaveOpenDB
  <2>11. ASSUME NEW k \in Keys, PatchResult(k) PROVE UsersHaveOpenDB'
    <3>1. \A l \in Keys : chain'[l].st # "none" => /\ chain[l].st # "none"
                                                   /\ chain'[l].h = chain[l].h
                                                   /\ chain'[l].safe = chain[l].safe
      BY <2>11 DEF PatchResult, TypeOK, ChainStates, NoChain
    <3>2. StillOpen
      BY <2>0, <2>11, <2>r, <2>u DEF PatchResult, UsersHold
    <3>3. UNCHANGED job
      BY <2>11 DEF PatchResult
    <3>4. QED BY <2>a, <3>1, <3>2, <3>3 DEF UsersHaveOpenDB
  <2>12. CASE UNCHANGED vars
    BY <2>12 DEF vars, UsersHaveOpenDB
  <2>13. QED
    BY <2>1, <2>2, <2>4, <2>5, <2>6, <2>7, <2>8, <2>9, <2>10, <2>11, <2>12 DEF Next, JobStep
<1>3. QED BY <1>1, <1>2, TypeCorrect, NoHandleLeaks, LeasesCounted, LeasesHeld, PTL DEF Spec
=============================================================================
