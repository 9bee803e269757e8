----------------------------- MODULE InstanceLock -----------------------------
(***************************************************************************)
(* The single-instance guard: programs started on one configuration        *)
(* directory, the lock file they lock, and the kernel, which releases the   *)
(* lock of a program that ends in any way.  A lock belongs to an inode; a   *)
(* file that is removed while open lives on as an inode without a name.     *)
(***************************************************************************)
EXTENDS Integers, FiniteSets

CONSTANTS
    Instances,          \* programs
    MaxInodes,          \* bound on lock files created
    None                \* no inode, nobody

VARIABLES
    stage,              \* what each program is doing
    fd,                 \* the inode each has open
    name,               \* the inode cqops.lock names, or None
    inodes,             \* inodes created so far
    lock,               \* the holder of each inode's lock
    pid,                \* the process recorded in the file
    open                \* the programs with the logbook database open

lockVars == <<stage, fd, name, inodes, lock, pid, open>>

Inodes == 1..MaxInodes
Stages == {"off", "opening", "opened", "locked", "owner", "closing"}

LockTypeOK ==
    /\ stage \in [Instances -> Stages] /\ fd \in [Instances -> Inodes \cup {None}]
    /\ name \in Inodes \cup {None} /\ inodes \in 0..MaxInodes
    /\ lock \in [Inodes -> Instances \cup {None}] /\ pid \in Instances \cup {None}
    /\ open \subseteq Instances

LockInit ==
    /\ stage = [i \in Instances |-> "off"] /\ fd = [i \in Instances |-> None]
    /\ name = None /\ inodes = 0 /\ lock = [n \in Inodes |-> None]
    /\ pid = None /\ open = {}

At(i, s, t) == stage[i] = s /\ stage' = [stage EXCEPT ![i] = t]

Freed(i) == [n \in Inodes |-> IF lock[n] = i THEN None ELSE lock[n]]

Started(i) == At(i, "off", "opening") /\ UNCHANGED <<fd, name, inodes, lock, pid, open>>

\* O_CREATE without O_EXCL: the file of an earlier run is opened again.
OpenFile(i) ==
    /\ At(i, "opening", "opened")
    /\ \/ name # None /\ UNCHANGED <<name, inodes>>
       \/ name = None /\ inodes < MaxInodes /\ inodes' = inodes + 1 /\ name' = inodes + 1
    /\ fd' = [fd EXCEPT ![i] = name'] /\ UNCHANGED <<lock, pid, open>>

\* tryLockOS, without waiting: taken, or refused while another program has it.
tryLockOS(i) ==
    \/ /\ At(i, "opened", "locked") /\ lock[fd[i]] = None
       /\ lock' = [lock EXCEPT ![fd[i]] = i] /\ UNCHANGED fd
    \/ /\ At(i, "opened", "off") /\ lock[fd[i]] # None
       /\ fd' = [fd EXCEPT ![i] = None] /\ UNCHANGED lock

TryLock(i) == tryLockOS(i) /\ UNCHANGED <<name, inodes, pid, open>>

\* Mutant: the lock file goes away with its owner.
Unlinked == None

\* release leaves the file in place.
LeftInPlace == name

\* The lock is given up, on a failure to start or at the end of Close.
release(i) ==
    /\ lock' = Freed(i) /\ fd' = [fd EXCEPT ![i] = None] /\ name' = LeftInPlace

\* The PID is recorded and the rest of Init runs: config, logbook, database.
Init(i) ==
    \/ /\ At(i, "locked", "owner")
       /\ open' = open \cup {i} /\ pid' = i
       /\ UNCHANGED <<fd, name, inodes, lock>>
    \/ At(i, "locked", "off") /\ release(i) /\ pid' \in {pid, i} /\ UNCHANGED <<inodes, open>>

\* Close: the database first, then the lock.
CloseDB(i) ==
    /\ At(i, "owner", "closing") /\ open' = open \ {i}
    /\ UNCHANGED <<fd, name, inodes, lock, pid>>
CloseLock(i) == At(i, "closing", "off") /\ release(i) /\ UNCHANGED <<inodes, pid, open>>

\* The program ends at any point, and the kernel releases what it held.
Dies(i) ==
    /\ stage[i] # "off" /\ stage' = [stage EXCEPT ![i] = "off"]
    /\ lock' = Freed(i) /\ fd' = [fd EXCEPT ![i] = None] /\ open' = open \ {i}
    /\ UNCHANGED <<name, inodes, pid>>

LockNext ==
    \E i \in Instances :
        Started(i) \/ OpenFile(i) \/ TryLock(i) \/ Init(i) \/ CloseDB(i) \/ CloseLock(i) \/ Dies(i)

LockSpec == LockInit /\ [][LockNext]_lockVars

-----------------------------------------------------------------------------
\* Two programs never have the database of one configuration directory open,
\* through starts that race, crashes and ends in any order.
OneOwner == Cardinality(open) <= 1

\* The recorded process is the owner: not claimed, the file says "informational".
PidIsOwner == \A i \in open : pid = i
==============================================================================
