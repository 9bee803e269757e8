------------------------------ MODULE WorkedLog ------------------------------
(***************************************************************************)
(* What the worked panel promises: at every moment its verdict about a     *)
(* callsign, a grid or a DXCC entity is the one that a look at the whole   *)
(* log would give.  How the answer is found without that look is the       *)
(* business of WorkedIndex, which implements this specification.           *)
(***************************************************************************)
CONSTANTS
    Ids,            \* row ids
    NoRow,          \* an id without a row
    None,           \* an empty column
    Subjects,       \* the callsigns, grids and entities one can ask about
    Matches(_, _),  \* Matches(s, r): row r is a contact with s
    MayHide(_, _)   \* MayHide(s, r): r lacks the column that would tell

VARIABLES log, verdicts

Logged(l) == {i \in Ids : l[i] # NoRow}

\* A contact proves "worked"; only a log without doubtful rows proves "new".
Truth(l, s) ==
    IF \E i \in Logged(l) : Matches(s, l[i]) THEN "worked"
    ELSE IF \E i \in Logged(l) : MayHide(s, l[i]) THEN "unknown"
    ELSE "new"

Verdicts(l) == [s \in Subjects |-> Truth(l, s)]

LogInit == /\ log = [i \in Ids |-> NoRow]
           /\ verdicts = Verdicts(log)

\* One contact is logged, changed or deleted ...
Write(i) == \A j \in Ids \ {i} : log'[j] = log[j]

\* ... several are completed without any of them appearing or vanishing ...
Resolve == Logged(log') = Logged(log)

\* ... or the log is emptied.
Clear == Logged(log') = {}

LogNext ==
    /\ DOMAIN log' = Ids
    /\ \/ \E i \in Ids : Write(i)
       \/ Resolve
       \/ Clear
    /\ verdicts' = Verdicts(log')

LogSpec == LogInit /\ [][LogNext]_<<log, verdicts>>
==============================================================================
