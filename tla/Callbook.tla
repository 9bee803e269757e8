------------------------------ MODULE Callbook ------------------------------
(***************************************************************************)
(* A callbook lookup: what the sources' answers come to, and the session     *)
(* key a client of one of them keeps.  The two share no state: an instance   *)
(* is of one of them.                                                        *)
(*                                                                           *)
(* The registry asks its sources in the order of their priority and merges   *)
(* what they say; a portable call that a source does not know is asked again *)
(* without its suffix, and what is found then describes the station at home. *)
(* A value is therefore blank, about the operation asked for ("own") or      *)
(* about the base call ("home").                                             *)
(*                                                                           *)
(* Lookups run in workers, the lock is held only while the key is read or    *)
(* written, and the server may drop a key at any time.  The three clients    *)
(* differ in what they take for a dead key; only QRZ.RU keeps its distance   *)
(* between requests.                                                         *)
(***************************************************************************)
EXTENDS Integers, Sequences, FiniteSets

CONSTANTS
    Sources,    \* the providers that are on
    Prefix,     \* the one that resolves prefixes (CTY.DAT)
    Local,      \* the ones that search this computer: their errors are answers
    Lookups,    \* workers
    MaxKeys,    \* logins, and the keys they yield
    Gap         \* QRZ.RU's 3 s, in ticks

VARIABLES
    priority,   \* Provider.Priority
    order,      \* Registry.providers
    shape,      \* of the call: "plain", "suffix" (/P) or "prefix" (9A/...)
    fallback,   \* the setting baseFallback of callbookRegLookup
    run,        \* whom the registry is asked about: "call" or "base"
    asking,     \* whom the source is asked about
    pos,        \* the source that is being asked
    merged, failed,
    first,      \* the result of the first run, while the second goes on
    last,       \* the last source's answer
    outcome,    \* "open", then "data", "error" or "nothing"
    client,     \* which of the clients
    key,        \* c.key, c.sID, c.sessionID: 0 when there is none
    old,        \* sAt: 50 min have passed since (HamQTH)
    alive,      \* keys the server accepts
    issued,     \* logins so far
    lookup,     \* each worker's state
    since,      \* ticks since lastReq (Gap when long ago)
    refused     \* keys the server refused when they came from the cache

-----------------------------------------------------------------------------
(* The lookup over the registry. *)

cascadeVars == <<priority, order, shape, fallback, run, asking, pos, merged, failed, first, last, outcome>>

Blank == "blank"
Value == {Blank, "own", "home"}
Result == [base : BOOLEAN, name : Value, country : Value, state : Value]
NoData == [base |-> FALSE, name |-> "none", country |-> "none", state |-> "none"]
Whom == {"call", "base"}

CascadeTypeOK ==
    /\ priority \in [Sources -> 0..2] /\ order \in Seq(Sources) /\ Len(order) = Cardinality(Sources)
    /\ shape \in {"plain", "suffix", "prefix"} /\ fallback \in BOOLEAN /\ failed \in BOOLEAN
    /\ run \in Whom /\ asking \in Whom /\ pos \in 1..(Len(order) + 1)
    /\ merged \in Result \cup {NoData} /\ first \in Result \cup {NoData} /\ last \in Result \cup {NoData}
    /\ outcome \in {"open", "data", "error", "nothing"}

\* NewRegistry sorts by falling priority.
Sorted(p) == {o \in [1..Cardinality(Sources) -> Sources] :
                 \A i, j \in DOMAIN o : i < j => o[i] # o[j] /\ p[o[i]] >= p[o[j]]}

\* buildCallbookRegistry: priorities are clamped from below at 0; the prefixes' is 1.
CascadeInit ==
    /\ priority \in {p \in [Sources -> 0..2] : Prefix \in Sources => p[Prefix] = 1}
    /\ order \in Sorted(priority)
    /\ shape \in {"plain", "suffix", "prefix"} /\ fallback \in BOOLEAN
    /\ run = "call" /\ asking = "call" /\ pos = 1
    /\ merged = NoData /\ failed = FALSE /\ first = NoData /\ last = NoData /\ outcome = "open"

Portable == run = "call" /\ shape # "plain"
\* baseCallForFallback knows suffixes only.
Retried == Portable /\ shape = "suffix"

\* What a source can say of a call: some of the fields, perhaps those of the base
\* call if it drops the suffix by itself.
About(whom, isBase) ==
    LET v == IF run = "base" \/ whom = "base" \/ isBase THEN "home" ELSE "own"
    IN  [base : {isBase \/ whom # run}, name : {Blank, v}, country : {Blank, v}, state : {Blank, v}]
Answers(s) ==
    IF s = Prefix
    THEN {r \in About(asking, FALSE) : r.name = Blank /\ r.state = Blank /\ r.country # Blank}
    ELSE IF s \in Local THEN {r \in About(asking, FALSE) : r.state = Blank /\ (r.name # Blank \/ r.country # Blank)}
    ELSE About(asking, FALSE) \cup (IF Portable THEN About(asking, TRUE) ELSE {})

Override(dst) == dst.base

\* mergeInto: blanks are filled; home data are replaced by every later source.
Merge(dst, src) ==
    LET Fill(f, over) == IF src[f] # Blank /\ (dst[f] = Blank \/ over) THEN src[f] ELSE dst[f]
    IN  [base |-> dst.base, name |-> Fill("name", Override(dst)),
         country |-> Fill("country", Override(dst)), state |-> Fill("state", FALSE)]

With(dst, src) == IF dst = NoData THEN src ELSE Merge(dst, src)

-----------------------------------------------------------------------------

Asks == outcome = "open" /\ pos <= Len(order)
Moves == pos' = pos + 1 /\ asking' = run
Kept == UNCHANGED <<priority, order, shape, fallback, run, first>>

\* A source has data: the first answer is the baseline, later ones are merged.
Answered ==
    /\ Asks
    /\ \E r \in Answers(order[pos]) : merged' = With(merged, r) /\ last' = r
    /\ Moves /\ Kept /\ UNCHANGED <<failed, outcome>>

\* It has none: a portable call is asked for again by its base call.
NotFound ==
    /\ Asks
    /\ IF Retried /\ asking = "call"
       THEN asking' = "base" /\ UNCHANGED <<pos, last>>
       ELSE Moves /\ last' = NoData
    /\ Kept /\ UNCHANGED <<merged, failed, outcome>>

Failed ==
    /\ Asks /\ order[pos] \notin Local \cup {Prefix}
    /\ failed' = TRUE /\ last' = NoData
    /\ Moves /\ Kept /\ UNCHANGED <<merged, outcome>>

\* callbookRegLookup: whether the registry is asked a second time, for the base
\* call: if nothing was found, or nobody's name.
Again ==
    /\ run = "call" /\ fallback /\ shape # "plain"
    /\ IF merged # NoData THEN merged.name = Blank ELSE ~failed

Concludes ==
    /\ outcome = "open" /\ pos > Len(order)
    /\ IF Again
       THEN /\ run' = "base" /\ asking' = "base" /\ pos' = 1 /\ first' = merged
            /\ merged' = NoData /\ failed' = FALSE /\ UNCHANGED outcome
       ELSE LET found == IF first # NoData /\ merged # NoData THEN Merge(first, merged)
                         ELSE IF merged # NoData THEN merged ELSE first
            IN  /\ merged' = found
                /\ outcome' = IF found # NoData THEN "data" ELSE IF failed THEN "error" ELSE "nothing"
                /\ UNCHANGED <<run, asking, pos, first, failed>>
    /\ UNCHANGED <<priority, order, shape, fallback, last>>

CascadeNext == Answered \/ NotFound \/ Failed \/ Concludes

CascadeSpec == CascadeInit /\ [][CascadeNext]_cascadeVars

-----------------------------------------------------------------------------

\* mergeInto, "fill in blank fields": a source of the call itself is not
\* overruled by one that comes later, and no field gets lost.
Keeps(r, s) ==
    \A f \in {"name", "country", "state"} :
        /\ r[f] # Blank => s[f] # Blank
        /\ ~r.base /\ r[f] # Blank => s[f] = r[f]
BaselineStands ==
    /\ merged # NoData /\ merged' # NoData /\ outcome = outcome' => Keeps(merged, merged')
    /\ first # NoData /\ outcome # outcome' => Keeps(first, merged')

\* Lookup, on data found by the base call: the last source that answers for the
\* call itself decides where the station is.
OperatingEntityWins ==
    run = "call" /\ merged # NoData /\ merged.base /\ last # NoData /\ ~last.base /\ last.country # Blank
        => merged.country = "own"

\* What any source found is returned; an error stands for a lookup that found nothing.
FoundIsReturned ==
    /\ outcome \in {"error", "nothing"} => merged = NoData /\ first = NoData
    /\ outcome = "data" => merged # NoData

\* Lookup's comment: home data are cleared "so CTY.DAT prefix resolution can
\* supply the correct operating entity".  Violated: a base call's data fill the
\* blanks of a direct answer, whose later sources may fill blanks only.
PrefixSuppliesEntity ==
    outcome = "data" /\ run = "call" /\ last # NoData /\ ~last.base /\ order[Len(order)] = Prefix
        => merged.country = "own"

-----------------------------------------------------------------------------
(* The session key. *)

sessionVars == <<client, key, old, alive, issued, lookup, since, refused>>

Stages == {"idle", "cached", "drop", "login", "store", "fresh"}
Rest == [at |-> "idle", key |-> 0, sleep |-> 0]

SessionsTypeOK ==
    /\ client \in {"qrz", "hamqth", "qrzru"} /\ old \in BOOLEAN
    /\ issued \in 0..MaxKeys /\ key \in 0..issued /\ alive \subseteq 1..issued /\ refused \subseteq 1..issued
    /\ lookup \in [Lookups -> [at : Stages, key : 0..MaxKeys, sleep : 0..Gap]]
    /\ since \in 0..Gap

SessionsInit ==
    /\ client \in {"qrz", "hamqth", "qrzru"}
    /\ key = 0 /\ old = FALSE /\ alive = {} /\ issued = 0 /\ since = Gap /\ refused = {}
    /\ lookup = [w \in Lookups |-> Rest]

\* doLookup (QRZ.RU): a request too early sleeps for the rest of the gap, which it
\* computes once; the others do not wait.
Pause == IF client = "qrzru" THEN Gap - since ELSE 0
Goes(w, stage, k) ==
    /\ lookup' = [lookup EXCEPT ![w] = [at |-> stage, key |-> k, sleep |-> Pause]]
    /\ since' = IF client = "qrzru" /\ Pause = 0 THEN 0 ELSE since
Ends(w) == lookup' = [lookup EXCEPT ![w] = Rest]
At(w, stage) == lookup[w].at = stage

-----------------------------------------------------------------------------

\* lookup: a cached key is used while it is not too old (HamQTH).
Start(w) ==
    /\ At(w, "idle")
    /\ IF key # 0 /\ ~(client = "hamqth" /\ old)
       THEN Goes(w, "cached", key)
       ELSE lookup' = [lookup EXCEPT ![w] = [Rest EXCEPT !.at = "login"]] /\ UNCHANGED since
    /\ UNCHANGED <<client, key, old, alive, issued, refused>>

Sent(w) == lookup[w].sleep = 0

\* The server takes the key: data, or not found.
Found(w) ==
    /\ (At(w, "cached") \/ At(w, "fresh")) /\ Sent(w) /\ lookup[w].key \in alive
    /\ Ends(w)
    /\ UNCHANGED <<client, key, old, alive, issued, since, refused>>

\* It refuses a cached key, or, with a session error of QRZ's, the request.
Refused(w) ==
    /\ At(w, "cached") /\ Sent(w) /\ lookup[w].key \notin alive
    /\ lookup' = [lookup EXCEPT ![w].at = "drop"]
    /\ refused' = refused \cup {lookup[w].key}
    /\ UNCHANGED <<client, key, old, alive, issued, since>>

\* The request is lost: QRZ returns the error, the others try a new session.
Lost(w) ==
    /\ At(w, "cached") /\ Sent(w)
    /\ IF client = "qrz" THEN Ends(w) ELSE lookup' = [lookup EXCEPT ![w].at = "drop"]
    /\ UNCHANGED <<client, key, old, alive, issued, since, refused>>

\* Whichever key is there by now is given up.
Drop(w) ==
    /\ At(w, "drop")
    /\ key' = 0 /\ lookup' = [lookup EXCEPT ![w] = [at |-> "login", key |-> 0, sleep |-> 0]]
    /\ UNCHANGED <<client, old, alive, issued, since, refused>>

\* loginAndSearch, loginAndLookup, qrzLoginLookup: the server issues a key.
LogsIn(w) ==
    /\ At(w, "login") /\ issued < MaxKeys
    /\ issued' = issued + 1 /\ alive' = alive \cup {issued'}
    /\ lookup' = [lookup EXCEPT ![w] = [at |-> "store", key |-> issued', sleep |-> 0]]
    /\ UNCHANGED <<client, key, old, since, refused>>

Store(w) ==
    /\ At(w, "store")
    /\ key' = lookup[w].key /\ old' = FALSE
    /\ Goes(w, "fresh", lookup[w].key)
    /\ UNCHANGED <<client, alive, issued, refused>>

\* An error after, or instead of, the login is the lookup's result.
GivesUp(w) ==
    /\ At(w, "login") \/ (At(w, "fresh") /\ Sent(w))
    /\ Ends(w)
    /\ UNCHANGED <<client, key, old, alive, issued, since, refused>>

\* testConnection logs in and keeps the key.
TestConnection ==
    /\ issued < MaxKeys
    /\ issued' = issued + 1 /\ alive' = alive \cup {issued'} /\ key' = issued' /\ old' = FALSE
    /\ UNCHANGED <<client, lookup, since, refused>>

\* The server forgets a session; a HamQTH session gets old.
Expire(k) ==
    /\ k \in alive /\ alive' = alive \ {k}
    /\ UNCHANGED <<client, key, old, issued, lookup, since, refused>>
Ages ==
    /\ client = "hamqth" /\ ~old /\ key # 0 /\ old' = TRUE
    /\ UNCHANGED <<client, key, alive, issued, lookup, since, refused>>

\* Sleepers wake, and their requests go out, without looking again.
Wakes(w) == lookup[w].sleep = 1
Tick ==
    /\ client = "qrzru"
    /\ since' = IF \E w \in Lookups : Wakes(w) THEN 0 ELSE IF since < Gap THEN since + 1 ELSE Gap
    /\ lookup' = [w \in Lookups |-> IF lookup[w].sleep > 0 THEN [lookup[w] EXCEPT !.sleep = @ - 1] ELSE lookup[w]]
    /\ UNCHANGED <<client, key, old, alive, issued, refused>>

SessionsNext ==
    \/ \E w \in Lookups :
          \/ Start(w) \/ Found(w) \/ Refused(w) \/ Lost(w) \/ Drop(w)
          \/ LogsIn(w) \/ Store(w) \/ GivesUp(w)
    \/ \E k \in alive : Expire(k)
    \/ TestConnection \/ Ages \/ Tick

SessionsSpec == SessionsInit /\ [][SessionsNext]_sessionVars

-----------------------------------------------------------------------------

\* qrzDB's comment: a dead session must not disable lookups "for the rest of the
\* run": a cached key the server refused is being given up, or is cached no more.
DeadKeyIsGone ==
    key \in refused => \E w \in Lookups : At(w, "drop") /\ lookup[w].key = key

\* lookup's comment (QRZ): a transport failure keeps the key and burns no login,
\* so that keys are given up only after the server refused one.
OutageKeepsSession ==
    client = "qrz" => \A w \in Lookups : At(w, "drop") => lookup[w].key \in refused

\* "1 request per 3 seconds".  Violated: two workers sleep side by side and wake together.
KeepsItsDistance == Cardinality({w \in Lookups : Wakes(w)}) <= 1
=============================================================================
