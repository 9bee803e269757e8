----------------------------- MODULE SolarPanel -----------------------------
(***************************************************************************)
(* The solar conditions of CQOps: fetched by a worker in up to three       *)
(* attempts, kept in a cache file for fifteen minutes, and shown on the QSO *)
(* form and the dashboard.  The server's answer may be one the program     *)
(* cannot read; the network and the setting change at any time.            *)
(***************************************************************************)
EXTENDS Naturals

CONSTANTS Attempts,         \* solarMaxRetries
          MaxTimes          \* bound on the five-minute periods

VARIABLES
    wanted, net,        \* SolarAtQSOPane; the Internet, which the program knows of here
    shown, failed,      \* solar.data and solar.failed
    fetching, tried,    \* solar.fetching; the attempts of the worker
    reply,              \* the worker's message, or "none"
    recent,             \* lastFetch is under five minutes old
    file, young,        \* the cache file; whether it is under fifteen minutes old
    answered, again,    \* a readable answer came in these minutes; the server was asked after it
    times

solarVars == <<wanted, net, shown, failed, fetching, tried, reply, recent, file, young, answered, again, times>>

SolarTypeOK ==
    /\ wanted \in BOOLEAN /\ net \in BOOLEAN /\ failed \in BOOLEAN /\ fetching \in BOOLEAN
    /\ shown \in {"nothing", "data"} /\ reply \in {"none", "data", "error"} /\ tried \in 0..Attempts - 1
    /\ recent \in BOOLEAN /\ young \in BOOLEAN /\ file \in {"missing", "good", "bad"}
    /\ answered \in BOOLEAN /\ again \in BOOLEAN /\ times \in 0..MaxTimes

SolarInit ==
    /\ wanted \in BOOLEAN /\ net \in BOOLEAN /\ file \in {"missing", "good", "bad"} /\ young = FALSE
    /\ shown = "nothing" /\ failed = FALSE /\ fetching = FALSE /\ tried = 0 /\ reply = "none" /\ recent = FALSE
    /\ answered = FALSE /\ again = FALSE /\ times = 0

panel == <<shown, failed, fetching, recent>>
disk == <<file, young, answered, again>>

Fresh == file = "good" /\ young

\* maybeFetchSolar, on every tick and when the Internet is back.
MaybeFetch ==
    /\ ~fetching /\ net /\ wanted /\ ~recent
    /\ recent' = TRUE
    /\ IF Fresh THEN shown' = "data" /\ failed' = FALSE /\ UNCHANGED fetching
       ELSE fetching' = TRUE /\ UNCHANGED <<shown, failed>>
    /\ UNCHANGED <<wanted, net, tried, reply, disk, times>>

\* Fetch, once: the cache, the server, or the cache of any age if the server cannot be
\* reached.  The answer is written to the cache before it is read.

\* Mutant: one attempt too many.
FailsLate == IF tried < Attempts THEN tried' = tried + 1 /\ UNCHANGED reply ELSE tried' = 0 /\ reply' = "error"
Fails == IF tried + 1 < Attempts THEN tried' = tried + 1 /\ UNCHANGED reply ELSE tried' = 0 /\ reply' = "error"

Succeeds == tried' = 0 /\ reply' = "data"
FromServer(body) == file' = body /\ young' = TRUE /\ again' = (again \/ answered) /\ answered' = (answered \/ body = "good")
Attempt ==
    /\ fetching /\ reply = "none"
    /\ \/ Fresh /\ Succeeds /\ UNCHANGED disk
       \/ ~Fresh /\ ~net /\ (IF file = "good" THEN Succeeds ELSE Fails) /\ UNCHANGED disk
       \/ ~Fresh /\ net /\ FromServer("good") /\ Succeeds
       \/ ~Fresh /\ net /\ FromServer("bad") /\ Fails
       \/ ~Fresh /\ net /\ Fails /\ UNCHANGED disk
    /\ UNCHANGED <<wanted, net, panel, times>>

\* handleSolarResult
Result ==
    /\ reply # "none" /\ reply' = "none" /\ fetching' = FALSE
    /\ failed' = (reply = "error") /\ shown' = IF reply = "error" THEN "nothing" ELSE "data"
    /\ UNCHANGED <<wanted, net, tried, recent, disk, times>>

FiveMinutes ==
    /\ times < MaxTimes /\ times' = times + 1 /\ recent' = FALSE
    /\ \E y \in {FALSE, young} : young' = y /\ answered' = (answered /\ y)
    /\ UNCHANGED <<wanted, net, shown, failed, fetching, tried, reply, file, again>>
NetChanges == times < MaxTimes /\ times' = times + 1 /\ net' = ~net
              /\ UNCHANGED <<wanted, panel, tried, reply, disk>>
Setting == times < MaxTimes /\ times' = times + 1 /\ wanted' = ~wanted
           /\ UNCHANGED <<net, panel, tried, reply, disk>>

SolarNext == MaybeFetch \/ Attempt \/ Result \/ FiveMinutes \/ NetChanges \/ Setting

SolarSpec == SolarInit /\ [][SolarNext]_solarVars

-----------------------------------------------------------------------------

\* "Data is cached for 15 minutes": whatever the retries, outages and settings, the
\* server is not asked again while what it answered is young.
ServerIsSpared == ~again

\* "write before parsing so we always have a fallback on disk".  Violated: an answer
\* that cannot be read replaces a copy that could, and the next outage finds nothing.
CopyStaysReadable == [][file = "good" => file' = "good"]_solarVars
=============================================================================
