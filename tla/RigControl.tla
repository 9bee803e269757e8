----------------------------- MODULE RigControl -----------------------------
(***************************************************************************)
(* Rig and rotator control as the owner loop sees it: a client per chosen  *)
(* preset, polled by background commands, and what is fetched once per      *)
(* connection: the mode table and the model name.                          *)
(*                                                                         *)
(* A poll result names its client, and one of a replaced client is         *)
(* dropped.  The results of the fetches name none.                         *)
(***************************************************************************)
EXTENDS Integers, FiniteSets

CONSTANTS
    RigClients,  \* client objects of the rig
    RotorClients,
    NoRadio,
    StuckTicks,  \* ticks after which a poll in flight is given up
    MaxRefresh   \* bound: times the presets are changed

VARIABLES
    dev,       \* rig and rotator: installed client, connected (and by whose
               \* answer, which the code does not keep), poll flag and its age
    info,      \* whose mode table and model name are kept
    polls,     \* polls in flight, by client
    fetches,   \* fetches of modes and names in flight
    alive,     \* clients whose radio answers
    refreshed

rigVars == <<dev, info, polls, fetches, alive, refreshed>>

Devices == {"rig", "rotor"}
Radios == RigClients \cup RotorClients
Made(d) == IF d = "rig" THEN RigClients ELSE RotorClients
Facts == {<<"rig", "modes">>, <<"rig", "name">>, <<"rotor", "name">>}
NoDevice == [client |-> NoRadio, connected |-> FALSE, by |-> NoRadio, polling |-> FALSE, age |-> 0]

RigTypeOK ==
    /\ dev \in [Devices -> [client : Radios \cup {NoRadio}, connected : BOOLEAN,
                            by : Radios \cup {NoRadio}, polling : BOOLEAN, age : 0..StuckTicks + 1]]
    /\ info \in [Facts -> Radios \cup {NoRadio}]
    /\ polls \in [Radios -> 0..2]
    /\ fetches \subseteq Facts \X (Radios \cup {NoRadio})
    /\ alive \subseteq Radios
    /\ refreshed \in 0..MaxRefresh

RigInit ==
    /\ dev = [d \in Devices |-> NoDevice] /\ info = [f \in Facts |-> NoRadio]
    /\ polls = [r \in Radios |-> 0] /\ fetches = {} /\ alive = Radios
    /\ refreshed = 0


-----------------------------------------------------------------------------
(* The clients and their polls.                                            *)

\* A client object nobody refers to any more can stand for a new one.
Free(r) ==
    /\ polls[r] = 0 /\ \A f \in Facts : <<f, r>> \notin fetches /\ info[f] # r
    /\ \A d \in Devices : dev[d].client # r

\* refreshRigClient, refreshRotorClient: a preset without a backend leaves none.
Refresh(d) ==
    /\ refreshed < MaxRefresh /\ refreshed' = refreshed + 1
    /\ \E r \in {x \in Made(d) : Free(x)} \cup {NoRadio} :
          dev' = [dev EXCEPT ![d] = [@ EXCEPT !.client = r, !.connected = FALSE, !.by = NoRadio]]
    /\ info' = [f \in Facts |-> IF f[1] = d THEN NoRadio ELSE info[f]]
    /\ UNCHANGED <<polls, fetches, alive>>

RadioComesOrGoes(r) ==
    /\ alive' = IF r \in alive THEN alive \ {r} ELSE alive \cup {r}
    /\ UNCHANGED <<dev, info, polls, fetches, refreshed>>

\* pollRig: one poll at a time, unless the one in flight is given up as stuck.
PollRig ==
    LET g == dev["rig"] IN
    /\ g.client # NoRadio
    /\ g.polling => g.age > StuckTicks
    /\ polls[g.client] < 2
    /\ dev' = [dev EXCEPT !["rig"] = [@ EXCEPT !.polling = TRUE, !.age = 0]]
    /\ polls' = [polls EXCEPT ![g.client] = @ + 1]
    /\ UNCHANGED <<info, fetches, alive, refreshed>>

\* pollRotor keeps no flag: the next poll is two seconds later, longer than a
\* poll may take.
PollRotor ==
    LET r == dev["rotor"].client IN
    /\ r # NoRadio /\ polls[r] = 0
    /\ polls' = [polls EXCEPT ![r] = 1]
    /\ UNCHANGED <<dev, info, fetches, alive, refreshed>>

\* Ticks while a poll is out.
PollAges ==
    /\ dev["rig"].polling /\ dev["rig"].age <= StuckTicks
    /\ dev' = [dev EXCEPT !["rig"].age = @ + 1]
    /\ UNCHANGED <<info, polls, fetches, alive, refreshed>>

Answered(r) == polls[r] > 0 /\ polls' = [polls EXCEPT ![r] = @ - 1]

Unflagged(d) == [dev[d] EXCEPT !.polling = FALSE]

\* Mutant: a result is taken whoever sent it.
AnyPoll(d, r) == dev[d].client # NoRadio

IsOwn(d, r) == dev[d].client = r

\* What a successful poll fetches: the rotator's name only at the connect.
Missing(d) ==
    {f \in Facts : f[1] = d /\ info[f] = NoRadio /\ (d = "rotor" => ~dev[d].connected)}

\* applyRigPoll, applyRotorPoll: the flag is cleared first, a stale result is
\* dropped, a failure disconnects and forgets the facts (the rotator's name only if it
\* was connected), a success fetches what is missing.
ApplyPoll(d, r) ==
    /\ r \in Made(d) /\ Answered(r)
    /\ IF ~IsOwn(d, r)
       THEN dev' = [dev EXCEPT ![d] = Unflagged(d)] /\ UNCHANGED <<info, fetches>>
       ELSE IF r \notin alive
       THEN /\ dev' = [dev EXCEPT ![d] = [Unflagged(d) EXCEPT !.connected = FALSE, !.by = NoRadio]]
            /\ info' = [f \in Facts |->
                          IF f[1] = d /\ (d = "rotor" => dev[d].connected) THEN NoRadio ELSE info[f]]
            /\ UNCHANGED fetches
       ELSE /\ dev' = [dev EXCEPT ![d] = [Unflagged(d) EXCEPT !.connected = TRUE, !.by = r]]
            /\ fetches' = fetches \cup {<<f, IF d = "rotor" THEN r ELSE NoRadio>> : f \in Missing(d)}
            /\ UNCHANGED info
    /\ UNCHANGED <<alive, refreshed>>

\* The rig's fetch takes the client that is installed when it runs.
FetchRuns(f) ==
    /\ <<f, NoRadio>> \in fetches
    /\ fetches' = (fetches \ {<<f, NoRadio>>}) \cup
         IF dev[f[1]].client = NoRadio THEN {} ELSE {<<f, dev[f[1]].client>>}
    /\ UNCHANGED <<dev, info, polls, alive, refreshed>>

\* rigModesMsg, rigNameMsg, rotorNameMsg.
FetchDone(f, r) ==
    /\ <<f, r>> \in fetches /\ r # NoRadio
    /\ fetches' = fetches \ {<<f, r>>}
    /\ info' = IF r \in alive THEN [info EXCEPT ![f] = r] ELSE info
    /\ UNCHANGED <<dev, polls, alive, refreshed>>

-----------------------------------------------------------------------------
RigNext ==
    \/ PollRig \/ PollRotor \/ PollAges
    \/ \E d \in Devices : Refresh(d) \/ \E r \in Radios : ApplyPoll(d, r)
    \/ \E r \in Radios : RadioComesOrGoes(r)
    \/ \E f \in Facts : FetchRuns(f) \/ \E r \in Radios : FetchDone(f, r)

RigSpec == RigInit /\ [][RigNext]_rigVars

RigFairness ==
    /\ WF_rigVars(PollRig) /\ WF_rigVars(PollAges) /\ WF_rigVars(PollRotor)
    /\ \A d \in Devices, r \in Radios : WF_rigVars(ApplyPoll(d, r))
    /\ \A f \in Facts : WF_rigVars(FetchRuns(f)) /\ \A r \in Radios : WF_rigVars(FetchDone(f, r))

RigFairSpec == RigSpec /\ RigFairness

-----------------------------------------------------------------------------
(* Properties.                                                             *)

\* What the screen and the form show as connected is the chosen preset: an
\* answer of a replaced client never counts for its successor.
ConnectedIsCurrent == \A d \in Devices : dev[d].connected => dev[d].by = dev[d].client

\* Whatever polls were lost, stuck or stale: when the radios stay reachable,
\* the rig gets connected, its mode table and its name become known, and the
\* rotator gets connected.
RigConnects ==
    <>[](alive = Radios) =>
        <>[](/\ \A d \in Devices : dev[d].client # NoRadio => dev[d].connected
             /\ dev["rig"].client # NoRadio =>
                    \A f \in Facts : f[1] = "rig" => info[f] # NoRadio)

-----------------------------------------------------------------------------
(* What comments of the code say and its behaviour does not bear out.      *)

\* "Clear cached modes and name - a new client means the rig may have changed
\* its mode table or model" (refreshRigClient).
FactsAreCurrent == \A f \in Facts : info[f] \in {NoRadio, dev[f[1]].client}

=============================================================================
