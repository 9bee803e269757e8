----------------------------- MODULE Links_proofs -----------------------------
(***************************************************************************)
(* Proofs about the links to radios, networks and programs: the invariant  *)
(* of each component is inductive by itself, and as the components share   *)
(* no state, it holds in the behaviours that the run checks.               *)
(***************************************************************************)
EXTENDS MCLinks, SequenceTheorems, TLAPS

-----------------------------------------------------------------------------
(* The DX cluster. *)

\* NoClient is no client, and the bounds are numbers.
DxAssumption == NoClient \notin Clients /\ LastDelay \in Nat /\ MaxSaves \in Nat

\* What the UI model, a connect command and a client may be.
UIs == [client : Clients \cup {NoClient}, online : BOOLEAN, connecting : BOOLEAN,
        timer : {"zero", "running", "due"}, idx : 0..LastDelay]
Cmds == [st : {"none", "start", "dial", "sent"}, ok : BOOLEAN, current : BOOLEAN]
Conns == [used : BOOLEAN, stopped : BOOLEAN, once : BOOLEAN,
          link : {"none", "up", "broken"}, loop : {"none", "wait", "dial", "leaving"},
          q : {"empty", "up", "down"}]

DxTypes(u, m, k) == u \in UIs /\ m \in [Clients -> Cmds] /\ k \in [Clients -> Conns]

\* The command in flight is one, the flag is up for it, and the kept client is its own
\* or none.  A client that was made is kept or under way, unless it has been stopped;
\* one that is still to be dialled has no reconnect loop yet.
DxKnown(u, m, k) ==
    /\ \A c \in Clients : m[c].current =>
          /\ m[c].st # "none" /\ u.connecting
          /\ \A d \in Clients : m[d].current => d = c
          /\ u.client \in {NoClient, c}
    /\ \A c \in Clients : u.client = c => m[c].st = "none" \/ m[c].current
    /\ \A c \in Clients : ~k[c].used => m[c].st = "none" /\ ~k[c].once
    /\ \A c \in Clients : m[c].st \in {"start", "dial"} => ~k[c].once
    /\ \A c \in Clients : ~k[c].once => k[c].link = "none" /\ k[c].loop = "none"
    /\ \A c \in Clients : k[c].used /\ ~k[c].stopped => u.client = c \/ m[c].st # "none"

DxInv(u, m, k) == DxTypes(u, m, k) /\ DxKnown(u, m, k)

\* The record that the operators of the owner loop work on.
States(u, m, k) == [ui |-> u, cmd |-> m, conn |-> k]

\* A client as the link sees it, up to what was read of its status channel.
Alike(a, b) ==
    /\ a.used = b.used /\ a.once = b.once /\ a.loop = b.loop
    /\ a.link = "none" <=> b.link = "none"

\* Stopping a client changes its flag and what is read of its status.
LEMMA StoppedIs == ASSUME NEW a \in Conns PROVE Dxc!Stopped(a) \in Conns /\ Dxc!Stopped(a).stopped /\ Alike(Dxc!Stopped(a), a)
<1>1. Dxc!Stopped(a) \in Conns
  BY DEF Conns, Dxc!Stopped
<1>2. Dxc!Stopped(a).stopped
  BY DEF Conns, Dxc!Stopped
<1>3. Alike(Dxc!Stopped(a), a)
  BY DEF Conns, Dxc!Stopped, Alike
<1> QED BY <1>1, <1>2, <1>3

\* A client is like itself.
LEMMA AlikeSelf == \A a : Alike(a, a)
  BY DEF Alike

\* The teardown stops the kept client and disowns the command in flight.
LEMMA DxTorn ==
  ASSUME DxAssumption, NEW u, NEW m, NEW k, DxInv(u, m, k), NEW s, s = Dxc!TornDown(States(u, m, k))
  PROVE  DxInv(s.ui, s.cmd, s.conn)
<1>1. s.ui = Dxc!NoUI
  BY DEF Dxc!TornDown, States
<1>2. s.cmd = [c \in Clients |-> [m[c] EXCEPT !.current = FALSE]]
  BY DEF Dxc!TornDown, States
<1>3. s.conn = IF u.client = NoClient THEN k ELSE [k EXCEPT ![u.client] = Dxc!Stopped(@)]
  BY DEF Dxc!TornDown, States
<1>t. u.client \in Clients \cup {NoClient} /\ m \in [Clients -> Cmds] /\ k \in [Clients -> Conns]
  BY DEF DxTypes, DxInv, UIs
<1>4. Dxc!NoUI \in UIs /\ Dxc!NoUI.client = NoClient
  BY DEF Dxc!NoUI, DxAssumption, UIs
<1>5. \A c \in Clients : s.cmd[c] \in Cmds /\ s.cmd[c].st = m[c].st /\ ~s.cmd[c].current
  <2> TAKE c \in Clients
  <2>1. m[c] \in Cmds /\ s.cmd[c] = [m[c] EXCEPT !.current = FALSE]
    BY <1>2, <1>t
  <2> QED BY ONLY <2>1 DEF Cmds
<1>6. \A c \in Clients :
         /\ s.conn[c] \in Conns /\ Alike(s.conn[c], k[c])
         /\ IF u.client = c THEN s.conn[c].stopped ELSE s.conn[c] = k[c]
  <2> TAKE c \in Clients
  <2>1. CASE u.client = c
    <3>1. s.conn[c] = Dxc!Stopped(k[c]) /\ k[c] \in Conns
      BY <1>3, <1>t, <2>1 DEF DxAssumption
    <3> QED BY <2>1, <3>1, StoppedIs
  <2>2. CASE u.client # c
    <3>1. s.conn[c] = k[c] /\ k[c] \in Conns
      BY <1>3, <1>t, <2>2
    <3> QED BY <2>2, <3>1, AlikeSelf
  <2> QED BY <2>1, <2>2
<1>7. DxTypes(s.ui, s.cmd, s.conn)
  <2>1. s.cmd \in [Clients -> Cmds]
    BY <1>2, <1>5
  <2>2. s.conn \in [Clients -> Conns]
    BY <1>3, <1>6, <1>t
  <2> QED BY <1>1, <1>4, <2>1, <2>2 DEF DxTypes
<1>8. DxKnown(s.ui, s.cmd, s.conn)
  BY <1>1, <1>4, <1>5, <1>6 DEF DxInv, DxKnown, Alike, DxAssumption
<1> QED BY <1>7, <1>8 DEF DxInv

\* Reading the status changes what is shown only.
LEMMA DxDrained ==
  ASSUME DxAssumption, NEW u, NEW m, NEW k, DxInv(u, m, k), NEW s, s = Dxc!Drained(States(u, m, k))
  PROVE  DxInv(s.ui, s.cmd, s.conn) /\ s.ui.client = u.client
<1>0. CASE u.client = NoClient \/ k[u.client].q = "empty"
  BY <1>0 DEF Dxc!Drained, States
<1>1. CASE ~(u.client = NoClient \/ k[u.client].q = "empty")
  <2> PICK up \in BOOLEAN : up = (k[u.client].q = "up")
    OBVIOUS
  <2>t. u.client \in Clients /\ u \in UIs /\ k \in [Clients -> Conns]
    BY <1>1 DEF DxTypes, DxInv, UIs
  <2>1. s.cmd = m /\ s.conn = [k EXCEPT ![u.client].q = "empty"]
    BY <1>1 DEF Dxc!Drained, States
  <2>2. s.ui = [u EXCEPT !.online = up, !.idx = IF up /\ ~u.online THEN 0 ELSE @]
    BY <1>1 DEF Dxc!Drained, States
  <2>i. PICK i : i = IF up /\ ~u.online THEN 0 ELSE u.idx
    OBVIOUS
  <2>j. i \in 0..LastDelay
    <3>1. u.idx \in 0..LastDelay
      BY <2>t DEF UIs
    <3>2. i = 0 \/ i = u.idx
      BY <2>i
    <3> QED BY <3>1, <3>2 DEF DxAssumption
  <2>3. s.ui \in UIs /\ s.ui.client = u.client /\ s.ui.connecting = u.connecting
    <3>1. s.ui = [u EXCEPT !.online = up, !.idx = i]
      BY <2>2, <2>i
    <3>2. u \in UIs /\ up \in BOOLEAN
      BY <2>t
    <3> QED BY ONLY <2>j, <3>1, <3>2 DEF UIs
  <2>4. \A c \in Clients : s.conn[c] \in Conns /\ Alike(s.conn[c], k[c]) /\ s.conn[c].stopped = k[c].stopped
    <3> TAKE c \in Clients
    <3>1. k[c] \in Conns /\ s.conn[c] \in {k[c], [k[c] EXCEPT !.q = "empty"]}
      BY <2>1, <2>t
    <3> QED BY ONLY <3>1 DEF Conns, Alike
  <2>5. DxTypes(s.ui, s.cmd, s.conn)
    <3>1. s.conn \in [Clients -> Conns]
      BY <2>1, <2>4, <2>t
    <3> QED BY <2>1, <2>3, <3>1 DEF DxTypes, DxInv
  <2> QED BY <2>1, <2>3, <2>4, <2>5 DEF DxInv, DxKnown, Alike
<1> QED BY <1>0, <1>1

\* A connect command is for the kept client or a new one, and then the only one.
LEMMA DxConnecting ==
  ASSUME DxAssumption, NEW u, NEW m, NEW k, DxInv(u, m, k), NEW t, t = States(u, m, k),
         Dxc!MayConnect(t), NEW c \in Dxc!Candidates(t), NEW s, s = Dxc!Connecting(t, c)
  PROVE  DxInv(s.ui, s.cmd, s.conn)
<1>0. /\ ~u.connecting /\ c \in Clients
      /\ \/ u.client = c /\ ~k[c].once
         \/ u.client = NoClient /\ ~k[c].used
  BY DEF Dxc!Candidates, Dxc!MayConnect, States, DxInv, DxTypes, UIs
<1>1. s.ui = [u EXCEPT !.connecting = TRUE, !.timer = "running"]
  BY DEF Dxc!Connecting, States
<1>2. s.cmd = [m EXCEPT ![c] = [st |-> "start", ok |-> FALSE, current |-> TRUE]]
  BY DEF Dxc!Connecting, States
<1>3. s.conn = [k EXCEPT ![c].used = TRUE]
  BY DEF Dxc!Connecting, States
<1>t. u \in UIs /\ m \in [Clients -> Cmds] /\ k \in [Clients -> Conns]
  BY DEF DxTypes, DxInv
<1>4. s.ui \in UIs /\ s.ui.client = u.client /\ s.ui.connecting
  BY ONLY <1>1, <1>t DEF UIs
<1>5. PICK n : n = [st |-> "start", ok |-> FALSE, current |-> TRUE]
  OBVIOUS
<1>6. n \in Cmds /\ n.st = "start" /\ n.current
  BY <1>5 DEF Cmds
<1>7. s.cmd \in [Clients -> Cmds] /\ s.cmd[c] = n /\ \A d \in Clients \ {c} : s.cmd[d] = m[d]
  BY <1>0, <1>2, <1>5, <1>6, <1>t
<1>8. PICK l : l = [k[c] EXCEPT !.used = TRUE]
  OBVIOUS
<1>9. l \in Conns /\ l.used /\ l.once = k[c].once /\ l.link = k[c].link /\ l.loop = k[c].loop
  <2>1. k[c] \in Conns
    BY <1>0, <1>t
  <2> QED BY ONLY <1>8, <2>1 DEF Conns
<1>10. s.conn \in [Clients -> Conns] /\ s.conn[c] = l /\ \A d \in Clients \ {c} : s.conn[d] = k[d]
  BY <1>0, <1>3, <1>8, <1>9, <1>t
<1>11. \A d \in Clients : ~m[d].current
  BY <1>0 DEF DxInv, DxKnown
<1>12. DxKnown(s.ui, s.cmd, s.conn)
  <2>1. \A d \in Clients : s.cmd[d].current => d = c
    BY <1>7, <1>11
  <2>2. ~k[c].once
    BY <1>0 DEF DxInv, DxKnown
  <2> QED BY <1>0, <1>4, <1>6, <1>7, <1>9, <1>10, <2>1, <2>2 DEF DxInv, DxKnown
<1> QED BY <1>4, <1>7, <1>10, <1>12 DEF DxInv, DxTypes

\* So whatever the tick decides keeps the invariant.
LEMMA DxMaybe ==
  ASSUME DxAssumption, NEW u, NEW m, NEW k, DxInv(u, m, k), NEW w, NEW s \in Dxc!MaybeDXC(States(u, m, k), w)
  PROVE  DxInv(s.ui, s.cmd, s.conn)
<1>1. CASE ~w.enabled \/ ~w.inet
  BY <1>1, DxTorn DEF Dxc!MaybeDXC
<1>2. CASE ~(~w.enabled \/ ~w.inet)
  <2>1. PICK d : d = Dxc!Drained(States(u, m, k))
    OBVIOUS
  <2>2. DxInv(d.ui, d.cmd, d.conn)
    BY <2>1, DxDrained
  <2>3. d = States(d.ui, d.cmd, d.conn)
    BY <2>1 DEF Dxc!Drained, States
  <2>4. s = d \/ (Dxc!MayConnect(d) /\ \E c \in Dxc!Candidates(d) : s = Dxc!Connecting(d, c))
    BY <1>2, <2>1 DEF Dxc!MaybeDXC
  <2> QED BY <2>2, <2>3, <2>4, DxConnecting
<1> QED BY <1>1, <1>2

\* A step of one client and its command, which are known as before.
LEMMA DxOne ==
  ASSUME DxAssumption, NEW u, NEW m, NEW k, DxInv(u, m, k), NEW c \in Clients, NEW x \in Conns, NEW y \in Cmds,
         NEW m2, NEW k2, m2 = [m EXCEPT ![c] = y], k2 = [k EXCEPT ![c] = x],
         x.used = k[c].used, k[c].stopped => x.stopped, x.once => k[c].used,
         ~x.once => x.link = "none" /\ x.loop = "none",
         y.current = m[c].current, y.st = "none" <=> m[c].st = "none", y.st \in {"start", "dial"} => ~x.once
  PROVE  DxInv(u, m2, k2)
<1>1. m2 \in [Clients -> Cmds] /\ m2[c] = y /\ \A d \in Clients \ {c} : m2[d] = m[d]
  BY DEF DxInv, DxTypes
<1>2. k2 \in [Clients -> Conns] /\ k2[c] = x /\ \A d \in Clients \ {c} : k2[d] = k[d]
  BY DEF DxInv, DxTypes
<1>3. \A d \in Clients : m2[d].current = m[d].current /\ (m2[d].st = "none" <=> m[d].st = "none")
  BY <1>1
<1>4. \A d \in Clients : k2[d].used = k[d].used /\ (k[d].stopped => k2[d].stopped)
  BY <1>2
<1>5. DxKnown(u, m2, k2)
  BY <1>1, <1>2, <1>3, <1>4 DEF DxInv, DxKnown
<1> QED BY <1>1, <1>2, <1>5 DEF DxInv, DxTypes

\* Only the client changes.
LEMMA DxConn ==
  ASSUME DxAssumption, NEW u, NEW m, NEW k, DxInv(u, m, k), NEW c \in Clients, NEW x \in Conns,
         NEW k2, k2 = [k EXCEPT ![c] = x],
         x.used = k[c].used, k[c].stopped => x.stopped, x.once = k[c].once,
         ~x.once => x.link = "none" /\ x.loop = "none"
  PROVE  DxInv(u, m, k2)
<1>1. m[c] \in Cmds /\ m = [m EXCEPT ![c] = m[c]]
  BY DEF DxInv, DxTypes
<1>2. (x.once => k[c].used) /\ (m[c].st \in {"start", "dial"} => ~x.once)
  BY DEF DxInv, DxKnown
<1>3. PICK y : y = m[c]
  OBVIOUS
<1>4. y \in Cmds /\ m = [m EXCEPT ![c] = y] /\ y.current = m[c].current
      /\ (y.st = "none" <=> m[c].st = "none") /\ (y.st \in {"start", "dial"} => ~x.once)
  BY <1>1, <1>2, <1>3
<1> QED BY <1>2, <1>4, DxOne

\* The result of a command: taken over when it is the current one, else its client is stopped.
LEMMA DxDeliver ==
  ASSUME DxAssumption, DxInv(ui, cmd, conn), NEW c \in Clients, Dxc!Deliver(c) PROVE DxInv(ui, cmd, conn)'
<1>t. ui \in UIs /\ cmd \in [Clients -> Cmds] /\ conn \in [Clients -> Conns]
  BY DEF DxInv, DxTypes
<1>1. PICK n : n = Dxc!NoCmd
  OBVIOUS
<1>2. n \in Cmds /\ n.st = "none" /\ ~n.current
  BY <1>1 DEF Dxc!NoCmd, Cmds
<1>3. cmd' \in [Clients -> Cmds] /\ cmd'[c] = n /\ \A d \in Clients \ {c} : cmd'[d] = cmd[d]
  BY <1>1, <1>2, <1>t DEF Dxc!Deliver
<1>4. CASE cmd[c].current
  <2>1. conn' = conn
    BY <1>4 DEF Dxc!Deliver
  <2>2. PICK i \in 0..LastDelay : ui' = [ui EXCEPT !.client = c, !.connecting = FALSE, !.online = cmd[c].ok, !.idx = i]
    <3>1. PICK i : i = IF cmd[c].ok THEN 0 ELSE IF ui.idx < LastDelay THEN ui.idx + 1 ELSE ui.idx
      OBVIOUS
    <3>2. ui.idx \in 0..LastDelay
      BY <1>t DEF UIs
    <3>3. i \in 0..LastDelay
      BY <3>1, <3>2 DEF DxAssumption
    <3>4. ui' = [ui EXCEPT !.client = c, !.connecting = FALSE, !.online = cmd[c].ok, !.idx = i]
      BY <1>4, <3>1 DEF Dxc!Deliver
    <3> QED BY <3>3, <3>4
  <2>3. cmd[c].ok \in BOOLEAN
    BY <1>t DEF Cmds
  <2>4. ui' \in UIs /\ ui'.client = c /\ ~ui'.connecting
    BY ONLY <1>t, <2>2, <2>3, c \in Clients DEF UIs
  <2>5. ui.client \in {NoClient, c} /\ \A d \in Clients : cmd[d].current => d = c
    BY <1>4 DEF DxInv, DxKnown
  <2>6. DxKnown(ui', cmd', conn')
    BY <1>2, <1>3, <2>1, <2>4, <2>5 DEF DxInv, DxKnown, DxAssumption
  <2> QED BY <1>3, <1>t, <2>1, <2>4, <2>6 DEF DxInv, DxTypes
<1>5. CASE ~cmd[c].current
  <2>1. c # ui.client /\ conn' = [conn EXCEPT ![c] = Dxc!Stopped(@)] /\ ui' = ui
    BY <1>5 DEF Dxc!Deliver, Dxc!StaleResult, DxInv, DxKnown
  <2>2. PICK x : x = Dxc!Stopped(conn[c])
    OBVIOUS
  <2>3. x \in Conns /\ x.stopped /\ Alike(x, conn[c])
    BY <1>t, <2>2, StoppedIs
  <2>4. conn' \in [Clients -> Conns] /\ conn'[c] = x /\ \A d \in Clients \ {c} : conn'[d] = conn[d]
    BY <1>t, <2>1, <2>2, <2>3
  <2>5. DxKnown(ui', cmd', conn')
    BY <1>2, <1>3, <1>5, <2>1, <2>3, <2>4 DEF DxInv, DxKnown, Alike
  <2> QED BY <1>3, <1>t, <2>1, <2>4, <2>5 DEF DxInv, DxTypes
<1> QED BY <1>4, <1>5

\* An object that nobody refers to can stand for a new client.
LEMMA DxRecycle ==
  ASSUME DxAssumption, DxInv(ui, cmd, conn), NEW c \in Clients, Dxc!Recycle(c) PROVE DxInv(ui, cmd, conn)'
<1>t. ui \in UIs /\ cmd \in [Clients -> Cmds] /\ conn \in [Clients -> Conns]
  BY DEF DxInv, DxTypes
<1>1. PICK x : x = Dxc!NewConn
  OBVIOUS
<1>2. x \in Conns /\ ~x.used /\ ~x.once /\ x.link = "none" /\ x.loop = "none"
  BY <1>1 DEF Dxc!NewConn, Conns
<1>3. conn' \in [Clients -> Conns] /\ conn'[c] = x /\ \A d \in Clients \ {c} : conn'[d] = conn[d]
  BY <1>1, <1>2, <1>t DEF Dxc!Recycle
<1>4. ui' = ui /\ cmd' = cmd /\ cmd[c].st = "none" /\ ui.client # c
  BY DEF Dxc!Recycle
<1>5. DxKnown(ui', cmd', conn')
  BY <1>2, <1>3, <1>4 DEF DxInv, DxKnown
<1> QED BY <1>3, <1>4, <1>5, <1>t DEF DxInv, DxTypes

\* The steps of a client: its command, its reader, and its reconnect loop.
LEMMA DxWorker ==
  ASSUME DxAssumption, DxInv(ui, cmd, conn), NEW c \in Clients, Dxc!Worker(c) \/ Dxc!LinkBreaks(c)
  PROVE  DxInv(ui, cmd, conn)'
<1>t. cmd[c] \in Cmds /\ conn[c] \in Conns /\ cmd \in [Clients -> Cmds] /\ conn \in [Clients -> Conns]
  BY DEF DxInv, DxTypes
<1>i. /\ conn[c].once => conn[c].used
      /\ ~conn[c].once => conn[c].link = "none" /\ conn[c].loop = "none"
      /\ cmd[c].st \in {"start", "dial"} => ~conn[c].once
      /\ cmd[c].st # "none" => conn[c].used
  BY DEF DxInv, DxKnown
<1>1. CASE Dxc!CmdStart(c)
  <2>1. PICK y : y = [cmd[c] EXCEPT !.st = IF conn[c].stopped THEN "sent" ELSE "dial"]
    OBVIOUS
  <2>2. y \in Cmds /\ y.st \in {"sent", "dial"} /\ y.current = cmd[c].current
    BY ONLY <1>t, <2>1 DEF Cmds
  <2>3. cmd' = [cmd EXCEPT ![c] = y] /\ conn' = conn /\ ui' = ui /\ cmd[c].st = "start"
    BY <1>1, <2>1 DEF Dxc!CmdStart, Dxc!OnlyConn
  <2>4. PICK x : x = conn[c]
    OBVIOUS
  <2>a. conn = [conn EXCEPT ![c] = x] /\ x \in Conns /\ x.used = conn[c].used /\ (conn[c].stopped => x.stopped)
        /\ (x.once => conn[c].used) /\ (~x.once => x.link = "none" /\ x.loop = "none") /\ ~x.once
    BY <1>i, <1>t, <2>3, <2>4
  <2>b. y.st = "none" <=> cmd[c].st = "none"
    BY <2>2, <2>3
  <2>5. DxInv(ui, cmd', conn)
    BY <2>2, <2>3, <2>a, <2>b, DxOne
  <2> QED BY <2>3, <2>5
<1>2. CASE Dxc!CmdDialed(c)
  <2>1. PICK ok \in BOOLEAN : /\ cmd' = [cmd EXCEPT ![c] = [@ EXCEPT !.st = "sent", !.ok = ok]]
                              /\ conn' = IF ok THEN [conn EXCEPT ![c] = Dxc!LinkedUp(@)] ELSE conn
                              /\ cmd[c].st = "dial" /\ ui' = ui
    BY <1>2, <1>t DEF Dxc!CmdDialed, Dxc!OnlyConn, Conns
  <2>2. PICK y : y = [cmd[c] EXCEPT !.st = "sent", !.ok = ok]
    OBVIOUS
  <2>3. y \in Cmds /\ y.st = "sent" /\ y.current = cmd[c].current
    BY ONLY <1>t, <2>2, ok \in BOOLEAN DEF Cmds
  <2>4. PICK x : x = IF ok THEN Dxc!LinkedUp(conn[c]) ELSE conn[c]
    OBVIOUS
  <2>5. /\ x \in Conns /\ x.used = conn[c].used /\ x.stopped = conn[c].stopped
        /\ ~x.once => x.link = "none" /\ x.loop = "none"
    <3>1. CASE ok
      <4>1. x = Dxc!LinkedUp(conn[c])
        BY <2>4, <3>1
      <4>2. x \in Conns /\ x.used = conn[c].used /\ x.stopped = conn[c].stopped /\ x.once
        BY ONLY <1>t, <4>1 DEF Dxc!LinkedUp, Dxc!Offered, Conns
      <4> QED BY <4>2
    <3>2. CASE ~ok
      BY <1>i, <1>t, <2>4, <3>2
    <3> QED BY <3>1, <3>2
  <2>6. cmd' = [cmd EXCEPT ![c] = y] /\ conn' = [conn EXCEPT ![c] = x]
    BY <1>t, <2>1, <2>2, <2>4
  <2>7. DxInv(ui, cmd', conn')
    <3>1. cmd[c].st = "dial"
      BY <2>1
    <3> QED BY <1>i, <2>3, <2>5, <2>6, <3>1, DxOne
  <2> QED BY <2>1, <2>7
<1>3. CASE Dxc!LinkBreaks(c)
  <2>1. PICK x : x = [conn[c] EXCEPT !.link = "broken"]
    OBVIOUS
  <2>2. /\ x \in Conns /\ x.used = conn[c].used /\ x.once = conn[c].once /\ x.stopped = conn[c].stopped
    BY ONLY <1>t, <2>1 DEF Conns
  <2>3. conn' = [conn EXCEPT ![c] = x] /\ cmd' = cmd /\ ui' = ui /\ conn[c].link = "up"
    BY <1>3, <2>1 DEF Dxc!LinkBreaks, Dxc!OnlyConn
  <2>4. DxInv(ui, cmd, conn')
    BY <1>i, <2>2, <2>3, DxConn
  <2> QED BY <2>3, <2>4
<1>4. CASE Dxc!ReaderEnds(c)
  <2>1. PICK x : x = Dxc!Lost(conn[c])
    OBVIOUS
  <2>2. /\ x \in Conns /\ x.used = conn[c].used /\ x.once = conn[c].once /\ x.stopped = conn[c].stopped
    BY ONLY <1>t, <2>1 DEF Conns, Dxc!Lost, Dxc!Offered
  <2>3. conn' = [conn EXCEPT ![c] = x] /\ cmd' = cmd /\ ui' = ui /\ conn[c].link = "broken"
    BY <1>4, <2>1 DEF Dxc!ReaderEnds, Dxc!OnlyConn
  <2>4. DxInv(ui, cmd, conn')
    BY <1>i, <2>2, <2>3, DxConn
  <2> QED BY <2>3, <2>4
<1>5. CASE Dxc!ReconnectLoop(c)
  <2>1. PICK x : /\ conn' = [conn EXCEPT ![c] = x]
                 /\ x \in Conns /\ x.used = conn[c].used /\ x.stopped = conn[c].stopped
                 /\ x.once = conn[c].once
    <3>1. conn[c].once
      BY <1>5, <1>i DEF Dxc!ReconnectLoop, Dxc!LoopStep
    <3>2. CASE \E l \in {"none", "wait", "dial"} : conn' = [conn EXCEPT ![c].loop = l]
      <4>1. PICK l \in {"none", "wait", "dial"} : conn' = [conn EXCEPT ![c].loop = l]
        BY <3>2
      <4>2. PICK x : x = [conn[c] EXCEPT !.loop = l]
        OBVIOUS
      <4>3. x \in Conns /\ x.used = conn[c].used /\ x.stopped = conn[c].stopped /\ x.once = conn[c].once
        BY ONLY <1>t, <4>2, l \in {"none", "wait", "dial"} DEF Conns
      <4> QED BY <4>1, <4>2, <4>3
    <3>3. CASE conn' = [conn EXCEPT ![c] = [Dxc!LinkedUp(@) EXCEPT !.loop = "leaving"]]
      <4>1. PICK x : x = [Dxc!LinkedUp(conn[c]) EXCEPT !.loop = "leaving"]
        OBVIOUS
      <4>2. x \in Conns /\ x.used = conn[c].used /\ x.stopped = conn[c].stopped /\ x.once
        BY ONLY <1>t, <4>1 DEF Conns, Dxc!LinkedUp, Dxc!Offered
      <4>3. x.once = conn[c].once
        BY <1>t, <3>1, <4>2 DEF Conns
      <4> QED BY <3>3, <4>1, <4>2, <4>3
    <3> QED BY <1>5, <3>2, <3>3 DEF Dxc!ReconnectLoop, Dxc!LoopStep
  <2>2. cmd' = cmd /\ ui' = ui /\ conn[c].once
    BY <1>5, <1>i DEF Dxc!ReconnectLoop, Dxc!OnlyConn, Dxc!LoopStep
  <2>3. DxInv(ui, cmd, conn')
    BY <2>1, <2>2, DxConn
  <2> QED BY <2>2, <2>3
<1> QED BY <1>1, <1>2, <1>3, <1>4, <1>5 DEF Dxc!Worker

\* The steps of the owner loop.
LEMMA DxLoop ==
  ASSUME DxAssumption, DxInv(ui, cmd, conn), Dxc!Tick \/ Dxc!SaveConfig \/ Dxc!InetResult \/ Dxc!StopReturns \/ Dxc!DelayPasses
  PROVE  DxInv(ui, cmd, conn)'
<1>0. Dxc!Now = States(ui, cmd, conn)
  BY DEF Dxc!Now, States
<1>1. CASE Dxc!Tick
  <2>1. PICK s \in Dxc!MaybeDXC(Dxc!Now, want) : Dxc!Becomes(s)
    BY <1>1 DEF Dxc!Tick
  <2>2. DxInv(s.ui, s.cmd, s.conn)
    BY <1>0, <2>1, DxMaybe
  <2> QED BY <2>1, <2>2 DEF Dxc!Becomes
<1>2. CASE Dxc!SaveConfig
  <2>1. PICK t : t = Dxc!TornDown(Dxc!Now)
    OBVIOUS
  <2>2. DxInv(t.ui, t.cmd, t.conn) /\ t = States(t.ui, t.cmd, t.conn)
    <3>1. DxInv(t.ui, t.cmd, t.conn)
      BY <1>0, <2>1, DxTorn
    <3>2. t = States(t.ui, t.cmd, t.conn)
      BY <2>1 DEF Dxc!TornDown, States
    <3> QED BY <3>1, <3>2
  <2>3. PICK w : w = want'
    OBVIOUS
  <2>4. PICK s \in Dxc!MaybeDXC(t, w) \cup {t} : Dxc!Becomes(s)
    BY <1>2, <2>1, <2>3 DEF Dxc!SaveConfig
  <2>5. DxInv(s.ui, s.cmd, s.conn)
    <3>1. CASE s = t
      BY <2>2, <3>1
    <3>2. CASE s \in Dxc!MaybeDXC(t, w)
      BY <2>2, <3>2, DxMaybe
    <3> QED BY <2>4, <3>1, <3>2
  <2> QED BY <2>4, <2>5 DEF Dxc!Becomes
<1>3. CASE Dxc!InetResult
  <2>1. CASE want.inet
    BY <1>3, <2>1 DEF Dxc!InetResult
  <2>2. CASE ~want.inet
    <3>1. PICK u, w : u = [ui EXCEPT !.timer = "zero", !.idx = 0] /\ w = want'
      OBVIOUS
    <3>2. PICK s \in Dxc!MaybeDXC(States(u, cmd, conn), w) : Dxc!Becomes(s)
      BY <1>3, <2>2, <3>1 DEF Dxc!InetResult, Dxc!Now, States
    <3>3. ui \in UIs /\ 0 \in 0..LastDelay
      BY DEF DxInv, DxTypes, DxAssumption
    <3>4. u \in UIs /\ u.client = ui.client /\ u.connecting = ui.connecting
      BY ONLY <3>1, <3>3 DEF UIs
    <3>5. DxInv(u, cmd, conn)
      BY <3>4 DEF DxInv, DxTypes, DxKnown
    <3>6. DxInv(s.ui, s.cmd, s.conn)
      BY <3>2, <3>5, DxMaybe
    <3> QED BY <3>2, <3>6 DEF Dxc!Becomes
  <2> QED BY <2>1, <2>2
<1>4. CASE Dxc!StopReturns
  BY <1>4 DEF Dxc!StopReturns
<1>5. CASE Dxc!DelayPasses
  <2>1. ui' = [ui EXCEPT !.timer = "due"] /\ ui \in UIs
    BY <1>5 DEF Dxc!DelayPasses, DxInv, DxTypes
  <2>2. ui' \in UIs /\ ui'.client = ui.client /\ ui'.connecting = ui.connecting
    BY ONLY <2>1 DEF UIs
  <2>3. DxInv(ui', cmd, conn)
    BY <2>2 DEF DxInv, DxTypes, DxKnown
  <2> QED BY <1>5, <2>3 DEF Dxc!DelayPasses
<1> QED BY <1>1, <1>2, <1>3, <1>4, <1>5

\* Every step of the cluster keeps the invariant.
LEMMA DxStep ==
  ASSUME DxAssumption, DxInv(ui, cmd, conn), [Dxc!Next]_(Dxc!vars) PROVE DxInv(ui, cmd, conn)'
<1>1. CASE UNCHANGED Dxc!vars
  BY <1>1 DEF Dxc!vars
<1> QED BY <1>1, DxLoop, DxDeliver, DxWorker, DxRecycle DEF Dxc!Next

\* It holds at the start.
LEMMA DxStart == ASSUME DxAssumption, Dxc!Init PROVE DxInv(ui, cmd, conn)
<1>1. ui \in UIs
  BY DEF Dxc!Init, Dxc!NoUI, UIs, DxAssumption
<1>2. PICK n, x : n = Dxc!NoCmd /\ x = Dxc!NewConn
  OBVIOUS
<1>3. n \in Cmds /\ n.st = "none" /\ ~n.current
  BY <1>2 DEF Dxc!NoCmd, Cmds
<1>4. x \in Conns /\ ~x.used /\ ~x.once /\ x.link = "none" /\ x.loop = "none"
  BY <1>2 DEF Dxc!NewConn, Conns
<1>5. cmd = [c \in Clients |-> n] /\ conn = [c \in Clients |-> x]
  BY <1>2 DEF Dxc!Init
<1> QED BY <1>1, <1>3, <1>4, <1>5 DEF DxInv, DxTypes, DxKnown

\* And it implies what is checked.
LEMMA DxSafe == ASSUME DxAssumption, DxInv(ui, cmd, conn) PROVE Dxc!NoOrphan /\ Dxc!OneConnection /\ Dxc!OneDial
<1>1. Dxc!NoOrphan
  BY DEF DxInv, DxKnown, Dxc!NoOrphan, Dxc!Alive
<1>2. Dxc!OneConnection
  BY DEF DxInv, DxKnown, Dxc!OneConnection, DxAssumption
<1>3. Dxc!OneDial
  BY DEF DxInv, DxKnown, Dxc!OneDial
<1> QED BY <1>1, <1>2, <1>3

-----------------------------------------------------------------------------
(* APRS. *)

\* NoPeer is no client.
ApAssumption == NoPeer \notin Peers

\* What a client, a beacon, the installed objects and the settings may be.
PeerStates == [st : {"free", "dial", "up", "wait", "refused", "ended"},
               stop : {"no", "asked", "done"}, kind : APRS!Services, book : Books]
Beacons == [on : BOOLEAN, book : Books, peer : Peers \cup {NoPeer}]
Owns == [peer : Peers \cup {NoPeer}, cache : BOOLEAN, pruner : BOOLEAN, behind : BOOLEAN,
         beacon : Beacons]
Orders == [on : BOOLEAN, service : APRS!Services, inet : BOOLEAN]

\* A client that runs, is not installed, and was never told to stop.
Stray(o, k, p) == k[p].st \notin {"free", "ended"} /\ o.peer # p /\ k[p].stop = "no"

\* No client is astray, a pruner has its cache, and a beacon is of the active logbook.
ApInv(o, k, b) ==
    /\ o \in Owns /\ k \in [Peers -> PeerStates] /\ b \in Books
    /\ \A p \in Peers : ~Stray(o, k, p)
    /\ o.pruner => o.cache
    /\ o.beacon.on => o.beacon.book = b

\* The record that the operators of the owner loop work on.
Has(o, k) == [own |-> o, peer |-> k]

\* The peer a step of its own leaves behind.
LEMMA ToldIs == ASSUME NEW a \in PeerStates PROVE APRS!ToldToStop(a) \in PeerStates /\ APRS!ToldToStop(a).stop = "done"
  BY DEF APRS!ToldToStop, PeerStates

\* No beacon is a beacon that is off.
LEMMA NoBeaconIs == ASSUME NEW b \in Books PROVE APRS!NoBeacon \in Beacons /\ ~APRS!NoBeacon.on
<1>1. PICK c : c = CHOOSE x \in Books : TRUE
  OBVIOUS
<1>2. c \in Books
  BY <1>1
<1>3. APRS!NoBeacon = [on |-> FALSE, book |-> c, peer |-> NoPeer]
  BY <1>1 DEF APRS!NoBeacon
<1> QED BY <1>2, <1>3 DEF Beacons

\* Without beacon and pruner the installed client and its cache stay.
LEMMA QuietIs ==
  ASSUME NEW o \in Owns, NEW b \in Books, NEW q, q = APRS!StopBeacon(APRS!StopPruner(o))
  PROVE  q \in Owns /\ q.peer = o.peer /\ ~q.pruner /\ ~q.beacon.on /\ q.cache = o.cache
<1>1. PICK n : n = APRS!NoBeacon
  OBVIOUS
<1>2. n \in Beacons /\ ~n.on
  BY <1>1, NoBeaconIs
<1>3. q = [[o EXCEPT !.pruner = FALSE] EXCEPT !.beacon = n]
  BY <1>1 DEF APRS!StopBeacon, APRS!StopPruner
<1>4. q.beacon = n /\ q.peer = o.peer /\ ~q.pruner /\ q.cache = o.cache /\ q \in Owns
  BY ONLY <1>2, <1>3, o \in Owns DEF Owns
<1> QED BY <1>2, <1>4

\* Stopping APRS leaves no client astray: the installed one has been told.
LEMMA StoppedKeeps ==
  ASSUME ApAssumption, NEW o, NEW k, NEW b, ApInv(o, k, b), NEW s, s = APRS!StopAPRS(Has(o, k))
  PROVE  ApInv(s.own, s.peer, b)
<1>t. o \in Owns /\ k \in [Peers -> PeerStates] /\ b \in Books /\ o.peer \in Peers \cup {NoPeer}
  BY DEF ApInv, Owns
<1>1. PICK q : q = APRS!StopBeacon(APRS!StopPruner(o))
  OBVIOUS
<1>2. q \in Owns /\ q.peer = o.peer /\ ~q.pruner /\ ~q.beacon.on
  BY <1>1, <1>t, QuietIs
<1>3. s.own = [q EXCEPT !.peer = NoPeer, !.cache = FALSE, !.behind = FALSE]
  BY <1>1 DEF APRS!StopAPRS, Has
<1>4. s.peer = IF q.peer = NoPeer THEN k ELSE [k EXCEPT ![q.peer] = APRS!ToldToStop(@)]
  BY <1>1 DEF APRS!StopAPRS, Has
<1>5. s.own \in Owns /\ s.own.peer = NoPeer /\ ~s.own.pruner /\ s.own.beacon = q.beacon
  BY ONLY <1>2, <1>3 DEF Owns
<1>6. \A p \in Peers : s.peer[p] \in PeerStates /\ (s.peer[p] = k[p] \/ s.peer[p].stop = "done")
                       /\ (p = o.peer => s.peer[p].stop = "done")
  <2> TAKE p \in Peers
  <2>1. CASE p = o.peer
    <3>1. s.peer[p] = APRS!ToldToStop(k[p]) /\ k[p] \in PeerStates
      BY <1>2, <1>4, <1>t, <2>1 DEF ApAssumption
    <3> QED BY <3>1, ToldIs
  <2>2. CASE p # o.peer
    BY <1>2, <1>4, <1>t, <2>2
  <2> QED BY <2>1, <2>2
<1>7. s.peer \in [Peers -> PeerStates]
  BY <1>4, <1>6, <1>t
<1> QED BY <1>2, <1>5, <1>6, <1>7 DEF ApInv, Stray, ApAssumption

\* Starting it replaces the installed client, which is told to stop.
LEMMA StartKeeps ==
  ASSUME ApAssumption, ApInv(own, peer, book), NEW o, NEW k, o = own, k = peer,
         NEW full \in BOOLEAN, NEW set \in Orders, NEW s \in APRS!StartAPRS(Has(o, k), full, set)
  PROVE  ApInv(s.own, s.peer, book)
<1>t. o \in Owns /\ k \in [Peers -> PeerStates] /\ book \in Books /\ o.peer \in Peers \cup {NoPeer} /\ o.beacon \in Beacons
  BY DEF ApInv, Owns
<1>1. CASE ~set.inet
  BY <1>1 DEF APRS!StartAPRS, Has
<1>2. CASE set.inet /\ s \in APRS!EarlyReturns(Has(o, k), set.service)
  <2>1. PICK c \in {o.cache, TRUE} : s = [Has(o, k) EXCEPT !.own.behind = TRUE, !.own.cache = c]
    BY <1>2 DEF APRS!EarlyReturns, Has
  <2>2. PICK t : t = TRUE
    OBVIOUS
  <2>3. s.own = [o EXCEPT !.behind = t, !.cache = c] /\ s.peer = k
    BY <2>1, <2>2 DEF Has
  <2>4. c \in BOOLEAN /\ t \in BOOLEAN /\ (o.cache => c)
    BY <1>t, <2>2 DEF Owns
  <2>5. /\ s.own \in Owns /\ s.own.peer = o.peer /\ s.own.beacon = o.beacon
        /\ s.own.pruner = o.pruner /\ s.own.cache = c
    BY ONLY <1>t, <2>3, <2>4 DEF Owns
  <2> QED BY <1>t, <2>3, <2>4, <2>5 DEF ApInv, Stray
<1>3. CASE set.inet /\ s \notin APRS!EarlyReturns(Has(o, k), set.service)
  <2>1. PICK p \in Peers : s = [own |-> [peer |-> p, cache |-> TRUE, pruner |-> TRUE, behind |-> FALSE,
                     beacon |-> IF full THEN [on |-> TRUE, book |-> book, peer |-> p] ELSE o.beacon],
           peer |-> [APRS!Replaced(Has(o, k), set.service) EXCEPT ![p] =
                        [st |-> "dial", stop |-> "no", kind |-> set.service, book |-> book]]]
    BY <1>3 DEF APRS!StartAPRS, Has
  <2>2. PICK n, r, e, t : /\ n = IF full THEN [on |-> TRUE, book |-> book, peer |-> p] ELSE o.beacon
                       /\ r = APRS!Replaced(Has(o, k), set.service)
                       /\ e = [st |-> "dial", stop |-> "no", kind |-> set.service, book |-> book]
                       /\ t = TRUE
    OBVIOUS
  <2>f. PICK f : f = FALSE
    OBVIOUS
  <2>3. n \in Beacons /\ (n.on => n.book = book)
    <3>1. CASE full
      <4>1. n = [on |-> t, book |-> book, peer |-> p] /\ t \in BOOLEAN
        BY <2>2, <3>1
      <4> QED BY ONLY <4>1, <1>t, p \in Peers DEF Beacons
    <3>2. CASE ~full
      BY <1>t, <2>2, <3>2 DEF ApInv
    <3> QED BY <3>1, <3>2
  <2>4. /\ s.own = [peer |-> p, cache |-> t, pruner |-> t, behind |-> f, beacon |-> n]
        /\ s.peer = [r EXCEPT ![p] = e]
    BY <2>1, <2>2, <2>f
  <2>5. s.own \in Owns /\ s.own.peer = p /\ s.own.cache /\ s.own.beacon = n
    <3>1. t \in BOOLEAN /\ t /\ f \in BOOLEAN
      BY <2>2, <2>f
    <3> QED BY ONLY <2>3, <2>4, <3>1, p \in Peers DEF Owns
  <2>6. e \in PeerStates
    <3>1. set.service \in APRS!Services
      BY DEF Orders
    <3> QED BY ONLY <2>2, <3>1, <1>t DEF PeerStates
  <2>7. /\ r \in [Peers -> PeerStates]
        /\ \A q \in Peers : q # o.peer => r[q] = k[q]
        /\ \A q \in Peers : q = o.peer => r[q].stop # "no"
    <3>1. CASE o.peer = NoPeer
      BY <1>t, <2>2, <3>1 DEF APRS!Replaced, Has, ApAssumption
    <3>2. CASE o.peer # NoPeer
      <4>1. PICK x : x = IF set.service = "kiss" THEN APRS!ToldToStop(k[o.peer]) ELSE [k[o.peer] EXCEPT !.stop = "asked"]
        OBVIOUS
      <4>2. k[o.peer] \in PeerStates
        BY <1>t, <3>2
      <4>3. x \in PeerStates /\ x.stop # "no"
        BY ONLY <4>1, <4>2 DEF PeerStates, APRS!ToldToStop
      <4>4. r = [k EXCEPT ![o.peer] = x]
        BY <2>2, <3>2, <4>1 DEF APRS!Replaced, Has
      <4> QED BY <1>t, <3>2, <4>3, <4>4
    <3> QED BY <3>1, <3>2
  <2>8. s.peer \in [Peers -> PeerStates] /\ \A q \in Peers \ {p} : s.peer[q] = r[q]
    BY <2>4, <2>6, <2>7
  <2>9. \A q \in Peers : ~Stray(s.own, s.peer, q)
    BY <2>5, <2>7, <2>8 DEF ApInv, Stray
  <2> QED BY <1>t, <2>3, <2>5, <2>8, <2>9 DEF ApInv
<1> QED BY <1>1, <1>2, <1>3

\* So a restart does, whichever of the two it comes to.
LEMMA RestartKeeps ==
  ASSUME ApAssumption, ApInv(own, peer, book), NEW set \in Orders, NEW s \in APRS!MaybeRestartAPRS(APRS!Held, set)
  PROVE  ApInv(s.own, s.peer, book)
<1>1. PICK o, k, f : o = own /\ k = peer /\ f = (book \in tx)
  OBVIOUS
<1>2. APRS!Held = Has(o, k) /\ f \in BOOLEAN
  BY <1>1 DEF APRS!Held, Has
<1>3. CASE ~set.on
  <2>1. s = APRS!StopAPRS(Has(o, k))
    BY <1>2, <1>3 DEF APRS!MaybeRestartAPRS
  <2> QED BY <1>1, <2>1, StoppedKeeps
<1>4. CASE set.on
  <2>1. s \in APRS!StartAPRS(Has(o, k), f, set)
    BY <1>1, <1>2, <1>4 DEF APRS!MaybeRestartAPRS
  <2> QED BY <1>1, <1>2, <2>1, StartKeeps
<1> QED BY <1>3, <1>4

\* The invariant, with the settings asked for.
APRSInv == ApInv(own, peer, book) /\ asked \in Orders

\* A client that changes by itself never becomes astray.
LEMMA PeerKeeps ==
  ASSUME ApAssumption, APRSInv, NEW p \in Peers, NEW x \in PeerStates, APRS!OnlyPeer(p, x),
         x.stop = peer[p].stop \/ x.stop # "no" \/ x.st = "free", peer[p].st \in {"free", "ended"} => x.st \in {"free", "ended"} \/ x.stop # "no"
  PROVE  APRSInv'
<1>1. peer' = [peer EXCEPT ![p] = x] /\ own' = own /\ book' = book /\ asked' = asked
  BY DEF APRS!OnlyPeer
<1>2. peer \in [Peers -> PeerStates]
  BY DEF APRSInv, ApInv
<1>3. peer' \in [Peers -> PeerStates] /\ peer'[p] = x /\ \A q \in Peers \ {p} : peer'[q] = peer[q]
  BY <1>1, <1>2
<1>4. \A q \in Peers : ~Stray(own', peer', q)
  BY <1>1, <1>3 DEF APRSInv, ApInv, Stray
<1> QED BY <1>1, <1>3, <1>4 DEF APRSInv, ApInv

\* The steps of a client.
LEMMA APRSPeerStep ==
  ASSUME ApAssumption, APRSInv, NEW p \in Peers, APRS!PeerStep(p) \/ APRS!BackgroundStop(p) \/ APRS!LosesLink(p) \/ APRS!Reuse(p)
  PROVE  APRSInv'
<1>t. peer[p] \in PeerStates
  BY DEF APRSInv, ApInv
<1>1. CASE APRS!Reuse(p)
  <2>1. APRS!FreePeer \in PeerStates /\ APRS!FreePeer.st = "free"
    <3>1. PICK c : c = CHOOSE x \in Books : TRUE
      OBVIOUS
    <3>2. c \in Books
      BY <3>1 DEF APRSInv, ApInv
    <3>3. APRS!FreePeer = [st |-> "free", stop |-> "no", kind |-> "kiss", book |-> c]
      BY <3>1 DEF APRS!FreePeer
    <3> QED BY ONLY <3>2, <3>3 DEF PeerStates, APRS!Services
  <2>2. PICK x : x = APRS!FreePeer
    OBVIOUS
  <2> QED BY <1>1, <2>1, <2>2, PeerKeeps DEF APRS!Reuse
<1>2. CASE APRS!BackgroundStop(p)
  <2>1. PICK x : x = APRS!ToldToStop(peer[p])
    OBVIOUS
  <2>2. x \in PeerStates /\ x.stop = "done"
    BY <1>t, <2>1, ToldIs
  <2> QED BY <1>2, <2>1, <2>2, PeerKeeps DEF APRS!BackgroundStop
<1>3. CASE APRS!PeerStep(p) \/ APRS!LosesLink(p)
  <2>1. PICK st \in {"up", "wait", "refused", "ended", "dial"} : APRS!OnlyPeer(p, [peer[p] EXCEPT !.st = st])
    BY <1>3 DEF APRS!PeerStep, APRS!LosesLink, APRS!Connects, APRS!Redials, APRS!LoopEnds
  <2>2. PICK x : x = [peer[p] EXCEPT !.st = st]
    OBVIOUS
  <2>3. x \in PeerStates /\ x.stop = peer[p].stop
    BY ONLY <1>t, <2>2, st \in {"up", "wait", "refused", "ended", "dial"} DEF PeerStates
  <2>4. peer[p].st \notin {"free", "ended"}
    BY <1>3 DEF APRS!PeerStep, APRS!LosesLink, APRS!Connects, APRS!Redials, APRS!LoopEnds
  <2> QED BY <2>1, <2>2, <2>3, <2>4, PeerKeeps
<1> QED BY <1>1, <1>2, <1>3

\* Every step of APRS keeps the invariant.
LEMMA APRSStep == ASSUME ApAssumption, APRSInv, [APRS!APRSNext]_(APRS!aprsVars) PROVE APRSInv'
<1>t. ApInv(own, peer, book) /\ asked \in Orders
  BY DEF APRSInv
<1>0. CASE UNCHANGED APRS!aprsVars
  BY <1>0 DEF APRSInv, APRS!aprsVars
<1>1. CASE APRS!RunPendingAPRS
  <2>1. CASE restart.token
    <3>1. PICK s \in APRS!MaybeRestartAPRS(APRS!Held, asked) : APRS!Becoming(s)
      BY <1>1, <2>1 DEF APRS!RunPendingAPRS
    <3>2. ApInv(s.own, s.peer, book)
      BY <1>t, <3>1, RestartKeeps
    <3> QED BY <1>1, <1>t, <3>1, <3>2 DEF APRS!RunPendingAPRS, APRS!Becoming, APRSInv
  <2>2. CASE ~restart.token
    BY <1>1, <1>t, <2>2 DEF APRS!RunPendingAPRS, APRSInv
  <2> QED BY <2>1, <2>2
<1>2. CASE APRS!SaveIntegrations
  <2>0. PICK set \in Orders : /\ \E s \in APRS!MaybeRestartAPRS(APRS!Held, set) : APRS!Becoming(s)
                             /\ asked' = set /\ book' = book
    BY <1>2, <1>t DEF APRS!SaveIntegrations, Orders
  <2>1. PICK s \in APRS!MaybeRestartAPRS(APRS!Held, set) : APRS!Becoming(s)
    BY <2>0
  <2>2. ApInv(s.own, s.peer, book)
    BY <1>t, <2>1, RestartKeeps
  <2> QED BY <2>0, <2>1, <2>2 DEF APRS!Becoming, APRSInv
<1>3. CASE APRS!InetChanges
  <2>1. PICK set : set = [asked EXCEPT !.inet = ~@]
    OBVIOUS
  <2>2. set \in Orders
    BY ONLY <1>t, <2>1 DEF Orders
  <2>3. asked' = set /\ book' = book
    BY <1>3, <2>1 DEF APRS!InetChanges
  <2>4. CASE asked.inet
    BY <1>3, <1>t, <2>2, <2>3, <2>4 DEF APRS!InetChanges, APRSInv
  <2>5. CASE ~asked.inet
    <3>1. PICK s \in APRS!MaybeRestartAPRS(APRS!Held, set) : APRS!Becoming(s)
      BY <1>3, <2>3, <2>5 DEF APRS!InetChanges
    <3>2. ApInv(s.own, s.peer, book)
      BY <1>t, <2>2, <3>1, RestartKeeps
    <3> QED BY <2>2, <2>3, <3>1, <3>2 DEF APRS!Becoming, APRSInv
  <2> QED BY <2>4, <2>5
<1>4. CASE APRS!FixAcquired
  <2>1. PICK s \in APRS!MaybeRestartAPRS(APRS!Held, asked) : APRS!Becoming(s)
    BY <1>4 DEF APRS!FixAcquired
  <2>2. ApInv(s.own, s.peer, book)
    BY <1>t, <2>1, RestartKeeps
  <2> QED BY <1>4, <1>t, <2>1, <2>2 DEF APRS!FixAcquired, APRS!Becoming, APRSInv
<1>5. ASSUME NEW b \in Books, APRS!SwitchLogbook(b) PROVE APRSInv'
  <2>1. PICK q : q = APRS!StopBeacon(APRS!StopPruner(own))
    OBVIOUS
  <2>2. q \in Owns /\ q.peer = own.peer /\ ~q.pruner /\ ~q.beacon.on
    BY <1>t, <2>1, QuietIs DEF ApInv
  <2>3. own' = q /\ peer' = peer /\ book' = b /\ asked' = asked
    BY <1>5, <2>1 DEF APRS!SwitchLogbook
  <2> QED BY <1>t, <2>2, <2>3 DEF APRSInv, ApInv, Stray
<1>6. ASSUME NEW b \in Books, APRS!SaveLogbook(b) PROVE APRSInv'
  <2>1. CASE own' = own
    BY <1>6, <1>t, <2>1 DEF APRS!SaveLogbook, APRSInv
  <2>2. CASE own' = [own EXCEPT !.behind = @ \/ b = book]
    <3>1. PICK v \in BOOLEAN : v = (own.behind \/ b = book)
      OBVIOUS
    <3>2. own' = [own EXCEPT !.behind = v]
      BY <2>2, <3>1
    <3>3. own \in Owns
      BY <1>t DEF ApInv
    <3>4. /\ own' \in Owns /\ own'.peer = own.peer /\ own'.beacon = own.beacon
          /\ own'.pruner = own.pruner /\ own'.cache = own.cache
      BY ONLY <3>2, <3>3, v \in BOOLEAN DEF Owns
    <3>5. UNCHANGED <<asked, book, peer>>
      BY <1>6 DEF APRS!SaveLogbook
    <3> QED BY <1>t, <3>4, <3>5 DEF APRSInv, ApInv, Stray
  <2> QED BY <1>6, <2>1, <2>2, Zenon DEF APRS!SaveLogbook
<1>7. CASE APRS!TimerFires \/ APRS!BeaconSends \/ APRS!StationSynced
  BY <1>7, <1>t DEF APRS!TimerFires, APRS!BeaconSends, APRS!StationSynced, APRSInv
<1> QED BY <1>0, <1>1, <1>2, <1>3, <1>4, <1>5, <1>6, <1>7, APRSPeerStep DEF APRS!APRSNext

\* It holds at the start.
LEMMA APRSStart == ASSUME ApAssumption, APRS!APRSInit PROVE APRSInv
<1>1. asked \in Orders /\ book \in Books
  BY DEF APRS!APRSInit, Orders
<1>2. PICK n, f, e : n = APRS!NoBeacon /\ f = FALSE /\ e = APRS!FreePeer
  OBVIOUS
<1>3. n \in Beacons /\ ~n.on
  BY <1>1, <1>2, NoBeaconIs
<1>4. own = [peer |-> NoPeer, cache |-> f, pruner |-> f, behind |-> f, beacon |-> n] /\ f \in BOOLEAN /\ ~f
  BY <1>2 DEF APRS!APRSInit
<1>5. own \in Owns /\ own.beacon = n /\ ~own.pruner
  BY ONLY <1>3, <1>4 DEF Owns
<1>6. e \in PeerStates /\ e.st = "free"
  <2>1. PICK c : c = CHOOSE x \in Books : TRUE
    OBVIOUS
  <2>2. c \in Books
    BY <1>1, <2>1
  <2>3. e = [st |-> "free", stop |-> "no", kind |-> "kiss", book |-> c]
    BY <1>2, <2>1 DEF APRS!FreePeer
  <2> QED BY ONLY <2>2, <2>3 DEF PeerStates, APRS!Services
<1>7. peer = [p \in Peers |-> e]
  BY <1>2 DEF APRS!APRSInit
<1> QED BY <1>1, <1>3, <1>5, <1>6, <1>7 DEF APRSInv, ApInv, Stray

\* And it implies what is checked.
LEMMA APRSInvSafe == ASSUME APRSInv PROVE APRS!NoStrayClient /\ APRS!PrunerHasCache /\ APRS!BeaconIsOwn
<1>1. APRS!NoStrayClient
  BY DEF APRSInv, ApInv, Stray, APRS!NoStrayClient, APRS!Ended
<1>2. own.pruner => own.cache
  BY DEF APRSInv, ApInv
<1>3. own.beacon.on => own.beacon.book = book
  BY DEF APRSInv, ApInv
<1>4. APRS!PrunerHasCache
  BY <1>2 DEF APRS!PrunerHasCache
<1>5. APRS!BeaconIsOwn
  BY <1>3 DEF APRS!BeaconIsOwn
<1> QED BY <1>1, <1>4, <1>5

-----------------------------------------------------------------------------
(* The rig and the rotator. *)

\* A device and what is known of its connection, over the clients of an instance.
Linked(c) == [client : c, connected : BOOLEAN, by : c, polling : BOOLEAN, age : Int]

\* Connected is only what the installed client's own answer says.
Current(d) == d.connected => d.by = d.client

DeviceInv(c) ==
    /\ NoRadio \in c /\ dev \in [Rig!Devices -> Linked(c)]
    /\ \A d \in Rig!Devices : Current(dev[d])

\* The ways in which a step of the owner loop changes a device: a client is
\* installed, a poll starts or ages, its flag is cleared, and an own answer
\* disconnects or connects.
Moved(d, e, c) ==
    \/ \E r \in c : e = [d EXCEPT !.client = r, !.connected = FALSE, !.by = NoRadio]
    \/ e = [d EXCEPT !.polling = TRUE, !.age = 0]
    \/ e = [d EXCEPT !.age = d.age + 1]
    \/ e = [d EXCEPT !.polling = FALSE]
    \/ e = [[d EXCEPT !.polling = FALSE] EXCEPT !.connected = FALSE, !.by = NoRadio]
    \/ \E r \in c : d.client = r /\ e = [[d EXCEPT !.polling = FALSE] EXCEPT !.connected = TRUE, !.by = r]

\* None of them leaves a device connected by another client than its own.
LEMMA MovedIsCurrent ==
  ASSUME NEW c, NoRadio \in c, NEW d \in Linked(c), Current(d), NEW e, Moved(d, e, c)
  PROVE  e \in Linked(c) /\ Current(e)
<1>1. PICK f, t, n, z, a, u : /\ f = FALSE /\ t = TRUE /\ n = NoRadio /\ z = 0 /\ a = d.age + 1
                              /\ u = [d EXCEPT !.polling = f]
  OBVIOUS
<1>2. f \in BOOLEAN /\ ~f /\ t \in BOOLEAN /\ n \in c
  BY <1>1
<1>3. z \in Int /\ a \in Int
  BY <1>1 DEF Linked
<1>4. u \in Linked(c) /\ u.connected = d.connected /\ u.by = d.by /\ u.client = d.client
  BY ONLY <1>1, <1>2, d \in Linked(c) DEF Linked
<1>5. ASSUME NEW r \in c, e = [d EXCEPT !.client = r, !.connected = f, !.by = n]
      PROVE  e \in Linked(c) /\ ~e.connected
  BY ONLY <1>2, <1>5, d \in Linked(c) DEF Linked
<1>6. ASSUME e = [d EXCEPT !.polling = t, !.age = z] \/ e = [d EXCEPT !.age = a]
      PROVE  e \in Linked(c) /\ e.connected = d.connected /\ e.by = d.by /\ e.client = d.client
  BY ONLY <1>2, <1>3, <1>6, d \in Linked(c) DEF Linked
<1>7. ASSUME e = [u EXCEPT !.connected = f, !.by = n]
      PROVE  e \in Linked(c) /\ ~e.connected
  BY ONLY <1>2, <1>4, <1>7 DEF Linked
<1>8. ASSUME NEW r \in c, e = [u EXCEPT !.connected = t, !.by = r]
      PROVE  e \in Linked(c) /\ e.by = r /\ e.client = u.client
  BY ONLY <1>2, <1>4, <1>8 DEF Linked
<1>9. \/ \E r \in c : e = [d EXCEPT !.client = r, !.connected = f, !.by = n]
      \/ e = [d EXCEPT !.polling = t, !.age = z] \/ e = [d EXCEPT !.age = a]
      \/ e = u \/ e = [u EXCEPT !.connected = f, !.by = n]
      \/ \E r \in c : d.client = r /\ e = [u EXCEPT !.connected = t, !.by = r]
  BY <1>1 DEF Moved
<1>10. CASE \E r \in c : e = [d EXCEPT !.client = r, !.connected = f, !.by = n]
  BY <1>5, <1>10 DEF Current
<1>11. CASE e = [d EXCEPT !.polling = t, !.age = z] \/ e = [d EXCEPT !.age = a]
  BY <1>6, <1>11 DEF Current
<1>12. CASE e = u
  BY <1>4, <1>12 DEF Current
<1>13. CASE e = [u EXCEPT !.connected = f, !.by = n]
  BY <1>7, <1>13 DEF Current
<1>14. CASE \E r \in c : d.client = r /\ e = [u EXCEPT !.connected = t, !.by = r]
  BY <1>4, <1>8, <1>14 DEF Current
<1> QED BY <1>9, <1>10, <1>11, <1>12, <1>13, <1>14

\* So a step that moves one device keeps all of them current.
LEMMA DeviceMoves ==
  ASSUME NEW c, DeviceInv(c), NEW d \in Rig!Devices, NEW e, Moved(dev[d], e, c),
         dev' = [dev EXCEPT ![d] = e]
  PROVE  DeviceInv(c)'
<1>1. dev[d] \in Linked(c) /\ Current(dev[d])
  BY DEF DeviceInv
<1>2. e \in Linked(c) /\ Current(e)
  BY <1>1, MovedIsCurrent DEF DeviceInv
<1>3. dev' \in [Rig!Devices -> Linked(c)] /\ dev'[d] = e /\ \A g \in Rig!Devices \ {d} : dev'[g] = dev[g]
  BY <1>2 DEF DeviceInv
<1>4. \A g \in Rig!Devices : Current(dev'[g])
  BY <1>2, <1>3 DEF DeviceInv
<1> QED BY <1>3, <1>4 DEF DeviceInv

\* The rig alone: every step of it moves a device so.
LEMMA RigStep ==
  ASSUME NEW c, c = Rig!Radios \cup {NoRadio}, DeviceInv(c), [Rig!RigNext]_(Rig!rigVars)
  PROVE  DeviceInv(c)'
<1>0. CASE UNCHANGED dev
  BY <1>0 DEF DeviceInv, Current
<1>d. Rig!Devices = Rig!Devices /\ "rig" \in Rig!Devices
  BY DEF Rig!Devices
<1>1. ASSUME NEW d \in Rig!Devices, Rig!Refresh(d) PROVE DeviceInv(c)'
  <2>1. PICK r \in c : dev' = [dev EXCEPT ![d] = [dev[d] EXCEPT !.client = r, !.connected = FALSE, !.by = NoRadio]]
    BY <1>1 DEF Rig!Refresh, Rig!Made, Rig!Radios
  <2>2. PICK e : e = [dev[d] EXCEPT !.client = r, !.connected = FALSE, !.by = NoRadio]
    OBVIOUS
  <2>3. Moved(dev[d], e, c)
    BY <2>2 DEF Moved
  <2> QED BY <1>d, <2>1, <2>2, <2>3, DeviceMoves
<1>2. CASE Rig!PollRig \/ Rig!PollAges
  <2>1. PICK e : Moved(dev["rig"], e, c) /\ dev' = [dev EXCEPT !["rig"] = e]
    BY <1>2 DEF Rig!PollRig, Rig!PollAges, Moved
  <2> QED BY <1>d, <2>1, DeviceMoves
<1>3. ASSUME NEW d \in Rig!Devices, NEW r \in Rig!Radios, Rig!ApplyPoll(d, r) PROVE DeviceInv(c)'
  <2>1. r \in c
    OBVIOUS
  <2>2. PICK e : Moved(dev[d], e, c) /\ dev' = [dev EXCEPT ![d] = e]
    BY <1>3, <2>1 DEF Rig!ApplyPoll, Rig!Unflagged, Rig!IsOwn, Moved
  <2> QED BY <1>d, <2>2, DeviceMoves
<1>4. CASE Rig!PollRotor \/ (\E r \in Rig!Radios : Rig!RadioComesOrGoes(r))
           \/ (\E f \in Rig!Facts : Rig!FetchRuns(f) \/ \E r \in Rig!Radios : Rig!FetchDone(f, r))
  BY <1>0, <1>4 DEF Rig!PollRotor, Rig!RadioComesOrGoes, Rig!FetchRuns, Rig!FetchDone
<1>5. CASE UNCHANGED Rig!rigVars
  BY <1>0, <1>5 DEF Rig!rigVars
<1> QED BY <1>1, <1>2, <1>3, <1>4, <1>5 DEF Rig!RigNext

\* And the rotator alone.
LEMMA RotorStep ==
  ASSUME NEW c, c = Rotor!Radios \cup {NoRadio}, DeviceInv(c), [Rotor!RigNext]_(Rotor!rigVars)
  PROVE  DeviceInv(c)'
<1>0. CASE UNCHANGED dev
  BY <1>0 DEF DeviceInv, Current
<1>d. Rotor!Devices = Rig!Devices /\ "rig" \in Rig!Devices
  BY DEF Rig!Devices, Rotor!Devices
<1>1. ASSUME NEW d \in Rotor!Devices, Rotor!Refresh(d) PROVE DeviceInv(c)'
  <2>1. PICK r \in c : dev' = [dev EXCEPT ![d] = [dev[d] EXCEPT !.client = r, !.connected = FALSE, !.by = NoRadio]]
    BY <1>1 DEF Rotor!Refresh, Rotor!Made, Rotor!Radios
  <2>2. PICK e : e = [dev[d] EXCEPT !.client = r, !.connected = FALSE, !.by = NoRadio]
    OBVIOUS
  <2>3. Moved(dev[d], e, c)
    BY <2>2 DEF Moved
  <2> QED BY <1>d, <2>1, <2>2, <2>3, DeviceMoves
<1>2. CASE Rotor!PollRig \/ Rotor!PollAges
  <2>1. PICK e : Moved(dev["rig"], e, c) /\ dev' = [dev EXCEPT !["rig"] = e]
    BY <1>2 DEF Rotor!PollRig, Rotor!PollAges, Moved
  <2> QED BY <1>d, <2>1, DeviceMoves
<1>3. ASSUME NEW d \in Rotor!Devices, NEW r \in Rotor!Radios, Rotor!ApplyPoll(d, r) PROVE DeviceInv(c)'
  <2>1. r \in c
    OBVIOUS
  <2>2. PICK e : Moved(dev[d], e, c) /\ dev' = [dev EXCEPT ![d] = e]
    BY <1>3, <2>1 DEF Rotor!ApplyPoll, Rotor!Unflagged, Rotor!IsOwn, Moved
  <2> QED BY <1>d, <2>2, DeviceMoves
<1>4. CASE Rotor!PollRotor \/ (\E r \in Rotor!Radios : Rotor!RadioComesOrGoes(r))
           \/ (\E f \in Rotor!Facts : Rotor!FetchRuns(f) \/ \E r \in Rotor!Radios : Rotor!FetchDone(f, r))
  BY <1>0, <1>4 DEF Rotor!PollRotor, Rotor!RadioComesOrGoes, Rotor!FetchRuns, Rotor!FetchDone
<1>5. CASE UNCHANGED Rotor!rigVars
  BY <1>0, <1>5 DEF Rotor!rigVars
<1> QED BY <1>1, <1>2, <1>3, <1>4, <1>5 DEF Rotor!RigNext

\* A component that starts has no client, and nothing is connected.
LEMMA DeviceStart ==
  ASSUME NEW c, NoRadio \in c, NEW x, x = Rig!NoDevice, dev = [d \in Rig!Devices |-> x]
  PROVE  DeviceInv(c)
<1>1. PICK f, n, z : f = FALSE /\ n = NoRadio /\ z = 0
  OBVIOUS
<1>2. f \in BOOLEAN /\ ~f /\ n \in c
  BY <1>1
<1>3. z \in Int
  BY <1>1
<1>4. x = [client |-> n, connected |-> f, by |-> n, polling |-> f, age |-> z]
  BY <1>1 DEF Rig!NoDevice
<1>5. x \in Linked(c) /\ ~x.connected
  BY ONLY <1>2, <1>3, <1>4 DEF Linked
<1> QED BY <1>5 DEF DeviceInv, Current

-----------------------------------------------------------------------------
(* The automatic tune. *)

\* NoTune is no command.
TuneAssumption == NoTune \notin Tunes

\* What a tune command may be.
TuneStates == [st : {"none", "issued", "started", "tuned", "done"}, pane : Line!Panes, cancelled : BOOLEAN]

\* The cancel function that a pane keeps is of a command of its own that has started,
\* has not ended, and has not been cancelled.
TuneInv ==
    /\ tune \in [Tunes -> TuneStates]
    /\ cancel \in [Line!Panes -> Tunes \cup {NoTune}]
    /\ \A p \in Line!Panes : cancel[p] # NoTune =>
          /\ tune[cancel[p]].st \in {"started", "tuned"}
          /\ tune[cancel[p]].pane = p /\ ~tune[cancel[p]].cancelled
    /\ \A t \in Tunes : tune[t].st = "issued" => ~tune[t].cancelled

\* A command of another pane than the one whose field is emptied or set keeps its own.
LEMMA TuneOther ==
  ASSUME TuneAssumption, TuneInv, NEW t \in Tunes, NEW p \in Line!Panes, NEW x \in TuneStates, NEW c \in {NoTune, t},
         tune' = [tune EXCEPT ![t] = x], cancel' = [cancel EXCEPT ![p] = c],
         tune[t].st \in {"none", "issued"} \/ tune[t].pane = p,
         x.st = "issued" => ~x.cancelled,
         c = t => x.st = "started" /\ x.pane = p /\ ~x.cancelled
  PROVE  TuneInv'
<1>1. tune' \in [Tunes -> TuneStates] /\ tune'[t] = x /\ \A u \in Tunes \ {t} : tune'[u] = tune[u]
  BY DEF TuneInv
<1>2. cancel' \in [Line!Panes -> Tunes \cup {NoTune}] /\ cancel'[p] = c /\ \A q \in Line!Panes \ {p} : cancel'[q] = cancel[q]
  BY DEF TuneInv
<1>3. \A q \in Line!Panes \ {p} : cancel[q] # t
  BY DEF TuneInv, TuneAssumption
<1>4. ASSUME NEW q \in Line!Panes, cancel'[q] # NoTune
      PROVE  /\ tune'[cancel'[q]].st \in {"started", "tuned"}
             /\ tune'[cancel'[q]].pane = q /\ ~tune'[cancel'[q]].cancelled
  <2>1. CASE q = p
    BY <1>1, <1>2, <1>4, <2>1
  <2>2. CASE q # p
    BY <1>1, <1>2, <1>3, <1>4, <2>2 DEF TuneInv
  <2> QED BY <2>1, <2>2
<1>5. \A u \in Tunes : tune'[u].st = "issued" => ~tune'[u].cancelled
  BY <1>1 DEF TuneInv
<1> QED BY <1>1, <1>2, <1>4, <1>5 DEF TuneInv

\* Every step of the tune keeps the invariant.
LEMMA TuneStep == ASSUME TuneAssumption, TuneInv, [Line!TuneNext]_(Line!tuneVars) PROVE TuneInv'
<1>t. tune \in [Tunes -> TuneStates] /\ cancel \in [Line!Panes -> Tunes \cup {NoTune}]
  BY DEF TuneInv
<1>0. CASE UNCHANGED Line!tuneVars
  BY <1>0 DEF TuneInv, Line!tuneVars
<1>1. ASSUME NEW t \in Tunes, NEW p \in Line!Panes, Line!Tune(t, p) PROVE TuneInv'
  <2>1. PICK x : x = [Line!Idle EXCEPT !.st = "issued", !.pane = p]
    OBVIOUS
  <2>2. x \in TuneStates /\ x.st = "issued" /\ ~x.cancelled
    BY ONLY <2>1, p \in Line!Panes DEF Line!Idle, TuneStates, Line!Panes
  <2>3. CASE cancel[p] = NoTune
    <3>1. tune' = [tune EXCEPT ![t] = x] /\ cancel' = [cancel EXCEPT ![p] = NoTune] /\ tune[t].st = "none"
      BY <1>1, <2>1, <2>3 DEF Line!Tune, Line!Cancelled
    <3>2. NoTune # t
      BY DEF TuneAssumption
    <3> QED BY <2>2, <3>1, <3>2, TuneOther
  <2>4. CASE cancel[p] # NoTune
    <3>1. PICK u \in Tunes : u = cancel[p]
      BY <1>t, <2>4
    <3>2. PICK y : y = [tune[u] EXCEPT !.cancelled = TRUE]
      OBVIOUS
    <3>3. tune[u] \in TuneStates /\ tune[u].st \in {"started", "tuned"} /\ tune[u].pane = p /\ tune[t].st = "none"
      BY <1>1, <1>t, <2>4, <3>1 DEF TuneInv, Line!Tune
    <3>4. y \in TuneStates /\ y.st = tune[u].st /\ y.pane = p
      BY ONLY <3>2, <3>3 DEF TuneStates
    <3>5. tune' = [[tune EXCEPT ![u] = y] EXCEPT ![t] = x] /\ cancel' = [cancel EXCEPT ![p] = NoTune]
      BY <1>1, <2>1, <2>4, <3>1, <3>2 DEF Line!Tune, Line!Cancelled
    <3>6. /\ tune' \in [Tunes -> TuneStates] /\ tune'[t] = x /\ u # t /\ tune'[u] = y
          /\ \A v \in Tunes \ {t, u} : tune'[v] = tune[v]
      BY <1>t, <2>2, <3>3, <3>4, <3>5
    <3>7. /\ cancel' \in [Line!Panes -> Tunes \cup {NoTune}] /\ cancel'[p] = NoTune
          /\ \A q \in Line!Panes \ {p} : cancel'[q] = cancel[q]
      BY <1>t, <3>5
    <3>8. \A q \in Line!Panes \ {p} : cancel[q] \notin {t, u}
      BY <3>3 DEF TuneInv, TuneAssumption
    <3>9. ASSUME NEW q \in Line!Panes, cancel'[q] # NoTune
          PROVE  /\ tune'[cancel'[q]].st \in {"started", "tuned"}
                 /\ tune'[cancel'[q]].pane = q /\ ~tune'[cancel'[q]].cancelled
      BY <3>6, <3>7, <3>8, <3>9 DEF TuneInv
    <3>10. \A v \in Tunes : tune'[v].st = "issued" => ~tune'[v].cancelled
      BY <2>2, <3>3, <3>4, <3>6 DEF TuneInv
    <3> QED BY <3>6, <3>7, <3>9, <3>10 DEF TuneInv
  <2> QED BY <2>3, <2>4
<1>2. ASSUME NEW t \in Tunes, Line!TuneStarts(t) PROVE TuneInv'
  <2>1. PICK x, p : x = [tune[t] EXCEPT !.st = "started"] /\ p = tune[t].pane
    OBVIOUS
  <2>2. tune[t] \in TuneStates /\ tune[t].st = "issued" /\ ~tune[t].cancelled
    BY <1>2, <1>t DEF TuneInv, Line!TuneStarts
  <2>3. x \in TuneStates /\ x.st = "started" /\ x.pane = p /\ p \in Line!Panes /\ x.cancelled = tune[t].cancelled
    BY ONLY <2>1, <2>2 DEF TuneStates
  <2>4. tune' = [tune EXCEPT ![t] = x] /\ cancel' = [cancel EXCEPT ![p] = t]
    BY <1>2, <2>1 DEF Line!TuneStarts
  <2> QED BY <2>2, <2>3, <2>4, TuneOther
<1>3. ASSUME NEW t \in Tunes, Line!TuneSetsFreq(t) PROVE TuneInv'
  <2>1. PICK x : x = [tune[t] EXCEPT !.st = "tuned"]
    OBVIOUS
  <2>2. tune[t] \in TuneStates /\ tune[t].st = "started"
    BY <1>3, <1>t DEF Line!TuneSetsFreq
  <2>3. x \in TuneStates /\ x.st = "tuned" /\ x.pane = tune[t].pane /\ x.cancelled = tune[t].cancelled
    BY ONLY <2>1, <2>2 DEF TuneStates
  <2>4. tune' = [tune EXCEPT ![t] = x] /\ cancel' = cancel
    BY <1>3, <2>1 DEF Line!TuneSetsFreq
  <2>5. tune' \in [Tunes -> TuneStates] /\ tune'[t] = x /\ \A u \in Tunes \ {t} : tune'[u] = tune[u]
    BY <1>t, <2>3, <2>4
  <2> QED BY <2>2, <2>3, <2>4, <2>5 DEF TuneInv
<1>4. ASSUME NEW t \in Tunes, Line!TuneEnds(t) PROVE TuneInv'
  <2>1. PICK x, p : x = [tune[t] EXCEPT !.st = "done"] /\ p = tune[t].pane
    OBVIOUS
  <2>2. tune[t] \in TuneStates
    BY <1>t
  <2>3. x \in TuneStates /\ x.st = "done" /\ p \in Line!Panes
    BY ONLY <2>1, <2>2 DEF TuneStates
  <2>4. tune' = [tune EXCEPT ![t] = x] /\ cancel' = [cancel EXCEPT ![p] = NoTune]
    BY <1>4, <2>1 DEF Line!TuneEnds
  <2>5. NoTune # t
    BY DEF TuneAssumption
  <2> QED BY <2>1, <2>3, <2>4, <2>5, TuneOther
<1> QED BY <1>0, <1>1, <1>2, <1>3, <1>4 DEF Line!TuneNext

\* It holds at the start.
LEMMA TuneStart == ASSUME TuneAssumption, Line!TuneInit PROVE TuneInv
<1>1. PICK x : x = Line!Idle
  OBVIOUS
<1>2. x \in TuneStates /\ x.st = "none"
  BY <1>1 DEF Line!Idle, TuneStates, Line!Panes
<1>3. tune = [t \in Tunes |-> x] /\ cancel = [p \in Line!Panes |-> NoTune]
  BY <1>1 DEF Line!TuneInit
<1> QED BY <1>2, <1>3 DEF TuneInv

\* And it implies what is checked.
LEMMA TuneInvSafe == ASSUME TuneInv PROVE Line!CancelIsLive
  BY DEF TuneInv, Line!CancelIsLive, Line!InFlight

-----------------------------------------------------------------------------
(* GPS. *)

\* What the status bar and the receiver may hold.
Shown == [online : BOOLEAN, hasFix : BOOLEAN, grid : GPS!Grids]
Positions == [fix : BOOLEAN, place : GPS!Grids, fresh : BOOLEAN, told : BOOLEAN]
\* The invariant: what is shown as a fix is what the application object was told.
GPSInv == gpsUI \in Shown /\ gpsPos \in Positions /\ gpsAt \in Places /\ GPS!AppKnowsFix

\* No position is one.
LEMMA NoPositionIs == GPS!NoPosition \in Positions
  BY DEF GPS!NoPosition, Positions, GPS!Grids

\* A stopped or fresh receiver has no fix.
LEMMA StartIs == ASSUME GPS!Start, UNCHANGED gpsAt PROVE gpsUI' \in Shown /\ ~gpsUI'.hasFix /\ gpsPos' \in Positions /\ UNCHANGED gpsAt
<1>1. PICK f, t, n : f = FALSE /\ t = TRUE /\ n = NoPlace
  OBVIOUS
<1>2. n \in GPS!Grids /\ f \in BOOLEAN /\ t \in BOOLEAN /\ ~f
  BY <1>1 DEF GPS!Grids
<1>3. gpsUI' = [online |-> t, hasFix |-> f, grid |-> n] \/ gpsUI' = [online |-> f, hasFix |-> f, grid |-> n]
  BY <1>1 DEF GPS!Start, GPS!Offline
<1>4. gpsUI' \in Shown /\ ~gpsUI'.hasFix
  BY ONLY <1>2, <1>3 DEF Shown
<1>5. gpsPos' \in Positions
  BY NoPositionIs DEF GPS!Start
<1> QED BY <1>4, <1>5

\* What is told is what is shown: the application object is told of every change.
LEMMA TellKeeps ==
  ASSUME GPS!AppKnowsFix, NEW new \in Shown, GPS!Tell(new)
  PROVE  new.hasFix => gpsApp' = [grid |-> new.grid, hasFix |-> TRUE]
<1>1. SUFFICES ASSUME new.hasFix PROVE gpsApp' = [grid |-> new.grid, hasFix |-> TRUE]
  OBVIOUS
<1>2. new.hasFix = TRUE
  BY <1>1 DEF Shown
<1>3. CASE new.hasFix # gpsUI.hasFix \/ new.grid # gpsUI.grid
  BY <1>2, <1>3 DEF GPS!Tell, GPS!SetGPSGrid
<1>4. CASE new.hasFix = gpsUI.hasFix /\ new.grid = gpsUI.grid
  BY <1>2, <1>4 DEF GPS!Tell, GPS!AppKnowsFix
<1> QED BY <1>3, <1>4

\* The tick tells before the next one can show.
LEMMA TickKeeps == ASSUME GPSInv, GPS!Tick PROVE GPSInv'
<1>1. PICK new : /\ new = [online |-> gpsClient = "reading",
                           hasFix |-> gpsClient = "reading" /\ GPS!Believed,
                           grid |-> IF gpsClient = "reading" /\ GPS!Believed THEN gpsPos.place ELSE gpsUI.grid]
                 /\ GPS!Tell(new)
                 /\ UNCHANGED gpsAt
                 /\ \/ gpsUI' = new /\ UNCHANGED gpsPos
                    \/ GPS!Start
  BY DEF GPS!Tick
<1>2. PICK r, h, g : /\ r = (gpsClient = "reading") /\ h = (gpsClient = "reading" /\ GPS!Believed)
                     /\ g = IF h THEN gpsPos.place ELSE gpsUI.grid
  OBVIOUS
<1>3. r \in BOOLEAN /\ h \in BOOLEAN
  BY <1>2
<1>4. g \in GPS!Grids
  BY <1>2 DEF GPSInv, Shown, Positions
<1>5. new = [online |-> r, hasFix |-> h, grid |-> g]
  BY <1>1, <1>2
<1>6. new \in Shown
  BY ONLY <1>3, <1>4, <1>5 DEF Shown
<1>7. CASE GPS!Start
  BY <1>1, <1>7, StartIs DEF GPSInv, GPS!AppKnowsFix
<1>8. CASE gpsUI' = new /\ UNCHANGED gpsPos
  <2>1. GPS!AppKnowsFix'
    BY <1>1, <1>6, <1>8, TellKeeps DEF GPSInv, GPS!AppKnowsFix
  <2> QED BY <1>1, <1>6, <1>8, <2>1 DEF GPSInv
<1> QED BY <1>1, <1>7, <1>8

\* Every step keeps the invariant.
LEMMA GPSStep == ASSUME GPSInv, [GPS!GPSNext]_(GPS!gpsVars) PROVE GPSInv'
<1>0. CASE UNCHANGED GPS!gpsVars
  BY <1>0 DEF GPSInv, GPS!AppKnowsFix, GPS!gpsVars
<1>1. CASE GPS!Tick
  BY <1>1, TickKeeps
<1>2. CASE GPS!RefreshBeacon \/ GPS!SwitchTo \/ GPS!DelayPasses
  BY <1>2 DEF GPSInv, GPS!AppKnowsFix, GPS!RefreshBeacon, GPS!SwitchTo, GPS!DelayPasses
<1>3. CASE GPS!SaveSettings
  <2>0. UNCHANGED gpsAt
    BY <1>3 DEF GPS!SaveSettings
  <2>1. CASE GPS!Start
    BY <2>0, <2>1, StartIs DEF GPSInv, GPS!AppKnowsFix
  <2>2. CASE gpsPos' = GPS!NoPosition /\ gpsUI' = GPS!Offline
    <3>1. gpsPos' \in Positions /\ gpsUI' \in Shown
      BY <2>2, NoPositionIs DEF GPS!Offline, GPS!Grids, Shown
    <3>2. ~gpsUI'.hasFix
      BY <2>2 DEF GPS!Offline
    <3> QED BY <2>0, <3>1, <3>2 DEF GPSInv, GPS!AppKnowsFix
  <2> QED BY <1>3, <2>1, <2>2 DEF GPS!SaveSettings
<1>4. CASE GPS!World
  <2>1. UNCHANGED <<gpsUI, gpsApp>>
    BY <1>4 DEF GPS!World
  <2>2. gpsAt' \in Places
    BY <1>4 DEF GPS!World, GPS!Others, GPSInv
  <2>3. gpsPos' \in Positions
    <3>1. CASE GPS!HearFix
      BY <3>1 DEF GPS!HearFix, GPSInv, Positions, GPS!Grids
    <3>2. CASE ~GPS!HearFix
      BY <1>4, <3>2 DEF GPS!World, GPS!Others, GPS!HearVoid, GPS!HearActive, GPS!PositionAges, GPS!Unplug, GPSInv, Positions
    <3> QED BY <3>1, <3>2
  <2> QED BY <2>1, <2>2, <2>3 DEF GPSInv, GPS!AppKnowsFix
<1> QED BY <1>0, <1>1, <1>2, <1>3, <1>4 DEF GPS!GPSNext

\* It holds at the start.
LEMMA GPSStart == ASSUME GPS!GPSInit PROVE GPSInv
<1>1. PICK f, n, o : f = FALSE /\ n = NoPlace /\ o = (gpsOn /\ gpsUp)
  OBVIOUS
<1>2. gpsUI = [online |-> o, hasFix |-> f, grid |-> n]
  BY <1>1 DEF GPS!GPSInit, GPS!Offline
<1>3. f \in BOOLEAN /\ ~f /\ o \in BOOLEAN /\ n \in GPS!Grids
  BY <1>1 DEF GPS!Grids
<1>4. gpsUI \in Shown /\ ~gpsUI.hasFix
  BY ONLY <1>2, <1>3 DEF Shown
<1> QED BY <1>4, NoPositionIs DEF GPS!GPSInit, GPSInv, GPS!AppKnowsFix

-----------------------------------------------------------------------------
(* The reference database. *)

\* A handle can be opened, and NoDB is none.
RefAssumption == MaxOpens \in Nat \ {0} /\ NoDB \notin Ref!Handles

\* A rebuild, or the background refresh.
Jobs == [stage : Ref!Stages, db : Ref!Handles \cup {NoDB}]

\* The refresh holds a handle only until the owner loop has its message.
RefInv ==
    /\ opened \in Nat /\ opened <= MaxOpens
    /\ db \in Ref!Handles \cup {NoDB}
    /\ rebuild \in [Workers -> Jobs] /\ refresh \in Jobs
    /\ building \in BOOLEAN
    /\ refresh.stage # "done" => refresh.db = NoDB
    /\ Ref!BlockedIsBuilding /\ Ref!NoHandleLeak

\* An idle job holds no handle.
LEMMA IdleIs == Ref!Idle \in Jobs /\ Ref!Idle.stage = "free" /\ Ref!Idle.db = NoDB
  BY DEF Ref!Idle, Jobs, Ref!Stages

\* A job whose stage is set to another one than "free" is not idle.
LEMMA JobMoves ==
  ASSUME NEW j \in Jobs, NEW st \in Ref!Stages \ {"free"}, NEW k, k = [j EXCEPT !.stage = st]
  PROVE  k \in Jobs /\ k.stage = st /\ k.db = j.db /\ k # Ref!Idle
<1>1. k \in Jobs /\ k.stage = st /\ k.db = j.db
  BY DEF Jobs
<1> QED BY <1>1, IdleIs

\* The tab's flag after startRefRebuildCmd.
LEMMA StartKeepsFlag ==
  ASSUME RefInv, NEW h, NEW isReady, Ref!startRefRebuildCmd(h, isReady)
  PROVE  Ref!BlockedIsBuilding' /\ rebuild' \in [Workers -> Jobs] /\ building' \in BOOLEAN
<1>1. CASE UNCHANGED <<building, rebuild>>
  BY <1>1 DEF RefInv, Ref!BlockedIsBuilding
<1>2. CASE ~UNCHANGED <<building, rebuild>>
  <2>1. building' = TRUE
    BY <1>2 DEF Ref!startRefRebuildCmd
  <2>2. PICK w \in Workers : rebuild' = [rebuild EXCEPT ![w].stage = "queued"]
    BY <1>2 DEF Ref!startRefRebuildCmd
  <2>3. PICK k : k = [rebuild[w] EXCEPT !.stage = "queued"]
    OBVIOUS
  <2>4. "queued" \in Ref!Stages \ {"free"} /\ rebuild[w] \in Jobs
    BY DEF Ref!Stages, RefInv
  <2>5. k \in Jobs /\ k # Ref!Idle
    BY <2>3, <2>4, JobMoves
  <2>6. rebuild' = [rebuild EXCEPT ![w] = k]
    BY <2>2, <2>3
  <2>7. rebuild' \in [Workers -> Jobs] /\ rebuild'[w] = k
    BY <2>5, <2>6 DEF RefInv
  <2> QED BY <2>1, <2>5, <2>7 DEF Ref!BlockedIsBuilding
<1> QED BY <1>1, <1>2

\* A worker that goes on is not idle.
LEMMA WorkKeeps ==
  ASSUME RefInv, NEW w \in Workers, NEW k \in Jobs, k # Ref!Idle,
         rebuild' = [rebuild EXCEPT ![w] = k],
         UNCHANGED <<db, opened, closed, building, refresh>>
  PROVE  RefInv'
<1>1. rebuild' \in [Workers -> Jobs] /\ rebuild'[w] = k
  BY DEF RefInv
<1> QED BY <1>1 DEF RefInv, Ref!BlockedIsBuilding, Ref!NoHandleLeak

\* The steps of a rebuild.
LEMMA RefWorkerStep ==
  ASSUME RefInv, NEW w \in Workers, Ref!Work(w)
  PROVE  RefInv'
<1>t. rebuild[w] \in Jobs /\ db \in Ref!Handles \cup {NoDB}
  BY DEF RefInv
<1>1. CASE UNCHANGED <<rebuild, db, opened, closed, building, refresh>>
  BY <1>1 DEF RefInv, Ref!BlockedIsBuilding, Ref!NoHandleLeak
<1>2. CASE Ref!RebuildStarts(w)
  <2>1. PICK k : k = [stage |-> "fetching", db |-> db]
    OBVIOUS
  <2>2. k \in Jobs /\ k.stage = "fetching"
    BY ONLY <1>t, <2>1 DEF Jobs, Ref!Stages
  <2>3. k # Ref!Idle
    BY <2>2, IdleIs
  <2>4. rebuild' = [rebuild EXCEPT ![w] = k] /\ UNCHANGED <<db, opened, closed, building, refresh>>
    BY <1>2, <2>1 DEF Ref!RebuildStarts, Ref!Works, Ref!handles
  <2> QED BY <2>2, <2>3, <2>4, WorkKeeps
<1>3. ASSUME NEW st \in Ref!Stages \ {"free"}, Ref!To(w, st), UNCHANGED <<db, opened, closed, building, refresh>>
      PROVE  RefInv'
  <2>1. PICK k : k = [rebuild[w] EXCEPT !.stage = st]
    OBVIOUS
  <2>2. k \in Jobs /\ k # Ref!Idle
    BY <1>t, <2>1, JobMoves
  <2>3. rebuild' = [rebuild EXCEPT ![w] = k]
    BY <1>3, <2>1 DEF Ref!To
  <2> QED BY <1>3, <2>2, <2>3, WorkKeeps
<1>4. {"failed", "loading", "done"} \subseteq Ref!Stages \ {"free"}
  BY DEF Ref!Stages
<1>5. CASE Ref!DownloadFile(w) \/ Ref!BeginLoad(w) \/ Ref!Load(w)
  <2>1. UNCHANGED <<db, opened, closed, building, refresh>>
    BY <1>5 DEF Ref!DownloadFile, Ref!BeginLoad, Ref!Load, Ref!Works, Ref!handles
  <2>2. UNCHANGED rebuild \/ \E st \in {"failed", "loading", "done"} : Ref!To(w, st)
    BY <1>5 DEF Ref!DownloadFile, Ref!BeginLoad, Ref!Load
  <2> QED BY <1>1, <1>3, <1>4, <2>1, <2>2
<1>6. CASE Ref!BeginNowhere(w)
  BY <1>1, <1>6 DEF Ref!BeginNowhere, Ref!handles
<1> QED BY <1>2, <1>5, <1>6 DEF Ref!Work

\* A new handle is the owner's or the refresh's; the others stay where they are.
LEMMA OpenIs ==
  ASSUME RefAssumption, RefInv, NEW h, Ref!Open(h)
  PROVE  /\ h \in Ref!Handles \cup {NoDB} /\ opened' \in Nat /\ opened' <= MaxOpens
         /\ \A g \in 1..opened' : g \in 1..opened \/ g = h
         /\ opened' = opened \/ h # NoDB
BY DEF RefAssumption, RefInv, Ref!Open, Ref!Handles

\* NoDB is not one of the handles that have been opened.
LEMMA HandlesAre == ASSUME RefAssumption, RefInv PROVE \A g \in 1..opened : g # NoDB
  BY DEF RefAssumption, RefInv, Ref!Handles

\* Every step of the reference data keeps the invariant.
LEMMA RefStep == ASSUME RefAssumption, RefInv, [Ref!RefNext]_(Ref!refVars) PROVE RefInv'
<1>t. /\ opened \in Nat /\ opened <= MaxOpens /\ db \in Ref!Handles \cup {NoDB} /\ refresh \in Jobs
      /\ rebuild \in [Workers -> Jobs] /\ building \in BOOLEAN /\ \A g \in 1..opened : g # NoDB
      /\ \A g \in 1..opened : g \in closed \cup {db, refresh.db}
      /\ refresh.stage # "done" => refresh.db = NoDB
  BY HandlesAre DEF RefInv, Ref!NoHandleLeak
<1>0. CASE UNCHANGED Ref!refVars
  BY <1>0 DEF RefInv, Ref!BlockedIsBuilding, Ref!NoHandleLeak, Ref!refVars
<1>1. CASE Ref!EnableRef
  <2>1. CASE db # NoDB
    <3>1. Ref!startRefRebuildCmd(db, ready) /\ UNCHANGED <<db, opened, closed, refresh>>
      BY <1>1, <2>1 DEF Ref!EnableRef
    <3>2. Ref!BlockedIsBuilding' /\ rebuild' \in [Workers -> Jobs] /\ building' \in BOOLEAN
      BY <3>1, StartKeepsFlag
    <3> QED BY <3>1, <3>2 DEF RefInv, Ref!NoHandleLeak
  <2>2. CASE db = NoDB
    <3>1. PICK h \in Ref!Handles \cup {NoDB}, first \in BOOLEAN :
             /\ Ref!Open(h) /\ db' = h
             /\ refresh' = refresh \/ (refresh.stage = "free" /\ refresh' = [refresh EXCEPT !.stage = "queued"])
             /\ Ref!startRefRebuildCmd(h, ready \/ (first /\ table # {}))
      BY <1>1, <2>2 DEF Ref!EnableRef
    <3>2. PICK isReady : Ref!startRefRebuildCmd(h, isReady)
      BY <3>1
    <3>3. Ref!BlockedIsBuilding' /\ rebuild' \in [Workers -> Jobs] /\ building' \in BOOLEAN
      BY <3>2, StartKeepsFlag
    <3>4. closed' = closed
      BY <1>1 DEF Ref!EnableRef
    <3>5. /\ opened' \in Nat /\ opened' <= MaxOpens /\ db' \in Ref!Handles \cup {NoDB}
          /\ \A g \in 1..opened' : g \in 1..opened \/ g = db'
      BY <3>1, OpenIs
    <3>6. refresh' \in Jobs /\ refresh'.db = refresh.db /\ (refresh'.stage # "done" => refresh'.db = NoDB)
      <4>1. CASE refresh' = refresh
        BY <1>t, <4>1
      <4>2. CASE refresh' = [refresh EXCEPT !.stage = "queued"] /\ refresh.stage = "free"
        <5>1. "queued" \in Ref!Stages \ {"free"}
          BY DEF Ref!Stages
        <5> QED BY <1>t, <4>2, <5>1, JobMoves
      <4> QED BY <3>1, <4>1, <4>2
    <3>7. \A g \in 1..opened' : g \in closed' \cup {db', refresh'.db}
      BY <1>t, <2>2, <3>4, <3>5, <3>6
    <3> QED BY <3>3, <3>5, <3>6, <3>7 DEF RefInv, Ref!NoHandleLeak
  <2> QED BY <2>1, <2>2
<1>2. CASE Ref!DisableRef
  <2>1. /\ db' = NoDB /\ closed' = closed \cup ({db} \ {NoDB}) /\ building' = FALSE
        /\ UNCHANGED <<opened, rebuild, refresh>>
    BY <1>2 DEF Ref!DisableRef
  <2>2. \A g \in 1..opened : g \in closed' \cup {db', refresh.db}
    BY <1>t, <2>1
  <2> QED BY <1>t, <2>1, <2>2 DEF RefInv, Ref!NoHandleLeak, Ref!BlockedIsBuilding
<1>3. CASE Ref!Tick
  <2>1. /\ Ref!startRefRebuildCmd(db, ready) \/ UNCHANGED <<building, rebuild>>
        /\ UNCHANGED <<db, opened, closed, refresh>>
    BY <1>3 DEF Ref!Tick, Ref!handles
  <2>2. Ref!BlockedIsBuilding' /\ rebuild' \in [Workers -> Jobs] /\ building' \in BOOLEAN
    <3>1. CASE Ref!startRefRebuildCmd(db, ready)
      BY <3>1, StartKeepsFlag
    <3>2. CASE UNCHANGED <<building, rebuild>>
      BY <1>t, <3>2 DEF RefInv, Ref!BlockedIsBuilding
    <3> QED BY <2>1, <3>1, <3>2
  <2> QED BY <2>1, <2>2 DEF RefInv, Ref!NoHandleLeak
<1>4. CASE Ref!MaybeRefresh
  <2>1. refresh' = [refresh EXCEPT !.stage = "queued"] /\ refresh.stage = "free"
        /\ UNCHANGED <<db, opened, closed, building, rebuild>>
    BY <1>4 DEF Ref!MaybeRefresh, Ref!handles
  <2>2. "queued" \in Ref!Stages \ {"free"}
    BY DEF Ref!Stages
  <2>3. refresh' \in Jobs /\ refresh'.db = refresh.db
    BY <1>t, <2>1, <2>2, JobMoves
  <2> QED BY <1>t, <2>1, <2>3 DEF RefInv, Ref!NoHandleLeak, Ref!BlockedIsBuilding
<1>5. CASE Ref!RefData
  <2>1. refresh' = Ref!Idle /\ UNCHANGED <<opened, building, rebuild>>
        /\ \/ refresh.db = NoDB /\ UNCHANGED <<db, closed>>
           \/ db = NoDB /\ db' = refresh.db /\ UNCHANGED closed
           \/ closed' = closed \cup {refresh.db} /\ UNCHANGED db
    BY <1>5 DEF Ref!RefData, Ref!LosesRace
  <2>2. db' \in Ref!Handles \cup {NoDB}
    BY <1>t, <2>1 DEF Jobs
  <2>3. \A g \in 1..opened : g \in closed' \cup {db'}
    BY <1>t, <2>1
  <2>4. PICK r : r = Ref!Idle
    OBVIOUS
  <2>5. refresh' \in Jobs /\ refresh'.db = NoDB
    BY <2>1, IdleIs
  <2> QED BY <1>t, <2>1, <2>2, <2>3, <2>5 DEF RefInv, Ref!NoHandleLeak, Ref!BlockedIsBuilding
<1>6. CASE Ref!RefreshOpens
  <2>1. PICK h \in Ref!Handles \cup {NoDB} : Ref!Open(h) /\ refresh' = [stage |-> "done", db |-> h]
    BY <1>6 DEF Ref!RefreshOpens
  <2>2. UNCHANGED <<db, closed, building, rebuild>> /\ refresh.stage = "queued"
    BY <1>6 DEF Ref!RefreshOpens
  <2>3. refresh' \in Jobs /\ refresh'.db = h /\ refresh'.stage = "done"
    BY <2>1 DEF Jobs, Ref!Stages
  <2>4. /\ opened' \in Nat /\ opened' <= MaxOpens
        /\ \A g \in 1..opened' : g \in 1..opened \/ g = h
    BY <2>1, OpenIs
  <2>5. \A g \in 1..opened' : g \in closed' \cup {db', refresh'.db}
    BY <1>t, <2>2, <2>3, <2>4
  <2> QED BY <1>t, <2>2, <2>3, <2>4, <2>5 DEF RefInv, Ref!NoHandleLeak, Ref!BlockedIsBuilding
<1>7. ASSUME NEW w \in Workers, Ref!Rebuilt(w) PROVE RefInv'
  <2>1. PICK r : r = Ref!Idle
    OBVIOUS
  <2>2. r \in Jobs
    BY <2>1, IdleIs
  <2>3. building' = FALSE /\ rebuild' = [rebuild EXCEPT ![w] = r] /\ UNCHANGED <<db, opened, closed, refresh>>
    BY <1>7, <2>1 DEF Ref!Rebuilt, Ref!EndsBuilding, Ref!handles
  <2>4. rebuild' \in [Workers -> Jobs]
    BY <1>t, <2>2, <2>3
  <2> QED BY <2>3, <2>4 DEF RefInv, Ref!NoHandleLeak, Ref!BlockedIsBuilding
<1> QED BY <1>0, <1>1, <1>2, <1>3, <1>4, <1>5, <1>6, <1>7, RefWorkerStep DEF Ref!RefNext

\* It holds at the start.
LEMMA RefStart == ASSUME RefAssumption, Ref!RefInit PROVE RefInv
<1>1. PICK r : r = Ref!Idle
  OBVIOUS
<1>2. r \in Jobs /\ r.stage = "free" /\ r.db = NoDB
  BY <1>1, IdleIs
<1>3. rebuild = [w \in Workers |-> r] /\ refresh = r /\ building = FALSE
  BY <1>1 DEF Ref!RefInit
<1>4. opened \in Nat /\ opened <= MaxOpens /\ db \in Ref!Handles \cup {NoDB}
      /\ \A h \in 1..opened : h \in {db}
  BY DEF RefAssumption, Ref!RefInit, Ref!Handles
<1> QED BY <1>2, <1>3, <1>4 DEF RefInv, Ref!NoHandleLeak, Ref!BlockedIsBuilding

-----------------------------------------------------------------------------
(* WSJT-X: the listener and the queue. *)

\* What the listener may be.
Runs == [of : Settings \cup {Off}, current : BOOLEAN, socket : BOOLEAN, stop : BOOLEAN,
         loop : {"select", "call", "gone"}, reader : {"read", "send", "gone"}, queued : Int]

\* A listener that is being replaced is detached, and once its loop has been joined
\* the loop is gone; without a listener there is no loop.
ListenerInv ==
    /\ run \in Runs /\ owner \in {"idle", "close", "join", "drain", "start"}
    /\ applied \in Settings \cup {Off} /\ wanted \in Settings \cup {Off}
    /\ owner # "idle" => ~run.current
    /\ owner \in {"drain", "start"} => run.loop = "gone"
    /\ owner = "idle" /\ ~run.current => run.loop = "gone"

\* No listener, and a new one.
LEMMA RunsAre ==
  ASSUME NEW c \in Settings \cup {Off}
  PROVE  /\ WSJT!NoRun \in Runs /\ ~WSJT!NoRun.current /\ WSJT!NoRun.loop = "gone"
         /\ WSJT!NewRun(c) \in Runs /\ WSJT!NewRun(c).current
<1>1. PICK t, f, o, z : t = TRUE /\ f = FALSE /\ o = Off /\ z = 0
  OBVIOUS
<1>2. t \in BOOLEAN /\ t /\ f \in BOOLEAN /\ ~f
  BY <1>1
<1>8. o \in Settings \cup {Off} /\ z \in Int
  BY <1>1
<1>3. PICK n, m : n = WSJT!NoRun /\ m = WSJT!NewRun(c)
  OBVIOUS
<1>4. n = [of |-> o, current |-> f, socket |-> f, stop |-> f, loop |-> "gone", reader |-> "gone", queued |-> z]
  BY <1>1, <1>3 DEF WSJT!NoRun
<1>5. m = [of |-> c, current |-> t, socket |-> t, stop |-> f, loop |-> "select", reader |-> "read", queued |-> z]
  BY <1>1, <1>3 DEF WSJT!NewRun
<1>6. n \in Runs /\ ~n.current /\ n.loop = "gone"
  BY ONLY <1>2, <1>4, <1>8 DEF Runs
<1>7. m \in Runs /\ m.current
  BY ONLY <1>2, <1>5, <1>8, c \in Settings \cup {Off} DEF Runs
<1> QED BY <1>3, <1>6, <1>7

\* The steps of the owner loop, which replaces it.
LEMMA OwnerSteps ==
  ASSUME ListenerInv, WSJT!RigChange \/ WSJT!Retry \/ WSJT!OwnerStep
  PROVE  ListenerInv'
<1>1. ASSUME NEW w \in Settings \cup {Off}, WSJT!Apply(w) PROVE ListenerInv'
  <2>1. CASE w = applied \/ ~run.current
    BY <1>1, <2>1 DEF WSJT!Apply, ListenerInv
  <2>2. CASE w # applied /\ run.current
    <3>1. PICK r, f : f = FALSE /\ r = [run EXCEPT !.current = f]
      OBVIOUS
    <3>2. run \in Runs /\ f \in BOOLEAN /\ ~f
      BY <3>1 DEF ListenerInv
    <3>3. r \in Runs /\ ~r.current
      BY ONLY <3>1, <3>2 DEF Runs
    <3>4. run' = r /\ owner' = "close" /\ applied' = applied /\ wanted' = w
      BY <1>1, <2>2, <3>1 DEF WSJT!Apply
    <3> QED BY <3>3, <3>4 DEF ListenerInv
  <2> QED BY <2>1, <2>2
<1>2. CASE WSJT!RigChange \/ WSJT!Retry
  BY <1>1, <1>2 DEF WSJT!RigChange, WSJT!Retry, ListenerInv
<1>3. CASE WSJT!CloseSocket
  <2>1. PICK r, t, f : t = TRUE /\ f = FALSE /\ r = [run EXCEPT !.socket = f, !.stop = t]
    OBVIOUS
  <2>2. run \in Runs /\ f \in BOOLEAN /\ t \in BOOLEAN
    BY <2>1 DEF ListenerInv
  <2>3. r \in Runs /\ r.current = run.current
    BY ONLY <2>1, <2>2 DEF Runs
  <2>4. run' = r /\ owner = "close" /\ owner' = "join" /\ UNCHANGED <<applied, wanted>>
    BY <1>3, <2>1 DEF WSJT!CloseSocket
  <2> QED BY <2>3, <2>4 DEF ListenerInv
<1>4. CASE WSJT!JoinLoop
  BY <1>4 DEF WSJT!JoinLoop, ListenerInv
<1>5. CASE WSJT!Drain
  <2>1. PICK r : r = [run EXCEPT !.queued = @ - 1]
    OBVIOUS
  <2>2. run \in Runs
    BY DEF ListenerInv
  <2>3. r \in Runs /\ r.current = run.current /\ r.loop = run.loop
    BY ONLY <2>1, <2>2 DEF Runs
  <2>4. run' \in {r, run} /\ owner = "drain" /\ owner' \in {"drain", "start"} /\ UNCHANGED <<applied, wanted>>
    BY <1>5, <2>1 DEF WSJT!Drain
  <2> QED BY <2>3, <2>4 DEF ListenerInv
<1>6. CASE WSJT!Listen
  <2>1. wanted \in Settings \cup {Off} /\ Off \in Settings \cup {Off} /\ applied \in Settings \cup {Off}
    BY DEF ListenerInv
  <2>2. PICK n, m : n = WSJT!NoRun /\ m = WSJT!NewRun(wanted)
    OBVIOUS
  <2>3. n \in Runs /\ ~n.current /\ n.loop = "gone" /\ m \in Runs /\ m.current
    BY <2>1, <2>2, RunsAre
  <2>4. run' \in {n, m} /\ owner' = "idle" /\ applied' \in Settings \cup {Off} /\ wanted' = wanted
    BY <1>6, <2>1, <2>2 DEF WSJT!Listen
  <2> QED BY <2>1, <2>3, <2>4 DEF ListenerInv
<1> QED BY <1>2, <1>3, <1>4, <1>5, <1>6 DEF WSJT!OwnerStep

\* Every step of the listener keeps the invariant.
LEMMA ListenerStep == ASSUME ListenerInv, [WSJT!ListenerNext]_(WSJT!wsjtxVars) PROVE ListenerInv'
<1>0. CASE UNCHANGED WSJT!wsjtxVars
  BY <1>0 DEF ListenerInv, WSJT!wsjtxVars
<1>1. CASE WSJT!RigChange \/ WSJT!Retry \/ WSJT!OwnerStep
  BY <1>1, OwnerSteps
<1>2. CASE WSJT!PortsChange
  BY <1>2 DEF WSJT!PortsChange, ListenerInv
<1>3. CASE WSJT!ReaderStep \/ WSJT!LoopStep
  <2>1. UNCHANGED <<wanted, applied, owner>>
    BY <1>3 DEF WSJT!ReaderStep, WSJT!LoopStep, WSJT!Read, WSJT!SendMessage, WSJT!TakeMessage, WSJT!CallbackReturns, WSJT!LoopStops
  <2>2. run \in Runs
    BY DEF ListenerInv
  <2>4. run.queued \in Int
    BY ONLY <2>2 DEF Runs
  <2>3. /\ run' \in Runs /\ run'.current = run.current
        /\ run'.loop = run.loop \/ (run.loop # "gone" /\ (run'.loop = "call" => run.current))
    <3>2. CASE WSJT!Read
      <4>1. PICK e : e = IF run.socket THEN "send" ELSE "gone"
        OBVIOUS
      <4>2. e \in {"read", "send", "gone"}
        BY <4>1
      <4>3. run' = [run EXCEPT !.reader = e]
        BY <3>2, <4>1 DEF WSJT!Read
      <4> QED BY ONLY <2>2, <4>2, <4>3 DEF Runs
    <3>3. CASE WSJT!SendMessage
      <4>1. PICK q : q = run.queued + 1
        OBVIOUS
      <4>2. q \in Int
        BY ONLY <2>4, <4>1
      <4>3. run' = [run EXCEPT !.reader = "read", !.queued = q]
        BY <3>3, <4>1 DEF WSJT!SendMessage
      <4> QED BY ONLY <2>2, <4>2, <4>3 DEF Runs
    <3>4. CASE WSJT!TakeMessage
      <4>1. PICK l : l = IF run.current THEN "call" ELSE "select"
        OBVIOUS
      <4>2. l \in {"select", "call", "gone"} /\ (l = "call" => run.current)
        BY <4>1
      <4>5. PICK q : q = run.queued - 1
        OBVIOUS
      <4>6. q \in Int
        BY ONLY <2>4, <4>5
      <4>3. run' = [run EXCEPT !.queued = q, !.loop = l] /\ run.loop # "gone"
        BY <3>4, <4>1, <4>5 DEF WSJT!TakeMessage
      <4>4. run' \in Runs /\ run'.current = run.current /\ run'.loop = l
        BY ONLY <2>2, <4>2, <4>3, <4>6 DEF Runs
      <4> QED BY <4>2, <4>3, <4>4
    <3>5. CASE WSJT!CallbackReturns
      <4>1. run' = [run EXCEPT !.loop = "select"] /\ run.loop # "gone"
        BY <3>5 DEF WSJT!CallbackReturns
      <4>2. run' \in Runs /\ run'.current = run.current /\ run'.loop = "select"
        BY ONLY <2>2, <4>1 DEF Runs
      <4> QED BY <4>1, <4>2
    <3>6. CASE WSJT!LoopStops
      <4>1. run' = [run EXCEPT !.loop = "gone"] /\ run.loop # "gone"
        BY <3>6 DEF WSJT!LoopStops
      <4>2. run' \in Runs /\ run'.current = run.current /\ run'.loop = "gone"
        BY ONLY <2>2, <4>1 DEF Runs
      <4> QED BY <4>1, <4>2
    <3> QED BY <1>3, <3>2, <3>3, <3>4, <3>5, <3>6 DEF WSJT!ReaderStep, WSJT!LoopStep
  <2> QED BY <2>1, <2>2, <2>3 DEF ListenerInv
<1> QED BY <1>0, <1>1, <1>2, <1>3 DEF WSJT!ListenerNext

\* It holds at the start.
LEMMA ListenerStart == ASSUME WSJT!ListenerInit PROVE ListenerInv
  BY RunsAre DEF WSJT!ListenerInit, ListenerInv

\* And it implies what is checked.
LEMMA ListenerSafe == ASSUME ListenerInv PROVE WSJT!StoppedIsQuiet
  BY DEF ListenerInv, WSJT!StoppedIsQuiet

\* Nothing is down before the first crash, and no contact is there twice.
QueueInv ==
    /\ logbook \in [Records -> Nat] /\ crashes \in Nat
    /\ at = "down" => crashes > 0
    /\ WSJT!LoggedOnce /\ WSJT!RestIsOnDisk

\* A write of the file that succeeds writes the queue.
LEMMA SavesIs == ASSUME NEW q, WSJT!Saves(q) PROVE saved' \in BOOLEAN /\ (saved' => file' = q)
<1>1. \/ file' = q /\ saved' = TRUE
      \/ saved' = FALSE
  BY Zenon DEF WSJT!Saves
<1> QED BY <1>1

\* Every step of the queue keeps it.
LEMMA QueueStep == ASSUME QueueInv, [WSJT!QueueNext]_(WSJT!wsjtxQueueVars) PROVE QueueInv'
<1>t. logbook \in [Records -> Nat] /\ crashes \in Nat /\ \A k \in Records : logbook[k] <= 1
  BY DEF QueueInv, WSJT!LoggedOnce
<1>0. CASE UNCHANGED WSJT!wsjtxQueueVars
  BY <1>0 DEF QueueInv, WSJT!LoggedOnce, WSJT!RestIsOnDisk, WSJT!wsjtxQueueVars
<1>1. ASSUME NEW k \in Records, WSJT!OnADIF(k) PROVE QueueInv'
  <2>1. saved' => file' = queue'
    BY <1>1, SavesIs DEF WSJT!OnADIF
  <2> QED BY <1>1, <2>1 DEF WSJT!OnADIF, QueueInv, WSJT!LoggedOnce, WSJT!RestIsOnDisk
<1>2. CASE WSJT!TakeAll \/ WSJT!RecordRefused
  BY <1>2 DEF WSJT!TakeAll, WSJT!RecordRefused, QueueInv, WSJT!LoggedOnce, WSJT!RestIsOnDisk
<1>6. CASE WSJT!TickEnds
  <2>1. saved' => file' = queue'
    BY <1>6, SavesIs DEF WSJT!TickEnds
  <2> QED BY <1>6, <2>1 DEF WSJT!TickEnds, QueueInv, WSJT!LoggedOnce, WSJT!RestIsOnDisk
<1>3. CASE WSJT!HandleRecord
  <2>1. PICK k : k = Head(taken)
    OBVIOUS
  <2>2. logbook' = logbook \/ logbook' = IF logbook[k] > 0 THEN logbook ELSE [logbook EXCEPT ![k] = @ + 1]
    BY <1>3, <2>1 DEF WSJT!HandleRecord, WSJT!InsertOnce
  <2>3. logbook' \in [Records -> Nat] /\ \A j \in Records : logbook'[j] <= 1
    <3>1. CASE logbook' = logbook
      BY <1>t, <3>1
    <3>2. CASE ~(logbook[k] > 0) /\ logbook' = [logbook EXCEPT ![k] = logbook[k] + 1]
      <4>1. \A j \in Records : logbook'[j] = IF j = k THEN logbook[k] + 1 ELSE logbook[j]
        BY <1>t, <3>2
      <4>2. \A j \in Records : logbook'[j] \in Nat /\ logbook'[j] <= 1
        BY <1>t, <3>2, <4>1
      <4> QED BY <1>t, <3>2, <4>2
    <3> QED BY <2>2, <3>1, <3>2
  <2>4. at = "tick" /\ UNCHANGED <<at, crashes, file, queue>>
    BY <1>3 DEF WSJT!HandleRecord
  <2> QED BY <1>t, <2>3, <2>4 DEF QueueInv, WSJT!LoggedOnce, WSJT!RestIsOnDisk
<1>4. CASE WSJT!Crash
  BY <1>4 DEF WSJT!Crash, QueueInv, WSJT!LoggedOnce, WSJT!RestIsOnDisk
<1>5. CASE WSJT!Restart
  <2>1. saved' = FALSE /\ at' = "rest" /\ UNCHANGED <<logbook, crashes>>
    BY <1>5 DEF WSJT!Restart
  <2> QED BY <2>1 DEF QueueInv, WSJT!LoggedOnce, WSJT!RestIsOnDisk
<1> QED BY <1>0, <1>1, <1>2, <1>3, <1>4, <1>5, <1>6 DEF WSJT!QueueNext

\* It holds at the start.
LEMMA QueueStart == ASSUME WSJT!QueueInit PROVE QueueInv
  BY DEF WSJT!QueueInit, QueueInv, WSJT!LoggedOnce, WSJT!RestIsOnDisk

-----------------------------------------------------------------------------
(* All of the links, as the run has them. *)

\* One component runs at a time, and its step leaves the others alone.
LEMMA OthersRest ==
  ASSUME [LinksNext]_allVars
  PROVE  /\ [Dxc!Next]_(Dxc!vars) /\ [APRS!APRSNext]_(APRS!aprsVars)
         /\ [Line!TuneNext]_(Line!tuneVars) /\ [GPS!GPSNext]_(GPS!gpsVars)
         /\ [WSJT!ListenerNext]_(WSJT!wsjtxVars) /\ [WSJT!QueueNext]_(WSJT!wsjtxQueueVars)
         /\ [Ref!RefNext]_(Ref!refVars)
         /\ part' = part
         /\ part # "rotor" => [Rig!RigNext]_(Rig!rigVars)
         /\ part = "rotor" => [Rotor!RigNext]_(Rotor!rigVars)
<1> USE DEF LinksNext, DxcRuns, APRSRuns, RigRuns, TuneRuns, WireRuns, GPSRuns, ListenerRuns, QueueRuns, RefRuns,
            allVars, dxcVars, aprsVars, rigVars, tuneVars, gpsVars, listenerVars, queueVars, refVars
<1>1. [Dxc!Next]_(Dxc!vars)
  BY DEF Dxc!vars
<1>2. [APRS!APRSNext]_(APRS!aprsVars)
  BY DEF APRS!aprsVars
<1>3. [Line!TuneNext]_(Line!tuneVars)
  BY DEF Line!tuneVars
<1>4. [GPS!GPSNext]_(GPS!gpsVars)
  BY DEF GPS!gpsVars
<1>5. [WSJT!ListenerNext]_(WSJT!wsjtxVars)
  BY DEF WSJT!wsjtxVars
<1>6. [WSJT!QueueNext]_(WSJT!wsjtxQueueVars)
  BY DEF WSJT!wsjtxQueueVars, WSJT!fate
<1>7. [Ref!RefNext]_(Ref!refVars)
  BY DEF Ref!refVars
<1>8. part' = part
  OBVIOUS
<1>9. part # "rotor" => [Rig!RigNext]_(Rig!rigVars)
  BY DEF Rig!rigVars
<1>10. part = "rotor" => [Rotor!RigNext]_(Rotor!rigVars)
  BY DEF Rotor!rigVars
<1> HIDE DEF LinksNext, DxcRuns, APRSRuns, RigRuns, TuneRuns, WireRuns, GPSRuns, ListenerRuns, QueueRuns, RefRuns,
             allVars, dxcVars, aprsVars, rigVars, tuneVars, gpsVars, listenerVars, queueVars, refVars
<1> QED BY <1>1, <1>2, <1>3, <1>4, <1>5, <1>6, <1>7, <1>8, <1>9, <1>10

\* DXCluster: whatever breaks and whatever is saved meanwhile, a client that may
\* dial or read is the kept one or about to be stopped, two connections are never
\* kept, and a command never dials for a client whose reconnect loop does.
THEOREM ClusterIsSafe == DxAssumption => (LinksSpec => []ClusterSafe)
<1> SUFFICES ASSUME DxAssumption PROVE LinksSpec => []ClusterSafe
  OBVIOUS
<1> DEFINE I == DxInv(ui, cmd, conn)
<1>1. LinksInit => I
  BY DxStart DEF LinksInit
<1>2. I /\ [LinksNext]_allVars => I'
  BY OthersRest, DxStep
<1>3. I => ClusterSafe
  BY DxSafe DEF ClusterSafe
<1> HIDE DEF I
<1> QED BY <1>1, <1>2, <1>3, PTL DEF LinksSpec

\* APRSLink: every client that may receive or transmit is installed or told to
\* stop, whatever restarts cross; the pruner has its cache, and a beacon is of the
\* active logbook.
THEOREM APRSIsSafe == ApAssumption => (LinksSpec => []APRSSafe)
<1> SUFFICES ASSUME ApAssumption PROVE LinksSpec => []APRSSafe
  OBVIOUS
<1>1. LinksInit => APRSInv
  BY APRSStart DEF LinksInit
<1>2. APRSInv /\ [LinksNext]_allVars => APRSInv'
  BY OthersRest, APRSStep
<1>3. APRSInv => APRSSafe
  BY APRSInvSafe DEF APRSSafe
<1> QED BY <1>1, <1>2, <1>3, PTL DEF LinksSpec

\* The radios' invariant, over the clients of the instance that runs.
RadioInv ==
    /\ TuneInv
    /\ part # "rotor" => DeviceInv(Rig!Radios \cup {NoRadio})
    /\ part = "rotor" => DeviceInv(Rotor!Radios \cup {NoRadio})

\* It holds at the start.
LEMMA RadioStart == ASSUME TuneAssumption, LinksInit PROVE RadioInv
<1>1. TuneInv
  BY TuneStart DEF LinksInit
<1>2. PICK x, c, e : x = Rig!NoDevice /\ c = Rig!Radios \cup {NoRadio} /\ e = Rotor!Radios \cup {NoRadio}
  OBVIOUS
<1>3. dev = [d \in Rig!Devices |-> x]
  BY <1>2 DEF LinksInit, Rig!RigInit, Rotor!RigInit, Rig!NoDevice, Rotor!NoDevice, Rig!Devices, Rotor!Devices
<1>4. DeviceInv(c) /\ DeviceInv(e)
  <2>1. NoRadio \in c /\ NoRadio \in e
    BY <1>2
  <2> QED BY <1>2, <1>3, <2>1, DeviceStart
<1> QED BY <1>1, <1>2, <1>4 DEF RadioInv

\* Every step keeps it.
LEMMA RadioStep == ASSUME TuneAssumption, RadioInv, [LinksNext]_allVars PROVE RadioInv'
<1>1. TuneInv'
  BY OthersRest, TuneStep DEF RadioInv
<1>2. PICK c, e : c = Rig!Radios \cup {NoRadio} /\ e = Rotor!Radios \cup {NoRadio}
  OBVIOUS
<1>3. part # "rotor" => DeviceInv(c)'
  BY <1>2, OthersRest, RigStep DEF RadioInv
<1>4. part = "rotor" => DeviceInv(e)'
  BY <1>2, OthersRest, RotorStep DEF RadioInv
<1>5. part' = part
  BY OthersRest
<1> QED BY <1>1, <1>2, <1>3, <1>4, <1>5 DEF RadioInv

\* RigControl and RigLine: late, lost and stuck polls never make a radio look
\* connected that another client answered for, and a cancel function that is kept
\* belongs to a command of its pane that can still be cancelled.
THEOREM RadioIsSafe == TuneAssumption => (LinksSpec => []RadioSafe)
<1> SUFFICES ASSUME TuneAssumption PROVE LinksSpec => []RadioSafe
  OBVIOUS
<1>1. LinksInit => RadioInv
  BY RadioStart
<1>2. RadioInv /\ [LinksNext]_allVars => RadioInv'
  BY RadioStep
<1>3. RadioInv => RadioSafe
  BY TuneInvSafe DEF RadioInv, RadioSafe, DeviceInv, Current, Rig!ConnectedIsCurrent, Rotor!ConnectedIsCurrent,
     Rig!Devices, Rotor!Devices
<1> QED BY <1>1, <1>2, <1>3, PTL DEF LinksSpec

\* GPSLink and RefData: the application object has the fix and locator that the
\* screen shows; the reference tab is blocked only by a rebuild under way; and no
\* handle of the reference database is lost between settings and refresh.
THEOREM ShownIsKept == RefAssumption => (LinksSpec => []ShownIsTrue)
<1> SUFFICES ASSUME RefAssumption PROVE LinksSpec => []ShownIsTrue
  OBVIOUS
<1> DEFINE I == GPSInv /\ RefInv
<1>1. LinksInit => I
  BY GPSStart, RefStart DEF LinksInit
<1>2. I /\ [LinksNext]_allVars => I'
  BY OthersRest, GPSStep, RefStep
<1>3. I => ShownIsTrue
  BY DEF GPSInv, RefInv, ShownIsTrue
<1> HIDE DEF I
<1> QED BY <1>1, <1>2, <1>3, PTL DEF LinksSpec

-----------------------------------------------------------------------------
(* Types: what the invariants above leave out of the values of a component. *)

\* The bounds of the links are numbers, and the queue of WSJT-X holds a record.
LinksBounds ==
    /\ ChanCap \in Nat /\ MaxChanges \in Nat /\ StuckTicks \in Nat /\ MaxRefresh \in Nat
    /\ MaxLate \in Nat /\ MsgCap \in Nat /\ MaxPending \in Nat \ {0}
    /\ MaxReports \in Nat /\ MaxCrashes \in Nat

\* DXCluster: the settings, the client that is being stopped, and the saves.
DxRest == want \in [enabled : BOOLEAN, inet : BOOLEAN] /\ joining \in Clients \cup {NoClient} /\ saves \in 0..MaxSaves

\* Every step keeps them: the owner loop waits for the kept client or a command's.
LEMMA DxRestStep ==
  ASSUME DxAssumption, DxInv(ui, cmd, conn), DxRest, [Dxc!Next]_(Dxc!vars)
  PROVE  DxRest'
<1>t. ui.client \in Clients \cup {NoClient}
  BY DEF DxInv, DxTypes, UIs
<1>0. CASE UNCHANGED <<want, joining, saves>>
  BY <1>0 DEF DxRest
<1>1. CASE Dxc!Tick \/ (\E c \in Clients : Dxc!Deliver(c)) \/ Dxc!StopReturns
  <2>1. \/ joining' \in {NoClient, joining}
        \/ \E c \in Clients \cup {NoClient} : Dxc!Waits(c)
    <3>1. CASE Dxc!Tick
      BY <1>t, <3>1 DEF Dxc!Tick
    <3>2. ASSUME NEW c \in Clients, Dxc!Deliver(c)
          PROVE  joining' = joining \/ Dxc!Waits(c)
      BY <3>2, Zenon DEF Dxc!Deliver, Dxc!StaleResult
    <3>3. CASE Dxc!StopReturns
      BY <3>3 DEF Dxc!StopReturns
    <3> QED BY <1>1, <3>1, <3>2, <3>3
  <2>2. UNCHANGED <<want, saves>>
    <3>1. CASE Dxc!Tick
      BY <3>1 DEF Dxc!Tick
    <3>2. ASSUME NEW c \in Clients, Dxc!Deliver(c) PROVE UNCHANGED <<want, saves>>
      BY <3>2, Zenon DEF Dxc!Deliver
    <3>3. CASE Dxc!StopReturns
      BY <3>3 DEF Dxc!StopReturns
    <3> QED BY <1>1, <3>1, <3>2, <3>3
  <2>3. joining' \in Clients \cup {NoClient}
    BY <2>1 DEF Dxc!Waits, DxRest
  <2> QED BY <2>2, <2>3 DEF DxRest
<1>2. CASE Dxc!SaveConfig
  <2>1. PICK on \in BOOLEAN : want' = [want EXCEPT !.enabled = on]
    BY <1>2 DEF Dxc!SaveConfig
  <2>2. want' \in [enabled : BOOLEAN, inet : BOOLEAN]
    BY ONLY <2>1, DxRest, on \in BOOLEAN DEF DxRest
  <2>3. joining' \in Clients \cup {NoClient}
    BY <1>2, <1>t DEF Dxc!SaveConfig, Dxc!Waits
  <2>4. saves' \in 0..MaxSaves
    BY <1>2 DEF Dxc!SaveConfig, DxRest, DxAssumption
  <2> QED BY <2>2, <2>3, <2>4 DEF DxRest
<1>3. CASE Dxc!InetResult
  <2>1. PICK on \in BOOLEAN : on = ~want.inet
    OBVIOUS
  <2>2. want' = [want EXCEPT !.inet = on]
    BY <1>3, <2>1 DEF Dxc!InetResult
  <2>3. want' \in [enabled : BOOLEAN, inet : BOOLEAN]
    BY ONLY <2>2, DxRest, on \in BOOLEAN DEF DxRest
  <2>4. joining' \in Clients \cup {NoClient} /\ saves' = saves
    BY <1>3, <1>t DEF Dxc!InetResult, Dxc!Waits
  <2> QED BY <2>3, <2>4 DEF DxRest
<1>4. CASE Dxc!DelayPasses \/ (\E c \in Clients : Dxc!Worker(c) \/ Dxc!LinkBreaks(c) \/ Dxc!Recycle(c))
  <2>1. UNCHANGED <<want, joining, saves>>
    <3>1. CASE Dxc!DelayPasses
      BY <3>1 DEF Dxc!DelayPasses
    <3>2. ASSUME NEW c \in Clients, Dxc!Worker(c) PROVE Dxc!OnlyConn
      BY <3>2, Zenon DEF Dxc!Worker, Dxc!CmdStart, Dxc!CmdDialed, Dxc!ReaderEnds, Dxc!ReconnectLoop
    <3>3. ASSUME NEW c \in Clients, Dxc!LinkBreaks(c) PROVE Dxc!OnlyConn
      BY <3>3, Zenon DEF Dxc!LinkBreaks
    <3>4. ASSUME NEW c \in Clients, Dxc!Recycle(c) PROVE UNCHANGED <<want, joining, saves>>
      BY <3>4, Zenon DEF Dxc!Recycle
    <3> QED BY <1>4, <3>1, <3>2, <3>3, <3>4 DEF Dxc!OnlyConn
  <2> QED BY <1>0, <2>1
<1>5. CASE UNCHANGED Dxc!vars
  BY <1>0, <1>5 DEF Dxc!vars
<1> QED BY <1>1, <1>2, <1>3, <1>4, <1>5 DEF Dxc!Next

\* They hold at the start, and complete the type.
LEMMA DxRestStart == ASSUME DxAssumption, Dxc!Init PROVE DxRest
<1>1. PICK t : t = TRUE
  OBVIOUS
<1>2. want = [enabled |-> t, inet |-> t] /\ t \in BOOLEAN
  BY <1>1 DEF Dxc!Init
<1>3. want \in [enabled : BOOLEAN, inet : BOOLEAN]
  BY ONLY <1>2
<1> QED BY <1>3 DEF Dxc!Init, DxRest, DxAssumption

\* With the invariant they are the type.
LEMMA DxTyped == ASSUME DxInv(ui, cmd, conn), DxRest PROVE Dxc!TypeOK
  BY DEF DxInv, DxTypes, UIs, Cmds, Conns, DxRest, Dxc!TypeOK

\* APRSLink: the events, the timer, and what beacons have stamped.  A beacon that is
\* on has the client it sends by.
APRSRest ==
    /\ tx \in SUBSET Books
    /\ restart \in [timer : BOOLEAN, token : BOOLEAN]
    /\ events \in Seq([peer : Peers, book : Books]) /\ Len(events) <= ChanCap
    /\ stamped \in [Books -> SUBSET Books]
    /\ changes \in 0..MaxChanges
    /\ own.beacon.on => own.beacon.peer \in Peers

\* A restart leaves no beacon, the one there was, or one of the new client.
LEMMA BeaconHasPeer ==
  ASSUME ApAssumption, APRSInv, APRSRest, NEW set, NEW s \in APRS!MaybeRestartAPRS(APRS!Held, set)
  PROVE  s.own.beacon.on => s.own.beacon.peer \in Peers
<1>1. CASE ~set.on
  <2>1. PICK q : q = APRS!StopBeacon(APRS!StopPruner(own))
    OBVIOUS
  <2>2. q \in Owns /\ ~q.beacon.on
    BY <2>1, QuietIs DEF APRSInv, ApInv
  <2>3. s.own = [q EXCEPT !.peer = NoPeer, !.cache = FALSE, !.behind = FALSE]
    BY <1>1, <2>1 DEF APRS!MaybeRestartAPRS, APRS!StopAPRS, APRS!Held
  <2>4. s.own.beacon = q.beacon
    BY ONLY <2>2, <2>3 DEF Owns
  <2> QED BY <2>2, <2>4
<1>2. CASE set.on /\ ~set.inet
  BY <1>2 DEF APRS!MaybeRestartAPRS, APRS!StartAPRS, APRS!Held, APRSRest
<1>3. CASE set.on /\ set.inet /\ s \in APRS!EarlyReturns(APRS!Held, set.service)
  <2>0. PICK o, k : o = own /\ k = peer
    OBVIOUS
  <2>1. PICK c : s = [Has(o, k) EXCEPT !.own.behind = TRUE, !.own.cache = c]
    BY <1>3, <2>0 DEF APRS!EarlyReturns, APRS!Held, Has
  <2>2. PICK t : t = TRUE
    OBVIOUS
  <2>3. s.own = [o EXCEPT !.behind = t, !.cache = c] /\ o \in Owns
    BY <2>0, <2>1, <2>2 DEF Has, APRSInv, ApInv
  <2>4. s.own.beacon = o.beacon
    BY ONLY <2>3 DEF Owns
  <2> QED BY <2>0, <2>4 DEF APRSRest
<1>4. CASE set.on /\ set.inet /\ s \notin APRS!EarlyReturns(APRS!Held, set.service)
  <2>1. PICK p \in Peers : s.own.beacon = IF book \in tx THEN [on |-> TRUE, book |-> book, peer |-> p] ELSE own.beacon
    <3>1. PICK o, k, f : o = own /\ k = peer /\ f = (book \in tx)
      OBVIOUS
    <3>2. s \in APRS!StartAPRS(Has(o, k), f, set) /\ s \notin APRS!EarlyReturns(Has(o, k), set.service)
      BY <1>4, <3>1 DEF APRS!MaybeRestartAPRS, APRS!Held, Has
    <3>3. PICK p \in Peers : s = [own |-> [peer |-> p, cache |-> TRUE, pruner |-> TRUE, behind |-> FALSE,
                       beacon |-> IF f THEN [on |-> TRUE, book |-> book, peer |-> p] ELSE o.beacon],
             peer |-> [APRS!Replaced(Has(o, k), set.service) EXCEPT ![p] =
                          [st |-> "dial", stop |-> "no", kind |-> set.service, book |-> book]]]
      BY <1>4, <3>2 DEF APRS!StartAPRS, Has
    <3> QED BY <3>1, <3>3
  <2> QED BY <2>1 DEF APRSRest
<1> QED BY <1>1, <1>2, <1>3, <1>4

\* Arming the timer, or clearing the token.
LEMMA TimerIs ==
  ASSUME restart \in [timer : BOOLEAN, token : BOOLEAN],
         NEW t \in BOOLEAN, restart' \in {[restart EXCEPT !.timer = t], [restart EXCEPT !.token = t]}
  PROVE  restart' \in [timer : BOOLEAN, token : BOOLEAN]
  OBVIOUS

\* Every step keeps them.
LEMMA APRSRestStep ==
  ASSUME LinksBounds, ApAssumption, APRSInv, APRSRest, [APRS!APRSNext]_(APRS!aprsVars)
  PROVE  APRSRest'
<1>t. /\ tx \in SUBSET Books /\ restart \in [timer : BOOLEAN, token : BOOLEAN]
      /\ events \in Seq([peer : Peers, book : Books]) /\ Len(events) <= ChanCap
      /\ stamped \in [Books -> SUBSET Books] /\ changes \in 0..MaxChanges
      /\ own.beacon.on => own.beacon.peer \in Peers
  BY DEF APRSRest
<1>c. APRS!Changing => changes' \in 0..MaxChanges
  BY <1>t DEF APRS!Changing, LinksBounds
<1>s. ASSUME APRS!ScheduleAPRSRestart PROVE restart' \in [timer : BOOLEAN, token : BOOLEAN]
  <2>1. PICK t \in BOOLEAN : t = TRUE
    OBVIOUS
  <2>2. restart' = [restart EXCEPT !.timer = t]
    BY <1>s, <2>1 DEF APRS!ScheduleAPRSRestart
  <2> QED BY <1>t, <2>2, TimerIs
<1>b. ASSUME NEW set, NEW s \in APRS!MaybeRestartAPRS(APRS!Held, set), APRS!Becoming(s)
      PROVE  own'.beacon.on => own'.beacon.peer \in Peers
  BY <1>b, BeaconHasPeer DEF APRS!Becoming
<1>0. CASE UNCHANGED APRS!aprsVars
  BY <1>0, <1>t DEF APRS!aprsVars, APRSRest
<1>1. CASE APRS!RunPendingAPRS
  <2>1. stamped' \in [Books -> SUBSET Books]
    <3>1. \A b \in Books : APRS!Stamps(b) \in SUBSET Books
      <4>1. \A i \in DOMAIN events : events[i].book \in Books
        <5>1. \A i \in 1..Len(events) : events[i] \in [peer : Peers, book : Books]
          BY <1>t, ElementOfSeq, Zenon
        <5>2. DOMAIN events = 1..Len(events)
          BY <1>t
        <5> QED BY <5>1, <5>2
      <4> QED BY <1>t, <4>1 DEF APRS!Stamps
    <3> QED BY <1>1, <3>1 DEF APRS!RunPendingAPRS
  <2>2. own'.beacon.on => own'.beacon.peer \in Peers
    BY <1>1, <1>b, <1>t DEF APRS!RunPendingAPRS
  <2>3. restart' \in [timer : BOOLEAN, token : BOOLEAN]
    <3>1. PICK t \in BOOLEAN : t = FALSE
      OBVIOUS
    <3>2. restart' = [restart EXCEPT !.token = t]
      BY <1>1, <3>1 DEF APRS!RunPendingAPRS
    <3> QED BY <1>t, <3>2, TimerIs
  <2>4. events' = <<>> /\ UNCHANGED <<tx, changes>>
    BY <1>1 DEF APRS!RunPendingAPRS
  <2>5. events' \in Seq([peer : Peers, book : Books]) /\ Len(events') <= ChanCap
    BY <2>4 DEF LinksBounds
  <2> QED BY <1>t, <2>1, <2>2, <2>3, <2>4, <2>5 DEF APRSRest
<1>2. CASE APRS!SaveIntegrations \/ APRS!FixAcquired
  <2>1. APRS!Changing /\ UNCHANGED <<tx, restart, events, stamped>>
    BY <1>2 DEF APRS!SaveIntegrations, APRS!FixAcquired
  <2>2. \E set : \E s \in APRS!MaybeRestartAPRS(APRS!Held, set) : APRS!Becoming(s)
    BY <1>2 DEF APRS!SaveIntegrations, APRS!FixAcquired
  <2> QED BY <1>b, <1>c, <1>t, <2>1, <2>2 DEF APRSRest
<1>3. CASE APRS!InetChanges
  <2>1. APRS!Changing /\ UNCHANGED <<tx, restart, events, stamped>>
    BY <1>3 DEF APRS!InetChanges
  <2>2. CASE asked.inet
    BY <1>3, <1>c, <1>t, <2>1, <2>2 DEF APRS!InetChanges, APRSRest
  <2>3. CASE ~asked.inet
    <3>1. PICK set : set = asked'
      OBVIOUS
    <3>2. \E s \in APRS!MaybeRestartAPRS(APRS!Held, set) : APRS!Becoming(s)
      BY <1>3, <2>3, <3>1 DEF APRS!InetChanges
    <3> QED BY <1>b, <1>c, <1>t, <2>1, <3>2 DEF APRSRest
  <2> QED BY <2>2, <2>3
<1>4. ASSUME NEW b \in Books, APRS!SwitchLogbook(b) PROVE APRSRest'
  <2>1. PICK q : q = APRS!StopBeacon(APRS!StopPruner(own))
    OBVIOUS
  <2>2. ~q.beacon.on /\ own' = q
    BY <1>4, <2>1, QuietIs DEF APRSInv, ApInv, APRS!SwitchLogbook
  <2> QED BY <1>4, <1>c, <1>s, <1>t, <2>2 DEF APRS!SwitchLogbook, APRSRest
<1>5. ASSUME NEW b \in Books, APRS!SaveLogbook(b) PROVE APRSRest'
  <2>1. tx' \in SUBSET Books
    BY <1>5, <1>t DEF APRS!SaveLogbook
  <2>2. restart' \in [timer : BOOLEAN, token : BOOLEAN]
    BY <1>5, <1>s, <1>t DEF APRS!SaveLogbook
  <2>3. own'.beacon = own.beacon
    <3>1. own \in Owns
      BY DEF APRSInv, ApInv
    <3>2. own' = own \/ \E v : own' = [own EXCEPT !.behind = v]
      BY <1>5, Zenon DEF APRS!SaveLogbook
    <3> QED BY ONLY <3>1, <3>2 DEF Owns
  <2>4. APRS!Changing /\ UNCHANGED <<events, stamped>>
    BY <1>5 DEF APRS!SaveLogbook
  <2> QED BY <1>c, <1>t, <2>1, <2>2, <2>3, <2>4 DEF APRSRest
<1>6. CASE APRS!TimerFires
  <2>1. restart' \in [timer : BOOLEAN, token : BOOLEAN]
    <3>1. PICK t, f \in BOOLEAN : t = TRUE /\ f = FALSE
      OBVIOUS
    <3>2. restart' = [timer |-> f, token |-> t]
      BY <1>6, <3>1 DEF APRS!TimerFires
    <3> QED BY ONLY <3>2, t \in BOOLEAN, f \in BOOLEAN
  <2> QED BY <1>6, <1>t, <2>1 DEF APRS!TimerFires, APRSRest
<1>7. CASE APRS!BeaconSends
  <2>1. UNCHANGED <<tx, own, restart, stamped, changes>>
    BY <1>7 DEF APRS!BeaconSends
  <2>2. events' \in Seq([peer : Peers, book : Books]) /\ Len(events') <= ChanCap
    <3>1. CASE Len(events) < ChanCap
      <4>1. PICK e : e = [peer |-> own.beacon.peer, book |-> own.beacon.book]
        OBVIOUS
      <4>2. own.beacon.book \in Books /\ own.beacon.peer \in Peers
        BY <1>7, <1>t DEF APRS!BeaconSends, APRSInv, ApInv, Owns, Beacons
      <4>3. e \in [peer : Peers, book : Books]
        BY ONLY <4>1, <4>2
      <4>4. events' = Append(events, e)
        BY <1>7, <3>1, <4>1 DEF APRS!BeaconSends
      <4> QED BY <1>t, <3>1, <4>3, <4>4 DEF LinksBounds
    <3>2. CASE ~(Len(events) < ChanCap)
      BY <1>7, <1>t, <3>2 DEF APRS!BeaconSends
    <3> QED BY <3>1, <3>2
  <2> QED BY <1>t, <2>1, <2>2 DEF APRSRest
<1>8. ASSUME NEW p \in Peers, APRS!PeerStep(p) \/ APRS!BackgroundStop(p) \/ APRS!LosesLink(p) \/ APRS!Reuse(p)
      PROVE  APRSRest'
  <2>1. UNCHANGED <<tx, own, restart, events, stamped, changes>>
    BY <1>8 DEF APRS!PeerStep, APRS!BackgroundStop, APRS!LosesLink, APRS!Reuse, APRS!Connects, APRS!Redials,
       APRS!LoopEnds, APRS!OnlyPeer
  <2> QED BY <1>t, <2>1 DEF APRSRest
<1>9. CASE APRS!StationSynced
  BY <1>9, <1>c, <1>s, <1>t DEF APRS!StationSynced, APRSRest
<1> QED BY <1>0, <1>1, <1>2, <1>3, <1>4, <1>5, <1>6, <1>7, <1>8, <1>9 DEF APRS!APRSNext

\* They hold at the start, and complete the type.
LEMMA APRSRestStart == ASSUME LinksBounds, ApAssumption, APRS!APRSInit PROVE APRSRest
<1>1. PICK f, t \in BOOLEAN : f = FALSE /\ t = TRUE
  OBVIOUS
<1>2. restart = [timer |-> f, token |-> t]
  BY <1>1 DEF APRS!APRSInit
<1>3. restart \in [timer : BOOLEAN, token : BOOLEAN]
  BY ONLY <1>2, f \in BOOLEAN, t \in BOOLEAN
<1>4. ~own.beacon.on
  <2>1. PICK b, c, o : b = APRS!NoBeacon /\ c = (CHOOSE x \in Books : TRUE)
                       /\ o = [peer |-> NoPeer, cache |-> FALSE, pruner |-> FALSE, behind |-> FALSE, beacon |-> b]
    OBVIOUS
  <2>2. b = [on |-> FALSE, book |-> c, peer |-> NoPeer]
    BY <2>1 DEF APRS!NoBeacon
  <2>3. own = o /\ o.beacon = b /\ ~b.on
    BY <2>1, <2>2 DEF APRS!APRSInit
  <2> QED BY <2>3
<1>5. events \in Seq([peer : Peers, book : Books]) /\ Len(events) <= ChanCap
  BY DEF APRS!APRSInit, LinksBounds
<1>6. changes \in 0..MaxChanges /\ tx \in SUBSET Books /\ stamped \in [Books -> SUBSET Books]
  BY DEF APRS!APRSInit, LinksBounds
<1> QED BY <1>3, <1>4, <1>5, <1>6 DEF APRSRest

\* With the invariant they are the type.
LEMMA APRSTyped == ASSUME APRSInv, APRSRest PROVE APRS!APRSTypeOK
<1>1. /\ asked \in [on : BOOLEAN, service : APRS!Services, inet : BOOLEAN] /\ book \in Books
      /\ peer \in [Peers -> [st : {"free", "dial", "up", "wait", "refused", "ended"},
                             stop : {"no", "asked", "done"}, kind : APRS!Services, book : Books]]
      /\ own \in [peer : Peers \cup {NoPeer}, cache : BOOLEAN, pruner : BOOLEAN, behind : BOOLEAN,
                  beacon : [on : BOOLEAN, book : Books, peer : Peers \cup {NoPeer}]]
  BY DEF APRSInv, ApInv, Orders, PeerStates, Owns, Beacons
<1> QED BY <1>1 DEF APRSRest, APRS!APRSTypeOK

\* RigControl: the age of a poll, what is known of a radio, and what is in flight,
\* over the clients of an instance.
DeviceRest(radios) ==
    /\ \A d \in Rig!Devices : dev[d].age \in 0..StuckTicks + 1
    /\ info \in [Rig!Facts -> radios \cup {NoRadio}]
    /\ polls \in [radios -> 0..2]
    /\ fetches \subseteq Rig!Facts \X (radios \cup {NoRadio})
    /\ alive \subseteq radios
    /\ refreshed \in 0..MaxRefresh

\* The age of the one device that changes: as it was, none, or one more below the limit.
Older(a, b) == b \in {a, 0} \/ (a <= StuckTicks /\ b = a + 1)

\* A device whose age moves so keeps it within the limit.
LEMMA AgesKept ==
  ASSUME LinksBounds, NEW c, DeviceInv(c), \A d \in Rig!Devices : dev[d].age \in 0..StuckTicks + 1,
         NEW d \in Rig!Devices, NEW e, dev' = [dev EXCEPT ![d] = e], Older(dev[d].age, e.age)
  PROVE  \A g \in Rig!Devices : dev'[g].age \in 0..StuckTicks + 1
<1> TAKE g \in Rig!Devices
<1>1. CASE g = d
  <2>1. dev'[g] = e
    BY <1>1 DEF DeviceInv
  <2>2. dev[d].age \in 0..StuckTicks + 1
    OBVIOUS
  <2> QED BY <2>1, <2>2 DEF Older, LinksBounds
<1>2. CASE g # d
  BY <1>2 DEF DeviceInv
<1> QED BY <1>1, <1>2

\* Every step of the rig keeps them.
LEMMA RigRestStep ==
  ASSUME LinksBounds, NEW radios, radios = Rig!Radios, NoRadio \notin radios, NEW c, c = radios \cup {NoRadio},
         DeviceInv(c), DeviceRest(radios), [Rig!RigNext]_(Rig!rigVars)
  PROVE  DeviceRest(radios)'
<1>t. /\ \A d \in Rig!Devices : dev[d] \in Linked(c) /\ dev[d].client \in c
      /\ \A d \in Rig!Devices : dev[d].age \in 0..StuckTicks + 1
      /\ info \in [Rig!Facts -> c] /\ polls \in [radios -> 0..2] /\ fetches \subseteq Rig!Facts \X c
      /\ alive \subseteq radios /\ refreshed \in 0..MaxRefresh
  BY DEF DeviceInv, DeviceRest, Linked
<1>d. "rig" \in Rig!Devices /\ "rotor" \in Rig!Devices
  BY DEF Rig!Devices
<1>q. ASSUME UNCHANGED dev PROVE \A d \in Rig!Devices : dev'[d].age \in 0..StuckTicks + 1
  BY <1>q, <1>t
<1>1. ASSUME NEW d \in Rig!Devices, Rig!Refresh(d) PROVE DeviceRest(radios)'
  <2>0. PICK r : dev' = [dev EXCEPT ![d] = [dev[d] EXCEPT !.client = r, !.connected = FALSE, !.by = NoRadio]]
    BY <1>1, Zenon DEF Rig!Refresh
  <2>1. PICK e : e = [dev[d] EXCEPT !.client = r, !.connected = FALSE, !.by = NoRadio] /\ dev' = [dev EXCEPT ![d] = e]
    BY <2>0
  <2>2. e.age = dev[d].age
    BY <1>t, <2>1 DEF Linked
  <2>3. \A g \in Rig!Devices : dev'[g].age \in 0..StuckTicks + 1
    BY <1>t, <2>1, <2>2, AgesKept DEF Older
  <2>4. info' \in [Rig!Facts -> c]
    BY <1>1, <1>t DEF Rig!Refresh
  <2>5. refreshed' \in 0..MaxRefresh /\ UNCHANGED <<polls, fetches, alive>>
    BY <1>1, <1>t DEF Rig!Refresh, LinksBounds
  <2> QED BY <1>t, <2>3, <2>4, <2>5 DEF DeviceRest
<1>2. CASE Rig!PollRig
  <2>1. PICK g : g = dev["rig"].client
    OBVIOUS
  <2>2. g \in radios /\ polls[g] < 2 /\ polls' = [polls EXCEPT ![g] = @ + 1] /\ UNCHANGED <<info, fetches, alive, refreshed>>
    BY <1>2, <1>d, <1>t, <2>1 DEF Rig!PollRig
  <2>3. polls' \in [radios -> 0..2]
    BY <1>t, <2>2
  <2>4. PICK e : e = [dev["rig"] EXCEPT !.polling = TRUE, !.age = 0]
    OBVIOUS
  <2>5. e.age = 0
    BY <1>d, <1>t, <2>4 DEF Linked
  <2>6. dev' = [dev EXCEPT !["rig"] = e]
    BY <1>2, <2>4 DEF Rig!PollRig
  <2>7. \A d \in Rig!Devices : dev'[d].age \in 0..StuckTicks + 1
    BY <1>d, <1>t, <2>5, <2>6, AgesKept DEF Older
  <2> QED BY <1>t, <2>2, <2>3, <2>7 DEF DeviceRest
<1>3. CASE Rig!PollAges
  <2>1. PICK e : e = [dev["rig"] EXCEPT !.age = dev["rig"].age + 1]
    OBVIOUS
  <2>2. e.age = dev["rig"].age + 1 /\ dev["rig"].age <= StuckTicks /\ dev' = [dev EXCEPT !["rig"] = e]
    BY <1>3, <1>d, <1>t, <2>1 DEF Rig!PollAges, Linked
  <2>3. \A d \in Rig!Devices : dev'[d].age \in 0..StuckTicks + 1
    BY <1>d, <1>t, <2>2, AgesKept DEF Older
  <2> QED BY <1>3, <1>t, <2>3 DEF DeviceRest, Rig!PollAges
<1>4. CASE Rig!PollRotor
  <2>1. PICK r : r = dev["rotor"].client
    OBVIOUS
  <2>2. r \in radios /\ polls' = [polls EXCEPT ![r] = 1] /\ UNCHANGED <<dev, info, fetches, alive, refreshed>>
    BY <1>4, <1>d, <1>t, <2>1 DEF Rig!PollRotor
  <2>3. polls' \in [radios -> 0..2]
    BY <1>t, <2>2
  <2> QED BY <1>q, <1>t, <2>2, <2>3 DEF DeviceRest
<1>5. ASSUME NEW d \in Rig!Devices, NEW r \in radios, Rig!ApplyPoll(d, r) PROVE DeviceRest(radios)'
  <2>1. polls' \in [radios -> 0..2]
    BY <1>5, <1>t DEF Rig!ApplyPoll, Rig!Answered
  <2>2. UNCHANGED <<alive, refreshed>>
    BY <1>5 DEF Rig!ApplyPoll
  <2>3. PICK u : u = Rig!Unflagged(d)
    OBVIOUS
  <2>4. u = [dev[d] EXCEPT !.polling = FALSE] /\ u.age = dev[d].age
    BY <1>t, <2>3 DEF Rig!Unflagged, Linked
  <2>5. PICK e : dev' = [dev EXCEPT ![d] = e] /\ e.age = dev[d].age
    <3>1. \/ dev' = [dev EXCEPT ![d] = u]
          \/ dev' = [dev EXCEPT ![d] = [u EXCEPT !.connected = FALSE, !.by = NoRadio]]
          \/ dev' = [dev EXCEPT ![d] = [u EXCEPT !.connected = TRUE, !.by = r]]
      BY <1>5, <2>3, Zenon DEF Rig!ApplyPoll
    <3>2. /\ [u EXCEPT !.connected = FALSE, !.by = NoRadio].age = u.age
          /\ [u EXCEPT !.connected = TRUE, !.by = r].age = u.age
      BY <1>t, <2>4 DEF Linked
    <3> QED BY <2>4, <3>1, <3>2
  <2>6. \A g \in Rig!Devices : dev'[g].age \in 0..StuckTicks + 1
    BY <1>t, <2>5, AgesKept DEF Older
  <2>7. info' \in [Rig!Facts -> c]
    BY <1>5, <1>t DEF Rig!ApplyPoll
  <2>8. fetches' \subseteq Rig!Facts \X c
    <3>1. fetches' = fetches \/ fetches' = fetches \cup {<<f, IF d = "rotor" THEN r ELSE NoRadio>> : f \in Rig!Missing(d)}
      BY <1>5, Zenon DEF Rig!ApplyPoll
    <3>2. Rig!Missing(d) \subseteq Rig!Facts
      BY DEF Rig!Missing
    <3> QED BY <1>t, <3>1, <3>2
  <2> QED BY <1>t, <2>1, <2>2, <2>6, <2>7, <2>8 DEF DeviceRest
<1>6. ASSUME NEW r \in radios, Rig!RadioComesOrGoes(r) PROVE DeviceRest(radios)'
  BY <1>6, <1>q, <1>t DEF Rig!RadioComesOrGoes, DeviceRest
<1>7. ASSUME NEW f \in Rig!Facts, Rig!FetchRuns(f) PROVE DeviceRest(radios)'
  <2>1. f[1] \in Rig!Devices
    BY DEF Rig!Facts, Rig!Devices
  <2>2. fetches' \subseteq Rig!Facts \X c
    BY <1>7, <1>t, <2>1 DEF Rig!FetchRuns
  <2> QED BY <1>7, <1>q, <1>t, <2>2 DEF Rig!FetchRuns, DeviceRest
<1>8. ASSUME NEW f \in Rig!Facts, NEW r \in radios, Rig!FetchDone(f, r) PROVE DeviceRest(radios)'
  <2>1. info' \in [Rig!Facts -> c] /\ fetches' \subseteq Rig!Facts \X c
    BY <1>8, <1>t DEF Rig!FetchDone
  <2> QED BY <1>8, <1>q, <1>t, <2>1 DEF Rig!FetchDone, DeviceRest
<1>9. CASE UNCHANGED Rig!rigVars
  BY <1>9, <1>q, <1>t DEF Rig!rigVars, DeviceRest
<1> QED BY <1>1, <1>2, <1>3, <1>4, <1>5, <1>6, <1>7, <1>8, <1>9 DEF Rig!RigNext

\* Every step of the rotator does.
LEMMA RotorRestStep ==
  ASSUME LinksBounds, NEW radios, radios = Rotor!Radios, NoRadio \notin radios, NEW c, c = radios \cup {NoRadio},
         DeviceInv(c), DeviceRest(radios), [Rotor!RigNext]_(Rotor!rigVars)
  PROVE  DeviceRest(radios)'
<1>t. /\ \A d \in Rig!Devices : dev[d] \in Linked(c) /\ dev[d].client \in c
      /\ \A d \in Rig!Devices : dev[d].age \in 0..StuckTicks + 1
      /\ info \in [Rig!Facts -> c] /\ polls \in [radios -> 0..2] /\ fetches \subseteq Rig!Facts \X c
      /\ alive \subseteq radios /\ refreshed \in 0..MaxRefresh
  BY DEF DeviceInv, DeviceRest, Linked
<1>e. Rotor!Devices = Rig!Devices /\ Rotor!Facts = Rig!Facts
  BY DEF Rig!Devices, Rotor!Devices, Rig!Facts, Rotor!Facts
<1>d. "rig" \in Rig!Devices /\ "rotor" \in Rig!Devices
  BY DEF Rig!Devices
<1>q. ASSUME UNCHANGED dev PROVE \A d \in Rig!Devices : dev'[d].age \in 0..StuckTicks + 1
  BY <1>q, <1>t
<1>1. ASSUME NEW d \in Rig!Devices, Rotor!Refresh(d) PROVE DeviceRest(radios)'
  <2>0. PICK r : dev' = [dev EXCEPT ![d] = [dev[d] EXCEPT !.client = r, !.connected = FALSE, !.by = NoRadio]]
    BY <1>1, Zenon DEF Rotor!Refresh
  <2>1. PICK e : e = [dev[d] EXCEPT !.client = r, !.connected = FALSE, !.by = NoRadio] /\ dev' = [dev EXCEPT ![d] = e]
    BY <2>0
  <2>2. e.age = dev[d].age
    BY <1>t, <2>1 DEF Linked
  <2>3. \A g \in Rig!Devices : dev'[g].age \in 0..StuckTicks + 1
    BY <1>t, <2>1, <2>2, AgesKept DEF Older
  <2>4. info' \in [Rig!Facts -> c]
    BY <1>e, <1>1, <1>t DEF Rotor!Refresh
  <2>5. refreshed' \in 0..MaxRefresh /\ UNCHANGED <<polls, fetches, alive>>
    BY <1>e, <1>1, <1>t DEF Rotor!Refresh, LinksBounds
  <2> QED BY <1>t, <2>3, <2>4, <2>5 DEF DeviceRest
<1>2. CASE Rotor!PollRig
  <2>1. PICK g : g = dev["rig"].client
    OBVIOUS
  <2>2. g \in radios /\ polls[g] < 2 /\ polls' = [polls EXCEPT ![g] = @ + 1] /\ UNCHANGED <<info, fetches, alive, refreshed>>
    BY <1>e, <1>2, <1>d, <1>t, <2>1 DEF Rotor!PollRig
  <2>3. polls' \in [radios -> 0..2]
    BY <1>t, <2>2
  <2>4. PICK e : e = [dev["rig"] EXCEPT !.polling = TRUE, !.age = 0]
    OBVIOUS
  <2>5. e.age = 0
    BY <1>d, <1>t, <2>4 DEF Linked
  <2>6. dev' = [dev EXCEPT !["rig"] = e]
    BY <1>e, <1>2, <2>4 DEF Rotor!PollRig
  <2>7. \A d \in Rig!Devices : dev'[d].age \in 0..StuckTicks + 1
    BY <1>d, <1>t, <2>5, <2>6, AgesKept DEF Older
  <2> QED BY <1>t, <2>2, <2>3, <2>7 DEF DeviceRest
<1>3. CASE Rotor!PollAges
  <2>1. PICK e : e = [dev["rig"] EXCEPT !.age = dev["rig"].age + 1]
    OBVIOUS
  <2>2. e.age = dev["rig"].age + 1 /\ dev["rig"].age <= StuckTicks /\ dev' = [dev EXCEPT !["rig"] = e]
    BY <1>e, <1>3, <1>d, <1>t, <2>1 DEF Rotor!PollAges, Linked
  <2>3. \A d \in Rig!Devices : dev'[d].age \in 0..StuckTicks + 1
    BY <1>d, <1>t, <2>2, AgesKept DEF Older
  <2> QED BY <1>3, <1>t, <2>3 DEF DeviceRest, Rotor!PollAges
<1>4. CASE Rotor!PollRotor
  <2>1. PICK r : r = dev["rotor"].client
    OBVIOUS
  <2>2. r \in radios /\ polls' = [polls EXCEPT ![r] = 1] /\ UNCHANGED <<dev, info, fetches, alive, refreshed>>
    BY <1>e, <1>4, <1>d, <1>t, <2>1 DEF Rotor!PollRotor
  <2>3. polls' \in [radios -> 0..2]
    BY <1>t, <2>2
  <2> QED BY <1>q, <1>t, <2>2, <2>3 DEF DeviceRest
<1>5. ASSUME NEW d \in Rig!Devices, NEW r \in radios, Rotor!ApplyPoll(d, r) PROVE DeviceRest(radios)'
  <2>1. polls' \in [radios -> 0..2]
    BY <1>e, <1>5, <1>t DEF Rotor!ApplyPoll, Rotor!Answered
  <2>2. UNCHANGED <<alive, refreshed>>
    BY <1>e, <1>5 DEF Rotor!ApplyPoll
  <2>3. PICK u : u = Rotor!Unflagged(d)
    OBVIOUS
  <2>4. u = [dev[d] EXCEPT !.polling = FALSE] /\ u.age = dev[d].age
    BY <1>t, <2>3 DEF Rotor!Unflagged, Linked
  <2>5. PICK e : dev' = [dev EXCEPT ![d] = e] /\ e.age = dev[d].age
    <3>1. \/ dev' = [dev EXCEPT ![d] = u]
          \/ dev' = [dev EXCEPT ![d] = [u EXCEPT !.connected = FALSE, !.by = NoRadio]]
          \/ dev' = [dev EXCEPT ![d] = [u EXCEPT !.connected = TRUE, !.by = r]]
      BY <1>e, <1>5, <2>3, Zenon DEF Rotor!ApplyPoll
    <3>2. /\ [u EXCEPT !.connected = FALSE, !.by = NoRadio].age = u.age
          /\ [u EXCEPT !.connected = TRUE, !.by = r].age = u.age
      BY <1>t, <2>4 DEF Linked
    <3> QED BY <2>4, <3>1, <3>2
  <2>6. \A g \in Rig!Devices : dev'[g].age \in 0..StuckTicks + 1
    BY <1>t, <2>5, AgesKept DEF Older
  <2>7. info' \in [Rig!Facts -> c]
    BY <1>e, <1>5, <1>t DEF Rotor!ApplyPoll
  <2>8. fetches' \subseteq Rig!Facts \X c
    <3>1. fetches' = fetches \/ fetches' = fetches \cup {<<f, IF d = "rotor" THEN r ELSE NoRadio>> : f \in Rotor!Missing(d)}
      BY <1>e, <1>5, Zenon DEF Rotor!ApplyPoll
    <3>2. Rotor!Missing(d) \subseteq Rig!Facts
      BY <1>e DEF Rotor!Missing
    <3> QED BY <1>t, <3>1, <3>2
  <2> QED BY <1>t, <2>1, <2>2, <2>6, <2>7, <2>8 DEF DeviceRest
<1>6. ASSUME NEW r \in radios, Rotor!RadioComesOrGoes(r) PROVE DeviceRest(radios)'
  BY <1>e, <1>6, <1>q, <1>t DEF Rotor!RadioComesOrGoes, DeviceRest
<1>7. ASSUME NEW f \in Rig!Facts, Rotor!FetchRuns(f) PROVE DeviceRest(radios)'
  <2>1. f[1] \in Rig!Devices
    BY DEF Rig!Facts, Rig!Devices
  <2>2. fetches' \subseteq Rig!Facts \X c
    BY <1>e, <1>7, <1>t, <2>1 DEF Rotor!FetchRuns
  <2> QED BY <1>e, <1>7, <1>q, <1>t, <2>2 DEF Rotor!FetchRuns, DeviceRest
<1>8. ASSUME NEW f \in Rig!Facts, NEW r \in radios, Rotor!FetchDone(f, r) PROVE DeviceRest(radios)'
  <2>1. info' \in [Rig!Facts -> c] /\ fetches' \subseteq Rig!Facts \X c
    BY <1>e, <1>8, <1>t DEF Rotor!FetchDone
  <2> QED BY <1>e, <1>8, <1>q, <1>t, <2>1 DEF Rotor!FetchDone, DeviceRest
<1>9. CASE UNCHANGED Rotor!rigVars
  BY <1>e, <1>9, <1>q, <1>t DEF Rotor!rigVars, DeviceRest
<1> QED BY <1>e, <1>1, <1>2, <1>3, <1>4, <1>5, <1>6, <1>7, <1>8, <1>9 DEF Rotor!RigNext

\* They hold at the start.
LEMMA DeviceRestStart ==
  ASSUME LinksBounds, NEW radios, (Rig!RigInit /\ radios = Rig!Radios) \/ (Rotor!RigInit /\ radios = Rotor!Radios)
  PROVE  DeviceRest(radios)
<1>1. PICK x : x = Rig!NoDevice
  OBVIOUS
<1>2. x.age = 0
  BY <1>1 DEF Rig!NoDevice
<1>3. /\ dev = [d \in Rig!Devices |-> x] /\ info = [f \in Rig!Facts |-> NoRadio] /\ polls = [r \in radios |-> 0]
      /\ fetches = {} /\ alive = radios /\ refreshed = 0
  BY <1>1 DEF Rig!RigInit, Rotor!RigInit, Rig!NoDevice, Rotor!NoDevice, Rig!Devices, Rotor!Devices, Rig!Facts, Rotor!Facts
<1> QED BY <1>2, <1>3 DEF DeviceRest, LinksBounds

\* With the devices' invariant they are the type.
LEMMA DeviceTyped ==
  ASSUME NEW radios, NEW c, c = radios \cup {NoRadio}, DeviceInv(c), DeviceRest(radios)
  PROVE  (radios = Rig!Radios => Rig!RigTypeOK) /\ (radios = Rotor!Radios => Rotor!RigTypeOK)
<1>1. \A d \in Rig!Devices : dev[d] \in [client : c, connected : BOOLEAN, by : c, polling : BOOLEAN, age : 0..StuckTicks + 1]
  <2> TAKE d \in Rig!Devices
  <2>1. dev[d] \in Linked(c) /\ dev[d].age \in 0..StuckTicks + 1
    BY DEF DeviceInv, DeviceRest
  <2> QED BY ONLY <2>1 DEF Linked
<1>2. dev \in [Rig!Devices -> [client : c, connected : BOOLEAN, by : c, polling : BOOLEAN, age : 0..StuckTicks + 1]]
  BY <1>1 DEF DeviceInv
<1>3. Rotor!Devices = Rig!Devices /\ Rotor!Facts = Rig!Facts
  BY DEF Rig!Devices, Rotor!Devices, Rig!Facts, Rotor!Facts
<1> QED BY <1>2, <1>3 DEF DeviceRest, Rig!RigTypeOK, Rotor!RigTypeOK

\* RigLine, tuning: what the rig is set to.
DialIs == dial \in [freq : Tunes \cup {NoTune}, mode : Tunes \cup {NoTune}]

\* Every step sets a frequency or a mode that was asked for.
LEMMA DialStep == ASSUME DialIs, [Line!TuneNext]_(Line!tuneVars) PROVE DialIs'
<1>1. \/ UNCHANGED dial
      \/ \E t \in Tunes : dial' = [dial EXCEPT !.freq = t] \/ dial' = [dial EXCEPT !.mode = t]
  <2>1. ASSUME NEW t \in Tunes, Line!TuneStarts(t) \/ \E p \in Line!Panes : Line!Tune(t, p) PROVE UNCHANGED dial
    BY <2>1, Zenon DEF Line!TuneStarts, Line!Tune
  <2>2. ASSUME NEW t \in Tunes, Line!TuneSetsFreq(t) PROVE dial' = [dial EXCEPT !.freq = t]
    BY <2>2, Zenon DEF Line!TuneSetsFreq
  <2>3. ASSUME NEW t \in Tunes, Line!TuneEnds(t) PROVE UNCHANGED dial \/ dial' = [dial EXCEPT !.mode = t]
    BY <2>3, Zenon DEF Line!TuneEnds
  <2> QED BY <2>1, <2>2, <2>3 DEF Line!TuneNext, Line!tuneVars
<1>2. ASSUME NEW t \in Tunes, dial' = [dial EXCEPT !.freq = t] \/ dial' = [dial EXCEPT !.mode = t] PROVE DialIs'
  BY ONLY <1>2, DialIs DEF DialIs
<1> QED BY <1>1, <1>2 DEF DialIs

\* With the invariant of the commands it is the type.
LEMMA TuneTyped == ASSUME TuneInv, DialIs PROVE Line!TuneTypeOK
  BY DEF TuneInv, TuneStates, DialIs, Line!TuneTypeOK

\* RigLine, the connection: what may be on the line, and what a question gets.
Lines == Seq(Line!Questions \cup {"rprt", "more"})

\* What a question leaves of the answers that are there.
Outcomes(l) ==
    {[ans |-> IF n = 0 THEN "none" ELSE Head(l), rest |-> Line!AfterDrain(l, n)] :
        n \in {x \in 0..Len(l) : Len(l) - x <= MaxLate /\ (timely => x = Len(l))}}

\* A question leaves one of the outcomes of its answer, or of a report, put at the end of the line.
LEMMA CmdIs ==
  ASSUME NEW k, NEW r \in Line!Cmd(k)
  PROVE  \E reply \in {k, "rprt"} : r \in Outcomes(line \o <<reply, "more">>)
<1>1. PICK S : /\ S = {k} \cup IF k = "f" /\ timely THEN {} ELSE {"rprt"}
               /\ r \in UNION {Outcomes(line \o <<reply, "more">>) : reply \in S}
  BY DEF Line!Cmd, Outcomes
<1>2. S \subseteq {k, "rprt"}
  BY <1>1
<1> QED BY <1>1, <1>2

\* However many answers a question takes, those left fit the bound.
LEMMA CmdGives ==
  ASSUME LinksBounds, line \in Lines, NEW k \in Line!Questions, NEW r \in Line!Cmd(k)
  PROVE  r.rest \in Lines /\ Len(r.rest) <= MaxLate /\ r.ans \in Line!Kept
<1> DEFINE A == Line!Questions \cup {"rprt", "more"}
<1>9. PICK reply \in {k, "rprt"} : r \in Outcomes(line \o <<reply, "more">>)
  BY CmdIs
<1>0. PICK l : l = line \o <<reply, "more">> /\ r \in Outcomes(l)
  BY <1>9
<1>2. l \in Seq(A) /\ Len(l) \in Nat
  <2>1. <<reply, "more">> \in Seq(A)
    OBVIOUS
  <2>2. l \in Seq(A)
    BY <1>0, <2>1, ConcatProperties DEF Lines
  <2> QED BY <2>2
<1>1. PICK n \in Nat :
         /\ n <= Len(l) /\ Len(l) - n <= MaxLate
         /\ r = [ans |-> IF n = 0 THEN "none" ELSE Head(l), rest |-> Line!AfterDrain(l, n)]
  <2>1. PICK n \in 0..Len(l) : Len(l) - n <= MaxLate
           /\ r = [ans |-> IF n = 0 THEN "none" ELSE Head(l), rest |-> Line!AfterDrain(l, n)]
    BY <1>0 DEF Outcomes
  <2> QED BY <1>2, <2>1
<1>3. r.rest = SubSeq(l, n + 1, Len(l)) /\ r.ans = IF n = 0 THEN "none" ELSE Head(l)
  BY <1>1 DEF Line!AfterDrain
<1>4. r.rest \in Seq(A) /\ Len(r.rest) <= MaxLate
  <2>1. \A i \in n + 1 .. Len(l) : l[i] \in A
    <3>1. \A i \in 1..Len(l) : l[i] \in A
      BY <1>2, ElementOfSeq, Zenon
    <3> QED BY <1>1, <1>2, <3>1
  <2>2. /\ SubSeq(l, n + 1, Len(l)) \in Seq(A)
        /\ Len(SubSeq(l, n + 1, Len(l))) = IF n + 1 <= Len(l) THEN Len(l) - (n + 1) + 1 ELSE 0
    <3>1. n + 1 \in Int /\ Len(l) \in Int
      BY <1>1, <1>2
    <3> QED BY <2>1, <3>1, SubSeqProperties
  <2>3. PICK q : q = SubSeq(l, n + 1, Len(l))
    OBVIOUS
  <2>4. PICK m \in Nat : m = Len(l)
    BY <1>2
  <2>5. q \in Seq(A) /\ Len(q) = IF n + 1 <= m THEN m - (n + 1) + 1 ELSE 0
    BY <2>2, <2>3, <2>4
  <2>6. n <= m /\ m - n <= MaxLate
    BY <1>1, <2>4
  <2>7. Len(q) <= MaxLate
    BY <2>5, <2>6 DEF LinksBounds
  <2>8. r.rest = q
    BY <1>3, <2>3
  <2> QED BY <2>5, <2>7, <2>8
<1>5. r.ans \in Line!Kept
  <2>1. CASE n = 0
    BY <1>3, <2>1 DEF Line!Kept
  <2>2. CASE n # 0
    <3>1. Len(l) # 0
      BY <1>1, <1>2, <2>2
    <3>2. l # <<>>
      BY <3>1
    <3>3. Head(l) \in A
      BY <1>2, <3>2, HeadTailProperties
    <3> QED BY <1>3, <2>2, <3>3 DEF Line!Kept
  <2> QED BY <2>1, <2>2
<1> QED BY <1>4, <1>5 DEF Lines

\* The connection: what is asked, what is on the line, and what is known so far.
WireInv ==
    /\ asking \in {"idle", "v", "s", "f", "m", "b"}
    /\ line \in Lines /\ Len(line) <= MaxLate
    /\ vfoOK \in BOOLEAN /\ timely \in BOOLEAN
    /\ got \in [v : Line!Kept, f : Line!Kept, m : Line!Kept]

\* Nothing is known, and one answer more.
LEMMA GotIs ==
  ASSUME NEW g \in [v : Line!Kept, f : Line!Kept, m : Line!Kept], NEW a \in Line!Kept
  PROVE  /\ [g EXCEPT !.v = a] \in [v : Line!Kept, f : Line!Kept, m : Line!Kept]
         /\ [g EXCEPT !.f = a] \in [v : Line!Kept, f : Line!Kept, m : Line!Kept]
         /\ [g EXCEPT !.m = a] \in [v : Line!Kept, f : Line!Kept, m : Line!Kept]
  OBVIOUS

\* At first nothing is known.
LEMMA NothingIs == Line!Nothing \in [v : Line!Kept, f : Line!Kept, m : Line!Kept]
  BY DEF Line!Nothing, Line!Kept

\* Every step keeps the type.
LEMMA WireStep == ASSUME LinksBounds, WireInv, [Line!WireNext]_(Line!wireVars) PROVE WireInv'
<1> DEFINE G == [v : Line!Kept, f : Line!Kept, m : Line!Kept]
<1>t. /\ asking \in {"idle", "v", "s", "f", "m", "b"} /\ line \in Lines /\ Len(line) <= MaxLate
      /\ vfoOK \in BOOLEAN /\ timely \in BOOLEAN /\ got \in G
  BY DEF WireInv
<1>e. <<>> \in Lines /\ Len(<<>>) <= MaxLate /\ Line!Nothing \in G
  BY NothingIs DEF Lines, LinksBounds
<1>c. \A k \in Line!Questions : \A r \in Line!Cmd(k) : r.rest \in Lines /\ Len(r.rest) <= MaxLate /\ r.ans \in Line!Kept
  BY <1>t, CmdGives
<1>k. {"v", "s", "f", "m", "b", "l"} \subseteq Line!Questions
  BY Zenon DEF Line!Questions
<1> HIDE DEF G
<1>0. CASE UNCHANGED Line!wireVars
  BY <1>0, <1>t DEF Line!wireVars, WireInv, G
<1>1. CASE Line!Status
  BY <1>1, <1>e, <1>t DEF Line!Status, WireInv, G
<1>2. CASE Line!AskVfo
  <2>1. PICK r \in Line!Cmd("v") : line' = r.rest /\ vfoOK' = (r.ans \notin {"none", "rprt"}) /\ got' = [got EXCEPT !.v = r.ans]
    BY <1>2 DEF Line!AskVfo
  <2>2. got' \in G /\ line' \in Lines /\ Len(line') <= MaxLate
    BY <1>c, <1>k, <1>t, <2>1, GotIs DEF G
  <2>3. vfoOK' \in BOOLEAN
    BY <2>1
  <2> QED BY <1>2, <1>t, <2>2, <2>3 DEF Line!AskVfo, WireInv, G
<1>3. CASE Line!AskSplit
  BY <1>3, <1>c, <1>k, <1>t DEF Line!AskSplit, WireInv, G
<1>4. CASE Line!AskFrequency
  <2>1. PICK r \in Line!Cmd("f") :
           \/ asking' = "m" /\ line' = r.rest /\ got' = [got EXCEPT !.f = r.ans]
           \/ asking' = "idle" /\ line' = <<>> /\ got' = Line!Nothing
    BY <1>4 DEF Line!AskFrequency
  <2>2. [got EXCEPT !.f = r.ans] \in G
    BY <1>c, <1>k, <1>t, GotIs DEF G
  <2>3. got' \in G /\ line' \in Lines /\ Len(line') <= MaxLate /\ asking' \in {"m", "idle"}
    BY <1>c, <1>e, <1>k, <2>1, <2>2
  <2> QED BY <1>4, <1>t, <2>3 DEF Line!AskFrequency, WireInv, G
<1>5. CASE Line!AskMode
  <2>1. PICK r \in Line!Cmd("m") : line' = r.rest /\ got' = [got EXCEPT !.m = r.ans]
    BY <1>5 DEF Line!AskMode
  <2>2. got' \in G /\ line' \in Lines /\ Len(line') <= MaxLate
    BY <1>c, <1>k, <1>t, <2>1, GotIs DEF G
  <2>3. asking' \in {"b", "idle"}
    BY <1>5 DEF Line!AskMode
  <2> QED BY <1>5, <1>t, <2>2, <2>3 DEF Line!AskMode, WireInv, G
<1>6. CASE Line!AskOther
  BY <1>6, <1>c, <1>k, <1>t DEF Line!AskOther, WireInv, G
<1>7. CASE Line!Power
  BY <1>7, <1>c, <1>k, <1>t DEF Line!Power, WireInv, G
<1>8. CASE Line!GetName
  <2>1. PICK k \in Line!Questions : \E r \in Line!Cmd(k) : line' \in {<<>>, r.rest}
    BY <1>8, Zenon DEF Line!GetName, Line!Questions
  <2>2. UNCHANGED <<asking, vfoOK, got, timely>>
    BY <1>8, Zenon DEF Line!GetName
  <2> QED BY <1>c, <1>e, <1>t, <2>1, <2>2 DEF WireInv, G
<1>9. CASE Line!Speed
  BY <1>9, <1>t DEF Line!Speed, WireInv, G
<1> QED BY <1>0, <1>1, <1>2, <1>3, <1>4, <1>5, <1>6, <1>7, <1>8, <1>9 DEF Line!WireNext

\* It holds at the start.
LEMMA WireStart == ASSUME LinksBounds, Line!WireInit PROVE WireInv
  BY NothingIs DEF Line!WireInit, WireInv, Lines, LinksBounds

\* GPSLink: the settings, the receiver and the application object.  Without a client
\* the screen shows neither a fix nor a connection.
GPSRest ==
    /\ gpsOn \in BOOLEAN /\ gpsUp \in BOOLEAN /\ gpsLB \in {"station", "gps", "fixed"}
    /\ gpsClient \in {"none", "reading", "dead"} /\ gpsRetry \in {"unset", "armed", "due"}
    /\ gpsApp \in [grid : GPS!Grids, hasFix : BOOLEAN]
    /\ gpsBeacon \in GPS!Grids \cup {"station", "fixed"}
    /\ gpsClient = "none" => ~gpsUI.hasFix /\ ~gpsUI.online

\* Starting leaves a reader, or nothing.
LEMMA StartLeaves ==
  ASSUME GPS!Start
  PROVE  gpsClient' \in {"none", "reading"} /\ (gpsClient' = "none" => ~gpsUI'.hasFix /\ ~gpsUI'.online)
  BY DEF GPS!Start, GPS!Offline

\* What the application object is told is a locator, and so is the beacon's.
LEMMA TellIs ==
  ASSUME GPSRest, NEW g \in GPS!Grids, NEW f \in BOOLEAN, GPS!SetGPSGrid(g, f) \/ UNCHANGED <<gpsApp, gpsBeacon>>
  PROVE  gpsApp' \in [grid : GPS!Grids, hasFix : BOOLEAN] /\ gpsBeacon' \in GPS!Grids \cup {"station", "fixed"}
<1>1. CASE GPS!SetGPSGrid(g, f)
  <2>1. gpsApp' = [grid |-> g, hasFix |-> f]
    BY <1>1 DEF GPS!SetGPSGrid
  <2>2. gpsApp' \in [grid : GPS!Grids, hasFix : BOOLEAN] /\ gpsApp'.grid \in GPS!Grids
    BY ONLY <2>1, g \in GPS!Grids, f \in BOOLEAN
  <2> QED BY <1>1, <2>2 DEF GPS!SetGPSGrid, GPS!AppGrid
<1>2. CASE UNCHANGED <<gpsApp, gpsBeacon>>
  BY <1>2 DEF GPSRest
<1> QED BY <1>1, <1>2

\* Every step of the receiver and of the owner loop keeps them.
LEMMA GPSRestStep == ASSUME GPSInv, GPSRest, [GPS!GPSNext]_(GPS!gpsVars) PROVE GPSRest'
<1>t. /\ gpsOn \in BOOLEAN /\ gpsUp \in BOOLEAN /\ gpsLB \in {"station", "gps", "fixed"}
      /\ gpsClient \in {"none", "reading", "dead"} /\ gpsRetry \in {"unset", "armed", "due"}
      /\ gpsApp \in [grid : GPS!Grids, hasFix : BOOLEAN] /\ gpsApp.grid \in GPS!Grids
      /\ gpsBeacon \in GPS!Grids \cup {"station", "fixed"}
      /\ gpsClient = "none" => ~gpsUI.hasFix /\ ~gpsUI.online
      /\ gpsUI.grid \in GPS!Grids /\ gpsPos.place \in GPS!Grids
  BY DEF GPSRest, GPSInv, Shown, Positions
<1>0. CASE UNCHANGED GPS!gpsVars
  BY <1>0, <1>t DEF GPS!gpsVars, GPSRest
<1>1. CASE GPS!Tick
  <2>1. PICK new : /\ new = [online |-> gpsClient = "reading",
                             hasFix |-> gpsClient = "reading" /\ GPS!Believed,
                             grid |-> IF gpsClient = "reading" /\ GPS!Believed THEN gpsPos.place ELSE gpsUI.grid]
                   /\ GPS!Tell(new)
                   /\ UNCHANGED <<gpsOn, gpsLB, gpsUp>>
                   /\ gpsRetry' \in {gpsRetry, "armed", "unset"}
                   /\ \/ gpsUI' = new /\ UNCHANGED gpsClient
                      \/ GPS!Start
    BY <1>1 DEF GPS!Tick, GPS!Retry
  <2>2. new.grid \in GPS!Grids /\ new.hasFix \in BOOLEAN
    BY <1>t, <2>1
  <2>3. gpsApp' \in [grid : GPS!Grids, hasFix : BOOLEAN] /\ gpsBeacon' \in GPS!Grids \cup {"station", "fixed"}
    BY <2>1, <2>2, TellIs DEF GPS!Tell
  <2>4. gpsClient' \in {"none", "reading", "dead"} /\ (gpsClient' = "none" => ~gpsUI'.hasFix /\ ~gpsUI'.online)
    <3>1. CASE GPS!Start
      BY <3>1, StartLeaves
    <3>2. CASE gpsUI' = new /\ UNCHANGED gpsClient
      BY <1>t, <2>1, <3>2
    <3> QED BY <2>1, <3>1, <3>2
  <2> QED BY <1>t, <2>1, <2>3, <2>4 DEF GPSRest
<1>2. CASE GPS!RefreshBeacon
  BY <1>2, <1>t DEF GPS!RefreshBeacon, GPS!AppGrid, GPSRest
<1>3. CASE GPS!SaveSettings
  <2>1. gpsOn' \in BOOLEAN /\ gpsRetry' \in {"unset", "armed", "due"} /\ UNCHANGED <<gpsLB, gpsUp, gpsApp, gpsBeacon>>
    BY <1>3, <1>t DEF GPS!SaveSettings
  <2>2. CASE GPS!Start
    BY <1>t, <2>1, <2>2, StartLeaves DEF GPSRest
  <2>3. CASE gpsClient' = "none" /\ gpsUI' = GPS!Offline
    BY <1>t, <2>1, <2>3 DEF GPSRest, GPS!Offline
  <2> QED BY <1>3, <2>2, <2>3 DEF GPS!SaveSettings
<1>4. CASE GPS!SwitchTo
  BY <1>4, <1>t DEF GPS!SwitchTo, GPSRest
<1>5. CASE GPS!World
  <2>1. UNCHANGED <<gpsOn, gpsLB, gpsUI, gpsApp, gpsBeacon>>
    BY <1>5 DEF GPS!World
  <2>2. gpsUp' \in BOOLEAN /\ gpsClient' \in {gpsClient, "dead"} /\ gpsRetry' = gpsRetry
    BY <1>5, <1>t DEF GPS!World, GPS!Others, GPS!Unplug
  <2> QED BY <1>t, <2>1, <2>2 DEF GPSRest
<1>6. CASE GPS!DelayPasses
  BY <1>6, <1>t DEF GPS!DelayPasses, GPSRest
<1> QED BY <1>0, <1>1, <1>2, <1>3, <1>4, <1>5, <1>6 DEF GPS!GPSNext

\* They hold at the start.
LEMMA GPSRestStart == ASSUME GPS!GPSInit PROVE GPSRest
<1>1. PICK f \in BOOLEAN : f = FALSE
  OBVIOUS
<1>2. gpsApp = [grid |-> NoPlace, hasFix |-> f] /\ NoPlace \in GPS!Grids /\ f \in BOOLEAN
  BY <1>1 DEF GPS!GPSInit, GPS!Grids
<1>3. gpsApp \in [grid : GPS!Grids, hasFix : BOOLEAN] /\ gpsApp.grid \in GPS!Grids
  BY ONLY <1>2
<1>4. gpsBeacon \in GPS!Grids \cup {"station", "fixed"}
  BY <1>3 DEF GPS!GPSInit, GPS!AppGrid
<1>5. gpsClient \in {"none", "reading"} /\ (gpsClient = "none" => ~gpsUI.hasFix /\ ~gpsUI.online)
  BY DEF GPS!GPSInit, GPS!Offline
<1> QED BY <1>3, <1>4, <1>5 DEF GPS!GPSInit, GPSRest

\* With the invariant they are the type.
LEMMA GPSTyped == ASSUME GPSInv, GPSRest PROVE GPS!GPSTypeOK
  BY DEF GPSInv, GPSRest, Shown, Positions, GPS!GPSTypeOK

\* RigLine at the start, and what the types say of the two.
LEMMA LineTyped ==
  /\ Line!TuneInit => DialIs
  /\ WireInv => Line!WireTypeOK
  BY DEF Line!TuneInit, DialIs, WireInv, Lines, Line!WireTypeOK

\* WSJTX, the listener: the ports, the channel's limit, and that the listener in
\* place has its socket and its loop and has not been told to stop.
InPlace(r) == r.queued \in 0..MsgCap /\ (r.current => r.socket /\ r.loop # "gone" /\ ~r.stop)
ListenerRest == bindable \subseteq Settings /\ InPlace(run)

\* No listener, and a new one, are in place.
LEMMA NewInPlace == ASSUME LinksBounds PROVE InPlace(WSJT!NoRun) /\ \A c : InPlace(WSJT!NewRun(c))
<1>1. ASSUME NEW r, r.queued = 0, r.current = FALSE PROVE InPlace(r)
  BY <1>1 DEF InPlace, LinksBounds
<1>2. ASSUME NEW r, r.queued = 0, r.socket = TRUE, r.stop = FALSE, r.loop = "select" PROVE InPlace(r)
  BY <1>2 DEF InPlace, LinksBounds
<1> QED BY <1>1, <1>2 DEF WSJT!NoRun, WSJT!NewRun

\* The steps of the owner loop keep them.
LEMMA OwnerKeepsPlace ==
  ASSUME LinksBounds, ListenerInv, InPlace(run), WSJT!RigChange \/ WSJT!Retry \/ WSJT!OwnerStep
  PROVE  InPlace(run)'
<1>t. run \in Runs /\ (owner # "idle" => ~run.current)
  BY DEF ListenerInv
<1>q. run.queued \in 0..MsgCap /\ (run.current => run.socket /\ run.loop # "gone" /\ ~run.stop)
  BY DEF InPlace
<1>1. ASSUME NEW w, WSJT!Apply(w) PROVE InPlace(run)'
  <2>1. CASE UNCHANGED run
    BY <2>1 DEF InPlace
  <2>2. CASE ~UNCHANGED run
    <3>1. PICK f \in BOOLEAN : f = FALSE
      OBVIOUS
    <3>2. run' = [run EXCEPT !.current = f]
      BY <1>1, <2>2, <3>1 DEF WSJT!Apply
    <3>3. run'.queued = run.queued /\ ~run'.current
      BY ONLY <1>t, <3>1, <3>2 DEF Runs
    <3> QED BY <1>q, <3>3 DEF InPlace
  <2> QED BY <2>1, <2>2
<1>2. CASE WSJT!RigChange \/ WSJT!Retry
  BY <1>1, <1>2 DEF WSJT!RigChange, WSJT!Retry
<1>3. CASE WSJT!CloseSocket
  <2>1. PICK f \in BOOLEAN, t \in BOOLEAN : f = FALSE /\ t = TRUE
    OBVIOUS
  <2>2. run' = [run EXCEPT !.socket = f, !.stop = t] /\ ~run.current
    BY <1>3, <1>t, <2>1 DEF WSJT!CloseSocket
  <2>3. run'.queued = run.queued /\ ~run'.current
    BY ONLY <1>t, <2>2 DEF Runs
  <2> QED BY <1>q, <2>3 DEF InPlace
<1>4. CASE WSJT!JoinLoop
  BY <1>4 DEF WSJT!JoinLoop, InPlace
<1>5. CASE WSJT!Drain
  <2>1. CASE UNCHANGED run
    BY <2>1 DEF InPlace
  <2>2. CASE ~UNCHANGED run
    <3>1. PICK n : n = run.queued - 1
      OBVIOUS
    <3>2. run' = [run EXCEPT !.queued = n] /\ run.queued > 0 /\ ~run.current
      BY <1>5, <1>t, <2>2, <3>1 DEF WSJT!Drain
    <3>3. run'.queued = n /\ ~run'.current
      BY ONLY <1>t, <3>2 DEF Runs
    <3>4. n \in 0..MsgCap
      BY <1>q, <3>1, <3>2 DEF LinksBounds
    <3> QED BY <3>3, <3>4 DEF InPlace
  <2> QED BY <2>1, <2>2
<1>6. CASE WSJT!Listen
  <2>1. PICK n, m : n = WSJT!NoRun /\ m = WSJT!NewRun(wanted)
    OBVIOUS
  <2>2. InPlace(n) /\ InPlace(m)
    BY <2>1, NewInPlace
  <2>3. run' \in {n, m}
    BY <1>6, <2>1 DEF WSJT!Listen
  <2> QED BY <2>2, <2>3 DEF InPlace
<1> QED BY <1>2, <1>3, <1>4, <1>5, <1>6 DEF WSJT!OwnerStep

\* So do those of the reader and of the event loop.
LEMMA LoopKeepsPlace ==
  ASSUME LinksBounds, ListenerInv, InPlace(run), WSJT!ReaderStep \/ WSJT!LoopStep
  PROVE  InPlace(run)'
<1>t. run \in Runs
  BY DEF ListenerInv
<1>q. run.queued \in 0..MsgCap /\ (run.current => run.socket /\ run.loop # "gone" /\ ~run.stop)
  BY DEF InPlace
<1>1. CASE WSJT!Read
  <2>1. PICK e : e = IF run.socket THEN "send" ELSE "gone"
    OBVIOUS
  <2>2. run' = [run EXCEPT !.reader = e]
    BY <1>1, <2>1 DEF WSJT!Read
  <2>3. /\ run'.queued = run.queued /\ run'.current = run.current /\ run'.socket = run.socket
        /\ run'.loop = run.loop /\ run'.stop = run.stop
    BY ONLY <1>t, <2>2 DEF Runs
  <2> QED BY <1>q, <2>3 DEF InPlace
<1>2. CASE WSJT!SendMessage
  <2>1. PICK n : n = run.queued + 1
    OBVIOUS
  <2>2. run' = [run EXCEPT !.reader = "read", !.queued = n] /\ run.queued < MsgCap
    BY <1>2, <2>1 DEF WSJT!SendMessage
  <2>3. /\ run'.queued = n /\ run'.current = run.current /\ run'.socket = run.socket
        /\ run'.loop = run.loop /\ run'.stop = run.stop
    BY ONLY <1>t, <2>2 DEF Runs
  <2>4. n \in 0..MsgCap
    BY <1>q, <2>1, <2>2 DEF LinksBounds
  <2> QED BY <1>q, <2>3, <2>4 DEF InPlace
<1>3. CASE WSJT!TakeMessage
  <2>1. PICK n, l : n = run.queued - 1 /\ l = IF run.current THEN "call" ELSE "select"
    OBVIOUS
  <2>2. run' = [run EXCEPT !.queued = n, !.loop = l] /\ run.queued > 0
    BY <1>3, <2>1 DEF WSJT!TakeMessage
  <2>3. /\ run'.queued = n /\ run'.current = run.current /\ run'.socket = run.socket
        /\ run'.loop = l /\ run'.stop = run.stop
    BY ONLY <1>t, <2>2 DEF Runs
  <2>4. n \in 0..MsgCap /\ l # "gone"
    BY <1>q, <2>1, <2>2 DEF LinksBounds
  <2> QED BY <1>q, <2>3, <2>4 DEF InPlace
<1>4. CASE WSJT!CallbackReturns \/ WSJT!LoopStops
  <2>1. PICK l : run' = [run EXCEPT !.loop = l] /\ (l = "gone" => run.stop)
    BY <1>4 DEF WSJT!CallbackReturns, WSJT!LoopStops
  <2>2. /\ run'.queued = run.queued /\ run'.current = run.current /\ run'.socket = run.socket
        /\ run'.loop = l /\ run'.stop = run.stop
    BY ONLY <1>t, <2>1 DEF Runs
  <2> QED BY <1>q, <2>1, <2>2 DEF InPlace
<1> QED BY <1>1, <1>2, <1>3, <1>4 DEF WSJT!ReaderStep, WSJT!LoopStep

\* Every step of the listener keeps them.
LEMMA ListenerRestStep ==
  ASSUME LinksBounds, ListenerInv, ListenerRest, [WSJT!ListenerNext]_(WSJT!wsjtxVars)
  PROVE  ListenerRest'
<1>1. CASE UNCHANGED WSJT!wsjtxVars
  BY <1>1 DEF WSJT!wsjtxVars, ListenerRest, InPlace
<1>2. CASE WSJT!PortsChange
  BY <1>2 DEF WSJT!PortsChange, ListenerRest, InPlace
<1>3. CASE WSJT!RigChange \/ WSJT!Retry \/ WSJT!OwnerStep
  <2>1. UNCHANGED bindable
    BY <1>3 DEF WSJT!RigChange, WSJT!Retry, WSJT!Apply, WSJT!OwnerStep, WSJT!CloseSocket, WSJT!JoinLoop,
       WSJT!Drain, WSJT!Listen
  <2> QED BY <1>3, <2>1, OwnerKeepsPlace DEF ListenerRest
<1>4. CASE WSJT!ReaderStep \/ WSJT!LoopStep
  <2>1. UNCHANGED bindable
    BY <1>4 DEF WSJT!ReaderStep, WSJT!LoopStep, WSJT!Read, WSJT!SendMessage, WSJT!TakeMessage,
       WSJT!CallbackReturns, WSJT!LoopStops
  <2> QED BY <1>4, <2>1, LoopKeepsPlace DEF ListenerRest
<1> QED BY <1>1, <1>2, <1>3, <1>4 DEF WSJT!ListenerNext

\* They hold at the start.
LEMMA ListenerRestStart == ASSUME LinksBounds, WSJT!ListenerInit PROVE ListenerRest
  BY NewInPlace DEF WSJT!ListenerInit, ListenerRest

\* With the invariant they are the type.
LEMMA ListenerTyped == ASSUME LinksBounds, ListenerInv, ListenerRest PROVE WSJT!ListenerTypeOK
<1>1. run \in Runs /\ run.queued \in 0..MsgCap
  BY DEF ListenerInv, ListenerRest, InPlace
<1>2. run \in [of : Settings \cup {Off}, current : BOOLEAN, socket : BOOLEAN, stop : BOOLEAN,
               loop : {"select", "call", "gone"}, reader : {"read", "send", "gone"}, queued : 0..MsgCap]
  BY ONLY <1>1 DEF Runs
<1> QED BY <1>2 DEF ListenerInv, ListenerRest, InPlace, WSJT!ListenerTypeOK

\* WSJTX, the queue: whatever waits, is being handled or is in the file was reported
\* by WSJT-X, and so was whatever was dropped, refused or exposed; nothing waits while
\* the program is down.
QueueRest ==
    /\ queue \in Seq(reported) /\ taken \in Seq(reported) /\ file \in Seq(reported)
    /\ reported \subseteq Records /\ dropped \cup refused \cup exposed \subseteq reported
    /\ at \in {"rest", "tick", "down"} /\ (at # "tick" => taken = <<>>)
    /\ at = "down" => queue = <<>>
    /\ saved \in BOOLEAN /\ reports \in 0..MaxReports /\ crashes \in 0..MaxCrashes

\* A sequence over a set is one over a larger set.
LEMMA SeqGrows == ASSUME NEW A, NEW B, A \subseteq B, NEW s \in Seq(A) PROVE s \in Seq(B)
  OBVIOUS

\* The elements of a sequence are in its set.
LEMMA ElementsAre == ASSUME NEW A, NEW s \in Seq(A) PROVE WSJT!Elements(s) \subseteq A
  BY ElementOfSeq DEF WSJT!Elements

\* What is left of a sequence when its oldest records go.
LEMMA TrimmedIs ==
  ASSUME NEW A, NEW s \in Seq(A), NEW n \in Nat
  PROVE  WSJT!Trimmed(s, n) \in Seq(A)
<1>1. CASE Len(s) > n
  <2>0. PICK b \in Nat : b = Len(s)
    OBVIOUS
  <2>9. PICK a : a = b - n + 1
    OBVIOUS
  <2>1. a \in Int /\ b \in Int /\ a >= 1 /\ a = b - n + 1
    BY <1>1, <2>0, <2>9
  <2>2. \A i \in a..b : s[i] \in A
    <3>1. \A i \in 1..Len(s) : s[i] \in A
      BY ElementOfSeq
    <3> QED BY <2>0, <2>1, <3>1
  <2>3. SubSeq(s, a, b) \in Seq(A)
    BY <2>1, <2>2, SubSeqProperties
  <2> QED BY <1>1, <2>0, <2>1, <2>3 DEF WSJT!Trimmed, WSJT!Last
<1>2. CASE ~(Len(s) > n)
  BY <1>2 DEF WSJT!Trimmed
<1> QED BY <1>1, <1>2

\* What one more record adds to the elements of a sequence, and what its head takes.
LEMMA ElementsMove ==
  ASSUME NEW A, NEW s \in Seq(A), NEW e \in A
  PROVE  /\ WSJT!Elements(Append(s, e)) = WSJT!Elements(s) \cup {e}
         /\ s # <<>> => WSJT!Elements(s) \subseteq {Head(s)} \cup WSJT!Elements(Tail(s))
<1>1. WSJT!Elements(Append(s, e)) = WSJT!Elements(s) \cup {e}
  <2>0. PICK n \in Nat : n = Len(s)
    OBVIOUS
  <2>1. PICK t : n = Len(s) /\ t = Append(s, e)
    BY <2>0
  <2>2. Len(t) = n + 1 /\ (\A i \in 1..n : t[i] = s[i]) /\ t[n + 1] = e
    BY <2>1, AppendProperties
  <2>3. ASSUME NEW x \in WSJT!Elements(t) PROVE x \in WSJT!Elements(s) \cup {e}
    BY <2>1, <2>2, <2>3 DEF WSJT!Elements
  <2>4. ASSUME NEW x \in WSJT!Elements(s) PROVE x \in WSJT!Elements(t)
    <3>1. PICK i \in 1..n : x = s[i]
      BY <2>1, <2>4 DEF WSJT!Elements
    <3>2. i \in 1..Len(t) /\ x = t[i]
      BY <2>2, <3>1
    <3> QED BY <3>2 DEF WSJT!Elements
  <2>5. e \in WSJT!Elements(t)
    <3>1. n + 1 \in 1..Len(t) /\ t[n + 1] = e
      BY <2>2
    <3> QED BY <3>1 DEF WSJT!Elements
  <2> QED BY <2>1, <2>3, <2>4, <2>5
<1>2. ASSUME s # <<>>, NEW x \in WSJT!Elements(s) PROVE x \in {Head(s)} \cup WSJT!Elements(Tail(s))
  <2>1. PICK i \in 1..Len(s) : x = s[i]
    BY <1>2 DEF WSJT!Elements
  <2>2. CASE i = 1
    BY <1>2, <2>1, <2>2, HeadTailProperties
  <2>3. CASE i # 1
    <3>1. Len(Tail(s)) = Len(s) - 1 /\ \A j \in 1..Len(Tail(s)) : Tail(s)[j] = s[j + 1]
      BY <1>2, HeadTailProperties
    <3>2. i - 1 \in 1..Len(Tail(s)) /\ Tail(s)[i - 1] = x
      BY <2>1, <2>3, <3>1
    <3> QED BY <3>2 DEF WSJT!Elements
  <2> QED BY <2>2, <2>3
<1> QED BY <1>1, <1>2

\* An empty sequence has no elements.
LEMMA ElementsNone == WSJT!Elements(<<>>) = {}
  BY DEF WSJT!Elements

\* However much of it a write of the file manages, what it leaves was reported.
LEMMA SavesTyped ==
  ASSUME NEW A, file \in Seq(A), NEW q \in Seq(A), WSJT!Saves(q)
  PROVE  file' \in Seq(A)
<1>1. PICK m \in Nat : m = Len(q)
  OBVIOUS
<1>2. file' = q \/ file' = file \/ \E n \in 0..(m - 1) : file' = SubSeq(q, 1, n)
  BY <1>1, Zenon DEF WSJT!Saves
<1>3. ASSUME NEW n \in 0..(m - 1) PROVE SubSeq(q, 1, n) \in Seq(A)
  <2>1. n \in Int /\ 1 \in Int /\ \A i \in 1..n : q[i] \in A
    <3>1. \A i \in 1..Len(q) : q[i] \in A
      BY ElementOfSeq
    <3> QED BY <1>1, <3>1
  <2> QED BY <2>1, SubSeqProperties
<1> QED BY <1>2, <1>3

\* Every step of the queue keeps them.
LEMMA QueueRestStep ==
  ASSUME LinksBounds, QueueRest, [WSJT!QueueNext]_(WSJT!wsjtxQueueVars)
  PROVE  QueueRest'
<1>t. /\ queue \in Seq(reported) /\ taken \in Seq(reported) /\ file \in Seq(reported)
      /\ reported \subseteq Records /\ dropped \cup refused \cup exposed \subseteq reported
      /\ at \in {"rest", "tick", "down"} /\ (at # "tick" => taken = <<>>)
      /\ (at = "down" => queue = <<>>) /\ saved \in BOOLEAN
      /\ reports \in 0..MaxReports /\ crashes \in 0..MaxCrashes
  BY DEF QueueRest
<1>e. <<>> \in Seq(reported)
  OBVIOUS
<1>0. CASE UNCHANGED WSJT!wsjtxQueueVars
  BY <1>0, <1>t DEF WSJT!wsjtxQueueVars, WSJT!fate, QueueRest
<1>1. ASSUME NEW k \in Records, WSJT!OnADIF(k) PROVE QueueRest'
  <2>1. PICK kept : /\ kept = WSJT!Trimmed(queue, MaxPending - 1)
                    /\ queue' = Append(kept, k) /\ WSJT!Saves(queue')
                    /\ dropped' = dropped \cup (WSJT!Elements(queue) \ WSJT!Elements(kept))
    BY <1>1 DEF WSJT!OnADIF
  <2>2. /\ reported' = reported \cup {k} /\ reports' = reports + 1 /\ reports < MaxReports
        /\ UNCHANGED <<taken, at, refused, exposed, crashes>> /\ at # "down"
    BY <1>1 DEF WSJT!OnADIF
  <2>3. kept \in Seq(reported)
    <3>1. PICK n \in Nat : n = MaxPending - 1
      BY DEF LinksBounds
    <3> QED BY <1>t, <2>1, <3>1, TrimmedIs
  <2>4. kept \in Seq(reported') /\ taken' \in Seq(reported')
    BY <1>t, <2>2, <2>3, SeqGrows
  <2>5. queue' \in Seq(reported') /\ file' \in Seq(reported') /\ saved' \in BOOLEAN
    <3>1. queue' \in Seq(reported') /\ file \in Seq(reported')
      BY <1>t, <2>1, <2>2, <2>4, AppendProperties, SeqGrows
    <3> QED BY <2>1, <3>1, SavesIs, SavesTyped
  <2>6. dropped' \subseteq reported' /\ reported' \subseteq Records
    BY <1>t, <2>1, <2>2, ElementsAre
  <2>7. reports' \in 0..MaxReports
    BY <1>t, <2>2 DEF LinksBounds
  <2> QED BY <1>t, <2>2, <2>4, <2>5, <2>6, <2>7 DEF QueueRest
<1>2. CASE WSJT!TakeAll
  BY <1>2, <1>e, <1>t DEF WSJT!TakeAll, WSJT!fate, QueueRest
<1>3. CASE WSJT!HandleRecord \/ WSJT!RecordRefused
  <2>1. /\ at = "tick" /\ taken # <<>> /\ taken' = Tail(taken) /\ queue' \in {queue, Append(queue, Head(taken))}
        /\ refused' \in {refused, refused \cup {Head(taken)}}
        /\ UNCHANGED <<at, file, saved, reported, dropped, exposed, reports, crashes>>
    BY <1>3 DEF WSJT!HandleRecord, WSJT!RecordRefused, WSJT!Requeued, WSJT!fate
  <2>2. Head(taken) \in reported /\ Tail(taken) \in Seq(reported)
    BY <1>t, <2>1, HeadTailProperties
  <2>3. Append(queue, Head(taken)) \in Seq(reported)
    BY <1>t, <2>2, AppendProperties
  <2> QED BY <1>t, <2>1, <2>2, <2>3 DEF QueueRest
<1>4. CASE WSJT!TickEnds
  <2>1. file' \in Seq(reported) /\ saved' \in BOOLEAN
    BY <1>4, <1>t, SavesIs, SavesTyped DEF WSJT!TickEnds
  <2> QED BY <1>4, <1>t, <2>1 DEF WSJT!TickEnds, WSJT!fate, QueueRest
<1>5. CASE WSJT!Crash
  <2>1. exposed' \subseteq reported
    BY <1>5, <1>t, ElementsAre DEF WSJT!Crash
  <2> QED BY <1>5, <1>e, <1>t, <2>1 DEF WSJT!Crash, QueueRest, LinksBounds
<1>6. CASE WSJT!Restart
  <2>1. /\ at = "down" /\ at' = "rest" /\ saved' = FALSE
        /\ UNCHANGED <<taken, reported, refused, reports, crashes>>
        /\ queue' = WSJT!Trimmed(file, MaxPending) \/ queue' = queue
        /\ file' = <<>> \/ file' = file
        /\ \/ dropped' = dropped
           \/ dropped' = dropped \cup (WSJT!Elements(file) \ WSJT!Elements(queue'))
        /\ exposed' = exposed \/ exposed' = exposed \cup WSJT!Elements(file)
    BY <1>6 DEF WSJT!Restart
  <2>2. queue' \in Seq(reported) /\ file' \in Seq(reported)
    BY <1>e, <1>t, <2>1, TrimmedIs DEF LinksBounds
  <2>3. dropped' \subseteq reported /\ exposed' \subseteq reported
    BY <1>t, <2>1, ElementsAre
  <2> QED BY <1>e, <1>t, <2>1, <2>2, <2>3 DEF QueueRest
<1> QED BY <1>0, <1>1, <1>2, <1>3, <1>4, <1>5, <1>6 DEF WSJT!QueueNext

\* They hold at the start.
LEMMA QueueRestStart == ASSUME LinksBounds, WSJT!QueueInit PROVE QueueRest
  BY DEF WSJT!QueueInit, QueueRest, LinksBounds

\* With the invariant they are the type.
LEMMA QueueTyped == ASSUME QueueInv, QueueRest PROVE WSJT!QueueTypeOK
<1>1. queue \in Seq(Records) /\ taken \in Seq(Records) /\ file \in Seq(Records)
  BY SeqGrows DEF QueueRest
<1> QED BY <1>1 DEF QueueInv, QueueRest, WSJT!QueueTypeOK

\* No step loses a contact in any other way.
LEMMA NothingVanishesStep ==
  ASSUME LinksBounds, QueueInv, QueueRest, WSJT!NothingVanishes, [WSJT!QueueNext]_(WSJT!wsjtxQueueVars)
  PROVE  WSJT!NothingVanishes'
<1> DEFINE Kept(k) == \/ logbook[k] > 0
                      \/ k \in WSJT!Elements(queue) \cup WSJT!Elements(taken)
                      \/ at = "down" /\ k \in WSJT!Elements(file)
                      \/ k \in dropped \cup refused \cup exposed
<1>t. /\ queue \in Seq(reported) /\ taken \in Seq(reported) /\ file \in Seq(reported)
      /\ reported \subseteq Records /\ \A k \in reported : Kept(k)
      /\ (at # "tick" => taken = <<>>) /\ (at = "down" => queue = <<>>)
      /\ logbook \in [Records -> Nat] /\ (at = "rest" /\ saved => file = queue)
  BY DEF QueueInv, QueueRest, WSJT!NothingVanishes, WSJT!RestIsOnDisk
<1>n. WSJT!Elements(<<>>) = {}
  BY ElementsNone
<1>g. SUFFICES \A k \in reported' : Kept(k)'
  BY DEF WSJT!NothingVanishes
<1>0. CASE UNCHANGED WSJT!wsjtxQueueVars
  BY <1>0, <1>t DEF WSJT!wsjtxQueueVars, WSJT!fate, WSJT!Elements
<1>1. ASSUME NEW k \in Records, WSJT!OnADIF(k) PROVE \A j \in reported' : Kept(j)'
  <2>1. PICK kept : /\ kept = WSJT!Trimmed(queue, MaxPending - 1) /\ queue' = Append(kept, k)
                    /\ dropped' = dropped \cup (WSJT!Elements(queue) \ WSJT!Elements(kept))
    BY <1>1 DEF WSJT!OnADIF
  <2>2. /\ reported' = reported \cup {k} /\ at # "down"
        /\ UNCHANGED <<taken, at, logbook, refused, exposed>>
    BY <1>1 DEF WSJT!OnADIF
  <2>3. kept \in Seq(Records)
    <3>1. PICK n \in Nat : n = MaxPending - 1
      BY DEF LinksBounds
    <3> QED BY <1>t, <2>1, <3>1, TrimmedIs, SeqGrows
  <2>4. WSJT!Elements(queue') = WSJT!Elements(kept) \cup {k}
    BY <2>1, <2>3, ElementsMove
  <2>5. WSJT!Elements(taken') = WSJT!Elements(taken)
    BY <2>2
  <2> QED BY <1>t, <2>1, <2>2, <2>4, <2>5
<1>2. CASE WSJT!TakeAll
  <2>1. /\ at = "rest" /\ at' = "tick" /\ taken' = queue /\ taken = <<>>
        /\ UNCHANGED <<logbook, reported, dropped, refused, exposed>>
    BY <1>2, <1>t DEF WSJT!TakeAll, WSJT!fate
  <2>2. WSJT!Elements(taken') = WSJT!Elements(queue) /\ WSJT!Elements(taken) = {}
    BY <1>n, <2>1
  <2> QED BY <1>t, <2>1, <2>2
<1>3. CASE WSJT!HandleRecord
  <2>1. /\ at = "tick" /\ taken # <<>> /\ taken' = Tail(taken)
        /\ UNCHANGED <<queue, at, reported, dropped, exposed>>
        /\ \/ logbook' = WSJT!InsertOnce(Head(taken)) /\ refused' = refused
           \/ refused' = refused \cup {Head(taken)} /\ logbook' = logbook
    BY <1>3 DEF WSJT!HandleRecord
  <2>2. Head(taken) \in reported /\ WSJT!Elements(taken) \subseteq {Head(taken)} \cup WSJT!Elements(taken')
    <3>1. Head(taken) \in reported
      BY <1>t, <2>1, HeadTailProperties
    <3> QED BY <1>t, <2>1, <3>1, ElementsMove
  <2>3. \A k \in Records : logbook[k] > 0 => logbook'[k] > 0
    BY <1>t, <2>1, <2>2 DEF WSJT!InsertOnce
  <2>4. logbook'[Head(taken)] > 0 \/ Head(taken) \in refused'
    BY <1>t, <2>1, <2>2 DEF WSJT!InsertOnce
  <2>5. WSJT!Elements(queue') = WSJT!Elements(queue)
    BY <2>1
  <2> QED BY <1>t, <2>1, <2>2, <2>3, <2>4, <2>5
<1>4. CASE WSJT!RecordRefused
  <2>1. /\ at = "tick" /\ taken # <<>> /\ taken' = Tail(taken) /\ queue' = Append(queue, Head(taken))
        /\ UNCHANGED <<at, logbook, reported, dropped, refused, exposed>>
    BY <1>4 DEF WSJT!RecordRefused, WSJT!Requeued, WSJT!fate
  <2>2. Head(taken) \in reported
    BY <1>t, <2>1, HeadTailProperties
  <2>3. /\ WSJT!Elements(taken) \subseteq {Head(taken)} \cup WSJT!Elements(taken')
        /\ WSJT!Elements(queue') = WSJT!Elements(queue) \cup {Head(taken)}
    BY <1>t, <2>1, <2>2, ElementsMove
  <2> QED BY <1>t, <2>1, <2>3
<1>5. CASE WSJT!TickEnds
  <2>1. /\ at = "tick" /\ at' = "rest"
        /\ UNCHANGED <<queue, taken, logbook, reported, dropped, refused, exposed>>
    BY <1>5 DEF WSJT!TickEnds, WSJT!fate
  <2>2. WSJT!Elements(queue') = WSJT!Elements(queue) /\ WSJT!Elements(taken') = WSJT!Elements(taken)
    BY <2>1
  <2> QED BY <1>t, <2>1, <2>2
<1>6. CASE WSJT!Crash
  <2>1. /\ at # "down" /\ at' = "down"
        /\ exposed' = IF at = "rest" /\ saved THEN exposed
                      ELSE exposed \cup WSJT!Elements(queue) \cup WSJT!Elements(taken)
        /\ UNCHANGED <<file, logbook, reported, dropped, refused>>
    BY <1>6 DEF WSJT!Crash
  <2>2. WSJT!Elements(file') = WSJT!Elements(file)
    BY <2>1
  <2>3. CASE at = "rest" /\ saved
    <3>1. file = queue /\ WSJT!Elements(taken) = {}
      BY <1>n, <1>t, <2>3
    <3> QED BY <1>t, <2>1, <2>2, <2>3, <3>1
  <2>4. CASE ~(at = "rest" /\ saved)
    BY <1>t, <2>1, <2>4
  <2> QED BY <2>3, <2>4
<1>7. CASE WSJT!Restart
  <2>1. /\ at = "down" /\ UNCHANGED <<taken, logbook, reported, refused>>
        /\ \/ /\ dropped' = dropped \cup (WSJT!Elements(file) \ WSJT!Elements(queue'))
              /\ exposed' = exposed
           \/ exposed' = exposed \cup WSJT!Elements(file) /\ dropped' = dropped
    BY <1>7 DEF WSJT!Restart
  <2>2. WSJT!Elements(queue) = {} /\ WSJT!Elements(taken) = {}
    BY <1>n, <1>t, <2>1
  <2> QED BY <1>t, <2>1, <2>2
<1> QED BY <1>0, <1>1, <1>2, <1>3, <1>4, <1>5, <1>6, <1>7 DEF WSJT!QueueNext

\* Nothing has been reported at the start.
LEMMA NothingVanishesStart == ASSUME WSJT!QueueInit PROVE WSJT!NothingVanishes
  BY DEF WSJT!QueueInit, WSJT!NothingVanishes

\* WSJTX: once Stop has returned no callback of the old listener runs, a contact is
\* logged once however often it is reported, retried or recovered, between ticks the
\* file holds the queue unless its last write failed, and no reported contact vanishes
\* but by a full queue, as invalid, or by a crash or a start that found it outside a
\* readable file.
THEOREM WSJTXIsSafe == LinksBounds => (LinksSpec => []WSJTXSafe)
<1> SUFFICES ASSUME LinksBounds PROVE LinksSpec => []WSJTXSafe
  OBVIOUS
<1> DEFINE I == ListenerInv /\ QueueInv /\ QueueRest /\ WSJT!NothingVanishes
<1>1. LinksInit => I
  BY ListenerStart, QueueStart, QueueRestStart, NothingVanishesStart DEF LinksInit
<1>2. I /\ [LinksNext]_allVars => I'
  BY OthersRest, ListenerStep, QueueStep, QueueRestStep, NothingVanishesStep
<1>3. I => WSJTXSafe
  <2>1. ASSUME I PROVE WSJTXSafe
    <3>1. WSJT!StoppedIsQuiet
      BY <2>1, ListenerSafe
    <3>2. WSJT!LoggedOnce /\ WSJT!RestIsOnDisk /\ WSJT!NothingVanishes
      BY <2>1 DEF QueueInv
    <3> QED BY <3>1, <3>2 DEF WSJTXSafe
  <2> QED BY <2>1
<1> HIDE DEF I
<1> QED BY <1>1, <1>2, <1>3, PTL DEF LinksSpec

\* RefData: the flags, the handles closed, the stages of the refresh, and the files.
RefRest ==
    /\ useRef \in BOOLEAN /\ ready \in BOOLEAN /\ modern \in BOOLEAN /\ panicked \in BOOLEAN
    /\ offline \in BOOLEAN /\ closed \subseteq Ref!Handles
    /\ refresh.stage \in {"free", "queued", "done"}
    /\ cached \in [Files -> {"none", "good", "bad"}] /\ table \subseteq Files

\* startRefRebuildCmd keeps the flag of the search a Boolean.
LEMMA StartReady ==
  ASSUME NEW h, NEW r \in BOOLEAN, Ref!startRefRebuildCmd(h, r)
  PROVE  ready' \in BOOLEAN
  BY DEF Ref!startRefRebuildCmd

\* The stage of the refresh, as a step leaves it.
LEMMA StageIs ==
  ASSUME NEW j \in Jobs, NEW st
  PROVE  [j EXCEPT !.stage = st].stage = st
  BY DEF Jobs

\* Every step of the owner loop keeps them.
LEMMA RefOwnerRest ==
  ASSUME RefInv, RefRest,
         Ref!EnableRef \/ Ref!DisableRef \/ Ref!Tick \/ Ref!MaybeRefresh \/ Ref!RefData \/ Ref!RefreshOpens
  PROVE  RefRest'
<1>t. /\ useRef \in BOOLEAN /\ ready \in BOOLEAN /\ modern \in BOOLEAN /\ panicked \in BOOLEAN
      /\ offline \in BOOLEAN /\ closed \subseteq Ref!Handles
      /\ refresh.stage \in {"free", "queued", "done"}
      /\ cached \in [Files -> {"none", "good", "bad"}] /\ table \subseteq Files
      /\ db \in Ref!Handles \cup {NoDB} /\ refresh \in Jobs
  BY DEF RefInv, RefRest
<1>d. UNCHANGED <<cached, table, modern, panicked, offline>>
  BY DEF Ref!EnableRef, Ref!DisableRef, Ref!Tick, Ref!MaybeRefresh, Ref!RefData, Ref!RefreshOpens, Ref!Runs, Ref!data
<1>1. CASE Ref!EnableRef
  <2>1. useRef' = TRUE /\ closed' = closed
    BY <1>1 DEF Ref!EnableRef
  <2>2. CASE db # NoDB
    <3>1. Ref!startRefRebuildCmd(db, ready) /\ UNCHANGED refresh
      BY <1>1, <2>2 DEF Ref!EnableRef
    <3> QED BY <1>d, <1>t, <2>1, <3>1, StartReady DEF RefRest
  <2>3. CASE db = NoDB
    <3>1. PICK h \in Ref!Handles \cup {NoDB}, first \in BOOLEAN :
             /\ refresh' = refresh \/ refresh' = [refresh EXCEPT !.stage = "queued"]
             /\ Ref!startRefRebuildCmd(h, ready \/ (first /\ table # {}))
      BY <1>1, <2>3 DEF Ref!EnableRef
    <3>2. PICK r \in BOOLEAN : r = (ready \/ (first /\ table # {}))
      OBVIOUS
    <3>3. ready' \in BOOLEAN
      BY <3>1, <3>2, StartReady
    <3>4. refresh'.stage \in {"free", "queued", "done"}
      <4>1. refresh' = refresh \/ refresh' = [refresh EXCEPT !.stage = "queued"]
        BY <3>1
      <4>2. refresh \in Jobs /\ refresh.stage \in {"free", "queued", "done"}
        BY <1>t
      <4> QED BY ONLY <4>1, <4>2 DEF Jobs
    <3> QED BY <1>d, <1>t, <2>1, <3>3, <3>4 DEF RefRest
  <2> QED BY <2>2, <2>3
<1>2. CASE Ref!DisableRef
  <2>1. useRef' = FALSE /\ ready' = FALSE /\ closed' = closed \cup ({db} \ {NoDB}) /\ UNCHANGED refresh
    BY <1>2 DEF Ref!DisableRef
  <2> QED BY <1>d, <1>t, <2>1 DEF RefRest
<1>3. CASE Ref!Tick
  <2>1. /\ Ref!startRefRebuildCmd(db, ready) \/ ready' = TRUE
        /\ UNCHANGED <<useRef, closed, refresh>>
    BY <1>3 DEF Ref!Tick, Ref!handles
  <2>2. ready' \in BOOLEAN
    BY <1>t, <2>1, StartReady
  <2> QED BY <1>d, <1>t, <2>1, <2>2 DEF RefRest
<1>4. CASE Ref!MaybeRefresh
  <2>1. refresh' = [refresh EXCEPT !.stage = "queued"] /\ UNCHANGED <<useRef, closed, ready>>
    BY <1>4 DEF Ref!MaybeRefresh, Ref!handles
  <2>2. refresh'.stage = "queued"
    BY <1>t, <2>1, StageIs
  <2> QED BY <1>d, <1>t, <2>1, <2>2 DEF RefRest
<1>5. CASE Ref!RefData
  <2>1. /\ refresh' = Ref!Idle /\ UNCHANGED useRef
        /\ closed' = closed \/ (refresh.db # NoDB /\ closed' = closed \cup {refresh.db})
        /\ ready' = ready \/ ready' = (ready \/ table # {})
    BY <1>5 DEF Ref!RefData, Ref!LosesRace
  <2>2. closed' \subseteq Ref!Handles
    BY <1>t, <2>1 DEF Jobs
  <2>3. ready' \in BOOLEAN
    BY <1>t, <2>1
  <2>4. refresh'.stage = "free"
    BY <2>1, IdleIs
  <2> QED BY <1>d, <1>t, <2>1, <2>2, <2>3, <2>4 DEF RefRest
<1>6. CASE Ref!RefreshOpens
  <2>1. PICK h : refresh' = [stage |-> "done", db |-> h]
    BY <1>6 DEF Ref!RefreshOpens
  <2>2. refresh'.stage = "done"
    BY <2>1
  <2>3. UNCHANGED <<useRef, closed, ready>>
    BY <1>6 DEF Ref!RefreshOpens
  <2> QED BY <1>d, <1>t, <2>2, <2>3 DEF RefRest
<1> QED BY <1>1, <1>2, <1>3, <1>4, <1>5, <1>6

\* So does every step of a rebuild, and its message.
LEMMA RefWorkerRest ==
  ASSUME RefRest, NEW w \in Workers, Ref!Rebuilt(w) \/ Ref!Work(w)
  PROVE  RefRest'
<1>t. /\ useRef \in BOOLEAN /\ ready \in BOOLEAN /\ modern \in BOOLEAN /\ panicked \in BOOLEAN
      /\ offline \in BOOLEAN /\ closed \subseteq Ref!Handles
      /\ refresh.stage \in {"free", "queued", "done"}
      /\ cached \in [Files -> {"none", "good", "bad"}] /\ table \subseteq Files
  BY DEF RefRest
<1>1. CASE Ref!Rebuilt(w)
  <2>1. /\ UNCHANGED <<useRef, closed, refresh, cached, table, modern, panicked, offline>>
        /\ ready' = (ready \/ rebuild[w].stage = "done")
    BY <1>1 DEF Ref!Rebuilt, Ref!handles, Ref!data, Ref!Runs
  <2>2. ready' \in BOOLEAN
    BY <1>t, <2>1
  <2> QED BY <1>t, <2>1, <2>2 DEF RefRest
<1>2. CASE Ref!RebuildStarts(w) \/ Ref!BeginLoad(w)
  BY <1>2, <1>t DEF Ref!RebuildStarts, Ref!BeginLoad, Ref!Works, Ref!Runs, Ref!handles, Ref!data, RefRest
<1>3. CASE Ref!DownloadFile(w)
  <2>1. /\ UNCHANGED <<useRef, closed, ready, refresh, table, modern, panicked, offline>>
        /\ UNCHANGED cached \/ \E f \in Files, how \in {"good", "bad"} : cached' = [cached EXCEPT ![f] = how]
    BY <1>3 DEF Ref!DownloadFile, Ref!Works, Ref!Runs, Ref!handles
  <2>2. cached' \in [Files -> {"none", "good", "bad"}]
    BY <1>t, <2>1
  <2> QED BY <1>t, <2>1, <2>2 DEF RefRest
<1>4. CASE Ref!BeginNowhere(w)
  BY <1>4, <1>t DEF Ref!BeginNowhere, Ref!handles, Ref!data, RefRest
<1>5. CASE Ref!Load(w)
  <2>1. /\ UNCHANGED <<useRef, closed, ready, refresh, cached, panicked, offline>>
        /\ UNCHANGED <<table, modern>> \/ (table' = Ref!Usable /\ modern' = TRUE)
    BY <1>5 DEF Ref!Load, Ref!Works, Ref!Runs, Ref!handles
  <2>2. table' \subseteq Files /\ modern' \in BOOLEAN
    BY <1>t, <2>1 DEF Ref!Usable
  <2> QED BY <1>t, <2>1, <2>2 DEF RefRest
<1> QED BY <1>1, <1>2, <1>3, <1>4, <1>5 DEF Ref!Work

\* So every step keeps them.
LEMMA RefRestStep == ASSUME RefInv, RefRest, [Ref!RefNext]_(Ref!refVars) PROVE RefRest'
<1>1. CASE UNCHANGED Ref!refVars
  BY <1>1 DEF Ref!refVars, RefRest
<1>2. CASE Ref!RefNext
  BY <1>2, RefOwnerRest, RefWorkerRest DEF Ref!RefNext
<1> QED BY <1>1, <1>2

\* They hold at the start.
LEMMA RefRestStart == ASSUME Ref!RefInit PROVE RefRest
<1>1. refresh.stage = "free"
  BY IdleIs DEF Ref!RefInit
<1>2. cached \in [Files -> {"none", "good", "bad"}] /\ table \subseteq Files /\ modern \in BOOLEAN
  BY DEF Ref!RefInit
<1> QED BY <1>1, <1>2 DEF Ref!RefInit, RefRest

\* With the invariant they are the type.
LEMMA RefTyped == ASSUME RefInv, RefRest PROVE Ref!RefTypeOK
<1>1. refresh \in [stage : {"free", "queued", "done"}, db : Ref!Handles \cup {NoDB}]
  <2>1. refresh \in Jobs /\ refresh.stage \in {"free", "queued", "done"}
    BY DEF RefInv, RefRest
  <2> QED BY ONLY <2>1 DEF Jobs
<1>2. rebuild \in [Workers -> [stage : Ref!Stages, db : Ref!Handles \cup {NoDB}]]
  BY DEF RefInv, Jobs
<1>3. opened \in 0..MaxOpens
  BY DEF RefInv
<1> QED BY <1>1, <1>2, <1>3 DEF RefInv, RefRest, Ref!RefTypeOK

-----------------------------------------------------------------------------
(* The types of all of the links. *)

\* No radio's client is the mark for none.
RigAssumption == NoRadio \notin RigClients \cup RotorClients

\* The clients of the instance that runs.
Radios == IF part = "rotor" THEN Rotor!Radios ELSE Rig!Radios

\* The two instances of RigControl have a part of the radios each.
LEMMA RadiosHaveNoMark == ASSUME RigAssumption PROVE NoRadio \notin Rig!Radios /\ NoRadio \notin Rotor!Radios
  BY DEF RigAssumption, Rig!Radios, Rotor!Radios

\* The wire rests with the others.
LEMMA WireRests == ASSUME [LinksNext]_allVars PROVE [Line!WireNext]_(Line!wireVars)
  BY DEF LinksNext, DxcRuns, APRSRuns, RigRuns, TuneRuns, WireRuns, GPSRuns, ListenerRuns, QueueRuns, RefRuns,
     allVars, wireVars, Line!wireVars

\* The invariants of the links, and what the types add to them.
LinksInv ==
    /\ DxInv(ui, cmd, conn) /\ DxRest
    /\ APRSInv /\ APRSRest
    /\ RadioInv /\ DeviceRest(Radios) /\ DialIs
    /\ WireInv
    /\ GPSInv /\ GPSRest
    /\ ListenerInv /\ ListenerRest /\ QueueInv /\ QueueRest
    /\ RefInv /\ RefRest

\* They hold at the start.
LEMMA LinksStart ==
  ASSUME DxAssumption, ApAssumption, TuneAssumption, RefAssumption, LinksBounds, LinksInit
  PROVE  LinksInv
<1>1. DxInv(ui, cmd, conn) /\ DxRest
  BY DxStart, DxRestStart DEF LinksInit
<1>2. APRSInv /\ APRSRest
  BY APRSStart, APRSRestStart DEF LinksInit
<1>3. RadioInv /\ DialIs
  BY RadioStart, LineTyped DEF LinksInit
<1>4. DeviceRest(Radios)
  <2>1. PICK radios : radios = Radios
    OBVIOUS
  <2>2. (Rig!RigInit /\ radios = Rig!Radios) \/ (Rotor!RigInit /\ radios = Rotor!Radios)
    BY <2>1 DEF LinksInit, Radios
  <2>3. DeviceRest(radios)
    BY <2>2, DeviceRestStart
  <2> QED BY <2>1, <2>3
<1>5. WireInv
  BY WireStart DEF LinksInit
<1>6. GPSInv /\ GPSRest
  BY GPSStart, GPSRestStart DEF LinksInit
<1>7. ListenerInv /\ ListenerRest /\ QueueInv /\ QueueRest
  BY ListenerStart, ListenerRestStart, QueueStart, QueueRestStart DEF LinksInit
<1>8. RefInv /\ RefRest
  BY RefStart, RefRestStart DEF LinksInit
<1> QED BY <1>1, <1>2, <1>3, <1>4, <1>5, <1>6, <1>7, <1>8 DEF LinksInv

\* The devices that run keep theirs.
LEMMA DevicesStep ==
  ASSUME RigAssumption, LinksBounds, RadioInv, DeviceRest(Radios), [LinksNext]_allVars
  PROVE  DeviceRest(Radios)'
<1>1. PICK radios, c : radios = Radios /\ c = radios \cup {NoRadio}
  OBVIOUS
<1>2. NoRadio \notin radios /\ DeviceInv(c) /\ DeviceRest(radios)
  BY <1>1, RadiosHaveNoMark DEF Radios, RadioInv
<1>3. Radios' = radios
  BY <1>1, OthersRest DEF Radios, Rig!Radios, Rotor!Radios
<1>4. CASE part # "rotor"
  <2>1. radios = Rig!Radios /\ [Rig!RigNext]_(Rig!rigVars)
    BY <1>1, <1>4, OthersRest DEF Radios
  <2>2. DeviceRest(radios)'
    BY <1>1, <1>2, <2>1, RigRestStep
  <2> QED BY <1>3, <2>2 DEF DeviceRest
<1>5. CASE part = "rotor"
  <2>1. radios = Rotor!Radios /\ [Rotor!RigNext]_(Rotor!rigVars)
    BY <1>1, <1>5, OthersRest DEF Radios
  <2>2. DeviceRest(radios)'
    BY <1>1, <1>2, <2>1, RotorRestStep
  <2> QED BY <1>3, <2>2 DEF DeviceRest
<1> QED BY <1>4, <1>5

\* Every step of the links keeps them.
LEMMA LinksStep ==
  ASSUME DxAssumption, ApAssumption, TuneAssumption, RefAssumption, RigAssumption, LinksBounds,
         LinksInv, [LinksNext]_allVars
  PROVE  LinksInv'
<1>t. /\ DxInv(ui, cmd, conn) /\ DxRest /\ APRSInv /\ APRSRest /\ RadioInv /\ DeviceRest(Radios) /\ DialIs
      /\ WireInv /\ GPSInv /\ GPSRest
      /\ ListenerInv /\ ListenerRest /\ QueueInv /\ QueueRest /\ RefInv /\ RefRest
  BY DEF LinksInv
<1>1. DxInv(ui, cmd, conn)' /\ DxRest'
  BY <1>t, OthersRest, DxStep, DxRestStep
<1>2. APRSInv' /\ APRSRest'
  BY <1>t, OthersRest, APRSStep, APRSRestStep
<1>3. RadioInv' /\ DialIs'
  BY <1>t, OthersRest, RadioStep, DialStep
<1>4. DeviceRest(Radios)'
  BY <1>t, DevicesStep
<1>5. WireInv'
  BY <1>t, WireRests, WireStep
<1>6. GPSInv' /\ GPSRest'
  BY <1>t, OthersRest, GPSStep, GPSRestStep
<1>7. ListenerInv' /\ ListenerRest'
  BY <1>t, OthersRest, ListenerStep, ListenerRestStep
<1>8. QueueInv' /\ QueueRest'
  BY <1>t, OthersRest, QueueStep, QueueRestStep
<1>9. RefInv' /\ RefRest'
  BY <1>t, OthersRest, RefStep, RefRestStep
<1> QED BY <1>1, <1>2, <1>3, <1>4, <1>5, <1>6, <1>7, <1>8, <1>9 DEF LinksInv

\* And they are the type.
LEMMA LinksTyped == ASSUME LinksBounds, LinksInv PROVE LinksTypeOK
<1>1. PICK radios, c : radios = Radios /\ c = radios \cup {NoRadio}
  OBVIOUS
<1>2. DeviceInv(c) /\ DeviceRest(radios)
  BY <1>1 DEF LinksInv, RadioInv, Radios
<1>3. (radios = Rig!Radios => Rig!RigTypeOK) /\ (radios = Rotor!Radios => Rotor!RigTypeOK)
  BY <1>1, <1>2, DeviceTyped
<1>4. (part = "rig" => Rig!RigTypeOK) /\ (part = "rotor" => Rotor!RigTypeOK)
  BY <1>1, <1>3 DEF Radios
<1>5. Dxc!TypeOK /\ APRS!APRSTypeOK /\ GPS!GPSTypeOK
  BY DxTyped, APRSTyped, GPSTyped DEF LinksInv
<1>6. Line!TuneTypeOK /\ Line!WireTypeOK
  BY TuneTyped, LineTyped DEF LinksInv, RadioInv
<1>7. WSJT!ListenerTypeOK /\ WSJT!QueueTypeOK /\ Ref!RefTypeOK
  BY ListenerTyped, QueueTyped, RefTyped DEF LinksInv
<1> QED BY <1>4, <1>5, <1>6, <1>7 DEF LinksTypeOK

\* Every link keeps its values: what is on the rig's line fits its bound, the WSJT-X
\* channel and listener are in place, the queue and its file hold only contacts that
\* WSJT-X reported, and no radio's facts or fetches are another instance's.
THEOREM LinksAreTyped ==
  DxAssumption /\ ApAssumption /\ TuneAssumption /\ RefAssumption /\ RigAssumption /\ LinksBounds
    => (LinksSpec => []LinksTypeOK)
<1> SUFFICES ASSUME DxAssumption, ApAssumption, TuneAssumption, RefAssumption, RigAssumption, LinksBounds
             PROVE  LinksSpec => []LinksTypeOK
  OBVIOUS
<1>1. LinksInit => LinksInv
  BY LinksStart
<1>2. LinksInv /\ [LinksNext]_allVars => LinksInv'
  BY LinksStep
<1>3. LinksInv => LinksTypeOK
  BY LinksTyped
<1> QED BY <1>1, <1>2, <1>3, PTL DEF LinksSpec
=============================================================================
