----------------------------- MODULE RelayLease -----------------------------
(***************************************************************************)
(* The lease of a negotiated relay carrier.  The client (tunnel.ts) asks   *)
(* the control plane whether its session still stands and only then has    *)
(* the helper renew; the helper (relay.go) closes the carrier by its own   *)
(* timer, whatever the client does.  Time is discrete: Tick is one unit of *)
(* the code's timers, and what the code does without waiting (a timer that *)
(* is due, a socket found closed) happens before the next Tick.            *)
(*                                                                         *)
(* A negotiation lives on the IPC connection that prepared it.  Two        *)
(* connections: the client's and one it gave up, whose handler may still   *)
(* be at work.  The end of the session (expires_at) may come at any time.  *)
(* The supervisor is its state, its owner and the slot of the carrier; the *)
(* dead-man's clock is HelperSupervisor's.                                 *)
(***************************************************************************)
EXTENDS Naturals

CONSTANTS
  Lease,        \* 30 s, of the helper and of the client's patience
  Cp,           \* 12 s, a request of the control plane
  Ipc,          \* 15 s, a request of the helper
  Negotiation,  \* 35 s, a request that negotiates; the helper's own bound is Lease
  Heartbeat     \* 10 s

ASSUME RelayAssumption ==
  /\ {Lease, Cp, Ipc, Negotiation, Heartbeat} \subseteq Nat \ {0}
  /\ Lease < Negotiation

VARIABLES
  revoked,      \* whether the control plane refuses the session
  since,        \* how long, counted to the bound of RevokedStops
  client,       \* the controller and its one request
  conns,        \* the handler of each connection and its negotiation
  tunnel        \* the supervisor

vars == <<revoked, since, client, conns, tunnel>>

Slots == {1, 2}
Other(s) == 3 - s

CpSteps == {"create", "publish", "gateway", "read"}
IpcSteps == {"prepare", "authorize", "up", "renew", "beat"}

Idle == [at |-> "off", wait |-> 0, patience |-> 0, answer |-> "none", slot |-> 1]
NoConn == [req |-> "none", reply |-> "none", eof |-> FALSE, busy |-> 0,
           neg |-> "none", lease |-> 0, fired |-> FALSE]
NoTunnel == [state |-> "down", owner |-> 0, carrier |-> 0]

Latest == Lease + Ipc + Cp

\* What the client waits for at most.
Patience ==
  CASE client.at \in CpSteps -> Cp
    [] client.at \in {"prepare", "up"} -> Negotiation
    [] client.at \in {"authorize", "renew", "beat"} -> Ipc
    [] client.at = "live" -> Heartbeat
    [] OTHER -> 0

TypeOK ==
  /\ revoked \in BOOLEAN /\ since \in 0..(Latest + 1)
  /\ client \in [at : {"off", "live"} \cup CpSteps \cup IpcSteps, wait : Nat,
                 patience : 0..Lease, answer : {"none", "ok", "no"}, slot : Slots]
  /\ client.wait <= Patience
  /\ conns \in [Slots -> [req : {"none"} \cup IpcSteps, reply : {"none", "ok", "no"},
                          eof : BOOLEAN, busy : 0..Lease,
                          neg : {"none", "ready", "used", "closed"},
                          lease : 0..Lease, fired : BOOLEAN]]
  /\ tunnel \in [state : {"down", "up", "failed"}, owner : {0} \cup Slots, carrier : {0} \cup Slots]
  /\ tunnel.carrier # 0 => tunnel.state = "up"

Init ==
  /\ revoked = FALSE /\ since = 0 /\ client = Idle
  /\ conns = [s \in Slots |-> NoConn] /\ tunnel = NoTunnel

Conn == conns[client.slot]
Open(neg) == neg \in {"ready", "used"}

-----------------------------------------------------------------------------
(* The client.                                                             *)

Go(step) == [client EXCEPT !.at = step, !.wait = 0, !.answer = "none"]
Sent(step) == [conns EXCEPT ![client.slot] = [@ EXCEPT !.req = step, !.reply = "none"]]
Hangup == [conns EXCEPT ![client.slot].eof = TRUE]

\* conn.close(): the controller gives the session up; the next one has a socket of its own.
Released == [Idle EXCEPT !.slot = Other(client.slot)]
GiveUp == client' = Released /\ conns' = Hangup

Connect ==
  /\ client.at = "off" /\ tunnel.state = "down" /\ Conn = NoConn
  /\ client' = Go("create") /\ UNCHANGED <<revoked, since, conns, tunnel>>

\* The control plane answers by what it knows at that instant; the answer travels.
ServerAnswers ==
  /\ client.at \in CpSteps /\ client.answer = "none"
  /\ client' = [client EXCEPT !.answer = IF revoked THEN "no" ELSE "ok"]
  /\ UNCHANGED <<revoked, since, conns, tunnel>>

Accepted(step) == client.at = step /\ client.answer = "ok"

Created ==
  /\ Accepted("create") /\ client' = Go("prepare") /\ conns' = Sent("prepare")
  /\ UNCHANGED <<revoked, since, tunnel>>

\* publish, and then polls of the session until it carries the gateway's payload; to give up
\* after 25 s is one of the failures of Refused.
Published ==
  /\ Accepted("publish") /\ client' = Go("gateway")
  /\ UNCHANGED <<revoked, since, conns, tunnel>>

Unanswered ==
  /\ Accepted("gateway") /\ client' = Go("gateway")
  /\ UNCHANGED <<revoked, since, conns, tunnel>>

GatewayAnswered ==
  /\ Accepted("gateway") /\ client' = Go("authorize") /\ conns' = Sent("authorize")
  /\ UNCHANGED <<revoked, since, tunnel>>

\* A refusal, or a failure while connecting: releaseRelay, conn.close, onLost.
Refused ==
  /\ client.at \in CpSteps
  /\ client.answer = "no" \/ client.at # "read"
  /\ GiveUp /\ UNCHANGED <<revoked, since, tunnel>>

Renewed ==
  /\ Accepted("read") /\ client' = Go("renew") /\ conns' = Sent("renew")
  /\ UNCHANGED <<revoked, since, tunnel>>

\* The session is about to end, or its offers changed: it is never extended.
NotExtended ==
  /\ Accepted("read") /\ GiveUp /\ UNCHANGED <<revoked, since, tunnel>>

\* An unreachable control plane: patience, within the lease of the last authorization.
TransientRenews ==                             \* faulty variant: an outage renews
  /\ client.at = "read" /\ client' = Go("renew") /\ conns' = Sent("renew")
  /\ UNCHANGED <<revoked, since, tunnel>>
Transient ==
  /\ client.at = "read"
  /\ IF client.patience > 0 THEN client' = Go("live") /\ conns' = conns ELSE GiveUp
  /\ UNCHANGED <<revoked, since, tunnel>>

\* A reply.  The deadline counts from when the authorization was sent.
AuthorizedLate == Lease                        \* faulty variant: it counts from the reply
Authorized == IF client.wait < Lease THEN Lease - client.wait ELSE 0

AfterReply(step) ==
  CASE step = "prepare" -> Go("publish")
    [] step = "authorize" -> [Go("up") EXCEPT !.patience = Authorized]
    [] step = "up" -> Go("live")
    [] step = "renew" -> [Go("beat") EXCEPT !.patience = Authorized]
    [] step = "beat" -> Go("live")

Replied ==
  /\ client.at \in IpcSteps /\ Conn.reply = "ok"
  /\ client' = AfterReply(client.at)
  /\ conns' = LET k == [Conn EXCEPT !.reply = "none"] IN
              [conns EXCEPT ![client.slot] =
                 CASE client.at = "authorize" -> [k EXCEPT !.req = "up"]
                   [] client.at = "renew" -> [k EXCEPT !.req = "beat"]
                   [] OTHER -> k]
  /\ UNCHANGED <<revoked, since, tunnel>>

\* A refusal, a reply that is late, or a socket lost.
Denied ==
  /\ client.at \in IpcSteps /\ Conn.reply # "ok"
  /\ GiveUp /\ UNCHANGED <<revoked, since, tunnel>>

Beat ==
  /\ client.at = "live" /\ client.wait = Heartbeat
  /\ client' = Go("read") /\ UNCHANGED <<revoked, since, conns, tunnel>>

\* down(): the relay is released, tunnel_down closes the negotiation first.
Disconnect ==
  /\ client.at = "live" /\ Conn.req = "none" /\ Conn.busy = 0
  /\ conns' = [conns EXCEPT ![client.slot] = [NoConn EXCEPT !.eof = TRUE]]
  /\ tunnel' = NoTunnel /\ client' = Released /\ UNCHANGED <<revoked, since>>

\* The app dies, or what it was doing is lost.
Crash ==
  /\ client.at # "off" /\ GiveUp /\ UNCHANGED <<revoked, since, tunnel>>

\* The cleanup of a tunnel that was given up, on a connection of its own.
Cleanup ==
  /\ client.at = "off" /\ tunnel.state # "down" /\ \A s \in Slots : conns[s].busy = 0
  /\ tunnel' = NoTunnel /\ UNCHANGED <<revoked, since, client, conns>>

-----------------------------------------------------------------------------
(* The helper.                                                             *)

Set(s, k) == conns' = [conns EXCEPT ![s] = k]
Done(k, reply) == [k EXCEPT !.req = "none", !.reply = reply, !.busy = 0]
Handles(s, reqs) == conns[s].req \in reqs /\ conns[s].busy = 0

Prepare(s) ==
  /\ Handles(s, {"prepare"})
  /\ IF tunnel.state # "down" THEN Set(s, Done(conns[s], "no"))
     ELSE Set(s, [conns[s] EXCEPT !.busy = 1, !.neg = "none"])
  /\ UNCHANGED <<revoked, since, client, tunnel>>

Gathered(s) ==
  /\ conns[s].req = "prepare" /\ conns[s].busy > 0
  /\ \/ Set(s, [Done(conns[s], "ok") EXCEPT !.neg = "ready", !.lease = Lease, !.fired = FALSE])
     \/ Set(s, Done(conns[s], "no"))
  /\ UNCHANGED <<revoked, since, client, tunnel>>

\* relay_authorize: the timer is reset even when it has fired and waits for the mutex.
Authorize(s) ==
  /\ Handles(s, {"authorize", "renew"})
  /\ Set(s, IF Open(conns[s].neg) THEN [Done(conns[s], "ok") EXCEPT !.lease = Lease]
            ELSE Done(conns[s], "no"))
  /\ UNCHANGED <<revoked, since, client, tunnel>>

\* tunnel_up: a negotiation binds once.
Bind(s) ==
  /\ Handles(s, {"up"}) /\ tunnel.state # "up" /\ \A t \in Slots : conns[t].req = "up" => conns[t].busy = 0
  /\ IF conns[s].neg = "ready"
     THEN Set(s, [conns[s] EXCEPT !.busy = 1, !.neg = "used"]) /\ tunnel' = tunnel
     ELSE /\ Set(s, [Done(conns[s], "no") EXCEPT !.neg = IF @ = "none" THEN @ ELSE "closed"])
          /\ tunnel' = [state |-> "failed", owner |-> s, carrier |-> 0]
  /\ UNCHANGED <<revoked, since, client>>

Bound(s) ==
  /\ conns[s].req = "up" /\ conns[s].busy > 0
  /\ \/ /\ conns[s].neg = "used"
        /\ Set(s, Done(conns[s], "ok")) /\ tunnel' = [state |-> "up", owner |-> s, carrier |-> s]
     \/ /\ Set(s, [Done(conns[s], "no") EXCEPT !.neg = "closed"])
        /\ tunnel' = [state |-> "failed", owner |-> s, carrier |-> 0]
  /\ UNCHANGED <<revoked, since, client>>

AlreadyUp(s) ==
  /\ Handles(s, {"up"}) /\ tunnel.state = "up"
  /\ Set(s, Done(conns[s], "no")) /\ tunnel' = [tunnel EXCEPT !.owner = s]
  /\ UNCHANGED <<revoked, since, client>>

Status(s) ==
  /\ Handles(s, {"beat"})
  /\ Set(s, Done(conns[s], IF tunnel.state = "up" THEN "ok" ELSE "no"))
  /\ UNCHANGED <<revoked, since, client, tunnel>>

\* The handler finds its socket closed: the owner fails closed, then the negotiation ends.
HangupForgets(s) ==                            \* faulty variant: the negotiation is left open
  /\ conns[s].eof /\ conns[s].req = "none"
  /\ conns' = [conns EXCEPT ![s].eof = FALSE]
  /\ tunnel' = IF tunnel.owner = s THEN [tunnel EXCEPT !.owner = 0] ELSE tunnel
  /\ UNCHANGED <<revoked, since, client>>
HandlerEnds(s) ==
  /\ conns[s].eof /\ conns[s].req = "none"
  /\ Set(s, NoConn)
  /\ tunnel' = CASE tunnel.owner = s /\ tunnel.state = "up" ->
                      [state |-> "failed", owner |-> 0, carrier |-> 0]
                 [] tunnel.owner = s -> [tunnel EXCEPT !.owner = 0]
                 [] OTHER -> tunnel
  /\ UNCHANGED <<revoked, since, client>>

\* The lease timer, and the close it asks for.
Fire(s) ==
  /\ Open(conns[s].neg) /\ conns[s].lease = 0 /\ ~conns[s].fired
  /\ Set(s, [conns[s] EXCEPT !.fired = TRUE]) /\ UNCHANGED <<revoked, since, client, tunnel>>
Close(s) ==
  /\ Open(conns[s].neg) /\ conns[s].fired
  /\ Set(s, [conns[s] EXCEPT !.neg = "closed", !.fired = FALSE])
  /\ UNCHANGED <<revoked, since, client, tunnel>>

\* The context's deadline, the end of the session.
Expire(s) ==
  /\ Open(conns[s].neg) /\ ~conns[s].fired
  /\ Set(s, [conns[s] EXCEPT !.fired = TRUE]) /\ UNCHANGED <<revoked, since, client, tunnel>>

DeadMan ==
  /\ tunnel.state = "failed" /\ tunnel' = [tunnel EXCEPT !.state = "down"]
  /\ UNCHANGED <<revoked, since, client, conns>>

-----------------------------------------------------------------------------
(* Time.                                                                   *)

Revoke ==
  /\ ~revoked /\ revoked' = TRUE /\ UNCHANGED <<since, client, conns, tunnel>>

Due(s) ==
  \/ Open(conns[s].neg) /\ (conns[s].lease = 0 \/ conns[s].fired)
  \/ conns[s].eof /\ conns[s].req = "none"
  \/ conns[s].busy = Lease

\* A deadline is one unit nearer, or past.
Sooner(n) == IF n = 0 THEN 0 ELSE n - 1

Tick ==
  /\ \A s \in Slots : ~Due(s)
  /\ client.at = "off" \/ client.wait < Patience
  /\ client' = [client EXCEPT !.wait = IF client.at = "off" THEN 0 ELSE client.wait + 1,
                              !.patience = Sooner(client.patience)]
  /\ conns' = [s \in Slots |->
       [conns[s] EXCEPT !.lease = IF Open(conns[s].neg) THEN Sooner(conns[s].lease) ELSE 0,
                        !.busy = IF conns[s].busy = 0 THEN 0 ELSE conns[s].busy + 1]]
  /\ since' = IF revoked /\ since <= Latest THEN since + 1 ELSE since
  /\ UNCHANGED <<revoked, tunnel>>

-----------------------------------------------------------------------------

Client ==
  \/ Connect \/ Created \/ Published \/ Unanswered \/ GatewayAnswered \/ Refused \/ Renewed
  \/ NotExtended \/ Transient \/ Replied \/ Denied \/ Beat \/ Disconnect \/ Crash \/ Cleanup

Helper(s) ==
  \/ Prepare(s) \/ Gathered(s) \/ Authorize(s) \/ Bind(s) \/ Bound(s) \/ AlreadyUp(s)
  \/ Status(s) \/ HandlerEnds(s) \/ Fire(s) \/ Close(s) \/ Expire(s)

Next == Client \/ (\E s \in Slots : Helper(s)) \/ DeadMan \/ ServerAnswers \/ Revoke \/ Tick

Spec == Init /\ [][Next]_vars

-----------------------------------------------------------------------------
(* Properties.                                                             *)

Forwarding(s) == tunnel.carrier = s /\ conns[s].neg = "used"

\* A carrier the control plane no longer stands behind is closed, whatever is lost, crashes
\* or hangs: at most a lease after a renewal that was asked for by an answer that was on
\* its way when the session was revoked.
RevokedStops == since > Latest => \A s \in Slots : ~Forwarding(s)

\* The client is never patient beyond the lease that the helper keeps: an outage it sits
\* out is one the carrier survives.
PatienceIsLeased ==
  LET k == Conn IN
  client.at \in {"live", "read", "renew"} /\ Open(k.neg) /\ ~k.fired => client.patience <= k.lease

\* A carrier is owned: by the connection it was negotiated on, whose loss takes it.
CarrierIsOwned ==
  \A s \in Slots : Forwarding(s) =>
    \/ client.slot = s /\ client.at \notin {"off", "create", "prepare"}
    \/ conns[s].eof

=============================================================================
