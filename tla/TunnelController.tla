-------------------------- MODULE TunnelController --------------------------
(***************************************************************************)
(* TunnelController (main/tunnel.ts) over the channel HelperConnection     *)
(* implements, against the helper: what the client believes it owes the    *)
(* helper, what it publishes, and what the helper really does, while       *)
(* requests time out, sockets end on either side, the relay's             *)
(* authorization fails, and the client or the helper dies.                 *)
(*                                                                         *)
(* JavaScript runs the continuations of a settled request before any other *)
(* event (Quiet).  The lane of ManagedLifecycle runs one of up, down,      *)
(* status and the live updates at a time; the heartbeat runs beside it.    *)
(* (So does a posture read: it is one more request whose deadline ends the *)
(* socket, as the helper may at any time.)  connectionGeneration and the   *)
(* generation of an ownership always equal sessionGeneration: all three    *)
(* are `gen'.                                                              *)
(*                                                                         *)
(* The helper is external to this module: its calls are single steps, as   *)
(* HelperServer and HelperSupervisor justify; a request the client gave up *)
(* on stays queued and is executed before the helper sees the socket end.  *)
(* Its frames decode, so no socket is "lost".                              *)
(***************************************************************************)
EXTENDS RequestChannel, Naturals, Sequences

CONSTANTS MaxGen       \* bound: generations of one process

ASSUME ControllerAssumption ==
  /\ MaxGen \in Nat \ {0}
  /\ Calls = {"flow", "beat"}
  /\ NoSocket \notin Sockets /\ Sockets \subseteq Nat      \* numbered in the order of their use

VARIABLES
  me,      \* the fields of the TunnelController
  flow,    \* the await the lane's operation stands at
  tick,    \* the await the heartbeat's callback stands at, and its generation
  got,     \* per call: the outcome a continuation reads
  todo,    \* per socket: requests the helper has not executed
  back,    \* per socket: replies the client has not read
  gone,    \* the sockets the helper is done with
  host     \* the helper: its state and owner

client == <<me, flow, tick, got>>
helper == <<todo, back, gone, host>>
tunnel == <<channel, client, helper>>

Verbs == {"tunnel_up", "tunnel_down", "status", "set_resolvers", "sweep", "relay", "update"}
Outcomes == {"ok", "refused", "prearm", "down", "up", "failed"}
Flows == {"idle", "resolve", "prepare", "signal", "authorize", "up", "resolvers",
          "sweep", "down", "status", "update", "peer"}

Fresh == [kind |-> "inactive", gen |-> 0, failed |-> 0, latch |-> FALSE,
          relay |-> FALSE, leased |-> FALSE, beat |-> 0, recanted |-> FALSE]

ControllerTypeOK ==
  /\ ChannelTypeOK
  /\ me \in [kind : {"inactive", "up", "owed"}, gen : 0..MaxGen, failed : 0..MaxGen,
             latch : BOOLEAN, relay : BOOLEAN, leased : BOOLEAN, beat : 0..MaxGen,
             recanted : BOOLEAN]
  /\ flow \in Flows
  /\ tick \in [at : {"idle", "read", "authorize", "status"}, gen : 0..MaxGen]
  /\ got \in [Calls -> Outcomes \cup {"nothing"}]
  /\ todo \in [Sockets -> Seq([call : Calls, verb : Verbs])]
  /\ back \in [Sockets -> Seq([call : Calls, out : Outcomes])]
  /\ gone \subseteq Sockets
  /\ host \in [state : {"down", "up", "failed"}, owner : Sockets \cup {NoSocket}]

\* The helper may hold what an earlier process of the client left.
ControllerInit ==
  /\ ChannelInit
  /\ me = Fresh /\ flow = "idle" /\ tick = [at |-> "idle", gen |-> 0]
  /\ got = [r \in Calls |-> "nothing"]
  /\ todo = [s \in Sockets |-> <<>>] /\ back = [s \in Sockets |-> <<>>] /\ gone = {}
  /\ host \in [state : {"down", "failed"}, owner : {NoSocket}]

-----------------------------------------------------------------------------
(* What the methods do to the fields.                                      *)

Owns(g) == me.kind = "up" /\ me.gen = g

NewGen(c) == [c EXCEPT !.gen = @ + 1]

\* recanted is a history variable: no action reads it.
Say(c, state) == [c EXCEPT !.recanted = @ \/ (state = "up" /\ c.failed = c.gen)]

PublishFailedOnce(c) == [c EXCEPT !.failed = c.gen]

Release(c) == [c EXCEPT !.relay = FALSE, !.leased = FALSE]

LostSilently(c) == [c EXCEPT !.beat = 0]       \* faulty variant: the ownership stays
OnLost(c) ==
  IF c.kind = "inactive" THEN c
  ELSE PublishFailedOnce([c EXCEPT !.kind = "owed", !.beat = 0, !.latch = TRUE])

Down(c) == [c EXCEPT !.kind = "inactive", !.failed = 0, !.latch = FALSE]

Adopt(c) ==
  IF c.kind # "inactive" THEN c
  ELSE [NewGen(c) EXCEPT !.failed = 0, !.kind = "owed", !.latch = TRUE]

Unreconciled(c, state) == c                    \* faulty variant
Reconcile(c, state) ==
  CASE state = "down" ->
         [Down(c) EXCEPT !.beat = IF c.kind = "inactive" THEN @ ELSE 0]
    [] state = "up" -> Adopt(c)
    [] state = "failed" -> [Adopt(c) EXCEPT !.kind = "owed", !.beat = 0, !.latch = TRUE]

\* What status() returns: a generation whose failure was published stays failed.
Believed(c, state) == state                    \* faulty variant
Shown(c, state) == IF state = "up" /\ c.failed = c.gen THEN "failed" ELSE state

-----------------------------------------------------------------------------
(* Requests.                                                               *)

Settled(r) == call[r] \in {"answered", "failed"}
Quiet ==
  /\ \A r \in Calls : ~Settled(r)
  /\ \A r \in Calls : call[r] = "asked" => \A s \in Sockets : ~IsOpen(s)

Usable == {s \in Sockets : IsOpen(s)}

\* The call is made at once on an open socket, or waits for an attempt.
Request(r, verb) ==
  /\ got' = [got EXCEPT ![r] = "nothing"]
  /\ IF Usable = {}
     THEN /\ call' = [call EXCEPT ![r] = "asked"] /\ on' = on
          /\ todo' = todo
     ELSE \E s \in Usable :
            /\ call' = [call EXCEPT ![r] = "sent"] /\ on' = [on EXCEPT ![r] = s]
            /\ todo' = [todo EXCEPT ![s] = Append(@, [call |-> r, verb |-> verb])]
  /\ UNCHANGED <<fate, back, gone, host>>

\* The verb a call that waits for a socket will send.
VerbOf(r) ==
  CASE r = "beat" -> IF tick.at = "authorize" THEN "relay" ELSE "status"
    [] OTHER -> CASE flow \in {"prepare", "authorize"} -> "relay"
                  [] flow = "up" -> "tunnel_up"
                  [] flow = "down" -> "tunnel_down"
                  [] flow = "resolvers" -> "set_resolvers"
                  [] flow = "peer" -> "update"
                  [] OTHER -> flow

Proceed(r) ==
  \E s \in Usable :
    /\ Send(r, s)
    /\ todo' = [todo EXCEPT ![s] = Append(@, [call |-> r, verb |-> VerbOf(r)])]
    /\ UNCHANGED <<client, back, gone, host>>

Idle(r) ==
  /\ call' = [call EXCEPT ![r] = "idle"] /\ got' = [got EXCEPT ![r] = "nothing"]
  /\ UNCHANGED <<on, fate, todo, back, gone, host>>

KeepSocket(r) == Idle(r)                       \* faulty variant
\* conn.close() in a continuation of this call: the socket, or the attempt others
\* wait for, ends and nobody is told.
CloseSocket(r) ==
  LET dropped == {q \in Calls \ {r} : call[q] \in {"asked", "sent"}} IN
  /\ call' = [q \in Calls |-> IF q = r THEN "idle" ELSE IF q \in dropped THEN "failed" ELSE call[q]]
  /\ on' = [q \in Calls |-> IF q \in dropped THEN NoSocket ELSE on[q]]
  /\ fate' = [s \in Sockets |-> IF IsOpen(s) THEN "shut" ELSE fate[s]]
  /\ back' = [s \in Sockets |-> IF IsOpen(s) THEN <<>> ELSE back[s]]
  /\ got' = [got EXCEPT ![r] = "nothing"]
  /\ UNCHANGED <<todo, gone, host>>

Ok(r) == call[r] = "answered" /\ got[r] = "ok"

-----------------------------------------------------------------------------
(* up().                                                                   *)

FlowOnly == tick' = tick

\* Every managed and imported connect runs down() first; on an inactive ownership
\* that is a release of the relay and of the timer, without a request.
Up ==
  /\ Quiet /\ flow = "idle" /\ me.kind = "inactive" /\ me.gen < MaxGen
  /\ me' = [NewGen(Release(me)) EXCEPT !.failed = 0, !.beat = 0]
  /\ flow' = "resolve" /\ UNCHANGED <<channel, got>> /\ FlowOnly /\ UNCHANGED helper

\* The catch of up(): a relay session takes the socket with it.
UpFails(c) ==
  /\ flow' = "idle" /\ FlowOnly
  /\ IF c.relay THEN me' = OnLost(Release(c)) /\ CloseSocket("flow")
     ELSE me' = c /\ Idle("flow")

\* Provisional: from here on only a typed refusal proves that nothing was armed.
SendUp(c) ==
  /\ me' = [c EXCEPT !.kind = "owed"]
  /\ flow' = "up" /\ Request("flow", "tunnel_up") /\ FlowOnly

Resolved ==
  /\ Quiet /\ flow = "resolve"
  /\ \/ UpFails(me)
     \/ SendUp(me)
     \/ /\ me' = [me EXCEPT !.relay = TRUE]
        /\ flow' = "prepare" /\ Request("flow", "relay") /\ FlowOnly

Prepared ==
  /\ Settled("flow") /\ flow = "prepare"
  /\ IF Ok("flow") THEN flow' = "signal" /\ me' = me /\ Idle("flow") /\ FlowOnly
     ELSE UpFails(me)

Signalled ==
  /\ Quiet /\ flow = "signal"
  /\ \/ flow' = "authorize" /\ me' = me /\ Request("flow", "relay") /\ FlowOnly
     \/ UpFails(me)

Authorized ==
  /\ Settled("flow") /\ flow = "authorize"
  /\ IF Ok("flow") THEN SendUp([me EXCEPT !.leased = TRUE]) ELSE UpFails(me)

\* The owner may have been lost while the resolvers were set up.
UpDone ==
  IF Owns(me.gen)
  THEN /\ me' = Say([me EXCEPT !.beat = me.gen], "up")
       /\ flow' = "idle" /\ Idle("flow") /\ FlowOnly
  ELSE UpFails(me)

UpAnswered ==
  /\ Settled("flow") /\ flow = "up"
  /\ CASE Ok("flow") ->
            \/ /\ me' = Say([me EXCEPT !.kind = "up", !.beat = me.gen], "up")
               /\ flow' = "idle" /\ Idle("flow") /\ FlowOnly
            \/ /\ me' = [me EXCEPT !.kind = "up", !.latch = TRUE]
               /\ flow' = "resolvers" /\ Request("flow", "set_resolvers") /\ FlowOnly
       [] call["flow"] = "answered" /\ got["flow"] = "prearm" ->
            UpFails([me EXCEPT !.kind = "inactive"])
       [] OTHER -> UpFails(PublishFailedOnce(me))

\* Best effort: a set that failed leaves the latch as the attempt set it.
UpResolved == Settled("flow") /\ flow = "resolvers" /\ UpDone

-----------------------------------------------------------------------------
(* down() and failClosed().                                                *)

DownAsks(c) ==
  /\ me' = c /\ flow' = "down" /\ Request("flow", "tunnel_down") /\ FlowOnly

BeginDown ==
  /\ Quiet /\ flow = "idle" /\ me.kind # "inactive" /\ me.gen < MaxGen
  /\ LET c == [NewGen(Release(me)) EXCEPT !.beat = 0, !.failed = 0, !.kind = "owed"] IN
       IF me.latch
       THEN me' = c /\ flow' = "sweep" /\ Request("flow", "sweep") /\ FlowOnly
       ELSE DownAsks(c)

Swept ==
  /\ Settled("flow") /\ flow = "sweep"
  /\ DownAsks(IF Ok("flow") THEN [me EXCEPT !.latch = FALSE] ELSE me)

DownAnswered ==
  /\ Settled("flow") /\ flow = "down" /\ flow' = "idle" /\ FlowOnly
  /\ IF Ok("flow") THEN me' = Down(me) /\ CloseSocket("flow")
     ELSE /\ me' = PublishFailedOnce(IF call["flow"] = "answered" THEN [me EXCEPT !.latch = TRUE] ELSE me)
          /\ Idle("flow")

\* A terminal verdict of the server, after a teardown was refused.
FailClosed ==
  /\ Quiet /\ flow = "idle" /\ me.kind # "inactive"
  /\ me' = PublishFailedOnce([me EXCEPT !.kind = "owed", !.beat = 0, !.latch = TRUE])
  /\ CloseSocket("flow") /\ flow' = "idle" /\ FlowOnly

-----------------------------------------------------------------------------
(* status() and the live updates.                                           *)

Begin(step, verb) == flow' = step /\ Request("flow", verb) /\ FlowOnly

Status ==
  /\ Quiet /\ flow = "idle" /\ me.gen < MaxGen
  /\ me' = me /\ Begin("status", "status")

StatusAnswered ==
  /\ Settled("flow") /\ flow = "status" /\ flow' = "idle" /\ Idle("flow") /\ FlowOnly
  /\ me' = IF call["flow"] = "answered" /\ got["flow"] \in {"down", "up", "failed"}
           THEN LET c == Reconcile(me, got["flow"]) IN Say(c, Shown(c, got["flow"]))
           ELSE me

\* setAllowedIPs; setResolvers, whose entries set the latch before the request and whose
\* success, when there are none, clears it.
Update ==
  /\ Quiet /\ flow = "idle" /\ Owns(me.gen)
  /\ me' \in {me, [me EXCEPT !.latch = TRUE]} /\ Begin("update", "update")

\* setGatewayPeer asks whether this generation's failure was published, and nothing else.
NotFailed == me.failed = 0 \/ me.failed # me.gen
Repeer ==
  /\ Quiet /\ flow = "idle" /\ NotFailed /\ ~me.relay
  /\ me' = me /\ Begin("peer", "update")

Updated ==
  /\ Settled("flow") /\ flow \in {"update", "peer"}
  /\ me' = me \/ (flow = "update" /\ Ok("flow") /\ me' = [me EXCEPT !.latch = FALSE])
  /\ flow' = "idle" /\ Idle("flow") /\ FlowOnly

\* On a relay its carrier cannot change the peer.
Rehome ==
  /\ Quiet /\ flow = "idle" /\ NotFailed /\ me.relay
  /\ me' = Release(OnLost(me)) /\ CloseSocket("flow") /\ flow' = "idle" /\ FlowOnly

-----------------------------------------------------------------------------
(* startHeartbeat().                                                       *)

BeatOnly == flow' = flow
TickEnds == tick' = [at |-> "idle", gen |-> 0]
TickAsks(at, verb) == tick' = [tick EXCEPT !.at = at] /\ Request("beat", verb)

\* One tick at a time; a timer that was stopped may leave one under way.
Beat ==
  /\ Quiet /\ tick.at = "idle" /\ me.beat # 0
  /\ IF me.relay
     THEN tick' = [at |-> "read", gen |-> me.beat] /\ UNCHANGED <<channel, got, helper>>
     ELSE tick' = [at |-> "status", gen |-> me.beat] /\ Request("beat", "status")
  /\ me' = me /\ BeatOnly

BeatFails ==
  /\ TickEnds /\ BeatOnly
  /\ IF me.relay /\ tick.gen = me.gen
     THEN me' = OnLost(Release(me)) /\ CloseSocket("beat")
     ELSE me' = me /\ Idle("beat")

\* The control plane confirms the session, refuses it or shows another, or cannot be
\* reached, which is forgiven while the helper's lease lasts.
BeatRead ==
  /\ Quiet /\ tick.at = "read"
  /\ \/ IF me.relay /\ Owns(tick.gen)
        THEN me' = me /\ TickAsks("authorize", "relay") /\ BeatOnly
        ELSE me' = me /\ TickEnds /\ Idle("beat") /\ BeatOnly
     \/ BeatFails
     \/ me.leased /\ me' = me /\ TickEnds /\ Idle("beat") /\ BeatOnly

BeatAuthorized ==
  /\ Settled("beat") /\ tick.at = "authorize"
  /\ IF Ok("beat")
     THEN me' = [me EXCEPT !.leased = me.relay] /\ TickAsks("status", "status") /\ BeatOnly
     ELSE BeatFails

BeatAnswered ==
  /\ Settled("beat") /\ tick.at = "status"
  /\ IF call["beat"] = "failed" THEN BeatFails
     ELSE /\ TickEnds /\ Idle("beat") /\ BeatOnly
          /\ me' = IF Owns(tick.gen) /\ got["beat"] \in {"down", "up", "failed"}
                   THEN LET c == Reconcile(me, got["beat"]) IN
                          IF got["beat"] = "failed" THEN PublishFailedOnce(c) ELSE Say(c, got["beat"])
                   ELSE me

LeaseEnds ==
  /\ Quiet /\ me.leased /\ me' = [me EXCEPT !.leased = FALSE]
  /\ UNCHANGED <<channel, flow, tick, got, helper>>

-----------------------------------------------------------------------------
(* Events of the connection.                                               *)

EventOnly == UNCHANGED <<flow, tick, todo, gone, host>>

AttemptFails ==
  /\ Quiet /\ Refuse({r \in Calls : call[r] = "asked"})
  /\ UNCHANGED <<me, got, back>> /\ EventOnly

Connected(s) ==
  /\ Quiet /\ \E r \in Calls : call[r] = "asked"
  /\ \A t \in Sockets : fate[t] = "new" => s <= t
  /\ Open(s) /\ UNCHANGED <<me, got, back>> /\ EventOnly

Delivered(s) ==
  /\ Quiet /\ IsOpen(s) /\ back[s] # <<>>
  /\ LET reply == Head(back[s]) IN
       /\ Answer(reply.call)
       /\ got' = [got EXCEPT ![reply.call] = reply.out]
  /\ back' = [back EXCEPT ![s] = Tail(@)]
  /\ me' = me /\ EventOnly

\* The helper closed it, or a request's deadline passed: onLost runs at once.
SocketEnds(s) ==
  /\ Quiet /\ (s \in gone \/ SentOn(s) # {})
  /\ End(s, "told") /\ me' = OnLost(me)
  /\ back' = [back EXCEPT ![s] = <<>>]
  /\ UNCHANGED got /\ EventOnly

\* The process ends: three seconds after the user quits, when down() is done, or at
\* any time; the next one starts afresh (its generations are counted on, as a bound).
Exits ==
  /\ me # Fresh /\ me.gen < MaxGen
  /\ me' = [Fresh EXCEPT !.gen = me.gen] /\ flow' = "idle" /\ tick' = [at |-> "idle", gen |-> 0]
  /\ got' = [r \in Calls |-> "nothing"]
  /\ call' = [r \in Calls |-> "idle"] /\ on' = [r \in Calls |-> NoSocket]
  /\ fate' = [s \in Sockets |-> IF IsOpen(s) THEN "shut" ELSE fate[s]]
  /\ back' = [s \in Sockets |-> <<>>]
  /\ UNCHANGED <<todo, gone, host>>

-----------------------------------------------------------------------------
(* The helper.                                                             *)

\* The calls of the supervisor; a bring-up makes its connection the owner unless the
\* host stays down.
Does(s, verb, out) ==
  CASE verb = "tunnel_up" ->
         \/ host.state = "up" /\ out \in {"prearm", "refused"} /\ host' = [host EXCEPT !.owner = s]
         \/ /\ host.state # "up" /\ out = "prearm"
            /\ host' = IF host.state = "failed" THEN [host EXCEPT !.owner = s] ELSE host
         \/ /\ host.state # "up" /\ out \in {"ok", "refused"}
            /\ host' = [host EXCEPT !.state = IF out = "ok" THEN "up" ELSE "failed", !.owner = s]
    [] verb = "tunnel_down" ->
         /\ out = "ok" \/ (out = "refused" /\ host.state # "down")
         /\ host' = [host EXCEPT !.state = "down",
                                 !.owner = IF out = "ok" /\ @ = s THEN NoSocket ELSE @]
    [] verb = "status" ->
         out \in {host.state} \cup (IF host.state = "up" THEN {"refused"} ELSE {}) /\ host' = host
    [] verb \in {"relay", "update", "set_resolvers", "sweep"} -> out \in {"ok", "refused"} /\ host' = host

\* A reply on a socket the client has closed cannot be written, and ends the handler.
Execute(s) ==
  /\ s \notin gone /\ todo[s] # <<>>
  /\ LET q == Head(todo[s]) IN
       \E out \in Outcomes :
         /\ Does(s, q.verb, out)
         /\ IF IsOpen(s)
            THEN /\ todo' = [todo EXCEPT ![s] = Tail(@)]
                 /\ back' = [back EXCEPT ![s] = Append(@, [call |-> q.call, out |-> out])]
            ELSE /\ todo' = [todo EXCEPT ![s] = <<>>] /\ back' = back
  /\ UNCHANGED <<channel, client, gone>>

OwnerEnds(s) ==
  IF host.owner # s THEN host
  ELSE [host EXCEPT !.owner = NoSocket, !.state = IF @ = "up" THEN "failed" ELSE @]

HandlerEnds(s) ==
  /\ s \notin gone /\ todo[s] = <<>>
  /\ fate[s] \notin {"new", "open"} \/ (IsOpen(s) /\ back[s] = <<>>)  \* closed, or silent too long
  /\ gone' = gone \cup {s} /\ host' = OwnerEnds(s)
  /\ UNCHANGED <<channel, client, todo, back>>

\* A failed tunnel gets no heartbeat, one that is up gets none without an owner.
DeadMan ==
  /\ host.state = "failed" \/ (host.state = "up" /\ host.owner = NoSocket)
  /\ host' = [host EXCEPT !.state = "down"]
  /\ UNCHANGED <<channel, client, todo, back, gone>>

\* The successor heals the host before it serves.
HelperCrash ==
  /\ host' = [state |-> "down", owner |-> NoSocket]
  /\ gone' = gone \cup {s \in Sockets : fate[s] # "new"}
  /\ todo' = [s \in Sockets |-> <<>>]
  /\ UNCHANGED <<channel, client, back>>

-----------------------------------------------------------------------------

Operation ==
  \/ Up \/ BeginDown \/ FailClosed \/ Status \/ Update \/ Repeer \/ Rehome

Continuation ==
  \/ Prepared \/ Authorized \/ UpAnswered \/ UpResolved \/ Swept \/ DownAnswered
  \/ StatusAnswered \/ Updated \/ BeatAuthorized \/ BeatAnswered
  \/ \E r \in Calls : Proceed(r)

Outside == Resolved \/ Signalled \/ BeatRead \/ LeaseEnds

Network(s) == Connected(s) \/ Delivered(s) \/ SocketEnds(s)

Handler(s) == Execute(s) \/ HandlerEnds(s)

ControllerNext ==
  \/ Operation \/ Continuation \/ Outside \/ Beat \/ Exits \/ AttemptFails
  \/ \E s \in Sockets : Network(s) \/ Handler(s)
  \/ DeadMan \/ HelperCrash

ControllerSpec == ControllerInit /\ [][ControllerNext]_tunnel

\* Continuations run; an event that is due (a timer, a reply, the end of a socket) is
\* served when the event loop turns, however busy it is; the helper's handlers go on.
\* Nobody has to ask for anything.
FairController ==
  /\ ControllerSpec
  /\ WF_tunnel(Continuation) /\ SF_tunnel(Beat) /\ SF_tunnel(LeaseEnds) /\ SF_tunnel(BeatRead)
  /\ SF_tunnel(AttemptFails \/ \E s \in Sockets : Connected(s))
  /\ \A s \in Sockets : SF_tunnel(Delivered(s) \/ SocketEnds(s)) /\ WF_tunnel(Handler(s))

-----------------------------------------------------------------------------
(* Properties.                                                             *)

\* While the client takes the tunnel for its own, the socket that vouches for it is
\* open; whatever ends it, a deadline of an unrelated read included, is noticed.
UpHasItsSocket == me.kind = "up" => Usable # {}

\* A generation whose failure was published is never published as up again, not by a
\* heartbeat nor by a status read that was under way.
FailedIsFinal == ~me.recanted

\* The client's belief follows the helper: a tunnel that is gone is noticed.
Corrected == (me.kind = "up" /\ host.state # "up") ~> (me.kind # "up" \/ host.state = "up")

\* A failure the client publishes becomes the network's truth.
FailureIsReal ==
  (me.failed # 0 /\ me.failed = me.gen) ~> (host.state # "up" \/ me.failed # me.gen)

=============================================================================
