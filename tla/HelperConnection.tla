-------------------------- MODULE HelperConnection --------------------------
(***************************************************************************)
(* HelperConnection (main/helperclient.ts): one socket at a time, a        *)
(* connection attempt that concurrent requests share, replies without      *)
(* identifiers matched to requests in order, a deadline for each request,  *)
(* and the events of sockets already given up, which come late.            *)
(*                                                                         *)
(* Abstractions.  A request is an identifier used once, its reply carries  *)
(* the same one; a frame is delivered whole or is one that does not decode.*)
(* The array of waiters is kept by socket: the code searches it, filters it *)
(* and rejects from it for one socket at a time, in the order of arrival.  *)
(***************************************************************************)
EXTENDS Naturals, Sequences, SequencesExt

CONSTANTS Calls, Sockets, NoSocket, NoCall

ASSUME ConnectionAssumption == NoSocket \notin Sockets /\ NoCall \notin Calls

VARIABLES
  sock,        \* HelperConnection.sock
  connecting,  \* HelperConnection.connecting
  waiters,     \* per socket: the HelperConnection.waiters bound to it, in order
  phase,       \* per socket: what Node and the helper have done with it
  wire,        \* per socket: requests the helper has not answered
  replies,     \* per socket: replies that were not delivered
  at,          \* per call: where request() stands
  on,          \* per call: the attempt it awaits, then the socket it was sent on
  reply,       \* per call: whose reply resolved it
  lost,        \* per socket: how often onLost was called for it
  shut         \* the sockets close() ended

connection == <<sock, connecting, waiters, phase, wire, replies, at, on, reply, lost, shut>>

Phases == {"new", "connecting", "open", "ended", "destroyed", "closed", "failed"}

ConnectionTypeOK ==
  /\ sock \in Sockets \cup {NoSocket} /\ connecting \in Sockets \cup {NoSocket}
  /\ waiters \in [Sockets -> Seq(Calls)]
  /\ phase \in [Sockets -> Phases]
  /\ wire \in [Sockets -> Seq(Calls)] /\ replies \in [Sockets -> Seq(Calls)]
  /\ at \in [Calls -> {"idle", "asked", "ready", "sent", "answered", "failed"}]
  /\ on \in [Calls -> Sockets \cup {NoSocket}] /\ reply \in [Calls -> Calls \cup {NoCall}]
  /\ lost \in [Sockets -> 0..2] /\ shut \subseteq Sockets

ConnectionInit ==
  /\ sock = NoSocket /\ connecting = NoSocket /\ waiters = [s \in Sockets |-> <<>>]
  /\ phase = [s \in Sockets |-> "new"]
  /\ wire = [s \in Sockets |-> <<>>] /\ replies = [s \in Sockets |-> <<>>]
  /\ at = [r \in Calls |-> "idle"] /\ on = [r \in Calls |-> NoSocket]
  /\ reply = [r \in Calls |-> NoCall]
  /\ lost = [s \in Sockets |-> 0] /\ shut = {}

\* Not destroyed: the client has not learnt of an end, if there was one.
Usable(s) == s # NoSocket /\ phase[s] \in {"open", "ended"}

Awaiting(s) == {r \in Calls : at[r] = "asked" /\ on[r] = s}
WaitingOn(s) == ToSet(waiters[s])

Fail(S) == at' = [r \in Calls |-> IF r \in S THEN "failed" ELSE at[r]]

FailedNone(s) == UNCHANGED <<waiters, at>>                  \* faulty variant
FailSocket(s) ==
  /\ Fail(WaitingOn(s))
  /\ waiters' = [waiters EXCEPT ![s] = <<>>]

OnLost(s) == lost' = [lost EXCEPT ![s] = @ + 1]

-----------------------------------------------------------------------------
(* request().                                                              *)

\* ensure(): the socket in use, the attempt under way, or a new attempt.
Ask(r) ==
  /\ at[r] = "idle"
  /\ \/ Usable(sock) /\ at' = [at EXCEPT ![r] = "ready"] /\ UNCHANGED <<connecting, phase, on>>
     \/ /\ ~Usable(sock) /\ connecting # NoSocket
        /\ at' = [at EXCEPT ![r] = "asked"] /\ on' = [on EXCEPT ![r] = connecting]
        /\ UNCHANGED <<connecting, phase>>
     \/ /\ ~Usable(sock) /\ connecting = NoSocket
        /\ \E s \in Sockets :
             /\ phase[s] = "new" /\ phase' = [phase EXCEPT ![s] = "connecting"]
             /\ connecting' = s
             /\ at' = [at EXCEPT ![r] = "asked"] /\ on' = [on EXCEPT ![r] = s]
  /\ UNCHANGED <<sock, waiters, wire, replies, reply, lost, shut>>

\* After the await; another continuation may have run in between.
Proceed(r) ==
  /\ at[r] = "ready"
  /\ \/ /\ Usable(sock)
        /\ at' = [at EXCEPT ![r] = "sent"] /\ on' = [on EXCEPT ![r] = sock]
        /\ waiters' = [waiters EXCEPT ![sock] = Append(@, r)]
        /\ wire' = [wire EXCEPT ![sock] = Append(@, r)]
     \/ Fail({r}) /\ UNCHANGED <<waiters, wire, on>>    \* no socket, or too large a request
  /\ UNCHANGED <<sock, connecting, phase, replies, reply, lost, shut>>

\* The deadline of one request retires the socket and all that wait on it.
TimeoutOfOne(r) ==                       \* faulty variant: the socket stays in use
  /\ at[r] = "sent" /\ Fail({r}) /\ waiters' = [waiters EXCEPT ![on[r]] = Remove(@, r)]
  /\ UNCHANGED <<sock, connecting, phase, wire, replies, on, reply, lost, shut>>
Timeout(r) ==
  /\ at[r] = "sent"
  /\ LET s == on[r] IN
       /\ sock' = (IF sock = s THEN NoSocket ELSE sock)
       /\ FailSocket(s)
       /\ phase' = [phase EXCEPT ![s] = "destroyed"]
       /\ IF sock = s THEN OnLost(s) ELSE UNCHANGED lost
  /\ UNCHANGED <<connecting, wire, replies, on, reply, shut>>

-----------------------------------------------------------------------------
(* The events of a socket.                                                 *)

Connected(s) ==
  /\ phase[s] = "connecting" /\ connecting = s
  /\ phase' = [phase EXCEPT ![s] = "open"]
  /\ sock' = s /\ connecting' = NoSocket
  /\ at' = [r \in Calls |-> IF r \in Awaiting(s) THEN "ready" ELSE at[r]]
  /\ UNCHANGED <<waiters, wire, replies, on, reply, lost, shut>>

AttemptForgotten(s) ==                   \* faulty variant: those who wait are not told
  /\ phase[s] = "connecting"
  /\ phase' = [phase EXCEPT ![s] = "failed"]
  /\ connecting' = (IF connecting = s THEN NoSocket ELSE connecting)
  /\ UNCHANGED <<sock, waiters, wire, replies, at, on, reply, lost, shut>>
AttemptFails(s) ==
  /\ phase[s] = "connecting"
  /\ phase' = [phase EXCEPT ![s] = "failed"]
  /\ connecting' = (IF connecting = s THEN NoSocket ELSE connecting)
  /\ Fail(Awaiting(s))
  /\ UNCHANGED <<sock, waiters, wire, replies, on, reply, lost, shut>>

\* A reply on a socket that was given up is dropped; on the current one it is the
\* answer to the oldest request that waits on it.
Deliver(s) ==
  /\ phase[s] \in {"open", "ended"} /\ replies[s] # <<>>
  /\ replies' = [replies EXCEPT ![s] = Tail(@)]
  /\ IF sock = s /\ waiters[s] # <<>>
     THEN LET r == Head(waiters[s]) IN
            /\ at' = [at EXCEPT ![r] = "answered"]
            /\ reply' = [reply EXCEPT ![r] = Head(replies[s])]
            /\ waiters' = [waiters EXCEPT ![s] = Tail(@)]
     ELSE UNCHANGED <<at, reply, waiters>>
  /\ UNCHANGED <<sock, connecting, phase, wire, on, lost, shut>>

\* A frame that does not decode: the socket is destroyed, and stays this.sock until
\* its close event.
Malformed(s) ==
  /\ Usable(s) /\ sock = s
  /\ FailSocket(s)
  /\ phase' = [phase EXCEPT ![s] = "destroyed"]
  /\ UNCHANGED <<sock, connecting, wire, replies, on, reply, lost, shut>>

ClosedSilently(s) ==                      \* faulty variant: nobody hears of it
  /\ phase[s] \in {"ended", "destroyed"}
  /\ phase' = [phase EXCEPT ![s] = "closed"]
  /\ sock' = (IF sock = s THEN NoSocket ELSE sock)
  /\ UNCHANGED <<waiters, at, lost>>
  /\ UNCHANGED <<connecting, wire, replies, on, reply, shut>>
Closed(s) ==
  /\ phase[s] \in {"ended", "destroyed"}
  /\ phase' = [phase EXCEPT ![s] = "closed"]
  /\ sock' = (IF sock = s THEN NoSocket ELSE sock)
  /\ FailSocket(s)
  /\ IF sock = s THEN OnLost(s) ELSE UNCHANGED lost
  /\ UNCHANGED <<connecting, wire, replies, on, reply, shut>>

Shutting == IF Usable(sock) THEN shut \cup {sock} ELSE shut

\* close(): the attempt and the socket end, and nobody is told.
Close ==
  /\ connecting' = NoSocket /\ sock' = NoSocket
  /\ phase' = [s \in Sockets |-> IF s = connecting THEN "failed"
                                 ELSE IF s = sock THEN "destroyed" ELSE phase[s]]
  /\ Fail({r \in Calls : (connecting # NoSocket /\ r \in Awaiting(connecting))
                         \/ (sock # NoSocket /\ r \in WaitingOn(sock))})
  /\ waiters' = [s \in Sockets |-> IF s = sock THEN <<>> ELSE waiters[s]]
  /\ shut' = Shutting
  /\ UNCHANGED <<wire, replies, on, reply, lost>>

-----------------------------------------------------------------------------
(* The helper's end (apps/helper/ipc.go): one reply for each request, in    *)
(* their order, until it ends the connection.                              *)

HelperAnswers(s) ==
  /\ phase[s] = "open" /\ wire[s] # <<>>
  /\ wire' = [wire EXCEPT ![s] = Tail(@)]
  /\ replies' = [replies EXCEPT ![s] = Append(@, Head(wire[s]))]
  /\ UNCHANGED <<sock, connecting, waiters, phase, at, on, reply, lost, shut>>

HelperEnds(s) ==
  /\ phase[s] = "open"
  /\ phase' = [phase EXCEPT ![s] = "ended"]
  /\ UNCHANGED <<sock, connecting, waiters, wire, replies, at, on, reply, lost, shut>>

-----------------------------------------------------------------------------

Request(r) == Ask(r) \/ Proceed(r) \/ Timeout(r)
Attempt(s) == Connected(s) \/ AttemptFails(s)

ConnectionNext ==
  \/ \E r \in Calls : Request(r)
  \/ \E s \in Sockets : Attempt(s) \/ Deliver(s) \/ Malformed(s) \/ Closed(s)
                        \/ HelperAnswers(s) \/ HelperEnds(s)
  \/ Close

ConnectionSpec == ConnectionInit /\ [][ConnectionNext]_connection

\* Timers fire, continuations run, and an attempt succeeds or fails.  Nothing is
\* assumed of the helper: it may never answer.
FairConnection ==
  /\ ConnectionSpec
  /\ \A r \in Calls : WF_connection(Proceed(r)) /\ WF_connection(Timeout(r))
  /\ \A s \in Sockets : WF_connection(Attempt(s))

-----------------------------------------------------------------------------
(* Properties.                                                             *)

\* Replies carry no identifier, yet a request is never resolved by the reply to
\* another, whatever timed out, was closed or failed to decode before.
OwnReply == \A r \in Calls : at[r] = "answered" => reply[r] = r

\* What remains of a call waits for an event that will come: an attempt that is
\* still the one under way, or a socket still in use with the call in its queue.
NobodyStranded ==
  \A r \in Calls :
    /\ at[r] = "asked" => /\ connecting # NoSocket /\ on[r] = connecting
                          /\ phase[connecting] = "connecting"
    /\ at[r] = "sent"  => on[r] = sock /\ Usable(sock) /\ r \in WaitingOn(sock)

\* Every call ends, though the helper need not answer any.
Settles == \A r \in Calls : at[r] # "idle" ~> at[r] \in {"answered", "failed"}

\* What became of a socket, as the callers see it.
Fate(s) ==
  CASE lost[s] = 2 -> "told twice"
    [] lost[s] = 1 -> IF s \in shut THEN "told of its own close" ELSE "told"
    [] lost[s] = 0 /\ s \in shut -> "shut"
    [] lost[s] = 0 /\ s \notin shut ->
         CASE phase[s] \in {"new", "connecting", "failed"} -> "new"
           [] phase[s] \in {"open", "ended"} -> IF sock = s THEN "open" ELSE "astray"
           [] OTHER -> "lost"

\* A call as its caller sees it, and the socket it was sent on.
Stage(r) ==
  CASE at[r] = "ready" -> "asked"
    [] at[r] = "answered" -> IF reply[r] = r THEN "answered" ELSE "wrong"
    [] OTHER -> at[r]

SentTo(r) == IF at[r] = "sent" THEN on[r] ELSE NoSocket

Promise == INSTANCE RequestChannel WITH
  call <- [r \in Calls |-> Stage(r)],
  on   <- [r \in Calls |-> SentTo(r)],
  fate <- [s \in Sockets |-> Fate(s)]

\* The connection implements the channel: at most one open socket, whose end fails
\* the calls made on it and is reported once, unless the client asked for it.
ImplementsChannel == Promise!ChannelSpec

=============================================================================
