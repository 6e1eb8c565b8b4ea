---------------------------- MODULE HelperServer ----------------------------
(***************************************************************************)
(* The helper's request loop (apps/helper/ipc.go): one goroutine for each  *)
(* connection, and the ownership of the live tunnel, which decides whose   *)
(* end fails the tunnel closed.  The supervisor is the one Supervisor      *)
(* promises: each of its methods is one step, because it holds s.mu.  What *)
(* the server does around a call is not: it asks for the state, takes the  *)
(* ownership and answers in steps of their own.                            *)
(***************************************************************************)
EXTENDS Supervisor

CONSTANTS
  Conns,      \* the connections a client may hold at a time
  NoConn

ASSUME ServerAssumption == NoConn \notin Conns

VARIABLES
  owner,   \* Server.owner
  conn,    \* per connection: where its handler stands
  peer,    \* per connection: whether the client's end is open
  inbox    \* per connection: a request waits to be read, which one is told then

vars == <<supervisor, owner, conn, peer, inbox>>

\* A request that neither brings the tunnel up nor down is one that may count as a
\* heartbeat.  Any request may be one the envelope check refuses.
Verbs  == {"up", "down", "status"}
Points ==
  {"none", "read", "call", "beat", "claim", "own", "disown", "write", "close", "lost"}

\* A handler: its point, the verb it serves, and how its connection ended.
Handler == [at : Points, verb : Verbs \cup {"none"}, definitive : BOOLEAN]
Ended   == [at |-> "none", verb |-> "none", definitive |-> TRUE]

TypeOK ==
  /\ SupervisorTypeOK
  /\ owner \in Conns \cup {NoConn}
  /\ conn \in [Conns -> Handler]
  /\ peer \in [Conns -> {"open", "closed"}]
  /\ inbox \in [Conns -> BOOLEAN]

Init ==
  /\ SupervisorInit
  /\ owner = NoConn
  /\ conn = [c \in Conns |-> Ended]
  /\ peer = [c \in Conns |-> "closed"]
  /\ inbox = [c \in Conns |-> FALSE]

At(c, point) == conn[c].at = point
Go(c, point) == conn' = [conn EXCEPT ![c].at = point]

-----------------------------------------------------------------------------
(* The client's end.                                                       *)

Connect(c) ==
  /\ At(c, "none")
  /\ Go(c, "read") \/ Go(c, "close")            \* a caller that is not trusted
  /\ peer' = [peer EXCEPT ![c] = "open"]
  /\ UNCHANGED <<supervisor, owner, inbox>>

Send(c) ==
  /\ peer[c] = "open" /\ ~inbox[c]
  /\ inbox' = [inbox EXCEPT ![c] = TRUE]
  /\ UNCHANGED <<supervisor, owner, conn, peer>>

\* It closes, or its process dies; what it sent can still be read.
Hangup(c) ==
  /\ peer[c] = "open"
  /\ peer' = [peer EXCEPT ![c] = "closed"]
  /\ UNCHANGED <<supervisor, owner, conn, inbox>>

-----------------------------------------------------------------------------
(* The handler of a connection.                                            *)

Read(c) ==
  /\ At(c, "read") /\ inbox[c]
  /\ \E verb \in Verbs : conn' = [conn EXCEPT ![c].at = "call", ![c].verb = verb]
  /\ inbox' = [inbox EXCEPT ![c] = FALSE]
  /\ UNCHANGED <<supervisor, owner, peer>>

\* The socket was closed; or the read deadline passed on a silent client, the one
\* end of a connection that is not taken for the death of its process.
Eof(c) ==
  /\ At(c, "read") /\ ~inbox[c] /\ peer[c] = "closed"
  /\ Go(c, "close")
  /\ UNCHANGED <<supervisor, owner, peer, inbox>>

ReadTimeout(c) ==
  /\ At(c, "read") /\ ~inbox[c] /\ peer[c] = "open"
  /\ conn' = [conn EXCEPT ![c].at = "close", ![c].definitive = FALSE]
  /\ UNCHANGED <<supervisor, owner, peer, inbox>>

\* dispatch: a refused request changes nothing.  tunnel_up is followed by the
\* question who owns what it left behind, whatever its answer was.
CallUp(c) ==
  /\ At(c, "call") /\ conn[c].verb = "up"
  /\ \/ Up /\ Go(c, "beat")
     \/ UpFailed /\ Go(c, "claim")
     \/ Go(c, "claim") /\ UNCHANGED supervisor
  /\ UNCHANGED <<owner, peer, inbox>>

\* The status in the answer to a bring-up is the tunnel's first heartbeat.
FirstBeat(c) ==
  /\ At(c, "beat")
  /\ Heartbeat \/ (state # "up" /\ UNCHANGED supervisor)
  /\ Go(c, "claim")
  /\ UNCHANGED <<owner, peer, inbox>>

CallDown(c) ==
  /\ At(c, "call") /\ conn[c].verb = "down"
  /\ \/ Down /\ Go(c, "disown")
     \/ Down /\ Go(c, "write")                           \* tunnel_down_failed
     \/ state = "down" /\ Go(c, "disown") /\ UNCHANGED supervisor
     \/ Go(c, "write") /\ UNCHANGED supervisor           \* a refused envelope
  /\ UNCHANGED <<owner, peer, inbox>>

CallStatus(c) ==
  /\ At(c, "call") /\ conn[c].verb = "status"
  /\ Heartbeat \/ UNCHANGED supervisor
  /\ Go(c, "write")
  /\ UNCHANGED <<owner, peer, inbox>>

\* State(), and then setOwner: another handler may run in between.
Claims == state \in {"up", "failed"}

Claim(c) ==
  /\ At(c, "claim")
  /\ Go(c, IF Claims THEN "own" ELSE "write")
  /\ UNCHANGED <<supervisor, owner, peer, inbox>>

SetOwner(c) ==
  /\ At(c, "own")
  /\ owner' = c
  /\ Go(c, "write")
  /\ UNCHANGED <<supervisor, peer, inbox>>

DisownedNot(c)    == owner         \* faulty variant: the owner is never cleared
DisownedAnyway(c) == NoConn        \* faulty variant: any connection clears it
Disowned(c) == IF owner = c THEN NoConn ELSE owner

ClearOwner(c) ==
  /\ At(c, "disown")
  /\ owner' = Disowned(c)
  /\ Go(c, "write")
  /\ UNCHANGED <<supervisor, peer, inbox>>

Write(c) ==
  /\ At(c, "write")
  /\ \E next \in {"read", "close"} :
       conn' = [conn EXCEPT ![c].at = next, ![c].verb = "none"]
  /\ UNCHANGED <<supervisor, owner, peer, inbox>>

Gone(c) ==
  /\ conn' = [conn EXCEPT ![c] = Ended]
  /\ peer' = [peer EXCEPT ![c] = "closed"]
  /\ inbox' = [inbox EXCEPT ![c] = FALSE]

\* onClose: the ownership ends under srv.mu, the supervisor hears of it after.
OnClose(c) ==
  /\ At(c, "close")
  /\ owner' = Disowned(c)
  /\ IF owner = c THEN Go(c, "lost") /\ UNCHANGED <<peer, inbox>> ELSE Gone(c)
  /\ UNCHANGED supervisor

OwnerLost(c) ==
  /\ At(c, "lost")
  /\ \/ Lost(conn[c].definitive)
     \/ state = "down" /\ UNCHANGED supervisor
  /\ Gone(c)
  /\ UNCHANGED owner

-----------------------------------------------------------------------------

\* The helper dies, with every handler, and its successor starts.
Crash ==
  /\ Restart
  /\ owner' = NoConn
  /\ conn' = [c \in Conns |-> Ended]
  /\ peer' = [c \in Conns |-> "closed"]
  /\ inbox' = [c \in Conns |-> FALSE]

Serve(c) ==
  \/ Read(c) \/ Eof(c) \/ ReadTimeout(c)
  \/ CallUp(c) \/ FirstBeat(c) \/ CallDown(c) \/ CallStatus(c)
  \/ Claim(c) \/ SetOwner(c) \/ ClearOwner(c) \/ Write(c) \/ OnClose(c) \/ OwnerLost(c)

Client(c) == Connect(c) \/ Send(c) \/ Hangup(c)

Clock   == Tick /\ UNCHANGED <<owner, conn, peer, inbox>>
DeadMan == Release /\ UNCHANGED <<owner, conn, peer, inbox>>

Next ==
  \/ \E c \in Conns : Client(c) \/ Serve(c)
  \/ Clock \/ DeadMan \/ Crash

Spec == Init /\ [][Next]_vars

\* Goroutines are scheduled, time passes, and the dead-man loop polls.  Nothing
\* is assumed of the clients, and nothing of a crash.
FairSpec ==
  Spec /\ WF_vars(Clock) /\ WF_vars(DeadMan) /\ \A c \in Conns : WF_vars(Serve(c))

-----------------------------------------------------------------------------
(* Properties.                                                             *)

\* The owner is a connection some handler still serves and will end: its own end
\* cannot have been missed, for no later one would be noticed.
OwnerServed == owner # NoConn => conn[owner].at \notin {"none", "lost"}

Settled(c) == conn[c].at \in {"none", "read", "write"}

\* Between requests a tunnel that is up has an owner, whatever order several
\* connections' calls, claims and ends came in: no live tunnel outlives its app
\* until the long window because nobody was watching for it.
UpIsOwned == state = "up" /\ (\A c \in Conns : Settled(c)) => owner # NoConn

Unattended == \A c \in Conns : peer[c] = "closed"

\* A host whose apps have all gone is given its network back, however they went
\* and whatever their last calls were, unless one comes back.
NeverStranded == Unattended ~> (state = "down" \/ ~Unattended)

\* The end of a connection that does not own the tunnel does not disturb a live
\* one (ipc.go, the comment of onClose): a tunnel fails closed on an owner's loss
\* only while no other connection owns it.
OthersUndisturbed ==
  [][state = "up" /\ state' = "failed" => owner = NoConn]_vars

=============================================================================
