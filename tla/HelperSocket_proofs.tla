------------------------- MODULE HelperSocket_proofs -------------------------
(***************************************************************************)
(* Proofs about the two ends of the helper's socket.                       *)
(*                                                                         *)
(* The helper's request loop, for any set of connections and any two       *)
(* dead-man windows.                                                       *)
(*                                                                         *)
(* The client's connection, for any set of calls and any number of         *)
(* sockets.  The frames carry no number: that a reply reaches the call it  *)
(* answers rests on the order of two queues, the waiters of the client and *)
(* what the helper still owes, which every way a request can time out, be  *)
(* refused or outlive its socket has to keep in step.                      *)
(***************************************************************************)
EXTENDS HelperServer, HelperConnection, SequenceTheorems, TLAPS

-----------------------------------------------------------------------------
(* The request loop: its inductive invariant.                              *)

\* A connection on its way to own what it brought up, or to report its own loss.
Pending == {"beat", "claim", "own", "lost"}

\* A tunnel that is up has such a connection, or an owner that did not take it
\* down: an owner that did must not be the only one to answer for a tunnel that
\* another connection brought up since.
Attended ==
  state = "up" =>
    \/ \E c \in Conns : conn[c].at \in Pending
    \/ owner # NoConn /\ conn[owner].at # "disown"

IInv == TypeOK /\ OwnerServed /\ Attended

USE ServerAssumption, WindowAssumption DEF ServerAssumption, WindowAssumption

-----------------------------------------------------------------------------
(* The parts the actions share.                                            *)

\* Every step of the supervisor keeps the type of its state.
LEMMA SupervisorTyped ==
  ASSUME SupervisorTypeOK, SupervisorNext \/ UNCHANGED supervisor
  PROVE  SupervisorTypeOK'
<1>1. MaxAge \in Nat /\ 0 \in 0..MaxAge /\ MaxAge \in 0..MaxAge
  BY DEF MaxAge
<1>2. CASE Up \/ UpFailed \/ Heartbeat
  BY <1>1, <1>2 DEF Up, UpFailed, Heartbeat, SupervisorTypeOK
<1>3. CASE Down \/ Release
  BY <1>3 DEF Release, Down, SupervisorTypeOK
<1>4. CASE Restart
  BY <1>1, <1>4 DEF Restart, SupervisorTypeOK
<1>5. CASE Tick
  BY <1>1, <1>5 DEF Tick, Later, SupervisorTypeOK
<1>6. ASSUME NEW definitive \in BOOLEAN, Lost(definitive)
      PROVE  SupervisorTypeOK'
  BY <1>1, <1>6 DEF Lost, SupervisorTypeOK
<1>7. CASE UNCHANGED supervisor
  BY <1>7 DEF supervisor, SupervisorTypeOK
<1> QED BY <1>2, <1>3, <1>4, <1>5, <1>6, <1>7 DEF SupervisorNext

\* A handler that goes on moves to its next point, and no other handler moves.
LEMMA GoMoves ==
  ASSUME conn \in [Conns -> Handler], NEW c \in Conns, NEW point \in Points, Go(c, point)
  PROVE  /\ conn' \in [Conns -> Handler]
         /\ conn'[c].at = point
         /\ \A d \in Conns : d # c => conn'[d] = conn[d]
BY DEF Go, Handler

\* A connection that is gone leaves the other handlers where they are.
LEMMA GoneMoves ==
  ASSUME TypeOK, NEW c \in Conns, Gone(c)
  PROVE  /\ conn' \in [Conns -> Handler] /\ conn'[c].at = "none"
         /\ peer' \in [Conns -> {"open", "closed"}] /\ inbox' \in [Conns -> BOOLEAN]
         /\ \A d \in Conns : d # c => conn'[d] = conn[d]
BY DEF Gone, Ended, Handler, Points, Verbs, TypeOK

\* A step in which one handler goes from one point to another, no owner changes and
\* no tunnel comes up unless by it.
LEMMA MoveStep ==
  ASSUME IInv, NEW c \in Conns,
         SupervisorTypeOK', UNCHANGED owner,
         conn' \in [Conns -> Handler], \A d \in Conns : d # c => conn'[d] = conn[d],
         peer' \in [Conns -> {"open", "closed"}], inbox' \in [Conns -> BOOLEAN],
         owner = c => conn'[c].at \notin {"none", "lost"},
         state' = "up" => \/ conn'[c].at \in Pending
                          \/ state = "up" /\ conn[c].at \notin Pending /\ conn'[c].at # "disown"
  PROVE  IInv'
<1>1. TypeOK'
  BY DEF IInv, TypeOK
<1>2. OwnerServed'
  BY DEF IInv, TypeOK, OwnerServed
<1>3. Attended'
  <2>1. CASE conn'[c].at \in Pending
    BY <2>1 DEF Attended
  <2>2. CASE state' # "up"
    BY <2>2 DEF Attended
  <2>3. CASE state = "up" /\ conn[c].at \notin Pending /\ conn'[c].at # "disown"
    <3>1. CASE \E d \in Conns : conn[d].at \in Pending
      <4>1. PICK d \in Conns : conn[d].at \in Pending
        BY <3>1
      <4>2. conn'[d].at \in Pending
        BY <2>3, <4>1
      <4> QED BY <4>2 DEF Attended
    <3>2. CASE owner # NoConn /\ conn[owner].at # "disown"
      <4>1. owner \in Conns /\ conn'[owner].at # "disown"
        BY <2>3, <3>2 DEF IInv, TypeOK
      <4> QED BY <3>2, <4>1 DEF Attended
    <3> QED BY <2>3, <3>1, <3>2 DEF IInv, Attended
  <2> QED BY <2>1, <2>2, <2>3
<1> QED BY <1>1, <1>2, <1>3 DEF IInv

-----------------------------------------------------------------------------
(* The client's end, and the clock.                                        *)

\* What a client does with its end moves no handler that serves a tunnel.
LEMMA ClientStep ==
  ASSUME IInv, NEW c \in Conns, Client(c)
  PROVE  IInv'
<1>1. SupervisorTypeOK'
  BY SupervisorTyped DEF Client, Connect, Send, Hangup, IInv, TypeOK
<1>2. CASE Connect(c)
  <2>1. PICK point \in {"read", "close"} : Go(c, point)
    BY <1>2 DEF Connect
  <2>2. /\ conn' \in [Conns -> Handler] /\ conn'[c].at = point
        /\ \A d \in Conns : d # c => conn'[d] = conn[d]
    BY <2>1, GoMoves DEF IInv, TypeOK, Points
  <2>3. conn[c].at = "none" /\ UNCHANGED <<state, owner, inbox>>
        /\ peer' = [peer EXCEPT ![c] = "open"]
    BY <1>2 DEF Connect, At, supervisor
  <2> QED BY <1>1, <2>2, <2>3, MoveStep DEF IInv, TypeOK, Pending
<1>3. CASE Send(c) \/ Hangup(c)
  <2>1. UNCHANGED <<state, owner, conn>>
    BY <1>3 DEF Send, Hangup, supervisor
  <2>2. peer' \in [Conns -> {"open", "closed"}] /\ inbox' \in [Conns -> BOOLEAN]
    BY <1>3 DEF Send, Hangup, IInv, TypeOK
  <2> QED BY <1>1, <2>1, <2>2 DEF IInv, TypeOK, OwnerServed, Attended
<1> QED BY <1>2, <1>3 DEF Client

\* Time and the dead-man bring no tunnel up.
LEMMA ClockStep ==
  ASSUME IInv, Clock \/ DeadMan
  PROVE  IInv'
<1>1. SupervisorTypeOK'
  BY SupervisorTyped DEF Clock, DeadMan, SupervisorNext, IInv, TypeOK
<1>2. UNCHANGED <<owner, conn, peer, inbox>> /\ (state' = "up" => state = "up")
  BY DEF Clock, DeadMan, Tick, Release, Down
<1> QED BY <1>1, <1>2 DEF IInv, TypeOK, OwnerServed, Attended

\* A helper that starts again has no tunnel, no owner and no connection.
LEMMA CrashStep ==
  ASSUME IInv, Crash
  PROVE  IInv'
<1>1. SupervisorTypeOK'
  BY SupervisorTyped DEF Crash, SupervisorNext, IInv, TypeOK
<1> QED BY <1>1 DEF Crash, Restart, Ended, Handler, Points, Verbs, IInv, TypeOK, OwnerServed, Attended

-----------------------------------------------------------------------------
(* The handler.                                                            *)

\* Reading a request, or the end of the connection.
LEMMA ReadStep ==
  ASSUME IInv, NEW c \in Conns, Read(c) \/ Eof(c) \/ ReadTimeout(c)
  PROVE  IInv'
<1>1. SupervisorTypeOK' /\ UNCHANGED <<state, owner, peer>>
  BY SupervisorTyped DEF Read, Eof, ReadTimeout, supervisor, IInv, TypeOK
<1>2. /\ conn' \in [Conns -> Handler] /\ conn'[c].at \in {"call", "close"}
      /\ \A d \in Conns : d # c => conn'[d] = conn[d]
  BY DEF Read, Eof, ReadTimeout, Go, Handler, Points, Verbs, IInv, TypeOK
<1>3. conn[c].at = "read" /\ inbox' \in [Conns -> BOOLEAN]
  BY DEF Read, Eof, ReadTimeout, At, IInv, TypeOK
<1> QED BY <1>1, <1>2, <1>3, MoveStep DEF IInv, TypeOK, Pending

\* The calls of the supervisor: one that brings a tunnel up stays pending, one
\* that takes it down finds no tunnel up after it.
LEMMA CallStep ==
  ASSUME IInv, NEW c \in Conns, CallUp(c) \/ FirstBeat(c) \/ CallDown(c) \/ CallStatus(c)
  PROVE  IInv'
<1>1. SupervisorTypeOK'
  BY SupervisorTyped DEF CallUp, FirstBeat, CallDown, CallStatus, SupervisorNext, IInv, TypeOK
<1>2. UNCHANGED <<owner, peer, inbox>>
  BY DEF CallUp, FirstBeat, CallDown, CallStatus
<1>3. PICK point \in {"beat", "claim", "disown", "write"} : Go(c, point)
  BY DEF CallUp, FirstBeat, CallDown, CallStatus
<1>4. /\ conn' \in [Conns -> Handler] /\ conn'[c].at = point
      /\ \A d \in Conns : d # c => conn'[d] = conn[d]
  BY <1>3, GoMoves DEF IInv, TypeOK, Points
<1>5. state' = "up" => \/ conn'[c].at \in Pending
                       \/ state = "up" /\ conn[c].at \notin Pending /\ conn'[c].at # "disown"
  <2>1. CASE CallUp(c) \/ FirstBeat(c)
    <3>1. Go(c, "beat") \/ Go(c, "claim")
      BY <2>1 DEF CallUp, FirstBeat
    <3>2. conn'[c].at \in {"beat", "claim"}
      BY <3>1, GoMoves DEF IInv, TypeOK, Points
    <3> QED BY <3>2 DEF Pending
  <2>2. CASE CallDown(c)
    <3>1. conn[c].at = "call" /\ (state' = "up" => state = "up" /\ Go(c, "write"))
      BY <2>2 DEF CallDown, Down, At, supervisor
    <3>2. Go(c, "write") => conn'[c].at = "write"
      BY GoMoves DEF IInv, TypeOK, Points
    <3> QED BY <3>1, <3>2 DEF Pending
  <2>3. CASE CallStatus(c)
    <3>1. conn[c].at = "call" /\ Go(c, "write") /\ state' = state
      BY <2>3 DEF CallStatus, Heartbeat, At, supervisor
    <3>2. conn'[c].at = "write"
      BY <3>1, GoMoves DEF IInv, TypeOK, Points
    <3> QED BY <3>1, <3>2 DEF Pending
  <2> QED BY <2>1, <2>2, <2>3
<1> QED BY <1>1, <1>2, <1>4, <1>5, MoveStep DEF IInv, TypeOK

\* A claim is dropped only when there is nothing to claim.
LEMMA ClaimStep ==
  ASSUME IInv, NEW c \in Conns, Claim(c)
  PROVE  IInv'
<1>1. SupervisorTypeOK' /\ UNCHANGED <<state, owner, peer, inbox>>
  BY SupervisorTyped DEF Claim, supervisor, IInv, TypeOK
<1>2. PICK point \in {"own", "write"} : Go(c, point) /\ (state = "up" => point = "own")
  BY DEF Claim, Claims
<1>3. /\ conn' \in [Conns -> Handler] /\ conn'[c].at = point
      /\ \A d \in Conns : d # c => conn'[d] = conn[d]
  BY <1>2, GoMoves DEF IInv, TypeOK, Points
<1> QED BY <1>1, <1>2, <1>3, MoveStep DEF IInv, TypeOK, Pending

\* The new owner is served and did not take the tunnel down.
LEMMA SetOwnerStep ==
  ASSUME IInv, NEW c \in Conns, SetOwner(c)
  PROVE  IInv'
<1>1. SupervisorTypeOK' /\ UNCHANGED <<peer, inbox>> /\ owner' = c
  BY SupervisorTyped DEF SetOwner, IInv, TypeOK
<1>2. /\ conn' \in [Conns -> Handler] /\ conn'[c].at = "write"
  BY GoMoves DEF SetOwner, IInv, TypeOK, Points
<1> QED BY <1>1, <1>2 DEF IInv, TypeOK, OwnerServed, Attended

\* An owner that took its tunnel down, and is now cleared, leaves to some other
\* connection a tunnel that is up again.
LEMMA ClearOwnerStep ==
  ASSUME IInv, NEW c \in Conns, ClearOwner(c)
  PROVE  IInv'
<1>1. SupervisorTypeOK' /\ UNCHANGED <<state, peer, inbox>> /\ conn[c].at = "disown"
      /\ owner' = Disowned(c)
  BY SupervisorTyped DEF ClearOwner, At, supervisor, IInv, TypeOK
<1>2. /\ conn' \in [Conns -> Handler] /\ conn'[c].at = "write"
      /\ \A d \in Conns : d # c => conn'[d] = conn[d]
  BY GoMoves DEF ClearOwner, IInv, TypeOK, Points
<1>3. TypeOK'
  BY <1>1, <1>2 DEF IInv, TypeOK, Disowned
<1>4. OwnerServed'
  BY <1>1, <1>2 DEF IInv, TypeOK, OwnerServed, Disowned
<1>5. Attended'
  <2>1. CASE \E d \in Conns : conn[d].at \in Pending
    <3>1. PICK d \in Conns : conn[d].at \in Pending
      BY <2>1
    <3>2. conn'[d].at \in Pending
      BY <1>1, <1>2, <3>1 DEF Pending
    <3> QED BY <3>2 DEF Attended
  <2>2. CASE owner # NoConn /\ conn[owner].at # "disown"
    <3>1. owner' = owner /\ owner \in Conns /\ conn'[owner].at # "disown"
      BY <1>1, <1>2, <2>2 DEF Disowned, IInv, TypeOK
    <3> QED BY <2>2, <3>1 DEF Attended
  <2> QED BY <1>1, <2>1, <2>2 DEF IInv, Attended
<1> QED BY <1>3, <1>4, <1>5 DEF IInv

\* A handler that answered waits for the next request, or ends; it owned nothing by it.
LEMMA WriteStep ==
  ASSUME IInv, NEW c \in Conns, Write(c)
  PROVE  IInv'
<1>1. SupervisorTypeOK' /\ UNCHANGED <<state, owner, peer, inbox>> /\ conn[c].at = "write"
  BY SupervisorTyped DEF Write, At, supervisor, IInv, TypeOK
<1>2. /\ conn' \in [Conns -> Handler] /\ conn'[c].at \in {"read", "close"}
      /\ \A d \in Conns : d # c => conn'[d] = conn[d]
  <2>1. PICK next \in {"read", "close"} :
          conn' = [conn EXCEPT ![c].at = next, ![c].verb = "none"]
    BY DEF Write
  <2>2. conn \in [Conns -> Handler]
    BY DEF IInv, TypeOK
  <2>3. /\ conn'[c] = [conn[c] EXCEPT !.at = next, !.verb = "none"]
        /\ conn'[c].at = next
        /\ \A d \in Conns : d # c => conn'[d] = conn[d]
    BY <2>1, <2>2 DEF Handler
  <2>4. conn'[c] \in Handler
    BY <2>2, <2>3 DEF Handler, Points
  <2>5. conn' \in [Conns -> Handler]
    BY <2>1, <2>2, <2>3, <2>4
  <2> QED BY <2>3, <2>5
<1> QED BY <1>1, <1>2, MoveStep DEF IInv, TypeOK, Pending

\* The end of the owner is pending until the supervisor has heard of it.
LEMMA OnCloseStep ==
  ASSUME IInv, NEW c \in Conns, OnClose(c)
  PROVE  IInv'
<1>1. SupervisorTypeOK' /\ UNCHANGED state /\ conn[c].at = "close" /\ owner' = Disowned(c)
  BY SupervisorTyped DEF OnClose, At, supervisor, IInv, TypeOK
<1>2. CASE owner = c
  <2>1. conn' \in [Conns -> Handler] /\ conn'[c].at = "lost" /\ owner' = NoConn
    BY <1>1, <1>2, GoMoves DEF OnClose, Disowned, IInv, TypeOK, Points
  <2>2. UNCHANGED <<peer, inbox>>
    BY <1>2 DEF OnClose
  <2> QED BY <1>1, <2>1, <2>2 DEF IInv, TypeOK, OwnerServed, Attended, Pending
<1>3. CASE owner # c
  <2>1. Gone(c) /\ UNCHANGED owner
    BY <1>1, <1>3 DEF OnClose, Disowned
  <2>2. /\ conn' \in [Conns -> Handler] /\ conn'[c].at = "none"
        /\ peer' \in [Conns -> {"open", "closed"}] /\ inbox' \in [Conns -> BOOLEAN]
        /\ \A d \in Conns : d # c => conn'[d] = conn[d]
    BY <2>1, GoneMoves DEF IInv
  <2> QED BY <1>1, <1>3, <2>1, <2>2, MoveStep DEF Pending
<1> QED BY <1>2, <1>3

\* Whoever's loss it is, no tunnel is up after it.
LEMMA OwnerLostStep ==
  ASSUME IInv, NEW c \in Conns, OwnerLost(c)
  PROVE  IInv'
<1>1. conn[c].definitive \in BOOLEAN /\ conn[c].at = "lost" /\ UNCHANGED owner
  BY DEF OwnerLost, At, IInv, TypeOK, Handler
<1>2. SupervisorTypeOK' /\ state' # "up"
  BY <1>1, SupervisorTyped DEF OwnerLost, Lost, SupervisorNext, supervisor, IInv, TypeOK
<1>3. /\ conn' \in [Conns -> Handler] /\ conn'[c].at = "none"
      /\ peer' \in [Conns -> {"open", "closed"}] /\ inbox' \in [Conns -> BOOLEAN]
      /\ \A d \in Conns : d # c => conn'[d] = conn[d]
  BY GoneMoves DEF OwnerLost, IInv
<1>4. owner # c
  BY <1>1 DEF IInv, OwnerServed
<1> QED BY <1>1, <1>2, <1>3, <1>4, MoveStep

-----------------------------------------------------------------------------
(* The theorems.                                                           *)

\* A helper that starts has no tunnel, no owner and no connection.
LEMMA InitInv == Init => IInv
<1> SUFFICES ASSUME Init PROVE IInv
  OBVIOUS
<1>1. MaxAge \in Nat /\ MaxAge \in 0..MaxAge /\ 0 \in 0..MaxAge
  BY DEF MaxAge
<1>2. SupervisorTypeOK /\ state = "down"
  BY <1>1 DEF Init, SupervisorInit, SupervisorTypeOK
<1>3. Ended \in Handler
  BY DEF Ended, Handler, Points, Verbs
<1>4. TypeOK
  BY <1>2, <1>3 DEF Init, TypeOK
<1> QED BY <1>2, <1>4 DEF Init, IInv, OwnerServed, Attended

\* Every step of a client, a handler, the supervisor's loops or a crash keeps it.
LEMMA NextInv == IInv /\ [Next]_vars => IInv'
<1> SUFFICES ASSUME IInv, [Next]_vars PROVE IInv'
  OBVIOUS
<1>1. ASSUME NEW c \in Conns, Client(c) PROVE IInv'
  BY <1>1, ClientStep
<1>2. ASSUME NEW c \in Conns, Serve(c) PROVE IInv'
  BY <1>2, ReadStep, CallStep, ClaimStep, SetOwnerStep, ClearOwnerStep, WriteStep, OnCloseStep,
     OwnerLostStep DEF Serve
<1>3. CASE Clock \/ DeadMan
  BY <1>3, ClockStep
<1>4. CASE Crash
  BY <1>4, CrashStep
<1>5. CASE UNCHANGED vars
  BY <1>5 DEF vars, supervisor, IInv, TypeOK, SupervisorTypeOK, OwnerServed, Attended
<1> QED BY <1>1, <1>2, <1>3, <1>4, <1>5 DEF Next

\* The invariant above holds in every state the request loop reaches.
THEOREM Invariance == Spec => []IInv
BY InitInv, NextInv, PTL DEF Spec

\* Handlers, ownership and the supervisor's state keep their types.
THEOREM TypeCorrect == Spec => []TypeOK
BY Invariance, PTL DEF IInv

\* The owner is always a connection whose end its handler will still notice.
THEOREM ServedTheorem == Spec => []OwnerServed
BY Invariance, PTL DEF IInv

\* Between requests a tunnel that is up has an owner, in whatever order the calls,
\* claims, releases and ends of any number of connections interleave.
THEOREM OwnedTheorem == Spec => []UpIsOwned
<1>1. IInv => UpIsOwned
  BY DEF IInv, Attended, UpIsOwned, Settled, Pending
<1> QED BY Invariance, <1>1, PTL

-----------------------------------------------------------------------------
(* The connection: its inductive invariant.                                *)

USE ConnectionAssumption DEF ConnectionAssumption

InUse == {"open", "ended"}

\* One attempt is under way at most, and one socket in use, never both.
OneSocket ==
  /\ connecting # NoSocket => phase[connecting] = "connecting" /\ ~Usable(sock)
  /\ sock # NoSocket => phase[sock] \in InUse \cup {"destroyed"}
  /\ \A s \in Sockets : /\ phase[s] = "connecting" => connecting = s
                        /\ phase[s] \in InUse => sock = s

\* The calls that wait on a socket are those the helper owes a reply for, in the order
\* of the replies: what lies unread, then what it has not answered.
InOrder ==
  \A s \in Sockets :
    /\ waiters[s] = (IF phase[s] \in InUse THEN replies[s] \o wire[s] ELSE <<>>)
    /\ phase[s] \in {"new", "connecting"} => replies[s] = <<>> /\ wire[s] = <<>>

\* Each call waits once, on the socket it was sent on.
WaitsOnce ==
  \A s \in Sockets :
    /\ \A i \in DOMAIN waiters[s] : at[waiters[s][i]] = "sent" /\ on[waiters[s][i]] = s
    /\ \A i, j \in DOMAIN waiters[s] : waiters[s][i] = waiters[s][j] => i = j

\* An end is reported once, or asked for, and only of a socket that was given up.
Reported ==
  \A s \in Sockets :
    /\ lost[s] \in {0, 1} /\ ~(lost[s] = 1 /\ s \in shut)
    /\ lost[s] = 1 \/ s \in shut => s # sock /\ phase[s] \in {"destroyed", "closed"}

ConnectionInv ==
  /\ ConnectionTypeOK /\ OneSocket /\ InOrder /\ WaitsOnce /\ Reported
  /\ NobodyStranded /\ OwnReply

-----------------------------------------------------------------------------
(* Queues.                                                                 *)

\* A call that is sent joins both the queue and what is owed.
LEMMA QueueGrows ==
  ASSUME NEW a \in Seq(Calls), NEW b \in Seq(Calls), NEW r \in Calls
  PROVE  Append(a \o b, r) = a \o Append(b, r)
<1>1. <<r>> \in Seq(Calls) /\ a \o b \in Seq(Calls)
  BY ConcatProperties
<1>2. Append(a \o b, r) = (a \o b) \o <<r>> /\ Append(b, r) = b \o <<r>>
  BY <1>1, AppendIsConcat
<1>3. (a \o b) \o <<r>> = a \o (b \o <<r>>)
  BY <1>1, ConcatAssociative
<1> QED BY <1>2, <1>3

\* Who waits longest is the first of the queue.
LEMMA QueueHead ==
  ASSUME NEW a \in Seq(Calls), a # <<>>
  PROVE  Head(a) \in Calls /\ Head(a) = a[1]
BY HeadTailProperties

\* A reply that is sent moves a call from one end of the debt to the other.
LEMMA QueueMoves ==
  ASSUME NEW a \in Seq(Calls), NEW b \in Seq(Calls), b # <<>>
  PROVE  /\ Append(a, Head(b)) \in Seq(Calls) /\ Tail(b) \in Seq(Calls)
         /\ Append(a, Head(b)) \o Tail(b) = a \o b
<1>1. Head(b) \in Calls /\ Tail(b) \in Seq(Calls) /\ b = <<Head(b)>> \o Tail(b)
  BY HeadTailProperties, SequenceEmptyOrAppend, ConcatProperties, SeqEqual
<1>2. Append(a, Head(b)) = a \o <<Head(b)>>
  BY <1>1, AppendIsConcat
<1>3. (a \o <<Head(b)>>) \o Tail(b) = a \o (<<Head(b)>> \o Tail(b))
  BY <1>1, ConcatAssociative
<1> QED BY <1>1, <1>2, <1>3

\* The first reply that lies unread is owed to the first who waits.
LEMMA QueueTakes ==
  ASSUME NEW a \in Seq(Calls), NEW b \in Seq(Calls), a # <<>>
  PROVE  /\ a \o b # <<>> /\ Head(a \o b) = Head(a)
         /\ Tail(a \o b) = Tail(a) \o b
<1>1. a \o b \in Seq(Calls) /\ Len(a \o b) = Len(a) + Len(b) /\ Len(a) \in Nat \ {0}
  BY ConcatProperties, EmptySeq, LenProperties
<1>2. a \o b # <<>> /\ Head(a \o b) = Head(a)
  BY <1>1, ConcatProperties, EmptySeq
<1>3. /\ Tail(a \o b) \in Seq(Calls) /\ Tail(a) \in Seq(Calls)
      /\ Len(Tail(a \o b)) = Len(a) + Len(b) - 1 /\ Len(Tail(a)) = Len(a) - 1
      /\ \A i \in 1..Len(Tail(a)) : Tail(a)[i] = a[i + 1]
      /\ \A i \in 1..Len(Tail(a \o b)) : Tail(a \o b)[i] = (a \o b)[i + 1]
  BY <1>1, <1>2, HeadTailProperties
<1>4. Tail(a) \o b \in Seq(Calls) /\ Len(Tail(a) \o b) = Len(a) + Len(b) - 1
      /\ \A i \in 1..Len(a) + Len(b) - 1 :
           (Tail(a) \o b)[i] = IF i <= Len(a) - 1 THEN Tail(a)[i] ELSE b[i - (Len(a) - 1)]
  BY <1>1, <1>3, ConcatProperties
<1>5. \A i \in 1..Len(a) + Len(b) :
           (a \o b)[i] = IF i <= Len(a) THEN a[i] ELSE b[i - Len(a)]
  BY ConcatProperties
<1>6. Len(b) \in Nat
  BY LenProperties
<1>7. ASSUME NEW i \in 1..Len(a) + Len(b) - 1
      PROVE  Tail(a \o b)[i] = (Tail(a) \o b)[i]
  <2>1. Tail(a \o b)[i] = (a \o b)[i + 1] /\ i + 1 \in 1..Len(a) + Len(b)
    BY <1>1, <1>3, <1>6, <1>7
  <2>2. CASE i <= Len(a) - 1
    BY <2>1, <2>2, <1>1, <1>3, <1>4, <1>5, <1>6
  <2>3. CASE ~(i <= Len(a) - 1)
    <3>1. (i + 1) - Len(a) = i - (Len(a) - 1) /\ ~(i + 1 <= Len(a))
      BY <2>3, <1>1
    <3> QED BY <2>1, <2>3, <3>1, <1>1, <1>4, <1>5, <1>6
  <2> QED BY <2>2, <2>3
<1>8. Tail(a \o b) = Tail(a) \o b
  BY <1>3, <1>4, <1>7, SeqEqual
<1> QED BY <1>2, <1>8

\* The calls that wait are those at some place of the queue.
LEMMA WaitingPlaces ==
  ASSUME ConnectionTypeOK, NEW s \in Sockets
  PROVE  /\ waiters[s] \in Seq(Calls) /\ DOMAIN waiters[s] = 1..Len(waiters[s])
         /\ WaitingOn(s) \subseteq Calls
         /\ \A r : r \in WaitingOn(s) <=> \E i \in DOMAIN waiters[s] : waiters[s][i] = r
<1>1. waiters[s] \in Seq(Calls) /\ DOMAIN waiters[s] = 1..Len(waiters[s])
  BY LenProperties DEF ConnectionTypeOK
<1>2. \A r : r \in WaitingOn(s) <=> \E i \in DOMAIN waiters[s] : waiters[s][i] = r
  BY DEF WaitingOn, ToSet
<1>3. \A i \in DOMAIN waiters[s] : waiters[s][i] \in Calls
  BY <1>1, ElementOfSeq
<1> QED BY <1>1, <1>2, <1>3

\* On a socket in use, and on no other, wait the calls that were sent and not settled.
LEMMA WaitingAreSent ==
  ASSUME ConnectionInv, NEW s \in Sockets
  PROVE  /\ \A r \in Calls : r \in WaitingOn(s) <=> at[r] = "sent" /\ on[r] = s
         /\ s # sock \/ ~Usable(s) => WaitingOn(s) = {} /\ waiters[s] = <<>>
<1>1. \A r \in Calls : r \in WaitingOn(s) => at[r] = "sent" /\ on[r] = s
  BY WaitingPlaces DEF ConnectionInv, WaitsOnce
<1>2. \A r \in Calls : at[r] = "sent" /\ on[r] = s => r \in WaitingOn(s)
  BY DEF ConnectionInv, NobodyStranded
<1>3. ASSUME s # sock \/ ~Usable(s) PROVE WaitingOn(s) = {} /\ waiters[s] = <<>>
  <2>1. phase[s] \notin InUse
    BY <1>3 DEF ConnectionInv, OneSocket, Usable, InUse
  <2>2. waiters[s] = <<>>
    BY <2>1 DEF ConnectionInv, InOrder
  <2>3. \A i \in DOMAIN waiters[s] : FALSE
    BY <2>2, WaitingPlaces, EmptySeq DEF ConnectionInv
  <2> QED BY <2>2, <2>3, WaitingPlaces DEF ConnectionInv
<1> QED BY <1>1, <1>2, <1>3

-----------------------------------------------------------------------------
(* request().                                                              *)

\* A call that finds a socket goes on with it, one that finds none waits for an attempt.
LEMMA AskStep ==
  ASSUME ConnectionInv, NEW r \in Calls, Ask(r)
  PROVE  ConnectionInv'
<1>1. /\ at[r] = "idle" /\ UNCHANGED <<sock, waiters, wire, replies, reply, lost, shut>>
      /\ \/ Usable(sock) /\ at' = [at EXCEPT ![r] = "ready"] /\ UNCHANGED <<connecting, phase, on>>
         \/ /\ ~Usable(sock) /\ at' = [at EXCEPT ![r] = "asked"]
            /\ connecting' \in Sockets /\ on' = [on EXCEPT ![r] = connecting']
            /\ \/ connecting # NoSocket /\ connecting' = connecting /\ phase' = phase
               \/ /\ connecting = NoSocket /\ phase[connecting'] = "new"
                  /\ phase' = [phase EXCEPT ![connecting'] = "connecting"]
  BY DEF Ask, ConnectionInv, ConnectionTypeOK
<1>2. /\ \A q \in Calls : q # r => at'[q] = at[q] /\ on'[q] = on[q]
      /\ at'[r] = "ready" \/ (at'[r] = "asked" /\ on'[r] = connecting')
      /\ \A s \in Sockets : phase'[s] = phase[s] \/ (s = connecting' /\ phase[s] = "new" /\ phase'[s] = "connecting" /\ connecting = NoSocket /\ ~Usable(sock))
      /\ connecting' = connecting \/ (connecting = NoSocket /\ ~Usable(sock) /\ phase'[connecting'] = "connecting")
      /\ at'[r] = "asked" => connecting' # NoSocket
  BY <1>1 DEF ConnectionInv, ConnectionTypeOK, Phases
<1>3. ConnectionTypeOK'
  <2>1. at' \in [Calls -> {"idle", "asked", "ready", "sent", "answered", "failed"}]
    BY <1>1 DEF ConnectionInv, ConnectionTypeOK
  <2>2. on' \in [Calls -> Sockets \cup {NoSocket}] /\ connecting' \in Sockets \cup {NoSocket}
    <3>1. CASE Usable(sock)
      BY <1>1, <3>1 DEF ConnectionInv, ConnectionTypeOK
    <3>2. CASE ~Usable(sock)
      <4>1. \A c \in Sockets : [on EXCEPT ![r] = c] \in [Calls -> Sockets \cup {NoSocket}]
        BY DEF ConnectionInv, ConnectionTypeOK
      <4> QED BY <1>1, <3>2, <4>1
    <3> QED BY <3>1, <3>2
  <2>3. phase' \in [Sockets -> Phases]
    <3>1. CASE phase' = phase
      BY <3>1 DEF ConnectionInv, ConnectionTypeOK
    <3>2. CASE connecting' \in Sockets /\ phase' = [phase EXCEPT ![connecting'] = "connecting"]
      BY <3>2 DEF ConnectionInv, ConnectionTypeOK, Phases
    <3> QED BY <1>1, <3>1, <3>2
  <2> QED BY <1>1, <2>1, <2>2, <2>3 DEF ConnectionInv, ConnectionTypeOK
<1>4. OneSocket'
  BY <1>1, <1>2 DEF ConnectionInv, ConnectionTypeOK, OneSocket, Usable, InUse
<1>5. InOrder'
  BY <1>1, <1>2 DEF ConnectionInv, ConnectionTypeOK, InOrder, InUse
<1>6. WaitsOnce'
  <2>1. \A s \in Sockets : \A i \in DOMAIN waiters[s] : waiters[s][i] \in Calls /\ waiters[s][i] # r
    BY <1>1, WaitingPlaces, WaitingAreSent DEF ConnectionInv, WaitsOnce
  <2> QED BY <1>1, <1>2, <2>1 DEF ConnectionInv, WaitsOnce
<1>7. NobodyStranded'
  <2>1. \A q \in Calls : at[q] = "asked" =>
          connecting # NoSocket /\ on[q] = connecting /\ phase[connecting] = "connecting"
    BY DEF ConnectionInv, NobodyStranded
  <2>2. \A q \in Calls : at'[q] = "asked" =>
          connecting' # NoSocket /\ on'[q] = connecting' /\ phase'[connecting'] = "connecting"
    BY <1>1, <1>2, <1>4, <2>1 DEF OneSocket
  <2>3. \A q \in Calls : at'[q] = "sent" => at[q] = "sent" /\ on'[q] = on[q]
    BY <1>2
  <2>4. Usable(sock) => Usable(sock)'
    BY <1>1, <1>2 DEF Usable, ConnectionInv, ConnectionTypeOK
  <2>5. \A q \in Calls : at'[q] = "sent" => on'[q] = sock' /\ Usable(sock)' /\ q \in WaitingOn(sock)'
    BY <1>1, <2>3, <2>4 DEF ConnectionInv, NobodyStranded, WaitingOn
  <2> QED BY <2>2, <2>5 DEF NobodyStranded
<1>8. OwnReply'
  BY <1>1, <1>2 DEF ConnectionInv, OwnReply
<1>9. Reported'
  BY <1>1, <1>2 DEF ConnectionInv, Reported
<1> QED BY <1>3, <1>4, <1>5, <1>6, <1>7, <1>8, <1>9 DEF ConnectionInv

\* A call that waits for no socket may fail without a trace.
LEMMA RefusedStep ==
  ASSUME ConnectionInv, NEW S \in SUBSET Calls, \A r \in S : at[r] \in {"asked", "ready"}, Fail(S),
         UNCHANGED <<waiters, wire, replies, reply, on>>,
         ConnectionTypeOK', OneSocket', InOrder', Reported', sock' = sock,
         Usable(sock) => Usable(sock)',
         \A r \in Calls : at'[r] = "asked" =>
           connecting' # NoSocket /\ connecting' = connecting /\ phase'[connecting] = "connecting"
  PROVE  ConnectionInv'
<1>1. \A r \in Calls : at'[r] = IF r \in S THEN "failed" ELSE at[r]
  BY DEF Fail, ConnectionTypeOK
<1>2. WaitsOnce'
  <2>1. \A s \in Sockets : \A i \in DOMAIN waiters[s] : waiters[s][i] \in Calls \ S
    BY WaitingPlaces DEF ConnectionInv, WaitsOnce
  <2> QED BY <1>1, <2>1 DEF ConnectionInv, WaitsOnce
<1>3. NobodyStranded'
  BY <1>1 DEF ConnectionInv, ConnectionTypeOK, NobodyStranded, WaitingOn
<1>4. OwnReply'
  BY <1>1 DEF ConnectionInv, OwnReply
<1> QED BY <1>2, <1>3, <1>4 DEF ConnectionInv

\* A call that is sent joins the end of the queue and of what the helper must answer.
LEMMA ProceedStep ==
  ASSUME ConnectionInv, NEW r \in Calls, Proceed(r)
  PROVE  ConnectionInv'
<1>1. at[r] = "ready" /\ UNCHANGED <<sock, connecting, phase, replies, reply, lost, shut>>
  BY DEF Proceed
<1>2. CASE Fail({r}) /\ UNCHANGED <<waiters, wire, on>>
  <2>1. ConnectionTypeOK'
    BY <1>1, <1>2 DEF Fail, ConnectionInv, ConnectionTypeOK
  <2>2. OneSocket' /\ InOrder' /\ Reported' /\ Usable(sock)' = Usable(sock)
    BY <1>1, <1>2 DEF ConnectionInv, OneSocket, InOrder, Reported, Usable
  <2>3. \A q \in Calls : at'[q] = "asked" => connecting' # NoSocket /\ phase'[connecting] = "connecting"
    BY <1>1, <1>2 DEF Fail, ConnectionInv, NobodyStranded
  <2> QED BY <1>1, <1>2, <2>1, <2>2, <2>3, RefusedStep
<1>3. CASE /\ Usable(sock)
           /\ at' = [at EXCEPT ![r] = "sent"] /\ on' = [on EXCEPT ![r] = sock]
           /\ waiters' = [waiters EXCEPT ![sock] = Append(@, r)]
           /\ wire' = [wire EXCEPT ![sock] = Append(@, r)]
  <2>1. sock \in Sockets /\ phase[sock] \in InUse
    BY <1>3 DEF ConnectionInv, ConnectionTypeOK, Usable, InUse
  <2>2. ConnectionTypeOK'
    BY <1>1, <1>3, <2>1, AppendProperties DEF ConnectionInv, ConnectionTypeOK
  <2>3. OneSocket'
    BY <1>1 DEF ConnectionInv, OneSocket, Usable
  <2>4. InOrder'
    <3>1. \A s \in Sockets : s # sock => waiters'[s] = waiters[s] /\ wire'[s] = wire[s]
      BY <1>3, <2>1 DEF ConnectionInv, ConnectionTypeOK
    <3>2. /\ waiters'[sock] = Append(waiters[sock], r) /\ wire'[sock] = Append(wire[sock], r)
          /\ wire[sock] \in Seq(Calls) /\ replies[sock] \in Seq(Calls)
      BY <1>3, <2>1 DEF ConnectionInv, ConnectionTypeOK
    <3>3. waiters[sock] = replies[sock] \o wire[sock]
      BY <2>1 DEF ConnectionInv, InOrder
    <3>4. waiters'[sock] = replies[sock] \o wire'[sock]
      BY <3>2, <3>3, QueueGrows
    <3> QED BY <1>1, <2>1, <3>1, <3>4 DEF ConnectionInv, InOrder, InUse
  <2>5. /\ \A s \in Sockets : s # sock => waiters'[s] = waiters[s]
        /\ waiters'[sock] = Append(waiters[sock], r)
        /\ \A i \in DOMAIN waiters'[sock] :
             waiters'[sock][i] = IF i = Len(waiters[sock]) + 1 THEN r ELSE waiters[sock][i]
        /\ DOMAIN waiters'[sock] = 1..Len(waiters[sock]) + 1
    <3>1. waiters[sock] \in Seq(Calls)
      BY <2>1 DEF ConnectionInv, ConnectionTypeOK
    <3> QED BY <1>3, <2>1, <3>1, AppendProperties, LenProperties DEF ConnectionInv, ConnectionTypeOK
  <2>6. /\ at'[r] = "sent" /\ on'[r] = sock
        /\ \A q \in Calls : q # r => at'[q] = at[q] /\ on'[q] = on[q]
    BY <1>3 DEF ConnectionInv, ConnectionTypeOK
  <2>7. WaitsOnce'
    <3>1. ASSUME NEW s \in Sockets, s # sock
          PROVE  /\ \A i \in DOMAIN waiters'[s] : at'[waiters'[s][i]] = "sent" /\ on'[waiters'[s][i]] = s
                 /\ \A i, j \in DOMAIN waiters'[s] : waiters'[s][i] = waiters'[s][j] => i = j
      <4>1. waiters'[s] = <<>>
        BY <2>5, <3>1, WaitingAreSent
      <4>2. \A i \in DOMAIN waiters'[s] : FALSE
        BY <4>1
      <4> QED BY <4>2
    <3>2. \A i \in 1..Len(waiters[sock]) :
             waiters[sock][i] \in Calls /\ waiters[sock][i] # r /\ at[waiters[sock][i]] = "sent" /\ on[waiters[sock][i]] = sock
      BY <1>1, <2>1, WaitingPlaces DEF ConnectionInv, WaitsOnce
    <3>3. Len(waiters[sock]) \in Nat /\ DOMAIN waiters[sock] = 1..Len(waiters[sock])
      BY <2>1, LenProperties DEF ConnectionInv, ConnectionTypeOK
    <3>4. \A i \in DOMAIN waiters'[sock] : at'[waiters'[sock][i]] = "sent" /\ on'[waiters'[sock][i]] = sock
      BY <2>5, <2>6, <3>2, <3>3
    <3>5. \A i, j \in DOMAIN waiters'[sock] : waiters'[sock][i] = waiters'[sock][j] => i = j
      BY <2>1, <2>5, <3>2, <3>3 DEF ConnectionInv, WaitsOnce
    <3> QED BY <3>1, <3>4, <3>5 DEF WaitsOnce
  <2>8. NobodyStranded'
    <3>1. \A q : q \in WaitingOn(sock)' <=> \E i \in DOMAIN waiters'[sock] : waiters'[sock][i] = q
      BY <1>1 DEF WaitingOn, ToSet
    <3>2. Len(waiters[sock]) \in Nat /\ DOMAIN waiters[sock] = 1..Len(waiters[sock])
      BY <2>1, LenProperties DEF ConnectionInv, ConnectionTypeOK
    <3>3. ASSUME NEW q \in Calls, q \in WaitingOn(sock) PROVE q \in WaitingOn(sock)'
      <4>1. PICK i \in 1..Len(waiters[sock]) : waiters[sock][i] = q
        BY <2>1, <3>2, <3>3, WaitingPlaces DEF ConnectionInv
      <4>2. i \in DOMAIN waiters'[sock] /\ waiters'[sock][i] = q
        BY <2>5, <3>2, <4>1
      <4> QED BY <3>1, <4>2
    <3>4. r \in WaitingOn(sock)'
      <4>1. Len(waiters[sock]) + 1 \in DOMAIN waiters'[sock] /\ waiters'[sock][Len(waiters[sock]) + 1] = r
        BY <2>5, <3>2
      <4> QED BY <3>1, <4>1
    <3>5. Usable(sock)' = Usable(sock)
      BY <1>1 DEF Usable
    <3> QED BY <1>1, <1>3, <2>6, <3>3, <3>4, <3>5 DEF ConnectionInv, NobodyStranded
  <2>9. OwnReply' /\ Reported'
    BY <1>1, <2>6 DEF ConnectionInv, OwnReply, Reported
  <2> QED BY <2>2, <2>3, <2>4, <2>7, <2>8, <2>9 DEF ConnectionInv
<1> QED BY <1>1, <1>2, <1>3 DEF Proceed

-----------------------------------------------------------------------------
(* The events of a socket.                                                 *)

\* A socket that is retired takes the calls that waited on it, whatever retired it.
LEMMA RetireStep ==
  ASSUME ConnectionInv, NEW s \in Sockets, NEW end \in {"destroyed", "closed"},
         phase[s] \in InUse \cup {"destroyed"}, phase' = [phase EXCEPT ![s] = end],
         FailSocket(s), UNCHANGED <<connecting, wire, replies, on, reply>>,
         \/ /\ sock' = (IF sock = s THEN NoSocket ELSE sock)
            /\ IF sock = s THEN OnLost(s) ELSE UNCHANGED lost
         \/ end = "destroyed" /\ UNCHANGED <<sock, lost>>,
         UNCHANGED shut
  PROVE  ConnectionInv'
<1>1. /\ \A q \in Calls : at'[q] = IF q \in WaitingOn(s) THEN "failed" ELSE at[q]
      /\ \A t \in Sockets : /\ waiters'[t] = IF t = s THEN <<>> ELSE waiters[t]
                            /\ phase'[t] = IF t = s THEN end ELSE phase[t]
  BY DEF FailSocket, Fail, ConnectionInv, ConnectionTypeOK
<1>2. ConnectionTypeOK'
  <2>1. at' \in [Calls -> {"idle", "asked", "ready", "sent", "answered", "failed"}]
    BY DEF FailSocket, Fail, ConnectionInv, ConnectionTypeOK
  <2>2. waiters' \in [Sockets -> Seq(Calls)] /\ phase' \in [Sockets -> Phases]
    BY EmptySeq DEF FailSocket, Phases, ConnectionInv, ConnectionTypeOK
  <2>3. lost' \in [Sockets -> 0..2]
    <3>1. lost[s] \in {0, 1} /\ lost \in [Sockets -> 0..2]
      BY DEF Reported, ConnectionInv, ConnectionTypeOK
    <3>2. lost' = [lost EXCEPT ![s] = lost[s] + 1] \/ lost' = lost
      BY DEF OnLost
    <3> QED BY <3>1, <3>2
  <2> QED BY <2>1, <2>2, <2>3 DEF ConnectionInv, ConnectionTypeOK
<1>3. OneSocket'
  BY <1>1 DEF ConnectionInv, ConnectionTypeOK, OneSocket, Usable, InUse
<1>4. InOrder'
  BY <1>1 DEF ConnectionInv, ConnectionTypeOK, InOrder, InUse
<1>5. WaitsOnce'
  <2>1. ASSUME NEW t \in Sockets, NEW i \in DOMAIN waiters'[t]
        PROVE  t # s /\ waiters[t][i] \in Calls /\ waiters[t][i] \notin WaitingOn(s)
    <3>1. t # s
      <4>1. CASE t = s
        <5>1. waiters'[t] = <<>>
          BY <1>1, <4>1
        <5> QED BY <2>1, <5>1
      <4> QED BY <4>1
    <3>2. waiters'[t] = waiters[t]
      BY <1>1, <3>1
    <3>3. waiters[t][i] \in Calls /\ on[waiters[t][i]] = t
      BY <2>1, <3>2, WaitingPlaces DEF ConnectionInv, WaitsOnce
    <3>4. waiters[t][i] \notin WaitingOn(s)
      BY <3>1, <3>3, WaitingAreSent
    <3> QED BY <3>1, <3>3, <3>4
  <2> QED BY <1>1, <2>1 DEF ConnectionInv, WaitsOnce
<1>6. NobodyStranded'
  <2>1. \A q \in Calls : at'[q] = "asked" =>
          connecting' # NoSocket /\ on'[q] = connecting' /\ phase'[connecting'] = "connecting"
    BY <1>1, <1>3 DEF ConnectionInv, ConnectionTypeOK, NobodyStranded, OneSocket, InUse
  <2>2. ASSUME NEW q \in Calls, at'[q] = "sent"
        PROVE  on'[q] = sock' /\ Usable(sock)' /\ q \in WaitingOn(sock)'
    <3>1. at[q] = "sent" /\ q \notin WaitingOn(s)
      BY <1>1, <2>2
    <3>2. on[q] = sock /\ Usable(sock) /\ q \in WaitingOn(sock) /\ sock \in Sockets
      BY <3>1 DEF ConnectionInv, ConnectionTypeOK, NobodyStranded, Usable
    <3>3. sock # s /\ sock' = sock
      BY <3>1, <3>2
    <3> QED BY <1>1, <3>2, <3>3 DEF Usable, WaitingOn
  <2> QED BY <2>1, <2>2 DEF ConnectionInv, NobodyStranded
<1>7. OwnReply'
  BY <1>1 DEF ConnectionInv, OwnReply
<1>8. Reported'
  <2>1. /\ \A t \in Sockets : t # s => lost'[t] = lost[t]
        /\ lost'[s] = lost[s] \/ (sock = s /\ lost'[s] = lost[s] + 1 /\ sock' = NoSocket)
    BY DEF OnLost, ConnectionInv, ConnectionTypeOK
  <2>2. \A t \in Sockets : t = sock' => t = sock
    OBVIOUS
  <2>3. \A t \in Sockets : t # s =>
          /\ lost'[t] \in {0, 1} /\ ~(lost'[t] = 1 /\ t \in shut')
          /\ lost'[t] = 1 \/ t \in shut' => t # sock' /\ phase'[t] \in {"destroyed", "closed"}
    BY <1>1, <2>1, <2>2 DEF ConnectionInv, Reported
  <2>4. /\ lost[s] \in {0, 1} /\ ~(lost[s] = 1 /\ s \in shut)
        /\ lost[s] = 1 \/ s \in shut => s # sock
    BY DEF ConnectionInv, Reported
  <2>5. /\ lost'[s] \in {0, 1} /\ ~(lost'[s] = 1 /\ s \in shut')
        /\ lost'[s] = 1 \/ s \in shut' => s # sock' /\ phase'[s] \in {"destroyed", "closed"}
    <3>1. CASE lost'[s] = lost[s]
      BY <1>1, <2>2, <2>4, <3>1
    <3>2. CASE sock = s /\ lost'[s] = lost[s] + 1 /\ sock' = NoSocket
      BY <1>1, <2>4, <3>2
    <3> QED BY <2>1, <3>1, <3>2
  <2> QED BY <2>3, <2>5 DEF Reported
<1> QED BY <1>2, <1>3, <1>4, <1>5, <1>6, <1>7, <1>8 DEF ConnectionInv

\* The deadline of a call retires the socket it waits on, which is the one in use.
LEMMA TimeoutStep ==
  ASSUME ConnectionInv, NEW r \in Calls, Timeout(r)
  PROVE  ConnectionInv'
<1>1. on[r] = sock /\ sock \in Sockets /\ phase[sock] \in InUse
  BY DEF Timeout, ConnectionInv, ConnectionTypeOK, NobodyStranded, Usable, InUse
<1>2. /\ FailSocket(sock) /\ phase' = [phase EXCEPT ![sock] = "destroyed"]
      /\ sock' = NoSocket /\ OnLost(sock)
      /\ UNCHANGED <<connecting, wire, replies, on, reply, shut>>
  BY <1>1 DEF Timeout
<1> QED BY <1>1, <1>2, RetireStep

\* A frame that does not decode retires the socket and leaves its end to be reported.
LEMMA MalformedStep ==
  ASSUME ConnectionInv, NEW s \in Sockets, Malformed(s)
  PROVE  ConnectionInv'
<1>1. phase[s] \in InUse
  BY DEF Malformed, Usable, InUse
<1> QED BY <1>1, RetireStep DEF Malformed

\* The event of its end retires a socket, given up before or not.
LEMMA ClosedStep ==
  ASSUME ConnectionInv, NEW s \in Sockets, Closed(s)
  PROVE  ConnectionInv'
<1>1. phase[s] \in InUse \cup {"destroyed"}
  BY DEF Closed, InUse
<1> QED BY <1>1, RetireStep DEF Closed

\* The attempt that comes through puts its socket in use, and lets those who wait go on.
LEMMA ConnectedStep ==
  ASSUME ConnectionInv, NEW s \in Sockets, Connected(s)
  PROVE  ConnectionInv'
<1>1. /\ phase[s] = "connecting" /\ connecting = s /\ ~Usable(sock)
      /\ sock' = s /\ connecting' = NoSocket
      /\ UNCHANGED <<waiters, wire, replies, on, reply, lost, shut>>
      /\ \A t \in Sockets : phase'[t] = IF t = s THEN "open" ELSE phase[t]
      /\ \A q \in Calls : at'[q] = IF q \in Awaiting(s) THEN "ready" ELSE at[q]
  BY DEF Connected, ConnectionInv, OneSocket, ConnectionTypeOK
<1>2. \A t \in Sockets : phase[t] \notin InUse
  BY <1>1 DEF ConnectionInv, OneSocket, Usable, InUse
<1>3. ConnectionTypeOK'
  <2>1. at' \in [Calls -> {"idle", "asked", "ready", "sent", "answered", "failed"}]
    BY DEF Connected, ConnectionInv, ConnectionTypeOK
  <2>2. phase' \in [Sockets -> Phases]
    BY DEF Connected, Phases, ConnectionInv, ConnectionTypeOK
  <2> QED BY <1>1, <2>1, <2>2 DEF ConnectionInv, ConnectionTypeOK
<1>4. OneSocket'
  BY <1>1, <1>2 DEF ConnectionInv, OneSocket, InUse, Usable
<1>5. InOrder'
  <2>1. waiters'[s] = <<>> /\ replies'[s] = <<>> /\ wire'[s] = <<>>
    BY <1>1 DEF ConnectionInv, InOrder, InUse
  <2>2. <<>> \o <<>> = <<>>
    BY EmptySeq, ConcatEmptySeq
  <2> QED BY <1>1, <2>1, <2>2 DEF ConnectionInv, InOrder, InUse
<1>6. \A q \in Calls : at'[q] \notin {"asked", "sent"}
  BY <1>1 DEF ConnectionInv, NobodyStranded, Awaiting
<1>7. \A q \in Calls : at[q] # "sent"
  BY <1>1 DEF ConnectionInv, NobodyStranded, Awaiting
<1>8. WaitsOnce'
  <2>1. \A t \in Sockets : \A i \in DOMAIN waiters[t] : FALSE
    BY <1>7, WaitingPlaces DEF ConnectionInv, WaitsOnce
  <2> QED BY <1>1, <2>1 DEF WaitsOnce
<1>9. NobodyStranded' /\ OwnReply' /\ Reported'
  BY <1>1, <1>6, <1>7 DEF ConnectionInv, NobodyStranded, OwnReply, Awaiting, Reported
<1> QED BY <1>3, <1>4, <1>5, <1>8, <1>9 DEF ConnectionInv

\* An attempt that fails takes those who wait for it; one given up has none left.
LEMMA AttemptFailsStep ==
  ASSUME ConnectionInv, NEW s \in Sockets, AttemptFails(s)
  PROVE  ConnectionInv'
<1>1. /\ phase[s] = "connecting" /\ connecting = s /\ connecting' = NoSocket
      /\ Fail(Awaiting(s))
      /\ UNCHANGED <<sock, waiters, wire, replies, on, reply, lost, shut>>
      /\ \A t \in Sockets : phase'[t] = IF t = s THEN "failed" ELSE phase[t]
  BY DEF AttemptFails, ConnectionInv, OneSocket, ConnectionTypeOK
<1>2. ConnectionTypeOK'
  <2>1. at' \in [Calls -> {"idle", "asked", "ready", "sent", "answered", "failed"}]
    BY DEF AttemptFails, Fail, ConnectionInv, ConnectionTypeOK
  <2>2. phase' \in [Sockets -> Phases]
    BY DEF AttemptFails, Phases, ConnectionInv, ConnectionTypeOK
  <2> QED BY <1>1, <2>1, <2>2 DEF ConnectionInv, ConnectionTypeOK
<1>3. OneSocket'
  BY <1>1 DEF ConnectionInv, ConnectionTypeOK, OneSocket, InUse, Usable
<1>4. InOrder' /\ Reported'
  BY <1>1 DEF ConnectionInv, InOrder, Reported, InUse
<1>5. \A q \in Calls : at'[q] # "asked"
  BY <1>1 DEF ConnectionInv, NobodyStranded, Awaiting, Fail
<1>6. Usable(sock)' = Usable(sock)
  BY <1>1 DEF Usable, ConnectionInv, ConnectionTypeOK, OneSocket
<1> QED BY <1>1, <1>2, <1>3, <1>4, <1>5, <1>6, RefusedStep DEF Awaiting

\* The reply that lies first is the one the first who waits is owed.
LEMMA DeliverStep ==
  ASSUME ConnectionInv, NEW s \in Sockets, Deliver(s)
  PROVE  ConnectionInv'
<1> DEFINE r == Head(waiters[s])
<1>1. /\ phase[s] \in InUse /\ sock = s /\ s # NoSocket /\ replies[s] # <<>>
      /\ waiters[s] = replies[s] \o wire[s]
      /\ waiters[s] \in Seq(Calls) /\ replies[s] \in Seq(Calls) /\ wire[s] \in Seq(Calls)
  BY DEF Deliver, ConnectionInv, ConnectionTypeOK, OneSocket, InOrder, InUse
<1>2. waiters[s] # <<>> /\ r = Head(replies[s]) /\ Tail(waiters[s]) = Tail(replies[s]) \o wire[s]
  BY <1>1, QueueTakes
<1>3. /\ r \in Calls /\ r = waiters[s][1] /\ Len(waiters[s]) \in Nat \ {0}
      /\ DOMAIN waiters[s] = 1..Len(waiters[s])
      /\ Tail(waiters[s]) \in Seq(Calls) /\ DOMAIN Tail(waiters[s]) = 1..Len(waiters[s]) - 1
      /\ \A i \in 1..Len(waiters[s]) - 1 : Tail(waiters[s])[i] = waiters[s][i + 1]
      /\ Tail(replies[s]) \in Seq(Calls)
  <2>1. Tail(replies[s]) \in Seq(Calls)
    BY <1>1, HeadTailProperties
  <2>2. Len(waiters[s]) \in Nat \ {0} /\ DOMAIN waiters[s] = 1..Len(waiters[s])
    BY <1>1, <1>2, LenProperties, EmptySeq
  <2>3. r \in Calls /\ r = waiters[s][1]
    BY <1>1, <1>2, QueueHead
  <2>4. /\ Tail(waiters[s]) \in Seq(Calls) /\ Len(Tail(waiters[s])) = Len(waiters[s]) - 1
        /\ \A i \in 1..Len(Tail(waiters[s])) : Tail(waiters[s])[i] = waiters[s][i + 1]
    BY <1>1, <1>2, HeadTailProperties
  <2>5. DOMAIN Tail(waiters[s]) = 1..Len(Tail(waiters[s]))
    BY <2>4, LenProperties
  <2> QED BY <2>1, <2>2, <2>3, <2>4, <2>5
<1>4. /\ at' = [at EXCEPT ![r] = "answered"] /\ reply' = [reply EXCEPT ![r] = Head(replies[s])]
      /\ waiters' = [waiters EXCEPT ![s] = Tail(waiters[s])]
      /\ replies' = [replies EXCEPT ![s] = Tail(replies[s])]
      /\ UNCHANGED <<sock, connecting, phase, wire, on, lost, shut>>
  BY <1>1, <1>2 DEF Deliver
<1> HIDE DEF r
<1>5. /\ \A q \in Calls : at'[q] = IF q = r THEN "answered" ELSE at[q]
      /\ \A q \in Calls : reply'[q] = IF q = r THEN r ELSE reply[q]
      /\ \A t \in Sockets : /\ waiters'[t] = IF t = s THEN Tail(waiters[s]) ELSE waiters[t]
                            /\ replies'[t] = IF t = s THEN Tail(replies[s]) ELSE replies[t]
  BY <1>2, <1>4 DEF ConnectionInv, ConnectionTypeOK
<1>6. ConnectionTypeOK'
  <2>1. at' \in [Calls -> {"idle", "asked", "ready", "sent", "answered", "failed"}]
    BY <1>4 DEF ConnectionInv, ConnectionTypeOK
  <2>2. waiters' \in [Sockets -> Seq(Calls)] /\ replies' \in [Sockets -> Seq(Calls)]
    BY <1>3, <1>4 DEF ConnectionInv, ConnectionTypeOK
  <2>3. reply' \in [Calls -> Calls \cup {NoCall}]
    BY <1>2, <1>3, <1>4 DEF ConnectionInv, ConnectionTypeOK
  <2> QED BY <1>4, <2>1, <2>2, <2>3 DEF ConnectionInv, ConnectionTypeOK
<1>7. OneSocket' /\ Reported'
  BY <1>4 DEF ConnectionInv, OneSocket, Reported, Usable
<1>8. InOrder'
  <2>1. waiters'[s] = replies'[s] \o wire'[s] /\ phase'[s] \in InUse
    BY <1>1, <1>2, <1>4, <1>5
  <2>2. \A t \in Sockets : t # s => /\ waiters'[t] = waiters[t] /\ replies'[t] = replies[t]
                                   /\ wire'[t] = wire[t] /\ phase'[t] = phase[t]
    BY <1>4, <1>5
  <2> QED BY <2>1, <2>2 DEF ConnectionInv, InOrder, InUse
<1>9. WaitsOnce'
  <2>1. ASSUME NEW t \in Sockets, t # s, NEW i \in DOMAIN waiters'[t] PROVE FALSE
    <3>1. waiters[t] = <<>> /\ waiters'[t] = waiters[t]
      BY <1>1, <1>5, <2>1, WaitingAreSent
    <3> QED BY <2>1, <3>1
  <2>2. \A i \in 1..Len(waiters[s]) : /\ waiters[s][i] \in Calls /\ at[waiters[s][i]] = "sent"
                                      /\ on[waiters[s][i]] = s
    BY <1>3, WaitingPlaces DEF ConnectionInv, WaitsOnce
  <2>3. \A i, j \in 1..Len(waiters[s]) : waiters[s][i] = waiters[s][j] => i = j
    BY <1>3 DEF ConnectionInv, WaitsOnce
  <2>4. waiters'[s] = Tail(waiters[s]) /\ DOMAIN waiters'[s] = 1..Len(waiters[s]) - 1
    BY <1>3, <1>5
  <2>5. \A i \in DOMAIN waiters'[s] : /\ i + 1 \in 1..Len(waiters[s]) /\ i + 1 # 1
                                     /\ waiters'[s][i] = waiters[s][i + 1]
    BY <1>3, <2>4
  <2>6. \A i \in DOMAIN waiters'[s] : at'[waiters'[s][i]] = "sent" /\ on'[waiters'[s][i]] = s
    <3>1. ASSUME NEW i \in DOMAIN waiters'[s]
          PROVE  waiters'[s][i] \in Calls /\ waiters'[s][i] # r /\ waiters'[s][i] = waiters[s][i + 1]
      <4>1. i + 1 \in 1..Len(waiters[s]) /\ i + 1 # 1 /\ waiters'[s][i] = waiters[s][i + 1]
        BY <2>5, <3>1
      <4>2. 1 \in 1..Len(waiters[s])
        BY <1>3
      <4>3. waiters[s][i + 1] # waiters[s][1]
        BY <2>3, <4>1, <4>2
      <4> QED BY <1>3, <2>2, <4>1, <4>3
    <3>2. ASSUME NEW i \in DOMAIN waiters'[s]
          PROVE  at'[waiters'[s][i]] = "sent" /\ on'[waiters'[s][i]] = s
      BY <1>4, <1>5, <2>2, <2>5, <3>1
    <3> QED BY <3>2
  <2>7. \A i, j \in DOMAIN waiters'[s] : waiters'[s][i] = waiters'[s][j] => i = j
    <3>1. ASSUME NEW i \in DOMAIN waiters'[s], NEW j \in DOMAIN waiters'[s], waiters'[s][i] = waiters'[s][j]
          PROVE  i = j
      <4>1. i + 1 = j + 1
        BY <2>3, <2>5, <3>1
      <4> QED BY <1>3, <2>4, <4>1
    <3> QED BY <3>1
  <2> QED BY <2>1, <2>6, <2>7 DEF WaitsOnce
<1>10. NobodyStranded'
  <2>1. \A q : q \in WaitingOn(s)' <=> \E i \in DOMAIN waiters'[s] : waiters'[s][i] = q
    BY DEF WaitingOn, ToSet
  <2>2. ASSUME NEW q \in Calls, q # r, at[q] = "sent" PROVE q \in WaitingOn(s)'
    <3>1. PICK i \in 1..Len(waiters[s]) : waiters[s][i] = q
      <4>1. q \in WaitingOn(s)
        BY <1>1, <2>2 DEF ConnectionInv, NobodyStranded
      <4> QED BY <1>3, <4>1, WaitingPlaces DEF ConnectionInv
    <3>2. i # 1 /\ i - 1 \in 1..Len(waiters[s]) - 1 /\ (i - 1) + 1 = i
      BY <1>3, <2>2, <3>1
    <3>3. i - 1 \in DOMAIN waiters'[s] /\ waiters'[s][i - 1] = q
      BY <1>3, <1>5, <3>1, <3>2
    <3> QED BY <2>1, <3>3
  <2> QED BY <1>1, <1>4, <1>5, <2>2 DEF ConnectionInv, NobodyStranded, Usable
<1>11. OwnReply'
  BY <1>5 DEF ConnectionInv, OwnReply
<1> QED BY <1>6, <1>7, <1>8, <1>9, <1>10, <1>11 DEF ConnectionInv

\* The helper's answer moves a call from what it must answer to what lies unread.
LEMMA AnswersStep ==
  ASSUME ConnectionInv, NEW s \in Sockets, HelperAnswers(s)
  PROVE  ConnectionInv'
<1>1. /\ phase[s] \in InUse /\ wire[s] # <<>> /\ wire[s] \in Seq(Calls) /\ replies[s] \in Seq(Calls)
      /\ waiters[s] = replies[s] \o wire[s]
      /\ UNCHANGED <<sock, connecting, waiters, phase, at, on, reply, lost, shut>>
  BY DEF HelperAnswers, ConnectionInv, ConnectionTypeOK, InOrder, InUse
<1>2. /\ Append(replies[s], Head(wire[s])) \in Seq(Calls) /\ Tail(wire[s]) \in Seq(Calls)
      /\ Append(replies[s], Head(wire[s])) \o Tail(wire[s]) = replies[s] \o wire[s]
  BY <1>1, QueueMoves
<1>3. /\ wire' = [wire EXCEPT ![s] = Tail(wire[s])]
      /\ replies' = [replies EXCEPT ![s] = Append(replies[s], Head(wire[s]))]
  BY DEF HelperAnswers
<1>4. \A t \in Sockets : /\ wire'[t] = IF t = s THEN Tail(wire[s]) ELSE wire[t]
                         /\ replies'[t] = IF t = s THEN Append(replies[s], Head(wire[s])) ELSE replies[t]
  BY <1>3 DEF ConnectionInv, ConnectionTypeOK
<1>5. ConnectionTypeOK'
  <2>1. wire' \in [Sockets -> Seq(Calls)] /\ replies' \in [Sockets -> Seq(Calls)]
    BY <1>2, <1>3 DEF ConnectionInv, ConnectionTypeOK
  <2> QED BY <1>1, <2>1 DEF ConnectionInv, ConnectionTypeOK
<1>6. InOrder'
  <2>1. waiters'[s] = replies'[s] \o wire'[s]
    BY <1>1, <1>2, <1>4
  <2>2. \A t \in Sockets : t # s => wire'[t] = wire[t] /\ replies'[t] = replies[t]
    BY <1>4
  <2> QED BY <1>1, <2>1, <2>2 DEF ConnectionInv, InOrder, InUse
<1>7. OneSocket' /\ WaitsOnce' /\ Reported' /\ NobodyStranded' /\ OwnReply'
  BY <1>1 DEF ConnectionInv, OneSocket, WaitsOnce, Reported, NobodyStranded, OwnReply, Usable, WaitingOn
<1> QED BY <1>5, <1>6, <1>7 DEF ConnectionInv

\* An end the client has not learnt of changes nothing it can tell.
LEMMA EndsStep ==
  ASSUME ConnectionInv, NEW s \in Sockets, HelperEnds(s)
  PROVE  ConnectionInv'
<1>1. /\ phase[s] = "open" /\ phase' = [phase EXCEPT ![s] = "ended"]
      /\ UNCHANGED <<sock, connecting, waiters, wire, replies, at, on, reply, lost, shut>>
      /\ \A t \in Sockets : phase'[t] = IF t = s THEN "ended" ELSE phase[t]
  BY DEF HelperEnds, ConnectionInv, ConnectionTypeOK
<1>2. ConnectionTypeOK'
  BY <1>1 DEF ConnectionInv, ConnectionTypeOK, Phases
<1>3. OneSocket' /\ InOrder' /\ WaitsOnce' /\ Reported' /\ OwnReply'
  BY <1>1 DEF ConnectionInv, ConnectionTypeOK, OneSocket, InOrder, WaitsOnce, Reported, OwnReply, InUse, Usable
<1>4. NobodyStranded'
  <2>1. Usable(sock) => Usable(sock)'
    BY <1>1 DEF Usable, ConnectionInv, ConnectionTypeOK
  <2>2. connecting # NoSocket /\ phase[connecting] = "connecting" => phase'[connecting] = "connecting"
    BY <1>1 DEF ConnectionInv, ConnectionTypeOK
  <2> QED BY <1>1, <2>1, <2>2 DEF ConnectionInv, NobodyStranded, WaitingOn
<1> QED BY <1>2, <1>3, <1>4 DEF ConnectionInv

\* close() takes the attempt with those who wait for it, and the socket in use with those
\* who wait on it; a socket that is not in use any more has none.
LEMMA CloseStep ==
  ASSUME ConnectionInv, Close
  PROVE  ConnectionInv'
<1>1. /\ connecting' = NoSocket /\ sock' = NoSocket
      /\ UNCHANGED <<wire, replies, on, reply, lost>>
      /\ \A t \in Sockets : /\ phase'[t] = IF t = connecting THEN "failed"
                                           ELSE IF t = sock THEN "destroyed" ELSE phase[t]
                            /\ waiters'[t] = IF t = sock THEN <<>> ELSE waiters[t]
      /\ shut' = Shutting
  BY DEF Close
<1>2. \A q \in Calls : /\ at'[q] = at[q] \/ (at'[q] = "failed" /\ at[q] \in {"asked", "sent"})
                       /\ at'[q] \notin {"asked", "sent"}
  <2>1. \A q \in Calls : at'[q] = IF \/ connecting # NoSocket /\ q \in Awaiting(connecting)
                                     \/ sock # NoSocket /\ q \in WaitingOn(sock)
                                  THEN "failed" ELSE at[q]
    BY DEF Close, Fail
  <2>2. \A q \in Calls : sock # NoSocket /\ q \in WaitingOn(sock) => at[q] = "sent"
    BY WaitingAreSent DEF ConnectionInv, ConnectionTypeOK
  <2>3. \A q \in Calls : at[q] = "asked" => connecting # NoSocket /\ q \in Awaiting(connecting)
    BY DEF ConnectionInv, NobodyStranded, Awaiting
  <2>4. \A q \in Calls : at[q] = "sent" => sock # NoSocket /\ q \in WaitingOn(sock)
    BY DEF ConnectionInv, NobodyStranded, Usable
  <2> QED BY <2>1, <2>2, <2>3, <2>4 DEF Awaiting
<1>3. \A t \in Sockets : /\ waiters'[t] = <<>> /\ phase'[t] \notin InUse \cup {"connecting"}
  <2>1. \A t \in Sockets : t # sock => waiters[t] = <<>>
    BY WaitingAreSent
  <2> QED BY <1>1, <2>1 DEF ConnectionInv, OneSocket, InUse
<1>4. ConnectionTypeOK'
  <2>1. at' \in [Calls -> {"idle", "asked", "ready", "sent", "answered", "failed"}]
    BY <1>2 DEF Close, Fail, ConnectionInv, ConnectionTypeOK
  <2>2. waiters' \in [Sockets -> Seq(Calls)]
    BY EmptySeq DEF Close, ConnectionInv, ConnectionTypeOK
  <2>3. phase' \in [Sockets -> Phases]
    BY DEF Close, Phases, ConnectionInv, ConnectionTypeOK
  <2>4. shut' \subseteq Sockets
    BY <1>1 DEF Shutting, Usable, ConnectionInv, ConnectionTypeOK
  <2> QED BY <1>1, <2>1, <2>2, <2>3, <2>4 DEF ConnectionInv, ConnectionTypeOK
<1>5. OneSocket'
  BY <1>1, <1>3 DEF OneSocket
<1>6. InOrder'
  <2>1. \A t \in Sockets : phase'[t] = "new" => phase[t] = "new"
    BY <1>1
  <2> QED BY <1>1, <1>3, <2>1 DEF ConnectionInv, InOrder
<1>7. WaitsOnce'
  <2>1. \A t \in Sockets : \A i \in DOMAIN waiters'[t] : FALSE
    BY <1>3
  <2> QED BY <2>1 DEF WaitsOnce
<1>8. Reported'
  <2>1. \A t \in Sockets : t \in shut' => t \in shut \/ (t = sock /\ Usable(sock))
    BY <1>1 DEF Shutting
  <2>2. \A t \in Sockets : t # connecting \/ phase[t] = "connecting"
    BY DEF ConnectionInv, OneSocket
  <2>3. \A t \in Sockets : t = sock => lost[t] # 1 /\ t # connecting
    BY DEF ConnectionInv, Reported, OneSocket, InUse
  <2> QED BY <1>1, <2>1, <2>2, <2>3 DEF ConnectionInv, Reported
<1>9. NobodyStranded' /\ OwnReply'
  BY <1>1, <1>2 DEF ConnectionInv, NobodyStranded, OwnReply
<1> QED BY <1>4, <1>5, <1>6, <1>7, <1>8, <1>9 DEF ConnectionInv

-----------------------------------------------------------------------------
(* The theorems.                                                           *)

\* Before the first request there is no socket, no attempt and no waiter.
LEMMA ConnectionInitInv == ConnectionInit => ConnectionInv
<1> SUFFICES ASSUME ConnectionInit PROVE ConnectionInv
  OBVIOUS
<1>1. <<>> \in Seq(Calls)
  BY EmptySeq
<1>2. ConnectionTypeOK
  BY <1>1 DEF ConnectionInit, ConnectionTypeOK, Phases
<1>3. OneSocket /\ InOrder /\ Reported /\ NobodyStranded /\ OwnReply
  BY DEF ConnectionInit, OneSocket, InOrder, Reported, NobodyStranded, OwnReply, InUse
<1>4. WaitsOnce
  BY DEF ConnectionInit, WaitsOnce
<1> QED BY <1>2, <1>3, <1>4 DEF ConnectionInv

\* Every continuation, timer and event of the client, and every step of the helper, keeps it.
LEMMA ConnectionNextInv == ConnectionInv /\ [ConnectionNext]_connection => ConnectionInv'
<1> SUFFICES ASSUME ConnectionInv, [ConnectionNext]_connection PROVE ConnectionInv'
  OBVIOUS
<1>1. ASSUME NEW r \in Calls, Request(r) PROVE ConnectionInv'
  BY <1>1, AskStep, ProceedStep, TimeoutStep DEF Request
<1>2. ASSUME NEW s \in Sockets,
             \/ Attempt(s) \/ Deliver(s) \/ Malformed(s) \/ Closed(s)
             \/ HelperAnswers(s) \/ HelperEnds(s)
      PROVE  ConnectionInv'
  BY <1>2, ConnectedStep, AttemptFailsStep, DeliverStep, MalformedStep, ClosedStep, AnswersStep,
     EndsStep DEF Attempt
<1>3. CASE Close
  BY <1>3, CloseStep
<1>4. CASE UNCHANGED connection
  BY <1>4 DEF connection, ConnectionInv, ConnectionTypeOK, OneSocket, InOrder, WaitsOnce, Reported,
     NobodyStranded, OwnReply, Usable, WaitingOn
<1> QED BY <1>1, <1>2, <1>3, <1>4 DEF ConnectionNext

\* The inductive invariant of the connection: what waits on the socket in use is what the
\* helper owes, in the order of its replies.
THEOREM ConnectionInvariance == ConnectionSpec => []ConnectionInv
BY ConnectionInitInv, ConnectionNextInv, PTL DEF ConnectionSpec

\* client.ts: every variable of the connection keeps its type, whatever comes when.
THEOREM ConnectionTyping == ConnectionSpec => []ConnectionTypeOK
BY ConnectionInvariance, PTL DEF ConnectionInv

\* Though replies carry no identifier, a request is only ever resolved by its own.
THEOREM OwnReplyTheorem == ConnectionSpec => []OwnReply
BY ConnectionInvariance, PTL DEF ConnectionInv

\* A request that is not settled waits for an attempt under way or on the socket in use.
THEOREM StrandedTheorem == ConnectionSpec => []NobodyStranded
BY ConnectionInvariance, PTL DEF ConnectionInv

-----------------------------------------------------------------------------
(* The connection implements the channel.                                  *)

\* What the callers see, in the states the invariant allows.
Seen(r, stage) == stage = (IF at[r] = "ready" THEN "asked" ELSE at[r])

Told(s, fate) ==
  fate = IF lost[s] = 1 THEN "told"
         ELSE IF s \in shut THEN "shut"
         ELSE IF phase[s] \in {"new", "connecting", "failed"} THEN "new"
         ELSE IF phase[s] \in InUse THEN "open" ELSE "lost"

LEMMA Mapping ==
  ASSUME ConnectionInv, ConnectionInv'
  PROVE  /\ \A r \in Calls : Seen(r, Stage(r)) /\ Seen(r, Stage(r))'
         /\ \A s \in Sockets : Told(s, Fate(s)) /\ Told(s, Fate(s))'
<1>1. \A r \in Calls : Seen(r, Stage(r)) /\ Seen(r, Stage(r))'
  BY DEF Seen, Stage, ConnectionInv, OwnReply
<1>2. ASSUME NEW s \in Sockets PROVE Told(s, Fate(s))
  <2>1. /\ lost[s] \in {0, 1} /\ ~(lost[s] = 1 /\ s \in shut)
        /\ phase[s] \in InUse => sock = s
        /\ lost[s] = 1 \/ s \in shut => s # sock
    BY DEF ConnectionInv, Reported, OneSocket
  <2>2. CASE lost[s] = 1
    BY <2>1, <2>2 DEF Told, Fate
  <2>3. CASE lost[s] = 0 /\ s \in shut
    BY <2>1, <2>3 DEF Told, Fate
  <2>4. CASE lost[s] = 0 /\ s \notin shut
    BY <2>1, <2>4 DEF Told, Fate, InUse
  <2> QED BY <2>1, <2>2, <2>3, <2>4
<1>3. ASSUME NEW s \in Sockets PROVE Told(s, Fate(s))'
  <2>1. /\ lost'[s] \in {0, 1} /\ ~(lost'[s] = 1 /\ s \in shut')
        /\ phase'[s] \in InUse => sock' = s
        /\ lost'[s] = 1 \/ s \in shut' => s # sock'
    BY DEF ConnectionInv, Reported, OneSocket
  <2>2. CASE lost'[s] = 1
    BY <2>1, <2>2 DEF Told, Fate
  <2>3. CASE lost'[s] = 0 /\ s \in shut'
    BY <2>1, <2>3 DEF Told, Fate
  <2>4. CASE lost'[s] = 0 /\ s \notin shut'
    BY <2>1, <2>4 DEF Told, Fate, InUse
  <2> QED BY <2>1, <2>2, <2>3, <2>4
<1> QED BY <1>1, <1>2, <1>3

\* A request is asked of the channel, and sent or refused after the await.
LEMMA AskRefines ==
  ASSUME ConnectionInv, ConnectionInv', NEW r \in Calls, Ask(r)
  PROVE  Promise!Ask(r)
<1>1. /\ at[r] = "idle" /\ UNCHANGED <<sock, lost, shut>>
      /\ at' = [at EXCEPT ![r] = "ready"] \/ at' = [at EXCEPT ![r] = "asked"]
      /\ \A q \in Calls : q # r => at'[q] = at[q] /\ on'[q] = on[q]
      /\ \A s \in Sockets : phase'[s] = phase[s] \/ (phase[s] = "new" /\ phase'[s] = "connecting")
  BY DEF Ask, ConnectionInv, ConnectionTypeOK
<1>2. at'[r] \in {"ready", "asked"}
  BY <1>1 DEF ConnectionInv, ConnectionTypeOK
<1>3. \A q \in Calls : Stage(q)' = IF q = r THEN "asked" ELSE Stage(q)
  BY <1>1, <1>2, Mapping DEF Seen
<1>4. Stage(r) = "idle"
  BY <1>1, Mapping DEF Seen
<1>5. \A q \in Calls : SentTo(q)' = SentTo(q)
  BY <1>1, <1>2 DEF SentTo
<1>6. \A s \in Sockets : Fate(s)' = Fate(s)
  BY <1>1, Mapping DEF Told, InUse
<1> QED BY <1>3, <1>4, <1>5, <1>6 DEF Promise!Ask

LEMMA ProceedRefines ==
  ASSUME ConnectionInv, ConnectionInv', NEW r \in Calls, Proceed(r)
  PROVE  Promise!ChannelNext
<1>1. /\ at[r] = "ready" /\ UNCHANGED <<sock, phase, lost, shut>> /\ Stage(r) = "asked"
      /\ \A s \in Sockets : Fate(s)' = Fate(s)
  BY Mapping DEF Proceed, Seen, Told
<1>2. CASE Fail({r}) /\ UNCHANGED <<waiters, wire, on>>
  <2>1. \A q \in Calls : at'[q] = IF q = r THEN "failed" ELSE at[q]
    BY <1>2 DEF Fail
  <2>2. \A q \in Calls : Stage(q)' = IF q \in {r} THEN "failed" ELSE Stage(q)
    BY <2>1, Mapping DEF Seen
  <2>3. \A q \in Calls : SentTo(q)' = SentTo(q)
    BY <1>1, <1>2, <2>1 DEF SentTo
  <2>4. Promise!Refuse({r})
    BY <1>1, <2>2, <2>3 DEF Promise!Refuse
  <2> QED BY <2>4 DEF Promise!ChannelNext
<1>3. CASE Usable(sock) /\ at' = [at EXCEPT ![r] = "sent"] /\ on' = [on EXCEPT ![r] = sock]
  <2>1. sock \in Sockets /\ phase[sock] \in InUse
    BY <1>3 DEF Usable, InUse, ConnectionInv, ConnectionTypeOK
  <2>2. Fate(sock) = "open"
    BY <2>1, Mapping DEF Told, InUse, ConnectionInv, Reported
  <2>3. \A q \in Calls : /\ at'[q] = IF q = r THEN "sent" ELSE at[q]
                         /\ on'[q] = IF q = r THEN sock ELSE on[q]
    BY <1>3 DEF ConnectionInv, ConnectionTypeOK
  <2>4. \A q \in Calls : /\ Stage(q)' = IF q = r THEN "sent" ELSE Stage(q)
                         /\ SentTo(q)' = IF q = r THEN sock ELSE SentTo(q)
    BY <2>3, Mapping DEF Seen, SentTo
  <2>5. Promise!Send(r, sock)
    BY <1>1, <2>1, <2>2, <2>4 DEF Promise!Send, Promise!IsOpen
  <2> QED BY <2>1, <2>5 DEF Promise!ChannelNext
<1> QED BY <1>2, <1>3 DEF Proceed

\* However a socket in use is retired, the calls sent on it fail with it.
LEMMA RetireRefines ==
  ASSUME ConnectionInv, ConnectionInv', NEW s \in Sockets, phase[s] \in InUse,
         FailSocket(s), on' = on, NEW how, Fate(s)' = how,
         \A t \in Sockets : t # s => Fate(t)' = Fate(t)
  PROVE  Promise!End(s, how)
<1>1. Fate(s) = "open"
  BY Mapping DEF Told, InUse, ConnectionInv, Reported, OneSocket
<1>2. \A q \in Calls : /\ at'[q] = IF q \in WaitingOn(s) THEN "failed" ELSE at[q]
                       /\ q \in WaitingOn(s) <=> at[q] = "sent" /\ on[q] = s
  BY WaitingAreSent DEF FailSocket, Fail
<1>3. \A q \in Calls : q \in WaitingOn(s) <=> SentTo(q) = s
  BY <1>2 DEF SentTo
<1>4. \A q \in Calls : /\ Stage(q)' = IF q \in WaitingOn(s) THEN "failed" ELSE Stage(q)
                       /\ SentTo(q)' = IF q \in WaitingOn(s) THEN NoSocket ELSE SentTo(q)
  BY <1>2, Mapping DEF Seen, SentTo
<1>5. Promise!SentOn(s) = {q \in Calls : q \in WaitingOn(s)}
  BY <1>3 DEF Promise!SentOn
<1> QED BY <1>1, <1>4, <1>5 DEF Promise!End, Promise!IsOpen, Promise!FailAll

\* A step of a request is one of the channel's.
LEMMA RequestRefines ==
  ASSUME ConnectionInv, ConnectionInv', NEW r \in Calls, Request(r)
  PROVE  Promise!ChannelNext
<1>1. CASE Ask(r)
  BY <1>1, AskRefines DEF Promise!ChannelNext
<1>2. CASE Proceed(r)
  BY <1>2, ProceedRefines
<1>3. CASE Timeout(r)
  <2>1. PICK s \in Sockets : s = sock /\ on[r] = s /\ phase[s] \in InUse
    BY <1>3 DEF Timeout, ConnectionInv, ConnectionTypeOK, NobodyStranded, Usable, InUse
  <2>2. /\ FailSocket(s) /\ UNCHANGED <<on, shut>>
        /\ \A t \in Sockets : /\ lost'[t] = IF t = s THEN lost[t] + 1 ELSE lost[t]
                              /\ t # s => phase'[t] = phase[t]
    BY <1>3, <2>1 DEF Timeout, OnLost, ConnectionInv, ConnectionTypeOK
  <2>3. lost'[s] = 1
    BY <2>1, <2>2 DEF ConnectionInv, Reported
  <2>4. Fate(s)' = "told"
    BY <2>3, Mapping DEF Told
  <2>5. \A t \in Sockets : t # s => Fate(t)' = Fate(t)
    BY <2>2, Mapping DEF Told, InUse
  <2>6. Promise!End(s, "told")
    BY <2>1, <2>2, <2>4, <2>5, RetireRefines
  <2> QED BY <2>6 DEF Promise!ChannelNext
<1> QED BY <1>1, <1>2, <1>3 DEF Request

\* The attempt that comes through opens a socket, and no other is open then.
LEMMA ConnectedRefines ==
  ASSUME ConnectionInv, ConnectionInv', NEW s \in Sockets, Connected(s)
  PROVE  Promise!ChannelNext
<1>1. /\ phase[s] = "connecting" /\ ~Usable(sock) /\ UNCHANGED <<on, lost, shut>>
      /\ \A t \in Sockets : phase'[t] = IF t = s THEN "open" ELSE phase[t]
      /\ \A q \in Calls : at'[q] = IF q \in Awaiting(s) THEN "ready" ELSE at[q]
  BY DEF Connected, ConnectionInv, OneSocket, ConnectionTypeOK
<1>2. \A t \in Sockets : Fate(t) # "open"
  BY <1>1, Mapping DEF Told, ConnectionInv, OneSocket, Usable, InUse
<1>3. lost[s] = 0 /\ s \notin shut
  BY <1>1 DEF ConnectionInv, Reported
<1>4. Fate(s) = "new" /\ Fate(s)' = "open"
  BY <1>1, <1>3, Mapping DEF Told, InUse
<1>5. \A t \in Sockets : t # s => Fate(t)' = Fate(t)
  BY <1>1, Mapping DEF Told, InUse
<1>6. \A q \in Calls : Stage(q)' = Stage(q) /\ SentTo(q)' = SentTo(q)
  BY <1>1, Mapping DEF Seen, SentTo, Awaiting
<1>7. Promise!Open(s)
  BY <1>2, <1>4, <1>5, <1>6 DEF Promise!Open, Promise!IsOpen
<1> QED BY <1>7 DEF Promise!ChannelNext

\* Calls that wait for an attempt which ends are refused; there may be none.
LEMMA RefusesRefine ==
  ASSUME ConnectionInv, ConnectionInv', NEW S \in SUBSET Calls, \A r \in S : at[r] = "asked",
         Fail(S), on' = on, \A s \in Sockets : Fate(s)' = Fate(s)
  PROVE  Promise!ChannelNext \/ UNCHANGED Promise!channel
<1>1. \A q \in Calls : at'[q] = IF q \in S THEN "failed" ELSE at[q]
  BY DEF Fail
<1>2. \A q \in Calls : /\ Stage(q)' = IF q \in S THEN "failed" ELSE Stage(q)
                       /\ SentTo(q)' = SentTo(q)
  BY <1>1, Mapping DEF Seen, SentTo
<1>3. \A q \in S : Stage(q) = "asked"
  BY Mapping DEF Seen
<1>4. CASE S = {}
  BY <1>2, <1>4 DEF Promise!channel
<1>5. CASE S # {}
  <2>1. Promise!Refuse(S)
    BY <1>2, <1>3, <1>5 DEF Promise!Refuse
  <2> QED BY <2>1 DEF Promise!ChannelNext
<1> QED BY <1>4, <1>5

LEMMA AttemptFailsRefines ==
  ASSUME ConnectionInv, ConnectionInv', NEW s \in Sockets, AttemptFails(s)
  PROVE  Promise!ChannelNext \/ UNCHANGED Promise!channel
<1>1. /\ phase[s] = "connecting" /\ Fail(Awaiting(s)) /\ UNCHANGED <<on, lost, shut>>
      /\ \A t \in Sockets : phase'[t] = IF t = s THEN "failed" ELSE phase[t]
  BY DEF AttemptFails, ConnectionInv, ConnectionTypeOK
<1>2. \A t \in Sockets : Fate(t)' = Fate(t)
  BY <1>1, Mapping DEF Told, InUse
<1> QED BY <1>1, <1>2, RefusesRefine DEF Awaiting

\* The reply of the call that has waited longest is its own: it is answered.
LEMMA DeliverRefines ==
  ASSUME ConnectionInv, ConnectionInv', NEW s \in Sockets, Deliver(s)
  PROVE  Promise!ChannelNext \/ UNCHANGED Promise!channel
<1>1. /\ phase[s] \in InUse /\ UNCHANGED <<phase, on, lost, shut>>
      /\ \A t \in Sockets : Fate(t)' = Fate(t)
  BY Mapping DEF Deliver, InUse, Told
<1>2. CASE UNCHANGED <<at, reply>>
  <2>1. \A q \in Calls : Stage(q)' = Stage(q) /\ SentTo(q)' = SentTo(q)
    BY <1>1, <1>2 DEF Stage, SentTo
  <2> QED BY <1>1, <2>1 DEF Promise!channel
<1>3. CASE waiters[s] # <<>> /\ at' = [at EXCEPT ![Head(waiters[s])] = "answered"]
  <2>1. Head(waiters[s]) \in Calls /\ Head(waiters[s]) = waiters[s][1] /\ 1 \in DOMAIN waiters[s]
    BY <1>3, QueueHead, LenProperties, EmptySeq DEF ConnectionInv, ConnectionTypeOK
  <2>2. PICK r \in Calls : r = Head(waiters[s]) /\ at[r] = "sent" /\ on[r] = s
    BY <2>1 DEF ConnectionInv, WaitsOnce
  <2>3. Fate(s) = "open"
    BY <1>1, Mapping DEF Told, InUse, ConnectionInv, Reported
  <2>4. \A q \in Calls : at'[q] = IF q = r THEN "answered" ELSE at[q]
    BY <1>3, <2>2 DEF ConnectionInv, ConnectionTypeOK
  <2>5. \A q \in Calls : /\ Stage(q)' = IF q = r THEN "answered" ELSE Stage(q)
                         /\ SentTo(q)' = IF q = r THEN NoSocket ELSE SentTo(q)
    BY <1>1, <2>4, Mapping DEF Seen, SentTo
  <2>6. Stage(r) = "sent" /\ SentTo(r) = s
    BY <2>2, Mapping DEF Seen, SentTo
  <2>7. Promise!Answer(r)
    BY <1>1, <2>3, <2>5, <2>6 DEF Promise!Answer, Promise!IsOpen
  <2> QED BY <2>7 DEF Promise!ChannelNext
<1> QED BY <1>2, <1>3 DEF Deliver

\* A frame that does not decode loses the socket before its end is told.
LEMMA MalformedRefines ==
  ASSUME ConnectionInv, ConnectionInv', NEW s \in Sockets, Malformed(s)
  PROVE  Promise!ChannelNext
<1>1. /\ phase[s] \in InUse /\ sock = s /\ FailSocket(s) /\ UNCHANGED <<on, lost, shut>>
      /\ \A t \in Sockets : phase'[t] = IF t = s THEN "destroyed" ELSE phase[t]
  BY DEF Malformed, Usable, InUse, ConnectionInv, ConnectionTypeOK
<1>2. lost[s] = 0 /\ s \notin shut
  BY <1>1 DEF ConnectionInv, Reported
<1>3. Fate(s)' = "lost" /\ \A t \in Sockets : t # s => Fate(t)' = Fate(t)
  BY <1>1, <1>2, Mapping DEF Told, InUse
<1>4. Promise!End(s, "lost")
  BY <1>1, <1>3, RetireRefines
<1> QED BY <1>4 DEF Promise!ChannelNext

\* The event of a socket's end tells of it, unless it was told of, or given up, before.
LEMMA ClosedRefines ==
  ASSUME ConnectionInv, ConnectionInv', NEW s \in Sockets, Closed(s)
  PROVE  Promise!ChannelNext \/ UNCHANGED Promise!channel
<1>1. /\ phase[s] \in {"ended", "destroyed"} /\ FailSocket(s) /\ UNCHANGED <<on, shut>>
      /\ \A t \in Sockets : /\ phase'[t] = IF t = s THEN "closed" ELSE phase[t]
                            /\ lost'[t] = IF t = s /\ sock = s THEN lost[t] + 1 ELSE lost[t]
  BY DEF Closed, OnLost, ConnectionInv, ConnectionTypeOK
<1>2. \A t \in Sockets : t # s => Fate(t)' = Fate(t)
  BY <1>1, Mapping DEF Told, InUse
<1>3. CASE phase[s] = "ended"
  <2>1. sock = s /\ lost[s] = 0
    BY <1>3 DEF ConnectionInv, Reported, OneSocket, InUse
  <2>2. Fate(s)' = "told"
    BY <1>1, <2>1, Mapping DEF Told
  <2>3. Promise!End(s, "told")
    BY <1>1, <1>2, <1>3, <2>2, RetireRefines DEF InUse
  <2> QED BY <2>3 DEF Promise!ChannelNext
<1>4. CASE phase[s] = "destroyed"
  <2>1. WaitingOn(s) = {}
    BY <1>4, WaitingAreSent DEF Usable
  <2>2. \A q \in Calls : at'[q] = at[q]
    BY <1>1, <2>1 DEF FailSocket, Fail
  <2>3. \A q \in Calls : Stage(q)' = Stage(q) /\ SentTo(q)' = SentTo(q)
    BY <1>1, <2>2, Mapping DEF Seen, SentTo
  <2>4. CASE sock = s
    <3>1. lost[s] = 0 /\ s \notin shut
      BY <2>4 DEF ConnectionInv, Reported
    <3>2. Fate(s) = "lost" /\ Fate(s)' = "told"
      BY <1>1, <1>4, <2>4, <3>1, Mapping DEF Told, InUse
    <3>3. Promise!Tell(s)
      BY <1>2, <2>3, <3>2 DEF Promise!Tell
    <3> QED BY <3>3 DEF Promise!ChannelNext
  <2>5. CASE sock # s
    <3>1. Fate(s)' = Fate(s)
      BY <1>1, <1>4, <2>5, Mapping DEF Told, InUse
    <3> QED BY <1>2, <2>3, <3>1 DEF Promise!channel
  <2> QED BY <2>4, <2>5
<1> QED BY <1>1, <1>3, <1>4

\* close() shuts the socket in use, if there is one, or refuses those who wait for it.
LEMMA CloseRefines ==
  ASSUME ConnectionInv, ConnectionInv', Close
  PROVE  Promise!ChannelNext \/ UNCHANGED Promise!channel
<1>1. /\ UNCHANGED <<on, lost>> /\ shut' = Shutting
      /\ \A t \in Sockets : phase'[t] = IF t = connecting THEN "failed"
                                        ELSE IF t = sock THEN "destroyed" ELSE phase[t]
  BY DEF Close
<1>2. CASE Usable(sock)
  <2>1. PICK s \in Sockets : s = sock /\ phase[s] \in InUse /\ connecting = NoSocket
    BY <1>2 DEF Usable, InUse, ConnectionInv, ConnectionTypeOK, OneSocket
  <2>2. lost[s] = 0 /\ shut' = shut \cup {s}
    BY <1>1, <1>2, <2>1 DEF Shutting, ConnectionInv, Reported
  <2>3. Fate(s) = "open" /\ Fate(s)' = "shut"
    BY <1>1, <2>1, <2>2, Mapping DEF Told, InUse, ConnectionInv, Reported
  <2>4. \A t \in Sockets : t # s => Fate(t)' = Fate(t)
    BY <1>1, <2>1, <2>2, Mapping DEF Told, InUse
  <2>5. \A q \in Calls : at'[q] = IF q \in WaitingOn(s) THEN "failed" ELSE at[q]
    BY <2>1 DEF Close, Fail
  <2>6. \A q \in Calls : q \in WaitingOn(s) <=> SentTo(q) = s
    BY <2>1, WaitingAreSent DEF SentTo
  <2>7. \A q \in Calls : /\ Stage(q)' = IF q \in WaitingOn(s) THEN "failed" ELSE Stage(q)
                         /\ SentTo(q)' = IF q \in WaitingOn(s) THEN NoSocket ELSE SentTo(q)
    BY <1>1, <2>5, <2>6, Mapping DEF Seen, SentTo
  <2>8. Promise!SentOn(s) = {q \in Calls : q \in WaitingOn(s)}
    BY <2>6 DEF Promise!SentOn
  <2>9. Promise!Shut(s)
    <3>1. {} \in SUBSET {r \in Calls : [q \in Calls |-> Stage(q)][r] = "asked"}
      OBVIOUS
    <3>2. Promise!SentOn(s) \cup {} = {q \in Calls : q \in WaitingOn(s)}
      BY <2>8
    <3>3. Promise!FailAll(Promise!SentOn(s) \cup {})
      BY <2>7, <3>2 DEF Promise!FailAll
    <3>4. Promise!IsOpen(s)
      BY <2>3 DEF Promise!IsOpen
    <3>5. [t \in Sockets |-> Fate(t)]' = [[t \in Sockets |-> Fate(t)] EXCEPT ![s] = "shut"]
      BY <2>3, <2>4
    <3> QED BY <3>1, <3>3, <3>4, <3>5 DEF Promise!Shut
  <2> QED BY <2>9 DEF Promise!ChannelNext
<1>3. CASE ~Usable(sock)
  <2> DEFINE S == {r \in Calls : connecting # NoSocket /\ r \in Awaiting(connecting)}
  <2>1. \A r \in Calls : sock # NoSocket => r \notin WaitingOn(sock)
    BY <1>3, WaitingAreSent DEF ConnectionInv, ConnectionTypeOK
  <2>2. Fail(S)
    BY <2>1 DEF Close, Fail
  <2>3. \A r \in S : at[r] = "asked"
    BY DEF Awaiting
  <2>4. \A t \in Sockets : Fate(t)' = Fate(t)
    <3>1. shut' = shut
      BY <1>1, <1>3 DEF Shutting
    <3>2. \A t \in Sockets : t = connecting => phase[t] = "connecting"
      BY DEF ConnectionInv, OneSocket
    <3>3. \A t \in Sockets : t = sock => phase[t] = "destroyed"
      BY <1>3 DEF Usable, InUse, ConnectionInv, OneSocket
    <3> QED BY <1>1, <3>1, <3>2, <3>3, Mapping DEF Told, InUse
  <2> HIDE DEF S
  <2>5. S \in SUBSET Calls
    BY DEF S
  <2> QED BY <1>1, <2>2, <2>3, <2>4, <2>5, RefusesRefine
<1> QED BY <1>2, <1>3

\* The helper's own steps are not seen.
LEMMA HelperRefines ==
  ASSUME ConnectionInv, ConnectionInv', NEW s \in Sockets, HelperAnswers(s) \/ HelperEnds(s)
  PROVE  UNCHANGED Promise!channel
<1>1. /\ UNCHANGED <<at, on, reply, lost, shut>>
      /\ \A t \in Sockets : phase'[t] = phase[t] \/ (phase[t] = "open" /\ phase'[t] = "ended")
  BY DEF HelperAnswers, HelperEnds, ConnectionInv, ConnectionTypeOK
<1>2. \A q \in Calls : Stage(q)' = Stage(q) /\ SentTo(q)' = SentTo(q)
  BY <1>1 DEF Stage, SentTo
<1>3. \A t \in Sockets : Fate(t)' = Fate(t)
  BY <1>1, Mapping DEF Told, InUse
<1> QED BY <1>2, <1>3 DEF Promise!channel

\* The connection implements the channel its callers are promised: every step of it is
\* one of the channel's, or not seen.
THEOREM ChannelRefinement == ConnectionSpec => ImplementsChannel
<1>1. ConnectionInit => Promise!ChannelInit
  <2> SUFFICES ASSUME ConnectionInit PROVE Promise!ChannelInit
    OBVIOUS
  <2>1. \A q \in Calls : Stage(q) = "idle" /\ SentTo(q) = NoSocket
    BY DEF ConnectionInit, Stage, SentTo
  <2>2. \A s \in Sockets : Fate(s) = "new"
    BY DEF ConnectionInit, Fate
  <2> QED BY <2>1, <2>2 DEF Promise!ChannelInit
<1>2. ConnectionInv /\ ConnectionInv' /\ [ConnectionNext]_connection
        => [Promise!ChannelNext]_Promise!channel
  <2> SUFFICES ASSUME ConnectionInv, ConnectionInv', [ConnectionNext]_connection
               PROVE  Promise!ChannelNext \/ UNCHANGED Promise!channel
    OBVIOUS
  <2>1. CASE \E r \in Calls : Request(r)
    BY <2>1, RequestRefines
  <2>2. ASSUME NEW s \in Sockets,
               \/ Attempt(s) \/ Deliver(s) \/ Malformed(s) \/ Closed(s)
               \/ HelperAnswers(s) \/ HelperEnds(s)
        PROVE  Promise!ChannelNext \/ UNCHANGED Promise!channel
    BY <2>2, ConnectedRefines, AttemptFailsRefines, DeliverRefines, MalformedRefines,
       ClosedRefines, HelperRefines DEF Attempt
  <2>3. CASE Close
    BY <2>3, CloseRefines
  <2>4. CASE UNCHANGED connection
    <3>1. UNCHANGED <<at, on, reply, lost, shut, phase, sock>>
      BY <2>4 DEF connection
    <3>2. \A q \in Calls : Stage(q)' = Stage(q) /\ SentTo(q)' = SentTo(q)
      BY <3>1 DEF Stage, SentTo
    <3>3. \A t \in Sockets : Fate(t)' = Fate(t)
      BY <3>1, Mapping DEF Told
    <3> QED BY <3>2, <3>3 DEF Promise!channel
  <2> QED BY <2>1, <2>2, <2>3, <2>4 DEF ConnectionNext
<1> QED BY <1>1, <1>2, ConnectionInvariance, PTL
        DEF ConnectionSpec, ImplementsChannel, Promise!ChannelSpec

=============================================================================
