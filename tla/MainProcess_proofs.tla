------------------------- MODULE MainProcess_proofs -------------------------
(***************************************************************************)
(* Proofs about the two state machines of the client's main process.       *)
(*                                                                         *)
(* The lifecycle, for any set of users, any number of epochs and a lane of *)
(* any length.  The invariant says what the fencing by epochs relies on:   *)
(* no lease is of the future; while a flow brings a session up every       *)
(* ticket and every monitor is of the past; and while a tunnel is up no    *)
(* ticket waits that would end its session.                                *)
(*                                                                         *)
(* The controller, for any number of sockets and of generations.  Two      *)
(* callers share its channel, and each continuation reads the controller   *)
(* as the other left it.  The invariant says what a continuation may rely  *)
(* on: an answer is acted on before its socket can end; only a call that   *)
(* its caller still awaits is under way; and at every await of an          *)
(* operation the ownership is what that operation left, or was lost to a   *)
(* failure that also failed the call it waits for.                         *)
(***************************************************************************)
EXTENDS ManagedLifecycle, TunnelController, TLAPS

-----------------------------------------------------------------------------
(* The lifecycle.                                                          *)

Tickets == {lane[i] : i \in DOMAIN lane}

Types ==
  /\ lane \in Seq(Ticket) /\ epoch \in Nat /\ cred \in Creds \cup {NoCred}
  /\ lease \in Lease \cup {NoLease} /\ active \in Lease \cup {NoLease}
  /\ issued \subseteq Lease /\ told \in BOOLEAN

\* What a callback or an end of a session is queued with.
Labelled == \A t \in Tickets : t.kind \notin UserOps \cup {"poll"} => t.lease \in Lease

\* No lease is of the future.
Known ==
  /\ \A t \in Tickets : t.lease \in Lease => t.lease.epoch <= epoch
  /\ \A l \in issued : l.epoch <= epoch
  /\ active \in Lease => active.epoch <= epoch

\* Whatever waits or may still call belongs to an earlier session.
Past ==
  /\ \A t \in Tickets : t.lease \in Lease => t.lease.epoch < epoch
  /\ \A l \in issued : l.epoch < epoch

Flowing == lane # <<>> /\ Head(lane).kind \in {"connect", "recover"}

Turning ==
  at # "queued" =>
    /\ lane # <<>>
    /\ at \in {"prove", "down"} /\ Flowing => lease \in Lease /\ lease.cred = cred
    /\ at = "up" => /\ Past
                    /\ Flowing => lease \in Lease /\ IsCurrent(lease) /\ active = lease
                    /\ Head(lane).kind = "import" => active = NoLease
    /\ at = "effect" => Mine \in Lease /\ IsCurrent(Mine)

\* A tunnel that is up is an imported one, or the current session's, which nothing that
\* waits will end.
Upheld ==
  ctl = "up" =>
    /\ ~told /\ at \notin {"down", "up", "store"}
    /\ \/ live = Imported /\ active = NoLease /\ Past
       \/ /\ live \in Lease /\ IsCurrent(live) /\ active = live
          /\ live \in issued => monitors = live
          /\ \A t \in Tickets : t.kind \in {"failed", "recover"} => ~IsCurrent(t.lease)

IInv == Types /\ Labelled /\ Known /\ Turning /\ Upheld /\ UnlabelledIsImported

-----------------------------------------------------------------------------
(* The lane.                                                               *)

LEMMA HeadIn ==
  ASSUME lane \in Seq(Ticket), lane # <<>>
  PROVE  Head(lane) \in Tickets /\ Head(lane) \in Ticket
<1>1. 1 \in DOMAIN lane /\ Head(lane) = lane[1]
  OBVIOUS
<1> QED BY <1>1 DEF Tickets

\* A turn ends: its ticket goes, news come.
LEMMA Shortened ==
  ASSUME lane \in Seq(Ticket), lane # <<>>, NEW news \in Seq(Ticket), lane' = Tail(lane) \o news
  PROVE  /\ lane' \in Seq(Ticket)
         /\ \A t \in Tickets' : t \in Tickets \/ \E i \in DOMAIN news : t = news[i]
<1>1. Tail(lane) \in Seq(Ticket) /\ lane' \in Seq(Ticket)
  OBVIOUS
<1>2. ASSUME NEW i \in DOMAIN lane'
      PROVE  lane'[i] \in Tickets \/ \E j \in DOMAIN news : lane'[i] = news[j]
  <2>1. CASE i <= Len(Tail(lane))
    <3>1. lane'[i] = lane[i + 1] /\ i + 1 \in DOMAIN lane
      BY <1>1, <2>1
    <3> QED BY <3>1 DEF Tickets
  <2>2. CASE i > Len(Tail(lane))
    <3>1. lane'[i] = news[i - Len(Tail(lane))] /\ i - Len(Tail(lane)) \in DOMAIN news
      BY <1>1, <2>2
    <3> QED BY <3>1
  <2>3. i \in Nat /\ Len(Tail(lane)) \in Nat
    BY <1>1
  <2> QED BY <2>1, <2>2, <2>3
<1> QED BY <1>1, <1>2 DEF Tickets

\* Tickets are queued behind what waits; the running one stays the head.
LEMMA Lengthened ==
  ASSUME lane \in Seq(Ticket), NEW news \in Seq(Ticket), lane' = lane \o news
  PROVE  /\ lane' \in Seq(Ticket)
         /\ \A t \in Tickets' : t \in Tickets \/ \E i \in DOMAIN news : t = news[i]
         /\ lane # <<>> => lane' # <<>> /\ Head(lane') = Head(lane)
<1>1. lane' \in Seq(Ticket)
  OBVIOUS
<1>2. ASSUME NEW i \in DOMAIN lane'
      PROVE  lane'[i] \in Tickets \/ \E j \in DOMAIN news : lane'[i] = news[j]
  <2>1. CASE i <= Len(lane)
    <3>1. lane'[i] = lane[i] /\ i \in DOMAIN lane
      BY <2>1
    <3> QED BY <3>1 DEF Tickets
  <2>2. CASE i > Len(lane)
    <3>1. lane'[i] = news[i - Len(lane)] /\ i - Len(lane) \in DOMAIN news
      BY <2>2
    <3> QED BY <3>1
  <2>3. i \in Nat /\ Len(lane) \in Nat
    OBVIOUS
  <2> QED BY <2>1, <2>2, <2>3
<1>3. lane # <<>> => lane' # <<>> /\ Head(lane') = Head(lane)
  OBVIOUS
<1> QED BY <1>1, <1>2, <1>3 DEF Tickets

\* What an action itself queues: the end of the session that is labelled.
Ending(news) ==
  \/ news = <<>>
  \/ active \in Lease /\ \E k \in {"failed", "recover"} : news = <<Note(k, active)>>

LEMMA EndingShape ==
  ASSUME NEW news, Ending(news)
  PROVE  /\ news \in Seq(Ticket)
         /\ \A i \in DOMAIN news : /\ active \in Lease /\ news[i].lease = active
                                   /\ news[i].kind \in {"failed", "recover"}
<1>1. CASE news = <<>>
  BY <1>1
<1>2. CASE active \in Lease /\ \E k \in {"failed", "recover"} : news = <<Note(k, active)>>
  <2>1. PICK k \in {"failed", "recover"} : news = <<Note(k, active)>>
    BY <1>2
  <2>2. Note(k, active) \in Ticket
    BY <1>2 DEF Note, Ticket, Kinds
  <2> QED BY <1>2, <2>1, <2>2 DEF Note
<1> QED BY <1>1, <1>2 DEF Ending

LEMMA QueuedEnding == ASSUME Types PROVE Ending(Queued)
  BY DEF Types, Queued, Ending

-----------------------------------------------------------------------------
(* The shapes of a step.                                                   *)

\* A turn ends with no tunnel up; the epoch may have moved.
LEMMA EndsDown ==
  ASSUME IInv, lane # <<>>, NEW news, Ending(news), Finish(news),
         ctl' # "up", epoch' \in {epoch, epoch + 1}, cred' \in Creds \cup {NoCred},
         told' \in BOOLEAN, active' \in {active, NoLease},
         issued' = issued \/ (lease \in Lease /\ lease.epoch <= epoch /\ issued' = issued \cup {lease}),
         UnlabelledIsImported'
  PROVE  IInv'
<1>1. /\ lane' \in Seq(Ticket)
      /\ \A t \in Tickets' : t \in Tickets \/ \E i \in DOMAIN news : t = news[i]
  BY EndingShape, Shortened DEF IInv, Types, Finish
<1>2. at' = "queued" /\ lease' = NoLease
  BY DEF Finish
<1>3. Types'
  BY <1>1, <1>2 DEF IInv, Types
<1>4. Labelled'
  BY <1>1, EndingShape DEF IInv, Labelled
<1>5. epoch' \in Nat /\ epoch <= epoch' /\ epoch \in Nat
  BY DEF IInv, Types
<1>6. \A l \in Lease : l.epoch <= epoch => l.epoch <= epoch'
  BY <1>5 DEF Lease
<1>7. Known'
  <2>1. ASSUME NEW t \in Tickets', t.lease \in Lease
        PROVE  t.lease.epoch <= epoch'
    BY <1>1, <1>6, <2>1, EndingShape DEF IInv, Known
  <2>2. \A l \in issued' : l.epoch <= epoch'
    BY <1>6 DEF IInv, Known, Types
  <2>3. active' \in Lease => active'.epoch <= epoch'
    BY <1>6, LifecycleAssumption DEF IInv, Known, Types
  <2> QED BY <2>1, <2>2, <2>3 DEF Known
<1>8. Turning' /\ Upheld'
  BY <1>2 DEF Turning, Upheld
<1> QED BY <1>3, <1>4, <1>7, <1>8 DEF IInv

\* A turn ends and leaves the session as it was.
LEMMA EndsAsItWas ==
  ASSUME IInv, lane # <<>>, Finish(<<>>),
         UNCHANGED <<epoch, cred, active, issued, monitors, controller>>
  PROVE  IInv'
<1>1. Ending(<<>>)
  BY DEF Ending
<1>2. lane' \in Seq(Ticket) /\ \A t \in Tickets' : t \in Tickets
  BY <1>1, EndingShape, Shortened DEF IInv, Types, Finish
<1>3. at' = "queued" /\ lease' = NoLease /\ UNCHANGED <<ctl, live, told>>
  BY DEF Finish, controller
<1>4. Types' /\ Labelled' /\ Known' /\ Turning' /\ UnlabelledIsImported'
  BY <1>2, <1>3 DEF IInv, Types, Labelled, Known, Turning, UnlabelledIsImported
<1>5. Past => Past'
  BY <1>2 DEF Past
<1>6. Upheld'
  BY <1>2, <1>3, <1>5 DEF IInv, Upheld, IsCurrent
<1> QED BY <1>4, <1>6 DEF IInv

\* The running ticket goes on to another await.
LEMMA Goes ==
  ASSUME IInv, lane # <<>>, lane' = lane,
         epoch' \in {epoch, epoch + 1}, UNCHANGED <<cred, issued>>, told' \in BOOLEAN,
         active' \in Lease \cup {NoLease}, active' \in Lease /\ active' # active => active'.epoch <= epoch',
         lease' \in Lease \cup {NoLease},
         Turning', Upheld', UnlabelledIsImported'
  PROVE  IInv'
<1>1. epoch' \in Nat /\ epoch <= epoch' /\ epoch \in Nat
  BY DEF IInv, Types
<1>2. \A l \in Lease : l.epoch <= epoch => l.epoch <= epoch'
  BY <1>1 DEF Lease
<1>3. Types'
  BY <1>1 DEF IInv, Types
<1>4. Tickets' = Tickets
  BY DEF Tickets
<1>5. Labelled'
  BY <1>4 DEF IInv, Labelled
<1>6. Known'
  BY <1>2, <1>4 DEF IInv, Known, Types
<1> QED BY <1>3, <1>5, <1>6 DEF IInv

\* Once the epoch moves, all that waits and may call is of the past.
LEMMA Moved ==
  ASSUME IInv, lane' = lane, issued' = issued, epoch' = epoch + 1
  PROVE  Past'
<1>1. \A l \in Lease : l.epoch <= epoch => l.epoch < epoch'
  BY DEF IInv, Types, Lease
<1>2. Tickets' = Tickets
  BY DEF Tickets
<1> QED BY <1>1, <1>2 DEF IInv, Known, Types, Past

\* Something is queued from outside a turn.
LEMMA Queues ==
  ASSUME IInv, NEW news \in Seq(Ticket), lane' = lane \o news,
         UNCHANGED <<at, lease, epoch, cred, active, issued>>, told' \in BOOLEAN,
         \A i \in DOMAIN news :
           /\ news[i].kind \notin UserOps \cup {"poll"} => news[i].lease \in Lease
           /\ news[i].lease \in Lease => news[i].lease \in issued \/ (ctl = "up" /\ news[i].lease = active),
         ctl' = "up" => /\ UNCHANGED <<monitors, controller>>
                        /\ \A i \in DOMAIN news : news[i].kind \notin {"failed", "recover"},
         UnlabelledIsImported'
  PROVE  IInv'
<1>1. /\ lane' \in Seq(Ticket)
      /\ \A t \in Tickets' : t \in Tickets \/ \E i \in DOMAIN news : t = news[i]
      /\ lane # <<>> => lane' # <<>> /\ Head(lane') = Head(lane)
  BY Lengthened DEF IInv, Types
<1>2. Types'
  BY <1>1 DEF IInv, Types
<1>3. Labelled'
  BY <1>1 DEF IInv, Labelled
<1>4. Known'
  <2>1. ASSUME NEW t \in Tickets', t.lease \in Lease
        PROVE  t.lease.epoch <= epoch
    BY <1>1, <2>1 DEF IInv, Known
  <2> QED BY <2>1 DEF IInv, Known
<1>5. ASSUME Past, ctl # "up" \/ active = NoLease
      PROVE  Past'
  <2>1. NoLease \notin Lease
    BY LifecycleAssumption
  <2>2. ASSUME NEW t \in Tickets', t.lease \in Lease
        PROVE  t.lease.epoch < epoch
    BY <1>1, <1>5, <2>1, <2>2 DEF Past
  <2> QED BY <1>5, <2>2 DEF Past
<1>6. Turning'
  <2> SUFFICES ASSUME at # "queued" PROVE Turning'
    BY DEF Turning
  <2>1. lane # <<>> /\ lane' # <<>> /\ Head(lane') = Head(lane)
    BY <1>1 DEF IInv, Turning
  <2>2. at = "up" => ctl # "up"
    BY DEF IInv, Upheld
  <2>3. at = "up" => Past'
    BY <1>5, <2>2 DEF IInv, Turning
  <2>4. Mine' = Mine /\ (Flowing' <=> Flowing) /\ \A l : IsCurrent(l)' <=> IsCurrent(l)
    BY <2>1 DEF Mine, Flowing, IsCurrent
  <2> QED BY <2>1, <2>3, <2>4 DEF IInv, Turning, IsCurrent
<1>7. Upheld'
  <2> SUFFICES ASSUME ctl' = "up" PROVE Upheld'
    BY DEF Upheld
  <2>1. UNCHANGED <<monitors, ctl, live, told, at, active, epoch, cred>>
    BY DEF controller
  <2>2. live = Imported /\ active = NoLease /\ Past => Past'
    BY <1>5
  <2>3. \A t \in Tickets' : t.kind \in {"failed", "recover"} => t \in Tickets
    BY <1>1
  <2> QED BY <2>1, <2>2, <2>3 DEF IInv, Upheld, IsCurrent
<1> QED BY <1>2, <1>3, <1>4, <1>6, <1>7 DEF IInv

-----------------------------------------------------------------------------
(* Turns that end.                                                         *)

LEMMA Turns ==
  ASSUME IInv, NEW k, NEW point, Turn(k, point)
  PROVE  /\ lane # <<>> /\ Head(lane) \in Tickets /\ Head(lane) \in Ticket
         /\ Head(lane).kind = k /\ at = point
  BY HeadIn DEF Turn, IInv, Types

LEMMA ControllerTypes ==
  ASSUME Types
  PROVE  /\ DownBegins => told' \in BOOLEAN
         /\ DownConfirmed => told' \in BOOLEAN
         /\ \A o : UpAmbiguous(o) => told' \in BOOLEAN
         /\ UNCHANGED controller => told' \in BOOLEAN
  BY DEF Types, DownBegins, DownConfirmed, UpAmbiguous, controller

\* down() leaves no tunnel up, and none to label if it is confirmed.
LEMMA DownLeaves ==
  ASSUME IInv
  PROVE  /\ DownConfirmed => ctl' # "up" /\ UnlabelledIsImported'
         /\ DownBegins => ctl' # "up" /\ (active' = active => UnlabelledIsImported')
  BY DEF DownConfirmed, DownBegins, UnlabelledIsImported, IInv, Upheld

LEMMA DownRefusedStep == ASSUME IInv, NEW k, DownRefused(k) PROVE IInv'
<1>1. lane # <<>> /\ at = "down"
  BY Turns DEF DownRefused
<1>2. Finish(Queued) /\ Ending(Queued)
  BY QueuedEnding DEF DownRefused, IInv
<1>3. UNCHANGED <<epoch, cred, active, issued, ctl, live>> /\ told' = TRUE
  BY DEF DownRefused
<1>4. ctl' # "up" /\ UnlabelledIsImported'
  BY <1>1, <1>3 DEF IInv, Upheld, UnlabelledIsImported
<1> QED BY <1>1, <1>2, <1>3, <1>4, EndsDown DEF IInv, Types

LEMMA Nothing == Ending(<<>>)
  BY DEF Ending

\* The turns that change neither the session nor the controller.
LEMMA QuietEnds ==
  ASSUME IInv,
         \/ \E k \in {"connect", "recover", "remove"} : ProofFails(k)
         \/ \E k \in {"connect", "recover"} : ConnectFails(k)
         \/ LoginRefused \/ Removed \/ BeatServed \/ Gone
         \/ \E k \in {"effect", "beat", "gone", "failed", "revoked"} : Discard(k)
  PROVE  IInv'
<1>1. CASE \E k \in {"connect", "recover", "remove"} : ProofFails(k)
  BY <1>1, Turns, EndsAsItWas DEF ProofFails, main
<1>2. CASE \E k \in {"connect", "recover"} : ConnectFails(k)
  BY <1>2, Turns, EndsAsItWas DEF ConnectFails, main
<1>3. CASE LoginRefused \/ Removed
  BY <1>3, Turns, EndsAsItWas DEF LoginRefused, Removed, main
<1>4. CASE BeatServed \/ Gone
  BY <1>4, Turns, EndsAsItWas DEF BeatServed, Gone
<1>5. CASE \E k \in {"effect", "beat", "gone", "failed", "revoked"} : Discard(k)
  BY <1>5, Turns, EndsAsItWas DEF Discard, main
<1> QED BY <1>1, <1>2, <1>3, <1>4, <1>5

\* The credential changes only with no tunnel up.
LEMMA StoredStep == ASSUME IInv, LoginStored \/ LogoutStored PROVE IInv'
<1>1. lane # <<>> /\ at = "store" /\ Finish(<<>>)
  BY Turns DEF LoginStored, LogoutStored
<1>2. cred' \in Creds \cup {NoCred} /\ UNCHANGED <<epoch, active, issued, ctl, live, told>>
  BY DEF LoginStored, LogoutStored, main, controller, IInv, Types
<1>3. ctl' # "up" /\ UnlabelledIsImported'
  BY <1>1, <1>2 DEF IInv, Upheld, UnlabelledIsImported
<1> QED BY <1>1, <1>2, <1>3, EndsDown, Nothing DEF IInv, Types

\* A current ticket that ends a session finds no tunnel up.
LEMMA NoneEnded ==
  ASSUME IInv, NEW k \in {"failed", "recover"}, Turn(k, "queued"), IsCurrent(Mine)
  PROVE  ctl # "up"
<1>1. Head(lane) \in Tickets /\ Head(lane).kind = k
  BY Turns
<1>2. Mine \in Lease
  BY <1>1 DEF IInv, Labelled, Mine, UserOps
<1>3. ~Past
  BY <1>1, <1>2 DEF Past, Mine, IsCurrent, IInv, Types
<1> QED BY <1>1, <1>3 DEF IInv, Upheld, Mine

LEMMA FailedStep == ASSUME IInv, Failed PROVE IInv'
<1>1. ctl # "up"
  BY NoneEnded DEF Failed
<1>2. lane # <<>> /\ Finish(<<>>) /\ epoch' = epoch + 1 /\ active' = active
  BY Turns DEF Failed, Invalidate, Tombstone
<1>3. UNCHANGED <<cred, issued, ctl, live, told>>
  BY DEF Failed, controller
<1>4. UnlabelledIsImported'
  BY <1>2, <1>3 DEF IInv, UnlabelledIsImported
<1> QED BY <1>1, <1>2, <1>3, <1>4, EndsDown, Nothing DEF IInv, Types

LEMMA DisconnectedStep == ASSUME IInv, Disconnected PROVE IInv'
<1>1. lane # <<>> /\ Finish(<<>>) /\ DownConfirmed
  BY Turns DEF Disconnected, SessionOver
<1>2. epoch' = epoch + 1 /\ active' = NoLease /\ UNCHANGED <<cred, issued>>
  BY DEF Disconnected, SessionOver, Invalidate
<1> QED BY <1>1, <1>2, DownLeaves, EndsDown, Nothing DEF IInv, Types, DownConfirmed

LEMMA ImportedUpStep == ASSUME IInv, ImportedUp PROVE IInv'
<1>1. lane # <<>> /\ at = "up" /\ Finish(<<>>) /\ Head(lane).kind = "import"
  BY Turns DEF ImportedUp
<1>2. UNCHANGED <<epoch, cred, active, issued>>
  BY DEF ImportedUp
<1>3. active = NoLease /\ Past /\ ctl # "up"
  BY <1>1 DEF IInv, Turning, Upheld
<1>4. CASE ctl' = "up" /\ live' = Imported /\ told' = FALSE
  <2>1. lane' \in Seq(Ticket) /\ \A t \in Tickets' : t \in Tickets
    BY <1>1, Nothing, EndingShape, Shortened DEF IInv, Types, Finish
  <2>2. at' = "queued" /\ lease' = NoLease
    BY <1>1 DEF Finish
  <2>3. Past'
    BY <1>2, <1>3, <2>1 DEF Past
  <2>4. Types' /\ Labelled' /\ Known' /\ Turning' /\ UnlabelledIsImported'
    BY <1>2, <1>4, <2>1, <2>2
       DEF IInv, Types, Labelled, Known, Turning, UnlabelledIsImported
  <2> QED BY <1>2, <1>3, <1>4, <2>2, <2>3, <2>4 DEF IInv, Upheld
<1>5. CASE UpAmbiguous(Imported)
  <2>1. ctl' # "up" /\ told' \in BOOLEAN /\ UnlabelledIsImported'
    BY <1>5 DEF UpAmbiguous, UnlabelledIsImported
  <2> QED BY <1>1, <1>2, <2>1, EndsDown, Nothing DEF IInv, Types
<1>6. CASE UNCHANGED controller
  <2>1. ctl' # "up" /\ told' \in BOOLEAN /\ UnlabelledIsImported'
    BY <1>2, <1>3, <1>6 DEF controller, UnlabelledIsImported, IInv, Types
  <2> QED BY <1>1, <1>2, <2>1, EndsDown, Nothing DEF IInv, Types
<1> QED BY <1>4, <1>5, <1>6 DEF ImportedUp

-----------------------------------------------------------------------------
(* Turns that go on to another await.                                      *)

LEMMA BeginStep ==
  ASSUME IInv, NEW k \in {"import", "disconnect", "login", "logout"}, Start(k)
  PROVE  IInv'
<1>1. lane # <<>> /\ Head(lane).kind = k /\ lane' = lane /\ at' = "down" /\ DownBegins
  BY Turns DEF Start, Await
<1>2. UNCHANGED <<lease, epoch, cred, active, issued>>
  BY DEF Start, main
<1>3. Turning' /\ Upheld'
  BY <1>1, <1>2, DownLeaves DEF Turning, Flowing, Upheld
<1> QED BY <1>1, <1>2, <1>3, DownLeaves, ControllerTypes, Goes DEF IInv, Types

LEMMA BeginProofStep ==
  ASSUME IInv, NEW k \in {"connect", "recover", "remove"}, BeginProof(k)
  PROVE  IInv'
<1>1. lane # <<>> /\ Turn(k, "queued") /\ lane' = lane /\ at' = "prove"
  BY Turns DEF BeginProof, Await
<1>2. UNCHANGED <<epoch, cred, active, issued, ctl, live, told>>
  BY DEF BeginProof, controller
<1>3. lease' \in Lease /\ lease'.cred = cred'
  BY <1>2 DEF BeginProof, Lease, IInv, Types
<1>4. Turning'
  BY <1>1, <1>3 DEF Turning
<1>5. UnlabelledIsImported'
  BY <1>2 DEF IInv, UnlabelledIsImported
<1>6. Tickets' = Tickets /\ (Past => Past')
  BY <1>1, <1>2 DEF Tickets, Past
<1>7. ctl = "up" => monitors' = monitors
  <2>1. CASE k = "recover"
    BY <2>1, NoneEnded DEF BeginProof
  <2>2. CASE k # "recover"
    BY <2>2 DEF BeginProof
  <2> QED BY <2>1, <2>2
<1>8. Upheld'
  BY <1>1, <1>2, <1>6, <1>7 DEF IInv, Upheld, IsCurrent
<1> QED BY <1>1, <1>2, <1>3, <1>4, <1>5, <1>8, Goes DEF IInv, Types

LEMMA ProvedStep == ASSUME IInv, NEW k, Proved(k) PROVE IInv'
<1>1. lane # <<>> /\ at = "prove" /\ lane' = lane /\ at' = "down" /\ DownBegins
  BY Turns DEF Proved, Await
<1>2. UNCHANGED <<lease, epoch, cred, active, issued>>
  BY DEF Proved, main
<1>3. Turning' /\ Upheld'
  BY <1>1, <1>2, DownLeaves DEF IInv, Turning, Flowing, Upheld
<1> QED BY <1>1, <1>2, <1>3, DownLeaves, ControllerTypes, Goes DEF IInv, Types

LEMMA QuiescedStep ==
  ASSUME IInv, NEW k, NEW next, Quiesced(k, next),
         \/ k = "import" /\ next = "up"
         \/ k \in {"login", "logout", "remove"} /\ next = "store"
  PROVE  IInv'
<1>1. lane # <<>> /\ Head(lane).kind = k /\ lane' = lane /\ at' = next
  BY Turns DEF Quiesced, Await
<1>2. DownConfirmed /\ epoch' = epoch + 1 /\ active' = NoLease
  BY DEF Quiesced, SessionOver, Invalidate
<1>3. UNCHANGED <<lease, cred, issued>>
  BY DEF Quiesced
<1>4. Past'
  BY <1>1, <1>2, <1>3, Moved
<1>5. Turning' /\ Upheld'
  BY <1>1, <1>2, <1>4, DownLeaves DEF Turning, Flowing, Upheld
<1> QED BY <1>1, <1>2, <1>3, <1>5, DownLeaves, ControllerTypes, Goes, LifecycleAssumption
        DEF IInv, Types

LEMMA ConnectQuiescedStep ==
  ASSUME IInv, NEW k \in {"connect", "recover"}, ConnectQuiesced(k)
  PROVE  IInv'
<1>1. lane # <<>> /\ Head(lane).kind = k /\ at = "down" /\ DownConfirmed
  BY Turns DEF ConnectQuiesced
<1>2. epoch' = epoch + 1 /\ UNCHANGED <<cred, issued>>
  BY DEF ConnectQuiesced
<1>3. ctl' # "up" /\ UnlabelledIsImported' /\ told' \in BOOLEAN
  BY <1>1, DownLeaves, ControllerTypes DEF IInv
<1>4. CASE Await("up") /\ lease' = Advanced /\ active' = Advanced
  <2>1. lane' = lane /\ at' = "up"
    BY <1>4 DEF Await
  <2>2. lease \in Lease /\ lease.cred = cred
    BY <1>1 DEF IInv, Turning, Flowing
  <2>3. Advanced \in Lease /\ Advanced.epoch = epoch' /\ Advanced.cred = cred
    BY <1>2, <2>2 DEF Advanced, Lease, IInv, Types
  <2>4. Past'
    BY <1>2, <2>1, Moved
  <2>5. epoch' <= epoch'
    BY <1>2 DEF IInv, Types
  <2>6. Turning' /\ Upheld'
    BY <1>1, <1>2, <1>3, <1>4, <2>1, <2>3, <2>4 DEF Turning, Flowing, IsCurrent, Upheld
  <2> QED BY <1>1, <1>2, <1>3, <1>4, <2>1, <2>3, <2>5, <2>6, Goes
<1>5. CASE Finish(<<>>) /\ UNCHANGED active
  BY <1>1, <1>2, <1>3, <1>5, EndsDown, Nothing DEF IInv, Types
<1> QED BY <1>4, <1>5 DEF ConnectQuiesced

-----------------------------------------------------------------------------
(* The ends of a connect.                                                  *)

LEMMA Bringing ==
  ASSUME IInv, NEW k \in {"connect", "recover"}, Turn(k, "up")
  PROVE  /\ lane # <<>> /\ lease \in Lease /\ IsCurrent(lease) /\ active = lease
         /\ Past /\ ctl # "up" /\ NoLease # active
<1>1. lane # <<>> /\ Head(lane).kind = k /\ at = "up"
  BY Turns
<1>2. lease \in Lease /\ IsCurrent(lease) /\ active = lease /\ Past
  BY <1>1 DEF IInv, Turning, Flowing
<1> QED BY <1>1, <1>2, LifecycleAssumption DEF IInv, Upheld

LEMMA ConnectAmbiguousStep ==
  ASSUME IInv, NEW k \in {"connect", "recover"}, ConnectAmbiguous(k)
  PROVE  IInv'
<1>1. lane # <<>> /\ active \in Lease /\ active # NoLease
  BY Bringing DEF ConnectAmbiguous
<1>2. UpAmbiguous(lease) /\ UNCHANGED <<epoch, cred, active, issued>>
  BY DEF ConnectAmbiguous, main
<1>3. ctl' # "up" /\ told' \in BOOLEAN /\ UnlabelledIsImported'
  BY <1>1, <1>2 DEF UpAmbiguous, UnlabelledIsImported
<1>4. PICK n \in {"failed", "recover"} : Finish(<<Note(n, active)>>)
  BY DEF ConnectAmbiguous
<1>5. Ending(<<Note(n, active)>>)
  BY <1>1 DEF Ending
<1> QED BY <1>1, <1>2, <1>3, <1>4, <1>5, EndsDown DEF IInv, Types

LEMMA ConnectRevokedStep ==
  ASSUME IInv, NEW k \in {"connect", "recover"}, ConnectRevoked(k)
  PROVE  IInv'
<1>1. lane # <<>> /\ ctl # "up" /\ Finish(<<>>)
  BY Bringing DEF ConnectRevoked
<1>2. epoch' = epoch + 1 /\ UNCHANGED <<cred, active, issued, ctl, live, told>>
  BY DEF ConnectRevoked, Invalidate, controller
<1>3. ctl' # "up" /\ UnlabelledIsImported'
  BY <1>1, <1>2 DEF IInv, UnlabelledIsImported
<1> QED BY <1>1, <1>2, <1>3, EndsDown, Nothing DEF IInv, Types

LEMMA ConnectPendingStep ==
  ASSUME IInv, NEW k \in {"connect", "recover"}, ConnectPending(k)
  PROVE  IInv'
<1>1. lane # <<>> /\ ctl # "up" /\ Finish(<<>>) /\ lease \in Lease /\ lease.epoch <= epoch
  BY Bringing DEF ConnectPending, IsCurrent, IInv, Types
<1>2. /\ issued' = issued \cup {lease}
      /\ UNCHANGED <<epoch, cred, active, ctl, live, told>>
  BY DEF ConnectPending, controller
<1>3. ctl' # "up" /\ UnlabelledIsImported'
  BY <1>1, <1>2 DEF IInv, UnlabelledIsImported
<1> QED BY <1>1, <1>2, <1>3, EndsDown, Nothing DEF IInv, Types

\* All that waits is of the past: nothing will end the session that comes up.
LEMMA ConnectUpStep ==
  ASSUME IInv, NEW k \in {"connect", "recover"}, ConnectUp(k) \/ ConnectUnread(k)
  PROVE  IInv'
<1>1. /\ lane # <<>> /\ lease \in Lease /\ IsCurrent(lease) /\ active = lease
      /\ Past /\ ctl # "up" /\ NoLease # active
  BY Bringing DEF ConnectUp, ConnectUnread
<1>2. /\ at' = "queued" /\ lease' = NoLease
      /\ lane' \in Seq(Ticket) /\ \A t \in Tickets' : t \in Tickets
  <2>1. Finish(<<>>)
    BY DEF ConnectUp, ConnectUnread
  <2> QED BY <1>1, <2>1, Nothing, EndingShape, Shortened DEF Finish, IInv, Types
<1>3. /\ ctl' = "up" /\ live' = lease /\ told' = FALSE
      /\ active' = lease /\ UNCHANGED <<epoch, cred>>
      /\ \/ monitors' = lease /\ issued' = issued \cup {lease}
         \/ issued' = issued
  BY DEF ConnectUp, ConnectUnread
<1>4. Types' /\ Labelled' /\ Turning'
  BY <1>1, <1>2, <1>3 DEF IInv, Types, Labelled, Turning
<1>5. Known'
  BY <1>1, <1>2, <1>3 DEF IInv, Types, Known, IsCurrent
<1>6. UnlabelledIsImported'
  BY <1>1, <1>3 DEF UnlabelledIsImported
<1>7. ASSUME NEW t \in Tickets', t.kind \in {"failed", "recover"}
      PROVE  ~(t.lease.epoch = epoch' /\ t.lease.cred = cred')
  <2>1. t \in Tickets
    BY <1>2
  <2>2. t.lease \in Lease
    BY <1>7, <2>1 DEF IInv, Labelled, UserOps
  <2> QED BY <1>1, <1>3, <2>1, <2>2 DEF Past, IInv, Types, Lease
<1>8. live' \in issued' => monitors' = live'
  BY <1>1, <1>3 DEF Past, IsCurrent, IInv, Types, Lease
<1>9. Upheld'
  BY <1>1, <1>2, <1>3, <1>7, <1>8 DEF Upheld, IsCurrent
<1> QED BY <1>4, <1>5, <1>6, <1>9 DEF IInv

-----------------------------------------------------------------------------
(* The callbacks and the renderer's poll.                                  *)

LEMMA EffectStep == ASSUME IInv, Effect PROVE IInv'
<1>1. CASE /\ Turn("effect", "queued") /\ IsCurrent(Mine)
           /\ Await("effect")
           /\ UNCHANGED <<lease, epoch, cred, main, controller>>
  <2>1. lane # <<>> /\ lane' = lane /\ at' = "effect" /\ Head(lane) \in Tickets
        /\ Head(lane).kind = "effect"
    BY <1>1, Turns DEF Await
  <2>2. UNCHANGED <<lease, epoch, cred, active, monitors, issued, ctl, live, told>>
    BY <1>1 DEF main, controller
  <2>3. Mine \in Lease
    BY <2>1 DEF IInv, Labelled, Mine, UserOps
  <2>4. Turning'
    BY <1>1, <2>1, <2>2, <2>3 DEF Turning, Mine, IsCurrent
  <2>5. Tickets' = Tickets /\ (Past => Past')
    BY <2>1, <2>2 DEF Tickets, Past
  <2>6. Upheld' /\ UnlabelledIsImported'
    BY <2>1, <2>2, <2>5 DEF IInv, Upheld, IsCurrent, UnlabelledIsImported
  <2> QED BY <2>1, <2>2, <2>4, <2>6, Goes DEF IInv, Types
<1>2. CASE Turn("effect", "effect") /\ Finish(<<>>) /\ UNCHANGED <<epoch, cred, main, controller>>
  BY <1>2, Turns, EndsAsItWas DEF main
<1> QED BY <1>1, <1>2 DEF Effect

LEMMA RevokedStep == ASSUME IInv, Revoked PROVE IInv'
<1>1. CASE /\ Turn("revoked", "queued") /\ IsCurrent(Mine)
           /\ Invalidate /\ active' = Tombstone
           /\ StopMonitors /\ DownBegins /\ Await("down")
           /\ UNCHANGED <<lease, cred, issued, shown>>
  <2>1. /\ lane # <<>> /\ Head(lane).kind = "revoked" /\ lane' = lane /\ at' = "down"
        /\ epoch' = epoch + 1 /\ active' = active
    BY <1>1, Turns DEF Await, Invalidate, Tombstone
  <2>2. Turning' /\ Upheld'
    BY <1>1, <2>1, DownLeaves DEF Turning, Flowing, Upheld
  <2> QED BY <1>1, <2>1, <2>2, DownLeaves, ControllerTypes, Goes DEF IInv, Types
<1>2. CASE /\ Turn("revoked", "down")
           /\ DownConfirmed /\ shown' = "revoked" /\ Finish(<<>>)
           /\ UNCHANGED <<epoch, cred, active, monitors, issued>>
  BY <1>2, Turns, DownLeaves, ControllerTypes, EndsDown, Nothing DEF IInv, Types
<1>3. CASE /\ Turn("revoked", "down") /\ ctl # "inactive"
           /\ told' = TRUE /\ shown' = "failed" /\ Finish(Queued)
           /\ UNCHANGED <<epoch, cred, active, monitors, issued, ctl, live>>
  <2>1. lane # <<>> /\ ctl # "up" /\ Ending(Queued)
    BY <1>3, Turns, QueuedEnding DEF IInv, Upheld
  <2>2. UnlabelledIsImported'
    BY <1>3 DEF IInv, UnlabelledIsImported
  <2> QED BY <1>3, <2>1, <2>2, EndsDown DEF IInv, Types
<1> QED BY <1>1, <1>2, <1>3 DEF Revoked

LEMMA PollStep == ASSUME IInv, Poll PROVE IInv'
<1>1. CASE /\ Turn("poll", "queued") /\ Await("poll")
           /\ UNCHANGED <<lease, epoch, cred, main, controller>>
  <2>1. lane # <<>> /\ lane' = lane /\ at' = "poll" /\ Head(lane).kind = "poll"
    BY <1>1, Turns DEF Await
  <2>2. UNCHANGED <<lease, epoch, cred, active, monitors, issued, ctl, live, told>>
    BY <1>1 DEF main, controller
  <2>3. Tickets' = Tickets /\ (Past => Past')
    BY <2>1, <2>2 DEF Tickets, Past
  <2>4. Turning' /\ Upheld' /\ UnlabelledIsImported'
    BY <2>1, <2>2, <2>3 DEF IInv, Turning, Upheld, IsCurrent, UnlabelledIsImported
  <2> QED BY <2>1, <2>2, <2>4, Goes DEF IInv, Types
<1>2. CASE /\ Turn("poll", "queued") \/ Turn("poll", "poll")
           /\ Finish(<<>>) /\ UNCHANGED <<epoch, cred, main, controller>>
  BY <1>2, Turns, EndsAsItWas DEF main
<1>3. CASE /\ Turn("poll", "poll")
           /\ DownConfirmed /\ shown' = "down" /\ Finish(<<>>)
           /\ UNCHANGED <<epoch, cred, active, monitors, issued>>
  BY <1>3, Turns, DownLeaves, ControllerTypes, EndsDown, Nothing DEF IInv, Types
<1>4. CASE /\ Turn("poll", "poll")
           /\ IF ctl = "inactive" THEN ctl' = "cleanup-required" /\ live' = Adopted /\ told' = FALSE
                                  ELSE UNCHANGED controller
           /\ IF told THEN StopMonitors ELSE UNCHANGED monitors
           /\ Finish(<<>>) /\ UNCHANGED <<epoch, cred, active, issued>>
  <2>1. lane # <<>>
    BY <1>4, Turns
  <2>2. CASE ctl = "up"
    <3>1. UNCHANGED controller /\ ~told
      BY <1>4, <2>2 DEF IInv, Upheld
    <3> QED BY <1>4, <2>1, <3>1, EndsAsItWas
  <2>3. CASE ctl # "up"
    <3>1. ctl' # "up" /\ told' \in BOOLEAN /\ UnlabelledIsImported'
      BY <1>4, <2>3 DEF controller, UnlabelledIsImported, IInv, Types
    <3> QED BY <1>4, <2>1, <3>1, EndsDown, Nothing DEF IInv, Types
  <2> QED BY <2>2, <2>3
<1>5. CASE /\ Turn("poll", "poll")
           /\ ctl' = "cleanup-required" /\ UNCHANGED told
           /\ live' = (IF ctl = "inactive" THEN Adopted ELSE live)
           /\ Finish(<<>>) /\ UNCHANGED <<epoch, cred, active, issued>>
  <2>1. lane # <<>> /\ ctl' # "up" /\ UnlabelledIsImported'
    BY <1>5, Turns DEF UnlabelledIsImported, IInv
  <2> QED BY <1>5, <2>1, EndsDown, Nothing DEF IInv, Types
<1> QED BY <1>1, <1>2, <1>3, <1>4, <1>5 DEF Poll

-----------------------------------------------------------------------------
(* What queues tickets.                                                    *)

\* One ticket, or none: the shape every queueing has.
LEMMA OneTicket ==
  ASSUME NEW k \in Kinds, NEW l \in Lease \cup {NoLease}
  PROVE  /\ <<Note(k, l)>> \in Seq(Ticket)
         /\ \A i \in DOMAIN <<Note(k, l)>> :
              <<Note(k, l)>>[i].kind = k /\ <<Note(k, l)>>[i].lease = l
<1>1. Note(k, l) \in Ticket /\ Note(k, l).kind = k /\ Note(k, l).lease = l
  BY DEF Note, Ticket
<1> QED BY <1>1

LEMMA AppendIsConcat ==
  ASSUME lane \in Seq(Ticket), NEW t \in Ticket
  PROVE  Append(lane, t) = lane \o <<t>> /\ lane = lane \o <<>>
OBVIOUS

LEMMA AskedStep ==
  ASSUME IInv, NEW k \in UserOps \cup {"poll"}, Enqueue(Note(k, NoLease)), UNCHANGED <<main, controller>>
  PROVE  IInv'
<1> DEFINE news == <<Note(k, NoLease)>>
<1>1. k \in Kinds
  BY DEF Kinds
<1>2. /\ news \in Seq(Ticket)
      /\ \A i \in DOMAIN news : news[i].kind = k /\ news[i].lease = NoLease
  BY <1>1, OneTicket
<1>3. lane' = lane \o news /\ UNCHANGED <<at, lease, epoch, cred>>
  BY <1>1, AppendIsConcat DEF Enqueue, IInv, Types, Note, Ticket
<1>4. /\ UNCHANGED <<active, monitors, issued, controller>> /\ told' \in BOOLEAN
      /\ UnlabelledIsImported'
  BY DEF main, controller, UnlabelledIsImported, IInv, Types
<1>5. k \notin {"failed", "recover"}
  BY DEF UserOps
<1> HIDE DEF news
<1> QED BY <1>2, <1>3, <1>4, <1>5, Queues, LifecycleAssumption

LEMMA MonitorCallsStep ==
  ASSUME IInv, NEW k \in Callbacks, NEW l \in issued, MonitorCalls(k, l)
  PROVE  IInv'
<1> DEFINE news == <<Note(k, l)>>
<1>1. k \in Kinds /\ l \in Lease /\ k \notin {"failed", "recover"}
  BY DEF Kinds, Callbacks, IInv, Types
<1>2. /\ news \in Seq(Ticket)
      /\ \A i \in DOMAIN news : news[i].kind = k /\ news[i].lease = l
  BY <1>1, OneTicket
<1>3. lane' = lane \o news /\ UNCHANGED <<at, lease, epoch, cred>>
  BY <1>1, AppendIsConcat DEF MonitorCalls, Enqueue, IInv, Types, Note, Ticket
<1>4. /\ UNCHANGED <<active, monitors, issued, controller>> /\ told' \in BOOLEAN
      /\ UnlabelledIsImported'
  BY DEF MonitorCalls, main, controller, UnlabelledIsImported, IInv, Types
<1> HIDE DEF news
<1> QED BY <1>1, <1>2, <1>3, <1>4, Queues

LEMMA HeartbeatStep == ASSUME IInv, HeartbeatAnswers \/ HeartbeatFindsDown PROVE IInv'
<1>1. ctl = "up" /\ UNCHANGED <<active, monitors, issued>>
  BY DEF HeartbeatAnswers, HeartbeatFindsDown
<1>2. UNCHANGED controller \/ DownConfirmed
  BY DEF HeartbeatAnswers, HeartbeatFindsDown
<1>3. told' \in BOOLEAN /\ UnlabelledIsImported' /\ (ctl' = "up" => UNCHANGED <<monitors, controller>>)
  BY <1>1, <1>2 DEF DownConfirmed, controller, UnlabelledIsImported, IInv, Types
<1>4. CASE active = NoLease
  <2>1. UNCHANGED coordinator
    BY <1>4 DEF HeartbeatAnswers, HeartbeatFindsDown
  <2>2. PICK news : news = <<>>
    OBVIOUS
  <2>3. lane' = lane \o news /\ news \in Seq(Ticket) /\ \A i \in DOMAIN news : FALSE
    BY <2>1, <2>2 DEF coordinator, IInv, Types
  <2>4. UNCHANGED <<at, lease, epoch, cred>>
    BY <2>1 DEF coordinator
  <2> QED BY <1>1, <1>3, <2>3, <2>4, Queues
<1>5. CASE active # NoLease
  <2>1. PICK k \in {"beat", "gone"} : Enqueue(Note(k, active))
    BY <1>5 DEF HeartbeatAnswers, HeartbeatFindsDown
  <2> DEFINE news == <<Note(k, active)>>
  <2>2. k \in Kinds /\ active \in Lease
    BY <1>5 DEF Kinds, IInv, Types
  <2>3. /\ news \in Seq(Ticket)
        /\ \A i \in DOMAIN news : news[i].kind = k /\ news[i].lease = active
    BY <2>2, OneTicket
  <2>4. lane' = lane \o news /\ UNCHANGED <<at, lease, epoch, cred>>
    BY <2>1, <2>2, AppendIsConcat DEF Enqueue, IInv, Types, Note, Ticket
  <2> HIDE DEF news
  <2> QED BY <1>1, <1>3, <2>1, <2>2, <2>3, <2>4, Queues
<1> QED BY <1>4, <1>5

LEMMA TunnelLostStep == ASSUME IInv, TunnelLost PROVE IInv'
<1>1. ctl = "up" /\ ctl' = "cleanup-required" /\ told' = TRUE /\ live' = live
  BY DEF TunnelLost
<1>2. UNCHANGED <<at, lease, epoch, cred, active, issued>>
  BY DEF TunnelLost
<1>3. UnlabelledIsImported'
  BY <1>1, <1>2 DEF IInv, UnlabelledIsImported
<1>4. PICK news : lane' = lane \o news /\ Ending(news)
  <2>1. CASE lane' = lane \o Queued
    BY <2>1, QueuedEnding DEF IInv
  <2>2. CASE active # NoLease /\ lane' = Append(lane, Note("recover", active))
    <3>1. active \in Lease /\ Note("recover", active) \in Ticket
      BY <2>2 DEF IInv, Types, Note, Ticket, Kinds
    <3>2. lane' = lane \o <<Note("recover", active)>>
      BY <2>2, <3>1, AppendIsConcat DEF IInv, Types
    <3> QED BY <3>1, <3>2 DEF Ending
  <2> QED BY <2>1, <2>2 DEF TunnelLost
<1>5. /\ news \in Seq(Ticket)
      /\ \A i \in DOMAIN news : news[i].lease = active /\ active \in Lease
  BY <1>4, EndingShape
<1> QED BY <1>1, <1>2, <1>3, <1>4, <1>5, Queues

-----------------------------------------------------------------------------
(* The theorems.                                                           *)

LEMMA Initially == Init => IInv
<1> SUFFICES ASSUME Init PROVE IInv
  OBVIOUS
<1>1. Tickets = {}
  BY DEF Init, Tickets
<1>2. <<>> \in Seq(Ticket)
  OBVIOUS
<1>3. Types
  BY <1>2 DEF Init, Types
<1> QED BY <1>1, <1>3, LifecycleAssumption
     DEF Init, IInv, Labelled, Known, Turning, Upheld, UnlabelledIsImported

LEMMA FlowStep == ASSUME IInv, Flow PROVE IInv'
<1>1. ASSUME NEW k \in {"connect", "recover"}, ManagedConnect(k) PROVE IInv'
  BY <1>1, BeginProofStep, QuietEnds, ProvedStep, DownRefusedStep, ConnectQuiescedStep,
     ConnectAmbiguousStep, ConnectRevokedStep, ConnectPendingStep, ConnectUpStep
     DEF ManagedConnect
<1>2. CASE ImportConnect
  BY <1>2, BeginStep, DownRefusedStep, QuiescedStep, ImportedUpStep DEF ImportConnect
<1>3. CASE Disconnect
  BY <1>3, BeginStep, DownRefusedStep, DisconnectedStep DEF Disconnect
<1>4. CASE Login \/ Logout
  BY <1>4, BeginStep, DownRefusedStep, QuiescedStep, QuietEnds, StoredStep DEF Login, Logout
<1>5. CASE Remove
  BY <1>5, BeginProofStep, QuietEnds, ProvedStep, DownRefusedStep, QuiescedStep DEF Remove
<1>6. CASE Effect \/ Revoked \/ Poll \/ Failed
  BY <1>6, EffectStep, RevokedStep, PollStep, FailedStep
<1>7. CASE BeatServed \/ Gone \/ \E k \in {"effect", "beat", "gone", "failed", "revoked"} : Discard(k)
  BY <1>7, QuietEnds
<1> QED BY <1>1, <1>2, <1>3, <1>4, <1>5, <1>6, <1>7 DEF Flow

LEMMA EnvironmentStep == ASSUME IInv, Environment PROVE IInv'
<1>1. ASSUME NEW k \in UserOps, UserAsks(k) PROVE IInv'
  BY <1>1, AskedStep DEF UserAsks
<1>2. CASE RendererPolls
  BY <1>2, AskedStep DEF RendererPolls
<1> QED BY <1>1, <1>2, MonitorCallsStep, HeartbeatStep, TunnelLostStep DEF Environment

LEMMA StutterStep == ASSUME IInv, UNCHANGED vars PROVE IInv'
<1>1. Tickets' = Tickets
  BY DEF vars, coordinator, Tickets
<1> QED BY <1>1 DEF vars, coordinator, main, controller, IInv, Types, Labelled, Known, Turning,
                    Upheld, UnlabelledIsImported, Past, Flowing, Mine, IsCurrent

\* The invariant behind the lifecycle's properties.
THEOREM Invariance == Spec => []IInv
<1>1. IInv /\ [Next]_vars => IInv'
  BY FlowStep, EnvironmentStep, StutterStep DEF Next
<1> QED BY <1>1, Initially, PTL DEF Spec

\* A managed tunnel that is up belongs to the current lease, its callbacks carry its label and
\* its monitors, once built, run on, whatever was queued, refused, lost or came late.
THEOREM WatchedTheorem == Spec => []UpIsWatched
<1>1. IInv => UpIsWatched
  BY DEF IInv, Upheld, UpIsWatched
<1> QED BY <1>1, Invariance, PTL

\* While a callback's effect runs, the tunnel that is up is the one of its own lease.
THEOREM HomeTheorem == Spec => []EffectsStayHome
<1>1. IInv => EffectsStayHome
  <2> SUFFICES ASSUME IInv, at = "effect", ctl = "up" PROVE live = Mine
    BY DEF EffectsStayHome
  <2>1. lane # <<>> /\ Mine \in Lease /\ IsCurrent(Mine)
    BY DEF IInv, Turning
  <2>2. Head(lane) \in Tickets
    BY <2>1, HeadIn DEF IInv, Types
  <2>3. ~Past
    BY <2>1, <2>2 DEF Past, Mine, IsCurrent, IInv, Types
  <2>4. live \in Lease /\ IsCurrent(live)
    BY <2>3 DEF IInv, Upheld
  <2> QED BY <2>1, <2>4 DEF Lease, IsCurrent
<1> QED BY <1>1, Invariance, PTL

\* A tunnel whose callbacks carry no label is never a managed one.
THEOREM UnlabelledTheorem == Spec => []UnlabelledIsImported
<1>1. IInv => UnlabelledIsImported
  BY DEF IInv
<1> QED BY <1>1, Invariance, PTL

-----------------------------------------------------------------------------
(* The controller.                                                         *)

USE ControllerAssumption DEF ControllerAssumption

Mind == [kind : {"inactive", "up", "owed"}, gen : 0..MaxGen, failed : 0..MaxGen,
         latch : BOOLEAN, relay : BOOLEAN, leased : BOOLEAN, beat : 0..MaxGen,
         recanted : BOOLEAN]

WireTypes ==
  /\ ChannelTypeOK
  /\ got \in [Calls -> Outcomes \cup {"nothing"}]
  /\ todo \in [Sockets -> Seq([call : Calls, verb : Verbs])]
  /\ back \in [Sockets -> Seq([call : Calls, out : Outcomes])]
  /\ gone \subseteq Sockets
  /\ host \in [state : {"down", "up", "failed"}, owner : Sockets \cup {NoSocket}]

OneOpen == \A s, t \in Sockets : IsOpen(s) /\ IsOpen(t) => s = t

\* A call that was sent is bound to an open socket, and only such a call is bound.
Bound ==
  \A r \in Calls : /\ call[r] = "sent" => on[r] \in Sockets /\ IsOpen(on[r])
                   /\ on[r] # NoSocket => call[r] = "sent"

\* The continuation of an answer runs alone, while the socket is still open.
OneAnswer ==
  \A r \in Calls : call[r] = "answered" =>
    Usable # {} /\ \A q \in Calls \ {r} : ~Settled(q)

Wire == WireTypes /\ OneOpen /\ Bound /\ OneAnswer

\* A call is under way exactly while its caller awaits it.
Calling ==
  /\ call["flow"] # "idle" <=> flow \notin {"idle", "resolve", "signal"}
  /\ call["beat"] # "idle" <=> tick.at \in {"authorize", "status"}

\* What holds of the fields by themselves.
Sound(c) ==
  /\ c.kind # "inactive" => c.gen # 0
  /\ c.kind = "up" => c.failed # c.gen
  /\ ~c.recanted

\* What holds of them at this await of the lane's operation, its call having come to a.
Fits(c, f, a) ==
  /\ f = "up" => c.kind = "owed" /\ (c.failed = c.gen => a = "failed")
  /\ f \in {"resolve", "prepare", "signal", "authorize"} =>
       c.kind = "inactive" /\ c.gen # 0 /\ c.failed # c.gen
  /\ f \in {"sweep", "down"} => c.kind # "up"
  /\ f = "status" => c.gen < MaxGen

Standing ==
  /\ flow \in Flows
  /\ tick \in [at : {"idle", "read", "authorize", "status"}, gen : 0..MaxGen]

Holds ==
  /\ me \in Mind /\ Sound(me) /\ Fits(me, flow, call["flow"])
  /\ UpHasItsSocket

ControllerInv == Wire /\ Standing /\ Calling /\ Holds

-----------------------------------------------------------------------------
(* The fields.                                                             *)

LEMMA FieldsOf ==
  ASSUME NEW c \in Mind
  PROVE  /\ c.kind \in {"inactive", "up", "owed"} /\ c.gen \in 0..MaxGen /\ c.failed \in 0..MaxGen
         /\ c.latch \in BOOLEAN /\ c.relay \in BOOLEAN /\ c.leased \in BOOLEAN
         /\ c.beat \in 0..MaxGen /\ c.recanted \in BOOLEAN
BY DEF Mind

\* The three assignments of three fields.
LEMMA SetThree ==
  ASSUME NEW c \in Mind
  PROVE  /\ [c EXCEPT !.kind = "owed", !.beat = 0, !.latch = TRUE] \in Mind
         /\ [c EXCEPT !.failed = 0, !.kind = "owed", !.latch = TRUE] \in Mind
         /\ [c EXCEPT !.kind = "inactive", !.failed = 0, !.latch = FALSE] \in Mind
<1>. DEFINE kept == [c EXCEPT !.kind = "owed"]
<1>. DEFINE new == [c EXCEPT !.failed = 0]
<1>. DEFINE freed == [c EXCEPT !.kind = "inactive"]
<1>. DEFINE owed == [kept EXCEPT !.beat = 0]
<1>. DEFINE fresh == [new EXCEPT !.kind = "owed"]
<1>. DEFINE none == [freed EXCEPT !.failed = 0]
<1>1. kept \in Mind /\ new \in Mind /\ freed \in Mind
  BY DEF Mind
<1>2. /\ [c EXCEPT !.kind = "owed", !.beat = 0, !.latch = TRUE] = [owed EXCEPT !.latch = TRUE]
      /\ [c EXCEPT !.failed = 0, !.kind = "owed", !.latch = TRUE] = [fresh EXCEPT !.latch = TRUE]
      /\ [c EXCEPT !.kind = "inactive", !.failed = 0, !.latch = FALSE] = [none EXCEPT !.latch = FALSE]
  OBVIOUS
<1>. HIDE DEF kept, new, freed
<1>3. owed \in Mind /\ fresh \in Mind /\ none \in Mind
  BY <1>1 DEF Mind
<1>. HIDE DEF owed, fresh, none
<1>4. /\ [owed EXCEPT !.latch = TRUE] \in Mind
      /\ [fresh EXCEPT !.latch = TRUE] \in Mind
      /\ [none EXCEPT !.latch = FALSE] \in Mind
  BY <1>3 DEF Mind
<1>. QED  BY <1>2, <1>4

LEMMA ReleaseKeeps ==
  ASSUME NEW c \in Mind
  PROVE  /\ Release(c) \in Mind
         /\ Release(c).kind = c.kind /\ Release(c).gen = c.gen /\ Release(c).failed = c.failed
         /\ Release(c).recanted = c.recanted /\ Release(c).latch = c.latch
BY DEF Release, Mind

LEMMA PublishShape ==
  ASSUME NEW c \in Mind
  PROVE  /\ PublishFailedOnce(c) \in Mind
         /\ PublishFailedOnce(c).gen = c.gen /\ PublishFailedOnce(c).failed = c.gen
         /\ PublishFailedOnce(c).kind = c.kind /\ PublishFailedOnce(c).recanted = c.recanted
BY DEF PublishFailedOnce, Mind

LEMMA OnLostShape ==
  ASSUME NEW c \in Mind
  PROVE  /\ OnLost(c) \in Mind
         /\ OnLost(c).gen = c.gen /\ OnLost(c).recanted = c.recanted
         /\ OnLost(c).kind = IF c.kind = "inactive" THEN "inactive" ELSE "owed"
         /\ c.kind = "inactive" => OnLost(c) = c
<1>. DEFINE d == [c EXCEPT !.kind = "owed", !.beat = 0, !.latch = TRUE]
<1>1. d \in Mind
  BY SetThree
<1>2. d.gen = c.gen /\ d.recanted = c.recanted /\ d.kind = "owed"
  BY DEF Mind
<1>3. OnLost(c) = IF c.kind = "inactive" THEN c ELSE PublishFailedOnce(d)
  BY DEF OnLost
<1>. HIDE DEF d
<1>. QED  BY <1>1, <1>2, <1>3, PublishShape

LEMMA SayShape ==
  ASSUME NEW c \in Mind, NEW state \in {"down", "up", "failed"}
  PROVE  /\ Say(c, state) \in Mind
         /\ Say(c, state).gen = c.gen /\ Say(c, state).failed = c.failed
         /\ Say(c, state).kind = c.kind
         /\ Say(c, state).recanted = (c.recanted \/ (state = "up" /\ c.failed = c.gen))
<1>1. c.recanted \in BOOLEAN
  BY FieldsOf
<1>. QED  BY <1>1 DEF Say, Mind

LEMMA DownShape ==
  ASSUME NEW c \in Mind
  PROVE  /\ Down(c) \in Mind /\ Down(c).kind = "inactive"
         /\ Down(c).gen = c.gen /\ Down(c).recanted = c.recanted
<1>1. Down(c) \in Mind
  BY SetThree DEF Down
<1>2. Down(c).kind = "inactive" /\ Down(c).gen = c.gen /\ Down(c).recanted = c.recanted
  BY DEF Down, Mind
<1>. QED  BY <1>1, <1>2

LEMMA AdoptShape ==
  ASSUME NEW c \in Mind, c.kind = "inactive" => c.gen < MaxGen
  PROVE  /\ Adopt(c) \in Mind
         /\ Adopt(c).recanted = c.recanted
         /\ c.kind # "inactive" => Adopt(c) = c
         /\ c.kind = "inactive" => /\ Adopt(c).kind = "owed" /\ Adopt(c).gen = c.gen + 1
                                   /\ Adopt(c).failed = 0
<1>1. CASE c.kind # "inactive"
  BY <1>1 DEF Adopt
<1>2. CASE c.kind = "inactive"
  <2>1. c.gen + 1 \in 0..MaxGen
    BY <1>2, FieldsOf
  <2>. DEFINE d == [c EXCEPT !.gen = c.gen + 1]
  <2>2. d \in Mind /\ d.gen = c.gen + 1 /\ d.recanted = c.recanted
    BY <2>1 DEF Mind
  <2>3. Adopt(c) = [d EXCEPT !.failed = 0, !.kind = "owed", !.latch = TRUE]
    BY <1>2 DEF Adopt, NewGen
  <2>. HIDE DEF d
  <2>4. Adopt(c) \in Mind
    BY <2>2, <2>3, SetThree
  <2>5. /\ Adopt(c).kind = "owed" /\ Adopt(c).gen = d.gen /\ Adopt(c).failed = 0
        /\ Adopt(c).recanted = d.recanted
    BY <2>2, <2>3 DEF Mind
  <2>. QED  BY <1>2, <2>2, <2>4, <2>5
<1>. QED  BY <1>1, <1>2

\* What a status read makes of the fields.
LEMMA ReconcileShape ==
  ASSUME NEW c \in Mind, Sound(c), NEW state \in {"down", "up", "failed"},
         c.kind = "inactive" => c.gen < MaxGen
  PROVE  /\ Reconcile(c, state) \in Mind /\ Sound(Reconcile(c, state))
         /\ Reconcile(c, state).kind = "up" => c.kind = "up" /\ state = "up" /\ Reconcile(c, state) = c
         /\ c.kind # "inactive" => Reconcile(c, state).gen = c.gen
         /\ state = "up" /\ c.kind # "inactive" => Reconcile(c, state) = c
<1>. DEFINE d == Adopt(c)
<1>1. d \in Mind /\ d.recanted = c.recanted /\ d.gen # 0 /\ d.gen \in 0..MaxGen
      /\ (d.kind = "up" => d = c) /\ (c.kind # "inactive" => d = c)
  BY AdoptShape, FieldsOf DEF Sound
<1>2. CASE state = "down"
  <2>. DEFINE e == Down(c)
  <2>1. e \in Mind /\ e.kind = "inactive" /\ e.recanted = c.recanted /\ e.gen = c.gen
    BY DownShape
  <2>2. Reconcile(c, state) = [e EXCEPT !.beat = IF c.kind = "inactive" THEN @ ELSE 0]
    BY <1>2 DEF Reconcile
  <2>. HIDE DEF e
  <2>. QED  BY <1>2, <2>1, <2>2 DEF Sound, Mind
<1>3. CASE state = "up"
  <2>1. Reconcile(c, state) = d
    BY <1>3 DEF Reconcile
  <2>2. Sound(d)
    BY <1>1 DEF Sound
  <2>. QED  BY <1>1, <1>3, <2>1, <2>2
<1>4. CASE state = "failed"
  <2>1. Reconcile(c, state) = [d EXCEPT !.kind = "owed", !.beat = 0, !.latch = TRUE]
    BY <1>4 DEF Reconcile
  <2>. DEFINE e == Reconcile(c, state)
  <2>. HIDE DEF d
  <2>2. e \in Mind
    BY <1>1, <2>1, SetThree
  <2>3. e.kind = "owed" /\ e.gen = d.gen /\ e.recanted = d.recanted
    BY <1>1, <2>1 DEF Mind
  <2>. HIDE DEF e
  <2>4. Sound(e)
    BY <1>1, <2>3 DEF Sound
  <2>. QED  BY <1>1, <1>4, <2>2, <2>3, <2>4 DEF e
<1>. QED  BY <1>2, <1>3, <1>4

-----------------------------------------------------------------------------
(* The channel.                                                            *)

\* A call that its caller may make or give up: it is not under way, and no other call's
\* continuation is due.
Ready(r) == call[r] \notin {"asked", "sent"} /\ \A q \in Calls \ {r} : call[q] # "answered"

\* No more than this call changes, and it comes to one of these.
Only(r, S) == call'[r] \in S /\ \A q \in Calls \ {r} : call'[q] = call[q]

LEMMA ReadyWhenSettled ==
  ASSUME Wire, NEW r \in Calls, Settled(r)
  PROVE  Ready(r)
<1>1. \A q \in Calls \ {r} : call[q] # "answered"
  <2>1. SUFFICES ASSUME NEW q \in Calls \ {r}, call[q] = "answered" PROVE FALSE
    OBVIOUS
  <2>2. ~Settled(r)
    BY <2>1 DEF Wire, OneAnswer
  <2>. QED  BY <2>2
<1>2. call[r] \notin {"asked", "sent"}
  BY DEF Settled
<1>. QED  BY <1>1, <1>2 DEF Ready

LEMMA ReadyWhenQuiet ==
  ASSUME Quiet, NEW r \in Calls, call[r] = "idle"
  PROVE  Ready(r)
BY DEF Quiet, Settled, Ready

\* A request joins those of its socket.
LEMMA RequestJoins ==
  ASSUME NEW S, NEW f \in [Sockets -> Seq(S)], NEW s \in Sockets, NEW m \in S
  PROVE  [f EXCEPT ![s] = Append(@, m)] \in [Sockets -> Seq(S)]
OBVIOUS

\* No continuation is due: whatever is answered by a step is answered by it.
LEMMA NoneDue ==
  ASSUME NEW r \in Calls, Ready(r), \A q \in Calls \ {r} : call'[q] \in {call[q], "failed"},
         call'[r] # "answered"
  PROVE  OneAnswer'
BY DEF OneAnswer, Ready

LEMMA RequestStep ==
  ASSUME Wire, NEW r \in Calls, Ready(r), NEW verb \in Verbs, Request(r, verb)
  PROVE  Wire' /\ Only(r, {"asked", "sent"}) /\ Usable' = Usable
<1>. USE DEF Wire
<1>1. fate' = fate /\ \A s \in Sockets : IsOpen(s)' <=> IsOpen(s)
  BY DEF Request, IsOpen
<1>2. Usable' = Usable /\ OneOpen'
  BY <1>1 DEF Usable, OneOpen
<1>3. UNCHANGED <<back, gone, host>> /\ got' = [got EXCEPT ![r] = "nothing"]
  BY DEF Request
<1>4. got' \in [Calls -> Outcomes \cup {"nothing"}]
  BY <1>3 DEF WireTypes
<1>5. call[r] # "sent" /\ on[r] = NoSocket
  BY DEF Bound, Ready, WireTypes, ChannelTypeOK
<1>6. CASE Usable = {}
  <2>1. /\ call' = [call EXCEPT ![r] = "asked"] /\ on' = on /\ todo' = todo
    BY <1>6 DEF Request
  <2>2. WireTypes'
    BY <1>1, <1>3, <1>4, <2>1 DEF WireTypes, ChannelTypeOK
  <2>3. Only(r, {"asked", "sent"}) /\ call'[r] = "asked"
    BY <2>1 DEF Only, WireTypes, ChannelTypeOK
  <2>4. Bound'
    BY <1>1, <1>5, <2>1, <2>3 DEF Bound, Only
  <2>5. OneAnswer'
    BY <2>3, NoneDue DEF Only
  <2>. QED  BY <1>2, <2>2, <2>3, <2>4, <2>5
<1>7. CASE Usable # {}
  <2>1. PICK s \in Usable :
           /\ call' = [call EXCEPT ![r] = "sent"] /\ on' = [on EXCEPT ![r] = s]
           /\ todo' = [todo EXCEPT ![s] = Append(@, [call |-> r, verb |-> verb])]
    BY <1>7 DEF Request
  <2>2. s \in Sockets /\ IsOpen(s)
    BY DEF Usable
  <2>3. call' \in [Calls -> {"idle", "asked", "sent", "answered", "failed"}]
        /\ on' \in [Calls -> Sockets \cup {NoSocket}]
    BY <2>1, <2>2 DEF WireTypes, ChannelTypeOK
  <2>4. todo' \in [Sockets -> Seq([call : Calls, verb : Verbs])]
    BY <2>1, <2>2, RequestJoins DEF WireTypes
  <2>5. WireTypes'
    BY <1>1, <1>3, <1>4, <2>3, <2>4 DEF WireTypes, ChannelTypeOK
  <2>6. Only(r, {"asked", "sent"}) /\ call'[r] = "sent" /\ on'[r] = s
        /\ \A q \in Calls \ {r} : on'[q] = on[q]
    BY <2>1 DEF Only, WireTypes, ChannelTypeOK
  <2>7. Bound'
    BY <1>1, <2>2, <2>6 DEF Bound, Only
  <2>8. OneAnswer'
    BY <2>6, NoneDue DEF Only
  <2>. QED  BY <1>2, <2>5, <2>6, <2>7, <2>8
<1>. QED  BY <1>6, <1>7

LEMMA IdleStep ==
  ASSUME Wire, NEW r \in Calls, Ready(r), Idle(r)
  PROVE  Wire' /\ Only(r, {"idle"}) /\ Usable' = Usable
<1>. USE DEF Wire
<1>1. /\ call' = [call EXCEPT ![r] = "idle"] /\ got' = [got EXCEPT ![r] = "nothing"]
      /\ UNCHANGED <<on, fate, todo, back, gone, host>>
  BY DEF Idle
<1>2. /\ \A s \in Sockets : IsOpen(s)' <=> IsOpen(s)
      /\ Usable' = Usable /\ OneOpen'
  BY <1>1 DEF Usable, OneOpen, IsOpen
<1>3. WireTypes'
  BY <1>1 DEF WireTypes, ChannelTypeOK
<1>4. Only(r, {"idle"}) /\ call'[r] = "idle"
  BY <1>1 DEF Only, WireTypes, ChannelTypeOK
<1>5. call[r] # "sent" /\ on[r] = NoSocket
  BY DEF Bound, Ready, WireTypes, ChannelTypeOK
<1>6. Bound'
  BY <1>1, <1>2, <1>4, <1>5 DEF Bound, Only
<1>7. OneAnswer'
  BY <1>4, NoneDue DEF Only
<1>. QED  BY <1>2, <1>3, <1>4, <1>6, <1>7

LEMMA CloseStep ==
  ASSUME Wire, NEW r \in Calls, Ready(r), CloseSocket(r)
  PROVE  /\ Wire' /\ call'[r] = "idle"
         /\ \A q \in Calls \ {r} : call'[q] = IF call[q] = "idle" THEN "idle" ELSE "failed"
<1>. USE DEF Wire
<1>. DEFINE dropped == {q \in Calls \ {r} : call[q] \in {"asked", "sent"}}
<1>1. /\ call' = [q \in Calls |-> IF q = r THEN "idle" ELSE IF q \in dropped THEN "failed" ELSE call[q]]
      /\ on' = [q \in Calls |-> IF q \in dropped THEN NoSocket ELSE on[q]]
      /\ fate' = [s \in Sockets |-> IF IsOpen(s) THEN "shut" ELSE fate[s]]
      /\ back' = [s \in Sockets |-> IF IsOpen(s) THEN <<>> ELSE back[s]]
      /\ got' = [got EXCEPT ![r] = "nothing"]
      /\ UNCHANGED <<todo, gone, host>>
  BY DEF CloseSocket
<1>2. \A s \in Sockets : ~IsOpen(s)'
  BY <1>1 DEF IsOpen
<1>3. OneOpen'
  BY <1>2 DEF OneOpen
<1>4. ChannelTypeOK'
  BY <1>1 DEF WireTypes, ChannelTypeOK
<1>5. back' \in [Sockets -> Seq([call : Calls, out : Outcomes])]
      /\ got' \in [Calls -> Outcomes \cup {"nothing"}]
  <2>1. got' \in [Calls -> Outcomes \cup {"nothing"}]
    BY <1>1 DEF WireTypes
  <2>. DEFINE Reply == [call : Calls, out : Outcomes]
  <2>2. back \in [Sockets -> Seq(Reply)]
    BY DEF WireTypes
  <2>. HIDE DEF Reply
  <2>3. back' \in [Sockets -> Seq(Reply)]
    BY <1>1, <2>2
  <2>. QED  BY <2>1, <2>3 DEF Reply
<1>6. WireTypes'
  BY <1>1, <1>4, <1>5 DEF WireTypes
<1>7. call'[r] = "idle"
  BY <1>1
<1>8. \A q \in Calls \ {r} : call'[q] = IF call[q] = "idle" THEN "idle" ELSE "failed"
  BY <1>1 DEF Ready, WireTypes, ChannelTypeOK
<1>9. \A q \in Calls : call'[q] # "sent" /\ on'[q] = NoSocket
  BY <1>1, <1>7, <1>8 DEF Bound, Ready, WireTypes, ChannelTypeOK
<1>10. Bound'
  BY <1>9 DEF Bound
<1>11. OneAnswer'
  BY <1>7, <1>8, NoneDue
<1>. QED  BY <1>3, <1>6, <1>7, <1>8, <1>10, <1>11

LEMMA QuietMeans ==
  ASSUME Wire, Quiet
  PROVE  /\ \A r \in Calls : call[r] \in {"idle", "asked", "sent"}
         /\ \A s \in Sockets : IsOpen(s) => \A r \in Calls : call[r] # "asked"
BY DEF Quiet, Settled, Wire, WireTypes, ChannelTypeOK

LEMMA VerbIsOne ==
  ASSUME Standing, Calling, NEW r \in Calls, call[r] = "asked"
  PROVE  VerbOf(r) \in Verbs
<1>1. CASE r = "beat"
  BY <1>1 DEF VerbOf, Verbs
<1>2. CASE r = "flow"
  <2>1. flow \in Flows \ {"idle", "resolve", "signal"}
    BY <1>2 DEF Standing, Calling
  <2>2. VerbOf(r) = CASE flow \in {"prepare", "authorize"} -> "relay"
                      [] flow = "up" -> "tunnel_up"
                      [] flow = "down" -> "tunnel_down"
                      [] flow = "resolvers" -> "set_resolvers"
                      [] flow = "peer" -> "update"
                      [] OTHER -> flow
    BY <1>2 DEF VerbOf
  <2>. QED  BY <2>1, <2>2 DEF Flows, Verbs
<1>. QED  BY <1>1, <1>2

LEMMA ProceedStep ==
  ASSUME Wire, NEW r \in Calls, VerbOf(r) \in Verbs, Proceed(r)
  PROVE  /\ Wire' /\ call[r] = "asked" /\ Only(r, {"sent"}) /\ Usable' = Usable
         /\ UNCHANGED client
<1>. USE DEF Wire
<1>1. PICK s \in Usable :
         /\ Send(r, s)
         /\ todo' = [todo EXCEPT ![s] = Append(@, [call |-> r, verb |-> VerbOf(r)])]
         /\ UNCHANGED <<client, back, gone, host>>
  BY DEF Proceed
<1>2. /\ call[r] = "asked" /\ IsOpen(s) /\ s \in Sockets
      /\ call' = [call EXCEPT ![r] = "sent"] /\ on' = [on EXCEPT ![r] = s] /\ fate' = fate
  BY <1>1 DEF Send, Usable
<1>3. /\ \A t \in Sockets : IsOpen(t)' <=> IsOpen(t)
      /\ Usable' = Usable /\ OneOpen'
  BY <1>2 DEF Usable, OneOpen, IsOpen
<1>4. got' = got /\ UNCHANGED client
  BY <1>1 DEF client
<1>5. todo' \in [Sockets -> Seq([call : Calls, verb : Verbs])]
  <2>1. [call |-> r, verb |-> VerbOf(r)] \in [call : Calls, verb : Verbs]
    OBVIOUS
  <2>. QED  BY <1>1, <1>2, <2>1, RequestJoins DEF WireTypes
<1>6. WireTypes'
  BY <1>1, <1>2, <1>4, <1>5 DEF WireTypes, ChannelTypeOK
<1>7. /\ Only(r, {"sent"}) /\ call'[r] = "sent" /\ on'[r] = s
      /\ \A q \in Calls \ {r} : on'[q] = on[q]
  BY <1>2 DEF Only, WireTypes, ChannelTypeOK
<1>8. Bound'
  BY <1>2, <1>7 DEF Bound, Only, IsOpen
<1>9. OneAnswer'
  BY <1>2, <1>3, <1>7 DEF OneAnswer, Settled, Only
<1>. QED  BY <1>2, <1>3, <1>4, <1>6, <1>7, <1>8, <1>9

LEMMA AttemptFailsStep ==
  ASSUME Wire, AttemptFails
  PROVE  /\ Wire' /\ UNCHANGED <<me, flow, tick>> /\ Usable' = Usable
         /\ \A r \in Calls : call'[r] = IF call[r] = "asked" THEN "failed" ELSE call[r]
<1>. USE DEF Wire
<1>1. /\ call' = [r \in Calls |-> IF call[r] = "asked" THEN "failed" ELSE call[r]]
      /\ UNCHANGED <<on, fate, me, got, back, flow, tick, todo, gone, host>>
  BY DEF AttemptFails, Refuse, EventOnly
<1>2. /\ \A t \in Sockets : IsOpen(t)' <=> IsOpen(t)
      /\ Usable' = Usable /\ OneOpen'
  BY <1>1 DEF Usable, OneOpen, IsOpen
<1>3. WireTypes'
  BY <1>1 DEF WireTypes, ChannelTypeOK
<1>4. Bound'
  BY <1>1, <1>2 DEF Bound
<1>5. \A r \in Calls : call[r] # "answered"
  BY QuietMeans DEF AttemptFails
<1>6. OneAnswer'
  BY <1>1, <1>5 DEF OneAnswer
<1>. QED  BY <1>1, <1>2, <1>3, <1>4, <1>6

LEMMA ConnectedStep ==
  ASSUME Wire, NEW s \in Sockets, Connected(s)
  PROVE  Wire' /\ UNCHANGED <<me, flow, tick, call>> /\ Usable' # {}
<1>. USE DEF Wire
<1>1. /\ fate' = [fate EXCEPT ![s] = "open"] /\ \A t \in Sockets : ~IsOpen(t)
      /\ UNCHANGED <<call, on, me, got, back, flow, tick, todo, gone, host>>
  BY DEF Connected, Open, EventOnly
<1>2. \A t \in Sockets : IsOpen(t)' <=> t = s
  BY <1>1 DEF IsOpen, WireTypes, ChannelTypeOK
<1>3. OneOpen' /\ Usable' # {}
  BY <1>2 DEF OneOpen, Usable
<1>4. WireTypes'
  BY <1>1 DEF WireTypes, ChannelTypeOK
<1>5. Bound'
  BY <1>1 DEF Bound
<1>6. \A r \in Calls : call[r] # "answered"
  BY QuietMeans DEF Connected
<1>7. OneAnswer'
  BY <1>1, <1>6 DEF OneAnswer
<1>. QED  BY <1>1, <1>3, <1>4, <1>5, <1>7

\* A reply settles one call, while the socket is open.
LEMMA DeliveredStep ==
  ASSUME Wire, NEW s \in Sockets, Delivered(s)
  PROVE  /\ Wire' /\ UNCHANGED <<me, flow, tick>> /\ Usable' = Usable
         /\ \E r \in Calls : call[r] = "sent" /\ Only(r, {"answered"})
<1>. USE DEF Wire
<1>. DEFINE reply == Head(back[s])
<1>1. /\ Quiet /\ IsOpen(s) /\ back[s] # <<>> /\ Answer(reply.call)
      /\ got' = [got EXCEPT ![reply.call] = reply.out] /\ back' = [back EXCEPT ![s] = Tail(@)]
      /\ UNCHANGED <<me, flow, tick, todo, gone, host>>
  BY DEF Delivered, EventOnly
<1>2. reply \in [call : Calls, out : Outcomes] /\ back' \in [Sockets -> Seq([call : Calls, out : Outcomes])]
  <2>. DEFINE Reply == [call : Calls, out : Outcomes]
  <2>1. back \in [Sockets -> Seq(Reply)]
    BY DEF WireTypes
  <2>. HIDE DEF Reply
  <2>2. back' \in [Sockets -> Seq(Reply)] /\ Head(back[s]) \in Reply
    BY <1>1, <2>1
  <2>. QED  BY <2>2 DEF Reply
<1>. HIDE DEF reply
<1>3. PICK r \in Calls : r = reply.call
  BY <1>2
<1>4. /\ call[r] = "sent" /\ IsOpen(on[r])
      /\ call' = [call EXCEPT ![r] = "answered"] /\ on' = [on EXCEPT ![r] = NoSocket] /\ fate' = fate
  BY <1>1, <1>3 DEF Answer
<1>5. /\ \A t \in Sockets : IsOpen(t)' <=> IsOpen(t)
      /\ Usable' = Usable /\ OneOpen' /\ Usable # {}
  BY <1>1, <1>4 DEF Usable, OneOpen, IsOpen
<1>6. got' \in [Calls -> Outcomes \cup {"nothing"}]
  BY <1>1, <1>2, <1>3 DEF WireTypes
<1>7. WireTypes'
  BY <1>1, <1>2, <1>4, <1>6 DEF WireTypes, ChannelTypeOK
<1>8. /\ Only(r, {"answered"}) /\ call'[r] = "answered" /\ on'[r] = NoSocket
      /\ \A q \in Calls \ {r} : on'[q] = on[q]
  BY <1>4 DEF Only, WireTypes, ChannelTypeOK
<1>9. Bound'
  BY <1>5, <1>8 DEF Bound, Only
<1>10. \A q \in Calls : ~Settled(q)
  BY <1>1 DEF Quiet
<1>11. OneAnswer'
  BY <1>5, <1>8, <1>10 DEF OneAnswer, Only, Settled
<1>. QED  BY <1>1, <1>4, <1>5, <1>7, <1>8, <1>9, <1>11

\* The end of the socket fails every call under way.
LEMMA SocketEndsStep ==
  ASSUME Wire, NEW s \in Sockets, SocketEnds(s)
  PROVE  /\ Wire' /\ me' = OnLost(me) /\ UNCHANGED <<flow, tick>>
         /\ \A r \in Calls : call'[r] = IF call[r] = "idle" THEN "idle" ELSE "failed"
<1>. USE DEF Wire
<1>1. /\ Quiet /\ IsOpen(s) /\ fate' = [fate EXCEPT ![s] = "told"]
      /\ call' = [r \in Calls |-> IF r \in SentOn(s) THEN "failed" ELSE call[r]]
      /\ on' = [r \in Calls |-> IF r \in SentOn(s) THEN NoSocket ELSE on[r]]
      /\ me' = OnLost(me) /\ back' = [back EXCEPT ![s] = <<>>]
      /\ UNCHANGED <<got, flow, tick, todo, gone, host>>
  BY DEF SocketEnds, End, FailAll, EventOnly
<1>2. \A r \in Calls : call[r] \in {"idle", "sent"}
  BY <1>1, QuietMeans
<1>3. \A r \in Calls : r \in SentOn(s) <=> call[r] = "sent"
  BY <1>1, <1>2 DEF SentOn, Bound, OneOpen
<1>4. \A r \in Calls : call'[r] = IF call[r] = "idle" THEN "idle" ELSE "failed"
  BY <1>1, <1>2, <1>3
<1>5. \A r \in Calls : on'[r] = NoSocket /\ call'[r] # "sent"
  BY <1>1, <1>3, <1>4 DEF Bound, WireTypes, ChannelTypeOK
<1>6. OneOpen'
  BY <1>1 DEF OneOpen, IsOpen, WireTypes, ChannelTypeOK
<1>7. back' \in [Sockets -> Seq([call : Calls, out : Outcomes])]
  <2>. DEFINE Reply == [call : Calls, out : Outcomes]
  <2>1. back \in [Sockets -> Seq(Reply)]
    BY DEF WireTypes
  <2>. HIDE DEF Reply
  <2>2. back' \in [Sockets -> Seq(Reply)]
    BY <1>1, <2>1
  <2>. QED  BY <2>2 DEF Reply
<1>8. WireTypes'
  BY <1>1, <1>7 DEF WireTypes, ChannelTypeOK
<1>9. Bound' /\ OneAnswer'
  BY <1>4, <1>5 DEF Bound, OneAnswer
<1>. QED  BY <1>1, <1>4, <1>6, <1>8, <1>9

LEMMA ExitsStep ==
  ASSUME Wire, Exits
  PROVE  /\ Wire' /\ \A r \in Calls : call'[r] = "idle"
<1>. USE DEF Wire
<1>1. /\ got' = [r \in Calls |-> "nothing"]
      /\ call' = [r \in Calls |-> "idle"] /\ on' = [r \in Calls |-> NoSocket]
      /\ fate' = [s \in Sockets |-> IF IsOpen(s) THEN "shut" ELSE fate[s]]
      /\ back' = [s \in Sockets |-> <<>>]
      /\ UNCHANGED <<todo, gone, host>>
  BY DEF Exits
<1>2. \A r \in Calls : call'[r] = "idle" /\ on'[r] = NoSocket
  BY <1>1
<1>3. \A s \in Sockets : ~IsOpen(s)'
  BY <1>1 DEF IsOpen
<1>4. back' \in [Sockets -> Seq([call : Calls, out : Outcomes])]
  BY <1>1
<1>5. ChannelTypeOK'
  BY <1>1 DEF WireTypes, ChannelTypeOK
<1>6. WireTypes'
  BY <1>1, <1>4, <1>5 DEF WireTypes
<1>7. OneOpen' /\ Bound' /\ OneAnswer'
  BY <1>2, <1>3 DEF OneOpen, Bound, OneAnswer
<1>. QED  BY <1>2, <1>6, <1>7

-----------------------------------------------------------------------------
(* The helper.                                                             *)

LEMMA DoesTypes ==
  ASSUME WireTypes, NEW s \in Sockets, NEW verb \in Verbs, NEW out \in Outcomes, Does(s, verb, out)
  PROVE  host' \in [state : {"down", "up", "failed"}, owner : Sockets \cup {NoSocket}]
<1>. DEFINE Hosts == [state : {"down", "up", "failed"}, owner : Sockets \cup {NoSocket}]
<1>1. host \in Hosts
  BY DEF WireTypes
<1>2. CASE verb = "tunnel_up"
  BY <1>1, <1>2 DEF Does
<1>3. CASE verb = "tunnel_down"
  BY <1>1, <1>3 DEF Does
<1>4. CASE verb \notin {"tunnel_up", "tunnel_down"}
  <2>1. host' = host
    BY <1>4 DEF Does, Verbs
  <2>. QED  BY <1>1, <2>1
<1>. QED  BY <1>2, <1>3, <1>4

\* A step of the helper leaves the client's side of the wire as it is.
LEMMA WireOfHelper ==
  ASSUME Wire, UNCHANGED channel, UNCHANGED client,
         todo' \in [Sockets -> Seq([call : Calls, verb : Verbs])],
         back' \in [Sockets -> Seq([call : Calls, out : Outcomes])],
         gone' \subseteq Sockets,
         host' \in [state : {"down", "up", "failed"}, owner : Sockets \cup {NoSocket}]
  PROVE  Wire' /\ Usable' = Usable
<1>. USE DEF Wire
<1>1. UNCHANGED <<call, on, fate, me, flow, tick, got>>
  BY DEF channel, client
<1>2. WireTypes'
  BY <1>1 DEF WireTypes, ChannelTypeOK
<1>3. Usable' = Usable /\ OneOpen' /\ Bound' /\ OneAnswer'
  BY <1>1 DEF Usable, OneOpen, Bound, OneAnswer, Settled, IsOpen
<1>. QED  BY <1>2, <1>3

LEMMA ExecuteStep ==
  ASSUME Wire, NEW s \in Sockets, Execute(s)
  PROVE  Wire' /\ UNCHANGED <<channel, client>> /\ Usable' = Usable
<1>. DEFINE Asked == [call : Calls, verb : Verbs]
<1>. DEFINE Reply == [call : Calls, out : Outcomes]
<1>1. todo \in [Sockets -> Seq(Asked)] /\ back \in [Sockets -> Seq(Reply)] /\ gone \subseteq Sockets
  BY DEF Wire, WireTypes
<1>2. todo[s] # <<>> /\ UNCHANGED <<channel, client, gone>>
  BY DEF Execute
<1>3. PICK q : q = Head(todo[s])
  OBVIOUS
<1>4. q \in Asked
  <2>. HIDE DEF Asked
  <2>. QED  BY <1>1, <1>2, <1>3
<1>5. q.call \in Calls /\ q.verb \in Verbs
  BY <1>4
<1>6. PICK out \in Outcomes :
        /\ Does(s, q.verb, out)
        /\ IF IsOpen(s)
           THEN /\ todo' = [todo EXCEPT ![s] = Tail(@)]
                /\ back' = [back EXCEPT ![s] = Append(@, [call |-> q.call, out |-> out])]
           ELSE /\ todo' = [todo EXCEPT ![s] = <<>>] /\ back' = back
  BY <1>3 DEF Execute
<1>7. host' \in [state : {"down", "up", "failed"}, owner : Sockets \cup {NoSocket}]
  BY <1>5, <1>6, DoesTypes DEF Wire
<1>8. [call |-> q.call, out |-> out] \in Reply
  BY <1>5
<1>9. todo' \in [Sockets -> Seq(Asked)] /\ back' \in [Sockets -> Seq(Reply)]
  <2>1. PICK A, R, m : A = Asked /\ R = Reply /\ m = [call |-> q.call, out |-> out]
    OBVIOUS
  <2>2. todo \in [Sockets -> Seq(A)] /\ back \in [Sockets -> Seq(R)] /\ m \in R
    BY <1>1, <1>8, <2>1
  <2>3. /\ todo' = [todo EXCEPT ![s] = Tail(@)] \/ todo' = [todo EXCEPT ![s] = <<>>]
        /\ back' = [back EXCEPT ![s] = Append(@, m)] \/ back' = back
    BY <1>6, <2>1
  <2>4. todo' \in [Sockets -> Seq(A)]
    <3>1. CASE todo' = [todo EXCEPT ![s] = Tail(@)]
      BY <1>2, <2>2, <3>1
    <3>2. CASE todo' = [todo EXCEPT ![s] = <<>>]
      BY <2>2, <3>2
    <3>. QED  BY <2>3, <3>1, <3>2
  <2>5. back' \in [Sockets -> Seq(R)]
    <3>1. CASE back' = [back EXCEPT ![s] = Append(@, m)]
      BY <2>2, <3>1, RequestJoins
    <3>. QED  BY <2>2, <2>3, <3>1
  <2>. QED  BY <2>1, <2>4, <2>5
<1>10. gone' \subseteq Sockets
  BY <1>1, <1>2
<1>. QED  BY <1>2, <1>7, <1>9, <1>10, WireOfHelper

LEMMA HandlerEndsStep ==
  ASSUME Wire, NEW s \in Sockets, HandlerEnds(s)
  PROVE  Wire' /\ UNCHANGED <<channel, client>> /\ Usable' = Usable
<1>1. host' \in [state : {"down", "up", "failed"}, owner : Sockets \cup {NoSocket}]
  BY DEF HandlerEnds, OwnerEnds, Wire, WireTypes
<1>2. gone' \subseteq Sockets /\ UNCHANGED <<channel, client, todo, back>>
  BY DEF HandlerEnds, Wire, WireTypes
<1>3. todo \in [Sockets -> Seq([call : Calls, verb : Verbs])]
      /\ back \in [Sockets -> Seq([call : Calls, out : Outcomes])]
  BY DEF Wire, WireTypes
<1>4. todo' = todo /\ back' = back
  BY <1>2
<1>. QED  BY <1>1, <1>2, <1>3, <1>4, WireOfHelper

LEMMA HelperFallsStep ==
  ASSUME Wire, DeadMan \/ HelperCrash
  PROVE  Wire' /\ UNCHANGED <<channel, client>> /\ Usable' = Usable
<1>1. host' \in [state : {"down", "up", "failed"}, owner : Sockets \cup {NoSocket}]
  BY DEF DeadMan, HelperCrash, Wire, WireTypes
<1>2. gone' \subseteq Sockets /\ UNCHANGED <<channel, client, back>>
      /\ (todo' = todo \/ todo' = [s \in Sockets |-> <<>>])
  BY DEF DeadMan, HelperCrash, Wire, WireTypes
<1>4. todo' \in [Sockets -> Seq([call : Calls, verb : Verbs])]
  <2>1. CASE todo' = todo
    BY <2>1 DEF Wire, WireTypes
  <2>2. CASE todo' = [s \in Sockets |-> <<>>]
    BY <2>2
  <2>. QED  BY <1>2, <2>1, <2>2
<1>3. back' = back /\ back \in [Sockets -> Seq([call : Calls, out : Outcomes])]
  BY <1>2 DEF Wire, WireTypes
<1>. QED  BY <1>1, <1>2, <1>3, <1>4, WireOfHelper

-----------------------------------------------------------------------------
(* The operations of the lane.                                             *)

LEMMA Assembled ==
  ASSUME Wire', Standing', Calling', me' \in Mind, Sound(me'), Fits(me', flow', call'["flow"]),
         me'.kind = "up" => Usable' # {}
  PROVE  ControllerInv'
BY DEF ControllerInv, Holds, UpHasItsSocket, Sound, Fits

\* A step that the channel takes no part in.
LEMMA WireKept ==
  ASSUME Wire, UNCHANGED <<channel, got>>, UNCHANGED helper
  PROVE  Wire' /\ call' = call /\ Usable' = Usable
<1>1. UNCHANGED <<call, on, fate, got, todo, back, gone, host>>
  BY DEF channel, helper
<1>2. WireTypes' /\ call' = call
  BY <1>1 DEF Wire, WireTypes, ChannelTypeOK
<1>3. Usable' = Usable /\ OneOpen' /\ Bound' /\ OneAnswer'
  BY <1>1 DEF Wire, Usable, OneOpen, Bound, OneAnswer, Settled, IsOpen
<1>. QED  BY <1>2, <1>3 DEF Wire

\* The operation starts a request, or ends.
LEMMA FlowAwaits ==
  ASSUME ControllerInv, FlowOnly,
         \/ flow' \in Flows \ {"idle", "resolve", "signal"} /\ call'["flow"] \in {"asked", "sent"}
         \/ flow' \in {"idle", "resolve", "signal"} /\ call'["flow"] = "idle",
         call'["beat"] = "idle" <=> call["beat"] = "idle"
  PROVE  Standing' /\ Calling'
BY DEF ControllerInv, FlowOnly, Standing, Calling, Flows

LEMMA FlowAsks ==
  ASSUME ControllerInv, Ready("flow"), NEW verb \in Verbs, Request("flow", verb), FlowOnly,
         flow' \in Flows \ {"idle", "resolve", "signal"},
         me' \in Mind, Sound(me'), me'.kind = "up" => Usable # {},
         \A a \in {"asked", "sent"} : Fits(me', flow', a)
  PROVE  ControllerInv'
<1>1. Wire' /\ Only("flow", {"asked", "sent"}) /\ Usable' = Usable
  BY RequestStep DEF ControllerInv
<1>2. Standing' /\ Calling'
  BY <1>1, FlowAwaits DEF Only
<1>3. Fits(me', flow', call'["flow"])
  BY <1>1 DEF Only
<1>. QED  BY <1>1, <1>2, <1>3, Assembled

LEMMA FlowRests ==
  ASSUME ControllerInv, Ready("flow"), Idle("flow"), FlowOnly,
         flow' \in {"idle", "resolve", "signal"},
         me' \in Mind, Sound(me'), me'.kind = "up" => Usable # {}, Fits(me', flow', "idle")
  PROVE  ControllerInv'
<1>1. Wire' /\ Only("flow", {"idle"}) /\ Usable' = Usable
  BY IdleStep DEF ControllerInv
<1>2. Standing' /\ Calling'
  BY <1>1, FlowAwaits DEF Only
<1>3. Fits(me', flow', call'["flow"])
  BY <1>1 DEF Only
<1>. QED  BY <1>1, <1>2, <1>3, Assembled

LEMMA FlowCloses ==
  ASSUME ControllerInv, Ready("flow"), CloseSocket("flow"), FlowOnly, flow' = "idle",
         me' \in Mind, Sound(me'), me'.kind # "up"
  PROVE  ControllerInv'
<1>1. /\ Wire' /\ call'["flow"] = "idle"
      /\ \A q \in Calls \ {"flow"} : call'[q] = IF call[q] = "idle" THEN "idle" ELSE "failed"
  BY CloseStep DEF ControllerInv
<1>2. Standing' /\ Calling'
  BY <1>1, FlowAwaits
<1>3. Fits(me', flow', call'["flow"])
  BY DEF Fits
<1>. QED  BY <1>1, <1>2, <1>3, Assembled

\* What the loss of the owner leaves, wherever the operation stands.
LEMMA LostFits ==
  ASSUME NEW c \in Mind, Sound(c), NEW f, NEW a, Fits(c, f, a), NEW b, f = "up" => b = "failed"
  PROVE  /\ OnLost(c) \in Mind /\ Sound(OnLost(c)) /\ Fits(OnLost(c), f, b)
         /\ OnLost(c).kind # "up"
<1>. DEFINE d == OnLost(c)
<1>1. /\ d \in Mind /\ d.gen = c.gen /\ d.recanted = c.recanted
      /\ d.kind = IF c.kind = "inactive" THEN "inactive" ELSE "owed"
      /\ c.kind = "inactive" => d = c
  BY OnLostShape
<1>. HIDE DEF d
<1>2. Sound(d)
  BY <1>1 DEF Sound
<1>3. Fits(d, f, b)
  BY <1>1 DEF Fits
<1>. QED  BY <1>1, <1>2, <1>3 DEF d

LEMMA ReleaseFits ==
  ASSUME NEW c \in Mind, Sound(c), NEW f, NEW a, Fits(c, f, a)
  PROVE  Release(c) \in Mind /\ Sound(Release(c)) /\ Fits(Release(c), f, a)
<1>. DEFINE d == Release(c)
<1>1. /\ d \in Mind /\ d.kind = c.kind /\ d.gen = c.gen /\ d.failed = c.failed
      /\ d.recanted = c.recanted
  BY ReleaseKeeps
<1>. HIDE DEF d
<1>2. Sound(d) /\ Fits(d, f, a)
  BY <1>1 DEF Sound, Fits
<1>. QED  BY <1>1, <1>2 DEF d

\* The attempt is given up: a relay session takes the socket with it.
LEMMA UpFailsStep ==
  ASSUME ControllerInv, Ready("flow"), NEW c \in Mind, Sound(c), c.kind = "up" => Usable # {},
         UpFails(c)
  PROVE  ControllerInv'
<1>1. flow' = "idle" /\ FlowOnly
  BY DEF UpFails
<1>2. CASE c.relay
  <2>1. me' = OnLost(Release(c)) /\ CloseSocket("flow")
    BY <1>2 DEF UpFails
  <2>2. Fits(c, "idle", "idle")
    BY DEF Fits
  <2>3. Release(c) \in Mind /\ Sound(Release(c)) /\ Fits(Release(c), "idle", "idle")
    BY <2>2, ReleaseFits
  <2>4. me' \in Mind /\ Sound(me') /\ me'.kind # "up"
    BY <2>1, <2>3, LostFits
  <2>. QED  BY <1>1, <2>1, <2>4, FlowCloses
<1>3. CASE ~c.relay
  <2>1. me' = c /\ Idle("flow")
    BY <1>3 DEF UpFails
  <2>2. Fits(me', flow', "idle")
    BY <1>1 DEF Fits
  <2>. QED  BY <1>1, <2>1, <2>2, FlowRests
<1>. QED  BY <1>2, <1>3

\* The fields of the controller where the invariant holds.
LEMMA Given ==
  ASSUME ControllerInv
  PROVE  /\ me \in Mind /\ Sound(me) /\ Fits(me, flow, call["flow"])
         /\ me.kind = "up" => Usable # {}
         /\ me.kind \in {"inactive", "up", "owed"} /\ me.gen \in 0..MaxGen /\ me.failed \in 0..MaxGen
BY FieldsOf DEF ControllerInv, Holds, UpHasItsSocket

\* A continuation of the lane, or an operation that starts when nothing else runs.
LEMMA FlowReady ==
  ASSUME ControllerInv, Settled("flow") \/ (Quiet /\ flow \in {"idle", "resolve", "signal"})
  PROVE  Ready("flow")
<1>1. CASE Settled("flow")
  BY <1>1, ReadyWhenSettled DEF ControllerInv
<1>2. CASE Quiet /\ flow \in {"idle", "resolve", "signal"}
  <2>1. call["flow"] = "idle"
    BY <1>2 DEF ControllerInv, Calling
  <2>. QED  BY <1>2, <2>1, ReadyWhenQuiet
<1>. QED  BY <1>1, <1>2

\* The latch, the relay and the lease do not matter to the invariant.
LEMMA FlagsKeep ==
  ASSUME NEW c \in Mind, Sound(c), NEW d,
         \/ d = c
         \/ \E b \in BOOLEAN : \/ d = [c EXCEPT !.latch = b] \/ d = [c EXCEPT !.relay = b]
                               \/ d = [c EXCEPT !.leased = b]
  PROVE  /\ d \in Mind /\ Sound(d) /\ d.kind = c.kind /\ d.gen = c.gen /\ d.failed = c.failed
         /\ \A f, a : Fits(c, f, a) => Fits(d, f, a)
<1>1. d \in Mind
  BY DEF Mind
<1>2. d.kind = c.kind /\ d.gen = c.gen /\ d.failed = c.failed /\ d.recanted = c.recanted
  BY DEF Mind
<1>3. Sound(d) /\ \A f, a : Fits(c, f, a) => Fits(d, f, a)
  BY <1>2 DEF Sound, Fits
<1>. QED  BY <1>1, <1>2, <1>3

LEMMA UpStep ==
  ASSUME ControllerInv, Up
  PROVE  ControllerInv'
<1>. DEFINE c == Release(me)
<1>. DEFINE d == [c EXCEPT !.gen = c.gen + 1]
<1>1. /\ Quiet /\ flow = "idle" /\ me.kind = "inactive" /\ me.gen < MaxGen
      /\ me' = [d EXCEPT !.failed = 0, !.beat = 0] /\ flow' = "resolve"
      /\ UNCHANGED <<channel, got>> /\ FlowOnly /\ UNCHANGED helper
  BY DEF Up, NewGen
<1>2. c \in Mind /\ c.kind = "inactive" /\ c.gen = me.gen /\ c.recanted = me.recanted
  BY <1>1, Given, ReleaseKeeps
<1>3. c.gen + 1 \in 1..MaxGen /\ ~me.recanted
  BY <1>1, <1>2, Given DEF Sound
<1>. HIDE DEF c
<1>4. d \in Mind /\ d.kind = "inactive" /\ d.gen = c.gen + 1 /\ d.recanted = c.recanted
  BY <1>2, <1>3 DEF Mind
<1>. HIDE DEF d
<1>5. me' \in Mind
  <2>. DEFINE e == [d EXCEPT !.failed = 0]
  <2>1. e \in Mind
    BY <1>4 DEF Mind
  <2>2. me' = [e EXCEPT !.beat = 0]
    BY <1>1
  <2>. HIDE DEF e
  <2>. QED  BY <2>1, <2>2 DEF Mind
<1>6. me'.kind = "inactive" /\ me'.gen = d.gen /\ me'.failed = 0 /\ me'.recanted = d.recanted
  BY <1>1, <1>4 DEF Mind
<1>7. Sound(me') /\ Fits(me', flow', call'["flow"])
  BY <1>1, <1>2, <1>3, <1>4, <1>6 DEF Sound, Fits
<1>8. Wire' /\ call' = call
  BY <1>1, WireKept DEF ControllerInv
<1>9. call["flow"] = "idle"
  BY <1>1 DEF ControllerInv, Calling
<1>10. Standing' /\ Calling'
  BY <1>1, <1>8, <1>9, FlowAwaits
<1>. QED  BY <1>5, <1>6, <1>7, <1>8, <1>10, Assembled

\* From the first request that may arm the host the ownership is owed.
LEMMA SendUpStep ==
  ASSUME ControllerInv, Ready("flow"), NEW c \in Mind, Sound(c), c.gen # 0, c.failed # c.gen,
         SendUp(c)
  PROVE  ControllerInv'
<1>1. me' = [c EXCEPT !.kind = "owed"] /\ flow' = "up" /\ Request("flow", "tunnel_up") /\ FlowOnly
  BY DEF SendUp
<1>2. me' \in Mind
  BY <1>1 DEF Mind
<1>3. me'.kind = "owed" /\ me'.gen = c.gen /\ me'.failed = c.failed /\ me'.recanted = c.recanted
  BY <1>1 DEF Mind
<1>4. Sound(me') /\ \A a \in {"asked", "sent"} : Fits(me', flow', a)
  BY <1>1, <1>3 DEF Sound, Fits
<1>5. "tunnel_up" \in Verbs /\ flow' \in Flows \ {"idle", "resolve", "signal"}
  BY <1>1 DEF Verbs, Flows
<1>. QED  BY <1>1, <1>2, <1>3, <1>4, <1>5, FlowAsks

LEMMA ResolvedStep ==
  ASSUME ControllerInv, Resolved
  PROVE  ControllerInv'
<1>. USE Given
<1>1. Quiet /\ flow = "resolve" /\ Ready("flow")
  BY FlowReady DEF Resolved
<1>2. me.kind = "inactive" /\ me.gen # 0 /\ me.failed # me.gen
  BY <1>1 DEF Fits
<1>3. CASE UpFails(me)
  BY <1>1, <1>3, UpFailsStep
<1>4. CASE SendUp(me)
  BY <1>1, <1>2, <1>4, SendUpStep
<1>5. CASE /\ me' = [me EXCEPT !.relay = TRUE]
           /\ flow' = "prepare" /\ Request("flow", "relay") /\ FlowOnly
  <2>1. me' \in Mind /\ Sound(me') /\ me'.kind = me.kind /\ me'.gen = me.gen /\ me'.failed = me.failed
    BY <1>5, FlagsKeep
  <2>2. \A a : Fits(me', flow', a)
    BY <1>2, <1>5, <2>1 DEF Fits
  <2>3. "relay" \in Verbs /\ flow' \in Flows \ {"idle", "resolve", "signal"}
    BY <1>5 DEF Verbs, Flows
  <2>. QED  BY <1>1, <1>2, <1>5, <2>1, <2>2, <2>3, FlowAsks
<1>. QED  BY <1>3, <1>4, <1>5 DEF Resolved

LEMMA PreparedStep ==
  ASSUME ControllerInv, Prepared
  PROVE  ControllerInv'
<1>. USE Given
<1>1. Settled("flow") /\ flow = "prepare" /\ Ready("flow")
  BY FlowReady DEF Prepared
<1>2. CASE Ok("flow")
  <2>1. flow' = "signal" /\ me' = me /\ Idle("flow") /\ FlowOnly
    BY <1>2 DEF Prepared
  <2>2. Fits(me', flow', "idle")
    BY <1>1, <2>1 DEF Fits
  <2>. QED  BY <1>1, <2>1, <2>2, FlowRests
<1>3. CASE ~Ok("flow")
  <2>1. UpFails(me)
    BY <1>3 DEF Prepared
  <2>. QED  BY <1>1, <2>1, UpFailsStep
<1>. QED  BY <1>2, <1>3

LEMMA SignalledStep ==
  ASSUME ControllerInv, Signalled
  PROVE  ControllerInv'
<1>. USE Given
<1>1. Quiet /\ flow = "signal" /\ Ready("flow")
  BY FlowReady DEF Signalled
<1>2. CASE flow' = "authorize" /\ me' = me /\ Request("flow", "relay") /\ FlowOnly
  <2>1. \A a : Fits(me', flow', a)
    BY <1>1, <1>2 DEF Fits
  <2>2. "relay" \in Verbs /\ flow' \in Flows \ {"idle", "resolve", "signal"}
    BY <1>2 DEF Verbs, Flows
  <2>. QED  BY <1>1, <1>2, <2>1, <2>2, FlowAsks
<1>3. CASE UpFails(me)
  BY <1>1, <1>3, UpFailsStep
<1>. QED  BY <1>2, <1>3 DEF Signalled

LEMMA AuthorizedStep ==
  ASSUME ControllerInv, Authorized
  PROVE  ControllerInv'
<1>. USE Given
<1>1. Settled("flow") /\ flow = "authorize" /\ Ready("flow")
  BY FlowReady DEF Authorized
<1>2. CASE Ok("flow")
  <2>. DEFINE c == [me EXCEPT !.leased = TRUE]
  <2>1. c \in Mind /\ Sound(c) /\ c.kind = me.kind /\ c.gen = me.gen /\ c.failed = me.failed
    BY FlagsKeep
  <2>2. SendUp(c)
    BY <1>2 DEF Authorized
  <2>3. me.gen # 0 /\ me.failed # me.gen
    BY <1>1 DEF Fits
  <2>. HIDE DEF c
  <2>. QED  BY <1>1, <2>1, <2>2, <2>3, SendUpStep
<1>3. CASE ~Ok("flow")
  <2>1. UpFails(me)
    BY <1>3 DEF Authorized
  <2>. QED  BY <1>1, <2>1, UpFailsStep
<1>. QED  BY <1>2, <1>3

\* The bring-up is published, unless the owner was lost meanwhile.
LEMMA UpDoneStep ==
  ASSUME ControllerInv, Ready("flow"), UpDone
  PROVE  ControllerInv'
<1>. USE Given
<1>1. CASE Owns(me.gen)
  <2>. DEFINE c == [me EXCEPT !.beat = me.gen]
  <2>1. /\ me' = Say(c, "up") /\ flow' = "idle" /\ Idle("flow") /\ FlowOnly
        /\ me.kind = "up"
    BY <1>1 DEF UpDone, Owns
  <2>2. c \in Mind /\ c.kind = me.kind /\ c.gen = me.gen /\ c.failed = me.failed
        /\ c.recanted = me.recanted
    BY DEF Mind
  <2>. HIDE DEF c
  <2>3. /\ me' \in Mind /\ me'.kind = "up" /\ me'.gen = me.gen /\ me'.failed = me.failed
        /\ me'.recanted = (me.recanted \/ me.failed = me.gen)
    BY <2>1, <2>2, SayShape
  <2>4. Sound(me') /\ Fits(me', flow', "idle")
    BY <2>1, <2>3 DEF Sound, Fits
  <2>. QED  BY <2>1, <2>3, <2>4, FlowRests
<1>2. CASE ~Owns(me.gen)
  <2>1. UpFails(me)
    BY <1>2 DEF UpDone
  <2>. QED  BY <2>1, UpFailsStep
<1>. QED  BY <1>1, <1>2

\* The helper's answer to the bring-up: the socket it came on is open.
LEMMA UpAnsweredStep ==
  ASSUME ControllerInv, UpAnswered
  PROVE  ControllerInv'
<1>. USE Given
<1>1. Settled("flow") /\ flow = "up" /\ Ready("flow")
  BY FlowReady DEF UpAnswered
<1>2. me.kind = "owed" /\ (me.failed = me.gen => call["flow"] = "failed") /\ me.gen # 0
  BY <1>1 DEF Fits, Sound
<1>3. CASE Ok("flow")
  <2>1. call["flow"] = "answered" /\ Usable # {} /\ me.failed # me.gen
    BY <1>2, <1>3 DEF Ok, ControllerInv, Wire, OneAnswer
  <2>. DEFINE c == [me EXCEPT !.kind = "up", !.beat = me.gen]
  <2>. DEFINE d == [me EXCEPT !.kind = "up", !.latch = TRUE]
  <2>2. c \in Mind /\ d \in Mind
    <3>. DEFINE u == [me EXCEPT !.kind = "up"]
    <3>1. u \in Mind
      BY DEF Mind
    <3>2. c = [u EXCEPT !.beat = me.gen] /\ d = [u EXCEPT !.latch = TRUE]
      OBVIOUS
    <3>. HIDE DEF u, c, d
    <3>. QED  BY <3>1, <3>2 DEF Mind
  <2>3. /\ c.kind = "up" /\ c.gen = me.gen /\ c.failed = me.failed /\ c.recanted = me.recanted
        /\ d.kind = "up" /\ d.gen = me.gen /\ d.failed = me.failed /\ d.recanted = me.recanted
    BY DEF Mind
  <2>4. \/ me' = Say(c, "up") /\ flow' = "idle" /\ Idle("flow") /\ FlowOnly
        \/ me' = d /\ flow' = "resolvers" /\ Request("flow", "set_resolvers") /\ FlowOnly
    <3>1. \/ /\ me' = Say([me EXCEPT !.kind = "up", !.beat = me.gen], "up")
             /\ flow' = "idle" /\ Idle("flow") /\ FlowOnly
          \/ /\ me' = [me EXCEPT !.kind = "up", !.latch = TRUE]
             /\ flow' = "resolvers" /\ Request("flow", "set_resolvers") /\ FlowOnly
      BY <1>3 DEF UpAnswered, Ok
    <3>. QED  BY <3>1
  <2>. HIDE DEF c, d
  <2>5. CASE me' = Say(c, "up") /\ flow' = "idle" /\ Idle("flow") /\ FlowOnly
    <3>1. /\ me' \in Mind /\ me'.kind = "up" /\ me'.gen = me.gen /\ me'.failed = me.failed
          /\ me'.recanted = (me.recanted \/ me.failed = me.gen)
      BY <2>2, <2>3, <2>5, SayShape
    <3>2. Sound(me') /\ Fits(me', flow', "idle")
      BY <1>2, <2>1, <2>5, <3>1 DEF Sound, Fits
    <3>. QED  BY <1>1, <2>1, <2>5, <3>1, <3>2, FlowRests
  <2>6. CASE me' = d /\ flow' = "resolvers" /\ Request("flow", "set_resolvers") /\ FlowOnly
    <3>1. Sound(me') /\ \A a : Fits(me', flow', a)
      BY <1>2, <2>1, <2>3, <2>6 DEF Sound, Fits
    <3>2. "set_resolvers" \in Verbs /\ flow' \in Flows \ {"idle", "resolve", "signal"}
      BY <2>6 DEF Verbs, Flows
    <3>. QED  BY <1>1, <2>1, <2>2, <2>6, <3>1, <3>2, FlowAsks
  <2>. QED  BY <2>4, <2>5, <2>6
<1>4. CASE ~Ok("flow") /\ call["flow"] = "answered" /\ got["flow"] = "prearm"
  <2>. DEFINE c == [me EXCEPT !.kind = "inactive"]
  <2>1. UpFails(c)
    BY <1>4 DEF UpAnswered
  <2>2. c \in Mind /\ c.kind = "inactive" /\ c.recanted = me.recanted
    BY DEF Mind
  <2>. HIDE DEF c
  <2>3. Sound(c)
    BY <2>2 DEF Sound
  <2>. QED  BY <1>1, <2>1, <2>2, <2>3, UpFailsStep
<1>5. CASE ~Ok("flow") /\ ~(call["flow"] = "answered" /\ got["flow"] = "prearm")
  <2>. DEFINE c == PublishFailedOnce(me)
  <2>1. UpFails(c)
    BY <1>5 DEF UpAnswered
  <2>2. c \in Mind /\ c.kind = "owed" /\ c.gen = me.gen /\ c.recanted = me.recanted
    BY <1>2, PublishShape
  <2>. HIDE DEF c
  <2>3. Sound(c)
    BY <1>2, <2>2 DEF Sound
  <2>. QED  BY <1>1, <2>1, <2>2, <2>3, UpFailsStep
<1>. QED  BY <1>3, <1>4, <1>5

LEMMA UpResolvedStep ==
  ASSUME ControllerInv, UpResolved
  PROVE  ControllerInv'
<1>1. Ready("flow") /\ UpDone
  BY FlowReady DEF UpResolved
<1>. QED  BY <1>1, UpDoneStep

LEMMA DownAsksStep ==
  ASSUME ControllerInv, Ready("flow"), NEW c \in Mind, Sound(c), c.kind # "up", DownAsks(c)
  PROVE  ControllerInv'
<1>1. me' = c /\ flow' = "down" /\ Request("flow", "tunnel_down") /\ FlowOnly
  BY DEF DownAsks
<1>2. \A a : Fits(me', flow', a)
  BY <1>1 DEF Fits
<1>3. "tunnel_down" \in Verbs /\ flow' \in Flows \ {"idle", "resolve", "signal"}
  BY <1>1 DEF Verbs, Flows
<1>. QED  BY <1>1, <1>2, <1>3, FlowAsks

LEMMA BeginDownStep ==
  ASSUME ControllerInv, BeginDown
  PROVE  ControllerInv'
<1>. USE Given
<1>. DEFINE r == Release(me)
<1>. DEFINE n == [r EXCEPT !.gen = r.gen + 1]
<1>. DEFINE c == [n EXCEPT !.beat = 0, !.failed = 0, !.kind = "owed"]
<1>1. /\ Quiet /\ flow = "idle" /\ me.kind # "inactive" /\ me.gen < MaxGen /\ Ready("flow")
      /\ IF me.latch
         THEN me' = c /\ flow' = "sweep" /\ Request("flow", "sweep") /\ FlowOnly
         ELSE DownAsks(c)
  BY FlowReady DEF BeginDown, NewGen
<1>2. r \in Mind /\ r.kind = me.kind /\ r.gen = me.gen /\ r.recanted = me.recanted
  BY ReleaseKeeps
<1>. HIDE DEF r
<1>3. r.gen + 1 \in 1..MaxGen
  BY <1>1, <1>2
<1>4. n \in Mind /\ n.gen = r.gen + 1 /\ n.recanted = r.recanted
  BY <1>2, <1>3 DEF Mind
<1>. HIDE DEF n
<1>5. c \in Mind
  <2>. DEFINE a == [n EXCEPT !.beat = 0]
  <2>. DEFINE b == [a EXCEPT !.failed = 0]
  <2>1. a \in Mind
    BY <1>4 DEF Mind
  <2>2. c = [b EXCEPT !.kind = "owed"]
    OBVIOUS
  <2>. HIDE DEF a
  <2>3. b \in Mind
    BY <2>1 DEF Mind
  <2>. HIDE DEF b, c
  <2>. QED  BY <2>2, <2>3 DEF Mind
<1>6. c.kind = "owed" /\ c.gen = n.gen /\ c.recanted = n.recanted
  BY <1>4 DEF Mind
<1>. HIDE DEF c
<1>7. Sound(c) /\ c.kind # "up"
  BY <1>2, <1>3, <1>4, <1>6 DEF Sound
<1>8. CASE me.latch
  <2>1. \A a : Fits(c, "sweep", a)
    BY <1>7 DEF Fits
  <2>2. "sweep" \in Verbs /\ "sweep" \in Flows \ {"idle", "resolve", "signal"}
    BY DEF Verbs, Flows
  <2>. QED  BY <1>1, <1>5, <1>7, <1>8, <2>1, <2>2, FlowAsks
<1>9. CASE ~me.latch
  BY <1>1, <1>5, <1>7, <1>9, DownAsksStep
<1>. QED  BY <1>8, <1>9

LEMMA SweptStep ==
  ASSUME ControllerInv, Swept
  PROVE  ControllerInv'
<1>. USE Given
<1>1. Settled("flow") /\ flow = "sweep" /\ Ready("flow")
  BY FlowReady DEF Swept
<1>2. me.kind # "up"
  BY <1>1 DEF Fits
<1>. DEFINE c == IF Ok("flow") THEN [me EXCEPT !.latch = FALSE] ELSE me
<1>3. c \in Mind /\ Sound(c) /\ c.kind = me.kind
  <2>1. c = me \/ c = [me EXCEPT !.latch = FALSE]
    OBVIOUS
  <2>. HIDE DEF c
  <2>. QED  BY <2>1, FlagsKeep
<1>4. DownAsks(c)
  BY DEF Swept
<1>. HIDE DEF c
<1>. QED  BY <1>1, <1>2, <1>3, <1>4, DownAsksStep

LEMMA DownAnsweredStep ==
  ASSUME ControllerInv, DownAnswered
  PROVE  ControllerInv'
<1>. USE Given
<1>1. Settled("flow") /\ flow = "down" /\ Ready("flow") /\ flow' = "idle" /\ FlowOnly
  BY FlowReady DEF DownAnswered
<1>2. CASE Ok("flow")
  <2>1. me' = Down(me) /\ CloseSocket("flow")
    BY <1>2 DEF DownAnswered
  <2>2. me' \in Mind /\ me'.kind = "inactive" /\ me'.recanted = me.recanted
    BY <2>1, DownShape
  <2>3. Sound(me')
    BY <2>2 DEF Sound
  <2>. QED  BY <1>1, <2>1, <2>2, <2>3, FlowCloses
<1>3. CASE ~Ok("flow")
  <2>. DEFINE c == IF call["flow"] = "answered" THEN [me EXCEPT !.latch = TRUE] ELSE me
  <2>1. me' = PublishFailedOnce(c) /\ Idle("flow")
    BY <1>3 DEF DownAnswered
  <2>2. c \in Mind /\ Sound(c) /\ c.kind = me.kind
    <3>1. c = me \/ c = [me EXCEPT !.latch = TRUE]
      OBVIOUS
    <3>. HIDE DEF c
    <3>. QED  BY <3>1, FlagsKeep
  <2>3. me.kind # "up"
    BY <1>1 DEF Fits
  <2>. HIDE DEF c
  <2>4. me' \in Mind /\ me'.kind = c.kind /\ me'.gen = c.gen /\ me'.recanted = c.recanted
    BY <2>1, <2>2, PublishShape
  <2>5. Sound(me') /\ Fits(me', flow', "idle")
    BY <1>1, <2>2, <2>3, <2>4 DEF Sound, Fits
  <2>. QED  BY <1>1, <2>1, <2>2, <2>3, <2>4, <2>5, FlowRests
<1>. QED  BY <1>2, <1>3

LEMMA FailClosedStep ==
  ASSUME ControllerInv, FailClosed
  PROVE  ControllerInv'
<1>. USE Given
<1>. DEFINE c == [me EXCEPT !.kind = "owed", !.beat = 0, !.latch = TRUE]
<1>1. /\ Quiet /\ flow = "idle" /\ me.kind # "inactive" /\ Ready("flow")
      /\ me' = PublishFailedOnce(c) /\ CloseSocket("flow") /\ flow' = "idle" /\ FlowOnly
  BY FlowReady DEF FailClosed
<1>2. c \in Mind
  BY SetThree
<1>3. c.kind = "owed" /\ c.gen = me.gen /\ c.recanted = me.recanted
  BY DEF Mind
<1>. HIDE DEF c
<1>4. me' \in Mind /\ me'.kind = "owed" /\ me'.gen = me.gen /\ me'.recanted = me.recanted
  BY <1>1, <1>2, <1>3, PublishShape
<1>5. Sound(me')
  BY <1>1, <1>4 DEF Sound
<1>. QED  BY <1>1, <1>4, <1>5, FlowCloses

LEMMA StatusStep ==
  ASSUME ControllerInv, Status
  PROVE  ControllerInv'
<1>. USE Given
<1>1. /\ Quiet /\ flow = "idle" /\ me.gen < MaxGen /\ Ready("flow")
      /\ me' = me /\ flow' = "status" /\ Request("flow", "status") /\ FlowOnly
  BY FlowReady DEF Status, Begin
<1>2. \A a : Fits(me', flow', a)
  BY <1>1 DEF Fits
<1>3. "status" \in Verbs /\ flow' \in Flows \ {"idle", "resolve", "signal"}
  BY <1>1 DEF Verbs, Flows
<1>. QED  BY <1>1, <1>2, <1>3, FlowAsks

\* A status read may find the tunnel anew or gone, and never says up of a failed one.
LEMMA StatusAnsweredStep ==
  ASSUME ControllerInv, StatusAnswered
  PROVE  ControllerInv'
<1>. USE Given
<1>1. /\ Settled("flow") /\ flow = "status" /\ Ready("flow")
      /\ flow' = "idle" /\ Idle("flow") /\ FlowOnly
      /\ me' = IF call["flow"] = "answered" /\ got["flow"] \in {"down", "up", "failed"}
               THEN LET c == Reconcile(me, got["flow"]) IN Say(c, Shown(c, got["flow"]))
               ELSE me
  BY FlowReady DEF StatusAnswered
<1>2. me.gen < MaxGen
  BY <1>1 DEF Fits
<1>3. \A a : Fits(me', flow', a)
  BY <1>1 DEF Fits
<1>4. CASE call["flow"] = "answered" /\ got["flow"] \in {"down", "up", "failed"}
  <2>1. PICK state \in {"down", "up", "failed"} : state = got["flow"]
    BY <1>4
  <2>. DEFINE c == Reconcile(me, state)
  <2>2. c \in Mind /\ Sound(c) /\ (c.kind = "up" => me.kind = "up")
    BY <1>2, ReconcileShape
  <2>3. me' = Say(c, Shown(c, state))
    BY <1>1, <1>4, <2>1
  <2>. HIDE DEF c
  <2>4. Shown(c, state) \in {"down", "up", "failed"}
        /\ (Shown(c, state) = "up" => c.failed # c.gen)
    BY DEF Shown
  <2>5. /\ me' \in Mind /\ me'.kind = c.kind /\ me'.gen = c.gen /\ me'.failed = c.failed
        /\ me'.recanted = c.recanted
    <3>1. PICK word \in {"down", "up", "failed"} : word = Shown(c, state)
      BY <2>4
    <3>2. /\ me' \in Mind /\ me'.kind = c.kind /\ me'.gen = c.gen /\ me'.failed = c.failed
          /\ me'.recanted = (c.recanted \/ (word = "up" /\ c.failed = c.gen))
      BY <2>2, <2>3, <3>1, SayShape
    <3>3. ~(word = "up" /\ c.failed = c.gen) /\ c.recanted \in BOOLEAN
      BY <2>2, <2>4, <3>1, FieldsOf
    <3>. QED  BY <3>2, <3>3
  <2>6. Sound(me')
    BY <2>2, <2>5 DEF Sound
  <2>. QED  BY <1>1, <1>3, <2>2, <2>5, <2>6, FlowRests
<1>5. CASE ~(call["flow"] = "answered" /\ got["flow"] \in {"down", "up", "failed"})
  <2>1. me' = me
    BY <1>1, <1>5
  <2>. QED  BY <1>1, <1>3, <2>1, FlowRests
<1>. QED  BY <1>4, <1>5

LEMMA UpdateStep ==
  ASSUME ControllerInv, Update
  PROVE  ControllerInv'
<1>. USE Given
<1>1. /\ Quiet /\ flow = "idle" /\ Ready("flow")
      /\ me' = me \/ me' = [me EXCEPT !.latch = TRUE]
      /\ flow' = "update" /\ Request("flow", "update") /\ FlowOnly
  BY FlowReady DEF Update, Begin
<1>2. me' \in Mind /\ Sound(me') /\ me'.kind = me.kind
  BY <1>1, FlagsKeep
<1>3. \A a : Fits(me', flow', a)
  BY <1>1 DEF Fits
<1>4. "update" \in Verbs /\ flow' \in Flows \ {"idle", "resolve", "signal"}
  BY <1>1 DEF Verbs, Flows
<1>. QED  BY <1>1, <1>2, <1>3, <1>4, FlowAsks

LEMMA RepeerStep ==
  ASSUME ControllerInv, Repeer
  PROVE  ControllerInv'
<1>. USE Given
<1>1. /\ Quiet /\ flow = "idle" /\ Ready("flow")
      /\ me' = me /\ flow' = "peer" /\ Request("flow", "update") /\ FlowOnly
  BY FlowReady DEF Repeer, Begin
<1>2. me' \in Mind /\ Sound(me') /\ me'.kind = me.kind
  BY <1>1, FlagsKeep
<1>3. \A a : Fits(me', flow', a)
  BY <1>1 DEF Fits
<1>4. "update" \in Verbs /\ flow' \in Flows \ {"idle", "resolve", "signal"}
  BY <1>1 DEF Verbs, Flows
<1>. QED  BY <1>1, <1>2, <1>3, <1>4, FlowAsks

LEMMA UpdatedStep ==
  ASSUME ControllerInv, Updated
  PROVE  ControllerInv'
<1>. USE Given
<1>1. /\ Settled("flow") /\ Ready("flow")
      /\ me' = me \/ me' = [me EXCEPT !.latch = FALSE]
      /\ flow' = "idle" /\ Idle("flow") /\ FlowOnly
  BY FlowReady DEF Updated
<1>2. me' \in Mind /\ Sound(me') /\ me'.kind = me.kind
  BY <1>1, FlagsKeep
<1>3. Fits(me', flow', "idle")
  BY <1>1 DEF Fits
<1>. QED  BY <1>1, <1>2, <1>3, FlowRests

LEMMA RehomeStep ==
  ASSUME ControllerInv, Rehome
  PROVE  ControllerInv'
<1>. USE Given
<1>1. /\ Quiet /\ flow = "idle" /\ Ready("flow")
      /\ me' = Release(OnLost(me)) /\ CloseSocket("flow") /\ flow' = "idle" /\ FlowOnly
  BY FlowReady DEF Rehome
<1>2. OnLost(me) \in Mind /\ Sound(OnLost(me)) /\ OnLost(me).kind # "up"
      /\ Fits(OnLost(me), flow, "failed")
  BY LostFits
<1>3. me' \in Mind /\ Sound(me') /\ me'.kind # "up"
  BY <1>1, <1>2, ReleaseFits, ReleaseKeeps
<1>. QED  BY <1>1, <1>3, FlowCloses

-----------------------------------------------------------------------------
(* The heartbeat.                                                          *)

LEMMA BeatReady ==
  ASSUME ControllerInv, Settled("beat") \/ (Quiet /\ tick.at \in {"idle", "read"})
  PROVE  Ready("beat")
<1>1. CASE Settled("beat")
  BY <1>1, ReadyWhenSettled DEF ControllerInv
<1>2. CASE Quiet /\ tick.at \in {"idle", "read"}
  <2>1. call["beat"] = "idle"
    BY <1>2 DEF ControllerInv, Calling
  <2>. QED  BY <1>2, <2>1, ReadyWhenQuiet
<1>. QED  BY <1>1, <1>2

LEMMA BeatAwaits ==
  ASSUME ControllerInv, flow' = flow, NEW stage, NEW g \in 0..MaxGen, tick' = [at |-> stage, gen |-> g],
         \/ stage \in {"authorize", "status"} /\ call'["beat"] \in {"asked", "sent"}
         \/ stage \in {"idle", "read"} /\ call'["beat"] = "idle",
         call'["flow"] = "idle" <=> call["flow"] = "idle"
  PROVE  Standing' /\ Calling'
BY DEF ControllerInv, Standing, Calling

\* The heartbeat starts a request, or ends its tick.
LEMMA BeatAsks ==
  ASSUME ControllerInv, Ready("beat"), NEW verb \in Verbs, Request("beat", verb), flow' = flow,
         NEW stage \in {"authorize", "status"}, NEW g \in 0..MaxGen, tick' = [at |-> stage, gen |-> g],
         me' \in Mind, Sound(me'), me'.kind = "up" => Usable # {}, Fits(me', flow, call["flow"])
  PROVE  ControllerInv'
<1>1. Wire' /\ Only("beat", {"asked", "sent"}) /\ Usable' = Usable
  BY RequestStep DEF ControllerInv
<1>2. call'["flow"] = call["flow"] /\ call'["beat"] \in {"asked", "sent"}
  BY <1>1 DEF Only
<1>3. Standing' /\ Calling'
  BY <1>2, BeatAwaits
<1>4. Fits(me', flow', call'["flow"])
  BY <1>2
<1>. QED  BY <1>1, <1>3, <1>4, Assembled

LEMMA BeatRests ==
  ASSUME ControllerInv, Ready("beat"), Idle("beat"), flow' = flow, TickEnds,
         me' \in Mind, Sound(me'), me'.kind = "up" => Usable # {}, Fits(me', flow, call["flow"])
  PROVE  ControllerInv'
<1>1. Wire' /\ Only("beat", {"idle"}) /\ Usable' = Usable
  BY IdleStep DEF ControllerInv
<1>2. call'["flow"] = call["flow"] /\ call'["beat"] = "idle"
  BY <1>1 DEF Only
<1>3. Standing' /\ Calling'
  BY <1>2, BeatAwaits DEF TickEnds
<1>4. Fits(me', flow', call'["flow"])
  BY <1>2
<1>. QED  BY <1>1, <1>3, <1>4, Assembled

\* The relay's session has failed: the socket is closed under the lane's operation.
LEMMA BeatFailsStep ==
  ASSUME ControllerInv, Ready("beat"), BeatFails
  PROVE  ControllerInv'
<1>. USE Given
<1>1. TickEnds /\ flow' = flow
  BY DEF BeatFails, BeatOnly
<1>2. CASE me.relay /\ tick.gen = me.gen
  <2>1. me' = OnLost(Release(me)) /\ CloseSocket("beat")
    BY <1>2 DEF BeatFails
  <2>2. /\ Wire' /\ call'["beat"] = "idle"
        /\ \A q \in Calls \ {"beat"} : call'[q] = IF call[q] = "idle" THEN "idle" ELSE "failed"
    BY <2>1, CloseStep DEF ControllerInv
  <2>3. call'["flow"] = IF call["flow"] = "idle" THEN "idle" ELSE "failed"
    BY <2>2
  <2>4. flow = "up" => call'["flow"] = "failed"
    BY <2>3 DEF ControllerInv, Calling
  <2>5. Release(me) \in Mind /\ Sound(Release(me)) /\ Fits(Release(me), flow, call["flow"])
    BY ReleaseFits
  <2>6. me' \in Mind /\ Sound(me') /\ Fits(me', flow, call'["flow"]) /\ me'.kind # "up"
    BY <2>1, <2>4, <2>5, LostFits
  <2>7. Standing' /\ Calling'
    BY <1>1, <2>2, <2>3, BeatAwaits DEF TickEnds
  <2>8. Fits(me', flow', call'["flow"])
    BY <1>1, <2>6
  <2>. QED  BY <2>2, <2>6, <2>7, <2>8, Assembled
<1>3. CASE ~(me.relay /\ tick.gen = me.gen)
  <2>1. me' = me /\ Idle("beat")
    BY <1>3 DEF BeatFails
  <2>. QED  BY <1>1, <2>1, BeatRests
<1>. QED  BY <1>2, <1>3

LEMMA TickOf ==
  ASSUME ControllerInv, NEW stage, NEW verb, TickAsks(stage, verb)
  PROVE  tick.gen \in 0..MaxGen /\ tick' = [at |-> stage, gen |-> tick.gen] /\ Request("beat", verb)
BY DEF ControllerInv, Standing, TickAsks

LEMMA BeatStep ==
  ASSUME ControllerInv, Beat
  PROVE  ControllerInv'
<1>. USE Given
<1>1. /\ Quiet /\ tick.at = "idle" /\ me.beat \in 0..MaxGen /\ Ready("beat")
      /\ me' = me /\ flow' = flow
  BY BeatReady, FieldsOf DEF Beat, BeatOnly
<1>2. CASE me.relay
  <2>1. tick' = [at |-> "read", gen |-> me.beat] /\ UNCHANGED <<channel, got>> /\ UNCHANGED helper
    BY <1>2 DEF Beat
  <2>2. Wire' /\ call' = call /\ Usable' = Usable
    BY <2>1, WireKept DEF ControllerInv
  <2>3. call["beat"] = "idle"
    BY <1>1 DEF ControllerInv, Calling
  <2>4. Standing' /\ Calling'
    BY <1>1, <2>1, <2>2, <2>3, BeatAwaits
  <2>. QED  BY <1>1, <2>2, <2>4, Assembled
<1>3. CASE ~me.relay
  <2>1. tick' = [at |-> "status", gen |-> me.beat] /\ Request("beat", "status")
    BY <1>3 DEF Beat
  <2>2. "status" \in Verbs
    BY DEF Verbs
  <2>. QED  BY <1>1, <2>1, <2>2, BeatAsks
<1>. QED  BY <1>2, <1>3

LEMMA BeatReadStep ==
  ASSUME ControllerInv, BeatRead
  PROVE  ControllerInv'
<1>. USE Given
<1>1. Ready("beat") /\ "relay" \in Verbs
  BY BeatReady DEF BeatRead, Verbs
<1>2. CASE me' = me /\ TickAsks("authorize", "relay") /\ BeatOnly
  BY <1>1, <1>2, TickOf, BeatAsks DEF BeatOnly
<1>3. CASE me' = me /\ TickEnds /\ Idle("beat") /\ BeatOnly
  BY <1>1, <1>3, BeatRests DEF BeatOnly
<1>4. CASE BeatFails
  BY <1>1, <1>4, BeatFailsStep
<1>. QED  BY <1>2, <1>3, <1>4 DEF BeatRead

LEMMA BeatAuthorizedStep ==
  ASSUME ControllerInv, BeatAuthorized
  PROVE  ControllerInv'
<1>. USE Given
<1>1. Ready("beat") /\ "status" \in Verbs
  BY BeatReady DEF BeatAuthorized, Verbs
<1>2. CASE Ok("beat")
  <2>1. me' = [me EXCEPT !.leased = me.relay] /\ TickAsks("status", "status") /\ flow' = flow
    BY <1>2 DEF BeatAuthorized, BeatOnly
  <2>2. me.relay \in BOOLEAN
    BY FieldsOf
  <2>3. me' \in Mind /\ Sound(me') /\ me'.kind = me.kind /\ Fits(me', flow, call["flow"])
    BY <2>1, <2>2, FlagsKeep
  <2>. QED  BY <1>1, <2>1, <2>3, TickOf, BeatAsks
<1>3. CASE ~Ok("beat")
  <2>1. BeatFails
    BY <1>3 DEF BeatAuthorized
  <2>. QED  BY <1>1, <2>1, BeatFailsStep
<1>. QED  BY <1>2, <1>3

\* What the heartbeat learns counts for the ownership it was started for.
LEMMA BeatAnsweredStep ==
  ASSUME ControllerInv, BeatAnswered
  PROVE  ControllerInv'
<1>. USE Given
<1>1. Ready("beat") /\ Settled("beat")
  BY BeatReady DEF BeatAnswered
<1>2. CASE call["beat"] = "failed"
  <2>1. BeatFails
    BY <1>2 DEF BeatAnswered
  <2>. QED  BY <1>1, <2>1, BeatFailsStep
<1>3. CASE call["beat"] # "failed"
  <2>1. /\ TickEnds /\ Idle("beat") /\ flow' = flow
        /\ me' = IF Owns(tick.gen) /\ got["beat"] \in {"down", "up", "failed"}
                 THEN LET c == Reconcile(me, got["beat"]) IN
                        IF got["beat"] = "failed" THEN PublishFailedOnce(c) ELSE Say(c, got["beat"])
                 ELSE me
    BY <1>3 DEF BeatAnswered, BeatOnly
  <2>2. CASE ~(Owns(tick.gen) /\ got["beat"] \in {"down", "up", "failed"})
    <3>1. me' = me
      BY <2>1, <2>2
    <3>. QED  BY <1>1, <2>1, <3>1, BeatRests
  <2>3. CASE Owns(tick.gen) /\ got["beat"] \in {"down", "up", "failed"}
    <3>1. PICK state \in {"down", "up", "failed"} : state = got["beat"]
      BY <2>3
    <3>2. me.kind = "up" /\ me.failed # me.gen
      BY <2>3 DEF Owns, Sound
    <3>. DEFINE c == Reconcile(me, state)
    <3>3. /\ c \in Mind /\ Sound(c) /\ c.gen = me.gen
          /\ c.kind = "up" => state = "up"
          /\ state = "up" => c = me
      BY <3>2, ReconcileShape
    <3>4. me' = IF state = "failed" THEN PublishFailedOnce(c) ELSE Say(c, state)
      BY <2>1, <2>3, <3>1
    <3>. HIDE DEF c
    <3>5. ~c.recanted
      BY <3>3 DEF Sound
    <3>6. me' \in Mind /\ me'.gen = c.gen /\ me'.kind = c.kind /\ ~me'.recanted
          /\ (state = "failed" \/ me'.failed = c.failed)
      <4>1. CASE state = "failed"
        BY <3>3, <3>4, <3>5, <4>1, PublishShape
      <4>2. CASE state # "failed"
        <5>1. /\ me' \in Mind /\ me'.gen = c.gen /\ me'.kind = c.kind /\ me'.failed = c.failed
              /\ me'.recanted = (c.recanted \/ (state = "up" /\ c.failed = c.gen))
          BY <3>3, <3>4, <4>2, SayShape
        <5>2. ~(state = "up" /\ c.failed = c.gen)
          BY <3>2, <3>3
        <5>. QED  BY <3>5, <5>1, <5>2
      <4>. QED  BY <4>1, <4>2
    <3>7. Sound(me')
      BY <3>3, <3>6 DEF Sound
    <3>8. Fits(me', flow, call["flow"])
      BY <3>2, <3>3, <3>6 DEF Fits
    <3>. QED  BY <1>1, <2>1, <3>2, <3>6, <3>7, <3>8, BeatRests
  <2>. QED  BY <2>2, <2>3
<1>. QED  BY <1>2, <1>3

LEMMA LeaseEndsStep ==
  ASSUME ControllerInv, LeaseEnds
  PROVE  ControllerInv'
<1>. USE Given
<1>1. /\ me' = [me EXCEPT !.leased = FALSE] /\ UNCHANGED <<channel, got>> /\ UNCHANGED helper
      /\ flow' = flow /\ tick' = tick
  BY DEF LeaseEnds
<1>2. Wire' /\ call' = call /\ Usable' = Usable
  BY <1>1, WireKept DEF ControllerInv
<1>3. me' \in Mind /\ Sound(me') /\ me'.kind = me.kind /\ Fits(me', flow, call["flow"])
  BY <1>1, FlagsKeep
<1>4. Standing' /\ Calling'
  BY <1>1, <1>2 DEF ControllerInv, Standing, Calling
<1>. QED  BY <1>1, <1>2, <1>3, <1>4, Assembled

-----------------------------------------------------------------------------
(* Events.                                                                 *)

LEMMA ProceedsStep ==
  ASSUME ControllerInv, NEW r \in Calls, Proceed(r)
  PROVE  ControllerInv'
<1>. USE Given
<1>1. call[r] = "asked"
  BY DEF Proceed, Send
<1>2. VerbOf(r) \in Verbs
  BY <1>1, VerbIsOne DEF ControllerInv
<1>3. /\ Wire' /\ Only(r, {"sent"}) /\ Usable' = Usable /\ UNCHANGED client
  BY <1>2, ProceedStep DEF ControllerInv
<1>4. me' = me /\ flow' = flow /\ tick' = tick
  BY <1>3 DEF client
<1>5. \A q \in Calls : call'[q] = call[q] \/ (call[q] = "asked" /\ call'[q] = "sent")
  BY <1>1, <1>3 DEF Only
<1>6. Standing' /\ Calling'
  BY <1>4, <1>5 DEF ControllerInv, Standing, Calling
<1>7. Fits(me', flow', call'["flow"])
  BY <1>4, <1>5 DEF Fits
<1>. QED  BY <1>3, <1>4, <1>6, <1>7, Assembled

LEMMA AttemptFailedStep ==
  ASSUME ControllerInv, AttemptFails
  PROVE  ControllerInv'
<1>. USE Given
<1>1. /\ Wire' /\ UNCHANGED <<me, flow, tick>> /\ Usable' = Usable
      /\ \A r \in Calls : call'[r] = IF call[r] = "asked" THEN "failed" ELSE call[r]
  BY AttemptFailsStep DEF ControllerInv
<1>2. Standing' /\ Calling'
  BY <1>1 DEF ControllerInv, Standing, Calling
<1>3. Fits(me', flow', call'["flow"])
  BY <1>1 DEF Fits
<1>. QED  BY <1>1, <1>2, <1>3, Assembled

LEMMA ConnectsStep ==
  ASSUME ControllerInv, NEW s \in Sockets, Connected(s)
  PROVE  ControllerInv'
<1>. USE Given
<1>1. Wire' /\ UNCHANGED <<me, flow, tick, call>> /\ Usable' # {}
  BY ConnectedStep DEF ControllerInv
<1>2. Standing' /\ Calling'
  BY <1>1 DEF ControllerInv, Standing, Calling
<1>. QED  BY <1>1, <1>2, Assembled

LEMMA ReplyStep ==
  ASSUME ControllerInv, NEW s \in Sockets, Delivered(s)
  PROVE  ControllerInv'
<1>. USE Given
<1>1. Wire' /\ UNCHANGED <<me, flow, tick>> /\ Usable' = Usable
  BY DeliveredStep DEF ControllerInv
<1>2. PICK r \in Calls : call[r] = "sent" /\ Only(r, {"answered"})
  BY DeliveredStep DEF ControllerInv
<1>3. \A q \in Calls : call'[q] = call[q] \/ (call[q] = "sent" /\ call'[q] = "answered")
  BY <1>2 DEF Only
<1>4. Standing' /\ Calling'
  BY <1>1, <1>3 DEF ControllerInv, Standing, Calling
<1>5. Fits(me', flow', call'["flow"])
  BY <1>1, <1>3 DEF Fits
<1>. QED  BY <1>1, <1>4, <1>5, Assembled

\* The owner is lost with its socket, and every call on it fails.
LEMMA EndStep ==
  ASSUME ControllerInv, NEW s \in Sockets, SocketEnds(s)
  PROVE  ControllerInv'
<1>. USE Given
<1>1. /\ Wire' /\ me' = OnLost(me) /\ UNCHANGED <<flow, tick>>
      /\ \A r \in Calls : call'[r] = IF call[r] = "idle" THEN "idle" ELSE "failed"
  BY SocketEndsStep DEF ControllerInv
<1>2. Standing' /\ Calling'
  BY <1>1 DEF ControllerInv, Standing, Calling
<1>3. flow = "up" => call'["flow"] = "failed"
  BY <1>1 DEF ControllerInv, Calling
<1>4. me' \in Mind /\ Sound(me') /\ Fits(me', flow, call'["flow"]) /\ me'.kind # "up"
  BY <1>1, <1>3, LostFits
<1>5. Fits(me', flow', call'["flow"])
  BY <1>1, <1>4
<1>. QED  BY <1>1, <1>2, <1>4, <1>5, Assembled

LEMMA ProcessEndsStep ==
  ASSUME ControllerInv, Exits
  PROVE  ControllerInv'
<1>. USE Given
<1>1. Wire' /\ \A r \in Calls : call'[r] = "idle"
  BY ExitsStep DEF ControllerInv
<1>2. me' = [Fresh EXCEPT !.gen = me.gen] /\ flow' = "idle" /\ tick' = [at |-> "idle", gen |-> 0]
  BY DEF Exits
<1>3. me' \in Mind /\ me'.kind = "inactive" /\ ~me'.recanted
  <2>1. Fresh \in Mind /\ Fresh.kind = "inactive" /\ Fresh.recanted = FALSE
    BY DEF Mind, Fresh
  <2>. QED  BY <1>2, <2>1 DEF Mind
<1>4. Sound(me') /\ Fits(me', flow', call'["flow"])
  BY <1>2, <1>3 DEF Sound, Fits
<1>5. Standing' /\ Calling'
  BY <1>1, <1>2 DEF Standing, Calling, Flows
<1>. QED  BY <1>1, <1>3, <1>4, <1>5, Assembled

LEMMA HelperStep ==
  ASSUME ControllerInv,
         (\E s \in Sockets : Handler(s)) \/ DeadMan \/ HelperCrash
  PROVE  ControllerInv'
<1>. USE Given
<1>1. Wire' /\ UNCHANGED <<channel, client>> /\ Usable' = Usable
  BY ExecuteStep, HandlerEndsStep, HelperFallsStep DEF ControllerInv, Handler
<1>2. UNCHANGED <<me, flow, tick, call>>
  BY <1>1 DEF channel, client
<1>3. Standing' /\ Calling'
  BY <1>2 DEF ControllerInv, Standing, Calling
<1>. QED  BY <1>1, <1>2, <1>3, Assembled

-----------------------------------------------------------------------------
(* The theorems about the controller.                                      *)

LEMMA ControllerStarts ==
  ASSUME ControllerInit
  PROVE  ControllerInv
<1>. USE DEF ControllerInit, ChannelInit
<1>1. WireTypes
  <2>1. todo \in [Sockets -> Seq([call : Calls, verb : Verbs])]
        /\ back \in [Sockets -> Seq([call : Calls, out : Outcomes])]
    OBVIOUS
  <2>2. host \in [state : {"down", "up", "failed"}, owner : Sockets \cup {NoSocket}]
    OBVIOUS
  <2>. QED  BY <2>1, <2>2 DEF WireTypes, ChannelTypeOK
<1>2. OneOpen /\ Bound /\ OneAnswer
  BY DEF OneOpen, Bound, OneAnswer, IsOpen
<1>3. Standing /\ Calling
  BY DEF Standing, Calling, Flows
<1>4. Holds
  <2>1. me \in Mind /\ me.kind = "inactive" /\ ~me.recanted
    BY DEF Mind, Fresh
  <2>2. Sound(me) /\ Fits(me, flow, call["flow"]) /\ UpHasItsSocket
    BY <2>1 DEF Sound, Fits, UpHasItsSocket
  <2>. QED  BY <2>1, <2>2 DEF Holds
<1>. QED  BY <1>1, <1>2, <1>3, <1>4 DEF ControllerInv, Wire

LEMMA ControllerSteps ==
  ASSUME ControllerInv, [ControllerNext]_tunnel
  PROVE  ControllerInv'
<1>1. CASE Operation
  BY <1>1, UpStep, BeginDownStep, FailClosedStep, StatusStep, UpdateStep, RepeerStep, RehomeStep DEF Operation
<1>2. CASE Continuation
  BY <1>2, PreparedStep, AuthorizedStep, UpAnsweredStep, UpResolvedStep, SweptStep,
     DownAnsweredStep, StatusAnsweredStep, UpdatedStep, BeatAuthorizedStep, BeatAnsweredStep,
     ProceedsStep DEF Continuation
<1>3. CASE Outside
  BY <1>3, ResolvedStep, SignalledStep, BeatReadStep, LeaseEndsStep DEF Outside
<1>4. CASE Beat \/ Exits \/ AttemptFails
  BY <1>4, BeatStep, ProcessEndsStep, AttemptFailedStep
<1>5. CASE \E s \in Sockets : Network(s)
  BY <1>5, ConnectsStep, ReplyStep, EndStep DEF Network
<1>6. CASE (\E s \in Sockets : Handler(s)) \/ DeadMan \/ HelperCrash
  BY <1>6, HelperStep
<1>7. CASE UNCHANGED tunnel
  <2>1. UNCHANGED <<channel, got>> /\ UNCHANGED helper /\ UNCHANGED <<me, flow, tick>>
    BY <1>7 DEF tunnel, client
  <2>2. Wire' /\ call' = call /\ Usable' = Usable
    BY <2>1, WireKept DEF ControllerInv
  <2>3. Standing' /\ Calling'
    BY <2>1, <2>2 DEF ControllerInv, Standing, Calling
  <2>. QED  BY <2>1, <2>2, <2>3, Given, Assembled
<1>. QED  BY <1>1, <1>2, <1>3, <1>4, <1>5, <1>6, <1>7 DEF ControllerNext

\* The strengthened invariant is one.
THEOREM ControllerInvariance == ControllerSpec => []ControllerInv
<1>1. ControllerInit => ControllerInv
  BY ControllerStarts
<1>2. ControllerInv /\ [ControllerNext]_tunnel => ControllerInv'
  BY ControllerSteps
<1>. QED  BY <1>1, <1>2, PTL DEF ControllerSpec

\* Whatever the calls answer, every field, queue and outcome stays in its range: no
\* generation beyond the last, no reply to a call that does not exist.
THEOREM ControllerTyping == ControllerSpec => []ControllerTypeOK
<1>1. ControllerInv => ControllerTypeOK
  BY DEF ControllerInv, Wire, WireTypes, Standing, Holds, Mind, ControllerTypeOK
<1>. QED  BY <1>1, ControllerInvariance, PTL

\* However sockets end, a heartbeat closing one under the lane's operation included, a
\* tunnel the controller takes for its own has an open socket (main/tunnel.ts onLost).
THEOREM SocketTheorem == ControllerSpec => []UpHasItsSocket
<1>1. ControllerInv => UpHasItsSocket
  BY DEF ControllerInv, Holds
<1>. QED  BY <1>1, ControllerInvariance, PTL

\* No status read, heartbeat or late answer publishes a generation as up whose failure
\* was published (main/tunnel.ts publishFailedOnce).
THEOREM FinalTheorem == ControllerSpec => []FailedIsFinal
<1>1. ControllerInv => FailedIsFinal
  BY DEF ControllerInv, Holds, Sound, FailedIsFinal
<1>. QED  BY <1>1, ControllerInvariance, PTL

=============================================================================
