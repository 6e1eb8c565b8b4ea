-------------------------- MODULE ManagedLifecycle --------------------------
(***************************************************************************)
(* The lifecycle of a managed session in the Electron main process         *)
(* (managedlifecycle.ts, managedlifecycleflows.ts, the handlers of ipc.ts):*)
(* one FIFO lane of tickets, an epoch that fences the callbacks of earlier *)
(* sessions, and flows that quiesce, advance, bring up and publish, any    *)
(* step of which may fail.  The tunnel controller (tunnel.ts) is its       *)
(* ownership and the failures it publishes.                                *)
(*                                                                         *)
(* Abstractions.  Only the head of the lane runs; at is the await it stands*)
(* at, and what runs between two awaits is one step.  A credential names   *)
(* its user.  Imported profiles keep their one connect.  The posture       *)
(* overlay, notifications and the server-side device are left out.         *)
(***************************************************************************)
EXTENDS Naturals, Sequences

CONSTANTS
  Creds,      \* the credentials logins may store
  NoCred,     \* an empty credential store
  NoLease,    \* a null activeManagedLease; no monitors
  Imported,   \* the owner of a tunnel made from an imported file
  Adopted,    \* the owner of a tunnel found up by a status read
  MaxEpoch,   \* bound: how often the epoch may move
  MaxLane     \* bound: how many tickets users and monitors may queue

Lease == [epoch : Nat, cred : Creds]

ASSUME LifecycleAssumption ==
  /\ NoCred \notin Creds
  /\ MaxEpoch \in Nat /\ MaxLane \in Nat
  /\ NoLease \notin Lease /\ Imported \notin Lease /\ Adopted \notin Lease
  /\ NoLease # Imported /\ NoLease # Adopted

VARIABLES
  \* ManagedLifecycleCoordinator
  lane,      \* the tickets chained on tail, the running one first
  at,        \* where the running ticket stands
  lease,     \* the lease the running flow holds
  epoch,     \* epoch
  cred,      \* the credential store
  \* ipc.ts
  active,    \* activeManagedLease
  monitors,  \* the lease the running monitors were built with
  issued,    \* the leases some monitor was ever built with: one may still call
  shown,     \* the state last published to renderer and tray
  \* TunnelController
  ctl,       \* ownership.kind
  live,      \* whose tunnel that is
  told       \* failedPublishedGeneration is the present generation

coordinator == <<lane, at, lease, epoch, cred>>
main        == <<active, monitors, issued, shown>>
controller  == <<ctl, live, told>>
vars        == <<coordinator, main, controller>>

UserOps   == {"connect", "import", "disconnect", "login", "logout", "remove"}
Callbacks == {"effect", "revoked"}
Kinds     == UserOps \cup Callbacks \cup {"poll", "recover", "beat", "gone", "failed"}
Ticket    == [kind : Kinds, lease : Lease \cup {NoLease}]
Awaits    == {"queued", "prove", "down", "up", "store", "effect", "poll"}

TypeOK ==
  /\ lane \in Seq(Ticket) /\ at \in Awaits
  /\ epoch \in 0..MaxEpoch /\ cred \in Creds \cup {NoCred}
  /\ lease \in Lease \cup {NoLease} /\ active \in Lease \cup {NoLease}
  /\ monitors \in Lease \cup {NoLease} /\ issued \subseteq Lease
  /\ shown \in {"down", "up", "failed", "revoked", "pending"}
  /\ ctl \in {"inactive", "up", "cleanup-required"} /\ told \in BOOLEAN
  /\ live \in Lease \cup {NoLease, Imported, Adopted}

Init ==
  /\ lane = <<>> /\ at = "queued" /\ lease = NoLease
  /\ epoch = 0 /\ cred \in Creds \cup {NoCred}
  /\ active = NoLease /\ monitors = NoLease /\ issued = {} /\ shown = "down"
  /\ ctl = "inactive" /\ live = NoLease /\ told = FALSE

-----------------------------------------------------------------------------
(* The lane.                                                               *)

Waiting(k)  == \E i \in DOMAIN lane : lane[i].kind = k
Note(k, l)  == [kind |-> k, lease |-> l]

\* A flow moves the epoch at most twice, once more than its queueing announced.
Affordable  == Len(lane) < MaxLane /\ epoch + 2 * Len(lane) + 2 <= MaxEpoch
Enqueue(t)  == lane' = Append(lane, t) /\ UNCHANGED <<at, lease, epoch, cred>>

Turn(k, point) == lane # <<>> /\ Head(lane).kind = k /\ at = point
Mine           == Head(lane).lease

\* assertCurrent, isSnapshotCurrent.
IsCurrentUser(l) == l.cred = cred     \* faulty variant: the epoch is not compared
IsCurrent(l) == l.epoch = epoch /\ l.cred = cred

\* The running ticket awaits something else, or its turn ends and adds these.
Await(point) == at' = point /\ UNCHANGED lane
Finish(news) == at' = "queued" /\ lease' = NoLease /\ lane' = Tail(lane) \o news

NotInvalidated   == UNCHANGED epoch   \* faulty variant: the old session is not fenced
Invalidate == epoch' = epoch + 1
Advanced   == [epoch |-> epoch + 1, cred |-> lease.cred]

\* A session that ends without a quiesced tunnel keeps its label as a tombstone.
Forgotten == NoLease                  \* faulty variant: the label is cleared
Tombstone == active

StopMonitors == monitors' = NoLease

-----------------------------------------------------------------------------
(* The controller.                                                         *)

\* What onStatus does with a failure that was not published yet: a managed one
\* becomes a terminal ticket, an imported one is applied at once.
Queued   == IF active # NoLease /\ ~told THEN <<Note("failed", active)>> ELSE <<>>
Applied  ==
  IF active = NoLease /\ ~told THEN shown' = "failed" /\ StopMonitors
  ELSE UNCHANGED <<shown, monitors>>

\* down(): nothing to do while inactive, otherwise a generation of its own.
DownBegins == told' = FALSE /\ UNCHANGED live
              /\ ctl' = IF ctl = "inactive" THEN ctl ELSE "cleanup-required"

DownConfirmed == ctl' = "inactive" /\ live' = NoLease /\ told' = FALSE

\* The helper refused, or did not answer in time.
DownRefused(k) ==
  /\ Turn(k, "down") /\ ctl # "inactive"
  /\ Finish(Queued) /\ Applied
  /\ told' = TRUE
  /\ UNCHANGED <<epoch, cred, active, issued, ctl, live>>

\* up(): the helper owes a cleanup from the moment the request is on the wire.
UpAmbiguous(owner) == ctl' = "cleanup-required" /\ live' = owner /\ told' = TRUE

-----------------------------------------------------------------------------
(* The flows.                                                              *)

\* A flow that begins with down().
Start(k) ==
  /\ Turn(k, "queued") /\ Await("down") /\ DownBegins
  /\ UNCHANGED <<lease, epoch, cred, main>>

\* capture, then the proof of the device's owner; a recovery first has to hold
\* a lease that is still current, and publishes the failure it recovers from.
BeginProof(k) ==
  /\ Turn(k, "queued") /\ cred # NoCred
  /\ k = "recover" => IsCurrent(Mine)
  /\ Await("prove") /\ lease' = [epoch |-> epoch, cred |-> cred]
  /\ IF k = "recover" THEN shown' = "failed" /\ StopMonitors
                      ELSE UNCHANGED <<shown, monitors>>
  /\ UNCHANGED <<epoch, cred, active, issued, controller>>

\* No credential, a foreign owner, a stale recovery, or a request that failed.
ProofFails(k) ==
  /\ \/ Turn(k, "queued") /\ (cred = NoCred \/ (k = "recover" /\ ~IsCurrent(Mine)))
     \/ Turn(k, "prove")
  /\ Finish(<<>>)
  /\ UNCHANGED <<epoch, cred, main, controller>>

Proved(k) ==
  /\ Turn(k, "prove") /\ Await("down") /\ DownBegins
  /\ UNCHANGED <<lease, epoch, cred, main>>

\* quiesced: published, the lease advanced, the old monitors stopped, the new
\* lease made the label of the tunnel's callbacks.
ConnectQuiesced(k) ==
  /\ Turn(k, "down") /\ DownConfirmed
  /\ shown' = "down" /\ epoch' = epoch + 1
  /\ \/ /\ Await("up") /\ lease' = Advanced
        /\ StopMonitors /\ active' = Advanced
     \/ Finish(<<>>) /\ UNCHANGED <<monitors, active>>  \* the proof was not committed
  /\ UNCHANGED <<cred, issued>>

\* The install, the configuration, or a clean refusal by the helper.
ConnectFails(k) ==
  /\ Turn(k, "up")
  /\ Finish(<<>>)
  /\ UNCHANGED <<epoch, cred, main, controller>>

ConnectAmbiguous(k) ==
  /\ Turn(k, "up")
  /\ UpAmbiguous(lease)
  /\ \/ Finish(<<Note("failed", active)>>)
     \/ Affordable /\ ~Waiting("recover") /\ Finish(<<Note("recover", active)>>)
  /\ UNCHANGED <<epoch, cred, main>>

ConnectRevoked(k) ==
  /\ Turn(k, "up")
  /\ Invalidate /\ shown' = "revoked" /\ Finish(<<>>)
  /\ UNCHANGED <<cred, active, monitors, issued, controller>>

\* Awaiting approval: a monitor waits, no tunnel is up.
ConnectPending(k) ==
  /\ Turn(k, "up")
  /\ shown' = "pending" /\ issued' = issued \cup {lease} /\ Finish(<<>>)
  /\ UNCHANGED <<epoch, cred, active, monitors, controller>>

ConnectUp(k) ==
  /\ Turn(k, "up")
  /\ ctl' = "up" /\ live' = lease /\ told' = FALSE
  /\ active' = lease /\ monitors' = lease /\ issued' = issued \cup {lease}
  /\ shown' = "up" /\ Finish(<<>>)
  /\ UNCHANGED <<epoch, cred>>

\* publish() reads the record again before it builds the monitors, and throws if it cannot, or
\* if another owner's is there: the tunnel is up and labelled.
ConnectUnread(k) ==
  /\ Turn(k, "up")
  /\ ctl' = "up" /\ live' = lease /\ told' = FALSE
  /\ active' = lease /\ Finish(<<>>)
  /\ UNCHANGED <<epoch, cred, monitors, issued, shown>>

ManagedConnect(k) ==
  \/ BeginProof(k) \/ ProofFails(k) \/ Proved(k) \/ DownRefused(k) \/ ConnectQuiesced(k)
  \/ ConnectFails(k) \/ ConnectAmbiguous(k) \/ ConnectRevoked(k) \/ ConnectPending(k)
  \/ ConnectUp(k) \/ ConnectUnread(k)

\* The end of every session a flow quiesces without starting a managed one.
SessionOver ==
  /\ DownConfirmed
  /\ shown' = "down" /\ Invalidate /\ StopMonitors /\ active' = NoLease

Quiesced(k, next) ==
  /\ Turn(k, "down")
  /\ SessionOver
  /\ Await(next)
  /\ UNCHANGED <<lease, cred, issued>>

ImportedUp ==
  /\ Turn("import", "up")
  /\ \/ /\ ctl' = "up" /\ live' = Imported /\ told' = FALSE /\ shown' = "up"
     \/ UpAmbiguous(Imported) /\ shown' = "failed"
     \/ UNCHANGED <<controller, shown>>
  /\ Finish(<<>>)
  /\ UNCHANGED <<epoch, cred, active, monitors, issued>>

ImportConnect == Start("import") \/ DownRefused("import") \/ Quiesced("import", "up") \/ ImportedUp

Disconnected ==
  /\ Turn("disconnect", "down")
  /\ SessionOver /\ Finish(<<>>)
  /\ UNCHANGED <<cred, issued>>

Disconnect == Start("disconnect") \/ DownRefused("disconnect") \/ Disconnected

\* A session that is still valid is never replaced.
LoginRefused ==
  /\ Turn("login", "queued") /\ cred # NoCred
  /\ Finish(<<>>)
  /\ UNCHANGED <<epoch, cred, main, controller>>

LoginStored ==
  /\ Turn("login", "store")
  /\ cred' \in Creds \cup {cred}                        \* or the login failed
  /\ Finish(<<>>)
  /\ UNCHANGED <<epoch, main, controller>>

Login == Start("login") \/ LoginRefused \/ DownRefused("login") \/ Quiesced("login", "store")
         \/ LoginStored

LogoutStored ==
  /\ Turn("logout", "store")
  /\ cred' \in {NoCred, cred}
  /\ Finish(<<>>)
  /\ UNCHANGED <<epoch, main, controller>>

Logout == Start("logout") \/ DownRefused("logout") \/ Quiesced("logout", "store") \/ LogoutStored

Removed ==
  /\ Turn("remove", "store")
  /\ Finish(<<>>)
  /\ UNCHANGED <<epoch, cred, main, controller>>

Remove == BeginProof("remove") \/ ProofFails("remove") \/ Proved("remove") \/ DownRefused("remove")
          \/ Quiesced("remove", "store") \/ Removed

-----------------------------------------------------------------------------
(* The callbacks.                                                          *)

\* A guarded or terminal callback of a lease that is no longer current does nothing.
Discard(k) ==
  /\ Turn(k, "queued") /\ ~IsCurrent(Mine)
  /\ Finish(<<>>)
  /\ UNCHANGED <<epoch, cred, main, controller>>

\* A routed-range, resolver or gateway change, applied through the controller.
Effect ==
  \/ /\ Turn("effect", "queued") /\ IsCurrent(Mine)
     /\ Await("effect")
     /\ UNCHANGED <<lease, epoch, cred, main, controller>>
  \/ /\ Turn("effect", "effect")
     /\ Finish(<<>>)
     /\ UNCHANGED <<epoch, cred, main, controller>>

BeatServed ==
  /\ Turn("beat", "queued") /\ IsCurrent(Mine)
  /\ shown' = "up" /\ Finish(<<>>)
  /\ UNCHANGED <<epoch, cred, active, monitors, issued, controller>>

Gone ==
  /\ Turn("gone", "queued") /\ IsCurrent(Mine)
  /\ shown' = "down" /\ Finish(<<>>)
  /\ UNCHANGED <<epoch, cred, active, monitors, issued, controller>>

Failed ==
  /\ Turn("failed", "queued") /\ IsCurrent(Mine)
  /\ Invalidate /\ active' = Tombstone
  /\ shown' = "failed" /\ StopMonitors /\ Finish(<<>>)
  /\ UNCHANGED <<cred, issued, controller>>

\* The server's verdict: fenced before any of its effects.
Revoked ==
  \/ /\ Turn("revoked", "queued") /\ IsCurrent(Mine)
     /\ Invalidate /\ active' = Tombstone
     /\ StopMonitors /\ DownBegins /\ Await("down")
     /\ UNCHANGED <<lease, cred, issued, shown>>
  \/ /\ Turn("revoked", "down")
     /\ DownConfirmed /\ shown' = "revoked" /\ Finish(<<>>)
     /\ UNCHANGED <<epoch, cred, active, monitors, issued>>
  \/ /\ Turn("revoked", "down") /\ ctl # "inactive"
     /\ told' = TRUE /\ shown' = "failed" /\ Finish(Queued)
     /\ UNCHANGED <<epoch, cred, active, monitors, issued, ctl, live>>

\* The renderer's poll reads the helper's state, and the controller believes it.
Poll ==
  \/ /\ Turn("poll", "queued") /\ shown \notin {"revoked", "pending"}
     /\ Await("poll")
     /\ UNCHANGED <<lease, epoch, cred, main, controller>>
  \/ /\ \/ Turn("poll", "queued") /\ shown \in {"revoked", "pending"}
        \/ Turn("poll", "poll")                          \* a read that failed
     /\ Finish(<<>>)
     /\ UNCHANGED <<epoch, cred, main, controller>>
  \/ /\ Turn("poll", "poll")
     /\ DownConfirmed /\ shown' = "down" /\ Finish(<<>>)
     /\ UNCHANGED <<epoch, cred, active, monitors, issued>>
  \/ /\ Turn("poll", "poll")
     /\ IF ctl = "inactive" THEN ctl' = "cleanup-required" /\ live' = Adopted /\ told' = FALSE
                            ELSE UNCHANGED controller
     /\ shown' = (IF told THEN "failed" ELSE "up")
     /\ IF told THEN StopMonitors ELSE UNCHANGED monitors
     /\ Finish(<<>>)
     /\ UNCHANGED <<epoch, cred, active, issued>>
  \/ /\ Turn("poll", "poll")
     /\ ctl' = "cleanup-required" /\ UNCHANGED told
     /\ live' = (IF ctl = "inactive" THEN Adopted ELSE live)
     /\ shown' = "failed" /\ StopMonitors /\ Finish(<<>>)
     /\ UNCHANGED <<epoch, cred, active, issued>>

-----------------------------------------------------------------------------
(* What queues tickets.                                                    *)

UserAsks(k) ==
  /\ ~Waiting(k) /\ Affordable
  /\ Enqueue(Note(k, NoLease))
  /\ UNCHANGED <<main, controller>>

RendererPolls ==
  /\ ~Waiting("poll")                                    \* SingleFlightStatusReader
  /\ Enqueue(Note("poll", NoLease))
  /\ UNCHANGED <<main, controller>>

\* A monitor's answer, which may come after the monitor was stopped.
MonitorCalls(k, l) ==
  /\ l \in issued /\ Len(lane) < MaxLane
  /\ Enqueue(Note(k, l))
  /\ UNCHANGED <<main, controller>>

HeartbeatAnswers ==
  /\ ctl = "up" /\ ~Waiting("beat")
  /\ IF active = NoLease
     THEN shown' = "up" /\ UNCHANGED coordinator
     ELSE Enqueue(Note("beat", active)) /\ UNCHANGED shown
  /\ UNCHANGED <<active, monitors, issued, controller>>

\* The dead-man took the tunnel down while no heartbeat came, say in a long sleep.
HeartbeatFindsDown ==
  /\ ctl = "up" /\ DownConfirmed
  /\ IF active = NoLease
     THEN shown' = "down" /\ UNCHANGED coordinator
     ELSE Enqueue(Note("gone", active)) /\ UNCHANGED shown
  /\ UNCHANGED <<active, monitors, issued>>

\* The helper's socket is lost, or a heartbeat finds the tunnel failed; a relay
\* session that can be renewed asks for a recovery instead.
TunnelLost ==
  /\ ctl = "up"
  /\ ctl' = "cleanup-required" /\ told' = TRUE /\ UNCHANGED live
  /\ \/ /\ lane' = lane \o Queued /\ Applied
     \/ /\ active # NoLease /\ Affordable /\ ~Waiting("recover")
        /\ lane' = Append(lane, Note("recover", active))
        /\ UNCHANGED <<shown, monitors>>
  /\ UNCHANGED <<at, lease, epoch, cred, active, issued>>

-----------------------------------------------------------------------------

Flow ==
  \/ \E k \in {"connect", "recover"} : ManagedConnect(k)
  \/ ImportConnect \/ Disconnect \/ Login \/ Logout \/ Remove
  \/ Effect \/ BeatServed \/ Gone \/ Failed \/ Revoked \/ Poll
  \/ \E k \in {"effect", "beat", "gone", "failed", "revoked"} : Discard(k)

Environment ==
  \/ \E k \in UserOps : UserAsks(k)
  \/ \E k \in Callbacks, l \in issued : MonitorCalls(k, l)
  \/ RendererPolls \/ HeartbeatAnswers \/ HeartbeatFindsDown \/ TunnelLost

Next == Flow \/ Environment

Spec == Init /\ [][Next]_vars

-----------------------------------------------------------------------------
(* Properties.                                                             *)

\* A managed tunnel that is up belongs to the current lease, its callbacks are labelled with
\* it, and its monitors are the running ones unless its record could not be read when it came
\* up: no interleaving of flows, late callbacks, polls and losses leaves a live tunnel under a
\* retired session, under another user's credential, or with its monitors stopped.
UpIsWatched ==
  ctl = "up" /\ live # Imported =>
    IsCurrent(live) /\ active = live /\ (live \in issued => monitors = live)

\* While a callback's effect runs, the tunnel it acts on is that of its own lease.
EffectsStayHome == at = "effect" /\ ctl = "up" => live = Mine

\* The status of a managed tunnel is never taken for an imported profile's, which
\* would be applied with no lease to fence it.
UnlabelledIsImported == ctl # "inactive" /\ active = NoLease => live \in {Imported, Adopted}

\* A ticket waits that will end the current session as failed.
Condemned == \E i \in DOMAIN lane : lane[i].kind = "failed" /\ IsCurrent(lane[i].lease)

\* A teardown the helper refuses leaves the session as it was, owned, monitored and
\* in its epoch (managedlifecycleflows.ts, the comments of runManagedConnectFlow
\* and runManagedRemoveFlow): the refusal itself never condemns it.
RefusalKeepsSession ==
  [][at = "down" /\ at' = "queued" /\ ctl' = "cleanup-required" /\ shown = "up" /\ ~Condemned
       => ~Condemned']_vars

\* Once a loss of the tunnel has been published, no callback that was queued before
\* publishes it as up again (managedlifecycle.ts, the comment of terminal).
LossIsFinal ==
  [][shown = "failed" /\ shown' = "up" => lane = <<>> \/ Head(lane).kind # "beat"]_vars

\* The device just brought up is watched for its revocation (ipc.ts, publish).
AlwaysWatched == ctl = "up" /\ live # Imported => monitors = live

=============================================================================
