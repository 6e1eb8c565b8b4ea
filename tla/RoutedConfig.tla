---------------------------- MODULE RoutedConfig ----------------------------
(***************************************************************************)
(* The volatile configuration of a session: RoutedRangesMonitor polls the  *)
(* server for ranges, DNS forwards and the gateway to dial, and applies    *)
(* each tier on change through TunnelController and the helper, which      *)
(* reconciles routes (routereconcile.go) and resolvers (ResolverFiles);    *)
(* what is installed must go when the session goes, by the client's sweep  *)
(* or, when the client is gone, by the dead-man's.                         *)
(*                                                                         *)
(* The lane of the main process runs one request at a time, so a teardown  *)
(* waits for an apply under way.  tunnel_up, tunnel_down, set_allowed_ips  *)
(* and set_gateway_peer are single steps of the helper (HelperSupervisor   *)
(* takes them apart); set_resolvers takes its steps here.  A request may   *)
(* be given up, or its socket lost, with the helper at work on it: its     *)
(* connection lives on there as "late", at most one at a time.  A request  *)
(* the helper never read is one that fails at its first step.  A split     *)
(* tunnel: its routes tier is enabled.                                     *)
(***************************************************************************)
EXTENDS ResolverFiles

CONSTANTS
  Ranges,       \* ranges beyond the tunnel's own, which is always routed
  Configs,      \* the configurations the server may answer with
  MaxSession    \* bound: sessions of the device

ASSUME RoutedAssumption ==
  /\ MaxSession \in Nat
  /\ Configs \subseteq [ranges : SUBSET Ranges, forwards : SUBSET Domains,
                         dial : {c.dial : c \in Configs}]

VARIABLES
  monitor,      \* RoutedRangesMonitor
  lane,         \* what the lane waits for
  me,           \* the controller: ownership and the latch
  host,         \* the supervisor's state and who owns the tunnel
  net           \* AllowedIPs of the peer, routes, the reconciler's belief, the peer

vars == <<resolvers, monitor, lane, me, host, net>>

Beyond == [ranges |-> {}, forwards |-> {}, dial |-> "none"]
Off == [at |-> "off", snap |-> Beyond, ranges |-> {}, forwards |-> {}, dial |-> "none",
        routesFailed |-> FALSE]

Dials == {c.dial : c \in Configs} \cup {"none"}
SomeConfig == [ranges : SUBSET Ranges, forwards : SUBSET Domains, dial : Dials]

TypeOK ==
  /\ ResolversTypeOK /\ device <= MaxSession
  /\ monitor \in [at : {"off", "wait", "ranges", "forwards", "dial"},
                  snap : SomeConfig, ranges : SUBSET Ranges, forwards : SUBSET Domains,
                  dial : Dials, routesFailed : BOOLEAN]
  /\ lane \in {"free", "forwards", "sweep", "down"}
  /\ me \in [own : {"inactive", "up", "owed"}, latch : BOOLEAN, session : 0..MaxSession]
  /\ host \in [state : {"down", "up", "failed"}, owner : {"none", "call", "late"}, late : BOOLEAN]
  /\ net \in [allowed : SUBSET Ranges, routes : SUBSET Ranges, applied : SUBSET Ranges,
              peer : Dials, stuck : SUBSET Ranges, torn : BOOLEAN]
  /\ lane \in {"forwards", "sweep"} <=> jobs["call"].at # "idle"

NoNet == [allowed |-> {}, routes |-> {}, applied |-> {}, peer |-> "none",
          stuck |-> {}, torn |-> FALSE]

Init ==
  /\ ResolversInit
  /\ monitor = Off /\ lane = "free"
  /\ me = [own |-> "inactive", latch |-> FALSE, session |-> 0]
  /\ host = [state |-> "down", owner |-> "none", late |-> FALSE] /\ net = NoNet

-----------------------------------------------------------------------------
(* reconcileRoutes: delete what is stale, then delete before adding what is *)
(* missing, one route at a time, and go on past a failure.  stuck and      *)
(* refused are the deletions and the additions that fail.                  *)

ReconciledHopeful(n, want, stuck, refused) ==  \* faulty variant: belief is set before the add
  [n EXCEPT !.routes = (@ \ ((n.applied \ want) \ stuck)) \cup ((want \ n.applied) \ refused),
            !.applied = want, !.stuck = (@ \cup ((n.applied \ want) \cap stuck)) \ want]
Reconciled(n, want, stuck, refused) ==
  LET stale == n.applied \ want
      missing == want \ n.applied
      added == missing \ refused
      gone == (stale \cup missing) \ stuck IN
  [n EXCEPT !.routes = (@ \ gone) \cup added,
            !.applied = (@ \cap want) \cup added,
            !.stuck = ((@ \cup (n.routes \cap stuck)) \ gone) \ added]

-----------------------------------------------------------------------------
(* Ends of a session.                                                      *)

\* Whatever closes the device takes its routes with it.
NoDevice == device' = 0 /\ net' = NoNet /\ platform' = platform

Owns == me.own = "up"

\* onLost, or a terminal report: the monitors stop, a cleanup is owed.
OnLost ==
  /\ me' = IF me.own = "inactive" THEN me ELSE [me EXCEPT !.own = "owed", !.latch = TRUE]
  /\ monitor' = Off

\* The socket is gone for the client; its handler may still be at work.
GivenUp ==
  /\ ~host.late
  /\ host' = [host EXCEPT !.late = TRUE, !.owner = IF @ = "call" THEN "late" ELSE @]
  /\ jobs' = [jobs EXCEPT !["late"] = jobs["call"], !["call"] = NoJob]
  /\ disturbed' = (disturbed \/ Busy("call"))

\* The app reads the helper's status when it starts and every second after: a client that
\* connects has seen the helper down, or a tunnel it owes the cleanup of.
Connect ==
  /\ lane = "free" /\ me.own = "inactive" /\ me.session < MaxSession /\ host.state = "down"
  /\ me' = [me EXCEPT !.own = "up", !.session = @ + 1]
  /\ device' = me.session + 1
  /\ host' = [host EXCEPT !.state = "up", !.owner = "call"]
  /\ \E c \in Configs : /\ net' = [NoNet EXCEPT !.peer = c.dial]
                        /\ monitor' = [Off EXCEPT !.at = "wait", !.dial = c.dial]
  /\ UNCHANGED <<platform, owned, jobs, disturbed, lane>>

\* A bring-up that failed after it was armed, or whose answer was lost.
ConnectFails ==
  /\ lane = "free" /\ me.own = "inactive" /\ me.session < MaxSession /\ host.state = "down"
  /\ me' = [me EXCEPT !.own = "owed", !.session = @ + 1]
  /\ host' = [host EXCEPT !.state = "failed", !.owner = "call"]
  /\ NoDevice /\ UNCHANGED <<owned, jobs, disturbed, lane, monitor>>

\* down(): the lane is free, so no apply is under way; the monitor is stopped first.
\* A release of a tunnel that was lost goes the same way.
StopPolling ==
  /\ lane = "free" /\ me.own = "inactive" /\ monitor # Off
  /\ monitor' = Off /\ UNCHANGED <<resolvers, lane, me, host, net>>

Disconnect ==
  /\ lane = "free" /\ me.own # "inactive"
  /\ monitor' = Off /\ me' = [me EXCEPT !.own = "owed"]
  /\ IF me.latch
     THEN lane' = "sweep" /\ Put("call", Requested({}))
     ELSE lane' = "down" /\ jobs' = jobs
  /\ UNCHANGED <<platform, device, owned, disturbed, host, net>>

\* Whatever the sweep answered, tunnel_down follows.
Swept ==
  /\ lane = "sweep" /\ jobs["call"].at = "done"
  /\ lane' = "down" /\ Put("call", NoJob)
  /\ me' = IF jobs["call"].out = "ok" THEN [me EXCEPT !.latch = FALSE] ELSE me
  /\ UNCHANGED <<platform, device, owned, disturbed, monitor, host, net>>

SweepLost ==
  /\ lane = "sweep" /\ lane' = "down" /\ me' = [me EXCEPT !.latch = TRUE] /\ GivenUp
  /\ UNCHANGED <<platform, device, owned, monitor, net>>
\* tunnel_down: done, and the client forgets what it had installed; or refused.
Downed == me' = [me EXCEPT !.own = "inactive", !.latch = FALSE] /\ lane' = "free"

Down ==
  /\ lane = "down" /\ Downed
  /\ host' = [host EXCEPT !.state = "down", !.owner = IF @ = "call" THEN "none" ELSE @]
  /\ NoDevice /\ UNCHANGED <<owned, jobs, disturbed, monitor>>

DownRefused ==
  /\ lane = "down" /\ lane' = "free" /\ me' = [me EXCEPT !.latch = TRUE]
  /\ UNCHANGED <<resolvers, monitor, host, net>>

DownLost ==
  /\ lane = "down" /\ lane' = "free" /\ me' = [me EXCEPT !.latch = TRUE]
  /\ ~host.late
  /\ \/ /\ host' = [host EXCEPT !.late = TRUE, !.owner = IF @ = "call" THEN "late" ELSE @]
        /\ UNCHANGED <<platform, device, net>>
     \/ /\ host' = [state |-> "down", late |-> TRUE, owner |-> IF host.owner = "call" THEN "none" ELSE host.owner]
        /\ NoDevice
  /\ UNCHANGED <<owned, jobs, disturbed, monitor>>

\* Between requests the socket ends.
SocketLost ==
  /\ lane = "free" /\ OnLost /\ GivenUp
  /\ UNCHANGED <<platform, device, owned, lane, net>>

\* The helper notices, once it is done with what it was doing.
HandlerEnds ==
  /\ host.late /\ ~Busy("late")
  /\ Put("late", NoJob)
  /\ host' = [host EXCEPT !.late = FALSE, !.owner = IF @ = "late" THEN "none" ELSE @,
                          !.state = IF host.owner = "late" /\ @ = "up" THEN "failed" ELSE @]
  /\ IF host.owner = "late" /\ host.state = "up" THEN NoDevice ELSE UNCHANGED <<platform, device, net>>
  /\ UNCHANGED <<owned, disturbed, monitor, lane, me>>

\* CheckDeadMan: the block and the device go, and after the lock the resolvers.
DeadMan ==
  /\ host.state \in {"up", "failed"} /\ ~Busy("sweep")
  /\ host' = [host EXCEPT !.state = "down"] /\ NoDevice /\ Put("sweep", Sweeping)
  /\ disturbed' = (disturbed \/ (~Windows /\ Busy("call")))
  /\ UNCHANGED <<owned, monitor, lane, me>>

\* A status read or a heartbeat that finds the helper down.
SeenDown ==
  /\ lane = "free" /\ me.own # "inactive" /\ host.state = "down"
  /\ me' = [me EXCEPT !.own = "inactive", !.latch = FALSE]
  /\ UNCHANGED <<resolvers, monitor, lane, host, net>>

\* The next helper heals the host and sweeps before it serves.
HelperCrash ==
  /\ jobs' = [w \in Workers |-> NoJob] /\ NoDevice
  /\ \/ owned' = {} /\ disturbed' = disturbed
     \/ owned' = owned /\ disturbed' = TRUE
  /\ host' = [state |-> "down", owner |-> "none", late |-> FALSE]
  /\ lane' \in {"free"} \cup (IF lane = "sweep" THEN {"down"} ELSE {})
  /\ OnLost

\* The app dies; the next one reads the helper's status before anything is lost.
ClientCrash ==
  /\ GivenUp /\ lane' = "free" /\ monitor' = Off
  /\ me' = [me EXCEPT !.own = "inactive", !.latch = FALSE]
  /\ UNCHANGED <<platform, device, owned, net>>
SeenUp ==
  /\ lane = "free" /\ me.own = "inactive" /\ host.state # "down"
  /\ me' = [me EXCEPT !.own = "owed", !.latch = TRUE]
  /\ UNCHANGED <<resolvers, monitor, lane, host, net>>

-----------------------------------------------------------------------------
(* One poll of the monitor.                                                *)

\* A read that fails leaves everything as it was.
Poll ==
  /\ monitor.at = "wait"
  /\ \E c \in Configs :
       monitor' = [monitor EXCEPT !.at = "ranges", !.snap = c, !.routesFailed = FALSE]
  /\ UNCHANGED <<resolvers, lane, me, host, net>>

\* set_allowed_ips: the peer's AllowedIPs change first, then the routes.
Applied(n, want, stuck, refused) ==
  [Reconciled([n EXCEPT !.allowed = want], want, stuck, refused) EXCEPT
     !.torn = refused # {}]

RangesHoped(m) ==                              \* faulty variant: a failed apply is believed
  [m EXCEPT !.ranges = m.snap.ranges, !.routesFailed = TRUE, !.at = "forwards"]
RangesSet(m) == [m EXCEPT !.ranges = m.snap.ranges, !.at = "forwards"]
RangesKept(m) == [m EXCEPT !.routesFailed = TRUE, !.at = "forwards"]

RangesUnchanged ==
  /\ monitor.at = "ranges" /\ monitor.snap.ranges = monitor.ranges
  /\ monitor' = [monitor EXCEPT !.at = "forwards"]
  /\ UNCHANGED <<resolvers, lane, me, host, net>>

ApplyRanges ==
  /\ monitor.at = "ranges" /\ monitor.snap.ranges # monitor.ranges /\ lane = "free"
  /\ IF Owns /\ host.state = "up"
     THEN \E stuck \in SUBSET net.routes, refused \in SUBSET (monitor.snap.ranges \ net.applied) :
            /\ net' = Applied(net, monitor.snap.ranges, stuck, refused)
            /\ monitor' = IF refused = {}
                          THEN RangesSet(monitor) ELSE RangesKept(monitor)
     ELSE net' = net /\ monitor' = RangesKept(monitor)
  /\ UNCHANGED <<resolvers, lane, me, host>>

ApplyRangesRefused ==
  /\ monitor.at = "ranges" /\ monitor.snap.ranges # monitor.ranges /\ lane = "free"
  /\ monitor' = RangesKept(monitor) /\ UNCHANGED <<resolvers, lane, me, host, net>>

\* The answer is lost: the socket with it.
ApplyRangesLost ==
  /\ monitor.at = "ranges" /\ monitor.snap.ranges # monitor.ranges /\ lane = "free"
  /\ Owns /\ host.state = "up"
  /\ net' = Applied(net, monitor.snap.ranges, {}, {}) /\ OnLost /\ GivenUp
  /\ UNCHANGED <<platform, device, owned, lane>>

\* New resolvers wait for their routes; withdrawn ones do not.
Wanted(m) == IF m.routesFailed THEN m.snap.forwards \cap m.forwards ELSE m.snap.forwards

ForwardsUnchanged ==
  /\ monitor.at = "forwards" /\ Wanted(monitor) = monitor.forwards /\ lane = "free"
  /\ monitor' = [monitor EXCEPT !.at = "dial"]
  /\ UNCHANGED <<resolvers, lane, me, host, net>>

\* The latch is set before the request is on the wire.
ApplyForwards ==
  /\ monitor.at = "forwards" /\ Wanted(monitor) # monitor.forwards /\ lane = "free"
  /\ IF Owns
     THEN /\ lane' = "forwards" /\ Put("call", Requested(Wanted(monitor)))
          /\ me' = [me EXCEPT !.latch = @ \/ Wanted(monitor) # {}] /\ monitor' = monitor
     ELSE /\ monitor' = [monitor EXCEPT !.at = "dial"]
          /\ UNCHANGED <<lane, jobs, me>>
  /\ disturbed' = (disturbed \/ (~Windows /\ Owns /\ host.state = "down"))
  /\ UNCHANGED <<platform, device, owned, host, net>>

ForwardsAnswered ==
  /\ lane = "forwards" /\ jobs["call"].at = "done"
  /\ lane' = "free" /\ Put("call", NoJob)
  /\ IF jobs["call"].out = "ok"
     THEN /\ me' = [me EXCEPT !.latch = Wanted(monitor) # {}]
          /\ monitor' = [monitor EXCEPT !.forwards = Wanted(monitor), !.at = "dial"]
     ELSE me' = me /\ monitor' = [monitor EXCEPT !.at = "dial"]
  /\ UNCHANGED <<platform, device, owned, disturbed, host, net>>

ForwardsLost ==
  /\ lane = "forwards" /\ lane' = "free" /\ OnLost /\ GivenUp
  /\ UNCHANGED <<platform, device, owned, net>>

\* A re-home, only to another gateway the server names.
Redial ==
  /\ monitor.at = "dial" /\ lane = "free"
  /\ IF monitor.snap.dial \in {"none", monitor.dial}
     THEN monitor' = [monitor EXCEPT !.at = "wait"] /\ net' = net
     ELSE \/ /\ host.state = "up" /\ net' = [net EXCEPT !.peer = monitor.snap.dial]
             /\ monitor' = [monitor EXCEPT !.dial = monitor.snap.dial, !.at = "wait"]
          \/ net' = net /\ monitor' = [monitor EXCEPT !.at = "wait"]
  /\ UNCHANGED <<resolvers, lane, me, host>>

-----------------------------------------------------------------------------

Teardown ==
  \/ StopPolling \/ Disconnect \/ Swept \/ SweepLost \/ Down \/ DownRefused \/ DownLost

Losses ==
  \/ SocketLost \/ HandlerEnds \/ DeadMan \/ SeenDown \/ HelperCrash \/ ClientCrash \/ SeenUp

Monitor ==
  \/ Poll \/ RangesUnchanged \/ ApplyRanges \/ ApplyRangesRefused \/ ApplyRangesLost
  \/ ForwardsUnchanged \/ ApplyForwards \/ ForwardsAnswered \/ ForwardsLost \/ Redial

Next ==
  \/ Connect \/ ConnectFails \/ Teardown \/ Losses \/ Monitor
  \/ \E w \in Workers : Reconcile(w) /\ UNCHANGED <<monitor, lane, me, host, net>>

Spec == Init /\ [][Next]_vars

-----------------------------------------------------------------------------
(* Properties.                                                             *)

\* The reconciler never believes in a route the kernel lacks, so that a failed addition is
\* tried again, and a route it does not know of is one it failed to delete, which the sweeps
\* after it leave where it is (routereconcile.go, the deletion's error is dropped).
BeliefIsReal ==
  /\ net.applied \subseteq net.routes
  /\ net.routes \ net.applied \subseteq net.stuck

\* While the monitor's session is the helper's, the ranges it takes for applied are what
\* the peer's AllowedIPs hold.
Polling == monitor.at # "off" /\ Owns /\ host.state = "up" /\ device = me.session
RangesHeld == Polling => net.allowed = monitor.ranges

\* They are, and are routed, unless a later apply failed half-way.
RangesHeldUnlessTorn ==
  Polling => /\ net.peer = monitor.dial
             /\ ~net.torn => net.allowed = monitor.ranges /\ net.applied = monitor.ranges

\* When nothing is under way, the tunnel is down and the client owes nothing, no entry
\* of ours is left.
Quiescent == lane = "free" /\ ~host.late /\ \A w \in Workers : ~Busy(w)
NoneOutlivesTunnel ==
  Quiescent /\ host.state = "down" /\ me.own = "inactive" /\ ~me.latch => owned = {}

\* None is, unless a sweep failed or a request was given up under way, or, where nothing
\* locks the device, one met the dead-man.
UndisturbedLeavesNone == disturbed \/ NoneOutlivesTunnel

=============================================================================
