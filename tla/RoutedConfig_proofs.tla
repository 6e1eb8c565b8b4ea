------------------------ MODULE RoutedConfig_proofs -------------------------
(***************************************************************************)
(* The reconciler of routes, for any ranges and configurations and any     *)
(* subset of failing deletions and additions at each sweep: what it        *)
(* believes to be routed is, and what is routed without its knowledge is   *)
(* what it failed to delete.  Only the actions that touch net matter.      *)
(*                                                                         *)
(* And the resolvers, for any domains and sessions and both platforms:     *)
(* none of ours outlives the tunnel of an undisturbed run.  Whoever brings *)
(* the tunnel down leaves the host clear, or a sweep under way with all    *)
(* there is on its list, or a call that will look at the device and sweep. *)
(***************************************************************************)
EXTENDS RoutedConfig, TLAPS

NetShape ==
  [allowed : SUBSET Ranges, routes : SUBSET Ranges, applied : SUBSET Ranges,
   peer : Dials, stuck : SUBSET Ranges, torn : BOOLEAN]

Real(n) == n \in NetShape /\ n.applied \subseteq n.routes /\ n.routes \ n.applied \subseteq n.stuck

LEMMA NoNetReal ==
  ASSUME NEW peer \in Dials
  PROVE  Real(NoNet) /\ Real([NoNet EXCEPT !.peer = peer])
  BY DEF Real, NoNet, NetShape, Dials

\* One sweep of reconcileRoutes, whatever fails in it.
LEMMA ReconciledReal ==
  ASSUME NEW n, Real(n), NEW want \in SUBSET Ranges,
         NEW stuck \in SUBSET n.routes, NEW refused \in SUBSET (want \ n.applied)
  PROVE  Real(Reconciled(n, want, stuck, refused))
<1> DEFINE stale == n.applied \ want
           missing == want \ n.applied
           added == missing \ refused
           gone == (stale \cup missing) \ stuck
           routes == (n.routes \ gone) \cup added
           applied == (n.applied \cap want) \cup added
           held == ((n.stuck \cup (n.routes \cap stuck)) \ gone) \ added
           q == [n EXCEPT !.routes = routes, !.applied = applied, !.stuck = held]
<1>1. Reconciled(n, want, stuck, refused) = q
  BY DEF Reconciled, Real, NetShape
<1>2. routes \in SUBSET Ranges /\ applied \in SUBSET Ranges /\ held \in SUBSET Ranges
  BY DEF Real, NetShape
<1>3. applied \subseteq routes /\ routes \ applied \subseteq held
  BY DEF Real, NetShape
<1> HIDE DEF routes, applied, held
<1>4. q \in NetShape /\ q.routes = routes /\ q.applied = applied /\ q.stuck = held
  BY <1>2 DEF Real, NetShape
<1> QED BY <1>1, <1>3, <1>4 DEF Real

\* set_allowed_ips changes the peer's ranges first, which no route depends on.
LEMMA AppliedReal ==
  ASSUME NEW n, Real(n), NEW want \in SUBSET Ranges,
         NEW stuck \in SUBSET n.routes, NEW refused \in SUBSET (want \ n.applied)
  PROVE  Real(Applied(n, want, stuck, refused))
<1> DEFINE m == [n EXCEPT !.allowed = want]
           q == Reconciled(m, want, stuck, refused)
<1>1. Real(m) /\ m.routes = n.routes /\ m.applied = n.applied
  BY DEF Real, NetShape
<1>2. Real(q)
  BY <1>1, ReconciledReal
<1>3. Applied(n, want, stuck, refused) = [q EXCEPT !.torn = refused # {}]
  BY DEF Applied
<1> HIDE DEF q
<1> QED BY <1>2, <1>3 DEF Real, NetShape

-----------------------------------------------------------------------------
(* The state of which net is a part: the monitor's snapshot bounds what is *)
(* asked for, and only a bring-up makes the monitor's session the helper's.*)

MonitorShape ==
  [at : {"off", "wait", "ranges", "forwards", "dial"},
   snap : SomeConfig, ranges : SUBSET Ranges, forwards : SUBSET Domains,
   dial : Dials, routesFailed : BOOLEAN]
MeShape == [own : {"inactive", "up", "owed"}, latch : BOOLEAN, session : Nat]
HostShape == [state : {"down", "up", "failed"}, owner : {"none", "call", "late"}, late : BOOLEAN]

Shapes == monitor \in MonitorShape /\ me \in MeShape /\ host \in HostShape

IInv == Shapes /\ Real(net) /\ RangesHeldUnlessTorn

\* Who waits for resolvers to be set is the poll that asked for it.
Awaiting == lane = "forwards" => monitor.at = "forwards"

\* Without a failed addition the reconciler ends with exactly what was wanted.
LEMMA AppliedWhole ==
  ASSUME NEW n, Real(n), NEW want \in SUBSET Ranges, NEW stuck \in SUBSET n.routes,
         NEW refused \in SUBSET (want \ n.applied)
  PROVE  LET q == Applied(n, want, stuck, refused) IN
         /\ q.peer = n.peer
         /\ q.torn = (refused # {})
         /\ refused = {} => q.allowed = want /\ q.applied = want
<1> DEFINE m == [n EXCEPT !.allowed = want]
           q == Reconciled(m, want, stuck, refused)
<1>1. Applied(n, want, stuck, refused) = [q EXCEPT !.torn = refused # {}]
  BY DEF Applied
<1>2. m \in NetShape /\ m.allowed = want /\ m.applied = n.applied /\ m.peer = n.peer
  BY DEF Real, NetShape
<1> HIDE DEF m
<1>3. q.allowed = want /\ q.peer = n.peer
  BY <1>2 DEF Reconciled, NetShape
<1>4. q.applied = (n.applied \cap want) \cup ((want \ n.applied) \ refused)
  BY <1>2 DEF Reconciled, NetShape
<1>5. "torn" \in DOMAIN q
  BY <1>2 DEF Reconciled, NetShape
<1> HIDE DEF q
<1>6. [q EXCEPT !.torn = refused # {}].applied = q.applied
  OBVIOUS
<1> QED BY <1>1, <1>3, <1>4, <1>5, <1>6

\* What leaves the session as it is, or ends it, leaves nothing to show but net.
LEMMA Quiet ==
  ASSUME IInv, Shapes', Real(net'),
         Polling' => Polling,
         UNCHANGED <<net, monitor>> \/ ~Polling'
  PROVE  IInv'
  BY DEF IInv, RangesHeldUnlessTorn

LEMMA OffShape == Off \in MonitorShape /\ Off.at = "off"
  BY DEF Off, Beyond, SomeConfig, Dials, MonitorShape

LEMMA Initially == Init => IInv
<1> SUFFICES ASSUME Init PROVE IInv
  OBVIOUS
<1>1. Shapes
  BY OffShape DEF Init, Shapes, MeShape, HostShape
<1>2. Real(net)
  BY NoNetReal DEF Init, Dials
<1>3. ~Polling
  BY DEF Init, Off, Polling
<1> QED BY <1>1, <1>2, <1>3 DEF IInv, RangesHeldUnlessTorn

-----------------------------------------------------------------------------
(* The ends of a session: afterwards nobody polls, or nothing has changed. *)

\* The ways an action changes host.
Late(h, o) == [h EXCEPT !.late = TRUE, !.owner = o]
Ended(h, o, s) == [h EXCEPT !.late = FALSE, !.owner = o, !.state = s]
Brought(h, o, s) == [h EXCEPT !.state = s, !.owner = o]
At(h, s) == [h EXCEPT !.state = s]

LEMMA HostKept ==
  ASSUME NEW h \in HostShape, NEW o \in {"none", "call", "late"},
         NEW s \in {"down", "up", "failed"}
  PROVE  /\ Late(h, o) \in HostShape /\ Late(h, o).state = h.state
         /\ Ended(h, o, s) \in HostShape /\ Ended(h, o, s).state = s
         /\ Brought(h, o, s) \in HostShape /\ Brought(h, o, s).state = s
         /\ At(h, s) \in HostShape /\ At(h, s).state = s
  BY DEF HostShape, Late, Ended, Brought, At

\* The ways an action changes me.
Begun(m, o) == [m EXCEPT !.own = o, !.session = m.session + 1]

LEMMA MeBegun ==
  ASSUME NEW m \in MeShape, NEW o \in {"inactive", "up", "owed"}
  PROVE  Begun(m, o) \in MeShape /\ Begun(m, o).own = o
<1>1. m.session + 1 \in Nat
  BY DEF MeShape
<1> QED BY <1>1 DEF MeShape, Begun

LEMMA MeKept ==
  ASSUME NEW m \in MeShape, NEW l \in BOOLEAN, NEW o \in {"inactive", "up", "owed"}
  PROVE  /\ [m EXCEPT !.own = o, !.latch = l] \in MeShape
         /\ [m EXCEPT !.own = o] \in MeShape
         /\ [m EXCEPT !.latch = l] \in MeShape
         /\ [m EXCEPT !.own = o, !.latch = l].own = o
         /\ [m EXCEPT !.own = o].own = o
         /\ [m EXCEPT !.latch = l].own = m.own
         /\ [m EXCEPT !.latch = l].session = m.session
  BY DEF MeShape

\* An action that leaves net alone, or empties it, and leaves nobody polling.
Ending ==
  /\ net' \in {net, NoNet} /\ Shapes'
  /\ ~Polling' \/ (Polling /\ UNCHANGED <<net, monitor>>)

LEMMA EndingStep == ASSUME IInv, Ending PROVE IInv'
<1>1. Real(net')
  BY NoNetReal DEF Ending, IInv, Dials
<1> QED BY <1>1 DEF Ending, IInv, RangesHeldUnlessTorn

LEMMA GivenUpShape ==
  ASSUME Shapes, GivenUp
  PROVE  host' \in HostShape /\ host'.state = host.state
<1> DEFINE o == IF host.owner = "call" THEN "late" ELSE host.owner
<1>1. host' = Late(host, o)
  BY DEF GivenUp, Late
<1>2. o \in {"none", "call", "late"} /\ host \in HostShape
  BY DEF Shapes, HostShape
<1> QED BY <1>1, <1>2, HostKept

LEMMA OnLostShape ==
  ASSUME Shapes, OnLost
  PROVE  me' \in MeShape /\ monitor' \in MonitorShape /\ ~Polling'
<1>1. me' \in MeShape
  BY MeKept DEF OnLost, Shapes
<1> QED BY <1>1, OffShape DEF OnLost, Polling

LEMMA TeardownStep == ASSUME IInv, Teardown PROVE IInv'
<1>0. Shapes /\ host \in HostShape /\ me \in MeShape
  BY DEF IInv, Shapes
<1>1. CASE StopPolling
  <2>1. Ending
    BY <1>0, <1>1, OffShape DEF StopPolling, Ending, Shapes, Polling
  <2> QED BY <2>1, EndingStep
<1>2. CASE Disconnect
  <2>1. me' \in MeShape
    BY <1>0, <1>2, MeKept DEF Disconnect
  <2>2. Ending
    BY <1>0, <1>2, <2>1, OffShape DEF Disconnect, Ending, Shapes, Polling
  <2> QED BY <2>2, EndingStep
<1>3. CASE Swept
  <2>1. me' \in MeShape /\ me'.own = me.own /\ me'.session = me.session
    BY <1>0, <1>3, MeKept DEF Swept
  <2>2. Ending
    BY <1>0, <1>3, <2>1 DEF Swept, Ending, Shapes, Polling, Owns
  <2> QED BY <2>2, EndingStep
<1>4. CASE SweepLost
  <2>1. me' = [me EXCEPT !.latch = TRUE] /\ UNCHANGED <<device, monitor, net>> /\ GivenUp
    BY <1>4 DEF SweepLost
  <2>2. host' \in HostShape /\ host'.state = host.state
    BY <1>0, <2>1, GivenUpShape
  <2>3. me' \in MeShape /\ me'.own = me.own /\ me'.session = me.session
    BY <1>0, <2>1, MeKept
  <2>4. Ending
    BY <1>0, <2>1, <2>2, <2>3 DEF Ending, Shapes, Polling, Owns
  <2> QED BY <2>4, EndingStep
<1>5. CASE Down
  <2>1. me' \in MeShape /\ me'.own = "inactive"
    BY <1>0, <1>5, MeKept DEF Down, Downed
  <2> DEFINE o == IF host.owner = "call" THEN "none" ELSE host.owner
  <2>2. host' = Brought(host, o, "down")
    BY <1>5 DEF Down, Brought
  <2>3. o \in {"none", "call", "late"}
    BY <1>0 DEF HostShape
  <2>4. host' \in HostShape
    BY <1>0, <2>2, <2>3, HostKept
  <2>5. Ending
    BY <1>0, <1>5, <2>1, <2>4 DEF Down, NoDevice, Ending, Shapes, Polling, Owns
  <2> QED BY <2>5, EndingStep
<1>6. CASE DownRefused
  <2>1. me' \in MeShape /\ me'.own = me.own /\ me'.session = me.session
    BY <1>0, <1>6, MeKept DEF DownRefused
  <2>2. Ending
    BY <1>0, <1>6, <2>1 DEF DownRefused, resolvers, Ending, Shapes, Polling, Owns
  <2> QED BY <2>2, EndingStep
<1>7. CASE DownLost
  <2>1. me' \in MeShape /\ me'.own = me.own /\ me'.session = me.session
    BY <1>0, <1>7, MeKept DEF DownLost
  <2>2. CASE /\ host' = [host EXCEPT !.late = TRUE, !.owner = IF @ = "call" THEN "late" ELSE @]
             /\ UNCHANGED <<platform, device, net>>
    <3> DEFINE o == IF host.owner = "call" THEN "late" ELSE host.owner
    <3>1. host' = Late(host, o)
      BY <2>2 DEF Late
    <3>2. o \in {"none", "call", "late"}
      BY <1>0 DEF HostShape
    <3>3. host' \in HostShape /\ host'.state = host.state
      BY <1>0, <3>1, <3>2, HostKept
    <3>4. Ending
      BY <1>0, <1>7, <2>1, <2>2, <3>3 DEF DownLost, Ending, Shapes, Polling, Owns
    <3> QED BY <3>4, EndingStep
  <2>3. CASE /\ host' = [state |-> "down", late |-> TRUE,
                         owner |-> IF host.owner = "call" THEN "none" ELSE host.owner]
             /\ NoDevice
    <3>1. host' \in HostShape /\ host'.state = "down"
      BY <1>0, <2>3 DEF HostShape
    <3>2. Ending
      BY <1>0, <1>7, <2>1, <2>3, <3>1 DEF DownLost, NoDevice, Ending, Shapes, Polling
    <3> QED BY <3>2, EndingStep
  <2> QED BY <1>7, <2>2, <2>3 DEF DownLost
<1> QED BY <1>1, <1>2, <1>3, <1>4, <1>5, <1>6, <1>7 DEF Teardown

LEMMA LossesStep == ASSUME IInv, Losses PROVE IInv'
<1>0. Shapes /\ host \in HostShape /\ me \in MeShape
  BY DEF IInv, Shapes
<1>1. CASE SocketLost
  <2>1. Ending
    BY <1>0, <1>1, OnLostShape, GivenUpShape DEF SocketLost, Ending, Shapes
  <2> QED BY <2>1, EndingStep
<1>2. CASE HandlerEnds
  <2> DEFINE o == IF host.owner = "late" THEN "none" ELSE host.owner
             s == IF host.owner = "late" /\ host.state = "up" THEN "failed" ELSE host.state
  <2>1. host' = Ended(host, o, s)
    BY <1>2 DEF HandlerEnds, Ended
  <2>2. o \in {"none", "call", "late"} /\ s \in {"down", "up", "failed"}
    BY <1>0 DEF HostShape
  <2>3. host' \in HostShape /\ host'.state = s
    BY <1>0, <2>1, <2>2, HostKept
  <2>4. Ending
    BY <1>0, <1>2, <2>3 DEF HandlerEnds, NoDevice, Ending, Shapes, Polling, Owns
  <2> QED BY <2>4, EndingStep
<1>3. CASE DeadMan
  <2>1. host' \in HostShape /\ host'.state = "down"
    BY <1>0, <1>3, HostKept DEF DeadMan, At
  <2>2. Ending
    BY <1>0, <1>3, <2>1 DEF DeadMan, NoDevice, Ending, Shapes, Polling
  <2> QED BY <2>2, EndingStep
<1>4. CASE SeenDown
  <2>1. me' \in MeShape /\ me'.own = "inactive"
    BY <1>0, <1>4, MeKept DEF SeenDown
  <2>2. Ending
    BY <1>0, <1>4, <2>1 DEF SeenDown, resolvers, Ending, Shapes, Polling, Owns
  <2> QED BY <2>2, EndingStep
<1>5. CASE HelperCrash
  <2>1. host' \in HostShape
    BY <1>5 DEF HelperCrash, HostShape
  <2>2. Ending
    BY <1>0, <1>5, <2>1, OnLostShape DEF HelperCrash, NoDevice, Ending, Shapes
  <2> QED BY <2>2, EndingStep
<1>6. CASE ClientCrash
  <2>1. me' \in MeShape /\ me'.own = "inactive"
    BY <1>0, <1>6, MeKept DEF ClientCrash
  <2>2. Ending
    BY <1>0, <1>6, <2>1, OffShape, GivenUpShape DEF ClientCrash, Ending, Shapes, Polling
  <2> QED BY <2>2, EndingStep
<1>7. CASE SeenUp
  <2>1. me' \in MeShape /\ me'.own = "owed"
    BY <1>0, <1>7, MeKept DEF SeenUp
  <2>2. Ending
    BY <1>0, <1>7, <2>1 DEF SeenUp, resolvers, Ending, Shapes, Polling, Owns
  <2> QED BY <2>2, EndingStep
<1> QED BY <1>1, <1>2, <1>3, <1>4, <1>5, <1>6, <1>7 DEF Losses

-----------------------------------------------------------------------------
(* Bring-ups.                                                              *)

LEMMA ConnectStep == ASSUME IInv, Connect PROVE IInv'
<1>0. Shapes /\ host \in HostShape /\ me \in MeShape
  BY DEF IInv, Shapes
<1>1. PICK c \in Configs : /\ net' = [NoNet EXCEPT !.peer = c.dial]
                           /\ monitor' = [Off EXCEPT !.at = "wait", !.dial = c.dial]
  BY DEF Connect
<1>2. c.dial \in Dials
  BY DEF Dials
<1>3. Real(net') /\ net'.peer = c.dial /\ net'.allowed = {} /\ net'.applied = {}
  BY <1>1, <1>2, NoNetReal DEF NoNet
<1>4. monitor' \in MonitorShape /\ monitor'.dial = c.dial /\ monitor'.ranges = {}
  BY <1>1, <1>2, OffShape DEF MonitorShape, Off
<1>5. host' \in HostShape
  BY <1>0 DEF Connect, HostShape
<1>6. me' = Begun(me, "up")
  BY DEF Connect, Begun
<1>7. me' \in MeShape
  BY <1>0, <1>6, MeBegun
<1> QED BY <1>3, <1>4, <1>5, <1>7 DEF IInv, Shapes, RangesHeldUnlessTorn

LEMMA ConnectFailsStep == ASSUME IInv, ConnectFails PROVE IInv'
<1>0. Shapes /\ host \in HostShape /\ me \in MeShape
  BY DEF IInv, Shapes
<1>1. me' \in MeShape /\ me'.own = "owed"
  <2>1. me' = Begun(me, "owed")
    BY DEF ConnectFails, Begun
  <2> QED BY <1>0, <2>1, MeBegun
<1>2. host' \in HostShape
  BY <1>0 DEF ConnectFails, HostShape
<1>3. Ending
  BY <1>0, <1>1, <1>2 DEF ConnectFails, NoDevice, Ending, Shapes, Polling, Owns
<1> QED BY <1>3, EndingStep

-----------------------------------------------------------------------------
(* One poll.  RoutedAssumption is what keeps the monitor's snapshot within *)
(* Ranges and Domains.                                                     *)

LEMMA RangesShapes ==
  ASSUME NEW m \in MonitorShape
  PROVE  /\ RangesSet(m) \in MonitorShape /\ RangesSet(m).ranges = m.snap.ranges
         /\ RangesSet(m).dial = m.dial /\ RangesSet(m).at = "forwards"
         /\ RangesKept(m) \in MonitorShape /\ RangesKept(m).ranges = m.ranges
         /\ RangesKept(m).dial = m.dial /\ RangesKept(m).at = "forwards"
         /\ m.snap.ranges \in SUBSET Ranges /\ m.ranges \in SUBSET Ranges
         /\ m.snap.dial \in Dials
         /\ Wanted(m) \in SUBSET Domains
<1>1. m.snap \in SomeConfig /\ m.ranges \in SUBSET Ranges /\ m.forwards \in SUBSET Domains
  BY DEF MonitorShape
<1>2. m.snap.ranges \in SUBSET Ranges /\ m.snap.dial \in Dials /\ m.snap.forwards \in SUBSET Domains
  BY <1>1 DEF SomeConfig
<1>3. Wanted(m) \in SUBSET Domains
  BY <1>1, <1>2 DEF Wanted
<1> HIDE DEF SomeConfig
<1>4. /\ RangesSet(m) \in MonitorShape /\ RangesSet(m).ranges = m.snap.ranges
      /\ RangesSet(m).dial = m.dial /\ RangesSet(m).at = "forwards"
  BY <1>1, <1>2 DEF RangesSet, MonitorShape
<1>5. /\ RangesKept(m) \in MonitorShape /\ RangesKept(m).ranges = m.ranges
      /\ RangesKept(m).dial = m.dial /\ RangesKept(m).at = "forwards"
  BY <1>1, <1>2 DEF RangesKept, MonitorShape
<1> QED BY <1>1, <1>2, <1>3, <1>4, <1>5

\* An action of the monitor that changes where it is, and not what it believes.
Onward ==
  /\ UNCHANGED <<net, host, device>> /\ me' \in MeShape
  /\ me'.own = me.own /\ me'.session = me.session
  /\ monitor' \in MonitorShape /\ monitor.at # "off"
  /\ monitor'.ranges = monitor.ranges /\ monitor'.dial = monitor.dial

LEMMA OnwardStep == ASSUME IInv, Onward PROVE IInv'
  BY DEF IInv, Onward, Shapes, RangesHeldUnlessTorn, Polling, Owns

LEMMA MonitorMoves ==
  ASSUME NEW m \in MonitorShape, NEW at \in {"wait", "ranges", "forwards", "dial"}
  PROVE  /\ [m EXCEPT !.at = at] \in MonitorShape
         /\ [m EXCEPT !.at = at].ranges = m.ranges /\ [m EXCEPT !.at = at].dial = m.dial
  BY DEF MonitorShape

LEMMA ConfigShape == Configs \subseteq SomeConfig
  BY RoutedAssumption DEF SomeConfig, Dials

LEMMA PollStep == ASSUME IInv, Poll PROVE IInv'
<1>0. Shapes /\ monitor \in MonitorShape /\ me \in MeShape
  BY DEF IInv, Shapes
<1>1. PICK c \in Configs :
        monitor' = [monitor EXCEPT !.at = "ranges", !.snap = c, !.routesFailed = FALSE]
  BY DEF Poll
<1>2. c \in SomeConfig
  BY ConfigShape
<1> HIDE DEF SomeConfig
<1>3. /\ monitor' \in MonitorShape
      /\ monitor'.ranges = monitor.ranges /\ monitor'.dial = monitor.dial
  BY <1>0, <1>1, <1>2 DEF MonitorShape
<1>4. Onward
  BY <1>0, <1>3 DEF Poll, Onward, resolvers
<1> QED BY <1>4, OnwardStep

LEMMA RangesStep ==
  ASSUME IInv, RangesUnchanged \/ ApplyRanges \/ ApplyRangesRefused \/ ApplyRangesLost
  PROVE  IInv'
<1>0. Shapes /\ monitor \in MonitorShape /\ me \in MeShape /\ Real(net)
  BY DEF IInv, Shapes
<1> DEFINE want == monitor.snap.ranges
<1>1. want \in SUBSET Ranges
  BY <1>0, RangesShapes
<1>2. CASE RangesUnchanged
  <2>1. Onward
    BY <1>0, <1>2, MonitorMoves DEF RangesUnchanged, Onward, resolvers
  <2> QED BY <2>1, OnwardStep
<1>3. CASE /\ monitor' = RangesKept(monitor) /\ monitor.at = "ranges"
           /\ UNCHANGED <<resolvers, me, host, net>>
  <2>1. Onward
    BY <1>0, <1>3, RangesShapes DEF Onward, resolvers
  <2> QED BY <2>1, OnwardStep
<1>4. CASE ApplyRanges /\ Owns /\ host.state = "up"
  <2>1. PICK stuck \in SUBSET net.routes, refused \in SUBSET (want \ net.applied) :
          /\ net' = Applied(net, want, stuck, refused)
          /\ monitor' = IF refused = {} THEN RangesSet(monitor) ELSE RangesKept(monitor)
    BY <1>4 DEF ApplyRanges
  <2>2. Real(net')
    BY <1>0, <1>1, <2>1, AppliedReal
  <2>3. /\ net'.peer = net.peer
        /\ net'.torn = (refused # {})
        /\ refused = {} => net'.allowed = want /\ net'.applied = want
    BY <1>0, <1>1, <2>1, AppliedWhole
  <2>4. /\ monitor' \in MonitorShape /\ monitor'.dial = monitor.dial
        /\ refused = {} => monitor'.ranges = want
    BY <1>0, <2>1, RangesShapes
  <2>5. Shapes' /\ (Polling' => Polling)
    BY <1>0, <1>4, <2>4 DEF ApplyRanges, Shapes, resolvers, Polling, Owns
  <2> QED BY <2>2, <2>3, <2>4, <2>5 DEF IInv, RangesHeldUnlessTorn
<1>5. CASE ApplyRangesLost
  <2>1. Real(net')
    BY <1>0, <1>1, <1>5, AppliedReal DEF ApplyRangesLost
  <2>2. Shapes' /\ ~Polling'
    BY <1>0, <1>5, OnLostShape, GivenUpShape DEF ApplyRangesLost, Shapes
  <2> QED BY <2>1, <2>2 DEF IInv, RangesHeldUnlessTorn
<1> QED BY <1>2, <1>3, <1>4, <1>5 DEF ApplyRanges, ApplyRangesRefused

LEMMA ForwardsStep ==
  ASSUME IInv, Awaiting,
         ForwardsUnchanged \/ ApplyForwards \/ ForwardsAnswered \/ ForwardsLost
  PROVE  IInv'
<1>0. Shapes /\ monitor \in MonitorShape /\ me \in MeShape
  BY DEF IInv, Shapes
<1>1. CASE ForwardsUnchanged
  <2>1. Onward
    BY <1>0, <1>1, MonitorMoves DEF ForwardsUnchanged, Onward, resolvers
  <2> QED BY <2>1, OnwardStep
<1>2. CASE ApplyForwards
  <2>1. me' \in MeShape /\ me'.own = me.own /\ me'.session = me.session
    BY <1>0, <1>2 DEF ApplyForwards, MeShape
  <2>2. /\ monitor' \in MonitorShape
        /\ monitor'.ranges = monitor.ranges /\ monitor'.dial = monitor.dial
    BY <1>0, <1>2, MonitorMoves DEF ApplyForwards
  <2>3. Onward
    BY <1>2, <2>1, <2>2 DEF ApplyForwards, Onward
  <2> QED BY <2>3, OnwardStep
<1>3. CASE ForwardsAnswered
  <2> DEFINE f == Wanted(monitor)
             m == [monitor EXCEPT !.forwards = f, !.at = "dial"]
  <2>1. me' \in MeShape /\ me'.own = me.own /\ me'.session = me.session
    BY <1>0, <1>3 DEF ForwardsAnswered, MeShape
  <2>2. f \in SUBSET Domains
    BY <1>0, RangesShapes
  <2>3. monitor' \in {m, [monitor EXCEPT !.at = "dial"]}
    BY <1>3 DEF ForwardsAnswered
  <2> HIDE DEF f
  <2>4. m \in MonitorShape /\ m.ranges = monitor.ranges /\ m.dial = monitor.dial
    BY <1>0, <2>2 DEF MonitorShape
  <2>5. /\ monitor' \in MonitorShape
        /\ monitor'.ranges = monitor.ranges /\ monitor'.dial = monitor.dial
    BY <1>0, <2>3, <2>4, MonitorMoves
  <2>6. Onward
    BY <1>3, <2>1, <2>5 DEF ForwardsAnswered, Awaiting, Onward
  <2> QED BY <2>6, OnwardStep
<1>4. CASE ForwardsLost
  <2>1. Ending
    BY <1>0, <1>4, OnLostShape, GivenUpShape DEF ForwardsLost, Ending, Shapes
  <2> QED BY <2>1, EndingStep
<1> QED BY <1>1, <1>2, <1>3, <1>4

\* A re-home changes the peer and what the monitor dials together, or neither.
LEMMA RedialStep == ASSUME IInv, Redial PROVE IInv'
<1>0. Shapes /\ monitor \in MonitorShape /\ me \in MeShape /\ Real(net)
  BY DEF IInv, Shapes
<1> DEFINE d == monitor.snap.dial
<1>1. CASE net' = net /\ monitor' = [monitor EXCEPT !.at = "wait"]
  <2>1. Onward
    BY <1>0, <1>1, MonitorMoves DEF Redial, Onward, resolvers
  <2> QED BY <2>1, OnwardStep
<1>2. CASE /\ net' = [net EXCEPT !.peer = d]
           /\ monitor' = [monitor EXCEPT !.dial = d, !.at = "wait"]
  <2>1. d \in Dials
    BY <1>0, RangesShapes
  <2> HIDE DEF d
  <2>2. /\ Real(net') /\ net'.peer = d /\ net'.torn = net.torn
        /\ net'.allowed = net.allowed /\ net'.applied = net.applied
    BY <1>0, <1>2, <2>1 DEF Real, NetShape
  <2>3. monitor' \in MonitorShape /\ monitor'.dial = d /\ monitor'.ranges = monitor.ranges
    BY <1>0, <1>2, <2>1 DEF MonitorShape
  <2>4. Shapes' /\ (Polling' => Polling)
    BY <1>0, <2>3 DEF Redial, resolvers, Shapes, Polling, Owns
  <2> QED BY <2>2, <2>3, <2>4 DEF IInv, RangesHeldUnlessTorn
<1> QED BY <1>1, <1>2 DEF Redial

-----------------------------------------------------------------------------
(* The steps of set_resolvers and of the sweeps touch the entries alone.   *)

LEMMA ReconcileStep ==
  ASSUME IInv, NEW w \in Workers, Reconcile(w), UNCHANGED <<monitor, lane, me, host, net>>
  PROVE  IInv'
<1>1. device' = device
  BY DEF Reconcile, Lock, List, Write, Remove, Add, Check
<1> QED BY <1>1 DEF IInv, Shapes, RangesHeldUnlessTorn, Polling, Owns

LEMMA AwaitingStep == ASSUME Awaiting, [Next]_vars PROVE Awaiting'
<1>1. CASE Teardown
  BY <1>1 DEF Awaiting, Teardown, StopPolling, Disconnect, Swept, SweepLost, Down,
              DownRefused, DownLost, Downed
<1>2. CASE Losses
  BY <1>2 DEF Awaiting, Losses, SocketLost, HandlerEnds, DeadMan, SeenDown, HelperCrash,
              ClientCrash, SeenUp
<1>3. CASE Monitor
  BY <1>3 DEF Awaiting, Monitor, Poll, RangesUnchanged, ApplyRanges, ApplyRangesRefused,
              ApplyRangesLost, ForwardsUnchanged, ApplyForwards, ForwardsAnswered,
              ForwardsLost, Redial
<1>4. CASE Connect \/ ConnectFails
  BY <1>4 DEF Awaiting, Connect, ConnectFails
<1>5. CASE UNCHANGED <<monitor, lane>>
  BY <1>5 DEF Awaiting
<1> QED BY <1>1, <1>2, <1>3, <1>4, <1>5 DEF Next, vars

LEMMA NextInv == ASSUME IInv, Awaiting, [Next]_vars PROVE IInv'
<1>1. CASE Monitor
  BY <1>1, PollStep, RangesStep, ForwardsStep, RedialStep DEF Monitor
<1>2. CASE UNCHANGED vars
  BY <1>2 DEF IInv, Shapes, RangesHeldUnlessTorn, Polling, Owns, vars, resolvers
<1>3. CASE \E w \in Workers : Reconcile(w) /\ UNCHANGED <<monitor, lane, me, host, net>>
  BY <1>3, ReconcileStep
<1> QED BY <1>1, <1>2, <1>3, ConnectStep, ConnectFailsStep, TeardownStep, LossesStep DEF Next

-----------------------------------------------------------------------------

\* The invariant holds throughout.
THEOREM Invariance == Spec => [](IInv /\ Awaiting)
<1>1. Init => IInv /\ Awaiting
  BY Initially DEF Init, Awaiting
<1>2. IInv /\ Awaiting /\ [Next]_vars => (IInv /\ Awaiting)'
  BY NextInv, AwaitingStep
<1> QED BY <1>1, <1>2, PTL DEF Spec

\* routereconcile.go: no sweep, whatever fails in it, leaves a belief in a route that is
\* not there, or a route that no failed deletion accounts for.
THEOREM BeliefTheorem == Spec => []BeliefIsReal
<1>1. IInv => BeliefIsReal
  BY DEF IInv, Real, BeliefIsReal
<1> QED BY <1>1, Invariance, PTL

\* routedrangesmonitor.ts: what the monitor takes for applied is what the peer has, until an
\* apply of the helper stops half-way.
THEOREM HeldTheorem == Spec => []RangesHeldUnlessTorn
<1>1. IInv => RangesHeldUnlessTorn
  BY DEF IInv
<1> QED BY <1>1, Invariance, PTL

-----------------------------------------------------------------------------
(* Resolvers.  One reconcile, alone: what is left to it of a sweep.        *)

Left(j) == IF Windows THEN j.mine ELSE j.todo

\* A job that wants nothing adds nothing,
Sweeper(j) ==
  /\ j.want = {} /\ (Windows => j.at # "write")
  /\ j.at \in {"write", "add"} \/ (j.at = "remove" /\ Windows) => j.todo = {}

\* and clears the host if everything of ours is on its list, or will be.
Clears(j) ==
  /\ Sweeper(j)
  /\ \/ j.at \in {"lock", "list"}
     \/ j.at = "write" /\ owned \subseteq j.mine
     \/ j.at = "remove" /\ owned \subseteq Left(j)
     \/ j.at \in {"add", "check", "done"} /\ owned = {}

\* A job that still may add, and one of Windows that will look at the device and sweep.
Adds(j) == j.want # {} /\ j.at \in {"list", "write", "remove", "add"}
Resweeps(j) ==
  /\ j.guarded /\ j.at \in {"list", "remove", "add", "check"}
  /\ IF j.out = "stale" THEN Clears(j) ELSE j.seen # device

JobsTyped == jobs \in [Workers -> Job] /\ owned \in SUBSET Domains /\ device \in Nat

LEMMA NoJobIs ==
  /\ NoJob \in Job /\ NoJob.at = "idle" /\ NoJob.want = {} /\ ~NoJob.guarded
  /\ NoJob.out = "ok" /\ NoJob.todo = {}
  BY DEF NoJob, Job, Points, Results

LEMMA RequestedIs ==
  ASSUME NEW want \in SUBSET Domains
  PROVE  /\ Requested(want) \in Job /\ Requested(want).want = want
         /\ Requested(want).at = (IF Windows THEN "lock" ELSE "list")
         /\ Requested(want).guarded = Windows /\ Requested(want).out = "ok"
<1> DEFINE at == IF Windows THEN "lock" ELSE "list"
           g == Windows
<1>1. at \in Points /\ g \in BOOLEAN
  BY DEF Points, Windows
<1>2. Requested(want) = [[[NoJob EXCEPT !.at = at] EXCEPT !.want = want] EXCEPT !.guarded = g]
  BY DEF Requested, NoJob
<1> HIDE DEF at, g
<1> DEFINE j == [[[NoJob EXCEPT !.at = at] EXCEPT !.want = want] EXCEPT !.guarded = g]
<1>3. j \in Job /\ j.want = want /\ j.at = at /\ j.guarded = g /\ j.out = "ok"
  BY <1>1, NoJobIs DEF Job
<1> QED BY <1>2, <1>3 DEF at, g

LEMMA SweepingIs == Sweeping \in Job /\ Sweeping.at = "list" /\ Sweeping.want = {}
  BY DEF Sweeping, NoJob, Job, Points, Results

LEMMA PutEffect ==
  ASSUME JobsTyped, NEW w \in Workers, NEW j \in Job, Put(w, j)
  PROVE  /\ jobs' \in [Workers -> Job] /\ jobs'[w] = j
         /\ \A v \in Workers \ {w} : jobs'[v] = jobs[v]
  BY DEF JobsTyped, Put

\* How one step changes the job of w, of whom j is the job and k the next.
Only(w, k) ==
  /\ jobs' \in [Workers -> Job] /\ k \in Job /\ jobs'[w] = k
  /\ \A v \in Workers \ {w} : jobs'[v] = jobs[v]

Same(j, k) == k.want = j.want /\ k.guarded = j.guarded /\ k.out = j.out /\ k.seen = j.seen

Finished(j, k) ==
  /\ k.want = j.want /\ k.seen = j.seen /\ k.guarded = j.guarded
  /\ k.at = IF j.guarded THEN "check" ELSE "done"
  /\ k.out = "stale" <=> j.out = "stale"

LEMMA FinishEffect ==
  ASSUME JobsTyped, NEW w \in Workers, NEW j \in Job, NEW out \in {"ok", "refused"}, Finish(w, j, out)
  PROVE  LET k == jobs'[w] IN
         /\ Only(w, k) /\ Finished(j, k)
         /\ disturbed' = (disturbed \/ (out = "refused" /\ j.want = {}))
<1> DEFINE at == IF j.guarded THEN "check" ELSE "done"
           o == IF j.out = "stale" THEN "stale" ELSE out
           k == [j EXCEPT !.at = at, !.out = o]
<1>1. at \in Points /\ o \in Results
  BY DEF Points, Results
<1>2. Put(w, k) /\ disturbed' = (disturbed \/ (out = "refused" /\ j.want = {}))
  BY DEF Finish
<1> HIDE DEF at, o
<1>3. /\ k \in Job /\ k.want = j.want /\ k.todo = j.todo /\ k.mine = j.mine /\ k.seen = j.seen
      /\ k.guarded = j.guarded /\ k.at = at /\ k.out = o
  BY <1>1 DEF Job
<1> HIDE DEF k
<1>4. Only(w, k) /\ jobs'[w] = k
  BY <1>2, <1>3, PutEffect DEF Only
<1> QED BY <1>2, <1>3, <1>4 DEF at, o, Finished

\* Every step, field by field.
LEMMA LockEffect ==
  ASSUME JobsTyped, NEW w \in Workers, Lock(w)
  PROVE  LET j == jobs[w]
             k == jobs'[w] IN
         /\ Only(w, k) /\ j.at = "lock" /\ UNCHANGED <<platform, device, owned>>
         /\ k.want = j.want
         /\ \/ /\ k.at = "list" /\ k.seen = device /\ (device # 0 \/ j.want = {})
               /\ k.guarded = j.guarded /\ k.out = j.out
            \/ k.at = "done" /\ ~k.guarded
         /\ j.want = {} /\ ~disturbed' => k.at = "list"
         /\ ~disturbed' => ~disturbed
<1> DEFINE j == jobs[w]
<1>1. j \in Job /\ device \in Nat /\ j.at = "lock" /\ UNCHANGED <<platform, device, owned>>
  BY DEF Lock, JobsTyped
<1>2. CASE /\ device # 0 \/ j.want = {}
           /\ Put(w, [j EXCEPT !.at = "list", !.seen = device])
           /\ disturbed' = disturbed
  <2> DEFINE k == [j EXCEPT !.at = "list", !.seen = device]
  <2>1. /\ k \in Job /\ k.want = j.want /\ k.guarded = j.guarded /\ k.out = j.out
        /\ k.at = "list" /\ k.seen = device
    BY <1>1 DEF Job, Points
  <2> HIDE DEF k
  <2>2. Only(w, k) /\ jobs'[w] = k
    BY <1>2, <2>1, PutEffect DEF Only, k
  <2> QED BY <1>1, <1>2, <2>1, <2>2
<1>3. CASE /\ device = 0 /\ j.want # {}
           /\ Put(w, [j EXCEPT !.at = "done", !.out = "refused", !.guarded = FALSE])
           /\ disturbed' = disturbed
  <2> DEFINE k == [j EXCEPT !.at = "done", !.out = "refused", !.guarded = FALSE]
  <2>1. /\ k \in Job /\ k.want = j.want /\ ~k.guarded /\ k.at = "done"
    BY <1>1 DEF Job, Points, Results
  <2> HIDE DEF k
  <2>2. Only(w, k) /\ jobs'[w] = k
    BY <1>3, <2>1, PutEffect DEF Only, k
  <2> QED BY <1>1, <1>3, <2>1, <2>2
<1>4. CASE device # 0 /\ Finish(w, [j EXCEPT !.guarded = FALSE], "refused")
  <2> DEFINE k == [j EXCEPT !.guarded = FALSE]
  <2>1. k \in Job /\ k.want = j.want /\ ~k.guarded
    BY <1>1 DEF Job
  <2> HIDE DEF k
  <2>2. Finish(w, k, "refused")
    BY <1>4 DEF k
  <2>3. Only(w, jobs'[w]) /\ Finished(k, jobs'[w]) /\ disturbed' = (disturbed \/ k.want = {})
    BY <2>1, <2>2, FinishEffect
  <2> QED BY <1>1, <1>4, <2>1, <2>3 DEF Finished
<1> QED BY <1>2, <1>3, <1>4 DEF Lock

LEMMA ListEffect ==
  ASSUME JobsTyped, NEW w \in Workers, List(w)
  PROVE  LET j == jobs[w]
             k == jobs'[w] IN
         /\ Only(w, k) /\ j.at = "list" /\ UNCHANGED <<platform, device, owned>>
         /\ \/ /\ k.at = IF Windows THEN "remove" ELSE "write"
               /\ k.mine = owned /\ k.todo = j.want /\ Same(j, k)
            \/ Finished(j, k) /\ (j.want = {} => disturbed')
         /\ ~disturbed' => ~disturbed
<1> DEFINE j == jobs[w]
<1>1. j \in Job /\ owned \in SUBSET Domains /\ j.at = "list" /\ UNCHANGED <<platform, device, owned>>
  BY DEF List, JobsTyped
<1>2. CASE Finish(w, j, "refused")
  <2> HIDE DEF j
  <2>1. Only(w, jobs'[w]) /\ Finished(j, jobs'[w]) /\ disturbed' = (disturbed \/ j.want = {})
    BY <1>1, <1>2, FinishEffect
  <2> QED BY <1>1, <2>1 DEF j
<1>3. CASE /\ Put(w, [j EXCEPT !.mine = owned, !.todo = j.want,
                               !.at = IF Windows THEN "remove" ELSE "write"])
           /\ disturbed' = disturbed
  <2> DEFINE at == IF Windows THEN "remove" ELSE "write"
             want == j.want
             k == [j EXCEPT !.mine = owned, !.todo = want, !.at = at]
  <2>1. at \in Points /\ want \in SUBSET Domains
    BY <1>1 DEF Points, Job
  <2> HIDE DEF at, want
  <2>2. /\ k \in Job /\ Same(j, k) /\ k.mine = owned /\ k.todo = want /\ k.at = at
    BY <1>1, <2>1 DEF Job, Same
  <2>3. Put(w, k)
    BY <1>3 DEF at, want
  <2> HIDE DEF k
  <2>4. Only(w, k) /\ jobs'[w] = k
    BY <2>2, <2>3, PutEffect DEF Only
  <2> QED BY <1>1, <1>3, <2>2, <2>4 DEF at, want, Same
<1> QED BY <1>2, <1>3 DEF List

LEMMA WriteEffect ==
  ASSUME JobsTyped, NEW w \in Workers, Write(w)
  PROVE  LET j == jobs[w]
             k == jobs'[w] IN
         /\ Only(w, k) /\ j.at = "write" /\ UNCHANGED <<platform, device>>
         /\ owned' \in SUBSET Domains
         /\ \/ /\ \E d \in j.todo : owned' = owned \cup {d}
               /\ k.at = "write" /\ k.mine = j.mine /\ Same(j, k)
            \/ /\ j.todo # {} /\ owned' \subseteq owned
               /\ Finished(j, k) /\ (j.want = {} => disturbed')
            \/ /\ j.todo = {} /\ owned' = owned
               /\ k.at = "remove" /\ k.todo = j.mine \ j.want /\ k.mine = j.mine /\ Same(j, k)
         /\ ~disturbed' => ~disturbed
<1> DEFINE j == jobs[w]
<1>1. j \in Job /\ owned \in SUBSET Domains /\ j.at = "write" /\ UNCHANGED <<platform, device>>
  BY DEF Write, JobsTyped
<1>2. j.todo \in SUBSET Domains /\ j.made \in SUBSET Domains /\ j.mine \in SUBSET Domains
  BY <1>1 DEF Job
<1>3. ASSUME NEW d \in j.todo, owned' = owned \cup {d}, disturbed' = disturbed,
             Put(w, [j EXCEPT !.todo = @ \ {d}, !.made = @ \cup ({d} \ owned)])
      PROVE  /\ Only(w, jobs'[w]) /\ jobs'[w].at = "write" /\ jobs'[w].mine = j.mine
             /\ Same(j, jobs'[w])
  <2> DEFINE todo == j.todo \ {d}
             made == j.made \cup ({d} \ owned)
             k == [j EXCEPT !.todo = todo, !.made = made]
  <2>1. todo \in SUBSET Domains /\ made \in SUBSET Domains
    BY <1>2
  <2>2. Put(w, k)
    BY <1>3
  <2> HIDE DEF todo, made
  <2>3. k \in Job /\ k.at = "write" /\ k.mine = j.mine /\ Same(j, k)
    BY <1>1, <2>1 DEF Job, Same
  <2> HIDE DEF k
  <2>4. Only(w, k) /\ jobs'[w] = k
    BY <2>2, <2>3, PutEffect DEF Only
  <2> QED BY <2>3, <2>4
<1>4. ASSUME Finish(w, j, "refused")
      PROVE  Only(w, jobs'[w]) /\ Finished(j, jobs'[w]) /\ disturbed' = (disturbed \/ j.want = {})
  <2> HIDE DEF j
  <2> QED BY <1>1, <1>4, FinishEffect
<1>5. ASSUME Put(w, [j EXCEPT !.at = "remove", !.todo = j.mine \ j.want])
      PROVE  /\ Only(w, jobs'[w]) /\ jobs'[w].at = "remove" /\ jobs'[w].mine = j.mine
             /\ jobs'[w].todo = j.mine \ j.want /\ Same(j, jobs'[w])
  <2> DEFINE todo == j.mine \ j.want
             k == [j EXCEPT !.at = "remove", !.todo = todo]
  <2>1. todo \in SUBSET Domains
    BY <1>2
  <2>2. Put(w, k)
    BY <1>5
  <2> HIDE DEF todo
  <2>3. k \in Job /\ k.at = "remove" /\ k.mine = j.mine /\ k.todo = todo /\ Same(j, k)
    BY <1>1, <2>1 DEF Job, Same, Points
  <2> HIDE DEF k
  <2>4. Only(w, k) /\ jobs'[w] = k
    BY <2>2, <2>3, PutEffect DEF Only
  <2> QED BY <2>3, <2>4 DEF todo
<1>6. \/ \E d \in j.todo :
           \/ /\ owned' = owned \cup {d}
              /\ Put(w, [j EXCEPT !.todo = @ \ {d}, !.made = @ \cup ({d} \ owned)])
              /\ disturbed' = disturbed
           \/ owned' = owned \ j.made /\ Finish(w, j, "refused")
      \/ /\ j.todo = {} /\ Put(w, [j EXCEPT !.at = "remove", !.todo = j.mine \ j.want])
         /\ UNCHANGED <<owned, disturbed>>
  BY DEF Write
<1>7. CASE \E d \in j.todo :
             /\ owned' = owned \cup {d}
             /\ Put(w, [j EXCEPT !.todo = @ \ {d}, !.made = @ \cup ({d} \ owned)])
             /\ disturbed' = disturbed
  <2>1. PICK d \in j.todo :
          /\ owned' = owned \cup {d}
          /\ Put(w, [j EXCEPT !.todo = @ \ {d}, !.made = @ \cup ({d} \ owned)])
          /\ disturbed' = disturbed
    BY <1>7
  <2> QED BY <1>1, <1>2, <1>3, <2>1
<1>8. CASE j.todo # {} /\ owned' = owned \ j.made /\ Finish(w, j, "refused")
  BY <1>1, <1>2, <1>4, <1>8
<1>9. CASE /\ j.todo = {} /\ Put(w, [j EXCEPT !.at = "remove", !.todo = j.mine \ j.want])
           /\ UNCHANGED <<owned, disturbed>>
  BY <1>1, <1>2, <1>5, <1>9
<1> QED BY <1>6, <1>7, <1>8, <1>9

LEMMA RemoveEffect ==
  ASSUME JobsTyped, NEW w \in Workers, Remove(w)
  PROVE  LET j == jobs[w]
             k == jobs'[w] IN
         /\ Only(w, k) /\ j.at = "remove" /\ UNCHANGED <<platform, device>>
         /\ owned' \in SUBSET Domains
         /\ \/ /\ k.at = "remove" /\ Same(j, k)
               /\ \E d \in Left(j) :
                    /\ owned' = owned \ {d}
                    /\ IF Windows THEN k.mine = j.mine \ {d} /\ k.todo = j.todo
                       ELSE k.todo = j.todo \ {d}
            \/ owned' = owned /\ Finished(j, k) /\ (j.want = {} => disturbed')
            \/ /\ Left(j) = {} /\ owned' = owned
               /\ IF Windows THEN k.at = "add" /\ k.todo = j.todo /\ Same(j, k) ELSE Finished(j, k)
         /\ ~disturbed' => ~disturbed
<1> DEFINE j == jobs[w]
<1>1. j \in Job /\ owned \in SUBSET Domains /\ j.at = "remove" /\ UNCHANGED <<platform, device>>
  BY DEF Remove, JobsTyped
<1>2. j.todo \in SUBSET Domains /\ j.mine \in SUBSET Domains
  BY <1>1 DEF Job
<1>3. ASSUME NEW d, Put(w, IF Windows THEN [j EXCEPT !.mine = @ \ {d}] ELSE [j EXCEPT !.todo = @ \ {d}])
      PROVE  /\ Only(w, jobs'[w]) /\ jobs'[w].at = "remove" /\ Same(j, jobs'[w])
             /\ IF Windows THEN jobs'[w].mine = j.mine \ {d} /\ jobs'[w].todo = j.todo
                ELSE jobs'[w].todo = j.todo \ {d}
  <2>1. CASE Windows
    <3> DEFINE mine == j.mine \ {d}
               k == [j EXCEPT !.mine = mine]
    <3>1. mine \in SUBSET Domains
      BY <1>2
    <3>2. Put(w, k)
      BY <1>3, <2>1
    <3> HIDE DEF mine
    <3>3. k \in Job /\ k.at = "remove" /\ k.mine = mine /\ k.todo = j.todo /\ Same(j, k)
      BY <1>1, <3>1 DEF Job, Same
    <3> HIDE DEF k
    <3>4. Only(w, k) /\ jobs'[w] = k
      BY <3>2, <3>3, PutEffect DEF Only
    <3> QED BY <2>1, <3>3, <3>4 DEF mine
  <2>2. CASE ~Windows
    <3> DEFINE todo == j.todo \ {d}
               k == [j EXCEPT !.todo = todo]
    <3>1. todo \in SUBSET Domains
      BY <1>2
    <3>2. Put(w, k)
      BY <1>3, <2>2
    <3> HIDE DEF todo
    <3>3. k \in Job /\ k.at = "remove" /\ k.todo = todo /\ Same(j, k)
      BY <1>1, <3>1 DEF Job, Same
    <3> HIDE DEF k
    <3>4. Only(w, k) /\ jobs'[w] = k
      BY <3>2, <3>3, PutEffect DEF Only
    <3> QED BY <2>2, <3>3, <3>4 DEF todo
  <2> QED BY <2>1, <2>2
<1>4. ASSUME NEW out \in {"ok", "refused"}, Finish(w, j, out)
      PROVE  /\ Only(w, jobs'[w]) /\ Finished(j, jobs'[w])
             /\ disturbed' = (disturbed \/ (out = "refused" /\ j.want = {}))
  <2> HIDE DEF j
  <2> QED BY <1>1, <1>4, FinishEffect
<1>5. ASSUME Put(w, [j EXCEPT !.at = "add"])
      PROVE  Only(w, jobs'[w]) /\ jobs'[w].at = "add" /\ jobs'[w].todo = j.todo /\ Same(j, jobs'[w])
  <2> DEFINE k == [j EXCEPT !.at = "add"]
  <2>1. k \in Job /\ k.at = "add" /\ k.todo = j.todo /\ Same(j, k)
    BY <1>1 DEF Job, Same, Points
  <2>2. Put(w, k)
    BY <1>5
  <2> HIDE DEF k
  <2>3. Only(w, k) /\ jobs'[w] = k
    BY <2>1, <2>2, PutEffect DEF Only
  <2> QED BY <2>1, <2>3
<1>6. \/ \E d \in Left(j) :
           \/ /\ owned' = owned \ {d}
              /\ Put(w, IF Windows THEN [j EXCEPT !.mine = @ \ {d}] ELSE [j EXCEPT !.todo = @ \ {d}])
              /\ disturbed' = disturbed
           \/ owned' = owned /\ Finish(w, j, "refused")
      \/ /\ Left(j) = {} /\ owned' = owned
         /\ IF Windows THEN Put(w, [j EXCEPT !.at = "add"]) /\ disturbed' = disturbed
            ELSE Finish(w, j, "ok")
  BY DEF Remove, Left
<1>7. CASE \E d \in Left(j) :
             /\ owned' = owned \ {d}
             /\ Put(w, IF Windows THEN [j EXCEPT !.mine = @ \ {d}] ELSE [j EXCEPT !.todo = @ \ {d}])
             /\ disturbed' = disturbed
  <2>1. PICK d \in Left(j) :
          /\ owned' = owned \ {d}
          /\ Put(w, IF Windows THEN [j EXCEPT !.mine = @ \ {d}] ELSE [j EXCEPT !.todo = @ \ {d}])
          /\ disturbed' = disturbed
    BY <1>7
  <2> QED BY <1>1, <1>3, <2>1
<1>8. CASE owned' = owned /\ Finish(w, j, "refused")
  BY <1>1, <1>4, <1>8
<1>9. CASE /\ Left(j) = {} /\ owned' = owned
           /\ IF Windows THEN Put(w, [j EXCEPT !.at = "add"]) /\ disturbed' = disturbed
              ELSE Finish(w, j, "ok")
  <2>1. CASE Windows
    BY <1>1, <1>5, <1>9, <2>1
  <2>2. CASE ~Windows
    BY <1>1, <1>4, <1>9, <2>2
  <2> QED BY <2>1, <2>2
<1> QED BY <1>6, <1>7, <1>8, <1>9

LEMMA AddEffect ==
  ASSUME JobsTyped, NEW w \in Workers, Add(w)
  PROVE  LET j == jobs[w]
             k == jobs'[w] IN
         /\ Only(w, k) /\ j.at = "add" /\ UNCHANGED <<platform, device>>
         /\ owned' \in SUBSET Domains
         /\ \/ /\ \E d \in j.todo : owned' = owned \cup {d}
               /\ k.at = "add" /\ Same(j, k)
            \/ j.todo # {} /\ owned' = owned /\ Finished(j, k)
            \/ j.todo = {} /\ owned' = owned /\ Finished(j, k)
         /\ ~disturbed' => ~disturbed
<1> DEFINE j == jobs[w]
<1>1. j \in Job /\ owned \in SUBSET Domains /\ j.at = "add" /\ UNCHANGED <<platform, device>>
  BY DEF Add, JobsTyped
<1>2. j.todo \in SUBSET Domains
  BY <1>1 DEF Job
<1>3. ASSUME NEW d \in j.todo, Put(w, [j EXCEPT !.todo = @ \ {d}])
      PROVE  Only(w, jobs'[w]) /\ jobs'[w].at = "add" /\ Same(j, jobs'[w])
  <2> DEFINE todo == j.todo \ {d}
             k == [j EXCEPT !.todo = todo]
  <2>1. todo \in SUBSET Domains
    BY <1>2
  <2>2. Put(w, k)
    BY <1>3
  <2> HIDE DEF todo
  <2>3. k \in Job /\ k.at = "add" /\ Same(j, k)
    BY <1>1, <2>1 DEF Job, Same
  <2> HIDE DEF k
  <2>4. Only(w, k) /\ jobs'[w] = k
    BY <2>2, <2>3, PutEffect DEF Only
  <2> QED BY <2>3, <2>4
<1>4. ASSUME NEW out \in {"ok", "refused"}, Finish(w, j, out)
      PROVE  Only(w, jobs'[w]) /\ Finished(j, jobs'[w]) /\ (~disturbed' => ~disturbed)
  <2> HIDE DEF j
  <2> QED BY <1>1, <1>4, FinishEffect
<1>5. \/ \E d \in j.todo :
           \/ /\ owned' = owned \cup {d} /\ Put(w, [j EXCEPT !.todo = @ \ {d}])
              /\ disturbed' = disturbed
           \/ owned' = owned /\ Finish(w, j, "refused")
      \/ j.todo = {} /\ owned' = owned /\ Finish(w, j, "ok")
  BY DEF Add
<1>6. CASE \E d \in j.todo : /\ owned' = owned \cup {d} /\ Put(w, [j EXCEPT !.todo = @ \ {d}])
                             /\ disturbed' = disturbed
  <2>1. PICK d \in j.todo : /\ owned' = owned \cup {d} /\ Put(w, [j EXCEPT !.todo = @ \ {d}])
                            /\ disturbed' = disturbed
    BY <1>6
  <2> QED BY <1>1, <1>2, <1>3, <2>1
<1>7. CASE owned' = owned /\ (Finish(w, j, "refused") \/ Finish(w, j, "ok"))
  BY <1>1, <1>4, <1>7
<1> QED BY <1>5, <1>6, <1>7

LEMMA CheckEffect ==
  ASSUME JobsTyped, NEW w \in Workers, Check(w)
  PROVE  LET j == jobs[w]
             k == jobs'[w] IN
         /\ Only(w, k) /\ j.at = "check" /\ UNCHANGED <<platform, device, owned, disturbed>>
         /\ IF j.seen # device /\ j.out # "stale"
            THEN k.at = "list" /\ k.want = {} /\ k.out = "stale" /\ k.guarded = j.guarded
            ELSE k.at = "done" /\ k.want = j.want /\ ~k.guarded
<1> DEFINE j == jobs[w]
<1>1. j \in Job /\ j.at = "check" /\ UNCHANGED <<platform, device, owned, disturbed>>
  BY DEF Check, JobsTyped
<1>2. CASE j.seen # device /\ j.out # "stale"
  <2> DEFINE k == [j EXCEPT !.at = "list", !.want = {}, !.out = "stale"]
  <2>1. k \in Job /\ k.at = "list" /\ k.want = {} /\ k.out = "stale" /\ k.guarded = j.guarded
    BY <1>1 DEF Job, Points, Results
  <2>2. Put(w, k)
    BY <1>2 DEF Check
  <2> HIDE DEF k
  <2>3. Only(w, k) /\ jobs'[w] = k
    BY <2>1, <2>2, PutEffect DEF Only
  <2> QED BY <1>1, <1>2, <2>1, <2>3
<1>3. CASE ~(j.seen # device /\ j.out # "stale")
  <2> DEFINE k == [j EXCEPT !.at = "done", !.guarded = FALSE]
  <2>1. k \in Job /\ k.at = "done" /\ k.want = j.want /\ ~k.guarded
    BY <1>1 DEF Job, Points
  <2>2. Put(w, k)
    BY <1>3 DEF Check
  <2> HIDE DEF k
  <2>3. Only(w, k) /\ jobs'[w] = k
    BY <2>1, <2>2, PutEffect DEF Only
  <2> QED BY <1>1, <1>3, <2>1, <2>3
<1> QED BY <1>2, <1>3

\* A sweep only removes; one that clears the host goes on to, or is remembered as failed.
LEMMA SweeperStep ==
  ASSUME JobsTyped, NEW w \in Workers, Sweeper(jobs[w]), Reconcile(w)
  PROVE  /\ Only(w, jobs'[w]) /\ UNCHANGED <<platform, device>>
         /\ owned' \subseteq owned /\ (~disturbed' => ~disturbed)
         /\ Sweeper(jobs[w])'
         /\ Clears(jobs[w]) /\ ~disturbed' => Clears(jobs[w])'
<1> DEFINE j == jobs[w]
           k == jobs'[w]
<1>0. j.want = {} /\ j \in Job
  BY DEF Sweeper, JobsTyped
<1>1. CASE Lock(w)
  <2>1. /\ Only(w, k) /\ j.at = "lock" /\ UNCHANGED <<platform, device, owned>>
        /\ k.want = {} /\ k.at \in {"list", "done"}
        /\ ~disturbed' => k.at = "list" /\ ~disturbed
    BY <1>0, <1>1, LockEffect
  <2> QED BY <2>1 DEF Sweeper, Clears
<1>2. CASE List(w)
  <2>1. /\ Only(w, k) /\ j.at = "list" /\ UNCHANGED <<platform, device, owned>>
        /\ \/ /\ k.at = IF Windows THEN "remove" ELSE "write"
              /\ k.mine = owned /\ k.todo = {} /\ k.want = {}
           \/ k.at \in {"check", "done"} /\ k.want = {} /\ disturbed'
        /\ ~disturbed' => ~disturbed
    BY <1>0, <1>2, ListEffect DEF Same, Finished
  <2> QED BY <2>1 DEF Sweeper, Clears, Left, Windows
<1>3. CASE Write(w)
  <2>1. j.todo = {} /\ j.at = "write"
    BY <1>3 DEF Sweeper, Write
  <2>2. /\ Only(w, k) /\ UNCHANGED <<platform, device>> /\ owned' = owned
        /\ k.at = "remove" /\ k.todo = j.mine \ {} /\ k.mine = j.mine /\ k.want = {}
        /\ ~disturbed' => ~disturbed
    BY <1>0, <1>3, <2>1, WriteEffect DEF Same
  <2> QED BY <2>1, <2>2 DEF Sweeper, Clears, Left, Windows
<1>4. CASE Remove(w)
  <2>1. /\ Only(w, k) /\ j.at = "remove" /\ UNCHANGED <<platform, device>>
        /\ \/ /\ k.at = "remove" /\ k.want = {}
              /\ \E d \in Left(j) :
                   /\ owned' = owned \ {d}
                   /\ IF Windows THEN k.mine = j.mine \ {d} /\ k.todo = j.todo
                      ELSE k.todo = j.todo \ {d}
           \/ k.at \in {"check", "done"} /\ k.want = {} /\ owned' = owned /\ disturbed'
           \/ /\ Left(j) = {} /\ owned' = owned /\ k.want = {}
              /\ IF Windows THEN k.at = "add" /\ k.todo = j.todo ELSE k.at \in {"check", "done"}
        /\ ~disturbed' => ~disturbed
    BY <1>0, <1>4, RemoveEffect DEF Same, Finished
  <2>2. CASE /\ k.at = "remove" /\ k.want = {}
             /\ \E d \in Left(j) :
                   /\ owned' = owned \ {d}
                   /\ IF Windows THEN k.mine = j.mine \ {d} /\ k.todo = j.todo
                      ELSE k.todo = j.todo \ {d}
    BY <2>1, <2>2 DEF Sweeper, Clears, Left, Windows
  <2>3. CASE k.at \in {"check", "done"} /\ k.want = {} /\ owned' = owned /\ disturbed'
    BY <2>1, <2>3 DEF Sweeper, Clears
  <2>4. CASE /\ Left(j) = {} /\ owned' = owned /\ k.want = {}
             /\ IF Windows THEN k.at = "add" /\ k.todo = j.todo ELSE k.at \in {"check", "done"}
    BY <2>1, <2>4 DEF Sweeper, Clears, Left, Windows
  <2> QED BY <2>1, <2>2, <2>3, <2>4
<1>5. CASE Add(w)
  <2>1. j.todo = {} /\ j.at = "add"
    BY <1>5 DEF Sweeper, Add
  <2>2. /\ Only(w, k) /\ UNCHANGED <<platform, device>> /\ owned' = owned
        /\ k.at \in {"check", "done"} /\ k.want = {}
        /\ ~disturbed' => ~disturbed
    BY <1>0, <1>5, <2>1, AddEffect DEF Finished
  <2> QED BY <2>1, <2>2 DEF Sweeper, Clears
<1>6. CASE Check(w)
  <2>1. /\ Only(w, k) /\ j.at = "check" /\ UNCHANGED <<platform, device, owned, disturbed>>
        /\ k.at \in {"list", "done"} /\ k.want = {}
    BY <1>0, <1>6, CheckEffect
  <2> QED BY <2>1 DEF Sweeper, Clears
<1> QED BY <1>1, <1>2, <1>3, <1>4, <1>5, <1>6 DEF Reconcile

-----------------------------------------------------------------------------
(* The invariant of an undisturbed run.                                    *)

Call == jobs["call"]

\* Nothing is left of ours, or the dead-man's sweep has all of it on its list.
Settled == owned = {} \/ (Busy("sweep") /\ Clears(jobs["sweep"]))

\* Nobody sweeps and adds at once but the call: no request is at work that was given up.
Alone == ~Busy("late") /\ Sweeper(jobs["sweep"])

\* What the call may do, and the device it looked at before.
Careful ==
  /\ Call.want = {} => Sweeper(Call)
  /\ Call.guarded => Windows
  /\ Call.at = "lock" => Call.guarded /\ Call.out # "stale"
  /\ Windows => Call.at # "write"
  /\ Windows /\ Adds(Call) => Call.guarded /\ Call.seen # 0 /\ Call.out # "stale"

\* What the lane waits for: a teardown comes after a sweep that cleared the host, or with
\* nothing to clear, and the latch is set for as long as the call may add.
Ordered ==
  /\ lane \in {"forwards", "sweep"} <=> Call.at # "idle"
  /\ lane = "sweep" => Clears(Call)
  /\ lane = "forwards" => IF Wanted(monitor) = {} THEN Clears(Call) ELSE me.latch
  /\ lane = "down" => Settled

\* A client with a tunnel and no latch has nothing to sweep,
Noted == me.own # "inactive" /\ ~me.latch => Settled

\* and with the tunnel down nothing is left but what a call under way will look for again.
Recalled == host.state = "down" => Resweeps(Call) \/ (Settled /\ ~Adds(Call))

NoDeviceUnlessUp == host.state # "up" => device = 0

Undisturbed == ~disturbed => Alone /\ Careful /\ Ordered /\ Noted /\ Recalled

RInv == JobsTyped /\ NoDeviceUnlessUp /\ Undisturbed

LEMMA RInitially == Init => RInv
<1> SUFFICES ASSUME Init PROVE RInv
  OBVIOUS
<1>1. \A w \in Workers : jobs[w] = NoJob
  BY DEF Init, ResolversInit
<1>2. jobs \in [Workers -> Job]
  BY NoJobIs DEF Init, ResolversInit
<1>3. JobsTyped /\ NoDeviceUnlessUp
  BY <1>2 DEF Init, ResolversInit, JobsTyped, NoDeviceUnlessUp
<1>4. Call = NoJob /\ jobs["late"] = NoJob /\ jobs["sweep"] = NoJob
  BY <1>1 DEF Workers, Call
<1>5. Alone /\ Careful
  BY <1>4, NoJobIs DEF Alone, Careful, Busy, Sweeper, Adds
<1>6. Settled /\ ~Adds(Call)
  BY <1>4, NoJobIs DEF Init, ResolversInit, Settled, Adds
<1>7. Ordered /\ Noted /\ Recalled
  BY <1>4, <1>6, NoJobIs DEF Init, Ordered, Noted, Recalled
<1> QED BY <1>3, <1>5, <1>7 DEF RInv, Undisturbed

\* Removing more keeps what was settled settled.
LEMMA SettledShrinks ==
  ASSUME Settled, owned' \subseteq owned, jobs'["sweep"] = jobs["sweep"], UNCHANGED platform
  PROVE  Settled'
<1>1. CASE owned = {}
  BY <1>1 DEF Settled
<1>2. CASE Busy("sweep") /\ Clears(jobs["sweep"])
  BY <1>2 DEF Settled, Busy, Clears, Sweeper, Left, Windows
<1> QED BY <1>1, <1>2 DEF Settled

LEMMA ClearsShrinks ==
  ASSUME NEW w \in Workers, Clears(jobs[w]), owned' \subseteq owned, jobs'[w] = jobs[w],
         UNCHANGED platform
  PROVE  Clears(jobs[w])'
  BY DEF Clears, Sweeper, Left, Windows

\* Any step of any job.
LEMMA StepShape ==
  ASSUME JobsTyped, NEW w \in Workers, Reconcile(w), Windows => jobs[w].at # "write"
  PROVE  LET j == jobs[w]
             k == jobs'[w] IN
         /\ Only(w, k) /\ UNCHANGED <<platform, device>> /\ owned' \in SUBSET Domains
         /\ ~disturbed' => ~disturbed
         /\ Busy(w) /\ k.at \notin {"idle", "lock"}
         /\ k.guarded => j.guarded
         /\ Windows => k.at # "write"
         /\ Adds(k) => \/ /\ Adds(j) /\ k.guarded = j.guarded /\ k.seen = j.seen
                          /\ k.out = "stale" <=> j.out = "stale"
                       \/ /\ j.at = "lock" /\ k.seen = device /\ device # 0
                          /\ k.guarded = j.guarded /\ k.out = j.out
         /\ j.want # {} /\ ~Adds(j) => owned' = owned
         /\ k.want = j.want \/ (k.want = {} /\ k.at = "list")
<1> DEFINE j == jobs[w]
           k == jobs'[w]
<1>0. j \in Job /\ owned \in SUBSET Domains
  BY DEF JobsTyped
<1>1. CASE Lock(w)
  BY <1>0, <1>1, LockEffect DEF Adds, Busy
<1>2. CASE List(w)
  BY <1>0, <1>2, ListEffect DEF Adds, Busy, Same, Finished
<1>3. CASE Write(w)
  BY <1>0, <1>3, WriteEffect DEF Adds, Busy, Same, Finished
<1>4. CASE Remove(w)
  <2>1. /\ Only(w, k) /\ j.at = "remove" /\ UNCHANGED <<platform, device>> /\ owned' \in SUBSET Domains
        /\ (Same(j, k) /\ k.at \in {"remove", "add"}) \/ Finished(j, k)
        /\ ~disturbed' => ~disturbed
    BY <1>4, RemoveEffect
  <2> QED BY <1>0, <2>1 DEF Adds, Busy, Same, Finished
<1>5. CASE Add(w)
  <2>1. /\ Only(w, k) /\ j.at = "add" /\ UNCHANGED <<platform, device>> /\ owned' \in SUBSET Domains
        /\ (Same(j, k) /\ k.at = "add") \/ Finished(j, k)
        /\ ~disturbed' => ~disturbed
    BY <1>5, AddEffect
  <2> QED BY <1>0, <2>1 DEF Adds, Busy, Same, Finished
<1>6. CASE Check(w)
  BY <1>0, <1>6, CheckEffect DEF Adds, Busy
<1> QED BY <1>1, <1>2, <1>3, <1>4, <1>5, <1>6 DEF Reconcile

LEMMA TypedStep ==
  ASSUME JobsTyped, NEW w \in Workers, Reconcile(w)
  PROVE  JobsTyped' /\ UNCHANGED <<platform, device>> /\ (~disturbed' => ~disturbed)
<1> DEFINE k == jobs'[w]
<1>0. owned \in SUBSET Domains
  BY DEF JobsTyped
<1>1. CASE Lock(w)
  BY <1>0, <1>1, LockEffect DEF JobsTyped, Only
<1>2. CASE List(w)
  BY <1>0, <1>2, ListEffect DEF JobsTyped, Only
<1>3. CASE Write(w)
  BY <1>0, <1>3, WriteEffect DEF JobsTyped, Only
<1>4. CASE Remove(w)
  BY <1>0, <1>4, RemoveEffect DEF JobsTyped, Only
<1>5. CASE Add(w)
  BY <1>0, <1>5, AddEffect DEF JobsTyped, Only
<1>6. CASE Check(w)
  BY <1>0, <1>6, CheckEffect DEF JobsTyped, Only
<1> QED BY <1>1, <1>2, <1>3, <1>4, <1>5, <1>6 DEF Reconcile

\* On Windows a call whose device went sweeps at its end, whatever it added.
LEMMA ResweepsStep ==
  ASSUME JobsTyped, Careful, Resweeps(Call), Reconcile("call"), ~disturbed'
  PROVE  Resweeps(Call)' \/ (owned' = {} /\ Call'.want = {})
<1> DEFINE j == jobs["call"]
           k == jobs'["call"]
<1>0. /\ "call" \in Workers /\ j \in Job /\ Windows
      /\ j.guarded /\ j.at \in {"list", "remove", "add", "check"}
  BY DEF Workers, JobsTyped, Resweeps, Careful, Call
<1>1. UNCHANGED <<platform, device>>
  BY <1>0, TypedStep
<1>2. CASE j.at = "check"
  <2>1. Check("call")
    BY <1>2 DEF Reconcile, Lock, List, Write, Remove, Add
  <2>2. /\ IF j.seen # device /\ j.out # "stale"
           THEN k.at = "list" /\ k.want = {} /\ k.out = "stale" /\ k.guarded = j.guarded
           ELSE k.at = "done" /\ k.want = j.want
        /\ owned' = owned
    BY <1>0, <2>1, CheckEffect
  <2>3. CASE j.out = "stale"
    <3>1. owned = {} /\ j.want = {}
      BY <1>2, <2>3 DEF Resweeps, Call, Clears, Sweeper
    <3> QED BY <2>2, <2>3, <3>1 DEF Call
  <2>4. CASE j.out # "stale"
    BY <1>0, <2>2, <2>4 DEF Resweeps, Call, Clears, Sweeper
  <2> QED BY <2>3, <2>4
<1>3. CASE j.at # "check"
  <2>1. /\ k.guarded /\ k.at \in {"list", "remove", "add", "check"}
        /\ k.out = "stale" <=> j.out = "stale"
        /\ k.seen = j.seen
    <3>1. List("call") \/ Remove("call") \/ Add("call")
      BY <1>0, <1>3 DEF Reconcile, Lock, Write, Check
    <3>2. CASE List("call")
      BY <1>0, <3>2, ListEffect DEF Same, Finished
    <3>3. CASE Remove("call")
      <4>1. (Same(j, k) /\ k.at \in {"remove", "add"}) \/ Finished(j, k)
        BY <1>0, <3>3, RemoveEffect
      <4> QED BY <1>0, <4>1 DEF Same, Finished
    <3>4. CASE Add("call")
      <4>1. (Same(j, k) /\ k.at = "add") \/ Finished(j, k)
        BY <1>0, <3>4, AddEffect
      <4> QED BY <1>0, <4>1 DEF Same, Finished
    <3> QED BY <3>1, <3>2, <3>3, <3>4
  <2>2. CASE j.out = "stale"
    <3>1. Clears(j) /\ Sweeper(j)
      BY <2>2 DEF Resweeps, Call, Clears
    <3>2. Clears(jobs["call"])'
      BY <1>0, <3>1, SweeperStep
    <3> QED BY <2>1, <2>2, <3>2 DEF Resweeps, Call
  <2>3. CASE j.out # "stale"
    <3>1. j.seen # device
      BY <2>3 DEF Resweeps, Call
    <3> QED BY <1>1, <2>1, <2>3, <3>1 DEF Resweeps, Call
  <2> QED BY <2>2, <2>3
<1> QED BY <1>2, <1>3

\* What a step of a job leaves to its state to show.
LEMMA RStep ==
  ASSUME RInv, JobsTyped', NoDeviceUnlessUp',
         ~disturbed' => ~disturbed /\ Alone' /\ Careful' /\ Ordered' /\ Noted' /\ Recalled'
  PROVE  RInv'
  BY DEF RInv, Undisturbed

\* The dead-man's sweep.
LEMMA SweepStep ==
  ASSUME RInv, Reconcile("sweep"), UNCHANGED <<monitor, lane, me, host, net>>
  PROVE  RInv'
<1>0. "sweep" \in Workers /\ "call" \in Workers /\ "late" \in Workers
  BY DEF Workers
<1>1. JobsTyped' /\ NoDeviceUnlessUp' /\ (~disturbed' => ~disturbed)
  BY <1>0, TypedStep DEF RInv, NoDeviceUnlessUp
<1> SUFFICES ASSUME ~disturbed'
             PROVE  Alone' /\ Careful' /\ Ordered' /\ Noted' /\ Recalled'
  BY <1>1, RStep
<1>2. JobsTyped /\ Alone /\ Careful /\ Ordered /\ Noted /\ Recalled
  BY <1>1 DEF RInv, Undisturbed
<1>3. /\ Only("sweep", jobs'["sweep"]) /\ UNCHANGED <<platform, device>> /\ owned' \subseteq owned
      /\ Sweeper(jobs["sweep"])'
      /\ Clears(jobs["sweep"]) => Clears(jobs["sweep"])'
  BY <1>0, <1>2, SweeperStep DEF Alone
<1>4. jobs'["call"] = jobs["call"] /\ jobs'["late"] = jobs["late"]
  BY <1>0, <1>3 DEF Only
<1>5. Alone'
  BY <1>2, <1>3, <1>4 DEF Alone, Busy
<1>6. Careful'
  BY <1>2, <1>3, <1>4 DEF Careful, Call, Adds, Sweeper, Windows
<1>7. Settled => Settled'
  <2>1. CASE owned = {}
    BY <1>3, <2>1 DEF Settled
  <2>2. CASE Clears(jobs["sweep"])
    BY <1>3, <2>2 DEF Settled, Busy, Clears
  <2> QED BY <2>1, <2>2 DEF Settled
<1>8. Clears(Call) => Clears(Call)'
  BY <1>0, <1>3, <1>4, ClearsShrinks DEF Call
<1>9. Ordered' /\ Noted'
  BY <1>2, <1>4, <1>7, <1>8 DEF Ordered, Noted, Call
<1>10. Resweeps(Call) => Resweeps(Call)'
  BY <1>3, <1>4, <1>8 DEF Resweeps, Call
<1>11. Recalled'
  BY <1>2, <1>4, <1>7, <1>10 DEF Recalled, Adds, Call
<1> QED BY <1>5, <1>6, <1>9, <1>11

\* The call of a client.
LEMMA CallStep ==
  ASSUME RInv, Reconcile("call"), UNCHANGED <<monitor, lane, me, host, net>>
  PROVE  RInv'
<1>0. "sweep" \in Workers /\ "call" \in Workers /\ "late" \in Workers
  BY DEF Workers
<1>1. JobsTyped' /\ NoDeviceUnlessUp' /\ (~disturbed' => ~disturbed)
  BY <1>0, TypedStep DEF RInv, NoDeviceUnlessUp
<1> SUFFICES ASSUME ~disturbed'
             PROVE  Alone' /\ Careful' /\ Ordered' /\ Noted' /\ Recalled'
  BY <1>1, RStep
<1>2. JobsTyped /\ NoDeviceUnlessUp /\ Alone /\ Careful /\ Ordered /\ Noted /\ Recalled
  BY <1>1 DEF RInv, Undisturbed
<1> DEFINE j == jobs["call"]
           k == jobs'["call"]
<1>3. /\ Only("call", k) /\ UNCHANGED <<platform, device>>
      /\ Busy("call") /\ k.at \notin {"idle", "lock"}
      /\ k.guarded => j.guarded
      /\ Windows => k.at # "write"
      /\ Adds(k) => \/ /\ Adds(j) /\ k.guarded = j.guarded /\ k.seen = j.seen
                       /\ k.out = "stale" <=> j.out = "stale"
                    \/ /\ j.at = "lock" /\ k.seen = device /\ device # 0
                       /\ k.guarded = j.guarded /\ k.out = j.out
      /\ j.want # {} /\ ~Adds(j) => owned' = owned
      /\ k.want = j.want \/ (k.want = {} /\ k.at = "list")
  BY <1>0, <1>2, StepShape DEF Careful, Call
<1>4. jobs'["sweep"] = jobs["sweep"] /\ jobs'["late"] = jobs["late"]
  BY <1>0, <1>3 DEF Only
<1>5. Alone'
  BY <1>2, <1>3, <1>4 DEF Alone, Busy, Sweeper, Windows
<1>6. Resweeps(Call) => Resweeps(Call)' \/ (owned' = {} /\ k.want = {})
  BY <1>2, ResweepsStep DEF Call
<1>7. owned' = {} => Settled'
  BY DEF Settled
<1>8. CASE j.want = {}
  <2>1. Sweeper(j)
    BY <1>2, <1>8 DEF Careful, Call
  <2>2. owned' \subseteq owned /\ Sweeper(jobs["call"])' /\ (Clears(j) => Clears(jobs["call"])')
    BY <1>0, <1>2, <2>1, SweeperStep
  <2>3. Settled => Settled'
    BY <1>3, <1>4, <2>2, SettledShrinks
  <2>4. k.want = {} /\ ~Adds(k)
    BY <1>3, <1>8 DEF Adds
  <2>5. Careful'
    BY <1>2, <1>3, <2>2, <2>4 DEF Careful, Call, Adds, Windows
  <2>6. Ordered' /\ Noted'
    BY <1>2, <1>3, <2>2, <2>3 DEF Ordered, Noted, Call, Busy
  <2>7. Recalled'
    BY <1>2, <1>6, <1>7, <2>3, <2>4 DEF Recalled, Call, Adds
  <2> QED BY <1>5, <2>5, <2>6, <2>7
<1>9. CASE j.want # {}
  <2>1. lane = "forwards" /\ Wanted(monitor) # {} /\ me.latch
    BY <1>2, <1>3, <1>9 DEF Ordered, Clears, Sweeper, Call, Busy
  <2>2. Careful'
    <3>1. k.want = {} => Sweeper(jobs["call"])'
      BY <1>3, <1>9 DEF Sweeper, Windows
    <3>2. Windows /\ Adds(k) => k.guarded /\ k.seen # 0 /\ k.out # "stale"
      BY <1>2, <1>3 DEF Careful, Call, JobsTyped
    <3> QED BY <1>2, <1>3, <3>1, <3>2 DEF Careful, Call, Adds, Sweeper, Windows
  <2>3. Ordered' /\ Noted'
    BY <1>2, <1>3, <2>1 DEF Ordered, Noted, Call
  <2>4. Recalled'
    <3>1. CASE host.state # "down"
      BY <3>1 DEF Recalled
    <3>2. CASE Resweeps(Call)
      BY <1>6, <1>7, <3>2 DEF Recalled, Call, Adds
    <3>3. CASE host.state = "down" /\ Settled /\ ~Adds(Call)
      <4>1. device = 0 /\ owned' = owned /\ ~Adds(k)
        BY <1>2, <1>3, <1>9, <3>3 DEF NoDeviceUnlessUp, Call
      <4>2. Settled'
        BY <1>3, <1>4, <3>3, <4>1, SettledShrinks
      <4> QED BY <4>1, <4>2 DEF Recalled, Call, Adds
    <3> QED BY <1>2, <3>1, <3>2, <3>3 DEF Recalled
  <2> QED BY <1>5, <2>2, <2>3, <2>4
<1> QED BY <1>8, <1>9

\* A request that was given up is not at work.
LEMMA ReconcilesStep ==
  ASSUME RInv, NEW w \in Workers, Reconcile(w), UNCHANGED <<monitor, lane, me, host, net>>
  PROVE  RInv'
<1>1. CASE w = "call"
  BY <1>1, CallStep
<1>2. CASE w = "sweep"
  BY <1>2, SweepStep
<1>3. CASE w = "late"
  <2>1. JobsTyped' /\ NoDeviceUnlessUp' /\ (~disturbed' => ~disturbed)
    BY TypedStep DEF RInv, NoDeviceUnlessUp
  <2>2. Busy("late")
    BY <1>3 DEF Reconcile, Lock, List, Write, Remove, Add, Check, Busy
  <2> QED BY <2>1, <2>2, RStep DEF RInv, Undisturbed, Alone
<1> QED BY <1>1, <1>2, <1>3 DEF Workers

-----------------------------------------------------------------------------
(* The other actions: what becomes of the jobs, and of what was settled.   *)

LEMMA SameJobs ==
  ASSUME UNCHANGED <<platform, owned, jobs>>
  PROVE  /\ Call' = Call /\ Settled' = Settled /\ Clears(Call)' = Clears(Call)
         /\ Alone' = Alone /\ Careful' = Careful /\ Adds(Call)' = Adds(Call)
         /\ device' = device => Resweeps(Call)' = Resweeps(Call)
<1>1. Call' = Call
  BY DEF Call
<1>2. Clears(Call)' = Clears(Call) /\ Clears(jobs["sweep"])' = Clears(jobs["sweep"])
  BY <1>1 DEF Clears, Sweeper, Left, Windows
<1>3. Settled' = Settled
  BY <1>2 DEF Settled, Busy
<1>4. Alone' = Alone
  BY DEF Alone, Busy, Sweeper, Windows
<1>5. Careful' = Careful
  BY <1>1 DEF Careful, Sweeper, Adds, Windows
<1>6. Adds(Call)' = Adds(Call)
  BY <1>1 DEF Adds
<1>7. device' = device => Resweeps(Call)' = Resweeps(Call)
  BY <1>1, <1>2 DEF Resweeps
<1> QED BY <1>1, <1>2, <1>3, <1>4, <1>5, <1>6, <1>7

\* A job put in the place of another leaves the other two.
LEMMA OtherJobs ==
  ASSUME JobsTyped, NEW w \in {"call", "late"}, NEW j \in Job, Put(w, j), UNCHANGED <<platform, owned>>
  PROVE  /\ jobs' \in [Workers -> Job] /\ jobs'[w] = j
         /\ Settled' = Settled
         /\ Alone /\ (w = "call" \/ j = NoJob) => Alone'
<1>1. w \in Workers /\ "sweep" \in Workers \ {w} /\ (w = "call" => "late" \in Workers \ {w})
  BY DEF Workers
<1>2. jobs' \in [Workers -> Job] /\ jobs'[w] = j /\ jobs'["sweep"] = jobs["sweep"]
  BY <1>1, PutEffect
<1>3. w = "call" => jobs'["late"] = jobs["late"]
  BY <1>1, PutEffect
<1>4. Settled' = Settled
  BY <1>2 DEF Settled, Busy, Clears, Sweeper, Left, Windows
<1>5. Alone /\ (w = "call" \/ j = NoJob) => Alone'
  BY <1>2, <1>3, NoJobIs DEF Alone, Busy, Sweeper, Windows
<1> QED BY <1>2, <1>4, <1>5

\* A call that has yet to begin is careful.
LEMMA Begins ==
  ASSUME Call'.at \in {"idle", "lock", "list"}, Call'.guarded => Windows',
         Call'.at = "lock" => Call'.guarded /\ Call'.out # "stale",
         Windows' /\ Call'.at = "list" => Call'.want = {}
  PROVE  Careful' /\ (Call'.want = {} /\ Call'.at \in {"lock", "list"} => Clears(Call)')
         /\ (Call'.at = "idle" => ~Resweeps(Call)' /\ ~Adds(Call)')
  BY DEF Careful, Clears, Sweeper, Adds, Resweeps

\* While nobody waits, the call is idle, and a tunnel that is down left nothing.
LEMMA Idle ==
  ASSUME Ordered, Recalled, lane \notin {"forwards", "sweep"}
  PROVE  Call.at = "idle" /\ ~Resweeps(Call) /\ ~Adds(Call) /\ (host.state = "down" => Settled)
  BY DEF Ordered, Recalled, Resweeps, Adds

\* A request given up leaves no call, and none at work if nothing is disturbed.
LEMMA GivenUpLeaves ==
  ASSUME RInv, Shapes, GivenUp, UNCHANGED <<platform, device, owned>>
  PROVE  /\ JobsTyped' /\ NoDeviceUnlessUp' /\ Call'.at = "idle"
         /\ ~disturbed' => /\ ~disturbed /\ ~Busy("call") /\ Alone' /\ Careful' /\ Recalled'
                           /\ Settled' = Settled
<1>0. JobsTyped /\ "call" \in Workers /\ "late" \in Workers /\ "sweep" \in Workers
  BY DEF RInv, Workers
<1>1. /\ jobs' = [jobs EXCEPT !["late"] = jobs["call"], !["call"] = NoJob]
      /\ disturbed' = (disturbed \/ Busy("call"))
  BY DEF GivenUp
<1>2. /\ jobs' \in [Workers -> Job] /\ jobs'["late"] = jobs["call"] /\ jobs'["call"] = NoJob
      /\ jobs'["sweep"] = jobs["sweep"]
  BY <1>0, <1>1, NoJobIs DEF JobsTyped
<1>3. host'.state = host.state
  BY GivenUpShape
<1>4. JobsTyped' /\ NoDeviceUnlessUp' /\ Call'.at = "idle"
  BY <1>0, <1>2, <1>3, NoJobIs DEF JobsTyped, RInv, NoDeviceUnlessUp, Call
<1>5. Settled' = Settled
  BY <1>2 DEF Settled, Busy, Clears, Sweeper, Left, Windows
<1>6. ASSUME ~disturbed'
      PROVE  ~disturbed /\ ~Busy("call") /\ Alone' /\ Careful' /\ Recalled'
  <2>1. ~disturbed /\ ~Busy("call") /\ Alone /\ Careful /\ Ordered /\ Recalled
    BY <1>1, <1>6 DEF RInv, Undisturbed
  <2>2. Alone'
    BY <1>2, <2>1 DEF Alone, Busy, Sweeper, Windows
  <2>3. Careful' /\ ~Adds(Call)'
    BY <1>2, NoJobIs, Begins DEF Call
  <2>4. host.state = "down" => Settled
    BY <2>1 DEF Recalled, Resweeps, Busy, Call
  <2>5. Recalled'
    BY <1>3, <1>5, <2>3, <2>4 DEF Recalled
  <2> QED BY <2>1, <2>2, <2>3, <2>5
<1> QED BY <1>4, <1>5, <1>6

\* What leaves the jobs and the host leaves the lane and the latch to show.
Still == UNCHANGED <<platform, device, owned, jobs, host>> /\ (~disturbed' => ~disturbed)

LEMMA StillStep ==
  ASSUME RInv, Still, ~disturbed /\ Ordered /\ Noted /\ Recalled => Ordered' /\ Noted'
  PROVE  RInv'
<1>1. JobsTyped' /\ NoDeviceUnlessUp'
  BY DEF RInv, JobsTyped, NoDeviceUnlessUp, Still
<1>2. ASSUME ~disturbed' PROVE Alone' /\ Careful' /\ Ordered' /\ Noted' /\ Recalled'
  BY <1>2, SameJobs DEF RInv, Undisturbed, Recalled, Still
<1> QED BY <1>1, <1>2, RStep DEF Still

LEMMA RConnectStep == ASSUME RInv, Shapes, Connect \/ ConnectFails PROVE RInv'
<1>1. /\ lane = "free" /\ host.state = "down" /\ host'.state # "down"
      /\ UNCHANGED <<platform, owned, jobs, disturbed, lane>> /\ me.session \in Nat
      /\ (device' = me.session + 1 /\ host'.state = "up") \/ device' = 0
  <2>1. CASE Connect
    <3>1. host'.state = "up"
      BY <2>1 DEF Connect, Shapes, HostShape
    <3> QED BY <2>1, <3>1 DEF Connect, Shapes, MeShape
  <2>2. CASE ConnectFails
    <3>1. host'.state = "failed"
      BY <2>2 DEF ConnectFails, Shapes, HostShape
    <3> QED BY <2>2, <3>1 DEF ConnectFails, NoDevice, Shapes, MeShape
  <2> QED BY <2>1, <2>2
<1>2. JobsTyped' /\ NoDeviceUnlessUp'
  BY <1>1 DEF RInv, JobsTyped, NoDeviceUnlessUp
<1>3. ASSUME ~disturbed' PROVE Alone' /\ Careful' /\ Ordered' /\ Noted' /\ Recalled'
  <2>1. Alone /\ Careful /\ Ordered /\ Noted /\ Recalled
    BY <1>1, <1>3 DEF RInv, Undisturbed
  <2>2. Call.at = "idle" /\ Settled
    BY <1>1, <2>1, Idle
  <2> QED BY <1>1, <2>1, <2>2, SameJobs DEF Ordered, Noted, Recalled
<1> QED BY <1>1, <1>2, <1>3, RStep

\* What leaves the resolvers and the host, and takes nobody's request.
LEMMA QuietStep ==
  ASSUME RInv, Still,
         lane = "forwards" => UNCHANGED <<lane, monitor, me>>,
         lane' = lane \/ (lane' = "free" /\ lane = "down"),
         me' = me \/ me'.latch \/ me'.own = "inactive"
  PROVE  RInv'
<1>1. UNCHANGED <<platform, device, owned, jobs>>
  BY DEF Still
<1>2. ASSUME Ordered, Noted PROVE Ordered' /\ Noted'
  <2>1. /\ Call' = Call /\ Settled' = Settled /\ Clears(Call)' = Clears(Call)
    BY <1>1, SameJobs
  <2>2. lane' = "forwards" => Wanted(monitor)' = Wanted(monitor) /\ me' = me
    BY DEF Wanted
  <2> QED BY <1>2, <2>1, <2>2 DEF Ordered, Noted
<1> QED BY <1>2, StillStep

\* The client forgets, or remembers that it must clean up; nobody waits any more.
LEMMA GivesUpStep ==
  ASSUME RInv, Shapes, GivenUp, UNCHANGED <<platform, device, owned>>,
         lane' = "free" \/ (lane = "sweep" /\ lane' = "down"),
         me'.own = "inactive" \/ me'.latch
  PROVE  RInv'
<1>1. /\ JobsTyped' /\ NoDeviceUnlessUp' /\ Call'.at = "idle"
      /\ ~disturbed' => /\ ~disturbed /\ ~Busy("call") /\ Alone' /\ Careful' /\ Recalled'
                        /\ Settled' = Settled
  BY GivenUpLeaves
<1>2. ASSUME ~disturbed' PROVE Alone' /\ Careful' /\ Ordered' /\ Noted' /\ Recalled'
  <2>1. Ordered
    BY <1>1, <1>2 DEF RInv, Undisturbed
  <2>2. lane = "sweep" => Settled
    BY <1>1, <1>2, <2>1 DEF Ordered, Clears, Call, Busy, Settled
  <2> QED BY <1>1, <1>2, <2>2 DEF Ordered, Noted
<1> QED BY <1>1, <1>2, RStep

LEMMA OnLostLatch ==
  ASSUME Shapes, OnLost
  PROVE  me'.own = "inactive" \/ me'.latch
  BY DEF OnLost, Shapes, MeShape

LEMMA RQuietActions ==
  ASSUME RInv, Shapes, Awaiting,
         \/ StopPolling \/ DownRefused \/ SeenDown \/ SeenUp
         \/ Poll \/ RangesUnchanged \/ ApplyRanges \/ ApplyRangesRefused
         \/ ForwardsUnchanged \/ Redial
  PROVE  RInv'
<1>1. CASE DownRefused
  <2>1. me'.latch
    BY <1>1 DEF DownRefused, Shapes, MeShape
  <2> QED BY <1>1, <2>1, QuietStep DEF DownRefused, Still, resolvers
<1>2. CASE SeenDown
  <2>1. me'.own = "inactive"
    BY <1>2 DEF SeenDown, Shapes, MeShape
  <2> QED BY <1>2, <2>1, QuietStep DEF SeenDown, Still, resolvers
<1>3. CASE SeenUp
  <2>1. me'.latch
    BY <1>3 DEF SeenUp, Shapes, MeShape
  <2> QED BY <1>3, <2>1, QuietStep DEF SeenUp, Still, resolvers
<1>4. CASE Poll \/ RangesUnchanged
  <2>1. Still /\ UNCHANGED <<lane, me>> /\ lane # "forwards"
    <3>1. monitor.at # "forwards" /\ UNCHANGED <<resolvers, lane, me, host>>
      BY <1>4 DEF Poll, RangesUnchanged
    <3> QED BY <3>1 DEF Awaiting, Still, resolvers
  <2> QED BY <2>1, QuietStep
<1>5. CASE StopPolling
  BY <1>5, QuietStep DEF StopPolling, Still, resolvers
<1>6. CASE ApplyRanges \/ ApplyRangesRefused \/ ForwardsUnchanged \/ Redial
  <2>1. Still /\ UNCHANGED <<lane, me>> /\ lane = "free"
    BY <1>6 DEF ApplyRanges, ApplyRangesRefused, ForwardsUnchanged, Redial, Still, resolvers
  <2> QED BY <2>1, QuietStep
<1> QED BY <1>1, <1>2, <1>3, <1>4, <1>5, <1>6

LEMMA RGivenUpActions ==
  ASSUME RInv, Shapes,
         \/ SocketLost \/ ApplyRangesLost \/ ForwardsLost \/ ClientCrash \/ SweepLost
  PROVE  RInv'
<1>1. CASE SocketLost \/ ApplyRangesLost \/ ForwardsLost
  <2>1. OnLost /\ GivenUp /\ UNCHANGED <<platform, device, owned>> /\ lane' = "free"
    BY <1>1 DEF SocketLost, ApplyRangesLost, ForwardsLost
  <2> QED BY <2>1, OnLostLatch, GivesUpStep
<1>2. CASE ClientCrash
  <2>1. GivenUp /\ UNCHANGED <<platform, device, owned>> /\ lane' = "free" /\ me'.own = "inactive"
    BY <1>2 DEF ClientCrash, Shapes, MeShape
  <2> QED BY <2>1, GivesUpStep
<1>3. CASE SweepLost
  <2>1. /\ GivenUp /\ UNCHANGED <<platform, device, owned>>
        /\ lane = "sweep" /\ lane' = "down" /\ me'.latch
    BY <1>3 DEF SweepLost, Shapes, MeShape
  <2> QED BY <2>1, GivesUpStep
<1> QED BY <1>1, <1>2, <1>3

-----------------------------------------------------------------------------
(* Requests: the call begins, and is answered.                             *)

\* A request put on the wire.
LEMMA BeginsStep ==
  ASSUME RInv, UNCHANGED <<platform, device, owned, host>>, ~disturbed' => ~disturbed,
         NEW want \in SUBSET Domains, Put("call", Requested(want)),
         lane \notin {"forwards", "sweep"}, lane' \in {"forwards", "sweep"},
         lane' = "sweep" => want = {},
         lane' = "forwards" => want = Wanted(monitor)' /\ (want # {} => me'.latch),
         me'.own # "inactive" /\ ~me'.latch => me.own # "inactive" /\ ~me.latch,
         ~disturbed' /\ host.state = "down" => Windows \/ want = {}
  PROVE  RInv'
<1> DEFINE j == Requested(want)
<1>1. /\ j \in Job /\ j.want = want /\ j.at = (IF Windows THEN "lock" ELSE "list")
      /\ j.guarded = Windows /\ j.out = "ok"
  BY RequestedIs
<1> HIDE DEF j
<1>2. JobsTyped
  BY DEF RInv
<1>3. /\ jobs' \in [Workers -> Job] /\ Call' = j /\ Settled' = Settled
      /\ Alone => Alone'
  BY <1>1, <1>2, OtherJobs DEF j, Call
<1>4. JobsTyped' /\ NoDeviceUnlessUp'
  BY <1>3 DEF RInv, JobsTyped, NoDeviceUnlessUp
<1>5. ASSUME ~disturbed' PROVE Alone' /\ Careful' /\ Ordered' /\ Noted' /\ Recalled'
  <2>1. Alone /\ Careful /\ Ordered /\ Noted /\ Recalled
    BY <1>5 DEF RInv, Undisturbed
  <2>2. Windows' = Windows
    BY DEF Windows
  <2>3. Careful' /\ (want = {} => Clears(Call)')
    <3>1. /\ Call'.at \in {"lock", "list"} /\ Call'.want = want /\ Call'.out = "ok"
          /\ Call'.guarded => Windows'
          /\ Call'.at = "lock" => Call'.guarded
          /\ Windows' => Call'.at = "lock"
      BY <1>1, <1>3, <2>2
    <3>2. Sweeper(Call)' \/ want # {}
      BY <3>1 DEF Sweeper
    <3>3. ~(Windows' /\ Adds(Call)')
      BY <3>1 DEF Adds
    <3>4. Careful'
      BY ONLY <3>1, <3>2, <3>3 DEF Careful
    <3>5. want = {} => Clears(Call)'
      BY ONLY <3>1, <3>2 DEF Clears
    <3> QED BY <3>4, <3>5
  <2>4. Ordered'
    BY <1>1, <1>3, <2>3 DEF Ordered, Call
  <2>5. Noted'
    BY <1>3, <2>1 DEF Noted
  <2>6. Recalled'
    <3>1. CASE host.state = "down"
      <4>1. Settled
        BY <2>1, <3>1, Idle
      <4>2. ~Adds(Call)'
        BY <1>1, <1>3, <1>5, <3>1 DEF Adds, Call
      <4> QED BY <1>3, <4>1, <4>2 DEF Recalled
    <3> QED BY <3>1 DEF Recalled
  <2> QED BY <1>3, <2>1, <2>3, <2>4, <2>5, <2>6
<1> QED BY <1>4, <1>5, RStep

\* An answer read.
LEMMA AnsweredStep ==
  ASSUME RInv, UNCHANGED <<platform, device, owned, host, disturbed>>, Put("call", NoJob),
         Call.at = "done", lane' \in {"free", "down"},
         ~disturbed /\ lane' = "down" => Settled,
         ~disturbed /\ me'.own # "inactive" /\ ~me'.latch => Settled
  PROVE  RInv'
<1>1. /\ jobs' \in [Workers -> Job] /\ Call' = NoJob /\ Settled' = Settled
      /\ Alone => Alone'
  BY OtherJobs, NoJobIs DEF RInv, Call
<1>2. JobsTyped' /\ NoDeviceUnlessUp'
  BY <1>1 DEF RInv, JobsTyped, NoDeviceUnlessUp
<1>3. ASSUME ~disturbed' PROVE Alone' /\ Careful' /\ Ordered' /\ Noted' /\ Recalled'
  <2>1. Alone /\ Careful /\ Ordered /\ Noted /\ Recalled
    BY <1>3 DEF RInv, Undisturbed
  <2>2. Careful' /\ ~Adds(Call)'
    BY <1>1, NoJobIs, Begins
  <2>3. Recalled'
    BY <1>1, <2>1, <2>2 DEF Recalled, Resweeps
  <2>4. Ordered' /\ Noted'
    BY <1>1, <1>3, NoJobIs DEF Ordered, Noted
  <2> QED BY <1>1, <2>1, <2>2, <2>3, <2>4
<1> QED BY <1>2, <1>3, RStep

LEMMA RRequestActions ==
  ASSUME RInv, Shapes, Disconnect \/ Swept \/ ForwardsAnswered \/ ApplyForwards
  PROVE  RInv'
<1>1. CASE Disconnect
  <2>1. /\ lane = "free" /\ me.own # "inactive" /\ me' = [me EXCEPT !.own = "owed"]
        /\ UNCHANGED <<platform, device, owned, disturbed, host>>
    BY <1>1 DEF Disconnect
  <2>2. me'.own = "owed" /\ me'.latch = me.latch
    BY <2>1 DEF Shapes, MeShape
  <2>3. CASE me.latch
    <3>1. lane' = "sweep" /\ Put("call", Requested({}))
      BY <1>1, <2>3 DEF Disconnect
    <3> DEFINE want == {}
    <3>2. want \in SUBSET Domains /\ want = {} /\ Put("call", Requested(want))
      BY <3>1
    <3> HIDE DEF want
    <3> QED BY <2>1, <2>2, <2>3, <3>1, <3>2, BeginsStep
  <2>4. CASE ~me.latch
    <3>1. lane' = "down" /\ Still
      BY <1>1, <2>4 DEF Disconnect, Still
    <3>2. ASSUME ~disturbed, Ordered, Noted, Recalled PROVE Ordered' /\ Noted'
      <4>1. Settled' /\ Call' = Call /\ Call.at = "idle"
        BY <2>1, <2>4, <3>1, <3>2, SameJobs, Idle DEF Noted, Still
      <4> QED BY <3>1, <4>1 DEF Ordered, Noted
    <3> QED BY <2>1, <3>1, <3>2, StillStep
  <2> QED BY <2>3, <2>4
<1>2. CASE Swept
  <2>1. /\ lane = "sweep" /\ Call.at = "done" /\ lane' = "down" /\ Put("call", NoJob)
        /\ UNCHANGED <<platform, device, owned, disturbed, host>>
    BY <1>2 DEF Swept, Call
  <2>2. ~disturbed => Settled
    BY <2>1 DEF RInv, Undisturbed, Ordered, Clears, Settled
  <2> QED BY <2>1, <2>2, AnsweredStep
<1>3. CASE ForwardsAnswered
  <2>1. /\ lane = "forwards" /\ Call.at = "done" /\ lane' = "free" /\ Put("call", NoJob)
        /\ UNCHANGED <<platform, device, owned, disturbed, host>>
    BY <1>3 DEF ForwardsAnswered, Call
  <2>2. ASSUME ~disturbed, me'.own # "inactive", ~me'.latch PROVE Settled
    <3>1. Ordered /\ Noted
      BY <2>2 DEF RInv, Undisturbed
    <3>2. CASE Wanted(monitor) = {}
      BY <2>1, <3>1, <3>2 DEF Ordered, Clears, Settled
    <3>3. CASE Wanted(monitor) # {}
      <4>1. me.latch
        BY <2>1, <3>1, <3>3 DEF Ordered
      <4>2. me'.latch
        BY <1>3, <3>3, <4>1 DEF ForwardsAnswered, Shapes, MeShape
      <4> QED BY <2>2, <4>2
    <3> QED BY <3>2, <3>3
  <2> QED BY <2>1, <2>2, AnsweredStep
<1>4. CASE ApplyForwards
  <2>1. /\ lane = "free" /\ UNCHANGED <<platform, device, owned, host>>
        /\ disturbed' = (disturbed \/ (~Windows /\ Owns /\ host.state = "down"))
    BY <1>4 DEF ApplyForwards
  <2>2. CASE Owns
    <3> DEFINE want == Wanted(monitor)
    <3>1. /\ lane' = "forwards" /\ Put("call", Requested(want)) /\ monitor' = monitor
          /\ me' = [me EXCEPT !.latch = me.latch \/ want # {}]
      BY <1>4, <2>2 DEF ApplyForwards
    <3>2. want \in SUBSET Domains
      BY RangesShapes DEF Shapes
    <3>3. me'.own = me.own /\ (me'.latch <=> me.latch \/ want # {})
      BY <3>1 DEF Shapes, MeShape
    <3>4. want = Wanted(monitor)'
      BY <3>1 DEF Wanted
    <3> HIDE DEF want
    <3> QED BY <2>1, <2>2, <3>1, <3>2, <3>3, <3>4, BeginsStep
  <2>3. CASE ~Owns
    <3>1. Still /\ UNCHANGED <<lane, me>>
      BY <1>4, <2>1, <2>3 DEF ApplyForwards, Still
    <3> QED BY <2>1, <3>1, QuietStep
  <2> QED BY <2>2, <2>3
<1> QED BY <1>1, <1>2, <1>3, <1>4

-----------------------------------------------------------------------------
(* The ends of a tunnel.                                                   *)

LEMMA DownStep == ASSUME RInv, Shapes, Down \/ DownLost PROVE RInv'
<1>1. /\ lane = "down" /\ lane' = "free" /\ UNCHANGED <<platform, owned, jobs, disturbed>>
      /\ me'.own = "inactive" \/ me'.latch
  BY DEF Down, Downed, DownLost, NoDevice, Shapes, MeShape
<1>2. device' = 0 \/ (device' = device /\ host'.state = host.state)
  BY DEF Down, DownLost, NoDevice, Shapes, HostShape
<1>3. JobsTyped' /\ NoDeviceUnlessUp'
  BY <1>1, <1>2 DEF RInv, JobsTyped, NoDeviceUnlessUp
<1>4. ASSUME ~disturbed' PROVE Alone' /\ Careful' /\ Ordered' /\ Noted' /\ Recalled'
  <2>1. Alone /\ Careful /\ Ordered /\ Recalled /\ Settled
    BY <1>1, <1>4 DEF RInv, Undisturbed, Ordered
  <2>2. Call.at = "idle" /\ ~Adds(Call)
    BY <1>1, <2>1, Idle
  <2> QED BY <1>1, <2>1, <2>2, SameJobs DEF Ordered, Noted, Recalled
<1> QED BY <1>1, <1>3, <1>4, RStep

\* The handler of a connection given up ends when its request has.
LEMMA HandlerEndsStep == ASSUME RInv, Shapes, HandlerEnds PROVE RInv'
<1>1. /\ Put("late", NoJob) /\ UNCHANGED <<platform, owned, disturbed, monitor, lane, me>>
      /\ JobsTyped
  BY DEF HandlerEnds, NoDevice, RInv
<1>2. /\ jobs' \in [Workers -> Job] /\ Settled' = Settled /\ (Alone => Alone')
  BY <1>1, OtherJobs, NoJobIs
<1>3. Call' = Call /\ "call" \in Workers
  BY <1>1, PutEffect, NoJobIs DEF Call, Workers
<1>4. /\ host'.state = "down" <=> host.state = "down"
      /\ \/ device' = 0 /\ host'.state = "failed"
         \/ device' = device /\ host'.state = host.state
  <2> DEFINE o == IF host.owner = "late" THEN "none" ELSE host.owner
             s == IF host.owner = "late" /\ host.state = "up" THEN "failed" ELSE host.state
  <2>1. host' = Ended(host, o, s)
    BY DEF HandlerEnds, Ended
  <2>2. o \in {"none", "call", "late"} /\ s \in {"down", "up", "failed"} /\ host \in HostShape
    BY DEF Shapes, HostShape
  <2>3. host'.state = s
    BY <2>1, <2>2, HostKept
  <2>4. CASE host.owner = "late" /\ host.state = "up"
    <3>1. device' = 0
      BY <2>4 DEF HandlerEnds, NoDevice
    <3>2. host'.state = "failed"
      BY <2>3, <2>4
    <3> QED BY <2>4, <3>1, <3>2
  <2>5. CASE ~(host.owner = "late" /\ host.state = "up")
    <3>1. device' = device
      BY <2>5 DEF HandlerEnds
    <3> QED BY <2>3, <2>5, <3>1
  <2> QED BY <2>4, <2>5
<1>5. JobsTyped' /\ NoDeviceUnlessUp'
  BY <1>1, <1>2, <1>4 DEF RInv, JobsTyped, NoDeviceUnlessUp
<1>6. ASSUME ~disturbed' PROVE Alone' /\ Careful' /\ Ordered' /\ Noted' /\ Recalled'
  <2>1. Alone /\ Careful /\ Ordered /\ Noted /\ Recalled
    BY <1>1, <1>6 DEF RInv, Undisturbed
  <2>2. Careful' /\ Clears(Call)' = Clears(Call) /\ Adds(Call)' = Adds(Call)
    BY <1>1, <1>3, <2>1 DEF Careful, Clears, Sweeper, Left, Adds, Windows
  <2>3. Ordered' /\ Noted'
    BY <1>1, <1>2, <1>3, <2>1, <2>2 DEF Ordered, Noted
  <2>4. Recalled'
    <3>1. CASE Resweeps(Call) /\ host.state = "down"
      <4>1. device' = device
        BY <1>4, <3>1 DEF RInv, NoDeviceUnlessUp
      <4>2. Resweeps(Call)'
        BY <1>3, <2>2, <3>1, <4>1 DEF Resweeps
      <4> QED BY <4>2 DEF Recalled
    <3>2. CASE Settled /\ ~Adds(Call)
      BY <1>2, <2>2, <3>2 DEF Recalled
    <3>3. CASE host.state # "down"
      BY <1>4, <3>3 DEF Recalled
    <3> QED BY <2>1, <3>1, <3>2, <3>3 DEF Recalled
  <2> QED BY <1>2, <2>1, <2>2, <2>3, <2>4
<1> QED BY <1>1, <1>5, <1>6, RStep

\* The dead-man's sweep takes all there is on its list; what a call under way adds
\* afterwards, on Windows, that call sweeps again.
LEMMA DeadManStep == ASSUME RInv, Shapes, DeadMan PROVE RInv'
<1>1. /\ ~Busy("sweep") /\ Put("sweep", Sweeping) /\ device' = 0 /\ host'.state = "down"
      /\ UNCHANGED <<platform, owned, monitor, lane, me>>
      /\ disturbed' = (disturbed \/ (~Windows /\ Busy("call"))) /\ JobsTyped
  BY HostKept DEF DeadMan, NoDevice, RInv, At, Shapes
<1>2. /\ jobs' \in [Workers -> Job] /\ jobs'["sweep"] = Sweeping
      /\ jobs'["late"] = jobs["late"] /\ Call' = Call
      /\ "sweep" \in Workers /\ "call" \in Workers /\ "late" \in Workers
  BY <1>1, PutEffect, SweepingIs DEF Call, Workers
<1>3. Clears(jobs["sweep"])' /\ Busy("sweep")' /\ Sweeper(jobs["sweep"])'
  BY <1>2, SweepingIs DEF Clears, Sweeper, Busy
<1>4. Settled'
  BY <1>3 DEF Settled
<1>5. JobsTyped' /\ NoDeviceUnlessUp'
  BY <1>1, <1>2 DEF JobsTyped, NoDeviceUnlessUp
<1>6. ASSUME ~disturbed' PROVE Alone' /\ Careful' /\ Ordered' /\ Noted' /\ Recalled'
  <2>1. Alone /\ Careful /\ Ordered
    BY <1>1, <1>6 DEF RInv, Undisturbed
  <2>2. Alone'
    BY <1>2, <1>3, <2>1 DEF Alone, Busy
  <2>3. /\ Careful' /\ Clears(Call)' = Clears(Call) /\ Adds(Call)' = Adds(Call)
        /\ Windows' = Windows
    BY <1>1, <1>2, <2>1 DEF Careful, Clears, Sweeper, Left, Adds, Windows
  <2>4. Ordered' /\ Noted'
    BY <1>1, <1>2, <1>4, <2>1, <2>3 DEF Ordered, Noted
  <2>5. Recalled'
    <3>1. CASE Adds(Call)
      <4>1. Busy("call")
        BY <3>1 DEF Adds, Busy, Call
      <4>2. Windows
        BY <1>1, <1>6, <4>1
      <4>3. /\ Call.guarded /\ Call.seen # 0 /\ Call.out # "stale"
            /\ Call.at \in {"list", "remove", "add"}
        BY <2>1, <3>1, <4>2 DEF Careful, Adds
      <4>4. Resweeps(Call)'
        BY <1>1, <1>2, <4>3 DEF Resweeps
      <4> QED BY <4>4 DEF Recalled
    <3>2. CASE ~Adds(Call)
      BY <1>4, <2>3, <3>2 DEF Recalled
    <3> QED BY <3>1, <3>2
  <2> QED BY <2>2, <2>3, <2>4, <2>5
<1> QED BY <1>1, <1>5, <1>6, RStep

LEMMA HelperCrashStep == ASSUME RInv, Shapes, HelperCrash PROVE RInv'
<1>1. /\ jobs' = [w \in Workers |-> NoJob] /\ device' = 0 /\ platform' = platform
      /\ owned' \in {owned, {}} /\ (~disturbed' => ~disturbed /\ owned' = {})
      /\ lane' \in {"free", "down"}
  BY DEF HelperCrash, NoDevice
<1>2. /\ jobs' \in [Workers -> Job] /\ Call' = NoJob
      /\ jobs'["late"] = NoJob /\ jobs'["sweep"] = NoJob
  BY <1>1, NoJobIs DEF Workers, Call
<1>3. JobsTyped' /\ NoDeviceUnlessUp'
  BY <1>1, <1>2 DEF RInv, JobsTyped, NoDeviceUnlessUp
<1>4. ASSUME ~disturbed' PROVE Alone' /\ Careful' /\ Ordered' /\ Noted' /\ Recalled'
  <2>1. Settled'
    BY <1>1, <1>4 DEF Settled
  <2>2. Alone'
    BY <1>2, NoJobIs DEF Alone, Busy, Sweeper
  <2>3. Careful' /\ ~Adds(Call)'
    BY <1>2, NoJobIs, Begins
  <2>4. Ordered' /\ Noted' /\ Recalled'
    BY <1>1, <1>2, <2>1, <2>3, NoJobIs DEF Ordered, Noted, Recalled
  <2> QED BY <2>2, <2>3, <2>4
<1> QED BY <1>1, <1>3, <1>4, RStep

LEMMA RNext ==
  ASSUME RInv, Shapes, Awaiting, [Next]_vars
  PROVE  RInv'
<1>1. CASE Connect \/ ConnectFails
  BY <1>1, RConnectStep
<1>2. CASE Teardown
  BY <1>2, RQuietActions, RRequestActions, RGivenUpActions, DownStep DEF Teardown
<1>3. CASE Losses
  BY <1>3, RQuietActions, RGivenUpActions, HandlerEndsStep, DeadManStep, HelperCrashStep DEF Losses
<1>4. CASE Monitor
  BY <1>4, RQuietActions, RRequestActions, RGivenUpActions DEF Monitor
<1>5. CASE \E w \in Workers : Reconcile(w) /\ UNCHANGED <<monitor, lane, me, host, net>>
  BY <1>5, ReconcilesStep
<1>6. CASE UNCHANGED vars
  <2>1. Still /\ UNCHANGED <<lane, monitor, me>>
    BY <1>6 DEF vars, resolvers, Still
  <2> QED BY <2>1, QuietStep
<1> QED BY <1>1, <1>2, <1>3, <1>4, <1>5, <1>6 DEF Next

\* resolver_darwin.go, backend_windows_dns.go, routedrangesmonitor.ts: when the tunnel is
\* down and nothing is under way, no entry of ours is left, unless a sweep failed, a request
\* was given up under way, or one of macOS met the dead-man.
THEOREM UndisturbedTheorem == Spec => []UndisturbedLeavesNone
<1>1. RInv => UndisturbedLeavesNone
  <2> SUFFICES ASSUME RInv, ~disturbed, Quiescent, host.state = "down" PROVE owned = {}
    BY DEF UndisturbedLeavesNone, NoneOutlivesTunnel
  <2>1. ~Busy("call") /\ ~Busy("sweep")
    BY DEF Quiescent, Workers
  <2>2. ~Resweeps(Call)
    BY <2>1 DEF Resweeps, Busy, Call
  <2>3. Settled
    BY <2>2 DEF RInv, Undisturbed, Recalled
  <2> QED BY <2>1, <2>3 DEF Settled
<1>2. Init => RInv
  BY RInitially
<1>3. RInv /\ IInv /\ Awaiting /\ [Next]_vars => RInv'
  BY RNext DEF IInv
<1> QED BY <1>1, <1>2, <1>3, Invariance, PTL DEF Spec

-----------------------------------------------------------------------------
(* What no property needs of the types: the lane has a call exactly while  *)
(* someone waits for its answer, and a device is of a session so far.      *)

Laned ==
  /\ lane \in {"free", "forwards", "sweep", "down"}
  /\ lane \in {"forwards", "sweep"} <=> jobs["call"].at # "idle"

Numbered == device <= me.session /\ me.session <= MaxSession

Chosen == platform \in Platforms /\ disturbed \in BOOLEAN

\* A step of a reconcile neither makes a job nor ends one.
LEMMA StepKeepsCall ==
  ASSUME JobsTyped, NEW w \in Workers, Reconcile(w)
  PROVE  jobs["call"].at = "idle" <=> jobs'["call"].at = "idle"
<1> DEFINE k == jobs'[w]
<1>0. jobs[w] \in Job /\ "call" \in Workers
  BY DEF JobsTyped, Workers
<1>1. Only(w, k) /\ jobs[w].at # "idle" /\ k.at # "idle"
  <2>1. CASE Lock(w)
    BY <1>0, <2>1, LockEffect
  <2>2. CASE List(w)
    BY <1>0, <2>2, ListEffect DEF Finished
  <2>3. CASE Write(w)
    BY <1>0, <2>3, WriteEffect DEF Finished
  <2>4. CASE Remove(w)
    BY <1>0, <2>4, RemoveEffect DEF Finished
  <2>5. CASE Add(w)
    BY <1>0, <2>5, AddEffect DEF Finished
  <2>6. CASE Check(w)
    BY <1>0, <2>6, CheckEffect
  <2> QED BY <2>1, <2>2, <2>3, <2>4, <2>5, <2>6 DEF Reconcile
<1> QED BY <1>0, <1>1 DEF Only

\* Whoever gives up a call leaves the lane, whoever starts one takes it.
LEMMA LanedStep ==
  ASSUME JobsTyped, Laned, [Next]_vars
  PROVE  Laned'
<1>0. jobs \in [Workers -> Job] /\ "call" \in Workers /\ "late" \in Workers /\ "sweep" \in Workers
  BY DEF JobsTyped, Workers
<1>1. NoJob.at = "idle"
  BY NoJobIs
<1>2. \A want : Requested(want).at # "idle"
  BY DEF Requested, NoJob
<1>3. ASSUME GivenUp PROVE jobs'["call"].at = "idle"
  BY <1>0, <1>1, <1>3 DEF GivenUp
<1>4. CASE Teardown
  BY <1>0, <1>1, <1>2, <1>3, <1>4
     DEF Laned, Teardown, StopPolling, Disconnect, Swept, SweepLost, Down, DownRefused, DownLost,
         Downed, Put, resolvers
<1>5. CASE Losses
  BY <1>0, <1>1, <1>3, <1>5
     DEF Laned, Losses, SocketLost, HandlerEnds, DeadMan, SeenDown, HelperCrash, ClientCrash,
         SeenUp, Put, resolvers
<1>6. CASE Monitor
  <2>1. CASE Poll \/ RangesUnchanged \/ ApplyRanges \/ ApplyRangesRefused \/ ForwardsUnchanged \/ Redial
    <3>1. UNCHANGED <<lane, jobs>>
      BY <2>1 DEF Poll, RangesUnchanged, ApplyRanges, ApplyRangesRefused, ForwardsUnchanged, Redial,
                  resolvers
    <3> QED BY <3>1 DEF Laned
  <2>2. CASE ApplyRangesLost \/ ForwardsLost
    BY <1>3, <2>2 DEF Laned, ApplyRangesLost, ForwardsLost
  <2>3. CASE ApplyForwards
    <3> DEFINE j == Requested(Wanted(monitor))
    <3>1. \/ lane' = "forwards" /\ jobs' = [jobs EXCEPT !["call"] = j]
          \/ UNCHANGED <<lane, jobs>>
      BY <2>3 DEF ApplyForwards, Put
    <3>2. j.at # "idle"
      BY <1>2
    <3> QED BY <1>0, <3>1, <3>2 DEF Laned
  <2>4. CASE ForwardsAnswered
    BY <1>0, <1>1, <2>4 DEF Laned, ForwardsAnswered, Put
  <2> QED BY <1>6, <2>1, <2>2, <2>3, <2>4 DEF Monitor
<1>7. CASE Connect \/ ConnectFails \/ UNCHANGED vars
  BY <1>7 DEF Laned, Connect, ConnectFails, vars, resolvers
<1>8. CASE \E w \in Workers : Reconcile(w) /\ UNCHANGED <<monitor, lane, me, host, net>>
  BY <1>8, StepKeepsCall DEF Laned
<1> QED BY <1>4, <1>5, <1>6, <1>7, <1>8 DEF Next

LEMMA ChosenStep ==
  ASSUME Chosen, [Next]_vars
  PROVE  Chosen'
<1>1. CASE Teardown
  BY <1>1 DEF Chosen, Teardown, StopPolling, Disconnect, Swept, SweepLost, Down, DownRefused,
              DownLost, NoDevice, GivenUp, resolvers
<1>2. CASE Losses
  BY <1>2 DEF Chosen, Losses, SocketLost, HandlerEnds, DeadMan, SeenDown, HelperCrash,
              ClientCrash, SeenUp, NoDevice, GivenUp, resolvers
<1>3. CASE Monitor
  BY <1>3 DEF Chosen, Monitor, Poll, RangesUnchanged, ApplyRanges, ApplyRangesRefused,
              ApplyRangesLost, ForwardsUnchanged, ApplyForwards, ForwardsAnswered,
              ForwardsLost, Redial, GivenUp, resolvers
<1>4. CASE Connect \/ ConnectFails \/ UNCHANGED vars
  BY <1>4 DEF Chosen, Connect, ConnectFails, NoDevice, vars, resolvers
<1>5. CASE \E w \in Workers : Reconcile(w) /\ UNCHANGED <<monitor, lane, me, host, net>>
  BY <1>5 DEF Chosen, Reconcile, Lock, List, Write, Remove, Add, Check, Finish
<1> QED BY <1>1, <1>2, <1>3, <1>4, <1>5 DEF Next

\* A session is numbered when its bring-up starts, and no other step numbers one.
LEMMA NumberedStep ==
  ASSUME JobsTyped, Shapes, Numbered, [Next]_vars
  PROVE  Numbered'
<1>0. me \in MeShape /\ me.session \in Nat /\ device \in Nat /\ MaxSession \in Nat
  BY RoutedAssumption DEF JobsTyped, Shapes, MeShape
<1>1. ASSUME me'.session = me.session, device' \in {device, 0} PROVE Numbered'
  BY <1>0, <1>1 DEF Numbered
<1>2. ASSUME OnLost PROVE me'.session = me.session
  BY <1>0, <1>2 DEF OnLost, MeShape
<1>3. CASE Connect \/ ConnectFails
  <2>1. me' = Begun(me, "up") \/ me' = Begun(me, "owed")
    BY <1>3 DEF Connect, ConnectFails, Begun
  <2>2. me'.session = me.session + 1
    BY <1>0, <2>1 DEF Begun, MeShape
  <2>3. me.session < MaxSession /\ device' \in {0, me.session + 1}
    BY <1>3 DEF Connect, ConnectFails, NoDevice
  <2> QED BY <1>0, <2>2, <2>3 DEF Numbered
<1>4. CASE Teardown
  BY <1>0, <1>1, <1>4
     DEF Teardown, StopPolling, Disconnect, Swept, SweepLost, Down, DownRefused, DownLost,
         Downed, NoDevice, resolvers, MeShape
<1>5. CASE Losses
  BY <1>0, <1>1, <1>2, <1>5
     DEF Losses, SocketLost, HandlerEnds, DeadMan, SeenDown, HelperCrash, ClientCrash, SeenUp,
         NoDevice, resolvers, MeShape
<1>6. CASE Monitor
  BY <1>0, <1>1, <1>2, <1>6
     DEF Monitor, Poll, RangesUnchanged, ApplyRanges, ApplyRangesRefused, ApplyRangesLost,
         ForwardsUnchanged, ApplyForwards, ForwardsAnswered, ForwardsLost, Redial, resolvers,
         MeShape
<1>7. CASE UNCHANGED vars
  BY <1>1, <1>7 DEF vars, resolvers
<1>8. CASE \E w \in Workers : Reconcile(w) /\ UNCHANGED <<monitor, lane, me, host, net>>
  BY <1>1, <1>8, TypedStep
<1> QED BY <1>3, <1>4, <1>5, <1>6, <1>7, <1>8 DEF Next

\* The client has a call on the wire exactly while its lane waits for one, and the device
\* there is was made for a session of this client.
THEOREM TypeCorrect == Spec => []TypeOK
<1>1. Init => RInv /\ Laned /\ Chosen /\ Numbered
  <2> SUFFICES ASSUME Init PROVE RInv /\ Laned /\ Chosen /\ Numbered
    OBVIOUS
  <2>1. Laned
    BY NoJobIs DEF Init, ResolversInit, Laned, Workers
  <2>2. Chosen
    BY DEF Init, ResolversInit, Chosen
  <2>3. Numbered
    BY RoutedAssumption DEF Init, ResolversInit, Numbered
  <2> QED BY <2>1, <2>2, <2>3, RInitially
<1>2. /\ RInv /\ Laned /\ Chosen /\ Numbered /\ IInv /\ Awaiting /\ [Next]_vars
      => (RInv /\ Laned /\ Chosen /\ Numbered)'
  BY RNext, LanedStep, ChosenStep, NumberedStep DEF IInv, RInv
<1>3. RInv /\ Laned /\ Chosen /\ Numbered /\ IInv => TypeOK
  <2> SUFFICES ASSUME RInv, Laned, Chosen, Numbered, IInv PROVE TypeOK
    OBVIOUS
  <2>1. JobsTyped /\ Shapes /\ net \in NetShape /\ MaxSession \in Nat
    BY RoutedAssumption DEF RInv, IInv, Real
  <2>2. ResolversTypeOK
    BY <2>1 DEF JobsTyped, Chosen, ResolversTypeOK
  <2>3. me.session \in Nat /\ device \in Nat
    BY <2>1 DEF Shapes, MeShape, JobsTyped
  <2>4. me.session \in 0..MaxSession /\ device <= MaxSession
    BY <2>1, <2>3 DEF Numbered
  <2>5. me \in [own : {"inactive", "up", "owed"}, latch : BOOLEAN, session : 0..MaxSession]
    BY <2>1, <2>4 DEF Shapes, MeShape
  <2> QED BY <2>1, <2>2, <2>4, <2>5 DEF TypeOK, Laned, Shapes, MonitorShape, HostShape, NetShape
<1> QED BY <1>1, <1>2, <1>3, Invariance, PTL DEF Spec
=============================================================================
