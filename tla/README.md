# A formal model of the Tunnex desktop client

This directory holds TLA+ specifications of the Tunnex desktop client: the root
helper that owns the tunnel and its kill-switch (`apps/helper`, Go) and the
Electron main process that decides when there is one, for whom, and with which
device identity (`apps/client/src/main`, TypeScript).  TLC checks the
specifications on small instances; TLAPS proves every safety property the runs check
(invariants, action properties and refinements) for every instance, or for the ones the
property is about; the liveness properties stay with TLC.

Paths below are relative to the repository root; `main/` stands for
`apps/client/src/main/`.

## 1. The system

```
 renderer (apps/web)                 control plane (external)
     | IPC, one poll per second          | HTTPS: roster, create, revoke, config
 +---v-----------------------------------v----------------------------+
 | Electron main                                                      |
 |  ipc.ts handlers -> ManagedLifecycleCoordinator (FIFO lane, epoch)  |
 |     | flows               ^ guarded / terminal callbacks            |
 |     v                     |                                         |
 |  resolveTunnelConfig    monitors (revocation, approval, ranges)      |
 |  enrollment anchor + record on disk                                 |
 |  TunnelController -> HelperConnection    BeamRuntime -> channel pools |
 +-----|--------------------------------------------------------------+
       | one local socket, FIFO request/reply, no request identifiers
 +-----v--------------------------------------------------------------+
 | root helper: Server (one goroutine per connection, one owner)       |
 |  -> Supervisor (down / up / failed, dead-man) -> platform backend    |
 |     relay leases, believed routes, resolver files or rules           |
 +-----|--------------------------------------------------------------+
       v kernel: block (pf anchor / WFP filters), WireGuard device, routes,
         host DNS (system resolvers, /etc/resolver files, NRPT rules)
```

### Inventory

| component | state | operations | what is hard | what makes it correct |
|---|---|---|---|---|
| supervisor and backends (`state.go`, `backend_darwin.go`, `backend_windows.go`) | `state`, `lastCfg`, `orphaned`, `lastBeat`; the backend's `fullTunnel`, `armed`, device; the kernel's block, device, routes | Up, Down, CheckDeadMan, OnPeerLost, Status, SelfHeal, UpdateAllowedIPs, UpdateGatewayPeer, FailClosed | a crash at any step, late failures, a clock left over from another session, live updates outside the lock | no route of a full tunnel without the block; protection lost only by a sanctioned release; the state reported is the kernel's; the dead-man is neither early nor never |
| kill-switch rules and host DNS (`internal/wfp/*`, `backend_darwin.go`, `backend_windows_dns.go`) | filters and sublayer, the pf anchor and its enable reference, each service's resolver, `dns.json` | EnableFirewall, removePersistentObjects, armPF, flush, backupDNS, applyDNS, restoreDNS, scoped permits, CleanStale | a removal that fails half-way, rules that outlive the process, weights and quick rules that override each other | nothing but what is meant passes; a teardown that says it succeeded leaves nothing; the user's resolvers are recoverable |
| request server (`ipc.go`, `cmd/tunnex-helper/main.go`) | `owner`, one handler per connection | accept, dispatch, setOwner, clearOwner, onClose | several connections between two steps of one handler; wedged and dead owners | a live tunnel has a served owner; an unattended host is released |
| relay negotiation (`relay.go`, `main/tunnel.ts`) | `closed`, `used`, a 30 s lease, a timer | prepare, publish, authorize, bind, renew, close | a lease that runs out during a renewal or a gathering; two connections | a revoked session's carrier is closed within its lease |
| route reconciliation (`routereconcile.go`, `state.go`) | the believed set of routes | one sweep | any deletion or addition fails | belief never exceeds the kernel |
| resolver files (`resolver*.go`, `nrpt.go`) | owned files or rules | install, sweep | sweeps beside a late install | no foreign file touched, none stranded |
| helper connection (`main/helperclient.ts`) | the socket, the waiters, the attempt under way | request, close, connect | late replies, shared attempts, events of sockets given up | a reply answers its own request; every call ends |
| tunnel controller (`main/tunnel.ts`) | ownership, generations, heartbeat, resolver latch, relay | up, down, status, live updates, failClosed, heartbeat | an ambiguous bring-up; a loss during one; reads that overtake a failure | the client's belief and the helper's state find each other |
| managed lifecycle (`main/managedlifecycle.ts`, `managedlifecycleflows.ts`, `ipc.ts`) | the lane, the epoch, the active lease, the monitors | connect, recover, import, disconnect, login, logout, remove, poll, guarded, terminal | late callbacks of retired sessions, refusals half way | a managed tunnel belongs to the current lease and is watched |
| enrollment (`main/deviceconfig.ts`, `enrollmentanchor.ts`, `tunnelstore.ts`, `durablefile.ts`) | the anchor, the record, the roster | resolve, enroll, refresh, approve, revoke, remove, abandon | crashes between two files and a server, lost replies, late requests, failed writes, two users | one identity, never given up while the server admits it |
| monitors (`pollmonitor.ts`, `revocation.ts`, `approvalmonitor.ts`, `healthmonitor.ts`, `routedrangesmonitor.ts`) | running, stopped, in flight, back-off, last applied sets | start, stop, probe, apply | the end of a session between two tiers of a poll | what is taken for applied is what the helper holds |
| status readers and quit guard (`statusreader.ts`, `quitguard.ts`) | the flight in progress, the retry time | read, quit | a timeout racing a late down | one flight; belief recovers after a hurried quit |
| beam (`beamruntime.ts`, `beamchannelpool.ts`, `beamwebsocket.ts`, ...) | the map of instances, versions, epoch; reservations per pool | start, withdraw, retry, pause, resume, edit, heartbeat, poll, fill, serve, abort | operations that overlap at awaits; reservations on every path | one served instance per share, withdrawn when nobody stands behind it; the caps hold |
| login, organization and server choice, posture, updater, installation, presentation, web, API types | | | linear I/O, pure data or presentation | not modelled (section 6) |

How they interact: the renderer asks, the handlers of `ipc.ts` queue a ticket on
the lifecycle's lane; the flow resolves the configuration (enrollment) and calls
the controller, which makes one request at a time to the helper, the heartbeat
beside it; the server dispatches it to the supervisor under its mutex and records
who owns the result.  Back from the helper come replies, heartbeats and the end of
the socket; from the control plane come the monitors' answers; both enter the lane
as guarded or terminal tickets.  Beam shares nothing with the tunnel but the login.

The hazards, each with its line and the properties aimed at it, are listed in
`PROJECT.json`.

## 2. Modules

| module | models | builds on |
|---|---|---|
| `Supervisor` | abstract: the three states, each call of the supervisor one step | |
| `HelperSupervisor` | the supervisor step by step over the kernel, both platforms | implements `Supervisor` |
| `HelperServer` | connections, handlers, ownership | EXTENDS `Supervisor` |
| `PacketRules` | the filters of both kill-switches as data, and which packets pass | |
| `HostGuard` | what a full tunnel leaves on the host: filters, pf reference, resolvers | EXTENDS `PacketRules` |
| `ResolverFiles` | the reconcile of domain-scoped resolvers, as jobs of several workers | |
| `RoutedConfig` | the monitor of ranges, forwards and gateway, routes and resolvers, to their end | EXTENDS `ResolverFiles` |
| `RelayLease` | the relay's lease between control plane, client and helper in time | |
| `RequestChannel` | abstract: what a connection to the helper promises its callers | |
| `HelperConnection` | sockets, the shared attempt, the FIFO of waiters, deadlines | implements `RequestChannel` |
| `TunnelController` | the controller's awaits, generations, heartbeat, against a helper | EXTENDS `RequestChannel` |
| `ManagedLifecycle` | the lane, epochs, flows, callbacks, the controller's ownership | |
| `DeviceIdentity` | abstract: what enrollment promises about keys | |
| `Enrollment` | the two files, the server's roster, every operation on them | implements `DeviceIdentity` |
| `BeamPool` | a channel pool as a record, its callbacks as functions on it | |
| `BeamShare` | one share: its instances, operations, heartbeats, versions | EXTENDS `BeamPool` |
| `HelperSupervisor_proofs`, `Enrollment_proofs`, `RelayLease_proofs`, `RoutedConfig_proofs`, `HostGuard_proofs`, `BeamShare_proofs` | theorems | EXTEND the module of their name and TLAPS |
| `HelperSocket_proofs` | theorems about both ends of the local socket | EXTENDS `HelperServer`, `HelperConnection`, TLAPS |
| `MainProcess_proofs` | theorems about the lifecycle and the controller | EXTENDS `ManagedLifecycle`, `TunnelController`, TLAPS |
| `MC...` | the instances TLC checks, with their symmetry | |

`PROJECT.json` maps every definition to the lines it translates.  Every module has a
`TypeOK`; the abstract ones, and the parts, have one that their users include, or need none.

### HelperSupervisor

`op` is the supervisor's mutex together with how far the backend call of its
holder has come.  `Up` of the code is `UpEnter` and then `UpCheck` (endpoint
resolution and preconditions), `UpClean` (what a prior session left), `UpArm`,
`UpDevice`, `UpRoutes`, `UpFinish`; each may fail, and `LateFailure` is what the
supervisor and the backend's error path do then, in one step.  `Down` and the
dead-man share `CloseDevice` and `ReleaseBlock`.  A `Crash` between any two of them
takes the process, the device and its routes and leaves the block; `SelfHeal`
is what the successor does before it serves.  Live updates read under the lock
and call the backend outside it (`AllowedIPsRead`, `AllowedIPsApply`,
`GatewayPeerRead`, `GatewayPeerApply`, `GatewayPeerCommit`), which is where the
interleavings are.  `Platform` selects the differences of the two backends: when an
old block is cleaned, how arming fails, whether `Down` believes it armed.
`shield`, `held`, `death` and `wanted` are history variables: no action reads them.

The relation to `Supervisor` needs no witness: the state, the orphan flag and the
age of the last beat keep their names, and each call commits in one step.

### HelperServer

The supervisor is the one `Supervisor` promises, each method a step, since it holds
`s.mu`.  Around it a handler of a connection walks through `read`, `call`, `beat`,
`claim`, `own`, `write`, and at its end `close`, `lost`: `State()` and `setOwner` are
two steps, and so are giving the ownership up and telling the supervisor.  A request
waits in `inbox`, and which one it is is chosen when it is read.

### PacketRules and HostGuard

A packet is a record of the fields the rules name; the set `Packets` has one member
for each combination the rules of either platform can tell apart (2,520 of them).
The filters of `EnableFirewall` keep their layers, weights and conditions; pf rules
keep their order and `quick`.  `HostGuard` runs the supervisor's calls one at a time,
but each in the steps between which the process may die (`Crash`), and lets the calls of
the operating system fail, those too whose error the code drops: a removal commits any
part of what it was asked to remove; `pfctl -E` may fail, and then pf may be off whatever
rules are loaded (`Enablings`, `Passing`); its token may be held and on no file, and be lost
with the process (`leaked`); `pfctl -X` may fail and the token is forgotten all the same
(`Forgotten`); a resolver that cannot be read is recorded as automatic, and a backup that
cannot be written is no reason to stop (`Backup`).  The one thing granted is that a file
that is there can be read and removed.  `blamed` is a history variable: it names what went
wrong without any answer reporting it, and each property excuses only the blame it names.

### ResolverFiles and RoutedConfig

A job lists what we own, writes, removes or adds one domain at a time, and may be
refused at each step; there are three workers, because the handler of a lost
connection and the dead-man's sweep may run beside the client's request, and on macOS
no lock keeps them apart.  `RoutedConfig` has the monitor's three tiers in the order
of the code, the lane that a teardown shares with them, the ownership and the
resolver latch of the controller, and the helper's routes with the reconciler's
belief.  `stuck` are routes a deletion left behind, `torn` says that the last apply
of ranges failed half-way; `disturbed` records the three ways an entry may be left
that the code accepts or does not exclude.

The model assumes three things of code it does not contain.  The main process reads
the helper's status at its start and every second, so a new client learns of a
tunnel it owes the cleanup of before it connects.  Monitors are built anew for each
connect.  `set_resolvers` holds a mutex on Windows only, as in the code.

### RelayLease

Time is discrete: `Tick` is a unit, and what is due happens before the next.  Each
deadline of the code is a constant (`Lease`, `Cp`, `Ipc`, `Negotiation`, `Heartbeat`).
A slot is an IPC connection with its one negotiation; the client has one and may
have given up another whose handler is still at work.  The control plane ends the
session at any time (`revoked`) and `since` counts from there.

### HelperConnection and TunnelController

`HelperConnection` has every continuation of `request()` and `ensure()` as an action of
its own, sockets that end before Node tells, frames that do not decode, deadlines that
fire late and the events of sockets already given up.  Through `ImplementsChannel` its
callers see `RequestChannel`, in which a call is answered by its own reply or fails and
the end of a socket is reported once.  The code's one list of waiters is kept per socket
here, which is how it is read: every use of it filters by the socket or
removes one waiter by identity.

`TunnelController` uses that channel.  JavaScript runs the continuations of a settled
request before any other event (`Quiet`), so each await is one action.  The lane's
operation and the heartbeat are the two callers.  The helper's calls are single steps,
as `HelperServer` and `HelperSupervisor` justify, and a request the client gave up on
stays queued there.  A change of the gateway's peer is an action of its own (`Repeer`, on a
relay `Rehome`), because it asks less than the other live updates: only that the present
generation's failure was not published.

### ManagedLifecycle

`lane` is the promise chain of `serial`; only its head runs, and `at` is the await it
stands at, since nothing interleaves between two awaits of JavaScript.  Between two
awaits of the head anything may be queued: users' requests, polls, heartbeats, losses,
and callbacks of any lease for which monitors were ever built (`issued`), because a
stopped monitor may still have an answer under way.  A lease is an epoch and a
credential; `active` labels callbacks of the controller, `monitors` is the lease of the
monitors that run, `live` is the session the tunnel really belongs to.  Publishing a
tunnel that came up reads the record once more before it builds the monitors; where that
read fails the tunnel stays up without any (`ConnectUnread`).

### Enrollment

One operation runs at a time (the lane serializes them) and `at` is the await it
stands at.  The disk is two files, `anchor` and `store`; a write succeeds, or
reports an error with either the old or the new bytes in place
(`durablefile.ts` may fail after its rename).  The server is external: it keeps
one row per public key, and a create that names a known key changes nothing.  A
request the client gave up on stays in `late` and may arrive at any later time or
never.  An administrator approves, revokes and deletes at will.

`ImplementsIdentity` maps the identity to the anchor's key, or the record's when there
is no anchor, and calls *forsaken* a key that was given up before the server ever
retired it.

### BeamPool and BeamShare

A pool is a record of counters and `Filled`, `Claimed`, `Events`, `Endings` are what its
callbacks make of it.  Channels are interchangeable, so counts are enough: `dead` counts
those the proxy closed and that wait out their delay, `surplus` those refused at the cap.

`BeamShare` has several instances of one share, because an instance that was withdrawn goes
on until its awaits notice; `listed` is the runtime's map.  Nothing serializes operations:
`ipc.ts:183` hands each to the runtime, and the panel's `busy` is state of a component that
is lost when the panel is left.  So several are under way at once, each reading, sending or
booting at one of three awaits; the control plane gives each accepted change a new version
and refuses a request that names another.  A heartbeat has two awaits, the probe of the
local app and the request, and each ends in `current()`.  One that finds itself not current
closes whatever is listed under the share's id (`BeatGivesUp`), and that holds for a
withdrawn instance too, whose last await comes back late (`BeatLate`).  `exposed` is a history
variable: the instances started while another operation's resume, which had closed what was
listed, was still on its way.  The control plane and the proxy are external.

## 3. Runs

| run | instance | result | distinct states |
|---|---|---|---|
| `supervisor_darwin` | 1 connection, 2 gateways, windows 3 and 1 | pass | 4,250 |
| `supervisor_windows` | 2 connections, 2 gateways, windows 2 and 1 | pass | 33,126 |
| `supervisor_retry` | 1 connection, 1 gateway | `DownRetryReleases` violated | |
| `guard` | both platforms, 2 network services | pass | 414,438 |
| `server` | 2 connections, windows 1 and 0 | pass | 109,569 |
| `connection` | 3 calls, 2 sockets | pass | 125,905 |
| `controller` | 2 sockets, 2 generations | pass | 136,546 |
| `lifecycle` | 2 users, 6 epochs, lane of 2 | pass | 703,111 |
| `routed` | both platforms, 2 sessions, 2 ranges, 1 domain | pass | 2,474,844 |
| `relay` | lease 4, requests 2 and 2, negotiation 5, heartbeat 1 | pass | 1,076,808 |
| `enrollment` | 2 users, 2 keys, 3 faults, 2 logins | pass | 151,820 |
| `beam` | 2 operations at a time, 2 instances, 3 versions, caps 1 and 1 | pass | 466,936 |

What the passing runs show:

- `supervisor_darwin`: the state reported is the kernel's whenever the lock is free;
  with one connection a re-home, a range update, the dead-man and an owner's loss
  leave routes, peer and record consistent (`RehomeIsWhole`); a reconnect over a block
  keeps it; each call is one step of `Supervisor`.
- `supervisor_windows`: protection of a full tunnel survives two connections'
  calls, late failures and crashes; routes are never without it; the dead-man
  never fires before the window the owner's end calls for.
- `guard`: a full tunnel that is up passes what it is meant to carry, the upkeep of the
  link and nothing else, for every combination of packet fields the rules name, unless pf
  could not be enabled; a teardown that answers ok leaves no filter and no anchor; the
  user's resolvers are in use or in the backup at every step, and in use again once a
  tunnel is down, unless one of the `Losses` happened: a backup that failed or misread, one
  made of the tunnel's own resolvers, or a service that could not be set back.  What the code
  drops and so loses is in section 4.
- `server`: ownership never rests with a connection nobody serves, no live tunnel is
  left without an owner, and a host whose apps have all gone is released, in the sense that
  the supervisor is down; that its last removal may have failed is `supervisor_retry`.
- `connection`: a late reply never answers another request, no call waits for an event
  that will not come, every call ends, and callers see `RequestChannel`.
- `controller`: a client that takes the tunnel for its own has the socket that vouches
  for it; a failure once published is not taken back; what the client believes and
  what the helper does find each other, in both directions.
- `lifecycle`: no interleaving leaves a managed tunnel up under a retired lease, another
  credential, or with the monitors that were built for it stopped, or lets a late callback
  act on another session.
- `routed`: whatever deletions and additions fail, the reconciler believes only in
  routes that exist; what the monitor takes for applied is what the helper holds; and
  when everything is over no resolver of ours is left, unless one of three named
  disturbances happened.
- `relay`: a carrier whose session was revoked is closed within a lease and two
  deadlines, whatever is lost, hangs or dies; the client's patience never exceeds the
  lease the helper keeps.
- `enrollment`: after any faults there is one identity, it is armed only when approved,
  complete and the logged-in user's, it is forgotten only by an explicit removal, and
  an interrupted enrollment completes.
- `beam`: the caps hold in every order of callbacks, and no reservation is lost; an
  instance escapes withdrawal only when another operation's resume overtook its start; and
  an instance that is listed stops being served, to its last channel, when the server or the
  account no longer stands behind it.

No run lists a `TypeOK`: each was checked with TLC beside the runs, and for all but the
lifecycle, whose bound on epochs counts what is queued, it is proved (section 5).
A run's state space is complete: TLC explores it to the end.

### Bounds

- *Gateways and connections*: two of each are enough for one update to overtake
  another's; nothing counts connections.  Gateways and callers are interchangeable,
  hence the symmetry of the safety run.
- *Windows*: 3 and 1 (2 and 1, 1 and 0) keep the short window strictly below the
  long one, with the clock saturating one tick past it (`MaxAge`): all later ages
  behave alike.
- *Configuration*: a tunnel mode and a gateway key are all the supervisor branches on;
  the filters branch besides on IPv6 and on the control plane's pass.
- *Sockets and calls*: three calls over two sockets have one that waits, one that
  times out and one that follows; the second socket is the one that could inherit.
- `MaxGen`: with two generations a late event of the first meets the second.
- `MaxEpoch` and `MaxLane` bound how often sessions are replaced and how many
  tickets users and monitors may queue.  Six epochs are three sessions with their ends;
  polls, heartbeats and losses are not counted against the lane.
- `MaxSession`: in the second session what the first one left may do harm.  Two ranges
  let a sweep fail for one of them; one domain suffices, as entries do not interact.
- *Time of the relay*: the constants keep the order of the code's 30, 12, 15, 35 and 10
  seconds; the theorems of section 5 hold for others as well.
- `Keys` bounds enrollments, `MaxLogins` logins, and `MaxFaults` crashes, lost replies and
  failed writes together: two keys suffice to mint a second identity beside the
  first, three faults to interrupt an operation, its retry and the retry's retry.
- `Ops`, `Runs`, `MaxVersion`: two operations at a time are enough for one to overtake the
  other, any number of them one after the other; two instances, one that is still ending or
  overwritten beside one that is listed; versions for two changes of the share, say a resume
  and the certificate of its instance.  Caps of 1 reach every limit.  The safety theorems of
  section 5 have no bound.

`beam`, `routed` and `controller` say `CHECK_DEADLOCK FALSE`: instances, sessions and
sockets are used up on some paths, and the model stops there.  All other runs check
for deadlock.

### Fairness

- `server` (`NeverStranded`): time passes, the dead-man's ticker runs, and a goroutine
  that can proceed does (`WF` of `Clock`, `DeadMan`, `Serve(c)`).  A blocked read proceeds by its
  deadline (`ipc.go:195`).  Nothing is assumed of clients, and a crash is never
  forced.
- `connection` (`Settles`): timers fire, continuations run, an attempt succeeds or fails
  (`WF` of `Timeout`, `Proceed`, `Attempt`).  The helper need not answer anything.
- `controller` (`Corrected`, `FailureIsReal`): continuations run; a due timer, reply or end
  of a socket is served however busy the event loop is (`SF`, since the loop takes
  events in order but other events may disable one for a while); a handler of the helper
  goes on.  No user has to ask for anything.
- `enrollment` (`Resumes`): an operation under way goes on to its end, as each await of
  it is a request with a deadline (`controlplanerequest.ts`), and a user who can connect
  eventually does (`WF` of `Flow`, `Connect`).  Faults are finitely many.
- `beam` (`Withdrawn`): the heartbeat's timer fires and its verdict is acted on, an aborted
  task ends (`WF`), and the control plane is not out of reach for ever (`SF` of
  `ServerBeats`).
- All other runs are about safety and assume none.

## 4. Where code and documents differ

One run finds an execution that contradicts a comment of the code.  `supervisor_retry`: a
Down whose last removal failed sets the state to down all the same (`state.go:276`), so
the retry, which `tunnel.ts:347` promises will be the "real helper cleanup rather
than becoming a zero-wire no-op", does nothing and reports success while the block is
in force.

The following were met while modelling and are not runs.  Where a definition states the
expectation, checking it in the run of its module, with the bounds given there or
larger, gives the execution.

| expectation | where it is said | what the code does |
|---|---|---|
| `FailedMeansBlocked` (HelperSupervisor) | `state.go:35` "FAIL-CLOSED kill-switch installed" | an error before arming is reported as failed too (`state.go:249`) |
| `FullReconnectKeepsBlock`, on Windows | `state.go:48` "only Down removes it" | every bring-up removes the block first (`backend_windows.go:144`); the removal's error is dropped and `armed` is reset, so after a split bring-up that could not remove it, a Down answers ok while the host is blocked |
| `OthersUndisturbed` (HelperServer) | `ipc.go:243` "a non-owner connection closing must not disturb a live tunnel" | the supervisor hears of the loss after `mu` is given up (`ipc.go:252`), when another connection may own a live tunnel |
| `RefusalKeepsSession` (ManagedLifecycle) | `managedlifecycleflows.ts:127` "the old session remains fully owned and monitored" | the refused down publishes the failure of its generation (`tunnel.ts:350`), and the callback ends the session |
| `LossIsFinal` (ManagedLifecycle) | `managedlifecycle.ts:151` "must fence every already-queued callback" | a loss found by a status read is published without a terminal ticket (`ipc.ts:539`), and a queued heartbeat shows the tunnel up again |
| `RemovalForgets` (Enrollment) | `ClientApp.tsx:652` "a future connection must enroll again" | the removal takes the record only (`deviceconfig.ts:779`); an anchor beside it resumes the old device |
| `PriorSettingSaved` (HostGuard) | `backend_darwin.go:728` "first saving each service's prior setting" | a full tunnel brought up again from "failed" backs up the tunnel's resolvers over the user's (`backend_darwin.go:296`) |
| `RecoverableMidApply` (HostGuard) | `backend_darwin.go:730` "so a crash mid-apply is still recoverable" | the write of `dns.json` may fail and its error is dropped (`backend_darwin.go:744`), and a service that cannot be read is recorded as automatic (`backend_darwin.go:716`); every service is set all the same |
| `UpIsEnforced` (HostGuard) | `backend_darwin.go:176` "ARM the kill-switch FIRST" | the error of `pfctl -E` is dropped (`backend_darwin.go:641`): the rules are loaded and the tunnel is reported up while pf may be off |
| `NoneLeaked` (HostGuard) | `backend_darwin.go:650` "instead of leaking it" | a reference whose file could not be written (`backend_darwin.go:654`) is lost with the process, and one that `pfctl -X` did not release is forgotten (`backend_darwin.go:665`) |
| `RangesHeld` (RoutedConfig) | `routedrangesmonitor.ts` keeps the last applied set so that a failure changes nothing | the peer's AllowedIPs change before the routes (`state.go:301`): after an apply that failed half-way the monitor believes the old set, and a server that returns to it gets no call |
| `NoneOutlivesTunnel` (RoutedConfig) | `main.go:91` "so a stale resolver can't outlive the dead tunnel", `tunnel.ts:276` "can never STRAND" | a failed sweep is followed by a tunnel_down that forgets the latch (`tunnel.ts:357`); a set_resolvers of a lost connection may finish after the sweep |
| `AlwaysWatched` (ManagedLifecycle) | `ipc.ts:792` "Start the proactive revocation monitor" for the tunnel that just came up | the record is read again in between (`ipc.ts:793`); when that throws the tunnel stays up, labelled, and nothing watches for its revocation |
| `StaysOffline` (BeamShare) | `beamruntime.ts:285` "stays locally offline" | `start` overwrites the map whatever it holds (`beamruntime.ts:341`): two overlapping operations leave an instance that serves and that no withdrawal reaches |

Smaller ones:

- With two connections a range update can be aimed at a peer the device no longer
  has (`state.go:298`), so `RehomeIsWhole` is checked with the one connection the client
  keeps.
- `ipc.go:109` says the owner is nil when the tunnel is down; a dead-man release leaves it
  set.
- `trayview.ts:76` and `revocation.ts:21` say a revoked device's configuration is cleared; the
  record is kept and marked (`ipc.ts:340`).
- The sweep of the dead-man (`state.go:209`) may remove the entries of a client that
  reconnected meanwhile; its comment accepts it.  Two sweeps, or a sweep and a
  set_resolvers, may overlap on macOS, where nothing locks them.
- A restore of the system resolvers removes the backup even when a service could not be
  set back (`backend_darwin.go:770`), and the uninstall path removes `dns.json`.
- pf passes all outbound ICMPv6 (`backend_darwin.go:624`) where the comment says NDP;
  `LinkLocalUpkeep` grants it.
- A renewal may reset the timer of a relay's lease that has just run out, and the first
  heartbeat may come after the lease's end when the gathering took long; the carrier
  then closes, and the client finds out by its own reads.
- `tunnel.ts:534` "A late monitor must never open a new helper socket": `setGatewayPeer` asks only
  whether the present generation has failed (`tunnel.ts:289`), not whether it is up, so a late
  one may open a socket without a session (`Repeer`).
- The heartbeat of a withdrawn instance that is still in flight closes whatever is listed
  when it ends (`beamruntime.ts:465`, `beamruntime.ts:471`), so it may close the instance that
  a resume has started since; and an orphan whose heartbeat is refused closes the listed
  instance, not itself.
- A route whose deletion failed leaves the helper's belief with the others
  (`routereconcile.go:47`), so no later sweep tries it again.
- A full tunnel's re-home may change the routes and fail at the peer, or the reverse; both
  are reported as a failure.

## 5. Proofs

`HelperSupervisor_proofs` proves, for any sets of callers and gateways, any two windows and
either platform, from `SupervisorAssumption` alone:

| theorem | statement |
|---|---|
| `Invariance` | `Spec => []IInv` |
| `TypeCorrect` | `Spec => []TypeOK` |
| `ShieldTheorem` | `Spec => []ShieldHolds` |
| `ArmedTheorem` | `Spec => []ArmedBeforeRouted` |
| `RealTheorem` | `Spec => []StateIsReal` |
| `PatientTheorem` | `Spec => []PatientRelease` |
| `Refinement` | `Spec => ImplementsSupervisor` |
| `ReconnectTheorem` | on macOS, `Spec => FullReconnectKeepsBlock` |
| `RehomeTheorem` | with one caller, `Spec => []RehomeIsWhole` |

None of the properties is inductive.  `IInv` adds what the code relies on without saying
so:

- `LockShape`, `SwapShape`: a bring-up under way has a caller and a configuration, a swap under
  way names a peer;
- `Stage`: how much of the device and the routes exists at each step, and that a
  bring-up never starts from `up` nor a teardown from `down`.  Without it `StateIsReal` fails
  when a bring-up commits;
- `Halted`: a process that does not run holds no device;
- `Covered`: from the arming step on a full-tunnel bring-up stands on its block.  This is
  what `ArmedBeforeRouted` needs when the routes are installed and `ShieldHolds` when the
  bring-up commits;
- `GivenUp`: a teardown gave the protection up before it removes the block;
- `Watched`: the dead-man's clock started no earlier than the present state, and an
  orphan is one by a death seen since, which carries `PatientRelease`.

The type invariant is split in `Flags` (Booleans, which Zenon treats well) and `Data`
(which needs SMT).  Each action has a lemma `...Step` that it preserves `IInv`, with one step per
part it can disturb; `NextInv` collects them.  The refinement is proved action
by action: a step that commits a call is the abstract call, all others stutter.

`RehomeTheorem` is about one connection at a time, because live updates read under the
lock and act outside it: with two, a range update is aimed at a peer another one has
replaced (`state.go:298`, section 4).  What one connection adds is `Whole(c)`: whoever
has the lock has no update under way; the device is the configuration's from its creation
on; an update that began was begun in this session; and a swap that has reached the
device, but not yet the record, is the only time the two differ.  The dead-man and a crash
may still come at any step; what they leave is no device, which satisfies every clause.

Of the server, `HelperSocket_proofs` proves, for any set of connections and any two windows,
from `ServerAssumption` and `WindowAssumption`:

| theorem | statement |
|---|---|
| `Invariance` | `Spec => []IInv` |
| `TypeCorrect` | `Spec => []TypeOK` |
| `ServedTheorem` | `Spec => []OwnerServed` |
| `OwnedTheorem` | `Spec => []UpIsOwned` |

`UpIsOwned` speaks of the moments when every handler is between requests, so it says
nothing about the steps that lead there.  `Attended` does: a tunnel that is up has a
connection on its way to own it (or to report its own end, which fails it), or an owner
that is not about to give it up.  The last condition is the one that is easy to miss: an
owner whose Down has returned is still the owner for a moment, and a tunnel that another
connection brought up meanwhile must not be left with it alone.  It is not, because that
other connection then still has its claim to make.  `MoveStep` states when a move of one
handler keeps the invariant, and most actions are an instance of it.

Of the connection it proves, for any calls and sockets, from `ConnectionAssumption`:

| theorem | statement |
|---|---|
| `ConnectionInvariance` | `ConnectionSpec => []ConnectionInv` |
| `ConnectionTyping` | `ConnectionSpec => []ConnectionTypeOK` |
| `OwnReplyTheorem` | `ConnectionSpec => []OwnReply` |
| `StrandedTheorem` | `ConnectionSpec => []NobodyStranded` |
| `ChannelRefinement` | `ConnectionSpec => ImplementsChannel` |

Replies carry no number, so a call gets its own because two queues stay in step.
`InOrder` says it: on the socket in use the calls that wait are those the helper owes,
first the replies that lie unread and then the requests it has not answered, in this
order; on any other socket nobody waits.  It survives because whatever could put the
queues out of step (a deadline, a frame that does not decode, an end) gives up the whole
socket.  `WaitsOnce` says that a call is in a queue once, on the socket it was sent on,
`OneSocket` that an attempt and a usable socket never exist together, and `Reported` that
the end of a socket is reported once and never when it was asked for.  The lemmas
`Queue...` are the facts on sequences this needs: a reply sent moves a call from one end
of the debt to the other, a reply read takes it from both queues.

Of the lifecycle, `MainProcess_proofs` proves, for any set of users, any number of epochs and a lane
of any length, from `LifecycleAssumption`:

| theorem | statement |
|---|---|
| `Invariance` | `Spec => []IInv` |
| `WatchedTheorem` | `Spec => []UpIsWatched` |
| `HomeTheorem` | `Spec => []EffectsStayHome` |
| `UnlabelledTheorem` | `Spec => []UnlabelledIsImported` |

What keeps a tunnel watched is a statement about everything that waits.  `Known`: no
ticket, monitor or label has a lease of the future.  `Turning`: while a flow brings a
tunnel up, all that waits or may still call is of the past (`Past`), because `quiesced`
moved the epoch and only a tunnel that is up can queue a label of the present.  `Up`: once
it is up, no waiting ticket of the current lease ends the session, because whatever
queues one takes the tunnel out of "up" in the same step, and its monitors, if they were
built, are not stopped before it ends.  The order of the code is what the proof rests on: the
epoch moves after the old tunnel is confirmed down and before the label of the new one
exists.  `EndsDown`, `EndsAsItWas`, `Goes` and `Queues` state when a step of each shape
keeps the invariant, and every action is an instance of one, except the bring-ups, whose
lemmas (`ConnectUpStep`, `ImportedUpStep`) carry the argument.

Of the controller it proves, for any sockets and any number of generations, from
`ControllerAssumption`:

| theorem | statement |
|---|---|
| `ControllerInvariance` | `ControllerSpec => []ControllerInv` |
| `ControllerTyping` | `ControllerSpec => []ControllerTypeOK` |
| `SocketTheorem` | `ControllerSpec => []UpHasItsSocket` |
| `FinalTheorem` | `ControllerSpec => []FailedIsFinal` |

The wire's part is what `RequestChannel` gives: one open socket (`OneOpen`), a call that was
sent is bound to it (`Bound`), and the continuation of an answer runs before anything
else settles, its socket still open (`OneAnswer`).  The last is what a bring-up rests on
when it commits: no end of the socket can have been reported to somebody else in between.
The controller's part is what its fields may be at each await.  `Sound`: ownership has a
generation, one whose failure was published is not "up", and none was ever taken
back.  `Fits`: a bring-up whose request is on the wire already owes its cleanup, and if the
other caller's failure published this generation meanwhile, its own request has failed as
well, so the continuation that would set "up" does not run.  The awaits before the
request own nothing yet.

`Enrollment_proofs` proves, for any users and keys and any number of faults and logins,
from `EnrollmentAssumption`:

| theorem | statement |
|---|---|
| `Invariance` | `Spec => []IInv` |
| `TypeCorrect` | `Spec => []TypeOK` |
| `IdentityTheorem` | `Spec => []OneIdentity` |
| `ArmedTheorem` | `Spec => []ArmedIsRecorded` |
| `ForeignTheorem` | `Spec => ForeignUntouched` |
| `ForgetTheorem` | `Spec => OnlyRemovalForgets` |
| `Refinement` | `Spec => ImplementsIdentity` |

`IInv` adds to the types and to `OneIdentity`:

- `Stage`: what the two files hold while an operation stands at each await, and whose they
  are.  Operations queue for the files, so nothing else moves them meanwhile; what was
  checked before the await still holds after it;
- `Recorded`: the key the helper or a monitor runs with is the one on record;
- `Known`: the server knows a key only from this disk, and the anchor's key only in its
  owner's name, late requests included.  Abandoning an anchor asks the roster for "mine
  and admitted" (`OursIn`), the promise asks for "admitted".  `Known` makes the two one,
  so a machine never gives up a key that the server still admits.

The action properties and the refinement need what a step may do to the identity
(`Steady`: all actions but `Prepare`, `Revoke`, `Recheck` and `Verify` keep it, and the
lemmas `...Effect` say what those four do) and to the server's rows (`RowEffect`: one
row, along its life cycle, and not a stranger's).  A change of a row is the promise's Admit or
Retire, `Prepare` its Mint, `Recheck` and `Verify` its Forget, `Revoke` whichever of
Remove, Retire and Forget its answer makes it; every other step stutters.

`RelayLease_proofs` proves, for any deadlines, from `RelayAssumption`:

| theorem | statement |
|---|---|
| `Invariance` | `Spec => []IInv` |
| `StopsTheorem` | `Spec => []RevokedStops` |
| `PatienceTheorem` | `Spec => []PatienceIsLeased` |
| `OwnedTheorem` | `Spec => []CarrierIsOwned` |
| `TypeCorrect` | `Spec => []TypeOK` |

`Recent` says how long ago the session may have been revoked at each step of the client:
an answer that grants was given before it, so no longer than the request took.  `Bounded`
turns this into what the lease may have left, for a carrier in use and for one that a
bring-up under way may still bind; a negotiation whose client has gone may be
authorized late, but nobody binds it.  A renewal is the delicate case: the client may give
it up and the helper serve it later, for a whole new lease.  It is served before the old one
runs out or not at all, and then the handler finds its socket closed before any time
passes (the second disjunct of `Bounded`), so the new lease is never used, however
long it is.  `Patient` counts the client's patience from when it asked.  `Asks` and `Fresh`
tie the request a connection serves to the step of the client that waits for it.
`TypeOK` says besides that nobody waits beyond its deadline, which needs `Within`: time
stops for whatever is due, and each turn of the client starts a wait of its own.

`RoutedConfig_proofs` proves, for any ranges, domains, configurations and number of
sessions, and whatever subset of deletions and additions fails in each sweep, from
`RoutedAssumption`:

| theorem | statement |
|---|---|
| `Invariance` | `Spec => [](IInv /\ Awaiting)` |
| `BeliefTheorem` | `Spec => []BeliefIsReal` |
| `HeldTheorem` | `Spec => []RangesHeldUnlessTorn` |
| `UndisturbedTheorem` | `Spec => []UndisturbedLeavesNone` |
| `TypeCorrect` | `Spec => []TypeOK` |

The heart is `ReconciledReal`: one sweep, whatever fails in it, keeps the belief within
the kernel's routes and charges every other route to a failed deletion; `AppliedWhole`
says that a sweep without a failed addition ends with exactly what was wanted.
`RangesHeldUnlessTorn` relates the monitor to the helper and is inductive only with
`Awaiting`: an answer to set_resolvers belongs to the poll that asked for it, so it
cannot revive a monitor that was stopped.  An action that ends a session is an instance
of `EndingStep` (afterwards nobody polls), one that only moves the monitor of `OnwardStep`.

`UndisturbedLeavesNone` speaks of the end, when nothing is under way; its invariant
(`Undisturbed`) says of every moment who still stands behind what is left.  A job `Clears`
the host when it adds nothing and everything of ours is on its list, or will be.
`Settled`: there is no entry, or the dead-man's sweep is under way and clears.  `Noted`: a
client that owns a tunnel and has no latch set left nothing behind, so its tunnel_down may
skip the sweep.  `Ordered`: what the call in the lane is for, and what its answer lets the
client conclude.  `Recalled` carries the race on Windows: when the helper is down, the host
is settled and nobody adds, or the call will look at the device again, see that its
session has gone, and sweep (`Resweeps`).  On macOS there is no such second look, and a call
that meets the dead-man is one of the three named disturbances.  Each step of a job has a
lemma `...Effect` that says field by field what it does to the entries and the list.

`HostGuard_proofs` proves, for any network services and both platforms, from
`GuardAssumption`:

| theorem | statement |
|---|---|
| `Invariance` | `Spec => []IInv` |
| `FreeTheorem` | `Spec => []OkMeansFree` |
| `ResolverTheorem` | `Spec => []ResolverKept` |
| `TightTheorem` | `Spec => []TightOrOpen` |
| `TypeCorrect` | `Spec => []TypeOK` |

On Windows a teardown skips the removal when the process did not arm the filters itself,
and yet may say "ok": `Windows` has the reason, a bring-up that came past its cleaning
unarmed found the host free, or the cleaning's failure was ignored.  On macOS `Mac` follows the
resolvers: a backup, once there, holds the user's own settings, because a full tunnel
is brought up from "down", where every service has its own.  The code loses them in three
places without a word to anybody, and `Losses` excuses exactly these: a failed full tunnel
is brought up again (`reentered`), a backup is not written, or not read right, before the
services are set (`unsaved`), and a restore passes over a service (`unset`).  `RestoredEffect`
says what a restore puts back; section 4 has the comments that promise more.

`TightTheorem` has two halves.  `Held` is what is in force from the step that installs it
until the tunnel is gone: on WFP all groups of filters; on pf the anchor with the rules of
this configuration and, unless `pfctl -E` failed (`unenabled`), an enable reference, which
nothing gives back while the tunnel is up.  A bring-up goes through the steps in `Order`, and
what may have spoiled it is in `blamed`.  The other half computes with packets, and not by
enumeration: on pf the lemmas say which rule a packet meets last before a quick one, on WFP
the filters of which weights it finds, per layer, and which weight decides.  That a packet
passes then becomes a formula on its fields, which is compared with the one the property
states.  `TypeOK` says besides that a reference in memory goes with the process and that what
is on file is what a running process knows.  The converse does not hold: a reference whose
file was not written is known to the process only, and then to nobody (`leaked`).

`BeamShare_proofs` proves, for any caps, any operations at once and any instances and versions,
from `PoolAssumption` and `BeamAssumption`:

| theorem | statement |
|---|---|
| `Invariance` | the pools have their shape, stay within their caps and lose no reservation |
| `BoundedTheorem` | `Spec => []PoolsBounded` |
| `TypeCorrect` | `Spec => []TypeOK` |
| `OrphanTheorem` | `Spec => []NoOrphan` |

A pool is a value of `BeamPool`: a lemma for each of its operators says that it keeps
shape and caps, so the invariance proof needs only which operator each action applies.  That
no reservation is lost (what waits for the next visitor never runs out) is what every event
restores by calling fill() where the code does.  For the runtime, every step does one of two
things (`EveryStep`): instances only wither (nothing that was withdrawn comes back, nothing
starts, and an entry leaves the map only with its instance withdrawn), or one operation
starts an instance and lists it.  `TypeOK` says that what is listed was started and not
withdrawn.

`NoOrphan` is the converse, as far as it is true: an instance that lives and is not listed
was started while another operation's resume was on its way (`exposed`).  Its invariant,
`Overtaken`, adds that as long as a resume is on its way the map is empty or lists an exposed
instance: the resume closed what was listed when it began, a step that withers lists nothing
new, and whoever starts meanwhile exposes what it starts.  So the entry that a resume's start
overwrites is an exposed one; a retry's start finds the map empty in the same step.

Only model-checked: every liveness property (`NeverStranded`, `Settles`, `Corrected`,
`FailureIsReal`, `Resumes`, `Withdrawn`), since liveness under fairness and ENABLED are out of
this prover's reach; the bound on epochs in the lifecycle's `TypeOK`, which adds up what the
queued tickets may still spend, an induction over the queue; and that the expectations of
section 4 fail.  No module uses RECURSIVE.

## 6. What is not modelled

- The web user interface (`apps/web`) is more than half of the implementation's lines:
  pages, components and charts that show what the server says.  They hold no protocol;
  their calls to the main process are the users' requests of `ManagedLifecycle` and
  `Enrollment`.  The map covers no line of it, about two fifths of the helper's Go code
  and a little less than a third of the main process.
- The posture overlay and notifications; tray, window and menu: presentation of
  published states.
- Organizations (one is assumed), server switching and records of before `orgId`.
- Validation of responses, formats, certificates and addresses: data.
- Back-off, which only lengthens a delay.
- Login's browser exchange: a linear sequence whose one effect, the stored
  credential, is an action of `ManagedLifecycle`.
- Updater and installer, the uninstall watchdog: they drive the operating system; a
  failing installation is a failing step of `ManagedLifecycle`.
- The endpoint pin's own route, addresses of the adapter, candidates of a relay, the
  creation of a beam share and the bytes of its channels.

`PROJECT.json` gives the note for each component.

## 7. Order of the work, and what would come next

The helper came first, since it holds the host's protection (`Supervisor`,
`HelperSupervisor`, `HelperServer`), then the main process that decides for whom
(`ManagedLifecycle`, `Enrollment`), then what lies between them (`HelperConnection`,
`TunnelController`, `RelayLease`, `RoutedConfig`), what the helper leaves on the host
(`HostGuard`), and beam.  All safety
properties are proved.  What would come next is what the modules assume of one another:
that the helper `TunnelController` talks to, whose calls are single steps, is a
refinement of `HelperServer` over the channel, and that the jobs `RoutedConfig` runs are
those calls too.

## 8. Checking

    tlc -workers 2 -config MCHelperSupervisor_darwin.cfg MCHelperSupervisor
    tlapm HelperSupervisor_proofs.tla
    tlapm HelperSocket_proofs.tla
    tlapm MainProcess_proofs.tla
    tlapm Enrollment_proofs.tla
    tlapm RelayLease_proofs.tla
    tlapm RoutedConfig_proofs.tla
    tlapm HostGuard_proofs.tla
    tlapm BeamShare_proofs.tla

A run's name, module and configuration are in `PROJECT.json`, as are, for each
property, a mutant of a mapped definition that the run must refute.  The faulty
variants stand beside the definitions they replace and are used by nothing else.
