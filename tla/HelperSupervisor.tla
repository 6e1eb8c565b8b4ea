--------------------------- MODULE HelperSupervisor ---------------------------
(***************************************************************************)
(* The root helper's tunnel supervisor (apps/helper/state.go) over the     *)
(* kernel state its two platform backends arrange: a kernel-resident       *)
(* kill-switch (a pf anchor, or persistent WFP filters), a userspace       *)
(* WireGuard device, and the routes that point at it.                      *)
(*                                                                         *)
(* Abstractions.  A configuration is its tunnel mode and its gateway key.  *)
(* The supervisor's mutex is op: a step of a long backend call holds it.   *)
(* The backend's own mutex is held for the whole of a backend call made    *)
(* under the supervisor's mutex, so a live update, which takes only the    *)
(* backend's, waits for op to be free.  Time is counted in ticks.  The     *)
(* pointer a caller keeps to lastCfg is the flag fresh: TRUE exactly while *)
(* that pointer still is lastCfg.  DNS and resolver files are left out.    *)
(***************************************************************************)
EXTENDS Naturals

CONSTANTS
  Callers,        \* the goroutines that call the supervisor, one per connection
  Peers,          \* gateway public keys
  NoPeer,         \* no WireGuard device
  NoCaller,       \* the dead-man goroutine, which answers to nobody
  NoConfig,       \* the nil *TunnelConfig
  Platform,       \* "darwin" or "windows"
  DeadManCfg,     \* deadMan, in ticks
  OrphanCfg,      \* deadManOrphan before it is clamped, in ticks
  ReleaseFaults   \* whether removing the kill-switch may fail

Config == [full : BOOLEAN, peer : Peers]

ASSUME SupervisorAssumption ==
  /\ NoCaller \notin Callers
  /\ NoPeer \notin Peers
  /\ NoConfig \notin Config
  /\ Platform \in {"darwin", "windows"}
  /\ DeadManCfg \in Nat
  /\ OrphanCfg \in Nat
  /\ ReleaseFaults \in BOOLEAN

VARIABLES
  \* the helper process
  alive,     \* the process runs
  state,     \* Supervisor.state
  lastCfg,   \* Supervisor.lastCfg
  orphaned,  \* Supervisor.orphaned
  age,       \* ticks since lastBeat, saturating at MaxAge
  op,        \* who holds s.mu, and how far its backend call has come
  thread,    \* per caller: where it stands in a live update, outside s.mu
  ret,       \* per caller: what its last call returned
  bFull,     \* the backend's fullTunnel
  bArmed,    \* the Windows backend's armed flag
  \* the kernel
  block,     \* the kill-switch is in force
  dev,       \* the gateway key of the live WireGuard device
  routed,    \* the tunnel's routes are installed
  lag,       \* routes were moved while the device kept another peer's ranges
  \* history, read by no action
  shield,    \* a full tunnel came up and no sanctioned release followed
  held,      \* ticks since the tunnel came up or was lost, saturating
  death,     \* the owner's socket was seen closed since then
  wanted     \* the last bring-up the helper took on was a full tunnel

process == <<alive, state, lastCfg, orphaned, age, op, thread, ret, bFull, bArmed>>
kernel  == <<block, dev, routed, lag>>
history == <<shield, held, death, wanted>>
vars    == <<process, kernel, history>>

DeadManOrphan == IF OrphanCfg > DeadManCfg THEN DeadManCfg ELSE OrphanCfg
MaxAge        == DeadManCfg + 1
Free          == [at |-> "free", by |-> NoCaller, cfg |-> NoConfig]
Idle          == [at |-> "idle", peer |-> NoPeer, fresh |-> FALSE]

UpSteps     == {"up_check", "up_clean", "up_arm", "up_device", "up_routes", "up_finish"}
DownSteps   == {"down_device", "down_block"}
DeadSteps   == {"dead_device", "dead_block"}
LiveUpdates == {"allow", "rehome", "swapped"}
Codes       == {"none", "ok", "error", "up_failed", "down_ok", "down_failed",
                "up", "down", "failed"}

Lock   == [at : {"free"} \cup UpSteps \cup DownSteps \cup DeadSteps,
           by : Callers \cup {NoCaller}, cfg : Config \cup {NoConfig}]
Thread == [at : {"idle"} \cup LiveUpdates, peer : Peers \cup {NoPeer}, fresh : BOOLEAN]

TypeOK ==
  /\ alive \in BOOLEAN
  /\ state \in {"down", "up", "failed"}
  /\ lastCfg \in Config \cup {NoConfig}
  /\ orphaned \in BOOLEAN
  /\ age \in 0..MaxAge
  /\ op \in Lock
  /\ thread \in [Callers -> Thread]
  /\ ret \in [Callers -> Codes]
  /\ bFull \in BOOLEAN /\ bArmed \in BOOLEAN
  /\ block \in BOOLEAN /\ routed \in BOOLEAN /\ lag \in BOOLEAN
  /\ dev \in Peers \cup {NoPeer}
  /\ shield \in BOOLEAN /\ held \in 0..MaxAge /\ death \in BOOLEAN
  /\ wanted \in BOOLEAN

\* NewSupervisor: no beat was ever recorded, so the zero lastBeat is long past.
Init ==
  /\ alive = TRUE /\ state = "down" /\ lastCfg = NoConfig /\ orphaned = FALSE
  /\ age = MaxAge /\ op = Free
  /\ thread = [t \in Callers |-> Idle] /\ ret = [t \in Callers |-> "none"]
  /\ bFull = FALSE /\ bArmed = FALSE
  /\ block = FALSE /\ dev = NoPeer /\ routed = FALSE /\ lag = FALSE
  /\ shield = FALSE /\ held = MaxAge /\ death = FALSE /\ wanted = FALSE

-----------------------------------------------------------------------------
(* Parts the operations share.                                             *)

Locked(t) == alive /\ op = Free /\ thread[t] = Idle     \* t takes s.mu
Step(s)   == alive /\ op.at = s                         \* the holder of s.mu is at s
Goto(s)   == op' = [op EXCEPT !.at = s]
Return(t, code) == ret' = [ret EXCEPT ![t] = code]

\* lastCfg is assigned: no pointer a caller kept is lastCfg any longer.
Reassign(c) ==
  /\ lastCfg' = c
  /\ thread' = [t \in Callers |-> [thread[t] EXCEPT !.fresh = FALSE]]

Beat == age' = 0
Entered(dead) == held' = 0 /\ death' = dead             \* history only

-----------------------------------------------------------------------------
(* Up.  The backend cleans what a prior session left, arms, builds the     *)
(* device, and only then moves routes; the supervisor holds s.mu all along.*)

\* An envelope or configuration the helper refuses before it touches anything.
UpInvalid(t) ==
  /\ Locked(t)
  /\ Return(t, "error")
  /\ UNCHANGED <<alive, state, lastCfg, orphaned, age, op, thread, bFull, bArmed, kernel, history>>

UpEnter(t, c) ==
  /\ Locked(t)
  /\ IF state = "up"
     THEN Return(t, "error") /\ UNCHANGED <<op, wanted>>  \* already_up
     ELSE /\ Return(t, "none") /\ wanted' = c.full
          /\ op' = [at |-> "up_check", by |-> t, cfg |-> c]
  /\ UNCHANGED <<alive, state, lastCfg, orphaned, age, thread, bFull, bArmed, kernel,
                 shield, held, death>>

\* The owner is present, and the dead-man counts from now.
StaleBeat   == orphaned' = FALSE /\ UNCHANGED age   \* faulty variant: no beat
StillOrphan == UNCHANGED orphaned /\ Beat           \* faulty variant: the last owner's death stays
OwnerPresent == orphaned' = FALSE /\ Beat

\* What a failed bring-up leaves of the device: every error path closes it.
KeepDevice == UNCHANGED <<dev, routed>>   \* faulty variant: a failed Up leaves it
DropDevice == dev' = NoPeer /\ routed' = FALSE

\* Any backend error but a clean pre-arm rejection: FailClosed, then failed.
LateFailure ==
  /\ state' = "failed" /\ OwnerPresent /\ Entered(FALSE)
  /\ Return(op.by, "up_failed") /\ op' = Free
  /\ DropDevice
  /\ UNCHANGED <<alive, lastCfg, thread, bFull, lag, wanted>>

\* A rejection the backend marks as made before anything was armed.
CleanRejection ==
  /\ Return(op.by, "error") /\ op' = Free
  /\ UNCHANGED <<alive, state, lastCfg, orphaned, age, thread, bFull, bArmed, kernel, history>>

\* Endpoint resolution, the relay's preconditions, the full-tunnel DNS check.
UpCheck ==
  /\ Step("up_check")
  /\ \/ /\ Goto("up_clean")
        /\ bFull' = IF Platform = "darwin" THEN op.cfg.full ELSE bFull
        /\ UNCHANGED <<alive, state, lastCfg, orphaned, age, thread, ret, bArmed, kernel, history>>
     \/ /\ LateFailure
        /\ UNCHANGED <<bArmed, block, shield>>
     \/ /\ Platform = "windows" /\ op.cfg.full
        /\ CleanRejection                               \* full_tunnel_requires_dns

\* Whether this bring-up starts by removing a block a prior session left:
\* always on Windows, for a split tunnel on macOS.
CleansAlways == TRUE        \* faulty variant: a full tunnel cleans too
CleansFirst == Platform = "windows" \/ ~op.cfg.full

UpClean ==
  /\ Step("up_clean")
  /\ bArmed' = FALSE
  /\ IF CleansFirst
     THEN /\ block' \in IF ReleaseFaults THEN {FALSE, block} ELSE {FALSE}
          /\ shield' = FALSE
     ELSE UNCHANGED <<block, shield>>
  /\ \/ /\ Goto("up_arm")
        /\ UNCHANGED <<alive, state, lastCfg, orphaned, age, thread, ret, bFull, dev, routed, lag,
                       held, death, wanted>>
     \/ Platform = "windows" /\ LateFailure            \* no adapter

ArmedLate == block          \* faulty variant: arming left for later
Armed == block \/ op.cfg.full

\* Only a full tunnel arms.  On Windows the filters go in as one transaction
\* (after removing what it finds), and its failure is a clean rejection.
UpArm ==
  /\ Step("up_arm")
  /\ \/ /\ block' = Armed
        /\ bArmed' = (Platform = "windows" /\ op.cfg.full)
        /\ Goto("up_device")
        /\ UNCHANGED <<alive, state, lastCfg, orphaned, age, thread, ret, bFull, dev, routed, lag, history>>
     \/ /\ op.cfg.full /\ Platform = "darwin"
        /\ LateFailure
        /\ UNCHANGED <<bArmed, block, shield>>
     \/ /\ op.cfg.full /\ Platform = "windows"
        /\ CleanRejection                               \* wfp_arm_failed

\* Create and configure the device (on macOS the full tunnel's anchor is then
\* reloaded to let the tunnel out).
UpDevice ==
  /\ Step("up_device")
  /\ \/ /\ dev' = op.cfg.peer /\ lag' = FALSE
        /\ Goto("up_routes")
        /\ UNCHANGED <<alive, state, lastCfg, orphaned, age, thread, ret, bFull, bArmed, block, routed, history>>
     \/ /\ LateFailure
        /\ UNCHANGED <<bArmed, block, shield>>

UpRoutes ==
  /\ Step("up_routes")
  /\ \/ /\ routed' = TRUE
        /\ Goto("up_finish")
        /\ UNCHANGED <<alive, state, lastCfg, orphaned, age, thread, ret, bFull, bArmed, block, dev, lag, history>>
     \/ /\ LateFailure
        /\ UNCHANGED <<bArmed, block, shield>>

\* The endpoint pin and the tunnel's DNS, or an error that closes the device.
UpFinish ==
  /\ Step("up_finish")
  /\ \/ /\ state' = "up" /\ Reassign(op.cfg) /\ OwnerPresent /\ Entered(FALSE)
        /\ bFull' = op.cfg.full /\ shield' = op.cfg.full
        /\ Return(op.by, "ok") /\ op' = Free
        /\ UNCHANGED <<alive, bArmed, kernel, wanted>>
     \/ /\ LateFailure
        /\ UNCHANGED <<bArmed, block, shield>>

-----------------------------------------------------------------------------
(* Down and the dead-man: the device and its routes go first, the block    *)
(* last; whether or not that last removal failed, the state is then down.  *)

DownEnter(t) ==
  /\ Locked(t)
  /\ IF state = "down"
     THEN Return(t, "down_ok") /\ UNCHANGED <<op, shield>>
     ELSE /\ Return(t, "none") /\ shield' = FALSE
          /\ op' = [at |-> "down_device", by |-> t, cfg |-> NoConfig]
  /\ UNCHANGED <<alive, state, lastCfg, orphaned, age, thread, bFull, bArmed, kernel,
                 held, death, wanted>>

Window == IF orphaned THEN DeadManOrphan ELSE DeadManCfg

CheckDeadMan ==
  /\ alive /\ op = Free
  /\ state \in {"up", "failed"}
  /\ age > Window
  /\ op' = [at |-> "dead_device", by |-> NoCaller, cfg |-> NoConfig]
  /\ shield' = FALSE
  /\ UNCHANGED <<alive, state, lastCfg, orphaned, age, thread, ret, bFull, bArmed, kernel,
                 held, death, wanted>>

CloseDevice ==
  /\ \/ Step("down_device") /\ Goto("down_block")
     \/ Step("dead_device") /\ Goto("dead_block")
  /\ dev' = NoPeer /\ routed' = FALSE /\ lag' = FALSE /\ bFull' = FALSE
  /\ UNCHANGED <<alive, state, lastCfg, orphaned, age, thread, ret, bArmed, block, history>>

\* macOS always flushes its anchor; Windows cleans only what it believes armed.
Removes == Platform = "darwin" \/ bArmed

ReleaseBlock ==
  /\ Step("down_block") \/ Step("dead_block")
  /\ \/ /\ block' = (block /\ ~Removes) /\ bArmed' = FALSE
        /\ IF op.by = NoCaller THEN UNCHANGED ret ELSE Return(op.by, "down_ok")
     \/ /\ ReleaseFaults /\ Removes
        /\ UNCHANGED <<block, bArmed>>
        /\ IF op.by = NoCaller THEN UNCHANGED ret ELSE Return(op.by, "down_failed")
  /\ state' = "down" /\ Reassign(NoConfig) /\ orphaned' = FALSE /\ op' = Free
  /\ UNCHANGED <<alive, age, bFull, dev, routed, lag, history>>

-----------------------------------------------------------------------------
(* Owner loss, the heartbeat, the clock, and the death of the process.     *)

OnPeerLost(t, definitive) ==
  /\ Locked(t)
  /\ IF state = "down"
     THEN UNCHANGED <<state, lastCfg, thread, orphaned, age, dev, routed, lag, held, death>>
     ELSE /\ state' = "failed"
          /\ IF state = "up"                            \* be.FailClosed
             THEN dev' = NoPeer /\ routed' = FALSE /\ lag' = FALSE
             ELSE UNCHANGED <<dev, routed, lag>>
          /\ orphaned' = (orphaned \/ definitive)
          /\ Beat /\ Entered(death \/ definitive)
          /\ Reassign(NoConfig)
  /\ UNCHANGED <<alive, op, ret, bFull, bArmed, block, shield, wanted>>

Status(t) ==
  /\ Locked(t)
  /\ IF state = "up" THEN Beat ELSE UNCHANGED age
  /\ Return(t, state)
  /\ UNCHANGED <<alive, state, lastCfg, orphaned, op, thread, bFull, bArmed, kernel, history>>

Later(n) == IF n < MaxAge THEN n + 1 ELSE n

Tick ==
  /\ age' = Later(age) /\ held' = Later(held)
  /\ UNCHANGED <<alive, state, lastCfg, orphaned, op, thread, ret, bFull, bArmed, kernel,
                 shield, death, wanted>>

\* The device and its routes go with the process; the block does not.
\* Faulty variant: the block lives and dies with the process.
AfterDeathOpen == dev' = NoPeer /\ routed' = FALSE /\ lag' = FALSE /\ block' = FALSE
AfterDeath == dev' = NoPeer /\ routed' = FALSE /\ lag' = FALSE /\ block' = block

\* kill -9, at any step of any call.
Crash ==
  /\ alive
  /\ alive' = FALSE /\ state' = "down" /\ lastCfg' = NoConfig /\ orphaned' = FALSE
  /\ age' = MaxAge /\ op' = Free
  /\ thread' = [t \in Callers |-> Idle] /\ ret' = [t \in Callers |-> "none"]
  /\ bFull' = FALSE /\ bArmed' = FALSE
  /\ AfterDeath
  /\ UNCHANGED history

\* The restarted helper heals itself before it serves.
SelfHeal ==
  /\ ~alive
  /\ alive' = TRUE /\ state' = "down" /\ shield' = FALSE
  /\ block' \in IF ReleaseFaults THEN {FALSE, block} ELSE {FALSE}
  /\ UNCHANGED <<lastCfg, orphaned, age, op, thread, ret, bFull, bArmed, dev, routed, lag,
                 held, death, wanted>>

-----------------------------------------------------------------------------
(* Live updates: state is read under s.mu, the backend is called outside.  *)

LiveRead(t, next, p) ==
  /\ Locked(t)
  /\ state = "up" /\ lastCfg # NoConfig
  /\ Return(t, "none")
  /\ thread' = [thread EXCEPT ![t] = [at |-> next, peer |-> p, fresh |-> TRUE]]
  /\ UNCHANGED <<alive, state, lastCfg, orphaned, age, op, bFull, bArmed, kernel, history>>

\* not_up, or the full tunnel whose ranges the default route already covers.
LiveRefused(t) ==
  /\ Locked(t)
  /\ \/ (state # "up" \/ lastCfg = NoConfig) /\ Return(t, "error")
     \/ state = "up" /\ lastCfg # NoConfig /\ lastCfg.full /\ Return(t, "ok")
  /\ UNCHANGED <<alive, state, lastCfg, orphaned, age, op, thread, bFull, bArmed, kernel, history>>

AllowedIPsRead(t) ==
  lastCfg # NoConfig /\ ~lastCfg.full /\ LiveRead(t, "allow", lastCfg.peer)

LiveApply(t, from) == alive /\ op = Free /\ thread[t].at = from

\* The ranges go to the captured peer, which WireGuard ignores if it has no such
\* peer (update_only), and the operating system's routes move in any case.
AllowedIPsApply(t) ==
  /\ LiveApply(t, "allow")
  /\ IF dev = NoPeer
     THEN Return(t, "error") /\ UNCHANGED lag
     ELSE Return(t, "ok") /\ lag' = (thread[t].peer # dev)
  /\ thread' = [thread EXCEPT ![t] = Idle]
  /\ UNCHANGED <<alive, state, lastCfg, orphaned, age, op, bFull, bArmed, block, dev, routed, history>>

GatewayPeerRead(t, p) == LiveRead(t, "rehome", p)

\* The endpoint is resolved before any lock is taken, so this may come late.
GatewayPeerApply(t) ==
  /\ LiveApply(t, "rehome")
  /\ \/ /\ Return(t, "error")                           \* no device, refused, or failed
        /\ thread' = [thread EXCEPT ![t] = Idle]
        /\ UNCHANGED <<dev, lag>>
     \/ /\ dev # NoPeer /\ ~(bFull /\ Platform = "windows")
        /\ dev' = thread[t].peer /\ lag' = FALSE         \* it carries the latest ranges
        /\ \/ thread' = [thread EXCEPT ![t].at = "swapped"] /\ UNCHANGED ret
           \/ /\ bFull                                  \* the anchor or the pin failed
              /\ Return(t, "error") /\ thread' = [thread EXCEPT ![t] = Idle]
  /\ UNCHANGED <<alive, state, lastCfg, orphaned, age, op, bFull, bArmed, block, routed, history>>

\* The session's peer advances if lastCfg still is the session the swap began in.
NotRehomed(t) == lastCfg     \* faulty variant: the record keeps the old peer
Rehomed(t) ==
  IF state = "up" /\ thread[t].fresh
  THEN [lastCfg EXCEPT !.peer = thread[t].peer] ELSE lastCfg

GatewayPeerCommit(t) ==
  /\ LiveApply(t, "swapped")
  /\ lastCfg' = Rehomed(t)
  /\ Return(t, "ok")
  /\ thread' = [thread EXCEPT ![t] = Idle]
  /\ UNCHANGED <<alive, state, orphaned, age, op, bFull, bArmed, kernel, history>>

-----------------------------------------------------------------------------

Call(t) ==
  \/ UpInvalid(t)
  \/ \E c \in Config : UpEnter(t, c)
  \/ DownEnter(t)
  \/ Status(t)
  \/ \E definitive \in BOOLEAN : OnPeerLost(t, definitive)
  \/ AllowedIPsRead(t) \/ LiveRefused(t)
  \/ \E p \in Peers : GatewayPeerRead(t, p)

Inside == UpCheck \/ UpClean \/ UpArm \/ UpDevice \/ UpRoutes \/ UpFinish
          \/ CloseDevice \/ ReleaseBlock

Update(t) == AllowedIPsApply(t) \/ GatewayPeerApply(t) \/ GatewayPeerCommit(t)

Next ==
  \/ \E t \in Callers : Call(t) \/ Update(t)
  \/ Inside \/ CheckDeadMan \/ Tick \/ Crash \/ SelfHeal

Spec == Init /\ [][Next]_vars

-----------------------------------------------------------------------------
(* Properties.                                                             *)

\* A full tunnel that came up stays covered by the kill-switch through owner
\* loss, failed reconnects, live updates and the death of the helper, until a
\* Down, the dead-man, the startup self-heal or a bring-up that starts by
\* cleaning releases it (state.go, the kill-switch invariant of Backend).
ShieldHolds == shield => block

FullMode == IF op.at \in UpSteps THEN op.cfg.full ELSE bFull

\* At every step of a bring-up, a teardown or a crash: the routes of a full
\* tunnel never exist without the block (armed before the first route moves,
\* dropped after the last one is gone).
ArmedBeforeRouted == routed /\ FullMode => block

\* Whenever nobody holds the supervisor's lock, the state it reports is the one
\* the kernel is in: a device and its routes exist exactly when it says up.
StateIsReal ==
  op = Free => /\ (state = "up") <=> (dev # NoPeer)
               /\ (state = "up") <=> routed
               /\ (state = "up") => lastCfg # NoConfig /\ lastCfg.full = bFull

\* The dead-man never releases a tunnel before the short window has passed since
\* it came up or was lost, and not before the long one unless the owner's socket
\* was seen closed since (a clock left over from a prior session must not count).
PatientRelease ==
  op.at = "dead_device" => /\ held > DeadManOrphan
                           /\ death \/ held > DeadManCfg

\* Reconnecting a full tunnel over a block that is in force never opens it.
FullReconnectKeepsBlock ==
  [][op.at \in UpSteps /\ op.cfg.full /\ block => block']_vars

\* A re-home is whole: the peer a range update is aimed at is the device's (otherwise the
\* operating system's routes move while WireGuard keeps other ranges), and once no swap is
\* under way a split tunnel's session record names that peer.
RoutesFollowPeer == ~lag
SessionNamesPeer ==
  (op = Free /\ state = "up" /\ ~lastCfg.full /\ \A t \in Callers : thread[t] = Idle)
     => lastCfg.peer = dev
RehomeIsWhole == RoutesFollowPeer /\ SessionNamesPeer

\* Whatever the kernel sees in between, each call of the supervisor is one step of
\* what it promises its callers (the module Supervisor), taken when it commits.
Promise == INSTANCE Supervisor
ImplementsSupervisor == Promise!SupervisorSpec

\* "failed" means that the kill-switch is installed, when a full tunnel was asked.
FailedMeansBlocked == state = "failed" /\ op = Free /\ wanted => block

\* A Down that is tried again because the first one failed, and that now reports
\* success, has removed the block the first one left.
DownRetryReleases ==
  [][\A t \in Callers : ret[t] = "down_failed" /\ ret'[t] = "down_ok" => ~block']_vars

=============================================================================
