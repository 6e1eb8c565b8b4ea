----------------------------- MODULE Supervisor -----------------------------
(***************************************************************************)
(* What the root helper's supervisor (apps/helper/state.go) promises to    *)
(* the connections that call it: three states, each call one step, and a   *)
(* dead-man that releases an unattended tunnel, sooner when its owner is   *)
(* known to be gone.  HelperSupervisor takes each call apart into what the *)
(* kernel sees and implements this module; HelperServer builds on it.      *)
(***************************************************************************)
EXTENDS Naturals

CONSTANTS
  DeadManCfg,     \* deadMan, in ticks
  OrphanCfg       \* deadManOrphan before it is clamped, in ticks

ASSUME WindowAssumption == DeadManCfg \in Nat /\ OrphanCfg \in Nat

VARIABLES
  state,     \* Supervisor.state
  orphaned,  \* Supervisor.orphaned
  age        \* ticks since lastBeat, saturating at MaxAge

supervisor == <<state, orphaned, age>>

MaxAge        == DeadManCfg + 1
DeadManOrphan == IF OrphanCfg > DeadManCfg THEN DeadManCfg ELSE OrphanCfg
Window        == IF orphaned THEN DeadManOrphan ELSE DeadManCfg

SupervisorTypeOK ==
  state \in {"down", "up", "failed"} /\ orphaned \in BOOLEAN /\ age \in 0..MaxAge

SupervisorInit == state = "down" /\ orphaned = FALSE /\ age = MaxAge

\* A bring-up that succeeds, or that fails with something half built.
Up       == state # "up" /\ state' = "up" /\ orphaned' = FALSE /\ age' = 0
UpFailed == state # "up" /\ state' = "failed" /\ orphaned' = FALSE /\ age' = 0

Down == state # "down" /\ state' = "down" /\ orphaned' = FALSE /\ UNCHANGED age

\* A status call is the heartbeat of a tunnel that is up, and of no other.
Heartbeat == state = "up" /\ age' = 0 /\ UNCHANGED <<state, orphaned>>

Lost(definitive) ==
  /\ state # "down" /\ state' = "failed"
  /\ orphaned' = (orphaned \/ definitive) /\ age' = 0

\* The dead-man is a Down nobody asked for.
UnwatchedOrphan == orphaned /\ age > Window     \* faulty variant: only a known death counts
Unwatched == age > Window

Release == Unwatched /\ Down

\* The process dies and its successor heals itself before it serves.
Restart == state' = "down" /\ orphaned' = FALSE /\ age' = MaxAge

Later(n) == IF n < MaxAge THEN n + 1 ELSE n

Tick == age' = Later(age) /\ UNCHANGED <<state, orphaned>>

SupervisorNext ==
  \/ Up \/ UpFailed \/ Down \/ Heartbeat \/ Release \/ Restart \/ Tick
  \/ \E definitive \in BOOLEAN : Lost(definitive)

SupervisorSpec == SupervisorInit /\ [][SupervisorNext]_supervisor

=============================================================================
