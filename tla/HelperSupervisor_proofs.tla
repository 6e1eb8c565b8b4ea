----------------------- MODULE HelperSupervisor_proofs -----------------------
(***************************************************************************)
(* Proofs about the helper's supervisor, for any set of callers and peers, *)
(* any two dead-man windows and either platform.                           *)
(***************************************************************************)
EXTENDS HelperSupervisor, TLAPS

-----------------------------------------------------------------------------
(* The inductive invariant, part by part.                                  *)

Empty == dev = NoPeer /\ ~routed

\* The type invariant in two parts, of which each suits one of the provers.
Flags ==
  /\ alive \in BOOLEAN /\ orphaned \in BOOLEAN /\ bFull \in BOOLEAN /\ bArmed \in BOOLEAN
  /\ block \in BOOLEAN /\ routed \in BOOLEAN /\ lag \in BOOLEAN
  /\ shield \in BOOLEAN /\ death \in BOOLEAN /\ wanted \in BOOLEAN

Data ==
  /\ state \in {"down", "up", "failed"} /\ lastCfg \in Config \cup {NoConfig}
  /\ age \in 0..MaxAge /\ held \in 0..MaxAge
  /\ op \in Lock /\ thread \in [Callers -> Thread] /\ ret \in [Callers -> Codes]
  /\ dev \in Peers \cup {NoPeer}

\* Who holds the lock, and with which configuration; a swap that was begun names
\* a peer.
LockShape ==
  /\ op.at = "free" => op = Free
  /\ op.at \in UpSteps => op.by \in Callers /\ op.cfg \in Config

SwapShape == \A t \in Callers : thread[t].at \in {"rehome", "swapped"} => thread[t].peer \in Peers

\* A process that does not run holds nothing.
Halted == ~alive => op = Free /\ state = "down" /\ Empty

\* How much of the tunnel each step has built or left, and from which state.
Stage ==
  /\ op.at \in {"up_check", "up_clean", "up_arm", "up_device"} => Empty
  /\ op.at = "up_routes" => dev # NoPeer /\ ~routed
  /\ op.at = "up_finish" => dev # NoPeer /\ routed
  /\ op.at \in {"down_block", "dead_block"} => Empty
  /\ op.at \in UpSteps => state # "up"
  /\ op.at \in DownSteps \cup DeadSteps => state # "down"

\* From the arming step on, a full-tunnel bring-up stands on its block.
Covered == op.at \in {"up_device", "up_routes", "up_finish"} /\ op.cfg.full => block

\* A teardown has given the protection up before it removes anything.
GivenUp == op.at \in DownSteps \cup DeadSteps => ~shield

\* The dead-man's clock started no earlier than the tunnel's present state, and
\* an orphan is an orphan by a death seen since.
Watched == state \in {"up", "failed"} => age <= held /\ (orphaned => death)

Shape == LockShape /\ SwapShape
Built == Halted /\ Stage /\ StateIsReal
Safe  == Covered /\ ArmedBeforeRouted /\ GivenUp /\ ShieldHolds
Timed == Watched /\ PatientRelease
IInv  == Flags /\ Data /\ Shape /\ Built /\ Safe /\ Timed

USE DEF UpSteps, DownSteps, DeadSteps

-----------------------------------------------------------------------------
(* The parts the operations share.                                         *)

\* The two parts are the type invariant.
LEMMA TypeParts == TypeOK <=> Flags /\ Data
BY DEF TypeOK, Flags, Data

\* The free lock and the idle thread are of their types.
LEMMA Constants == Free \in Lock /\ Idle \in Thread
BY DEF Free, Idle, Lock, Thread

\* A step moves the lock's holder on and changes nothing else of it.
LEMMA GotoMoves ==
  ASSUME op \in Lock, NEW s \in UpSteps \cup DownSteps \cup DeadSteps, Goto(s)
  PROVE  op' \in Lock /\ op'.at = s /\ op'.by = op.by /\ op'.cfg = op.cfg
BY DEF Goto, Lock

\* What a call answers is one of the codes.
LEMMA ReturnTyped ==
  ASSUME ret \in [Callers -> Codes], NEW t \in Callers, NEW code \in Codes, Return(t, code)
  PROVE  ret' \in [Callers -> Codes]
BY DEF Return

\* Assigning lastCfg leaves every thread where it stands.
LEMMA ReassignTyped ==
  ASSUME thread \in [Callers -> Thread], NEW c, Reassign(c)
  PROVE  /\ lastCfg' = c
         /\ thread' \in [Callers -> Thread]
         /\ \A t \in Callers : thread'[t].at = thread[t].at /\ thread'[t].peer = thread[t].peer
BY DEF Reassign, Thread

\* A thread that is set to a value of its type stays typed, and the others stay.
LEMMA ThreadTyped ==
  ASSUME thread \in [Callers -> Thread], NEW t \in Callers, NEW v \in Thread,
         thread' = [thread EXCEPT ![t] = v]
  PROVE  /\ thread' \in [Callers -> Thread]
         /\ thread'[t] = v /\ \A u \in Callers \ {t} : thread'[u] = thread[u]
OBVIOUS

\* A bring-up that fails late, whatever it did to the block, ends in a state of
\* the invariant provided the protection it found was not opened.
LEMMA LateFailureStep ==
  ASSUME IInv, op.at \in UpSteps, LateFailure,
         block' \in BOOLEAN, bArmed' \in BOOLEAN, shield' \in BOOLEAN, shield' => block'
  PROVE  IInv'
<1>1. op.by \in Callers /\ alive
  BY DEF IInv, Shape, LockShape, Built, Halted, Free
<1>2. ret' \in [Callers -> Codes]
  BY <1>1, ReturnTyped, "up_failed" \in Codes DEF LateFailure, IInv, Data, Codes
<1>3. /\ op' = Free /\ state' = "failed" /\ dev' = NoPeer /\ routed' = FALSE
      /\ orphaned' = FALSE /\ age' = 0 /\ held' = 0 /\ death' = FALSE
      /\ UNCHANGED <<alive, lastCfg, thread, bFull, lag, wanted>>
  BY DEF LateFailure, OwnerPresent, Beat, Entered, DropDevice
<1>4. Flags'
  BY <1>3, Zenon DEF IInv, Flags
<1>5. Data'
  BY <1>2, <1>3, Constants, SupervisorAssumption DEF IInv, Data, MaxAge
<1>6. Shape'
  BY <1>3 DEF IInv, Shape, LockShape, SwapShape, Free
<1>7. Built'
  BY <1>1, <1>3 DEF Built, Halted, Stage, StateIsReal, Free, Empty
<1>8. Safe'
  BY <1>3 DEF Safe, Covered, ArmedBeforeRouted, GivenUp, ShieldHolds, Free
<1>9. Timed'
  BY <1>3 DEF Timed, Watched, PatientRelease, Free
<1> QED BY <1>4, <1>5, <1>6, <1>7, <1>8, <1>9 DEF IInv

\* A rejection before anything was armed leaves all but the lock as it was.
LEMMA CleanRejectionStep ==
  ASSUME IInv, op.at \in {"up_check", "up_arm"}, CleanRejection
  PROVE  IInv'
<1>1. op.by \in Callers /\ alive
  BY DEF IInv, Shape, LockShape, Built, Halted, Free
<1>2. ret' \in [Callers -> Codes]
  BY <1>1, ReturnTyped, "error" \in Codes DEF CleanRejection, IInv, Data, Codes
<1>3. /\ op' = Free
      /\ UNCHANGED <<alive, state, lastCfg, orphaned, age, thread, bFull, bArmed, kernel, history>>
  BY DEF CleanRejection
<1>4. Flags'
  BY <1>3, Zenon DEF IInv, Flags, kernel, history
<1>5. Data'
  BY <1>2, <1>3, Constants DEF IInv, Data, kernel, history
<1>6. Shape'
  BY <1>3 DEF IInv, Shape, LockShape, SwapShape, Free
<1>7. Empty /\ state # "up"
  BY DEF IInv, Built, Stage
<1>8. Built'
  BY <1>1, <1>3, <1>7 DEF Built, Halted, Stage, StateIsReal, Free, Empty, kernel
<1>9. Safe'
  BY <1>3, <1>7 DEF IInv, Safe, Covered, ArmedBeforeRouted, GivenUp, ShieldHolds, Free, Empty, kernel, history
<1>10. Timed'
  BY <1>3 DEF IInv, Timed, Watched, PatientRelease, Free, history
<1> QED BY <1>4, <1>5, <1>6, <1>8, <1>9, <1>10 DEF IInv

\* A call that leaves the lock, the state and the kernel alone, and may beat.
LEMMA QuietStep ==
  ASSUME IInv, Flags', Data', SwapShape',
         UNCHANGED <<alive, state, orphaned, op, lastCfg, bFull, block, dev, routed>>,
         UNCHANGED <<shield, held, death>>, age' \in {0, age}
  PROVE  IInv'
<1>1. Shape' /\ Built'
  BY DEF IInv, Shape, LockShape, Built, Halted, Stage, StateIsReal, Empty
<1>2. Safe'
  BY DEF IInv, Safe, Covered, ArmedBeforeRouted, GivenUp, ShieldHolds, FullMode
<1>3. Timed'
  BY DEF IInv, Data, Timed, Watched, PatientRelease
<1> QED BY <1>1, <1>2, <1>3 DEF IInv

-----------------------------------------------------------------------------
(* Calls that only ask, or only read for a live update.                    *)

\* A call that is refused, a live update that is refused, and a status request
\* keep the invariant: at most the clock is set back.
LEMMA AskStep ==
  ASSUME IInv, NEW t \in Callers, UpInvalid(t) \/ LiveRefused(t) \/ Status(t)
  PROVE  IInv'
<1>1. /\ UNCHANGED <<alive, state, lastCfg, orphaned, op, thread, bFull, bArmed, kernel, history>>
      /\ age' \in {0, age}
  BY DEF UpInvalid, LiveRefused, Status, Beat
<1>2. \E code \in Codes : Return(t, code)
  BY DEF UpInvalid, LiveRefused, Status, Codes, IInv, Data
<1>3. Flags'
  BY <1>1, Zenon DEF IInv, Flags, kernel, history
<1>4. Data'
  BY <1>1, <1>2, ReturnTyped, SupervisorAssumption DEF IInv, Data, kernel, history, MaxAge
<1> QED BY <1>1, <1>3, <1>4, QuietStep DEF IInv, Shape, SwapShape, kernel, history

\* The reading half of a live update keeps it: it changes the thread alone.
LEMMA ReadStep ==
  ASSUME IInv, NEW t \in Callers, NEW p \in Peers, AllowedIPsRead(t) \/ GatewayPeerRead(t, p)
  PROVE  IInv'
<1>1. PICK next \in LiveUpdates, q \in Peers : LiveRead(t, next, q)
  BY DEF AllowedIPsRead, GatewayPeerRead, LiveUpdates, IInv, Data, Config
<1> DEFINE v == [at |-> next, peer |-> q, fresh |-> TRUE]
<1>2. v \in Thread
  BY DEF Thread
<1>3. thread' = [thread EXCEPT ![t] = v] /\ Return(t, "none")
      /\ UNCHANGED <<alive, state, lastCfg, orphaned, age, op, bFull, bArmed, kernel, history>>
  BY <1>1 DEF LiveRead
<1>4. Flags'
  BY <1>3, Zenon DEF IInv, Flags, kernel, history
<1>5. Data'
  BY <1>2, <1>3, ReturnTyped, ThreadTyped DEF IInv, Data, Codes, kernel, history
<1>6. SwapShape'
  BY <1>2, <1>3, ThreadTyped DEF IInv, Data, Shape, SwapShape
<1> QED BY <1>3, <1>4, <1>5, <1>6, QuietStep DEF kernel, history

\* Moving the routed ranges keeps it: it changes the thread and the lag alone.
LEMMA AllowedIPsApplyStep ==
  ASSUME IInv, NEW t \in Callers, AllowedIPsApply(t)
  PROVE  IInv'
<1>1. /\ thread' = [thread EXCEPT ![t] = Idle]
      /\ UNCHANGED <<alive, state, lastCfg, orphaned, age, op, bFull, bArmed, block, dev, routed, history>>
      /\ lag' \in BOOLEAN
  BY DEF AllowedIPsApply, IInv, Flags
<1>2. \E code \in Codes : Return(t, code)
  BY DEF AllowedIPsApply, Codes
<1>3. Flags'
  BY <1>1, Zenon DEF IInv, Flags, history
<1>4. Data'
  BY <1>1, <1>2, ReturnTyped, ThreadTyped, Constants DEF IInv, Data, history
<1>5. SwapShape'
  BY <1>1, ThreadTyped, Constants DEF IInv, Data, Shape, SwapShape, Idle
<1> QED BY <1>1, <1>3, <1>4, <1>5, QuietStep DEF history

-----------------------------------------------------------------------------
(* Calls that take the lock.                                               *)

\* Taking the lock for a bring-up keeps it: nothing is built, for the state was not up.
LEMMA UpEnterStep ==
  ASSUME IInv, NEW t \in Callers, NEW c \in Config, UpEnter(t, c)
  PROVE  IInv'
<1>1. UNCHANGED <<alive, state, lastCfg, orphaned, age, thread, bFull, bArmed, kernel,
                  shield, held, death>> /\ op = Free /\ alive
  BY DEF UpEnter, Locked
<1>2. \E code \in {"none", "error"} : Return(t, code)
  BY DEF UpEnter
<1>3. wanted' \in BOOLEAN
  BY DEF UpEnter, Config, IInv, Flags
<1>4. Flags'
  BY <1>1, <1>3, Zenon DEF IInv, Flags, kernel
<1>5. \/ state = "up" /\ op' = op
      \/ state # "up" /\ op' = [at |-> "up_check", by |-> t, cfg |-> c]
  BY DEF UpEnter
<1>6. op' \in Lock
  BY <1>5 DEF IInv, Data, Lock
<1>7. Data'
  BY <1>1, <1>2, <1>6, ReturnTyped DEF IInv, Data, Codes, kernel
<1>8. Shape'
  BY <1>1, <1>5 DEF IInv, Shape, LockShape, SwapShape
<1>9. Built'
  BY <1>1, <1>5 DEF IInv, Data, Built, Halted, Stage, StateIsReal, Free, Empty, kernel
<1>10. Safe'
  BY <1>1, <1>5 DEF IInv, Built, Safe, StateIsReal, Covered, ArmedBeforeRouted, FullMode, GivenUp, ShieldHolds, Free, kernel
<1>11. Timed'
  BY <1>1, <1>5 DEF IInv, Timed, Watched, PatientRelease, Free
<1> QED BY <1>4, <1>7, <1>8, <1>9, <1>10, <1>11 DEF IInv

\* Taking the lock for a Down keeps it: the protection is given up first.
LEMMA DownEnterStep ==
  ASSUME IInv, NEW t \in Callers, DownEnter(t)
  PROVE  IInv'
<1>1. UNCHANGED <<alive, state, lastCfg, orphaned, age, thread, bFull, bArmed, kernel,
                  held, death, wanted>> /\ op = Free /\ alive
  BY DEF DownEnter, Locked
<1>2. \E code \in {"none", "down_ok"} : Return(t, code)
  BY DEF DownEnter
<1>3. \/ state = "down" /\ op' = op /\ shield' = shield
      \/ state # "down" /\ op' = [at |-> "down_device", by |-> t, cfg |-> NoConfig] /\ shield' = FALSE
  BY DEF DownEnter
<1>4. Flags'
  BY <1>1, <1>3, Zenon DEF IInv, Flags, kernel
<1>5. op' \in Lock
  BY <1>3 DEF IInv, Data, Lock
<1>6. Data'
  BY <1>1, <1>2, <1>5, ReturnTyped DEF IInv, Data, Codes, kernel
<1>7. Shape'
  BY <1>1, <1>3 DEF IInv, Shape, LockShape, SwapShape
<1>8. Built'
  BY <1>1, <1>3 DEF IInv, Built, Halted, Stage, StateIsReal, Free, Empty, kernel
<1>9. Safe'
  BY <1>1, <1>3 DEF IInv, Safe, Covered, ArmedBeforeRouted, FullMode, GivenUp, ShieldHolds, Free, kernel
<1>10. Timed'
  BY <1>1, <1>3 DEF IInv, Timed, Watched, PatientRelease, Free
<1> QED BY <1>4, <1>6, <1>7, <1>8, <1>9, <1>10 DEF IInv

\* The dead-man taking the lock keeps it: the window it waited bounds the time held.
LEMMA CheckDeadManStep ==
  ASSUME IInv, CheckDeadMan
  PROVE  IInv'
<1>1. /\ UNCHANGED <<alive, state, lastCfg, orphaned, age, thread, ret, bFull, bArmed, kernel,
                     held, death, wanted>>
      /\ alive /\ op = Free /\ state # "down" /\ state \in {"up", "failed"} /\ age > Window
      /\ op' = [at |-> "dead_device", by |-> NoCaller, cfg |-> NoConfig]
      /\ shield' = FALSE
  BY DEF CheckDeadMan
<1>2. Flags'
  BY <1>1, Zenon DEF IInv, Flags, kernel
<1>3. op' \in Lock
  BY <1>1 DEF Lock
<1>4. Data'
  BY <1>1, <1>3 DEF IInv, Data, kernel
<1>5. Shape'
  BY <1>1 DEF IInv, Shape, LockShape, SwapShape
<1>6. Built'
  BY <1>1 DEF IInv, Built, Halted, Stage, StateIsReal, Free, Empty, kernel
<1>7. Safe'
  BY <1>1 DEF IInv, Safe, Covered, ArmedBeforeRouted, FullMode, GivenUp, ShieldHolds, Free, kernel
<1>8. Watched /\ Watched'
  BY <1>1 DEF IInv, Timed, Watched
<1>9. held > DeadManOrphan /\ (death \/ held > DeadManCfg)
  BY <1>1, <1>8, SupervisorAssumption DEF IInv, Data, Watched, Window, DeadManOrphan, MaxAge
<1>10. Timed'
  BY <1>1, <1>8, <1>9 DEF Timed, PatientRelease
<1> QED BY <1>2, <1>4, <1>5, <1>6, <1>7, <1>10 DEF IInv

-----------------------------------------------------------------------------
(* The steps of a bring-up.                                                *)

\* The checks of a bring-up keep the invariant.
LEMMA UpCheckStep ==
  ASSUME IInv, UpCheck
  PROVE  IInv'
<1>1. CASE CleanRejection
  BY <1>1, CleanRejectionStep DEF UpCheck, Step
<1>2. CASE LateFailure /\ UNCHANGED <<bArmed, block, shield>>
  BY <1>2, LateFailureStep DEF UpCheck, Step, IInv, Flags, Safe, ShieldHolds
<1>3. CASE /\ Goto("up_clean")
           /\ bFull' = IF Platform = "darwin" THEN op.cfg.full ELSE bFull
           /\ UNCHANGED <<alive, state, lastCfg, orphaned, age, thread, ret, bArmed, kernel, history>>
  <2>1. op' \in Lock /\ op'.at = "up_clean" /\ op'.by = op.by /\ op'.cfg = op.cfg /\ op.at = "up_check" /\ alive
    BY <1>3, GotoMoves DEF UpCheck, Step, IInv, Data
  <2>2. op.cfg \in Config
    BY <2>1 DEF IInv, Shape, LockShape
  <2>3. bFull' \in BOOLEAN
    BY <1>3, <2>2 DEF IInv, Flags, Config
  <2>4. Flags'
    BY <1>3, <2>3, Zenon DEF IInv, Flags, kernel, history
  <2>5. Data'
    BY <1>3, <2>1 DEF IInv, Data, kernel, history
  <2>6. Shape'
    BY <1>3, <2>1 DEF IInv, Shape, LockShape, SwapShape
  <2>7. Built'
    BY <1>3, <2>1 DEF IInv, Built, Halted, Stage, StateIsReal, Free, Empty, kernel
  <2>8. Safe'
    BY <1>3, <2>1 DEF IInv, Built, Stage, Empty, Safe, Covered, ArmedBeforeRouted, FullMode, GivenUp, ShieldHolds, kernel, history
  <2>9. Timed'
    BY <1>3, <2>1 DEF IInv, Timed, Watched, PatientRelease, history
  <2> QED BY <2>4, <2>5, <2>6, <2>7, <2>8, <2>9 DEF IInv
<1> QED BY <1>1, <1>2, <1>3 DEF UpCheck

\* Cleaning what a prior session left keeps it: the protection is given up with the block.
LEMMA UpCleanStep ==
  ASSUME IInv, UpClean
  PROVE  IInv'
<1>1. block' \in BOOLEAN /\ bArmed' \in BOOLEAN /\ shield' \in BOOLEAN /\ (shield' => block')
  BY DEF UpClean, IInv, Flags, Safe, ShieldHolds
<1>2. CASE LateFailure
  BY <1>1, <1>2, LateFailureStep DEF UpClean, Step
<1>3. CASE /\ Goto("up_arm")
           /\ UNCHANGED <<alive, state, lastCfg, orphaned, age, thread, ret, bFull, dev, routed,
                          lag, held, death, wanted>>
  <2>1. op' \in Lock /\ op'.at = "up_arm" /\ op'.by = op.by /\ op'.cfg = op.cfg /\ op.at = "up_clean" /\ alive
    BY <1>3, GotoMoves DEF UpClean, Step, IInv, Data
  <2>2. Flags'
    BY <1>1, <1>3, Zenon DEF IInv, Flags
  <2>3. Data'
    BY <1>3, <2>1 DEF IInv, Data
  <2>4. Shape'
    BY <1>3, <2>1 DEF IInv, Shape, LockShape, SwapShape
  <2>5. Built'
    BY <1>3, <2>1 DEF IInv, Built, Halted, Stage, StateIsReal, Free, Empty
  <2>6. Safe'
    BY <1>1, <1>3, <2>1 DEF IInv, Built, Stage, Empty, Safe, Covered, ArmedBeforeRouted, FullMode, GivenUp, ShieldHolds
  <2>7. Timed'
    BY <1>3, <2>1 DEF IInv, Timed, Watched, PatientRelease
  <2> QED BY <2>2, <2>3, <2>4, <2>5, <2>6, <2>7 DEF IInv
<1> QED BY <1>2, <1>3 DEF UpClean

\* Arming keeps it: a full tunnel leaves this step only with its block in force.
LEMMA UpArmStep ==
  ASSUME IInv, UpArm
  PROVE  IInv'
<1>1. CASE CleanRejection
  BY <1>1, CleanRejectionStep DEF UpArm, Step
<1>2. CASE LateFailure /\ UNCHANGED <<bArmed, block, shield>>
  BY <1>2, LateFailureStep DEF UpArm, Step, IInv, Flags, Safe, ShieldHolds
<1>3. CASE /\ block' = Armed /\ bArmed' = (Platform = "windows" /\ op.cfg.full) /\ Goto("up_device")
           /\ UNCHANGED <<alive, state, lastCfg, orphaned, age, thread, ret, bFull, dev, routed, lag, history>>
  <2>1. op' \in Lock /\ op'.at = "up_device" /\ op'.by = op.by /\ op'.cfg = op.cfg /\ op.at = "up_arm" /\ alive
    BY <1>3, GotoMoves DEF UpArm, Step, IInv, Data
  <2>2. op.cfg \in Config
    BY <2>1 DEF IInv, Shape, LockShape
  <2>3. block' \in BOOLEAN /\ bArmed' \in BOOLEAN /\ (block \/ op.cfg.full => block')
    BY <1>3, <2>2 DEF Armed, IInv, Flags
  <2>4. Flags'
    BY <1>3, <2>3, Zenon DEF IInv, Flags, history
  <2>5. Data'
    BY <1>3, <2>1 DEF IInv, Data, history
  <2>6. Shape'
    BY <1>3, <2>1 DEF IInv, Shape, LockShape, SwapShape
  <2>7. Built'
    BY <1>3, <2>1 DEF IInv, Built, Halted, Stage, StateIsReal, Free, Empty
  <2>8. Safe'
    BY <1>3, <2>1, <2>3 DEF IInv, Built, Stage, Empty, Safe, Covered, ArmedBeforeRouted, FullMode, GivenUp, ShieldHolds, history
  <2>9. Timed'
    BY <1>3, <2>1 DEF IInv, Timed, Watched, PatientRelease, history
  <2> QED BY <2>4, <2>5, <2>6, <2>7, <2>8, <2>9 DEF IInv
<1> QED BY <1>1, <1>2, <1>3 DEF UpArm

\* Building the device keeps it: no route points at it yet.
LEMMA UpDeviceStep ==
  ASSUME IInv, UpDevice
  PROVE  IInv'
<1>1. CASE LateFailure /\ UNCHANGED <<bArmed, block, shield>>
  BY <1>1, LateFailureStep DEF UpDevice, Step, IInv, Flags, Safe, ShieldHolds
<1>2. CASE /\ dev' = op.cfg.peer /\ lag' = FALSE /\ Goto("up_routes")
           /\ UNCHANGED <<alive, state, lastCfg, orphaned, age, thread, ret, bFull, bArmed, block, routed, history>>
  <2>1. op' \in Lock /\ op'.at = "up_routes" /\ op'.by = op.by /\ op'.cfg = op.cfg /\ op.at = "up_device" /\ alive
    BY <1>2, GotoMoves DEF UpDevice, Step, IInv, Data
  <2>2. op.cfg.peer \in Peers
    BY <2>1 DEF IInv, Shape, LockShape, Config
  <2>3. Flags'
    BY <1>2, Zenon DEF IInv, Flags, history
  <2>4. Data'
    BY <1>2, <2>1, <2>2 DEF IInv, Data, history
  <2>5. Shape'
    BY <1>2, <2>1 DEF IInv, Shape, LockShape, SwapShape
  <2>6. Built'
    BY <1>2, <2>1, <2>2, SupervisorAssumption DEF IInv, Built, Halted, Stage, StateIsReal, Free, Empty
  <2>7. Safe'
    BY <1>2, <2>1 DEF IInv, Built, Stage, Empty, Safe, Covered, ArmedBeforeRouted, FullMode, GivenUp, ShieldHolds, history
  <2>8. Timed'
    BY <1>2, <2>1 DEF IInv, Timed, Watched, PatientRelease, history
  <2> QED BY <2>3, <2>4, <2>5, <2>6, <2>7, <2>8 DEF IInv
<1> QED BY <1>1, <1>2 DEF UpDevice

\* Moving the routes keeps it: a full tunnel's block is already in force.
LEMMA UpRoutesStep ==
  ASSUME IInv, UpRoutes
  PROVE  IInv'
<1>1. CASE LateFailure /\ UNCHANGED <<bArmed, block, shield>>
  BY <1>1, LateFailureStep DEF UpRoutes, Step, IInv, Flags, Safe, ShieldHolds
<1>2. CASE /\ routed' = TRUE /\ Goto("up_finish")
           /\ UNCHANGED <<alive, state, lastCfg, orphaned, age, thread, ret, bFull, bArmed, block, dev, lag, history>>
  <2>1. op' \in Lock /\ op'.at = "up_finish" /\ op'.by = op.by /\ op'.cfg = op.cfg /\ op.at = "up_routes" /\ alive
    BY <1>2, GotoMoves DEF UpRoutes, Step, IInv, Data
  <2>2. Flags'
    BY <1>2, Zenon DEF IInv, Flags, history
  <2>3. Data'
    BY <1>2, <2>1 DEF IInv, Data, history
  <2>4. Shape'
    BY <1>2, <2>1 DEF IInv, Shape, LockShape, SwapShape
  <2>5. Built'
    BY <1>2, <2>1 DEF IInv, Built, Halted, Stage, StateIsReal, Free, Empty
  <2>6. Safe'
    BY <1>2, <2>1 DEF IInv, Safe, Covered, ArmedBeforeRouted, FullMode, GivenUp, ShieldHolds, history
  <2>7. Timed'
    BY <1>2, <2>1 DEF IInv, Timed, Watched, PatientRelease, history
  <2> QED BY <2>2, <2>3, <2>4, <2>5, <2>6, <2>7 DEF IInv
<1> QED BY <1>1, <1>2 DEF UpRoutes

\* The end of a bring-up keeps it: device, routes and block are those of the session.
LEMMA UpFinishStep ==
  ASSUME IInv, UpFinish
  PROVE  IInv'
<1>1. CASE LateFailure /\ UNCHANGED <<bArmed, block, shield>>
  BY <1>1, LateFailureStep DEF UpFinish, Step, IInv, Flags, Safe, ShieldHolds
<1>2. CASE /\ state' = "up" /\ Reassign(op.cfg) /\ OwnerPresent /\ Entered(FALSE)
           /\ bFull' = op.cfg.full /\ shield' = op.cfg.full /\ Return(op.by, "ok") /\ op' = Free
           /\ UNCHANGED <<alive, bArmed, kernel, wanted>>
  <2>1. op.cfg \in Config /\ op.by \in Callers /\ op.at = "up_finish" /\ alive
    BY DEF UpFinish, Step, IInv, Shape, LockShape
  <2>2. lastCfg' = op.cfg /\ op.cfg # NoConfig /\ op.cfg.full \in BOOLEAN
    BY <1>2, <2>1, SupervisorAssumption DEF Reassign, Config
  <2>3. orphaned' = FALSE /\ age' = 0 /\ held' = 0 /\ death' = FALSE
    BY <1>2 DEF OwnerPresent, Beat, Entered
  <2>4. Flags'
    BY <1>2, <2>2, <2>3, Zenon DEF IInv, Flags, kernel
  <2>5. ret' \in [Callers -> Codes]
    BY <1>2, <2>1, ReturnTyped, "ok" \in Codes DEF IInv, Data, Codes
  <2>6. Data'
    BY <1>2, <2>1, <2>2, <2>3, <2>5, ReassignTyped, Constants, SupervisorAssumption DEF IInv, Data, kernel, MaxAge
  <2>7. Shape'
    BY <1>2, ReassignTyped DEF IInv, Data, Shape, LockShape, SwapShape, Free
  <2>8. Built'
    BY <1>2, <2>1, <2>2 DEF IInv, Built, Halted, Stage, StateIsReal, Free, Empty, kernel
  <2>9. Safe'
    BY <1>2, <2>1 DEF IInv, Safe, Covered, ArmedBeforeRouted, FullMode, GivenUp, ShieldHolds, Free, kernel
  <2>10. Timed'
    BY <1>2, <2>3 DEF Timed, Watched, PatientRelease, Free
  <2> QED BY <2>4, <2>6, <2>7, <2>8, <2>9, <2>10 DEF IInv
<1> QED BY <1>1, <1>2 DEF UpFinish

-----------------------------------------------------------------------------
(* Releases, the loss of an owner, the clock, and the process.             *)

\* Closing the device keeps it: the routes go with it.
LEMMA CloseDeviceStep ==
  ASSUME IInv, CloseDevice
  PROVE  IInv'
<1>1. /\ op.at \in {"down_device", "dead_device"} /\ alive
      /\ dev' = NoPeer /\ routed' = FALSE /\ lag' = FALSE /\ bFull' = FALSE
      /\ UNCHANGED <<alive, state, lastCfg, orphaned, age, thread, ret, bArmed, block, history>>
  BY DEF CloseDevice, Step
<1>2. /\ op' \in Lock /\ op'.at \in {"down_block", "dead_block"}
      /\ op'.at = "dead_block" => op.at = "dead_device"
  BY GotoMoves DEF CloseDevice, Step, IInv, Data
<1>3. Flags'
  BY <1>1, Zenon DEF IInv, Flags, history
<1>4. Data'
  BY <1>1, <1>2 DEF IInv, Data, history
<1>5. Shape'
  BY <1>1, <1>2 DEF IInv, Shape, LockShape, SwapShape
<1>6. Built'
  BY <1>1, <1>2 DEF IInv, Built, Halted, Stage, StateIsReal, Free, Empty
<1>7. Safe'
  BY <1>1, <1>2 DEF IInv, Safe, Covered, ArmedBeforeRouted, FullMode, GivenUp, ShieldHolds, history
<1>8. Timed'
  BY <1>1, <1>2 DEF IInv, Timed, Watched, PatientRelease, history
<1> QED BY <1>3, <1>4, <1>5, <1>6, <1>7, <1>8 DEF IInv

\* Removing the block keeps it: device and routes are gone, the protection given up.
LEMMA ReleaseBlockStep ==
  ASSUME IInv, ReleaseBlock
  PROVE  IInv'
<1>1. /\ op.at \in {"down_block", "dead_block"} /\ alive
      /\ state' = "down" /\ Reassign(NoConfig) /\ orphaned' = FALSE /\ op' = Free
      /\ UNCHANGED <<alive, age, bFull, dev, routed, lag, history>>
  BY DEF ReleaseBlock, Step
<1>2. block' \in BOOLEAN /\ bArmed' \in BOOLEAN
  BY DEF ReleaseBlock, IInv, Flags
<1>3. ret' \in [Callers -> Codes]
  <2>1. op.by = NoCaller \/ op.by \in Callers
    BY DEF IInv, Data, Lock
  <2>2. ret' = ret \/ (op.by \in Callers /\ \E code \in Codes : Return(op.by, code))
    BY <2>1 DEF ReleaseBlock, Codes
  <2> QED BY <2>2, ReturnTyped DEF IInv, Data
<1>4. Empty /\ ~shield
  BY <1>1 DEF IInv, Built, Stage, Safe, GivenUp
<1>5. Flags'
  BY <1>1, <1>2, Zenon DEF IInv, Flags, history
<1>6. Data'
  BY <1>1, <1>3, ReassignTyped, Constants DEF IInv, Data, history
<1>7. Shape'
  BY <1>1, ReassignTyped DEF IInv, Data, Shape, LockShape, SwapShape, Free
<1>8. Built'
  BY <1>1, <1>4 DEF Built, Halted, Stage, StateIsReal, Free, Empty
<1>9. Safe'
  BY <1>1, <1>4 DEF Safe, Covered, ArmedBeforeRouted, FullMode, GivenUp, ShieldHolds, Free, Empty, history
<1>10. Timed'
  BY <1>1 DEF Timed, Watched, PatientRelease, Free
<1> QED BY <1>5, <1>6, <1>7, <1>8, <1>9, <1>10 DEF IInv

\* The loss of the owner keeps it: the device goes, the block stays.
LEMMA OnPeerLostStep ==
  ASSUME IInv, NEW t \in Callers, NEW definitive \in BOOLEAN, OnPeerLost(t, definitive)
  PROVE  IInv'
<1>1. op = Free /\ alive /\ UNCHANGED <<alive, op, ret, bFull, bArmed, block, shield, wanted>>
  BY DEF OnPeerLost, Locked
<1>2. CASE state = "down"
  <2>1. UNCHANGED <<state, lastCfg, thread, orphaned, age, dev, routed, lag, held, death>>
    BY <1>2 DEF OnPeerLost
  <2>2. Flags'
    BY <1>1, <2>1, Zenon DEF IInv, Flags
  <2>3. Data'
    BY <1>1, <2>1 DEF IInv, Data
  <2>4. SwapShape'
    BY <2>1 DEF IInv, Shape, SwapShape
  <2> QED BY <1>1, <2>1, <2>2, <2>3, <2>4, QuietStep
<1>3. CASE state # "down"
  <2>1. /\ state' = "failed" /\ orphaned' = (orphaned \/ definitive) /\ age' = 0
        /\ held' = 0 /\ death' = (death \/ definitive) /\ Reassign(NoConfig)
        /\ (dev' = NoPeer /\ routed' = FALSE /\ lag' = FALSE /\ state = "up")
           \/ (UNCHANGED <<dev, routed, lag>> /\ state = "failed")
    BY <1>3 DEF OnPeerLost, Beat, Entered, IInv, Data
  <2>2. orphaned' \in BOOLEAN /\ death' \in BOOLEAN
    BY <2>1
  <2>3. routed' \in BOOLEAN /\ lag' \in BOOLEAN
    BY <2>1 DEF IInv, Flags
  <2>4. Flags'
    BY <1>1, <2>2, <2>3, Zenon DEF IInv, Flags
  <2>5. Data'
    BY <1>1, <2>1, ReassignTyped, SupervisorAssumption DEF IInv, Data, MaxAge
  <2>6. Shape'
    BY <1>1, <2>1, ReassignTyped DEF IInv, Data, Shape, LockShape, SwapShape
  <2>7. Empty'
    BY <1>1, <2>1 DEF IInv, Built, StateIsReal, Empty
  <2>8. Built'
    BY <1>1, <2>1, <2>7 DEF Built, Halted, Stage, StateIsReal, Free, Empty
  <2>9. Safe'
    BY <1>1, <2>7 DEF IInv, Safe, Covered, ArmedBeforeRouted, FullMode, GivenUp, ShieldHolds, Free, Empty
  <2>10. Timed'
    BY <1>1, <2>1, <1>3 DEF IInv, Data, Timed, Watched, PatientRelease, Free
  <2> QED BY <2>4, <2>5, <2>6, <2>8, <2>9, <2>10 DEF IInv
<1> QED BY <1>2, <1>3

\* The passing of time keeps it: both clocks move alike.
LEMMA TickStep ==
  ASSUME IInv, Tick
  PROVE  IInv'
<1>1. UNCHANGED <<alive, state, lastCfg, orphaned, op, thread, ret, bFull, bArmed, kernel,
                  shield, death, wanted>>
  BY DEF Tick
<1>2. age' \in 0..MaxAge /\ held' \in 0..MaxAge /\ held' >= held /\ (age <= held => age' <= held')
  BY SupervisorAssumption DEF Tick, Later, IInv, Data, MaxAge
<1>3. Flags'
  BY <1>1, Zenon DEF IInv, Flags, kernel
<1>4. Data'
  BY <1>1, <1>2 DEF IInv, Data, kernel
<1>5. Shape'
  BY <1>1 DEF IInv, Shape, LockShape, SwapShape
<1>6. Built'
  BY <1>1 DEF IInv, Built, Halted, Stage, StateIsReal, Empty, kernel
<1>7. Safe'
  BY <1>1 DEF IInv, Safe, Covered, ArmedBeforeRouted, FullMode, GivenUp, ShieldHolds, kernel
<1>8. DeadManOrphan \in Nat
  BY SupervisorAssumption DEF DeadManOrphan
<1>9. Timed'
  BY <1>1, <1>2, <1>8, SupervisorAssumption DEF IInv, Data, MaxAge, Timed, Watched, PatientRelease
<1> QED BY <1>3, <1>4, <1>5, <1>6, <1>7, <1>9 DEF IInv

\* The death of the process keeps it: the kernel closes the device and keeps the block.
LEMMA CrashStep ==
  ASSUME IInv, Crash
  PROVE  IInv'
<1>1. /\ alive' = FALSE /\ state' = "down" /\ lastCfg' = NoConfig /\ orphaned' = FALSE
      /\ age' = MaxAge /\ op' = Free
      /\ thread' = [t \in Callers |-> Idle] /\ ret' = [t \in Callers |-> "none"]
      /\ bFull' = FALSE /\ bArmed' = FALSE
      /\ dev' = NoPeer /\ routed' = FALSE /\ lag' = FALSE /\ block' = block
      /\ UNCHANGED history
  BY DEF Crash, AfterDeath
<1>2. Flags'
  BY <1>1, Zenon DEF IInv, Flags, history
<1>3. Data'
  BY <1>1, Constants, SupervisorAssumption DEF IInv, Data, Codes, MaxAge, history
<1>4. Shape'
  BY <1>1 DEF Shape, LockShape, SwapShape, Free, Idle
<1>5. Built'
  BY <1>1 DEF Built, Halted, Stage, StateIsReal, Free, Empty
<1>6. Safe'
  BY <1>1 DEF IInv, Safe, Covered, ArmedBeforeRouted, GivenUp, ShieldHolds, Free, history
<1>7. Timed'
  BY <1>1 DEF Timed, Watched, PatientRelease, Free
<1> QED BY <1>2, <1>3, <1>4, <1>5, <1>6, <1>7 DEF IInv

\* The self-heal of the next process keeps it: it gives the protection up.
LEMMA SelfHealStep ==
  ASSUME IInv, SelfHeal
  PROVE  IInv'
<1>1. /\ alive' = TRUE /\ state' = "down" /\ shield' = FALSE
      /\ UNCHANGED <<lastCfg, orphaned, age, op, thread, ret, bFull, bArmed, dev, routed, lag,
                     held, death, wanted>>
      /\ op = Free /\ Empty
  BY DEF SelfHeal, IInv, Built, Halted
<1>2. block' \in BOOLEAN
  BY DEF SelfHeal, IInv, Flags
<1>3. Flags'
  BY <1>1, <1>2, Zenon DEF IInv, Flags
<1>4. Data'
  BY <1>1 DEF IInv, Data
<1>5. Shape'
  BY <1>1 DEF IInv, Shape, LockShape, SwapShape
<1>6. Built'
  BY <1>1 DEF Built, Halted, Stage, StateIsReal, Free, Empty
<1>7. Safe'
  BY <1>1 DEF Safe, Covered, ArmedBeforeRouted, GivenUp, ShieldHolds, Free, Empty
<1>8. Timed'
  BY <1>1 DEF Timed, Watched, PatientRelease, Free
<1> QED BY <1>3, <1>4, <1>5, <1>6, <1>7, <1>8 DEF IInv

-----------------------------------------------------------------------------
(* The half of a live update that runs outside the lock.                   *)

\* Swapping the device's peer keeps it: a live device stays a live device.
LEMMA GatewayPeerApplyStep ==
  ASSUME IInv, NEW t \in Callers, GatewayPeerApply(t)
  PROVE  IInv'
<1>1. /\ UNCHANGED <<alive, state, lastCfg, orphaned, age, op, bFull, bArmed, block, routed, history>>
      /\ op = Free /\ alive /\ thread[t].at = "rehome"
  BY DEF GatewayPeerApply, LiveApply
<1>2. \/ UNCHANGED <<dev, lag>>
      \/ dev # NoPeer /\ dev' = thread[t].peer /\ dev' \in Peers /\ lag' = FALSE
  BY <1>1 DEF GatewayPeerApply, IInv, Shape, SwapShape
<1>3. lag' \in BOOLEAN
  BY <1>2 DEF IInv, Flags
<1>4. ret' = ret \/ Return(t, "error")
  BY DEF GatewayPeerApply
<1>5. PICK v \in Thread : thread' = [thread EXCEPT ![t] = v] /\ (v = Idle \/ v.peer = thread[t].peer)
  <2>1. thread[t] \in Thread
    BY DEF IInv, Data
  <2>2. [thread[t] EXCEPT !.at = "swapped"] \in Thread
    BY <2>1 DEF Thread, LiveUpdates
  <2> QED BY <2>1, <2>2, Constants DEF GatewayPeerApply, Thread
<1>6. Flags'
  BY <1>1, <1>3, Zenon DEF IInv, Flags, history
<1>7. Data'
  BY <1>1, <1>2, <1>4, <1>5, ReturnTyped, ThreadTyped DEF IInv, Data, Codes, history
<1>8. SwapShape'
  BY <1>1, <1>5, ThreadTyped DEF IInv, Data, Shape, SwapShape, Idle
<1>9. Shape'
  BY <1>1, <1>8 DEF IInv, Shape, LockShape
<1>10. dev' # NoPeer <=> dev # NoPeer
  BY <1>2, SupervisorAssumption
<1>11. Built'
  BY <1>1, <1>10 DEF IInv, Built, Halted, Stage, StateIsReal, Free, Empty
<1>12. Safe'
  BY <1>1 DEF IInv, Safe, Covered, ArmedBeforeRouted, FullMode, GivenUp, ShieldHolds, history
<1>13. Timed'
  BY <1>1 DEF IInv, Timed, Watched, PatientRelease, history
<1> QED BY <1>6, <1>7, <1>9, <1>11, <1>12, <1>13 DEF IInv

\* Recording the swap keeps it: the session keeps its mode.
LEMMA GatewayPeerCommitStep ==
  ASSUME IInv, NEW t \in Callers, GatewayPeerCommit(t)
  PROVE  IInv'
<1>1. /\ UNCHANGED <<alive, state, orphaned, age, op, bFull, bArmed, kernel, history>>
      /\ op = Free /\ thread[t].at = "swapped" /\ thread' = [thread EXCEPT ![t] = Idle]
      /\ Return(t, "ok")
  BY DEF GatewayPeerCommit, LiveApply
<1>2. lastCfg' = lastCfg \/ (lastCfg \in Config /\ lastCfg' \in Config /\ lastCfg'.full = lastCfg.full)
  <2>1. state = "up" => lastCfg \in Config
    BY <1>1 DEF IInv, Data, Built, StateIsReal
  <2>2. thread[t].peer \in Peers
    BY <1>1 DEF IInv, Shape, SwapShape
  <2> QED BY <2>1, <2>2 DEF GatewayPeerCommit, Rehomed, Config
<1>3. Flags'
  BY <1>1, Zenon DEF IInv, Flags, kernel, history
<1>4. Data'
  BY <1>1, <1>2, ReturnTyped, ThreadTyped, Constants DEF IInv, Data, Codes, kernel, history
<1>5. Shape'
  BY <1>1, ThreadTyped, Constants DEF IInv, Data, Shape, LockShape, SwapShape, Idle
<1>6. Built'
  BY <1>1, <1>2, SupervisorAssumption DEF IInv, Built, Halted, Stage, StateIsReal, Free, Empty, kernel
<1>7. Safe'
  BY <1>1 DEF IInv, Safe, Covered, ArmedBeforeRouted, FullMode, GivenUp, ShieldHolds, kernel, history
<1>8. Timed'
  BY <1>1 DEF IInv, Timed, Watched, PatientRelease, history
<1> QED BY <1>3, <1>4, <1>5, <1>6, <1>7, <1>8 DEF IInv

-----------------------------------------------------------------------------
(* The theorems.                                                           *)

\* The helper starts in a state of the invariant.
LEMMA InitInv == Init => IInv
<1> SUFFICES ASSUME Init PROVE IInv
  OBVIOUS
<1>1. Flags
  BY Zenon DEF Init, Flags
<1>2. Data
  BY Constants, SupervisorAssumption DEF Init, Data, Codes, MaxAge
<1>3. Shape /\ Built /\ Safe /\ Timed
  BY DEF Init, Shape, LockShape, SwapShape, Built, Halted, Stage, StateIsReal, Empty, Safe,
         Covered, ArmedBeforeRouted, FullMode, GivenUp, ShieldHolds, Timed, Watched,
         PatientRelease, Free, Idle
<1> QED BY <1>1, <1>2, <1>3 DEF IInv

\* Every step of the helper, its callers and its clock keeps it.
LEMMA NextInv == IInv /\ [Next]_vars => IInv'
<1> SUFFICES ASSUME IInv, [Next]_vars PROVE IInv'
  OBVIOUS
<1>1. ASSUME NEW t \in Callers, Call(t) PROVE IInv'
  <2>1. CASE UpInvalid(t) \/ LiveRefused(t) \/ Status(t)
    BY <2>1, AskStep
  <2>2. CASE AllowedIPsRead(t) \/ \E p \in Peers : GatewayPeerRead(t, p)
    <3>1. PICK p \in Peers : AllowedIPsRead(t) \/ GatewayPeerRead(t, p)
      BY <2>2 DEF AllowedIPsRead, LiveRead, IInv, Data, Config
    <3> QED BY <3>1, ReadStep
  <2>3. CASE \E c \in Config : UpEnter(t, c)
    BY <2>3, UpEnterStep
  <2>4. CASE DownEnter(t)
    BY <2>4, DownEnterStep
  <2>5. CASE \E definitive \in BOOLEAN : OnPeerLost(t, definitive)
    BY <2>5, OnPeerLostStep
  <2> QED BY <1>1, <2>1, <2>2, <2>3, <2>4, <2>5 DEF Call
<1>2. ASSUME NEW t \in Callers, Update(t) PROVE IInv'
  BY <1>2, AllowedIPsApplyStep, GatewayPeerApplyStep, GatewayPeerCommitStep DEF Update
<1>3. CASE Inside
  BY <1>3, UpCheckStep, UpCleanStep, UpArmStep, UpDeviceStep, UpRoutesStep, UpFinishStep,
     CloseDeviceStep, ReleaseBlockStep DEF Inside
<1>4. CASE CheckDeadMan \/ Tick \/ Crash \/ SelfHeal
  BY <1>4, CheckDeadManStep, TickStep, CrashStep, SelfHealStep
<1>5. CASE UNCHANGED vars
  <2>1. UNCHANGED <<process, kernel, history>>
    BY <1>5 DEF vars
  <2>2. Flags'
    BY <2>1, Zenon DEF IInv, Flags, process, kernel, history
  <2>3. Data'
    BY <2>1 DEF IInv, Data, process, kernel, history
  <2>4. SwapShape'
    BY <2>1 DEF IInv, Shape, SwapShape, process
  <2> QED BY <2>1, <2>2, <2>3, <2>4, QuietStep DEF process, kernel, history
<1> QED BY <1>1, <1>2, <1>3, <1>4, <1>5 DEF Next

\* The invariant holds of every state the helper can be in.
THEOREM Invariance == Spec => []IInv
BY InitInv, NextInv, PTL DEF Spec

\* The types of the supervisor's fields, of its callers' positions and of the
\* kernel's state (state.go, both backends).
THEOREM TypeCorrect == Spec => []TypeOK
BY Invariance, TypeParts, PTL DEF IInv

\* The kill-switch of a full tunnel that came up stays in force until a
\* sanctioned release, through every failure, crash and live update.
THEOREM ShieldTheorem == Spec => []ShieldHolds
<1>1. IInv => ShieldHolds
  BY DEF IInv, Safe
<1> QED BY Invariance, <1>1, PTL

\* The routes of a full tunnel never exist without the block.
THEOREM ArmedTheorem == Spec => []ArmedBeforeRouted
<1>1. IInv => ArmedBeforeRouted
  BY DEF IInv, Safe
<1> QED BY Invariance, <1>1, PTL

\* Between two calls, the reported state is the state of the kernel.
THEOREM RealTheorem == Spec => []StateIsReal
<1>1. IInv => StateIsReal
  BY DEF IInv, Built
<1> QED BY Invariance, <1>1, PTL

\* The dead-man waits the window that is due, whatever its two windows are.
THEOREM PatientTheorem == Spec => []PatientRelease
<1>1. IInv => PatientRelease
  BY DEF IInv, Timed
<1> QED BY Invariance, <1>1, PTL

-----------------------------------------------------------------------------
(* The supervisor keeps its promise.                                       *)

\* The helper starts where the promise does.
LEMMA PromiseInit == Init => Promise!SupervisorInit
BY DEF Init, Promise!SupervisorInit, MaxAge, Promise!MaxAge

\* Every step is a step of the promise or leaves what it speaks of alone.
LEMMA PromiseNext ==
  ASSUME IInv, [Next]_vars
  PROVE  [Promise!SupervisorNext]_(Promise!supervisor)
<1> USE DEF Promise!supervisor
<1>1. ASSUME NEW t \in Callers, Call(t) PROVE [Promise!SupervisorNext]_(Promise!supervisor)
  <2>1. CASE Status(t)
    <3>1. \/ state = "up" /\ age' = 0 /\ UNCHANGED <<state, orphaned>>
          \/ UNCHANGED <<state, orphaned, age>>
      BY <2>1 DEF Status, Beat
    <3> QED BY <3>1 DEF Promise!SupervisorNext, Promise!Heartbeat
  <2>2. ASSUME NEW definitive \in BOOLEAN, OnPeerLost(t, definitive)
        PROVE  [Promise!SupervisorNext]_(Promise!supervisor)
    <3>1. \/ UNCHANGED <<state, orphaned, age>>
          \/ /\ state # "down" /\ state' = "failed"
             /\ orphaned' = (orphaned \/ definitive) /\ age' = 0
      BY <2>2 DEF OnPeerLost, Beat
    <3> QED BY <3>1 DEF Promise!SupervisorNext, Promise!Lost
  <2>3. CASE UpInvalid(t) \/ (\E c \in Config : UpEnter(t, c)) \/ DownEnter(t) \/ AllowedIPsRead(t)
             \/ LiveRefused(t) \/ \E p \in Peers : GatewayPeerRead(t, p)
    BY <2>3 DEF UpInvalid, UpEnter, DownEnter, AllowedIPsRead, LiveRefused, GatewayPeerRead, LiveRead
  <2> QED BY <1>1, <2>1, <2>2, <2>3 DEF Call
<1>2. ASSUME NEW t \in Callers, Update(t) PROVE [Promise!SupervisorNext]_(Promise!supervisor)
  BY <1>2 DEF Update, AllowedIPsApply, GatewayPeerApply, GatewayPeerCommit
<1>3. CASE Inside
  <2>1. ASSUME op.at \in UpSteps, LateFailure PROVE Promise!UpFailed
    BY <2>1 DEF LateFailure, OwnerPresent, Beat, Promise!UpFailed, IInv, Built, Stage
  <2>2. CASE UpCheck \/ UpClean \/ UpArm \/ UpDevice \/ UpRoutes
    <3>1. op.at \in UpSteps
      BY <2>2 DEF UpCheck, UpClean, UpArm, UpDevice, UpRoutes, Step
    <3>2. LateFailure \/ UNCHANGED <<state, orphaned, age>>
      BY <2>2 DEF UpCheck, UpClean, UpArm, UpDevice, UpRoutes, CleanRejection
    <3> QED BY <2>1, <3>1, <3>2 DEF Promise!SupervisorNext
  <2>3. CASE UpFinish
    <3>1. op.at \in UpSteps
      BY <2>3 DEF UpFinish, Step
    <3>2. LateFailure \/ Promise!Up
      BY <2>3, <3>1 DEF UpFinish, OwnerPresent, Beat, Promise!Up, IInv, Built, Stage
    <3> QED BY <2>1, <3>1, <3>2 DEF Promise!SupervisorNext
  <2>4. CASE CloseDevice
    BY <2>4 DEF CloseDevice
  <2>5. CASE ReleaseBlock
    <3>1. Promise!Down
      BY <2>5 DEF ReleaseBlock, Step, Promise!Down, IInv, Built, Stage
    <3> QED BY <3>1 DEF Promise!SupervisorNext
  <2> QED BY <1>3, <2>2, <2>3, <2>4, <2>5 DEF Inside
<1>4. CASE CheckDeadMan
  BY <1>4 DEF CheckDeadMan
<1>5. CASE Tick
  BY <1>5 DEF Tick, Promise!SupervisorNext, Promise!Tick, Later, Promise!Later, MaxAge, Promise!MaxAge
<1>6. CASE Crash
  BY <1>6 DEF Crash, Promise!SupervisorNext, Promise!Restart, MaxAge, Promise!MaxAge
<1>7. CASE SelfHeal
  BY <1>7 DEF SelfHeal, IInv, Built, Halted
<1>8. CASE UNCHANGED vars
  BY <1>8 DEF vars, process
<1> QED BY <1>1, <1>2, <1>3, <1>4, <1>5, <1>6, <1>7, <1>8 DEF Next

\* Each call of the supervisor, whatever the kernel sees in between, is one step
\* of what the module Supervisor promises the helper's connections.
THEOREM Refinement == Spec => ImplementsSupervisor
BY Invariance, PromiseInit, PromiseNext, PTL DEF Spec, ImplementsSupervisor, Promise!SupervisorSpec

-----------------------------------------------------------------------------
(* What the anchor of macOS adds.                                          *)

\* On macOS a full tunnel that is brought up again over a block in force never
\* opens it, not even when the bring-up fails or the helper dies within it.
THEOREM ReconnectTheorem == ASSUME Platform = "darwin" PROVE Spec => FullReconnectKeepsBlock
<1>1. ASSUME IInv, [Next]_vars, op.at \in UpSteps, op.cfg.full, block
      PROVE  block'
  <2>1. op # Free /\ alive
    BY <1>1 DEF IInv, Built, Halted, Free
  <2>2. CASE Inside
    <3>1. ~CleansFirst
      BY <1>1 DEF CleansFirst
    <3>2. op.at \notin {"down_block", "dead_block"}
      BY <1>1
    <3> QED BY <1>1, <2>2, <3>1, <3>2 DEF Inside, UpCheck, UpClean, UpArm, Armed, UpDevice, UpRoutes,
                UpFinish, CloseDevice, ReleaseBlock, CleanRejection, Step, kernel
  <2>3. CASE Crash
    BY <1>1, <2>3 DEF Crash, AfterDeath
  <2>4. CASE Tick \/ UNCHANGED vars
    BY <1>1, <2>4 DEF Tick, vars, kernel
  <2> QED BY <1>1, <2>1, <2>2, <2>3, <2>4 DEF Next, Call, Update, CheckDeadMan, SelfHeal, UpInvalid,
             UpEnter, DownEnter, Status, OnPeerLost, AllowedIPsRead, LiveRefused, GatewayPeerRead,
             LiveRead, Locked, AllowedIPsApply, GatewayPeerApply, GatewayPeerCommit, LiveApply
<1>2. IInv /\ [Next]_vars => [op.at \in UpSteps /\ op.cfg.full /\ block => block']_vars
  BY <1>1
<1> QED BY Invariance, <1>2, PTL DEF Spec, FullReconnectKeepsBlock

-----------------------------------------------------------------------------
(* What one connection at a time adds.                                     *)

\* The lock's holder has no live update under way; the device is the configuration's from
\* its creation on; a swap that began is the session's, and has reached the device.
Whole(c) ==
  /\ ~lag
  /\ op.at \in UpSteps => thread[c].at = "idle"
  /\ op.at \in {"up_routes", "up_finish"} => dev = op.cfg.peer
  /\ thread[c].at \in {"allow", "swapped"} => dev \in {NoPeer, thread[c].peer}
  /\ thread[c].at # "idle" /\ state = "up" => thread[c].fresh
  /\ op = Free /\ state = "up" /\ ~lastCfg.full /\ thread[c].at # "swapped" => lastCfg.peer = dev

\* No call, no session, no device.
LEMMA WholeStarts == ASSUME Init, NEW c \in Callers PROVE Whole(c)
BY DEF Init, Whole, Free, Idle

\* A step that leaves the peer, the session and the positions alone.
LEMMA WholeKept ==
  ASSUME NEW c \in Callers, Whole(c), UNCHANGED <<state, lastCfg, op, thread, dev, lag>>
  PROVE  Whole(c)'
BY DEF Whole

\* A call that takes the lock, or a bring-up that moves on before it has a device.
LEMMA WholeLocks ==
  ASSUME NEW c \in Callers, Whole(c), UNCHANGED <<state, lastCfg, thread, dev, lag>>,
         op'.at \in UpSteps => thread[c].at = "idle",
         op'.at \in {"up_routes", "up_finish"} => dev = op'.cfg.peer,
         op' # Free
  PROVE  Whole(c)'
BY DEF Whole

\* A bring-up or teardown ends without a tunnel.
LEMMA WholeEnds ==
  ASSUME NEW c \in Callers, Whole(c), op' = Free, state' # "up", lag' = FALSE \/ lag' = lag,
         dev' = NoPeer \/ dev' = dev,
         thread'[c].at = thread[c].at, thread'[c].peer = thread[c].peer
  PROVE  Whole(c)'
BY DEF Whole, Free

\* A step of the call that has the lock.
LEMMA WholeInside ==
  ASSUME NEW c \in Callers, IInv, Whole(c), Inside
  PROVE  Whole(c)'
<1>. USE DEF Step
<1>1. thread \in [Callers -> Thread] /\ op \in Lock
  BY DEF IInv, Data
<1>2. ASSUME op.at \in UpSteps, LateFailure PROVE Whole(c)'
  BY <1>2, WholeEnds DEF LateFailure, DropDevice
<1>3. ASSUME op.at \in UpSteps, CleanRejection PROVE Whole(c)'
  <2>1. state # "up"
    BY <1>3 DEF IInv, Built, Stage
  <2>. QED  BY <1>3, <2>1, WholeEnds DEF CleanRejection, kernel
<1>4. ASSUME NEW s \in UpSteps, op.at \in UpSteps, Goto(s),
             UNCHANGED <<state, lastCfg, thread, lag>>,
             s \in {"up_routes", "up_finish"} => dev' = op.cfg.peer,
             dev' = dev \/ thread[c].at = "idle"
      PROVE  Whole(c)'
  <2>1. op'.at = s /\ op'.cfg = op.cfg
    BY <1>1, <1>4, GotoMoves
  <2>2. thread[c].at = "idle" /\ ~lag /\ op' # Free
    BY <1>4, <2>1 DEF Whole, Free
  <2>. QED  BY <1>4, <2>1, <2>2 DEF Whole
<1>5. CASE UpCheck
  <2>1. op.at \in UpSteps
    BY <1>5 DEF UpCheck
  <2>2. (Goto("up_clean") /\ UNCHANGED <<state, lastCfg, thread, dev, lag>>) \/ LateFailure \/ CleanRejection
    BY <1>5 DEF UpCheck, kernel
  <2>. QED  BY <1>2, <1>3, <1>4, <2>1, <2>2
<1>6. CASE UpClean
  <2>1. op.at \in UpSteps
    BY <1>6 DEF UpClean
  <2>2. (Goto("up_arm") /\ UNCHANGED <<state, lastCfg, thread, dev, lag>>) \/ LateFailure
    BY <1>6 DEF UpClean
  <2>. QED  BY <1>2, <1>4, <2>1, <2>2
<1>7. CASE UpArm
  <2>1. op.at \in UpSteps
    BY <1>7 DEF UpArm
  <2>2. (Goto("up_device") /\ UNCHANGED <<state, lastCfg, thread, dev, lag>>) \/ LateFailure \/ CleanRejection
    BY <1>7 DEF UpArm
  <2>. QED  BY <1>2, <1>3, <1>4, <2>1, <2>2
<1>8. CASE UpDevice
  <2>1. op.at \in UpSteps /\ thread[c].at = "idle" /\ ~lag
    BY <1>8 DEF UpDevice, Whole
  <2>2. CASE /\ Goto("up_routes") /\ dev' = op.cfg.peer /\ lag' = FALSE
             /\ UNCHANGED <<state, lastCfg, thread>>
    <3>1. lag' = lag
      BY <2>1, <2>2 DEF IInv, Flags
    <3>. QED  BY <1>4, <2>1, <2>2, <3>1
  <2>. QED  BY <1>2, <1>8, <2>1, <2>2 DEF UpDevice
<1>9. CASE UpRoutes
  <2>1. op.at \in UpSteps /\ dev = op.cfg.peer
    BY <1>9 DEF UpRoutes, Whole
  <2>2. (Goto("up_finish") /\ UNCHANGED <<state, lastCfg, thread, dev, lag>>) \/ LateFailure
    BY <1>9 DEF UpRoutes
  <2>. QED  BY <1>2, <1>4, <2>1, <2>2
<1>10. CASE UpFinish
  <2>1. op.at \in UpSteps /\ dev = op.cfg.peer /\ thread[c].at = "idle" /\ ~lag
    BY <1>10 DEF UpFinish, Whole
  <2>2. CASE Reassign(op.cfg) /\ op' = Free /\ UNCHANGED <<dev, lag>>
    <3>1. lastCfg' = op.cfg /\ thread'[c].at = "idle"
      BY <1>1, <2>1, <2>2, ReassignTyped
    <3>. QED  BY <2>1, <2>2, <3>1 DEF Whole, Free
  <2>. QED  BY <1>2, <1>10, <2>1, <2>2 DEF UpFinish, kernel
<1>11. CASE CloseDevice
  <2>1. dev' = NoPeer /\ lag' = FALSE /\ UNCHANGED <<state, lastCfg, thread>>
        /\ op'.at \in {"down_block", "dead_block"}
    BY <1>1, <1>11, GotoMoves DEF CloseDevice
  <2>. QED  BY <2>1 DEF Whole, Free
<1>12. CASE ReleaseBlock
  <2>1. Reassign(NoConfig) /\ state' = "down" /\ op' = Free /\ UNCHANGED <<dev, lag>>
    BY <1>12 DEF ReleaseBlock
  <2>. QED  BY <1>1, <2>1, ReassignTyped, WholeEnds
<1>. QED  BY <1>5, <1>6, <1>7, <1>8, <1>9, <1>10, <1>11, <1>12 DEF Inside

\* The one connection begins a call: nothing of another is under way.
LEMMA WholeCall ==
  ASSUME NEW c \in Callers, IInv, Whole(c), Call(c)
  PROVE  Whole(c)'
<1>1. thread \in [Callers -> Thread] /\ op = Free /\ thread[c] = Idle
  BY DEF IInv, Data, Call, UpInvalid, UpEnter, DownEnter, Status, OnPeerLost, AllowedIPsRead,
         LiveRefused, GatewayPeerRead, LiveRead, Locked
<1>2. thread[c].at = "idle"
  BY <1>1 DEF Idle
<1>3. CASE UpInvalid(c) \/ Status(c) \/ LiveRefused(c)
  BY <1>3, WholeKept DEF UpInvalid, Status, LiveRefused, kernel
<1>4. ASSUME NEW d \in Config, UpEnter(c, d) PROVE Whole(c)'
  BY <1>2, <1>4, WholeKept, WholeLocks DEF UpEnter, kernel, Free
<1>5. CASE DownEnter(c)
  BY <1>2, <1>5, WholeKept, WholeLocks DEF DownEnter, kernel, Free
<1>6. ASSUME NEW definitive \in BOOLEAN, OnPeerLost(c, definitive) PROVE Whole(c)'
  <2>1. CASE state = "down"
    BY <1>6, <2>1, WholeKept DEF OnPeerLost
  <2>2. CASE state # "down"
    <3>1. Reassign(NoConfig) /\ state' = "failed" /\ op' = Free
          /\ (dev' = NoPeer \/ dev' = dev) /\ (lag' = FALSE \/ lag' = lag)
      BY <1>1, <1>6, <2>2 DEF OnPeerLost
    <3>. QED  BY <1>1, <3>1, ReassignTyped, WholeEnds
  <2>. QED  BY <2>1, <2>2
<1>7. ASSUME NEW next \in {"allow", "rehome"}, NEW p, LiveRead(c, next, p),
             next = "allow" => ~lastCfg.full /\ p = lastCfg.peer
      PROVE  Whole(c)'
  <2>1. /\ state = "up" /\ thread'[c] = [at |-> next, peer |-> p, fresh |-> TRUE]
        /\ UNCHANGED <<state, lastCfg, op, dev, lag>>
    BY <1>1, <1>7 DEF LiveRead, kernel
  <2>2. next = "allow" => p = dev
    BY <1>1, <1>2, <1>7, <2>1 DEF Whole
  <2>. QED  BY <1>1, <1>2, <2>1, <2>2 DEF Whole, Free
<1>8. CASE AllowedIPsRead(c)
  BY <1>7, <1>8 DEF AllowedIPsRead
<1>9. ASSUME NEW p \in Peers, GatewayPeerRead(c, p) PROVE Whole(c)'
  BY <1>7, <1>9 DEF GatewayPeerRead
<1>. QED  BY <1>3, <1>4, <1>5, <1>6, <1>8, <1>9 DEF Call

\* The one connection goes on with a call that read the session before: nothing moved since.
LEMMA WholeUpdate ==
  ASSUME NEW c \in Callers, IInv, Whole(c), Update(c)
  PROVE  Whole(c)'
<1>1. /\ thread \in [Callers -> Thread] /\ op = Free /\ lastCfg \in Config \cup {NoConfig}
      /\ thread[c].at \in LiveUpdates
  BY DEF IInv, Data, Update, AllowedIPsApply, GatewayPeerApply, GatewayPeerCommit, LiveApply, LiveUpdates
<1>2. /\ state = "up" <=> dev # NoPeer
      /\ state = "up" => lastCfg \in Config /\ lastCfg.full = bFull
  BY <1>1 DEF IInv, Built, StateIsReal
<1>3. thread[c].at # "idle" /\ ~lag
  BY <1>1 DEF LiveUpdates, Whole
<1>4. CASE AllowedIPsApply(c)
  <2>1. /\ thread[c].at = "allow" /\ thread'[c].at = "idle" /\ UNCHANGED <<state, lastCfg, op, dev>>
        /\ IF dev = NoPeer THEN lag' = lag ELSE lag' = (thread[c].peer # dev)
    BY <1>1, <1>4 DEF AllowedIPsApply, LiveApply, Idle
  <2>2. ~lag'
    BY <1>3, <2>1 DEF Whole
  <2>. QED  BY <1>1, <2>1, <2>2 DEF Whole, Free
<1>5. CASE GatewayPeerApply(c)
  <2>1. thread[c].at = "rehome" /\ UNCHANGED <<state, lastCfg, op, bFull>>
    BY <1>5 DEF GatewayPeerApply, LiveApply
  <2>2. CASE thread' = [thread EXCEPT ![c] = Idle] /\ UNCHANGED <<dev, lag>>
    <3>1. thread'[c].at = "idle"
      BY <1>1, <2>2 DEF Idle
    <3>. QED  BY <1>1, <1>3, <2>1, <2>2, <3>1 DEF Whole, Free
  <2>3. CASE /\ dev' = thread[c].peer /\ lag' = FALSE
             /\ thread' = [thread EXCEPT ![c].at = "swapped"]
    <3>1. thread'[c].at = "swapped" /\ thread'[c].peer = thread[c].peer /\ thread'[c].fresh = thread[c].fresh
      BY <1>1, <2>3 DEF Thread
    <3>. QED  BY <1>1, <1>3, <2>1, <2>3, <3>1 DEF Whole, Free
  <2>4. CASE bFull /\ dev # NoPeer /\ lag' = FALSE /\ thread' = [thread EXCEPT ![c] = Idle]
    <3>1. thread'[c].at = "idle"
      BY <1>1, <2>4 DEF Idle
    <3>2. lastCfg.full
      BY <1>2, <2>4
    <3>. QED  BY <1>1, <2>1, <2>4, <3>1, <3>2 DEF Whole, Free
  <2>. QED  BY <1>5, <2>2, <2>3, <2>4 DEF GatewayPeerApply
<1>6. CASE GatewayPeerCommit(c)
  <2>1. /\ thread[c].at = "swapped" /\ lastCfg' = Rehomed(c) /\ thread'[c].at = "idle"
        /\ UNCHANGED <<state, op, dev, lag>>
    BY <1>1, <1>6 DEF GatewayPeerCommit, LiveApply, kernel, Idle
  <2>2. state = "up" => lastCfg'.peer = dev
    <3>1. SUFFICES ASSUME state = "up" PROVE lastCfg'.peer = dev
      OBVIOUS
    <3>2. thread[c].fresh /\ dev = thread[c].peer
      BY <1>2, <1>3, <2>1, <3>1 DEF Whole
    <3>3. lastCfg' = [lastCfg EXCEPT !.peer = thread[c].peer] /\ lastCfg \in Config
      BY <1>2, <2>1, <3>1, <3>2 DEF Rehomed
    <3>. QED  BY <3>2, <3>3 DEF Config
  <2>. QED  BY <1>1, <1>3, <2>1, <2>2 DEF Whole, Free
<1>. QED  BY <1>4, <1>5, <1>6 DEF Update

\* Every step of the supervisor, with the one connection.
LEMMA WholeStep ==
  ASSUME NEW c, Callers = {c}, IInv, Whole(c), [Next]_vars
  PROVE  Whole(c)'
<1>1. c \in Callers
  OBVIOUS
<1>2. CASE \E t \in Callers : Call(t) \/ Update(t)
  BY <1>1, <1>2, WholeCall, WholeUpdate
<1>3. CASE Inside
  BY <1>1, <1>3, WholeInside
<1>4. CASE CheckDeadMan
  BY <1>1, <1>4, WholeLocks DEF CheckDeadMan, kernel, Free
<1>5. CASE Tick \/ UNCHANGED vars
  BY <1>1, <1>5, WholeKept DEF Tick, vars, process, kernel
<1>6. CASE Crash
  <2>1. op' = Free /\ state' = "down" /\ dev' = NoPeer /\ lag' = FALSE /\ thread'[c].at = "idle"
    BY <1>1, <1>6 DEF Crash, AfterDeath, Idle
  <2>. QED  BY <2>1 DEF Whole, Free
<1>7. CASE SelfHeal
  <2>1. UNCHANGED <<lastCfg, op, thread, dev, lag>> /\ state' = "down"
    BY <1>7 DEF SelfHeal
  <2>. QED  BY <2>1 DEF Whole
<1>. QED  BY <1>2, <1>3, <1>4, <1>5, <1>6, <1>7 DEF Next

\* As long as one connection at a time calls the helper, as the client does, range updates
\* reach the peer the device has, and a re-home leaves no record of the old one (state.go,
\* SetAllowedIPs and SetGatewayPeer), whatever the dead-man or a crash does in between.
THEOREM RehomeTheorem == ASSUME NEW c, Callers = {c} PROVE Spec => []RehomeIsWhole
<1>1. Init => Whole(c)
  BY WholeStarts
<1>2. IInv /\ Whole(c) /\ [Next]_vars => Whole(c)'
  BY WholeStep
<1>3. IInv /\ Whole(c) => RehomeIsWhole
  <2>1. SUFFICES ASSUME IInv, Whole(c) PROVE RehomeIsWhole
    OBVIOUS
  <2>2. (\A t \in Callers : thread[t] = Idle) => thread[c].at # "swapped"
    BY DEF Idle
  <2>. QED  BY <2>1, <2>2 DEF Whole, RehomeIsWhole, RoutesFollowPeer, SessionNamesPeer
<1>. QED  BY <1>1, <1>2, <1>3, Invariance, PTL DEF Spec

=============================================================================
