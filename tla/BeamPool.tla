------------------------------ MODULE BeamPool ------------------------------
(***************************************************************************)
(* The channels of a served share (beamchannelpool.ts): outbound sockets   *)
(* that wait idle until the proxy claims one, each for a single request.   *)
(* The counters are reservations, taken synchronously; a task outlives its *)
(* reservation while it waits.  A pool is a record, Filled is fill().      *)
(***************************************************************************)
EXTENDS Naturals

CONSTANTS
  IdleCap,      \* 2
  ActiveCap,    \* 32
  MaxSurplus    \* bound: channels refused at the cap that still wait out their delay

ASSUME PoolAssumption == IdleCap \in Nat \ {0} /\ ActiveCap \in Nat \ {0} /\ MaxSurplus \in Nat

\* opening: dialling or in backoff.  idle: unclaimed, "dead" of them closed by the proxy and
\* waiting out their delay.  surplus: claimed beyond the cap, without a reservation.
\* ending: an aborted pool has tasks left, whatever they were.
NoPool == [on |-> FALSE, opening |-> 0, idle |-> 0, dead |-> 0, active |-> 0, surplus |-> 0,
           ending |-> FALSE]

PoolShape ==
  [on : BOOLEAN, opening : Nat, idle : Nat, dead : Nat, active : Nat, surplus : Nat, ending : BOOLEAN]

Reserved(p) == p.opening + p.idle + p.active
Tasks(p) == Reserved(p) + p.surplus
Drained(p) == ~p.ending /\ Tasks(p) = 0

Least(a, b) == IF a < b THEN a ELSE b
Beyond(cap, n) == IF n < cap THEN cap - n ELSE 0

FilledFreely(p) ==                             \* faulty variant: a dial is not a reservation
  IF p.on THEN [p EXCEPT !.opening = @ + Beyond(IdleCap, p.idle)] ELSE p
Filled(p) ==
  IF p.on
  THEN [p EXCEPT !.opening = @ + Least(Beyond(IdleCap, p.idle + p.opening),
                                       Beyond(IdleCap + ActiveCap, Reserved(p)))]
  ELSE p

Opened == Filled([NoPool EXCEPT !.on = TRUE])

Claimed(p) ==
  IF p.active < ActiveCap THEN {Filled([p EXCEPT !.idle = @ - 1, !.active = @ + 1])}
  ELSE IF p.surplus < MaxSurplus THEN {[p EXCEPT !.idle = @ - 1, !.surplus = @ + 1]} ELSE {}

\* What serve() may do next, in a pool that is not aborted: a dial succeeds; a channel is
\* claimed, or closed by the proxy first; a request ends; a delay is over.
Events(p) ==
  (IF p.opening > 0 THEN {[p EXCEPT !.opening = @ - 1, !.idle = @ + 1]} ELSE {})
  \cup (IF p.idle > p.dead
        THEN {[p EXCEPT !.dead = @ + 1]} \cup Claimed(p) ELSE {})
  \cup (IF p.dead > 0 THEN {Filled([p EXCEPT !.idle = @ - 1, !.dead = @ - 1])} ELSE {})
  \cup (IF p.active > 0 THEN {Filled([p EXCEPT !.active = @ - 1])} ELSE {})
  \cup (IF p.surplus > 0 THEN {Filled([p EXCEPT !.surplus = @ - 1])} ELSE {})

\* The abort closes every channel and ends every delay, and fill() takes no more: the tasks
\* end, whatever they were.
Aborted(p) == [NoPool EXCEPT !.ending = ~Drained(p)]
Endings(p) == IF p.ending THEN {NoPool} ELSE {}

Moves(p) == IF p.on THEN Events(p) ELSE Endings(p)

\* The caps of the reservations, which no order of callbacks exceeds; and what the pool has
\* for the next visitor never runs out, but for a channel refused at the cap until it ends.
Bounded(p) ==
  /\ p.opening + p.idle <= IdleCap /\ p.active <= ActiveCap /\ p.dead <= p.idle
  /\ p.on => p.opening + p.idle + p.surplus >= IdleCap

=============================================================================
