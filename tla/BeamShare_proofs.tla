-------------------------- MODULE BeamShare_proofs --------------------------
(***************************************************************************)
(* The caps of a share's channel pools, the types, and who is listed, for  *)
(* any caps, any number of operations and instances.  A pool is a value of *)
(* BeamPool: the lemmas show that each of its operators keeps the shape    *)
(* and the caps, and the proof needs only which operator an action         *)
(* applies.  As to the map, every step is shown to start one instance or   *)
(* to withdraw one at most (EveryStep); the invariants follow from that.   *)
(***************************************************************************)
EXTENDS BeamShare, FiniteSetTheorems, TLAPS

Sound(p) == p \in PoolShape /\ Bounded(p)

\* The caps without what must be there for the next visitor: what fill() is called on.
Capped(p) ==
  /\ p \in PoolShape
  /\ p.opening + p.idle <= IdleCap /\ p.active <= ActiveCap /\ p.dead <= p.idle
AllSound == pools \in [Runs -> PoolShape] /\ \A r \in Runs : Bounded(pools[r])

LEMMA CappedFields ==
  ASSUME NEW p, Capped(p)
  PROVE  /\ p.on \in BOOLEAN /\ p.opening \in Nat /\ p.idle \in Nat /\ p.dead \in Nat
         /\ p.active \in Nat /\ p.surplus \in Nat /\ p.ending \in BOOLEAN
  BY DEF Capped, PoolShape

LEMMA SoundFields ==
  ASSUME NEW p, Sound(p)
  PROVE  /\ p \in PoolShape /\ Capped(p)
         /\ p.on \in BOOLEAN /\ p.opening \in Nat /\ p.idle \in Nat /\ p.dead \in Nat
         /\ p.active \in Nat /\ p.surplus \in Nat
         /\ p.opening + p.idle <= IdleCap /\ p.active <= ActiveCap /\ p.dead <= p.idle
         /\ p.on => p.opening + p.idle + p.surplus >= IdleCap
  BY DEF Sound, Capped, PoolShape, Bounded

\* A channel moves between two counters.
LEMMA TwoFields ==
  ASSUME NEW p \in PoolShape, NEW a \in Nat, NEW b \in Nat
  PROVE  /\ [p EXCEPT !.opening = a, !.idle = b] \in PoolShape
         /\ [p EXCEPT !.idle = a, !.dead = b] \in PoolShape
         /\ [p EXCEPT !.idle = a, !.active = b] \in PoolShape
         /\ [p EXCEPT !.idle = a, !.surplus = b] \in PoolShape
  BY DEF PoolShape

\* fill() dials no more than the idle cap leaves room for, and no less: whatever the active
\* ones hold, their cap leaves the idle ones theirs.
LEMMA FilledSound == ASSUME NEW p, Capped(p) PROVE Sound(Filled(p))
<1> DEFINE m == p.opening + p.idle
           n == Least(Beyond(IdleCap, p.idle + p.opening),
                      Beyond(IdleCap + ActiveCap, Reserved(p)))
<1>0. m \in Nat /\ m <= IdleCap /\ p.active \in Nat /\ p.active <= ActiveCap
      /\ p.idle + p.opening = m /\ Reserved(p) = m + p.active
  BY CappedFields DEF Capped, Reserved
<1>1. n \in Nat /\ n = IdleCap - m
  <2> HIDE DEF m
  <2>1. Beyond(IdleCap, m) = IdleCap - m
    BY <1>0, PoolAssumption DEF Beyond
  <2>2. Beyond(IdleCap + ActiveCap, m + p.active) = (IdleCap - m) + (ActiveCap - p.active)
    BY <1>0, PoolAssumption DEF Beyond
  <2>3. n = Least(IdleCap - m, (IdleCap - m) + (ActiveCap - p.active))
    BY <1>0, <2>1, <2>2
  <2> HIDE DEF n
  <2> QED BY <1>0, <2>3, PoolAssumption DEF Least
<1> HIDE DEF n
<1> DEFINE q == [p EXCEPT !.opening = p.opening + n]
<1>2. q \in PoolShape
  BY <1>1, CappedFields DEF Capped, PoolShape
<1>3. /\ q.opening = p.opening + n /\ q.idle = p.idle /\ q.dead = p.dead /\ q.on = p.on
      /\ q.active = p.active /\ q.surplus = p.surplus
  BY DEF Capped, PoolShape
<1> HIDE DEF q
<1>4. Bounded(q)
  BY <1>0, <1>1, <1>3, CappedFields, PoolAssumption DEF Capped, Bounded
<1>5. CASE p.on
  BY <1>2, <1>4, <1>5 DEF Sound, Filled, n, q
<1>6. CASE ~p.on
  <2>1. Filled(p) = p
    BY <1>6 DEF Filled
  <2>2. Bounded(p)
    BY <1>6 DEF Capped, Bounded
  <2> QED BY <2>1, <2>2 DEF Sound, Capped
<1> QED BY <1>5, <1>6

LEMMA NoPoolSound == Sound(NoPool)
  BY PoolAssumption DEF Sound, NoPool, PoolShape, Bounded

\* The blank pool, opened or with tasks that end.
LEMMA BlankFields ==
  /\ NoPool \in PoolShape /\ ~NoPool.on
  /\ NoPool.opening = 0 /\ NoPool.idle = 0 /\ NoPool.dead = 0 /\ NoPool.active = 0
  BY DEF NoPool, PoolShape

LEMMA OpenedSound == Sound(Opened)
<1> DEFINE p == [NoPool EXCEPT !.on = TRUE]
<1>1. p \in PoolShape /\ p.opening = 0 /\ p.idle = 0 /\ p.dead = 0 /\ p.active = 0
  BY BlankFields DEF PoolShape
<1>2. Opened = Filled(p)
  BY DEF Opened
<1> HIDE DEF p
<1>3. Capped(p)
  BY <1>1, PoolAssumption DEF Capped
<1> QED BY <1>2, <1>3, FilledSound

LEMMA AbortedSound == ASSUME NEW p PROVE Sound(Aborted(p))
<1> DEFINE e == ~Drained(p)
           q == [NoPool EXCEPT !.ending = e]
<1>1. e \in BOOLEAN
  OBVIOUS
<1>2. Aborted(p) = q
  BY DEF Aborted
<1> HIDE DEF e
<1>3. q \in PoolShape /\ ~q.on /\ q.opening = 0 /\ q.idle = 0 /\ q.dead = 0 /\ q.active = 0
  BY <1>1, BlankFields DEF PoolShape
<1> HIDE DEF q
<1> QED BY <1>2, <1>3, PoolAssumption DEF Sound, Bounded

-----------------------------------------------------------------------------
(* The events of a pool, one channel at a time.                            *)

LEMMA DialledSound ==
  ASSUME NEW p, Sound(p), p.opening > 0
  PROVE  Sound([p EXCEPT !.opening = @ - 1, !.idle = @ + 1])
<1>1. p.opening - 1 \in Nat /\ p.idle + 1 \in Nat
  BY SoundFields
<1>2. [p EXCEPT !.opening = @ - 1, !.idle = @ + 1] \in PoolShape
  BY <1>1, SoundFields, TwoFields
<1>3. Bounded([p EXCEPT !.opening = @ - 1, !.idle = @ + 1])
  BY <1>1, SoundFields, PoolAssumption DEF PoolShape, Bounded
<1> QED BY <1>2, <1>3 DEF Sound

\* What a closed channel, a request or a delay gives back, before fill() takes it.
LEMMA ExpiredCapped ==
  ASSUME NEW p, Sound(p), p.dead > 0
  PROVE  Capped([p EXCEPT !.idle = @ - 1, !.dead = @ - 1])
<1>1. p.idle - 1 \in Nat /\ p.dead - 1 \in Nat
  BY SoundFields
<1>2. [p EXCEPT !.idle = @ - 1, !.dead = @ - 1] \in PoolShape
  BY <1>1, SoundFields, TwoFields
<1> QED BY <1>1, <1>2, SoundFields, PoolAssumption DEF PoolShape, Capped

LEMMA EndedCapped ==
  ASSUME NEW p, Sound(p)
  PROVE  /\ p.active > 0 => Capped([p EXCEPT !.active = @ - 1])
         /\ p.surplus > 0 => Capped([p EXCEPT !.surplus = @ - 1])
  BY SoundFields, PoolAssumption DEF Capped, PoolShape

\* The proxy closes an idle channel.
LEMMA DeadSound ==
  ASSUME NEW p, Sound(p), p.idle > p.dead
  PROVE  Sound([p EXCEPT !.dead = @ + 1])
  BY SoundFields, PoolAssumption DEF Sound, PoolShape, Bounded

\* A claim takes a live idle channel; at the cap it holds no reservation.
LEMMA ClaimedSound ==
  ASSUME NEW p, Sound(p), p.idle > p.dead, NEW q \in Claimed(p)
  PROVE  Sound(q)
<1>0. p.idle - 1 \in Nat /\ p.active + 1 \in Nat /\ p.surplus + 1 \in Nat
  BY SoundFields
<1>1. CASE p.active < ActiveCap
  <2>1. [p EXCEPT !.idle = @ - 1, !.active = @ + 1] \in PoolShape
    BY <1>0, SoundFields, TwoFields
  <2>2. Capped([p EXCEPT !.idle = @ - 1, !.active = @ + 1])
    BY <1>0, <1>1, <2>1, SoundFields, PoolAssumption DEF PoolShape, Capped
  <2>3. q = Filled([p EXCEPT !.idle = @ - 1, !.active = @ + 1])
    BY <1>1 DEF Claimed
  <2> QED BY <2>2, <2>3, FilledSound
<1>2. CASE ~(p.active < ActiveCap)
  <2>1. [p EXCEPT !.idle = @ - 1, !.surplus = @ + 1] \in PoolShape
    BY <1>0, SoundFields, TwoFields
  <2>2. Bounded([p EXCEPT !.idle = @ - 1, !.surplus = @ + 1])
    BY <1>0, SoundFields, PoolAssumption DEF PoolShape, Bounded
  <2>3. q = [p EXCEPT !.idle = @ - 1, !.surplus = @ + 1]
    BY <1>2 DEF Claimed
  <2> QED BY <2>1, <2>2, <2>3 DEF Sound
<1> QED BY <1>1, <1>2

LEMMA EventsSound == ASSUME NEW p, Sound(p), NEW q \in Events(p) PROVE Sound(q)
<1>1. \/ p.opening > 0 /\ q = [p EXCEPT !.opening = @ - 1, !.idle = @ + 1]
      \/ p.idle > p.dead /\ q = [p EXCEPT !.dead = @ + 1]
      \/ p.idle > p.dead /\ q \in Claimed(p)
      \/ p.dead > 0 /\ q = Filled([p EXCEPT !.idle = @ - 1, !.dead = @ - 1])
      \/ p.active > 0 /\ q = Filled([p EXCEPT !.active = @ - 1])
      \/ p.surplus > 0 /\ q = Filled([p EXCEPT !.surplus = @ - 1])
  BY DEF Events
<1> QED BY <1>1, DialledSound, DeadSound, ClaimedSound, ExpiredCapped, EndedCapped, FilledSound

LEMMA EndingsSound == ASSUME NEW p, NEW q \in Endings(p) PROVE Sound(q)
  BY NoPoolSound DEF Endings

LEMMA MovesSound == ASSUME NEW p, Sound(p), NEW q \in Moves(p) PROVE Sound(q)
  BY EventsSound, EndingsSound DEF Moves

-----------------------------------------------------------------------------
(* The pools of all instances.                                             *)

LEMMA OnePoolSound ==
  ASSUME AllSound, NEW r, NEW p, r \in Runs => Sound(p), pools' = [pools EXCEPT ![r] = p]
  PROVE  AllSound'
  BY DEF AllSound, Sound

LEMMA KeptSound == ASSUME AllSound, pools' = pools PROVE AllSound'
  BY DEF AllSound

LEMMA PrunedSound == ASSUME AllSound, pools' = Pruned PROVE AllSound'
<1>1. CASE listed = 0
  BY <1>1, KeptSound DEF Pruned
<1>2. CASE listed # 0
  <2>1. listed \in Runs => Sound(Aborted(pools[listed]))
    BY AbortedSound
  <2>2. pools' = [pools EXCEPT ![listed] = Aborted(pools[listed])]
    BY <1>2 DEF Pruned
  <2> QED BY <2>1, <2>2, OnePoolSound
<1> QED BY <1>1, <1>2

LEMMA UpdatedSound ==
  ASSUME AllSound, NEW r, NEW version, NEW open, Updated(r, version, open)
  PROVE  AllSound'
<1>1. pools' = pools \/ pools' = Pruned
  BY DEF Updated
<1> QED BY <1>1, KeptSound, PrunedSound

LEMMA Initially == Init => AllSound
  BY NoPoolSound DEF Init, AllSound, Sound

\* Every action keeps the pools, drains the listed one, opens one or moves one.
LEMMA Step == AllSound /\ [Next]_vars => AllSound'
<1> SUFFICES ASSUME AllSound, [Next]_vars PROVE AllSound'
  OBVIOUS
<1>1. ASSUME NEW o \in Ops, Begin(o) PROVE AllSound'
  BY <1>1, KeptSound, PrunedSound DEF Begin, Close
<1>2. ASSUME NEW o \in Ops, Operation(o) PROVE AllSound'
  <2>1. CASE ServerTakes(o) \/ Throws(o) \/ ServerIssues(o)
    BY <2>1, KeptSound DEF ServerTakes, Throws, ServerIssues
  <2>2. CASE RetryAnswered(o)
    BY <2>2, KeptSound DEF RetryAnswered, Starting
  <2>3. CASE ActionAnswered(o)
    <3>1. \/ pools' = pools \/ Updated(listed, ops[o].version, ops[o].open)
      BY <2>3 DEF ActionAnswered, Starting
    <3> QED BY <3>1, KeptSound, UpdatedSound
  <2>4. CASE Issued(o)
    <3>1. \/ pools' = [pools EXCEPT ![ops[o].run] = Opened]
          \/ pools' = [Pruned EXCEPT ![ops[o].run] = Opened]
      BY <2>4 DEF Issued
    <3>2. Pruned \in [Runs -> PoolShape] /\ \A r \in Runs : Bounded(Pruned[r])
      BY AbortedSound DEF Pruned, AllSound, Sound
    <3>3. Opened \in PoolShape /\ Bounded(Opened)
      BY OpenedSound DEF Sound
    <3> HIDE DEF Pruned
    <3> QED BY <3>1, <3>2, <3>3 DEF AllSound
  <2>5. CASE IssueFails(o)
    BY <2>5, PrunedSound DEF IssueFails, Close
  <2> QED BY <1>2, <2>1, <2>2, <2>3, <2>4, <2>5 DEF Operation
<1>3. ASSUME NEW r \in Runs, Heartbeat(r) \/ ExpiryFires(r) PROVE AllSound'
  <2>1. pools' = pools \/ pools' = Pruned
    BY <1>3 DEF Heartbeat, BeatStarts, BeatProbed, ServerBeats, BeatRefused, BeatLate, BeatEnds,
                BeatGivesUp, ExpiryFires, Close
  <2> QED BY <2>1, KeptSound, PrunedSound
<1>4. ASSUME NEW r \in Runs, PoolMoves(r) PROVE AllSound'
  <2>1. PICK p \in Moves(pools[r]) : pools' = [pools EXCEPT ![r] = p]
    BY <1>4 DEF PoolMoves
  <2>2. Sound(pools[r])
    BY DEF AllSound, Sound
  <2>3. Sound(p)
    BY <2>2, MovesSound
  <2> QED BY <2>1, <2>3, OnePoolSound
<1>5. CASE View
  BY <1>5, PrunedSound, UpdatedSound DEF View, Close
<1>6. CASE Retire \/ SignIn \/ ServerStops
  BY <1>6, KeptSound, PrunedSound DEF Retire, SignIn, ServerStops, Close
<1>7. CASE UNCHANGED vars
  BY <1>7, KeptSound DEF vars
<1> QED BY <1>1, <1>2, <1>3, <1>4, <1>5, <1>6, <1>7 DEF Next

\* In every reachable state each instance's pool is a pool, within its caps.
THEOREM Invariance == Spec => []AllSound
<1>1. Init => AllSound
  BY Initially
<1>2. AllSound /\ [Next]_vars => AllSound'
  BY Step
<1> QED BY <1>1, <1>2, PTL DEF Spec

\* The reservations of idle and active channels never exceed the caps, and what a pool has for
\* the next visitor never runs out but for channels refused at the cap (beamchannelpool.ts),
\* whatever order dials, claims, closures, delays, aborts and restarts come in.
THEOREM BoundedTheorem == Spec => []PoolsBounded
<1>1. AllSound => PoolsBounded
  BY DEF AllSound, PoolsBounded
<1> QED BY <1>1, Invariance, PTL

-----------------------------------------------------------------------------
(* Types.  The records of instances and operations, field by field.        *)

Instance == [at : {"none", "boot", "serving", "aborted"},
             beat : {"off", "rest", "probe", "sent", "late"}, answer : {"none", "ok", "no"},
             told : Versions, version : Versions, account : Accounts]

Awaited == [at : {"idle", "read", "send", "boot"}, kind : Kinds \cup {"none"},
            epoch : Epochs, account : Accounts, version : Versions, open : BOOLEAN,
            answer : {"none", "ok", "no"}, run : {0} \cup Runs]

\* Started, and not withdrawn.
Lives(x) == x.at \in {"boot", "serving"}

Share == [state : {"active", "paused", "gone"}, version : Versions, generation : {0} \cup Runs]

\* Who may be listed.
ListedLives == listed # 0 => Lives(runs[listed])

Typed ==
  /\ server \in Share /\ session \in [account : Accounts, epoch : Epochs]
  /\ runs \in [Runs -> Instance] /\ listed \in {0} \cup Runs /\ ops \in [Ops -> Awaited]
  /\ exposed \subseteq Runs

\* The type invariant, in parts.
LEMMA TypedIs == TypeOK <=> Typed /\ pools \in [Runs -> PoolShape] /\ ListedLives
  BY DEF TypeOK, Typed, ListedLives, Lives, Share, Instance, Awaited

\* Zero is no instance, one is a version.
LEMMA Numbers == 1 \in Versions /\ 0 \notin Runs /\ 0 \in Accounts /\ 0 \in Epochs
  BY BeamAssumption DEF Versions, Accounts, Epochs

\* The fields of an instance, of an operation and of the share.
LEMMA InstanceFields ==
  ASSUME NEW x \in Instance
  PROVE  /\ x.at \in {"none", "boot", "serving", "aborted"}
         /\ x.beat \in {"off", "rest", "probe", "sent", "late"}
         /\ x.answer \in {"none", "ok", "no"} /\ x.told \in Versions /\ x.version \in Versions
         /\ x.account \in Accounts
  BY DEF Instance

LEMMA AwaitedFields ==
  ASSUME NEW x \in Awaited
  PROVE  /\ x.at \in {"idle", "read", "send", "boot"} /\ x.kind \in Kinds \cup {"none"}
         /\ x.epoch \in Epochs /\ x.account \in Accounts /\ x.version \in Versions
         /\ x.open \in BOOLEAN /\ x.answer \in {"none", "ok", "no"} /\ x.run \in {0} \cup Runs
  BY DEF Awaited

LEMMA ShareFields ==
  ASSUME NEW x \in Share
  PROVE  /\ x.state \in {"active", "paused", "gone"} /\ x.version \in Versions
         /\ x.generation \in {0} \cup Runs
  BY DEF Share

\* What has not begun.
LEMMA Blanks == NoRun \in Instance /\ NoOp \in Awaited
  BY Numbers DEF NoRun, NoOp, Instance, Awaited

\* A version more.
LEMMA NewerIs ==
  ASSUME NEW s \in {"active", "paused", "gone"}, server \in Share, server.version < MaxVersion
  PROVE  Newer(s) \in Share
<1>1. server.version + 1 \in Versions
  BY ShareFields, BeamAssumption DEF Versions
<1> QED BY <1>1 DEF Newer, Share

\* The first instance not started yet.
LEMMA FreshFirst ==
  ASSUME Fresh # {}
  PROVE  (CHOOSE q \in Fresh : \A p \in Fresh : q <= p) \in Fresh
<1>1. Fresh \subseteq Nat
  BY BeamAssumption DEF Fresh
<1> DEFINE Below(q) == {p \in Fresh : p <= q}
           Heads == {Below(q) : q \in Fresh}
<1>2. IsWellFoundedOn(StrictSubsetOrdering(Runs), SUBSET Runs)
  BY FS_StrictSubsetOrderingWellFounded, FS_FiniteSubsetsOfFinite, BeamAssumption
<1>3. Heads \subseteq SUBSET Runs /\ Heads # {}
  BY DEF Fresh
<1>4. PICK h \in Heads : \A g \in Heads : ~(<<g, h>> \in StrictSubsetOrdering(Runs))
  <2> HIDE DEF Heads
  <2> QED BY <1>2, <1>3, WFMin
<1>5. PICK q \in Fresh : h = Below(q)
  OBVIOUS
<1> HIDE DEF Heads
<1>6. ASSUME NEW p \in Fresh PROVE q <= p
  <2>1. p \in Nat /\ q \in Nat
    BY <1>1
  <2>2. CASE p < q
    <3>1. \A k \in Fresh : k \in Nat /\ (k <= p => k <= q)
      BY <1>1, <2>1, <2>2
    <3>2. q <= q /\ ~(q <= p)
      BY <2>1, <2>2
    <3>3. Below(p) \subseteq Below(q) /\ Below(p) # Below(q)
      BY <3>1, <3>2
    <3>4. <<Below(p), h>> \in StrictSubsetOrdering(Runs)
      BY <1>3, <1>5, <3>3 DEF StrictSubsetOrdering, Heads
    <3> QED BY <1>4, <3>4 DEF Heads
  <2> QED BY <2>1, <2>2
<1> QED BY <1>6

-----------------------------------------------------------------------------
(* What each action writes.  The typing of the actions, one by one.        *)

\* close() withdraws the listed instance, and leaves the others as they are.
LEMMA ClosedIs ==
  ASSUME listed \in {0} \cup Runs, NEW rs \in [Runs -> Instance]
  PROVE  /\ Closed(rs) \in [Runs -> Instance]
         /\ \A r \in Runs : /\ r # listed => Closed(rs)[r] = rs[r]
                            /\ r = listed => Closed(rs)[r].at = "aborted"
<1>1. CASE listed = 0
  BY <1>1, Numbers DEF Closed
<1>2. CASE listed # 0
  <2> DEFINE run == rs[listed]
             late == IF run.beat \in {"probe", "sent"} THEN "late" ELSE "off"
             a == [NoRun EXCEPT !.at = "aborted"]
             b == [a EXCEPT !.beat = late]
  <2>1. a \in Instance /\ a.at = "aborted"
    BY Blanks DEF Instance
  <2>2. late \in {"off", "rest", "probe", "sent", "late"}
    OBVIOUS
  <2> HIDE DEF a, late
  <2>3. b \in Instance /\ b.at = "aborted"
    BY <2>1, <2>2 DEF Instance
  <2>4. Closed(rs) = [rs EXCEPT ![listed] = b]
    BY <1>2 DEF Closed, Aborting, a, late
  <2> HIDE DEF b
  <2> QED BY <1>2, <2>3, <2>4
<1> QED BY <1>1, <1>2

\* updateShare() on the listed instance: it stays listed, or it is withdrawn.
LEMMA UpdatedIs ==
  ASSUME Typed, NEW r \in Runs, r = listed, NEW version \in Versions, NEW open \in BOOLEAN,
         Updated(r, version, open)
  PROVE  /\ runs' \in [Runs -> Instance] /\ listed' \in {0, listed}
         /\ \A q \in Runs : q # listed => runs'[q] = runs[q]
         /\ listed' = listed => runs'[listed].at = runs[listed].at
         /\ listed' # listed => runs'[listed].at = "aborted"
<1>0. runs \in [Runs -> Instance] /\ listed \in {0} \cup Runs /\ listed # 0
  BY Numbers DEF Typed
<1> DEFINE x == [runs[r] EXCEPT !.version = version]
           rs == [runs EXCEPT ![r] = x]
<1>1. x \in Instance /\ x.at = runs[r].at
  BY <1>0 DEF Instance
<1>3. \/ runs' = runs /\ listed' = listed
      \/ runs' = rs /\ listed' = listed
      \/ runs' = Closed(rs) /\ listed' = 0
  BY DEF Updated
<1> HIDE DEF x
<1>4. rs \in [Runs -> Instance] /\ \A q \in Runs : rs[q] = IF q = r THEN x ELSE runs[q]
  BY <1>0, <1>1
<1> HIDE DEF rs
<1>5. CASE runs' = runs /\ listed' = listed
  BY <1>0, <1>5
<1>6. CASE runs' = rs /\ listed' = listed
  BY <1>0, <1>1, <1>4, <1>6
<1>7. CASE runs' = Closed(rs) /\ listed' = 0
  BY <1>0, <1>1, <1>4, <1>7, ClosedIs
<1> QED BY <1>3, <1>5, <1>6, <1>7

\* start(): an instance that was not started is listed.
LEMMA StartingIs ==
  ASSUME Typed, NEW o \in Ops, NEW epoch \in Epochs, Starting(o, epoch)
  PROVE  /\ listed' \in Fresh
         /\ runs' \in [Runs -> Instance] /\ ops' \in [Ops -> Awaited]
         /\ \A q \in Runs : q # listed' => runs'[q] = runs[q]
         /\ runs'[listed'].at = "boot"
         /\ ops'[o].at = "boot" /\ ops'[o].run = listed'
         /\ \A p \in Ops : p # o => ops'[p] = ops[p]
         /\ exposed \subseteq exposed' /\ exposed' \subseteq exposed \cup {listed'}
         /\ \A p \in Ops \ {o} : Resuming(p) => listed' \in exposed'
<1>0. runs \in [Runs -> Instance] /\ ops \in [Ops -> Awaited] /\ ops[o] \in Awaited
  BY DEF Typed
<1>1. PICK r \in Fresh : /\ listed' = r
                         /\ runs' = [runs EXCEPT ![r] = [NoRun EXCEPT !.at = "boot",
                              !.version = ops[o].version, !.account = ops[o].account]]
                         /\ ops' = [ops EXCEPT ![o] = [ops[o] EXCEPT !.at = "boot", !.run = r,
                              !.kind = "none", !.epoch = epoch, !.answer = "none"]]
                         /\ exposed' = IF \E p \in Ops \ {o} : Resuming(p)
                                       THEN exposed \cup {r} ELSE exposed
  BY FreshFirst DEF Starting
<1>2. r \in Runs /\ ops[o].version \in Versions /\ ops[o].account \in Accounts
  BY <1>0, AwaitedFields DEF Fresh
<1> DEFINE a == [NoRun EXCEPT !.at = "boot"]
           b == [a EXCEPT !.version = ops[o].version]
           c == [b EXCEPT !.account = ops[o].account]
           u == [ops[o] EXCEPT !.at = "boot"]
           v == [u EXCEPT !.run = r]
           w == [v EXCEPT !.kind = "none"]
           x == [w EXCEPT !.epoch = epoch]
           y == [x EXCEPT !.answer = "none"]
<1>3. runs' = [runs EXCEPT ![r] = c] /\ ops' = [ops EXCEPT ![o] = y]
  BY <1>1
<1>4. a \in Instance /\ a.at = "boot"
  BY Blanks DEF Instance
<1> HIDE DEF a
<1>5. b \in Instance /\ b.at = "boot"
  BY <1>2, <1>4 DEF Instance
<1> HIDE DEF b
<1>6. c \in Instance /\ c.at = "boot"
  BY <1>2, <1>5 DEF Instance
<1> HIDE DEF c
<1>7. u \in Awaited /\ u.at = "boot"
  BY <1>0 DEF Awaited
<1> HIDE DEF u
<1>8. v \in Awaited /\ v.at = "boot" /\ v.run = r
  BY <1>2, <1>7 DEF Awaited
<1> HIDE DEF v
<1>9. w \in Awaited /\ w.at = "boot" /\ w.run = r
  BY <1>8 DEF Awaited
<1> HIDE DEF w
<1>10. x \in Awaited /\ x.at = "boot" /\ x.run = r
  BY <1>9 DEF Awaited
<1> HIDE DEF x
<1>11. y \in Awaited /\ y.at = "boot" /\ y.run = r
  BY <1>10 DEF Awaited
<1> HIDE DEF y
<1>12. ops' \in [Ops -> Awaited] /\ ops'[o] = y /\ \A p \in Ops : p # o => ops'[p] = ops[p]
  BY <1>0, <1>3, <1>11
<1>13. runs' \in [Runs -> Instance] /\ runs'[r] = c /\ \A q \in Runs : q # r => runs'[q] = runs[q]
  BY <1>0, <1>2, <1>3, <1>6
<1>14. /\ exposed \subseteq exposed' /\ exposed' \subseteq exposed \cup {r}
       /\ \A p \in Ops \ {o} : Resuming(p) => r \in exposed'
  BY <1>1
<1> QED BY <1>1, <1>6, <1>11, <1>12, <1>13, <1>14

-----------------------------------------------------------------------------
(* The actions, each as what it may do to the map and to the operations.   *)

\* An instance is not unwithdrawn, and one that leaves the map is withdrawn.
Withers ==
  /\ listed' \in {0, listed} /\ exposed' = exposed
  /\ \A q \in Runs : /\ runs[q].at # "none" => runs'[q].at # "none"
                     /\ Lives(runs'[q]) => Lives(runs[q]) /\ (q = listed => q = listed')
                     /\ q = listed' /\ Lives(runs[q]) => Lives(runs'[q])

\* No operation starts an instance, and one that resumes has closed what was listed.
OpsCarry ==
  \A p \in Ops :
    /\ ops'[p].at = "boot" => ops[p].at = "boot" /\ ops'[p].run = ops[p].run
    /\ Resuming(p)' => listed' = 0 \/ Resuming(p)

\* The map untouched.
LEMMA SameWithers ==
  ASSUME Typed, UNCHANGED <<runs, listed, exposed>> PROVE Withers
  BY DEF Withers

\* The operations untouched.
LEMMA SameCarries ==
  ASSUME UNCHANGED ops PROVE OpsCarry
  BY DEF OpsCarry, Resuming

\* One instance written, not its withdrawal.
LEMMA WrittenWithers ==
  ASSUME Typed, UNCHANGED <<listed, exposed>>, NEW r \in Runs, NEW x \in Instance,
         runs' = [runs EXCEPT ![r] = x],
         runs[r].at # "none" => x.at # "none", Lives(x) <=> Lives(runs[r])
  PROVE  Withers /\ runs' \in [Runs -> Instance]
<1>1. runs \in [Runs -> Instance]
  BY DEF Typed
<1>2. \A q \in Runs : runs'[q] = IF q = r THEN x ELSE runs[q]
  BY <1>1
<1>3. runs' \in [Runs -> Instance]
  BY <1>1
<1>4. \A q \in Runs : /\ runs[q].at # "none" => runs'[q].at # "none"
                      /\ Lives(runs'[q]) <=> Lives(runs[q])
  BY <1>2
<1> QED BY <1>3, <1>4 DEF Withers

\* Whatever is listed is closed, after instances were written and not their withdrawals.
LEMMA ClosingWithers ==
  ASSUME Typed, NEW rs \in [Runs -> Instance],
         \A q \in Runs : /\ runs[q].at # "none" => rs[q].at # "none"
                         /\ Lives(rs[q]) => Lives(runs[q]),
         NEW ts \in [Runs -> Instance], \A q \in Runs : ts[q].at = Closed(rs)[q].at,
         runs' = ts, listed' = 0, exposed' = exposed
  PROVE  Withers
<1>1. \A q \in Runs : /\ q # listed => Closed(rs)[q] = rs[q]
                      /\ q = listed => Closed(rs)[q].at = "aborted"
  BY ClosedIs DEF Typed
<1>2. ASSUME NEW q \in Runs
      PROVE  /\ runs[q].at # "none" => ts[q].at # "none"
             /\ Lives(ts[q]) => Lives(runs[q]) /\ q # listed
  <2>1. CASE q = listed
    BY <1>1, <2>1 DEF Lives
  <2>2. CASE q # listed
    BY <1>1, <2>2 DEF Lives
  <2> QED BY <2>1, <2>2
<1>3. \A q \in Runs : q # 0
  BY Numbers
<1> QED BY <1>2, <1>3 DEF Withers

\* close().
LEMMA CloseWithers ==
  ASSUME Typed, Close, exposed' = exposed
  PROVE  Withers /\ runs' \in [Runs -> Instance] /\ listed' = 0
<1>1. runs \in [Runs -> Instance] /\ listed \in {0} \cup Runs /\ runs' = Closed(runs) /\ listed' = 0
  BY DEF Typed, Close
<1>2. Closed(runs) \in [Runs -> Instance]
  BY <1>1, ClosedIs
<1> QED BY <1>1, <1>2, ClosingWithers

\* updateShare() of the listed instance.
LEMMA UpdatedWithers ==
  ASSUME Typed, listed # 0, NEW version \in Versions, NEW open \in BOOLEAN,
         Updated(listed, version, open), exposed' = exposed
  PROVE  Withers /\ runs' \in [Runs -> Instance] /\ listed' \in {0, listed}
<1>1. listed \in Runs
  BY DEF Typed
<1>2. /\ runs' \in [Runs -> Instance] /\ listed' \in {0, listed}
      /\ \A q \in Runs : q # listed => runs'[q] = runs[q]
      /\ listed' = listed => runs'[listed].at = runs[listed].at
      /\ listed' # listed => runs'[listed].at = "aborted"
  BY <1>1, UpdatedIs
<1>3. CASE listed' = listed
  BY <1>1, <1>2, <1>3 DEF Withers, Lives
<1>4. CASE listed' # listed
  BY <1>1, <1>2, <1>4, Numbers DEF Withers, Lives
<1> QED BY <1>2, <1>3, <1>4

\* The end of a heartbeat loop.
LEMMA GivenUpWithers ==
  ASSUME Typed, NEW r \in Runs, NEW rs \in [Runs -> Instance],
         \A q \in Runs : /\ runs[q].at # "none" => rs[q].at # "none"
                         /\ Lives(rs[q]) => Lives(runs[q]),
         runs' = [Closed(rs) EXCEPT ![r].beat = "off"], listed' = 0, exposed' = exposed
  PROVE  Withers /\ runs' \in [Runs -> Instance]
<1> DEFINE cs == Closed(rs)
           x == [cs[r] EXCEPT !.beat = "off"]
<1>1. cs \in [Runs -> Instance]
  BY ClosedIs DEF Typed
<1>2. runs' = [cs EXCEPT ![r].beat = "off"]
  OBVIOUS
<1>3. \A q \in Runs : cs[q].at = Closed(rs)[q].at
  OBVIOUS
<1> HIDE DEF cs
<1>4. x \in Instance /\ x.at = cs[r].at
  BY <1>1 DEF Instance
<1>5. runs' = [cs EXCEPT ![r] = x]
  BY <1>1, <1>2
<1> HIDE DEF x
<1>6. runs' \in [Runs -> Instance] /\ \A q \in Runs : runs'[q] = IF q = r THEN x ELSE cs[q]
  BY <1>1, <1>4, <1>5
<1>7. \A q \in Runs : runs'[q].at = Closed(rs)[q].at
  BY <1>3, <1>4, <1>6
<1> QED BY <1>6, <1>7, ClosingWithers

LEMMA GivesUpWithers ==
  ASSUME Typed, NEW r \in Runs, BeatGivesUp(r), exposed' = exposed
  PROVE  Withers /\ runs' \in [Runs -> Instance]
<1>1. runs \in [Runs -> Instance]
  BY DEF Typed
<1> QED BY <1>1, GivenUpWithers DEF BeatGivesUp

\* One operation written.
LEMMA OperationWritten ==
  ASSUME Typed, NEW o \in Ops, NEW x \in Awaited, ops' = [ops EXCEPT ![o] = x]
  PROVE  /\ ops' \in [Ops -> Awaited] /\ ops'[o] = x
         /\ \A p \in Ops : p # o => ops'[p] = ops[p]
  BY DEF Typed

LEMMA OperationCarries ==
  ASSUME Typed, NEW o \in Ops, NEW x \in Awaited, ops' = [ops EXCEPT ![o] = x],
         x.at = "boot" => ops[o].at = "boot" /\ x.run = ops[o].run,
         x.at = "send" /\ x.kind = "resume" => listed' = 0 \/ Resuming(o)
  PROVE  OpsCarry /\ ops' \in [Ops -> Awaited]
<1>1. /\ ops' \in [Ops -> Awaited] /\ ops'[o] = x
      /\ \A p \in Ops : p # o => ops'[p] = ops[p]
  BY OperationWritten
<1> QED BY <1>1 DEF OpsCarry, Resuming

\* The operation ends.
LEMMA EndsCarries ==
  ASSUME Typed, NEW o \in Ops, Ends(o) PROVE OpsCarry /\ ops' \in [Ops -> Awaited]
<1>1. NoOp.at = "idle"
  BY DEF NoOp
<1> QED BY <1>1, Blanks, OperationCarries DEF Ends

Apart == UNCHANGED <<server, session>>
Quiet == Apart /\ exposed' = exposed

\* An operation begins: a withdrawal or a resume closes what is listed.
LEMMA BeginEffect ==
  ASSUME Typed, NEW o \in Ops, Begin(o) PROVE Typed' /\ Withers /\ OpsCarry
<1>0. /\ Quiet /\ session.epoch \in Epochs /\ session.account \in Accounts
      /\ server.version \in Versions
  BY ShareFields DEF Begin, Quiet, Apart, Typed
<1>1. CASE /\ ops' = [ops EXCEPT ![o] = [NoOp EXCEPT !.at = "read", !.kind = "retry",
                                                  !.account = session.account]]
           /\ UNCHANGED <<runs, listed, pools>>
  <2> DEFINE a == [NoOp EXCEPT !.at = "read"]
             b == [a EXCEPT !.kind = "retry"]
             c == [b EXCEPT !.account = session.account]
  <2>0. ops' = [ops EXCEPT ![o] = c]
    BY <1>1
  <2>1. a \in Awaited /\ a.at = "read"
    BY Blanks DEF Awaited
  <2> HIDE DEF a
  <2>2. b \in Awaited /\ b.at = "read"
    BY <2>1 DEF Awaited, Kinds
  <2> HIDE DEF b
  <2>3. c \in Awaited /\ c.at = "read"
    BY <1>0, <2>2 DEF Awaited
  <2> HIDE DEF c
  <2>4. OpsCarry /\ ops' \in [Ops -> Awaited]
    BY <2>0, <2>3, OperationCarries
  <2> QED BY <1>0, <1>1, <2>4, SameWithers DEF Typed, Quiet, Apart
<1>2. ASSUME NEW kind \in Kinds,
             ops' = [ops EXCEPT ![o] =
               [NoOp EXCEPT !.at = "send", !.kind = kind, !.epoch = session.epoch,
                            !.account = session.account, !.version = server.version]],
             IF kind = "edit" THEN UNCHANGED <<runs, listed, pools>> ELSE Close
      PROVE  Typed' /\ Withers /\ OpsCarry
  <2> DEFINE a == [NoOp EXCEPT !.at = "send"]
             b == [a EXCEPT !.kind = kind]
             c == [b EXCEPT !.epoch = session.epoch]
             d == [c EXCEPT !.account = session.account]
             e == [d EXCEPT !.version = server.version]
  <2>0. ops' = [ops EXCEPT ![o] = e]
    BY <1>2
  <2>1. a \in Awaited /\ a.at = "send"
    BY Blanks DEF Awaited
  <2> HIDE DEF a
  <2>2. b \in Awaited /\ b.at = "send" /\ b.kind = kind
    BY <1>2, <2>1 DEF Awaited
  <2> HIDE DEF b
  <2>3. c \in Awaited /\ c.at = "send" /\ c.kind = kind
    BY <1>0, <2>2 DEF Awaited
  <2> HIDE DEF c
  <2>4. d \in Awaited /\ d.at = "send" /\ d.kind = kind
    BY <1>0, <2>3 DEF Awaited
  <2> HIDE DEF d
  <2>5. e \in Awaited /\ e.at = "send" /\ e.kind = kind
    BY <1>0, <2>4 DEF Awaited
  <2> HIDE DEF e
  <2>6. Withers /\ runs' \in [Runs -> Instance] /\ listed' \in {0} \cup Runs
        /\ (kind = "resume" => listed' = 0)
    <3>1. CASE kind # "edit"
      BY <1>0, <1>2, <3>1, CloseWithers DEF Quiet
    <3>2. CASE kind = "edit"
      BY <1>0, <1>2, <3>2, SameWithers DEF Typed, Quiet
    <3> QED BY <3>1, <3>2
  <2>7. OpsCarry /\ ops' \in [Ops -> Awaited]
    BY <2>0, <2>5, <2>6, OperationCarries
  <2> QED BY <1>0, <2>6, <2>7 DEF Typed, Quiet, Apart
<1> QED BY <1>1, <1>2 DEF Begin

\* A step of the server or of the account: neither map nor operations.
LEMMA ElsewhereEffect ==
  ASSUME Typed, UNCHANGED <<runs, listed, ops, exposed>>,
         server' \in Share, session' \in [account : Accounts, epoch : Epochs]
  PROVE  Typed' /\ Withers /\ OpsCarry
  BY SameWithers, SameCarries DEF Typed

\* A step of the map and the operations.
LEMMA HereEffect ==
  ASSUME Typed, Withers, OpsCarry, Quiet,
         runs' \in [Runs -> Instance], ops' \in [Ops -> Awaited]
  PROVE  Typed' /\ Withers /\ OpsCarry
<1>1. listed' \in {0} \cup Runs
  BY DEF Withers, Typed
<1> QED BY <1>1 DEF Typed, Quiet, Apart

\* The control plane answers.
LEMMA TakesEffect ==
  ASSUME Typed, NEW o \in Ops, ServerTakes(o) PROVE Typed' /\ Withers /\ OpsCarry
<1>0. /\ server \in Share /\ server.version \in Versions /\ ops[o] \in Awaited
      /\ UNCHANGED <<session, runs, listed, exposed>> /\ ops[o].at \in {"read", "send"}
  BY ShareFields DEF ServerTakes, Typed
<1>1. ASSUME NEW v \in Versions, NEW n \in BOOLEAN, server' \in Share,
             ops' = [ops EXCEPT ![o] = [ops[o] EXCEPT !.answer = "ok", !.version = v, !.open = n]]
      PROVE  Typed' /\ Withers /\ OpsCarry
  <2> DEFINE a == [ops[o] EXCEPT !.answer = "ok"]
             b == [a EXCEPT !.version = v]
             c == [b EXCEPT !.open = n]
  <2>1. a \in Awaited /\ a.at = ops[o].at /\ a.kind = ops[o].kind
    BY <1>0 DEF Awaited
  <2> HIDE DEF a
  <2>2. b \in Awaited /\ b.at = ops[o].at /\ b.kind = ops[o].kind
    BY <2>1 DEF Awaited
  <2> HIDE DEF b
  <2>3. c \in Awaited /\ c.at = ops[o].at /\ c.kind = ops[o].kind
    BY <2>2 DEF Awaited
  <2>4. ops' = [ops EXCEPT ![o] = c]
    BY <1>1 DEF a, b
  <2> HIDE DEF c
  <2>5. OpsCarry /\ ops' \in [Ops -> Awaited]
    BY <1>0, <2>3, <2>4, OperationCarries DEF Resuming
  <2> QED BY <1>0, <1>1, <2>5, SameWithers DEF Typed
<1>2. CASE /\ ops[o].at = "read" /\ server' = server
           /\ ops' = [ops EXCEPT ![o] = [@ EXCEPT !.answer = "ok", !.version = server.version,
                                                  !.open = server.state = "active"]]
  <2>1. (server.state = "active") \in BOOLEAN
    OBVIOUS
  <2> QED BY <1>0, <1>1, <1>2, <2>1
<1>3. ASSUME server.version < MaxVersion, NEW state \in Outcomes(ops[o].kind), server' = Newer(state),
             ops' = [ops EXCEPT ![o] = [@ EXCEPT !.answer = "ok", !.version = server.version + 1,
                                                 !.open = state = "active"]]
      PROVE  Typed' /\ Withers /\ OpsCarry
  <2>1. state \in {"active", "paused", "gone"}
    BY <1>0, ShareFields DEF Outcomes
  <2>2. server' \in Share
    BY <1>0, <1>3, <2>1, NewerIs
  <2>3. server.version + 1 \in Versions
    BY <1>0, <1>3, BeamAssumption DEF Versions
  <2>4. (state = "active") \in BOOLEAN
    OBVIOUS
  <2>5. ops' = [ops EXCEPT ![o] = [ops[o] EXCEPT !.answer = "ok", !.version = server.version + 1,
                                               !.open = state = "active"]]
    BY <1>3
  <2> QED BY <1>1, <2>2, <2>3, <2>4, <2>5
<1> QED BY <1>2, <1>3 DEF ServerTakes

\* The operation is over.
LEMMA ThrowsEffect ==
  ASSUME Typed, NEW o \in Ops, Throws(o) PROVE Typed' /\ Withers /\ OpsCarry
<1>1. Ends(o) /\ UNCHANGED <<server, session, runs, listed, exposed>>
  BY DEF Throws
<1> QED BY <1>1, SameWithers, EndsCarries DEF Typed

\* An operation's answer is read: it starts an instance, or it ends.
Starts(o) == \E epoch \in Epochs : Starting(o, epoch)

\* A retry starts an instance only when none is listed.
LEMMA RetryEffect ==
  ASSUME Typed, NEW o \in Ops, RetryAnswered(o)
  PROVE  \/ Apart /\ Starts(o) /\ listed = 0
         \/ Typed' /\ Withers /\ OpsCarry
<1>1. Apart /\ session.epoch \in Epochs
  BY DEF RetryAnswered, Apart, Typed
<1>2. CASE Ends(o) /\ UNCHANGED <<runs, listed, pools, exposed>>
  <2>1. Withers /\ OpsCarry /\ runs' \in [Runs -> Instance] /\ ops' \in [Ops -> Awaited]
    BY <1>2, SameWithers, EndsCarries DEF Typed
  <2> QED BY <1>1, <1>2, <2>1, HereEffect DEF Quiet
<1> QED BY <1>1, <1>2 DEF RetryAnswered, Starts

\* A resume starts an instance, another action updates the listed one.
LEMMA ActionEffect ==
  ASSUME Typed, NEW o \in Ops, ActionAnswered(o)
  PROVE  \/ Apart /\ Starts(o) /\ Resuming(o)
         \/ Typed' /\ Withers /\ OpsCarry
<1>1. Apart /\ ops[o].at = "send" /\ ops[o] \in Awaited /\ ops[o].epoch \in Epochs
      /\ ops[o].version \in Versions /\ ops[o].open \in BOOLEAN
  BY AwaitedFields DEF ActionAnswered, Apart, Typed
<1>2. CASE ops[o].kind # "resume"
  <2>1. /\ Ends(o) /\ exposed' = exposed
        /\ UNCHANGED <<runs, listed>> \/ (listed # 0 /\ Updated(listed, ops[o].version, ops[o].open))
    BY <1>2 DEF ActionAnswered
  <2>2. Withers /\ runs' \in [Runs -> Instance]
    BY <1>1, <2>1, SameWithers, UpdatedWithers DEF Typed
  <2>3. OpsCarry /\ ops' \in [Ops -> Awaited]
    BY <2>1, EndsCarries
  <2> QED BY <1>1, <2>1, <2>2, <2>3, HereEffect DEF Quiet
<1> QED BY <1>1, <1>2 DEF ActionAnswered, Starts, Resuming

\* What waits for its certificate names the instance it started.
BootsStarted ==
  \A o \in Ops : ops[o].at = "boot" => ops[o].run \in Runs /\ runs[ops[o].run].at # "none"

\* The control plane issues a certificate.
LEMMA IssuesEffect ==
  ASSUME Typed, BootsStarted, NEW o \in Ops, ServerIssues(o) PROVE Typed' /\ Withers /\ OpsCarry
<1>0. /\ server \in Share /\ server.version \in Versions /\ ops[o] \in Awaited /\ ops[o].at = "boot"
      /\ ops[o].run \in Runs /\ server.version < MaxVersion
      /\ UNCHANGED <<session, runs, listed, exposed>>
  BY ShareFields DEF ServerIssues, Typed, BootsStarted
<1> DEFINE n == Newer("active")
           a == [ops[o] EXCEPT !.answer = "ok"]
           b == [a EXCEPT !.version = server.version + 1]
<1>1. server' = [n EXCEPT !.generation = ops[o].run] /\ ops' = [ops EXCEPT ![o] = b]
  BY DEF ServerIssues
<1>2. n \in Share
  BY <1>0, NewerIs
<1> HIDE DEF n
<1>3. server' \in Share
  BY <1>0, <1>1, <1>2 DEF Share
<1>4. server.version + 1 \in Versions
  BY <1>0, BeamAssumption DEF Versions
<1>5. a \in Awaited /\ a.at = "boot" /\ a.run = ops[o].run
  BY <1>0 DEF Awaited
<1> HIDE DEF a
<1>6. b \in Awaited /\ b.at = "boot" /\ b.run = ops[o].run
  BY <1>4, <1>5 DEF Awaited
<1> HIDE DEF b
<1>7. OpsCarry /\ ops' \in [Ops -> Awaited]
  BY <1>0, <1>1, <1>6, OperationCarries
<1> QED BY <1>0, <1>3, <1>7, SameWithers DEF Typed

\* The instance that waited for it serves; if it is not the listed one, that one is closed.
LEMMA IssuedEffect ==
  ASSUME Typed, BootsStarted, NEW o \in Ops, Issued(o) PROVE Typed' /\ Withers /\ OpsCarry
<1> DEFINE r == ops[o].run
           v == IF ops[o].version < runs[r].version THEN runs[r].version ELSE ops[o].version
           a == [runs[r] EXCEPT !.at = "serving"]
           b == [a EXCEPT !.beat = "probe"]
           c == [b EXCEPT !.version = v]
           rs == [runs EXCEPT ![r] = c]
<1>1. /\ r \in Runs /\ runs[r].at = "boot" /\ runs[r] \in Instance /\ Quiet /\ Ends(o)
      /\ ops[o].version \in Versions /\ runs \in [Runs -> Instance]
  BY AwaitedFields DEF Issued, Current, Typed, BootsStarted, Quiet, Apart
<1>2. \/ runs' = rs /\ listed' = listed
      \/ runs' = [Closed(rs) EXCEPT ![r].beat = "off"] /\ listed' = 0
  <2>1. Accepted(r) => runs' = rs /\ listed' = listed
    BY DEF Issued
  <2>2. ~Accepted(r) => runs' = [Closed(rs) EXCEPT ![r].beat = "off"] /\ listed' = 0
    BY DEF Issued
  <2> QED BY <2>1, <2>2
<1>3. v \in Versions
  BY <1>1, InstanceFields
<1> HIDE DEF v
<1>4. a \in Instance /\ a.at = "serving"
  BY <1>1 DEF Instance
<1> HIDE DEF a
<1>5. b \in Instance /\ b.at = "serving"
  BY <1>4 DEF Instance
<1> HIDE DEF b
<1>6. c \in Instance /\ c.at = "serving"
  BY <1>3, <1>5 DEF Instance
<1> HIDE DEF c
<1>7. CASE runs' = rs /\ listed' = listed
  <2>1. Lives(c) /\ Lives(runs[r])
    BY <1>1, <1>6 DEF Lives
  <2> QED BY <1>1, <1>6, <1>7, <2>1, WrittenWithers, EndsCarries, HereEffect DEF Quiet
<1>8. CASE runs' = [Closed(rs) EXCEPT ![r].beat = "off"] /\ listed' = 0
  <2>1. rs \in [Runs -> Instance] /\ \A q \in Runs : rs[q] = IF q = r THEN c ELSE runs[q]
    BY <1>1, <1>6
  <2> HIDE DEF rs
  <2>2. \A q \in Runs : /\ runs[q].at # "none" => rs[q].at # "none"
                        /\ Lives(rs[q]) => Lives(runs[q])
    BY <1>1, <1>6, <2>1 DEF Lives
  <2>3. Withers /\ runs' \in [Runs -> Instance]
    BY <1>1, <1>8, <2>1, <2>2, GivenUpWithers DEF Quiet
  <2> QED BY <1>1, <2>3, EndsCarries, HereEffect
<1> QED BY <1>2, <1>7, <1>8

\* The catch of start().
LEMMA IssueFailsEffect ==
  ASSUME Typed, NEW o \in Ops, IssueFails(o) PROVE Typed' /\ Withers /\ OpsCarry
<1>1. Close /\ Ends(o) /\ Quiet
  BY DEF IssueFails, Quiet, Apart
<1> QED BY <1>1, CloseWithers, EndsCarries, HereEffect DEF Quiet

-----------------------------------------------------------------------------
(* Heartbeats, expiry, polls.                                              *)

\* A step that writes no operation.
LEMMA QuietEffect ==
  ASSUME Typed, Withers, runs' \in [Runs -> Instance], ops' = ops, Quiet
  PROVE  Typed' /\ Withers /\ OpsCarry
  BY SameCarries, HereEffect DEF Typed

\* One instance written, and not whether it lives.
LEMMA WrittenEffect ==
  ASSUME Typed, NEW r \in Runs, NEW x \in Instance, x.at = runs[r].at,
         runs' = [runs EXCEPT ![r] = x], listed' = listed, ops' = ops, Quiet
  PROVE  Typed' /\ Withers /\ OpsCarry
<1>1. Lives(x) <=> Lives(runs[r])
  BY DEF Lives
<1> QED BY <1>1, WrittenWithers, QuietEffect DEF Quiet

\* A heartbeat starts, or is sent when the app was asked, or the loop gives up.
LEMMA BeatStartsEffect ==
  ASSUME Typed, NEW r \in Runs, BeatStarts(r) \/ BeatProbed(r) PROVE Typed' /\ Withers /\ OpsCarry
<1>1. Quiet /\ ops' = ops /\ runs[r] \in Instance /\ runs \in [Runs -> Instance]
  BY DEF BeatStarts, BeatProbed, Quiet, Apart, Typed
<1>2. ASSUME NEW beat \in {"probe", "sent"}, runs' = [runs EXCEPT ![r].beat = beat], listed' = listed
      PROVE  Typed' /\ Withers /\ OpsCarry
  <2> DEFINE a == [runs[r] EXCEPT !.beat = beat]
  <2>1. a \in Instance /\ a.at = runs[r].at
    BY <1>1 DEF Instance
  <2>2. runs' = [runs EXCEPT ![r] = a]
    BY <1>1, <1>2
  <2> HIDE DEF a
  <2> QED BY <1>1, <1>2, <2>1, <2>2, WrittenEffect
<1>3. CASE BeatGivesUp(r)
  BY <1>1, <1>3, GivesUpWithers, QuietEffect DEF Quiet
<1> QED BY <1>2, <1>3 DEF BeatStarts, BeatProbed

\* The control plane answers a heartbeat.
LEMMA ServerBeatsEffect ==
  ASSUME Typed, NEW r \in Runs, ServerBeats(r) PROVE Typed' /\ Withers /\ OpsCarry
<1>1. Quiet /\ ops' = ops /\ listed' = listed /\ runs[r] \in Instance /\ server.version \in Versions
      /\ runs \in [Runs -> Instance]
  BY ShareFields DEF ServerBeats, Quiet, Apart, Typed
<1> DEFINE a == [runs[r] EXCEPT !.answer = "ok"]
           b == [a EXCEPT !.told = server.version]
           c == [runs[r] EXCEPT !.answer = "no"]
<1>2. runs' = [runs EXCEPT ![r] = b] \/ runs' = [runs EXCEPT ![r] = c]
  BY <1>1 DEF ServerBeats
<1>3. a \in Instance /\ a.at = runs[r].at /\ c \in Instance /\ c.at = runs[r].at
  BY <1>1 DEF Instance
<1> HIDE DEF a, c
<1>4. b \in Instance /\ b.at = runs[r].at
  BY <1>1, <1>3 DEF Instance
<1> HIDE DEF b
<1> QED BY <1>1, <1>2, <1>3, <1>4, WrittenEffect

\* The answer is read.
LEMMA BeatEndsEffect ==
  ASSUME Typed, NEW r \in Runs, BeatEnds(r) PROVE Typed' /\ Withers /\ OpsCarry
<1>1. Quiet /\ ops' = ops /\ listed' = listed /\ runs[r] \in Instance
  BY DEF BeatEnds, Quiet, Apart, Typed
<1> DEFINE news == runs[r].answer = "ok" /\ runs[r].told > runs[r].version
           v == IF news THEN runs[r].told ELSE runs[r].version
           a == [runs[r] EXCEPT !.beat = "rest"]
           b == [a EXCEPT !.answer = "none"]
           c == [b EXCEPT !.told = 1]
           d == [c EXCEPT !.version = v]
<1>2. v \in Versions
  BY <1>1, InstanceFields
<1>3. runs' = [runs EXCEPT ![r] = d]
  BY DEF BeatEnds
<1> HIDE DEF v
<1>4. a \in Instance /\ a.at = runs[r].at
  BY <1>1 DEF Instance
<1> HIDE DEF a
<1>5. b \in Instance /\ b.at = runs[r].at
  BY <1>4 DEF Instance
<1> HIDE DEF b
<1>6. c \in Instance /\ c.at = runs[r].at
  BY <1>5, Numbers DEF Instance
<1> HIDE DEF c
<1>7. d \in Instance /\ d.at = runs[r].at
  BY <1>2, <1>6 DEF Instance
<1> HIDE DEF d
<1> QED BY <1>1, <1>3, <1>7, WrittenEffect

\* Any step of a heartbeat, and the expiry timer.
LEMMA HeartbeatEffect ==
  ASSUME Typed, NEW r \in Runs, Heartbeat(r) \/ ExpiryFires(r) PROVE Typed' /\ Withers /\ OpsCarry
<1>1. CASE BeatRefused(r) \/ BeatLate(r)
  <2>1. BeatGivesUp(r) /\ Quiet /\ ops' = ops
    BY <1>1 DEF BeatRefused, BeatLate, Quiet, Apart
  <2> QED BY <2>1, GivesUpWithers, QuietEffect DEF Quiet
<1>2. CASE ExpiryFires(r)
  <2>1. Close /\ Quiet /\ ops' = ops
    BY <1>2 DEF ExpiryFires, Quiet, Apart
  <2> QED BY <2>1, CloseWithers, QuietEffect DEF Quiet
<1> QED BY <1>1, <1>2, BeatStartsEffect, ServerBeatsEffect, BeatEndsEffect DEF Heartbeat

\* A poll of the list.
LEMMA ViewEffect == ASSUME Typed, View PROVE Typed' /\ Withers /\ OpsCarry
<1>1. Quiet /\ ops' = ops /\ listed # 0 /\ server.version \in Versions
  BY ShareFields DEF View, Quiet, Apart, Typed
<1>2. Close \/ Updated(listed, server.version, TRUE)
  BY DEF View
<1>3. Withers /\ runs' \in [Runs -> Instance]
  BY <1>1, <1>2, CloseWithers, UpdatedWithers DEF Quiet
<1> QED BY <1>1, <1>3, QuietEffect

\* Signing out and in, and the end of the share.
LEMMA AccountEffect ==
  ASSUME Typed, Retire \/ SignIn \/ ServerStops PROVE Typed' /\ Withers /\ OpsCarry
<1>1. session \in [account : Accounts, epoch : Epochs] /\ server \in Share
  BY DEF Typed
<1>2. CASE Retire
  <2>1. session' \in [account : Accounts, epoch : Epochs]
    BY <1>1, <1>2 DEF Retire, Epochs
  <2>2. Close /\ ops' = ops /\ server' = server /\ exposed' = exposed
    BY <1>2 DEF Retire
  <2>3. Withers /\ runs' \in [Runs -> Instance] /\ listed' = 0
    BY <2>2, CloseWithers
  <2> QED BY <2>1, <2>2, <2>3, SameCarries DEF Typed
<1>3. CASE SignIn
  <2>1. session' \in [account : Accounts, epoch : Epochs]
    BY <1>1, <1>3 DEF SignIn, Accounts
  <2> QED BY <1>1, <1>3, <2>1, ElsewhereEffect DEF SignIn
<1>4. CASE ServerStops
  <2>1. server' \in Share
    BY <1>1, <1>4, NewerIs DEF ServerStops
  <2> QED BY <1>1, <1>4, <2>1, ElsewhereEffect DEF ServerStops
<1> QED BY <1>2, <1>3, <1>4

-----------------------------------------------------------------------------
(* The invariants.                                                         *)

\* Types, who is listed, and what waits for a certificate, for any operations.
Listing == Typed /\ ListedLives /\ BootsStarted

\* At first nothing is listed.
LEMMA ListingInit == Init => Listing
<1>1. ASSUME Init PROVE Typed
  <2>1. server \in Share /\ session \in [account : Accounts, epoch : Epochs]
    BY <1>1, Numbers DEF Init, Share
  <2> QED BY <1>1, <2>1, Blanks DEF Init, Typed
<1>2. ASSUME Init PROVE BootsStarted
  BY <1>2 DEF Init, BootsStarted, NoOp
<1> QED BY <1>1, <1>2 DEF Init, Listing, ListedLives

\* A withdrawal, or neither.
LEMMA WithersListing ==
  ASSUME Listing, Typed', Withers, OpsCarry PROVE Listing'
<1>1. ListedLives'
  <2>1. SUFFICES ASSUME listed' # 0 PROVE Lives(runs'[listed'])
    BY DEF ListedLives, Lives
  <2>2. listed' = listed /\ listed \in Runs /\ Lives(runs[listed])
    BY <2>1 DEF Listing, Typed, ListedLives, Withers
  <2> QED BY <2>2 DEF Withers
<1>2. BootsStarted'
  <2>1. SUFFICES ASSUME NEW o \in Ops, ops'[o].at = "boot"
                 PROVE  ops'[o].run \in Runs /\ runs'[ops'[o].run].at # "none"
    BY DEF BootsStarted
  <2>2. ops'[o].run = ops[o].run /\ ops[o].run \in Runs /\ runs[ops[o].run].at # "none"
    BY <2>1 DEF Listing, BootsStarted, OpsCarry
  <2> QED BY <2>2 DEF Withers
<1> QED BY <1>1, <1>2 DEF Listing

\* A start lists the instance it starts.
LEMMA StartsListing ==
  ASSUME Listing, Apart, NEW o \in Ops, Starts(o) PROVE Listing'
<1>1. PICK epoch \in Epochs : Starting(o, epoch)
  BY DEF Starts
<1>2. /\ listed' \in Fresh
      /\ runs' \in [Runs -> Instance] /\ ops' \in [Ops -> Awaited]
      /\ \A q \in Runs : q # listed' => runs'[q] = runs[q]
      /\ runs'[listed'].at = "boot"
      /\ ops'[o].at = "boot" /\ ops'[o].run = listed'
      /\ \A p \in Ops : p # o => ops'[p] = ops[p]
      /\ exposed' \subseteq exposed \cup {listed'}
  BY <1>1, StartingIs DEF Listing
<1>3. listed' \in Runs
  BY <1>2 DEF Fresh
<1>4. Typed'
  BY <1>2, <1>3 DEF Listing, Typed, Apart
<1>5. BootsStarted'
  <2>1. SUFFICES ASSUME NEW p \in Ops, ops'[p].at = "boot"
                 PROVE  ops'[p].run \in Runs /\ runs'[ops'[p].run].at # "none"
    BY DEF BootsStarted
  <2>2. CASE p = o
    BY <1>2, <1>3, <2>2
  <2>3. CASE p # o
    <3>1. ops[p].run \in Runs /\ runs[ops[p].run].at # "none" /\ ops'[p].run = ops[p].run
      BY <1>2, <2>1, <2>3 DEF Listing, BootsStarted
    <3> QED BY <1>2, <3>1
  <2> QED BY <2>2, <2>3
<1> QED BY <1>2, <1>4, <1>5 DEF Listing, ListedLives, Lives

\* Every step starts an instance or withdraws one at most.
LEMMA EveryStep ==
  ASSUME Listing, [Next]_vars
  PROVE  \/ Typed' /\ Withers /\ OpsCarry
         \/ \E o \in Ops : /\ Apart /\ Starts(o)
                           /\ listed = 0 \/ Resuming(o)
<1>0. Typed /\ BootsStarted
  BY DEF Listing
<1>1. ASSUME NEW o \in Ops, Begin(o) PROVE Typed' /\ Withers /\ OpsCarry
  BY <1>0, <1>1, BeginEffect
<1>2. ASSUME NEW o \in Ops, Operation(o)
      PROVE  \/ Typed' /\ Withers /\ OpsCarry
             \/ /\ Apart /\ Starts(o)
                /\ listed = 0 \/ Resuming(o)
  BY <1>0, <1>2, TakesEffect, ThrowsEffect, RetryEffect, ActionEffect, IssuesEffect,
     IssuedEffect, IssueFailsEffect DEF Operation
<1>3. ASSUME NEW r \in Runs, Heartbeat(r) \/ ExpiryFires(r) PROVE Typed' /\ Withers /\ OpsCarry
  BY <1>0, <1>3, HeartbeatEffect
<1>4. CASE UNCHANGED <<server, session, runs, listed, ops, exposed>>
  BY <1>0, <1>4, SameWithers, SameCarries DEF Typed
<1>5. CASE \E r \in Runs : PoolMoves(r)
  BY <1>4, <1>5 DEF PoolMoves
<1>6. CASE View \/ Retire \/ SignIn \/ ServerStops
  BY <1>0, <1>6, ViewEffect, AccountEffect
<1>7. CASE UNCHANGED vars
  BY <1>4, <1>7 DEF vars
<1> QED BY <1>1, <1>2, <1>3, <1>5, <1>6, <1>7 DEF Next

\* The invariant is inductive.
LEMMA ListingStep == Listing /\ [Next]_vars => Listing'
  BY EveryStep, WithersListing, StartsListing

\* The map lists an instance that was started and not withdrawn, and every variable keeps
\* its type, for any number of operations at once (beamruntime.ts).
THEOREM TypeCorrect == Spec => []TypeOK
<1>1. Listing /\ AllSound => TypeOK
  BY TypedIs DEF Listing, AllSound
<1> QED BY <1>1, ListingInit, ListingStep, Invariance, PTL DEF Spec

\* What a resume finds listed when its answer comes was started while it was on its way.
Overtaken ==
  /\ NoOrphan
  /\ \A p \in Ops : Resuming(p) => listed = 0 \/ listed \in exposed

\* Every step leaves what lives and is not exposed in the map.
LEMMA OvertakenStep == ASSUME Listing, Overtaken, [Next]_vars PROVE Overtaken'
<1>1. CASE Typed' /\ Withers /\ OpsCarry
  <2>1. NoOrphan'
    <3>1. SUFFICES ASSUME NEW r \in Runs, Lives(runs'[r]), listed' # r PROVE r \in exposed'
      BY DEF NoOrphan, Orphan, Lives
    <3>2. Lives(runs[r]) /\ listed # r /\ exposed' = exposed
      BY <1>1, <3>1 DEF Withers
    <3> QED BY <3>2 DEF Overtaken, NoOrphan, Orphan, Lives
  <2>2. ASSUME NEW p \in Ops, Resuming(p)' PROVE listed' = 0 \/ listed' \in exposed'
    <3>1. listed' = 0 \/ Resuming(p)
      BY <1>1, <2>2 DEF OpsCarry
    <3>2. listed' \in {0, listed} /\ exposed' = exposed
      BY <1>1 DEF Withers
    <3> QED BY <3>1, <3>2 DEF Overtaken
  <2> QED BY <2>1, <2>2 DEF Overtaken
<1>2. ASSUME NEW o \in Ops, Starts(o), listed = 0 \/ Resuming(o) PROVE Overtaken'
  <2>0. PICK epoch \in Epochs : Starting(o, epoch)
    BY <1>2 DEF Starts
  <2>1. /\ \A q \in Runs : q # listed' => runs'[q] = runs[q]
        /\ ops'[o].at = "boot"
        /\ \A p \in Ops : p # o => ops'[p] = ops[p]
        /\ exposed \subseteq exposed'
        /\ \A p \in Ops \ {o} : Resuming(p) => listed' \in exposed'
    BY <2>0, StartingIs DEF Listing
  <2>2. NoOrphan'
    <3>1. SUFFICES ASSUME NEW r \in Runs, Lives(runs'[r]), listed' # r PROVE r \in exposed'
      BY DEF NoOrphan, Orphan, Lives
    <3>2. Lives(runs[r])
      BY <2>1, <3>1
    <3>3. CASE listed # r
      BY <2>1, <3>2, <3>3 DEF Overtaken, NoOrphan, Orphan, Lives
    <3>4. CASE listed = r
      BY <1>2, <2>1, <3>4, Numbers DEF Overtaken
    <3> QED BY <3>3, <3>4
  <2>3. ASSUME NEW p \in Ops, Resuming(p)' PROVE listed' \in exposed'
    <3>1. p # o /\ Resuming(p)
      BY <2>1, <2>3 DEF Resuming
    <3> QED BY <2>1, <3>1
  <2> QED BY <2>2, <2>3 DEF Overtaken
<1> QED BY <1>1, <1>2, EveryStep

\* However many operations, heartbeats, polls and sign-outs overlap, an instance that is not
\* withdrawn is the one in the map, where a pause, a sign-out, a poll or the end of the share
\* reaches it, unless it was started while another operation's resume, which had closed the
\* one before, was waiting for its answer (beamruntime.ts, action, start and close).
THEOREM OrphanTheorem == Spec => []NoOrphan
<1>1. Init => Overtaken
  BY DEF Init, Overtaken, NoOrphan, Orphan, NoRun, NoOp, Resuming
<1>2. Listing /\ Overtaken /\ [Next]_vars => Overtaken'
  BY OvertakenStep
<1>3. Overtaken => NoOrphan
  BY DEF Overtaken
<1> QED BY <1>1, <1>2, <1>3, ListingInit, ListingStep, PTL DEF Spec

=============================================================================
