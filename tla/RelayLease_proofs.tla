------------------------- MODULE RelayLease_proofs -------------------------
(***************************************************************************)
(* RelayLease's properties, for any deadlines that keep their order.       *)
(***************************************************************************)
EXTENDS RelayLease, TLAPS

Steps == {"off", "live"} \cup CpSteps \cup IpcSteps
ClientType == [at : Steps, wait : Nat, patience : 0..Lease, answer : {"none", "ok", "no"},
               slot : Slots]
ConnType == [req : {"none"} \cup IpcSteps, reply : {"none", "ok", "no"}, eof : BOOLEAN,
             busy : Nat, neg : {"none", "ready", "used", "closed"}, lease : 0..Lease,
             fired : BOOLEAN]

Shape ==
  /\ revoked \in BOOLEAN /\ since \in Nat
  /\ client \in ClientType
  /\ conns \in [Slots -> ConnType]

Here(s) == client.slot = s /\ client.at # "off"

\* A connection serves the request its client waits for; one without its client ends.
Asks(s) ==
  /\ Here(s) => ~conns[s].eof /\ conns[s].req \in {"none", client.at}
  /\ Here(s) \/ conns[s].eof \/ (conns[s].req = "none" /\ conns[s].neg # "used")
  /\ conns[s].req # "none" => conns[s].reply = "none"

\* A carrier is used from its bring-up on, not before.
Fresh(s) ==
  conns[s].neg = "used" =>
    /\ conns[s].req \notin {"prepare", "authorize"}
    /\ Here(s) => client.at \in {"up", "live", "read", "renew", "beat"}

\* The client's patience runs out first: it counts from when it asked.
Patient(s) ==
  Here(s) /\ Open(conns[s].neg) =>
    /\ client.at \in {"up", "live", "read", "renew", "beat"} => client.patience <= conns[s].lease
    /\ client.at \in {"authorize", "renew"} /\ conns[s].reply = "ok" =>
         Lease <= conns[s].lease + client.wait

\* How long ago the session may have been revoked at each step of the client.
Recent ==
  /\ ~revoked => since = 0
  /\ client.at \in CpSteps => client.wait <= Cp
  /\ client.at \in CpSteps /\ client.answer = "ok" => since <= client.wait
  /\ client.at \in {"authorize", "renew"} => client.wait <= Ipc /\ since <= Cp + client.wait

\* A carrier, or one that a bring-up under way may still bind.
Carries(s) ==
  \/ conns[s].neg = "used"
  \/ /\ conns[s].neg = "ready"
     /\ \/ conns[s].req = "up"
        \/ Here(s) /\ client.at = "up"
        \/ Here(s) /\ client.at = "authorize" /\ conns[s].reply = "ok"

\* What its lease has left since the session was revoked.  A renewal served after its
\* client gave it up may exceed this, but then the handler finds its socket closed next.
Bounded(s) ==
  Carries(s) => \/ since + conns[s].lease <= Latest
                \/ conns[s].eof /\ conns[s].req = "none" /\ since <= Latest

SlotInv(s) == Asks(s) /\ Fresh(s) /\ Patient(s) /\ Bounded(s)
IInv == Shape /\ Recent /\ \A s \in Slots : SlotInv(s)

LEMMA Times ==
  /\ Lease \in Nat /\ Cp \in Nat /\ Ipc \in Nat /\ Negotiation \in Nat /\ Heartbeat \in Nat
  /\ 0 < Lease /\ 0 < Heartbeat
  /\ Latest = Lease + Ipc + Cp /\ Latest \in Nat
BY RelayAssumption DEF Latest

LEMMA Initially == Init => IInv
<1> SUFFICES ASSUME Init PROVE IInv
  OBVIOUS
<1> USE Times DEF Init, Idle, Slots
<1>1. \A s \in Slots : conns[s] = NoConn
  OBVIOUS
<1>2. NoConn \in ConnType
  BY DEF NoConn, ConnType
<1>3. Shape
  <2>1. conns \in [Slots -> ConnType]
    BY <1>2
  <2>2. client \in ClientType
    BY DEF ClientType, Steps
  <2> QED BY <2>1, <2>2 DEF Shape
<1>4. Recent
  BY DEF Recent, CpSteps
<1>5. ASSUME NEW s \in Slots PROVE SlotInv(s)
  BY <1>1, <1>5 DEF SlotInv, Asks, Fresh, Patient, Bounded, Carries, Here, Open, NoConn
<1> QED BY <1>3, <1>4, <1>5 DEF IInv

LEMMA Typed ==
  ASSUME Shape
  PROVE  /\ client \in ClientType /\ client.slot \in Slots /\ client.at \in Steps
         /\ client.patience \in 0..Lease /\ client.patience \in Nat /\ client.wait \in Nat
         /\ since \in Nat
         /\ \A s \in Slots : /\ conns[s] \in ConnType /\ conns[s].lease \in 0..Lease
                             /\ conns[s].lease \in Nat
BY Times DEF Shape, ClientType, ConnType

LEMMA TickEffect ==
  ASSUME Shape, Tick
  PROVE  /\ client'.at = client.at /\ client'.slot = client.slot /\ client'.answer = client.answer
         /\ client'.wait = IF client.at = "off" THEN 0 ELSE client.wait + 1
         /\ client'.patience = Sooner(client.patience)
         /\ Shape'
         /\ \A s \in Slots :
              /\ conns'[s].req = conns[s].req /\ conns'[s].reply = conns[s].reply
              /\ conns'[s].eof = conns[s].eof /\ conns'[s].neg = conns[s].neg
              /\ ~(conns[s].eof /\ conns[s].req = "none")
              /\ Open(conns[s].neg) => conns[s].lease > 0 /\ conns'[s].lease = conns[s].lease - 1
<1> USE Times
<1> DEFINE w == IF client.at = "off" THEN 0 ELSE client.wait + 1
           p == Sooner(client.patience)
           l(s) == IF Open(conns[s].neg) THEN Sooner(conns[s].lease) ELSE 0
           b(s) == IF conns[s].busy = 0 THEN 0 ELSE conns[s].busy + 1
<1>1. w \in Nat /\ p \in 0..Lease /\ \A s \in Slots : l(s) \in 0..Lease /\ b(s) \in Nat
  BY DEF Shape, ClientType, ConnType, Sooner
<1>2. /\ client' = [client EXCEPT !.wait = w, !.patience = p]
      /\ conns' = [s \in Slots |-> [conns[s] EXCEPT !.lease = l(s), !.busy = b(s)]]
  BY DEF Tick
<1>3. ASSUME NEW s \in Slots, Open(conns[s].neg)
      PROVE  conns[s].lease > 0 /\ l(s) = conns[s].lease - 1
  <2>1. conns[s].lease # 0
    BY <1>3 DEF Tick, Due
  <2>2. conns[s].lease \in 0..Lease
    BY DEF Shape, ConnType
  <2> QED BY <1>3, <2>1, <2>2 DEF Sooner
<1>4. w = IF client.at = "off" THEN 0 ELSE client.wait + 1
  OBVIOUS
<1> HIDE DEF w, p, l, b
<1>5. since' = (IF revoked /\ since <= Latest THEN since + 1 ELSE since) /\ revoked' = revoked
  BY DEF Tick
<1>6. client' \in ClientType
  BY <1>1, <1>2 DEF Shape, ClientType
<1>7. conns' \in [Slots -> ConnType]
  <2>1. ASSUME NEW s \in Slots, NEW n \in 0..Lease, NEW m \in Nat
        PROVE  [conns[s] EXCEPT !.lease = n, !.busy = m] \in ConnType
    BY Typed DEF ConnType
  <2> QED BY <1>1, <1>2, <2>1
<1>8. p = Sooner(client.patience)
  BY DEF p
<1>9. since' \in Nat /\ revoked' \in BOOLEAN
  BY <1>5 DEF Shape
<1>10. Shape'
  BY <1>6, <1>7, <1>9 DEF Shape
<1>11. ASSUME NEW s \in Slots
       PROVE  /\ conns'[s].req = conns[s].req /\ conns'[s].reply = conns[s].reply
              /\ conns'[s].eof = conns[s].eof /\ conns'[s].neg = conns[s].neg
              /\ conns'[s].lease = l(s)
  <2>1. conns'[s] = [conns[s] EXCEPT !.lease = l(s), !.busy = b(s)]
    BY <1>2
  <2>2. conns[s] \in ConnType
    BY DEF Shape
  <2> QED BY <2>1, <2>2 DEF ConnType
<1>12. /\ client'.at = client.at /\ client'.slot = client.slot
       /\ client'.answer = client.answer /\ client'.wait = w /\ client'.patience = p
  BY <1>2 DEF Shape, ClientType
<1>13. \A s \in Slots : ~(conns[s].eof /\ conns[s].req = "none")
  BY DEF Tick, Due
<1> QED BY <1>3, <1>4, <1>8, <1>10, <1>11, <1>12, <1>13

LEMMA Waits ==
  /\ client.at \in CpSteps => Patience = Cp
  /\ client.at \in {"authorize", "renew"} => Patience = Ipc
BY DEF Patience, CpSteps

LEMMA TickStep == ASSUME IInv, Tick PROVE IInv'
<1>1. Shape /\ Recent /\ \A s \in Slots : SlotInv(s)
  BY DEF IInv
<1>2. /\ since \in Nat /\ since' \in Nat /\ since' <= since + 1 /\ revoked' = revoked
      /\ ~revoked => since' = since
      /\ client.at # "off" => client.wait < Patience
  <2>1. since' = (IF revoked /\ since <= Latest THEN since + 1 ELSE since) /\ revoked' = revoked
        /\ (client.at # "off" => client.wait < Patience)
    BY DEF Tick
  <2>2. since \in Nat
    BY <1>1 DEF Shape
  <2> QED BY <2>1, <2>2
<1>3. client.wait \in Nat /\ client.patience \in Nat /\ client'.at = client.at
      /\ (client.at # "off" => client'.wait = client.wait + 1)
      /\ client'.answer = client.answer /\ client'.slot = client.slot
      /\ client'.patience = Sooner(client.patience)
  BY <1>1, TickEffect DEF Shape, ClientType
<1>4. Recent'
  <2>1. client.at \in CpSteps \cup {"authorize", "renew"} => client.at # "off"
    BY DEF CpSteps
  <2> QED BY <1>1, <1>2, <1>3, <2>1, Waits, Times DEF Recent
<1>5. ASSUME NEW s \in Slots PROVE SlotInv(s)'
  <2>1. /\ conns'[s].req = conns[s].req /\ conns'[s].reply = conns[s].reply
        /\ conns'[s].eof = conns[s].eof /\ conns'[s].neg = conns[s].neg
        /\ Open(conns[s].neg) => conns[s].lease > 0 /\ conns'[s].lease = conns[s].lease - 1
    BY <1>1, TickEffect
  <2>2. conns[s].lease \in Nat
    BY <1>1, Times DEF Shape, ConnType
  <2>3. Here(s)' = Here(s)
    BY <1>3 DEF Here
  <2>4. Asks(s)' /\ Fresh(s)'
    BY <1>1, <1>3, <2>1, <2>3 DEF SlotInv, Asks, Fresh
  <2>5. Patient(s)'
    BY <1>1, <1>3, <2>1, <2>2, <2>3, Times DEF SlotInv, Patient, Open, Sooner, Here
  <2>6. Carries(s)' = Carries(s)
    BY <1>3, <2>1, <2>3 DEF Carries
  <2>7. ASSUME Carries(s) PROVE since' + conns'[s].lease <= Latest
    <3>1. since + conns[s].lease <= Latest
      BY <1>1, <2>7, TickEffect DEF SlotInv, Bounded
    <3>2. conns[s].lease > 0 /\ conns'[s].lease = conns[s].lease - 1
      BY <2>1, <2>7 DEF Carries, Open
    <3> QED BY <1>2, <2>2, <3>1, <3>2, Times
  <2> QED BY <2>4, <2>5, <2>6, <2>7 DEF SlotInv, Bounded
<1>6. Shape'
  BY <1>1, TickEffect
<1> QED BY <1>4, <1>5, <1>6 DEF IInv

-----------------------------------------------------------------------------
(* The client.                                                             *)

LEMMA Went ==
  ASSUME Shape, NEW step \in Steps, NEW p \in 0..Lease,
         client' = [Go(step) EXCEPT !.patience = p]
  PROVE  /\ client' \in ClientType
         /\ client'.at = step /\ client'.wait = 0 /\ client'.answer = "none"
         /\ client'.patience = p /\ client'.slot = client.slot
BY DEF Shape, Go, ClientType

LEMMA Goes ==
  ASSUME Shape, NEW step \in Steps, client' = Go(step)
  PROVE  /\ client' \in ClientType
         /\ client'.at = step /\ client'.wait = 0 /\ client'.answer = "none"
         /\ client'.patience = client.patience /\ client'.slot = client.slot
BY DEF Shape, Go, ClientType

\* A connection neither before nor after the step the client's is left as it was.
LEMMA Elsewhere ==
  ASSUME IInv, NEW s \in Slots, ~Here(s), ~Here(s)', conns'[s] = conns[s], since' = since
  PROVE  SlotInv(s)'
BY DEF IInv, SlotInv, Asks, Fresh, Patient, Bounded, Carries

\* A step of the client: what it must establish on its own connection.
LEMMA ClientStep ==
  ASSUME IInv, client' \in ClientType, client'.slot = client.slot,
         conns' \in [Slots -> ConnType], UNCHANGED <<revoked, since>>,
         \A s \in Slots \ {client.slot} : conns'[s] = conns[s],
         Recent', SlotInv(client.slot)'
  PROVE  IInv'
<1>1. Shape'
  BY DEF IInv, Shape, ClientType
<1>2. ASSUME NEW s \in Slots, s # client.slot PROVE SlotInv(s)'
  BY <1>2, Elsewhere DEF Here
<1> QED BY <1>1, <1>2 DEF IInv

LEMMA HungUp ==
  ASSUME IInv, GiveUp, UNCHANGED <<revoked, since>>
  PROVE  IInv'
<1>1. Shape
  BY DEF IInv
<1>2. /\ client'.at = "off" /\ client'.wait = 0 /\ client'.answer = "none"
      /\ client' \in ClientType
  BY <1>1, Typed, Times DEF GiveUp, Released, Idle, Other, ClientType, Steps, Slots
<1>3. /\ conns' \in [Slots -> ConnType]
      /\ \A s \in Slots : /\ s # client.slot => conns'[s] = conns[s]
                          /\ s = client.slot => conns'[s] = [conns[s] EXCEPT !.eof = TRUE]
  <2> DEFINE k == [conns[client.slot] EXCEPT !.eof = TRUE]
  <2>1. k \in ConnType
    BY <1>1, Typed DEF ConnType
  <2>2. conns' = [conns EXCEPT ![client.slot] = k]
    BY DEF GiveUp, Hangup
  <2> QED BY <1>1, <2>1, <2>2 DEF Shape
<1>4. Shape' /\ Recent'
  BY <1>1, <1>2, <1>3 DEF IInv, Shape, Recent, ClientType, CpSteps
<1>5. ASSUME NEW s \in Slots PROVE SlotInv(s)'
  <2>1. ~Here(s)'
    BY <1>2 DEF Here
  <2>2. CASE s # client.slot
    BY <1>3, <2>1, <2>2, Elsewhere DEF Here
  <2>3. CASE s = client.slot
    <3>1. /\ conns'[s].req = conns[s].req /\ conns'[s].reply = conns[s].reply
          /\ conns'[s].neg = conns[s].neg /\ conns'[s].lease = conns[s].lease
          /\ conns'[s].eof
      BY <1>1, <1>3, <2>3, Typed DEF ConnType
    <3> QED BY <2>1, <3>1 DEF IInv, SlotInv, Asks, Fresh, Patient, Bounded, Carries
  <2> QED BY <2>2, <2>3
<1> QED BY <1>4, <1>5 DEF IInv

LEMMA WasSent ==
  ASSUME Shape, NEW step \in IpcSteps, conns' = Sent(step)
  PROVE  /\ conns' \in [Slots -> ConnType]
         /\ \A s \in Slots \ {client.slot} : conns'[s] = conns[s]
         /\ conns'[client.slot].req = step /\ conns'[client.slot].reply = "none"
         /\ conns'[client.slot].eof = conns[client.slot].eof
         /\ conns'[client.slot].neg = conns[client.slot].neg
         /\ conns'[client.slot].lease = conns[client.slot].lease
<1> DEFINE k == [conns[client.slot] EXCEPT !.req = step, !.reply = "none"]
<1>1. /\ k \in ConnType /\ k.req = step /\ k.reply = "none" /\ k.eof = conns[client.slot].eof
      /\ k.neg = conns[client.slot].neg /\ k.lease = conns[client.slot].lease
  BY Typed DEF ConnType
<1>2. conns' = [conns EXCEPT ![client.slot] = k]
  BY DEF Sent
<1> HIDE DEF k
<1> QED BY <1>1, <1>2, Typed DEF Shape

\* The connection of a client that is connecting, or was answered, waits for nothing.
LEMMA Quiet ==
  ASSUME IInv, client.at \notin IpcSteps \cup {"off"}
  PROVE  conns[client.slot].req = "none" /\ ~conns[client.slot].eof
<1>1. Here(client.slot) /\ Shape /\ SlotInv(client.slot)
  BY Typed DEF Here, IInv
<1> QED BY <1>1, Typed DEF SlotInv, Asks, ConnType

LEMMA ConnectStep == ASSUME IInv, Connect PROVE IInv'
<1>1. Shape /\ Recent /\ SlotInv(client.slot)
  BY Typed DEF IInv
<1>2. /\ client' \in ClientType /\ client'.at = "create" /\ client'.wait = 0
      /\ client'.answer = "none" /\ client'.slot = client.slot
  BY <1>1, Goes DEF Connect, Steps, CpSteps
<1>3. conns' = conns /\ since' = since /\ revoked' = revoked
  BY DEF Connect
<1>4. /\ conns[client.slot].req = "none" /\ conns[client.slot].reply = "none"
      /\ ~conns[client.slot].eof /\ conns[client.slot].neg = "none"
  BY DEF Connect, Conn, NoConn
<1>5. SlotInv(client.slot)'
  BY <1>2, <1>3, <1>4 DEF SlotInv, Asks, Fresh, Patient, Bounded, Carries, Open
<1>6. Recent'
  BY <1>1, <1>2, <1>3, Times DEF Recent
<1> QED BY <1>1, <1>2, <1>3, <1>5, <1>6, ClientStep DEF Shape

\* Within a session no request starts a carrier before the bring-up does.
Before == {"create", "prepare", "publish", "gateway", "authorize"}

LEMMA NotYet ==
  ASSUME IInv, client.at \in Before
  PROVE  Here(client.slot) /\ conns[client.slot].neg # "used"
BY Typed DEF IInv, SlotInv, Fresh, Before, Here

\* The next request to the control plane.
LEMMA AsksOn ==
  ASSUME IInv, NEW step \in {"publish", "gateway"}, client' = Go(step), conns' = conns,
         client.at \in {"publish", "gateway"}, UNCHANGED <<revoked, since>>
  PROVE  IInv'
<1>1. Shape /\ Recent /\ SlotInv(client.slot)
  BY Typed DEF IInv
<1>2. /\ client' \in ClientType /\ client'.at = step /\ client'.wait = 0
      /\ client'.answer = "none" /\ client'.slot = client.slot
  BY <1>1, Goes DEF Steps, CpSteps
<1>3. Here(client.slot) /\ conns[client.slot].neg # "used"
  BY NotYet DEF Before
<1>4. conns[client.slot].req = "none" /\ ~conns[client.slot].eof
  BY Quiet DEF IpcSteps
<1>5. SlotInv(client.slot)'
  BY <1>1, <1>2, <1>3, <1>4 DEF SlotInv, Asks, Fresh, Patient, Bounded, Carries, Here
<1>6. Recent'
  BY <1>1, <1>2, Times DEF Recent
<1> QED BY <1>1, <1>2, <1>5, <1>6, ClientStep DEF Shape

LEMMA CreatedStep == ASSUME IInv, Created PROVE IInv'
<1>1. Shape /\ Recent /\ SlotInv(client.slot)
  BY Typed DEF IInv
<1>2. /\ client.at = "create" /\ client' = Go("prepare") /\ conns' = Sent("prepare")
      /\ UNCHANGED <<revoked, since>>
  BY DEF Created, Accepted
<1>3. /\ client' \in ClientType /\ client'.at = "prepare" /\ client'.wait = 0
      /\ client'.answer = "none" /\ client'.slot = client.slot
  BY <1>1, <1>2, Goes DEF Steps, IpcSteps
<1>4. Here(client.slot) /\ conns[client.slot].neg # "used"
  BY <1>2, NotYet DEF Before
<1>5. ~conns[client.slot].eof
  BY <1>2, Quiet DEF IpcSteps
<1>6. SlotInv(client.slot)'
  BY <1>1, <1>2, <1>3, <1>4, <1>5, WasSent
     DEF SlotInv, Asks, Fresh, Patient, Bounded, Carries, Here, IpcSteps
<1>7. Recent'
  BY <1>1, <1>2, <1>3 DEF Recent, CpSteps
<1> QED BY <1>1, <1>2, <1>3, <1>6, <1>7, ClientStep, WasSent DEF IpcSteps

LEMMA GatewayStep == ASSUME IInv, GatewayAnswered PROVE IInv'
<1>1. Shape /\ Recent /\ SlotInv(client.slot)
  BY Typed DEF IInv
<1>2. /\ client.at = "gateway" /\ client.answer = "ok"
      /\ client' = Go("authorize") /\ conns' = Sent("authorize") /\ UNCHANGED <<revoked, since>>
  BY DEF GatewayAnswered, Accepted
<1>3. /\ client' \in ClientType /\ client'.at = "authorize" /\ client'.wait = 0
      /\ client'.answer = "none" /\ client'.slot = client.slot
  BY <1>1, <1>2, Goes DEF Steps, IpcSteps
<1>4. Here(client.slot) /\ conns[client.slot].neg # "used"
  BY <1>2, NotYet DEF Before
<1>5. ~conns[client.slot].eof
  BY <1>2, Quiet DEF IpcSteps
<1>6. SlotInv(client.slot)'
  BY <1>1, <1>2, <1>3, <1>4, <1>5, WasSent
     DEF SlotInv, Asks, Fresh, Patient, Bounded, Carries, Here, IpcSteps
<1>7. Recent'
  BY <1>1, <1>2, <1>3, Typed, Times DEF Recent, CpSteps
<1> QED BY <1>1, <1>2, <1>3, <1>6, <1>7, ClientStep, WasSent DEF IpcSteps

LEMMA RenewedStep == ASSUME IInv, Renewed PROVE IInv'
<1> DEFINE s == client.slot
<1>1. Shape /\ Recent /\ SlotInv(s) /\ s \in Slots
  BY Typed DEF IInv
<1>2. /\ client.at = "read" /\ client.answer = "ok"
      /\ client' = Go("renew") /\ conns' = Sent("renew") /\ UNCHANGED <<revoked, since>>
  BY DEF Renewed, Accepted
<1>3. /\ client' \in ClientType /\ client'.at = "renew" /\ client'.wait = 0
      /\ client'.answer = "none" /\ client'.slot = s /\ client'.patience = client.patience
  BY <1>1, <1>2, Goes DEF Steps, IpcSteps
<1>4. Here(s) /\ ~conns[s].eof
  BY <1>2, Quiet DEF IpcSteps, Here
<1>5. /\ conns'[s].req = "renew" /\ conns'[s].reply = "none" /\ ~conns'[s].eof
      /\ conns'[s].neg = conns[s].neg /\ conns'[s].lease = conns[s].lease
  BY <1>1, <1>2, <1>4, WasSent DEF IpcSteps
<1>6. since <= client.wait
  BY <1>1, <1>2 DEF Recent, CpSteps
<1>7. Asks(s)' /\ Fresh(s)' /\ Patient(s)'
  BY <1>1, <1>2, <1>3, <1>4, <1>5 DEF SlotInv, Asks, Fresh, Patient, Here
<1>8. Bounded(s)'
  BY <1>1, <1>2, <1>3, <1>4, <1>5 DEF SlotInv, Bounded, Carries, Here
<1>9. Recent'
  BY <1>1, <1>2, <1>3, <1>6, Typed, Times DEF Recent, CpSteps
<1>10. SlotInv(s)'
  BY <1>7, <1>8 DEF SlotInv
<1> QED BY <1>1, <1>2, <1>3, <1>9, <1>10, ClientStep, WasSent DEF IpcSteps

LEMMA TransientStep == ASSUME IInv, Transient PROVE IInv'
<1> DEFINE s == client.slot
<1>1. Shape /\ Recent /\ SlotInv(s) /\ s \in Slots
  BY Typed DEF IInv
<1>2. CASE client.patience > 0
  <2>1. client.at = "read" /\ client' = Go("live") /\ conns' = conns /\ UNCHANGED <<revoked, since>>
    BY <1>2 DEF Transient
  <2>2. /\ client' \in ClientType /\ client'.at = "live" /\ client'.wait = 0
        /\ client'.answer = "none" /\ client'.slot = s /\ client'.patience = client.patience
    BY <1>1, <2>1, Goes DEF Steps
  <2>3. Here(s) /\ ~conns[s].eof /\ conns[s].req = "none"
    BY <2>1, Quiet DEF IpcSteps, Here
  <2>4. Asks(s)' /\ Fresh(s)' /\ Patient(s)'
    BY <1>1, <2>1, <2>2, <2>3 DEF SlotInv, Asks, Fresh, Patient, Here
  <2>5. Bounded(s)'
    BY <1>1, <2>1, <2>2, <2>3, Typed, Times DEF SlotInv, Bounded, Carries, Here
  <2>6. Recent'
    BY <1>1, <2>1, <2>2 DEF Recent, CpSteps
  <2>7. SlotInv(s)'
    BY <2>4, <2>5 DEF SlotInv
  <2> QED BY <1>1, <2>1, <2>2, <2>6, <2>7, ClientStep DEF Shape
<1>3. CASE ~(client.patience > 0)
  BY <1>3, HungUp DEF Transient
<1> QED BY <1>2, <1>3

LEMMA BeatStep == ASSUME IInv, Beat PROVE IInv'
<1> DEFINE s == client.slot
<1>1. Shape /\ Recent /\ SlotInv(s) /\ s \in Slots
  BY Typed DEF IInv
<1>2. /\ client.at = "live" /\ client.wait = Heartbeat /\ client' = Go("read")
      /\ conns' = conns /\ UNCHANGED <<revoked, since>>
  BY DEF Beat
<1>3. /\ client' \in ClientType /\ client'.at = "read" /\ client'.wait = 0
      /\ client'.answer = "none" /\ client'.slot = s /\ client'.patience = client.patience
  BY <1>1, <1>2, Goes DEF Steps, CpSteps
<1>4. Here(s) /\ ~conns[s].eof /\ conns[s].req = "none"
  BY <1>2, Quiet DEF IpcSteps, Here
<1>5. Asks(s)' /\ Fresh(s)' /\ Patient(s)'
  BY <1>1, <1>2, <1>3, <1>4 DEF SlotInv, Asks, Fresh, Patient, Here
<1>6. Bounded(s)'
  BY <1>1, <1>2, <1>3, <1>4, Typed, Times DEF SlotInv, Bounded, Carries, Here
<1>7. Recent'
  BY <1>1, <1>2, <1>3, Times DEF Recent, CpSteps
<1>8. SlotInv(s)'
  BY <1>5, <1>6 DEF SlotInv
<1> QED BY <1>1, <1>2, <1>3, <1>7, <1>8, ClientStep DEF Shape

\* The patience a reply brings is what the lease has left, at most.
LEMMA Granted ==
  ASSUME Shape
  PROVE  Authorized \in 0..Lease /\ (Lease <= conns[client.slot].lease + client.wait =>
                                       Authorized <= conns[client.slot].lease)
BY Typed, Times DEF Authorized

LEMMA RepliedEffect ==
  ASSUME IInv, Replied
  PROVE  /\ Here(client.slot) /\ conns[client.slot].req = "none" /\ conns[client.slot].reply = "ok"
         /\ client' \in ClientType /\ client'.wait = 0 /\ client'.answer = "none"
         /\ client'.slot = client.slot /\ UNCHANGED <<revoked, since>>
         /\ conns' \in [Slots -> ConnType]
         /\ \A s \in Slots \ {client.slot} : conns'[s] = conns[s]
         /\ conns'[client.slot].reply = "none"
         /\ conns'[client.slot].eof = conns[client.slot].eof
         /\ conns'[client.slot].neg = conns[client.slot].neg
         /\ conns'[client.slot].lease = conns[client.slot].lease
         /\ \/ /\ client.at = "prepare" /\ client'.at = "publish"
               /\ conns'[client.slot].req = "none"
            \/ /\ client.at = "authorize" /\ client'.at = "up" /\ client'.patience = Authorized
               /\ conns'[client.slot].req = "up"
            \/ /\ client.at = "up" /\ client'.at = "live" /\ client'.patience = client.patience
               /\ conns'[client.slot].req = "none"
            \/ /\ client.at = "renew" /\ client'.at = "beat" /\ client'.patience = Authorized
               /\ conns'[client.slot].req = "beat"
            \/ /\ client.at = "beat" /\ client'.at = "live" /\ client'.patience = client.patience
               /\ conns'[client.slot].req = "none"
<1> DEFINE s == client.slot
           k == [conns[s] EXCEPT !.reply = "none"]
           n == CASE client.at = "authorize" -> [k EXCEPT !.req = "up"]
                  [] client.at = "renew" -> [k EXCEPT !.req = "beat"]
                  [] OTHER -> k
<1>1. Shape /\ s \in Slots /\ SlotInv(s) /\ conns[s] \in ConnType
  BY Typed DEF IInv
<1>2. /\ client.at \in IpcSteps /\ conns[s].reply = "ok" /\ client' = AfterReply(client.at)
      /\ UNCHANGED <<revoked, since>>
  BY DEF Replied, Conn
<1>3. conns' = [conns EXCEPT ![s] = n]
  BY DEF Replied, Conn
<1>4. Here(s) /\ conns[s].req = "none"
  BY <1>1, <1>2, Typed DEF Here, IpcSteps, SlotInv, Asks
<1>5. /\ n \in ConnType /\ n.reply = "none" /\ n.eof = conns[s].eof /\ n.neg = conns[s].neg
      /\ n.lease = conns[s].lease
      /\ n.req = IF client.at = "authorize" THEN "up"
                 ELSE IF client.at = "renew" THEN "beat" ELSE "none"
  <2>1. CASE client.at = "authorize"
    <3>1. n = [k EXCEPT !.req = "up"]
      BY <2>1
    <3> HIDE DEF n
    <3> QED BY <1>1, <2>1, <3>1 DEF ConnType, IpcSteps
  <2>2. CASE client.at = "renew"
    <3>1. n = [k EXCEPT !.req = "beat"]
      BY <2>2
    <3> HIDE DEF n
    <3> QED BY <1>1, <2>2, <3>1 DEF ConnType, IpcSteps
  <2>3. CASE client.at \notin {"authorize", "renew"}
    <3>1. n = k
      BY <2>3
    <3> HIDE DEF n
    <3> QED BY <1>1, <1>4, <2>3, <3>1 DEF ConnType
  <2> QED BY <2>1, <2>2, <2>3
<1> HIDE DEF n
<1>6. /\ conns' \in [Slots -> ConnType] /\ conns'[s] = n
      /\ \A t \in Slots \ {s} : conns'[t] = conns[t]
  BY <1>1, <1>3, <1>5 DEF Shape
<1>7. CASE client.at = "prepare"
  <2>1. client' = Go("publish")
    BY <1>2, <1>7 DEF AfterReply
  <2> QED BY <1>1, <1>2, <1>4, <1>5, <1>6, <1>7, <2>1, Goes DEF Steps, CpSteps
<1>8. CASE client.at = "authorize"
  <2>1. client' = [Go("up") EXCEPT !.patience = Authorized]
    BY <1>2, <1>8 DEF AfterReply
  <2> QED BY <1>1, <1>2, <1>4, <1>5, <1>6, <1>8, <2>1, Went, Granted DEF Steps, IpcSteps
<1>9. CASE client.at \in {"up", "beat"}
  <2>1. client' = Go("live")
    BY <1>2, <1>9 DEF AfterReply
  <2> QED BY <1>1, <1>2, <1>4, <1>5, <1>6, <1>9, <2>1, Goes DEF Steps
<1>10. CASE client.at = "renew"
  <2>1. client' = [Go("beat") EXCEPT !.patience = Authorized]
    BY <1>2, <1>10 DEF AfterReply
  <2> QED BY <1>1, <1>2, <1>4, <1>5, <1>6, <1>10, <2>1, Went, Granted DEF Steps, IpcSteps
<1> QED BY <1>2, <1>7, <1>8, <1>9, <1>10 DEF IpcSteps

LEMMA RepliedStep == ASSUME IInv, Replied PROVE IInv'
<1> DEFINE s == client.slot
<1>1. Shape /\ Recent /\ SlotInv(s) /\ s \in Slots
  BY Typed DEF IInv
<1>2. Asks(s)' /\ Fresh(s)'
  BY <1>1, RepliedEffect DEF SlotInv, Asks, Fresh, Here
<1>3. Patient(s)'
  BY <1>1, RepliedEffect, Granted DEF SlotInv, Patient, Here
<1>4. Bounded(s)'
  BY <1>1, RepliedEffect DEF SlotInv, Asks, Bounded, Carries, Here
<1>5. Recent'
  BY <1>1, RepliedEffect, Times DEF Recent, CpSteps
<1>6. SlotInv(s)'
  BY <1>2, <1>3, <1>4 DEF SlotInv
<1> QED BY <1>5, <1>6, RepliedEffect, ClientStep

LEMMA AnswerStep == ASSUME IInv, ServerAnswers PROVE IInv'
<1> DEFINE s == client.slot
           a == IF revoked THEN "no" ELSE "ok"
<1>1. Shape /\ Recent /\ SlotInv(s) /\ s \in Slots
  BY Typed DEF IInv
<1>2. /\ client.at \in CpSteps /\ client' = [client EXCEPT !.answer = a]
      /\ UNCHANGED <<revoked, since, conns>> /\ a \in {"ok", "no"} /\ (a = "ok" => ~revoked)
  BY DEF ServerAnswers
<1> HIDE DEF a
<1>3. /\ client' \in ClientType /\ client'.at = client.at /\ client'.wait = client.wait
      /\ client'.answer = a /\ client'.slot = s /\ client'.patience = client.patience
  BY <1>1, <1>2, Typed DEF ClientType
<1>4. SlotInv(s)'
  BY <1>1, <1>2, <1>3 DEF SlotInv, Asks, Fresh, Patient, Bounded, Carries, Here
<1>5. Recent'
  BY <1>1, <1>2, <1>3, Typed, Times DEF Recent, CpSteps
<1> QED BY <1>1, <1>2, <1>3, <1>4, <1>5, ClientStep DEF Shape

LEMMA DisconnectStep == ASSUME IInv, Disconnect PROVE IInv'
<1> DEFINE k == [NoConn EXCEPT !.eof = TRUE]
<1>1. Shape /\ client.slot \in Slots
  BY Typed DEF IInv
<1>2. /\ client'.at = "off" /\ client'.wait = 0 /\ client'.answer = "none"
      /\ client' \in ClientType
  BY <1>1, Times DEF Disconnect, Released, Idle, Other, ClientType, Steps, Slots
<1>3. k \in ConnType /\ k.eof /\ k.req = "none" /\ k.reply = "none" /\ k.neg = "none"
  <2>1. NoConn \in ConnType
    BY Times DEF NoConn, ConnType
  <2> QED BY <2>1 DEF NoConn, ConnType
<1>4. conns' = [conns EXCEPT ![client.slot] = k] /\ UNCHANGED <<revoked, since>>
  BY DEF Disconnect
<1> HIDE DEF k
<1>5. /\ conns' \in [Slots -> ConnType] /\ conns'[client.slot] = k
      /\ \A s \in Slots \ {client.slot} : conns'[s] = conns[s]
  BY <1>1, <1>3, <1>4 DEF Shape
<1>6. Shape' /\ Recent'
  BY <1>1, <1>2, <1>4, <1>5 DEF IInv, Shape, Recent, ClientType, CpSteps
<1>7. ASSUME NEW s \in Slots PROVE SlotInv(s)'
  <2>1. ~Here(s)'
    BY <1>2 DEF Here
  <2>2. CASE s # client.slot
    BY <1>4, <1>5, <2>1, <2>2, Elsewhere DEF Here
  <2>3. CASE s = client.slot
    BY <1>3, <1>5, <2>1, <2>3 DEF SlotInv, Asks, Fresh, Patient, Bounded, Carries
  <2> QED BY <2>2, <2>3
<1> QED BY <1>6, <1>7 DEF IInv

\* What touches neither the client nor a connection.
LEMMA StillStep ==
  ASSUME IInv, UNCHANGED <<client, conns, since>>, revoked' \in BOOLEAN, ~revoked' => ~revoked
  PROVE  IInv'
<1>1. Shape' /\ Recent'
  BY DEF IInv, Shape, Recent
<1>2. ASSUME NEW s \in Slots PROVE SlotInv(s)'
  BY DEF IInv, SlotInv, Asks, Fresh, Patient, Bounded, Carries, Here
<1> QED BY <1>1, <1>2 DEF IInv

LEMMA ClientKeeps == ASSUME IInv, Client PROVE IInv'
<1>1. CASE Refused \/ NotExtended \/ Denied \/ Crash
  BY <1>1, HungUp DEF Refused, NotExtended, Denied, Crash
<1>2. CASE Published \/ Unanswered
  BY <1>2, AsksOn DEF Published, Unanswered, Accepted
<1>3. CASE Cleanup
  BY <1>3, StillStep DEF Cleanup, IInv, Shape
<1> QED BY <1>1, <1>2, <1>3, ConnectStep, CreatedStep, GatewayStep, RenewedStep, TransientStep,
           RepliedStep, BeatStep, DisconnectStep DEF Client

-----------------------------------------------------------------------------
(* The helper.                                                             *)

\* A step of a handler: what it must establish on its own connection.
LEMMA HandlerStep ==
  ASSUME IInv, NEW s \in Slots, NEW k \in ConnType, Set(s, k),
         UNCHANGED <<client, revoked, since>>, SlotInv(s)'
  PROVE  IInv'
<1>1. Shape
  BY DEF IInv
<1>2. /\ conns' \in [Slots -> ConnType]
      /\ \A t \in Slots \ {s} : conns'[t] = conns[t]
  BY <1>1 DEF Set, Shape
<1>3. Shape' /\ Recent'
  BY <1>1, <1>2 DEF IInv, Shape, Recent
<1>4. ASSUME NEW t \in Slots, t # s PROVE SlotInv(t)'
  BY <1>2, <1>4 DEF IInv, SlotInv, Asks, Fresh, Patient, Bounded, Carries, Here
<1> QED BY <1>3, <1>4 DEF IInv

LEMMA SetTo ==
  ASSUME Shape, NEW s \in Slots, NEW k, Set(s, k)
  PROVE  conns'[s] = k
BY DEF Set, Shape

LEMMA Finished ==
  ASSUME NEW k \in ConnType, NEW r \in {"ok", "no"}
  PROVE  /\ Done(k, r) \in ConnType
         /\ Done(k, r).req = "none" /\ Done(k, r).reply = r /\ Done(k, r).eof = k.eof
         /\ Done(k, r).neg = k.neg /\ Done(k, r).lease = k.lease
BY DEF Done, ConnType

\* A request is answered and nothing else changes, or the carrier is closed with it.
LEMMA AnsweredStep ==
  ASSUME IInv, NEW s \in Slots, NEW k \in ConnType, Set(s, k),
         UNCHANGED <<client, revoked, since>>,
         conns[s].req # "none", k.req = "none", k.eof = conns[s].eof, k.lease = conns[s].lease,
         \/ k.neg = conns[s].neg /\ (k.reply = "no" \/ conns[s].req \notin {"authorize", "renew"})
         \/ ~Open(k.neg)
  PROVE  IInv'
<1>1. SlotInv(s) /\ conns'[s] = k
  BY SetTo DEF IInv
<1>2. Asks(s)' /\ Fresh(s)'
  BY <1>1 DEF SlotInv, Asks, Fresh, Here, Open
<1>3. Here(s)' = Here(s) /\ (Here(s) => conns[s].req = client.at)
  BY <1>1 DEF SlotInv, Asks, Here
<1>4. Patient(s)'
  BY <1>1, <1>3 DEF SlotInv, Patient, Open
<1>5. Carries(s)' => Carries(s)
  BY <1>1, <1>3 DEF Carries, Open
<1>6. Bounded(s)'
  BY <1>1, <1>3, <1>5 DEF SlotInv, Bounded, Open
<1> QED BY <1>2, <1>4, <1>6, HandlerStep DEF SlotInv

LEMMA PrepareStep == ASSUME IInv, NEW s \in Slots, Prepare(s) PROVE IInv'
<1>1. Shape /\ SlotInv(s) /\ conns[s] \in ConnType
  BY Typed DEF IInv
<1>2. conns[s].req = "prepare" /\ UNCHANGED <<client, revoked, since>>
  BY DEF Prepare, Handles
<1>3. CASE tunnel.state # "down"
  BY <1>1, <1>2, <1>3, Finished, AnsweredStep DEF Prepare
<1>4. CASE tunnel.state = "down"
  <2> DEFINE k == [conns[s] EXCEPT !.busy = 1, !.neg = "none"]
  <2>1. Set(s, k)
    BY <1>4 DEF Prepare
  <2>2. /\ k \in ConnType /\ k.neg = "none" /\ k.req = conns[s].req
        /\ k.reply = conns[s].reply /\ k.eof = conns[s].eof
    BY <1>1 DEF ConnType
  <2> HIDE DEF k
  <2>3. SlotInv(s)'
    BY <1>1, <1>2, <2>1, <2>2, SetTo DEF SlotInv, Asks, Fresh, Patient, Bounded, Carries, Open, Here
  <2> QED BY <1>2, <2>1, <2>2, <2>3, HandlerStep
<1> QED BY <1>3, <1>4

LEMMA GatheredStep == ASSUME IInv, NEW s \in Slots, Gathered(s) PROVE IInv'
<1>1. Shape /\ SlotInv(s) /\ conns[s] \in ConnType
  BY Typed DEF IInv
<1>2. conns[s].req = "prepare" /\ UNCHANGED <<client, revoked, since>>
  BY DEF Gathered
<1>3. CASE Set(s, Done(conns[s], "no"))
  BY <1>1, <1>2, <1>3, Finished, AnsweredStep
<1>4. CASE Set(s, [Done(conns[s], "ok") EXCEPT !.neg = "ready", !.lease = Lease, !.fired = FALSE])
  <2> DEFINE k == [Done(conns[s], "ok") EXCEPT !.neg = "ready", !.lease = Lease, !.fired = FALSE]
  <2>1. /\ k \in ConnType /\ k.neg = "ready" /\ k.req = "none"
        /\ k.reply = "ok" /\ k.eof = conns[s].eof /\ k.lease = Lease
    <3> DEFINE d == Done(conns[s], "ok")
    <3>1. Lease \in 0..Lease
      BY Times
    <3>2. d \in ConnType /\ d.req = "none" /\ d.reply = "ok" /\ d.eof = conns[s].eof
      BY <1>1, Finished
    <3>3. k = [d EXCEPT !.neg = "ready", !.lease = Lease, !.fired = FALSE]
      OBVIOUS
    <3> HIDE DEF d, k
    <3> QED BY <3>1, <3>2, <3>3 DEF ConnType
  <2> HIDE DEF k
  <2>2. conns'[s] = k
    BY <1>1, <1>4, SetTo DEF k
  <2>3. Here(s)' = Here(s) /\ (Here(s) => client.at = "prepare")
    BY <1>1, <1>2 DEF Here, SlotInv, Asks
  <2>4. SlotInv(s)'
    BY <1>1, <1>2, <2>1, <2>2, <2>3 DEF SlotInv, Asks, Fresh, Patient, Bounded, Carries
  <2> QED BY <1>2, <1>4, <2>1, <2>4, HandlerStep DEF k
<1> QED BY <1>3, <1>4 DEF Gathered

LEMMA AuthorizeStep == ASSUME IInv, NEW s \in Slots, Authorize(s) PROVE IInv'
<1>1. Shape /\ Recent /\ SlotInv(s) /\ conns[s] \in ConnType
  BY Typed DEF IInv
<1>2. conns[s].req \in {"authorize", "renew"} /\ UNCHANGED <<client, revoked, since>>
  BY DEF Authorize, Handles
<1>3. CASE ~Open(conns[s].neg)
  BY <1>1, <1>2, <1>3, Finished, AnsweredStep DEF Authorize
<1>4. CASE Open(conns[s].neg)
  <2> DEFINE k == [Done(conns[s], "ok") EXCEPT !.lease = Lease]
  <2>1. Set(s, k)
    BY <1>4 DEF Authorize
  <2>2. /\ k \in ConnType /\ k.neg = conns[s].neg /\ k.req = "none"
        /\ k.reply = "ok" /\ k.eof = conns[s].eof /\ k.lease = Lease
    <3>1. Lease \in 0..Lease
      BY Times
    <3> QED BY <1>1, <3>1, Finished DEF ConnType
  <2> HIDE DEF k
  <2>3. conns'[s] = k
    BY <1>1, <2>1, SetTo
  <2>4. Here(s)' = Here(s) /\ (Here(s) => client.at = conns[s].req)
    BY <1>1, <1>2 DEF Here, SlotInv, Asks
  <2>5. Asks(s)' /\ Fresh(s)'
    BY <1>1, <1>2, <2>2, <2>3, <2>4 DEF SlotInv, Asks, Fresh
  <2>6. Patient(s)'
    BY <1>1, <1>2, <2>2, <2>3, <2>4, Typed, Times DEF Patient
  <2>7. ASSUME Here(s) PROVE Bounded(s)'
    <3>1. since + Lease <= Latest
      BY <1>1, <1>2, <2>4, <2>7, Typed, Times DEF Recent
    <3> QED BY <1>2, <2>2, <2>3, <3>1 DEF Bounded
  <2>8. ASSUME ~Here(s) PROVE Bounded(s)'
    <3>1. Carries(s)' => conns[s].neg = "used" /\ conns[s].eof /\ conns[s].req # "none"
      BY <1>1, <1>2, <2>2, <2>3, <2>4, <2>8 DEF Carries, SlotInv, Asks
    <3>2. Carries(s)' => since <= Latest
      BY <1>1, <3>1, Typed, Times DEF SlotInv, Bounded, Carries
    <3> QED BY <1>2, <2>2, <2>3, <3>1, <3>2 DEF Bounded
  <2> QED BY <1>2, <2>1, <2>2, <2>5, <2>6, <2>7, <2>8, HandlerStep DEF SlotInv
<1> QED BY <1>3, <1>4

LEMMA BindStep == ASSUME IInv, NEW s \in Slots, Bind(s) PROVE IInv'
<1>1. Shape /\ SlotInv(s) /\ conns[s] \in ConnType
  BY Typed DEF IInv
<1>2. conns[s].req = "up" /\ UNCHANGED <<client, revoked, since>>
  BY DEF Bind, Handles
<1>3. CASE conns[s].neg = "ready"
  <2> DEFINE k == [conns[s] EXCEPT !.busy = 1, !.neg = "used"]
  <2>1. Set(s, k)
    BY <1>3 DEF Bind
  <2>2. /\ k \in ConnType /\ k.neg = "used" /\ k.req = "up"
        /\ k.reply = conns[s].reply /\ k.eof = conns[s].eof /\ k.lease = conns[s].lease
    BY <1>1, <1>2 DEF ConnType
  <2> HIDE DEF k
  <2>3. conns'[s] = k
    BY <1>1, <2>1, SetTo
  <2>4. Here(s)' = Here(s) /\ (Here(s) => client.at = "up")
    BY <1>1, <1>2 DEF Here, SlotInv, Asks
  <2>5. Asks(s)' /\ Fresh(s)' /\ Patient(s)'
    BY <1>1, <1>2, <1>3, <2>2, <2>3, <2>4 DEF SlotInv, Asks, Fresh, Patient, Open
  <2>6. Bounded(s)'
    BY <1>1, <1>2, <1>3, <2>2, <2>3, <2>4 DEF SlotInv, Bounded, Carries
  <2> QED BY <1>2, <2>1, <2>2, <2>5, <2>6, HandlerStep DEF SlotInv
<1>4. CASE conns[s].neg # "ready"
  <2> DEFINE n == IF conns[s].neg = "none" THEN "none" ELSE "closed"
             k == [Done(conns[s], "no") EXCEPT !.neg = n]
  <2>1. k \in ConnType /\ k.req = "none" /\ k.eof = conns[s].eof
        /\ k.lease = conns[s].lease /\ ~Open(k.neg)
    BY <1>1, Finished DEF ConnType, Open
  <2>2. Set(s, k)
    BY <1>1, <1>4, Finished DEF Bind
  <2> HIDE DEF k
  <2> QED BY <1>2, <2>1, <2>2, AnsweredStep
<1> QED BY <1>3, <1>4

LEMMA BoundStep == ASSUME IInv, NEW s \in Slots, Bound(s) PROVE IInv'
<1>1. Shape /\ conns[s] \in ConnType
  BY Typed DEF IInv
<1>2. conns[s].req = "up" /\ UNCHANGED <<client, revoked, since>>
  BY DEF Bound
<1>3. CASE Set(s, Done(conns[s], "ok"))
  BY <1>1, <1>2, <1>3, Finished, AnsweredStep
<1>4. CASE Set(s, [Done(conns[s], "no") EXCEPT !.neg = "closed"])
  <2> DEFINE k == [Done(conns[s], "no") EXCEPT !.neg = "closed"]
  <2>1. k \in ConnType /\ k.req = "none" /\ k.eof = conns[s].eof
        /\ k.lease = conns[s].lease /\ ~Open(k.neg)
    BY <1>1, Finished DEF ConnType, Open
  <2>2. Set(s, k)
    BY <1>4
  <2> HIDE DEF k
  <2> QED BY <1>2, <2>1, <2>2, AnsweredStep
<1> QED BY <1>3, <1>4 DEF Bound

LEMMA ReplyStep == ASSUME IInv, NEW s \in Slots, AlreadyUp(s) \/ Status(s) PROVE IInv'
<1>1. Shape /\ conns[s] \in ConnType
  BY Typed DEF IInv
<1>2. conns[s].req \in {"up", "beat"} /\ UNCHANGED <<client, revoked, since>>
  BY DEF AlreadyUp, Status, Handles
<1>3. PICK r \in {"ok", "no"} : Set(s, Done(conns[s], r))
  BY DEF AlreadyUp, Status
<1> QED BY <1>1, <1>2, <1>3, Finished, AnsweredStep

LEMMA EndsStep == ASSUME IInv, NEW s \in Slots, HandlerEnds(s) PROVE IInv'
<1>1. Shape /\ SlotInv(s)
  BY DEF IInv
<1>2. conns[s].eof /\ Set(s, NoConn) /\ UNCHANGED <<client, revoked, since>>
  BY DEF HandlerEnds
<1>3. /\ NoConn \in ConnType /\ NoConn.req = "none" /\ NoConn.neg = "none" /\ ~NoConn.eof
      /\ NoConn.reply = "none"
  BY Times DEF NoConn, ConnType
<1>4. conns'[s] = NoConn
  BY <1>1, <1>2, SetTo
<1>5. ~Here(s) /\ ~Here(s)'
  BY <1>1, <1>2 DEF SlotInv, Asks, Here
<1>6. SlotInv(s)'
  BY <1>3, <1>4, <1>5 DEF SlotInv, Asks, Fresh, Patient, Bounded, Carries
<1> QED BY <1>2, <1>3, <1>6, HandlerStep

\* The lease runs out, the close it asks for, the end of the session.
LEMMA TimerStep == ASSUME IInv, NEW s \in Slots, Fire(s) \/ Close(s) \/ Expire(s) PROVE IInv'
<1>1. Shape /\ SlotInv(s) /\ conns[s] \in ConnType
  BY Typed DEF IInv
<1>2. UNCHANGED <<client, revoked, since>>
  BY DEF Fire, Close, Expire
<1>3. PICK n \in {conns[s].neg, "closed"}, f \in BOOLEAN :
        Set(s, [conns[s] EXCEPT !.neg = n, !.fired = f])
  <2>1. CASE Close(s)
    BY <2>1 DEF Close
  <2>2. CASE Fire(s) \/ Expire(s)
    <3>1. [conns[s] EXCEPT !.fired = TRUE] = [conns[s] EXCEPT !.neg = conns[s].neg, !.fired = TRUE]
      BY <1>1 DEF ConnType
    <3> QED BY <2>2, <3>1 DEF Fire, Expire
  <2> QED BY <2>1, <2>2
<1> DEFINE k == [conns[s] EXCEPT !.neg = n, !.fired = f]
<1>4. /\ k \in ConnType /\ k.neg = n /\ k.req = conns[s].req /\ k.reply = conns[s].reply
      /\ k.eof = conns[s].eof /\ k.lease = conns[s].lease
  BY <1>1 DEF ConnType
<1>5. Set(s, k)
  BY <1>3
<1> HIDE DEF k
<1>6. conns'[s] = k
  BY <1>1, <1>5, SetTo
<1>7. SlotInv(s)'
  BY <1>1, <1>2, <1>4, <1>6 DEF SlotInv, Asks, Fresh, Patient, Bounded, Carries, Here, Open
<1> QED BY <1>2, <1>4, <1>5, <1>7, HandlerStep

-----------------------------------------------------------------------------
(* The properties.                                                         *)

LEMMA NextKeeps == ASSUME IInv, [Next]_vars PROVE IInv'
<1>1. CASE \E s \in Slots : Helper(s)
  BY <1>1, PrepareStep, GatheredStep, AuthorizeStep, BindStep, BoundStep, ReplyStep, EndsStep,
     TimerStep DEF Helper
<1>2. CASE DeadMan \/ Revoke
  BY <1>2, StillStep DEF DeadMan, Revoke, IInv, Shape
<1>3. CASE UNCHANGED vars
  BY <1>3, StillStep DEF vars, IInv, Shape
<1> QED BY <1>1, <1>2, <1>3, ClientKeeps, AnswerStep, TickStep DEF Next

\* The invariant behind the lease's properties.
THEOREM Invariance == Spec => []IInv
<1> QED BY Initially, NextKeeps, PTL DEF Spec

\* A carrier whose session was revoked is closed within a lease and two requests.
THEOREM StopsTheorem == Spec => []RevokedStops
<1>1. IInv => RevokedStops
  <2> SUFFICES ASSUME IInv, NEW s \in Slots, conns[s].neg = "used" PROVE ~(since > Latest)
    BY DEF RevokedStops, Forwarding
  <2>1. since + conns[s].lease <= Latest \/ since <= Latest
    BY DEF IInv, SlotInv, Bounded, Carries
  <2>2. since \in Nat /\ conns[s].lease \in Nat
    BY Typed DEF IInv
  <2> QED BY <2>1, <2>2, Times
<1> QED BY <1>1, Invariance, PTL

\* The client sits an outage out only as long as the helper's lease does.
THEOREM PatienceTheorem == Spec => []PatienceIsLeased
<1>1. IInv => PatienceIsLeased
  BY Typed DEF IInv, SlotInv, Patient, PatienceIsLeased, Conn, Here
<1> QED BY <1>1, Invariance, PTL

\* A carrier belongs to the connection of the client's session, or to one that is ending.
THEOREM OwnedTheorem == Spec => []CarrierIsOwned
<1>1. IInv => CarrierIsOwned
  BY DEF IInv, SlotInv, Asks, Fresh, CarrierIsOwned, Forwarding, Here
<1> QED BY <1>1, Invariance, PTL

-----------------------------------------------------------------------------
(* The types, and how long anything is waited for.                         *)

TunnelType ==
  [state : {"down", "up", "failed"}, owner : {0} \cup Slots, carrier : {0} \cup Slots]

\* Only a tunnel that is up has a carrier.
Carried == tunnel \in TunnelType /\ (tunnel.carrier # 0 => tunnel.state = "up")

\* Nobody waits beyond a deadline.
Within == client.wait <= Patience /\ \A s \in Slots : conns[s].busy <= Lease

LEMMA CarriedStep == ASSUME Carried, [Next]_vars PROVE Carried'
<1> USE DEF Slots
<1>1. NoTunnel \in TunnelType /\ NoTunnel.carrier = 0
  BY DEF NoTunnel, TunnelType
<1>2. CASE UNCHANGED tunnel
  BY <1>2 DEF Carried
<1>3. CASE Disconnect \/ Cleanup
  BY <1>1, <1>3 DEF Disconnect, Cleanup, Carried
<1>4. CASE DeadMan
  BY <1>4 DEF DeadMan, Carried, TunnelType
<1>5. ASSUME NEW s \in Slots, Bind(s) \/ Bound(s) \/ AlreadyUp(s) \/ HandlerEnds(s) PROVE Carried'
  <2>1. CASE Bind(s) \/ Bound(s)
    <3>1. tunnel' \in {tunnel, [state |-> "failed", owner |-> s, carrier |-> 0],
                       [state |-> "up", owner |-> s, carrier |-> s]}
      BY <2>1 DEF Bind, Bound
    <3> QED BY <3>1 DEF Carried, TunnelType
  <2>2. CASE AlreadyUp(s)
    BY <2>2 DEF AlreadyUp, Carried, TunnelType
  <2>3. CASE HandlerEnds(s)
    <3>1. tunnel' \in {tunnel, [tunnel EXCEPT !.owner = 0],
                       [state |-> "failed", owner |-> 0, carrier |-> 0]}
      BY <2>3 DEF HandlerEnds
    <3> QED BY <3>1 DEF Carried, TunnelType
  <2> QED BY <1>5, <2>1, <2>2, <2>3
<1>6. ASSUME Client, ~Disconnect, ~Cleanup PROVE UNCHANGED tunnel
  BY <1>6 DEF Client, Connect, Created, Published, Unanswered, GatewayAnswered, Refused, Renewed,
              NotExtended, Transient, Replied, Denied, Beat, Crash
<1>7. ASSUME NEW s \in Slots, Helper(s) PROVE Carried'
  <2>1. CASE Prepare(s) \/ Gathered(s) \/ Authorize(s) \/ Status(s) \/ Fire(s) \/ Close(s) \/ Expire(s)
    BY <1>2, <2>1 DEF Prepare, Gathered, Authorize, Status, Fire, Close, Expire
  <2> QED BY <1>5, <1>7, <2>1 DEF Helper
<1>8. CASE ServerAnswers \/ Revoke \/ Tick \/ UNCHANGED vars
  BY <1>2, <1>8 DEF ServerAnswers, Revoke, Tick, vars
<1> QED BY <1>2, <1>3, <1>4, <1>6, <1>7, <1>8 DEF Next

LEMMA PatienceNat == Patience \in Nat /\ Patience' \in Nat
<1>1. Patience \in Nat
  BY Times DEF Patience
<1>2. Patience' \in Nat
  BY Times DEF Patience
<1> QED BY <1>1, <1>2

\* Whatever the client turns to, it starts to wait anew.
LEMMA WaitStep == ASSUME IInv, Within, [Next]_vars PROVE client'.wait <= Patience'
<1>1. Shape /\ client \in ClientType /\ client.wait \in Nat /\ client.wait <= Patience
  BY Typed DEF IInv, Within
<1>2. CASE UNCHANGED client
  BY <1>1, <1>2 DEF Patience
<1>3. ASSUME client'.wait = 0 PROVE client'.wait <= Patience'
  BY <1>3, PatienceNat
<1>4. ASSUME NEW step, client' = Go(step) PROVE client'.wait = 0
  BY <1>1, <1>4 DEF Go, ClientType
<1>5. ASSUME client' = Released PROVE client'.wait = 0
  BY <1>5 DEF Released, Idle
<1>6. CASE Replied
  <2>1. client' = AfterReply(client.at) /\ client.at \in IpcSteps
    BY <1>6 DEF Replied
  <2>2. CASE client.at \in {"prepare", "up", "beat"}
    <3>1. client' = Go("publish") \/ client' = Go("live")
      BY <2>1, <2>2 DEF AfterReply
    <3> QED BY <1>3, <1>4, <3>1
  <2>3. CASE client.at \in {"authorize", "renew"}
    <3> DEFINE step == IF client.at = "authorize" THEN "up" ELSE "beat"
    <3>1. client' = [Go(step) EXCEPT !.patience = Authorized]
      BY <2>1, <2>3 DEF AfterReply
    <3>2. Go(step).wait = 0 /\ "wait" \in DOMAIN Go(step)
      BY <1>1 DEF Go, ClientType
    <3>3. client'.wait = 0
      BY <1>1, <3>1, <3>2 DEF Go, ClientType
    <3> QED BY <1>3, <3>3
  <2> QED BY <2>1, <2>2, <2>3 DEF IpcSteps
<1>7. CASE ServerAnswers
  <2>1. client'.at = client.at /\ client'.wait = client.wait
    BY <1>1, <1>7 DEF ServerAnswers, ClientType
  <2> QED BY <1>1, <2>1 DEF Patience
<1>8. CASE Tick
  <2>1. /\ client'.at = client.at
        /\ client'.wait = IF client.at = "off" THEN 0 ELSE client.wait + 1
    BY <1>1, <1>8, TickEffect
  <2>2. client.at = "off" \/ client.wait < Patience
    BY <1>8 DEF Tick
  <2>3. Patience' = Patience
    BY <2>1 DEF Patience
  <2> QED BY <1>1, <2>1, <2>2, <2>3, PatienceNat
<1>9. ASSUME Client, ~Replied PROVE client' = client \/ client' = Released \/ \E step : client' = Go(step)
  BY <1>9 DEF Client, Connect, Created, Published, Unanswered, GatewayAnswered, Refused, Renewed,
              NotExtended, Transient, Denied, Beat, Disconnect, Crash, Cleanup, GiveUp
<1>10. ASSUME NEW s \in Slots, Helper(s) PROVE UNCHANGED client
  BY <1>10 DEF Helper, Prepare, Gathered, Authorize, Bind, Bound, AlreadyUp, Status, HandlerEnds,
               Fire, Close, Expire
<1>11. CASE Client
  BY <1>2, <1>3, <1>4, <1>5, <1>6, <1>9, <1>11
<1>12. CASE DeadMan \/ Revoke \/ UNCHANGED vars
  BY <1>2, <1>12 DEF DeadMan, Revoke, vars
<1> QED BY <1>2, <1>7, <1>8, <1>10, <1>11, <1>12 DEF Next

\* A handler is at work no longer than its own bound: nothing but time makes it longer.
LEMMA BusyStep ==
  ASSUME IInv, Within, [Next]_vars
  PROVE  \A s \in Slots : conns'[s].busy <= Lease
<1>1. Shape /\ \A s \in Slots : conns[s] \in ConnType /\ conns[s].busy \in Nat /\ conns[s].busy <= Lease
  BY Typed DEF IInv, Within, ConnType
<1>2. 1 <= Lease /\ Lease \in Nat
  BY Times
<1>3. ASSUME NEW t \in Slots, NEW k, conns' = [conns EXCEPT ![t] = k], k.busy <= Lease
      PROVE  \A s \in Slots : conns'[s].busy <= Lease
  BY <1>1, <1>3 DEF Shape
<1>4. CASE UNCHANGED conns
  BY <1>1, <1>4
<1>5. ASSUME NEW step, conns' = Sent(step) PROVE \A s \in Slots : conns'[s].busy <= Lease
  <2> DEFINE k == [conns[client.slot] EXCEPT !.req = step, !.reply = "none"]
  <2>1. k.busy <= Lease /\ client.slot \in Slots
    BY <1>1, Typed DEF ConnType
  <2>2. conns' = [conns EXCEPT ![client.slot] = k]
    BY <1>5 DEF Sent
  <2> QED BY <1>3, <2>1, <2>2
<1>6. ASSUME conns' = Hangup PROVE \A s \in Slots : conns'[s].busy <= Lease
  <2> DEFINE k == [conns[client.slot] EXCEPT !.eof = TRUE]
  <2>1. k.busy <= Lease /\ client.slot \in Slots
    BY <1>1, Typed DEF ConnType
  <2>2. conns' = [conns EXCEPT ![client.slot] = k]
    BY <1>6 DEF Hangup
  <2> QED BY <1>3, <2>1, <2>2
<1>7. CASE Replied
  <2> DEFINE c == [Conn EXCEPT !.reply = "none"]
             k == CASE client.at = "authorize" -> [c EXCEPT !.req = "up"]
                    [] client.at = "renew" -> [c EXCEPT !.req = "beat"]
                    [] OTHER -> c
  <2>1. c \in ConnType /\ c.busy = Conn.busy /\ client.slot \in Slots
    BY <1>1, Typed DEF ConnType, Conn
  <2>2. conns' = [conns EXCEPT ![client.slot] = k]
    BY <1>7 DEF Replied
  <2> HIDE DEF c
  <2>3. k.busy = c.busy
    BY <2>1 DEF ConnType
  <2> QED BY <1>1, <1>3, <2>1, <2>2, <2>3 DEF Conn
<1>8. CASE Disconnect
  <2> DEFINE k == [NoConn EXCEPT !.eof = TRUE]
  <2>1. k.busy <= Lease /\ client.slot \in Slots
    BY <1>1, <1>2, Typed DEF NoConn
  <2> QED BY <1>3, <1>8, <2>1 DEF Disconnect
<1>9. ASSUME NEW s \in Slots, Helper(s) PROVE \A t \in Slots : conns'[t].busy <= Lease
  <2>1. PICK k : conns' = [conns EXCEPT ![s] = k] /\ k.busy \in {0, 1, conns[s].busy}
    <3> DEFINE j == conns[s]
               Shown(k) == Set(s, k) /\ k.busy \in {0, 1, j.busy}
    <3>1. j \in ConnType
      BY <1>1
    <3>2. ASSUME NEW r PROVE Done(j, r).busy = 0 /\ Done(j, r).neg = j.neg
                             /\ DOMAIN Done(j, r) = DOMAIN j
      BY <3>1 DEF Done, ConnType
    <3>3. CASE Prepare(s)
      <4>1. Set(s, Done(j, "no")) \/ Set(s, [j EXCEPT !.busy = 1, !.neg = "none"])
        BY <3>3 DEF Prepare
      <4>2. [j EXCEPT !.busy = 1, !.neg = "none"].busy = 1
        BY <3>1 DEF ConnType
      <4> QED BY <3>2, <4>1, <4>2 DEF Set
    <3>4. CASE Gathered(s)
      <4> DEFINE k == [Done(j, "ok") EXCEPT !.neg = "ready", !.lease = Lease, !.fired = FALSE]
      <4>1. Set(s, k) \/ Set(s, Done(j, "no"))
        BY <3>4 DEF Gathered
      <4>2. k.busy = 0
        BY <3>1 DEF ConnType, Done
      <4> QED BY <3>2, <4>1, <4>2 DEF Set
    <3>5. CASE Authorize(s)
      <4> DEFINE k == [Done(j, "ok") EXCEPT !.lease = Lease]
      <4>1. Set(s, k) \/ Set(s, Done(j, "no"))
        BY <3>5 DEF Authorize
      <4>2. k.busy = 0
        BY <3>1 DEF ConnType, Done
      <4> QED BY <3>2, <4>1, <4>2 DEF Set
    <3>6. CASE Bind(s)
      <4> DEFINE neg == IF j.neg = "none" THEN j.neg ELSE "closed"
                 k == [Done(j, "no") EXCEPT !.neg = neg]
                 l == [j EXCEPT !.busy = 1, !.neg = "used"]
      <4>1. Set(s, l) \/ Set(s, k)
        BY <3>6, <3>2 DEF Bind
      <4>2. k.busy = 0 /\ l.busy = 1
        BY <3>1 DEF ConnType, Done
      <4> QED BY <4>1, <4>2 DEF Set
    <3>7. CASE Bound(s)
      <4> DEFINE k == [Done(j, "no") EXCEPT !.neg = "closed"]
      <4>1. Set(s, k) \/ Set(s, Done(j, "ok"))
        BY <3>7 DEF Bound
      <4>2. k.busy = 0
        BY <3>1 DEF ConnType, Done
      <4> QED BY <3>2, <4>1, <4>2 DEF Set
    <3>8. CASE AlreadyUp(s) \/ Status(s)
      <4>1. Set(s, Done(j, "no")) \/ Set(s, Done(j, "ok"))
        BY <3>8 DEF AlreadyUp, Status
      <4> QED BY <3>2, <4>1 DEF Set
    <3>9. CASE HandlerEnds(s)
      <4>1. Set(s, NoConn)
        BY <3>9 DEF HandlerEnds
      <4>2. NoConn.busy = 0
        BY DEF NoConn
      <4> QED BY <4>1, <4>2 DEF Set
    <3>10. CASE Fire(s) \/ Close(s) \/ Expire(s)
      <4> DEFINE k == [j EXCEPT !.fired = TRUE]
                 l == [j EXCEPT !.neg = "closed", !.fired = FALSE]
      <4>1. Set(s, k) \/ Set(s, l)
        BY <3>10 DEF Fire, Close, Expire
      <4>2. k.busy = j.busy /\ l.busy = j.busy
        BY <3>1 DEF ConnType
      <4> QED BY <4>1, <4>2 DEF Set
    <3> QED BY <1>9, <3>3, <3>4, <3>5, <3>6, <3>7, <3>8, <3>9, <3>10 DEF Helper
  <2> QED BY <1>1, <1>2, <1>3, <2>1
<1>10. CASE Tick
  <2>1. ASSUME NEW s \in Slots PROVE conns'[s].busy <= Lease
    <3> DEFINE l == IF Open(conns[s].neg) THEN Sooner(conns[s].lease) ELSE 0
               b == IF conns[s].busy = 0 THEN 0 ELSE conns[s].busy + 1
    <3>1. conns'[s] = [conns[s] EXCEPT !.lease = l, !.busy = b] /\ conns[s].busy # Lease
      BY <1>10 DEF Tick, Due
    <3> HIDE DEF l
    <3>2. conns'[s].busy = b
      BY <1>1, <3>1 DEF ConnType
    <3> QED BY <1>1, <1>2, <3>1, <3>2
  <2> QED BY <2>1
<1>11. ASSUME Client, ~Replied, ~Disconnect
       PROVE  conns' = conns \/ conns' = Hangup \/ \E step : conns' = Sent(step)
  BY <1>11 DEF Client, Connect, Created, Published, Unanswered, GatewayAnswered, Refused, Renewed,
               NotExtended, Transient, Denied, Beat, Crash, Cleanup, GiveUp
<1>12. CASE Client
  BY <1>4, <1>5, <1>6, <1>7, <1>8, <1>11, <1>12
<1>13. CASE DeadMan \/ ServerAnswers \/ Revoke \/ UNCHANGED vars
  BY <1>4, <1>13 DEF DeadMan, ServerAnswers, Revoke, vars
<1> QED BY <1>9, <1>10, <1>12, <1>13 DEF Next

\* Every variable keeps its type: nobody, client or handler, waits beyond its deadline, and
\* only a tunnel that is up has a carrier (relay.go, tunnel.ts), for any deadlines.
THEOREM TypeCorrect == Spec => []TypeOK
<1>1. Init => Carried /\ Within /\ since <= Latest + 1
  <2> SUFFICES ASSUME Init PROVE Carried /\ Within /\ since <= Latest + 1
    OBVIOUS
  <2>1. Carried
    BY DEF Init, Carried, NoTunnel, TunnelType
  <2>2. client.wait <= Patience
    BY Times DEF Init, Idle, Patience
  <2>3. \A s \in Slots : conns[s].busy <= Lease
    BY Times DEF Init, NoConn
  <2> QED BY <2>1, <2>2, <2>3, Times DEF Init, Within
<1>2. IInv /\ Carried /\ Within /\ [Next]_vars => (Carried /\ Within)'
  BY CarriedStep, WaitStep, BusyStep DEF Within
<1>3. IInv /\ since <= Latest + 1 /\ [Next]_vars => (since <= Latest + 1)'
  <2> SUFFICES ASSUME IInv, since <= Latest + 1, [Next]_vars PROVE since' <= Latest + 1
    OBVIOUS
  <2>1. since' = since \/ since' = 0 \/ (since <= Latest /\ since' = since + 1)
    BY DEF Next, vars, Client, Connect, Created, Published, Unanswered, GatewayAnswered, Refused,
           Renewed, NotExtended, Transient, Replied, Denied, Beat, Disconnect, Crash, Cleanup,
           Helper, Prepare, Gathered, Authorize, Bind, Bound, AlreadyUp, Status, HandlerEnds,
           Fire, Close, Expire, DeadMan, ServerAnswers, Revoke, Tick
  <2> QED BY <2>1, Typed, Times DEF IInv
<1>4. IInv /\ Carried /\ Within /\ since <= Latest + 1 => TypeOK
  <2> SUFFICES ASSUME IInv, Carried, Within, since <= Latest + 1 PROVE TypeOK
    OBVIOUS
  <2>1. Shape /\ \A s \in Slots : conns[s] \in ConnType /\ conns[s].busy \in 0..Lease
    BY Typed, Times DEF IInv, Within, ConnType
  <2>2. \A s \in Slots :
          conns[s] \in [req : {"none"} \cup IpcSteps, reply : {"none", "ok", "no"},
                        eof : BOOLEAN, busy : 0..Lease, neg : {"none", "ready", "used", "closed"},
                        lease : 0..Lease, fired : BOOLEAN]
    BY <2>1 DEF ConnType
  <2>3. since \in 0..(Latest + 1)
    BY <2>1, Typed, Times
  <2> QED BY <2>1, <2>2, <2>3 DEF TypeOK, Shape, ClientType, Steps, Within, Carried, TunnelType
<1> QED BY <1>1, <1>2, <1>3, <1>4, Invariance, PTL DEF Spec
=============================================================================
