\* Discrete time: a lease outlasts a request, a negotiation outlasts the lease, as 30 s,
\* 12 s, 15 s, 35 s and 10 s do.
CONSTANTS
  Lease = 4
  Cp = 2
  Ipc = 2
  Negotiation = 5
  Heartbeat = 1
SPECIFICATION Spec
INVARIANTS RevokedStops PatienceIsLeased CarrierIsOwned
