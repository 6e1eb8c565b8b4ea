--------------------------- MODULE DeviceIdentity ---------------------------
(***************************************************************************)
(* What enrollment promises, whatever crashes, lost replies, failed writes *)
(* and late requests happen in between: the machine has one identity at a  *)
(* time, a WireGuard key it minted; the server admits no other, except one *)
(* that was given up before it was admitted; and an identity is never      *)
(* given up while the server admits it.                                    *)
(***************************************************************************)
CONSTANTS
  Keys,   \* the keys the machine may mint
  None    \* no identity, and no key

VARIABLES
  identity,  \* the key whose private half is on disk
  live,      \* the keys the server admits
  retired,   \* the keys it admits no more
  forsaken   \* the keys given up before they were retired

promise == <<identity, live, retired, forsaken>>

PromiseInit == identity = None /\ live = {} /\ retired = {} /\ forsaken = {}

Mint(k) ==
  /\ identity = None /\ k \notin live \cup retired \cup forsaken
  /\ identity' = k
  /\ UNCHANGED <<live, retired, forsaken>>

Admit(k) ==
  /\ k \in {identity} \cup forsaken /\ k \notin retired
  /\ live' = live \cup {k}
  /\ UNCHANGED <<identity, retired, forsaken>>

Retired(k) ==
  /\ live' = live \ {k} /\ retired' = retired \cup {k} /\ forsaken' = forsaken \ {k}

Retire(k) == k \in live /\ Retired(k) /\ UNCHANGED identity

Forget ==
  /\ identity # None /\ identity \notin live
  /\ identity' = None
  /\ forsaken' = forsaken \cup ({identity} \ retired)
  /\ UNCHANGED <<live, retired>>

\* A confirmed removal: the server retires the key and the machine drops it.
Remove(k) == identity = k /\ k \in live /\ Retired(k) /\ identity' = None

IdentityNext ==
  \/ \E k \in Keys : Mint(k) \/ Admit(k) \/ Retire(k) \/ Remove(k)
  \/ Forget

IdentitySpec == PromiseInit /\ [][IdentityNext]_promise

=============================================================================
