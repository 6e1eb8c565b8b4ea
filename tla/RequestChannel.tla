--------------------------- MODULE RequestChannel ---------------------------
(***************************************************************************)
(* What the client's connection to the helper (main/helperclient.ts)       *)
(* promises to its callers: a call is answered by the reply to it, or      *)
(* fails; at most one socket is open, its end fails every call made on it, *)
(* and an end the client did not ask for is reported, once.                *)
(* HelperConnection implements it; TunnelController builds on it.          *)
(***************************************************************************)
CONSTANTS
  Calls,      \* the calls that may be under way
  Sockets,    \* the sockets the client may open
  NoSocket

VARIABLES
  call,   \* per call: how far it has come
  on,     \* per call under way: the socket it was sent on
  fate    \* per socket: what became of it

channel == <<call, on, fate>>

ChannelTypeOK ==
  /\ call \in [Calls -> {"idle", "asked", "sent", "answered", "failed"}]
  /\ on \in [Calls -> Sockets \cup {NoSocket}]
  /\ fate \in [Sockets -> {"new", "open", "shut", "lost", "told"}]

ChannelInit ==
  /\ call = [r \in Calls |-> "idle"]
  /\ on = [r \in Calls |-> NoSocket]
  /\ fate = [s \in Sockets |-> "new"]

IsOpen(s) == fate[s] = "open"

Ask(r) ==
  /\ call[r] = "idle"
  /\ call' = [call EXCEPT ![r] = "asked"]
  /\ UNCHANGED <<on, fate>>

Open(s) ==
  /\ fate[s] = "new" /\ \A t \in Sockets : ~IsOpen(t)
  /\ fate' = [fate EXCEPT ![s] = "open"]
  /\ UNCHANGED <<call, on>>

Send(r, s) ==
  /\ call[r] = "asked" /\ IsOpen(s)
  /\ call' = [call EXCEPT ![r] = "sent"] /\ on' = [on EXCEPT ![r] = s]
  /\ UNCHANGED fate

Answer(r) ==
  /\ call[r] = "sent" /\ IsOpen(on[r])
  /\ call' = [call EXCEPT ![r] = "answered"] /\ on' = [on EXCEPT ![r] = NoSocket]
  /\ UNCHANGED fate

\* No socket could be had, or the request could not be encoded: nothing was sent.
Refuse(S) ==
  /\ S # {} /\ \A r \in S : call[r] = "asked"
  /\ call' = [r \in Calls |-> IF r \in S THEN "failed" ELSE call[r]]
  /\ UNCHANGED <<on, fate>>

SentOn(s) == {r \in Calls : on[r] = s}

FailAll(S) ==
  /\ call' = [r \in Calls |-> IF r \in S THEN "failed" ELSE call[r]]
  /\ on' = [r \in Calls |-> IF r \in S THEN NoSocket ELSE on[r]]

\* The socket ends in this way, and with it the calls sent on it.
End(s, how) ==
  /\ IsOpen(s)
  /\ fate' = [fate EXCEPT ![s] = how]
  /\ FailAll(SentOn(s))

\* The client closes it, along with an attempt others wait for.
Shut(s) ==
  \E S \in SUBSET {r \in Calls : call[r] = "asked"} :
    /\ IsOpen(s)
    /\ fate' = [fate EXCEPT ![s] = "shut"]
    /\ FailAll(SentOn(s) \cup S)

\* A frame that cannot be decoded ends the socket before its end is reported.
Tell(s) ==
  /\ fate[s] = "lost"
  /\ fate' = [fate EXCEPT ![s] = "told"]
  /\ UNCHANGED <<call, on>>

\* The caller has taken the outcome.
Take(r) ==
  /\ call[r] \in {"answered", "failed"}
  /\ call' = [call EXCEPT ![r] = "idle"]
  /\ UNCHANGED <<on, fate>>

ChannelNext ==
  \/ \E r \in Calls : Ask(r) \/ Answer(r) \/ Take(r) \/ \E s \in Sockets : Send(r, s)
  \/ \E S \in SUBSET Calls : Refuse(S)
  \/ \E s \in Sockets : Open(s) \/ End(s, "told") \/ End(s, "lost") \/ Shut(s) \/ Tell(s)

ChannelSpec == ChannelInit /\ [][ChannelNext]_channel

=============================================================================
