----------------------------- MODULE Enrollment -----------------------------
(***************************************************************************)
(* The managed identity of one machine at one server (deviceconfig.ts,     *)
(* enrollmentanchor.ts, tunnelstore.ts): a key is anchored on disk before  *)
(* the first request names it, the server's row for it is found again or   *)
(* created, the final record is published, and only then the anchor goes;  *)
(* removal is revoked at the server first.  A crash may come at any step,  *)
(* a write may fail with the old or the new bytes in place, a request may  *)
(* be lost or arrive after the client gave up on it.                       *)
(*                                                                         *)
(* Abstractions.  The lane of ManagedLifecycle serializes these operations,*)
(* so one runs at a time.  The server keeps one row per public key, so a   *)
(* key also names the device.  One organization; routing mode, addresses,  *)
(* imported profiles and records of before orgId are left out.  A request  *)
(* is served and answered in one step.                                     *)
(***************************************************************************)
EXTENDS Naturals

CONSTANTS
  Users,      \* the people who log in on this machine
  Keys,       \* the key pairs it may generate; bound: one enrollment each
  None,       \* nobody, no key, no record
  MaxFaults,  \* bound: crashes, lost replies and failed writes
  MaxLogins   \* bound: logins

VARIABLES
  rows,     \* the server's roster
  late,     \* requests the client gave up on, which may still arrive
  anchor,   \* the enrollment anchor on disk
  store,    \* the encrypted record on disk
  me,       \* the authenticated user
  logins,   \* names the credential's fingerprint
  at,       \* the await the running operation stands at
  armed,    \* the key the helper was brought up with
  waiting,  \* the key the approval monitor polls for
  minted,   \* the generated keys that reached the disk
  faults

disk    == <<anchor, store>>
session == <<me, logins>>
server  == <<rows, late>>
runtime == <<armed, waiting>>
vars    == <<server, disk, session, at, runtime, minted, faults>>

Status  == {"none", "pending", "active", "revoked", "deleted"}
Row     == [status : Status, owner : Users \cup {None}]
Anchor  == [owner : Users, key : Keys, login : 1..MaxLogins, bound : BOOLEAN]
Record  == {r \in [owner : Users, key : Keys, pending : BOOLEAN, revoked : BOOLEAN] :
              ~(r.pending /\ r.revoked)}
Request == [verb : {"create", "revoke"}, key : Keys, user : Users]
Awaits  == {"prepare", "list", "create", "confirm", "status", "exists", "mode",
            "revoke", "inspect", "recheck", "forsake", "verify"}
Points  == Awaits \cup {"idle", "clear", "gate", "arm"}

ASSUME EnrollmentAssumption ==
  /\ None \notin Users \cup Keys /\ None \notin Anchor \cup Record
  /\ MaxFaults \in Nat /\ MaxLogins \in Nat

TypeOK ==
  /\ rows \in [Keys -> Row] /\ late \subseteq Request
  /\ anchor \in Anchor \cup {None} /\ store \in Record \cup {None}
  /\ me \in Users \cup {None} /\ logins \in 0..MaxLogins /\ at \in Points
  /\ armed \in Keys \cup {None} /\ waiting \in Keys \cup {None}
  /\ minted \subseteq Keys /\ faults \in 0..MaxFaults

Init ==
  /\ rows = [k \in Keys |-> [status |-> "none", owner |-> None]] /\ late = {}
  /\ anchor = None /\ store = None
  /\ me = None /\ logins = 0 /\ at = "idle"
  /\ armed = None /\ waiting = None /\ minted = {} /\ faults = 0

-----------------------------------------------------------------------------
(* The server (external).                                                  *)

LiveIn(r, k) == r[k].status \in {"pending", "active"}
Live(k)    == LiveIn(rows, k)
Visible(k) == rows[k].status \notin {"none", "deleted"}

\* A key is admitted once: a create names it, and a retry finds what it created.
Created(m) ==
  IF rows[m.key].status = "none"
  THEN {[rows EXCEPT ![m.key] = [status |-> s, owner |-> m.user]] : s \in {"pending", "active"}}
  ELSE {rows}

Revoked(m) ==
  IF Live(m.key) /\ rows[m.key].owner = m.user
  THEN {[rows EXCEPT ![m.key].status = "revoked"]}
  ELSE {rows}

Served(m) == IF m.verb = "create" THEN Created(m) ELSE Revoked(m)

Arrives(m) ==
  /\ rows' \in Served(m) /\ late' = late \ {m}
  /\ UNCHANGED <<disk, session, at, runtime, minted, faults>>

Administered(k, from, to) ==
  /\ rows[k].status = from /\ rows' = [rows EXCEPT ![k].status = to]
  /\ UNCHANGED <<late, disk, session, at, runtime, minted, faults>>

Administrator(k) ==
  \/ Administered(k, "pending", "active")
  \/ \E s \in {"pending", "active"} : Administered(k, s, "revoked")
  \/ Administered(k, "revoked", "deleted")

-----------------------------------------------------------------------------
(* The disk: a write that fails may have left either content.              *)

Fault == faults < MaxFaults /\ faults' = faults + 1

PutStore(r, next) ==
  /\ UNCHANGED anchor
  /\ \/ store' = r /\ at' = next /\ UNCHANGED faults
     \/ store' \in {store, r} /\ at' = "idle" /\ Fault

PutAnchor(a, next) ==
  /\ UNCHANGED store
  /\ \/ anchor' = a /\ at' = next /\ UNCHANGED faults
     \/ anchor' \in {anchor, a} /\ at' = "idle" /\ Fault

GoTo(next) == at' = next /\ UNCHANGED <<disk, faults>>

\* markDeviceRevoked and retainTerminalRecord.
Cleared(r)  == None                             \* faulty variant: the record is dropped
Terminal(r) == [r EXCEPT !.pending = FALSE, !.revoked = TRUE]

-----------------------------------------------------------------------------
(* Connect.                                                                *)

\* exactEnrollmentDevice: the row is live and the anchor's owner's.
ActiveIn(r, k, u) == r[k].status = "active" /\ r[k].owner = u  \* faulty variant
OursIn(r, k, u)   == LiveIn(r, k) /\ r[k].owner = u
Ours(k, u)        == OursIn(rows, k, u)

\* proveManagedDeviceOwner and assertManagedEnrollmentOwner refuse a foreign record.
RecordMine == me # None /\ (store # None => store.owner = me)  \* faulty variant: anchor unchecked
AllMine == me # None /\ (store # None => store.owner = me) /\ (anchor # None => anchor.owner = me)

\* A pending device is not armed: the connect ends in PendingApprovalError.
ArmAnyway(pending) == "arm"                                    \* faulty variant
Outcome(pending) == IF pending THEN "gate" ELSE "arm"

\* What resolveTunnelConfig asks first about a record it has.
FirstRead == IF store.revoked THEN "idle" ELSE IF store.pending THEN "status" ELSE "exists"

NotBound(next) == GoTo(next)                                   \* faulty variant
Bind(next) == IF anchor.bound THEN GoTo(next) ELSE PutAnchor([anchor EXCEPT !.bound = TRUE], next)

Connect ==
  /\ at = "idle" /\ AllMine
  /\ armed' = None /\ waiting' = None
  /\ \/ store # None /\ anchor # None /\ PutAnchor(None, FirstRead)   \* finalRecordMatchesAnchor
     \/ store # None /\ anchor = None /\ GoTo(FirstRead)
     \/ store = None /\ anchor = None /\ minted # Keys /\ GoTo("prepare")
     \/ /\ store = None /\ anchor # None
        /\ IF anchor.login = logins THEN GoTo("list")
           ELSE PutAnchor([anchor EXCEPT !.login = logins], "list")   \* rebindCredential
  /\ UNCHANGED <<server, session, minted>>

Prepare ==
  /\ at = "prepare"
  /\ \E k \in Keys \ minted :
       /\ PutAnchor([owner |-> me, key |-> k, login |-> logins, bound |-> FALSE], "list")
       /\ minted' = IF anchor' = None THEN minted ELSE minted \cup {k}
  /\ UNCHANGED <<server, session, runtime>>

List ==
  /\ at = "list"
  /\ \/ ~Visible(anchor.key) /\ GoTo("create")
     \/ Visible(anchor.key) /\ Ours(anchor.key, me) /\ Bind("confirm")
     \/ Visible(anchor.key) /\ ~Ours(anchor.key, me) /\ GoTo("idle")  \* device_key_recovery_conflict
  /\ UNCHANGED <<server, session, runtime, minted>>

Asked(verb, k) == [verb |-> verb, key |-> k, user |-> me]

Create ==
  /\ at = "create"
  /\ \E r \in Created(Asked("create", anchor.key)) :
       /\ rows' = r
       /\ IF OursIn(r, anchor.key, me) THEN Bind("confirm") ELSE GoTo("idle")
  /\ UNCHANGED <<late, session, runtime, minted>>

\* updateDeviceMode, then the final record is published and read back.
Confirm ==
  /\ at = "confirm"
  /\ IF Ours(anchor.key, me)
     THEN PutStore([owner |-> anchor.owner, key |-> anchor.key, revoked |-> FALSE,
                    pending |-> rows[anchor.key].status = "pending"], "clear")
     ELSE GoTo("idle")
  /\ UNCHANGED <<server, session, runtime, minted>>

ClearAnchor ==
  /\ at = "clear" /\ PutAnchor(None, Outcome(store.pending))
  /\ UNCHANGED <<server, session, runtime, minted>>

ReadStatus ==
  /\ at = "status"
  /\ \/ rows[store.key].status = "pending" /\ GoTo("gate")
     \/ rows[store.key].status = "active" /\ PutStore([store EXCEPT !.pending = FALSE], "exists")
     \/ ~Live(store.key) /\ PutStore(Terminal(store), "idle")
  /\ UNCHANGED <<server, session, runtime, minted>>

ReadExists ==
  /\ at = "exists"
  /\ IF rows[store.key].status = "active" THEN GoTo("mode") ELSE PutStore(Terminal(store), "idle")
  /\ UNCHANGED <<server, session, runtime, minted>>

Refresh ==
  /\ at = "mode"
  /\ LET pending == rows[store.key].status = "pending"
     IN  IF Ours(store.key, me)
         THEN PutStore([store EXCEPT !.pending = pending], Outcome(pending))
         ELSE GoTo("idle")
  /\ UNCHANGED <<server, session, runtime, minted>>

\* The approval monitor starts; or the helper comes up with the key, or refuses it.
Gate ==
  /\ at = "gate" /\ GoTo("idle") /\ waiting' = store.key
  /\ UNCHANGED <<server, session, armed, minted>>

Arm ==
  /\ at = "arm" /\ GoTo("idle") /\ armed' \in {store.key, None}
  /\ UNCHANGED <<server, session, waiting, minted>>

-----------------------------------------------------------------------------
(* What the monitors learn.                                                *)

Approved ==
  /\ at = "idle" /\ waiting # None /\ rows[waiting].status = "active"
  /\ waiting' = None
  /\ PutStore([store EXCEPT !.pending = FALSE], "idle")
  /\ UNCHANGED <<server, session, armed, minted>>

\* onRejected, onRevoked.
Gone ==
  /\ at = "idle"
  /\ \E k \in {armed, waiting} \ {None} : ~Live(k)
  /\ armed' = None /\ waiting' = None
  /\ PutStore(Terminal(store), "idle")
  /\ UNCHANGED <<server, session, minted>>

-----------------------------------------------------------------------------
(* Removal.                                                                *)

\* auth:removeDevice: the record is revoked, an anchor without one abandoned.
Remove ==
  /\ at = "idle" /\ AllMine
  /\ \/ store # None /\ GoTo("revoke") /\ armed' = None /\ waiting' = None
     \/ /\ store = None /\ anchor # None /\ anchor.login = logins
        /\ GoTo("inspect") /\ UNCHANGED runtime
  /\ UNCHANGED <<server, session, minted>>

\* revokeAndClearManagedDevice.
Revoke ==
  /\ at = "revoke"
  /\ \E r \in Revoked(Asked("revoke", store.key)) :
       /\ rows' = r
       /\ IF LiveIn(r, store.key) THEN GoTo("idle") ELSE PutStore(None, "idle")
  /\ UNCHANGED <<late, session, runtime, minted>>

\* proveManagedEnrollmentAbandonment, then the tunnel goes down.
Inspect ==
  /\ at = "inspect" /\ GoTo("recheck")
  /\ armed' = None /\ waiting' = None
  /\ UNCHANGED <<server, session, minted>>

\* consumeManagedEnrollmentAbandonProof: the current roster decides.
NeverRevocable(k) == FALSE                           \* faulty variant
Revocable(k) == Ours(k, me)

Recheck ==
  /\ at = "recheck"
  /\ IF Revocable(anchor.key) THEN GoTo("forsake") ELSE PutAnchor(None, "idle")
  /\ UNCHANGED <<server, session, runtime, minted>>

Forsake ==
  /\ at = "forsake" /\ rows' \in Revoked(Asked("revoke", anchor.key))
  /\ GoTo("verify")
  /\ UNCHANGED <<late, session, runtime, minted>>

Verify ==
  /\ at = "verify"
  /\ IF Ours(anchor.key, me) THEN GoTo("idle") ELSE PutAnchor(None, "idle")
  /\ UNCHANGED <<server, session, runtime, minted>>

-----------------------------------------------------------------------------
(* Failures, and the user.                                                 *)

\* The request under way may have been served already, may still be, or never.
Sent ==
  CASE at = "create"  -> {Asked("create", anchor.key)}
    [] at = "revoke"  -> {Asked("revoke", store.key)}
    [] at = "forsake" -> {Asked("revoke", anchor.key)}
    [] OTHER          -> {}

\* A read that fails is inconclusive: a pending device waits, an active one goes on.
GiveUp ==
  /\ at \in Awaits /\ Fault
  /\ at' = (CASE at = "status" -> "gate" [] at = "exists" -> "mode" [] OTHER -> "idle")
  /\ late' = late \cup Sent
  /\ UNCHANGED <<rows, disk, session, runtime, minted>>

Crash ==
  /\ Fault /\ at' = "idle"
  /\ late' = late \cup Sent
  /\ armed' = None /\ waiting' = None
  /\ UNCHANGED <<rows, disk, session, minted>>

Login(u) ==
  /\ at = "idle" /\ logins < MaxLogins
  /\ me' = u /\ logins' = logins + 1
  /\ armed' = None /\ waiting' = None
  /\ UNCHANGED <<server, disk, at, minted, faults>>

Logout ==
  /\ at = "idle" /\ me # None
  /\ me' = None /\ armed' = None /\ waiting' = None
  /\ UNCHANGED <<server, disk, logins, at, minted, faults>>

Disconnect ==
  /\ at = "idle" /\ armed' = None /\ waiting' = None
  /\ UNCHANGED <<server, disk, session, at, minted, faults>>

Flow ==
  \/ Prepare \/ List \/ Create \/ Confirm \/ ClearAnchor
  \/ ReadStatus \/ ReadExists \/ Refresh \/ Gate \/ Arm
  \/ Revoke \/ Inspect \/ Recheck \/ Forsake \/ Verify

Next ==
  \/ Connect \/ Remove \/ Flow \/ Approved \/ Gone
  \/ GiveUp \/ Crash \/ Disconnect \/ Logout
  \/ \E u \in Users : Login(u)
  \/ \E k \in Keys : Administrator(k)
  \/ \E m \in late : Arrives(m)

Spec == Init /\ [][Next]_vars

\* An operation runs to its end, and a user who cannot connect tries again.
FairSpec == Spec /\ WF_vars(Flow) /\ WF_vars(Connect)

-----------------------------------------------------------------------------
(* Properties.                                                             *)

Identity == IF anchor # None THEN anchor.key ELSE IF store # None THEN store.key ELSE None

\* Whatever step a crash or a failed write interrupts, an anchor beside a record is
\* the one that record was published from, bound to its device: the retry can tell.
OneIdentity ==
  anchor # None /\ store # None =>
    anchor.bound /\ anchor.key = store.key /\ anchor.owner = store.owner

\* The helper runs only with a key that is on record for the user logged in, approved,
\* and whose enrollment is complete.
ArmedIsRecorded ==
  armed # None =>
    /\ store # None /\ store.key = armed /\ store.owner = me
    /\ ~store.pending /\ ~store.revoked /\ anchor = None

\* What one user left on disk, another user's connect or removal leaves alone, down to
\* the server's row: nothing is published, cleared or revoked in someone else's name.
ForeignUntouched ==
  [][/\ anchor # None /\ anchor.owner # me => anchor' = anchor
     /\ store # None /\ store.owner # me => store' = store
     /\ \A k \in Keys : at' # at /\ rows[k].owner \notin {None, me} => rows'[k] = rows[k]]_vars

\* Only an explicit removal gives an identity up: no answer of the server, not even
\* that the device is gone, ever makes the next connect enroll a second one.
OnlyRemovalForgets ==
  [][Identity # None /\ Identity' # Identity => at \in {"revoke", "recheck", "verify"}]_vars

\* The promise: one identity at a time, never given up while the server admits it.
Admitted  == {k \in Keys : Live(k)}
RetiredNow == {k \in Keys : rows[k].status \in {"revoked", "deleted"}}
Promise == INSTANCE DeviceIdentity WITH
  identity <- Identity, live <- Admitted, retired <- RetiredNow,
  forsaken <- minted \ (RetiredNow \cup {Identity})
ImplementsIdentity == Promise!IdentitySpec

\* An interrupted enrollment whose device the server still admits is completed.
Resumes ==
  \A u \in Users : (anchor # None /\ me = u /\ anchor.owner = u /\ Live(anchor.key))
    ~> (anchor = None \/ me # u \/ ~Live(anchor.key))

\* A removal that was confirmed leaves no identity behind: the next connect enrolls
\* again (ClientApp.tsx, the question and the notice of onRemoveDevice).
RemovalForgets ==
  [][at = "revoke" /\ store' = None /\ faults' = faults => anchor' = None]_vars

=============================================================================
