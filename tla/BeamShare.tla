----------------------------- MODULE BeamShare ------------------------------
(***************************************************************************)
(* One shared local app (beamruntime.ts).  The user's operations start and *)
(* withdraw Running instances, each with its own certificate generation,   *)
(* abort signal, heartbeat loop and channel pool; the runtime's map lists  *)
(* at most one of them.  Every await lets another operation, a heartbeat,  *)
(* a poll or a login in.  The control plane serializes versions: every     *)
(* accepted change of the share makes a new one, and a request that names  *)
(* another is refused.                                                     *)
(*                                                                         *)
(* Ops are the operations that may be under way at once.  Nothing in the   *)
(* runtime serializes them: the panel disables its buttons while one runs, *)
(* and forgets that when it is left and entered again.                     *)
(* The clock is abstract: a share ends when the server says so, and the    *)
(* expiry timer of an instance may fire from then on.                      *)
(***************************************************************************)
EXTENDS BeamPool, FiniteSets

CONSTANTS
  Ops,          \* operations under way at once
  Runs,         \* bound: instances ever started, 1..n
  MaxVersion    \* bound: versions of the share

ASSUME BeamAssumption ==
  /\ MaxVersion \in Nat \ {0} /\ Runs \subseteq Nat \ {0} /\ IsFiniteSet(Runs)

VARIABLES
  server,       \* the share at the control plane
  session,      \* the account the app is signed in with, and the runtime's epoch
  runs,         \* every instance
  listed,       \* the one in the map, 0 when none is
  ops,          \* what each operation waits for
  pools,        \* the channels of each instance
  exposed       \* history: instances started while another's resume was on its way

vars == <<server, session, runs, listed, ops, pools, exposed>>

Versions == 1..MaxVersion
Accounts == {0, 1}
Epochs == 0..1

NoRun == [at |-> "none", beat |-> "off", answer |-> "none",
          told |-> 1, version |-> 1, account |-> 0]
NoOp == [at |-> "idle", kind |-> "none", epoch |-> 0, account |-> 0,
         version |-> 1, open |-> TRUE, answer |-> "none", run |-> 0]

Kinds == {"retry", "withdraw", "resume", "edit"}     \* withdraw: pause or stop

TypeOK ==
  /\ server \in [state : {"active", "paused", "gone"}, version : Versions, generation : {0} \cup Runs]
  /\ session \in [account : Accounts, epoch : Epochs]
  /\ runs \in [Runs -> [at : {"none", "boot", "serving", "aborted"},
                        beat : {"off", "rest", "probe", "sent", "late"}, answer : {"none", "ok", "no"},
                        told : Versions, version : Versions, account : Accounts]]
  /\ listed \in {0} \cup Runs
  /\ ops \in [Ops -> [at : {"idle", "read", "send", "boot"}, kind : Kinds \cup {"none"},
                      epoch : Epochs, account : Accounts, version : Versions, open : BOOLEAN,
                      answer : {"none", "ok", "no"}, run : {0} \cup Runs]]
  /\ pools \in [Runs -> PoolShape] /\ exposed \subseteq Runs
  /\ listed # 0 => runs[listed].at \in {"boot", "serving"}

Init ==
  /\ \E state \in {"active", "paused"} : server = [state |-> state, version |-> 1, generation |-> 0]
  /\ session = [account |-> 0, epoch |-> 0]
  /\ runs = [r \in Runs |-> NoRun] /\ listed = 0 /\ ops = [o \in Ops |-> NoOp]
  /\ pools = [r \in Runs |-> NoPool] /\ exposed = {}

-----------------------------------------------------------------------------
(* The map of instances.                                                   *)

\* close(id): whatever is listed is aborted, its pool with it, and taken off the map.
\* The wait between two heartbeats ends with the signal, and their loop with it.
Aborting(run) ==
  [NoRun EXCEPT !.at = "aborted", !.beat = IF run.beat \in {"probe", "sent"} THEN "late" ELSE "off"]
ClosedOnly(rs) ==                              \* faulty variant: the signal is not aborted
  rs
Closed(rs) == IF listed = 0 THEN rs ELSE [rs EXCEPT ![listed] = Aborting(@)]
Pruned == IF listed = 0 THEN pools ELSE [pools EXCEPT ![listed] = Aborted(@)]

Close == runs' = Closed(runs) /\ pools' = Pruned /\ listed' = 0

\* updateShare: an older version is ignored, a share that is no longer open closes.
Updated(r, version, open) ==
  IF version < runs[r].version THEN UNCHANGED <<runs, listed, pools>>
  ELSE LET rs == [runs EXCEPT ![r].version = version] IN
       IF open THEN runs' = rs /\ UNCHANGED <<listed, pools>>
       ELSE runs' = Closed(rs) /\ pools' = Pruned /\ listed' = 0

Fresh == {r \in Runs : runs[r].at = "none"}

\* A resume has closed what was listed, and its start is still to come.
Resuming(o) == ops[o].at = "send" /\ ops[o].kind = "resume"

\* start(), to its first await: the map is written whatever it held.
Starting(o, epoch) ==
  LET r == CHOOSE q \in Fresh : \A p \in Fresh : q <= p IN
  /\ Fresh # {}
  /\ runs' = [runs EXCEPT ![r] = [NoRun EXCEPT !.at = "boot", !.version = ops[o].version,
                                               !.account = ops[o].account]]
  /\ listed' = r /\ pools' = pools
  /\ ops' = [ops EXCEPT ![o] = [@ EXCEPT !.at = "boot", !.run = r, !.kind = "none",
                                       !.epoch = epoch, !.answer = "none"]]
  /\ exposed' = IF \E p \in Ops \ {o} : Resuming(p) THEN exposed \cup {r} ELSE exposed

Ends(o) == ops' = [ops EXCEPT ![o] = NoOp]

\* Every request asserts its account before it is sent and when its answer is read.
Asserts(x) == x.account = session.account

-----------------------------------------------------------------------------
(* Operations of the user.                                                 *)

\* The context of the account is there.  A withdrawal closes what is listed first, and so
\* does a resume.  An operation called before a sign-out that has its context only after it
\* does what follows here and throws when its request is answered.
Begin(o) ==
  /\ ops[o].at = "idle" /\ Fresh # {}
  /\ \/ /\ ops' = [ops EXCEPT ![o] = [NoOp EXCEPT !.at = "read", !.kind = "retry",
                                                   !.account = session.account]]
        /\ UNCHANGED <<runs, listed, pools>>
     \/ \E kind \in Kinds \ {"retry"} :
        /\ ops' = [ops EXCEPT ![o] =
             [NoOp EXCEPT !.at = "send", !.kind = kind, !.epoch = session.epoch,
                          !.account = session.account, !.version = server.version]]
        /\ IF kind = "edit" THEN UNCHANGED <<runs, listed, pools>> ELSE Close
  /\ UNCHANGED <<server, session, exposed>>

\* The control plane reads the share, or takes the change if it is of this version.
Newer(state) == [server EXCEPT !.state = state, !.version = @ + 1]
Outcomes(kind) ==
  CASE server.state = "gone" -> {}
    [] kind = "withdraw"     -> IF server.state = "active" THEN {"paused", "gone"} ELSE {"gone"}
    [] kind = "resume"       -> IF server.state = "paused" THEN {"active"} ELSE {}
    [] OTHER                 -> {server.state}

ServerTakes(o) ==
  /\ ops[o].at \in {"read", "send"} /\ ops[o].answer = "none"
  /\ \/ /\ ops[o].at = "read" /\ server' = server
        /\ ops' = [ops EXCEPT ![o] = [@ EXCEPT !.answer = "ok", !.version = server.version,
                                               !.open = server.state = "active"]]
     \/ /\ ops[o].at = "send" /\ ops[o].version = server.version /\ server.version < MaxVersion
        /\ \E state \in Outcomes(ops[o].kind) :
             /\ server' = Newer(state)
             /\ ops' = [ops EXCEPT ![o] = [@ EXCEPT !.answer = "ok", !.version = server.version + 1,
                                                    !.open = state = "active"]]
  /\ UNCHANGED <<session, runs, listed, pools, exposed>>

\* A refusal, an answer lost, or a session that changed: the operation throws.
Throws(o) ==
  /\ ops[o].at \in {"read", "send"} /\ Ends(o)
  /\ UNCHANGED <<server, session, runs, listed, pools, exposed>>

\* retry: the epoch is the one at hand when it starts.
RetryAnswered(o) ==
  /\ ops[o].at = "read" /\ ops[o].answer = "ok" /\ Asserts(ops[o])
  /\ IF ops[o].open /\ listed = 0 THEN Starting(o, session.epoch)
     ELSE Ends(o) /\ UNCHANGED <<runs, listed, pools, exposed>>
  /\ UNCHANGED <<server, session>>

ActionAnswered(o) ==
  /\ ops[o].at = "send" /\ ops[o].answer = "ok" /\ Asserts(ops[o])
  /\ ops[o].epoch = session.epoch
  /\ IF ops[o].kind = "resume" THEN Starting(o, ops[o].epoch)
     ELSE /\ Ends(o) /\ exposed' = exposed
          /\ IF listed = 0 THEN UNCHANGED <<runs, listed, pools>>
             ELSE Updated(listed, ops[o].version, ops[o].open)
  /\ UNCHANGED <<server, session>>

\* bootstrap: of the version it was asked for, a certificate of a new generation.
ServerIssues(o) ==
  /\ ops[o].at = "boot" /\ ops[o].answer = "none"
  /\ ops[o].version = server.version /\ server.state = "active" /\ server.version < MaxVersion
  /\ server' = [Newer("active") EXCEPT !.generation = ops[o].run]
  /\ ops' = [ops EXCEPT ![o] = [@ EXCEPT !.answer = "ok", !.version = server.version + 1]]
  /\ UNCHANGED <<session, runs, listed, pools, exposed>>

\* Withdrawn while it waited, or signed out: it is not brought up.
Current(o) == Asserts(ops[o]) /\ ops[o].epoch = session.epoch /\ runs[ops[o].run].at = "boot"

\* current(): the account stands, and the instance is the listed one.
Accepted(r) == runs[r].account = session.account /\ listed = r

\* A heartbeat that is not accepted closes whatever is listed, and its loop ends.
BeatGivesUp(r) ==
  /\ runs' = [Closed(runs) EXCEPT ![r].beat = "off"] /\ pools' = Pruned /\ listed' = 0

\* The pool opens, and the heartbeat runs to its first await.
Issued(o) ==
  /\ ops[o].at = "boot" /\ ops[o].answer = "ok" /\ Current(o)
  /\ LET r == ops[o].run
         rs == [runs EXCEPT ![r] = [@ EXCEPT !.at = "serving", !.beat = "probe", !.version =
                  IF ops[o].version < runs[r].version THEN runs[r].version ELSE ops[o].version]] IN
     IF Accepted(r)
     THEN runs' = rs /\ pools' = [pools EXCEPT ![r] = Opened] /\ listed' = listed
     ELSE /\ runs' = [Closed(rs) EXCEPT ![r].beat = "off"] /\ listed' = 0
          /\ pools' = [Pruned EXCEPT ![r] = Opened]
  /\ Ends(o) /\ UNCHANGED <<server, session, exposed>>

\* The catch of start() closes what is listed.
IssueFails(o) ==
  /\ ops[o].at = "boot" /\ Close /\ Ends(o) /\ UNCHANGED <<server, session, exposed>>

-----------------------------------------------------------------------------
(* The heartbeat of an instance.                                           *)

BeatStarts(r) ==
  /\ runs[r].beat = "rest"
  /\ IF Accepted(r) THEN runs' = [runs EXCEPT ![r].beat = "probe"] /\ UNCHANGED <<listed, pools>>
     ELSE BeatGivesUp(r)
  /\ UNCHANGED <<server, session, ops, exposed>>

\* The local app was asked whether it is there.
BeatProbed(r) ==
  /\ runs[r].beat = "probe"
  /\ IF Accepted(r) THEN runs' = [runs EXCEPT ![r].beat = "sent"] /\ UNCHANGED <<listed, pools>>
     ELSE BeatGivesUp(r)
  /\ UNCHANGED <<server, session, ops, exposed>>

ServerBeats(r) ==
  /\ runs[r].beat = "sent" /\ runs[r].answer = "none"
  /\ runs' = [runs EXCEPT ![r] =
       IF server.generation = r /\ server.state = "active"
       THEN [@ EXCEPT !.answer = "ok", !.told = server.version] ELSE [@ EXCEPT !.answer = "no"]]
  /\ UNCHANGED <<server, session, listed, ops, pools, exposed>>

\* The server's terminal verdict, or a share that is not current when the answer comes.
BeatTrusts(r) ==                               \* faulty variant: a refusal is not acted on
  /\ runs[r].beat = "sent" /\ ~Accepted(r)
  /\ BeatGivesUp(r) /\ UNCHANGED <<server, session, ops, exposed>>
BeatRefused(r) ==
  /\ runs[r].beat = "sent" /\ (runs[r].answer = "no" \/ ~Accepted(r))
  /\ BeatGivesUp(r) /\ UNCHANGED <<server, session, ops, exposed>>

\* What an aborted instance waited for comes, from its app or from the server: it closes
\* whatever is listed by then.
BeatLate(r) ==
  /\ runs[r].beat = "late" /\ BeatGivesUp(r) /\ UNCHANGED <<server, session, ops, exposed>>

\* An answer, which may be older than what is known, or an outage: the next in two seconds.
BeatEnds(r) ==
  /\ runs[r].beat = "sent" /\ Accepted(r) /\ runs[r].answer # "no"
  /\ LET news == runs[r].answer = "ok" /\ runs[r].told > runs[r].version IN
     runs' = [runs EXCEPT ![r] = [@ EXCEPT !.beat = "rest", !.answer = "none", !.told = 1,
                                           !.version = IF news THEN runs[r].told
                                                                   ELSE runs[r].version]]
  /\ UNCHANGED <<server, session, listed, ops, pools, exposed>>

\* The expiry timer of an instance closes what is listed, once the share is over.
ExpiryFires(r) ==
  /\ runs[r].at \in {"boot", "serving"} /\ server.state = "gone"
  /\ listed # 0 /\ Close /\ UNCHANGED <<server, session, ops, exposed>>

\* view(): a poll of the list reconciles the instance it finds.
View ==
  /\ listed # 0
  /\ IF runs[listed].account # session.account \/ server.state # "active" THEN Close
     ELSE Updated(listed, server.version, TRUE)
  /\ UNCHANGED <<server, session, ops, exposed>>

-----------------------------------------------------------------------------
(* Sign-in, sign-out, another organization: retire(), then the new account.*)

Retire ==
  /\ session.epoch < 1 /\ session' = [session EXCEPT !.epoch = @ + 1]
  /\ Close /\ UNCHANGED <<server, ops, exposed>>

\* The credential is cleared with the retirement, and another may be stored.
SignIn ==
  /\ session.epoch > 0 /\ session.account = 0
  /\ session' = [session EXCEPT !.account = 1]
  /\ UNCHANGED <<server, runs, listed, ops, pools, exposed>>

\* An administrator, another device, or the end of its time.
ServerStops ==
  /\ server.state # "gone" /\ server.version < MaxVersion
  /\ server' = Newer("gone") /\ UNCHANGED <<session, runs, listed, ops, pools, exposed>>

PoolMoves(r) ==
  /\ pools[r] # NoPool /\ \E p \in Moves(pools[r]) : pools' = [pools EXCEPT ![r] = p]
  /\ UNCHANGED <<server, session, runs, listed, ops, exposed>>

-----------------------------------------------------------------------------

Operation(o) ==
  \/ ServerTakes(o) \/ Throws(o) \/ RetryAnswered(o) \/ ActionAnswered(o)
  \/ ServerIssues(o) \/ Issued(o) \/ IssueFails(o)

Heartbeat(r) ==
  \/ BeatStarts(r) \/ BeatProbed(r) \/ ServerBeats(r) \/ BeatRefused(r) \/ BeatLate(r) \/ BeatEnds(r)

Next ==
  \/ \E o \in Ops : Begin(o) \/ Operation(o)
  \/ \E r \in Runs : Heartbeat(r) \/ ExpiryFires(r) \/ PoolMoves(r)
  \/ View \/ Retire \/ SignIn \/ ServerStops

Awake(r) == BeatStarts(r) \/ BeatProbed(r) \/ BeatRefused(r) \/ (runs[r].answer = "ok" /\ BeatEnds(r))

\* The heartbeat's timer fires and its verdict is acted on; the control plane is not out of
\* reach for ever; an aborted task ends.
Fairness ==
  \A r \in Runs : /\ WF_vars(Awake(r)) /\ SF_vars(ServerBeats(r))
                  /\ WF_vars(pools[r].ending /\ PoolMoves(r))

Spec == Init /\ [][Next]_vars /\ Fairness

-----------------------------------------------------------------------------
(* Properties.                                                             *)

\* In every pool and any order of callbacks the caps hold, and no reservation is lost.
PoolsBounded == \A r \in Runs : Bounded(pools[r])

\* An instance that is neither listed nor aborted: no withdrawal reaches it.
Orphan(r) == runs[r].at \in {"boot", "serving"} /\ listed # r

\* Nothing but a resume that overtakes another operation's start makes an orphan.
NoOrphan == \A r \in Runs : Orphan(r) => r \in exposed

\* A listed share that its account or the server no longer stands behind stops being served,
\* to its last channel, unless it is overwritten first.
Backed(r) ==
  /\ server.state = "active" /\ server.generation = r /\ runs[r].account = session.account
Withdrawn ==
  \A r \in Runs :
    (listed = r /\ runs[r].at = "serving" /\ ~Backed(r)) ~>
      (Backed(r) \/ Orphan(r) \/ Drained(pools[r]))

\* What is not listed is offline: every started instance is within reach of a withdrawal.
StaysOffline == \A r \in Runs : ~Orphan(r)

=============================================================================
