------------------------- MODULE Enrollment_proofs -------------------------
(***************************************************************************)
(* Enrollment's safety properties and its refinement of DeviceIdentity,    *)
(* for any users and keys and any number of faults and logins.             *)
(***************************************************************************)
EXTENDS Enrollment, TLAPS

\* What the disk holds while an operation stands at an await, and whose it is.
Stage ==
  /\ at # "idle" => me # None /\ armed = None /\ waiting = None
  /\ at = "prepare" => anchor = None /\ store = None
  /\ at \in {"list", "create", "confirm", "inspect", "recheck", "forsake", "verify"} =>
       anchor # None /\ anchor.owner = me /\ store = None
  /\ at = "confirm" => anchor.bound
  /\ at = "clear" => /\ anchor # None /\ anchor.owner = me
                     /\ store # None /\ ~store.revoked
  /\ at \in {"status", "exists", "mode", "gate", "arm"} =>
       anchor = None /\ store # None /\ store.owner = me /\ ~store.revoked
  /\ at \in {"exists", "mode", "arm"} => ~store.pending
  /\ at = "revoke" => /\ store # None /\ store.owner = me
                      /\ anchor # None => anchor.owner = me

\* What the monitors and the helper run with is on record for the user.
Recorded ==
  /\ ArmedIsRecorded
  /\ waiting # None => store # None /\ store.key = waiting /\ store.owner = me

\* The server knows a key only from this disk, and the key of an anchor only in its
\* owner's name.
Known ==
  /\ \A k \in Keys : IF rows[k].status = "none" THEN rows[k].owner = None ELSE k \in minted
  /\ \A m \in late : m.key \in minted
  /\ anchor # None =>
       /\ anchor.key \in minted
       /\ rows[anchor.key].status # "none" => rows[anchor.key].owner = anchor.owner
       /\ \A m \in late : m.verb = "create" /\ m.key = anchor.key => m.user = anchor.owner
  /\ store # None => store.key \in minted

Types == TypeOK /\ (me # None => logins # 0)

IInv == Types /\ Stage /\ Recorded /\ Known /\ OneIdentity

-----------------------------------------------------------------------------
(* Data.                                                                   *)

LEMMA RecordFields ==
  ASSUME NEW r \in Record
  PROVE  /\ r.owner \in Users /\ r.key \in Keys /\ r # None
         /\ Terminal(r) \in Record /\ Terminal(r).owner = r.owner /\ Terminal(r).key = r.key
         /\ [r EXCEPT !.pending = FALSE] \in Record
         /\ ~r.revoked => \A b \in BOOLEAN : [r EXCEPT !.pending = b] \in Record
<1>1. r \in [owner : Users, key : Keys, pending : BOOLEAN, revoked : BOOLEAN]
      /\ ~(r.pending /\ r.revoked)
  BY DEF Record
<1>2. r # None
  BY EnrollmentAssumption
<1>3. Terminal(r) \in Record /\ Terminal(r).owner = r.owner /\ Terminal(r).key = r.key
  BY <1>1 DEF Record, Terminal
<1>4. [r EXCEPT !.pending = FALSE] \in Record
  BY <1>1 DEF Record
<1>5. ASSUME ~r.revoked, NEW b \in BOOLEAN
      PROVE  [r EXCEPT !.pending = b] \in Record
  BY <1>1, <1>5 DEF Record
<1> QED BY <1>1, <1>2, <1>3, <1>4, <1>5

LEMMA AnchorFields ==
  ASSUME NEW a \in Anchor
  PROVE  /\ a.owner \in Users /\ a.key \in Keys /\ a # None
         /\ [a EXCEPT !.bound = TRUE] \in Anchor
         /\ [a EXCEPT !.bound = TRUE].owner = a.owner
         /\ [a EXCEPT !.bound = TRUE].key = a.key /\ [a EXCEPT !.bound = TRUE].bound
         /\ \A l \in 1..MaxLogins : /\ [a EXCEPT !.login = l] \in Anchor
                                    /\ [a EXCEPT !.login = l].owner = a.owner
                                    /\ [a EXCEPT !.login = l].key = a.key
<1>1. a # None
  BY EnrollmentAssumption
<1> QED BY <1>1 DEF Anchor

\* A create and a revoke touch one row.
LEMMA CreatedRows ==
  ASSUME rows \in [Keys -> Row], NEW m \in Request, NEW r \in Created(m)
  PROVE  /\ r \in [Keys -> Row]
         /\ \/ r = rows
            \/ /\ rows[m.key].status = "none" /\ r[m.key].status \in {"pending", "active"}
               /\ r[m.key].owner = m.user
               /\ \A k \in Keys \ {m.key} : r[k] = rows[k]
<1>1. m.key \in Keys /\ m.user \in Users
  BY DEF Request
<1>2. CASE rows[m.key].status = "none"
  <2>1. PICK s \in {"pending", "active"} :
          r = [rows EXCEPT ![m.key] = [status |-> s, owner |-> m.user]]
    BY <1>2 DEF Created
  <2>2. [status |-> s, owner |-> m.user] \in Row
    BY <1>1 DEF Row, Status
  <2> QED BY <1>1, <1>2, <2>1, <2>2
<1> QED BY <1>2 DEF Created

LEMMA RevokedRows ==
  ASSUME rows \in [Keys -> Row], NEW m \in Request, NEW r \in Revoked(m)
  PROVE  /\ r \in [Keys -> Row]
         /\ \/ r = rows /\ ~(Live(m.key) /\ rows[m.key].owner = m.user)
            \/ /\ Live(m.key) /\ rows[m.key].owner = m.user
               /\ r[m.key].status = "revoked" /\ r[m.key].owner = rows[m.key].owner
               /\ \A k \in Keys \ {m.key} : r[k] = rows[k]
<1>1. m.key \in Keys
  BY DEF Request
<1>2. CASE Live(m.key) /\ rows[m.key].owner = m.user
  <2>1. r = [rows EXCEPT ![m.key].status = "revoked"]
    BY <1>2 DEF Revoked
  <2>2. [rows[m.key] EXCEPT !.status = "revoked"] \in Row
    BY <1>1 DEF Row, Status
  <2> QED BY <1>1, <1>2, <2>1, <2>2 DEF Row
<1> QED BY <1>2 DEF Revoked

-----------------------------------------------------------------------------
(* The shapes of a step.                                                   *)

\* The row of an enrolled key may change its status; a new row is the anchor's owner's.
Grown ==
  \A k \in Keys :
    \/ rows'[k] = rows[k]
    \/ rows[k].status # "none" /\ rows'[k].status # "none" /\ rows'[k].owner = rows[k].owner
    \/ /\ rows[k].status = "none" /\ rows'[k].status # "none" /\ k \in minted
       /\ anchor # None /\ anchor.key = k => rows'[k].owner = anchor.owner

\* A request that is given up names a key of this disk.
Overdue ==
  late' \subseteq late \cup {m \in Request : /\ m.key \in minted
                                             /\ anchor # None /\ m.verb = "create"
                                                  /\ m.key = anchor.key => m.user = anchor.owner}

\* An anchor changes, or goes; a record changes, goes, or is made from the anchor.
SameKeys ==
  /\ anchor' = None \/ (anchor # None /\ anchor'.key = anchor.key /\ anchor'.owner = anchor.owner)
  /\ store' = None \/ (store # None /\ store'.key = store.key)
                   \/ (anchor # None /\ store'.key = anchor.key)

LEMMA KnownStep ==
  ASSUME IInv, Grown, Overdue, SameKeys, minted' = minted, TypeOK'
  PROVE  Known'
<1>1. ASSUME NEW k \in Keys
      PROVE  IF rows'[k].status = "none" THEN rows'[k].owner = None ELSE k \in minted'
  BY DEF IInv, Known, Grown
<1>2. \A m \in late' : m.key \in minted'
  BY DEF IInv, Known, Overdue
<1>3. ASSUME anchor' # None
      PROVE  /\ anchor'.key \in minted'
             /\ rows'[anchor'.key].status # "none" => rows'[anchor'.key].owner = anchor'.owner
             /\ \A m \in late' : m.verb = "create" /\ m.key = anchor'.key => m.user = anchor'.owner
  <2>1. anchor # None /\ anchor'.key = anchor.key /\ anchor'.owner = anchor.owner
    BY <1>3 DEF SameKeys
  <2>2. anchor.key \in Keys
    BY <2>1, AnchorFields DEF IInv, Types, TypeOK
  <2>3. rows'[anchor.key].status # "none" => rows'[anchor.key].owner = anchor.owner
    BY <2>1, <2>2 DEF IInv, Known, Grown
  <2>4. \A m \in late' : m.verb = "create" /\ m.key = anchor.key => m.user = anchor.owner
    BY <2>1 DEF IInv, Known, Overdue
  <2> QED BY <2>1, <2>3, <2>4 DEF IInv, Known
<1>4. store' # None => store'.key \in minted'
  BY DEF SameKeys, IInv, Known
<1> QED BY <1>1, <1>2, <1>3, <1>4 DEF Known

LEMMA Still == rows' = rows /\ late' = late => Grown /\ Overdue
  BY DEF Grown, Overdue

\* A step of an operation, with nothing armed and no monitor waiting.
LEMMA Unarmed ==
  ASSUME IInv, Grown, Overdue, SameKeys, minted' = minted, TypeOK', UNCHANGED session,
         armed' = None, waiting' = None, Stage', OneIdentity'
  PROVE  IInv'
<1>1. Types'
  BY DEF IInv, Types, session
<1>2. Recorded'
  BY DEF Recorded, ArmedIsRecorded
<1> QED BY <1>1, <1>2, KnownStep DEF IInv

LEMMA GoesTo ==
  ASSUME TypeOK, NEW next \in Points, GoTo(next)
  PROVE  /\ at' = next /\ anchor' = anchor /\ store' = store
         /\ at' \in Points /\ faults' \in 0..MaxFaults
  BY DEF GoTo, disk, TypeOK

LEMMA Stores ==
  ASSUME TypeOK, NEW r \in Record \cup {None}, NEW next \in Points, PutStore(r, next)
  PROVE  /\ anchor' = anchor
         /\ \/ store' = r /\ at' = next
            \/ store' \in {store, r} /\ at' = "idle"
         /\ store' \in Record \cup {None} /\ at' \in Points /\ faults' \in 0..MaxFaults
<1>1. Fault => faults' \in 0..MaxFaults
  BY EnrollmentAssumption DEF Fault, TypeOK
<1> QED BY <1>1 DEF PutStore, TypeOK, Points

LEMMA Anchors ==
  ASSUME TypeOK, NEW a \in Anchor \cup {None}, NEW next \in Points, PutAnchor(a, next)
  PROVE  /\ store' = store
         /\ \/ anchor' = a /\ at' = next
            \/ anchor' \in {anchor, a} /\ at' = "idle"
         /\ anchor' \in Anchor \cup {None} /\ at' \in Points /\ faults' \in 0..MaxFaults
<1>1. Fault => faults' \in 0..MaxFaults
  BY EnrollmentAssumption DEF Fault, TypeOK
<1> QED BY <1>1 DEF PutAnchor, TypeOK, Points

-----------------------------------------------------------------------------
(* Connect.                                                                *)

\* The type of a step that leaves the server and the session alone.
LEMMA LocalTypes ==
  ASSUME TypeOK, UNCHANGED <<server, session, minted>>,
         anchor' \in Anchor \cup {None}, store' \in Record \cup {None},
         at' \in Points, faults' \in 0..MaxFaults,
         armed' \in Keys \cup {None}, waiting' \in Keys \cup {None}
  PROVE  /\ TypeOK' /\ Grown /\ Overdue /\ minted' = minted /\ UNCHANGED session
         /\ me' = me /\ rows' = rows /\ late' = late /\ logins' = logins
  BY Still DEF TypeOK, server, session

LEMMA NoneIsNo == None \notin Keys /\ None \notin Users
  BY EnrollmentAssumption

LEMMA FirstReadIn ==
  ASSUME store \in Record
  PROVE  /\ FirstRead \in {"idle", "status", "exists"}
         /\ FirstRead # "idle" => ~store.revoked
         /\ FirstRead = "exists" => ~store.pending
  BY DEF FirstRead

LEMMA ConnectStep == ASSUME IInv, Connect PROVE IInv'
<1>1. TypeOK /\ at = "idle" /\ me # None /\ logins # 0 /\ armed' = None /\ waiting' = None
      /\ UNCHANGED <<server, session, minted>>
  BY DEF IInv, Types, Connect, AllMine
<1>2. (store # None => store.owner = me) /\ (anchor # None => anchor.owner = me)
  BY DEF Connect, AllMine
<1>3. CASE store # None /\ anchor # None /\ PutAnchor(None, FirstRead)
  <2>1. store \in Record /\ FirstRead \in Points
    BY <1>1, <1>3, FirstReadIn DEF TypeOK, Points, Awaits
  <2>2. /\ store' = store /\ anchor' \in Anchor \cup {None}
        /\ at' \in Points /\ faults' \in 0..MaxFaults
        /\ (anchor' = None /\ at' = FirstRead) \/ (anchor' \in {anchor, None} /\ at' = "idle")
    BY <1>1, <1>3, <2>1, Anchors
  <2>3. TypeOK' /\ Grown /\ Overdue /\ minted' = minted /\ UNCHANGED session /\ me' = me
    BY <1>1, <2>2, LocalTypes DEF TypeOK
  <2>4. Stage'
    BY <1>1, <1>2, <1>3, <2>1, <2>2, <2>3, FirstReadIn DEF Stage
  <2>5. OneIdentity' /\ SameKeys
    BY <1>3, <2>2 DEF IInv, OneIdentity, SameKeys
  <2> QED BY <1>1, <2>3, <2>4, <2>5, Unarmed
<1>4. CASE store # None /\ anchor = None /\ GoTo(FirstRead)
  <2>1. store \in Record /\ FirstRead \in Points
    BY <1>1, <1>4, FirstReadIn DEF TypeOK, Points, Awaits
  <2>2. /\ store' = store /\ anchor' = anchor /\ at' = FirstRead
        /\ at' \in Points /\ faults' \in 0..MaxFaults
    BY <1>1, <1>4, <2>1, GoesTo
  <2>3. TypeOK' /\ Grown /\ Overdue /\ minted' = minted /\ UNCHANGED session /\ me' = me
    BY <1>1, <2>2, LocalTypes DEF TypeOK
  <2>4. Stage'
    BY <1>1, <1>2, <1>4, <2>1, <2>2, <2>3, FirstReadIn DEF Stage
  <2>5. OneIdentity' /\ SameKeys
    BY <1>4, <2>2 DEF OneIdentity, SameKeys
  <2> QED BY <1>1, <2>3, <2>4, <2>5, Unarmed
<1>5. CASE store = None /\ anchor = None /\ GoTo("prepare")
  <2>1. /\ store' = store /\ anchor' = anchor /\ at' = "prepare"
        /\ at' \in Points /\ faults' \in 0..MaxFaults
    BY <1>1, <1>5, GoesTo DEF Points, Awaits
  <2>2. TypeOK' /\ Grown /\ Overdue /\ minted' = minted /\ UNCHANGED session /\ me' = me
    BY <1>1, <2>1, LocalTypes DEF TypeOK
  <2>3. Stage' /\ OneIdentity' /\ SameKeys
    BY <1>1, <1>5, <2>1, <2>2 DEF Stage, OneIdentity, SameKeys
  <2> QED BY <1>1, <2>2, <2>3, Unarmed
<1>6. CASE store = None /\ anchor # None /\
           (GoTo("list") \/ PutAnchor([anchor EXCEPT !.login = logins], "list"))
  <2>1. anchor \in Anchor /\ "list" \in Points /\ logins \in 1..MaxLogins
    BY <1>1, <1>6 DEF TypeOK, Points, Awaits
  <2> DEFINE a == [anchor EXCEPT !.login = logins]
  <2>2. a \in Anchor /\ a # None /\ a.owner = anchor.owner /\ a.key = anchor.key
    BY <2>1, AnchorFields
  <2> HIDE DEF a
  <2>3. /\ store' = store /\ anchor' \in {anchor, a} /\ at' \in {"list", "idle"}
        /\ at' \in Points /\ faults' \in 0..MaxFaults
    BY <1>1, <1>6, <2>1, <2>2, GoesTo, Anchors DEF a
  <2>4. TypeOK' /\ Grown /\ Overdue /\ minted' = minted /\ UNCHANGED session /\ me' = me
    BY <1>1, <2>1, <2>2, <2>3, LocalTypes DEF TypeOK
  <2>5. Stage' /\ OneIdentity' /\ SameKeys
    BY <1>1, <1>2, <1>6, <2>2, <2>3, <2>4 DEF Stage, OneIdentity, SameKeys
  <2> QED BY <1>1, <2>4, <2>5, Unarmed
<1> QED BY <1>3, <1>4, <1>5, <1>6 DEF Connect

\* A fresh key: nobody knows it yet.
LEMMA PrepareStep == ASSUME IInv, Prepare PROVE IInv'
<1>1. /\ TypeOK /\ at = "prepare" /\ me # None /\ logins # 0 /\ anchor = None /\ store = None
      /\ armed = None /\ waiting = None
  BY DEF IInv, Types, Stage, Prepare
<1>2. PICK k \in Keys \ minted :
        /\ PutAnchor([owner |-> me, key |-> k, login |-> logins, bound |-> FALSE], "list")
        /\ minted' = IF anchor' = None THEN minted ELSE minted \cup {k}
  BY DEF Prepare
<1> DEFINE a == [owner |-> me, key |-> k, login |-> logins, bound |-> FALSE]
<1>3. a \in Anchor /\ a # None /\ a.owner = me /\ a.key = k /\ "list" \in Points
  <2>1. me \in Users /\ logins \in 1..MaxLogins
    BY <1>1 DEF TypeOK
  <2>2. a \in Anchor
    BY <2>1 DEF Anchor
  <2> QED BY <2>2, AnchorFields DEF Points, Awaits
<1> HIDE DEF a
<1>4. /\ store' = store /\ anchor' \in Anchor \cup {None}
      /\ at' \in Points /\ faults' \in 0..MaxFaults
      /\ (anchor' = a /\ at' = "list") \/ (anchor' \in {None, a} /\ at' = "idle")
  BY <1>1, <1>2, <1>3, Anchors DEF a
<1>5. UNCHANGED <<rows, late, me, logins, armed, waiting>>
  BY DEF Prepare, server, session, runtime
<1>6. minted' = (IF anchor' = None THEN minted ELSE minted \cup {k}) /\ minted' \subseteq Keys
  BY <1>1, <1>2 DEF TypeOK
<1>7. Types'
  BY <1>1, <1>4, <1>5, <1>6 DEF Types, TypeOK
<1>8. Stage' /\ OneIdentity' /\ Recorded'
  BY <1>1, <1>3, <1>4, <1>5 DEF Stage, OneIdentity, Recorded, ArmedIsRecorded
<1>9. Known'
  <2>1. rows[k].status = "none" /\ \A m \in late : m.key # k
    BY <1>2 DEF IInv, Known
  <2> QED BY <1>1, <1>3, <1>4, <1>5, <1>6, <2>1 DEF IInv, Known
<1> QED BY <1>7, <1>8, <1>9 DEF IInv

-----------------------------------------------------------------------------
(* A first enrollment, or one that is resumed.                             *)

LEMMA Binds ==
  ASSUME TypeOK, anchor # None, NEW next \in Points, Bind(next)
  PROVE  /\ store' = store /\ anchor' \in Anchor /\ anchor' # None
         /\ anchor'.key = anchor.key /\ anchor'.owner = anchor.owner
         /\ (at' = next /\ anchor'.bound) \/ at' = "idle"
         /\ at' \in Points /\ faults' \in 0..MaxFaults
<1>1. anchor \in Anchor
  BY DEF TypeOK
<1>2. CASE anchor.bound /\ GoTo(next)
  BY <1>1, <1>2, GoesTo
<1>3. CASE ~anchor.bound /\ PutAnchor([anchor EXCEPT !.bound = TRUE], next)
  <2> DEFINE a == [anchor EXCEPT !.bound = TRUE]
  <2>1. a \in Anchor /\ a # None /\ a.owner = anchor.owner /\ a.key = anchor.key /\ a.bound
    BY <1>1, AnchorFields
  <2> HIDE DEF a
  <2>2. /\ store' = store
        /\ (anchor' = a /\ at' = next) \/ (anchor' \in {anchor, a} /\ at' = "idle")
        /\ at' \in Points /\ faults' \in 0..MaxFaults
    BY <1>3, <2>1, Anchors DEF a
  <2> QED BY <1>1, <2>1, <2>2
<1> QED BY <1>2, <1>3 DEF Bind

\* Where an operation under way stands on the disk.
LEMMA UnderWay ==
  ASSUME IInv, at # "idle"
  PROVE  /\ TypeOK /\ me \in Users /\ armed = None /\ waiting = None
         /\ at \in {"list", "create", "confirm", "inspect", "recheck", "forsake", "verify"} =>
              anchor \in Anchor /\ anchor # None /\ anchor.owner = me /\ store = None
         /\ at \in {"status", "exists", "mode", "gate", "arm"} =>
              anchor = None /\ store \in Record /\ store # None /\ store.owner = me /\ ~store.revoked
  BY DEF IInv, Types, TypeOK, Stage

LEMMA ListStep == ASSUME IInv, List PROVE IInv'
<1>1. /\ TypeOK /\ me \in Users /\ me # None /\ armed = None /\ waiting = None
      /\ anchor \in Anchor /\ anchor # None /\ anchor.owner = me /\ store = None
  BY UnderWay, NoneIsNo DEF List
<1>2. UNCHANGED <<server, session, minted, armed, waiting>>
  BY DEF List, runtime
<1>3. /\ store' = store /\ anchor' \in Anchor /\ anchor' # None
      /\ anchor'.key = anchor.key /\ anchor'.owner = anchor.owner
      /\ at' \in {"create", "idle"} \/ (at' = "confirm" /\ anchor'.bound)
      /\ at' \in Points /\ faults' \in 0..MaxFaults
  <2>1. {"create", "idle", "confirm"} \subseteq Points
    BY DEF Points, Awaits
  <2> QED BY <1>1, <2>1, GoesTo, Binds DEF List
<1>4. TypeOK' /\ Grown /\ Overdue /\ minted' = minted /\ UNCHANGED session /\ me' = me
  BY <1>1, <1>2, <1>3, LocalTypes DEF TypeOK
<1>5. Stage' /\ OneIdentity' /\ SameKeys
  BY <1>1, <1>2, <1>3, <1>4 DEF Stage, OneIdentity, SameKeys
<1> QED BY <1>1, <1>2, <1>4, <1>5, Unarmed

LEMMA AskedIn ==
  ASSUME me \in Users, NEW verb \in {"create", "revoke"}, NEW k \in Keys
  PROVE  /\ Asked(verb, k) \in Request
         /\ Asked(verb, k).verb = verb /\ Asked(verb, k).key = k /\ Asked(verb, k).user = me
  BY DEF Asked, Request

\* The type of a step that changes a row.
LEMMA RemoteTypes ==
  ASSUME TypeOK, rows' \in [Keys -> Row], UNCHANGED <<late, session, minted>>,
         anchor' \in Anchor \cup {None}, store' \in Record \cup {None},
         at' \in Points, faults' \in 0..MaxFaults, armed' = None, waiting' = None
  PROVE  TypeOK' /\ Overdue /\ minted' = minted /\ UNCHANGED session /\ me' = me
  BY DEF TypeOK, session, Overdue

LEMMA CreateStep == ASSUME IInv, Create PROVE IInv'
<1>1. /\ TypeOK /\ me \in Users /\ me # None /\ armed = None /\ waiting = None
      /\ anchor \in Anchor /\ anchor # None /\ anchor.owner = me /\ store = None
  BY UnderWay, NoneIsNo DEF Create
<1>2. PICK r \in Created(Asked("create", anchor.key)) :
        /\ rows' = r
        /\ IF OursIn(r, anchor.key, me) THEN Bind("confirm") ELSE GoTo("idle")
  BY DEF Create
<1>3. UNCHANGED <<late, session, minted, armed, waiting>>
  BY DEF Create, runtime
<1>4. anchor.key \in Keys
  BY <1>1, AnchorFields
<1>5. /\ rows' \in [Keys -> Row]
      /\ \/ rows' = rows
         \/ /\ rows[anchor.key].status = "none" /\ rows'[anchor.key].status \in {"pending", "active"}
            /\ rows'[anchor.key].owner = me
            /\ \A k \in Keys \ {anchor.key} : rows'[k] = rows[k]
  <2>1. /\ Asked("create", anchor.key) \in Request
        /\ Asked("create", anchor.key).key = anchor.key /\ Asked("create", anchor.key).user = me
    BY <1>1, <1>4, AskedIn
  <2> QED BY <1>1, <1>2, <2>1, CreatedRows DEF TypeOK
<1>6. Grown
  BY <1>1, <1>5 DEF Grown, IInv, Known
<1>7. /\ store' = store /\ anchor' \in Anchor /\ anchor' # None
      /\ anchor'.key = anchor.key /\ anchor'.owner = anchor.owner
      /\ at' = "idle" \/ (at' = "confirm" /\ anchor'.bound)
      /\ at' \in Points /\ faults' \in 0..MaxFaults
  <2>1. {"idle", "confirm"} \subseteq Points
    BY DEF Points, Awaits
  <2> QED BY <1>1, <1>2, <2>1, GoesTo, Binds
<1>8. TypeOK' /\ Overdue /\ minted' = minted /\ UNCHANGED session /\ me' = me
  BY <1>1, <1>3, <1>5, <1>7, RemoteTypes DEF TypeOK
<1>9. Stage' /\ OneIdentity' /\ SameKeys
  BY <1>1, <1>3, <1>7, <1>8 DEF Stage, OneIdentity, SameKeys
<1> QED BY <1>1, <1>3, <1>6, <1>8, <1>9, Unarmed

\* The record is published beside the anchor it is made from.
LEMMA ConfirmStep == ASSUME IInv, Confirm PROVE IInv'
<1>1. /\ TypeOK /\ me \in Users /\ me # None /\ armed = None /\ waiting = None
      /\ anchor \in Anchor /\ anchor # None /\ anchor.owner = me /\ store = None
  BY UnderWay, NoneIsNo DEF Confirm
<1>2. anchor.bound
  BY DEF IInv, Stage, Confirm
<1>3. UNCHANGED <<server, session, minted, armed, waiting>>
  BY DEF Confirm, runtime
<1> DEFINE r == [owner |-> anchor.owner, key |-> anchor.key, revoked |-> FALSE,
                 pending |-> rows[anchor.key].status = "pending"]
<1>4. /\ r \in Record /\ r # None /\ ~r.revoked
      /\ r.key = anchor.key /\ r.owner = anchor.owner
  <2>1. r \in Record
    BY <1>1, AnchorFields DEF Record
  <2> QED BY <2>1, RecordFields
<1> HIDE DEF r
<1>5. /\ anchor' = anchor
      /\ \/ at' = "idle" /\ store' \in {store, r}
         \/ at' = "clear" /\ store' = r
      /\ at' \in Points /\ faults' \in 0..MaxFaults
  <2>1. {"idle", "clear"} \subseteq Points
    BY DEF Points
  <2> QED BY <1>1, <1>4, <2>1, GoesTo, Stores DEF Confirm, r
<1>6. TypeOK' /\ Grown /\ Overdue /\ minted' = minted /\ UNCHANGED session /\ me' = me
  BY <1>1, <1>3, <1>4, <1>5, LocalTypes DEF TypeOK
<1>7. Stage' /\ OneIdentity' /\ SameKeys
  BY <1>1, <1>2, <1>3, <1>4, <1>5, <1>6 DEF Stage, OneIdentity, SameKeys
<1> QED BY <1>1, <1>3, <1>6, <1>7, Unarmed

LEMMA OutcomeIn ==
  ASSUME NEW b \in BOOLEAN
  PROVE  /\ Outcome(b) \in {"gate", "arm"} /\ Outcome(b) \in Points
         /\ Outcome(b) = "arm" => ~b
  BY DEF Outcome, Points

LEMMA ClearAnchorStep == ASSUME IInv, ClearAnchor PROVE IInv'
<1>1. /\ TypeOK /\ me # None /\ armed = None /\ waiting = None
      /\ anchor # None /\ anchor.owner = me /\ store \in Record /\ store # None /\ ~store.revoked
  BY DEF IInv, Types, TypeOK, Stage, ClearAnchor
<1>2. store.owner = me /\ store.pending \in BOOLEAN
  BY <1>1 DEF IInv, OneIdentity, Record
<1>3. UNCHANGED <<server, session, minted, armed, waiting>>
  BY DEF ClearAnchor, runtime
<1>4. /\ store' = store /\ anchor' \in Anchor \cup {None}
      /\ \/ at' = Outcome(store.pending) /\ anchor' = None
         \/ at' = "idle" /\ anchor' \in {anchor, None}
      /\ at' \in Points /\ faults' \in 0..MaxFaults
  BY <1>1, <1>2, OutcomeIn, Anchors DEF ClearAnchor
<1>5. TypeOK' /\ Grown /\ Overdue /\ minted' = minted /\ UNCHANGED session /\ me' = me
  BY <1>1, <1>3, <1>4, LocalTypes DEF TypeOK
<1>6. Stage'
  BY <1>1, <1>2, <1>3, <1>4, <1>5, OutcomeIn DEF Stage
<1>7. OneIdentity' /\ SameKeys
  BY <1>1, <1>4 DEF IInv, OneIdentity, SameKeys
<1> QED BY <1>1, <1>3, <1>5, <1>6, <1>7, Unarmed

\* A record alone on disk is read, refreshed, and its device armed or waited for.
LEMMA RefreshStep == ASSUME IInv, ReadStatus \/ ReadExists \/ Refresh PROVE IInv'
<1>1. /\ TypeOK /\ me \in Users /\ me # None /\ armed = None /\ waiting = None
      /\ anchor = None /\ store \in Record /\ store # None /\ store.owner = me /\ ~store.revoked
  BY UnderWay, NoneIsNo DEF ReadStatus, ReadExists, Refresh
<1>2. UNCHANGED <<server, session, minted, armed, waiting>>
  BY DEF ReadStatus, ReadExists, Refresh, runtime
<1>3. at = "exists" => ~store.pending
  BY DEF IInv, Stage
<1>4. /\ anchor' = anchor /\ store' \in Record
      /\ store'.owner = store.owner /\ store'.key = store.key
      /\ \/ at' = "idle"
         \/ at' = "gate" /\ ~store'.revoked
         \/ at' \in {"exists", "mode", "arm"} /\ ~store'.revoked /\ ~store'.pending
      /\ at' \in Points /\ faults' \in 0..MaxFaults
  <2>1. {"idle", "gate", "exists", "mode", "arm"} \subseteq Points
    BY DEF Points, Awaits
  <2>2. /\ Terminal(store) \in Record
        /\ Terminal(store).owner = store.owner /\ Terminal(store).key = store.key
    BY <1>1, RecordFields
  <2>3. ASSUME NEW b \in BOOLEAN
        PROVE  /\ [store EXCEPT !.pending = b] \in Record
               /\ [store EXCEPT !.pending = b].owner = store.owner
               /\ [store EXCEPT !.pending = b].key = store.key
               /\ ~[store EXCEPT !.pending = b].revoked
               /\ [store EXCEPT !.pending = b].pending = b
    BY <1>1, RecordFields DEF Record
  <2>4. CASE ReadStatus
    <3>1. CASE GoTo("gate")
      BY <1>1, <2>1, <3>1, GoesTo
    <3>2. CASE PutStore([store EXCEPT !.pending = FALSE], "exists")
      <4> DEFINE r == [store EXCEPT !.pending = FALSE]
      <4>1. r \in Record /\ r.owner = store.owner /\ r.key = store.key /\ ~r.revoked /\ ~r.pending
        BY <2>3
      <4> HIDE DEF r
      <4> QED BY <1>1, <2>1, <3>2, <4>1, Stores DEF r
    <3>3. CASE PutStore(Terminal(store), "idle")
      BY <1>1, <2>1, <2>2, <3>3, Stores
    <3> QED BY <2>4, <3>1, <3>2, <3>3 DEF ReadStatus
  <2>5. CASE ReadExists
    <3>1. CASE at = "exists" /\ GoTo("mode")
      BY <1>1, <1>3, <2>1, <3>1, GoesTo
    <3>2. CASE PutStore(Terminal(store), "idle")
      BY <1>1, <2>1, <2>2, <3>2, Stores
    <3> QED BY <2>5, <3>1, <3>2 DEF ReadExists
  <2>6. CASE Refresh
    <3>1. CASE GoTo("idle")
      BY <1>1, <2>1, <3>1, GoesTo
    <3>2. CASE \E b \in BOOLEAN : PutStore([store EXCEPT !.pending = b], Outcome(b))
      <4>1. PICK b \in BOOLEAN : PutStore([store EXCEPT !.pending = b], Outcome(b))
        BY <3>2
      <4> DEFINE r == [store EXCEPT !.pending = b]
      <4>2. r \in Record /\ r.owner = store.owner /\ r.key = store.key /\ ~r.revoked /\ r.pending = b
        BY <2>3
      <4> HIDE DEF r
      <4>3. /\ anchor' = anchor /\ at' \in Points /\ faults' \in 0..MaxFaults
            /\ (store' = r /\ at' = Outcome(b)) \/ (store' \in {store, r} /\ at' = "idle")
        BY <1>1, <4>1, <4>2, OutcomeIn, Stores DEF r
      <4> QED BY <1>1, <4>2, <4>3, OutcomeIn
    <3> QED BY <2>6, <3>1, <3>2 DEF Refresh
  <2> QED BY <2>4, <2>5, <2>6
<1>5. store' # None
  BY <1>4, RecordFields
<1>6. TypeOK' /\ Grown /\ Overdue /\ minted' = minted /\ UNCHANGED session /\ me' = me
  BY <1>1, <1>2, <1>4, LocalTypes DEF TypeOK
<1>7. Stage' /\ OneIdentity' /\ SameKeys
  BY <1>1, <1>2, <1>4, <1>5, <1>6 DEF Stage, OneIdentity, SameKeys
<1> QED BY <1>1, <1>2, <1>6, <1>7, Unarmed

\* The session stays on disk as it is; what runs with it is on record.
LEMMA Idles ==
  ASSUME IInv, UNCHANGED <<server, disk, session, minted>>, at' = "idle",
         faults' \in 0..MaxFaults, armed' \in Keys \cup {None}, waiting' \in Keys \cup {None},
         Recorded'
  PROVE  IInv'
<1>1. UNCHANGED <<rows, late, anchor, store, me, logins>>
  BY DEF server, disk, session
<1>2. Types' /\ Stage' /\ Known' /\ OneIdentity'
  BY <1>1 DEF IInv, Types, TypeOK, Points, Stage, Known, OneIdentity
<1> QED BY <1>2 DEF IInv

LEMMA ArmStep == ASSUME IInv, Gate \/ Arm PROVE IInv'
<1>1. /\ TypeOK /\ armed = None /\ waiting = None
      /\ anchor = None /\ store \in Record /\ store # None /\ store.owner = me /\ ~store.revoked
  BY UnderWay DEF Gate, Arm
<1>2. store.key \in Keys
  BY <1>1, RecordFields
<1>3. /\ UNCHANGED <<server, session, minted>>
      /\ at' = "idle" /\ UNCHANGED disk /\ faults' \in 0..MaxFaults
  BY <1>1 DEF Gate, Arm, GoTo, TypeOK
<1>4. UNCHANGED <<anchor, store, me>>
  BY <1>3 DEF disk, session
<1>5. CASE Gate
  BY <1>1, <1>2, <1>3, <1>4, <1>5, Idles DEF Gate, Recorded, ArmedIsRecorded
<1>6. CASE Arm
  <2>1. ~store.pending
    BY <1>6 DEF Arm, IInv, Stage
  <2> QED BY <1>1, <1>2, <1>3, <1>4, <1>6, <2>1, Idles DEF Arm, Recorded, ArmedIsRecorded
<1> QED BY <1>5, <1>6

-----------------------------------------------------------------------------
(* The monitors.                                                           *)

LEMMA ApprovedStep == ASSUME IInv, Approved PROVE IInv'
<1>1. /\ TypeOK /\ store \in Record /\ store # None
      /\ UNCHANGED <<server, session, minted, armed>> /\ waiting' = None
  BY DEF Approved, IInv, Types, TypeOK, Recorded
<1> DEFINE r == [store EXCEPT !.pending = FALSE]
<1>2. /\ r \in Record /\ r # None /\ r.owner = store.owner /\ r.key = store.key
      /\ ~r.pending /\ r.revoked = store.revoked
  <2>1. r \in Record
    BY <1>1, RecordFields
  <2> QED BY <1>1, <2>1, RecordFields DEF Record
<1> HIDE DEF r
<1>3. /\ anchor' = anchor /\ at' = "idle" /\ store' \in {store, r}
      /\ at' \in Points /\ faults' \in 0..MaxFaults
  <2>1. "idle" \in Points
    BY DEF Points
  <2> QED BY <1>1, <1>2, <2>1, Stores DEF Approved, r
<1>4. TypeOK' /\ Grown /\ Overdue /\ minted' = minted /\ UNCHANGED session /\ me' = me
  BY <1>1, <1>2, <1>3, LocalTypes DEF TypeOK
<1>5. Types' /\ Stage'
  BY <1>3, <1>4 DEF IInv, Types, Stage, session
<1>6. OneIdentity' /\ SameKeys
  BY <1>1, <1>2, <1>3 DEF IInv, OneIdentity, SameKeys
<1>7. Recorded'
  BY <1>1, <1>2, <1>3, <1>4 DEF IInv, Recorded, ArmedIsRecorded
<1> QED BY <1>4, <1>5, <1>6, <1>7, KnownStep DEF IInv

LEMMA GoneStep == ASSUME IInv, Gone PROVE IInv'
<1>1. /\ TypeOK /\ store \in Record /\ store # None
      /\ UNCHANGED <<server, session, minted>> /\ armed' = None /\ waiting' = None
  BY DEF Gone, IInv, Types, TypeOK, Recorded, ArmedIsRecorded
<1>2. /\ Terminal(store) \in Record /\ Terminal(store) # None
      /\ Terminal(store).owner = store.owner /\ Terminal(store).key = store.key
  BY <1>1, RecordFields
<1>3. /\ anchor' = anchor /\ at' = "idle" /\ store' \in {store, Terminal(store)}
      /\ at' \in Points /\ faults' \in 0..MaxFaults
  <2>1. "idle" \in Points
    BY DEF Points
  <2> QED BY <1>1, <1>2, <2>1, Stores DEF Gone
<1>4. TypeOK' /\ Grown /\ Overdue /\ minted' = minted /\ UNCHANGED session
  BY <1>1, <1>2, <1>3, LocalTypes DEF TypeOK
<1>5. Stage'
  BY <1>3 DEF Stage
<1>6. OneIdentity' /\ SameKeys
  BY <1>1, <1>2, <1>3 DEF IInv, OneIdentity, SameKeys
<1> QED BY <1>1, <1>4, <1>5, <1>6, Unarmed

-----------------------------------------------------------------------------
(* Removal.                                                                *)

LEMMA RemoveStep == ASSUME IInv, Remove PROVE IInv'
<1>1. /\ TypeOK /\ me # None /\ UNCHANGED <<server, session, minted>>
      /\ (store # None => store.owner = me) /\ (anchor # None => anchor.owner = me)
  BY DEF Remove, AllMine, IInv, Types
<1>2. /\ UNCHANGED <<anchor, store>> /\ faults' = faults
      /\ at' = "revoke" \/ at' = "inspect"
      /\ at' = "revoke" => store # None /\ armed' = None /\ waiting' = None
      /\ at' = "inspect" => store = None /\ anchor # None /\ UNCHANGED <<armed, waiting>>
  BY DEF Remove, GoTo, disk, runtime
<1>3. armed' = None /\ waiting' = None
  BY <1>2 DEF IInv, Recorded, ArmedIsRecorded
<1>4. TypeOK' /\ Grown /\ Overdue /\ minted' = minted /\ UNCHANGED session /\ me' = me
  BY <1>1, <1>2, <1>3, LocalTypes DEF TypeOK, Points, Awaits
<1>5. Stage'
  BY <1>1, <1>2, <1>3, <1>4 DEF Stage
<1>6. OneIdentity' /\ SameKeys
  BY <1>2 DEF IInv, OneIdentity, SameKeys
<1> QED BY <1>3, <1>4, <1>5, <1>6, Unarmed

\* A revoke of a key in this user's name.
LEMMA Revoking ==
  ASSUME IInv, me \in Users, NEW k \in Keys, rows' \in Revoked(Asked("revoke", k))
  PROVE  /\ rows' \in [Keys -> Row] /\ Grown
         /\ \/ rows' = rows /\ ~(Live(k) /\ rows[k].owner = me)
            \/ /\ Live(k) /\ rows[k].owner = me /\ rows'[k].status = "revoked"
               /\ \A j \in Keys \ {k} : rows'[j] = rows[j]
<1>1. /\ Asked("revoke", k) \in Request
      /\ Asked("revoke", k).key = k /\ Asked("revoke", k).user = me
  BY AskedIn
<1>2. rows \in [Keys -> Row]
  BY DEF IInv, Types, TypeOK
<1>3. /\ rows' \in [Keys -> Row]
      /\ \/ rows' = rows /\ ~(Live(k) /\ rows[k].owner = me)
         \/ /\ Live(k) /\ rows[k].owner = me
            /\ rows'[k].status = "revoked" /\ rows'[k].owner = rows[k].owner
            /\ \A j \in Keys \ {k} : rows'[j] = rows[j]
  BY <1>1, <1>2, RevokedRows
<1>4. Live(k) => rows[k].status # "none"
  BY DEF Live, LiveIn
<1> QED BY <1>3, <1>4 DEF Grown

LEMMA RevokeStep == ASSUME IInv, Revoke PROVE IInv'
<1>1. /\ TypeOK /\ me \in Users /\ armed = None /\ waiting = None
      /\ store \in Record /\ store # None /\ store.key \in Keys
  BY RecordFields DEF Revoke, IInv, Types, TypeOK, Stage
<1>2. /\ rows' \in Revoked(Asked("revoke", store.key))
      /\ GoTo("idle") \/ PutStore(None, "idle")
      /\ UNCHANGED <<late, session, armed, waiting, minted>>
  BY DEF Revoke, runtime
<1>3. rows' \in [Keys -> Row] /\ Grown
  BY <1>1, <1>2, Revoking
<1>4. /\ anchor' = anchor /\ at' = "idle" /\ store' \in {store, None}
      /\ at' \in Points /\ faults' \in 0..MaxFaults
  <2>1. "idle" \in Points
    BY DEF Points
  <2> QED BY <1>1, <1>2, <2>1, GoesTo, Stores
<1>5. TypeOK' /\ Overdue /\ minted' = minted /\ UNCHANGED session
  BY <1>1, <1>2, <1>3, <1>4, RemoteTypes DEF TypeOK
<1>6. Stage'
  BY <1>4 DEF Stage
<1>7. OneIdentity' /\ SameKeys
  BY <1>4 DEF IInv, OneIdentity, SameKeys
<1> QED BY <1>1, <1>2, <1>3, <1>5, <1>6, <1>7, Unarmed

\* An anchor without a record is abandoned.
LEMMA AbandonStep == ASSUME IInv, Inspect \/ Recheck \/ Forsake \/ Verify PROVE IInv'
<1>1. /\ TypeOK /\ me \in Users /\ me # None /\ armed = None /\ waiting = None
      /\ anchor \in Anchor /\ anchor # None /\ anchor.owner = me /\ store = None
  BY UnderWay, NoneIsNo DEF Inspect, Recheck, Forsake, Verify
<1>2. /\ UNCHANGED <<late, session, minted>> /\ armed' = None /\ waiting' = None
      /\ rows' = rows \/ rows' \in Revoked(Asked("revoke", anchor.key))
  BY <1>1 DEF Inspect, Recheck, Forsake, Verify, server, runtime
<1>3. rows' \in [Keys -> Row] /\ Grown
  BY <1>1, <1>2, Revoking, AnchorFields DEF TypeOK, Grown
<1>4. /\ store' = store /\ at' \in {"idle", "recheck", "forsake", "verify"}
      /\ anchor' = anchor \/ (anchor' = None /\ at' = "idle")
      /\ at' \in Points /\ faults' \in 0..MaxFaults
  <2>1. {"idle", "recheck", "forsake", "verify"} \subseteq Points
    BY DEF Points, Awaits
  <2>2. GoTo("idle") \/ GoTo("recheck") \/ GoTo("forsake") \/ GoTo("verify")
        \/ PutAnchor(None, "idle")
    BY DEF Inspect, Recheck, Forsake, Verify
  <2> QED BY <1>1, <2>1, <2>2, GoesTo, Anchors
<1>5. TypeOK' /\ Overdue /\ minted' = minted /\ UNCHANGED session /\ me' = me
  BY <1>1, <1>2, <1>3, <1>4, RemoteTypes DEF TypeOK
<1>6. Stage' /\ OneIdentity' /\ SameKeys
  BY <1>1, <1>2, <1>4, <1>5 DEF Stage, OneIdentity, SameKeys
<1> QED BY <1>2, <1>3, <1>5, <1>6, Unarmed

-----------------------------------------------------------------------------
(* Failures, the user and the server.                                      *)

LEMMA SentIsOverdue ==
  ASSUME IInv, late' = late \cup Sent
  PROVE  Overdue /\ late' \subseteq Request
<1>1. CASE at = "create" \/ at = "forsake"
  <2>1. /\ me \in Users /\ anchor \in Anchor /\ anchor # None /\ anchor.owner = me
        /\ anchor.key \in Keys
    BY <1>1, UnderWay, AnchorFields
  <2>2. Sent = {Asked("create", anchor.key)} \/ Sent = {Asked("revoke", anchor.key)}
    BY <1>1 DEF Sent
  <2> QED BY <2>1, <2>2, AskedIn DEF Overdue, IInv, Known, Types, TypeOK
<1>2. CASE at = "revoke"
  <2>1. me \in Users /\ store # None /\ store \in Record /\ store.key \in Keys
    BY <1>2, RecordFields DEF IInv, Types, TypeOK, Stage
  <2>2. Sent = {Asked("revoke", store.key)}
    BY <1>2 DEF Sent
  <2> QED BY <2>1, <2>2, AskedIn DEF Overdue, IInv, Known, Types, TypeOK
<1>3. CASE at \notin {"create", "forsake", "revoke"}
  BY <1>3 DEF Sent, Overdue, IInv, Types, TypeOK
<1> QED BY <1>1, <1>2, <1>3

LEMMA GiveUpStep == ASSUME IInv, GiveUp PROVE IInv'
<1>1. TypeOK /\ me # None /\ armed = None /\ waiting = None
  BY DEF GiveUp, IInv, Types, Stage, Awaits
<1>2. UNCHANGED <<rows, anchor, store, me, logins, armed, waiting, minted>>
  BY DEF GiveUp, disk, session, runtime
<1>3. Overdue /\ late' \subseteq Request
  BY SentIsOverdue DEF GiveUp
<1>4. at' = (CASE at = "status" -> "gate" [] at = "exists" -> "mode" [] OTHER -> "idle")
  BY DEF GiveUp
<1>5. TypeOK'
  <2>1. at' \in Points /\ faults' \in 0..MaxFaults
    BY <1>1, <1>4, EnrollmentAssumption DEF GiveUp, Fault, TypeOK, Points, Awaits
  <2> QED BY <1>1, <1>2, <1>3, <2>1 DEF TypeOK
<1>6. Stage'
  BY <1>1, <1>2, <1>4 DEF IInv, Stage
<1>7. Grown /\ SameKeys /\ OneIdentity' /\ UNCHANGED session
  BY <1>2 DEF Grown, SameKeys, IInv, OneIdentity, session
<1> QED BY <1>1, <1>2, <1>3, <1>5, <1>6, <1>7, Unarmed

LEMMA CrashStep == ASSUME IInv, Crash PROVE IInv'
<1>1. UNCHANGED <<rows, anchor, store, me, logins, minted>>
      /\ at' = "idle" /\ armed' = None /\ waiting' = None
  BY DEF Crash, disk, session
<1>2. Overdue /\ late' \subseteq Request
  BY SentIsOverdue DEF Crash
<1>3. TypeOK'
  <2>1. at' \in Points /\ faults' \in 0..MaxFaults
    BY <1>1, EnrollmentAssumption DEF Crash, Fault, IInv, Types, TypeOK, Points
  <2> QED BY <1>1, <1>2, <2>1 DEF IInv, Types, TypeOK
<1>4. Stage'
  BY <1>1 DEF Stage
<1>5. Grown /\ SameKeys /\ OneIdentity' /\ UNCHANGED session
  BY <1>1 DEF Grown, SameKeys, IInv, OneIdentity, session
<1> QED BY <1>1, <1>2, <1>3, <1>4, <1>5, Unarmed

LEMMA UserStep ==
  ASSUME IInv, Disconnect \/ Logout \/ \E u \in Users : Login(u)
  PROVE  IInv'
<1>1. /\ at' = "idle" /\ armed' = None /\ waiting' = None
      /\ UNCHANGED <<rows, late, anchor, store, minted, faults>>
  BY DEF Disconnect, Logout, Login, server, disk
<1>2. /\ me' \in Users \cup {None} /\ logins' \in 0..MaxLogins /\ (me' # None => logins' # 0)
  <2>1. CASE Disconnect \/ Logout
    BY <2>1 DEF Disconnect, Logout, session, IInv, Types, TypeOK
  <2>2. CASE \E u \in Users : Login(u)
    BY <2>2, EnrollmentAssumption DEF Login, IInv, Types, TypeOK
  <2> QED BY <2>1, <2>2
<1>3. Types' /\ Stage' /\ Recorded' /\ Known' /\ OneIdentity'
  BY <1>1, <1>2 DEF IInv, Types, TypeOK, Points, Stage, Recorded, ArmedIsRecorded, Known, OneIdentity
<1> QED BY <1>3 DEF IInv

LEMMA ServerStep ==
  ASSUME IInv, \/ \E k \in Keys : Administrator(k)
               \/ \E m \in late : Arrives(m)
  PROVE  IInv'
<1>1. UNCHANGED <<anchor, store, me, logins, at, armed, waiting, minted, faults>>
  BY DEF Administrator, Administered, Arrives, disk, session, runtime
<1>2. rows' \in [Keys -> Row] /\ Grown /\ late' \subseteq late
  <2>1. CASE \E k \in Keys : Administrator(k)
    <3>1. PICK k \in Keys, s \in Status \ {"none"}, t \in Status \ {"none"} : Administered(k, s, t)
      BY <2>1 DEF Administrator, Status
    <3>2. rows' = [rows EXCEPT ![k].status = t] /\ rows[k].status = s /\ late' = late
      BY <3>1 DEF Administered
    <3>3. [rows[k] EXCEPT !.status = t] \in Row /\ [rows[k] EXCEPT !.status = t].owner = rows[k].owner
          /\ [rows[k] EXCEPT !.status = t].status = t
      BY DEF IInv, Types, TypeOK, Row
    <3> QED BY <3>2, <3>3 DEF IInv, Types, TypeOK, Grown
  <2>2. CASE \E m \in late : Arrives(m)
    <3>1. PICK m \in late : Arrives(m)
      BY <2>2
    <3>2. m \in Request /\ m.key \in Keys /\ m.key \in minted /\ late' \subseteq late
      BY <3>1 DEF IInv, Types, TypeOK, Known, Request, Arrives
    <3>3. CASE m.verb = "create"
      <4>1. rows' \in Created(m)
        BY <3>1, <3>3 DEF Arrives, Served
      <4>2. anchor # None /\ anchor.key = m.key => m.user = anchor.owner
        BY <3>3 DEF IInv, Known
      <4> QED BY <3>2, <4>1, <4>2, CreatedRows DEF IInv, Types, TypeOK, Grown
    <3>4. CASE m.verb # "create"
      <4>1. rows' \in Revoked(m)
        BY <3>1, <3>4 DEF Arrives, Served
      <4>2. Live(m.key) => rows[m.key].status # "none"
        BY DEF Live, LiveIn
      <4> QED BY <3>2, <4>1, <4>2, RevokedRows DEF IInv, Types, TypeOK, Grown
    <3> QED BY <3>3, <3>4
  <2> QED BY <2>1, <2>2
<1>3. TypeOK'
  BY <1>1, <1>2 DEF IInv, Types, TypeOK
<1>4. Overdue /\ SameKeys
  BY <1>1, <1>2 DEF Overdue, SameKeys
<1>5. Types' /\ Stage' /\ Recorded' /\ OneIdentity'
  BY <1>1, <1>3 DEF IInv, Types, Stage, Recorded, ArmedIsRecorded, OneIdentity
<1> QED BY <1>1, <1>2, <1>3, <1>4, <1>5, KnownStep DEF IInv

-----------------------------------------------------------------------------
(* The invariant.                                                          *)

LEMMA Initially == Init => IInv
<1> SUFFICES ASSUME Init PROVE IInv
  OBVIOUS
<1>1. rows \in [Keys -> Row] /\ \A k \in Keys : rows[k] = [status |-> "none", owner |-> None]
  BY DEF Init, Row, Status
<1>2. Types
  BY <1>1, EnrollmentAssumption DEF Init, Types, TypeOK, Points
<1>3. Known
  BY <1>1 DEF Init, Known
<1> QED BY <1>2, <1>3 DEF Init, IInv, Stage, Recorded, ArmedIsRecorded, OneIdentity

LEMMA NextStep == ASSUME IInv, Next PROVE IInv'
<1>1. CASE Flow
  BY <1>1, PrepareStep, ListStep, CreateStep, ConfirmStep, ClearAnchorStep, RefreshStep, ArmStep,
     RevokeStep, AbandonStep DEF Flow
<1>2. CASE Connect \/ Remove \/ Approved \/ Gone \/ GiveUp \/ Crash
  BY <1>2, ConnectStep, RemoveStep, ApprovedStep, GoneStep, GiveUpStep, CrashStep
<1>3. CASE Disconnect \/ Logout \/ \E u \in Users : Login(u)
  BY <1>3, UserStep
<1>4. CASE (\E k \in Keys : Administrator(k)) \/ \E m \in late : Arrives(m)
  BY <1>4, ServerStep
<1> QED BY <1>1, <1>2, <1>3, <1>4 DEF Next

LEMMA StutterStep == ASSUME IInv, UNCHANGED vars PROVE IInv'
<1>1. UNCHANGED <<rows, late, anchor, store, me, logins, at, armed, waiting, minted, faults>>
  BY DEF vars, server, disk, session, runtime
<1> QED BY <1>1 DEF IInv, Types, TypeOK, Stage, Recorded, ArmedIsRecorded, Known, OneIdentity

\* The invariant behind enrollment's properties.
THEOREM Invariance == Spec => []IInv
<1>1. IInv /\ [Next]_vars => IInv'
  BY NextStep, StutterStep
<1> QED BY <1>1, Initially, PTL DEF Spec

\* Every variable keeps its type: no crash, failed write or late reply leaves a record or
\* an anchor that is neither whole nor absent.
THEOREM TypeCorrect == Spec => []TypeOK
<1>1. IInv => TypeOK
  BY DEF IInv, Types
<1> QED BY <1>1, Invariance, PTL

\* An anchor beside a record is the one the record was published from, at every step
\* of any operation, crash or failed write.
THEOREM IdentityTheorem == Spec => []OneIdentity
<1>1. IInv => OneIdentity
  BY DEF IInv
<1> QED BY <1>1, Invariance, PTL

\* The helper runs only with the approved, completed identity of the user logged in.
THEOREM ArmedTheorem == Spec => []ArmedIsRecorded
<1>1. IInv => ArmedIsRecorded
  BY DEF IInv, Recorded
<1> QED BY <1>1, Invariance, PTL

-----------------------------------------------------------------------------
(* What a step may do to the disk.                                         *)

\* The key on disk stays, and what changes is the user's.
Steady ==
  /\ Identity' = Identity /\ minted' = minted
  /\ anchor' = anchor \/ anchor = None \/ anchor.owner = me
  /\ store' = store \/ store = None \/ store.owner = me

\* The operations that may give an identity up, and the one that mints it.
Deciding == Prepare \/ Revoke \/ Recheck \/ Verify

LEMMA ConnectSteady == ASSUME IInv, Connect PROVE Steady
<1>1. TypeOK /\ me # None /\ minted' = minted /\ (anchor # None => anchor.owner = me)
  BY DEF IInv, Types, Connect, AllMine
<1>2. CASE store # None /\ anchor # None /\ PutAnchor(None, FirstRead)
  <2>1. anchor' \in {anchor, None} /\ store' = store
    BY <1>2 DEF PutAnchor
  <2> QED BY <1>1, <1>2, <2>1 DEF Steady, Identity, IInv, OneIdentity
<1>3. CASE UNCHANGED disk
  BY <1>1, <1>3 DEF disk, Steady, Identity
<1>4. CASE anchor # None /\ PutAnchor([anchor EXCEPT !.login = logins], "list")
  <2>1. anchor \in Anchor
    BY <1>1, <1>4 DEF TypeOK
  <2> DEFINE a == [anchor EXCEPT !.login = logins]
  <2>2. a.key = anchor.key /\ a # None
    <3>1. logins \in 1..MaxLogins
      BY <1>1 DEF IInv, Types, TypeOK
    <3> QED BY <2>1, <3>1, AnchorFields
  <2> HIDE DEF a
  <2>3. anchor' \in {anchor, a} /\ store' = store
    BY <1>4 DEF PutAnchor, a
  <2> QED BY <1>1, <1>4, <2>2, <2>3 DEF Steady, Identity
<1> QED BY <1>2, <1>3, <1>4 DEF Connect, GoTo

LEMMA EnrollSteady == ASSUME IInv, List \/ Create \/ Confirm \/ ClearAnchor PROVE Steady
<1>1. minted' = minted
  BY DEF List, Create, Confirm, ClearAnchor
<1>2. CASE List \/ Create
  <2>1. TypeOK /\ anchor \in Anchor /\ anchor # None /\ anchor.owner = me /\ store = None
    BY <1>2, UnderWay DEF List, Create
  <2>2. UNCHANGED disk \/ Bind("confirm")
    BY <1>2 DEF List, Create, GoTo
  <2>3. "confirm" \in Points
    BY DEF Points, Awaits
  <2> QED BY <1>1, <2>1, <2>2, <2>3, Binds DEF disk, Steady, Identity
<1>3. CASE Confirm
  <2>1. anchor # None /\ anchor' = anchor /\ store = None
    BY <1>3, UnderWay DEF Confirm, GoTo, PutStore, disk
  <2> QED BY <1>1, <2>1 DEF Steady, Identity
<1>4. CASE ClearAnchor
  <2>1. anchor # None /\ anchor.owner = me /\ store # None
    BY <1>4 DEF ClearAnchor, IInv, Stage
  <2>2. anchor' \in {anchor, None} /\ store' = store
    BY <1>4 DEF ClearAnchor, PutAnchor
  <2> QED BY <1>1, <2>1, <2>2 DEF Steady, Identity, IInv, OneIdentity
<1> QED BY <1>2, <1>3, <1>4

\* A record that is rewritten keeps its key.
LEMMA RewriteSteady ==
  ASSUME IInv, store # None, store.owner = me, minted' = minted, anchor' = anchor,
         store' \in Record, store'.key = store.key
  PROVE  Steady
<1>1. store' # None
  BY RecordFields
<1> QED BY <1>1 DEF Steady, Identity

LEMMA RefreshSteady ==
  ASSUME IInv, ReadStatus \/ ReadExists \/ Refresh \/ Approved \/ Gone
  PROVE  Steady
<1>1. store \in Record /\ store # None /\ store.owner = me /\ minted' = minted
  BY UnderWay DEF ReadStatus, ReadExists, Refresh, Approved, Gone, IInv, Types, TypeOK, Recorded,
     ArmedIsRecorded
<1>2. Refresh => ~store.revoked
  BY UnderWay DEF Refresh
<1>3. \/ UNCHANGED disk
      \/ \E r \in {store, Terminal(store), [store EXCEPT !.pending = FALSE]} :
           anchor' = anchor /\ store' = r
      \/ ~store.revoked /\ \E b \in BOOLEAN :
           anchor' = anchor /\ store' \in {store, [store EXCEPT !.pending = b]}
  BY <1>2 DEF ReadStatus, ReadExists, Refresh, Approved, Gone, GoTo, PutStore
<1>4. CASE UNCHANGED disk
  BY <1>1, <1>4 DEF disk, Steady, Identity
<1>5. CASE \E r \in {store, Terminal(store), [store EXCEPT !.pending = FALSE]} :
             anchor' = anchor /\ store' = r
  <2>1. [store EXCEPT !.pending = FALSE].key = store.key
    BY <1>1 DEF Record
  <2> QED BY <1>1, <1>5, <2>1, RecordFields, RewriteSteady
<1>6. CASE ~store.revoked /\ \E b \in BOOLEAN :
             anchor' = anchor /\ store' \in {store, [store EXCEPT !.pending = b]}
  <2>1. \A b \in BOOLEAN : [store EXCEPT !.pending = b].key = store.key
    BY <1>1 DEF Record
  <2> QED BY <1>1, <1>6, <2>1, RecordFields, RewriteSteady
<1> QED BY <1>3, <1>4, <1>5, <1>6

LEMMA DiskSteady ==
  ASSUME \/ Gate \/ Arm \/ Remove \/ Inspect \/ Forsake \/ GiveUp \/ Crash \/ Disconnect \/ Logout
         \/ \E u \in Users : Login(u)
         \/ \E k \in Keys : Administrator(k)
         \/ \E m \in late : Arrives(m)
  PROVE  Steady
<1>1. UNCHANGED <<disk, minted>>
  BY DEF Gate, Arm, Remove, Inspect, Forsake, GiveUp, Crash, Disconnect, Logout, Login,
         Administrator, Administered, Arrives, GoTo
<1> QED BY <1>1 DEF disk, Steady, Identity

LEMMA OthersSteady == ASSUME IInv, Next, ~Deciding PROVE Steady
BY ConnectSteady, EnrollSteady, RefreshSteady, DiskSteady DEF Next, Flow, Deciding

\* A key is minted on an empty disk.
LEMMA PrepareEffect ==
  ASSUME IInv, Prepare
  PROVE  /\ Identity = None /\ anchor = None /\ store = None /\ store' = store /\ rows' = rows
         /\ \/ Identity' = None /\ minted' = minted
            \/ \E k \in Keys \ minted : Identity' = k /\ minted' = minted \cup {k}
<1>1. anchor = None /\ store = None /\ store' = None /\ rows' = rows /\ me \in Users
      /\ me # None /\ TypeOK /\ logins # 0
  BY DEF Prepare, PutAnchor, server, IInv, Types, TypeOK, Stage
<1>2. PICK k \in Keys \ minted :
        /\ PutAnchor([owner |-> me, key |-> k, login |-> logins, bound |-> FALSE], "list")
        /\ minted' = IF anchor' = None THEN minted ELSE minted \cup {k}
  BY DEF Prepare
<1> DEFINE a == [owner |-> me, key |-> k, login |-> logins, bound |-> FALSE]
<1>3. a.key = k
  OBVIOUS
<1> HIDE DEF a
<1>4. anchor' \in {None, a}
  BY <1>1, <1>2 DEF PutAnchor, a
<1> QED BY <1>1, <1>2, <1>3, <1>4 DEF Identity

\* An abandoned key is dropped only when the server admits it no more.
LEMMA AbandonEffect ==
  ASSUME IInv, Recheck \/ Verify
  PROVE  /\ anchor # None /\ anchor.owner = me /\ store' = store
         /\ minted' = minted /\ rows' = rows
         /\ \/ Identity' = Identity
            \/ Identity' = None /\ Identity \in minted /\ ~Live(Identity)
<1>1. /\ TypeOK /\ anchor \in Anchor /\ anchor # None /\ anchor.owner = me /\ store = None
  BY UnderWay DEF Recheck, Verify
<1>2. minted' = minted /\ rows' = rows
  BY DEF Recheck, Verify, server
<1>3. Live(anchor.key) => Ours(anchor.key, me)
  BY <1>1 DEF IInv, Known, Ours, OursIn, Live, LiveIn
<1>4. \/ UNCHANGED disk
      \/ ~Ours(anchor.key, me) /\ anchor' \in {anchor, None} /\ store' = store
  BY DEF Recheck, Verify, GoTo, PutAnchor, Revocable
<1>5. Identity = anchor.key /\ anchor.key \in minted
  BY <1>1 DEF Identity, IInv, Known
<1> QED BY <1>1, <1>2, <1>3, <1>4, <1>5 DEF disk, Identity

\* A record is dropped only once the server admits its key no more.
LEMMA RevokeEffect ==
  ASSUME IInv, Revoke
  PROVE  /\ store # None /\ store.owner = me /\ anchor' = anchor /\ minted' = minted
         /\ store.key \in minted /\ store.key \in Keys /\ Identity = store.key
         /\ \/ rows' = rows
            \/ /\ Live(store.key) /\ rows'[store.key].status = "revoked"
               /\ rows[store.key].owner = me
               /\ \A j \in Keys \ {store.key} : rows'[j] = rows[j]
         /\ \/ Identity' = Identity
            \/ Identity' = None /\ ~LiveIn(rows', store.key)
<1>1. /\ store \in Record /\ store # None /\ store.owner = me /\ me \in Users
      /\ store.key \in Keys /\ store.key \in minted /\ at = "revoke"
  BY RecordFields DEF Revoke, IInv, Types, TypeOK, Stage, Known
<1>2. PICK r \in Revoked(Asked("revoke", store.key)) :
        rows' = r /\ IF LiveIn(r, store.key) THEN GoTo("idle") ELSE PutStore(None, "idle")
  BY DEF Revoke
<1>3. \/ UNCHANGED disk
      \/ ~LiveIn(rows', store.key) /\ anchor' = anchor /\ store' \in {store, None}
  BY <1>2 DEF GoTo, PutStore
<1>4. Identity = store.key
  BY <1>1 DEF Identity, IInv, OneIdentity
<1>5. anchor' = anchor /\ (Identity' = Identity \/ (Identity' = None /\ ~LiveIn(rows', store.key)))
  BY <1>3 DEF disk, Identity
<1>6. \/ rows' = rows
      \/ /\ Live(store.key) /\ rows'[store.key].status = "revoked"
         /\ rows[store.key].owner = me
         /\ \A j \in Keys \ {store.key} : rows'[j] = rows[j]
  BY <1>1, <1>2, Revoking
<1> QED BY <1>1, <1>4, <1>5, <1>6 DEF Revoke

LEMMA DecidingEffect ==
  ASSUME IInv, Deciding
  PROVE  /\ anchor' = anchor \/ anchor = None \/ anchor.owner = me
         /\ store' = store \/ store = None \/ store.owner = me
         /\ Identity # None /\ Identity' # Identity => at \in {"revoke", "recheck", "verify"}
<1>1. CASE Prepare
  BY <1>1, PrepareEffect
<1>2. CASE Revoke
  BY <1>2, RevokeEffect DEF Revoke
<1>3. CASE Recheck \/ Verify
  BY <1>3, AbandonEffect DEF Recheck, Verify
<1> QED BY <1>1, <1>2, <1>3 DEF Deciding

-----------------------------------------------------------------------------
(* What a step may do to the server.                                       *)

\* One row changes: the key is admitted, admitted no more, or neither.
RowChange(k) ==
  /\ \A j \in Keys \ {k} : rows'[j] = rows[j]
  /\ \/ /\ rows[k].status = "none" /\ rows'[k].status \in {"pending", "active"} /\ k \in minted
     \/ Live(k) /\ rows'[k].status = "revoked"
     \/ Live(k) /\ rows'[k].status \in {"pending", "active"}
     \/ rows[k].status = "revoked" /\ rows'[k].status = "deleted"

\* An operation changes no row but the user's.
RowEffect ==
  \/ rows' = rows
  \/ \E k \in Keys : RowChange(k) /\ (at' = at \/ rows[k].owner \in {None, me})

LEMMA CreateRows ==
  ASSUME IInv, NEW m \in Request, m.key \in minted, rows' \in Created(m)
  PROVE  rows' = rows \/ \E k \in Keys : RowChange(k) /\ rows[k].owner = None
<1>1. rows \in [Keys -> Row] /\ m.key \in Keys
  BY DEF IInv, Types, TypeOK, Request
<1>2. CASE rows' # rows
  <2>1. RowChange(m.key) /\ rows[m.key].status = "none"
    BY <1>1, <1>2, CreatedRows DEF RowChange
  <2> QED BY <1>1, <2>1 DEF IInv, Known
<1> QED BY <1>2

LEMMA RevokeRows ==
  ASSUME IInv, NEW m \in Request, rows' \in Revoked(m)
  PROVE  rows' = rows \/ \E k \in Keys : RowChange(k) /\ rows[k].owner = m.user
<1>1. rows \in [Keys -> Row] /\ m.key \in Keys
  BY DEF IInv, Types, TypeOK, Request
<1>2. CASE rows' # rows
  <2>1. RowChange(m.key) /\ rows[m.key].owner = m.user
    BY <1>1, <1>2, RevokedRows DEF RowChange
  <2> QED BY <1>1, <2>1
<1> QED BY <1>2

LEMMA NextRows == ASSUME IInv, Next PROVE RowEffect
<1>1. CASE Create
  <2>1. me \in Users /\ anchor # None /\ anchor.key \in Keys /\ anchor.key \in minted
    BY <1>1, UnderWay, AnchorFields DEF Create, IInv, Known
  <2>2. rows' \in Created(Asked("create", anchor.key))
    BY <1>1 DEF Create
  <2> QED BY <2>1, <2>2, AskedIn, CreateRows DEF RowEffect
<1>2. CASE Revoke \/ Forsake
  <2>1. CASE Revoke
    <3>1. me \in Users /\ store.key \in Keys
      BY <2>1, RecordFields DEF Revoke, IInv, Types, TypeOK, Stage
    <3>2. rows' \in Revoked(Asked("revoke", store.key))
      BY <2>1 DEF Revoke
    <3> QED BY <3>1, <3>2, AskedIn, RevokeRows DEF RowEffect
  <2>2. CASE Forsake
    <3>1. me \in Users /\ anchor.key \in Keys
      BY <2>2, UnderWay, AnchorFields DEF Forsake
    <3>2. rows' \in Revoked(Asked("revoke", anchor.key))
      BY <2>2 DEF Forsake
    <3> QED BY <3>1, <3>2, AskedIn, RevokeRows DEF RowEffect
  <2> QED BY <1>2, <2>1, <2>2
<1>3. CASE \E m \in late : Arrives(m)
  <2>1. PICK m \in late : Arrives(m)
    BY <1>3
  <2>2. m \in Request /\ m.key \in minted /\ at' = at /\ rows' \in Served(m)
    BY <2>1 DEF IInv, Types, TypeOK, Known, Arrives
  <2>3. rows' \in Created(m) \/ rows' \in Revoked(m)
    BY <2>2 DEF Served
  <2> QED BY <2>2, <2>3, CreateRows, RevokeRows DEF RowEffect
<1>4. CASE \E k \in Keys : Administrator(k)
  <2>1. PICK k \in Keys : Administrator(k)
    BY <1>4
  <2>2. at' = at
    BY <2>1 DEF Administrator, Administered
  <2>3. PICK s \in Status, t \in Status :
          /\ rows[k].status = s /\ rows' = [rows EXCEPT ![k].status = t]
          /\ <<s, t>> \in {<<"pending", "active">>, <<"pending", "revoked">>, <<"active", "revoked">>,
                           <<"revoked", "deleted">>}
    BY <2>1 DEF Administrator, Administered, Status
  <2>4. RowChange(k)
    <3>1. rows \in [Keys -> Row]
      BY DEF IInv, Types, TypeOK
    <3>2. rows'[k].status = t /\ \A j \in Keys \ {k} : rows'[j] = rows[j]
      BY <2>3, <3>1 DEF Row
    <3> QED BY <2>3, <3>2 DEF RowChange, Live, LiveIn
  <2> QED BY <2>2, <2>4 DEF RowEffect
<1>5. CASE ~(Create \/ Revoke \/ Forsake \/ (\E m \in late : Arrives(m))
             \/ \E k \in Keys : Administrator(k))
  BY <1>5 DEF Next, Flow, Connect, Remove, Approved, Gone, GiveUp, Crash, Disconnect, Logout, Login,
     Prepare, List, Confirm, ClearAnchor, ReadStatus, ReadExists, Refresh, Gate, Arm, Inspect,
     Recheck, Verify, server, RowEffect
<1> QED BY <1>1, <1>2, <1>3, <1>4, <1>5

-----------------------------------------------------------------------------
(* The action properties and the refinement.                               *)

\* What one user left on disk and at the server, another user's operations leave alone.
THEOREM ForeignTheorem == Spec => ForeignUntouched
<1>1. ASSUME IInv, [Next]_vars
      PROVE  [/\ anchor # None /\ anchor.owner # me => anchor' = anchor
              /\ store # None /\ store.owner # me => store' = store
              /\ \A k \in Keys : at' # at /\ rows[k].owner \notin {None, me}
                   => rows'[k] = rows[k]]_vars
  <2> SUFFICES ASSUME Next
               PROVE  /\ anchor # None /\ anchor.owner # me => anchor' = anchor
                      /\ store # None /\ store.owner # me => store' = store
                      /\ \A k \in Keys : at' # at /\ rows[k].owner \notin {None, me}
                           => rows'[k] = rows[k]
    BY <1>1
  <2>1. /\ anchor' = anchor \/ anchor = None \/ anchor.owner = me
        /\ store' = store \/ store = None \/ store.owner = me
    BY <1>1, OthersSteady, DecidingEffect DEF Steady
  <2>2. RowEffect
    BY <1>1, NextRows
  <2> QED BY <2>1, <2>2 DEF RowEffect, RowChange
<1> QED BY <1>1, Invariance, PTL DEF Spec, ForeignUntouched

\* No answer of the server makes a machine forget its identity, only a removal does.
THEOREM ForgetTheorem == Spec => OnlyRemovalForgets
<1>1. ASSUME IInv, [Next]_vars
      PROVE  [Identity # None /\ Identity' # Identity => at \in {"revoke", "recheck", "verify"}]_vars
  <2> SUFFICES ASSUME Next, Identity # None, Identity' # Identity
               PROVE  at \in {"revoke", "recheck", "verify"}
    BY <1>1
  <2> QED BY <1>1, OthersSteady, DecidingEffect DEF Steady
<1> QED BY <1>1, Invariance, PTL DEF Spec, OnlyRemovalForgets

LEMMA AdmittedChange ==
  ASSUME IInv, NEW k \in Keys, RowChange(k)
  PROVE  \/ /\ k \in minted /\ k \notin RetiredNow
            /\ Admitted' = Admitted \cup {k} /\ RetiredNow' = RetiredNow
         \/ /\ k \in Admitted /\ rows'[k].status = "revoked"
            /\ Admitted' = Admitted \ {k} /\ RetiredNow' = RetiredNow \cup {k}
         \/ Admitted' = Admitted /\ RetiredNow' = RetiredNow
<1>1. \A j \in Keys : /\ j \in Admitted <=> rows[j].status \in {"pending", "active"}
                      /\ j \in RetiredNow <=> rows[j].status \in {"revoked", "deleted"}
  BY DEF Admitted, RetiredNow, Live, LiveIn
<1>2. \A j \in Keys : /\ j \in Admitted' <=> rows'[j].status \in {"pending", "active"}
                      /\ j \in RetiredNow' <=> rows'[j].status \in {"revoked", "deleted"}
  BY DEF Admitted, RetiredNow, Live, LiveIn
<1>3. Admitted \subseteq Keys /\ RetiredNow \subseteq Keys
      /\ Admitted' \subseteq Keys /\ RetiredNow' \subseteq Keys
  BY DEF Admitted, RetiredNow
<1>4. CASE rows[k].status = "none" /\ rows'[k].status \in {"pending", "active"} /\ k \in minted
  BY <1>1, <1>2, <1>3, <1>4 DEF RowChange
<1>5. CASE Live(k) /\ rows'[k].status = "revoked"
  <2>1. Admitted' = Admitted \ {k}
    BY <1>1, <1>2, <1>3, <1>5 DEF RowChange
  <2>2. RetiredNow' = RetiredNow \cup {k}
    BY <1>1, <1>2, <1>3, <1>5 DEF RowChange
  <2>3. k \in Admitted
    BY <1>5 DEF Admitted
  <2> QED BY <1>5, <2>1, <2>2, <2>3
<1>6. CASE Live(k) /\ rows'[k].status \in {"pending", "active"}
  BY <1>1, <1>2, <1>3, <1>6 DEF RowChange, Live, LiveIn
<1>7. CASE rows[k].status = "revoked" /\ rows'[k].status = "deleted"
  BY <1>1, <1>2, <1>3, <1>7 DEF RowChange
<1> QED BY <1>4, <1>5, <1>6, <1>7 DEF RowChange

LEMMA IdentityMinted ==
  ASSUME IInv
  PROVE  /\ Identity # None => Identity \in minted /\ Identity \in Keys
         /\ Admitted \cup RetiredNow \subseteq minted /\ minted \subseteq Keys
<1>1. Identity # None => Identity \in minted
  BY DEF Identity, IInv, Known
<1>2. Admitted \cup RetiredNow \subseteq minted
  BY DEF Admitted, RetiredNow, Live, LiveIn, IInv, Known
<1> QED BY <1>1, <1>2 DEF IInv, Types, TypeOK

\* An enrollment starts where the promise does.
LEMMA PromiseStart == Init => Promise!PromiseInit
<1> SUFFICES ASSUME Init PROVE Promise!PromiseInit
  OBVIOUS
<1>1. \A k \in Keys : rows[k].status = "none"
  BY DEF Init
<1>2. Admitted = {} /\ RetiredNow = {}
  BY <1>1 DEF Admitted, RetiredNow, Live, LiveIn
<1> QED BY <1>2 DEF Init, Promise!PromiseInit, Identity

\* A row that changes under an identity that stays is an admission or a retirement.
LEMMA PromiseRows ==
  ASSUME IInv, Identity' = Identity, minted' = minted, RowEffect
  PROVE  [Promise!IdentityNext]_(Promise!promise)
<1> USE DEF Promise!promise
<1>1. CASE rows' = rows
  <2>1. Admitted' = Admitted /\ RetiredNow' = RetiredNow
    BY <1>1 DEF Admitted, RetiredNow, Live, LiveIn
  <2> QED BY <2>1
<1>2. CASE \E k \in Keys : RowChange(k)
  <2>1. PICK k \in Keys : RowChange(k)
    BY <1>2
  <2>2. CASE /\ k \in minted /\ k \notin RetiredNow
             /\ Admitted' = Admitted \cup {k} /\ RetiredNow' = RetiredNow
    <3>1. Promise!Admit(k)
      BY <2>2 DEF Promise!Admit
    <3> QED BY <3>1 DEF Promise!IdentityNext
  <2>3. CASE /\ k \in Admitted
             /\ Admitted' = Admitted \ {k} /\ RetiredNow' = RetiredNow \cup {k}
    <3>1. Promise!Retire(k)
      BY <2>3 DEF Promise!Retire, Promise!Retired
    <3> QED BY <3>1 DEF Promise!IdentityNext
  <2>4. CASE Admitted' = Admitted /\ RetiredNow' = RetiredNow
    BY <2>4
  <2> QED BY <2>1, <2>2, <2>3, <2>4, AdmittedChange
<1> QED BY <1>1, <1>2 DEF RowEffect

\* An identity the server does not admit is dropped.
LEMMA PromiseForget ==
  ASSUME IInv, Identity # None, Identity' = None, minted' = minted, rows' = rows, ~Live(Identity)
  PROVE  Promise!IdentityNext
<1>1. Admitted' = Admitted /\ RetiredNow' = RetiredNow
  BY DEF Admitted, RetiredNow, Live, LiveIn
<1>2. Identity \in minted /\ Identity \notin Admitted /\ None \notin minted
  BY IdentityMinted, NoneIsNo DEF Admitted
<1>3. Promise!Forget
  BY <1>1, <1>2 DEF Promise!Forget
<1> QED BY <1>3 DEF Promise!IdentityNext

LEMMA PromiseStep == ASSUME IInv, Next PROVE [Promise!IdentityNext]_(Promise!promise)
<1>1. RowEffect
  BY NextRows
<1>2. CASE Identity' = Identity /\ minted' = minted
  BY <1>1, <1>2, PromiseRows
<1>3. CASE Prepare /\ ~(Identity' = Identity /\ minted' = minted)
  <2>1. PICK k \in Keys \ minted : Identity' = k /\ minted' = minted \cup {k}
    BY <1>3, PrepareEffect
  <2>2. Identity = None /\ rows' = rows
    BY <1>3, PrepareEffect
  <2>3. Admitted' = Admitted /\ RetiredNow' = RetiredNow
    BY <2>2 DEF Admitted, RetiredNow, Live, LiveIn
  <2>4. None \notin minted
    BY IdentityMinted, NoneIsNo
  <2>5. Promise!Mint(k)
    BY <2>1, <2>2, <2>3, <2>4, IdentityMinted DEF Promise!Mint
  <2> QED BY <2>5 DEF Promise!IdentityNext
<1>4. CASE (Recheck \/ Verify) /\ ~(Identity' = Identity /\ minted' = minted)
  <2>1. /\ Identity' = None /\ Identity \in minted /\ ~Live(Identity)
        /\ minted' = minted /\ rows' = rows
    BY <1>4, AbandonEffect
  <2>2. Identity # None
    BY <2>1, IdentityMinted, NoneIsNo
  <2> QED BY <2>1, <2>2, PromiseForget
<1>5. CASE Revoke /\ ~(Identity' = Identity /\ minted' = minted)
  <2> DEFINE k == store.key
  <2>1. /\ Identity' = None /\ minted' = minted /\ Identity = k /\ k \in Keys /\ k \in minted
        /\ ~LiveIn(rows', k) /\ k # None
        /\ \/ rows' = rows
           \/ /\ Live(k) /\ rows'[k].status = "revoked"
              /\ \A j \in Keys \ {k} : rows'[j] = rows[j]
    BY <1>5, RevokeEffect, NoneIsNo
  <2> HIDE DEF k
  <2>2. CASE rows' = rows
    BY <2>1, <2>2, PromiseForget DEF Live
  <2>3. CASE /\ Live(k) /\ rows'[k].status = "revoked"
             /\ \A j \in Keys \ {k} : rows'[j] = rows[j]
    <3>1. RowChange(k)
      BY <2>3 DEF RowChange
    <3>2. k \in Admitted /\ k \notin Admitted'
      BY <2>1, <2>3 DEF Admitted, Live, LiveIn
    <3>3. Admitted' = Admitted \ {k} /\ RetiredNow' = RetiredNow \cup {k}
      BY <2>1, <3>1, <3>2, AdmittedChange
    <3>4. None \notin minted
      BY IdentityMinted, NoneIsNo
    <3>5. Promise!Remove(k)
      BY <2>1, <3>2, <3>3, <3>4 DEF Promise!Remove, Promise!Retired
    <3> QED BY <2>1, <3>5 DEF Promise!IdentityNext
  <2> QED BY <2>1, <2>2, <2>3
<1>6. CASE ~Deciding
  BY <1>1, <1>6, OthersSteady, PromiseRows DEF Steady
<1> QED BY <1>2, <1>3, <1>4, <1>5, <1>6 DEF Deciding

\* Enrollment keeps the promise of DeviceIdentity: whatever crashes, lost replies, failed
\* writes and late requests happen, one identity at a time, none given up while admitted.
THEOREM Refinement == Spec => ImplementsIdentity
<1>1. ASSUME IInv, [Next]_vars PROVE [Promise!IdentityNext]_(Promise!promise)
  <2>1. CASE Next
    BY <1>1, <2>1, PromiseStep
  <2>2. CASE UNCHANGED vars
    BY <2>2 DEF vars, server, disk, Promise!promise, Identity, Admitted, RetiredNow, Live, LiveIn
  <2> QED BY <1>1, <2>1, <2>2
<1> QED BY <1>1, Invariance, PromiseStart, PTL DEF Spec, ImplementsIdentity, Promise!IdentitySpec

=============================================================================
