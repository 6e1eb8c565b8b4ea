------------------------- MODULE HostGuard_proofs -------------------------
(***************************************************************************)
(* What HostGuard promises of a teardown, of the resolvers and of the      *)
(* packets that leave, for any network services.  The packets are decided  *)
(* rule by rule: which rule of pf a packet meets last before a quick one,  *)
(* and of which weights WFP has a filter for it.                           *)
(***************************************************************************)
EXTENDS HostGuard, TLAPS

Objects == [base : BOOLEAN, groups : SUBSET Groups, v6 : BOOLEAN,
            scoped : SUBSET {"scoped4", "scoped6"}]

Types ==
  /\ platform \in {"darwin", "windows"} /\ alive \in BOOLEAN /\ armed \in BOOLEAN
  /\ sup \in {"down", "up", "failed"}
  /\ conf \in Configs /\ wfp \in Objects /\ (~wfp.base => wfp.groups = {})
  /\ dns \in Resolvers /\ backup \in Resolvers \cup {NoBackup}

\* A process that does not run holds nothing; what a teardown said, it said at its end.
Pace ==
  /\ ~alive => sup = "down" /\ step = "idle"
  /\ said = "ok" => alive /\ sup = "down" /\ step = "idle"

AllOwn == \A s \in Services : dns[s] = "own"

\* On Windows nothing but the filters is touched, and a bring-up that came past its cleaning
\* unarmed left none, unless the cleaning failed.
Windows ==
  platform = "windows" =>
    /\ ~anchor.on /\ AllOwn /\ backup = NoBackup
    /\ alive /\ (sup # "down" \/ step \in {"arm", "device", "release"}) /\ ~armed =>
         "ignored" \in blamed \/ ~wfp.base

\* A backup holds the user's own resolvers, and there is one before they are replaced.
Mac ==
  platform = "darwin" =>
    /\ wfp.groups = {}
    /\ step \in {"allow", "backup", "apply"} => conf.full
    /\ blamed \cap Losses = {} =>
         /\ backup # NoBackup => \A s \in Services : backup[s] = "own"
         /\ step = "apply" => backup # NoBackup
         /\ conf.full /\ step \in {"clean", "arm", "device", "allow", "routes", "backup"} => AllOwn
         /\ step = "release" => AllOwn

IInv == Types /\ Pace /\ Windows /\ Mac /\ OkMeansFree /\ ResolverKept

LEMMA Initially == Init => IInv
<1> SUFFICES ASSUME Init PROVE IInv
  OBVIOUS
<1>1. NoObjects \in Objects /\ ~NoObjects.base /\ NoObjects.groups = {} /\ ~NoRules.on
  BY DEF NoObjects, NoRules, Objects
<1>2. dns \in Resolvers /\ AllOwn
  BY DEF Init, Resolvers, AllOwn
<1>3. Types
  BY <1>1, <1>2 DEF Init, Types, Configs
<1>4. Pace /\ Windows /\ Mac
  BY <1>1, <1>2 DEF Init, Pace, Windows, Mac
<1>5. OkMeansFree /\ ResolverKept
  BY <1>1, <1>2 DEF Init, OkMeansFree, ResolverKept, Kept, AllOwn
<1> QED BY <1>3, <1>4, <1>5 DEF IInv

\* Cleaning leaves less, and without the provider and the sublayer nothing.
LEMMA CleanedObjects ==
  ASSUME wfp \in Objects, ~wfp.base => wfp.groups = {}, NEW w \in Cleaned(wfp)
  PROVE  /\ w \in Objects /\ (~w.base => w.groups = {}) /\ w.groups \subseteq wfp.groups
         /\ ~wfp.base => ~w.base
<1>1. CASE ~wfp.base
  BY <1>1 DEF Cleaned
<1>2. CASE w = NoObjects
  BY <1>2 DEF NoObjects, Objects
<1>3. CASE wfp.base /\ w # NoObjects
  <2>1. PICK left \in SUBSET wfp.groups : w = [wfp EXCEPT !.groups = left]
    BY <1>3 DEF Cleaned
  <2> QED BY <1>3, <2>1 DEF Objects
<1> QED BY <1>1, <1>2, <1>3

-----------------------------------------------------------------------------
(* Windows.                                                                *)

\* A step on Windows, and what it must establish.
LEMMA WindowsStep ==
  ASSUME IInv, platform = "windows", UNCHANGED <<platform, darwin>>,
         alive' \in BOOLEAN, armed' \in BOOLEAN, sup' \in {"down", "up", "failed"},
         conf' \in Configs, wfp' \in Objects, ~wfp'.base => wfp'.groups = {}, Pace', Windows',
         said' = "ok" /\ "ignored" \notin blamed' => wfp'.groups = {}
  PROVE  IInv'
<1>1. Types'
  BY DEF IInv, Types, darwin
<1>2. Mac' /\ ResolverKept'
  BY DEF IInv, Windows, Mac, AllOwn, ResolverKept, Kept, darwin
<1>3. OkMeansFree'
  BY DEF IInv, Windows, OkMeansFree, darwin
<1> QED BY <1>1, <1>2, <1>3 DEF IInv

LEMMA WinCleanStep == ASSUME IInv, WinClean PROVE IInv'
<1>1. PICK w \in Cleaned(wfp) : wfp' = w /\ blamed' = Blame("ignored", w.base)
  BY DEF WinClean
<1>2. /\ w \in Objects /\ (~w.base => w.groups = {})
  BY CleanedObjects DEF IInv, Types
<1>3. Pace'
  BY DEF WinClean, At, IInv, Pace
<1>4. Windows'
  BY <1>1 DEF WinClean, At, IInv, Windows, AllOwn, Blame, darwin
<1> QED BY <1>1, <1>2, <1>3, <1>4, WindowsStep DEF WinClean, At, IInv, Types, Pace

LEMMA WinArmStep == ASSUME IInv, WinArm PROVE IInv'
<1>1. PICK w \in Cleaned(wfp) :
       \/ /\ wfp' = Whole(conf.v6) /\ armed' = TRUE /\ step' = "device"
       \/ wfp' = w /\ armed' = armed /\ step' = "idle" /\ blamed' = Blame("ignored", w.base)
  BY DEF WinArm
<1>2. /\ w \in Objects /\ (~w.base => w.groups = {})
  BY CleanedObjects DEF IInv, Types
<1>3. /\ alive /\ platform = "windows" /\ step = "arm"
      /\ UNCHANGED <<platform, alive, sup, conf, darwin, said>>
  BY DEF WinArm, At
<1>4. said # "ok" /\ alive \in BOOLEAN /\ armed \in BOOLEAN /\ conf \in Configs
  BY <1>3 DEF IInv, Pace, Types
<1>5. Whole(conf.v6) \in Objects /\ Whole(conf.v6).base
  BY <1>4 DEF Whole, Objects, Groups, Configs
<1>6. Pace'
  BY <1>3, <1>4 DEF Pace
<1>7. Windows'
  BY <1>1, <1>3, <1>5 DEF IInv, Windows, AllOwn, Blame, darwin
<1> QED BY <1>1, <1>2, <1>3, <1>4, <1>5, <1>6, <1>7, WindowsStep
       DEF IInv, Types

LEMMA WinDeviceStep == ASSUME IInv, WinDevice PROVE IInv'
<1>1. /\ alive /\ platform = "windows" /\ step = "device" /\ step' = "idle"
      /\ sup' \in {"up", "failed"}
      /\ UNCHANGED <<platform, alive, conf, armed, wfp, darwin, said, blamed>>
  BY DEF WinDevice, At, windows
<1>2. said # "ok"
  BY <1>1 DEF IInv, Pace
<1>3. Pace'
  BY <1>1, <1>2 DEF Pace
<1>4. Windows'
  BY <1>1 DEF IInv, Windows, AllOwn, darwin
<1> QED BY <1>1, <1>2, <1>3, <1>4, WindowsStep DEF IInv, Types

LEMMA SetResolversStep ==
  ASSUME IInv, NEW a \in SUBSET {"scoped4", "scoped6"}, SetResolvers(a)
  PROVE  IInv'
<1>1. /\ alive /\ platform = "windows" /\ step = "idle" /\ sup = "up"
      /\ UNCHANGED <<platform, alive, sup, step, conf, armed, darwin, said, blamed>>
  BY DEF SetResolvers, At
<1>2. said # "ok" /\ wfp \in Objects /\ (~wfp.base => wfp.groups = {})
  BY <1>1 DEF IInv, Pace, Types
<1>3. wfp' \in Objects /\ wfp'.base = wfp.base /\ (~wfp'.base => wfp'.groups = {})
  <2>1. CASE wfp' = wfp
    BY <1>2, <2>1
  <2>2. CASE wfp' # wfp
    <3> DEFINE g == IF a = {} THEN wfp.groups \ {"scoped"} ELSE wfp.groups \cup {"scoped"}
    <3>1. wfp.base /\ wfp' = [wfp EXCEPT !.scoped = a, !.groups = g]
      BY <2>2 DEF SetResolvers
    <3>2. g \in SUBSET Groups
      BY <1>2 DEF Objects, Groups
    <3> HIDE DEF g
    <3> QED BY <1>2, <3>1, <3>2 DEF Objects
  <2> QED BY <2>1, <2>2
<1>4. Pace'
  BY <1>1, <1>2 DEF Pace
<1>5. Windows'
  BY <1>1, <1>3 DEF IInv, Windows, AllOwn, darwin
<1> QED BY <1>1, <1>2, <1>3, <1>4, <1>5, WindowsStep DEF IInv, Types

\* A teardown removes what is there, or says that it did not.
LEMMA WinDownStep == ASSUME IInv, WinDown PROVE IInv'
<1>1. /\ alive /\ platform = "windows" /\ step = "release" /\ step' = "idle" /\ sup' = "down"
      /\ UNCHANGED <<platform, alive, conf, darwin, blamed>>
  BY DEF WinDown, At
<1>2. wfp \in Objects /\ (~wfp.base => wfp.groups = {}) /\ armed \in BOOLEAN
  BY DEF IInv, Types
<1>3. CASE armed
  <2>1. PICK w \in Cleaned(wfp) :
          wfp' = w /\ armed' = w.base /\ said' = (IF w.base THEN "error" ELSE "ok")
    BY <1>3 DEF WinDown
  <2>2. /\ w \in Objects /\ w.base \in BOOLEAN /\ (~w.base => w.groups = {})
    BY <1>2, CleanedObjects DEF Objects
  <2>3. Pace'
    BY <1>1 DEF Pace
  <2>4. Windows'
    BY <1>1 DEF IInv, Windows, AllOwn, darwin
  <2> QED BY <1>1, <2>1, <2>2, <2>3, <2>4, WindowsStep DEF IInv, Types
<1>4. CASE ~armed
  <2>1. armed' = armed /\ wfp' = wfp
    BY <1>4 DEF WinDown, windows
  <2>2. "ignored" \in blamed \/ ~wfp.base
    BY <1>1, <1>4 DEF IInv, Windows
  <2>3. Pace'
    BY <1>1 DEF Pace
  <2>4. Windows'
    BY <1>1 DEF IInv, Windows, AllOwn, darwin
  <2> QED BY <1>1, <1>2, <2>1, <2>2, <2>3, <2>4, WindowsStep DEF IInv, Types
<1> QED BY <1>2, <1>3, <1>4

LEMMA HatchStep == ASSUME IInv, Hatch PROVE IInv'
<1>1. PICK w \in Cleaned(wfp) : wfp' = w
  BY DEF Hatch
<1>2. /\ w \in Objects /\ (~w.base => w.groups = {}) /\ (~wfp.base => ~w.base)
      /\ w.groups \subseteq wfp.groups
  BY CleanedObjects DEF IInv, Types
<1>3. /\ platform = "windows" /\ blamed' = blamed \cup {"hatch"}
      /\ UNCHANGED <<platform, alive, sup, step, conf, armed, darwin, said>>
  BY DEF Hatch
<1>4. Pace'
  BY <1>3 DEF IInv, Pace
<1>5. Windows'
  BY <1>1, <1>2, <1>3 DEF IInv, Windows, AllOwn, darwin
<1>6. said' = "ok" /\ "ignored" \notin blamed' => wfp'.groups = {}
  BY <1>1, <1>2, <1>3 DEF IInv, OkMeansFree
<1> QED BY <1>1, <1>2, <1>3, <1>4, <1>5, <1>6, WindowsStep DEF IInv, Types

-----------------------------------------------------------------------------
(* macOS.                                                                  *)

\* A step on macOS, and what it must establish.
LEMMA MacStep ==
  ASSUME IInv, platform = "darwin", UNCHANGED <<platform, windows>>,
         alive' \in BOOLEAN, sup' \in {"down", "up", "failed"}, conf' \in Configs,
         dns' \in Resolvers, backup' \in Resolvers \cup {NoBackup}, Pace', Mac', ResolverKept',
         said' = "ok" => ~anchor'.on
  PROVE  IInv'
<1>1. Types' /\ Windows'
  BY DEF IInv, Types, Windows, windows
<1>2. OkMeansFree'
  BY DEF IInv, Mac, OkMeansFree, windows
<1> QED BY <1>1, <1>2 DEF IInv

\* A step of a bring-up that leaves the resolvers alone; a failed one leaves it failed.
LEMMA BringsUp ==
  ASSUME IInv, alive, platform = "darwin",
         UNCHANGED <<platform, alive, conf, windows, said, dns, backup>>,
         step \in {"clean", "arm", "device", "allow", "routes"},
         blamed' \cap Losses = blamed \cap Losses,
         \/ sup' = sup /\ step' \in {"arm", "device", "allow", "routes", "backup"}
              /\ (step' \in {"allow", "backup"} => conf.full)
         \/ sup' \in {"up", "failed"} /\ step' = "idle"
  PROVE  IInv'
<1>1. said # "ok"
  BY DEF IInv, Pace
<1>2. Pace'
  BY <1>1 DEF Pace
<1>3. Mac'
  BY DEF IInv, Mac, AllOwn, windows
<1>4. ResolverKept'
  BY DEF IInv, ResolverKept, Kept
<1> QED BY <1>1, <1>2, <1>3, <1>4, MacStep DEF IInv, Types

LEMMA BringUpStep ==
  ASSUME IInv, MacClean \/ MacArm \/ MacDevice \/ MacAllow \/ MacRoutes
  PROVE  IInv'
<1>1. CASE MacClean
  BY <1>1, BringsUp DEF MacClean, At, Goes, Blame, Losses
<1>2. CASE MacArm
  BY <1>2, BringsUp DEF MacArm, At, Goes, Failed, Loaded, Blame, Losses
<1>3. CASE MacDevice
  BY <1>3, BringsUp DEF MacDevice, At, Goes, Failed
<1>4. CASE MacAllow
  BY <1>4, BringsUp DEF MacAllow, At, Goes, Failed, Loaded, Blame, Losses
<1>5. CASE MacRoutes
  BY <1>5, BringsUp DEF MacRoutes, At, Goes, Failed
<1> QED BY <1>1, <1>2, <1>3, <1>4, <1>5

\* A backup that is not the services' own settings is in the blame.
LEMMA BackupStep == ASSUME IInv, Backup PROVE IInv'
<1>1. /\ alive /\ platform = "darwin" /\ step = "backup" /\ step' = "apply"
      /\ UNCHANGED <<platform, alive, sup, conf, windows, anchor, dns, said>>
      /\ blamed' = IF backup' = dns THEN blamed ELSE blamed \cup {"unsaved"}
  BY DEF Backup, At
<1>2. said # "ok" /\ dns \in Resolvers /\ dns # NoBackup /\ conf.full
  BY <1>1, GuardAssumption DEF IInv, Pace, Types, Mac, Resolvers
<1>3. backup' \in Resolvers \cup {NoBackup}
  <2>1. \A unread \in SUBSET Services : Recorded(unread) \in Resolvers
    BY <1>2 DEF Recorded, Resolvers
  <2> QED BY <2>1 DEF Backup, IInv, Types
<1>4. ASSUME blamed' \cap Losses = {}
      PROVE  backup' = dns /\ blamed \cap Losses = {} /\ AllOwn
  BY <1>1, <1>2, <1>4 DEF Losses, IInv, Mac
<1>5. Pace'
  BY <1>1, <1>2 DEF Pace
<1>6. Mac'
  BY <1>1, <1>2, <1>4 DEF IInv, Mac, AllOwn, windows
<1>7. ResolverKept'
  BY <1>1, <1>2, <1>4 DEF AllOwn, ResolverKept, Kept
<1> QED BY <1>1, <1>2, <1>3, <1>5, <1>6, <1>7, MacStep DEF IInv, Types

\* Whatever part of the services took the tunnel's resolver, the backup has the others.
LEMMA ApplyStep == ASSUME IInv, Apply PROVE IInv'
<1>1. PICK some \in SUBSET Services :
        dns' = [s \in Services |-> IF s \in some THEN "tunnel" ELSE dns[s]]
  BY DEF Apply
<1>2. /\ alive /\ platform = "darwin" /\ step = "apply" /\ step' = "idle"
      /\ \/ sup' = "up" /\ alive' = alive
         \/ sup' = "down" /\ alive' = FALSE
      /\ UNCHANGED <<platform, conf, windows, anchor, backup, said, blamed>>
  BY DEF Apply, At
<1>3. said # "ok" /\ dns \in Resolvers /\ dns' \in Resolvers
  BY <1>1, <1>2 DEF IInv, Pace, Types, Resolvers
<1>4. Pace'
  BY <1>2, <1>3 DEF Pace
<1>5. Mac'
  BY <1>2 DEF IInv, Mac, windows
<1>6. ResolverKept'
  BY <1>2 DEF IInv, Mac, ResolverKept, Kept
<1> QED BY <1>2, <1>3, <1>4, <1>5, <1>6, MacStep DEF IInv, Types

\* A restore gives every service its own resolver back, or says which it could not.
LEMMA RestoredEffect ==
  ASSUME IInv, platform = "darwin", Restored
  PROVE  /\ dns' \in Resolvers /\ backup' = NoBackup
         /\ blamed' \cap Losses = {} =>
              /\ blamed \cap Losses = {}
              /\ AllOwn'
<1>1. CASE backup = NoBackup
  <2>1. UNCHANGED <<dns, backup, blamed>>
    BY <1>1 DEF Restored
  <2> QED BY <1>1, <2>1 DEF IInv, Types, ResolverKept, Kept, AllOwn
<1>2. CASE backup # NoBackup
  <2>1. PICK some \in SUBSET Services :
         /\ dns' = [s \in Services |-> IF s \in some THEN backup[s] ELSE dns[s]]
         /\ backup' = NoBackup
         /\ blamed' = IF some = Services THEN blamed ELSE blamed \cup {"unset"}
    BY <1>2 DEF Restored
  <2>2. dns' \in Resolvers
    BY <1>2, <2>1 DEF IInv, Types, Resolvers
  <2>3. ASSUME blamed' \cap Losses = {}
        PROVE  blamed \cap Losses = {} /\ AllOwn'
    <3>1. some = Services /\ blamed' = blamed
      BY <2>1, <2>3 DEF Losses
    <3>2. \A s \in Services : backup[s] = "own"
      BY <1>2, <2>3, <3>1 DEF IInv, Mac
    <3> QED BY <2>1, <2>3, <3>1, <3>2 DEF AllOwn
  <2> QED BY <2>1, <2>2, <2>3
<1> QED BY <1>1, <1>2

LEMMA MacRestoreStep == ASSUME IInv, MacRestore PROVE IInv'
<1>1. /\ alive /\ platform = "darwin" /\ step = "restore" /\ step' = "release" /\ Restored
      /\ UNCHANGED <<platform, alive, sup, conf, windows, anchor, said>>
  BY DEF MacRestore, At
<1>2. said # "ok"
  BY <1>1 DEF IInv, Pace
<1>3. Pace'
  BY <1>1, <1>2 DEF Pace
<1>4. Mac'
  BY <1>1, RestoredEffect DEF IInv, Mac, windows
<1>5. ResolverKept'
  BY <1>1, RestoredEffect DEF ResolverKept, Kept, AllOwn
<1> QED BY <1>1, <1>2, <1>3, <1>4, <1>5, RestoredEffect, MacStep DEF IInv, Types

LEMMA MacDownStep == ASSUME IInv, MacDown PROVE IInv'
<1>1. PICK after \in Flushes : Released(after) /\ said' = IF after.on THEN "error" ELSE "ok"
  BY DEF MacDown
<1>2. /\ alive /\ platform = "darwin" /\ step = "release" /\ step' = "idle" /\ sup' = "down"
      /\ UNCHANGED <<platform, alive, conf, windows, dns, backup, blamed>>
  BY DEF MacDown, At
<1>3. said' = "ok" => ~anchor'.on
  BY <1>1 DEF Released
<1>4. Pace'
  BY <1>2 DEF Pace
<1>5. Mac'
  BY <1>2 DEF IInv, Mac, windows
<1>6. ResolverKept'
  BY <1>2 DEF IInv, Mac, AllOwn, ResolverKept, Kept
<1> QED BY <1>2, <1>3, <1>4, <1>5, <1>6, MacStep DEF IInv, Types

-----------------------------------------------------------------------------
(* The supervisor's calls, and the process.                                *)

LEMMA UpStep == ASSUME IInv, NEW c \in Configs, Up(c) PROVE IInv'
<1>1. /\ alive /\ step = "idle" /\ sup # "up" /\ step' = "clean" /\ conf' = c /\ said' = "none"
      /\ blamed \subseteq blamed' /\ blamed' \subseteq blamed \cup {"reentered"}
      /\ platform = "darwin" /\ c.full /\ sup = "failed" => "reentered" \in blamed'
      /\ UNCHANGED <<platform, alive, sup, windows, darwin>>
  BY DEF Up
<1>2. Pace'
  BY <1>1 DEF Pace
<1>3. CASE platform = "windows"
  <2>1. Windows'
    BY <1>1 DEF IInv, Windows, AllOwn, darwin, windows
  <2> QED BY <1>1, <1>2, <1>3, <2>1, WindowsStep DEF IInv, Types, windows
<1>4. CASE platform = "darwin"
  <2>1. conf'.full /\ blamed' \cap Losses = {} =>
          blamed \cap Losses = {} /\ sup = "down"
    BY <1>1, <1>4 DEF IInv, Types, Losses
  <2>2. Mac'
    BY <1>1, <2>1 DEF IInv, Mac, ResolverKept, AllOwn, darwin, windows
  <2>3. ResolverKept'
    BY <1>1 DEF IInv, ResolverKept, Kept, darwin
  <2> QED BY <1>1, <1>2, <1>4, <2>2, <2>3, MacStep DEF IInv, Types, darwin
<1> QED BY <1>3, <1>4 DEF IInv, Types

LEMMA DownStep == ASSUME IInv, Down \/ OwnerLost PROVE IInv'
<1>1. /\ alive /\ step = "idle" /\ sup # "down" /\ sup' # "down" /\ sup' \in {"up", "failed"}
      /\ step' \in {"idle", "restore", "release"} /\ (platform = "darwin" => step' # "release")
      /\ UNCHANGED <<platform, alive, conf, windows, darwin, said, blamed>>
  BY DEF Down, OwnerLost, IInv, Types
<1>2. said # "ok"
  BY <1>1 DEF IInv, Pace
<1>3. Pace'
  BY <1>1, <1>2 DEF Pace
<1>4. CASE platform = "windows"
  <2>1. Windows'
    BY <1>1 DEF IInv, Windows, AllOwn, darwin, windows
  <2> QED BY <1>1, <1>2, <1>3, <1>4, <2>1, WindowsStep DEF IInv, Types, windows
<1>5. CASE platform = "darwin"
  <2>1. Mac'
    BY <1>1 DEF IInv, Mac, AllOwn, darwin, windows
  <2>2. ResolverKept'
    BY <1>1 DEF IInv, ResolverKept, Kept, darwin
  <2> QED BY <1>1, <1>2, <1>3, <1>5, <2>1, <2>2, MacStep DEF IInv, Types, darwin
<1> QED BY <1>4, <1>5 DEF IInv, Types

LEMMA CrashStep == ASSUME IInv, Crash PROVE IInv'
<1>1. /\ alive' = FALSE /\ sup' = "down" /\ step' = "idle" /\ said' = "none" /\ armed' = FALSE
      /\ UNCHANGED <<platform, conf, wfp, dns, backup, blamed>>
      /\ platform = "windows" => anchor' = anchor
  BY DEF Crash
<1>2. Types' /\ Pace'
  BY <1>1 DEF IInv, Types, Pace
<1>3. Windows' /\ Mac'
  BY <1>1 DEF IInv, Windows, Mac, AllOwn
<1>4. OkMeansFree' /\ ResolverKept'
  BY <1>1 DEF IInv, OkMeansFree, ResolverKept, Kept
<1> QED BY <1>2, <1>3, <1>4 DEF IInv

LEMMA RestartStep == ASSUME IInv, Restart PROVE IInv'
<1>1. /\ alive' = TRUE /\ sup = "down" /\ step = "idle" /\ said' = "none"
      /\ UNCHANGED <<platform, sup, step, conf, armed>>
  BY DEF Restart, IInv, Pace
<1>2. Pace'
  BY <1>1 DEF Pace
<1>3. CASE platform = "windows"
  <2>1. PICK w \in Cleaned(wfp) : wfp' = w /\ UNCHANGED <<anchor, token, dns, backup, blamed>>
    BY <1>3 DEF Restart
  <2>2. w \in Objects /\ (~w.base => w.groups = {})
    BY CleanedObjects DEF IInv, Types
  <2>3. Windows'
    BY <1>1, <2>1 DEF IInv, Windows, AllOwn
  <2> QED BY <1>1, <1>2, <1>3, <2>1, <2>2, <2>3, WindowsStep DEF IInv, Types, darwin
<1>4. CASE platform = "darwin"
  <2>1. Restored /\ wfp' = wfp
    BY <1>4 DEF Restart
  <2>2. Mac'
    BY <1>1, <1>4, <2>1, RestoredEffect DEF IInv, Mac
  <2>3. ResolverKept'
    BY <1>4, <2>1, RestoredEffect DEF ResolverKept, Kept, AllOwn
  <2> QED BY <1>1, <1>2, <1>4, <2>1, <2>2, <2>3, RestoredEffect, MacStep
          DEF IInv, Types, windows
<1> QED BY <1>3, <1>4 DEF IInv, Types

LEMMA NextKeeps == ASSUME IInv, [Next]_vars PROVE IInv'
<1>1. CASE UNCHANGED vars
  BY <1>1 DEF vars, IInv, Types, Pace, Windows, Mac, AllOwn, OkMeansFree, ResolverKept, Kept
<1>2. CASE \E c \in Configs : Up(c)
  BY <1>2, UpStep
<1>3. CASE \E a \in SUBSET {"scoped4", "scoped6"} : SetResolvers(a)
  BY <1>3, SetResolversStep
<1>4. CASE WinClean \/ WinArm \/ WinDevice \/ WinDown \/ Hatch
  BY <1>4, WinCleanStep, WinArmStep, WinDeviceStep, WinDownStep, HatchStep
<1>5. CASE MacClean \/ MacArm \/ MacDevice \/ MacAllow \/ MacRoutes \/ Backup \/ Apply
             \/ MacRestore \/ MacDown
  BY <1>5, BringUpStep, BackupStep, ApplyStep, MacRestoreStep, MacDownStep
<1>6. CASE Down \/ OwnerLost \/ Crash \/ Restart
  BY <1>6, DownStep, CrashStep, RestartStep
<1> QED BY <1>1, <1>2, <1>3, <1>4, <1>5, <1>6 DEF Next

-----------------------------------------------------------------------------
(* The properties.                                                         *)

\* The invariant behind what a teardown says and what becomes of the resolvers.
THEOREM Invariance == Spec => []IInv
<1> QED BY Initially, NextKeeps, PTL DEF Spec

\* A teardown that reports success leaves no block behind, unless the bring-up before it
\* passed over one that it could not remove.
THEOREM FreeTheorem == Spec => []OkMeansFree
<1>1. IInv => OkMeansFree
  BY DEF IInv
<1> QED BY <1>1, Invariance, PTL

\* Whatever crashes in between, the user's resolvers are in use or in the backup, and in
\* use once the tunnel is down, for any number of network services, as long as none of the
\* errors that applyDNS and restoreDNS drop occurred: the backup written, every service read
\* and set back, and no failed full tunnel brought up again over its own backup.
THEOREM ResolverTheorem == Spec => []ResolverKept
<1>1. IInv => ResolverKept
  BY DEF IInv
<1> QED BY <1>1, Invariance, PTL

-----------------------------------------------------------------------------
(* Packets.                                                                *)

LEMMA ShapeFacts ==
  ASSUME NEW sh \in Shapes4 \cup Shapes6, sh[3] = 53 PROVE sh[1] \in {"udp", "tcp"}
<1>1. CASE sh \in {<<"icmp6", type, 0>> : type \in 128..137}
  BY <1>1
<1>2. CASE sh \in Shapes4 \cup {<<"udp", 546, 547>>}
  BY <1>2 DEF Shapes4
<1> QED BY <1>1, <1>2 DEF Shapes6

\* What every packet's fields allow.
PacketFacts(p) ==
  /\ p.layer \in Layers /\ p.iface \in {"lo", "tun", "nic"} /\ p.app \in {"helper", "user"}
  /\ Dns(p) => p.proto \in {"udp", "tcp"}
  /\ p.remote \in {"server4", "scoped4"} => ~Six(p.layer)
  /\ p.remote \in {"server6", "scoped6"} => Six(p.layer)

LEMMA PacketIs == ASSUME NEW p \in Packets PROVE PacketFacts(p)
<1>1. CASE p \in {Packet(l, sh, "own", r, i, a) : l \in {"out4", "in4"}, sh \in Shapes4, r \in Remotes4,
                                   i \in {"lo", "tun", "nic"}, a \in {"helper", "user"}}
  <2>1. PICK l \in {"out4", "in4"}, sh \in Shapes4, r \in Remotes4,
             i \in {"lo", "tun", "nic"}, a \in {"helper", "user"} : p = Packet(l, sh, "own", r, i, a)
    BY <1>1
  <2>2. p.layer = l /\ p.proto = sh[1] /\ p.rport = sh[3] /\ p.remote = r /\ p.iface = i /\ p.app = a
    BY <2>1 DEF Packet
  <2>3. p.rport = 53 => p.proto \in {"udp", "tcp"}
    BY <2>2, ShapeFacts
  <2> QED BY <2>2, <2>3 DEF PacketFacts, Layers, Dns, Six, Remotes4
<1>2. CASE p \in {Packet(l, sh, own, r, i, a) : l \in {"out6", "in6"}, sh \in Shapes6, r \in Remotes6,
                                      own \in {"own", "linklocal"},
                                      i \in {"lo", "tun", "nic"}, a \in {"helper", "user"}}
  <2>1. PICK l \in {"out6", "in6"}, sh \in Shapes6, r \in Remotes6, own \in {"own", "linklocal"},
             i \in {"lo", "tun", "nic"}, a \in {"helper", "user"} : p = Packet(l, sh, own, r, i, a)
    BY <1>2
  <2>2. p.layer = l /\ p.proto = sh[1] /\ p.rport = sh[3] /\ p.remote = r /\ p.iface = i /\ p.app = a
    BY <2>1 DEF Packet
  <2>3. p.rport = 53 => p.proto \in {"udp", "tcp"}
    BY <2>2, ShapeFacts
  <2> QED BY <2>2, <2>3 DEF PacketFacts, Layers, Dns, Six, Remotes6
<1> QED BY <1>1, <1>2 DEF Packets

-----------------------------------------------------------------------------
(* pf.  The rules of a full tunnel that is up, and which of them decides.  *)

LEMMA Seven ==
  ASSUME NEW a, NEW b, NEW c, NEW d, NEW e, NEW f, NEW g, NEW s, s = <<a, b, c, d, e, f, g>>
  PROVE  /\ DOMAIN s = 1..7
         /\ s[1] = a /\ s[2] = b /\ s[3] = c /\ s[4] = d
         /\ s[5] = e /\ s[6] = f /\ s[7] = g
<1>1. DOMAIN s = 1..7
  OBVIOUS
<1>2. s[1] = a /\ s[2] = b /\ s[3] = c /\ s[4] = d
  OBVIOUS
<1>3. s[5] = e /\ s[6] = f /\ s[7] = g
  OBVIOUS
<1> QED BY <1>1, <1>2, <1>3

\* Two quick rules, a block, and what it does not hold back.
LEMMA PfRules ==
  ASSUME NEW cp \in BOOLEAN, NEW rules, rules = buildPFRules(TRUE, cp)
  PROVE  /\ DOMAIN rules = 1..7
         /\ \A i \in {1, 2} : rules[i].quick /\ rules[i].pass
         /\ \A i \in {3, 4, 5, 6, 7} : ~rules[i].quick /\ (rules[i].pass <=> i # 3)
         /\ \A p \in Packets :
              /\ p \in rules[1].on <=> p.iface = "lo"
              /\ p \in rules[2].on <=> p.iface = "tun"
              /\ p \in rules[3].on <=> Outward(p.layer)
              /\ p \in rules[4].on <=> Outward(p.layer) /\ p.proto = "udp" /\ p.remote = "gateway"
              /\ p \in rules[5].on <=>
                   cp /\ Outward(p.layer) /\ p.proto = "tcp" /\ p.remote = "controller"
              /\ p \in rules[6].on <=> Outward(p.layer) /\ Dhcp(p)
              /\ p \in rules[7].on <=> Outward(p.layer) /\ p.proto = "icmp6"
<1> DEFINE lo == Rule(TRUE, TRUE, LAMBDA p : p.iface = "lo")
           tun == Rule(TRUE, TRUE, LAMBDA p : TRUE /\ p.iface = "tun")
           out == Rule(FALSE, FALSE, LAMBDA p : Outward(p.layer))
           gateway == Rule(FALSE, TRUE, LAMBDA p :
                        Outward(p.layer) /\ p.proto = "udp" /\ p.remote = "gateway")
           controller == Rule(FALSE, TRUE, LAMBDA p :
                        cp /\ Outward(p.layer) /\ p.proto = "tcp" /\ p.remote = "controller")
           lease == Rule(FALSE, TRUE, LAMBDA p : Outward(p.layer) /\ Dhcp(p))
           icmp6 == Rule(FALSE, TRUE, LAMBDA p : Outward(p.layer) /\ p.proto = "icmp6")
<1>1. rules = <<lo, tun, out, gateway, controller, lease, icmp6>>
  BY DEF buildPFRules
<1>2. \A p \in Packets :
        /\ p \in lo.on <=> p.iface = "lo"
        /\ p \in tun.on <=> p.iface = "tun"
        /\ p \in out.on <=> Outward(p.layer)
        /\ p \in gateway.on <=> Outward(p.layer) /\ p.proto = "udp" /\ p.remote = "gateway"
        /\ p \in controller.on <=> cp /\ Outward(p.layer) /\ p.proto = "tcp" /\ p.remote = "controller"
        /\ p \in lease.on <=> Outward(p.layer) /\ Dhcp(p)
        /\ p \in icmp6.on <=> Outward(p.layer) /\ p.proto = "icmp6"
  BY DEF Rule
<1>3. /\ lo.quick /\ lo.pass /\ tun.quick /\ tun.pass /\ ~out.quick /\ ~out.pass
      /\ ~gateway.quick /\ gateway.pass /\ ~controller.quick /\ controller.pass
      /\ ~lease.quick /\ lease.pass /\ ~icmp6.quick /\ icmp6.pass
  BY DEF Rule
<1> HIDE DEF lo, tun, out, gateway, controller, lease, icmp6
<1>4. /\ DOMAIN rules = 1..7
      /\ rules[1] = lo /\ rules[2] = tun /\ rules[3] = out /\ rules[4] = gateway
      /\ rules[5] = controller /\ rules[6] = lease /\ rules[7] = icmp6
  <2> SUFFICES ASSUME NEW a, NEW b, NEW c, NEW d, NEW e, NEW f, NEW g,
                      a = lo, b = tun, c = out, d = gateway, e = controller, f = lease, g = icmp6
               PROVE  /\ DOMAIN rules = 1..7
                      /\ rules[1] = a /\ rules[2] = b /\ rules[3] = c /\ rules[4] = d
                      /\ rules[5] = e /\ rules[6] = f /\ rules[7] = g
    OBVIOUS
  <2>1. rules = <<a, b, c, d, e, f, g>>
    BY <1>1
  <2> QED BY ONLY <2>1, Seven
<1> QED BY <1>2, <1>3, <1>4

\* A quick rule decides first, then the last one that matches: what goes out is held back
\* unless one after the block matches it.
LEMMA PfDecides ==
  ASSUME NEW cp \in BOOLEAN, NEW p \in Packets
  PROVE  PfPasses(buildPFRules(TRUE, cp), p) <=>
           \/ p.iface \in {"lo", "tun"} \/ ~Outward(p.layer)
           \/ p.proto = "udp" /\ p.remote = "gateway"
           \/ cp /\ p.proto = "tcp" /\ p.remote = "controller"
           \/ Dhcp(p) \/ p.proto = "icmp6"
<1> DEFINE rules == buildPFRules(TRUE, cp)
           hits == {i \in DOMAIN rules : p \in rules[i].on}
           quick == {i \in hits : rules[i].quick}
           first == CHOOSE i \in quick : \A j \in quick : i <= j
           last == CHOOSE i \in hits : \A j \in hits : j <= i
<1>1. PfPasses(rules, p) <=> hits = {} \/ rules[IF quick # {} THEN first ELSE last].pass
  BY DEF PfPasses
<1>2. /\ DOMAIN rules = 1..7
      /\ \A i \in {1, 2} : rules[i].quick /\ rules[i].pass
      /\ \A i \in {3, 4, 5, 6, 7} : ~rules[i].quick /\ (rules[i].pass <=> i # 3)
      /\ p \in rules[1].on <=> p.iface = "lo"
      /\ p \in rules[2].on <=> p.iface = "tun"
      /\ p \in rules[3].on <=> Outward(p.layer)
      /\ p \in rules[4].on <=> Outward(p.layer) /\ p.proto = "udp" /\ p.remote = "gateway"
      /\ p \in rules[5].on <=> cp /\ Outward(p.layer) /\ p.proto = "tcp" /\ p.remote = "controller"
      /\ p \in rules[6].on <=> Outward(p.layer) /\ Dhcp(p)
      /\ p \in rules[7].on <=> Outward(p.layer) /\ p.proto = "icmp6"
  BY PfRules
<1> HIDE DEF rules
<1>3. /\ 1 \in hits <=> p.iface = "lo"
      /\ 2 \in hits <=> p.iface = "tun"
      /\ 3 \in hits <=> Outward(p.layer)
      /\ 4 \in hits <=> Outward(p.layer) /\ p.proto = "udp" /\ p.remote = "gateway"
      /\ 5 \in hits <=> cp /\ Outward(p.layer) /\ p.proto = "tcp" /\ p.remote = "controller"
      /\ 6 \in hits <=> Outward(p.layer) /\ Dhcp(p)
      /\ 7 \in hits <=> Outward(p.layer) /\ p.proto = "icmp6"
      /\ hits \subseteq 1..7
  BY <1>2
<1>4. hits \subseteq {1, 2, 3, 4, 5, 6, 7}
  BY <1>3
<1>5. quick = hits \cap {1, 2}
  BY <1>2, <1>4
<1> HIDE DEF hits
<1>6. CASE quick # {}
  <2>1. first \in {1, 2}
    <3>1. \E i \in quick : \A j \in quick : i <= j
      <4>1. CASE 1 \in quick
        BY <1>5, <4>1
      <4>2. CASE 1 \notin quick
        <5>1. quick = {2}
          BY <1>5, <1>6, <4>2
        <5> QED BY <5>1
      <4> QED BY <4>1, <4>2
    <3>2. first \in quick
      BY <3>1
    <3> QED BY <1>5, <3>2
  <2>2. PfPasses(rules, p)
    BY <1>1, <1>2, <1>6, <2>1
  <2>3. p.iface \in {"lo", "tun"}
    BY <1>3, <1>5, <1>6
  <2> QED BY <2>2, <2>3 DEF rules
<1>7. CASE quick = {} /\ hits = {}
  <2>1. ~Outward(p.layer)
    BY <1>3, <1>7
  <2> QED BY <1>1, <1>7, <2>1 DEF rules
<1>8. CASE quick = {} /\ hits # {}
  <2>0. hits \subseteq {3, 4, 5, 6, 7}
    BY <1>4, <1>5, <1>8
  <2>1. Outward(p.layer) /\ 3 \in hits /\ p.iface \notin {"lo", "tun"}
    BY <1>3, <1>5, <1>8, <2>0
  <2>2. last \in hits /\ \A j \in hits : j <= last
    <3>1. \E i \in hits : \A j \in hits : j <= i
      <4>1. CASE 7 \in hits
        BY <2>0, <4>1
      <4>2. CASE 7 \notin hits /\ 6 \in hits
        BY <2>0, <4>2
      <4>3. CASE 7 \notin hits /\ 6 \notin hits /\ 5 \in hits
        BY <2>0, <4>3
      <4>4. CASE 7 \notin hits /\ 6 \notin hits /\ 5 \notin hits /\ 4 \in hits
        BY <2>0, <4>4
      <4>5. CASE hits \cap {4, 5, 6, 7} = {}
        BY <2>0, <2>1, <4>5
      <4> QED BY <4>1, <4>2, <4>3, <4>4, <4>5
    <3> QED BY <3>1
  <2> HIDE DEF last
  <2>3. last = 3 <=> hits \cap {4, 5, 6, 7} = {}
    BY <2>0, <2>2
  <2>4. PfPasses(rules, p) <=> last # 3
    BY <1>1, <1>2, <1>8, <2>0, <2>2
  <2>5. hits \cap {4, 5, 6, 7} # {} <=>
          \/ p.proto = "udp" /\ p.remote = "gateway"
          \/ cp /\ p.proto = "tcp" /\ p.remote = "controller"
          \/ Dhcp(p) \/ p.proto = "icmp6"
    BY <1>3, <2>1
  <2> QED BY <2>1, <2>3, <2>4, <2>5 DEF rules
<1> QED BY <1>6, <1>7, <1>8

-----------------------------------------------------------------------------
(* WFP.  Which weights a packet finds a filter of, and what decides.       *)

Met(when, p) == \A k \in DOMAIN when : p[k] \in when[k]
Hit(filters, p, n) == \E f \in filters : f.weight = n /\ f.layer = p.layer /\ Met(f.when, p)

\* A weight tells a permit from a block.
Ranked(filters) ==
  \A f \in filters : f.weight \in {0, 12, 13, 14, 15} /\ (f.permit <=> f.weight \notin {0, 14})

\* With a block of everything below, a permit of the top weight decides, then a block of the
\* next, then any other permit.
LEMMA WfpDecides ==
  ASSUME NEW filters, NEW p, Ranked(filters), Hit(filters, p, 0)
  PROVE  WfpPasses(filters, p) <=>
           \/ Hit(filters, p, 15)
           \/ ~Hit(filters, p, 14) /\ (Hit(filters, p, 13) \/ Hit(filters, p, 12))
<1> DEFINE hits == {f \in filters : f.layer = p.layer /\ Met(f.when, p)}
<1>1. \A n : Hit(filters, p, n) <=> \E f \in hits : f.weight = n
  BY DEF Hit
<1>2. WfpPasses(filters, p) <=> \A f \in hits : (\A g \in hits : g.weight <= f.weight) => f.permit
  BY DEF WfpPasses, Met
<1>3. \A f \in hits : f.weight \in {0, 12, 13, 14, 15} /\ (f.permit <=> f.weight \notin {0, 14})
  BY DEF Ranked
<1> HIDE DEF hits
<1>4. CASE Hit(filters, p, 15)
  BY <1>1, <1>2, <1>3, <1>4
<1>5. CASE ~Hit(filters, p, 15) /\ Hit(filters, p, 14)
  BY <1>1, <1>2, <1>3, <1>5
<1>6. CASE ~Hit(filters, p, 15) /\ ~Hit(filters, p, 14) /\ (Hit(filters, p, 13) \/ Hit(filters, p, 12))
  BY <1>1, <1>2, <1>3, <1>6
<1>7. CASE \A n \in {12, 13, 14, 15} : ~Hit(filters, p, n)
  BY <1>1, <1>2, <1>3, <1>7
<1> QED BY <1>4, <1>5, <1>6, <1>7

LEMMA OnHits ==
  ASSUME NEW layers, NEW weight, NEW permit, NEW when, NEW p, NEW n
  PROVE  Hit(On(layers, weight, permit, when), p, n) <=>
           n = weight /\ p.layer \in layers /\ Met(when, p)
<1> DEFINE filter(l) == [layer |-> l, weight |-> weight, permit |-> permit, when |-> when]
<1>1. On(layers, weight, permit, when) = {filter(l) : l \in layers}
  BY DEF On
<1>2. \A l : filter(l).weight = weight /\ filter(l).layer = l /\ filter(l).when = when
  OBVIOUS
<1> HIDE DEF filter
<1> QED BY <1>1, <1>2 DEF Hit

LEMMA UnionHits ==
  ASSUME NEW a, NEW b, NEW p, NEW n
  PROVE  /\ Hit(a \cup b, p, n) <=> Hit(a, p, n) \/ Hit(b, p, n)
         /\ Ranked(a) /\ Ranked(b) => Ranked(a \cup b)
<1>1. Hit(a \cup b, p, n) <=> Hit(a, p, n) \/ Hit(b, p, n)
  BY DEF Hit
<1>2. Ranked(a) /\ Ranked(b) => Ranked(a \cup b)
  BY DEF Ranked
<1> QED BY <1>1, <1>2

\* Permits of one interface or one program.
LEMMA PlainHits ==
  ASSUME NEW p \in Packets, NEW n
  PROVE  /\ Hit(permitWireGuardService, p, n) <=> n = 15 /\ p.app = "helper"
         /\ Hit(permitLoopback, p, n) <=> n = 13 /\ p.iface = "lo"
         /\ Hit(permitTunInterface, p, n) <=> n = 12 /\ p.iface = "tun"
         /\ Hit(blockAll, p, n) <=> n = 0
         /\ Ranked(permitWireGuardService) /\ Ranked(permitLoopback)
         /\ Ranked(permitTunInterface) /\ Ranked(blockAll)
<1>0. p.layer \in Layers
  BY PacketIs DEF PacketFacts
<1>1. Hit(permitWireGuardService, p, n) <=> n = 15 /\ p.app = "helper"
  <2> DEFINE when == [app |-> {"helper"}]
             permit == TRUE
  <2>1. Hit(On(Layers, 15, permit, when), p, n) <=>
          n = 15 /\ p.layer \in Layers /\ Met(when, p)
    <3> HIDE DEF when, permit
    <3> QED BY OnHits
  <2>2. Met(when, p) <=> p.app = "helper"
    BY DEF Met
  <2> QED BY <1>0, <2>1, <2>2 DEF permitWireGuardService
<1>2. Hit(permitLoopback, p, n) <=> n = 13 /\ p.iface = "lo"
  <2> DEFINE when == [iface |-> {"lo"}]
             permit == TRUE
  <2>1. Hit(On(Layers, 13, permit, when), p, n) <=>
          n = 13 /\ p.layer \in Layers /\ Met(when, p)
    <3> HIDE DEF when, permit
    <3> QED BY OnHits
  <2>2. Met(when, p) <=> p.iface = "lo"
    BY DEF Met
  <2> QED BY <1>0, <2>1, <2>2 DEF permitLoopback
<1>3. Hit(permitTunInterface, p, n) <=> n = 12 /\ p.iface = "tun"
  <2> DEFINE when == [iface |-> {"tun"}]
             permit == TRUE
  <2>1. Hit(On(Layers, 12, permit, when), p, n) <=>
          n = 12 /\ p.layer \in Layers /\ Met(when, p)
    <3> HIDE DEF when, permit
    <3> QED BY OnHits
  <2>2. Met(when, p) <=> p.iface = "tun"
    BY DEF Met
  <2> QED BY <1>0, <2>1, <2>2 DEF permitTunInterface
<1>4. Hit(blockAll, p, n) <=> n = 0
  BY <1>0, OnHits DEF Met, blockAll
<1>5. Ranked(permitWireGuardService) /\ Ranked(permitLoopback)
  BY DEF Ranked, On, permitWireGuardService, permitLoopback
<1>6. Ranked(permitTunInterface) /\ Ranked(blockAll)
  BY DEF Ranked, On, permitTunInterface, blockAll
<1> QED BY <1>1, <1>2, <1>3, <1>4, <1>5, <1>6

\* Permits of the link's upkeep match nothing else.
LEMMA UpkeepHits ==
  ASSUME NEW p \in Packets, NEW n
  PROVE  /\ Hit(permitDHCPIPv4, p, n) => n = 12 /\ Dhcp(p)
         /\ Hit(permitDHCPIPv6, p, n) => n = 12 /\ Dhcp(p)
         /\ Hit(permitNdp, p, n) => n = 12 /\ Ndp(p)
         /\ Ranked(permitDHCPIPv4) /\ Ranked(permitDHCPIPv6) /\ Ranked(permitNdp)
<1>1. Hit(permitDHCPIPv4, p, n) => n = 12 /\ Dhcp(p)
  BY DEF Hit, Met, On, permitDHCPIPv4, Dhcp
<1>2. Hit(permitDHCPIPv6, p, n) => n = 12 /\ Dhcp(p)
  BY DEF Hit, Met, On, permitDHCPIPv6, Dhcp
<1>3. Hit(permitNdp, p, n) => n = 12 /\ Ndp(p)
  BY DEF Hit, Met, On, permitNdp, Ndp
<1>4. Ranked(permitDHCPIPv4)
  BY DEF Ranked, On, permitDHCPIPv4
<1>5. Ranked(permitDHCPIPv6)
  BY DEF Ranked, On, permitDHCPIPv6
<1>6. Ranked(permitNdp)
  BY DEF Ranked, On, permitNdp
<1> QED BY <1>1, <1>2, <1>3, <1>4, <1>5, <1>6

Servers == {"server4", "server6"}
Scoped == {"scoped4", "scoped6"}

\* A name server's packet belongs to the family of its address, so a permit bound to the
\* family's addresses matches it.
LEMMA DnsHits ==
  ASSUME NEW p \in Packets, NEW n, NEW except \in SUBSET Servers
  PROVE  /\ Hit(blockDNS(except), p, n) <=>
              \/ n = 14 /\ Dns(p)
              \/ n = 15 /\ Dns(p) /\ p.remote \in except
         /\ Ranked(blockDNS(except))
<1> DEFINE dns0 == [proto |-> {"udp", "tcp"}, rport |-> {53}]
           allow(addresses) == [proto |-> {"udp", "tcp"}, rport |-> {53}, remote |-> addresses]
           mine(l) == OfFamily(Six(l), except)
           permit == TRUE
           block == FALSE
           part(l) == IF mine(l) = {} THEN {} ELSE On({l}, 15, permit, allow(mine(l)))
<1>1. blockDNS(except) = On(Layers, 14, block, dns0) \cup UNION {part(l) : l \in Layers}
  BY DEF blockDNS, Exactly
<1>2. PacketFacts(p)
  BY PacketIs
<1>3. Hit(On(Layers, 14, block, dns0), p, n) <=> n = 14 /\ Dns(p)
  <2>1. Hit(On(Layers, 14, block, dns0), p, n) <=>
          n = 14 /\ p.layer \in Layers /\ Met(dns0, p)
    <3> HIDE DEF dns0, block
    <3> QED BY OnHits
  <2>2. Met(dns0, p) <=> p.proto \in {"udp", "tcp"} /\ p.rport = 53
    BY DEF Met
  <2> QED BY <1>2, <2>1, <2>2 DEF Dns, PacketFacts
<1>4. \A l \in Layers : Hit(part(l), p, n) <=>
                          n = 15 /\ p.layer = l /\ Dns(p) /\ p.remote \in mine(l)
  <2> SUFFICES ASSUME NEW l \in Layers
               PROVE  Hit(part(l), p, n) <=> n = 15 /\ p.layer = l /\ Dns(p) /\ p.remote \in mine(l)
    OBVIOUS
  <2>1. CASE mine(l) = {}
    BY <2>1 DEF Hit
  <2>2. CASE mine(l) # {}
    <3>1. Hit(On({l}, 15, permit, allow(mine(l))), p, n) <=>
             n = 15 /\ p.layer \in {l} /\ Met(allow(mine(l)), p)
      <4> HIDE DEF allow, mine, permit
      <4> QED BY OnHits
    <3>2. Met(allow(mine(l)), p) <=>
             p.proto \in {"udp", "tcp"} /\ p.rport = 53 /\ p.remote \in mine(l)
      BY DEF Met
    <3> QED BY <1>2, <2>2, <3>1, <3>2 DEF Dns, PacketFacts
  <2> QED BY <2>1, <2>2
<1>5. Hit(UNION {part(l) : l \in Layers}, p, n) <=> \E l \in Layers : Hit(part(l), p, n)
  <2> HIDE DEF part
  <2> QED BY DEF Hit
<1>6. p.layer \in Layers /\ (p.remote \in mine(p.layer) <=> p.remote \in except)
  BY <1>2 DEF PacketFacts, OfFamily, Servers
<1>7. Ranked(blockDNS(except))
  <2>1. \A l \in Layers : Ranked(part(l))
    <3> SUFFICES ASSUME NEW l \in Layers PROVE Ranked(part(l))
      OBVIOUS
    <3>1. Ranked(On({l}, 15, permit, allow(mine(l))))
      BY DEF Ranked, On
    <3> QED BY <3>1 DEF Ranked
  <2>2. Ranked(UNION {part(l) : l \in Layers})
    <3> HIDE DEF part
    <3> QED BY <2>1 DEF Ranked
  <2>3. Ranked(On(Layers, 14, block, dns0))
    BY DEF Ranked, On
  <2> DEFINE rest == UNION {part(l) : l \in Layers}
  <2>4. blockDNS(except) = On(Layers, 14, block, dns0) \cup rest /\ Ranked(rest)
    BY <1>1, <2>2
  <2> HIDE DEF rest, dns0
  <2> QED BY <2>3, <2>4, UnionHits
<1>8. Hit(blockDNS(except), p, n) <=> (n = 14 /\ Dns(p)) \/ \E l \in Layers : Hit(part(l), p, n)
  <2> DEFINE rest == UNION {part(l) : l \in Layers}
             all == On(Layers, 14, block, dns0)
  <2>0. blockDNS(except) = all \cup rest
    BY <1>1
  <2> HIDE DEF rest, all
  <2>1. Hit(blockDNS(except), p, n) <=> Hit(all, p, n) \/ Hit(rest, p, n)
    BY <2>0, UnionHits
  <2> USE DEF rest, all
  <2> QED BY <1>3, <1>5, <2>1
<1> HIDE DEF part, mine
<1> QED BY <1>4, <1>6, <1>7, <1>8

LEMMA ScopedHits ==
  ASSUME NEW p \in Packets, NEW n, NEW addresses \in SUBSET Scoped
  PROVE  /\ Hit(installScopedDNSPermits(addresses), p, n) <=>
              n = 15 /\ Dns(p) /\ p.remote \in addresses /\ p.iface = "tun"
         /\ Ranked(installScopedDNSPermits(addresses))
<1> DEFINE allow(remotes) == [proto |-> {"udp", "tcp"}, rport |-> {53},
                              remote |-> remotes, iface |-> {"tun"}]
           mine(l) == OfFamily(Six(l), addresses)
           permit == TRUE
           part(l) == IF mine(l) = {} THEN {} ELSE On({l}, 15, permit, allow(mine(l)))
<1>1. installScopedDNSPermits(addresses) = UNION {part(l) : l \in Layers}
  BY DEF installScopedDNSPermits, Exactly
<1>2. PacketFacts(p)
  BY PacketIs
<1>3. \A l \in Layers :
        /\ Hit(part(l), p, n) <=>
             n = 15 /\ p.layer = l /\ Dns(p) /\ p.remote \in mine(l) /\ p.iface = "tun"
        /\ Ranked(part(l))
  <2> SUFFICES ASSUME NEW l \in Layers
               PROVE  /\ Hit(part(l), p, n) <=>
                           n = 15 /\ p.layer = l /\ Dns(p) /\ p.remote \in mine(l) /\ p.iface = "tun"
                      /\ Ranked(part(l))
    OBVIOUS
  <2>1. CASE mine(l) = {}
    BY <2>1 DEF Hit, Ranked
  <2>2. CASE mine(l) # {}
    <3>1. Hit(On({l}, 15, permit, allow(mine(l))), p, n) <=>
             n = 15 /\ p.layer \in {l} /\ Met(allow(mine(l)), p)
      <4> HIDE DEF allow, mine, permit
      <4> QED BY OnHits
    <3>2. Met(allow(mine(l)), p) <=>
             p.proto \in {"udp", "tcp"} /\ p.rport = 53 /\ p.remote \in mine(l) /\ p.iface = "tun"
      BY DEF Met
    <3>3. Ranked(On({l}, 15, permit, allow(mine(l))))
      BY DEF Ranked, On
    <3>4. Hit(part(l), p, n) <=>
            n = 15 /\ p.layer = l /\ Dns(p) /\ p.remote \in mine(l) /\ p.iface = "tun"
      BY <1>2, <2>2, <3>1, <3>2 DEF Dns, PacketFacts
    <3> QED BY <2>2, <3>3, <3>4
  <2> QED BY <2>1, <2>2
<1>4. p.layer \in Layers /\ (p.remote \in mine(p.layer) <=> p.remote \in addresses)
  BY <1>2 DEF PacketFacts, OfFamily, Scoped
<1> HIDE DEF part, mine
<1>5. Hit(UNION {part(l) : l \in Layers}, p, n) <=> \E l \in Layers : Hit(part(l), p, n)
  BY DEF Hit
<1>6. Ranked(UNION {part(l) : l \in Layers})
  BY <1>3 DEF Ranked
<1> QED BY <1>1, <1>3, <1>4, <1>5, <1>6

\* The filters of a whole installation, and what of theirs a packet meets.
LEMMA FilterHits ==
  ASSUME NEW p \in Packets, NEW n, NEW w, w.v6 \in BOOLEAN, w.scoped \in SUBSET Scoped,
         w.groups \ {"scoped"} = Groups \ {"scoped"}, "scoped" \in w.groups <=> w.scoped # {}
  PROVE  LET servers == {"server4"} \cup IF w.v6 THEN {"server6"} ELSE {} IN
         /\ Ranked(Filters(w))
         /\ n = 0 => Hit(Filters(w), p, n)
         /\ n = 15 => (Hit(Filters(w), p, n) <=>
              \/ p.app = "helper"
              \/ Dns(p) /\ p.remote \in servers
              \/ Dns(p) /\ p.remote \in w.scoped /\ p.iface = "tun")
         /\ n = 14 => (Hit(Filters(w), p, n) <=> Dns(p))
         /\ n = 13 => (Hit(Filters(w), p, n) <=> p.iface = "lo")
         /\ n = 12 => /\ Hit(Filters(w), p, n) => p.iface = "tun" \/ Dhcp(p) \/ Ndp(p)
                      /\ p.iface = "tun" => Hit(Filters(w), p, n)
<1> DEFINE servers == {"server4"} \cup IF w.v6 THEN {"server6"} ELSE {}
           of(g) == CASE g = "service" -> permitWireGuardService [] g = "dns" -> blockDNS(servers)
                 [] g = "loopback" -> permitLoopback [] g = "tun" -> permitTunInterface
                 [] g = "dhcp4" -> permitDHCPIPv4 [] g = "dhcp6" -> permitDHCPIPv6
                 [] g = "ndp" -> permitNdp [] g = "block" -> blockAll
                 [] g = "scoped" -> installScopedDNSPermits(w.scoped)
<1>1. Filters(w) = UNION {of(g) : g \in w.groups}
  BY DEF Filters
<1>2. /\ of("service") = permitWireGuardService /\ of("dns") = blockDNS(servers)
      /\ of("loopback") = permitLoopback /\ of("tun") = permitTunInterface
      /\ of("dhcp4") = permitDHCPIPv4 /\ of("dhcp6") = permitDHCPIPv6
      /\ of("ndp") = permitNdp /\ of("block") = blockAll
      /\ of("scoped") = installScopedDNSPermits(w.scoped)
  OBVIOUS
<1>3. servers \in SUBSET Servers
  BY DEF Servers
<1> HIDE DEF of, servers
<1>4. Hit(Filters(w), p, n) <=> \E g \in w.groups : Hit(of(g), p, n)
  BY <1>1 DEF Hit
<1>5. (\A g \in w.groups : Ranked(of(g))) => Ranked(Filters(w))
  BY <1>1 DEF Ranked
<1>6. w.groups \subseteq Groups /\ Groups \ {"scoped"} \subseteq w.groups
  BY DEF Groups
<1>7. \A g \in Groups : Ranked(of(g))
  BY <1>2, <1>3, PlainHits, UpkeepHits, DnsHits, ScopedHits DEF Groups
<1>8. /\ Hit(of("service"), p, n) <=> n = 15 /\ p.app = "helper"
      /\ Hit(of("dns"), p, n) <=> \/ n = 14 /\ Dns(p)
                                  \/ n = 15 /\ Dns(p) /\ p.remote \in servers
      /\ Hit(of("loopback"), p, n) <=> n = 13 /\ p.iface = "lo"
      /\ Hit(of("tun"), p, n) <=> n = 12 /\ p.iface = "tun"
      /\ Hit(of("dhcp4"), p, n) => n = 12 /\ Dhcp(p)
      /\ Hit(of("dhcp6"), p, n) => n = 12 /\ Dhcp(p)
      /\ Hit(of("ndp"), p, n) => n = 12 /\ Ndp(p)
      /\ Hit(of("block"), p, n) <=> n = 0
      /\ Hit(of("scoped"), p, n) <=>
           n = 15 /\ Dns(p) /\ p.remote \in w.scoped /\ p.iface = "tun"
  BY <1>2, <1>3, PlainHits, UpkeepHits, DnsHits, ScopedHits
<1>9. Hit(Filters(w), p, n) <=>
        \/ Hit(of("service"), p, n) \/ Hit(of("dns"), p, n) \/ Hit(of("loopback"), p, n)
        \/ Hit(of("tun"), p, n) \/ Hit(of("dhcp4"), p, n) \/ Hit(of("dhcp6"), p, n)
        \/ Hit(of("ndp"), p, n) \/ Hit(of("block"), p, n)
        \/ "scoped" \in w.groups /\ Hit(of("scoped"), p, n)
  BY <1>4, <1>6 DEF Groups
<1>10. Ranked(Filters(w))
  BY <1>5, <1>6, <1>7
<1>11. n = 0 => Hit(Filters(w), p, n)
  BY <1>8, <1>9
<1>12. n = 15 => (Hit(Filters(w), p, n) <=>
              \/ p.app = "helper"
              \/ Dns(p) /\ p.remote \in servers
              \/ Dns(p) /\ p.remote \in w.scoped /\ p.iface = "tun")
  BY <1>8, <1>9
<1>13. n = 14 => (Hit(Filters(w), p, n) <=> Dns(p))
  BY <1>8, <1>9
<1>14. n = 13 => (Hit(Filters(w), p, n) <=> p.iface = "lo")
  BY <1>8, <1>9
<1>15. n = 12 => /\ Hit(Filters(w), p, n) => p.iface = "tun" \/ Dhcp(p) \/ Ndp(p)
                 /\ p.iface = "tun" => Hit(Filters(w), p, n)
  BY <1>8, <1>9
<1> QED BY <1>10, <1>11, <1>12, <1>13, <1>14, <1>15 DEF servers

-----------------------------------------------------------------------------
(* What is in force once a tunnel is up, and in the last steps to it.      *)

InForce(steps) == step \in steps \/ (sup = "up" /\ step = "idle")

TightFilters(w) ==
  /\ w.base /\ w.v6 = conf.v6 /\ w.groups \ {"scoped"} = Groups \ {"scoped"}
  /\ "scoped" \in w.groups <=> w.scoped # {}

FullRules == [on |-> TRUE, tun |-> TRUE, cp |-> conf.cp]

Order ==
  /\ step \in {"clean", "arm", "device", "allow", "routes", "backup", "apply"} => sup # "up"
  /\ step = "arm" => conf.full

WindowsHeld ==
  platform = "windows" /\ InForce({"device"}) =>
    IF conf.full THEN "hatch" \notin blamed => TightFilters(wfp)
    ELSE "ignored" \notin blamed => wfp.groups = {}

MacHeld ==
  platform = "darwin" =>
    /\ conf.full /\ InForce({"routes", "backup", "apply"}) =>
         anchor = FullRules /\ ("unenabled" \in blamed \/ Enabled)
    /\ ~conf.full /\ InForce({"device", "routes"}) => "ignored" \in blamed \/ ~anchor.on

Held == Order /\ WindowsHeld /\ MacHeld

LEMMA HeldInitially == Init => Held
  BY DEF Init, Held, Order, WindowsHeld, MacHeld, InForce

LEMMA WindowsHolds ==
  ASSUME IInv, Held, WinClean \/ WinArm \/ WinDevice \/ WinDown \/ Hatch
  PROVE  Held'
<1>1. CASE WinClean
  <2>1. PICK w \in Cleaned(wfp) : wfp' = w /\ blamed' = Blame("ignored", w.base)
    BY <1>1 DEF WinClean
  <2>2. ~w.base => w.groups = {}
    BY CleanedObjects DEF IInv, Types
  <2>3. /\ platform = "windows" /\ step = "clean" /\ UNCHANGED <<platform, sup, conf>>
        /\ step' = IF conf.full THEN "arm" ELSE "device"
    BY <1>1 DEF WinClean, At
  <2>4. conf.full \in BOOLEAN
    BY DEF IInv, Types, Configs
  <2> QED BY <2>1, <2>2, <2>3, <2>4 DEF Held, Order, WindowsHeld, MacHeld, InForce, Blame
<1>2. CASE WinArm
  <2>1. /\ platform = "windows" /\ step = "arm" /\ UNCHANGED <<platform, sup, conf>>
        /\ \/ wfp' = Whole(conf.v6) /\ step' = "device"
           \/ step' = "idle"
    BY <1>2 DEF WinArm, At
  <2>2. Order' /\ MacHeld'
    BY <2>1 DEF Held, Order, MacHeld
  <2>3. TightFilters(Whole(conf.v6))
    BY DEF TightFilters, Whole
  <2>4. WindowsHeld'
    BY <2>1, <2>3 DEF Held, Order, WindowsHeld, InForce, TightFilters
  <2> QED BY <2>2, <2>4 DEF Held
<1>3. CASE WinDevice
  <2>1. /\ platform = "windows" /\ step = "device" /\ step' = "idle"
        /\ UNCHANGED <<platform, conf, wfp, blamed>>
    BY <1>3 DEF WinDevice, At, windows
  <2> QED BY <2>1 DEF Held, Order, WindowsHeld, MacHeld, InForce, TightFilters
<1>4. CASE WinDown
  <2>1. platform = "windows" /\ step' = "idle" /\ sup' = "down" /\ UNCHANGED platform
    BY <1>4 DEF WinDown, At
  <2> QED BY <2>1 DEF Held, Order, WindowsHeld, MacHeld, InForce
<1>5. CASE Hatch
  <2>1. PICK w \in Cleaned(wfp) : wfp' = w
    BY <1>5 DEF Hatch
  <2>2. w.groups \subseteq wfp.groups
    BY CleanedObjects DEF IInv, Types
  <2>3. /\ platform = "windows" /\ blamed' = blamed \cup {"hatch"}
        /\ UNCHANGED <<platform, sup, step, conf>>
    BY <1>5 DEF Hatch
  <2> QED BY <2>1, <2>2, <2>3 DEF Held, Order, WindowsHeld, MacHeld, InForce
<1> QED BY <1>1, <1>2, <1>3, <1>4, <1>5

\* The scoped resolvers add permits and take them back, and touch no other filter.
LEMMA ResolversHold ==
  ASSUME IInv, Held, NEW a \in SUBSET {"scoped4", "scoped6"}, SetResolvers(a)
  PROVE  Held'
<1>1. /\ platform = "windows" /\ step = "idle" /\ sup = "up" /\ conf.full
      /\ UNCHANGED <<platform, sup, step, conf, blamed>>
  BY DEF SetResolvers, At
<1>2. Order' /\ MacHeld'
  BY <1>1 DEF Held, Order, MacHeld
<1>3. wfp \in Objects
  BY DEF IInv, Types
<1>4. ASSUME TightFilters(wfp) PROVE TightFilters(wfp)'
  <2>1. CASE wfp' = wfp
    BY <1>1, <1>4, <2>1 DEF TightFilters
  <2>2. CASE wfp' # wfp
    <3> DEFINE g == IF a = {} THEN wfp.groups \ {"scoped"} ELSE wfp.groups \cup {"scoped"}
    <3>1. wfp' = [wfp EXCEPT !.scoped = a, !.groups = g]
      BY <2>2 DEF SetResolvers
    <3>2. /\ g \ {"scoped"} = wfp.groups \ {"scoped"}
          /\ "scoped" \in g <=> a # {}
      OBVIOUS
    <3> HIDE DEF g
    <3>3. wfp'.base = wfp.base /\ wfp'.v6 = wfp.v6 /\ wfp'.groups = g /\ wfp'.scoped = a
      BY <1>3, <3>1 DEF Objects
    <3> QED BY <1>1, <1>4, <3>2, <3>3 DEF TightFilters
  <2> QED BY <2>1, <2>2
<1>5. WindowsHeld'
  BY <1>1, <1>4 DEF Held, WindowsHeld, InForce
<1> QED BY <1>2, <1>5 DEF Held

LEMMA MacHolds ==
  ASSUME IInv, Held,
         \/ MacClean \/ MacArm \/ MacDevice \/ MacAllow \/ MacRoutes \/ Backup \/ Apply
         \/ MacRestore \/ MacDown
  PROVE  Held'
<1>1. CASE MacClean
  <2>1. /\ platform = "darwin" /\ step = "clean" /\ UNCHANGED <<platform, sup, conf>>
        /\ step' = IF conf.full THEN "arm" ELSE "device"
        /\ ~conf.full => \E after \in Flushes : anchor' = after /\ blamed' = Blame("ignored", after.on)
    BY <1>1 DEF MacClean, At, Goes, Released
  <2>2. ~conf.full => "ignored" \in blamed' \/ ~anchor'.on
    BY <2>1 DEF Blame
  <2> QED BY <2>1, <2>2 DEF Held, Order, WindowsHeld, MacHeld, InForce
<1>2. CASE MacArm
  <2>1. /\ platform = "darwin" /\ step = "arm" /\ UNCHANGED <<platform, conf>>
        /\ \/ step' = "device" /\ sup' = sup
           \/ step' = "idle" /\ sup' = "failed"
    BY <1>2 DEF MacArm, At, Goes, Failed
  <2> QED BY <2>1 DEF Held, Order, WindowsHeld, MacHeld, InForce
<1>3. CASE MacDevice
  <2>1. /\ platform = "darwin" /\ step = "device" /\ UNCHANGED <<platform, conf, anchor, blamed>>
        /\ \/ step' = (IF conf.full THEN "allow" ELSE "routes") /\ sup' = sup
           \/ step' = "idle" /\ sup' = "failed"
    BY <1>3 DEF MacDevice, At, Goes, Failed
  <2> QED BY <2>1 DEF Held, Order, WindowsHeld, MacHeld, InForce
<1>4. CASE MacAllow
  <2>1. /\ platform = "darwin" /\ step = "allow" /\ conf.full /\ UNCHANGED <<platform, conf>>
        /\ \/ /\ step' = "routes" /\ sup' = sup /\ anchor' = FullRules
              /\ "unenabled" \in blamed' \/ Enabled'
           \/ step' = "idle" /\ sup' = "failed"
    BY <1>4 DEF MacAllow, At, Goes, Failed, Loaded, Rules, Blame, FullRules, IInv, Mac
  <2> QED BY <2>1 DEF Held, Order, WindowsHeld, MacHeld, InForce, FullRules
<1>5. CASE MacRoutes
  <2>1. /\ platform = "darwin" /\ step = "routes"
        /\ UNCHANGED <<platform, conf, anchor, token, blamed>>
        /\ \/ step' = "backup" /\ sup' = sup /\ conf.full
           \/ step' = "idle"
    BY <1>5 DEF MacRoutes, At, Goes, Failed
  <2> QED BY <2>1 DEF Held, Order, WindowsHeld, MacHeld, InForce, FullRules, Enabled
<1>6. CASE Backup
  <2>1. /\ platform = "darwin" /\ step = "backup" /\ step' = "apply"
        /\ UNCHANGED <<platform, sup, conf, anchor, token>> /\ blamed \subseteq blamed'
    BY <1>6 DEF Backup, At
  <2> QED BY <2>1 DEF Held, Order, WindowsHeld, MacHeld, InForce, FullRules, Enabled
<1>7. CASE Apply
  <2>1. /\ platform = "darwin" /\ step = "apply" /\ step' = "idle" /\ conf.full
        /\ UNCHANGED <<platform, conf, anchor, blamed>>
        /\ token' = token \/ sup' = "down"
    BY <1>7 DEF Apply, At, IInv, Mac, Types
  <2> QED BY <2>1 DEF Held, Order, WindowsHeld, MacHeld, InForce, FullRules, Enabled
<1>8. CASE MacRestore \/ MacDown
  <2>1. /\ platform = "darwin" /\ UNCHANGED platform
        /\ step' = "release" \/ (step' = "idle" /\ sup' = "down")
    BY <1>8 DEF MacRestore, MacDown, At
  <2> QED BY <2>1 DEF Held, Order, WindowsHeld, MacHeld, InForce
<1> QED BY <1>1, <1>2, <1>3, <1>4, <1>5, <1>6, <1>7, <1>8

LEMMA HeldStep == ASSUME IInv, Held, [Next]_vars PROVE Held'
<1>1. CASE UNCHANGED vars
  BY <1>1 DEF vars, Held, Order, WindowsHeld, MacHeld, InForce, TightFilters, FullRules, Enabled
<1>2. CASE \E c \in Configs : Up(c)
  BY <1>2 DEF Up, Held, Order, WindowsHeld, MacHeld, InForce
<1>3. CASE \E a \in SUBSET {"scoped4", "scoped6"} : SetResolvers(a)
  BY <1>3, ResolversHold
<1>4. CASE WinClean \/ WinArm \/ WinDevice \/ WinDown \/ Hatch
  BY <1>4, WindowsHolds
<1>5. CASE MacClean \/ MacArm \/ MacDevice \/ MacAllow \/ MacRoutes \/ Backup \/ Apply
             \/ MacRestore \/ MacDown
  BY <1>5, MacHolds
<1>6. CASE Down \/ OwnerLost
  <2>1. /\ UNCHANGED <<platform, conf>>
        /\ \/ step' \in {"restore", "release"}
           \/ step' = "idle" /\ sup' = "failed"
    BY <1>6 DEF Down, OwnerLost
  <2> QED BY <2>1 DEF Held, Order, WindowsHeld, MacHeld, InForce
<1>7. CASE Crash \/ Restart
  <2>1. sup' = "down" /\ step' = "idle"
    BY <1>7 DEF Crash, Restart, IInv, Pace
  <2> QED BY <2>1 DEF Held, Order, WindowsHeld, MacHeld, InForce
<1> QED BY <1>1, <1>2, <1>3, <1>4, <1>5, <1>6, <1>7 DEF Next

\* A tunnel that is up lets pass exactly what the filters and rules in force say.
LEMMA TightHolds == ASSUME IInv, Held PROVE TightOrOpen
<1> SUFFICES ASSUME sup = "up", step = "idle"
             PROVE  IF conf.full
                    THEN blamed \cap {"hatch", "unenabled"} = {} =>
                           /\ {p \in Packets : Sanctioned(p)} \subseteq Passing
                           /\ \A p \in Passing : Sanctioned(p) \/ LinkLocalUpkeep(p)
                    ELSE "ignored" \notin blamed => wfp.groups = {} /\ ~anchor.on
  BY DEF TightOrOpen
<1>1. /\ platform \in {"darwin", "windows"} /\ alive
      /\ conf.full \in BOOLEAN /\ conf.v6 \in BOOLEAN /\ conf.cp \in BOOLEAN
  BY DEF IInv, Types, Pace, Configs
<1>2. CASE ~conf.full
  BY <1>1, <1>2 DEF IInv, Windows, Mac, Held, WindowsHeld, MacHeld, InForce
<1>3. CASE conf.full /\ platform = "darwin" /\ "unenabled" \notin blamed
  <2>1. Passing = {p \in Packets : PfPasses(buildPFRules(TRUE, conf.cp), p)}
    <3>1. anchor = [on |-> TRUE, tun |-> TRUE, cp |-> conf.cp]
      BY <1>3 DEF Held, MacHeld, InForce, FullRules
    <3>2. anchor.tun = TRUE /\ anchor.cp = conf.cp
      BY <3>1
    <3>3. Enabled
      BY <1>3 DEF Held, MacHeld, InForce
    <3>4. Passing = {p \in Packets : PfPasses(buildPFRules(anchor.tun, anchor.cp), p)}
      BY <1>3, <3>3 DEF Passing
    <3> QED BY <3>2, <3>4
  <2>2. \A p \in Packets :
          /\ Sanctioned(p) => PfPasses(buildPFRules(TRUE, conf.cp), p)
          /\ PfPasses(buildPFRules(TRUE, conf.cp), p) => Sanctioned(p) \/ LinkLocalUpkeep(p)
    BY <1>1, <1>3, PfDecides DEF Sanctioned, LinkLocalUpkeep
  <2> QED BY <1>3, <2>1, <2>2
<1>4. CASE conf.full /\ platform = "windows" /\ "hatch" \notin blamed
  <2>1. /\ wfp.v6 = conf.v6 /\ wfp.scoped \in SUBSET Scoped
        /\ wfp.groups \ {"scoped"} = Groups \ {"scoped"}
        /\ "scoped" \in wfp.groups <=> wfp.scoped # {}
    BY <1>4 DEF Held, WindowsHeld, InForce, TightFilters, IInv, Types, Objects, Scoped
  <2>2. Passing = {p \in Packets : WfpPasses(Filters(wfp), p)}
    BY <1>4 DEF Passing
  <2>3. ASSUME NEW p \in Packets
        PROVE  /\ Sanctioned(p) => WfpPasses(Filters(wfp), p)
               /\ WfpPasses(Filters(wfp), p) => Sanctioned(p) \/ LinkLocalUpkeep(p)
    <3> DEFINE servers == {"server4"} \cup IF wfp.v6 THEN {"server6"} ELSE {}
    <3>1. /\ Ranked(Filters(wfp)) /\ Hit(Filters(wfp), p, 0)
          /\ Hit(Filters(wfp), p, 15) <=>
               \/ p.app = "helper"
               \/ Dns(p) /\ p.remote \in servers
               \/ Dns(p) /\ p.remote \in wfp.scoped /\ p.iface = "tun"
          /\ Hit(Filters(wfp), p, 14) <=> Dns(p)
          /\ Hit(Filters(wfp), p, 13) <=> p.iface = "lo"
          /\ Hit(Filters(wfp), p, 12) => p.iface = "tun" \/ Dhcp(p) \/ Ndp(p)
          /\ p.iface = "tun" => Hit(Filters(wfp), p, 12)
      BY <1>1, <2>1, FilterHits
    <3>2. WfpPasses(Filters(wfp), p) <=>
           \/ Hit(Filters(wfp), p, 15)
           \/ ~Hit(Filters(wfp), p, 14) /\ (Hit(Filters(wfp), p, 13) \/ Hit(Filters(wfp), p, 12))
      BY <3>1, WfpDecides
    <3>3. servers = {"server4"} \cup IF conf.v6 THEN {"server6"} ELSE {}
      BY <2>1
    <3> HIDE DEF servers
    <3> QED BY <1>4, <3>1, <3>2, <3>3 DEF Sanctioned, LinkLocalUpkeep
  <2> QED BY <1>4, <2>2, <2>3
<1>5. CASE conf.full /\ blamed \cap {"hatch", "unenabled"} # {}
  BY <1>5
<1> QED BY <1>1, <1>2, <1>3, <1>4, <1>5

\* A full tunnel that is up passes every sanctioned packet, and of the others only the
\* link's upkeep; a split one holds nothing back: whatever failed or crashed before, short of
\* three things nobody reports: pf was never enabled (backend_darwin.go, armPF drops that
\* error), a removal failed before a split bring-up, or the operator removed the block.
THEOREM TightTheorem == Spec => []TightOrOpen
<1>1. Init => Held
  BY HeldInitially
<1>2. IInv /\ Held /\ [Next]_vars => Held'
  BY HeldStep
<1>3. IInv /\ Held => TightOrOpen
  BY TightHolds
<1> QED BY <1>1, <1>2, <1>3, Invariance, PTL DEF Spec

-----------------------------------------------------------------------------
(* The types, and what becomes of the enable reference of pf.              *)

Anchors == [on : BOOLEAN, tun : BOOLEAN, cp : BOOLEAN]
Tokens == [memory : BOOLEAN, file : BOOLEAN, leaked : BOOLEAN]

\* A process that does not run knows no reference, and one that runs knows the one on file.
Shape ==
  /\ step \in Steps /\ anchor \in Anchors /\ token \in Tokens
  /\ said \in {"none", "ok", "error"} /\ blamed \subseteq Blames
  /\ (token.memory => alive) /\ (token.file /\ alive => token.memory)
  /\ platform = "windows" => ~token.file

LEMMA LoadedShape ==
  ASSUME conf \in Configs, token \in Tokens, blamed \subseteq Blames, NEW tun \in BOOLEAN,
         Loaded(tun), token.file => token.memory
  PROVE  /\ anchor' \in Anchors /\ token' \in Tokens /\ (token'.file => token'.memory)
         /\ blamed' \subseteq Blames
<1>1. anchor' \in Anchors /\ blamed' \subseteq Blames
  BY DEF Loaded, Rules, Anchors, Configs, Blame, Blames
<1>2. CASE token' = token
  BY <1>1, <1>2
<1>3. CASE token' # token
  <2>1. PICK written \in BOOLEAN : token' = [token EXCEPT !.memory = TRUE, !.file = written]
    BY <1>3 DEF Loaded, Enablings
  <2> QED BY <1>1, <2>1 DEF Tokens
<1> QED BY <1>2, <1>3

LEMMA ForgottenShape ==
  ASSUME token \in Tokens, NEW known \in BOOLEAN, NEW t \in Forgotten(known)
  PROVE  t \in Tokens /\ ~t.memory /\ ~t.file
  BY DEF Forgotten, Tokens

LEMMA FlushedShape == ASSUME anchor \in Anchors, NEW after \in Flushes PROVE after \in Anchors
<1>1. NoRules \in Anchors
  BY DEF NoRules, Anchors
<1> QED BY <1>1 DEF Flushes

LEMMA AbandonedShape ==
  ASSUME token \in Tokens
  PROVE  /\ Abandoned \in Tokens /\ ~Abandoned.memory
         /\ [token EXCEPT !.leaked = TRUE] \in Tokens
         /\ [token EXCEPT !.leaked = TRUE].memory = token.memory
         /\ Abandoned.file = token.file /\ [token EXCEPT !.leaked = TRUE].file = token.file
  BY DEF Abandoned, Tokens

\* The calls of Windows, and those that leave the reference alone.
LEMMA SameReference ==
  ASSUME Shape, UNCHANGED <<platform, alive, anchor, token>>, step' \in Steps,
         said' \in {"none", "ok", "error"}, blamed' \subseteq Blames
  PROVE  Shape'
  BY DEF Shape

LEMMA ShapeStep == ASSUME IInv, Shape, [Next]_vars PROVE Shape'
<1>0. /\ step \in Steps /\ said \in {"none", "ok", "error"} /\ anchor \in Anchors /\ token \in Tokens
      /\ blamed \subseteq Blames /\ conf \in Configs
      /\ (token.memory => alive) /\ (token.file /\ alive => token.memory)
      /\ (platform = "windows" => ~token.file) /\ platform' = platform
      /\ token.memory \in BOOLEAN /\ token.file \in BOOLEAN
  <2>1. platform' = platform
    BY DEF Next, vars, WinClean, WinArm, WinDevice, WinDown, Hatch, SetResolvers, MacClean, MacArm,
           MacDevice, MacAllow, MacRoutes, Backup, Apply, MacRestore, MacDown, Up, Down, OwnerLost,
           Crash, Restart
  <2> QED BY <2>1 DEF IInv, Types, Shape, Tokens
<1>1. CASE WinClean
  BY <1>0, <1>1, SameReference DEF WinClean, At, Blame, Blames, darwin, Steps
<1>2. CASE WinArm
  BY <1>0, <1>2, SameReference DEF WinArm, At, Blame, Blames, darwin, Steps
<1>3. CASE WinDevice \/ WinDown
  BY <1>0, <1>3, SameReference DEF WinDevice, WinDown, At, darwin, Steps
<1>4. CASE Hatch \/ \E a \in SUBSET {"scoped4", "scoped6"} : SetResolvers(a)
  BY <1>0, <1>4, SameReference DEF Hatch, SetResolvers, At, Blames, darwin, Steps
<1>5. CASE MacClean
  <2>1. CASE conf.full
    BY <1>0, <1>5, <2>1, SameReference DEF MacClean, At, Goes, Steps
  <2>2. CASE ~conf.full
    <3>1. PICK after \in Flushes : Released(after) /\ blamed' = Blame("ignored", after.on)
      BY <1>5, <2>2 DEF MacClean
    <3>2. token' \in Forgotten(token.memory) /\ anchor' = after
      BY <3>1 DEF Released
    <3>3. blamed' \subseteq Blames /\ step' \in Steps /\ UNCHANGED <<alive, said>>
      BY <1>0, <1>5, <3>1 DEF MacClean, Goes, Blame, Blames, Steps
    <3> QED BY <1>0, <3>2, <3>3, ForgottenShape, FlushedShape DEF Shape
  <2> QED BY <2>1, <2>2
<1>6. CASE MacArm \/ MacAllow
  <2>1. step' \in Steps /\ UNCHANGED <<alive, said>> /\ alive /\ platform = "darwin"
    BY <1>6 DEF MacArm, MacAllow, At, Goes, Failed, Steps
  <2>2. CASE UNCHANGED <<anchor, token, blamed>>
    BY <1>0, <2>1, <2>2, SameReference
  <2>3. CASE \E tun \in BOOLEAN : Loaded(tun)
    <3>1. PICK tun \in BOOLEAN : Loaded(tun)
      BY <2>3
    <3>2. /\ anchor' \in Anchors /\ token' \in Tokens /\ (token'.file => token'.memory)
          /\ blamed' \subseteq Blames
      BY <1>0, <2>1, <3>1, LoadedShape
    <3> QED BY <1>0, <2>1, <3>2 DEF Shape
  <2> QED BY <1>6, <2>2, <2>3 DEF MacArm, MacAllow
<1>7. CASE MacDevice \/ MacRoutes \/ Backup
  <2>1. /\ UNCHANGED <<alive, anchor, token, said>> /\ step' \in Steps
        /\ blamed' \subseteq blamed \cup {"unsaved"}
    BY <1>7 DEF MacDevice, MacRoutes, Backup, Goes, Failed, Steps
  <2> QED BY <1>0, <2>1, SameReference DEF Blames
<1>8. CASE Apply
  <2>1. /\ UNCHANGED <<anchor, said, blamed>> /\ step' = "idle" /\ alive' \in BOOLEAN
        /\ alive' => alive
        /\ token' = IF alive' THEN token ELSE Abandoned
    BY <1>8 DEF Apply, At, IInv, Types
  <2>2. platform = "darwin"
    BY <1>8 DEF Apply, At
  <2> QED BY <1>0, <2>1, <2>2, AbandonedShape DEF Shape, Steps
<1>9. CASE MacRestore
  <2>1. blamed' \subseteq Blames
    BY <1>0, <1>9 DEF MacRestore, Restored, Blames
  <2> QED BY <1>0, <1>9, <2>1, SameReference DEF MacRestore, Steps
<1>10. CASE MacDown
  <2>1. PICK after \in Flushes : Released(after) /\ said' = IF after.on THEN "error" ELSE "ok"
    BY <1>10 DEF MacDown
  <2>2. token' \in Forgotten(token.memory) /\ anchor' = after
    BY <2>1 DEF Released
  <2>3. said' \in {"ok", "error"} /\ step' \in Steps /\ UNCHANGED <<alive, blamed>>
    BY <1>10, <2>1 DEF MacDown, Steps
  <2> QED BY <1>0, <2>2, <2>3, ForgottenShape, FlushedShape DEF Shape
<1>11. CASE \E c \in Configs : Up(c)
  BY <1>0, <1>11, SameReference DEF Up, Blames, darwin, Steps
<1>12. CASE Down \/ OwnerLost
  BY <1>0, <1>12, SameReference DEF Down, OwnerLost, darwin, Steps
<1>13. CASE Crash
  <2>1. /\ UNCHANGED blamed /\ step' = "idle" /\ said' = "none" /\ alive' = FALSE
        /\ \/ token' = Abandoned /\ anchor' = anchor
           \/ /\ ~token.memory /\ token' = [token EXCEPT !.leaked = TRUE]
              /\ anchor' = Rules(step = "allow")
    BY <1>13 DEF Crash
  <2>2. Rules(step = "allow") \in Anchors
    BY <1>0 DEF Rules, Anchors, Configs
  <2> QED BY <1>0, <2>1, <2>2, AbandonedShape DEF Shape, Steps
<1>14. CASE Restart
  <2>1. /\ step = "idle" /\ step' = step /\ said' = "none" /\ ~alive /\ alive' = TRUE
    BY <1>14 DEF Restart, IInv, Pace
  <2>2. CASE platform = "windows"
    <3>1. UNCHANGED <<anchor, token, blamed>>
      BY <1>14, <2>2 DEF Restart
    <3>2. token' \in Tokens /\ ~token'.file /\ ~token'.memory /\ anchor' \in Anchors
      BY <1>0, <2>1, <2>2, <3>1
    <3> QED BY <1>0, <2>1, <3>1, <3>2 DEF Shape, Steps
  <2>3. CASE platform # "windows"
    <3>1. anchor' \in Flushes /\ token' \in Forgotten(token.file)
      BY <1>14, <2>3 DEF Restart
    <3>2. blamed' \subseteq Blames
      BY <1>0, <1>14, <2>3 DEF Restart, Restored, Blames
    <3> QED BY <1>0, <2>1, <3>1, <3>2, ForgottenShape, FlushedShape DEF Shape, Steps
  <2> QED BY <2>2, <2>3
<1>15. CASE UNCHANGED vars
  BY <1>15 DEF vars, Shape
<1> QED BY <1>1, <1>2, <1>3, <1>4, <1>5, <1>6, <1>7, <1>8, <1>9, <1>10, <1>11, <1>12, <1>13,
           <1>14, <1>15 DEF Next

\* Every variable keeps its type; the enable reference on file, if there is one, is the one the
\* running process knows, so a teardown releases what a successor would look for
\* (backend_darwin.go, armPF, releasePF and CleanStale).
THEOREM TypeCorrect == Spec => []TypeOK
<1>1. Init => Shape
  BY DEF Init, Shape, Steps, NoToken, NoRules, Tokens, Anchors, Blames
<1>2. IInv /\ Shape /\ [Next]_vars => Shape'
  BY ShapeStep
<1>3. IInv /\ Shape => TypeOK
  BY DEF IInv, Types, Shape, TypeOK, Objects, Anchors, Tokens
<1> QED BY <1>1, <1>2, <1>3, Invariance, PTL DEF Spec
=============================================================================
