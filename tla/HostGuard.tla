----------------------------- MODULE HostGuard -----------------------------
(***************************************************************************)
(* What the helper leaves on the host for a full tunnel, and takes back:   *)
(* the kill-switch (WFP objects on Windows, a pf anchor and its enable     *)
(* reference on macOS) and the system resolvers of macOS.  All of it       *)
(* outlives the process.  HelperSupervisor has the supervisor's lock and   *)
(* its callers; here its calls come one at a time, each in the steps a     *)
(* crash can fall between, and each call of the operating system may fail, *)
(* with two exceptions: a file that is there can be read and removed.      *)
(***************************************************************************)
EXTENDS PacketRules

CONSTANTS
  Services,     \* the enabled network services of a Mac
  NoBackup      \* no file at dnsBackupPath, or one that does not parse

\* "auto" is the automatic setting, where the user's own is another one.
Resolvers == [Services -> {"own", "tunnel", "auto"}]

ASSUME GuardAssumption == NoBackup \notin Resolvers

VARIABLES
  platform,     \* "darwin" or "windows"
  alive, sup,   \* the helper process, and Supervisor.state
  step, conf,   \* the bring-up under way, and its configuration
  armed,        \* windowsBackend.armed
  wfp,          \* the objects under the fixed keys
  anchor,       \* the pf rules loaded
  token,        \* the pf enable references held: known in memory, on file, to nobody
  dns, backup,  \* each service's resolver, and dns.json
  said,         \* what the last Down returned
  blamed        \* history: what has gone wrong that no answer reports

vars == <<platform, alive, sup, step, conf, armed, wfp, anchor, token, dns, backup, said, blamed>>

\* The filters go in together; what a failed removal leaves is some of the groups.
Groups == {"service", "dns", "loopback", "tun", "dhcp4", "dhcp6", "ndp", "block", "scoped"}
NoObjects == [base |-> FALSE, groups |-> {}, v6 |-> FALSE, scoped |-> {}]
NoRules == [on |-> FALSE, tun |-> FALSE, cp |-> FALSE]
NoToken == [memory |-> FALSE, file |-> FALSE, leaked |-> FALSE]
Steps == {"idle", "clean", "arm", "device", "allow", "routes", "backup", "apply", "restore", "release"}
Configs == [full : BOOLEAN, v6 : BOOLEAN, cp : BOOLEAN]
Blames == {"ignored", "reentered", "unset", "unsaved", "unenabled", "hatch"}

TypeOK ==
  /\ platform \in {"darwin", "windows"} /\ alive \in BOOLEAN
  /\ sup \in {"down", "up", "failed"} /\ step \in Steps /\ conf \in Configs /\ armed \in BOOLEAN
  /\ wfp \in [base : BOOLEAN, groups : SUBSET Groups, v6 : BOOLEAN,
              scoped : SUBSET {"scoped4", "scoped6"}]
  /\ anchor \in [on : BOOLEAN, tun : BOOLEAN, cp : BOOLEAN]
  /\ token \in [memory : BOOLEAN, file : BOOLEAN, leaked : BOOLEAN]
  /\ dns \in Resolvers /\ backup \in Resolvers \cup {NoBackup}
  /\ said \in {"none", "ok", "error"} /\ blamed \subseteq Blames
  /\ token.memory => alive                                \* lost with the process
  /\ token.file /\ alive => token.memory                  \* what is on file is what it knows
  /\ wfp.groups # {} => wfp.base

Init ==
  /\ platform \in {"darwin", "windows"} /\ alive = TRUE /\ sup = "down" /\ step = "idle"
  /\ conf = [full |-> FALSE, v6 |-> FALSE, cp |-> FALSE] /\ armed = FALSE
  /\ wfp = NoObjects /\ anchor = NoRules /\ token = NoToken
  /\ dns = [s \in Services |-> "own"] /\ backup = NoBackup
  /\ said = "none" /\ blamed = {}

At(p, s) == alive /\ platform = p /\ step = s
Blame(what, cond) == IF cond THEN blamed \cup {what} ELSE blamed \ {what}

windows == <<armed, wfp>>
darwin == <<anchor, token, dns, backup>>

-----------------------------------------------------------------------------
(* Windows.                                                                *)

\* removePersistentObjects, in an engine of its own: enumeration may be cut short and a
\* deletion may fail, yet what was deleted is committed; WFP keeps a sublayer in use.
Cleaned(w) ==
  IF ~w.base THEN {w}
  ELSE {NoObjects} \cup {[w EXCEPT !.groups = left] : left \in SUBSET w.groups}

Whole(v6) == [base |-> TRUE, groups |-> Groups \ {"scoped"}, v6 |-> v6, scoped |-> {}]

WinClean ==
  /\ At("windows", "clean")
  /\ \E w \in Cleaned(wfp) : wfp' = w /\ blamed' = Blame("ignored", w.base)
  /\ armed' = FALSE /\ step' = IF conf.full THEN "arm" ELSE "device"
  /\ UNCHANGED <<platform, alive, sup, conf, darwin, said>>

\* EnableFirewall: clean, register, install, the last two in one transaction.
WinArm ==
  /\ At("windows", "arm")
  /\ \E w \in Cleaned(wfp) :
       \/ /\ ~w.base /\ wfp' = Whole(conf.v6) /\ armed' = TRUE /\ step' = "device"
          /\ blamed' = blamed \ {"ignored", "hatch"}
       \/ /\ wfp' = w /\ armed' = armed /\ step' = "idle"       \* wfp_arm_failed
          /\ blamed' = Blame("ignored", w.base)
  /\ UNCHANGED <<platform, alive, sup, conf, darwin, said>>

\* The adapter, its device, addresses, routes, endpoint pin and resolvers.
WinDevice ==
  /\ At("windows", "device") /\ step' = "idle" /\ sup' \in {"up", "failed"}
  /\ UNCHANGED <<platform, alive, conf, windows, darwin, said, blamed>>

\* ReplaceScopedDNSResolvers, one transaction over four fixed keys.
SetResolvers(addresses) ==
  /\ At("windows", "idle") /\ sup = "up" /\ conf.full /\ (conf.v6 \/ "scoped6" \notin addresses)
  /\ \/ /\ wfp.base
        /\ wfp' = [wfp EXCEPT !.scoped = addresses,
                              !.groups = IF addresses = {} THEN @ \ {"scoped"} ELSE @ \cup {"scoped"}]
     \/ wfp' = wfp
  /\ UNCHANGED <<platform, alive, sup, step, conf, armed, darwin, said, blamed>>

WinDownTrusts ==                               \* faulty variant: the removal's error is not returned
  /\ At("windows", "release")
  /\ IF armed THEN (\E w \in Cleaned(wfp) : wfp' = w /\ armed' = w.base) ELSE UNCHANGED windows
  /\ said' = "ok"
  /\ sup' = "down" /\ step' = "idle" /\ UNCHANGED <<platform, alive, conf, darwin, blamed>>
WinDown ==
  /\ At("windows", "release")
  /\ IF armed
     THEN \E w \in Cleaned(wfp) :
            wfp' = w /\ armed' = w.base /\ said' = (IF w.base THEN "error" ELSE "ok")
     ELSE UNCHANGED windows /\ said' = "ok"
  /\ sup' = "down" /\ step' = "idle" /\ UNCHANGED <<platform, alive, conf, darwin, blamed>>

\* tunnex-helper --wfp-clean, run by an operator in a process of its own.
Hatch ==
  /\ platform = "windows" /\ \E w \in Cleaned(wfp) : wfp' = w
  /\ blamed' = blamed \cup {"hatch"}
  /\ UNCHANGED <<platform, alive, sup, step, conf, armed, darwin, said>>

-----------------------------------------------------------------------------
(* macOS.                                                                  *)

\* armPF: the rules, then an enable reference unless one is known in memory.  The error of
\* pfctl -E is dropped, and the one of the file it should be written to.  Without a reference
\* of ours pf may be off, whatever rules are loaded.
Rules(tun) == [on |-> TRUE, tun |-> tun, cp |-> conf.cp]
Enabled == token.memory \/ token.file \/ token.leaked
Enablings ==
  IF token.memory THEN {token}
  ELSE {token} \cup {[token EXCEPT !.memory = TRUE, !.file = written] : written \in BOOLEAN}

Loaded(tun) ==
  /\ anchor' = Rules(tun) /\ token' \in Enablings
  /\ blamed' = Blame("unenabled", ~Enabled')

\* releasePF: the flush may fail, and so may pfctl -X, whose error is dropped; either way the
\* reference is forgotten.
Forgotten(known) ==
  {[token EXCEPT !.memory = FALSE, !.file = FALSE, !.leaked = lost] :
     lost \in IF known THEN {TRUE, token.leaked} ELSE {token.leaked}}
Released(after) == anchor' = after /\ token' \in Forgotten(token.memory)
Flushes == {NoRules, anchor}

Failed == sup' = "failed" /\ step' = "idle" /\ UNCHANGED <<dns, backup>>
Goes(s) == step' = s /\ UNCHANGED <<sup, dns, backup>>

MacClean ==
  /\ At("darwin", "clean")
  /\ IF conf.full THEN UNCHANGED <<anchor, token, blamed>>
     ELSE \E after \in Flushes : Released(after) /\ blamed' = Blame("ignored", after.on)
  /\ Goes(IF conf.full THEN "arm" ELSE "device")
  /\ UNCHANGED <<platform, alive, conf, windows, said>>

MacArm ==
  /\ At("darwin", "arm")
  /\ (Loaded(FALSE) /\ Goes("device")) \/ (Failed /\ UNCHANGED <<anchor, token, blamed>>)
  /\ UNCHANGED <<platform, alive, conf, windows, said>>

MacDevice ==
  /\ At("darwin", "device") /\ (Goes(IF conf.full THEN "allow" ELSE "routes") \/ Failed)
  /\ UNCHANGED <<platform, alive, conf, windows, anchor, token, said, blamed>>

MacAllow ==
  /\ At("darwin", "allow")
  /\ (Loaded(TRUE) /\ Goes("routes")) \/ (Failed /\ UNCHANGED <<anchor, token, blamed>>)
  /\ UNCHANGED <<platform, alive, conf, windows, said>>

\* Resolvers are touched for a full tunnel that names some, if the services can be listed.
MacRoutes ==
  /\ At("darwin", "routes")
  /\ \/ conf.full /\ Goes("backup")
     \/ sup' = "up" /\ step' = "idle" /\ UNCHANGED <<dns, backup>>
     \/ Failed
  /\ UNCHANGED <<platform, alive, conf, windows, anchor, token, said, blamed>>

\* applyDNS: the backup comes before any service is touched.  A service that cannot be read is
\* recorded as automatic, and a file that cannot be written is no reason to stop.
Recorded(unread) == [s \in Services |-> IF s \in unread THEN "auto" ELSE dns[s]]

BackupLate ==                                  \* faulty variant: the backup is forgotten
  /\ At("darwin", "backup") /\ backup' = backup /\ step' = "apply"
  /\ UNCHANGED <<platform, alive, sup, conf, windows, anchor, token, dns, said, blamed>>
Backup ==
  /\ At("darwin", "backup") /\ step' = "apply"
  /\ backup' \in {Recorded(unread) : unread \in SUBSET Services} \cup {backup, NoBackup}
  /\ blamed' = IF backup' = dns THEN blamed ELSE blamed \cup {"unsaved"}
  /\ UNCHANGED <<platform, alive, sup, conf, windows, anchor, token, dns, said>>

\* What the end of the process makes of the references: one that was not on file is lost.
Abandoned == [token EXCEPT !.memory = FALSE, !.leaked = @ \/ (token.memory /\ ~token.file)]

Apply ==
  /\ At("darwin", "apply")
  /\ \E some \in SUBSET Services :
       \/ /\ dns' = [s \in Services |-> IF s \in some THEN "tunnel" ELSE dns[s]]
          /\ step' = "idle" /\ sup' = "up" /\ alive' = alive
     \* the process may end between two services
       \/ /\ dns' = [s \in Services |-> IF s \in some THEN "tunnel" ELSE dns[s]]
          /\ step' = "idle" /\ sup' = "down" /\ alive' = FALSE
  /\ token' = IF alive' THEN token ELSE Abandoned
  /\ UNCHANGED <<platform, conf, windows, anchor, backup, said, blamed>>

\* restoreDNS: a service that cannot be set is passed over, and the backup goes all the same.
Restored ==
  IF backup = NoBackup THEN UNCHANGED <<dns, backup, blamed>>
  ELSE \E some \in SUBSET Services :
         /\ dns' = [s \in Services |-> IF s \in some THEN backup[s] ELSE dns[s]]
         /\ backup' = NoBackup
         /\ blamed' = IF some = Services THEN blamed ELSE blamed \cup {"unset"}

MacRestore ==
  /\ At("darwin", "restore") /\ Restored /\ step' = "release"
  /\ UNCHANGED <<platform, alive, sup, conf, windows, anchor, token, said>>

MacDown ==
  /\ At("darwin", "release")
  /\ \E after \in Flushes : Released(after) /\ said' = IF after.on THEN "error" ELSE "ok"
  /\ sup' = "down" /\ step' = "idle"
  /\ UNCHANGED <<platform, alive, conf, windows, dns, backup, blamed>>

-----------------------------------------------------------------------------
(* The supervisor's calls, and the process.                                *)

Up(c) ==
  /\ alive /\ step = "idle" /\ sup # "up" /\ step' = "clean" /\ conf' = c /\ said' = "none"
  /\ c.v6 => c.full /\ platform = "windows"       \* what the other one makes no difference of
  /\ c.cp => c.full /\ platform = "darwin"
  /\ blamed' = IF platform = "darwin" /\ c.full /\ sup = "failed"
               THEN blamed \cup {"reentered"} ELSE blamed
  /\ UNCHANGED <<platform, alive, sup, windows, darwin>>

Down ==
  /\ alive /\ step = "idle" /\ sup # "down"
  /\ step' = IF platform = "darwin" THEN "restore" ELSE "release"
  /\ UNCHANGED <<platform, alive, sup, conf, windows, darwin, said, blamed>>

\* The owner is lost: FailClosed closes the device, and touches nothing else.
OwnerLost ==
  /\ alive /\ step = "idle" /\ sup = "up" /\ sup' = "failed"
  /\ UNCHANGED <<platform, alive, step, conf, windows, darwin, said, blamed>>

Crash ==
  /\ alive /\ alive' = FALSE /\ sup' = "down" /\ step' = "idle" /\ said' = "none"
  /\ armed' = FALSE
  /\ \/ token' = Abandoned /\ anchor' = anchor
     \* inside armPF, between the reference and the file
     \/ /\ platform = "darwin" /\ step \in {"arm", "allow"} /\ ~token.memory
        /\ token' = [token EXCEPT !.leaked = TRUE] /\ anchor' = Rules(step = "allow")
  /\ UNCHANGED <<platform, conf, wfp, dns, backup, blamed>>

\* SelfHeal before it serves: CleanStale.
Restart ==
  /\ ~alive /\ alive' = TRUE /\ said' = "none"
  /\ IF platform = "windows"
     THEN /\ \E w \in Cleaned(wfp) : wfp' = w /\ UNCHANGED <<anchor, token, dns, backup, blamed>>
     ELSE /\ Restored /\ anchor' \in Flushes /\ token' \in Forgotten(token.file) /\ UNCHANGED wfp
  /\ UNCHANGED <<platform, sup, step, conf, armed>>

Next ==
  \/ WinClean \/ WinArm \/ WinDevice \/ WinDown \/ Hatch
  \/ \E a \in SUBSET {"scoped4", "scoped6"} : SetResolvers(a)
  \/ MacClean \/ MacArm \/ MacDevice \/ MacAllow \/ MacRoutes \/ Backup \/ Apply
  \/ MacRestore \/ MacDown
  \/ \E c \in Configs : Up(c)
  \/ Down \/ OwnerLost \/ Crash \/ Restart

Spec == Init /\ [][Next]_vars

-----------------------------------------------------------------------------
(* Properties.                                                             *)

\* The filters in place, from the groups that are.
Filters(w) ==
  LET servers == {"server4"} \cup IF w.v6 THEN {"server6"} ELSE {}
      of(g) == CASE g = "service" -> permitWireGuardService [] g = "dns" -> blockDNS(servers)
                 [] g = "loopback" -> permitLoopback [] g = "tun" -> permitTunInterface
                 [] g = "dhcp4" -> permitDHCPIPv4 [] g = "dhcp6" -> permitDHCPIPv6
                 [] g = "ndp" -> permitNdp [] g = "block" -> blockAll
                 [] g = "scoped" -> installScopedDNSPermits(w.scoped) IN
  UNION {of(g) : g \in w.groups}

Passing ==
  IF platform = "windows" THEN LET f == Filters(wfp) IN {p \in Packets : WfpPasses(f, p)}
  ELSE IF ~Enabled THEN Packets
  ELSE LET rules == buildPFRules(anchor.tun, anchor.cp) IN {p \in Packets : PfPasses(rules, p)}

Sanctioned(p) ==
  \/ platform = "windows" /\ p.app = "helper"
  \/ platform = "windows" /\ Dns(p) /\ p.remote \in {"server4"} \cup IF conf.v6 THEN {"server6"} ELSE {}
  \/ platform = "windows" /\ Dns(p) /\ p.remote \in wfp.scoped /\ p.iface = "tun"
  \/ (platform = "darwin" \/ ~Dns(p)) /\ p.iface \in {"lo", "tun"}
  \/ platform = "darwin" /\ ~Outward(p.layer)
  \/ platform = "darwin" /\ p.proto = "udp" /\ p.remote = "gateway"
  \/ platform = "darwin" /\ conf.cp /\ p.proto = "tcp" /\ p.remote = "controller"

LinkLocalUpkeep(p) == Dhcp(p) \/ Ndp(p) \/ (platform = "darwin" /\ p.proto = "icmp6")

\* A full tunnel that is up lets pass what it is meant to carry, the upkeep of the link, and
\* nothing else, unless the operator removed the block or pf was never enabled; under a split
\* tunnel nothing is held back, unless a block was left over that could not be removed.
TightOrOpen ==
  sup = "up" /\ step = "idle" =>
    IF conf.full
    THEN blamed \cap {"hatch", "unenabled"} = {} =>
           /\ {p \in Packets : Sanctioned(p)} \subseteq Passing
           /\ \A p \in Passing : Sanctioned(p) \/ LinkLocalUpkeep(p)
    ELSE "ignored" \notin blamed => wfp.groups = {} /\ ~anchor.on

\* A teardown that says it succeeded leaves the host free, unless the bring-up before it
\* passed over a block it could not remove.
OkMeansFree ==
  said = "ok" /\ "ignored" \notin blamed => wfp.groups = {} /\ ~anchor.on

\* The user's own resolvers are in use or in the backup; and in use once a tunnel is down.
\* Excused are the four ways to lose them that no answer reports: a backup over another one,
\* one not written or not read right, and a service that could not be set back.
Losses == {"reentered", "unset", "unsaved"}
Kept == \A s \in Services : dns[s] = "own" \/ (backup # NoBackup /\ backup[s] = "own")
ResolverKept ==
  blamed \cap Losses = {} =>
    Kept /\ (alive /\ sup = "down" /\ step = "idle" => \A s \in Services : dns[s] = "own")

\* The same when a failed full tunnel is brought up again, as long as every service could be
\* set: Down and CleanStale have the prior setting to restore.
PriorSettingSaved == blamed \cap {"unset", "unsaved"} = {} => Kept

\* A crash while the services are set is recoverable, whatever could be read and written.
RecoverableMidApply == blamed \cap {"unset", "reentered"} = {} => Kept

\* A full tunnel that is up is blocked from everything else.
UpIsEnforced ==
  sup = "up" /\ step = "idle" /\ conf.full /\ platform = "darwin" => Enabled

\* No enable reference is left that nobody can release.
NoneLeaked == ~token.leaked

=============================================================================
