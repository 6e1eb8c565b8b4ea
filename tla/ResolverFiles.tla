--------------------------- MODULE ResolverFiles ---------------------------
(***************************************************************************)
(* The helper's domain-scoped resolvers: the files of /etc/resolver that   *)
(* carry our marker (resolver_darwin.go) or the NRPT rules that carry our  *)
(* comment (nrpt.go, backend_windows_dns.go).  A reconcile is a job of     *)
(* several steps, each of which may fail: the handler of the client's      *)
(* connection runs one, the handler of a connection the client gave up may *)
(* still be running another, and the dead-man's sweep a third.  On macOS   *)
(* nothing keeps them apart; on Windows SetResolvers holds a mutex and     *)
(* looks again at the device before it answers, but a sweep does neither.  *)
(*                                                                         *)
(* A forward is its domain: that two resolvers of one domain differ only   *)
(* changes what an overwrite writes.  Foreign domains never lose their     *)
(* foreign file or rule.  Windows' scoped permissions of the firewall are  *)
(* a step that may refuse.                                                 *)
(***************************************************************************)
EXTENDS Naturals, FiniteSets

CONSTANTS
  Platforms,    \* those a run considers
  Domains,      \* the domains a forward may name
  Foreign       \* those a human or another tool already has an entry for

ASSUME ResolverAssumption == Platforms \subseteq {"darwin", "windows"} /\ Foreign \subseteq Domains

VARIABLES
  platform,     \* fixed by Init
  device,       \* the session whose device exists, 0 when there is none
  owned,        \* the domains with an entry of ours
  jobs,         \* the reconcile each worker runs
  disturbed     \* history: a sweep of everything failed, a request was given up under way,
                \* or one of macOS met the dead-man

resolvers == <<platform, device, owned, jobs, disturbed>>

Workers == {"call", "late", "sweep"}
Points == {"idle", "lock", "list", "write", "remove", "add", "check", "done"}
Results == {"ok", "refused", "stale"}

NoJob == [at |-> "idle", want |-> {}, mine |-> {}, todo |-> {}, made |-> {},
          seen |-> 0, guarded |-> FALSE, out |-> "ok"]

Job == [at : Points, want : SUBSET Domains, mine : SUBSET Domains, todo : SUBSET Domains,
        made : SUBSET Domains, seen : Nat, guarded : BOOLEAN, out : Results]

ResolversTypeOK ==
  /\ platform \in Platforms /\ device \in Nat /\ owned \subseteq Domains
  /\ jobs \in [Workers -> Job] /\ disturbed \in BOOLEAN

ResolversInit ==
  /\ platform \in Platforms
  /\ device = 0 /\ owned = {} /\ jobs = [w \in Workers |-> NoJob] /\ disturbed = FALSE

Windows == platform = "windows"

Busy(w) == jobs[w].at \notin {"idle", "done"}

\* A request of a client.
Requested(want) ==
  [NoJob EXCEPT !.at = IF Windows THEN "lock" ELSE "list", !.want = want, !.guarded = Windows]

\* CleanStaleResolvers, of the dead-man: no lock, no second look at the device.
Sweeping == [NoJob EXCEPT !.at = "list"]

Put(w, j) == jobs' = [jobs EXCEPT ![w] = j]

\* The end of a reconcile.  A sweep of everything that fails is remembered.
Finish(w, j, out) ==
  /\ Put(w, [j EXCEPT !.at = IF j.guarded THEN "check" ELSE "done",
                      !.out = IF j.out = "stale" THEN "stale" ELSE out])
  /\ disturbed' = (disturbed \/ (out = "refused" /\ j.want = {}))

Holds(w) == jobs[w].guarded /\ Busy(w) /\ jobs[w].at # "lock"

\* SetResolvers of the Windows backend, to the call of the reconcile.
Lock(w) ==
  LET j == jobs[w] IN
  /\ j.at = "lock" /\ \A v \in Workers : ~Holds(v)
  /\ \/ /\ device # 0 \/ j.want = {}
        /\ Put(w, [j EXCEPT !.at = "list", !.seen = device])
        /\ disturbed' = disturbed
     \/ /\ device = 0 /\ j.want # {}
        /\ Put(w, [j EXCEPT !.at = "done", !.out = "refused", !.guarded = FALSE])
        /\ disturbed' = disturbed
     \/ device # 0 /\ Finish(w, [j EXCEPT !.guarded = FALSE], "refused")   \* the firewall refused
  /\ UNCHANGED <<platform, device, owned>>

\* Every entry is validated, ours are listed, a foreign one refuses the whole.
List(w) ==
  LET j == jobs[w] IN
  /\ j.at = "list"
  /\ \/ Finish(w, j, "refused")
     \/ /\ j.want \cap Foreign = {}
        /\ Put(w, [j EXCEPT !.mine = owned, !.todo = j.want,
                            !.at = IF Windows THEN "remove" ELSE "write"])
        /\ disturbed' = disturbed
  /\ UNCHANGED <<platform, device, owned>>

\* macOS: the desired files first.  A failed write takes back those this call created,
\* never those it overwrote.
Write(w) ==
  LET j == jobs[w] IN
  /\ j.at = "write" /\ UNCHANGED <<platform, device>>
  /\ \/ \E d \in j.todo :
          \/ /\ owned' = owned \cup {d}
             /\ Put(w, [j EXCEPT !.todo = @ \ {d}, !.made = @ \cup ({d} \ owned)])
             /\ disturbed' = disturbed
          \/ owned' = owned \ j.made /\ Finish(w, j, "refused")
     \/ /\ j.todo = {} /\ Put(w, [j EXCEPT !.at = "remove", !.todo = j.mine \ j.want])
        /\ UNCHANGED <<owned, disturbed>>

\* macOS removes what is no longer desired, Windows everything that was listed.
Remove(w) ==
  LET j == jobs[w]
      left == IF Windows THEN j.mine ELSE j.todo IN
  /\ j.at = "remove" /\ UNCHANGED <<platform, device>>
  /\ \/ \E d \in left :
          \/ /\ owned' = owned \ {d}
             /\ Put(w, IF Windows THEN [j EXCEPT !.mine = @ \ {d}] ELSE [j EXCEPT !.todo = @ \ {d}])
             /\ disturbed' = disturbed
          \/ owned' = owned /\ Finish(w, j, "refused")
     \/ /\ left = {} /\ owned' = owned
        /\ IF Windows THEN Put(w, [j EXCEPT !.at = "add"]) /\ disturbed' = disturbed
           ELSE Finish(w, j, "ok")

Add(w) ==
  LET j == jobs[w] IN
  /\ j.at = "add" /\ UNCHANGED <<platform, device>>
  /\ \/ \E d \in j.todo :
          \/ /\ owned' = owned \cup {d} /\ Put(w, [j EXCEPT !.todo = @ \ {d}])
             /\ disturbed' = disturbed
          \/ owned' = owned /\ Finish(w, j, "refused")
     \/ j.todo = {} /\ owned' = owned /\ Finish(w, j, "ok")

\* Windows: a result that comes after the session changed is swept before the mutex goes.
Unchecked(w) ==                                \* faulty variant: the device is not looked at again
  /\ jobs[w].at = "check" /\ Put(w, [jobs[w] EXCEPT !.at = "done"])
  /\ UNCHANGED <<platform, device, owned, disturbed>>
Check(w) ==
  LET j == jobs[w] IN
  /\ j.at = "check"
  /\ Put(w, IF j.seen # device /\ j.out # "stale"
            THEN [j EXCEPT !.at = "list", !.want = {}, !.out = "stale"]
            ELSE [j EXCEPT !.at = "done", !.guarded = FALSE])
  /\ UNCHANGED <<platform, device, owned, disturbed>>

Reconcile(w) ==
  Lock(w) \/ List(w) \/ Write(w) \/ Remove(w) \/ Add(w) \/ Check(w)

=============================================================================
