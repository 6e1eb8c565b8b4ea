---------------------------- MODULE PacketRules ----------------------------
(***************************************************************************)
(* What the two kill-switches let pass.  A packet is a record of the       *)
(* fields their conditions name.  A WFP filter belongs to a layer and has  *)
(* a weight, an action and conditions, a function from fields to the       *)
(* values they match (a repeated condition is one of several values); the  *)
(* heaviest filter that matches decides.  In a pf anchor the last rule     *)
(* that matches decides, unless one before it is quick.                    *)
(***************************************************************************)
EXTENDS Naturals, FiniteSets, Sequences

Layers == {"out4", "in4", "out6", "in6"}
Outward(l) == l \in {"out4", "out6"}
Six(l) == l \in {"out6", "in6"}

\* An ICMP type and code take the places of the local and the remote port.
Shapes4 == {<<"udp", 0, 53>>, <<"tcp", 0, 53>>, <<"udp", 68, 67>>, <<"tcp", 0, 443>>, <<"udp", 0, 443>>}
Shapes6 == (Shapes4 \ {<<"udp", 68, 67>>}) \cup {<<"udp", 546, 547>>}
           \cup {<<"icmp6", type, 0>> : type \in 128..137}
Remotes4 == {"server4", "scoped4", "gateway", "controller", "broadcast", "far4"}
Remotes6 == {"server6", "scoped6", "dhcpcast", "routers", "linklocal", "far6"}

Packet(l, shape, local, remote, iface, app) ==
  [layer |-> l, proto |-> shape[1], lport |-> shape[2], rport |-> shape[3],
   local |-> local, remote |-> remote, iface |-> iface, app |-> app]

Packets ==
  {Packet(l, sh, "own", r, i, a) : l \in {"out4", "in4"}, sh \in Shapes4, r \in Remotes4,
                                   i \in {"lo", "tun", "nic"}, a \in {"helper", "user"}}
  \cup {Packet(l, sh, own, r, i, a) : l \in {"out6", "in6"}, sh \in Shapes6, r \in Remotes6,
                                      own \in {"own", "linklocal"},
                                      i \in {"lo", "tun", "nic"}, a \in {"helper", "user"}}

Dns(p)  == p.rport = 53
Dhcp(p) == p.proto = "udp" /\ <<p.lport, p.rport>> \in {<<68, 67>>, <<546, 547>>}
Ndp(p)  == p.proto = "icmp6" /\ p.lport \in 133..137

-----------------------------------------------------------------------------
(* The filters of EnableFirewall, and those of the scoped resolvers.       *)

On(layers, weight, permit, when) ==
  {[layer |-> l, weight |-> weight, permit |-> permit, when |-> when] : l \in layers}

permitTunInterface == On(Layers, 12, TRUE, [iface |-> {"tun"}])
permitWireGuardService == On(Layers, 15, TRUE, [app |-> {"helper"}])
permitLoopback == On(Layers, 13, TRUE, [iface |-> {"lo"}])

permitDHCPIPv4 ==
  LET ports == [proto |-> {"udp"}, lport |-> {68}, rport |-> {67}] IN
  On({"in4"}, 12, TRUE, ports)
  \cup On({"out4"}, 12, TRUE, [proto |-> {"udp"}, lport |-> {68}, rport |-> {67},
                               remote |-> {"broadcast"}])
permitDHCPIPv6 ==
  LET to(remotes) == [proto |-> {"udp"}, lport |-> {546}, rport |-> {547},
                      local |-> {"linklocal"}, remote |-> remotes] IN
  On({"out6"}, 12, TRUE, to({"dhcpcast"})) \cup On({"in6"}, 12, TRUE, to({"linklocal"}))

permitNdp ==
  LET message(types) == [proto |-> {"icmp6"}, lport |-> types, rport |-> {0}]
      with(types, remote) == [proto |-> {"icmp6"}, lport |-> types, rport |-> {0},
                              remote |-> {remote}] IN
  On({"out6"}, 12, TRUE, with({133}, "routers"))
  \cup On({"in6"}, 12, TRUE, with({134}, "linklocal"))
  \cup On({"out6", "in6"}, 12, TRUE, message({135}))
  \cup On({"out6", "in6"}, 12, TRUE, message({136}))
  \cup On({"in6"}, 12, TRUE, with({137}, "linklocal"))

blockAll == On(Layers, 0, FALSE, [f \in {} |-> {}])

OfFamily(six, addresses) ==
  addresses \cap IF six THEN {"server6", "scoped6"} ELSE {"server4", "scoped4"}

\* One permit per direction of a family that has an address at all: none means any.
Exactly(addresses, when(_)) ==
  UNION {LET mine == OfFamily(Six(l), addresses) IN
         IF mine = {} THEN {} ELSE On({l}, 15, TRUE, when(mine)) : l \in Layers}

blockDNS(except) ==
  LET dns == [proto |-> {"udp", "tcp"}, rport |-> {53}]
      allow(mine) == [proto |-> {"udp", "tcp"}, rport |-> {53}, remote |-> mine] IN
  On(Layers, 14, FALSE, dns) \cup Exactly(except, allow)

scopedAnywhere(addresses) ==                   \* faulty variant: not bound to the tunnel
  LET allow(mine) == [proto |-> {"udp", "tcp"}, rport |-> {53}, remote |-> mine] IN
  Exactly(addresses, allow)
installScopedDNSPermits(addresses) ==
  LET allow(mine) == [proto |-> {"udp", "tcp"}, rport |-> {53}, remote |-> mine,
                      iface |-> {"tun"}] IN
  Exactly(addresses, allow)

WfpPasses(filters, p) ==
  LET hits == {f \in filters : f.layer = p.layer /\ \A k \in DOMAIN f.when : p[k] \in f.when[k]} IN
  \A f \in hits : (\A g \in hits : g.weight <= f.weight) => f.permit

-----------------------------------------------------------------------------
(* The rules of the pf anchor.                                             *)

Rule(quick, pass, applies(_)) ==
  [quick |-> quick, pass |-> pass, on |-> {p \in Packets : applies(p)}]

\* The port a carve-out names is left out: these addresses serve on no other.  A rule that is
\* not written matches nothing.
buildPFRules(ifname, cpEndpoint) ==
  LET lo(p) == p.iface = "lo"
      tun(p) == ifname /\ p.iface = "tun"
      out(p) == Outward(p.layer)
      gateway(p) == out(p) /\ p.proto = "udp" /\ p.remote = "gateway"
      controller(p) == cpEndpoint /\ out(p) /\ p.proto = "tcp" /\ p.remote = "controller"
      lease(p) == out(p) /\ Dhcp(p)
      icmp6(p) == out(p) /\ p.proto = "icmp6" IN
  <<Rule(TRUE, TRUE, lo), Rule(TRUE, TRUE, tun), Rule(FALSE, FALSE, out),
    Rule(FALSE, TRUE, gateway), Rule(FALSE, TRUE, controller), Rule(FALSE, TRUE, lease),
    Rule(FALSE, TRUE, icmp6)>>

PfPasses(rules, p) ==
  LET hits == {i \in DOMAIN rules : p \in rules[i].on}
      quick == {i \in hits : rules[i].quick}
      decides == IF quick # {} THEN CHOOSE i \in quick : \A j \in quick : i <= j
                 ELSE CHOOSE i \in hits : \A j \in hits : j <= i IN
  hits = {} \/ rules[decides].pass

=============================================================================
