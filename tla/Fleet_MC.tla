------------------------------ MODULE Fleet_MC ------------------------------
(***************************************************************************)
(* Small fleets for Fleet. Shared: two libvirt clusters on one provider    *)
(* host, as in examples/libvirt-redfish-fleet. Split: the machines and the *)
(* load balancer of a cluster on hosts of two providers. Mixed: a libvirt  *)
(* hub and a bare-metal cluster behind a load-balancer host. Misplaced and *)
(* Twice are states validation refuses.                                    *)
(***************************************************************************)
EXTENDS Fleet

Prov(hosts, machine, on, haproxy, names, mirror, squid) ==
    [hosts |-> hosts, machine |-> machine, libvirtOn |-> on, haproxy |-> haproxy,
     names |-> names, mirror |-> mirror, squid |-> squid]

Clus(refs, place, bridge, lbs, hub) ==
    [refs |-> refs, place |-> place, bridge |-> bridge, lbs |-> lbs, hub |-> hub, config |-> 1]

\* With MaxEdits = 1, a cluster the operator edits no more.
Settled(s) == [s EXCEPT !.cluster = [c \in Names(s) |-> [s.cluster[c] EXCEPT !.config = 2]]]

Lab(mirror, squid) == Prov({"h1"}, Libvirt, {"h1"}, "h1", {"h1"}, mirror, squid)

SharedAs(lab, lb1, lb2, bridge2) ==
    [provider |-> [lab |-> lab], proxied |-> lab.squid # None,
     cluster  |-> [c1 |-> Clus({"lab"}, [m1 |-> "h1"], "br1", {lb1}, TRUE),
                   c2 |-> Clus({"lab"}, [m1 |-> "h1"], bridge2, {lb2}, FALSE)]]

Split ==
    [provider |-> [vms  |-> Prov({"h1"}, Libvirt, {"h1"}, None, {"h1"}, None, "h1"),
                   edge |-> Prov({"h2"}, None, {}, "h2", {}, "h2", None)],
     proxied  |-> TRUE,
     cluster  |-> [c1 |-> Clus({"vms", "edge"}, [m1 |-> "h1"], "br1", {"api"}, TRUE)]]

Mixed ==
    [provider |-> [lab  |-> Prov({"h1"}, Libvirt, {"h1"}, None, {}, None, None),
                   rack |-> Prov({}, BareMetal, {}, None, {}, None, None),
                   edge |-> Prov({"h2"}, None, {}, "h2", {}, None, None)],
     proxied  |-> FALSE,
     cluster  |-> [c1 |-> Clus({"lab"}, [m1 |-> "h1"], "br1", {}, TRUE),
                   c2 |-> Clus({"rack", "edge"}, [m1 |-> None], None, {"apps"}, FALSE)]]

TwoHosts ==
    [provider |-> [lab |-> Prov({"h1", "h2"}, Libvirt, {"h1", "h2"}, None, {}, None, None)],
     proxied  |-> FALSE,
     cluster  |-> [c1 |-> Clus({"lab"}, [m1 |-> "h1", m2 |-> "h2"], "br1", {}, TRUE)]]

\* A load balancer no provider supplies; a machine capability supplied twice.
Misplaced == [Mixed EXCEPT !.cluster["c1"].lbs = {"api"}]
Twice     == [Mixed EXCEPT !.cluster["c1"].refs = {"lab", "rack"}]

\* A flavour apply has no role for.
Unsupported ==
    [provider |-> [vc   |-> Prov({}, "vsphere", {}, None, {}, None, None),
                   edge |-> Prov({"h2"}, None, {}, "h2", {}, None, None)],
     proxied  |-> FALSE,
     cluster  |-> [c1 |-> Clus({"vc", "edge"}, [m1 |-> None], None, {"api"}, TRUE)]]

Distinct == {Settled(SharedAs(Lab(None, None), "hub", "apps", "br2")),
             Settled(SharedAs(Lab(None, None), "default", "default", "br1")),
             Split, Mixed, Unsupported, Misplaced, Twice}
Defaults == {SharedAs(Lab("h1", "h1"), "default", "default", "br2")}
Served == {SharedAs(Lab("h1", "h1"), "hub", "apps", "br2")}
OneBridge == {SharedAs(Lab(None, None), "hub", "apps", "br1")}
Spread == {TwoHosts}
JustMixed == {Mixed}
=============================================================================
