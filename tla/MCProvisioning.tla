--------------------------- MODULE MCProvisioning ---------------------------
(* Instances of Provisioning for TLC. *)
EXTENDS Provisioning, TLC

CONSTANTS r1, r2, m1, m2, a, b, c, x, y, z, ha, hb, hc, hd

TwoRequests == {r1, r2}
OneRequest  == {r1}
OneMac      == {m1}
TwoMacs     == {m1, m2}
OneIpmi     == {a}
TwoIpmis    == {a, b}
AllIpmis    == {a, b, c}
AtoCIDR     == {a, c}
TwoNames    == {ha, hb}
AllNames    == {ha, hb, hc, hd}
SomeNames   == {ha, hc, hd}

\* Two hosts are in the database, x named ha at address a, y named hb at b.
HostX == [id |-> x, hostname |-> ha, ipmi |-> a, created_by |-> None]
HostY == [id |-> y, hostname |-> hb, ipmi |-> b, created_by |-> None]
BothHosts == {HostX, HostY}

\* Beside x two hosts share the address c; the name hd is that of no host.
HostZ(id, name) == [id |-> id, hostname |-> name, ipmi |-> c, created_by |-> None]
SharedAddress == {HostX, HostZ(y, hb), HostZ(z, hc)}

Page(vlans, name, jun, lldp) ==
  [vlans |-> vlans, name |-> name, jun |-> jun, lldp |-> lldp]

\* The switch names either host.
LldpHa     == {Page({1}, "port", "jun", ha)}
EitherLldp == {Page({1}, "port", "jun", ha), Page({1}, "port", "jun", hb)}

\* The pages of a port that is being moved, most of them incomplete: no VLAN, no
\* port or no switch that is allowed, or the third VLAN, which is no number.
AnyPage == {None, Page({}, "port", "jun", hb), Page({1}, "port", "jun", ha),
            Page({2, 3}, None, "jun", hb), Page({2}, "port", None, ha),
            Page({3}, "port", "jun", ha)}
ThirdVlan == {3}

NoneOrName == {None, ha, hb}

\* Neither a guard nor, but for their type, a property of prov_safety reads the
\* codes of the errors.
WithoutCodes == <<db, request, objects, at, fails>>

Symmetry == Permutations(TwoRequests)
=============================================================================
