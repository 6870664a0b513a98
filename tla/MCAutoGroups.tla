---------------------------- MODULE MCAutoGroups ----------------------------
(* AutoGroups for TLC.                                                      *)
EXTENDS AutoGroups, TLC

CONSTANTS c1, c2, a1, a2

OneClient == {c1}
TwoClients == {c1, c2}
OneAddr == {a1}
TwoAddrs == {a1, a2}
OneBody == {"tls"}
TwoBodies == {"tls", "http"}
OneType == {{}, {"ssl_err"}}
TwoTypes == {{}, {"torst"}, {"ssl_err"}, {"torst", "ssl_err"}}
PlainLevels == {{}}
AllLevels == {{"noreconn"}, {"sort", "onreconn"}}
NoL34 == {Addrs}
NoL7 == {Bodies}
SomeL34 == {Addrs, {}}
SomeL7 == {Bodies, {"tls"}}

ClientSymmetry == Permutations(Clients)
=============================================================================
