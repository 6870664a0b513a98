----------------------------- MODULE MCHostList -----------------------------
(* HostList for TLC.                                                        *)
EXTENDS HostList

\* Characters in the order of their codes; Dot is 1.
Dash == 0
a == 2
b == 3

\* The domains b, a.b and a-b, and a word with a bad character.
MCHosts == {<<b>>, <<b, Dot, a>>, <<b, Dash, a>>, <<9>>}
MCInvalid == {<<9>>}
=============================================================================
