------------------------------ MODULE MCSession ------------------------------
(* Session for TLC.                                                         *)
EXTENDS Session

AllModes == {{"http"}, {"tls"}, {"s4", "s5", "ss"}, {"red"}}
OneMode == {{"s5"}}
=============================================================================
