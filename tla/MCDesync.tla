------------------------------ MODULE MCDesync ------------------------------
(* Small part lists for TLC.                                               *)
EXTENDS Desync

Step(m, pos, flag, r, s) == [m |-> m, pos |-> pos, flag |-> flag, r |-> r, s |-> s]

Set(ps, rs) == [parts |-> ps, tlsrec |-> rs]

\* --split 1 --disorder 3; an urgent byte before a fake at the host; repeats;
\* positions out of order and past the end; one in the middle; and with a hello
\* cut once, twice, at the host name or near its end; parts that are done again.
MCSettings ==
  { Set(<< Step("split", 1, "none", 0, 0), Step("disorder", 3, "none", 0, 0) >>, <<>>),
    Set(<< Step("oob", 1, "none", 0, 0), Step("fake", 1, "host", 0, 0) >>, <<>>),
    Set(<< Step("disorder", 1, "none", 3, 1) >>, << Step("", 1, "none", 0, 0) >>),
    Set(<< Step("split", 1, "host", 2, 2), Step("disoob", -1, "none", 0, 0) >>, <<>>),
    Set(<< Step("fake", 0, "mid", 0, 0), Step("split", 1, "none", 0, 0) >>, <<>>),
    Set(<< Step("disoob", 2, "none", 0, 0), Step("fake", 6, "none", 0, 0) >>,
        << Step("", 1, "none", 2, 1) >>),
    Set(<< Step("fake", -1, "end", 0, 0), Step("oob", 0, "end", 0, 0) >>,
        << Step("", 0, "host", 0, 0), Step("", -1, "none", 0, 0) >>),
    Set(<< Step("oob", 0, "none", 0, 0), Step("split", 2, "none", 0, 0) >>,
        << Step("", -1, "none", 0, 0) >>),
    Set(<< Step("oob", 1, "none", 0, 0), Step("split", 1, "start", 0, 0),
           Step("disorder", -1, "start", 0, 0) >>, <<>>),
    Set(<< Step("fake", 1, "start", 0, 0), Step("disoob", 1, "none", 0, 0),
           Step("oob", 0, "hoststart", 0, 0) >>, <<>>) }

OneSetting == { Set(<< Step("split", -1, "none", 0, 0) >>, <<>>) }
=============================================================================
