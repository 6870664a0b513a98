------------------------------ MODULE MCCache ------------------------------
(* Cache for TLC.                                                           *)
EXTENDS Cache

\* Four neighbours, one on another port and an IPv6 address.
MCAddrs ==
  { <<V4, 0, 1, 0, 0, 0>>, <<V4, 0, 1, 0, 0, 1>>, <<V4, 0, 1, 0, 1, 0>>,
    <<V4, 0, 1, 1, 1, 1>>, <<V4, 0, 2, 0, 0, 0>>, <<V6, 0, 1, 0, 0, 1, 1>> }

Old(a, bitlen) == [data |-> a, bitlen |-> bitlen, time |-> 0]

\* Words of a command line.
Word(o, v) == [o |-> o, v |-> v]
Later == Word("auto", {"torst"})
Plain == Word("auto", {})

\* Two groups with files; copies of the first, of a later group, of one that
\* copies itself, of a group with a file; a copy of itself, of a group that is
\* not there, and a bad value.
MCStarts ==
  { [adds |-> 3, args |-> << Word("file", "f"), Later, Word("file", "g") >>],
    [adds |-> 0, args |-> << Word("limit", 1), Word("other", 2), Plain, Word("other", 3),
                             Word("copy", 1), Word("other", 4), Later, Word("copy", 2) >>],
    [adds |-> 0, args |-> << Word("other", 1), Later, Word("limit", 2), Later,
                             Word("copy", 2), Word("copy", 1), Word("other", 3) >>],
    [adds |-> 1, args |-> << Word("file", "f"), Word("limit", 1), Later, Word("copy", 1) >>],
    [adds |-> 0, args |-> << Word("other", 1), Later, Word("other", 2), Word("copy", 2) >>],
    [adds |-> 0, args |-> << Word("copy", 2), Later >>],
    [adds |-> 0, args |-> << Word("other", 1), Word("bad", 0) >>] }

\* No files yet, and files that overlap, as a dump that was broken off leaves
\* them, with a line that is too long.
MCFiles ==
  { [g \in {"f", "g"} |-> <<>>],
    [g \in {"f", "g"} |-> IF g = "f"
       THEN << Old(<<V4, 0, 1, 0, 0, 0>>, 3), Old(<<V4, 0, 1, 0, 1, 0>>, 4) >>
       ELSE << Old(<<V4, 0, 1, 0, 0, 1>>, 1), Old(<<V6, 0, 1, 0, 0, 1, 1>>, 4) >>] }
=============================================================================
