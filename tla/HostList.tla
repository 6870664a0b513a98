------------------------------ MODULE HostList ------------------------------
(***************************************************************************)
(* The list of domains of --hosts: parse_hosts of main.c reads it into a   *)
(* store of mpool.c, check_host of extend.c looks a request's host up.     *)
(*                                                                         *)
(* A host is the sequence of its characters from the last to the first,    *)
(* as host_cmp reads it; CmpType is host.                                  *)
(***************************************************************************)
EXTENDS MemPool

CONSTANTS Hosts,    \* the words of the file
          Invalid   \* the ones lower_char finds a bad character in

VARIABLES hdr,      \* desync_params.hosts
          listed    \* (history) the domains read so far

vars == <<hdr, listed>>

Init == hdr = Empty /\ listed = {}

\* One turn of the loop of parse_hosts.
parse_hosts(h) ==
  /\ h \notin listed
  /\ IF h \in Invalid
     THEN UNCHANGED vars
     ELSE /\ hdr' = mem_add(hdr, [key |-> h])
          /\ listed' = listed \cup {h}

check_host(h) == \E v \in mem_get(hdr, h) : Len(v.key) <= Len(h)

Next == \E h \in Hosts : parse_hosts(h)

Spec == Init /\ [][Next]_vars

-----------------------------------------------------------------------------
\* Every domain of the list is found in it, in whichever order the file names
\* the domains and whatever else it names.
ListedFound == \A h \in listed : check_host(h)
=============================================================================
