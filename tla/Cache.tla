------------------------------- MODULE Cache -------------------------------
(***************************************************************************)
(* The cache of extend.c, which group served an address last: cache_get    *)
(* and cache_add on the store of mpool.c, and the files of --cache-dump    *)
(* that carry it over a restart (dump_all_cache, dump_cache, load_cache),  *)
(* loaded while the options are read.                                      *)
(*                                                                         *)
(* A key is the family, the upper and the lower half of the port, and the  *)
(* address, one number per bit; the lengths of the code, in bits, are      *)
(* counted in these numbers.  An element keeps the whole address it was    *)
(* made for (data), of which its key is the start.  Left out are the masks *)
(* (see AutoGroups), which are not saved, and the host name, which is only *)
(* saved and loaded.                                                       *)
(***************************************************************************)
EXTENDS MemPool, Options

CONSTANTS Addrs,      \* the addresses with their ports
          Starts,     \* command lines, and a bound of the cache_adds for each
          CachePre,   \* params.cache_pre
          Ttl,        \* desync_params.cache_ttl, 0 for none
          OldFiles,   \* what the files may hold at the first start
          MaxTime, MaxDumps  \* bounds

ASSUME CacheAssumption ==
  /\ CmpType = "bits"
  /\ {CachePre, Ttl, MaxTime, MaxDumps} \subseteq Nat

VARIABLES hdr,    \* params.mempool
          now,    \* time()
          files,  \* file -> its lines
          saved,  \* (history) what the files say of an address, or nothing
          adds,   \* cache_adds still to come
          dumps

cachevars == <<hdr, now, files, saved, adds, dumps>>
vars == <<optvars, cachevars>>

Groups == 0..(Len(dps) - 1)

\* The cache_file of group g, the last it was given.
FileOf(g) ==
  LET named == SelectSeq(dps[g + 1].opts, LAMBDA t : t.o = "file")
  IN IF named = <<>> THEN "none" ELSE Last(named).v

Family(key) == key[1]
V4 == 4
V6 == 6
Head3 == 3      \* offsetof(struct cache_key, ip.v4)

Prefix(key, len) == SubSeq(key, 1, len)

-----------------------------------------------------------------------------
(* The cache files                                                         *)

\* A line has the address in full and the length of its network.
Line(e) ==
  [data |-> e.data, bitlen |-> Len(e.key) - Head3, time |-> e.time]

\* Mutant: lines for all groups.
DumpAll(g) ==
  LET own == Elems(hdr.root) IN [i \in DOMAIN own |-> Line(own[i])]

dump_cache(g) ==
  LET own == SelectSeq(Elems(hdr.root), LAMBDA e : e.dp = g)
  IN [i \in DOMAIN own |-> Line(own[i])]

\* What the cache says of an address: the group and the time.
Says(h, a) == {[dp |-> e.dp, time |-> e.time] : e \in mem_get(h, a)}

RECURSIVE load_cache(_, _, _)

LineLen(line) == line.bitlen + Head3

\* The lines of group g's file, without those whose network is longer than
\* an address, are added and made the group's.
load_cache(h, lines, g) ==
  IF lines = <<>> THEN h
  ELSE LET line == Head(lines)
           key == Prefix(line.data, LineLen(line))
           new == [key |-> key, data |-> line.data, dp |-> g, time |-> 0]
           h1 == mem_add(h, new)
           e == CHOOSE e \in mem_get(h1, key) : TRUE
       IN IF LineLen(line) > Len(line.data)
          THEN load_cache(h, Tail(lines), g)
          ELSE load_cache(Update(h1, key, [e EXCEPT !.dp = g, !.time = line.time]),
                          Tail(lines), g)

\* --cache-dump loads what an earlier process has left.
LoadFile ==
  /\ CacheFile
  /\ hdr' = load_cache(hdr, files[Opt.v], Len(dps) - 1)
  /\ UNCHANGED <<now, files, saved, adds, dumps>>

\* (history) The files were not written, or not all of them.
Unsure == {[dp |-> -1, time |-> 0]}

Init ==
  /\ \E start \in Starts : args = start.args /\ adds = start.adds
  /\ NoArgs
  /\ now = 0
  /\ files \in OldFiles
  /\ hdr = Empty
  /\ saved = [a \in Addrs |-> Unsure]
  /\ dumps = 0

-----------------------------------------------------------------------------
(* cache_get and cache_add                                                 *)

Stale(e) == Ttl > 0 /\ now > e.time + Ttl

\* What cache_get tells mem_delete of the key: its length in bytes where bits
\* are meant, which leaves the family, with IPv6 also half of the port.
Cut(key) == Prefix(key, IF Family(key) = V4 THEN 1 ELSE 2)

\* connect_hook asks for an address.
cache_get(a) ==
  /\ phase = "run"
  /\ \E e \in mem_get(hdr, a) : Stale(e)
  /\ hdr' = mem_delete(hdr, Cut(a))
  /\ UNCHANGED <<optvars, now, files, saved, adds, dumps>>

\* Stands for the byte behind the end of the key.
Beyond == 99

\* Mutant: one less.
OneShort(a, b) ==
  LET differ == {i \in DOMAIN a : a[i] # b[i]}
  IN IF differ = {} THEN Len(a) + 1 ELSE Min(differ) - 2

\* How far two addresses are equal; a byte too much when they are the same.
eq_bitlen(a, b) ==
  LET differ == {i \in DOMAIN a : a[i] # b[i]}
  IN IF differ = {} THEN Len(a) + 1 ELSE Min(differ) - 1

\* With --cache-merge, the key of a new element is what the address has in
\* common with one in the cache that is near enough.
NewKey(a) ==
  LET near == IF Family(a) = V4 /\ CachePre > 0
              THEN mem_get(hdr, Prefix(a, Len(a) - CachePre)) ELSE {}
  IN IF near = {} THEN a
     ELSE LET e == CHOOSE e \in near : TRUE
          IN Prefix(Append(a, Beyond), eq_bitlen(a, e.data))

\* on_trigger, which saves group g for the address.
cache_add(a, g) ==
  /\ phase = "run" /\ adds > 0 /\ adds' = adds - 1
  /\ LET key == NewKey(a)
         new == [key |-> key, data |-> a, dp |-> g, time |-> now]
         h == mem_add(hdr, new)
         e == CHOOSE e \in mem_get(h, key) : TRUE
     IN hdr' = Update(h, key, [e EXCEPT !.dp = g, !.time = now])
  /\ UNCHANGED <<optvars, now, files, saved, dumps>>

Tick ==
  /\ phase = "run" /\ now < MaxTime /\ now' = now + 1
  /\ UNCHANGED <<optvars, hdr, files, saved, adds, dumps>>

-----------------------------------------------------------------------------
(* Dumps and restarts                                                      *)

\* The groups before g that have file f.
Owners(f, g) == {x \in Groups : x < g /\ FileOf(x) = f}

\* A file that two groups name has only the last one's lines.
Alone(g) == FileOf(g) # "none" /\ Owners(FileOf(g), Len(dps)) = {g}

\* dump_all_cache, on SIGHUP or at the end, writes the files of the groups
\* before g only: it leaves off at the first that it cannot open.
dump_all_cache(g) ==
  /\ files' = [f \in DOMAIN files |->
       IF Owners(f, g) = {} THEN files[f] ELSE dump_cache(Max(Owners(f, g)))]
  /\ saved' = [a \in Addrs |->
       IF g = Len(dps) /\ \A x \in Says(hdr, a) : Alone(x.dp) THEN Says(hdr, a)
       ELSE Unsure]

on_hup ==
  /\ phase = "run" /\ dumps < MaxDumps /\ dumps' = dumps + 1
  /\ \E g \in 0..Len(dps) : dump_all_cache(g)
  /\ UNCHANGED <<optvars, hdr, now, adds>>

\* The process ends or is killed, and is started again.
Restart ==
  /\ phase = "run" /\ dumps < MaxDumps /\ dumps' = dumps + 1
  /\ \/ \E g \in 0..Len(dps) : dump_all_cache(g)
     \/ UNCHANGED <<files, saved>>
  /\ hdr' = Empty
  /\ StartAgain
  /\ UNCHANGED <<now, adds>>

Next ==
  \/ parse_args /\ UNCHANGED cachevars
  \/ LoadFile
  \/ \E a \in Addrs : cache_get(a)
  \/ \E a \in Addrs, g \in Groups : cache_add(a, g)
  \/ Tick
  \/ on_hup
  \/ Restart

\* getopt_long goes on.
Spec == Init /\ [][Next]_vars /\ WF_optvars(parse_args \/ CacheFile)

-----------------------------------------------------------------------------
\* The network p contains the network or address q.
Covers(p, q) == IsPrefix(p, q)

Elements == LET s == Elems(hdr.root) IN {s[i] : i \in DOMAIN s}

\* The tree is one that kavl.h would have built and count says how many
\* elements there are; every element has a group.
TypeOK ==
  /\ Balanced(hdr.root)
  /\ hdr.count = Len(Elems(hdr.root))
  /\ \A e \in Elements :
       /\ e.data \in Addrs /\ e.dp \in Groups /\ e.time \in 0..MaxTime
       /\ e.key = Prefix(e.data, Len(e.key))

\* No network in the cache covers another, so the comparison orders the tree
\* although it is no order on all keys, and a search finds what there is.
Disjoint ==
  /\ Ordered(hdr.root)
  /\ \A e, f \in Elements : Covers(e.key, f.key) => e = f
  /\ \A a \in Addrs : mem_get(hdr, a) = {e \in Elements : Covers(e.key, a)}

\* Whatever was merged, expired or left half written before, loading the files
\* gives for every address what the cache said when they were last written:
\* no network is lost or grows, and none goes to another group.
FilesFaithful ==
  LET load(h, i) ==
        LET f == FileOf(i) IN IF f = "none" THEN h ELSE load_cache(h, files[f], i)
      loaded == FoldLeft(load, Empty, [i \in DOMAIN dps |-> i - 1])
  IN phase = "run" =>
       \A a \in Addrs : saved[a] # Unsure => Says(loaded, a) = saved[a]

\* Addresses that share an element, or that --cache-merge may merge.
Near(a, b) ==
  \/ a = b
  \/ \E e \in Elements : Covers(e.key, a) /\ Covers(e.key, b)
  \/ Family(a) = V4 /\ Prefix(a, Len(a) - CachePre) = Prefix(b, Len(a) - CachePre)

\* A trigger's verdict is what the cache says of the address, until a trigger for
\* a neighbour, a restart, or the deletion of an entry by cache_get.  A trigger
\* drops no address from the cache.  cache_get takes one entry, and only when some
\* entry of its family is stale: it need not be that one (the length in bytes,
\* extend.c:94), so a verdict that is not stale may go too.
VerdictKept ==
  [][phase = "run" =>
       /\ \A a \in Addrs, g \in Groups :
            adds' # adds /\ cache_add(a, g) => Says(hdr', a) = {[dp |-> g, time |-> now]}
       /\ \A b \in Addrs : Says(hdr', b) # Says(hdr, b) =>
            \/ /\ adds' # adds /\ (Says(hdr, b) # {} => Says(hdr', b) # {})
               /\ \E a \in Addrs, g \in Groups : cache_add(a, g) /\ Near(a, b)
            \/ /\ Says(hdr', b) = {} /\ hdr'.count = hdr.count - 1
               /\ \E e \in Elements : Stale(e) /\ Family(e.key) = Family(b)
            \/ dumps' # dumps]_vars
=============================================================================
