------------------------------ MODULE Options ------------------------------
(***************************************************************************)
(* parse_args of main.c: the options make a list of groups, --auto starts  *)
(* a new one and --copy goes back to the options of an earlier one, until  *)
(* the --auto that ends them, and then on from where it stood.             *)
(*                                                                         *)
(* An option of a group is a value to be stored in it: a limit (--hosts,   *)
(* --ipset, --proto, --pf), a cache file or anything else.  Left out are   *)
(* the options that are not a group's, --copy=i and words of many letters. *)
(***************************************************************************)
EXTENDS Integers, Sequences, FiniteSets, SequencesExt

CONSTANT MaxOpts  \* bound of the groups, and of the options of each

ASSUME OptionsAssumption == MaxOpts \in Nat

VARIABLES
  args,         \* argv: options with their values
  phase,        \* args, run, or exit when they are refused
  optind,       \* getopt's optind
  curr_optind,  \* where to go on after a copy
  all_limited,
  dps           \* params.dp and its followers: detect, _optind and what is stored

optvars == <<args, phase, optind, curr_optind, all_limited, dps>>

\* add_group
NewGroup(types, at) == [detect |-> types, start |-> at, opts |-> <<>>]

NoArgs ==
  /\ phase = "args" /\ optind = 1 /\ curr_optind = 1
  /\ all_limited = TRUE
  /\ dps = << NewGroup({}, 0) >>

\* The same for a process that is started again.
StartAgain ==
  /\ phase' = "args" /\ optind' = 1 /\ curr_optind' = 1
  /\ all_limited' = TRUE
  /\ dps' = << NewGroup({}, 0) >>
  /\ UNCHANGED args

Limited(dp) == dp.detect # {} \/ \E i \in DOMAIN dp.opts : dp.opts[i].o = "limit"

\* The option getopt_long returns, and what it makes of optind.
Opt == args[optind]
At == optind + 1

Got(o) == phase = "args" /\ optind <= Len(args) /\ Opt.o = o

\* Mutant: a copy does not end with the group's options.
CopyRunsOn == FALSE

\* The option belongs to the group that is being copied.
Copying == At < curr_optind

\* --auto ends a copy, or the group.
Auto ==
  /\ Got("auto")
  /\ IF Copying
     THEN optind' = curr_optind /\ UNCHANGED <<dps, all_limited>>
     ELSE /\ Len(dps) < MaxOpts
          /\ all_limited' = (all_limited /\ Limited(Last(dps)))
          /\ dps' = Append(dps, NewGroup(Opt.v, At))
          /\ optind' = At
  /\ UNCHANGED <<args, phase, curr_optind>>

\* Mutant: a group's options are taken to start one later.
BeginLate(g) == IF g.start = 0 THEN 2 ELSE g.start + 1

\* getopt takes an optind of 0, which the first group has, for 1.
Begin(g) == IF g.start = 0 THEN 1 ELSE g.start

\* --copy, which a copied group's own --copy is not followed for.
Copy ==
  /\ Got("copy")
  /\ IF Copying
     THEN optind' = At /\ UNCHANGED <<phase, curr_optind>>
     ELSE IF Opt.v > Len(dps)
          THEN phase' = "exit" /\ UNCHANGED <<optind, curr_optind>>
          ELSE curr_optind' = At /\ optind' = Begin(dps[Opt.v]) /\ UNCHANGED phase
  /\ UNCHANGED <<args, all_limited, dps>>

\* An option of the group, whose value may be refused.
Store(o) ==
  /\ Got(o)
  /\ Len(Last(dps).opts) < MaxOpts
  /\ dps' = [dps EXCEPT ![Len(dps)].opts = Append(@, Opt)]
  /\ optind' = At
  /\ UNCHANGED <<args, phase, curr_optind, all_limited>>

Limit == Store("limit")
Other == Store("other")
CacheFile == Store("file")

Invalid ==
  /\ Got("bad")
  /\ phase' = "exit"
  /\ UNCHANGED <<args, optind, curr_optind, all_limited, dps>>

\* When every group before the last has a limit, one without is added.
EndArgs ==
  /\ phase = "args" /\ optind > Len(args)
  /\ phase' = "run"
  /\ dps' = IF all_limited THEN Append(dps, NewGroup({}, 0)) ELSE dps
  /\ UNCHANGED <<args, optind, curr_optind, all_limited>>

\* One turn of the loop that stores nothing outside the groups.
parse_args == Auto \/ Copy \/ Limit \/ Other \/ Invalid \/ EndArgs

-----------------------------------------------------------------------------
\* The options between the kth --auto and the next.
Section(k) ==
  LET autos == SelectSeq([i \in 1..Len(args) |-> i], LAMBDA i : args[i].o = "auto")
      from == IF k = 0 THEN 1 ELSE autos[k] + 1
      to == IF k = Len(autos) THEN Len(args) ELSE autos[k + 1] - 1
  IN SubSeq(args, from, to)

Autos == Cardinality({ i \in DOMAIN args : args[i].o = "auto" })

\* Group k with its copies written out.
WrittenOut(k) ==
  FlattenSeq([i \in 1..Len(Section(k)) |->
    LET t == Section(k)[i]
    IN IF t.o = "copy" THEN SelectSeq(Section(t.v - 1), LAMBDA c : c.o # "copy")
       ELSE << t >>])

\* Some group copies itself or, which is the same, the options up to the copy.
SelfCopy == \E k \in 0..Autos : \E i \in DOMAIN Section(k) :
              Section(k)[i].o = "copy" /\ Section(k)[i].v = k + 1

(***************************************************************************)
(* Whatever is copied from where, every group ends up with its own options *)
(* and the copied ones in the order they stand in, the next groups are     *)
(* not touched by it, and some group takes the connections that no other   *)
(* is for.                                                                 *)
(***************************************************************************)
GroupsAsAsked ==
  phase = "run" =>
    /\ Len(dps) \in {Autos + 1, Autos + 2}
    /\ \A k \in 0..Autos : dps[k + 1].opts = WrittenOut(k)
    /\ \E i \in DOMAIN dps : ~Limited(dps[i])

\* The options are all read in the end, unless a group copies itself.
ArgsEnd == ~SelfCopy ~> phase # "args"
=============================================================================
