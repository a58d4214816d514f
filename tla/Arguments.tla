----------------------------- MODULE Arguments ------------------------------
(***************************************************************************)
(* The other arguments that commands.c parses: sharing, access, memory     *)
(* policies and their flags, node lists, cpu lists and masks, signals.     *)
(*                                                                         *)
(* Words, besides those of TypedRange:                                     *)
(*   "key"   a word of letters; the code compares prefixes, and s is the   *)
(*           keyword it abbreviates, or some word that abbreviates none    *)
(*   "pol"   <pol>[+<flag>...]: pol is the policy it abbreviates, "" for   *)
(*           none, or another word; flags what follows each '+'            *)
(*   "list"  numbers separated by commas, and the character after the last *)
(*   "mask"  hexadecimal chunks separated by commas, in the same way;      *)
(*           formed is FALSE when a chunk has no leading 0 and no x        *)
(***************************************************************************)
EXTENDS TypedRange, Bits, FiniteSets

CONSTANTS
    IntWord,    \* number of values of an int, 2^32 in the code
    MaxCpuId,   \* gcp->max_cpu_id, 128 in the code
    ChunkBits,  \* CPUBITS, 32 in the code
    NCPUWORDS,  \* CPU_SETSIZE / CPUBITS
    NSIG,       \* _NSIG, 65 in the code
    NULL

ASSUME ArgumentsAssumption ==
    /\ IntWord \in Nat \ {0} /\ IntWord % 2 = 0 /\ IntWord =< Word
    /\ MaxCpuId \in Nat /\ ChunkBits \in Nat \ {0} /\ NCPUWORDS \in Nat \ {0}
    /\ Pow2[ChunkBits] =< Word /\ NSIG \in Nat

Key(s) == [k |-> "key", s |-> s]
Pol(p, flags) == [k |-> "pol", pol |-> p, flags |-> flags]
List(ids, end) == [k |-> "list", ids |-> ids, end |-> end]
Mask(chunks, formed, end) ==
    [k |-> "mask", chunks |-> chunks, formed |-> formed, end |-> end]
Star == [k |-> "star"]

\* The words of a command line.
UserWord ==
    [k : {"num"}, neg : BOOLEAN, num : Nat, scale : STRING]
    \cup [k : {"key"}, s : STRING]
    \cup [k : {"pol"}, pol : STRING, flags : Seq(STRING)]
    \cup [k : {"list"}, ids : Seq(Nat), end : STRING]
    \cup [k : {"mask"}, chunks : Seq(Nat), formed : BOOLEAN, end : STRING]
    \cup {Star}

CMD_SUCCESS == 0
CMD_ERROR   == 1

First(S) == CHOOSE i \in S : \A j \in S : i =< j

(***************************************************************************)
(* get_shared() compares all that is left of the line; nothing left reads  *)
(* as "shared", but no caller asks then.                                   *)
(***************************************************************************)
get_shared(args) ==
    IF args = <<>> THEN "shared"
    ELSE IF Len(args) = 1 /\ args[1] \in {Key("shared"), Key("private")} THEN args[1].s
    ELSE "error"

\* get_access() looks at the first letter only: "wide" is a write.
get_access(args) ==
    IF args = <<>> THEN "read"
    ELSE IF args[1] \in {Key("write"), Key("wide")} THEN "write"
    ELSE IF args[1] \in {Key("read"), Key("rough")} THEN "read"
    ELSE "error"

-----------------------------------------------------------------------------
(***************************************************************************)
(* Memory policies.  An unrecognized policy gives CMD_ERROR, which is the  *)
(* number of MPOL_PREFERRED, and the callers only look for less than 0.    *)
(***************************************************************************)
MPOL_DEFAULT    == 0
MPOL_PREFERRED  == 1
MPOL_BIND       == 2
MPOL_INTERLEAVE == 3
MPOL_NOOP       == 4

Row(name, flag) == [pol_name |-> name, pol_flag |-> flag]

\* Faulty: two rows of the table are in the wrong order.
policies_swapped ==
    << Row("default", MPOL_DEFAULT), Row("bind", MPOL_BIND), Row("preferred", MPOL_PREFERRED),
       Row("interleaved", MPOL_INTERLEAVE), Row("noop", MPOL_NOOP) >>

\* get_mbind_policy() searches the table, show_task_policy() indexes it.
policies ==
    << Row("default", MPOL_DEFAULT), Row("preferred", MPOL_PREFERRED), Row("bind", MPOL_BIND),
       Row("interleaved", MPOL_INTERLEAVE), Row("noop", MPOL_NOOP) >>

RowsOf(p) == {i \in DOMAIN policies : p \in {"", policies[i].pol_name}}

\* Faulty: nextarg is moved before the policy is looked up.
PolicyRead_always(w) == w.k = "pol"

\* whether get_mbind_policy() moved nextarg past the policy
PolicyRead(w) == w.k = "pol" /\ RowsOf(w.pol) # {}

get_mbind_policy(w) ==
    IF w.k = "pol" /\ RowsOf(w.pol) # {}
    THEN policies[First(RowsOf(w.pol))].pol_flag ELSE CMD_ERROR

(***************************************************************************)
(* get_mbind_flags(): "move", then any number of "all".  An empty flag is  *)
(* a prefix of both, except that nothing at all may not follow a later     *)
(* '+'.                                                                    *)
(***************************************************************************)
get_mbind_flags(flags) ==
    IF \/ flags[1] \notin {"", "move"}
       \/ \E i \in 2 .. Len(flags) : flags[i] \notin {"", "all"}
       \/ Len(flags) > 1 /\ flags[Len(flags)] = ""
    THEN "error"
    ELSE IF Len(flags) = 1 THEN "move" ELSE "move_all"

-----------------------------------------------------------------------------
\* Faulty: an id is kept in half an int.
ToInt_short(n) ==
    LET low == strtoul(Num(n, "")) % (IntWord \div 2)
    IN  IF low >= IntWord \div 4 THEN low - IntWord \div 2 ELSE low

(***************************************************************************)
(* Lists of ids.  strtoul()'s value is stored in an int: it keeps the low  *)
(* bits, and an id may become another one, or negative.                    *)
(***************************************************************************)
ToInt(n) ==
    LET low == strtoul(Num(n, "")) % IntWord
    IN  IF low >= IntWord \div 2 THEN low - IntWord ELSE low

\* The numbers of a list, one number being a list too, and what follows.
Ids(w) ==
    IF w.k = "list" THEN w.ids
    ELSE IF w.k = "num" /\ ~w.neg THEN <<w.num>> ELSE <<>>
EndOfIds(w) == IF w.k = "list" THEN w.end ELSE w.scale

\* Faulty: the largest id is not allowed.
IdList_below(args, max) ==
    IF args = <<>> \/ Ids(args[1]) = <<>> THEN [ok |-> FALSE, set |-> {}]
    ELSE LET ids == Ids(args[1])
         IN  [ok  |-> Len(args) = 1 /\ EndOfIds(args[1]) = ""
                      /\ \A i \in DOMAIN ids : ToInt(ids[i]) < max,
              set |-> {ToInt(ids[i]) : i \in DOMAIN ids}]

(***************************************************************************)
(* The loop that get_nodemask() and get_cpuset_from_ids() share: set is    *)
(* what was put in the set, up to the first id that is too large; the list *)
(* is accepted when there is none and the line ends right after it.        *)
(***************************************************************************)
IdList(args, max) ==
    IF args = <<>> \/ Ids(args[1]) = <<>> THEN [ok |-> FALSE, set |-> {}]
    ELSE LET ids   == Ids(args[1])
             above == {i \in DOMAIN ids : ToInt(ids[i]) > max}
             read  == {i \in DOMAIN ids : \A j \in above : i < j}
         IN  [ok  |-> above = {} /\ Len(args) = 1 /\ EndOfIds(args[1]) = "",
              set |-> {ToInt(ids[i]) : i \in read}]

\* max is numa_max_node.  Setting the bit of a negative node is an access
\* outside the mask.
get_nodemask(args, max) ==
    LET l == IdList(args, max)
    IN  [ok |-> l.ok, wild |-> \E n \in l.set : n < 0, mask |-> l.set]

\* get_arg_nodemask(): NULL for no nodes and for '*'
get_arg_nodemask(args, policy, max) ==
    LET none(ok) == [ok |-> ok, wild |-> FALSE, mask |-> NULL]
    IN  IF policy \in {MPOL_DEFAULT, MPOL_NOOP} THEN none(TRUE)
        ELSE IF args = <<>> THEN none(FALSE)
        ELSE IF args[1].k = "star"
             THEN none(Len(args) = 1 /\ policy \in {MPOL_INTERLEAVE, MPOL_PREFERRED})
        ELSE get_nodemask(args, max)

\* CPU_SET() ignores a cpu that is no member of a cpu_set_t.
get_cpuset_from_ids(args) ==
    LET l == IdList(args, MaxCpuId) IN [ok |-> l.ok, set |-> {c \in l.set : c >= 0}]

-----------------------------------------------------------------------------
\* Faulty: the first chunk becomes the low-order word.
WordOf_unreversed(chunk, i) == chunk[i + 1]

\* cpu_bits[i] = chunk[--nr_chunks]
WordOf(chunk, i) == chunk[Len(chunk) - i]

(***************************************************************************)
(* get_cpuset_from_mask(): high-order chunks first, each cut down to an    *)
(* unsigned int; leading chunks of 0 do not count.  An empty list, or one  *)
(* that ends in a comma, is no error.                                      *)
(***************************************************************************)
get_cpuset_from_mask(args) ==
    LET w       == args[1]
        bits    == [i \in DOMAIN w.chunks |-> strtoul(Num(w.chunks[i], "")) % Pow2[ChunkBits]]
        nonzero == {i \in DOMAIN bits : bits[i] # 0}
        chunk   == IF nonzero = {} THEN <<>> ELSE SubSeq(bits, First(nonzero), Len(bits))
    IN  [ok  |-> w.formed /\ Len(chunk) =< NCPUWORDS /\ w.end # "?" /\ Len(args) = 1,
         set |-> {c \in 0 .. ChunkBits * Len(chunk) - 1 :
                     Bit(WordOf(chunk, c \div ChunkBits), c % ChunkBits)}]

\* mems 0x<mask>: one word, not 0, and the line ends after it
get_mem_mask(args) ==
    LET w    == args[1]
        bits == strtoul(Num(w.chunks[1], ""))
    IN  [ok  |-> bits # 0 /\ Len(w.chunks) = 1 /\ w.end = "" /\ Len(args) = 1,
         set |-> {n \in 0 .. bits : Bit(bits, n)}]

-----------------------------------------------------------------------------
(***************************************************************************)
(* Signals, by name or by number.                                          *)
(***************************************************************************)
signals_to_handle == <<2, 3, 11, 7, 10, 12>>
sig_names == <<"INT", "QUIT", "SEGV", "BUS", "USR1", "USR2">>

\* case and a leading "sig" do not count
signum_from_name(s) ==
    LET at == {i \in DOMAIN sig_names : sig_names[i] = s}
    IN  IF at = {} THEN -1 ELSE signals_to_handle[First(at)]

\* characters after the number are not looked at
parse_signal(w) ==
    IF w.k = "num" /\ ~w.neg
    THEN IF ToInt(w.num) = 0 \/ ToInt(w.num) >= NSIG THEN -1 ELSE ToInt(w.num)
    ELSE IF w.k = "key" THEN signum_from_name(w.s) ELSE -1

=============================================================================
