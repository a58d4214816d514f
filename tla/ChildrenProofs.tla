--------------------------- MODULE ChildrenProofs ---------------------------
(***************************************************************************)
(* Proofs about Children, for any number of processes and commands.        *)
(***************************************************************************)
EXTENDS Children, WellFoundedInduction, TLAPS

(***************************************************************************)
(* The list_for_each walk always finds the element that comes next.        *)
(***************************************************************************)
LEMMA LeastExists ==
    ASSUME NEW S, S \subseteq Nat, S # {}
    PROVE  \E d \in S : \A e \in S : d =< e
<1> DEFINE R == OpToRel(<, Nat)
<1>1. PICK d \in S : \A e \in S : ~(<<e, d>> \in R)
  <2> HIDE DEF R
  <2>1. IsWellFoundedOn(R, Nat)
    BY NatLessThanWellFounded DEF R
  <2> QED
    BY <2>1, WFMin
<1>2. \A e \in S : ~(e < d)
  BY <1>1 DEF OpToRel
<1> QED
  BY <1>2

(***************************************************************************)
(* The inductive invariant.  That responses are accounted for is not       *)
(* inductive by itself: the parent must hold a child that was forked while *)
(* it executes a command (Placed); a new child's pipes must be empty, and  *)
(* nothing missed of it (Unborn); and a child_wait() that gives up at once *)
(* because childp was freed must concern a child that is dead (FreedDead), *)
(* which is true until children_free() frees live ones at the exit.  That  *)
(* pipes hold only commands and handlers see only signals needs that send  *)
(* and kick do not mix up their arguments (Argument).                      *)
(***************************************************************************)
Placed ==
    /\ ppc \in {"forked", "found", "prewait", "wait", "sent"} =>
          cur \in Pids /\ st[cur] # "unborn"
    /\ \A c \in children : st[c] # "unborn"

Argument ==
    ppc = "found" => /\ op = "send" => arg \in Commands
                     /\ op = "kick" => arg \in Signals

Unborn ==
    \A c \in Pids : st[c] = "unborn" => resp[c] = 0 /\ cmdq[c] = <<>> /\ missed[c] = 0

FreedDead ==
    ppc \in {"cmd", "forked", "found", "prewait", "wait", "sent"} =>
        \A c \in freed : st[c] \in {"zombie", "reaped"}

Inv ==
    /\ ParentType /\ ListType /\ KernelType /\ ChildType
    /\ Placed /\ Argument /\ Unborn /\ FreedDead /\ ResponsesAccounted

(***************************************************************************)
(* The list has a next element or the walk is at its end.                  *)
(***************************************************************************)
LEMMA NextAfterType ==
    ASSUME children \subseteq Pids, NEW c \in Int
    PROVE  NextAfter(c) \in {0} \cup Pids
<1> DEFINE later == {d \in children : c < d}
<1>1. CASE later = {}
  BY <1>1 DEF NextAfter
<1>2. CASE later # {}
  <2>1. later \subseteq Nat
    <3>1. Pids \subseteq Nat
      BY ChildrenAssumption DEF Pids
    <3> QED
      BY <3>1
  <2>2. \E d \in later : \A e \in later : d =< e
    BY <1>2, <2>1, LeastExists
  <2>3. (CHOOSE d \in later : \A e \in later : d =< e) \in later
    BY <2>2
  <2> QED
    BY <1>2, <2>3 DEF NextAfter
<1> QED
  BY <1>1, <1>2

(***************************************************************************)
(* The program starts with no children and nothing in any pipe.            *)
(***************************************************************************)
LEMMA InvInit == Init => Inv
<1> SUFFICES ASSUME Init PROVE Inv
  OBVIOUS
<1> USE ChildrenAssumption
<1>1. ParentType
  <2>1. sends \in 0 .. MaxSends
    BY DEF Init
  <2>2. uaf \in BOOLEAN
    BY DEF Init
  <2> QED
    BY <2>1, <2>2 DEF Init, ParentType
<1>6. ListType
  BY DEF Init, ListType
<1>4. KernelType
  <2>1. hold \in [Pids -> SUBSET ({Parent} \cup Pids)] /\ resp \in [Pids -> Nat]
    BY DEF Init
  <2>2. cmdq \in [Pids -> Seq(Commands)]
    <3>1. << >> \in Seq(Commands)
      OBVIOUS
    <3> QED
      BY <3>1 DEF Init
  <2>3. pending \in BOOLEAN
    BY DEF Init
  <2> QED
    BY <2>1, <2>2, <2>3 DEF KernelType
<1>5. ChildType
  BY DEF Init, ChildType, ChildStates
<1>2. Placed /\ Argument /\ Unborn /\ FreedDead
  BY DEF Init, Placed, Argument, Unborn, FreedDead
<1>3. ResponsesAccounted
  BY DEF Init, ResponsesAccounted, Running, Live
<1> QED
  BY <1>1, <1>2, <1>3, <1>4, <1>5, <1>6 DEF Inv

(***************************************************************************)
(* What the end of a child changes: its own state, to dead.                *)
(***************************************************************************)
LEMMA DieEffect ==
    ASSUME NEW c \in Pids, KernelType, ChildType, Die(c)
    PROVE  /\ pending' \in BOOLEAN
           /\ hold' \in [Pids -> SUBSET ({Parent} \cup Pids)]
           /\ st' \in [Pids -> ChildStates]
           /\ st'[c] \in {"zombie", "reaped"}
           /\ \A d \in Pids \ {c} : st'[d] = st[d]
<1>1. pending' \in BOOLEAN
  BY Zenon DEF Die, KernelType
<1>2. hold' \in [Pids -> SUBSET ({Parent} \cup Pids)]
  BY DEF Die, Drop, KernelType
<1>3. /\ st' \in [Pids -> ChildStates]
      /\ st'[c] \in {"zombie", "reaped"}
      /\ \A d \in Pids \ {c} : st'[d] = st[d]
  BY DEF Die, ChildType, ChildStates
<1> QED
  BY <1>1, <1>2, <1>3

(***************************************************************************)
(* What a signal changes: it ends a pause, or the child.                   *)
(***************************************************************************)
Woken(d) == st'[d] = st[d] \/ (st[d] = "paused" /\ st'[d] = "woken")

LEMMA PostEffect ==
    ASSUME ChildType, NEW c, NEW sig \in Signals \cup {"quit"}, Post(c, sig)
    PROVE  /\ st' \in [Pids -> ChildStates]
           /\ csig' \in [Pids -> {"none", "int", "quit"}]
           /\ \A d \in Pids : Woken(d) \/ (Live(d) /\ st'[d] = "dying")
<1>1. CASE ~Live(c)
  BY <1>1 DEF Post, ChildType, Woken
<1>2. CASE Live(c) /\ sig = "kill"
  BY <1>2 DEF Post, ChildType, Woken, Live, ChildStates
<1>3. CASE Live(c) /\ sig # "kill"
  <2>1. sig \in {"int", "quit"} /\ Signalled(c) \in ChildStates
    BY <1>3, ChildrenAssumption DEF Signalled, Live, ChildStates
  <2>2. csig' = [csig EXCEPT ![c] = sig] /\ st' = [st EXCEPT ![c] = Signalled(c)]
    BY <1>3 DEF Post
  <2>3. csig' \in [Pids -> {"none", "int", "quit"}] /\ st' \in [Pids -> ChildStates]
    BY <2>1, <2>2 DEF ChildType
  <2>4. \A d \in Pids : st'[d] = (IF d = c THEN Signalled(c) ELSE st[d])
    BY <2>2 DEF ChildType
  <2> QED
    BY <2>3, <2>4 DEF Woken, Signalled
<1> QED
  BY <1>1, <1>2, <1>3

(***************************************************************************)
(* What a failed start changes: the child ends, and its elder siblings get *)
(* a SIGQUIT.                                                              *)
(***************************************************************************)
LEMMA StartFailsEffect ==
    ASSUME NEW c \in Pids, KernelType, ChildType, ChildStartFails(c)
    PROVE  /\ pending' \in BOOLEAN
           /\ hold' \in [Pids -> SUBSET ({Parent} \cup Pids)]
           /\ st' \in [Pids -> ChildStates]
           /\ csig' \in [Pids -> {"none", "int", "quit"}]
           /\ st'[c] = (IF Running THEN "zombie" ELSE "reaped")
           /\ \A d \in Pids \ {c} : Woken(d)
<1>1. pending' \in BOOLEAN
  BY Zenon DEF ChildStartFails, KernelType
<1>2. hold' \in [Pids -> SUBSET ({Parent} \cup Pids)]
  BY DEF ChildStartFails, Drop, KernelType
<1>3. \A d \in Pids : Signalled(d) \in ChildStates
  BY DEF Signalled, ChildType, ChildStates
<1>4. st' \in [Pids -> ChildStates] /\ st'[c] = (IF Running THEN "zombie" ELSE "reaped")
  BY <1>3 DEF ChildStartFails, ChildType, ChildStates
<1>5. csig' \in [Pids -> {"none", "int", "quit"}]
  BY DEF ChildStartFails, ChildType
<1>6. \A d \in Pids \ {c} : Woken(d)
  BY DEF ChildStartFails, Woken, Signalled
<1> QED
  BY <1>1, <1>2, <1>4, <1>5, <1>6

(***************************************************************************)
(* Every step of the parent, of its signal handlers and of a child keeps   *)
(* it.                                                                     *)
(***************************************************************************)
LEMMA InvNext == Inv /\ [Next]_vars => Inv'
<1> SUFFICES ASSUME Inv, [Next]_vars PROVE Inv'
  OBVIOUS
<1> USE ChildrenAssumption DEF Inv, parentvars, kernelvars, childvars
<1>1. CASE Quit
  <2>1. \A c \in {0} \cup Pids : NextAfter(c) \in {0} \cup Pids
    BY NextAfterType DEF ListType, Pids
  <2>2. ParentType'
    BY <1>1, <2>1 DEF Quit, EnterCleanup, ParentType, ListType, Pids
  <2>3. ListType'
    BY <1>1 DEF Quit, EnterCleanup, ListType, ParentType, Pids, Placed
  <2>4. KernelType'
    BY <1>1 DEF Quit, EnterCleanup, KernelType, Placed, ListType, Argument
  <2>5. ChildType'
    BY <1>1 DEF Quit, EnterCleanup, ChildType, KernelType, Placed, Argument
  <2>6. Placed'
    BY <1>1 DEF Quit, EnterCleanup, ParentType, ListType, ChildType, Placed, Pids
  <2>7. Argument'
    BY <1>1 DEF Quit, EnterCleanup, Argument
  <2>8. Unborn'
    BY <1>1 DEF Quit, EnterCleanup, ListType, ChildType, KernelType, Placed, Unborn
  <2>9. FreedDead'
    BY <1>1 DEF Quit, EnterCleanup, ListType, ChildType, FreedDead, Placed
  <2>10. ResponsesAccounted'
    BY <1>1 DEF Quit, EnterCleanup, ListType, ChildType, KernelType, Placed, Unborn, FreedDead, ResponsesAccounted, Running, Outstanding, Awaited, Live
  <2> QED
    BY <2>2, <2>3, <2>4, <2>5, <2>6, <2>7, <2>8, <2>9, <2>10
<1>2. CASE CommandFails
  <2>1. \A c \in {0} \cup Pids : NextAfter(c) \in {0} \cup Pids
    BY NextAfterType DEF ListType, Pids
  <2>2. ParentType'
    BY <1>2, <2>1 DEF CommandFails, CommandError, EnterCleanup, ParentType, ListType, Pids
  <2>3. ListType'
    BY <1>2 DEF CommandFails, CommandError, EnterCleanup, ListType, ParentType, Pids, Placed
  <2>4. KernelType'
    BY <1>2 DEF CommandFails, CommandError, EnterCleanup, KernelType, Placed, ListType, Argument
  <2>5. ChildType'
    BY <1>2 DEF CommandFails, CommandError, EnterCleanup, ChildType, KernelType, Placed, Argument
  <2>6. Placed'
    BY <1>2 DEF CommandFails, CommandError, EnterCleanup, ParentType, ListType, ChildType, Placed, Pids
  <2>7. Argument'
    BY <1>2 DEF CommandFails, CommandError, EnterCleanup, Argument
  <2>8. Unborn'
    BY <1>2 DEF CommandFails, CommandError, EnterCleanup, ListType, ChildType, KernelType, Placed, Unborn
  <2>9. FreedDead'
    BY <1>2 DEF CommandFails, CommandError, EnterCleanup, ListType, ChildType, FreedDead, Placed
  <2>10. ResponsesAccounted'
    BY <1>2 DEF CommandFails, CommandError, EnterCleanup, ListType, ChildType, KernelType, Placed, Unborn, FreedDead, ResponsesAccounted, Running, Outstanding, Awaited, Live
  <2> QED
    BY <2>2, <2>3, <2>4, <2>5, <2>6, <2>7, <2>8, <2>9, <2>10
<1>3. CASE \E n \in Names : fork(n)
  <2>1. ParentType'
    BY <1>3 DEF fork, ParentType, ListType, Pids
  <2>2. ListType'
    BY <1>3 DEF fork, ListType, ParentType, Pids, Placed
  <2>3. KernelType'
    BY <1>3 DEF fork, KernelType, Placed, ListType, Argument
  <2>4. ChildType'
    BY <1>3 DEF fork, ChildType, ChildStates, KernelType, Placed, Argument
  <2>5. Placed'
    BY <1>3 DEF fork, ParentType, ListType, ChildType, ChildStates, Placed, Pids
  <2>6. Argument'
    BY <1>3 DEF fork, Argument
  <2>7. Unborn'
    BY <1>3 DEF fork, ListType, ChildType, ChildStates, KernelType, Placed, Unborn
  <2>8. FreedDead'
    BY <1>3 DEF fork, ListType, ChildType, ChildStates, FreedDead, Placed
  <2>9. ResponsesAccounted'
    BY <1>3 DEF fork, ListType, ChildType, ChildStates, KernelType, Placed, Unborn, FreedDead, ResponsesAccounted, Running, Outstanding, Awaited, Live
  <2> QED
    BY <2>1, <2>2, <2>3, <2>4, <2>5, <2>6, <2>7, <2>8, <2>9
<1>4. CASE \E n \in Names, x \in Commands : child_find_by_name(n, "send", x)
  <2>1. ParentType'
    BY <1>4 DEF child_find_by_name, ParentType, ListType, Pids
  <2>2. ListType'
    BY <1>4 DEF child_find_by_name, ListType, ParentType, Pids, Placed
  <2>3. KernelType'
    BY <1>4 DEF child_find_by_name, KernelType, Placed, ListType, Argument
  <2>4. ChildType'
    BY <1>4 DEF child_find_by_name, ChildType, KernelType, Placed, Argument
  <2>5. Placed'
    BY <1>4 DEF child_find_by_name, ParentType, ListType, ChildType, Placed, Pids
  <2>6. Argument'
    BY <1>4 DEF child_find_by_name, Argument
  <2>7. Unborn'
    BY <1>4 DEF child_find_by_name, ListType, ChildType, KernelType, Placed, Unborn
  <2>8. FreedDead'
    BY <1>4 DEF child_find_by_name, ListType, ChildType, FreedDead, Placed
  <2>9. ResponsesAccounted'
    BY <1>4 DEF child_find_by_name, ListType, ChildType, KernelType, Placed, Unborn, FreedDead, ResponsesAccounted, Running, Outstanding, Awaited, Live
  <2> QED
    BY <2>1, <2>2, <2>3, <2>4, <2>5, <2>6, <2>7, <2>8, <2>9
<1>5. CASE \E n \in Names, x \in Signals : child_find_by_name(n, "kick", x)
  <2>1. ParentType'
    BY <1>5 DEF child_find_by_name, ParentType, ListType, Pids
  <2>2. ListType'
    BY <1>5 DEF child_find_by_name, ListType, ParentType, Pids, Placed
  <2>3. KernelType'
    BY <1>5 DEF child_find_by_name, KernelType, Placed, ListType, Argument
  <2>4. ChildType'
    BY <1>5 DEF child_find_by_name, ChildType, ChildStates, KernelType, Placed, Argument
  <2>5. Placed'
    BY <1>5 DEF child_find_by_name, ParentType, ListType, ChildType, ChildStates, Placed, Pids
  <2>6. Argument'
    BY <1>5 DEF child_find_by_name, Argument
  <2>7. Unborn'
    BY <1>5 DEF child_find_by_name, ListType, ChildType, ChildStates, KernelType, Placed, Unborn
  <2>8. FreedDead'
    BY <1>5 DEF child_find_by_name, ListType, ChildType, ChildStates, FreedDead, Placed
  <2>9. ResponsesAccounted'
    BY <1>5 DEF child_find_by_name, ListType, ChildType, ChildStates, KernelType, Placed, Unborn, FreedDead, ResponsesAccounted, Running, Outstanding, Awaited, Live
  <2> QED
    BY <2>1, <2>2, <2>3, <2>4, <2>5, <2>6, <2>7, <2>8, <2>9
<1>6. CASE AddChild
  <2>1. ParentType'
    BY <1>6 DEF AddChild, ParentType, ListType, Pids
  <2>2. ListType'
    BY <1>6 DEF AddChild, ListType, ParentType, Pids, Placed
  <2>3. KernelType'
    BY <1>6 DEF AddChild, KernelType, Placed, ListType, Argument
  <2>4. ChildType'
    BY <1>6 DEF AddChild, ChildType, KernelType, Placed, Argument
  <2>5. Placed'
    BY <1>6 DEF AddChild, ParentType, ListType, ChildType, Placed, Pids
  <2>6. Argument'
    BY <1>6 DEF AddChild, Argument
  <2>7. Unborn'
    BY <1>6 DEF AddChild, ListType, ChildType, KernelType, Placed, Unborn
  <2>8. FreedDead'
    BY <1>6 DEF AddChild, ListType, ChildType, FreedDead, Placed
  <2>9. ResponsesAccounted'
    BY <1>6 DEF AddChild, ListType, ChildType, KernelType, Placed, Unborn, FreedDead, ResponsesAccounted, Running, Outstanding, Awaited, Live
  <2> QED
    BY <2>1, <2>2, <2>3, <2>4, <2>5, <2>6, <2>7, <2>8, <2>9
<1>7. CASE child_send
  <2>1. ParentType'
    <3>1. sends' \in 0 .. MaxSends
      BY <1>7 DEF child_send, ParentType
    <3>2. ppc' \in {"cmd", "prewait", "killed"}
      BY <1>7 DEF child_send, Return, ParentEnds
    <3> QED
      BY <1>7, <3>1, <3>2 DEF child_send, Return, ParentEnds, ParentType
  <2>2. ListType'
    BY <1>7 DEF child_send, Return, ParentEnds, Drop, Live, ListType, ParentType, Pids, Placed
  <2>3. KernelType'
    <3>1. hold' \in [Pids -> SUBSET ({Parent} \cup Pids)]
      BY <1>7 DEF child_send, ParentEnds, Drop, KernelType
    <3>2. cmdq' \in [Pids -> Seq(Commands)]
      <4>1. cur \in Pids /\ arg \in Commands
        BY <1>7 DEF child_send, Placed, Argument
      <4>2. Append(cmdq[cur], arg) \in Seq(Commands)
        BY <4>1 DEF KernelType
      <4>3. cmdq' \in {cmdq, [cmdq EXCEPT ![cur] = Append(@, arg)]}
        BY <1>7 DEF child_send
      <4> QED
        BY <4>1, <4>2, <4>3 DEF KernelType
    <3> QED
      BY <1>7, <3>1, <3>2 DEF child_send, KernelType
  <2>4. ChildType'
    BY <1>7 DEF child_send, Return, ParentEnds, Drop, Live, ChildType, ChildStates, KernelType, Placed, Argument
  <2>5. Placed'
    BY <1>7 DEF child_send, Return, ParentEnds, Drop, Live, ParentType, ListType, ChildType, ChildStates, Placed, Pids
  <2>6. Argument'
    BY <1>7 DEF child_send, Return, ParentEnds, Drop, Live, Argument
  <2>7. Unborn'
    BY <1>7 DEF child_send, Return, ParentEnds, Drop, Live, ListType, ChildType, ChildStates, KernelType, Placed, Unborn
  <2>8. FreedDead'
    BY <1>7 DEF child_send, Return, ParentEnds, Drop, Live, ListType, ChildType, ChildStates, FreedDead, Placed
  <2>9. ResponsesAccounted'
    <3> SUFFICES ASSUME Running', NEW d \in Pids, Live(d)', st'[d] # "dying"
                 PROVE  Outstanding(d)' = missed'[d] + Awaited(d)'
      BY DEF ResponsesAccounted
    <3>0. Running
      BY <1>7 DEF child_send, Return, ParentEnds, Running
    <3>1. missed' = missed /\ resp' = resp /\ Awaited(d) = 0
      BY <1>7 DEF child_send, Awaited
    <3>2. Live(d) /\ st'[d] = st[d]
      BY <1>7 DEF child_send, ParentEnds, Live, ChildType, ChildStates
    <3>3. Outstanding(d) = missed[d]
      BY <3>0, <3>1, <3>2 DEF ResponsesAccounted, Awaited, ListType
    <3>4. CASE cmdq' = cmdq /\ ppc' \in {"cmd", "killed"}
      BY <3>1, <3>2, <3>3, <3>4 DEF Outstanding, Awaited, ListType
    <3>5. CASE /\ cmdq' = [cmdq EXCEPT ![cur] = Append(@, arg)]
               /\ ppc' = "prewait" /\ cur' = cur /\ arg \in Commands
      <4>1. Len(cmdq'[d]) = Len(cmdq[d]) + (IF d = cur THEN 1 ELSE 0)
        BY <3>5 DEF KernelType
      <4>2. Len(cmdq[d]) \in Nat /\ resp[d] \in Nat /\ missed[d] \in Nat
        BY DEF KernelType, ListType
      <4>3. Awaited(d)' = IF d = cur THEN 1 ELSE 0
        BY <3>5 DEF Awaited
      <4>4. CASE d = cur
        <5>1. Outstanding(d)' = Outstanding(d) + 1
          BY <3>1, <3>2, <4>1, <4>2, <4>4 DEF Outstanding
        <5> QED
          BY <3>1, <3>3, <4>2, <4>3, <4>4, <5>1
      <4>5. CASE d # cur
        <5>1. Outstanding(d)' = Outstanding(d)
          BY <3>1, <3>2, <4>1, <4>2, <4>5 DEF Outstanding
        <5> QED
          BY <3>1, <3>3, <4>2, <4>3, <4>5, <5>1
      <4> QED
        BY <4>4, <4>5
    <3> QED
      BY <1>7, <3>4, <3>5 DEF child_send, Return, ParentEnds, Argument
  <2> QED
    BY <2>1, <2>2, <2>3, <2>4, <2>5, <2>6, <2>7, <2>8, <2>9
<1>8. CASE child_kick
  <2>0. /\ st' \in [Pids -> ChildStates] /\ csig' \in [Pids -> {"none", "int", "quit"}]
        /\ \A d \in Pids : Woken(d) \/ (Live(d) /\ st'[d] = "dying")
    BY <1>8, PostEffect DEF child_kick, Argument
  <2>1. ParentType'
    BY <1>8 DEF child_kick, Post, Return, Live, ParentType, ListType, Pids
  <2>2. ListType'
    BY <1>8 DEF child_kick, Post, Return, Live, ListType, ParentType, Pids, Placed
  <2>3. KernelType'
    BY <1>8 DEF child_kick, Post, Return, Live, KernelType, Placed, ListType, Argument
  <2>4. ChildType'
    BY <1>8, <2>0 DEF child_kick, ChildType
  <2>5. Placed'
    BY <1>8, <2>0 DEF child_kick, Return, Live, Woken, ListType, Placed
  <2>6. Argument'
    BY <1>8 DEF child_kick, Post, Return, Live, Argument
  <2>7. Unborn'
    BY <1>8, <2>0 DEF child_kick, Woken, kernelvars, Unborn
  <2>8. FreedDead'
    BY <1>8, <2>0 DEF child_kick, Return, Live, Woken, ListType, FreedDead
  <2>9. ResponsesAccounted'
    BY <1>8, <2>0 DEF child_kick, Return, Live, Woken, kernelvars, ResponsesAccounted, Running, Outstanding, Awaited
  <2> QED
    BY <2>1, <2>2, <2>3, <2>4, <2>5, <2>6, <2>7, <2>8, <2>9
<1>9. CASE child_wait
  <2>1. ParentType'
    BY <1>9 DEF child_wait, WaitReturns, Return, Live, ParentType, ListType, Pids
  <2>2. ListType'
    BY <1>9 DEF child_wait, WaitReturns, Return, Live, ListType, ParentType, Pids, Placed
  <2>3. KernelType'
    BY <1>9 DEF child_wait, WaitReturns, Return, Live, KernelType, Placed, ListType, Argument
  <2>4. ChildType'
    BY <1>9 DEF child_wait, WaitReturns, Return, Live, ChildType, KernelType, Placed, Argument
  <2>5. Placed'
    BY <1>9 DEF child_wait, WaitReturns, Return, Live, ParentType, ListType, ChildType, Placed, Pids
  <2>6. Argument'
    BY <1>9 DEF child_wait, WaitReturns, Return, Live, Argument
  <2>7. Unborn'
    BY <1>9 DEF child_wait, WaitReturns, Return, Live, ListType, ChildType, KernelType, Placed, Unborn
  <2>8. FreedDead'
    BY <1>9 DEF child_wait, WaitReturns, Return, Live, ListType, ChildType, FreedDead, Placed
  <2>9. ResponsesAccounted'
    BY <1>9 DEF child_wait, WaitReturns, Return, Live, ListType, ChildType, KernelType, Placed, Unborn, FreedDead, ResponsesAccounted, Running, Outstanding, Awaited
  <2> QED
    BY <2>1, <2>2, <2>3, <2>4, <2>5, <2>6, <2>7, <2>8, <2>9
<1>10. CASE ReadReturns
  <2>1. ParentType'
    BY <1>10 DEF ReadReturns, ReadBlocks, WaitReturns, Return, Live, ParentType, ListType, Pids
  <2>2. ListType'
    BY <1>10 DEF ReadReturns, ReadBlocks, WaitReturns, Return, Live, ListType, ParentType, Pids, Placed
  <2>3. KernelType'
    BY <1>10 DEF ReadReturns, ReadBlocks, WaitReturns, Return, Live, KernelType, Placed, ListType, Argument
  <2>4. ChildType'
    BY <1>10 DEF ReadReturns, ReadBlocks, WaitReturns, Return, Live, ChildType, KernelType, Placed, Argument
  <2>5. Placed'
    BY <1>10 DEF ReadReturns, ReadBlocks, WaitReturns, Return, Live, ParentType, ListType, ChildType, Placed, Pids
  <2>6. Argument'
    BY <1>10 DEF ReadReturns, ReadBlocks, WaitReturns, Return, Live, Argument
  <2>7. Unborn'
    BY <1>10 DEF ReadReturns, ReadBlocks, WaitReturns, Return, Live, ListType, ChildType, KernelType, Placed, Unborn
  <2>8. FreedDead'
    BY <1>10 DEF ReadReturns, ReadBlocks, WaitReturns, Return, Live, ListType, ChildType, FreedDead, Placed
  <2>9. ResponsesAccounted'
    <3> SUFFICES ASSUME Running', NEW d \in Pids, Live(d)', st'[d] # "dying"
                 PROVE  Outstanding(d)' = missed'[d] + Awaited(d)'
      BY DEF ResponsesAccounted
    <3>0. Running
      BY <1>10 DEF ReadReturns, WaitReturns, Return, Running
    <3>1. missed' = missed /\ cmdq' = cmdq /\ st' = st /\ Awaited(d)' = 0
      BY <1>10 DEF ReadReturns, WaitReturns, Return, Awaited
    <3>2. Outstanding(d) = missed[d] + Awaited(d)
      BY <3>0, <3>1 DEF ResponsesAccounted, Live
    <3>3. resp[d] \in Nat /\ missed[d] \in Nat /\ Len(cmdq[d]) \in Nat
      BY DEF KernelType, ListType
    <3>4. CASE d = cur
      <4>1. resp[cur] > 0
        BY <1>10, <3>1, <3>3, <3>4 DEF ReadReturns, ReadBlocks, Live
      <4>2. resp'[d] = resp[d] - 1 /\ Awaited(d) = 1
        BY <1>10, <3>4, <4>1 DEF ReadReturns, Awaited, KernelType
      <4> DEFINE begun == IF st[d] \in {"start", "busy", "paused", "woken"} THEN 1 ELSE 0
      <4>3. /\ Outstanding(d) = resp[d] + Len(cmdq[d]) + begun
            /\ Outstanding(d)' = resp'[d] + Len(cmdq[d]) + begun
        BY <3>1 DEF Outstanding
      <4>4. begun \in Nat
        OBVIOUS
      <4> HIDE DEF begun
      <4> QED
        BY <3>1, <3>2, <3>3, <4>2, <4>3, <4>4
    <3>5. CASE d # cur
      <4>1. resp'[d] = resp[d] /\ Awaited(d) = 0
        BY <1>10, <3>5 DEF ReadReturns, Awaited, KernelType
      <4> QED
        BY <3>1, <3>2, <3>3, <4>1 DEF Outstanding
    <3> QED
      BY <3>4, <3>5
  <2> QED
    BY <2>1, <2>2, <2>3, <2>4, <2>5, <2>6, <2>7, <2>8, <2>9
<1>11. CASE ResetErrors
  <2>1. ParentType'
    BY <1>11 DEF ResetErrors, Return, ParentType, ListType, Pids
  <2>2. ListType'
    BY <1>11 DEF ResetErrors, Return, ListType, ParentType, Pids, Placed
  <2>3. KernelType'
    BY <1>11 DEF ResetErrors, Return, KernelType, Placed, ListType, Argument
  <2>4. ChildType'
    BY <1>11 DEF ResetErrors, Return, ChildType, KernelType, Placed, Argument
  <2>5. Placed'
    BY <1>11 DEF ResetErrors, Return, ParentType, ListType, ChildType, Placed, Pids
  <2>6. Argument'
    BY <1>11 DEF ResetErrors, Return, Argument
  <2>7. Unborn'
    BY <1>11 DEF ResetErrors, Return, ListType, ChildType, KernelType, Placed, Unborn
  <2>8. FreedDead'
    BY <1>11 DEF ResetErrors, Return, ListType, ChildType, FreedDead, Placed
  <2>9. ResponsesAccounted'
    BY <1>11 DEF ResetErrors, Return, ListType, ChildType, KernelType, Placed, Unborn, FreedDead, ResponsesAccounted, Running, Outstanding, Awaited, Live
  <2> QED
    BY <2>1, <2>2, <2>3, <2>4, <2>5, <2>6, <2>7, <2>8, <2>9
<1>12. CASE children_free
  <2>0. /\ st' \in [Pids -> ChildStates] /\ csig' \in [Pids -> {"none", "int", "quit"}]
        /\ \A d \in Pids : Woken(d) \/ (Live(d) /\ st'[d] = "dying")
    BY <1>12, PostEffect DEF children_free
  <2>1. \A c \in {0} \cup Pids : NextAfter(c) \in {0} \cup Pids
    BY NextAfterType DEF ListType, Pids
  <2>2. ParentType'
    BY <1>12, <2>1 DEF children_free, Post, Live, ParentType, ListType, Pids
  <2>3. ListType'
    BY <1>12 DEF children_free, Post, Live, ListType, ParentType, Pids, Placed
  <2>4. KernelType'
    BY <1>12 DEF children_free, Post, Live, KernelType, Placed, ListType, Argument
  <2>5. ChildType'
    BY <1>12, <2>0 DEF children_free, ChildType
  <2>6. Placed'
    BY <1>12, <2>0 DEF children_free, Live, Woken, ListType, Placed
  <2>7. Argument'
    BY <1>12 DEF children_free, Post, Live, Argument
  <2>8. Unborn'
    BY <1>12, <2>0 DEF children_free, Woken, kernelvars, Unborn
  <2>9. FreedDead'
    BY <1>12 DEF children_free, Post, Live, ListType, ChildType, FreedDead, Placed
  <2>10. ResponsesAccounted'
    BY <1>12, <2>0 DEF children_free, Live, Woken, kernelvars, ResponsesAccounted, Running, Outstanding, Awaited
  <2> QED
    BY <2>2, <2>3, <2>4, <2>5, <2>6, <2>7, <2>8, <2>9, <2>10
<1>13. CASE CleanupOfFreed
  <2>1. ParentType'
    BY <1>13 DEF CleanupOfFreed, ParentType, ListType, Pids
  <2>2. ListType'
    BY <1>13 DEF CleanupOfFreed, ListType, ParentType, Pids, Placed
  <2>3. KernelType'
    BY <1>13 DEF CleanupOfFreed, KernelType, Placed, ListType, Argument
  <2>4. ChildType'
    BY <1>13 DEF CleanupOfFreed, ChildType, KernelType, Placed, Argument
  <2>5. Placed'
    BY <1>13 DEF CleanupOfFreed, ParentType, ListType, ChildType, Placed, Pids
  <2>6. Argument'
    BY <1>13 DEF CleanupOfFreed, Argument
  <2>7. Unborn'
    BY <1>13 DEF CleanupOfFreed, ListType, ChildType, KernelType, Placed, Unborn
  <2>8. FreedDead'
    BY <1>13 DEF CleanupOfFreed, ListType, ChildType, FreedDead, Placed
  <2>9. ResponsesAccounted'
    BY <1>13 DEF CleanupOfFreed, ListType, ChildType, KernelType, Placed, Unborn, FreedDead, ResponsesAccounted, Running, Outstanding, Awaited, Live
  <2> QED
    BY <2>1, <2>2, <2>3, <2>4, <2>5, <2>6, <2>7, <2>8, <2>9
<1>14. CASE CleanupDone
  <2>1. ParentType'
    BY <1>14 DEF CleanupDone, ParentEnds, Drop, ParentType, ListType, Pids
  <2>2. ListType'
    BY <1>14 DEF CleanupDone, ParentEnds, Drop, ListType, ParentType, Pids, Placed
  <2>3. KernelType'
    BY <1>14 DEF CleanupDone, ParentEnds, Drop, KernelType, Placed, ListType, Argument
  <2>4. ChildType'
    BY <1>14 DEF CleanupDone, ParentEnds, Drop, ChildType, ChildStates, KernelType, Placed, Argument
  <2>5. Placed'
    BY <1>14 DEF CleanupDone, ParentEnds, Drop, ParentType, ListType, ChildType, ChildStates, Placed, Pids
  <2>6. Argument'
    BY <1>14 DEF CleanupDone, ParentEnds, Drop, Argument
  <2>7. Unborn'
    BY <1>14 DEF CleanupDone, ParentEnds, Drop, ListType, ChildType, ChildStates, KernelType, Placed, Unborn
  <2>8. FreedDead'
    BY <1>14 DEF CleanupDone, ParentEnds, Drop, ListType, ChildType, ChildStates, FreedDead, Placed
  <2>9. ResponsesAccounted'
    BY <1>14 DEF CleanupDone, ParentEnds, Drop, ListType, ChildType, ChildStates, KernelType, Placed, Unborn, FreedDead, ResponsesAccounted, Running, Outstanding, Awaited, Live
  <2> QED
    BY <2>1, <2>2, <2>3, <2>4, <2>5, <2>6, <2>7, <2>8, <2>9
<1>15. CASE sigcld_handler
  <2>1. ParentType'
    BY <1>15 DEF sigcld_handler, Interrupted, WaitReturns, Return, child_reap, Running, ParentType, ListType, Pids
  <2>2. ListType'
    <3>1. missed' \in [Pids -> Nat]
      BY <1>15 DEF sigcld_handler, Interrupted, ListType, Placed
    <3> QED
      BY <1>15, <3>1 DEF sigcld_handler, child_reap, ListType
  <2>3. KernelType'
    <3>1. hold' \in [Pids -> SUBSET ({Parent} \cup Pids)]
      <4>1. \/ hold' = hold
            \/ \E z \in Pids : hold' = [hold EXCEPT ![z] = @ \ {Parent}]
        BY <1>15 DEF sigcld_handler, child_reap
      <4> QED
        BY <4>1 DEF KernelType
    <3> QED
      BY <1>15, <3>1 DEF sigcld_handler, KernelType
  <2>4. ChildType'
    BY <1>15 DEF sigcld_handler, Interrupted, WaitReturns, Return, child_reap, Running, ChildType, ChildStates, KernelType, Placed, Argument
  <2>5. Placed'
    <3>1. \A c \in Pids : st[c] # "unborn" => st'[c] # "unborn"
      BY <1>15 DEF sigcld_handler, ChildType, ChildStates
    <3>2. children' \subseteq children
      BY <1>15 DEF sigcld_handler, child_reap
    <3>3. ppc' \in {"forked", "found", "prewait", "wait", "sent"} =>
              cur' = cur /\ ppc \in {"forked", "found", "prewait", "wait", "sent"}
      BY <1>15 DEF sigcld_handler, Interrupted, WaitReturns, Return
    <3> QED
      BY <3>1, <3>2, <3>3 DEF Placed, ListType
  <2>6. Argument'
    BY <1>15 DEF sigcld_handler, Interrupted, WaitReturns, Return, child_reap, Running, Argument
  <2>7. Unborn'
    BY <1>15 DEF sigcld_handler, Interrupted, WaitReturns, Return, child_reap, Running, ListType, ChildType, ChildStates, KernelType, Placed, Unborn
  <2>8. FreedDead'
    BY <1>15 DEF sigcld_handler, Interrupted, WaitReturns, Return, child_reap, Running, ListType, ChildType, ChildStates, FreedDead, Placed
  <2>9. ResponsesAccounted'
    <3> SUFFICES ASSUME Running', NEW d \in Pids, Live(d)', st'[d] # "dying"
                 PROVE  Outstanding(d)' = missed'[d] + Awaited(d)'
      BY DEF ResponsesAccounted
    <3>0. Running
      BY <1>15 DEF sigcld_handler, Running
    <3>1. cmdq' = cmdq /\ resp' = resp
      BY <1>15 DEF sigcld_handler
    <3>2. st'[d] = st[d]
      BY <1>15 DEF sigcld_handler, ChildType, ChildStates, Live
    <3>3. Outstanding(d)' = Outstanding(d) /\ Outstanding(d) = missed[d] + Awaited(d)
      BY <3>0, <3>1, <3>2 DEF ResponsesAccounted, Outstanding, Live
    <3>4. missed'[d] + Awaited(d)' = missed[d] + Awaited(d)
      BY <1>15 DEF sigcld_handler, Interrupted, WaitReturns, Return, Awaited, ListType
    <3> QED
      BY <3>3, <3>4
  <2> QED
    BY <2>1, <2>2, <2>3, <2>4, <2>5, <2>6, <2>7, <2>8, <2>9
<1>16. CASE UserInterrupts
  <2>1. ParentType'
    BY <1>16 DEF UserInterrupts, Interrupted, WaitReturns, Return, ParentType, ListType, Pids
  <2>2. ListType'
    BY <1>16 DEF UserInterrupts, Interrupted, WaitReturns, Return, ListType, ParentType, Pids, Placed
  <2>3. KernelType'
    BY <1>16 DEF UserInterrupts, Interrupted, WaitReturns, Return, KernelType, Placed, ListType, Argument
  <2>4. ChildType'
    BY <1>16 DEF UserInterrupts, Interrupted, WaitReturns, Return, ChildType, KernelType, Placed, Argument
  <2>5. Placed'
    BY <1>16 DEF UserInterrupts, Interrupted, WaitReturns, Return, ParentType, ListType, ChildType, Placed, Pids
  <2>6. Argument'
    BY <1>16 DEF UserInterrupts, Interrupted, WaitReturns, Return, Argument
  <2>7. Unborn'
    BY <1>16 DEF UserInterrupts, Interrupted, WaitReturns, Return, ListType, ChildType, KernelType, Placed, Unborn
  <2>8. FreedDead'
    BY <1>16 DEF UserInterrupts, Interrupted, WaitReturns, Return, ListType, ChildType, FreedDead, Placed
  <2>9. ResponsesAccounted'
    BY <1>16 DEF UserInterrupts, Interrupted, WaitReturns, Return, ListType, ChildType, KernelType, Placed, Unborn, FreedDead, ResponsesAccounted, Running, Outstanding, Awaited, Live
  <2> QED
    BY <2>1, <2>2, <2>3, <2>4, <2>5, <2>6, <2>7, <2>8, <2>9
<1>17. ASSUME NEW c \in Pids, ChildStarts(c) PROVE Inv'
  <2>1. ParentType'
    BY <1>17 DEF ChildStarts, Respond, ParentType, ListType, Pids
  <2>2. ListType'
    BY <1>17 DEF ChildStarts, Respond, ListType, ParentType, Pids, Placed
  <2>3. KernelType'
    BY <1>17 DEF ChildStarts, Respond, KernelType, Placed, ListType, Argument
  <2>4. ChildType'
    BY <1>17 DEF ChildStarts, Respond, ChildType, ChildStates, KernelType, Placed, Argument
  <2>5. Placed'
    BY <1>17 DEF ChildStarts, Respond, ParentType, ListType, ChildType, ChildStates, Placed, Pids
  <2>6. Argument'
    BY <1>17 DEF ChildStarts, Respond, Argument
  <2>7. Unborn'
    BY <1>17 DEF ChildStarts, Respond, ListType, ChildType, ChildStates, KernelType, Placed, Unborn
  <2>8. FreedDead'
    BY <1>17 DEF ChildStarts, Respond, ListType, ChildType, ChildStates, FreedDead, Placed
  <2>9. ResponsesAccounted'
    <3> SUFFICES ASSUME Running', NEW d \in Pids, Live(d)', st'[d] # "dying"
                 PROVE  Outstanding(d)' = missed'[d] + Awaited(d)'
      BY DEF ResponsesAccounted
    <3>0. Running
      BY <1>17 DEF ChildStarts, parentvars, Running
    <3>1. Live(d) /\ st[d] # "dying" /\ missed' = missed /\ Awaited(d)' = Awaited(d)
      BY <1>17 DEF ChildStarts, Live, ChildType, ChildStates, Awaited
    <3>2. Outstanding(d)' = Outstanding(d)
      <4>1. resp[d] \in Nat /\ Len(cmdq[d]) \in Nat /\ cmdq' = cmdq
        BY <1>17 DEF ChildStarts, KernelType
      <4>2. CASE d = c
        <5>1. resp'[d] = resp[d] + 1 /\ st[d] = "start" /\ st'[d] = "idle"
          BY <1>17, <4>2 DEF ChildStarts, Respond, KernelType, ChildType, ChildStates
        <5> QED
          BY <4>1, <5>1 DEF Outstanding
      <4>3. CASE d # c
        <5>1. resp'[d] = resp[d] /\ st'[d] = st[d]
          BY <1>17, <4>3 DEF ChildStarts, Respond, KernelType, ChildType, ChildStates
        <5> QED
          BY <4>1, <5>1 DEF Outstanding
      <4> QED
        BY <4>2, <4>3
    <3> QED
      BY <3>0, <3>1, <3>2 DEF ResponsesAccounted
  <2> QED
    BY <2>1, <2>2, <2>3, <2>4, <2>5, <2>6, <2>7, <2>8, <2>9
<1>18. ASSUME NEW c \in Pids, ChildStartFails(c) PROVE Inv'
  <2>1. ParentType'
    BY <1>18, StartFailsEffect DEF ChildStartFails, ParentType, ListType, Pids
  <2>2. ListType'
    BY <1>18, StartFailsEffect DEF ChildStartFails, ListType, ParentType, Pids, Placed
  <2>3. KernelType'
    BY <1>18, StartFailsEffect DEF ChildStartFails, KernelType, Placed, ListType, Argument
  <2>4. ChildType'
    BY <1>18, StartFailsEffect DEF ChildStartFails, ChildType
  <2>5. Placed'
    BY <1>18, StartFailsEffect DEF ChildStartFails, ListType, Placed, Woken
  <2>6. Argument'
    BY <1>18, StartFailsEffect DEF ChildStartFails, Argument
  <2>7. Unborn'
    BY <1>18, StartFailsEffect DEF ChildStartFails, Woken, Unborn
  <2>8. FreedDead'
    BY <1>18, StartFailsEffect DEF ChildStartFails, ListType, FreedDead, Woken
  <2>9. ResponsesAccounted'
    BY <1>18, StartFailsEffect DEF ChildStartFails, Woken, ResponsesAccounted, Running, Outstanding, Awaited, Live
  <2> QED
    BY <2>1, <2>2, <2>3, <2>4, <2>5, <2>6, <2>7, <2>8, <2>9
<1>19. ASSUME NEW c \in Pids, ReadsCommand(c) PROVE Inv'
  <2>1. ParentType'
    BY <1>19, DieEffect DEF ReadsCommand, ParentType, ListType, Pids
  <2>2. ListType'
    BY <1>19, DieEffect DEF ReadsCommand, ListType, ParentType, Pids, Placed
  <2>3. KernelType'
    <3>1. cmdq' \in [Pids -> Seq(Commands)]
      BY <1>19 DEF ReadsCommand, KernelType
    <3>2. hold' \in [Pids -> SUBSET ({Parent} \cup Pids)] /\ pending' \in BOOLEAN
      BY <1>19, DieEffect DEF ReadsCommand, KernelType
    <3> QED
      BY <1>19, <3>1, <3>2 DEF ReadsCommand, KernelType
  <2>4. ChildType'
    <3>1. Head(cmdq[c]) \in Commands
      BY <1>19 DEF ReadsCommand, KernelType
    <3>2. CASE Die(c)
      BY <1>19, <3>2, DieEffect DEF ReadsCommand, ChildType, ChildStates
    <3>3. CASE ~Die(c)
      BY <1>19, <3>1, <3>3 DEF ReadsCommand, ChildType, ChildStates
    <3> QED
      BY <3>2, <3>3
  <2>5. Placed'
    BY <1>19, DieEffect DEF ReadsCommand, ParentType, ListType, ChildType, ChildStates, Placed, Pids
  <2>6. Argument'
    BY <1>19, DieEffect DEF ReadsCommand, Argument
  <2>7. Unborn'
    BY <1>19, DieEffect DEF ReadsCommand, ListType, ChildType, ChildStates, KernelType, Placed, Unborn
  <2>8. FreedDead'
    BY <1>19, DieEffect DEF ReadsCommand, ListType, ChildType, ChildStates, FreedDead, Placed
  <2>9. ResponsesAccounted'
    <3> SUFFICES ASSUME Running', NEW d \in Pids, Live(d)', st'[d] # "dying"
                 PROVE  Outstanding(d)' = missed'[d] + Awaited(d)'
      BY DEF ResponsesAccounted
    <3>0. Running
      BY <1>19 DEF ReadsCommand, parentvars, Running
    <3>1. missed' = missed /\ resp' = resp /\ Awaited(d)' = Awaited(d)
      BY <1>19 DEF ReadsCommand, Awaited
    <3>2. CASE d = c
      <4>1. st'[c] = "busy" /\ st[c] = "idle"
        BY <1>19, <3>2, DieEffect DEF ReadsCommand, ChildType, ChildStates, Live
      <4>2. Len(cmdq'[c]) = Len(cmdq[c]) - 1 /\ Len(cmdq[c]) \in Nat /\ resp[c] \in Nat
        BY <1>19 DEF ReadsCommand, KernelType
      <4>3. Outstanding(c)' = Outstanding(c)
        BY <3>1, <4>1, <4>2 DEF Outstanding
      <4> QED
        BY <3>0, <3>1, <3>2, <4>1, <4>3 DEF ResponsesAccounted, Live
    <3>3. CASE d # c
      <4>1. st'[d] = st[d] /\ cmdq'[d] = cmdq[d]
        BY <1>19, <3>3, DieEffect DEF ReadsCommand, ChildType, ChildStates, KernelType
      <4> QED
        BY <3>0, <3>1, <4>1 DEF ResponsesAccounted, Outstanding, Live
    <3> QED
      BY <3>2, <3>3
  <2> QED
    BY <2>1, <2>2, <2>3, <2>4, <2>5, <2>6, <2>7, <2>8, <2>9
<1>20. ASSUME NEW c \in Pids, ReadsEof(c) PROVE Inv'
  <2>1. ParentType'
    BY <1>20, DieEffect DEF ReadsEof, ParentType, ListType, Pids
  <2>2. ListType'
    BY <1>20, DieEffect DEF ReadsEof, ListType, ParentType, Pids, Placed
  <2>3. KernelType'
    BY <1>20, DieEffect DEF ReadsEof, KernelType, Placed, ListType, Argument
  <2>4. ChildType'
    BY <1>20, DieEffect DEF ReadsEof, ChildType, KernelType, Placed, Argument
  <2>5. Placed'
    BY <1>20, DieEffect DEF ReadsEof, ParentType, ListType, ChildType, Placed, Pids
  <2>6. Argument'
    BY <1>20, DieEffect DEF ReadsEof, Argument
  <2>7. Unborn'
    BY <1>20, DieEffect DEF ReadsEof, ListType, ChildType, KernelType, Placed, Unborn
  <2>8. FreedDead'
    BY <1>20, DieEffect DEF ReadsEof, ListType, ChildType, FreedDead, Placed
  <2>9. ResponsesAccounted'
    BY <1>20, DieEffect DEF ReadsEof, ListType, ChildType, KernelType, Placed, Unborn, FreedDead, ResponsesAccounted, Running, Outstanding, Awaited, Live
  <2> QED
    BY <2>1, <2>2, <2>3, <2>4, <2>5, <2>6, <2>7, <2>8, <2>9
<1>21. ASSUME NEW c \in Pids, CommandEnds(c) PROVE Inv'
  <2>1. ParentType'
    BY <1>21, DieEffect DEF CommandEnds, Respond, ParentType, ListType, Pids
  <2>2. ListType'
    BY <1>21, DieEffect DEF CommandEnds, Respond, ListType, ParentType, Pids, Placed
  <2>3. KernelType'
    <3>1. hold' \in [Pids -> SUBSET ({Parent} \cup Pids)] /\ pending' \in BOOLEAN
      BY <1>21, DieEffect DEF CommandEnds, KernelType
    <3>2. resp' \in [Pids -> Nat]
      <4>1. resp' = resp \/ Respond(c)
        BY <1>21 DEF CommandEnds
      <4>2. \A d \in Pids : resp[d] + 1 \in Nat
        BY DEF KernelType
      <4> QED
        BY <4>1, <4>2 DEF Respond, KernelType
    <3> QED
      BY <1>21, <3>1, <3>2 DEF CommandEnds, KernelType
  <2>4. ChildType'
    <3>1. doing' \in [Pids -> {"none"} \cup Commands] /\ name' = name
      BY <1>21 DEF CommandEnds, ChildType
    <3>2. st' \in [Pids -> ChildStates]
      BY <1>21, DieEffect DEF CommandEnds, ChildType, ChildStates
    <3>3. csig' \in [Pids -> {"none", "int", "quit"}]
      <4>1. SignalLeft(c) \subseteq {"none", "int", "quit"}
        BY DEF SignalLeft, ChildType
      <4> QED
        BY <1>21, <4>1 DEF CommandEnds, ChildType
    <3> QED
      BY <3>1, <3>2, <3>3 DEF ChildType
  <2>5. Placed'
    BY <1>21, DieEffect DEF CommandEnds, Respond, ParentType, ListType, ChildType, Placed, Pids
  <2>6. Argument'
    BY <1>21, DieEffect DEF CommandEnds, Respond, Argument
  <2>7. Unborn'
    <3>1. \A d \in Pids : st'[d] = "unborn" => st[d] = "unborn" /\ d # c
      BY <1>21, DieEffect DEF CommandEnds, ChildType
    <3>2. \A d \in Pids \ {c} : resp'[d] = resp[d]
      BY <1>21 DEF CommandEnds, Respond, KernelType
    <3> QED
      BY <1>21, <3>1, <3>2 DEF CommandEnds, Unborn
  <2>8. FreedDead'
    <3>1. st[c] \in {"busy", "woken"} /\ UNCHANGED <<ppc, freed>>
      BY <1>21 DEF CommandEnds, AtEnd
    <3>2. \A d \in Pids \ {c} : st'[d] = st[d]
      BY <1>21, DieEffect DEF CommandEnds, ChildType
    <3> QED
      BY <3>1, <3>2 DEF ListType, FreedDead
  <2>9. ResponsesAccounted'
    <3> SUFFICES ASSUME Running', NEW d \in Pids, Live(d)', st'[d] # "dying"
                 PROVE  Outstanding(d)' = missed'[d] + Awaited(d)'
      BY DEF ResponsesAccounted
    <3>0. Running
      BY <1>21 DEF CommandEnds, parentvars, Running
    <3>1. missed' = missed /\ cmdq' = cmdq /\ Awaited(d)' = Awaited(d)
      BY <1>21 DEF CommandEnds, Awaited
    <3>2. CASE d = c
      <4>1. st'[c] \in {"exiting", "idle"} /\ st[c] \in {"busy", "woken"}
        BY <1>21, <3>2, DieEffect DEF CommandEnds, AtEnd, ChildType, Live
      <4>2. ~Die(c)
        BY <4>1, DieEffect
      <4>3. resp'[c] = resp[c] + 1 /\ resp[c] \in Nat /\ Len(cmdq[c]) \in Nat
        BY <1>21, <4>2 DEF CommandEnds, Respond, KernelType
      <4>4. Outstanding(c)' = Outstanding(c)
        BY <3>1, <4>1, <4>3 DEF Outstanding
      <4> QED
        BY <3>0, <3>1, <3>2, <4>1, <4>4 DEF ResponsesAccounted, Live
    <3>3. CASE d # c
      <4>1. st'[d] = st[d] /\ resp'[d] = resp[d]
        BY <1>21, <3>3, DieEffect DEF CommandEnds, Respond, ChildType, KernelType
      <4> QED
        BY <3>0, <3>1, <4>1 DEF ResponsesAccounted, Outstanding, Live
    <3> QED
      BY <3>2, <3>3
  <2> QED
    BY <2>1, <2>2, <2>3, <2>4, <2>5, <2>6, <2>7, <2>8, <2>9
<1>22. ASSUME NEW c \in Pids, ChildExits(c) PROVE Inv'
  <2>1. ParentType'
    BY <1>22, DieEffect DEF ChildExits, ParentType, ListType, Pids
  <2>2. ListType'
    BY <1>22, DieEffect DEF ChildExits, ListType, ParentType, Pids, Placed
  <2>3. KernelType'
    BY <1>22, DieEffect DEF ChildExits, KernelType, Placed, ListType, Argument
  <2>4. ChildType'
    BY <1>22, DieEffect DEF ChildExits, ChildType, KernelType, Placed, Argument
  <2>5. Placed'
    BY <1>22, DieEffect DEF ChildExits, ParentType, ListType, ChildType, Placed, Pids
  <2>6. Argument'
    BY <1>22, DieEffect DEF ChildExits, Argument
  <2>7. Unborn'
    BY <1>22, DieEffect DEF ChildExits, ListType, ChildType, KernelType, Placed, Unborn
  <2>8. FreedDead'
    BY <1>22, DieEffect DEF ChildExits, ListType, ChildType, FreedDead, Placed
  <2>9. ResponsesAccounted'
    BY <1>22, DieEffect DEF ChildExits, ListType, ChildType, KernelType, Placed, Unborn, FreedDead, ResponsesAccounted, Running, Outstanding, Awaited, Live
  <2> QED
    BY <2>1, <2>2, <2>3, <2>4, <2>5, <2>6, <2>7, <2>8, <2>9
<1>23. CASE ParentKilled
  <2>1. ParentType'
    BY <1>23 DEF ParentKilled, ParentEnds, Drop, ParentType, ListType, Pids
  <2>2. ListType'
    BY <1>23 DEF ParentKilled, ParentEnds, Drop, ListType, ParentType, Pids, Placed
  <2>3. KernelType'
    BY <1>23 DEF ParentKilled, ParentEnds, Drop, KernelType, Placed, ListType, Argument
  <2>4. ChildType'
    BY <1>23 DEF ParentKilled, ParentEnds, Drop, ChildType, ChildStates, KernelType, Placed, Argument
  <2>5. Placed'
    BY <1>23 DEF ParentKilled, ParentEnds, Drop, ParentType, ListType, ChildType, ChildStates, Placed, Pids
  <2>6. Argument'
    BY <1>23 DEF ParentKilled, ParentEnds, Drop, Argument
  <2>7. Unborn'
    BY <1>23 DEF ParentKilled, ParentEnds, Drop, ListType, ChildType, ChildStates, KernelType, Placed, Unborn
  <2>8. FreedDead'
    BY <1>23 DEF ParentKilled, ParentEnds, Drop, ListType, ChildType, ChildStates, FreedDead, Placed
  <2>9. ResponsesAccounted'
    BY <1>23 DEF ParentKilled, ParentEnds, Drop, ListType, ChildType, ChildStates, KernelType, Placed, Unborn, FreedDead, ResponsesAccounted, Running, Outstanding, Awaited, Live
  <2> QED
    BY <2>1, <2>2, <2>3, <2>4, <2>5, <2>6, <2>7, <2>8, <2>9
<1>24. ASSUME NEW c \in Pids, pause_me(c) PROVE Inv'
  <2>1. /\ st[c] = "busy" /\ st'[c] = "paused" /\ st' \in [Pids -> ChildStates]
        /\ \A d \in Pids \ {c} : st'[d] = st[d]
        /\ UNCHANGED <<parentvars, kernelvars, name, doing, csig>>
    BY <1>24 DEF pause_me, ChildType, ChildStates
  <2>2. ParentType' /\ ListType' /\ KernelType' /\ ChildType' /\ Argument'
    BY <2>1 DEF ParentType, ListType, KernelType, ChildType, Argument
  <2>3. Placed' /\ Unborn' /\ FreedDead'
    BY <2>1 DEF ListType, Placed, Unborn, FreedDead
  <2>4. ResponsesAccounted'
    BY <2>1 DEF ResponsesAccounted, Running, Outstanding, Awaited, Live
  <2> QED
    BY <2>2, <2>3, <2>4
<1>25. CASE UNCHANGED vars
  BY <1>25 DEF vars, ParentType, ListType, KernelType, ChildType, Placed, Argument, Unborn, FreedDead, ResponsesAccounted, Running, Outstanding, Awaited, Live
<1> QED
  BY <1>1, <1>2, <1>3, <1>4, <1>5, <1>6, <1>7, <1>8, <1>9, <1>10, <1>11, <1>12, <1>13, <1>14, <1>15, <1>16, <1>17, <1>18, <1>19, <1>20, <1>21, <1>22, <1>23, <1>24, <1>25 DEF Next, Command, Proceed, Child

\* The invariant holds of every behaviour.
LEMMA InvHolds == Spec => []Inv
  BY InvInit, InvNext, PTL DEF Spec

-----------------------------------------------------------------------------
(***************************************************************************)
(* Every variable keeps its type: send puts only commands into a pipe,     *)
(* kick only signals into a handler, and the walk of children_free() stays *)
(* on the list.                                                            *)
(***************************************************************************)
THEOREM TypeCorrect == Spec => []TypeOK
<1>1. Inv => TypeOK
  BY DEF Inv, TypeOK
<1> QED
  BY InvHolds, <1>1, PTL

(***************************************************************************)
(* child_respond() and child_wait() stay one to one, for any number of     *)
(* children, of commands and of waits that a signal cut short.             *)
(***************************************************************************)
THEOREM Accounted == Spec => []ResponsesAccounted
<1>1. Inv => ResponsesAccounted
  BY DEF Inv
<1> QED
  BY InvHolds, <1>1, PTL

(***************************************************************************)
(* A child whose waits were never cut short is ready when the parent takes *)
(* its next command: all its terms of the account are 0.                   *)
(***************************************************************************)
THEOREM Ready == Spec => []ReadyUnlessMissed
<1>1. Inv => ReadyUnlessMissed
  <2> SUFFICES ASSUME Inv, ppc = "cmd", NEW c \in Pids,
                      Live(c), st[c] # "dying", missed[c] = 0
               PROVE  cmdq[c] = <<>> /\ st[c] \in {"idle", "exiting"} /\ resp[c] = 0
    BY DEF ReadyUnlessMissed
  <2>1. Outstanding(c) = 0
    BY DEF Inv, ResponsesAccounted, Running, Awaited
  <2>2. resp[c] \in Nat /\ cmdq[c] \in Seq(Commands) /\ Len(cmdq[c]) \in Nat
    BY DEF Inv, KernelType
  <2>3. resp[c] = 0 /\ Len(cmdq[c]) = 0 /\ st[c] \notin {"start", "busy", "paused", "woken"}
    BY <2>1, <2>2 DEF Outstanding
  <2> QED
    BY <2>2, <2>3 DEF Live
<1> QED
  BY InvHolds, <1>1, PTL

-----------------------------------------------------------------------------
(***************************************************************************)
(* The list of children.  What ListSound and OnlyUnstartedLinger say is    *)
(* made true in the window between fork() and list_add_tail(), when a      *)
(* child is there that the handler cannot find on the list: its name is    *)
(* new, its pipe is open and it was told nothing, so unless its start      *)
(* fails it is alive when it is put on the list (Window).  Once it is      *)
(* there, the handler takes it off in the step that reaps it, so a reaped  *)
(* one is one that the handler saw in the window (Listed).                 *)
(***************************************************************************)
Untold(c) == cmdq[c] = <<>> /\ doing[c] = "none"

Window ==
    ppc = "forked" =>
        /\ cur \notin children /\ cur \notin freed /\ Parent \in hold[cur]
        /\ \A d \in children : name[d] # name[cur]
        /\ Untold(cur)
        /\ \/ st[cur] = "start" /\ resp[cur] = 0
           \/ st[cur] = "idle"
           \/ st[cur] \in {"zombie", "reaped"} /\ resp[cur] = 0 /\ StartMayFail

Listed ==
    Running => \A c \in children :
        /\ c \notin freed /\ Parent \in hold[c]
        /\ \A d \in children : name[c] = name[d] => c = d
        /\ st[c] = "reaped" => StartMayFail /\ resp[c] = 0 /\ Untold(c)

Idle == \A c \in Pids : st[c] = "unborn" => doing[c] = "none"

ListInv == Window /\ Listed /\ Idle

\* A step that leaves alone all that the invariant speaks of.
LEMMA QuietStep ==
    ASSUME Inv, ListInv, UNCHANGED <<children, freed, hold, st, name, cmdq, resp, doing>>,
           ppc' # "forked", Running
    PROVE  ListInv'
BY DEF Inv, ListInv, Window, Listed, Idle, Untold, Running

\* The parent is no more.
LEMMA EndedStep ==
    ASSUME Inv, ListInv, ParentEnds("killed") \/ ParentEnds("gone"), UNCHANGED doing
    PROVE  ListInv'
<1>1. ~Running' /\ ppc' # "forked"
  BY DEF ParentEnds, Running
<1>2. Idle'
  BY DEF ParentEnds, ListInv, Idle, Inv, ChildType
<1> QED
  BY <1>1, <1>2 DEF ListInv, Window, Listed

(***************************************************************************)
(* A child ends; if its start failed, its elders get a signal meanwhile.   *)
(***************************************************************************)
Gone(c) ==
    /\ hold' = Drop(c)
    /\ st'[c] = (IF Running THEN "zombie" ELSE "reaped")
    /\ \A d \in Pids \ {c} : Woken(d)

\* Die(c) is one way to end.
LEMMA DieIsGone ==
    ASSUME Inv, NEW c \in Pids, Die(c)
    PROVE  Gone(c)
BY DieEffect DEF Die, Gone, Woken, Inv, ChildType

\* A failed start is another.
LEMMA StartFailsIsGone ==
    ASSUME Inv, NEW c \in Pids, ChildStartFails(c)
    PROVE  Gone(c)
BY StartFailsEffect DEF ChildStartFails, Gone, Inv

\* A child that is not in the window dies, or one in it whose start fails.
LEMMA DiesStep ==
    ASSUME Inv, ListInv, NEW c \in Pids, Gone(c), Live(c),
           UNCHANGED <<ppc, cur, children, freed, name, resp>>,
           \A d \in Pids \ {c} : cmdq'[d] = cmdq[d] /\ doing'[d] = doing[d],
           ppc = "forked" /\ cur = c =>
               StartMayFail /\ st[c] = "start" /\ UNCHANGED <<cmdq, doing>>
    PROVE  ListInv'
<1>1. \A d \in Pids \ {c} : st'[d] = st[d] \/ (st[d] = "paused" /\ st'[d] = "woken")
  BY DEF Gone, Woken
<1>2. /\ st'[c] \in {"zombie", "reaped"}
      /\ Running => st'[c] = "zombie"
  BY DEF Gone
<1>3. \A d \in Pids : Parent \in hold[d] => Parent \in hold'[d]
  BY ChildrenAssumption DEF Gone, Drop, Parent, Pids
<1>4. Running' <=> Running
  BY DEF Running
<1>5. children \subseteq Pids /\ (ppc = "forked" => cur \in Pids)
  BY DEF Inv, ListType, Placed
<1>6. Idle'
  BY <1>1, <1>2 DEF ListInv, Idle
<1>7. Window'
  <2> SUFFICES ASSUME ppc = "forked"
               PROVE  Window'
    BY DEF Window
  <2>1. CASE cur = c
    BY <1>2, <1>3, <1>5, <2>1 DEF ListInv, Window, Untold
  <2>2. CASE cur # c
    BY <1>1, <1>3, <1>5, <2>2 DEF ListInv, Window, Untold
  <2> QED
    BY <2>1, <2>2
<1>8. Listed'
  <2> SUFFICES ASSUME Running, NEW d \in children
               PROVE  /\ d \notin freed /\ Parent \in hold'[d]
                      /\ \A e \in children : name[d] = name[e] => d = e
                      /\ st'[d] = "reaped" => StartMayFail /\ resp[d] = 0 /\ Untold(d)'
    BY <1>4 DEF Listed
  <2>1. /\ d \notin freed /\ Parent \in hold'[d]
        /\ \A e \in children : name[d] = name[e] => d = e
    BY <1>3, <1>5 DEF ListInv, Listed
  <2>2. d # c => (st'[d] = "reaped" => StartMayFail /\ resp[d] = 0 /\ Untold(d)')
    BY <1>1, <1>5 DEF ListInv, Listed, Untold
  <2> QED
    BY <1>2, <2>1, <2>2
<1> QED
  BY <1>6, <1>7, <1>8 DEF ListInv

\* fork(): the new child is the one the parent is about to list.
LEMMA ForkList ==
    ASSUME Inv, ListInv, NEW n \in Names, fork(n)
    PROVE  ListInv'
<1>1. PICK c \in Pids :
         /\ st[c] = "unborn" /\ cur' = c
         /\ st' = [st EXCEPT ![c] = "start"]
         /\ name' = [name EXCEPT ![c] = n]
         /\ hold' = [d \in Pids |-> IF d = c THEN {Parent, c}
                                    ELSE IF Parent \in hold[d] THEN hold[d] \cup {c}
                                    ELSE hold[d]]
  BY DEF fork
<1>2. /\ ppc = "cmd" /\ ppc' = "forked" /\ ~NameInUse(n)
      /\ UNCHANGED <<children, freed, cmdq, resp, doing>>
  BY DEF fork
<1>3. c \notin children /\ c \notin freed /\ children \subseteq Pids
  BY <1>1, <1>2 DEF Inv, Placed, FreedDead, ListType
<1>4. resp[c] = 0 /\ Untold(c)
  BY <1>1 DEF Inv, Unborn, ListInv, Idle, Untold
<1>5. st'[c] = "start" /\ name'[c] = n /\ Parent \in hold'[c]
  BY <1>1 DEF Inv, ChildType
<1>6. \A d \in Pids \ {c} :
         st'[d] = st[d] /\ name'[d] = name[d] /\ (Parent \in hold[d] => Parent \in hold'[d])
  BY <1>1 DEF Inv, ChildType
<1>7. \A d \in children : name'[d] # n
  BY <1>2, <1>3, <1>6 DEF NameInUse
<1>8. Window'
  BY <1>1, <1>2, <1>3, <1>4, <1>5, <1>7 DEF Window, Untold
<1>9. Listed'
  BY <1>2, <1>3, <1>6 DEF ListInv, Listed, Running, Untold
<1>10. Idle'
  BY <1>2, <1>5, <1>6 DEF ListInv, Idle
<1> QED
  BY <1>8, <1>9, <1>10 DEF ListInv

\* add_child(): the child forked last enters the list, alive or already dead.
LEMMA AddList ==
    ASSUME Inv, ListInv, AddChild
    PROVE  ListInv'
<1> USE DEF AddChild, kernelvars, childvars
<1>1. Window' /\ Idle'
  BY DEF ListInv, Window, Idle
<1>2. Listed'
  BY DEF ListInv, Window, Listed, Running, Untold
<1> QED
  BY <1>1, <1>2 DEF ListInv

\* The handler takes a child off the list in the step that reaps it; one in
\* the window is not on the list, and is only reaped.
LEMMA HandlerList ==
    ASSUME Inv, ListInv, sigcld_handler
    PROVE  ListInv'
<1>1. /\ Running /\ Running' /\ UNCHANGED <<cmdq, resp, name, doing>>
      /\ ppc' = "forked" => ppc = "forked" /\ cur' = cur
  BY DEF sigcld_handler, Interrupted, WaitReturns, Return, Running
<1>2. children \subseteq Pids /\ (ppc = "forked" => cur \in Pids)
  BY DEF Inv, ListType, Placed
<1>3. CASE UNCHANGED <<children, freed, hold, st>>
  BY <1>1, <1>3 DEF ListInv, Window, Listed, Idle, Untold
<1>4. ASSUME NEW z \in Pids, st[z] = "zombie", child_reap(z), st' = [st EXCEPT ![z] = "reaped"]
      PROVE  ListInv'
  <2>1. st'[z] = "reaped" /\ \A d \in Pids \ {z} : st'[d] = st[d]
    BY <1>4 DEF Inv, ChildType
  <2>2. Idle'
    BY <1>1, <2>1 DEF ListInv, Idle
  <2>3. /\ children' = children \ {z} /\ freed' \subseteq freed \cup {z}
        /\ \A d \in Pids \ {z} : hold'[d] = hold[d]
        /\ z \notin children => freed' = freed /\ hold' = hold
    BY <1>4 DEF child_reap, Inv, KernelType
  <2>4. Listed'
    BY <1>1, <1>2, <2>1, <2>3 DEF ListInv, Listed, Untold
  <2>5. Window'
    <3> SUFFICES ASSUME ppc' = "forked"
                 PROVE  Window'
      BY DEF Window
    <3>1. ppc = "forked" /\ cur' = cur /\ cur \notin children
      BY <1>1 DEF ListInv, Window
    <3>2. CASE cur = z
      BY <1>1, <1>4, <2>1, <2>3, <3>1, <3>2 DEF ListInv, Window, Untold
    <3>3. CASE cur # z
      BY <1>1, <1>2, <2>1, <2>3, <3>1, <3>3 DEF ListInv, Window, Untold
    <3> QED
      BY <3>2, <3>3
  <2> QED
    BY <2>2, <2>4, <2>5 DEF ListInv
<1> QED
  BY <1>3, <1>4 DEF sigcld_handler

\* What the parent does to a child that it has found or walks to.
LEMMA SendList ==
    ASSUME Inv, ListInv, child_send
    PROVE  ListInv'
<1>1. cur \in Pids /\ ppc = "found" /\ UNCHANGED <<children, freed, name, resp, doing>>
  BY DEF child_send, Inv, Placed
<1>2. CASE Return /\ UNCHANGED <<hold, cmdq, st>>
  BY <1>1, <1>2, QuietStep DEF Return, Running
<1>3. CASE ParentEnds("killed")
  BY <1>1, <1>3, EndedStep
<1>4. CASE /\ Live(cur) /\ cmdq' = [cmdq EXCEPT ![cur] = Append(@, arg)]
           /\ ppc' = "prewait" /\ UNCHANGED <<hold, st>>
  <2>1. \A d \in Pids \ {cur} : cmdq'[d] = cmdq[d]
    BY <1>4 DEF Inv, KernelType
  <2>2. children \subseteq Pids /\ st[cur] # "reaped"
    BY <1>4 DEF Inv, ListType, Live
  <2>3. Listed'
    BY <1>1, <1>4, <2>1, <2>2 DEF ListInv, Listed, Running, Untold
  <2> QED
    BY <1>1, <1>4, <2>3 DEF ListInv, Window, Idle
<1> QED
  BY <1>2, <1>3, <1>4 DEF child_send

\* kick: the signal may kill the child it found, and the list stays.
LEMMA KickList ==
    ASSUME Inv, ListInv, child_kick
    PROVE  ListInv'
<1>1. /\ ppc = "found" /\ ppc' = "cmd"
      /\ UNCHANGED <<children, freed, hold, cmdq, resp, name, doing>>
      /\ \A d \in Pids : Woken(d) \/ (Live(d) /\ st'[d] = "dying")
  BY PostEffect DEF child_kick, Return, kernelvars, Inv, Argument
<1>2. children \subseteq Pids
  BY DEF Inv, ListType
<1>3. Listed'
  BY <1>1, <1>2 DEF ListInv, Listed, Running, Untold, Woken, Live
<1> QED
  BY <1>1, <1>3 DEF ListInv, Window, Idle, Woken, Live

\* children_free(): one more child is told to end, and leaves the list.
LEMMA FreeList ==
    ASSUME Inv, ListInv, children_free
    PROVE  ListInv'
<1>1. /\ ppc = "cleanup" /\ ppc' = ppc /\ children' = children \ {cur} /\ freed' = freed \cup {cur}
      /\ UNCHANGED <<hold, cmdq, resp, name, doing>>
      /\ \A d \in Pids : Woken(d) \/ (Live(d) /\ st'[d] = "dying")
  BY PostEffect DEF children_free, kernelvars, Inv
<1>2. children \subseteq Pids
  BY DEF Inv, ListType
<1>3. Listed'
  BY <1>1, <1>2 DEF ListInv, Listed, Running, Untold, Woken, Live
<1> QED
  BY <1>1, <1>3 DEF ListInv, Window, Idle, Woken, Live

\* The parent's read of an answer returns: it goes on or gives up.
LEMMA ReadList ==
    ASSUME Inv, ListInv, ReadReturns
    PROVE  ListInv'
<1>1. /\ ppc = "wait" /\ ppc' # "forked" /\ cur \in Pids
      /\ UNCHANGED <<children, freed, hold, st, cmdq, name, doing>>
  BY DEF ReadReturns, WaitReturns, Return, Inv, Placed, childvars
<1>2. \A d \in Pids : resp[d] = 0 => resp'[d] = 0
  BY DEF ReadReturns, Inv, KernelType
<1>3. children \subseteq Pids
  BY DEF Inv, ListType
<1>4. Listed'
  BY <1>1, <1>2, <1>3 DEF ListInv, Listed, Running, Untold
<1> QED
  BY <1>1, <1>4 DEF ListInv, Window, Idle

\* A child that lives on changes only what is its own; in the window it can
\* only start.
LEMMA LivesStep ==
    ASSUME Inv, ListInv, NEW c \in Pids, Live(c), st'[c] \in {"idle", "busy", "paused", "exiting"},
           UNCHANGED <<ppc, cur, children, freed, name>>,
           \A d \in Pids : Parent \in hold[d] => Parent \in hold'[d],
           \A d \in Pids \ {c} : /\ st'[d] = st[d] /\ cmdq'[d] = cmdq[d]
                                 /\ resp'[d] = resp[d] /\ doing'[d] = doing[d],
           ppc = "forked" /\ cur = c => st'[c] = "idle" /\ UNCHANGED <<cmdq, doing>>
    PROVE  ListInv'
<1>1. children \subseteq Pids /\ (ppc = "forked" => cur \in Pids)
  BY DEF Inv, ListType, Placed
<1>2. Idle'
  BY DEF ListInv, Idle
<1>3. Listed'
  BY <1>1 DEF ListInv, Listed, Running, Untold
<1>4. Window'
  <2> SUFFICES ASSUME ppc = "forked"
               PROVE  Window'
    BY DEF Window
  <2>1. CASE cur = c
    BY <1>1, <2>1 DEF ListInv, Window, Untold
  <2>2. CASE cur # c
    BY <1>1, <2>2 DEF ListInv, Window, Untold
  <2> QED
    BY <2>1, <2>2
<1> QED
  BY <1>2, <1>3, <1>4 DEF ListInv

\* A step of a child moves that child only, and only towards its end.
LEMMA ChildList ==
    ASSUME Inv, ListInv, NEW c \in Pids, Child(c) \/ ChildStartFails(c)
    PROVE  ListInv'
<1>0. /\ ppc = "forked" /\ cur = c =>
            st[c] \notin {"busy", "woken", "exiting", "dying"} /\ Untold(c) /\ Parent \in hold[c]
      /\ UNCHANGED <<ppc, cur, children, freed, name>>
  BY DEF ListInv, Window, Child, ChildStarts, ReadsCommand, ReadsEof, pause_me, CommandEnds,
         ChildExits, ChildStartFails, parentvars
<1>1. CASE ChildStarts(c)
  <2>1. Live(c) /\ st'[c] = "idle" /\ UNCHANGED <<cmdq, doing>>
    BY <1>1 DEF ChildStarts, Live, Inv, ChildType
  <2>2. \A d \in Pids \ {c} : st'[d] = st[d] /\ resp'[d] = resp[d]
    BY <1>1 DEF ChildStarts, Respond, Inv, ChildType, KernelType
  <2>3. \A d \in Pids : Parent \in hold[d] => Parent \in hold'[d]
    BY <1>1, ChildrenAssumption DEF ChildStarts, Inv, KernelType, Parent, Pids
  <2> QED
    BY <1>0, <2>1, <2>2, <2>3, LivesStep
<1>2. CASE ReadsCommand(c)
  <2>1. /\ Live(c) /\ UNCHANGED resp /\ ~(ppc = "forked" /\ cur = c)
        /\ \A d \in Pids \ {c} : cmdq'[d] = cmdq[d]
    BY <1>0, <1>2 DEF ReadsCommand, Live, Untold, Inv, KernelType
  <2>2. CASE Die(c) /\ UNCHANGED doing
    BY <1>0, <2>1, <2>2, DieIsGone, DiesStep
  <2>3. CASE /\ st' = [st EXCEPT ![c] = "busy"] /\ doing' = [doing EXCEPT ![c] = Head(cmdq[c])]
             /\ UNCHANGED hold
    <3>1. st'[c] = "busy" /\ \A d \in Pids \ {c} : st'[d] = st[d] /\ doing'[d] = doing[d]
      BY <2>3 DEF Inv, ChildType
    <3> QED
      BY <1>0, <2>1, <2>3, <3>1, LivesStep
  <2> QED
    BY <1>2, <2>2, <2>3 DEF ReadsCommand
<1>3. CASE ReadsEof(c)
  BY <1>0, <1>3, DieIsGone, DiesStep DEF ReadsEof, Live
<1>4. CASE CommandEnds(c)
  <2>1. /\ Live(c) /\ UNCHANGED cmdq /\ ~(ppc = "forked" /\ cur = c)
        /\ \A d \in Pids \ {c} : doing'[d] = doing[d]
    BY <1>0, <1>4 DEF CommandEnds, AtEnd, Live, Inv, ChildType
  <2>2. CASE Die(c) /\ UNCHANGED resp
    BY <1>0, <2>1, <2>2, DieIsGone, DiesStep
  <2>3. CASE /\ Respond(c) /\ UNCHANGED hold
             /\ st' = [st EXCEPT ![c] = IF doing[c] = "quit" THEN "exiting" ELSE "idle"]
    <3>1. /\ st'[c] \in {"exiting", "idle"}
          /\ \A d \in Pids \ {c} : st'[d] = st[d] /\ resp'[d] = resp[d]
      BY <2>3 DEF Respond, Inv, ChildType, KernelType
    <3> QED
      BY <1>0, <2>1, <2>3, <3>1, LivesStep
  <2> QED
    BY <1>4, <2>2, <2>3 DEF CommandEnds
<1>5. CASE ChildExits(c)
  BY <1>0, <1>5, DieIsGone, DiesStep DEF ChildExits, Live
<1>6. CASE ChildStartFails(c)
  BY <1>0, <1>6, StartFailsIsGone, DiesStep DEF ChildStartFails, Live
<1>7. CASE pause_me(c)
  <2>1. /\ Live(c) /\ st'[c] = "paused" /\ \A d \in Pids \ {c} : st'[d] = st[d]
        /\ ~(ppc = "forked" /\ cur = c) /\ UNCHANGED <<hold, cmdq, resp, doing>>
    BY <1>0, <1>7 DEF pause_me, kernelvars, Live, Inv, ChildType
  <2> QED
    BY <1>0, <2>1, LivesStep
<1> QED
  BY <1>1, <1>2, <1>3, <1>4, <1>5, <1>6, <1>7 DEF Child

\* Every step keeps ListInv.
LEMMA ListNext == Inv /\ ListInv /\ [Next]_vars => ListInv'
<1> SUFFICES ASSUME Inv, ListInv, [Next]_vars
             PROVE  ListInv'
  OBVIOUS
<1>1. CASE Quit \/ CommandFails
  BY <1>1, QuietStep DEF Quit, CommandFails, CommandError, EnterCleanup, Running, kernelvars, childvars
<1>2. CASE \E n \in Names : fork(n)
  BY <1>2, ForkList
<1>3. CASE \E n \in Names, what \in {"send", "kick"}, x \in Commands \cup Signals :
              child_find_by_name(n, what, x)
  BY <1>3, QuietStep DEF child_find_by_name, Running, kernelvars, childvars
<1>4. CASE AddChild \/ child_send \/ child_kick \/ ReadReturns \/ children_free
  BY <1>4, AddList, SendList, KickList, ReadList, FreeList
<1>5. CASE child_wait \/ ResetErrors \/ CleanupOfFreed \/ UserInterrupts
  BY <1>5, QuietStep DEF child_wait, ResetErrors, CleanupOfFreed, UserInterrupts, Interrupted,
       WaitReturns, Return, Running, kernelvars, childvars
<1>6. CASE CleanupDone \/ ParentKilled
  BY <1>6, EndedStep DEF CleanupDone, ParentKilled
<1>7. CASE sigcld_handler
  BY <1>7, HandlerList
<1>8. CASE \E c \in Pids : Child(c) \/ ChildStartFails(c)
  BY <1>8, ChildList
<1>9. CASE UNCHANGED vars
  BY <1>9 DEF vars, parentvars, kernelvars, childvars, ListInv, Window, Listed, Idle, Untold, Running
<1> QED
  BY <1>1, <1>2, <1>3, <1>4, <1>5, <1>6, <1>7, <1>8, <1>9 DEF Next, Command, Proceed

\* ListInv holds throughout.
LEMMA ListInvHolds == Spec => []ListInv
<1>1. Init => ListInv
  BY DEF Init, ListInv, Window, Listed, Idle
<1>2. Inv /\ ListInv /\ [Next]_vars => ListInv'
  BY ListNext
<1> QED
  BY <1>1, <1>2, InvHolds, PTL DEF Spec

(***************************************************************************)
(* While every child's start succeeds, the list and the processes agree:   *)
(* fork() and list_add_tail() are two steps, but the handler that runs     *)
(* between them finds no dead child that is not on the list.               *)
(***************************************************************************)
THEOREM ListStaysSound ==
    ASSUME StartMayFail = FALSE
    PROVE  Spec => []ListSound
<1>1. Inv /\ ListInv => ListSound
  BY DEF Inv, Placed, ListInv, Listed, ListSound
<1> QED
  BY <1>1, InvHolds, ListInvHolds, PTL

(***************************************************************************)
(* Whether or not a start may fail, a reaped child that is on the list is  *)
(* one whose start failed in the window: it was not freed, and was never   *)
(* told anything.                                                          *)
(***************************************************************************)
THEOREM LingerersUntold == Spec => []OnlyUnstartedLinger
<1>1. ListInv => OnlyUnstartedLinger
  BY DEF ListInv, Listed, Untold, OnlyUnstartedLinger
<1> QED
  BY <1>1, ListInvHolds, PTL

=============================================================================
