------------------------------ MODULE Children ------------------------------
(***************************************************************************)
(* The child processes of commands.c and the SIGCLD handler of memtoy.c.   *)
(*                                                                         *)
(* The parent forks children, keeps them in a list, writes commands to a   *)
(* child's command pipe and reads one "OK" from its response pipe for each *)
(* command.  Its SIGCLD handler, which may run between any two steps of    *)
(* the parent unless the signal is blocked, reaps one dead child and frees *)
(* its child_t.  Signals are not restarted (no SA_RESTART), so the handler *)
(* ends a blocking read().                                                 *)
(*                                                                         *)
(* The handler need not run at once when a child has died: the kernel      *)
(* closes a dying process's pipes before it posts SIGCLD, and the model    *)
(* takes the two together.                                                 *)
(*                                                                         *)
(* One action is one step of the parent between two points where the       *)
(* handler may run, or one step of a child between two system calls that   *)
(* others can see.  A child's own children are not modelled: a child is a  *)
(* parent to them in the same way.                                         *)
(***************************************************************************)
EXTENDS Integers, Sequences, FiniteSets

CONSTANTS
    MaxPids,        \* bound: processes ever forked
    MaxSends,       \* bound: commands ever sent
    Names,          \* child names
    Commands,       \* kinds of command sent, see CommandKinds
    Signals,        \* signals the kick command posts: "int", "quit", "kill"
    Interactive,    \* the INTERACTIVE option; children inherit it
    UserMayInterrupt, \* whether a SIGINT may reach the waiting parent
    ParentMayBeKilled, \* whether a SIGKILL may reach the parent
    StartMayFail    \* whether a child's dup2() of its stdin may fail

(***************************************************************************)
(* "work" ends and succeeds, "fail" ends with an error, "crash" kills the  *)
(* child, "quit" leaves.  "pause" and "spin", the touch of a segment of    *)
(* the task's maps (page size 0), do not end unless a signal comes.        *)
(***************************************************************************)
CommandKinds == {"work", "fail", "quit", "crash", "pause", "spin"}

ASSUME ChildrenAssumption ==
    /\ MaxPids \in Nat /\ MaxSends \in Nat
    /\ Commands \subseteq CommandKinds
    /\ Signals \subseteq {"int", "quit", "kill"}
    /\ Interactive \in BOOLEAN /\ UserMayInterrupt \in BOOLEAN
    /\ ParentMayBeKilled \in BOOLEAN /\ StartMayFail \in BOOLEAN

Parent == 0
Pids   == 1 .. MaxPids

VARIABLES
    \* the parent
    ppc,        \* where it is
    op,         \* the command it executes: "spawn", "send" or "kick"
    cur,        \* childp of that command
    arg,        \* what to send or post
    children,   \* gcp->children: the pids on the list
    freed,      \* pids whose child_t has been freed
    safe,       \* children_free's saved next element
    uaf,        \* whether a freed child_t has been used
    sends,      \* commands sent so far
    missed,     \* per child: waits that ended without reading a response
    \* the kernel
    pending,    \* SIGCLD is pending for the parent: one bit, however many died
    hold,       \* per child: who has the write end of its command pipe open
    cmdq,       \* per child: commands in its command pipe
    resp,       \* per child: responses in its response pipe
    \* the children
    st,         \* per child: its state
    name,       \* per child: c_name
    doing,      \* per child: the command it executes
    csig        \* per child: the signal its handler recorded last

parentvars == <<ppc, op, cur, arg, children, freed, safe, uaf, sends, missed>>
kernelvars == <<pending, hold, cmdq, resp>>
childvars  == <<st, name, doing, csig>>
vars == <<parentvars, kernelvars, childvars>>

ChildStates == {"unborn", "start", "idle", "busy", "paused", "woken", "exiting", "dying",
                "zombie", "reaped"}

Live(c)  == st[c] \in {"start", "idle", "busy", "paused", "woken", "exiting", "dying"}
Running  == ppc \notin {"killed", "gone"}
NoName   == "(none)"

(***************************************************************************)
(* list_add_tail() keeps the list in the order of the forks, which is the  *)
(* order of the pids here; 0 is the list head, that is, the end.           *)
(***************************************************************************)
NextAfter(c) ==
    LET later == {d \in children : c < d}
    IN  IF later = {} THEN 0 ELSE CHOOSE d \in later : \A e \in later : d =< e

-----------------------------------------------------------------------------
(***************************************************************************)
(* Processes end.  A dead child is a zombie until wait3() finds it, or, if *)
(* the parent is gone, is reaped by init.  Its descriptors are closed.     *)
(***************************************************************************)
Drop(p) == [c \in Pids |-> hold[c] \ {p}]

Die(c) ==
    /\ st' = [st EXCEPT ![c] = IF Running THEN "zombie" ELSE "reaped"]
    /\ pending' = (Running \/ pending)
    /\ hold' = Drop(c)

ParentEnds(how) ==
    /\ ppc' = how
    /\ hold' = Drop(Parent)
    /\ st' = [c \in Pids |-> IF st[c] = "zombie" THEN "reaped" ELSE st[c]]

(***************************************************************************)
(* sigcld_handler(): one wait3() for one child, whatever the number of     *)
(* children that died since; child_reap() takes it off the list, closes    *)
(* its pipes and frees it, if it is on the list.  A read() that was        *)
(* blocked fails with EINTR; one that has data or end of file to return    *)
(* returns that first.                                                     *)
(***************************************************************************)
ReadBlocks == resp[cur] = 0 /\ Live(cur)

\* The command is done and its local variables are no more.
Return == ppc' = "cmd" /\ op' = "none" /\ cur' = 0 /\ arg' = "none"

\* child_wait() is done: child_send() has one more thing to do.
WaitReturns ==
    IF op = "send" THEN ppc' = "sent" /\ UNCHANGED <<op, cur, arg>> ELSE Return

\* Faulty: the child is freed but left on the list.
child_reap_listed(z) ==
    /\ freed' = freed \cup {z}
    /\ hold' = [hold EXCEPT ![z] = @ \ {Parent}]
    /\ UNCHANGED children

child_reap(z) ==
    IF z \in children
    THEN /\ children' = children \ {z}
         /\ freed' = freed \cup {z}
         /\ hold' = [hold EXCEPT ![z] = @ \ {Parent}]
    ELSE UNCHANGED <<children, freed, hold>>

Interrupted ==
    IF ppc = "wait"
    THEN WaitReturns /\ missed' = [missed EXCEPT ![cur] = @ + 1]
    ELSE UNCHANGED <<ppc, op, cur, arg, missed>>

sigcld_handler ==
    /\ pending /\ Running
    /\ ppc = "wait" => ReadBlocks
    /\ pending' = FALSE
    /\ Interrupted
    /\ LET zombies == {c \in Pids : st[c] = "zombie"}
       IN  IF zombies = {} THEN UNCHANGED <<children, freed, hold, st>>
           ELSE \E z \in zombies : child_reap(z) /\ st' = [st EXCEPT ![z] = "reaped"]
    /\ UNCHANGED <<safe, uaf, sends, cmdq, resp, name, doing, csig>>

\* SIGINT: signal_handler() only records it, but the read() fails all the same.
UserInterrupts ==
    /\ UserMayInterrupt /\ ppc = "wait" /\ ReadBlocks
    /\ Interrupted
    /\ UNCHANGED <<children, freed, safe, uaf, sends, kernelvars, childvars>>

-----------------------------------------------------------------------------
(***************************************************************************)
(* child_spawn(), the parent's side.  fork() gives the child a copy of     *)
(* every descriptor the parent has open: the write ends of the command     *)
(* pipes of the children it already has, and for a moment of its own.      *)
(***************************************************************************)
NameInUse(n) == \E c \in children : name[c] = n

\* exit(): children_free(1) starts at the head of the list
EnterCleanup ==
    /\ ppc' = "cleanup"
    /\ cur' = NextAfter(0)
    /\ safe' = NextAfter(NextAfter(0))

\* An error: fatal for a script, reported otherwise.
CommandError ==
    IF Interactive THEN UNCHANGED <<ppc, cur, safe>> ELSE EnterCleanup

(***************************************************************************)
(* A command of the parent's own fails.  Of those modelled here: the name  *)
(* of a new child is in use, pipe() or fork() fails (what was opened is    *)
(* closed again), there is no child to kick, or no such signal.  Only the  *)
(* error of child_send() is ignored by its caller.                         *)
(***************************************************************************)
CommandFails ==
    /\ ppc = "cmd"
    /\ CommandError
    /\ UNCHANGED <<op, arg, children, freed, uaf, sends, missed, kernelvars, childvars>>

fork(n) ==
    /\ ppc = "cmd" /\ ~NameInUse(n)
    /\ \E c \in Pids :
         /\ st[c] = "unborn" /\ \A d \in Pids : d < c => st[d] # "unborn"
         /\ st' = [st EXCEPT ![c] = "start"]
         /\ name' = [name EXCEPT ![c] = n]
         /\ hold' = [d \in Pids |-> IF d = c THEN {Parent, c}
                                    ELSE IF Parent \in hold[d] THEN hold[d] \cup {c}
                                    ELSE hold[d]]
         /\ cur' = c
    /\ op' = "spawn" /\ ppc' = "forked"
    /\ UNCHANGED <<arg, children, freed, safe, uaf, sends, missed,
                   pending, cmdq, resp, doing, csig>>

\* list_add_tail() with SIGCLD blocked
AddChild ==
    /\ ppc = "forked"
    /\ children' = children \cup {cur}
    /\ ppc' = "prewait"
    /\ UNCHANGED <<op, cur, arg, freed, safe, uaf, sends, missed, kernelvars, childvars>>

(***************************************************************************)
(* child_send() and child_kick(): find the child, then write to its pipe   *)
(* or post the signal.                                                     *)
(***************************************************************************)
child_find_by_name(n, what, x) ==
    /\ ppc = "cmd"
    /\ \E c \in children : name[c] = n /\ cur' = c
    /\ op' = what /\ arg' = x /\ ppc' = "found"
    /\ UNCHANGED <<children, freed, safe, uaf, sends, missed, kernelvars, childvars>>

\* Faulty: the parent does not wait for the response.
child_send_at_once ==
    /\ ppc = "found" /\ op = "send" /\ sends < MaxSends
    /\ cur \notin freed /\ Live(cur)
    /\ sends' = sends + 1
    /\ cmdq' = [cmdq EXCEPT ![cur] = Append(@, arg)]
    /\ ppc' = "sent"
    /\ UNCHANGED <<op, cur, arg, children, freed, safe, uaf, missed,
                   pending, hold, resp, childvars>>

(***************************************************************************)
(* The write().  If the handler freed the child meanwhile, its descriptor  *)
(* is closed and the write fails; if nobody has the read end open, SIGPIPE *)
(* comes before any error.                                                 *)
(***************************************************************************)
child_send ==
    /\ ppc = "found" /\ op = "send" /\ sends < MaxSends
    /\ sends' = sends + 1
    /\ \/ /\ cur \in freed
          /\ uaf' = TRUE /\ Return
          /\ UNCHANGED <<hold, cmdq, st>>
       \/ /\ cur \notin freed /\ ~Live(cur)
          /\ ParentEnds("killed")
          /\ UNCHANGED <<op, cur, arg, cmdq, uaf>>
       \/ /\ cur \notin freed /\ Live(cur)
          /\ cmdq' = [cmdq EXCEPT ![cur] = Append(@, arg)]
          /\ ppc' = "prewait"
          /\ UNCHANGED <<op, cur, arg, hold, st, uaf>>
    /\ UNCHANGED <<children, freed, safe, missed, pending, resp, name, doing, csig>>

\* a handled signal ends a pause()
Signalled(c) == IF st[c] = "paused" THEN "woken" ELSE st[c]

Post(c, sig) ==
    IF ~Live(c) THEN UNCHANGED <<st, csig>>
    ELSE IF sig = "kill" THEN st' = [st EXCEPT ![c] = "dying"] /\ UNCHANGED csig
    ELSE csig' = [csig EXCEPT ![c] = sig] /\ st' = [st EXCEPT ![c] = Signalled(c)]

child_kick ==
    /\ ppc = "found" /\ op = "kick"
    /\ uaf' = (uaf \/ cur \in freed)
    /\ Post(cur, arg)
    /\ Return
    /\ UNCHANGED <<children, freed, safe, sends, missed, kernelvars, name, doing>>

(***************************************************************************)
(* child_wait(): one read() of one response.  Entering it uses childp for  *)
(* the descriptor; if that was closed meanwhile the read fails at once.    *)
(***************************************************************************)
child_wait ==
    /\ ppc = "prewait"
    /\ IF cur \in freed
       THEN uaf' = TRUE /\ WaitReturns
       ELSE ppc' = "wait" /\ UNCHANGED <<op, cur, arg, uaf>>
    /\ UNCHANGED <<children, freed, safe, sends, missed, kernelvars, childvars>>

\* Faulty: end of file is taken for a response.
ReadReturns_any ==
    /\ ppc = "wait" /\ ~ReadBlocks
    /\ resp' = [resp EXCEPT ![cur] = @ - 1]
    /\ WaitReturns
    /\ UNCHANGED <<children, freed, safe, uaf, sends, missed,
                   pending, hold, cmdq, childvars>>

ReadReturns ==
    /\ ppc = "wait" /\ ~ReadBlocks
    /\ resp' = [resp EXCEPT ![cur] = IF @ > 0 THEN @ - 1 ELSE 0]
    /\ WaitReturns
    /\ UNCHANGED <<children, freed, safe, uaf, sends, missed,
                   pending, hold, cmdq, childvars>>

\* childp->c_errs = 0
ResetErrors ==
    /\ ppc = "sent"
    /\ uaf' = (uaf \/ cur \in freed)
    /\ Return
    /\ UNCHANGED <<children, freed, safe, sends, missed, kernelvars, childvars>>

(***************************************************************************)
(* quit and end of input: exit() runs children_cleanup(), which walks the  *)
(* list with a saved next element, SIGCLD not blocked.  What a walk over   *)
(* freed elements does is not defined; the process is ending in any case.  *)
(***************************************************************************)
Quit ==
    /\ ppc = "cmd"
    /\ EnterCleanup
    /\ UNCHANGED <<op, arg, children, freed, uaf, sends, missed, kernelvars, childvars>>

children_free ==
    /\ ppc = "cleanup" /\ cur # 0 /\ cur \notin freed
    /\ children' = children \ {cur}
    /\ freed' = freed \cup {cur}
    /\ Post(cur, "quit")
    /\ IF safe \in freed THEN uaf' = TRUE /\ cur' = 0 /\ safe' = 0
       ELSE cur' = safe /\ safe' = NextAfter(safe) /\ UNCHANGED uaf
    /\ UNCHANGED <<ppc, op, arg, sends, missed, kernelvars, name, doing>>

CleanupOfFreed ==
    /\ ppc = "cleanup" /\ cur # 0 /\ cur \in freed
    /\ uaf' = TRUE /\ cur' = 0
    /\ UNCHANGED <<ppc, op, arg, children, freed, safe, sends, missed, kernelvars, childvars>>

CleanupDone ==
    /\ ppc = "cleanup" /\ cur = 0
    /\ ParentEnds("gone")
    /\ UNCHANGED <<op, cur, arg, children, freed, safe, uaf, sends, missed,
                   pending, cmdq, resp, name, doing, csig>>

\* SIGKILL from outside: no cleanup, and no SIGQUIT to the children
ParentKilled ==
    /\ ParentMayBeKilled /\ Running
    /\ ParentEnds("killed")
    /\ UNCHANGED <<op, cur, arg, children, freed, safe, uaf, sends, missed,
                   pending, cmdq, resp, name, doing, csig>>

-----------------------------------------------------------------------------
(***************************************************************************)
(* A child.  It starts by closing the write end of its own command pipe,   *)
(* responds, and enters the command loop, where it responds after each     *)
(* command and just before it quits, but not when it leaves in any other   *)
(* way.                                                                    *)
(***************************************************************************)
Respond(c) == resp' = [resp EXCEPT ![c] = @ + 1]

\* Faulty: a new child enters its command loop without a response.
ChildStarts_silent(c) ==
    /\ st[c] = "start"
    /\ st' = [st EXCEPT ![c] = "idle"]
    /\ hold' = [hold EXCEPT ![c] = @ \ {c}]
    /\ UNCHANGED <<parentvars, pending, cmdq, resp, name, doing, csig>>

\* Faulty: a new child keeps the write end of its own command pipe.
ChildStarts_open(c) ==
    /\ st[c] = "start"
    /\ st' = [st EXCEPT ![c] = "idle"]
    /\ Respond(c)
    /\ UNCHANGED <<parentvars, pending, hold, cmdq, name, doing, csig>>

ChildStarts(c) ==
    /\ st[c] = "start"
    /\ st' = [st EXCEPT ![c] = "idle"]
    /\ hold' = [hold EXCEPT ![c] = @ \ {c}]
    /\ Respond(c)
    /\ UNCHANGED <<parentvars, pending, cmdq, name, doing, csig>>

(***************************************************************************)
(* dup2() fails: the child exits with its parent's list still in place, so *)
(* its cleanup() posts SIGQUIT to the children that were listed at the     *)
(* fork: its elder siblings.                                               *)
(***************************************************************************)
ChildStartFails(c) ==
    /\ StartMayFail /\ st[c] = "start"
    /\ st' = [d \in Pids |-> IF d = c THEN (IF Running THEN "zombie" ELSE "reaped")
                             ELSE IF d < c THEN Signalled(d) ELSE st[d]]
    /\ pending' = (Running \/ pending)
    /\ hold' = Drop(c)
    /\ csig' = [d \in Pids |-> IF d < c /\ Live(d) THEN "quit" ELSE csig[d]]
    /\ UNCHANGED <<parentvars, cmdq, resp, name, doing>>

(***************************************************************************)
(* readline_ni() returns a line.  process_commands() then looks at the     *)
(* last signal: a SIGQUIT ends a non-interactive program before the        *)
(* command; any other is forgotten.                                        *)
(***************************************************************************)
ReadsCommand(c) ==
    /\ st[c] = "idle" /\ cmdq[c] # <<>>
    /\ cmdq' = [cmdq EXCEPT ![c] = Tail(@)]
    /\ IF csig[c] = "quit" /\ ~Interactive
       THEN Die(c) /\ UNCHANGED <<doing, csig>>
       ELSE /\ st' = [st EXCEPT ![c] = "busy"]
            /\ doing' = [doing EXCEPT ![c] = Head(cmdq[c])]
            /\ csig' = [csig EXCEPT ![c] = "none"]
            /\ UNCHANGED <<pending, hold>>
    /\ UNCHANGED <<parentvars, resp, name>>

\* End of file needs every copy of the write end closed.
ReadsEof(c) ==
    /\ st[c] = "idle" /\ cmdq[c] = <<>> /\ hold[c] = {}
    /\ Die(c)
    /\ UNCHANGED <<parentvars, cmdq, resp, name, doing, csig>>

\* pause(): a signal that came since the command began does not end it
pause_me(c) ==
    /\ st[c] = "busy" /\ doing[c] = "pause"
    /\ st' = [st EXCEPT ![c] = "paused"]
    /\ UNCHANGED <<parentvars, kernelvars, name, doing, csig>>

FatalCommand(c) == doing[c] = "crash" \/ (doing[c] = "fail" /\ ~Interactive)

\* The command has come to its end; the spinning touch sees a signal recorded.
AtEnd(c) ==
    \/ st[c] = "woken"
    \/ st[c] = "busy" /\ doing[c] # "pause" /\ (doing[c] = "spin" => csig[c] # "none")

(***************************************************************************)
(* A pause, and a touch that a signal cut short, reset what was recorded;  *)
(* other work leaves it to the next pass of the command loop.              *)
(***************************************************************************)
SignalLeft(c) ==
    CASE doing[c] \in {"pause", "spin"} -> {"none"}
      [] doing[c] = "work"             -> {csig[c], "none"}
      [] OTHER                         -> {csig[c]}

\* Faulty: quit does not respond.
CommandEnds_silent_quit(c) ==
    /\ AtEnd(c) /\ ~FatalCommand(c)
    /\ IF doing[c] = "quit" THEN UNCHANGED resp ELSE Respond(c)
    /\ st' = [st EXCEPT ![c] = IF doing[c] = "quit" THEN "exiting" ELSE "idle"]
    /\ doing' = [doing EXCEPT ![c] = "none"]
    /\ UNCHANGED <<parentvars, pending, hold, cmdq, name, csig>>

CommandEnds(c) ==
    /\ AtEnd(c)
    /\ IF FatalCommand(c)
       THEN Die(c) /\ UNCHANGED <<resp, csig>>
       ELSE /\ Respond(c)
            /\ st' = [st EXCEPT ![c] = IF doing[c] = "quit" THEN "exiting" ELSE "idle"]
            /\ \E sig \in SignalLeft(c) : csig' = [csig EXCEPT ![c] = sig]
            /\ UNCHANGED <<pending, hold>>
    /\ doing' = [doing EXCEPT ![c] = "none"]
    /\ UNCHANGED <<parentvars, cmdq, name>>

ChildExits(c) ==
    /\ st[c] \in {"exiting", "dying"}
    /\ Die(c)
    /\ UNCHANGED <<parentvars, cmdq, resp, name, doing, csig>>

Child(c) ==
    \/ ChildStarts(c) \/ ReadsCommand(c) \/ ReadsEof(c)
    \/ pause_me(c) \/ CommandEnds(c) \/ ChildExits(c)

-----------------------------------------------------------------------------
Init ==
    /\ ppc = "cmd" /\ op = "none" /\ cur = 0 /\ arg = "none"
    /\ children = {} /\ freed = {} /\ safe = 0 /\ uaf = FALSE /\ sends = 0
    /\ missed = [c \in Pids |-> 0]
    /\ pending = FALSE
    /\ hold = [c \in Pids |-> {}]
    /\ cmdq = [c \in Pids |-> <<>>]
    /\ resp = [c \in Pids |-> 0]
    /\ st = [c \in Pids |-> "unborn"]
    /\ name = [c \in Pids |-> NoName]
    /\ doing = [c \in Pids |-> "none"]
    /\ csig = [c \in Pids |-> "none"]

\* The parent proceeds with the command it executes.
Proceed ==
    \/ AddChild \/ child_send \/ child_kick \/ child_wait \/ ReadReturns
    \/ ResetErrors \/ children_free \/ CleanupOfFreed \/ CleanupDone

\* The user types a command.
Command ==
    \/ Quit \/ CommandFails
    \/ \E n \in Names :
         \/ fork(n)
         \/ \E x \in Commands : sends < MaxSends /\ child_find_by_name(n, "send", x)
         \/ \E x \in Signals : child_find_by_name(n, "kick", x)

Next ==
    \/ Command \/ Proceed \/ sigcld_handler \/ UserInterrupts \/ ParentKilled
    \/ \E c \in Pids : Child(c) \/ ChildStartFails(c)

(***************************************************************************)
(* The scheduler runs every process: the parent goes on with a command it  *)
(* has begun, pending signals are delivered, children run.  Nobody need    *)
(* ever type another command or send another signal, so that a child in    *)
(* pause() or in a spinning touch may stay there.                          *)
(***************************************************************************)
Fairness ==
    /\ WF_vars(Proceed)
    /\ WF_vars(sigcld_handler)
    /\ \A c \in Pids : WF_vars(Child(c))

Spec     == Init /\ [][Next]_vars
FairSpec == Spec /\ Fairness

-----------------------------------------------------------------------------
ParentType ==
    /\ ppc \in {"cmd", "forked", "found", "prewait", "wait", "sent", "cleanup",
                "killed", "gone"}
    /\ op \in {"none", "spawn", "send", "kick"}
    /\ cur \in {0} \cup Pids /\ safe \in {0} \cup Pids
    /\ arg \in {"none"} \cup Commands \cup Signals
    /\ uaf \in BOOLEAN /\ sends \in 0 .. MaxSends

ListType == children \subseteq Pids /\ freed \subseteq Pids /\ missed \in [Pids -> Nat]

KernelType ==
    /\ pending \in BOOLEAN
    /\ hold \in [Pids -> SUBSET ({Parent} \cup Pids)]
    /\ cmdq \in [Pids -> Seq(Commands)]
    /\ resp \in [Pids -> Nat]

ChildType ==
    /\ st \in [Pids -> ChildStates]
    /\ name \in [Pids -> Names \cup {NoName}]
    /\ doing \in [Pids -> {"none"} \cup Commands]
    /\ csig \in [Pids -> {"none", "int", "quit"}]

\* The variables hold values of their types.
TypeOK == ParentType /\ ListType /\ KernelType /\ ChildType

(***************************************************************************)
(* While the parent runs, request and response stay one to one: the        *)
(* responses a live child has sent or will send for what it was told are those the parent is about to *)
(* wait for and those whose wait a signal cut short, no more and no less.  *)
(* child_respond() is called once per command, and child_wait() reads one. *)
(***************************************************************************)
Outstanding(c) ==
    resp[c] + Len(cmdq[c]) + (IF st[c] \in {"start", "busy", "paused", "woken"} THEN 1 ELSE 0)

Awaited(c) == IF cur = c /\ ppc \in {"forked", "prewait", "wait"} THEN 1 ELSE 0

ResponsesAccounted ==
    Running => \A c \in Pids :
        Live(c) /\ st[c] # "dying" => Outstanding(c) = missed[c] + Awaited(c)

(***************************************************************************)
(* So when no wait for it was ever cut short, a child is ready whenever    *)
(* the parent takes its next command: nothing is queued, it executes       *)
(* nothing, and no stale response is in the pipe.                          *)
(***************************************************************************)
ReadyUnlessMissed ==
    ppc = "cmd" => \A c \in Pids : Live(c) /\ st[c] # "dying" /\ missed[c] = 0 =>
        cmdq[c] = <<>> /\ st[c] \in {"idle", "exiting"} /\ resp[c] = 0

(***************************************************************************)
(* Every child on the list exists as a process (alive or not yet reaped),  *)
(* has its own name, and its command pipe is open: find by name or by pid  *)
(* never yields a child that child_reap() has seen.                        *)
(***************************************************************************)
ListSound ==
    Running => \A c \in children :
        /\ c \notin freed
        /\ st[c] \notin {"unborn", "reaped"}
        /\ Parent \in hold[c]
        /\ \A d \in children : name[c] = name[d] => c = d

(***************************************************************************)
(* The SIGCLD that comes between fork() and list_add_tail(): the one kind  *)
(* of child that is reaped and on the list all the same is one whose start *)
(* failed.  It was not freed, its pipe is open, it never answered and was  *)
(* never sent a command.                                                   *)
(***************************************************************************)
OnlyUnstartedLinger ==
    Running => \A c \in children : st[c] = "reaped" =>
        c \notin freed /\ Parent \in hold[c] /\ resp[c] = 0 /\ cmdq[c] = <<>> /\ doing[c] = "none"

(***************************************************************************)
(* A child in a command that only a signal ends, with none on its way: in  *)
(* pause(), or in a touch that does not advance.                           *)
(***************************************************************************)
Stuck(c) == st[c] = "paused" \/ (st[c] = "busy" /\ doing[c] = "spin" /\ csig[c] = "none")

(***************************************************************************)
(* child_wait() comes back, since a child that is waited for answers or    *)
(* dies, unless that child is in a command that only a signal ends.        *)
(***************************************************************************)
WaitEnds == ppc = "wait" ~> ppc # "wait" \/ Stuck(cur)

(***************************************************************************)
(* When the parent is gone, by quit or by a fatal signal, its children     *)
(* end: the last copies of the write ends of the command pipes, which      *)
(* younger siblings inherited, go with those siblings.  The only ones that *)
(* stay are in a command that only a signal ends, or have their pipe held  *)
(* open by a sibling in such a command.                                    *)
(***************************************************************************)
OrphansEnd ==
    ~Running ~> \A c \in Pids : Live(c) => Stuck(c) \/ \E d \in hold[c] \cap Pids : Stuck(d)

\* child_wait() returns when the child is ready to read a command.
WaitMeansReady ==
    ppc = "sent" /\ Live(cur) /\ st[cur] # "dying" =>
        cmdq[cur] = <<>> /\ st[cur] \notin {"busy", "paused", "woken"}

\* Every dead child is reaped by the SIGCLD handler.
ZombiesReaped == \A c \in Pids : st[c] = "zombie" ~> st[c] # "zombie"

\* No child_t is used after the handler, or children_free(), has freed it.
NoUseAfterFree == ~uaf

=============================================================================
