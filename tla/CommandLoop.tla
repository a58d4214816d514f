---------------------------- MODULE CommandLoop -----------------------------
(***************************************************************************)
(* One memtoy process: the command loop of commands.c, the signal handler  *)
(* of memtoy.c, and the two commands whose course signals change: touch    *)
(* (touch_memory, which survives the faults it provokes by a long jump out *)
(* of the handler) and pause.  Other commands succeed or fail.  Nothing    *)
(* but a signal ends a pause, or the touch of a segment of the task's maps *)
(* (page size 0), which stays on its first page.                           *)
(*                                                                         *)
(* The handler runs with every signal blocked, so an asynchronous signal   *)
(* is one step, taken between any two steps of the program.                *)
(***************************************************************************)
EXTENDS Naturals

CONSTANTS
    Interactive,    \* the INTERACTIVE option
    Lines,          \* kinds of input line
    Async,          \* signals that may arrive from outside
    MaxPages,       \* bound: pages of a touched range
    MaxSignals      \* bound: asynchronous signals

LineKinds  == {"blank", "plain", "send", "mprotect", "touch", "pause", "quit"}
AsyncKinds == {"INT", "QUIT", "USR1", "USR2", "SEGV", "BUS", "CLD"}
Faults     == {"SEGV", "BUS"}

ASSUME LoopAssumption ==
    /\ Interactive \in BOOLEAN
    /\ Lines \subseteq LineKinds /\ Async \subseteq AsyncKinds
    /\ MaxPages \in Nat /\ MaxSignals \in Nat

VARIABLES
    pc,         \* where the program is
    line,       \* the kind of the current line
    page,       \* pages touch_memory has still to touch
    stride,     \* pages it advances by: none if the segment's page size is 0
    siginfo,    \* gcp->siginfo: the last signal recorded, or "none"
    sigjmp,     \* gcp->sigjmp: the long jump is armed
    masked,     \* signals are blocked outside the handler
    code,       \* exit status
    owed,       \* lines read and not yet answered by child_respond
    signals,    \* asynchronous signals so far
    fresh,      \* history: siginfo was recorded since the current command began
    outside,    \* history: the signal handled last was not a fault of touch
    errors,     \* history: errors so far, "reported" by parse_command or "ignored"
    quitSeen    \* history: a SIGQUIT was received

vars == <<pc, line, page, stride, siginfo, sigjmp, masked, code, owed, signals,
          fresh, outside, errors, quitSeen>>
touching == <<page, stride>>
history  == <<fresh, outside, errors, quitSeen>>

Ended     == pc \in {"exited", "killed"}
InCommand == pc \in {"dispatch", "head", "armed", "accessed", "looptest", "jumped",
                     "paused", "woken", "failing"}

exit(status) == pc' = "exited" /\ code' = status
goto(where)  == pc' = where /\ UNCHANGED code

reset_signal == siginfo' = "none" /\ sigjmp' = FALSE

-----------------------------------------------------------------------------

\* Faulty: a blank line gets no response.
ReadLine_skips_blank ==
    /\ pc = "read"
    /\ \E l \in Lines : line' = l /\ goto(IF l = "blank" THEN "read" ELSE "check")
    /\ owed' = owed + 1
    /\ UNCHANGED <<touching, siginfo, sigjmp, masked, signals, history>>

(***************************************************************************)
(* process_commands().  readline_ni() and readline() go on after an        *)
(* interrupted read, so a signal does not change what is read.             *)
(***************************************************************************)
ReadLine ==
    /\ pc = "read"
    /\ \E l \in Lines : line' = l /\ goto(IF l = "blank" THEN "respond" ELSE "check")
    /\ owed' = owed + 1
    /\ UNCHANGED <<touching, siginfo, sigjmp, masked, signals, history>>

EndOfInput ==
    /\ pc = "read"
    /\ exit(0)
    /\ UNCHANGED <<line, touching, siginfo, sigjmp, masked, owed, signals, history>>

\* Faulty: what was recorded before the command is kept.
CheckSignals_keeps ==
    /\ pc = "check"
    /\ IF siginfo = "QUIT" /\ ~Interactive THEN exit(0) ELSE goto("dispatch")
    /\ fresh' = FALSE
    /\ UNCHANGED <<line, touching, siginfo, sigjmp, masked, owed, signals, outside, errors,
                   quitSeen>>

\* signals are reset just before a command; SIGQUIT ends a script
CheckSignals ==
    /\ pc = "check"
    /\ IF siginfo = "QUIT" /\ ~Interactive
       THEN exit(0) /\ UNCHANGED <<siginfo, sigjmp>>
       ELSE /\ goto("dispatch")
            /\ IF siginfo # "none" THEN reset_signal ELSE UNCHANGED <<siginfo, sigjmp>>
    /\ fresh' = FALSE
    /\ UNCHANGED <<line, touching, masked, owed, signals, outside, errors, quitSeen>>

\* a command's result is CMD_ERROR, or is lost
Error(how) == errors' = errors \cup {how}

\* CMD_ERROR: fatal to a script, once the message is out
ReportsError == Error("reported") /\ goto(IF Interactive THEN "respond" ELSE "failing")

Succeeds == goto("respond") /\ UNCHANGED errors

\* a command that returns success or an error; a refused touch is one of these
Plain ==
    /\ pc = "dispatch" /\ line = "plain"
    /\ Succeeds \/ ReportsError
    /\ UNCHANGED <<line, touching, siginfo, sigjmp, masked, owed, signals, fresh, outside,
                   quitSeen>>

\* Faulty: a SIGQUIT recorded meanwhile decides the status.
ExitOnError_quit ==
    /\ pc = "failing"
    /\ exit(IF siginfo = "QUIT" THEN 0 ELSE 4)
    /\ UNCHANGED <<line, touching, siginfo, sigjmp, masked, owed, signals, history>>

ExitOnError ==
    /\ pc = "failing"
    /\ exit(4)
    /\ UNCHANGED <<line, touching, siginfo, sigjmp, masked, owed, signals, history>>

\* child_send() may fail: no such child, or the write does; nobody looks
Send ==
    /\ pc = "dispatch" /\ line = "send"
    /\ goto("respond")
    /\ UNCHANGED errors \/ Error("ignored")
    /\ UNCHANGED <<line, touching, siginfo, sigjmp, masked, owed, signals, fresh, outside,
                   quitSeen>>

\* mprotect_seg(): an error without a name, else success whatever
\* segment_mprotect() returned
mprotect_seg ==
    /\ pc = "dispatch" /\ line = "mprotect"
    /\ \/ Succeeds \/ ReportsError
       \/ goto("respond") /\ Error("ignored")
    /\ UNCHANGED <<line, touching, siginfo, sigjmp, masked, owed, signals, fresh, outside,
                   quitSeen>>

quit ==
    /\ pc = "dispatch" /\ line = "quit"
    /\ owed' = owed - 1
    /\ exit(0)
    /\ UNCHANGED <<line, touching, siginfo, sigjmp, masked, signals, history>>

pause_me ==
    /\ pc = "dispatch" /\ line = "pause"
    /\ goto("paused")
    /\ UNCHANGED <<line, touching, siginfo, sigjmp, masked, owed, signals, history>>

PauseReturns ==
    /\ pc = "woken"
    /\ reset_signal
    /\ goto("respond")
    /\ UNCHANGED <<line, touching, masked, owed, signals, history>>

\* the third expression of the loop: a child responds at the end of each pass
child_respond ==
    /\ pc = "respond"
    /\ owed' = owed - 1
    /\ goto("read")
    /\ UNCHANGED <<line, touching, siginfo, sigjmp, masked, signals, history>>

-----------------------------------------------------------------------------
(***************************************************************************)
(* touch_memory(): for each page, set the jump and arm it, access the      *)
(* page, disarm.  A fault, or any signal recorded meanwhile, ends the      *)
(* loop.                                                                   *)
(***************************************************************************)
TouchBegins ==
    /\ pc = "dispatch" /\ line = "touch"
    /\ page' \in 1 .. MaxPages /\ stride' \in {0, 1}
    /\ goto("head")
    /\ UNCHANGED <<line, siginfo, sigjmp, masked, owed, signals, history>>

\* Faulty: the loop does not stop at the end of the range.
Arm_past_end ==
    /\ pc = "head"
    /\ goto("armed") /\ sigjmp' = TRUE
    /\ UNCHANGED <<line, touching, siginfo, masked, owed, signals, history>>

Arm ==
    /\ pc = "head"
    /\ IF page = 0 THEN goto("respond") /\ UNCHANGED sigjmp
       ELSE goto("armed") /\ sigjmp' = TRUE
    /\ UNCHANGED <<line, touching, siginfo, masked, owed, signals, history>>

AccessOk ==
    /\ pc = "armed"
    /\ goto("accessed")
    /\ UNCHANGED <<line, touching, siginfo, sigjmp, masked, owed, signals, history>>

\* Faulty: the jump stays armed after the access.
Disarm_not ==
    /\ pc = "accessed"
    /\ goto("looptest")
    /\ UNCHANGED <<line, touching, siginfo, sigjmp, masked, owed, signals, history>>

Disarm ==
    /\ pc = "accessed"
    /\ sigjmp' = FALSE
    /\ goto("looptest")
    /\ UNCHANGED <<line, touching, siginfo, masked, owed, signals, history>>

\* Faulty: the loop stays on its page, whatever the page size.
LoopTest_stays ==
    /\ pc = "looptest"
    /\ IF siginfo # "none" THEN reset_signal /\ goto("respond")
       ELSE goto("head") /\ UNCHANGED <<siginfo, sigjmp>>
    /\ UNCHANGED <<line, touching, masked, owed, signals, history>>

LoopTest ==
    /\ pc = "looptest"
    /\ IF siginfo # "none" THEN reset_signal /\ goto("respond") /\ UNCHANGED page
       ELSE page' = page - stride /\ goto("head") /\ UNCHANGED <<siginfo, sigjmp>>
    /\ UNCHANGED <<line, stride, masked, owed, signals, history>>

\* Faulty: sigsetjmp() that does not save the mask leaves every signal blocked.
MaskAfterJump_kept == TRUE

(***************************************************************************)
(* SIGSEGV or SIGBUS enters signal_handler().  Armed, it jumps back to     *)
(* sigsetjmp(), which saved the signal mask and so unblocks what the       *)
(* handler blocked; not armed, it is fatal.                                *)
(***************************************************************************)
MaskAfterJump == FALSE

Caught(sig) ==
    /\ siginfo' = sig
    /\ IF sigjmp THEN sigjmp' = FALSE /\ goto("jumped") /\ masked' = MaskAfterJump
       ELSE exit(8) /\ UNCHANGED <<sigjmp, masked>>

\* The kernel kills a process that faults while the signal is blocked.
Fault(sig) ==
    /\ pc = "armed"
    /\ IF masked THEN pc' = "killed" /\ UNCHANGED <<siginfo, sigjmp, masked, code>>
       ELSE Caught(sig)
    /\ fresh' = TRUE /\ outside' = FALSE
    /\ UNCHANGED <<line, touching, owed, signals, errors, quitSeen>>

\* back in touch_memory(): show, reset, leave the loop
Jumped ==
    /\ pc = "jumped"
    /\ reset_signal
    /\ goto("respond")
    /\ UNCHANGED <<line, touching, masked, owed, signals, history>>

(***************************************************************************)
(* A signal from outside, kick for one: SIGINT and SIGQUIT are recorded,   *)
(* over whatever was recorded before; SIGSEGV and SIGBUS are taken for a   *)
(* fault of the access if one comes while that is armed; SIGUSR1 and       *)
(* SIGUSR2 take the handler's default branch and die; SIGCLD has a handler *)
(* of its own.  Any that does not end the program ends a pause().          *)
(***************************************************************************)
Wakes == goto(IF pc = "paused" THEN "woken" ELSE pc)

Arrives(sig) ==
    /\ ~Ended /\ ~masked /\ signals < MaxSignals
    /\ signals' = signals + 1 /\ outside' = TRUE
    /\ fresh' = (IF sig = "CLD" THEN fresh ELSE InCommand)
    /\ quitSeen' = (quitSeen \/ sig = "QUIT")
    /\ \/ /\ sig \in {"INT", "QUIT"}
          /\ siginfo' = sig /\ Wakes
          /\ UNCHANGED <<sigjmp, masked>>
       \/ /\ sig \in Faults
          /\ Caught(sig)
       \/ /\ sig \in {"USR1", "USR2"}
          /\ siginfo' = sig /\ exit(8)
          /\ UNCHANGED <<sigjmp, masked>>
       \/ /\ sig = "CLD"
          /\ Wakes
          /\ UNCHANGED <<siginfo, sigjmp, masked>>
    /\ UNCHANGED <<line, touching, owed, errors>>

-----------------------------------------------------------------------------
Init ==
    /\ pc = "read" /\ line = "blank" /\ page = 0 /\ stride = 1
    /\ siginfo = "none" /\ sigjmp = FALSE /\ masked = FALSE
    /\ code = 0 /\ owed = 0 /\ signals = 0
    /\ fresh = FALSE /\ outside = FALSE /\ errors = {} /\ quitSeen = FALSE

Step ==
    \/ CheckSignals \/ Plain \/ ExitOnError \/ Send \/ mprotect_seg \/ quit \/ pause_me
    \/ PauseReturns \/ child_respond
    \/ TouchBegins \/ Arm \/ AccessOk \/ Disarm \/ LoopTest \/ Jumped
    \/ \E sig \in Faults : Fault(sig)

Next ==
    \/ ReadLine \/ EndOfInput \/ Step
    \/ \E sig \in Async : Arrives(sig)

\* A program that can take a step takes it; input and signals need never come.
Spec     == Init /\ [][Next]_vars
FairSpec == Spec /\ WF_vars(Step)

-----------------------------------------------------------------------------
\* The variables hold values of their types.
TypeOK ==
    /\ pc \in {"read", "check", "respond", "exited", "killed", "dispatch", "head", "armed",
               "accessed", "looptest", "jumped", "paused", "woken", "failing"}
    /\ line \in LineKinds /\ page \in 0 .. MaxPages /\ stride \in {0, 1}
    /\ siginfo \in {"none"} \cup AsyncKinds \cup Faults
    /\ sigjmp \in BOOLEAN /\ masked \in BOOLEAN
    /\ code \in {0, 4, 8} /\ owed \in {0, 1} /\ signals \in 0 .. MaxSignals
    /\ fresh \in BOOLEAN /\ outside \in BOOLEAN /\ quitSeen \in BOOLEAN
    /\ errors \subseteq {"reported", "ignored"}

(***************************************************************************)
(* The jump is armed only while touch_memory(), whose frame it returns to, *)
(* is at its access: a fault anywhere else is never turned into a jump.    *)
(***************************************************************************)
ArmedOnlyAtAccess == sigjmp /\ ~Ended => pc \in {"armed", "accessed"}

(***************************************************************************)
(* The faults touch provokes never end the program, the second no more     *)
(* than the first and whatever signals come between arming, access and     *)
(* handler: status 8 is always the work of a signal sent from outside, one *)
(* the program has no use for, or a SIGSEGV or SIGBUS no access provoked.  *)
(***************************************************************************)
FaultsContained ==
    /\ pc # "killed"
    /\ code = 8 => outside /\ siginfo \in {"USR1", "USR2", "SEGV", "BUS"}

(***************************************************************************)
(* What a command sees recorded came during that command: a signal that    *)
(* came while the line was read, or during an earlier command and was not  *)
(* dealt with there, is forgotten when the command begins, and never cuts  *)
(* its touch short.                                                        *)
(***************************************************************************)
NoStaleSignal == InCommand /\ siginfo # "none" => fresh

(***************************************************************************)
(* A child answers every line it reads exactly once before it reads the    *)
(* next, blank ones included, and answers quit before it leaves.           *)
(***************************************************************************)
OneResponsePerLine ==
    /\ ~Ended => owed = (IF pc = "read" THEN 0 ELSE 1)
    /\ pc = "exited" /\ code = 0 /\ line = "quit" /\ ~quitSeen => owed = 0

(***************************************************************************)
(* The status of a script tells of the errors its commands reported: after *)
(* the first no other line is read, and whatever signals come before the   *)
(* exit(), a SIGQUIT included, the status is not 0; it is 4 only after one *)
(* was reported.  The errors of send and mprotect are not looked at, and   *)
(* leave no trace in the status.                                           *)
(***************************************************************************)
ScriptStatus ==
    ~Interactive =>
        /\ "reported" \in errors => pc = "failing" \/ (pc = "exited" /\ code # 0)
        /\ code = 4 => "reported" \in errors

(***************************************************************************)
(* A touch that advances ends, whatever faults and signals it meets; one   *)
(* that does not (page size 0) ends once a signal is recorded.             *)
(***************************************************************************)
TouchEnds ==
    (pc = "head" /\ (stride = 1 \/ siginfo # "none")) ~> (pc = "read" \/ Ended)

=============================================================================
