------------------------- MODULE CommandLoopProofs --------------------------
(***************************************************************************)
(* Proofs about CommandLoop, for any set of lines and signals, any number  *)
(* of pages and any number of signals.                                     *)
(***************************************************************************)
EXTENDS CommandLoop, TLAPS

(***************************************************************************)
(* The inductive invariant.  No property below is inductive by itself:     *)
(* that the number of responses owed and the page count stay in range      *)
(* needs to know where the program is (Counts); that faults are contained  *)
(* needs that an access is always armed, that no jump left the signals     *)
(* blocked and that the status is set only by an end (Jump); that only a   *)
(* SIGQUIT lets quit go unanswered needs that one recorded was seen, and   *)
(* that only an error leads to status 4 that one was reported (Recorded).  *)
(***************************************************************************)
Counts ==
    /\ ~Ended => owed = (IF pc = "read" THEN 0 ELSE 1) /\ code = 0
    /\ pc \in {"armed", "accessed", "looptest"} => page > 0

Jump ==
    /\ pc \in {"armed", "accessed"} => sigjmp
    /\ ~masked

Recorded ==
    /\ siginfo = "QUIT" => quitSeen
    /\ pc = "failing" => "reported" \in errors

Inv ==
    /\ TypeOK /\ Counts /\ Jump /\ Recorded
    /\ ArmedOnlyAtAccess /\ FaultsContained /\ NoStaleSignal /\ OneResponsePerLine
    /\ ScriptStatus

\* Nothing has happened yet when process_commands() is entered.
LEMMA InvInit == Init => Inv
<1> SUFFICES ASSUME Init PROVE Inv
  OBVIOUS
<1>1. page \in 0 .. MaxPages /\ signals \in 0 .. MaxSignals
  BY LoopAssumption DEF Init
<1>2. line \in LineKinds /\ siginfo \in {"none"} \cup AsyncKinds \cup Faults
  BY DEF Init, LineKinds
<1>3. TypeOK
  BY <1>1, <1>2 DEF Init, TypeOK
<1>4. Counts /\ Jump /\ Recorded /\ ArmedOnlyAtAccess /\ FaultsContained
  BY DEF Init, Counts, Jump, Recorded, ArmedOnlyAtAccess, FaultsContained, Ended
<1>5. NoStaleSignal /\ OneResponsePerLine /\ ScriptStatus
  BY DEF Init, NoStaleSignal, OneResponsePerLine, ScriptStatus, Ended, InCommand
<1> QED
  BY <1>3, <1>4, <1>5 DEF Inv

\* Every step of the program, and every signal, preserves the invariant.
LEMMA InvNext == Inv /\ [Next]_vars => Inv'
<1> SUFFICES ASSUME Inv, [Next]_vars PROVE Inv'
  OBVIOUS
<1> USE LoopAssumption DEF Inv, TypeOK, Counts, Jump, Recorded, ArmedOnlyAtAccess,
      FaultsContained, NoStaleSignal, OneResponsePerLine, ScriptStatus, Ended, InCommand,
      goto, exit, reset_signal, history, touching, LineKinds, AsyncKinds, Faults
<1>1. CASE ReadLine
  <2>1. TypeOK'
    BY <1>1 DEF ReadLine
  <2>2. Counts' /\ Jump' /\ Recorded'
    BY <1>1 DEF ReadLine
  <2>3. ArmedOnlyAtAccess' /\ FaultsContained'
    BY <1>1 DEF ReadLine
  <2>4. NoStaleSignal' /\ OneResponsePerLine'
    BY <1>1 DEF ReadLine
  <2>5. ScriptStatus'
    BY <1>1 DEF ReadLine
  <2> QED
    BY <2>1, <2>2, <2>3, <2>4, <2>5
<1>2. CASE EndOfInput
  <2>1. TypeOK'
    BY <1>2 DEF EndOfInput
  <2>2. Counts' /\ Jump' /\ Recorded'
    BY <1>2 DEF EndOfInput
  <2>3. ArmedOnlyAtAccess' /\ FaultsContained'
    BY <1>2 DEF EndOfInput
  <2>4. NoStaleSignal' /\ OneResponsePerLine'
    BY <1>2 DEF EndOfInput
  <2>5. ScriptStatus'
    BY <1>2 DEF EndOfInput
  <2> QED
    BY <2>1, <2>2, <2>3, <2>4, <2>5
<1>3. CASE CheckSignals
  <2>1. TypeOK'
    BY <1>3 DEF CheckSignals
  <2>2. Counts' /\ Jump' /\ Recorded'
    BY <1>3 DEF CheckSignals
  <2>3. ArmedOnlyAtAccess' /\ FaultsContained'
    BY <1>3 DEF CheckSignals
  <2>4. NoStaleSignal' /\ OneResponsePerLine'
    BY <1>3 DEF CheckSignals
  <2>5. ScriptStatus'
    BY <1>3 DEF CheckSignals
  <2> QED
    BY <2>1, <2>2, <2>3, <2>4, <2>5
<1>4. CASE Plain
  <2>1. TypeOK'
    BY <1>4 DEF Plain, Succeeds, ReportsError, Error
  <2>2. Counts' /\ Jump' /\ Recorded'
    BY <1>4 DEF Plain, Succeeds, ReportsError, Error
  <2>3. ArmedOnlyAtAccess' /\ FaultsContained'
    BY <1>4 DEF Plain, Succeeds, ReportsError, Error
  <2>4. NoStaleSignal' /\ OneResponsePerLine'
    BY <1>4 DEF Plain, Succeeds, ReportsError, Error
  <2>5. ScriptStatus'
    BY <1>4 DEF Plain, Succeeds, ReportsError, Error
  <2> QED
    BY <2>1, <2>2, <2>3, <2>4, <2>5
<1>5. CASE ExitOnError
  <2>1. TypeOK'
    BY <1>5 DEF ExitOnError
  <2>2. Counts' /\ Jump' /\ Recorded'
    BY <1>5 DEF ExitOnError
  <2>3. ArmedOnlyAtAccess' /\ FaultsContained'
    BY <1>5 DEF ExitOnError
  <2>4. NoStaleSignal' /\ OneResponsePerLine'
    BY <1>5 DEF ExitOnError
  <2>5. ScriptStatus'
    BY <1>5 DEF ExitOnError
  <2> QED
    BY <2>1, <2>2, <2>3, <2>4, <2>5
<1>6. CASE Send
  <2>1. TypeOK'
    BY <1>6 DEF Send, Error
  <2>2. Counts' /\ Jump' /\ Recorded'
    BY <1>6 DEF Send, Error
  <2>3. ArmedOnlyAtAccess' /\ FaultsContained'
    BY <1>6 DEF Send, Error
  <2>4. NoStaleSignal' /\ OneResponsePerLine'
    BY <1>6 DEF Send, Error
  <2>5. ScriptStatus'
    BY <1>6 DEF Send, Error
  <2> QED
    BY <2>1, <2>2, <2>3, <2>4, <2>5
<1>7. CASE mprotect_seg
  <2>1. TypeOK'
    BY <1>7 DEF mprotect_seg, Succeeds, ReportsError, Error
  <2>2. Counts' /\ Jump' /\ Recorded'
    BY <1>7 DEF mprotect_seg, Succeeds, ReportsError, Error
  <2>3. ArmedOnlyAtAccess' /\ FaultsContained'
    BY <1>7 DEF mprotect_seg, Succeeds, ReportsError, Error
  <2>4. NoStaleSignal' /\ OneResponsePerLine'
    BY <1>7 DEF mprotect_seg, Succeeds, ReportsError, Error
  <2>5. ScriptStatus'
    BY <1>7 DEF mprotect_seg, Succeeds, ReportsError, Error
  <2> QED
    BY <2>1, <2>2, <2>3, <2>4, <2>5
<1>8. CASE quit
  <2>1. TypeOK'
    BY <1>8 DEF quit
  <2>2. Counts' /\ Jump' /\ Recorded'
    BY <1>8 DEF quit
  <2>3. ArmedOnlyAtAccess' /\ FaultsContained'
    BY <1>8 DEF quit
  <2>4. NoStaleSignal' /\ OneResponsePerLine'
    BY <1>8 DEF quit
  <2>5. ScriptStatus'
    BY <1>8 DEF quit
  <2> QED
    BY <2>1, <2>2, <2>3, <2>4, <2>5
<1>9. CASE pause_me
  <2>1. TypeOK'
    BY <1>9 DEF pause_me
  <2>2. Counts' /\ Jump' /\ Recorded'
    BY <1>9 DEF pause_me
  <2>3. ArmedOnlyAtAccess' /\ FaultsContained'
    BY <1>9 DEF pause_me
  <2>4. NoStaleSignal' /\ OneResponsePerLine'
    BY <1>9 DEF pause_me
  <2>5. ScriptStatus'
    BY <1>9 DEF pause_me
  <2> QED
    BY <2>1, <2>2, <2>3, <2>4, <2>5
<1>10. CASE PauseReturns
  <2>1. TypeOK'
    BY <1>10 DEF PauseReturns
  <2>2. Counts' /\ Jump' /\ Recorded'
    BY <1>10 DEF PauseReturns
  <2>3. ArmedOnlyAtAccess' /\ FaultsContained'
    BY <1>10 DEF PauseReturns
  <2>4. NoStaleSignal' /\ OneResponsePerLine'
    BY <1>10 DEF PauseReturns
  <2>5. ScriptStatus'
    BY <1>10 DEF PauseReturns
  <2> QED
    BY <2>1, <2>2, <2>3, <2>4, <2>5
<1>11. CASE child_respond
  <2>1. TypeOK'
    BY <1>11 DEF child_respond
  <2>2. Counts' /\ Jump' /\ Recorded'
    BY <1>11 DEF child_respond
  <2>3. ArmedOnlyAtAccess' /\ FaultsContained'
    BY <1>11 DEF child_respond
  <2>4. NoStaleSignal' /\ OneResponsePerLine'
    BY <1>11 DEF child_respond
  <2>5. ScriptStatus'
    BY <1>11 DEF child_respond
  <2> QED
    BY <2>1, <2>2, <2>3, <2>4, <2>5
<1>12. CASE TouchBegins
  <2>1. TypeOK'
    BY <1>12 DEF TouchBegins
  <2>2. Counts' /\ Jump' /\ Recorded'
    BY <1>12 DEF TouchBegins
  <2>3. ArmedOnlyAtAccess' /\ FaultsContained'
    BY <1>12 DEF TouchBegins
  <2>4. NoStaleSignal' /\ OneResponsePerLine'
    BY <1>12 DEF TouchBegins
  <2>5. ScriptStatus'
    BY <1>12 DEF TouchBegins
  <2> QED
    BY <2>1, <2>2, <2>3, <2>4, <2>5
<1>13. CASE Arm
  <2>1. TypeOK'
    BY <1>13 DEF Arm
  <2>2. Counts' /\ Jump' /\ Recorded'
    BY <1>13 DEF Arm
  <2>3. ArmedOnlyAtAccess' /\ FaultsContained'
    BY <1>13 DEF Arm
  <2>4. NoStaleSignal' /\ OneResponsePerLine'
    BY <1>13 DEF Arm
  <2>5. ScriptStatus'
    BY <1>13 DEF Arm
  <2> QED
    BY <2>1, <2>2, <2>3, <2>4, <2>5
<1>14. CASE AccessOk
  <2>1. TypeOK'
    BY <1>14 DEF AccessOk
  <2>2. Counts' /\ Jump' /\ Recorded'
    BY <1>14 DEF AccessOk
  <2>3. ArmedOnlyAtAccess' /\ FaultsContained'
    BY <1>14 DEF AccessOk
  <2>4. NoStaleSignal' /\ OneResponsePerLine'
    BY <1>14 DEF AccessOk
  <2>5. ScriptStatus'
    BY <1>14 DEF AccessOk
  <2> QED
    BY <2>1, <2>2, <2>3, <2>4, <2>5
<1>15. CASE Disarm
  <2>1. TypeOK'
    BY <1>15 DEF Disarm
  <2>2. Counts' /\ Jump' /\ Recorded'
    BY <1>15 DEF Disarm
  <2>3. ArmedOnlyAtAccess' /\ FaultsContained'
    BY <1>15 DEF Disarm
  <2>4. NoStaleSignal' /\ OneResponsePerLine'
    BY <1>15 DEF Disarm
  <2>5. ScriptStatus'
    BY <1>15 DEF Disarm
  <2> QED
    BY <2>1, <2>2, <2>3, <2>4, <2>5
<1>16. CASE LoopTest
  <2>1. TypeOK'
    <3>1. page' \in 0 .. MaxPages
      BY <1>16 DEF LoopTest
    <3> QED
      BY <1>16, <3>1 DEF LoopTest
  <2>2. Counts' /\ Jump' /\ Recorded'
    BY <1>16 DEF LoopTest
  <2>3. ArmedOnlyAtAccess' /\ FaultsContained'
    BY <1>16 DEF LoopTest
  <2>4. NoStaleSignal' /\ OneResponsePerLine'
    BY <1>16 DEF LoopTest
  <2>5. ScriptStatus'
    BY <1>16 DEF LoopTest
  <2> QED
    BY <2>1, <2>2, <2>3, <2>4, <2>5
<1>17. CASE Jumped
  <2>1. TypeOK'
    BY <1>17 DEF Jumped
  <2>2. Counts' /\ Jump' /\ Recorded'
    BY <1>17 DEF Jumped
  <2>3. ArmedOnlyAtAccess' /\ FaultsContained'
    BY <1>17 DEF Jumped
  <2>4. NoStaleSignal' /\ OneResponsePerLine'
    BY <1>17 DEF Jumped
  <2>5. ScriptStatus'
    BY <1>17 DEF Jumped
  <2> QED
    BY <2>1, <2>2, <2>3, <2>4, <2>5
<1>18. ASSUME NEW sig \in {"SEGV", "BUS"}, Fault(sig) PROVE Inv'
  <2>1. TypeOK'
    BY <1>18 DEF Fault, Caught, MaskAfterJump
  <2>2. Counts' /\ Jump' /\ Recorded'
    BY <1>18 DEF Fault, Caught, MaskAfterJump
  <2>3. ArmedOnlyAtAccess' /\ FaultsContained'
    BY <1>18 DEF Fault, Caught, MaskAfterJump
  <2>4. NoStaleSignal' /\ OneResponsePerLine'
    BY <1>18 DEF Fault, Caught, MaskAfterJump
  <2>5. ScriptStatus'
    BY <1>18 DEF Fault, Caught, MaskAfterJump
  <2> QED
    BY <2>1, <2>2, <2>3, <2>4, <2>5
<1>19. ASSUME NEW sig \in Async, Arrives(sig) PROVE Inv'
  <2> USE <1>19 DEF Arrives, Wakes
  <2>1. /\ ~Ended /\ signals' \in 0 .. MaxSignals /\ outside' = TRUE
        /\ fresh' = (IF sig = "CLD" THEN fresh ELSE InCommand)
        /\ quitSeen' = (quitSeen \/ sig = "QUIT")
        /\ UNCHANGED <<line, page, stride, owed, errors>>
    OBVIOUS
  <2>2. fresh' \in BOOLEAN /\ quitSeen' \in BOOLEAN
    <3>1. fresh' \in BOOLEAN
      <4>1. CASE sig = "CLD"
        BY <2>1, <4>1
      <4>2. CASE sig # "CLD"
        BY <2>1, <4>2
      <4> QED
        BY <4>1, <4>2
    <3>2. quitSeen' \in BOOLEAN
      BY <2>1
    <3> QED
      BY <3>1, <3>2
  <2>3. CASE sig \in {"INT", "QUIT"}
    <3>1. /\ siginfo' = sig /\ pc' = (IF pc = "paused" THEN "woken" ELSE pc)
          /\ UNCHANGED <<code, sigjmp, masked>>
      BY <2>3
    <3>2. pc' \in {"read", "check", "respond", "dispatch", "head", "armed", "accessed",
                   "looptest", "jumped", "paused", "woken", "failing"}
      BY <2>1, <3>1
    <3>3. TypeOK'
      BY <2>1, <2>2, <2>3, <3>1, <3>2
    <3>4. Counts' /\ Jump' /\ Recorded'
      BY <2>1, <2>3, <3>1
    <3>5. ArmedOnlyAtAccess' /\ FaultsContained'
      BY <2>1, <2>3
    <3>6. NoStaleSignal' /\ OneResponsePerLine'
      BY <2>1, <2>3
    <3>7. ScriptStatus'
      BY <2>1, <2>3
    <3> QED
      BY <3>3, <3>4, <3>5, <3>6, <3>7
  <2>4. CASE sig \in Faults
    <3>1. TypeOK'
      BY <2>1, <2>2, <2>4 DEF Caught, MaskAfterJump
    <3>2. Counts' /\ Jump' /\ Recorded'
      BY <2>1, <2>4 DEF Caught, MaskAfterJump
    <3>3. ArmedOnlyAtAccess' /\ FaultsContained'
      BY <2>1, <2>4 DEF Caught, MaskAfterJump
    <3>4. NoStaleSignal' /\ OneResponsePerLine'
      BY <2>1, <2>4 DEF Caught, MaskAfterJump
    <3>5. ScriptStatus'
      BY <2>1, <2>4 DEF Caught, MaskAfterJump
    <3> QED
      BY <3>1, <3>2, <3>3, <3>4, <3>5
  <2>5. CASE sig \in {"USR1", "USR2"}
    <3>1. TypeOK'
      BY <2>1, <2>2, <2>5
    <3>2. Counts' /\ Jump' /\ Recorded'
      BY <2>1, <2>5
    <3>3. ArmedOnlyAtAccess' /\ FaultsContained'
      BY <2>1, <2>5
    <3>4. NoStaleSignal' /\ OneResponsePerLine'
      BY <2>1, <2>5
    <3>5. ScriptStatus'
      BY <2>1, <2>5
    <3> QED
      BY <3>1, <3>2, <3>3, <3>4, <3>5
  <2>6. CASE sig = "CLD"
    <3>1. TypeOK'
      BY <2>1, <2>2, <2>6
    <3>2. Counts' /\ Jump' /\ Recorded'
      BY <2>1, <2>6
    <3>3. ArmedOnlyAtAccess' /\ FaultsContained'
      BY <2>1, <2>6
    <3>4. NoStaleSignal' /\ OneResponsePerLine'
      BY <2>1, <2>6
    <3>5. ScriptStatus'
      BY <2>1, <2>6
    <3> QED
      BY <3>1, <3>2, <3>3, <3>4, <3>5
  <2> QED
    BY <2>3, <2>4, <2>5, <2>6
<1>20. CASE UNCHANGED vars
  BY <1>20 DEF vars
<1> QED
  BY <1>1, <1>2, <1>3, <1>4, <1>5, <1>6, <1>7, <1>8, <1>9, <1>10, <1>11, <1>12, <1>13,
     <1>14, <1>15, <1>16, <1>17, <1>18, <1>19, <1>20 DEF Next, Step

\* The invariant holds throughout.
LEMMA InvHolds == Spec => []Inv
BY InvInit, InvNext, PTL DEF Spec

\* The program counter, the counters and the flags keep their types.
THEOREM TypeCorrect == Spec => []TypeOK
<1>1. Inv => TypeOK
  BY DEF Inv
<1> QED
  BY InvHolds, <1>1, PTL

(***************************************************************************)
(* signal_handler() turns a fault into a jump only while touch_memory() is *)
(* at its access, so it never jumps into a frame that is gone.             *)
(***************************************************************************)
THEOREM JumpsOnlyFromAccess == Spec => []ArmedOnlyAtAccess
<1>1. Inv => ArmedOnlyAtAccess
  BY DEF Inv
<1> QED
  BY InvHolds, <1>1, PTL

(***************************************************************************)
(* No fault that touch provokes ends the program, however many there are   *)
(* and whatever signals come: only a signal from outside does.             *)
(***************************************************************************)
THEOREM TouchSurvives == Spec => []FaultsContained
<1>1. Inv => FaultsContained
  BY DEF Inv
<1> QED
  BY InvHolds, <1>1, PTL

(***************************************************************************)
(* What a command sees recorded came while it ran: no signal of the time   *)
(* before, or of an earlier command, cuts its touch short.                 *)
(***************************************************************************)
THEOREM SignalsAreFresh == Spec => []NoStaleSignal
<1>1. Inv => NoStaleSignal
  BY DEF Inv
<1> QED
  BY InvHolds, <1>1, PTL

(***************************************************************************)
(* A child responds to each line exactly once, so that its parent's count  *)
(* of responses (module Children) is the count of lines it sent.           *)
(***************************************************************************)
THEOREM RespondsOnce == Spec => []OneResponsePerLine
<1>1. Inv => OneResponsePerLine
  BY DEF Inv
<1> QED
  BY InvHolds, <1>1, PTL

(***************************************************************************)
(* A script that met a reported error reads no other line and ends with a  *)
(* status that is not 0, whatever signals come before exit() is called.    *)
(***************************************************************************)
THEOREM ScriptErrors == Spec => []ScriptStatus
<1>1. Inv => ScriptStatus
  BY DEF Inv
<1> QED
  BY InvHolds, <1>1, PTL

=============================================================================
