---------------------------- MODULE SysmonProofs ----------------------------
(***************************************************************************)
(* Proofs about the process, for both values of its flags.                 *)
(***************************************************************************)
EXTENDS Sysmon, TLAPS

LEMMA TypeInit == Init => TypeOK
BY SysmonAssumption DEF Init, TypeOK

LEMMA TypeStep == TypeOK /\ ProcessInv /\ [Next]_vars => TypeOK'
<1>. SUFFICES ASSUME TypeOK, ProcessInv, [Next]_vars PROVE TypeOK'
  OBVIOUS
<1>. USE DEF TypeOK, flags, sigVars
<1>1. CASE StartHide
  BY <1>1 DEF StartHide, StartPrint
<1>2. CASE FinishHide
  BY <1>2 DEF FinishHide
<1>3. CASE Notify
  BY <1>3 DEF Notify
<1>4. CASE StartHandler
  <2>1. handler = "none"
    BY <1>4 DEF StartHandler, ProcessInv, HandlerAfterHide
  <2>. QED
    BY <1>4, <2>1 DEF StartHandler
<1>5. CASE OpenCollector
  BY <1>5 DEF OpenCollector
<1>6. CASE ReadBaseline
  BY <1>6 DEF ReadBaseline
<1>7. CASE NewTicker
  BY <1>7 DEF NewTicker
<1>8. CASE Tick
  BY <1>8 DEF Tick
<1>9. CASE Fail
  BY <1>9 DEF Fail
<1>10. CASE StartFrame
  BY <1>10 DEF StartFrame, StartPrint
<1>11. CASE FinishFrame
  BY <1>11 DEF FinishFrame
<1>12. CASE StopTicker
  BY <1>12 DEF StopTicker
<1>13. CASE CloseCollector
  BY <1>13 DEF CloseCollector
<1>14. CASE StartShow
  BY <1>14 DEF StartShow, StartPrint
<1>15. CASE FinishShow
  BY <1>15 DEF FinishShow
<1>16. CASE ExitMain
  BY <1>16 DEF ExitMain
<1>17. CASE Receive
  <2>1. handler = "waiting" /\ handler' = "received" /\ sigCh' \in BOOLEAN
    BY <1>17 DEF Receive
  <2>2. UNCHANGED <<flags, pc, notified, signalled, deferred, panicking, col, out,
                    cursor, status, failed>>
    BY <1>17 DEF Receive
  <2>. QED
    BY <2>1, <2>2
<1>18. CASE StartRestore
  BY <1>18 DEF StartRestore
<1>19. CASE FinishRestore
  BY <1>19 DEF FinishRestore
<1>20. CASE ExitHandler
  BY <1>20 DEF ExitHandler
<1>21. CASE Signal
  BY <1>21 DEF Signal
<1>22. CASE UNCHANGED vars
  BY <1>22 DEF vars
<1>. QED
  BY <1>1, <1>2, <1>3, <1>4, <1>5, <1>6, <1>7, <1>8, <1>9, <1>10, <1>11,
     <1>12, <1>13, <1>14, <1>15, <1>16, <1>17, <1>18, <1>19, <1>20, <1>21,
     <1>22
     DEF Next, MainStep, FinishPrint, Unwind, HandlerStep

-----------------------------------------------------------------------------
LEMMA InvInit == Init => ProcessInv
BY DEF Init, ProcessInv, HandlerAfterHide, HiddenIsDeferred, OpenIsDeferred,
   ShowIsLast, ExitsKnown, SignalKept, FailureUnwinds

LEMMA InvStep == TypeOK /\ ProcessInv /\ [Next]_vars => ProcessInv'
<1>. SUFFICES ASSUME TypeOK, ProcessInv, [Next]_vars PROVE ProcessInv'
  OBVIOUS
<1>. USE DEF TypeOK, ProcessInv, HandlerAfterHide, HiddenIsDeferred,
         OpenIsDeferred, ShowIsLast, ExitsKnown, SignalKept, FailureUnwinds,
         Running, flags, sigVars
<1>1. CASE StartHide
  BY <1>1 DEF StartHide, StartPrint
<1>2. CASE FinishHide
  BY <1>2 DEF FinishHide
<1>3. CASE Notify
  BY <1>3 DEF Notify
<1>4. CASE StartHandler
  BY <1>4 DEF StartHandler
<1>5. CASE OpenCollector
  BY <1>5 DEF OpenCollector
<1>6. CASE ReadBaseline
  BY <1>6 DEF ReadBaseline
<1>7. CASE NewTicker
  BY <1>7 DEF NewTicker
<1>8. CASE Tick
  BY <1>8 DEF Tick
<1>9. CASE Fail
  BY <1>9 DEF Fail
<1>10. CASE StartFrame
  BY <1>10 DEF StartFrame, StartPrint
<1>11. CASE FinishFrame
  BY <1>11 DEF FinishFrame
<1>12. CASE StopTicker
  BY <1>12 DEF StopTicker
<1>13. CASE CloseCollector
  BY <1>13 DEF CloseCollector
<1>14. CASE StartShow
  BY <1>14 DEF StartShow, StartPrint
<1>15. CASE FinishShow
  BY <1>15 DEF FinishShow
<1>16. CASE ExitMain
  BY <1>16 DEF ExitMain
<1>17. CASE Receive
  BY <1>17 DEF Receive
<1>18. CASE StartRestore
  BY <1>18 DEF StartRestore
<1>19. CASE FinishRestore
  BY <1>19 DEF FinishRestore
<1>20. CASE ExitHandler
  BY <1>20 DEF ExitHandler
<1>21. CASE Signal
  BY <1>21 DEF Signal
<1>22. CASE UNCHANGED vars
  BY <1>22 DEF vars
<1>. QED
  BY <1>1, <1>2, <1>3, <1>4, <1>5, <1>6, <1>7, <1>8, <1>9, <1>10, <1>11,
     <1>12, <1>13, <1>14, <1>15, <1>16, <1>17, <1>18, <1>19, <1>20, <1>21,
     <1>22
     DEF Next, MainStep, FinishPrint, Unwind, HandlerStep

\* Neither formula is inductive without the other: only ProcessInv tells that
\* the handler is started once.
THEOREM ProcessTypes == Spec => []TypeOK
BY TypeInit, TypeStep, InvInit, InvStep, PTL DEF Spec

\* ProcessInv is an invariant of the process.
THEOREM ProcessInvariant == Spec => []ProcessInv
BY TypeInit, TypeStep, InvInit, InvStep, PTL DEF Spec

\* Every exit but the default action of an early signal restores the cursor.
THEOREM CursorIsRestored == Spec => []CursorRestored
<1>1. TypeOK /\ ProcessInv => CursorRestored
  BY DEF TypeOK, ProcessInv, HiddenIsDeferred, ExitsKnown, CursorRestored
<1>. QED
  BY <1>1, ProcessTypes, ProcessInvariant, PTL

\* Every return of run, and its panic, closes the collector.
THEOREM ReturnCloses == Spec => []ClosedOnReturn
<1>1. ProcessInv => ClosedOnReturn
  BY DEF ProcessInv, OpenIsDeferred, ExitsKnown, ClosedOnReturn
<1>. QED
  BY <1>1, ProcessInvariant, PTL

\* No signal that has been caught is lost while the process runs.
THEOREM SignalsAreKept == Spec => []SignalKept
<1>1. ProcessInv => SignalKept
  BY DEF ProcessInv
<1>. QED
  BY <1>1, ProcessInvariant, PTL
=============================================================================
