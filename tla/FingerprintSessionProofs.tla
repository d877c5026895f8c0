---------------------- MODULE FingerprintSessionProofs ----------------------
(* Proofs about FingerprintSession, for every value of its constants. *)
EXTENDS FingerprintSession, TLAPS

\* The pcs from which vcs_enroll may still add an image.
WantsSample == {"none", "begin", "loop", "unable", "use", "again"} \cup Capturing

\* What TypeOK rests on: the operation a call claims is within the bound, its
\* thread is created once, and vcs_enroll adds an image only while a sample is
\* wanted.
Counting ==
    /\ cpc \in {"poll", "claim"} => nops < MaxOps
    /\ cpc \in Claimed \cup {"spawnTimer"} => nops > 0
    /\ \A i \in Ops : i > nops \/ (i = nops /\ cpc \in Claimed) => wpc[i] = "none"
    /\ \A i \in Ops : wpc[i] \in WantsSample => count[i] > 0

TypeInv == TypeOK /\ Counting

\* The HAL as fingerprint_open leaves it is well typed, and nobody counts samples yet.
LEMMA TypeInit == Init => TypeInv
  <1> SUFFICES ASSUME Init PROVE TypeInv
    OBVIOUS
  <1> USE SessionAssumption DEF Init
  <1>1. hit \in [Ops -> BOOLEAN] /\ ctimeout \in BOOLEAN
    OBVIOUS
  <1>2. wpc \in [Ops -> WorkerPcs] /\ kind \in [Ops -> Kinds] /\ tpc \in [Ops -> TimerPcs]
    BY DEF WorkerPcs, Kinds, TimerPcs
  <1>3. count \in [Ops -> 0..Samples]
    OBVIOUS
  <1>4. /\ cpc \in CallerPcs /\ ckind \in Kinds /\ hpc \in HandlerPcs /\ state \in WorkerStates
        /\ timeoutThread \in 0..MaxOps /\ joinee \in 0..MaxOps /\ nops \in 0..MaxOps
    BY DEF CallerPcs, Kinds, HandlerPcs, WorkerStates
  <1>5. /\ tzInit \in BOOLEAN /\ sensorInit \in BOOLEAN
        /\ drdy \in BOOLEAN /\ pending \in BOOLEAN /\ sensorSignal \in BOOLEAN
    OBVIOUS
  <1>6. TypeOK
    BY <1>1, <1>2, <1>3, <1>4, <1>5, Zenon DEF TypeOK
  <1>7. Counting
    BY DEF Counting, Ops, Claimed, WantsSample
  <1> QED
    BY <1>6, <1>7 DEF TypeInv

USE SessionAssumption DEF Ops

\* The HAL calls (authenticate, enroll, cancel) keep the types.
LEMMA TypeCaller ==
  ASSUME TypeInv, CallerNext
  PROVE  TypeInv'
  <1> USE DEF TypeInv, TypeOK, Counting, Kinds, WorkerStates, CallerPcs, CallerLocked,
          Claimed, OnlyCallerMoves, GoCaller, Returned, callerVars, workerVars, deviceVars,
          irqVars, timerVars
  <1>1. CASE Authenticate
    BY <1>1 DEF Authenticate, MayStart
  <1>2. CASE Enroll
    BY <1>2 DEF Enroll, MayStart
  <1>3. CASE PollState
    BY <1>3 DEF PollState
  <1>4. CASE ClaimState
    BY <1>4 DEF ClaimState
  <1>5. CASE SensorInit
    BY <1>5 DEF SensorInit
  <1>6. CASE VcsInit
    BY <1>6 DEF VcsInit
  <1>7. CASE SpawnWorker
    <2>1. nops \in Ops /\ wpc[nops] = "none"
      BY <1>7 DEF SpawnWorker
    <2>2. count[nops] > 0
      BY <2>1 DEF WantsSample
    <2>3. /\ wpc' \in [Ops -> WorkerPcs] /\ \A j \in Ops : j # nops => wpc'[j] = wpc[j]
          /\ kind' \in [Ops -> Kinds]
      BY <1>7, <2>1 DEF SpawnWorker, GoWorker, WorkerPcs, InSession
    <2>4. cpc' \in {"spawnTimer", "ready"} /\ nops > 0
      BY <1>7, <2>1 DEF SpawnWorker
    <2> QED
      BY <1>7, <2>1, <2>2, <2>3, <2>4 DEF SpawnWorker
  <1>8. CASE SpawnTimer
    BY <1>8 DEF SpawnTimer, GoTimer, TimerPcs
  <1>9. CASE Cancel
    BY <1>9 DEF Cancel
  <1>10. CASE CancelSignalTimer
    BY <1>10 DEF CancelSignalTimer, SignalTimeoutCond, GoTimer, TimerPcs
  <1>11. CASE CancelJoin
    BY <1>11 DEF CancelJoin
  <1>12. CASE CancelJoined
    BY <1>12 DEF CancelJoined
  <1>13. CASE CancelCheckIdle
    BY <1>13 DEF CancelCheckIdle
  <1>14. CASE CancelCheckCancel
    BY <1>14 DEF CancelCheckCancel
  <1>15. CASE CancelSet
    BY <1>15 DEF CancelSet
  <1>16. CASE CancelDisarm
    BY <1>16 DEF CancelDisarm
  <1>17. CASE CancelWake
    BY <1>17 DEF CancelWake, SignalSensorCond, GoWorker, WorkerPcs, WantsSample, InSession,
       Capturing
  <1>18. CASE CancelAwait
    BY <1>18 DEF CancelAwait
  <1>19. CASE CancelNotify
    BY <1>19 DEF CancelNotify
  <1> QED
    BY <1>1, <1>2, <1>3, <1>4, <1>5, <1>6, <1>7, <1>8, <1>9, <1>10, <1>11, <1>12, <1>13,
       <1>14, <1>15, <1>16, <1>17, <1>18, <1>19
    DEF CallerNext, StartCall, CancelCall

\* Every step of a worker moves it between labels of the code and keeps the types.
LEMMA TypeWorker ==
  ASSUME TypeInv, NEW i \in Ops, WorkerNext(i)
  PROVE  TypeInv'
  <1> USE DEF TypeInv, TypeOK, Counting, WorkerPcs, WantsSample, InSession, Capturing, Using,
          WorkerLocked, WorkerStates, Kinds, GoWorker, OutPc, OnlyWorkerMoves, WorkerSets,
          callerVars, deviceVars, irqVars, timerVars
  <1>1. CASE WorkerBegin(i)
    BY <1>1 DEF WorkerBegin
  <1>2. CASE WorkerLoop(i)
    BY <1>2 DEF WorkerLoop
  <1>3. CASE CaptureStart(i)
    BY <1>3 DEF CaptureStart
  <1>4. CASE CaptureStartFails(i)
    BY <1>4 DEF CaptureStartFails
  <1>5. CASE WaitCheckIdle(i)
    BY <1>5 DEF WaitCheckIdle
  <1>6. CASE WaitCheckCancel(i)
    BY <1>6 DEF WaitCheckCancel
  <1>7. CASE WaitCheckSignal(i)
    BY <1>7 DEF WaitCheckSignal
  <1>8. CASE WaitSpuriousWake(i)
    BY <1>8 DEF WaitSpuriousWake
  <1>9. CASE CaptureAbort(i)
    <2>1. /\ wpc[i] \in {"abortHeld", "abort"} /\ state' = "IDLE"
          /\ wpc' = [wpc EXCEPT ![i] = IF wpc[i] = "abort" THEN OutPc(i) ELSE "recheck1"]
          /\ UNCHANGED <<deviceVars, irqVars, callerVars, kind, count, hit, timerVars, hpc>>
      BY <1>9 DEF CaptureAbort
    <2>2. TypeOK'
      BY <2>1
    <2>3. Counting'
      BY <2>1
    <2> QED
      BY <2>2, <2>3
  <1>10. CASE RecheckIdle(i)
    BY <1>10 DEF RecheckIdle
  <1>11. CASE RecheckCancel(i)
    BY <1>11 DEF RecheckCancel
  <1>12. CASE ConsumeSignal(i)
    <2>1. TypeOK'
      BY <1>12 DEF ConsumeSignal
    <2>2. Counting'
      BY <1>12 DEF ConsumeSignal
    <2> QED
      BY <2>1, <2>2
  <1>13. CASE ReadCheckIdle(i)
    BY <1>13 DEF ReadCheckIdle
  <1>14. CASE ReadData(i)
    BY <1>14 DEF ReadData
  <1>15. CASE ProcessData(i)
    BY <1>15 DEF ProcessData
  <1>16. CASE AcquiredNotice(i)
    BY <1>16 DEF AcquiredNotice
  <1>17. CASE EnrollAddImage(i)
    <2>1. count[i] \in 1..Samples /\ wpc[i] = "use"
      BY <1>17 DEF EnrollAddImage
    <2>2. CASE GoWorker(i, "progress") /\ \E complete \in BOOLEAN :
                 count' = [count EXCEPT ![i] = Remaining(@, complete)]
      <3>1. \A complete \in BOOLEAN : Remaining(count[i], complete) \in 0..Samples
        BY <2>1 DEF Remaining
      <3>2. /\ count' \in [Ops -> 0..Samples]
            /\ \A j \in Ops : j # i => count'[j] = count[j]
        BY <2>2, <3>1
      <3> QED
        BY <1>17, <2>1, <2>2, <3>2 DEF EnrollAddImage
    <2>3. CASE UNCHANGED count
      BY <1>17, <2>1, <2>3 DEF EnrollAddImage
    <2> QED
      BY <1>17, <2>2, <2>3 DEF EnrollAddImage
  <1>18. CASE EnrollNotice(i)
    BY <1>18 DEF EnrollNotice
  <1>19. CASE EnrollFinish(i)
    BY <1>19 DEF EnrollFinish
  <1>20. CASE EnrollOut(i)
    BY <1>20 DEF EnrollOut
  <1>21. CASE EnrollFail(i)
    BY <1>21 DEF EnrollFail
  <1>22. CASE EnrollFailNotice(i)
    BY <1>22 DEF EnrollFailNotice
  <1>23. CASE MatchImage(i)
    BY <1>23 DEF MatchImage
  <1>24. CASE MatchFailNotice(i)
    BY <1>24 DEF MatchFailNotice
  <1>25. CASE SensorUninit(i)
    <2>1. TypeOK'
      BY <1>25 DEF SensorUninit
    <2>2. Counting'
      BY <1>25 DEF SensorUninit
    <2> QED
      BY <2>1, <2>2
  <1>26. CASE VcsUninit(i)
    <2>1. TypeOK'
      BY <1>26 DEF VcsUninit
    <2>2. Counting'
      BY <1>26 DEF VcsUninit
    <2> QED
      BY <2>1, <2>2
  <1>27. CASE VcsUninitIdle(i)
    BY <1>27 DEF VcsUninitIdle
  <1>28. CASE AuthenticateIdle(i)
    BY <1>28 DEF AuthenticateIdle
  <1>29. CASE AuthenticatedNotice(i)
    BY <1>29 DEF AuthenticatedNotice
  <1> QED
    BY <1>1, <1>2, <1>3, <1>4, <1>5, <1>6, <1>7, <1>8, <1>9, <1>10, <1>11, <1>12, <1>13,
       <1>14, <1>15, <1>16, <1>17, <1>18, <1>19, <1>20, <1>21, <1>22, <1>23, <1>24, <1>25,
       <1>26, <1>27, <1>28, <1>29
    DEF WorkerNext, CaptureStep, ThreadStep, Notice

\* vcs_timeout keeps the types.
LEMMA TypeTimer ==
  ASSUME TypeInv, NEW i \in Ops, TimerNext(i)
  PROVE  TypeInv'
  <1> USE DEF TypeInv, TypeOK, Counting, TimerPcs, WorkerStates, TimerGoes, GoTimer,
          callerVars, workerVars, deviceVars, irqVars
  <1>1. CASE TimerWait(i)
    BY <1>1 DEF TimerWait
  <1>2. CASE TimerSpuriousWake(i)
    BY <1>2 DEF TimerSpuriousWake
  <1>3. CASE TimerExpire(i)
    BY <1>3 DEF TimerExpire
  <1>4. CASE TimerCheck(i)
    <2>1. CASE tpc[i] = "check1"
      BY <1>4, <2>1 DEF TimerCheck
    <2>2. CASE tpc[i] = "check2"
      BY <1>4, <2>2 DEF TimerCheck
    <2> QED
      BY <1>4, <2>1, <2>2 DEF TimerCheck
  <1>5. CASE TimerCancel(i)
    BY <1>5 DEF TimerCancel
  <1>6. CASE TimerDisarm(i)
    BY <1>6 DEF TimerDisarm
  <1>7. CASE TimerAwait(i)
    BY <1>7 DEF TimerAwait
  <1>8. CASE TimerNotify(i)
    BY <1>8 DEF TimerNotify
  <1> QED
    BY <1>1, <1>2, <1>3, <1>4, <1>5, <1>6, <1>7, <1>8
    DEF TimerNext, TimerStep

\* The touch of the sensor and sensor_process_signal keep the types.
LEMMA TypeHandler ==
  ASSUME TypeInv, HandlerStep \/ Swipe
  PROVE  TypeInv'
  <1> USE DEF TypeInv, TypeOK, Counting, HandlerPcs, SignalTimeoutCond, GoTimer, TimerPcs,
          callerVars, workerVars, deviceVars, irqVars, timerVars
  <1>1. CASE HandlerEnter
    BY <1>1 DEF HandlerEnter
  <1>2. CASE HandlerSignalTimer
    BY <1>2 DEF HandlerSignalTimer
  <1>3. CASE HandlerClearTimer
    BY <1>3 DEF HandlerClearTimer
  <1>4. CASE HandlerCheckIdle
    BY <1>4 DEF HandlerCheckIdle
  <1>5. CASE HandlerSetSignal
    BY <1>5 DEF HandlerSetSignal
  <1>6. CASE HandlerWake
    BY <1>6 DEF HandlerWake, SignalSensorCond, GoWorker, WorkerPcs, InSession,
       Capturing, WantsSample
  <1>7. CASE Swipe
    BY <1>7 DEF Swipe
  <1> QED
    BY <1>1, <1>2, <1>3, <1>4, <1>5, <1>6, <1>7
    DEF HandlerStep

\* Every step of any thread keeps the types: TypeInv is inductive.
LEMMA TypeStep == TypeInv /\ [Next]_vars => TypeInv'
  <1> SUFFICES ASSUME TypeInv, [Next]_vars PROVE TypeInv'
    OBVIOUS
  <1>1. CASE Next
    BY <1>1, TypeCaller, TypeWorker, TypeTimer, TypeHandler DEF Next
  <1>2. CASE UNCHANGED vars
    BY <1>2 DEF vars, callerVars, workerVars, deviceVars, irqVars, timerVars, TypeInv, TypeOK,
       Counting
  <1> QED
    BY <1>1, <1>2

\* The HAL's shared state stays within its types, and every thread at a label of
\* the code, whatever the number of operations, samples, faults and timeouts:
\* vcs_enroll's sample count never runs below zero.
THEOREM TypeCorrect == Spec => []TypeOK
  <1>1. TypeInv => TypeOK
    BY DEF TypeInv
  <1> QED
    BY <1>1, TypeInit, TypeStep, PTL DEF Spec

-----------------------------------------------------------------------------
(* What the proofs of the safety properties need to know of a worker's step. *)

\* Worker i moves alone and, as to tz.state, only ever resets it.
MovesAlone(i) ==
    /\ wpc[i] \notin Ended
    /\ wpc'[i] \in WorkerPcs /\ \A j \in Ops : j # i => wpc'[j] = wpc[j]
    /\ UNCHANGED <<callerVars, kind, timerVars, hpc>>
    /\ state' = state \/ state' = "IDLE"

\* It leaves the live part of the code only through set_tz_state(STATE_IDLE).
LeavesIdle(i) == Live(i) => Live(i)' \/ state' = "IDLE"

\* It comes to pthread_cond_wait only through the tests made under sensor.lock.
EntersWait(i) ==
    /\ wpc'[i] = "waiting" => wpc[i] = "test3" /\ ~sensorSignal'
    /\ wpc'[i] = "test3" => wpc[i] = "test2" /\ state # "CANCEL"
    /\ wpc'[i] = "test2" => state # "IDLE"
    /\ wpc'[i] \in {"waiting", "test2", "test3"} => state' = state
    /\ wpc'[i] \in WorkerLocked => wpc[i] \in WorkerLocked \/ SensorLockFree

\* The one case analysis over a worker's code that the later proofs share: it moves
\* only itself, gives tz.state up by setting it idle, and sleeps on sensor.cond only
\* after it has seen neither a cancellation nor a signal.
LEMMA WorkerShape ==
  ASSUME TypeOK, NEW i \in Ops, WorkerNext(i)
  PROVE  MovesAlone(i) /\ LeavesIdle(i) /\ EntersWait(i)
  <1> USE DEF MovesAlone, LeavesIdle, EntersWait, TypeOK, WorkerPcs, InSession, Capturing,
          Using, Ended, WorkerLocked, Kinds, Live, GoWorker, OutPc, OnlyWorkerMoves, WorkerSets,
          callerVars, deviceVars, irqVars, timerVars
  <1>1. CASE WorkerBegin(i)
    BY <1>1 DEF WorkerBegin
  <1>2. CASE WorkerLoop(i)
    BY <1>2 DEF WorkerLoop
  <1>3. CASE CaptureStart(i)
    BY <1>3 DEF CaptureStart
  <1>4. CASE CaptureStartFails(i)
    BY <1>4 DEF CaptureStartFails
  <1>5. CASE WaitCheckIdle(i)
    BY <1>5 DEF WaitCheckIdle
  <1>6. CASE WaitCheckCancel(i)
    BY <1>6 DEF WaitCheckCancel
  <1>7. CASE WaitCheckSignal(i)
    BY <1>7 DEF WaitCheckSignal
  <1>8. CASE WaitSpuriousWake(i)
    BY <1>8 DEF WaitSpuriousWake
  <1>9. CASE CaptureAbort(i)
    BY <1>9 DEF CaptureAbort
  <1>10. CASE RecheckIdle(i)
    BY <1>10 DEF RecheckIdle
  <1>11. CASE RecheckCancel(i)
    BY <1>11 DEF RecheckCancel
  <1>12. CASE ConsumeSignal(i)
    BY <1>12 DEF ConsumeSignal
  <1>13. CASE ReadCheckIdle(i)
    BY <1>13 DEF ReadCheckIdle
  <1>14. CASE ReadData(i)
    BY <1>14 DEF ReadData
  <1>15. CASE ProcessData(i)
    BY <1>15 DEF ProcessData
  <1>16. CASE AcquiredNotice(i)
    BY <1>16 DEF AcquiredNotice
  <1>17. CASE EnrollAddImage(i)
    BY <1>17 DEF EnrollAddImage
  <1>18. CASE EnrollNotice(i)
    BY <1>18 DEF EnrollNotice
  <1>19. CASE EnrollFinish(i)
    BY <1>19 DEF EnrollFinish
  <1>20. CASE EnrollOut(i)
    BY <1>20 DEF EnrollOut
  <1>21. CASE EnrollFail(i)
    BY <1>21 DEF EnrollFail
  <1>22. CASE EnrollFailNotice(i)
    BY <1>22 DEF EnrollFailNotice
  <1>23. CASE MatchImage(i)
    BY <1>23 DEF MatchImage
  <1>24. CASE MatchFailNotice(i)
    BY <1>24 DEF MatchFailNotice
  <1>25. CASE SensorUninit(i)
    BY <1>25 DEF SensorUninit
  <1>26. CASE VcsUninit(i)
    BY <1>26 DEF VcsUninit
  <1>27. CASE VcsUninitIdle(i)
    BY <1>27 DEF VcsUninitIdle
  <1>28. CASE AuthenticateIdle(i)
    BY <1>28 DEF AuthenticateIdle
  <1>29. CASE AuthenticatedNotice(i)
    BY <1>29 DEF AuthenticatedNotice
  <1> QED
    BY <1>1, <1>2, <1>3, <1>4, <1>5, <1>6, <1>7, <1>8, <1>9, <1>10, <1>11, <1>12, <1>13,
       <1>14, <1>15, <1>16, <1>17, <1>18, <1>19, <1>20, <1>21, <1>22, <1>23, <1>24, <1>25,
       <1>26, <1>27, <1>28, <1>29
    DEF WorkerNext, CaptureStep, ThreadStep, Notice

-----------------------------------------------------------------------------
(* tz.state is busy only on behalf of a live thread. *)

\* A busy tz.state stays backed by a live thread, or by a start that has failed,
\* through every step.
LEMMA BusyStep ==
  ASSUME TypeInv, TypeInv', BusyMeansWorker, [Next]_vars
  PROVE  BusyMeansWorker'
  <1> USE DEF BusyMeansWorker, callerVars, workerVars, timerVars, deviceVars, irqVars
  <1>1. ASSUME NEW i \in Ops, WorkerNext(i) PROVE BusyMeansWorker'
    <2>1. MovesAlone(i) /\ LeavesIdle(i)
      BY <1>1, WorkerShape DEF TypeInv
    <2>2. CASE state' = "IDLE"
      BY <2>2 DEF Kinds
    <2>3. CASE state' # "IDLE"
      <3>1. state' = state /\ (Live(i) => Live(i)') /\ UNCHANGED <<cpc, ckind, nops, kind>>
        BY <2>1, <2>3 DEF MovesAlone, LeavesIdle
      <3>2. nops \in Ops /\ Live(nops) => Live(nops)'
        BY <2>1, <3>1 DEF MovesAlone, Live
      <3>3. StartFailed => StartFailed'
        BY <2>1, <3>1 DEF StartFailed, MovesAlone, Ended, TypeInv, TypeOK
      <3> QED
        BY <3>1, <3>2, <3>3 DEF TypeInv, TypeOK, Live
    <2> QED
      BY <2>2, <2>3
  <1>2. CASE SpawnWorker /\ wpc' = wpc
    <2>1. /\ nops \in Ops /\ UNCHANGED nops /\ cpc = "spawn" /\ cpc' = "ready"
          /\ "start" \in Faults /\ wpc[nops] = "none"
      <3>1. nops \in Ops /\ cpc = "spawn" /\ wpc[nops] = "none"
        BY <1>2 DEF SpawnWorker, TypeInv, TypeOK, Counting, Claimed
      <3> QED
        BY <1>2, <3>1 DEF SpawnWorker, GoWorker, Returned, TypeInv, TypeOK
    <2> QED
      BY <1>2, <2>1 DEF StartFailed, Claimed
  <1>3. CASE SpawnWorker /\ wpc' # wpc
    <2>1. nops \in Ops /\ UNCHANGED <<state, nops>> /\ cpc = "spawn"
      BY <1>3 DEF SpawnWorker, TypeInv, TypeOK, Counting, Claimed
    <2>2. wpc'[nops] = "begin" /\ kind'[nops] = ckind
      BY <1>3, <2>1 DEF SpawnWorker, GoWorker, TypeInv, TypeOK
    <2>3. Live(nops)'
      BY <2>1, <2>2 DEF Live, InSession
    <2>4. CASE cpc \in Claimed /\ state = ckind
      BY <2>1, <2>2, <2>3, <2>4
    <2>5. CASE nops # 0 /\ Live(nops) /\ kind[nops] = state
      <3>1. wpc[nops] = "none"
        BY <2>1 DEF TypeInv, Counting, Claimed
      <3> QED
        BY <2>5, <3>1 DEF Live, InSession, Capturing, Using, WorkerLocked
    <2>6. ~StartFailed
      BY <2>1 DEF StartFailed, Claimed
    <2> QED
      BY <2>1, <2>4, <2>5, <2>6
  <1>4. CASE CancelWake \/ HandlerWake
    <2>1. \A j \in Ops : wpc'[j] = wpc[j] \/ (wpc[j] = "waiting" /\ wpc'[j] = "wait")
      BY <1>4 DEF CancelWake, HandlerWake, SignalSensorCond, GoWorker, TypeInv, TypeOK
    <2>2. \A j \in Ops : Live(j) => Live(j)'
      BY <2>1 DEF Live, InSession, Capturing
    <2>3. UNCHANGED <<state, nops, kind, ckind>> /\ (cpc \in Claimed => cpc' = cpc)
      BY <1>4 DEF CancelWake, HandlerWake, Claimed, GoCaller
    <2>4. StartFailed => StartFailed'
      BY <1>4, <2>1, <2>3 DEF StartFailed, CancelWake, HandlerWake, Claimed, GoCaller, TypeInv,
         TypeOK
    <2> QED
      BY <2>2, <2>3, <2>4 DEF TypeInv, TypeOK
  <1>5. CASE CallerNext /\ ~SpawnWorker /\ ~CancelWake
    BY <1>5 DEF CallerNext, StartCall, CancelCall, Authenticate, Enroll, MayStart, PollState,
       ClaimState, SensorInit, VcsInit, SpawnTimer, Cancel, CancelSignalTimer, CancelJoin,
       CancelJoined, CancelCheckIdle, CancelCheckCancel, CancelSet, CancelDisarm, CancelAwait,
       CancelNotify, OnlyCallerMoves, GoCaller, Returned, Claimed, Kinds, Live, StartFailed,
       TypeInv, TypeOK, Counting
  <1>6. ASSUME NEW i \in Ops, TimerNext(i) PROVE BusyMeansWorker'
    BY <1>6 DEF TimerNext, TimerStep, TimerWait, TimerSpuriousWake, TimerExpire, TimerCheck,
       TimerCancel, TimerDisarm, TimerAwait, TimerNotify, TimerGoes, Kinds, Live,
       StartFailed
  <1>7. CASE (HandlerStep \/ Swipe) /\ ~HandlerWake
    BY <1>7 DEF HandlerStep, HandlerEnter, HandlerSignalTimer, HandlerClearTimer,
       HandlerCheckIdle, HandlerSetSignal, Swipe, Live, StartFailed
  <1>8. CASE UNCHANGED vars
    BY <1>8 DEF vars, Live, StartFailed
  <1> QED
    BY <1>1, <1>2, <1>3, <1>4, <1>5, <1>6, <1>7, <1>8 DEF Next

\* A HAL that reports itself busy (tz.state is ENROLL or SCAN) has a live thread of
\* that kind, or a call about to create it, however calls, signals, timeouts and
\* command errors interleave; only an operation whose start has failed leaves it
\* busy without one.
THEOREM BusyIsBacked == Spec => []BusyMeansWorker
  <1>1. Init => BusyMeansWorker
    BY DEF Init, BusyMeansWorker, Kinds
  <1>2. TypeInv /\ TypeInv' /\ BusyMeansWorker /\ [Next]_vars => BusyMeansWorker'
    BY BusyStep
  <1> QED
    BY <1>1, <1>2, TypeInit, TypeStep, PTL DEF Spec

-----------------------------------------------------------------------------
(* No lost wake-up. *)

\* One session at a time: the framework waits for the previous thread.
OneSession ==
    /\ \A i, j \in Ops : wpc[i] \notin Ended /\ wpc[j] \notin Ended => i = j
    /\ cpc \in CallerLocked \ {"spawnTimer"} => \A i \in Ops : wpc[i] \in Ended

\* sensor.lock excludes, and what a worker has read under it is still true, or
\* the canceller that made it false has yet to take the lock and signal, or is a
\* timer that never does.
Watching ==
    /\ hpc \in {"lock2", "wake"} => \A i \in Ops : wpc[i] \notin WorkerLocked
    /\ \A i \in Ops : wpc[i] \in {"test2", "test3", "waiting"} => state # "IDLE"
    /\ \A i \in Ops : wpc[i] = "test3" =>
           state \in Kinds \/ cpc \in {"cDisarm", "cWake"} \/ TimedOut

\* The timer of an operation is created once, after its thread.
NewTimers ==
    \A i \in Ops : i > nops \/ (i = nops /\ cpc \in Claimed \cup {"spawnTimer"}) =>
        tpc[i] = "none"

WakeInv == NewTimers /\ OneSession /\ Watching /\ NoLostWakeup

\* Only vcs_timeout itself leaves its polling loop, and an operation's timer is new.
LEMMA TimersStay ==
  ASSUME TypeInv, NewTimers, CallerNext \/ HandlerStep \/ Swipe
  PROVE  NewTimers' /\ (TimedOut => TimedOut')
  <1> USE DEF TypeInv, TypeOK, Counting, callerVars, workerVars, timerVars, deviceVars, irqVars,
          GoCaller, Returned, OnlyCallerMoves
  <1>1. CASE SpawnTimer
    <2>1. nops \in Ops /\ tpc[nops] = "none" /\ UNCHANGED nops /\ cpc' = "ready"
      BY <1>1 DEF SpawnTimer, NewTimers, Claimed
    <2>2. \A i \in Ops : i # nops => tpc'[i] = tpc[i]
      BY <1>1 DEF SpawnTimer, GoTimer
    <2>3. NewTimers'
      <3> SUFFICES ASSUME NEW i \in Ops, i > nops PROVE tpc'[i] = "none"
        BY <2>1 DEF NewTimers, Claimed
      <3>1. i # nops /\ tpc[i] = "none"
        BY DEF NewTimers
      <3> QED
        BY <2>2, <3>1
    <2>4. TimedOut => TimedOut'
      BY <2>1, <2>2 DEF TimedOut
    <2> QED
      BY <2>3, <2>4
  <1>2. CASE CancelSignalTimer \/ HandlerSignalTimer
    <2>1. UNCHANGED nops /\ (cpc' = cpc \/ cpc' = "cJoin")
      BY <1>2 DEF CancelSignalTimer, HandlerSignalTimer
    <2>2. \A i \in Ops : tpc'[i] = tpc[i] \/ tpc[i] = "waiting"
      BY <1>2 DEF CancelSignalTimer, HandlerSignalTimer, SignalTimeoutCond, GoTimer
    <2> QED
      BY <2>1, <2>2 DEF NewTimers, TimedOut, Claimed
  <1>3. CASE CallerNext /\ ~SpawnTimer /\ ~CancelSignalTimer
    <2>1. UNCHANGED tpc
      BY <1>3 DEF CallerNext, StartCall, CancelCall, Authenticate, Enroll, PollState,
         ClaimState, SensorInit, VcsInit, SpawnWorker, Cancel, CancelJoin, CancelJoined,
         CancelCheckIdle, CancelCheckCancel, CancelSet, CancelDisarm, CancelWake, CancelAwait,
         CancelNotify
    <2>2. NewTimers'
      BY <1>3, <2>1 DEF CallerNext, StartCall, CancelCall, Authenticate, Enroll, PollState,
         ClaimState, SensorInit, VcsInit, SpawnWorker, Cancel, CancelJoin, CancelJoined,
         CancelCheckIdle, CancelCheckCancel, CancelSet, CancelDisarm, CancelWake, CancelAwait,
         CancelNotify, NewTimers, Claimed
    <2> QED
      BY <2>1, <2>2 DEF TimedOut
  <1>4. CASE (HandlerStep \/ Swipe) /\ ~HandlerSignalTimer
    BY <1>4 DEF HandlerStep, HandlerEnter, HandlerClearTimer, HandlerCheckIdle,
       HandlerSetSignal, HandlerWake, Swipe, NewTimers, TimedOut
  <1> QED
    BY <1>1, <1>2, <1>3, <1>4

\* pthread_cond_signal(&sensor.cond) leaves nobody asleep: there is one session.
LEMMA SignalWakes ==
  ASSUME TypeInv, OneSession, SignalSensorCond
  PROVE  /\ \A i \in Ops : wpc'[i] # "waiting"
         /\ \A i \in Ops : wpc'[i] = wpc[i] \/ (wpc[i] = "waiting" /\ wpc'[i] = "wait")
  <1>1. CASE \E i \in Ops : wpc[i] = "waiting"
    <2>1. PICK i \in Ops : wpc[i] = "waiting" /\ wpc' = [wpc EXCEPT ![i] = "wait"]
      BY <1>1 DEF SignalSensorCond, GoWorker
    <2>2. \A j \in Ops : wpc[j] = "waiting" => j = i
      BY <2>1 DEF OneSession, Ended
    <2> QED
      BY <2>1, <2>2 DEF TypeInv, TypeOK
  <1>2. CASE ~ \E i \in Ops : wpc[i] = "waiting"
    BY <1>2 DEF SignalSensorCond
  <1> QED
    BY <1>1, <1>2

\* The worker itself never goes to sleep on an event that has come already.
LEMMA WakeWorker ==
  ASSUME TypeInv, WakeInv, NEW i \in Ops, WorkerNext(i)
  PROVE  NewTimers' /\ OneSession' /\ Watching' /\ NoLostWakeup'
  <1> USE DEF WakeInv, callerVars
  <1>1. MovesAlone(i) /\ EntersWait(i)
    BY WorkerShape DEF TypeInv
  <1>2. NewTimers' /\ (TimedOut' <=> TimedOut)
    BY <1>1 DEF MovesAlone, timerVars, NewTimers, TimedOut
  <1>3. \A j \in Ops : j # i => wpc[j] \in Ended /\ wpc'[j] \in Ended
    BY <1>1 DEF OneSession, MovesAlone
  <1>4. OneSession'
    BY <1>1, <1>3 DEF OneSession, MovesAlone
  <1>5. Watching'
    BY <1>1, <1>2, <1>3 DEF Watching, MovesAlone, EntersWait, Ended, WorkerLocked, SensorLockFree,
       TypeInv, TypeOK, WorkerStates, Kinds
  <1>6. NoLostWakeup'
    BY <1>1, <1>2, <1>3 DEF Watching, NoLostWakeup, MovesAlone, EntersWait, Ended
  <1> QED
    BY <1>2, <1>4, <1>5, <1>6

\* fingerprint_cancel sets STATE_CANCEL only on its way to signalling sensor.cond.
LEMMA WakeCaller ==
  ASSUME Settled, TypeInv, WakeInv, CallerNext
  PROVE  NewTimers' /\ OneSession' /\ Watching' /\ NoLostWakeup'
  <1> USE DEF WakeInv, callerVars, workerVars, deviceVars, irqVars, timerVars, GoCaller,
          Returned, OnlyCallerMoves
  <1>0. NewTimers' /\ (TimedOut => TimedOut')
    BY TimersStay
  <1>1. CASE Authenticate \/ Enroll
    <2>1. UNCHANGED <<state, irqVars, wpc, hpc>> /\ (\A i \in Ops : wpc[i] \in Ended)
      BY <1>1 DEF Authenticate, Enroll, MayStart
    <2> QED
      BY <1>0, <2>1 DEF OneSession, Watching, NoLostWakeup, Ended, WorkerLocked
  <1>2. CASE ClaimState
    <2>1. UNCHANGED <<irqVars, wpc, hpc>> /\ (\A i \in Ops : wpc[i] \in Ended)
      BY <1>2 DEF ClaimState, OneSession, CallerLocked
    <2> QED
      BY <1>0, <2>1 DEF OneSession, Watching, NoLostWakeup, Ended, WorkerLocked
  <1>3. CASE SpawnWorker
    <2>1. UNCHANGED <<state, irqVars, hpc>> /\ (\A i \in Ops : wpc[i] \in Ended)
      BY <1>3 DEF SpawnWorker, OneSession, CallerLocked, Claimed
    <2>2. \A i \in Ops : wpc'[i] = wpc[i] \/ (i = nops /\ wpc'[i] = "begin")
      BY <1>3 DEF SpawnWorker, GoWorker, TypeInv, TypeOK
    <2>3. cpc' \in {"spawnTimer", "ready"}
      BY <1>3 DEF SpawnWorker
    <2>4. OneSession'
      BY <2>1, <2>2, <2>3 DEF OneSession, Ended, CallerLocked, Claimed
    <2> QED
      BY <1>0, <2>1, <2>2, <2>4 DEF Watching, NoLostWakeup, Ended, WorkerLocked
  <1>4. CASE CancelWake
    <2>1. UNCHANGED <<state, irqVars, hpc>> /\ cpc' = "cAwait" /\ SensorLockFree
      BY <1>4 DEF CancelWake
    <2>2. /\ \A i \in Ops : wpc'[i] # "waiting"
          /\ \A i \in Ops : wpc'[i] = wpc[i] \/ (wpc[i] = "waiting" /\ wpc'[i] = "wait")
      BY <1>4, SignalWakes DEF CancelWake
    <2>3. OneSession'
      BY <2>1, <2>2 DEF OneSession, Ended, CallerLocked, Claimed
    <2> QED
      BY <1>0, <2>1, <2>2, <2>3 DEF Watching, NoLostWakeup, WorkerLocked, SensorLockFree
  <1>5. CASE CancelSet \/ CancelDisarm
    BY <1>0, <1>5 DEF CancelSet, CancelDisarm, OneSession, Watching, NoLostWakeup, CallerLocked,
       Claimed
  <1>6. CASE PollState \/ SensorInit \/ VcsInit \/ SpawnTimer
    BY <1>0, <1>6 DEF PollState, SensorInit, VcsInit, SpawnTimer, OneSession, Watching, NoLostWakeup,
       CallerLocked, Claimed
  <1>7. CASE \/ Cancel \/ CancelSignalTimer \/ CancelJoin \/ CancelJoined \/ CancelCheckIdle
             \/ CancelCheckCancel \/ CancelAwait \/ CancelNotify
    BY <1>0, <1>7 DEF Cancel, CancelSignalTimer, CancelJoin, CancelJoined, CancelCheckIdle,
       CancelCheckCancel, CancelAwait, CancelNotify, OneSession, Watching, NoLostWakeup,
       CallerLocked, Claimed
  <1> QED
    BY <1>1, <1>2, <1>3, <1>4, <1>5, <1>6, <1>7 DEF CallerNext, StartCall, CancelCall

\* sensor_process_signal sets sensor.signal only on its way to signalling sensor.cond.
LEMMA WakeHandler ==
  ASSUME TypeInv, WakeInv, HandlerStep \/ Swipe
  PROVE  NewTimers' /\ OneSession' /\ Watching' /\ NoLostWakeup'
  <1> USE DEF WakeInv, callerVars, workerVars, deviceVars, irqVars, timerVars
  <1>0. NewTimers' /\ (TimedOut => TimedOut')
    BY TimersStay
  <1>1. CASE HandlerWake
    <2>1. UNCHANGED <<state, cpc, sensorSignal>> /\ hpc' = "idle"
      BY <1>1 DEF HandlerWake
    <2>2. /\ \A i \in Ops : wpc'[i] # "waiting"
          /\ \A i \in Ops : wpc'[i] = wpc[i] \/ (wpc[i] = "waiting" /\ wpc'[i] = "wait")
      BY <1>1, SignalWakes DEF HandlerWake
    <2>3. OneSession'
      BY <2>1, <2>2 DEF OneSession, Ended
    <2> QED
      BY <1>0, <2>1, <2>2, <2>3 DEF Watching, NoLostWakeup
  <1>2. CASE HandlerCheckIdle
    BY <1>0, <1>2 DEF HandlerCheckIdle, OneSession, Watching, NoLostWakeup, SensorLockFree
  <1>3. CASE HandlerSetSignal
    BY <1>0, <1>3 DEF HandlerSetSignal, OneSession, Watching, NoLostWakeup
  <1>4. CASE HandlerEnter \/ HandlerSignalTimer \/ HandlerClearTimer \/ Swipe
    BY <1>0, <1>4 DEF HandlerEnter, HandlerSignalTimer, HandlerClearTimer, Swipe, OneSession, Watching,
       NoLostWakeup
  <1> QED
    BY <1>1, <1>2, <1>3, <1>4 DEF HandlerStep

\* vcs_timeout sets STATE_CANCEL and polls until the worker has seen it: it may leave
\* the worker asleep, but not without staying there itself.
LEMMA WakeTimer ==
  ASSUME TypeInv, WakeInv, NEW i \in Ops, TimerNext(i)
  PROVE  WakeInv'
  <1> USE DEF WakeInv, TypeInv, TypeOK, TimerGoes, GoTimer, callerVars, workerVars, irqVars
  <1>1. UNCHANGED <<callerVars, workerVars, sensorSignal, hpc>>
    BY DEF TimerNext, TimerStep, TimerWait, TimerSpuriousWake, TimerExpire, TimerCheck,
       TimerCancel, TimerDisarm, TimerAwait, TimerNotify
  <1>2. tpc[i] # "none" /\ (\A j \in Ops : j # i => tpc'[j] = tpc[j])
    BY DEF TimerNext, TimerStep, TimerWait, TimerSpuriousWake, TimerExpire, TimerCheck,
       TimerCancel, TimerDisarm, TimerAwait, TimerNotify
  <1>3. NewTimers' /\ OneSession'
    BY <1>1, <1>2 DEF NewTimers, OneSession
  <1>4. CASE TimerCancel(i)
    <2>1. TimedOut' /\ state' = "CANCEL"
      BY <1>4 DEF TimerCancel, TimedOut
    <2> QED
      BY <1>1, <1>3, <2>1 DEF Watching, NoLostWakeup
  <1>5. CASE TimerAwait(i)
    <2>1. UNCHANGED state /\ (\A j \in Ops : wpc[j] \notin {"test3", "waiting"})
      BY <1>5 DEF TimerAwait, Watching
    <2> QED
      BY <1>1, <1>3, <2>1 DEF Watching, NoLostWakeup
  <1>6. CASE ~TimerCancel(i) /\ ~TimerAwait(i)
    <2>1. UNCHANGED state /\ (TimedOut => TimedOut')
      BY <1>2, <1>6 DEF TimerNext, TimerStep, TimerWait, TimerSpuriousWake, TimerExpire,
         TimerCheck, TimerDisarm, TimerNotify, TimedOut
    <2> QED
      BY <1>1, <1>3, <2>1 DEF Watching, NoLostWakeup
  <1> QED
    BY <1>4, <1>5, <1>6

\* WakeInv, the strengthening of NoLostWakeup, is inductive.
LEMMA WakeStep ==
  ASSUME Settled, TypeInv, WakeInv, [Next]_vars
  PROVE  WakeInv'
  <1>1. ASSUME NEW i \in Ops, TimerNext(i) PROVE WakeInv'
    BY <1>1, WakeTimer
  <1>2. CASE UNCHANGED vars
    BY <1>2 DEF vars, callerVars, irqVars, workerVars, timerVars, WakeInv, NewTimers, TimedOut,
       OneSession, Watching, NoLostWakeup
  <1>3. CASE Next
    BY <1>1, <1>3, WakeWorker, WakeCaller, WakeHandler DEF Next, WakeInv
  <1> QED
    BY <1>2, <1>3

\* With the previous thread gone before the next operation starts, no wake-up of the
\* capture loop is lost: a worker that sleeps on sensor.cond will be signalled for
\* any cancellation or touch it has not seen, unless it is a timeout's.
THEOREM WakeupsAreNotLost ==
  ASSUME Settled
  PROVE  Spec => []NoLostWakeup
  <1>1. Init => WakeInv
    BY DEF Init, WakeInv, NewTimers, OneSession, Watching, NoLostWakeup, Ended, CallerLocked,
       Claimed, WorkerLocked
  <1>2. TypeInv /\ WakeInv /\ [Next]_vars => WakeInv'
    BY WakeStep
  <1>3. WakeInv => NoLostWakeup
    BY DEF WakeInv
  <1> QED
    BY <1>1, <1>2, <1>3, TypeInit, TypeStep, PTL DEF Spec

-----------------------------------------------------------------------------
(* Claims only from idle. *)

\* A timeout that does not run out keeps vcs_timeout away from tz.state.
QuietTimers == \A i \in Ops : tpc[i] \in {"none", "start", "waiting", "done"}

\* A timer that cannot run out never gets past its wait in vcs_timeout.
LEMMA QuietStep ==
  ASSUME Timeouts # "short", TypeInv, QuietTimers, [Next]_vars
  PROVE  QuietTimers'
  <1> USE DEF QuietTimers, TypeInv, TypeOK, callerVars, workerVars, timerVars, deviceVars,
          irqVars, GoTimer
  <1>1. ASSUME NEW i \in Ops, WorkerNext(i) PROVE QuietTimers'
    BY <1>1, WorkerShape DEF MovesAlone
  <1>2. CASE CallerNext
    BY <1>2 DEF CallerNext, StartCall, CancelCall, Authenticate, Enroll, PollState,
       ClaimState, SensorInit, VcsInit, SpawnWorker, SpawnTimer, Cancel, CancelSignalTimer,
       CancelJoin, CancelJoined, CancelCheckIdle, CancelCheckCancel, CancelSet, CancelDisarm,
       CancelWake, CancelAwait, CancelNotify, OnlyCallerMoves, SignalTimeoutCond
  <1>3. ASSUME NEW i \in Ops, TimerNext(i) PROVE QuietTimers'
    BY <1>3 DEF TimerNext, TimerStep, TimerWait, TimerSpuriousWake, TimerExpire, TimerCheck,
       TimerCancel, TimerDisarm, TimerAwait, TimerNotify, TimerGoes
  <1>4. CASE HandlerStep \/ Swipe
    BY <1>4 DEF HandlerStep, HandlerEnter, HandlerSignalTimer, HandlerClearTimer,
       HandlerCheckIdle, HandlerSetSignal, HandlerWake, Swipe, SignalTimeoutCond
  <1>5. CASE UNCHANGED vars
    BY <1>5 DEF vars
  <1> QED
    BY <1>1, <1>2, <1>3, <1>4, <1>5 DEF Next

\* Such a timer touches nothing but itself.
LEMMA QuietTimerStep ==
  ASSUME QuietTimers, Timeouts # "short", NEW i \in Ops, TimerNext(i)
  PROVE  UNCHANGED <<state, irqVars, callerVars, workerVars, hpc>>
  BY DEF QuietTimers, TimerNext, TimerStep, TimerWait, TimerSpuriousWake, TimerExpire,
     TimerCheck, TimerCancel, TimerDisarm, TimerAwait, TimerNotify, TimerGoes

\* The worker captures, or may come to it again, with no cancellation of its own under way.
Captures(i) == wpc[i] \in InSession /\ wpc[i] # "recheck1"

\* A worker that finds tz.state idle, or sets it idle, has captured for the last time.
LEMMA WorkerStops ==
  ASSUME TypeOK, NEW i \in Ops, WorkerNext(i), state' = "IDLE", state = "IDLE" => ~Captures(i)
  PROVE  ~Captures(i)'
  <1> USE DEF Captures, TypeOK, WorkerPcs, InSession, Capturing, Using, WorkerLocked, Kinds,
          GoWorker, OutPc, OnlyWorkerMoves, WorkerSets
  <1>1. CASE RecheckIdle(i)
    BY <1>1 DEF RecheckIdle
  <1>2. CASE CaptureAbort(i)
    BY <1>2 DEF CaptureAbort
  <1>3. CASE EnrollOut(i) \/ EnrollFail(i) \/ VcsUninitIdle(i) \/ AuthenticateIdle(i)
    BY <1>3 DEF EnrollOut, EnrollFail, VcsUninitIdle, AuthenticateIdle
  <1>4. CASE SensorUninit(i) \/ VcsUninit(i)
    BY <1>4 DEF SensorUninit, VcsUninit
  <1>5. CASE EnrollFailNotice(i) \/ AuthenticatedNotice(i)
    BY <1>5 DEF EnrollFailNotice, AuthenticatedNotice
  <1>6. CASE \/ WorkerBegin(i) \/ WorkerLoop(i) \/ CaptureStart(i) \/ CaptureStartFails(i)
             \/ WaitCheckIdle(i) \/ WaitCheckCancel(i) \/ WaitCheckSignal(i)
             \/ WaitSpuriousWake(i)
    BY <1>6 DEF WorkerBegin, WorkerLoop, CaptureStart, CaptureStartFails, WaitCheckIdle,
       WaitCheckCancel, WaitCheckSignal, WaitSpuriousWake
  <1>7. CASE \/ RecheckCancel(i) \/ ConsumeSignal(i) \/ ReadCheckIdle(i) \/ ReadData(i)
             \/ ProcessData(i) \/ AcquiredNotice(i)
    BY <1>7 DEF RecheckCancel, ConsumeSignal, ReadCheckIdle, ReadData, ProcessData,
       AcquiredNotice
  <1>8. CASE \/ EnrollAddImage(i) \/ EnrollNotice(i) \/ EnrollFinish(i)
             \/ MatchImage(i) \/ MatchFailNotice(i)
    BY <1>8 DEF EnrollAddImage, EnrollNotice, EnrollFinish, MatchImage, MatchFailNotice
  <1> QED
    BY <1>1, <1>2, <1>3, <1>4, <1>5, <1>6, <1>7, <1>8
    DEF WorkerNext, CaptureStep, ThreadStep, Notice

\* A claim finds what its busy check has read, the first operation keeps tz.state until it
\* has its thread, and that thread captures only while tz.state is not idle.
FirstInv ==
    /\ cpc = "claim" => state = "IDLE"
    /\ nops = 1 /\ cpc \in Claimed => state # "IDLE"
    /\ nops = 1 /\ state = "IDLE" => ~Captures(1)

\* FirstInv is kept by every step.
LEMMA FirstStep ==
  ASSUME Timeouts # "short", TypeInv, QuietTimers, FirstInv, [Next]_vars
  PROVE  FirstInv'
  <1> USE DEF FirstInv, callerVars, workerVars, deviceVars, irqVars, timerVars
  <1>0. \A i \in Ops : i \in Nat /\ i # 0
    BY DEF Ops
  <1>1. ASSUME NEW i \in Ops, WorkerNext(i) PROVE FirstInv'
    <2>1. /\ UNCHANGED <<cpc, nops>> /\ (state' = state \/ state' = "IDLE")
          /\ wpc[i] # "none" /\ \A j \in Ops : j # i => wpc'[j] = wpc[j]
      BY <1>1, WorkerShape DEF TypeInv, MovesAlone, Ended
    <2>2. nops = 1 => i = 1 /\ cpc \notin Claimed
      BY <1>0, <2>1 DEF TypeInv, Counting
    <2>3. nops = 1 /\ state' = "IDLE" => ~Captures(1)'
      BY <1>1, <2>2, WorkerStops DEF TypeInv
    <2> QED
      BY <2>1, <2>2, <2>3
  <1>2. ASSUME NEW i \in Ops, TimerNext(i) PROVE FirstInv'
    BY <1>2, QuietTimerStep DEF Captures
  <1>3. CASE HandlerStep \/ Swipe \/ CancelWake
    <2>1. UNCHANGED <<state, nops>> /\ (cpc' = cpc \/ cpc' = "cAwait")
      BY <1>3 DEF HandlerStep, HandlerEnter, HandlerSignalTimer, HandlerClearTimer,
         HandlerCheckIdle, HandlerSetSignal, HandlerWake, Swipe, CancelWake, GoCaller
    <2>2. \A j \in Ops : wpc'[j] = wpc[j] \/ (wpc[j] = "waiting" /\ wpc'[j] = "wait")
      BY <1>3 DEF HandlerStep, HandlerEnter, HandlerSignalTimer, HandlerClearTimer,
         HandlerCheckIdle, HandlerSetSignal, HandlerWake, Swipe, CancelWake, SignalSensorCond,
         GoWorker, TypeInv, TypeOK
    <2>3. nops = 1 => 1 \in Ops
      BY DEF TypeInv, TypeOK, Ops
    <2>4. nops = 1 /\ Captures(1)' => Captures(1)
      BY <2>2, <2>3 DEF Captures, InSession, Capturing
    <2> QED
      BY <2>1, <2>4 DEF Claimed
  <1>4. CASE ClaimState
    <2>1. state' \in Kinds /\ cpc' = "power"
      BY <1>4 DEF ClaimState, GoCaller, TypeInv, TypeOK
    <2> QED
      BY <2>1 DEF Kinds
  <1>5. CASE SpawnWorker
    <2>1. UNCHANGED <<state, nops>> /\ cpc = "spawn" /\ cpc' \in {"ready", "spawnTimer"}
      BY <1>5 DEF SpawnWorker, GoCaller, Returned
    <2> QED
      BY <2>1 DEF Claimed
  <1>6. CASE CallerNext /\ ~CancelWake /\ ~ClaimState /\ ~SpawnWorker
    BY <1>6 DEF CallerNext, StartCall, CancelCall, Authenticate, Enroll, PollState,
       SensorInit, VcsInit, SpawnTimer, Cancel, CancelSignalTimer,
       CancelJoin, CancelJoined, CancelCheckIdle, CancelCheckCancel, CancelSet, CancelDisarm,
       CancelAwait, CancelNotify, OnlyCallerMoves, GoCaller, Returned, Captures, Claimed
  <1>7. CASE UNCHANGED vars
    BY <1>7 DEF vars, Captures
  <1> QED
    BY <1>1, <1>2, <1>3, <1>4, <1>5, <1>6, <1>7 DEF Next

\* The second operation finds the thread of the first done with the sensor, however calls,
\* cancellations, signals and command errors interleave; only a thread whose cancellation was
\* seen in the waiting loop may still be before its second look at tz.state.
THEOREM SecondStartsAfterCapture ==
  ASSUME Timeouts # "short"
  PROVE  Spec => StartsAfterCapture
  <1>1. Init => FirstInv /\ QuietTimers
    BY DEF Init, FirstInv, QuietTimers
  <1>2. TypeInv /\ QuietTimers /\ FirstInv /\ [Next]_vars => QuietTimers' /\ FirstInv'
    BY QuietStep, FirstStep
  <1>3. ASSUME TypeInv, FirstInv, cpc = "claim", nops <= 1, NEW i \in Ops, wpc[i] \in InSession
        PROVE  wpc[i] = "recheck1"
    <2>1. wpc[i] # "none"
      BY <1>3 DEF InSession, Capturing, Using, WorkerLocked
    <2>2. i = 1 /\ nops = 1
      BY <1>3, <2>1 DEF TypeInv, TypeOK, Counting, Ops
    <2> QED
      BY <1>3, <2>2 DEF FirstInv, Captures
  <1>4. TypeInv /\ FirstInv =>
           (cpc = "claim" /\ cpc' # "claim" /\ nops <= 1 =>
               \A i \in Ops : wpc[i] \in InSession => wpc[i] = "recheck1")
    BY <1>3
  <1> QED
    BY <1>1, <1>2, <1>4, TypeInit, TypeStep, PTL DEF Spec, StartsAfterCapture

-----------------------------------------------------------------------------
(* The session's thread owns the sensor and the trusted application. *)

\* Where worker i is in its tail tells what it has switched off; without command
\* errors it never takes the early returns that skip the tail.
TailOf(i) ==
    /\ wpc[i] \in InSession \cup {"out", "off"} => sensorInit /\ tzInit
    /\ wpc[i] = "shutdown" => ~sensorInit
    /\ wpc[i] \in {"idle", "idle2", "notify", "notify2"} => ~sensorInit /\ ~tzInit
    /\ wpc[i] \notin {"fail", "failNotice", "unable"}

DeviceInv ==
    /\ OneSession
    /\ \A i \in Ops : TailOf(i)
    /\ cpc = "boot" => sensorInit
    /\ cpc = "spawn" => sensorInit /\ tzInit
    /\ cpc \notin {"boot", "spawn"} /\ (\A i \in Ops : wpc[i] \in Ended)
          => ~sensorInit /\ ~tzInit

\* A worker leaves its session through sensor_uninit and vcs_uninit, in this order.
LEMMA TailShape ==
  ASSUME Faults = {}, TypeOK, NEW i \in Ops, TailOf(i), WorkerNext(i)
  PROVE  TailOf(i)' /\ (wpc'[i] \in Ended => ~sensorInit' /\ ~tzInit')
  <1> USE DEF TailOf, TypeOK, WorkerPcs, InSession, Capturing, Using, Ended, WorkerLocked, Kinds,
          GoWorker, OutPc, OnlyWorkerMoves, WorkerSets, callerVars, deviceVars, irqVars, timerVars
  <1>1. CASE WorkerBegin(i)
    BY <1>1 DEF WorkerBegin
  <1>2. CASE WorkerLoop(i)
    BY <1>2 DEF WorkerLoop
  <1>3. CASE CaptureStart(i)
    BY <1>3 DEF CaptureStart
  <1>4. CASE CaptureStartFails(i)
    BY <1>4 DEF CaptureStartFails
  <1>5. CASE WaitCheckIdle(i)
    BY <1>5 DEF WaitCheckIdle
  <1>6. CASE WaitCheckCancel(i)
    BY <1>6 DEF WaitCheckCancel
  <1>7. CASE WaitCheckSignal(i)
    BY <1>7 DEF WaitCheckSignal
  <1>8. CASE WaitSpuriousWake(i)
    BY <1>8 DEF WaitSpuriousWake
  <1>9. CASE CaptureAbort(i)
    BY <1>9 DEF CaptureAbort
  <1>10. CASE RecheckIdle(i)
    BY <1>10 DEF RecheckIdle
  <1>11. CASE RecheckCancel(i)
    BY <1>11 DEF RecheckCancel
  <1>12. CASE ConsumeSignal(i)
    BY <1>12 DEF ConsumeSignal
  <1>13. CASE ReadCheckIdle(i)
    BY <1>13 DEF ReadCheckIdle
  <1>14. CASE ReadData(i)
    BY <1>14 DEF ReadData
  <1>15. CASE ProcessData(i)
    BY <1>15 DEF ProcessData
  <1>16. CASE AcquiredNotice(i)
    BY <1>16 DEF AcquiredNotice
  <1>17. CASE EnrollAddImage(i)
    BY <1>17 DEF EnrollAddImage
  <1>18. CASE EnrollNotice(i)
    BY <1>18 DEF EnrollNotice
  <1>19. CASE EnrollFinish(i)
    BY <1>19 DEF EnrollFinish
  <1>20. CASE EnrollOut(i)
    BY <1>20 DEF EnrollOut
  <1>21. CASE EnrollFail(i)
    BY <1>21 DEF EnrollFail
  <1>22. CASE EnrollFailNotice(i)
    BY <1>22 DEF EnrollFailNotice
  <1>23. CASE MatchImage(i)
    BY <1>23 DEF MatchImage
  <1>24. CASE MatchFailNotice(i)
    BY <1>24 DEF MatchFailNotice
  <1>25. CASE SensorUninit(i)
    BY <1>25 DEF SensorUninit
  <1>26. CASE VcsUninit(i)
    BY <1>26 DEF VcsUninit
  <1>27. CASE VcsUninitIdle(i)
    BY <1>27 DEF VcsUninitIdle
  <1>28. CASE AuthenticateIdle(i)
    BY <1>28 DEF AuthenticateIdle
  <1>29. CASE AuthenticatedNotice(i)
    BY <1>29 DEF AuthenticatedNotice
  <1> QED
    BY <1>1, <1>2, <1>3, <1>4, <1>5, <1>6, <1>7, <1>8, <1>9, <1>10, <1>11, <1>12, <1>13,
       <1>14, <1>15, <1>16, <1>17, <1>18, <1>19, <1>20, <1>21, <1>22, <1>23, <1>24, <1>25,
       <1>26, <1>27, <1>28, <1>29
    DEF WorkerNext, CaptureStep, ThreadStep, Notice

\* The worker's steps keep sensor and application on until it is on its way out.
LEMMA DeviceWorker ==
  ASSUME Faults = {}, TypeInv, DeviceInv, NEW i \in Ops, WorkerNext(i)
  PROVE  DeviceInv'
  <1>1. MovesAlone(i)
    BY WorkerShape DEF TypeInv
  <1>2. TailOf(i)' /\ (wpc'[i] \in Ended => ~sensorInit' /\ ~tzInit')
    BY TailShape DEF DeviceInv, TypeInv
  <1>3. \A j \in Ops : j # i => wpc[j] \in Ended /\ wpc'[j] \in Ended
    BY <1>1 DEF DeviceInv, OneSession, MovesAlone
  <1>4. OneSession'
    BY <1>1, <1>3 DEF DeviceInv, OneSession, MovesAlone, callerVars
  <1>5. \A j \in Ops : TailOf(j)'
    BY <1>2, <1>3 DEF TailOf, Ended, InSession, Capturing, Using, WorkerLocked
  <1>6. cpc' = cpc /\ cpc \notin {"boot", "spawn"}
    BY <1>1 DEF DeviceInv, OneSession, MovesAlone, callerVars, CallerLocked, Claimed
  <1> QED
    BY <1>2, <1>4, <1>5, <1>6 DEF DeviceInv

\* A signal to sensor.cond does not change who owns the sensor.
LEMMA DeviceWake ==
  ASSUME TypeInv, DeviceInv, SignalSensorCond, UNCHANGED deviceVars,
         cpc' = cpc \/ (cpc = "cWake" /\ cpc' = "cAwait")
  PROVE  DeviceInv'
  <1>1. \A i \in Ops : wpc'[i] = wpc[i] \/ (wpc[i] = "waiting" /\ wpc'[i] = "wait")
    BY SignalWakes DEF DeviceInv
  <1>2. OneSession'
    BY <1>1 DEF DeviceInv, OneSession, Ended, CallerLocked, Claimed
  <1>3. \A i \in Ops : TailOf(i)'
    BY <1>1 DEF DeviceInv, TailOf, deviceVars, InSession, Capturing
  <1> QED
    BY <1>1, <1>2, <1>3 DEF DeviceInv, deviceVars, Ended

\* The HAL calls switch sensor and application on before they create the thread.
LEMMA DeviceCaller ==
  ASSUME Settled, Faults = {}, TypeInv, DeviceInv, CallerNext
  PROVE  DeviceInv'
  <1> USE DEF callerVars, workerVars, deviceVars, irqVars, timerVars, GoCaller, Returned,
          OnlyCallerMoves
  <1>1. CASE Authenticate \/ Enroll
    <2>1. UNCHANGED <<wpc, deviceVars>> /\ (\A i \in Ops : wpc[i] \in Ended)
          /\ cpc = "ready" /\ cpc' \in {"poll", "noSpace"}
      BY <1>1 DEF Authenticate, Enroll, MayStart
    <2> QED
      BY <2>1 DEF DeviceInv, OneSession, TailOf
  <1>2. CASE SensorInit \/ VcsInit
    <2>1. UNCHANGED wpc /\ (\A i \in Ops : wpc[i] \in Ended)
      BY <1>2 DEF SensorInit, VcsInit, DeviceInv, OneSession, CallerLocked, Claimed
    <2>2. \A i \in Ops : TailOf(i)'
      BY <2>1 DEF TailOf, Ended, InSession, Capturing, Using, WorkerLocked
    <2>3. OneSession'
      BY <2>1 DEF OneSession
    <2> QED
      BY <1>2, <2>1, <2>2, <2>3 DEF SensorInit, VcsInit, DeviceInv
  <1>3. CASE SpawnWorker
    <2>1. UNCHANGED deviceVars /\ sensorInit /\ tzInit /\ (\A i \in Ops : wpc[i] \in Ended)
      BY <1>3 DEF SpawnWorker, DeviceInv, OneSession, CallerLocked, Claimed
    <2>2. /\ nops \in Ops /\ wpc'[nops] = "begin" /\ cpc' \in {"spawnTimer", "ready"}
          /\ \A i \in Ops : i # nops => wpc'[i] = wpc[i]
      BY <1>3 DEF SpawnWorker, GoWorker, TypeInv, TypeOK, Counting, Claimed
    <2>3. OneSession'
      BY <2>1, <2>2 DEF OneSession, CallerLocked, Claimed
    <2>4. \A i \in Ops : TailOf(i)'
      BY <2>1, <2>2 DEF TailOf, Ended, InSession, Capturing, Using, WorkerLocked
    <2> QED
      BY <2>2, <2>3, <2>4 DEF DeviceInv, Ended
  <1>4. CASE CancelWake
    BY <1>4, DeviceWake DEF CancelWake
  <1>5. CASE PollState \/ ClaimState \/ SpawnTimer
    BY <1>5 DEF PollState, ClaimState, SpawnTimer, DeviceInv, OneSession, TailOf, CallerLocked,
       Claimed
  <1>6. CASE \/ Cancel \/ CancelSignalTimer \/ CancelJoin \/ CancelJoined \/ CancelCheckIdle
             \/ CancelCheckCancel \/ CancelSet \/ CancelDisarm \/ CancelAwait \/ CancelNotify
    BY <1>6 DEF Cancel, CancelSignalTimer, CancelJoin, CancelJoined, CancelCheckIdle,
       CancelCheckCancel, CancelSet, CancelDisarm, CancelAwait, CancelNotify, DeviceInv,
       OneSession, TailOf, CallerLocked, Claimed
  <1> QED
    BY <1>1, <1>2, <1>3, <1>4, <1>5, <1>6 DEF CallerNext, StartCall, CancelCall

\* DeviceInv, the strengthening of SessionOwnsDevice, is inductive.
LEMMA DeviceStep ==
  ASSUME Settled, Faults = {}, TypeInv, DeviceInv, [Next]_vars
  PROVE  DeviceInv'
  <1> USE DEF callerVars, workerVars, deviceVars, irqVars, timerVars
  <1>1. CASE HandlerWake
    BY <1>1, DeviceWake DEF HandlerWake
  <1>2. CASE (HandlerStep \/ Swipe) /\ ~HandlerWake
    BY <1>2 DEF HandlerStep, HandlerEnter, HandlerSignalTimer, HandlerClearTimer,
       HandlerCheckIdle, HandlerSetSignal, Swipe, DeviceInv, OneSession, TailOf
  <1>3. ASSUME NEW i \in Ops, TimerNext(i) PROVE DeviceInv'
    BY <1>3 DEF TimerNext, TimerStep, TimerWait, TimerSpuriousWake, TimerExpire, TimerCheck,
       TimerCancel, TimerDisarm, TimerAwait, TimerNotify, TimerGoes, DeviceInv, OneSession, TailOf
  <1>4. CASE UNCHANGED vars
    BY <1>4 DEF vars, DeviceInv, OneSession, TailOf
  <1> QED
    BY <1>1, <1>2, <1>3, <1>4, DeviceWorker, DeviceCaller DEF Next

\* When the framework waits for the previous thread and no command fails, the
\* sensor is powered and the trusted application loaded exactly for the session
\* that uses them, whatever the timeouts, cancellations and touches.
THEOREM DeviceOwned ==
  ASSUME Settled, Faults = {}
  PROVE  Spec => []SessionOwnsDevice
  <1>1. Init => DeviceInv
    BY DEF Init, DeviceInv, OneSession, TailOf, Ended, CallerLocked, Claimed, InSession,
       Capturing, Using, WorkerLocked
  <1>2. TypeInv /\ DeviceInv /\ [Next]_vars => DeviceInv'
    BY DeviceStep
  <1>3. DeviceInv => SessionOwnsDevice
    BY DEF DeviceInv, SessionOwnsDevice, TailOf, Claimed
  <1> QED
    BY <1>1, <1>2, <1>3, TypeInit, TypeStep, PTL DEF Spec

=============================================================================
