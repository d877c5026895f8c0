------------------------- MODULE FingerprintSession -------------------------
(***************************************************************************)
(* The concurrent core of the klte fingerprint HAL: how one capture        *)
(* session (an enrolment or an authentication) is started, waits for the   *)
(* sensor, is cancelled or times out, and gives the sensor and the trusted *)
(* application back (fingerprint/fingerprint.c, fingerprint_tz.c).         *)
(*                                                                         *)
(* Actors, each with a program counter of its own:                         *)
(*   - the caller: the one binder thread of the fingerprint service, which *)
(*     runs the HAL entry points one at a time (cpc);                      *)
(*   - worker i: the thread vcs_start_authenticate or vcs_start_enroll     *)
(*     creates for the i-th operation (wpc[i]);                            *)
(*   - timer i: the vcs_timeout thread of the i-th operation (tpc[i]);     *)
(*   - the SIGUSR2 handler sensor_process_signal (hpc), modelled as a      *)
(*     thread that interrupts nobody holding a lock.                       *)
(*                                                                         *)
(* A step is what happens between two accesses to shared state, so every   *)
(* get_tz_state / set_tz_state call is a step.  The commands sent to the   *)
(* trusted application are abstracted to their outcome.  The two mutexes   *)
(* that are held across steps are functions of the program counters:       *)
(* vdev->lock by the caller, sensor.lock by a worker or by the handler.    *)
(* The finger table is the subject of FingerStore: here the caller finds   *)
(* it full or not, and a match resolves to a finger or to none.            *)
(***************************************************************************)
EXTENDS Integers, FiniteSets

CONSTANTS
    MaxOps,       \* bound: operations the caller starts in one behaviour
    Samples,      \* images an enrolment asks for (8 in vcs_enroll)
    Faults,       \* which calls may fail: "tz" commands, "start" of an operation
    Timeouts,     \* enrolments have no timeout ("none"), one too long to run out
                  \* ("long"), or one that may run out ("short")
    Settled       \* whether the caller starts an operation only once the
                  \* thread of the previous one has returned

ASSUME SessionAssumption ==
    /\ MaxOps \in Nat \ {0}
    /\ Samples \in Nat \ {0}
    /\ Faults \subseteq {"tz", "start"}
    /\ Timeouts \in {"none", "long", "short"}
    /\ Settled \in BOOLEAN

Ops == 1..MaxOps
Kinds == {"ENROLL", "SCAN"}
WorkerStates == Kinds \cup {"IDLE", "CANCEL"}

VARIABLES
    state,          \* tz.state
    tzInit,         \* tz.init
    timeoutThread,  \* tz.timeout.timeout_thread: 0 or the timer's operation
    sensorInit,     \* sensor.init
    sensorSignal,   \* sensor.signal
    drdy,           \* the driver's data-ready interrupt is enabled
    pending,        \* a SIGUSR2 is queued for the process
    cpc,            \* caller: where it is in a HAL call, "ready" between calls
    ckind,          \* caller: the operation fingerprint_xxx is starting
    ctimeout,       \* caller: whether that operation has a timeout
    joinee,         \* caller: the thread pthread_join waits for
    nops,           \* operations claimed so far; nops is the latest one
    wpc,            \* wpc[i]: program counter of worker i
    kind,           \* kind[i]: which thread function worker i runs
    count,          \* count[i]: vcs_enroll's samples still wanted
    hit,            \* hit[i]: vcs_authenticate's fingerindex is not 0
    tpc,            \* tpc[i]: program counter of timer i
    hpc             \* program counter of the signal handler

callerVars == <<cpc, ckind, ctimeout, joinee, nops>>
workerVars == <<wpc, kind, count, hit>>
deviceVars == <<tzInit, sensorInit>>
irqVars == <<drdy, pending, sensorSignal>>
timerVars == <<tpc, timeoutThread>>
vars == <<state, deviceVars, irqVars, callerVars, workerVars, timerVars, hpc>>

-----------------------------------------------------------------------------
(* Program counters, and the locks they stand for. *)

\* The caller holds vdev->lock from the lock in fingerprint_authenticate and
\* fingerprint_enroll to the unlock at their end; in "noSpace" it asks for it
\* again from send_error_notice.
Claimed == {"power", "boot", "spawn"}
CallerLocked == {"poll", "claim", "noSpace", "spawnTimer"} \cup Claimed
CallerPcs == {"ready"} \cup CallerLocked \cup
    {"cTimer", "cJoin", "cJoining", "cCheck1", "cCheck2", "cSet", "cDisarm",
     "cWake", "cAwait", "cNotify"}

\* The places where a worker holds sensor.lock between steps.
WorkerLocked == {"test2", "test3", "abortHeld"}

\* The worker is inside vcs_start_capture (Capturing), has an image (Using), is
\* on its way out with tz.state not reset yet (Leaving), or is past it (Tail).
Capturing == {"capture", "wait", "waiting", "recheck1", "recheck2", "consume",
              "read1", "read2", "abort", "process", "retry"} \cup WorkerLocked
Using == {"use", "again", "progress", "finish"}
InSession == {"begin", "loop", "unable"} \cup Capturing \cup Using
WorkerPcs == InSession \cup
    {"none", "fail", "failNotice", "out", "off", "shutdown", "idle", "idle2",
     "notify", "notify2", "done"}
Ended == {"none", "done"}

TimerPcs == {"none", "start", "waiting", "check1", "check2", "set", "disarm",
             "await", "notify", "done"}
HandlerPcs == {"idle", "timer", "clear", "lock", "lock2", "wake"}

\* Mutant: fingerprint_cancel keeps vdev->lock while it waits for idle.
VdevLockKeptByCancel == cpc \notin CallerLocked \cup {"cAwait"}
VdevLockFree == cpc \notin CallerLocked
SensorLockFree == /\ hpc \notin {"lock2", "wake"}
                  /\ \A i \in Ops : wpc[i] \notin WorkerLocked

-----------------------------------------------------------------------------
(* Small steps shared by several actions. *)

GoWorker(i, pc) == wpc' = [wpc EXCEPT ![i] = pc]
GoTimer(i, pc) == tpc' = [tpc EXCEPT ![i] = pc]

\* "goto out": vcs_enroll resets tz.state first, vcs_authenticate last.
OutPc(i) == IF kind[i] = "ENROLL" THEN "out" ELSE "off"

\* Mutant: nobody is woken.
SignalNobody == UNCHANGED wpc

\* pthread_cond_signal(&sensor.cond): one waiting worker, if any, goes back to
\* the test of the loop it waits in.
SignalSensorCond ==
    IF \E i \in Ops : wpc[i] = "waiting"
    THEN \E i \in Ops : wpc[i] = "waiting" /\ GoWorker(i, "wait")
    ELSE UNCHANGED wpc

\* pthread_cond_signal(&tz.timeout.cond): timedwait returns 0 and vcs_timeout
\* ends; the signal is lost when no timer waits yet.
SignalTimeoutCond ==
    IF \E i \in Ops : tpc[i] = "waiting"
    THEN \E i \in Ops : tpc[i] = "waiting" /\ GoTimer(i, "done")
    ELSE UNCHANGED tpc

Init ==
    /\ state = "IDLE" /\ tzInit = FALSE /\ sensorInit = FALSE
    /\ timeoutThread = 0
    /\ sensorSignal = FALSE /\ drdy = FALSE /\ pending = FALSE
    /\ cpc = "ready" /\ ckind = "SCAN" /\ ctimeout = FALSE /\ joinee = 0 /\ nops = 0
    /\ wpc = [i \in Ops |-> "none"]
    /\ kind = [i \in Ops |-> "SCAN"]
    /\ count = [i \in Ops |-> Samples]
    /\ hit = [i \in Ops |-> FALSE]
    /\ tpc = [i \in Ops |-> "none"]
    /\ hpc = "idle"

-----------------------------------------------------------------------------
(* The caller: fingerprint_authenticate and fingerprint_enroll. *)

GoCaller(pc) == cpc' = pc
Returned == cpc' = "ready"

OnlyCallerMoves == UNCHANGED <<state, deviceVars, irqVars, ckind, ctimeout, joinee,
                              nops, workerVars, timerVars, hpc>>

MayStart ==
    /\ cpc = "ready" /\ nops < MaxOps
    /\ Settled => \A i \in Ops : wpc[i] \in Ended

\* fingerprint_authenticate takes vdev->lock and enters vcs_start_authenticate.
Authenticate ==
    /\ MayStart
    /\ ckind' = "SCAN" /\ ctimeout' = FALSE
    /\ GoCaller("poll")
    /\ UNCHANGED <<state, deviceVars, irqVars, joinee, nops, workerVars, timerVars, hpc>>

\* fingerprint_enroll, with a token that passes its checks and names a user
\* (secure_user_id # 0), takes vdev->lock and looks for a free finger.  Without
\* one it calls send_error_notice, which locks vdev->lock again: a normal mutex, so
\* the caller waits for itself in "noSpace".
Enroll ==
    /\ MayStart
    /\ ckind' = "ENROLL"
    /\ \E timeout, full \in BOOLEAN :
          /\ timeout => Timeouts # "none"
          /\ ctimeout' = timeout
          /\ GoCaller(IF full THEN "noSpace" ELSE "poll")
    /\ UNCHANGED <<state, deviceVars, irqVars, joinee, nops, workerVars, timerVars, hpc>>

\* Mutant: no busy check.
PollNothing == cpc = "poll" /\ GoCaller("claim") /\ OnlyCallerMoves

\* get_tz_state() != STATE_IDLE: "Sensor is busy!".  vcs_start_authenticate
\* polls five times but only its last poll decides.
PollState ==
    /\ cpc = "poll"
    /\ GoCaller(IF state = "IDLE" THEN "claim" ELSE "ready")
    /\ OnlyCallerMoves

ClaimState ==
    /\ cpc = "claim"
    /\ state' = ckind
    /\ nops' = nops + 1
    /\ GoCaller("power")
    /\ UNCHANGED <<deviceVars, irqVars, ckind, ctimeout, joinee, workerVars, timerVars, hpc>>

\* sensor_init
SensorInit ==
    /\ cpc = "power"
    /\ sensorInit' = TRUE
    /\ GoCaller("boot")
    /\ UNCHANGED <<state, tzInit, irqVars, ckind, ctimeout, joinee, nops,
                   workerVars, timerVars, hpc>>

\* vcs_init: nothing to do when the application runs already; a failure before
\* tz.init is set leaves it FALSE, one in vcs_resume leaves it TRUE.  Either way
\* tz.state stays claimed.
VcsInit ==
    /\ cpc = "boot"
    /\ \/ tzInit' = TRUE /\ GoCaller("spawn")
       \/ "start" \in Faults /\ ~tzInit /\ tzInit' \in BOOLEAN /\ Returned
    /\ UNCHANGED <<state, sensorInit, irqVars, ckind, ctimeout, joinee, nops,
                   workerVars, timerVars, hpc>>

\* pthread_create of vcs_authenticate or vcs_enroll
SpawnWorker ==
    /\ cpc = "spawn"
    /\ \/ /\ GoWorker(nops, "begin")
          /\ kind' = [kind EXCEPT ![nops] = ckind]
          /\ GoCaller(IF ctimeout THEN "spawnTimer" ELSE "ready")
       \/ "start" \in Faults /\ Returned /\ UNCHANGED <<wpc, kind>>
    /\ UNCHANGED <<state, deviceVars, irqVars, ckind, ctimeout, joinee, nops,
                   count, hit, timerVars, hpc>>

\* pthread_create of vcs_timeout
SpawnTimer ==
    /\ cpc = "spawnTimer"
    /\ \/ GoTimer(nops, "start") /\ timeoutThread' = nops
       \/ "start" \in Faults /\ UNCHANGED timerVars
    /\ Returned
    /\ UNCHANGED <<state, deviceVars, irqVars, ckind, ctimeout, joinee, nops, workerVars, hpc>>

-----------------------------------------------------------------------------
(* The caller: fingerprint_cancel. *)

Cancel ==
    /\ cpc = "ready"
    /\ GoCaller(IF timeoutThread # 0 THEN "cTimer" ELSE "cCheck1")
    /\ OnlyCallerMoves

CancelSignalTimer ==
    /\ cpc = "cTimer"
    /\ SignalTimeoutCond
    /\ GoCaller("cJoin")
    /\ UNCHANGED <<state, deviceVars, irqVars, ckind, ctimeout, joinee, nops,
                   workerVars, timeoutThread, hpc>>

\* pthread_join reads the handle again: the signal handler may have cleared it,
\* and joining thread 0 does not wait.
CancelJoin ==
    /\ cpc = "cJoin"
    /\ joinee' = timeoutThread
    /\ GoCaller("cJoining")
    /\ UNCHANGED <<state, deviceVars, irqVars, ckind, ctimeout, nops,
                   workerVars, timerVars, hpc>>

CancelJoined ==
    /\ cpc = "cJoining"
    /\ joinee # 0 => tpc[joinee] = "done"
    /\ joinee' = 0 /\ timeoutThread' = 0
    /\ GoCaller("cCheck1")
    /\ UNCHANGED <<state, deviceVars, irqVars, ckind, ctimeout, nops, workerVars, tpc, hpc>>

\* get_tz_state() != STATE_IDLE, then get_tz_state() != STATE_CANCEL: two reads.
CancelCheckIdle ==
    /\ cpc = "cCheck1"
    /\ GoCaller(IF state # "IDLE" THEN "cCheck2" ELSE "ready")
    /\ OnlyCallerMoves

CancelCheckCancel ==
    /\ cpc = "cCheck2"
    /\ GoCaller(IF state # "CANCEL" THEN "cSet" ELSE "ready")
    /\ OnlyCallerMoves

CancelSet ==
    /\ cpc = "cSet"
    /\ state' = "CANCEL"
    /\ GoCaller("cDisarm")
    /\ UNCHANGED <<deviceVars, irqVars, ckind, ctimeout, joinee, nops,
                   workerVars, timerVars, hpc>>

CancelDisarm ==
    /\ cpc = "cDisarm"
    /\ drdy' = FALSE
    /\ GoCaller("cWake")
    /\ UNCHANGED <<state, deviceVars, pending, sensorSignal, ckind, ctimeout, joinee, nops,
                   workerVars, timerVars, hpc>>

\* Mutant: sensor.cond is signalled without sensor.lock.
CancelWakeUnlocked ==
    /\ cpc = "cWake"
    /\ SignalSensorCond
    /\ GoCaller("cAwait")
    /\ UNCHANGED <<state, deviceVars, irqVars, ckind, ctimeout, joinee, nops,
                   kind, count, hit, timerVars, hpc>>

CancelWake ==
    /\ cpc = "cWake" /\ SensorLockFree
    /\ SignalSensorCond
    /\ GoCaller("cAwait")
    /\ UNCHANGED <<state, deviceVars, irqVars, ckind, ctimeout, joinee, nops,
                   kind, count, hit, timerVars, hpc>>

\* The 100 ms polling loop on tz.state.
CancelAwait ==
    /\ cpc = "cAwait" /\ state = "IDLE"
    /\ GoCaller("cNotify")
    /\ OnlyCallerMoves

\* send_error_notice(vdev, FINGERPRINT_ERROR_CANCELED)
CancelNotify ==
    /\ cpc = "cNotify"
    /\ Returned
    /\ OnlyCallerMoves

-----------------------------------------------------------------------------
(* Workers: the thread functions vcs_enroll and vcs_authenticate, and          *)
(* vcs_start_capture which both call.                                          *)

OnlyWorkerMoves == UNCHANGED <<state, deviceVars, irqVars, callerVars, kind, count, hit,
                              timerVars, hpc>>

WorkerSets(i, newState, pc) ==
    /\ state' = newState
    /\ GoWorker(i, pc)
    /\ UNCHANGED <<deviceVars, irqVars, callerVars, kind, count, hit, timerVars, hpc>>

\* vfmEnrollBegin and vendorUnknownA for an enrolment, vendorUnknown0 (its
\* result only logged) for an authentication.
WorkerBegin(i) ==
    /\ wpc[i] = "begin"
    /\ \/ GoWorker(i, "loop")
       \/ "tz" \in Faults /\ kind[i] = "ENROLL" /\ GoWorker(i, "fail")
    /\ OnlyWorkerMoves

\* while (get_tz_state() == STATE_ENROLL), while (get_tz_state() == STATE_SCAN)
WorkerLoop(i) ==
    /\ wpc[i] = "loop"
    /\ GoWorker(i, IF state = kind[i] THEN "capture"
                   ELSE IF kind[i] = "ENROLL" THEN "finish" ELSE "off")
    /\ OnlyWorkerMoves

\* vfmCaptureStart, vendorUpdateCalData, then sensor_capture_start.
CaptureStart(i) ==
    /\ wpc[i] = "capture" /\ SensorLockFree
    /\ drdy' = TRUE
    /\ GoWorker(i, "wait")
    /\ UNCHANGED <<state, deviceVars, pending, sensorSignal, callerVars, kind, count, hit,
                   timerVars, hpc>>

\* vfmCaptureStart fails: a return of -1 leaves the session, any other one (0
\* when the application refused the command) is taken for a captured image.
CaptureStartFails(i) ==
    /\ wpc[i] = "capture" /\ "tz" \in Faults
    /\ \E pc \in {OutPc(i), "use"} : GoWorker(i, pc)
    /\ OnlyWorkerMoves

\* while ((!vcs_check_state()) && !sensor.signal), with sensor.lock held: the
\* first read of vcs_check_state ...
WaitCheckIdle(i) ==
    /\ wpc[i] = "wait" /\ SensorLockFree
    /\ GoWorker(i, IF state = "IDLE" THEN "recheck1" ELSE "test2")
    /\ OnlyWorkerMoves

\* ... the second one ...
WaitCheckCancel(i) ==
    /\ wpc[i] = "test2"
    /\ GoWorker(i, IF state = "CANCEL" THEN "abortHeld" ELSE "test3")
    /\ OnlyWorkerMoves

\* ... and sensor.signal; pthread_cond_wait releases sensor.lock.
WaitCheckSignal(i) ==
    /\ wpc[i] = "test3"
    /\ GoWorker(i, IF sensorSignal THEN "recheck1" ELSE "waiting")
    /\ OnlyWorkerMoves

\* pthread_cond_wait may return without a signal.
WaitSpuriousWake(i) ==
    /\ wpc[i] = "waiting"
    /\ GoWorker(i, "wait")
    /\ OnlyWorkerMoves

\* vfmCaptureAbort and set_tz_state(STATE_IDLE) in vcs_check_state, called by the
\* waiting loop or after it.
CaptureAbort(i) ==
    \/ wpc[i] = "abortHeld" /\ WorkerSets(i, "IDLE", "recheck1")
    \/ wpc[i] = "abort" /\ WorkerSets(i, "IDLE", OutPc(i))

RecheckIdle(i) ==
    /\ wpc[i] = "recheck1"
    /\ GoWorker(i, IF state = "IDLE" THEN OutPc(i) ELSE "recheck2")
    /\ OnlyWorkerMoves

RecheckCancel(i) ==
    /\ wpc[i] = "recheck2"
    /\ GoWorker(i, IF state = "CANCEL" THEN "abort" ELSE "consume")
    /\ OnlyWorkerMoves

ConsumeSignal(i) ==
    /\ wpc[i] = "consume" /\ SensorLockFree
    /\ sensorSignal' = FALSE
    /\ GoWorker(i, "read1")
    /\ UNCHANGED <<state, deviceVars, drdy, pending, callerVars, kind, count, hit,
                   timerVars, hpc>>

ReadCheckIdle(i) ==
    /\ wpc[i] = "read1"
    /\ GoWorker(i, IF state = "IDLE" THEN OutPc(i) ELSE "read2")
    /\ OnlyWorkerMoves

\* vfmCaptureReadData until the finger has left the sensor; errors are retried.
ReadData(i) ==
    /\ wpc[i] = "read2"
    /\ IF state = "CANCEL" THEN GoWorker(i, "abort")
       ELSE \E pc \in {"read1", "process"} : GoWorker(i, pc)
    /\ OnlyWorkerMoves

\* vfmCaptureProcessData: an image, a poor image, or a failed command.
ProcessData(i) ==
    /\ wpc[i] = "process"
    /\ \/ \E pc \in {"use", "retry"} : GoWorker(i, pc)
       \/ "tz" \in Faults /\ GoWorker(i, OutPc(i))
    /\ OnlyWorkerMoves

\* send_acquired_notice for a poor image (capture again) or for a refused one
\* (next turn of the loop).
AcquiredNotice(i) ==
    /\ wpc[i] \in {"retry", "again"} /\ VdevLockFree
    /\ GoWorker(i, IF wpc[i] = "retry" THEN "capture" ELSE "loop")
    /\ OnlyWorkerMoves

\* The remaining samples after an accepted image: none when the application
\* calls the template complete, at least one when it does not.
Remaining(n, complete) ==
    IF complete THEN 0 ELSE IF n - 1 = 0 THEN 1 ELSE n - 1

\* vfmEnrollAddImage
EnrollAddImage(i) ==
    /\ wpc[i] = "use" /\ kind[i] = "ENROLL"
    /\ \/ /\ \E complete \in BOOLEAN :
                 count' = [count EXCEPT ![i] = Remaining(@, complete)]
          /\ GoWorker(i, "progress")
       \/ GoWorker(i, "again") /\ UNCHANGED count
       \/ "tz" \in Faults /\ GoWorker(i, "fail") /\ UNCHANGED count
    /\ UNCHANGED <<state, deviceVars, irqVars, callerVars, kind, hit, timerVars, hpc>>

\* Mutant: the loop is left one sample too early or not at all.
EnrollNoticeOffByOne(i) ==
    /\ wpc[i] = "progress" /\ VdevLockFree
    /\ GoWorker(i, IF count[i] = 1 THEN "finish" ELSE "loop")
    /\ OnlyWorkerMoves

\* send_enroll_notice
EnrollNotice(i) ==
    /\ wpc[i] = "progress" /\ VdevLockFree
    /\ GoWorker(i, IF count[i] = 0 THEN "finish" ELSE "loop")
    /\ OnlyWorkerMoves

\* vfmEnrollFinish, vfmPayloadBind, the new finger in tz.finger and in the
\* database, vfmEnrollmentPasswordSet.
EnrollFinish(i) ==
    /\ wpc[i] = "finish"
    /\ GoWorker(i, "out")
    /\ OnlyWorkerMoves

\* Mutant: the thread returns without sensor_uninit and vcs_uninit.
EnrollOutLeaks(i) == wpc[i] = "out" /\ WorkerSets(i, "IDLE", "done")

\* set_tz_state(STATE_IDLE) at "out:" of vcs_enroll.
EnrollOut(i) == wpc[i] = "out" /\ WorkerSets(i, "IDLE", "off")

\* Mutant: the early return forgets set_tz_state(STATE_IDLE).
EnrollFailBusy(i) == wpc[i] = "fail" /\ WorkerSets(i, state, "failNotice")

\* vfmEnrollBegin, vendorUnknownA or vfmEnrollAddImage failed: vcs_enroll resets
\* tz.state, reports UNABLE_TO_PROCESS and returns at once.
EnrollFail(i) == wpc[i] = "fail" /\ WorkerSets(i, "IDLE", "failNotice")

EnrollFailNotice(i) ==
    /\ wpc[i] = "failNotice" /\ VdevLockFree
    /\ GoWorker(i, "done")
    /\ OnlyWorkerMoves

\* vfmMatchImageToTemplates: a match (which the finger table resolves to a
\* finger or not), no match, or a failed command.
MatchImage(i) ==
    /\ wpc[i] = "use" /\ kind[i] = "SCAN"
    /\ \/ \E found \in BOOLEAN : hit' = [hit EXCEPT ![i] = found] /\ GoWorker(i, "off")
       \/ GoWorker(i, "again") /\ UNCHANGED hit
       \/ "tz" \in Faults /\ GoWorker(i, "unable") /\ UNCHANGED hit
    /\ UNCHANGED <<state, deviceVars, irqVars, callerVars, kind, count, timerVars, hpc>>

MatchFailNotice(i) ==
    /\ wpc[i] = "unable" /\ VdevLockFree
    /\ GoWorker(i, "off")
    /\ OnlyWorkerMoves

\* sensor_uninit
SensorUninit(i) ==
    /\ wpc[i] = "off"
    /\ sensorInit' = FALSE
    /\ GoWorker(i, "shutdown")
    /\ UNCHANGED <<state, tzInit, irqVars, callerVars, kind, count, hit, timerVars, hpc>>

\* vcs_uninit up to tz.init = false
VcsUninit(i) ==
    /\ wpc[i] = "shutdown"
    /\ tzInit' = FALSE
    /\ GoWorker(i, "idle")
    /\ UNCHANGED <<state, sensorInit, irqVars, callerVars, kind, count, hit, timerVars, hpc>>

\* The set_tz_state(STATE_IDLE) that ends vcs_uninit.
VcsUninitIdle(i) ==
    /\ wpc[i] = "idle"
    /\ WorkerSets(i, "IDLE", IF kind[i] = "ENROLL" THEN "done" ELSE "idle2")

\* The set_tz_state(STATE_IDLE) of vcs_authenticate itself.
AuthenticateIdle(i) ==
    /\ wpc[i] = "idle2"
    /\ WorkerSets(i, "IDLE", IF hit[i] THEN "notify" ELSE "done")

\* send_authenticated_notice: ACQUIRED_GOOD, then AUTHENTICATED.
AuthenticatedNotice(i) ==
    /\ wpc[i] \in {"notify", "notify2"} /\ VdevLockFree
    /\ GoWorker(i, IF wpc[i] = "notify" THEN "notify2" ELSE "done")
    /\ OnlyWorkerMoves

-----------------------------------------------------------------------------
(* Timers: vcs_timeout. *)

TimerGoes(i, pc) ==
    /\ GoTimer(i, pc)
    /\ UNCHANGED <<state, deviceVars, irqVars, callerVars, workerVars, timeoutThread, hpc>>

TimerWait(i) == tpc[i] = "start" /\ TimerGoes(i, "waiting")

\* pthread_cond_timedwait is not in a loop: woken early, vcs_timeout returns.
TimerSpuriousWake(i) == tpc[i] = "waiting" /\ TimerGoes(i, "done")

TimerExpire(i) == Timeouts = "short" /\ tpc[i] = "waiting" /\ TimerGoes(i, "check1")

\* get_tz_state() != STATE_IDLE && get_tz_state() != STATE_CANCEL
TimerCheck(i) ==
    \/ tpc[i] = "check1" /\ TimerGoes(i, IF state # "IDLE" THEN "check2" ELSE "notify")
    \/ tpc[i] = "check2" /\ TimerGoes(i, IF state # "CANCEL" THEN "set" ELSE "notify")

\* set_tz_state(STATE_CANCEL); sensor.cond is not signalled.
TimerCancel(i) ==
    /\ tpc[i] = "set"
    /\ state' = "CANCEL"
    /\ GoTimer(i, "disarm")
    /\ UNCHANGED <<deviceVars, irqVars, callerVars, workerVars, timeoutThread, hpc>>

TimerDisarm(i) ==
    /\ tpc[i] = "disarm"
    /\ drdy' = FALSE
    /\ GoTimer(i, "await")
    /\ UNCHANGED <<state, deviceVars, pending, sensorSignal, callerVars, workerVars,
                   timeoutThread, hpc>>

TimerAwait(i) == tpc[i] = "await" /\ state = "IDLE" /\ TimerGoes(i, "notify")

\* send_error_notice(vdev, FINGERPRINT_ERROR_TIMEOUT)
TimerNotify(i) == tpc[i] = "notify" /\ VdevLockFree /\ TimerGoes(i, "done")

-----------------------------------------------------------------------------
(* The sensor and the SIGUSR2 handler: sensor_process_signal. *)

\* The driver (external) raises SIGUSR2 when a finger touches the powered
\* sensor while its data-ready interrupt is enabled.
Swipe ==
    /\ drdy /\ sensorInit /\ ~pending
    /\ pending' = TRUE
    /\ UNCHANGED <<state, deviceVars, drdy, sensorSignal, callerVars, workerVars,
                   timerVars, hpc>>

HandlerEnter ==
    /\ hpc = "idle" /\ pending
    /\ pending' = FALSE
    /\ hpc' = IF timeoutThread # 0 THEN "timer" ELSE "lock"
    /\ UNCHANGED <<state, deviceVars, drdy, sensorSignal, callerVars, workerVars, timerVars>>

HandlerSignalTimer ==
    /\ hpc = "timer"
    /\ SignalTimeoutCond
    /\ hpc' = "clear"
    /\ UNCHANGED <<state, deviceVars, irqVars, callerVars, workerVars, timeoutThread>>

HandlerClearTimer ==
    /\ hpc = "clear"
    /\ timeoutThread' = 0
    /\ hpc' = "lock"
    /\ UNCHANGED <<state, deviceVars, irqVars, callerVars, workerVars, tpc>>

\* Takes sensor.lock; get_tz_state() != STATE_IDLE ...
HandlerCheckIdle ==
    /\ hpc = "lock" /\ SensorLockFree
    /\ hpc' = IF state # "IDLE" THEN "lock2" ELSE "wake"
    /\ UNCHANGED <<state, deviceVars, irqVars, callerVars, workerVars, timerVars>>

\* ... && get_tz_state() != STATE_CANCEL
HandlerSetSignal ==
    /\ hpc = "lock2"
    /\ sensorSignal' = (sensorSignal \/ state # "CANCEL")
    /\ hpc' = "wake"
    /\ UNCHANGED <<state, deviceVars, drdy, pending, callerVars, workerVars, timerVars>>

\* Disables the interrupt, signals sensor.cond, releases sensor.lock.
HandlerWake ==
    /\ hpc = "wake"
    /\ drdy' = FALSE
    /\ SignalSensorCond
    /\ hpc' = "idle"
    /\ UNCHANGED <<state, deviceVars, pending, sensorSignal, callerVars,
                   kind, count, hit, timerVars>>

-----------------------------------------------------------------------------
StartCall == PollState \/ ClaimState \/ SensorInit \/ VcsInit \/ SpawnWorker \/ SpawnTimer
CancelCall == \/ CancelSignalTimer \/ CancelJoin \/ CancelJoined \/ CancelCheckIdle
              \/ CancelCheckCancel \/ CancelSet \/ CancelDisarm \/ CancelWake
              \/ CancelAwait \/ CancelNotify
Notice(i) == \/ AcquiredNotice(i) \/ EnrollNotice(i) \/ EnrollFailNotice(i)
             \/ MatchFailNotice(i) \/ AuthenticatedNotice(i)
CaptureStep(i) == \/ CaptureStart(i) \/ CaptureStartFails(i) \/ WaitCheckIdle(i)
                  \/ WaitCheckCancel(i) \/ WaitCheckSignal(i) \/ CaptureAbort(i)
                  \/ RecheckIdle(i) \/ RecheckCancel(i) \/ ConsumeSignal(i)
                  \/ ReadCheckIdle(i) \/ ReadData(i) \/ ProcessData(i)
ThreadStep(i) == \/ WorkerBegin(i) \/ WorkerLoop(i) \/ EnrollAddImage(i) \/ EnrollFinish(i)
                 \/ EnrollOut(i) \/ EnrollFail(i) \/ MatchImage(i) \/ SensorUninit(i)
                 \/ VcsUninit(i) \/ VcsUninitIdle(i) \/ AuthenticateIdle(i)
TimerStep(i) == \/ TimerWait(i) \/ TimerCheck(i) \/ TimerCancel(i) \/ TimerDisarm(i)
                \/ TimerAwait(i) \/ TimerNotify(i)
HandlerStep == \/ HandlerEnter \/ HandlerSignalTimer \/ HandlerClearTimer
               \/ HandlerCheckIdle \/ HandlerSetSignal \/ HandlerWake

CallerNext == Authenticate \/ Enroll \/ StartCall \/ Cancel \/ CancelCall
WorkerNext(i) == CaptureStep(i) \/ ThreadStep(i) \/ Notice(i) \/ WaitSpuriousWake(i)
TimerNext(i) == TimerStep(i) \/ TimerSpuriousWake(i) \/ TimerExpire(i)

Next == \/ CallerNext \/ Swipe \/ HandlerStep
        \/ \E i \in Ops : WorkerNext(i) \/ TimerNext(i)

\* Every thread runs, and a call once entered is carried on.  A thread that
\* waits for vdev->lock or sensor.lock gets it if it is free again and again.
\* Nothing obliges the framework to call, a finger to touch the sensor, a
\* waiting thread to wake without a signal or a timeout to run out.
Fairness ==
    /\ WF_vars(StartCall) /\ SF_vars(CancelCall) /\ SF_vars(HandlerStep)
    /\ \A i \in Ops : /\ SF_vars(CaptureStep(i)) /\ WF_vars(ThreadStep(i))
                      /\ SF_vars(Notice(i)) /\ SF_vars(TimerStep(i))

Spec == Init /\ [][Next]_vars
FairSpec == Spec /\ Fairness

-----------------------------------------------------------------------------
(* Properties. *)

\* Every variable has the type its declaration in the HAL gives it, and the
\* program counters are places of the code.
TypeOK ==
    /\ state \in WorkerStates
    /\ tzInit \in BOOLEAN /\ sensorInit \in BOOLEAN
    /\ drdy \in BOOLEAN /\ pending \in BOOLEAN /\ sensorSignal \in BOOLEAN
    /\ timeoutThread \in 0..MaxOps /\ joinee \in 0..MaxOps /\ nops \in 0..MaxOps
    /\ cpc \in CallerPcs /\ ckind \in Kinds /\ ctimeout \in BOOLEAN
    /\ wpc \in [Ops -> WorkerPcs] /\ kind \in [Ops -> Kinds]
    /\ count \in [Ops -> 0..Samples] /\ hit \in [Ops -> BOOLEAN]
    /\ tpc \in [Ops -> TimerPcs] /\ hpc \in HandlerPcs

\* A worker that may still act on tz.state: it has not reset it for the last time.
Live(i) == wpc[i] \in InSession \cup {"fail", "out", "off", "shutdown", "idle", "idle2"}

\* No wake-up of the capture loop is lost (vcs_start_capture, fingerprint_cancel,
\* sensor_process_signal): a worker never sleeps on sensor.cond while the state
\* it waits to see has already come, unless the thread that brought it about is
\* still on its way to the signal.  Only a timeout that has run out leaves it
\* asleep: vcs_timeout sets STATE_CANCEL, signals nobody and polls for idle.
TimedOut == \E i \in Ops : tpc[i] \in {"disarm", "await"}
NoLostWakeup ==
    \A i \in Ops : wpc[i] = "waiting" =>
        /\ state \in Kinds \/ cpc \in {"cDisarm", "cWake"} \/ TimedOut
        /\ sensorSignal => hpc = "wake"

\* tz.state says ENROLL or SCAN only on behalf of a live thread or of a call that
\* is about to create one: a HAL that reports itself busy does get to idle, unless
\* the thread of the latest operation could not be created (vcs_start_authenticate
\* and vcs_start_enroll then return with tz.state claimed).
StartFailed == "start" \in Faults /\ cpc \notin Claimed /\ nops # 0 /\ wpc[nops] = "none"
BusyMeansWorker ==
    state \in Kinds => \/ cpc \in Claimed /\ state = ckind
                       \/ nops # 0 /\ Live(nops) /\ kind[nops] = state
                       \/ StartFailed

\* The second of two operations finds the first one's thread done with the sensor,
\* although tz.state is all it looks at: every path through vcs_enroll,
\* vcs_authenticate and vcs_start_capture resets tz.state after its last capture,
\* cancelled or not.  The exception is the reset inside vcs_start_capture's waiting
\* loop, after which vcs_check_state reads tz.state once more ("recheck1"): if the
\* second operation has claimed it by then, the cancelled thread goes on capturing.
\* A third operation may find worse: vcs_uninit of the first thread has the last
\* word on tz.state, and with it resets that of the second.
StartsAfterCapture ==
    [][cpc = "claim" /\ cpc' # "claim" /\ nops <= 1 =>
          \A i \in Ops : wpc[i] \in InSession => wpc[i] = "recheck1"]_vars

\* The worker holds the sensor powered and the trusted application loaded from
\* its first command to its last, and once no thread and no call uses them both
\* are off (sensor_init, vcs_init, sensor_uninit, vcs_uninit).
SessionOwnsDevice ==
    /\ \A i \in Ops : wpc[i] \in InSession => sensorInit /\ tzInit
    /\ cpc \notin Claimed /\ (\A i \in Ops : wpc[i] \in Ended) => ~sensorInit /\ ~tzInit

\* The thread of a session waits for vdev->lock to hand a notice to the framework.
Notifying(i) == wpc[i] \in {"retry", "again", "progress", "unable", "failNotice",
                            "notify", "notify2"}

\* No call keeps vdev->lock while it waits for the thread that wants it
\* (fingerprint_cancel runs without the lock): every notice of a worker is
\* delivered, unless the caller has locked itself out in fingerprint_enroll.
NoticeDelivered ==
    \A i \in Ops : Notifying(i) ~> (~Notifying(i) \/ cpc = "noSpace")

\* A cancellation that reaches a session whose thread has not given tz.state
\* back yet is answered: the thread sees STATE_CANCEL wherever it is, goes idle,
\* and fingerprint_cancel returns.
LiveCancelAnswered ==
    (cpc = "cAwait" /\ \E i \in Ops : Live(i)) ~> cpc = "ready"

\* "Not really an error, but framework expects us to send it": a cancellation
\* that has begun ends with FINGERPRINT_ERROR_CANCELED.
CancelAnswered == cpc = "cAwait" ~> cpc = "cNotify"

\* "vcs_start_capture * 8", then "vfmEnrollFinish": an enrolment is finished, and
\* its finger stored, only when no sample is missing.
EnrollComplete == \A i \in Ops : wpc[i] = "finish" => count[i] = 0

=============================================================================
