------------------------------ MODULE TzSession -----------------------------
(***************************************************************************)
(* The life of the trusted application securefp as the fingerprint HAL     *)
(* drives it: fingerprint_open, an operation with its thread,              *)
(* fingerprint_close, and vcs_init, vcs_resume, vcs_uninit and the         *)
(* authentication session that they share (fingerprint/fingerprint.c,      *)
(* fingerprint_tz.c, QSEEComAPI.c).                                        *)
(*                                                                         *)
(* A thread is the sequence of calls it still has to make; vcs_init and    *)
(* vcs_uninit replace themselves by the calls of their bodies.  A command  *)
(* to the application succeeds, is refused by it (its result is not 0), or *)
(* fails on the way (QSEECom_send_cmd returns an error).  How an operation *)
(* claims tz.state and captures images is the subject of                   *)
(* FingerprintSession: here it is claimed in one step, runs, and ends.     *)
(*                                                                         *)
(* The application is external: it forgets everything when it is shut      *)
(* down, hands its authentication session out as a token, and enters the   *)
(* session again with this token.                                          *)
(***************************************************************************)
EXTENDS Integers, Sequences

CONSTANTS
    MaxOpens,   \* bound: opens of the HAL in one behaviour
    MaxOps,     \* bound: operations started in one behaviour
    Faults      \* "load": libQSEEComAPI is missing; "fail": a call fails;
                \* "refuse": the application refuses a command

ASSUME TzAssumption ==
    /\ MaxOpens \in Nat \ {0} /\ MaxOps \in Nat
    /\ Faults \subseteq {"load", "fail", "refuse"}

\* Thread 0 is the framework's, in the HAL's entry points; thread n that of operation n.
Workers == 1..MaxOps
Threads == {0} \cup Workers
Kinds == {"ENROLL", "SCAN"}

-----------------------------------------------------------------------------
(* What the functions of the HAL do, in order. *)

\* vcs_init, with vcs_resume as its last four calls
ResumeCalls == <<"initialize", "enter", "deviceInitialize", "deviceCalibrate">>
InitCalls == <<"startApp", "setBandwidth">> \o ResumeCalls
UninitCalls == <<"getToken", "shutdownApp", "clearInit", "idle">>

\* Mutant: the session is begun when the application is gone again.
OpenCallsSwapped == <<"sensorInit", "sensorUninit", "sensorInit", "vcsInit", "vcsUninit",
                      "vcsInit", "vcsUninit", "sessionBegin", "sensorUninit">>

\* The sensor is on once for sensor_register.  db_init is in FingerStore.
OpenCalls == <<"sensorInit", "sensorUninit", "sensorInit", "vcsInit", "vcsUninit",
               "vcsInit", "sessionBegin", "vcsUninit", "sensorUninit">>
StartCalls == <<"sensorInit", "vcsInit", "spawn">>

\* Mutant: close leaves the sensor powered.
CloseCallsPowered == <<"await", "sensorInit", "vcsInit", "sessionEnd", "vcsUninit", "free">>

CloseCalls == <<"await", "sensorInit", "vcsInit", "sessionEnd", "vcsUninit", "sensorUninit",
                "free">>

\* vcs_enroll goes idle first, vcs_authenticate before the notice of a match, if there
\* is one.  vcs_enroll's error paths give sensor and application up.
WorkerCalls(kind) ==
    IF kind = "ENROLL" THEN <<"operate", "idle", "sensorUninit", "vcsUninit">>
    ELSE <<"operate", "sensorUninit", "vcsUninit", "idle", "notice">>
ErrorCalls == <<"idle", "notice">>

SetOf(s) == {s[i] : i \in DOMAIN s}
Calls == UNION {SetOf(s) : s \in {InitCalls, UninitCalls, OpenCalls, StartCalls, CloseCalls,
                                  WorkerCalls("ENROLL"), ErrorCalls}}
\* The calls that go through tz.qhandle
HandleCalls == SetOf(ResumeCalls) \cup
    {"setBandwidth", "vcsUninit", "getToken", "shutdownApp", "sessionBegin", "sessionEnd",
     "operate"}

VARIABLES
    phase,      \* "closed", "open" or "dead": the process has crashed
    todo,       \* todo[t]: the calls thread t still has to make
    opKind,     \* the operation being started
    busy,       \* tz.state is not STATE_IDLE
    sensor,     \* sensor.init
    lib,        \* QSEEComAPI.c's init: libQSEEComAPI is loaded
    handle,     \* tz.qhandle is not NULL: the application is loaded
    tzInit,     \* tz.init
    opened,     \* tz.auth_session_opend
    token,      \* tz.auth_token: the session it stands for, 0 when zeroed
    calibrated, \* tz.calibrate_len is not 0
    app,        \* the application's own state
    nopens, nops,
    failed,     \* since the last open a call failed in a way the HAL noticed or not
    swallowed,  \* the last vcs_resume took an error for success
    stuck,      \* the last QSEECom_shutdown_app failed: the application is still loaded
    overtaken   \* a start or a close found the thread of an earlier operation running, and
                \* since then none has come with all threads returned and nothing failed

tzVars == <<handle, tzInit, opened, token, calibrated, app, lib>>
counters == <<nopens, nops>>
ghosts == <<failed, swallowed, stuck, overtaken>>
vars == <<phase, todo, opKind, busy, sensor, tzVars, counters, ghosts>>

\* Loaded with nothing set up: not initialized, in no session.
NewApp == [initialized |-> FALSE, session |-> 0, device |-> FALSE]

Running == \E t \in Workers : todo[t] # <<>>

\* The memsets of fingerprint_open: nothing is left of an earlier open.
Zeroed == /\ busy' = FALSE /\ sensor' = FALSE
          /\ handle' = FALSE /\ tzInit' = FALSE /\ opened' = FALSE /\ token' = 0
          /\ calibrated' = FALSE /\ app' = NewApp
          /\ failed' = FALSE /\ swallowed' = FALSE /\ stuck' = FALSE
          /\ overtaken' = Running

Init ==
    /\ phase = "closed" /\ todo = [t \in Threads |-> <<>>]
    /\ opKind = "SCAN" /\ busy = FALSE /\ sensor = FALSE
    /\ lib = FALSE /\ handle = FALSE /\ tzInit = FALSE /\ opened = FALSE /\ token = 0
    /\ calibrated = FALSE /\ app = NewApp
    /\ nopens = 0 /\ nops = 0
    /\ failed = FALSE /\ swallowed = FALSE /\ stuck = FALSE /\ overtaken = FALSE

-----------------------------------------------------------------------------
(* How a thread gets on with its calls. *)

Turn(t, call) == todo[t] # <<>> /\ Head(todo[t]) = call
\* A call through a handle that is there; see NullHandle for the other case.
Command(t, call) == Turn(t, call) /\ handle

Continue(t, calls) == todo' = [todo EXCEPT ![t] = calls]
Returns(t) == Continue(t, Tail(todo[t]))

\* The next n calls of a thread are what is left of vcs_init.
InitLeft(t, n) ==
    /\ \A i \in 1..n : todo[t][i] \in SetOf(InitCalls)
    /\ n < Len(todo[t]) => todo[t][n + 1] \notin SetOf(InitCalls)
After(t, n) == SubSeq(todo[t], n + 1, Len(todo[t]))

\* vcs_init returns an error.  vcs_start_authenticate and vcs_start_enroll give up
\* with tz.state claimed, open and close do not look at it.
InitFails(t) ==
    /\ \E n \in 0..Len(todo[t]) :
          /\ InitLeft(t, n)
          /\ Continue(t, IF n < Len(todo[t]) /\ todo[t][n + 1] = "spawn" THEN <<>> ELSE After(t, n))
    /\ failed' = TRUE
    /\ UNCHANGED <<swallowed, stuck, overtaken>>

\* vcs_resume stops at a command and reports success all the same.
InitSwallows(t) ==
    /\ \E n \in 0..Len(todo[t]) : InitLeft(t, n) /\ Continue(t, After(t, n))
    /\ swallowed' = TRUE
    /\ UNCHANGED <<failed, stuck, overtaken>>

Dies == phase' = "dead" /\ todo' = [t \in Threads |-> <<>>]

-----------------------------------------------------------------------------
(* vcs_init, vcs_resume and vcs_uninit. *)

VcsInit(t) ==
    /\ Turn(t, "vcsInit")
    /\ Continue(t, (IF tzInit THEN <<>> ELSE InitCalls) \o Tail(todo[t]))
    /\ UNCHANGED <<phase, opKind, busy, sensor, tzVars, counters, ghosts>>

\* QSEECom_start_app through the loader.  init_qsee's failure is not looked at, and
\* the table of functions it has freed is used: the process dies.
StartApp(t) ==
    /\ Turn(t, "startApp")
    /\ \/ /\ lib' = TRUE /\ handle' = TRUE /\ app' = NewApp
          /\ Returns(t) /\ swallowed' = FALSE /\ stuck' = FALSE
          /\ UNCHANGED <<phase, failed, overtaken>>
       \/ /\ "load" \in Faults /\ ~lib
          /\ Dies /\ failed' = TRUE
          /\ UNCHANGED <<lib, handle, app, swallowed, stuck, overtaken>>
       \/ /\ "fail" \in Faults
          /\ lib' = TRUE /\ InitFails(t)
          /\ UNCHANGED <<phase, handle, app>>
    /\ UNCHANGED <<opKind, busy, sensor, tzInit, opened, token, calibrated, counters>>

SetBandwidth(t) ==
    /\ Command(t, "setBandwidth")
    /\ \/ Returns(t) /\ tzInit' = TRUE /\ UNCHANGED ghosts
       \/ "fail" \in Faults /\ InitFails(t) /\ UNCHANGED tzInit
    /\ UNCHANGED <<phase, opKind, busy, sensor, handle, opened, token, calibrated, app, lib,
                   counters>>

\* A command of vcs_resume other than vendorEnterAuthSession goes wrong: "return
\* ret", which is 0 when the application refused.
ResumeError(t) == \/ "fail" \in Faults /\ InitFails(t)
                  \/ "refuse" \in Faults /\ InitSwallows(t)

Initialize(t) ==
    /\ Command(t, "initialize")
    /\ \/ Returns(t) /\ app' = [app EXCEPT !.initialized = TRUE] /\ UNCHANGED ghosts
       \/ ResumeError(t) /\ UNCHANGED app
    /\ UNCHANGED <<phase, opKind, busy, sensor, handle, tzInit, opened, token, calibrated, lib,
                   counters>>

\* Mutant: the session is not entered.
EnterNever(t) ==
    /\ Command(t, "enter")
    /\ Returns(t)
    /\ UNCHANGED <<phase, opKind, busy, sensor, tzVars, counters, ghosts>>

\* vendorEnterAuthSession, when a session is open.  "return resp->result", which is 0
\* when the command did not get through.  The application takes no token of zeroes.
Enter(t) ==
    /\ Command(t, "enter")
    /\ \/ ~opened /\ Returns(t) /\ UNCHANGED <<app, ghosts>>
       \/ opened /\ token # 0 /\ Returns(t) /\ app' = [app EXCEPT !.session = token]
          /\ UNCHANGED ghosts
       \/ opened /\ (token = 0 \/ "refuse" \in Faults) /\ InitFails(t) /\ UNCHANGED app
       \/ opened /\ "fail" \in Faults /\ InitSwallows(t) /\ UNCHANGED app
    /\ UNCHANGED <<phase, opKind, busy, sensor, handle, tzInit, opened, token, calibrated, lib,
                   counters>>

DeviceInitialize(t) ==
    /\ Command(t, "deviceInitialize")
    /\ \/ Returns(t) /\ app' = [app EXCEPT !.device = TRUE] /\ UNCHANGED ghosts
       \/ ResumeError(t) /\ UNCHANGED app
    /\ UNCHANGED <<phase, opKind, busy, sensor, handle, tzInit, opened, token, calibrated, lib,
                   counters>>

\* The first answer is kept and sent with every later calibration.
DeviceCalibrate(t) ==
    /\ Command(t, "deviceCalibrate")
    /\ \/ Returns(t) /\ calibrated' = TRUE /\ UNCHANGED ghosts
       \/ ResumeError(t) /\ UNCHANGED calibrated
    /\ UNCHANGED <<phase, opKind, busy, sensor, handle, tzInit, opened, token, app, lib, counters>>

VcsUninit(t) ==
    /\ Command(t, "vcsUninit")
    /\ Continue(t, UninitCalls \o Tail(todo[t]))
    /\ UNCHANGED <<phase, opKind, busy, sensor, tzVars, counters, ghosts>>

\* vcs_update_auth_token, when a session is open: a refusal keeps the old token; when
\* the command does not get through, the zeroed answer is taken for the token.
GetToken(t) ==
    /\ Turn(t, "getToken")
    /\ Returns(t)
    /\ \/ ~opened /\ UNCHANGED <<token, failed>>
       \/ opened /\ handle /\ token' = app.session /\ UNCHANGED failed
       \/ opened /\ handle /\ "refuse" \in Faults /\ failed' = TRUE /\ UNCHANGED token
       \/ opened /\ handle /\ "fail" \in Faults /\ failed' = TRUE /\ token' = 0
    /\ UNCHANGED <<phase, opKind, busy, sensor, handle, tzInit, opened, calibrated, app, lib,
                   counters, swallowed, stuck, overtaken>>

\* vfmUninitialize, QSEECom_set_bandwidth(false), QSEECom_shutdown_app; nobody looks
\* at a result, and a failure leaves the handle.  The first two go through vcs_uninit's
\* copy of tz.qhandle: if another thread has shut the application down since, that is
\* freed memory, and the thread gets on or dies (NullHandle).
ShutdownApp(t) ==
    /\ Turn(t, "shutdownApp")
    /\ Returns(t)
    /\ \/ handle' = FALSE /\ app' = NewApp /\ stuck' = FALSE /\ UNCHANGED failed
       \/ "fail" \in Faults /\ handle /\ failed' = TRUE /\ stuck' = TRUE
          /\ app' \in {app, NewApp} /\ UNCHANGED handle
    /\ UNCHANGED <<phase, opKind, busy, sensor, tzInit, opened, token, calibrated, lib, counters,
                   swallowed, overtaken>>

\* Mutant: tz.init stays set.
ClearInitNever(t) ==
    /\ Turn(t, "clearInit")
    /\ Returns(t)
    /\ UNCHANGED <<phase, opKind, busy, sensor, tzVars, counters, ghosts>>

ClearInit(t) ==
    /\ Turn(t, "clearInit")
    /\ Returns(t) /\ tzInit' = FALSE
    /\ UNCHANGED <<phase, opKind, busy, sensor, handle, opened, token, calibrated, app, lib,
                   counters, ghosts>>

SetIdle(t) ==
    /\ Turn(t, "idle")
    /\ Returns(t) /\ busy' = FALSE
    /\ UNCHANGED <<phase, opKind, sensor, tzVars, counters, ghosts>>

\* The last notice of a thread reads vdev; see UseDestroyed.
Notice(t) ==
    /\ Turn(t, "notice")
    /\ Returns(t)
    /\ UNCHANGED <<phase, opKind, busy, sensor, tzVars, counters, ghosts>>

-----------------------------------------------------------------------------
(* The authentication session and the sensor. *)

\* vcs_start_auth_session; nobody looks at its result.
SessionBegin(t) ==
    /\ Command(t, "sessionBegin")
    /\ Returns(t)
    /\ \/ opened' = TRUE /\ app' = [app EXCEPT !.session = nopens] /\ UNCHANGED failed
       \/ Faults \cap {"fail", "refuse"} # {} /\ failed' = TRUE /\ UNCHANGED <<opened, app>>
    /\ UNCHANGED <<phase, opKind, busy, sensor, handle, tzInit, token, calibrated, lib, counters,
                   swallowed, stuck, overtaken>>

\* vcs_stop_auth_session: an error is logged, the session closed all the same.
SessionEnd(t) ==
    /\ Command(t, "sessionEnd")
    /\ Returns(t)
    /\ opened' = FALSE /\ app' = [app EXCEPT !.session = 0]
    /\ UNCHANGED <<phase, opKind, busy, sensor, handle, tzInit, token, calibrated, lib, counters,
                   ghosts>>

SensorPower(t) ==
    /\ \/ Turn(t, "sensorInit") /\ sensor' = TRUE
       \/ Turn(t, "sensorUninit") /\ sensor' = FALSE
    /\ Returns(t)
    /\ UNCHANGED <<phase, opKind, busy, tzVars, counters, ghosts>>

-----------------------------------------------------------------------------
(* The entry points and the thread of an operation. *)

CallerFree == phase = "open" /\ todo[0] = <<>>

Open ==
    /\ phase = "closed" /\ nopens < MaxOpens
    /\ Zeroed
    /\ \/ phase' = "open" /\ Continue(0, OpenCalls)
       \/ "fail" \in Faults /\ UNCHANGED <<phase, todo>>    \* no sensor to open
    /\ nopens' = nopens + 1
    /\ UNCHANGED <<opKind, lib, nops>>

\* A start or a close takes note of the threads that have not returned.
Overtakes == overtaken' = (Running \/ (overtaken /\ failed))

\* fingerprint_authenticate or fingerprint_enroll, from the claim of tz.state on.  They
\* look at tz.state and not for the thread of the operation before, which may still have
\* sensor and application to shut down, and to report.
Start(kind) ==
    /\ CallerFree /\ ~busy /\ nops < MaxOps
    /\ busy' = TRUE /\ opKind' = kind
    /\ Continue(0, StartCalls) /\ Overtakes
    /\ nops' = nops + 1
    /\ UNCHANGED <<phase, sensor, tzVars, nopens, failed, swallowed, stuck>>

Spawn ==
    /\ Turn(0, "spawn")
    /\ \/ /\ todo' = [todo EXCEPT ![0] = Tail(@), ![nops] = WorkerCalls(opKind)]
          /\ UNCHANGED failed
       \/ "fail" \in Faults /\ Returns(0) /\ failed' = TRUE
    /\ UNCHANGED <<phase, opKind, busy, sensor, tzVars, counters, swallowed, stuck, overtaken>>

\* The operation ends, an enrolment possibly by an early return.  A cancellation seen by
\* vcs_check_state has reset tz.state already, and vendorUpdateCalData may have brought
\* a calibration.  The thread's copy of tz.qhandle may be freed memory by now, see
\* ShutdownApp.
Operate(t) ==
    /\ Turn(t, "operate")
    /\ \/ Returns(t) /\ UNCHANGED failed
       \/ /\ todo[t] = WorkerCalls("ENROLL") /\ Faults \cap {"fail", "refuse"} # {}
          /\ Continue(t, ErrorCalls) /\ failed' = TRUE
    /\ busy' \in {busy, FALSE} /\ calibrated' \in {calibrated, TRUE}
    /\ UNCHANGED <<phase, opKind, sensor, handle, tzInit, opened, token, app, lib, counters,
                   swallowed, stuck, overtaken>>

Close ==
    /\ CallerFree
    /\ Continue(0, CloseCalls)
    /\ UNCHANGED <<phase, opKind, busy, sensor, tzVars, counters, ghosts>>

\* fingerprint_cancel waits for STATE_IDLE, which is not the end of the thread: the
\* thread may have its last calls to make while close goes on.
Await ==
    /\ Turn(0, "await") /\ ~busy
    /\ Returns(0) /\ Overtakes
    /\ UNCHANGED <<phase, opKind, busy, sensor, tzVars, counters, failed, swallowed, stuck>>

\* The mutexes are destroyed, vdev is freed.
Free ==
    /\ Turn(0, "free")
    /\ phase' = "closed" /\ Returns(0)
    /\ UNCHANGED <<opKind, busy, sensor, tzVars, counters, ghosts>>

\* A thread that still runs takes a destroyed mutex or reads the freed vdev, which is
\* undefined: it goes on, like any ThreadStep, or the process dies.
UseDestroyed ==
    /\ phase = "closed" /\ Running
    /\ Dies
    /\ UNCHANGED <<opKind, busy, sensor, tzVars, counters, ghosts>>

\* handle->ion_sbuffer without a handle, or through a freed one: the process dies.
NullHandle ==
    /\ \E t \in Threads, call \in HandleCalls : Turn(t, call) /\ ~handle
    /\ Dies
    /\ UNCHANGED <<opKind, busy, sensor, tzVars, counters, ghosts>>

\* The service is started again.
Restart ==
    /\ phase = "dead"
    /\ phase' = "closed" /\ lib' = FALSE /\ Zeroed
    /\ UNCHANGED <<todo, opKind, counters>>

ThreadStep(t) == \/ VcsInit(t) \/ StartApp(t) \/ SetBandwidth(t) \/ Initialize(t) \/ Enter(t)
                 \/ DeviceInitialize(t) \/ DeviceCalibrate(t) \/ VcsUninit(t) \/ GetToken(t)
                 \/ ShutdownApp(t) \/ ClearInit(t) \/ SetIdle(t) \/ Notice(t)
                 \/ SessionBegin(t) \/ SessionEnd(t) \/ SensorPower(t)
Next == \/ Open \/ Spawn \/ Close \/ Await \/ Free \/ UseDestroyed
        \/ NullHandle \/ Restart
        \/ \E kind \in Kinds : Start(kind)
        \/ \E t \in Workers : Operate(t)
        \/ \E t \in Threads : ThreadStep(t)

Spec == Init /\ [][Next]_vars

-----------------------------------------------------------------------------
(* Properties. *)

\* The types of the declarations; a session, in the application or behind the token, is
\* one of the opens so far, and tz.init outlives the handle only until the shutdown's next
\* assignment.
TypeOK ==
    /\ phase \in {"closed", "open", "dead"} /\ opKind \in Kinds
    /\ DOMAIN todo = Threads /\ \A t \in Threads : SetOf(todo[t]) \subseteq Calls
    /\ busy \in BOOLEAN /\ sensor \in BOOLEAN /\ lib \in BOOLEAN
    /\ handle \in BOOLEAN /\ tzInit \in BOOLEAN
    /\ phase # "dead" /\ tzInit /\ ~handle => \E t \in Threads : Turn(t, "clearInit")
    /\ opened \in BOOLEAN /\ token \in 0..nopens /\ calibrated \in BOOLEAN
    /\ app \in [initialized : BOOLEAN, session : 0..nopens, device : BOOLEAN]
    /\ nopens \in 0..MaxOpens /\ nops \in 0..MaxOps
    /\ failed \in BOOLEAN /\ swallowed \in BOOLEAN /\ stuck \in BOOLEAN /\ overtaken \in BOOLEAN

\* An operation runs on an application that is set up as vcs_resume's comment lists:
\* initialized, in the authentication session of this open, which survives its
\* shutdowns only through tz.auth_token, with device and calibration; unless
\* vcs_resume took an error for success, or a start or a close did not wait for the end
\* of a thread, which then shuts the application down under the operation.  An operation
\* started after all these threads have returned, and none failed, is ready again.
SessionReady ==
    \A t \in Workers :
       Turn(t, "operate") /\ ~swallowed /\ ~overtaken =>
          /\ handle /\ app.initialized /\ app.device /\ calibrated
          /\ opened => app.session = nopens

\* When no call and no thread is left and tz.state is idle, the sensor is off, tz.init reset
\* and the application shut down unless QSEECom_shutdown_app itself failed: by every
\* operation if no call has failed since the open, however many threads ran into each
\* other, and by fingerprint_close whatever the operations before it left behind, be
\* their threads still running.
DeviceQuiet ==
    /\ phase # "dead" /\ ~busy /\ (\A t \in Threads : todo[t] = <<>>)
    /\ phase = "closed" \/ ~failed
    => ~sensor /\ ~tzInit /\ (handle => stuck)

\* The HAL dereferences tz.qhandle without looking at it, and is right to as long as
\* loading the application has not failed and neither fingerprint_close nor the next
\* start has overtaken the last calls of a thread, whose vcs_uninit then meets, or leaves
\* to a running operation, an application shut down, a destroyed mutex or a freed device.
DiesOnlyOfFailure == phase = "dead" => failed \/ overtaken

=============================================================================
