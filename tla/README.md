# Verification of the klte-common device code

TLA+ models of the programs in this repository that have logic of their own: the
fingerprint HAL (`fingerprint/`) and the camera HAL wrapper (`camera/`). The rest
of the tree is configuration, firmware, headers and build files for other
programs. `PROJECT.json` lists every part, the lines each definition models, the
runs and their mutants, the hazards and the theorems.

## 1. Inventory

### The fingerprint HAL

*Threads.* The fingerprint service calls the HAL from one binder thread. Each
enrolment or authentication has a worker thread (`vcs_enroll`,
`vcs_authenticate`), an enrolment with a timeout also a timer thread
(`vcs_timeout`). The sensor driver raises `SIGUSR2`, handled by
`sensor_process_signal`.

*State.* `tz.state` (idle, enroll, scan, cancel; read and written under `tz.lock`,
one access at a time), `tz.init` (trusted application loaded), `tz.finger` (the
table of fingers of the active group), `tz.timeout` (timer handle and condition),
`sensor.init`, `sensor.signal` and `sensor.cond` under `sensor.lock`, `vdev` (active
group, tokens, database, callback) under `vdev->lock`, and two files: the HAL's
sqlite database and, after an upgrade, Samsung's.

| part | operations | interaction | what makes it correct |
|---|---|---|---|
| capture session | authenticate, enroll, cancel, timeout, capture loop, notices | shared `tz.state`, two condition variables, two mutexes, a signal | no lost wake-up, an operation starts when the one before is done with the sensor, cancel is answered, sensor and application on exactly as long as needed, notices get through |
| finger table and database | load, convert, enrol, match, remove, switch group | the worker uses the table without `vdev->lock`; the process may die | table and database agree, the reported finger is the matching one, removed fingers stay away |
| open and close | `fingerprint_open`, `fingerprint_close` | destroys what threads may still use | the process dies of a failure only, the device is off after it |
| trusted application | `vcs_init`, `vcs_resume`, `vcs_uninit`, authentication session | one shared command buffer, a token kept across shutdowns | an operation finds the application set up and in the session of its open; it is shut down afterwards |
| enrolment authorisation | `pre_enroll`, `enroll`, `post_enroll`, `get_authenticator_id` | token and `op_id` shared with the worker | a notice never reports an earlier operation, the count of samples never lies, an announced finger is stored |
| hash | `hash_string`, `hash_file` | one global context | the digest is that of the message, at every block boundary and after every earlier use |
| QSEECom loader | `QSEEComAPI.c` | function pointers | calls only after loading |

Hard here: the check-then-set pairs on `tz.state`, the order in which a worker
gives things back, timers that outlive their operation, crashes between table and
file, and failures after half of a start.

### The camera wrapper

One module between the camera service and the vendor's library. It rewrites
parameters in both directions, keeps per camera the last parameters it sent
(`fixed_set_params`, needed to see that torch mode is being switched off), switches
the preview format for UHD recording, and routes callbacks through globals.
Correct means: memory of one camera does not leak into another or into a later
open, and what the app sees and sends back does not undo what the vendor needs.

### Not modelled

The USB and boot triggers (`rootdir/etc/*.rc`) are property triggers whose meaning is
that of init and of the kernel's gadget driver, neither of which is here: a model would
be one of those programs. The camera calls that are only forwarded change nothing of
the wrapper. Recovery keys, the camera shim, NFC firmware and configuration, `ril.h`,
audio, media, overlays, key layouts and build files have no state or no code: `ril.h`
(7362 lines) declares an interface implemented elsewhere and `libpn547_fw.c` (2891
lines) holds firmware images, so that three quarters of the lines of the repository's C
and C++ files have nothing to translate. All but comments, declarations and forwarding
calls of the rest is modelled. Which thread `SIGUSR2` interrupts, the contents of images
and templates, and shortage of memory are left out.

## 2. Plan

1. `FingerprintSession` and its proofs: the concurrent core. **Done.**
2. `EnrolledFingers` (abstract) and `FingerStore` (detailed): the promise of the
   database, and that the code keeps it. **Done**: every property is proved, the
   refinement too.
3. `CameraWrapper`. **Done**: every property is proved.
4. `TzSession`: the life of the trusted application, authentication session, open
   and close, also a close that overtakes a thread. **Done**: every property is proved.
5. `Sha1` and `AuthToken`: the hash, challenge, `secure_user_id` and `op_id` against late
   notices. **Done**: every invariant is proved.

`FingerStore` and `FingerprintSession` split one program by concern: the session module
has the threads and the locks and no fingers; the store module has the fingers and only
the places where a worker touches them. The store has one worker at a time, which the
code does not guarantee: `StartsAfterCapture` and `BusyMeansWorker` say that the second
operation after an open finds the thread before it behind its last capture, with one
exception; but `vcs_uninit` of an earlier thread resets `tz.state` once more, under a
later operation if there is one, and a third operation then finds an idle session that
is not. Two workers on one table are not modelled. `TzSession` looks at the same program
from the application's side: there an operation is one step between loading and shutting
down, and any number of threads may be on their way out. `AuthToken` looks at it from
the side of what the framework is told.

## 3. Modules

### FingerprintSession

A step is what lies between two accesses to shared state; in particular each
`get_tz_state` or `set_tz_state` is a step, so `a() != X && a() != Y` is two. Each
actor has a program counter: `cpc` (caller), `wpc[i]` and `tpc[i]` (worker and timer
of the i-th operation), `hpc` (handler). The mutexes held across steps are functions
of these: `VdevLockFree`, `SensorLockFree`. `tz.lock` and `tz.timeout.lock` protect
single accesses and disappear. A wait on a condition variable is the label
`"waiting"`; a signal moves one waiter back to its loop, and spurious wake-ups are
actions.

Commands to the trusted application are their outcomes: success, refusal, or, when
`"tz"` is in `Faults`, failure. `"start"` in `Faults` lets `vcs_init` and
`pthread_create` fail. `Timeouts` says whether enrolments have a timer and whether it
may run out. `Settled` says whether the framework starts an operation only when the
previous thread has returned: it waits for the notice that ends an operation, which
an enrolment sends before its thread has returned, so both values occur.

The handler is modelled as a thread; a signal delivered to a thread that holds one
of the mutexes the handler takes is not modelled. `NoLostWakeup` names the one exception
the code makes (`TimedOut`: a timer that has run out cancels without signalling), and
`BusyMeansWorker` the other (`StartFailed`). Enrolments come with a token that passes
the checks of `fingerprint_enroll`.

### FingerStore and EnrolledFingers

`finger` is `tz.finger` with its unused entry 0, `db[g]` a table of the database,
`old` Samsung's file. `memset` of `MAX_NUM_FINGERS` entries is `Cleared`, exactly as
far as it reaches. Loading a group is one step under `vdev->lock`; the conversion is
one step per row, because each row is a transaction of its own and the process may
die in between; removing all fingers is one step per finger. `Exclusive` says
whether the framework leaves the table alone while a session runs; when it does not, the
ghost `touched` remembers that the running worker's table was changed. The ghost
`strayed` remembers the two events after which removed fingers can come back: Samsung's
database could not be opened or unlinked, or a row was inserted from a table that was
changed under the enrolment. Failing calls of sqlite are `Faults`; a failing `"select"`,
or a database that could not be opened, delivers no rows, and nobody looks at it. `gone`
gets a template only with its row: a removal of the ghost in the last entry, which has no
row in the active group, is reported as well and retires nothing.

`EnrolledFingers` is the promise to the framework: templates are added under free
ids, removed templates are retired for good, and nothing else changes. `FingerStore`
implements it with `enrolled <- db` and `retired <- gone`, where `gone` collects what
was reported as removed.

### TzSession

A thread is the sequence of calls it still has to make: thread 0 is the framework's,
thread n that of operation n. `OpenCalls`, `StartCalls`, `CloseCalls`, `WorkerCalls` and
`ErrorCalls` are the bodies of the HAL's functions, the notices after the last reset of
`tz.state` included, and `vcs_init` and `vcs_uninit` expand in place to `InitCalls` and
`UninitCalls`. Each call is an action with its outcomes: success, refusal by the
application (`"refuse"`), failure on the way (`"fail"`), and for the loader a missing
library (`"load"`). The HAL's variables are fields of `tz` and `sensor`; the external
application is the record `app`, which is lost at every shutdown, so that the
authentication session of an open lives on only in `tz.auth_token`. `QSEECom_shutdown_app`
and `tz.init = false` are two steps, and the first may fail unnoticed (ghost `stuck`).
`vcs_resume` reports some errors as success (`return ret` after a refusal, `return
resp->result` after a command that did not get through): these paths are `InitSwallows`,
and the ghost `swallowed` remembers them. The ghost `failed` remembers any other failure
since the open. A call through a missing handle kills the process (`NullHandle`); so does
the loader after a failed load. A thread that works on a copy of a handle which another
has given back meanwhile uses freed memory: it gets on or the process dies.

`vcs_start_authenticate`, `vcs_start_enroll` and `fingerprint_close` look for
`STATE_IDLE` and nothing else, which a thread reports before its last calls. So `Start`
needs only an idle `tz.state` and `Await` waits only for it; when either finds a thread
that has not returned, the ghost `overtaken` is set: that thread's calls then interleave
with those of the new operation, of close and of the next open, or come after close, where
a destroyed mutex or the freed `vdev` may or may not kill the process (`UseDestroyed`).
`overtaken` is reset by the first start or close that finds all threads returned and
nothing failed, and by an open without a thread left.

### Sha1 and AuthToken

`Sha1` is the life of the global context `sha`: `hash_file` and `hash_string` reset it and
start on a message, `SHA1Input` takes one byte of it per step, `SHA1Result` pads what is
left, and the next message finds what this one left in `Message_Block`. The functions of
`hash.c` are operators on a context, with the sizes of blocks, words and bytes as
constants (64, 2^32 and 256 in the code). The compression of a block is a calculation
without a decision; the digest is the sequence of blocks compressed so far, which is to
say that it has no collisions; accordingly `convert_hash_to_number`, which keeps 64 of the
160 bits, keeps all of it. `Reference` is the same hash as SHA-1 is defined: pad the
whole message, cut it into blocks. `DigestOfInput` compares the two. What `sha1_hash`
returns when the counters have overflowed is ignored by its callers; no file that is read
and no token is long enough for it.

`AuthToken` has one action per entry point, since the framework calls them one after
the other, and a program counter per thread. The three fields a notice is built from
are read in three steps, because `send_authenticated_notice` reads them without
`vdev->lock` after `tz.state` has gone idle. The number of a message is a value of its own
for each message: that it depends on the message alone is what `Sha1` shows, that no two
messages share one is the abstraction made there. `tz.auth_token` is rewritten by every
`vcs_uninit`, with any of `TokenPrefixes` bytes before its first 0: `hash_string` takes it
for a string and runs into the field behind it when there is none. The framework counts
its operations, and its tokens carry a challenge that `pre_enroll` has returned at some
time (ghost `handed`), or 0, which passes the check before any `pre_enroll` and after
`post_enroll`. `secure_user_id` is written by any `enroll` whose challenge fits, a refused
one too, so that the user of a running enrolment may change; `told` is what the framework
was told last of the samples that remain. The ghost `undisturbed` has the operations since
whose start no call has written a field.

`MCToken` checks the two in one run. They share no variable (the context is the caller's
alone), so that a step of one commutes with every step of the other, and each is explored
in full while the other is in its first state.

### CameraWrapper

Parameters are records of the keys that influence one another: flash mode is torch,
recording hint, UHD size, private preview format, and whether the wrapper set ZSL.
An entry of `fixed_set_params` is null, live or freed, with the flash mode it holds:
reading freed memory gives any value. The vendor's library is external: it keeps
what it is sent, or refuses it, which the wrapper does not notice (ghost `refused`).
`camera_set_callbacks` is three steps, the functions, the cookie, and the vendor's device,
and the vendor's thread reads functions and cookie one by one (`Event`), since no lock is
held on either side; the vendor's close is taken to wait for its thread. The calls on one
camera come one after the other. `camera_set_parameters` is one step, although it holds no
lock either: an open of another camera in the middle of it is left out. The check
`camera_id > num_cameras` lets the id `num_cameras` through; that the vendor has no such
camera keeps the array from being overrun. Calls that are only forwarded change nothing
and have no action.

## 4. Runs

| run | constants | checks |
|---|---|---|
| `session_settled` | 2 operations, nothing fails, timeouts may run out | `TypeOK`, `SessionOwnsDevice`, `NoLostWakeup` |
| `session_eager` | 2 operations, the second may start while the first thread is returning, no timeouts, failing commands and starts | `BusyMeansWorker`, `StartsAfterCapture` |
| `session_cancel` | 1 operation, 2 samples, all faults, fairness | `NoLostWakeup`, `NoticeDelivered`, `LiveCancelAnswered` |
| `session_cancel_race` | 1 operation, no faults, fairness | `CancelAnswered` fails |
| `session_partial_enroll` | 1 operation, 2 samples | `EnrollComplete` fails |
| `store_crash` | 2 fingers, 2 groups, 3 enrolments, crashes | `TypeOK`, `StoredIsLoaded`, `LoadedIsStored`, `GoneStaysGone`, `KeepsPromise` |
| `store_match` | 2 fingers, 2 groups, 1 enrolment, crashes, all faults, calls under a running worker | `ReportsTheMatch`, `SlotInArray`, `GoneStaysGone` |
| `store_ghost` | 2 groups | `TableIsActiveGroup` fails |
| `tz_session` | 2 opens, 2 operations, a start or a close may overtake a thread, all faults | `TypeOK`, `SessionReady`, `DeviceQuiet`, `DiesOnlyOfFailure` |
| `token_session` | 2 operations, 2 samples, 2 hashes, fairness; blocks of 8 bytes, words of 16 values, files of 0 to 41 bytes, strings of 0 to 16 | `TypeOK`, `NoticeOfOperation`, `CountdownHonest`, `AnnouncedIsStored`, `FinalNoticeKept`; `ContextOK`, `DigestOfInput` |
| `camera_single` | 2 cameras, one at a time, 3 opens | `TypeOK`, `NoDanglingEntry`, `VenusOnlyForUhd`, `EventsReachClient`, `TorchOffLeavesZsl` |
| `camera_concurrent` | 2 cameras at once | `TorchOffLeavesZsl` fails |

*Bounds.* Two operations are enough for every property that relates an operation to
the one before it (a stale timer, signal or tail). They do not show what a thread does to
the operation after the next, and the theorems with which the session properties are
proved for any number of operations say for which of them this matters:
`StartsAfterCapture` is about the second operation only, because the third can find the
second's session reset by the first's `vcs_uninit`. One
operation suffices for liveness, where the question is what a single thread does with
a cancellation. One sample already has the three outcomes of an image (accepted and
complete, accepted and not, refused), two let an enrolment be interrupted in the
middle. Two fingers give a table with a first and a last entry, of which only the last
escapes `memset`, and a hole in front of the second when the first is removed. Two groups and three
enrolments let a slot be filled, freed and filled again across a switch. Three opens
let a camera be reopened after another one. Two opens of the HAL let the session or a
thread of one leak into the next, and two operations let one overtake the other, or fail
half-way before it; what more of either could do is covered by the theorems, which have
no bound. In `token_session` the
token has a 0 of its own or runs into the field behind it, and two hashes let a challenge
be replaced or a database be asked for again. For the hash blocks have 8 bytes with
the length in the last two, and a word has 16 values: messages end at every index of a
block, the counters carry at every second byte and overflow at 32, and 39 bytes are read
of a longer file. Any message follows any other.

*Deadlock* is not checked in the session runs: the number of operations is bounded,
and `fingerprint_enroll` without a free finger waits for itself (`"noSpace"`). It is not
checked in `tz_session` and `token_session` either: a failed start leaves `tz.state`
claimed, and `fingerprint_close` or `fingerprint_cancel` then waits for ever.

*Fairness* (`session_cancel`, `session_cancel_race`). Threads are scheduled by the
kernel, so each worker and each call once entered is weakly fair. Steps that wait for
`vdev->lock`, `sensor.lock` or a polled state are strongly fair: the mutexes of the
platform are not starved for ever by holders that keep releasing them, and the polling
loops sleep 100 ms and look again. Nothing makes the framework call, a finger touch the
sensor, a timeout run out or a waiting thread wake without a signal. `token_session` needs
less: a thread that has left the sampling loop goes on to its end.

*What the failing runs show.* `session_cancel_race`: `fingerprint_cancel` finds the
session busy, the worker goes idle for the last time, then `STATE_CANCEL` is set and
nobody resets it: the call never returns and the notice it owes is never sent.
`session_partial_enroll`: a cancellation between two samples leaves the loop of
`vcs_enroll` by its condition, not by `goto out`, and the unfinished finger is stored.
`store_ghost`: finger 5 of the old group is matched in the new one.
`camera_concurrent`: opening
another camera, even without success, forgets that torch was on.

## 5. Proofs

The theorems hold for every value of the constants that the modules' assumptions allow:
any number of operations, opens, fingers, groups, cameras and samples. A further
assumption is one of the constants that say what the framework or the platform does,
and it is where the code stops keeping the property.

| module | theorem | statement | assumptions |
|---|---|---|---|
| `FingerprintSessionProofs` | `TypeCorrect` | `TypeOK` | none |
| | `BusyIsBacked` | `BusyMeansWorker` | none |
| | `SecondStartsAfterCapture` | `StartsAfterCapture` | no timeout runs out |
| | `WakeupsAreNotLost` | `NoLostWakeup` | operations follow one another |
| | `DeviceOwned` | `SessionOwnsDevice` | operations follow one another, nothing fails |
| `FingerStoreProofs` | `StoreTypes` | `TypeOK` | none |
| | `EnrollsInsideTable` | `SlotInArray` | none |
| | `ReportsWhatMatched` | `ReportsTheMatch` | none |
| | `RemovedStaysRemoved` | `GoneStaysGone` | none |
| | `EveryFingerLoaded` | `StoredIsLoaded` | `Exclusive`, `Faults = {}` |
| | `NothingElseLoaded` | `LoadedIsStored` | `Exclusive`, `Faults = {}` |
| | `StoreKeepsPromise` | `KeepsPromise` | `Exclusive`, `Faults = {}` |
| `TzSessionProofs` | `TzTypes` | `TypeOK` | none |
| | `DiesOfFailure` | `DiesOnlyOfFailure` | none |
| | `QuietAtRest` | `DeviceQuiet` | none |
| | `ReadyToOperate` | `SessionReady` | none |
| `AuthTokenProofs` | `CountsDown` | `CountdownHonest` | none |
| | `NoticesOfOperation` | `NoticeOfOperation` | none |
| | `TokenTypes` | `TypeOK` | none |
| | `AnnouncedFingers` | `AnnouncedIsStored` | none |
| `Sha1Proofs` | `HashTypes` | `ContextOK` | none |
| | `DigestComputed` | `DigestOfInput` | none |
| `CameraWrapperProofs` | `CameraTypes` | `TypeOK` | none |
| | `VenusForUhd` | `VenusOnlyForUhd` | none |
| | `EntriesAlive` | `NoDanglingEntry` | one camera open at a time |
| | `EventsRouted` | `EventsReachClient` | one camera open at a time |
| | `TorchOffKeepsZsl` | `TorchOffLeavesZsl` | one camera open at a time |

### The session

The exceptions in the properties and the assumptions are where the code stops keeping
them: a failed start leaves `tz.state` busy, `vcs_timeout` sets `STATE_CANCEL` without
signalling `sensor.cond` and may do so to a later operation, an operation started early
is powered off by the tail of the previous one, and `vcs_enroll`'s early returns leave
the sensor on.

`TypeOK` is not inductive: that the sample count stays above zero depends
on where the worker is, and that operation numbers stay in range depends on the
caller. `TypeInv` adds `Counting`, which says both. `BusyMeansWorker` is inductive with
the types: a worker stops being live only by setting idle. `StartsAfterCapture` rests on
`FirstInv`: a claim finds what its busy check has read, and while there is one operation
its worker captures only under a `tz.state` that is not idle, the one place of the
exception aside; without timeouts nobody but caller and worker writes it
(`QuietTimers`). With a second worker this is lost: the first one's `vcs_uninit` writes
too. `WakeInv` adds to
`NoLostWakeup` that there is one session at a time (so that a signal wakes the only
waiter), that an operation being started has no timer yet (`NewTimers`), and `Watching`:
what the worker has read under `sensor.lock` is still true while it holds the lock, or
somebody is on the way to signal. `DeviceInv` says which of sensor and application are
still on at each place of a worker's way out. The case analysis over a worker's code is
done once, in `WorkerShape`.

### The finger table and its database

`TypeInv` adds to the types where the loops of the conversion and of the removal stand
(`LoopInv`). `WorkerInv` says what a worker may rely on at each of its steps as long as
nobody touched its table: there is room before the samples, the slot is free until it is
filled, and the rank it was answered still points to the finger that matched.
`GoneStaysGone` says of the database only that it has no retired template, which a
removal followed by a load does not preserve by itself: `GoneInv` adds that a template
has one place (`OnePlace`; otherwise a removal would leave a copy behind), that the table
holds no retired template either and the next one is new (`Accounted`, `NewTemplate`),
and that while Samsung's file is there nothing but its conversion has happened
(`Converting`): a crash before the file is unlinked converts the same rows again, and
none of them has been removed yet. `TableInv` relates table and rows, row by row during
the conversion. The refinement is proved step by step from `GoneInv` and `TableInv`: the
initial states map to initial states, an insert or a converted row maps to `Add` of a
template that was never enrolled under an id that is free, a delete to `Remove` of
its template, and every other step, crashes included, to a stutter.

`Exclusive` and `Faults = {}` are needed: without them a row that could not be written
leaves table and database apart, and a group switch under an enrolment inserts the finger
in the other group; `GoneStaysGone` is proved without them because it names what it
excludes (`strayed`).

### The trusted application

The properties are about the moment a call is made, the invariants about all the calls
that are left. `EndsOff` says of a sequence of calls that what is on before it is off
after it, `Supplied` that each call that needs the application finds it loaded. Both are
kept when the first call is made, when `vcs_init` or `vcs_uninit` expands in place, and
when a failing `vcs_init` drops the rest of itself; these are lemmas on sequences
(`EndsOffTail`, `EndsOffConcat`, `EndsOffAfter`, and the same for `Supplied`). Every step
of a thread has one of five effects (`StepForms`), which is the only place where the
actions are looked at one by one for the safety of handle and sensor. On this rest:
`BaseInv`, which is the types, who may have what calls left (`ShapeInv`: a thread meets an
entry point under way, or another thread, only if a start or a close overtook it), that
the operation being started has no thread yet (`NumberInv`), and that `tz.init` without a
handle is about to be reset (`PendingInv`); `QuietInv`, what open and close switch off even
when they are interleaved with threads, which switch nothing on, and that after an
operation without failures some thread still has to switch off whatever is on; and
`SuppliedInv`, from which `DiesOnlyOfFailure` follows. `fingerprint_close` is supplied
whether or not the threads leave the application loaded, which is why an idle `tz.state`
is enough for it when they have returned. For `SessionReady`, `ReadyInv` follows the
start of an operation from call to call (`Stage`): how far the application is set up,
given that a token that is not zero stands for this open's session (`Values`) and that an
application that is still loaded when an operation starts is a set up one. All of it
holds until a thread is overtaken, and again from the next start with all threads returned
and nothing failed, where `QuietInv` says that the application is not loaded.

### The enrolment authorisation

`CountInv` says that what the framework was told last is at least what is left: a notice
that is dropped leaves it where it was while the count goes down, and the count is held at
one when the application wants more than was counted, so that no step raises it.
`NoticeInv` says of a thread between its
three reads that what it has read so far is still what the fields hold if no call has
come in between, and that `op_id` is never behind a thread that authenticates. `TypeOK`
is `FieldInv` together with `TokenInv`, which has the records of the threads and that none
counts samples below zero. `StoreInv` says where a thread can be once it has announced its
last sample: between the loop and the table, or behind both with the finger stored. That
no later call gets the thread's record is part of `TokenInv`.

### The hash

The assumptions on the sizes are those of the module: the length is written at the end of
a block and leaves room for the mark, and a word counts whole bytes (`WordSize % 8 = 0`).
The code's sizes satisfy them. `HashInv` relates the context to the bytes taken so far:
the two counters, read as one number, count their bits (`Counted`), and they are spread
over k compressed blocks, which are the first k of the message (`Chunks`), and the first
`index` bytes of `Message_Block` (`Spread`); behind these the block may hold anything of
earlier messages. `TakeByte` shows that a byte more keeps this, or makes both counters
zero at exactly `WordSize * WordSize` bits (`CountByte`). The end of the message is the
case that `SHA1PadMessage` distinguishes: `PadEffect` says which one or two blocks it
compresses, `ShortPadding` and `LongPadding` that these are, byte by byte, the last ones
of the padded message, whose number is `BlockCounts`. Taking a byte per step is what makes
this an induction over steps and not over the message.

### The camera wrapper

`VenusInv` adds to `VenusOnlyForUhd` the parameters the app sees, which never hold the
private format, and closed cameras. `SingleInv` says that the entry of the one open camera
is live and remembers what the vendor has, unless it refused it; an open of a second camera
breaks this, which `camera_concurrent` shows of `TorchOffLeavesZsl`. `RouteInv` says how
much of the globals is the client's own at each point of `camera_set_callbacks`: everything
before the vendor's device learns of the callbacks, so that events find the client's
functions and cookie, and a registration that is repeated writes the same ones again.

### Only model-checked

Liveness, which needs fairness and is beyond the prover: `NoticeDelivered`,
`LiveCancelAnswered`, `FinalNoticeKept`. Of the last one the safety half is proved
(`AnnouncedFingers`). Every invariant and action property of a passing run is proved. The
failing runs state what the code does not do.
