------------------------------ MODULE AuthToken -----------------------------
(***************************************************************************)
(* Enrolment authorisation and what the notices of an operation say: the   *)
(* fields op_id, challenge, secure_user_id and authenticator_id of         *)
(* vcs_fingerprint_device_t, the entry points that write them, the threads *)
(* that read them (fingerprint/fingerprint.c, fingerprint_tz.c).  The      *)
(* hashes two of them come from are the subject of Sha1; here a message    *)
(* has a number of its own.                                                *)
(*                                                                         *)
(* The framework calls the entry points from one thread, one after the     *)
(* other.  The thread of an operation reads the fields without vdev->lock, *)
(* so that its steps lie between those calls in every way, also when it is *)
(* still returning while the next operation runs.  How operations claim    *)
(* tz.state, capture and are cancelled is the subject of                   *)
(* FingerprintSession and only kept as far as it decides what is reported. *)
(***************************************************************************)
EXTENDS Integers, Sequences, FiniteSetsExt

CONSTANTS
    MaxCalls,       \* bound: calls of authenticate and enroll in one behaviour
    MaxHashes,      \* bound: calls of pre_enroll and get_auth_id in one behaviour
    Users,          \* secure user ids of the framework's tokens; 0 is no user
    Samples,        \* samples of an enrolment: 8
    TokenLength,    \* AUTH_TOKEN_LENGTH
    TokenPrefixes,  \* how many bytes of a token may come before its first 0
    FileLengths     \* lengths the database may have

ASSUME TokenAssumption ==
    /\ MaxCalls \in Nat /\ MaxHashes \in Nat /\ Users \subseteq Nat
    /\ Samples \in Nat \ {0} /\ TokenLength \in Nat /\ TokenPrefixes \subseteq 0..TokenLength
    /\ FileLengths \subseteq Nat

Calls == 1..MaxCalls

VARIABLES
    authToken,  \* tz.auth_token: its content and the bytes before its first 0
    state,      \* tz.state
    timer,      \* the timer of an enrolment is running
    challenge, secureUser, opId, authId,    \* the fields of vdev
    waiting,    \* fingerprint_cancel waits for STATE_IDLE
    worker,     \* worker[n]: the thread call n has created
    stored,     \* the calls whose finger is in tz.finger
    calls, hashes,
    handed,     \* ghost: the challenges pre_enroll has returned
    undisturbed \* ghost: the operations since whose start no call has written a field

fields == <<challenge, secureUser, opId, authId>>
threads == <<worker, stored>>
counters == <<calls, hashes>>
ghosts == <<handed, undisturbed>>
vars == <<authToken, state, timer, fields, waiting, threads, counters, ghosts>>

\* The bytes of a content, told apart by its id and their place, none of them 0.
Content(id, length) == [i \in 1..length |-> 1000 * id + i]

\* Contents no two of which are alike.
TokenContent(n) == n
SessionContent == MaxCalls + 1
FileContent == MaxCalls + 2

\* What strlen makes of memory: the bytes before the first 0.
CString(memory) == SubSeq(memory, 1, Min({i \in DOMAIN memory : memory[i] = 0}) - 1)

\* Numbers: Sha1 shows that the number of a message depends on the message alone, and
\* takes it that no two messages have the same.
Zero == <<>>
One == <<1>>    \* hash_file's answer when there is no file
NumberOfFile(file) == <<"sha1", file>>
NumberOfString(memory) == <<"sha1", CString(memory)>>

Unsent == [op |-> 0, auth |-> Zero, user |-> 0]
NoThread == [pc |-> "none", left |-> Samples, told |-> Samples, notice |-> Unsent]

Init ==
    /\ authToken = [content |-> 0, prefix |-> 0]
    /\ state = "IDLE" /\ timer = FALSE
    /\ challenge = Zero /\ secureUser = 0 /\ opId = 0 /\ authId = Zero
    /\ waiting = FALSE
    /\ worker = [n \in Calls |-> NoThread] /\ stored = {}
    /\ calls = 0 /\ hashes = 0
    /\ handed = {} /\ undisturbed = {}

-----------------------------------------------------------------------------
(* The entry points. *)

CallerFree == ~waiting

\* tz.auth_token, the rest of it zeroed, or auth_session_token behind it when the token
\* has no 0 of its own.
TokenMemory == Content(authToken.content, authToken.prefix) \o
    (IF authToken.prefix < TokenLength THEN <<0>>
     ELSE Append(Content(SessionContent, TokenLength), 0))

\* hash_string of the token.
fingerprint_pre_enroll ==
    /\ CallerFree /\ hashes < MaxHashes
    /\ challenge' = NumberOfString(TokenMemory)
    /\ handed' = handed \cup {challenge'}
    /\ hashes' = hashes + 1
    /\ UNCHANGED <<authToken, state, secureUser, opId, authId, waiting, timer, threads, calls,
                   undisturbed>>

fingerprint_post_enroll ==
    /\ CallerFree
    /\ challenge' = Zero
    /\ UNCHANGED <<authToken, state, secureUser, opId, authId, waiting, timer, threads,
                   counters, handed, undisturbed>>

\* hash_file of the database, which is FingerStore's concern: here a file of any of the
\* lengths, or none.
fingerprint_get_auth_id ==
    /\ CallerFree /\ hashes < MaxHashes
    /\ \/ \E length \in FileLengths : authId' = NumberOfFile(Content(FileContent, length))
       \/ authId' = One
    /\ undisturbed' = {} /\ hashes' = hashes + 1
    /\ UNCHANGED <<authToken, state, challenge, secureUser, opId, waiting, timer, threads, calls,
                   handed>>

\* vcs_start_authenticate and vcs_start_enroll: refused when busy; a failure of vcs_init
\* or pthread_create leaves tz.state claimed without a thread.
StartThread(claim, pc) ==
    \/ /\ state = "IDLE" /\ state' = claim
       /\ worker' = [worker EXCEPT ![calls'] = [@ EXCEPT !.pc = pc]]
    \/ state = "IDLE" /\ state' = claim /\ UNCHANGED worker
    \/ state # "IDLE" /\ UNCHANGED <<state, worker>>

\* Mutant: op_id is set when it is not set yet.
AuthenticateFirstId ==
    /\ CallerFree /\ calls < MaxCalls
    /\ calls' = calls + 1
    /\ opId' = IF opId = 0 THEN calls' ELSE opId
    /\ StartThread("SCAN", "scan")
    /\ undisturbed' = {calls'}
    /\ UNCHANGED <<authToken, challenge, secureUser, authId, waiting, timer, stored,
                   hashes, handed>>

\* The framework counts its operations: the id of call n is n.  op_id is set even if the
\* call is refused.
fingerprint_authenticate ==
    /\ CallerFree /\ calls < MaxCalls
    /\ calls' = calls + 1
    /\ opId' = calls'
    /\ StartThread("SCAN", "scan")
    /\ undisturbed' = {calls'}
    /\ UNCHANGED <<authToken, challenge, secureUser, authId, waiting, timer, stored,
                   hashes, handed>>

\* The token carries a challenge that pre_enroll has returned at some time, or 0, which is
\* the HAL's own before pre_enroll and after post_enroll.  Its user is taken over before
\* version and type are looked at, also under a running enrolment; a token of another
\* challenge is good enough if it comes from a fingerprint.  A null token changes nothing,
\* and a full table is met in FingerprintSession.
fingerprint_enroll(hat) ==
    /\ CallerFree /\ calls < MaxCalls
    /\ calls' = calls + 1
    /\ secureUser' = IF hat.challenge = challenge THEN hat.user ELSE secureUser
    /\ IF hat.version /\ (hat.challenge = challenge \/ hat.fingerprint)
       THEN /\ StartThread("ENROLL", "enroll")
            /\ timer' = (timer \/ worker' # worker)
       ELSE UNCHANGED <<state, worker, timer>>
    /\ undisturbed' = {}
    /\ UNCHANGED <<authToken, challenge, opId, authId, waiting, stored,
                   hashes, handed>>

Busy == state \in {"ENROLL", "SCAN"}

\* The timer is woken and joined before tz.state is looked at.
fingerprint_cancel ==
    /\ CallerFree
    /\ timer' = FALSE
    /\ IF Busy THEN state' = "CANCEL" /\ waiting' = TRUE ELSE UNCHANGED <<state, waiting>>
    /\ UNCHANGED <<authToken, fields, threads, counters, ghosts>>

CancelAnswered ==
    /\ waiting /\ state = "IDLE"
    /\ waiting' = FALSE
    /\ UNCHANGED <<authToken, state, timer, fields, threads, counters, ghosts>>

\* vcs_timeout, which may outlive the enrolment it was started for.
vcs_timeout ==
    /\ timer /\ timer' = FALSE
    /\ state' = IF Busy THEN "CANCEL" ELSE state
    /\ UNCHANGED <<authToken, fields, waiting, threads, counters, ghosts>>

-----------------------------------------------------------------------------
(* The thread of an operation. *)

Goto(n, pc) == worker' = [worker EXCEPT ![n].pc = pc]

\* vcs_uninit: tz.auth_token is fetched from the application, which may refuse; when
\* the command does not get through the zeroed answer is the token.
vcs_uninit(n) ==
    /\ authToken' \in [content : {TokenContent(n)}, prefix : TokenPrefixes]
                      \cup {authToken, [content |-> 0, prefix |-> 0]}
    /\ state' = "IDLE"

\* An image is captured for an operation that was not cancelled before; the operation
\* goes on with it even if it is cancelled now.
Capture(n) ==
    /\ \/ worker[n].pc = "scan" /\ state = "SCAN" /\ Goto(n, "match")
       \/ worker[n].pc = "enroll" /\ state = "ENROLL" /\ Goto(n, "sample")
    /\ UNCHANGED <<authToken, state, fields, waiting, timer, stored, counters, ghosts>>

\* vcs_start_capture fails: vcs_check_state has seen a cancellation and reset tz.state,
\* or a command did not get through.
CaptureFails(n) ==
    /\ \/ worker[n].pc = "scan" /\ Goto(n, "miss")
       \/ worker[n].pc = "enroll" /\ Goto(n, "out")
    /\ state' = IF state = "CANCEL" THEN "IDLE" ELSE state
    /\ UNCHANGED <<authToken, fields, waiting, timer, stored, counters, ghosts>>

\* vcs_authenticate's loop: the image matches, is refused, or is not looked at; the loop
\* also ends when tz.state is another at its head.
Match(n) ==
    /\ \/ worker[n].pc = "match" /\ (Goto(n, "hit") \/ Goto(n, "scan") \/ Goto(n, "miss"))
       \/ worker[n].pc = "scan" /\ state # "SCAN" /\ Goto(n, "miss")
    /\ UNCHANGED <<authToken, state, fields, waiting, timer, stored, counters, ghosts>>

\* vcs_authenticate reports idle twice, in vcs_uninit and after it: the second time it
\* may reset the tz.state of the operation after it.
AuthenticateOut(n) ==
    /\ \/ worker[n].pc = "hit" /\ Goto(n, "hitIdle") /\ vcs_uninit(n)
       \/ worker[n].pc = "miss" /\ Goto(n, "missIdle") /\ vcs_uninit(n)
       \/ worker[n].pc = "hitIdle" /\ Goto(n, "readOp") /\ state' = "IDLE" /\ UNCHANGED authToken
       \/ worker[n].pc = "missIdle" /\ Goto(n, "done") /\ state' = "IDLE" /\ UNCHANGED authToken
    /\ UNCHANGED <<fields, waiting, timer, stored, counters, ghosts>>

\* send_authenticated_notice: three fields, read one by one, no lock held.
Read(n, pc, next, field, value) ==
    /\ worker[n].pc = pc
    /\ worker' = [worker EXCEPT ![n].pc = next, ![n].notice[field] = value]
    /\ UNCHANGED <<authToken, state, fields, waiting, timer, stored, counters, ghosts>>
send_authenticated_notice(n) ==
    \/ Read(n, "readOp", "readAuth", "op", opId)
    \/ Read(n, "readAuth", "readUser", "auth", authId)
    \/ Read(n, "readUser", "sent", "user", secureUser)

\* Mutant: a last sample that the application does not count as the last is not held back.
SampleUncapped(n) ==
    /\ worker[n].pc = "sample"
    /\ \E last \in BOOLEAN :
        LET left == IF last THEN 0 ELSE worker[n].left - 1
        IN worker' = [worker EXCEPT ![n].left = left,
                                    ![n].told = IF secureUser = 0 THEN @ ELSE left,
                                    ![n].pc = IF last THEN "finish" ELSE "enroll"]
    /\ UNCHANGED <<authToken, state, fields, waiting, timer, stored, counters, ghosts>>

\* Mutant: an application that wants more samples than were counted starts the count again.
SampleRestarts(n) ==
    /\ worker[n].pc = "sample"
    /\ \E last \in BOOLEAN :
        LET counted == worker[n].left - 1
            left == IF last THEN 0 ELSE IF counted = 0 THEN Samples ELSE counted
        IN worker' = [worker EXCEPT ![n].left = left,
                                    ![n].told = IF secureUser = 0 THEN @ ELSE left,
                                    ![n].pc = IF left = 0 THEN "finish" ELSE "enroll"]
    /\ UNCHANGED <<authToken, state, fields, waiting, timer, stored, counters, ghosts>>

\* vcs_enroll's loop: the application takes the image, says whether it was the last one,
\* and the framework is told how many remain, if there is a secure user.
Sample(n) ==
    /\ worker[n].pc = "sample"
    /\ \E last \in BOOLEAN :
        LET counted == worker[n].left - 1
            left == IF last THEN 0 ELSE IF counted = 0 THEN 1 ELSE counted
        IN worker' = [worker EXCEPT ![n].left = left,
                                    ![n].told = IF secureUser = 0 THEN @ ELSE left,
                                    ![n].pc = IF left = 0 THEN "finish" ELSE "enroll"]
    /\ UNCHANGED <<authToken, state, fields, waiting, timer, stored, counters, ghosts>>

\* Mutant: a failed vfmEnrollFinish returns at once, too.
EnrollElseReturns(n) ==
    /\ \/ worker[n].pc = "sample" /\ Goto(n, "enroll") /\ UNCHANGED state
       \/ worker[n].pc = "enroll" /\ state # "ENROLL" /\ Goto(n, "finish") /\ UNCHANGED state
       \/ worker[n].pc \in {"enroll", "sample", "finish"} /\ Goto(n, "done") /\ state' = "IDLE"
    /\ UNCHANGED <<authToken, fields, waiting, timer, stored, counters, ghosts>>

\* The other ways on: an image that is not good enough; another tz.state at the head of
\* the loop, which goes on to vfmEnrollFinish; and a failed command, which returns at once.
EnrollElse(n) ==
    /\ \/ worker[n].pc = "sample" /\ Goto(n, "enroll") /\ UNCHANGED state
       \/ worker[n].pc = "enroll" /\ state # "ENROLL" /\ Goto(n, "finish") /\ UNCHANGED state
       \/ worker[n].pc \in {"enroll", "sample"} /\ Goto(n, "done") /\ state' = "IDLE"
    /\ UNCHANGED <<authToken, fields, waiting, timer, stored, counters, ghosts>>

\* Mutant: an error of vfmEnrollFinish is not only logged.
StoreOrGiveUp(n) ==
    /\ worker[n].pc = "finish"
    /\ stored' \in {stored, stored \cup {n}}
    /\ Goto(n, "out")
    /\ UNCHANGED <<authToken, state, fields, waiting, timer, counters, ghosts>>

\* vfmEnrollFinish, vfmPayloadBind, tz.finger and db_write_to_db, whose errors nobody
\* looks at.
Store(n) ==
    /\ worker[n].pc = "finish"
    /\ stored' = stored \cup {n}
    /\ Goto(n, "out")
    /\ UNCHANGED <<authToken, state, fields, waiting, timer, counters, ghosts>>

\* vcs_enroll reports idle, then shuts the application down.
EnrollOut(n) ==
    /\ \/ worker[n].pc = "out" /\ Goto(n, "unload") /\ state' = "IDLE" /\ UNCHANGED authToken
       \/ worker[n].pc = "unload" /\ Goto(n, "done") /\ vcs_uninit(n)
    /\ UNCHANGED <<fields, waiting, timer, stored, counters, ghosts>>

WorkerStep(n) == \/ Capture(n) \/ CaptureFails(n) \/ Match(n) \/ AuthenticateOut(n)
                 \/ send_authenticated_notice(n)
                 \/ Sample(n) \/ EnrollElse(n) \/ Store(n) \/ EnrollOut(n)

Tokens == [challenge : handed \cup {Zero}, user : Users, version : BOOLEAN, fingerprint : BOOLEAN]
Next == \/ fingerprint_pre_enroll \/ fingerprint_post_enroll \/ fingerprint_get_auth_id
        \/ fingerprint_authenticate \/ \E hat \in Tokens : fingerprint_enroll(hat)
        \/ fingerprint_cancel \/ CancelAnswered \/ vcs_timeout
        \/ \E n \in Calls : WorkerStep(n)

\* A thread goes on; no finger has to be on the sensor for a thread that has counted its
\* last sample.
Fairness == \A n \in Calls : WF_vars(Store(n) \/ EnrollOut(n))
Spec == Init /\ [][Next]_vars /\ Fairness

-----------------------------------------------------------------------------
(* Properties. *)

\* The types of the declarations; the challenge is 0 or one that was handed out.
TypeOK ==
    /\ authToken.prefix \in 0..TokenLength
    /\ state \in {"IDLE", "ENROLL", "SCAN", "CANCEL"} /\ waiting \in BOOLEAN /\ timer \in BOOLEAN
    /\ secureUser \in Users \cup {0} /\ opId \in 0..MaxCalls
    /\ challenge \in handed \cup {Zero}
    /\ \A n \in Calls : /\ worker[n].left \in 0..Samples /\ worker[n].told \in 0..Samples
                        /\ worker[n].notice.op \in 0..MaxCalls
    /\ stored \subseteq Calls /\ undisturbed \subseteq Calls
    /\ calls \in 0..MaxCalls /\ hashes \in 0..MaxHashes

\* send_authenticated_notice: the notice of an operation never carries the id of an
\* operation before it, and when no call has come since the operation was started it
\* carries its own id with the authenticator and the user of that time.
NoticeOfOperation ==
    \A n \in Calls : worker[n].pc = "sent" =>
        /\ worker[n].notice.op \in n..calls
        /\ n \in undisturbed =>
               worker[n].notice = [op |-> n, auth |-> authId, user |-> secureUser]

\* send_enroll_notice: the framework is never told of fewer samples than vcs_enroll still
\* wants, and never of more than it was told before, although notices are dropped while
\* there is no secure user, which another call may change under the enrolment, and the
\* application decides which sample is the last.
CountdownHonest ==
    [][\A n \in Calls : /\ worker'[n].left <= worker'[n].told
                        /\ worker'[n].told <= worker[n].told]_vars

\* vcs_enroll tells the framework that no sample remains before it has the template: from
\* then on it has no way out that leaves the finger out of the table, whatever fails and
\* whoever cancels.
AnnouncedIsStored ==
    \A n \in Calls : worker[n].told = 0 => worker[n].pc = "finish" \/ n \in stored

\* ... and the finger is in the table in the end.
FinalNoticeKept == \A n \in Calls : (worker[n].told = 0) ~> (n \in stored)

=============================================================================
