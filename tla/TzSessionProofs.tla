-------------------------- MODULE TzSessionProofs ---------------------------
(* Proofs about TzSession, for any number of opens and operations and any faults. *)
EXTENDS TzSession, TLAPS

-----------------------------------------------------------------------------
(* What a sequence of calls does, told from its elements. *)

\* The calls that load and unload the application, switch the sensor, set and reset tz.init.
Loads == {"vcsInit", "startApp"}
Unloads == {"vcsUninit", "shutdownApp"}
PowersOn == {"sensorInit"}
PowersOff == {"sensorUninit"}
Inits == {"vcsInit", "setBandwidth"}
Clears == {"vcsUninit", "clearInit"}

\* After the calls of s, what on switches on and off switches off is off; is says
\* whether it is on before them.
EndsOff(s, is, on, off) ==
    \/ \E i \in 1..Len(s) : s[i] \in off /\ \A k \in (i + 1)..Len(s) : s[k] \notin on
    \/ ~is /\ \A k \in 1..Len(s) : s[k] \notin on

\* The application is loaded when the i-th call of s is made.
LoadedAt(s, i, is) ==
    \E j \in 0..(i - 1) : /\ IF j = 0 THEN is ELSE s[j] \in Loads
                          /\ \A k \in (j + 1)..(i - 1) : s[k] \notin Unloads

\* The calls that need the application, and the creation of a thread that does.
Needs == HandleCalls \cup {"spawn"}

\* Every call of s that needs the application finds it loaded, if none fails.
Supplied(s, is) == \A i \in 1..Len(s) : s[i] \in Needs => LoadedAt(s, i, is)

-----------------------------------------------------------------------------
(* The inductive invariant. *)

Booleans ==
    /\ busy \in BOOLEAN /\ sensor \in BOOLEAN /\ lib \in BOOLEAN
    /\ handle \in BOOLEAN /\ tzInit \in BOOLEAN
    /\ opened \in BOOLEAN /\ calibrated \in BOOLEAN
    /\ failed \in BOOLEAN /\ swallowed \in BOOLEAN /\ stuck \in BOOLEAN /\ overtaken \in BOOLEAN

\* A session is the one of the last fingerprint_open.
Values ==
    /\ phase \in {"closed", "open", "dead"} /\ opKind \in Kinds
    /\ app \in [initialized : BOOLEAN, session : 0..nopens, device : BOOLEAN]
    /\ token \in {0, nopens} /\ app.session \in {0, nopens}
    /\ nopens \in 0..MaxOpens /\ nops \in 0..MaxOps

TypeInv == todo \in [Threads -> Seq(Calls)] /\ Booleans /\ Values

caller == todo[0]

\* No entry point is under way, or fingerprint_close has not got past its waiting.
AtRest == caller = <<>> \/ Head(caller) = "await"

\* fingerprint_authenticate or fingerprint_enroll is under way.
Starting == caller # <<>> /\ caller[Len(caller)] = "spawn"

\* tz.init is reset right after the application is shut down.
Paired(s) == \A i \in 1..Len(s) :
                s[i] = "shutdownApp" => i + 1 \in 1..Len(s) /\ s[i + 1] = "clearInit"

\* A thread's calls are its operation and what follows.
WorkerNames == {"operate", "idle", "sensorUninit", "vcsUninit", "getToken", "shutdownApp",
                "clearInit", "notice"}
WorkerShape(s) ==
    /\ \A i \in 1..Len(s) : s[i] \in WorkerNames /\ (s[i] = "operate" => i = 1)
    /\ Paired(s)

\* An entry point waits at most at its beginning, and creates the thread or frees the device
\* at its end.
CallerShape(s) ==
    /\ \A i \in 1..Len(s) : /\ s[i] \in {"free", "spawn"} => i = Len(s)
                            /\ s[i] = "await" => i = 1
                            /\ s[i] # "operate"
    /\ Paired(s)

\* Who has what calls to make: the thread of an operation meets an entry point under way, or
\* another thread, only if a start or a close has overtaken it.
ShapeInv ==
    /\ phase = "dead" => \A t \in Threads : todo[t] = <<>>
    /\ phase = "closed" => caller = <<>>
    /\ CallerShape(caller) /\ \A w \in Workers : WorkerShape(todo[w])
    /\ Running /\ (~AtRest \/ phase = "closed") => overtaken
    /\ ~overtaken => \A u, w \in Workers : todo[u] # <<>> /\ todo[w] # <<>> => u = w

\* The operation that is started has no thread yet, and later ones have not either.
NumberInv ==
    /\ Starting => nops > 0
    /\ \A w \in Workers : todo[w] # <<>> => w <= nops /\ (Starting => w < nops)

\* tz.init without a handle is about to be reset.
Unloading == \E t \in Threads : Turn(t, "clearInit")
PendingInv == phase # "dead" /\ tzInit /\ ~handle => Unloading

\* The application is loaded, or would be if the last attempt to shut it down had succeeded.
loaded == handle /\ ~stuck

\* The application, the sensor and tz.init are off after the calls of s.
Off(s, load, power, init) ==
    /\ EndsOff(s, load, Loads, Unloads)
    /\ EndsOff(s, power, PowersOn, PowersOff)
    /\ EndsOff(s, init, Inits, Clears)

\* What fingerprint_open and fingerprint_close, and after them the thread created last, switch
\* off; no thread switches anything on.
QuietInv ==
    /\ phase = "closed" => ~loaded /\ ~sensor /\ ~tzInit
    /\ phase = "open" /\ caller # <<>> /\ ~Starting => Off(caller, loaded, sensor, tzInit)
    /\ phase = "open" /\ caller = <<>> /\ ~failed =>
          \E t \in Threads : Off(todo[t], loaded, sensor, tzInit)

\* As long as nothing failed and nobody overtook a thread, the application is there for every
\* call that needs it; fingerprint_close loads it itself, whatever the threads leave.
SuppliedInv ==
    /\ phase = "dead" => failed \/ overtaken
    /\ ~failed /\ ~overtaken => \A t \in Threads : Supplied(todo[t], handle)
    /\ caller # <<>> /\ AtRest => Supplied(caller, FALSE)

\* The application is set up for an operation.
AppReady ==
    /\ handle /\ app.initialized /\ app.device /\ calibrated
    /\ opened => app.session = nopens

StartPath == <<"startApp", "setBandwidth", "initialize", "enter", "deviceInitialize",
               "deviceCalibrate", "spawn">>

\* Where an operation is started: how far vcs_init has set the application up.
Stage ==
    \/ caller \in {StartCalls, <<"vcsInit", "spawn">>} /\ (tzInit /\ ~swallowed => AppReady)
    \/ caller \in {StartPath, Tail(StartPath)}
    \/ caller = <<"initialize", "enter", "deviceInitialize", "deviceCalibrate", "spawn">> /\ handle
    \/ /\ caller = <<"enter", "deviceInitialize", "deviceCalibrate", "spawn">>
       /\ handle /\ app.initialized
    \/ /\ caller = <<"deviceInitialize", "deviceCalibrate", "spawn">>
       /\ handle /\ app.initialized /\ (opened => app.session = nopens)
    \/ /\ caller = <<"deviceCalibrate", "spawn">>
       /\ handle /\ app.initialized /\ app.device /\ (opened => app.session = nopens)
    \/ caller = <<"spawn">> /\ (swallowed \/ AppReady)

\* Unless a thread was overtaken: the start of an operation, and a thread that has not operated
\* yet, have tz.state claimed and an application set up, unless vcs_resume swallowed an error.
\* Between operations tz.init says the same; it may be wrong while the application is being
\* shut down, and after a start that was given up, which leaves tz.state claimed for good.
ReadyInv ==
    /\ Starting => ~AtRest
    /\ ~overtaken =>
       /\ Starting => busy /\ Stage
       /\ \A w \in Workers : todo[w] # <<>> /\ Head(todo[w]) = "operate" =>
             phase = "open" /\ AtRest /\ busy /\ (swallowed \/ AppReady)
       /\ phase = "open" /\ AtRest /\ tzInit /\ ~swallowed =>
             AppReady \/ (busy /\ ~Running) \/ Unloading

-----------------------------------------------------------------------------
(* Sequences of calls. *)

USE TzAssumption

\* The calls are told apart by these names.
CallNames == {"vcsInit", "startApp", "setBandwidth", "initialize", "enter", "deviceInitialize",
              "deviceCalibrate", "vcsUninit", "getToken", "shutdownApp", "idle", "sensorInit",
              "sensorUninit", "sessionBegin", "sessionEnd", "spawn", "await", "free", "operate",
              "clearInit", "notice"}

\* The threads: the caller's and the others.
LEMMA ThreadsAre ==
    /\ 0 \in Threads /\ Workers \subseteq Threads /\ 0 \notin Workers /\ Workers \subseteq Nat \ {0}
    /\ \A t \in Threads : t = 0 \/ t \in Workers
    /\ \A n \in 0..MaxOps : n > 0 => n \in Workers
  BY DEF Threads, Workers

\* vcs_init's calls, one by one.
LEMMA InitCallsAre ==
    /\ Len(InitCalls) = 6
    /\ InitCalls[1] = "startApp" /\ InitCalls[2] = "setBandwidth" /\ InitCalls[3] = "initialize"
    /\ InitCalls[4] = "enter" /\ InitCalls[5] = "deviceInitialize"
    /\ InitCalls[6] = "deviceCalibrate"
    /\ \A c : c \in SetOf(InitCalls) <=>
              c \in {"startApp", "setBandwidth", "initialize", "enter", "deviceInitialize",
                     "deviceCalibrate"}
  <1>1. /\ Len(InitCalls) = 6 /\ DOMAIN InitCalls = 1..6
        /\ InitCalls[1] = "startApp" /\ InitCalls[2] = "setBandwidth" /\ InitCalls[3] = "initialize"
        /\ InitCalls[4] = "enter" /\ InitCalls[5] = "deviceInitialize"
        /\ InitCalls[6] = "deviceCalibrate"
    BY DEF InitCalls, ResumeCalls
  <1>2. 1..6 = {1, 2, 3, 4, 5, 6}
    OBVIOUS
  <1> QED
    BY <1>1, <1>2 DEF SetOf

\* Calls is that set of names.
LEMMA CallsAre == Calls = CallNames
  <1>1. SetOf(UninitCalls) = {"getToken", "shutdownApp", "clearInit", "idle"}
    BY DEF SetOf, UninitCalls
  <1>2. SetOf(OpenCalls) = {"sensorInit", "sensorUninit", "vcsInit", "vcsUninit", "sessionBegin"}
    BY DEF SetOf, OpenCalls
  <1>3. SetOf(StartCalls) = {"sensorInit", "vcsInit", "spawn"}
    BY DEF SetOf, StartCalls
  <1>4. SetOf(CloseCalls) = {"await", "sensorInit", "vcsInit", "sessionEnd", "vcsUninit",
                             "sensorUninit", "free"}
    BY DEF SetOf, CloseCalls
  <1>5. SetOf(WorkerCalls("ENROLL")) = {"operate", "idle", "sensorUninit", "vcsUninit"}
    BY DEF SetOf, WorkerCalls
  <1>6. SetOf(InitCalls) = {"startApp", "setBandwidth", "initialize", "enter", "deviceInitialize",
                            "deviceCalibrate"}
    BY InitCallsAre
  <1>8. SetOf(ErrorCalls) = {"idle", "notice"}
    BY DEF SetOf, ErrorCalls
  <1>7. Calls = SetOf(InitCalls) \cup SetOf(UninitCalls) \cup SetOf(OpenCalls) \cup SetOf(StartCalls)
                \cup SetOf(CloseCalls) \cup SetOf(WorkerCalls("ENROLL")) \cup SetOf(ErrorCalls)
    BY DEF Calls
  <1> QED
    BY <1>1, <1>2, <1>3, <1>4, <1>5, <1>6, <1>7, <1>8 DEF CallNames

\* The functions of the HAL are sequences of calls.
LEMMA CallSeqs ==
    /\ InitCalls \in Seq(Calls) /\ UninitCalls \in Seq(Calls) /\ OpenCalls \in Seq(Calls)
    /\ StartCalls \in Seq(Calls) /\ CloseCalls \in Seq(Calls) /\ <<>> \in Seq(Calls)
    /\ \A kind \in Kinds : WorkerCalls(kind) \in Seq(Calls)
    /\ ErrorCalls \in Seq(Calls)
  <1> USE CallsAre DEF CallNames
  <1>1. InitCalls \in Seq(Calls)
    BY DEF InitCalls, ResumeCalls
  <1>2. UninitCalls \in Seq(Calls)
    BY DEF UninitCalls
  <1>3. OpenCalls \in Seq(Calls)
    BY DEF OpenCalls
  <1>4. StartCalls \in Seq(Calls) /\ ErrorCalls \in Seq(Calls) /\ <<>> \in Seq(Calls)
    BY DEF StartCalls, ErrorCalls
  <1>5. CloseCalls \in Seq(Calls)
    BY DEF CloseCalls
  <1>6. \A kind \in Kinds : WorkerCalls(kind) \in Seq(Calls)
    <2>1. <<"operate", "idle", "sensorUninit", "vcsUninit">> \in Seq(Calls)
      OBVIOUS
    <2>2. <<"operate", "sensorUninit", "vcsUninit", "idle", "notice">> \in Seq(Calls)
      OBVIOUS
    <2> QED
      BY <2>1, <2>2 DEF WorkerCalls
  <1> QED
    BY <1>1, <1>2, <1>3, <1>4, <1>5, <1>6

\* The first call and the others of a sequence, element by element.
LEMMA TailElements ==
  ASSUME NEW s \in Seq(Calls), s # <<>>
  PROVE  /\ Tail(s) \in Seq(Calls) /\ Len(Tail(s)) = Len(s) - 1 /\ Len(s) \in Nat \ {0}
         /\ \A i \in 1..Len(Tail(s)) : Tail(s)[i] = s[i + 1]
         /\ Head(s) = s[1] /\ Head(s) \in Calls
         /\ Tail(s) = <<>> <=> Len(s) = 1
  <1>1. Tail(s) \in Seq(Calls) /\ Len(Tail(s)) = Len(s) - 1 /\ Len(s) \in Nat \ {0}
    OBVIOUS
  <1>2. \A i \in 1..Len(Tail(s)) : Tail(s)[i] = s[i + 1]
    OBVIOUS
  <1>3. Head(s) = s[1] /\ Head(s) \in Calls
    OBVIOUS
  <1>4. Tail(s) = <<>> <=> Len(s) = 1
    <2>1. \A r \in Seq(Calls) : r = <<>> <=> Len(r) = 0
      OBVIOUS
    <2>2. Tail(s) = <<>> <=> Len(Tail(s)) = 0
      BY <1>1, <2>1
    <2>3. Len(s) - 1 = 0 <=> Len(s) = 1
      BY <1>1
    <2> QED
      BY <1>1, <2>2, <2>3
  <1> QED
    BY <1>1, <1>2, <1>3, <1>4

\* What After leaves of a sequence, element by element.
LEMMA AfterElements ==
  ASSUME NEW s \in Seq(Calls), NEW n \in 0..Len(s)
  PROVE  LET r == SubSeq(s, n + 1, Len(s))
         IN /\ r \in Seq(Calls) /\ Len(r) = Len(s) - n /\ Len(s) \in Nat
            /\ \A i \in 1..Len(r) : r[i] = s[n + i]
  OBVIOUS

\* A function's body before the calls that follow it, element by element.
LEMMA ConcatElements ==
  ASSUME NEW p \in Seq(Calls), NEW r \in Seq(Calls)
  PROVE  /\ p \o r \in Seq(Calls) /\ Len(p \o r) = Len(p) + Len(r)
         /\ Len(p) \in Nat /\ Len(r) \in Nat
         /\ \A i \in 1..Len(p) : (p \o r)[i] = p[i]
         /\ \A i \in 1..Len(r) : (p \o r)[Len(p) + i] = r[i]
         /\ \A k \in (Len(p) + 1)..Len(p \o r) :
               k - Len(p) \in 1..Len(r) /\ (p \o r)[k] = r[k - Len(p)]
  <1>1. /\ p \o r \in Seq(Calls) /\ Len(p \o r) = Len(p) + Len(r)
        /\ Len(p) \in Nat /\ Len(r) \in Nat
        /\ \A i \in 1..Len(p) : (p \o r)[i] = p[i]
        /\ \A i \in 1..Len(r) : (p \o r)[Len(p) + i] = r[i]
    OBVIOUS
  <1>2. \A k \in (Len(p) + 1)..Len(p \o r) :
           k - Len(p) \in 1..Len(r) /\ (p \o r)[k] = r[k - Len(p)]
    BY <1>1
  <1> QED
    BY <1>1, <1>2

-----------------------------------------------------------------------------
(* What is off at the end of a sequence of calls. *)

\* The first call is made; it may have switched on, or left on, but not both on and off.
LEMMA EndsOffTail ==
  ASSUME NEW s \in Seq(Calls), s # <<>>, NEW on, NEW off, NEW is, NEW now,
         EndsOff(s, is, on, off), on \cap off = {},
         now => Head(s) \in on \/ (is /\ Head(s) \notin off)
  PROVE  EndsOff(Tail(s), now, on, off)
  <1>1. /\ Len(Tail(s)) = Len(s) - 1 /\ Len(s) \in Nat \ {0} /\ Head(s) = s[1]
        /\ \A i \in 1..Len(Tail(s)) : Tail(s)[i] = s[i + 1]
    BY TailElements
  <1>2. \A k \in 2..Len(s) : k - 1 \in 1..Len(Tail(s)) /\ Tail(s)[k - 1] = s[k]
    BY <1>1
  <1>3. CASE ~is /\ \A k \in 1..Len(s) : s[k] \notin on
    <2>1. \A k \in 1..Len(Tail(s)) : Tail(s)[k] \notin on
      BY <1>1, <1>3
    <2>2. ~now
      BY <1>1, <1>3
    <2> QED
      BY <2>1, <2>2 DEF EndsOff
  <1>4. ASSUME NEW i \in 1..Len(s), s[i] \in off, \A k \in (i + 1)..Len(s) : s[k] \notin on
        PROVE  EndsOff(Tail(s), now, on, off)
    <2>1. CASE i = 1
      <3>1. \A k \in 1..Len(Tail(s)) : Tail(s)[k] \notin on
        BY <1>1, <1>4, <2>1
      <3>2. ~now
        BY <1>1, <1>4, <2>1
      <3> QED
        BY <3>1, <3>2 DEF EndsOff
    <2>2. CASE i > 1
      <3>1. i - 1 \in 1..Len(Tail(s)) /\ Tail(s)[i - 1] \in off
        BY <1>2, <1>4, <2>2
      <3>2. \A k \in ((i - 1) + 1)..Len(Tail(s)) : Tail(s)[k] \notin on
        BY <1>1, <1>4, <2>2
      <3> QED
        BY <3>1, <3>2 DEF EndsOff
    <2> QED
      BY <1>1, <2>1, <2>2
  <1> QED
    BY <1>3, <1>4 DEF EndsOff

\* Calls that switch nothing off are passed over.
LEMMA EndsOffAfter ==
  ASSUME NEW s \in Seq(Calls), NEW n \in 0..Len(s), NEW on, NEW off, NEW is,
         EndsOff(s, is, on, off), \A i \in 1..n : s[i] \notin off
  PROVE  EndsOff(SubSeq(s, n + 1, Len(s)), is, on, off)
  <1> DEFINE r == SubSeq(s, n + 1, Len(s))
  <1>1. /\ Len(r) = Len(s) - n /\ Len(s) \in Nat
        /\ \A i \in 1..Len(r) : r[i] = s[n + i]
    BY AfterElements
  <1> HIDE DEF r
  <1>2. CASE ~is /\ \A k \in 1..Len(s) : s[k] \notin on
    <2>1. \A k \in 1..Len(r) : r[k] \notin on
      BY <1>1, <1>2
    <2> QED
      BY <1>2, <2>1 DEF EndsOff, r
  <1>3. ASSUME NEW i \in 1..Len(s), s[i] \in off, \A k \in (i + 1)..Len(s) : s[k] \notin on
        PROVE  EndsOff(r, is, on, off)
    <2>1. i > n
      BY <1>1, <1>3
    <2>2. i - n \in 1..Len(r) /\ r[i - n] \in off
      BY <1>1, <1>3, <2>1
    <2>3. ASSUME NEW k \in ((i - n) + 1)..Len(r) PROVE r[k] \notin on
      <3>1. n + k \in (i + 1)..Len(s) /\ k \in 1..Len(r)
        BY <1>1, <2>1
      <3> QED
        BY <1>1, <1>3, <3>1
    <2> QED
      BY <2>2, <2>3 DEF EndsOff
  <1> QED
    BY <1>2, <1>3 DEF EndsOff, r

\* One sequence after another.
LEMMA EndsOffConcat ==
  ASSUME NEW p \in Seq(Calls), NEW r \in Seq(Calls), NEW on, NEW off, NEW is, NEW mid,
         EndsOff(r, mid, on, off), mid \/ EndsOff(p, is, on, off)
  PROVE  EndsOff(p \o r, is, on, off)
  <1> DEFINE s == p \o r
  <1>1. /\ Len(s) = Len(p) + Len(r) /\ Len(p) \in Nat /\ Len(r) \in Nat
        /\ \A i \in 1..Len(p) : s[i] = p[i]
        /\ \A i \in 1..Len(r) : s[Len(p) + i] = r[i]
    BY ConcatElements
  <1> HIDE DEF s
  <1>2. \A k \in (Len(p) + 1)..Len(s) : k - Len(p) \in 1..Len(r) /\ s[k] = r[k - Len(p)]
    BY <1>1
  <1>3. ASSUME NEW i \in 1..Len(r), r[i] \in off, \A k \in (i + 1)..Len(r) : r[k] \notin on
        PROVE  EndsOff(s, is, on, off)
    <2>1. Len(p) + i \in 1..Len(s) /\ s[Len(p) + i] \in off
      BY <1>1, <1>3
    <2>2. \A k \in ((Len(p) + i) + 1)..Len(s) : s[k] \notin on
      BY <1>1, <1>2, <1>3
    <2> QED
      BY <2>1, <2>2 DEF EndsOff
  <1>4. CASE ~mid /\ \A k \in 1..Len(r) : r[k] \notin on
    <2>1. EndsOff(p, is, on, off)
      BY <1>4
    <2>2. ASSUME NEW i \in 1..Len(p), p[i] \in off, \A k \in (i + 1)..Len(p) : p[k] \notin on
          PROVE  EndsOff(s, is, on, off)
      <3>1. i \in 1..Len(s) /\ s[i] \in off
        BY <1>1, <2>2
      <3>2. ASSUME NEW k \in (i + 1)..Len(s) PROVE s[k] \notin on
        <4>1. CASE k \in (i + 1)..Len(p)
          BY <1>1, <2>2, <4>1
        <4>2. CASE k \in (Len(p) + 1)..Len(s)
          BY <1>2, <1>4, <4>2
        <4> QED
          BY <1>1, <4>1, <4>2
      <3> QED
        BY <3>1, <3>2 DEF EndsOff
    <2>3. ASSUME ~is, \A k \in 1..Len(p) : p[k] \notin on
          PROVE  EndsOff(s, is, on, off)
      <3>1. ASSUME NEW k \in 1..Len(s) PROVE s[k] \notin on
        <4>1. CASE k \in 1..Len(p)
          BY <1>1, <2>3, <4>1
        <4>2. CASE k \in (Len(p) + 1)..Len(s)
          BY <1>2, <1>4, <4>2
        <4> QED
          BY <1>1, <4>1, <4>2
      <3> QED
        BY <2>3, <3>1 DEF EndsOff
    <2>4. \/ \E i \in 1..Len(p) : p[i] \in off /\ \A k \in (i + 1)..Len(p) : p[k] \notin on
          \/ ~is /\ \A k \in 1..Len(p) : p[k] \notin on
      BY <2>1, Zenon DEF EndsOff
    <2> QED
      BY <2>2, <2>3, <2>4, Zenon DEF s
  <1> QED
    BY <1>3, <1>4 DEF EndsOff, s

-----------------------------------------------------------------------------
(* The application for every call that needs it. *)

\* The first call is made: it loads the application, or leaves it loaded.
LEMMA SuppliedTail ==
  ASSUME NEW s \in Seq(Calls), s # <<>>, NEW is, NEW now, Supplied(s, is),
         Head(s) \in Loads => now, is /\ Head(s) \notin Unloads => now
  PROVE  Supplied(Tail(s), now)
  <1> DEFINE r == Tail(s)
  <1>1. /\ Len(r) = Len(s) - 1 /\ Len(s) \in Nat \ {0} /\ Head(s) = s[1]
        /\ \A i \in 1..Len(r) : r[i] = s[i + 1]
    BY TailElements
  <1> HIDE DEF r
  <1>2. SUFFICES ASSUME NEW i \in 1..Len(r), r[i] \in Needs
                 PROVE  LoadedAt(r, i, now)
    BY DEF Supplied, r
  <1>3. LoadedAt(s, i + 1, is)
    BY <1>1, <1>2 DEF Supplied
  <1>4. PICK j \in 0..i : /\ IF j = 0 THEN is ELSE s[j] \in Loads
                          /\ \A k \in (j + 1)..i : s[k] \notin Unloads
    BY <1>3 DEF LoadedAt
  <1>5. CASE j \in {0, 1}
    <2>1. now
      BY <1>1, <1>4, <1>5
    <2>2. \A k \in (0 + 1)..(i - 1) : r[k] \notin Unloads
      BY <1>1, <1>4, <1>5
    <2> QED
      BY <2>1, <2>2 DEF LoadedAt
  <1>6. CASE j > 1
    <2>1. j - 1 \in 0..(i - 1) /\ j - 1 # 0 /\ r[j - 1] \in Loads
      BY <1>1, <1>4, <1>6
    <2>2. \A k \in ((j - 1) + 1)..(i - 1) : r[k] \notin Unloads
      BY <1>1, <1>4, <1>6
    <2> QED
      BY <2>1, <2>2 DEF LoadedAt
  <1> QED
    BY <1>5, <1>6

\* From any call on, if the application is loaded there.
LEMMA SuppliedAfter ==
  ASSUME NEW s \in Seq(Calls), NEW n \in 0..Len(s), NEW is, Supplied(s, is)
  PROVE  Supplied(SubSeq(s, n + 1, Len(s)), TRUE)
  <1> DEFINE r == SubSeq(s, n + 1, Len(s))
  <1>1. /\ Len(r) = Len(s) - n /\ Len(s) \in Nat
        /\ \A i \in 1..Len(r) : r[i] = s[n + i]
    BY AfterElements
  <1> HIDE DEF r
  <1>2. SUFFICES ASSUME NEW i \in 1..Len(r), r[i] \in Needs
                 PROVE  LoadedAt(r, i, TRUE)
    BY DEF Supplied, r
  <1>3. LoadedAt(s, n + i, is)
    BY <1>1, <1>2 DEF Supplied
  <1>4. PICK j \in 0..(n + i - 1) : /\ IF j = 0 THEN is ELSE s[j] \in Loads
                                    /\ \A k \in (j + 1)..(n + i - 1) : s[k] \notin Unloads
    BY <1>3 DEF LoadedAt
  <1>5. CASE j <= n
    <2>1. ASSUME NEW k \in (0 + 1)..(i - 1) PROVE r[k] \notin Unloads
      <3>1. n + k \in (j + 1)..(n + i - 1) /\ k \in 1..Len(r)
        BY <1>1, <1>5
      <3> QED
        BY <1>1, <1>4, <3>1
    <2> QED
      BY <2>1 DEF LoadedAt
  <1>6. CASE j > n
    <2>1. j - n \in 0..(i - 1) /\ j - n # 0 /\ r[j - n] \in Loads
      BY <1>1, <1>4, <1>6
    <2>2. ASSUME NEW k \in ((j - n) + 1)..(i - 1) PROVE r[k] \notin Unloads
      <3>1. n + k \in (j + 1)..(n + i - 1) /\ k \in 1..Len(r)
        BY <1>1, <1>6
      <3> QED
        BY <1>1, <1>4, <3>1
    <2> QED
      BY <2>1, <2>2 DEF LoadedAt
  <1>7. j <= n \/ j > n
    BY <1>1, <1>4
  <1> QED
    BY <1>5, <1>6, <1>7, Zenon

\* One sequence after another: the first leaves the application to the second.
LEMMA SuppliedConcat ==
  ASSUME NEW p \in Seq(Calls), NEW r \in Seq(Calls), NEW is, NEW mid,
         Supplied(p, is), Supplied(r, mid), mid => LoadedAt(p, Len(p) + 1, is)
  PROVE  Supplied(p \o r, is)
  <1> DEFINE s == p \o r
  <1>1. /\ Len(s) = Len(p) + Len(r) /\ Len(p) \in Nat /\ Len(r) \in Nat
        /\ \A i \in 1..Len(p) : s[i] = p[i]
        /\ \A i \in 1..Len(r) : s[Len(p) + i] = r[i]
    BY ConcatElements
  <1> HIDE DEF s
  <1>2. \A k \in (Len(p) + 1)..Len(s) : k - Len(p) \in 1..Len(r) /\ s[k] = r[k - Len(p)]
    BY <1>1
  <1>3. SUFFICES ASSUME NEW i \in 1..Len(s), s[i] \in Needs
                 PROVE  LoadedAt(s, i, is)
    BY DEF Supplied, s
  <1>4. CASE i \in 1..Len(p)
    <2>1. LoadedAt(p, i, is)
      BY <1>1, <1>3, <1>4 DEF Supplied
    <2>2. PICK j \in 0..(i - 1) : /\ IF j = 0 THEN is ELSE p[j] \in Loads
                                  /\ \A k \in (j + 1)..(i - 1) : p[k] \notin Unloads
      BY <2>1 DEF LoadedAt
    <2>3. \A k \in (j + 1)..(i - 1) : s[k] \notin Unloads
      BY <1>1, <1>4, <2>2
    <2>4. IF j = 0 THEN is ELSE s[j] \in Loads
      BY <1>1, <1>4, <2>2
    <2> QED
      BY <2>3, <2>4 DEF LoadedAt
  <1>5. CASE i \in (Len(p) + 1)..Len(s)
    <2> DEFINE m == i - Len(p)
    <2>1. m \in 1..Len(r) /\ r[m] \in Needs /\ i = Len(p) + m
      BY <1>1, <1>2, <1>3, <1>5
    <2> HIDE DEF m
    <2>2. LoadedAt(r, m, mid)
      BY <2>1 DEF Supplied
    <2>3. PICK j \in 0..(m - 1) : /\ IF j = 0 THEN mid ELSE r[j] \in Loads
                                  /\ \A k \in (j + 1)..(m - 1) : r[k] \notin Unloads
      BY <2>2 DEF LoadedAt
    <2>4. \A k \in (Len(p) + j + 1)..(i - 1) : s[k] \notin Unloads
      <3>1. ASSUME NEW k \in (Len(p) + j + 1)..(i - 1) PROVE s[k] \notin Unloads
        <4>1. k - Len(p) \in (j + 1)..(m - 1) /\ k \in (Len(p) + 1)..Len(s)
          BY <1>1, <2>1
        <4> QED
          BY <1>2, <2>3, <4>1
      <3> QED
        BY <3>1
    <2>5. CASE j # 0
      <3>1. Len(p) + j \in 0..(i - 1) /\ Len(p) + j # 0 /\ s[Len(p) + j] \in Loads
        BY <1>1, <2>1, <2>3, <2>5
      <3> QED
        BY <2>4, <3>1 DEF LoadedAt
    <2>6. CASE j = 0
      <3>1. LoadedAt(p, Len(p) + 1, is)
        BY <2>3, <2>6
      <3>2. PICK l \in 0..Len(p) : /\ IF l = 0 THEN is ELSE p[l] \in Loads
                                   /\ \A k \in (l + 1)..Len(p) : p[k] \notin Unloads
        BY <1>1, <3>1 DEF LoadedAt
      <3>3. l \in 0..(i - 1) /\ (IF l = 0 THEN is ELSE s[l] \in Loads)
        BY <1>1, <1>5, <3>2
      <3>4. ASSUME NEW k \in (l + 1)..(i - 1) PROVE s[k] \notin Unloads
        <4>1. CASE k \in 1..Len(p)
          BY <1>1, <3>2, <4>1
        <4>2. CASE k \in (Len(p) + 1)..(i - 1)
          BY <1>1, <2>4, <2>6, <4>2
        <4> QED
          BY <1>1, <4>1, <4>2
      <3> QED
        BY <3>3, <3>4 DEF LoadedAt
    <2> QED
      BY <2>5, <2>6
  <1> QED
    BY <1>1, <1>4, <1>5

-----------------------------------------------------------------------------
(* What a thread's step does to its calls, to the application and to the sensor. *)

\* The call c was made: the switches are where c leaves them.
Switched(c) ==
    /\ c = "startApp" => handle' /\ loaded'
    /\ c = "shutdownApp" => ~loaded'
    /\ c \notin {"startApp", "shutdownApp"} => handle' = handle /\ loaded' = loaded
    /\ c = "sensorInit" => sensor'
    /\ c = "sensorUninit" => ~sensor'
    /\ c \notin {"sensorInit", "sensorUninit"} => sensor' = sensor
    /\ c = "setBandwidth" => handle /\ tzInit'
    /\ c = "clearInit" => ~tzInit'
    /\ c \notin {"setBandwidth", "clearInit"} => tzInit' = tzInit

\* What no step of a thread changes unless the process dies.
Kept == /\ phase' = phase /\ overtaken' = overtaken /\ opKind' = opKind
        /\ nopens' = nopens /\ nops' = nops
        /\ (failed => failed') /\ (busy' => busy)

\* Nothing is switched.
Unswitched == handle' = handle /\ loaded' = loaded /\ sensor' = sensor /\ tzInit' = tzInit
              /\ busy' = busy

\* A call is made and returns.
Made(t) ==
    /\ todo[t] # <<>> /\ Returns(t) /\ Switched(Head(todo[t])) /\ Kept
    /\ Head(todo[t]) \notin {"vcsInit", "vcsUninit", "spawn", "await", "free", "operate"}
    /\ Head(todo[t]) # "idle" => busy' = busy

\* vcs_init or vcs_uninit is entered.
EnteredInit(t) ==
    /\ Turn(t, "vcsInit") /\ Kept /\ Unswitched
    /\ Continue(t, (IF tzInit THEN <<>> ELSE InitCalls) \o Tail(todo[t]))
EnteredUninit(t) ==
    /\ Turn(t, "vcsUninit") /\ Kept /\ Unswitched
    /\ handle /\ Continue(t, UninitCalls \o Tail(todo[t]))

\* vcs_init is given up, and with it the start of an operation if the error is seen.
Abandoned(t) ==
    /\ todo[t] # <<>> /\ Head(todo[t]) \in SetOf(InitCalls)
    /\ Kept /\ Unswitched
    /\ \E n \in 0..Len(todo[t]) :
          /\ InitLeft(t, n)
          /\ \/ Continue(t, After(t, n))
             \/ /\ n < Len(todo[t]) /\ todo[t][n + 1] = "spawn" /\ failed'
                /\ Continue(t, <<>>)
    /\ failed' \/ handle

\* The process dies of a missing library.
Died == Dies /\ failed'

\* Every step of a thread is one of these.
LEMMA StepForms ==
  ASSUME TypeInv, NEW t \in Threads, ThreadStep(t)
  PROVE  Made(t) \/ EnteredInit(t) \/ EnteredUninit(t) \/ Abandoned(t) \/ Died
  <1> USE DEF TypeInv, Booleans, Values, Turn, Command, tzVars, counters, ghosts, loaded
  <1>1. ASSUME InitFails(t), Head(todo[t]) \in SetOf(InitCalls), todo[t] # <<>>,
               UNCHANGED <<phase, opKind, counters, handle, sensor, busy, tzInit>>
        PROVE  Abandoned(t)
    BY <1>1 DEF InitFails, Abandoned, Kept, Unswitched
  <1>2. ASSUME InitSwallows(t), Head(todo[t]) \in SetOf(InitCalls), todo[t] # <<>>, handle,
               UNCHANGED <<phase, opKind, counters, handle, sensor, busy, tzInit>>
        PROVE  Abandoned(t)
    BY <1>2 DEF InitSwallows, Abandoned, Kept, Unswitched
  <1>3. {"startApp", "setBandwidth", "initialize", "enter", "deviceInitialize", "deviceCalibrate"}
        \subseteq SetOf(InitCalls)
    BY InitCallsAre
  <1>4. CASE VcsInit(t)
    BY <1>4 DEF VcsInit, EnteredInit, Kept, Unswitched
  <1>5. CASE StartApp(t)
    <2>1. CASE /\ lib' = TRUE /\ handle' = TRUE /\ Returns(t) /\ stuck' = FALSE
               /\ UNCHANGED <<phase, failed, overtaken>>
      <3>1. handle' /\ ~stuck'
        BY <2>1, Zenon
      <3>2. Switched(Head(todo[t])) /\ Kept
        BY <1>5, <2>1, <3>1 DEF StartApp, Switched, Kept
      <3> QED
        BY <1>5, <2>1, <3>2 DEF StartApp, Made, Kept
    <2>2. CASE Dies /\ failed' = TRUE
      BY <2>2, Zenon DEF Died
    <2>3. CASE InitFails(t) /\ UNCHANGED <<phase, handle, app>>
      BY <1>1, <1>3, <1>5, <2>3 DEF StartApp
    <2> QED
      BY <1>5, <2>1, <2>2, <2>3, Zenon DEF StartApp
  <1>6. CASE SetBandwidth(t)
    <2>1. CASE InitFails(t) /\ UNCHANGED tzInit
      BY <1>1, <1>3, <1>6, <2>1 DEF SetBandwidth
    <2>2. CASE Returns(t) /\ tzInit' = TRUE /\ UNCHANGED ghosts
      <3>1. tzInit'
        BY <2>2, Zenon
      <3> QED
        BY <1>6, <2>2, <3>1 DEF SetBandwidth, Made, Switched, Kept
    <2> QED
      BY <1>6, <2>1, <2>2, Zenon DEF SetBandwidth
  <1>7. CASE Initialize(t)
    <2>1. CASE InitFails(t)
      BY <1>1, <1>3, <1>7, <2>1 DEF Initialize
    <2>2. CASE InitSwallows(t)
      BY <1>2, <1>3, <1>7, <2>2 DEF Initialize
    <2>3. CASE Returns(t) /\ UNCHANGED ghosts
      BY <1>7, <2>3 DEF Initialize, Made, Switched, Kept
    <2> QED
      BY <1>7, <2>1, <2>2, <2>3 DEF Initialize, ResumeError
  <1>8. CASE Enter(t)
    <2>1. CASE InitFails(t)
      BY <1>1, <1>3, <1>8, <2>1 DEF Enter
    <2>2. CASE InitSwallows(t)
      BY <1>2, <1>3, <1>8, <2>2 DEF Enter
    <2>3. CASE Returns(t) /\ UNCHANGED ghosts
      BY <1>8, <2>3 DEF Enter, Made, Switched, Kept
    <2> QED
      BY <1>8, <2>1, <2>2, <2>3 DEF Enter
  <1>9. CASE DeviceInitialize(t)
    <2>1. CASE InitFails(t)
      BY <1>1, <1>3, <1>9, <2>1 DEF DeviceInitialize
    <2>2. CASE InitSwallows(t)
      BY <1>2, <1>3, <1>9, <2>2 DEF DeviceInitialize
    <2>3. CASE Returns(t) /\ UNCHANGED ghosts
      BY <1>9, <2>3 DEF DeviceInitialize, Made, Switched, Kept
    <2> QED
      BY <1>9, <2>1, <2>2, <2>3 DEF DeviceInitialize, ResumeError
  <1>10. CASE DeviceCalibrate(t)
    <2>1. CASE InitFails(t)
      BY <1>1, <1>3, <1>10, <2>1 DEF DeviceCalibrate
    <2>2. CASE InitSwallows(t)
      BY <1>2, <1>3, <1>10, <2>2 DEF DeviceCalibrate
    <2>3. CASE Returns(t) /\ UNCHANGED ghosts
      BY <1>10, <2>3 DEF DeviceCalibrate, Made, Switched, Kept
    <2> QED
      BY <1>10, <2>1, <2>2, <2>3 DEF DeviceCalibrate, ResumeError
  <1>11. CASE VcsUninit(t)
    BY <1>11 DEF VcsUninit, EnteredUninit, Kept, Unswitched
  <1>12. CASE GetToken(t)
    BY <1>12 DEF GetToken, Made, Switched, Kept
  <1>13. CASE ShutdownApp(t)
    <2>1. ~loaded' /\ (failed => failed')
      BY <1>13 DEF ShutdownApp
    <2> QED
      BY <1>13, <2>1 DEF ShutdownApp, Made, Switched, Kept
  <1>14. CASE SetIdle(t) \/ ClearInit(t) \/ Notice(t)
    BY <1>14 DEF SetIdle, ClearInit, Notice, Made, Switched, Kept
  <1>15. CASE SessionBegin(t)
    BY <1>15 DEF SessionBegin, Made, Switched, Kept
  <1>16. CASE SessionEnd(t)
    BY <1>16 DEF SessionEnd, Made, Switched, Kept
  <1>17. CASE SensorPower(t)
    BY <1>17 DEF SensorPower, Made, Switched, Kept
  <1> QED
    BY <1>4, <1>5, <1>6, <1>7, <1>8, <1>9, <1>10, <1>11, <1>12, <1>13, <1>14, <1>15, <1>16, <1>17
       DEF ThreadStep

-----------------------------------------------------------------------------
(* Types. *)

\* What is left of a thread's calls are calls.
LEMMA CallsLeft ==
  ASSUME TypeInv, NEW t \in Threads
  PROVE  /\ todo[t] \in Seq(Calls) /\ Len(todo[t]) \in Nat /\ DOMAIN todo[t] = 1..Len(todo[t])
         /\ \A r \in Seq(Calls) : [todo EXCEPT ![t] = r] \in [Threads -> Seq(Calls)]
         /\ todo[t] # <<>> => Tail(todo[t]) \in Seq(Calls)
         /\ \A n \in 0..Len(todo[t]) : After(t, n) \in Seq(Calls)
  <1>1. todo[t] \in Seq(Calls) /\ Len(todo[t]) \in Nat /\ DOMAIN todo[t] = 1..Len(todo[t])
    BY DEF TypeInv
  <1>2. \A r \in Seq(Calls) : [todo EXCEPT ![t] = r] \in [Threads -> Seq(Calls)]
    BY DEF TypeInv
  <1>3. todo[t] # <<>> => Tail(todo[t]) \in Seq(Calls)
    BY <1>1
  <1>4. \A n \in 0..Len(todo[t]) : After(t, n) \in Seq(Calls)
    BY <1>1, AfterElements DEF After
  <1> QED
    BY <1>1, <1>2, <1>3, <1>4

\* All threads' calls, when nobody has any.
LEMMA NoCallsLeft == [t \in Threads |-> <<>>] \in [Threads -> Seq(Calls)]
  BY CallSeqs

\* Whatever step is taken, calls are left.
LEMMA CallsStep ==
  ASSUME TypeInv, [Next]_vars
  PROVE  todo' \in [Threads -> Seq(Calls)]
  <1>1. ASSUME NEW t \in Threads, ThreadStep(t)
        PROVE  todo' \in [Threads -> Seq(Calls)]
    <2> USE CallsLeft, <1>1
    <2>1. CASE Made(t)
      BY <2>1 DEF Made, Returns, Continue
    <2>2. CASE EnteredInit(t)
      <3>1. Tail(todo[t]) \in Seq(Calls)
        BY <2>2 DEF EnteredInit, Turn
      <3>2. (IF tzInit THEN <<>> ELSE InitCalls) \o Tail(todo[t]) \in Seq(Calls)
        BY <3>1, CallSeqs, ConcatElements
      <3> QED
        BY <2>2, <3>2 DEF EnteredInit, Continue
    <2>3. CASE EnteredUninit(t)
      <3>1. Tail(todo[t]) \in Seq(Calls)
        BY <2>3 DEF EnteredUninit, Turn
      <3>2. UninitCalls \o Tail(todo[t]) \in Seq(Calls)
        BY <3>1, CallSeqs, ConcatElements
      <3> QED
        BY <2>3, <3>2 DEF EnteredUninit, Continue
    <2>4. CASE Abandoned(t)
      BY <2>4, CallSeqs DEF Abandoned, Continue
    <2>5. CASE Died
      BY <2>5, NoCallsLeft DEF Died, Dies
    <2> QED
      BY <2>1, <2>2, <2>3, <2>4, <2>5, StepForms
  <1> USE CallSeqs, CallsLeft, ThreadsAre
  <1>2. CASE Open
    BY <1>2 DEF Open, Continue, TypeInv
  <1>3. CASE Spawn
    <2>1. WorkerCalls(opKind) \in Seq(Calls)
      BY DEF TypeInv, Values
    <2>2. Tail(todo[0]) \in Seq(Calls)
      BY <1>3 DEF Spawn, Turn
    <2>3. todo \in [Threads -> Seq(Calls)]
      BY DEF TypeInv
    <2> QED
      BY <1>3, <2>1, <2>2, <2>3 DEF Spawn, Returns, Continue
  <1>4. ASSUME NEW t \in Workers, Operate(t) PROVE todo' \in [Threads -> Seq(Calls)]
    <2>1. t \in Threads /\ todo[t] # <<>>
      BY <1>4 DEF Operate, Turn
    <2>2. /\ \A r \in Seq(Calls) : [todo EXCEPT ![t] = r] \in [Threads -> Seq(Calls)]
          /\ Tail(todo[t]) \in Seq(Calls)
      BY <2>1
    <2>3. Continue(t, Tail(todo[t])) \/ Continue(t, ErrorCalls)
      BY <1>4 DEF Operate, Returns
    <2> QED
      BY <2>2, <2>3, Zenon DEF Continue
  <1>5. CASE Close
    BY <1>5 DEF Close, Continue
  <1>6. CASE Await
    BY <1>6 DEF Await, Turn, Returns, Continue
  <1>7. CASE Free
    BY <1>7 DEF Free, Turn, Returns, Continue
  <1>8. CASE UseDestroyed \/ NullHandle
    BY <1>8, NoCallsLeft DEF UseDestroyed, NullHandle, Dies
  <1>9. CASE Restart \/ UNCHANGED vars
    BY <1>9 DEF Restart, vars, TypeInv
  <1>10. CASE \E kind \in Kinds : Start(kind)
    BY <1>10 DEF Start, Continue
  <1> QED
    BY <1>1, <1>2, <1>3, <1>4, <1>5, <1>6, <1>7, <1>8, <1>9, <1>10 DEF Next

\* The Boolean variables stay Boolean when a thread takes a step.
LEMMA BooleansThread ==
  ASSUME TypeInv, NEW t \in Threads, ThreadStep(t)
  PROVE  Booleans'
  <1> USE DEF TypeInv, Booleans, tzVars, counters, ghosts
  <1>1. CASE VcsInit(t)
    BY <1>1 DEF VcsInit
  <1>2. CASE StartApp(t)
    <2>0. UNCHANGED <<opKind, busy, sensor, tzInit, opened, token, calibrated, counters>>
      BY <1>2 DEF StartApp
    <2>1. CASE lib' = TRUE /\ handle' = TRUE /\ app' = NewApp /\ swallowed' = FALSE
               /\ stuck' = FALSE /\ UNCHANGED <<phase, failed, overtaken>>
      BY <2>0, <2>1
    <2>2. CASE phase' = "dead" /\ failed' = TRUE /\ UNCHANGED <<lib, handle, app, swallowed, stuck, overtaken>>
      BY <2>0, <2>2
    <2>3. CASE lib' = TRUE /\ failed' = TRUE /\ UNCHANGED <<swallowed, stuck, overtaken, phase, handle, app>>
      BY <2>0, <2>3
    <2> QED
      BY <1>2, <2>1, <2>2, <2>3 DEF StartApp, InitFails, Dies
  <1>3. CASE SetBandwidth(t)
    BY <1>3 DEF SetBandwidth, Command, InitFails
  <1>4. CASE Initialize(t)
    BY <1>4 DEF Initialize, ResumeError, InitFails, InitSwallows
  <1>5. CASE Enter(t)
    BY <1>5 DEF Enter, InitFails, InitSwallows
  <1>6. CASE DeviceInitialize(t)
    <2>1. UNCHANGED <<busy, sensor, handle, tzInit, opened, calibrated, lib, stuck, overtaken>>
      BY <1>6 DEF DeviceInitialize, ResumeError, InitFails, InitSwallows
    <2>2. (failed' = failed \/ failed' = TRUE) /\ (swallowed' = swallowed \/ swallowed' = TRUE)
      BY <1>6 DEF DeviceInitialize, ResumeError, InitFails, InitSwallows
    <2>3. failed' \in BOOLEAN /\ swallowed' \in BOOLEAN
      BY <2>2, Zenon
    <2> QED
      BY <2>1, <2>3
  <1>7. CASE DeviceCalibrate(t)
    BY <1>7 DEF DeviceCalibrate, ResumeError, InitFails, InitSwallows
  <1>8. CASE VcsUninit(t)
    BY <1>8 DEF VcsUninit
  <1>9. CASE GetToken(t)
    BY <1>9 DEF GetToken
  <1>10. CASE ShutdownApp(t)
    BY <1>10 DEF ShutdownApp
  <1>11. CASE SetIdle(t) \/ ClearInit(t) \/ Notice(t)
    <2>1. UNCHANGED <<sensor, handle, opened, calibrated, lib, ghosts>>
      BY <1>11 DEF SetIdle, ClearInit, Notice
    <2>2. (busy' = busy \/ busy' = FALSE) /\ (tzInit' = tzInit \/ tzInit' = FALSE)
      BY <1>11 DEF SetIdle, ClearInit, Notice
    <2>3. busy' \in BOOLEAN /\ tzInit' \in BOOLEAN
      BY <2>2, Zenon
    <2> QED
      BY <2>1, <2>3
  <1>12. CASE SessionBegin(t)
    BY <1>12 DEF SessionBegin
  <1>13. CASE SessionEnd(t)
    BY <1>13 DEF SessionEnd
  <1>14. CASE SensorPower(t)
    BY <1>14 DEF SensorPower
  <1> QED
    BY <1>1, <1>2, <1>3, <1>4, <1>5, <1>6, <1>7, <1>8, <1>9, <1>10, <1>11, <1>12, <1>13, <1>14
       DEF ThreadStep

\* The Boolean variables stay Boolean.
LEMMA BooleansStep ==
  ASSUME TypeInv, [Next]_vars
  PROVE  Booleans'
  <1> USE DEF TypeInv, Booleans, vars, tzVars, counters, ghosts
  <1>1. CASE Open
    BY <1>1 DEF Open, Zeroed, Running
  <1>2. CASE Spawn
    BY <1>2 DEF Spawn
  <1>3. CASE \E t \in Workers : Operate(t)
    <2>1. UNCHANGED <<sensor, handle, tzInit, opened, lib, swallowed, stuck, overtaken>>
      BY <1>3 DEF Operate
    <2>2. /\ failed' = failed \/ failed' = TRUE
          /\ busy' = busy \/ busy' = FALSE
          /\ calibrated' = calibrated \/ calibrated' = TRUE
      BY <1>3 DEF Operate
    <2>3. failed' \in BOOLEAN /\ busy' \in BOOLEAN /\ calibrated' \in BOOLEAN
      BY <2>2, Zenon
    <2> QED
      BY <2>1, <2>3
  <1>4. CASE Close
    BY <1>4 DEF Close
  <1>5. CASE Await
    BY <1>5 DEF Await, Overtakes, Running
  <1>6. CASE Free
    BY <1>6 DEF Free
  <1>7. CASE UseDestroyed
    BY <1>7 DEF UseDestroyed, Dies
  <1>8. CASE NullHandle
    BY <1>8 DEF NullHandle, Dies
  <1>9. CASE Restart
    BY <1>9 DEF Restart, Zeroed, Running
  <1>10. CASE UNCHANGED vars
    BY <1>10 DEF vars
  <1>11. CASE \E kind \in Kinds : Start(kind)
    BY <1>11 DEF Start, Overtakes, Running
  <1> QED
    BY <1>1, <1>2, <1>3, <1>4, <1>5, <1>6, <1>7, <1>8, <1>9, <1>10, <1>11, BooleansThread
       DEF Next

\* A thread's step keeps to the session of this open.
LEMMA ValuesThread ==
  ASSUME TypeInv, NEW t \in Threads, ThreadStep(t)
  PROVE  Values'
  <1> USE DEF TypeInv, Values, tzVars, counters, ghosts
  <1>1. CASE VcsInit(t)
    BY <1>1 DEF VcsInit
  <1>2. CASE StartApp(t)
    <2>0. UNCHANGED <<opKind, busy, sensor, tzInit, opened, token, calibrated, counters>>
      BY <1>2 DEF StartApp
    <2>1. CASE lib' = TRUE /\ handle' = TRUE /\ app' = NewApp /\ swallowed' = FALSE
               /\ stuck' = FALSE /\ UNCHANGED <<phase, failed, overtaken>>
      BY <2>0, <2>1 DEF NewApp
    <2>2. CASE phase' = "dead" /\ failed' = TRUE /\ UNCHANGED <<lib, handle, app, swallowed, stuck, overtaken>>
      BY <2>0, <2>2
    <2>3. CASE lib' = TRUE /\ failed' = TRUE /\ UNCHANGED <<swallowed, stuck, overtaken, phase, handle, app>>
      BY <2>0, <2>3
    <2> QED
      BY <1>2, <2>1, <2>2, <2>3 DEF StartApp, InitFails, Dies
  <1>3. CASE SetBandwidth(t)
    BY <1>3 DEF SetBandwidth, InitFails
  <1>4. CASE Initialize(t)
    BY <1>4 DEF Initialize, ResumeError, InitFails, InitSwallows
  <1>5. CASE Enter(t)
    BY <1>5 DEF Enter, InitFails, InitSwallows
  <1>6. CASE DeviceInitialize(t)
    BY <1>6 DEF DeviceInitialize, ResumeError, InitFails, InitSwallows
  <1>7. CASE DeviceCalibrate(t)
    BY <1>7 DEF DeviceCalibrate, ResumeError, InitFails, InitSwallows
  <1>8. CASE VcsUninit(t)
    BY <1>8 DEF VcsUninit
  <1>9. CASE GetToken(t)
    BY <1>9 DEF GetToken
  <1>10. CASE ShutdownApp(t)
    <2>1. (app' = app \/ app' = NewApp) /\ UNCHANGED <<phase, opKind, token, nopens, nops>>
      BY <1>10 DEF ShutdownApp
    <2>2. /\ NewApp \in [initialized : BOOLEAN, session : 0..nopens, device : BOOLEAN]
          /\ NewApp.session = 0
      BY DEF NewApp
    <2>3. CASE app' = app
      BY <2>1, <2>3
    <2>4. CASE app' = NewApp
      BY <2>1, <2>2, <2>4
    <2> QED
      BY <2>1, <2>3, <2>4
  <1>11. CASE SetIdle(t) \/ ClearInit(t) \/ Notice(t)
    BY <1>11 DEF SetIdle, ClearInit, Notice
  <1>12. CASE SessionBegin(t)
    BY <1>12 DEF SessionBegin
  <1>13. CASE SessionEnd(t)
    BY <1>13 DEF SessionEnd
  <1>14. CASE SensorPower(t)
    BY <1>14 DEF SensorPower
  <1> QED
    BY <1>1, <1>2, <1>3, <1>4, <1>5, <1>6, <1>7, <1>8, <1>9, <1>10, <1>11, <1>12, <1>13, <1>14
       DEF ThreadStep

\* The other variables keep their types, the token stands for this open's session.
LEMMA ValuesStep ==
  ASSUME TypeInv, [Next]_vars
  PROVE  Values'
  <1> USE DEF TypeInv, Values, vars, tzVars, counters, ghosts
  <1>1. CASE Open
    BY <1>1 DEF Open, Zeroed, NewApp
  <1>2. CASE Spawn
    BY <1>2 DEF Spawn
  <1>3. CASE \E t \in Workers : Operate(t)
    BY <1>3 DEF Operate
  <1>4. CASE Close
    BY <1>4 DEF Close
  <1>5. CASE Await
    BY <1>5 DEF Await
  <1>6. CASE Free
    BY <1>6 DEF Free
  <1>7. CASE UseDestroyed
    BY <1>7 DEF UseDestroyed, Dies
  <1>8. CASE NullHandle
    BY <1>8 DEF NullHandle, Dies
  <1>9. CASE Restart
    BY <1>9 DEF Restart, Zeroed, NewApp
  <1>10. CASE UNCHANGED vars
    BY <1>10 DEF vars
  <1>11. CASE \E kind \in Kinds : Start(kind)
    BY <1>11 DEF Start
  <1> QED
    BY <1>1, <1>2, <1>3, <1>4, <1>5, <1>6, <1>7, <1>8, <1>9, <1>10, <1>11, ValuesThread
       DEF Next

\* TypeInv is inductive: it holds of the process before the first open, and every step keeps it.
LEMMA TypeInit == Init => TypeInv
  <1> SUFFICES ASSUME Init PROVE TypeInv
    OBVIOUS
  <1>1. todo \in [Threads -> Seq(Calls)]
    BY NoCallsLeft DEF Init
  <1>2. Booleans
    BY DEF Init, Booleans
  <1>3. Values
    BY DEF Init, Values, NewApp, Kinds
  <1> QED
    BY <1>1, <1>2, <1>3 DEF TypeInv

\* Every step keeps TypeInv.
LEMMA TypeStep == TypeInv /\ [Next]_vars => TypeInv'
  BY CallsStep, BooleansStep, ValuesStep DEF TypeInv

\* TypeInv holds always.
LEMMA TypeAlways == Spec => []TypeInv
  BY TypeInit, TypeStep, PTL DEF Spec

-----------------------------------------------------------------------------
(* The shape of what is left to do. *)

\* The threads' calls after thread t goes on with calls.
LEMMA ContinueElements ==
  ASSUME TypeInv, NEW t \in Threads, NEW calls, Continue(t, calls)
  PROVE  /\ todo'[t] = calls
         /\ \A u \in Threads : u # t => todo'[u] = todo[u]
  BY DEF TypeInv, Continue

\* The bodies of vcs_init and vcs_uninit neither wait nor create, free or operate.
LEMMA Bodies ==
  /\ \A i \in 1..Len(InitCalls) : InitCalls[i] \in SetOf(InitCalls)
  /\ \A i \in 1..Len(UninitCalls) : UninitCalls[i] \in {"getToken", "shutdownApp", "clearInit", "idle"}
  /\ \A c : c \in SetOf(InitCalls) =>
        c \notin {"free", "spawn", "await", "operate", "vcsInit", "vcsUninit", "getToken",
                  "shutdownApp", "clearInit", "idle", "notice", "sensorInit", "sensorUninit"}
  <1>1. \A i \in 1..Len(InitCalls) : InitCalls[i] \in SetOf(InitCalls)
    BY CallSeqs DEF SetOf
  <1>2. \A i \in 1..Len(UninitCalls) : UninitCalls[i] \in {"getToken", "shutdownApp", "clearInit", "idle"}
    BY DEF UninitCalls
  <1> QED
    BY <1>1, <1>2, InitCallsAre

\* The application's shutdown is followed by the reset of tz.init, wherever a thread is.
LEMMA PairedSteps ==
  ASSUME NEW s \in Seq(Calls), s # <<>>, Paired(s)
  PROVE  /\ Paired(Tail(s))
         /\ \A p \in {<<>>, InitCalls, UninitCalls} : Paired(p \o Tail(s))
         /\ \A n \in 0..Len(s) : Paired(SubSeq(s, n + 1, Len(s)))
         /\ Head(s) = "shutdownApp" => Tail(s) # <<>> /\ Head(Tail(s)) = "clearInit"
  <1>0. /\ Tail(s) \in Seq(Calls) /\ Len(Tail(s)) = Len(s) - 1 /\ Len(s) \in Nat \ {0}
        /\ \A i \in 1..Len(Tail(s)) : Tail(s)[i] = s[i + 1]
        /\ Head(s) = s[1]
    BY TailElements
  <1>1. Paired(Tail(s))
    <2>1. SUFFICES ASSUME NEW i \in 1..Len(Tail(s)), Tail(s)[i] = "shutdownApp"
                   PROVE  i + 1 \in 1..Len(Tail(s)) /\ Tail(s)[i + 1] = "clearInit"
      BY DEF Paired
    <2>2. PICK k \in 1..Len(s) : k = i + 1 /\ s[k] = "shutdownApp"
      BY <1>0, <2>1
    <2>3. k + 1 \in 1..Len(s) /\ s[k + 1] = "clearInit"
      BY <2>2 DEF Paired
    <2>4. i + 1 \in 1..Len(Tail(s))
      BY <1>0, <2>2, <2>3
    <2> QED
      BY <1>0, <2>2, <2>3, <2>4
  <1>2. ASSUME NEW p \in {<<>>, InitCalls, UninitCalls} PROVE Paired(p \o Tail(s))
    <2>1. p \in Seq(Calls) /\ Paired(p)
      <3>1. CASE p = <<>>
        BY <3>1, CallSeqs DEF Paired
      <3>2. CASE p = InitCalls
        BY <3>2, CallSeqs, Bodies DEF Paired
      <3>3. CASE p = UninitCalls
        BY <3>3, CallSeqs DEF Paired, UninitCalls
      <3> QED
        BY <3>1, <3>2, <3>3
    <2>2. PICK q : q = p \o Tail(s)
      OBVIOUS
    <2>3. PICK m \in Nat, l \in Nat : m = Len(p) /\ l = Len(Tail(s))
      <3>1. Len(p) \in Nat /\ Len(Tail(s)) \in Nat
        BY <1>0, <2>1
      <3> QED
        BY <3>1, Zenon
    <2>4. /\ Len(q) = m + l
          /\ \A i \in 1..m : q[i] = p[i]
          /\ \A i \in 1..l : q[m + i] = Tail(s)[i]
      BY <1>0, <2>1, <2>2, <2>3, ConcatElements
    <2>5. ASSUME NEW i \in 1..(m + l), q[i] = "shutdownApp"
          PROVE  i + 1 \in 1..(m + l) /\ q[i + 1] = "clearInit"
      <3>1. CASE i \in 1..m
        <4>1. i + 1 \in 1..m /\ p[i + 1] = "clearInit"
          BY <2>1, <2>3, <2>4, <2>5, <3>1 DEF Paired
        <4> QED
          BY <2>4, <4>1
      <3>2. CASE i > m
        <4>1. PICK k \in 1..l : i = m + k
          <5>1. i - m \in 1..l /\ i = m + (i - m)
            BY <3>2
          <5> QED
            BY <5>1
        <4>2. Tail(s)[k] = "shutdownApp"
          BY <2>4, <2>5, <4>1
        <4>3. PICK n \in 1..l : n = k + 1 /\ Tail(s)[n] = "clearInit"
          BY <1>1, <2>3, <4>2 DEF Paired
        <4>4. i + 1 = m + n
          BY <4>1, <4>3
        <4>5. q[m + n] = "clearInit"
          BY <2>4, <4>3, Zenon
        <4> QED
          BY <4>3, <4>4, <4>5
      <3> QED
        BY <3>1, <3>2
    <2> QED
      BY <2>2, <2>4, <2>5 DEF Paired
  <1>3. ASSUME NEW n \in 0..Len(s) PROVE Paired(SubSeq(s, n + 1, Len(s)))
    <2>1. PICK q : q = SubSeq(s, n + 1, Len(s))
      OBVIOUS
    <2>2. Len(q) = Len(s) - n /\ \A i \in 1..Len(q) : q[i] = s[n + i]
      BY <2>1, AfterElements
    <2>3. ASSUME NEW i \in 1..Len(q), q[i] = "shutdownApp"
          PROVE  i + 1 \in 1..Len(q) /\ q[i + 1] = "clearInit"
      <3>1. PICK k \in 1..Len(s) : k = n + i /\ s[k] = "shutdownApp"
        BY <1>0, <2>2, <2>3
      <3>2. k + 1 \in 1..Len(s) /\ s[k + 1] = "clearInit"
        BY <3>1 DEF Paired
      <3>3. i + 1 \in 1..Len(q) /\ n + (i + 1) = k + 1
        BY <1>0, <2>2, <3>1, <3>2
      <3> QED
        BY <2>2, <3>2, <3>3
    <2> QED
      BY <2>1, <2>3 DEF Paired
  <1>4. ASSUME Head(s) = "shutdownApp" PROVE Tail(s) # <<>> /\ Head(Tail(s)) = "clearInit"
    <2>1. 1 \in 1..Len(s) /\ s[1] = "shutdownApp"
      BY <1>0, <1>4
    <2>2. 1 + 1 \in 1..Len(s) /\ s[1 + 1] = "clearInit"
      BY <2>1, Zenon DEF Paired
    <2>3. Tail(s) # <<>>
      <3>1. Len(s) # 1
        BY <1>0, <2>2
      <3> QED
        BY <3>1, TailElements, Zenon
    <2>4. Head(Tail(s)) = Tail(s)[1] /\ 1 \in 1..Len(Tail(s))
      BY <1>0, <2>3, TailElements
    <2> QED
      BY <1>0, <2>2, <2>3, <2>4
  <1> QED
    BY <1>1, <1>2, <1>3, <1>4

\* An entry point's calls keep their shape as it goes on.
LEMMA CallerShapeSteps ==
  ASSUME NEW s \in Seq(Calls), s # <<>>, CallerShape(s)
  PROVE  /\ CallerShape(Tail(s))
         /\ \A i \in 1..Len(Tail(s)) : Tail(s)[i] # "await"
         /\ \A p \in {<<>>, InitCalls, UninitCalls} :
               /\ CallerShape(p \o Tail(s))
               /\ \A i \in 1..Len(p \o Tail(s)) : (p \o Tail(s))[i] # "await"
         /\ \A n \in 0..Len(s) : CallerShape(SubSeq(s, n + 1, Len(s)))
  <1>0. /\ Tail(s) \in Seq(Calls) /\ Len(Tail(s)) = Len(s) - 1 /\ Len(s) \in Nat \ {0}
        /\ \A i \in 1..Len(Tail(s)) : Tail(s)[i] = s[i + 1]
    BY TailElements
  <1>P. /\ Paired(Tail(s)) /\ \A p \in {<<>>, InitCalls, UninitCalls} : Paired(p \o Tail(s))
        /\ \A n \in 0..Len(s) : Paired(SubSeq(s, n + 1, Len(s)))
    BY PairedSteps DEF CallerShape
  <1>1. CallerShape(Tail(s)) /\ \A i \in 1..Len(Tail(s)) : Tail(s)[i] # "await"
    <2>1. ASSUME NEW i \in 1..Len(Tail(s))
          PROVE  /\ Tail(s)[i] \in {"free", "spawn"} => i = Len(Tail(s))
                 /\ Tail(s)[i] # "await" /\ Tail(s)[i] # "operate"
      <3>1. i + 1 \in 1..Len(s) /\ i + 1 # 1 /\ Tail(s)[i] = s[i + 1]
        BY <1>0
      <3>2. /\ s[i + 1] \in {"free", "spawn"} => i + 1 = Len(s)
            /\ s[i + 1] # "await" /\ s[i + 1] # "operate"
        BY <3>1 DEF CallerShape
      <3>3. i + 1 = Len(s) => i = Len(Tail(s))
        <4>1. \A a, c, d \in Int : d = a - 1 => (c + 1 = a => c = d)
          OBVIOUS
        <4>2. Len(s) \in Int /\ i \in Int /\ Len(Tail(s)) \in Int
          BY <1>0
        <4> QED
          BY <1>0, <4>1, <4>2, Zenon
      <3> QED
        BY <3>1, <3>2, <3>3, Zenon
    <2> QED
      BY <1>P, <2>1 DEF CallerShape
  <1>2. ASSUME NEW p \in {<<>>, InitCalls, UninitCalls}
        PROVE  /\ CallerShape(p \o Tail(s))
               /\ \A i \in 1..Len(p \o Tail(s)) : (p \o Tail(s))[i] # "await"
    <2> DEFINE q == p \o Tail(s)
    <2>1. p \in Seq(Calls) /\ \A i \in 1..Len(p) : p[i] \notin {"free", "spawn", "await", "operate"}
      <3>1. CASE p = <<>>
        BY <3>1, CallSeqs
      <3>2. CASE p = InitCalls
        BY <3>2, CallSeqs, Bodies
      <3>3. CASE p = UninitCalls
        BY <3>3, CallSeqs, Bodies
      <3> QED
        BY <3>1, <3>2, <3>3
    <2>2. /\ Len(q) = Len(p) + Len(Tail(s)) /\ Len(p) \in Nat /\ Len(Tail(s)) \in Nat
          /\ \A i \in 1..Len(p) : q[i] = p[i]
          /\ \A i \in (Len(p) + 1)..Len(q) :
                i - Len(p) \in 1..Len(Tail(s)) /\ q[i] = Tail(s)[i - Len(p)]
      BY <1>0, <2>1, ConcatElements
    <2> HIDE DEF q
    <2>3. ASSUME NEW i \in 1..Len(q)
          PROVE  /\ q[i] \in {"free", "spawn"} => i = Len(q)
                 /\ q[i] # "await" /\ q[i] # "operate"
      <3>1. CASE i \in 1..Len(p)
        BY <2>1, <2>2, <3>1
      <3>2. CASE i \in (Len(p) + 1)..Len(q)
        <4>1. i - Len(p) \in 1..Len(Tail(s)) /\ q[i] = Tail(s)[i - Len(p)]
          BY <2>2, <3>2
        <4>2. /\ Tail(s)[i - Len(p)] \in {"free", "spawn"} => i - Len(p) = Len(Tail(s))
              /\ Tail(s)[i - Len(p)] # "await" /\ Tail(s)[i - Len(p)] # "operate"
          BY <1>1, <4>1 DEF CallerShape
        <4> QED
          BY <2>2, <4>1, <4>2
      <3> QED
        BY <2>2, <3>1, <3>2
    <2> QED
      BY <1>P, <2>3 DEF CallerShape, q
  <1>3. ASSUME NEW n \in 0..Len(s)
        PROVE  CallerShape(SubSeq(s, n + 1, Len(s)))
    <2> DEFINE r == SubSeq(s, n + 1, Len(s))
    <2>1. Len(r) = Len(s) - n /\ \A i \in 1..Len(r) : r[i] = s[n + i]
      BY AfterElements
    <2> HIDE DEF r
    <2>2. ASSUME NEW i \in 1..Len(r)
          PROVE  /\ r[i] \in {"free", "spawn"} => i = Len(r)
                 /\ r[i] = "await" => i = 1
                 /\ r[i] # "operate"
      <3>1. n + i \in 1..Len(s) /\ r[i] = s[n + i]
        BY <1>0, <2>1
      <3>2. /\ s[n + i] \in {"free", "spawn"} => n + i = Len(s)
            /\ s[n + i] = "await" => n + i = 1
            /\ s[n + i] # "operate"
        BY <3>1 DEF CallerShape
      <3>3. n + i = Len(s) => i = Len(r)
        <4>1. \A a, b, c, d \in Int : d = a - b => (b + c = a => c = d)
          OBVIOUS
        <4>2. Len(s) \in Int /\ n \in Int /\ i \in Int /\ Len(r) \in Int
          BY <1>0, <2>1
        <4> QED
          BY <2>1, <4>1, <4>2
      <3>4. n + i = 1 => i = 1
        BY <1>0, <2>1
      <3> QED
        BY <3>1, <3>2, <3>3, <3>4, Zenon
    <2> QED
      BY <1>P, <2>2 DEF CallerShape, r
  <1> QED
    BY <1>1, <1>2, <1>3

\* A thread's calls keep theirs.
LEMMA WorkerShapeSteps ==
  ASSUME NEW s \in Seq(Calls), s # <<>>, WorkerShape(s)
  PROVE  /\ WorkerShape(Tail(s)) /\ WorkerShape(UninitCalls \o Tail(s))
         /\ \A i \in 1..Len(Tail(s)) : Tail(s)[i] # "operate"
  <1>0. /\ Tail(s) \in Seq(Calls) /\ Len(Tail(s)) = Len(s) - 1 /\ Len(s) \in Nat \ {0}
        /\ \A i \in 1..Len(Tail(s)) : Tail(s)[i] = s[i + 1]
    BY TailElements
  <1>P. Paired(Tail(s)) /\ Paired(UninitCalls \o Tail(s))
    BY PairedSteps DEF WorkerShape
  <1>1. WorkerShape(Tail(s)) /\ \A i \in 1..Len(Tail(s)) : Tail(s)[i] # "operate"
    <2>1. ASSUME NEW i \in 1..Len(Tail(s)) PROVE Tail(s)[i] \in WorkerNames /\ Tail(s)[i] # "operate"
      <3>1. i + 1 \in 1..Len(s) /\ i + 1 # 1 /\ Tail(s)[i] = s[i + 1]
        BY <1>0
      <3> QED
        BY <3>1, Zenon DEF WorkerShape
    <2> QED
      BY <1>P, <2>1 DEF WorkerShape
  <1>2. WorkerShape(UninitCalls \o Tail(s))
    <2> DEFINE p == UninitCalls
               q == p \o Tail(s)
    <2>1. p \in Seq(Calls) /\ \A i \in 1..Len(p) : p[i] \in {"getToken", "shutdownApp", "clearInit", "idle"}
      BY CallSeqs, Bodies
    <2> HIDE DEF p
    <2>2. /\ Len(q) = Len(p) + Len(Tail(s)) /\ Len(p) \in Nat /\ Len(Tail(s)) \in Nat
          /\ \A i \in 1..Len(p) : q[i] = p[i]
          /\ \A i \in (Len(p) + 1)..Len(q) :
                i - Len(p) \in 1..Len(Tail(s)) /\ q[i] = Tail(s)[i - Len(p)]
      BY <1>0, <2>1, ConcatElements
    <2> HIDE DEF q
    <2>3. ASSUME NEW i \in 1..Len(q)
          PROVE  q[i] \in WorkerNames /\ q[i] # "operate"
      <3>1. CASE i \in 1..Len(p)
        BY <2>1, <2>2, <3>1 DEF WorkerNames
      <3>2. CASE i \in (Len(p) + 1)..Len(q)
        <4>1. i - Len(p) \in 1..Len(Tail(s)) /\ q[i] = Tail(s)[i - Len(p)]
          BY <2>2, <3>2
        <4> QED
          BY <1>1, <4>1 DEF WorkerShape
      <3> QED
        BY <2>2, <3>1, <3>2
    <2> QED
      BY <1>P, <2>3 DEF WorkerShape, q, p
  <1> QED
    BY <1>1, <1>2

\* A thread of an operation makes its calls or enters vcs_uninit, an entry point never waits
\* in the course of a step.
LEMMA WhoSteps ==
  ASSUME TypeInv, ShapeInv, NEW t \in Threads, ThreadStep(t), ~Died
  PROVE  /\ todo[t] # <<>> /\ phase # "dead" /\ Kept /\ Head(todo[t]) = todo[t][1]
         /\ Head(todo[t]) \notin {"await", "spawn", "free", "operate"}
         /\ t \in Workers => Head(todo[t]) \in WorkerNames /\ (Made(t) \/ EnteredUninit(t))
         /\ t = 0 => ~AtRest /\ phase = "open"
         /\ \A u \in Threads : u # t => todo'[u] = todo[u]
  <1>1. Made(t) \/ EnteredInit(t) \/ EnteredUninit(t) \/ Abandoned(t)
    BY StepForms
  <1>2. todo[t] # <<>> /\ Kept /\ Head(todo[t]) \notin {"await", "spawn", "free", "operate"}
    BY <1>1, Bodies DEF Made, EnteredInit, EnteredUninit, Abandoned, Turn
  <1>3. Head(todo[t]) = todo[t][1] /\ Len(todo[t]) \in Nat \ {0}
    BY <1>2, CallsLeft, TailElements
  <1>4. phase # "dead" /\ (t = 0 => ~AtRest /\ phase = "open")
    BY <1>2 DEF ShapeInv, caller, AtRest, TypeInv, Values
  <1>5. t \in Workers => Head(todo[t]) \in WorkerNames /\ (Made(t) \/ EnteredUninit(t))
    <2>1. SUFFICES ASSUME t \in Workers
                   PROVE  Head(todo[t]) \in WorkerNames /\ ~EnteredInit(t) /\ ~Abandoned(t)
      BY <1>1
    <2>2. Head(todo[t]) \in WorkerNames
      BY <1>3, <2>1 DEF ShapeInv, WorkerShape
    <2> QED
      BY <2>1, <2>2, Bodies DEF EnteredInit, Abandoned, Turn, WorkerNames
  <1>6. \A u \in Threads : u # t => todo'[u] = todo[u]
    BY <1>1, ContinueElements DEF Made, EnteredInit, EnteredUninit, Abandoned, Returns
  <1> QED
    BY <1>2, <1>3, <1>4, <1>5, <1>6

\* The threads of the operations after a step of an entry point.
LEMMA WorkersStay ==
  ASSUME \A w \in Workers : todo'[w] = todo[w]
  PROVE  Running' <=> Running
  BY DEF Running

\* The threads of the operations after an entry point goes on with calls.
LEMMA CallerElements ==
  ASSUME TypeInv, NEW calls, Continue(0, calls)
  PROVE  caller' = calls /\ (\A w \in Workers : todo'[w] = todo[w]) /\ (Running' <=> Running)
  <1>1. caller' = calls /\ \A w \in Workers : todo'[w] = todo[w]
    BY ThreadsAre, ContinueElements DEF caller
  <1> QED
    BY <1>1, WorkersStay

\* What an operation's thread does after its operation, or instead.
LEMMA OperateElements ==
  ASSUME TypeInv, ShapeInv, NEW t \in Workers, Operate(t)
  PROVE  /\ t \in Threads /\ todo[t] \in Seq(Calls) /\ todo[t] # <<>> /\ Head(todo[t]) = "operate"
         /\ caller' = caller /\ \A w \in Workers : w # t => todo'[w] = todo[w]
         /\ \/ todo'[t] = Tail(todo[t]) /\ failed' = failed
            \/ todo'[t] = ErrorCalls /\ failed' = TRUE
         /\ \A w \in Workers : todo'[w] # <<>> => todo[w] # <<>>
         /\ phase' = phase /\ overtaken' = overtaken
  <1>1. t \in Threads /\ todo[t] \in Seq(Calls) /\ todo[t] # <<>> /\ Head(todo[t]) = "operate"
    BY ThreadsAre, CallsLeft DEF Operate, Turn
  <1>2. \/ Continue(t, Tail(todo[t])) /\ failed' = failed
        \/ Continue(t, ErrorCalls) /\ failed' = TRUE
    BY DEF Operate, Returns
  <1>3. \A u \in Threads : u # t => todo'[u] = todo[u]
    BY <1>1, <1>2, ContinueElements
  <1>4. \/ todo'[t] = Tail(todo[t]) /\ failed' = failed
        \/ todo'[t] = ErrorCalls /\ failed' = TRUE
    BY <1>1, <1>2, ContinueElements
  <1>5. caller' = caller /\ \A w \in Workers : w # t => todo'[w] = todo[w]
    BY <1>3, ThreadsAre DEF caller
  <1>6. phase' = phase /\ overtaken' = overtaken
    BY DEF Operate
  <1> QED
    BY <1>1, <1>4, <1>5, <1>6, Zenon

\* No calls at all, and the calls of the functions, have their shapes.
LEMMA FirstShapes ==
  /\ CallerShape(<<>>) /\ CallerShape(OpenCalls) /\ CallerShape(StartCalls) /\ CallerShape(CloseCalls)
  /\ WorkerShape(<<>>) /\ WorkerShape(ErrorCalls) /\ \A kind \in Kinds : WorkerShape(WorkerCalls(kind))
  <1>1. CallerShape(<<>>) /\ WorkerShape(<<>>)
    BY DEF CallerShape, WorkerShape, Paired
  <1>2. CallerShape(OpenCalls)
    BY DEF CallerShape, OpenCalls, Paired
  <1>3. CallerShape(StartCalls)
    BY DEF CallerShape, StartCalls, Paired
  <1>4. CallerShape(CloseCalls)
    BY DEF CallerShape, CloseCalls, Paired
  <1>5. WorkerShape(ErrorCalls)
    BY DEF WorkerShape, ErrorCalls, WorkerNames, Paired
  <1>6. ASSUME NEW kind \in Kinds PROVE WorkerShape(WorkerCalls(kind))
    <2>1. WorkerShape(<<"operate", "idle", "sensorUninit", "vcsUninit">>)
      BY DEF WorkerShape, WorkerNames, Paired
    <2>2. WorkerShape(<<"operate", "sensorUninit", "vcsUninit", "idle", "notice">>)
      BY DEF WorkerShape, WorkerNames, Paired
    <2> QED
      BY <2>1, <2>2 DEF WorkerCalls
  <1> QED
    BY <1>1, <1>2, <1>3, <1>4, <1>5, <1>6

\* The process dies: no thread is left.
LEMMA DiesElements ==
  ASSUME TypeInv, Dies
  PROVE  /\ phase' = "dead" /\ caller' = <<>> /\ ~Running' /\ ~Starting'
         /\ \A t \in Threads : todo'[t] = <<>>
  <1>1. phase' = "dead" /\ \A t \in Threads : todo'[t] = <<>>
    BY DEF Dies
  <1> QED
    BY <1>1, ThreadsAre DEF caller, Running, Starting

\* The shape of a process without threads.
LEMMA EmptyShape ==
  ASSUME \A t \in Threads : todo[t] = <<>>
  PROVE  ShapeInv
  <1>1. caller = <<>> /\ ~Running /\ \A w \in Workers : todo[w] = <<>>
    BY ThreadsAre DEF caller, Running
  <1> QED
    BY <1>1, FirstShapes DEF ShapeInv

\* A thread's step keeps the shape.
LEMMA ShapeThread ==
  ASSUME TypeInv, ShapeInv, NEW t \in Threads, ThreadStep(t)
  PROVE  ShapeInv'
  <1>1. CASE Died
    <2>1. \A u \in Threads : todo'[u] = <<>>
      BY <1>1, DiesElements DEF Died
    <2>2. caller' = <<>> /\ ~Running' /\ \A w \in Workers : todo'[w] = <<>>
      BY <2>1, ThreadsAre DEF caller, Running
    <2> QED
      BY <2>1, <2>2, FirstShapes DEF ShapeInv
  <1>2. CASE ~Died
    <2> USE <1>2
    <2>1. /\ todo[t] # <<>> /\ phase # "dead" /\ phase' = phase /\ overtaken' = overtaken
          /\ t = 0 => ~AtRest /\ phase = "open"
          /\ \A u \in Threads : u # t => todo'[u] = todo[u]
      BY WhoSteps DEF Kept
    <2>2. CASE t = 0
      <3>1. (\A w \in Workers : todo'[w] = todo[w]) /\ (Running' <=> Running)
        BY <2>1, <2>2, ThreadsAre, WorkersStay
      <3>2. CallerShape(caller')
        <4>1. caller \in Seq(Calls) /\ caller # <<>> /\ CallerShape(caller)
          BY <2>1, <2>2, CallsLeft DEF caller, ShapeInv
        <4>2. CASE Made(t)
          BY <2>2, <4>1, <4>2, CallerShapeSteps, ContinueElements DEF Made, Returns, caller
        <4>3. CASE EnteredInit(t)
          <5>1. PICK p \in {<<>>, InitCalls} : Continue(t, p \o Tail(todo[t]))
            BY <4>3 DEF EnteredInit
          <5>2. caller' = p \o Tail(caller)
            BY <2>2, <5>1, ContinueElements DEF caller
          <5> QED
            BY <4>1, <5>2, CallerShapeSteps
        <4>4. CASE EnteredUninit(t)
          <5>1. caller' = UninitCalls \o Tail(caller)
            BY <2>2, <4>4, ContinueElements DEF EnteredUninit, caller
          <5> QED
            BY <4>1, <5>1, CallerShapeSteps
        <4>5. CASE Abandoned(t)
          <5>1. PICK n \in 0..Len(caller) : caller' = SubSeq(caller, n + 1, Len(caller)) \/ caller' = <<>>
            BY <2>2, <4>5, ContinueElements DEF Abandoned, After, caller
          <5> QED
            BY <4>1, <5>1, CallerShapeSteps, FirstShapes
        <4> QED
          BY <4>2, <4>3, <4>4, <4>5, StepForms
      <3> QED
        BY <2>1, <2>2, <3>1, <3>2 DEF ShapeInv
    <2>3. CASE t \in Workers
      <3>1. caller' = caller /\ AtRest' = AtRest /\ t # 0
        BY <2>1, <2>3, ThreadsAre DEF caller, AtRest
      <3>2. WorkerShape(todo'[t])
        <4>1. todo[t] \in Seq(Calls) /\ todo[t] # <<>> /\ WorkerShape(todo[t])
          BY <2>1, <2>3, CallsLeft DEF ShapeInv
        <4>2. todo'[t] \in {Tail(todo[t]), UninitCalls \o Tail(todo[t])}
          <5>1. CASE Made(t)
            BY <5>1, ContinueElements DEF Made, Returns
          <5>2. CASE EnteredUninit(t)
            BY <5>2, ContinueElements DEF EnteredUninit
          <5> QED
            BY <2>3, <5>1, <5>2, WhoSteps
        <4> QED
          BY <4>1, <4>2, WorkerShapeSteps
      <3>3. \A w \in Workers : WorkerShape(todo'[w])
        BY <2>1, <3>2, ThreadsAre DEF ShapeInv
      <3>4. Running /\ \A w \in Workers : todo'[w] # <<>> => todo[w] # <<>>
        BY <2>1, <2>3, ThreadsAre DEF Running
      <3>5. CallerShape(caller') /\ (phase' = "closed" => caller' = <<>>) /\ phase' # "dead"
        BY <2>1, <3>1 DEF ShapeInv
      <3>6. ~AtRest' \/ phase' = "closed" => overtaken'
        BY <2>1, <3>1, <3>4 DEF ShapeInv
      <3>7. ~overtaken' => \A u, w \in Workers : todo'[u] # <<>> /\ todo'[w] # <<>> => u = w
        BY <2>1, <3>4 DEF ShapeInv
      <3> QED
        BY <3>3, <3>5, <3>6, <3>7 DEF ShapeInv
    <2> QED
      BY <2>2, <2>3, ThreadsAre
  <1> QED
    BY <1>1, <1>2

\* pthread_create and free are the last calls of their entry points.
LEMMA LastCall ==
  ASSUME TypeInv, ShapeInv, NEW c \in {"spawn", "free"}, Turn(0, c)
  PROVE  /\ caller \in Seq(Calls) /\ caller # <<>> /\ Len(caller) = 1 /\ caller[1] = c
         /\ Tail(caller) = <<>> /\ ~AtRest /\ phase = "open" /\ Head(caller) = c
         /\ Starting <=> c = "spawn"
  <1>1. caller \in Seq(Calls) /\ caller # <<>> /\ Head(caller) = c
    BY CallsLeft, ThreadsAre DEF Turn, caller
  <1>2. caller[1] = c /\ Len(caller) \in Nat \ {0}
    BY <1>1, TailElements
  <1>3. 1 = Len(caller)
    <2>1. 1 \in 1..Len(caller) /\ caller[1] \in {"free", "spawn"}
      BY <1>2
    <2>2. CallerShape(caller)
      BY DEF ShapeInv
    <2> QED
      BY <2>1, <2>2, Zenon DEF CallerShape
  <1>4. Tail(caller) = <<>>
    BY <1>1, <1>3, TailElements
  <1>5. phase = "open"
    <2>1. phase # "dead" /\ phase # "closed"
      BY <1>1, ThreadsAre DEF ShapeInv, caller
    <2> QED
      BY <2>1 DEF TypeInv, Values
  <1>6. Starting <=> c = "spawn"
    BY <1>1, <1>2, <1>3 DEF Starting
  <1> QED
    BY <1>1, <1>2, <1>3, <1>4, <1>5, <1>6 DEF AtRest

\* The thread of an operation is created where there was none.
LEMMA SpawnElements ==
  ASSUME TypeInv, ShapeInv, NumberInv, Spawn
  PROVE  /\ caller' = <<>> /\ Starting /\ ~AtRest /\ phase = "open" /\ phase' = phase
         /\ overtaken' = overtaken
         /\ nops \in Workers /\ todo[nops] = <<>>
         /\ \A w \in Workers : w # nops => todo'[w] = todo[w]
         /\ \/ todo'[nops] = WorkerCalls(opKind) /\ failed' = failed
            \/ todo'[nops] = <<>> /\ failed' = TRUE
  <1>1. Tail(caller) = <<>> /\ Starting /\ ~AtRest /\ phase = "open"
    BY LastCall DEF Spawn
  <1>2. phase' = phase /\ overtaken' = overtaken
    BY DEF Spawn
  <1>3. nops \in Workers /\ nops # 0 /\ nops \in Threads /\ 0 \in Threads
    BY <1>1, ThreadsAre DEF NumberInv, TypeInv, Values
  <1>4. todo[nops] = <<>>
    <2>1. ~(nops < nops)
      BY DEF TypeInv, Values
    <2> QED
      BY <1>1, <1>3, <2>1, Zenon DEF NumberInv
  <1>5. \/ /\ todo' = [todo EXCEPT ![0] = Tail(@), ![nops] = WorkerCalls(opKind)]
           /\ failed' = failed
        \/ Continue(0, Tail(todo[0])) /\ failed' = TRUE
    BY DEF Spawn, Returns
  <1>6. CASE /\ todo' = [todo EXCEPT ![0] = Tail(@), ![nops] = WorkerCalls(opKind)]
             /\ failed' = failed
    <2>1. todo'[0] = Tail(todo[0]) /\ todo'[nops] = WorkerCalls(opKind)
      BY <1>3, <1>6 DEF TypeInv
    <2>2. \A w \in Workers : w # nops => todo'[w] = todo[w]
      BY <1>6, ThreadsAre DEF TypeInv
    <2> QED
      BY <1>1, <1>2, <1>3, <1>4, <1>6, <2>1, <2>2 DEF caller
  <1>7. CASE Continue(0, Tail(todo[0])) /\ failed' = TRUE
    <2>1. caller' = Tail(caller) /\ \A w \in Workers : todo'[w] = todo[w]
      BY <1>7, CallerElements DEF caller
    <2> QED
      BY <1>1, <1>2, <1>3, <1>4, <1>7, <2>1
  <1> QED
    BY <1>5, <1>6, <1>7, Zenon

\* Waiting is the first call of fingerprint_close, and nothing waits after it.
LEMMA AwaitElements ==
  ASSUME TypeInv, ShapeInv, Await
  PROVE  /\ caller \in Seq(Calls) /\ caller # <<>> /\ CallerShape(caller) /\ Head(caller) = "await"
         /\ caller' = Tail(caller) /\ CallerShape(caller') /\ (caller' # <<>> => ~AtRest')
         /\ (\A w \in Workers : todo'[w] = todo[w]) /\ (Running' <=> Running)
         /\ phase' = phase /\ phase = "open" /\ (Starting' => Starting)
         /\ (overtaken' <=> Running \/ (overtaken /\ failed)) /\ failed' = failed
  <1>1. caller \in Seq(Calls) /\ caller # <<>> /\ CallerShape(caller) /\ Head(caller) = "await"
    BY CallsLeft, ThreadsAre DEF Await, Turn, caller, ShapeInv
  <1>2. /\ caller' = Tail(caller) /\ (\A w \in Workers : todo'[w] = todo[w])
        /\ (Running' <=> Running)
    BY CallerElements DEF Await, Returns, caller
  <1>3. CallerShape(caller')
    BY <1>1, <1>2, CallerShapeSteps
  <1>4. phase' = phase /\ phase = "open"
    <2>1. phase # "dead" /\ phase # "closed"
      BY <1>1, ThreadsAre DEF ShapeInv, caller
    <2> QED
      BY <2>1 DEF Await, TypeInv, Values
  <1>5. (overtaken' <=> Running \/ (overtaken /\ failed)) /\ failed' = failed
    BY DEF Await, Overtakes
  <1>6. ASSUME caller' # <<>> PROVE ~AtRest' /\ (Starting' => Starting)
    <2>1. /\ Tail(caller) \in Seq(Calls) /\ Len(Tail(caller)) = Len(caller) - 1
          /\ \A i \in 1..Len(Tail(caller)) : Tail(caller)[i] = caller[i + 1]
          /\ Len(caller) \in Nat \ {0}
      BY <1>1, TailElements
    <2>2. /\ Head(Tail(caller)) = Tail(caller)[1] /\ 1 \in 1..Len(Tail(caller))
          /\ Len(Tail(caller)) \in 1..Len(Tail(caller))
      BY <1>2, <1>6, <2>1, TailElements
    <2>3. ~AtRest'
      BY <1>1, <1>2, <1>6, <2>2, CallerShapeSteps DEF AtRest
    <2>4. Tail(caller)[Len(Tail(caller))] = caller[Len(caller)]
      BY <2>1, <2>2
    <2> QED
      BY <1>1, <1>2, <2>3, <2>4 DEF Starting
  <1>7. Starting' => caller' # <<>>
    BY DEF Starting
  <1> QED
    BY <1>1, <1>2, <1>3, <1>4, <1>5, <1>6, <1>7

\* fingerprint_open, the start of an operation and fingerprint_close.
LEMMA OpenElements ==
  ASSUME TypeInv, ShapeInv, Open
  PROVE  /\ phase = "closed" /\ caller = <<>> /\ ~failed'
         /\ (\A w \in Workers : todo'[w] = todo[w]) /\ (Running' <=> Running)
         /\ (overtaken' <=> Running)
         /\ ~handle' /\ ~tzInit' /\ ~sensor' /\ ~loaded' /\ nops' = nops
         /\ \/ phase' = "open" /\ caller' = OpenCalls
            \/ phase' = "closed" /\ caller' = <<>>
  <1>1. phase = "closed" /\ caller = <<>> /\ nops' = nops
    BY DEF Open, ShapeInv
  <1>2. ~failed' /\ (overtaken' <=> Running) /\ ~handle' /\ ~tzInit' /\ ~sensor'
    BY DEF Open, Zeroed
  <1>3. CASE phase' = "open" /\ Continue(0, OpenCalls)
    BY <1>1, <1>2, <1>3, CallerElements DEF loaded
  <1>4. CASE UNCHANGED <<phase, todo>>
    BY <1>1, <1>2, <1>4, WorkersStay DEF caller, loaded
  <1> QED
    BY <1>3, <1>4 DEF Open

\* What the start of an operation does to the calls, to tz.state and to the ghosts.
LEMMA StartElements ==
  ASSUME TypeInv, ShapeInv, \E kind \in Kinds : Start(kind)
  PROVE  /\ phase = "open" /\ phase' = phase /\ caller = <<>> /\ caller' = StartCalls
         /\ (\A w \in Workers : todo'[w] = todo[w]) /\ (Running' <=> Running)
         /\ (overtaken' <=> Running \/ (overtaken /\ failed)) /\ failed' = failed
         /\ ~busy /\ busy' /\ nops' = nops + 1 /\ Starting' /\ ~AtRest' /\ AtRest /\ ~Starting
         /\ UNCHANGED <<tzVars, sensor, swallowed, stuck, nopens>>
  <1>1. PICK kind \in Kinds : Start(kind)
    OBVIOUS
  <1>2. /\ phase = "open" /\ phase' = phase /\ caller = <<>> /\ ~busy /\ busy' /\ nops' = nops + 1
        /\ failed' = failed /\ UNCHANGED <<tzVars, sensor, swallowed, stuck, nopens>>
    BY <1>1 DEF Start, CallerFree, caller
  <1>3. overtaken' <=> Running \/ (overtaken /\ failed)
    BY <1>1 DEF Start, Overtakes
  <1>4. /\ caller' = StartCalls /\ (\A w \in Workers : todo'[w] = todo[w])
        /\ (Running' <=> Running)
    BY <1>1, CallerElements DEF Start
  <1>5. Starting' /\ ~AtRest' /\ AtRest /\ ~Starting
    BY <1>2, <1>4 DEF Starting, AtRest, StartCalls
  <1> QED
    BY <1>2, <1>3, <1>4, <1>5

\* fingerprint_close is entered with nothing else changed.
LEMMA CloseElements ==
  ASSUME TypeInv, ShapeInv, Close
  PROVE  /\ phase = "open" /\ phase' = phase /\ caller = <<>> /\ caller' = CloseCalls
         /\ (\A w \in Workers : todo'[w] = todo[w]) /\ (Running' <=> Running)
         /\ AtRest /\ AtRest' /\ ~Starting' /\ caller' # <<>>
         /\ UNCHANGED <<busy, sensor, tzVars, counters, ghosts>>
  <1>1. /\ phase = "open" /\ phase' = phase /\ caller = <<>>
        /\ UNCHANGED <<busy, sensor, tzVars, counters, ghosts>>
    BY DEF Close, CallerFree, caller
  <1>2. /\ caller' = CloseCalls /\ (\A w \in Workers : todo'[w] = todo[w])
        /\ (Running' <=> Running)
    BY CallerElements DEF Close
  <1>3. AtRest /\ AtRest' /\ ~Starting' /\ caller' # <<>>
    BY <1>1, <1>2 DEF AtRest, Starting, CloseCalls
  <1> QED
    BY <1>1, <1>2, <1>3

\* fingerprint_close ends with freeing the device.
LEMMA FreeElements ==
  ASSUME TypeInv, ShapeInv, Free
  PROVE  /\ caller \in Seq(Calls) /\ caller # <<>> /\ Len(caller) = 1 /\ Head(caller) = "free"
         /\ Tail(caller) = <<>> /\ ~AtRest /\ ~Starting /\ phase = "open"
         /\ phase' = "closed" /\ caller' = <<>> /\ ~Starting'
         /\ (\A w \in Workers : todo'[w] = todo[w]) /\ (Running' <=> Running)
         /\ UNCHANGED <<busy, sensor, tzVars, counters, ghosts>>
  <1>1. /\ caller \in Seq(Calls) /\ caller # <<>> /\ Len(caller) = 1 /\ Head(caller) = "free"
        /\ Tail(caller) = <<>> /\ ~AtRest /\ ~Starting /\ phase = "open"
    BY LastCall DEF Free
  <1>2. /\ caller' = Tail(caller) /\ (\A w \in Workers : todo'[w] = todo[w])
        /\ (Running' <=> Running)
    BY CallerElements DEF Free, Returns, caller
  <1>3. phase' = "closed" /\ UNCHANGED <<busy, sensor, tzVars, counters, ghosts>>
    BY DEF Free
  <1> QED
    BY <1>1, <1>2, <1>3 DEF Starting

\* Only the start of an operation creates a thread.
LEMMA OnlyStarting ==
  ASSUME TypeInv, ShapeInv, ThreadStep(0), ~Died, Starting'
  PROVE  Starting
  <1>1. 0 \in Threads
    BY ThreadsAre
  <1>2. caller \in Seq(Calls) /\ caller # <<>>
    BY <1>1, WhoSteps, CallsLeft DEF caller
  <1>3. caller' \in Seq(Calls) /\ caller' # <<>> /\ caller'[Len(caller')] = "spawn"
    BY <1>1, TypeStep DEF TypeInv, Next, caller, Starting
  <1> DEFINE r == Tail(caller)
             L == Len(caller')
  <1>4. L \in 1..Len(caller')
    BY <1>3, TailElements
  <1>5. /\ r \in Seq(Calls) /\ Len(r) = Len(caller) - 1 /\ Len(caller) \in Nat \ {0}
        /\ \A i \in 1..Len(r) : r[i] = caller[i + 1]
    BY <1>2, TailElements
  <1> HIDE DEF r, L
  <1>6. ASSUME NEW j \in 1..Len(caller), caller[j] = "spawn" PROVE Starting
    BY <1>2, <1>6 DEF ShapeInv, CallerShape, Starting
  <1>7. ASSUME NEW i \in 1..Len(r), r[i] = "spawn" PROVE Starting
    <2>1. i + 1 \in 1..Len(caller) /\ caller[i + 1] = "spawn"
      BY <1>5, <1>7
    <2> QED
      BY <1>6, <2>1
  <1>8. CASE Made(0)
    <2>1. caller' = r
      BY <1>1, <1>8, ContinueElements DEF Made, Returns, caller, r
    <2> QED
      BY <1>3, <1>4, <1>7, <2>1 DEF L
  <1>9. CASE EnteredInit(0) \/ EnteredUninit(0)
    <2>1. PICK p \in {<<>>, InitCalls, UninitCalls} : Continue(0, p \o Tail(todo[0]))
      BY <1>9 DEF EnteredInit, EnteredUninit
    <2>2. caller' = p \o r /\ p \in Seq(Calls)
      BY <1>1, <2>1, ContinueElements, CallSeqs DEF caller, r
    <2>3. /\ Len(caller') = Len(p) + Len(r) /\ Len(p) \in Nat /\ Len(r) \in Nat
          /\ \A i \in 1..Len(p) : caller'[i] = p[i]
          /\ \A i \in (Len(p) + 1)..Len(caller') : i - Len(p) \in 1..Len(r) /\ caller'[i] = r[i - Len(p)]
      BY <1>5, <2>2, ConcatElements
    <2>4. CASE L \in 1..Len(p)
      <3>1. p[L] = "spawn"
        BY <1>3, <2>3, <2>4 DEF L
      <3>2. CASE p = InitCalls
        BY <2>4, <3>1, <3>2, Bodies
      <3>3. CASE p = UninitCalls
        BY <2>4, <3>1, <3>3, Bodies
      <3>4. CASE p = <<>>
        BY <2>4, <3>4
      <3> QED
        BY <3>2, <3>3, <3>4
    <2>5. CASE L \in (Len(p) + 1)..Len(caller')
      BY <1>3, <1>7, <2>3, <2>5 DEF L
    <2> QED
      BY <1>4, <2>3, <2>4, <2>5
  <1>10. CASE Abandoned(0)
    <2>1. PICK n \in 0..Len(caller) : caller' = SubSeq(caller, n + 1, Len(caller)) \/ caller' = <<>>
      BY <1>1, <1>10, ContinueElements DEF Abandoned, After, caller
    <2>2. /\ Len(caller') = Len(caller) - n
          /\ \A i \in 1..Len(caller') : caller'[i] = caller[n + i]
      BY <1>2, <1>3, <2>1, AfterElements
    <2>3. n + L \in 1..Len(caller) /\ caller[n + L] = "spawn"
      <3>1. caller[n + L] = "spawn"
        BY <1>3, <1>4, <2>2 DEF L
      <3>2. n + L \in 1..Len(caller)
        BY <1>4, <1>5, <2>2
      <3> QED
        BY <3>1, <3>2
    <2> QED
      BY <1>6, <2>3
  <1> QED
    BY <1>1, <1>8, <1>9, <1>10, StepForms

\* ShapeInv is kept by every step.
LEMMA ShapeStep ==
  ASSUME TypeInv, ShapeInv, NumberInv, [Next]_vars
  PROVE  ShapeInv'
  <1> USE FirstShapes
  <1>1. ASSUME NEW t \in Threads, ThreadStep(t) PROVE ShapeInv'
    BY <1>1, ShapeThread
  <1>2. CASE Open
    BY <1>2, OpenElements DEF ShapeInv, Running
  <1>3. CASE Spawn
    <2>1. /\ caller' = <<>> /\ ~AtRest /\ phase = "open" /\ phase' = phase
          /\ overtaken' = overtaken /\ nops \in Workers
          /\ \A w \in Workers : w # nops => todo'[w] = todo[w]
      BY <1>3, SpawnElements
    <2>2. WorkerShape(todo'[nops])
      BY <1>3, SpawnElements DEF TypeInv, Values
    <2>3. \A w \in Workers : WorkerShape(todo'[w])
      BY <2>1, <2>2 DEF ShapeInv
    <2>4. ~overtaken => \A w \in Workers : todo[w] = <<>>
      BY <2>1 DEF ShapeInv, Running
    <2>5. ~overtaken => \A w \in Workers : todo'[w] # <<>> => w = nops
      BY <2>1, <2>4
    <2>6. AtRest'
      BY <2>1 DEF AtRest
    <2> QED
      BY <2>1, <2>3, <2>5, <2>6 DEF ShapeInv
  <1>4. ASSUME NEW t \in Workers, Operate(t) PROVE ShapeInv'
    <2>1. /\ todo[t] \in Seq(Calls) /\ todo[t] # <<>> /\ caller' = caller
          /\ phase' = phase /\ overtaken' = overtaken /\ t \in Threads
          /\ \A w \in Workers : w # t => todo'[w] = todo[w]
          /\ \A w \in Workers : todo'[w] # <<>> => todo[w] # <<>>
          /\ todo'[t] \in {Tail(todo[t]), ErrorCalls}
      BY <1>4, OperateElements
    <2>2. WorkerShape(todo'[t])
      BY <2>1, WorkerShapeSteps DEF ShapeInv
    <2>3. \A w \in Workers : WorkerShape(todo'[w])
      BY <2>1, <2>2 DEF ShapeInv
    <2>4. AtRest' = AtRest /\ Running /\ phase # "dead"
      BY <2>1 DEF AtRest, Running, ShapeInv
    <2>5. CallerShape(caller') /\ (phase' = "closed" => caller' = <<>>) /\ phase' # "dead"
      BY <2>1, <2>4 DEF ShapeInv
    <2>6. ~AtRest' \/ phase' = "closed" => overtaken'
      BY <2>1, <2>4 DEF ShapeInv
    <2>7. ~overtaken' => \A u, w \in Workers : todo'[u] # <<>> /\ todo'[w] # <<>> => u = w
      BY <2>1 DEF ShapeInv
    <2> QED
      BY <2>3, <2>5, <2>6, <2>7 DEF ShapeInv
  <1>5. CASE Close
    <2>1. overtaken' = overtaken
      BY <1>5, CloseElements DEF ghosts
    <2> QED
      BY <1>5, <2>1, CloseElements DEF ShapeInv
  <1>6. CASE Await
    <2>1. ~overtaken' => \A w \in Workers : todo[w] = <<>>
      BY <1>6, AwaitElements DEF Running
    <2> QED
      BY <1>6, <2>1, AwaitElements DEF ShapeInv
  <1>7. CASE Free
    <2>1. overtaken' = overtaken
      BY <1>7, FreeElements DEF ghosts
    <2> QED
      BY <1>7, <2>1, FreeElements DEF ShapeInv
  <1>8. CASE UseDestroyed \/ NullHandle
    <2>1. \A u \in Threads : todo'[u] = <<>>
      BY <1>8, DiesElements DEF UseDestroyed, NullHandle
    <2>2. caller' = <<>> /\ ~Running' /\ \A w \in Workers : todo'[w] = <<>>
      BY <2>1, ThreadsAre DEF caller, Running
    <2> QED
      BY <2>1, <2>2 DEF ShapeInv
  <1>9. CASE Restart
    <2>1. \A u \in Threads : todo'[u] = <<>>
      BY <1>9 DEF Restart, ShapeInv
    <2>2. caller' = <<>> /\ ~Running' /\ \A w \in Workers : todo'[w] = <<>>
      BY <2>1, ThreadsAre DEF caller, Running
    <2> QED
      BY <2>1, <2>2 DEF ShapeInv
  <1>10. CASE UNCHANGED vars
    BY <1>10 DEF vars, ghosts, ShapeInv, caller, AtRest, Running
  <1>11. CASE \E kind \in Kinds : Start(kind)
    <2>1. ~overtaken' => \A w \in Workers : todo[w] = <<>>
      BY <1>11, StartElements DEF Running
    <2> QED
      BY <1>11, <2>1, StartElements DEF ShapeInv
  <1> QED
    BY <1>1, <1>2, <1>3, <1>4, <1>5, <1>6, <1>7, <1>8, <1>9, <1>10, <1>11 DEF Next

\* The operations keep their numbers.
LEMMA NumberStep ==
  ASSUME TypeInv, ShapeInv, NumberInv, [Next]_vars
  PROVE  NumberInv'
  <1>0. nops \in Nat /\ Workers \subseteq Nat
    BY ThreadsAre DEF TypeInv, Values
  <1>1. ASSUME nops' = nops, Starting' => Starting,
               \A w \in Workers : todo'[w] # <<>> => todo[w] # <<>>
        PROVE  NumberInv'
    BY <1>1 DEF NumberInv
  <1>2. ASSUME NEW t \in Threads, ThreadStep(t) PROVE NumberInv'
    <2>1. CASE Died
      BY <2>1, DiesElements, ThreadsAre DEF Died, NumberInv
    <2>2. CASE ~Died
      <3>1. nops' = nops /\ todo[t] # <<>> /\ \A u \in Threads : u # t => todo'[u] = todo[u]
        BY <1>2, <2>2, WhoSteps DEF Kept
      <3>2. \A w \in Workers : todo'[w] # <<>> => todo[w] # <<>>
        BY <3>1, ThreadsAre
      <3>3. Starting' => Starting
        <4>1. CASE t = 0
          BY <1>2, <2>2, <4>1, OnlyStarting
        <4>2. CASE t # 0
          BY <3>1, <4>2, ThreadsAre DEF Starting, caller
        <4> QED
          BY <4>1, <4>2
      <3> QED
        BY <1>1, <3>1, <3>2, <3>3
    <2> QED
      BY <2>1, <2>2
  <1>3. CASE Open
    BY <1>1, <1>3, OpenElements DEF Starting, OpenCalls
  <1>4. CASE Spawn
    <2>1. caller' = <<>> /\ Starting /\ \A w \in Workers : w # nops => todo'[w] = todo[w]
      BY <1>4, SpawnElements
    <2>2. ~Starting' /\ nops' = nops
      BY <1>4, <2>1 DEF Starting, Spawn, counters
    <2> QED
      BY <1>0, <2>1, <2>2 DEF NumberInv
  <1>5. ASSUME NEW t \in Workers, Operate(t) PROVE NumberInv'
    <2>1. nops' = nops
      BY <1>5 DEF Operate, counters
    <2>2. caller' = caller /\ \A w \in Workers : todo'[w] # <<>> => todo[w] # <<>>
      BY <1>5, OperateElements
    <2>3. Starting' = Starting
      BY <2>2 DEF Starting
    <2> QED
      BY <1>1, <2>1, <2>2, <2>3
  <1>6. CASE Close
    BY <1>1, <1>6, CloseElements DEF counters
  <1>7. CASE Await
    <2>1. nops' = nops
      BY <1>7 DEF Await, counters
    <2> QED
      BY <1>1, <1>7, <2>1, AwaitElements
  <1>8. CASE Free
    BY <1>1, <1>8, FreeElements DEF counters
  <1>9. CASE UseDestroyed \/ NullHandle
    BY <1>9, DiesElements, ThreadsAre DEF UseDestroyed, NullHandle, NumberInv
  <1>10. CASE Restart \/ UNCHANGED vars
    <2>1. todo' = todo /\ nops' = nops
      BY <1>10 DEF Restart, vars, counters
    <2>2. Starting' = Starting
      BY <2>1 DEF Starting, caller
    <2> QED
      BY <1>1, <2>1, <2>2
  <1>11. CASE \E kind \in Kinds : Start(kind)
    <2>1. nops' = nops + 1 /\ \A w \in Workers : todo'[w] = todo[w]
      BY <1>11, StartElements
    <2>2. \A w \in Workers : todo'[w] # <<>> => w <= nops
      BY <2>1 DEF NumberInv
    <2> QED
      BY <1>0, <2>1, <2>2 DEF NumberInv
  <1> QED
    BY <1>2, <1>3, <1>4, <1>5, <1>6, <1>7, <1>8, <1>9, <1>10, <1>11 DEF Next

\* A thread that is about to reset tz.init stays so while others go on.
LEMMA UnloadingStays ==
  ASSUME NEW u \in Threads, Turn(u, "clearInit"), todo'[u] = todo[u]
  PROVE  Unloading'
  BY DEF Turn, Unloading

\* tz.init never outlasts the application by more than one assignment.
LEMMA PendingStep ==
  ASSUME TypeInv, ShapeInv, NumberInv, PendingInv, [Next]_vars
  PROVE  PendingInv'
  <1>1. ASSUME phase # "dead", tzInit' = tzInit, handle' = handle,
               \A u \in Threads : Turn(u, "clearInit") => todo'[u] = todo[u]
        PROVE  PendingInv'
    BY <1>1, UnloadingStays DEF PendingInv, Unloading
  <1>2. ASSUME NEW t \in Threads, ThreadStep(t) PROVE PendingInv'
    <2>1. CASE Died
      BY <2>1 DEF Died, Dies, PendingInv
    <2>2. CASE ~Died
      <3>1. /\ todo[t] # <<>> /\ phase # "dead" /\ todo[t] \in Seq(Calls)
            /\ \A u \in Threads : u # t => todo'[u] = todo[u]
        BY <1>2, <2>2, WhoSteps, CallsLeft
      <3>2. CASE Made(t)
        <4>1. Switched(Head(todo[t])) /\ todo'[t] = Tail(todo[t])
          BY <3>2, ContinueElements DEF Made, Returns
        <4>2. CASE Head(todo[t]) \in {"startApp", "clearInit"}
          BY <4>1, <4>2 DEF Switched, PendingInv
        <4>3. CASE Head(todo[t]) = "setBandwidth"
          BY <4>1, <4>3 DEF Switched, PendingInv
        <4>4. CASE Head(todo[t]) = "shutdownApp"
          <5>1. Paired(todo[t])
            BY ThreadsAre DEF ShapeInv, CallerShape, WorkerShape, caller
          <5>2. Tail(todo[t]) # <<>> /\ Head(Tail(todo[t])) = "clearInit"
            BY <3>1, <4>4, <5>1, PairedSteps
          <5>3. todo'[t] # <<>> /\ Head(todo'[t]) = "clearInit"
            BY <4>1, <5>2
          <5> QED
            BY <5>3 DEF PendingInv, Unloading, Turn
        <4>5. CASE Head(todo[t]) \notin {"startApp", "clearInit", "setBandwidth", "shutdownApp"}
          <5>1. tzInit' = tzInit /\ handle' = handle
            BY <4>1, <4>5 DEF Switched
          <5>2. \A u \in Threads : Turn(u, "clearInit") => u # t
            BY <4>5 DEF Turn
          <5> QED
            BY <1>1, <3>1, <5>1, <5>2
        <4> QED
          BY <4>2, <4>3, <4>4, <4>5
      <3>3. CASE EnteredInit(t) \/ EnteredUninit(t) \/ Abandoned(t)
        <4>1. tzInit' = tzInit /\ handle' = handle
          BY <3>3 DEF EnteredInit, EnteredUninit, Abandoned, Unswitched
        <4>2. \A u \in Threads : Turn(u, "clearInit") => u # t
          BY <3>3, Bodies DEF EnteredInit, EnteredUninit, Abandoned, Turn
        <4> QED
          BY <1>1, <3>1, <4>1, <4>2
      <3> QED
        BY <1>2, <2>2, <3>2, <3>3, StepForms
    <2> QED
      BY <2>1, <2>2
  <1>3. CASE Open
    BY <1>3, OpenElements DEF PendingInv
  <1>4. CASE Spawn
    <2>1. /\ todo[nops] = <<>> /\ nops \in Workers /\ phase = "open"
          /\ \A w \in Workers : w # nops => todo'[w] = todo[w]
      BY <1>4, SpawnElements
    <2>2. \A u \in Threads : Turn(u, "clearInit") => u # 0 /\ u # nops
      BY <1>4, <2>1 DEF Spawn, Turn
    <2>3. tzInit' = tzInit /\ handle' = handle
      BY <1>4 DEF Spawn, tzVars
    <2> QED
      BY <1>1, <2>1, <2>2, <2>3, ThreadsAre
  <1>5. ASSUME NEW t \in Workers, Operate(t) PROVE PendingInv'
    <2>1. /\ todo[t] # <<>> /\ Head(todo[t]) = "operate" /\ caller' = caller /\ t \in Threads
          /\ \A w \in Workers : w # t => todo'[w] = todo[w]
      BY <1>5, OperateElements
    <2>2. \A u \in Threads : Turn(u, "clearInit") => u # t
      BY <2>1 DEF Turn
    <2>3. tzInit' = tzInit /\ handle' = handle /\ phase # "dead"
      BY <1>5, <2>1 DEF Operate, ShapeInv
    <2> QED
      BY <1>1, <2>1, <2>2, <2>3, ThreadsAre DEF caller
  <1>6. CASE Close
    <2>1. \A u \in Threads : Turn(u, "clearInit") => u # 0
      BY <1>6, CloseElements DEF Turn, caller
    <2> QED
      BY <1>1, <1>6, <2>1, CloseElements, ThreadsAre DEF tzVars
  <1>7. CASE Await
    <2>1. \A u \in Threads : Turn(u, "clearInit") => u # 0
      BY <1>7 DEF Await, Turn
    <2>2. tzInit' = tzInit /\ handle' = handle
      BY <1>7 DEF Await, tzVars
    <2> QED
      BY <1>1, <1>7, <2>1, <2>2, AwaitElements, ThreadsAre
  <1>8. CASE Free
    <2>1. \A u \in Threads : Turn(u, "clearInit") => u # 0
      BY <1>8 DEF Free, Turn
    <2> QED
      BY <1>1, <1>8, <2>1, FreeElements, ThreadsAre DEF tzVars
  <1>9. CASE UseDestroyed \/ NullHandle
    BY <1>9 DEF UseDestroyed, NullHandle, Dies, PendingInv
  <1>10. CASE Restart
    BY <1>10 DEF Restart, Zeroed, PendingInv
  <1>11. CASE UNCHANGED vars
    BY <1>11 DEF vars, tzVars, PendingInv, Unloading, Turn
  <1>12. CASE \E kind \in Kinds : Start(kind)
    <2>1. \A u \in Threads : Turn(u, "clearInit") => u # 0
      BY <1>12, StartElements DEF Turn, caller
    <2> QED
      BY <1>1, <1>12, <2>1, StartElements, ThreadsAre DEF tzVars
  <1> QED
    BY <1>2, <1>3, <1>4, <1>5, <1>6, <1>7, <1>8, <1>9, <1>10, <1>11, <1>12 DEF Next

\* The types, the shape and the numbers of the threads, and the pending reset, together.
BaseInv == TypeInv /\ ShapeInv /\ NumberInv /\ PendingInv

\* BaseInv holds before the first open.
LEMMA BaseInit == Init => BaseInv
  <1> SUFFICES ASSUME Init PROVE ShapeInv /\ NumberInv /\ PendingInv
    BY TypeInit DEF BaseInv
  <1>1. \A t \in Threads : todo[t] = <<>>
    BY DEF Init
  <1>2. caller = <<>> /\ ~Starting /\ ~tzInit /\ \A w \in Workers : todo[w] = <<>>
    BY <1>1, ThreadsAre DEF caller, Starting, Init
  <1>3. ShapeInv
    BY <1>1, EmptyShape
  <1> QED
    BY <1>2, <1>3 DEF NumberInv, PendingInv

\* Every step keeps BaseInv.
LEMMA BaseStep == BaseInv /\ [Next]_vars => BaseInv'
  BY TypeStep, ShapeStep, NumberStep, PendingStep DEF BaseInv

\* TypeOK, whatever calls fail: the calls a thread has left are calls of the HAL, tz.init is
\* set without a loaded application only between the shutdown and the reset that follows it, and
\* neither the application nor the token stands for a session other than those of the opens so
\* far.
THEOREM TzTypes == Spec => []TypeOK
  <1>1. ASSUME BaseInv PROVE TypeOK
    <2> USE <1>1 DEF BaseInv
    <2>1. DOMAIN todo = Threads
      BY DEF TypeInv
    <2>2. \A t \in Threads : SetOf(todo[t]) \subseteq Calls
      BY CallsLeft DEF SetOf
    <2>3. token \in 0..nopens
      BY DEF TypeInv, Values
    <2>4. phase # "dead" /\ tzInit /\ ~handle => \E t \in Threads : Turn(t, "clearInit")
      BY DEF PendingInv, Unloading
    <2>5. Booleans /\ Values
      BY DEF TypeInv
    <2> QED
      BY <2>1, <2>2, <2>3, <2>4, <2>5 DEF TypeOK, Booleans, Values
  <1> QED
    BY <1>1, BaseInit, BaseStep, PTL DEF Spec

-----------------------------------------------------------------------------
(* The application is there for every call. *)

\* The calls that need the application, by name.
LEMMA NeedsAre ==
  /\ \A c : c \in Needs <=>
        c \in {"initialize", "enter", "deviceInitialize", "deviceCalibrate", "setBandwidth",
               "vcsUninit", "getToken", "shutdownApp", "sessionBegin", "sessionEnd", "operate",
               "spawn"}
  /\ HandleCalls \subseteq Needs
  BY DEF Needs, HandleCalls, SetOf, ResumeCalls

\* A call is loaded for by the call at j when none between them unloads the application.
LEMMA LoadedBy ==
  ASSUME NEW s, NEW is, NEW i \in Nat, NEW j \in 1..(i - 1), s[j] \in Loads,
         \A k \in (j + 1)..(i - 1) : s[k] \notin Unloads
  PROVE  LoadedAt(s, i, is)
  BY DEF LoadedAt

\* An application loaded before is there until a call unloads it.
LEMMA LoadedBefore ==
  ASSUME NEW s, NEW is, is, NEW i \in Nat \ {0}, \A k \in 1..(i - 1) : s[k] \notin Unloads
  PROVE  LoadedAt(s, i, is)
  <1>1. 0 \in 0..(i - 1) /\ \A k \in (0 + 1)..(i - 1) : s[k] \notin Unloads
    OBVIOUS
  <1> QED
    BY <1>1 DEF LoadedAt

\* fingerprint_open, the start of an operation and fingerprint_close load the application
\* themselves.
LEMMA SuppliedEntries ==
  ASSUME NEW is
  PROVE  Supplied(OpenCalls, is) /\ Supplied(StartCalls, is) /\ Supplied(CloseCalls, is)
  <1> USE NeedsAre DEF Loads, Unloads
  <1>1. Supplied(OpenCalls, is)
    <2>1. LoadedAt(OpenCalls, 5, is)
      <3>1. OpenCalls[4] \in Loads /\ \A k \in (4 + 1)..(5 - 1) : OpenCalls[k] \notin Unloads
        BY DEF OpenCalls
      <3> QED
        BY <3>1, LoadedBy
    <2>2. LoadedAt(OpenCalls, 7, is)
      <3>1. OpenCalls[6] \in Loads /\ \A k \in (6 + 1)..(7 - 1) : OpenCalls[k] \notin Unloads
        BY DEF OpenCalls
      <3> QED
        BY <3>1, LoadedBy
    <2>3. LoadedAt(OpenCalls, 8, is)
      <3>1. OpenCalls[6] \in Loads /\ \A k \in (6 + 1)..(8 - 1) : OpenCalls[k] \notin Unloads
        BY DEF OpenCalls
      <3> QED
        BY <3>1, LoadedBy
    <2>4. \A i \in 1..Len(OpenCalls) : OpenCalls[i] \in Needs => i \in {5, 7, 8}
      BY DEF OpenCalls
    <2> QED
      BY <2>1, <2>2, <2>3, <2>4 DEF Supplied
  <1>2. Supplied(StartCalls, is)
    <2>1. StartCalls[2] \in Loads /\ \A k \in (2 + 1)..(3 - 1) : StartCalls[k] \notin Unloads
      BY DEF StartCalls
    <2>2. \A i \in 1..Len(StartCalls) : StartCalls[i] \in Needs => i = 3
      BY DEF StartCalls
    <2> QED
      BY <2>1, <2>2, LoadedBy DEF Supplied
  <1>3. Supplied(CloseCalls, is)
    <2>1. LoadedAt(CloseCalls, 4, is)
      <3>1. CloseCalls[3] \in Loads /\ \A k \in (3 + 1)..(4 - 1) : CloseCalls[k] \notin Unloads
        BY DEF CloseCalls
      <3> QED
        BY <3>1, LoadedBy
    <2>2. LoadedAt(CloseCalls, 5, is)
      <3>1. CloseCalls[3] \in Loads /\ \A k \in (3 + 1)..(5 - 1) : CloseCalls[k] \notin Unloads
        BY DEF CloseCalls
      <3> QED
        BY <3>1, LoadedBy
    <2>3. \A i \in 1..Len(CloseCalls) : CloseCalls[i] \in Needs => i \in {4, 5}
      BY DEF CloseCalls
    <2> QED
      BY <2>1, <2>2, <2>3 DEF Supplied
  <1> QED
    BY <1>1, <1>2, <1>3

\* vcs_init loads the application for its other calls and for those after it; vcs_uninit and
\* the thread of an operation use the one they find.
LEMMA SuppliedBodies ==
  ASSUME NEW is, NEW on, on
  PROVE  /\ Supplied(<<>>, is)
         /\ Supplied(InitCalls, is) /\ LoadedAt(InitCalls, Len(InitCalls) + 1, is)
         /\ Supplied(UninitCalls, on)
         /\ \A kind \in Kinds : Supplied(WorkerCalls(kind), on)
  <1> USE NeedsAre DEF Loads, Unloads
  <1>1. Supplied(<<>>, is)
    BY DEF Supplied
  <1>2. \A i \in 1..Len(InitCalls) : InitCalls[i] \notin Unloads
    BY Bodies
  <1>3. ASSUME NEW i \in 2..7 PROVE LoadedAt(InitCalls, i, is)
    <2>1. InitCalls[1] \in Loads /\ \A k \in (1 + 1)..(i - 1) : InitCalls[k] \notin Unloads
      BY <1>2, InitCallsAre
    <2> QED
      BY <2>1, LoadedBy
  <1>4. Supplied(InitCalls, is) /\ LoadedAt(InitCalls, Len(InitCalls) + 1, is)
    BY <1>3, InitCallsAre DEF Supplied
  <1>6. Supplied(UninitCalls, on)
    <2>1. \A i \in 1..Len(UninitCalls) : UninitCalls[i] \in Needs => i \in {1, 2}
      BY DEF UninitCalls
    <2>2. \A k \in 1..1 : UninitCalls[k] \notin Unloads
      BY DEF UninitCalls
    <2>3. ASSUME NEW i \in {1, 2} PROVE LoadedAt(UninitCalls, i, on)
      <3>1. i \in Nat \ {0} /\ \A k \in 1..(i - 1) : UninitCalls[k] \notin Unloads
        BY <2>2
      <3> QED
        BY <3>1, LoadedBefore
    <2> QED
      BY <2>1, <2>3 DEF Supplied
  <1>7. Supplied(<<"operate", "idle", "sensorUninit", "vcsUninit">>, on)
    <2> DEFINE s == <<"operate", "idle", "sensorUninit", "vcsUninit">>
    <2>1. Len(s) = 4 /\ \A k \in 1..3 : s[k] \notin Unloads
      OBVIOUS
    <2> HIDE DEF s
    <2>2. ASSUME NEW i \in 1..4 PROVE LoadedAt(s, i, on)
      <3>1. i \in Nat \ {0} /\ \A k \in 1..(i - 1) : s[k] \notin Unloads
        BY <2>1
      <3> QED
        BY <3>1, LoadedBefore
    <2> QED
      BY <2>1, <2>2 DEF Supplied, s
  <1>8. Supplied(<<"operate", "sensorUninit", "vcsUninit", "idle", "notice">>, on)
    <2> DEFINE s == <<"operate", "sensorUninit", "vcsUninit", "idle", "notice">>
    <2>1. Len(s) = 5 /\ s[4] = "idle" /\ s[5] = "notice" /\ \A k \in 1..2 : s[k] \notin Unloads
      OBVIOUS
    <2> HIDE DEF s
    <2>2. ASSUME NEW i \in 1..3 PROVE LoadedAt(s, i, on)
      <3>1. i \in Nat \ {0} /\ \A k \in 1..(i - 1) : s[k] \notin Unloads
        BY <2>1
      <3> QED
        BY <3>1, LoadedBefore
    <2>3. \A i \in 1..5 : s[i] \in Needs => i \in 1..3
      BY <2>1
    <2> QED
      BY <2>1, <2>2, <2>3 DEF Supplied, s
  <1>9. \A kind \in Kinds : Supplied(WorkerCalls(kind), on)
    BY <1>7, <1>8 DEF WorkerCalls
  <1> QED
    BY <1>1, <1>4, <1>6, <1>9

\* A first call that needs the application finds it loaded.
LEMMA SuppliedHead ==
  ASSUME NEW s \in Seq(Calls), s # <<>>, NEW is, Supplied(s, is), Head(s) \in Needs
  PROVE  is
  <1>1. Len(s) \in Nat \ {0} /\ Head(s) = s[1]
    BY TailElements
  <1>2. LoadedAt(s, 1, is)
    BY <1>1 DEF Supplied
  <1> QED
    BY <1>2 DEF LoadedAt

\* What loads the application itself does not mind its being loaded before.
LEMMA SuppliedAnyway ==
  ASSUME NEW s, Supplied(s, FALSE), NEW is
  PROVE  Supplied(s, is)
  <1>1. ASSUME NEW i \in 1..Len(s), LoadedAt(s, i, FALSE) PROVE LoadedAt(s, i, is)
    <2>1. PICK j \in 0..(i - 1) : /\ IF j = 0 THEN FALSE ELSE s[j] \in Loads
                                  /\ \A k \in (j + 1)..(i - 1) : s[k] \notin Unloads
      BY <1>1, Zenon DEF LoadedAt
    <2>2. IF j = 0 THEN is ELSE s[j] \in Loads
      BY <2>1
    <2> QED
      BY <2>1, <2>2 DEF LoadedAt
  <1> QED
    BY <1>1, Zenon DEF Supplied

\* A thread's calls find the application after its step as before.
LEMMA SuppliedGoesOn ==
  ASSUME BaseInv, NEW t \in Threads, ThreadStep(t), ~Died, ~failed', ~overtaken,
         Supplied(todo[t], handle)
  PROVE  Supplied(todo'[t], handle')
  <1>0. TypeInv /\ ShapeInv
    BY DEF BaseInv
  <1> USE <1>0
  <1> DEFINE s == todo[t]
  <1>1. s \in Seq(Calls) /\ s # <<>> /\ Tail(s) \in Seq(Calls)
    BY WhoSteps, CallsLeft
  <1> USE NeedsAre DEF Loads, Unloads
  <1>2. CASE Made(t)
    <2>1. todo'[t] = Tail(s) /\ Switched(Head(s)) /\ Head(s) \notin {"vcsInit", "vcsUninit"}
      BY <1>2, ContinueElements DEF Made, Returns
    <2>2. (Head(s) \in Loads => handle') /\ (handle /\ Head(s) \notin Unloads => handle')
      BY <2>1 DEF Switched
    <2> QED
      BY <1>1, <2>1, <2>2, SuppliedTail
  <1>3. CASE EnteredInit(t)
    <2>1. Supplied(Tail(s), TRUE)
      <3>1. Supplied(s, handle) /\ Head(s) \in Loads /\ Head(s) \notin Unloads
        BY <1>3 DEF EnteredInit, Turn
      <3> QED
        BY <1>1, <3>1, SuppliedTail, Zenon
    <2>2. CASE tzInit
      <3>0. ~Unloading
        <4>1. t = 0 /\ ~AtRest /\ phase # "dead"
          <5>1. t \notin Workers
            BY <1>3, WhoSteps DEF EnteredInit, Turn, WorkerNames
          <5> QED
            BY <5>1, ThreadsAre, WhoSteps
        <4>2. \A u \in Workers : todo[u] = <<>>
          BY <4>1 DEF ShapeInv, Running
        <4> QED
          BY <1>3, <4>1, <4>2, ThreadsAre DEF Unloading, Turn, EnteredInit
      <3>1. handle' /\ handle
        <4>1. phase # "dead"
          BY WhoSteps
        <4>2. handle
          BY <2>2, <3>0, <4>1 DEF BaseInv, PendingInv
        <4> QED
          BY <1>3, <4>2 DEF EnteredInit, Unswitched
      <3>2. todo'[t] = Tail(s)
        BY <1>1, <1>3, <2>2, ContinueElements DEF EnteredInit
      <3>3. Supplied(Tail(s), handle')
        <4>1. handle' = TRUE
          BY <1>3, <3>1, Zenon DEF EnteredInit, Unswitched, TypeInv, Booleans
        <4> QED
          BY <2>1, <4>1, Zenon
      <3> QED
        BY <3>2, <3>3
    <2>3. CASE ~tzInit
      <3>1. todo'[t] = InitCalls \o Tail(s) /\ handle' = handle
        BY <1>3, <2>3, ContinueElements DEF EnteredInit, Unswitched
      <3>2. Supplied(InitCalls, handle) /\ LoadedAt(InitCalls, Len(InitCalls) + 1, handle)
        BY SuppliedBodies
      <3> QED
        <4>1. InitCalls \in Seq(Calls)
          BY CallSeqs
        <4>2. Supplied(InitCalls \o Tail(s), handle)
          BY <1>1, <2>1, <3>2, <4>1, SuppliedConcat, Zenon
        <4> QED
          BY <3>1, <4>2
    <2> QED
      BY <2>2, <2>3
  <1>4. CASE EnteredUninit(t)
    <2>1. Head(s) = "vcsUninit" /\ handle /\ handle' = handle /\ todo'[t] = UninitCalls \o Tail(s)
      BY <1>4, ContinueElements DEF EnteredUninit, Turn, Unswitched
    <2>2. Supplied(Tail(s), FALSE)
      <3>1. ASSUME NEW off, ~off PROVE Supplied(Tail(s), off)
        BY <1>1, <2>1, <3>1, SuppliedTail
      <3> QED
        BY <3>1
    <2>3. Supplied(UninitCalls, handle)
      BY <2>1, SuppliedBodies
    <2> QED
      <3>1. UninitCalls \in Seq(Calls)
        BY CallSeqs
      <3>2. Supplied(UninitCalls \o Tail(s), handle)
        BY <1>1, <2>2, <2>3, <3>1, SuppliedConcat, Zenon
      <3> QED
        BY <2>1, <3>2
  <1>5. CASE Abandoned(t)
    <2>1. handle /\ handle' = handle
      BY <1>5 DEF Abandoned, Unswitched
    <2>2. PICK n \in 0..Len(s) : todo'[t] = SubSeq(s, n + 1, Len(s))
      BY <1>5, ContinueElements DEF Abandoned, After
    <2>3. Supplied(SubSeq(s, n + 1, Len(s)), TRUE)
      BY <1>1, SuppliedAfter
    <2>4. ASSUME NEW r, NEW on, on, Supplied(r, TRUE) PROVE Supplied(r, on)
      BY <2>4 DEF Supplied, LoadedAt
    <2> QED
      BY <2>1, <2>2, <2>3, <2>4
  <1> QED
    BY <1>2, <1>3, <1>4, <1>5, StepForms

\* An entry point that goes on does not wait.
LEMMA NeverWaits ==
  ASSUME TypeInv, ShapeInv, ThreadStep(0), ~Died, caller' # <<>>
  PROVE  ~AtRest'
  <1>1. 0 \in Threads
    BY ThreadsAre
  <1>2. caller \in Seq(Calls) /\ caller # <<>> /\ CallerShape(caller)
    BY <1>1, WhoSteps, CallsLeft DEF caller, ShapeInv
  <1>3. caller' \in Seq(Calls)
    BY <1>1, TypeStep DEF TypeInv, Next, caller
  <1>4. SUFFICES Head(caller') # "await"
    BY DEF AtRest
  <1>5. Head(caller') = caller'[1] /\ 1 \in 1..Len(caller')
    BY <1>3, TailElements
  <1>6. CASE Made(0)
    <2>1. caller' = Tail(caller)
      BY <1>1, <1>6, ContinueElements DEF Made, Returns, caller
    <2> QED
      BY <1>2, <1>5, <2>1, CallerShapeSteps
  <1>7. CASE EnteredInit(0) \/ EnteredUninit(0)
    <2>1. PICK p \in {<<>>, InitCalls, UninitCalls} : Continue(0, p \o Tail(todo[0]))
      BY <1>7 DEF EnteredInit, EnteredUninit
    <2>2. caller' = p \o Tail(caller)
      BY <1>1, <2>1, ContinueElements DEF caller
    <2> QED
      BY <1>2, <1>5, <2>2, CallerShapeSteps
  <1>8. CASE Abandoned(0)
    <2>1. PICK n \in 0..Len(caller) : /\ InitLeft(0, n)
                                      /\ \/ caller' = SubSeq(caller, n + 1, Len(caller))
                                         \/ caller' = <<>>
      BY <1>1, <1>8, ContinueElements DEF Abandoned, After, caller
    <2>2. caller[1] \in SetOf(InitCalls) /\ Len(caller) \in Nat \ {0}
      BY <1>2, <1>8, TailElements DEF Abandoned, caller
    <2>3. n # 0
      BY <2>1, <2>2 DEF InitLeft, caller
    <2>4. caller'[1] = caller[n + 1] /\ n + 1 \in 1..Len(caller) /\ n + 1 # 1
      BY <1>2, <1>5, <2>1, <2>2, <2>3, AfterElements
    <2> QED
      BY <1>2, <1>5, <2>4, Zenon DEF CallerShape
  <1> QED
    BY <1>1, <1>6, <1>7, <1>8, StepForms

\* A thread's step keeps SuppliedInv.
LEMMA SuppliedThread ==
  ASSUME BaseInv, SuppliedInv, NEW t \in Threads, ThreadStep(t)
  PROVE  SuppliedInv'
  <1>0. TypeInv /\ ShapeInv
    BY DEF BaseInv
  <1> USE <1>0
  <1>1. CASE Died
    BY <1>1, DiesElements DEF Died, SuppliedInv
  <1>2. CASE ~Died
    <2>1. /\ phase' # "dead" /\ overtaken' = overtaken /\ (failed => failed') /\ todo[t] # <<>>
          /\ \A u \in Threads : u # t => todo'[u] = todo[u]
      BY <1>2, WhoSteps DEF Kept
    <2>2. \A is : Supplied(<<>>, is)
      BY DEF Supplied
    <2>3. ASSUME ~failed', ~overtaken' PROVE Supplied(todo'[t], handle')
      <3>1. Supplied(todo[t], handle) /\ ~overtaken
        BY <2>1, <2>3 DEF SuppliedInv
      <3> QED
        BY <1>2, <2>3, <3>1, SuppliedGoesOn
    <2>4. CASE t = 0
      <3>1. ASSUME ~overtaken, NEW u \in Threads, u # t PROVE todo'[u] = <<>>
        <4>1. ~AtRest /\ u \in Workers
          BY <1>2, <2>4, <3>1, WhoSteps, ThreadsAre
        <4> QED
          BY <2>1, <3>1, <4>1 DEF ShapeInv, Running
      <3>2. ~failed' /\ ~overtaken' => \A u \in Threads : Supplied(todo'[u], handle')
        BY <2>1, <2>2, <2>3, <3>1
      <3>3. caller' # <<>> => ~AtRest'
        BY <1>2, <2>4, NeverWaits
      <3> QED
        BY <2>1, <3>2, <3>3 DEF SuppliedInv
    <2>5. CASE t \in Workers
      <3>1. caller' = caller
        BY <2>1, <2>5, ThreadsAre DEF caller
      <3>2. AtRest' = AtRest
        BY <3>1 DEF AtRest
      <3>3. ASSUME ~overtaken, NEW u \in Threads, u # t
            PROVE  todo'[u] = <<>> \/ Supplied(todo'[u], FALSE)
        <4>1. CASE u \in Workers
          BY <2>1, <2>5, <3>3, <4>1 DEF ShapeInv
        <4>2. CASE u = 0
          <5>1. AtRest
            BY <2>1, <2>5, <3>3 DEF ShapeInv, Running
          <5> QED
            BY <2>1, <3>3, <4>2, <5>1 DEF SuppliedInv, caller
        <4> QED
          BY <4>1, <4>2, ThreadsAre
      <3>4. ASSUME ~overtaken, NEW u \in Threads, u # t PROVE Supplied(todo'[u], handle')
        <4>1. CASE todo'[u] = <<>>
          BY <2>2, <4>1
        <4>2. CASE Supplied(todo'[u], FALSE)
          BY <4>2, SuppliedAnyway, Zenon
        <4> QED
          BY <3>3, <3>4, <4>1, <4>2
      <3>5. ~failed' /\ ~overtaken' => \A u \in Threads : Supplied(todo'[u], handle')
        BY <2>1, <2>3, <3>4
      <3> QED
        BY <2>1, <3>1, <3>2, <3>5 DEF SuppliedInv
    <2> QED
      BY <2>4, <2>5, ThreadsAre
  <1> QED
    BY <1>1, <1>2

\* SuppliedInv is kept by every step: whoever uses tz.qhandle has been given it.
LEMMA SuppliedStep ==
  ASSUME BaseInv, SuppliedInv, [Next]_vars
  PROVE  SuppliedInv'
  <1>0. TypeInv /\ ShapeInv /\ NumberInv
    BY DEF BaseInv
  <1> USE <1>0
  <1>1. ASSUME NEW t \in Threads, ThreadStep(t) PROVE SuppliedInv'
    BY <1>1, SuppliedThread
  <1>2. \A is : Supplied(<<>>, is)
    BY DEF Supplied
  <1>E. ASSUME phase' # "dead", Supplied(caller', handle'), ~overtaken' => ~Running',
               caller' # <<>> /\ AtRest' => Supplied(caller', FALSE)
        PROVE  SuppliedInv'
    <2>1. ~overtaken' => \A t \in Threads : Supplied(todo'[t], handle')
      BY <1>2, <1>E, ThreadsAre DEF Running, caller
    <2> QED
      BY <1>E, <2>1 DEF SuppliedInv
  <1>3. CASE Open
    <2>1. Supplied(OpenCalls, handle') /\ Supplied(OpenCalls, FALSE)
      BY SuppliedEntries
    <2>2. /\ phase' # "dead" /\ (~overtaken' => ~Running')
          /\ caller' = OpenCalls \/ caller' = <<>>
      BY <1>3, OpenElements
    <2> QED
      BY <1>2, <1>E, <2>1, <2>2
  <1>4. CASE Spawn
    <2>1. /\ caller' = <<>> /\ ~AtRest /\ phase' # "dead" /\ overtaken' = overtaken
          /\ nops \in Workers /\ \A w \in Workers : w # nops => todo'[w] = todo[w]
      BY <1>4, SpawnElements
    <2>2. \/ todo'[nops] = WorkerCalls(opKind) /\ failed' = failed
          \/ todo'[nops] = <<>> /\ failed' = TRUE
      BY <1>4, SpawnElements
    <2>3. ASSUME ~failed', ~overtaken' PROVE \A t \in Threads : Supplied(todo'[t], handle')
      <3>1. todo'[nops] = WorkerCalls(opKind) /\ ~failed /\ ~overtaken
        BY <2>1, <2>2, <2>3
      <3>2. handle
        <4>1. Supplied(caller, handle)
          BY <3>1, ThreadsAre DEF SuppliedInv, caller
        <4>2. caller \in Seq(Calls) /\ caller # <<>> /\ Head(caller) = "spawn"
          BY <1>4, LastCall DEF Spawn
        <4> QED
          BY <4>1, <4>2, SuppliedHead, NeedsAre
      <3>3. handle' /\ handle' = handle
        BY <1>4, <3>2 DEF Spawn, tzVars
      <3>4. Supplied(WorkerCalls(opKind), handle')
        BY <3>3, SuppliedBodies DEF TypeInv, Values
      <3>5. \A w \in Workers : w # nops => todo'[w] = <<>>
        BY <2>1, <3>1 DEF ShapeInv, Running
      <3> QED
        BY <1>2, <2>1, <3>1, <3>4, <3>5, ThreadsAre DEF caller
    <2> QED
      BY <2>1, <2>3 DEF SuppliedInv
  <1>5. ASSUME NEW t \in Workers, Operate(t) PROVE SuppliedInv'
    <2>1. /\ t \in Threads /\ todo[t] \in Seq(Calls) /\ todo[t] # <<>> /\ Head(todo[t]) = "operate"
          /\ caller' = caller /\ \A w \in Workers : w # t => todo'[w] = todo[w]
          /\ phase' = phase /\ overtaken' = overtaken /\ phase # "dead"
      BY <1>5, OperateElements DEF ShapeInv
    <2>2. \/ todo'[t] = Tail(todo[t]) /\ failed' = failed
          \/ todo'[t] = ErrorCalls /\ failed' = TRUE
      BY <1>5, OperateElements
    <2>3. handle' = handle
      BY <1>5 DEF Operate
    <2>4. AtRest' = AtRest
      BY <2>1 DEF AtRest
    <2>5. ASSUME ~failed', ~overtaken' PROVE \A u \in Threads : Supplied(todo'[u], handle')
      <3>1. todo'[t] = Tail(todo[t]) /\ ~failed /\ ~overtaken
        BY <2>1, <2>2, <2>5
      <3>2. \A u \in Threads : Supplied(todo[u], handle)
        BY <3>1 DEF SuppliedInv
      <3>3. Supplied(Tail(todo[t]), handle)
        BY <2>1, <3>2, SuppliedTail DEF Loads, Unloads
      <3> QED
        BY <2>1, <2>3, <3>1, <3>2, <3>3, ThreadsAre DEF caller
    <2> QED
      BY <2>1, <2>4, <2>5 DEF SuppliedInv
  <1>6. CASE Close
    <2>1. /\ caller' = CloseCalls /\ \A w \in Workers : todo'[w] = todo[w]
      BY <1>6, CloseElements
    <2>2. phase' # "dead" /\ handle' = handle /\ failed' = failed /\ overtaken' = overtaken
      BY <1>6, CloseElements DEF tzVars, ghosts
    <2>3. Supplied(CloseCalls, handle) /\ Supplied(CloseCalls, FALSE)
      BY SuppliedEntries
    <2> QED
      BY <2>1, <2>2, <2>3, ThreadsAre DEF SuppliedInv, caller
  <1>7. CASE Await
    <2>1. /\ caller \in Seq(Calls) /\ caller # <<>> /\ caller' = Tail(caller)
          /\ Head(caller) = "await" /\ (caller' # <<>> => ~AtRest') /\ phase' # "dead"
          /\ ~overtaken' => ~Running'
      BY <1>7, AwaitElements
    <2>2. Supplied(caller, FALSE)
      BY <2>1 DEF SuppliedInv, AtRest
    <2>3. Supplied(Tail(caller), handle')
      BY <2>1, <2>2, SuppliedTail, Zenon DEF Loads, Unloads
    <2> QED
      BY <1>E, <2>1, <2>3
  <1>8. CASE Free
    <2>1. /\ caller' = <<>> /\ \A w \in Workers : todo'[w] = todo[w]
      BY <1>8, FreeElements
    <2>2. phase' # "dead" /\ handle' = handle /\ failed' = failed /\ overtaken' = overtaken
      BY <1>8, FreeElements DEF tzVars, ghosts
    <2> QED
      BY <1>2, <2>1, <2>2, ThreadsAre DEF SuppliedInv, caller
  <1>9. CASE UseDestroyed
    <2>1. overtaken
      BY <1>9 DEF UseDestroyed, ShapeInv
    <2>2. overtaken'
      BY <1>9, <2>1 DEF UseDestroyed, ghosts
    <2> QED
      BY <1>9, <2>2, DiesElements DEF UseDestroyed, SuppliedInv
  <1>10. CASE NullHandle
    <2>1. PICK t \in Threads, call \in HandleCalls : Turn(t, call) /\ ~handle
      BY <1>10 DEF NullHandle
    <2>2. failed \/ overtaken
      <3>1. SUFFICES ASSUME Supplied(todo[t], handle) PROVE FALSE
        BY DEF SuppliedInv
      <3> QED
        BY <2>1, <3>1, CallsLeft, SuppliedHead, NeedsAre DEF Turn
    <2> QED
      BY <1>10, <2>2, DiesElements DEF NullHandle, SuppliedInv, ghosts
  <1>11. CASE Restart
    <2>1. \A t \in Threads : todo'[t] = <<>>
      BY <1>11 DEF Restart, ShapeInv
    <2>2. phase' = "closed"
      BY <1>11 DEF Restart
    <2> QED
      BY <1>2, <2>1, <2>2, ThreadsAre DEF SuppliedInv, caller
  <1>12. CASE UNCHANGED vars
    BY <1>12 DEF vars, ghosts, tzVars, SuppliedInv, caller, AtRest
  <1>13. CASE \E kind \in Kinds : Start(kind)
    <2>1. /\ caller' = StartCalls /\ phase' # "dead" /\ ~AtRest'
          /\ ~overtaken' => ~Running'
      BY <1>13, StartElements
    <2>2. Supplied(StartCalls, handle')
      BY SuppliedEntries
    <2> QED
      BY <1>E, <2>1, <2>2
  <1> QED
    BY <1>1, <1>3, <1>4, <1>5, <1>6, <1>7, <1>8, <1>9, <1>10, <1>11, <1>12, <1>13 DEF Next

\* The HAL dereferences tz.qhandle without looking at it; the process dies of this, or of a
\* destroyed mutex or a freed device, only if a call has failed since the open, or the next start
\* or fingerprint_close has overtaken the last calls of a thread.
THEOREM DiesOfFailure == Spec => []DiesOnlyOfFailure
  <1>1. Init => BaseInv /\ SuppliedInv
    <2> SUFFICES ASSUME Init PROVE SuppliedInv
      BY BaseInit
    <2>1. (\A t \in Threads : todo[t] = <<>>) /\ phase = "closed"
      BY DEF Init
    <2>2. caller = <<>> /\ \A is : Supplied(<<>>, is)
      BY <2>1, ThreadsAre DEF Supplied, caller
    <2> QED
      BY <2>1, <2>2 DEF SuppliedInv
  <1>2. (BaseInv /\ SuppliedInv) /\ [Next]_vars => (BaseInv /\ SuppliedInv)'
    BY BaseStep, SuppliedStep
  <1>3. SuppliedInv => DiesOnlyOfFailure
    BY DEF SuppliedInv, DiesOnlyOfFailure
  <1> QED
    BY <1>1, <1>2, <1>3, PTL DEF Spec

-----------------------------------------------------------------------------
(* What is switched off at the end. *)

\* A call that switches off stands at i, and none that switches on after it.
LEMMA EndsOffBy ==
  ASSUME NEW s, NEW is, NEW on, NEW off, NEW i \in 1..Len(s), s[i] \in off,
         \A k \in (i + 1)..Len(s) : s[k] \notin on
  PROVE  EndsOff(s, is, on, off)
  BY DEF EndsOff

\* What is off already does not have to be switched off.
LEMMA EndsOffAnyway ==
  ASSUME NEW s, NEW is, NEW on, NEW off, NEW now, EndsOff(s, is, on, off), now => is
  PROVE  EndsOff(s, now, on, off)
  BY DEF EndsOff

\* With no call left, it is off.
LEMMA EndsOffEmpty ==
  ASSUME NEW is, NEW on, NEW off, EndsOff(<<>>, is, on, off)
  PROVE  ~is
  BY DEF EndsOff

\* fingerprint_open, fingerprint_close and the thread of an operation switch off.
LEMMA OffEntries ==
  ASSUME NEW h, NEW p, NEW t
  PROVE  /\ Off(OpenCalls, h, p, t) /\ Off(CloseCalls, h, p, t)
         /\ \A kind \in Kinds : Off(WorkerCalls(kind), h, p, t)
  <1> USE DEF Loads, Unloads, PowersOn, PowersOff, Inits, Clears
  <1>1. Off(OpenCalls, h, p, t)
    <2>1. /\ 8 \in 1..Len(OpenCalls) /\ OpenCalls[8] \in Unloads /\ OpenCalls[8] \in Clears
          /\ \A k \in (8 + 1)..Len(OpenCalls) : OpenCalls[k] \notin Loads /\ OpenCalls[k] \notin Inits
          /\ 9 \in 1..Len(OpenCalls) /\ OpenCalls[9] \in PowersOff
          /\ \A k \in (9 + 1)..Len(OpenCalls) : OpenCalls[k] \notin PowersOn
      BY DEF OpenCalls
    <2> QED
      BY <2>1, EndsOffBy DEF Off
  <1>2. Off(CloseCalls, h, p, t)
    <2>1. /\ 5 \in 1..Len(CloseCalls) /\ CloseCalls[5] \in Unloads /\ CloseCalls[5] \in Clears
          /\ \A k \in (5 + 1)..Len(CloseCalls) : CloseCalls[k] \notin Loads /\ CloseCalls[k] \notin Inits
          /\ 6 \in 1..Len(CloseCalls) /\ CloseCalls[6] \in PowersOff
          /\ \A k \in (6 + 1)..Len(CloseCalls) : CloseCalls[k] \notin PowersOn
      BY DEF CloseCalls
    <2> QED
      BY <2>1, EndsOffBy DEF Off
  <1>3. Off(<<"operate", "idle", "sensorUninit", "vcsUninit">>, h, p, t)
    <2> DEFINE s == <<"operate", "idle", "sensorUninit", "vcsUninit">>
    <2>1. /\ 4 \in 1..Len(s) /\ s[4] \in Unloads /\ s[4] \in Clears
          /\ \A k \in (4 + 1)..Len(s) : s[k] \notin Loads /\ s[k] \notin Inits
          /\ 3 \in 1..Len(s) /\ s[3] \in PowersOff /\ \A k \in (3 + 1)..Len(s) : s[k] \notin PowersOn
      OBVIOUS
    <2> HIDE DEF s
    <2>2. Off(s, h, p, t)
      BY <2>1, EndsOffBy DEF Off
    <2> QED
      BY <2>2 DEF s
  <1>4. Off(<<"operate", "sensorUninit", "vcsUninit", "idle", "notice">>, h, p, t)
    <2> DEFINE s == <<"operate", "sensorUninit", "vcsUninit", "idle", "notice">>
    <2>1. /\ 3 \in 1..Len(s) /\ s[3] \in Unloads /\ s[3] \in Clears
          /\ \A k \in (3 + 1)..Len(s) : s[k] \notin Loads /\ s[k] \notin Inits
          /\ 2 \in 1..Len(s) /\ s[2] \in PowersOff /\ \A k \in (2 + 1)..Len(s) : s[k] \notin PowersOn
      OBVIOUS
    <2> HIDE DEF s
    <2>2. Off(s, h, p, t)
      BY <2>1, EndsOffBy DEF Off
    <2> QED
      BY <2>2 DEF s
  <1> QED
    BY <1>1, <1>2, <1>3, <1>4 DEF WorkerCalls

\* What is switched off after a sequence's calls is so when a harmless first call is made.
LEMMA OffTail ==
  ASSUME NEW s \in Seq(Calls), s # <<>>, NEW h, NEW p, NEW t, Off(s, h, p, t),
         Head(s) \notin Unloads \cup PowersOff \cup Clears
  PROVE  Off(Tail(s), h, p, t)
  <1>1. Loads \cap Unloads = {} /\ PowersOn \cap PowersOff = {} /\ Inits \cap Clears = {}
    BY DEF Loads, Unloads, PowersOn, PowersOff, Inits, Clears
  <1>2. EndsOff(Tail(s), h, Loads, Unloads)
    BY <1>1, EndsOffTail DEF Off
  <1>3. EndsOff(Tail(s), p, PowersOn, PowersOff)
    BY <1>1, EndsOffTail DEF Off
  <1>4. EndsOff(Tail(s), t, Inits, Clears)
    BY <1>1, EndsOffTail DEF Off
  <1> QED
    BY <1>2, <1>3, <1>4 DEF Off

\* What is off already does not have to be switched off, and with no call left all is off.
LEMMA OffAnyway ==
  ASSUME NEW s, NEW h, NEW p, NEW t, NEW h1, NEW p1, NEW t1, Off(s, h, p, t),
         h1 => h, p1 => p, t1 => t
  PROVE  Off(s, h1, p1, t1)
  BY EndsOffAnyway DEF Off

\* With no call left, everything is off.
LEMMA OffEmpty ==
  ASSUME NEW h, NEW p, NEW t, Off(<<>>, h, p, t)
  PROVE  ~h /\ ~p /\ ~t
  BY EndsOffEmpty DEF Off

\* What a thread's calls switch off stays switched off by those left after its step.
LEMMA OffGoesOn ==
  ASSUME TypeInv, ShapeInv, NEW t \in Threads, ThreadStep(t), ~Died,
         Off(todo[t], loaded, sensor, tzInit), \A i \in 1..Len(todo[t]) : todo[t][i] # "spawn"
  PROVE  Off(todo'[t], loaded', sensor', tzInit')
  <1> DEFINE s == todo[t]
  <1>1. s \in Seq(Calls) /\ s # <<>> /\ Tail(s) \in Seq(Calls)
    BY WhoSteps, CallsLeft
  <1>2. /\ EndsOff(s, loaded, Loads, Unloads) /\ EndsOff(s, sensor, PowersOn, PowersOff)
        /\ EndsOff(s, tzInit, Inits, Clears)
    BY DEF Off
  <1>3. Loads \cap Unloads = {} /\ PowersOn \cap PowersOff = {} /\ Inits \cap Clears = {}
    BY DEF Loads, Unloads, PowersOn, PowersOff, Inits, Clears
  <1>4. CASE Made(t)
    <2>1. todo'[t] = Tail(s) /\ Switched(Head(s)) /\ Head(s) \notin {"vcsInit", "vcsUninit"}
      BY <1>4, ContinueElements DEF Made, Returns
    <2>2. /\ loaded' => Head(s) \in Loads \/ (loaded /\ Head(s) \notin Unloads)
          /\ sensor' => Head(s) \in PowersOn \/ (sensor /\ Head(s) \notin PowersOff)
          /\ tzInit' => Head(s) \in Inits \/ (tzInit /\ Head(s) \notin Clears)
      BY <2>1 DEF Switched, Loads, Unloads, PowersOn, PowersOff, Inits, Clears
    <2>3. EndsOff(Tail(s), loaded', Loads, Unloads)
      BY <1>1, <1>2, <1>3, <2>2, EndsOffTail
    <2>4. EndsOff(Tail(s), sensor', PowersOn, PowersOff)
      BY <1>1, <1>2, <1>3, <2>2, EndsOffTail
    <2>5. EndsOff(Tail(s), tzInit', Inits, Clears)
      BY <1>1, <1>2, <1>3, <2>2, EndsOffTail
    <2> QED
      BY <2>1, <2>3, <2>4, <2>5 DEF Off
  <1>5. CASE EnteredInit(t)
    <2>1. /\ Head(s) \in Loads /\ Head(s) \notin PowersOff /\ Head(s) \in Inits
          /\ loaded' = loaded /\ sensor' = sensor /\ tzInit' = tzInit
      BY <1>5 DEF EnteredInit, Unswitched, Turn, Loads, PowersOff, Inits
    <2>2. EndsOff(Tail(s), TRUE, Loads, Unloads) /\ EndsOff(Tail(s), TRUE, Inits, Clears)
      BY <1>1, <1>2, <1>3, <2>1, EndsOffTail, Zenon
    <2>3. EndsOff(Tail(s), loaded, Loads, Unloads)
      BY <1>1, <1>2, <1>3, <2>1, EndsOffTail
    <2>4. EndsOff(Tail(s), sensor, PowersOn, PowersOff)
      BY <1>1, <1>2, <1>3, <2>1, EndsOffTail
    <2>5. EndsOff(Tail(s), tzInit, Inits, Clears)
      BY <1>1, <1>2, <1>3, <2>1, EndsOffTail
    <2>6. CASE tzInit
      <3>1. todo'[t] = Tail(s)
        BY <1>1, <1>5, <2>6, ContinueElements DEF EnteredInit
      <3> QED
        BY <2>1, <2>3, <2>4, <2>5, <3>1 DEF Off
    <2>7. CASE ~tzInit
      <3>1. todo'[t] = InitCalls \o Tail(s)
        BY <1>5, <2>7, ContinueElements DEF EnteredInit
      <3>2. InitCalls \in Seq(Calls)
        BY CallSeqs
      <3>3. EndsOff(InitCalls \o Tail(s), loaded, Loads, Unloads)
        BY <1>1, <2>2, <3>2, EndsOffConcat, Zenon
      <3>4. sensor \/ EndsOff(InitCalls, sensor, PowersOn, PowersOff)
        BY Bodies DEF EndsOff, PowersOn
      <3>5. EndsOff(InitCalls \o Tail(s), sensor, PowersOn, PowersOff)
        BY <1>1, <2>4, <3>2, <3>4, EndsOffConcat, Zenon
      <3>6. EndsOff(InitCalls \o Tail(s), tzInit, Inits, Clears)
        BY <1>1, <2>2, <3>2, EndsOffConcat, Zenon
      <3> QED
        BY <2>1, <3>1, <3>3, <3>5, <3>6 DEF Off
    <2> QED
      BY <2>6, <2>7
  <1>6. CASE EnteredUninit(t)
    <2>1. /\ Head(s) \notin PowersOff
          /\ loaded' = loaded /\ sensor' = sensor /\ tzInit' = tzInit
          /\ todo'[t] = UninitCalls \o Tail(s)
      BY <1>6, ContinueElements DEF EnteredUninit, Unswitched, Turn, PowersOff
    <2>2. EndsOff(Tail(s), FALSE, Loads, Unloads) /\ EndsOff(Tail(s), FALSE, Inits, Clears)
      BY <1>1, <1>2, <1>3, EndsOffTail, Zenon
    <2>3. EndsOff(Tail(s), sensor, PowersOn, PowersOff)
      BY <1>1, <1>2, <1>3, <2>1, EndsOffTail
    <2>4. UninitCalls \in Seq(Calls)
      BY CallSeqs
    <2>5. EndsOff(UninitCalls, loaded, Loads, Unloads)
      <3>1. 2 \in 1..Len(UninitCalls) /\ UninitCalls[2] \in Unloads
            /\ \A k \in (2 + 1)..Len(UninitCalls) : UninitCalls[k] \notin Loads
        BY DEF UninitCalls, Loads, Unloads
      <3> QED
        BY <3>1, EndsOffBy
    <2>6. EndsOff(UninitCalls, tzInit, Inits, Clears)
      <3>1. 3 \in 1..Len(UninitCalls) /\ UninitCalls[3] \in Clears
            /\ \A k \in (3 + 1)..Len(UninitCalls) : UninitCalls[k] \notin Inits
        BY DEF UninitCalls, Inits, Clears
      <3> QED
        BY <3>1, EndsOffBy
    <2>7. sensor \/ EndsOff(UninitCalls, sensor, PowersOn, PowersOff)
      BY Bodies DEF EndsOff, PowersOn
    <2>8. EndsOff(UninitCalls \o Tail(s), loaded, Loads, Unloads)
      BY <1>1, <2>2, <2>4, <2>5, EndsOffConcat, Zenon
    <2>9. EndsOff(UninitCalls \o Tail(s), tzInit, Inits, Clears)
      BY <1>1, <2>2, <2>4, <2>6, EndsOffConcat, Zenon
    <2>10. EndsOff(UninitCalls \o Tail(s), sensor, PowersOn, PowersOff)
      BY <1>1, <2>3, <2>4, <2>7, EndsOffConcat, Zenon
    <2> QED
      BY <2>1, <2>8, <2>9, <2>10 DEF Off
  <1>7. CASE Abandoned(t)
    <2>1. loaded' = loaded /\ sensor' = sensor /\ tzInit' = tzInit
      BY <1>7 DEF Abandoned, Unswitched
    <2>2. PICK n \in 0..Len(s) :
             /\ InitLeft(t, n)
             /\ \/ todo'[t] = SubSeq(s, n + 1, Len(s))
                \/ n < Len(s) /\ s[n + 1] = "spawn"
      BY <1>7, ContinueElements DEF Abandoned, After
    <2>3. todo'[t] = SubSeq(s, n + 1, Len(s))
      <3>1. n < Len(s) => n + 1 \in 1..Len(s)
        BY <1>1
      <3> QED
        BY <2>2, <3>1
    <2>4. \A i \in 1..n : s[i] \notin Unloads /\ s[i] \notin PowersOff /\ s[i] \notin Clears
      BY <2>2, Bodies DEF InitLeft, Unloads, PowersOff, Clears
    <2>5. EndsOff(SubSeq(s, n + 1, Len(s)), loaded, Loads, Unloads)
      BY <1>1, <1>2, <2>4, EndsOffAfter
    <2>6. EndsOff(SubSeq(s, n + 1, Len(s)), sensor, PowersOn, PowersOff)
      BY <1>1, <1>2, <2>4, EndsOffAfter
    <2>7. EndsOff(SubSeq(s, n + 1, Len(s)), tzInit, Inits, Clears)
      BY <1>1, <1>2, <2>4, EndsOffAfter
    <2> QED
      BY <2>1, <2>3, <2>5, <2>6, <2>7 DEF Off
  <1> QED
    BY <1>4, <1>5, <1>6, <1>7, StepForms

\* The thread of an operation switches nothing on.
LEMMA WorkerSwitchesOff ==
  ASSUME TypeInv, ShapeInv, NEW t \in Workers, ThreadStep(t), ~Died
  PROVE  (loaded' => loaded) /\ (sensor' => sensor) /\ (tzInit' => tzInit)
  <1>1. t \in Threads
    BY ThreadsAre
  <1>2. Head(todo[t]) \in WorkerNames /\ (Made(t) \/ EnteredUninit(t))
    BY <1>1, WhoSteps
  <1>3. CASE Made(t)
    BY <1>2, <1>3 DEF Made, Switched, WorkerNames
  <1>4. CASE EnteredUninit(t)
    BY <1>4 DEF EnteredUninit, Unswitched
  <1> QED
    BY <1>2, <1>3, <1>4

\* The creation of the thread stays the last call while the calls before it are made.
LEMMA LastStays ==
  ASSUME NEW s \in Seq(Calls), s # <<>>, s[Len(s)] = "spawn", Head(s) # "spawn"
  PROVE  /\ Tail(s) # <<>> /\ Tail(s)[Len(Tail(s))] = "spawn"
         /\ \A p \in Seq(Calls) : /\ p \o Tail(s) # <<>>
                                  /\ (p \o Tail(s))[Len(p \o Tail(s))] = "spawn"
         /\ \A n \in 0..Len(s) :
               LET r == SubSeq(s, n + 1, Len(s))
               IN n # Len(s) => r # <<>> /\ r[Len(r)] = "spawn"
  <1>0. /\ Tail(s) \in Seq(Calls) /\ Len(Tail(s)) = Len(s) - 1 /\ Len(s) \in Nat \ {0}
        /\ \A i \in 1..Len(Tail(s)) : Tail(s)[i] = s[i + 1]
        /\ Head(s) = s[1] /\ (Tail(s) = <<>> <=> Len(s) = 1)
    BY TailElements
  <1>1. Len(s) # 1 /\ Tail(s) # <<>>
    BY <1>0
  <1>2. Len(Tail(s)) \in 1..Len(Tail(s)) /\ Len(Tail(s)) + 1 = Len(s)
    BY <1>0, <1>1
  <1>3. Tail(s)[Len(Tail(s))] = "spawn"
    BY <1>0, <1>2
  <1>4. ASSUME NEW p \in Seq(Calls)
        PROVE  p \o Tail(s) # <<>> /\ (p \o Tail(s))[Len(p \o Tail(s))] = "spawn"
    <2> DEFINE q == p \o Tail(s)
    <2>1. /\ q \in Seq(Calls) /\ Len(q) = Len(p) + Len(Tail(s)) /\ Len(p) \in Nat
          /\ \A i \in 1..Len(Tail(s)) : q[Len(p) + i] = Tail(s)[i]
      BY <1>0, ConcatElements
    <2> HIDE DEF q
    <2>2. q[Len(q)] = "spawn"
      BY <1>2, <1>3, <2>1
    <2>3. Len(q) # 0
      BY <1>0, <1>2, <2>1
    <2>4. q # <<>>
      BY <2>3
    <2> QED
      BY <2>2, <2>4 DEF q
  <1>5. ASSUME NEW n \in 0..Len(s), n # Len(s)
        PROVE  LET r == SubSeq(s, n + 1, Len(s))
               IN r # <<>> /\ r[Len(r)] = "spawn"
    <2> DEFINE r == SubSeq(s, n + 1, Len(s))
    <2>1. /\ r \in Seq(Calls) /\ Len(r) = Len(s) - n
          /\ \A i \in 1..Len(r) : r[i] = s[n + i]
      BY AfterElements
    <2> HIDE DEF r
    <2>2. Len(r) \in 1..Len(r) /\ n + Len(r) = Len(s) /\ Len(r) # 0
      <3>1. Len(s) \in Int /\ n \in Int /\ n <= Len(s)
        BY <1>0
      <3>2. \A a, b, d \in Int : d = a - b /\ b <= a /\ b # a => b + d = a /\ d > 0 /\ d \in 1..d /\ d # 0
        OBVIOUS
      <3>3. Len(r) \in Int
        BY <2>1
      <3> QED
        BY <1>5, <2>1, <3>1, <3>2, <3>3
    <2>3. r[Len(r)] = "spawn" /\ r # <<>>
      BY <2>1, <2>2
    <2> QED
      BY <2>3 DEF r
  <1> QED
    BY <1>1, <1>3, <1>4, <1>5, Zenon

\* The start of an operation goes on to the creation of the thread, or gives up with an error.
LEMMA StartingGoesOn ==
  ASSUME TypeInv, ShapeInv, ThreadStep(0), ~Died, Starting
  PROVE  Starting' \/ (caller' = <<>> /\ failed')
  <1>1. 0 \in Threads
    BY ThreadsAre
  <1>2. /\ caller \in Seq(Calls) /\ caller # <<>> /\ caller[Len(caller)] = "spawn"
        /\ Head(caller) # "spawn"
    BY <1>1, WhoSteps, CallsLeft DEF caller, Starting
  <1>3. CASE Made(0)
    <2>1. caller' = Tail(caller)
      BY <1>1, <1>3, ContinueElements DEF Made, Returns, caller
    <2> QED
      BY <1>2, <2>1, LastStays DEF Starting
  <1>4. CASE EnteredInit(0) \/ EnteredUninit(0)
    <2>1. PICK p \in {<<>>, InitCalls, UninitCalls} : Continue(0, p \o Tail(todo[0]))
      BY <1>4 DEF EnteredInit, EnteredUninit
    <2>2. caller' = p \o Tail(caller) /\ p \in Seq(Calls)
      BY <1>1, <2>1, ContinueElements, CallSeqs DEF caller
    <2> QED
      BY <1>2, <2>2, LastStays DEF Starting
  <1>5. CASE Abandoned(0)
    <2>1. PICK n \in 0..Len(caller) : /\ InitLeft(0, n)
                                      /\ \/ caller' = SubSeq(caller, n + 1, Len(caller))
                                         \/ caller' = <<>> /\ failed'
      BY <1>1, <1>5, ContinueElements DEF Abandoned, After, caller
    <2>2. n # Len(caller)
      <3>1. Len(caller) \in 1..Len(caller)
        BY <1>2
      <3> QED
        BY <1>2, <2>1, <3>1, Bodies DEF InitLeft, caller
    <2> QED
      BY <1>2, <2>1, <2>2, LastStays DEF Starting
  <1> QED
    BY <1>1, <1>3, <1>4, <1>5, StepForms

\* A thread's step keeps QuietInv.
LEMMA QuietThread ==
  ASSUME TypeInv, ShapeInv, QuietInv, NEW t \in Threads, ThreadStep(t)
  PROVE  QuietInv'
  <1>1. CASE Died
    BY <1>1 DEF Died, Dies, QuietInv
  <1>2. CASE ~Died
    <2>0. /\ phase' = phase /\ (failed => failed') /\ todo[t] # <<>>
          /\ \A u \in Threads : u # t => todo'[u] = todo[u]
      BY <1>2, WhoSteps DEF Kept
    <2>1. CASE t = 0
      <3>1. phase = "open" /\ caller # <<>>
        BY <1>2, <2>1, WhoSteps DEF caller
      <3>2. CASE Starting
        <4>1. Starting' \/ (caller' = <<>> /\ failed')
          BY <1>2, <2>1, <3>2, StartingGoesOn
        <4> QED
          BY <2>0, <3>1, <4>1 DEF QuietInv, Starting
      <3>3. CASE ~Starting
        <4>1. \A i \in 1..Len(caller) : caller[i] # "spawn"
          BY <3>1, <3>3 DEF ShapeInv, CallerShape, Starting
        <4>2. Off(todo'[0], loaded', sensor', tzInit')
          BY <1>2, <2>1, <3>1, <3>3, <4>1, OffGoesOn DEF QuietInv, caller
        <4> QED
          BY <2>0, <3>1, <4>2, ThreadsAre DEF QuietInv, caller
      <3> QED
        BY <3>2, <3>3
    <2>2. CASE t \in Workers
      <3>1. caller' = caller
        BY <2>0, <2>2, ThreadsAre DEF caller
      <3>2. (loaded' => loaded) /\ (sensor' => sensor) /\ (tzInit' => tzInit)
        BY <1>2, <2>2, WorkerSwitchesOff
      <3>3. Starting' = Starting
        BY <3>1 DEF Starting
      <3>4. CASE phase = "open" /\ caller # <<>> /\ ~Starting
        <4>1. Off(caller, loaded', sensor', tzInit')
          BY <3>2, <3>4, OffAnyway DEF QuietInv
        <4> QED
          BY <2>0, <3>1, <3>4, <4>1 DEF QuietInv
      <3>5. CASE phase = "open" /\ caller = <<>> /\ ~failed'
        <4>1. PICK u \in Threads : Off(todo[u], loaded, sensor, tzInit)
          BY <2>0, <3>5 DEF QuietInv
        <4>2. CASE u = t
          <5>1. \A i \in 1..Len(todo[t]) : todo[t][i] # "spawn"
            BY <2>2 DEF ShapeInv, WorkerShape, WorkerNames
          <5>2. Off(todo'[u], loaded', sensor', tzInit')
            BY <1>2, <4>1, <4>2, <5>1, OffGoesOn
          <5> QED
            BY <2>0, <3>1, <3>5, <5>2 DEF QuietInv
        <4>3. CASE u # t
          <5>1. Off(todo'[u], loaded', sensor', tzInit')
            BY <2>0, <3>2, <4>1, <4>3, OffAnyway
          <5> QED
            BY <2>0, <3>1, <3>5, <5>1 DEF QuietInv
        <4> QED
          BY <4>2, <4>3
      <3>6. CASE phase = "closed"
        BY <2>0, <3>2, <3>6 DEF QuietInv
      <3> QED
        BY <2>0, <3>1, <3>3, <3>4, <3>5, <3>6 DEF QuietInv
    <2> QED
      BY <2>1, <2>2, ThreadsAre
  <1> QED
    BY <1>1, <1>2

\* QuietInv is kept by every step.
LEMMA QuietStep ==
  ASSUME BaseInv, QuietInv, [Next]_vars
  PROVE  QuietInv'
  <1>0. TypeInv /\ ShapeInv /\ NumberInv
    BY DEF BaseInv
  <1> USE <1>0
  <1>1. ASSUME NEW t \in Threads, ThreadStep(t) PROVE QuietInv'
    BY <1>1, QuietThread
  <1>2. CASE Open
    <2>1. Off(OpenCalls, loaded', sensor', tzInit') /\ OpenCalls # <<>>
      BY OffEntries DEF OpenCalls
    <2> QED
      BY <1>2, <2>1, OpenElements DEF QuietInv
  <1>3. CASE Spawn
    <2>1. /\ caller' = <<>> /\ phase' = "open" /\ nops \in Workers
          /\ \/ todo'[nops] = WorkerCalls(opKind)
             \/ failed' = TRUE
      BY <1>3, SpawnElements
    <2>2. CASE failed' = TRUE
      BY <2>1, <2>2 DEF QuietInv
    <2>3. CASE todo'[nops] = WorkerCalls(opKind)
      <3>1. opKind \in Kinds /\ nops \in Threads
        BY <2>1, ThreadsAre DEF TypeInv, Values
      <3>2. Off(todo'[nops], loaded', sensor', tzInit')
        BY <2>3, <3>1, OffEntries
      <3> QED
        BY <2>1, <3>1, <3>2 DEF QuietInv
    <2> QED
      BY <2>1, <2>2, <2>3
  <1>4. ASSUME NEW t \in Workers, Operate(t) PROVE QuietInv'
    <2>1. /\ t \in Threads /\ todo[t] \in Seq(Calls) /\ todo[t] # <<>> /\ Head(todo[t]) = "operate"
          /\ caller' = caller /\ phase' = phase
          /\ \A w \in Workers : w # t => todo'[w] = todo[w]
      BY <1>4, OperateElements
    <2>2. \/ todo'[t] = Tail(todo[t]) /\ failed' = failed
          \/ failed' = TRUE
      BY <1>4, OperateElements
    <2>3. loaded' = loaded /\ sensor' = sensor /\ tzInit' = tzInit
      BY <1>4 DEF Operate, loaded
    <2>4. Starting' = Starting
      BY <2>1 DEF Starting
    <2>5. CASE failed' = TRUE
      BY <2>1, <2>3, <2>4, <2>5 DEF QuietInv
    <2>6. CASE todo'[t] = Tail(todo[t]) /\ failed' = failed
      <3>1. ASSUME NEW u \in Threads, Off(todo[u], loaded, sensor, tzInit)
            PROVE  Off(todo'[u], loaded, sensor, tzInit)
        <4>1. CASE u = t
          <5>1. Head(todo[t]) \notin Unloads \cup PowersOff \cup Clears
            BY <2>1 DEF Unloads, PowersOff, Clears
          <5> QED
            BY <2>1, <2>6, <3>1, <4>1, <5>1, OffTail
        <4>2. CASE u # t
          BY <2>1, <3>1, <4>2, ThreadsAre DEF caller
        <4> QED
          BY <4>1, <4>2
      <3> QED
        BY <2>1, <2>3, <2>4, <2>6, <3>1 DEF QuietInv
    <2> QED
      BY <2>2, <2>5, <2>6
  <1>5. CASE Close
    <2>1. Off(CloseCalls, loaded', sensor', tzInit')
      BY OffEntries
    <2> QED
      BY <1>5, <2>1, CloseElements DEF QuietInv
  <1>6. CASE Await
    <2>1. /\ caller \in Seq(Calls) /\ caller # <<>> /\ caller' = Tail(caller) /\ Head(caller) = "await"
          /\ phase' = "open" /\ phase = "open"
      BY <1>6, AwaitElements
    <2>2. loaded' = loaded /\ sensor' = sensor /\ tzInit' = tzInit
      BY <1>6 DEF Await, tzVars, loaded
    <2>3. CASE Starting
      <3>1. Starting'
        BY <2>1, <2>3, LastStays DEF Starting
      <3> QED
        BY <2>1, <3>1 DEF QuietInv, Starting
    <2>4. CASE ~Starting
      <3>1. Head(caller) \notin Unloads \cup PowersOff \cup Clears
        BY <2>1 DEF Unloads, PowersOff, Clears
      <3>2. Off(caller', loaded', sensor', tzInit')
        BY <2>1, <2>2, <2>4, <3>1, OffTail DEF QuietInv
      <3> QED
        BY <2>1, <3>2, ThreadsAre DEF QuietInv, caller
    <2> QED
      BY <2>3, <2>4
  <1>7. CASE Free
    <2>1. /\ caller \in Seq(Calls) /\ caller # <<>> /\ Head(caller) = "free"
          /\ Tail(caller) = <<>> /\ ~Starting /\ phase = "open" /\ phase' = "closed"
      BY <1>7, FreeElements
    <2>2. loaded' = loaded /\ sensor' = sensor /\ tzInit' = tzInit
      BY <1>7, FreeElements DEF tzVars, loaded, ghosts
    <2>3. Head(caller) \notin Unloads \cup PowersOff \cup Clears
      BY <2>1 DEF Unloads, PowersOff, Clears
    <2>4. Off(Tail(caller), loaded, sensor, tzInit)
      BY <2>1, <2>3, OffTail DEF QuietInv
    <2>5. ~loaded /\ ~sensor /\ ~tzInit
      BY <2>1, <2>4, OffEmpty
    <2> QED
      BY <2>1, <2>2, <2>5 DEF QuietInv
  <1>8. CASE UseDestroyed \/ NullHandle
    BY <1>8 DEF UseDestroyed, NullHandle, Dies, QuietInv
  <1>9. CASE Restart
    <2>1. phase' = "closed" /\ ~loaded' /\ ~sensor' /\ ~tzInit'
      BY <1>9 DEF Restart, Zeroed, loaded
    <2> QED
      BY <2>1 DEF QuietInv
  <1>10. CASE UNCHANGED vars
    BY <1>10 DEF vars, ghosts, tzVars, QuietInv, caller, Starting, loaded
  <1>11. CASE \E kind \in Kinds : Start(kind)
    <2>1. Starting' /\ caller' # <<>> /\ phase' = "open"
      BY <1>11, StartElements DEF Starting
    <2> QED
      BY <2>1 DEF QuietInv
  <1> QED
    BY <1>1, <1>2, <1>3, <1>4, <1>5, <1>6, <1>7, <1>8, <1>9, <1>10, <1>11 DEF Next

\* All threads have returned, and nothing failed since the open: everything is off.
LEMMA AllReturned ==
  ASSUME TypeInv, QuietInv, phase = "open", caller = <<>>, ~Running, ~failed
  PROVE  ~loaded /\ ~sensor /\ ~tzInit
  <1>1. PICK t \in Threads : Off(todo[t], loaded, sensor, tzInit)
    BY DEF QuietInv
  <1>2. todo[t] = <<>>
    BY ThreadsAre DEF caller, Running
  <1> QED
    BY <1>1, <1>2, OffEmpty

\* When nothing is under way the sensor is off, tz.init reset and the application shut down unless
\* the shutdown failed: after a fingerprint_close always, be the operations' calls refused and
\* their threads overtaken, and after the operations if no call has failed since the open, however
\* many of their threads ran at once.
THEOREM QuietAtRest == Spec => []DeviceQuiet
  <1> DEFINE Inv == BaseInv /\ QuietInv
  <1>1. Init => Inv
    <2> SUFFICES ASSUME Init PROVE QuietInv
      BY BaseInit
    <2>1. phase = "closed" /\ ~loaded /\ ~sensor /\ ~tzInit
      BY DEF Init, loaded
    <2> QED
      BY <2>1 DEF QuietInv
  <1>2. Inv /\ [Next]_vars => Inv'
    BY BaseStep, QuietStep
  <1>3. Inv => DeviceQuiet
    <2> SUFFICES ASSUME Inv, phase # "dead", \A t \in Threads : todo[t] = <<>>,
                        phase = "closed" \/ ~failed
                 PROVE  ~sensor /\ ~tzInit /\ (handle => stuck)
      BY DEF DeviceQuiet
    <2>1. caller = <<>> /\ ~Running
      BY ThreadsAre DEF caller, Running
    <2>2. ~sensor /\ ~loaded /\ ~tzInit
      <3>1. CASE phase = "closed"
        BY <3>1 DEF QuietInv
      <3>2. CASE phase = "open"
        BY <2>1, <3>2, AllReturned DEF BaseInv
      <3> QED
        BY <3>1, <3>2 DEF BaseInv, TypeInv, Values
    <2> QED
      BY <2>2 DEF loaded
  <1> QED
    BY <1>1, <1>2, <1>3, PTL DEF Spec

-----------------------------------------------------------------------------
(* The application is set up for an operation. *)

\* The first of a thread's calls tells the step it takes.
LEMMA StepOfCall ==
  ASSUME NEW t \in Threads, ThreadStep(t)
  PROVE  /\ Head(todo[t]) = "vcsInit" => VcsInit(t)
         /\ Head(todo[t]) = "startApp" => StartApp(t)
         /\ Head(todo[t]) = "setBandwidth" => SetBandwidth(t)
         /\ Head(todo[t]) = "initialize" => Initialize(t)
         /\ Head(todo[t]) = "enter" => Enter(t)
         /\ Head(todo[t]) = "deviceInitialize" => DeviceInitialize(t)
         /\ Head(todo[t]) = "deviceCalibrate" => DeviceCalibrate(t)
         /\ Head(todo[t]) = "vcsUninit" => VcsUninit(t)
         /\ Head(todo[t]) = "getToken" => GetToken(t)
         /\ Head(todo[t]) = "shutdownApp" => ShutdownApp(t)
         /\ Head(todo[t]) = "clearInit" => ClearInit(t)
         /\ Head(todo[t]) = "idle" => SetIdle(t)
         /\ Head(todo[t]) = "notice" => Notice(t)
         /\ Head(todo[t]) = "sessionBegin" => SessionBegin(t)
         /\ Head(todo[t]) = "sessionEnd" => SessionEnd(t)
         /\ Head(todo[t]) \in {"sensorInit", "sensorUninit"} => SensorPower(t)
  <1> USE DEF Command, Turn
  <1>1. CASE VcsInit(t)
    <2>1. Head(todo[t]) = "vcsInit"
      BY <1>1 DEF VcsInit
    <2> QED
      BY <1>1, <2>1
  <1>2. CASE StartApp(t)
    <2>1. Head(todo[t]) = "startApp"
      BY <1>2 DEF StartApp
    <2> QED
      BY <1>2, <2>1
  <1>3. CASE SetBandwidth(t)
    <2>1. Head(todo[t]) = "setBandwidth"
      BY <1>3 DEF SetBandwidth
    <2> QED
      BY <1>3, <2>1
  <1>4. CASE Initialize(t)
    <2>1. Head(todo[t]) = "initialize"
      BY <1>4 DEF Initialize
    <2> QED
      BY <1>4, <2>1
  <1>5. CASE Enter(t)
    <2>1. Head(todo[t]) = "enter"
      BY <1>5 DEF Enter
    <2> QED
      BY <1>5, <2>1
  <1>6. CASE DeviceInitialize(t)
    <2>1. Head(todo[t]) = "deviceInitialize"
      BY <1>6 DEF DeviceInitialize
    <2> QED
      BY <1>6, <2>1
  <1>7. CASE DeviceCalibrate(t)
    <2>1. Head(todo[t]) = "deviceCalibrate"
      BY <1>7 DEF DeviceCalibrate
    <2> QED
      BY <1>7, <2>1
  <1>8. CASE VcsUninit(t)
    <2>1. Head(todo[t]) = "vcsUninit"
      BY <1>8 DEF VcsUninit
    <2> QED
      BY <1>8, <2>1
  <1>9. CASE GetToken(t)
    <2>1. Head(todo[t]) = "getToken"
      BY <1>9 DEF GetToken
    <2> QED
      BY <1>9, <2>1
  <1>10. CASE ShutdownApp(t)
    <2>1. Head(todo[t]) = "shutdownApp"
      BY <1>10 DEF ShutdownApp
    <2> QED
      BY <1>10, <2>1
  <1>11. CASE SetIdle(t)
    <2>1. Head(todo[t]) = "idle"
      BY <1>11 DEF SetIdle
    <2> QED
      BY <1>11, <2>1
  <1>12. CASE SessionBegin(t)
    <2>1. Head(todo[t]) = "sessionBegin"
      BY <1>12 DEF SessionBegin
    <2> QED
      BY <1>12, <2>1
  <1>13. CASE SessionEnd(t)
    <2>1. Head(todo[t]) = "sessionEnd"
      BY <1>13 DEF SessionEnd
    <2> QED
      BY <1>13, <2>1
  <1>14. CASE SensorPower(t)
    <2>1. Head(todo[t]) \in {"sensorInit", "sensorUninit"}
      BY <1>14 DEF SensorPower
    <2> QED
      BY <1>14, <2>1
  <1>15. CASE ClearInit(t)
    <2>1. Head(todo[t]) = "clearInit"
      BY <1>15 DEF ClearInit
    <2> QED
      BY <1>15, <2>1
  <1>16. CASE Notice(t)
    <2>1. Head(todo[t]) = "notice"
      BY <1>16 DEF Notice
    <2> QED
      BY <1>16, <2>1
  <1> QED
    BY <1>1, <1>2, <1>3, <1>4, <1>5, <1>6, <1>7, <1>8, <1>9, <1>10, <1>11, <1>12, <1>13, <1>14,
       <1>15, <1>16 DEF ThreadStep

\* vcs_init is given up when only the creation of the thread follows it.
LEMMA InitGivenUp ==
  ASSUME TypeInv, Starting, \A i \in 1..Len(caller) : caller[i] \in SetOf(InitCalls) \/ i = Len(caller)
  PROVE  /\ InitFails(0) => caller' = <<>>
         /\ InitSwallows(0) => caller' = <<"spawn">>
  <1>1. /\ caller \in Seq(Calls) /\ caller # <<>> /\ Len(caller) \in Nat \ {0}
        /\ caller[Len(caller)] = "spawn" /\ 0 \in Threads
    BY CallsLeft, TailElements, ThreadsAre DEF Starting, caller
  <1>2. ASSUME NEW n \in 0..Len(caller), InitLeft(0, n)
        PROVE  n + 1 = Len(caller)
    <2>1. n # Len(caller)
      BY <1>1, <1>2, Bodies DEF InitLeft, caller
    <2>2. n < Len(caller)
      <3>1. \A a, b \in Int : a <= b /\ a # b => a < b
        OBVIOUS
      <3> QED
        BY <1>1, <2>1, <3>1
    <2>3. n + 1 \in 1..Len(caller) /\ caller[n + 1] \notin SetOf(InitCalls)
      BY <1>1, <1>2, <2>2 DEF InitLeft, caller
    <2> QED
      BY <2>3
  <1>3. ASSUME InitFails(0) PROVE caller' = <<>>
    <2>1. PICK n \in 0..Len(caller) :
             /\ InitLeft(0, n)
             /\ Continue(0, IF n < Len(caller) /\ caller[n + 1] = "spawn"
                                   THEN <<>> ELSE After(0, n))
      BY <1>3 DEF InitFails, caller
    <2>2. n < Len(caller) /\ caller[n + 1] = "spawn"
      BY <1>1, <1>2, <2>1
    <2> QED
      BY <1>1, <2>1, <2>2, ContinueElements DEF caller
  <1>4. ASSUME InitSwallows(0) PROVE caller' = <<"spawn">>
    <2>1. PICK n \in 0..Len(caller) :
             InitLeft(0, n) /\ Continue(0, After(0, n))
      BY <1>4 DEF InitSwallows, caller
    <2>2. caller' = SubSeq(caller, n + 1, Len(caller)) /\ n + 1 = Len(caller)
      BY <1>1, <1>2, <2>1, ContinueElements DEF After, caller
    <2> DEFINE r == SubSeq(caller, n + 1, Len(caller))
    <2>3. r \in Seq(Calls) /\ Len(r) = Len(caller) - n /\ \A i \in 1..Len(r) : r[i] = caller[n + i]
      BY <1>1, AfterElements
    <2> HIDE DEF r
    <2>4. Len(r) = 1
      <3>1. \A a, b \in Int : a + 1 = b => b - a = 1
        OBVIOUS
      <3> QED
        BY <1>1, <2>2, <2>3, <3>1
    <2>5. r[1] = "spawn"
      BY <1>1, <2>2, <2>3, <2>4
    <2>6. r = <<"spawn">>
      BY <2>3, <2>4, <2>5
    <2> QED
      BY <2>2, <2>6 DEF r
  <1> QED
    BY <1>3, <1>4

\* The next stage of the start of an operation; or it is given up.
LEMMA StageStep ==
  ASSUME TypeInv, ShapeInv, ThreadStep(0), ~Died, Starting, Stage
  PROVE  caller' = <<>> \/ Stage'
  <1>0. 0 \in Threads /\ caller \in Seq(Calls) /\ caller # <<>>
    BY WhoSteps, CallsLeft, ThreadsAre DEF caller
  <1>1. Returns(0) => caller' = Tail(caller)
    BY <1>0, ContinueElements DEF Returns, caller
  <1>2. CASE caller = StartCalls /\ (tzInit /\ ~swallowed => AppReady)
    <2>1. SensorPower(0)
      BY <1>0, <1>2, StepOfCall DEF StartCalls, caller
    <2>2. caller' = <<"vcsInit", "spawn">>
      BY <1>1, <1>2, <2>1 DEF SensorPower, StartCalls
    <2> QED
      BY <1>2, <2>1, <2>2 DEF Stage, SensorPower, AppReady, tzVars, ghosts, counters
  <1>3. CASE caller = <<"vcsInit", "spawn">> /\ (tzInit /\ ~swallowed => AppReady)
    <2>1. VcsInit(0)
      BY <1>0, <1>3, StepOfCall DEF caller
    <2>2. CASE tzInit
      <3>1. caller' = <<>> \o Tail(caller)
        BY <1>0, <2>1, <2>2, ContinueElements DEF VcsInit, caller
      <3>2. caller' = <<"spawn">>
        BY <1>3, <3>1
      <3> QED
        BY <1>3, <2>1, <2>2, <3>2 DEF Stage, VcsInit, AppReady, tzVars, ghosts, counters
    <2>3. CASE ~tzInit
      <3>1. caller' = InitCalls \o Tail(caller)
        BY <1>0, <2>1, <2>3, ContinueElements DEF VcsInit, caller
      <3>2. caller' = StartPath
        <4> DEFINE r == Tail(caller)
        <4>1. r = <<"spawn">> /\ r \in Seq(Calls) /\ InitCalls \in Seq(Calls)
          BY <1>0, <1>3, CallSeqs
        <4> HIDE DEF r
        <4>2. /\ caller' \in Seq(Calls) /\ Len(caller') = 7
              /\ \A i \in 1..6 : caller'[i] = InitCalls[i]
              /\ caller'[7] = "spawn"
          <5>1. /\ caller' \in Seq(Calls) /\ Len(caller') = Len(InitCalls) + Len(r)
                /\ \A i \in 1..Len(InitCalls) : caller'[i] = InitCalls[i]
                /\ \A i \in 1..Len(r) : caller'[Len(InitCalls) + i] = r[i]
            BY <3>1, <4>1, ConcatElements DEF r
          <5>2. Len(r) = 1 /\ r[1] = "spawn"
            BY <4>1
          <5>3. caller'[6 + 1] = "spawn"
            BY <5>1, <5>2, InitCallsAre
          <5> QED
            BY <5>1, <5>2, <5>3, InitCallsAre
        <4>3. /\ caller'[1] = "startApp" /\ caller'[2] = "setBandwidth"
              /\ caller'[3] = "initialize" /\ caller'[4] = "enter"
              /\ caller'[5] = "deviceInitialize" /\ caller'[6] = "deviceCalibrate"
          BY <4>2, InitCallsAre
        <4> QED
          BY <4>2, <4>3 DEF StartPath
      <3> QED
        BY <3>2 DEF Stage
    <2> QED
      BY <2>2, <2>3
  <1>4. ASSUME \A i \in 1..Len(caller) : caller[i] \in SetOf(InitCalls) \/ i = Len(caller)
        PROVE  /\ InitFails(0) => caller' = <<>>
               /\ InitSwallows(0) => caller' = <<"spawn">> /\ swallowed'
    BY <1>4, InitGivenUp DEF InitSwallows
  <1>5. caller' = <<"spawn">> /\ swallowed' => Stage'
    BY DEF Stage
  <1>6. CASE caller = StartPath
    <2>1. caller' = Tail(StartPath) \/ caller' = <<>>
      <3>1. StartApp(0)
        BY <1>0, <1>6, StepOfCall DEF StartPath, caller
      <3>2. InitFails(0) => caller' = <<>>
        BY <1>4, <1>6, InitCallsAre DEF StartPath
      <3> QED
        BY <1>1, <1>6, <3>1, <3>2 DEF StartApp, Died
    <2> QED
      BY <2>1 DEF Stage
  <1>7. CASE caller = Tail(StartPath)
    <2>0. caller = <<"setBandwidth", "initialize", "enter", "deviceInitialize", "deviceCalibrate",
                     "spawn">>
      BY <1>7 DEF StartPath
    <2>1. SetBandwidth(0)
      BY <1>0, <2>0, StepOfCall DEF caller
    <2>2. InitFails(0) => caller' = <<>>
      BY <1>4, <2>0, InitCallsAre
    <2>3. CASE Returns(0)
      <3>1. caller' = <<"initialize", "enter", "deviceInitialize", "deviceCalibrate", "spawn">>
        BY <1>1, <2>0, <2>3
      <3> QED
        BY <2>1, <3>1 DEF SetBandwidth, Command, Stage
    <2> QED
      BY <2>1, <2>2, <2>3 DEF SetBandwidth
  <1>8. CASE caller = <<"initialize", "enter", "deviceInitialize", "deviceCalibrate", "spawn">>
    <2>1. Initialize(0)
      BY <1>0, <1>8, StepOfCall DEF caller
    <2>2. ResumeError(0) => caller' = <<>> \/ Stage'
      BY <1>4, <1>5, <1>8, InitCallsAre DEF ResumeError
    <2>3. CASE Returns(0) /\ app' = [app EXCEPT !.initialized = TRUE]
      <3>1. caller' = <<"enter", "deviceInitialize", "deviceCalibrate", "spawn">>
        BY <1>1, <1>8, <2>3
      <3>2. app'.initialized = TRUE
        BY <2>3 DEF TypeInv, Values
      <3> QED
        BY <2>1, <3>1, <3>2 DEF Initialize, Command, Stage
    <2> QED
      BY <2>1, <2>2, <2>3 DEF Initialize
  <1>9. CASE /\ caller = <<"enter", "deviceInitialize", "deviceCalibrate", "spawn">>
             /\ handle /\ app.initialized
    <2>1. Enter(0)
      BY <1>0, <1>9, StepOfCall DEF caller
    <2>2. InitFails(0) \/ InitSwallows(0) => caller' = <<>> \/ Stage'
      BY <1>4, <1>5, <1>9, InitCallsAre
    <2>3. CASE Returns(0) /\ ~opened /\ UNCHANGED app
      <3>1. caller' = <<"deviceInitialize", "deviceCalibrate", "spawn">>
        BY <1>1, <1>9, <2>3
      <3> QED
        BY <1>9, <2>1, <2>3, <3>1 DEF Enter, Stage
    <2>4. CASE Returns(0) /\ token # 0 /\ app' = [app EXCEPT !.session = token]
      <3>1. caller' = <<"deviceInitialize", "deviceCalibrate", "spawn">>
        BY <1>1, <1>9, <2>4
      <3>2. app'.session = nopens /\ app'.initialized = app.initialized
        BY <2>4 DEF TypeInv, Values
      <3>3. app'.initialized /\ handle' /\ nopens' = nopens
        BY <1>9, <2>1, <3>2 DEF Enter, counters
      <3> QED
        BY <3>1, <3>2, <3>3 DEF Stage
    <2> QED
      BY <2>1, <2>2, <2>3, <2>4 DEF Enter
  <1>10. CASE /\ caller = <<"deviceInitialize", "deviceCalibrate", "spawn">>
              /\ handle /\ app.initialized /\ (opened => app.session = nopens)
    <2>1. DeviceInitialize(0)
      BY <1>0, <1>10, StepOfCall DEF caller
    <2>2. ResumeError(0) => caller' = <<>> \/ Stage'
      BY <1>4, <1>5, <1>10, InitCallsAre DEF ResumeError
    <2>3. CASE Returns(0) /\ app' = [app EXCEPT !.device = TRUE]
      <3>1. caller' = <<"deviceCalibrate", "spawn">>
        BY <1>1, <1>10, <2>3
      <3>2. app'.device = TRUE /\ app'.session = app.session /\ app'.initialized = app.initialized
        BY <2>3 DEF TypeInv, Values
      <3>3. /\ app'.initialized /\ handle' /\ nopens' = nopens /\ opened' = opened
        BY <1>10, <2>1, <3>2 DEF DeviceInitialize, counters
      <3> QED
        BY <1>10, <3>1, <3>2, <3>3 DEF Stage
    <2> QED
      BY <2>1, <2>2, <2>3 DEF DeviceInitialize
  <1>11. CASE /\ caller = <<"deviceCalibrate", "spawn">>
              /\ handle /\ app.initialized /\ app.device /\ (opened => app.session = nopens)
    <2>1. DeviceCalibrate(0)
      BY <1>0, <1>11, StepOfCall DEF caller
    <2>2. ResumeError(0) => caller' = <<>> \/ Stage'
      BY <1>4, <1>5, <1>11, InitCallsAre DEF ResumeError
    <2>3. CASE Returns(0) /\ calibrated' = TRUE
      <3>1. caller' = <<"spawn">>
        BY <1>1, <1>11, <2>3
      <3>2. handle' = handle /\ app' = app /\ nopens' = nopens /\ opened' = opened
        BY <2>1 DEF DeviceCalibrate, counters
      <3>3. AppReady'
        BY <1>11, <2>3, <3>2 DEF AppReady
      <3> QED
        BY <3>1, <3>3 DEF Stage
    <2> QED
      BY <2>1, <2>2, <2>3 DEF DeviceCalibrate
  <1>12. caller # <<"spawn">>
    BY <1>0, WhoSteps DEF caller
  <1> QED
    BY <1>2, <1>3, <1>6, <1>7, <1>8, <1>9, <1>10, <1>11, <1>12 DEF Stage

\* A step of an operation's thread leaves a set up application alone, or shuts it down.
LEMMA ReadyWorker ==
  ASSUME BaseInv, ReadyInv, NEW t \in Workers, ThreadStep(t), ~Died
  PROVE  ReadyInv'
  <1>1. TypeInv /\ ShapeInv /\ t \in Threads /\ 0 \in Threads /\ t # 0
    BY ThreadsAre DEF BaseInv
  <1>2. /\ todo[t] # <<>> /\ phase' = phase /\ overtaken' = overtaken /\ nopens' = nopens
        /\ Head(todo[t]) \in WorkerNames /\ Head(todo[t]) # "operate"
        /\ caller' = caller /\ \A w \in Workers : w # t => todo'[w] = todo[w]
    BY <1>1, WhoSteps, ThreadsAre DEF caller, Kept
  <1>3. AtRest' = AtRest /\ Starting' = Starting /\ Running
    BY <1>2 DEF AtRest, Starting, Running
  <1>4. SUFFICES ASSUME ~overtaken
                 PROVE  /\ \A w \in Workers : todo'[w] # <<>> => Head(todo'[w]) # "operate"
                        /\ phase' = "open" /\ AtRest' /\ tzInit' /\ ~swallowed' =>
                              AppReady' \/ Unloading'
    <2>1. Starting' => ~AtRest'
      BY <1>3 DEF ReadyInv
    <2>2. ~overtaken => ~Starting
      BY <1>1, <1>3 DEF ReadyInv, ShapeInv
    <2> QED
      BY <1>2, <1>3, <1>4, <2>1, <2>2 DEF ReadyInv
  <1>5. AtRest /\ \A w \in Workers : w # t => todo[w] = <<>>
    BY <1>1, <1>2, <1>3, <1>4 DEF ShapeInv
  <1>6. todo'[t] # <<>> => Head(todo'[t]) # "operate"
    <2>1. todo[t] \in Seq(Calls) /\ WorkerShape(todo[t]) /\ Tail(todo[t]) \in Seq(Calls)
      BY <1>1, <1>2, CallsLeft DEF ShapeInv
    <2>2. CASE Made(t)
      <3>1. todo'[t] = Tail(todo[t])
        BY <1>1, <2>2, ContinueElements DEF Made, Returns
      <3>2. Tail(todo[t]) # <<>> =>
               Head(Tail(todo[t])) = Tail(todo[t])[1] /\ 1 \in 1..Len(Tail(todo[t]))
        BY <2>1, TailElements
      <3> QED
        BY <1>2, <2>1, <3>1, <3>2, WorkerShapeSteps
    <2>3. CASE EnteredUninit(t)
      <3>1. todo'[t] = UninitCalls \o Tail(todo[t])
        BY <1>1, <2>3, ContinueElements DEF EnteredUninit
      <3>2. UninitCalls \in Seq(Calls) /\ Len(UninitCalls) = 4 /\ UninitCalls[1] = "getToken"
        BY CallSeqs DEF UninitCalls
      <3>3. /\ todo'[t] \in Seq(Calls)
            /\ \A i \in 1..Len(UninitCalls) : todo'[t][i] = UninitCalls[i]
        <4>1. PICK r \in Seq(Calls) : r = Tail(todo[t])
          BY <2>1
        <4>2. PICK p \in Seq(Calls) : p = UninitCalls
          BY CallSeqs
        <4>3. p \o r \in Seq(Calls) /\ \A i \in 1..Len(p) : (p \o r)[i] = p[i]
          BY ConcatElements
        <4> QED
          BY <3>1, <4>1, <4>2, <4>3
      <3>4. todo'[t][1] = "getToken"
        <4>1. 1 \in 1..4
          OBVIOUS
        <4> QED
          BY <3>2, <3>3, <4>1
      <3> QED
        BY <3>3, <3>4, TailElements
    <2> QED
      BY <1>1, <2>2, <2>3, WhoSteps
  <1>7. phase' = "open" /\ AtRest' /\ tzInit' /\ ~swallowed' => AppReady' \/ Unloading'
    <2>1. CASE Head(todo[t]) = "clearInit"
      <3>1. ~tzInit'
        BY <1>1, <2>1, StepOfCall DEF ClearInit
      <3> QED
        BY <3>1
    <2>2. CASE Head(todo[t]) = "shutdownApp"
      <3>1. todo'[t] = Tail(todo[t])
        BY <1>1, <2>2, StepOfCall, ContinueElements DEF ShutdownApp, Returns
      <3>2. todo[t] \in Seq(Calls) /\ Paired(todo[t])
        BY <1>1, CallsLeft DEF ShapeInv, WorkerShape
      <3>3. todo'[t] # <<>> /\ Head(todo'[t]) = "clearInit"
        BY <1>2, <2>2, <3>1, <3>2, PairedSteps
      <3> QED
        BY <1>1, <3>3 DEF Unloading, Turn
    <2>3. CASE Head(todo[t]) \in {"idle", "sensorUninit", "vcsUninit", "getToken", "notice"}
      <3>1. /\ tzInit' = tzInit /\ swallowed' = swallowed
            /\ handle' = handle /\ app' = app /\ calibrated' = calibrated /\ opened' = opened
        <4>1. CASE SetIdle(t) \/ Notice(t)
          BY <4>1 DEF SetIdle, Notice, tzVars, ghosts
        <4>2. CASE SensorPower(t) \/ VcsUninit(t)
          BY <4>2 DEF SensorPower, VcsUninit, tzVars, ghosts
        <4>3. CASE GetToken(t)
          BY <4>3 DEF GetToken
        <4> QED
          BY <1>1, <2>3, <4>1, <4>2, <4>3, StepOfCall
      <3>2. ~Unloading
        <4>1. SUFFICES ASSUME NEW u \in Threads, Turn(u, "clearInit") PROVE FALSE
          BY DEF Unloading
        <4>2. CASE u = 0
          BY <1>5, <4>1, <4>2 DEF Turn, AtRest, caller
        <4>3. CASE u \in Workers
          BY <1>5, <2>3, <4>1, <4>3 DEF Turn
        <4> QED
          BY <4>2, <4>3, ThreadsAre
      <3>3. AppReady' = AppReady
        BY <1>2, <3>1 DEF AppReady
      <3> QED
        BY <1>2, <1>3, <1>4, <3>1, <3>2, <3>3 DEF ReadyInv
    <2> QED
      BY <1>2, <2>1, <2>2, <2>3 DEF WorkerNames
  <1> QED
    BY <1>2, <1>5, <1>6, <1>7

\* A step of an entry point sets the application up, or the entry point switches it off.
LEMMA ReadyCaller ==
  ASSUME BaseInv, QuietInv, ReadyInv, ThreadStep(0), ~Died
  PROVE  ReadyInv'
  <1>1. TypeInv /\ ShapeInv /\ 0 \in Threads
    BY ThreadsAre DEF BaseInv
  <1>2. /\ caller # <<>> /\ phase' = phase /\ phase = "open" /\ ~AtRest /\ overtaken' = overtaken
        /\ \A w \in Workers : todo'[w] = todo[w]
    BY <1>1, WhoSteps, ThreadsAre DEF caller, Kept
  <1>3. AtRest' => caller' = <<>>
    BY <1>1, NeverWaits
  <1>4. Starting' => ~AtRest'
    BY <1>3 DEF Starting
  <1>5. SUFFICES ASSUME ~overtaken
                 PROVE  /\ Starting' => busy' /\ Stage'
                        /\ caller' = <<>> /\ tzInit' => busy'
    <2>1. ~overtaken => ~Running /\ \A w \in Workers : todo'[w] = <<>>
      BY <1>1, <1>2 DEF ShapeInv, Running
    <2>2. ~overtaken => ~Running'
      BY <2>1 DEF Running
    <2> QED
      BY <1>2, <1>3, <1>4, <1>5, <2>1, <2>2 DEF ReadyInv
  <1>6. CASE Starting
    <2>1. busy /\ Stage
      BY <1>5, <1>6 DEF ReadyInv
    <2>2. busy' = busy
      <3>1. Head(caller) # "idle"
        BY <2>1 DEF Stage, StartCalls, StartPath
      <3> QED
        BY <1>1, <3>1, StepForms
           DEF Made, EnteredInit, EnteredUninit, Abandoned, Unswitched, caller
    <2>3. Starting' => Stage'
      BY <1>1, <1>6, <2>1, StageStep DEF Starting
    <2> QED
      BY <2>1, <2>2, <2>3
  <1>7. CASE ~Starting
    <2>1. ~Starting'
      BY <1>1, <1>7, OnlyStarting
    <2>2. \A i \in 1..Len(caller) : caller[i] # "spawn"
      BY <1>1, <1>2, <1>7 DEF ShapeInv, CallerShape, Starting
    <2>3. Off(caller', loaded', sensor', tzInit')
      BY <1>1, <1>2, <1>7, <2>2, OffGoesOn DEF QuietInv, caller
    <2>4. caller' = <<>> => ~tzInit'
      BY <2>3, OffEmpty
    <2> QED
      BY <2>1, <2>4
  <1> QED
    BY <1>6, <1>7

\* ReadyInv is kept by every step.
LEMMA ReadyStep ==
  ASSUME BaseInv, QuietInv, ReadyInv, [Next]_vars
  PROVE  ReadyInv'
  <1>0. TypeInv /\ ShapeInv /\ NumberInv
    BY DEF BaseInv
  <1> USE <1>0
  <1>1. ASSUME NEW t \in Threads, ThreadStep(t) PROVE ReadyInv'
    <2>1. CASE Died
      <3>1. phase' = "dead" /\ ~Starting' /\ \A w \in Workers : todo'[w] = <<>>
        BY <2>1, DiesElements, ThreadsAre DEF Died
      <3> QED
        BY <3>1 DEF ReadyInv
    <2>2. CASE ~Died
      BY <1>1, <2>2, ReadyWorker, ReadyCaller, ThreadsAre
    <2> QED
      BY <2>1, <2>2
  <1>2. CASE Open
    <2>1. /\ ~tzInit' /\ (overtaken' <=> Running) /\ (\A w \in Workers : todo'[w] = todo[w])
          /\ caller' \in {<<>>, OpenCalls}
      BY <1>2, OpenElements
    <2>2. ~Starting'
      BY <2>1 DEF Starting, OpenCalls
    <2>3. ~overtaken' => \A w \in Workers : todo'[w] = <<>>
      BY <2>1 DEF Running
    <2> QED
      BY <2>1, <2>2, <2>3 DEF ReadyInv
  <1>3. CASE Spawn
    <2>1. /\ caller' = <<>> /\ Starting /\ ~AtRest /\ phase = "open" /\ phase' = phase
          /\ overtaken' = overtaken /\ nops \in Workers /\ todo[nops] = <<>>
          /\ \A w \in Workers : w # nops => todo'[w] = todo[w]
          /\ todo'[nops] \in {<<>>, WorkerCalls(opKind)}
      BY <1>3, SpawnElements
    <2>2. ~Starting' /\ AtRest'
      BY <2>1 DEF Starting, AtRest
    <2>3. SUFFICES ASSUME ~overtaken PROVE ReadyInv'
      BY <2>1, <2>2, <2>3 DEF ReadyInv
    <2>4. busy /\ Stage /\ ~Running
      BY <2>1, <2>3 DEF ReadyInv, ShapeInv
    <2>5. caller = <<"spawn">> 
      <3>1. caller \in Seq(Calls) /\ Len(caller) = 1 /\ caller[1] = "spawn"
        BY <1>3, LastCall DEF Spawn
      <3> QED
        BY <3>1
    <2>6. swallowed \/ AppReady
      BY <2>4, <2>5 DEF Stage, StartCalls, StartPath
    <2>7. busy' = busy /\ swallowed' = swallowed /\ AppReady' = AppReady
      BY <1>3 DEF Spawn, AppReady, tzVars, counters
    <2>8. busy' /\ (swallowed' \/ AppReady')
      BY <2>4, <2>6, <2>7
    <2> QED
      BY <2>1, <2>2, <2>8 DEF ReadyInv
  <1>4. ASSUME NEW t \in Workers, Operate(t) PROVE ReadyInv'
    <2>1. /\ t \in Threads /\ todo[t] \in Seq(Calls) /\ todo[t] # <<>> /\ Head(todo[t]) = "operate"
          /\ caller' = caller /\ \A w \in Workers : w # t => todo'[w] = todo[w]
          /\ todo'[t] \in {Tail(todo[t]), ErrorCalls}
          /\ phase' = phase /\ overtaken' = overtaken
      BY <1>4, OperateElements
    <2>2. AtRest' = AtRest /\ Starting' = Starting
      BY <2>1 DEF AtRest, Starting
    <2>3. SUFFICES ASSUME ~overtaken PROVE ReadyInv'
      BY <2>1, <2>2, <2>3 DEF ReadyInv
    <2>4. phase = "open" /\ AtRest /\ (swallowed \/ AppReady) /\ ~Starting
      BY <2>1, <2>3 DEF ReadyInv
    <2>5. swallowed' = swallowed /\ (AppReady => AppReady')
      <3>1. calibrated => calibrated'
        BY <1>4 DEF Operate
      <3> QED
        BY <1>4, <3>1 DEF Operate, AppReady, counters
    <2>6. todo'[t] # <<>> => Head(todo'[t]) # "operate"
      <3>1. CASE todo'[t] = Tail(todo[t]) /\ todo'[t] # <<>>
        <4>1. WorkerShape(todo[t]) /\ Tail(todo[t]) \in Seq(Calls)
          BY <2>1, TailElements DEF ShapeInv
        <4>2. Head(Tail(todo[t])) = Tail(todo[t])[1] /\ 1 \in 1..Len(Tail(todo[t]))
          BY <3>1, <4>1, TailElements
        <4> QED
          BY <2>1, <3>1, <4>1, <4>2, WorkerShapeSteps
      <3>2. CASE todo'[t] = ErrorCalls
        BY <3>2 DEF ErrorCalls
      <3> QED
        BY <2>1, <3>1, <3>2
    <2>7. \A w \in Workers : w # t => todo'[w] = <<>>
      BY <2>1, <2>3 DEF ShapeInv
    <2>8. \A w \in Workers : todo'[w] # <<>> => Head(todo'[w]) # "operate"
      BY <2>6, <2>7
    <2>9. swallowed' \/ AppReady'
      BY <2>4, <2>5
    <2> QED
      BY <2>2, <2>4, <2>8, <2>9 DEF ReadyInv
  <1>5. CASE Close
    <2>1. /\ caller' = CloseCalls /\ (\A w \in Workers : todo'[w] = todo[w])
          /\ (Running' <=> Running) /\ caller = <<>>
          /\ phase = "open" /\ phase' = phase /\ AtRest /\ AtRest' /\ ~Starting'
      BY <1>5, CloseElements
    <2>2. /\ busy' = busy /\ swallowed' = swallowed /\ tzInit' = tzInit /\ overtaken' = overtaken
          /\ AppReady' = AppReady
      BY <1>5 DEF Close, tzVars, ghosts, counters, AppReady
    <2>3. Unloading => Unloading'
      <3>1. SUFFICES ASSUME NEW u \in Threads, Turn(u, "clearInit") PROVE Unloading'
        BY DEF Unloading
      <3>2. u \in Workers
        BY <2>1, <3>1, ThreadsAre DEF Turn, caller
      <3> QED
        BY <2>1, <3>1, <3>2, UnloadingStays
    <2>4. ASSUME ~overtaken, NEW w \in Workers, todo'[w] # <<>>, Head(todo'[w]) = "operate"
          PROVE  busy' /\ (swallowed' \/ AppReady')
      <3>1. todo[w] # <<>> /\ Head(todo[w]) = "operate"
        BY <2>1, <2>4
      <3>2. busy /\ (swallowed \/ AppReady)
        BY <2>4, <3>1 DEF ReadyInv
      <3> QED
        BY <2>2, <3>2
    <2>5. ~overtaken /\ tzInit' /\ ~swallowed' => AppReady' \/ (busy' /\ ~Running') \/ Unloading'
      BY <2>1, <2>2, <2>3 DEF ReadyInv
    <2> QED
      BY <2>1, <2>2, <2>4, <2>5 DEF ReadyInv
  <1>6. CASE Await
    <2>1. /\ caller \in Seq(Calls) /\ caller # <<>> /\ Head(caller) = "await"
          /\ caller' = Tail(caller) /\ (caller' # <<>> => ~AtRest')
          /\ (\A w \in Workers : todo'[w] = todo[w])
          /\ phase = "open" /\ (Starting' => Starting) /\ (overtaken' <=> Running \/ (overtaken /\ failed))
      BY <1>6, AwaitElements
    <2>2. ~Starting /\ ~Starting'
      BY <2>1 DEF ReadyInv, AtRest
    <2>3. ~overtaken' => \A w \in Workers : todo'[w] = <<>>
      BY <2>1 DEF Running
    <2>4. caller' = <<>> => ~tzInit'
      <3>1. Head(caller) \notin Unloads \cup PowersOff \cup Clears
        BY <2>1 DEF Unloads, PowersOff, Clears
      <3>2. Off(Tail(caller), loaded, sensor, tzInit)
        BY <2>1, <2>2, <3>1, OffTail DEF QuietInv
      <3>3. tzInit' = tzInit
        BY <1>6 DEF Await, tzVars
      <3> QED
        BY <2>1, <3>2, <3>3, OffEmpty
    <2> QED
      BY <2>1, <2>2, <2>3, <2>4 DEF ReadyInv
  <1>7. CASE Free
    <2>1. /\ ~AtRest /\ phase' = "closed" /\ ~Starting' /\ overtaken' = overtaken
          /\ \A w \in Workers : todo'[w] = todo[w]
      BY <1>7, FreeElements DEF ghosts
    <2>2. ~overtaken => \A w \in Workers : todo'[w] = <<>>
      BY <2>1 DEF ShapeInv, Running
    <2> QED
      BY <2>1, <2>2 DEF ReadyInv
  <1>8. CASE UseDestroyed \/ NullHandle
    <2>1. phase' = "dead" /\ ~Starting' /\ \A w \in Workers : todo'[w] = <<>>
      BY <1>8, DiesElements, ThreadsAre DEF UseDestroyed, NullHandle
    <2> QED
      BY <2>1 DEF ReadyInv
  <1>9. CASE Restart
    <2>1. phase' = "closed" /\ \A t \in Threads : todo'[t] = <<>>
      BY <1>9 DEF Restart, ShapeInv
    <2>2. caller' = <<>> /\ \A w \in Workers : todo'[w] = <<>>
      BY <2>1, ThreadsAre DEF caller
    <2> QED
      BY <2>1, <2>2 DEF ReadyInv, Starting
  <1>10. CASE UNCHANGED vars
    <2>1. /\ todo' = todo /\ caller' = caller /\ phase' = phase /\ busy' = busy
          /\ swallowed' = swallowed /\ tzInit' = tzInit /\ handle' = handle /\ app' = app
          /\ calibrated' = calibrated /\ opened' = opened /\ nopens' = nopens
          /\ overtaken' = overtaken
      BY <1>10 DEF vars, tzVars, ghosts, counters, caller
    <2>2. /\ AtRest' = AtRest /\ Starting' = Starting /\ AppReady' = AppReady
          /\ Running' = Running /\ Unloading' = Unloading
      BY <2>1 DEF AtRest, Starting, AppReady, Running, Unloading, Turn
    <2>3. Stage' = Stage
      BY <2>1, <2>2 DEF Stage
    <2> QED
      BY <2>1, <2>2, <2>3 DEF ReadyInv
  <1>11. CASE \E kind \in Kinds : Start(kind)
    <2>1. /\ phase = "open" /\ caller = <<>> /\ caller' = StartCalls
          /\ (\A w \in Workers : todo'[w] = todo[w])
          /\ (overtaken' <=> Running \/ (overtaken /\ failed))
          /\ ~busy /\ busy' /\ Starting' /\ ~AtRest' /\ AtRest
      BY <1>11, StartElements
    <2>2. tzInit' = tzInit /\ swallowed' = swallowed /\ AppReady' = AppReady
      BY <1>11, StartElements DEF tzVars, AppReady
    <2>3. SUFFICES ASSUME ~Running, ~overtaken \/ ~failed PROVE ReadyInv'
      BY <2>1, <2>3 DEF ReadyInv
    <2>4. tzInit /\ ~swallowed => AppReady
      <3>1. CASE ~overtaken
        <4>1. ~Unloading
          <5>1. \A u \in Threads : todo[u] = <<>>
            BY <2>1, <2>3, ThreadsAre DEF Running, caller
          <5> QED
            BY <5>1 DEF Unloading, Turn
        <4> QED
          BY <2>1, <3>1, <4>1 DEF ReadyInv
      <3>2. CASE ~failed
        BY <2>1, <2>3, <3>2, AllReturned
      <3> QED
        BY <2>3, <3>1, <3>2
    <2>5. Stage'
      BY <2>1, <2>2, <2>4 DEF Stage
    <2>6. \A w \in Workers : todo'[w] = <<>>
      BY <2>1, <2>3 DEF Running
    <2> QED
      BY <2>1, <2>5, <2>6 DEF ReadyInv
  <1> QED
    BY <1>1, <1>2, <1>3, <1>4, <1>5, <1>6, <1>7, <1>8, <1>9, <1>10, <1>11 DEF Next

\* An operation runs on an application set up as vcs_resume's comment lists, in the session of
\* this open though every operation loads the application anew, whatever the operations before
\* it did and however they ended; unless vcs_resume took an error for success, or a start or a
\* close went ahead of a thread that had not returned.  The latter ends with the next start that
\* comes with all threads returned and nothing failed, for any number of operations before.
THEOREM ReadyToOperate == Spec => []SessionReady
  <1> DEFINE Inv == BaseInv /\ QuietInv /\ ReadyInv
  <1>1. Init => Inv
    <2> SUFFICES ASSUME Init PROVE QuietInv /\ ReadyInv
      BY BaseInit
    <2>1. caller = <<>> /\ phase = "closed" /\ ~loaded /\ ~sensor /\ ~tzInit
          /\ \A w \in Workers : todo[w] = <<>>
      BY ThreadsAre DEF Init, caller, loaded
    <2> QED
      BY <2>1 DEF QuietInv, ReadyInv, Starting
  <1>2. Inv /\ [Next]_vars => Inv'
    BY BaseStep, QuietStep, ReadyStep
  <1>3. Inv => SessionReady
    BY DEF ReadyInv, SessionReady, Turn, AppReady
  <1> QED
    BY <1>1, <1>2, <1>3, PTL DEF Spec

=============================================================================
