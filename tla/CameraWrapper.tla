--------------------------- MODULE CameraWrapper ----------------------------
(***************************************************************************)
(* The camera HAL wrapper (camera/CameraWrapper.cpp): it stands between    *)
(* the camera service and the vendor's camera library, rewrites the        *)
(* parameters that pass in both directions, remembers the last ones it     *)
(* sent per camera in the heap array fixed_set_params, and routes the      *)
(* vendor's callbacks through one set of globals.                          *)
(*                                                                         *)
(* A parameter string is a record of the keys the wrapper reads or sets.   *)
(* The vendor library is external: it keeps the parameters it is sent and  *)
(* gives them back, may refuse parameters, a recording, or to open a       *)
(* camera, and calls the callbacks from a thread of its own, which its     *)
(* close waits for.  The calls that are handed to it without looking at    *)
(* them (preview, focus, pictures, messages, release, dump) change nothing *)
(* here, and its module has been found.  The calls for one camera come one *)
(* after the other.  Shortage of memory is not modelled.                   *)
(***************************************************************************)
EXTENDS Integers

CONSTANTS
    NumCameras,   \* what the vendor's get_number_of_cameras returns
    MaxOpens,     \* bound: successful opens in one behaviour
    Concurrent    \* whether the service opens a camera while another is open

ASSUME CameraAssumption ==
    /\ NumCameras \in Nat \ {0}
    /\ MaxOpens \in Nat
    /\ Concurrent \in BOOLEAN

Cameras == 0..(NumCameras - 1)

\* torch: flash-mode is torch; video: the recording hint; uhd: the video size is
\* 3840x2160; venus: the preview format is nv12-venus; zsl: what the wrapper set it
\* to, "caller" when it left the caller's value alone.
Params == [torch : BOOLEAN, video : BOOLEAN, uhd : BOOLEAN, venus : BOOLEAN,
           zsl : {"caller", "on", "off"}]
Defaults == [torch |-> FALSE, video |-> FALSE, uhd |-> FALSE, venus |-> FALSE, zsl |-> "caller"]

\* A pointer of fixed_set_params, and the flash-mode in what it points to: the only
\* key that is read back.
Entries == [ptr : {"null", "live", "freed"}, torch : BOOLEAN]
Null == [ptr |-> "null", torch |-> FALSE]

VARIABLES
    fixed,      \* fixed_set_params, the entry of each camera
    open,       \* cameras with a wrapper device
    vendor,     \* vendor[c]: the parameters the vendor's device was last sent
    recording,  \* cameras that record
    view,       \* view[c]: the parameters the app got last
    function,   \* gUserNotifyCb and the other three: the client they were set by, 0 if NULL
    user,       \* gUserCameraDevice: the client whose cookie it is, 0 if NULL
    client,     \* client[c]: the client that opened c, 0 if none
    setting,    \* setting[c]: what camera_set_callbacks has written
    routed,     \* cameras whose vendor device knows the wrapper's callbacks
    event,      \* event[c]: what the vendor's thread has read of the globals
    refused,    \* ghost: cameras whose vendor device refused the parameters sent last
    nopens      \* opens so far; the number names the client

NotRead == -1
NoEvent == [function |-> NotRead, user |-> NotRead]

callbackVars == <<function, user, client, setting, routed, event>>
vars == <<fixed, open, vendor, recording, view, callbackVars, nopens, refused>>

Init ==
    /\ fixed = [c \in Cameras |-> Null]
    /\ open = {} /\ recording = {}
    /\ vendor = [c \in Cameras |-> Defaults]
    /\ view = [c \in Cameras |-> Defaults]
    /\ function = 0 /\ user = 0 /\ client = [c \in Cameras |-> 0] /\ nopens = 0
    /\ setting = [c \in Cameras |-> "nothing"] /\ routed = {}
    /\ event = [c \in Cameras |-> NoEvent]
    /\ refused = {}

-----------------------------------------------------------------------------
(* Opening and closing, under gCameraWrapperLock. *)

MayOpen == Concurrent \/ open = {}

\* A call on a camera finds no other under way.
Serving(c) == c \in open /\ setting[c] = "nothing"

\* Mutant: the array is allocated at the first open only.
KeepTable == UNCHANGED fixed

\* malloc and memset of fixed_set_params, at every open: the previous array and
\* what it points to are forgotten.
NewTable == fixed' = [c \in Cameras |-> Null]

\* The service keeps a singleton of each camera.
Open(c) ==
    /\ MayOpen /\ c \notin open /\ nopens < MaxOpens
    /\ NewTable
    /\ open' = open \cup {c}
    /\ nopens' = nopens + 1
    /\ client' = [client EXCEPT ![c] = nopens + 1]
    /\ UNCHANGED <<vendor, recording, view, function, user, setting, routed, event, refused>>

\* The id is too large or the vendor refuses it: the table has been replaced by then.
\* The check lets the id num_cameras through; the vendor has no such camera.
OpenFails ==
    /\ MayOpen
    /\ NewTable
    /\ UNCHANGED <<open, vendor, recording, view, callbackVars, nopens, refused>>

\* Mutant: the vendor's device is not closed.
CloseKeepsVendor(c) ==
    /\ Serving(c)
    /\ fixed' = [d \in Cameras |-> Null]
    /\ open' = open \ {c}
    /\ UNCHANGED <<vendor, recording, view, callbackVars, nopens, refused>>

\* camera_device_close frees the entries of every camera and keeps the pointers;
\* the vendor's device goes with the wrapper's, and with it what it was sent.  The
\* globals of the callbacks are left as they are.
Close(c) ==
    /\ Serving(c) /\ event[c] = NoEvent
    /\ fixed' = [d \in Cameras |-> IF fixed[d].ptr = "null" THEN Null
                                   ELSE [fixed[d] EXCEPT !.ptr = "freed"]]
    /\ open' = open \ {c}
    /\ recording' = recording \ {c} /\ routed' = routed \ {c} /\ refused' = refused \ {c}
    /\ client' = [client EXCEPT ![c] = 0]
    /\ vendor' = [vendor EXCEPT ![c] = Defaults]
    /\ view' = [view EXCEPT ![c] = Defaults]
    /\ UNCHANGED <<function, user, setting, event, nopens>>

-----------------------------------------------------------------------------
(* Parameters. *)

\* Mutant: the format is passed on to the app.
ShowAll(p) == p

\* camera_fixup_getparams: "Hide nv12-venus from Android."
FixupGet(p) == [p EXCEPT !.venus = FALSE]

\* Mutant: the memory of the last call is not consulted.
FixupSetForgetful(p, wasTorch) ==
    [p EXCEPT !.zsl = IF p.torch THEN "caller" ELSE IF p.video THEN "off" ELSE "on"]

\* camera_fixup_setparams: ZSL is set only when torch mode is off and was off.
FixupSet(p, wasTorch) ==
    [p EXCEPT !.zsl = IF p.torch \/ wasTorch THEN "caller"
                      ELSE IF p.video THEN "off" ELSE "on"]

\* What old_params can say: nothing without an entry, anything if it was freed.
WasTorch(c) == IF fixed[c].ptr = "freed" THEN BOOLEAN ELSE {fixed[c].torch}

\* camera_set_parameters with the caller's p: the fixed parameters are remembered,
\* whether or not the vendor then takes them.  No lock is held: one step stands for the
\* call as long as no other camera is opened or closed, and with several open cameras the
\* model leaves out an open or a close in the middle of it.
Send(c, p) ==
    \E wasTorch \in WasTorch(c) :
        /\ fixed' = [fixed EXCEPT ![c] = [ptr |-> "live", torch |-> p.torch]]
        /\ \/ vendor' = [vendor EXCEPT ![c] = FixupSet(p, wasTorch)] /\ refused' = refused \ {c}
           \/ UNCHANGED vendor /\ refused' = refused \cup {c}

\* camera_get_parameters
GetParameters(c) ==
    /\ Serving(c)
    /\ view' = [view EXCEPT ![c] = FixupGet(vendor[c])]
    /\ UNCHANGED <<fixed, open, vendor, recording, callbackVars, nopens, refused>>

\* camera_set_parameters: the app changes some keys of the parameters it got.
SetParameters(c) ==
    /\ Serving(c)
    /\ \E torch, video, uhd \in BOOLEAN :
          Send(c, [view[c] EXCEPT !.torch = torch, !.video = video, !.uhd = uhd])
    /\ UNCHANGED <<open, recording, view, callbackVars, nopens>>

\* camera_start_recording: an UHD video needs the vendor's own preview format,
\* whose refusal is not looked at; the recording itself may be refused too.
StartRecording(c) ==
    /\ Serving(c)
    /\ IF vendor[c].uhd
       THEN Send(c, [FixupGet(vendor[c]) EXCEPT !.venus = TRUE])
       ELSE UNCHANGED <<fixed, vendor, refused>>
    /\ recording' \in {recording, recording \cup {c}}
    /\ UNCHANGED <<open, view, callbackVars, nopens>>

StopRecording(c) ==
    /\ Serving(c) /\ c \in recording
    /\ recording' = recording \ {c}
    /\ UNCHANGED <<fixed, open, vendor, view, callbackVars, nopens, refused>>

-----------------------------------------------------------------------------
(* Callbacks: one set of globals for all cameras, written and read without a lock. *)

\* Mutant: the vendor's device learns of the wrapper's callbacks first.
SetFunctionsLate(c) ==
    /\ Serving(c)
    /\ function' = client[c] /\ routed' = routed \cup {c}
    /\ setting' = [setting EXCEPT ![c] = "functions"]
    /\ UNCHANGED <<fixed, open, vendor, recording, view, user, client, event, nopens, refused>>

\* camera_set_callbacks: the functions, the cookie, and the vendor's device in the end.
SetFunctions(c) ==
    /\ Serving(c)
    /\ function' = client[c]
    /\ setting' = [setting EXCEPT ![c] = "functions"]
    /\ UNCHANGED <<fixed, open, vendor, recording, view, user, client, routed, event, nopens,
                   refused>>

SetCookie(c) ==
    /\ setting[c] = "functions"
    /\ user' = client[c]
    /\ setting' = [setting EXCEPT ![c] = "cookie"]
    /\ UNCHANGED <<fixed, open, vendor, recording, view, function, client, routed, event, nopens,
                   refused>>

SetVendorCallbacks(c) ==
    /\ setting[c] = "cookie"
    /\ routed' = routed \cup {c}
    /\ setting' = [setting EXCEPT ![c] = "nothing"]
    /\ UNCHANGED <<fixed, open, vendor, recording, view, function, user, client, event, nopens,
                   refused>>

\* camera_notify_cb and its like, called by the vendor's device: function and cookie are
\* read from the globals, in an order the compiler chooses, and the client is called.
Event(c) ==
    /\ c \in routed
    /\ \/ event[c].function = NotRead /\ event' = [event EXCEPT ![c].function = function]
       \/ event[c].user = NotRead /\ event' = [event EXCEPT ![c].user = user]
       \/ /\ event[c].function # NotRead /\ event[c].user # NotRead
          /\ event' = [event EXCEPT ![c] = NoEvent]
    /\ UNCHANGED <<fixed, open, vendor, recording, view, function, user, client, setting, routed,
                   nopens, refused>>

Next == \/ OpenFails
        \/ \E c \in Cameras : \/ Open(c) \/ Close(c) \/ GetParameters(c) \/ SetParameters(c)
                              \/ StartRecording(c) \/ StopRecording(c)
                              \/ SetFunctions(c) \/ SetCookie(c) \/ SetVendorCallbacks(c)
                              \/ Event(c)

Spec == Init /\ [][Next]_vars

-----------------------------------------------------------------------------
(* Properties. *)

\* The array of remembered parameters, the vendor's devices and the app's views
\* hold parameters, and only open cameras record, register callbacks or get events.
TypeOK ==
    /\ fixed \in [Cameras -> Entries]
    /\ open \subseteq Cameras /\ recording \subseteq open /\ routed \subseteq open
    /\ refused \subseteq open
    /\ vendor \in [Cameras -> Params] /\ view \in [Cameras -> Params]
    /\ function \in 0..MaxOpens /\ user \in 0..MaxOpens
    /\ client \in [Cameras -> 0..MaxOpens] /\ nopens \in 0..MaxOpens
    /\ setting \in [Cameras -> {"nothing", "functions", "cookie"}]
    /\ \A c \in Cameras \ open : setting[c] = "nothing"
    /\ event \in [Cameras -> [function : -1..MaxOpens, user : -1..MaxOpens]]

\* "When torch mode is switched off, it is important not to set ZSL": the call
\* that switches it off leaves the app's ZSL value alone, unless the vendor refused the
\* call before, which the wrapper remembers as if it had been taken.
TorchOffLeavesZsl ==
    [][\A c \in (open \cap open') \ refused :
          vendor[c].torch /\ ~vendor'[c].torch => vendor'[c].zsl = "caller"]_vars

\* camera_fixup_setparams never reads or frees memory that a close gave back: no
\* entry of an open camera dangles.
NoDanglingEntry == \A c \in open : fixed[c].ptr # "freed"

\* The vendor's private preview format reaches it only for UHD video, over any
\* sequence of reading parameters, changing them and recording.
VenusOnlyForUhd == \A c \in open : vendor[c].venus => vendor[c].uhd

\* An event in flight has the functions and the cookie of the client that has the camera
\* open, never those of an earlier one or of none, although close leaves the globals behind
\* and camera_set_callbacks replaces them one by one: the vendor's device learns of the
\* callbacks last.
EventsReachClient ==
    \A c \in Cameras : /\ event[c].function \in {NotRead, client[c]}
                       /\ event[c].user \in {NotRead, client[c]}

=============================================================================
