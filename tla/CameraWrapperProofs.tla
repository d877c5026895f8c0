------------------------ MODULE CameraWrapperProofs -------------------------
(* Proofs about CameraWrapper, for any number of cameras and of opens. *)
EXTENDS CameraWrapper, TLAPS

USE CameraAssumption

-----------------------------------------------------------------------------
(* Types. *)

\* camera_fixup_setparams and camera_fixup_getparams return parameters.
LEMMA FixupTypes ==
  ASSUME NEW p \in Params, NEW wasTorch \in BOOLEAN
  PROVE  FixupSet(p, wasTorch) \in Params /\ FixupGet(p) \in Params
  BY DEF Params, FixupSet, FixupGet

\* What old_params can say is a flash mode that is torch or not.
LEMMA WasTorchType ==
  ASSUME TypeOK, NEW c \in Cameras, NEW wasTorch \in WasTorch(c)
  PROVE  wasTorch \in BOOLEAN
  BY DEF TypeOK, WasTorch, Entries

\* camera_set_parameters keeps the types of what it remembers and of what it sends.
LEMMA SendTypes ==
  ASSUME TypeOK, NEW c \in open, NEW p \in Params, Send(c, p)
  PROVE  /\ fixed' \in [Cameras -> Entries]
         /\ vendor' \in [Cameras -> Params]
         /\ refused' \subseteq open
  <1>1. c \in Cameras /\ p.torch \in BOOLEAN
    BY DEF TypeOK, Params
  <1>2. PICK wasTorch \in WasTorch(c) :
            /\ fixed' = [fixed EXCEPT ![c] = [ptr |-> "live", torch |-> p.torch]]
            /\ \/ vendor' = [vendor EXCEPT ![c] = FixupSet(p, wasTorch)] /\ refused' = refused \ {c}
               \/ UNCHANGED vendor /\ refused' = refused \cup {c}
    BY DEF Send
  <1>3. FixupSet(p, wasTorch) \in Params
    BY <1>1, <1>2, FixupTypes, WasTorchType
  <1>4. [ptr |-> "live", torch |-> p.torch] \in Entries
    BY <1>1 DEF Entries
  <1> QED
    BY <1>1, <1>2, <1>3, <1>4 DEF TypeOK

\* The parameters an app sends are those it got, with some keys changed.
LEMMA AppParams ==
  ASSUME NEW p \in Params, NEW torch \in BOOLEAN, NEW video \in BOOLEAN, NEW uhd \in BOOLEAN
  PROVE  [p EXCEPT !.torch = torch, !.video = video, !.uhd = uhd] \in Params
  BY DEF Params

\* What the vendor's thread may have read of the globals.
Events == [function : -1..MaxOpens, user : -1..MaxOpens]

\* Every entry point of the wrapper keeps the types.
LEMMA TypeStep == TypeOK /\ [Next]_vars => TypeOK'
  <1> SUFFICES ASSUME TypeOK, [Next]_vars PROVE TypeOK'
    OBVIOUS
  <1> USE DEF TypeOK, callbackVars, Serving
  <1>0. Null \in Entries /\ Defaults \in Params
    BY DEF Null, Entries, Defaults, Params
  <1>1. CASE OpenFails
    BY <1>0, <1>1 DEF OpenFails, NewTable
  <1>2. ASSUME NEW c \in Cameras, Open(c) PROVE TypeOK'
    BY <1>0, <1>2 DEF Open, NewTable
  <1>3. ASSUME NEW c \in Cameras, Close(c) PROVE TypeOK'
    <2>1. fixed' \in [Cameras -> Entries]
      BY <1>0, <1>3 DEF Close, Entries
    <2> QED
      BY <1>0, <1>3, <2>1 DEF Close
  <1>4. ASSUME NEW c \in Cameras, GetParameters(c) PROVE TypeOK'
    BY <1>4, FixupTypes DEF GetParameters
  <1>5. ASSUME NEW c \in Cameras, SetParameters(c) PROVE TypeOK'
    <2>1. PICK torch, video, uhd \in BOOLEAN :
              Send(c, [view[c] EXCEPT !.torch = torch, !.video = video, !.uhd = uhd])
      BY <1>5 DEF SetParameters
    <2>2. [view[c] EXCEPT !.torch = torch, !.video = video, !.uhd = uhd] \in Params
      BY AppParams
    <2> QED
      BY <1>5, <2>1, <2>2, SendTypes DEF SetParameters
  <1>6. ASSUME NEW c \in Cameras, StartRecording(c) PROVE TypeOK'
    <2>0. FixupGet(vendor[c]) \in Params
      BY FixupTypes
    <2>1. [FixupGet(vendor[c]) EXCEPT !.venus = TRUE] \in Params
      BY <2>0 DEF Params
    <2>2. /\ fixed' \in [Cameras -> Entries] /\ vendor' \in [Cameras -> Params]
          /\ refused' \subseteq open
      BY <1>6, <2>1, SendTypes DEF StartRecording
    <2> QED
      BY <1>6, <2>2 DEF StartRecording
  <1>7. ASSUME NEW c \in Cameras, StopRecording(c) PROVE TypeOK'
    BY <1>7 DEF StopRecording
  <1>8. ASSUME NEW c \in Cameras, SetFunctions(c) \/ SetCookie(c) \/ SetVendorCallbacks(c)
        PROVE  TypeOK'
    BY <1>8 DEF SetFunctions, SetCookie, SetVendorCallbacks, Serving
  <1>10. ASSUME NEW c \in Cameras, Event(c) PROVE TypeOK'
    <2>1. event' \in [Cameras -> Events]
      <3>1. event \in [Cameras -> Events] /\ event[c] \in Events
        BY DEF Events
      <3>2. /\ [event[c] EXCEPT !.function = function] \in Events
            /\ [event[c] EXCEPT !.user = user] \in Events
            /\ NoEvent \in Events
        BY <3>1 DEF Events, NoEvent, NotRead
      <3> QED
        BY <1>10, <3>1, <3>2 DEF Event
    <2> QED
      BY <1>10, <2>1 DEF Event, Events
  <1>9. CASE UNCHANGED vars
    BY <1>9 DEF vars
  <1> QED
    BY <1>1, <1>2, <1>3, <1>4, <1>5, <1>6, <1>7, <1>8, <1>9, <1>10 DEF Next

\* The wrapper's globals and its cameras keep the types of their declarations, and only
\* open cameras record, have a route for callbacks or a refusal pending.
THEOREM CameraTypes == Spec => []TypeOK
  <1>1. Init => TypeOK
    BY DEF Init, TypeOK, Null, Entries, Defaults, Params, NoEvent, NotRead
  <1> QED
    BY <1>1, TypeStep, PTL DEF Spec

-----------------------------------------------------------------------------
(* The private preview format. *)

\* What VenusOnlyForUhd rests on: closed cameras too, and the app never sees the format.
VenusInv ==
    \A c \in Cameras : /\ vendor[c].venus => vendor[c].uhd
                       /\ ~view[c].venus

\* Whatever is sent under VenusInv, by an app or at start_recording, keeps it.
LEMMA SendVenus ==
  ASSUME TypeOK, VenusInv, NEW c \in open, NEW p \in Params, p.venus => p.uhd,
         Send(c, p), UNCHANGED view
  PROVE  VenusInv'
  <1>1. PICK wasTorch \in WasTorch(c) :
            vendor' = [vendor EXCEPT ![c] = FixupSet(p, wasTorch)] \/ UNCHANGED vendor
    BY DEF Send
  <1>2. /\ FixupSet(p, wasTorch).venus = p.venus
        /\ FixupSet(p, wasTorch).uhd = p.uhd
    BY DEF FixupSet, Params
  <1> QED
    BY <1>1, <1>2 DEF VenusInv, TypeOK

\* Every entry point keeps VenusInv.
LEMMA VenusStep == TypeOK /\ VenusInv /\ [Next]_vars => VenusInv'
  <1> SUFFICES ASSUME TypeOK, VenusInv, [Next]_vars PROVE VenusInv'
    OBVIOUS
  <1> USE DEF callbackVars, Serving
  <1>1. CASE OpenFails
    BY <1>1 DEF OpenFails, VenusInv
  <1>2. ASSUME NEW c \in Cameras, Open(c) PROVE VenusInv'
    BY <1>2 DEF Open, VenusInv
  <1>3. ASSUME NEW c \in Cameras, Close(c) PROVE VenusInv'
    BY <1>3 DEF Close, VenusInv, Defaults, TypeOK
  <1>4. ASSUME NEW c \in Cameras, GetParameters(c) PROVE VenusInv'
    <2>1. vendor[c] \in Params
      BY DEF TypeOK
    <2>2. ~FixupGet(vendor[c]).venus
      BY <2>1 DEF FixupGet, Params
    <2> QED
      BY <1>4, <2>2 DEF GetParameters, VenusInv, TypeOK
  <1>5. ASSUME NEW c \in Cameras, SetParameters(c) PROVE VenusInv'
    <2>1. PICK torch, video, uhd \in BOOLEAN :
              Send(c, [view[c] EXCEPT !.torch = torch, !.video = video, !.uhd = uhd])
      BY <1>5 DEF SetParameters
    <2> DEFINE p == [view[c] EXCEPT !.torch = torch, !.video = video, !.uhd = uhd]
    <2>2. view[c] \in Params /\ c \in open /\ UNCHANGED view
      BY <1>5 DEF TypeOK, SetParameters
    <2>3. p \in Params /\ p.venus = view[c].venus
      BY <2>2 DEF Params
    <2>4. p.venus => p.uhd
      BY <2>3 DEF VenusInv
    <2> HIDE DEF p
    <2> QED
      BY <2>1, <2>2, <2>3, <2>4, SendVenus DEF p
  <1>6. ASSUME NEW c \in Cameras, StartRecording(c) PROVE VenusInv'
    <2>1. CASE vendor[c].uhd
      <3> DEFINE p == [FixupGet(vendor[c]) EXCEPT !.venus = TRUE]
      <3>1. vendor[c] \in Params /\ c \in open /\ UNCHANGED view /\ Send(c, p)
        BY <1>6, <2>1 DEF TypeOK, StartRecording
      <3>2. p \in Params /\ p.uhd = vendor[c].uhd
        BY <3>1 DEF Params, FixupGet
      <3> HIDE DEF p
      <3> QED
        BY <2>1, <3>1, <3>2, SendVenus
    <2>2. CASE ~vendor[c].uhd
      BY <1>6, <2>2 DEF StartRecording, VenusInv
    <2> QED
      BY <2>1, <2>2
  <1>7. ASSUME NEW c \in Cameras, StopRecording(c) PROVE VenusInv'
    BY <1>7 DEF StopRecording, VenusInv
  <1>8. ASSUME NEW c \in Cameras, SetFunctions(c) \/ SetCookie(c) \/ SetVendorCallbacks(c)
        PROVE  VenusInv'
    BY <1>8 DEF SetFunctions, SetCookie, SetVendorCallbacks, VenusInv
  <1>10. ASSUME NEW c \in Cameras, Event(c) PROVE VenusInv'
    BY <1>10 DEF Event, VenusInv
  <1>9. CASE UNCHANGED vars
    BY <1>9 DEF vars, VenusInv
  <1> QED
    BY <1>1, <1>2, <1>3, <1>4, <1>5, <1>6, <1>7, <1>8, <1>9, <1>10 DEF Next

\* The vendor gets its private preview format for UHD video only, however many cameras
\* are open: start_recording sets it for UHD, camera_fixup_getparams hides it from the
\* app, which therefore never sends it back for another size.
THEOREM VenusForUhd == Spec => []VenusOnlyForUhd
  <1>1. Init => TypeOK /\ VenusInv
    BY DEF Init, VenusInv, Defaults, TypeOK, Null, Entries, Params, NoEvent, NotRead
  <1>2. TypeOK /\ VenusInv => VenusOnlyForUhd
    BY DEF VenusInv, VenusOnlyForUhd, TypeOK
  <1> QED
    BY <1>1, <1>2, TypeStep, VenusStep, PTL DEF Spec

-----------------------------------------------------------------------------
(* One camera at a time: the remembered parameters. *)

\* When the service opens one camera at a time: the entry of the open camera is not
\* freed and agrees with the vendor as long as the vendor took what it was sent last.
SingleInv ==
    /\ \A c, d \in open : c = d
    /\ \A c \in Cameras \ open : vendor[c] = Defaults
    /\ \A c \in open : fixed[c].ptr # "freed"
    /\ \A c \in open \ refused : fixed[c].torch = vendor[c].torch

\* What camera_set_parameters sends is what it remembers, if the vendor takes it.
LEMMA SendSingle ==
  ASSUME TypeOK, SingleInv, NEW c \in open, NEW p \in Params, Send(c, p),
         UNCHANGED open
  PROVE  SingleInv'
  <1>1. PICK wasTorch \in WasTorch(c) :
            /\ fixed' = [fixed EXCEPT ![c] = [ptr |-> "live", torch |-> p.torch]]
            /\ \/ vendor' = [vendor EXCEPT ![c] = FixupSet(p, wasTorch)] /\ refused' = refused \ {c}
               \/ UNCHANGED vendor /\ refused' = refused \cup {c}
    BY DEF Send
  <1>2. FixupSet(p, wasTorch).torch = p.torch
    BY DEF FixupSet, Params
  <1>3. /\ \A d \in open : d = c /\ d \in Cameras
        /\ fixed'[c].ptr = "live" /\ fixed'[c].torch = p.torch
    BY <1>1 DEF SingleInv, TypeOK
  <1>4. \A d \in Cameras : d # c => vendor'[d] = vendor[d]
    BY <1>1 DEF TypeOK
  <1>5. c \notin refused' => vendor'[c].torch = p.torch
    BY <1>1, <1>2, <1>3 DEF TypeOK
  <1> QED
    BY <1>3, <1>4, <1>5 DEF SingleInv

\* Every entry point keeps SingleInv.
LEMMA SingleStep ==
  ASSUME ~Concurrent
  PROVE  TypeOK /\ SingleInv /\ [Next]_vars => SingleInv'
  <1> SUFFICES ASSUME TypeOK, SingleInv, [Next]_vars PROVE SingleInv'
    OBVIOUS
  <1> USE DEF callbackVars, Serving
  <1>1. CASE OpenFails
    BY <1>1 DEF OpenFails, NewTable, MayOpen, SingleInv, TypeOK
  <1>2. ASSUME NEW c \in Cameras, Open(c) PROVE SingleInv'
    <2>1. open = {}
      BY <1>2 DEF Open, MayOpen
    <2>2. open' = {c} /\ vendor' = vendor /\ vendor[c] = Defaults
      BY <1>2, <2>1 DEF Open, SingleInv
    <2>3. fixed'[c] = Null
      BY <1>2 DEF Open, NewTable
    <2>4. /\ fixed'[c].ptr # "freed" /\ fixed'[c].torch = vendor'[c].torch
      BY <2>2, <2>3 DEF Null, Defaults
    <2>5. \A d \in Cameras \ open' : vendor'[d] = Defaults
      BY <2>1, <2>2 DEF SingleInv
    <2> QED
      BY <2>2, <2>4, <2>5 DEF SingleInv
  <1>3. ASSUME NEW c \in Cameras, Close(c) PROVE SingleInv'
    <2>1. open' = {}
      BY <1>3 DEF Close, SingleInv, TypeOK
    <2>2. \A d \in Cameras : vendor'[d] = Defaults
      BY <1>3 DEF Close, SingleInv, TypeOK
    <2> QED
      BY <2>1, <2>2 DEF SingleInv
  <1>4. ASSUME NEW c \in Cameras, GetParameters(c) PROVE SingleInv'
    BY <1>4 DEF GetParameters, SingleInv
  <1>5. ASSUME NEW c \in Cameras, SetParameters(c) PROVE SingleInv'
    <2>1. PICK torch, video, uhd \in BOOLEAN :
              Send(c, [view[c] EXCEPT !.torch = torch, !.video = video, !.uhd = uhd])
      BY <1>5 DEF SetParameters
    <2>2. /\ [view[c] EXCEPT !.torch = torch, !.video = video, !.uhd = uhd] \in Params
          /\ c \in open /\ UNCHANGED open
      BY <1>5, AppParams DEF TypeOK, SetParameters
    <2> QED
      BY <2>1, <2>2, SendSingle
  <1>6. ASSUME NEW c \in Cameras, StartRecording(c) PROVE SingleInv'
    <2>1. c \in open /\ UNCHANGED open /\ vendor[c] \in Params
      BY <1>6 DEF StartRecording, TypeOK
    <2>2. CASE vendor[c].uhd
      <3>1. [FixupGet(vendor[c]) EXCEPT !.venus = TRUE] \in Params
        BY <2>1 DEF FixupGet, Params
      <3> QED
        BY <1>6, <2>1, <2>2, <3>1, SendSingle DEF StartRecording
    <2>3. CASE ~vendor[c].uhd
      BY <1>6, <2>3 DEF StartRecording, SingleInv
    <2> QED
      BY <2>2, <2>3
  <1>7. ASSUME NEW c \in Cameras, StopRecording(c) PROVE SingleInv'
    BY <1>7 DEF StopRecording, SingleInv
  <1>8. ASSUME NEW c \in Cameras, SetFunctions(c) \/ SetCookie(c) \/ SetVendorCallbacks(c)
        PROVE  SingleInv'
    BY <1>8 DEF SetFunctions, SetCookie, SetVendorCallbacks, SingleInv
  <1>10. ASSUME NEW c \in Cameras, Event(c) PROVE SingleInv'
    BY <1>10 DEF Event, SingleInv
  <1>9. CASE UNCHANGED vars
    BY <1>9 DEF vars, SingleInv
  <1> QED
    BY <1>1, <1>2, <1>3, <1>4, <1>5, <1>6, <1>7, <1>8, <1>9, <1>10 DEF Next

\* Nothing is open at first.
LEMMA SingleInit == Init => TypeOK /\ SingleInv
  BY DEF Init, SingleInv, TypeOK, Null, Entries, Defaults, Params, NoEvent, NotRead

\* With one camera open at a time no entry of fixed_set_params that
\* camera_fixup_setparams reads or frees has been freed by a close before.
THEOREM EntriesAlive ==
  ASSUME ~Concurrent
  PROVE  Spec => []NoDanglingEntry
  <1>1. SingleInv => NoDanglingEntry
    BY DEF SingleInv, NoDanglingEntry
  <1>2. TypeOK /\ SingleInv /\ [Next]_vars => SingleInv'
    BY SingleStep
  <1> QED
    BY <1>1, <1>2, SingleInit, TypeStep, PTL DEF Spec

\* The entry of an open camera is what the vendor has, so camera_fixup_setparams knows
\* that torch mode was on.
LEMMA SendTorchOff ==
  ASSUME TypeOK, SingleInv, NEW c \in open, NEW p \in Params, Send(c, p),
         NEW d \in open \ refused, vendor[d].torch, ~vendor'[d].torch
  PROVE  vendor'[d].zsl = "caller"
  <1>1. c = d /\ c \in Cameras /\ fixed[c].torch /\ fixed[c].ptr # "freed"
    BY DEF SingleInv, TypeOK
  <1>2. WasTorch(c) = {fixed[c].torch}
    BY <1>1 DEF WasTorch
  <1>3. PICK wasTorch \in WasTorch(c) :
            vendor' = [vendor EXCEPT ![c] = FixupSet(p, wasTorch)] \/ UNCHANGED vendor
    BY DEF Send
  <1>4. wasTorch
    BY <1>1, <1>2
  <1>5. vendor'[c] = FixupSet(p, wasTorch)
    BY <1>1, <1>3 DEF TypeOK
  <1>6. FixupSet(p, wasTorch).zsl = "caller"
    BY <1>4 DEF FixupSet, Params
  <1> QED
    BY <1>1, <1>5, <1>6

\* Only a call that sends parameters switches torch mode off.
LEMMA TorchStep ==
  ASSUME TypeOK, SingleInv, [Next]_vars,
         NEW d \in (open \cap open') \ refused, vendor[d].torch, ~vendor'[d].torch
  PROVE  vendor'[d].zsl = "caller"
  <1> USE DEF callbackVars, Serving
  <1>0. vendor' # vendor
    OBVIOUS
  <1>1. CASE OpenFails
    BY <1>0, <1>1 DEF OpenFails
  <1>2. ASSUME NEW c \in Cameras, Open(c) PROVE FALSE
    BY <1>0, <1>2 DEF Open
  <1>3. ASSUME NEW c \in Cameras, Close(c) PROVE FALSE
    BY <1>3 DEF Close, SingleInv
  <1>4. ASSUME NEW c \in Cameras, GetParameters(c) PROVE FALSE
    BY <1>0, <1>4 DEF GetParameters
  <1>5. ASSUME NEW c \in Cameras, SetParameters(c) PROVE vendor'[d].zsl = "caller"
    <2>1. PICK torch, video, uhd \in BOOLEAN :
              Send(c, [view[c] EXCEPT !.torch = torch, !.video = video, !.uhd = uhd])
      BY <1>5 DEF SetParameters
    <2>2. /\ [view[c] EXCEPT !.torch = torch, !.video = video, !.uhd = uhd] \in Params
          /\ c \in open /\ d \in open \ refused
      BY <1>5, AppParams DEF TypeOK, SetParameters
    <2> QED
      BY <2>1, <2>2, SendTorchOff
  <1>6. ASSUME NEW c \in Cameras, StartRecording(c) PROVE vendor'[d].zsl = "caller"
    <2>1. c \in open /\ vendor[c] \in Params /\ d \in open \ refused
      BY <1>6 DEF StartRecording, TypeOK
    <2>2. [FixupGet(vendor[c]) EXCEPT !.venus = TRUE] \in Params
      BY <2>1 DEF FixupGet, Params
    <2>3. Send(c, [FixupGet(vendor[c]) EXCEPT !.venus = TRUE])
      BY <1>0, <1>6 DEF StartRecording
    <2> QED
      BY <2>1, <2>2, <2>3, SendTorchOff
  <1>7. ASSUME NEW c \in Cameras, StopRecording(c) PROVE FALSE
    BY <1>0, <1>7 DEF StopRecording
  <1>8. ASSUME NEW c \in Cameras, SetFunctions(c) \/ SetCookie(c) \/ SetVendorCallbacks(c)
        PROVE  FALSE
    BY <1>0, <1>8 DEF SetFunctions, SetCookie, SetVendorCallbacks
  <1>10. ASSUME NEW c \in Cameras, Event(c) PROVE FALSE
    BY <1>0, <1>10 DEF Event
  <1>9. CASE UNCHANGED vars
    BY <1>0, <1>9 DEF vars
  <1> QED
    BY <1>1, <1>2, <1>3, <1>4, <1>5, <1>6, <1>7, <1>8, <1>9, <1>10 DEF Next

\* With one camera open at a time, the call that takes the vendor's flash out of torch
\* mode leaves the app's ZSL value alone, unless the vendor refused the call before it.
THEOREM TorchOffKeepsZsl ==
  ASSUME ~Concurrent
  PROVE  Spec => TorchOffLeavesZsl
  <1>1. /\ TypeOK /\ SingleInv /\ [Next]_vars
        => [\A c \in (open \cap open') \ refused :
               vendor[c].torch /\ ~vendor'[c].torch => vendor'[c].zsl = "caller"]_vars
    BY TorchStep
  <1>2. TypeOK /\ SingleInv /\ [Next]_vars => SingleInv'
    BY SingleStep
  <1> QED
    BY <1>1, <1>2, SingleInit, TypeStep, PTL DEF Spec, TorchOffLeavesZsl

-----------------------------------------------------------------------------
(* One camera at a time: the callbacks. *)

\* When the service opens one camera at a time: as far as the client of a camera has come
\* with its callbacks the globals are its own, all of them once the vendor's device knows
\* of them, and only then there are events.
RouteInv ==
    /\ \A c \in Cameras : setting[c] \in {"functions", "cookie"} => function = client[c]
    /\ \A c \in Cameras : setting[c] = "cookie" => user = client[c]
    /\ \A c \in routed : function = client[c] /\ user = client[c]
    /\ \A c \in Cameras \ routed : event[c] = NoEvent
    /\ EventsReachClient

\* camera_set_callbacks keeps it: no other camera has an event to deliver.
LEMMA RouteSet ==
  ASSUME TypeOK, SingleInv, RouteInv, NEW c \in Cameras,
         SetFunctions(c) \/ SetCookie(c) \/ SetVendorCallbacks(c)
  PROVE  RouteInv'
  <1>1. c \in open /\ \A d \in Cameras : d \in routed \/ setting[d] # "nothing" => d = c
    BY DEF SetFunctions, SetCookie, SetVendorCallbacks, Serving, SingleInv, TypeOK
  <1>2. UNCHANGED <<client, event>> /\ setting \in [Cameras -> {"nothing", "functions", "cookie"}]
    BY DEF SetFunctions, SetCookie, SetVendorCallbacks, TypeOK
  <1>3. EventsReachClient'
    BY <1>2 DEF RouteInv, EventsReachClient
  <1>4. CASE SetFunctions(c)
    <2>1. /\ function' = client[c] /\ UNCHANGED <<user, routed>>
          /\ \A d \in Cameras : setting'[d] = IF d = c THEN "functions" ELSE setting[d]
      BY <1>2, <1>4 DEF SetFunctions
    <2>2. \A d \in routed : d = c
      BY <1>1 DEF TypeOK
    <2> QED
      BY <1>1, <1>2, <1>3, <2>1, <2>2 DEF RouteInv
  <1>5. CASE SetCookie(c)
    BY <1>1, <1>2, <1>3, <1>5 DEF SetCookie, RouteInv
  <1>6. CASE SetVendorCallbacks(c)
    BY <1>1, <1>2, <1>3, <1>6 DEF SetVendorCallbacks, RouteInv
  <1> QED
    BY <1>4, <1>5, <1>6

\* The vendor's thread reads what is the client's.
LEMMA RouteEvent ==
  ASSUME TypeOK, RouteInv, NEW c \in Cameras, Event(c)
  PROVE  RouteInv'
  <1>1. event[c] \in Events /\ event \in [Cameras -> Events]
    BY DEF TypeOK, Events
  <1>2. /\ function = client[c] /\ user = client[c] /\ c \in routed
        /\ UNCHANGED <<function, user, client, setting, routed>>
    BY DEF Event, RouteInv
  <1>3. PICK e : /\ event' = [event EXCEPT ![c] = e]
                 /\ e \in {[event[c] EXCEPT !.function = function],
                           [event[c] EXCEPT !.user = user], NoEvent}
    BY DEF Event
  <1>4. e.function \in {NotRead, client[c]} /\ e.user \in {NotRead, client[c]}
    BY <1>1, <1>2, <1>3 DEF Events, NoEvent, RouteInv, EventsReachClient
  <1>5. \A d \in Cameras : event'[d] = IF d = c THEN e ELSE event[d]
    BY <1>1, <1>3
  <1>6. EventsReachClient'
    BY <1>2, <1>4, <1>5 DEF RouteInv, EventsReachClient
  <1> QED
    BY <1>2, <1>5, <1>6 DEF RouteInv

\* Every entry point keeps RouteInv.
LEMMA RouteStep ==
  ASSUME ~Concurrent
  PROVE  TypeOK /\ SingleInv /\ RouteInv /\ [Next]_vars => RouteInv'
  <1> SUFFICES ASSUME TypeOK, SingleInv, RouteInv, [Next]_vars PROVE RouteInv'
    OBVIOUS
  <1>1. UNCHANGED callbackVars => RouteInv'
    BY DEF callbackVars, RouteInv, EventsReachClient
  <1>2. CASE OpenFails
    BY <1>1, <1>2 DEF OpenFails
  <1>3. ASSUME NEW c \in Cameras, Open(c) PROVE RouteInv'
    <2>1. routed = {} /\ \A d \in Cameras : setting[d] = "nothing" /\ event[d] = NoEvent
      BY <1>3 DEF Open, MayOpen, TypeOK, RouteInv
    <2>2. UNCHANGED <<setting, routed, event>>
      BY <1>3 DEF Open
    <2> QED
      BY <2>1, <2>2 DEF RouteInv, EventsReachClient, NoEvent
  <1>4. ASSUME NEW c \in Cameras, Close(c) PROVE RouteInv'
    <2>1. routed' = {} /\ \A d \in Cameras : setting[d] = "nothing" /\ event[d] = NoEvent
      BY <1>4 DEF Close, Serving, SingleInv, TypeOK, RouteInv
    <2>2. UNCHANGED <<setting, event>>
      BY <1>4 DEF Close
    <2> QED
      BY <2>1, <2>2 DEF RouteInv, EventsReachClient, NoEvent
  <1>5. ASSUME NEW c \in Cameras,
               GetParameters(c) \/ SetParameters(c) \/ StartRecording(c) \/ StopRecording(c)
        PROVE  RouteInv'
    BY <1>1, <1>5 DEF GetParameters, SetParameters, StartRecording, StopRecording
  <1>6. CASE UNCHANGED vars
    BY <1>1, <1>6 DEF vars
  <1> QED
    BY <1>2, <1>3, <1>4, <1>5, <1>6, RouteSet, RouteEvent DEF Next

\* With one camera open at a time every event of the vendor reaches the client that has
\* the camera open, with its own functions and its own cookie, although the globals are
\* written one by one and outlive their client.
THEOREM EventsRouted ==
  ASSUME ~Concurrent
  PROVE  Spec => []EventsReachClient
  <1>1. Init => RouteInv
    BY DEF Init, RouteInv, EventsReachClient, NoEvent
  <1>2. RouteInv => EventsReachClient
    BY DEF RouteInv
  <1>3. TypeOK /\ SingleInv /\ [Next]_vars => SingleInv'
    BY SingleStep
  <1>4. TypeOK /\ SingleInv /\ RouteInv /\ [Next]_vars => RouteInv'
    BY RouteStep
  <1> QED
    BY <1>1, <1>2, <1>3, <1>4, SingleInit, TypeStep, PTL DEF Spec


=============================================================================
