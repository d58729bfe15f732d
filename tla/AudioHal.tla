------------------------------ MODULE AudioHal ------------------------------
(***************************************************************************)
(* The primary audio HAL (audio/audio_hw.c): one audio_device, its output  *)
(* and input streams, and the threads of the audio service that call it.   *)
(*                                                                         *)
(* A call is a short pc machine: it waits for the device mutex ("adev"),   *)
(* then for the mutex of its stream ("stream"), may have to start the PCM  *)
(* ("start"), does its transfer with the stream mutex alone ("io"), or     *)
(* re-routes the codec ("select").  A step is a maximal piece of code that *)
(* blocks on nothing and that runs with the mutexes the code takes: what   *)
(* it touches is touched by no other thread meanwhile.                     *)
(*                                                                         *)
(* A routing mask is a set of device bits.  The data that crosses a PCM,   *)
(* the write threshold and the resampler are left to other modules.        *)
(***************************************************************************)
EXTENDS Integers, FiniteSets

CONSTANTS
  Threads,       \* threads of the audio service
  Outs, Ins,     \* memory for output and input streams
  NoThread,      \* a mutex nobody holds
  NoStream,      \* a NULL stream pointer
  OUT_ALL, OUT_ALL_SCO, IN_ALL, IN_ALL_SCO,      \* masks of audio.h
  SPEAKER, WIRED, BUILTIN_MIC,                   \* bits select_devices tests
  OutRoutes, InRoutes,                           \* the "routing" values sent
  Orientations, LANDSCAPE, UNDEFINED

Streams == Outs \cup Ins

ASSUME StreamsAssumption ==
  /\ Outs \cap Ins = {}
  /\ NoStream \notin Streams
  /\ NoThread \notin Threads

(* One word holds the output and the input devices, so its two masks must  *)
(* not overlap (true of the audio.h this code was written for).            *)
ASSUME MasksAssumption ==
  /\ OUT_ALL \cap IN_ALL = {}
  /\ OUT_ALL_SCO \cup SPEAKER \cup WIRED \subseteq OUT_ALL
  /\ IN_ALL_SCO \cup BUILTIN_MIC \subseteq IN_ALL
  /\ OutRoutes \subseteq SUBSET OUT_ALL
  /\ InRoutes \subseteq SUBSET IN_ALL
  /\ {LANDSCAPE, UNDEFINED} \subseteq Orientations

VARIABLES
  adevLock,      \* holder of audio_device.lock
  lock,          \* holder of each stream's lock
  devices, orientation, screenOff, activeOut, activeIn,   \* audio_device
  opened,        \* streams that are allocated
  standby, pcm, bufType,                                  \* per stream
  mixer, dsp,    \* the paths handed to audio_route; mode of the voice DSP
  pc, op, on, arg, want,                                  \* per thread
  stale          \* history: outputs that have not written since the choice
                 \* of buffer changed

deviceVars == <<devices, orientation, screenOff, activeOut, activeIn>>
streamVars == <<opened, standby, pcm, bufType>>
codecVars  == <<mixer, dsp>>
callVars   == <<op, on, arg, want>>
vars == <<adevLock, lock, deviceVars, streamVars, codecVars, pc, callVars,
          stale>>

------------------------------------------------------------------------------
(* Configuration of the PCMs.                                              *)

OUT_SAMPLING_RATE == 44100
IN_SAMPLING_RATE  == 44100
SCO_SAMPLING_RATE == 44100

(* The test that decides whether a start stops the other direction, which  *)
(* would then unlock a stream through the pointer it has just cleared.     *)
RateClash(rate, other) ==
  \/ rate % 8000 = 0 /\ other % 8000 # 0
  \/ rate % 11025 = 0 /\ other % 11025 # 0

(* The comments give SCO a rate of another group, the #defines do not: the *)
(* test fails for every pair of them, and a start stops nobody.            *)
ASSUME RatesAssumption ==
  LET rates == {OUT_SAMPLING_RATE, IN_SAMPLING_RATE, SCO_SAMPLING_RATE}
  IN \A rate, other \in rates : ~RateClash(rate, other)

------------------------------------------------------------------------------
(* select_devices: what a routing and an orientation make of the codec.    *)

PathsFor(devs, o) ==
  {"speaker" : x \in devs \cap SPEAKER}
    \cup {"headphone" : x \in devs \cap WIRED}
    \cup {IF o = LANDSCAPE THEN "main-mic-left" ELSE "main-mic-top" :
            x \in devs \cap BUILTIN_MIC}

(* The controls that move the voice DSP; speaker and headphone send the    *)
(* same.                                                                   *)
DspControls(devs) ==
  {c \in {"PLAYBACK"} : devs \cap (SPEAKER \cup WIRED) # {}}
    \cup {c \in {"START_RECORDING"} : devs \cap BUILTIN_MIC # {}}

DspMode_SpeakerLast(sent, old) ==        \* mistake: the ioctls in another order
  IF "PLAYBACK" \in sent THEN "playback"
  ELSE IF "START_RECORDING" \in sent THEN "recording"
  ELSE old

(* The mode they leave it in: the last one wins.                           *)
DspMode(sent, old) ==
  IF "START_RECORDING" \in sent THEN "recording"
  ELSE IF "PLAYBACK" \in sent THEN "playback"
  ELSE old

------------------------------------------------------------------------------

Init ==
  /\ adevLock = NoThread
  /\ lock = [s \in Streams |-> NoThread]
  /\ devices = {}
  /\ orientation = UNDEFINED
  /\ screenOff = FALSE
  /\ activeOut = NoStream
  /\ activeIn = NoStream
  /\ opened = {}
  /\ standby = [s \in Streams |-> TRUE]
  /\ pcm = [s \in Streams |-> "none"]
  /\ bufType = [s \in Streams |-> "unknown"]
  /\ mixer = {}
  /\ dsp = "unknown"
  /\ pc = [t \in Threads |-> "idle"]
  /\ op = [t \in Threads |-> "none"]
  /\ on = [t \in Threads |-> NoStream]
  /\ arg = [t \in Threads |-> {}]
  /\ want = [t \in Threads |-> "keep"]
  /\ stale = {}

------------------------------------------------------------------------------
(* Helpers.                                                                *)

Goto(t, l) == pc' = [pc EXCEPT ![t] = l] /\ UNCHANGED callVars

(* A call returns and leaves nothing behind.                               *)
Return(t) ==
  /\ pc' = [pc EXCEPT ![t] = "idle"]
  /\ op' = [op EXCEPT ![t] = "none"]
  /\ on' = [on EXCEPT ![t] = NoStream]
  /\ arg' = [arg EXCEPT ![t] = {}]
  /\ want' = [want EXCEPT ![t] = "keep"]

Peer(s) == IF s \in Outs THEN activeIn ELSE activeOut

LinkOf(s) == devices \cap (IF s \in Outs THEN OUT_ALL_SCO ELSE IN_ALL_SCO)
ScoRouted(s) == LinkOf(s) # {}

(* The streams that still have a PCM of this kind and direction open: the  *)
(* kernel refuses to open it a second time.                                *)
PcmBusy(s, p) ==
  \E r \in IF s \in Outs THEN Outs ELSE Ins : ~standby[r] /\ pcm[r] = p

BufferType_NoCapture == IF screenOff THEN "long" ELSE "short"     \* mistake

(* What out_write and out_get_latency make of the screen and the capture.  *)
BufferType == IF screenOff /\ activeIn = NoStream THEN "long" ELSE "short"

LatencyType ==
  IF screenOff /\ activeIn = NoStream /\ devices \cap OUT_ALL_SCO = {}
  THEN "long" ELSE "short"

(* The caller's side: a stream is closed only when no call uses it.        *)
InUse(s)   == \E t \in Threads : pc[t] # "idle" /\ on[t] = s
Closing(s) == \E t \in Threads :
                pc[t] # "idle" /\ on[t] = s /\ op[t] \in {"close_out", "close_in"}

do_out_standby_KeepActive(s) ==          \* mistake: active_out survives
  IF standby[s] THEN UNCHANGED <<pcm, activeOut, standby>>
  ELSE /\ pcm' = [pcm EXCEPT ![s] = "none"]
       /\ UNCHANGED activeOut
       /\ standby' = [standby EXCEPT ![s] = TRUE]

do_out_standby(s) ==
  IF standby[s] THEN UNCHANGED <<pcm, activeOut, standby>>
  ELSE /\ pcm' = [pcm EXCEPT ![s] = "none"]
       /\ activeOut' = NoStream
       /\ standby' = [standby EXCEPT ![s] = TRUE]

do_in_standby_KeepRunning(s) ==          \* mistake: standby is not set
  IF standby[s] THEN UNCHANGED <<pcm, activeIn, standby>>
  ELSE /\ pcm' = [pcm EXCEPT ![s] = "none"]
       /\ activeIn' = NoStream
       /\ UNCHANGED standby

do_in_standby(s) ==
  IF standby[s] THEN UNCHANGED <<pcm, activeIn, standby>>
  ELSE /\ pcm' = [pcm EXCEPT ![s] = "none"]
       /\ activeIn' = NoStream
       /\ standby' = [standby EXCEPT ![s] = TRUE]

(* History: once the choice of buffer changes, no stream has written with  *)
(* the new one; a write of the streams in S settles it for them.           *)
Settle(S) == stale' = IF BufferType' = BufferType THEN stale \ S ELSE Outs

------------------------------------------------------------------------------
(* Calls enter the HAL.                                                    *)

OutCalls == {"write", "out_standby", "out_set_parameters", "get_latency"}
InCalls  == {"read", "in_standby", "in_set_parameters"}

Enter(t, o, s) ==
  /\ pc[t] = "idle"
  /\ pc' = [pc EXCEPT ![t] = "adev"]
  /\ op' = [op EXCEPT ![t] = o]
  /\ on' = [on EXCEPT ![t] = s]
  /\ UNCHANGED <<adevLock, lock, deviceVars, streamVars, codecVars, arg, want,
                 stale>>

CallOut(t) == \E o \in OutCalls, s \in opened \cap Outs :
                ~Closing(s) /\ Enter(t, o, s)
CallIn(t)  == \E o \in InCalls, s \in opened \cap Ins :
                ~Closing(s) /\ Enter(t, o, s)
CallCloseOutput(t) == \E s \in opened \cap Outs :
                ~InUse(s) /\ Enter(t, "close_out", s)
CallCloseInput(t)  == \E s \in opened \cap Ins :
                ~InUse(s) /\ Enter(t, "close_in", s)
CallSetParameters(t) == Enter(t, "adev_set_parameters", NoStream)

(* A stream is calloc'ed: in standby, its buffer type unknown.             *)
Allocate(s) ==
  /\ opened' = opened \cup {s}
  /\ standby' = [standby EXCEPT ![s] = TRUE]
  /\ pcm' = [pcm EXCEPT ![s] = "none"]
  /\ bufType' = [bufType EXCEPT ![s] = "unknown"]
  /\ UNCHANGED <<adevLock, lock, deviceVars, codecVars, pc, callVars,
                 stale>>

adev_open_output_stream == \E s \in Outs \ opened : Allocate(s)
adev_open_input_stream  == \E s \in Ins \ opened : Allocate(s)

------------------------------------------------------------------------------
(* The device mutex, then the stream mutex: every operation of a stream    *)
(* except the routing and the latency, which decide before they lock it.   *)

TakeAdevLock_NotForWrite(t) ==           \* mistake: out_write locks its stream only
  /\ pc[t] = "adev"
  /\ op[t] \in {"write", "out_standby", "close_out"}
  /\ IF op[t] = "write" THEN UNCHANGED adevLock
     ELSE adevLock = NoThread /\ adevLock' = t
  /\ Goto(t, "stream")
  /\ UNCHANGED <<lock, deviceVars, streamVars, codecVars, stale>>

TakeAdevLock(t) ==
  /\ pc[t] = "adev"
  /\ op[t] \notin {"out_set_parameters", "in_set_parameters", "get_latency",
                   "adev_set_parameters"}
  /\ adevLock = NoThread
  /\ adevLock' = t
  /\ Goto(t, "stream")
  /\ UNCHANGED <<lock, deviceVars, streamVars, codecVars,
                 stale>>

(* out_standby, alone or as the first half of adev_close_output_stream.    *)
out_standby(t) ==
  /\ pc[t] = "stream" /\ op[t] \in {"out_standby", "close_out"}
  /\ lock[on[t]] = NoThread
  /\ do_out_standby(on[t])
  /\ adevLock' = NoThread
  /\ IF op[t] = "close_out" THEN Goto(t, "free") ELSE Return(t)
  /\ UNCHANGED <<lock, devices, orientation, screenOff, activeIn, opened,
                 bufType, codecVars, stale>>

in_standby(t) ==
  /\ pc[t] = "stream" /\ op[t] \in {"in_standby", "close_in"}
  /\ lock[on[t]] = NoThread
  /\ do_in_standby(on[t])
  /\ adevLock' = NoThread
  /\ IF op[t] = "close_in" THEN Goto(t, "free") ELSE Return(t)
  /\ UNCHANGED <<lock, devices, orientation, screenOff, activeOut, opened,
                 bufType, codecVars>>
  /\ Settle({})

(* The second half of a close: the stream's memory goes away.              *)
Free(t) ==
  /\ pc[t] = "free"
  /\ opened' = opened \ {on[t]}
  /\ Return(t)
  /\ UNCHANGED <<adevLock, lock, deviceVars, standby, pcm, bufType, codecVars, stale>>

------------------------------------------------------------------------------
(* Routing.                                                                *)

(* The mask without this direction's bits, then the new ones.              *)
Reroute(ALL, val) == devices' = (devices \ ALL) \cup val

(* SCO comes or goes.                                                      *)
TogglesSco_Always(SCO, val) == TRUE      \* mistake: standby at each routing
TogglesSco(SCO, val) == val \cap SCO # devices \cap SCO

(* Routing takes the stream mutex for the standby it asks for.             *)
RoutingLocks_Never(s) == TRUE            \* mistake
RoutingLocks(s) == lock[s] = NoThread

(* out_set_parameters up to the stream mutex, which only a change of SCO   *)
(* takes; no routing, the same routing and a routing of 0 change nothing.  *)
out_set_parameters(t) ==
  /\ pc[t] = "adev" /\ op[t] = "out_set_parameters"
  /\ adevLock = NoThread
  /\ \E val \in OutRoutes :
       \/ /\ val = {} \/ devices \cap OUT_ALL = val
          /\ Return(t)
          /\ UNCHANGED <<adevLock, devices>>
       \/ /\ val # {} /\ devices \cap OUT_ALL # val
          /\ adevLock' = t
          /\ IF TogglesSco(OUT_ALL_SCO, val)
             THEN /\ pc' = [pc EXCEPT ![t] = "stream"]
                  /\ arg' = [arg EXCEPT ![t] = val]
                  /\ UNCHANGED <<op, on, want, devices>>
             ELSE /\ Goto(t, "select")
                  /\ Reroute(OUT_ALL, val)
  /\ UNCHANGED <<lock, orientation, screenOff, activeOut, activeIn, streamVars,
                 codecVars, stale>>

(* The stream leaves its PCM before the mask changes.                      *)
OutLeavePcm(t) ==
  /\ pc[t] = "stream" /\ op[t] = "out_set_parameters"
  /\ RoutingLocks(on[t])
  /\ do_out_standby(on[t])
  /\ Reroute(OUT_ALL, arg[t])
  /\ Goto(t, "select")
  /\ UNCHANGED <<adevLock, lock, orientation, screenOff, activeIn, opened,
                 bufType, codecVars, stale>>

in_set_parameters(t) ==
  /\ pc[t] = "adev" /\ op[t] = "in_set_parameters"
  /\ adevLock = NoThread
  /\ \E val \in InRoutes :
       \/ /\ val = {} \/ devices \cap IN_ALL = val
          /\ Return(t)
          /\ UNCHANGED <<adevLock, devices>>
       \/ /\ val # {} /\ devices \cap IN_ALL # val
          /\ adevLock' = t
          /\ IF TogglesSco(IN_ALL_SCO, val)
             THEN /\ pc' = [pc EXCEPT ![t] = "stream"]
                  /\ arg' = [arg EXCEPT ![t] = val]
                  /\ UNCHANGED <<op, on, want, devices>>
             ELSE /\ Goto(t, "select")
                  /\ Reroute(IN_ALL, val)
  /\ UNCHANGED <<lock, orientation, screenOff, activeOut, activeIn, streamVars,
                 codecVars, stale>>

InLeavePcm(t) ==
  /\ pc[t] = "stream" /\ op[t] = "in_set_parameters"
  /\ RoutingLocks(on[t])
  /\ do_in_standby(on[t])
  /\ Reroute(IN_ALL, arg[t])
  /\ Goto(t, "select")
  /\ UNCHANGED <<adevLock, lock, orientation, screenOff, activeOut, opened,
                 bufType, codecVars>>
  /\ Settle({})

(* adev_set_parameters with an orientation.                                *)
adev_set_parameters(t) ==
  /\ pc[t] = "adev" /\ op[t] = "adev_set_parameters"
  /\ adevLock = NoThread
  /\ \E o \in Orientations :
       IF o = orientation
       THEN Return(t) /\ UNCHANGED <<adevLock, orientation>>
       ELSE Goto(t, "select") /\ adevLock' = t /\ orientation' = o
  /\ UNCHANGED <<lock, devices, screenOff, activeOut, activeIn, streamVars,
                 codecVars, stale>>

(* adev_set_parameters with a screen_state: it takes no mutex at all.      *)
SetScreenState(off) ==
  /\ screenOff' = off
  /\ UNCHANGED <<adevLock, lock, devices, orientation, activeOut, activeIn,
                 streamVars, codecVars, pc, callVars>>
  /\ Settle({})

(* select_devices, called with the device mutex, and the unlock after it.  *)
(* reset_mixer_state forgets the paths of the previous routing.  The voice *)
(* DSP gets the controls that do not fail: none when its device cannot be  *)
(* opened, and nobody looks at the result of an ioctl.  Then it is in the  *)
(* mode of an earlier routing or in that of the controls that got through: *)
(* "unknown" stands for any of them.                                       *)
select_devices(t) ==
  /\ pc[t] = "select"
  /\ mixer' = PathsFor(devices, orientation)
  /\ \/ dsp' = DspMode(DspControls(devices), dsp)
     \/ DspControls(devices) # {} /\ dsp' = "unknown"
  /\ adevLock' = NoThread
  /\ Return(t)
  /\ UNCHANGED <<lock, deviceVars, streamVars, stale>>

out_get_latency(t) ==
  /\ pc[t] = "adev" /\ op[t] = "get_latency"
  /\ adevLock = NoThread
  /\ Return(t)
  /\ UNCHANGED <<adevLock, lock, deviceVars, streamVars, codecVars, stale>>

------------------------------------------------------------------------------
(* Playback and capture.                                                   *)

(* out_write with both mutexes: a stream in standby must first be started. *)
WriteToStart(t) ==
  /\ pc[t] = "stream" /\ op[t] = "write"
  /\ lock[on[t]] = NoThread
  /\ standby[on[t]]
  /\ lock' = [lock EXCEPT ![on[t]] = t]
  /\ Goto(t, "start")
  /\ UNCHANGED <<adevLock, deviceVars, streamVars, codecVars,
                 stale>>

(* The end of the critical section: choose the buffer, drop the device     *)
(* mutex, keep the stream's.  On SCO the buffer is left alone.             *)
ChooseBuffer(t) ==
  /\ adevLock' = NoThread
  /\ pc' = [pc EXCEPT ![t] = "io"]
  /\ UNCHANGED <<op, on, arg>>
  /\ want' = [want EXCEPT ![t] = IF ScoRouted(on[t]) THEN "keep" ELSE BufferType]
  /\ UNCHANGED <<screenOff, activeIn>>
  /\ Settle(IF ScoRouted(on[t]) THEN {} ELSE {on[t]})

WriteRunning(t) ==
  /\ pc[t] = "stream" /\ op[t] = "write"
  /\ lock[on[t]] = NoThread
  /\ ~standby[on[t]]
  /\ lock' = [lock EXCEPT ![on[t]] = t]
  /\ ChooseBuffer(t)
  /\ UNCHANGED <<devices, orientation, activeOut, streamVars, codecVars>>

(* A start gives up: the device mutex goes at once, the stream's stays     *)
(* for the way out.                                                        *)
StartFailed(t) ==
  /\ adevLock' = NoThread
  /\ Goto(t, "exit")
  /\ UNCHANGED <<lock, standby, pcm>>

(* The exit of a call whose start failed.  out_write unlocks its stream    *)
(* and sleeps then, in_read sleeps first, with its stream still locked.    *)
ExitAfterFailure(t) ==
  /\ pc[t] = "exit"
  /\ lock' = [lock EXCEPT ![on[t]] = NoThread]
  /\ Return(t)
  /\ UNCHANGED <<adevLock, deviceVars, streamVars, codecVars, stale>>

(* start_output_stream.  The capture, if any, is locked for the time of    *)
(* the rate test, which never finds a reason to stop it (RatesAssumption). *)
start_output_stream(t) ==
  LET s == on[t]
      p == IF ScoRouted(s) THEN "sco" ELSE "main"
  IN
  /\ pc[t] = "start" /\ op[t] = "write"
  /\ activeIn # NoStream => lock[activeIn] = NoThread
  /\ bufType' = IF p = "main" THEN [bufType EXCEPT ![s] = "unknown"] ELSE bufType
  /\ \/ /\ StartFailed(t)
        /\ UNCHANGED <<activeOut, activeIn, screenOff, stale>>
     \/ /\ ~PcmBusy(s, p)
        /\ pcm' = [pcm EXCEPT ![s] = p]
        /\ activeOut' = s
        /\ standby' = [standby EXCEPT ![s] = FALSE]
        /\ ChooseBuffer(t)
        /\ UNCHANGED lock
  /\ UNCHANGED <<devices, orientation, opened, codecVars>>

(* Do not change buffer size when routed to SCO.                           *)
AdoptBuffer(t) ==
  IF want[t] = "keep" THEN bufType ELSE [bufType EXCEPT ![on[t]] = want[t]]

(* out_write with the stream mutex alone: adopt the buffer type, write the *)
(* PCM (its result changes nothing here), unlock.                          *)
out_write(t) ==
  /\ pc[t] = "io" /\ op[t] = "write"
  /\ bufType' = AdoptBuffer(t)
  /\ lock' = [lock EXCEPT ![on[t]] = NoThread]
  /\ Return(t)
  /\ UNCHANGED <<adevLock, deviceVars, opened, standby, pcm, codecVars, stale>>

ReadToStart(t) ==
  /\ pc[t] = "stream" /\ op[t] = "read"
  /\ lock[on[t]] = NoThread
  /\ standby[on[t]]
  /\ lock' = [lock EXCEPT ![on[t]] = t]
  /\ Goto(t, "start")
  /\ UNCHANGED <<adevLock, deviceVars, streamVars, codecVars,
                 stale>>

ReadRunning(t) ==
  /\ pc[t] = "stream" /\ op[t] = "read"
  /\ lock[on[t]] = NoThread
  /\ ~standby[on[t]]
  /\ lock' = [lock EXCEPT ![on[t]] = t]
  /\ adevLock' = NoThread
  /\ Goto(t, "io")
  /\ UNCHANGED <<deviceVars, streamVars, codecVars, stale>>

start_input_stream(t) ==
  LET s == on[t]
      p == IF ScoRouted(s) THEN "sco" ELSE "main"
  IN
  /\ pc[t] = "start" /\ op[t] = "read"
  /\ activeOut # NoStream => lock[activeOut] = NoThread
  /\ UNCHANGED screenOff
  /\ \/ /\ StartFailed(t)
        /\ UNCHANGED <<activeIn, stale>>
     \/ /\ ~PcmBusy(s, p)
        /\ pcm' = [pcm EXCEPT ![s] = p]
        /\ activeIn' = s
        /\ standby' = [standby EXCEPT ![s] = FALSE]
        /\ adevLock' = NoThread
        /\ Goto(t, "io")
        /\ UNCHANGED lock
        /\ Settle({})
  /\ UNCHANGED <<devices, orientation, activeOut, opened, bufType, codecVars>>

(* in_read with the stream mutex alone.                                    *)
in_read(t) ==
  /\ pc[t] = "io" /\ op[t] = "read"
  /\ lock' = [lock EXCEPT ![on[t]] = NoThread]
  /\ Return(t)
  /\ UNCHANGED <<adevLock, deviceVars, streamVars, codecVars,
                 stale>>

------------------------------------------------------------------------------

Call(t) ==
  \/ CallOut(t) \/ CallIn(t)
  \/ CallCloseOutput(t) \/ CallCloseInput(t)
  \/ CallSetParameters(t)

(* What a thread inside the HAL does next.                                 *)
Step(t) ==
  \/ TakeAdevLock(t)
  \/ out_standby(t) \/ in_standby(t) \/ Free(t)
  \/ out_set_parameters(t) \/ OutLeavePcm(t)
  \/ in_set_parameters(t) \/ InLeavePcm(t)
  \/ adev_set_parameters(t) \/ select_devices(t) \/ out_get_latency(t)
  \/ WriteToStart(t) \/ WriteRunning(t) \/ start_output_stream(t) \/ out_write(t)
  \/ ReadToStart(t) \/ ReadRunning(t) \/ start_input_stream(t) \/ in_read(t)
  \/ ExitAfterFailure(t)

Next ==
  \/ \E t \in Threads : Call(t) \/ Step(t)
  \/ adev_open_output_stream \/ adev_open_input_stream
  \/ \E off \in BOOLEAN : SetScreenState(off)

Spec == Init /\ [][Next]_vars

(* A thread inside the HAL keeps running: it never waits for anything but  *)
(* a mutex, and the PCM transfers end.  The mutexes promise no order.      *)
(* (Every step of a call changes pc.)                                      *)
FairSpec == Spec /\ \A t \in Threads : WF_pc(Step(t))

------------------------------------------------------------------------------
(* Properties.                                                             *)

PcLabels == {"idle", "adev", "stream", "start", "io", "exit", "select", "free"}
Ops == OutCalls \cup InCalls
         \cup {"close_out", "close_in", "adev_set_parameters", "none"}

(* Every variable keeps its type.                                          *)
TypeOK ==
  /\ adevLock \in Threads \cup {NoThread}
  /\ lock \in [Streams -> Threads \cup {NoThread}]
  /\ devices \subseteq OUT_ALL \cup IN_ALL
  /\ orientation \in Orientations
  /\ screenOff \in BOOLEAN
  /\ activeOut \in Outs \cup {NoStream}
  /\ activeIn \in Ins \cup {NoStream}
  /\ opened \subseteq Streams
  /\ standby \in [Streams -> BOOLEAN]
  /\ pcm \in [Streams -> {"none", "main", "sco"}]
  /\ bufType \in [Streams -> {"unknown", "short", "long"}]
  /\ mixer \subseteq {"speaker", "headphone", "main-mic-left", "main-mic-top"}
  /\ dsp \in {"unknown", "playback", "recording"}
  /\ pc \in [Threads -> PcLabels]
  /\ op \in [Threads -> Ops]
  /\ on \in [Threads -> Streams \cup {NoStream}]
  /\ arg \in [Threads -> SUBSET (OUT_ALL \cup IN_ALL)]
  /\ want \in [Threads -> {"keep", "short", "long"}]
  /\ stale \subseteq Outs

(* A transfer runs on an open PCM: nobody puts a stream in standby, frees  *)
(* it or moves it to the other PCM under a thread that writes or reads it  *)
(* with the stream mutex alone.                                            *)
IoPcmOpen == \A t \in Threads :
  pc[t] = "io" => on[t] \in opened /\ ~standby[on[t]] /\ pcm[on[t]] # "none"

(* The pointers the other direction's start follows are never dangling:    *)
(* active_out and active_in name allocated streams whose PCM is open.      *)
ActiveIsRunning ==
  /\ activeOut # NoStream => activeOut \in opened /\ ~standby[activeOut]
  /\ activeIn # NoStream => activeIn \in opened /\ ~standby[activeIn]

(* A stream that runs is the one the device believes active, so a stream   *)
(* of the other direction that starts can find it.                         *)
RunningIsActive ==
  /\ \A s \in Outs : ~standby[s] => activeOut = s
  /\ \A s \in Ins : ~standby[s] => activeIn = s

(* A running stream is on the PCM its direction is routed to: the SCO PCM  *)
(* when SCO is routed and the main PCM when not.                           *)
PcmMatchesRoute == \A s \in Streams :
  ~standby[s] => (pcm[s] = "sco" <=> ScoRouted(s))

Device == INSTANCE AudioDevice WITH
  Links <- OUT_ALL_SCO \cup IN_ALL_SCO,
  Main <- "main", Sco <- "sco", Silent <- "none",
  link <- [s \in Streams |-> LinkOf(s)],
  playing <- [s \in Streams |-> IF standby[s] THEN "none" ELSE pcm[s]],
  due <- PathsFor(devices, orientation), shown <- mixer

(* However the calls of the threads interleave, together they are the      *)
(* device without threads: a stream starts on the routed PCM and only when *)
(* the codec shows the routing, changes its PCM only through standby, and  *)
(* is never interrupted by a routing that leaves its Bluetooth as it is.   *)
ActsAsDevice == Device!Spec

(* "only have the main PCM or the BC SCO PCM open at the same time": two   *)
(* running streams of a direction would have one of each.                  *)
OnePcmPerDirection == \A r, s \in Streams :
  /\ ~standby[r] /\ ~standby[s]
  /\ r \in Outs <=> s \in Outs
  => pcm[r] = pcm[s]

(* Outside select_devices the codec shows the routing and the orientation  *)
(* of now, whatever sequence of them came before.                          *)
MixerMatchesRoute ==
  (\A t \in Threads : pc[t] # "select") => mixer = PathsFor(devices, orientation)

(* The DSP records when the microphone is routed, also with the speaker,   *)
(* and plays when only an output is, unless a control of the very last     *)
(* routing failed: whatever failed before it has been made good.           *)
DspMatchesRoute ==
  (\A t \in Threads : pc[t] # "select") /\ dsp # "unknown" =>
    /\ devices \cap BUILTIN_MIC # {} => dsp = "recording"
    /\ devices \cap BUILTIN_MIC = {} /\ devices \cap (SPEAKER \cup WIRED) # {}
         => dsp = "playback"

(* On the main PCM, when no write is going on and neither the screen nor   *)
(* the capture changed since the last one, the buffer the write path uses  *)
(* is the one the latency is computed from.                                *)
LatencyMatchesBuffer == \A s \in Outs \ stale :
  ~standby[s] /\ pcm[s] = "main" /\ lock[s] = NoThread
    => bufType[s] = LatencyType

(* A thread waits for the holder of a mutex: of the device's, of its       *)
(* stream's or, in a start, of that of the other direction's stream.       *)
WaitsFor(t, u) ==
  \/ pc[t] = "adev" /\ adevLock = u
  \/ pc[t] = "stream" /\ lock[on[t]] = u
  \/ pc[t] = "start" /\ Peer(on[t]) # NoStream /\ lock[Peer(on[t])] = u

(* How many waits can follow one another from each place of a call.        *)
Waits == [l \in PcLabels |-> IF l = "adev" THEN 2 ELSE IF l \in {"stream", "start"} THEN 1 ELSE 0]

(* No threads ever wait in a circle, though a start takes three mutexes    *)
(* and the two directions take the stream mutexes in opposite orders: each *)
(* waits for one that is nearer to the end of its call.                    *)
NoCircularWait == \A t, u \in Threads :
  WaitsFor(t, u) => Waits[pc[u]] < Waits[pc[t]]

(* While a thread waits for a stream mutex with the device mutex in hand,  *)
(* no other one takes a stream mutex: a thread that writes or reads over   *)
(* and over lets go of its stream once, and then waits behind it.          *)
NobodyOvertakes ==
  [][\A t, u \in Threads, s \in Streams :
       pc[t] \in {"stream", "start"} /\ pc'[t] = pc[t] /\ lock'[s] = u => lock[s] = u]_vars

(* A thread that waits for a stream mutex with the device mutex in hand    *)
(* gets it, although a higher-priority thread writes or reads all the time *)
(* (the reason the comment in out_write gives for its order of locking).   *)
SetterIsServed == \A t \in Threads :
  []<>(pc[t] \notin {"stream", "start"})

==============================================================================
