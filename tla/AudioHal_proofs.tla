--------------------------- MODULE AudioHal_proofs ---------------------------
(***************************************************************************)
(* Theorems about AudioHal, for every number of threads and streams, every *)
(* set of masks that satisfies its assumptions and every set of routings.  *)
(***************************************************************************)
EXTENDS AudioHal, TLAPS

USE StreamsAssumption, MasksAssumption
USE DEF deviceVars, streamVars, codecVars, callVars, Streams

------------------------------------------------------------------------------
(* Types.  A call works on a stream of its own direction, which the types  *)
(* of active_out and active_in depend on.                                  *)

CallTypes ==
  /\ pc \in [Threads -> PcLabels]
  /\ op \in [Threads -> Ops]
  /\ on \in [Threads -> Streams \cup {NoStream}]
  /\ arg \in [Threads -> SUBSET (OUT_ALL \cup IN_ALL)]
  /\ want \in [Threads -> {"keep", "short", "long"}]

StreamTypes ==
  /\ opened \subseteq Streams
  /\ standby \in [Streams -> BOOLEAN]
  /\ pcm \in [Streams -> {"none", "main", "sco"}]

OpOn == \A t \in Threads :
  /\ op[t] \in OutCalls \cup {"close_out"} => on[t] \in Outs
  /\ op[t] \in InCalls \cup {"close_in"} => on[t] \in Ins
  /\ op[t] = "out_set_parameters" => arg[t] \subseteq OUT_ALL
  /\ op[t] = "in_set_parameters" => arg[t] \subseteq IN_ALL
  /\ pc[t] = "idle" => arg[t] = {}

Typed == TypeOK /\ OpOn

LEMMA Parts == TypeOK => CallTypes /\ StreamTypes
  BY DEF TypeOK, CallTypes, StreamTypes

(* What a return and a move of the pc do to the types of the calls.        *)
LEMMA ReturnTyped ==
  ASSUME CallTypes, OpOn, NEW t \in Threads, Return(t)
  PROVE  CallTypes' /\ OpOn'
  BY DEF CallTypes, OpOn, Return, PcLabels, Ops, OutCalls, InCalls

LEMMA GotoTyped ==
  ASSUME CallTypes, OpOn, NEW t \in Threads, NEW l \in PcLabels \ {"idle"}, Goto(t, l)
  PROVE  CallTypes' /\ OpOn'
  BY DEF CallTypes, OpOn, Goto

(* A call enters with a stream of its own direction.                       *)
LEMMA EnterTyped ==
  ASSUME Typed, NEW t \in Threads, NEW o \in Ops \ {"none"}, NEW s, Enter(t, o, s),
         o \in OutCalls \cup {"close_out"} => s \in Outs,
         o \in InCalls \cup {"close_in"} => s \in Ins,
         o = "adev_set_parameters" => s = NoStream
  PROVE  Typed'
<1>1. s \in Streams \cup {NoStream}
  BY DEF Ops
<1>2. CallTypes'
  BY <1>1 DEF Typed, TypeOK, CallTypes, Enter, PcLabels
<1>3. OpOn'
  BY DEF Typed, TypeOK, OpOn, Enter
<1> QED
  BY <1>2, <1>3 DEF Typed, TypeOK, CallTypes, Enter

(* The standby of one direction keeps the types and the other pointer.     *)
LEMMA OutStandbyTyped ==
  ASSUME StreamTypes, activeOut \in Outs \cup {NoStream}, NEW s \in Streams, do_out_standby(s)
  PROVE  /\ standby' \in [Streams -> BOOLEAN]
         /\ pcm' \in [Streams -> {"none", "main", "sco"}]
         /\ activeOut' \in Outs \cup {NoStream}
<1>1. CASE standby[s]
  BY <1>1 DEF StreamTypes, do_out_standby
<1>2. CASE ~standby[s]
  <2>1. standby' \in [Streams -> BOOLEAN]
    <3>1. standby' = [standby EXCEPT ![s] = TRUE]
      BY <1>2 DEF do_out_standby
    <3> QED
      BY <3>1, Zenon DEF StreamTypes
  <2>2. /\ pcm' \in [Streams -> {"none", "main", "sco"}]
        /\ activeOut' \in Outs \cup {NoStream}
    <3>1. pcm' = [pcm EXCEPT ![s] = "none"] /\ activeOut' = NoStream
      BY <1>2 DEF do_out_standby
    <3> QED
      BY <3>1 DEF StreamTypes
  <2> QED
    BY <2>1, <2>2
<1> QED
  BY <1>1, <1>2

LEMMA InStandbyTyped ==
  ASSUME StreamTypes, activeIn \in Ins \cup {NoStream}, NEW s \in Streams, do_in_standby(s)
  PROVE  /\ standby' \in [Streams -> BOOLEAN]
         /\ pcm' \in [Streams -> {"none", "main", "sco"}]
         /\ activeIn' \in Ins \cup {NoStream}
<1>1. CASE standby[s]
  BY <1>1 DEF StreamTypes, do_in_standby
<1>2. CASE ~standby[s]
  <2>1. standby' \in [Streams -> BOOLEAN]
    <3>1. standby' = [standby EXCEPT ![s] = TRUE]
      BY <1>2 DEF do_in_standby
    <3> QED
      BY <3>1, Zenon DEF StreamTypes
  <2>2. /\ pcm' \in [Streams -> {"none", "main", "sco"}]
        /\ activeIn' \in Ins \cup {NoStream}
    <3>1. pcm' = [pcm EXCEPT ![s] = "none"] /\ activeIn' = NoStream
      BY <1>2 DEF do_in_standby
    <3> QED
      BY <3>1 DEF StreamTypes
  <2> QED
    BY <2>1, <2>2
<1> QED
  BY <1>1, <1>2

LEMMA SettleTyped ==
  ASSUME stale \subseteq Outs, NEW S, Settle(S)
  PROVE  stale' \subseteq Outs
  BY DEF Settle

LEMMA TypedInit == Init => Typed
<1> SUFFICES ASSUME Init PROVE Typed
  OBVIOUS
<1>1. CallTypes
  BY DEF Init, CallTypes, PcLabels, Ops
<1>2. StreamTypes
  BY DEF Init, StreamTypes
<1>3. OpOn
  BY DEF Init, OpOn, OutCalls, InCalls
<1>4. /\ lock \in [Streams -> Threads \cup {NoThread}]
      /\ bufType \in [Streams -> {"unknown", "short", "long"}]
  BY DEF Init
<1>5. /\ orientation \in Orientations /\ devices = {} /\ mixer = {} /\ stale = {}
      /\ adevLock = NoThread /\ activeOut = NoStream /\ activeIn = NoStream
      /\ screenOff = FALSE /\ dsp = "unknown"
  BY DEF Init
<1> QED
  BY <1>1, <1>2, <1>3, <1>4, <1>5 DEF Typed, TypeOK, CallTypes, StreamTypes

LEMMA TypedStep == Typed /\ [Next]_vars => Typed'
<1> SUFFICES ASSUME Typed, [Next]_vars PROVE Typed'
  OBVIOUS
<1>0. CallTypes /\ StreamTypes /\ OpOn /\ TypeOK
  BY Parts DEF Typed
<1>1. ASSUME NEW t \in Threads, Call(t) PROVE Typed'
  <2>1. CASE CallOut(t)
    BY <2>1, EnterTyped DEF CallOut, OutCalls, InCalls, Ops
  <2>2. CASE CallIn(t)
    BY <2>2, EnterTyped DEF CallIn, OutCalls, InCalls, Ops
  <2>3. CASE CallCloseOutput(t)
    BY <2>3, EnterTyped DEF CallCloseOutput, OutCalls, InCalls, Ops
  <2>4. CASE CallCloseInput(t)
    BY <2>4, EnterTyped DEF CallCloseInput, OutCalls, InCalls, Ops
  <2>5. CASE CallSetParameters(t)
    BY <2>5, EnterTyped DEF CallSetParameters, OutCalls, InCalls, Ops
  <2> QED
    BY <1>1, <2>1, <2>2, <2>3, <2>4, <2>5 DEF Call
<1>2. ASSUME NEW s \in Streams, Allocate(s) PROVE Typed'
  BY <1>2 DEF Allocate, Typed, TypeOK, OpOn
<1>3. ASSUME NEW off \in BOOLEAN, SetScreenState(off) PROVE Typed'
  <2>1. stale' \subseteq Outs
    BY <1>3, SettleTyped DEF SetScreenState, Typed, TypeOK
  <2> QED
    BY <1>3, <2>1 DEF SetScreenState, Typed, TypeOK, OpOn
<1>4. ASSUME NEW t \in Threads, Step(t) PROVE CallTypes' /\ OpOn'
  <2> USE DEF PcLabels
  <2>1. CASE TakeAdevLock(t)
    BY <1>0, <2>1, GotoTyped DEF TakeAdevLock
  <2>2. CASE out_standby(t)
    BY <1>0, <2>2, GotoTyped, ReturnTyped DEF out_standby
  <2>3. CASE in_standby(t)
    BY <1>0, <2>3, GotoTyped, ReturnTyped DEF in_standby
  <2>4. CASE Free(t) \/ out_get_latency(t) \/ select_devices(t) \/ out_write(t) \/ in_read(t)
             \/ ExitAfterFailure(t)
    BY <1>0, <2>4, ReturnTyped DEF Free, out_get_latency, select_devices, out_write, in_read, ExitAfterFailure
  <2>5. CASE out_set_parameters(t)
    <3>1. CASE pc' = [pc EXCEPT ![t] = "stream"] /\ UNCHANGED <<op, on, want>>
               /\ \E val \in OutRoutes : arg' = [arg EXCEPT ![t] = val]
      BY <1>0, <2>5, <3>1 DEF out_set_parameters, CallTypes, OpOn, OutCalls, InCalls
    <3>2. CASE Return(t) \/ Goto(t, "select")
      BY <1>0, <3>2, GotoTyped, ReturnTyped
    <3> QED
      BY <2>5, <3>1, <3>2 DEF out_set_parameters
  <2>6. CASE in_set_parameters(t)
    <3>1. CASE pc' = [pc EXCEPT ![t] = "stream"] /\ UNCHANGED <<op, on, want>>
               /\ \E val \in InRoutes : arg' = [arg EXCEPT ![t] = val]
      BY <1>0, <2>6, <3>1 DEF in_set_parameters, CallTypes, OpOn, OutCalls, InCalls
    <3>2. CASE Return(t) \/ Goto(t, "select")
      BY <1>0, <3>2, GotoTyped, ReturnTyped
    <3> QED
      BY <2>6, <3>1, <3>2 DEF in_set_parameters
  <2>7. CASE OutLeavePcm(t) \/ InLeavePcm(t)
    BY <1>0, <2>7, GotoTyped DEF OutLeavePcm, InLeavePcm
  <2>8. CASE adev_set_parameters(t)
    BY <1>0, <2>8, GotoTyped, ReturnTyped DEF adev_set_parameters
  <2>9. CASE WriteToStart(t) \/ ReadToStart(t) \/ ReadRunning(t)
    BY <1>0, <2>9, GotoTyped DEF WriteToStart, ReadToStart, ReadRunning
  <2>10. CASE ChooseBuffer(t)
    BY <1>0, <2>10 DEF ChooseBuffer, BufferType, CallTypes, OpOn
  <2>11. CASE WriteRunning(t)
    BY <2>10, <2>11 DEF WriteRunning
  <2>12. CASE start_output_stream(t)
    <3>1. Goto(t, "exit") \/ ChooseBuffer(t)
      BY <2>12 DEF start_output_stream, StartFailed
    <3> QED
      BY <1>0, <3>1, <2>10, GotoTyped
  <2>13. CASE start_input_stream(t)
    <3>1. Goto(t, "exit") \/ Goto(t, "io")
      BY <2>13 DEF start_input_stream, StartFailed
    <3> QED
      BY <1>0, <3>1, GotoTyped
  <2> QED
    BY <1>4, <2>1, <2>2, <2>3, <2>4, <2>5, <2>6, <2>7, <2>8, <2>9, <2>11, <2>12, <2>13
       DEF Step
<1>5. ASSUME NEW t \in Threads, Step(t) PROVE on[t] \in Streams \/ op[t] = "adev_set_parameters" \/ op[t] = "none"
  BY <1>0 DEF CallTypes, OpOn, Ops, OutCalls, InCalls
<1>6. ASSUME NEW t \in Threads, Step(t) PROVE TypeOK'
  <2> DEFINE Rest ==
        /\ adevLock \in Threads \cup {NoThread}
        /\ lock \in [Streams -> Threads \cup {NoThread}]
        /\ devices \subseteq OUT_ALL \cup IN_ALL
        /\ orientation \in Orientations
        /\ screenOff \in BOOLEAN
        /\ activeOut \in Outs \cup {NoStream}
        /\ activeIn \in Ins \cup {NoStream}
        /\ bufType \in [Streams -> {"unknown", "short", "long"}]
        /\ mixer \subseteq {"speaker", "headphone", "main-mic-left", "main-mic-top"}
        /\ dsp \in {"unknown", "playback", "recording"}
        /\ stale \subseteq Outs
  <2>0. Rest
    BY <1>0 DEF TypeOK
  <2> HIDE DEF Rest
  <2> SUFFICES StreamTypes' /\ Rest'
    BY <1>4, <1>6 DEF TypeOK, Rest, StreamTypes, CallTypes
  <2>1. CASE TakeAdevLock(t) \/ out_get_latency(t)
    <3>1. adevLock' \in Threads \cup {NoThread}
      BY <2>0, <2>1 DEF TakeAdevLock, out_get_latency, Rest
    <3>2. UNCHANGED <<lock, deviceVars, streamVars, codecVars, stale>>
      BY <2>1 DEF TakeAdevLock, out_get_latency
    <3> QED
      BY <1>0, <2>0, <3>1, <3>2 DEF Rest, StreamTypes
  <2>14. CASE select_devices(t)
    <3>1. mixer' \subseteq {"speaker", "headphone", "main-mic-left", "main-mic-top"}
      BY <2>14 DEF select_devices, PathsFor
    <3>2. dsp' \in {"unknown", "playback", "recording"}
      BY <2>0, <2>14 DEF select_devices, DspMode, Rest
    <3>3. StreamTypes'
      BY <1>0, <2>14 DEF select_devices, StreamTypes
    <3> QED
      BY <2>0, <2>14, <3>1, <3>2, <3>3 DEF select_devices, Rest
  <2>2. CASE out_standby(t)
    BY <1>0, <2>0, <2>2, OutStandbyTyped DEF out_standby, OpOn, OutCalls, Rest, StreamTypes
  <2>3. CASE in_standby(t)
    BY <1>0, <2>0, <2>3, InStandbyTyped, SettleTyped DEF in_standby, OpOn, InCalls, Rest, StreamTypes
  <2>4. CASE Free(t)
    BY <1>0, <2>0, <2>4 DEF Free, Rest, StreamTypes
  <2>5. CASE out_set_parameters(t) \/ in_set_parameters(t)
    <3>1. adevLock' \in Threads \cup {NoThread} /\ devices' \subseteq OUT_ALL \cup IN_ALL
      BY <2>0, <2>5 DEF out_set_parameters, in_set_parameters, Reroute, Rest
    <3>2. UNCHANGED <<lock, orientation, screenOff, activeOut, activeIn, streamVars, codecVars, stale>>
      BY <2>5 DEF out_set_parameters, in_set_parameters
    <3> QED
      BY <1>0, <2>0, <3>1, <3>2 DEF Rest, StreamTypes
  <2>6. CASE OutLeavePcm(t)
    BY <1>0, <2>0, <2>6, OutStandbyTyped DEF OutLeavePcm, Reroute, OpOn, OutCalls, Rest, StreamTypes
  <2>7. CASE InLeavePcm(t)
    BY <1>0, <2>0, <2>7, InStandbyTyped, SettleTyped DEF InLeavePcm, Reroute, OpOn, InCalls, Rest, StreamTypes
  <2>8. CASE adev_set_parameters(t)
    BY <1>0, <2>0, <2>8 DEF adev_set_parameters, Rest, StreamTypes
  <2>9. CASE WriteToStart(t)
    BY <1>0, <2>0, <2>9 DEF WriteToStart, Rest, StreamTypes
  <2>17. CASE ReadToStart(t)
    BY <1>0, <2>0, <2>17 DEF ReadToStart, Rest, StreamTypes
  <2>15. CASE ReadRunning(t)
    BY <1>0, <2>0, <2>15 DEF ReadRunning, Rest, StreamTypes
  <2>16. CASE in_read(t) \/ ExitAfterFailure(t)
    BY <1>0, <2>0, <2>16 DEF in_read, ExitAfterFailure, Rest, StreamTypes
  <2>10. CASE WriteRunning(t)
    BY <1>0, <2>0, <2>10, SettleTyped DEF WriteRunning, ChooseBuffer, Rest, StreamTypes
  <2>11. CASE start_output_stream(t)
    <3>2. on[t] \in Outs
      BY <1>0, <2>11 DEF start_output_stream, OpOn, OutCalls
    <3>3. stale' \subseteq Outs
      BY <2>0, <2>11, SettleTyped DEF start_output_stream, ChooseBuffer, Rest
    <3>4. StreamTypes'
      BY <1>0, <2>11, <3>2 DEF start_output_stream, StartFailed, ChooseBuffer, StreamTypes
    <3>5. lock' \in [Streams -> Threads \cup {NoThread}] /\ adevLock' \in Threads \cup {NoThread}
      BY <2>0, <2>11, <3>2 DEF start_output_stream, StartFailed, ChooseBuffer, Rest
    <3>6. /\ activeOut' \in Outs \cup {NoStream}
          /\ activeIn' \in Ins \cup {NoStream}
          /\ bufType' \in [Streams -> {"unknown", "short", "long"}]
      BY <2>0, <2>11, <3>2 DEF start_output_stream, ChooseBuffer, Rest
    <3> QED
      BY <2>0, <2>11, <3>3, <3>4, <3>5, <3>6 DEF start_output_stream, ChooseBuffer, Rest
  <2>12. CASE out_write(t)
    BY <1>0, <2>0, <2>12 DEF out_write, AdoptBuffer, CallTypes, Rest, StreamTypes
  <2>13. CASE start_input_stream(t)
    <3>2. on[t] \in Ins
      BY <1>0, <2>13 DEF start_input_stream, OpOn, InCalls
    <3>3. stale' \subseteq Outs
      BY <2>0, <2>13, SettleTyped DEF start_input_stream, Rest
    <3>4. StreamTypes'
      BY <1>0, <2>13, <3>2 DEF start_input_stream, StartFailed, StreamTypes
    <3>5. lock' \in [Streams -> Threads \cup {NoThread}] /\ adevLock' \in Threads \cup {NoThread}
      BY <2>0, <2>13, <3>2 DEF start_input_stream, StartFailed, Rest
    <3>6. /\ activeOut' \in Outs \cup {NoStream}
          /\ activeIn' \in Ins \cup {NoStream}
          /\ bufType' \in [Streams -> {"unknown", "short", "long"}]
      BY <2>0, <2>13, <3>2 DEF start_input_stream, Rest
    <3> QED
      BY <2>0, <2>13, <3>3, <3>4, <3>5, <3>6 DEF start_input_stream, Rest
  <2> QED
    BY <1>6, <2>1, <2>2, <2>3, <2>4, <2>5, <2>6, <2>7, <2>8, <2>9, <2>10, <2>11, <2>12, <2>13,
       <2>14, <2>15, <2>16, <2>17 DEF Step
<1>7. CASE UNCHANGED vars
  BY <1>0, <1>7 DEF vars, Typed, TypeOK, OpOn
<1> QED
  BY <1>1, <1>2, <1>3, <1>4, <1>6, <1>7
     DEF Next, Typed, adev_open_output_stream, adev_open_input_stream

(* Every variable keeps its type, whatever the threads do.                 *)
THEOREM TypeCorrect == Spec => []TypeOK
<1>1. Typed => TypeOK
  BY DEF Typed
<1> QED
  BY <1>1, TypedInit, TypedStep, PTL DEF Spec

------------------------------------------------------------------------------
(* The mutexes.  The pc of a thread tells what it holds.                   *)

Holding ==
  /\ \A t \in Threads :
       adevLock = t <=> pc[t] \in {"stream", "start", "select"}
  /\ \A t \in Threads, s \in Streams :
       lock[s] = t <=> pc[t] \in {"start", "io", "exit"} /\ on[t] = s
  /\ \A t \in Threads :
       pc[t] \in {"start", "io", "exit"} => op[t] \in {"write", "read"}

LockTypes == lock \in [Streams -> Threads \cup {NoThread}]

(* Every step of the HAL keeps the pc and the holders of the mutexes in   *)
(* agreement.                                                              *)
LEMMA HoldingStep == Typed /\ Holding /\ [Next]_vars => Holding'
<1> SUFFICES ASSUME Typed, Holding, [Next]_vars PROVE Holding'
  OBVIOUS
<1>0. CallTypes /\ LockTypes /\ OpOn
  BY Parts DEF Typed, TypeOK, LockTypes
<1> USE DEF Holding, CallTypes, LockTypes
<1>1. ASSUME NEW t \in Threads, NEW o, NEW s, Enter(t, o, s) PROVE Holding'
  BY <1>0, <1>1 DEF Enter
<1>2. ASSUME NEW t \in Threads, Call(t) PROVE Holding'
  BY <1>1, <1>2 DEF Call, CallOut, CallIn, CallCloseOutput, CallCloseInput, CallSetParameters
<1>3. CASE adev_open_output_stream \/ adev_open_input_stream \/ \E off \in BOOLEAN : SetScreenState(off)
  BY <1>0, <1>3 DEF adev_open_output_stream, adev_open_input_stream, Allocate, SetScreenState
<1>4. ASSUME NEW t \in Threads, TakeAdevLock(t) PROVE Holding'
  BY <1>0, <1>4 DEF TakeAdevLock, Goto
<1>5. ASSUME NEW t \in Threads, Free(t) PROVE Holding'
  BY <1>0, <1>5 DEF Free, Return
<1>6. ASSUME NEW t \in Threads, out_get_latency(t) PROVE Holding'
  BY <1>0, <1>6 DEF out_get_latency, Return
<1>7. ASSUME NEW t \in Threads, out_standby(t) \/ in_standby(t) PROVE Holding'
  <2>1. Return(t) \/ Goto(t, "free")
    BY <1>7 DEF out_standby, in_standby
  <2> QED
    BY <1>0, <1>7, <2>1 DEF out_standby, in_standby, Goto, Return
<1>8. ASSUME NEW t \in Threads, out_set_parameters(t) \/ in_set_parameters(t) PROVE Holding'
  <2>1. CASE Return(t) /\ UNCHANGED <<adevLock, lock>>
    BY <1>0, <1>8, <2>1 DEF out_set_parameters, in_set_parameters, Return
  <2>2. CASE /\ pc' = [pc EXCEPT ![t] = "stream"] \/ pc' = [pc EXCEPT ![t] = "select"]
             /\ UNCHANGED <<op, on, lock>> /\ adevLock = NoThread /\ adevLock' = t
    BY <1>0, <1>8, <2>2 DEF out_set_parameters, in_set_parameters
  <2> QED
    BY <1>8, <2>1, <2>2 DEF out_set_parameters, in_set_parameters, Goto
<1>9. ASSUME NEW t \in Threads, OutLeavePcm(t) \/ InLeavePcm(t) PROVE Holding'
  BY <1>0, <1>9 DEF OutLeavePcm, InLeavePcm, Goto
<1>10. ASSUME NEW t \in Threads, adev_set_parameters(t) PROVE Holding'
  BY <1>0, <1>10 DEF adev_set_parameters, Goto, Return
<1>11. ASSUME NEW t \in Threads, select_devices(t) PROVE Holding'
  BY <1>0, <1>11 DEF select_devices, Return
<1>12. ASSUME NEW t \in Threads, WriteToStart(t) \/ ReadToStart(t) PROVE Holding'
  BY <1>0, <1>12 DEF WriteToStart, ReadToStart, Goto, OpOn, OutCalls, InCalls
<1>13. ASSUME NEW t \in Threads, WriteRunning(t) \/ ReadRunning(t) PROVE Holding'
  BY <1>0, <1>13 DEF WriteRunning, ReadRunning, ChooseBuffer, Goto, OpOn, OutCalls, InCalls
<1>14. ASSUME NEW t \in Threads, start_output_stream(t) \/ start_input_stream(t) PROVE Holding'
  <2>1. on[t] \in Streams /\ pc[t] = "start"
    BY <1>0, <1>14 DEF start_output_stream, start_input_stream, OpOn, OutCalls, InCalls
  <2>2. CASE StartFailed(t)
    BY <1>0, <2>1, <2>2 DEF StartFailed, Goto
  <2>3. CASE /\ adevLock' = NoThread /\ pc' = [pc EXCEPT ![t] = "io"]
             /\ UNCHANGED <<op, on, lock>>
    BY <1>0, <2>1, <2>3
  <2> QED
    BY <1>14, <2>2, <2>3 DEF start_output_stream, start_input_stream, ChooseBuffer, Goto
<1>15. ASSUME NEW t \in Threads, out_write(t) \/ in_read(t) \/ ExitAfterFailure(t) PROVE Holding'
  BY <1>0, <1>15 DEF out_write, in_read, ExitAfterFailure, Return, OpOn, OutCalls, InCalls
<1>16. CASE UNCHANGED vars
  BY <1>16 DEF vars
<1> QED
  BY <1>2, <1>3, <1>4, <1>5, <1>6, <1>7, <1>8, <1>9, <1>10, <1>11, <1>12, <1>13, <1>14, <1>15, <1>16
     DEF Next, Step

------------------------------------------------------------------------------
(* Who may use a stream.  A call works on an allocated stream, a close has *)
(* its stream for itself.                                                  *)

Calls == \A t \in Threads :
  /\ pc[t] # "idle" => op[t] # "none"
  /\ pc[t] # "idle" /\ on[t] # NoStream => on[t] \in opened
  /\ pc[t] = "free" => op[t] \in {"close_out", "close_in"}
  /\ pc[t] # "idle" /\ op[t] \in {"close_out", "close_in"} =>
       \A u \in Threads \ {t} : pc[u] # "idle" => on[u] # on[t]

LEMMA CallsStep == Typed /\ Holding /\ Calls /\ [Next]_vars => Calls'
<1> SUFFICES ASSUME Typed, Holding, Calls, [Next]_vars PROVE Calls'
  OBVIOUS
<1>0. CallTypes /\ StreamTypes /\ OpOn
  BY Parts DEF Typed
<1> USE DEF Calls, CallTypes
<1>1. ASSUME NEW t \in Threads, Return(t), UNCHANGED opened PROVE Calls'
  BY <1>0, <1>1 DEF Return
<1>2. ASSUME NEW t \in Threads, NEW l, Goto(t, l), UNCHANGED opened, pc[t] # "idle", l # "free"
      PROVE  Calls'
  BY <1>0, <1>2 DEF Goto
<1>3. ASSUME NEW t \in Threads, Call(t) PROVE Calls'
  <2>1. ASSUME NEW o \in OutCalls \cup InCalls, NEW s \in opened, ~Closing(s), Enter(t, o, s)
        PROVE  Calls'
    BY <1>0, <2>1 DEF Enter, Closing, OutCalls, InCalls
  <2>2. ASSUME NEW o \in {"close_out", "close_in"}, NEW s \in opened, ~InUse(s), Enter(t, o, s)
        PROVE  Calls'
    BY <1>0, <2>2 DEF Enter, InUse
  <2>3. CASE CallSetParameters(t)
    BY <1>0, <2>3 DEF CallSetParameters, Enter, OpOn
  <2> QED
    BY <1>3, <2>1, <2>2, <2>3 DEF Call, CallOut, CallIn, CallCloseOutput, CallCloseInput
<1>4. CASE adev_open_output_stream \/ adev_open_input_stream \/ \E off \in BOOLEAN : SetScreenState(off)
  BY <1>0, <1>4 DEF adev_open_output_stream, adev_open_input_stream, Allocate, SetScreenState
<1>5. ASSUME NEW t \in Threads, Free(t) PROVE Calls'
  <2>1. on[t] \in Streams
    BY <1>0, <1>5 DEF Free, OpOn
  <2> QED
    BY <1>0, <1>5, <2>1 DEF Free, Return
<1>6. ASSUME NEW t \in Threads, out_standby(t) \/ in_standby(t) PROVE Calls'
  <2>1. CASE Goto(t, "free") /\ op[t] \in {"close_out", "close_in"}
    BY <1>0, <1>6, <2>1 DEF out_standby, in_standby, Goto
  <2> QED
    BY <1>1, <1>6, <2>1 DEF out_standby, in_standby
<1>7. ASSUME NEW t \in Threads, out_set_parameters(t) \/ in_set_parameters(t) PROVE Calls'
  <2>1. CASE pc' = [pc EXCEPT ![t] = "stream"] /\ UNCHANGED <<op, on, opened>>
    BY <1>0, <1>7, <2>1 DEF out_set_parameters, in_set_parameters
  <2> QED
    BY <1>1, <1>2, <1>7, <2>1 DEF out_set_parameters, in_set_parameters
<1>8. ASSUME NEW t \in Threads, ChooseBuffer(t), UNCHANGED opened, pc[t] # "idle" PROVE Calls'
  BY <1>0, <1>8 DEF ChooseBuffer
<1>9. ASSUME NEW t \in Threads, start_output_stream(t) \/ start_input_stream(t) PROVE Calls'
  BY <1>1, <1>2, <1>8, <1>9 DEF start_output_stream, start_input_stream, StartFailed
<1>10. ASSUME NEW t \in Threads, TakeAdevLock(t) \/ OutLeavePcm(t) \/ InLeavePcm(t) \/ adev_set_parameters(t)
       PROVE  Calls'
  BY <1>1, <1>2, <1>10 DEF TakeAdevLock, OutLeavePcm, InLeavePcm, adev_set_parameters
<1>11. ASSUME NEW t \in Threads, select_devices(t) \/ out_get_latency(t) \/ out_write(t) \/ in_read(t)
              \/ ExitAfterFailure(t)
       PROVE  Calls'
  BY <1>1, <1>11 DEF select_devices, out_get_latency, out_write, in_read, ExitAfterFailure
<1>12. ASSUME NEW t \in Threads, WriteToStart(t) \/ WriteRunning(t) \/ ReadToStart(t) \/ ReadRunning(t)
       PROVE  Calls'
  BY <1>2, <1>8, <1>12 DEF WriteToStart, WriteRunning, ReadToStart, ReadRunning
<1>13. CASE UNCHANGED vars
  BY <1>13 DEF vars
<1> QED
  BY <1>3, <1>4, <1>5, <1>6, <1>7, <1>9, <1>10, <1>11, <1>12, <1>13 DEF Next, Step

------------------------------------------------------------------------------
(* The state of a stream.  A running stream has its PCM and is allocated;  *)
(* a thread that starts or frees a stream has it in standby, a thread that *)
(* transfers has it running; the device points to running streams.         *)

Running ==
  /\ \A s \in Streams : standby[s] <=> pcm[s] = "none"
  /\ \A s \in Streams \ opened : standby[s]
  /\ \A t \in Threads :
       /\ pc[t] \in {"start", "free", "exit"} => standby[on[t]]
       /\ pc[t] = "io" => ~standby[on[t]]
  /\ activeOut # NoStream => ~standby[activeOut]
  /\ activeIn # NoStream => ~standby[activeIn]

Inv == Typed /\ Holding /\ Calls /\ Running

LEMMA RunningStep == Inv /\ [Next]_vars => Running'
<1> SUFFICES ASSUME Inv, [Next]_vars PROVE Running'
  OBVIOUS
<1>0. CallTypes /\ StreamTypes /\ LockTypes /\ OpOn /\ Holding /\ Calls /\ Running
      /\ activeOut \in Outs \cup {NoStream} /\ activeIn \in Ins \cup {NoStream}
  BY Parts DEF Inv, Typed, TypeOK, LockTypes
<1> USE DEF CallTypes, StreamTypes, LockTypes
<1>1. ASSUME NEW t \in Threads, UNCHANGED <<opened, standby, pcm, activeOut, activeIn>>,
             Return(t) \/ \E l \in PcLabels \ {"start", "free", "io", "exit"} : Goto(t, l)
      PROVE  Running'
  BY <1>0, <1>1 DEF Running, Return, Goto
<1>2. ASSUME NEW t \in Threads, Call(t) PROVE Running'
  <2>1. ASSUME NEW o, NEW s, Enter(t, o, s) PROVE Running'
    BY <1>0, <2>1 DEF Enter, Running
  <2> QED
    BY <1>2, <2>1 DEF Call, CallOut, CallIn, CallCloseOutput, CallCloseInput, CallSetParameters
<1>3. ASSUME NEW s \in Streams \ opened, Allocate(s) PROVE Running'
  BY <1>0, <1>3 DEF Allocate, Running, Calls
<1>4. ASSUME NEW off \in BOOLEAN, SetScreenState(off) PROVE Running'
  BY <1>0, <1>4 DEF SetScreenState, Running
<1>5. ASSUME NEW t \in Threads, Free(t) PROVE Running'
  BY <1>0, <1>5 DEF Free, Return, Running, OpOn
<1>6. ASSUME NEW t \in Threads, NEW s \in Outs, lock[s] = NoThread, do_out_standby(s), on[t] = s,
             Return(t) \/ Goto(t, "free") \/ Goto(t, "select"), UNCHANGED <<opened, activeIn>>
      PROVE  Running'
  <2>1. standby' = [standby EXCEPT ![s] = TRUE] /\ pcm' = [pcm EXCEPT ![s] = "none"]
    BY <1>0, <1>6 DEF do_out_standby, Running
  <2>2. activeOut' # NoStream => activeOut' = activeOut /\ activeOut # s
    BY <1>0, <1>6 DEF do_out_standby, Running
  <2> QED
    BY <1>0, <1>6, <2>1, <2>2 DEF Running, Holding, Return, Goto
<1>7. ASSUME NEW t \in Threads, NEW s \in Ins, lock[s] = NoThread, do_in_standby(s), on[t] = s,
             Return(t) \/ Goto(t, "free") \/ Goto(t, "select"), UNCHANGED <<opened, activeOut>>
      PROVE  Running'
  <2>1. standby' = [standby EXCEPT ![s] = TRUE] /\ pcm' = [pcm EXCEPT ![s] = "none"]
    BY <1>0, <1>7 DEF do_in_standby, Running
  <2>2. activeIn' # NoStream => activeIn' = activeIn /\ activeIn # s
    BY <1>0, <1>7 DEF do_in_standby, Running
  <2> QED
    BY <1>0, <1>7, <2>1, <2>2 DEF Running, Holding, Return, Goto
<1>8. ASSUME NEW t \in Threads, out_standby(t) \/ OutLeavePcm(t) PROVE Running'
  BY <1>0, <1>6, <1>8 DEF out_standby, OutLeavePcm, RoutingLocks, OpOn, OutCalls
<1>9. ASSUME NEW t \in Threads, in_standby(t) \/ InLeavePcm(t) PROVE Running'
  BY <1>0, <1>7, <1>9 DEF in_standby, InLeavePcm, RoutingLocks, OpOn, InCalls
<1>10. ASSUME NEW t \in Threads, out_set_parameters(t) \/ in_set_parameters(t) PROVE Running'
  <2>1. CASE pc' = [pc EXCEPT ![t] = "stream"] /\ UNCHANGED <<op, on>>
    BY <1>0, <1>10, <2>1 DEF out_set_parameters, in_set_parameters, Running
  <2> QED
    BY <1>1, <1>10, <2>1 DEF out_set_parameters, in_set_parameters, PcLabels
<1>11. ASSUME NEW t \in Threads,
              TakeAdevLock(t) \/ adev_set_parameters(t) \/ select_devices(t) \/ out_get_latency(t)
       PROVE  Running'
  BY <1>1, <1>11 DEF TakeAdevLock, adev_set_parameters, select_devices, out_get_latency, PcLabels
<1>12. ASSUME NEW t \in Threads, out_write(t) \/ in_read(t) \/ ExitAfterFailure(t) PROVE Running'
  BY <1>1, <1>12 DEF out_write, in_read, ExitAfterFailure
<1>13. ASSUME NEW t \in Threads, WriteToStart(t) \/ ReadToStart(t) PROVE Running'
  BY <1>0, <1>13 DEF WriteToStart, ReadToStart, Goto, Running
<1>14. ASSUME NEW t \in Threads, WriteRunning(t) \/ ReadRunning(t) PROVE Running'
  BY <1>0, <1>14 DEF WriteRunning, ReadRunning, ChooseBuffer, Goto, Running
<1>15. ASSUME NEW t \in Threads, start_output_stream(t) \/ start_input_stream(t) PROVE Running'
  <2>1. on[t] \in Streams /\ on[t] \in opened /\ lock[on[t]] = t
    BY <1>0, <1>15 DEF start_output_stream, start_input_stream, OpOn, OutCalls, InCalls, Calls, Holding
  <2>2. CASE StartFailed(t) /\ UNCHANGED <<activeOut, activeIn>>
    BY <1>0, <1>15, <2>2 DEF start_output_stream, start_input_stream, StartFailed, Goto, Running
  <2>3. CASE /\ \E p \in {"main", "sco"} : pcm' = [pcm EXCEPT ![on[t]] = p]
             /\ standby' = [standby EXCEPT ![on[t]] = FALSE]
             /\ pc' = [pc EXCEPT ![t] = "io"] /\ UNCHANGED <<on, opened>>
             /\ \/ activeOut' = on[t] /\ UNCHANGED activeIn
                \/ activeIn' = on[t] /\ UNCHANGED activeOut
    BY <1>0, <2>1, <2>3 DEF Running, Holding, Calls
  <2> QED
    BY <1>15, <2>2, <2>3 DEF start_output_stream, start_input_stream, ChooseBuffer, Goto
<1>16. CASE UNCHANGED vars
  BY <1>0, <1>16 DEF vars, Running
<1> QED
  BY <1>2, <1>3, <1>4, <1>5, <1>8, <1>9, <1>10, <1>11, <1>12, <1>13, <1>14, <1>15, <1>16
     DEF Next, Step, adev_open_output_stream, adev_open_input_stream

LEMMA InvInit == Init => Inv
<1>1. Init => Holding /\ Calls /\ Running
  BY DEF Init, Holding, Calls, Running
<1> QED
  BY <1>1, TypedInit DEF Inv

LEMMA InvAlways == Spec => []Inv
<1>1. Inv /\ [Next]_vars => Inv'
  BY TypedStep, HoldingStep, CallsStep, RunningStep DEF Inv
<1> QED
  BY <1>1, InvInit, PTL DEF Spec

(* No PCM is closed, freed or exchanged under a running transfer.          *)
THEOREM IoPcmStaysOpen == Spec => []IoPcmOpen
<1>1. Inv => IoPcmOpen
  <2> SUFFICES ASSUME Inv, NEW t \in Threads, pc[t] = "io"
               PROVE  on[t] \in opened /\ ~standby[on[t]] /\ pcm[on[t]] # "none"
    BY DEF IoPcmOpen
  <2>1. on[t] \in Streams
    BY DEF Inv, Typed, OpOn, Holding, OutCalls, InCalls
  <2> QED
    BY <2>1 DEF Inv, Calls, Running
<1> QED
  BY <1>1, InvAlways, PTL

(* The two pointers that a start follows never dangle.                     *)
THEOREM ActiveNeverDangles == Spec => []ActiveIsRunning
<1>1. Inv => ActiveIsRunning
  BY DEF Inv, ActiveIsRunning, Running, Typed, TypeOK
<1> QED
  BY <1>1, InvAlways, PTL

------------------------------------------------------------------------------
(* Waiting.  Every wait for a stream mutex is for a thread in a transfer,  *)
(* which waits for nothing: whoever waits for it has the device mutex, so  *)
(* no other thread can be in a start.                                      *)

(* At the lock of a stream a call has a stream.                            *)
AtItsStream == \A t \in Threads : pc[t] = "stream" => on[t] \in Streams

LEMMA AtItsStreamStep == Inv /\ AtItsStream /\ [Next]_vars => AtItsStream'
<1> SUFFICES ASSUME Inv, AtItsStream, [Next]_vars PROVE AtItsStream'
  OBVIOUS
<1>0. CallTypes /\ OpOn
  BY Parts DEF Inv, Typed
<1> USE DEF CallTypes, AtItsStream
<1>1. ASSUME NEW t \in Threads, NEW l, pc' = [pc EXCEPT ![t] = l],
             \A u \in Threads \ {t} : on'[u] = on[u],
             l = "stream" => on'[t] \in Streams
      PROVE  AtItsStream'
  BY <1>0, <1>1
<1>2. ASSUME NEW t \in Threads, Return(t) PROVE AtItsStream'
  BY <1>0, <1>1, <1>2 DEF Return
<1>3. ASSUME NEW t \in Threads, NEW l \in PcLabels, Goto(t, l), l = "stream" => on[t] \in Streams
      PROVE  AtItsStream'
  BY <1>1, <1>3 DEF Goto
<1>4. ASSUME NEW t \in Threads, Call(t) PROVE AtItsStream'
  <2>1. ASSUME NEW o, NEW s, Enter(t, o, s) PROVE AtItsStream'
    BY <1>0, <1>1, <2>1 DEF Enter
  <2> QED
    BY <1>4, <2>1 DEF Call, CallOut, CallIn, CallCloseOutput, CallCloseInput, CallSetParameters
<1>5. CASE adev_open_output_stream \/ adev_open_input_stream \/ \E off \in BOOLEAN : SetScreenState(off)
  BY <1>5 DEF adev_open_output_stream, adev_open_input_stream, Allocate, SetScreenState
<1>6. ASSUME NEW t \in Threads, TakeAdevLock(t) PROVE AtItsStream'
  <2>1. on[t] \in Streams
    BY <1>0, <1>6 DEF TakeAdevLock, Inv, Calls, OpOn, Ops, OutCalls, InCalls
  <2> QED
    BY <1>3, <1>6, <2>1 DEF TakeAdevLock, PcLabels
<1>7. ASSUME NEW t \in Threads, out_set_parameters(t) \/ in_set_parameters(t) PROVE AtItsStream'
  <2>1. on[t] \in Streams
    BY <1>0, <1>7 DEF out_set_parameters, in_set_parameters, OpOn, OutCalls, InCalls
  <2>2. CASE pc' = [pc EXCEPT ![t] = "stream"] /\ UNCHANGED on
    BY <1>1, <2>1, <2>2
  <2> QED
    BY <1>2, <1>3, <1>7, <2>2 DEF out_set_parameters, in_set_parameters, PcLabels
<1>8. ASSUME NEW t \in Threads, OutLeavePcm(t) \/ InLeavePcm(t) \/ select_devices(t) \/ Free(t)
             \/ out_get_latency(t) \/ out_write(t) \/ in_read(t) \/ ExitAfterFailure(t)
      PROVE  AtItsStream'
  BY <1>2, <1>3, <1>8 DEF OutLeavePcm, InLeavePcm, select_devices, Free, out_get_latency,
                          out_write, in_read, ExitAfterFailure, PcLabels
<1>9. ASSUME NEW t \in Threads, out_standby(t) \/ in_standby(t) \/ adev_set_parameters(t)
      PROVE  AtItsStream'
  BY <1>2, <1>3, <1>9 DEF out_standby, in_standby, adev_set_parameters, PcLabels
<1>10. ASSUME NEW t \in Threads, WriteToStart(t) \/ ReadToStart(t) \/ ReadRunning(t)
       PROVE  AtItsStream'
  BY <1>3, <1>10 DEF WriteToStart, ReadToStart, ReadRunning, PcLabels
<1>11. ASSUME NEW t \in Threads, WriteRunning(t) PROVE AtItsStream'
  BY <1>1, <1>11 DEF WriteRunning, ChooseBuffer
<1>12. ASSUME NEW t \in Threads, start_output_stream(t) \/ start_input_stream(t)
       PROVE  AtItsStream'
  <2>1. CASE Goto(t, "exit")
    BY <1>3, <2>1 DEF PcLabels
  <2>2. CASE pc' = [pc EXCEPT ![t] = "io"] /\ UNCHANGED on
    BY <1>1, <2>2
  <2> QED
    BY <1>12, <2>1, <2>2 DEF start_output_stream, start_input_stream, StartFailed,
                             ChooseBuffer, Goto
<1>13. CASE UNCHANGED vars
  BY <1>13 DEF vars
<1> QED
  BY <1>4, <1>5, <1>6, <1>7, <1>8, <1>9, <1>10, <1>11, <1>12, <1>13 DEF Next, Step

LEMMA HolderIsNearer == Inv /\ AtItsStream => NoCircularWait
<1> SUFFICES ASSUME Inv, AtItsStream, NEW t \in Threads, NEW u \in Threads, WaitsFor(t, u)
             PROVE  Waits[pc[u]] < Waits[pc[t]]
  BY DEF NoCircularWait
<1>1. pc[t] \in PcLabels /\ pc[u] \in PcLabels
  BY Parts DEF Inv, Typed, CallTypes
<1>2. CASE pc[t] = "adev" /\ adevLock = u
  <2>1. pc[u] \in {"stream", "start", "select"}
    BY <1>2 DEF Inv, Holding
  <2> QED
    BY <1>1, <1>2, <2>1 DEF Waits
<1>3. ASSUME pc[t] \in {"stream", "start"}, NEW s \in Streams, lock[s] = u, u # t
      PROVE  Waits[pc[u]] < Waits[pc[t]]
  <2>1. adevLock = t /\ pc[u] \in {"start", "io", "exit"}
    BY <1>3 DEF Inv, Holding
  <2>2. pc[u] \in {"io", "exit"}
    BY <1>3, <2>1 DEF Inv, Holding
  <2> QED
    BY <1>1, <1>3, <2>2 DEF Waits
<1>4. CASE pc[t] = "stream" /\ lock[on[t]] = u
  <2>1. on[t] \in Streams
    BY <1>4 DEF AtItsStream
  <2> QED
    BY <1>3, <1>4, <2>1 DEF Inv, Holding
<1>5. CASE pc[t] = "start" /\ Peer(on[t]) # NoStream /\ lock[Peer(on[t])] = u
  <2>1. op[t] \in {"write", "read"} /\ on[t] \in Streams
    BY <1>5 DEF Inv, Typed, OpOn, Holding, OutCalls, InCalls
  <2>2. Peer(on[t]) \in Streams /\ Peer(on[t]) # on[t]
    BY <1>5, <2>1 DEF Inv, Typed, TypeOK, Peer
  <2>3. u # t
    BY <1>5, <2>2 DEF Inv, Holding
  <2> QED
    BY <1>3, <1>5, <2>2, <2>3
<1> QED
  BY <1>2, <1>4, <1>5 DEF WaitsFor

(* No calls of any number of threads, on any number of streams, wait for   *)
(* one another in a circle.                                                *)
THEOREM NobodyWaitsInACircle == Spec => []NoCircularWait
<1>1. Init => AtItsStream
  BY DEF Init, AtItsStream
<1> QED
  BY <1>1, AtItsStreamStep, HolderIsNearer, InvAlways, PTL DEF Spec

(* Nobody takes the mutex of a stream from one who waits for it with the   *)
(* device mutex in hand: a stream mutex is only taken with that in hand.   *)
THEOREM WritersQueue == Spec => NobodyOvertakes
<1>1. ASSUME Inv, [Next]_vars, NEW t \in Threads, NEW u \in Threads, NEW s \in Streams,
             pc[t] \in {"stream", "start"}, pc'[t] = pc[t], lock'[s] = u
      PROVE  lock[s] = u
  <2>1. /\ adevLock = t /\ lock \in [Streams -> Threads \cup {NoThread}] /\ CallTypes
        /\ u # NoThread
    BY <1>1, Parts DEF Inv, Typed, TypeOK, Holding
  <2> USE DEF CallTypes
  <2>2. ASSUME NEW v \in Threads, Step(v) PROVE lock[s] = u
    <3>1. CASE v = t
      BY <1>1, <2>1, <2>2, <3>1
         DEF Step, TakeAdevLock, out_standby, in_standby, Free, out_set_parameters,
             OutLeavePcm, in_set_parameters, InLeavePcm, adev_set_parameters, select_devices,
             out_get_latency, WriteToStart, WriteRunning, start_output_stream, out_write,
             ReadToStart, ReadRunning, start_input_stream, in_read, ExitAfterFailure, Goto, Return,
             ChooseBuffer, StartFailed
    <3>2. CASE v # t
      <4>1. pc[v] \notin {"stream", "start", "select"}
        BY <1>1, <2>1, <3>2 DEF Inv, Holding
      <4> QED
        BY <1>1, <2>1, <2>2, <4>1
           DEF Step, TakeAdevLock, out_standby, in_standby, Free, out_set_parameters,
               OutLeavePcm, in_set_parameters, InLeavePcm, adev_set_parameters,
               select_devices, out_get_latency, WriteToStart, WriteRunning,
               start_output_stream, out_write, ReadToStart, ReadRunning,
               start_input_stream, in_read, ExitAfterFailure
    <3> QED
      BY <3>1, <3>2
  <2>3. ASSUME NEW v \in Threads, Call(v) PROVE lock[s] = u
    BY <1>1, <2>3 DEF Call, CallOut, CallIn, CallCloseOutput, CallCloseInput,
                      CallSetParameters, Enter
  <2>4. CASE adev_open_output_stream \/ adev_open_input_stream \/ \E off \in BOOLEAN : SetScreenState(off)
    BY <1>1, <2>4 DEF adev_open_output_stream, adev_open_input_stream, Allocate, SetScreenState
  <2>5. CASE UNCHANGED vars
    BY <1>1, <2>5 DEF vars
  <2> QED
    BY <1>1, <2>2, <2>3, <2>4, <2>5 DEF Next
<1>2. Inv /\ [Next]_vars =>
        (\A t, u \in Threads, s \in Streams :
           pc[t] \in {"stream", "start"} /\ pc'[t] = pc[t] /\ lock'[s] = u => lock[s] = u)
  BY <1>1
<1> QED
  BY <1>2, InvAlways, PTL DEF Spec, NobodyOvertakes

StandsStill == \A t, u \in Threads : WaitsFor(t, u) => ~Step(t)

(* A wait is a wait: a thread that waits for another makes no step.        *)
THEOREM WaitingIsStandingStill == Spec => [][StandsStill]_vars
<1>1. ASSUME Inv, AtItsStream, NEW t \in Threads, NEW u \in Threads, WaitsFor(t, u), Step(t)
      PROVE  FALSE
  <2>1. pc[t] \in {"adev", "stream", "start"} /\ u # NoThread
    BY <1>1 DEF WaitsFor
  <2>2. CASE pc[t] = "adev"
    BY <1>1, <2>1, <2>2
       DEF WaitsFor, Step, TakeAdevLock, out_standby, in_standby, Free, out_set_parameters,
           OutLeavePcm, in_set_parameters, InLeavePcm, adev_set_parameters, select_devices,
           out_get_latency, WriteToStart, WriteRunning, start_output_stream, out_write,
           ReadToStart, ReadRunning, start_input_stream, in_read, ExitAfterFailure
  <2>3. CASE pc[t] = "stream"
    BY <1>1, <2>1, <2>3
       DEF WaitsFor, Step, TakeAdevLock, out_standby, in_standby, Free, out_set_parameters,
           OutLeavePcm, in_set_parameters, InLeavePcm, adev_set_parameters, select_devices,
           out_get_latency, WriteToStart, WriteRunning, start_output_stream, out_write,
           ReadToStart, ReadRunning, start_input_stream, in_read, ExitAfterFailure, RoutingLocks
  <2>4. CASE pc[t] = "start"
    <3>1. CASE start_output_stream(t)
      <4>1. Peer(on[t]) = activeIn
        BY <1>1, <2>4, <3>1 DEF start_output_stream, Peer, Inv, Typed, OpOn, OutCalls
      <4> QED
        BY <1>1, <2>1, <2>4, <3>1, <4>1 DEF start_output_stream, WaitsFor
    <3>2. CASE start_input_stream(t)
      <4>1. Peer(on[t]) = activeOut
        BY <1>1, <2>4, <3>2 DEF start_input_stream, Peer, Inv, Typed, OpOn, InCalls
      <4> QED
        BY <1>1, <2>1, <2>4, <3>2, <4>1 DEF start_input_stream, WaitsFor
    <3> QED
      BY <1>1, <2>4, <3>1, <3>2
         DEF Step, TakeAdevLock, out_standby, in_standby, Free, out_set_parameters,
             OutLeavePcm, in_set_parameters, InLeavePcm, adev_set_parameters, select_devices,
             out_get_latency, WriteToStart, WriteRunning, out_write, ReadToStart,
             ReadRunning, in_read, ExitAfterFailure
  <2> QED
    BY <2>1, <2>2, <2>3, <2>4
<1>2. Init => AtItsStream
  BY DEF Init, AtItsStream
<1>3. Inv /\ AtItsStream => StandsStill
  BY <1>1 DEF StandsStill
<1> QED
  BY <1>2, <1>3, AtItsStreamStep, InvAlways, PTL DEF Spec

------------------------------------------------------------------------------
(* The codec.  Only a thread on its way to select_devices changes the      *)
(* routing or the orientation.                                             *)

CodecMatches == MixerMatchesRoute /\ DspMatchesRoute

LEMMA CodecStep == Inv /\ CodecMatches /\ [Next]_vars => CodecMatches'
<1> SUFFICES ASSUME Inv, CodecMatches, [Next]_vars PROVE CodecMatches'
  OBVIOUS
<1>0. CallTypes
  BY Parts DEF Inv, Typed
<1> USE DEF CallTypes
<1>1. ASSUME UNCHANGED <<devices, orientation, mixer, dsp>>,
             (\A t \in Threads : pc'[t] # "select") => \A t \in Threads : pc[t] # "select"
      PROVE  CodecMatches'
  BY <1>1 DEF CodecMatches, MixerMatchesRoute, DspMatchesRoute, PathsFor
<1>2. ASSUME \E t \in Threads : pc'[t] = "select" PROVE CodecMatches'
  BY <1>2 DEF CodecMatches, MixerMatchesRoute, DspMatchesRoute
<1>3. ASSUME NEW t \in Threads, select_devices(t) PROVE CodecMatches'
  <2>1. mixer' = PathsFor(devices', orientation')
    BY <1>3 DEF select_devices, PathsFor
  <2>2. /\ devices' \cap BUILTIN_MIC # {} => dsp' \in {"recording", "unknown"}
        /\ devices' \cap BUILTIN_MIC = {} /\ devices' \cap (SPEAKER \cup WIRED) # {}
             => dsp' \in {"playback", "unknown"}
    BY <1>3 DEF select_devices, DspMode, DspControls
  <2> QED
    BY <2>1, <2>2 DEF CodecMatches, MixerMatchesRoute, DspMatchesRoute
<1>4. ASSUME NEW t \in Threads, Call(t) PROVE CodecMatches'
  BY <1>0, <1>1, <1>4 DEF Call, CallOut, CallIn, CallCloseOutput, CallCloseInput, CallSetParameters, Enter
<1>5. CASE adev_open_output_stream \/ adev_open_input_stream \/ \E off \in BOOLEAN : SetScreenState(off)
  BY <1>1, <1>5 DEF adev_open_output_stream, adev_open_input_stream, Allocate, SetScreenState
<1>6. ASSUME NEW t \in Threads, out_set_parameters(t) \/ in_set_parameters(t) PROVE CodecMatches'
  <2>1. CASE Goto(t, "select")
    BY <1>0, <1>2, <2>1 DEF Goto
  <2>2. CASE Return(t) /\ UNCHANGED devices
    BY <1>0, <1>1, <1>6, <2>2 DEF out_set_parameters, in_set_parameters, Return
  <2>3. CASE pc' = [pc EXCEPT ![t] = "stream"] /\ UNCHANGED devices
    BY <1>0, <1>1, <1>6, <2>3 DEF out_set_parameters, in_set_parameters
  <2> QED
    BY <1>6, <2>1, <2>2, <2>3 DEF out_set_parameters, in_set_parameters
<1>7. ASSUME NEW t \in Threads, OutLeavePcm(t) \/ InLeavePcm(t) PROVE CodecMatches'
  BY <1>0, <1>2, <1>7 DEF OutLeavePcm, InLeavePcm, Goto
<1>8. ASSUME NEW t \in Threads, adev_set_parameters(t) PROVE CodecMatches'
  <2>1. CASE Goto(t, "select")
    BY <1>0, <1>2, <2>1 DEF Goto
  <2>2. CASE Return(t) /\ UNCHANGED orientation
    BY <1>0, <1>1, <1>8, <2>2 DEF adev_set_parameters, Return
  <2> QED
    BY <1>8, <2>1, <2>2 DEF adev_set_parameters
<1>9. ASSUME NEW t \in Threads, TakeAdevLock(t) \/ WriteToStart(t) \/ ReadToStart(t) \/ ReadRunning(t)
      PROVE  CodecMatches'
  BY <1>0, <1>1, <1>9 DEF TakeAdevLock, WriteToStart, ReadToStart, ReadRunning, Goto
<1>10. ASSUME NEW t \in Threads, out_standby(t) \/ in_standby(t) PROVE CodecMatches'
  BY <1>0, <1>1, <1>10 DEF out_standby, in_standby, Goto, Return
<1>11. ASSUME NEW t \in Threads, Free(t) \/ out_get_latency(t) \/ out_write(t) \/ in_read(t)
              \/ ExitAfterFailure(t)
       PROVE  CodecMatches'
  BY <1>0, <1>1, <1>11 DEF Free, out_get_latency, out_write, in_read, ExitAfterFailure, Return
<1>12. ASSUME NEW t \in Threads, WriteRunning(t) \/ start_output_stream(t) \/ start_input_stream(t)
       PROVE  CodecMatches'
  <2>1. UNCHANGED <<devices, orientation, mixer, dsp>>
    BY <1>12 DEF WriteRunning, start_output_stream, start_input_stream
  <2>2. pc[t] # "select"
    BY <1>12 DEF WriteRunning, start_output_stream, start_input_stream
  <2>3. \A u \in Threads \ {t} : pc'[u] = pc[u]
    BY <1>0, <1>12 DEF WriteRunning, start_output_stream, start_input_stream, ChooseBuffer,
       StartFailed, Return, Goto
  <2> QED
    BY <1>1, <2>1, <2>2, <2>3
<1>13. CASE UNCHANGED vars
  BY <1>1, <1>13 DEF vars
<1> QED
  BY <1>3, <1>4, <1>5, <1>6, <1>7, <1>8, <1>9, <1>10, <1>11, <1>12, <1>13 DEF Next, Step

LEMMA CodecAlways == Spec => []CodecMatches
<1>1. Init => CodecMatches
  BY DEF Init, CodecMatches, MixerMatchesRoute, DspMatchesRoute, PathsFor
<1> QED
  BY <1>1, CodecStep, InvAlways, PTL DEF Spec

(* The paths on the codec depend on the routing and the orientation of now *)
(* and not on the order in which they were set.                            *)
THEOREM MixerHasNoMemory == Spec => []MixerMatchesRoute
<1>1. CodecMatches => MixerMatchesRoute
  BY DEF CodecMatches
<1> QED
  BY <1>1, CodecAlways, PTL

(* When the controls of the last routing reached the DSP, it records if    *)
(* the microphone is routed and plays if only an output is, whatever was   *)
(* routed and whatever failed before.                                      *)
THEOREM DspFollowsRoute == Spec => []DspMatchesRoute
<1>1. CodecMatches => DspMatchesRoute
  BY DEF CodecMatches
<1> QED
  BY <1>1, CodecAlways, PTL

------------------------------------------------------------------------------
(* One stream in each direction, as the audio policy uses the HAL: the     *)
(* device knows the stream that runs, and it runs on the routed PCM.       *)

OneOfEach ==
  /\ \A r, s \in Outs : r = s
  /\ \A r, s \in Ins : r = s

Routed == RunningIsActive /\ PcmMatchesRoute

LEMMA RoutedStep == OneOfEach /\ Inv /\ Routed /\ [Next]_vars => Routed'
<1> SUFFICES ASSUME OneOfEach, Inv, Routed, [Next]_vars PROVE Routed'
  OBVIOUS
<1>0. CallTypes /\ StreamTypes /\ OpOn /\ Running /\ Typed
  BY Parts DEF Inv, Typed
<1> USE DEF CallTypes, StreamTypes, OneOfEach
<1>1. ASSUME UNCHANGED <<devices, standby, pcm, activeOut, activeIn>> PROVE Routed'
  BY <1>1 DEF Routed, RunningIsActive, PcmMatchesRoute, ScoRouted, LinkOf
<1>2. ASSUME NEW s \in Streams, Allocate(s) PROVE Routed'
  BY <1>0, <1>2 DEF Allocate, Routed, RunningIsActive, PcmMatchesRoute, ScoRouted, LinkOf
<1>3. ASSUME NEW s \in Outs, do_out_standby(s), UNCHANGED activeIn,
             devices' \cap IN_ALL_SCO = devices \cap IN_ALL_SCO
      PROVE  Routed'
  <2>1. ~(\E r \in Outs : ~standby'[r]) /\ (\A r \in Ins : standby'[r] = standby[r] /\ pcm'[r] = pcm[r])
    BY <1>0, <1>3 DEF do_out_standby
  <2> QED
    BY <1>0, <1>3, <2>1 DEF Routed, RunningIsActive, PcmMatchesRoute, ScoRouted, LinkOf
<1>4. ASSUME NEW s \in Ins, do_in_standby(s), UNCHANGED activeOut,
             devices' \cap OUT_ALL_SCO = devices \cap OUT_ALL_SCO
      PROVE  Routed'
  <2>1. ~(\E r \in Ins : ~standby'[r]) /\ (\A r \in Outs : standby'[r] = standby[r] /\ pcm'[r] = pcm[r])
    BY <1>0, <1>4 DEF do_in_standby
  <2> QED
    BY <1>0, <1>4, <2>1 DEF Routed, RunningIsActive, PcmMatchesRoute, ScoRouted, LinkOf
<1>5. ASSUME NEW t \in Threads, out_standby(t) \/ OutLeavePcm(t) PROVE Routed'
  <2>1. on[t] \in Outs /\ (op[t] = "out_set_parameters" => arg[t] \subseteq OUT_ALL)
    BY <1>0, <1>5 DEF out_standby, OutLeavePcm, OpOn, OutCalls
  <2> QED
    BY <1>3, <1>5, <2>1 DEF out_standby, OutLeavePcm, Reroute
<1>6. ASSUME NEW t \in Threads, in_standby(t) \/ InLeavePcm(t) PROVE Routed'
  <2>1. on[t] \in Ins /\ (op[t] = "in_set_parameters" => arg[t] \subseteq IN_ALL)
    BY <1>0, <1>6 DEF in_standby, InLeavePcm, OpOn, InCalls
  <2> QED
    BY <1>4, <1>6, <2>1 DEF in_standby, InLeavePcm, Reroute
<1>7. ASSUME UNCHANGED <<standby, pcm, activeOut, activeIn>>,
             devices' \cap OUT_ALL_SCO = devices \cap OUT_ALL_SCO,
             devices' \cap IN_ALL_SCO = devices \cap IN_ALL_SCO
      PROVE  Routed'
  BY <1>7 DEF Routed, RunningIsActive, PcmMatchesRoute, ScoRouted, LinkOf
<1>8. ASSUME NEW t \in Threads, out_set_parameters(t) PROVE Routed'
  <2>1. devices' \cap IN_ALL_SCO = devices \cap IN_ALL_SCO
    BY <1>8 DEF out_set_parameters, Reroute
  <2>2. devices' \cap OUT_ALL_SCO = devices \cap OUT_ALL_SCO
    BY <1>8 DEF out_set_parameters, Reroute, TogglesSco
  <2> QED
    BY <1>7, <1>8, <2>1, <2>2 DEF out_set_parameters
<1>9. ASSUME NEW t \in Threads, in_set_parameters(t) PROVE Routed'
  <2>1. devices' \cap OUT_ALL_SCO = devices \cap OUT_ALL_SCO
    BY <1>9 DEF in_set_parameters, Reroute
  <2>2. devices' \cap IN_ALL_SCO = devices \cap IN_ALL_SCO
    BY <1>9 DEF in_set_parameters, Reroute, TogglesSco
  <2> QED
    BY <1>7, <1>9, <2>1, <2>2 DEF in_set_parameters
<1>10. ASSUME NEW t \in Threads, start_output_stream(t) PROVE Routed'
  <2>1. on[t] \in Outs
    BY <1>0, <1>10 DEF start_output_stream, OpOn, OutCalls
  <2>2. CASE UNCHANGED <<standby, pcm, activeOut, activeIn>>
    BY <1>1, <1>10, <2>2 DEF start_output_stream
  <2>3. CASE /\ pcm' = [pcm EXCEPT ![on[t]] = IF ScoRouted(on[t]) THEN "sco" ELSE "main"]
             /\ standby' = [standby EXCEPT ![on[t]] = FALSE]
             /\ activeOut' = on[t] /\ UNCHANGED activeIn
    BY <1>0, <1>10, <2>1, <2>3 DEF start_output_stream, Routed, RunningIsActive, PcmMatchesRoute, ScoRouted, LinkOf
  <2> QED
    BY <1>10, <2>2, <2>3 DEF start_output_stream, StartFailed, ChooseBuffer
<1>11. ASSUME NEW t \in Threads, start_input_stream(t) PROVE Routed'
  <2>1. on[t] \in Ins
    BY <1>0, <1>11 DEF start_input_stream, OpOn, InCalls
  <2>2. CASE UNCHANGED <<standby, pcm, activeOut, activeIn>>
    BY <1>1, <1>11, <2>2 DEF start_input_stream
  <2>3. CASE /\ pcm' = [pcm EXCEPT ![on[t]] = IF ScoRouted(on[t]) THEN "sco" ELSE "main"]
             /\ standby' = [standby EXCEPT ![on[t]] = FALSE]
             /\ activeIn' = on[t] /\ UNCHANGED activeOut
    BY <1>0, <1>11, <2>1, <2>3 DEF start_input_stream, Routed, RunningIsActive, PcmMatchesRoute, ScoRouted, LinkOf
  <2> QED
    BY <1>11, <2>2, <2>3 DEF start_input_stream, StartFailed
<1>12. ASSUME NEW t \in Threads, Call(t) PROVE Routed'
  BY <1>1, <1>12 DEF Call, CallOut, CallIn, CallCloseOutput, CallCloseInput, CallSetParameters, Enter
<1>13. ASSUME NEW off \in BOOLEAN, SetScreenState(off) PROVE Routed'
  BY <1>1, <1>13 DEF SetScreenState
<1>14. ASSUME NEW t \in Threads,
              \/ TakeAdevLock(t) \/ Free(t) \/ adev_set_parameters(t) \/ select_devices(t)
              \/ out_get_latency(t) \/ WriteToStart(t) \/ WriteRunning(t) \/ out_write(t)
              \/ ReadToStart(t) \/ ReadRunning(t) \/ in_read(t) \/ ExitAfterFailure(t)
       PROVE  Routed'
  BY <1>1, <1>14 DEF TakeAdevLock, Free, adev_set_parameters, select_devices, out_get_latency,
     WriteToStart, WriteRunning, ChooseBuffer, out_write, ReadToStart, ReadRunning, in_read,
     ExitAfterFailure
<1>15. CASE UNCHANGED vars
  BY <1>1, <1>15 DEF vars
<1> QED
  BY <1>2, <1>5, <1>6, <1>8, <1>9, <1>10, <1>11, <1>12, <1>13, <1>14, <1>15
     DEF Next, Step, adev_open_output_stream, adev_open_input_stream

LEMMA RoutedAlways ==
  ASSUME OneOfEach
  PROVE  Spec => []Routed
<1>1. Init => Routed
  BY DEF Init, Routed, RunningIsActive, PcmMatchesRoute
<1>2. Inv /\ Routed /\ [Next]_vars => Routed'
  BY OneOfEach, RoutedStep
<1> QED
  BY <1>1, <1>2, InvAlways, PTL DEF Spec

(* With one stream in each direction a running stream is the active one,   *)
(* so a start in the other direction finds it.                             *)
THEOREM RunsAsActive ==
  ASSUME OneOfEach
  PROVE  Spec => []RunningIsActive
<1>1. Routed => RunningIsActive
  BY DEF Routed
<1> QED
  BY <1>1, RoutedAlways, PTL

(* With one stream in each direction a running stream is on the SCO PCM    *)
(* exactly when its direction is routed to SCO, whatever routings came     *)
(* while it was being started: so the two PCMs are never open together.    *)
THEOREM RunsOnTheRoutedPcm ==
  ASSUME OneOfEach
  PROVE  Spec => []PcmMatchesRoute
<1>1. Routed => PcmMatchesRoute
  BY DEF Routed
<1> QED
  BY <1>1, RoutedAlways, PTL

------------------------------------------------------------------------------
(* The HAL implements the device without threads.  A call that is about to *)
(* leave the PCM for a routing changes the Bluetooth devices with it.      *)

Toggling == \A t \in Threads :
  /\ pc[t] = "stream" /\ op[t] = "out_set_parameters" => TogglesSco(OUT_ALL_SCO, arg[t])
  /\ pc[t] = "stream" /\ op[t] = "in_set_parameters" => TogglesSco(IN_ALL_SCO, arg[t])

LEMMA TogglingStep == Inv /\ Toggling /\ [Next]_vars => Toggling'
<1> SUFFICES ASSUME Inv, Toggling, [Next]_vars PROVE Toggling'
  OBVIOUS
<1>0. CallTypes /\ Holding /\ OpOn
  BY Parts DEF Inv, Typed
<1> USE DEF CallTypes
<1>1. ASSUME NEW t \in Threads, UNCHANGED devices,
             \A u \in Threads \ {t} : pc'[u] = pc[u] /\ op'[u] = op[u] /\ arg'[u] = arg[u],
             pc'[t] # "stream" \/ op'[t] \notin {"out_set_parameters", "in_set_parameters"}
      PROVE  Toggling'
  BY <1>1 DEF Toggling, TogglesSco
<1>2. ASSUME NEW t \in Threads,
             \A u \in Threads : pc'[u] # "stream"
      PROVE  Toggling'
  BY <1>2 DEF Toggling
<1>3. ASSUME NEW t \in Threads, Call(t) PROVE Toggling'
  BY <1>0, <1>1, <1>3 DEF Call, CallOut, CallIn, CallCloseOutput, CallCloseInput, CallSetParameters, Enter
<1>4. CASE adev_open_output_stream \/ adev_open_input_stream \/ \E off \in BOOLEAN : SetScreenState(off)
  BY <1>4 DEF adev_open_output_stream, adev_open_input_stream, Allocate, SetScreenState, Toggling, TogglesSco
<1>5. ASSUME NEW t \in Threads, TakeAdevLock(t) PROVE Toggling'
  BY <1>0, <1>1, <1>5 DEF TakeAdevLock, Goto
<1>6. ASSUME NEW t \in Threads, Return(t), UNCHANGED devices PROVE Toggling'
  BY <1>0, <1>1, <1>6 DEF Return
<1>7. ASSUME NEW t \in Threads, NEW l, Goto(t, l), UNCHANGED devices, l # "stream" PROVE Toggling'
  BY <1>0, <1>1, <1>7 DEF Goto
<1>8. ASSUME NEW t \in Threads, out_set_parameters(t) PROVE Toggling'
  <2>0. \A u \in Threads : pc[u] # "stream"
    BY <1>0, <1>8 DEF out_set_parameters, Holding
  <2>1. CASE Goto(t, "select")
    BY <1>0, <1>2, <2>0, <2>1 DEF Goto
  <2>2. CASE \E val \in OutRoutes :
               /\ TogglesSco(OUT_ALL_SCO, val)
               /\ pc' = [pc EXCEPT ![t] = "stream"]
               /\ arg' = [arg EXCEPT ![t] = val]
               /\ UNCHANGED <<op, devices>>
    BY <1>0, <1>8, <2>0, <2>2 DEF Toggling, TogglesSco, out_set_parameters
  <2> QED
    BY <1>6, <1>8, <2>1, <2>2 DEF out_set_parameters
<1>9. ASSUME NEW t \in Threads, in_set_parameters(t) PROVE Toggling'
  <2>0. \A u \in Threads : pc[u] # "stream"
    BY <1>0, <1>9 DEF in_set_parameters, Holding
  <2>1. CASE Goto(t, "select")
    BY <1>0, <1>2, <2>0, <2>1 DEF Goto
  <2>2. CASE \E val \in InRoutes :
               /\ TogglesSco(IN_ALL_SCO, val)
               /\ pc' = [pc EXCEPT ![t] = "stream"]
               /\ arg' = [arg EXCEPT ![t] = val]
               /\ UNCHANGED <<op, devices>>
    BY <1>0, <1>9, <2>0, <2>2 DEF Toggling, TogglesSco, in_set_parameters
  <2> QED
    BY <1>6, <1>9, <2>1, <2>2 DEF in_set_parameters
<1>10. ASSUME NEW t \in Threads, OutLeavePcm(t) \/ InLeavePcm(t) PROVE Toggling'
  BY <1>0, <1>2, <1>10 DEF OutLeavePcm, InLeavePcm, Goto, Holding
<1>11. ASSUME NEW t \in Threads, adev_set_parameters(t) PROVE Toggling'
  BY <1>6, <1>7, <1>11 DEF adev_set_parameters
<1>12. ASSUME NEW t \in Threads, out_standby(t) \/ in_standby(t) \/ Free(t) \/ select_devices(t)
              \/ out_get_latency(t) \/ out_write(t) \/ in_read(t) \/ ExitAfterFailure(t)
       PROVE  Toggling'
  BY <1>6, <1>7, <1>12 DEF out_standby, in_standby, Free, select_devices, out_get_latency, out_write,
     in_read, ExitAfterFailure
<1>13. ASSUME NEW t \in Threads, WriteToStart(t) \/ ReadToStart(t) \/ ReadRunning(t)
       PROVE  Toggling'
  BY <1>7, <1>13 DEF WriteToStart, ReadToStart, ReadRunning
<1>14. ASSUME NEW t \in Threads, ChooseBuffer(t), UNCHANGED devices PROVE Toggling'
  BY <1>0, <1>1, <1>14 DEF ChooseBuffer
<1>15. ASSUME NEW t \in Threads, WriteRunning(t) \/ start_output_stream(t) \/ start_input_stream(t)
       PROVE  Toggling'
  BY <1>6, <1>7, <1>14, <1>15 DEF WriteRunning, start_output_stream, start_input_stream, StartFailed
<1>16. CASE UNCHANGED vars
  BY <1>16 DEF vars, Toggling, TogglesSco
<1> QED
  BY <1>3, <1>4, <1>5, <1>8, <1>9, <1>10, <1>11, <1>12, <1>13, <1>15, <1>16 DEF Next, Step

ImplInv == Inv /\ CodecMatches /\ Routed /\ Toggling

PlayingOf(s) == IF standby[s] THEN "none" ELSE pcm[s]

(* What each kind of step is to the device.                                *)
LEMMA MapStutter ==
  ASSUME UNCHANGED <<devices, orientation, mixer>>,
         \A s \in Streams : PlayingOf(s)' = PlayingOf(s)
  PROVE  UNCHANGED Device!vars
<1>1. [s \in Streams |-> LinkOf(s)]' = [s \in Streams |-> LinkOf(s)]
  BY DEF LinkOf
<1>2. [s \in Streams |-> IF standby[s] THEN "none" ELSE pcm[s]]'
        = [s \in Streams |-> IF standby[s] THEN "none" ELSE pcm[s]]
  BY DEF PlayingOf
<1>3. PathsFor(devices, orientation)' = PathsFor(devices, orientation)
  BY DEF PathsFor
<1> QED
  BY <1>1, <1>2, <1>3 DEF Device!vars

LEMMA MapStop ==
  ASSUME NEW s \in Streams, UNCHANGED <<devices, orientation, mixer>>,
         PlayingOf(s)' = "none",
         \A r \in Streams \ {s} : PlayingOf(r)' = PlayingOf(r)
  PROVE  Device!Next
<1>1. [r \in Streams |-> LinkOf(r)]' = [r \in Streams |-> LinkOf(r)]
  BY DEF LinkOf
<1>2. [r \in Streams |-> IF standby[r] THEN "none" ELSE pcm[r]]'
        = [[r \in Streams |-> IF standby[r] THEN "none" ELSE pcm[r]] EXCEPT ![s] = "none"]
  <2>1. \A r \in Streams : (IF standby'[r] THEN "none" ELSE pcm'[r])
          = IF r = s THEN "none" ELSE IF standby[r] THEN "none" ELSE pcm[r]
    BY DEF PlayingOf
  <2> QED
    BY <2>1
<1>3. PathsFor(devices, orientation)' = PathsFor(devices, orientation)
  BY DEF PathsFor
<1> QED
  BY <1>1, <1>2, <1>3 DEF Device!Next, Device!Stop

LEMMA MapStart ==
  ASSUME NEW s \in Streams, UNCHANGED <<devices, orientation, mixer>>,
         mixer = PathsFor(devices, orientation),
         PlayingOf(s) = "none",
         PlayingOf(s)' = IF ScoRouted(s) THEN "sco" ELSE "main",
         \A r \in Streams \ {s} : PlayingOf(r)' = PlayingOf(r)
  PROVE  Device!Next
<1>1. [r \in Streams |-> LinkOf(r)]' = [r \in Streams |-> LinkOf(r)]
  BY DEF LinkOf
<1>2. [r \in Streams |-> IF standby[r] THEN "none" ELSE pcm[r]]'
        = [[r \in Streams |-> IF standby[r] THEN "none" ELSE pcm[r]]
             EXCEPT ![s] = Device!PcmFor([r \in Streams |-> LinkOf(r)][s])]
  <2>1. Device!PcmFor([r \in Streams |-> LinkOf(r)][s]) = IF ScoRouted(s) THEN "sco" ELSE "main"
    BY DEF ScoRouted, Device!PcmFor
  <2>2. \A r \in Streams : (IF standby'[r] THEN "none" ELSE pcm'[r])
          = IF r = s THEN Device!PcmFor([q \in Streams |-> LinkOf(q)][s])
            ELSE IF standby[r] THEN "none" ELSE pcm[r]
    BY <2>1 DEF PlayingOf
  <2> QED
    BY <2>2
<1>3. PathsFor(devices, orientation)' = PathsFor(devices, orientation)
  BY DEF PathsFor
<1>4. [r \in Streams |-> IF standby[r] THEN "none" ELSE pcm[r]][s] = "none"
  BY DEF PlayingOf
<1> QED
  BY <1>1, <1>2, <1>3, <1>4 DEF Device!Next, Device!Start

LEMMA MapRoute ==
  ASSUME mixer = PathsFor(devices, orientation), UNCHANGED mixer,
         \A s \in Streams :
           PlayingOf(s)' = IF LinkOf(s)' = LinkOf(s) THEN PlayingOf(s) ELSE "none"
  PROVE  Device!Next
<1>1. [s \in Streams |-> LinkOf(s)]' \in [Streams -> SUBSET (OUT_ALL_SCO \cup IN_ALL_SCO)]
  BY DEF LinkOf
<1>2. [s \in Streams |-> IF standby[s] THEN "none" ELSE pcm[s]]'
        = [s \in Streams |->
             IF [r \in Streams |-> LinkOf(r)]'[s] = [r \in Streams |-> LinkOf(r)][s]
             THEN [r \in Streams |-> IF standby[r] THEN "none" ELSE pcm[r]][s] ELSE "none"]
  BY DEF PlayingOf
<1> QED
  BY <1>1, <1>2 DEF Device!Next, Device!Route

(* Every step of the HAL is a step of the device or none.                  *)
LEMMA DeviceStep ==
  OneOfEach /\ ImplInv /\ [Next]_vars => [Device!Next]_(Device!vars)
<1> SUFFICES ASSUME OneOfEach, ImplInv, [Next]_vars
             PROVE  Device!Next \/ UNCHANGED Device!vars
  BY DEF Device!vars
<1>0. CallTypes /\ StreamTypes /\ OpOn /\ Holding /\ Running /\ Routed /\ Toggling
  BY Parts DEF ImplInv, Inv, Typed
<1> USE DEF CallTypes, StreamTypes, OneOfEach
<1>1. ASSUME UNCHANGED <<devices, orientation, mixer, standby, pcm>> PROVE UNCHANGED Device!vars
  BY <1>1, MapStutter DEF PlayingOf
<1>2. ASSUME NEW t \in Threads, adevLock = NoThread \/ (pc[t] \in {"stream", "start"} /\ adevLock = t)
      PROVE  mixer = PathsFor(devices, orientation)
  <2>1. \A u \in Threads : pc[u] # "select"
    BY <1>0, <1>2 DEF Holding
  <2> QED
    BY <2>1 DEF ImplInv, CodecMatches, MixerMatchesRoute
<1>3. ASSUME NEW s \in Streams \ opened, Allocate(s) PROVE UNCHANGED Device!vars
  <2>1. \A r \in Streams : PlayingOf(r)' = PlayingOf(r)
    BY <1>0, <1>3 DEF Allocate, PlayingOf, Running
  <2> QED
    BY <1>3, <2>1, MapStutter DEF Allocate
<1>4. ASSUME NEW t \in Threads, out_standby(t) \/ in_standby(t) PROVE Device!Next
  <2>1. PICK s \in Streams : s = on[t]
    BY <1>0, <1>4 DEF out_standby, in_standby, OpOn, OutCalls, InCalls
  <2>2. PlayingOf(s)' = "none" /\ \A r \in Streams \ {s} : PlayingOf(r)' = PlayingOf(r)
    BY <1>0, <1>4, <2>1 DEF out_standby, in_standby, do_out_standby, do_in_standby, PlayingOf
  <2> QED
    BY <1>4, <2>2, MapStop DEF out_standby, in_standby
<1>5. ASSUME NEW t \in Threads, start_output_stream(t) \/ start_input_stream(t)
      PROVE  Device!Next \/ UNCHANGED Device!vars
  <2>1. PICK s \in Streams : s = on[t] /\ standby[s] /\ pc[t] = "start" /\ adevLock = t
    BY <1>0, <1>5 DEF start_output_stream, start_input_stream, OpOn, OutCalls, InCalls, Running, Holding
  <2>2. CASE UNCHANGED <<standby, pcm>>
    BY <1>1, <1>5, <2>2 DEF start_output_stream, start_input_stream
  <2>3. CASE /\ pcm' = [pcm EXCEPT ![s] = IF ScoRouted(s) THEN "sco" ELSE "main"]
             /\ standby' = [standby EXCEPT ![s] = FALSE]
    <3>1. /\ PlayingOf(s) = "none"
          /\ PlayingOf(s)' = IF ScoRouted(s) THEN "sco" ELSE "main"
          /\ \A r \in Streams \ {s} : PlayingOf(r)' = PlayingOf(r)
      BY <1>0, <2>1, <2>3 DEF PlayingOf
    <3>2. mixer = PathsFor(devices, orientation)
      BY <1>2, <2>1
    <3>3. UNCHANGED <<devices, orientation, mixer>>
      BY <1>5 DEF start_output_stream, start_input_stream
    <3> QED
      BY <2>1, <3>1, <3>2, <3>3, MapStart
  <2> QED
    BY <1>5, <2>1, <2>2, <2>3 DEF start_output_stream, start_input_stream, StartFailed
<1>6. ASSUME NEW t \in Threads, out_set_parameters(t) \/ in_set_parameters(t)
      PROVE  Device!Next \/ UNCHANGED Device!vars
  <2>1. CASE UNCHANGED devices
    BY <1>1, <1>6, <2>1 DEF out_set_parameters, in_set_parameters
  <2>2. CASE \/ \E val \in OutRoutes : Reroute(OUT_ALL, val) /\ ~TogglesSco(OUT_ALL_SCO, val)
             \/ \E val \in InRoutes : Reroute(IN_ALL, val) /\ ~TogglesSco(IN_ALL_SCO, val)
    <3>1. \A s \in Streams : LinkOf(s)' = LinkOf(s)
      BY <2>2 DEF Reroute, TogglesSco, LinkOf
    <3>2. \A s \in Streams : PlayingOf(s)' = PlayingOf(s)
      BY <1>6 DEF PlayingOf, out_set_parameters, in_set_parameters
    <3>3. mixer = PathsFor(devices, orientation) /\ UNCHANGED mixer
      BY <1>2, <1>6 DEF out_set_parameters, in_set_parameters
    <3> QED
      BY <3>1, <3>2, <3>3, MapRoute
  <2> QED
    BY <1>6, <2>1, <2>2 DEF out_set_parameters, in_set_parameters
<1>7. ASSUME NEW t \in Threads, OutLeavePcm(t) PROVE Device!Next
  <2>1. on[t] \in Outs /\ arg[t] \subseteq OUT_ALL /\ arg[t] \cap OUT_ALL_SCO # devices \cap OUT_ALL_SCO
    BY <1>0, <1>7 DEF OutLeavePcm, OpOn, OutCalls, Toggling, TogglesSco
  <2>2. \A s \in Outs : LinkOf(s)' # LinkOf(s) /\ PlayingOf(s)' = "none"
    BY <1>0, <1>7, <2>1 DEF OutLeavePcm, do_out_standby, Reroute, LinkOf, PlayingOf
  <2>3. \A s \in Ins : LinkOf(s)' = LinkOf(s) /\ PlayingOf(s)' = PlayingOf(s)
    BY <1>0, <1>7, <2>1 DEF OutLeavePcm, do_out_standby, Reroute, LinkOf, PlayingOf
  <2>4. mixer = PathsFor(devices, orientation) /\ UNCHANGED mixer
    BY <1>0, <1>2, <1>7 DEF OutLeavePcm, Holding
  <2> QED
    BY <2>2, <2>3, <2>4, MapRoute
<1>8. ASSUME NEW t \in Threads, InLeavePcm(t) PROVE Device!Next
  <2>1. on[t] \in Ins /\ arg[t] \subseteq IN_ALL /\ arg[t] \cap IN_ALL_SCO # devices \cap IN_ALL_SCO
    BY <1>0, <1>8 DEF InLeavePcm, OpOn, InCalls, Toggling, TogglesSco
  <2>2. \A s \in Ins : LinkOf(s)' # LinkOf(s) /\ PlayingOf(s)' = "none"
    BY <1>0, <1>8, <2>1 DEF InLeavePcm, do_in_standby, Reroute, LinkOf, PlayingOf
  <2>3. \A s \in Outs : LinkOf(s)' = LinkOf(s) /\ PlayingOf(s)' = PlayingOf(s)
    BY <1>0, <1>8, <2>1 DEF InLeavePcm, do_in_standby, Reroute, LinkOf, PlayingOf
  <2>4. mixer = PathsFor(devices, orientation) /\ UNCHANGED mixer
    BY <1>0, <1>2, <1>8 DEF InLeavePcm, Holding
  <2> QED
    BY <2>2, <2>3, <2>4, MapRoute
<1>9. ASSUME NEW t \in Threads, adev_set_parameters(t) PROVE Device!Next
  <2>1. mixer = PathsFor(devices, orientation) /\ UNCHANGED mixer
    BY <1>2, <1>9 DEF adev_set_parameters
  <2>2. \A s \in Streams : LinkOf(s)' = LinkOf(s) /\ PlayingOf(s)' = PlayingOf(s)
    BY <1>9 DEF adev_set_parameters, LinkOf, PlayingOf
  <2> QED
    BY <2>1, <2>2, MapRoute
<1>10. ASSUME NEW t \in Threads, select_devices(t) PROVE Device!Next
  <2>1. mixer' = PathsFor(devices, orientation) /\ UNCHANGED <<devices, orientation, standby, pcm>>
    BY <1>10 DEF select_devices
  <2>2. PathsFor(devices, orientation)' = PathsFor(devices, orientation)
    BY <2>1 DEF PathsFor
  <2>3. /\ [s \in Streams |-> LinkOf(s)]' = [s \in Streams |-> LinkOf(s)]
        /\ [s \in Streams |-> IF standby[s] THEN "none" ELSE pcm[s]]'
             = [s \in Streams |-> IF standby[s] THEN "none" ELSE pcm[s]]
    BY <2>1 DEF LinkOf
  <2> QED
    BY <2>1, <2>2, <2>3 DEF Device!Next, Device!Show
<1>11. ASSUME NEW t \in Threads, Call(t) PROVE UNCHANGED Device!vars
  BY <1>1, <1>11 DEF Call, CallOut, CallIn, CallCloseOutput, CallCloseInput, CallSetParameters, Enter
<1>12. ASSUME NEW off \in BOOLEAN, SetScreenState(off) PROVE UNCHANGED Device!vars
  BY <1>1, <1>12 DEF SetScreenState
<1>13. ASSUME NEW t \in Threads,
              \/ TakeAdevLock(t) \/ Free(t) \/ out_get_latency(t) \/ WriteToStart(t) \/ WriteRunning(t)
              \/ out_write(t) \/ ReadToStart(t) \/ ReadRunning(t) \/ in_read(t)
              \/ ExitAfterFailure(t)
       PROVE  UNCHANGED Device!vars
  BY <1>1, <1>13 DEF TakeAdevLock, Free, out_get_latency, WriteToStart, WriteRunning, out_write,
     ReadToStart, ReadRunning, in_read, ExitAfterFailure
<1>14. CASE UNCHANGED vars
  BY <1>1, <1>14 DEF vars
<1> QED
  BY <1>3, <1>4, <1>5, <1>6, <1>7, <1>8, <1>9, <1>10, <1>11, <1>12, <1>13, <1>14
     DEF Next, Step, adev_open_output_stream, adev_open_input_stream

(* With one stream in each direction, the threads and their mutexes are    *)
(* the device that starts streams on the routed PCM only and only when the *)
(* codec shows the routing.                                                *)
THEOREM ImplementsDevice ==
  ASSUME OneOfEach
  PROVE  Spec => ActsAsDevice
<1>1. Init => Device!Init
  <2> SUFFICES ASSUME Init PROVE Device!Init
    OBVIOUS
  <2>1. [s \in Streams |-> LinkOf(s)] \in [Streams -> SUBSET (OUT_ALL_SCO \cup IN_ALL_SCO)]
    BY DEF LinkOf
  <2>2. [s \in Streams |-> IF standby[s] THEN "none" ELSE pcm[s]] = [s \in Streams |-> "none"]
    BY DEF Init
  <2>3. mixer = PathsFor(devices, orientation)
    BY DEF Init, PathsFor
  <2> QED
    BY <2>1, <2>2, <2>3 DEF Device!Init
<1>2. Init => Toggling
  BY DEF Init, Toggling
<1>3. Inv /\ Toggling /\ [Next]_vars => Toggling'
  BY TogglingStep
<1>4. Inv /\ CodecMatches /\ Routed /\ Toggling /\ [Next]_vars => [Device!Next]_(Device!vars)
  BY OneOfEach, DeviceStep DEF ImplInv
<1>5. Spec => []Routed
  BY OneOfEach, RoutedAlways
<1> QED
  BY <1>1, <1>2, <1>3, <1>4, <1>5, InvAlways, CodecAlways, PTL DEF Spec, ActsAsDevice, Device!Spec

------------------------------------------------------------------------------
(* The buffer and the latency.  A write in progress carries the choice of  *)
(* buffer that fits the screen and the capture, or the output is stale.    *)

Buffered == \A s \in Outs \ stale :
  ~standby[s] /\ pcm[s] = "main" =>
    /\ lock[s] = NoThread => bufType[s] = BufferType
    /\ \A t \in Threads : pc[t] = "io" /\ on[t] = s => want[t] = BufferType

LEMMA BufferedStep ==
  OneOfEach /\ Inv /\ Routed /\ Buffered /\ [Next]_vars => Buffered'
<1> SUFFICES ASSUME OneOfEach, Inv, Routed, Buffered, [Next]_vars PROVE Buffered'
  OBVIOUS
<1>0. CallTypes /\ StreamTypes /\ LockTypes /\ OpOn /\ Holding /\ Running
      /\ stale \subseteq Outs /\ bufType \in [Streams -> {"unknown", "short", "long"}]
  BY Parts DEF Inv, Typed, TypeOK, LockTypes
<1> USE DEF CallTypes, StreamTypes, LockTypes, OneOfEach
(* A step that leaves the outputs and the writes that run alone.           *)
<1>1. ASSUME Settle({}),
             \A s \in Outs :
               /\ ~standby'[s] => ~standby[s] /\ pcm'[s] = pcm[s]
               /\ lock'[s] = NoThread => lock[s] = NoThread
               /\ bufType'[s] = bufType[s],
             \A u \in Threads : pc'[u] = "io" /\ on'[u] \in Outs =>
                                pc[u] = "io" /\ on'[u] = on[u] /\ want'[u] = want[u]
      PROVE  Buffered'
  <2>1. CASE stale' = Outs
    BY <2>1 DEF Buffered
  <2>2. CASE stale' = stale /\ BufferType' = BufferType
    <3> SUFFICES ASSUME NEW s \in Outs \ stale, ~standby'[s], pcm'[s] = "main"
                 PROVE  /\ lock'[s] = NoThread => bufType'[s] = BufferType
                        /\ \A u \in Threads : pc'[u] = "io" /\ on'[u] = s => want'[u] = BufferType
      BY <2>2 DEF Buffered
    <3>1. ~standby[s] /\ pcm[s] = "main"
      BY <1>1
    <3>2. /\ lock[s] = NoThread => bufType[s] = BufferType
          /\ \A u \in Threads : pc[u] = "io" /\ on[u] = s => want[u] = BufferType
      BY <3>1 DEF Buffered
    <3> QED
      BY <1>1, <3>2
  <2> QED
    BY <1>1, <2>1, <2>2 DEF Settle
<1>2. UNCHANGED <<stale, screenOff, activeIn>> => Settle({})
  BY DEF Settle, BufferType
<1>3. ASSUME NEW t \in Threads, Call(t) PROVE Buffered'
  BY <1>0, <1>1, <1>2, <1>3 DEF Call, CallOut, CallIn, CallCloseOutput, CallCloseInput,
     CallSetParameters, Enter
<1>4. ASSUME NEW s \in Streams \ opened, Allocate(s) PROVE Buffered'
  <2>1. \A r \in Outs : ~standby'[r] => r # s
    BY <1>0, <1>4 DEF Allocate
  <2>2. \A r \in Outs \ {s} : standby'[r] = standby[r] /\ pcm'[r] = pcm[r] /\ bufType'[r] = bufType[r]
    BY <1>0, <1>4 DEF Allocate
  <2>3. BufferType' = BufferType
    BY <1>4 DEF Allocate, BufferType
  <2> QED
    BY <1>4, <2>1, <2>2, <2>3 DEF Buffered, Allocate
<1>5. ASSUME NEW off \in BOOLEAN, SetScreenState(off) PROVE Buffered'
  BY <1>0, <1>1, <1>5 DEF SetScreenState
<1>6. ASSUME NEW t \in Threads,
             Return(t) \/ \E l \in PcLabels \ {"io"} : Goto(t, l)
      PROVE  \A u \in Threads : pc'[u] = "io" =>
                pc[u] = "io" /\ on'[u] = on[u] /\ want'[u] = want[u]
  BY <1>0, <1>6 DEF Return, Goto
<1>7. ASSUME NEW t \in Threads, out_standby(t) \/ OutLeavePcm(t) PROVE Buffered'
  <2>1. on[t] \in Outs
    BY <1>0, <1>7 DEF out_standby, OutLeavePcm, OpOn, OutCalls
  <2>2. \A s \in Outs : ~standby'[s] => ~standby[s] /\ pcm'[s] = pcm[s]
    BY <1>0, <1>7, <2>1 DEF out_standby, OutLeavePcm, do_out_standby
  <2>3. Return(t) \/ \E l \in PcLabels \ {"io"} : Goto(t, l)
    BY <1>7 DEF out_standby, OutLeavePcm, PcLabels
  <2> QED
    BY <1>1, <1>2, <1>6, <1>7, <2>2, <2>3 DEF out_standby, OutLeavePcm
<1>8. ASSUME NEW t \in Threads, in_standby(t) \/ InLeavePcm(t) PROVE Buffered'
  <2>1. on[t] \in Ins
    BY <1>0, <1>8 DEF in_standby, InLeavePcm, OpOn, InCalls
  <2>2. \A s \in Outs : ~standby'[s] => ~standby[s] /\ pcm'[s] = pcm[s]
    BY <1>0, <1>8, <2>1 DEF in_standby, InLeavePcm, do_in_standby
  <2>3. Return(t) \/ \E l \in PcLabels \ {"io"} : Goto(t, l)
    BY <1>8 DEF in_standby, InLeavePcm, PcLabels
  <2> QED
    BY <1>1, <1>6, <1>8, <2>2, <2>3 DEF in_standby, InLeavePcm
<1>9. ASSUME NEW t \in Threads,
             \/ TakeAdevLock(t) \/ Free(t) \/ adev_set_parameters(t) \/ select_devices(t)
             \/ out_get_latency(t)
      PROVE  Buffered'
  <2>1. Return(t) \/ \E l \in PcLabels \ {"io"} : Goto(t, l)
    BY <1>9 DEF TakeAdevLock, Free, adev_set_parameters, select_devices, out_get_latency, PcLabels
  <2> QED
    BY <1>1, <1>2, <1>6, <1>9, <2>1 DEF TakeAdevLock, Free, adev_set_parameters, select_devices,
       out_get_latency
<1>10. ASSUME NEW t \in Threads, out_set_parameters(t) \/ in_set_parameters(t) PROVE Buffered'
  <2>1. CASE pc' = [pc EXCEPT ![t] = "stream"] /\ UNCHANGED <<on, want>>
    BY <1>0, <1>1, <1>2, <1>10, <2>1 DEF out_set_parameters, in_set_parameters
  <2>2. CASE Return(t) \/ Goto(t, "select")
    BY <1>1, <1>2, <1>6, <1>10, <2>2 DEF out_set_parameters, in_set_parameters, PcLabels
  <2> QED
    BY <1>10, <2>1, <2>2 DEF out_set_parameters, in_set_parameters
<1>11. ASSUME NEW t \in Threads, WriteToStart(t) \/ ReadToStart(t) PROVE Buffered'
  <2>1. on[t] \in Streams /\ t # NoThread
    BY <1>0, <1>11 DEF WriteToStart, ReadToStart, OpOn, OutCalls, InCalls
  <2>2. \A s \in Outs : lock'[s] = NoThread => lock[s] = NoThread
    BY <1>0, <1>11, <2>1 DEF WriteToStart, ReadToStart
  <2> QED
    BY <1>1, <1>2, <1>6, <1>11, <2>2 DEF WriteToStart, ReadToStart, PcLabels
<1>12. ASSUME NEW t \in Threads, ReadRunning(t) \/ in_read(t) PROVE Buffered'
  <2>1. on[t] \in Ins
    BY <1>0, <1>12 DEF ReadRunning, in_read, OpOn, InCalls
  <2>2. \A s \in Outs : lock'[s] = lock[s]
    BY <1>0, <1>12, <2>1 DEF ReadRunning, in_read
  <2>3. \A u \in Threads : pc'[u] = "io" /\ on'[u] \in Outs =>
                           pc[u] = "io" /\ on'[u] = on[u] /\ want'[u] = want[u]
    BY <1>0, <1>12, <2>1 DEF ReadRunning, in_read, Goto, Return
  <2> QED
    BY <1>1, <1>2, <1>12, <2>2, <2>3 DEF ReadRunning, in_read
<1>13. ASSUME NEW t \in Threads, start_input_stream(t) PROVE Buffered'
  <2>1. on[t] \in Ins
    BY <1>0, <1>13 DEF start_input_stream, OpOn, InCalls
  <2>2. CASE StartFailed(t) /\ UNCHANGED <<activeIn, stale>>
    BY <1>1, <1>2, <1>6, <1>13, <2>2 DEF start_input_stream, StartFailed, PcLabels
  <2>3. CASE Settle({}) /\ Goto(t, "io") /\ UNCHANGED lock
    <3>1. \A s \in Outs : standby'[s] = standby[s] /\ pcm'[s] = pcm[s] /\ bufType'[s] = bufType[s]
      BY <1>0, <1>13, <2>1 DEF start_input_stream, StartFailed
    <3>2. \A u \in Threads : pc'[u] = "io" /\ on'[u] \in Outs =>
                             pc[u] = "io" /\ on'[u] = on[u] /\ want'[u] = want[u]
      BY <1>0, <2>1, <2>3 DEF Goto
    <3> QED
      BY <1>1, <2>3, <3>1, <3>2
  <2> QED
    BY <1>13, <2>2, <2>3 DEF start_input_stream
<1>14. ASSUME NEW t \in Threads, NEW s \in Outs, on[t] = s, ChooseBuffer(t),
              ScoRouted(s) => pcm'[s] # "main",
              lock[s] \in {t, NoThread}, lock'[s] = t
       PROVE  Buffered'
  <2>1. BufferType' = BufferType
    BY <1>14 DEF ChooseBuffer, BufferType
  <2>2. CASE ScoRouted(s)
    BY <1>14, <2>2 DEF Buffered
  <2>3. CASE ~ScoRouted(s)
    <3>1. want'[t] = BufferType /\ pc'[t] = "io" /\ on' = on
      BY <1>0, <1>14, <2>3 DEF ChooseBuffer
    <3>2. \A u \in Threads \ {t} : ~(pc'[u] = "io" /\ on'[u] = s)
      <4>1. \A u \in Threads \ {t} : pc'[u] = pc[u] /\ on'[u] = on[u]
        BY <1>0, <1>14 DEF ChooseBuffer
      <4>2. \A u \in Threads \ {t} : ~(pc[u] = "io" /\ on[u] = s)
        BY <1>0, <1>14 DEF Holding
      <4> QED
        BY <4>1, <4>2
    <3> QED
      BY <1>14, <2>1, <3>1, <3>2 DEF Buffered
  <2> QED
    BY <2>2, <2>3
<1>15. ASSUME NEW t \in Threads, WriteRunning(t) PROVE Buffered'
  <2>1. PICK s \in Outs : s = on[t]
    BY <1>0, <1>15 DEF WriteRunning, OpOn, OutCalls
  <2>2. ScoRouted(s) => pcm'[s] # "main"
    BY <1>15, <2>1 DEF WriteRunning, Routed, PcmMatchesRoute
  <2> QED
    BY <1>0, <1>14, <1>15, <2>1, <2>2 DEF WriteRunning
<1>16. ASSUME NEW t \in Threads, start_output_stream(t) PROVE Buffered'
  <2>1. PICK s \in Outs : s = on[t] /\ lock[s] = t /\ standby[s]
    BY <1>0, <1>16 DEF start_output_stream, OpOn, OutCalls, Holding, Running
  <2>2. CASE StartFailed(t)
    <3>1. \A r \in Outs : standby'[r]
      BY <1>0, <2>1, <2>2 DEF StartFailed
    <3> QED
      BY <3>1 DEF Buffered
  <2>3. CASE /\ pcm' = [pcm EXCEPT ![s] = IF ScoRouted(s) THEN "sco" ELSE "main"]
             /\ ChooseBuffer(t) /\ UNCHANGED lock
    <3>1. ScoRouted(s) => pcm'[s] # "main"
      BY <1>0, <2>3
    <3> QED
      BY <1>14, <2>1, <2>3, <3>1
  <2> QED
    BY <1>16, <2>1, <2>2, <2>3 DEF start_output_stream
<1>17. ASSUME NEW t \in Threads, out_write(t) PROVE Buffered'
  <2>1. PICK s \in Outs : s = on[t] /\ lock[s] = t /\ ~standby[s]
    BY <1>0, <1>17 DEF out_write, OpOn, OutCalls, Holding, Running
  <2>2. BufferType' = BufferType
    BY <1>17 DEF out_write, BufferType
  <2>3. CASE s \notin stale /\ pcm[s] = "main"
    <3>1. want[t] = BufferType
      BY <1>17, <2>1, <2>3 DEF Buffered, out_write
    <3>2. bufType'[s] = BufferType
      <4>1. want[t] # "keep"
        BY <3>1 DEF BufferType
      <4> QED
        BY <1>0, <1>17, <2>1, <3>1, <4>1 DEF out_write, AdoptBuffer
    <3>3. \A u \in Threads : ~(pc'[u] = "io" /\ on'[u] = s)
      BY <1>0, <1>17, <2>1 DEF Holding, out_write, Return
    <3> QED
      BY <2>1, <2>2, <3>2, <3>3 DEF Buffered
  <2>4. CASE ~(s \notin stale /\ pcm[s] = "main")
    BY <1>17, <2>1, <2>4 DEF Buffered, out_write
  <2> QED
    BY <2>3, <2>4
<1>18. CASE UNCHANGED vars
  BY <1>1, <1>2, <1>18 DEF vars
<1>19. ASSUME NEW t \in Threads, ExitAfterFailure(t) PROVE Buffered'
  <2>1. on[t] \in Streams /\ standby[on[t]]
    BY <1>0, <1>19 DEF ExitAfterFailure, OpOn, OutCalls, InCalls, Holding, Running
  <2>2. \A s \in Outs : ~standby'[s] => lock'[s] = lock[s]
    BY <1>0, <1>19, <2>1 DEF ExitAfterFailure
  <2>3. \A u \in Threads : pc'[u] = "io" => pc[u] = "io" /\ on'[u] = on[u] /\ want'[u] = want[u]
    BY <1>6, <1>19 DEF ExitAfterFailure
  <2>4. BufferType' = BufferType
    BY <1>19 DEF ExitAfterFailure, BufferType
  <2> QED
    BY <1>19, <2>2, <2>3, <2>4 DEF Buffered, ExitAfterFailure
<1> QED
  BY <1>3, <1>4, <1>5, <1>7, <1>8, <1>9, <1>10, <1>11, <1>12, <1>13, <1>15, <1>16, <1>17, <1>18, <1>19
     DEF Next, Step, adev_open_output_stream, adev_open_input_stream

(* With one stream in each direction, the latency of the main PCM is that  *)
(* of the buffer the last write used, unless the screen or the capture     *)
(* changed the choice since.                                               *)
THEOREM LatencyIsThatOfBuffer ==
  ASSUME OneOfEach
  PROVE  Spec => []LatencyMatchesBuffer
<1>1. Init => Buffered
  BY DEF Init, Buffered
<1>2. Inv /\ Routed /\ Buffered /\ [Next]_vars => Buffered'
  BY OneOfEach, BufferedStep
<1>3. Inv /\ Routed /\ Buffered => LatencyMatchesBuffer
  <2> SUFFICES ASSUME Inv, Routed, Buffered, NEW s \in Outs \ stale,
                      ~standby[s], pcm[s] = "main", lock[s] = NoThread
               PROVE  bufType[s] = LatencyType
    BY DEF LatencyMatchesBuffer
  <2>1. bufType[s] = BufferType
    BY DEF Buffered
  <2>2. devices \cap OUT_ALL_SCO = {}
    BY DEF Routed, PcmMatchesRoute, ScoRouted, LinkOf
  <2> QED
    BY <2>1, <2>2 DEF BufferType, LatencyType
<1>4. Spec => []Routed
  BY OneOfEach, RoutedAlways
<1> QED
  BY <1>1, <1>2, <1>3, <1>4, InvAlways, PTL DEF Spec

==============================================================================
