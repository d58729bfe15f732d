------------------------ MODULE CaptureBuffer_proofs ------------------------
(***************************************************************************)
(* The capture path, for every period, alignment, set of rates and need of *)
(* the resampler: its types, the order of the samples, the bounds of the   *)
(* period buffer and the origin of its errors.                             *)
(***************************************************************************)
EXTENDS CaptureBuffer, TLAPS

------------------------------------------------------------------------------
(* The size a caller reads with.                                           *)

(* A period is not rounded: it is a multiple of the unit.                  *)
LEMMA PeriodIsRound == RoundUp(Period) = Period
<1> DEFINE k == Period \div Align
           q == (Period + Align - 1) \div Align
           r == (Period + Align - 1) % Align
<1>1. k \in Nat /\ Period = k * Align
  BY CaptureAssumption
<1>2. /\ q \in Int /\ r \in 0 .. Align - 1
      /\ Period + Align - 1 = q * Align + r
  BY CaptureAssumption
<1> HIDE DEF k, q, r
<1>3. (q - k) * Align = Align - 1 - r
  BY <1>1, <1>2, CaptureAssumption
<1>4. (q - k) * Align \in 0 .. Align - 1
  BY <1>2, <1>3, CaptureAssumption
<1>5. ~ (q - k >= 1)
  BY <1>1, <1>2, <1>4, CaptureAssumption
<1>6. ~ (q - k <= -1)
  BY <1>1, <1>2, <1>4, CaptureAssumption
<1>7. q = k
  BY <1>1, <1>2, <1>5, <1>6
<1> QED
  BY <1>1, <1>7 DEF RoundUp, q

(* Rounding up loses nothing.                                              *)
LEMMA RoundUpBound ==
  ASSUME NEW n \in Nat \ {0} PROVE RoundUp(n) \in Nat \ {0}
<1>1. RoundUp(n) >= n
  BY CaptureAssumption DEF RoundUp
<1>2. RoundUp(n) \in Nat
  BY CaptureAssumption DEF RoundUp
<1> QED
  BY <1>1, <1>2

(* Every read asks for at least a frame, and for a period at the rate of   *)
(* the PCM.                                                                *)
LEMMA BufferSize ==
  /\ \A rate \in Rates : in_get_buffer_size(rate) \in Nat \ {0}
  /\ in_get_buffer_size(PcmRate) = Period
<1>1. ASSUME NEW rate \in Rates
      PROVE  in_get_buffer_size(rate) \in Nat \ {0}
  <2>1. (Period * rate) \div PcmRate \in Nat \ {0}
    BY CaptureAssumption
  <2> QED
    BY <2>1, RoundUpBound DEF in_get_buffer_size
<1>2. (Period * PcmRate) \div PcmRate = Period
  BY CaptureAssumption
<1> QED
  BY <1>1, <1>2, PeriodIsRound DEF in_get_buffer_size

------------------------------------------------------------------------------
(* The inductive invariant.                                                *)

(* A call runs on an open PCM, by the path its rate asks for.              *)
Call ==
  /\ pc \in {"pull", "copy"} => ~standby /\ left \in Nat \ {0} /\ ret = "ok"
  /\ pc # "idle" => requested # 0
  /\ pc = "pull" => requested # PcmRate
  /\ pc = "copy" => requested = PcmRate /\ left = Period
  /\ pc = "exit" /\ ret = "error" => failed

(* What is left in the period buffer is only used by the provider, and an  *)
(* error was met with nothing left.                                        *)
Left ==
  /\ framesIn <= Period
  /\ requested = PcmRate => framesIn = 0
  /\ readStatus = "error" => framesIn = 0

(* The frames left in it are the last ones captured, in order.             *)
Content ==
  /\ ~standby => next + (IF leftover THEN 0 ELSE framesIn) = captured
  /\ ~standby /\ ~leftover =>
       \A j \in 0 .. framesIn - 1 :
         buffer[Period - framesIn + j] = 2 * (next + j)

Inv == Values /\ Call /\ Left /\ Content /\ LeftSamplesInOrder

(* All that is needed of the constants from here on.                       *)
LEMMA Sizes ==
  /\ Period \in Nat \ {0} /\ MaxNeed \in Nat \ {0}
  /\ PcmRate \in Nat \ {0} /\ Rates \subseteq Nat \ {0}
  BY CaptureAssumption

USE Sizes
USE DEF streamVars, deviceVars, callVars, history, PeriodSize,
        SCO_PERIOD_SIZE, Channels, Junk

LEMMA InitInv == Init => Inv
<1> SUFFICES ASSUME Init PROVE Inv
  OBVIOUS
<1>1. Values
  BY DEF Init, Values
<1>2. Call /\ Left /\ Content
  BY DEF Init, Call, Left, Content
<1>3. LeftSamplesInOrder
  BY DEF Init, LeftSamplesInOrder
<1> QED
  BY <1>1, <1>2, <1>3 DEF Inv

(* A step that hands nothing on is in order.                               *)
LEMMA NothingGiven == given' = <<>> => LeftSamplesInOrder'
  BY DEF LeftSamplesInOrder

------------------------------------------------------------------------------
(* One lemma per kind of step.                                             *)

LEMMA LifeInv ==
  ASSUME Inv,
         adev_open_input_stream \/ adev_close_input_stream \/ in_standby \/ ToggleSco
  PROVE  Inv'
<1> USE DEF Inv, adev_open_input_stream, adev_close_input_stream, in_standby,
            ToggleSco, do_in_standby
<1>1. Values'
  BY DEF Values
<1>2. Call' /\ Left'
  BY DEF Values, Call, Left
<1>3. Content'
  BY DEF Values, Content
<1>4. LeftSamplesInOrder'
  BY NothingGiven
<1> QED
  BY <1>1, <1>2, <1>3, <1>4

LEMMA MuteInv == ASSUME Inv, adev_set_mic_mute PROVE Inv'
  BY DEF Inv, Values, Call, Left, Content, LeftSamplesInOrder, adev_set_mic_mute

LEMMA BeginInv == ASSUME Inv, ReadBegins PROVE Inv'
<1> USE DEF Inv, ReadBegins
<1>1. requested \in Rates /\ left' \in Nat \ {0}
      /\ (requested = PcmRate => left' = Period)
  BY BufferSize DEF Values
<1>2. CASE ~standby
  <2>1. Values'
    BY <1>1, <1>2 DEF Values
  <2>2. Call' /\ Left'
    BY <1>1, <1>2 DEF Values, Call, Left
  <2>3. Content' /\ LeftSamplesInOrder'
    BY <1>2, NothingGiven DEF Values, Content
  <2> QED
    BY <2>1, <2>2, <2>3
<1>3. CASE standby /\ ret' = "error"
  BY <1>1, <1>3 DEF start_input_stream, Values, Call, Left, Content,
                    LeftSamplesInOrder
<1>4. CASE standby /\ ret' = "ok"
  <2>1. Values'
    <3>1. buffer' = [i \in 0 .. PeriodSize(config') * Channels(config') - 1 |-> Junk]
          /\ config' \in {"in", "sco"} /\ standby' = FALSE
      BY <1>4 DEF start_input_stream
    <3>2. DOMAIN buffer' = 0 .. PeriodSize(config') * Channels(config') - 1
      BY ONLY <3>1
    <3> QED
      BY <1>1, <1>4, <3>1, <3>2 DEF start_input_stream, Values
  <2>2. Call' /\ Left'
    BY <1>1, <1>4 DEF start_input_stream, Values, Call, Left
  <2>3. Content' /\ LeftSamplesInOrder'
    BY <1>4, NothingGiven DEF start_input_stream, Values, Content
  <2> QED
    BY <2>1, <2>2, <2>3
<1> QED
  BY <1>2, <1>3, <1>4 DEF start_input_stream

LEMMA RefillInv == ASSUME Inv, Refill PROVE Inv'
<1> USE DEF Inv, Refill, StatusOf
<1>1. LeftSamplesInOrder'
  BY DEF LeftSamplesInOrder
<1>2. CASE readStatus' = "error"
  BY <1>1, <1>2 DEF Values, Call, Left, Content
<1>3. CASE readStatus' = "ok"
  <2>1. /\ framesIn' = Period /\ captured' = captured + Period
        /\ leftover' = FALSE /\ failed' = failed /\ next' = next
        /\ ~standby /\ ~standby' /\ config' = config
        /\ buffer' = IF Channels(config) = 2
                     THEN DiscardRight(Recorded(Period), Period) ELSE Recorded(Period)
    BY <1>3 DEF Call
  <2>2. next = captured
    BY <2>1 DEF Values, Content
  <2>3. DOMAIN buffer' = 0 .. Period * Channels(config) - 1
    BY <2>1 DEF Recorded, DiscardRight
  <2>4. ASSUME NEW j \in 0 .. Period - 1
        PROVE  buffer'[j] = 2 * (captured + j)
    <3>1. CASE config = "in"
      <4>1. Recorded(Period) = [i \in 0 .. Period * 2 - 1 |-> 2 * captured + i]
        BY <3>1 DEF Recorded
      <4>2. buffer'[j] = IF j \in 1 .. Period - 1 THEN Recorded(Period)[2 * j]
                         ELSE Recorded(Period)[j]
        BY <2>1, <3>1, <4>1 DEF DiscardRight
      <4>3. j \in Int /\ captured \in Int /\ 2 * j \in 0 .. Period * 2 - 1
        BY DEF Values
      <4>4. Recorded(Period)[j] = 2 * captured + j
        BY <4>1
      <4>5. Recorded(Period)[2 * j] = 2 * captured + 2 * j
        BY <4>1, <4>3
      <4> QED
        BY <4>2, <4>3, <4>4, <4>5
    <3>2. CASE config = "sco"
      BY <2>1, <3>2 DEF Values, Recorded
    <3> QED
      BY <3>1, <3>2 DEF Values
  <2>5. Values'
    BY <1>3, <2>1, <2>3 DEF Values
  <2>6. Call' /\ Left'
    BY <1>3, <2>1 DEF Values, Call, Left
  <2>7. Content'
    BY <2>1, <2>2, <2>4 DEF Values, Content
  <2> QED
    BY <1>1, <2>5, <2>6, <2>7
<1> QED
  BY <1>2, <1>3

LEMMA PullInv == ASSUME Inv, Pull PROVE Inv'
<1> USE DEF Inv
<1>1. PICK n \in IF need = 0 THEN 1 .. MaxNeed ELSE {need} :
        /\ given' = [i \in 1 .. Clamped(n) |-> SampleAt(Offset(framesIn) + i - 1)]
        /\ framesIn' = framesIn - Clamped(n)
        /\ next' = IF leftover THEN next ELSE next + Clamped(n)
        /\ need' = n - Clamped(n)
        /\ IF Clamped(n) = n THEN left' = left - 1 /\ content' = "samples"
           ELSE UNCHANGED <<left, content>>
  BY DEF Pull
<1> DEFINE count == Clamped(n)
<1>2. n \in 1 .. MaxNeed /\ framesIn \in 1 .. Period
  BY DEF Pull, Values, Left
<1>3. count \in 1 .. framesIn /\ n - count \in 0 .. MaxNeed
  BY <1>2 DEF Clamped
<1>4. /\ pc = "pull" /\ readStatus = "ok" /\ readStatus' = "ok" /\ ret' = "ok"
      /\ pc' = IF left' = 0 THEN "exit" ELSE "pull"
      /\ UNCHANGED <<requested, standby, config, buffer, deviceVars, captured,
                     leftover, failed, muted>>
  BY <1>2 DEF Pull, Left, Values
<1>5. given' = [i \in 1 .. count |-> SampleAt(Offset(framesIn) + i - 1)]
      /\ framesIn' = framesIn - count /\ need' = n - count
      /\ next' = IF leftover THEN next ELSE next + count
  BY <1>1
<1>6. left \in Nat \ {0} /\ left' \in Nat /\ content' \in {"samples", content}
  BY <1>1, <1>4 DEF Call
<1> HIDE DEF count
<1>7. Values'
  BY <1>2, <1>3, <1>4, <1>5, <1>6 DEF Values
<1>8. Call' /\ Left'
  BY <1>2, <1>3, <1>4, <1>5, <1>6 DEF Values, Call, Left
<1>9. Content'
  <2>1. ~standby
    BY <1>4 DEF Call
  <2>2. CASE leftover
    BY <1>4, <1>5, <2>1, <2>2 DEF Values, Content
  <2>3. CASE ~leftover
    <3>1. next' + framesIn' = captured'
      BY <1>2, <1>3, <1>4, <1>5, <2>1, <2>3 DEF Values, Content
    <3>2. ASSUME NEW j \in 0 .. framesIn' - 1
          PROVE  buffer'[Period - framesIn' + j] = 2 * (next' + j)
      <4>1. count + j \in 0 .. framesIn - 1
        BY <1>2, <1>3, <1>5, <3>2
      <4>2. buffer[Period - framesIn + (count + j)] = 2 * (next + (count + j))
        BY <4>1, <2>1, <2>3 DEF Content
      <4> QED
        BY <4>2, <1>2, <1>3, <1>4, <1>5, <2>3 DEF Values
    <3> QED
      BY <3>1, <3>2, <1>4, <2>3 DEF Content
  <2> QED
    BY <2>2, <2>3
<1>10. LeftSamplesInOrder'
  <2> SUFFICES ASSUME ~leftover', NEW i \in 1 .. Len(given')
               PROVE  given'[i] = 2 * (next' - Len(given') + i - 1)
    BY DEF LeftSamplesInOrder
  <2>1. Len(given') = count
    BY <1>3, <1>5
  <2>2. given'[i] = SampleAt(Period - framesIn + i - 1)
    BY <1>5, <2>1 DEF Offset
  <2>3. i - 1 \in 0 .. framesIn - 1 /\ ~standby /\ ~leftover
    BY <1>2, <1>3, <1>4, <2>1 DEF Call
  <2>4. buffer[Period - framesIn + (i - 1)] = 2 * (next + (i - 1))
    BY <2>3 DEF Content
  <2>5. Period - framesIn + i - 1 \in DOMAIN buffer
    BY <1>2, <2>3 DEF Values
  <2> QED
    BY <1>2, <1>3, <1>5, <2>1, <2>2, <2>3, <2>4, <2>5 DEF SampleAt, Values
<1> QED
  BY <1>7, <1>8, <1>9, <1>10

LEMMA CopyInv == ASSUME Inv, CopyLeft PROVE Inv'
<1> USE DEF Inv, CopyLeft
<1>1. /\ left = Period /\ ~standby /\ framesIn = 0 /\ ret = "ok"
      /\ requested = PcmRate
  BY DEF Call, Left
<1>2. DOMAIN buffer = 0 .. 2 * Period - 1
  BY <1>1 DEF Values
<1>3. CASE ret' = "error"
  BY <1>1, <1>2, <1>3 DEF Values, Call, Left, Content, LeftSamplesInOrder
<1>4. CASE ret' = "ok"
  <2>1. /\ captured' = captured + Period /\ next' = next + Period
        /\ failed' = failed
        /\ buffer' = [i \in DOMAIN buffer |->
                        IF i \in DOMAIN Recorded(Period) THEN Recorded(Period)[i]
                        ELSE buffer[i]]
    BY <1>1, <1>4
  <2>2. Values'
    BY <1>1, <1>4, <2>1 DEF Values
  <2>3. Call' /\ Left' /\ Content'
    BY <1>1, <1>4, <2>1 DEF Values, Call, Left, Content
  <2>4. LeftSamplesInOrder'
    <3> SUFFICES ASSUME ~leftover', NEW i \in 1 .. Len(given')
                 PROVE  given'[i] = 2 * (next' - Len(given') + i - 1)
      BY DEF LeftSamplesInOrder
    <3>1. Len(given') = Period
      BY <1>1
    <3>2. given'[i] = SampleAt(2 * (i - 1))' /\ 2 * (i - 1) \in 0 .. 2 * Period - 1
      BY <1>1, <3>1
    <3>3. buffer'[2 * (i - 1)] = 2 * captured + 2 * (i - 1)
      BY <1>2, <2>1, <3>2 DEF Recorded
    <3>4. next = captured
      BY <1>1 DEF Content, Values
    <3>5. given'[i] = buffer'[2 * (i - 1)]
      BY <1>2, <2>1, <3>2 DEF SampleAt
    <3> QED
      BY <2>1, <3>1, <3>3, <3>4, <3>5 DEF Values
  <2> QED
    BY <2>2, <2>3, <2>4
<1> QED
  BY <1>1, <1>3, <1>4

LEMMA MonoInv == ASSUME Inv, ReadMono PROVE Inv'
<1> USE DEF Inv, ReadMono
<1>1. /\ left = Period /\ ~standby /\ framesIn = 0 /\ ret = "ok"
      /\ requested = PcmRate
  BY DEF Call, Left
<1>2. CASE ret' = "error"
  BY <1>1, <1>2 DEF Values, Call, Left, Content, LeftSamplesInOrder
<1>3. CASE ret' = "ok"
  <2>1. /\ given' = [i \in 1 .. Period |-> Recorded(Period)[i - 1]]
        /\ captured' = captured + Period /\ next' = next + Period
        /\ content' = "samples" /\ failed' = failed
    BY <1>1, <1>3
  <2>2. Values' /\ Call' /\ Left' /\ Content'
    BY <1>1, <1>3, <2>1 DEF Values, Call, Left, Content
  <2>3. LeftSamplesInOrder'
    BY <1>1, <2>1 DEF LeftSamplesInOrder, Recorded, Values, Content
  <2> QED
    BY <2>2, <2>3
<1> QED
  BY <1>1, <1>2, <1>3

LEMMA EndInv == ASSUME Inv, in_read PROVE Inv'
  BY DEF Inv, Values, Call, Left, Content, LeftSamplesInOrder, in_read

(* The flags are flags, whatever else happens.                             *)
LEMMA FlagsInv == ASSUME Flags, [Next]_vars PROVE Flags'
<1> USE DEF Flags
<1>1. CASE adev_open_input_stream \/ adev_close_input_stream \/ in_standby \/ ToggleSco
  BY <1>1 DEF adev_open_input_stream, adev_close_input_stream, in_standby,
              ToggleSco, do_in_standby
<1>2. CASE adev_set_mic_mute
  BY <1>2 DEF adev_set_mic_mute
<1>3. CASE ReadBegins
  BY <1>3 DEF ReadBegins, start_input_stream
<1>4. CASE Refill \/ Pull
  BY <1>4 DEF Refill, Pull
<1>5. CASE CopyLeft \/ ReadMono \/ in_read
  BY <1>5 DEF CopyLeft, ReadMono, in_read
<1>6. CASE UNCHANGED vars
  BY <1>6 DEF vars
<1> QED
  BY <1>1, <1>2, <1>3, <1>4, <1>5, <1>6 DEF Next, Reading

LEMMA NextInv == ASSUME Inv, [Next]_vars PROVE Inv'
<1>1. CASE UNCHANGED vars
  BY <1>1 DEF vars, Inv, Values, Call, Left, Content, LeftSamplesInOrder
<1> QED
  BY <1>1, LifeInv, MuteInv, BeginInv, RefillInv, PullInv, CopyInv, MonoInv,
     EndInv DEF Next, Reading

LEMMA Invariance == Spec => []Inv
  BY InitInv, NextInv, PTL DEF Spec

------------------------------------------------------------------------------

(* Every variable keeps its type: no count of frames ever goes below zero. *)
THEOREM TypeCorrect == Spec => []TypeOK
<1>1. Inv /\ Flags => TypeOK
  BY DEF Inv, TypeOK
<1>2. Init => Flags
  BY DEF Init, Flags
<1> QED
  BY Invariance, <1>1, <1>2, FlagsInv, PTL DEF Spec

(* Between two starts, and up to the first failure of the PCM, the left    *)
(* samples reach the caller once each, in the order they were captured,    *)
(* however the resampler cuts its requests.                                *)
THEOREM SamplesInOrder == Spec => []LeftSamplesInOrder
<1>1. Inv => LeftSamplesInOrder
  BY DEF Inv
<1> QED
  BY Invariance, <1>1, PTL

(* What is left in the period buffer, and what a direct read puts there,   *)
(* fits in it, across restarts on the other PCM.                           *)
THEOREM StaysInBuffer == Spec => []BufferFits
<1>1. Inv => BufferFits
  BY DEF Inv, Call, Left, BufferFits
<1> QED
  BY Invariance, <1>1, PTL

(* An error is the error of this call: the status of an earlier read is    *)
(* never returned for frames that are good.                                *)
THEOREM ErrorsAreFresh == Spec => []ErrorIsOfThisCall
<1>1. Inv => ErrorIsOfThisCall
  BY DEF Inv, Call, ErrorIsOfThisCall
<1> QED
  BY Invariance, <1>1, PTL

(* A caller muted throughout a read that the PCM did not fail gets no      *)
(* samples: muted since the begin, it is muted at the end, and there       *)
(* ret is "ok" unless the PCM failed.                                      *)
THEOREM MutedIsSilent == Spec => []MutedGivesNoSamples
<1> DEFINE Quiet == (muted => micMute) /\ MutedGivesNoSamples
<1>1. Init => Quiet
  BY DEF Init, MutedGivesNoSamples
<1>2. ASSUME Inv, Flags, Quiet, [Next]_vars PROVE Quiet'
  <2> USE DEF MutedGivesNoSamples
  <2>1. CASE adev_open_input_stream \/ adev_close_input_stream \/ in_standby \/ ToggleSco
    BY <1>2, <2>1 DEF adev_open_input_stream, adev_close_input_stream,
                      in_standby, ToggleSco
  <2>2. CASE adev_set_mic_mute
    BY <1>2, <2>2 DEF adev_set_mic_mute
  <2>3. CASE ReadBegins
    BY <1>2, <2>3 DEF ReadBegins, start_input_stream
  <2>4. CASE Refill \/ Pull
    BY <1>2, <2>4 DEF Refill, Pull
  <2>5. CASE CopyLeft \/ ReadMono
    BY <1>2, <2>5 DEF CopyLeft, ReadMono
  <2>6. CASE in_read
    <3>1. ~failed => ret = "ok"
      BY <1>2, <2>6 DEF Inv, Values, Call, in_read
    <3> QED
      BY <1>2, <2>6, <3>1 DEF in_read, Silenced
  <2>7. CASE UNCHANGED vars
    BY <1>2, <2>7 DEF vars
  <2> QED
    BY <1>2, <2>1, <2>2, <2>3, <2>4, <2>5, <2>6, <2>7 DEF Next, Reading
<1>3. Init => Flags
  BY DEF Init, Flags
<1> QED
  BY Invariance, <1>1, <1>2, <1>3, FlagsInv, PTL DEF Spec

------------------------------------------------------------------------------
(* What reaches the resampler.                                             *)

(* Unless the period buffer is counted as filled by an earlier start, what *)
(* reaches the resampler came from the PCM: frames counted over a standby  *)
(* are the only way for unfilled memory to get there.                      *)
THEOREM OnlyLeftoversAreUncaptured == Spec => [](~leftover => FramesAreCaptured)
<1> DEFINE Captured == ~leftover => FramesAreCaptured
<1>1. Init => Captured
  BY DEF Init, FramesAreCaptured
<1>2. ASSUME given' = <<>> PROVE Captured'
  BY <1>2 DEF FramesAreCaptured
<1>3. ASSUME Captured, UNCHANGED <<given, leftover, requested>> PROVE Captured'
  BY <1>3 DEF FramesAreCaptured
<1>4. ASSUME Inv, Inv', Pull, ~leftover' PROVE FramesAreCaptured'
  <2>1. PICK n \in IF need = 0 THEN 1 .. MaxNeed ELSE {need} :
          /\ given' = [i \in 1 .. Clamped(n) |-> SampleAt(Offset(framesIn) + i - 1)]
          /\ next' = IF leftover THEN next ELSE next + Clamped(n)
    BY <1>4 DEF Pull
  <2>2. n \in 1 .. MaxNeed /\ framesIn \in 1 .. Period /\ next \in Nat /\ ~leftover
    BY <1>4, <2>1 DEF Pull, Inv, Values, Left
  <2>3. Clamped(n) \in Nat
    BY <2>2 DEF Clamped
  <2>4. Len(given') = Clamped(n) /\ Len(given') <= next'
    BY <2>1, <2>2, <2>3
  <2>5. ret' = "ok"
    BY <1>4, <2>2 DEF Pull, Inv, Values, Left
  <2>6. ASSUME NEW i \in 1 .. Len(given') PROVE given'[i] # Junk
    <3>1. given'[i] = 2 * (next' - Len(given') + i - 1)
      BY <1>4, <2>5, <2>6 DEF Inv, LeftSamplesInOrder
    <3>2. next' \in Nat /\ Len(given') \in Nat /\ i \in Nat \ {0}
      BY <2>2, <2>3, <2>4, <2>1, <2>6
    <3> QED
      BY <2>4, <3>1, <3>2
  <2> QED
    BY <2>6 DEF FramesAreCaptured
<1>5. ASSUME CopyLeft \/ ReadMono, Inv PROVE Captured'
  <2>1. requested' = PcmRate
    BY <1>5 DEF CopyLeft, ReadMono, Inv, Call
  <2> QED
    BY <2>1 DEF FramesAreCaptured
<1>6. ASSUME Inv, Inv', Captured, [Next]_vars PROVE Captured'
  <2>1. CASE UNCHANGED vars \/ adev_set_mic_mute
    BY <1>3, <1>6, <2>1 DEF vars, adev_set_mic_mute
  <2>2. CASE Pull
    BY <1>4, <1>6, <2>2
  <2>3. CASE \/ adev_open_input_stream \/ adev_close_input_stream \/ in_standby \/ ToggleSco
             \/ ReadBegins \/ Refill \/ in_read
    BY <1>2, <2>3 DEF adev_open_input_stream, adev_close_input_stream, in_standby, ToggleSco,
                      ReadBegins, Refill, in_read
  <2> QED
    BY <1>5, <1>6, <2>1, <2>2, <2>3 DEF Next, Reading
<1> QED
  BY <1>1, <1>6, Invariance, PTL DEF Spec

------------------------------------------------------------------------------
(* The loop of read_frames cannot go round for ever.                       *)

LEMMA OneFrameLess ==
  ASSUME NEW l \in Nat \ {0}, NEW m \in Nat
  PROVE  (l - 1) * (m + 1) = l * (m + 1) - (m + 1) /\ l * (m + 1) \in Nat
  OBVIOUS

(* A read ends after a number of rounds that is known when it begins: the  *)
(* provider never hands out an empty buffer without an error.              *)
THEOREM ReadsRunOut == Spec => RoundsRunOut
<1>1. ASSUME Inv, Next, pc = "pull" PROVE Round
  <2>1. left \in Nat \ {0} /\ need \in 0 .. MaxNeed /\ framesIn \in 0 .. Period
    BY <1>1 DEF Inv, Values, Call, Left
  <2>2. Asked \in 1 .. MaxNeed + 1
    BY <2>1 DEF Asked
  <2>3. left * (MaxNeed + 1) \in Nat
    BY <2>1, OneFrameLess
  <2>4. RoundsLeft \in Nat
    BY <2>2, <2>3 DEF RoundsLeft
  <2>5. CASE Refill
    <3>1. pc' = "exit" \/ (pc' = "pull" /\ framesIn' = Period)
      BY <1>1, <2>5 DEF Refill, StatusOf
    <3>2. framesIn = 0 /\ UNCHANGED <<left, need>>
      BY <2>5 DEF Refill
    <3>3. framesIn' = Period => RoundsLeft' = RoundsLeft - 1
      BY <2>2, <2>3, <3>2 DEF RoundsLeft, Asked
    <3> QED
      BY <1>1, <2>4, <3>1, <3>3 DEF Round
  <2>6. CASE Pull
    <3>1. PICK n \in IF need = 0 THEN 1 .. MaxNeed ELSE {need} :
            /\ framesIn' = framesIn - Clamped(n)
            /\ need' = n - Clamped(n)
            /\ IF Clamped(n) = n THEN left' = left - 1 ELSE left' = left
      BY <2>6 DEF Pull
    <3>2. n \in 1 .. MaxNeed /\ n <= Asked /\ (need = 0 => n < Asked) /\ framesIn \in 1 .. Period
      BY <2>1, <2>6, <3>1 DEF Pull, Asked
    <3>3. pc' \in {"exit", "pull"}
      BY <2>6 DEF Pull
    <3>4. CASE Clamped(n) = n
      <4>1. left' * (MaxNeed + 1) = left * (MaxNeed + 1) - (MaxNeed + 1)
        BY <2>1, <3>1, <3>4, OneFrameLess
      <4>2. Asked' = MaxNeed + 1
        BY <3>1, <3>2, <3>4 DEF Asked
      <4>3. RoundsLeft' < RoundsLeft
        BY <2>2, <2>3, <3>1, <3>2, <4>1, <4>2 DEF RoundsLeft
      <4> QED
        BY <1>1, <2>4, <3>3, <4>3 DEF Round
    <3>5. CASE Clamped(n) # n
      <4>1. Clamped(n) = framesIn /\ framesIn < n
        BY <3>2, <3>5 DEF Clamped
      <4>2. framesIn' = 0 /\ left' = left /\ Asked' = n - framesIn
        BY <3>1, <3>2, <3>5, <4>1 DEF Asked
      <4>3. RoundsLeft' < RoundsLeft
        BY <2>2, <2>3, <3>2, <4>1, <4>2 DEF RoundsLeft
      <4> QED
        BY <1>1, <2>4, <3>3, <4>3 DEF Round
    <3> QED
      BY <3>4, <3>5
  <2>7. CASE adev_set_mic_mute
    <3>1. UNCHANGED <<pc, left, need, framesIn>>
      BY <2>7 DEF adev_set_mic_mute
    <3>2. RoundsLeft' = RoundsLeft
      BY <3>1 DEF RoundsLeft, Asked
    <3> QED
      BY <1>1, <2>4, <2>7, <3>1, <3>2 DEF Round
  <2>8. Refill \/ Pull \/ adev_set_mic_mute
    <3>1. requested # 0
      BY <1>1 DEF Inv, Values, Call
    <3> QED
      BY <1>1, <3>1 DEF Next, Reading, adev_open_input_stream, adev_close_input_stream,
                 in_standby, ToggleSco, ReadBegins, CopyLeft, ReadMono, in_read
  <2> QED
    BY <2>5, <2>6, <2>7, <2>8
<1>2. ASSUME Inv, Next PROVE Round
  BY <1>1, <1>2 DEF Round
<1> QED
  BY <1>2, Invariance, PTL DEF Spec, RoundsRunOut

==============================================================================
