---------------------------- MODULE CaptureBuffer ----------------------------
(***************************************************************************)
(* How in_read gets its frames (audio/audio_hw.c, 284-302, 374-538 and     *)
(* 846-1010): through the period buffer and a resampler when the rate of   *)
(* the stream is not the rate of the PCM, by a copy that drops the right   *)
(* channel when it is, or straight from a mono PCM.                        *)
(*                                                                         *)
(* The PCM numbers its frames.  The left sample of frame n, or its only    *)
(* one, is 2n and the right one 2n + 1; memory nothing was written to      *)
(* holds Junk.  The resampler is external: it asks its provider for        *)
(* frames, one buffer after the other, until it can make one of its own.   *)
(***************************************************************************)
EXTENDS Integers, Sequences

CONSTANTS
  Period,        \* IN_PERIOD_SIZE and SCO_PERIOD_SIZE, which are equal
  PcmRate,       \* IN_SAMPLING_RATE and SCO_SAMPLING_RATE, equal too
  Rates,         \* requested sample rates
  Align,         \* audioflinger's unit: the period is a multiple of it
  MaxNeed,       \* frames the resampler needs for one of its own
  MaxFrames      \* bound: no read begins once so many were captured

ASSUME CaptureAssumption ==
  /\ Period \in Nat \ {0} /\ Align \in Nat \ {0} /\ Period % Align = 0
  /\ PcmRate \in Nat \ {0} /\ PcmRate \in Rates /\ Rates \subseteq Nat \ {0}
  /\ \A rate \in Rates : Period * rate >= PcmRate     \* never a read of nothing
  /\ MaxNeed \in Nat \ {0} /\ MaxFrames \in Nat

VARIABLES
  requested,     \* requested_rate; 0 when the stream is not allocated
  standby, config, buffer, framesIn, readStatus,      \* of the stream
  scoRouted, micMute,                                 \* of the device
  pc, left, need, ret,        \* of the call: frames to give, frames the
                              \* resampler still needs for the next one
  captured,      \* frames the PCM has delivered
  next,          \* history: number of the frame that is due
  given,         \* history: the samples the last step handed on
  leftover,      \* history: framesIn counts frames of an earlier buffer
  failed,        \* history: the PCM failed in this call
  muted,         \* history: muted since before the call
  content        \* of the caller's buffer

streamVars == <<requested, standby, config, buffer, framesIn, readStatus>>
deviceVars == <<scoRouted, micMute>>
callVars == <<pc, left, need, ret>>
history == <<captured, next, given, leftover, failed, muted, content>>
vars == <<streamVars, deviceVars, callVars, history>>

Junk == -1
NoBuffer == <<>>

SCO_PERIOD_SIZE_Halved == Period \div 2     \* mistake: the sizes differ
SCO_PERIOD_SIZE == Period

PeriodSize(c) == IF c = "sco" THEN SCO_PERIOD_SIZE ELSE Period
Channels(c) == IF c = "sco" THEN 1 ELSE 2

Init ==
  /\ requested = 0 /\ standby = TRUE /\ config = "in" /\ buffer = NoBuffer
  /\ framesIn = 0 /\ readStatus = "ok"
  /\ scoRouted = FALSE /\ micMute = FALSE
  /\ pc = "idle" /\ left = 0 /\ need = 0 /\ ret = "ok"
  /\ captured = 0 /\ next = 0 /\ given = <<>> /\ leftover = FALSE
  /\ failed = FALSE /\ muted = FALSE /\ content = "untouched"

------------------------------------------------------------------------------
(* The stream's life.                                                      *)

(* calloc: nothing is left of an earlier stream.                           *)
adev_open_input_stream ==
  /\ requested = 0
  /\ requested' \in Rates
  /\ standby' = TRUE /\ config' = "in" /\ buffer' = NoBuffer
  /\ framesIn' = 0 /\ readStatus' = "ok"
  /\ given' = <<>> /\ leftover' = FALSE
  /\ UNCHANGED <<deviceVars, callVars, captured, next, failed, muted, content>>

(* The period buffer goes; what is left in it is still counted.            *)
do_in_standby ==
  IF standby THEN UNCHANGED <<standby, buffer>>
  ELSE standby' = TRUE /\ buffer' = NoBuffer

in_standby ==
  /\ requested # 0 /\ pc = "idle"
  /\ do_in_standby
  /\ given' = <<>>
  /\ UNCHANGED <<requested, config, framesIn, readStatus, deviceVars, callVars,
                 captured, next, leftover, failed, muted, content>>

adev_close_input_stream ==
  /\ requested # 0 /\ pc = "idle"
  /\ do_in_standby
  /\ requested' = 0
  /\ given' = <<>>
  /\ UNCHANGED <<config, framesIn, readStatus, deviceVars, callVars,
                 captured, next, leftover, failed, muted, content>>

(* in_set_parameters to or from SCO.                                       *)
ToggleSco ==
  /\ requested # 0 /\ pc = "idle"
  /\ do_in_standby
  /\ scoRouted' = ~scoRouted
  /\ given' = <<>>
  /\ UNCHANGED <<requested, config, framesIn, readStatus, micMute, callVars,
                 captured, next, leftover, failed, muted, content>>

(* Takes no mutex, so it happens at any point of a read.                   *)
adev_set_mic_mute ==
  /\ micMute' = ~micMute
  /\ muted' = (muted /\ micMute')
  /\ UNCHANGED <<streamVars, scoRouted, callVars, captured, next, given,
                 leftover, failed, content>>

(* The size AudioFlinger reads with: rounded up to its unit.               *)
RoundUp(n) == ((n + Align - 1) \div Align) * Align
in_get_buffer_size(rate) == RoundUp((Period * rate) \div PcmRate)

------------------------------------------------------------------------------
(* in_read, with the stream mutex held from its begin to its end.          *)

start_input_stream ==
  LET c == IF scoRouted THEN "sco" ELSE "in" IN
  /\ config' = c
  /\ \/ /\ standby' = FALSE
        /\ buffer' = [i \in 0 .. PeriodSize(c) * Channels(c) - 1 |-> Junk]
        /\ next' = captured /\ need' = 0
        /\ leftover' = (framesIn # 0)
        /\ ret' = "ok" /\ failed' = FALSE
        /\ pc' = IF requested # PcmRate THEN "pull" ELSE "copy"
     \/ /\ ret' = "error" /\ failed' = TRUE
        /\ pc' = "exit"
        /\ UNCHANGED <<standby, buffer, need, next, leftover>>

ReadBegins ==
  /\ requested # 0 /\ pc = "idle" /\ captured <= MaxFrames
  /\ left' = in_get_buffer_size(requested)
  /\ given' = <<>> /\ muted' = micMute /\ content' = "untouched"
  /\ IF standby THEN start_input_stream
     ELSE /\ ret' = "ok" /\ failed' = FALSE
          /\ pc' = IF requested # PcmRate THEN "pull" ELSE "copy"
          /\ UNCHANGED <<standby, config, buffer, need, next, leftover>>
  /\ UNCHANGED <<requested, framesIn, readStatus, deviceVars, captured>>

(* The interleaved samples of the next n frames of the PCM.                *)
Recorded(n) ==
  [i \in 0 .. n * Channels(config) - 1 |->
     IF Channels(config) = 2 THEN 2 * captured + i ELSE 2 * (captured + i)]

(* Discard right channel, in place: sample 2i is read before it is         *)
(* overwritten.  The upper half keeps what it had.                         *)
DiscardRight(b, n) ==
  [i \in DOMAIN b |-> IF i \in 1 .. n - 1 THEN b[2 * i] ELSE b[i]]

(* The status of the last read of the PCM.                                 *)
StatusOf_Sticky(r) == IF readStatus = "ok" THEN r ELSE readStatus    \* mistake
StatusOf(r) == r

(* get_next_buffer when the period buffer is used up: read the PCM.        *)
Refill ==
  /\ pc = "pull" /\ framesIn = 0
  /\ \/ /\ LET raw == Recorded(PeriodSize(config)) IN
             buffer' = IF Channels(config) = 2
                       THEN DiscardRight(raw, PeriodSize(config)) ELSE raw
        /\ framesIn' = PeriodSize(config)
        /\ captured' = captured + PeriodSize(config)
        /\ readStatus' = StatusOf("ok")
        /\ leftover' = FALSE
        /\ UNCHANGED failed
     \/ /\ readStatus' = StatusOf("error") /\ failed' = TRUE
        /\ UNCHANGED <<buffer, framesIn, captured, leftover>>
  /\ ret' = readStatus'
  /\ pc' = IF ret' = "ok" THEN "pull" ELSE "exit"
  /\ given' = <<>>
  /\ UNCHANGED <<requested, standby, config, deviceVars, left, need, next,
                 muted, content>>

(* No more frames than the buffer still has.                               *)
Clamped_Not(n) == n                      \* mistake
Clamped_KeepOne(n) == IF n > framesIn - 1 THEN framesIn - 1 ELSE n   \* mistake
Clamped(n) == IF n > framesIn THEN framesIn ELSE n

(* Where they begin.                                                       *)
Offset_OfUsed(f) == f                    \* mistake
Offset(f) == PeriodSize(config) - f

SampleAt(i) == IF i \in DOMAIN buffer THEN buffer[i] ELSE Junk

(* get_next_buffer with frames left, the resampler's copy of them, and     *)
(* release_buffer.  With all it needs the resampler makes a frame; with    *)
(* the last frame that was asked for read_frames is done.                  *)
Pull ==
  /\ pc = "pull" /\ framesIn # 0
  /\ \E n \in IF need = 0 THEN 1 .. MaxNeed ELSE {need} :
       LET count == Clamped(n) IN
       /\ given' = [i \in 1 .. count |-> SampleAt(Offset(framesIn) + i - 1)]
       /\ framesIn' = framesIn - count
       /\ next' = IF leftover THEN next ELSE next + count
       /\ need' = n - count
       /\ IF count = n THEN left' = left - 1 /\ content' = "samples"
          ELSE UNCHANGED <<left, content>>
  /\ ret' = readStatus
  /\ pc' = IF ret' # "ok" \/ left' = 0 THEN "exit" ELSE "pull"
  /\ UNCHANGED <<requested, standby, config, buffer, readStatus, deviceVars,
                 captured, leftover, failed, muted>>

(* No resampler, a stereo PCM: twice the samples go to the period buffer,  *)
(* the left ones to the caller, whatever pcm_read returned.                *)
CopyLeft ==
  /\ pc = "copy" /\ Channels(config) = 2
  /\ \/ /\ LET raw == Recorded(left) IN
             buffer' = [i \in DOMAIN buffer |->
                          IF i \in DOMAIN raw THEN raw[i] ELSE buffer[i]]
        /\ captured' = captured + left /\ next' = next + left
        /\ UNCHANGED <<ret, failed>>
     \/ /\ ret' = "error" /\ failed' = TRUE
        /\ UNCHANGED <<buffer, captured, next>>
  /\ given' = [i \in 1 .. left |-> SampleAt(2 * (i - 1))']
  /\ content' = IF \E i \in 1 .. left : given'[i] # Junk THEN "samples" ELSE "junk"
  /\ pc' = "exit"
  /\ UNCHANGED <<requested, standby, config, framesIn, readStatus, deviceVars,
                 left, need, leftover, muted>>

(* No resampler, a mono PCM: it is read into the caller's buffer.          *)
ReadMono ==
  /\ pc = "copy" /\ Channels(config) = 1
  /\ \/ /\ given' = [i \in 1 .. left |-> Recorded(left)[i - 1]]
        /\ captured' = captured + left /\ next' = next + left
        /\ content' = "samples"
        /\ UNCHANGED <<ret, failed>>
     \/ /\ ret' = "error" /\ failed' = TRUE /\ given' = <<>>
        /\ UNCHANGED <<captured, next, content>>
  /\ pc' = "exit"
  /\ UNCHANGED <<requested, standby, config, buffer, framesIn, readStatus,
                 deviceVars, left, need, leftover, muted>>

Silenced_Never == FALSE                 \* mistake
Silenced == ret = "ok" /\ micMute

(* The end: zeroes when muted, if all went well; the caller is told that   *)
(* it got all it asked for in any case.                                    *)
in_read ==
  /\ pc = "exit"
  /\ content' = IF Silenced THEN "zeroes" ELSE content
  /\ pc' = "idle" /\ left' = 0
  /\ given' = <<>>
  /\ UNCHANGED <<streamVars, deviceVars, need, ret, captured, next, leftover,
                 failed, muted>>

------------------------------------------------------------------------------

Reading == ReadBegins \/ Refill \/ Pull \/ CopyLeft \/ ReadMono \/ in_read

Next ==
  \/ adev_open_input_stream \/ adev_close_input_stream
  \/ in_standby \/ ToggleSco \/ adev_set_mic_mute
  \/ Reading

Spec == Init /\ [][Next]_vars

(* A read that has begun keeps running; pcm_read returns, in error or not. *)
FairSpec == Spec /\ WF_vars(Refill \/ Pull \/ CopyLeft \/ ReadMono \/ in_read)

------------------------------------------------------------------------------
(* Properties.                                                             *)

Flags ==
  /\ standby \in BOOLEAN /\ scoRouted \in BOOLEAN /\ micMute \in BOOLEAN
  /\ leftover \in BOOLEAN /\ failed \in BOOLEAN /\ muted \in BOOLEAN

Values ==
  /\ requested \in Rates \cup {0}
  /\ config \in {"in", "sco"}
  /\ standby => buffer = NoBuffer
  /\ ~standby => DOMAIN buffer = 0 .. PeriodSize(config) * Channels(config) - 1
  /\ framesIn \in Nat
  /\ readStatus \in {"ok", "error"} /\ ret \in {"ok", "error"}
  /\ pc \in {"idle", "pull", "copy", "exit"}
  /\ left \in Nat /\ need \in 0 .. MaxNeed
  /\ captured \in Nat /\ next \in Nat
  /\ content \in {"untouched", "junk", "samples", "zeroes"}

(* Every variable keeps its type: framesIn, which is unsigned in the code, *)
(* never goes below zero, nor does what is left to read.                   *)
TypeOK == Flags /\ Values

(* From the first refill after a start on, and as long as the PCM does not *)
(* fail, the left samples arrive each once and in the order they were      *)
(* captured: across refills, calls, and however they are asked for.        *)
LeftSamplesInOrder ==
  ret = "ok" /\ ~leftover =>
    \A i \in 1 .. Len(given) : given[i] = 2 * (next - Len(given) + i - 1)

(* The frames left in the period buffer, also those counted before it was  *)
(* last allocated, and a read that goes through it at the caller's size    *)
(* stay within it, with either PCM.                                        *)
BufferFits ==
  /\ pc = "pull" => framesIn <= PeriodSize(config)
  /\ pc = "copy" => left <= PeriodSize(config)

(* A read fails only when the PCM failed it in this very call, not for the *)
(* status an earlier one left behind.                                      *)
ErrorIsOfThisCall == pc = "exit" /\ ret = "error" => failed

(* A caller that is muted from before the read to its end finds no         *)
(* samples in its buffer, whichever way the read went and also when it     *)
(* started the PCM; if that failed, what was converted before stays.       *)
MutedGivesNoSamples == pc = "idle" /\ muted /\ ~failed => content # "samples"

(* A read ends: the provider never hands out buffers without a frame to a  *)
(* resampler that keeps asking.                                            *)
ReadEnds == pc \in {"pull", "copy"} ~> pc = "idle"

(* More rounds than this the resampler and its provider never make for the *)
(* frames that are still to be given: two for each frame it may ask for,   *)
(* and one more when the period buffer is empty.                           *)
Asked == IF need = 0 THEN MaxNeed + 1 ELSE need
RoundsLeft == 2 * (left * (MaxNeed + 1) + Asked) + (IF framesIn = 0 THEN 1 ELSE 0)

Round ==
  pc = "pull" =>
    /\ RoundsLeft \in Nat
    /\ \/ pc' = "exit"
       \/ pc' = "pull" /\ RoundsLeft' < RoundsLeft
       \/ pc' = "pull" /\ RoundsLeft' = RoundsLeft /\ adev_set_mic_mute

(* The loop of a read cannot go round for ever: each round ends it or      *)
(* leaves fewer to make, across refills and however the resampler asks;    *)
(* only the mute of another thread comes in between.                       *)
RoundsRunOut == [][Round]_vars

(* "reads frames from kernel driver [...] and output the number of frames  *)
(* requested": what reaches the resampler came from the driver.            *)
FramesAreCaptured ==
  requested # PcmRate => \A i \in 1 .. Len(given) : given[i] # Junk

==============================================================================
