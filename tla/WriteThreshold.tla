--------------------------- MODULE WriteThreshold ---------------------------
(***************************************************************************)
(* How out_write paces the main output PCM (audio/audio_hw.c, 659-809):    *)
(* how many frames it lets the kernel hold, how long it sleeps for that,   *)
(* and how the limit moves between the short and the long buffer.          *)
(*                                                                         *)
(* Time is counted in frames of the PCM: a sleep of n is the time in which *)
(* the hardware plays n frames.  The C code computes the reset threshold   *)
(* with an unsigned division; 2^32 is a multiple of the period, so that    *)
(* is the floor division of TLA+ also for a negative operand.              *)
(*                                                                         *)
(* kernel_frames has no value until pcm_get_htimestamp has succeeded once  *)
(* in this call.  Reading it then yields one of Garbage.                   *)
(***************************************************************************)
EXTENDS Integers

CONSTANTS
  Quarter,       \* a quarter of OUT_PERIOD_SIZE
  MIN_WRITE_SLEEP,
  WriteSizes,    \* frames of a call: at most out_get_buffer_size
  Garbage        \* what an uninitialized kernel_frames may hold

OUT_PERIOD_SIZE == 4 * Quarter
OUT_SHORT_PERIOD_COUNT == 2
OUT_LONG_PERIOD_COUNT == 8
MAX_WRITE_SLEEP == OUT_PERIOD_SIZE * OUT_SHORT_PERIOD_COUNT
StartThreshold == OUT_PERIOD_SIZE * OUT_SHORT_PERIOD_COUNT
BufferSize == OUT_PERIOD_SIZE * OUT_LONG_PERIOD_COUNT

ASSUME SizesAssumption ==
  /\ Quarter \in Nat \ {0}
  /\ MIN_WRITE_SLEEP \in 1 .. Quarter
  /\ WriteSizes \subseteq 1 .. OUT_PERIOD_SIZE
  /\ Garbage \subseteq Int

VARIABLES
  hw,            \* the PCM: closed, setup, prepared, running, xrun
  fill,          \* frames in its buffer
  bufType, writeThreshold, curWriteThreshold,
  pc, size, kernelFrames, known, total, nap, slept,     \* of the call
  tainted        \* history: garbage decided curWriteThreshold

streamVars == <<bufType, writeThreshold, curWriteThreshold>>
callVars == <<size, kernelFrames, known, total, nap, slept>>
vars == <<hw, fill, streamVars, pc, callVars, tainted>>

Init ==
  /\ hw = "closed" /\ fill = 0
  /\ bufType = "unknown" /\ writeThreshold = 0 /\ curWriteThreshold = 0
  /\ pc = "idle" /\ size = 0
  /\ kernelFrames = 0 /\ known = FALSE /\ total = 0 /\ nap = 0 /\ slept = 0
  /\ tainted = FALSE

------------------------------------------------------------------------------
(* The PCM, as out_write uses it.                                          *)

(* The hardware plays d frames; a buffer that runs dry stops it.           *)
Play(d) ==
  IF d >= fill THEN fill' = 0 /\ hw' = "xrun" ELSE fill' = fill - d /\ hw' = hw

(* Frames are accepted; a PCM that has enough of them starts.              *)
Accept(n) ==
  /\ fill' = n
  /\ hw' = IF hw = "running" \/ n >= StartThreshold THEN "running" ELSE "prepared"

(* Time passes, between two calls or wherever the thread is preempted.     *)
Elapse ==
  /\ hw = "running"
  /\ \E d \in 1 .. fill : Play(d)
  /\ UNCHANGED <<streamVars, pc, callVars, tainted>>

------------------------------------------------------------------------------
(* Standby and the start that ends it.                                     *)

(* Standby takes the stream mutex, which a failed write sleeps without.    *)
do_out_standby ==
  /\ pc \in {"idle", "fail"} /\ hw # "closed"
  /\ hw' = "closed" /\ fill' = 0
  /\ UNCHANGED <<streamVars, pc, callVars, tainted>>

(* The start at the head of a write; one that fails ends the call.         *)
start_output_stream ==
  /\ pc = "idle" /\ hw = "closed"
  /\ bufType' = "unknown"
  /\ \/ hw' = "setup" /\ UNCHANGED <<pc, size>>
     \/ pc' = "fail" /\ size' \in WriteSizes /\ UNCHANGED hw
  /\ UNCHANGED <<fill, writeThreshold, curWriteThreshold, tainted,
                 kernelFrames, known, total, nap, slept>>

------------------------------------------------------------------------------
(* out_write.                                                              *)

ThresholdOf(type) ==
  OUT_PERIOD_SIZE * (IF type = "long" THEN OUT_LONG_PERIOD_COUNT
                     ELSE OUT_SHORT_PERIOD_COUNT)

(* Reset current threshold if exiting standby.                             *)
FirstThreshold_Always(type) == ThresholdOf(type)     \* mistake: not only then
FirstThreshold(type) ==
  IF bufType = "unknown" THEN ThresholdOf(type) ELSE curWriteThreshold

(* The buffer type the screen and the capture ask for is adopted.          *)
AdoptBufferType ==
  /\ pc = "idle" /\ hw # "closed"
  /\ \E type \in {"short", "long"}, n \in WriteSizes :
       /\ size' = n
       /\ IF type = bufType THEN UNCHANGED <<streamVars, tainted>>
          ELSE /\ bufType' = type
               /\ writeThreshold' = ThresholdOf(type)
               /\ curWriteThreshold' = FirstThreshold(type)
               /\ tainted' = (tainted /\ bufType # "unknown")
  /\ pc' = "poll"
  /\ UNCHANGED <<hw, fill, kernelFrames, known, total, nap, slept>>

(* The time to sleep, the last sleep cut so that the sum keeps the limit.  *)
NapFor_Uncut(diff) == diff               \* mistake: the limit ends the loop too late
NapFor_CutTwice(diff) ==                 \* mistake: the sum already has this sleep
  IF total + diff > MAX_WRITE_SLEEP THEN MAX_WRITE_SLEEP - (total + diff) ELSE diff
NapFor(diff) == IF total + diff > MAX_WRITE_SLEEP THEN MAX_WRITE_SLEEP - total ELSE diff

(* One turn of the loop up to its sleep.                                   *)
PollKernel ==
  /\ pc = "poll"
  /\ IF hw # "running"
     THEN pc' = "adjust" /\ UNCHANGED <<kernelFrames, known, total, nap>>
     ELSE LET diff == fill - curWriteThreshold IN
          /\ kernelFrames' = fill /\ known' = TRUE
          /\ IF diff < MIN_WRITE_SLEEP
             THEN pc' = "adjust" /\ UNCHANGED <<total, nap>>
             ELSE pc' = "sleep" /\ total' = total + diff /\ nap' = NapFor(diff)
  /\ UNCHANGED <<hw, fill, streamVars, size, slept, tainted>>

(* usleep lasts what it is asked for, or longer with Elapse.               *)
Sleep ==
  /\ pc = "sleep"
  /\ Play(nap)
  /\ slept' = slept + nap
  /\ pc' = IF total <= MAX_WRITE_SLEEP THEN "poll" ELSE "adjust"
  /\ UNCHANGED <<streamVars, size, kernelFrames, known, total, nap, tainted>>

(* Steps of a quarter period towards the threshold, never beyond it.       *)
StepTowards_AtOnce(cur, goal) == goal    \* mistake
StepTowards(cur, goal) ==
  IF cur > goal
  THEN IF cur - Quarter < goal THEN goal ELSE cur - Quarter
  ELSE IF cur + Quarter > goal THEN goal ELSE cur + Quarter

(* Just above what the kernel holds, when that is really depleted.         *)
Depleted(k) == k < writeThreshold /\ writeThreshold - k > OUT_PERIOD_SIZE * OUT_SHORT_PERIOD_COUNT
AboveFill_FullPeriods(k) == (k \div OUT_PERIOD_SIZE) * OUT_PERIOD_SIZE     \* mistake
AboveFill(k) == (k \div OUT_PERIOD_SIZE + 1) * OUT_PERIOD_SIZE + Quarter

AdjustThreshold ==
  /\ pc = "adjust"
  /\ \E k \in IF known THEN {kernelFrames} ELSE Garbage :
       IF curWriteThreshold # writeThreshold
       THEN /\ curWriteThreshold' = StepTowards(curWriteThreshold, writeThreshold)
            /\ tainted' = (tainted /\ curWriteThreshold' # writeThreshold)
       ELSE IF Depleted(k)
       THEN curWriteThreshold' = AboveFill(k) /\ tainted' = ~known
       ELSE curWriteThreshold' = writeThreshold /\ tainted' = FALSE
  /\ pc' = "write"
  /\ UNCHANGED <<hw, fill, bufType, writeThreshold, callVars>>

Done ==
  /\ pc' = "idle" /\ size' = 0
  /\ kernelFrames' = 0 /\ known' = FALSE /\ total' = 0 /\ nap' = 0 /\ slept' = 0
  /\ UNCHANGED <<streamVars, tainted>>

(* The frames are lost; what is left of the call is a sleep of their       *)
(* length, without the stream mutex.                                       *)
Failed ==
  /\ pc' = "fail"
  /\ kernelFrames' = 0 /\ known' = FALSE /\ total' = 0 /\ nap' = 0
  /\ UNCHANGED <<size, slept, streamVars, tainted>>

(* pcm_write: -EPIPE after an underrun, since the PCM is PCM_NORESTART,    *)
(* and no sleep then; otherwise it waits for room and hands the frames     *)
(* over, or fails.                                                         *)
PcmWrite ==
  /\ pc = "write"
  /\ \/ hw = "xrun" /\ hw' = "setup" /\ UNCHANGED fill /\ Done
     \/ hw \in {"setup", "prepared"} /\ Accept(fill + size) /\ Done
     \/ hw = "running" /\ fill + size <= BufferSize /\ Accept(fill + size) /\ Done
     \/ hw = "running" /\ fill + size > BufferSize /\ Accept(BufferSize) /\ Done
     \/ UNCHANGED <<hw, fill>> /\ Failed

(* The usleep at the end of out_write.                                     *)
SleepAfterFailure ==
  /\ pc = "fail"
  /\ IF hw = "running" THEN Play(size) ELSE UNCHANGED <<hw, fill>>
  /\ Done

Next ==
  \/ Elapse \/ do_out_standby \/ start_output_stream
  \/ AdoptBufferType \/ PollKernel \/ Sleep \/ AdjustThreshold \/ PcmWrite
  \/ SleepAfterFailure

Spec == Init /\ [][Next]_vars

------------------------------------------------------------------------------
(* Properties.                                                             *)

Flags == known \in BOOLEAN /\ tainted \in BOOLEAN

Values ==
  /\ hw \in {"closed", "setup", "prepared", "running", "xrun"}
  /\ fill \in 0 .. BufferSize
  /\ bufType \in {"unknown", "short", "long"}
  /\ writeThreshold \in {0, ThresholdOf("short"), ThresholdOf("long")}
  /\ curWriteThreshold \in Int
  /\ pc \in {"idle", "poll", "sleep", "adjust", "write", "fail"}
  /\ size \in WriteSizes \cup {0}
  /\ kernelFrames \in 0 .. BufferSize
  /\ total \in Nat /\ nap \in Nat /\ slept \in Nat

(* Every variable keeps its type: no sleep is negative, and the kernel     *)
(* buffer keeps its size.                                                  *)
TypeOK == Flags /\ Values

(* With the stream mutex held a call never sleeps longer than the limit,   *)
(* whatever the threshold is and however often it finds the kernel too     *)
(* full; a call that fails sleeps at most a period more, without it.       *)
SleepBounded ==
  /\ slept + (IF pc = "sleep" THEN nap ELSE 0) <= MAX_WRITE_SLEEP
  /\ pc = "fail" => slept + size <= MAX_WRITE_SLEEP + OUT_PERIOD_SIZE

(* Unless garbage decided the threshold, the limit is never what ends the  *)
(* loop: the quarter steps keep the excess below two periods, and a PCM    *)
(* that runs holds no more than the threshold when the frames are added.   *)
NoMoreThanThreshold ==
  ~tainted => /\ total <= MAX_WRITE_SLEEP
              /\ pc = "adjust" /\ hw = "running" => fill < curWriteThreshold + MIN_WRITE_SLEEP

(* While a stream stays out of standby its threshold moves by a quarter    *)
(* period and not past the goal, or jumps down to a depleted buffer; it    *)
(* never jumps up, and a change of the goal alone does not move it.        *)
NoAbruptChange ==
  [][bufType # "unknown" =>
       \/ curWriteThreshold' = curWriteThreshold
       \/ /\ curWriteThreshold' - curWriteThreshold \in -Quarter .. Quarter
          /\ curWriteThreshold < writeThreshold => curWriteThreshold' <= writeThreshold
          /\ curWriteThreshold > writeThreshold => curWriteThreshold' >= writeThreshold
       \/ curWriteThreshold = writeThreshold /\ curWriteThreshold' < writeThreshold
     ]_vars

IsReset == pc = "adjust" /\ curWriteThreshold = writeThreshold
           /\ curWriteThreshold' # writeThreshold

(* "reset current threshold just above current filling status when kernel  *)
(* buffer is really depleted": a reset leaves the threshold above what the *)
(* kernel holds...                                                         *)
ResetAboveFill == [][IsReset => curWriteThreshold' > fill]_vars

(* ... and, when the kernel told how much that was, at most a period and a *)
(* quarter above it.                                                       *)
KnownResetJustAboveFill ==
  [][IsReset /\ known =>
       /\ curWriteThreshold' > fill
       /\ curWriteThreshold' <= kernelFrames + OUT_PERIOD_SIZE + Quarter]_vars

==============================================================================
