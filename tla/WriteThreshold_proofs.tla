------------------------ MODULE WriteThreshold_proofs ------------------------
(***************************************************************************)
(* The pacing of out_write, for every period, write size and garbage.      *)
(*                                                                         *)
(* The heart of it is Pace: a threshold that garbage did not decide is at  *)
(* least five quarter periods, and the kernel holds at most seven more     *)
(* when a call begins, for a period is added with what a start or a step   *)
(* of the threshold leaves.  That is less than the longest sleep.          *)
(***************************************************************************)
EXTENDS WriteThreshold, TLAPS

(* The sizes in quarters.                                                  *)
LEMMA Sizes ==
  /\ OUT_PERIOD_SIZE = 4 * Quarter
  /\ MAX_WRITE_SLEEP = 8 * Quarter
  /\ StartThreshold = 8 * Quarter
  /\ BufferSize = 32 * Quarter
  /\ ThresholdOf("short") = 8 * Quarter
  /\ ThresholdOf("long") = 32 * Quarter
  /\ Quarter \in Nat \ {0}
  /\ MIN_WRITE_SLEEP \in 1 .. Quarter
  /\ WriteSizes \subseteq 1 .. 4 * Quarter
  /\ Garbage \subseteq Int
  BY SizesAssumption DEF OUT_PERIOD_SIZE, MAX_WRITE_SLEEP, StartThreshold,
     BufferSize, ThresholdOf, OUT_SHORT_PERIOD_COUNT, OUT_LONG_PERIOD_COUNT

(* A reset lands above the fill it is computed from, at most a period and  *)
(* a quarter above it.                                                     *)
LEMMA AboveFillBounds ==
  ASSUME NEW k \in Int
  PROVE  /\ AboveFill(k) \in Int
         /\ AboveFill(k) > k /\ AboveFill(k) <= k + 5 * Quarter
         /\ k >= 0 => AboveFill(k) >= 5 * Quarter
<1> DEFINE P == 4 * Quarter
           q == k \div P
           r == k % P
<1>1. P \in Nat \ {0} /\ q \in Int /\ r \in 0 .. P - 1 /\ k = q * P + r
  BY Sizes
<1>2. AboveFill(k) = (q + 1) * P + Quarter
  BY Sizes DEF AboveFill
<1>3. k >= 0 => q >= 0
  BY Sizes
<1> HIDE DEF q, r
<1>4. (q + 1) * P = k - r + P
  BY <1>1
<1>5. k >= 0 => (q + 1) * P >= P
  BY <1>1, <1>3
<1> QED
  BY <1>1, <1>2, <1>4, <1>5, Sizes

------------------------------------------------------------------------------
(* The inductive invariant.                                                *)

(* Where a call and its PCM stand.                                         *)
Stage ==
  /\ pc \notin {"idle", "fail"} => hw # "closed" /\ bufType # "unknown"
  /\ pc # "idle" => size \in WriteSizes
  /\ pc \in {"idle", "fail"} => total = 0 /\ nap = 0 /\ ~known
  /\ pc = "idle" => slept = 0
  /\ pc = "sleep" => known
  /\ bufType = "unknown" => hw \in {"closed", "setup"}
  /\ bufType = "short" => writeThreshold = 8 * Quarter
  /\ bufType = "long" => writeThreshold = 32 * Quarter

(* What the PCM holds.                                                     *)
Filling ==
  /\ hw \in {"closed", "setup", "xrun"} => fill = 0
  /\ hw = "prepared" => fill < 8 * Quarter
  /\ known => fill <= kernelFrames
  /\ pc = "adjust" /\ ~known => hw # "running"

(* What the call has slept.                                                *)
Sleeping ==
  /\ pc = "poll" => slept = total
  /\ pc = "poll" => total <= 8 * Quarter
  /\ pc = "sleep" => slept + nap = IF total <= 8 * Quarter THEN total ELSE 8 * Quarter
  /\ slept <= 8 * Quarter

Base == IF curWriteThreshold > 5 * Quarter THEN curWriteThreshold ELSE 5 * Quarter

Pace ==
  bufType # "unknown" =>
    /\ ~tainted => curWriteThreshold >= 5 * Quarter
    /\ pc \in {"idle", "poll", "fail"} => fill <= Base + 7 * Quarter
    /\ pc = "poll" => total = 0 \/ fill <= curWriteThreshold \/ hw # "running"
    /\ pc = "sleep" =>
         /\ slept = 0
         /\ nap = IF total <= 8 * Quarter THEN total ELSE 8 * Quarter
         /\ fill <= curWriteThreshold + total
         /\ fill <= Base + 7 * Quarter
    /\ pc \in {"sleep", "adjust"} => total <= 8 * Quarter \/ curWriteThreshold < 5 * Quarter
    /\ pc = "adjust" =>
         \/ hw # "running"
         \/ fill < curWriteThreshold + MIN_WRITE_SLEEP
         \/ total > 8 * Quarter /\ fill <= Base
    /\ pc = "write" => fill <= Base + 3 * Quarter
    /\ pc = "write" => total <= 8 * Quarter \/ tainted

Inv == Values /\ Stage /\ Filling /\ Sleeping /\ Pace

USE Sizes
USE DEF streamVars, callVars

LEMMA InitInv == Init => Inv
  BY DEF Init, Inv, Values, Stage, Filling, Sleeping, Pace

LEMMA ElapseInv == ASSUME Inv, Elapse PROVE Inv'
<1>1. /\ fill' \in Nat /\ fill' <= fill
      /\ (fill' = 0 /\ hw' = "xrun") \/ hw' = "running"
      /\ hw = "running"
      /\ UNCHANGED <<streamVars, pc, callVars, tainted>>
  BY DEF Elapse, Play, Inv, Values
<1> QED
  BY <1>1 DEF Inv, Values, Stage, Filling, Sleeping, Pace, Base

LEMMA StandbyInv == ASSUME Inv, do_out_standby \/ start_output_stream PROVE Inv'
  BY DEF Inv, Values, Stage, Filling, Sleeping, Pace, Base, do_out_standby,
         start_output_stream

LEMMA AdoptInv == ASSUME Inv, AdoptBufferType PROVE Inv'
<1> USE DEF Inv, AdoptBufferType
<1>1. PICK type \in {"short", "long"}, n \in WriteSizes :
        /\ size' = n
        /\ IF type = bufType THEN UNCHANGED <<streamVars, tainted>>
           ELSE /\ bufType' = type
                /\ writeThreshold' = ThresholdOf(type)
                /\ curWriteThreshold' = FirstThreshold(type)
                /\ tainted' = (tainted /\ bufType # "unknown")
  OBVIOUS
<1>2. /\ bufType' = type /\ size' \in WriteSizes
      /\ writeThreshold' = (IF type = "short" THEN 8 * Quarter ELSE 32 * Quarter)
      /\ curWriteThreshold' = IF bufType = "unknown" THEN writeThreshold'
                              ELSE curWriteThreshold
      /\ bufType # "unknown" => (tainted' <=> tainted)
  BY <1>1 DEF FirstThreshold, Values, Stage
<1>3. Values'
  BY <1>1, <1>2 DEF Values
<1>4. Stage' /\ Filling' /\ Sleeping'
  BY <1>1, <1>2 DEF Values, Stage, Filling, Sleeping
<1>5. Pace'
  <2>1. CASE bufType = "unknown"
    BY <1>1, <1>2, <2>1 DEF Values, Stage, Filling, Pace, Base
  <2>2. CASE bufType # "unknown"
    BY <1>1, <1>2, <2>2 DEF Values, Stage, Pace, Base
  <2> QED
    BY <2>1, <2>2
<1> QED
  BY <1>3, <1>4, <1>5

LEMMA PollInv == ASSUME Inv, PollKernel PROVE Inv'
<1> USE DEF Inv, PollKernel
<1>1. CASE hw # "running"
  BY <1>1 DEF Values, Stage, Filling, Sleeping, Pace, Base
<1>2. CASE hw = "running" /\ fill - curWriteThreshold < MIN_WRITE_SLEEP
  BY <1>2 DEF Values, Stage, Filling, Sleeping, Pace, Base
<1>3. CASE hw = "running" /\ ~(fill - curWriteThreshold < MIN_WRITE_SLEEP)
  <2> DEFINE diff == fill - curWriteThreshold
  <2>1. /\ total = 0 /\ slept = 0 /\ diff \in Nat /\ diff >= 1
        /\ total' = diff
        /\ nap' = IF diff <= 8 * Quarter THEN diff ELSE 8 * Quarter
    BY <1>3 DEF NapFor, Values, Stage, Sleeping, Pace
  <2>2. Values' /\ Stage' /\ Filling'
    BY <1>3, <2>1 DEF Values, Stage, Filling
  <2>3. Sleeping'
    BY <1>3, <2>1 DEF Values, Sleeping
  <2>4. Pace'
    BY <1>3, <2>1 DEF Values, Pace, Base, Stage
  <2> QED
    BY <2>2, <2>3, <2>4
<1> QED
  BY <1>1, <1>2, <1>3

LEMMA SleepInv == ASSUME Inv, Sleep PROVE Inv'
<1> USE DEF Inv, Sleep
<1>1. /\ fill' \in Nat /\ fill' <= fill
      /\ \/ fill' = 0 /\ hw' = "xrun"
         \/ fill' = fill - nap /\ hw' = hw
  BY DEF Play, Values
<1>2. /\ slept' = slept + nap /\ pc = "sleep"
      /\ pc' = IF total <= 8 * Quarter THEN "poll" ELSE "adjust"
      /\ UNCHANGED <<streamVars, size, kernelFrames, known, total, nap, tainted>>
  OBVIOUS
<1>3. Values' /\ Stage'
  BY <1>1, <1>2 DEF Values, Stage
<1>4. Sleeping'
  BY <1>2 DEF Values, Sleeping
<1>5. known /\ Filling'
  BY <1>1, <1>2 DEF Values, Stage, Filling
<1>6. Pace'
  BY <1>1, <1>2 DEF Values, Stage, Pace, Base
<1> QED
  BY <1>3, <1>4, <1>5, <1>6

LEMMA AdjustInv == ASSUME Inv, AdjustThreshold PROVE Inv'
<1> USE DEF Inv, AdjustThreshold
<1>1. PICK k \in IF known THEN {kernelFrames} ELSE Garbage :
       IF curWriteThreshold # writeThreshold
       THEN /\ curWriteThreshold' = StepTowards(curWriteThreshold, writeThreshold)
            /\ tainted' = (tainted /\ curWriteThreshold' # writeThreshold)
       ELSE IF Depleted(k)
       THEN curWriteThreshold' = AboveFill(k) /\ tainted' = ~known
       ELSE curWriteThreshold' = writeThreshold /\ tainted' = FALSE
  OBVIOUS
<1>2. /\ pc = "adjust" /\ pc' = "write"
      /\ UNCHANGED <<hw, fill, bufType, writeThreshold, callVars>>
  OBVIOUS
<1>3. k \in Int /\ writeThreshold \in {8 * Quarter, 32 * Quarter}
  BY <1>2 DEF Values, Stage
<1>4. curWriteThreshold' \in Int
  BY <1>1, <1>3, AboveFillBounds DEF Values, StepTowards
<1>5. Values' /\ Stage' /\ Filling' /\ Sleeping'
  BY <1>2, <1>4 DEF Values, Stage, Filling, Sleeping
<1>6. Pace'
  <2>1. CASE curWriteThreshold # writeThreshold
    <3>1. /\ curWriteThreshold' = StepTowards(curWriteThreshold, writeThreshold)
          /\ tainted' <=> (tainted /\ curWriteThreshold' # writeThreshold)
      BY <1>1, <2>1
    <3>2. curWriteThreshold' >= 5 * Quarter \/ curWriteThreshold < 5 * Quarter
      BY <1>3, <3>1 DEF StepTowards, Values
    <3>3. curWriteThreshold' # writeThreshold \/ curWriteThreshold >= 5 * Quarter
      BY <1>3, <3>1 DEF StepTowards, Values
    <3>4. Base' >= Base - Quarter
      BY <1>3, <3>1 DEF StepTowards, Values, Base
    <3>5. fill' <= Base' + 3 * Quarter
      <4>1. fill <= Base + Quarter \/ fill < 8 * Quarter
        BY <1>2 DEF Values, Stage, Filling, Pace, Base
      <4>2. Base' >= 5 * Quarter /\ Base' \in Int /\ Base \in Int
        BY <1>4 DEF Values, Base
      <4>3. fill' = fill /\ fill \in Int
        BY <1>2 DEF Values
      <4> QED
        <5>1. Quarter \in Int
          BY Sizes
        <5> DEFINE b == Base'  c == Base  f == fill'
        <5>2. b \in Int /\ c \in Int /\ f \in Int /\ b >= c - Quarter
              /\ b >= 5 * Quarter /\ (f <= c + Quarter \/ f < 8 * Quarter)
          BY <3>4, <4>1, <4>2, <4>3
        <5>3. Quarter >= 0
          BY Sizes
        <5> HIDE DEF b, c, f
        <5>4. f <= b + 3 * Quarter
          BY ONLY <5>1, <5>2, <5>3
        <5> QED
          BY <5>4 DEF b, f
    <3>6. total' <= 8 * Quarter \/ tainted'
      BY <1>2, <3>1, <3>3 DEF Values, Stage, Pace
    <3>7. ~tainted' => curWriteThreshold' >= 5 * Quarter
      BY <1>2, <1>3, <3>1, <3>2 DEF Values, Stage, Pace
    <3> QED
      BY <1>2, <3>5, <3>6, <3>7 DEF Pace
  <2>2. CASE curWriteThreshold = writeThreshold /\ Depleted(k)
    <3>1. curWriteThreshold' = AboveFill(k) /\ (tainted' <=> ~known)
      BY <1>1, <2>2
    <3>2. total <= 8 * Quarter
      BY <1>2, <1>3, <2>2 DEF Values, Stage, Pace
    <3>3. CASE known
      <4>1. k = kernelFrames /\ k >= 0 /\ fill <= k
        BY <3>3 DEF Values, Filling
      <4>2. curWriteThreshold' >= 5 * Quarter /\ fill <= curWriteThreshold'
        BY <1>3, <3>1, <4>1, AboveFillBounds DEF Values
      <4> QED
        <5>1. fill' <= Base' + 3 * Quarter
          <6>1. fill' = fill /\ fill \in Int
            BY <1>2 DEF Values
          <6>2. Base' \in Int /\ Base' >= curWriteThreshold'
            BY <1>4 DEF Base
          <6>3. Quarter \in Nat
            BY Sizes
          <6> DEFINE b == Base'  f == fill'
          <6>4. b \in Int /\ f \in Int /\ f <= b
            BY <1>4, <4>2, <6>1, <6>2
          <6> HIDE DEF b, f
          <6>5. f <= b + 3 * Quarter
            BY ONLY <6>3, <6>4
          <6> QED
            BY <6>5 DEF b, f
        <5>2. total' <= 8 * Quarter
          BY <1>2, <3>2
        <5> QED
          BY <1>2, <4>2, <5>1, <5>2 DEF Pace
    <3>4. CASE ~known
      <4>1. fill < 8 * Quarter
        BY <1>2, <3>4 DEF Values, Stage, Filling
      <4> QED
        BY <1>2, <1>4, <3>1, <3>2, <3>4, <4>1 DEF Values, Pace, Base
    <3> QED
      BY <3>3, <3>4
  <2>3. CASE curWriteThreshold = writeThreshold /\ ~Depleted(k)
    <3>1. curWriteThreshold' = writeThreshold /\ ~tainted'
      BY <1>1, <2>3
    <3> QED
      BY <1>2, <1>3, <2>3, <3>1 DEF Values, Stage, Filling, Pace, Base
  <2> QED
    BY <2>1, <2>2, <2>3
<1> QED
  BY <1>5, <1>6

LEMMA WriteInv == ASSUME Inv, PcmWrite PROVE Inv'
<1> USE DEF Inv, PcmWrite, Done, Failed, Accept
<1>1. /\ pc = "write" /\ ~known'
      /\ \/ pc' = "idle" /\ size' = 0 /\ slept' = 0
         \/ pc' = "fail" /\ UNCHANGED <<size, slept>>
      /\ kernelFrames' = 0 /\ total' = 0 /\ nap' = 0
      /\ UNCHANGED <<streamVars, tainted>>
  OBVIOUS
<1>2. /\ fill' \in 0 .. 32 * Quarter
      /\ fill' <= fill + 4 * Quarter
      /\ hw' \in {"setup", "prepared", "running", "xrun"}
      /\ hw' \in {"setup", "xrun"} => fill' = 0
      /\ hw' = "prepared" => fill' < 8 * Quarter
  <2>1. /\ size \in 1 .. 4 * Quarter /\ fill \in 0 .. 32 * Quarter
        /\ hw \in {"setup", "prepared", "running", "xrun"}
        /\ hw \in {"setup", "xrun"} => fill = 0
        /\ hw = "prepared" => fill < 8 * Quarter
    BY <1>1 DEF Values, Stage, Filling
  <2>2. CASE hw = "xrun" /\ hw' = "setup" /\ UNCHANGED fill
    BY <2>1, <2>2
  <2>3. CASE hw \in {"setup", "prepared"} /\ Accept(fill + size)
    BY <2>1, <2>3
  <2>4. CASE hw = "running" /\ fill + size <= BufferSize /\ Accept(fill + size)
    BY <2>1, <2>4
  <2>5. CASE hw = "running" /\ fill + size > BufferSize /\ Accept(BufferSize)
    BY <2>1, <2>5
  <2>6. CASE UNCHANGED <<hw, fill>>
    BY <2>1, <2>6
  <2> QED
    BY <2>2, <2>3, <2>4, <2>5, <2>6
<1>3. Values'
  BY <1>1, <1>2 DEF Values
<1>4. Stage' /\ Filling' /\ Sleeping'
  BY <1>1, <1>2 DEF Stage, Filling, Sleeping
<1>5. Pace'
  BY <1>1, <1>2 DEF Values, Stage, Pace, Base
<1> QED
  BY <1>3, <1>4, <1>5

LEMMA FailInv == ASSUME Inv, SleepAfterFailure PROVE Inv'
<1> USE DEF Inv, SleepAfterFailure, Done
<1>1. /\ pc = "fail" /\ pc' = "idle" /\ ~known'
      /\ size' = 0 /\ kernelFrames' = 0 /\ total' = 0 /\ nap' = 0 /\ slept' = 0
      /\ UNCHANGED <<streamVars, tainted>>
  OBVIOUS
<1>2. /\ fill' \in Nat /\ fill' <= fill
      /\ \/ hw = "running" /\ fill' = 0 /\ hw' = "xrun"
         \/ hw' = hw /\ (hw # "running" => fill' = fill)
  BY <1>1 DEF Play, Values, Stage
<1>3. Values'
  BY <1>1, <1>2 DEF Values
<1>4. Stage' /\ Filling' /\ Sleeping'
  BY <1>1, <1>2 DEF Values, Stage, Filling, Sleeping
<1>5. Pace'
  BY <1>1, <1>2 DEF Values, Stage, Pace, Base
<1> QED
  BY <1>3, <1>4, <1>5

LEMMA NextInv == ASSUME Inv, [Next]_vars PROVE Inv'
<1>1. CASE UNCHANGED vars
  BY <1>1 DEF vars, Inv, Values, Stage, Filling, Sleeping, Pace, Base
<1> QED
  BY <1>1, ElapseInv, StandbyInv, AdoptInv, PollInv, SleepInv, AdjustInv,
     WriteInv, FailInv DEF Next

LEMMA Invariance == Spec => []Inv
  BY InitInv, NextInv, PTL DEF Spec

LEMMA FlagsInv == ASSUME Flags, [Next]_vars PROVE Flags'
<1> USE DEF Flags
<1>1. CASE Elapse \/ do_out_standby \/ start_output_stream
  BY <1>1 DEF Elapse, do_out_standby, start_output_stream
<1>2. CASE AdoptBufferType
  BY <1>2 DEF AdoptBufferType
<1>3. CASE PollKernel \/ Sleep
  BY <1>3 DEF PollKernel, Sleep
<1>4. CASE AdjustThreshold \/ PcmWrite \/ SleepAfterFailure
  BY <1>4 DEF AdjustThreshold, PcmWrite, SleepAfterFailure, Done, Failed
<1>5. CASE UNCHANGED vars
  BY <1>5 DEF vars
<1> QED
  BY <1>1, <1>2, <1>3, <1>4, <1>5 DEF Next

------------------------------------------------------------------------------

(* Every variable keeps its type: the last sleep is cut to a length that   *)
(* is never negative, and the kernel buffer never overflows.               *)
THEOREM TypeCorrect == Spec => []TypeOK
<1>1. Inv /\ Flags => TypeOK
  BY DEF Inv, TypeOK
<1>2. Init => Flags
  BY DEF Init, Flags
<1> QED
  BY Invariance, FlagsInv, <1>1, <1>2, PTL DEF Spec

(* No call sleeps longer than the limit while it has the stream mutex,     *)
(* whatever garbage the threshold was computed from, and one that fails    *)
(* sleeps at most a period more.                                           *)
THEOREM NeverSleepsLong == Spec => []SleepBounded
<1>1. Inv => SleepBounded
  BY DEF Inv, Values, Stage, Sleeping, SleepBounded
<1> QED
  BY Invariance, <1>1, PTL

(* With a threshold that garbage did not decide, the limit never cuts the  *)
(* pacing short: when the frames are handed over, a PCM that runs holds no *)
(* more than the threshold.                                                *)
THEOREM KeepsThreshold == Spec => []NoMoreThanThreshold
<1>1. Inv => NoMoreThanThreshold
  BY DEF Inv, Values, Stage, Sleeping, Pace, NoMoreThanThreshold
<1> QED
  BY Invariance, <1>1, PTL

(* The threshold moves by quarter steps that do not pass the goal, or      *)
(* jumps down when the buffer is depleted, while the stream runs.          *)
THEOREM MovesGently == Spec => NoAbruptChange
<1> DEFINE Gentle ==
      bufType # "unknown" =>
        \/ curWriteThreshold' = curWriteThreshold
        \/ /\ curWriteThreshold' - curWriteThreshold \in -Quarter .. Quarter
           /\ curWriteThreshold < writeThreshold => curWriteThreshold' <= writeThreshold
           /\ curWriteThreshold > writeThreshold => curWriteThreshold' >= writeThreshold
        \/ curWriteThreshold = writeThreshold /\ curWriteThreshold' < writeThreshold
<1>1. ASSUME Inv, AdjustThreshold PROVE Gentle
  <2>1. PICK k \in IF known THEN {kernelFrames} ELSE Garbage :
         IF curWriteThreshold # writeThreshold
         THEN curWriteThreshold' = StepTowards(curWriteThreshold, writeThreshold)
         ELSE IF Depleted(k) THEN curWriteThreshold' = AboveFill(k)
         ELSE curWriteThreshold' = writeThreshold
    BY <1>1 DEF AdjustThreshold
  <2>2. k \in Int /\ writeThreshold \in Int /\ curWriteThreshold \in Int
    BY <1>1 DEF Inv, Values
  <2>3. CASE curWriteThreshold # writeThreshold
    BY <2>1, <2>2, <2>3 DEF StepTowards
  <2>4. CASE curWriteThreshold = writeThreshold /\ Depleted(k)
    <3>1. writeThreshold - k > 8 * Quarter
      BY <2>4 DEF Depleted, OUT_SHORT_PERIOD_COUNT
    <3>2. curWriteThreshold' < writeThreshold
      BY <2>1, <2>2, <2>4, <3>1, AboveFillBounds
    <3> QED
      BY <2>4, <3>2
  <2>5. CASE curWriteThreshold = writeThreshold /\ ~Depleted(k)
    BY <2>1, <2>5
  <2> QED
    BY <2>3, <2>4, <2>5
<1>2. ASSUME AdoptBufferType PROVE Gentle
  BY <1>2 DEF AdoptBufferType, FirstThreshold
<1>3. ASSUME Elapse \/ do_out_standby \/ start_output_stream \/ PollKernel
             \/ Sleep \/ PcmWrite \/ SleepAfterFailure \/ UNCHANGED vars
      PROVE  curWriteThreshold' = curWriteThreshold
  BY <1>3 DEF Elapse, do_out_standby, start_output_stream, PollKernel, Sleep,
              PcmWrite, SleepAfterFailure, Done, Failed, vars
<1>4. Inv /\ [Next]_vars => [Gentle]_vars
  BY <1>1, <1>2, <1>3 DEF Next
<1> QED
  BY Invariance, <1>4, PTL DEF Spec, NoAbruptChange

(* A reset from what the kernel told ends just above what it holds now.    *)
THEOREM ResetsJustAboveFill == Spec => KnownResetJustAboveFill
<1> DEFINE Above ==
      IsReset /\ known =>
        /\ curWriteThreshold' > fill
        /\ curWriteThreshold' <= kernelFrames + OUT_PERIOD_SIZE + Quarter
<1>1. ASSUME Inv, AdjustThreshold PROVE Above
  <2> SUFFICES ASSUME IsReset, known PROVE Above
    OBVIOUS
  <2>1. curWriteThreshold' = AboveFill(kernelFrames)
    BY <1>1 DEF AdjustThreshold, IsReset
  <2>2. kernelFrames \in Int /\ fill \in Int /\ fill <= kernelFrames
    BY <1>1 DEF Inv, Values, Filling
  <2> QED
    BY <2>1, <2>2, AboveFillBounds
<1>2. ASSUME Elapse \/ do_out_standby \/ start_output_stream \/ PollKernel
             \/ Sleep \/ PcmWrite \/ SleepAfterFailure \/ AdoptBufferType \/ UNCHANGED vars
      PROVE  ~IsReset
  BY <1>2 DEF IsReset, Elapse, do_out_standby, start_output_stream, PollKernel,
              Sleep, PcmWrite, SleepAfterFailure, Done, Failed, AdoptBufferType, vars
<1>3. Inv /\ [Next]_vars => [Above]_vars
  BY <1>1, <1>2 DEF Next
<1> QED
  BY Invariance, <1>3, PTL DEF Spec, KnownResetJustAboveFill

==============================================================================
