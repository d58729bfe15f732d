--------------------------- MODULE MCCaptureBuffer ---------------------------
(* Instances of CaptureBuffer: a period of six frames.                     *)
EXTENDS CaptureBuffer

(* The rate of the PCM and lower ones, whose buffer sizes are rounded up   *)
(* (one and three frames) and are not (four).                              *)
MCRates == {1, 2, 3, 4}
==============================================================================
