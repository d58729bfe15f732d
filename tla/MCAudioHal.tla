----------------------------- MODULE MCAudioHal -----------------------------
(* Instances of AudioHal for TLC: the routings and orientations that the   *)
(* code tells apart.                                                       *)
EXTENDS AudioHal

CONSTANTS spk, hs, outsco, mic, insco

MCOutAll == {spk, hs, outsco}
MCInAll  == {mic, insco}
MCOutSco == {outsco}
MCInSco  == {insco}
MCSpeaker == {spk}
MCWired   == {hs}
MCMic     == {mic}

(* Nothing, the speaker with the headset, Bluetooth.                       *)
MCOutRoutes == {{}, {spk, hs}, {outsco}}
MCInRoutes  == {{}, {mic}, {insco}}

(* One output routing of each PCM, for the run with two captures.          *)
FewOutRoutes == {{spk}, {outsco}}
==============================================================================
