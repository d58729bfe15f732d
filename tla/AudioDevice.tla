---------------------------- MODULE AudioDevice ----------------------------
(***************************************************************************)
(* What the audio HAL promises of streams and routes together: each stream *)
(* is silent or plays (or captures) on a PCM, the Bluetooth devices routed *)
(* for it say on which, and the codec is switched to the paths of the      *)
(* routing before anything starts.  No threads, no locks and no calls.     *)
(***************************************************************************)
CONSTANTS
  Streams, Links,       \* Links: the Bluetooth devices
  Main, Sco, Silent     \* the PCMs; no PCM

VARIABLES
  link,          \* the Bluetooth devices the routing wants for each stream
  playing,       \* the PCM each stream is on, or Silent
  due, shown     \* the paths the routing asks for, those of the codec

vars == <<link, playing, due, shown>>

PcmFor(l) == IF l = {} THEN Main ELSE Sco

Init ==
  /\ link \in [Streams -> SUBSET Links]
  /\ playing = [s \in Streams |-> Silent]
  /\ shown = due

(* A stream starts on the PCM of its route, which the codec shows.         *)
Start(s) ==
  /\ playing[s] = Silent /\ shown = due
  /\ playing' = [playing EXCEPT ![s] = PcmFor(link[s])]
  /\ UNCHANGED <<link, due, shown>>

Stop(s) ==
  /\ playing' = [playing EXCEPT ![s] = Silent]
  /\ UNCHANGED <<link, due, shown>>

(* Another routing or orientation: a stream whose Bluetooth devices it     *)
(* changes falls silent with it, every other one goes on.                  *)
Route ==
  /\ shown = due
  /\ link' \in [Streams -> SUBSET Links]
  /\ playing' = [s \in Streams |-> IF link'[s] = link[s] THEN playing[s] ELSE Silent]
  /\ UNCHANGED shown

Show ==
  /\ shown' = due
  /\ UNCHANGED <<link, playing, due>>

Next == (\E s \in Streams : Start(s) \/ Stop(s)) \/ Route \/ Show

Spec == Init /\ [][Next]_vars

==============================================================================
