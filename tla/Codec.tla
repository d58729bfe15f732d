------------------------------- MODULE Codec -------------------------------
(***************************************************************************)
(* What the routing of the codec promises (audio/audio_route.h): once the  *)
(* paths are known, selecting some of them shows, for every control, the   *)
(* value of the last of them that sets it, and the value the mixer started *)
(* with when none does.  Nothing shows of earlier selections, except on a  *)
(* control that could not be set.                                          *)
(***************************************************************************)
EXTENDS Integers, Sequences

CONSTANTS Controls, Unreliable, Selections, None

VARIABLES
  initial,       \* the values the file gives to controls by themselves
  effect,        \* for each path a function from the controls it sets
  base,          \* the values to fall back to, None until they are known
  asked,         \* the selection to be shown, None if there is none
  shown,         \* the values of the controls
  missed         \* controls that could not be set last time

SetBy(sel, c) == {i \in DOMAIN sel :
                    sel[i] \in DOMAIN effect /\ c \in DOMAIN effect[sel[i]]}

Overlay(sel) == [c \in Controls |->
  LET S == SetBy(sel, c) IN
  IF S = {} THEN base[c]
  ELSE LET last == CHOOSE i \in S : \A j \in S : j <= i
       IN effect[sel[last]][c]]

Init == base = None /\ asked = None

(* Controls that are not missed get their values, the others keep theirs.  *)
Show(values) ==
  /\ missed' \in SUBSET Unreliable
  /\ shown' = [c \in Controls |-> IF c \in missed' THEN shown[c] ELSE values[c]]

Load ==
  /\ base = None
  /\ Show([c \in Controls |-> IF c \in DOMAIN initial THEN initial[c] ELSE shown[c]])
  /\ base' = shown'
  /\ UNCHANGED <<initial, effect, asked>>

Ask ==
  /\ base # None /\ asked = None
  /\ asked' \in Selections
  /\ UNCHANGED <<initial, effect, base, shown, missed>>

Select ==
  /\ asked # None
  /\ Show(Overlay(asked))
  /\ asked' = None
  /\ UNCHANGED <<initial, effect, base>>

Next == Load \/ Ask \/ Select

Spec == Init /\ [][Next]_<<initial, effect, base, asked, shown, missed>>

==============================================================================
