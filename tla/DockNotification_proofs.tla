----------------------- MODULE DockNotification_proofs -----------------------
(***************************************************************************)
(* What AutoParts shows and sets, proved for any number of keys: the       *)
(* invariants of the receiver, and that what it shows is what KeyHandler   *)
(* was told to choose.                                                     *)
(***************************************************************************)
EXTENDS DockNotification, SequenceTheorems, TLAPS

(* An undock event to be delivered is about a tablet that is out.          *)
Events == dockIntent = "undock" => ~inDock

Chosen == IF mTouchpadEnabled THEN "touchpad on" ELSE "touchpad off"

(* Between keys, the last thing told of the touchpad is what was chosen:   *)
(* the last touchpad key on its way to AutoParts; if there is none, the    *)
(* one at hand there; and if there is none either, the notification on     *)
(* display, unless a key after it was lost.                                *)
Told ==
  keyPc = "idle" =>
    /\ \A i \in 1 .. Len(keys) :
         keys[i] # "other" /\ (\A j \in i + 1 .. Len(keys) : keys[j] = "other")
           => keys[i] = Chosen
    /\ step = "received" /\ hand # "other" /\ (\A j \in 1 .. Len(keys) : keys[j] = "other")
         => hand = Chosen
    /\ (/\ shown # 0 /\ title # "other" /\ ~lost
        /\ step # "received" \/ hand = "other"
        /\ \A j \in 1 .. Len(keys) : keys[j] = "other")
         => title = Chosen

Flags == Receiver!Flags
Values == Receiver!Values
AtHand == step # "idle" => receivers # 0

Inv ==
  /\ Flags /\ Values /\ AtHand
  /\ Events /\ WakesInDock /\ Told

USE DEF Flags, Values, WakesInDock, Receiver!Flags, Receiver!Values,
        Receiver!WakesInDock

------------------------------------------------------------------------------

LEMMA InitInv == Init => Inv
<1> SUFFICES ASSUME Init PROVE Inv
  OBVIOUS
<1>1. /\ inDock = FALSE /\ ecWake \in BOOLEAN /\ ecFailed = FALSE
      /\ bootIntent = TRUE /\ died = FALSE /\ lost = FALSE
  BY DEF Init, Receiver!Init
<1>2. /\ dockIntent = "none" /\ keys = <<>> /\ receivers = 0 /\ shown = 0
      /\ title = "other" /\ hand = "other" /\ step = "idle" /\ cancels = {}
  BY DEF Init, Receiver!Init
<1>3. Flags /\ AtHand /\ Events /\ WakesInDock
  BY <1>1, <1>2 DEF AtHand, Events
<1>4. Values
  BY <1>2, EmptySeq DEF Receiver!Titles
<1>5. Told
  BY <1>2 DEF Told
<1> QED
  BY <1>3, <1>4, <1>5 DEF Inv

(* What keeps what was told.                                               *)
LEMMA SameTold ==
  ASSUME Told, UNCHANGED <<keyPc, mTouchpadEnabled, keys, title, hand>>,
         UNCHANGED <<step, lost>>, shown' \in {shown, 0}
  PROVE  Told'
  BY DEF Told, Chosen

(* Docking, undocking and restarts: new events are under way.              *)
LEMMA SystemInv == ASSUME Inv, Dock \/ Undock \/ Restart PROVE Inv'
<1>1. CASE Dock \/ Undock
  <2>1. /\ inDock' \in BOOLEAN
        /\ dockIntent' = IF inDock' THEN "dock" ELSE "undock"
    BY <1>1 DEF Dock, Undock, Handler!Dock, Handler!Undock, Receiver!DockChanges
  <2>2. ecWake' \in BOOLEAN
    BY <1>1 DEF Inv, Dock, Undock, Receiver!DockChanges
  <2>3. /\ UNCHANGED <<ecFailed, bootIntent, died, lost>>
        /\ UNCHANGED <<keys, receivers, shown, title, step, hand, cancels>>
    BY <1>1 DEF Dock, Undock, Receiver!DockChanges, Receiver!noteVars
  <2>4. UNCHANGED <<keyPc, mTouchpadEnabled>>
    BY <1>1 DEF Dock, Undock, Handler!Dock, Handler!Undock
  <2>5. Flags' /\ AtHand' /\ Events' /\ WakesInDock'
    BY <2>1, <2>2, <2>3 DEF Inv, AtHand, Events
  <2>6. Values'
    BY <2>1, <2>3 DEF Inv
  <2>7. Told'
    BY <2>3, <2>4, SameTold DEF Inv
  <2> QED
    BY <2>5, <2>6, <2>7 DEF Inv
<1>2. CASE Restart
  <2>1. /\ bootIntent' = TRUE /\ died' = FALSE /\ lost' = FALSE
        /\ UNCHANGED <<inDock, ecWake, ecFailed>>
    BY <1>2 DEF Restart, Receiver!SystemRestarts, Receiver!ecVars
  <2>2. /\ dockIntent' = IF inDock THEN "dock" ELSE "none"
        /\ keys' = <<>> /\ shown' = 0 /\ cancels' = {} /\ step' = "idle"
        /\ UNCHANGED <<receivers, title, hand>>
    BY <1>2 DEF Restart, Receiver!SystemRestarts
  <2>3. Flags' /\ AtHand' /\ Events' /\ WakesInDock'
    BY <2>1, <2>2 DEF Inv, AtHand, Events
  <2>4. Values' /\ Told'
    BY <2>2 DEF Inv, Told
  <2> QED
    BY <2>3, <2>4 DEF Inv
<1> QED
  BY <1>1, <1>2

(* The steps of KeyHandler that send nothing leave AutoParts alone; within *)
(* a key nothing is claimed of what was told.                              *)
LEMMA HandlerInv ==
  ASSUME Inv, KeyPressed \/ KeyToggles \/ HandlerLearnsOfDock PROVE Inv'
<1>1. UNCHANGED receiverVars /\ UNCHANGED inDock
  BY DEF KeyPressed, KeyToggles, HandlerLearnsOfDock, Handler!toggleTouchpad,
         Handler!KeyToggles, Handler!mDockReceiver, Handler!DockToggles
<1>2. keyPc' = "idle" => UNCHANGED <<keyPc, mTouchpadEnabled>>
  BY DEF KeyPressed, KeyToggles, HandlerLearnsOfDock, Handler!toggleTouchpad,
         Handler!KeyToggles, Handler!mDockReceiver, Handler!DockToggles
<1>3. Flags' /\ AtHand' /\ Events' /\ WakesInDock'
  BY <1>1 DEF Inv, AtHand, Events, receiverVars
<1>4. Values'
  BY <1>1 DEF Inv, receiverVars
<1>5. Told'
  <2>1. CASE keyPc' = "idle"
    BY <1>1, <1>2, <2>1, SameTold DEF Inv, receiverVars
  <2>2. CASE keyPc' # "idle"
    BY <2>2 DEF Told
  <2> QED
    BY <2>1, <2>2
<1> QED
  BY <1>3, <1>4, <1>5 DEF Inv

(* notifyKey appends to what is under way.                                 *)
LEMMA NotifyInv == ASSUME Inv, KeyEnds \/ OtherKey PROVE Inv'
<1>1. PICK t \in Receiver!Titles : /\ notifyKey(t)
                                   /\ t # "other" => t = Chosen
                                   /\ t = "other" => OtherKey
  BY DEF KeyEnds, OtherKey, TouchpadTitle, Chosen, Receiver!Titles
<1>2. /\ UNCHANGED <<inDock, mTouchpadEnabled>>
      /\ OtherKey => UNCHANGED keyPc
  BY DEF KeyEnds, OtherKey, Handler!KeySaves, handlerVars
<1>3. /\ keys' = Append(keys, t)
      /\ UNCHANGED <<ecWake, ecFailed, bootIntent, died, lost>>
      /\ UNCHANGED <<dockIntent, receivers, shown, title, step, hand, cancels>>
  BY <1>1 DEF notifyKey
<1>4. Flags' /\ AtHand' /\ Events' /\ WakesInDock'
  BY <1>2, <1>3 DEF Inv, AtHand, Events
<1>5. Values'
  <2>1. keys' \in Seq(Receiver!Titles)
    BY <1>1, <1>3 DEF Inv
  <2> QED
    BY <1>3, <2>1 DEF Inv
<1>6. Told'
  <2> DEFINE n == Len(keys)
  <2>1. /\ n \in Nat /\ Len(keys') = n + 1 /\ keys'[n + 1] = t
        /\ \A i \in 1 .. n : keys'[i] = keys[i]
    BY <1>1, <1>3 DEF Inv
  <2>2. Chosen' = Chosen
    BY <1>2 DEF Chosen
  <2> HIDE DEF n
  <2>3. CASE t # "other"
    <3>1. t = Chosen
      BY <1>1, <2>3
    <3>2. \A i \in 1 .. n : n + 1 \in i + 1 .. n + 1 /\ keys'[n + 1] # "other"
      BY <2>1, <2>3
    <3> QED
      BY <2>1, <2>2, <2>3, <3>1, <3>2 DEF Told
  <2>4. CASE t = "other"
    <3>1. UNCHANGED <<keyPc, shown, title, step, hand, lost>>
      BY <1>1, <1>2, <1>3, <2>4
    <3>2. ASSUME keyPc = "idle"
          PROVE  /\ \A i \in 1 .. n :
                      keys[i] # "other" /\ (\A j \in i + 1 .. n : keys[j] = "other")
                        => keys[i] = Chosen
                 /\ step = "received" /\ hand # "other"
                       /\ (\A j \in 1 .. n : keys[j] = "other")
                      => hand = Chosen
                 /\ shown # 0 /\ title # "other" /\ ~lost
                       /\ (step # "received" \/ hand = "other")
                       /\ (\A j \in 1 .. n : keys[j] = "other")
                      => title = Chosen
      BY <3>2 DEF Inv, Told, n
    <3>3. /\ \A i \in 1 .. n + 1 : keys'[i] # "other" => i \in 1 .. n
          /\ \A i, j \in 1 .. n : j \in i + 1 .. n => j \in i + 1 .. n + 1
          /\ \A j \in 1 .. n : j \in 1 .. n + 1
      BY <2>1, <2>4
    <3> QED
      BY <2>1, <2>2, <2>4, <3>1, <3>2, <3>3 DEF Told
  <2> QED
    BY <2>3, <2>4
<1> QED
  BY <1>4, <1>5, <1>6 DEF Inv

(* The key that was first under way is at hand.                            *)
LEMMA ReceiveInv ==
  ASSUME Inv, Receiver!checkKeyPadKeyPressed, UNCHANGED handlerVars PROVE Inv'
<1> DEFINE n == Len(keys)
<1>0. UNCHANGED <<inDock, keyPc, mTouchpadEnabled>>
  BY DEF handlerVars
<1>1. /\ keys # <<>> /\ keys' = Tail(keys) /\ hand' = Head(keys)
      /\ receivers' = receivers + 1 /\ step = "idle" /\ step' = "received"
      /\ UNCHANGED <<dockIntent, shown, title, cancels>>
  BY DEF Receiver!checkKeyPadKeyPressed, Receiver!intentVars, Receiver!Idle
<1>2. UNCHANGED <<ecWake, ecFailed, bootIntent, died, lost>>
  BY DEF Receiver!checkKeyPadKeyPressed, Receiver!intentVars, Receiver!ecVars
<1>3. /\ n \in Nat \ {0} /\ Len(keys') = n - 1 /\ Head(keys) = keys[1]
      /\ \A i \in 1 .. n - 1 : keys'[i] = keys[i + 1]
      /\ keys' \in Seq(Receiver!Titles) /\ hand' \in Receiver!Titles
  BY <1>1 DEF Inv
<1>4. Values'
  BY <1>1, <1>3 DEF Inv
<1>5. receivers' # 0
  BY <1>1 DEF Inv
<1>6. Flags' /\ AtHand' /\ Events' /\ WakesInDock'
  BY <1>0, <1>1, <1>2, <1>5 DEF Inv, AtHand, Events
<1>7. ASSUME keyPc = "idle"
      PROVE  /\ \A i \in 1 .. n :
                  keys[i] # "other" /\ (\A j \in i + 1 .. n : keys[j] = "other")
                    => keys[i] = Chosen
             /\ shown # 0 /\ title # "other" /\ ~lost
                   /\ (\A j \in 1 .. n : keys[j] = "other")
                  => title = Chosen
  BY <1>1, <1>7 DEF Inv, Told
<1>8. Told'
  <2> SUFFICES ASSUME keyPc = "idle" PROVE Told'
    BY <1>0 DEF Told
  <2> HIDE DEF n
  <2>1. Chosen' = Chosen
    BY <1>0 DEF Chosen
  <2>2. ASSUME NEW k \in Nat, \A j \in k .. n - 1 : keys'[j] = "other", k >= 1
        PROVE  \A j \in k + 1 .. n : keys[j] = "other"
    <3> SUFFICES ASSUME NEW j \in k + 1 .. n PROVE keys[j] = "other"
      OBVIOUS
    <3>1. j - 1 \in k .. n - 1 /\ j - 1 \in 1 .. n - 1 /\ (j - 1) + 1 = j
      BY <1>3, <2>2
    <3> QED
      BY <1>3, <2>2, <3>1
  <2>3. ASSUME NEW i \in 1 .. n - 1, keys'[i] # "other",
               \A j \in i + 1 .. n - 1 : keys'[j] = "other"
        PROVE  keys'[i] = Chosen
    <3>1. \A j \in (i + 1) + 1 .. n : keys[j] = "other"
      <4>1. i + 1 \in Nat /\ i + 1 >= 1
        BY <1>3
      <4> QED
        BY <2>2, <2>3, <4>1
    <3>2. i + 1 \in 1 .. n /\ keys'[i] = keys[i + 1]
      BY <1>3
    <3> QED
      BY <1>7, <2>3, <3>1, <3>2
  <2>4. ASSUME \A j \in 1 .. n - 1 : keys'[j] = "other", hand' # "other"
        PROVE  hand' = Chosen
    <3>1. \A j \in 1 + 1 .. n : keys[j] = "other"
      BY <2>2, <2>4
    <3>2. 1 \in 1 .. n /\ hand' = keys[1]
      BY <1>1, <1>3
    <3> QED
      BY <1>7, <2>4, <3>1, <3>2
  <2>5. ASSUME \A j \in 1 .. n - 1 : keys'[j] = "other", hand' = "other",
               shown # 0, title # "other", ~lost
        PROVE  title = Chosen
    <3>1. \A j \in 1 + 1 .. n : keys[j] = "other"
      BY <2>2, <2>5
    <3>2. keys[1] = "other"
      BY <1>1, <1>3, <2>5
    <3>3. \A j \in 1 .. n : j = 1 \/ j \in 1 + 1 .. n
      BY <1>3
    <3>4. \A j \in 1 .. n : keys[j] = "other"
      BY <3>1, <3>2, <3>3
    <3> QED
      BY <1>7, <2>5, <3>4
  <2> QED
    BY <1>1, <1>2, <1>3, <2>1, <2>3, <2>4, <2>5 DEF Told
<1> QED
  BY <1>4, <1>6, <1>8 DEF Inv

(* The key at hand takes the place of what is on display.                  *)
LEMMA DisplayInv ==
  ASSUME Inv, Receiver!displayNotification, UNCHANGED handlerVars PROVE Inv'
<1>0. UNCHANGED <<inDock, keyPc, mTouchpadEnabled>>
  BY DEF handlerVars
<1>1. /\ cancels' \subseteq cancels /\ shown' = receivers /\ title' = hand
      /\ step = "received" /\ step' = "shown"
      /\ UNCHANGED <<dockIntent, keys, receivers, hand>>
  BY DEF Receiver!displayNotification, Receiver!intentVars
<1>2. /\ died' = FALSE /\ lost' = FALSE
      /\ UNCHANGED <<ecWake, ecFailed, bootIntent>>
  BY DEF Receiver!displayNotification, Receiver!intentVars, Receiver!ecVars
<1>3. Flags' /\ AtHand' /\ Events' /\ WakesInDock'
  BY <1>0, <1>1, <1>2 DEF Inv, AtHand, Events
<1>4. Values'
  BY <1>1 DEF Inv
<1>5. Told'
  BY <1>0, <1>1 DEF Inv, Told, Chosen
<1> QED
  BY <1>3, <1>4, <1>5 DEF Inv

(* What else the main thread of AutoParts does.                            *)
LEMMA ReceiverInv ==
  ASSUME Inv, Receiver!Main, UNCHANGED handlerVars PROVE Inv'
<1> USE DEF Receiver!ecVars, Receiver!intentVars, Receiver!noteVars, Receiver!Idle
<1>0. UNCHANGED <<inDock, keyPc, mTouchpadEnabled>>
  BY DEF handlerVars
<1>1. CASE Receiver!ReceiveBoot \/ Receiver!ReceiveDock
  <2>1. /\ UNCHANGED <<keys, receivers, shown, title, cancels>>
        /\ UNCHANGED <<step, hand, died, lost>>
        /\ dockIntent' \in {dockIntent, "none"}
    BY <1>1 DEF Receiver!ReceiveBoot, Receiver!ReceiveDock
  <2>2. /\ ecWake' \in BOOLEAN /\ ecFailed' \in BOOLEAN /\ bootIntent' \in BOOLEAN
        /\ WakesInDock'
    <3>1. CASE Receiver!ReceiveBoot
      BY <1>0, <3>1 DEF Inv, Receiver!ReceiveBoot, Receiver!setEcWakeMode,
                        Receiver!nativeWriteECWakeUp
    <3>2. CASE Receiver!ReceiveDock /\ dockIntent = "undock"
      BY <1>0, <3>2 DEF Inv, Events, Receiver!ReceiveDock, Receiver!WakesOn
    <3>3. CASE Receiver!ReceiveDock /\ dockIntent # "undock"
      BY <1>0, <3>3 DEF Inv, Receiver!ReceiveDock, Receiver!setEcWakeMode,
                        Receiver!nativeWriteECWakeUp, Receiver!WakesOn
    <3> QED
      BY <1>1, <3>1, <3>2, <3>3
  <2>3. Flags' /\ AtHand' /\ Events'
    BY <1>0, <2>1, <2>2 DEF Inv, AtHand, Events
  <2>4. Values'
    BY <2>1 DEF Inv
  <2>5. Told'
    BY <1>0, <2>1, SameTold DEF Inv
  <2> QED
    BY <2>2, <2>3, <2>4, <2>5 DEF Inv
<1>2. CASE Receiver!PostCancellation
  <2>1. /\ step = "shown" /\ step' = "idle"
        /\ UNCHANGED <<ecWake, ecFailed, bootIntent, died, lost>>
    BY <1>2 DEF Receiver!PostCancellation
  <2>2. /\ cancels' = cancels \cup {receivers}
        /\ UNCHANGED <<dockIntent, keys, receivers, shown, title, hand>>
    BY <1>2 DEF Receiver!PostCancellation, Receiver!Posted
  <2>3. receivers # 0
    BY <2>1 DEF Inv, AtHand
  <2>4. Flags' /\ AtHand' /\ Events' /\ WakesInDock'
    BY <1>0, <2>1, <2>2 DEF Inv, AtHand, Events
  <2>5. Values'
    BY <2>1, <2>2, <2>3 DEF Inv
  <2>6. Told'
    BY <1>0, <2>1, <2>2 DEF Inv, Told, Chosen
  <2> QED
    BY <2>4, <2>5, <2>6 DEF Inv
<1>3. CASE Receiver!mCancelKpNotifications
  <2>1. UNCHANGED <<ecWake, ecFailed, bootIntent, step, died, lost>>
    BY <1>3 DEF Receiver!mCancelKpNotifications
  <2>2. /\ cancels' \subseteq cancels /\ shown' = 0
        /\ UNCHANGED <<dockIntent, keys, receivers, title, hand>>
    BY <1>3 DEF Receiver!mCancelKpNotifications
  <2>3. Flags' /\ AtHand' /\ Events' /\ WakesInDock'
    BY <1>0, <2>1, <2>2 DEF Inv, AtHand, Events
  <2>4. Values'
    BY <2>1, <2>2 DEF Inv
  <2>5. Told'
    BY <1>0, <2>1, <2>2, SameTold DEF Inv
  <2> QED
    BY <2>3, <2>4, <2>5 DEF Inv
<1>4. CASE Receiver!ProcessDies
  <2>1. /\ step' = "idle" /\ died' = (shown # 0)
        /\ lost' = (lost \/ (step = "received" /\ hand # "other"))
        /\ UNCHANGED <<ecWake, ecFailed, bootIntent>>
    BY <1>4 DEF Receiver!ProcessDies
  <2>2. /\ cancels' = {}
        /\ UNCHANGED <<dockIntent, keys, receivers, shown, title, hand>>
    BY <1>4 DEF Receiver!ProcessDies
  <2>3. Flags' /\ AtHand' /\ Events' /\ WakesInDock'
    BY <1>0, <2>1, <2>2 DEF Inv, AtHand, Events
  <2>4. Values'
    BY <2>1, <2>2 DEF Inv
  <2>5. Told'
    BY <1>0, <2>1, <2>2 DEF Inv, Told, Chosen
  <2> QED
    BY <2>3, <2>4, <2>5 DEF Inv
<1> QED
  BY <1>1, <1>2, <1>3, <1>4, ReceiveInv, DisplayInv DEF Receiver!Main

LEMMA NextInv == ASSUME Inv, [Next]_vars PROVE Inv'
<1>1. CASE UNCHANGED vars
  <2>1. Flags' /\ AtHand' /\ Events' /\ WakesInDock'
    BY <1>1 DEF vars, handlerVars, receiverVars, Inv, AtHand, Events
  <2>2. Values'
    BY <1>1 DEF vars, receiverVars, Inv
  <2>3. Told'
    BY <1>1, SameTold DEF vars, handlerVars, receiverVars, Inv
  <2> QED
    BY <2>1, <2>2, <2>3 DEF Inv
<1> QED
  BY <1>1, SystemInv, HandlerInv, NotifyInv, ReceiverInv DEF Next

LEMMA Invariance == Spec => []Inv
  BY InitInv, NextInv, PTL DEF Spec

------------------------------------------------------------------------------

(* Timers are those of receivers there have been, and what is under way to *)
(* AutoParts are keys.                                                     *)
THEOREM TypeCorrect == Spec => []TypeOK
<1>1. Inv => TypeOK
  BY DEF Inv, Flags, Values, AtHand, TypeOK, Receiver!TypeOK, Receiver!Idle
<1> QED
  BY Invariance, <1>1, PTL

(* In the dock, with all events delivered and the controller reached, its  *)
(* wake-up flag is on.                                                     *)
THEOREM WakesWhenDocked == Spec => []WakesInDock
<1>1. Inv => WakesInDock
  BY DEF Inv
<1> QED
  BY Invariance, <1>1, PTL

(* A notification about the touchpad that is not about to be replaced says *)
(* what was chosen, unless a later key was at hand when AutoParts ended.   *)
THEOREM ShowsTheChoice == Spec => []TellsTheChoice
<1>1. Inv => TellsTheChoice
  <2> SUFFICES ASSUME Inv, keyPc = "idle", keys = <<>>, step # "received", ~lost,
                      shown # 0, title # "other"
               PROVE  title = Chosen
    BY DEF TellsTheChoice, Chosen
  <2>1. 1 .. Len(keys) = {}
    OBVIOUS
  <2> QED
    BY <2>1 DEF Inv, Told
<1> QED
  BY Invariance, <1>1, PTL

==============================================================================
