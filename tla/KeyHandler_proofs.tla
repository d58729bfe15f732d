-------------------------- MODULE KeyHandler_proofs --------------------------
(***************************************************************************)
(* Theorems of KeyHandler, for any number of screenshots.                  *)
(*                                                                         *)
(* The pad and the screenshot share no variable but mDocked and keyPc,     *)
(* which only guard, so that the invariant is the conjunction of one for   *)
(* each of them.                                                           *)
(***************************************************************************)
EXTENDS KeyHandler, TLAPS

PadTypes ==
  /\ Flags
  /\ dockEvent \in {"none", "dock", "undock"}
  /\ setting \in {"unset", "on", "off"}
  /\ keyPc \in {"idle", "native", "save"} /\ dockPc \in {"idle", "native"}

(* What is stored is the choice, except within a key. *)
Stores == keyPc = "idle" => (mTouchpadEnabled <=> SavedChoice)

(* An event that is not delivered is about where the tablet is.            *)
Events == (inDock => dockEvent # "undock") /\ (~inDock => dockEvent # "dock")

(* The receiver carries the choice, unless a key has overtaken it; and     *)
(* when neither it nor a key is about to tell the controller, the          *)
(* controller knows.                                                       *)
Told ==
  ~raced =>
    /\ dockPc = "native" => (dockArg <=> mTouchpadEnabled)
    /\ inDock /\ ~failed /\ dockEvent # "dock" /\ keyPc # "native" /\ dockPc = "idle"
         => (ec <=> mTouchpadEnabled)

PadInv == PadTypes /\ Stores /\ Events /\ Told

ShotTypes ==
  /\ shots \in 0 .. MaxShots
  /\ mScreenshotConnection \in (1 .. shots) \cup {NoConn}
  /\ timeouts \subseteq 1 .. shots /\ bound \subseteq 1 .. shots
  /\ ready \subseteq 1 .. shots /\ asked \subseteq 1 .. shots
  /\ replies \subseteq 1 .. shots

ShotInv == ShotTypes /\ BoundIsHeld /\ TimeoutIsOwn

Inv == PadInv /\ ShotInv

------------------------------------------------------------------------------
(* The pad.                                                                *)

LEMMA PadInit == Init => PadInv
  BY DEF Init, PadInv, PadTypes, Flags, Stores, Events, Told, SavedChoice

LEMMA NativeTells ==
  ASSUME NEW on \in BOOLEAN, ec \in BOOLEAN, nativeToggleTouchpad(on)
  PROVE  ec' \in BOOLEAN /\ failed' \in BOOLEAN /\ (~failed' => ec' = on)
  BY DEF nativeToggleTouchpad

LEMMA ConstructPad == ASSUME PadInv, Construct PROVE PadInv'
<1> USE DEF PadInv, PadTypes, Flags, Construct
<1>1. SavedChoice \in BOOLEAN
  BY DEF SavedChoice
<1>2. ec' \in BOOLEAN /\ failed' \in BOOLEAN
  BY NativeTells
<1>3. PadTypes'
  BY <1>1, <1>2
<1>4. Stores'
  BY DEF Stores, SavedChoice
<1>5. Events'
  BY DEF Events
<1>6. Told'
  BY DEF Told
<1> QED
  BY <1>3, <1>4, <1>5, <1>6

LEMMA DockTogglesPad == ASSUME PadInv, DockToggles PROVE PadInv'
<1> USE DEF PadInv, PadTypes, Flags, DockToggles
<1>1. ec' \in BOOLEAN /\ failed' \in BOOLEAN /\ (~failed' => ec' = dockArg)
  BY NativeTells
<1>2. PadTypes' /\ Stores' /\ Events'
  BY <1>1 DEF Stores, Events, SavedChoice
<1>3. Told'
  BY <1>1 DEF Told
<1> QED
  BY <1>2, <1>3

LEMMA KeyTogglesPad == ASSUME PadInv, KeyToggles PROVE PadInv'
<1> USE DEF PadInv, PadTypes, Flags, KeyToggles
<1>1. ec' \in BOOLEAN /\ failed' \in BOOLEAN /\ (~failed' => ec' = mTouchpadEnabled)
  BY NativeTells
<1>2. PadTypes' /\ Stores' /\ Events'
  BY <1>1 DEF Stores, Events, SavedChoice
<1>3. Told'
  BY <1>1 DEF Told
<1> QED
  BY <1>2, <1>3

LEMMA PadNext == ASSUME PadInv, [Next]_vars PROVE PadInv'
<1> USE DEF PadInv, PadTypes, Flags
<1>1. CASE Construct
  BY <1>1, ConstructPad
<1>2. CASE Dock
  BY <1>2 DEF Dock, Stores, Events, Told, SavedChoice
<1>3. CASE Undock
  BY <1>3 DEF Undock, Stores, Events, Told, SavedChoice
<1>4. CASE mDockReceiver
  BY <1>4 DEF mDockReceiver, Resends, Stores, Events, Told, SavedChoice
<1>5. CASE DockToggles
  BY <1>5, DockTogglesPad
<1>6. CASE toggleTouchpad
  BY <1>6 DEF toggleTouchpad, Handles, Stores, Events, Told
<1>7. CASE KeyToggles
  BY <1>7, KeyTogglesPad
<1>8. CASE KeySaves
  BY <1>8 DEF KeySaves, Stored, Stores, Events, Told, SavedChoice
<1>9. CASE UNCHANGED padVars
  BY <1>9 DEF padVars, Stores, Events, Told, SavedChoice
<1>10. takeScreenshot \/ Timeout \/ UNCHANGED vars => UNCHANGED padVars
  BY DEF takeScreenshot, Timeout, mScreenshotTimeout, vars
<1>11. ASSUME NEW c \in Shots,
              \/ ServiceUp(c) \/ ServiceReplies(c) \/ ServiceDies(c)
              \/ onServiceConnected(c) \/ handleMessage(c)
       PROVE  UNCHANGED padVars
  BY <1>11 DEF ServiceUp, ServiceReplies, ServiceDies, onServiceConnected, handleMessage
<1> QED
  BY <1>1, <1>2, <1>3, <1>4, <1>5, <1>6, <1>7, <1>8, <1>9, <1>10, <1>11 DEF Next

------------------------------------------------------------------------------
(* The screenshot.                                                         *)

LEMMA ShotInit == Init => ShotInv
  BY ConnAssumption DEF Init, ShotInv, ShotTypes, BoundIsHeld, TimeoutIsOwn

LEMMA TakeShot == ASSUME ShotInv, takeScreenshot PROVE ShotInv'
<1> USE ConnAssumption DEF ShotInv, ShotTypes, takeScreenshot, NewConn, Posted
<1>1. shots' \in 0 .. MaxShots /\ shots' = shots + 1 /\ 1 .. shots \subseteq 1 .. shots'
  OBVIOUS
<1>2. timeouts = {} /\ bound = {}
  BY DEF TimeoutIsOwn, BoundIsHeld
<1>3. CASE UNCHANGED <<mScreenshotConnection, bound, timeouts>>
  BY <1>1, <1>2, <1>3 DEF TimeoutIsOwn, BoundIsHeld
<1>4. CASE /\ mScreenshotConnection' = shots' /\ bound' = {shots'} /\ timeouts' = {shots'}
  BY <1>1, <1>4 DEF TimeoutIsOwn, BoundIsHeld
<1> QED
  BY <1>1, <1>2, <1>3, <1>4

LEMMA AnswerShot == ASSUME ShotInv, NEW c \in Shots, handleMessage(c) PROVE ShotInv'
<1> USE ConnAssumption DEF ShotInv, ShotTypes, handleMessage
<1>1. CASE IsCurrent(c)
  BY <1>1 DEF IsCurrent, unbindService, TimeoutsAfterReply, TimeoutIsOwn,
              BoundIsHeld
<1>2. CASE ~IsCurrent(c)
  BY <1>2 DEF IsCurrent, TimeoutIsOwn, BoundIsHeld
<1> QED
  BY <1>1, <1>2

LEMMA TimeoutShot == ASSUME ShotInv, NEW c \in Shots, mScreenshotTimeout(c) PROVE ShotInv'
<1> USE ConnAssumption DEF ShotInv, ShotTypes, mScreenshotTimeout
<1>1. c = mScreenshotConnection /\ c # NoConn
  BY DEF TimeoutIsOwn
<1>2. timeouts = {c} /\ bound = {c}
  BY <1>1 DEF TimeoutIsOwn, BoundIsHeld
<1> QED
  BY <1>1, <1>2 DEF unbindService, Released, TimeoutIsOwn, BoundIsHeld

LEMMA ShotNext == ASSUME ShotInv, [Next]_vars PROVE ShotInv'
<1> USE ConnAssumption DEF ShotInv, ShotTypes
<1>1. CASE Construct
  BY <1>1 DEF Construct, TimeoutIsOwn, BoundIsHeld
<1>2. CASE takeScreenshot
  BY <1>2, TakeShot
<1>3. CASE UNCHANGED shotVars
  BY <1>3 DEF shotVars, TimeoutIsOwn, BoundIsHeld
<1>4. Dock \/ Undock \/ mDockReceiver \/ DockToggles \/ toggleTouchpad \/ KeyToggles
        \/ KeySaves \/ UNCHANGED vars => UNCHANGED shotVars
  BY DEF Dock, Undock, mDockReceiver, DockToggles, toggleTouchpad, KeyToggles,
         KeySaves, vars
<1>5. ASSUME NEW c \in Shots,
             \/ ServiceUp(c) \/ ServiceReplies(c) \/ ServiceDies(c) \/ onServiceConnected(c)
      PROVE  ShotInv'
  BY <1>5 DEF ServiceUp, ServiceReplies, ServiceDies, onServiceConnected, TimeoutIsOwn,
              BoundIsHeld
<1>6. ASSUME NEW c \in Shots, handleMessage(c) PROVE ShotInv'
  BY <1>6, AnswerShot
<1>7. CASE Timeout
  BY <1>7, TimeoutShot DEF Timeout
<1> QED
  BY <1>1, <1>2, <1>3, <1>4, <1>5, <1>6, <1>7 DEF Next

------------------------------------------------------------------------------

LEMMA Invariance == Spec => []Inv
<1>1. Init => Inv
  BY PadInit, ShotInit DEF Inv
<1>2. Inv /\ [Next]_vars => Inv'
  BY PadNext, ShotNext DEF Inv
<1> QED
  BY <1>1, <1>2, PTL DEF Spec

(* Every variable of the handler keeps its type; callbacks, answers and    *)
(* timeouts are of connections that were made.                             *)
THEOREM TypeCorrect == Spec => []TypeOK
<1>1. Inv => TypeOK
  BY DEF Inv, PadInv, PadTypes, ShotInv, ShotTypes, TypeOK
<1> QED
  BY <1>1, Invariance, PTL

(* Between handlers the dock's touchpad is what was chosen, through        *)
(* undocking, keys, and restarts of the system process within a key.       *)
THEOREM TouchpadFollowsChoice == Spec => []TouchpadAsChosen
<1>1. Inv => TouchpadAsChosen
  BY DEF Inv, PadInv, PadTypes, Flags, Told, TouchpadAsChosen
<1> QED
  BY <1>1, Invariance, PTL

(* A restart of the system process between two keys keeps the choice.      *)
THEOREM RestartKeepsChoice == Spec => ChoiceSurvives
<1>1. Inv /\ Construct /\ keyPc = "idle" => mTouchpadEnabled' = mTouchpadEnabled
  BY DEF Inv, PadInv, PadTypes, Flags, Stores, Construct, SavedChoice
<1> QED
  BY <1>1, Invariance, PTL DEF ChoiceSurvives

(* The system has bound exactly the handler's connection: takeScreenshot,  *)
(* the answer and the timeout bind and unbind it once each.                *)
THEOREM NoBindingLeaks == Spec => []BoundIsHeld
<1>1. Inv => BoundIsHeld
  BY DEF Inv, ShotInv
<1> QED
  BY <1>1, Invariance, PTL

(* The timeout that is posted is that of the present connection, which     *)
(* always has one: answers remove it, and nothing else does.               *)
THEOREM TimeoutsDoNotOutlive == Spec => []TimeoutIsOwn
<1>1. Inv => TimeoutIsOwn
  BY DEF Inv, ShotInv
<1> QED
  BY <1>1, Invariance, PTL

==============================================================================
