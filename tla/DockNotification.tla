-------------------------- MODULE DockNotification --------------------------
(***************************************************************************)
(* The dock between two programs: the touchpad keys and dock events of     *)
(* KeyHandler, in the system process, and what AutoParts is told of them   *)
(* by broadcast and shows (DeviceBroadcastReceiver).  The screenshot is    *)
(* here a key like the others that notify and do nothing else that shows;  *)
(* its connection is the business of KeyHandler alone.                     *)
(***************************************************************************)
EXTENDS Naturals, Sequences

CONSTANTS
  MaxKeys,       \* bound: notifications shown or to be shown
  NoConn

VARIABLES
  inDock,
  \* of KeyHandler
  dockEvent, ec, setting, mDocked, mTouchpadEnabled, keyPc, dockPc, dockArg,
  failed, raced, mScreenshotConnection, timeouts, bound, ready, asked, replies, shots,
  \* of DeviceBroadcastReceiver
  ecWake, ecFailed, bootIntent, dockIntent, keys,
  receivers, shown, title, step, hand, cancels, died, lost

Handler == INSTANCE KeyHandler WITH MaxShots <- 0
Receiver == INSTANCE DeviceBroadcastReceiver

handlerVars == <<inDock, dockEvent, ec, setting, mDocked, mTouchpadEnabled, keyPc,
                 dockPc, dockArg, failed, raced, mScreenshotConnection, timeouts,
                 bound, ready, asked, replies, shots>>
receiverVars == <<ecWake, ecFailed, bootIntent, dockIntent, keys,
                  receivers, shown, title, step, hand, cancels, died, lost>>
vars == <<handlerVars, receiverVars>>

Init == Handler!Init /\ Receiver!Init

------------------------------------------------------------------------------
(* The system broadcasts to both programs.                                 *)

Dock == Handler!Dock /\ Receiver!DockChanges(TRUE)
Undock == Handler!Undock /\ Receiver!DockChanges(FALSE)

(* KeyHandler lives in the system process; when that ends so does Android. *)
Restart == Handler!Construct /\ Receiver!SystemRestarts

(* sendBroadcast: queued for AutoParts.                                    *)
notifyKey(t) ==
  /\ keys' = Append(keys, t)
  /\ UNCHANGED <<ecWake, ecFailed, bootIntent, dockIntent,
                 receivers, shown, title, step, hand, cancels, died, lost>>

TouchpadTitle_Before(on) == IF on THEN "touchpad off" ELSE "touchpad on"  \* mistake
TouchpadTitle(on) == IF on THEN "touchpad on" ELSE "touchpad off"

MayNotify == receivers + Len(keys) < MaxKeys

(* A key in three steps; the last one stores the choice and notifies.      *)
KeyPressed == MayNotify /\ Handler!toggleTouchpad /\ UNCHANGED receiverVars
KeyToggles == Handler!KeyToggles /\ UNCHANGED receiverVars
KeyEnds == Handler!KeySaves /\ notifyKey(TouchpadTitle(mTouchpadEnabled))

(* Keys that leave KeyHandler as it is and notify.                         *)
OtherKey ==
  /\ MayNotify /\ Handler!Handles
  /\ notifyKey("other")
  /\ UNCHANGED handlerVars

HandlerLearnsOfDock ==
  (Handler!mDockReceiver \/ Handler!DockToggles) /\ UNCHANGED receiverVars

------------------------------------------------------------------------------

Next ==
  \/ Dock \/ Undock \/ Restart
  \/ KeyPressed \/ KeyToggles \/ KeyEnds \/ OtherKey
  \/ HandlerLearnsOfDock
  \/ Receiver!Main /\ UNCHANGED handlerVars

Spec == Init /\ [][Next]_vars

(* The main thread of AutoParts goes on with what it has begun, and its    *)
(* timers run out.                                                         *)
FairSpec ==
  Spec /\ WF_vars(Receiver!displayNotification /\ UNCHANGED handlerVars)
       /\ WF_vars(Receiver!PostCancellation /\ UNCHANGED handlerVars)
       /\ WF_vars(Receiver!mCancelKpNotifications /\ UNCHANGED handlerVars)

------------------------------------------------------------------------------
(* Properties.  Those of the receiver hold whatever KeyHandler does.       *)

(* Every variable of the receiver keeps its type.                          *)
TypeOK == Receiver!TypeOK

(* "On dock set ec_wakeup", over docking, undocking and restarts.          *)
WakesInDock == Receiver!WakesInDock

(* A notification goes, unless the process ends before its timer.          *)
NotificationGoes == Receiver!NotificationGoes

(* When no key is at work, under way to AutoParts or at hand there, a      *)
(* notification about the touchpad on display says what was chosen: also   *)
(* after the process that shows it ended behind it, or Android was         *)
(* restarted within a key; unless AutoParts ended with a key about the     *)
(* touchpad at hand, and the one before stayed on display.                 *)
TellsTheChoice ==
  keyPc = "idle" /\ keys = <<>> /\ step # "received" /\ ~lost /\ shown # 0 /\ title # "other"
    => title = IF mTouchpadEnabled THEN "touchpad on" ELSE "touchpad off"

==============================================================================
