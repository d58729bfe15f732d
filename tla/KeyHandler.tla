----------------------------- MODULE KeyHandler -----------------------------
(***************************************************************************)
(* The keys of the keyboard dock that keep state (asusdec, KeyHandler.java *)
(* and its native part): the touchpad, which the dock's controller forgets *)
(* when the tablet is taken out, and the screenshot, which is a service    *)
(* that answers, answers late or never.                                    *)
(*                                                                         *)
(* Keys are handled on one thread, broadcasts, timers and callbacks on     *)
(* another.  What is under mScreenshotLock is one step.  A key acts when   *)
(* it is released; that it is consumed, and what is notified, is left out. *)
(***************************************************************************)
EXTENDS Naturals

CONSTANTS
  MaxShots,      \* bound: screenshots in a behaviour
  NoConn

ASSUME ConnAssumption == MaxShots \in Nat /\ NoConn \notin Nat

VARIABLES
  inDock,        \* whether the tablet is in the dock
  dockEvent,     \* ACTION_DOCK_EVENT to be delivered: "none", "dock", "undock"
  ec,            \* whether the dock's touchpad is on
  setting,       \* touchpad_status of Settings.Secure
  mDocked, mTouchpadEnabled,
  keyPc,         \* in toggleTouchpad: "idle", "native", "save"
  dockPc, dockArg,               \* in mDockReceiver: "idle", "native"; what it read
  failed,        \* history: the last ioctl did not reach the controller
  raced,         \* history: a toggle while mDockReceiver had read the old value
  mScreenshotConnection,
  timeouts,      \* posted runs of mScreenshotTimeout, each for a connection
  bound,         \* connections the system knows
  ready, asked, replies,         \* callbacks to come; services at work; answers to come
  shots          \* connections made

padVars == <<inDock, dockEvent, ec, setting, mDocked, mTouchpadEnabled,
             keyPc, dockPc, dockArg, failed, raced>>
shotVars == <<mScreenshotConnection, timeouts, bound, ready, asked, replies, shots>>
vars == <<padVars, shotVars>>

------------------------------------------------------------------------------
(* nativeToggleTouchpad: an ioctl, which fails when the tablet is not in   *)
(* the dock and may fail in it.  The result is not looked at.              *)
nativeToggleTouchpad(on) ==
  \/ inDock /\ ec' = on /\ failed' = FALSE
  \/ ec' = ec /\ failed' = TRUE

SavedChoice == setting # "off"

(* The constructor, in a new system process: what was stored is taken, and *)
(* a touchpad that is off is turned off.  A tablet in the dock is told so. *)
Construct ==
  /\ mTouchpadEnabled' = SavedChoice
  /\ IF SavedChoice THEN UNCHANGED <<ec, failed>> ELSE nativeToggleTouchpad(FALSE)
  /\ mDocked' = FALSE
  /\ dockEvent' = IF inDock THEN "dock" ELSE "none"
  /\ keyPc' = "idle" /\ dockPc' = "idle" /\ dockArg' = FALSE /\ raced' = FALSE
  /\ mScreenshotConnection' = NoConn
  /\ timeouts' = {} /\ bound' = {} /\ ready' = {} /\ asked' = {} /\ replies' = {}
  /\ UNCHANGED <<inDock, setting, shots>>

(* The tablet is on, out of the dock, and the constructor has run.         *)
Init ==
  /\ inDock = FALSE /\ dockEvent = "none" /\ ec \in BOOLEAN
  /\ setting \in {"unset", "on", "off"}
  /\ mDocked = FALSE /\ mTouchpadEnabled = SavedChoice
  /\ keyPc = "idle" /\ dockPc = "idle" /\ dockArg = FALSE
  /\ failed = ~SavedChoice /\ raced = FALSE
  /\ mScreenshotConnection = NoConn
  /\ timeouts = {} /\ bound = {} /\ ready = {} /\ asked = {} /\ replies = {}
  /\ shots = 0

------------------------------------------------------------------------------
(* The dock.  Its controller starts with the touchpad on or off; an event  *)
(* that has not been delivered is replaced by the next one.                *)

Dock ==
  /\ ~inDock
  /\ inDock' = TRUE /\ ec' \in BOOLEAN /\ dockEvent' = "dock"
  /\ UNCHANGED <<setting, mDocked, mTouchpadEnabled, keyPc, dockPc, dockArg,
                 failed, raced, shotVars>>

Undock ==
  /\ inDock
  /\ inDock' = FALSE /\ dockEvent' = "undock"
  /\ UNCHANGED <<ec, setting, mDocked, mTouchpadEnabled, keyPc, dockPc, dockArg,
                 failed, raced, shotVars>>

(* mDockReceiver: in the dock the controller is told the choice, which has *)
(* been read by then.                                                      *)
Resends_Never(event) == FALSE                          \* mistake
Resends(event) == event = "dock"

mDockReceiver ==
  /\ dockEvent # "none" /\ dockPc = "idle"
  /\ mDocked' = (dockEvent = "dock")
  /\ IF Resends(dockEvent)
     THEN dockPc' = "native" /\ dockArg' = mTouchpadEnabled /\ raced' = FALSE
     ELSE UNCHANGED <<dockPc, dockArg, raced>>
  /\ dockEvent' = "none"
  /\ UNCHANGED <<inDock, ec, setting, mTouchpadEnabled, keyPc, failed, shotVars>>

DockToggles ==
  /\ dockPc = "native"
  /\ nativeToggleTouchpad(dockArg)
  /\ dockPc' = "idle"
  /\ UNCHANGED <<inDock, dockEvent, setting, mDocked, mTouchpadEnabled, keyPc,
                 dockArg, raced, shotVars>>

------------------------------------------------------------------------------
(* handleKeyEvent: keys come one after the other, and none is handled out  *)
(* of the dock, as far as the handler knows.                               *)
Handles == mDocked /\ keyPc = "idle"

toggleTouchpad ==
  /\ Handles
  /\ mTouchpadEnabled' = ~mTouchpadEnabled
  /\ raced' = (dockPc = "native")
  /\ keyPc' = "native"
  /\ UNCHANGED <<inDock, dockEvent, ec, setting, mDocked, dockPc, dockArg, failed, shotVars>>

KeyToggles ==
  /\ keyPc = "native"
  /\ nativeToggleTouchpad(mTouchpadEnabled)
  /\ keyPc' = "save"
  /\ UNCHANGED <<inDock, dockEvent, setting, mDocked, mTouchpadEnabled, dockPc,
                 dockArg, raced, shotVars>>

Stored_Before(on) == IF on THEN "off" ELSE "on"        \* mistake: before the flip
Stored(on) == IF on THEN "on" ELSE "off"

KeySaves ==
  /\ keyPc = "save"
  /\ setting' = Stored(mTouchpadEnabled)
  /\ keyPc' = "idle"
  /\ UNCHANGED <<inDock, dockEvent, ec, mDocked, mTouchpadEnabled, dockPc, dockArg,
                 failed, raced, shotVars>>

NewConn_Last == shots                                  \* mistake
NewConn == shots + 1

Posted_Never(c) == timeouts                            \* mistake
Posted(c) == timeouts \cup {c}

(* The connection is kept, and its timeout posted, only if the system      *)
(* binds it.                                                               *)
takeScreenshot ==
  /\ Handles
  /\ mScreenshotConnection = NoConn
  /\ shots < MaxShots
  /\ shots' = shots + 1
  /\ \/ /\ mScreenshotConnection' = NewConn
        /\ bound' = bound \cup {NewConn}
        /\ timeouts' = Posted(NewConn)
     \/ UNCHANGED <<mScreenshotConnection, bound, timeouts>>
  /\ UNCHANGED <<padVars, ready, asked, replies>>

------------------------------------------------------------------------------
(* The screenshot service, in another process.  It may die while it works, *)
(* and a connection that is still bound is then connected again.           *)

ServiceUp(c) ==
  /\ c \in bound
  /\ ready' = ready \cup {c}
  /\ UNCHANGED <<padVars, mScreenshotConnection, timeouts, bound, asked, replies, shots>>

ServiceReplies(c) ==
  /\ c \in asked
  /\ asked' = asked \ {c} /\ replies' = replies \cup {c}
  /\ UNCHANGED <<padVars, mScreenshotConnection, timeouts, bound, ready, shots>>

ServiceDies(c) ==
  /\ c \in asked
  /\ asked' = asked \ {c}
  /\ UNCHANGED <<padVars, mScreenshotConnection, timeouts, bound, ready, replies, shots>>

------------------------------------------------------------------------------
(* Callbacks of the screenshot.                                            *)

IsCurrent(c) == mScreenshotConnection = c

(* The message to the service may be lost (RemoteException).               *)
onServiceConnected(c) ==
  /\ c \in ready
  /\ ready' = ready \ {c}
  /\ \/ IsCurrent(c) /\ asked' = asked \cup {c}
     \/ UNCHANGED asked
  /\ UNCHANGED <<padVars, mScreenshotConnection, timeouts, bound, replies, shots>>

unbindService(c) == bound' = bound \ {c}

TimeoutsAfterReply_Kept == timeouts                     \* mistake: not removed
TimeoutsAfterReply == {}

handleMessage(c) ==
  /\ c \in replies
  /\ replies' = replies \ {c}
  /\ IF IsCurrent(c)
     THEN /\ unbindService(mScreenshotConnection)
          /\ mScreenshotConnection' = NoConn
          /\ timeouts' = TimeoutsAfterReply
     ELSE UNCHANGED <<bound, mScreenshotConnection, timeouts>>
  /\ UNCHANGED <<padVars, ready, asked, shots>>

Released_Not == mScreenshotConnection                  \* mistake
Released == NoConn

mScreenshotTimeout(c) ==
  /\ c \in timeouts
  /\ timeouts' = timeouts \ {c}
  /\ IF mScreenshotConnection # NoConn
     THEN /\ unbindService(mScreenshotConnection)
          /\ mScreenshotConnection' = Released
     ELSE UNCHANGED <<bound, mScreenshotConnection>>
  /\ UNCHANGED <<padVars, ready, asked, replies, shots>>

------------------------------------------------------------------------------
Shots == 1 .. MaxShots

Timeout == \E c \in Shots : mScreenshotTimeout(c)

Next ==
  \/ Construct
  \/ Dock \/ Undock \/ mDockReceiver \/ DockToggles
  \/ toggleTouchpad \/ KeyToggles \/ KeySaves \/ takeScreenshot
  \/ \E c \in Shots : \/ ServiceUp(c) \/ ServiceReplies(c) \/ ServiceDies(c)
                      \/ onServiceConnected(c) \/ handleMessage(c)
  \/ Timeout

Spec == Init /\ [][Next]_vars

(* A timer of the handler runs out.                                        *)
FairSpec == Spec /\ WF_vars(Timeout)

------------------------------------------------------------------------------
(* Properties.                                                             *)

Flags ==
  /\ inDock \in BOOLEAN /\ ec \in BOOLEAN /\ mDocked \in BOOLEAN
  /\ mTouchpadEnabled \in BOOLEAN /\ dockArg \in BOOLEAN
  /\ failed \in BOOLEAN /\ raced \in BOOLEAN

(* Every variable keeps its type; nothing is ever asked of or answered to  *)
(* a connection that was not made.                                         *)
TypeOK ==
  /\ Flags
  /\ dockEvent \in {"none", "dock", "undock"}
  /\ setting \in {"unset", "on", "off"}
  /\ keyPc \in {"idle", "native", "save"} /\ dockPc \in {"idle", "native"}
  /\ shots \in 0 .. MaxShots
  /\ mScreenshotConnection \in (1 .. shots) \cup {NoConn}
  /\ \A S \in {timeouts, bound, ready, asked, replies} : S \subseteq 1 .. shots

(* Between handlers, in the dock, the touchpad is what was chosen, however *)
(* often the tablet left the dock, the key was pressed or the system       *)
(* process was restarted in the middle of a key; unless the controller was *)
(* not reached, or the key overtook a dock event that had read the choice. *)
TouchpadAsChosen ==
  inDock /\ dockEvent = "none" /\ keyPc = "idle" /\ dockPc = "idle" /\ ~failed /\ ~raced
    => ec = mTouchpadEnabled

(* A restart between two keys does not lose the choice.                    *)
ChoiceSurvives ==
  [][Construct /\ keyPc = "idle" => mTouchpadEnabled' = mTouchpadEnabled]_vars

(* The system knows exactly the connection the handler has: none leaks,    *)
(* and none is let go twice, which throws.                                 *)
BoundIsHeld ==
  bound = IF mScreenshotConnection = NoConn THEN {} ELSE {mScreenshotConnection}

(* The timeout that is to run is that of the present connection: none of  *)
(* an earlier screenshot cuts it off, and it never has none, which would   *)
(* leave it to the service whether the key works again.                    *)
TimeoutIsOwn ==
  timeouts = IF mScreenshotConnection = NoConn THEN {} ELSE {mScreenshotConnection}

(* A screenshot comes to an end, whatever becomes of the service, so that  *)
(* the key works again.                                                    *)
ScreenshotEnds == mScreenshotConnection # NoConn ~> mScreenshotConnection = NoConn

==============================================================================
