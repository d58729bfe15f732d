----------------------- MODULE DeviceBroadcastReceiver -----------------------
(***************************************************************************)
(* AutoParts (DeviceBroadcastReceiver.java): it shows a notification for   *)
(* every key of the dock, takes it away when a timer runs out, and turns   *)
(* on the wake-up flag of the dock's controller (DockEmbeddedController).  *)
(*                                                                         *)
(* The receiver is declared in the manifest, so the system makes a new one *)
(* for each broadcast, in a process it may end at any time.  Everything of *)
(* it runs on the one main thread; notifications belong to the system and  *)
(* stay when the process is gone.  Who sends the broadcasts is left to the *)
(* module that composes (DockNotification).                                *)
(***************************************************************************)
EXTENDS Naturals, Sequences, FiniteSets

VARIABLES
  inDock,        \* whether the tablet is in the dock
  ecWake,        \* wake-up flag of the dock's controller
  ecFailed,      \* history: the last ioctl did not reach the controller
  bootIntent,     \* BOOT_COMPLETED is to be delivered
  dockIntent,     \* DOCK_EVENT to be delivered: "none", "dock", "undock"
  keys,          \* ACTION_DOCK_KEYPAD_KEY_PRESSED to be delivered, oldest first
  receivers,     \* receivers made for keys so far; the last one is the number
  shown,         \* receiver whose notification is on display, or 0
  title,         \* what it says
  step, hand,    \* of a key: "idle", "received", "shown"; what it will say
  cancels,       \* receivers whose mCancelKpNotifications is to run
  died,          \* history: the process ended while a notification was shown
  lost           \* history: it ended with a touchpad key at hand, and has
                 \* shown nothing since

ecVars == <<ecWake, ecFailed>>
intentVars == <<bootIntent, dockIntent>>
noteVars == <<receivers, shown, title, step, hand, cancels, died, lost>>
vars == <<inDock, ecVars, intentVars, keys, noteVars>>

(* Keys and statuses that have different titles, as far as it matters.     *)
Titles == {"touchpad on", "touchpad off", "other"}

Init ==
  /\ inDock = FALSE /\ ecWake \in BOOLEAN /\ ecFailed = FALSE
  /\ bootIntent = TRUE /\ dockIntent = "none" /\ keys = <<>>
  /\ receivers = 0 /\ shown = 0 /\ title = "other"
  /\ step = "idle" /\ hand = "other" /\ cancels = {}
  /\ died = FALSE /\ lost = FALSE

------------------------------------------------------------------------------
(* What the system does, as parts of actions of the composition.           *)

(* A dock event that has not been delivered is replaced by the next one.   *)
DockChanges(docked) ==
  /\ inDock' = docked
  /\ dockIntent' = IF docked THEN "dock" ELSE "undock"
  /\ IF docked THEN ecWake' \in BOOLEAN ELSE UNCHANGED ecWake
  /\ UNCHANGED <<ecFailed, bootIntent, keys, noteVars>>

(* All of Android starts anew: processes, notifications and undelivered    *)
(* broadcasts go, and what is true then is broadcast.                      *)
SystemRestarts ==
  /\ bootIntent' = TRUE
  /\ dockIntent' = IF inDock THEN "dock" ELSE "none"
  /\ keys' = <<>> /\ shown' = 0 /\ step' = "idle" /\ cancels' = {}
  /\ died' = FALSE /\ lost' = FALSE
  /\ UNCHANGED <<inDock, ecVars, receivers, title, hand>>

------------------------------------------------------------------------------
(* onReceive, on the main thread.                                          *)

Idle == step = "idle"

(* An ioctl, which fails when the tablet is not in the dock and may fail   *)
(* in it.                                                                  *)
nativeWriteECWakeUp(on) ==
  \/ inDock /\ ecWake' = on /\ ecFailed' = FALSE
  \/ ecWake' = ecWake /\ ecFailed' = TRUE

(* Of a DockEmbeddedController made for the purpose; a failure, or an      *)
(* exception, is only logged.  A process that ends before the ioctl has    *)
(* the effect of one that fails.                                           *)
setEcWakeMode(on) == nativeWriteECWakeUp(on)

ReceiveBoot ==
  /\ Idle /\ bootIntent
  /\ bootIntent' = FALSE
  /\ setEcWakeMode(TRUE)
  /\ UNCHANGED <<inDock, dockIntent, keys, noteVars>>

WakesOn_Undock(event) == event = "undock"              \* mistake
WakesOn(event) == event # "undock"

ReceiveDock ==
  /\ Idle /\ dockIntent # "none"
  /\ dockIntent' = "none"
  /\ IF WakesOn(dockIntent) THEN setEcWakeMode(TRUE) ELSE UNCHANGED ecVars
  /\ UNCHANGED <<inDock, bootIntent, keys, noteVars>>

(* A new receiver takes the key and chooses the title.                     *)
checkKeyPadKeyPressed ==
  /\ Idle /\ keys # <<>>
  /\ hand' = Head(keys) /\ keys' = Tail(keys)
  /\ receivers' = receivers + 1
  /\ step' = "received"
  /\ UNCHANGED <<inDock, ecVars, intentVars, shown, title, cancels, died, lost>>

(* removeCallbacks removes what this receiver has posted: nothing.         *)
displayNotification ==
  /\ step = "received"
  /\ cancels' = cancels \ {receivers}
  /\ shown' = receivers /\ title' = hand
  /\ step' = "shown"
  /\ died' = FALSE /\ lost' = FALSE
  /\ UNCHANGED <<inDock, ecVars, intentVars, keys, receivers, hand>>

Posted_Never(r) == cancels                             \* mistake
Posted(r) == cancels \cup {r}

PostCancellation ==
  /\ step = "shown"
  /\ cancels' = Posted(receivers)
  /\ step' = "idle"
  /\ UNCHANGED <<inDock, ecVars, intentVars, keys, receivers, shown, title, hand,
                 died, lost>>

(* All timers last equally long, so that they run out in the order they    *)
(* were posted.  Whichever it is takes away what is on display, also a     *)
(* later notification whose own timer has hardly begun.                    *)
mCancelKpNotifications ==
  /\ Idle
  /\ \E r \in cancels :
       /\ \A other \in cancels : r <= other
       /\ cancels' = cancels \ {r}
  /\ shown' = 0
  /\ UNCHANGED <<inDock, ecVars, intentVars, keys, receivers, title, step, hand,
                 died, lost>>

(* The process ends, and with it its timers and the broadcast at hand.     *)
ProcessDies ==
  /\ cancels # {} \/ ~Idle
  /\ cancels' = {} /\ step' = "idle"
  /\ died' = (shown # 0)
  /\ lost' = (lost \/ (step = "received" /\ hand # "other"))
  /\ UNCHANGED <<inDock, ecVars, intentVars, keys, receivers, shown, title, hand>>

Main ==
  \/ ReceiveBoot \/ ReceiveDock \/ checkKeyPadKeyPressed \/ displayNotification
  \/ PostCancellation \/ mCancelKpNotifications \/ ProcessDies

------------------------------------------------------------------------------
(* Properties.                                                             *)

Flags ==
  /\ inDock \in BOOLEAN /\ ecWake \in BOOLEAN /\ ecFailed \in BOOLEAN
  /\ bootIntent \in BOOLEAN /\ died \in BOOLEAN /\ lost \in BOOLEAN

Values ==
  /\ dockIntent \in {"none", "dock", "undock"}
  /\ keys \in Seq(Titles)
  /\ receivers \in Nat /\ shown \in 0 .. receivers
  /\ title \in Titles /\ hand \in Titles /\ step \in {"idle", "received", "shown"}
  /\ cancels \subseteq 1 .. receivers

(* Every variable keeps its type; a receiver that has a key at hand, or    *)
(* has just shown one, is there.                                           *)
TypeOK == Flags /\ Values /\ (~Idle => receivers # 0)

(* "On dock set ec_wakeup": in the dock the flag is on once the broadcasts *)
(* are delivered, however they were overtaken by docking, undocking and    *)
(* restarts; unless the last ioctl did not reach the controller.           *)
WakesInDock ==
  inDock /\ dockIntent = "none" /\ ~bootIntent /\ ~ecFailed => ecWake

(* A notification goes, unless the process ends before its timer.          *)
NotificationGoes == shown # 0 ~> shown = 0 \/ died

==============================================================================
