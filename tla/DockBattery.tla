---------------------------- MODULE DockBattery ----------------------------
(***************************************************************************)
(* The battery of the keyboard dock: DockBatteryHandler.java and its       *)
(* native half, which reads six files of the kernel one after the other.   *)
(*                                                                         *)
(* The battery service (external) makes a round for each event the kernel  *)
(* sends: update, process, hasNewData and, if it says so, a broadcast with *)
(* getNotifyData.  The kernel (external) sends an event whenever a file    *)
(* has changed.  A file that is not there is Absent; one that is there but *)
(* gives nothing when it is read is Unreadable.                            *)
(***************************************************************************)
EXTENDS Integers, Sequences

CONSTANTS
  Contents,      \* what each file may hold: a record of sets
  Absent, Unreadable

(* In the order nativeDockBatteryUpdate reads them.                        *)
Order == <<"level", "status", "present", "padUsb", "ac", "dockAc">>
Files == {"level", "status", "present", "padUsb", "ac", "dockAc"}

(* The files of one directory, which are found by what its type file says. *)
Supplies == {{"level", "status", "present"}, {"padUsb"}, {"ac"}, {"dockAc"}}

ASSUME ContentsAssumption ==
  /\ {Absent, Unreadable} \cap Int = {}
  /\ Contents.level \subseteq Int \cup {Absent, Unreadable}

VARIABLES
  files, event,  \* the kernel: what the files hold, an event is pending
  found,         \* gPaths: the files that were there at the start
  field,         \* mDockBatteryLevel, ... as last read
  plugged,       \* mDockBatteryPlugged
  last,          \* mLast...: field and plugged when last compared
  mInitial,
  at,            \* 0 between rounds, 1 .. 6 the file to read, then process,
                 \* hasNewData
  told, answer   \* what the last broadcast said; what hasNewData returned

vars == <<files, event, found, field, plugged, last, mInitial, at, told, answer>>

------------------------------------------------------------------------------
(* Start of the system process: the native library looks for the paths and *)
(* the service makes its first round.                                      *)

Zero(f) == IF f \in {"level", "status"} THEN 0 ELSE FALSE
Blank == [field |-> [f \in Files |-> Zero(f)], plugged |-> "no"]

(* What may be found: access says that a file is there and not what a read *)
(* of it will give, and where the type cannot be read nothing is found.    *)
register(content) ==
  {{f \in UNION known : content[f] # Absent} : known \in SUBSET Supplies}

Init ==
  /\ files \in [level : Contents.level, status : Contents.status,
                present : Contents.present, padUsb : Contents.padUsb,
                ac : Contents.ac, dockAc : Contents.dockAc]
  /\ event = TRUE
  /\ found \in register(files)
  /\ field = Blank.field /\ plugged = "no" /\ last = Blank
  /\ mInitial = TRUE /\ at = 0 /\ told = Blank /\ answer = FALSE

Restart ==
  /\ event' = TRUE
  /\ found' \in register(files)
  /\ field' = Blank.field /\ plugged' = "no" /\ last' = Blank
  /\ mInitial' = TRUE /\ at' = 0 /\ told' = Blank /\ answer' = FALSE
  /\ UNCHANGED files

Change ==
  /\ \E f \in Files : \E c \in Contents[f] \ {files[f]} :
       files' = [files EXCEPT ![f] = c]
  /\ event' = TRUE
  /\ UNCHANGED <<found, field, plugged, last, mInitial, at, told, answer>>

------------------------------------------------------------------------------
(* A round.                                                                *)

UNKNOWN == 1
CHARGING == 2
NOT_CHARGING == 4

getDockBatteryStatus(c) ==
  CASE c = "Charging" -> CHARGING
    [] c = "Not charging" -> NOT_CHARGING
    [] OTHER -> UNKNOWN

Parse(f, c) ==
  CASE f = "level"   -> c
    [] f = "status"  -> getDockBatteryStatus(c)
    [] f = "present" -> c = "dock detect = 1"
    [] OTHER         -> c # "0"

Default(f) ==
  CASE f = "level"  -> 0
    [] f = "status" -> UNKNOWN
    [] OTHER        -> FALSE

Value(f) == IF f \in found /\ files[f] \notin {Absent, Unreadable}
            THEN Parse(f, files[f]) ELSE Default(f)

Begin ==
  /\ at = 0 /\ event
  /\ event' = FALSE
  /\ at' = 1
  /\ UNCHANGED <<files, found, field, plugged, last, mInitial, told, answer>>

update ==
  /\ at \in 1 .. 6
  /\ field' = [field EXCEPT ![Order[at]] = Value(Order[at])]
  /\ at' = at + 1
  /\ UNCHANGED <<files, event, found, plugged, last, mInitial, told, answer>>

Plugged ==
  IF field.dockAc \/ field.ac THEN "AC" ELSE IF field.padUsb THEN "USB" ELSE "no"

process ==
  /\ at = 7
  /\ plugged' = Plugged
  /\ at' = 8
  /\ UNCHANGED <<files, event, found, field, last, mInitial, told, answer>>

getNotifyData == [field |-> field, plugged |-> plugged]

Differs_NotLevel ==                      \* mistake: a comparison is forgotten
  \/ \E f \in Files \ {"level"} : field[f] # last.field[f]
  \/ plugged # last.plugged
Differs == (\E f \in Files : field[f] # last.field[f]) \/ plugged # last.plugged

Saved_NotPresent ==                      \* mistake: one is not saved
  [getNotifyData EXCEPT !.field.present = last.field.present]
Saved == getNotifyData

hasNewData ==
  /\ at = 8
  /\ answer' = (mInitial \/ Differs)
  /\ last' = Saved
  /\ mInitial' = FALSE
  /\ told' = IF answer' THEN getNotifyData ELSE told
  /\ at' = 0
  /\ UNCHANGED <<files, event, found, field, plugged>>

Next == Restart \/ Change \/ Begin \/ update \/ process \/ hasNewData

Spec == Init /\ [][Next]_vars

------------------------------------------------------------------------------
(* Properties.                                                             *)

Field == [level : Int, status : {0, UNKNOWN, CHARGING, NOT_CHARGING},
          present : BOOLEAN, padUsb : BOOLEAN, ac : BOOLEAN, dockAc : BOOLEAN]
Report == [field : Field, plugged : {"no", "AC", "USB"}]

(* Every variable keeps its type, also where a file cannot be read.        *)
TypeOK ==
  /\ \A f \in Files : files[f] \in Contents[f]
  /\ event \in BOOLEAN /\ mInitial \in BOOLEAN /\ answer \in BOOLEAN
  /\ found \subseteq Files
  /\ field \in Field /\ plugged \in {"no", "AC", "USB"}
  /\ last \in Report /\ told \in Report
  /\ at \in 0 .. 8

(* Between rounds, with no event to come, what the system was told is what *)
(* the files say, although they are read one by one while they change, the *)
(* changes are noticed by comparison only, and the process may be started  *)
(* again in the middle of a round.                                         *)
ToldIsTrue ==
  at = 0 /\ ~event =>
    /\ \A f \in Files : told.field[f] = Value(f)
    /\ told.plugged = "AC" <=> told.field.ac \/ told.field.dockAc
    /\ told.plugged = "no" => ~told.field.padUsb

(* A broadcast after the first one says something new.                     *)
TellsOnlyNews ==
  [][at = 8 /\ at' = 0 /\ answer' => mInitial \/ told # getNotifyData]_vars

==============================================================================
