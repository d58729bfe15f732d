------------------------- MODULE DockBattery_proofs -------------------------
(* What the system is told of the dock, whatever the files hold.           *)
EXTENDS DockBattery, TLAPS

(* A file read in this round is as read, unless it changed meanwhile; then *)
(* there is an event for another round.                                    *)
Read == ~event => \A i \in 1 .. 6 : i < at => field[Order[i]] = Value(Order[i])

Processed == at = 8 => plugged = Plugged

(* What was told and what is compared with agree; only the first round has *)
(* nothing to compare with, and it is sure to come.                        *)
Kept ==
  /\ ~mInitial => /\ told.plugged = last.plugged
                  /\ \A f \in Files : told.field[f] = last.field[f]
  /\ mInitial /\ at = 0 => event

Inv == TypeOK /\ Read /\ Processed /\ Kept /\ ToldIsTrue

------------------------------------------------------------------------------

LEMMA OrderOf ==
  /\ Order[1] = "level" /\ Order[2] = "status" /\ Order[3] = "present"
  /\ Order[4] = "padUsb" /\ Order[5] = "ac" /\ Order[6] = "dockAc"
  BY DEF Order

LEMMA BlankType == Blank \in Report /\ Blank.field \in Field
  <1>1. Blank.field = [f \in Files |-> Zero(f)] /\ Blank.plugged = "no"
    BY DEF Blank
  <1>2. Blank.field = [level |-> 0, status |-> 0, present |-> FALSE,
                       padUsb |-> FALSE, ac |-> FALSE, dockAc |-> FALSE]
    BY <1>1 DEF Zero, Files
  <1>3. Blank.field \in Field
    BY <1>2 DEF Field
  <1> QED
    BY <1>3 DEF Blank, Report

LEMMA FoundType == ASSUME NEW f \in register(files) PROVE f \subseteq Files
<1>1. UNION Supplies = Files
  BY DEF Supplies, Files
<1>2. PICK known \in SUBSET Supplies : f = {g \in UNION known : files[g] # Absent}
  BY DEF register
<1> QED
  BY <1>1, <1>2

(* A value read has the type of its field.                                 *)
LEMMA ValueType ==
  ASSUME TypeOK
  PROVE  /\ Value("level") \in Int
         /\ Value("status") \in {0, UNKNOWN, CHARGING, NOT_CHARGING}
         /\ \A f \in {"present", "padUsb", "ac", "dockAc"} : Value(f) \in BOOLEAN
  <1>1. files["level"] \in Int \cup {Absent, Unreadable}
    BY ContentsAssumption DEF TypeOK, Files
  <1>2. Value("level") \in Int
    BY <1>1 DEF Value, Parse, Default
  <1>3. Value("status") \in {0, UNKNOWN, CHARGING, NOT_CHARGING}
    BY DEF Value, Parse, Default, getDockBatteryStatus
  <1>4. \A f \in {"present", "padUsb", "ac", "dockAc"} : Value(f) \in BOOLEAN
    BY DEF Value, Parse, Default
  <1> QED
    BY <1>2, <1>3, <1>4

(* One read changes one field.                                             *)
LEMMA OneField ==
  ASSUME TypeOK, update
  PROVE  /\ field' \in Field
         /\ \A i \in 1 .. 6 : field'[Order[i]] =
              IF i = at THEN Value(Order[i]) ELSE field[Order[i]]
  <1>1. field \in Field /\ at \in 1 .. 6
        /\ field' = [field EXCEPT ![Order[at]] = Value(Order[at])]
    BY DEF TypeOK, update
  <1>2. CASE at = 1
    BY <1>1, <1>2, OrderOf, ValueType DEF Field
  <1>3. CASE at = 2
    BY <1>1, <1>3, OrderOf, ValueType DEF Field
  <1>4. CASE at = 3
    BY <1>1, <1>4, OrderOf, ValueType DEF Field
  <1>5. CASE at = 4
    BY <1>1, <1>5, OrderOf, ValueType DEF Field
  <1>6. CASE at = 5
    BY <1>1, <1>6, OrderOf, ValueType DEF Field
  <1>7. CASE at = 6
    BY <1>1, <1>7, OrderOf, ValueType DEF Field
  <1> QED
    BY <1>1, <1>2, <1>3, <1>4, <1>5, <1>6, <1>7

(* The same files hold what they held.                                     *)
LEMMA SameValue == ASSUME UNCHANGED <<files, found>> PROVE \A f : Value(f)' = Value(f)
  BY DEF Value

------------------------------------------------------------------------------

LEMMA InitInv == Init => Inv
<1> SUFFICES ASSUME Init PROVE Inv
  OBVIOUS
<1>1. \A f \in Files : files[f] \in Contents[f]
  BY DEF Init, Files
<1>2. TypeOK
  <2>1. event \in BOOLEAN /\ mInitial \in BOOLEAN /\ answer \in BOOLEAN
    BY DEF Init
  <2>2. at \in 0 .. 8 /\ plugged \in {"no", "AC", "USB"}
    BY DEF Init
  <2>3. field \in Field /\ last \in Report /\ told \in Report
    BY BlankType DEF Init
  <2>4. found \subseteq Files
    BY FoundType DEF Init
  <2> QED
    BY <1>1, <2>1, <2>2, <2>3, <2>4 DEF TypeOK
<1> QED
  BY <1>2 DEF Init, Inv, Read, Processed, Kept, ToldIsTrue

LEMMA RestartInv == ASSUME Inv, Restart PROVE Inv'
<1>1. TypeOK'
  <2>1. event' \in BOOLEAN /\ mInitial' \in BOOLEAN /\ answer' \in BOOLEAN
    BY DEF Restart
  <2>2. at' \in 0 .. 8 /\ plugged' \in {"no", "AC", "USB"}
    BY DEF Restart
  <2>3. field' \in Field /\ last' \in Report /\ told' \in Report
    BY BlankType DEF Restart
  <2>4. found' \subseteq Files
    BY FoundType DEF Restart
  <2> QED
    BY <2>1, <2>2, <2>3, <2>4 DEF Inv, Restart, TypeOK
<1> QED
  BY <1>1 DEF Inv, Restart, Read, Processed, Kept, ToldIsTrue

LEMMA ChangeInv == ASSUME Inv, Change PROVE Inv'
<1>1. PICK g \in Files : \E c \in Contents[g] : files' = [files EXCEPT ![g] = c]
  BY DEF Change
<1>2. \A f \in Files : files'[f] \in Contents[f]
  BY <1>1 DEF Inv, TypeOK
<1>3. TypeOK'
  BY <1>2 DEF Inv, Change, TypeOK
<1> QED
  BY <1>3 DEF Inv, Change, Read, Processed, Plugged, Kept, ToldIsTrue

LEMMA BeginInv == ASSUME Inv, Begin PROVE Inv'
<1>1. TypeOK'
  <2>1. event' \in BOOLEAN
    BY DEF Begin
  <2>2. at' \in 0 .. 8
    BY DEF Begin
  <2> QED
    BY <2>1, <2>2 DEF Inv, Begin, TypeOK
<1> QED
  BY <1>1 DEF Inv, Begin, Read, Processed, Kept, ToldIsTrue

LEMMA UpdateInv == ASSUME Inv, update PROVE Inv'
<1>1. TypeOK'
  BY OneField DEF Inv, update, TypeOK
<1>2. Read'
  <2>1. SUFFICES ASSUME ~event, NEW i \in 1 .. 6, i < at + 1
                 PROVE  field'[Order[i]] = Value(Order[i])
    BY SameValue DEF update, Read
  <2>2. CASE i = at
    BY <2>2, OneField DEF Inv
  <2>3. CASE i < at
    BY <2>1, <2>3, OneField DEF Inv, Read
  <2> QED
    BY <2>1, <2>2, <2>3 DEF update
<1> QED
  BY <1>1, <1>2 DEF Inv, update, Processed, Kept, ToldIsTrue

LEMMA ProcessInv == ASSUME Inv, process PROVE Inv'
<1>1. TypeOK'
  BY DEF Inv, process, TypeOK, Plugged
<1>2. Read'
  <2>1. \A i \in 1 .. 6 : i < at
    BY DEF process
  <2> QED
    BY <2>1, SameValue DEF Inv, process, Read
<1> QED
  BY <1>1, <1>2 DEF Inv, process, Processed, Plugged, Kept, ToldIsTrue

LEMMA HasNewDataInv == ASSUME Inv, hasNewData PROVE Inv'
<1>1. getNotifyData \in Report
  BY DEF Inv, TypeOK, getNotifyData, Report
<1>2. TypeOK'
  <2>1. mInitial' \in BOOLEAN /\ answer' \in BOOLEAN
    BY DEF Inv, TypeOK, hasNewData, Differs
  <2>2. at' \in 0 .. 8
    BY DEF hasNewData
  <2>3. last' \in Report /\ told' \in Report
    BY <1>1 DEF Inv, TypeOK, hasNewData, Saved
  <2> QED
    BY <2>1, <2>2, <2>3 DEF Inv, hasNewData, TypeOK
<1>3. getNotifyData.field = field /\ getNotifyData.plugged = plugged
  BY DEF getNotifyData
<1>4. /\ told'.plugged = plugged
      /\ \A f \in Files : told'.field[f] = field[f]
  BY <1>3 DEF Inv, hasNewData, Kept, Differs
<1>5. Kept'
  BY <1>3, <1>4 DEF hasNewData, Kept, Saved
<1>6. ToldIsTrue'
  <2>1. SUFFICES ASSUME ~event
                 PROVE  /\ \A f \in Files : field[f] = Value(f)
                        /\ plugged = "AC" <=> field.ac \/ field.dockAc
                        /\ plugged = "no" => ~field.padUsb
    <3>1. /\ told'.field.ac = field.ac /\ told'.field.dockAc = field.dockAc
          /\ told'.field.padUsb = field.padUsb
      BY <1>4 DEF Files
    <3> QED
      BY <1>4, <2>1, <3>1, SameValue DEF hasNewData, ToldIsTrue
  <2>2. \A i \in 1 .. 6 : field[Order[i]] = Value(Order[i])
    BY <2>1 DEF Inv, Read, hasNewData
  <2>3. \A f \in Files : field[f] = Value(f)
    BY <2>2, OrderOf DEF Files
  <2> QED
    BY <2>3 DEF Inv, hasNewData, Processed, Plugged
<1> QED
  BY <1>2, <1>5, <1>6 DEF Inv, hasNewData, Read, Processed

LEMMA Invariance == Spec => []Inv
<1>1. ASSUME Inv, [Next]_vars PROVE Inv'
  <2>1. CASE UNCHANGED vars
    BY <1>1, <2>1, SameValue DEF vars, Inv, TypeOK, Read, Processed, Plugged,
       Kept, ToldIsTrue
  <2> QED
    BY <1>1, <2>1, RestartInv, ChangeInv, BeginInv, UpdateInv, ProcessInv,
       HasNewDataInv DEF Next
<1> QED
  BY InitInv, <1>1, PTL DEF Spec

------------------------------------------------------------------------------

(* The variables keep their types.                                         *)
THEOREM TypeCorrect == Spec => []TypeOK
<1>1. Inv => TypeOK
  BY DEF Inv
<1> QED
  BY <1>1, Invariance, PTL

(* With no event pending the system knows what the files say.              *)
THEOREM SystemIsToldTheTruth == Spec => []ToldIsTrue
<1>1. Inv => ToldIsTrue
  BY DEF Inv
<1> QED
  BY <1>1, Invariance, PTL

(* No broadcast repeats the one before.                                    *)
THEOREM BroadcastsAreNews == Spec => TellsOnlyNews
<1>1. ASSUME Inv, [Next]_vars, at = 8, at' = 0, answer', ~mInitial
      PROVE  told # getNotifyData
  <2>1. hasNewData
    BY <1>1 DEF Next, vars, Restart, Change, Begin, update, process
  <2>2. Differs
    BY <1>1, <2>1 DEF hasNewData
  <2>3. getNotifyData.field = field /\ getNotifyData.plugged = plugged
    BY DEF getNotifyData
  <2> QED
    BY <1>1, <2>2, <2>3 DEF Inv, Kept, Differs
<1>2. Inv /\ [Next]_vars =>
        [at = 8 /\ at' = 0 /\ answer' => mInitial \/ told # getNotifyData]_vars
  BY <1>1
<1> QED
  BY <1>2, Invariance, PTL DEF Spec, TellsOnlyNews

=============================================================================
