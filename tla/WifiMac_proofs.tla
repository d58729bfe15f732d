--------------------------- MODULE WifiMac_proofs ---------------------------
(* What holds of /data and of the program however often the power goes.    *)
EXTENDS WifiMac, TLAPS

(* Before the file is opened there is none, or stat has failed on it; the  *)
(* flash holds nothing of its text that programs do not see, unless it has *)
(* not heard of a truncation.                                              *)
Searching == {"dir", "mount", "mac", "parents", "open"}
Order ==
  /\ pc \in Searching => (~seen.exists \/ overlooked) /\ "nvram" \in text
  /\ pc = "write" => seen.exists /\ seen.text = {} /\ "nvram" \in text
  /\ disk.exists => seen.exists
  /\ old \/ disk.text \subseteq seen.text
  /\ old => overlooked /\ pc \notin {"main", "stat"}
  /\ ~seen.exists => seen.text = {}
  /\ ~disk.exists => disk.text = {}

(* A run without an error so far has the MAC address, then has written it. *)
Ending == {"exit", "rmdir", "props", "done"}
Success ==
  /\ pc \in {"parents", "open", "write"} /\ ~err => {"macaddr", "override"} \subseteq text
  /\ pc \in {"perm"} \cup Ending /\ wrote /\ ~err /\ ~harmed
       => {"macaddr", "override"} \subseteq seen.text
  /\ pc \in {"main", "stat"} \cup Searching => ~wrote

(* What umount and rmdir have left is written down; once they have run the *)
(* directory is there only if one of them failed.                          *)
Cleanup ==
  /\ props => pc = "done"
  /\ pc = "rmdir" => (mounted <=> stuck)
  /\ pc = "props" \/ props => (mounted \/ seen.dir => stuck)

Finished ==
  /\ pc \in {"write", "perm"} => seen.exists
  /\ pc \in Ending /\ ~err => seen.exists /\ seen.perms
  /\ Cleanup

Inv == TypeOK /\ Order /\ UsableUnlessHarmed /\ Success /\ Finished

------------------------------------------------------------------------------

LEMMA InitInv == Init => Inv
<1> SUFFICES ASSUME Init PROVE Inv
  OBVIOUS
<1>1. disk \in Data /\ seen \in Data /\ text \subseteq Pieces /\ pc \in Places
  BY DEF Init, Data, Places, Pieces
<1>2. TypeOK
  BY <1>1 DEF Init, TypeOK
<1>3. Order /\ UsableUnlessHarmed
  BY DEF Init, Order, Searching, UsableUnlessHarmed
<1>4. Success /\ Finished
  BY DEF Init, Success, Searching, Ending, Finished, Cleanup, Ending
<1> QED
  BY <1>2, <1>3, <1>4 DEF Inv

LEMMA MainInv == ASSUME Inv, main PROVE Inv'
<1> USE DEF main, Goto, Fails, run, history
<1>1. TypeOK'
  BY DEF Inv, TypeOK, Places
<1>2. Order'
  BY DEF Inv, TypeOK, Data, Order, Searching
<1>3. UsableUnlessHarmed'
  BY DEF Inv, TypeOK, Data, Order, UsableUnlessHarmed
<1>4. Success'
  BY DEF Inv, TypeOK, Data, Success, Searching, Ending
<1>5. Finished'
  BY DEF Inv, TypeOK, Data, Order, Finished, Cleanup, Ending
<1> QED
  BY <1>1, <1>2, <1>3, <1>4, <1>5 DEF Inv

LEMMA Copy_nvramInv == ASSUME Inv, copy_nvram PROVE Inv'
<1> USE DEF copy_nvram, Goto, Fails, run, history, FileIsThere, read_file
<1>1. TypeOK'
  <2>1. text' \subseteq Pieces
    BY DEF Inv, TypeOK, Pieces
  <2>2. pc' \in Places /\ err' \in BOOLEAN
    BY DEF Inv, TypeOK, Places
  <2> QED
    BY <2>1, <2>2 DEF Inv, TypeOK
<1>2. Order'
  BY DEF Inv, TypeOK, Data, Order, Searching
<1>3. UsableUnlessHarmed'
  BY DEF Inv, TypeOK, Data, Order, UsableUnlessHarmed
<1>4. Success'
  BY DEF Inv, TypeOK, Data, Success, Searching, Ending
<1>5. Finished'
  BY DEF Inv, TypeOK, Data, Order, Finished, Cleanup, Ending
<1> QED
  BY <1>1, <1>2, <1>3, <1>4, <1>5 DEF Inv

LEMMA MakeMountPointInv == ASSUME Inv, MakeMountPoint PROVE Inv'
<1> USE DEF MakeMountPoint, Goto, Fails, run, history
<1>1. TypeOK'
  <2>1. seen' \in Data
    BY DEF Inv, TypeOK, Data
  <2>2. pc' \in Places /\ err' \in BOOLEAN
    BY DEF Inv, TypeOK, Places
  <2> QED
    BY <2>1, <2>2 DEF Inv, TypeOK
<1>2. Order'
  BY DEF Inv, TypeOK, Data, Order, Searching
<1>3. UsableUnlessHarmed'
  BY DEF Inv, TypeOK, Data, Order, UsableUnlessHarmed
<1>4. Success'
  BY DEF Inv, TypeOK, Data, Success, Searching, Ending
<1>5. Finished'
  BY DEF Inv, TypeOK, Data, Order, Finished, Cleanup, Ending
<1> QED
  BY <1>1, <1>2, <1>3, <1>4, <1>5 DEF Inv

LEMMA MountInv == ASSUME Inv, Mount PROVE Inv'
<1> USE DEF Mount, Goto, Fails, run, history
<1>1. TypeOK'
  BY DEF Inv, TypeOK, Places
<1>2. Order'
  BY DEF Inv, TypeOK, Data, Order, Searching
<1>3. UsableUnlessHarmed'
  BY DEF Inv, TypeOK, Data, Order, UsableUnlessHarmed
<1>4. Success'
  BY DEF Inv, TypeOK, Data, Success, Searching, Ending
<1>5. Finished'
  BY DEF Inv, TypeOK, Data, Order, Finished, Cleanup, Ending
<1> QED
  BY <1>1, <1>2, <1>3, <1>4, <1>5 DEF Inv

LEMMA ReadMacInv == ASSUME Inv, ReadMac PROVE Inv'
<1> USE DEF ReadMac, Goto, Fails, run, history, WithoutMac, read_file
<1>1. TypeOK'
  <2>1. text' \subseteq Pieces
    BY DEF Inv, TypeOK, Pieces
  <2>2. pc' \in Places /\ err' \in BOOLEAN
    BY DEF Inv, TypeOK, Places
  <2> QED
    BY <2>1, <2>2 DEF Inv, TypeOK
<1>2. Order'
  BY DEF Inv, TypeOK, Data, Order, Searching
<1>3. UsableUnlessHarmed'
  BY DEF Inv, TypeOK, Data, Order, UsableUnlessHarmed
<1>4. Success'
  BY DEF Inv, TypeOK, Data, Success, Searching, Ending
<1>5. Finished'
  BY DEF Inv, TypeOK, Data, Order, Finished, Cleanup, Ending
<1> QED
  BY <1>1, <1>2, <1>3, <1>4, <1>5 DEF Inv

LEMMA MakeParentsInv == ASSUME Inv, MakeParents PROVE Inv'
<1> USE DEF MakeParents, Goto, Fails, run, history
<1>1. TypeOK'
  <2>1. seen' \in Data
    BY DEF Inv, TypeOK, Data
  <2>2. pc' \in Places /\ err' \in BOOLEAN
    BY DEF Inv, TypeOK, Places
  <2> QED
    BY <2>1, <2>2 DEF Inv, TypeOK
<1>2. Order'
  BY DEF Inv, TypeOK, Data, Order, Searching
<1>3. UsableUnlessHarmed'
  BY DEF Inv, TypeOK, Data, Order, UsableUnlessHarmed
<1>4. Success'
  BY DEF Inv, TypeOK, Data, Success, Searching, Ending
<1>5. Finished'
  BY DEF Inv, TypeOK, Data, Order, Finished, Cleanup, Ending
<1> QED
  BY <1>1, <1>2, <1>3, <1>4, <1>5 DEF Inv

LEMMA OpenInv == ASSUME Inv, Open PROVE Inv'
<1> USE DEF Open, Goto, Fails, run, history
<1>1. TypeOK'
  <2>1. seen' \in Data
    BY DEF Inv, TypeOK, Data
  <2>2. pc' \in Places /\ err' \in BOOLEAN
    BY DEF Inv, TypeOK, Places
  <2>3. old' \in BOOLEAN /\ wrote' \in BOOLEAN /\ harmed' \in BOOLEAN
    BY DEF Inv, TypeOK, Data
  <2> QED
    BY <2>1, <2>2, <2>3 DEF Inv, TypeOK
<1>2. Order'
  <2>1. CASE pc' = "write"
    <3>1. seen'.exists /\ seen'.text = {} /\ disk' = disk /\ old' = seen.exists
      BY <2>1 DEF Inv, TypeOK, Data
    <3>2. (~seen.exists \/ overlooked) /\ "nvram" \in text
      BY DEF Inv, Order, Searching
    <3>3. ~seen.exists => disk.text = {}
      BY DEF Inv, Order
    <3> QED
      BY <2>1, <3>1, <3>2, <3>3 DEF Inv, Order, Searching
  <2>2. CASE pc' = "exit"
    BY <2>2 DEF Inv, Order, Searching
  <2> QED
    BY <2>1, <2>2
<1>3. UsableUnlessHarmed'
  BY DEF Inv, TypeOK, Data, Order, UsableUnlessHarmed
<1>4. Success'
  BY DEF Inv, TypeOK, Data, Success, Searching, Ending
<1>5. Finished'
  BY DEF Inv, TypeOK, Data, Order, Finished, Cleanup, Ending
<1> QED
  BY <1>1, <1>2, <1>3, <1>4, <1>5 DEF Inv

LEMMA WriteInv == ASSUME Inv, Write PROVE Inv'
<1> USE DEF Write, Goto, Fails, run, history, Output
<1>1. TypeOK'
  BY DEF Inv, TypeOK, Data, Places, Pieces, Order
<1>2. Order'
  <2>1. disk' = disk /\ seen'.exists = seen.exists /\ pc' = "perm"
    BY DEF Inv, TypeOK, Data
  <2>2. seen.exists /\ old' = old /\ (old \/ disk.text = {})
    BY DEF Inv, Order
  <2> QED
    BY <2>1, <2>2 DEF Inv, Order, Searching
<1>3. UsableUnlessHarmed'
  BY DEF Inv, TypeOK, Data, Order, UsableUnlessHarmed
<1>4. Success'
  BY DEF Inv, TypeOK, Data, Success, Searching, Ending
<1>5. Finished'
  BY DEF Inv, TypeOK, Data, Order, Finished, Cleanup, Ending
<1> QED
  BY <1>1, <1>2, <1>3, <1>4, <1>5 DEF Inv

LEMMA PermissionsInv == ASSUME Inv, Permissions PROVE Inv'
<1> USE DEF Permissions, AfterFile, Goto, Fails, run, history
<1>1. TypeOK'
  <2>1. seen' \in Data
    BY DEF Inv, TypeOK, Data
  <2>2. pc' \in Places /\ err' \in BOOLEAN
    BY DEF Inv, TypeOK, Places
  <2> QED
    BY <2>1, <2>2 DEF Inv, TypeOK
<1>2. Order'
  BY DEF Inv, TypeOK, Data, Order, Searching
<1>3. UsableUnlessHarmed'
  BY DEF Inv, TypeOK, Data, Order, UsableUnlessHarmed
<1>4. Success'
  BY DEF Inv, TypeOK, Data, Success, Searching, Ending
<1>5. Finished'
  BY DEF Inv, TypeOK, Data, Order, Finished, Cleanup, Ending
<1> QED
  BY <1>1, <1>2, <1>3, <1>4, <1>5 DEF Inv

LEMMA UmountInv == ASSUME Inv, Umount PROVE Inv'
<1> USE DEF Umount, Goto, run, history
<1>1. TypeOK'
  <2>1. mounted' \in BOOLEAN /\ stuck' \in BOOLEAN /\ pc' \in Places
    BY DEF Inv, TypeOK, Places
  <2> QED
    BY <2>1 DEF Inv, TypeOK
<1>2. Order'
  BY DEF Inv, TypeOK, Data, Order, Searching
<1>3. UsableUnlessHarmed'
  BY DEF Inv, TypeOK, Data, Order, UsableUnlessHarmed
<1>4. Success'
  BY DEF Inv, TypeOK, Data, Success, Searching, Ending
<1>5. Finished'
  BY DEF Inv, TypeOK, Data, Order, Finished, Cleanup, Ending
<1> QED
  BY <1>1, <1>2, <1>3, <1>4, <1>5 DEF Inv

LEMMA RmdirInv == ASSUME Inv, Rmdir PROVE Inv'
<1> USE DEF Rmdir, Goto, run, history
<1>1. TypeOK'
  <2>1. seen' \in Data
    BY DEF Inv, TypeOK, Data
  <2>2. stuck' \in BOOLEAN /\ pc' \in Places
    BY <2>1 DEF Inv, TypeOK, Data, Places
  <2> QED
    BY <2>1, <2>2 DEF Inv, TypeOK
<1>2. Order'
  BY DEF Inv, TypeOK, Data, Order, Searching
<1>3. UsableUnlessHarmed'
  BY DEF Inv, TypeOK, Data, Order, UsableUnlessHarmed
<1>4. Success'
  BY DEF Inv, TypeOK, Data, Success, Searching, Ending
<1>5. Finished'
  BY DEF Inv, TypeOK, Data, Order, Finished, Cleanup, Ending
<1> QED
  BY <1>1, <1>2, <1>3, <1>4, <1>5 DEF Inv

LEMMA SetPropertiesInv == ASSUME Inv, SetProperties PROVE Inv'
<1> USE DEF SetProperties, Goto, run, history
<1>1. TypeOK'
  BY DEF Inv, TypeOK, Data, Places
<1>2. Order'
  BY DEF Inv, TypeOK, Data, Order, Searching
<1>3. UsableUnlessHarmed'
  BY DEF Inv, TypeOK, Data, Order, UsableUnlessHarmed
<1>4. Success'
  BY DEF Inv, TypeOK, Data, Success, Searching, Ending
<1>5. Finished'
  BY DEF Inv, TypeOK, Data, Order, Finished, Cleanup, Ending
<1> QED
  BY <1>1, <1>2, <1>3, <1>4, <1>5 DEF Inv

LEMMA WriteBackInv == ASSUME Inv, WriteBack PROVE Inv'
<1> USE DEF WriteBack, Goto, Fails, run, history
<1>1. TypeOK'
  <2>1. disk' \in Data
    BY DEF Inv, TypeOK, Data
  <2> QED
    BY <2>1 DEF Inv, TypeOK
<1>2. Order'
  <2>1. PICK kept \in SUBSET seen.text : disk' = [seen EXCEPT !.text = kept]
    OBVIOUS
  <2>2. disk'.exists = seen.exists /\ disk'.text = kept
    BY <2>1 DEF Inv, TypeOK, Data
  <2>3. ~seen.exists => seen.text = {}
    BY DEF Inv, Order
  <2> QED
    BY <2>1, <2>2, <2>3 DEF Inv, Order, Searching
<1>3. UsableUnlessHarmed'
  BY DEF Inv, TypeOK, Data, Order, UsableUnlessHarmed
<1>4. Success'
  BY DEF Inv, TypeOK, Data, Success, Searching, Ending
<1>5. Finished'
  BY DEF Inv, TypeOK, Data, Order, Finished, Cleanup, Ending
<1> QED
  BY <1>1, <1>2, <1>3, <1>4, <1>5 DEF Inv

LEMMA PowerLossInv == ASSUME Inv, PowerLoss PROVE Inv'
<1> USE DEF PowerLoss, Goto, Fails, run, history
<1>1. TypeOK'
  <2>1. disk.exists \in BOOLEAN /\ harmed' \in BOOLEAN
    BY DEF Inv, TypeOK, Data
  <2>2. seen' \in Data /\ pc' \in Places
    BY DEF Inv, TypeOK, Places
  <2> QED
    BY <2>1, <2>2 DEF Inv, TypeOK
<1>2. Order'
  BY DEF Inv, TypeOK, Data, Order, Searching
<1>3. UsableUnlessHarmed'
  BY DEF Inv, TypeOK, Data, Order, UsableUnlessHarmed
<1>4. Success'
  BY DEF Inv, TypeOK, Data, Success, Searching, Ending
<1>5. Finished'
  BY DEF Inv, TypeOK, Data, Order, Finished, Cleanup, Ending
<1> QED
  BY <1>1, <1>2, <1>3, <1>4, <1>5 DEF Inv

LEMMA Invariance == Spec => []Inv
<1>1. ASSUME Inv, [Next]_vars PROVE Inv'
  <2>1. CASE UNCHANGED vars
    BY <1>1, <2>1 DEF vars, run, history, Inv, TypeOK, Order, UsableUnlessHarmed, Success,
                      Finished, Cleanup, Ending
  <2> QED
    BY <1>1, <2>1, MainInv, Copy_nvramInv, MakeMountPointInv, MountInv, ReadMacInv,
       MakeParentsInv, OpenInv, WriteInv, PermissionsInv, UmountInv, RmdirInv,
       SetPropertiesInv, WriteBackInv,
       PowerLossInv DEF Next, Program
<1> QED
  BY InitInv, <1>1, PTL DEF Spec

------------------------------------------------------------------------------

(* The variables keep their types.                                         *)
THEOREM TypeCorrect == Spec => []TypeOK
<1>1. Inv => TypeOK
  BY DEF Inv
<1> QED
  BY <1>1, Invariance, PTL

(* Without a MAC address the chip still gets its text.                     *)
THEOREM StaysUsable == Spec => []UsableUnlessHarmed
<1>1. Inv => UsableUnlessHarmed
  BY DEF Inv
<1> QED
  BY <1>1, Invariance, PTL

(* "Completed without error" is true of a run that says so.                *)
THEOREM SuccessIsTrue == Spec => []CompletedWithoutError
<1>1. Inv => CompletedWithoutError
  BY DEF Inv, Success, Finished, Ending, CompletedWithoutError
<1> QED
  BY <1>1, Invariance, PTL

(* Only a failing umount or rmdir of the same run leaves a mount or its    *)
(* directory behind a run, however many runs were cut off before it.       *)
THEOREM NothingStaysMounted == Spec => []CleansUp
<1>1. Inv => CleansUp
  BY DEF Inv, Finished, Cleanup, CleansUp
<1> QED
  BY <1>1, Invariance, PTL

KeptStep == disk.exists => /\ disk'.exists
                           /\ disk.text \subseteq disk'.text \/ overlooked

(* No sequence of starts and power losses damages a file on the flash, but *)
(* for a run whose stat failed.                                            *)
THEOREM FileSurvives == Spec => FileIsKept
<1>1. ASSUME Inv, [Next]_vars
      PROVE  KeptStep
  <2>1. CASE WriteBack
    <3>1. PICK kept \in SUBSET seen.text : /\ ~old => disk.text \subseteq kept
                                          /\ disk' = [seen EXCEPT !.text = kept]
      BY <2>1 DEF WriteBack
    <3>2. disk'.exists = seen.exists /\ disk'.text = kept
      BY <1>1, <3>1 DEF Inv, TypeOK, Data
    <3> QED
      BY <1>1, <3>1, <3>2 DEF Inv, Order, KeptStep
  <2>2. CASE UNCHANGED disk
    BY <2>2 DEF KeptStep
  <2> QED
    BY <1>1, <2>1, <2>2 DEF Next, Program, PowerLoss, main, copy_nvram, MakeMountPoint,
       Mount, ReadMac, MakeParents, Open, Write, Permissions, Umount, Rmdir, SetProperties, vars
<1>2. FileIsKept <=> [][KeptStep]_vars
  BY DEF FileIsKept, KeptStep
<1> QED
  BY <1>1, Invariance, <1>2, PTL DEF Spec

=============================================================================
