--------------------------- MODULE MCDockBattery ---------------------------
(* The charge and its status change, and the dock with its adapter comes   *)
(* and goes: the file of its adapter is there only with it, and reading it *)
(* may fail while the dock is being taken away.                            *)
EXTENDS DockBattery

MCContents ==
  [level   |-> {50, 51},
   status  |-> {"Charging", "Full"},
   present |-> {"dock detect = 1", "dock detect = 0"},
   padUsb  |-> {"0", "1"},
   ac      |-> {"0"},
   dockAc  |-> {"1", Absent, Unreadable}]
==============================================================================
