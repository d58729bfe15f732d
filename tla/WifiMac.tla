------------------------------ MODULE WifiMac ------------------------------
(***************************************************************************)
(* wifimacwriter, run once at each start of the tablet: it joins the text  *)
(* for the Wi-Fi chip and the MAC address of a vfat partition into         *)
(* /data/misc/wifi/nvram.txt, unless that file is there already.           *)
(*                                                                         *)
(* A step is a system call that may fail or that changes what is on        *)
(* /data.  The power may go at any moment.  `seen` is /data as programs    *)
(* see it, `disk` what the flash holds of it: nothing is ever flushed, so  *)
(* the two agree only when the kernel has written back (external).         *)
(*                                                                         *)
(* Of the file the model keeps which pieces of text are in it.             *)
(***************************************************************************)

Pieces == {"nvram", "macaddr", "override", "junk"}

VARIABLES
  disk, seen,    \* [exists, text, perms] of the file; [dir] the mount
                 \* point; [parents] the directories of the file
  mounted,       \* the vfat partition
  pc, text, err, \* the program: next step, what it will write, its result
  props,         \* wifi.module.type and its like are set
  old,           \* the flash has not heard yet that the file was truncated
  wrote,         \* history: this run has opened the file for writing
  harmed,        \* history: not all of the file's text was kept
  overlooked,    \* history: in this run stat failed, the file there or not
  stuck          \* history: in this run umount or rmdir failed

run == <<pc, text, err>>
history == <<wrote, harmed, overlooked, stuck>>
vars == <<disk, seen, mounted, run, props, old, history>>

Data == [exists : BOOLEAN, text : SUBSET Pieces, perms : BOOLEAN,
         dir : BOOLEAN, parents : BOOLEAN]

Init ==
  /\ disk = [exists |-> FALSE, text |-> {}, perms |-> FALSE,
             dir |-> FALSE, parents |-> FALSE]
  /\ seen = disk
  /\ mounted = FALSE
  /\ pc = "main" /\ text = {} /\ err = FALSE
  /\ props = FALSE /\ old = FALSE
  /\ wrote = FALSE /\ harmed = FALSE /\ overlooked = FALSE /\ stuck = FALSE

------------------------------------------------------------------------------
(* The program.                                                            *)

Goto(l) == pc' = l
Fails(l) == pc' = l /\ err' = TRUE

(* read_file leaves the byte before its terminator unset: the text is      *)
(* followed by whatever is in it, or by nothing if that is a zero.         *)
read_file(piece) == {{piece}, {piece, "junk"}}

(* An unreadable or unknown project id ends the program.                   *)
main ==
  /\ pc = "main"
  /\ \/ Goto("stat") /\ UNCHANGED err
     \/ Fails("done")
  /\ UNCHANGED <<disk, seen, mounted, text, props, old, history>>

FileIsThere_Never == FALSE               \* mistake: O_TRUNC at each start
FileIsThere == seen.exists

(* A stat that fails means to the program that there is no file, whatever  *)
(* the reason: memory, or a flash that cannot be read.                     *)
copy_nvram ==
  /\ pc = "stat"
  /\ \E fails \in BOOLEAN :
       /\ overlooked' = fails
       /\ IF FileIsThere /\ ~fails THEN Goto("perm") /\ UNCHANGED <<text, err>>
          ELSE \/ text' \in read_file("nvram") /\ Goto("dir") /\ UNCHANGED err
               \/ Fails("exit") /\ UNCHANGED text
  /\ UNCHANGED <<disk, seen, mounted, props, old, wrote, harmed, stuck>>

(* A mount point of a run that was cut off is used again; if its stat      *)
(* fails, mkdir does too.                                                  *)
MakeMountPoint ==
  /\ pc = "dir"
  /\ \/ seen' = [seen EXCEPT !.dir = TRUE] /\ Goto("mount") /\ UNCHANGED err
     \/ Fails("parents") /\ UNCHANGED seen
  /\ UNCHANGED <<disk, mounted, text, props, old, history>>

Mount ==
  /\ pc = "mount"
  /\ \/ mounted' = TRUE /\ Goto("mac") /\ UNCHANGED err
     \/ Fails("parents") /\ UNCHANGED mounted
  /\ UNCHANGED <<disk, seen, text, props, old, history>>

WithoutMac_Silent == pc' = "parents" /\ UNCHANGED err      \* mistake
WithoutMac == Fails("parents")

ReadMac ==
  /\ pc = "mac"
  /\ \/ /\ \E mac \in read_file("macaddr") : text' = text \cup mac \cup {"override"}
        /\ Goto("parents") /\ UNCHANGED err
     \/ WithoutMac /\ UNCHANGED text
  /\ UNCHANGED <<disk, seen, mounted, props, old, history>>

(* Nobody looks at what these mkdir return.                                *)
MakeParents ==
  /\ pc = "parents"
  /\ seen' \in {seen, [seen EXCEPT !.parents = TRUE]}
  /\ Goto("open")
  /\ UNCHANGED <<disk, mounted, text, err, props, old, history>>

(* O_TRUNC empties a file that stat has not seen.                          *)
Open ==
  /\ pc = "open"
  /\ \/ /\ seen.parents
        /\ seen' = [seen EXCEPT !.exists = TRUE, !.text = {}]
        /\ old' = seen.exists
        /\ wrote' = TRUE /\ harmed' = FALSE
        /\ Goto("write") /\ UNCHANGED err
     \/ Fails("exit") /\ UNCHANGED <<seen, old, wrote, harmed>>
  /\ UNCHANGED <<disk, mounted, text, props, overlooked, stuck>>

Output_OnlyWithMac == IF "macaddr" \in text THEN text ELSE {}     \* mistake
Output == text

(* Nor at what write returns: a full disk takes a part, or nothing.        *)
Write ==
  /\ pc = "write"
  /\ \E part \in SUBSET Output :
       /\ seen' = [seen EXCEPT !.text = part]
       /\ harmed' = (part # Output)
  /\ Goto("perm")
  /\ UNCHANGED <<disk, mounted, text, err, props, old, wrote, overlooked, stuck>>

AfterFile_OwnMount == IF mounted THEN "exit" ELSE "props"   \* mistake: clean up only after a mount
AfterFile == "exit"

Permissions ==
  /\ pc = "perm"
  /\ \/ seen' = [seen EXCEPT !.perms = TRUE] /\ UNCHANGED err /\ Goto(AfterFile)
     \/ UNCHANGED seen /\ Fails(AfterFile)
  /\ UNCHANGED <<disk, mounted, text, props, old, history>>

(* Nobody looks at what umount and rmdir return either.                    *)
Umount ==
  /\ pc = "exit"
  /\ mounted' \in {FALSE, mounted}
  /\ stuck' = mounted'
  /\ Goto("rmdir")
  /\ UNCHANGED <<disk, seen, text, err, props, old, wrote, harmed, overlooked>>

(* A directory with something mounted on it cannot be removed.             *)
Rmdir ==
  /\ pc = "rmdir"
  /\ seen' \in {seen} \cup {gone \in {[seen EXCEPT !.dir = FALSE]} : ~mounted}
  /\ stuck' = (stuck \/ seen'.dir)
  /\ Goto("props")
  /\ UNCHANGED <<disk, mounted, text, err, props, old, wrote, harmed, overlooked>>

(* By project id, whatever copy_nvram returns.                             *)
SetProperties ==
  /\ pc = "props"
  /\ props' = TRUE
  /\ Goto("done")
  /\ UNCHANGED <<disk, seen, mounted, text, err, old, history>>

------------------------------------------------------------------------------
(* The kernel and the power.                                               *)

(* The journal brings all names to the flash, but of the file's text only  *)
(* what has been allocated so far.  A truncation is a name like others: it *)
(* may get there before any of the new text.                               *)
WriteBack ==
  /\ \E kept \in SUBSET seen.text :
       /\ ~old => disk.text \subseteq kept
       /\ disk' = [seen EXCEPT !.text = kept]
  /\ old' = FALSE
  /\ UNCHANGED <<seen, mounted, run, props, history>>

(* What is in memory is gone and the tablet starts again.                  *)
PowerLoss ==
  /\ seen' = disk
  /\ mounted' = FALSE
  /\ pc' = "main" /\ text' = {} /\ err' = FALSE
  /\ props' = FALSE /\ old' = FALSE
  /\ wrote' = FALSE /\ overlooked' = FALSE /\ stuck' = FALSE
  /\ harmed' = (disk.exists /\ (harmed \/ pc = "write" \/ disk.text # seen.text))
  /\ UNCHANGED disk

Program ==
  \/ main \/ copy_nvram \/ MakeMountPoint \/ Mount \/ ReadMac
  \/ MakeParents \/ Open \/ Write \/ Permissions
  \/ Umount \/ Rmdir \/ SetProperties

Next == Program \/ WriteBack \/ PowerLoss

Spec == Init /\ [][Next]_vars

------------------------------------------------------------------------------
(* Properties.                                                             *)

Places == {"main", "stat", "dir", "mount", "mac", "parents", "open", "write",
           "perm", "exit", "rmdir", "props", "done"}

(* Every variable keeps its type.                                          *)
TypeOK ==
  /\ disk \in Data /\ seen \in Data
  /\ mounted \in BOOLEAN
  /\ pc \in Places /\ text \subseteq Pieces /\ err \in BOOLEAN
  /\ props \in BOOLEAN /\ old \in BOOLEAN
  /\ wrote \in BOOLEAN /\ harmed \in BOOLEAN
  /\ overlooked \in BOOLEAN /\ stuck \in BOOLEAN

(* What has reached the flash of the file is never lost again, however     *)
(* often the program is run and wherever the power goes: stat, before      *)
(* anything else, keeps the open with O_TRUNC away from it.  Only a run    *)
(* whose stat failed can take text away; the name stays even then.         *)
FileIsKept ==
  [][disk.exists => /\ disk'.exists
                    /\ disk.text \subseteq disk'.text \/ overlooked]_vars

(* Unless a write was short or the power went before the text was on the   *)
(* flash, a file that is there has the chip's text: a run that cannot find *)
(* the MAC address leaves a usable file.                                   *)
UsableUnlessHarmed ==
  seen.exists /\ pc # "write" /\ ~harmed => "nvram" \in seen.text

(* A run that says "Completed without error" leaves the file with the mode *)
(* the Wi-Fi service needs, also when an earlier run was cut off before it *)
(* set it; and the file it has made itself has the MAC address, unless the *)
(* write was short.                                                        *)
CompletedWithoutError ==
  pc = "done" /\ ~err =>
    /\ seen.exists /\ seen.perms
    /\ wrote /\ ~harmed => {"macaddr", "override"} \subseteq seen.text

(* When the Wi-Fi properties appear, nothing is mounted and the mount      *)
(* point is gone, also one that any earlier run has left, cut off by a     *)
(* power loss or by a failing rmdir, and whichever way this run took to    *)
(* its end; unless umount or rmdir failed in this very run.                *)
CleansUp == props /\ ~stuck => ~mounted /\ ~seen.dir

==============================================================================
