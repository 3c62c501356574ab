------------------------------ MODULE FileEraser ------------------------------
(***************************************************************************)
(* What func_file_eraser of bxr_eraser.c does to the data of one file.     *)
(*                                                                         *)
(* fopen("w") truncates the file: its blocks go back to the file system    *)
(* with the data still in them.  The loop then runs once per ERASER_SIZE   *)
(* bytes of the old length, but every turn seeks to offset 0 and calls     *)
(* fwrite once: one block is written again and again, first with random    *)
(* bytes, then with the last pattern.  A write stays in the FILE's buffer  *)
(* until the next fseek or fclose.                                         *)
(*                                                                         *)
(* The file system is external: it gives a file that grows any free block. *)
(* Its block is taken to be ERASER_SIZE bytes.                             *)
(***************************************************************************)
EXTENDS FileState

vars == <<pc, type, st_size, size, buf, named, own, data, written>>

Init ==
  /\ pc = "open"
  /\ type \in {3, 7}
  /\ st_size \in 0..MaxSize
  /\ size = 0
  /\ buf = NoData
  /\ named = TRUE
  /\ own \in {s \in SUBSET Blocks : Cardinality(s) = BlocksFor(st_size)}
  /\ data = [b \in Blocks |-> IF b \in own THEN "secret" ELSE "other"]
  /\ written = {}

(* fopen(filename, "w").                                                   *)
Truncate ==
  /\ pc = "open"
  /\ pc' = "loop"
  /\ own' = {}
  /\ UNCHANGED <<type, st_size, size, buf, named, data, written>>

(* The buffer goes to offset 0 of the file.                                *)
Flush ==
  IF buf = NoData THEN UNCHANGED <<own, data, written>>
  ELSE \E b \in Blocks :
         /\ IF own = {} THEN TRUE ELSE b \in own
         /\ own' = own \cup {b}
         /\ data' = [data EXCEPT ![b] = buf]
         /\ written' = written \cup {b}

Filled == IF size < ERASER_SIZE THEN "random" ELSE Pattern

(* Mutant: no fseek, so a turn writes behind the one before.               *)
Turn_Onward ==
  /\ pc = "loop"
  /\ size < st_size
  /\ \E b \in Blocks \ own :
       /\ own' = own \cup {b}
       /\ data' = [data EXCEPT ![b] = Filled]
       /\ written' = written \cup {b}
  /\ size' = size + ERASER_SIZE
  /\ UNCHANGED <<pc, type, st_size, buf, named>>

(* One turn of the loop: fseek, memset, fwrite of ERASER_SIZE bytes.       *)
Turn ==
  /\ pc = "loop"
  /\ size < st_size
  /\ Flush
  /\ buf' = Filled
  /\ size' = size + ERASER_SIZE
  /\ UNCHANGED <<pc, type, st_size, named>>

Close ==
  /\ pc = "loop"
  /\ size >= st_size
  /\ Flush
  /\ buf' = NoData
  /\ pc' = "rename"
  /\ UNCHANGED <<type, st_size, size, named>>

(* rename and remove of the file: its last block is free again.  Either    *)
(* can fail; a failed rename makes remove fail, too.                       *)
Remove ==
  /\ pc = "rename"
  /\ \/ named' = FALSE /\ own' = {} /\ pc' = "done"
     \/ named' \in BOOLEAN /\ pc' = "failed" /\ UNCHANGED own
  /\ UNCHANGED <<type, st_size, size, buf, data, written>>

(* The process ends with data in its buffer.                               *)
Crash ==
  /\ pc \in {"loop", "rename"}
  /\ pc' = "dead"
  /\ buf' = NoData
  /\ UNCHANGED <<type, st_size, size, named, own, data, written>>

Next == Truncate \/ Turn \/ Close \/ Remove \/ Crash

Spec == Init /\ [][Next]_vars

-----------------------------------------------------------------------------
(* The kindest file system: it gave the emptied file a block that had been *)
(* its own, so that every write landed on old data.  (Only then does the   *)
(* data of a file of one block go; another block is out of the program's   *)
(* hands once fopen has freed the file's.)                                 *)
OldData == {b \in Blocks : data[b] = "secret"}
LandedOnOldData == Cardinality(OldData) + Cardinality(written) = BlocksFor(st_size)

(* "After deletion recovery is impossible" (line 846): when the erasing    *)
(* reports "complete", no block of the disk holds the old data any more,   *)
(* at least where the file system put nothing beside it.  Not so when the  *)
(* file has several blocks, because every turn seeks to offset 0.          *)
Unrecoverable == pc = "done" /\ LandedOnOldData => OldData = {}

==============================================================================
