------------------------------- MODULE FileState -------------------------------
(***************************************************************************)
(* One file and the blocks of its disk, and what is promised about the     *)
(* erasing of the file.  FileEraser says how func_file_eraser of           *)
(* bxr_eraser.c keeps it.                                                  *)
(***************************************************************************)
EXTENDS Integers, FiniteSets

CONSTANTS
  Blocks,       \* the blocks of the disk
  ERASER_SIZE,  \* bytes written at a time
  MaxSize       \* bound: the largest file

ASSUME EraserAssumption ==
  /\ ERASER_SIZE \in Nat \ {0}
  /\ IsFiniteSet(Blocks)
  /\ MaxSize \in Nat
  /\ MaxSize <= ERASER_SIZE * Cardinality(Blocks)

VARIABLES
  pc,       \* "open", "loop", "rename", "done", "failed" or "dead"
  type,     \* 3 or 7 passes
  st_size,  \* the length stat() returned
  size,     \* bytes the loop has counted off
  buf,      \* the data buffered in the FILE, or NoData
  named,    \* the file can be found under its name
  own,      \* the blocks of the file
  data,     \* what every block holds
  written   \* history: blocks written by this call

NoData == "none"

BlocksFor(n) == (n + ERASER_SIZE - 1) \div ERASER_SIZE

(* The last of the patterns memset into msize; the ones before it are      *)
(* overwritten in memory and never reach the file.                         *)
Pattern == IF type = 3 THEN "FF" ELSE "96"

-----------------------------------------------------------------------------
(* Properties.                                                             *)

(* The types of the variables.                                             *)
FileTypeOK ==
  /\ pc \in {"open", "loop", "rename", "done", "failed", "dead"}
  /\ type \in {3, 7}
  /\ st_size \in 0..MaxSize
  /\ size \in Nat
  /\ buf \in {NoData, "FF", "96", "random"}
  /\ named \in BOOLEAN
  /\ own \subseteq Blocks
  /\ data \in [Blocks -> {"secret", "other", "FF", "96", "random"}]
  /\ written \subseteq Blocks

(* Once the file was opened nobody reads old data from it, not even after  *)
(* a crash in the middle or when it could not be removed.                  *)
ReadsNothingOld ==
  pc # "open" => \A b \in own : data[b] # "secret"

(* Whatever the length of the file, one block of the disk is written: as   *)
(* many secrets stay readable on the disk as there were other blocks.      *)
OneBlockWritten ==
  /\ Cardinality(written) <= 1
  /\ Cardinality({b \in Blocks : data[b] = "secret"}) >= BlocksFor(st_size) - 1

(* A file of up to ERASER_SIZE bytes ends as random bytes, a longer one as *)
(* the last pattern; an empty one is not written at all.                   *)
FinalData ==
  pc \in {"rename", "done", "failed"} =>
    \A b \in Blocks :
      b \in written => data[b] = IF st_size <= ERASER_SIZE THEN "random" ELSE Pattern

(* The erasing of a file leaves no old data in the file itself, though it  *)
(* writes one block of the disk only (func_file_eraser).                   *)
ErasureSafe == FileTypeOK /\ ReadsNothingOld /\ OneBlockWritten /\ FinalData

-----------------------------------------------------------------------------
(* The inductive invariant behind ReadsNothingOld, OneBlockWritten and     *)
(* FinalData.                                                              *)

(* The file owns what was written and nothing else, once it was truncated. *)
OwnsWritten ==
  /\ pc = "open" => written = {}
  /\ pc \in {"loop", "rename", "failed", "dead"} => own = written
  /\ pc = "done" => own = {}
  /\ written = {} \/ \E b \in Blocks : written = {b}

(* The data that was in the file is untouched where nothing was written.   *)
OldDataStays ==
  /\ \E s \in SUBSET Blocks :
       /\ Cardinality(s) = BlocksFor(st_size)
       /\ \A b \in s \ written : data[b] = "secret"
  /\ \A b \in written : data[b] # "secret"

(* What a turn that began at offset n leaves in the buffer.                *)
FilledAt(n) == IF n < ERASER_SIZE THEN "random" ELSE Pattern

(* The buffer belongs to the last turn, which began before the end of the  *)
(* file.                                                                   *)
BufferOfLastTurn ==
  /\ pc = "open" => size = 0
  /\ pc \in {"open", "loop"} /\ size = 0 => buf = NoData /\ written = {}
  /\ pc = "loop" /\ size > 0 =>
       /\ size - ERASER_SIZE \in Nat
       /\ size - ERASER_SIZE = 0 \/ size - ERASER_SIZE >= ERASER_SIZE
       /\ size - ERASER_SIZE < st_size
       /\ buf = FilledAt(size - ERASER_SIZE)

==============================================================================
