---------------------------- MODULE MachOReader -----------------------------
(***************************************************************************)
(* What the two kernel readers of Mach-O files have in common: a task      *)
(* allocates a page, reads the start of its file into it, looks at the     *)
(* first word and frees the page.  They are the binary format of           *)
(* linux-7.0/fs/binfmt_mach_o.c and the parser of lpnu/lpnu_mach_o.c, and  *)
(* they take their pages from one kernel heap.                             *)
(*                                                                         *)
(* A file too short for a magic number fills only the first bytes of the   *)
(* word; the others are what the page held before.  All magic numbers have *)
(* four nonzero bytes, so zeros do not complete one, and of the leftovers  *)
(* only those of the same magic number do.                                 *)
(***************************************************************************)
EXTENDS Integers, FiniteSets

CONSTANT Execs     \* the tasks, each in one exec or one parse at a time

ASSUME ExecsAssumption == IsFiniteSet(Execs)

(* The first word of a file as the host reads it. *)
Magics == {"MAGIC_32", "CIGAM", "MAGIC_64", "CIGAM64", "MAGIC_FAT",
           "FAT_CIGAM", "NATIVE"}
Words  == Magics \union {"NO_MAGIC"}
Results == {"none", "executed", "parsed", "ELOOP", "ENOEXEC", "ENOMEM", "EIO",
            "EINVAL"}
Files  == [word : Magics, whole : {TRUE}]
            \union [word : Magics \ {"NATIVE"}, whole : {FALSE}]
(* What stands for the file of a task that has none. *)
NoFile == [word |-> "NATIVE", whole |-> TRUE]

VARIABLES
  file,       \* what every task is about to run or to parse
  pc,         \* where every task is
  result,     \* what it last returned
  first,      \* the first word of its page
  buffers     \* pages now allocated

readerVars == <<file, pc, result, first, buffers>>

Goto(e, place) == pc' = [pc EXCEPT ![e] = place]
Returning(e, r) ==
  /\ Goto(e, "return")
  /\ result' = [result EXCEPT ![e] = r]

(* A fault of the allocation: a page of kmalloc, with anything in it.      *)
Fault_Alloc_NotCleared(e, word) == first' = [first EXCEPT ![e] = word]

(* kzalloc clears the page, whatever its last user left there.             *)
Alloc(e, word) == first' = [first EXCEPT ![e] = "NO_MAGIC"]

(* Allocation and read are the same in both; `next' and `after' are the    *)
(* places of the caller.                                                   *)
AllocPage(e, next) ==
  \/ Returning(e, "ENOMEM") /\ UNCHANGED <<first, buffers>>
  \/ /\ Goto(e, next)
     /\ \E word \in Words : Alloc(e, word)
     /\ buffers' = buffers + 1
     /\ UNCHANGED result

(* kernel_read: the word of the file, completed by what was there.         *)
Completed(f, before) ==
  IF f.whole \/ before = f.word THEN f.word ELSE "NO_MAGIC"
ReadPage(e, after) ==
  /\ Goto(e, after)
  /\ first' = [first EXCEPT ![e] = Completed(file[e], @)]
  /\ UNCHANGED <<result, buffers>>

FreePage(e) ==
  /\ buffers' = buffers - 1
  /\ first' = [first EXCEPT ![e] = "NO_MAGIC"]
=============================================================================
