---------------------------- MODULE BinfmtMachO -----------------------------
(***************************************************************************)
(* The Mach-O binary format of the kernel, linux-7.0/fs/binfmt_mach_o.c,   *)
(* inside the part of exec that calls it.  The handler reads the header of *)
(* the file, and when it recognises a Mach-O file it frees its buffer and  *)
(* calls search_binary_handler again, on the same file.                    *)
(*                                                                         *)
(* External, and assumed of it:                                            *)
(*  - search_binary_handler is that of the kernels that export it to       *)
(*    binary formats, as the call in the handler requires: it counts its   *)
(*    own nesting and gives up with -ELOOP at MaxDepth.  (Later kernels    *)
(*    keep it to themselves and count in its caller, so that nothing would *)
(*    end the nesting there.)                                              *)
(*  - It takes a reference on the module of a handler it calls and drops   *)
(*    it afterwards, and goes on to the next format on -ENOEXEC; rmmod     *)
(*    waits for references.                                                *)
(*  - binfmt_misc, where it is built and switched on, comes first and      *)
(*    looks for the last dot of bprm->interp in every search; none of its  *)
(*    entries is for these files.  The native format comes next.           *)
(*                                                                         *)
(* bprm->file is never null when a handler is called, so the first return  *)
(* of the handler has no action.  The file is read where it lies: between  *)
(* two reads of one exec its header does not change.                       *)
(*                                                                         *)
(* A task execs a file or has it parsed by MachOParser; both take pages    *)
(* from one heap.                                                          *)
(***************************************************************************)
EXTENDS MachOParser

CONSTANT MaxDepth  \* nesting search_binary_handler allows (6 in those kernels)

ASSUME DepthAssumption == MaxDepth \in Nat

(* A fault of the comparisons: the first one is forgotten. *)
Fault_Recognised_Not32 == {"CIGAM", "MAGIC_64", "CIGAM64", "MAGIC_FAT"}

(* The magic numbers of the handler: both byte orders, and fat files. *)
Recognised == {"MAGIC_32", "CIGAM", "MAGIC_64", "CIGAM64", "MAGIC_FAT"}

VARIABLES
  loaded,     \* is the module in memory, its format registered
  modRefs,    \* references on the module
  depth,      \* handlers every exec is nested in
  interp,     \* has the exec a name in bprm->interp, or NULL
  misc        \* is binfmt_misc switched on (external)

searchVars == <<loaded, modRefs, depth, interp, misc>>
bvars == <<searchVars, readerVars>>

(* "search": in search_binary_handler; "handler": before kzalloc; "read":  *)
(* before kernel_read; "check": at the comparisons; "return": on the way   *)
(* out; "oops": killed by the kernel where it was, for good.               *)
Places == {"idle", "search", "handler", "read", "check", "return", "oops"}
            \union ParserPlaces

TypeOK ==
  /\ loaded \in BOOLEAN
  /\ modRefs \in Int /\ buffers \in Int
  /\ depth \in [Execs -> 0 .. MaxDepth]
  /\ interp \in [Execs -> BOOLEAN] /\ misc \in BOOLEAN
  /\ file \in [Execs -> Files]
  /\ pc \in [Execs -> Places]
  /\ result \in [Execs -> Results]
  /\ first \in [Execs -> Words]

Init ==
  /\ loaded = FALSE /\ modRefs = 0 /\ buffers = 0
  /\ file = [e \in Execs |-> NoFile]
  /\ pc = [e \in Execs |-> "idle"]
  /\ depth = [e \in Execs |-> 0]
  /\ interp = [e \in Execs |-> TRUE] /\ misc \in BOOLEAN
  /\ result = [e \in Execs |-> "none"]
  /\ first = [e \in Execs |-> "NO_MAGIC"]

-----------------------------------------------------------------------------
(* The module.                                                             *)

lpnu_mach_o_init ==
  /\ ~loaded
  /\ loaded' = TRUE
  /\ UNCHANGED <<modRefs, depth, interp, misc, readerVars>>

lpnu_mach_o_exit ==
  /\ loaded
  /\ modRefs = 0
  /\ loaded' = FALSE
  /\ UNCHANGED <<modRefs, depth, interp, misc, readerVars>>

(* binfmt_misc is switched on or off through its status file (external).   *)
SwitchMisc ==
  /\ misc' = ~misc
  /\ UNCHANGED <<loaded, modRefs, depth, interp, readerVars>>

(* Exec and its search for a handler (external).                           *)

Exec(e, f) ==
  /\ pc[e] = "idle"
  /\ Goto(e, "search")
  /\ file' = [file EXCEPT ![e] = f]
  /\ result' = [result EXCEPT ![e] = "none"]
  /\ interp' = [interp EXCEPT ![e] = TRUE]
  /\ UNCHANGED <<loaded, modRefs, depth, misc, first, buffers>>

Native(e) == file[e].word = "NATIVE"

(* The first format of the list reads the string that interp points to.    *)
MiscReadsNull(e) == misc /\ ~interp[e]

SearchTooDeep(e) ==
  /\ pc[e] = "search" /\ depth[e] = MaxDepth
  /\ Returning(e, "ELOOP")
  /\ UNCHANGED <<searchVars, file, first, buffers>>

(* The task dies inside the nested handlers: none of them returns, and the *)
(* references taken for them are never dropped.                            *)
SearchOopses(e) ==
  /\ pc[e] = "search" /\ depth[e] < MaxDepth
  /\ MiscReadsNull(e)
  /\ Goto(e, "oops")
  /\ UNCHANGED <<searchVars, file, result, first, buffers>>

SearchEnds(e) ==
  /\ pc[e] = "search" /\ depth[e] < MaxDepth /\ ~MiscReadsNull(e)
  /\ \/ Native(e) /\ Returning(e, "executed")
     \/ ~Native(e) /\ ~loaded /\ Returning(e, "ENOEXEC")
  /\ UNCHANGED <<searchVars, file, first, buffers>>

CanCall(e) ==
  /\ pc[e] = "search" /\ depth[e] < MaxDepth /\ ~MiscReadsNull(e)
  /\ ~Native(e) /\ loaded

(* A fault of the format structure: no .module, so no reference is taken.  *)
Fault_CallHandler_NoModule(e) ==
  /\ CanCall(e)
  /\ Goto(e, "handler")
  /\ depth' = [depth EXCEPT ![e] = @ + 1]
  /\ UNCHANGED <<loaded, modRefs, interp, misc, file, result, first, buffers>>

(* The format names its module, so a reference is taken for the call.      *)
CallHandler(e) ==
  /\ CanCall(e)
  /\ Goto(e, "handler")
  /\ depth' = [depth EXCEPT ![e] = @ + 1]
  /\ modRefs' = modRefs + 1
  /\ UNCHANGED <<loaded, interp, misc, file, result, first, buffers>>

(* A handler is back in the search that called it; no format after it      *)
(* handles the file, so its result is the result of that search too.       *)
HandlerReturned(e) ==
  /\ pc[e] = "return" /\ depth[e] > 0
  /\ depth' = [depth EXCEPT ![e] = @ - 1]
  /\ modRefs' = modRefs - 1
  /\ UNCHANGED <<loaded, interp, misc, readerVars>>

(* The exec or the parse is over, and nothing is left of it.               *)
TaskReturns(e) ==
  /\ pc[e] = "return" /\ depth[e] = 0
  /\ Goto(e, "idle")
  /\ file' = [file EXCEPT ![e] = NoFile]
  /\ result' = [result EXCEPT ![e] = "none"]
  /\ interp' = [interp EXCEPT ![e] = TRUE]
  /\ UNCHANGED <<loaded, modRefs, depth, misc, first, buffers>>

-----------------------------------------------------------------------------
(* The handler, lpnu_load_mach_o_binary.  It does not look at how much was *)
(* read.                                                                   *)

AllocBuffer(e) ==
  /\ pc[e] = "handler"
  /\ AllocPage(e, "read")
  /\ UNCHANGED <<searchVars, file>>

(* A fault of the read error path: it returns without kfree.               *)
Fault_ReadFails_KeepsBuffer(e) ==
  /\ pc[e] = "read"
  /\ Returning(e, "EIO")
  /\ UNCHANGED <<searchVars, file, first, buffers>>

ReadFails(e) ==
  /\ pc[e] = "read"
  /\ Returning(e, "EIO")
  /\ FreePage(e)
  /\ UNCHANGED <<searchVars, file>>

ReadHeader(e) ==
  /\ pc[e] = "read"
  /\ ReadPage(e, "check")
  /\ UNCHANGED <<searchVars, file>>

(* A fault of the unknown format: its return is forgotten, and the handler *)
(* goes on as for a Mach-O file.                                           *)
Fault_NotRecognised_FallsThrough(e) ==
  /\ pc[e] = "check"
  /\ first[e] \notin Recognised
  /\ Goto(e, "search")
  /\ FreePage(e)
  /\ interp' = [interp EXCEPT ![e] = FALSE]
  /\ UNCHANGED <<loaded, modRefs, depth, misc, file, result>>

NotRecognised(e) ==
  /\ pc[e] = "check"
  /\ first[e] \notin Recognised
  /\ Returning(e, "ENOEXEC")
  /\ FreePage(e)
  /\ UNCHANGED <<searchVars, file>>

(* The buffer is freed and interp cleared, then the search is called, from *)
(* inside the handler.                                                     *)
SearchAgain(e) ==
  /\ pc[e] = "check"
  /\ first[e] \in Recognised
  /\ Goto(e, "search")
  /\ FreePage(e)
  /\ interp' = [interp EXCEPT ![e] = FALSE]
  /\ UNCHANGED <<loaded, modRefs, depth, misc, file, result>>

ExecStep(e) ==
  \/ SearchTooDeep(e)
  \/ SearchOopses(e)
  \/ SearchEnds(e)
  \/ CallHandler(e)
  \/ HandlerReturned(e)
  \/ TaskReturns(e)
  \/ AllocBuffer(e)
  \/ ReadFails(e)
  \/ ReadHeader(e)
  \/ NotRecognised(e)
  \/ SearchAgain(e)

TaskStep(e) == ExecStep(e) \/ (ParserStep(e) /\ UNCHANGED searchVars)

Next ==
  \/ lpnu_mach_o_init
  \/ lpnu_mach_o_exit
  \/ SwitchMisc
  \/ \E e \in Execs, f \in Files :
       Exec(e, f) \/ (lpnu_load_mach_o(e, f) /\ UNCHANGED searchVars)
  \/ \E e \in Execs : TaskStep(e)

(* A task that has begun goes on: readers and search never wait.           *)
Spec == Init /\ [][Next]_bvars /\ \A e \in Execs : WF_bvars(TaskStep(e))

-----------------------------------------------------------------------------
(* Properties.                                                             *)

(* No exec runs or returns through the code of the handler after rmmod has *)
(* taken the module out, however deep the handler has nested in itself.    *)
(* A task that was killed inside it keeps the module in for good.          *)
CodeStaysLoaded == \A e \in Execs : depth[e] > 0 => loaded

(* A task holds one page between its kzalloc and its kfree and none        *)
(* elsewhere: no path of either reader loses one, and none is kept through *)
(* the nested search, in which the task may be killed.                     *)
OneBufferPerReader ==
  buffers = Cardinality({e \in Execs :
              pc[e] \in {"read", "check", "parse_read", "parse_check"}})

(* A file too short to hold a magic number is never taken for a Mach-O     *)
(* file, not even by the handler, which ignores how much it has read, and  *)
(* whatever the page held when it was last used.                           *)
ShortIsUnknown ==
  \A e \in Execs : ~file[e].whole =>
    /\ result[e] # "parsed"
    /\ pc[e] = "search" => depth[e] = 0

(* The readers agree as far as the parser goes: a file that was parsed     *)
(* without an error is never reported as of unknown format by an exec that *)
(* reached the handler, also when rmmod is tried between its searches.     *)
ParsedIsKnown ==
  \A e, x \in Execs :
    /\ result[e] = "parsed" /\ file[x] = file[e]
    /\ depth[x] > 0
    => result[x] # "ENOEXEC"

(* Every exec and every parse returns, although the handler calls the      *)
(* search that calls the handler, and although it clears bprm->interp,     *)
(* which binfmt_misc reads: the only task that may be killed instead is an *)
(* exec of a file with one of the handler's magic numbers.                 *)
Returned(e) == pc[e] = "idle"
KilledInMachO(e) ==
  pc[e] = "oops" /\ file[e].whole /\ file[e].word \in Recognised
ExecReturns ==
  \A e \in Execs :
    pc[e] \notin {"idle", "oops"} ~> Returned(e) \/ KilledInMachO(e)

(* fs/lpnu/Kconfig: Linux recognises and executes Mach-O binaries.  An     *)
(* exec of one, with the format registered and nothing failing, is         *)
(* executed.                                                               *)
MachOExecutes ==
  \A e \in Execs :
    /\ file[e].word \in Recognised /\ file[e].whole
    /\ pc[e] = "return" /\ depth[e] > 0
    => result[e] \in {"executed", "ENOMEM", "EIO"}
=============================================================================
