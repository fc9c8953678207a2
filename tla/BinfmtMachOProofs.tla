------------------------- MODULE BinfmtMachOProofs --------------------------
(***************************************************************************)
(* Theorems about BinfmtMachO for every set of tasks and every nesting     *)
(* limit.  Two counters have to be tied to what they count: the pages to   *)
(* the tasks between kzalloc and kfree, and the references on the module   *)
(* to the frames of its handler on all stacks.                             *)
(***************************************************************************)
EXTENDS BinfmtMachO, FiniteSetTheorems, TLAPS

Readers ==
  {e \in Execs : pc[e] \in {"read", "check", "parse_read", "parse_check"}}

(* A frame of the handler: a task and the level it is on. *)
Frames == {x \in Execs \X (1 .. MaxDepth) : x[2] <= depth[x[1]]}

RefsAreFrames ==
  /\ modRefs = Cardinality(Frames)
  /\ Frames # {} => loaded

(* Where a task is tells whether it is in the handler.                     *)
Nested ==
  \A e \in Execs :
    /\ pc[e] \in {"handler", "read", "check"} => depth[e] > 0
    /\ pc[e] \in {"idle"} \union ParserPlaces => depth[e] = 0
    /\ pc[e] \notin {"idle", "return"} => result[e] = "none"

(* The word a task looks at is the one of its file, or none if the file is *)
(* too short.                                                              *)
Word(f) == IF f.whole THEN f.word ELSE "NO_MAGIC"
WordRead ==
  \A e \in Execs :
    /\ pc[e] \in {"read", "parse_read"} => first[e] = "NO_MAGIC"
    /\ pc[e] \in {"check", "parse_check"} => first[e] = Word(file[e])

(* What a search above the first level, and a result, say of the file.     *)
Verdicts ==
  \A e \in Execs :
    /\ pc[e] = "search" /\ depth[e] > 0 => Word(file[e]) \in Recognised
    /\ result[e] = "parsed" => Word(file[e]) \in Accepted
    /\ result[e] = "ENOEXEC" /\ depth[e] > 0 => Word(file[e]) \notin Recognised

(* Only a task whose file was recognised has lost its interp, and only     *)
(* such a task is killed.                                                  *)
InterpLost ==
  \A e \in Execs :
    /\ ~interp[e] => /\ Word(file[e]) \in Recognised
                     /\ pc[e] \notin {"idle"} \union ParserPlaces
    /\ pc[e] = "oops" => ~interp[e]

BInv ==
  /\ TypeOK /\ Nested /\ WordRead /\ Verdicts /\ InterpLost
  /\ OneBufferPerReader /\ RefsAreFrames
-----------------------------------------------------------------------------
(* What the counters count is finite, and what follows from BInv.          *)

LEMMA Counted ==
  /\ IsFiniteSet(Readers)
  /\ IsFiniteSet(Frames) /\ Cardinality(Frames) \in Nat
<1>1. Readers \subseteq Execs
  BY DEF Readers
<1>2. IsFiniteSet(Execs \X (1 .. MaxDepth))
  <2>1. IsFiniteSet(1 .. MaxDepth)
    BY DepthAssumption, FS_Interval
  <2> QED
    BY <2>1, ExecsAssumption, FS_Product
<1>3. Frames \subseteq Execs \X (1 .. MaxDepth)
  BY DEF Frames
<1> QED
  BY <1>1, <1>2, <1>3, ExecsAssumption, FS_Subset, FS_CardinalityType

LEMMA NestedCodeLoaded == TypeOK /\ RefsAreFrames => CodeStaysLoaded
<1> SUFFICES ASSUME TypeOK, RefsAreFrames, NEW e \in Execs, depth[e] > 0
             PROVE  loaded
  BY DEF CodeStaysLoaded
<1>1. <<e, 1>> \in Frames
  BY DepthAssumption DEF Frames, TypeOK
<1> QED
  BY <1>1 DEF RefsAreFrames

LEMMA BInvInit == Init => BInv
<1> SUFFICES ASSUME Init
             PROVE  BInv
  OBVIOUS
<1>1. TypeOK
  <2>1. NoFile \in Files
    BY DEF NoFile, Files, Magics
  <2>2. 0 \in 0 .. MaxDepth /\ "idle" \in Places /\ "none" \in Results
        /\ "NO_MAGIC" \in Words
    BY DepthAssumption DEF Places, Results, Words
  <2>3. /\ loaded \in BOOLEAN /\ depth \in [Execs -> 0 .. MaxDepth]
        /\ interp \in [Execs -> BOOLEAN] /\ misc \in BOOLEAN
    BY <2>2 DEF Init
  <2>4. modRefs \in Int /\ buffers \in Int
    BY DEF Init
  <2>5. file \in [Execs -> Files]
    BY <2>1 DEF Init
  <2>6. /\ pc \in [Execs -> Places] /\ result \in [Execs -> Results]
        /\ first \in [Execs -> Words]
    BY <2>2 DEF Init
  <2> QED
    BY <2>3, <2>4, <2>5, <2>6 DEF TypeOK
<1>2. Nested /\ WordRead /\ Verdicts /\ InterpLost
  BY DEF Init, Nested, WordRead, Verdicts, InterpLost, ParserPlaces
<1>3. OneBufferPerReader
  <2>1. Readers = {}
    BY DEF Init, Readers
  <2> QED
    BY <2>1, FS_EmptySet DEF Init, OneBufferPerReader, Readers
<1>4. RefsAreFrames
  <2>1. Frames = {}
    BY DEF Init, Frames
  <2> QED
    BY <2>1, FS_EmptySet DEF Init, RefsAreFrames
<1> QED
  BY <1>1, <1>2, <1>3, <1>4 DEF BInv

-----------------------------------------------------------------------------
(* The pages.                                                              *)

(* A step of a task changes the place of that task only.  Whether the page *)
(* count follows depends on the places it leaves and reaches.              *)
Holding == {"read", "check", "parse_read", "parse_check"}

LEMMA PagesFollow ==
  ASSUME OneBufferPerReader, NEW e \in Execs, NEW place,
         TypeOK, pc' = [pc EXCEPT ![e] = place],
         buffers' = buffers + (IF place \in Holding THEN 1 ELSE 0)
                            - (IF pc[e] \in Holding THEN 1 ELSE 0)
  PROVE  OneBufferPerReader'
<1>1. /\ buffers = Cardinality(Readers) /\ buffers \in Int
      /\ OneBufferPerReader' <=> buffers' = Cardinality(Readers')
  BY DEF OneBufferPerReader, Readers, TypeOK
<1>2. Readers' = IF place \in Holding THEN Readers \union {e} ELSE Readers \ {e}
  BY DEF Readers, Holding, TypeOK
<1>3. e \in Readers <=> pc[e] \in Holding
  BY DEF Readers, Holding
<1>4. CASE e \in Readers
  <2>1. Cardinality(Readers \ {e}) = Cardinality(Readers) - 1
    BY <1>4, Counted, FS_RemoveElement
  <2>2. Readers \union {e} = Readers
    BY <1>4
  <2>3. buffers' = IF place \in Holding THEN buffers ELSE buffers - 1
    BY <1>1, <1>3, <1>4
  <2> QED
    BY <1>1, <1>2, <2>1, <2>2, <2>3
<1>5. CASE e \notin Readers
  <2>1. Cardinality(Readers \union {e}) = Cardinality(Readers) + 1
    BY <1>5, Counted, FS_AddElement
  <2>2. Readers \ {e} = Readers
    BY <1>5
  <2>3. buffers' = IF place \in Holding THEN buffers + 1 ELSE buffers
    BY <1>1, <1>3, <1>5
  <2> QED
    BY <1>1, <1>2, <2>1, <2>2, <2>3
<1> QED
  BY <1>4, <1>5

LEMMA PagesStep ==
  ASSUME TypeOK, OneBufferPerReader, [Next]_bvars
  PROVE  OneBufferPerReader'
<1> USE DEF TypeOK, Holding, Goto, Returning, FreePage
<1>1. CASE UNCHANGED <<pc, buffers>>
  BY <1>1 DEF OneBufferPerReader
<1>2. ASSUME NEW e \in Execs, NEW f \in Files,
             Exec(e, f) \/ lpnu_load_mach_o(e, f)
      PROVE  OneBufferPerReader'
  BY <1>2, PagesFollow DEF Exec, lpnu_load_mach_o
<1>3. ASSUME NEW e \in Execs,
             \/ SearchTooDeep(e) \/ SearchOopses(e) \/ SearchEnds(e)
             \/ CallHandler(e) \/ TaskReturns(e)
      PROVE  OneBufferPerReader'
  BY <1>3, PagesFollow
     DEF SearchTooDeep, SearchOopses, SearchEnds, CallHandler, CanCall, TaskReturns
<1>4. ASSUME NEW e \in Execs, HandlerReturned(e)
      PROVE  OneBufferPerReader'
  BY <1>1, <1>4 DEF HandlerReturned, readerVars
<1>5. ASSUME NEW e \in Execs, AllocBuffer(e) \/ ParseAlloc(e)
      PROVE  OneBufferPerReader'
  BY <1>5, PagesFollow DEF AllocBuffer, ParseAlloc, AllocPage
<1>6. ASSUME NEW e \in Execs, ReadHeader(e) \/ ParseRead(e)
      PROVE  OneBufferPerReader'
  BY <1>6, PagesFollow DEF ReadHeader, ParseRead, ReadPage
<1>7. ASSUME NEW e \in Execs,
             ReadFails(e) \/ NotRecognised(e) \/ SearchAgain(e)
      PROVE  OneBufferPerReader'
  BY <1>7, PagesFollow DEF ReadFails, NotRecognised, SearchAgain
<1>8. ASSUME NEW e \in Execs, ParseReadFails(e) \/ ParseEnds(e)
      PROVE  OneBufferPerReader'
  BY <1>8, PagesFollow DEF ParseReadFails, ParseEnds
<1>9. CASE UNCHANGED readerVars
  BY <1>1, <1>9 DEF readerVars
<1> QED
  BY <1>2, <1>3, <1>4, <1>5, <1>6, <1>7, <1>8, <1>9
     DEF Next, TaskStep, ExecStep, ParserStep, lpnu_mach_o_init,
         lpnu_mach_o_exit, SwitchMisc, bvars

-----------------------------------------------------------------------------
(* The references.                                                         *)

LEMMA FramesStep ==
  ASSUME TypeOK, Nested, RefsAreFrames, [Next]_bvars
  PROVE  RefsAreFrames'
<1>1. CASE UNCHANGED <<loaded, modRefs, depth>>
  BY <1>1 DEF RefsAreFrames, Frames
<1>2. CASE lpnu_mach_o_init
  BY <1>2 DEF lpnu_mach_o_init, RefsAreFrames, Frames
<1>3. CASE lpnu_mach_o_exit
  <2>1. Frames = {}
    BY <1>3, Counted, FS_EmptySet DEF lpnu_mach_o_exit, RefsAreFrames
  <2> QED
    BY <1>3, <2>1 DEF lpnu_mach_o_exit, RefsAreFrames, Frames
<1>4. ASSUME NEW e \in Execs, CallHandler(e)
      PROVE  RefsAreFrames'
  <2> DEFINE x == <<e, depth[e] + 1>>
  <2>1. /\ depth[e] \in 0 .. MaxDepth /\ depth[e] < MaxDepth /\ loaded /\ loaded'
        /\ depth' = [depth EXCEPT ![e] = @ + 1] /\ modRefs' = modRefs + 1
    BY <1>4 DEF CallHandler, CanCall, TypeOK
  <2>2. x \notin Frames /\ Frames' = Frames \union {x}
    BY <2>1, DepthAssumption DEF Frames, TypeOK
  <2>3. Cardinality(Frames') = Cardinality(Frames) + 1
    BY <2>2, Counted, FS_AddElement
  <2> QED
    BY <2>1, <2>3 DEF RefsAreFrames
<1>5. ASSUME NEW e \in Execs, HandlerReturned(e)
      PROVE  RefsAreFrames'
  <2> DEFINE x == <<e, depth[e]>>
  <2>1. /\ depth[e] \in 1 .. MaxDepth /\ loaded' = loaded
        /\ depth' = [depth EXCEPT ![e] = @ - 1] /\ modRefs' = modRefs - 1
    BY <1>5, DepthAssumption DEF HandlerReturned, TypeOK
  <2>2. x \in Frames /\ Frames' = Frames \ {x}
    BY <2>1, DepthAssumption DEF Frames, TypeOK
  <2>3. Cardinality(Frames') = Cardinality(Frames) - 1
    BY <2>2, Counted, FS_RemoveElement
  <2> QED
    BY <2>1, <2>2, <2>3 DEF RefsAreFrames
<1>6. ASSUME NEW e \in Execs, ExecStep(e), ~CallHandler(e), ~HandlerReturned(e)
      PROVE  RefsAreFrames'
  BY <1>1, <1>6
     DEF ExecStep, SearchTooDeep, SearchOopses, SearchEnds, TaskReturns,
         AllocBuffer, ReadFails, ReadHeader, NotRecognised, SearchAgain, searchVars
<1>7. CASE UNCHANGED searchVars
  BY <1>1, <1>7 DEF searchVars
<1>8. ASSUME NEW e \in Execs, NEW f \in Files, Exec(e, f)
      PROVE  RefsAreFrames'
  BY <1>1, <1>8 DEF Exec
<1>9. CASE SwitchMisc \/ UNCHANGED bvars
  BY <1>1, <1>9 DEF SwitchMisc, bvars, searchVars
<1> QED
  BY <1>2, <1>3, <1>4, <1>5, <1>6, <1>7, <1>8, <1>9 DEF Next, TaskStep
-----------------------------------------------------------------------------
(* The types, and what every task knows about itself.                      *)

LEMMA FilesTyped ==
  \A f \in Files : /\ f.word \in Magics /\ f.whole \in BOOLEAN
                   /\ \A w \in Words : Completed(f, w) \in Words
                   /\ Completed(f, "NO_MAGIC") = Word(f)
BY DEF Files, Magics, Words, Completed, Word

LEMMA TypeStep ==
  ASSUME TypeOK, [Next]_bvars
  PROVE  TypeOK'
<1> USE DEF TypeOK
<1>1. CASE lpnu_mach_o_init \/ lpnu_mach_o_exit \/ SwitchMisc
  BY <1>1 DEF lpnu_mach_o_init, lpnu_mach_o_exit, SwitchMisc, readerVars
<1>2. ASSUME NEW e \in Execs, NEW f \in Files,
             Exec(e, f) \/ (lpnu_load_mach_o(e, f) /\ UNCHANGED searchVars)
      PROVE  TypeOK'
  <2>1. "search" \in Places /\ "parse" \in Places /\ "none" \in Results
    BY DEF Places, ParserPlaces, Results
  <2> QED
    BY <1>2, <2>1 DEF Exec, lpnu_load_mach_o, searchVars, Goto
<1>3. ASSUME NEW e \in Execs,
             SearchTooDeep(e) \/ SearchOopses(e) \/ SearchEnds(e)
      PROVE  TypeOK'
  <2>1. /\ {"return", "oops"} \subseteq Places
        /\ {"ELOOP", "executed", "ENOEXEC"} \subseteq Results
    BY DEF Places, Results
  <2> QED
    BY <1>3, <2>1
       DEF SearchTooDeep, SearchOopses, SearchEnds, Returning, Goto, searchVars
<1>4. ASSUME NEW e \in Execs, CallHandler(e)
      PROVE  TypeOK'
  <2>1. "handler" \in Places /\ depth[e] + 1 \in 0 .. MaxDepth
    BY <1>4, DepthAssumption DEF Places, CallHandler, CanCall
  <2> QED
    BY <1>4, <2>1 DEF CallHandler, Goto
<1>5. ASSUME NEW e \in Execs, HandlerReturned(e)
      PROVE  TypeOK'
  <2>1. depth[e] - 1 \in 0 .. MaxDepth
    BY <1>5, DepthAssumption DEF HandlerReturned
  <2> QED
    BY <1>5, <2>1 DEF HandlerReturned, readerVars
<1>6. ASSUME NEW e \in Execs, NEW place \in Places, AllocPage(e, place),
             UNCHANGED <<searchVars, file>>
      PROVE  TypeOK'
  <2>1. "return" \in Places /\ "ENOMEM" \in Results /\ "NO_MAGIC" \in Words
    BY DEF Places, Results, Words
  <2> QED
    BY <1>6, <2>1 DEF AllocPage, Alloc, Returning, Goto, searchVars
<1>7. ASSUME NEW e \in Execs, NEW place \in Places, ReadPage(e, place),
             UNCHANGED <<searchVars, file>>
      PROVE  TypeOK'
  BY <1>7, FilesTyped DEF ReadPage, Goto, searchVars
<1>8. ASSUME NEW e \in Execs, NEW r \in Results, Returning(e, r), FreePage(e),
             UNCHANGED <<searchVars, file>>
      PROVE  TypeOK'
  <2>1. "return" \in Places /\ "NO_MAGIC" \in Words
    BY DEF Places, Words
  <2> QED
    BY <1>8, <2>1 DEF Returning, FreePage, Goto, searchVars
<1>9. ASSUME NEW e \in Execs, SearchAgain(e)
      PROVE  TypeOK'
  <2>1. "search" \in Places /\ "NO_MAGIC" \in Words
    BY DEF Places, Words
  <2> QED
    BY <1>9, <2>1 DEF SearchAgain, FreePage, Goto, searchVars
<1>10. CASE UNCHANGED bvars
  BY <1>10 DEF bvars, searchVars, readerVars
<1>11. ASSUME NEW e \in Execs, ExecStep(e)
       PROVE  TypeOK'
  <2>1. {"read", "check"} \subseteq Places /\ {"EIO", "ENOEXEC"} \subseteq Results
    BY DEF Places, Results
  <2>2. CASE TaskReturns(e)
    <3>1. "idle" \in Places /\ "none" \in Results /\ NoFile \in Files
      BY DEF Places, Results, NoFile, Files, Magics
    <3> QED
      BY <2>2, <3>1 DEF TaskReturns, Goto
  <2> QED
    BY <2>2, <1>3, <1>4, <1>5, <1>6, <1>7, <1>8, <1>9, <1>11, <2>1
       DEF ExecStep, AllocBuffer, ReadFails, ReadHeader, NotRecognised
<1>12. ASSUME NEW e \in Execs, ParserStep(e), UNCHANGED searchVars
       PROVE  TypeOK'
  <2>1. /\ {"parse_read", "parse_check"} \subseteq Places
        /\ "EIO" \in Results
        /\ \A f, w : lpnu_parse_mach_o_headers(f, w) \in Results
    BY DEF Places, ParserPlaces, Results, lpnu_parse_mach_o_headers
  <2> QED
    BY <1>6, <1>7, <1>8, <1>12, <2>1
       DEF ParserStep, ParseAlloc, ParseReadFails, ParseRead, ParseEnds
<1> QED
  BY <1>1, <1>2, <1>10, <1>11, <1>12 DEF Next, TaskStep

LEMMA NestedStep ==
  ASSUME TypeOK, Nested, [Next]_bvars
  PROVE  Nested'
<1> USE DEF TypeOK, Nested, ParserPlaces, Goto, Returning
<1>1. CASE UNCHANGED <<pc, depth, result>>
  BY <1>1
<1>2. ASSUME NEW e \in Execs, NEW f \in Files,
             Exec(e, f) \/ (lpnu_load_mach_o(e, f) /\ UNCHANGED searchVars)
      PROVE  Nested'
  BY <1>2 DEF Exec, lpnu_load_mach_o, searchVars
<1>3. ASSUME NEW e \in Execs,
             \/ SearchTooDeep(e) \/ SearchOopses(e) \/ SearchEnds(e)
             \/ TaskReturns(e)
      PROVE  Nested'
  BY <1>3 DEF SearchTooDeep, SearchOopses, SearchEnds, TaskReturns, searchVars
<1>4. ASSUME NEW e \in Execs, CallHandler(e)
      PROVE  Nested'
  BY <1>4, DepthAssumption DEF CallHandler, CanCall
<1>5. ASSUME NEW e \in Execs, HandlerReturned(e)
      PROVE  Nested'
  BY <1>5, DepthAssumption DEF HandlerReturned, readerVars
<1>6. ASSUME NEW e \in Execs, AllocBuffer(e) \/ ReadHeader(e)
      PROVE  Nested'
  BY <1>6 DEF AllocBuffer, AllocPage, ReadHeader, ReadPage, searchVars
<1>7. ASSUME NEW e \in Execs, ReadFails(e) \/ NotRecognised(e) \/ SearchAgain(e)
      PROVE  Nested'
  BY <1>7 DEF ReadFails, NotRecognised, SearchAgain, searchVars
<1>8. ASSUME NEW e \in Execs, ParserStep(e), UNCHANGED searchVars
      PROVE  Nested'
  BY <1>8 DEF ParserStep, ParseAlloc, AllocPage, ParseReadFails, ParseRead,
              ReadPage, ParseEnds, searchVars
<1>9. CASE lpnu_mach_o_init \/ lpnu_mach_o_exit \/ SwitchMisc \/ UNCHANGED bvars
  BY <1>1, <1>9 DEF lpnu_mach_o_init, lpnu_mach_o_exit, SwitchMisc, bvars,
                    readerVars, searchVars
<1> QED
  BY <1>2, <1>3, <1>4, <1>5, <1>6, <1>7, <1>8, <1>9 DEF Next, TaskStep, ExecStep

LEMMA WordReadStep ==
  ASSUME TypeOK, WordRead, [Next]_bvars
  PROVE  WordRead'
<1> USE DEF TypeOK, WordRead, Goto, Returning
<1>1. CASE UNCHANGED <<pc, first, file>>
  BY <1>1
<1>2. ASSUME NEW e \in Execs, NEW f \in Files,
             Exec(e, f) \/ lpnu_load_mach_o(e, f)
      PROVE  WordRead'
  BY <1>2 DEF Exec, lpnu_load_mach_o
<1>3. ASSUME NEW e \in Execs,
             \/ SearchTooDeep(e) \/ SearchOopses(e) \/ SearchEnds(e)
             \/ CallHandler(e) \/ TaskReturns(e)
      PROVE  WordRead'
  BY <1>3 DEF SearchTooDeep, SearchOopses, SearchEnds, CallHandler, TaskReturns
<1>4. ASSUME NEW e \in Execs, HandlerReturned(e)
      PROVE  WordRead'
  BY <1>1, <1>4 DEF HandlerReturned, readerVars
<1>5. ASSUME NEW e \in Execs, AllocBuffer(e) \/ ParseAlloc(e)
      PROVE  WordRead'
  BY <1>5 DEF AllocBuffer, ParseAlloc, AllocPage, Alloc
<1>6. ASSUME NEW e \in Execs, ReadHeader(e) \/ ParseRead(e)
      PROVE  WordRead'
  BY <1>6, FilesTyped DEF ReadHeader, ParseRead, ReadPage
<1>7. ASSUME NEW e \in Execs,
             ReadFails(e) \/ NotRecognised(e) \/ SearchAgain(e)
      PROVE  WordRead'
  BY <1>7 DEF ReadFails, NotRecognised, SearchAgain, FreePage
<1>8. ASSUME NEW e \in Execs, ParseReadFails(e) \/ ParseEnds(e)
      PROVE  WordRead'
  BY <1>8 DEF ParseReadFails, ParseEnds, FreePage
<1>9. CASE UNCHANGED readerVars
  BY <1>1, <1>9 DEF readerVars
<1> QED
  BY <1>2, <1>3, <1>4, <1>5, <1>6, <1>7, <1>8, <1>9
     DEF Next, TaskStep, ExecStep, ParserStep, lpnu_mach_o_init,
         lpnu_mach_o_exit, SwitchMisc, bvars

(* A search that knows no handler is on the first level, since the module  *)
(* stays for the others; so ENOEXEC on a higher level is the verdict of    *)
(* the handler on the word it has read.                                    *)
LEMMA VerdictsStep ==
  ASSUME TypeOK, Nested, WordRead, Verdicts, CodeStaysLoaded, [Next]_bvars
  PROVE  Verdicts'
<1> USE DEF TypeOK, Verdicts, Goto, Returning
<1>1. CASE UNCHANGED <<pc, depth, result, file>>
  BY <1>1
<1>2. ASSUME NEW e \in Execs, NEW f \in Files,
             Exec(e, f) \/ (lpnu_load_mach_o(e, f) /\ UNCHANGED searchVars)
      PROVE  Verdicts'
  <2>1. depth[e] = 0 /\ depth' = depth /\ result'[e] = "none"
        /\ \A x \in Execs \ {e} : /\ pc'[x] = pc[x] /\ result'[x] = result[x]
                                  /\ file'[x] = file[x]
    BY <1>2 DEF Exec, lpnu_load_mach_o, searchVars, Nested
  <2> QED
    BY <2>1
<1>3. ASSUME NEW e \in Execs,
             SearchTooDeep(e) \/ SearchOopses(e) \/ SearchEnds(e)
      PROVE  Verdicts'
  BY <1>3 DEF SearchTooDeep, SearchOopses, SearchEnds, searchVars, CodeStaysLoaded
<1>4. ASSUME NEW e \in Execs, CallHandler(e)
      PROVE  Verdicts'
  BY <1>4 DEF CallHandler, CanCall, Nested
<1>5. ASSUME NEW e \in Execs, HandlerReturned(e) \/ TaskReturns(e)
      PROVE  Verdicts'
  BY <1>5 DEF HandlerReturned, TaskReturns, readerVars
<1>6. ASSUME NEW e \in Execs, AllocBuffer(e) \/ ReadHeader(e) \/ ReadFails(e)
      PROVE  Verdicts'
  BY <1>6 DEF AllocBuffer, AllocPage, ReadHeader, ReadPage, ReadFails, searchVars
<1>7. ASSUME NEW e \in Execs, NotRecognised(e) \/ SearchAgain(e)
      PROVE  Verdicts'
  <2>1. first[e] = Word(file[e]) /\ result[e] = "none"
    BY <1>7 DEF WordRead, Nested, NotRecognised, SearchAgain
  <2> QED
    BY <1>7, <2>1 DEF NotRecognised, SearchAgain, searchVars
<1>8. ASSUME NEW e \in Execs, UNCHANGED searchVars,
             ParseAlloc(e) \/ ParseReadFails(e) \/ ParseRead(e)
      PROVE  Verdicts'
  BY <1>8 DEF ParseAlloc, AllocPage, ParseReadFails, ParseRead, ReadPage,
              searchVars
<1>9. ASSUME NEW e \in Execs, UNCHANGED searchVars, ParseEnds(e)
      PROVE  Verdicts'
  <2>1. first[e] = Word(file[e]) /\ depth[e] = 0
    BY <1>9 DEF WordRead, Nested, ParseEnds, ParserPlaces
  <2> QED
    BY <1>9, <2>1 DEF ParseEnds, lpnu_parse_mach_o_headers, searchVars
<1>10. CASE lpnu_mach_o_init \/ lpnu_mach_o_exit \/ SwitchMisc \/ UNCHANGED bvars
  BY <1>1, <1>10 DEF lpnu_mach_o_init, lpnu_mach_o_exit, SwitchMisc, bvars,
                     readerVars, searchVars
<1> QED
  BY <1>2, <1>3, <1>4, <1>5, <1>6, <1>7, <1>8, <1>9, <1>10
     DEF Next, TaskStep, ExecStep, ParserStep

(* Only the nested search of a recognised file runs without interp.        *)
LEMMA InterpLostStep ==
  ASSUME TypeOK, WordRead, InterpLost, [Next]_bvars
  PROVE  InterpLost'
<1> USE DEF TypeOK, InterpLost, Goto, Returning, ParserPlaces
<1>1. CASE UNCHANGED <<pc, interp, file>>
  BY <1>1
<1>2. ASSUME NEW e \in Execs, NEW f \in Files,
             Exec(e, f) \/ (lpnu_load_mach_o(e, f) /\ UNCHANGED searchVars)
      PROVE  InterpLost'
  <2>1. pc[e] = "idle" /\ interp[e]
    BY <1>2 DEF Exec, lpnu_load_mach_o
  <2>2. /\ interp' \in [Execs -> BOOLEAN] /\ interp'[e] /\ pc'[e] # "oops"
        /\ \A x \in Execs \ {e} : /\ pc'[x] = pc[x] /\ interp'[x] = interp[x]
                                  /\ file'[x] = file[x]
    BY <1>2, <2>1 DEF Exec, lpnu_load_mach_o, searchVars
  <2> QED
    BY <2>2
<1>3. ASSUME NEW e \in Execs, SearchTooDeep(e) \/ SearchOopses(e) \/ SearchEnds(e)
      PROVE  InterpLost'
  BY <1>3 DEF SearchTooDeep, SearchOopses, SearchEnds, MiscReadsNull, searchVars
<1>4. ASSUME NEW e \in Execs, CallHandler(e) \/ TaskReturns(e)
      PROVE  InterpLost'
  BY <1>4 DEF CallHandler, CanCall, TaskReturns
<1>5. ASSUME NEW e \in Execs, AllocBuffer(e) \/ ReadHeader(e) \/ ReadFails(e)
      PROVE  InterpLost'
  BY <1>5 DEF AllocBuffer, AllocPage, ReadHeader, ReadPage, ReadFails, searchVars
<1>6. ASSUME NEW e \in Execs, NotRecognised(e) \/ SearchAgain(e)
      PROVE  InterpLost'
  <2>1. first[e] = Word(file[e])
    BY <1>6 DEF WordRead, NotRecognised, SearchAgain
  <2> QED
    BY <1>6, <2>1 DEF NotRecognised, SearchAgain, searchVars
<1>7. ASSUME NEW e \in Execs, ParserStep(e), UNCHANGED searchVars
      PROVE  InterpLost'
  BY <1>7 DEF ParserStep, ParseAlloc, AllocPage, ParseReadFails, ParseRead,
              ReadPage, ParseEnds, searchVars
<1>8. CASE UNCHANGED <<readerVars, interp>>
  BY <1>1, <1>8 DEF readerVars
<1> QED
  BY <1>2, <1>3, <1>4, <1>5, <1>6, <1>7, <1>8
     DEF Next, TaskStep, ExecStep, lpnu_mach_o_init, lpnu_mach_o_exit, SwitchMisc,
         HandlerReturned, bvars, searchVars

-----------------------------------------------------------------------------
(* The theorems.                                                           *)

(* BInv holds in every reachable state.                                    *)
THEOREM BinfmtInvariant == Spec => []BInv
<1>1. BInv /\ [Next]_bvars => BInv'
  BY TypeStep, NestedStep, WordReadStep, VerdictsStep, InterpLostStep, PagesStep,
     FramesStep, NestedCodeLoaded DEF BInv
<1> QED
  BY <1>1, BInvInit, PTL DEF Spec

(* The handler's code is never unloaded under an exec, at any nesting.     *)
THEOREM BinfmtCodeStaysLoaded == Spec => []CodeStaysLoaded
<1>1. BInv => CodeStaysLoaded
  BY NestedCodeLoaded DEF BInv
<1> QED
  BY <1>1, BinfmtInvariant, PTL

(* The kernel holds one page per task that reads, and none is lost.        *)
THEOREM BinfmtOneBufferPerReader == Spec => []OneBufferPerReader
<1>1. BInv => OneBufferPerReader
  BY DEF BInv
<1> QED
  BY <1>1, BinfmtInvariant, PTL

(* A file too short for a magic number is never taken for a Mach-O file.   *)
THEOREM BinfmtShortIsUnknown == Spec => []ShortIsUnknown
<1>1. BInv => ShortIsUnknown
  <2>1. "NO_MAGIC" \notin Recognised /\ "NO_MAGIC" \notin Accepted
    BY DEF Recognised, Accepted
  <2> QED
    BY <2>1, DepthAssumption
       DEF BInv, TypeOK, Verdicts, Word, ShortIsUnknown
<1> QED
  BY <1>1, BinfmtInvariant, PTL

(* No task is killed but one that execs a file with a magic number of the  *)
(* handler: no native program, no unknown or short file and no parse ever  *)
(* reaches a search without interp.  (This is the safety half of           *)
(* ExecReturns; that the others return is left to the model checker.)      *)
THEOREM BinfmtKilledInMachO ==
  Spec => [](\A e \in Execs : pc[e] = "oops" => KilledInMachO(e))
<1>1. BInv => \A e \in Execs : pc[e] = "oops" => KilledInMachO(e)
  <2>1. "NO_MAGIC" \notin Recognised
    BY DEF Recognised
  <2> QED
    BY <2>1 DEF BInv, InterpLost, Word, KilledInMachO
<1> QED
  BY <1>1, BinfmtInvariant, PTL

(* A file the parser accepts is never of unknown format to the handler.    *)
THEOREM BinfmtParsedIsKnown == Spec => []ParsedIsKnown
<1>1. BInv => ParsedIsKnown
  <2>1. Accepted \subseteq Recognised
    BY DEF Accepted, Recognised
  <2> QED
    BY <2>1 DEF BInv, Verdicts, ParsedIsKnown
<1> QED
  BY <1>1, BinfmtInvariant, PTL
=============================================================================
