---------------------------- MODULE MachOParser -----------------------------
(***************************************************************************)
(* lpnu_load_mach_o and lpnu_parse_mach_o_headers of lpnu/lpnu_mach_o.c:   *)
(* the exported reader of a file's header.  Unlike the binary format it is *)
(* told how much was read, and looks at the magic of the host's byte order *)
(* only.                                                                   *)
(***************************************************************************)
EXTENDS MachOReader

(* "parse": before kzalloc; "parse_read": before kernel_read;              *)
(* "parse_check": in lpnu_parse_mach_o_headers.                            *)
ParserPlaces == {"parse", "parse_read", "parse_check"}
Accepted == {"MAGIC_32", "MAGIC_64"}

lpnu_load_mach_o(e, f) ==
  /\ pc[e] = "idle"
  /\ Goto(e, "parse")
  /\ file' = [file EXCEPT ![e] = f]
  /\ result' = [result EXCEPT ![e] = "none"]
  /\ UNCHANGED <<first, buffers>>

ParseAlloc(e) ==
  /\ pc[e] = "parse"
  /\ AllocPage(e, "parse_read")
  /\ UNCHANGED file

ParseReadFails(e) ==
  /\ pc[e] = "parse_read"
  /\ Returning(e, "EIO")
  /\ FreePage(e)
  /\ UNCHANGED file

ParseRead(e) ==
  /\ pc[e] = "parse_read"
  /\ ReadPage(e, "parse_check")
  /\ UNCHANGED file

lpnu_parse_mach_o_headers(f, word) ==
  IF ~f.whole THEN "EINVAL"
  ELSE IF word \in Accepted THEN "parsed" ELSE "ENOEXEC"

ParseEnds(e) ==
  /\ pc[e] = "parse_check"
  /\ Returning(e, lpnu_parse_mach_o_headers(file[e], first[e]))
  /\ FreePage(e)
  /\ UNCHANGED file

ParserStep(e) ==
  ParseAlloc(e) \/ ParseReadFails(e) \/ ParseRead(e) \/ ParseEnds(e)
=============================================================================
