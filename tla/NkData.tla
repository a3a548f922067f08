------------------------------- MODULE NkData -------------------------------
(***************************************************************************)
(* The parts of the library that keep and convert data and do not call     *)
(* each other in what is modelled of them: buffered files (NkFile), the    *)
(* typed text of a database (NkSerialize), the JSON printer (NkJson), the  *)
(* clock (NkRtc), the character display (NkLcd), the seven-segment display *)
(* with keys (NkSegments) and formatted numbers (NkPrintf).  A behaviour   *)
(* works with one of them.                                                 *)
(***************************************************************************)
EXTENDS NkFile, NkSerialize, NkJson, NkRtc, NkLcd, NkSegments, NkPrintf

VARIABLE part         \* the part that is in use

vars ==
  << part, filevars, svars, jvars, rvars, lcdvars, segvars, pvars >>

Parts == {"file", "text", "json", "clock", "display", "segments", "numbers"}

(* a part that is not in use has one initial state *)
Init ==
  /\ part \in Parts
  /\ FileInit
  /\ part # "file" => g.medium = "blocks"
  /\ SerializeInit
  /\ part # "text" => /\ schema = CHOOSE s \in Schemas : TRUE
                      /\ ram = CHOOSE m \in Values(schema) : TRUE
  /\ JsonInit
  /\ part # "json" => json["user"] = json["std"]
  /\ RtcInit
  /\ part # "clock" => model = "ds3231" /\ reg.sec = 0
  /\ LcdInit
  /\ part # "display" => wire = "lcd8574"
  /\ SegInit
  /\ part # "segments" => tm = "tm1637"
  /\ PrintfInit

Next ==
  \/ /\ part = "file" /\ FileNext
     /\ UNCHANGED << part, svars, jvars, rvars, lcdvars, segvars, pvars >>
  \/ /\ part = "text" /\ SerializeNext
     /\ UNCHANGED << part, filevars, jvars, rvars, lcdvars, segvars, pvars >>
  \/ /\ part = "json" /\ JsonNext
     /\ UNCHANGED << part, filevars, svars, rvars, lcdvars, segvars, pvars >>
  \/ /\ part = "clock" /\ RtcNext
     /\ UNCHANGED << part, filevars, svars, jvars, lcdvars, segvars, pvars >>
  \/ /\ part = "display" /\ LcdNext
     /\ UNCHANGED << part, filevars, svars, jvars, rvars, segvars, pvars >>
  \/ /\ part = "segments" /\ SegNext
     /\ UNCHANGED << part, filevars, svars, jvars, rvars, lcdvars, pvars >>
  \/ /\ part = "numbers" /\ PrintfNext
     /\ UNCHANGED << part, filevars, svars, jvars, rvars, lcdvars, segvars >>

Spec == Init /\ [][Next]_vars

-----------------------------------------------------------------------------
(* Properties *)

(* The state of the part in use has the ranges the other definitions rely   *)
(* on; no step of it changes another part.                                   *)
TypeOK ==
  /\ part = "file" => FileTypeOK
  /\ part = "text" => SerializeTypeOK
  /\ part = "json" => JsonTypeOK
  /\ part = "clock" => RtcTypeOK
  /\ part = "display" => LcdTypeOK
  /\ part = "segments" => SegTypeOK
  /\ part = "numbers" => PrintfTypeOK

=============================================================================
