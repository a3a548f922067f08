----------------------------- MODULE NkConsole -----------------------------
(***************************************************************************)
(* The two ends of the console: the receiver that wakes a task for each    *)
(* character (NkUart) and the line editor with the command line that takes *)
(* the characters (NkReadline).  A behaviour looks at one of the ends.     *)
(***************************************************************************)
EXTENDS NkUart, NkReadline

VARIABLE end          \* of the console: "uart" or "line"

consolevars == << end, vars, linevars >>

ConsoleInit == end \in {"uart", "line"} /\ Init /\ LineInit

ConsoleNext ==
  \/ end = "uart" /\ Next /\ UNCHANGED << end, linevars >>
  \/ end = "line" /\ LineNext /\ UNCHANGED << end, vars >>

Reads == end = "uart" /\ Reader /\ UNCHANGED << end, linevars >>
Dispatches == end = "uart" /\ Dispatch /\ UNCHANGED << end, linevars >>
Completes == end = "line" /\ Complete /\ UNCHANGED << end, vars >>

(***************************************************************************)
(* The fairness of the two ends: the processor goes on with the reader,    *)
(* the main loop and the completion of a command; the interrupt and the    *)
(* user owe nothing.                                                       *)
(***************************************************************************)
ConsoleSpec ==
  /\ ConsoleInit /\ [][ConsoleNext]_consolevars
  /\ WF_consolevars(Reads)
  /\ WF_consolevars(Dispatches)
  /\ WF_consolevars(Completes)
=============================================================================
