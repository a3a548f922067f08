---------------------------- MODULE MCNkConsole ----------------------------
(* Names of commands for NkReadline: a name that begins another, and one   *)
(* that fills the line.                                                    *)
EXTENDS NkConsole

SomeVisible == {<< "a" >>}
SomeHidden == {<< "a", "a", "a" >>}
=============================================================================
