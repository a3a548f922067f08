------------------------------ MODULE NkStore ------------------------------
(***************************************************************************)
(* What nkdbase promises: one database that survives resets.  A save either *)
(* replaces it or, when it fails or is cut off, may or may not have        *)
(* replaced it; the next load settles which, for good.                     *)
(***************************************************************************)
EXTENDS Integers

CONSTANTS Values, NoValue

VARIABLES
  ram,       \* the database in RAM
  durable,   \* what a load may find
  saving,
  rtn        \* result of the latest save or load

vars == << ram, durable, saving, rtn >>

Init ==
  /\ ram \in Values
  /\ durable = {NoValue}
  /\ saving = FALSE
  /\ rtn = 0

Edit ==
  /\ ~saving
  /\ ram' \in Values
  /\ UNCHANGED << durable, saving, rtn >>

BeginSave ==
  /\ ~saving
  /\ saving' = TRUE
  /\ durable' = durable \cup {ram}
  /\ UNCHANGED << ram, rtn >>

Saved ==
  /\ saving
  /\ saving' = FALSE
  /\ durable' = {ram}
  /\ rtn' = 0
  /\ UNCHANGED ram

NotSaved ==
  /\ saving' = FALSE
  /\ rtn' = -1
  /\ UNCHANGED << ram, durable >>

Load ==
  /\ ~saving
  /\ \E found \in durable :
       /\ durable' = {found}
       /\ \/ /\ found # NoValue
             /\ ram' = found
             /\ rtn' = 0
          \/ /\ found = NoValue
             /\ ram' \in Values
             /\ rtn' = -1
  /\ UNCHANGED saving

Reset ==
  /\ saving' = FALSE
  /\ ram' \in Values
  /\ rtn' = 0
  /\ UNCHANGED durable

Next == Edit \/ BeginSave \/ Saved \/ NotSaved \/ Load \/ Reset

Spec == Init /\ [][Next]_vars
=============================================================================
