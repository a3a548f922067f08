----------------------------- MODULE NkMemories -----------------------------
(***************************************************************************)
(* The two memories of a board: an SPI flash (NkSpiFlash) and an I2C       *)
(* EEPROM (NkEeprom).  The drivers share nothing, so that a behaviour      *)
(* works with one of them.                                                 *)
(***************************************************************************)
EXTENDS NkSpiFlash, NkEeprom

VARIABLE device       \* the memory that is in use

vars == << device, fvars, evars >>

Init ==
  /\ device \in {"flash", "eeprom"}
  /\ FlashInit
  /\ EepromInit

Next ==
  \/ device = "flash" /\ FlashNext /\ UNCHANGED << device, evars >>
  \/ device = "eeprom" /\ EepromNext /\ UNCHANGED << device, fvars >>

(* the processor works on; the chips need not *)
Works ==
  \/ device = "flash" /\ FlashDriver /\ UNCHANGED << device, evars >>
  \/ device = "eeprom" /\ EepromDriver /\ UNCHANGED << device, fvars >>

Spec == Init /\ [][Next]_vars /\ WF_vars(Works)

-----------------------------------------------------------------------------
(* Properties *)

(***************************************************************************)
(* Every call returns, even if the flash is busy for ever, the EEPROM      *)
(* never acknowledges again, or SCL is held for ever: each of the loops    *)
(* that wait is bounded (busy_timeout, the 100 looks of sda_read).         *)
(***************************************************************************)
CallsReturn ==
  (fpc # "idle" \/ ecall # ENoCall) ~> (fpc = "idle" /\ ecall = ENoCall)

TypeOK == FlashTypeOK /\ EepromTypeOK /\ device \in {"flash", "eeprom"}

=============================================================================
