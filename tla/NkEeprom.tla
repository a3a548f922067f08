------------------------------ MODULE NkEeprom ------------------------------
(***************************************************************************)
(* The I2C EEPROM driver (src/nki2c_eeprom.c) and the register calls       *)
(* nk_i2c_put_byte and nk_i2c_get_byte (src/nki2c.c) on the bit-bang bus   *)
(* of NkI2cBus.  A step of this module begins a transaction or returns; in *)
(* between the master works through its pins.                              *)
(***************************************************************************)
EXTENDS NkI2cBus, FiniteSetsExt

CONSTANTS
  AckTimeout,    \* busy_timeout
  DataByte,      \* bytes that callers write
  MaxTransfer,   \* bound: longest call
  MaxCalls       \* bound: number of calls

ASSUME EepromConstantsOK ==
  /\ AckTimeout \in Nat \ {0} /\ DataByte \subseteq BusByte
  /\ MaxTransfer \in Nat /\ MaxCalls \in Nat

VARIABLES
  epc,           \* the transaction that runs, or "idle"
  ecall,         \* the call of the interface: [op, addr, data]
  eat,           \* bytes of the call that are done
  tries,         \* x of nk_i2c_eeprom_busy_wait
  egot,          \* the bytes read so far
  eresult,
  ecalls

evars == << bus, epc, ecall, eat, tries, egot, eresult, ecalls >>

ENoCall == [op |-> "none", addr |-> 0, data |-> << >>]
EResult(ok, data) == [ok |-> ok, data |-> data]
Blank(n) == [k \in 1 .. n |-> 0]

EepromTypeOK ==
  /\ BusTypeOK
  /\ epc \in {"idle", "page", "poll", "addr", "data", "put", "reg", "get"}
  /\ ecall.op \in {"none", "write", "read"}
  /\ ecall.addr + Len(ecall.data) <= EepromSize
  /\ eat \in 0 .. Len(ecall.data)
  /\ tries \in 0 .. AckTimeout - 1
  /\ egot \in Seq(BusByte)
  /\ Len(egot) = IF epc \in {"addr", "data"} THEN eat ELSE 0
  /\ (epc = "idle") = (ecall = ENoCall)
  /\ epc = "idle" => prog = << >>

EepromInit ==
  /\ BusInit
  /\ epc = "idle" /\ ecall = ENoCall /\ eat = 0
  /\ tries = 0 /\ egot = << >>
  /\ eresult = EResult(TRUE, << >>)
  /\ ecalls = 0

-----------------------------------------------------------------------------
(* Transactions *)

(* mutant: transfer_len is not limited to what is left of the page *)
page_len_Whole(call, n) == Min({ChipPage, Len(call.data) - n})

(* transfer_len *)
page_len(call, n) ==
  Min({ChipPage - ((call.addr + n) % ChipPage), Len(call.data) - n})

PageWrite(call, n) ==
  nk_bitbang_i2c_write(<< call.addr + n >> \o
                       SubSeq(call.data, n + 1, n + page_len(call, n)))

AckPoll == nk_bitbang_i2c_write(<< >>)
SetAddress(call, n) == nk_bitbang_i2c_write(<< call.addr + n >>)

Bytes ==
  LET value(k) == LET v[j \in 0 .. Width] ==
                        IF j = 0 THEN 0
                        ELSE 2 * v[j - 1] + bits[Width * (k - 1) + j]
                  IN  v[Width]
  IN  [k \in 1 .. Len(bits) \div Width |-> value(k)]

-----------------------------------------------------------------------------
(* Calls *)

EBegin(pc, op, a, d, p) ==
  /\ epc = "idle"
  /\ ecalls < MaxCalls /\ ~late
  /\ ecalls' = ecalls + 1
  /\ epc' = pc
  /\ ecall' = [op |-> op, addr |-> a, data |-> d]
  /\ eresult' = EResult(TRUE, << >>)
  /\ Transact(p)
  /\ UNCHANGED << eat, tries, egot >>

nk_i2c_eeprom_write(a, d) ==
  EBegin("page", "write", a, d, PageWrite([addr |-> a, data |-> d], 0))

nk_i2c_eeprom_read(a, n) ==
  EBegin("addr", "read", a, Blank(n), SetAddress([addr |-> a], 0))

nk_i2c_put_byte(a, x) ==
  EBegin("put", "write", a, << x >>, nk_bitbang_i2c_write(<< a, x >>))

nk_i2c_get_byte(a) ==
  EBegin("reg", "read", a, Blank(1), nk_bitbang_i2c_write_nostop(<< a >>))

EepromCall ==
  \E a \in 0 .. EepromSize - 1 :
    \/ \E n \in 1 .. Min({MaxTransfer, EepromSize - a}) :
         \/ nk_i2c_eeprom_read(a, n)
         \/ \E d \in [1 .. n -> DataByte] : nk_i2c_eeprom_write(a, d)
    \/ nk_i2c_get_byte(a)
    \/ \E x \in DataByte : nk_i2c_put_byte(a, x)

EReturn(ok, data) ==
  /\ epc' = "idle"
  /\ ecall' = ENoCall
  /\ eat' = 0 /\ tries' = 0 /\ egot' = << >>
  /\ eresult' = EResult(ok, data)
  /\ UNCHANGED << bus, ecalls >>

(* on to the transaction p *)
EGoOn(pc, p) ==
  /\ epc' = pc
  /\ Transact(p)
  /\ UNCHANGED << ecall, eresult, ecalls >>

Ended(pc) == epc = pc /\ prog = << >>

NotAcknowledged ==
  /\ epc \notin {"idle", "poll"} /\ prog = << >> /\ nak
  /\ EReturn(FALSE, << >>)

PageWritten ==
  /\ Ended("page") /\ ~nak
  /\ EGoOn("poll", AckPoll)
  /\ UNCHANGED << eat, tries, egot >>

(* mutant: one more poll than busy_timeout *)
StillBusyOneMore ==
  /\ Ended("poll") /\ nak
  /\ IF tries = AckTimeout
       THEN EReturn(FALSE, << >>)
       ELSE /\ EGoOn("poll", AckPoll)
            /\ tries' = tries + 1
            /\ UNCHANGED << eat, egot >>

(* nk_i2c_eeprom_busy_wait: no acknowledgement yet *)
StillBusy ==
  /\ Ended("poll") /\ nak
  /\ IF tries = AckTimeout - 1
       THEN EReturn(FALSE, << >>)
       ELSE /\ EGoOn("poll", AckPoll)
            /\ tries' = tries + 1
            /\ UNCHANGED << eat, egot >>

Acknowledged ==
  LET done == eat + page_len(ecall, eat)
  IN  /\ Ended("poll") /\ ~nak
      /\ IF done = Len(ecall.data)
           THEN EReturn(TRUE, << >>)
           ELSE /\ EGoOn("page", PageWrite(ecall, done))
                /\ eat' = done
                /\ tries' = 0
                /\ UNCHANGED egot

AddressSet ==
  /\ Ended("addr") /\ ~nak
  /\ EGoOn("data", nk_bitbang_i2c_read(page_len(ecall, eat)))
  /\ UNCHANGED << eat, tries, egot >>

PageRead ==
  LET done == eat + page_len(ecall, eat)
  IN  /\ Ended("data") /\ ~nak
      /\ IF done = Len(ecall.data)
           THEN EReturn(TRUE, egot \o Bytes)
           ELSE /\ EGoOn("addr", SetAddress(ecall, done))
                /\ eat' = done
                /\ egot' = egot \o Bytes
                /\ UNCHANGED tries

RegisterWritten == Ended("put") /\ ~nak /\ EReturn(TRUE, << >>)

RegisterSet ==
  /\ Ended("reg") /\ ~nak
  /\ EGoOn("get", nk_bitbang_i2c_read(1))
  /\ UNCHANGED << eat, tries, egot >>

RegisterRead == Ended("get") /\ ~nak /\ EReturn(TRUE, Bytes)

Continue ==
  \/ NotAcknowledged
  \/ PageWritten \/ StillBusy \/ Acknowledged
  \/ AddressSet \/ PageRead
  \/ RegisterWritten \/ RegisterSet \/ RegisterRead

InTransaction == UNCHANGED << epc, ecall, eat, tries, egot, eresult, ecalls >>

EepromDriver == Continue \/ (Master /\ InTransaction)

(* the bound is reached; once the bus is late nothing more is asked of it *)
EepromRests ==
  epc = "idle" /\ (ecalls = MaxCalls \/ late) /\ UNCHANGED evars

EepromNext ==
  \/ EepromCall
  \/ EepromDriver
  \/ EepromRests
  \/ (LetsGo \/ CycleOver) /\ InTransaction

EepromSpec == EepromInit /\ [][EepromNext]_evars

-----------------------------------------------------------------------------
(* Properties *)

(***************************************************************************)
(* Between calls both wires are high and the EEPROM pulls neither, unless  *)
(* it held SCL for longer than the master waits: whatever was acknowledged *)
(* or given up, a last bit it sends is never left on the bus, where it     *)
(* would block the next start (i2c_send_nak, i2c_stop, i2c_stopr).         *)
(***************************************************************************)
BusFree ==
  epc = "idle" /\ ~late =>
    /\ scl = 1 /\ sda = 1
    /\ ~ee.pulls /\ ~ee.holds
    /\ ee.st \in {"idle", "ignore"}

(***************************************************************************)
(* The EEPROM is a memory, as long as it does not hold SCL for too long:   *)
(* edges, acknowledgements, pages that wrap and write cycles do not show.  *)
(* A call that returns 0 has stored, or returns, every byte.               *)
(***************************************************************************)
Eeprom == INSTANCE NkMemory WITH
  Size <- EepromSize, Byte <- BusByte, Erased <- 0,
  Program <- LAMBDA old, new : new,
  mem <- ee.mem, call <- ecall, result <- eresult, sure <- TRUE, trusted <- ~late

ImplementsEeprom == Eeprom!Spec

=============================================================================
