------------------------------ MODULE NkI2cBus ------------------------------
(***************************************************************************)
(* An I2C bus whose master is two pins of the processor                    *)
(* (src/nki2c_bitbang.c), pin by pin, and the EEPROM at the other end of   *)
(* the two wires.  Both pull a wire low or let it go; the EEPROM sees the  *)
(* edges, acknowledges nothing while it is busy, and may hold SCL low      *)
(* after a byte to gain time.                                              *)
(*                                                                         *)
(* A transaction is the sequence of pin operations, prog, that the         *)
(* functions of nki2c_bitbang.c carry out for it.                          *)
(***************************************************************************)
EXTENDS Integers, Sequences, SequencesExt

CONSTANTS
  Width,         \* bits of a byte, those of the EEPROM's address and one more
  DevAddr,       \* its address
  EepromSize,
  ChipPage,      \* bytes of a page of the EEPROM
  MaxPolls,      \* times sda_read looks at SCL (100)
  MaxStretches   \* bound: number of times that SCL is held

(* the powers of 2 *)
Pow2[n \in 0 .. Width] == IF n = 0 THEN 1 ELSE 2 * Pow2[n - 1]

ASSUME I2cConstantsOK ==
  /\ Width \in Nat \ {0, 1}
  /\ EepromSize \in 1 .. Pow2[Width]
  /\ DevAddr \in 0 .. Pow2[Width - 1] - 1
  /\ ChipPage \in Nat \ {0} /\ EepromSize % ChipPage = 0
  /\ MaxPolls \in Nat /\ MaxStretches \in Nat

BusByte == 0 .. Pow2[Width] - 1

VARIABLES
  scl, sda,      \* the master's ends of the wires: 0 pulls, 1 lets go
  prog,          \* pin operations of the transaction that are left to do
  clocking,      \* sda_read has let SCL go and waits for it
  looks,         \* its counter x
  bits,          \* bits that were read
  nak,           \* status is -1
  ee,            \* the EEPROM
  stretches,
  late           \* the master has gone on while SCL was held: sda_read with
                 \* "SCL stuck low?", i2c_stop and i2c_start unaware

bus == << scl, sda, prog, clocking, looks, bits, nak, ee, stretches, late >>

BusTypeOK ==
  /\ scl \in {0, 1} /\ sda \in {0, 1}
  /\ prog \in Seq({"sda0", "sda1", "scl0", "scl1", "clk", "ack", "bit"})
  /\ clocking \in BOOLEAN
  /\ looks \in 0 .. MaxPolls
  /\ bits \in Seq({0, 1})
  /\ nak \in BOOLEAN /\ late \in BOOLEAN
  /\ ee.st \in {"idle", "address", "offset", "data", "read", "ignore"}
  /\ ee.n \in 0 .. Width + 1
  /\ ee.byte \in BusByte
  /\ ee.ptr \in 0 .. EepromSize - 1
  /\ ee.mem \in [0 .. EepromSize - 1 -> BusByte]

BusInit ==
  /\ scl = 1 /\ sda = 1
  /\ prog = << >>
  /\ clocking = FALSE /\ looks = 0
  /\ bits = << >>
  /\ nak = FALSE
  /\ ee = [st |-> "idle", n |-> 0, byte |-> 0, pulls |-> FALSE,
           holds |-> FALSE, ptr |-> 0, page |-> << >>, busy |-> FALSE,
           mem |-> [a \in 0 .. EepromSize - 1 |-> 0]]
  /\ stretches = 0
  /\ late = FALSE

SclHigh == scl = 1 /\ ~ee.holds
SdaLevel == IF sda = 1 /\ ~ee.pulls THEN 1 ELSE 0

-----------------------------------------------------------------------------
(* The EEPROM: n counts the clocks of a byte and its acknowledgement *)

Bit(x, k) == (x \div Pow2[Width - k]) % 2

Start == [ee EXCEPT !.st = "address", !.n = 0, !.byte = 0, !.pulls = FALSE,
                    !.page = << >>]

(* the bytes received go where ptr points, and wrap within its page *)
Committed ==
  LET base == ee.ptr - (ee.ptr % ChipPage)
  IN  [a \in DOMAIN ee.mem |->
         LET ks == {k \in DOMAIN ee.page :
                      base + ((ee.ptr + k - 1) % ChipPage) = a}
         IN  IF ks = {} THEN ee.mem[a]
             ELSE ee.page[CHOOSE k \in ks : \A j \in ks : j <= k]]

Stop ==
  LET writes == ee.st = "data" /\ ee.page # << >> /\ ee.n <= 1
  IN  [ee EXCEPT !.st = "idle", !.n = 0, !.byte = 0, !.pulls = FALSE,
                 !.page = << >>,
                 !.mem = IF writes THEN Committed ELSE @,
                 !.busy = @ \/ writes]

Receives == ee.st \in {"address", "offset", "data"}

SclRises ==
  CASE Receives /\ ee.n < Width ->
         [ee EXCEPT !.byte = (2 * @ + SdaLevel) % Pow2[Width], !.n = @ + 1]
    [] ee.st = "read" /\ ee.n < Width -> [ee EXCEPT !.n = @ + 1]
    [] ee.st = "read" /\ ee.n = Width ->
         IF SdaLevel = 0 THEN [ee EXCEPT !.n = @ + 1]
                         ELSE [ee EXCEPT !.st = "ignore"]
    [] OTHER -> ee

Acknowledges ==
  ee.st = "address" => ee.byte \div 2 = DevAddr /\ ~ee.busy

(* a byte to send begins with its highest bit *)
Sends(p) == [ee EXCEPT !.st = "read", !.n = 0, !.byte = 0, !.ptr = p,
                       !.pulls = Bit(ee.mem[p], 1) = 0]

Received ==
  LET free == [ee EXCEPT !.n = 0, !.byte = 0, !.pulls = FALSE]
  IN  CASE ee.st = "address" /\ ee.byte % 2 = 1 -> Sends(ee.ptr)
        [] ee.st = "address" /\ ee.byte % 2 = 0 ->
             [free EXCEPT !.st = "offset"]
        [] ee.st = "offset" ->
             [free EXCEPT !.st = "data", !.ptr = ee.byte % EepromSize]
        [] OTHER -> [free EXCEPT !.page = Append(@, ee.byte)]

SclFalls ==
  CASE Receives /\ ee.n = Width ->
         IF Acknowledges THEN [ee EXCEPT !.n = @ + 1, !.pulls = TRUE]
                         ELSE [ee EXCEPT !.st = "ignore"]
    [] Receives /\ ee.n = Width + 1 -> Received
    [] ee.st = "read" /\ ee.n < Width ->
         [ee EXCEPT !.pulls = Bit(ee.mem[ee.ptr], ee.n + 1) = 0]
    [] ee.st = "read" /\ ee.n = Width -> [ee EXCEPT !.pulls = FALSE]
    [] ee.st = "read" /\ ee.n = Width + 1 -> Sends((ee.ptr + 1) % EepromSize)
    [] OTHER -> ee

(* a falling edge; after a byte or its acknowledgement SCL may be held *)
Falls ==
  \/ ee' = SclFalls /\ UNCHANGED stretches
  \/ /\ stretches < MaxStretches
     /\ ee.n >= Width
     /\ SclFalls.st # "ignore"
     /\ stretches' = stretches + 1
     /\ ee' = [SclFalls EXCEPT !.holds = TRUE]

LetsGo ==
  /\ ee.holds
  /\ ee' = [(IF scl = 1 THEN SclRises ELSE ee) EXCEPT !.holds = FALSE]
  /\ UNCHANGED << scl, sda, prog, clocking, looks, bits, nak, stretches,
                  late >>

(* A write cycle is over.  Only the acknowledgement of an address looks at *)
(* it, so that it makes no difference if this is before the transaction.   *)
CycleOver ==
  /\ ee.busy
  /\ prog = << >>
  /\ ee' = [ee EXCEPT !.busy = FALSE]
  /\ UNCHANGED << scl, sda, prog, clocking, looks, bits, nak, stretches,
                  late >>

-----------------------------------------------------------------------------
(* The master's transactions *)

i2c_start == << "sda0", "scl0" >>
i2c_stop  == << "sda0", "scl1", "sda1" >>
i2c_stopr == << "sda1", "scl1" >>

Flat(ss) ==
  LET upto[k \in 0 .. Len(ss)] ==
        IF k = 0 THEN << >> ELSE upto[k - 1] \o ss[k]
  IN  upto[Len(ss)]

i2c_byte_out(x) ==
  Flat([k \in 1 .. Width |-> IF Bit(x, k) = 1 THEN << "sda1", "clk" >>
                                              ELSE << "sda0", "clk" >>])

i2c_check_ack == << "sda1", "ack" >>
i2c_byte_in   == << "sda1" >> \o [k \in 1 .. Width |-> "bit"]
i2c_send_ack  == << "sda0", "clk" >>
i2c_send_nak  == << "sda1", "clk" >>

Acked(x) == i2c_byte_out(x) \o i2c_check_ack

Written(data) ==
  i2c_start \o Acked(2 * DevAddr) \o
  Flat([k \in DOMAIN data |-> Acked(data[k])])

nk_bitbang_i2c_write(data) == Written(data) \o i2c_stop
nk_bitbang_i2c_write_nostop(data) == Written(data) \o i2c_stopr

(* mutant: the last byte is acknowledged like the others *)
ReadAllAcked(n) ==
  i2c_start \o Acked(2 * DevAddr + 1) \o
  Flat([k \in 1 .. n |-> i2c_byte_in \o i2c_send_ack]) \o i2c_stop

nk_bitbang_i2c_read(n) ==
  i2c_start \o Acked(2 * DevAddr + 1) \o
  Flat([k \in 1 .. n |-> i2c_byte_in \o
                         (IF k < n THEN i2c_send_ack ELSE i2c_send_nak)])
  \o i2c_stop

(* a transaction begins *)
Transact(p) ==
  /\ prog' = p
  /\ bits' = << >>
  /\ nak' = FALSE
  /\ UNCHANGED << scl, sda, clocking, looks, ee, stretches, late >>

(* what is left when the rest of the transaction is given up *)
AfterNak ==
  IF prog[Len(prog)] = "sda1" THEN i2c_stop ELSE i2c_stopr

-----------------------------------------------------------------------------
(* Its pins *)

SdaPin(level) ==
  LET falls == SdaLevel = 1 /\ level = 0
      rises == sda = 0 /\ level = 1 /\ ~ee.pulls
  IN  /\ sda' = level
      /\ ee' = CASE SclHigh /\ falls -> Start
                 [] SclHigh /\ rises -> Stop
                 [] OTHER -> ee
      /\ late' = (late \/ (scl = 1 /\ ee.holds))
      /\ UNCHANGED << scl, stretches >>

SclPin(level) ==
  /\ scl' = level
  /\ UNCHANGED sda
  /\ CASE level = 1 /\ scl = 0 /\ ~ee.holds ->
              ee' = SclRises /\ UNCHANGED stretches
       [] level = 0 /\ SclHigh -> Falls
       [] OTHER -> UNCHANGED << ee, stretches >>

Pin ==
  /\ prog # << >>
  /\ \/ Head(prog) = "sda0" /\ SdaPin(0)
     \/ Head(prog) = "sda1" /\ SdaPin(1)
     \/ Head(prog) = "scl0" /\ SclPin(0) /\ UNCHANGED late
     \/ Head(prog) = "scl1" /\ SclPin(1) /\ UNCHANGED late
  /\ prog' = Tail(prog)
  /\ UNCHANGED << clocking, looks, bits, nak >>

(* sda_read *)
ClockUp ==
  /\ prog # << >>
  /\ Head(prog) \in {"clk", "ack", "bit"}
  /\ ~clocking
  /\ clocking' = TRUE
  /\ looks' = 0
  /\ SclPin(1)
  /\ UNCHANGED << prog, bits, nak, late >>

(* mutant: the looks are not counted *)
LookAgainForEver ==
  /\ clocking
  /\ ~SclHigh
  /\ UNCHANGED bus

LookAgain ==
  /\ clocking
  /\ ~SclHigh
  /\ looks < MaxPolls
  /\ looks' = looks + 1
  /\ UNCHANGED << scl, sda, prog, clocking, bits, nak, ee, stretches, late >>

ClockDown ==
  /\ clocking
  /\ SclHigh \/ looks = MaxPolls
  /\ late' = (late \/ ~SclHigh)
  /\ clocking' = FALSE
  /\ looks' = 0
  /\ SclPin(0)
  /\ bits' = IF Head(prog) = "bit" THEN Append(bits, SdaLevel) ELSE bits
  /\ nak' = (nak \/ (Head(prog) = "ack" /\ SdaLevel = 1))
  /\ prog' = IF Head(prog) = "ack" /\ SdaLevel = 1 THEN AfterNak
                                                 ELSE Tail(prog)

Master == Pin \/ ClockUp \/ LookAgain \/ ClockDown

=============================================================================
