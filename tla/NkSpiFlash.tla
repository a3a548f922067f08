----------------------------- MODULE NkSpiFlash -----------------------------
(***************************************************************************)
(* The SPI flash driver of libnklabs (src/nkspiflash.c) and the chip it    *)
(* drives, one action for each transfer on the bus.  The chip takes a      *)
(* program or erase command only with its write enable latch set, is busy  *)
(* for some time after it, and ignores everything but a read of its status *)
(* meanwhile.  A transfer may fail, before or after the chip has seen it.  *)
(*                                                                         *)
(* A byte is the set of its bits that are 1: programming clears bits.      *)
(***************************************************************************)
EXTENDS Integers, Sequences, FiniteSetsExt

CONSTANTS
  Bits,
  FlashSize,
  PageSize,      \* page_size
  EraseSizes,    \* the erase_size of the erase_options
  BusyTimeout,   \* busy_timeout
  MaxLen,        \* bound: longest write or read
  MaxFaults      \* bound: number of transfers that fail

ASSUME SpiFlashConstantsOK ==
  /\ PageSize \in Nat \ {0}
  /\ FlashSize \in Nat \ {0} /\ FlashSize % PageSize = 0
  /\ EraseSizes # {} /\ EraseSizes \subseteq Nat \ {0}
  /\ \A s \in EraseSizes : s % PageSize = 0
  /\ BusyTimeout \in Nat \ {0}
  /\ MaxFaults \in Nat

FlashByte == SUBSET Bits
FlashErased == Bits
Addresses == 0 .. FlashSize - 1
Zeros(n) == [k \in 1 .. n |-> {}]

VARIABLES
  flash,        \* what the chip holds, or will when it is no longer busy
  busy,
  write_enabled,
  fpc,          \* next transfer of the driver, or "idle"
  fcall,        \* the call of the interface: [op, addr, data]
  fat,          \* bytes of the call that are done
  fstatus,      \* status is 0
  polls,        \* x of nk_spiflash_busy_wait
  got,          \* the bytes read so far
  fresult,
  known,        \* of the chip to its callers: "ready" when the last write
                \* or busy wait returned 0, "erased" when an erase did since,
                \* "failed" when a write or an erase failed since
  faults

chip == << flash, busy, write_enabled >>
fvars == << flash, busy, write_enabled, fpc, fcall, fat, fstatus, polls, got,
            fresult, known, faults >>

FNoCall == [op |-> "none", addr |-> 0, data |-> << >>]
FResult(ok, data) == [ok |-> ok, data |-> data]

FlashTypeOK ==
  /\ flash \in [Addresses -> FlashByte]
  /\ busy \in BOOLEAN /\ write_enabled \in BOOLEAN
  /\ fpc \in {"idle", "enable", "command", "poll", "read", "wait"}
  /\ fcall.op \in {"none", "write", "erase", "read"}
  /\ fcall.addr \in Addresses
  /\ fcall.addr + Len(fcall.data) <= FlashSize
  /\ fat \in 0 .. Len(fcall.data)
  /\ fstatus \in BOOLEAN
  /\ polls \in 0 .. BusyTimeout - 1
  /\ got \in Seq(FlashByte) /\ Len(got) = IF fpc = "read" THEN fat ELSE 0
  /\ known \in {"ready", "erased", "failed"}
  /\ faults \in 0 .. MaxFaults

FlashInit ==
  /\ flash = [a \in Addresses |-> FlashErased]
  /\ busy = FALSE /\ write_enabled = FALSE
  /\ fpc = "idle" /\ fcall = FNoCall /\ fat = 0 /\ fstatus = TRUE
  /\ polls = 0 /\ got = << >>
  /\ fresult = FResult(TRUE, << >>)
  /\ known = "ready"
  /\ faults = 0

-----------------------------------------------------------------------------
(* The chip *)

Enable ==
  /\ write_enabled' = (write_enabled \/ ~busy)
  /\ UNCHANGED << flash, busy >>

Accepts == write_enabled /\ ~busy

Store(f) ==
  IF Accepts THEN flash' = f /\ busy' = TRUE /\ UNCHANGED write_enabled
             ELSE UNCHANGED chip

(* the address wraps within its page *)
ProgramPage(addr, data) ==
  LET page == addr - (addr % PageSize)
      Nth(a) == ((a - addr) % PageSize) + 1
  IN  Store([a \in Addresses |->
               IF a - (a % PageSize) = page /\ Nth(a) <= Len(data)
                 THEN flash[a] \cap data[Nth(a)] ELSE flash[a]])

EraseUnit(addr, size) ==
  LET unit == addr - (addr % size)
  IN  Store([a \in Addresses |-> IF a \in unit .. unit + size - 1
                                   THEN FlashErased ELSE flash[a]])

ChipDone ==
  /\ busy
  /\ busy' = FALSE
  /\ write_enabled' = FALSE
  /\ UNCHANGED << flash, fpc, fcall, fat, fstatus, polls, got, fresult,
                  known, faults >>

-----------------------------------------------------------------------------
(* The driver *)

(* spi_transfer: ok says what it returns, Seen what the chip does of it *)
Transfer(ok, Seen) ==
  \/ ok /\ Seen /\ UNCHANGED faults
  \/ /\ ~ok
     /\ faults < MaxFaults
     /\ faults' = faults + 1
     /\ Seen \/ UNCHANGED chip

address == fcall.addr + fat
byte_count == Len(fcall.data) - fat

transfer_len == Min({PageSize - (address % PageSize), byte_count})

FBegin(op, a, d) ==
  /\ fpc = "idle"
  /\ fpc' = IF op = "read" THEN "read" ELSE "enable"
  /\ fcall' = [op |-> op, addr |-> a, data |-> d]
  /\ fat' = 0
  /\ fstatus' = TRUE
  /\ polls' = 0
  /\ fresult' = FResult(TRUE, << >>)
  /\ UNCHANGED << chip, got, known, faults >>

(* after an erase, and after a write that failed, the chip may be busy *)
Return(ok, data) ==
  /\ fpc' = "idle"
  /\ fcall' = FNoCall
  /\ fat' = 0
  /\ fstatus' = TRUE
  /\ polls' = 0
  /\ got' = << >>
  /\ fresult' = FResult(ok, data)
  /\ known' = CASE fcall.op = "read" -> known
                [] fcall.op # "read" /\ ~ok -> "failed"
                [] fcall.op # "read" /\ ok ->
                     IF fcall.op = "erase" THEN "erased" ELSE "ready"

nk_spiflash_write(a, d) == FBegin("write", a, d)
nk_spiflash_erase(a, n) == FBegin("erase", a, Zeros(n))
nk_spiflash_read(a, n)  == FBegin("read", a, Zeros(n))

Fitting ==
  {s \in EraseSizes : address % s = 0 /\ byte_count >= s}

(* its status is kept, and the command sent all the same *)
nk_spiflash_write_enable ==
  \E ok \in BOOLEAN :
    /\ fpc = "enable"
    /\ fcall.op = "erase" => Fitting # {}
    /\ Transfer(ok, Enable)
    /\ fstatus' = (fstatus /\ ok)
    /\ fpc' = "command"
    /\ UNCHANGED << fcall, fat, polls, got, fresult, known >>

(* "Invalid erase size" *)
EraseInvalid ==
  /\ fpc = "enable"
  /\ fcall.op = "erase"
  /\ Fitting = {}
  /\ Return(FALSE, << >>)
  /\ UNCHANGED << chip, faults >>

WriteCommand ==
  \E ok \in BOOLEAN :
    /\ fpc = "command"
    /\ fcall.op = "write"
    /\ Transfer(ok, ProgramPage(address,
                                SubSeq(fcall.data, fat + 1, fat + transfer_len)))
    /\ IF ok /\ fstatus
         THEN fpc' = "poll" /\ UNCHANGED << fcall, fat, fstatus, polls, got,
                                            fresult, known >>
         ELSE Return(FALSE, << >>)

(* the largest unit that fits, and on to the next without waiting *)
EraseCommand ==
  \E ok \in BOOLEAN :
    LET size == Max(Fitting)
    IN  /\ fpc = "command"
        /\ fcall.op = "erase"
        /\ Transfer(ok, EraseUnit(address, size))
        /\ CASE ~(ok /\ fstatus) -> Return(FALSE, << >>)
             [] ok /\ fstatus /\ size = byte_count -> Return(TRUE, << >>)
             [] OTHER -> /\ fpc' = "enable"
                         /\ fat' = fat + size
                         /\ UNCHANGED << fcall, fstatus, polls, got, fresult,
                                         known >>

(* mutant: a page is taken for written when the status has been read *)
PollOnce ==
  \E ok \in BOOLEAN :
    /\ fpc = "poll"
    /\ Transfer(ok, UNCHANGED chip)
    /\ CASE ~ok -> Return(FALSE, << >>)
         [] ok /\ transfer_len = byte_count -> Return(TRUE, << >>)
         [] OTHER -> /\ fpc' = "enable"
                     /\ fat' = fat + transfer_len
                     /\ UNCHANGED << fcall, fstatus, polls, got, fresult,
                                     known >>

(* nk_spiflash_busy_wait in nk_spiflash_write *)
Poll ==
  \E ok \in BOOLEAN :
    /\ fpc = "poll"
    /\ Transfer(ok, UNCHANGED chip)
    /\ CASE ~ok \/ (busy /\ polls = BusyTimeout - 1) -> Return(FALSE, << >>)
         [] ok /\ busy /\ polls < BusyTimeout - 1 ->
              /\ polls' = polls + 1
              /\ UNCHANGED << fpc, fcall, fat, fstatus, got, fresult, known >>
         [] ok /\ ~busy /\ transfer_len = byte_count -> Return(TRUE, << >>)
         [] OTHER ->
              /\ fpc' = "enable"
              /\ fat' = fat + transfer_len
              /\ polls' = 0
              /\ UNCHANGED << fcall, fstatus, got, fresult, known >>

(* a busy chip does not drive the bus *)
ReadCommand ==
  \E ok \in BOOLEAN :
    LET bytes == [k \in 1 .. transfer_len |->
                    IF busy THEN FlashErased ELSE flash[address + k - 1]]
    IN  /\ fpc = "read"
        /\ Transfer(ok, UNCHANGED chip)
        /\ CASE ~ok -> Return(FALSE, << >>)
             [] ok /\ transfer_len = byte_count -> Return(TRUE, got \o bytes)
             [] OTHER -> /\ fat' = fat + transfer_len
                         /\ got' = got \o bytes
                         /\ UNCHANGED << fpc, fcall, fstatus, polls, fresult,
                                         known >>

(* called by itself; its status is all that its caller learns *)
nk_spiflash_busy_wait ==
  /\ fpc = "idle"
  /\ fpc' = "wait"
  /\ UNCHANGED << chip, fcall, fat, fstatus, polls, got, fresult, known,
                  faults >>

BusyWait ==
  \E ok \in BOOLEAN :
    /\ fpc = "wait"
    /\ Transfer(ok, UNCHANGED chip)
    /\ IF ok /\ busy /\ polls < BusyTimeout - 1
         THEN polls' = polls + 1 /\ UNCHANGED << fpc, known >>
         ELSE /\ fpc' = "idle"
              /\ polls' = 0
              /\ known' = IF ok /\ ~busy THEN "ready" ELSE known
    /\ UNCHANGED << fcall, fat, fstatus, got, fresult >>

FlashCall ==
  \E a \in Addresses :
    \E n \in 1 .. FlashSize - a :
      \/ n <= MaxLen /\ \E d \in [1 .. n -> FlashByte] : nk_spiflash_write(a, d)
      \/ n <= MaxLen /\ nk_spiflash_read(a, n)
      \/ nk_spiflash_erase(a, n)

FlashDriver ==
  \/ nk_spiflash_write_enable \/ WriteCommand \/ EraseCommand \/ EraseInvalid
  \/ Poll \/ ReadCommand \/ BusyWait

FlashNext ==
  FlashCall \/ nk_spiflash_busy_wait \/ FlashDriver \/ ChipDone

FlashSpec == FlashInit /\ [][FlashNext]_fvars

-----------------------------------------------------------------------------
(* Properties *)

(* what one erase command does, or no command at all can begin *)
OneUnit(a, n) ==
  LET units == {s \in EraseSizes : a % s = 0 /\ n >= s}
  IN  units = {} \/ n \in units

(* a call that does what it reports: its caller could tell that the chip *)
(* was not busy, and it takes no more than one erase command             *)
FlashSure ==
  /\ known = "ready"
  /\ fcall.op = "erase" => OneUnit(fcall.addr, Len(fcall.data))

(***************************************************************************)
(* The flash is a memory: pages, the latch, the polling and failed         *)
(* transfers do not show.  A write that returns 0 has programmed every     *)
(* byte, a read that returns 0 returns what is stored, if the write or the *)
(* busy wait before it returned 0.  After an erase, or a call that failed, *)
(* a call may find the chip busy: it then does some of what was asked and  *)
(* nothing else, whatever it reports.                                      *)
(***************************************************************************)
Flash == INSTANCE NkMemory WITH
  Size <- FlashSize, Byte <- FlashByte, Erased <- FlashErased,
  Program <- LAMBDA old, new : old \cap new,
  mem <- flash, call <- fcall, result <- fresult,
  sure <- FlashSure, trusted <- TRUE

ImplementsFlash == Flash!Spec

(***************************************************************************)
(* "nk_spiflash_erase waits until the erase is complete before returning"  *)
(* (doc/nkspiflash.md), so that a call after it does what it reports too.  *)
(***************************************************************************)
Waiting == INSTANCE NkMemory WITH
  Size <- FlashSize, Byte <- FlashByte, Erased <- FlashErased,
  Program <- LAMBDA old, new : old \cap new,
  mem <- flash, call <- fcall, result <- fresult,
  sure <- known # "failed", trusted <- TRUE

ErasesAreWaitedFor == Waiting!Spec

=============================================================================
