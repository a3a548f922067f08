------------------------- MODULE NkMemories_proofs --------------------------
(***************************************************************************)
(* Proofs about the SPI flash driver and its chip, for every size of       *)
(* flash, page and erase unit, every timeout and any number of transfers   *)
(* that fail.                                                              *)
(*                                                                         *)
(* Second half: proofs about the EEPROM driver, the bus that two pins      *)
(* make and the EEPROM at its end, for every width of a byte, every size   *)
(* of EEPROM and page, every timeout and any number of times that SCL is   *)
(* held.                                                                   *)
(***************************************************************************)
EXTENDS NkMemories, NkLemmas

(* the call fits the flash, and the driver is at a transfer of it *)
CallOK ==
  /\ fcall \in [op : {"none", "write", "erase", "read"}, addr : Addresses,
                data : Seq(FlashByte)]
  /\ fcall.addr + Len(fcall.data) <= FlashSize
  /\ IF fpc \in {"idle", "wait"}
       THEN fcall = FNoCall /\ fat = 0
       ELSE fcall.op # "none" /\ fat \in 0 .. Len(fcall.data) - 1
  /\ fpc \in {"enable", "command"} => fcall.op \in {"write", "erase"}
  /\ fpc = "poll" => fcall.op = "write"
  /\ fpc = "read" => fcall.op = "read"
  /\ fpc = "command" /\ fcall.op = "erase" => Fitting # {}

(* and every variable has its type *)
TypeInv == FlashTypeOK /\ CallOK

(* of a call that is sure, and between calls when the next one will be: the *)
(* chip is not busy when a command is sent to it, and takes one that was    *)
(* enabled                                                                  *)
ChipListens ==
  FlashSure =>
    /\ fpc # "poll" => ~busy
    /\ fpc = "command" /\ fstatus => write_enabled

(* an erase is a single command *)
ErasesOnce == FlashSure /\ fcall.op = "erase" => fat = 0

(* the bytes of a write that count as done are, and so are those that the   *)
(* chip is busy with                                                        *)
Programmed ==
  LET n == IF fpc = "poll" THEN fat + transfer_len ELSE fat
  IN  FlashSure /\ fcall.op = "write" =>
        \A k \in 1 .. n : flash[fcall.addr + k - 1] \subseteq fcall.data[k]

(* the bytes that were read are those stored *)
Fetched ==
  FlashSure => \A k \in 1 .. Len(got) : got[k] = flash[fcall.addr + k - 1]

DoneSoFar == ErasesOnce /\ Programmed /\ Fetched

(* The inductive invariant. *)
MemoryInv == TypeInv /\ ChipListens /\ DoneSoFar

-----------------------------------------------------------------------------
(* Lengths and addresses *)

(* A call that the driver is at a transfer of: where it goes, and how many  *)
(* bytes are left.                                                          *)
LEMMA AddressProps ==
  ASSUME CallOK, fpc \notin {"idle", "wait"}
  PROVE  /\ fcall # FNoCall
         /\ fcall.op \in {"write", "erase", "read"}
         /\ fcall.addr \in Nat /\ fcall.data \in Seq(FlashByte)
         /\ Len(fcall.data) \in Nat /\ fat \in Nat /\ fat < Len(fcall.data)
         /\ byte_count \in Nat \ {0} /\ byte_count = Len(fcall.data) - fat
         /\ address \in Addresses /\ address = fcall.addr + fat
         /\ address + byte_count <= FlashSize
<1>1. /\ fcall.addr \in Addresses /\ fcall.data \in Seq(FlashByte)
      /\ fcall.op \in {"none", "write", "erase", "read"}
      /\ fat \in 0 .. Len(fcall.data) - 1
      /\ fcall.addr + Len(fcall.data) <= FlashSize
  BY DEF CallOK
<1>2. Len(fcall.data) \in Nat /\ FlashSize \in Nat /\ fcall.addr \in Nat
  BY <1>1, LenProperties, SpiFlashConstantsOK DEF Addresses
<1>3. fat \in Nat /\ fat < Len(fcall.data)
  BY <1>1, <1>2
<1>4. byte_count \in Nat \ {0} /\ byte_count = Len(fcall.data) - fat
  BY <1>2, <1>3 DEF byte_count
<1>5. /\ address \in Addresses /\ address = fcall.addr + fat
      /\ address + byte_count <= FlashSize
  BY <1>1, <1>2, <1>3, <1>4 DEF address, Addresses
<1>6. fcall # FNoCall
  <2>1. FNoCall.data = << >>
    BY DEF FNoCall
  <2>2. Len(FNoCall.data) = 0
    BY <2>1, EmptySeq
  <2>3. QED
    BY <1>2, <1>3, <2>2
<1>7. fcall.op \in {"write", "erase", "read"}
  BY <1>1 DEF CallOK
<1>8. QED
  BY <1>1, <1>2, <1>3, <1>4, <1>5, <1>6, <1>7

(* A transfer of a write or a read takes at least a byte, and no more than *)
(* are left of the page and of the call.                                   *)
LEMMA TransferLenProps ==
  ASSUME CallOK, fpc \notin {"idle", "wait"}
  PROVE  /\ transfer_len \in 1 .. byte_count
         /\ transfer_len <= PageSize - (address % PageSize)
<1> DEFINE S == {PageSize - (address % PageSize), byte_count}
<1>1. address \in Nat /\ byte_count \in Nat \ {0} /\ PageSize \in Nat \ {0}
  BY AddressProps, SpiFlashConstantsOK DEF Addresses
<1>2. address % PageSize \in 0 .. PageSize - 1
  BY <1>1
<1>3. PageSize - (address % PageSize) \in Nat \ {0}
  BY <1>1, <1>2
<1>4. Min(S) \in S /\ \A x \in S : Min(S) <= x
  <2>1. S \in SUBSET Nat /\ S # {}
    BY <1>1, <1>3
  <2> HIDE DEF S
  <2>2. QED
    BY <2>1, MinIn
<1>5. transfer_len = Min(S)
  BY DEF transfer_len
<1> DEFINE m == Min(S)
<1>6. m \in S /\ m <= byte_count /\ m <= PageSize - (address % PageSize)
  BY <1>4
<1>7. m \in Nat \ {0}
  BY <1>1, <1>3, <1>6
<1> HIDE DEF m
<1>8. m \in 1 .. byte_count
  BY <1>1, <1>6, <1>7
<1>9. QED
  BY <1>5, <1>6, <1>8 DEF m

(* The unit of an erase command begins at its address and ends within the  *)
(* call.                                                                   *)
LEMMA FittingProps ==
  ASSUME CallOK, fpc \notin {"idle", "wait"}, Fitting # {}
  PROVE  /\ Max(Fitting) \in Fitting
         /\ \A s \in Fitting : s <= Max(Fitting)
         /\ Max(Fitting) \in 1 .. byte_count
         /\ address % Max(Fitting) = 0
<1>1. byte_count \in Nat /\ Fitting \in SUBSET (1 .. byte_count)
  <2>1. byte_count \in Nat
    BY AddressProps
  <2>2. \A s \in Fitting : s \in Nat \ {0} /\ byte_count >= s
    BY SpiFlashConstantsOK DEF Fitting
  <2>3. QED
    BY <2>1, <2>2
<1>2. Fitting \in SUBSET (0 .. byte_count)
  BY <1>1
<1>3. Max(Fitting) \in Fitting /\ \A s \in Fitting : Max(Fitting) >= s
  BY <1>1, <1>2, MaxIn
<1>4. \A s \in Fitting : s <= Max(Fitting)
  BY <1>1, <1>3
<1>5. address % Max(Fitting) = 0
  BY <1>3 DEF Fitting
<1>6. QED
  BY <1>1, <1>3, <1>4, <1>5

(* The place of address a among the bytes of a command that programs pages  *)
(* of p bytes from address b on, and whether one of n bytes programs it.    *)
Place(p, b, a) == ((a - b) % p) + 1

Hit(p, b, n, a) == a - (a % p) = b - (b % p) /\ Place(p, b, a) <= n

(* Of the addresses of a page those of a write that stays in it are        *)
(* programmed, each with its byte, and the address does not wrap.          *)
LEMMA PageAddresses ==
  ASSUME NEW p \in Nat \ {0}, NEW b \in Nat, NEW n \in Nat \ {0},
         n <= p - (b % p), NEW a \in Nat
  PROVE  /\ Hit(p, b, n, a) <=> a \in b .. b + n - 1
         /\ a \in b .. b + n - 1 => Place(p, b, a) = a - b + 1
<1> DEFINE q == b \div p
           r == b % p
           s == a % p
           u == a \div p
<1>1. /\ b = p * q + r /\ q \in Nat /\ r \in 0 .. p - 1
      /\ a = p * u + s /\ u \in Nat /\ s \in 0 .. p - 1
  OBVIOUS
<1> HIDE DEF q, r, s, u
<1>2. ASSUME a \in b .. b + n - 1
      PROVE  (a - b) % p = a - b /\ a - s = b - r
  <2>1. a - b \in 0 .. p - 1 /\ a - p * q \in 0 .. p - 1
    BY <1>1, <1>2 DEF r
  <2>2. (a - b) % p = a - b
    BY <2>1, ModSmall
  <2>3. s = a - p * q
    <3> DEFINE w == a - p * q
    <3>1. a = p * q + w /\ w \in 0 .. p - 1
      BY <1>1, <2>1
    <3> HIDE DEF w
    <3>2. a % p = w
      BY <1>1, <3>1, ModUnique
    <3>3. QED
      BY <3>2 DEF w, s
  <2>4. QED
    BY <1>1, <2>2, <2>3
<1>3. ASSUME a - s = b - r, ((a - b) % p) + 1 <= n
      PROVE  a \in b .. b + n - 1
  <2>1. p * u = p * q /\ p * u \in Nat
    BY <1>1, <1>3
  <2>2. a - b = s - r
    BY <1>1, <2>1
  <2>3. CASE s >= r
    <3>1. a - b \in 0 .. p - 1
      BY <1>1, <2>2, <2>3
    <3>2. (a - b) % p = a - b
      BY <3>1, ModSmall
    <3>3. QED
      BY <1>3, <3>1, <3>2
  <2>4. CASE s < r
    <3> DEFINE w == s - r + p
    <3>1. a - b = p * (-1) + w /\ w \in 0 .. p - 1 /\ a - b \in Int
      BY <1>1, <2>2, <2>4
    <3> HIDE DEF w
    <3>2. (a - b) % p = w
      BY <3>1, ModUnique
    <3>3. w + 1 <= p - r
      BY <1>3, <3>2, <1>1 DEF r
    <3>4. s - r + p + 1 <= p - r
      BY <3>3 DEF w
    <3>5. QED
      BY <1>1, <3>4
  <2>5. QED
    BY <1>1, <2>3, <2>4
<1>4. QED
  BY <1>2, <1>3 DEF r, s, Hit, Place

-----------------------------------------------------------------------------
(* Types *)

(* what the chip and the faults are *)
ChipType ==
  /\ flash \in [Addresses -> FlashByte]
  /\ busy \in BOOLEAN /\ write_enabled \in BOOLEAN
  /\ faults \in 0 .. MaxFaults

(* No call has no bytes. *)
LEMMA NoCallProps ==
  /\ FNoCall.op = "none" /\ FNoCall.addr = 0 /\ FNoCall.data = << >>
  /\ Len(FNoCall.data) = 0 /\ FNoCall.addr \in Addresses
  /\ FNoCall \in [op : {"none", "write", "erase", "read"}, addr : Addresses,
                  data : Seq(FlashByte)]
<1> DEFINE e == << >>
<1>1. e \in Seq(FlashByte)
  BY EmptySeq
<1>2. Len(e) = 0
  BY EmptySeq
<1>3. 0 \in Addresses
  BY SpiFlashConstantsOK DEF Addresses
<1>4. FNoCall = [op |-> "none", addr |-> 0, data |-> e]
  BY DEF FNoCall
<1> HIDE DEF e
<1>5. FNoCall.op = "none" /\ FNoCall.addr = 0 /\ FNoCall.data = e
  BY <1>4
<1>6. FNoCall \in [op : {"none", "write", "erase", "read"}, addr : Addresses,
                   data : Seq(FlashByte)]
  BY <1>1, <1>3, <1>4
<1>7. QED
  BY <1>2, <1>3, <1>5, <1>6 DEF e

(* Whatever a transfer does to the chip, the chip keeps its types. *)
LEMMA TransferTypes ==
  ASSUME FlashTypeOK, NEW ok, NEW f \in [Addresses -> FlashByte],
         \/ Transfer(ok, Enable)
         \/ Transfer(ok, Store(f))
         \/ Transfer(ok, UNCHANGED chip)
  PROVE  ChipType'
<1>1. flash' \in [Addresses -> FlashByte]
  BY DEF Transfer, Enable, Store, chip, FlashTypeOK
<1>2. busy' \in BOOLEAN
  BY DEF Transfer, Enable, Store, chip, FlashTypeOK
<1>3. write_enabled' \in BOOLEAN
  BY DEF Transfer, Enable, Store, chip, FlashTypeOK
<1>4. faults' \in 0 .. MaxFaults
  <2>1. faults' = faults \/ (faults < MaxFaults /\ faults' = faults + 1)
    BY DEF Transfer
  <2>2. QED
    BY <2>1, SpiFlashConstantsOK DEF FlashTypeOK
<1>5. QED
  BY <1>1, <1>2, <1>3, <1>4 DEF ChipType

(* A call begins. *)
LEMMA BeginTypes ==
  ASSUME TypeInv, NEW op \in {"write", "erase", "read"}, NEW a \in Addresses,
         NEW n \in 1 .. FlashSize - a, NEW d \in [1 .. n -> FlashByte],
         FBegin(op, a, d)
  PROVE  TypeInv'
<1>1. FlashSize \in Nat /\ a \in Nat /\ n \in Nat \ {0} /\ a + n <= FlashSize
  BY SpiFlashConstantsOK DEF Addresses
<1>2. d \in Seq(FlashByte) /\ Len(d) = n
  BY <1>1
<1>3. /\ fcall'.op = op /\ fcall'.addr = a /\ fcall'.data = d
      /\ fcall' \in [op : {"none", "write", "erase", "read"}, addr : Addresses,
                     data : Seq(FlashByte)]
  BY <1>2 DEF FBegin
<1>4. fpc = "idle" /\ fpc' = IF op = "read" THEN "read" ELSE "enable"
  BY DEF FBegin
<1>5. fat' = 0 /\ polls' = 0 /\ fstatus' \in BOOLEAN /\ got' = got
  BY DEF FBegin
<1>6. 0 \in 0 .. BusyTimeout - 1 /\ 0 \in 0 .. n - 1 /\ 0 \in 0 .. n
  BY <1>1, SpiFlashConstantsOK
<1>7. CallOK'
  BY <1>1, <1>2, <1>3, <1>4, <1>5, <1>6 DEF CallOK
<1>8. got' \in Seq(FlashByte) /\ Len(got') = 0
  BY <1>4, <1>5 DEF TypeInv, FlashTypeOK
<1>9. /\ flash' \in [Addresses -> FlashByte]
      /\ busy' \in BOOLEAN /\ write_enabled' \in BOOLEAN
      /\ known' \in {"ready", "erased", "failed"} /\ faults' \in 0 .. MaxFaults
  BY DEF FBegin, chip, TypeInv, FlashTypeOK
<1>10. FlashTypeOK'
  BY <1>1, <1>2, <1>3, <1>4, <1>5, <1>6, <1>8, <1>9 DEF FlashTypeOK
<1>11. QED
  BY <1>7, <1>10 DEF TypeInv

(* A call returns. *)
LEMMA ReturnTypes ==
  ASSUME TypeInv, NEW ok \in BOOLEAN, NEW d, Return(ok, d), ChipType'
  PROVE  TypeInv'
<1>1. fpc' = "idle" /\ fcall' = FNoCall /\ fat' = 0
  BY DEF Return
<1>2. /\ fstatus' \in BOOLEAN /\ polls' = 0
      /\ known' \in {"ready", "erased", "failed"}
  BY DEF Return, TypeInv, FlashTypeOK
<1>3. got' \in Seq(FlashByte) /\ Len(got') = 0
  <2>1. got' = << >>
    BY DEF Return
  <2>2. << >> \in Seq(FlashByte)
    BY EmptySeq
  <2>3. Len(<< >>) = 0
    BY EmptySeq
  <2>4. QED
    BY <2>1, <2>2, <2>3
<1>4. CallOK'
  <2>1. fcall'.addr + Len(fcall'.data) <= FlashSize
    BY <1>1, NoCallProps, SpiFlashConstantsOK
  <2>2. fcall' \in [op : {"none", "write", "erase", "read"}, addr : Addresses,
                    data : Seq(FlashByte)]
    BY <1>1, NoCallProps
  <2>3. QED
    BY <1>1, <2>1, <2>2 DEF CallOK
<1>5. FlashTypeOK'
  <2>1. /\ fcall'.op = "none" /\ fcall'.addr \in Addresses
        /\ fcall'.addr = 0 /\ Len(fcall'.data) = 0
    BY <1>1, NoCallProps
  <2>2. 0 + 0 <= FlashSize /\ 0 \in 0 .. BusyTimeout - 1
    BY SpiFlashConstantsOK
  <2>3. QED
    BY <1>1, <1>2, <1>3, <2>1, <2>2 DEF FlashTypeOK, ChipType
<1>6. QED
  BY <1>4, <1>5 DEF TypeInv

(* A call goes on to another transfer of it. *)
LEMMA GoesOnTypes ==
  ASSUME TypeInv, fpc \notin {"idle", "wait"}, ChipType',
         fcall' = fcall, known' = known,
         fat' \in 0 .. Len(fcall.data) - 1,
         fstatus' \in BOOLEAN, polls' \in 0 .. BusyTimeout - 1,
         \/ fpc' \in {"enable", "command"} /\ fcall.op \in {"write", "erase"}
         \/ fpc' = "poll" /\ fcall.op = "write"
         \/ fpc' = "read" /\ fcall.op = "read",
         fpc' = "command" /\ fcall.op = "erase" => Fitting' # {},
         got' \in Seq(FlashByte),
         Len(got') = IF fpc' = "read" THEN fat' ELSE 0
  PROVE  TypeInv'
<1>1. /\ fcall \in [op : {"none", "write", "erase", "read"}, addr : Addresses,
                    data : Seq(FlashByte)]
      /\ fcall.addr + Len(fcall.data) <= FlashSize
      /\ fcall.op # "none" /\ Len(fcall.data) \in Nat
  BY AddressProps DEF TypeInv, CallOK
<1>2. fpc' \in {"enable", "command", "poll", "read"}
  OBVIOUS
<1>3. CallOK'
  BY <1>1, <1>2 DEF CallOK
<1>4. fat' \in 0 .. Len(fcall.data)
  BY <1>1
<1>5. FlashTypeOK'
  BY <1>1, <1>2, <1>4 DEF FlashTypeOK, ChipType, TypeInv
<1>6. QED
  BY <1>3, <1>5 DEF TypeInv

(* The chip's contents when a page has been programmed, and when a unit has *)
(* been erased.                                                             *)
Burned(addr, data) ==
  [a \in Addresses |->
     IF /\ a - (a % PageSize) = addr - (addr % PageSize)
        /\ ((a - addr) % PageSize) + 1 <= Len(data)
       THEN flash[a] \cap data[((a - addr) % PageSize) + 1]
       ELSE flash[a]]

Cleared(addr, size) ==
  [a \in Addresses |->
     IF a \in addr - (addr % size) .. addr - (addr % size) + size - 1
       THEN FlashErased ELSE flash[a]]

(* They are contents. *)
LEMMA ContentsProps ==
  ASSUME flash \in [Addresses -> FlashByte], NEW addr, NEW data, NEW size
  PROVE  /\ Burned(addr, data) \in [Addresses -> FlashByte]
         /\ Cleared(addr, size) \in [Addresses -> FlashByte]
<1>1. \A a \in Addresses : flash[a] \subseteq Bits
  BY DEF FlashByte
<1>2. Burned(addr, data) \in [Addresses -> FlashByte]
  <2>1. ASSUME NEW a \in Addresses
        PROVE  /\ flash[a] \cap data[((a - addr) % PageSize) + 1] \in FlashByte
               /\ flash[a] \in FlashByte
    BY <1>1 DEF FlashByte
  <2>2. QED
    BY <2>1 DEF Burned
<1>3. Cleared(addr, size) \in [Addresses -> FlashByte]
  BY DEF Cleared, FlashByte, FlashErased
<1>4. QED
  BY <1>2, <1>3

(* The commands store them. *)
LEMMA CommandStores ==
  ASSUME NEW ok, NEW addr, NEW data, NEW size
  PROVE  /\ Transfer(ok, ProgramPage(addr, data)) =>
              Transfer(ok, Store(Burned(addr, data)))
         /\ Transfer(ok, EraseUnit(addr, size)) =>
              Transfer(ok, Store(Cleared(addr, size)))
<1>1. ProgramPage(addr, data) => Store(Burned(addr, data))
  BY DEF ProgramPage, Burned
<1>2. EraseUnit(addr, size) => Store(Cleared(addr, size))
  BY DEF EraseUnit, Cleared
<1>3. QED
  BY <1>1, <1>2 DEF Transfer

(* Every step keeps the types.  One step of the proof for each action. *)
LEMMA TypeStep ==
  ASSUME TypeInv, [FlashNext]_fvars
  PROVE  TypeInv'
<1> USE DEF TypeInv
<1>1. CASE FlashCall
  <2>0. PICK a \in Addresses :
          \E n \in 1 .. FlashSize - a :
            \/ \E d \in [1 .. n -> FlashByte] : nk_spiflash_write(a, d)
            \/ nk_spiflash_read(a, n)
            \/ nk_spiflash_erase(a, n)
    BY <1>1 DEF FlashCall
  <2>1. PICK n \in 1 .. FlashSize - a :
          \/ \E d \in [1 .. n -> FlashByte] : nk_spiflash_write(a, d)
          \/ nk_spiflash_read(a, n)
          \/ nk_spiflash_erase(a, n)
    BY <2>0
  <2>2. Zeros(n) \in [1 .. n -> FlashByte]
    BY DEF Zeros, FlashByte
  <2>3. CASE \E d \in [1 .. n -> FlashByte] : nk_spiflash_write(a, d)
    BY <2>1, <2>3, BeginTypes DEF nk_spiflash_write
  <2>4. CASE nk_spiflash_read(a, n)
    BY <2>1, <2>2, <2>4, BeginTypes DEF nk_spiflash_read
  <2>5. CASE nk_spiflash_erase(a, n)
    BY <2>1, <2>2, <2>5, BeginTypes DEF nk_spiflash_erase
  <2>6. QED
    BY <2>1, <2>3, <2>4, <2>5
<1>2. CASE nk_spiflash_write_enable
  <2>1. PICK ok \in BOOLEAN :
          /\ fpc = "enable"
          /\ fcall.op = "erase" => Fitting # {}
          /\ Transfer(ok, Enable)
          /\ fstatus' = (fstatus /\ ok)
          /\ fpc' = "command"
          /\ UNCHANGED << fcall, fat, polls, got, fresult, known >>
    BY <1>2 DEF nk_spiflash_write_enable
  <2>2. ChipType'
    BY <2>1, TransferTypes DEF FlashTypeOK
  <2>3. Fitting' = Fitting
    BY <2>1 DEF Fitting, address, byte_count
  <2>4. /\ fcall.op \in {"write", "erase"} /\ fat \in 0 .. Len(fcall.data) - 1
        /\ polls \in 0 .. BusyTimeout - 1 /\ got \in Seq(FlashByte)
        /\ Len(got) = 0 /\ fstatus' \in BOOLEAN
    BY <2>1 DEF FlashTypeOK, CallOK
  <2>5. QED
    BY <2>1, <2>2, <2>3, <2>4, GoesOnTypes
<1>3. CASE EraseInvalid
  <2>1. ChipType'
    BY <1>3 DEF EraseInvalid, chip, ChipType, FlashTypeOK
  <2>2. Return(FALSE, << >>)
    BY <1>3 DEF EraseInvalid
  <2>3. QED
    BY <2>1, <2>2, ReturnTypes
<1>4. CASE WriteCommand
  <2>1. PICK ok \in BOOLEAN :
          /\ fpc = "command" /\ fcall.op = "write"
          /\ Transfer(ok, ProgramPage(address, SubSeq(fcall.data, fat + 1,
                                                      fat + transfer_len)))
          /\ IF ok /\ fstatus
               THEN fpc' = "poll" /\ UNCHANGED << fcall, fat, fstatus, polls,
                                                  got, fresult, known >>
               ELSE Return(FALSE, << >>)
    BY <1>4 DEF WriteCommand
  <2>2. ChipType'
    <3> DEFINE d == SubSeq(fcall.data, fat + 1, fat + transfer_len)
    <3>1. Transfer(ok, ProgramPage(address, d))
      BY <2>1
    <3> HIDE DEF d
    <3>2. Transfer(ok, Store(Burned(address, d)))
      BY <3>1, CommandStores
    <3>3. Burned(address, d) \in [Addresses -> FlashByte]
      BY ContentsProps DEF FlashTypeOK
    <3>4. QED
      BY <3>2, <3>3, TransferTypes
  <2>3. CASE ok /\ fstatus
    <3>1. fpc' = "poll" /\ UNCHANGED << fcall, fat, fstatus, polls, got,
                                        fresult, known >>
      BY <2>1, <2>3
    <3>2. /\ fat \in 0 .. Len(fcall.data) - 1 /\ polls \in 0 .. BusyTimeout - 1
          /\ got \in Seq(FlashByte) /\ Len(got) = 0 /\ fstatus \in BOOLEAN
      BY <2>1 DEF FlashTypeOK, CallOK
    <3>3. QED
      BY <2>1, <2>2, <3>1, <3>2, GoesOnTypes
  <2>4. CASE ~(ok /\ fstatus)
    BY <2>1, <2>2, <2>4, ReturnTypes
  <2>5. QED
    BY <2>3, <2>4
<1>5. CASE EraseCommand
  <2> DEFINE size == Max(Fitting)
  <2>1. PICK ok \in BOOLEAN :
          /\ fpc = "command" /\ fcall.op = "erase"
          /\ Transfer(ok, EraseUnit(address, size))
          /\ CASE ~(ok /\ fstatus) -> Return(FALSE, << >>)
               [] ok /\ fstatus /\ size = byte_count -> Return(TRUE, << >>)
               [] OTHER -> /\ fpc' = "enable"
                           /\ fat' = fat + size
                           /\ UNCHANGED << fcall, fstatus, polls, got, fresult,
                                           known >>
    BY <1>5 DEF EraseCommand
  <2>2. ChipType'
    BY <2>1, CommandStores, ContentsProps, TransferTypes DEF FlashTypeOK
  <2>3. size \in 1 .. byte_count
    BY <2>1, FittingProps DEF CallOK
  <2> HIDE DEF size
  <2>4. CASE ~(ok /\ fstatus)
    BY <2>1, <2>2, <2>4, ReturnTypes
  <2>5. CASE ok /\ fstatus /\ size = byte_count
    BY <2>1, <2>2, <2>5, ReturnTypes
  <2>6. CASE ok /\ fstatus /\ size # byte_count
    <3>1. /\ fpc' = "enable" /\ fat' = fat + size
          /\ UNCHANGED << fcall, fstatus, polls, got, fresult, known >>
      BY <2>1, <2>6
    <3>2. fat + size \in 0 .. Len(fcall.data) - 1
      BY <2>1, <2>3, <2>6, AddressProps
    <3>3. /\ polls \in 0 .. BusyTimeout - 1 /\ fstatus \in BOOLEAN
          /\ got \in Seq(FlashByte) /\ Len(got) = 0
      BY <2>1 DEF FlashTypeOK
    <3>4. QED
      BY <2>1, <2>2, <3>1, <3>2, <3>3, GoesOnTypes
  <2>7. QED
    BY <2>4, <2>5, <2>6
<1>6. CASE Poll
  <2>1. PICK ok \in BOOLEAN :
          /\ fpc = "poll"
          /\ Transfer(ok, UNCHANGED chip)
          /\ \/ Return(FALSE, << >>)
             \/ Return(TRUE, << >>)
             \/ /\ polls < BusyTimeout - 1
                /\ polls' = polls + 1
                /\ UNCHANGED << fpc, fcall, fat, fstatus, got, fresult,
                                known >>
             \/ /\ transfer_len # byte_count
                /\ fpc' = "enable"
                /\ fat' = fat + transfer_len
                /\ polls' = 0
                /\ UNCHANGED << fcall, fstatus, got, fresult, known >>
    <3>1. PICK ok \in BOOLEAN :
            /\ fpc = "poll"
            /\ Transfer(ok, UNCHANGED chip)
            /\ CASE ~ok \/ (busy /\ polls = BusyTimeout - 1) ->
                      Return(FALSE, << >>)
                 [] ok /\ busy /\ polls < BusyTimeout - 1 ->
                      /\ polls' = polls + 1
                      /\ UNCHANGED << fpc, fcall, fat, fstatus, got, fresult,
                                      known >>
                 [] ok /\ ~busy /\ transfer_len = byte_count ->
                      Return(TRUE, << >>)
                 [] OTHER -> /\ fpc' = "enable"
                             /\ fat' = fat + transfer_len
                             /\ polls' = 0
                             /\ UNCHANGED << fcall, fstatus, got, fresult,
                                             known >>
      BY <1>6 DEF Poll
    <3>2. polls = BusyTimeout - 1 \/ polls < BusyTimeout - 1
      BY SpiFlashConstantsOK DEF FlashTypeOK
    <3>3. QED
      BY <3>1, <3>2
  <2>2. ChipType'
    BY <2>1, TransferTypes DEF FlashTypeOK
  <2>3. /\ fcall.op = "write" /\ fat \in 0 .. Len(fcall.data) - 1
        /\ got \in Seq(FlashByte) /\ Len(got) = 0 /\ fstatus \in BOOLEAN
        /\ polls \in 0 .. BusyTimeout - 1
    BY <2>1 DEF FlashTypeOK, CallOK
  <2>4. CASE Return(FALSE, << >>) \/ Return(TRUE, << >>)
    BY <2>2, <2>4, ReturnTypes
  <2>5. CASE /\ polls < BusyTimeout - 1
             /\ polls' = polls + 1
             /\ UNCHANGED << fpc, fcall, fat, fstatus, got, fresult,
                             known >>
    <3>1. polls + 1 \in 0 .. BusyTimeout - 1
      BY <2>3, <2>5, SpiFlashConstantsOK
    <3>2. QED
      BY <2>1, <2>2, <2>3, <2>5, <3>1, GoesOnTypes
  <2>6. CASE /\ transfer_len # byte_count
             /\ fpc' = "enable"
             /\ fat' = fat + transfer_len
             /\ polls' = 0
             /\ UNCHANGED << fcall, fstatus, got, fresult, known >>
    <3>1. fat + transfer_len \in 0 .. Len(fcall.data) - 1
      BY <2>1, <2>6, TransferLenProps, AddressProps
    <3>2. 0 \in 0 .. BusyTimeout - 1
      BY SpiFlashConstantsOK
    <3>3. QED
      BY <2>1, <2>2, <2>3, <2>6, <3>1, <3>2, GoesOnTypes
  <2>7. QED
    BY <2>1, <2>4, <2>5, <2>6
<1>7. CASE ReadCommand
  <2> DEFINE bytes == [k \in 1 .. transfer_len |->
                         IF busy THEN FlashErased ELSE flash[address + k - 1]]
  <2>1. PICK ok \in BOOLEAN :
          /\ fpc = "read"
          /\ Transfer(ok, UNCHANGED chip)
          /\ CASE ~ok -> Return(FALSE, << >>)
               [] ok /\ transfer_len = byte_count -> Return(TRUE, got \o bytes)
               [] OTHER -> /\ fat' = fat + transfer_len
                           /\ got' = got \o bytes
                           /\ UNCHANGED << fpc, fcall, fstatus, polls, fresult,
                                           known >>
    BY <1>7 DEF ReadCommand
  <2>2. ChipType'
    BY <2>1, TransferTypes DEF FlashTypeOK
  <2>3. bytes \in Seq(FlashByte) /\ Len(bytes) = transfer_len
    <3>1. transfer_len \in Nat /\ transfer_len <= byte_count
      BY <2>1, TransferLenProps, AddressProps
    <3>2. ASSUME NEW k \in 1 .. transfer_len
          PROVE  (IF busy THEN FlashErased ELSE flash[address + k - 1])
                   \in FlashByte
      <4>1. address + k - 1 \in Addresses
        <5>1. /\ address \in Addresses /\ byte_count \in Nat
              /\ address + byte_count <= FlashSize
          BY <2>1, AddressProps
        <5>2. QED
          BY <3>1, <5>1, SpiFlashConstantsOK DEF Addresses
      <4>2. flash[address + k - 1] \in FlashByte
        BY <4>1 DEF FlashTypeOK
      <4>3. FlashErased \in FlashByte
        BY DEF FlashByte, FlashErased
      <4>4. QED
        BY <4>2, <4>3
    <3>3. QED
      BY <3>1, <3>2
  <2> HIDE DEF bytes
  <2>4. /\ fcall.op = "read" /\ got \in Seq(FlashByte) /\ Len(got) = fat
        /\ fstatus \in BOOLEAN /\ polls \in 0 .. BusyTimeout - 1
    BY <2>1 DEF FlashTypeOK, CallOK
  <2>5. CASE ~ok \/ transfer_len = byte_count
    BY <2>1, <2>2, <2>5, ReturnTypes
  <2>6. CASE ok /\ transfer_len # byte_count
    <3>1. /\ fat' = fat + transfer_len
          /\ got' = got \o bytes
          /\ UNCHANGED << fpc, fcall, fstatus, polls, fresult, known >>
      BY <2>1, <2>6
    <3>2. fat + transfer_len \in 0 .. Len(fcall.data) - 1
      BY <2>1, <2>6, TransferLenProps, AddressProps
    <3>3. got' \in Seq(FlashByte) /\ Len(got') = fat + transfer_len
      BY <2>3, <2>4, <3>1, ConcatProperties
    <3>4. QED
      BY <2>1, <2>2, <2>4, <3>1, <3>2, <3>3, GoesOnTypes
  <2>7. QED
    BY <2>5, <2>6
<1>8. CASE nk_spiflash_busy_wait
  <2>1. /\ fpc = "idle" /\ fpc' = "wait"
        /\ UNCHANGED << flash, busy, write_enabled, fcall, fat, fstatus, polls,
                        got, fresult, known, faults >>
    BY <1>8 DEF nk_spiflash_busy_wait, chip
  <2>2. FlashTypeOK'
    BY <2>1 DEF FlashTypeOK
  <2>3. CallOK'
    BY <2>1 DEF CallOK
  <2>4. QED
    BY <2>2, <2>3
<1>9. CASE BusyWait
  <2>1. PICK ok \in BOOLEAN :
          /\ fpc = "wait" /\ Transfer(ok, UNCHANGED chip)
          /\ IF ok /\ busy /\ polls < BusyTimeout - 1
               THEN polls' = polls + 1 /\ UNCHANGED << fpc, known >>
               ELSE /\ fpc' = "idle"
                    /\ polls' = 0
                    /\ known' = IF ok /\ ~busy THEN "ready" ELSE known
          /\ UNCHANGED << fcall, fat, fstatus, got, fresult >>
    BY <1>9 DEF BusyWait
  <2>2. ChipType'
    BY <2>1, TransferTypes DEF FlashTypeOK
  <2>3. /\ fpc' \in {"idle", "wait"} /\ known' \in {"ready", "erased", "failed"}
        /\ polls' \in 0 .. BusyTimeout - 1
    BY <2>1, SpiFlashConstantsOK DEF FlashTypeOK
  <2>4. FlashTypeOK'
    BY <2>1, <2>2, <2>3 DEF FlashTypeOK, ChipType
  <2>5. CallOK'
    BY <2>1, <2>3 DEF CallOK
  <2>6. QED
    BY <2>4, <2>5
<1>10. CASE ChipDone
  <2>1. UNCHANGED << flash, fpc, fcall, fat, fstatus, polls, got, fresult,
                     known, faults >>
    BY <1>10 DEF ChipDone
  <2>2. busy' \in BOOLEAN /\ write_enabled' \in BOOLEAN
    BY <1>10 DEF ChipDone
  <2>3. FlashTypeOK'
    BY <2>1, <2>2 DEF FlashTypeOK
  <2>4. Fitting' = Fitting
    BY <2>1 DEF Fitting, address, byte_count
  <2>5. CallOK'
    BY <2>1, <2>4 DEF CallOK
  <2>6. QED
    BY <2>3, <2>5
<1>11. CASE UNCHANGED fvars
  BY <1>11 DEF fvars, FlashTypeOK, CallOK, Fitting, address, byte_count
<1>12. QED
  BY <1>1, <1>2, <1>3, <1>4, <1>5, <1>6, <1>7, <1>8, <1>9, <1>10, <1>11
    DEF FlashNext, FlashDriver

-----------------------------------------------------------------------------
(* What is done of a call *)

(* Flash!Done with the contents and the call of the driver. *)
LEMMA DoneIs ==
  ASSUME NEW k
  PROVE  Flash!Done(k) =
           [i \in 0 .. FlashSize - 1 |->
              IF fcall.op # "read" /\ i \in fcall.addr .. fcall.addr + k - 1
                THEN IF fcall.op = "erase" THEN FlashErased
                     ELSE flash[i] \cap fcall.data[i - fcall.addr + 1]
                ELSE flash[i]]
  BY DEF Flash!Done

(* Programming bytes again that are programmed changes nothing. *)
LEMMA DoneAlready ==
  ASSUME TypeInv, fpc \notin {"idle", "wait"}, NEW n \in Nat, fcall.op = "erase" => n = 0,
         fcall.op = "write" =>
           \A k \in 1 .. n : flash[fcall.addr + k - 1] \subseteq fcall.data[k]
  PROVE  Flash!Done(n) = flash
<1>1. fcall.addr \in Nat /\ flash = [i \in 0 .. FlashSize - 1 |-> flash[i]]
  BY SpiFlashConstantsOK DEF TypeInv, FlashTypeOK, Addresses
<1>2. ASSUME NEW i \in 0 .. FlashSize - 1, fcall.op # "read",
             i \in fcall.addr .. fcall.addr + n - 1
      PROVE  /\ fcall.op # "erase"
             /\ flash[i] \cap fcall.data[i - fcall.addr + 1] = flash[i]
  <2> DEFINE k == i - fcall.addr + 1
  <2>1. k \in 1 .. n /\ n # 0 /\ fcall.addr + k - 1 = i
    BY <1>1, <1>2
  <2> HIDE DEF k
  <2>2. fcall.op = "write"
    BY <1>2, <2>1, AddressProps DEF TypeInv
  <2>3. flash[i] \subseteq fcall.data[k]
    BY <2>1, <2>2
  <2>4. QED
    BY <2>2, <2>3 DEF k
<1>3. QED
  BY <1>1, <1>2, DoneIs

(* Programming a page programs the next bytes of the call, and nothing else. *)
LEMMA BurnedAt ==
  ASSUME TypeInv, fpc = "command", fcall.op = "write",
         NEW d, d = SubSeq(fcall.data, fat + 1, fat + transfer_len)
  PROVE  \A a \in Addresses :
           Burned(address, d)[a] =
             IF a \in address .. address + transfer_len - 1
               THEN flash[a] \cap fcall.data[a - fcall.addr + 1] ELSE flash[a]
<1> DEFINE n == transfer_len
           x == fcall.addr
           w == fcall.data
<1>1. /\ x \in Nat /\ w \in Seq(FlashByte) /\ Len(w) \in Nat
      /\ fat \in Nat /\ address \in Nat /\ address = x + fat
      /\ x + Len(w) <= FlashSize /\ PageSize \in Nat \ {0}
      /\ FlashSize \in Nat /\ byte_count = Len(w) - fat
  BY AddressProps, SpiFlashConstantsOK DEF TypeInv, CallOK, Addresses
<1>2. /\ n \in Nat \ {0} /\ fat + n <= Len(w)
      /\ n <= PageSize - (address % PageSize)
  <2>1. /\ transfer_len \in 1 .. byte_count
        /\ transfer_len <= PageSize - (address % PageSize)
    BY TransferLenProps DEF TypeInv
  <2>2. n \in 1 .. byte_count /\ n <= PageSize - (address % PageSize)
    BY <2>1
  <2> HIDE DEF n
  <2>3. n \in Nat \ {0} /\ n <= byte_count
    <3>1. byte_count \in Int
      BY <1>1
    <3>2. QED
      BY ONLY <2>2, <3>1, SMT
  <2>4. QED
    BY <1>1, <2>2, <2>3
<1> HIDE DEF n, x, w
<1>3. Len(d) = n /\ \A k \in 1 .. n : d[k] = w[fat + k]
  <2>1. d = SubSeq(w, fat + 1, fat + n)
    BY DEF n, w
  <2>2. fat + 1 \in 1 .. Len(w) + 1 /\ fat + n \in (fat + 1) - 1 .. Len(w)
    BY <1>1, <1>2
  <2>3. /\ Len(d) = (fat + n) - (fat + 1) + 1
        /\ \A i \in 1 .. (fat + n) - (fat + 1) + 1 :
             d[i] = w[(fat + 1) + i - 1]
    <3>1. w \in Seq(FlashByte)
      BY <1>1
    <3>2. QED
      BY ONLY <2>1, <2>2, <3>1, SliceProps
  <2>4. (fat + n) - (fat + 1) + 1 = n
    BY <1>1, <1>2
  <2>5. \A i \in 1 .. n : (fat + 1) + i - 1 = fat + i
    BY <1>1, <1>2
  <2>6. QED
    BY <2>3, <2>4, <2>5
<1>4. ASSUME NEW a \in Addresses
      PROVE  Burned(address, d)[a] =
               IF a \in address .. address + n - 1
                 THEN flash[a] \cap w[a - x + 1] ELSE flash[a]
  <2> DEFINE c == /\ a - (a % PageSize) = address - (address % PageSize)
                  /\ ((a - address) % PageSize) + 1 <= n
             m == ((a - address) % PageSize) + 1
  <2>1. a \in Nat
    BY DEF Addresses
  <2> DEFINE b == address
  <2>b. b \in Nat /\ n <= PageSize - (b % PageSize)
    BY <1>1, <1>2
  <2> HIDE DEF b
  <2> DEFINE z == PageSize
  <2>z. z \in Nat \ {0} /\ n <= z - (b % z)
    BY <1>1, <2>b
  <2> HIDE DEF z
  <2>p. /\ Hit(z, b, n, a) <=> a \in b .. b + n - 1
        /\ a \in b .. b + n - 1 => Place(z, b, a) = a - b + 1
    BY ONLY <1>2, <2>1, <2>b, <2>z, PageAddresses
  <2>2. c <=> a \in address .. address + n - 1
    BY <2>p DEF b, z, Hit, Place
  <2>3. a \in address .. address + n - 1 => m = a - address + 1
    BY <2>p DEF b, z, Place
  <2>4. Burned(address, d)[a] = IF c THEN flash[a] \cap d[m] ELSE flash[a]
    BY <1>3 DEF Burned
  <2> HIDE DEF c, m
  <2>5. ASSUME a \in address .. address + n - 1
        PROVE  d[m] = w[a - x + 1]
    <3>1. m = a - address + 1
      BY <2>3, <2>5
    <3>2. m \in 1 .. n /\ fat + m = a - x + 1
      BY <3>1, <1>1, <1>2, <2>1, <2>5
    <3>3. QED
      BY <1>3, <3>2
  <2>6. QED
    BY <2>2, <2>4, <2>5
<1>5. QED
  BY <1>4 DEF n, x, w

(* A page that is programmed is the next bytes of the call; those before   *)
(* are programmed already.                                                 *)
LEMMA BurnedIsDone ==
  ASSUME TypeInv, fpc = "command", fcall.op = "write", Programmed, FlashSure,
         NEW d, d = SubSeq(fcall.data, fat + 1, fat + transfer_len)
  PROVE  /\ Burned(address, d) = Flash!Done(fat + transfer_len)
         /\ \A k \in 1 .. fat + transfer_len :
              Burned(address, d)[fcall.addr + k - 1] \subseteq fcall.data[k]
<1> DEFINE n == transfer_len
           x == fcall.addr
           w == fcall.data
<1>1. /\ x \in Nat /\ w \in Seq(FlashByte) /\ Len(w) \in Nat
      /\ fat \in Nat /\ address \in Nat /\ address = x + fat
      /\ x + Len(w) <= FlashSize /\ PageSize \in Nat \ {0}
      /\ FlashSize \in Nat /\ byte_count = Len(w) - fat
  BY AddressProps, SpiFlashConstantsOK DEF TypeInv, CallOK, Addresses
<1>2. /\ n \in Nat \ {0} /\ fat + n <= Len(w)
      /\ n <= PageSize - (address % PageSize)
  <2>1. /\ transfer_len \in 1 .. byte_count
        /\ transfer_len <= PageSize - (address % PageSize)
    BY TransferLenProps DEF TypeInv
  <2>2. n \in 1 .. byte_count /\ n <= PageSize - (address % PageSize)
    BY <2>1
  <2> HIDE DEF n
  <2>3. n \in Nat \ {0} /\ n <= byte_count
    <3>1. byte_count \in Int
      BY <1>1
    <3>2. QED
      BY ONLY <2>2, <3>1, SMT
  <2>4. QED
    BY <1>1, <2>2, <2>3
<1>3. \A k \in 1 .. fat : flash[x + k - 1] \subseteq w[k]
  BY DEF Programmed
<1> HIDE DEF n, x, w
<1>5. ASSUME NEW a \in Addresses
      PROVE  Burned(address, d)[a] =
               IF a \in address .. address + n - 1
                 THEN flash[a] \cap w[a - x + 1] ELSE flash[a]
  BY BurnedAt DEF n, x, w
<1>6. Burned(address, d) = Flash!Done(fat + n)
  <2>1. Burned(address, d) = [a \in Addresses |-> Burned(address, d)[a]]
    BY DEF Burned
  <2>2. ASSUME NEW a \in Addresses
        PROVE  Burned(address, d)[a] =
                 IF a \in x .. x + (fat + n) - 1
                   THEN flash[a] \cap w[a - x + 1] ELSE flash[a]
    <3>1. a \in Nat
      BY DEF Addresses
    <3>2. CASE a \in address .. address + n - 1
      <4>1. a \in x .. x + (fat + n) - 1
        BY <1>1, <1>2, <3>1, <3>2
      <4>2. QED
        BY <1>5, <3>2, <4>1
    <3>3. CASE a \in x .. x + fat - 1
      <4>1. /\ a \in x .. x + (fat + n) - 1
            /\ a \notin address .. address + n - 1
            /\ a - x + 1 \in 1 .. fat /\ x + (a - x + 1) - 1 = a
        BY <1>1, <1>2, <3>1, <3>3
      <4> DEFINE k == a - x + 1
      <4>2. flash[x + k - 1] \subseteq w[k]
        BY <1>3, <4>1
      <4>3. flash[a] \subseteq w[k]
        BY <4>1, <4>2
      <4> HIDE DEF k
      <4>4. flash[a] \cap w[k] = flash[a]
        BY <4>3
      <4>5. QED
        BY <1>5, <4>1, <4>4 DEF k
    <3>4. CASE a \notin x .. x + (fat + n) - 1
      <4>1. a \notin address .. address + n - 1
        BY <1>1, <1>2, <3>1, <3>4
      <4>2. QED
        BY <1>5, <3>4, <4>1
    <3>5. QED
      <4>1. \/ a \in address .. address + n - 1
            \/ a \in x .. x + fat - 1
            \/ a \notin x .. x + (fat + n) - 1
        BY <1>1, <1>2, <3>1
      <4>2. QED
        BY <3>2, <3>3, <3>4, <4>1
  <2>3. Flash!Done(fat + n) =
          [a \in Addresses |-> IF a \in x .. x + (fat + n) - 1
                                 THEN flash[a] \cap w[a - x + 1] ELSE flash[a]]
    BY DoneIs DEF Addresses, x, w
  <2>4. QED
    BY <2>1, <2>2, <2>3
<1>7. ASSUME NEW k \in 1 .. fat + n
      PROVE  Burned(address, d)[x + k - 1] \subseteq w[k]
  <2> DEFINE a == x + k - 1
  <2>1. a \in Addresses /\ a - x + 1 = k /\ a \in Nat
    BY <1>1, <1>2 DEF Addresses
  <2>2. CASE a \in address .. address + n - 1
    <3> HIDE DEF a
    <3>1. Burned(address, d)[a] = flash[a] \cap w[k]
      BY <1>5, <2>1, <2>2
    <3>2. QED
      BY <3>1 DEF a
  <2>3. CASE a \notin address .. address + n - 1
    <3>1. k \in 1 .. fat
      BY <1>1, <1>2, <2>1, <2>3
    <3> HIDE DEF a
    <3>2. Burned(address, d)[a] = flash[a]
      BY <1>5, <2>1, <2>3
    <3>3. QED
      BY <1>3, <3>1, <3>2 DEF a
  <2>4. QED
    BY <2>2, <2>3
<1>8. QED
  BY <1>6, <1>7 DEF n, x, w

(* A unit that is as long as the call is all of it. *)
LEMMA ClearedIsDone ==
  ASSUME TypeInv, fpc = "command", fcall.op = "erase", fat = 0,
         Max(Fitting) = byte_count
  PROVE  Cleared(address, Max(Fitting)) = Flash!Done(Len(fcall.data))
<1> DEFINE size == Max(Fitting)
<1>1. address % size = 0 /\ size \in Nat
  BY FittingProps, AddressProps DEF TypeInv, CallOK
<1>2. /\ address = fcall.addr /\ size = Len(fcall.data)
      /\ fcall.addr \in Nat
  <2>1. /\ address = fcall.addr + fat /\ fcall.addr \in Nat
        /\ byte_count = Len(fcall.data) - fat /\ Len(fcall.data) \in Nat
    BY AddressProps DEF TypeInv
  <2>2. QED
    BY <2>1
<1> HIDE DEF size
<1>3. address - (address % size) = fcall.addr
  BY <1>1, <1>2
<1>4. Cleared(address, size) =
        [a \in Addresses |->
           IF a \in fcall.addr .. fcall.addr + Len(fcall.data) - 1
             THEN FlashErased ELSE flash[a]]
  BY <1>2, <1>3 DEF Cleared
<1>5. QED
  BY <1>4, DoneIs DEF Addresses, size

(* Whatever of a call is left out, a command does some of what was asked, *)
(* and nothing else.                                                       *)
Within(f) ==
  \A i \in 0 .. FlashSize - 1 :
    f[i] \in {flash[i], Flash!Done(Len(fcall.data))[i]}

(* A part of a range lies in it. *)
LEMMA PartOfRange ==
  ASSUME NEW a \in Nat, NEW m \in Nat, NEW k \in Nat, NEW n \in 1 .. m - k,
         NEW i \in (a + k) .. (a + k) + n - 1
  PROVE  i \in a .. a + m - 1
  OBVIOUS

(* What a command is sent for lies within the call. *)
LEMMA InCall ==
  ASSUME fcall.addr \in Nat, Len(fcall.data) \in Nat, fat \in Nat,
         address = fcall.addr + fat,
         NEW n \in 1 .. Len(fcall.data) - fat,
         NEW i \in address .. address + n - 1
  PROVE  i \in fcall.addr .. fcall.addr + Len(fcall.data) - 1
  BY PartOfRange

(* Programming a page. *)
LEMMA BurnedWithin ==
  ASSUME TypeInv, fpc = "command", fcall.op = "write",
         NEW d, d = SubSeq(fcall.data, fat + 1, fat + transfer_len)
  PROVE  Within(Burned(address, d))
<1>1. /\ fcall.addr \in Nat /\ Len(fcall.data) \in Nat /\ fat \in Nat
      /\ address = fcall.addr + fat /\ byte_count = Len(fcall.data) - fat
      /\ transfer_len \in 1 .. byte_count
  BY AddressProps, TransferLenProps DEF TypeInv
<1>2. ASSUME NEW i \in 0 .. FlashSize - 1
      PROVE  Burned(address, d)[i] \in
               {flash[i], Flash!Done(Len(fcall.data))[i]}
  <2>1. Burned(address, d)[i] =
          IF i \in address .. address + transfer_len - 1
            THEN flash[i] \cap fcall.data[i - fcall.addr + 1] ELSE flash[i]
    BY BurnedAt DEF Addresses
  <2>2. CASE i \in address .. address + transfer_len - 1
    <3>1. i \in fcall.addr .. fcall.addr + Len(fcall.data) - 1
      <4>1. transfer_len \in 1 .. Len(fcall.data) - fat
        BY <1>1
      <4>2. QED
        BY <1>1, <2>2, <4>1, InCall
    <3>2. Flash!Done(Len(fcall.data))[i] =
            flash[i] \cap fcall.data[i - fcall.addr + 1]
      BY <3>1, DoneIs
    <3>3. QED
      BY <2>1, <2>2, <3>2
  <2>3. CASE i \notin address .. address + transfer_len - 1
    BY <2>1, <2>3
  <2>4. QED
    BY <2>2, <2>3
<1>3. QED
  BY <1>2 DEF Within

(* Erasing a unit. *)
LEMMA ClearedWithin ==
  ASSUME TypeInv, fpc = "command", fcall.op = "erase"
  PROVE  Within(Cleared(address, Max(Fitting)))
<1> DEFINE size == Max(Fitting)
<1>1. /\ fcall.addr \in Nat /\ Len(fcall.data) \in Nat /\ fat \in Nat
      /\ address = fcall.addr + fat /\ byte_count = Len(fcall.data) - fat
      /\ size \in 1 .. byte_count
  BY AddressProps, FittingProps DEF TypeInv, CallOK
<1>2. address - (address % size) = address
  <2>1. address % size = 0
    BY FittingProps DEF TypeInv, CallOK
  <2>2. QED
    BY <1>1, <2>1
<1> HIDE DEF size
<1>3. ASSUME NEW i \in 0 .. FlashSize - 1
      PROVE  Cleared(address, size)[i] \in
               {flash[i], Flash!Done(Len(fcall.data))[i]}
  <2>1. Cleared(address, size)[i] =
          IF i \in address - (address % size)
                    .. address - (address % size) + size - 1
            THEN FlashErased ELSE flash[i]
    BY DEF Cleared, Addresses
  <2>2. CASE i \in address .. address + size - 1
    <3>1. i \in fcall.addr .. fcall.addr + Len(fcall.data) - 1
      <4>1. size \in 1 .. Len(fcall.data) - fat
        BY <1>1
      <4>2. QED
        BY <1>1, <2>2, <4>1, InCall
    <3>2. Flash!Done(Len(fcall.data))[i] = FlashErased
      BY <3>1, DoneIs
    <3>3. QED
      BY <1>2, <2>1, <2>2, <3>2
  <2>3. CASE i \notin address .. address + size - 1
    BY <1>2, <2>1, <2>3
  <2>4. QED
    BY <2>2, <2>3
<1>4. QED
  BY <1>3 DEF Within, size

-----------------------------------------------------------------------------
(* Steps of the memory *)

(* A call is sure or it is not. *)
LEMMA SureBoolean == FlashSure \in BOOLEAN /\ FlashSure' \in BOOLEAN
  BY DEF FlashSure

(* It is while the call and what its caller knew are the same. *)
LEMMA SureStays ==
  ASSUME UNCHANGED << fcall, known >>
  PROVE  FlashSure' = FlashSure
  BY DEF FlashSure

(* A step that shows in neither the contents nor the call. *)
LEMMA Unseen ==
  ASSUME UNCHANGED << flash, fcall, fresult, known >>
  PROVE  UNCHANGED Flash!vars
  BY SureStays DEF Flash!vars

(* Some more of the call is done. *)
LEMMA Advances ==
  ASSUME fcall # FNoCall, NEW k \in 0 .. Len(fcall.data), FlashSure,
         flash' = Flash!Done(k), UNCHANGED << fcall, fresult, known >>
  PROVE  Flash!Next
<1>1. Flash!Advance
  BY SureStays DEF Flash!Advance, Flash!NoCall, FNoCall
<1>2. QED
  BY <1>1, SureBoolean DEF Flash!Next

(* The call fails when some of it is done. *)
LEMMA Fails ==
  ASSUME fcall # FNoCall, NEW k \in 0 .. Len(fcall.data), FlashSure,
         flash' = Flash!Done(k), Return(FALSE, << >>)
  PROVE  Flash!Next
<1>1. fcall' = FNoCall /\ fresult' = FResult(FALSE, << >>)
  BY DEF Return
<1>2. Flash!Fail
  BY <1>1 DEF Flash!Fail, Flash!NoCall, FNoCall, Flash!Result, FResult
<1>3. QED
  BY <1>2, SureBoolean DEF Flash!Next

(* All of a write or an erase is done. *)
LEMMA Succeeds ==
  ASSUME fcall # FNoCall, fcall.op # "read", FlashSure,
         flash' = Flash!Done(Len(fcall.data)), Return(TRUE, << >>)
  PROVE  Flash!Next
<1>1. fcall' = FNoCall /\ fresult' = FResult(TRUE, << >>)
  BY DEF Return
<1>2. Flash!Succeed
  BY <1>1 DEF Flash!Succeed, Flash!NoCall, FNoCall, Flash!Result, FResult
<1>3. QED
  BY <1>2, SureBoolean DEF Flash!Next

(* A read returns the contents. *)
LEMMA ReadsContents ==
  ASSUME fcall # FNoCall, fcall.op = "read", FlashSure,
         flash' = Flash!Done(Len(fcall.data)), Return(TRUE, Flash!Contents)
  PROVE  Flash!Next
<1>1. fcall' = FNoCall /\ fresult' = FResult(TRUE, Flash!Contents)
  BY DEF Return
<1>2. Flash!Succeed
  BY <1>1 DEF Flash!Succeed, Flash!NoCall, FNoCall, Flash!Result, FResult
<1>3. QED
  BY <1>2, SureBoolean DEF Flash!Next

(* A call that is not sure does some of what was asked. *)
LEMMA DoesSome ==
  ASSUME fcall # FNoCall, ~FlashSure, Within(flash'),
         flash' \in [Addresses -> FlashByte],
         UNCHANGED << fcall, fresult, known >> \/ fcall' = FNoCall
  PROVE  Flash!Next
<1>1. flash' \in [0 .. FlashSize - 1 -> FlashByte]
  BY DEF Addresses
<1>2. /\ fcall # Flash!NoCall
      /\ \/ UNCHANGED << fcall, fresult >> /\ FlashSure' = FlashSure
         \/ fcall' = Flash!NoCall
  BY SureStays DEF Flash!NoCall, FNoCall
<1>3. Flash!Unsure
  BY <1>1, <1>2 DEF Flash!Unsure, Within
<1>4. QED
  BY <1>3, SureBoolean DEF Flash!Next

-----------------------------------------------------------------------------
(* What a step leaves *)

(* Nothing is done of a call of which no byte is. *)
LEMMA DoneNone ==
  ASSUME TypeInv, fpc \notin {"idle", "wait"}
  PROVE  Flash!Done(0) = flash /\ 0 \in 0 .. Len(fcall.data)
<1>1. Flash!Done(0) = flash
  <2>1. fcall.op = "write" =>
          \A k \in 1 .. 0 : flash[fcall.addr + k - 1] \subseteq fcall.data[k]
    OBVIOUS
  <2>2. QED
    BY <2>1, DoneAlready
<1>2. Len(fcall.data) \in Nat
  BY AddressProps DEF TypeInv
<1>3. QED
  BY <1>1, <1>2

(* A command stores its contents or does not, and does when it is accepted *)
(* and does not fail.                                                      *)
LEMMA StoreProps ==
  ASSUME NEW ok \in BOOLEAN, NEW f, Transfer(ok, Store(f))
  PROVE  /\ flash' = f \/ flash' = flash
         /\ ok /\ Accepts => flash' = f
<1>1. CASE ok
  BY <1>1 DEF Transfer, Store, chip
<1>2. CASE ~ok
  BY <1>2 DEF Transfer, Store, chip
<1>3. QED
  BY <1>1, <1>2

(* Reading the status or the contents leaves the chip as it is. *)
LEMMA ChipUnchanged ==
  ASSUME NEW ok \in BOOLEAN, Transfer(ok, UNCHANGED chip)
  PROVE  flash' = flash /\ busy' = busy /\ write_enabled' = write_enabled
  BY DEF Transfer, chip

(* A call may return with the chip busy only if its caller can tell. *)
LEMMA ReturnKeeps ==
  ASSUME fcall.op \in {"write", "erase", "read"},
         NEW ok \in BOOLEAN, NEW d, Return(ok, d),
         ok /\ fcall.op = "write" => ~busy',
         fcall.op = "read" /\ FlashSure => ~busy'
  PROVE  (ChipListens /\ DoneSoFar)'
<1>1. fpc' = "idle" /\ fcall' = FNoCall /\ fat' = 0 /\ got' = << >>
  BY DEF Return
<1>2. known' = "ready" => ~busy'
  <2>1. CASE fcall.op = "read"
    <3>1. known' = known
      BY <2>1 DEF Return
    <3>2. known = "ready" => FlashSure
      BY <2>1 DEF FlashSure
    <3>3. QED
      BY <2>1, <3>1, <3>2
  <2>2. CASE fcall.op # "read" /\ ~ok
    BY <2>2 DEF Return
  <2>3. CASE fcall.op # "read" /\ ok
    BY <2>3 DEF Return
  <2>4. QED
    BY <2>1, <2>2, <2>3
<1>3. ChipListens'
  BY <1>1, <1>2 DEF ChipListens, FlashSure
<1>4. fcall'.op = "none"
  BY <1>1, NoCallProps
<1>5. ErasesOnce' /\ Programmed'
  BY <1>4 DEF ErasesOnce, Programmed
<1>6. Fetched'
  <2>1. Len(got') = 0
    BY <1>1, EmptySeq
  <2>2. QED
    BY <2>1 DEF Fetched
<1>7. QED
  BY <1>3, <1>5, <1>6 DEF DoneSoFar

(* A write or an erase that fails leaves its caller unsure of the chip. *)
LEMMA FailKeeps ==
  ASSUME fcall.op \in {"write", "erase"}, Return(FALSE, << >>)
  PROVE  (ChipListens /\ DoneSoFar)'
<1>1. fpc' = "idle" /\ fcall' = FNoCall /\ fat' = 0 /\ got' = << >>
  BY DEF Return
<1>2. known' = "failed"
  BY DEF Return
<1>3. ChipListens'
  BY <1>2 DEF ChipListens, FlashSure
<1>4. ErasesOnce' /\ Programmed' /\ Fetched'
  BY <1>2 DEF ErasesOnce, Programmed, Fetched, FlashSure
<1>5. QED
  BY <1>3, <1>4 DEF DoneSoFar

(* Of a call that is not sure nothing is to be kept. *)
LEMMA UnsureKeeps ==
  ASSUME ~FlashSure, UNCHANGED << fcall, known >>
  PROVE  (ChipListens /\ DoneSoFar)'
  BY SureStays DEF ChipListens, DoneSoFar, ErasesOnce, Programmed, Fetched

(* A call that is sure finds the chip listening. *)
LEMMA BeginKeeps ==
  ASSUME MemoryInv, NEW op \in {"write", "erase", "read"},
         NEW a \in Addresses, NEW n \in 1 .. FlashSize - a,
         NEW d \in [1 .. n -> FlashByte], FBegin(op, a, d)
  PROVE  (ChipListens /\ DoneSoFar)' /\ Flash!Next
<1>1. /\ n \in Nat \ {0} /\ a \in Nat /\ a + n <= FlashSize
      /\ FlashSize \in Nat
  BY SpiFlashConstantsOK DEF Addresses
<1>2. d \in Seq(FlashByte) /\ Len(d) = n
  BY <1>1
<1>3. /\ fpc = "idle" /\ fpc' \in {"enable", "read"}
      /\ fat' = 0 /\ got' = got /\ fresult' = FResult(TRUE, << >>)
      /\ flash' = flash /\ busy' = busy /\ known' = known
      /\ fcall' = [op |-> op, addr |-> a, data |-> d]
  BY DEF FBegin, chip
<1>4. fcall'.op = op /\ fcall'.addr = a /\ fcall'.data = d
  BY <1>3
<1>5. ChipListens'
  <2>1. fcall.op = "none"
    BY <1>3, NoCallProps DEF MemoryInv, TypeInv, CallOK
  <2>2. FlashSure' => FlashSure
    BY <1>3, <2>1 DEF FlashSure
  <2>3. FlashSure' => ~busy'
    BY <1>3, <2>2 DEF ChipListens, MemoryInv
  <2>4. QED
    BY <1>3, <2>3 DEF ChipListens
<1>6. ErasesOnce'
  BY <1>3 DEF ErasesOnce
<1>7. Programmed'
  BY <1>3 DEF Programmed
<1>8. Fetched'
  <2>1. Len(got') = 0
    BY <1>3 DEF MemoryInv, TypeInv, FlashTypeOK
  <2>2. QED
    BY <2>1 DEF Fetched
<1>9. Flash!Next
  <2>1. fcall = Flash!NoCall
    BY <1>3 DEF MemoryInv, TypeInv, CallOK, FNoCall, Flash!NoCall
  <2>2. fresult' = Flash!Result(TRUE, << >>)
    BY <1>3 DEF FResult, Flash!Result
  <2>3. fcall'.addr \in 0 .. FlashSize - 1
    BY <1>4 DEF Addresses
  <2>4. fcall'.addr + Len(fcall'.data) <= FlashSize
    BY <1>1, <1>2, <1>4
  <2>5. Flash!Begin
    BY <1>3, <1>4, <2>1, <2>2, <2>3, <2>4 DEF Flash!Begin
  <2>6. QED
    BY <2>5, SureBoolean DEF Flash!Next
<1>10. QED
  BY <1>5, <1>6, <1>7, <1>8, <1>9 DEF DoneSoFar

(* The transfers of the calls. *)
CallTransfer ==
  \/ nk_spiflash_write_enable \/ WriteCommand \/ EraseCommand \/ EraseInvalid
  \/ Poll \/ ReadCommand

(* A transfer of a call that is sure keeps the chip listening and the bytes *)
(* done, and is a step of the memory or does not show.  One step of the     *)
(* proof for each action.                                                   *)
LEMMA SureStep ==
  ASSUME MemoryInv, FlashSure, CallTransfer
  PROVE  (ChipListens /\ DoneSoFar)' /\ [Flash!Next]_(Flash!vars)
<1> USE DEF MemoryInv
<1>1. CASE nk_spiflash_write_enable
  <2>1. PICK ok \in BOOLEAN :
          /\ fpc = "enable"
          /\ Transfer(ok, Enable)
          /\ fstatus' = (fstatus /\ ok)
          /\ fpc' = "command"
          /\ UNCHANGED << fcall, fat, polls, got, fresult, known >>
    BY <1>1 DEF nk_spiflash_write_enable
  <2>2. ~busy
    BY <2>1 DEF ChipListens
  <2>3. flash' = flash /\ busy' = busy /\ (ok => write_enabled')
    BY <2>1, <2>2 DEF Transfer, Enable, chip
  <2>4. ChipListens'
    <3>1. fstatus' => ok
      BY <2>1
    <3>2. QED
      BY <2>1, <2>2, <2>3, <3>1 DEF ChipListens
  <2>5. ErasesOnce'
    BY <2>1 DEF DoneSoFar, ErasesOnce
  <2>6. Programmed'
    BY <2>1, <2>3 DEF DoneSoFar, Programmed
  <2>7. Fetched'
    BY <2>1, <2>3 DEF DoneSoFar, Fetched
  <2>8. UNCHANGED Flash!vars
    BY <2>1, <2>3, Unseen
  <2>9. QED
    BY <2>4, <2>5, <2>6, <2>7, <2>8 DEF DoneSoFar
<1>2. CASE EraseInvalid
  <2>1. /\ fpc = "enable" /\ fcall.op = "erase"
        /\ Return(FALSE, << >>) /\ flash' = flash
    BY <1>2 DEF EraseInvalid, chip
  <2>2. (ChipListens /\ DoneSoFar)'
    BY <2>1, FailKeeps
  <2>3. flash' = Flash!Done(0) /\ 0 \in 0 .. Len(fcall.data)
    BY <2>1, DoneNone
  <2>4. fcall # FNoCall
    BY <2>1, AddressProps DEF TypeInv
  <2>5. Flash!Next
    BY <2>1, <2>3, <2>4, Fails
  <2>6. QED
    BY <2>2, <2>5
<1>3. CASE WriteCommand
  <2> DEFINE d == SubSeq(fcall.data, fat + 1, fat + transfer_len)
             m == fat + transfer_len
  <2>1. PICK ok \in BOOLEAN :
          /\ fpc = "command" /\ fcall.op = "write"
          /\ Transfer(ok, ProgramPage(address, d))
          /\ IF ok /\ fstatus
               THEN fpc' = "poll" /\ UNCHANGED << fcall, fat, fstatus, polls,
                                                  got, fresult, known >>
               ELSE Return(FALSE, << >>)
    BY <1>3 DEF WriteCommand
  <2>2. Programmed /\ fcall # FNoCall
    BY <2>1, AddressProps DEF DoneSoFar, TypeInv
  <2>3. /\ Burned(address, d) = Flash!Done(m)
        /\ \A k \in 1 .. m :
             Burned(address, d)[fcall.addr + k - 1] \subseteq fcall.data[k]
    BY <2>1, <2>2, BurnedIsDone
  <2>4. m \in 0 .. Len(fcall.data)
    <3>1. /\ transfer_len \in 1 .. byte_count /\ fat \in Nat
          /\ Len(fcall.data) \in Nat /\ byte_count = Len(fcall.data) - fat
      BY <2>1, TransferLenProps, AddressProps DEF TypeInv
    <3>2. QED
      BY <3>1
  <2> HIDE DEF d
  <2>5. Transfer(ok, Store(Burned(address, d)))
    BY <2>1, CommandStores
  <2> HIDE DEF m
  <2>6. CASE ok /\ fstatus
    <3>1. fpc' = "poll" /\ UNCHANGED << fcall, fat, fstatus, polls, got,
                                        fresult, known >>
      BY <2>1, <2>6
    <3>2. Accepts
      BY <2>1, <2>6 DEF ChipListens, Accepts
    <3>3. flash' = Burned(address, d)
      BY <2>5, <2>6, <3>2, StoreProps
    <3>4. ChipListens' /\ ErasesOnce'
      BY <2>1, <3>1 DEF ChipListens, ErasesOnce, DoneSoFar
    <3>5. Programmed'
      <4>1. fat' + transfer_len' = m
        BY <3>1 DEF m, transfer_len, address, byte_count
      <4>2. \A k \in 1 .. m :
              flash'[fcall'.addr + k - 1] \subseteq fcall'.data[k]
        BY <2>3, <3>1, <3>3
      <4>3. QED
        BY <3>1, <4>1, <4>2 DEF Programmed
    <3>6. Fetched'
      <4>1. Len(got') = 0
        BY <2>1, <3>1 DEF TypeInv, FlashTypeOK
      <4>2. QED
        BY <4>1 DEF Fetched
    <3>7. Flash!Next
      BY <2>2, <2>3, <2>4, <3>1, <3>3, Advances
    <3>8. QED
      BY <3>4, <3>5, <3>6, <3>7 DEF DoneSoFar
  <2>7. CASE ~(ok /\ fstatus)
    <3>1. Return(FALSE, << >>)
      BY <2>1, <2>7
    <3>2. (ChipListens /\ DoneSoFar)'
      BY <2>1, <3>1, FailKeeps
    <3>3. flash' = Burned(address, d) \/ flash' = flash
      BY <2>5, StoreProps
    <3>4. flash' = Flash!Done(m) \/ flash' = Flash!Done(0)
      BY <2>1, <2>3, <3>3, DoneNone
    <3>5. 0 \in 0 .. Len(fcall.data)
      BY <2>1, DoneNone
    <3>6. Flash!Next
      BY <2>2, <2>4, <3>1, <3>4, <3>5, Fails
    <3>7. QED
      BY <3>2, <3>6
  <2>8. QED
    BY <2>6, <2>7
<1>4. CASE EraseCommand
  <2> DEFINE size == Max(Fitting)
             m == Len(fcall.data)
  <2>1. PICK ok \in BOOLEAN :
          /\ fpc = "command" /\ fcall.op = "erase"
          /\ Transfer(ok, EraseUnit(address, size))
          /\ CASE ~(ok /\ fstatus) -> Return(FALSE, << >>)
               [] ok /\ fstatus /\ size = byte_count -> Return(TRUE, << >>)
               [] OTHER -> /\ fpc' = "enable"
                           /\ fat' = fat + size
                           /\ UNCHANGED << fcall, fstatus, polls, got, fresult,
                                           known >>
    BY <1>4 DEF EraseCommand
  <2>2. fat = 0 /\ OneUnit(fcall.addr, Len(fcall.data))
    BY <2>1 DEF DoneSoFar, ErasesOnce, FlashSure
  <2>3. size = byte_count
    <3>1. /\ size \in 1 .. byte_count /\ \A s \in Fitting : s <= size
          /\ Fitting # {}
      BY <2>1, FittingProps DEF TypeInv, CallOK
    <3>2. /\ address = fcall.addr + fat /\ byte_count = Len(fcall.data) - fat
          /\ fcall.addr \in Nat /\ Len(fcall.data) \in Nat
      BY <2>1, AddressProps DEF TypeInv
    <3>3. address = fcall.addr /\ byte_count = Len(fcall.data)
      BY <2>2, <3>2
    <3>4. byte_count \in Fitting
      BY <2>2, <3>1, <3>3 DEF OneUnit, Fitting
    <3> HIDE DEF size
    <3>5. byte_count <= size
      BY <3>1, <3>4
    <3>6. QED
      BY <3>1, <3>2, <3>3, <3>5
  <2>4. Cleared(address, size) = Flash!Done(m)
    BY <2>1, <2>2, <2>3, ClearedIsDone
  <2>5. Transfer(ok, Store(Cleared(address, size)))
    BY <2>1, CommandStores
  <2>6. fcall # FNoCall /\ m \in 0 .. Len(fcall.data)
    BY <2>1, AddressProps DEF TypeInv
  <2> HIDE DEF size
  <2>7. CASE ok /\ fstatus
    <3>1. Return(TRUE, << >>)
      BY <2>1, <2>3, <2>7
    <3>2. (ChipListens /\ DoneSoFar)'
      BY <2>1, <3>1, ReturnKeeps
    <3>3. Accepts
      BY <2>1, <2>7 DEF ChipListens, Accepts
    <3>4. flash' = Flash!Done(m)
      BY <2>4, <2>5, <2>7, <3>3, StoreProps
    <3>5. Flash!Next
      BY <2>1, <2>6, <3>1, <3>4, Succeeds
    <3>6. QED
      BY <3>2, <3>5
  <2>8. CASE ~(ok /\ fstatus)
    <3>1. Return(FALSE, << >>)
      BY <2>1, <2>8
    <3>2. (ChipListens /\ DoneSoFar)'
      BY <2>1, <3>1, FailKeeps
    <3>3. flash' = Flash!Done(m) \/ flash' = Flash!Done(0)
      BY <2>1, <2>4, <2>5, StoreProps, DoneNone
    <3>4. 0 \in 0 .. Len(fcall.data)
      BY <2>1, DoneNone
    <3> HIDE DEF m
    <3>5. Flash!Next
      BY <2>6, <3>1, <3>3, <3>4, Fails
    <3>6. QED
      BY <3>2, <3>5
  <2>9. QED
    BY <2>7, <2>8
<1>5. CASE Poll
  <2>1. PICK ok \in BOOLEAN :
          /\ fpc = "poll"
          /\ Transfer(ok, UNCHANGED chip)
          /\ \/ Return(FALSE, << >>)
             \/ /\ ~busy /\ transfer_len = byte_count
                /\ Return(TRUE, << >>)
             \/ /\ polls' = polls + 1
                /\ UNCHANGED << fpc, fcall, fat, fstatus, got, fresult,
                                known >>
             \/ /\ ~busy
                /\ fpc' = "enable"
                /\ fat' = fat + transfer_len
                /\ polls' = 0
                /\ UNCHANGED << fcall, fstatus, got, fresult, known >>
    <3>1. PICK ok \in BOOLEAN :
            /\ fpc = "poll"
            /\ Transfer(ok, UNCHANGED chip)
            /\ CASE ~ok \/ (busy /\ polls = BusyTimeout - 1) ->
                      Return(FALSE, << >>)
                 [] ok /\ busy /\ polls < BusyTimeout - 1 ->
                      /\ polls' = polls + 1
                      /\ UNCHANGED << fpc, fcall, fat, fstatus, got, fresult,
                                      known >>
                 [] ok /\ ~busy /\ transfer_len = byte_count ->
                      Return(TRUE, << >>)
                 [] OTHER -> /\ fpc' = "enable"
                             /\ fat' = fat + transfer_len
                             /\ polls' = 0
                             /\ UNCHANGED << fcall, fstatus, got, fresult,
                                             known >>
      BY <1>5 DEF Poll
    <3>2. polls < BusyTimeout - 1 \/ polls = BusyTimeout - 1
      BY SpiFlashConstantsOK DEF TypeInv, FlashTypeOK
    <3>3. QED
      BY <3>1, <3>2
  <2>2. /\ fcall.op = "write" /\ fcall # FNoCall
        /\ flash' = flash /\ busy' = busy /\ write_enabled' = write_enabled
    BY <2>1, ChipUnchanged, AddressProps DEF TypeInv, CallOK
  <2>3. \A k \in 1 .. fat + transfer_len :
          flash[fcall.addr + k - 1] \subseteq fcall.data[k]
    BY <2>1, <2>2 DEF DoneSoFar, Programmed
  <2>4. CASE Return(FALSE, << >>)
    <3>1. (ChipListens /\ DoneSoFar)'
      BY <2>2, <2>4, FailKeeps
    <3>2. flash' = Flash!Done(0) /\ 0 \in 0 .. Len(fcall.data)
      BY <2>1, <2>2, DoneNone
    <3>3. Flash!Next
      BY <2>2, <2>4, <3>2, Fails
    <3>4. QED
      BY <3>1, <3>3
  <2>5. CASE ~busy /\ transfer_len = byte_count /\ Return(TRUE, << >>)
    <3>1. (ChipListens /\ DoneSoFar)'
      BY <2>2, <2>5, ReturnKeeps
    <3>2. flash' = Flash!Done(Len(fcall.data))
      <4> DEFINE m == Len(fcall.data)
      <4>1. byte_count = m - fat /\ m \in Nat /\ fat \in Nat
        BY <2>1, AddressProps DEF TypeInv
      <4>2. fat + transfer_len = m
        BY <2>5, <4>1
      <4> HIDE DEF m
      <4>3. \A k \in 1 .. m : flash[fcall.addr + k - 1] \subseteq fcall.data[k]
        BY <2>3, <4>2
      <4>4. Flash!Done(m) = flash
        BY <2>1, <2>2, <4>1, <4>3, DoneAlready
      <4>5. QED
        BY <2>2, <4>4 DEF m
    <3>3. Flash!Next
      BY <2>2, <2>5, <3>2, Succeeds
    <3>4. QED
      BY <3>1, <3>3
  <2>6. CASE UNCHANGED << fpc, fcall, fat, fstatus, got, fresult, known >>
    <3>1. ChipListens' /\ ErasesOnce' /\ Fetched'
      <4>1. ChipListens' /\ ErasesOnce'
        BY <2>1, <2>6 DEF ChipListens, ErasesOnce, DoneSoFar
      <4>2. Fetched'
        BY <2>2, <2>6 DEF Fetched, DoneSoFar
      <4>3. QED
        BY <4>1, <4>2
    <3>2. Programmed'
      <4>1. transfer_len' = transfer_len
        BY <2>6 DEF transfer_len, address, byte_count
      <4>2. QED
        BY <2>2, <2>6, <4>1 DEF Programmed, DoneSoFar
    <3>3. UNCHANGED Flash!vars
      BY <2>2, <2>6, Unseen
    <3>4. QED
      BY <3>1, <3>2, <3>3 DEF DoneSoFar
  <2>7. CASE /\ ~busy
             /\ fpc' = "enable"
             /\ fat' = fat + transfer_len
             /\ polls' = 0
             /\ UNCHANGED << fcall, fstatus, got, fresult, known >>
    <3>1. ChipListens'
      BY <2>2, <2>7 DEF ChipListens
    <3>2. ErasesOnce'
      BY <2>2, <2>7 DEF ErasesOnce
    <3>3. Programmed'
      <4> DEFINE m == fat + transfer_len
      <4>1. \A k \in 1 .. m :
              flash'[fcall'.addr + k - 1] \subseteq fcall'.data[k]
        BY <2>2, <2>3, <2>7
      <4>2. fat' = m /\ fpc' = "enable"
        BY <2>7
      <4> HIDE DEF m
      <4>3. QED
        BY <4>1, <4>2 DEF Programmed
    <3>4. Fetched'
      BY <2>2, <2>7 DEF Fetched, DoneSoFar
    <3>5. UNCHANGED Flash!vars
      BY <2>2, <2>7, Unseen
    <3>6. QED
      BY <3>1, <3>2, <3>3, <3>4, <3>5 DEF DoneSoFar
  <2>8. QED
    BY <2>1, <2>4, <2>5, <2>6, <2>7
<1>6. CASE ReadCommand
  <2> DEFINE bytes == [k \in 1 .. transfer_len |->
                         IF busy THEN FlashErased ELSE flash[address + k - 1]]
             m == Len(fcall.data)
             n == transfer_len
  <2>1. PICK ok \in BOOLEAN :
          /\ fpc = "read"
          /\ Transfer(ok, UNCHANGED chip)
          /\ CASE ~ok -> Return(FALSE, << >>)
               [] ok /\ transfer_len = byte_count -> Return(TRUE, got \o bytes)
               [] OTHER -> /\ fat' = fat + transfer_len
                           /\ got' = got \o bytes
                           /\ UNCHANGED << fpc, fcall, fstatus, polls, fresult,
                                           known >>
    BY <1>6 DEF ReadCommand
  <2>2. /\ fcall.op = "read" /\ fcall # FNoCall
        /\ flash' = flash /\ busy' = busy /\ ~busy
        /\ Flash!Done(0) = flash /\ 0 \in 0 .. m
    BY <2>1, ChipUnchanged, AddressProps, DoneNone
       DEF TypeInv, CallOK, ChipListens
  <2>3. /\ fat \in Nat /\ m \in Nat /\ byte_count = m - fat
        /\ fcall.addr \in Nat /\ address = fcall.addr + fat
        /\ n \in 1 .. byte_count
    BY <2>1, TransferLenProps, AddressProps DEF TypeInv
  <2>4. got \in Seq(FlashByte) /\ Len(got) = fat
    BY <2>1 DEF TypeInv, FlashTypeOK
  <2>5. /\ got \o bytes = [k \in 1 .. fat + n |-> flash[fcall.addr + k - 1]]
        /\ Len(got \o bytes) = fat + n
    <3> DEFINE s == got \o bytes
    <3>1. bytes \in Seq(FlashByte) /\ Len(bytes) = n
      <4>1. ASSUME NEW k \in 1 .. n
            PROVE  flash[address + k - 1] \in FlashByte
        <5>1. /\ address \in Nat /\ address + byte_count <= FlashSize
              /\ byte_count \in Nat
          BY <2>1, AddressProps DEF TypeInv, Addresses
        <5> HIDE DEF n
        <5>2. k \in Nat \ {0} /\ k <= byte_count
          BY <2>3, <4>1, <5>1
        <5>3. address + k - 1 \in 0 .. FlashSize - 1
          BY <5>1, <5>2, SpiFlashConstantsOK
        <5>4. QED
          BY <5>3 DEF TypeInv, FlashTypeOK, Addresses
      <4>2. bytes \in [1 .. n -> FlashByte] /\ n \in Nat
        BY <2>2, <2>3, <4>1
      <4> HIDE DEF n, bytes
      <4>3. QED
        BY <4>2
    <3>2. \A k \in 1 .. n : bytes[k] = flash[address + k - 1]
      BY <2>2
    <3>3. \A k \in 1 .. fat : got[k] = flash[fcall.addr + k - 1]
      BY <2>4 DEF DoneSoFar, Fetched
    <3> HIDE DEF bytes, n, m
    <3>4. /\ s \in Seq(FlashByte) /\ Len(s) = fat + n
          /\ \A k \in 1 .. fat + n :
               s[k] = IF k <= fat THEN got[k] ELSE bytes[k - fat]
      BY <2>3, <2>4, <3>1, ConcatProperties
    <3> HIDE DEF s
    <3>5. ASSUME NEW k \in 1 .. fat + n
          PROVE  s[k] = flash[fcall.addr + k - 1]
      <4>1. CASE k <= fat
        <5>1. k \in 1 .. fat
          BY <2>3, <3>5, <4>1
        <5>2. QED
          BY <3>3, <3>4, <4>1, <5>1
      <4>2. CASE ~(k <= fat)
        <5>1. k - fat \in 1 .. n
          BY <2>3, <3>5, <4>2
        <5>2. address + (k - fat) - 1 = fcall.addr + k - 1
          BY <2>3, <3>5
        <5>3. s[k] = bytes[k - fat]
          BY <3>4, <4>2
        <5>4. bytes[k - fat] = flash[address + (k - fat) - 1]
          BY <3>2, <5>1
        <5>5. QED
          BY <5>2, <5>3, <5>4
      <4>3. QED
        BY <4>1, <4>2
    <3>6. s = [k \in 1 .. fat + n |-> s[k]]
      <4>1. s \in [1 .. Len(s) -> FlashByte]
        BY <3>4, LenProperties
      <4>2. QED
        BY <3>4, <4>1
    <3>7. QED
      BY <3>4, <3>5, <3>6 DEF s
  <2> HIDE DEF bytes
  <2>6. CASE ~ok
    <3>1. Return(FALSE, << >>)
      BY <2>1, <2>6
    <3>2. (ChipListens /\ DoneSoFar)'
      BY <2>2, <3>1, ReturnKeeps
    <3>3. flash' = Flash!Done(0) /\ 0 \in 0 .. Len(fcall.data)
      BY <2>2
    <3>4. Flash!Next
      BY <2>2, <3>1, <3>3, Fails
    <3>5. QED
      BY <3>2, <3>4
  <2>7. CASE ok /\ transfer_len = byte_count
    <3>1. Return(TRUE, got \o bytes)
      BY <2>1, <2>7
    <3>2. (ChipListens /\ DoneSoFar)'
      BY <2>2, <3>1, ReturnKeeps
    <3>3. fat + n = m
      BY <2>3, <2>7
    <3>4. got \o bytes = Flash!Contents
      BY <2>5, <3>3 DEF Flash!Contents
    <3>5. flash' = Flash!Done(Len(fcall.data))
      <4>1. Flash!Done(m) = flash
        BY <2>1, <2>2, <2>3, DoneAlready
      <4>2. QED
        BY <2>2, <4>1
    <3>6. Flash!Next
      BY <2>2, <3>1, <3>4, <3>5, ReadsContents
    <3>7. QED
      BY <3>2, <3>6
  <2>8. CASE ok /\ transfer_len # byte_count
    <3>1. /\ fat' = fat + transfer_len /\ got' = got \o bytes
          /\ UNCHANGED << fpc, fcall, fstatus, polls, fresult, known >>
      BY <2>1, <2>8
    <3>2. ChipListens'
      BY <2>1, <2>2, <3>1 DEF ChipListens
    <3>3. ErasesOnce' /\ Programmed'
      BY <2>2, <3>1 DEF ErasesOnce, Programmed
    <3>4. Fetched'
      <4> DEFINE s == got \o bytes
      <4>1. \A k \in 1 .. Len(s) : s[k] = flash[fcall.addr + k - 1]
        BY <2>5
      <4>2. got' = s /\ fcall' = fcall /\ flash' = flash
        BY <2>2, <3>1
      <4> HIDE DEF s
      <4>3. QED
        BY <4>1, <4>2 DEF Fetched
    <3>5. UNCHANGED Flash!vars
      BY <2>2, <3>1, Unseen
    <3>6. QED
      BY <3>2, <3>3, <3>4, <3>5 DEF DoneSoFar
  <2>9. QED
    BY <2>6, <2>7, <2>8
<1>7. QED
  BY <1>1, <1>2, <1>3, <1>4, <1>5, <1>6 DEF CallTransfer

(* A transfer of a call that is not sure does some of what was asked, and  *)
(* nothing else.                                                           *)
LEMMA UnsureStep ==
  ASSUME MemoryInv, ~FlashSure, CallTransfer, TypeInv'
  PROVE  (ChipListens /\ DoneSoFar)' /\ [Flash!Next]_(Flash!vars)
<1> USE DEF MemoryInv
<1>1. /\ fpc \notin {"idle", "wait"} /\ fcall # FNoCall
      /\ fcall.op \in {"write", "erase", "read"}
      /\ flash' \in [Addresses -> FlashByte]
  <2>1. fpc \in {"enable", "command", "poll", "read"}
    BY DEF CallTransfer, nk_spiflash_write_enable, WriteCommand, EraseCommand,
           EraseInvalid, Poll, ReadCommand
  <2>2. QED
    BY <2>1, AddressProps DEF TypeInv, FlashTypeOK
<1>2. Within(flash)
  BY DEF Within
<1>3. ASSUME NEW ok \in BOOLEAN, NEW d, Return(ok, d), Within(flash'),
             ok /\ fcall.op = "write" => ~busy'
      PROVE  (ChipListens /\ DoneSoFar)' /\ Flash!Next
  <2>1. (ChipListens /\ DoneSoFar)'
    BY <1>1, <1>3, ReturnKeeps
  <2>2. fcall' = FNoCall
    BY <1>3 DEF Return
  <2>3. QED
    BY <1>1, <1>3, <2>1, <2>2, DoesSome
<1>4. ASSUME UNCHANGED << fcall, fresult, known >>, Within(flash')
      PROVE  (ChipListens /\ DoneSoFar)' /\ Flash!Next
  BY <1>1, <1>4, UnsureKeeps, DoesSome
<1>5. CASE nk_spiflash_write_enable
  <2>1. PICK ok \in BOOLEAN :
          Transfer(ok, Enable) /\ UNCHANGED << fcall, fresult, known >>
    BY <1>5 DEF nk_spiflash_write_enable
  <2>2. flash' = flash
    BY <2>1 DEF Transfer, Enable, chip
  <2>3. QED
    BY <1>2, <1>4, <2>1, <2>2
<1>6. CASE EraseInvalid
  <2>1. Return(FALSE, << >>) /\ flash' = flash
    BY <1>6 DEF EraseInvalid, chip
  <2>2. QED
    BY <1>2, <1>3, <2>1
<1>7. CASE WriteCommand
  <2> DEFINE d == SubSeq(fcall.data, fat + 1, fat + transfer_len)
  <2>1. PICK ok \in BOOLEAN :
          /\ fpc = "command" /\ fcall.op = "write"
          /\ Transfer(ok, ProgramPage(address, d))
          /\ \/ UNCHANGED << fcall, fresult, known >>
             \/ Return(FALSE, << >>)
    BY <1>7 DEF WriteCommand
  <2>2. Within(Burned(address, d))
    BY <2>1, BurnedWithin
  <2> HIDE DEF d
  <2>3. flash' = Burned(address, d) \/ flash' = flash
    BY <2>1, CommandStores, StoreProps
  <2>4. Within(flash')
    BY <1>2, <2>2, <2>3
  <2>5. QED
    BY <1>3, <1>4, <2>1, <2>4
<1>8. CASE EraseCommand
  <2> DEFINE size == Max(Fitting)
  <2>1. PICK ok \in BOOLEAN :
          /\ fpc = "command" /\ fcall.op = "erase"
          /\ Transfer(ok, EraseUnit(address, size))
          /\ \/ UNCHANGED << fcall, fresult, known >>
             \/ Return(FALSE, << >>)
             \/ Return(TRUE, << >>)
    BY <1>8 DEF EraseCommand
  <2>2. Within(Cleared(address, size))
    BY <2>1, ClearedWithin
  <2> HIDE DEF size
  <2>3. flash' = Cleared(address, size) \/ flash' = flash
    BY <2>1, CommandStores, StoreProps
  <2>4. Within(flash')
    BY <1>2, <2>2, <2>3
  <2>5. QED
    BY <1>3, <1>4, <2>1, <2>4
<1>9. CASE Poll
  <2>1. PICK ok \in BOOLEAN :
          /\ Transfer(ok, UNCHANGED chip)
          /\ \/ UNCHANGED << fcall, fresult, known >>
             \/ Return(FALSE, << >>)
             \/ ~busy /\ Return(TRUE, << >>)
    BY <1>9 DEF Poll
  <2>2. flash' = flash /\ busy' = busy
    BY <2>1, ChipUnchanged
  <2>3. QED
    BY <1>2, <1>3, <1>4, <2>1, <2>2
<1>10. CASE ReadCommand
  <2>1. PICK ok \in BOOLEAN :
          /\ fpc = "read" /\ Transfer(ok, UNCHANGED chip)
          /\ \/ UNCHANGED << fcall, fresult, known >>
             \/ Return(FALSE, << >>)
             \/ \E d : Return(TRUE, d)
    BY <1>10 DEF ReadCommand
  <2>2. flash' = flash /\ fcall.op = "read"
    BY <2>1, ChipUnchanged DEF TypeInv, CallOK
  <2>3. QED
    BY <1>2, <1>3, <1>4, <2>1, <2>2
<1>11. QED
  BY <1>5, <1>6, <1>7, <1>8, <1>9, <1>10 DEF CallTransfer


(* Every step keeps the chip listening and the bytes done, and is one of   *)
(* the memory or does not show.                                            *)
LEMMA MemoryStep ==
  ASSUME MemoryInv, [FlashNext]_fvars
  PROVE  (ChipListens /\ DoneSoFar)' /\ [Flash!Next]_(Flash!vars)
<1> USE DEF MemoryInv
<1>1. CASE FlashCall
  <2>0. \E a \in Addresses :
          \E n \in 1 .. FlashSize - a :
            \/ \E d \in [1 .. n -> FlashByte] : nk_spiflash_write(a, d)
            \/ nk_spiflash_read(a, n)
            \/ nk_spiflash_erase(a, n)
    BY <1>1 DEF FlashCall
  <2>1. PICK a \in Addresses :
          \E n \in 1 .. FlashSize - a :
            \/ \E d \in [1 .. n -> FlashByte] : nk_spiflash_write(a, d)
            \/ nk_spiflash_read(a, n)
            \/ nk_spiflash_erase(a, n)
    BY <2>0
  <2>2. PICK n \in 1 .. FlashSize - a :
            \/ \E d \in [1 .. n -> FlashByte] : nk_spiflash_write(a, d)
            \/ nk_spiflash_read(a, n)
            \/ nk_spiflash_erase(a, n)
    BY <2>1
  <2>3. Zeros(n) \in [1 .. n -> FlashByte]
    BY DEF Zeros, FlashByte
  <2>4. CASE \E d \in [1 .. n -> FlashByte] : nk_spiflash_write(a, d)
    BY <2>1, <2>2, <2>4, BeginKeeps DEF nk_spiflash_write
  <2>5. CASE nk_spiflash_read(a, n)
    BY <2>1, <2>2, <2>3, <2>5, BeginKeeps DEF nk_spiflash_read
  <2>6. CASE nk_spiflash_erase(a, n)
    BY <2>1, <2>2, <2>3, <2>6, BeginKeeps DEF nk_spiflash_erase
  <2>7. QED
    BY <2>2, <2>4, <2>5, <2>6
<1>2. CASE nk_spiflash_busy_wait
  <2>1. /\ fpc = "idle" /\ fpc' = "wait"
        /\ UNCHANGED << flash, busy, write_enabled, fcall, fat, fstatus, polls,
                        got, fresult, known, faults >>
    BY <1>2 DEF nk_spiflash_busy_wait, chip
  <2>2. FlashSure' = FlashSure
    BY <2>1, SureStays
  <2>3. ChipListens'
    BY <2>1, <2>2 DEF ChipListens
  <2>4. ErasesOnce' /\ Fetched'
    BY <2>1, <2>2 DEF DoneSoFar, ErasesOnce, Fetched
  <2>5. Programmed'
    BY <2>1, <2>2 DEF DoneSoFar, Programmed
  <2>6. UNCHANGED Flash!vars
    BY <2>1, Unseen
  <2>7. QED
    BY <2>3, <2>4, <2>5, <2>6 DEF DoneSoFar
<1>3. CASE CallTransfer
  <2>1. TypeInv'
    BY TypeStep
  <2>2. QED
    BY <1>3, <2>1, SureStep, UnsureStep
<1>4. CASE BusyWait
  <2>1. PICK ok \in BOOLEAN :
          /\ fpc = "wait" /\ Transfer(ok, UNCHANGED chip)
          /\ fpc' \in {"idle", "wait"}
          /\ known' = known \/ ~busy
          /\ UNCHANGED << fcall, fat, fstatus, got, fresult >>
    <3>1. PICK ok \in BOOLEAN :
            /\ fpc = "wait" /\ Transfer(ok, UNCHANGED chip)
            /\ IF ok /\ busy /\ polls < BusyTimeout - 1
                 THEN polls' = polls + 1 /\ UNCHANGED << fpc, known >>
                 ELSE /\ fpc' = "idle"
                      /\ polls' = 0
                      /\ known' = IF ok /\ ~busy THEN "ready" ELSE known
            /\ UNCHANGED << fcall, fat, fstatus, got, fresult >>
      BY <1>4 DEF BusyWait
    <3>2. QED
      BY <3>1
  <2>2. flash' = flash /\ busy' = busy
    BY <2>1, ChipUnchanged
  <2>3. fcall = FNoCall /\ fcall.op = "none" /\ Len(got) = 0
    BY <2>1, NoCallProps DEF TypeInv, CallOK, FlashTypeOK
  <2>4. ChipListens'
    <3>1. known = "ready" => FlashSure
      BY <2>3 DEF FlashSure
    <3>2. known' = "ready" => ~busy'
      BY <2>1, <2>2, <3>1 DEF ChipListens
    <3>3. QED
      BY <2>1, <3>2 DEF ChipListens, FlashSure
  <2>5. ErasesOnce' /\ Programmed' /\ Fetched'
    BY <2>1, <2>3 DEF ErasesOnce, Programmed, Fetched
  <2>6. Flash!Next
    <3>1. Flash!Settle
      BY <2>1, <2>2, <2>3 DEF Flash!Settle, Flash!NoCall, FNoCall
    <3>2. QED
      BY <3>1, SureBoolean DEF Flash!Next
  <2>7. QED
    BY <2>4, <2>5, <2>6 DEF DoneSoFar
<1>5. CASE ChipDone
  <2>1. /\ busy /\ ~busy'
        /\ UNCHANGED << flash, fpc, fcall, fat, fstatus, polls, got, fresult,
                        known, faults >>
    BY <1>5 DEF ChipDone
  <2>2. FlashSure' = FlashSure
    BY <2>1, SureStays
  <2>3. ChipListens'
    BY <2>1, <2>2 DEF ChipListens
  <2>4. ErasesOnce' /\ Fetched'
    BY <2>1, <2>2 DEF DoneSoFar, ErasesOnce, Fetched
  <2>5. Programmed'
    <3>1. transfer_len' = transfer_len
      BY <2>1 DEF transfer_len, address, byte_count
    <3>2. QED
      BY <2>1, <2>2, <3>1 DEF DoneSoFar, Programmed
  <2>6. UNCHANGED Flash!vars
    BY <2>1, Unseen
  <2>7. QED
    BY <2>3, <2>4, <2>5, <2>6 DEF DoneSoFar
<1>6. CASE UNCHANGED fvars
  <2>1. UNCHANGED << flash, busy, write_enabled, fpc, fcall, fat, fstatus,
                     got, fresult, known >>
    BY <1>6 DEF fvars
  <2>2. FlashSure' = FlashSure
    BY <2>1, SureStays
  <2>3. ChipListens'
    BY <2>1, <2>2 DEF ChipListens
  <2>4. ErasesOnce' /\ Fetched'
    BY <2>1, <2>2 DEF DoneSoFar, ErasesOnce, Fetched
  <2>5. Programmed'
    <3>1. transfer_len' = transfer_len
      BY <2>1 DEF transfer_len, address, byte_count
    <3>2. QED
      BY <2>1, <2>2, <3>1 DEF DoneSoFar, Programmed
  <2>6. UNCHANGED Flash!vars
    BY <2>1, Unseen
  <2>7. QED
    BY <2>3, <2>4, <2>5, <2>6 DEF DoneSoFar
<1>7. QED
  BY <1>1, <1>2, <1>3, <1>4, <1>5, <1>6
     DEF FlashNext, FlashDriver, CallTransfer

-----------------------------------------------------------------------------
(* Theorems *)

(* The initial state. *)
LEMMA MemoryInit ==
  ASSUME FlashInit
  PROVE  MemoryInv /\ Flash!Init
<1>1. fpc = "idle" /\ fcall = FNoCall /\ fat = 0 /\ got = << >>
  BY DEF FlashInit
<1>2. Len(got) = 0 /\ got \in Seq(FlashByte)
  <2>1. Len(got) = 0
    BY <1>1, EmptySeq
  <2>2. got \in Seq(FlashByte)
    BY <1>1, EmptySeq
  <2>3. QED
    BY <2>1, <2>2
<1>3. /\ fcall.op = "none" /\ fcall.addr = 0 /\ Len(fcall.data) = 0
      /\ fcall.addr \in Addresses
      /\ fcall \in [op : {"none", "write", "erase", "read"}, addr : Addresses,
                    data : Seq(FlashByte)]
  BY <1>1, NoCallProps
<1>4. flash \in [Addresses -> FlashByte]
  BY DEF FlashInit, FlashByte, FlashErased
<1>5. FlashTypeOK
  <2>1. 0 \in 0 .. BusyTimeout - 1 /\ 0 \in 0 .. MaxFaults
    BY SpiFlashConstantsOK
  <2>2. /\ polls \in 0 .. BusyTimeout - 1 /\ faults \in 0 .. MaxFaults
        /\ busy \in BOOLEAN /\ write_enabled \in BOOLEAN
        /\ fstatus \in BOOLEAN /\ known \in {"ready", "erased", "failed"}
    BY <2>1 DEF FlashInit
  <2>3. fcall.addr + Len(fcall.data) <= FlashSize
    BY <1>3, SpiFlashConstantsOK
  <2>4. fat \in 0 .. Len(fcall.data)
    BY <1>1, <1>3
  <2>5. QED
    BY <1>1, <1>2, <1>3, <1>4, <2>2, <2>3, <2>4 DEF FlashTypeOK
<1>6. CallOK
  <2>1. fcall.addr + Len(fcall.data) <= FlashSize
    BY <1>3, SpiFlashConstantsOK
  <2>2. QED
    BY <1>1, <1>3, <2>1 DEF CallOK
<1>7. ChipListens
  BY DEF FlashInit, ChipListens
<1>8. DoneSoFar
  BY <1>2, <1>3 DEF DoneSoFar, ErasesOnce, Programmed, Fetched
<1>9. Flash!Init
  <2>1. FlashSure \in BOOLEAN
    BY SureBoolean
  <2>2. QED
    BY <1>4, <2>1 DEF FlashInit, Flash!Init, Flash!NoCall, FNoCall,
                      Flash!Result, FResult, Addresses
<1>10. QED
  BY <1>5, <1>6, <1>7, <1>8, <1>9 DEF MemoryInv, TypeInv

(* Whatever the callers do, the variables keep their types, a call stays   *)
(* within the flash and the driver within the call.                        *)
THEOREM TypeCorrect == FlashSpec => []FlashTypeOK
<1>1. FlashInit => TypeInv
  BY MemoryInit DEF MemoryInv
<1>2. TypeInv /\ [FlashNext]_fvars => TypeInv'
  BY TypeStep
<1>3. TypeInv => FlashTypeOK
  BY DEF TypeInv
<1>4. QED
  BY <1>1, <1>2, <1>3, PTL DEF FlashSpec

(* Whoever calls, and whatever fails: of a call whose caller could tell    *)
(* that the chip was ready, and that erases a unit at most, no command is  *)
(* sent to a busy chip, and the bytes that the driver counts as written or *)
(* read are.                                                               *)
THEOREM MemoryInvariant == FlashSpec => []MemoryInv
<1>1. FlashInit => MemoryInv
  BY MemoryInit
<1>2. MemoryInv /\ [FlashNext]_fvars => MemoryInv'
  BY TypeStep, MemoryStep DEF MemoryInv
<1>3. QED
  BY <1>1, <1>2, PTL DEF FlashSpec

(* The driver and the chip are a memory: every step of theirs is one of    *)
(* the memory or does not show.                                            *)
THEOREM FlashImplemented == FlashSpec => ImplementsFlash
<1>1. FlashInit => Flash!Init
  BY MemoryInit
<1>2. MemoryInv /\ [FlashNext]_fvars => [Flash!Next]_(Flash!vars)
  BY MemoryStep
<1>3. QED
  BY <1>1, <1>2, MemoryInvariant, PTL
     DEF FlashSpec, ImplementsFlash, Flash!Spec

(* The memories of a board work one at a time: what the flash does is a    *)
(* behaviour of the driver and its chip, so that it is a memory there too. *)
THEOREM BoardImplementsFlash == Spec => ImplementsFlash
<1>1. Init => FlashInit
  BY DEF Init
<1>2. [Next]_vars => [FlashNext]_fvars
  BY DEF Next, vars
<1>3. Spec => FlashSpec
  BY <1>1, <1>2, PTL DEF Spec, FlashSpec
<1>4. QED
  BY <1>3, FlashImplemented

-----------------------------------------------------------------------------
(* Recursion and powers of 2 *)

(* f begins with b, and h takes each value to the next *)
Recurs(f, N, b, h) ==
  f = [k \in 0 .. N |-> IF k = 0 THEN b ELSE h[k][f[k - 1]]]

(* There is a function that is defined by recursion over 0 .. N. *)
LEMMA Recursion ==
  ASSUME NEW N \in Nat, NEW S, NEW b \in S, NEW h \in [1 .. N -> [S -> S]]
  PROVE  \E f \in [0 .. N -> S] : Recurs(f, N, b, h)
<1> DEFINE Rec(f, m) ==
             f = [k \in 0 .. m |-> IF k = 0 THEN b ELSE h[k][f[k - 1]]]
           T == {m \in Nat : m <= N => \E f \in [0 .. m -> S] : Rec(f, m)}
<1>1. 0 \in T
  <2> DEFINE f == [k \in 0 .. 0 |-> b]
  <2>1. f \in [0 .. 0 -> S] /\ Rec(f, 0)
    OBVIOUS
  <2>2. QED
    BY <2>1, Zenon
<1>2. ASSUME NEW m \in Nat, m \in T PROVE m + 1 \in T
  <2> SUFFICES ASSUME m + 1 <= N
               PROVE  \E f \in [0 .. m + 1 -> S] : Rec(f, m + 1)
    OBVIOUS
  <2>1. PICK g \in [0 .. m -> S] : Rec(g, m)
    BY <1>2
  <2> DEFINE f == [k \in 0 .. m + 1 |->
                     IF k = m + 1 THEN h[m + 1][g[m]] ELSE g[k]]
  <2>2. g[m] \in S /\ m + 1 \in 1 .. N
    OBVIOUS
  <2>3. h[m + 1][g[m]] \in S
    BY <2>2
  <2>4. f \in [0 .. m + 1 -> S]
    BY <2>3
  <2>5. ASSUME NEW k \in 0 .. m + 1
        PROVE  f[k] = IF k = 0 THEN b ELSE h[k][f[k - 1]]
    <3>1. CASE k = 0
      <4>1. g[0] = b
        BY <2>1
      <4>2. QED
        BY <3>1, <4>1
    <3>2. CASE k \in 1 .. m
      <4>1. g[k] = h[k][g[k - 1]]
        BY <2>1, <3>2
      <4>2. f[k] = g[k] /\ f[k - 1] = g[k - 1] /\ k # 0
        BY <3>2
      <4>3. QED
        BY <4>1, <4>2, Zenon
    <3>3. CASE k = m + 1
      <4>1. f[k] = h[m + 1][g[m]] /\ f[k - 1] = g[m] /\ k # 0
        BY <3>3
      <4>2. QED
        BY <3>3, <4>1, Zenon
    <3>4. QED
      BY <3>1, <3>2, <3>3
  <2>6. Rec(f, m + 1)
    <3> HIDE DEF f
    <3> DEFINE e == [k \in 0 .. m + 1 |->
                       IF k = 0 THEN b ELSE h[k][f[k - 1]]]
    <3>1. \A k \in 0 .. m + 1 : f[k] = e[k]
      BY <2>5
    <3>2. DOMAIN f = 0 .. m + 1 /\ DOMAIN e = 0 .. m + 1
      BY <2>4
    <3>3. f = [k \in DOMAIN f |-> f[k]] /\ e = [k \in DOMAIN e |-> e[k]]
      BY <2>4
    <3>4. f = e
      BY <3>1, <3>2, <3>3, Zenon
    <3>5. QED
      BY <3>4
  <2>7. QED
    BY <2>4, <2>6, Zenon
<1> HIDE DEF T
<1>3. N \in T
  BY <1>1, <1>2, NatInductive
<1>4. QED
  <2>1. \E f \in [0 .. N -> S] : Rec(f, N)
    BY <1>3 DEF T
  <2>2. QED
    BY <2>1, Zenon DEF Recurs

(* The constants are numbers. *)
LEMMA Widths ==
  /\ Width \in Nat /\ Width >= 2
  /\ EepromSize \in Nat \ {0} /\ ChipPage \in Nat \ {0}
  BY I2cConstantsOK

(* The powers of 2 are positive, and double. *)
LEMMA Powers ==
  /\ Pow2 \in [0 .. Width -> Nat \ {0}]
  /\ Pow2[0] = 1
  /\ \A n \in 0 .. Width - 1 : Pow2[n + 1] = 2 * Pow2[n]
<1> DEFINE P == Nat \ {0}
           h == [k \in 1 .. Width |-> [x \in P |-> 2 * x]]
<1>1. Width \in Nat /\ 1 \in P
  BY Widths
<1>2. h \in [1 .. Width -> [P -> P]]
  OBVIOUS
<1> HIDE DEF P, h
<1>3. PICK f \in [0 .. Width -> P] :
        f = [k \in 0 .. Width |-> IF k = 0 THEN 1 ELSE h[k][f[k - 1]]]
  <2>1. \E f \in [0 .. Width -> P] : Recurs(f, Width, 1, h)
    BY <1>1, <1>2, Recursion
  <2>2. QED
    BY <2>1, Zenon DEF Recurs
<1>4. ASSUME NEW k \in 0 .. Width, k # 0
      PROVE  h[k][f[k - 1]] = 2 * f[k - 1]
  <2>1. k \in 1 .. Width /\ f[k - 1] \in P
    BY <1>1, <1>3, <1>4
  <2>2. QED
    BY <2>1 DEF h
<1> DEFINE e == [k \in 0 .. Width |-> IF k = 0 THEN 1 ELSE h[k][f[k - 1]]]
           g == [k \in 0 .. Width |-> IF k = 0 THEN 1 ELSE 2 * f[k - 1]]
<1>5. e = g
  BY <1>4
<1>6. f = g
  BY <1>3, <1>5
<1> HIDE DEF e
<1>7. Pow2 = [k \in 0 .. Width |-> IF k = 0 THEN 1 ELSE 2 * Pow2[k - 1]]
  BY <1>6, Zenon DEF Pow2
<1>8. ASSUME NEW n \in 0 .. Width - 1
      PROVE  Pow2[n + 1] = 2 * Pow2[n]
  <2>1. n + 1 \in 0 .. Width /\ n + 1 # 0 /\ (n + 1) - 1 = n
    BY <1>1
  <2>2. Pow2[n + 1] = 2 * Pow2[(n + 1) - 1]
    BY <1>7, <2>1
  <2>3. QED
    BY <2>1, <2>2
<1>9. Pow2[0] = 1
  <2>1. 0 \in 0 .. Width
    BY <1>1
  <2>2. QED
    BY <1>7, <2>1
<1>10. DOMAIN Pow2 = 0 .. Width
  BY <1>7
<1> DEFINE T == {n \in Nat : n <= Width => Pow2[n] \in P}
<1>11. 0 \in T
  BY <1>1, <1>9
<1>12. ASSUME NEW n \in Nat, n \in T PROVE n + 1 \in T
  <2> SUFFICES ASSUME n + 1 <= Width PROVE Pow2[n + 1] \in P
    OBVIOUS
  <2>1. Pow2[n] \in P /\ n \in 0 .. Width - 1
    BY <1>1, <1>12
  <2>2. QED
    BY <1>8, <2>1 DEF P
<1> HIDE DEF T
<1>13. \A n \in 0 .. Width : Pow2[n] \in P
  <2>1. Nat \subseteq T
    BY <1>11, <1>12, NatInductive
  <2>2. QED
    BY <2>1 DEF T
<1>14. Pow2 \in [0 .. Width -> P]
  BY <1>7, <1>13
<1>15. QED
  BY <1>8, <1>9, <1>14 DEF P

(* A number is halved when it is divided by twice as much. *)
LEMMA Halves ==
  ASSUME NEW x \in Nat, NEW m \in Nat \ {0}
  PROVE  /\ x \div m \in Nat /\ x \div m <= x
         /\ x \div m = 2 * (x \div (2 * m)) + ((x \div m) % 2)
<1> DEFINE q == x \div m
           r == x % m
           h == q \div 2
           b == q % 2
<1>1. /\ x = m * q + r /\ r \in 0 .. m - 1 /\ q \in Int
  BY DivMod
<1>2. /\ q = 2 * h + b /\ b \in 0 .. 1 /\ h \in Int
  <2> HIDE DEF q
  <2>1. 2 \in Nat \ {0} /\ q \in Int
    BY <1>1
  <2>2. q = 2 * (q \div 2) + (q % 2) /\ q % 2 \in 0 .. 2 - 1
        /\ q \div 2 \in Int
    BY <2>1, DivMod
  <2>3. QED
    BY <2>2
<1>3. q \in Nat /\ q <= x
  <2> HIDE DEF q, r
  <2>1. ~ (q <= -1)
    <3>1. ASSUME q <= -1 PROVE FALSE
      <4>1. -q \in Int /\ -q >= 1
        BY <1>1, <3>1
      <4>2. m * (-q) >= m
        BY <4>1, MultipleAtLeast
      <4>3. m * (-q) = -(m * q)
        BY <1>1
      <4>4. QED
        BY <1>1, <4>2, <4>3
    <3>2. QED
      BY <3>1
  <2>2. q \in Nat /\ m - 1 \in Nat
    BY <1>1, <2>1
  <2>3. (m - 1) * q \in Nat /\ m * q = (m - 1) * q + q
    BY <2>2
  <2>4. QED
    BY <1>1, <2>2, <2>3
<1>4. x \div (2 * m) = h
  <2> DEFINE n == 2 * m
             s == m * b + r
  <2> HIDE DEF q, r, h, b
  <2>1. n \in Nat \ {0}
    OBVIOUS
  <2>2. m * q = n * h + m * b
    <3>1. m * q = m * (2 * h + b)
      BY <1>2
    <3>2. m * (2 * h + b) = m * (2 * h) + m * b
      BY <1>2
    <3>3. m * (2 * h) = (2 * m) * h
      BY <1>2
    <3>4. QED
      BY <3>1, <3>2, <3>3
  <2>3. s \in 0 .. n - 1
    <3>1. CASE b = 0
      BY <1>1, <3>1
    <3>2. CASE b = 1
      BY <1>1, <3>2
    <3>3. QED
      BY <1>2, <3>1, <3>2
  <2>4. x = n * h + s
    <3> HIDE DEF n
    <3>1. n * h \in Int /\ m * b \in Int
      BY <1>2, <2>1
    <3>2. QED
      BY <1>1, <2>2, <3>1
  <2> HIDE DEF n, s
  <2>5. x \div n = h
    BY <1>2, <2>1, <2>3, <2>4, DivUnique
  <2>6. QED
    BY <2>5 DEF n
<1>5. QED
  <2> HIDE DEF q, r, h, b
  <2>1. q = 2 * (x \div (2 * m)) + b
    BY <1>2, <1>4
  <2>2. QED
    BY <1>3, <2>1 DEF q, b

(* the number whose bits are the first k of x *)
High(x, k) == x \div Pow2[Width - k]

(* It grows bit by bit. *)
LEMMA HighProps ==
  ASSUME NEW x \in BusByte, NEW k \in 0 .. Width
  PROVE  /\ High(x, k) \in BusByte
         /\ High(x, 0) = 0 /\ High(x, Width) = x
         /\ k < Width => /\ Bit(x, k + 1) \in {0, 1}
                         /\ High(x, k + 1) = 2 * High(x, k) + Bit(x, k + 1)
<1>1. Width \in Nat /\ x \in Nat /\ x < Pow2[Width]
      /\ Pow2[Width] \in Nat \ {0}
  BY Widths, Powers DEF BusByte
<1>2. Pow2[Width - k] \in Nat \ {0}
  BY <1>1, Powers
<1>3. High(x, k) \in BusByte
  <2>1. High(x, k) \in Nat /\ High(x, k) <= x
    BY <1>1, <1>2, Halves DEF High
  <2>2. QED
    BY <1>1, <2>1 DEF BusByte
<1>4. High(x, 0) = 0
  <2> DEFINE m == Pow2[Width]
  <2>1. m \in Nat \ {0} /\ 0 \in Int /\ x \in 0 .. m - 1 /\ x = m * 0 + x
    BY <1>1
  <2> HIDE DEF m
  <2>2. x \div m = 0
    BY <1>1, <2>1, DivUnique
  <2>3. QED
    BY <1>1, <2>2 DEF High, m
<1>5. High(x, Width) = x
  <2>1. 1 \in Nat \ {0} /\ x \in Int /\ 0 \in 0 .. 1 - 1 /\ x = 1 * x + 0
    BY <1>1
  <2>2. x \div 1 = x
    BY <2>1, DivUnique
  <2>3. QED
    BY <1>1, <2>2, Powers DEF High
<1>6. ASSUME k < Width
      PROVE  /\ Bit(x, k + 1) \in {0, 1}
             /\ High(x, k + 1) = 2 * High(x, k) + Bit(x, k + 1)
  <2> DEFINE n == Width - (k + 1)
             m == Pow2[n]
  <2>1. n \in 0 .. Width - 1 /\ n + 1 = Width - k
    BY <1>1, <1>6
  <2>2. m \in Nat \ {0} /\ Pow2[Width - k] = 2 * m
    <3> HIDE DEF n
    <3>1. n \in 0 .. Width /\ Pow2[n + 1] = 2 * Pow2[n]
      BY <1>1, <2>1, Powers
    <3>2. QED
      BY <2>1, <3>1, Powers
  <2> HIDE DEF m
  <2>3. x \div m = 2 * (x \div (2 * m)) + ((x \div m) % 2) /\ x \div m \in Nat
    BY <1>1, <2>2, Halves
  <2>4. (x \div m) % 2 \in {0, 1}
    BY <2>3
  <2>5. High(x, k + 1) = x \div m /\ Bit(x, k + 1) = (x \div m) % 2
        /\ High(x, k) = x \div (2 * m)
    BY <2>2 DEF High, Bit, m
  <2>6. QED
    BY <2>3, <2>4, <2>5
<1>7. QED
  BY <1>3, <1>4, <1>5, <1>6

-----------------------------------------------------------------------------
(* Sequences of sequences *)

(* The pieces of length m are within their whole. *)
LEMMA PieceIndex ==
  ASSUME NEW m \in Nat \ {0}, NEW n \in Nat
  PROVE  /\ m * n \in Nat /\ m * (n + 1) = m * n + m
         /\ \A k \in 1 .. n, r \in 1 .. m :
              m * (k - 1) + r \in 1 .. m * n
<1>1. m * n \in Nat /\ m * (n + 1) = m * n + m
  OBVIOUS
<1>2. ASSUME NEW k \in 1 .. n, NEW r \in 1 .. m
      PROVE  m * (k - 1) + r \in 1 .. m * n
  <2> DEFINE a == k - 1
             b == n - k
  <2>1. a \in Nat /\ b \in Nat /\ n = (a + 1) + b
    OBVIOUS
  <2> HIDE DEF a, b
  <2>2. m * a \in Nat /\ m * b \in Nat
    BY <2>1
  <2>3. m * ((a + 1) + b) = (m * a + m) + m * b
    BY <2>1
  <2>4. m * n = (m * a + m) + m * b
    BY <2>1, <2>3
  <2>5. m * a + r \in 1 .. m * n
    BY <1>1, <2>2, <2>4
  <2>6. QED
    BY <2>5 DEF a
<1>3. QED
  BY <1>1, <1>2

(* s consists of the first n pieces of ss, of m elements each *)
Pieces(s, S, ss, m, n) ==
  /\ s \in Seq(S) /\ Len(s) = m * n
  /\ \A k \in 1 .. n, r \in 1 .. m : s[m * (k - 1) + r] = ss[k][r]

(* There is one piece more. *)
LEMMA OneMorePiece ==
  ASSUME NEW S, NEW ss, NEW m \in Nat \ {0}, NEW n \in Nat, NEW s,
         Pieces(s, S, ss, m, n),
         NEW p \in Seq(S), p = ss[n + 1], Len(p) = m
  PROVE  Pieces(s \o p, S, ss, m, n + 1)
<1> DEFINE t == s \o p
<1>1. s \in Seq(S) /\ Len(s) = m * n /\ p \in Seq(S) /\ Len(p) = m
  BY DEF Pieces
<1>2. /\ t \in Seq(S) /\ Len(t) = Len(s) + Len(p)
      /\ \A i \in 1 .. Len(s) : t[i] = s[i]
      /\ \A i \in 1 .. Len(p) : t[Len(s) + i] = p[i]
  <2>1. s \in Seq(S)
    BY <1>1
  <2>2. QED
    BY ONLY <2>1, p \in Seq(S), ConcatProps
<1>3. /\ m * n \in Nat /\ m * (n + 1) = m * n + m
      /\ \A k \in 1 .. n, r \in 1 .. m : m * (k - 1) + r \in 1 .. m * n
  BY PieceIndex
<1>4. ASSUME NEW k \in 1 .. n + 1, NEW r \in 1 .. m
      PROVE  t[m * (k - 1) + r] = ss[k][r]
  <2>1. CASE k = n + 1
    <3>1. k - 1 = n
      BY <2>1
    <3>2. t[m * n + r] = p[r]
      BY <1>1, <1>2
    <3>3. QED
      BY <2>1, <3>1, <3>2
  <2>2. CASE k \in 1 .. n
    <3> DEFINE i == m * (k - 1) + r
    <3>1. i \in 1 .. m * n
      BY <1>3, <2>2
    <3>2. s[i] = ss[k][r]
      BY <2>2 DEF Pieces
    <3> HIDE DEF i, t
    <3>3. t[i] = s[i]
      BY <1>1, <1>2, <3>1
    <3>4. QED
      BY <3>2, <3>3 DEF i
  <2>3. k = n + 1 \/ k \in 1 .. n
    OBVIOUS
  <2>4. QED
    BY <2>1, <2>2, <2>3, Zenon
<1> HIDE DEF t
<1>5. Len(t) = m * (n + 1)
  BY <1>1, <1>2, <1>3
<1>6. QED
  BY <1>2, <1>4, <1>5, Zenon DEF Pieces, t

(* Flat puts sequences of the same length one after another. *)
LEMMA FlatIs ==
  ASSUME NEW S, NEW ss \in Seq(Seq(S)), NEW m \in Nat \ {0},
         \A k \in 1 .. Len(ss) : Len(ss[k]) = m
  PROVE  Pieces(Flat(ss), S, ss, m, Len(ss))
<1> DEFINE N == Len(ss)
           Q == Seq(S)
           e == << >>
           h == [k \in 1 .. N |-> [q \in Q |-> q \o ss[k]]]
<1>1. N \in Nat /\ e \in Q /\ \A k \in 1 .. N : ss[k] \in Q
  BY LenProperties, ElementOfSeq
<1>2. h \in [1 .. N -> [Q -> Q]]
  <2>1. \A k \in 1 .. N : \A q \in Q : q \o ss[k] \in Q
    BY <1>1
  <2> HIDE DEF Q, N
  <2>2. QED
    BY <2>1
<1> HIDE DEF N, e, Q, h
<1>3. PICK f \in [0 .. N -> Q] : Recurs(f, N, e, h)
  BY <1>1, <1>2, Recursion
<1>4. ASSUME NEW k \in 0 .. N, k # 0
      PROVE  h[k][f[k - 1]] = f[k - 1] \o ss[k]
  <2>1. k \in 1 .. N /\ f[k - 1] \in Q
    BY <1>1, <1>3, <1>4
  <2>2. QED
    BY <2>1 DEF h
<1> DEFINE u == [k \in 0 .. N |-> IF k = 0 THEN e ELSE h[k][f[k - 1]]]
           g == [k \in 0 .. N |-> IF k = 0 THEN e ELSE f[k - 1] \o ss[k]]
<1>5. u = g
  BY <1>4
<1>6. f = u
  BY <1>3, Zenon DEF Recurs
<1>7. f = g
  BY <1>5, <1>6
<1> HIDE DEF u
<1> DEFINE c == CHOOSE x : x = [k \in 0 .. N |->
                                  IF k = 0 THEN e ELSE x[k - 1] \o ss[k]]
<1>8. c = [k \in 0 .. N |-> IF k = 0 THEN e ELSE c[k - 1] \o ss[k]]
  BY <1>7, Zenon
<1>9. Flat(ss) = c[N]
  BY Zenon DEF Flat, N, e
<1> HIDE DEF c
<1>10. c[0] = e /\ \A k \in 1 .. N : c[k] = c[k - 1] \o ss[k]
  BY <1>1, <1>8
<1> DEFINE T == {n \in Nat : n <= N => Pieces(c[n], S, ss, m, n)}
<1>11. 0 \in T
  <2>1. e \in Seq(S) /\ Len(e) = m * 0
    BY <1>1 DEF e
  <2>2. Pieces(c[0], S, ss, m, 0)
    BY <1>10, <2>1 DEF Pieces
  <2>3. QED
    BY <2>2
<1>12. ASSUME NEW n \in Nat, n \in T PROVE n + 1 \in T
  <2> SUFFICES ASSUME n + 1 <= N PROVE Pieces(c[n + 1], S, ss, m, n + 1)
    OBVIOUS
  <2>1. Pieces(c[n], S, ss, m, n)
    BY <1>1, <1>12
  <2>2. n + 1 \in 1 .. N /\ (n + 1) - 1 = n
    BY <1>1
  <2>3. c[n + 1] = c[n] \o ss[n + 1]
    BY <1>10, <2>2
  <2>4. ss[n + 1] \in Seq(S) /\ Len(ss[n + 1]) = m
    BY <1>1, <2>2 DEF N, Q
  <2>5. QED
    BY <2>1, <2>3, <2>4, OneMorePiece
<1> HIDE DEF T
<1>13. Nat \subseteq T
  BY <1>11, <1>12, NatInductive
<1>14. QED
  BY <1>1, <1>9, <1>13 DEF T, N

-----------------------------------------------------------------------------
(* What a transaction consists of *)

PinOps == {"sda0", "sda1", "scl0", "scl1", "clk", "ack", "bit"}

(* the pin operations of a byte with its acknowledgement, sent or received *)
OutFrame == 2 * Width + 2
InFrame == Width + 3

(* SDA and then the clock, for each bit and for the acknowledgement *)
DataOp(v, k) == IF k <= Width /\ Bit(v, k) # 1 THEN "sda0" ELSE "sda1"
ClockOp(k) == IF k <= Width THEN "clk" ELSE "ack"

(* the operations before the k-th bit of the j-th byte that is sent *)
OutAt(j, k) == 2 + OutFrame * (j - 1) + 2 * (k - 1)

(* the operations before the j-th byte that is received, after m are sent *)
InAt(m, j) == 2 + OutFrame * m + InFrame * (j - 1)

(* p begins with a start and the bytes out *)
SendsOut(p, out) ==
  /\ p[1] = "sda0" /\ p[2] = "scl0"
  /\ \A j \in 1 .. Len(out), k \in 1 .. Width + 1 :
       /\ p[OutAt(j, k) + 1] = DataOp(out[j], k)
       /\ p[OutAt(j, k) + 2] = ClockOp(k)

(* then n bytes are received, the last of which is not acknowledged *)
TakesIn(p, m, n) ==
  \A j \in 1 .. n :
    /\ p[InAt(m, j) + 1] = "sda1"
    /\ \A k \in 1 .. Width : p[InAt(m, j) + k + 1] = "bit"
    /\ p[InAt(m, j) + Width + 2] = IF j < n THEN "sda0" ELSE "sda1"
    /\ p[InAt(m, j) + Width + 3] = "clk"

(* and last comes end *)
EndsWith(p, end) ==
  \A r \in 1 .. Len(end) : p[Len(p) - Len(end) + r] = end[r]

IsTransaction(p, out, n, end) ==
  /\ p \in Seq(PinOps)
  /\ Len(p) = 2 + OutFrame * Len(out) + InFrame * n + Len(end)
  /\ SendsOut(p, out) /\ TakesIn(p, Len(out), n) /\ EndsWith(p, end)

(* A byte, and the acknowledgement that is read. *)
LEMMA AckedIs ==
  ASSUME NEW v
  PROVE  /\ Acked(v) \in Seq(PinOps) /\ Len(Acked(v)) = OutFrame
         /\ \A k \in 1 .. Width + 1 :
              /\ Acked(v)[2 * (k - 1) + 1] = DataOp(v, k)
              /\ Acked(v)[2 * (k - 1) + 2] = ClockOp(k)
<1> DEFINE piece(k) == IF Bit(v, k) = 1 THEN << "sda1", "clk" >>
                                        ELSE << "sda0", "clk" >>
           ss == [k \in 1 .. Width |-> piece(k)]
           u == Flat(ss)
           w == i2c_check_ack
<1>1. Width \in Nat /\ Width >= 2
  BY Widths
<1>2. ASSUME NEW k \in 1 .. Width
      PROVE  /\ piece(k) \in Seq(PinOps) /\ Len(piece(k)) = 2
             /\ piece(k)[1] = DataOp(v, k) /\ piece(k)[2] = "clk"
  <2>1. k <= Width /\ "sda0" \in PinOps /\ "sda1" \in PinOps
        /\ "clk" \in PinOps
    BY <1>1 DEF PinOps
  <2>2. CASE Bit(v, k) = 1
    BY <2>1, <2>2 DEF DataOp
  <2>3. CASE Bit(v, k) # 1
    BY <2>1, <2>3 DEF DataOp
  <2>4. QED
    BY <2>2, <2>3
<1> HIDE DEF piece
<1>3. ss \in Seq(Seq(PinOps)) /\ Len(ss) = Width
      /\ \A k \in 1 .. Width : ss[k] = piece(k)
  BY <1>1, <1>2
<1> HIDE DEF ss
<1>4. Pieces(u, PinOps, ss, 2, Width)
  <2>1. \A k \in 1 .. Len(ss) : Len(ss[k]) = 2
    BY <1>2, <1>3
  <2>2. ss \in Seq(Seq(PinOps)) /\ 2 \in Nat \ {0}
    BY <1>3
  <2>3. Pieces(Flat(ss), PinOps, ss, 2, Len(ss))
    BY <2>1, <2>2, FlatIs, Zenon
  <2>4. QED
    BY <1>3, <2>3
<1>5. /\ u \in Seq(PinOps) /\ Len(u) = 2 * Width
      /\ \A k \in 1 .. Width, r \in 1 .. 2 : u[2 * (k - 1) + r] = piece(k)[r]
  BY <1>3, <1>4 DEF Pieces
<1>6. w \in Seq(PinOps) /\ Len(w) = 2 /\ w[1] = "sda1" /\ w[2] = "ack"
  BY DEF i2c_check_ack, PinOps
<1>7. Acked(v) = u \o w
  BY DEF Acked, i2c_byte_out, u, ss, piece
<1> HIDE DEF u, w
<1>8. /\ u \o w \in Seq(PinOps) /\ Len(u \o w) = Len(u) + Len(w)
      /\ \A i \in 1 .. Len(u) : (u \o w)[i] = u[i]
      /\ \A i \in 1 .. Len(w) : (u \o w)[Len(u) + i] = w[i]
  <2>1. u \in Seq(PinOps) /\ w \in Seq(PinOps)
    BY <1>5, <1>6
  <2>2. QED
    BY ONLY <2>1, ConcatProps
<1>9. ASSUME NEW k \in 1 .. Width + 1
      PROVE  /\ (u \o w)[2 * (k - 1) + 1] = DataOp(v, k)
             /\ (u \o w)[2 * (k - 1) + 2] = ClockOp(k)
  <2>1. CASE k \in 1 .. Width
    <3>1. 2 * (k - 1) + 1 \in 1 .. Len(u) /\ 2 * (k - 1) + 2 \in 1 .. Len(u)
      BY <1>1, <1>5, <2>1
    <3>2. u[2 * (k - 1) + 1] = piece(k)[1] /\ u[2 * (k - 1) + 2] = piece(k)[2]
      BY <1>5, <2>1
    <3>3. QED
      BY <1>1, <1>2, <1>8, <2>1, <3>1, <3>2 DEF ClockOp
  <2>2. CASE k = Width + 1
    <3>1. 2 * (k - 1) = Len(u) /\ ~(k <= Width)
      BY <1>1, <1>5, <2>2
    <3>2. (u \o w)[Len(u) + 1] = w[1] /\ (u \o w)[Len(u) + 2] = w[2]
      BY <1>6, <1>8
    <3>3. QED
      BY <1>6, <3>1, <3>2 DEF DataOp, ClockOp
  <2>3. k \in 1 .. Width \/ k = Width + 1
    BY <1>1
  <2>4. QED
    BY <2>1, <2>2, <2>3, Zenon
<1>10. Len(u \o w) = OutFrame
  BY <1>1, <1>5, <1>6, <1>8 DEF OutFrame
<1>11. QED
  BY <1>7, <1>8, <1>9, <1>10

(* The operations of a byte are within those of n bytes. *)
LEMMA FrameIndex ==
  ASSUME NEW n \in Nat
  PROVE  /\ OutFrame \in Nat \ {0} /\ InFrame \in Nat \ {0}
         /\ OutFrame * n \in Nat /\ InFrame * n \in Nat
         /\ OutFrame * (n + 1) = OutFrame * n + OutFrame
         /\ InFrame * (n + 1) = InFrame * n + InFrame
         /\ \A j \in 1 .. n, k \in 1 .. Width + 1 :
              /\ OutAt(j, k) \in Nat
              /\ OutAt(j, k) + 1 \in 3 .. 2 + OutFrame * n
              /\ OutAt(j, k) + 2 \in 3 .. 2 + OutFrame * n
         /\ \A m \in Nat, j \in 1 .. n :
              /\ InAt(m, j) \in Nat
              /\ InAt(m, j) >= 2 + OutFrame * m
              /\ InAt(m, j) + InFrame <= 2 + OutFrame * m + InFrame * n
<1>1. Width \in Nat /\ OutFrame \in Nat \ {0} /\ InFrame \in Nat \ {0}
  BY Widths DEF OutFrame, InFrame
<1>2. /\ OutFrame * n \in Nat /\ InFrame * n \in Nat
      /\ OutFrame * (n + 1) = OutFrame * n + OutFrame
      /\ InFrame * (n + 1) = InFrame * n + InFrame
  BY <1>1, PieceIndex
<1>3. ASSUME NEW j \in 1 .. n, NEW k \in 1 .. Width + 1
      PROVE  /\ OutAt(j, k) \in Nat
             /\ OutAt(j, k) + 1 \in 3 .. 2 + OutFrame * n
             /\ OutAt(j, k) + 2 \in 3 .. 2 + OutFrame * n
  <2> DEFINE a == OutFrame * (j - 1)
             N == OutFrame * n
  <2>1. j - 1 \in Nat
    OBVIOUS
  <2>2. a \in Nat
    BY <1>1, <2>1, PieceIndex
  <2>3. \A r \in 1 .. OutFrame : a + r \in 1 .. N
    BY <1>1, PieceIndex
  <2>4. 2 * (k - 1) + 1 \in 1 .. OutFrame /\ 2 * (k - 1) + 2 \in 1 .. OutFrame
    BY <1>1 DEF OutFrame
  <2>5. OutAt(j, k) = 2 + a + 2 * (k - 1)
    BY DEF OutAt
  <2>6. a + (2 * (k - 1) + 1) \in 1 .. N /\ a + (2 * (k - 1) + 2) \in 1 .. N
    BY <2>3, <2>4
  <2>7. N \in Nat
    BY <1>2
  <2> HIDE DEF a, N
  <2>8. QED
    BY <1>1, <2>2, <2>5, <2>6, <2>7 DEF N
<1>4. ASSUME NEW m \in Nat, NEW j \in 1 .. n
      PROVE  /\ InAt(m, j) \in Nat
             /\ InAt(m, j) >= 2 + OutFrame * m
             /\ InAt(m, j) + InFrame <= 2 + OutFrame * m + InFrame * n
  <2> DEFINE a == InFrame * (j - 1)
             b == OutFrame * m
             N == InFrame * n
  <2>1. j - 1 \in Nat
    OBVIOUS
  <2>2. a \in Nat /\ b \in Nat
    BY <1>1, <2>1, PieceIndex
  <2>3. a + InFrame \in 1 .. N
    BY <1>1, PieceIndex
  <2>4. InAt(m, j) = 2 + b + a
    BY DEF InAt
  <2>5. N \in Nat
    BY <1>2
  <2> HIDE DEF a, b, N
  <2>6. QED
    BY <1>1, <2>2, <2>3, <2>4, <2>5 DEF N, b
<1>5. QED
  BY <1>1, <1>2, <1>3, <1>4

(* What follows the bytes out does not change them. *)
LEMMA SendsOutMore ==
  ASSUME NEW p \in Seq(PinOps), NEW q \in Seq(PinOps),
         NEW out \in Seq(BusByte), SendsOut(p, out),
         Len(p) >= 2 + OutFrame * Len(out)
  PROVE  SendsOut(p \o q, out)
<1> DEFINE t == p \o q
           n == Len(out)
<1>1. n \in Nat /\ Len(p) \in Nat
  BY LenProperties
<1>2. \A i \in 1 .. Len(p) : t[i] = p[i]
  BY ConcatProps
<1> HIDE DEF t
<1>3. OutFrame * n \in Nat
  BY <1>1, FrameIndex
<1>4. t[1] = "sda0" /\ t[2] = "scl0"
  <2>1. 1 \in 1 .. Len(p) /\ 2 \in 1 .. Len(p)
    BY <1>1, <1>3
  <2>2. QED
    BY <1>2, <2>1 DEF SendsOut
<1>5. ASSUME NEW j \in 1 .. n, NEW k \in 1 .. Width + 1
      PROVE  t[OutAt(j, k) + 1] = DataOp(out[j], k)
             /\ t[OutAt(j, k) + 2] = ClockOp(k)
  <2>1. /\ OutAt(j, k) + 1 \in 3 .. 2 + OutFrame * n
        /\ OutAt(j, k) + 2 \in 3 .. 2 + OutFrame * n
    BY <1>1, FrameIndex
  <2>2. OutAt(j, k) + 1 \in 1 .. Len(p) /\ OutAt(j, k) + 2 \in 1 .. Len(p)
    BY <1>1, <1>3, <2>1
  <2>3. QED
    BY <1>2, <2>2 DEF SendsOut
<1>6. QED
  BY <1>4, <1>5 DEF SendsOut, t, n

(* Nor does what follows the bytes in. *)
LEMMA TakesInMore ==
  ASSUME NEW p \in Seq(PinOps), NEW q \in Seq(PinOps), NEW m \in Nat,
         NEW n \in Nat, TakesIn(p, m, n),
         Len(p) >= 2 + OutFrame * m + InFrame * n
  PROVE  TakesIn(p \o q, m, n)
<1> DEFINE t == p \o q
<1>1. Len(p) \in Nat /\ Width \in Nat
  BY LenProperties, Widths
<1>2. \A i \in 1 .. Len(p) : t[i] = p[i]
  BY ConcatProps
<1> HIDE DEF t
<1>3. ASSUME NEW j \in 1 .. n
      PROVE  /\ t[InAt(m, j) + 1] = "sda1"
             /\ \A k \in 1 .. Width : t[InAt(m, j) + k + 1] = "bit"
             /\ t[InAt(m, j) + Width + 2] = IF j < n THEN "sda0" ELSE "sda1"
             /\ t[InAt(m, j) + Width + 3] = "clk"
  <2> DEFINE a == InAt(m, j)
             N == 2 + OutFrame * m + InFrame * n
  <2>1. OutFrame * m \in Nat /\ InFrame * n \in Nat
    BY FrameIndex
  <2>2. a \in Nat /\ a + InFrame <= N /\ N \in Nat
    <3>1. a \in Nat /\ a + InFrame <= N
      BY FrameIndex
    <3>2. QED
      BY <2>1, <3>1
  <2>3. Len(p) >= N
    OBVIOUS
  <2>4. /\ p[a + 1] = "sda1"
        /\ \A k \in 1 .. Width : p[a + k + 1] = "bit"
        /\ p[a + Width + 2] = IF j < n THEN "sda0" ELSE "sda1"
        /\ p[a + Width + 3] = "clk"
    BY DEF TakesIn
  <2> HIDE DEF a, N
  <2>5. /\ a + 1 \in 1 .. Len(p)
        /\ \A k \in 1 .. Width : a + k + 1 \in 1 .. Len(p)
        /\ a + Width + 2 \in 1 .. Len(p) /\ a + Width + 3 \in 1 .. Len(p)
    BY <1>1, <2>2, <2>3 DEF InFrame
  <2>6. /\ t[a + 1] = p[a + 1] /\ t[a + Width + 2] = p[a + Width + 2]
        /\ t[a + Width + 3] = p[a + Width + 3]
        /\ \A k \in 1 .. Width : t[a + k + 1] = p[a + k + 1]
    BY <1>2, <2>5
  <2>7. QED
    BY <2>4, <2>6 DEF a
<1>4. QED
  BY <1>3 DEF TakesIn, t

(* What is put last is the end. *)
LEMMA EndsWithIt ==
  ASSUME NEW p \in Seq(PinOps), NEW q \in Seq(PinOps)
  PROVE  EndsWith(p \o q, q)
<1> DEFINE t == p \o q
<1>1. /\ Len(t) = Len(p) + Len(q) /\ Len(p) \in Nat /\ Len(q) \in Nat
      /\ \A i \in 1 .. Len(q) : t[Len(p) + i] = q[i]
  BY ConcatProps, LenProperties
<1> HIDE DEF t
<1>2. \A r \in 1 .. Len(q) : Len(t) - Len(q) + r = Len(p) + r
  BY <1>1
<1>3. QED
  BY <1>1, <1>2 DEF EndsWith, t

(* p is a start and the bytes out *)
IsSending(p, out) ==
  /\ p \in Seq(PinOps) /\ Len(p) = 2 + OutFrame * Len(out)
  /\ SendsOut(p, out)

(* A start and the address. *)
LEMMA AddressSent ==
  ASSUME NEW v \in BusByte
  PROVE  IsSending(i2c_start \o Acked(v), << v >>)
<1> DEFINE s == i2c_start
           u == Acked(v)
           t == s \o u
<1>1. Width \in Nat /\ Width >= 2
  BY Widths
<1>2. s \in Seq(PinOps) /\ Len(s) = 2 /\ s[1] = "sda0" /\ s[2] = "scl0"
  BY DEF i2c_start, PinOps
<1>3. /\ u \in Seq(PinOps) /\ Len(u) = OutFrame
      /\ \A k \in 1 .. Width + 1 : /\ u[2 * (k - 1) + 1] = DataOp(v, k)
                                   /\ u[2 * (k - 1) + 2] = ClockOp(k)
  BY AckedIs
<1> HIDE DEF s, u
<1>4. /\ t \in Seq(PinOps) /\ Len(t) = Len(s) + Len(u)
      /\ \A i \in 1 .. Len(s) : t[i] = s[i]
      /\ \A i \in 1 .. Len(u) : t[Len(s) + i] = u[i]
  <2>1. u \in Seq(PinOps)
    BY <1>3
  <2>2. s \in Seq(PinOps)
    BY <1>2
  <2>3. QED
    BY ONLY <2>1, <2>2, ConcatProps
<1> HIDE DEF t
<1>5. t[1] = "sda0" /\ t[2] = "scl0"
  BY <1>2, <1>4
<1>6. ASSUME NEW k \in 1 .. Width + 1
      PROVE  /\ t[OutAt(1, k) + 1] = DataOp(v, k)
             /\ t[OutAt(1, k) + 2] = ClockOp(k)
  <2>1. 2 * (k - 1) + 1 \in 1 .. Len(u) /\ 2 * (k - 1) + 2 \in 1 .. Len(u)
    BY <1>1, <1>3 DEF OutFrame
  <2>2. OutAt(1, k) + 1 = Len(s) + (2 * (k - 1) + 1)
        /\ OutAt(1, k) + 2 = Len(s) + (2 * (k - 1) + 2)
    BY <1>1, <1>2 DEF OutAt, OutFrame
  <2>3. QED
    BY <1>3, <1>4, <2>1, <2>2
<1> DEFINE o == << v >>
<1>7. Len(o) = 1 /\ o[1] = v
  OBVIOUS
<1> HIDE DEF o
<1>8. SendsOut(t, o)
  <2>1. \A j \in 1 .. 1 : j = 1
    OBVIOUS
  <2>2. \A j \in 1 .. 1, k \in 1 .. Width + 1 :
          /\ t[OutAt(j, k) + 1] = DataOp(o[j], k)
          /\ t[OutAt(j, k) + 2] = ClockOp(k)
    BY <1>6, <1>7, <2>1
  <2>3. QED
    BY <1>5, <1>7, <2>2 DEF SendsOut
<1>9. Len(t) = 2 + OutFrame * Len(o)
  BY <1>1, <1>2, <1>3, <1>4, <1>7 DEF OutFrame
<1>10. QED
  BY <1>4, <1>8, <1>9 DEF IsSending, o, t, s, u

(* More bytes follow the address. *)
LEMMA BytesSent ==
  ASSUME NEW v \in BusByte, NEW data \in Seq(BusByte)
  PROVE  IsSending((i2c_start \o Acked(v)) \o
                     Flat([k \in DOMAIN data |-> Acked(data[k])]),
                   << v >> \o data)
<1> DEFINE s == i2c_start \o Acked(v)
           ss == [k \in DOMAIN data |-> Acked(data[k])]
           u == Flat(ss)
           t == s \o u
           n == Len(data)
           o == << v >> \o data
<1>1. n \in Nat /\ DOMAIN data = 1 .. n /\ Width \in Nat
  BY LenProperties, Widths
<1>2. \A k \in 1 .. n : Acked(data[k]) \in Seq(PinOps)
                        /\ Len(Acked(data[k])) = OutFrame
  BY AckedIs
<1>3. ss \in Seq(Seq(PinOps)) /\ Len(ss) = n
      /\ \A k \in 1 .. n : ss[k] = Acked(data[k])
  <2> HIDE DEF n
  <2>1. QED
    BY <1>1, <1>2
<1>4. Pieces(u, PinOps, ss, OutFrame, n)
  <2> HIDE DEF ss, n
  <2>1. \A k \in 1 .. Len(ss) : Len(ss[k]) = OutFrame
    BY <1>2, <1>3
  <2>2. ss \in Seq(Seq(PinOps)) /\ OutFrame \in Nat \ {0}
    BY <1>1, <1>3, FrameIndex
  <2>3. Pieces(Flat(ss), PinOps, ss, OutFrame, Len(ss))
    BY <2>1, <2>2, FlatIs, Zenon
  <2>4. QED
    BY <1>3, <2>3
<1> HIDE DEF ss
<1>5. IsSending(s, << v >>)
  BY AddressSent
<1>6. s \in Seq(PinOps) /\ Len(s) = 2 + OutFrame /\ SendsOut(s, << v >>)
  <2>1. Len(<< v >>) = 1 /\ OutFrame \in Nat
    BY <1>1 DEF OutFrame
  <2>2. QED
    BY <1>5, <2>1 DEF IsSending
<1>7. /\ u \in Seq(PinOps) /\ Len(u) = OutFrame * n
      /\ \A k \in 1 .. n, r \in 1 .. OutFrame :
           u[OutFrame * (k - 1) + r] = ss[k][r]
  BY <1>4 DEF Pieces
<1> HIDE DEF s, u
<1>8. /\ t \in Seq(PinOps) /\ Len(t) = Len(s) + Len(u)
      /\ \A i \in 1 .. Len(s) : t[i] = s[i]
      /\ \A i \in 1 .. Len(u) : t[Len(s) + i] = u[i]
  <2>1. u \in Seq(PinOps)
    BY <1>7
  <2>2. s \in Seq(PinOps)
    BY <1>6
  <2>3. QED
    BY ONLY <2>1, <2>2, ConcatProps
<1>9. /\ o \in Seq(BusByte) /\ Len(o) = n + 1
      /\ o[1] = v /\ \A k \in 1 .. n : o[k + 1] = data[k]
  <2> DEFINE w == << v >>
  <2>1. w \in Seq(BusByte) /\ Len(w) = 1 /\ w[1] = v
    OBVIOUS
  <2> HIDE DEF w
  <2>2. /\ w \o data \in Seq(BusByte) /\ Len(w \o data) = Len(w) + Len(data)
        /\ \A i \in 1 .. Len(w) : (w \o data)[i] = w[i]
        /\ \A i \in 1 .. Len(data) : (w \o data)[Len(w) + i] = data[i]
    BY ONLY <2>1, data \in Seq(BusByte), ConcatProps
  <2>3. \A k \in 1 .. n : Len(w) + k = k + 1
    BY <1>1, <2>1
  <2>4. QED
    BY <1>1, <2>1, <2>2, <2>3 DEF w
<1> HIDE DEF o, t, n
<1>10. OutFrame * n \in Nat /\ OutFrame * (n + 1) = OutFrame * n + OutFrame
  BY <1>1, FrameIndex
<1>11. Len(t) = 2 + OutFrame * Len(o)
  BY <1>1, <1>6, <1>7, <1>8, <1>9, <1>10, OutFrame \in Nat DEF OutFrame
<1>12. t[1] = "sda0" /\ t[2] = "scl0"
  <2>1. 1 \in 1 .. Len(s) /\ 2 \in 1 .. Len(s)
    BY <1>1, <1>6 DEF OutFrame
  <2>2. QED
    BY <1>6, <1>8, <2>1 DEF SendsOut
<1>13. ASSUME NEW k \in 1 .. Width + 1
       PROVE  /\ t[OutAt(1, k) + 1] = DataOp(v, k)
              /\ t[OutAt(1, k) + 2] = ClockOp(k)
  <2>1. OutAt(1, k) + 1 \in 1 .. Len(s) /\ OutAt(1, k) + 2 \in 1 .. Len(s)
    BY <1>1, <1>6 DEF OutAt, OutFrame
  <2> DEFINE w == << v >>
  <2>2. Len(w) = 1 /\ w[1] = v /\ SendsOut(s, w)
    BY <1>6
  <2> HIDE DEF w
  <2>3. s[OutAt(1, k) + 1] = DataOp(v, k) /\ s[OutAt(1, k) + 2] = ClockOp(k)
    <3>1. 1 \in 1 .. Len(w)
      BY <2>2
    <3>2. QED
      BY <2>2, <3>1 DEF SendsOut
  <2>4. QED
    BY <1>8, <2>1, <2>3
<1>14. ASSUME NEW i \in 1 .. n, NEW k \in 1 .. Width + 1
       PROVE  t[OutAt(i + 1, k) + 1] = DataOp(data[i], k)
              /\ t[OutAt(i + 1, k) + 2] = ClockOp(k)
  <2> DEFINE a == OutFrame * (i - 1)
             f == 2 * (k - 1)
  <2>1. f + 1 \in 1 .. OutFrame /\ f + 2 \in 1 .. OutFrame /\ f \in Nat
    BY <1>1 DEF OutFrame
  <2>2. u[a + (f + 1)] = DataOp(data[i], k) /\ u[a + (f + 2)] = ClockOp(k)
    <3>1. u[a + (f + 1)] = ss[i][f + 1] /\ u[a + (f + 2)] = ss[i][f + 2]
      BY <1>7, <2>1
    <3>2. ss[i][f + 1] = DataOp(data[i], k) /\ ss[i][f + 2] = ClockOp(k)
      BY <1>3, AckedIs
    <3>3. QED
      BY <3>1, <3>2
  <2>3. OutFrame \in Nat \ {0} /\ a \in Nat
        /\ a + (f + 1) \in 1 .. Len(u) /\ a + (f + 2) \in 1 .. Len(u)
    <3>1. OutFrame \in Nat \ {0}
      BY <1>1, FrameIndex
    <3>2. \A r \in 1 .. OutFrame : a + r \in 1 .. OutFrame * n
      BY <1>1, <3>1, PieceIndex
    <3>3. i - 1 \in Nat
      BY <1>1
    <3>4. a \in Nat
      BY <3>1, <3>3, PieceIndex
    <3>5. QED
      BY <1>7, <2>1, <3>1, <3>2, <3>4
  <2>4. OutAt(i + 1, k) = 2 + (a + OutFrame) + f
    <3>1. (i + 1) - 1 = i /\ OutFrame * i = a + OutFrame
      <4>1. i - 1 \in Nat /\ (i - 1) + 1 = i
        BY <1>1
      <4>2. OutFrame * ((i - 1) + 1) = OutFrame * (i - 1) + OutFrame
        BY <2>3, <4>1, PieceIndex
      <4>3. QED
        BY <1>1, <4>1, <4>2
    <3>2. QED
      BY <3>1 DEF OutAt
  <2> HIDE DEF a, f
  <2>5. OutAt(i + 1, k) + 1 = Len(s) + (a + (f + 1))
        /\ OutAt(i + 1, k) + 2 = Len(s) + (a + (f + 2))
    BY <1>6, <2>1, <2>3, <2>4
  <2>6. QED
    BY <1>8, <2>2, <2>3, <2>5
<1>15. SendsOut(t, o)
  <2>1. ASSUME NEW j \in 1 .. Len(o), NEW k \in 1 .. Width + 1
        PROVE  t[OutAt(j, k) + 1] = DataOp(o[j], k)
               /\ t[OutAt(j, k) + 2] = ClockOp(k)
    <3>1. CASE j = 1
      BY <1>9, <1>13, <3>1
    <3>2. CASE j # 1
      <4>1. j - 1 \in 1 .. n /\ (j - 1) + 1 = j
        BY <1>1, <1>9, <3>2
      <4>2. o[j] = data[j - 1]
        BY <1>9, <4>1
      <4>3. QED
        BY <1>14, <4>1, <4>2
    <3>3. QED
      BY <3>1, <3>2
  <2>2. QED
    BY <1>12, <2>1 DEF SendsOut
<1>16. QED
  BY <1>8, <1>11, <1>15 DEF IsSending, o, t, s, u, ss

(* The ends of a transaction. *)
LEMMA Ends ==
  /\ i2c_stop \in Seq(PinOps) /\ i2c_stopr \in Seq(PinOps)
  /\ Len(i2c_stop) = 3 /\ Len(i2c_stopr) = 2
  /\ i2c_stop[1] = "sda0" /\ i2c_stop[2] = "scl1" /\ i2c_stop[3] = "sda1"
  /\ i2c_stopr[1] = "sda1" /\ i2c_stopr[2] = "scl1"
  BY DEF i2c_stop, i2c_stopr, PinOps

(* Bytes are sent, and the transaction ends. *)
LEMMA SentThenEnd ==
  ASSUME NEW p, NEW out \in Seq(BusByte), IsSending(p, out),
         NEW end \in {i2c_stop, i2c_stopr}
  PROVE  IsTransaction(p \o end, out, 0, end)
<1> DEFINE t == p \o end
<1>1. p \in Seq(PinOps) /\ Len(p) = 2 + OutFrame * Len(out)
      /\ SendsOut(p, out)
  BY DEF IsSending
<1>2. end \in Seq(PinOps) /\ Len(end) \in Nat
  BY Ends
<1>3. t \in Seq(PinOps) /\ Len(t) = Len(p) + Len(end)
  <2>1. p \in Seq(PinOps) /\ end \in Seq(PinOps)
    BY <1>1, <1>2
  <2>2. QED
    BY ONLY <2>1, ConcatProps
<1>4. Len(out) \in Nat /\ OutFrame * Len(out) \in Nat
      /\ InFrame * 0 = 0
  <2>1. Len(out) \in Nat
    BY LenProperties
  <2>2. InFrame \in Nat
    BY Widths DEF InFrame
  <2>3. QED
    BY <2>1, <2>2, FrameIndex
<1>5. SendsOut(t, out)
  <2>1. Len(p) >= 2 + OutFrame * Len(out)
    BY <1>1, <1>4
  <2>2. QED
    BY <1>1, <1>2, <2>1, SendsOutMore
<1>6. EndsWith(t, end)
  BY <1>1, <1>2, EndsWithIt
<1>7. TakesIn(t, Len(out), 0)
  BY DEF TakesIn
<1> HIDE DEF t
<1>8. Len(t) = 2 + OutFrame * Len(out) + InFrame * 0 + Len(end)
  BY <1>1, <1>2, <1>3, <1>4
<1>9. QED
  BY <1>3, <1>5, <1>6, <1>7, <1>8 DEF IsTransaction, t

(* The address of the EEPROM, with the bit that says what is to be done. *)
LEMMA AddressBytes ==
  /\ 2 * DevAddr \in BusByte /\ 2 * DevAddr + 1 \in BusByte
  /\ (2 * DevAddr) % 2 = 0 /\ (2 * DevAddr + 1) % 2 = 1
  /\ (2 * DevAddr) \div 2 = DevAddr /\ (2 * DevAddr + 1) \div 2 = DevAddr
<1> DEFINE m == Pow2[Width - 1]
<1>1. Width \in Nat /\ Width >= 2
  BY Widths
<1>2. m \in Nat \ {0} /\ Pow2[Width] = 2 * m
  <2>1. Width - 1 \in 0 .. Width - 1 /\ Width - 1 \in 0 .. Width
        /\ (Width - 1) + 1 = Width
    BY <1>1
  <2>2. QED
    BY <2>1, Powers
<1>3. DevAddr \in 0 .. m - 1
  BY I2cConstantsOK
<1> HIDE DEF m
<1>4. 2 * DevAddr \in BusByte /\ 2 * DevAddr + 1 \in BusByte
  BY <1>2, <1>3 DEF BusByte
<1>5. QED
  BY <1>2, <1>3, <1>4

(* The transactions that write. *)
LEMMA WriteIs ==
  ASSUME NEW data \in Seq(BusByte)
  PROVE  /\ 2 * DevAddr \in BusByte
         /\ << 2 * DevAddr >> \o data \in Seq(BusByte)
         /\ IsTransaction(nk_bitbang_i2c_write(data),
                          << 2 * DevAddr >> \o data, 0, i2c_stop)
         /\ IsTransaction(nk_bitbang_i2c_write_nostop(data),
                          << 2 * DevAddr >> \o data, 0, i2c_stopr)
<1> DEFINE v == 2 * DevAddr
           out == << v >> \o data
<1>1. v \in BusByte
  BY AddressBytes
<1>2. out \in Seq(BusByte)
  <2> HIDE DEF v
  <2>1. << v >> \in Seq(BusByte)
    BY <1>1
  <2>2. QED
    BY ONLY <2>1, data \in Seq(BusByte), ConcatProps
<1> HIDE DEF out
<1>3. IsSending(Written(data), out)
  <2> HIDE DEF v
  <2>1. IsSending((i2c_start \o Acked(v)) \o
                    Flat([k \in DOMAIN data |-> Acked(data[k])]),
                  << v >> \o data)
    BY <1>1, BytesSent
  <2>2. QED
    BY <2>1 DEF Written, out, v
<1>4. QED
  BY <1>1, <1>2, <1>3, SentThenEnd
     DEF nk_bitbang_i2c_write, nk_bitbang_i2c_write_nostop, out

(* A byte that is received, with the acknowledgement that is sent. *)
LEMMA TakenIs ==
  ASSUME NEW last \in BOOLEAN, NEW w,
         w = i2c_byte_in \o (IF last THEN i2c_send_nak ELSE i2c_send_ack)
  PROVE  /\ w \in Seq(PinOps) /\ Len(w) = InFrame
         /\ w[1] = "sda1" /\ w[Width + 2] = IF last THEN "sda1" ELSE "sda0"
         /\ w[Width + 3] = "clk"
         /\ \A k \in 1 .. Width : w[k + 1] = "bit"
<1> DEFINE s == << "sda1" >>
           b == [k \in 1 .. Width |-> "bit"]
           u == i2c_byte_in
           a == IF last THEN i2c_send_nak ELSE i2c_send_ack
<1>1. Width \in Nat
  BY Widths
<1>2. s \in Seq(PinOps) /\ Len(s) = 1 /\ s[1] = "sda1"
  BY DEF PinOps
<1>3. /\ b \in Seq(PinOps) /\ Len(b) = Width
      /\ \A k \in 1 .. Width : b[k] = "bit"
  BY <1>1 DEF PinOps
<1>4. u = s \o b
  BY DEF i2c_byte_in
<1> HIDE DEF s, b
<1>5. /\ u \in Seq(PinOps) /\ Len(u) = Width + 1 /\ u[1] = "sda1"
      /\ \A k \in 1 .. Width : u[k + 1] = "bit"
  <2>1. /\ s \o b \in Seq(PinOps) /\ Len(s \o b) = Len(s) + Len(b)
        /\ \A i \in 1 .. Len(s) : (s \o b)[i] = s[i]
        /\ \A i \in 1 .. Len(b) : (s \o b)[Len(s) + i] = b[i]
    <3>1. s \in Seq(PinOps) /\ b \in Seq(PinOps)
      BY <1>2, <1>3
    <3>2. QED
      BY ONLY <3>1, ConcatProps
  <2>2. \A k \in 1 .. Width : Len(s) + k = k + 1
    BY <1>1, <1>2
  <2>3. QED
    BY <1>1, <1>2, <1>3, <1>4, <2>1, <2>2
<1> HIDE DEF u
<1>6. /\ a \in Seq(PinOps) /\ Len(a) = 2
      /\ a[1] = (IF last THEN "sda1" ELSE "sda0") /\ a[2] = "clk"
  <2>1. CASE last
    BY <2>1 DEF i2c_send_nak, PinOps
  <2>2. CASE ~last
    BY <2>2 DEF i2c_send_ack, PinOps
  <2>3. QED
    BY <2>1, <2>2
<1> HIDE DEF a
<1>7. /\ u \o a \in Seq(PinOps) /\ Len(u \o a) = Len(u) + Len(a)
      /\ \A i \in 1 .. Len(u) : (u \o a)[i] = u[i]
      /\ \A i \in 1 .. Len(a) : (u \o a)[Len(u) + i] = a[i]
  <2>1. u \in Seq(PinOps) /\ a \in Seq(PinOps)
    BY <1>5, <1>6
  <2>2. QED
    BY ONLY <2>1, ConcatProps
<1>8. w = u \o a
  BY DEF u, a
<1>9. 1 \in 1 .. Len(u) /\ \A k \in 1 .. Width : k + 1 \in 1 .. Len(u)
  BY <1>1, <1>5
<1>10. Width + 2 = Len(u) + 1 /\ Width + 3 = Len(u) + 2
       /\ 1 \in 1 .. Len(a) /\ 2 \in 1 .. Len(a)
  BY <1>1, <1>5, <1>6
<1>11. Len(w) = InFrame
  BY <1>1, <1>5, <1>6, <1>7, <1>8 DEF InFrame
<1>12. QED
  BY <1>5, <1>6, <1>7, <1>8, <1>9, <1>10, <1>11

(* The transaction that reads n bytes. *)
LEMMA ReadIs ==
  ASSUME NEW n \in Nat
  PROVE  IsTransaction(nk_bitbang_i2c_read(n), << 2 * DevAddr + 1 >>, n,
                       i2c_stop)
<1> DEFINE v == 2 * DevAddr + 1
           out == << v >>
           s == i2c_start \o Acked(v)
           piece(k) == i2c_byte_in \o
                       (IF k < n THEN i2c_send_ack ELSE i2c_send_nak)
           ss == [k \in 1 .. n |-> piece(k)]
           u == Flat(ss)
           p == s \o u
           t == p \o i2c_stop
<1>1. Width \in Nat /\ v \in BusByte
  BY Widths, AddressBytes
<1>2. Len(out) = 1 /\ out \in Seq(BusByte)
  BY <1>1
<1>3. ASSUME NEW k \in 1 .. n
      PROVE  /\ piece(k) \in Seq(PinOps) /\ Len(piece(k)) = InFrame
             /\ piece(k)[1] = "sda1"
             /\ piece(k)[Width + 2] = IF k < n THEN "sda0" ELSE "sda1"
             /\ piece(k)[Width + 3] = "clk"
             /\ \A q \in 1 .. Width : piece(k)[q + 1] = "bit"
  <2> DEFINE last == ~ (k < n)
             w == i2c_byte_in \o (IF last THEN i2c_send_nak ELSE i2c_send_ack)
  <2>1. piece(k) = w
    <3>1. CASE k < n
      BY <3>1, Zenon
    <3>2. CASE ~ (k < n)
      BY <3>2, Zenon
    <3>3. QED
      BY <3>1, <3>2
  <2>2. last \in BOOLEAN
    OBVIOUS
  <2> HIDE DEF piece, last
  <2>3. /\ w \in Seq(PinOps) /\ Len(w) = InFrame
        /\ w[1] = "sda1" /\ w[Width + 2] = IF last THEN "sda1" ELSE "sda0"
        /\ w[Width + 3] = "clk"
        /\ \A q \in 1 .. Width : w[q + 1] = "bit"
    BY <2>2, TakenIs
  <2> HIDE DEF w
  <2>4. piece(k)[Width + 2] = IF k < n THEN "sda0" ELSE "sda1"
    BY <2>1, <2>3 DEF last
  <2>5. QED
    BY <2>1, <2>3, <2>4
<1> HIDE DEF piece
<1>4. /\ ss \in Seq(Seq(PinOps)) /\ Len(ss) = n
      /\ \A k \in 1 .. n : ss[k] = piece(k)
  BY <1>3
<1> HIDE DEF ss
<1>5. InFrame \in Nat \ {0} /\ OutFrame \in Nat
  BY <1>1 DEF InFrame, OutFrame
<1>6. Pieces(u, PinOps, ss, InFrame, n)
  <2>1. \A k \in 1 .. Len(ss) : Len(ss[k]) = InFrame
    BY <1>3, <1>4
  <2>2. Pieces(Flat(ss), PinOps, ss, InFrame, Len(ss))
    BY <1>4, <1>5, <2>1, FlatIs, Zenon
  <2>3. QED
    BY <1>4, <2>2
<1>7. /\ u \in Seq(PinOps) /\ Len(u) = InFrame * n
      /\ \A k \in 1 .. n, r \in 1 .. InFrame :
           u[InFrame * (k - 1) + r] = piece(k)[r]
  BY <1>4, <1>6 DEF Pieces
<1>8. IsSending(s, out)
  BY <1>1, AddressSent
<1> HIDE DEF out, u, s
<1>9. s \in Seq(PinOps) /\ Len(s) = 2 + OutFrame /\ SendsOut(s, out)
  BY <1>2, <1>5, <1>8 DEF IsSending
<1>10. /\ p \in Seq(PinOps) /\ Len(p) = Len(s) + Len(u)
       /\ \A i \in 1 .. Len(u) : p[Len(s) + i] = u[i]
  <2>1. u \in Seq(PinOps)
    BY <1>7
  <2>2. s \in Seq(PinOps)
    BY <1>9
  <2>3. QED
    BY ONLY <2>1, <2>2, ConcatProps
<1> HIDE DEF p
<1>11. InFrame * n \in Nat /\ OutFrame * 1 = OutFrame
  BY <1>5, FrameIndex
<1>12. Len(p) = 2 + OutFrame * 1 + InFrame * n
  BY <1>5, <1>7, <1>9, <1>10, <1>11
<1>13. SendsOut(p, out)
  <2>1. Len(s) >= 2 + OutFrame * Len(out)
    BY <1>2, <1>5, <1>9, <1>11
  <2>2. SendsOut(s \o u, out)
    BY <1>2, <1>7, <1>9, <2>1, SendsOutMore
  <2>3. QED
    BY <2>2 DEF p
<1>14. TakesIn(p, 1, n)
  <2>1. ASSUME NEW j \in 1 .. n, NEW r \in 1 .. InFrame
        PROVE  p[InAt(1, j) + r] = piece(j)[r]
    <3> DEFINE a == InFrame * (j - 1)
    <3>1. a \in Nat /\ a + r \in 1 .. Len(u)
      <4>1. a + r \in 1 .. InFrame * n
        BY <1>5, PieceIndex
      <4>2. j - 1 \in Nat
        OBVIOUS
      <4>3. a \in Nat
        BY <1>5, <4>2, PieceIndex
      <4>4. QED
        BY <1>7, <4>1, <4>3
    <3>2. u[a + r] = piece(j)[r]
      BY <1>7
    <3>3. InAt(1, j) = 2 + OutFrame + a
      BY <1>11 DEF InAt
    <3> HIDE DEF a
    <3>4. InAt(1, j) + r = Len(s) + (a + r)
      BY <1>5, <1>9, <3>1, <3>3
    <3>5. QED
      BY <1>10, <3>1, <3>2, <3>4
  <2>2. /\ 1 \in 1 .. InFrame /\ Width + 2 \in 1 .. InFrame
        /\ Width + 3 \in 1 .. InFrame
        /\ \A k \in 1 .. Width : k + 1 \in 1 .. InFrame
    BY <1>1 DEF InFrame
  <2>3. ASSUME NEW j \in 1 .. n
        PROVE  /\ p[InAt(1, j) + 1] = "sda1"
               /\ \A k \in 1 .. Width : p[InAt(1, j) + k + 1] = "bit"
               /\ p[InAt(1, j) + Width + 2] = IF j < n THEN "sda0" ELSE "sda1"
               /\ p[InAt(1, j) + Width + 3] = "clk"
    <3> DEFINE b == InAt(1, j)
    <3>1. /\ p[b + 1] = piece(j)[1] /\ p[b + (Width + 2)] = piece(j)[Width + 2]
          /\ p[b + (Width + 3)] = piece(j)[Width + 3]
          /\ \A k \in 1 .. Width : p[b + (k + 1)] = piece(j)[k + 1]
      BY <2>1, <2>2
    <3>2. b \in Nat
      BY FrameIndex
    <3> HIDE DEF b
    <3>3. /\ b + (Width + 2) = b + Width + 2 /\ b + (Width + 3) = b + Width + 3
          /\ \A k \in 1 .. Width : b + (k + 1) = b + k + 1
      BY <1>1, <3>2
    <3>4. QED
      BY <1>3, <3>1, <3>3 DEF b
  <2>4. QED
    BY <2>3 DEF TakesIn
<1>15. i2c_stop \in Seq(PinOps) /\ Len(i2c_stop) = 3
  BY Ends
<1>16. /\ t \in Seq(PinOps) /\ Len(t) = Len(p) + Len(i2c_stop)
  <2>1. p \in Seq(PinOps)
    BY <1>10
  <2>2. i2c_stop \in Seq(PinOps)
    BY <1>15
  <2>3. QED
    BY ONLY <2>1, <2>2, ConcatProps
<1>17. SendsOut(t, out)
  <2>1. Len(p) >= 2 + OutFrame * Len(out)
    BY <1>2, <1>5, <1>11, <1>12
  <2>2. QED
    BY <1>2, <1>10, <1>13, <1>15, <2>1, SendsOutMore
<1>18. TakesIn(t, Len(out), n)
  <2>1. Len(p) >= 2 + OutFrame * 1 + InFrame * n /\ 1 \in Nat
    BY <1>5, <1>11, <1>12
  <2>2. TakesIn(t, 1, n)
    BY <1>10, <1>14, <1>15, <2>1, TakesInMore
  <2>3. QED
    BY <1>2, <2>2
<1>19. EndsWith(t, i2c_stop)
  BY <1>10, <1>15, EndsWithIt
<1>20. t = nk_bitbang_i2c_read(n)
  BY DEF nk_bitbang_i2c_read, t, p, s, u, ss, piece, v
<1> HIDE DEF t
<1>21. Len(t) = 2 + OutFrame * Len(out) + InFrame * n + Len(i2c_stop)
  BY <1>2, <1>12, <1>16
<1>22. QED
  BY <1>16, <1>17, <1>18, <1>19, <1>20, <1>21 DEF IsTransaction, out

-----------------------------------------------------------------------------
(* The EEPROM *)

EeStates == {"idle", "address", "offset", "data", "read", "ignore"}
EeCounts == 0 .. Width + 1
EeAddresses == 0 .. EepromSize - 1
Pages == Seq(BusByte)
Images == [EeAddresses -> BusByte]
EeRecord ==
  [st : EeStates, n : EeCounts, byte : BusByte, pulls : BOOLEAN,
   holds : BOOLEAN, ptr : EeAddresses, page : Pages, busy : BOOLEAN,
   mem : Images]

(* the EEPROM after SCL has risen, has fallen, or was let go *)
Risen(e) ==
  \/ ~ee.holds /\ e = SclRises
  \/ e = [SclRises EXCEPT !.holds = FALSE]
Fallen(e) ==
  \/ e = SclFalls
  \/ SclFalls.st # "ignore" /\ e = [SclFalls EXCEPT !.holds = TRUE]
Freed(e) == e = [ee EXCEPT !.holds = FALSE]

(* The fields of the EEPROM. *)
LEMMA EeFields ==
  ASSUME NEW e \in EeRecord
  PROVE  /\ e.st \in EeStates /\ e.n \in EeCounts /\ e.byte \in BusByte
         /\ e.pulls \in BOOLEAN /\ e.holds \in BOOLEAN
         /\ e.ptr \in EeAddresses /\ e.page \in Pages /\ e.busy \in BOOLEAN
         /\ e.mem \in Images
  BY DEF EeRecord

(* What is put into a field belongs there. *)
LEMMA EeUpdates ==
  ASSUME NEW e \in EeRecord
  PROVE  /\ \A x \in EeStates : [e EXCEPT !.st = x] \in EeRecord
         /\ \A x \in EeCounts : [e EXCEPT !.n = x] \in EeRecord
         /\ \A x \in BusByte : [e EXCEPT !.byte = x] \in EeRecord
         /\ \A x \in BOOLEAN : /\ [e EXCEPT !.pulls = x] \in EeRecord
                               /\ [e EXCEPT !.holds = x] \in EeRecord
                               /\ [e EXCEPT !.busy = x] \in EeRecord
         /\ \A x \in EeAddresses : [e EXCEPT !.ptr = x] \in EeRecord
         /\ \A x \in Pages : [e EXCEPT !.page = x] \in EeRecord
         /\ \A x \in Images : [e EXCEPT !.mem = x] \in EeRecord
  BY DEF EeRecord

(* The level of SDA is a bit. *)
LEMMA Levels ==
  ASSUME sda \in {0, 1}
  PROVE  /\ SdaLevel \in {0, 1}
         /\ ~ee.pulls => SdaLevel = sda
         /\ ee.pulls => SdaLevel = 0
  BY DEF SdaLevel

(* A bit is taken into a byte. *)
LEMMA ByteShifts ==
  ASSUME NEW b \in BusByte, NEW d \in {0, 1}
  PROVE  (2 * b + d) % Pow2[Width] \in BusByte
<1>1. Pow2[Width] \in Nat \ {0}
  BY Widths, Powers
<1>2. 2 * b + d \in Int
  BY <1>1 DEF BusByte
<1>3. (2 * b + d) % Pow2[Width] \in 0 .. Pow2[Width] - 1
  BY <1>1, <1>2, DivMod
<1>4. QED
  BY <1>3 DEF BusByte

(* EeAddresses and numbers of clocks. *)
LEMMA EeNumbers ==
  /\ Width \in Nat /\ Width >= 2
  /\ 0 \in EeCounts /\ Width + 1 \in EeCounts /\ 0 \in BusByte
  /\ \A n \in EeCounts : n \in Nat /\ (n <= Width => n + 1 \in EeCounts)
  /\ \A b \in BusByte : b \in Nat /\ b % EepromSize \in EeAddresses
  /\ \A a \in EeAddresses : a \in Nat /\ (a + 1) % EepromSize \in EeAddresses
  /\ << >> \in Pages /\ \A p \in Pages, b \in BusByte : Append(p, b) \in Pages
<1>1. /\ Width \in Nat /\ Width >= 2 /\ EepromSize \in Nat \ {0}
      /\ Pow2[Width] \in Nat \ {0}
  BY Widths, Powers
<1>2. /\ 0 \in EeCounts /\ Width + 1 \in EeCounts
      /\ \A n \in EeCounts : n \in Nat /\ (n <= Width => n + 1 \in EeCounts)
  BY <1>1 DEF EeCounts
<1>3. 0 \in BusByte /\ \A b \in BusByte : b \in Nat
  BY <1>1 DEF BusByte
<1>4. \A a \in EeAddresses : a \in Nat
  BY <1>1 DEF EeAddresses
<1>5. \A m \in Nat : m % EepromSize \in EeAddresses
  <2>1. \A m \in Nat : m % EepromSize \in 0 .. EepromSize - 1
    BY <1>1, DivMod
  <2>2. QED
    BY <2>1 DEF EeAddresses
<1>6. \A a \in EeAddresses : a + 1 \in Nat
  BY <1>4
<1>7. << >> \in Pages /\ \A p \in Pages, b \in BusByte : Append(p, b) \in Pages
  BY DEF Pages
<1>8. QED
  BY <1>1, <1>2, <1>3, <1>4, <1>5, <1>6, <1>7

(* SCL rises. *)
LEMMA RisesTyped ==
  ASSUME ee \in EeRecord, sda \in {0, 1}
  PROVE  SclRises \in EeRecord
<1> DEFINE b == (2 * ee.byte + SdaLevel) % Pow2[Width]
           n == ee.n + 1
<1>1. ee.n \in EeCounts /\ ee.byte \in BusByte /\ ee.st \in EeStates
  BY EeFields
<1>2. b \in BusByte
  BY <1>1, Levels, ByteShifts
<1>3. Width \in Nat /\ ee.n \in Nat /\ (ee.n <= Width => n \in EeCounts)
  BY <1>1, EeNumbers
<1> HIDE DEF b, n
<1>4. CASE Receives /\ ee.n < Width
  <2>1. [ee EXCEPT !.byte = b] \in EeRecord
    BY <1>2, EeUpdates
  <2>2. n \in EeCounts
    BY <1>3, <1>4
  <2>3. [[ee EXCEPT !.byte = b] EXCEPT !.n = n] \in EeRecord
    BY <2>1, <2>2, EeUpdates
  <2>4. ee.st # "read"
    BY <1>4 DEF Receives
  <2>5. SclRises = [ee EXCEPT !.byte = b, !.n = n]
    BY <1>4, <2>4, Zenon DEF SclRises, b, n
  <2>6. QED
    BY <2>3, <2>5
<1>5. CASE ~(Receives /\ ee.n < Width) /\ ee.st = "read" /\ ee.n <= Width
  <2>1. [ee EXCEPT !.n = n] \in EeRecord
    BY <1>3, <1>5, EeUpdates
  <2>2. "ignore" \in EeStates
    BY DEF EeStates
  <2>3. [ee EXCEPT !.st = "ignore"] \in EeRecord
    BY <2>2, EeUpdates
  <2>4. SclRises \in {[ee EXCEPT !.n = n], [ee EXCEPT !.st = "ignore"]}
    BY <1>3, <1>5 DEF SclRises, n, Receives
  <2>5. QED
    BY <2>1, <2>3, <2>4
<1>6. CASE ~(Receives /\ ee.n < Width) /\ ~(ee.st = "read" /\ ee.n <= Width)
  <2>1. ~(ee.st = "read" /\ ee.n < Width) /\ ~(ee.st = "read" /\ ee.n = Width)
    BY <1>3, <1>6
  <2>2. SclRises = ee
    BY <1>6, <2>1, Zenon DEF SclRises
  <2>3. QED
    BY <2>2
<1>7. QED
  BY <1>4, <1>5, <1>6

(* A byte to send. *)
LEMMA SendsTyped ==
  ASSUME ee \in EeRecord, NEW p \in EeAddresses
  PROVE  Sends(p) \in EeRecord
<1> DEFINE a == [ee EXCEPT !.st = "read"]
           b == [a EXCEPT !.n = 0]
           c == [b EXCEPT !.byte = 0]
           d == [c EXCEPT !.ptr = p]
           z == (Bit(ee.mem[p], 1) = 0)
           e == [d EXCEPT !.pulls = z]
<1>1. a \in EeRecord
  BY EeUpdates, "read" \in EeStates DEF EeStates
<1>2. b \in EeRecord
  BY <1>1, EeUpdates, EeNumbers
<1>3. c \in EeRecord
  BY <1>2, EeUpdates, EeNumbers
<1>4. d \in EeRecord
  BY <1>3, EeUpdates
<1>5. z \in BOOLEAN
  OBVIOUS
<1> HIDE DEF z
<1>6. e \in EeRecord
  <2> HIDE DEF d
  <2>1. QED
    BY <1>4, <1>5, EeUpdates
<1>7. Sends(p) = e
  BY DEF Sends, z
<1>8. QED
  BY <1>6, <1>7

(* The byte is over. *)
LEMMA ReceivedTyped ==
  ASSUME ee \in EeRecord
  PROVE  Received \in EeRecord
<1> DEFINE free == [ee EXCEPT !.n = 0, !.byte = 0, !.pulls = FALSE]
           a == [ee EXCEPT !.n = 0]
           b == [a EXCEPT !.byte = 0]
           c == [b EXCEPT !.pulls = FALSE]
<1>1. a \in EeRecord
  BY EeUpdates, EeNumbers
<1>2. b \in EeRecord
  BY <1>1, EeUpdates, EeNumbers
<1>3. FALSE \in BOOLEAN
  OBVIOUS
<1>4. c \in EeRecord
  <2> HIDE DEF b
  <2>1. QED
    BY <1>2, <1>3, EeUpdates, Zenon
<1>5. free \in EeRecord
  <2>1. free = c
    OBVIOUS
  <2>2. QED
    BY <1>4, <2>1
<1>6. ee.ptr \in EeAddresses /\ ee.byte \in BusByte /\ ee.page \in Pages
  BY EeFields
<1>7. /\ "offset" \in EeStates /\ "data" \in EeStates
      /\ ee.byte % EepromSize \in EeAddresses
      /\ Append(ee.page, ee.byte) \in Pages
  BY <1>6, EeNumbers DEF EeStates
<1> DEFINE f == [free EXCEPT !.st = "offset"]
           g == [free EXCEPT !.st = "data", !.ptr = ee.byte % EepromSize]
           h == [free EXCEPT !.page = Append(@, ee.byte)]
<1>8. f \in EeRecord
  <2> HIDE DEF free
  <2>1. QED
    BY <1>5, <1>7, EeUpdates
<1>9. g \in EeRecord
  <2> DEFINE q == ee.byte % EepromSize
             d == [free EXCEPT !.st = "data"]
  <2>1. q \in EeAddresses
    BY <1>7
  <2> HIDE DEF free, q
  <2>2. d \in EeRecord
    BY <1>5, <1>7, EeUpdates
  <2>3. [d EXCEPT !.ptr = q] \in EeRecord
    <3> HIDE DEF d
    <3>1. QED
      BY <2>1, <2>2, EeUpdates
  <2>4. g = [d EXCEPT !.ptr = q]
    BY DEF q
  <2>5. QED
    BY <2>3, <2>4
<1>10. h \in EeRecord
  <2>1. free.page = ee.page
    BY DEF EeRecord
  <2>2. h = [free EXCEPT !.page = Append(ee.page, ee.byte)]
    BY <2>1
  <2> HIDE DEF free, h
  <2>3. QED
    BY <1>5, <1>7, <2>2, EeUpdates
<1>11. Sends(ee.ptr) \in EeRecord
  BY <1>6, SendsTyped
<1>12. Received \in {Sends(ee.ptr), f, g, h}
  <2> HIDE DEF f, g, h
  <2>1. Received = CASE ee.st = "address" /\ ee.byte % 2 = 1 -> Sends(ee.ptr)
                     [] ee.st = "address" /\ ee.byte % 2 = 0 -> f
                     [] ee.st = "offset" -> g
                     [] OTHER -> h
    BY Zenon DEF Received, f, g, h
  <2>2. QED
    BY <2>1
<1> HIDE DEF f, g, h
<1>13. QED
  BY <1>8, <1>9, <1>10, <1>11, <1>12

(* SCL falls. *)
LEMMA FallsTyped ==
  ASSUME ee \in EeRecord
  PROVE  SclFalls \in EeRecord
<1> DEFINE n == ee.n + 1
           m == (ee.ptr + 1) % EepromSize
           z == (Bit(ee.mem[ee.ptr], ee.n + 1) = 0)
           a == [ee EXCEPT !.n = n, !.pulls = TRUE]
           b == [ee EXCEPT !.st = "ignore"]
           c == [ee EXCEPT !.pulls = z]
           d == [ee EXCEPT !.pulls = FALSE]
<1>1. ee.n \in EeCounts /\ ee.ptr \in EeAddresses
  BY EeFields
<1>2. m \in EeAddresses /\ Width \in Nat /\ ee.n \in Nat
      /\ (ee.n = Width => n \in EeCounts)
  BY <1>1, EeNumbers
<1>3. TRUE \in BOOLEAN /\ FALSE \in BOOLEAN /\ z \in BOOLEAN
      /\ "ignore" \in EeStates
  BY DEF EeStates
<1> HIDE DEF n, z, m
<1>4. b \in EeRecord
  BY <1>3, EeUpdates
<1>5. c \in EeRecord
  BY <1>3, EeUpdates, Zenon
<1>6. d \in EeRecord
  BY <1>3, EeUpdates, Zenon
<1>7. ee.n = Width => a \in EeRecord
  <2> SUFFICES ASSUME ee.n = Width PROVE a \in EeRecord
    OBVIOUS
  <2> DEFINE f == [ee EXCEPT !.n = n]
  <2>1. f \in EeRecord
    BY <1>2, EeUpdates
  <2>2. [f EXCEPT !.pulls = TRUE] \in EeRecord
    <3> HIDE DEF f
    <3>1. QED
      BY <1>3, <2>1, EeUpdates, Zenon
  <2>3. a = [f EXCEPT !.pulls = TRUE]
    OBVIOUS
  <2>4. QED
    BY <2>2, <2>3
<1>8. Received \in EeRecord /\ Sends(m) \in EeRecord
  BY <1>2, ReceivedTyped, SendsTyped
<1> HIDE DEF a, b, c, d
<1>9. SclFalls =
        CASE Receives /\ ee.n = Width -> IF Acknowledges THEN a ELSE b
          [] Receives /\ ee.n = Width + 1 -> Received
          [] ee.st = "read" /\ ee.n < Width -> c
          [] ee.st = "read" /\ ee.n = Width -> d
          [] ee.st = "read" /\ ee.n = Width + 1 -> Sends(m)
          [] OTHER -> ee
  BY Zenon DEF SclFalls, a, b, c, d, n, z, m
<1>10. \/ SclFalls \in {b, c, d, Received, Sends(m), ee}
       \/ ee.n = Width /\ SclFalls = a
  BY <1>9
<1>11. QED
  BY <1>4, <1>5, <1>6, <1>7, <1>8, <1>10

(* What is written to the memory are bytes. *)
LEMMA CommittedTyped ==
  ASSUME ee \in EeRecord
  PROVE  Committed \in Images
<1> DEFINE base == ee.ptr - (ee.ptr % ChipPage)
           ks(a) == {k \in DOMAIN ee.page :
                       base + ((ee.ptr + k - 1) % ChipPage) = a}
           last(a) == CHOOSE k \in ks(a) : \A j \in ks(a) : j <= k
<1>1. ee.page \in Seq(BusByte) /\ ee.mem \in [EeAddresses -> BusByte]
  BY EeFields DEF Pages, Images
<1>2. Len(ee.page) \in Nat /\ DOMAIN ee.page = 1 .. Len(ee.page)
      /\ \A k \in 1 .. Len(ee.page) : ee.page[k] \in BusByte
  BY <1>1, LenProperties, ElementOfSeq
<1>3. ASSUME NEW a \in EeAddresses, ks(a) # {}
      PROVE  ee.page[last(a)] \in BusByte
  <2>1. ks(a) \in SUBSET (0 .. Len(ee.page)) /\ ks(a) \subseteq DOMAIN ee.page
    BY <1>2
  <2> DEFINE S == ks(a)
  <2> HIDE DEF ks
  <2>2. Max(S) \in S /\ \A j \in S : Max(S) >= j
    BY <1>2, <1>3, <2>1, MaxIn
  <2>3. \E k \in S : \A j \in S : j <= k
    BY <1>2, <2>1, <2>2
  <2>4. last(a) \in S
    BY <2>3
  <2>5. QED
    BY <1>2, <2>1, <2>4
<1> HIDE DEF last
<1>4. Committed = [a \in EeAddresses |->
                     IF ks(a) = {} THEN ee.mem[a] ELSE ee.page[last(a)]]
  <2>1. DOMAIN ee.mem = EeAddresses
    BY <1>1
  <2>2. QED
    BY <2>1, Zenon DEF Committed, base, ks, last
<1> HIDE DEF ks
<1>5. \A a \in EeAddresses :
        (IF ks(a) = {} THEN ee.mem[a] ELSE ee.page[last(a)]) \in BusByte
  BY <1>1, <1>3
<1>6. QED
  BY <1>4, <1>5 DEF Images

(* SDA falls or rises while SCL is high. *)
LEMMA StartStopTyped ==
  ASSUME ee \in EeRecord
  PROVE  Start \in EeRecord /\ Stop \in EeRecord
<1>1. FALSE \in BOOLEAN /\ "idle" \in EeStates /\ "address" \in EeStates
  BY DEF EeStates
<1> DEFINE q(z, x) == [[[[[z EXCEPT !.st = x] EXCEPT !.n = 0]
                           EXCEPT !.byte = 0] EXCEPT !.pulls = FALSE]
                           EXCEPT !.page = << >>]
<1>2. ASSUME NEW z \in EeRecord, NEW x \in EeStates PROVE q(z, x) \in EeRecord
  <2> DEFINE a == [z EXCEPT !.st = x]
             b == [a EXCEPT !.n = 0]
             c == [b EXCEPT !.byte = 0]
             d == [c EXCEPT !.pulls = FALSE]
             e == [d EXCEPT !.page = << >>]
  <2>1. a \in EeRecord
    BY EeUpdates
  <2>2. b \in EeRecord
    <3> HIDE DEF a
    <3>1. QED
      BY <2>1, EeUpdates, EeNumbers
  <2>3. c \in EeRecord
    <3> HIDE DEF b
    <3>1. QED
      BY <2>2, EeUpdates, EeNumbers
  <2>4. d \in EeRecord
    <3> HIDE DEF c
    <3>1. QED
      BY <1>1, <2>3, EeUpdates, Zenon
  <2>5. e \in EeRecord
    <3> HIDE DEF d
    <3>1. QED
      BY <2>4, EeUpdates, EeNumbers
  <2>6. QED
    BY <2>5
<1>3. Start = q(ee, "address")
  BY DEF Start
<1>4. Start \in EeRecord
  BY <1>1, <1>2, <1>3
<1> DEFINE w == ee.st = "data" /\ ee.page # << >> /\ ee.n <= 1
           m == IF w THEN Committed ELSE ee.mem
           b == ee.busy \/ w
<1>5. m \in Images /\ b \in BOOLEAN
  BY EeFields, CommittedTyped
<1>6. Stop = [[q(ee, "idle") EXCEPT !.mem = m] EXCEPT !.busy = b]
  <2>1. q(ee, "idle").mem = ee.mem /\ q(ee, "idle").busy = ee.busy
    BY DEF EeRecord
  <2>2. Stop = [q(ee, "idle") EXCEPT !.mem = m, !.busy = b]
    BY <2>1 DEF Stop
  <2>3. QED
    BY <2>2
<1> HIDE DEF m, b
<1>7. Stop \in EeRecord
  <2> DEFINE z == q(ee, "idle")
             y == [z EXCEPT !.mem = m]
  <2>1. z \in EeRecord
    BY <1>1, <1>2
  <2> HIDE DEF z
  <2>2. y \in EeRecord
    BY <1>5, <2>1, EeUpdates
  <2>3. [y EXCEPT !.busy = b] \in EeRecord
    <3> HIDE DEF y
    <3>1. QED
      BY <1>5, <2>2, EeUpdates, Zenon
  <2>4. QED
    BY <1>6, <2>3 DEF z
<1>8. QED
  BY <1>4, <1>7

(* Whatever SCL does, the EEPROM remains one. *)
LEMMA EdgesTyped ==
  ASSUME ee \in EeRecord, sda \in {0, 1}, NEW e,
         Risen(e) \/ Fallen(e) \/ Freed(e)
  PROVE  e \in EeRecord
<1>1. SclRises \in EeRecord /\ SclFalls \in EeRecord
      /\ TRUE \in BOOLEAN /\ FALSE \in BOOLEAN
  BY RisesTyped, FallsTyped
<1>2. /\ \A z \in EeRecord : [z EXCEPT !.holds = TRUE] \in EeRecord
                             /\ [z EXCEPT !.holds = FALSE] \in EeRecord
  BY <1>1, EeUpdates, Zenon
<1>3. QED
  BY <1>1, <1>2, Zenon DEF Risen, Fallen, Freed

(* e and z differ at most in what holds SCL *)
Alike(e, z) ==
  /\ e.st = z.st /\ e.n = z.n /\ e.byte = z.byte /\ e.pulls = z.pulls
  /\ e.ptr = z.ptr /\ e.page = z.page /\ e.busy = z.busy /\ e.mem = z.mem

(* Only holds is left open after an edge. *)
LEMMA EdgesAlike ==
  ASSUME ee \in EeRecord, sda \in {0, 1}, NEW e
  PROVE  /\ Risen(e) => Alike(e, SclRises) /\ ~e.holds
         /\ Fallen(e) => Alike(e, SclFalls)
         /\ Freed(e) => Alike(e, ee)
<1>1. SclRises \in EeRecord /\ SclFalls \in EeRecord
  BY RisesTyped, FallsTyped
<1>2. ASSUME NEW z \in EeRecord, NEW x \in BOOLEAN
      PROVE  Alike([z EXCEPT !.holds = x], z)
  BY DEF EeRecord, Alike
<1>3. TRUE \in BOOLEAN /\ FALSE \in BOOLEAN
  OBVIOUS
<1>4. \A z \in EeRecord : Alike(z, z) /\ Alike([z EXCEPT !.holds = TRUE], z)
                          /\ Alike([z EXCEPT !.holds = FALSE], z)
  BY <1>2, <1>3, Zenon DEF Alike
<1>5. ASSUME ~ee.holds PROVE ~SclRises.holds
  <2>1. SclRises = ee \/ SclRises.holds = ee.holds
    <3> DEFINE b == (2 * ee.byte + SdaLevel) % Pow2[Width]
    <3> HIDE DEF b
    <3>1. ee.n \in Nat /\ Width \in Nat
      BY EeFields, EeNumbers
    <3>2. \/ SclRises = ee
          \/ SclRises = [ee EXCEPT !.byte = b, !.n = ee.n + 1]
          \/ SclRises = [ee EXCEPT !.n = ee.n + 1]
          \/ SclRises = [ee EXCEPT !.st = "ignore"]
      <4>1. CASE Receives /\ ee.n < Width
        BY <4>1, Zenon DEF SclRises, Receives, b
      <4>2. CASE ~(Receives /\ ee.n < Width)
        BY <3>1, <4>2 DEF SclRises
      <4>3. QED
        BY <4>1, <4>2
    <3>3. QED
      BY <3>2 DEF EeRecord
  <2>2. QED
    BY <1>5, <2>1
<1>6. \A z \in EeRecord : ~[z EXCEPT !.holds = FALSE].holds
  BY DEF EeRecord
<1>7. QED
  BY <1>1, <1>4, <1>5, <1>6, Zenon DEF Risen, Fallen, Freed

-----------------------------------------------------------------------------
(* Transfers *)

(* t is a transaction: it sends the bytes out, receives in bytes, and ends *)
(* with end; p are its pin operations; it begins with the contents mem,    *)
(* and at is where it writes or reads.  A page is not left.                *)
IsTransfer(t) ==
  /\ t.out \in Seq(BusByte) /\ Len(t.out) >= 1
  /\ t.in \in Nat /\ t.end \in {i2c_stop, i2c_stopr}
  /\ t.at \in EeAddresses /\ t.mem \in Images
  /\ IsTransaction(t.p, t.out, t.in, t.end)
  /\ t.out[1] % 2 = IF t.in > 0 THEN 1 ELSE 0
  /\ t.in > 0 => Len(t.out) = 1 /\ t.end = i2c_stop
  /\ t.at + t.in <= EepromSize
  /\ Len(t.out) >= 2 => t.out[2] = t.at
  /\ Len(t.out) >= 3 => (t.at % ChipPage) + Len(t.out) - 2 <= ChipPage
  /\ t.end = i2c_stopr => Len(t.out) = 2

Level(op) == IF op = "sda1" THEN 1 ELSE 0

(* the EEPROM listens to the j-th byte *)
StOf(j) == IF j = 1 THEN "address" ELSE IF j = 2 THEN "offset" ELSE "data"
PageOf(t, j) == IF j <= 3 THEN << >> ELSE SubSeq(t.out, 3, j - 1)

Hears(t, j, e, n, b) ==
  /\ e.st = StOf(j) /\ e.n = n /\ e.byte = b
  /\ e.page = PageOf(t, j)
  /\ e.mem = t.mem
  /\ (t.in > 0 \/ j >= 3) => e.ptr = t.at

(* it ignores the rest of the transaction *)
Ignores(t, e) == e.st = "ignore" /\ ~e.pulls /\ ~e.holds /\ e.mem = t.mem

(* it is between bytes and listens *)
Listens(t, j, e) == Hears(t, j, e, 0, 0) /\ ~e.pulls

(* before and after the k-th clock of the j-th byte that is sent *)
OutLow(t, j, k, e) ==
  IF k <= Width THEN Hears(t, j, e, k - 1, High(t.out[j], k - 1)) /\ ~e.pulls
  ELSE Ignores(t, e) \/ (Hears(t, j, e, Width + 1, t.out[j]) /\ e.pulls)
OutHigh(t, j, k, e) ==
  IF k <= Width THEN Hears(t, j, e, k, High(t.out[j], k)) /\ ~e.pulls
  ELSE Ignores(t, e) \/ (Hears(t, j, e, Width + 1, t.out[j]) /\ e.pulls)

(* The facts about a transfer. *)
LEMMA TransferFacts ==
  ASSUME NEW t, IsTransfer(t)
  PROVE  /\ t.out \in Seq(BusByte) /\ Len(t.out) \in Nat /\ Len(t.out) >= 1
         /\ \A j \in 1 .. Len(t.out) : t.out[j] \in BusByte
         /\ t.in \in Nat /\ t.end \in {i2c_stop, i2c_stopr}
         /\ t.at \in EeAddresses /\ t.at \in Nat /\ t.mem \in Images
         /\ t.at + t.in <= EepromSize
         /\ t.in > 0 => Len(t.out) = 1
<1>1. t.out \in Seq(BusByte) /\ t.at \in EeAddresses
  BY DEF IsTransfer
<1>2. Len(t.out) \in Nat /\ \A j \in 1 .. Len(t.out) : t.out[j] \in BusByte
  BY <1>1, LenProperties, ElementOfSeq
<1>3. t.at \in Nat
  BY <1>1, EeNumbers
<1>4. QED
  BY <1>1, <1>2, <1>3 DEF IsTransfer

(* A bit that is sent is heard. *)
LEMMA OutRises ==
  ASSUME NEW t, IsTransfer(t), NEW j \in 1 .. Len(t.out),
         NEW k \in 1 .. Width + 1, ee \in EeRecord,
         sda = Level(DataOp(t.out[j], k)), OutLow(t, j, k, ee),
         NEW e, Risen(e)
  PROVE  OutHigh(t, j, k, e)
<1> DEFINE v == t.out[j]
<1>1. v \in BusByte /\ Width \in Nat /\ Width >= 2
  BY TransferFacts, Widths
<1>2. sda \in {0, 1}
  BY DEF Level
<1>3. Alike(e, SclRises)
  BY <1>2, EdgesAlike
<1>4. CASE k <= Width
  <2>1. /\ High(v, k - 1) \in BusByte /\ Bit(v, k) \in {0, 1}
        /\ High(v, k) = 2 * High(v, k - 1) + Bit(v, k)
        /\ High(v, k) \in BusByte
    <3> DEFINE i == k - 1
    <3>1. i \in 0 .. Width /\ i < Width /\ i + 1 = k /\ k \in 0 .. Width
      BY <1>1, <1>4
    <3> HIDE DEF i, v
    <3>2. /\ High(v, i) \in BusByte
          /\ Bit(v, i + 1) \in {0, 1}
          /\ High(v, i + 1) = 2 * High(v, i) + Bit(v, i + 1)
      BY <1>1, <3>1, HighProps
    <3>3. High(v, k) \in BusByte
      BY <1>1, <3>1, HighProps
    <3>4. QED
      BY <3>1, <3>2, <3>3 DEF i
  <2>2. Hears(t, j, ee, k - 1, High(v, k - 1)) /\ ~ee.pulls
    BY <1>4 DEF OutLow
  <2>3. sda = Bit(v, k)
    BY <1>4, <2>1 DEF Level, DataOp
  <2>4. SdaLevel = Bit(v, k)
    BY <1>2, <2>2, <2>3, Levels
  <2>5. ee.n = k - 1 /\ ee.byte = High(v, k - 1) /\ ee.st = StOf(j)
    BY <2>2 DEF Hears
  <2>6. Receives /\ ee.n < Width /\ ee.st # "read"
    BY <1>1, <1>4, <2>5 DEF Receives, StOf
  <2> DEFINE b == (2 * ee.byte + SdaLevel) % Pow2[Width]
             n == ee.n + 1
  <2>7. SclRises = [ee EXCEPT !.byte = b, !.n = n]
    BY <2>6, Zenon DEF SclRises
  <2>8. b = High(v, k)
    <3> DEFINE m == Pow2[Width]
               x == 2 * High(v, k - 1) + Bit(v, k)
    <3>1. m \in Nat \ {0}
      BY <1>1, Powers
    <3>2. x \in 0 .. m - 1 /\ x = High(v, k)
      BY <2>1 DEF BusByte
    <3>3. b = x % m
      BY <2>4, <2>5
    <3> HIDE DEF m, x, b
    <3>4. x % m = x
      BY <3>1, <3>2, ModSmall
    <3>5. QED
      BY <3>2, <3>3, <3>4
  <2>9. n = k
    BY <2>5
  <2> HIDE DEF b, n
  <2>10. /\ SclRises.st = ee.st /\ SclRises.n = k
         /\ SclRises.byte = High(v, k) /\ SclRises.pulls = ee.pulls
         /\ SclRises.ptr = ee.ptr /\ SclRises.page = ee.page
         /\ SclRises.mem = ee.mem
    BY <2>7, <2>8, <2>9 DEF EeRecord
  <2>11. Hears(t, j, e, k, High(v, k)) /\ ~e.pulls
    BY <1>3, <2>2, <2>10 DEF Alike, Hears
  <2>12. QED
    BY <1>4, <2>11 DEF OutHigh
<1>5. CASE ~(k <= Width)
  <2>1. Ignores(t, ee) \/ (Hears(t, j, ee, Width + 1, v) /\ ee.pulls)
    BY <1>5 DEF OutLow
  <2>2. CASE Ignores(t, ee)
    <3>1. ee.st = "ignore" /\ ~Receives /\ ee.st # "read"
      BY <2>2 DEF Ignores, Receives
    <3>2. SclRises = ee
      BY <3>1, Zenon DEF SclRises
    <3>3. e.st = ee.st /\ e.pulls = ee.pulls /\ e.mem = ee.mem
      BY <1>3, <3>2 DEF Alike
    <3>4. ~e.holds
      BY <2>2, <3>2 DEF Risen, EeRecord, Ignores
    <3>5. Ignores(t, e)
      BY <2>2, <3>3, <3>4 DEF Ignores
    <3>6. QED
      BY <1>5, <3>5 DEF OutHigh
  <2>3. CASE Hears(t, j, ee, Width + 1, v) /\ ee.pulls
    <3>1. ee.n = Width + 1 /\ ee.st = StOf(j)
      BY <2>3 DEF Hears
    <3>2. ~(ee.n < Width) /\ ee.st # "read"
      BY <1>1, <3>1 DEF StOf
    <3>3. SclRises = ee
      BY <3>2, Zenon DEF SclRises
    <3>4. Hears(t, j, e, Width + 1, v) /\ e.pulls
      BY <1>3, <2>3, <3>3 DEF Alike, Hears
    <3>5. QED
      BY <1>5, <3>4 DEF OutHigh
  <2>4. QED
    BY <2>1, <2>2, <2>3
<1>6. QED
  BY <1>4, <1>5

(* The clock falls after a bit: another bit, or the acknowledgement. *)
LEMMA OutFalls ==
  ASSUME NEW t, IsTransfer(t), NEW j \in 1 .. Len(t.out),
         NEW k \in 1 .. Width, ee \in EeRecord, sda \in {0, 1}, ~ee.holds,
         OutHigh(t, j, k, ee), NEW e, Fallen(e)
  PROVE  OutLow(t, j, k + 1, e)
<1> DEFINE v == t.out[j]
<1>1. v \in BusByte /\ Width \in Nat /\ Width >= 2 /\ k <= Width
  BY TransferFacts, Widths
<1>2. Alike(e, SclFalls)
  BY EdgesAlike
<1>3. Hears(t, j, ee, k, High(v, k)) /\ ~ee.pulls
  BY <1>1 DEF OutHigh
<1>4. ee.n = k /\ ee.st = StOf(j) /\ ee.byte = High(v, k)
  BY <1>3 DEF Hears
<1>5. Receives /\ ee.st # "read" /\ ee.n # Width + 1
  BY <1>1, <1>4 DEF Receives, StOf
<1>6. CASE k < Width
  <2>1. ee.n # Width /\ k + 1 <= Width /\ (k + 1) - 1 = k
    BY <1>1, <1>4, <1>6
  <2>2. SclFalls = ee
    BY <1>5, <2>1, Zenon DEF SclFalls
  <2>3. Hears(t, j, e, k, High(v, k)) /\ ~e.pulls
    BY <1>2, <1>3, <2>2 DEF Alike, Hears
  <2>4. QED
    BY <2>1, <2>3 DEF OutLow
<1>7. CASE k = Width
  <2>1. ~(k + 1 <= Width) /\ ee.n = Width /\ ee.byte = v
    BY <1>1, <1>4, <1>7, HighProps
  <2> DEFINE n == ee.n + 1
             a == [ee EXCEPT !.n = n, !.pulls = TRUE]
             b == [ee EXCEPT !.st = "ignore"]
  <2>2. SclFalls = IF Acknowledges THEN a ELSE b
    BY <1>5, <2>1, Zenon DEF SclFalls
  <2>3. CASE Acknowledges
    <3>1. n = Width + 1
      BY <2>1
    <3> HIDE DEF n
    <3>2. /\ a.st = ee.st /\ a.n = n /\ a.byte = ee.byte /\ a.pulls
          /\ a.ptr = ee.ptr /\ a.page = ee.page /\ a.mem = ee.mem
      BY DEF EeRecord
    <3> HIDE DEF a
    <3>3. SclFalls = a
      BY <2>2, <2>3
    <3>4. Hears(t, j, e, Width + 1, v) /\ e.pulls
      BY <1>2, <1>3, <2>1, <3>1, <3>2, <3>3 DEF Alike, Hears
    <3>5. QED
      BY <2>1, <3>4 DEF OutLow
  <2>4. CASE ~Acknowledges
    <3>1. /\ b.st = "ignore" /\ b.pulls = ee.pulls /\ b.holds = ee.holds
          /\ b.mem = ee.mem
      BY DEF EeRecord
    <3> HIDE DEF b
    <3>2. SclFalls = b
      BY <2>2, <2>4
    <3>3. e = b
      BY <3>1, <3>2 DEF Fallen
    <3>4. Ignores(t, e)
      BY <1>3, <3>1, <3>3 DEF Ignores, Hears
    <3>5. QED
      BY <2>1, <3>4 DEF OutLow
  <2>5. QED
    BY <2>3, <2>4
<1>8. QED
  BY <1>1, <1>6, <1>7

(* Nothing moves an EEPROM that ignores the bus. *)
LEMMA IgnoresOn ==
  ASSUME NEW t, ee \in EeRecord, sda \in {0, 1}, Ignores(t, ee), NEW e,
         Risen(e) \/ Fallen(e) \/ Freed(e)
  PROVE  Ignores(t, e)
<1>1. ee.st = "ignore" /\ ~Receives /\ ee.st # "read"
  BY DEF Ignores, Receives
<1>2. SclRises = ee /\ SclFalls = ee
  BY <1>1, Zenon DEF SclRises, SclFalls
<1>3. e.st = ee.st /\ e.pulls = ee.pulls /\ e.mem = ee.mem
  BY <1>2, EdgesAlike DEF Alike
<1>4. ~[ee EXCEPT !.holds = FALSE].holds
  BY DEF EeRecord
<1>5. ~e.holds
  <2>1. CASE Risen(e) \/ Freed(e)
    BY <1>2, <1>4, <2>1, Zenon DEF Risen, Freed, Ignores
  <2>2. CASE Fallen(e)
    BY <1>1, <1>2, <2>2 DEF Fallen, Ignores
  <2>3. QED
    BY <2>1, <2>2
<1>6. QED
  BY <1>3, <1>5 DEF Ignores

-----------------------------------------------------------------------------
(* Reading *)

(* the EEPROM sends the j-th byte *)
Tells(t, j, e, n) ==
  e.st = "read" /\ e.n = n /\ e.ptr = t.at + j - 1 /\ e.mem = t.mem
Puts(t, j, e, k) == e.pulls = (Bit(t.mem[t.at + j - 1], k) = 0)

(* before and after the clock of the q-th step of the j-th byte in *)
InLow(t, j, q, e) ==
  IF q = 0 THEN Tells(t, j, e, 0) /\ Puts(t, j, e, 1)
  ELSE IF q <= Width THEN Tells(t, j, e, q - 1) /\ Puts(t, j, e, q)
  ELSE Tells(t, j, e, Width) /\ ~e.pulls
InHigh(t, j, q, e) ==
  IF q <= Width THEN Tells(t, j, e, q) /\ Puts(t, j, e, q)
  ELSE IF j < t.in THEN Tells(t, j, e, Width + 1) /\ ~e.pulls
  ELSE Ignores(t, e)

(* A byte to send, field by field. *)
LEMMA SendsFields ==
  ASSUME ee \in EeRecord, NEW p \in EeAddresses
  PROVE  /\ Sends(p).st = "read" /\ Sends(p).n = 0 /\ Sends(p).ptr = p
         /\ Sends(p).pulls = (Bit(ee.mem[p], 1) = 0)
         /\ Sends(p).mem = ee.mem
<1> DEFINE z == (Bit(ee.mem[p], 1) = 0)
           s == [ee EXCEPT !.st = "read", !.n = 0, !.byte = 0, !.ptr = p,
                           !.pulls = z]
<1>1. Sends(p) = s
  BY DEF Sends
<1> HIDE DEF z
<1>2. /\ s.st = "read" /\ s.n = 0 /\ s.ptr = p /\ s.pulls = z
      /\ s.mem = ee.mem
  BY DEF EeRecord
<1> HIDE DEF s
<1>3. QED
  BY <1>1, <1>2, Zenon DEF z

(* The page so far, and one byte more. *)
LEMMA PageGrows ==
  ASSUME NEW t, IsTransfer(t), NEW j \in 3 .. Len(t.out)
  PROVE  Append(PageOf(t, j), t.out[j]) = PageOf(t, j + 1)
<1>1. t.out \in Seq(BusByte) /\ Len(t.out) \in Nat /\ t.out[j] \in BusByte
  BY TransferFacts
<1> DEFINE o == t.out
           p == SubSeq(o, 3, j - 1)
           r == SubSeq(o, 3, j)
<1> HIDE DEF o
<1>2. o \in Seq(BusByte) /\ Len(o) \in Nat /\ j \in 3 .. Len(o)
      /\ o[j] \in BusByte
  BY <1>1 DEF o
<1>3. /\ p \in Seq(BusByte) /\ Len(p) = j - 3
      /\ \A i \in 1 .. j - 3 : p[i] = o[3 + i - 1]
  <2>1. 3 \in 1 .. Len(o) + 1 /\ j - 1 \in 3 - 1 .. Len(o)
        /\ (j - 1) - 3 + 1 = j - 3
    BY <1>2
  <2>2. QED
    BY <1>2, <2>1, SliceProps
<1>4. /\ r \in Seq(BusByte) /\ Len(r) = j - 2
      /\ \A i \in 1 .. j - 2 : r[i] = o[3 + i - 1]
  <2>1. 3 \in 1 .. Len(o) + 1 /\ j \in 3 - 1 .. Len(o)
        /\ j - 3 + 1 = j - 2
    BY <1>2
  <2>2. QED
    BY <1>2, <2>1, SliceProps
<1>5. PageOf(t, j) = p
  <2>1. CASE j = 3
    <3>1. p = << >>
      BY <1>3, <2>1, EmptySeq
    <3>2. QED
      BY <2>1, <3>1 DEF PageOf
  <2>2. CASE j # 3
    BY <2>2 DEF PageOf, o
  <2>3. QED
    BY <2>1, <2>2
<1>6. PageOf(t, j + 1) = r
  BY DEF PageOf, o
<1> HIDE DEF p, r
<1>7. Append(p, o[j]) \in Seq(BusByte) /\ Len(Append(p, o[j])) = j - 2
      /\ \A i \in 1 .. j - 2 :
           Append(p, o[j])[i] = IF i = j - 2 THEN o[j] ELSE p[i]
  BY <1>2, <1>3
<1>8. \A i \in 1 .. j - 2 : Append(p, o[j])[i] = r[i]
  BY <1>2, <1>3, <1>4, <1>7
<1>9. Append(p, o[j]) = r
  BY <1>2, <1>4, <1>7, <1>8, SeqEqual
<1>10. QED
  BY <1>5, <1>6, <1>9 DEF o

(* The acknowledgement is over: the next byte. *)
LEMMA AckFalls ==
  ASSUME NEW t, IsTransfer(t), NEW j \in 1 .. Len(t.out),
         ee \in EeRecord, sda \in {0, 1},
         Hears(t, j, ee, Width + 1, t.out[j]), NEW e, Fallen(e)
  PROVE  IF t.in > 0 THEN InLow(t, 1, 0, e) ELSE Listens(t, j + 1, e)
<1> DEFINE free == [ee EXCEPT !.n = 0, !.byte = 0, !.pulls = FALSE]
           f == [free EXCEPT !.st = "offset"]
           p == ee.byte % EepromSize
           g == [free EXCEPT !.st = "data", !.ptr = p]
           s == Append(ee.page, ee.byte)
           h == [free EXCEPT !.page = s]
<1>1. /\ Width \in Nat /\ t.in \in Nat /\ t.at \in EeAddresses /\ t.at \in Nat
      /\ Len(t.out) \in Nat /\ (t.in > 0 => Len(t.out) = 1)
  BY TransferFacts, Widths
<1>2. Alike(e, SclFalls)
  BY EdgesAlike
<1>3. /\ ee.n = Width + 1 /\ ee.st = StOf(j) /\ ee.byte = t.out[j]
      /\ ee.page = PageOf(t, j) /\ ee.mem = t.mem
      /\ (t.in > 0 \/ j >= 3) => ee.ptr = t.at
  BY DEF Hears
<1>4. Receives /\ ee.n # Width /\ ee.st # "read"
  BY <1>1, <1>3 DEF Receives, StOf
<1>5. SclFalls = Received
  BY <1>3, <1>4, Zenon DEF SclFalls
<1>6. ee.page \in Pages /\ ee.byte \in BusByte
  BY EeFields
<1>7. /\ free.st = ee.st /\ free.n = 0 /\ free.byte = 0 /\ ~free.pulls
      /\ free.ptr = ee.ptr /\ free.page = ee.page /\ free.mem = ee.mem
  BY DEF EeRecord
<1>8. /\ f.st = "offset" /\ f.n = 0 /\ f.byte = 0 /\ ~f.pulls
      /\ f.ptr = ee.ptr /\ f.page = ee.page /\ f.mem = ee.mem
  BY DEF EeRecord
<1>9. g.st = "data" /\ g.n = 0 /\ g.byte = 0 /\ ~g.pulls /\ g.ptr = p
      /\ g.page = ee.page /\ g.mem = ee.mem
  <2> HIDE DEF p
  <2>1. QED
    BY DEF EeRecord
<1>10. /\ h.st = ee.st /\ h.n = 0 /\ h.byte = 0 /\ ~h.pulls
       /\ h.ptr = ee.ptr /\ h.page = s /\ h.mem = ee.mem
  <2> HIDE DEF s
  <2>1. QED
    BY DEF EeRecord
<1>11. free.page = ee.page
  BY <1>7
<1> HIDE DEF f, g, h, free, p, s
<1>12. CASE j = 1 /\ t.in > 0
  <2>1. ee.st = "address" /\ ee.byte % 2 = 1 /\ ee.byte % 2 # 0
    BY <1>1, <1>3, <1>12 DEF StOf, IsTransfer
  <2>2. Received = Sends(ee.ptr)
    BY <2>1, Zenon DEF Received
  <2>3. ee.ptr = t.at /\ ee.ptr \in EeAddresses
    BY <1>1, <1>3, <1>12
  <2>4. /\ Sends(ee.ptr).st = "read" /\ Sends(ee.ptr).n = 0
        /\ Sends(ee.ptr).ptr = ee.ptr
        /\ Sends(ee.ptr).pulls = (Bit(ee.mem[ee.ptr], 1) = 0)
        /\ Sends(ee.ptr).mem = ee.mem
    BY <2>3, SendsFields
  <2>5. t.at + 1 - 1 = t.at
    BY <1>1
  <2>6. Tells(t, 1, e, 0) /\ Puts(t, 1, e, 1)
    BY <1>2, <1>3, <1>5, <2>2, <2>3, <2>4, <2>5, Zenon
       DEF Alike, Tells, Puts
  <2>7. QED
    BY <1>12, <2>6 DEF InLow
<1>13. CASE j = 1 /\ ~(t.in > 0)
  <2>1. ee.st = "address" /\ ee.byte % 2 = 0 /\ ee.byte % 2 # 1
    BY <1>1, <1>3, <1>13 DEF StOf, IsTransfer
  <2>2. Received = f
    BY <2>1, Zenon DEF Received, f, free
  <2>3. e.st = "offset" /\ e.n = 0 /\ e.byte = 0 /\ ~e.pulls
        /\ e.page = ee.page /\ e.mem = ee.mem
    BY <1>2, <1>5, <1>8, <2>2 DEF Alike
  <2>4. StOf(j + 1) = "offset" /\ PageOf(t, j) = PageOf(t, j + 1)
        /\ ~(t.in > 0 \/ j + 1 >= 3)
    BY <1>13 DEF StOf, PageOf
  <2>5. Listens(t, j + 1, e)
    BY <1>3, <2>3, <2>4 DEF Listens, Hears
  <2>6. QED
    BY <1>13, <2>5
<1>14. CASE j = 2
  <2>1. ee.st = "offset" /\ ~(t.in > 0)
    BY <1>1, <1>3, <1>14 DEF StOf
  <2>2. ee.st # "address"
    BY <2>1
  <2>3. Received = g
    BY <2>1, <2>2, Zenon DEF Received, g, free, p
  <2>4. p = t.at
    <3>1. ee.byte = t.at
      BY <1>1, <1>3, <1>14 DEF IsTransfer
    <3>2. t.at \in 0 .. EepromSize - 1 /\ EepromSize \in Nat \ {0}
      BY <1>1, Widths DEF EeAddresses
    <3>3. t.at % EepromSize = t.at
      BY <3>2, ModSmall
    <3>4. QED
      BY <3>1, <3>3 DEF p
  <2>5. e.st = "data" /\ e.n = 0 /\ e.byte = 0 /\ ~e.pulls
        /\ e.page = ee.page /\ e.mem = ee.mem /\ e.ptr = t.at
    BY <1>2, <1>5, <1>9, <2>3, <2>4 DEF Alike
  <2>6. StOf(j + 1) = "data" /\ PageOf(t, j) = PageOf(t, j + 1)
    BY <1>14 DEF StOf, PageOf
  <2>7. Listens(t, j + 1, e)
    BY <1>3, <2>5, <2>6 DEF Listens, Hears
  <2>8. QED
    BY <2>1, <2>7
<1>15. CASE j >= 3
  <2>1. ee.st = "data" /\ ~(t.in > 0) /\ StOf(j + 1) = "data"
    BY <1>1, <1>3, <1>15 DEF StOf
  <2>2. ee.st # "address" /\ ee.st # "offset"
    BY <2>1
  <2>3. Received = [free EXCEPT !.page = Append(free.page, ee.byte)]
    BY <2>2, Zenon DEF Received, free
  <2>4. Received = h
    BY <1>11, <2>3, Zenon DEF h, s
  <2>5. e.st = "data" /\ e.n = 0 /\ e.byte = 0 /\ ~e.pulls
        /\ e.page = s /\ e.mem = ee.mem /\ e.ptr = ee.ptr
    BY <1>2, <1>5, <1>10, <2>1, <2>4 DEF Alike
  <2>6. s = PageOf(t, j + 1)
    BY <1>1, <1>3, <1>15, PageGrows DEF s
  <2>7. Listens(t, j + 1, e)
    BY <1>3, <1>15, <2>1, <2>5, <2>6 DEF Listens, Hears
  <2>8. QED
    BY <2>1, <2>7
<1>16. QED
  BY <1>1, <1>12, <1>13, <1>14, <1>15

(* where a byte that is read comes from *)
LEMMA ReadAddress ==
  ASSUME NEW t, IsTransfer(t), NEW j \in 1 .. t.in
  PROVE  /\ t.at + j - 1 \in EeAddresses
         /\ j < t.in => (t.at + j - 1 + 1) % EepromSize = t.at + (j + 1) - 1
<1>1. t.at \in Nat /\ t.in \in Nat /\ t.at + t.in <= EepromSize
      /\ EepromSize \in Nat \ {0}
  BY TransferFacts, Widths
<1>2. t.at + j - 1 \in EeAddresses
  BY <1>1 DEF EeAddresses
<1>3. ASSUME j < t.in
      PROVE  (t.at + j - 1 + 1) % EepromSize = t.at + (j + 1) - 1
  <2> DEFINE a == t.at + j
  <2>1. a \in 0 .. EepromSize - 1
    BY <1>1, <1>3
  <2>2. t.at + j - 1 + 1 = a /\ t.at + (j + 1) - 1 = a
    BY <1>1
  <2> HIDE DEF a
  <2>3. a % EepromSize = a
    BY <1>1, <2>1, ModSmall
  <2>4. QED
    BY <2>2, <2>3
<1>4. QED
  BY <1>2, <1>3

(* The clock rises on a bit that is read, or on its acknowledgement. *)
LEMMA InRises ==
  ASSUME NEW t, IsTransfer(t), NEW j \in 1 .. t.in,
         NEW q \in 1 .. Width + 2, ee \in EeRecord,
         q # Width + 1, sda \in {0, 1},
         q = Width + 2 => sda = IF j < t.in THEN 0 ELSE 1,
         InLow(t, j, q, ee), NEW e, Risen(e)
  PROVE  InHigh(t, j, q, e)
<1>1. Width \in Nat /\ Width >= 2
  BY Widths
<1>2. Alike(e, SclRises) /\ ~e.holds
  BY EdgesAlike
<1> DEFINE n == ee.n + 1
           a == [ee EXCEPT !.n = n]
           b == [ee EXCEPT !.st = "ignore"]
<1>3. CASE q <= Width
  <2>1. Tells(t, j, ee, q - 1) /\ Puts(t, j, ee, q)
    BY <1>3 DEF InLow
  <2>2. ee.st = "read" /\ ee.n = q - 1
    BY <2>1 DEF Tells
  <2>3. ~Receives /\ ee.n < Width /\ ee.n # Width
    BY <1>1, <1>3, <2>2 DEF Receives
  <2>4. SclRises = a
    BY <2>2, <2>3, Zenon DEF SclRises
  <2>5. n = q
    BY <2>2
  <2> HIDE DEF n
  <2>6. a.st = ee.st /\ a.n = n /\ a.ptr = ee.ptr /\ a.pulls = ee.pulls
        /\ a.mem = ee.mem
    BY DEF EeRecord
  <2> HIDE DEF a
  <2>7. Tells(t, j, e, q) /\ Puts(t, j, e, q)
    BY <1>2, <2>1, <2>4, <2>5, <2>6 DEF Alike, Tells, Puts
  <2>8. QED
    BY <1>3, <2>7 DEF InHigh
<1>4. CASE q = Width + 2
  <2>1. ~(q <= Width) /\ q # 0
    BY <1>1, <1>4
  <2>2. Tells(t, j, ee, Width) /\ ~ee.pulls
    BY <2>1 DEF InLow
  <2>3. ee.st = "read" /\ ee.n = Width /\ SdaLevel = sda
    BY <2>2, Levels DEF Tells
  <2>4. ~Receives /\ ~(ee.n < Width)
    BY <1>1, <2>3 DEF Receives
  <2>5. SclRises = IF SdaLevel = 0 THEN a ELSE b
    BY <2>3, <2>4, Zenon DEF SclRises
  <2>6. n = Width + 1
    BY <2>3
  <2> HIDE DEF n
  <2>7. CASE j < t.in
    <3>1. SclRises = a
      BY <1>4, <2>3, <2>5, <2>7
    <3>2. a.st = ee.st /\ a.n = n /\ a.ptr = ee.ptr /\ a.pulls = ee.pulls
          /\ a.mem = ee.mem
      BY DEF EeRecord
    <3> HIDE DEF a, b
    <3>3. Tells(t, j, e, Width + 1) /\ ~e.pulls
      BY <1>2, <2>2, <2>6, <3>1, <3>2 DEF Alike, Tells
    <3>4. QED
      BY <2>1, <2>7, <3>3 DEF InHigh
  <2>8. CASE ~(j < t.in)
    <3>1. SclRises = b
      BY <1>4, <2>3, <2>5, <2>8
    <3>2. b.st = "ignore" /\ b.pulls = ee.pulls /\ b.mem = ee.mem
      BY DEF EeRecord
    <3> HIDE DEF a, b
    <3>3. Ignores(t, e)
      BY <1>2, <2>2, <3>1, <3>2 DEF Alike, Tells, Ignores
    <3>4. QED
      BY <2>1, <2>8, <3>3 DEF InHigh
  <2>9. QED
    BY <2>7, <2>8
<1>5. QED
  BY <1>1, <1>3, <1>4

(* The clock falls: the next bit is put on the bus. *)
LEMMA InFalls ==
  ASSUME NEW t, IsTransfer(t), NEW j \in 1 .. t.in,
         NEW q \in 1 .. Width, ee \in EeRecord, sda \in {0, 1},
         InHigh(t, j, q, ee), NEW e, Fallen(e)
  PROVE  InLow(t, j, q + 1, e)
<1>1. Width \in Nat /\ Width >= 2 /\ q <= Width /\ q + 1 # 0
  BY Widths
<1>2. Alike(e, SclFalls)
  BY EdgesAlike
<1> DEFINE z == (Bit(ee.mem[ee.ptr], ee.n + 1) = 0)
           a == [ee EXCEPT !.pulls = z]
           b == [ee EXCEPT !.pulls = FALSE]
<1>3. Tells(t, j, ee, q) /\ Puts(t, j, ee, q)
  BY <1>1 DEF InHigh
<1>4. ee.st = "read" /\ ee.n = q /\ ee.ptr = t.at + j - 1 /\ ee.mem = t.mem
  BY <1>3 DEF Tells
<1>5. ~Receives /\ ee.n # Width + 1
  BY <1>1, <1>4 DEF Receives
<1>6. CASE q < Width
  <2>1. ee.n < Width /\ ee.n # Width /\ q + 1 <= Width /\ (q + 1) - 1 = q
    BY <1>1, <1>4, <1>6
  <2>2. SclFalls = a
    BY <1>4, <1>5, <2>1, Zenon DEF SclFalls
  <2>3. z = (Bit(t.mem[t.at + j - 1], q + 1) = 0)
    BY <1>4
  <2> HIDE DEF z
  <2>4. a.st = ee.st /\ a.n = ee.n /\ a.ptr = ee.ptr /\ a.pulls = z
        /\ a.mem = ee.mem
    BY DEF EeRecord
  <2> HIDE DEF a
  <2>5. Tells(t, j, e, q)
    BY <1>2, <1>3, <2>2, <2>4 DEF Alike, Tells
  <2>6. Puts(t, j, e, q + 1)
    BY <1>2, <2>2, <2>3, <2>4, Zenon DEF Alike, Puts
  <2>7. QED
    BY <1>1, <2>1, <2>5, <2>6 DEF InLow
<1>7. CASE q = Width
  <2>1. ~(ee.n < Width) /\ ee.n = Width /\ ~(q + 1 <= Width)
    BY <1>1, <1>4, <1>7
  <2>2. SclFalls = b
    BY <1>4, <1>5, <2>1, Zenon DEF SclFalls
  <2>3. b.st = ee.st /\ b.n = ee.n /\ b.ptr = ee.ptr /\ ~b.pulls
        /\ b.mem = ee.mem
    BY DEF EeRecord
  <2> HIDE DEF b
  <2>4. Tells(t, j, e, Width) /\ ~e.pulls
    BY <1>2, <1>3, <1>7, <2>2, <2>3 DEF Alike, Tells
  <2>5. QED
    BY <1>1, <2>1, <2>4 DEF InLow
<1>8. QED
  BY <1>1, <1>6, <1>7

(* It falls after the acknowledgement: the next byte, if there is one. *)
LEMMA NextByteFalls ==
  ASSUME NEW t, IsTransfer(t), NEW j \in 1 .. t.in,
         ee \in EeRecord, sda \in {0, 1},
         InHigh(t, j, Width + 2, ee), NEW e, Fallen(e)
  PROVE  IF j < t.in THEN InLow(t, j + 1, 0, e) ELSE Ignores(t, e)
<1>1. Width \in Nat /\ ~(Width + 2 <= Width)
  BY Widths
<1>2. Alike(e, SclFalls)
  BY EdgesAlike
<1>3. CASE j < t.in
  <2> DEFINE p == (ee.ptr + 1) % EepromSize
  <2>1. Tells(t, j, ee, Width + 1) /\ ~ee.pulls
    BY <1>1, <1>3 DEF InHigh
  <2>2. ee.st = "read" /\ ee.n = Width + 1 /\ ee.ptr = t.at + j - 1
        /\ ee.mem = t.mem
    BY <2>1 DEF Tells
  <2>3. ~Receives /\ ~(ee.n < Width) /\ ee.n # Width
    BY <1>1, <2>2 DEF Receives
  <2>4. SclFalls = Sends(p)
    BY <2>2, <2>3, Zenon DEF SclFalls
  <2>5. p = t.at + (j + 1) - 1
    BY <1>3, <2>2, ReadAddress
  <2>6. p \in EeAddresses
    BY EeFields, EeNumbers
  <2> HIDE DEF p
  <2>7. /\ Sends(p).st = "read" /\ Sends(p).n = 0 /\ Sends(p).ptr = p
        /\ Sends(p).pulls = (Bit(ee.mem[p], 1) = 0)
        /\ Sends(p).mem = ee.mem
    BY <2>6, SendsFields
  <2>8. Tells(t, j + 1, e, 0) /\ Puts(t, j + 1, e, 1)
    BY <1>2, <2>2, <2>4, <2>5, <2>7, Zenon DEF Alike, Tells, Puts
  <2>9. QED
    BY <1>3, <2>8 DEF InLow
<1>4. CASE ~(j < t.in)
  <2>1. Ignores(t, ee)
    BY <1>1, <1>4 DEF InHigh
  <2>2. Ignores(t, e)
    BY <2>1, IgnoresOn
  <2>3. QED
    BY <1>4, <2>2
<1>5. QED
  BY <1>3, <1>4

(* SCL is let go while it is low: the EEPROM is where it was. *)
LEMMA LowFreed ==
  ASSUME NEW t, ee \in EeRecord, sda \in {0, 1}, NEW e, Freed(e)
  PROVE  /\ \A j, k : OutLow(t, j, k, ee) => OutLow(t, j, k, e)
         /\ \A j, q : InLow(t, j, q, ee) => InLow(t, j, q, e)
         /\ \A j : Listens(t, j, ee) => Listens(t, j, e)
         /\ Ignores(t, ee) => Ignores(t, e)
<1>1. Alike(e, ee)
  BY EdgesAlike
<1>2. Ignores(t, ee) => Ignores(t, e)
  BY IgnoresOn
<1>3. ASSUME NEW j, NEW n, NEW b
      PROVE  Hears(t, j, ee, n, b) => Hears(t, j, e, n, b)
  BY <1>1, Zenon DEF Alike, Hears
<1>4. ASSUME NEW j, NEW k
      PROVE  OutLow(t, j, k, ee) => OutLow(t, j, k, e)
  BY <1>1, <1>2, <1>3, Zenon DEF OutLow, Alike
<1>5. ASSUME NEW j, NEW q
      PROVE  InLow(t, j, q, ee) => InLow(t, j, q, e)
  BY <1>1, Zenon DEF InLow, Alike, Tells, Puts
<1>6. ASSUME NEW j
      PROVE  Listens(t, j, ee) => Listens(t, j, e)
  BY <1>1, <1>3, Zenon DEF Listens, Alike
<1>7. QED
  BY <1>2, <1>4, <1>5, <1>6

-----------------------------------------------------------------------------
(* The end of a transfer *)

(* SCL is high at the end, and the EEPROM has counted that as a clock *)
Open(t, e) ==
  LET j == Len(t.out) + 1
  IN  /\ e.st = StOf(j) /\ e.n = 1 /\ e.page = PageOf(t, j)
      /\ e.mem = t.mem /\ ~e.pulls
      /\ (t.in > 0 \/ j >= 3) => e.ptr = t.at

(* the contents with the bytes that are written *)
Over(t) ==
  [a \in EeAddresses |->
     IF a \in t.at .. t.at + Len(t.out) - 3 THEN t.out[a - t.at + 3]
                                            ELSE t.mem[a]]

Final(t, failed) ==
  IF failed \/ t.in > 0 \/ Len(t.out) < 3 THEN t.mem ELSE Over(t)

(* after the stop *)
Idles(t, failed, e) ==
  /\ e.st = "idle" /\ ~e.pulls /\ ~e.holds
  /\ e.mem = Final(t, failed)
  /\ ~failed /\ Len(t.out) = 2 => e.ptr = t.at

(* SCL rises at the end. *)
LEMMA EndRises ==
  ASSUME NEW t, IsTransfer(t), ee \in EeRecord, sda \in {0, 1},
         Listens(t, Len(t.out) + 1, ee), NEW e, Risen(e)
  PROVE  Open(t, e) /\ ~e.holds
<1> DEFINE j == Len(t.out) + 1
           b == (2 * ee.byte + SdaLevel) % Pow2[Width]
           n == ee.n + 1
           a == [ee EXCEPT !.byte = b, !.n = n]
<1>1. Alike(e, SclRises) /\ ~e.holds
  BY EdgesAlike
<1>2. Width \in Nat /\ Width >= 2
  BY Widths
<1>3. /\ ee.st = StOf(j) /\ ee.n = 0 /\ ee.page = PageOf(t, j)
      /\ ee.mem = t.mem /\ ~ee.pulls
      /\ (t.in > 0 \/ j >= 3) => ee.ptr = t.at
  BY DEF Listens, Hears
<1> HIDE DEF j
<1>4. Receives /\ ee.n < Width /\ ee.st # "read"
  BY <1>2, <1>3 DEF Receives, StOf
<1>5. SclRises = a
  BY <1>4, Zenon DEF SclRises
<1>6. n = 1
  BY <1>3
<1> HIDE DEF b, n
<1>7. /\ a.st = ee.st /\ a.n = n /\ a.pulls = ee.pulls /\ a.ptr = ee.ptr
      /\ a.page = ee.page /\ a.mem = ee.mem
  BY DEF EeRecord
<1> HIDE DEF a
<1>8. /\ e.st = StOf(j) /\ e.n = 1 /\ e.page = PageOf(t, j)
      /\ e.mem = t.mem /\ ~e.pulls
      /\ (t.in > 0 \/ j >= 3) => e.ptr = t.at
  BY <1>1, <1>3, <1>5, <1>6, <1>7 DEF Alike
<1>9. QED
  BY <1>1, <1>8 DEF Open, j

(* The bytes of a page go where they belong: within a page none wraps. *)
LEMMA CommittedIs ==
  ASSUME NEW t, IsTransfer(t), ee \in EeRecord, Len(t.out) >= 3,
         ee.ptr = t.at, ee.page = SubSeq(t.out, 3, Len(t.out)),
         ee.mem = t.mem
  PROVE  Committed = Over(t) /\ ee.page # << >>
<1> DEFINE at == t.at
           o == t.out
           L == Len(o) - 2
           C == ChipPage
           off == at % C
           base == at - off
           g == ee.page
           ks(a) == {k \in DOMAIN g : base + ((at + k - 1) % C) = a}
           last(a) == CHOOSE k \in ks(a) : \A i \in ks(a) : i <= k
<1>1. /\ o \in Seq(BusByte) /\ Len(o) \in Nat /\ at \in Nat
      /\ C \in Nat \ {0} /\ off + Len(o) - 2 <= C
      /\ t.mem \in [EeAddresses -> BusByte]
  BY TransferFacts, Widths DEF IsTransfer, Images
<1>2. off \in 0 .. C - 1 /\ at = C * (at \div C) + off /\ at \div C \in Int
  <2>1. at \in Int /\ C \in Nat \ {0}
    BY <1>1
  <2> HIDE DEF at, C
  <2>2. QED
    BY <2>1, DivMod
<1>3. L \in Nat /\ L >= 1 /\ off + L <= C /\ Len(o) >= 3
  BY <1>1
<1>4. /\ g \in Seq(BusByte) /\ Len(g) = L
      /\ \A i \in 1 .. L : g[i] = o[i + 2]
  <2>1. 3 \in 1 .. Len(o) + 1 /\ Len(o) \in 3 - 1 .. Len(o)
        /\ Len(o) - 3 + 1 = L
    BY <1>1, <1>3
  <2> HIDE DEF o
  <2>2. /\ SubSeq(o, 3, Len(o)) \in Seq(BusByte)
        /\ Len(SubSeq(o, 3, Len(o))) = Len(o) - 3 + 1
        /\ \A i \in 1 .. Len(o) - 3 + 1 :
             SubSeq(o, 3, Len(o))[i] = o[3 + i - 1]
    BY <1>1, <2>1, SliceProps
  <2>3. g = SubSeq(o, 3, Len(o))
    BY DEF o
  <2>4. \A i \in 1 .. L : 3 + i - 1 = i + 2
    OBVIOUS
  <2> HIDE DEF L
  <2>5. QED
    BY <2>1, <2>2, <2>3, <2>4
<1>5. DOMAIN g = 1 .. L /\ g # << >>
  BY <1>3, <1>4
<1>6. ASSUME NEW k \in 1 .. L
      PROVE  base + ((at + k - 1) % C) = at + k - 1
  <2> DEFINE q == at \div C
             r == off + k - 1
             z == at + k - 1
  <2>1. r \in 0 .. C - 1 /\ z \in Int
    <3>1. off \in Nat /\ L \in Nat /\ off + L <= C /\ C \in Nat /\ at \in Nat
      BY <1>1, <1>2, <1>3
    <3> HIDE DEF off, L, C, at
    <3>2. QED
      BY <3>1
  <2>2. C * q \in Int /\ at = C * q + off /\ q \in Int
    BY <1>1, <1>2
  <2> HIDE DEF off, L, q
  <2>3. z = C * q + r
    BY <1>1, <1>2, <2>2
  <2> HIDE DEF z, r
  <2>4. z % C = r
    BY <1>1, <2>1, <2>2, <2>3, ModUnique
  <2>5. off \in Int /\ at \in Int
    BY <1>1, <1>2, SMTT(30)
  <2>6. base + r = at + k - 1
    BY <2>5 DEF r
  <2>7. QED
    BY <2>4, <2>6 DEF z
<1> HIDE DEF L, off, g
<1>7. ASSUME NEW a \in EeAddresses
      PROVE  (IF ks(a) = {} THEN t.mem[a] ELSE g[last(a)]) = Over(t)[a]
  <2>1. a \in Nat
    BY EeNumbers
  <2>2. ks(a) = {k \in 1 .. L : at + k - 1 = a}
    BY <1>5, <1>6
  <2>3. CASE a \in at .. at + L - 1
    <3> DEFINE i == a - at + 1
    <3>1. i \in 1 .. L /\ at + i - 1 = a
      BY <1>1, <1>3, <2>1, <2>3
    <3>2. ks(a) = {i}
      <4>1. \A k \in 1 .. L : at + k - 1 = a => k = i
        BY <1>1, <2>1
      <4> HIDE DEF i, ks
      <4>2. QED
        BY <2>2, <3>1, <4>1
    <3>3. \A k \in ks(a) : k = i
      BY <3>2
    <3>4. \E k \in ks(a) : \A m \in ks(a) : m <= k
      <4>1. i <= i
        BY <3>1
      <4>2. QED
        BY <3>2, <4>1
    <3>5. last(a) \in ks(a)
      BY <3>4
    <3>6. last(a) = i
      BY <3>3, <3>5
    <3> HIDE DEF last, ks
    <3>7. g[i] = o[i + 2] /\ i + 2 = a - at + 3
      <4>1. g[i] = o[i + 2]
        BY <1>4, <3>1
      <4>2. i + 2 = a - at + 3
        BY <1>1, <2>1, SMTT(30)
      <4>3. QED
        BY <4>1, <4>2
    <3>8. at + L - 1 = at + Len(o) - 3
      BY <1>1 DEF L
    <3>9. Over(t)[a] = o[a - at + 3]
      BY <2>3, <3>8 DEF Over
    <3>10. ks(a) # {}
      BY <3>2
    <3>11. QED
      BY <3>6, <3>7, <3>9, <3>10
  <2>4. CASE ~(a \in at .. at + L - 1)
    <3>1. \A k \in 1 .. L : at + k - 1 # a
      BY <1>1, <1>3, <2>1, <2>4
    <3>2. ks(a) = {}
      BY <2>2, <3>1
    <3>3. at + L - 1 = at + Len(o) - 3
      BY <1>1 DEF L
    <3>4. Over(t)[a] = t.mem[a]
      BY <2>4, <3>3 DEF Over
    <3> HIDE DEF ks, last
    <3>5. QED
      BY <3>2, <3>4
  <2>5. QED
    BY <2>3, <2>4
<1>8. Committed = [a \in DOMAIN ee.mem |->
                     IF ks(a) = {} THEN ee.mem[a] ELSE g[last(a)]]
  <2> DEFINE is(p, a) == {k \in DOMAIN ee.page :
                            p - (p % C) + ((p + k - 1) % C) = a}
             com(p) == [a \in DOMAIN ee.mem |->
                          IF is(p, a) = {} THEN ee.mem[a]
                          ELSE ee.page[CHOOSE k \in is(p, a) :
                                         \A i \in is(p, a) : i <= k]]
  <2>1. Committed = com(ee.ptr)
    BY Zenon DEF Committed
  <2>2. com(at) = [a \in DOMAIN ee.mem |->
                     IF ks(a) = {} THEN ee.mem[a] ELSE g[last(a)]]
    BY Zenon DEF g, off
  <2> HIDE DEF com
  <2>3. QED
    BY <2>1, <2>2, Zenon
<1> HIDE DEF ks, last
<1>9. DOMAIN ee.mem = EeAddresses
  BY <1>1
<1>10. Committed = [a \in EeAddresses |->
                      IF ks(a) = {} THEN t.mem[a] ELSE g[last(a)]]
  BY <1>8, <1>9
<1> DEFINE w(a) == IF ks(a) = {} THEN t.mem[a] ELSE g[last(a)]
           y(a) == IF a \in t.at .. t.at + Len(t.out) - 3
                     THEN t.out[a - t.at + 3] ELSE t.mem[a]
<1>11. \A a \in EeAddresses : Over(t)[a] = y(a)
  BY DEF Over
<1>12. \A a \in EeAddresses : w(a) = y(a)
  BY <1>7, <1>11
<1>13. Committed = [a \in EeAddresses |-> w(a)]
       /\ Over(t) = [a \in EeAddresses |-> y(a)]
  BY <1>10, Zenon DEF Over
<1> HIDE DEF w, y
<1>14. Committed = Over(t)
  BY <1>12, <1>13
<1>15. QED
  BY <1>5, <1>14 DEF g

(* The stop, field by field. *)
LEMMA StopFields ==
  ASSUME ee \in EeRecord
  PROVE  /\ Stop.st = "idle" /\ ~Stop.pulls /\ Stop.holds = ee.holds
         /\ Stop.ptr = ee.ptr
         /\ Stop.mem = IF ee.st = "data" /\ ee.page # << >> /\ ee.n <= 1
                         THEN Committed ELSE ee.mem
<1> DEFINE w == ee.st = "data" /\ ee.page # << >> /\ ee.n <= 1
           m == IF w THEN Committed ELSE ee.mem
           b == ee.busy \/ w
           s == [ee EXCEPT !.st = "idle", !.n = 0, !.byte = 0,
                           !.pulls = FALSE, !.page = << >>, !.mem = m,
                           !.busy = b]
<1>1. Stop = s
  BY Zenon DEF Stop
<1> HIDE DEF m, b
<1>2. /\ s.st = "idle" /\ ~s.pulls /\ s.holds = ee.holds /\ s.ptr = ee.ptr
      /\ s.mem = m
  BY DEF EeRecord
<1> HIDE DEF s
<1>3. QED
  BY <1>1, <1>2, Zenon DEF m

(* The stop ends a transfer; a page that was received is written. *)
LEMMA StopEnds ==
  ASSUME NEW t, IsTransfer(t), ee \in EeRecord, ~ee.holds,
         NEW failed \in BOOLEAN,
         IF failed \/ t.in > 0 THEN Ignores(t, ee) ELSE Open(t, ee)
  PROVE  Idles(t, failed, Stop)
<1> DEFINE L == Len(t.out)
<1>1. L \in Nat /\ L >= 1 /\ t.in \in Nat /\ (t.in > 0 => L = 1)
  BY TransferFacts
<1>2. /\ Stop.st = "idle" /\ ~Stop.pulls /\ ~Stop.holds
      /\ Stop.ptr = ee.ptr
      /\ Stop.mem = IF ee.st = "data" /\ ee.page # << >> /\ ee.n <= 1
                      THEN Committed ELSE ee.mem
  BY StopFields
<1>3. CASE failed \/ t.in > 0
  <2>1. ee.st # "data" /\ ee.mem = t.mem
    BY <1>3 DEF Ignores
  <2>2. Stop.mem = Final(t, failed)
    BY <1>2, <1>3, <2>1 DEF Final
  <2>3. ~(~failed /\ L = 2)
    <3>1. 1 # 2 /\ (t.in > 0 => L = 1)
      BY <1>1
    <3>2. QED
      BY <1>3, <3>1, Zenon
  <2>4. QED
    BY <1>2, <2>2, <2>3 DEF Idles
<1>4. CASE ~(failed \/ t.in > 0)
  <2>1. /\ ee.st = StOf(L + 1) /\ ee.n = 1 /\ ee.page = PageOf(t, L + 1)
        /\ ee.mem = t.mem
        /\ (t.in > 0 \/ L + 1 >= 3) => ee.ptr = t.at
    BY <1>4 DEF Open
  <2>2. CASE L < 3
    <3>1. ee.page = << >>
      BY <1>1, <2>1, <2>2 DEF PageOf
    <3>2. Stop.mem = ee.mem
      BY <1>2, <3>1
    <3>3. Stop.mem = Final(t, failed)
      BY <2>1, <2>2, <3>2 DEF Final
    <3>4. L = 2 => ee.ptr = t.at
      BY <2>1
    <3>5. QED
      BY <1>2, <3>3, <3>4 DEF Idles
  <2>3. CASE ~(L < 3)
    <3>1. /\ ee.st = "data" /\ ee.n = 1 /\ ee.n <= 1 /\ ee.ptr = t.at
          /\ ee.page = SubSeq(t.out, 3, L) /\ ee.mem = t.mem /\ L >= 3
      <4>1. /\ L >= 3 /\ L + 1 # 1 /\ L + 1 # 2 /\ ~(L + 1 <= 3)
            /\ L + 1 >= 3 /\ (L + 1) - 1 = L /\ 1 <= 1
        BY <1>1, <2>3
      <4>2. StOf(L + 1) = "data" /\ PageOf(t, L + 1) = SubSeq(t.out, 3, L)
        BY <4>1 DEF StOf, PageOf
      <4>3. QED
        BY <2>1, <4>1, <4>2
    <3>2. Committed = Over(t) /\ ee.page # << >>
      BY <3>1, CommittedIs
    <3>3. Stop.mem = Over(t)
      BY <1>2, <3>1, <3>2
    <3>4. Stop.mem = Final(t, failed)
      BY <1>4, <2>3, <3>3 DEF Final
    <3>5. L # 2
      BY <3>1
    <3>6. QED
      BY <1>2, <3>4, <3>5 DEF Idles
  <2>4. QED
    BY <2>2, <2>3
<1>5. QED
  BY <1>3, <1>4

(* The start, field by field. *)
LEMMA StartFields ==
  ASSUME ee \in EeRecord
  PROVE  /\ Start.st = "address" /\ Start.n = 0 /\ Start.byte = 0
         /\ ~Start.pulls /\ Start.page = << >> /\ Start.ptr = ee.ptr
         /\ Start.mem = ee.mem /\ Start.holds = ee.holds
  BY DEF Start, EeRecord

(* After a start the EEPROM listens for its address. *)
LEMMA StartListens ==
  ASSUME NEW t, ee \in EeRecord, ee.mem = t.mem,
         t.in > 0 => ee.ptr = t.at
  PROVE  Listens(t, 1, Start)
<1>1. StOf(1) = "address" /\ PageOf(t, 1) = << >> /\ ~(1 >= 3)
  BY DEF StOf, PageOf
<1>2. QED
  BY <1>1, StartFields DEF Listens, Hears

-----------------------------------------------------------------------------
(* The master *)

(* the first i operations of s are done *)
Left(s, i) == i \in 0 .. Len(s) /\ prog = SubSeq(s, i + 1, Len(s))

(* The next operation, and what is left after it. *)
LEMMA LeftHead ==
  ASSUME NEW s \in Seq(PinOps), NEW i, Left(s, i), i + 1 <= Len(s)
  PROVE  /\ prog \in Seq(PinOps) /\ prog # << >> /\ Head(prog) = s[i + 1]
         /\ Tail(prog) = SubSeq(s, (i + 1) + 1, Len(s))
         /\ i + 1 \in 0 .. Len(s)
         /\ prog[Len(prog)] = s[Len(s)]
<1> DEFINE L == Len(s)
           q == SubSeq(s, i + 1, L)
           r == SubSeq(s, (i + 1) + 1, L)
<1>1. i \in 0 .. L /\ prog = q /\ L \in Nat /\ i + 1 <= L
  BY LenProperties DEF Left
<1>2. /\ q \in Seq(PinOps) /\ Len(q) = L - i
      /\ \A k \in 1 .. L - i : q[k] = s[i + k]
  <2>1. i + 1 \in 1 .. L + 1 /\ L \in (i + 1) - 1 .. L
        /\ L - (i + 1) + 1 = L - i
    BY <1>1
  <2>2. /\ q \in Seq(PinOps) /\ Len(q) = L - (i + 1) + 1
        /\ \A k \in 1 .. L - (i + 1) + 1 : q[k] = s[(i + 1) + k - 1]
    BY <2>1, SliceProps
  <2>3. \A k \in 1 .. L - i : (i + 1) + k - 1 = i + k
    BY <1>1
  <2> HIDE DEF q, L
  <2>4. QED
    BY <2>1, <2>2, <2>3
<1>3. /\ r \in Seq(PinOps) /\ Len(r) = L - i - 1
      /\ \A k \in 1 .. L - i - 1 : r[k] = s[i + 1 + k]
  <2>1. (i + 1) + 1 \in 1 .. L + 1 /\ L \in ((i + 1) + 1) - 1 .. L
        /\ L - ((i + 1) + 1) + 1 = L - i - 1
    BY <1>1
  <2>2. /\ r \in Seq(PinOps) /\ Len(r) = L - ((i + 1) + 1) + 1
        /\ \A k \in 1 .. L - ((i + 1) + 1) + 1 :
             r[k] = s[((i + 1) + 1) + k - 1]
    BY <2>1, SliceProps
  <2>3. \A k \in 1 .. L - i - 1 : ((i + 1) + 1) + k - 1 = i + 1 + k
    BY <1>1
  <2> HIDE DEF r, L
  <2>4. QED
    BY <2>1, <2>2, <2>3
<1> HIDE DEF q, r, L
<1>4. q # << >> /\ Head(q) = q[1] /\ q[1] = s[i + 1]
  BY <1>1, <1>2
<1>5. /\ Tail(q) \in Seq(PinOps) /\ Len(Tail(q)) = Len(q) - 1
      /\ \A k \in 1 .. Len(q) - 1 : Tail(q)[k] = q[k + 1]
  BY <1>2, <1>4, HeadTailProperties
<1>6. Tail(q) = r
  <2>1. Len(Tail(q)) = Len(r)
    BY <1>1, <1>2, <1>3, <1>5
  <2>2. \A k \in 1 .. Len(r) : Tail(q)[k] = r[k]
    <3> SUFFICES ASSUME NEW k \in 1 .. Len(r) PROVE Tail(q)[k] = r[k]
      OBVIOUS
    <3>1. k + 1 \in 1 .. L - i /\ k \in 1 .. Len(q) - 1
          /\ k \in 1 .. L - i - 1 /\ i + (k + 1) = i + 1 + k
      BY <1>1, <1>2, <1>3
    <3>2. QED
      BY <1>2, <1>3, <1>5, <3>1
  <2>3. QED
    BY <1>3, <1>5, <2>1, <2>2, SeqEqual
<1>7. q[Len(q)] = s[L]
  <2>1. L - i \in 1 .. L - i /\ i + (L - i) = L
    BY <1>1
  <2>2. QED
    BY <1>2, <2>1
<1>8. QED
  BY <1>1, <1>2, <1>4, <1>6, <1>7 DEF q, r, L

(* Nothing is left. *)
LEMMA LeftNone ==
  ASSUME NEW s \in Seq(PinOps), NEW i, Left(s, i)
  PROVE  /\ prog \in Seq(PinOps)
         /\ (prog = << >>) = (i = Len(s))
<1>1. i \in 0 .. Len(s) /\ Len(s) \in Nat /\ prog = SubSeq(s, i + 1, Len(s))
  BY LenProperties DEF Left
<1>2. i + 1 \in 1 .. Len(s) + 1 /\ Len(s) \in (i + 1) - 1 .. Len(s)
      /\ Len(s) - (i + 1) + 1 = Len(s) - i
  BY <1>1
<1>3. prog \in Seq(PinOps) /\ Len(prog) = Len(s) - i
  BY <1>1, <1>2, SliceProps
<1>4. CASE i = Len(s)
  <2>1. prog = << >>
    BY <1>1, <1>3, <1>4, EmptySeq
  <2>2. QED
    BY <1>3, <1>4, <2>1, Zenon
<1>5. CASE i # Len(s)
  <2>1. Len(prog) # 0
    BY <1>1, <1>3, <1>5
  <2>2. prog # << >>
    BY ONLY <2>1
  <2>3. QED
    BY <1>3, <1>5, <2>2, Zenon
<1>6. QED
  BY <1>4, <1>5

(* The places in the operations of a transfer. *)
LEMMA OutPosition ==
  ASSUME NEW t, IsTransfer(t), NEW j \in 1 .. Len(t.out),
         NEW k \in 1 .. Width + 1
  PROVE  /\ t.p \in Seq(PinOps) /\ OutAt(j, k) \in Nat
         /\ OutAt(j, k) + 2 <= Len(t.p)
         /\ t.p[OutAt(j, k) + 1] = DataOp(t.out[j], k)
         /\ t.p[OutAt(j, k) + 2] = ClockOp(k)
         /\ OutAt(j, k) + 2 = IF k <= Width THEN OutAt(j, k + 1)
                              ELSE IF j < Len(t.out) THEN OutAt(j + 1, 1)
                              ELSE InAt(Len(t.out), 1)
<1> DEFINE L == Len(t.out)
<1>1. L \in Nat /\ t.in \in Nat /\ Width \in Nat /\ Width >= 2
      /\ Len(t.end) \in Nat
  <2>1. Len(i2c_stop) \in Nat /\ Len(i2c_stopr) \in Nat
    BY Ends
  <2>2. t.end \in {i2c_stop, i2c_stopr}
    BY TransferFacts
  <2>3. Len(t.end) \in Nat
    BY <2>1, <2>2
  <2>4. QED
    BY <2>3, TransferFacts, Widths
<1>2. /\ t.p \in Seq(PinOps) /\ SendsOut(t.p, t.out)
      /\ Len(t.p) = 2 + OutFrame * L + InFrame * t.in + Len(t.end)
  BY DEF IsTransfer, IsTransaction
<1>3. /\ t.p[OutAt(j, k) + 1] = DataOp(t.out[j], k)
      /\ t.p[OutAt(j, k) + 2] = ClockOp(k)
  BY <1>2 DEF SendsOut
<1>4. OutAt(j, k) \in Nat /\ OutAt(j, k) + 2 <= Len(t.p)
  <2> DEFINE a == OutAt(j, k)
             x == OutFrame * L
             y == InFrame * t.in
             z == Len(t.p)
             w == Len(t.end)
  <2>1. a \in Nat /\ a + 2 \in 3 .. 2 + x
    BY <1>1, FrameIndex
  <2>2. x \in Nat /\ y \in Nat
    BY <1>1, FrameIndex
  <2>3. z = 2 + x + y + w /\ w \in Nat
    BY <1>1, <1>2
  <2> HIDE DEF a, x, y, z, w
  <2>4. a \in Nat /\ a + 2 <= z
    BY <2>1, <2>2, <2>3
  <2>5. QED
    BY <2>4 DEF a, z
<1>5. OutAt(j, k) + 2 = IF k <= Width THEN OutAt(j, k + 1)
                        ELSE IF j < L THEN OutAt(j + 1, 1)
                        ELSE InAt(L, 1)
  <2> DEFINE a == OutFrame * (j - 1)
  <2>1. a \in Nat /\ OutFrame * j = a + OutFrame
    <3>1. j - 1 \in Nat /\ (j - 1) + 1 = j
      BY <1>1
    <3>2. a \in Nat /\ OutFrame * ((j - 1) + 1) = a + OutFrame
      BY <3>1, FrameIndex
    <3>3. QED
      BY <3>1, <3>2
  <2>2. OutAt(j, k) = 2 + a + 2 * (k - 1)
        /\ OutAt(j, k + 1) = 2 + a + 2 * ((k + 1) - 1)
    BY DEF OutAt
  <2>3. OutAt(j + 1, 1) = 2 + OutFrame * ((j + 1) - 1) + 2 * (1 - 1)
        /\ (j + 1) - 1 = j
    BY DEF OutAt
  <2>4. InAt(L, 1) = 2 + OutFrame * L + InFrame * (1 - 1)
    BY DEF InAt
  <2>5. InFrame * (1 - 1) = 0
    BY <1>1 DEF InFrame
  <2> HIDE DEF a
  <2>6. CASE k <= Width
    BY <1>1, <2>1, <2>2, <2>6
  <2>7. CASE ~(k <= Width)
    <3>1. k = Width + 1
      BY <1>1, <2>7
    <3>2. OutAt(j, k) + 2 = 2 + (a + OutFrame)
      BY <1>1, <2>1, <2>2, <3>1 DEF OutFrame
    <3>3. OutFrame * j \in Nat
      BY <1>1, <2>1 DEF OutFrame
    <3>4. OutAt(j + 1, 1) = 2 + (a + OutFrame)
      BY <2>1, <2>3, <3>3
    <3>5. CASE j < L
      BY <2>7, <3>2, <3>4, <3>5
    <3>6. CASE ~(j < L)
      <4>1. j = L
        BY <1>1, <3>6
      <4>2. OutFrame * L = a + OutFrame
        BY <2>1, <4>1
      <4>3. InAt(L, 1) = 2 + (a + OutFrame) + 0
        BY <2>4, <2>5, <4>2, Zenon
      <4>4. 2 + (a + OutFrame) \in Int
        BY <1>1, <2>1 DEF OutFrame
      <4>5. InAt(L, 1) = 2 + (a + OutFrame)
        BY <4>3, <4>4
      <4>6. QED
        BY <2>7, <3>2, <3>6, <4>5
    <3>7. QED
      BY <3>5, <3>6
  <2>8. QED
    BY <2>6, <2>7
<1>6. QED
  BY <1>2, <1>3, <1>4, <1>5

(* The places of the bytes that are received. *)
LEMMA InPosition ==
  ASSUME NEW t, IsTransfer(t), NEW j \in 1 .. t.in
  PROVE  LET a == InAt(Len(t.out), j)
         IN  /\ t.p \in Seq(PinOps) /\ a \in Nat
             /\ a + Width + 3 <= Len(t.p)
             /\ t.p[a + 1] = "sda1"
             /\ \A q \in 1 .. Width : t.p[a + q + 1] = "bit"
             /\ t.p[a + Width + 2] = IF j < t.in THEN "sda0" ELSE "sda1"
             /\ t.p[a + Width + 3] = "clk"
             /\ a + Width + 3 = InAt(Len(t.out), j + 1)
<1> DEFINE L == Len(t.out)
           a == InAt(L, j)
           x == OutFrame * L
           y == InFrame * t.in
           z == Len(t.p)
           w == Len(t.end)
<1>1. L \in Nat /\ t.in \in Nat /\ Width \in Nat /\ w \in Nat
  <2>1. Len(i2c_stop) \in Nat /\ Len(i2c_stopr) \in Nat
    BY Ends
  <2>2. t.end \in {i2c_stop, i2c_stopr}
    BY TransferFacts
  <2>3. w \in Nat
    BY <2>1, <2>2
  <2>4. QED
    BY <2>3, TransferFacts, Widths
<1>2. /\ t.p \in Seq(PinOps) /\ TakesIn(t.p, L, t.in)
      /\ z = 2 + x + y + w
  BY DEF IsTransfer, IsTransaction
<1>3. /\ t.p[a + 1] = "sda1"
      /\ \A q \in 1 .. Width : t.p[a + q + 1] = "bit"
      /\ t.p[a + Width + 2] = IF j < t.in THEN "sda0" ELSE "sda1"
      /\ t.p[a + Width + 3] = "clk"
  BY <1>2 DEF TakesIn
<1>4. a \in Nat /\ a + InFrame <= 2 + x + y /\ x \in Nat /\ y \in Nat
  <2>1. a \in Nat /\ a + InFrame <= 2 + x + y
    BY <1>1, FrameIndex
  <2>2. x \in Nat /\ y \in Nat
    BY <1>1, FrameIndex
  <2>3. QED
    BY <2>1, <2>2
<1>5. a + Width + 3 = InAt(L, j + 1)
  <2> DEFINE b == InFrame * (j - 1)
  <2>1. b \in Nat /\ InFrame * j = b + InFrame
    <3>1. j - 1 \in Nat /\ (j - 1) + 1 = j
      BY <1>1
    <3>2. b \in Nat /\ InFrame * ((j - 1) + 1) = b + InFrame
      BY <3>1, FrameIndex
    <3>3. QED
      BY <3>1, <3>2
  <2>2. a = 2 + x + b /\ InAt(L, j + 1) = 2 + x + InFrame * ((j + 1) - 1)
    BY DEF InAt
  <2>3. (j + 1) - 1 = j
    BY <1>1
  <2>4. InAt(L, j + 1) = 2 + x + (b + InFrame)
    BY <2>1, <2>2, <2>3, Zenon
  <2> HIDE DEF b, x, a
  <2>5. QED
    BY <1>1, <1>4, <2>1, <2>2, <2>4 DEF InFrame
<1> HIDE DEF a, x, y, z, w
<1>6. a + Width + 3 <= z
  BY <1>1, <1>2, <1>4 DEF InFrame
<1>7. QED
  BY <1>2, <1>3, <1>4, <1>5, <1>6 DEF a, z, L

(* Nothing is received at the end of a transfer that only sends. *)
LEMMA EndPosition ==
  ASSUME NEW t, IsTransfer(t)
  PROVE  /\ t.p \in Seq(PinOps)
         /\ t.end \in Seq(PinOps) /\ Len(t.end) \in {2, 3}
         /\ t.p[Len(t.p)] = t.end[Len(t.end)]
         /\ SubSeq(t.p, InAt(Len(t.out), t.in + 1) + 1, Len(t.p))
              = SubSeq(t.end, 1, Len(t.end))
         /\ SubSeq(t.end, 1, Len(t.end)) = t.end
         /\ Len(t.p) >= 2
         /\ OutAt(1, 1) = 2 /\ t.p[1] = "sda0" /\ t.p[2] = "scl0"
<1> DEFINE L == Len(t.out)
           a == InAt(L, t.in + 1)
           x == OutFrame * L
           y == InFrame * t.in
           p == t.p
           e == t.end
           z == Len(p)
           w == Len(e)
<1>1. /\ L \in Nat /\ t.in \in Nat /\ Width \in Nat
      /\ e \in Seq(PinOps) /\ w \in {2, 3} /\ w \in Nat
  <2>1. /\ i2c_stop \in Seq(PinOps) /\ i2c_stopr \in Seq(PinOps)
        /\ Len(i2c_stop) = 3 /\ Len(i2c_stopr) = 2
    BY Ends
  <2>2. t.end \in {i2c_stop, i2c_stopr}
    BY TransferFacts
  <2>3. e \in Seq(PinOps) /\ w \in {2, 3}
    BY <2>1, <2>2
  <2>4. QED
    BY <2>3, TransferFacts, Widths
<1>2. /\ p \in Seq(PinOps) /\ z = 2 + x + y + w
      /\ EndsWith(p, e) /\ SendsOut(p, t.out)
  BY DEF IsTransfer, IsTransaction
<1>3. x \in Nat /\ y \in Nat
  BY <1>1, FrameIndex
<1>4. a = 2 + x + y
  <2>1. a = 2 + x + InFrame * ((t.in + 1) - 1)
    BY DEF InAt
  <2>2. (t.in + 1) - 1 = t.in
    BY <1>1
  <2>3. QED
    BY <2>1, <2>2, Zenon
<1>5. \A r \in 1 .. w : p[z - w + r] = e[r]
  BY <1>2 DEF EndsWith
<1> DEFINE s == SubSeq(p, a + 1, z)
           f == SubSeq(e, 1, w)
<1> HIDE DEF a, x, y, z, p, e
<1>6. /\ s \in Seq(PinOps) /\ Len(s) = w
      /\ \A r \in 1 .. w : s[r] = p[a + r]
  <2>1. z \in Nat /\ a \in Nat /\ z = a + w /\ z = Len(p)
    BY <1>1, <1>2, <1>3, <1>4 DEF z
  <2>2. a + 1 \in 1 .. Len(p) + 1 /\ z \in (a + 1) - 1 .. Len(p)
        /\ z - (a + 1) + 1 = w
    BY <1>1, <2>1
  <2>3. /\ s \in Seq(PinOps) /\ Len(s) = z - (a + 1) + 1
        /\ \A r \in 1 .. z - (a + 1) + 1 : s[r] = p[(a + 1) + r - 1]
    BY <1>2, <2>2, SliceProps
  <2>4. \A r \in 1 .. w : (a + 1) + r - 1 = a + r
    BY <1>1, <2>1
  <2> HIDE DEF s, w
  <2>5. QED
    BY <2>2, <2>3, <2>4
<1>7. f \in Seq(PinOps) /\ Len(f) = w /\ \A r \in 1 .. w : f[r] = e[r]
  <2>1. 1 \in 1 .. Len(e) + 1 /\ w \in 1 - 1 .. Len(e) /\ w - 1 + 1 = w
    BY <1>1
  <2>2. /\ f \in Seq(PinOps) /\ Len(f) = w - 1 + 1
        /\ \A r \in 1 .. w - 1 + 1 : f[r] = e[1 + r - 1]
    BY <1>1, <2>1, SliceProps
  <2>3. \A r \in 1 .. w : 1 + r - 1 = r
    BY <1>1
  <2> HIDE DEF f, w
  <2>4. QED
    BY <2>1, <2>2, <2>3
<1> HIDE DEF s, f
<1>8. s = f /\ f = e
  <2>1. \A r \in 1 .. w : s[r] = f[r]
    <3>1. z - w = a
      BY <1>1, <1>2, <1>3, <1>4
    <3>2. QED
      BY <1>5, <1>6, <1>7, <3>1
  <2>2. s = f
    BY <1>6, <1>7, <2>1, SeqEqual
  <2>3. f = e
    BY <1>1, <1>7, SeqEqual
  <2>4. QED
    BY <2>2, <2>3
<1>9. p[z] = e[w]
  <2>1. w \in 1 .. w /\ z - w + w = z
    <3> HIDE DEF w
    <3>1. QED
      BY <1>1, <1>2, <1>3
  <2>2. QED
    BY <1>5, <2>1
<1>10. z >= 2
  BY <1>1, <1>2, <1>3
<1>11. OutAt(1, 1) = 2
  <2>1. OutFrame * (1 - 1) = 0
    BY <1>1 DEF OutFrame
  <2>2. QED
    BY <2>1 DEF OutAt
<1>12. p[1] = "sda0" /\ p[2] = "scl0"
  BY <1>2 DEF SendsOut
<1>13. QED
  BY <1>1, <1>2, <1>8, <1>9, <1>10, <1>11, <1>12 DEF s, f, z, w, a, p, e, L

(* the bits that the EEPROM sends, and those that were read so far *)
BitAt(t, i) ==
  Bit(t.mem[t.at + ((i - 1) \div Width)], ((i - 1) % Width) + 1)
AllRead(t) == \A i \in 1 .. Len(bits) : bits[i] = BitAt(t, i)
BitsAt(j, q) ==
  Width * (j - 1) + (IF q = 0 THEN 0 ELSE IF q <= Width THEN q - 1 ELSE Width)

(* The transfer t is about to begin, or SDA has fallen. *)
AtStart(t) ==
  /\ Left(t.p, 0) /\ ~clocking /\ scl = 1 /\ sda = 1
  /\ bits = << >> /\ ~nak
  /\ ~late => /\ ~ee.pulls /\ ee.mem = t.mem
              /\ t.in > 0 => ee.ptr = t.at
AtFirst(t) ==
  /\ Left(t.p, 1) /\ ~clocking /\ scl = 1 /\ sda = 0
  /\ bits = << >> /\ ~nak
  /\ ~late => Listens(t, 1, ee) /\ ~ee.holds

(* The master sends a bit: SDA, and then the clock. *)
OutSda(t, j, k) ==
  /\ Left(t.p, OutAt(j, k)) /\ ~clocking /\ scl = 0
  /\ bits = << >> /\ ~nak
  /\ ~late => OutLow(t, j, k, ee)
OutClk(t, j, k) ==
  /\ Left(t.p, OutAt(j, k) + 1)
  /\ scl = (IF clocking THEN 1 ELSE 0)
  /\ sda = Level(DataOp(t.out[j], k))
  /\ bits = << >> /\ ~nak
  /\ ~late => IF SclHigh THEN OutHigh(t, j, k, ee) ELSE OutLow(t, j, k, ee)

(* It receives a byte. *)
InSda(t, j, q) ==
  /\ Left(t.p, InAt(Len(t.out), j) + q) /\ ~clocking /\ scl = 0
  /\ Len(bits) = BitsAt(j, q) /\ ~nak
  /\ ~late => InLow(t, j, q, ee) /\ AllRead(t)
InClk(t, j, q) ==
  /\ Left(t.p, InAt(Len(t.out), j) + q)
  /\ scl = (IF clocking THEN 1 ELSE 0)
  /\ sda = (IF q = Width + 2 /\ j < t.in THEN 0 ELSE 1)
  /\ Len(bits) = BitsAt(j, q) /\ ~nak
  /\ ~late => /\ IF SclHigh THEN InHigh(t, j, q, ee) ELSE InLow(t, j, q, ee)
              /\ AllRead(t)

(* The end, r operations of which are done. *)
AtEnd(t, r) ==
  /\ Left(t.end, r) /\ ~clocking
  /\ scl = (IF r >= 2 THEN 1 ELSE 0)
  /\ r \in {1, 2} => sda = Level(t.end[1])
  /\ r = 3 => sda = 1
  /\ nak \/ Len(bits) = Width * t.in
  /\ ~late => /\ nak \/ AllRead(t)
              /\ IF r = 3 THEN Idles(t, nak, ee)
                 ELSE IF nak \/ t.in > 0 THEN Ignores(t, ee)
                 ELSE IF SclHigh THEN Open(t, ee)
                 ELSE Listens(t, Len(t.out) + 1, ee)

BusAt(t) ==
  \/ AtStart(t) \/ AtFirst(t)
  \/ \E j \in 1 .. Len(t.out), k \in 1 .. Width + 1 :
       OutSda(t, j, k) \/ OutClk(t, j, k)
  \/ \E j \in 1 .. t.in :
       \/ InSda(t, j, 0) \/ InSda(t, j, Width + 1)
       \/ \E q \in (1 .. Width) \cup {Width + 2} : InClk(t, j, q)
  \/ \E r \in 0 .. Len(t.end) : AtEnd(t, r)

(* the types of the bus *)
BusTyped ==
  /\ scl \in {0, 1} /\ sda \in {0, 1} /\ clocking \in BOOLEAN
  /\ looks \in 0 .. MaxPolls
  /\ bits \in Seq({0, 1}) /\ nak \in BOOLEAN /\ late \in BOOLEAN
  /\ ee \in EeRecord

(* The steps that are not the master's do not change what it knows. *)
MasterWaits ==
  UNCHANGED << scl, sda, prog, clocking, looks, bits, nak, late >>

(* an operation is done *)
Moves(s, n) ==
  /\ n \in 0 .. Len(s) /\ prog' = SubSeq(s, n + 1, Len(s))
  /\ UNCHANGED << clocking, looks, bits, nak >>

(* The master's next step is the next operation. *)
LEMMA MasterOp ==
  ASSUME NEW s \in Seq(PinOps), NEW i, Left(s, i), i + 1 <= Len(s), Master
  PROVE  /\ s[i + 1] = "sda0" /\ ~clocking => SdaPin(0) /\ Moves(s, i + 1)
         /\ s[i + 1] = "sda1" /\ ~clocking => SdaPin(1) /\ Moves(s, i + 1)
         /\ s[i + 1] = "scl0" /\ ~clocking =>
              SclPin(0) /\ Moves(s, i + 1) /\ late' = late
         /\ s[i + 1] = "scl1" /\ ~clocking =>
              SclPin(1) /\ Moves(s, i + 1) /\ late' = late
         /\ s[i + 1] \in {"clk", "ack", "bit"} =>
              ClockUp \/ LookAgain \/ ClockDown
<1>1. /\ prog # << >> /\ Head(prog) = s[i + 1]
      /\ Tail(prog) = SubSeq(s, (i + 1) + 1, Len(s)) /\ i + 1 \in 0 .. Len(s)
  BY LeftHead
<1>2. ASSUME Pin
      PROVE  Moves(s, i + 1) /\ s[i + 1] \notin {"clk", "ack", "bit"}
             /\ \/ s[i + 1] = "sda0" /\ SdaPin(0)
                \/ s[i + 1] = "sda1" /\ SdaPin(1)
                \/ s[i + 1] = "scl0" /\ SclPin(0) /\ late' = late
                \/ s[i + 1] = "scl1" /\ SclPin(1) /\ late' = late
  <2>1. /\ \/ s[i + 1] = "sda0" /\ SdaPin(0)
           \/ s[i + 1] = "sda1" /\ SdaPin(1)
           \/ s[i + 1] = "scl0" /\ SclPin(0) /\ late' = late
           \/ s[i + 1] = "scl1" /\ SclPin(1) /\ late' = late
        /\ prog' = Tail(prog)
        /\ clocking' = clocking /\ looks' = looks /\ bits' = bits
        /\ nak' = nak
    BY <1>1, <1>2, Zenon DEF Pin
  <2>2. Moves(s, i + 1)
    BY <1>1, <2>1 DEF Moves
  <2>3. s[i + 1] \notin {"clk", "ack", "bit"}
    BY <2>1
  <2>4. QED
    BY <2>1, <2>2, <2>3, Zenon
<1>3. ASSUME ClockUp PROVE s[i + 1] \in {"clk", "ack", "bit"}
  BY <1>1, <1>3, Zenon DEF ClockUp
<1>4. ASSUME LookAgain \/ ClockDown PROVE clocking
  BY <1>4, Zenon DEF LookAgain, ClockDown
<1>5. Pin \/ ClockUp \/ LookAgain \/ ClockDown
  BY DEF Master
<1>6. CASE Pin
  <2>1. /\ "sda0" # "sda1" /\ "sda0" # "scl0" /\ "sda0" # "scl1"
        /\ "sda1" # "scl0" /\ "sda1" # "scl1" /\ "scl0" # "scl1"
    OBVIOUS
  <2>2. QED
    BY <1>2, <1>6, <2>1, Zenon
<1>7. CASE ClockUp
  <2>1. s[i + 1] \in {"clk", "ack", "bit"}
    BY <1>3, <1>7
  <2>2. s[i + 1] \notin {"sda0", "sda1", "scl0", "scl1"}
    BY <2>1
  <2>3. QED
    BY <1>7, <2>2
<1>8. CASE LookAgain \/ ClockDown
  BY <1>4, <1>8
<1>9. QED
  BY <1>5, <1>6, <1>7, <1>8

(* SDA is moved. *)
LEMMA SdaMoves ==
  ASSUME BusTyped, NEW l \in {0, 1}, SdaPin(l)
  PROVE  /\ sda' = l /\ scl' = scl /\ ee' \in EeRecord /\ late' \in BOOLEAN
         /\ ~late' => ~late
         /\ scl = 0 => ee' = ee
         /\ scl = 1 /\ ~late' => ~ee.holds
         /\ scl = 1 /\ ~late' /\ sda = 1 /\ l = 0 /\ ~ee.pulls =>
              ee' = Start
         /\ scl = 1 /\ ~late' /\ sda = 0 /\ l = 1 /\ ~ee.pulls => ee' = Stop
<1> DEFINE falls == SdaLevel = 1 /\ l = 0
           rises == sda = 0 /\ l = 1 /\ ~ee.pulls
<1>1. /\ sda' = l /\ scl' = scl
      /\ late' = (late \/ (scl = 1 /\ ee.holds))
      /\ ee' = CASE SclHigh /\ falls -> Start
                 [] SclHigh /\ rises -> Stop
                 [] OTHER -> ee
  BY Zenon DEF SdaPin
<1>2. late \in BOOLEAN /\ ee \in EeRecord /\ sda \in {0, 1}
  BY DEF BusTyped
<1>3. late' \in BOOLEAN /\ (~late' => ~late)
      /\ (scl = 1 /\ ~late' => ~ee.holds)
  BY <1>1, <1>2, Zenon
<1>4. ~falls \/ ~rises
  OBVIOUS
<1>5. ee' \in {Start, Stop, ee}
  BY <1>1
<1>6. ee' \in EeRecord
  BY <1>2, <1>5, StartStopTyped
<1>7. scl = 0 => ee' = ee
  <2>1. scl = 0 => ~SclHigh
    BY DEF SclHigh
  <2> HIDE DEF falls, rises
  <2>2. QED
    BY <1>1, <2>1, Zenon
<1>8. ASSUME scl = 1, ~late', sda = 1, l = 0, ~ee.pulls
      PROVE  ee' = Start
  <2>1. SclHigh /\ falls /\ ~rises
    BY <1>3, <1>8 DEF SclHigh, SdaLevel
  <2> HIDE DEF falls, rises
  <2>2. QED
    BY <1>1, <2>1, Zenon
<1>9. ASSUME scl = 1, ~late', sda = 0, l = 1, ~ee.pulls
      PROVE  ee' = Stop
  <2>1. SclHigh /\ rises /\ ~falls
    BY <1>3, <1>9 DEF SclHigh
  <2> HIDE DEF falls, rises
  <2>2. QED
    BY <1>1, <2>1, Zenon
<1>10. QED
  BY <1>1, <1>3, <1>6, <1>7, <1>8, <1>9

(* SCL is let go. *)
LEMMA SclGoesUp ==
  ASSUME BusTyped, SclPin(1)
  PROVE  /\ scl' = 1 /\ sda' = sda /\ ee' \in EeRecord
         /\ scl = 0 => IF SclHigh' THEN Risen(ee') ELSE ee' = ee
<1>1. /\ ee \in EeRecord /\ sda \in {0, 1} /\ scl \in {0, 1}
      /\ ee.holds \in BOOLEAN
  BY EeFields DEF BusTyped
<1>2. scl' = 1 /\ sda' = sda
  BY DEF SclPin
<1>3. CASE scl = 0 /\ ~ee.holds
  <2>1. ee' = SclRises
    BY <1>3, 1 # 0, Zenon DEF SclPin
  <2>2. Risen(ee')
    BY <1>3, <2>1 DEF Risen
  <2>3. ee' \in EeRecord /\ ~ee'.holds
    BY <1>1, <2>2, EdgesTyped, EdgesAlike
  <2>4. SclHigh'
    BY <1>2, <2>3 DEF SclHigh
  <2>5. QED
    BY <1>2, <2>2, <2>3, <2>4
<1>4. CASE ~(scl = 0 /\ ~ee.holds)
  <2>1. 1 # 0
    OBVIOUS
  <2>2. ee' = ee
    BY <1>4, <2>1, Zenon DEF SclPin
  <2>3. scl = 0 => ~SclHigh'
    BY <1>4, <2>2 DEF SclHigh
  <2>4. QED
    BY <1>1, <1>2, <2>2, <2>3
<1>5. QED
  BY <1>3, <1>4

(* SCL is pulled. *)
LEMMA SclGoesDown ==
  ASSUME BusTyped, SclPin(0)
  PROVE  /\ scl' = 0 /\ sda' = sda /\ ee' \in EeRecord
         /\ ~SclHigh'
         /\ IF SclHigh THEN Fallen(ee') ELSE ee' = ee
<1>1. /\ ee \in EeRecord /\ sda \in {0, 1} /\ scl \in {0, 1}
  BY DEF BusTyped
<1>2. scl' = 0 /\ sda' = sda /\ 0 # 1
  BY DEF SclPin
<1>3. CASE SclHigh
  <2>1. Falls
    BY <1>2, <1>3, Zenon DEF SclPin
  <2>2. Fallen(ee')
    BY <2>1, Zenon DEF Falls, Fallen
  <2>3. ee' \in EeRecord
    BY <1>1, <2>2, EdgesTyped
  <2>4. QED
    BY <1>2, <1>3, <2>2, <2>3 DEF SclHigh
<1>4. CASE ~SclHigh
  <2>1. ee' = ee
    BY <1>2, <1>4, Zenon DEF SclPin
  <2>2. QED
    BY <1>1, <1>2, <1>4, <2>1 DEF SclHigh
<1>5. QED
  BY <1>3, <1>4

(* The EEPROM lets SCL go. *)
LEMMA SclLetGo ==
  ASSUME BusTyped, LetsGo
  PROVE  /\ MasterWaits /\ ee' \in EeRecord
         /\ IF scl = 1 THEN Risen(ee') /\ SclHigh' /\ ~SclHigh
                       ELSE Freed(ee') /\ ~SclHigh' /\ ~SclHigh
<1>1. /\ ee \in EeRecord /\ sda \in {0, 1} /\ scl \in {0, 1}
  BY DEF BusTyped
<1>2. /\ ee.holds /\ MasterWaits /\ scl' = scl
      /\ ee' = [(IF scl = 1 THEN SclRises ELSE ee) EXCEPT !.holds = FALSE]
  BY Zenon DEF LetsGo, MasterWaits
<1>3. CASE scl = 1
  <2>1. Risen(ee')
    BY <1>2, <1>3, Zenon DEF Risen
  <2>2. ee' \in EeRecord /\ ~ee'.holds
    BY <1>1, <2>1, EdgesTyped, EdgesAlike
  <2>3. QED
    BY <1>2, <1>3, <2>1, <2>2 DEF SclHigh
<1>4. CASE scl # 1
  <2>1. Freed(ee')
    BY <1>2, <1>4, Zenon DEF Freed
  <2>2. ee' \in EeRecord
    BY <1>1, <2>1, EdgesTyped
  <2>3. QED
    BY <1>2, <1>4, <2>1, <2>2 DEF SclHigh
<1>5. QED
  BY <1>3, <1>4

(* The types hold after every step of the bus. *)
LEMMA BusTypes ==
  ASSUME BusTyped, Master \/ LetsGo
  PROVE  BusTyped'
<1>1. /\ scl \in {0, 1} /\ sda \in {0, 1} /\ clocking \in BOOLEAN
      /\ looks \in 0 .. MaxPolls /\ MaxPolls \in Nat
      /\ bits \in Seq({0, 1}) /\ nak \in BOOLEAN /\ late \in BOOLEAN
      /\ ee \in EeRecord /\ SdaLevel \in {0, 1}
  BY Levels, I2cConstantsOK DEF BusTyped
<1>2. CASE Pin
  <2>1. \/ SdaPin(0) \/ SdaPin(1)
        \/ (SclPin(0) \/ SclPin(1)) /\ late' = late
    BY <1>2, Zenon DEF Pin
  <2>2. clocking' = clocking /\ looks' = looks /\ bits' = bits /\ nak' = nak
    BY <1>2, Zenon DEF Pin
  <2>3. /\ scl' \in {0, 1} /\ sda' \in {0, 1} /\ ee' \in EeRecord
        /\ late' \in BOOLEAN
    <3>1. CASE SdaPin(0)
      <4>1. sda' = 0 /\ scl' = scl /\ ee' \in EeRecord /\ late' \in BOOLEAN
        BY <3>1, SdaMoves
      <4>2. QED
        BY <1>1, <4>1
    <3>2. CASE SdaPin(1)
      <4>1. sda' = 1 /\ scl' = scl /\ ee' \in EeRecord /\ late' \in BOOLEAN
        BY <3>2, SdaMoves
      <4>2. QED
        BY <1>1, <4>1
    <3>3. CASE SclPin(0) /\ late' = late
      BY <1>1, <3>3, SclGoesDown
    <3>4. CASE SclPin(1) /\ late' = late
      BY <1>1, <3>4, SclGoesUp
    <3>5. QED
      BY <2>1, <3>1, <3>2, <3>3, <3>4
  <2>4. QED
    BY <1>1, <2>2, <2>3 DEF BusTyped
<1>3. CASE ClockUp
  <2>1. /\ SclPin(1) /\ clocking' = TRUE /\ looks' = 0 /\ bits' = bits
        /\ nak' = nak /\ late' = late
    BY <1>3 DEF ClockUp
  <2>2. scl' = 1 /\ sda' = sda /\ ee' \in EeRecord
    BY <2>1, SclGoesUp
  <2>3. clocking' \in BOOLEAN
    BY <2>1
  <2>4. QED
    BY <1>1, <2>1, <2>2, <2>3 DEF BusTyped
<1>4. CASE LookAgain
  <2>1. /\ looks < MaxPolls /\ looks' = looks + 1 /\ clocking' = clocking
        /\ bits' = bits /\ nak' = nak /\ late' = late
        /\ scl' = scl /\ sda' = sda /\ ee' = ee
    BY <1>4 DEF LookAgain
  <2>2. looks' \in 0 .. MaxPolls
    BY <1>1, <2>1
  <2>3. QED
    BY <1>1, <2>1, <2>2 DEF BusTyped
<1>5. CASE ClockDown
  <2>1. /\ SclPin(0) /\ clocking' = FALSE /\ looks' = 0
        /\ late' = (late \/ ~SclHigh)
        /\ bits' = IF Head(prog) = "bit" THEN Append(bits, SdaLevel) ELSE bits
        /\ nak' = (nak \/ (Head(prog) = "ack" /\ SdaLevel = 1))
    BY <1>5, Zenon DEF ClockDown
  <2>2. scl' = 0 /\ sda' = sda /\ ee' \in EeRecord
    BY <2>1, SclGoesDown
  <2>3. clocking' \in BOOLEAN /\ late' \in BOOLEAN /\ nak' \in BOOLEAN
    BY <2>1
  <2>4. bits' \in Seq({0, 1})
    <3>1. Append(bits, SdaLevel) \in Seq({0, 1})
      BY <1>1
    <3>2. QED
      BY <1>1, <2>1, <3>1
  <2>5. QED
    BY <1>1, <2>1, <2>2, <2>3, <2>4 DEF BusTyped
<1>6. CASE LetsGo
  <2>1. MasterWaits /\ ee' \in EeRecord
    BY <1>6, SclLetGo
  <2>2. QED
    BY <1>1, <2>1 DEF BusTyped, MasterWaits
<1>7. QED
  BY <1>2, <1>3, <1>4, <1>5, <1>6 DEF Master

-----------------------------------------------------------------------------
(* The master's steps, one kind of place at a time *)

(* An EEPROM that listens is not disturbed when SCL falls after a start. *)
LEMMA ListensFalls ==
  ASSUME NEW t, NEW j, ee \in EeRecord, sda \in {0, 1}, Listens(t, j, ee),
         NEW e, Fallen(e)
  PROVE  Listens(t, j, e)
<1>1. ee.n = 0 /\ ee.st = StOf(j) /\ Width \in Nat /\ Width >= 2
  BY Widths DEF Listens, Hears
<1>2. ee.n # Width /\ ee.n # Width + 1 /\ ee.st # "read"
  BY <1>1 DEF StOf
<1>3. SclFalls = ee
  BY <1>2, Zenon DEF SclFalls
<1>4. Alike(e, ee)
  BY <1>3, EdgesAlike
<1>5. QED
  BY <1>4, Zenon DEF Alike, Listens, Hears

(* Listening is how a byte begins. *)
LEMMA ListensLow ==
  ASSUME NEW t, IsTransfer(t), NEW j \in 1 .. Len(t.out), NEW e,
         Listens(t, j, e)
  PROVE  OutLow(t, j, 1, e)
<1>1. t.out[j] \in BusByte /\ Width \in Nat /\ Width >= 2
  BY TransferFacts, Widths
<1>2. High(t.out[j], 0) = 0
  <2>1. 0 \in 0 .. Width
    BY <1>1
  <2>2. QED
    BY <1>1, <2>1, HighProps
<1>3. 1 - 1 = 0 /\ 1 <= Width
  BY <1>1
<1>4. QED
  BY <1>2, <1>3 DEF Listens, OutLow

(* The start. *)
LEMMA StartStep ==
  ASSUME NEW t, IsTransfer(t), BusTyped, AtStart(t), Master
  PROVE  AtFirst(t)'
<1>1. /\ t.p \in Seq(PinOps) /\ Len(t.p) >= 2 /\ t.p[1] = "sda0"
  BY EndPosition
<1>2. Left(t.p, 0) /\ ~clocking /\ 0 + 1 <= Len(t.p) /\ 0 + 1 = 1
      /\ scl = 1 /\ sda = 1 /\ bits = << >> /\ ~nak
  BY <1>1 DEF AtStart
<1>3. SdaPin(0) /\ Moves(t.p, 1)
  <2>1. SdaPin(0) /\ Moves(t.p, 0 + 1)
    BY <1>1, <1>2, MasterOp
  <2>2. QED
    BY <1>2, <2>1
<1>4. ee \in EeRecord
  BY DEF BusTyped
<1>5. /\ sda' = 0 /\ scl' = 1
      /\ ~late' => ~late
      /\ ~late' /\ ~ee.pulls => ee' = Start
  BY <1>2, <1>3, SdaMoves
<1>6. Left(t.p, 1)' /\ ~clocking' /\ bits' = << >> /\ ~nak'
  BY <1>2, <1>3 DEF Moves, Left
<1>7. ASSUME ~late' PROVE Listens(t, 1, ee') /\ ~ee'.holds
  <2>1. ~ee.pulls /\ ee.mem = t.mem /\ (t.in > 0 => ee.ptr = t.at)
    BY <1>5, <1>7 DEF AtStart
  <2>2. ee' = Start
    BY <1>5, <1>7, <2>1
  <2>3. ~ee.holds
    BY <1>2, <1>3, <1>7, SdaMoves
  <2>4. ~Start.holds
    BY <1>4, <2>3, StartFields
  <2>5. QED
    BY <1>4, <2>1, <2>2, <2>4, StartListens
<1>8. QED
  BY <1>5, <1>6, <1>7 DEF AtFirst

(* SCL follows it. *)
LEMMA FirstStep ==
  ASSUME NEW t, IsTransfer(t), BusTyped, AtFirst(t), Master
  PROVE  OutSda(t, 1, 1)'
<1>1. /\ t.p \in Seq(PinOps) /\ Len(t.p) >= 2 /\ t.p[2] = "scl0"
      /\ OutAt(1, 1) = 2
  BY EndPosition
<1>2. Left(t.p, 1) /\ ~clocking /\ 1 + 1 <= Len(t.p) /\ 1 + 1 = 2
      /\ scl = 1 /\ sda = 0 /\ bits = << >> /\ ~nak
  BY <1>1 DEF AtFirst
<1>3. SclPin(0) /\ Moves(t.p, 2) /\ late' = late
  <2>1. SclPin(0) /\ Moves(t.p, 1 + 1) /\ late' = late
    BY <1>1, <1>2, MasterOp
  <2>2. QED
    BY <1>2, <2>1
<1>4. ee \in EeRecord /\ sda \in {0, 1}
  BY DEF BusTyped
<1>5. scl' = 0 /\ (Fallen(ee') \/ ee' = ee)
  BY <1>3, SclGoesDown
<1>6. Left(t.p, OutAt(1, 1))' /\ ~clocking' /\ bits' = << >> /\ ~nak'
  BY <1>1, <1>2, <1>3 DEF Moves, Left
<1>7. ASSUME ~late' PROVE OutLow(t, 1, 1, ee')
  <2>1. Listens(t, 1, ee)
    BY <1>3, <1>7 DEF AtFirst
  <2>2. Listens(t, 1, ee')
    BY <1>4, <1>5, <2>1, ListensFalls
  <2>3. 1 \in 1 .. Len(t.out)
    BY TransferFacts
  <2>4. QED
    BY <2>2, <2>3, ListensLow
<1>8. QED
  BY <1>5, <1>6, <1>7 DEF OutSda

(* A bit is put on SDA. *)
LEMMA OutSdaStep ==
  ASSUME NEW t, IsTransfer(t), BusTyped, Master,
         NEW j \in 1 .. Len(t.out), NEW k \in 1 .. Width + 1,
         OutSda(t, j, k)
  PROVE  OutClk(t, j, k)'
<1> DEFINE a == OutAt(j, k)
           op == DataOp(t.out[j], k)
<1>1. /\ t.p \in Seq(PinOps) /\ a \in Nat /\ a + 2 <= Len(t.p)
      /\ t.p[a + 1] = op /\ Len(t.p) \in Nat
  BY OutPosition, LenProperties
<1>2. Left(t.p, a) /\ ~clocking /\ scl = 0 /\ bits = << >> /\ ~nak
  BY DEF OutSda
<1>3. \/ op = "sda0" /\ Level(op) = 0
      \/ op = "sda1" /\ Level(op) = 1
  BY DEF DataOp, Level
<1> HIDE DEF op
<1>4. PICK l \in {0, 1} : Level(op) = l /\ SdaPin(l) /\ Moves(t.p, a + 1)
  <2>1. a + 1 <= Len(t.p)
    BY <1>1
  <2>2. CASE op = "sda0" /\ Level(op) = 0
    <3>1. SdaPin(0) /\ Moves(t.p, a + 1)
      <4> HIDE DEF a
      <4>1. QED
        BY <1>1, <1>2, <2>1, <2>2, MasterOp
    <3>2. QED
      BY <2>2, <3>1
  <2>3. CASE op = "sda1" /\ Level(op) = 1
    <3>1. SdaPin(1) /\ Moves(t.p, a + 1)
      <4> HIDE DEF a
      <4>1. QED
        BY <1>1, <1>2, <2>1, <2>3, MasterOp
    <3>2. QED
      BY <2>3, <3>1
  <2>4. QED
    BY <1>3, <2>2, <2>3
<1>5. sda' = l /\ scl' = 0 /\ ee' = ee /\ (~late' => ~late)
  BY <1>2, <1>4, SdaMoves
<1>6. Left(t.p, a + 1)' /\ ~clocking' /\ bits' = << >> /\ ~nak'
  BY <1>2, <1>4 DEF Moves, Left
<1>7. ASSUME ~late' PROVE OutLow(t, j, k, ee')
  BY <1>5, <1>7 DEF OutSda
<1>8. ~SclHigh'
  BY <1>5 DEF SclHigh
<1>9. QED
  BY <1>4, <1>5, <1>6, <1>7, <1>8 DEF OutClk, op

(* The clock: SCL is let go, is looked at, and is pulled again. *)
ClocksUp ==
  /\ ~clocking /\ clocking' /\ ~SclHigh /\ scl' = 1 /\ sda' = sda
  /\ prog' = prog /\ bits' = bits /\ nak' = nak /\ late' = late
  /\ IF SclHigh' THEN Risen(ee') ELSE ee' = ee
Looks == UNCHANGED << scl, sda, prog, clocking, bits, nak, ee, late >>
ClocksDown(s, i) ==
  /\ clocking /\ ~clocking' /\ scl' = 0 /\ sda' = sda
  /\ bits' = IF s[i + 1] = "bit" THEN Append(bits, SdaLevel) ELSE bits
  /\ nak' = (nak \/ (s[i + 1] = "ack" /\ SdaLevel = 1))
  /\ prog' = IF s[i + 1] = "ack" /\ SdaLevel = 1 THEN AfterNak
             ELSE SubSeq(s, (i + 1) + 1, Len(s))
  /\ i + 1 \in 0 .. Len(s)
  /\ ~late' => ~late /\ SclHigh /\ Fallen(ee')

(* It is looked at, or moves. *)
LEMMA ClockStep ==
  ASSUME NEW s \in Seq(PinOps), NEW i, Left(s, i), i + 1 <= Len(s),
         s[i + 1] \in {"clk", "ack", "bit"}, BusTyped, Master,
         scl = IF clocking THEN 1 ELSE 0
  PROVE  ClocksUp \/ Looks \/ ClocksDown(s, i)
<1>1. /\ prog # << >> /\ Head(prog) = s[i + 1]
      /\ Tail(prog) = SubSeq(s, (i + 1) + 1, Len(s)) /\ i + 1 \in 0 .. Len(s)
  BY LeftHead
<1>2. ClockUp \/ LookAgain \/ ClockDown
  BY MasterOp
<1>3. CASE ClockUp
  <2>1. /\ ~clocking /\ clocking' /\ SclPin(1) /\ prog' = prog
        /\ bits' = bits /\ nak' = nak /\ late' = late
    BY <1>3, Zenon DEF ClockUp
  <2>2. scl = 0
    BY <2>1
  <2>3. ~SclHigh
    BY <2>2 DEF SclHigh
  <2>4. /\ scl' = 1 /\ sda' = sda
        /\ IF SclHigh' THEN Risen(ee') ELSE ee' = ee
    BY <2>1, <2>2, SclGoesUp
  <2>5. ClocksUp
    BY <2>1, <2>3, <2>4, Zenon DEF ClocksUp
  <2>6. QED
    BY <2>5
<1>4. CASE LookAgain
  <2>1. Looks
    BY <1>4, Zenon DEF LookAgain, Looks
  <2>2. QED
    BY <2>1
<1>5. CASE ClockDown
  <2>1. /\ clocking /\ ~clocking' /\ SclPin(0)
        /\ late' = (late \/ ~SclHigh)
        /\ bits' = IF s[i + 1] = "bit" THEN Append(bits, SdaLevel) ELSE bits
        /\ nak' = (nak \/ (s[i + 1] = "ack" /\ SdaLevel = 1))
        /\ prog' = IF s[i + 1] = "ack" /\ SdaLevel = 1 THEN AfterNak
                   ELSE SubSeq(s, (i + 1) + 1, Len(s))
    BY <1>1, <1>5, Zenon DEF ClockDown
  <2>2. /\ scl' = 0 /\ sda' = sda
        /\ IF SclHigh THEN Fallen(ee') ELSE ee' = ee
    BY <2>1, SclGoesDown
  <2>3. ~late' => ~late /\ SclHigh /\ Fallen(ee')
    BY <2>1, <2>2, Zenon
  <2>4. ClocksDown(s, i)
    BY <1>1, <2>1, <2>2, <2>3, Zenon DEF ClocksDown
  <2>5. QED
    BY <2>4
<1>6. QED
  BY <1>2, <1>3, <1>4, <1>5

(* The rest of the transaction is given up. *)
LEMMA GivenUp ==
  ASSUME NEW t, IsTransfer(t), NEW i, Left(t.p, i), i + 1 <= Len(t.p)
  PROVE  AfterNak = t.end
<1>1. /\ t.p \in Seq(PinOps) /\ t.p[Len(t.p)] = t.end[Len(t.end)]
      /\ t.end \in {i2c_stop, i2c_stopr}
  BY EndPosition, TransferFacts
<1>2. prog[Len(prog)] = t.p[Len(t.p)]
  BY <1>1, LeftHead
<1>3. /\ Len(i2c_stop) = 3 /\ Len(i2c_stopr) = 2
      /\ i2c_stop[3] = "sda1" /\ i2c_stopr[2] = "scl1"
  BY Ends
<1>4. CASE t.end = i2c_stop
  <2>1. prog[Len(prog)] = "sda1"
    BY <1>1, <1>2, <1>3, <1>4
  <2>2. QED
    BY <1>4, <2>1 DEF AfterNak
<1>5. CASE t.end = i2c_stopr
  <2>1. prog[Len(prog)] = "scl1"
    BY <1>1, <1>2, <1>3, <1>5
  <2>2. prog[Len(prog)] # "sda1"
    BY <2>1
  <2>3. QED
    BY <1>5, <2>2, Zenon DEF AfterNak
<1>6. QED
  BY <1>1, <1>4, <1>5

(* What is left when the end begins. *)
LEMMA EndBegins ==
  ASSUME NEW t, IsTransfer(t), NEW q, q = t.end
  PROVE  q = SubSeq(t.end, 0 + 1, Len(t.end)) /\ 0 \in 0 .. Len(t.end)
<1>1. Len(t.end) \in {2, 3} /\ SubSeq(t.end, 1, Len(t.end)) = t.end
  BY EndPosition
<1>2. 0 + 1 = 1 /\ 0 \in 0 .. Len(t.end)
  BY <1>1
<1>3. QED
  BY <1>1, <1>2

(* The clock of a bit, or of an acknowledgement. *)
LEMMA OutClkStep ==
  ASSUME NEW t, IsTransfer(t), BusTyped, Master,
         NEW j \in 1 .. Len(t.out), NEW k \in 1 .. Width + 1,
         OutClk(t, j, k)
  PROVE  BusAt(t)'
<1> DEFINE a == OutAt(j, k)
           L == Len(t.out)
           n == a + 1
<1>1. /\ t.p \in Seq(PinOps) /\ a \in Nat /\ a + 2 <= Len(t.p)
      /\ t.p[a + 2] = ClockOp(k) /\ Len(t.p) \in Nat
      /\ a + 2 = IF k <= Width THEN OutAt(j, k + 1)
                 ELSE IF j < Len(t.out) THEN OutAt(j + 1, 1)
                 ELSE InAt(Len(t.out), 1)
  BY OutPosition, LenProperties
<1>2. /\ Left(t.p, n) /\ scl = (IF clocking THEN 1 ELSE 0)
      /\ sda = Level(DataOp(t.out[j], k)) /\ bits = << >> /\ ~nak
  BY DEF OutClk
<1>3. /\ ee \in EeRecord /\ sda \in {0, 1} /\ clocking \in BOOLEAN
      /\ Width \in Nat /\ Width >= 2
  BY Widths DEF BusTyped
<1>4. /\ ClockOp(k) \in {"clk", "ack", "bit"} /\ ClockOp(k) # "bit"
      /\ (ClockOp(k) = "ack") = (k = Width + 1)
  BY <1>3 DEF ClockOp
<1>5. n + 1 <= Len(t.p) /\ n + 1 = a + 2 /\ t.p[n + 1] = ClockOp(k)
  <2> HIDE DEF a
  <2>1. n + 1 <= Len(t.p) /\ n + 1 = a + 2
    BY <1>1
  <2>2. QED
    BY <1>1, <2>1
<1> HIDE DEF a, n
<1>6. ClocksUp \/ Looks \/ ClocksDown(t.p, n)
  BY <1>1, <1>2, <1>4, <1>5, ClockStep
<1>7. ASSUME OutClk(t, j, k)' PROVE BusAt(t)'
  BY <1>7 DEF BusAt
<1>8. CASE ClocksUp
  <2>1. ~late' => OutLow(t, j, k, ee)
    BY <1>8 DEF ClocksUp, OutClk
  <2>2. ASSUME ~late'
        PROVE  IF SclHigh' THEN OutHigh(t, j, k, ee')
                           ELSE OutLow(t, j, k, ee')
    <3>1. CASE SclHigh'
      <4>1. Risen(ee')
        BY <1>8, <3>1 DEF ClocksUp
      <4>2. OutHigh(t, j, k, ee')
        BY <1>2, <1>3, <2>1, <2>2, <4>1, OutRises
      <4>3. QED
        BY <3>1, <4>2
    <3>2. CASE ~SclHigh'
      BY <1>8, <2>1, <2>2, <3>2 DEF ClocksUp
    <3>3. QED
      BY <3>1, <3>2
  <2>3. /\ Left(t.p, n)' /\ scl' = (IF clocking' THEN 1 ELSE 0)
        /\ sda' = Level(DataOp(t.out[j], k)) /\ bits' = << >> /\ ~nak'
    BY <1>2, <1>8 DEF ClocksUp, Left
  <2>4. OutClk(t, j, k)'
    BY <2>2, <2>3 DEF OutClk, n, a
  <2>5. QED
    BY <1>7, <2>4
<1>9. CASE Looks
  <2>1. OutClk(t, j, k)'
    BY <1>9 DEF Looks, OutClk, Left, SclHigh
  <2>2. QED
    BY <1>7, <2>1
<1>10. CASE ClocksDown(t.p, n)
  <2>1. /\ clocking /\ ~clocking' /\ scl' = 0 /\ sda' = sda
        /\ bits' = << >>
        /\ nak' = (ClockOp(k) = "ack" /\ SdaLevel = 1)
        /\ prog' = IF ClockOp(k) = "ack" /\ SdaLevel = 1 THEN AfterNak
                   ELSE SubSeq(t.p, (n + 1) + 1, Len(t.p))
        /\ n + 1 \in 0 .. Len(t.p)
        /\ ~late' => ~late /\ SclHigh /\ Fallen(ee')
    BY <1>2, <1>4, <1>5, <1>10 DEF ClocksDown
  <2>2. ASSUME ~late'
        PROVE  OutHigh(t, j, k, ee) /\ Fallen(ee') /\ SclHigh /\ ~ee.holds
    BY <2>1, <2>2 DEF OutClk, SclHigh
  <2>3. CASE k <= Width
    <3>1. ClockOp(k) # "ack" /\ k \in 1 .. Width /\ k + 1 \in 1 .. Width + 1
          /\ n + 1 = OutAt(j, k + 1)
      BY <1>1, <1>3, <1>4, <1>5, <2>3
    <3>2. Left(t.p, OutAt(j, k + 1))' /\ ~nak'
      BY <2>1, <3>1 DEF Left
    <3>3. ~late' => OutLow(t, j, k + 1, ee')
      BY <1>3, <2>2, <3>1, OutFalls
    <3>4. OutSda(t, j, k + 1)'
      BY <2>1, <3>2, <3>3 DEF OutSda
    <3>5. QED
      BY <3>1, <3>4 DEF BusAt
  <2>4. CASE ~(k <= Width) /\ SdaLevel = 1
    <3>1. ClockOp(k) = "ack" /\ k = Width + 1
      BY <1>3, <1>4, <2>4
    <3>2. prog' = t.end /\ nak'
      <4>1. AfterNak = t.end
        BY <1>2, <1>5, GivenUp
      <4>2. QED
        BY <2>1, <2>4, <3>1, <4>1
    <3>3. Left(t.end, 0)'
      BY <3>2, EndBegins DEF Left
    <3>4. ASSUME ~late' PROVE Ignores(t, ee')
      <4>1. Ignores(t, ee) \/ ee.pulls
        BY <2>2, <2>4, <3>4 DEF OutHigh
      <4>2. ~ee.pulls
        BY <2>4 DEF SdaLevel
      <4>3. QED
        BY <1>3, <2>2, <3>4, <4>1, <4>2, IgnoresOn
    <3>5. AtEnd(t, 0)'
      <4>1. ~(0 >= 2) /\ 0 \notin {1, 2} /\ 0 # 3
        OBVIOUS
      <4>2. QED
        BY <2>1, <3>2, <3>3, <3>4, <4>1 DEF AtEnd
    <3>6. 0 \in 0 .. Len(t.end)
      BY EndBegins
    <3>7. QED
      BY <3>5, <3>6 DEF BusAt
  <2>5. CASE ~(k <= Width) /\ SdaLevel # 1
    <3>1. k = Width + 1
      BY <1>3, <2>5
    <3>2. /\ ~nak' /\ prog' = SubSeq(t.p, (n + 1) + 1, Len(t.p))
      BY <2>1, <2>5
    <3>3. ASSUME ~late'
          PROVE  IF t.in > 0 THEN InLow(t, 1, 0, ee')
                             ELSE Listens(t, j + 1, ee')
      <4>1. ~ee.pulls => SdaLevel = 1
        <5>1. sda = 1
          BY <1>2, <2>5 DEF DataOp, Level
        <5>2. QED
          BY <1>3, <5>1, Levels
      <4>2. ee.pulls
        BY <2>5, <4>1
      <4>3. Hears(t, j, ee, Width + 1, t.out[j])
        BY <2>2, <2>5, <3>3, <4>2 DEF OutHigh, Ignores
      <4>4. QED
        BY <1>3, <2>2, <3>3, <4>3, AckFalls
    <3>4. L \in Nat /\ t.in \in Nat /\ (t.in > 0 => L = 1)
      BY TransferFacts
    <3>5. CASE j < L
      <4>1. n + 1 = OutAt(j + 1, 1) /\ j + 1 \in 1 .. L /\ ~(t.in > 0)
        <5>1. n + 1 = OutAt(j + 1, 1)
          BY ONLY <1>1, <1>5, <2>5, <3>5, Zenon
        <5>2. j \in Nat /\ j >= 1
          OBVIOUS
        <5>3. j + 1 \in 1 .. L /\ L # 1
          <6> HIDE DEF L
          <6>1. QED
            BY <3>4, <3>5, <5>2
        <5>4. QED
          BY <3>4, <5>1, <5>3
      <4>2. Left(t.p, OutAt(j + 1, 1))'
        BY <2>1, <3>2, <4>1 DEF Left
      <4>3. ~late' => OutLow(t, j + 1, 1, ee')
        BY <3>3, <4>1, ListensLow
      <4>4. OutSda(t, j + 1, 1)'
        BY <2>1, <3>2, <4>2, <4>3 DEF OutSda
      <4>5. 1 \in 1 .. Width + 1
        BY <1>3
      <4>6. QED
        BY <4>1, <4>4, <4>5 DEF BusAt
    <3>6. CASE ~(j < L)
      <4>1. n + 1 = InAt(L, 1) /\ j = L
        BY <1>1, <1>5, <2>5, <3>4, <3>6
      <4>2. CASE t.in > 0
        <5>1. 1 \in 1 .. t.in /\ InAt(L, 1) + 0 = n + 1
          BY <1>1, <1>5, <3>4, <4>1, <4>2
        <5>2. Left(t.p, InAt(L, 1) + 0)'
          BY <2>1, <3>2, <5>1 DEF Left
        <5>3. Len(bits') = BitsAt(1, 0)
          BY <1>3, <2>1 DEF BitsAt
        <5>4. AllRead(t)'
          BY <2>1 DEF AllRead
        <5>5. InSda(t, 1, 0)'
          BY <2>1, <3>2, <3>3, <4>2, <5>2, <5>3, <5>4 DEF InSda
        <5>6. QED
          BY <5>1, <5>5 DEF BusAt
      <4>3. CASE ~(t.in > 0)
        <5>1. t.in = 0 /\ n + 1 = InAt(L, t.in + 1)
          BY <3>4, <4>1, <4>3
        <5>2. prog' = t.end
          BY <3>2, <5>1, EndPosition
        <5>3. Left(t.end, 0)'
          BY <5>2, EndBegins DEF Left
        <5>4. Len(bits') = Width * t.in /\ AllRead(t)'
          BY <1>3, <2>1, <5>1 DEF AllRead
        <5>5. ~late' => Listens(t, L + 1, ee')
          BY <3>3, <4>1, <4>3
        <5>6. ~(0 >= 2) /\ 0 \notin {1, 2} /\ 0 # 3
          OBVIOUS
        <5>7. ~SclHigh'
          BY <2>1 DEF SclHigh
        <5>8. AtEnd(t, 0)'
          BY <2>1, <3>2, <4>3, <5>3, <5>4, <5>5, <5>6, <5>7 DEF AtEnd
        <5>9. 0 \in 0 .. Len(t.end)
          BY EndBegins
        <5>10. QED
          BY <5>8, <5>9 DEF BusAt
      <4>4. QED
        BY <4>2, <4>3
    <3>7. QED
      BY <3>5, <3>6
  <2>6. QED
    BY <2>3, <2>4, <2>5
<1>11. QED
  BY <1>6, <1>8, <1>9, <1>10

(* The numbers of bits that were read. *)
LEMMA BitCounts ==
  ASSUME NEW j \in Nat \ {0}
  PROVE  /\ Width * (j - 1) \in Nat /\ Width * j = Width * (j - 1) + Width
         /\ BitsAt(j, 0) = Width * (j - 1) /\ BitsAt(j, 1) = BitsAt(j, 0)
         /\ \A q \in 1 .. Width : BitsAt(j, q) = Width * (j - 1) + q - 1
         /\ \A q \in 1 .. Width : BitsAt(j, q) + 1 = BitsAt(j, q + 1)
         /\ BitsAt(j, Width + 1) = Width * j
         /\ BitsAt(j, Width + 2) = Width * j
         /\ BitsAt(j + 1, 0) = Width * j
<1> DEFINE w == Width * (j - 1)
<1>1. Width \in Nat /\ Width >= 2 /\ j - 1 \in Nat
  BY Widths
<1>2. w \in Nat /\ Width * j = w + Width
  BY <1>1
<1>3. (j + 1) - 1 = j
  OBVIOUS
<1>4. \A q \in Nat :
        BitsAt(j, q) = w + (IF q = 0 THEN 0
                            ELSE IF q <= Width THEN q - 1 ELSE Width)
  BY DEF BitsAt
<1>5. BitsAt(j + 1, 0) = Width * j
  BY <1>1, <1>2, <1>3 DEF BitsAt
<1> HIDE DEF w
<1>6. BitsAt(j, 0) = w /\ BitsAt(j, 1) = w
  BY <1>1, <1>2, <1>4
<1>7. \A q \in 1 .. Width : BitsAt(j, q) = w + q - 1
  BY <1>1, <1>2, <1>4
<1>8. BitsAt(j, Width + 1) = w + Width /\ BitsAt(j, Width + 2) = w + Width
  BY <1>1, <1>2, <1>4
<1>9. \A q \in 1 .. Width : BitsAt(j, q) + 1 = BitsAt(j, q + 1)
  BY <1>1, <1>2, <1>4
<1>10. QED
  BY <1>2, <1>5, <1>6, <1>7, <1>8, <1>9 DEF w

(* The bit that is read next. *)
LEMMA BitPlace ==
  ASSUME NEW t, IsTransfer(t), NEW j \in 1 .. t.in, NEW q \in 1 .. Width
  PROVE  /\ BitAt(t, BitsAt(j, q) + 1) = Bit(t.mem[t.at + j - 1], q)
         /\ Bit(t.mem[t.at + j - 1], q) \in {0, 1}
<1>1. /\ Width \in Nat \ {0} /\ j \in Nat \ {0} /\ j - 1 \in Nat
      /\ q - 1 \in 0 .. Width - 1 /\ (q - 1) + 1 = q
      /\ Width * (j - 1) \in Nat /\ t.in \in Nat
  <2>1. Width \in Nat \ {0} /\ t.in \in Nat /\ q \in Nat /\ q >= 1
    BY Widths, TransferFacts
  <2>2. j \in Nat \ {0} /\ j - 1 \in Nat /\ (q - 1) + 1 = q
        /\ q - 1 \in 0 .. Width - 1
    BY <2>1
  <2>3. Width * (j - 1) \in Nat
    BY <2>2, BitCounts
  <2>4. QED
    BY <2>1, <2>2, <2>3
<1>2. BitsAt(j, q) = Width * (j - 1) + q - 1
  BY <1>1, BitCounts
<1>3. (BitsAt(j, q) + 1) - 1 = Width * (j - 1) + (q - 1)
  <2> DEFINE w == Width * (j - 1)
  <2>1. w \in Nat /\ BitsAt(j, q) = w + q - 1 /\ q \in Nat
    BY <1>1, <1>2
  <2> HIDE DEF w
  <2>2. (BitsAt(j, q) + 1) - 1 = w + (q - 1)
    BY <2>1
  <2>3. QED
    BY <2>2 DEF w
<1>4. /\ (Width * (j - 1) + (q - 1)) \div Width = j - 1
      /\ (Width * (j - 1) + (q - 1)) % Width = q - 1
  <2> DEFINE x == Width * (j - 1) + (q - 1)
  <2>1. x = Width * (j - 1) + (q - 1) /\ x \in Nat
    <3> DEFINE w == Width * (j - 1)
    <3>1. w \in Nat /\ q - 1 \in Nat
      BY <1>1
    <3> HIDE DEF w
    <3>2. w + (q - 1) \in Nat
      BY <3>1
    <3>3. QED
      BY <3>2 DEF w
  <2> HIDE DEF x
  <2>2. x \div Width = j - 1
    <3>1. /\ x \in Int /\ Width \in Nat \ {0} /\ j - 1 \in Int
          /\ q - 1 \in 0 .. Width - 1
      BY <1>1, <2>1
    <3>2. QED
      BY ONLY <2>1, <3>1, DivUnique, Zenon
  <2>3. x % Width = q - 1
    BY ONLY <1>1, <2>1, ModUnique
  <2>4. QED
    BY <2>2, <2>3 DEF x
<1>5. /\ ((BitsAt(j, q) + 1) - 1) \div Width = j - 1
      /\ ((BitsAt(j, q) + 1) - 1) % Width = q - 1
  BY <1>3, <1>4, Zenon
<1>6. t.at + (j - 1) = t.at + j - 1
  BY <1>1, TransferFacts
<1>7. BitAt(t, BitsAt(j, q) + 1) = Bit(t.mem[t.at + j - 1], q)
  BY <1>1, <1>5, <1>6, Zenon DEF BitAt
<1>8. t.mem[t.at + j - 1] \in BusByte
  <2>1. t.at + j - 1 \in EeAddresses
    BY ReadAddress
  <2>2. QED
    BY <2>1, TransferFacts DEF Images
<1>9. Bit(t.mem[t.at + j - 1], q) \in {0, 1}
  <2>1. q - 1 \in 0 .. Width /\ q - 1 < Width
    BY <1>1
  <2>2. Bit(t.mem[t.at + j - 1], (q - 1) + 1) \in {0, 1}
    BY <1>8, <2>1, HighProps
  <2>3. QED
    BY <1>1, <2>2
<1>10. QED
  BY <1>7, <1>9

(* SDA is let go for a byte, and is pulled to acknowledge it. *)
LEMMA InSdaStep ==
  ASSUME NEW t, IsTransfer(t), BusTyped, Master,
         NEW j \in 1 .. t.in, NEW q \in {0, Width + 1}, InSda(t, j, q)
  PROVE  BusAt(t)'
<1> DEFINE a == InAt(Len(t.out), j)
           l == IF q # 0 /\ j < t.in THEN 0 ELSE 1
<1>1. /\ t.p \in Seq(PinOps) /\ a \in Nat /\ a + Width + 3 <= Len(t.p)
      /\ t.p[a + 1] = "sda1" /\ Len(t.p) \in Nat
      /\ t.p[a + Width + 2] = IF j < t.in THEN "sda0" ELSE "sda1"
  BY InPosition, LenProperties
<1>2. Left(t.p, a + q) /\ ~clocking /\ scl = 0 /\ ~nak
      /\ Len(bits) = BitsAt(j, q)
  BY DEF InSda
<1>3. Width \in Nat /\ Width >= 2 /\ t.in \in Nat
  BY Widths, TransferFacts
<1> HIDE DEF a
<1>4. /\ a + q + 1 <= Len(t.p)
      /\ t.p[a + q + 1] = IF l = 0 THEN "sda0" ELSE "sda1"
  <2>1. CASE q = 0
    BY <1>1, <1>3, <2>1
  <2>2. CASE q = Width + 1
    <3>1. a + q + 1 = a + Width + 2 /\ q # 0
      BY <1>1, <1>3, <2>2
    <3>2. t.p[a + q + 1] = IF j < t.in THEN "sda0" ELSE "sda1"
      BY ONLY <1>1, <3>1, Zenon
    <3>3. a + q + 1 <= Len(t.p)
      BY ONLY <1>1, <1>3, <3>1
    <3>4. QED
      BY <3>1, <3>2, <3>3
  <2>3. QED
    BY <2>1, <2>2
<1>5. SdaPin(l) /\ Moves(t.p, a + q + 1) /\ l \in {0, 1}
  <2>1. CASE l = 0
    <3>1. t.p[a + q + 1] = "sda0"
      BY <1>4, <2>1
    <3>2. SdaPin(0) /\ Moves(t.p, a + q + 1)
      BY <1>1, <1>2, <1>4, <3>1, MasterOp
    <3>3. QED
      BY <2>1, <3>2
  <2>2. CASE l # 0
    <3>1. t.p[a + q + 1] = "sda1" /\ l = 1
      BY <1>4, <2>2
    <3>2. SdaPin(1) /\ Moves(t.p, a + q + 1)
      BY <1>1, <1>2, <1>4, <3>1, MasterOp
    <3>3. QED
      BY <3>1, <3>2
  <2>3. QED
    BY <2>1, <2>2
<1>6. sda' = l /\ scl' = 0 /\ ee' = ee /\ (~late' => ~late)
  <2> HIDE DEF l
  <2>1. QED
    BY <1>2, <1>5, SdaMoves
<1>7. /\ Left(t.p, a + q + 1)' /\ ~clocking' /\ bits' = bits /\ ~nak'
      /\ ~SclHigh'
  BY <1>2, <1>5, <1>6 DEF Moves, Left, SclHigh
<1>8. ASSUME ~late' PROVE InLow(t, j, q, ee') /\ AllRead(t)'
  <2>1. InLow(t, j, q, ee) /\ AllRead(t)
    BY <1>6, <1>8 DEF InSda
  <2>2. AllRead(t)'
    BY <1>7, <2>1 DEF AllRead
  <2>3. QED
    BY <1>6, <2>1, <2>2
<1>9. InClk(t, j, q + 1)'
  <2>1. a + (q + 1) = a + q + 1
    BY <1>1, <1>3
  <2>2. InLow(t, j, q, ee') => InLow(t, j, q + 1, ee')
    <3>1. CASE q = 0
      <4>1. 0 + 1 # 0 /\ 0 + 1 <= Width /\ (0 + 1) - 1 = 0 /\ 0 + 1 = 1
        BY <1>3
      <4>2. QED
        BY <3>1, <4>1 DEF InLow
    <3>2. CASE q = Width + 1
      <4>1. q # 0 /\ ~(q <= Width) /\ q + 1 # 0 /\ ~(q + 1 <= Width)
        BY <1>3, <3>2
      <4>2. QED
        BY <4>1 DEF InLow
    <3>3. QED
      BY <3>1, <3>2
  <2>3. Len(bits') = BitsAt(j, q + 1)
    <3>1. BitsAt(j, 0) = BitsAt(j, 1)
          /\ BitsAt(j, Width + 1) = BitsAt(j, Width + 2)
      <4>1. j \in Nat \ {0}
        BY <1>3
      <4>2. /\ BitsAt(j, 1) = BitsAt(j, 0)
            /\ BitsAt(j, Width + 1) = Width * j
            /\ BitsAt(j, Width + 2) = Width * j
        BY <4>1, BitCounts, Zenon
      <4>3. QED
        BY <4>2
    <3>2. 0 + 1 = 1 /\ (Width + 1) + 1 = Width + 2
      BY <1>3
    <3>3. QED
      BY <1>2, <1>7, <3>1, <3>2
  <2>4. l = IF q + 1 = Width + 2 /\ j < t.in THEN 0 ELSE 1
    BY <1>3
  <2>5. QED
    BY <1>6, <1>7, <1>8, <2>1, <2>2, <2>3, <2>4 DEF InClk, a
<1>10. q + 1 \in (1 .. Width) \cup {Width + 2}
  BY <1>3
<1>11. QED
  BY <1>9, <1>10 DEF BusAt

(* The clock of a bit that is read, or of its acknowledgement. *)
LEMMA InClkStep ==
  ASSUME NEW t, IsTransfer(t), BusTyped, Master,
         NEW j \in 1 .. t.in, NEW q \in (1 .. Width) \cup {Width + 2},
         InClk(t, j, q)
  PROVE  BusAt(t)'
<1> DEFINE L == Len(t.out)
           a == InAt(L, j)
           n == a + q
<1>1. /\ t.p \in Seq(PinOps) /\ a \in Nat /\ a + Width + 3 <= Len(t.p)
      /\ \A k \in 1 .. Width : t.p[a + k + 1] = "bit"
      /\ t.p[a + Width + 3] = "clk" /\ Len(t.p) \in Nat
      /\ a + Width + 3 = InAt(L, j + 1)
  BY InPosition, LenProperties
<1>2. /\ Left(t.p, n) /\ scl = (IF clocking THEN 1 ELSE 0)
      /\ sda = (IF q = Width + 2 /\ j < t.in THEN 0 ELSE 1)
      /\ Len(bits) = BitsAt(j, q) /\ ~nak
  BY DEF InClk
<1>3. /\ ee \in EeRecord /\ sda \in {0, 1} /\ clocking \in BOOLEAN
      /\ Width \in Nat /\ Width >= 2 /\ bits \in Seq({0, 1})
      /\ t.in \in Nat /\ j \in Nat \ {0} /\ q \in Nat
      /\ q \in 1 .. Width + 2 /\ q # Width + 1
  <2>1. /\ ee \in EeRecord /\ sda \in {0, 1} /\ clocking \in BOOLEAN
        /\ bits \in Seq({0, 1})
    BY DEF BusTyped
  <2>2. Width \in Nat /\ Width >= 2 /\ t.in \in Nat
    BY Widths, TransferFacts
  <2>3. QED
    BY <2>1, <2>2
<1> HIDE DEF a
<1>4. /\ n + 1 <= Len(t.p) /\ n \in Nat
      /\ t.p[n + 1] = IF q = Width + 2 THEN "clk" ELSE "bit"
  <2>1. CASE q = Width + 2
    <3>1. a + q + 1 = a + Width + 3
      BY <1>1, <1>3, <2>1
    <3>2. QED
      BY <1>1, <1>3, <2>1, <3>1
  <2>2. CASE q # Width + 2
    <3>1. q \in 1 .. Width
      BY <1>3, <2>2
    <3>2. t.p[a + q + 1] = "bit"
      BY <1>1, <3>1
    <3>3. QED
      BY <1>1, <1>3, <2>2, <3>1, <3>2
  <2>3. QED
    BY <2>1, <2>2
<1> HIDE DEF n
<1>5. /\ t.p[n + 1] \in {"clk", "ack", "bit"} /\ t.p[n + 1] # "ack"
      /\ (t.p[n + 1] = "bit") = (q # Width + 2)
  BY <1>4
<1>6. ClocksUp \/ Looks \/ ClocksDown(t.p, n)
  BY <1>1, <1>2, <1>4, <1>5, ClockStep
<1>7. ASSUME InClk(t, j, q)' PROVE BusAt(t)'
  BY <1>7 DEF BusAt
<1>8. CASE ClocksUp
  <2>1. ~late' => InLow(t, j, q, ee) /\ AllRead(t)
    BY <1>8 DEF ClocksUp, InClk
  <2>2. ASSUME ~late'
        PROVE  IF SclHigh' THEN InHigh(t, j, q, ee')
                           ELSE InLow(t, j, q, ee')
    <3>1. CASE SclHigh'
      <4>1. Risen(ee')
        BY <1>8, <3>1 DEF ClocksUp
      <4>2. q = Width + 2 => sda = IF j < t.in THEN 0 ELSE 1
        BY <1>2
      <4>3. InHigh(t, j, q, ee')
        BY <1>3, <2>1, <2>2, <4>1, <4>2, InRises
      <4>4. QED
        BY <3>1, <4>3
    <3>2. CASE ~SclHigh'
      BY <1>8, <2>1, <2>2, <3>2 DEF ClocksUp
    <3>3. QED
      BY <3>1, <3>2
  <2>3. /\ Left(t.p, n)' /\ scl' = (IF clocking' THEN 1 ELSE 0)
        /\ sda' = (IF q = Width + 2 /\ j < t.in THEN 0 ELSE 1)
        /\ Len(bits') = BitsAt(j, q) /\ ~nak'
    BY <1>2, <1>8 DEF ClocksUp, Left
  <2>4. ~late' => AllRead(t)'
    BY <1>8, <2>1 DEF ClocksUp, AllRead
  <2>5. InClk(t, j, q)'
    BY <2>2, <2>3, <2>4 DEF InClk, n, a
  <2>6. QED
    BY <1>7, <2>5
<1>9. CASE Looks
  <2>1. InClk(t, j, q)'
    BY <1>9 DEF Looks, InClk, Left, SclHigh, AllRead
  <2>2. QED
    BY <1>7, <2>1
<1>10. CASE ClocksDown(t.p, n)
  <2>1. /\ clocking /\ ~clocking' /\ scl' = 0 /\ sda' = sda
        /\ bits' = IF q # Width + 2 THEN Append(bits, SdaLevel) ELSE bits
        /\ ~nak' /\ prog' = SubSeq(t.p, (n + 1) + 1, Len(t.p))
        /\ n + 1 \in 0 .. Len(t.p)
        /\ ~late' => ~late /\ SclHigh /\ Fallen(ee')
    BY <1>2, <1>5, <1>10 DEF ClocksDown
  <2>2. ASSUME ~late'
        PROVE  /\ InHigh(t, j, q, ee) /\ Fallen(ee') /\ AllRead(t)
    BY <2>1, <2>2 DEF InClk
  <2>3. CASE q # Width + 2
    <3>1. /\ q \in 1 .. Width /\ n + 1 = a + (q + 1) /\ q <= Width
          /\ ~(q = Width + 2 /\ j < t.in)
      BY <1>1, <1>3, <2>3 DEF n
    <3>2. Left(t.p, a + (q + 1))'
      BY <2>1, <3>1 DEF Left
    <3>3. sda = 1 /\ SdaLevel \in {0, 1} /\ sda' = 1
      <4>1. SdaLevel \in {0, 1}
        BY <1>3, Levels
      <4>2. sda = 1
        BY <1>2, <3>1
      <4>3. QED
        BY <2>1, <4>1, <4>2
    <3>4. /\ Len(bits') = Len(bits) + 1 /\ Len(bits) \in Nat
          /\ bits'[Len(bits) + 1] = SdaLevel
          /\ \A i \in 1 .. Len(bits) : bits'[i] = bits[i]
      <4>1. bits' = Append(bits, SdaLevel)
        BY <2>1, <2>3
      <4>2. QED
        BY <1>3, <3>3, <4>1, AppendProperties, LenProperties
    <3>5. Len(bits') = BitsAt(j, q + 1)
      <4>1. BitsAt(j, q) + 1 = BitsAt(j, q + 1)
        BY <1>3, <3>1, BitCounts
      <4>2. QED
        BY <1>2, <3>4, <4>1
    <3>6. ASSUME ~late' PROVE AllRead(t)'
      <4>1. /\ BitAt(t, Len(bits) + 1) = Bit(t.mem[t.at + j - 1], q)
            /\ Bit(t.mem[t.at + j - 1], q) \in {0, 1}
        BY <1>2, <3>1, BitPlace
      <4>2. Puts(t, j, ee, q)
        BY <2>2, <3>1, <3>6 DEF InHigh
      <4>3. SdaLevel = IF ee.pulls THEN 0 ELSE 1
        BY <3>3 DEF SdaLevel
      <4>4. SdaLevel = Bit(t.mem[t.at + j - 1], q)
        BY <4>1, <4>2, <4>3 DEF Puts
      <4>5. bits'[Len(bits) + 1] = BitAt(t, Len(bits) + 1)
        BY <3>4, <4>1, <4>4
      <4>6. \A i \in 1 .. Len(bits) : bits'[i] = BitAt(t, i)
        BY <2>2, <3>4, <3>6 DEF AllRead
      <4>7. \A i \in 1 .. Len(bits') : i \in 1 .. Len(bits)
                                       \/ i = Len(bits) + 1
        BY <3>4
      <4>8. \A i \in 1 .. Len(bits') : bits'[i] = BitAt(t, i)
        BY <4>5, <4>6, <4>7
      <4>9. QED
        BY <4>8 DEF AllRead
    <3>7. ASSUME ~late' PROVE InLow(t, j, q + 1, ee')
      BY <1>3, <2>2, <3>1, <3>7, InFalls
    <3>8. CASE q < Width
      <4>1. q + 1 \in 1 .. Width /\ ~(q + 1 = Width + 2 /\ j < t.in)
        BY <1>3, <3>1, <3>8
      <4>2. ~SclHigh'
        BY <2>1 DEF SclHigh
      <4>3. InClk(t, j, q + 1)'
        BY <2>1, <3>2, <3>3, <3>5, <3>6, <3>7, <4>1, <4>2 DEF InClk, a
      <4>4. QED
        BY <4>1, <4>3 DEF BusAt
    <3>9. CASE ~(q < Width)
      <4>1. q + 1 = Width + 1
        BY <1>3, <3>1, <3>9
      <4>2. InSda(t, j, q + 1)'
        BY <2>1, <3>2, <3>5, <3>6, <3>7 DEF InSda, a
      <4>3. InSda(t, j, Width + 1)'
        BY ONLY <4>1, <4>2
      <4>4. QED
        BY <4>3 DEF BusAt
    <3>10. QED
      BY <3>8, <3>9
  <2>4. CASE q = Width + 2
    <3>1. n + 1 = InAt(L, j + 1)
      BY <1>1, <1>3, <2>4 DEF n
    <3>2. bits' = bits /\ Len(bits') = Width * j
      <4>1. BitsAt(j, q) = Width * j
        BY <1>3, <2>4, BitCounts
      <4>2. QED
        BY <1>2, <2>1, <2>4, <4>1
    <3>3. ~late' => AllRead(t)'
      BY <2>2, <3>2 DEF AllRead
    <3>4. ASSUME ~late'
          PROVE  IF j < t.in THEN InLow(t, j + 1, 0, ee')
                             ELSE Ignores(t, ee')
      <4>1. InHigh(t, j, Width + 2, ee) /\ Fallen(ee')
        BY <2>2, <2>4, <3>4
      <4>2. QED
        BY <1>3, <4>1, NextByteFalls
    <3>5. CASE j < t.in
      <4>1. j + 1 \in 1 .. t.in /\ InAt(L, j + 1) + 0 = n + 1
        <5>1. j + 1 \in 1 .. t.in
          BY <1>3, <3>5
        <5>2. InAt(L, j + 1) + 0 = n + 1
          BY <1>4, <3>1
        <5>3. QED
          BY <5>1, <5>2
      <4>2. Left(t.p, InAt(L, j + 1) + 0)'
        BY <2>1, <4>1 DEF Left
      <4>3. Len(bits') = BitsAt(j + 1, 0)
        BY <1>3, <3>2, BitCounts
      <4>4. InSda(t, j + 1, 0)'
        BY <2>1, <3>3, <3>4, <3>5, <4>2, <4>3 DEF InSda
      <4>5. QED
        BY <4>1, <4>4 DEF BusAt
    <3>6. CASE ~(j < t.in)
      <4>1. j = t.in /\ t.in > 0
        BY <1>3, <3>6
      <4>2. prog' = t.end
        <5>1. SubSeq(t.p, InAt(L, t.in + 1) + 1, Len(t.p)) = t.end
          BY EndPosition
        <5>2. n + 1 = InAt(L, t.in + 1)
          BY <3>1, <4>1
        <5>3. QED
          BY <2>1, <5>1, <5>2
      <4>3. Left(t.end, 0)'
        BY <4>2, EndBegins DEF Left
      <4>4. ~(0 >= 2) /\ 0 \notin {1, 2} /\ 0 # 3
        OBVIOUS
      <4>5. AtEnd(t, 0)'
        BY <2>1, <3>2, <3>3, <3>4, <3>6, <4>1, <4>3, <4>4 DEF AtEnd
      <4>6. 0 \in 0 .. Len(t.end)
        BY EndBegins
      <4>7. QED
        BY <4>5, <4>6 DEF BusAt
    <3>7. QED
      BY <3>5, <3>6
  <2>5. QED
    BY <2>3, <2>4
<1>11. QED
  BY <1>6, <1>8, <1>9, <1>10

-----------------------------------------------------------------------------
(* The end, and the EEPROM's own steps *)

(* Where the end of a transfer is, and its operations. *)
LEMMA EndPlace ==
  ASSUME NEW t, IsTransfer(t), NEW r, Left(t.end, r)
  PROVE  /\ t.end \in Seq(PinOps) /\ Len(t.end) \in {2, 3}
         /\ r \in 0 .. Len(t.end) /\ r \in 0 .. 3
         /\ (prog = << >>) = (r = Len(t.end))
         /\ t.end[1] \in {"sda0", "sda1"} /\ t.end[2] = "scl1"
         /\ Len(t.end) = 3 => t.end = i2c_stop /\ t.end[1] = "sda0"
                              /\ t.end[3] = "sda1"
         /\ Len(t.end) = 2 => t.end = i2c_stopr /\ t.end[1] = "sda1"
<1>1. /\ t.end \in Seq(PinOps) /\ Len(t.end) \in {2, 3}
      /\ t.end \in {i2c_stop, i2c_stopr}
  BY EndPosition, TransferFacts
<1>2. r \in 0 .. Len(t.end) /\ r \in 0 .. 3
  <2>1. r \in 0 .. Len(t.end)
    BY Zenon DEF Left
  <2>2. \A n \in {2, 3} : r \in 0 .. n => r \in 0 .. 3
    OBVIOUS
  <2>3. QED
    BY <1>1, <2>1, <2>2, Zenon
<1>3. (prog = << >>) = (r = Len(t.end))
  BY <1>1, LeftNone
<1>4. /\ Len(i2c_stop) = 3 /\ Len(i2c_stopr) = 2
      /\ i2c_stop[1] = "sda0" /\ i2c_stop[2] = "scl1" /\ i2c_stop[3] = "sda1"
      /\ i2c_stopr[1] = "sda1" /\ i2c_stopr[2] = "scl1"
  BY Ends
<1>5. CASE t.end = i2c_stop
  BY <1>1, <1>2, <1>3, <1>4, <1>5
<1>6. CASE t.end = i2c_stopr
  BY <1>1, <1>2, <1>3, <1>4, <1>6
<1>7. QED
  BY <1>1, <1>5, <1>6

(* The master does nothing more when nothing is left. *)
LEMMA EndStops ==
  ASSUME NEW t, IsTransfer(t), NEW r, AtEnd(t, r), Master
  PROVE  r < Len(t.end) /\ prog # << >>
<1>1. Left(t.end, r) /\ ~clocking
  BY DEF AtEnd
<1>2. /\ (prog = << >>) = (r = Len(t.end)) /\ r \in 0 .. Len(t.end)
      /\ Len(t.end) \in {2, 3}
  BY <1>1, EndPlace
<1>3. prog # << >>
  BY <1>1, Zenon DEF Master, Pin, ClockUp, LookAgain, ClockDown
<1>4. r # Len(t.end)
  BY <1>2, <1>3, Zenon
<1>5. r < Len(t.end)
  BY ONLY <1>2, <1>4
<1>6. QED
  BY <1>3, <1>5

(* SDA takes the level with which the end begins. *)
LEMMA EndSdaStep ==
  ASSUME NEW t, IsTransfer(t), BusTyped, AtEnd(t, 0), Master
  PROVE  AtEnd(t, 1)'
<1> DEFINE l == Level(t.end[1])
<1>1. /\ Left(t.end, 0) /\ ~clocking /\ scl = 0
      /\ nak \/ Len(bits) = Width * t.in
  BY DEF AtEnd
<1>2. /\ t.end \in Seq(PinOps) /\ 0 + 1 <= Len(t.end) /\ 0 + 1 = 1
      /\ t.end[1] \in {"sda0", "sda1"}
  BY <1>1, EndPlace
<1>3. SdaPin(l) /\ Moves(t.end, 1) /\ l \in {0, 1}
  <2>1. CASE t.end[1] = "sda0"
    <3>1. SdaPin(0) /\ Moves(t.end, 0 + 1)
      BY <1>1, <1>2, <2>1, MasterOp
    <3>2. l = 0
      BY <2>1 DEF Level
    <3>3. QED
      BY <1>2, <3>1, <3>2
  <2>2. CASE t.end[1] = "sda1"
    <3>1. SdaPin(1) /\ Moves(t.end, 0 + 1)
      BY <1>1, <1>2, <2>2, MasterOp
    <3>2. l = 1
      BY <2>2 DEF Level
    <3>3. QED
      BY <1>2, <3>1, <3>2
  <2>3. QED
    BY <1>2, <2>1, <2>2
<1>4. sda' = l /\ scl' = 0 /\ ee' = ee /\ (~late' => ~late)
  <2> HIDE DEF l
  <2>1. QED
    BY <1>1, <1>3, SdaMoves
<1>5. /\ Left(t.end, 1)' /\ ~clocking' /\ bits' = bits /\ nak' = nak
      /\ ~SclHigh' /\ ~SclHigh
  BY <1>1, <1>3, <1>4 DEF Moves, Left, SclHigh
<1>6. ASSUME ~late'
      PROVE  /\ nak \/ AllRead(t)
             /\ IF nak \/ t.in > 0 THEN Ignores(t, ee)
                                   ELSE Listens(t, Len(t.out) + 1, ee)
  <2>1. 0 # 3
    OBVIOUS
  <2>2. QED
    BY <1>4, <1>5, <1>6, <2>1 DEF AtEnd
<1>7. AllRead(t)' <=> AllRead(t)
  BY <1>5 DEF AllRead
<1>8. ~(1 >= 2) /\ 1 # 3
  OBVIOUS
<1> HIDE DEF l
<1>9. sda' = Level(t.end[1])
  BY <1>4 DEF l
<1>10. QED
  BY <1>1, <1>4, <1>5, <1>6, <1>7, <1>8, <1>9 DEF AtEnd

(* SCL is let go. *)
LEMMA EndSclStep ==
  ASSUME NEW t, IsTransfer(t), BusTyped, AtEnd(t, 1), Master
  PROVE  AtEnd(t, 2)'
<1>1. /\ Left(t.end, 1) /\ ~clocking /\ scl = 0 /\ sda = Level(t.end[1])
      /\ nak \/ Len(bits) = Width * t.in
  BY DEF AtEnd
<1>2. /\ t.end \in Seq(PinOps) /\ 1 + 1 <= Len(t.end) /\ 1 + 1 = 2
      /\ t.end[2] = "scl1"
  BY <1>1, EndPlace
<1>3. SclPin(1) /\ Moves(t.end, 2) /\ late' = late
  <2>1. SclPin(1) /\ Moves(t.end, 1 + 1) /\ late' = late
    BY <1>1, <1>2, MasterOp
  <2>2. QED
    BY <1>2, <2>1
<1>4. ee \in EeRecord /\ sda \in {0, 1}
  BY DEF BusTyped
<1>5. /\ scl' = 1 /\ sda' = sda
      /\ IF SclHigh' THEN Risen(ee') ELSE ee' = ee
  BY <1>1, <1>3, SclGoesUp
<1>6. Left(t.end, 2)' /\ ~clocking' /\ bits' = bits /\ nak' = nak
  BY <1>1, <1>3 DEF Moves, Left
<1>7. ASSUME ~late'
      PROVE  /\ nak \/ AllRead(t)
             /\ IF nak \/ t.in > 0 THEN Ignores(t, ee')
                ELSE IF SclHigh' THEN Open(t, ee')
                ELSE Listens(t, Len(t.out) + 1, ee')
  <2>1. /\ nak \/ AllRead(t)
        /\ IF nak \/ t.in > 0 THEN Ignores(t, ee)
           ELSE Listens(t, Len(t.out) + 1, ee)
    <3>1. ~SclHigh /\ 1 # 3
      BY <1>1 DEF SclHigh
    <3>2. QED
      BY <1>3, <1>7, <3>1 DEF AtEnd
  <2>2. CASE SclHigh'
    <3>1. Risen(ee')
      BY <1>5, <2>2
    <3>2. CASE nak \/ t.in > 0
      <4>1. Ignores(t, ee')
        BY <1>4, <2>1, <3>1, <3>2, IgnoresOn
      <4>2. QED
        BY <2>1, <3>2, <4>1
    <3>3. CASE ~(nak \/ t.in > 0)
      <4>1. Open(t, ee')
        BY <1>4, <2>1, <3>1, <3>3, EndRises
      <4>2. QED
        BY <2>1, <2>2, <3>3, <4>1
    <3>4. QED
      BY <3>2, <3>3
  <2>3. CASE ~SclHigh'
    BY <1>5, <2>1, <2>3
  <2>4. QED
    BY <2>2, <2>3
<1>8. AllRead(t)' <=> AllRead(t)
  BY <1>6 DEF AllRead
<1>9. 2 >= 2 /\ 2 # 3 /\ 2 \in {1, 2}
  OBVIOUS
<1>10. QED
  BY <1>1, <1>5, <1>6, <1>7, <1>8, <1>9 DEF AtEnd

(* The stop. *)
LEMMA StopStep ==
  ASSUME NEW t, IsTransfer(t), BusTyped, AtEnd(t, 2), Master
  PROVE  AtEnd(t, 3)' /\ Len(t.end) = 3
         /\ (~late' => ee.mem = t.mem /\ ee'.mem = Final(t, nak'))
<1>1. /\ Left(t.end, 2) /\ ~clocking /\ scl = 1 /\ sda = Level(t.end[1])
      /\ nak \/ Len(bits) = Width * t.in
  BY DEF AtEnd
<1>2. /\ t.end \in Seq(PinOps) /\ 2 + 1 <= Len(t.end) /\ 2 + 1 = 3
      /\ t.end[3] = "sda1" /\ t.end[1] = "sda0" /\ Len(t.end) = 3
  <2>1. 2 < Len(t.end)
    BY EndStops
  <2>2. Len(t.end) = 3
    <3>1. Len(t.end) \in {2, 3}
      BY <1>1, EndPlace
    <3>2. \A n \in {2, 3} : 2 < n => n = 3
      OBVIOUS
    <3>3. QED
      BY ONLY <2>1, <3>1, <3>2, Zenon
  <2>3. QED
    BY <1>1, <2>2, EndPlace
<1>3. SdaPin(1) /\ Moves(t.end, 3)
  <2>1. SdaPin(1) /\ Moves(t.end, 2 + 1)
    BY <1>1, <1>2, MasterOp
  <2>2. QED
    BY <1>2, <2>1
<1>4. sda = 0 /\ ee \in EeRecord /\ nak \in BOOLEAN
  BY <1>1, <1>2 DEF BusTyped, Level
<1>5. /\ sda' = 1 /\ scl' = 1
      /\ ~late' => ~late /\ ~ee.holds
      /\ ~late' /\ ~ee.pulls => ee' = Stop
  BY <1>1, <1>3, <1>4, SdaMoves
<1>6. Left(t.end, 3)' /\ ~clocking' /\ bits' = bits /\ nak' = nak
  BY <1>1, <1>3 DEF Moves, Left
<1>7. ASSUME ~late'
      PROVE  /\ nak \/ AllRead(t)
             /\ Idles(t, nak, ee') /\ ee.mem = t.mem
  <2>1. SclHigh /\ ~ee.holds /\ ~late /\ 2 # 3
    BY <1>1, <1>5, <1>7 DEF SclHigh
  <2>2. /\ nak \/ AllRead(t)
        /\ IF nak \/ t.in > 0 THEN Ignores(t, ee) ELSE Open(t, ee)
    BY <2>1 DEF AtEnd
  <2>3. ~ee.pulls /\ ee.mem = t.mem
    BY <2>2 DEF Ignores, Open
  <2>4. Idles(t, nak, Stop)
    BY <1>4, <2>1, <2>2, StopEnds
  <2>5. QED
    BY <1>5, <1>7, <2>2, <2>3, <2>4
<1>8. AllRead(t)' <=> AllRead(t)
  BY <1>6 DEF AllRead
<1>9. 3 >= 2 /\ 3 \notin {1, 2}
  OBVIOUS
<1>10. AtEnd(t, 3)'
  BY <1>1, <1>5, <1>6, <1>7, <1>8, <1>9 DEF AtEnd
<1>11. ~late' => ee'.mem = Final(t, nak')
  BY <1>6, <1>7 DEF Idles
<1>12. QED
  BY <1>2, <1>7, <1>10, <1>11

(* While SCL is low the EEPROM that lets it go is where it was. *)
LEMMA LowLetGo ==
  ASSUME NEW t, BusTyped, LetsGo, scl = 0
  PROVE  /\ MasterWaits /\ ~SclHigh /\ ~SclHigh'
         /\ \A j, k : OutLow(t, j, k, ee) => OutLow(t, j, k, ee')
         /\ \A j, q : InLow(t, j, q, ee) => InLow(t, j, q, ee')
         /\ \A j : Listens(t, j, ee) => Listens(t, j, ee')
         /\ Ignores(t, ee) => Ignores(t, ee')
<1>1. /\ MasterWaits /\ Freed(ee') /\ ~SclHigh /\ ~SclHigh'
  BY SclLetGo
<1>2. ee \in EeRecord /\ sda \in {0, 1}
  BY DEF BusTyped
<1>3. /\ \A j, k : OutLow(t, j, k, ee) => OutLow(t, j, k, ee')
      /\ \A j, q : InLow(t, j, q, ee) => InLow(t, j, q, ee')
      /\ \A j : Listens(t, j, ee) => Listens(t, j, ee')
      /\ Ignores(t, ee) => Ignores(t, ee')
  BY <1>1, <1>2, LowFreed
<1>4. QED
  BY <1>1, <1>3

(* While SCL is high the edge comes late. *)
LEMMA HighLetGo ==
  ASSUME BusTyped, LetsGo, scl = 1
  PROVE  /\ MasterWaits /\ ~SclHigh /\ SclHigh' /\ Risen(ee')
         /\ ee \in EeRecord /\ sda \in {0, 1} /\ ee.holds
<1>1. MasterWaits /\ Risen(ee') /\ SclHigh' /\ ~SclHigh
  BY SclLetGo
<1>2. ee \in EeRecord /\ sda \in {0, 1} /\ ee.holds
  BY DEF BusTyped, LetsGo
<1>3. QED
  BY <1>1, <1>2

(* When SCL rises, only the count, the byte and the state can change. *)
LEMMA RisesKeeps ==
  ASSUME ee \in EeRecord, sda \in {0, 1}, NEW e, Risen(e)
  PROVE  e.pulls = ee.pulls /\ e.mem = ee.mem /\ e.ptr = ee.ptr
<1>1. Alike(e, SclRises)
  BY EdgesAlike
<1>2. /\ SclRises.pulls = ee.pulls /\ SclRises.mem = ee.mem
      /\ SclRises.ptr = ee.ptr
  <2> DEFINE z == (2 * ee.byte + SdaLevel) % Pow2[Width]
             n == ee.n + 1
  <2> HIDE DEF z, n
  <2>1. SclRises \in {[ee EXCEPT !.byte = z, !.n = n], [ee EXCEPT !.n = n],
                      [ee EXCEPT !.st = "ignore"], ee}
    BY DEF SclRises, z, n
  <2>2. QED
    BY <2>1 DEF EeRecord
<1>3. QED
  BY <1>1, <1>2 DEF Alike

(* The EEPROM lets SCL go before the transfer or after the start. *)
LEMMA StartLetGo ==
  ASSUME NEW t, IsTransfer(t), BusTyped, LetsGo, AtStart(t) \/ AtFirst(t)
  PROVE  BusAt(t)'
<1>1. /\ MasterWaits /\ Risen(ee') /\ ee \in EeRecord /\ sda \in {0, 1}
      /\ ee.holds
  <2>1. scl = 1
    BY DEF AtStart, AtFirst
  <2>2. QED
    BY <2>1, HighLetGo
<1>2. ee'.pulls = ee.pulls /\ ee'.mem = ee.mem /\ ee'.ptr = ee.ptr
  BY <1>1, RisesKeeps
<1>3. CASE AtStart(t)
  <2>1. AtStart(t)'
    BY <1>1, <1>2, <1>3 DEF AtStart, Left, MasterWaits
  <2>2. QED
    BY <2>1 DEF BusAt
<1>4. CASE AtFirst(t)
  <2>1. late /\ late' = late
    BY <1>1, <1>4 DEF AtFirst, MasterWaits
  <2>2. AtFirst(t)'
    BY <1>1, <1>4, <2>1 DEF AtFirst, Left, MasterWaits
  <2>3. QED
    BY <2>2 DEF BusAt
<1>5. QED
  BY <1>3, <1>4

(* It does so while a byte is sent. *)
LEMMA OutLetGo ==
  ASSUME NEW t, IsTransfer(t), BusTyped, LetsGo,
         NEW j \in 1 .. Len(t.out), NEW k \in 1 .. Width + 1,
         OutSda(t, j, k) \/ OutClk(t, j, k)
  PROVE  BusAt(t)'
<1>1. CASE OutSda(t, j, k)
  <2>1. scl = 0
    BY <1>1 DEF OutSda
  <2>2. MasterWaits /\ (OutLow(t, j, k, ee) => OutLow(t, j, k, ee'))
    BY <2>1, LowLetGo
  <2>3. OutSda(t, j, k)'
    BY <1>1, <2>2 DEF OutSda, Left, MasterWaits
  <2>4. QED
    BY <2>3 DEF BusAt
<1>2. CASE OutClk(t, j, k) /\ scl = 0
  <2>1. /\ MasterWaits /\ ~SclHigh /\ ~SclHigh'
        /\ OutLow(t, j, k, ee) => OutLow(t, j, k, ee')
    BY <1>2, LowLetGo
  <2>2. OutClk(t, j, k)'
    BY <1>2, <2>1 DEF OutClk, Left, MasterWaits
  <2>3. QED
    BY <2>2 DEF BusAt
<1>3. CASE OutClk(t, j, k) /\ scl = 1
  <2>1. /\ MasterWaits /\ ~SclHigh /\ SclHigh' /\ Risen(ee')
        /\ ee \in EeRecord
    BY <1>3, HighLetGo
  <2>2. sda = Level(DataOp(t.out[j], k))
    BY <1>3 DEF OutClk
  <2>3. ASSUME ~late' PROVE OutHigh(t, j, k, ee')
    <3>1. OutLow(t, j, k, ee)
      BY <1>3, <2>1, <2>3 DEF OutClk, MasterWaits
    <3>2. QED
      BY <2>1, <2>2, <3>1, OutRises
  <2>4. OutClk(t, j, k)'
    BY <1>3, <2>1, <2>3 DEF OutClk, Left, MasterWaits
  <2>5. QED
    BY <2>4 DEF BusAt
<1>4. scl = 0 \/ scl = 1
  BY DEF BusTyped
<1>5. QED
  BY <1>1, <1>2, <1>3, <1>4

(* It does so while a byte is received. *)
LEMMA InLetGo ==
  ASSUME NEW t, IsTransfer(t), BusTyped, LetsGo, NEW j \in 1 .. t.in,
         \/ \E q \in {0, Width + 1} : InSda(t, j, q)
         \/ \E q \in (1 .. Width) \cup {Width + 2} : InClk(t, j, q)
  PROVE  BusAt(t)'
<1>1. ASSUME NEW q \in {0, Width + 1}, InSda(t, j, q)
      PROVE  BusAt(t)'
  <2>1. scl = 0
    BY <1>1 DEF InSda
  <2>2. MasterWaits /\ (InLow(t, j, q, ee) => InLow(t, j, q, ee'))
    BY <2>1, LowLetGo
  <2>3. InSda(t, j, q)'
    BY <1>1, <2>2 DEF InSda, Left, MasterWaits, AllRead
  <2>4. InSda(t, j, 0)' \/ InSda(t, j, Width + 1)'
    BY <2>3
  <2>5. QED
    BY <2>4 DEF BusAt
<1>2. ASSUME NEW q \in (1 .. Width) \cup {Width + 2}, InClk(t, j, q)
      PROVE  BusAt(t)'
  <2>1. CASE scl = 0
    <3>1. /\ MasterWaits /\ ~SclHigh /\ ~SclHigh'
          /\ InLow(t, j, q, ee) => InLow(t, j, q, ee')
      BY <2>1, LowLetGo
    <3>2. InClk(t, j, q)'
      BY <1>2, <3>1 DEF InClk, Left, MasterWaits, AllRead
    <3>3. QED
      BY <3>2 DEF BusAt
  <2>2. CASE scl = 1
    <3>1. /\ MasterWaits /\ ~SclHigh /\ SclHigh' /\ Risen(ee')
          /\ ee \in EeRecord /\ sda \in {0, 1}
      BY <2>2, HighLetGo
    <3>2. /\ q \in 1 .. Width + 2 /\ q # Width + 1
          /\ q = Width + 2 => sda = IF j < t.in THEN 0 ELSE 1
      <4>1. q \in 1 .. Width + 2 /\ q # Width + 1
        BY Widths
      <4>2. q = Width + 2 => sda = IF j < t.in THEN 0 ELSE 1
        BY <1>2 DEF InClk
      <4>3. QED
        BY <4>1, <4>2
    <3>3. ASSUME ~late' PROVE InHigh(t, j, q, ee') /\ AllRead(t)
      <4>1. InLow(t, j, q, ee) /\ AllRead(t)
        BY <1>2, <3>1, <3>3 DEF InClk, MasterWaits
      <4>2. QED
        BY <3>1, <3>2, <4>1, InRises
    <3>4. InClk(t, j, q)'
      BY <1>2, <3>1, <3>3 DEF InClk, Left, MasterWaits, AllRead
    <3>5. QED
      BY <3>4 DEF BusAt
  <2>3. scl = 0 \/ scl = 1
    BY DEF BusTyped
  <2>4. QED
    BY <2>1, <2>2, <2>3
<1>3. QED
  BY <1>1, <1>2

(* It does so at the end. *)
LEMMA EndLetGo ==
  ASSUME NEW t, IsTransfer(t), BusTyped, LetsGo, NEW r, AtEnd(t, r)
  PROVE  AtEnd(t, r)'
<1>1. MasterWaits
  BY SclLetGo
<1>2. r \in 0 .. 3
  BY EndPlace DEF AtEnd
<1>3. /\ nak \in BOOLEAN /\ scl = (IF r >= 2 THEN 1 ELSE 0)
  BY DEF AtEnd, BusTyped
<1>4. CASE late
  BY <1>1, <1>4 DEF AtEnd, Left, MasterWaits
<1>5. CASE ~late /\ r < 2
  <2>1. scl = 0 /\ r # 3
    BY <1>2, <1>3, <1>5
  <2>2. /\ ~SclHigh /\ ~SclHigh'
        /\ Listens(t, Len(t.out) + 1, ee) => Listens(t, Len(t.out) + 1, ee')
        /\ Ignores(t, ee) => Ignores(t, ee')
    BY <2>1, LowLetGo
  <2>3. QED
    BY <1>1, <2>1, <2>2 DEF AtEnd, Left, MasterWaits, AllRead
<1>6. CASE ~late /\ r = 2
  <2>1. 2 >= 2 /\ 2 # 3
    OBVIOUS
  <2>2. /\ ~SclHigh /\ SclHigh' /\ Risen(ee')
        /\ ee \in EeRecord /\ sda \in {0, 1} /\ ee.holds
    BY <1>3, <1>6, <2>1, HighLetGo
  <2>3. ~(nak \/ t.in > 0) /\ Listens(t, Len(t.out) + 1, ee)
    BY <1>6, <2>1, <2>2 DEF AtEnd, Ignores
  <2>4. Open(t, ee')
    BY <2>2, <2>3, EndRises
  <2>5. QED
    BY <1>1, <1>6, <2>1, <2>2, <2>3, <2>4
       DEF AtEnd, Left, MasterWaits, AllRead
<1>7. CASE ~late /\ r = 3
  <2>1. ~ee.holds
    BY <1>7 DEF AtEnd, Idles
  <2>2. ee.holds
    BY DEF LetsGo
  <2>3. QED
    BY <2>1, <2>2
<1>8. r < 2 \/ r = 2 \/ r = 3
  BY <1>2
<1>9. QED
  BY <1>4, <1>5, <1>6, <1>7, <1>8

-----------------------------------------------------------------------------
(* A step of the bus *)

(* When nothing is left the transfer is at its end. *)
LEMMA NothingLeft ==
  ASSUME NEW t, IsTransfer(t), BusAt(t), prog = << >>
  PROVE  AtEnd(t, Len(t.end))
<1>1. ASSUME NEW i, Left(t.p, i), i + 1 <= Len(t.p) PROVE FALSE
  <2>1. t.p \in Seq(PinOps)
    BY EndPosition
  <2>2. QED
    BY <1>1, <2>1, LeftHead
<1>2. ~AtStart(t) /\ ~AtFirst(t)
  <2>1. Len(t.p) >= 2 /\ t.p \in Seq(PinOps)
    BY EndPosition
  <2>2. 0 + 1 <= Len(t.p) /\ 1 + 1 <= Len(t.p)
    BY <2>1, LenProperties
  <2>3. QED
    BY <1>1, <2>2 DEF AtStart, AtFirst
<1>3. ASSUME NEW j \in 1 .. Len(t.out), NEW k \in 1 .. Width + 1,
             OutSda(t, j, k) \/ OutClk(t, j, k)
      PROVE  FALSE
  <2> DEFINE a == OutAt(j, k)
  <2>1. /\ a \in Nat /\ a + 2 <= Len(t.p) /\ t.p \in Seq(PinOps)
    BY OutPosition
  <2>2. Left(t.p, a) \/ Left(t.p, a + 1)
    BY <1>3 DEF OutSda, OutClk
  <2> HIDE DEF a
  <2>3. a + 1 <= Len(t.p) /\ (a + 1) + 1 <= Len(t.p)
    BY <2>1, LenProperties
  <2>4. QED
    BY <1>1, <2>2, <2>3
<1>4. ASSUME NEW j \in 1 .. t.in, NEW q \in 0 .. Width + 2,
             InSda(t, j, q) \/ InClk(t, j, q)
      PROVE  FALSE
  <2> DEFINE a == InAt(Len(t.out), j)
  <2>1. a \in Nat /\ a + Width + 3 <= Len(t.p) /\ t.p \in Seq(PinOps)
    BY InPosition
  <2>2. Left(t.p, a + q)
    BY <1>4 DEF InSda, InClk
  <2> HIDE DEF a
  <2>3. (a + q) + 1 <= Len(t.p)
    BY <2>1, Widths, LenProperties
  <2>4. QED
    BY <1>1, <2>2, <2>3
<1>5. /\ 0 \in 0 .. Width + 2 /\ Width + 1 \in 0 .. Width + 2
      /\ \A q \in (1 .. Width) \cup {Width + 2} : q \in 0 .. Width + 2
  BY Widths
<1>6. PICK r \in 0 .. Len(t.end) : AtEnd(t, r)
  BY <1>2, <1>3, <1>4, <1>5, Zenon DEF BusAt
<1>7. r = Len(t.end)
  <2>1. Left(t.end, r)
    BY <1>6 DEF AtEnd
  <2>2. QED
    BY <2>1, EndPlace
<1>8. QED
  BY <1>6, <1>7

(* What the EEPROM has, wherever it is in a transfer. *)
LEMMA MemFacts ==
  ASSUME NEW t, NEW e
  PROVE  /\ Ignores(t, e) \/ Open(t, e) => e.mem = t.mem
         /\ \A j : Listens(t, j, e) => e.mem = t.mem
         /\ \A j, k : OutLow(t, j, k, e) \/ OutHigh(t, j, k, e) =>
                       e.mem = t.mem
         /\ \A j, q : InLow(t, j, q, e) \/ InHigh(t, j, q, e) =>
                       e.mem = t.mem
<1>1. Ignores(t, e) \/ Open(t, e) => e.mem = t.mem
  BY DEF Ignores, Open
<1>2. \A j : Listens(t, j, e) => e.mem = t.mem
  BY DEF Listens, Hears
<1>3. ASSUME NEW j, NEW k, OutLow(t, j, k, e) \/ OutHigh(t, j, k, e)
      PROVE  e.mem = t.mem
  BY <1>3, Zenon DEF OutLow, OutHigh, Hears, Ignores
<1>4. ASSUME NEW j, NEW q, InLow(t, j, q, e) \/ InHigh(t, j, q, e)
      PROVE  e.mem = t.mem
  BY <1>4, Zenon DEF InLow, InHigh, Tells, Ignores
<1>5. QED
  BY <1>1, <1>2, <1>3, <1>4, Zenon

(* The contents change with the stop only. *)
LEMMA MemAt ==
  ASSUME NEW t, IsTransfer(t), BusAt(t), ~late, ~AtEnd(t, 3)
  PROVE  ee.mem = t.mem
<1>1. CASE AtStart(t) \/ AtFirst(t)
  BY <1>1, MemFacts, Zenon DEF AtStart, AtFirst
<1>2. ASSUME NEW j, NEW k, OutSda(t, j, k) \/ OutClk(t, j, k)
      PROVE  ee.mem = t.mem
  BY <1>2, MemFacts, Zenon DEF OutSda, OutClk
<1>3. ASSUME NEW j, NEW q, InSda(t, j, q) \/ InClk(t, j, q)
      PROVE  ee.mem = t.mem
  BY <1>3, MemFacts, Zenon DEF InSda, InClk
<1>4. ASSUME NEW r, AtEnd(t, r) PROVE ee.mem = t.mem
  <2>1. r # 3
    BY <1>4
  <2>2. \/ Ignores(t, ee) \/ Open(t, ee) \/ Listens(t, Len(t.out) + 1, ee)
    BY <1>4, <2>1, Zenon DEF AtEnd
  <2>3. QED
    BY <2>2, MemFacts, Zenon
<1>5. QED
  BY <1>1, <1>2, <1>3, <1>4, Zenon DEF BusAt

(* After a step they are those of before, or those that were written. *)
LEMMA MemAfter ==
  ASSUME NEW t, IsTransfer(t), BusAt(t)', ~late'
  PROVE  \/ ee'.mem = t.mem
         \/ ee'.mem = Over(t) /\ Len(t.out) >= 3
<1>1. CASE AtStart(t)' \/ AtFirst(t)'
  <2>1. ee'.mem = t.mem
    BY <1>1, MemFacts, Zenon DEF AtStart, AtFirst
  <2>2. QED
    BY <2>1
<1>2. ASSUME NEW j, NEW k, OutSda(t, j, k)' \/ OutClk(t, j, k)'
      PROVE  ee'.mem = t.mem
  BY <1>2, MemFacts, Zenon DEF OutSda, OutClk
<1>3. ASSUME NEW j, NEW q, InSda(t, j, q)' \/ InClk(t, j, q)'
      PROVE  ee'.mem = t.mem
  BY <1>3, MemFacts, Zenon DEF InSda, InClk
<1>4. ASSUME NEW r, AtEnd(t, r)'
      PROVE  \/ ee'.mem = t.mem
             \/ ee'.mem = Over(t) /\ Len(t.out) >= 3
  <2>1. CASE r = 3
    <3>1. ee'.mem = Final(t, nak')
      BY <1>4, <2>1 DEF AtEnd, Idles
    <3>2. Len(t.out) \in Nat
      BY TransferFacts
    <3>3. QED
      BY <3>1, <3>2 DEF Final
  <2>2. CASE r # 3
    <3>1. \/ Ignores(t, ee') \/ Open(t, ee')
          \/ Listens(t, Len(t.out) + 1, ee')
      BY <1>4, <2>2, Zenon DEF AtEnd
    <3>2. QED
      BY <3>1, MemFacts, Zenon
  <2>3. QED
    BY <2>1, <2>2
<1>5. QED
  BY <1>1, <1>2, <1>3, <1>4, Zenon DEF BusAt

(* Every step of the bus is at the next place of the transfer. *)
LEMMA BusMoves ==
  ASSUME NEW t, IsTransfer(t), BusTyped, BusAt(t), Master \/ LetsGo
  PROVE  BusAt(t)'
<1>1. CASE AtStart(t)
  BY <1>1, StartStep, StartLetGo DEF BusAt
<1>2. CASE AtFirst(t)
  <2>1. CASE Master
    <3>1. OutSda(t, 1, 1)'
      BY <1>2, <2>1, FirstStep
    <3>2. 1 \in 1 .. Len(t.out) /\ 1 \in 1 .. Width + 1
      BY TransferFacts, Widths
    <3>3. QED
      BY <3>1, <3>2 DEF BusAt
  <2>2. CASE LetsGo
    BY <1>2, <2>2, StartLetGo
  <2>3. QED
    BY <2>1, <2>2
<1>3. ASSUME NEW j \in 1 .. Len(t.out), NEW k \in 1 .. Width + 1,
             OutSda(t, j, k) \/ OutClk(t, j, k)
      PROVE  BusAt(t)'
  <2>1. CASE LetsGo
    BY <1>3, <2>1, OutLetGo
  <2>2. CASE Master /\ OutSda(t, j, k)
    <3>1. OutClk(t, j, k)'
      BY <2>2, OutSdaStep
    <3>2. QED
      BY <3>1 DEF BusAt
  <2>3. CASE Master /\ OutClk(t, j, k)
    BY <2>3, OutClkStep
  <2>4. QED
    BY <1>3, <2>1, <2>2, <2>3
<1>4. ASSUME NEW j \in 1 .. t.in, NEW q \in {0, Width + 1}, InSda(t, j, q)
      PROVE  BusAt(t)'
  <2>1. CASE LetsGo
    BY <1>4, <2>1, InLetGo
  <2>2. CASE Master
    BY <1>4, <2>2, InSdaStep
  <2>3. QED
    BY <2>1, <2>2
<1>5. ASSUME NEW j \in 1 .. t.in, NEW q \in (1 .. Width) \cup {Width + 2},
             InClk(t, j, q)
      PROVE  BusAt(t)'
  <2>1. CASE LetsGo
    BY <1>5, <2>1, InLetGo
  <2>2. CASE Master
    BY <1>5, <2>2, InClkStep
  <2>3. QED
    BY <2>1, <2>2
<1>6. ASSUME NEW r \in 0 .. Len(t.end), AtEnd(t, r)
      PROVE  BusAt(t)'
  <2>1. CASE LetsGo
    <3>1. AtEnd(t, r)'
      BY <1>6, <2>1, EndLetGo
    <3>2. QED
      BY <3>1 DEF BusAt
  <2>2. CASE Master
    <3>1. r \in 0 .. 3 /\ Len(t.end) \in {2, 3} /\ r < Len(t.end)
      <4>1. Left(t.end, r)
        BY <1>6 DEF AtEnd
      <4>2. QED
        BY <1>6, <2>2, <4>1, EndPlace, EndStops
    <3>2. \A n \in {2, 3} : r < n => r \in {0, 1, 2} /\ r + 1 \in 0 .. n
      BY <3>1
    <3>3. r \in {0, 1, 2} /\ r + 1 \in 0 .. Len(t.end)
      BY <3>1, <3>2, Zenon
    <3>4. AtEnd(t, r + 1)'
      <4>1. CASE r = 0
        <5>1. AtEnd(t, 1)' /\ r + 1 = 1
          BY <1>6, <2>2, <4>1, EndSdaStep
        <5>2. QED
          BY <5>1
      <4>2. CASE r = 1
        <5>1. AtEnd(t, 2)' /\ r + 1 = 2
          BY <1>6, <2>2, <4>2, EndSclStep
        <5>2. QED
          BY <5>1
      <4>3. CASE r = 2
        <5>1. AtEnd(t, 3)' /\ r + 1 = 3
          BY <1>6, <2>2, <4>3, StopStep
        <5>2. QED
          BY <5>1
      <4>4. QED
        BY <3>3, <4>1, <4>2, <4>3
    <3>5. QED
      BY <3>3, <3>4 DEF BusAt
  <2>3. QED
    BY <2>1, <2>2
<1>7. QED
  BY <1>1, <1>2, <1>3, <1>4, <1>5, <1>6, Zenon DEF BusAt

(* The end of a write cycle does not show. *)
LEMMA CycleIsOver ==
  ASSUME NEW t, IsTransfer(t), BusTyped, BusAt(t), CycleOver
  PROVE  BusAt(t)' /\ ee'.mem = ee.mem
<1>1. /\ prog = << >> /\ MasterWaits /\ ee' = [ee EXCEPT !.busy = FALSE]
      /\ ee \in EeRecord
  BY DEF CycleOver, MasterWaits, BusTyped
<1>2. /\ ee'.st = ee.st /\ ee'.n = ee.n /\ ee'.byte = ee.byte
      /\ ee'.pulls = ee.pulls /\ ee'.holds = ee.holds /\ ee'.ptr = ee.ptr
      /\ ee'.page = ee.page /\ ee'.mem = ee.mem
  BY <1>1 DEF EeRecord
<1>3. AtEnd(t, Len(t.end))
  BY <1>1, NothingLeft
<1>4. /\ Idles(t, nak, ee') <=> Idles(t, nak, ee)
      /\ Ignores(t, ee') <=> Ignores(t, ee)
      /\ Open(t, ee') <=> Open(t, ee)
      /\ Listens(t, Len(t.out) + 1, ee') <=> Listens(t, Len(t.out) + 1, ee)
  BY <1>2, Zenon DEF Idles, Ignores, Open, Listens, Hears
<1>5. SclHigh' <=> SclHigh
  BY <1>1, <1>2 DEF SclHigh, MasterWaits
<1>6. AtEnd(t, Len(t.end))'
  BY <1>1, <1>3, <1>4, <1>5 DEF AtEnd, Left, MasterWaits, AllRead
<1>7. Len(t.end) \in 0 .. Len(t.end)
  <2>1. Left(t.end, Len(t.end))
    BY <1>3 DEF AtEnd
  <2>2. QED
    BY <2>1 DEF Left
<1>8. QED
  BY <1>2, <1>6, <1>7 DEF BusAt

(* Every step: the types, the place and the contents. *)
LEMMA BusStep ==
  ASSUME NEW t, IsTransfer(t), BusTyped, BusAt(t),
         Master \/ LetsGo \/ CycleOver
  PROVE  /\ BusTyped' /\ BusAt(t)' /\ (~late' => ~late)
         /\ ~late' => \/ ee'.mem = ee.mem
                      \/ /\ ee.mem = t.mem /\ ee'.mem = Over(t)
                         /\ Len(t.out) >= 3
<1>1. CASE CycleOver
  <2>1. MasterWaits /\ ee' = [ee EXCEPT !.busy = FALSE]
    BY <1>1 DEF CycleOver, MasterWaits
  <2>2. ee' \in EeRecord
    <3>1. FALSE \in BOOLEAN /\ ee \in EeRecord
      BY DEF BusTyped
    <3>2. QED
      BY <2>1, <3>1, EeUpdates, Zenon
  <2>3. BusTyped' /\ late' = late
    BY <2>1, <2>2 DEF BusTyped, MasterWaits
  <2>4. QED
    BY <1>1, <2>3, CycleIsOver
<1>2. CASE Master \/ LetsGo
  <2>1. BusTyped' /\ BusAt(t)'
    BY <1>2, BusTypes, BusMoves
  <2>2. ~late' => ~late
    <3>1. CASE LetsGo
      BY <3>1 DEF LetsGo
    <3>2. CASE Master
      BY <3>2, Zenon DEF Master, Pin, SdaPin, ClockUp, LookAgain, ClockDown
    <3>3. QED
      BY <1>2, <3>1, <3>2
  <2>3. ASSUME ~late'
        PROVE  \/ ee'.mem = ee.mem
               \/ /\ ee.mem = t.mem /\ ee'.mem = Over(t)
                  /\ Len(t.out) >= 3
    <3>1. ~AtEnd(t, 3)
      <4>1. CASE LetsGo
        <5>1. ee.holds
          BY <4>1 DEF LetsGo
        <5>2. QED
          BY <2>2, <2>3, <5>1 DEF AtEnd, Idles
      <4>2. CASE Master
        <5>1. ASSUME AtEnd(t, 3) PROVE FALSE
          <6>1. 3 < Len(t.end)
            BY <4>2, <5>1, EndStops
          <6>2. Len(t.end) \in {2, 3}
            BY EndPosition
          <6>3. \A n \in {2, 3} : ~(3 < n)
            OBVIOUS
          <6>4. QED
            BY ONLY <6>1, <6>2, <6>3, Zenon
        <5>2. QED
          BY <5>1
      <4>3. QED
        BY <1>2, <4>1, <4>2
    <3>2. ee.mem = t.mem
      BY <2>2, <2>3, <3>1, MemAt
    <3>3. ee'.mem = t.mem \/ (ee'.mem = Over(t) /\ Len(t.out) >= 3)
      BY <2>1, <2>3, MemAfter
    <3>4. QED
      BY <3>2, <3>3
  <2>4. QED
    BY <2>1, <2>2, <2>3
<1>3. QED
  BY <1>1, <1>2

-----------------------------------------------------------------------------
(* The bytes that were read *)

(* the k-th of them *)
ValueOf(k) ==
  LET v[j \in 0 .. Width] ==
        IF j = 0 THEN 0 ELSE 2 * v[j - 1] + bits[Width * (k - 1) + j]
  IN  v[Width]

(* its bits were read *)
BitsRead(k) == \A j \in 1 .. Width : bits[Width * (k - 1) + j] \in {0, 1}

(* It is put together bit by bit. *)
LEMMA ValueSteps ==
  ASSUME NEW k, BitsRead(k)
  PROVE  \E v \in [0 .. Width -> Nat] :
           /\ v[0] = 0 /\ ValueOf(k) = v[Width]
           /\ \A j \in 1 .. Width :
                v[j] = 2 * v[j - 1] + bits[Width * (k - 1) + j]
<1> DEFINE d(j) == bits[Width * (k - 1) + j]
           h == [j \in 1 .. Width |-> [x \in Nat |-> 2 * x + d(j)]]
<1>1. Width \in Nat /\ 0 \in Nat /\ \A j \in 1 .. Width : d(j) \in Nat
  BY Widths DEF BitsRead
<1> HIDE DEF d
<1>2. h \in [1 .. Width -> [Nat -> Nat]]
  <2>1. \A j \in 1 .. Width : \A x \in Nat : 2 * x + d(j) \in Nat
    BY <1>1
  <2>2. QED
    BY <2>1
<1> HIDE DEF h
<1>3. PICK f \in [0 .. Width -> Nat] : Recurs(f, Width, 0, h)
  BY <1>1, <1>2, Recursion
<1>4. ASSUME NEW j \in 0 .. Width, j # 0
      PROVE  h[j][f[j - 1]] = 2 * f[j - 1] + d(j)
  <2>1. j \in 1 .. Width /\ f[j - 1] \in Nat
    BY <1>1, <1>3, <1>4
  <2>2. QED
    BY <2>1 DEF h
<1> DEFINE u == [j \in 0 .. Width |-> IF j = 0 THEN 0 ELSE h[j][f[j - 1]]]
           g == [j \in 0 .. Width |-> IF j = 0 THEN 0
                                      ELSE 2 * f[j - 1] + d(j)]
<1>5. u = g
  BY <1>4
<1>6. f = u
  BY <1>3, Zenon DEF Recurs
<1>7. f = g
  BY <1>5, <1>6
<1> HIDE DEF u
<1> DEFINE c == CHOOSE x : x = [j \in 0 .. Width |->
                                  IF j = 0 THEN 0 ELSE 2 * x[j - 1] + d(j)]
<1>8. c = [j \in 0 .. Width |-> IF j = 0 THEN 0 ELSE 2 * c[j - 1] + d(j)]
  BY <1>7, Zenon
<1>9. ValueOf(k) = c[Width]
  BY Zenon DEF ValueOf, d
<1> HIDE DEF c
<1>10. c[0] = 0 /\ \A j \in 1 .. Width : c[j] = 2 * c[j - 1] + d(j)
  BY <1>1, <1>8
<1> DEFINE T == {n \in Nat : n <= Width => c[n] \in Nat}
<1>11. 0 \in T
  BY <1>10
<1>12. ASSUME NEW n \in Nat, n \in T PROVE n + 1 \in T
  <2> SUFFICES ASSUME n + 1 <= Width PROVE c[n + 1] \in Nat
    OBVIOUS
  <2>1. n + 1 \in 1 .. Width /\ (n + 1) - 1 = n /\ c[n] \in Nat
    BY <1>1, <1>12
  <2>2. c[n + 1] = 2 * c[n] + d(n + 1) /\ d(n + 1) \in Nat
    <3>1. c[n + 1] = 2 * c[(n + 1) - 1] + d(n + 1)
      BY <1>10, <2>1
    <3>2. QED
      BY <1>1, <2>1, <3>1
  <2>3. QED
    BY <2>1, <2>2
<1> HIDE DEF T
<1>13. \A n \in Nat : n \in T
  BY <1>11, <1>12, NatInductive
<1>14. \A n \in 0 .. Width : c[n] \in Nat
  BY <1>1, <1>13 DEF T
<1>15. c \in [0 .. Width -> Nat]
  <2>1. c = [j \in 0 .. Width |-> c[j]]
    <3>1. DOMAIN c = 0 .. Width /\ c = [j \in DOMAIN c |-> c[j]]
      BY <1>8
    <3>2. QED
      BY <3>1
  <2>2. QED
    BY <1>14, <2>1
<1>16. \A j \in 1 .. Width :
         c[j] = 2 * c[j - 1] + bits[Width * (k - 1) + j]
  BY <1>10 DEF d
<1>17. QED
  BY <1>9, <1>10, <1>15, <1>16

(* It is a byte: one whose bits are those that were read. *)
LEMMA ValueIs ==
  ASSUME NEW k, BitsRead(k)
  PROVE  /\ ValueOf(k) \in BusByte
         /\ \A b \in BusByte :
              (\A j \in 1 .. Width : bits[Width * (k - 1) + j] = Bit(b, j))
                => ValueOf(k) = b
<1> DEFINE d(j) == bits[Width * (k - 1) + j]
<1>1. PICK v \in [0 .. Width -> Nat] :
        /\ v[0] = 0 /\ ValueOf(k) = v[Width]
        /\ \A j \in 1 .. Width : v[j] = 2 * v[j - 1] + d(j)
  BY ValueSteps
<1>2. /\ Width \in Nat /\ Width >= 2
      /\ \A j \in 1 .. Width : d(j) \in {0, 1}
  BY Widths DEF BitsRead
<1>3. /\ Pow2 \in [0 .. Width -> Nat \ {0}] /\ Pow2[0] = 1
      /\ \A n \in 0 .. Width - 1 : Pow2[n + 1] = 2 * Pow2[n]
  BY Powers
<1> HIDE DEF d
<1>4. ASSUME NEW n \in Nat, n + 1 <= Width
      PROVE  /\ n \in 0 .. Width /\ n + 1 \in 0 .. Width
             /\ n \in 0 .. Width - 1 /\ n + 1 \in 1 .. Width
             /\ v[n + 1] = 2 * v[n] + d(n + 1) /\ d(n + 1) \in {0, 1}
             /\ v[n] \in Nat
  <2>1. /\ n \in 0 .. Width /\ n + 1 \in 0 .. Width /\ (n + 1) - 1 = n
        /\ n \in 0 .. Width - 1 /\ n + 1 \in 1 .. Width
    BY <1>2, <1>4
  <2>2. v[n + 1] = 2 * v[(n + 1) - 1] + d(n + 1)
    BY <1>1, <2>1
  <2>3. QED
    BY <1>1, <1>2, <2>1, <2>2
<1> DEFINE T == {n \in Nat : n <= Width => v[n] < Pow2[n]}
<1>5. 0 \in T
  BY <1>1, <1>3
<1>6. ASSUME NEW n \in Nat, n \in T PROVE n + 1 \in T
  <2> SUFFICES ASSUME n + 1 <= Width PROVE v[n + 1] < Pow2[n + 1]
    OBVIOUS
  <2>1. v[n] < Pow2[n] /\ Pow2[n + 1] = 2 * Pow2[n] /\ Pow2[n] \in Nat
    BY <1>3, <1>4, <1>6
  <2>2. /\ v[n + 1] = 2 * v[n] + d(n + 1) /\ d(n + 1) \in {0, 1}
        /\ v[n] \in Nat
    BY <1>4
  <2> HIDE DEF T
  <2>3. QED
    BY ONLY <2>1, <2>2
<1> HIDE DEF T
<1>7. \A n \in Nat : n \in T
  BY <1>5, <1>6, NatInductive
<1>8. v[Width] < Pow2[Width] /\ v[Width] \in Nat /\ Pow2[Width] \in Nat
  <2>1. Width <= Width /\ Width \in 0 .. Width
    BY <1>2
  <2>2. QED
    BY <1>1, <1>2, <1>3, <1>7, <2>1 DEF T
<1>9. v[Width] \in BusByte
  BY <1>8 DEF BusByte
<1>10. ASSUME NEW b \in BusByte, \A j \in 1 .. Width : d(j) = Bit(b, j)
       PROVE  v[Width] = b
  <2> DEFINE H == {n \in Nat : n <= Width => v[n] = High(b, n)}
  <2>1. 0 \in H
    <3>1. 0 \in 0 .. Width
      BY <1>2
    <3>2. High(b, 0) = 0
      BY <3>1, HighProps
    <3>3. QED
      BY <1>1, <3>2
  <2>2. ASSUME NEW n \in Nat, n \in H PROVE n + 1 \in H
    <3> SUFFICES ASSUME n + 1 <= Width PROVE v[n + 1] = High(b, n + 1)
      OBVIOUS
    <3>1. v[n] = High(b, n)
      BY <1>4, <2>2
    <3>2. n \in 0 .. Width /\ n < Width
      BY <1>2
    <3>3. High(b, n + 1) = 2 * High(b, n) + Bit(b, n + 1)
      BY <3>2, HighProps
    <3>4. v[n + 1] = 2 * v[n] + d(n + 1) /\ n + 1 \in 1 .. Width
      BY <1>4
    <3>5. d(n + 1) = Bit(b, n + 1)
      BY <1>10, <3>4
    <3> HIDE DEF H
    <3>6. QED
      BY ONLY <3>1, <3>3, <3>4, <3>5, Zenon
  <2> HIDE DEF H
  <2>3. \A n \in Nat : n \in H
    BY <2>1, <2>2, NatInductive
  <2>4. v[Width] = High(b, Width)
    BY <1>2, <2>3 DEF H
  <2>5. High(b, Width) = b
    <3>1. Width \in 0 .. Width
      BY <1>2
    <3>2. QED
      BY <3>1, HighProps
  <2>6. QED
    BY <2>4, <2>5
<1>11. ASSUME NEW b \in BusByte,
              \A j \in 1 .. Width : bits[Width * (k - 1) + j] = Bit(b, j)
       PROVE  ValueOf(k) = b
  <2>1. \A j \in 1 .. Width : d(j) = Bit(b, j)
    BY <1>11 DEF d
  <2>2. QED
    BY <1>1, <1>10, <2>1
<1>12. QED
  BY <1>1, <1>9, <1>11, Zenon

(* As many bytes as were asked for. *)
LEMMA BytesAre ==
  ASSUME bits \in Seq({0, 1}), NEW n \in Nat, Len(bits) = Width * n
  PROVE  /\ Bytes \in Seq(BusByte) /\ Len(Bytes) = n
         /\ \A k \in 1 .. n : Bytes[k] = ValueOf(k) /\ BitsRead(k)
<1>1. Width \in Nat \ {0}
  BY Widths
<1>2. Len(bits) \div Width = n
  <2> DEFINE a == Len(bits)
  <2>1. a = Width * n + 0
    <3>1. Width * n \in Nat
      BY <1>1
    <3>2. QED
      BY <3>1
  <2>2. a \in Int /\ 0 \in 0 .. Width - 1
    BY <1>1, LenProperties
  <2> HIDE DEF a
  <2>3. a \div Width = n
    BY ONLY <1>1, n \in Int, <2>1, <2>2, DivUnique
  <2>4. QED
    BY <2>3 DEF a
<1>3. Bytes = [k \in 1 .. n |-> ValueOf(k)]
  BY <1>2, Zenon DEF Bytes, ValueOf
<1>4. ASSUME NEW k \in 1 .. n PROVE BitsRead(k)
  <2>1. ASSUME NEW j \in 1 .. Width
        PROVE  bits[Width * (k - 1) + j] \in {0, 1}
    <3> DEFINE i == Width * (k - 1) + j
    <3>1. i \in 1 .. Width * n
      BY <1>1, PieceIndex
    <3>2. i \in 1 .. Len(bits)
      BY <3>1
    <3> HIDE DEF i
    <3>3. bits[i] \in {0, 1}
      BY <3>2, ElementOfSeq
    <3>4. QED
      BY <3>3 DEF i
  <2>2. QED
    BY <2>1 DEF BitsRead
<1>5. \A k \in 1 .. n : ValueOf(k) \in BusByte
  BY <1>4, ValueIs
<1>6. Bytes \in Seq(BusByte) /\ Len(Bytes) = n
      /\ \A k \in 1 .. n : Bytes[k] = ValueOf(k)
  <2> HIDE DEF Bytes
  <2>1. QED
    BY <1>3, <1>5
<1>7. QED
  BY <1>4, <1>6

(* When the EEPROM was heard they are its contents. *)
LEMMA BytesRead ==
  ASSUME NEW t, IsTransfer(t), bits \in Seq({0, 1}),
         Len(bits) = Width * t.in, AllRead(t)
  PROVE  /\ Bytes \in Seq(BusByte) /\ Len(Bytes) = t.in
         /\ \A k \in 1 .. t.in : Bytes[k] = t.mem[t.at + k - 1]
<1>1. t.in \in Nat /\ Width \in Nat \ {0} /\ t.mem \in Images
  BY TransferFacts, Widths
<1>2. /\ Bytes \in Seq(BusByte) /\ Len(Bytes) = t.in
      /\ \A k \in 1 .. t.in : Bytes[k] = ValueOf(k) /\ BitsRead(k)
  <2> DEFINE n == t.in
  <2> HIDE DEF n
  <2>1. n \in Nat /\ Len(bits) = Width * n
    BY <1>1 DEF n
  <2>2. /\ Bytes \in Seq(BusByte) /\ Len(Bytes) = n
        /\ \A k \in 1 .. n : Bytes[k] = ValueOf(k) /\ BitsRead(k)
    BY <2>1, BytesAre
  <2>3. QED
    BY <2>2 DEF n
<1>3. ASSUME NEW k \in 1 .. t.in
      PROVE  ValueOf(k) = t.mem[t.at + k - 1]
  <2> DEFINE b == t.mem[t.at + k - 1]
  <2>1. b \in BusByte
    <3>1. t.at + k - 1 \in EeAddresses
      BY ReadAddress
    <3>2. QED
      BY <1>1, <3>1 DEF Images
  <2>2. ASSUME NEW j \in 1 .. Width
        PROVE  bits[Width * (k - 1) + j] = Bit(b, j)
    <3> DEFINE i == Width * (k - 1) + j
    <3>1. i \in 1 .. Width * t.in
      BY <1>1, PieceIndex
    <3>2. i \in 1 .. Len(bits)
      BY <3>1
    <3>3. bits[i] = BitAt(t, i)
      <4> HIDE DEF i
      <4>1. QED
        BY <3>2 DEF AllRead
    <3>4. i = BitsAt(k, j) + 1
      <4>1. /\ BitsAt(k, j) = Width * (k - 1) + j - 1
            /\ Width * (k - 1) \in Nat
        <5>1. k \in Nat \ {0}
          BY <1>1
        <5>2. QED
          BY <5>1, BitCounts
      <4> DEFINE w == Width * (k - 1)
      <4>2. w \in Nat /\ i = w + j /\ BitsAt(k, j) = w + j - 1 /\ j \in Nat
        BY <1>1, <4>1
      <4> HIDE DEF w, i
      <4>3. QED
        BY <4>2
    <3>5. BitAt(t, BitsAt(k, j) + 1) = Bit(b, j)
      BY BitPlace
    <3> HIDE DEF i, b
    <3>6. bits[i] = Bit(b, j)
      BY <3>3, <3>4, <3>5
    <3>7. QED
      BY <3>6 DEF i
  <2>3. BitsRead(k)
    BY <1>2
  <2> HIDE DEF b
  <2>4. ValueOf(k) = b
    BY <2>1, <2>2, <2>3, ValueIs
  <2>5. QED
    BY <2>4 DEF b
<1>4. QED
  BY <1>2, <1>3

-----------------------------------------------------------------------------
(* The driver's transfers *)

(* c is a call that fits the EEPROM *)
IsCall(c) ==
  /\ c.addr \in EeAddresses /\ c.data \in Seq(BusByte)
  /\ c.addr + Len(c.data) <= EepromSize

(* the bytes that follow the address of the EEPROM when a page is written   *)
PageData(c, n) ==
  << c.addr + n >> \o SubSeq(c.data, n + 1, n + page_len(c, n))

(* the bytes that the transfer pc sends when n bytes of c are done, the     *)
(* number that it receives, its end and its pin operations                  *)
OutOf(pc, c, n) ==
  IF pc \in {"page", "put"}
  THEN << 2 * DevAddr >> \o PageData(c, n)
  ELSE IF pc \in {"addr", "reg"} THEN << 2 * DevAddr >> \o << c.addr + n >>
  ELSE IF pc = "poll" THEN << 2 * DevAddr >> \o << >>
  ELSE << 2 * DevAddr + 1 >>
InOf(pc, c, n) == IF pc \in {"data", "get"} THEN page_len(c, n) ELSE 0
EndOf(pc) == IF pc = "reg" THEN i2c_stopr ELSE i2c_stop
OpsOf(pc, c, n) ==
  IF pc \in {"page", "put"} THEN PageWrite(c, n)
  ELSE IF pc = "addr" THEN SetAddress(c, n)
  ELSE IF pc = "reg" THEN nk_bitbang_i2c_write_nostop(<< c.addr + n >>)
  ELSE IF pc = "poll" THEN AckPoll
  ELSE nk_bitbang_i2c_read(page_len(c, n))
TransferOf(pc, c, n, m) ==
  [out |-> OutOf(pc, c, n), in |-> InOf(pc, c, n), end |-> EndOf(pc),
   at |-> c.addr + n, mem |-> m, p |-> OpsOf(pc, c, n)]
Transfers == {"page", "poll", "addr", "data", "put", "reg", "get"}

(* A transfer is within a page and within the call. *)
LEMMA PageLen ==
  ASSUME NEW c, IsCall(c), NEW n \in 0 .. Len(c.data) - 1
  PROVE  /\ page_len(c, n) \in 1 .. Len(c.data) - n
         /\ ((c.addr + n) % ChipPage) + page_len(c, n) <= ChipPage
         /\ Len(c.data) \in Nat /\ n \in Nat /\ c.addr \in Nat
         /\ c.addr + n \in EeAddresses /\ c.addr + n \in BusByte
<1>1. Len(c.data) \in Nat /\ c.addr \in Nat /\ EepromSize \in Nat
  BY Widths, LenProperties DEF IsCall, EeAddresses
<1>2. n \in Nat /\ Len(c.data) - n \in Nat /\ Len(c.data) - n >= 1
  <2> DEFINE L == Len(c.data)
  <2> HIDE DEF L
  <2>1. L \in Nat /\ n \in 0 .. L - 1
    BY <1>1 DEF L
  <2>2. n \in Nat /\ L - n \in Nat /\ L - n >= 1
    BY <2>1
  <2>3. QED
    BY <2>2 DEF L
<1>3. c.addr + n \in EeAddresses
  BY <1>1, <1>2 DEF IsCall, EeAddresses
<1>4. c.addr + n \in BusByte
  <2>1. EepromSize <= Pow2[Width] /\ Pow2[Width] \in Nat
    BY I2cConstantsOK, Powers, Widths
  <2>2. QED
    BY <1>1, <1>3, <2>1 DEF EeAddresses, BusByte
<1> DEFINE r == (c.addr + n) % ChipPage
           S == {ChipPage - r, Len(c.data) - n}
<1>5. r \in 0 .. ChipPage - 1 /\ ChipPage \in Nat \ {0}
  <2>1. c.addr + n \in Int /\ ChipPage \in Nat \ {0}
    BY <1>1, <1>2, Widths
  <2>2. QED
    BY <2>1, DivMod
<1> HIDE DEF r
<1>6. S \in SUBSET Nat /\ S # {} /\ \A x \in S : x >= 1
  BY <1>2, <1>5
<1>7. Min(S) \in S /\ \A x \in S : Min(S) <= x
  <2> HIDE DEF S
  <2>1. QED
    BY <1>6, MinIn
<1>8. page_len(c, n) = Min(S)
  BY DEF page_len, r
<1>9. /\ Min(S) <= ChipPage - r /\ Min(S) <= Len(c.data) - n
      /\ Min(S) \in Nat /\ Min(S) >= 1
  <2>1. ChipPage - r \in S /\ Len(c.data) - n \in S
    OBVIOUS
  <2> HIDE DEF S
  <2>2. QED
    BY <1>6, <1>7, <2>1
<1> HIDE DEF S
<1>10. page_len(c, n) \in 1 .. Len(c.data) - n
  BY <1>2, <1>8, <1>9
<1>11. r + page_len(c, n) <= ChipPage
  BY <1>5, <1>8, <1>9
<1>12. QED
  BY <1>1, <1>2, <1>3, <1>4, <1>10, <1>11 DEF r

(* What a page sends. *)
LEMMA PageOut ==
  ASSUME NEW c, IsCall(c), NEW n \in 0 .. Len(c.data) - 1
  PROVE  /\ PageData(c, n) \in Seq(BusByte)
         /\ Len(PageData(c, n)) = page_len(c, n) + 1
         /\ PageData(c, n)[1] = c.addr + n
         /\ \A k \in 1 .. page_len(c, n) :
              PageData(c, n)[k + 1] = c.data[n + k]
<1> DEFINE l == page_len(c, n)
           a == c.addr + n
           s == SubSeq(c.data, n + 1, n + l)
           u == << a >>
<1>1. /\ l \in 1 .. Len(c.data) - n /\ Len(c.data) \in Nat /\ n \in Nat
      /\ a \in BusByte /\ c.data \in Seq(BusByte)
  BY PageLen DEF IsCall
<1> HIDE DEF l
<1>2. n + 1 \in 1 .. Len(c.data) + 1 /\ n + l \in (n + 1) - 1 .. Len(c.data)
      /\ (n + l) - (n + 1) + 1 = l /\ l \in Nat /\ l >= 1
  <2> DEFINE L == Len(c.data)
  <2> HIDE DEF L
  <2>1. l \in 1 .. L - n /\ L \in Nat /\ n \in Nat
    BY <1>1 DEF L
  <2>2. n + 1 \in 1 .. L + 1 /\ n + l \in (n + 1) - 1 .. L
        /\ (n + l) - (n + 1) + 1 = l /\ l \in Nat /\ l >= 1
    BY ONLY <2>1
  <2>3. QED
    BY <2>2 DEF L
<1>3. /\ s \in Seq(BusByte) /\ Len(s) = l
      /\ \A k \in 1 .. l : s[k] = c.data[n + 1 + k - 1]
  <2>1. /\ s \in Seq(BusByte) /\ Len(s) = (n + l) - (n + 1) + 1
        /\ \A k \in 1 .. (n + l) - (n + 1) + 1 :
             s[k] = c.data[(n + 1) + k - 1]
    BY <1>1, <1>2, SliceProps
  <2>2. QED
    BY <1>2, <2>1
<1> HIDE DEF a, s
<1>4. u \in Seq(BusByte) /\ Len(u) = 1 /\ u[1] = a
  BY <1>1
<1> HIDE DEF u
<1>5. /\ u \o s \in Seq(BusByte) /\ Len(u \o s) = Len(u) + Len(s)
      /\ \A i \in 1 .. Len(u) : (u \o s)[i] = u[i]
      /\ \A i \in 1 .. Len(s) : (u \o s)[Len(u) + i] = s[i]
  <2>1. u \in Seq(BusByte) /\ s \in Seq(BusByte)
    BY <1>3, <1>4
  <2>2. QED
    BY ONLY <2>1, ConcatProps
<1>6. Len(u \o s) = l + 1
  BY <1>2, <1>3, <1>4, <1>5
<1>7. (u \o s)[1] = a
  <2>1. 1 \in 1 .. Len(u)
    BY <1>4
  <2>2. QED
    BY <1>4, <1>5, <2>1
<1>8. ASSUME NEW k \in 1 .. l PROVE (u \o s)[k + 1] = c.data[n + k]
  <2>1. (u \o s)[1 + k] = s[k]
    BY <1>3, <1>4, <1>5
  <2>2. 1 + k = k + 1 /\ n + 1 + k - 1 = n + k
    BY <1>1, <1>2
  <2>3. QED
    BY <1>3, <2>1, <2>2
<1>9. PageData(c, n) = u \o s
  BY DEF PageData, u, a, s, l
<1>10. QED
  BY <1>5, <1>6, <1>7, <1>8, <1>9 DEF l, a

(* A byte and the bytes after it. *)
LEMMA AfterAddress ==
  ASSUME NEW v \in BusByte, NEW d \in Seq(BusByte)
  PROVE  LET s == << v >> \o d
         IN  /\ s \in Seq(BusByte) /\ Len(s) = Len(d) + 1 /\ s[1] = v
             /\ \A k \in 1 .. Len(d) : s[k + 1] = d[k]
<1> DEFINE u == << v >>
<1>1. u \in Seq(BusByte) /\ Len(u) = 1 /\ u[1] = v
  OBVIOUS
<1> HIDE DEF u
<1>2. /\ u \o d \in Seq(BusByte) /\ Len(u \o d) = Len(u) + Len(d)
      /\ \A i \in 1 .. Len(u) : (u \o d)[i] = u[i]
      /\ \A i \in 1 .. Len(d) : (u \o d)[Len(u) + i] = d[i]
  <2>1. u \in Seq(BusByte) /\ d \in Seq(BusByte)
    BY <1>1
  <2>2. QED
    BY ONLY <2>1, ConcatProps
<1>3. Len(d) \in Nat
  BY LenProperties
<1>4. Len(u \o d) = Len(d) + 1 /\ (u \o d)[1] = v
  <2>1. 1 \in 1 .. Len(u)
    BY <1>1
  <2>2. (u \o d)[1] = v
    BY <1>1, <1>2, <2>1
  <2>3. QED
    BY <1>1, <1>2, <1>3, <2>2
<1>5. ASSUME NEW k \in 1 .. Len(d) PROVE (u \o d)[k + 1] = d[k]
  <2>1. (u \o d)[1 + k] = d[k]
    BY <1>1, <1>2
  <2>2. 1 + k = k + 1
    OBVIOUS
  <2>3. QED
    BY <2>1, <2>2
<1>6. QED
  BY <1>2, <1>4, <1>5 DEF u

(* the number of bytes that a transfer of the driver sends *)
OutLength(pc, c, n) ==
  IF pc \in {"page", "put"} THEN page_len(c, n) + 2
  ELSE IF pc \in {"addr", "reg"} THEN 2 ELSE 1

(* What it sends. *)
LEMMA OutIs ==
  ASSUME NEW pc \in Transfers, NEW c, IsCall(c),
         NEW n \in 0 .. Len(c.data) - 1
  PROVE  LET out == OutOf(pc, c, n)
         IN  /\ out \in Seq(BusByte) /\ Len(out) = OutLength(pc, c, n)
             /\ out[1] = IF pc \in {"data", "get"} THEN 2 * DevAddr + 1
                                                   ELSE 2 * DevAddr
             /\ Len(out) >= 2 => out[2] = c.addr + n
             /\ pc \in {"page", "put"} =>
                  \A k \in 1 .. page_len(c, n) : out[k + 2] = c.data[n + k]
             /\ IsTransaction(OpsOf(pc, c, n), out, InOf(pc, c, n), EndOf(pc))
<1> DEFINE l == page_len(c, n)
           a == c.addr + n
           v == 2 * DevAddr
<1>1. /\ l \in Nat /\ l >= 1 /\ a \in BusByte /\ v \in BusByte
      /\ v + 1 \in BusByte
  <2>1. l \in 1 .. Len(c.data) - n /\ a \in BusByte
    BY PageLen
  <2>2. v \in BusByte /\ v + 1 \in BusByte
    BY AddressBytes
  <2> HIDE DEF l
  <2>3. l \in Nat /\ l >= 1
    BY <2>1
  <2>4. QED
    BY <2>1, <2>2, <2>3
<1>2. CASE pc \in {"page", "put"}
  <2> DEFINE d == PageData(c, n)
             out == << v >> \o d
  <2>1. /\ d \in Seq(BusByte) /\ Len(d) = l + 1 /\ d[1] = a
        /\ \A k \in 1 .. l : d[k + 1] = c.data[n + k]
    BY PageOut
  <2>2. /\ OutOf(pc, c, n) = out /\ InOf(pc, c, n) = 0
        /\ EndOf(pc) = i2c_stop
        /\ OpsOf(pc, c, n) = nk_bitbang_i2c_write(d)
        /\ OutLength(pc, c, n) = l + 2
    <3>1. pc \notin {"data", "get"} /\ pc # "reg"
      BY <1>2
    <3>2. OutOf(pc, c, n) = out /\ InOf(pc, c, n) = 0
          /\ EndOf(pc) = i2c_stop
      BY <1>2, <3>1 DEF OutOf, InOf, EndOf
    <3>3. OpsOf(pc, c, n) = nk_bitbang_i2c_write(d)
      BY <1>2 DEF OpsOf, PageWrite, PageData
    <3>4. QED
      BY <1>2, <3>2, <3>3 DEF OutLength
  <2> HIDE DEF d, l, a, v
  <2>3. /\ out \in Seq(BusByte) /\ Len(out) = Len(d) + 1 /\ out[1] = v
        /\ \A k \in 1 .. Len(d) : out[k + 1] = d[k]
    BY <1>1, <2>1, AfterAddress
  <2>4. IsTransaction(nk_bitbang_i2c_write(d), out, 0, i2c_stop)
    BY <2>1, WriteIs DEF v
  <2> HIDE DEF out
  <2>5. Len(out) = l + 2 /\ 1 \in 1 .. Len(d) /\ 1 + 1 = 2
    BY <1>1, <2>1, <2>3
  <2>6. out[2] = a
    BY <2>1, <2>3, <2>5
  <2>7. ASSUME NEW k \in 1 .. l PROVE out[k + 2] = c.data[n + k]
    <3>1. k + 1 \in 1 .. Len(d) /\ (k + 1) + 1 = k + 2
      BY <1>1, <2>1
    <3>2. out[(k + 1) + 1] = d[k + 1]
      BY <2>3, <3>1
    <3>3. QED
      BY <2>1, <3>1, <3>2
  <2>8. pc \notin {"data", "get"}
    BY <1>2
  <2>9. QED
    BY <2>2, <2>3, <2>4, <2>5, <2>6, <2>7, <2>8 DEF l, a, v
<1>3. CASE pc \in {"addr", "reg"}
  <2> DEFINE d == << a >>
             out == << v >> \o d
  <2>1. d \in Seq(BusByte) /\ Len(d) = 1 /\ d[1] = a
    BY <1>1
  <2>2. /\ OutOf(pc, c, n) = out /\ InOf(pc, c, n) = 0
        /\ OutLength(pc, c, n) = 2
        /\ IF pc = "reg"
             THEN /\ EndOf(pc) = i2c_stopr
                  /\ OpsOf(pc, c, n) = nk_bitbang_i2c_write_nostop(d)
             ELSE /\ EndOf(pc) = i2c_stop
                  /\ OpsOf(pc, c, n) = nk_bitbang_i2c_write(d)
    <3>1. pc \notin {"data", "get"} /\ pc \notin {"page", "put"}
      BY <1>3
    <3>2. OutOf(pc, c, n) = out /\ InOf(pc, c, n) = 0
          /\ OutLength(pc, c, n) = 2
      BY <1>3, <3>1 DEF OutOf, InOf, OutLength
    <3>3. CASE pc = "reg"
      <4>1. pc # "addr"
        BY <3>3
      <4>2. OpsOf(pc, c, n) = nk_bitbang_i2c_write_nostop(d)
        BY <3>1, <3>3, <4>1, Zenon DEF OpsOf
      <4>3. QED
        BY <3>2, <3>3, <4>2 DEF EndOf
    <3>4. CASE pc = "addr"
      <4>1. OpsOf(pc, c, n) = nk_bitbang_i2c_write(d)
        BY <3>1, <3>4, Zenon DEF OpsOf, SetAddress
      <4>2. QED
        BY <3>2, <3>4, <4>1 DEF EndOf
    <3>5. QED
      BY <1>3, <3>3, <3>4
  <2> HIDE DEF d, v
  <2>3. /\ out \in Seq(BusByte) /\ Len(out) = Len(d) + 1 /\ out[1] = v
        /\ \A k \in 1 .. Len(d) : out[k + 1] = d[k]
    BY <1>1, <2>1, AfterAddress
  <2>4. /\ IsTransaction(nk_bitbang_i2c_write(d), out, 0, i2c_stop)
        /\ IsTransaction(nk_bitbang_i2c_write_nostop(d), out, 0, i2c_stopr)
    BY <2>1, WriteIs DEF v
  <2> HIDE DEF out
  <2>5. Len(out) = 2 /\ out[1 + 1] = d[1]
    BY <2>1, <2>3
  <2>6. out[2] = a
    BY <2>1, <2>5
  <2>7. IsTransaction(OpsOf(pc, c, n), out, 0, EndOf(pc))
    BY <2>2, <2>4
  <2>8. pc \notin {"data", "get"} /\ pc \notin {"page", "put"}
    BY <1>3
  <2>9. QED
    BY <2>2, <2>3, <2>5, <2>6, <2>7, <2>8 DEF v
<1>4. CASE pc = "poll"
  <2> DEFINE d == << >>
             out == << v >> \o d
  <2>1. d \in Seq(BusByte) /\ Len(d) = 0
    OBVIOUS
  <2>2. /\ pc \notin {"data", "get"} /\ pc \notin {"page", "put"}
        /\ pc \notin {"addr", "reg"}
    BY <1>4
  <2>3. /\ OutOf(pc, c, n) = out /\ InOf(pc, c, n) = 0
        /\ OutLength(pc, c, n) = 1 /\ EndOf(pc) = i2c_stop
        /\ OpsOf(pc, c, n) = nk_bitbang_i2c_write(d)
    <3>1. pc # "addr" /\ pc # "reg"
      BY <2>2
    <3>2. OpsOf(pc, c, n) = nk_bitbang_i2c_write(d)
      BY <1>4, <2>2, <3>1, Zenon DEF OpsOf, AckPoll
    <3>3. QED
      BY <1>4, <2>2, <3>1, <3>2 DEF OutOf, InOf, OutLength, EndOf
  <2> HIDE DEF d, v
  <2>4. /\ out \in Seq(BusByte) /\ Len(out) = Len(d) + 1 /\ out[1] = v
    BY <1>1, <2>1, AfterAddress
  <2>5. IsTransaction(nk_bitbang_i2c_write(d), out, 0, i2c_stop)
    BY <2>1, WriteIs DEF v
  <2> HIDE DEF out
  <2>6. Len(out) = 1 /\ ~(1 >= 2)
    BY <2>1, <2>4
  <2>7. QED
    BY <2>2, <2>3, <2>4, <2>5, <2>6 DEF v
<1>5. CASE pc \in {"data", "get"}
  <2> DEFINE out == << v + 1 >>
  <2>1. /\ pc # "poll" /\ pc \notin {"page", "put"}
        /\ pc \notin {"addr", "reg"} /\ pc # "addr" /\ pc # "reg"
    BY <1>5
  <2>2. /\ OutOf(pc, c, n) = out /\ InOf(pc, c, n) = l
        /\ OutLength(pc, c, n) = 1 /\ EndOf(pc) = i2c_stop
    BY <1>5, <2>1 DEF OutOf, InOf, OutLength, EndOf
  <2>3. OpsOf(pc, c, n) = nk_bitbang_i2c_read(l)
    BY <2>1, Zenon DEF OpsOf
  <2> HIDE DEF l, v
  <2>4. out \in Seq(BusByte) /\ Len(out) = 1 /\ out[1] = v + 1
    BY <1>1
  <2>5. IsTransaction(nk_bitbang_i2c_read(l), out, l, i2c_stop)
    BY <1>1, ReadIs DEF v
  <2> HIDE DEF out
  <2>6. ~(1 >= 2)
    OBVIOUS
  <2>7. QED
    BY <1>5, <2>1, <2>2, <2>3, <2>4, <2>5, <2>6 DEF v
<1>6. pc \in {"page", "put"} \/ pc \in {"addr", "reg"} \/ pc = "poll"
      \/ pc \in {"data", "get"}
  BY DEF Transfers
<1>7. QED
  BY <1>2, <1>3, <1>4, <1>5, <1>6

(* It is a transfer. *)
LEMMA TransferIs ==
  ASSUME NEW pc \in Transfers, NEW c, IsCall(c),
         NEW n \in 0 .. Len(c.data) - 1, NEW m \in Images
  PROVE  LET t == TransferOf(pc, c, n, m)
         IN  /\ IsTransfer(t)
             /\ t.mem = m /\ t.at = c.addr + n /\ t.in = InOf(pc, c, n)
             /\ t.end = EndOf(pc) /\ t.p = OpsOf(pc, c, n)
             /\ Len(t.out) = OutLength(pc, c, n)
             /\ pc \in {"page", "put"} =>
                  \A k \in 1 .. page_len(c, n) :
                    t.out[k + 2] = c.data[n + k]
<1> DEFINE t == TransferOf(pc, c, n, m)
           l == page_len(c, n)
           a == c.addr + n
           out == OutOf(pc, c, n)
<1>1. /\ t.out = out /\ t.in = InOf(pc, c, n) /\ t.end = EndOf(pc)
      /\ t.at = a /\ t.mem = m /\ t.p = OpsOf(pc, c, n)
  BY DEF TransferOf
<1>2. /\ out \in Seq(BusByte) /\ Len(out) = OutLength(pc, c, n)
      /\ out[1] = IF pc \in {"data", "get"} THEN 2 * DevAddr + 1
                                            ELSE 2 * DevAddr
      /\ Len(out) >= 2 => out[2] = a
      /\ pc \in {"page", "put"} =>
           \A k \in 1 .. l : out[k + 2] = c.data[n + k]
      /\ IsTransaction(OpsOf(pc, c, n), out, InOf(pc, c, n), EndOf(pc))
  BY OutIs
<1>3. /\ l \in 1 .. Len(c.data) - n /\ (a % ChipPage) + l <= ChipPage
      /\ a \in EeAddresses /\ Len(c.data) \in Nat /\ n \in Nat
      /\ c.addr \in Nat /\ c.addr + Len(c.data) <= EepromSize
  BY PageLen DEF IsCall
<1>4. EepromSize \in Nat /\ ChipPage \in Nat \ {0}
  BY Widths
<1>5. a + l <= EepromSize /\ a <= EepromSize /\ l \in Nat /\ l >= 1
      /\ a \in Nat
  <2> DEFINE L == Len(c.data)
             b == c.addr
  <2>1. l \in 1 .. L - n /\ L \in Nat /\ n \in Nat /\ b \in Nat
        /\ b + L <= EepromSize /\ a = b + n
    BY <1>3
  <2> HIDE DEF L, b, l, a
  <2>2. QED
    BY <1>4, <2>1
<1> HIDE DEF out, a, l, t
<1>6. (2 * DevAddr) % 2 = 0 /\ (2 * DevAddr + 1) % 2 = 1
  BY AddressBytes
<1>7. CASE pc \in {"page", "put"}
  <2>1. /\ OutLength(pc, c, n) = l + 2 /\ InOf(pc, c, n) = 0
        /\ EndOf(pc) = i2c_stop /\ pc \notin {"data", "get"}
    BY <1>7 DEF OutLength, InOf, EndOf, l
  <2>2. Len(out) = l + 2 /\ l + 2 >= 1 /\ (l + 2) - 2 = l
    BY <1>2, <1>5, <2>1
  <2>3. i2c_stop # i2c_stopr
    <3>1. 3 # 2
      OBVIOUS
    <3>2. QED
      BY <3>1, Ends
  <2>4. a % ChipPage \in Int
    BY <1>4, <1>5, DivMod
  <2>5. (a % ChipPage) + Len(out) - 2 <= ChipPage
    <3> DEFINE x == a % ChipPage
    <3> HIDE DEF x
    <3>1. x \in Int /\ x + l <= ChipPage
      BY <1>3, <2>4 DEF x
    <3>2. x + Len(out) - 2 <= ChipPage
      BY <1>4, <1>5, <2>2, <3>1
    <3>3. QED
      BY <3>2 DEF x
  <2>6. IsTransfer(t)
    BY <1>1, <1>2, <1>3, <1>4, <1>5, <1>6, <2>1, <2>2, <2>3, <2>5
       DEF IsTransfer
  <2>7. QED
    BY <1>1, <1>2, <2>6 DEF t, l, a
<1>8. CASE pc \in {"addr", "reg"}
  <2>1. /\ OutLength(pc, c, n) = 2 /\ InOf(pc, c, n) = 0
        /\ EndOf(pc) \in {i2c_stop, i2c_stopr} /\ pc \notin {"data", "get"}
        /\ pc \notin {"page", "put"}
    BY <1>8 DEF OutLength, InOf, EndOf
  <2>2. Len(out) = 2 /\ 2 >= 1 /\ ~(2 >= 3)
    BY <1>2, <2>1
  <2>3. IsTransfer(t)
    BY <1>1, <1>2, <1>3, <1>4, <1>5, <1>6, <2>1, <2>2 DEF IsTransfer
  <2>4. QED
    BY <1>1, <1>2, <2>1, <2>3 DEF t, l, a
<1>9. CASE pc = "poll"
  <2>1. /\ OutLength(pc, c, n) = 1 /\ InOf(pc, c, n) = 0
        /\ EndOf(pc) = i2c_stop /\ pc \notin {"data", "get"}
        /\ pc \notin {"page", "put"}
    BY <1>9 DEF OutLength, InOf, EndOf
  <2>2. Len(out) = 1 /\ 1 >= 1 /\ ~(1 >= 2) /\ ~(1 >= 3)
    BY <1>2, <2>1
  <2>3. i2c_stop # i2c_stopr
    <3>1. 3 # 2
      OBVIOUS
    <3>2. QED
      BY <3>1, Ends
  <2>4. IsTransfer(t)
    BY <1>1, <1>2, <1>3, <1>4, <1>5, <1>6, <2>1, <2>2, <2>3 DEF IsTransfer
  <2>5. QED
    BY <1>1, <1>2, <2>1, <2>4 DEF t, l, a
<1>10. CASE pc \in {"data", "get"}
  <2>1. /\ OutLength(pc, c, n) = 1 /\ InOf(pc, c, n) = l
        /\ EndOf(pc) = i2c_stop /\ pc \notin {"page", "put"}
    BY <1>10 DEF OutLength, InOf, EndOf, l
  <2>2. Len(out) = 1 /\ 1 >= 1 /\ ~(1 >= 2) /\ ~(1 >= 3)
    BY <1>2, <2>1
  <2>3. i2c_stop # i2c_stopr
    <3>1. 3 # 2
      OBVIOUS
    <3>2. QED
      BY <3>1, Ends
  <2>4. l > 0
    BY <1>5
  <2>5. IsTransfer(t)
    BY <1>1, <1>2, <1>3, <1>4, <1>5, <1>6, <1>10, <2>1, <2>2, <2>3, <2>4
       DEF IsTransfer
  <2>6. QED
    BY <1>1, <1>2, <2>1, <2>5 DEF t, l, a
<1>11. pc \in {"page", "put"} \/ pc \in {"addr", "reg"} \/ pc = "poll"
       \/ pc \in {"data", "get"}
  BY DEF Transfers
<1>12. QED
  BY <1>7, <1>8, <1>9, <1>10, <1>11

-----------------------------------------------------------------------------
(* The driver's invariant *)

(* the bytes of a write that are stored *)
DoneAt(pc, c, n) == IF pc = "poll" THEN n + page_len(c, n) ELSE n

(* the contents m have them, and those that were read, g, are from m *)
Stored(c, k, m) ==
  c.op = "write" => \A i \in 1 .. k : m[c.addr + i - 1] = c.data[i]
TakenFrom(c, g, m) == \A i \in 1 .. Len(g) : g[i] = m[c.addr + i - 1]
KeptBytes(pc, c, n, g, m) ==
  Stored(c, DoneAt(pc, c, n), m) /\ TakenFrom(c, g, m)

(* t is the transfer that the driver is at *)
Serves(t) ==
  /\ t.mem \in Images /\ t = TransferOf(epc, ecall, eat, t.mem)
  /\ ~late => KeptBytes(epc, ecall, eat, egot, t.mem)

OpOf(pc) == IF pc \in {"page", "poll", "put"} THEN "write" ELSE "read"
EepromCallOK ==
  /\ epc \in Transfers \cup {"idle"}
  /\ tries \in 0 .. AckTimeout - 1
  /\ egot \in Seq(BusByte)
  /\ Len(egot) = IF epc \in {"addr", "data"} THEN eat ELSE 0
  /\ IF epc = "idle" THEN ecall = ENoCall /\ eat = 0
     ELSE /\ IsCall(ecall) /\ ecall.op = OpOf(epc)
          /\ eat \in 0 .. Len(ecall.data) - 1
          /\ epc \in {"put", "reg", "get"} => Len(ecall.data) = 1

(* the bus between two calls *)
Quiet ==
  /\ prog = << >> /\ ~clocking
  /\ ~late => /\ scl = 1 /\ sda = 1 /\ ~ee.pulls /\ ~ee.holds
              /\ ee.st \in {"idle", "ignore"}

(* The inductive invariant. *)
EepromInv ==
  /\ BusTyped /\ EepromCallOK
  /\ IF epc = "idle" THEN Quiet ELSE \E t : Serves(t) /\ BusAt(t)

(* All of a sequence. *)
LEMMA WholeSeq ==
  ASSUME NEW S, NEW s \in Seq(S)
  PROVE  SubSeq(s, 1, Len(s)) = s
<1> DEFINE u == SubSeq(s, 1, Len(s))
<1>1. Len(s) \in Nat
  BY LenProperties
<1>2. 1 \in 1 .. Len(s) + 1 /\ Len(s) \in 1 - 1 .. Len(s)
      /\ Len(s) - 1 + 1 = Len(s)
  BY <1>1
<1>3. /\ u \in Seq(S) /\ Len(u) = Len(s) - 1 + 1
      /\ \A i \in 1 .. Len(s) - 1 + 1 : u[i] = s[1 + i - 1]
  BY <1>2, SliceProps
<1> HIDE DEF u
<1>4. Len(u) = Len(s) /\ \A i \in 1 .. Len(s) : u[i] = s[i]
  <2>1. \A i \in 1 .. Len(s) : 1 + i - 1 = i
    BY <1>1
  <2>2. QED
    BY <1>2, <1>3, <2>1
<1>5. u = s
  BY <1>3, <1>4, SeqEqual
<1>6. QED
  BY <1>5 DEF u

(* The transfer that the driver is at. *)
LEMMA ServesIs ==
  ASSUME EepromCallOK, epc # "idle", NEW t, Serves(t)
  PROVE  /\ IsTransfer(t)
         /\ t.at = ecall.addr + eat /\ t.in = InOf(epc, ecall, eat)
         /\ t.end = EndOf(epc) /\ t.p = OpsOf(epc, ecall, eat)
         /\ Len(t.out) = OutLength(epc, ecall, eat)
         /\ epc \in {"page", "put"} =>
              \A k \in 1 .. page_len(ecall, eat) :
                t.out[k + 2] = ecall.data[eat + k]
<1>1. /\ epc \in Transfers /\ IsCall(ecall)
      /\ eat \in 0 .. Len(ecall.data) - 1
  BY DEF EepromCallOK
<1>2. t.mem \in Images /\ t = TransferOf(epc, ecall, eat, t.mem)
  BY DEF Serves
<1> DEFINE z == TransferOf(epc, ecall, eat, t.mem)
<1>3. /\ IsTransfer(z)
      /\ z.at = ecall.addr + eat /\ z.in = InOf(epc, ecall, eat)
      /\ z.end = EndOf(epc) /\ z.p = OpsOf(epc, ecall, eat)
      /\ Len(z.out) = OutLength(epc, ecall, eat)
      /\ epc \in {"page", "put"} =>
           \A k \in 1 .. page_len(ecall, eat) :
             z.out[k + 2] = ecall.data[eat + k]
  <2>1. t.mem \in Images
    BY <1>2
  <2>2. IsTransfer(z)
    BY ONLY <1>1, <2>1, TransferIs
  <2>3. /\ z.at = ecall.addr + eat /\ z.in = InOf(epc, ecall, eat)
        /\ z.end = EndOf(epc) /\ z.p = OpsOf(epc, ecall, eat)
    BY ONLY <1>1, <2>1, TransferIs
  <2>4. Len(z.out) = OutLength(epc, ecall, eat)
    BY ONLY <1>1, <2>1, TransferIs
  <2>5. epc \in {"page", "put"} =>
          \A k \in 1 .. page_len(ecall, eat) :
            z.out[k + 2] = ecall.data[eat + k]
    BY ONLY <1>1, <2>1, TransferIs
  <2> HIDE DEF z
  <2>6. QED
    BY ONLY <2>2, <2>3, <2>4, <2>5
<1> HIDE DEF z
<1>4. t = z
  BY <1>2 DEF z
<1>5. QED
  BY <1>3, <1>4

(* A transfer begins. *)
LEMMA TransferBegins ==
  ASSUME BusTyped, scl = 1, sda = 1, ~clocking,
         NEW pc \in Transfers, NEW c, IsCall(c),
         NEW n \in 0 .. Len(c.data) - 1,
         ~late => ~ee.pulls
                  /\ (pc \in {"data", "get"} => ee.ptr = c.addr + n),
         Transact(OpsOf(pc, c, n)),
         NEW t, t = TransferOf(pc, c, n, ee.mem)
  PROVE  /\ BusTyped' /\ BusAt(t)' /\ late' = late /\ ee' = ee
         /\ t.mem = ee.mem /\ t.mem \in Images
<1>1. ee \in EeRecord /\ ee.mem \in Images
  BY EeFields DEF BusTyped
<1>2. /\ prog' = OpsOf(pc, c, n) /\ bits' = << >> /\ nak' = FALSE
      /\ scl' = scl /\ sda' = sda /\ clocking' = clocking /\ looks' = looks
      /\ ee' = ee /\ late' = late
  BY Zenon DEF Transact
<1>3. /\ IsTransfer(t) /\ t.p = OpsOf(pc, c, n) /\ t.mem = ee.mem
      /\ t.at = c.addr + n /\ t.in = InOf(pc, c, n)
  BY <1>1, TransferIs
<1>4. BusTyped'
  <2>1. << >> \in Seq({0, 1}) /\ FALSE \in BOOLEAN
    OBVIOUS
  <2>2. QED
    BY <1>2, <2>1 DEF BusTyped
<1>5. t.p \in Seq(PinOps)
  BY <1>3, EndPosition
<1>6. prog' = SubSeq(t.p, 1, Len(t.p)) /\ 0 \in 0 .. Len(t.p)
  BY <1>2, <1>3, <1>5, WholeSeq, LenProperties
<1>7. Left(t.p, 0)'
  <2>1. 0 + 1 = 1
    OBVIOUS
  <2>2. QED
    BY <1>6, <2>1 DEF Left
<1>8. t.in > 0 => pc \in {"data", "get"}
  <2>1. ~(0 > 0)
    OBVIOUS
  <2>2. QED
    BY <1>3, <2>1 DEF InOf
<1>9. AtStart(t)'
  BY <1>2, <1>3, <1>7, <1>8 DEF AtStart
<1>10. QED
  BY <1>1, <1>2, <1>3, <1>4, <1>9 DEF BusAt

(* The bus when nothing is left of a transfer. *)
LEMMA TransferOver ==
  ASSUME NEW t, IsTransfer(t), BusTyped, BusAt(t), prog = << >>
  PROVE  /\ scl = 1 /\ sda = 1 /\ ~clocking
         /\ nak \/ Len(bits) = Width * t.in
         /\ nak \/ t.end = i2c_stop => Quiet
         /\ ~late => /\ ~ee.pulls /\ ee.mem = Final(t, nak)
                     /\ nak \/ AllRead(t)
                     /\ ~nak /\ Len(t.out) = 2 => ee.ptr = t.at
<1> DEFINE r == Len(t.end)
<1>1. AtEnd(t, r)
  BY NothingLeft
<1>2. Left(t.end, r) /\ ~clocking /\ (nak \/ Len(bits) = Width * t.in)
      /\ scl = (IF r >= 2 THEN 1 ELSE 0)
  BY <1>1 DEF AtEnd
<1>3. /\ Len(t.end) \in {2, 3} /\ t.end[1] \in {"sda0", "sda1"}
      /\ Len(t.end) = 3 => t.end = i2c_stop /\ t.end[1] = "sda0"
      /\ Len(t.end) = 2 => t.end = i2c_stopr /\ t.end[1] = "sda1"
  BY <1>2, EndPlace
<1>4. Len(i2c_stop) = 3 /\ Len(i2c_stopr) = 2 /\ nak \in BOOLEAN
  BY Ends DEF BusTyped
<1> HIDE DEF r
<1>5. r \in {2, 3}
  BY <1>3 DEF r
<1>6. scl = 1
  BY <1>2, <1>5
<1>7. CASE r = 3
  <2>1. sda = 1 /\ (~late => (nak \/ AllRead(t)) /\ Idles(t, nak, ee))
    BY <1>1, <1>7 DEF AtEnd
  <2>2. Quiet
    BY <1>2, <1>6, <2>1 DEF Quiet, Idles
  <2>3. ~late => /\ ~ee.pulls /\ ee.mem = Final(t, nak)
                 /\ ~nak /\ Len(t.out) = 2 => ee.ptr = t.at
    BY <2>1 DEF Idles
  <2>4. QED
    BY <1>2, <1>6, <2>1, <2>2, <2>3
<1>8. CASE r = 2
  <2>1. t.end = i2c_stopr /\ t.end[1] = "sda1" /\ t.end # i2c_stop
    <3>1. 3 # 2
      OBVIOUS
    <3>2. QED
      BY <1>3, <1>4, <1>8, <3>1 DEF r
  <2>2. sda = 1
    <3>1. 2 \in {1, 2}
      OBVIOUS
    <3>2. sda = Level(t.end[1])
      BY <1>1, <1>8, <3>1 DEF AtEnd
    <3>3. QED
      BY <2>1, <3>2 DEF Level
  <2>3. /\ Len(t.out) = 2 /\ t.in = 0
    <3>1. /\ t.end = i2c_stopr => Len(t.out) = 2
          /\ t.in > 0 => Len(t.out) = 1
      BY DEF IsTransfer
    <3>2. t.in \in Nat /\ 1 # 2
      BY TransferFacts
    <3>3. Len(t.out) = 2
      BY <2>1, <3>1
    <3>4. ~(t.in > 0)
      BY <3>1, <3>2, <3>3, Zenon
    <3>5. QED
      BY <3>2, <3>3, <3>4
  <2>4. ~(2 >= 3) /\ ~(0 > 0) /\ 2 < 3 /\ 2 + 1 = 3 /\ 3 >= 3 /\ 2 # 3
    OBVIOUS
  <2>5. Final(t, nak) = t.mem
    BY <2>3, <2>4 DEF Final
  <2>6. ~late => /\ nak \/ AllRead(t)
                 /\ IF nak THEN Ignores(t, ee)
                    ELSE Open(t, ee) \/ Listens(t, Len(t.out) + 1, ee)
    BY <1>1, <1>8, <2>3, <2>4 DEF AtEnd
  <2>7. nak => Quiet
    BY <1>2, <1>6, <2>2, <2>6 DEF Quiet, Ignores
  <2>8. ASSUME ~late, ~nak
        PROVE  ~ee.pulls /\ ee.mem = t.mem /\ ee.ptr = t.at
    <3>1. CASE Open(t, ee)
      BY <2>3, <2>4, <3>1, Zenon DEF Open
    <3>2. CASE Listens(t, Len(t.out) + 1, ee)
      BY <2>3, <2>4, <3>2, Zenon DEF Listens, Hears
    <3>3. QED
      BY <2>6, <2>8, <3>1, <3>2
  <2>9. ASSUME ~late, nak PROVE ~ee.pulls /\ ee.mem = t.mem
    BY <2>6, <2>9 DEF Ignores
  <2>10. QED
    BY <1>2, <1>6, <2>1, <2>2, <2>5, <2>6, <2>7, <2>8, <2>9
<1>9. QED
  BY <1>5, <1>7, <1>8

-----------------------------------------------------------------------------
(* What is done of a call *)

(* Eeprom!Done with the contents and the call of the driver. *)
LEMMA EepromDoneIs ==
  ASSUME NEW k
  PROVE  Eeprom!Done(k) =
           [i \in 0 .. EepromSize - 1 |->
              IF ecall.op # "read" /\ i \in ecall.addr .. ecall.addr + k - 1
                THEN IF ecall.op = "erase" THEN 0
                     ELSE ecall.data[i - ecall.addr + 1]
                ELSE ee.mem[i]]
  BY DEF Eeprom!Done

(* Storing bytes again that are stored changes nothing. *)
LEMMA StoredAlready ==
  ASSUME EepromCallOK, epc # "idle", ee.mem \in Images, NEW k \in Nat,
         Stored(ecall, k, ee.mem)
  PROVE  Eeprom!Done(k) = ee.mem
<1>1. /\ ecall.op \in {"write", "read"} /\ ecall.addr \in Nat
      /\ EepromSize \in Nat
  BY Widths DEF EepromCallOK, IsCall, EeAddresses, OpOf
<1>2. ASSUME NEW i \in 0 .. EepromSize - 1, ecall.op # "read",
             i \in ecall.addr .. ecall.addr + k - 1
      PROVE  ecall.data[i - ecall.addr + 1] = ee.mem[i]
  <2>1. i - ecall.addr + 1 \in 1 .. k
        /\ ecall.addr + (i - ecall.addr + 1) - 1 = i
    BY <1>1, <1>2
  <2>2. ecall.op = "write"
    BY <1>1, <1>2
  <2>3. ee.mem[ecall.addr + (i - ecall.addr + 1) - 1]
          = ecall.data[i - ecall.addr + 1]
    BY <2>1, <2>2 DEF Stored
  <2>4. QED
    BY <2>1, <2>3
<1>3. ecall.op # "erase"
  BY <1>1
<1>4. Eeprom!Done(k) = [i \in 0 .. EepromSize - 1 |-> ee.mem[i]]
  BY <1>2, <1>3, EepromDoneIs
<1>5. QED
  BY <1>4 DEF Images, EeAddresses

(* A page that is written is the next bytes of the call. *)
LEMMA OverIsDone ==
  ASSUME EepromCallOK, epc \in {"page", "put"}, NEW t, Serves(t), ~late,
         NEW k, k = eat + page_len(ecall, eat)
  PROVE  /\ k \in 0 .. Len(ecall.data)
         /\ Stored(ecall, k, Over(t))
         /\ ee.mem = t.mem => Over(t) = Eeprom!Done(k)
<1>0. epc # "idle" /\ epc \notin {"addr", "reg"}
  OBVIOUS
<1>1. /\ epc \in Transfers /\ IsCall(ecall)
      /\ eat \in 0 .. Len(ecall.data) - 1
      /\ ecall.op = "write"
  BY <1>0 DEF EepromCallOK, OpOf
<1> DEFINE l == page_len(ecall, eat)
           a == ecall.addr
           d == ecall.data
<1>2. /\ l \in 1 .. Len(d) - eat /\ Len(d) \in Nat /\ eat \in Nat
      /\ a \in Nat /\ EepromSize \in Nat
      /\ a + Len(d) <= EepromSize
  BY <1>1, PageLen, Widths DEF IsCall
<1>3. /\ IsTransfer(t) /\ t.at = a + eat
      /\ Len(t.out) = l + 2
      /\ \A i \in 1 .. l : t.out[i + 2] = d[eat + i]
  BY <1>0, ServesIs DEF OutLength
<1>4. Stored(ecall, eat, t.mem)
  BY <1>0, <1>1 DEF Serves, KeptBytes, DoneAt
<1> HIDE DEF l, a, d
<1>5. k = eat + l
  BY DEF l
<1>6. k \in 0 .. Len(d) /\ k \in Nat /\ l \in Nat
  BY <1>2, <1>5
<1>7. t.at + Len(t.out) - 3 = a + k - 1 /\ t.at = a + eat
  <2> DEFINE x == t.at
             n == Len(t.out)
  <2>1. x = a + eat /\ n = l + 2
    BY <1>3
  <2> HIDE DEF x, n
  <2>2. x + n - 3 = a + k - 1
    BY <1>2, <1>5, <1>6, <2>1
  <2>3. QED
    BY <1>3, <2>2 DEF x, n
<1>8. \A i \in EeAddresses :
        Over(t)[i] = IF i \in a + eat .. a + k - 1 THEN t.out[i - t.at + 3]
                     ELSE t.mem[i]
  BY <1>7 DEF Over
<1>9. ASSUME NEW i \in EeAddresses, i \in a .. a + k - 1
      PROVE  Over(t)[i] = d[i - a + 1]
  <2>1. i \in Int /\ i \in Nat
    BY <1>2, <1>9
  <2>2. CASE i >= a + eat
    <3>1. /\ i \in a + eat .. a + k - 1 /\ i - t.at + 3 = (i - a - eat + 1) + 2
          /\ i - a - eat + 1 \in 1 .. l
          /\ eat + (i - a - eat + 1) = i - a + 1
      BY <1>2, <1>5, <1>6, <1>7, <1>9, <2>1, <2>2
    <3>2. Over(t)[i] = t.out[(i - a - eat + 1) + 2]
      BY <1>8, <3>1
    <3>3. t.out[(i - a - eat + 1) + 2] = d[eat + (i - a - eat + 1)]
      BY <1>3, <3>1
    <3>4. QED
      BY <3>1, <3>2, <3>3
  <2>3. CASE ~(i >= a + eat)
    <3>1. /\ i \notin a + eat .. a + k - 1
          /\ i - a + 1 \in 1 .. eat /\ a + (i - a + 1) - 1 = i
      BY <1>2, <1>6, <1>9, <2>1, <2>3
    <3>2. Over(t)[i] = t.mem[i]
      BY <1>8, <3>1
    <3>3. t.mem[a + (i - a + 1) - 1] = d[i - a + 1]
      BY <1>1, <1>4, <3>1 DEF Stored, a, d
    <3>4. QED
      BY <3>1, <3>2, <3>3
  <2>4. QED
    BY <2>2, <2>3
<1>10. Stored(ecall, k, Over(t))
  <2>1. ASSUME NEW i \in 1 .. k PROVE Over(t)[a + i - 1] = d[i]
    <3>1. /\ a + i - 1 \in EeAddresses /\ a + i - 1 \in a .. a + k - 1
          /\ (a + i - 1) - a + 1 = i
      BY <1>2, <1>6 DEF EeAddresses
    <3>2. Over(t)[a + i - 1] = d[(a + i - 1) - a + 1]
      BY <1>9, <3>1
    <3>3. QED
      BY <3>1, <3>2
  <2>2. QED
    BY <2>1 DEF Stored, a, d
<1>11. ASSUME ee.mem = t.mem PROVE Over(t) = Eeprom!Done(k)
  <2> DEFINE u == Over(t)
             w == Eeprom!Done(k)
  <2>1. u = [i \in EeAddresses |-> u[i]]
    BY DEF Over
  <2>2. w = [i \in EeAddresses |->
               IF i \in a .. a + k - 1 THEN d[i - a + 1] ELSE t.mem[i]]
    <3>1. ecall.op # "read" /\ ecall.op # "erase"
      BY <1>1
    <3>2. QED
      BY <1>11, <3>1, EepromDoneIs DEF EeAddresses, a, d
  <2> HIDE DEF w
  <2>3. ASSUME NEW i \in EeAddresses
        PROVE  u[i] = IF i \in a .. a + k - 1 THEN d[i - a + 1] ELSE t.mem[i]
    <3>1. CASE i \in a .. a + k - 1
      BY <1>9, <3>1
    <3>2. CASE i \notin a .. a + k - 1
      <4>1. i \notin a + eat .. a + k - 1
        BY <1>2, <1>6, <3>2 DEF EeAddresses
      <4>2. QED
        BY <1>8, <3>2, <4>1
    <3>3. QED
      BY <3>1, <3>2
  <2> HIDE DEF u
  <2>4. u = w
    BY <2>1, <2>2, <2>3
  <2>5. QED
    BY <2>4 DEF u, w
<1>12. QED
  BY <1>6, <1>10, <1>11 DEF d

-----------------------------------------------------------------------------
(* When a transfer is over *)

(* the bytes of a write that are stored then *)
DoneThen ==
  IF epc = "poll" \/ (epc \in {"page", "put"} /\ ~nak)
  THEN eat + page_len(ecall, eat) ELSE eat

(* What the driver finds. *)
LEMMA AtTheEnd ==
  ASSUME EepromInv, epc # "idle", prog = << >>
  PROVE  /\ scl = 1 /\ sda = 1 /\ ~clocking
         /\ nak \/ epc # "reg" => Quiet
         /\ epc \in {"data", "get"} /\ ~nak =>
              Bytes \in Seq(BusByte) /\ Len(Bytes) = page_len(ecall, eat)
         /\ ~late =>
              /\ ~ee.pulls
              /\ epc \in {"addr", "reg"} /\ ~nak => ee.ptr = ecall.addr + eat
              /\ Stored(ecall, DoneThen, ee.mem)
              /\ TakenFrom(ecall, egot, ee.mem)
              /\ epc \in {"data", "get"} /\ ~nak =>
                   \A k \in 1 .. page_len(ecall, eat) :
                     Bytes[k] = ee.mem[(ecall.addr + eat) + k - 1]
<1>1. PICK t : Serves(t) /\ BusAt(t)
  BY DEF EepromInv
<1>2. BusTyped /\ EepromCallOK /\ nak \in BOOLEAN /\ bits \in Seq({0, 1})
  BY DEF EepromInv, BusTyped
<1>3. /\ IsTransfer(t) /\ t.at = ecall.addr + eat
      /\ t.in = InOf(epc, ecall, eat)
      /\ t.end = EndOf(epc) /\ Len(t.out) = OutLength(epc, ecall, eat)
  BY <1>1, <1>2, ServesIs
<1>4. /\ scl = 1 /\ sda = 1 /\ ~clocking
      /\ nak \/ Len(bits) = Width * t.in
      /\ nak \/ t.end = i2c_stop => Quiet
      /\ ~late => /\ ~ee.pulls /\ ee.mem = Final(t, nak)
                  /\ nak \/ AllRead(t)
                  /\ ~nak /\ Len(t.out) = 2 => ee.ptr = t.at
  BY <1>1, <1>2, <1>3, TransferOver
<1>5. /\ epc \in Transfers /\ IsCall(ecall)
      /\ eat \in 0 .. Len(ecall.data) - 1 /\ ecall.op = OpOf(epc)
  BY <1>2 DEF EepromCallOK
<1>6. nak \/ epc # "reg" => Quiet
  BY <1>3, <1>4 DEF EndOf
<1>7. ASSUME epc \in {"data", "get"}, ~nak
      PROVE  /\ Bytes \in Seq(BusByte) /\ Len(Bytes) = page_len(ecall, eat)
             /\ ~late => \A k \in 1 .. page_len(ecall, eat) :
                           Bytes[k] = ee.mem[(ecall.addr + eat) + k - 1]
  <2> DEFINE l == page_len(ecall, eat)
  <2>1. t.in = l /\ OutLength(epc, ecall, eat) = 1
    BY <1>3, <1>7 DEF InOf, OutLength
  <2>2. l \in 1 .. Len(ecall.data) - eat
    BY <1>5, PageLen
  <2> HIDE DEF l
  <2>3. l \in Nat
    BY <2>2
  <2>4. Len(bits) = Width * l
    BY <1>4, <1>7, <2>1
  <2>5. Bytes \in Seq(BusByte) /\ Len(Bytes) = l
    BY <1>2, <2>3, <2>4, BytesAre
  <2>6. ASSUME ~late
        PROVE  \A k \in 1 .. l : Bytes[k] = ee.mem[(ecall.addr + eat) + k - 1]
    <3>1. \A k \in 1 .. t.in : Bytes[k] = t.mem[t.at + k - 1]
      <4>1. AllRead(t) /\ Len(bits) = Width * t.in
        BY <1>4, <1>7, <2>6
      <4>2. QED
        BY <1>2, <1>3, <4>1, BytesRead
    <3>2. ee.mem = t.mem
      <4>1. Len(t.out) = 1 /\ 1 < 3
        BY <1>3, <2>1
      <4>2. ee.mem = Final(t, nak)
        BY <1>4, <2>6
      <4>3. QED
        BY <4>1, <4>2 DEF Final
    <3>3. QED
      BY <1>3, <2>1, <3>1, <3>2, Zenon
  <2>7. QED
    BY <2>5, <2>6 DEF l
<1>8. ASSUME ~late, epc \in {"addr", "reg"}, ~nak
      PROVE  ee.ptr = ecall.addr + eat
  <2>1. Len(t.out) = 2
    BY <1>3, <1>8 DEF OutLength
  <2>2. QED
    BY <1>3, <1>4, <1>8, <2>1
<1>9. ASSUME ~late
      PROVE  /\ Stored(ecall, DoneThen, ee.mem)
             /\ TakenFrom(ecall, egot, ee.mem)
  <2>1. /\ Stored(ecall, DoneAt(epc, ecall, eat), t.mem)
        /\ TakenFrom(ecall, egot, t.mem)
    BY <1>1, <1>9 DEF Serves, KeptBytes
  <2>2. ee.mem = Final(t, nak)
    BY <1>4, <1>9
  <2>3. CASE epc \in {"page", "put"} /\ ~nak
    <3> DEFINE k == eat + page_len(ecall, eat)
    <3>1. Stored(ecall, k, Over(t))
      BY <1>1, <1>2, <1>9, <2>3, OverIsDone
    <3>2. ee.mem = Over(t)
      <4> DEFINE l == page_len(ecall, eat)
      <4>1. Len(t.out) = l + 2 /\ t.in = 0
        BY <1>3, <2>3 DEF OutLength, InOf
      <4>2. l \in 1 .. Len(ecall.data) - eat
        BY <1>5, PageLen
      <4> HIDE DEF l
      <4>3. ~(l + 2 < 3) /\ ~(0 > 0)
        BY <4>2
      <4>4. QED
        BY <2>2, <2>3, <4>1, <4>3 DEF Final
    <3>3. DoneThen = k
      BY <2>3 DEF DoneThen
    <3>4. TakenFrom(ecall, egot, ee.mem)
      <4>1. Len(egot) = 0
        BY <1>2, <2>3 DEF EepromCallOK
      <4>2. QED
        BY <4>1 DEF TakenFrom
    <3> HIDE DEF k
    <3>5. QED
      BY <3>1, <3>2, <3>3, <3>4
  <2>4. CASE ~(epc \in {"page", "put"} /\ ~nak)
    <3>1. ee.mem = t.mem
      <4>1. CASE nak
        BY <2>2, <4>1 DEF Final
      <4>2. CASE ~nak
        <5>1. OutLength(epc, ecall, eat) \in {1, 2}
          BY <2>4, <4>2 DEF OutLength
        <5>2. \A n \in {1, 2} : n < 3
          OBVIOUS
        <5>3. Len(t.out) < 3
          BY <1>3, <5>1, <5>2
        <5>4. QED
          BY <2>2, <5>3 DEF Final
      <4>3. QED
        BY <4>1, <4>2
    <3>2. DoneThen = DoneAt(epc, ecall, eat)
      BY <2>4 DEF DoneThen, DoneAt
    <3>3. QED
      BY <2>1, <3>1, <3>2
  <2>5. QED
    BY <2>3, <2>4
<1>10. QED
  BY <1>4, <1>6, <1>7, <1>8, <1>9

(* The bytes done when a transfer is over are bytes of the call. *)
LEMMA DoneCounts ==
  ASSUME EepromCallOK, epc # "idle"
  PROVE  /\ page_len(ecall, eat) \in 1 .. Len(ecall.data) - eat
         /\ Len(ecall.data) \in Nat /\ eat \in Nat /\ ecall.addr \in Nat
         /\ eat + page_len(ecall, eat) \in 1 .. Len(ecall.data)
         /\ DoneThen \in 0 .. Len(ecall.data) /\ eat \in 0 .. Len(ecall.data)
         /\ Len(ecall.data) = 1 => page_len(ecall, eat) = 1 /\ eat = 0
<1> DEFINE l == page_len(ecall, eat)
           L == Len(ecall.data)
<1>1. IsCall(ecall) /\ eat \in 0 .. L - 1
  BY DEF EepromCallOK
<1>2. l \in 1 .. L - eat /\ L \in Nat /\ eat \in Nat /\ ecall.addr \in Nat
  BY <1>1, PageLen
<1>3. DoneThen = eat + l \/ DoneThen = eat
  BY DEF DoneThen
<1> HIDE DEF l, L
<1>4. eat + l \in 1 .. L /\ eat + l \in 0 .. L /\ eat \in 0 .. L
  BY <1>1, <1>2
<1>5. DoneThen \in 0 .. L
  BY <1>3, <1>4
<1>6. L = 1 => l = 1 /\ eat = 0
  BY <1>1, <1>2
<1>7. QED
  BY <1>2, <1>4, <1>5, <1>6 DEF l, L

-----------------------------------------------------------------------------
(* The initial state, and what the invariant says *)

(* What is left to do is pin operations. *)
LEMMA ProgTyped ==
  ASSUME NEW t, IsTransfer(t), BusAt(t)
  PROVE  prog \in Seq(PinOps)
<1>1. t.p \in Seq(PinOps) /\ t.end \in Seq(PinOps)
  BY EndPosition
<1>2. ASSUME NEW i, Left(t.p, i) \/ Left(t.end, i)
      PROVE  prog \in Seq(PinOps)
  BY <1>1, <1>2, LeftNone
<1>3. CASE AtStart(t) \/ AtFirst(t)
  BY <1>2, <1>3 DEF AtStart, AtFirst
<1>4. CASE \E j \in 1 .. Len(t.out), k \in 1 .. Width + 1 :
             OutSda(t, j, k) \/ OutClk(t, j, k)
  BY <1>2, <1>4, Zenon DEF OutSda, OutClk
<1>5. CASE \E j \in 1 .. t.in :
             \/ InSda(t, j, 0) \/ InSda(t, j, Width + 1)
             \/ \E q \in (1 .. Width) \cup {Width + 2} : InClk(t, j, q)
  BY <1>2, <1>5, Zenon DEF InSda, InClk
<1>6. CASE \E r \in 0 .. Len(t.end) : AtEnd(t, r)
  BY <1>2, <1>6, Zenon DEF AtEnd
<1>7. QED
  BY <1>3, <1>4, <1>5, <1>6, Zenon DEF BusAt

(* No call is not a call. *)
LEMMA NoCallIs ==
  /\ ENoCall.op = "none" /\ ENoCall.addr = 0 /\ ENoCall.data = << >>
  /\ Len(ENoCall.data) = 0
  BY DEF ENoCall

(* The driver has a call unless it is idle. *)
LEMMA HasCall ==
  ASSUME EepromCallOK
  PROVE  /\ (epc = "idle") = (ecall = ENoCall)
         /\ epc # "idle" => ecall.op \in {"write", "read"}
<1>1. CASE epc = "idle"
  BY <1>1 DEF EepromCallOK
<1>2. CASE epc # "idle"
  <2>1. ecall.op = OpOf(epc)
    BY <1>2 DEF EepromCallOK
  <2>2. OpOf(epc) \in {"write", "read"} /\ OpOf(epc) # "none"
    BY DEF OpOf
  <2>3. ecall # ENoCall
    BY <2>1, <2>2, NoCallIs
  <2>4. QED
    BY <1>2, <2>1, <2>2, <2>3
<1>3. QED
  BY <1>1, <1>2

(* The invariant gives the types. *)
LEMMA EepromTypes ==
  ASSUME EepromInv
  PROVE  EepromTypeOK
<1>1. BusTyped /\ EepromCallOK
  BY DEF EepromInv
<1>2. prog \in Seq(PinOps) /\ (epc = "idle" => prog = << >>)
  <2>1. CASE epc = "idle"
    <3>1. prog = << >>
      BY <2>1 DEF EepromInv, Quiet
    <3>2. QED
      BY <3>1
  <2>2. CASE epc # "idle"
    <3>1. PICK t : Serves(t) /\ BusAt(t)
      BY <2>2 DEF EepromInv
    <3>2. IsTransfer(t)
      BY <1>1, <2>2, <3>1, ServesIs
    <3>3. QED
      BY <2>2, <3>1, <3>2, ProgTyped
  <2>3. QED
    BY <2>1, <2>2
<1>3. BusTypeOK
  <2>1. ee \in EeRecord
    BY <1>1 DEF BusTyped
  <2>2. /\ ee.st \in EeStates /\ ee.n \in EeCounts /\ ee.byte \in BusByte
        /\ ee.ptr \in EeAddresses /\ ee.mem \in Images
    BY <2>1, EeFields
  <2>3. QED
    BY <1>1, <1>2, <2>2
    DEF BusTypeOK, BusTyped, EeStates, EeCounts, EeAddresses, Images, PinOps
<1>4. /\ epc \in {"idle", "page", "poll", "addr", "data", "put", "reg", "get"}
      /\ tries \in 0 .. AckTimeout - 1
      /\ egot \in Seq(BusByte)
      /\ Len(egot) = IF epc \in {"addr", "data"} THEN eat ELSE 0
  BY <1>1 DEF EepromCallOK, Transfers
<1>5. /\ ecall.op \in {"none", "write", "read"}
      /\ (epc = "idle") = (ecall = ENoCall)
  BY <1>1, HasCall, NoCallIs
<1>6. /\ ecall.addr + Len(ecall.data) <= EepromSize
      /\ eat \in 0 .. Len(ecall.data)
  <2>1. CASE epc = "idle"
    <3>1. ecall.addr = 0 /\ Len(ecall.data) = 0 /\ eat = 0
      BY <1>1, <2>1, NoCallIs DEF EepromCallOK
    <3>2. 0 + 0 <= EepromSize /\ 0 \in 0 .. 0
      BY Widths
    <3>3. QED
      BY <3>1, <3>2, Zenon
  <2>2. CASE epc # "idle"
    BY <1>1, <2>2, DoneCounts DEF EepromCallOK, IsCall
  <2>3. QED
    BY <2>1, <2>2
<1>7. QED
  BY <1>2, <1>3, <1>4, <1>5, <1>6 DEF EepromTypeOK

(* It gives the bus between calls. *)
LEMMA BusIsFree ==
  ASSUME EepromInv
  PROVE  BusFree
  BY DEF EepromInv, Quiet, BusFree

(* It holds at first. *)
LEMMA EepromFirst ==
  ASSUME EepromInit
  PROVE  EepromInv
<1>1. ee \in EeRecord
  <2>1. [a \in 0 .. EepromSize - 1 |-> 0] \in Images
    BY EeNumbers DEF Images, EeAddresses
  <2>2. /\ "idle" \in EeStates /\ 0 \in EeCounts /\ 0 \in BusByte
        /\ FALSE \in BOOLEAN /\ << >> \in Pages
    BY EeNumbers DEF EeStates
  <2>3. 0 \in EeAddresses
    BY Widths DEF EeAddresses
  <2> DEFINE m == [a \in 0 .. EepromSize - 1 |-> 0]
  <2>4. ee = [st |-> "idle", n |-> 0, byte |-> 0, pulls |-> FALSE,
              holds |-> FALSE, ptr |-> 0, page |-> << >>, busy |-> FALSE,
              mem |-> m]
    BY DEF EepromInit, BusInit
  <2> HIDE DEF m
  <2>5. m \in Images
    BY <2>1 DEF m
  <2>6. QED
    BY <2>2, <2>3, <2>4, <2>5 DEF EeRecord
<1>2. BusTyped
  <2>1. 0 \in 0 .. MaxPolls
    BY I2cConstantsOK
  <2>2. << >> \in Seq({0, 1})
    OBVIOUS
  <2>3. QED
    BY <1>1, <2>1, <2>2 DEF EepromInit, BusInit, BusTyped
<1>3. Quiet
  BY DEF EepromInit, BusInit, Quiet
<1>4. EepromCallOK
  <2>1. 0 \in 0 .. AckTimeout - 1
    BY EepromConstantsOK
  <2>2. << >> \in Seq(BusByte) /\ Len(<< >>) = 0
    OBVIOUS
  <2>3. QED
    BY <2>1, <2>2 DEF EepromInit, EepromCallOK
<1>5. QED
  BY <1>2, <1>3, <1>4 DEF EepromInit, EepromInv

(* So do the contents, the call and the result of the memory. *)
LEMMA EepromMemoryFirst ==
  ASSUME EepromInit
  PROVE  Eeprom!Init
<1>1. ee.mem = [a \in 0 .. EepromSize - 1 |-> 0]
  BY DEF EepromInit, BusInit
<1>2. ee.mem \in [0 .. EepromSize - 1 -> BusByte]
  BY <1>1, EeNumbers
<1>3. ecall = Eeprom!NoCall /\ eresult = Eeprom!Result(TRUE, << >>)
  BY DEF EepromInit, ENoCall, EResult, Eeprom!NoCall, Eeprom!Result
<1>4. (~late) = TRUE
  BY DEF EepromInit, BusInit
<1>5. QED
  BY <1>2, <1>3, <1>4 DEF Eeprom!Init

-----------------------------------------------------------------------------
(* The driver's steps *)

(* A transfer begins. *)
LEMMA GoesOn ==
  ASSUME BusTyped, scl = 1, sda = 1, ~clocking, EepromCallOK',
         NEW pc \in Transfers, NEW c, NEW n, NEW g,
         epc' = pc, ecall' = c, eat' = n, egot' = g,
         Transact(OpsOf(pc, c, n)),
         ~late => /\ ~ee.pulls /\ KeptBytes(pc, c, n, g, ee.mem)
                  /\ pc \in {"data", "get"} => ee.ptr = c.addr + n
  PROVE  EepromInv' /\ late' = late /\ ee' = ee
<1>1. epc' # "idle"
  BY DEF Transfers
<1>2. IsCall(c) /\ n \in 0 .. Len(c.data) - 1
  BY <1>1 DEF EepromCallOK
<1> DEFINE z == TransferOf(pc, c, n, ee.mem)
<1>3. PICK t : t = z
  OBVIOUS
<1> HIDE DEF z
<1>4. ~late => ~ee.pulls /\ (pc \in {"data", "get"} => ee.ptr = c.addr + n)
  OBVIOUS
<1>5. t = TransferOf(pc, c, n, ee.mem)
  BY <1>3 DEF z
<1>6. /\ BusTyped' /\ BusAt(t)' /\ late' = late /\ ee' = ee
      /\ t.mem = ee.mem /\ t.mem \in Images
  BY <1>2, <1>4, <1>5, TransferBegins
<1>7. Serves(t)'
  <2>1. t = TransferOf(pc, c, n, t.mem)
    BY <1>5, <1>6
  <2>2. ~late => KeptBytes(pc, c, n, g, t.mem)
    BY <1>6
  <2>3. QED
    BY <1>6, <2>1, <2>2 DEF Serves
<1>8. QED
  BY <1>1, <1>6, <1>7 DEF EepromInv

(* The driver returns. *)
LEMMA GoesBack ==
  ASSUME BusTyped, Quiet, NEW ok, NEW data, EReturn(ok, data)
  PROVE  EepromInv' /\ late' = late /\ ee' = ee
<1>1. /\ scl' = scl /\ sda' = sda /\ prog' = prog /\ clocking' = clocking
      /\ looks' = looks /\ bits' = bits /\ nak' = nak /\ ee' = ee
      /\ late' = late
  BY DEF EReturn, bus
<1>2. BusTyped' /\ Quiet'
  BY <1>1 DEF BusTyped, Quiet
<1>3. EepromCallOK'
  <2>1. 0 \in 0 .. AckTimeout - 1
    BY EepromConstantsOK
  <2>2. << >> \in Seq(BusByte) /\ Len(<< >>) = 0
    OBVIOUS
  <2>3. QED
    BY <2>1, <2>2 DEF EReturn, EepromCallOK
<1>4. QED
  BY <1>1, <1>2, <1>3 DEF EReturn, EepromInv

(* The address of a call is a byte. *)
LEMMA CallAddress ==
  ASSUME NEW a \in EeAddresses
  PROVE  /\ a \in Nat /\ a + 0 = a /\ a \in BusByte
         /\ EepromSize - a \in Nat /\ a + 1 <= EepromSize
<1> DEFINE w == Pow2[Width]
<1>1. w \in Nat /\ EepromSize \in Nat
  BY Powers, Widths
<1>2. EepromSize <= w
  BY <1>1, I2cConstantsOK
<1> HIDE DEF w
<1>3. a \in 0 .. EepromSize - 1
  BY DEF EeAddresses
<1>4. a \in 0 .. w - 1 /\ a \in Nat /\ a + 0 = a
      /\ EepromSize - a \in Nat /\ a + 1 <= EepromSize
  BY <1>1, <1>2, <1>3
<1>5. QED
  BY <1>4 DEF BusByte, w

(* The transfer that each call begins with. *)
LEMMA CallOps ==
  ASSUME NEW a \in EeAddresses, NEW d \in Seq(BusByte), Len(d) >= 1,
         a + Len(d) <= EepromSize,
         NEW c, c.addr = a, c.data = d
  PROVE  /\ IsCall(c)
         /\ PageWrite([addr |-> a, data |-> d], 0) = OpsOf("page", c, 0)
         /\ SetAddress([addr |-> a], 0) = OpsOf("addr", c, 0)
         /\ nk_bitbang_i2c_write_nostop(<< a >>) = OpsOf("reg", c, 0)
         /\ Len(d) = 1 => /\ nk_bitbang_i2c_write(<< a, d[1] >>)
                               = OpsOf("put", c, 0)
<1>1. c.addr = a /\ c.data = d
  OBVIOUS
<1>2. a \in Nat /\ a + 0 = a /\ a \in BusByte
  BY CallAddress
<1>3. IsCall(c)
  BY <1>1 DEF IsCall
<1>4. PageWrite([addr |-> a, data |-> d], 0) = OpsOf("page", c, 0)
  BY <1>1 DEF OpsOf, PageWrite, page_len
<1>5. SetAddress([addr |-> a], 0) = OpsOf("addr", c, 0)
  BY <1>1 DEF OpsOf, SetAddress
<1>6. nk_bitbang_i2c_write_nostop(<< a >>) = OpsOf("reg", c, 0)
  BY <1>1, <1>2 DEF OpsOf
<1>7. ASSUME Len(d) = 1
      PROVE  nk_bitbang_i2c_write(<< a, d[1] >>) = OpsOf("put", c, 0)
  <2>1. page_len(c, 0) = 1
    <3>1. Len(c.data) = 1
      BY <1>1, <1>7
    <3>2. 0 \in 0 .. Len(c.data) - 1
      BY <3>1
    <3>3. page_len(c, 0) \in 1 .. Len(c.data) - 0
      BY <1>3, <3>2, PageLen
    <3>4. QED
      BY <3>1, <3>3
  <2>2. SubSeq(d, 0 + 1, 0 + 1) = << d[1] >>
    <3> DEFINE u == SubSeq(d, 0 + 1, 0 + 1)
               w == << d[1] >>
    <3>1. 0 + 1 = 1 /\ 1 \in 1 .. 1 + 1 /\ 1 \in 1 - 1 .. 1
          /\ 1 - 1 + 1 = 1 /\ 1 \in 1 .. 1
      OBVIOUS
    <3>2. SubSeq(d, 1, 1) \in Seq(BusByte) /\ Len(SubSeq(d, 1, 1)) = 1
          /\ SubSeq(d, 1, 1)[1] = d[1]
      <4>1. /\ SubSeq(d, 1, 1) \in Seq(BusByte)
            /\ Len(SubSeq(d, 1, 1)) = 1 - 1 + 1
            /\ \A i \in 1 .. 1 - 1 + 1 : SubSeq(d, 1, 1)[i] = d[1 + i - 1]
        BY <1>7, <3>1, SliceProps
      <4>2. 1 + 1 - 1 = 1
        OBVIOUS
      <4>3. QED
        BY <3>1, <4>1, <4>2
    <3>3. u \in Seq(BusByte) /\ Len(u) = 1 /\ u[1] = d[1]
      BY <3>1, <3>2
    <3>4. w \in Seq({d[1]}) /\ Len(w) = 1 /\ w[1] = d[1]
      OBVIOUS
    <3> HIDE DEF u, w
    <3>5. u = w
      BY <3>3, <3>4, SeqEqual
    <3>6. QED
      BY <3>5 DEF u, w
  <2>3. d[1] \in BusByte
    BY <1>7
  <2>4. << a >> \o << d[1] >> = << a, d[1] >>
    BY <1>2, <2>3, TwoTokens
  <2>5. OpsOf("put", c, 0) = PageWrite(c, 0)
    BY DEF OpsOf
  <2>6. PageWrite(c, 0) = nk_bitbang_i2c_write(<< a + 0 >> \o
                                                 SubSeq(d, 0 + 1, 0 + 1))
    BY <1>1, <2>1 DEF PageWrite
  <2>7. QED
    BY <1>2, <2>2, <2>4, <2>5, <2>6
<1>8. QED
  BY <1>1, <1>3, <1>4, <1>5, <1>6, <1>7

(* A call begins. *)
LEMMA CallBegins ==
  ASSUME EepromInv, NEW pc \in {"page", "addr", "put", "reg"},
         NEW a \in EeAddresses, NEW d \in Seq(BusByte), Len(d) >= 1,
         a + Len(d) <= EepromSize, pc \in {"put", "reg"} => Len(d) = 1,
         NEW c, c = [op |-> OpOf(pc), addr |-> a, data |-> d],
         NEW p, p = OpsOf(pc, c, 0), EBegin(pc, OpOf(pc), a, d, p)
  PROVE  EepromInv' /\ Eeprom!Begin
<1>1. /\ epc = "idle" /\ ~late /\ epc' = pc /\ ecall' = c
      /\ eresult' = EResult(TRUE, << >>)
      /\ Transact(OpsOf(pc, c, 0))
      /\ eat' = eat /\ tries' = tries /\ egot' = egot
  BY DEF EBegin
<1>2. /\ BusTyped /\ EepromCallOK /\ prog = << >> /\ ~clocking
      /\ scl = 1 /\ sda = 1 /\ ~ee.pulls
  BY <1>1 DEF EepromInv, Quiet
<1>3. /\ IsCall(c) /\ c.op = OpOf(pc) /\ c.addr = a /\ c.data = d
  <2>1. c.op = OpOf(pc) /\ c.addr = a /\ c.data = d
    OBVIOUS
  <2>2. QED
    BY <2>1, CallOps
<1>4. pc \in Transfers /\ pc # "idle" /\ pc # "poll"
      /\ pc \notin {"data", "get"}
  BY DEF Transfers
<1>5. /\ ecall = ENoCall /\ eat = 0 /\ tries \in 0 .. AckTimeout - 1
      /\ egot \in Seq(BusByte) /\ Len(egot) = 0
  BY <1>1, <1>2 DEF EepromCallOK
<1>6. EepromCallOK'
  <2>1. 0 \in 0 .. Len(c.data) - 1
    BY <1>3
  <2>2. pc \in {"put", "reg", "get"} => Len(c.data) = 1
    BY <1>3, <1>4
  <2>3. QED
    BY <1>1, <1>3, <1>4, <1>5, <2>1, <2>2 DEF EepromCallOK
<1>7. KeptBytes(pc, c, 0, egot, ee.mem)
  <2>1. DoneAt(pc, c, 0) = 0
    BY <1>4 DEF DoneAt
  <2>2. Stored(c, 0, ee.mem)
    BY DEF Stored
  <2>3. TakenFrom(c, egot, ee.mem)
    BY <1>5 DEF TakenFrom
  <2>4. QED
    BY <2>1, <2>2, <2>3 DEF KeptBytes
<1>8. eat' = 0
  BY <1>1, <1>5
<1>9. EepromInv' /\ late' = late /\ ee' = ee
  BY <1>1, <1>2, <1>4, <1>6, <1>7, <1>8, GoesOn
<1>10. Eeprom!Begin
  <2>1. ecall = Eeprom!NoCall
    BY <1>5 DEF ENoCall, Eeprom!NoCall
  <2>2. OpOf(pc) \in {"write", "erase", "read"}
    BY DEF OpOf
  <2>3. eresult' = Eeprom!Result(TRUE, << >>)
    BY <1>1 DEF EResult, Eeprom!Result
  <2>4. ee.mem' = ee.mem /\ (~late)' = ~late
    BY <1>9
  <2>5. /\ ecall'.op \in {"write", "erase", "read"}
        /\ ecall'.addr \in 0 .. EepromSize - 1
        /\ ecall'.addr + Len(ecall'.data) <= EepromSize
    BY <1>1, <1>3, <2>2 DEF EeAddresses
  <2>6. QED
    BY <2>1, <2>3, <2>4, <2>5 DEF Eeprom!Begin
<1>11. QED
  BY <1>9, <1>10

(* The calls of the interface. *)
LEMMA EveryCall ==
  ASSUME EepromInv, EepromCall
  PROVE  EepromInv' /\ Eeprom!Begin
<1>1. PICK a \in 0 .. EepromSize - 1 :
        \/ \E n \in 1 .. Min({MaxTransfer, EepromSize - a}) :
             \/ nk_i2c_eeprom_read(a, n)
             \/ \E d \in [1 .. n -> DataByte] : nk_i2c_eeprom_write(a, d)
        \/ nk_i2c_get_byte(a)
        \/ \E x \in DataByte : nk_i2c_put_byte(a, x)
  BY DEF EepromCall
<1>2. a \in EeAddresses /\ a \in Nat /\ EepromSize - a \in Nat
      /\ a + 1 <= EepromSize
  BY CallAddress DEF EeAddresses
<1>3. MaxTransfer \in Nat /\ DataByte \subseteq BusByte /\ 0 \in BusByte
  BY EepromConstantsOK, EeNumbers
<1>4. ASSUME NEW n \in 1 .. Min({MaxTransfer, EepromSize - a})
      PROVE  n \in Nat /\ n >= 1 /\ a + n <= EepromSize
  <2> DEFINE S == {MaxTransfer, EepromSize - a}
  <2>1. S \in SUBSET Nat /\ S # {} /\ EepromSize - a \in S
    BY <1>2, <1>3
  <2>2. Min(S) \in Nat /\ Min(S) <= EepromSize - a
    BY <2>1, MinIn
  <2> HIDE DEF S
  <2>3. n \in 1 .. Min(S)
    BY DEF S
  <2>4. QED
    BY <1>2, <2>2, <2>3, Widths
<1>5. ASSUME NEW n \in Nat
      PROVE  Blank(n) \in Seq(BusByte) /\ Len(Blank(n)) = n
  BY <1>3 DEF Blank
<1>6. ASSUME NEW n \in 1 .. Min({MaxTransfer, EepromSize - a}),
             nk_i2c_eeprom_read(a, n)
      PROVE  EepromInv' /\ Eeprom!Begin
  <2> DEFINE d == Blank(n)
             c == [op |-> OpOf("addr"), addr |-> a, data |-> d]
  <2>1. d \in Seq(BusByte) /\ Len(d) >= 1 /\ a + Len(d) <= EepromSize
    BY <1>4, <1>5
  <2>2. OpOf("addr") = "read" /\ "addr" \notin {"put", "reg"}
    BY DEF OpOf
  <2>3. EBegin("addr", OpOf("addr"), a, d, SetAddress([addr |-> a], 0))
    BY <1>6, <2>2 DEF nk_i2c_eeprom_read
  <2> HIDE DEF d
  <2>4. SetAddress([addr |-> a], 0) = OpsOf("addr", c, 0)
    <3>1. c.addr = a /\ c.data = d
      OBVIOUS
    <3>2. QED
      BY <1>2, <2>1, <3>1, CallOps
  <2> HIDE DEF c
  <2>5. c = [op |-> OpOf("addr"), addr |-> a, data |-> d]
    BY DEF c
  <2>6. QED
    BY <1>2, <2>1, <2>2, <2>3, <2>4, <2>5, CallBegins
<1>7. ASSUME NEW n \in 1 .. Min({MaxTransfer, EepromSize - a}),
             NEW d \in [1 .. n -> DataByte], nk_i2c_eeprom_write(a, d)
      PROVE  EepromInv' /\ Eeprom!Begin
  <2> DEFINE c == [op |-> OpOf("page"), addr |-> a, data |-> d]
             p == PageWrite([addr |-> a, data |-> d], 0)
  <2>1. d \in Seq(BusByte) /\ Len(d) = n
    BY <1>3, <1>4
  <2>2. Len(d) >= 1 /\ a + Len(d) <= EepromSize
    BY <1>4, <2>1
  <2>3. OpOf("page") = "write" /\ "page" \notin {"put", "reg"}
    BY DEF OpOf
  <2>4. EBegin("page", OpOf("page"), a, d, p)
    BY <1>7, <2>3 DEF nk_i2c_eeprom_write
  <2>5. p = OpsOf("page", c, 0)
    <3>1. c.addr = a /\ c.data = d
      OBVIOUS
    <3>2. QED
      BY <1>2, <2>1, <2>2, <3>1, CallOps
  <2> HIDE DEF c, p
  <2>6. c = [op |-> OpOf("page"), addr |-> a, data |-> d]
    BY DEF c
  <2>7. QED
    BY <1>2, <2>1, <2>2, <2>3, <2>4, <2>5, <2>6, CallBegins
<1>8. ASSUME nk_i2c_get_byte(a)
      PROVE  EepromInv' /\ Eeprom!Begin
  <2> DEFINE d == Blank(1)
             c == [op |-> OpOf("reg"), addr |-> a, data |-> d]
             p == nk_bitbang_i2c_write_nostop(<< a >>)
  <2>1. d \in Seq(BusByte) /\ Len(d) = 1 /\ 1 >= 1
    <3>1. 1 \in Nat /\ 1 >= 1
      OBVIOUS
    <3>2. QED
      BY <1>5, <3>1
  <2>2. OpOf("reg") = "read"
    BY DEF OpOf
  <2>3. EBegin("reg", OpOf("reg"), a, d, p)
    BY <1>8, <2>2 DEF nk_i2c_get_byte
  <2> HIDE DEF d
  <2>4. p = OpsOf("reg", c, 0)
    <3>1. c.addr = a /\ c.data = d
      OBVIOUS
    <3>2. QED
      BY <1>2, <2>1, <3>1, CallOps
  <2> HIDE DEF c, p
  <2>5. c = [op |-> OpOf("reg"), addr |-> a, data |-> d]
    BY DEF c
  <2>6. QED
    BY <1>2, <2>1, <2>3, <2>4, <2>5, CallBegins
<1>9. ASSUME NEW x \in DataByte, nk_i2c_put_byte(a, x)
      PROVE  EepromInv' /\ Eeprom!Begin
  <2> DEFINE d == << x >>
             c == [op |-> OpOf("put"), addr |-> a, data |-> d]
             p == nk_bitbang_i2c_write(<< a, x >>)
  <2>1. d \in Seq(BusByte) /\ Len(d) = 1 /\ d[1] = x /\ 1 >= 1
    BY <1>3
  <2>2. OpOf("put") = "write"
    BY DEF OpOf
  <2>3. EBegin("put", OpOf("put"), a, d, p)
    BY <1>9, <2>2 DEF nk_i2c_put_byte
  <2> HIDE DEF d
  <2>4. p = OpsOf("put", c, 0)
    <3>1. c.addr = a /\ c.data = d
      OBVIOUS
    <3>2. nk_bitbang_i2c_write(<< a, d[1] >>) = OpsOf("put", c, 0)
      BY <1>2, <2>1, <3>1, CallOps
    <3>3. QED
      BY <2>1, <3>2
  <2> HIDE DEF c, p
  <2>5. c = [op |-> OpOf("put"), addr |-> a, data |-> d]
    BY DEF c
  <2>6. QED
    BY <1>2, <2>1, <2>3, <2>4, <2>5, CallBegins
<1>10. QED
  BY <1>1, <1>6, <1>7, <1>8, <1>9

-----------------------------------------------------------------------------
(* Between two transfers *)

(* The next transfer of the same call. *)
LEMMA NextTransfer ==
  ASSUME EepromInv, epc # "idle", prog = << >>,
         NEW pc \in Transfers, NEW n, NEW g, NEW p,
         EGoOn(pc, p), eat' = n, egot' = g, p = OpsOf(pc, ecall, n),
         tries' \in 0 .. AckTimeout - 1, OpOf(pc) = OpOf(epc),
         n \in 0 .. Len(ecall.data) - 1,
         pc \in {"put", "reg", "get"} => Len(ecall.data) = 1,
         g \in Seq(BusByte),
         Len(g) = IF pc \in {"addr", "data"} THEN n ELSE 0,
         ~late => /\ KeptBytes(pc, ecall, n, g, ee.mem)
                  /\ pc \in {"data", "get"} => ee.ptr = ecall.addr + n
  PROVE  EepromInv' /\ UNCHANGED Eeprom!vars
<1>1. /\ epc' = pc /\ ecall' = ecall /\ eresult' = eresult
      /\ Transact(OpsOf(pc, ecall, n))
  BY DEF EGoOn
<1>2. pc # "idle"
  BY DEF Transfers
<1>3. /\ scl = 1 /\ sda = 1 /\ ~clocking /\ (~late => ~ee.pulls)
  BY AtTheEnd
<1>4. /\ BusTyped /\ EepromCallOK /\ IsCall(ecall) /\ ecall.op = OpOf(epc)
  BY DEF EepromInv, EepromCallOK
<1>5. EepromCallOK'
  BY <1>1, <1>2, <1>4 DEF EepromCallOK
<1>6. ~late => /\ ~ee.pulls /\ KeptBytes(pc, ecall, n, g, ee.mem)
               /\ pc \in {"data", "get"} => ee.ptr = ecall.addr + n
  BY <1>3
<1>7. EepromInv' /\ late' = late /\ ee' = ee
  BY <1>1, <1>3, <1>4, <1>5, <1>6, GoesOn
<1>8. QED
  BY <1>1, <1>7 DEF Eeprom!vars

(* The driver gives up. *)
LEMMA GivesUp ==
  ASSUME EepromInv, epc # "idle", prog = << >>, nak, EReturn(FALSE, << >>)
  PROVE  EepromInv' /\ (~late => Eeprom!Fail)
<1>1. BusTyped /\ EepromCallOK /\ ee.mem \in Images
  BY EeFields DEF EepromInv, BusTyped
<1>2. Quiet
  BY AtTheEnd
<1>3. EepromInv' /\ late' = late /\ ee' = ee
  <2>1. FALSE \in BOOLEAN
    OBVIOUS
  <2>2. QED
    BY <1>1, <1>2, GoesBack
<1>4. ASSUME ~late PROVE Eeprom!Fail
  <2>1. Stored(ecall, DoneThen, ee.mem)
    BY <1>4, AtTheEnd
  <2>2. DoneThen \in 0 .. Len(ecall.data) /\ Len(ecall.data) \in Nat
    BY <1>1, DoneCounts
  <2> DEFINE k == DoneThen
  <2> HIDE DEF k
  <2>3. k \in Nat /\ Stored(ecall, k, ee.mem) /\ k \in 0 .. Len(ecall.data)
    BY <2>1, <2>2 DEF k
  <2>4. ee.mem' = Eeprom!Done(k)
    BY <1>1, <1>3, <2>3, StoredAlready
  <2>5. ecall # Eeprom!NoCall
    BY <1>1, HasCall DEF ENoCall, Eeprom!NoCall
  <2>6. ecall' = Eeprom!NoCall /\ eresult' = Eeprom!Result(FALSE, << >>)
    BY DEF EReturn, ENoCall, EResult, Eeprom!NoCall, Eeprom!Result
  <2>7. (~late)' = ~late
    BY <1>3
  <2>8. QED
    BY <2>3, <2>4, <2>5, <2>6, <2>7 DEF Eeprom!Fail
<1>5. QED
  BY <1>3, <1>4

(* What was read so far. *)
LEMMA ReadSoFar ==
  ASSUME EepromInv, epc \in {"data", "get"}, prog = << >>, ~nak
  PROVE  /\ Bytes \in Seq(BusByte) /\ egot \in Seq(BusByte)
         /\ Len(egot) = eat
         /\ egot \o Bytes \in Seq(BusByte)
         /\ Len(egot \o Bytes) = eat + page_len(ecall, eat)
         /\ ~late => TakenFrom(ecall, egot \o Bytes, ee.mem)
<1> DEFINE l == page_len(ecall, eat)
           b == Bytes
           a == ecall.addr
<1>1. EepromCallOK /\ epc # "idle"
  BY DEF EepromInv
<1>2. l \in Nat /\ eat \in Nat /\ a \in Nat
  BY <1>1, DoneCounts
<1>3. b \in Seq(BusByte) /\ Len(b) = l /\ egot \in Seq(BusByte)
  BY <1>1, AtTheEnd DEF EepromCallOK
<1>4. Len(egot) = eat
  <2>1. CASE epc = "data"
    BY <1>1, <2>1 DEF EepromCallOK
  <2>2. CASE epc = "get"
    <3>1. Len(ecall.data) = 1 /\ Len(egot) = 0
      BY <1>1, <2>2 DEF EepromCallOK
    <3>2. eat = 0
      BY <1>1, <3>1, DoneCounts
    <3>3. QED
      BY <3>1, <3>2
  <2>3. QED
    BY <2>1, <2>2
<1>5. ~late => /\ TakenFrom(ecall, egot, ee.mem)
               /\ \A k \in 1 .. l : b[k] = ee.mem[(a + eat) + k - 1]
  BY <1>1, AtTheEnd
<1> HIDE DEF l, b, a
<1>6. /\ egot \o b \in Seq(BusByte) /\ Len(egot \o b) = eat + l
      /\ \A i \in 1 .. eat : (egot \o b)[i] = egot[i]
      /\ \A i \in 1 .. l : (egot \o b)[eat + i] = b[i]
  <2>1. /\ egot \o b \in Seq(BusByte)
        /\ Len(egot \o b) = Len(egot) + Len(b)
        /\ \A i \in 1 .. Len(egot) : (egot \o b)[i] = egot[i]
        /\ \A i \in 1 .. Len(b) : (egot \o b)[Len(egot) + i] = b[i]
    <3>1. b \in Seq(BusByte) /\ egot \in Seq(BusByte)
      BY <1>3
    <3>2. QED
      BY ONLY <3>1, ConcatProps
  <2>2. QED
    BY <1>3, <1>4, <2>1
<1>7. ASSUME ~late PROVE TakenFrom(ecall, egot \o b, ee.mem)
  <2>1. ASSUME NEW i \in 1 .. eat + l
        PROVE  (egot \o b)[i] = ee.mem[a + i - 1]
    <3>1. CASE i <= eat
      <4>1. i \in 1 .. eat
        BY <1>2, <3>1
      <4>2. egot[i] = ee.mem[a + i - 1]
        BY <1>4, <1>5, <1>7, <4>1 DEF TakenFrom, a
      <4>3. QED
        BY <1>6, <4>1, <4>2
    <3>2. CASE ~(i <= eat)
      <4>1. i - eat \in 1 .. l /\ eat + (i - eat) = i
            /\ (a + eat) + (i - eat) - 1 = a + i - 1
        BY <1>2, <3>2
      <4>2. b[i - eat] = ee.mem[(a + eat) + (i - eat) - 1]
        BY <1>5, <1>7, <4>1
      <4>3. (egot \o b)[eat + (i - eat)] = b[i - eat]
        BY <1>6, <4>1
      <4>4. QED
        BY <4>1, <4>2, <4>3
    <3>3. QED
      BY <3>1, <3>2
  <2>2. QED
    BY <1>6, <2>1 DEF TakenFrom, a
<1>8. QED
  BY <1>3, <1>4, <1>6, <1>7 DEF b, l

(* What was read is the contents. *)
LEMMA ContentsAre ==
  ASSUME NEW g \in Seq(BusByte), Len(g) = Len(ecall.data),
         TakenFrom(ecall, g, ee.mem)
  PROVE  g = Eeprom!Contents
<1> DEFINE L == Len(g)
<1>1. g = [k \in 1 .. L |-> g[k]]
  OBVIOUS
<1>2. Eeprom!Contents = [k \in 1 .. L |-> ee.mem[ecall.addr + k - 1]]
  BY DEF Eeprom!Contents
<1>3. \A k \in 1 .. L : g[k] = ee.mem[ecall.addr + k - 1]
  BY DEF TakenFrom
<1> HIDE DEF L
<1>4. QED
  BY <1>1, <1>2, <1>3

(* The driver has done all of the call. *)
LEMMA HasDone ==
  ASSUME EepromInv, epc \in {"poll", "put", "data", "get"}, prog = << >>,
         ~nak, eat + page_len(ecall, eat) = Len(ecall.data), NEW d,
         d = IF epc \in {"data", "get"} THEN egot \o Bytes ELSE << >>,
         EReturn(TRUE, d)
  PROVE  EepromInv' /\ (~late => Eeprom!Succeed)
<1>1. BusTyped /\ EepromCallOK /\ ee.mem \in Images /\ epc # "idle"
  BY EeFields DEF EepromInv, BusTyped
<1>2. Quiet
  BY <1>1, AtTheEnd
<1>3. EepromInv' /\ late' = late /\ ee' = ee
  <2>1. TRUE \in BOOLEAN
    OBVIOUS
  <2>2. QED
    BY <1>1, <1>2, GoesBack
<1>4. ASSUME ~late PROVE Eeprom!Succeed
  <2> DEFINE k == Len(ecall.data)
  <2>1. ecall.op = OpOf(epc)
    BY <1>1 DEF EepromCallOK
  <2>2. k \in Nat
    BY <1>1, DoneCounts
  <2>3. Stored(ecall, k, ee.mem)
    <3>1. CASE epc \in {"poll", "put"}
      <4>1. DoneThen = k
        BY <3>1 DEF DoneThen
      <4>2. QED
        BY <1>1, <1>4, <4>1, AtTheEnd
    <3>2. CASE epc \in {"data", "get"}
      <4>1. ecall.op = "read"
        BY <2>1, <3>2 DEF OpOf
      <4>2. QED
        BY <4>1 DEF Stored
    <3>3. QED
      BY <3>1, <3>2
  <2>4. ee.mem' = Eeprom!Done(k)
    BY <1>1, <1>3, <2>2, <2>3, StoredAlready
  <2>5. ecall # Eeprom!NoCall
    BY <1>1, HasCall DEF ENoCall, Eeprom!NoCall
  <2>6. d = IF ecall.op = "read" THEN Eeprom!Contents ELSE << >>
    <3>1. CASE epc \in {"poll", "put"}
      <4>1. ecall.op # "read" /\ d = << >>
        BY <2>1, <3>1 DEF OpOf
      <4>2. QED
        BY <4>1
    <3>2. CASE epc \in {"data", "get"}
      <4>1. ecall.op = "read" /\ d = egot \o Bytes
        BY <2>1, <3>2 DEF OpOf
      <4>2. /\ d \in Seq(BusByte) /\ Len(d) = Len(ecall.data)
            /\ TakenFrom(ecall, d, ee.mem)
        BY <1>4, <3>2, <4>1, ReadSoFar
      <4>3. d = Eeprom!Contents
        BY <4>2, ContentsAre
      <4>4. QED
        BY <4>1, <4>3
    <3>3. QED
      BY <3>1, <3>2
  <2>7. /\ ecall' = Eeprom!NoCall /\ eresult' = Eeprom!Result(TRUE, d)
    BY DEF EReturn, ENoCall, EResult, Eeprom!NoCall, Eeprom!Result
  <2>8. (~late)' = ~late
    BY <1>3
  <2>9. QED
    BY <2>4, <2>5, <2>6, <2>7, <2>8 DEF Eeprom!Succeed
<1>5. QED
  BY <1>3, <1>4

-----------------------------------------------------------------------------
(* Every step *)

(* What the memory promises of a step, if the bus can be trusted. *)
LEMMA PromisedStep ==
  ASSUME late \in BOOLEAN, late' \in BOOLEAN,
         ~late /\ ~late' =>
           \/ Eeprom!Begin \/ Eeprom!Advance
           \/ Eeprom!Succeed \/ Eeprom!Fail
           \/ UNCHANGED Eeprom!vars
  PROVE  [Eeprom!Next]_(Eeprom!vars)
<1>1. CASE late
  BY <1>1 DEF Eeprom!Next
<1>2. CASE ~late /\ late'
  <2>1. (~late)' = FALSE
    BY <1>2
  <2>2. Eeprom!Fault
    BY <2>1 DEF Eeprom!Fault
  <2>3. QED
    BY <1>2, <2>2 DEF Eeprom!Next
<1>3. CASE ~late /\ ~late'
  BY <1>3 DEF Eeprom!Next
<1>4. QED
  BY <1>1, <1>2, <1>3

(* The invariant has the types of the bus. *)
LEMMA LateIs ==
  ASSUME EepromInv
  PROVE  late \in BOOLEAN
  BY DEF EepromInv, BusTyped

(* The driver's part of every transfer that is over. *)
LEMMA EveryContinue ==
  ASSUME EepromInv, Continue
  PROVE  /\ EepromInv'
         /\ ~late => \/ Eeprom!Succeed \/ Eeprom!Fail
                     \/ UNCHANGED Eeprom!vars
<1> DEFINE l == page_len(ecall, eat)
           Goal == /\ EepromInv'
                   /\ ~late => \/ Eeprom!Succeed \/ Eeprom!Fail
                               \/ UNCHANGED Eeprom!vars
<1>1. epc # "idle" /\ prog = << >>
  BY DEF Continue, NotAcknowledged, PageWritten, StillBusy, Acknowledged,
         AddressSet, PageRead, RegisterWritten, RegisterSet, RegisterRead,
         Ended
<1>2. EepromCallOK /\ BusTyped
  BY DEF EepromInv
<1>3. /\ l \in 1 .. Len(ecall.data) - eat
      /\ Len(ecall.data) \in Nat /\ eat \in Nat
      /\ eat + l \in 1 .. Len(ecall.data)
      /\ Len(ecall.data) = 1 => l = 1 /\ eat = 0
  BY <1>1, <1>2, DoneCounts
<1>4. /\ eat \in 0 .. Len(ecall.data) - 1 /\ tries \in 0 .. AckTimeout - 1
      /\ egot \in Seq(BusByte)
      /\ Len(egot) = IF epc \in {"addr", "data"} THEN eat ELSE 0
      /\ epc \in {"put", "reg", "get"} => Len(ecall.data) = 1
      /\ ecall.op = OpOf(epc)
  BY <1>1, <1>2 DEF EepromCallOK
<1>5. ~late => /\ Stored(ecall, DoneThen, ee.mem)
               /\ TakenFrom(ecall, egot, ee.mem)
               /\ epc \in {"addr", "reg"} /\ ~nak => ee.ptr = ecall.addr + eat
  BY <1>1, AtTheEnd
<1> HIDE DEF l
<1>6. /\ eat + l # Len(ecall.data) => eat + l \in 0 .. Len(ecall.data) - 1
      /\ 0 \in 0 .. AckTimeout - 1
  <2>1. 0 \in 0 .. AckTimeout - 1
    BY EepromConstantsOK
  <2>2. QED
    BY <1>3, <2>1
<1>7. CASE NotAcknowledged
  BY <1>1, <1>7, GivesUp DEF NotAcknowledged
<1>8. CASE PageWritten
  <2>1. /\ epc = "page" /\ ~nak /\ EGoOn("poll", AckPoll)
        /\ eat' = eat /\ tries' = tries /\ egot' = egot
    BY <1>8 DEF PageWritten, Ended
  <2>2. "poll" \in Transfers /\ OpOf("poll") = OpOf(epc)
        /\ "poll" \notin {"put", "reg", "get"} /\ Len(egot) = 0
        /\ "poll" \notin {"addr", "data"} /\ "poll" \notin {"data", "get"}
    BY <1>4, <2>1 DEF Transfers, OpOf
  <2>3. AckPoll = OpsOf("poll", ecall, eat)
    BY DEF OpsOf
  <2>4. ~late => KeptBytes("poll", ecall, eat, egot, ee.mem)
    <3>1. DoneThen = DoneAt("poll", ecall, eat)
      BY <2>1 DEF DoneThen, DoneAt
    <3>2. QED
      BY <1>5, <3>1 DEF KeptBytes
  <2>5. QED
    BY <1>1, <1>4, <2>1, <2>2, <2>3, <2>4, NextTransfer
<1>9. CASE StillBusy
  <2>1. epc = "poll" /\ nak
    BY <1>9 DEF StillBusy, Ended
  <2>2. CASE tries = AckTimeout - 1
    <3>1. EReturn(FALSE, << >>)
      BY <1>9, <2>2 DEF StillBusy
    <3>2. QED
      BY <1>1, <2>1, <3>1, GivesUp
  <2>3. CASE tries # AckTimeout - 1
    <3>1. /\ EGoOn("poll", AckPoll)
          /\ eat' = eat /\ tries' = tries + 1 /\ egot' = egot
      BY <1>9, <2>3 DEF StillBusy
    <3>2. "poll" \in Transfers /\ OpOf("poll") = OpOf(epc)
          /\ "poll" \notin {"put", "reg", "get"} /\ Len(egot) = 0
          /\ "poll" \notin {"addr", "data"} /\ "poll" \notin {"data", "get"}
      BY <1>4, <2>1 DEF Transfers
    <3>3. AckPoll = OpsOf("poll", ecall, eat)
      BY DEF OpsOf
    <3>4. ~late => KeptBytes("poll", ecall, eat, egot, ee.mem)
      <4>1. DoneThen = DoneAt("poll", ecall, eat)
        BY <2>1 DEF DoneThen, DoneAt
      <4>2. QED
        BY <1>5, <4>1 DEF KeptBytes
    <3>5. tries' \in 0 .. AckTimeout - 1
      <4>1. tries + 1 \in 0 .. AckTimeout - 1
        BY <1>4, <2>3, EepromConstantsOK
      <4>2. QED
        BY <3>1, <4>1
    <3>6. QED
      BY <1>1, <1>4, <3>1, <3>2, <3>3, <3>4, <3>5, NextTransfer
  <2>4. QED
    BY <2>2, <2>3
<1>10. CASE Acknowledged
  <2>1. epc = "poll" /\ ~nak
    BY <1>10 DEF Acknowledged, Ended
  <2>2. CASE eat + l = Len(ecall.data)
    <3>1. EReturn(TRUE, << >>)
      BY <1>10, <2>2 DEF Acknowledged, l
    <3>2. epc \notin {"data", "get"}
      BY <2>1
    <3>3. QED
      BY <1>1, <2>1, <2>2, <3>1, <3>2, HasDone DEF l
  <2>3. CASE eat + l # Len(ecall.data)
    <3> DEFINE n == eat + l
    <3>1. /\ EGoOn("page", PageWrite(ecall, n))
          /\ eat' = n /\ tries' = 0 /\ egot' = egot
      BY <1>10, <2>3 DEF Acknowledged, l
    <3>2. "page" \in Transfers /\ OpOf("page") = OpOf(epc)
          /\ "page" \notin {"put", "reg", "get"} /\ Len(egot) = 0
          /\ "page" \notin {"addr", "data"} /\ "page" \notin {"data", "get"}
      BY <1>4, <2>1 DEF Transfers, OpOf
    <3>3. PageWrite(ecall, n) = OpsOf("page", ecall, n)
      BY DEF OpsOf
    <3>4. ~late => KeptBytes("page", ecall, n, egot, ee.mem)
      <4>1. DoneThen = n
        BY <2>1 DEF DoneThen, l
      <4>2. DoneAt("page", ecall, n) = n
        BY DEF DoneAt
      <4>3. QED
        BY <1>5, <4>1, <4>2 DEF KeptBytes
    <3>5. n \in 0 .. Len(ecall.data) - 1
      BY <1>6, <2>3
    <3> HIDE DEF n
    <3>6. tries' \in 0 .. AckTimeout - 1
      BY <1>6, <3>1
    <3>7. QED
      BY <1>1, <1>4, <3>1, <3>2, <3>3, <3>4, <3>5, <3>6, NextTransfer
  <2>4. QED
    BY <2>2, <2>3
<1>11. CASE AddressSet
  <2>1. /\ epc = "addr" /\ ~nak /\ EGoOn("data", nk_bitbang_i2c_read(l))
        /\ eat' = eat /\ tries' = tries /\ egot' = egot
    BY <1>11 DEF AddressSet, Ended, l
  <2>2. "data" \in Transfers /\ OpOf("data") = OpOf(epc)
        /\ "data" \notin {"put", "reg", "get"} /\ Len(egot) = eat
        /\ "data" \in {"addr", "data"}
    BY <1>4, <2>1 DEF Transfers, OpOf
  <2>3. nk_bitbang_i2c_read(l) = OpsOf("data", ecall, eat)
    BY DEF OpsOf, l
  <2>4. ~late => /\ KeptBytes("data", ecall, eat, egot, ee.mem)
                 /\ ee.ptr = ecall.addr + eat
    <3>1. DoneThen = DoneAt("data", ecall, eat)
      BY <2>1 DEF DoneThen, DoneAt
    <3>2. QED
      BY <1>5, <2>1, <3>1 DEF KeptBytes
  <2>5. QED
    BY <1>1, <1>4, <2>1, <2>2, <2>3, <2>4, NextTransfer
<1>12. CASE PageRead
  <2>1. epc = "data" /\ ~nak
    BY <1>12 DEF PageRead, Ended
  <2> DEFINE g == egot \o Bytes
  <2>2. /\ g \in Seq(BusByte) /\ Len(g) = eat + l
        /\ ~late => TakenFrom(ecall, g, ee.mem)
    BY <1>1, <2>1, ReadSoFar DEF l
  <2>3. CASE eat + l = Len(ecall.data)
    <3>1. EReturn(TRUE, g)
      BY <1>12, <2>3 DEF PageRead, l
    <3>2. epc \in {"data", "get"}
      BY <2>1
    <3>3. QED
      BY <1>1, <2>1, <2>3, <3>1, <3>2, HasDone DEF l
  <2>4. CASE eat + l # Len(ecall.data)
    <3> DEFINE n == eat + l
    <3>1. /\ EGoOn("addr", SetAddress(ecall, n))
          /\ eat' = n /\ tries' = tries /\ egot' = g
      BY <1>12, <2>4 DEF PageRead, l
    <3> HIDE DEF g
    <3>2. "addr" \in Transfers /\ OpOf("addr") = OpOf(epc)
          /\ "addr" \notin {"put", "reg", "get"}
          /\ "addr" \in {"addr", "data"} /\ "addr" \notin {"data", "get"}
      BY <2>1 DEF Transfers, OpOf
    <3>3. SetAddress(ecall, n) = OpsOf("addr", ecall, n)
      BY DEF OpsOf
    <3>4. ~late => KeptBytes("addr", ecall, n, g, ee.mem)
      <4>1. ecall.op # "write"
        BY <1>4, <2>1 DEF OpOf
      <4>2. QED
        BY <2>2, <4>1 DEF KeptBytes, Stored
    <3>5. n \in 0 .. Len(ecall.data) - 1
      BY <1>6, <2>4
    <3>6. Len(g) = n
      BY <2>2
    <3> HIDE DEF n
    <3>7. QED
      BY <1>1, <1>4, <2>2, <3>1, <3>2, <3>3, <3>4, <3>5, <3>6, NextTransfer
  <2>5. QED
    BY <2>3, <2>4
<1>13. CASE RegisterWritten
  <2>1. epc = "put" /\ ~nak /\ EReturn(TRUE, << >>)
    BY <1>13 DEF RegisterWritten, Ended
  <2>2. Len(ecall.data) = 1
    BY <1>4, <2>1
  <2>3. l = 1 /\ eat = 0 /\ 0 + 1 = 1
    BY <1>3, <2>2
  <2>4. eat + l = Len(ecall.data)
    BY <2>2, <2>3
  <2>5. epc \notin {"data", "get"}
    BY <2>1
  <2>6. QED
    BY <1>1, <2>1, <2>4, <2>5, HasDone DEF l
<1>14. CASE RegisterSet
  <2>1. /\ epc = "reg" /\ ~nak /\ EGoOn("get", nk_bitbang_i2c_read(1))
        /\ eat' = eat /\ tries' = tries /\ egot' = egot
    BY <1>14 DEF RegisterSet, Ended
  <2>2. Len(ecall.data) = 1
    BY <1>4, <2>1
  <2>3. l = 1
    BY <1>3, <2>2
  <2>4. "get" \in Transfers /\ OpOf("get") = OpOf(epc)
        /\ "get" \notin {"addr", "data"} /\ Len(egot) = 0
    BY <1>4, <2>1 DEF Transfers, OpOf
  <2>5. nk_bitbang_i2c_read(1) = OpsOf("get", ecall, eat)
    BY <2>3 DEF OpsOf, l
  <2>6. ~late => /\ KeptBytes("get", ecall, eat, egot, ee.mem)
                 /\ ee.ptr = ecall.addr + eat
    <3>1. DoneThen = DoneAt("get", ecall, eat)
      BY <2>1 DEF DoneThen, DoneAt
    <3>2. QED
      BY <1>5, <2>1, <3>1 DEF KeptBytes
  <2>7. QED
    BY <1>1, <1>4, <2>1, <2>2, <2>4, <2>5, <2>6, NextTransfer
<1>15. CASE RegisterRead
  <2>1. epc = "get" /\ ~nak /\ EReturn(TRUE, Bytes)
    BY <1>15 DEF RegisterRead, Ended
  <2>2. Len(ecall.data) = 1
    BY <1>4, <2>1
  <2>3. l = 1 /\ eat = 0 /\ 0 + 1 = 1
    BY <1>3, <2>2
  <2>4. eat + l = Len(ecall.data)
    BY <2>2, <2>3
  <2>5. epc \in {"data", "get"}
    BY <2>1
  <2>6. Bytes = egot \o Bytes
    <3> DEFINE b == Bytes
    <3>1. b \in Seq(BusByte) /\ egot = << >>
      <4>1. Len(egot) = 0
        BY <1>4, <2>1
      <4>2. QED
        BY <1>1, <1>4, <2>1, <4>1, ReadSoFar
    <3> HIDE DEF b
    <3>2. b = << >> \o b
      BY <3>1
    <3>3. QED
      BY <3>1, <3>2 DEF b
  <2>7. QED
    BY <1>1, <2>1, <2>4, <2>5, <2>6, HasDone DEF l
<1>16. QED
  BY <1>7, <1>8, <1>9, <1>10, <1>11, <1>12, <1>13, <1>14, <1>15
  DEF Continue

(* A step of the bus within a transfer. *)
LEMMA WithinTransfer ==
  ASSUME EepromInv, epc # "idle", InTransaction,
         Master \/ LetsGo \/ CycleOver
  PROVE  /\ EepromInv'
         /\ ~late /\ ~late' => Eeprom!Advance \/ UNCHANGED Eeprom!vars
<1>1. /\ epc' = epc /\ ecall' = ecall /\ eat' = eat /\ tries' = tries
      /\ egot' = egot /\ eresult' = eresult
  BY DEF InTransaction
<1>2. BusTyped /\ EepromCallOK
  BY DEF EepromInv
<1>3. PICK t : Serves(t) /\ BusAt(t)
  BY DEF EepromInv
<1>4. IsTransfer(t) /\ Len(t.out) = OutLength(epc, ecall, eat)
  BY <1>2, <1>3, ServesIs
<1>5. /\ BusTyped' /\ BusAt(t)' /\ (~late' => ~late)
      /\ ~late' => \/ ee'.mem = ee.mem
                   \/ /\ ee.mem = t.mem /\ ee'.mem = Over(t)
                      /\ Len(t.out) >= 3
  BY <1>2, <1>3, <1>4, BusStep
<1>6. EepromCallOK'
  BY <1>1, <1>2 DEF EepromCallOK
<1>7. Serves(t)'
  BY <1>1, <1>3, <1>5 DEF Serves
<1>8. EepromInv'
  BY <1>1, <1>5, <1>6, <1>7 DEF EepromInv
<1>9. ASSUME ~late, ~late'
      PROVE  Eeprom!Advance \/ UNCHANGED Eeprom!vars
  <2>1. (~late)' = ~late
    BY <1>9
  <2>2. CASE ee'.mem = ee.mem
    BY <1>1, <2>1, <2>2 DEF Eeprom!vars
  <2>3. CASE ee.mem = t.mem /\ ee'.mem = Over(t) /\ Len(t.out) >= 3
    <3> DEFINE k == eat + page_len(ecall, eat)
    <3>1. epc \in {"page", "put"}
      <4>1. CASE epc \notin {"page", "put"}
        <5>1. OutLength(epc, ecall, eat) \in {1, 2}
          BY <4>1 DEF OutLength
        <5>2. \A n \in {1, 2} : ~(n >= 3)
          OBVIOUS
        <5>3. ~(Len(t.out) >= 3)
          BY <1>4, <5>1, <5>2
        <5>4. QED
          BY <2>3, <5>3
      <4>2. QED
        BY <4>1
    <3> HIDE DEF k
    <3>2. k = eat + page_len(ecall, eat)
      BY DEF k
    <3>3. /\ k \in 0 .. Len(ecall.data)
          /\ ee.mem = t.mem => Over(t) = Eeprom!Done(k)
      BY <1>2, <1>3, <1>9, <3>1, <3>2, OverIsDone
    <3>4. ecall # Eeprom!NoCall
      BY <1>2, HasCall DEF ENoCall, Eeprom!NoCall
    <3>5. ee.mem' = Eeprom!Done(k)
      BY <2>3, <3>3
    <3>6. QED
      BY <1>1, <2>1, <3>3, <3>4, <3>5 DEF Eeprom!Advance
  <2>4. QED
    BY <1>5, <1>9, <2>2, <2>3
<1>10. QED
  BY <1>8, <1>9

(* A step of the bus between calls. *)
LEMMA BetweenCalls ==
  ASSUME EepromInv, epc = "idle", InTransaction,
         Master \/ LetsGo \/ CycleOver
  PROVE  /\ EepromInv'
         /\ ~late /\ ~late' => UNCHANGED Eeprom!vars
<1>1. /\ epc' = epc /\ ecall' = ecall /\ eat' = eat /\ tries' = tries
      /\ egot' = egot /\ eresult' = eresult
  BY DEF InTransaction
<1>2. BusTyped /\ EepromCallOK /\ Quiet
  BY DEF EepromInv
<1>3. prog = << >> /\ ~clocking
  BY <1>2 DEF Quiet
<1>4. ~Master
  BY <1>3 DEF Master, Pin, ClockUp, LookAgain, ClockDown
<1>5. EepromCallOK'
  BY <1>1, <1>2 DEF EepromCallOK
<1>6. CASE LetsGo
  <2>1. /\ ee.holds /\ scl' = scl /\ sda' = sda /\ prog' = prog
        /\ clocking' = clocking /\ late' = late
    BY <1>6 DEF LetsGo
  <2>2. late
    BY <1>2, <2>1 DEF Quiet
  <2>3. BusTyped'
    BY <1>2, <1>6, BusTypes
  <2>4. Quiet'
    BY <1>3, <2>1, <2>2 DEF Quiet
  <2>5. QED
    BY <1>1, <1>5, <2>2, <2>3, <2>4 DEF EepromInv
<1>7. CASE CycleOver
  <2>1. /\ ee' = [ee EXCEPT !.busy = FALSE] /\ scl' = scl /\ sda' = sda
        /\ prog' = prog /\ clocking' = clocking /\ looks' = looks
        /\ bits' = bits /\ nak' = nak /\ late' = late
    BY <1>7 DEF CycleOver
  <2>2. ee \in EeRecord /\ FALSE \in BOOLEAN
    BY <1>2 DEF BusTyped
  <2>3. /\ ee'.st = ee.st /\ ee'.pulls = ee.pulls /\ ee'.holds = ee.holds
        /\ ee'.mem = ee.mem
    BY <2>1, <2>2 DEF EeRecord
  <2>4. ee' \in EeRecord
    BY <2>1, <2>2, EeUpdates
  <2>5. BusTyped'
    BY <1>2, <2>1, <2>4 DEF BusTyped
  <2>6. Quiet'
    BY <1>2, <2>1, <2>3 DEF Quiet
  <2>7. EepromInv'
    BY <1>1, <1>5, <2>5, <2>6 DEF EepromInv
  <2>8. QED
    BY <1>1, <2>1, <2>3, <2>7 DEF Eeprom!vars
<1>8. QED
  BY <1>4, <1>6, <1>7

(* Nothing happens. *)
LEMMA NothingHappens ==
  ASSUME EepromInv, UNCHANGED evars
  PROVE  EepromInv' /\ UNCHANGED Eeprom!vars
<1>1. /\ scl' = scl /\ sda' = sda /\ prog' = prog /\ clocking' = clocking
      /\ looks' = looks /\ bits' = bits /\ nak' = nak /\ ee' = ee
      /\ late' = late /\ epc' = epc /\ ecall' = ecall /\ eat' = eat
      /\ tries' = tries /\ egot' = egot /\ eresult' = eresult
  BY DEF evars, bus
<1>2. BusTyped' /\ EepromCallOK'
  BY <1>1 DEF EepromInv, BusTyped, EepromCallOK
<1>3. CASE epc = "idle"
  <2>1. Quiet'
    BY <1>1, <1>3 DEF EepromInv, Quiet
  <2>2. QED
    BY <1>1, <1>2, <1>3, <2>1 DEF EepromInv, Eeprom!vars
<1>4. CASE epc # "idle"
  <2>1. PICK t : Serves(t) /\ BusAt(t)
    BY <1>4 DEF EepromInv
  <2>2. Serves(t)'
    BY <1>1, <2>1 DEF Serves
  <2>3. BusAt(t)'
    <3>1. /\ SclHigh' <=> SclHigh
          /\ AllRead(t)' <=> AllRead(t)
      BY <1>1, Zenon DEF SclHigh, AllRead
    <3>2. \A s, i : Left(s, i)' <=> Left(s, i)
      BY <1>1, Zenon DEF Left
    <3>3. /\ AtStart(t)' <=> AtStart(t)
          /\ AtFirst(t)' <=> AtFirst(t)
      BY <1>1, <3>2, Zenon DEF AtStart, AtFirst
    <3>4. \A j, k : /\ OutSda(t, j, k)' <=> OutSda(t, j, k)
                    /\ OutClk(t, j, k)' <=> OutClk(t, j, k)
      BY <1>1, <3>1, <3>2, Zenon DEF OutSda, OutClk
    <3>5. \A j, q : /\ InSda(t, j, q)' <=> InSda(t, j, q)
                    /\ InClk(t, j, q)' <=> InClk(t, j, q)
      BY <1>1, <3>1, <3>2, Zenon DEF InSda, InClk
    <3>6. \A q : AtEnd(t, q)' <=> AtEnd(t, q)
      BY <1>1, <3>1, <3>2, Zenon DEF AtEnd
    <3>7. QED
      BY <2>1, <3>3, <3>4, <3>5, <3>6, Zenon DEF BusAt
  <2>4. QED
    BY <1>1, <1>2, <1>4, <2>2, <2>3 DEF EepromInv, Eeprom!vars
<1>5. QED
  BY <1>3, <1>4

(* Every step of the driver and of the EEPROM. *)
LEMMA EepromStep ==
  ASSUME EepromInv, [EepromNext]_evars
  PROVE  EepromInv' /\ [Eeprom!Next]_(Eeprom!vars)
<1>1. CASE EepromCall
  <2>1. EepromInv' /\ Eeprom!Begin
    BY <1>1, EveryCall
  <2>2. late \in BOOLEAN /\ late' \in BOOLEAN
    BY <2>1, LateIs DEF EepromInv, BusTyped
  <2>3. QED
    BY <2>1, <2>2, PromisedStep
<1>2. CASE Continue
  <2>1. /\ EepromInv'
        /\ ~late => \/ Eeprom!Succeed \/ Eeprom!Fail
                    \/ UNCHANGED Eeprom!vars
    BY <1>2, EveryContinue
  <2>2. late \in BOOLEAN /\ late' \in BOOLEAN
    BY <2>1, LateIs DEF EepromInv, BusTyped
  <2>3. QED
    BY <2>1, <2>2, PromisedStep
<1>3. CASE (Master \/ LetsGo \/ CycleOver) /\ InTransaction
  <2>1. /\ EepromInv'
        /\ ~late /\ ~late' => Eeprom!Advance \/ UNCHANGED Eeprom!vars
    BY <1>3, WithinTransfer, BetweenCalls
  <2>2. late \in BOOLEAN /\ late' \in BOOLEAN
    BY <2>1, LateIs DEF EepromInv, BusTyped
  <2>3. QED
    BY <2>1, <2>2, PromisedStep
<1>4. CASE UNCHANGED evars
  BY <1>4, NothingHappens
<1>5. QED
  BY <1>1, <1>2, <1>3, <1>4 DEF EepromNext, EepromDriver, EepromRests

-----------------------------------------------------------------------------
(* Theorems about the EEPROM *)

(***************************************************************************)
(* The inductive invariant: at every step the bus is at a place of the     *)
(* transfer that the driver is at, for every width of a byte, size of the  *)
(* EEPROM and of its pages, timeout, and number of times that SCL is held. *)
(***************************************************************************)
THEOREM EepromInvariant == EepromSpec => []EepromInv
<1>1. EepromInit => EepromInv
  BY EepromFirst
<1>2. EepromInv /\ [EepromNext]_evars => EepromInv'
  BY EepromStep
<1>3. QED
  BY <1>1, <1>2, PTL DEF EepromSpec

(***************************************************************************)
(* Between two calls both wires are high and the EEPROM pulls neither,     *)
(* whatever was acknowledged, given up or read, unless it held SCL for     *)
(* longer than the master waits.                                           *)
(***************************************************************************)
THEOREM EepromBusFree == EepromSpec => []BusFree
<1>1. EepromInv => BusFree
  BY BusIsFree
<1>2. QED
  BY <1>1, EepromInvariant, PTL

(***************************************************************************)
(* The driver, the pins and the EEPROM are a memory: each of their steps   *)
(* is one of the memory or does not show.                                  *)
(***************************************************************************)
THEOREM EepromImplemented == EepromSpec => ImplementsEeprom
<1>1. EepromInit => Eeprom!Init
  BY EepromMemoryFirst
<1>2. EepromInv /\ [EepromNext]_evars => [Eeprom!Next]_(Eeprom!vars)
  BY EepromStep
<1>3. QED
  BY <1>1, <1>2, EepromInvariant, PTL
     DEF EepromSpec, ImplementsEeprom, Eeprom!Spec

(* The memories of a board work one at a time: what the EEPROM does is a   *)
(* behaviour of its driver.                                                *)
LEMMA BoardHasEeprom == Spec => EepromSpec
<1>1. Init => EepromInit
  BY DEF Init
<1>2. [Next]_vars => [EepromNext]_evars
  BY DEF Next, vars
<1>3. QED
  BY <1>1, <1>2, PTL DEF Spec, EepromSpec

(* So it is a memory there too, and leaves the bus free between calls. *)
THEOREM BoardImplementsEeprom == Spec => ImplementsEeprom /\ []BusFree
<1>1. QED
  BY BoardHasEeprom, EepromImplemented, EepromBusFree

(* The types of both memories of a board, whichever is in use. *)
THEOREM BoardTypeCorrect == Spec => []TypeOK
<1>1. Init => FlashInit
  BY DEF Init
<1>2. [Next]_vars => [FlashNext]_fvars
  BY DEF Next, vars
<1>3. Spec => []FlashTypeOK
  BY <1>1, <1>2, TypeCorrect, PTL DEF Spec, FlashSpec
<1>4. Spec => [](device \in {"flash", "eeprom"})
  <2>1. Init => device \in {"flash", "eeprom"}
    BY DEF Init
  <2>2. /\ device \in {"flash", "eeprom"} /\ [Next]_vars
        => (device \in {"flash", "eeprom"})'
    BY DEF Next, vars
  <2>3. QED
    BY <2>1, <2>2, PTL DEF Spec
<1>5. EepromInv => EepromTypeOK
  BY EepromTypes
<1>6. /\ FlashTypeOK /\ device \in {"flash", "eeprom"} /\ EepromTypeOK
      => TypeOK
  BY DEF TypeOK
<1>7. QED
  BY <1>3, <1>4, <1>5, <1>6, BoardHasEeprom, EepromInvariant, PTL

=============================================================================
