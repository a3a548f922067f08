------------------------------ MODULE NkDbase ------------------------------
(***************************************************************************)
(* The database in flash memory: nk_dbase_save and nk_dbase_load of        *)
(* src/nkdbase.c over the CRC-checked files of src/nkchecked.c, the output *)
(* buffer of src/nkoutfile.c and a flash memory that may fail, and lose    *)
(* its power, at any operation.                                            *)
(*                                                                         *)
(* Memory is an array of cells.  A cell holds what one flash_write of a    *)
(* save writes: the header of a file or one piece of its contents.  The    *)
(* CRC is ideal: a header fits exactly the contents it was computed from.  *)
(***************************************************************************)
EXTENDS Integers, FiniteSets

CONSTANTS
  Values,       \* contents of the database
  Pieces,       \* Pieces[v]: number of cells of v when it is serialized
  RevMod,       \* number of revisions, 256: a char
  BankCells,    \* bank.area_size, in cells
  PerBlock,     \* erase_size, in cells
  PerFlush,     \* buf_size, in cells: what one call of nk_checked_write gets
  MaxFaults,    \* bound: erase and write operations that fail
  MaxReadFaults,\* bound: loads in which a read operation fails
  NoValue,
  Erased, Zeroed, Junk

Bank == {0, 1}
Rev  == 0 .. RevMod - 1
Addr == 0 .. 3 * BankCells - 1       \* the banks, and memory after them

ASSUME ConstantsOK ==
  /\ \A v \in Values : Pieces[v] \in 1 .. BankCells + PerBlock - 1
  /\ RevMod \in Nat /\ RevMod % 2 = 0 /\ RevMod >= 4
  /\ PerBlock \in Nat \ {0} /\ PerFlush \in Nat \ {0}
  /\ BankCells \in Nat \ {0} /\ BankCells % PerBlock = 0
  /\ MaxFaults \in Nat /\ MaxReadFaults \in Nat
  /\ NoValue \notin Values

(* the states of a cell are told apart *)
ASSUME CellsOK ==
  /\ Erased # Zeroed /\ Erased # Junk /\ Zeroed # Junk
  /\ \A x \in {Erased, Zeroed, Junk} :
       x \notin [part : Nat, rev : Rev, value : Values]

VARIABLES
  has_erase,    \* FALSE: a memory without flash_erase (EEPROM, FRAM)
  mem,          \* the flash memory
  pc,           \* the step of nk_dbase_save that comes next, "boot" or "ready"
  rev,          \* the caller's *rev
  ram,          \* the caller's database
  size,         \* pieces that the open file has so far: ofilt.size
  sta,          \* an operation of this save has failed
  rtn,          \* result of the latest save or load
  faults, readFaults,
  durable       \* history: what a load may find, as in NkStore

vars == << has_erase, mem, pc, rev, ram, size, sta, rtn, faults, readFaults,
           durable >>

(***************************************************************************)
(* part 0 is the header (the CRC of the file), part i > 0 the i-th piece.  *)
(* The revision is the first character of the file.                        *)
(***************************************************************************)
Cell == [part : Nat, rev : Rev, value : Values] \cup {Erased, Zeroed, Junk}

Header(r, v) == [part |-> 0, rev |-> r, value |-> v]
Piece(r, v, i) == [part |-> i, rev |-> IF i = 1 THEN r ELSE 0, value |-> v]

TypeOK ==
  /\ has_erase \in BOOLEAN
  /\ mem \in [Addr -> Cell]
  /\ pc \in {"boot", "ready", "erase", "write", "close"}
  /\ rev \in Rev
  /\ ram \in Values
  /\ size \in Nat
  /\ sta \in BOOLEAN
  /\ rtn \in {0, -1}
  /\ faults \in 0 .. MaxFaults
  /\ readFaults \in 0 .. MaxReadFaults
  /\ durable \subseteq Values \cup {NoValue}

(***************************************************************************)
(* New flash is erased, a new memory that is not erased is all zeros.  The *)
(* caller's variables after a reset: *rev is 0, ram any default.           *)
(***************************************************************************)
Init ==
  /\ has_erase \in BOOLEAN
  /\ mem = [a \in Addr |-> IF has_erase THEN Erased ELSE Zeroed]
  /\ pc = "boot"
  /\ rev = 0
  /\ ram \in Values
  /\ size = 0
  /\ sta = FALSE
  /\ rtn = 0
  /\ faults = MaxFaults
  /\ readFaults = MaxReadFaults
  /\ durable = {NoValue}

-----------------------------------------------------------------------------
(* Flash memory *)

Base(b) == b * BankCells
Block(a) == {c \in Addr : c \div PerBlock = a \div PerBlock}
StartsBlock(a) == a % PerBlock = 0

AfterErase(a) == [c \in Addr |-> IF c \in Block(a) THEN Erased ELSE mem[c]]

(* programming only clears bits: what was not erased is spoiled *)
AfterWrite(a, x) ==
  [mem EXCEPT ![a] = IF has_erase /\ @ \notin {Erased, x} THEN Junk ELSE x]

(* an operation that fails or is cut off may have done any part of it *)
PartlyErased(a) ==
  {[c \in Addr |-> IF c \in gone THEN Erased ELSE IF c \in bad THEN Junk
                   ELSE mem[c]] : gone \in SUBSET Block(a),
                                  bad \in SUBSET Block(a)}

PartlyWritten(a, x) == {mem, [mem EXCEPT ![a] = Junk], AfterWrite(a, x)}

flash_erase(a, ok) ==
  \/ /\ ok
     /\ mem' = AfterErase(a)
     /\ UNCHANGED faults
  \/ /\ ~ok
     /\ faults > 0
     /\ faults' = faults - 1
     /\ mem' \in PartlyErased(a)

flash_write(a, x, ok) ==
  \/ /\ ok
     /\ mem' = AfterWrite(a, x)
     /\ UNCHANGED faults
  \/ /\ ~ok
     /\ faults > 0
     /\ faults' = faults - 1
     /\ mem' \in PartlyWritten(a, x)

-----------------------------------------------------------------------------
(* nk_checked: one file in each bank *)

(* nk_checked_read_open; the CRC of an empty file is 0 *)
GoodIn(m, b) ==
  LET h == m[Base(b)] IN
  \/ h = Zeroed
  \/ /\ h \notin {Erased, Zeroed, Junk}
     /\ h.part = 0
     /\ Pieces[h.value] <= BankCells - 1
     /\ \A i \in 1 .. Pieces[h.value] :
          m[Base(b) + i] = Piece(h.rev, h.value, i)

Good(b) == GoodIn(mem, b)

(* the first character, -1 if there is none *)
RevIn(m, b) == IF m[Base(b)] = Zeroed THEN RevMod - 1 ELSE m[Base(b)].rev

FileRev(b) == RevIn(mem, b)

(* without an erase function FFs are written over the header *)
nk_checked_write_open(b, ok) ==
  IF has_erase THEN flash_erase(Base(b), ok)
  ELSE flash_write(Base(b), Erased, ok)

-----------------------------------------------------------------------------
(* nk_dbase_save *)

(* mutant: a revision wider than the character that is stored *)
Plus1NoWrap(r) == r + 1

Plus1(r) == (r + 1) % RevMod

SaveBank == (rev + 1) % 2

Here == Base(SaveBank) + 1 + size

(* nk_checked_write erases the blocks that begin within the file *)
Continue(n) ==
  /\ size' = n
  /\ pc' = IF n >= Pieces[ram] THEN "close"
           ELSE IF has_erase /\ StartsBlock(Base(SaveBank) + 1 + n)
           THEN "erase" ELSE "write"

(* a failed call of nk_checked_write has counted its data in size and CRC *)
NextFlush == (size \div PerFlush + 1) * PerFlush

Edit ==
  /\ pc = "ready"
  /\ \E v \in Values \ {ram} : ram' = v
  /\ UNCHANGED << mem, pc, rev, size, sta, rtn, faults, readFaults, durable >>

OpenSave ==
  /\ pc = "ready"
  /\ \/ /\ nk_checked_write_open(SaveBank, TRUE)
        /\ Continue(0)
        /\ sta' = FALSE
        /\ durable' = durable \cup {ram}
        /\ UNCHANGED rtn
     \/ /\ nk_checked_write_open(SaveBank, FALSE)
        /\ rtn' = -1
        /\ UNCHANGED << pc, size, sta, durable >>
  /\ UNCHANGED << rev, ram, readFaults >>

EraseBlock ==
  /\ pc = "erase"
  /\ \/ /\ flash_erase(Here, TRUE)
        /\ pc' = "write"
        /\ UNCHANGED << size, sta >>
     \/ /\ flash_erase(Here, FALSE)
        /\ sta' = TRUE
        /\ Continue(NextFlush)
  /\ UNCHANGED << rev, ram, rtn, readFaults, durable >>

(* mutant: the result of nk_checked_write is dropped *)
WritePieceIgnoringErrors ==
  /\ pc = "write"
  /\ \E ok \in BOOLEAN :
       /\ flash_write(Here, Piece(Plus1(rev), ram, size + 1), ok)
       /\ Continue(IF ok THEN size + 1 ELSE NextFlush)
  /\ UNCHANGED << rev, ram, sta, rtn, readFaults, durable >>

WritePiece ==
  /\ pc = "write"
  /\ \E ok \in BOOLEAN :
       /\ flash_write(Here, Piece(Plus1(rev), ram, size + 1), ok)
       /\ Continue(IF ok THEN size + 1 ELSE NextFlush)
       /\ sta' = (sta \/ ~ok)
  /\ UNCHANGED << rev, ram, rtn, readFaults, durable >>

(* mutant: the revision is bumped whether the save succeeded or not *)
CloseSaveAlwaysBumping ==
  /\ pc = "close"
  /\ \E ok \in BOOLEAN :
       /\ flash_write(Base(SaveBank), Header(Plus1(rev), ram), ok)
       /\ rev' = Plus1(rev)
       /\ rtn' = IF ok /\ ~sta THEN 0 ELSE -1
       /\ durable' = IF ok /\ ~sta THEN {ram} ELSE durable
  /\ pc' = "ready"
  /\ UNCHANGED << ram, size, sta, readFaults >>

(* the header is written whatever happened before *)
CloseSave ==
  /\ pc = "close"
  /\ \E ok \in BOOLEAN :
       /\ flash_write(Base(SaveBank), Header(Plus1(rev), ram), ok)
       /\ \/ /\ ok /\ ~sta
             /\ rev' = Plus1(rev)
             /\ rtn' = 0
             /\ durable' = {ram}
          \/ /\ ~ok \/ sta
             /\ rtn' = -1
             /\ UNCHANGED << rev, durable >>
  /\ pc' = "ready"
  /\ UNCHANGED << ram, size, sta, readFaults >>

-----------------------------------------------------------------------------
(* nk_dbase_load *)

(* mutant: revisions compared as unsigned numbers *)
NewerUnsigned(r0, r1) == r0 >= r1

(* (signed char)(r0 - r1) >= 0 *)
NotOlder(r0, r1) == (r0 - r1) % RevMod < RevMod \div 2

UseBank(good, r) ==
  IF good[0] /\ good[1] THEN IF NotOlder(r[0], r[1]) THEN 0 ELSE 1
  ELSE IF good[1] THEN 1 ELSE IF good[0] THEN 0 ELSE -1

(***************************************************************************)
(* A read may fail while the file of bank b is verified, when its first    *)
(* block is read again, or while the chosen file is parsed.                *)
(***************************************************************************)
ReadFault == [at : {"verify", "first"}, bank : Bank] \cup [at : {"parse"}]
NoFault == [at |-> "none"]

Load(fault) ==
  LET good == [b \in Bank |-> Good(b) /\ fault # [at |-> "verify", bank |-> b]]
      r == [b \in Bank |-> IF fault = [at |-> "first", bank |-> b]
                           THEN RevMod - 1
                           ELSE IF good[b] THEN FileRev(b) ELSE 0]
      use == UseBank(good, r)
      parsed == /\ use # -1
                /\ mem[Base(use)] # Zeroed
                /\ fault.at # "parse"
  IN  /\ rev' = IF use = -1 THEN rev ELSE r[use]
      /\ \/ /\ parsed
            /\ ram' = mem[Base(use)].value
            /\ rtn' = 0
         \/ /\ ~parsed
            /\ ram' \in Values
            /\ rtn' = -1
      /\ durable' = IF fault # NoFault THEN durable
                    ELSE {IF parsed THEN ram' ELSE NoValue}

nk_dbase_load ==
  /\ pc \in {"boot", "ready"}
  /\ pc' = "ready"
  /\ \/ /\ Load(NoFault)
        /\ UNCHANGED readFaults
     \/ /\ readFaults > 0
        /\ readFaults' = readFaults - 1
        /\ \E fault \in ReadFault : Load(fault)
  /\ UNCHANGED << mem, size, sta, faults >>

-----------------------------------------------------------------------------

(* the power fails before, during or after the operation that comes next *)
Reset ==
  /\ pc' = "boot"
  /\ rev' = 0
  /\ ram' \in Values
  /\ size' = 0
  /\ sta' = FALSE
  /\ rtn' = 0
  /\ mem' \in CASE pc = "boot" -> {mem}
                [] pc = "ready" ->
                     IF has_erase THEN PartlyErased(Base(SaveBank))
                     ELSE PartlyWritten(Base(SaveBank), Erased)
                [] pc = "erase" -> PartlyErased(Here)
                [] pc = "write" ->
                     PartlyWritten(Here, Piece(Plus1(rev), ram, size + 1))
                [] pc = "close" ->
                     PartlyWritten(Base(SaveBank), Header(Plus1(rev), ram))
  /\ UNCHANGED << faults, readFaults, durable >>

Step ==
  \/ Edit
  \/ OpenSave
  \/ EraseBlock
  \/ WritePiece
  \/ CloseSave
  \/ nk_dbase_load
  \/ Reset

Next == Step /\ UNCHANGED has_erase

Spec == Init /\ [][Next]_vars

-----------------------------------------------------------------------------
(* Properties *)

(***************************************************************************)
(* "Two areas of memory (banks) are allocated so that an older version of  *)
(* the database is always preserved in case of a power outage during a     *)
(* write" (doc/nkdbase.md): once a save has succeeded there is always a    *)
(* bank with a good file, wherever later saves fail or are cut off.        *)
(***************************************************************************)
OlderVersionPreserved ==
  NoValue \notin durable => \E b \in Bank : Good(b) /\ mem[Base(b)] # Zeroed

(***************************************************************************)
(* A save that succeeded is what every later load returns, until the next  *)
(* save; a save that failed, or was cut off by a reset, has happened or    *)
(* not, and the first load decides which: loads never return to an older   *)
(* version, mix two versions, or tell a version from another by a revision *)
(* that has wrapped.                                                       *)
(***************************************************************************)
Store == INSTANCE NkStore WITH saving <- pc \in {"erase", "write", "close"}

ImplementsStore == Store!Spec

=============================================================================
