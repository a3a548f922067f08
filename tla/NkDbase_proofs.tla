--------------------------- MODULE NkDbase_proofs --------------------------
(***************************************************************************)
(* Proofs about the database in flash memory, for every size of banks,     *)
(* blocks and buffer, every number of revisions, any number of operations  *)
(* that fail and any number of power failures.                             *)
(***************************************************************************)
EXTENDS NkDbase, NkLemmas

(***************************************************************************)
(* The inductive invariant: what the memory m holds, what the caller knows *)
(* about it, and how far a save has come.  It takes files that fit into a  *)
(* bank and loads that do not fail to read.                                *)
(***************************************************************************)
FilesFit == \A v \in Values : Pieces[v] <= BankCells - 1
NoReadFaults == MaxReadFaults = 0

(* what a load would return if there was only bank b, and what it returns *)
FoundIn(m, b) ==
  IF GoodIn(m, b) /\ m[Base(b)] # Zeroed THEN m[Base(b)].value ELSE NoValue

Found(m) ==
  LET use == UseBank([b \in Bank |-> GoodIn(m, b)],
                     [b \in Bank |-> IF GoodIn(m, b) THEN RevIn(m, b) ELSE 0])
  IN  IF use = -1 THEN NoValue ELSE FoundIn(m, use)

(* bank b has revisions of its parity, bank 0 is the first one to be used, *)
(* and the files in the two banks are one revision apart                   *)
BanksOK(m) ==
  /\ \A b \in Bank :
       m[Base(b)] \notin {Erased, Zeroed, Junk} => m[Base(b)].rev % 2 = b
  /\ m[Base(0)] = Zeroed => m[Base(1)] = Zeroed
  /\ GoodIn(m, 0) /\ GoodIn(m, 1) /\ m[Base(0)] # Zeroed =>
       \/ RevIn(m, 0) = Plus1(RevIn(m, 1))
       \/ RevIn(m, 1) = Plus1(RevIn(m, 0))

(* the next save spares a file that the caller may go back to *)
CallerOK ==
  LET spared == 1 - SaveBank IN
  pc # "boot" =>
    /\ Good(spared) => FileRev(spared) = rev
    /\ FoundIn(mem, spared) \in durable

SavingOK ==
  pc \in {"erase", "write", "close"} =>
    /\ ram \in durable
    /\ mem[Base(SaveBank)] = Erased
    /\ pc # "close" => size < Pieces[ram]
    /\ pc = "erase" => has_erase /\ StartsBlock(Here)
    /\ ~sta =>
         /\ pc = "close" => size >= Pieces[ram]
         /\ \A i \in 1 .. size :
              i <= Pieces[ram] =>
                mem[Base(SaveBank) + i] = Piece(Plus1(rev), ram, i)
         /\ pc = "write" /\ has_erase =>
              \A c \in Block(Here) : c >= Here => mem[c] = Erased

IInv ==
  TypeOK /\ BanksOK(mem) /\ Found(mem) \in durable /\ CallerOK /\ SavingOK

-----------------------------------------------------------------------------
(* Memories *)

Memory == [Addr -> Cell]

(* Two memories hold the same in bank b. *)
SameBank(m, n, b) ==
  \A c \in Addr : Base(b) <= c /\ c < Base(b) + BankCells => n[c] = m[c]

-----------------------------------------------------------------------------
(* Revisions *)

(* The successor of a revision is a revision of the other parity. *)
LEMMA Plus1Props ==
  ASSUME NEW r \in Rev
  PROVE  /\ Plus1(r) \in Rev
         /\ Plus1(r) = IF r = RevMod - 1 THEN 0 ELSE r + 1
         /\ Plus1(r) % 2 = (r + 1) % 2
         /\ Plus1(r) % 2 = 1 - (r % 2)
<1>1. RevMod \in Nat \ {0} /\ RevMod % 2 = 0 /\ r \in Nat /\ r + 1 \in Nat
  BY ConstantsOK DEF Rev
<1>2. Plus1(r) \in Rev
  BY <1>1, DivMod DEF Plus1, Rev
<1>3. Plus1(r) = IF r = RevMod - 1 THEN 0 ELSE r + 1
  <2>1. ASSUME r = RevMod - 1 PROVE (r + 1) % RevMod = 0
    <3>1. r + 1 = RevMod * 1 + 0 /\ 1 \in Int /\ 0 \in 0 .. RevMod - 1
      BY <1>1, <2>1
    <3>2. QED
      BY <1>1, <3>1, ModUnique
  <2>2. ASSUME r # RevMod - 1 PROVE (r + 1) % RevMod = r + 1
    <3>1. r + 1 \in 0 .. RevMod - 1
      BY <1>1, <2>2 DEF Rev
    <3>2. QED
      BY <1>1, <3>1, ModSmall
  <2>3. QED
    BY <2>1, <2>2 DEF Plus1
<1>5. Plus1(r) % 2 = (r + 1) % 2
  <2>1. 2 \in Nat \ {0}
    OBVIOUS
  <2>2. ((r + 1) % RevMod) % 2 = (r + 1) % 2
    BY <1>1, <2>1, ModMod
  <2>3. QED
    BY <2>2 DEF Plus1
<1>6. (r + 1) % 2 = 1 - (r % 2)
  BY <1>1
<1>7. QED
  BY <1>2, <1>3, <1>5, <1>6

(* The comparison tells a revision from its successor, also where it wraps. *)
LEMMA NotOlderProps ==
  ASSUME NEW r \in Rev
  PROVE  /\ NotOlder(r, r)
         /\ NotOlder(Plus1(r), r)
         /\ ~NotOlder(r, Plus1(r))
<1>1. RevMod \in Nat \ {0} /\ RevMod >= 4 /\ r \in Nat /\ Plus1(r) \in Nat
  BY ConstantsOK, Plus1Props DEF Rev
<1>2. /\ RevMod \div 2 \in Nat /\ RevMod \div 2 >= 2
      /\ RevMod \div 2 <= RevMod - 1
  BY <1>1
<1>3. (r - r) % RevMod = 0
  BY <1>1, ModSmall
<1>4. (Plus1(r) - r) % RevMod = 1
  <2>1. CASE r = RevMod - 1
    BY <1>1, <2>1, Plus1Props, ModUnique, Plus1(r) - r = RevMod * (-1) + 1
  <2>2. CASE r # RevMod - 1
    BY <1>1, <2>2, Plus1Props, ModSmall
  <2>3. QED
    BY <2>1, <2>2
<1>5. (r - Plus1(r)) % RevMod = RevMod - 1
  <2>1. CASE r = RevMod - 1
    BY <1>1, <2>1, Plus1Props, ModSmall
  <2>2. CASE r # RevMod - 1
    BY <1>1, <2>2, Plus1Props, ModUnique,
       r - Plus1(r) = RevMod * (-1) + (RevMod - 1)
  <2>3. QED
    BY <2>1, <2>2
<1>6. QED
  BY <1>1, <1>2, <1>3, <1>4, <1>5 DEF NotOlder

-----------------------------------------------------------------------------
(* Addresses *)

LEMMA BankAddresses ==
  ASSUME NEW b \in Bank
  PROVE  /\ Base(b) \in Addr /\ Base(b) \in Nat
         /\ Base(b) = IF b = 0 THEN 0 ELSE BankCells
         /\ \A i \in 0 .. BankCells - 1 : Base(b) + i \in Addr
         /\ 1 - b \in Bank
  BY ConstantsOK DEF Bank, Base, Addr

(* A number in the block of a, which begins one, is between a and any later *)
(* beginning of a block.                                                    *)
LEMMA WithinBlock ==
  ASSUME NEW p \in Nat \ {0}, NEW a \in Nat, NEW c \in Nat, NEW e \in Nat,
         a % p = 0, e % p = 0, a < e, c \div p = a \div p
  PROVE  a <= c /\ c < e
<1> DEFINE q == a \div p
           k == e \div p
           r == c % p
<1>1. a = p * q /\ q \in Int
  BY DivMod
<1>2. e = p * k /\ k \in Int
  BY DivMod
<1>3. c = p * q + r /\ r \in 0 .. p - 1
  <2>1. c = p * (c \div p) + (c % p) /\ c % p \in 0 .. p - 1
    BY DivMod
  <2>2. c \div p = q
    OBVIOUS
  <2> HIDE DEF q
  <2>3. QED
    BY <2>1, <2>2
<1> HIDE DEF q, k, r
<1>4. q < k
  <2>1. SUFFICES ASSUME k <= q PROVE FALSE
    BY <1>1, <1>2
  <2>2. p * (q - k) >= 0
    BY <1>1, <1>2, <2>1
  <2>3. p * (q - k) = p * q - p * k
    BY <1>1, <1>2
  <2>4. QED
    BY <1>1, <1>2, <2>2, <2>3
<1>5. p * (k - q) >= p
  BY <1>1, <1>2, <1>4
<1>6. p * (k - q) = p * k - p * q
  BY <1>1, <1>2
<1>7. QED
  BY <1>1, <1>2, <1>3, <1>5, <1>6

(* The base of a bank begins a block. *)
LEMMA BaseStartsBlock ==
  ASSUME NEW b \in Bank
  PROVE  StartsBlock(Base(b))
<1>1. PerBlock \in Nat \ {0} /\ BankCells % PerBlock = 0
  BY ConstantsOK
<1>2. 0 % PerBlock = 0
  BY <1>1, ModSmall
<1>3. QED
  BY <1>1, <1>2, BankAddresses DEF StartsBlock

(* The end of a bank begins one, too. *)
LEMMA EndStartsBlock ==
  ASSUME NEW b \in Bank
  PROVE  (Base(b) + BankCells) % PerBlock = 0 /\ Base(b) + BankCells \in Nat
<1> DEFINE k == BankCells \div PerBlock
<1>1. PerBlock \in Nat \ {0} /\ BankCells \in Nat /\ BankCells % PerBlock = 0
  BY ConstantsOK
<1>2. BankCells = PerBlock * k /\ k \in Int
  BY <1>1, DivMod
<1> HIDE DEF k
<1>3. BankCells + BankCells = PerBlock * (k + k) + 0
      /\ BankCells + BankCells \in Int
  BY <1>1, <1>2
<1>4. (BankCells + BankCells) % PerBlock = 0
  <2>1. k + k \in Int /\ 0 \in 0 .. PerBlock - 1
    BY <1>1, <1>2
  <2>2. QED
    BY <1>1, <1>3, <2>1, ModUnique
<1>5. QED
  BY <1>1, <1>4, BankAddresses DEF Bank

(* A block that begins in bank b lies in bank b; behind the base of a bank  *)
(* it does not reach back to it.                                            *)
LEMMA BlockInBank ==
  ASSUME NEW b \in Bank, NEW i \in 0 .. BankCells - 1,
         StartsBlock(Base(b) + i), NEW c \in Block(Base(b) + i)
  PROVE  Base(b) + i <= c /\ c < Base(b) + BankCells
<1>1. /\ PerBlock \in Nat \ {0} /\ BankCells \in Nat
      /\ Base(b) + i \in Nat /\ c \in Nat /\ Base(b) + BankCells \in Nat
      /\ Base(b) + i < Base(b) + BankCells
  BY ConstantsOK, BankAddresses DEF Block, Addr
<1>2. (Base(b) + i) % PerBlock = 0 /\ (Base(b) + BankCells) % PerBlock = 0
      /\ c \div PerBlock = (Base(b) + i) \div PerBlock
  BY EndStartsBlock DEF StartsBlock, Block
<1>3. QED
  BY <1>1, <1>2, WithinBlock

(* The address behind a is in the block of a unless it begins one. *)
LEMMA NextInBlock ==
  ASSUME NEW a \in Nat, ~StartsBlock(a + 1)
  PROVE  (a + 1) \div PerBlock = a \div PerBlock
<1> DEFINE p == PerBlock
           q == a \div p
           q1 == (a + 1) \div p
           r == a % p
           r1 == (a + 1) % p
<1>1. p \in Nat \ {0}
  BY ConstantsOK
<1>2. a = p * q + r /\ q \in Int /\ r \in 0 .. p - 1
  BY <1>1, DivMod
<1>3. a + 1 = p * q1 + r1 /\ q1 \in Int /\ r1 \in 0 .. p - 1 /\ r1 # 0
  BY <1>1, DivMod DEF StartsBlock
<1>4. (a + 1) % p = r + 1 \/ r = p - 1
  <2>1. CASE r + 1 \in 0 .. p - 1
    <3> HIDE DEF p, q, r
    <3>1. a + 1 = p * q + (r + 1) /\ a + 1 \in Int
      BY <1>1, <1>2
    <3>2. QED
      BY <1>1, <1>2, <2>1, <3>1, ModUnique
  <2>2. QED
    BY <1>1, <1>2, <2>1
<1>5. r # p - 1
  <2>1. SUFFICES ASSUME r = p - 1 PROVE FALSE
    OBVIOUS
  <2>2. a + 1 = p * (q + 1) + 0 /\ a + 1 \in Int
    <3> HIDE DEF p, q, r
    <3>1. QED
      BY <1>1, <1>2, <2>1
  <2>3. (a + 1) % p = 0
    <3> HIDE DEF p, q, r
    <3>1. q + 1 \in Int /\ 0 \in 0 .. p - 1
      BY <1>1, <1>2
    <3>2. QED
      BY <1>1, <2>2, <3>1, ModUnique
  <2>4. QED
    BY <1>3, <2>3
<1>6. p * q1 = p * q
  <2> HIDE DEF p, q, q1, r
  <2>1. QED
    BY <1>1, <1>2, <1>3, <1>4, <1>5 DEF r1
<1>7. q1 = q
  <2> HIDE DEF p, q, q1
  <2>1. p * (q1 - q) = 0
    BY <1>1, <1>2, <1>3, <1>6
  <2>2. QED
    BY <1>1, <1>2, <1>3, <2>1
<1>8. QED
  BY <1>7

-----------------------------------------------------------------------------
(* Files and what a load finds *)

(* A cell is a record of a save or in one of three states without contents. *)
LEMMA CellProps ==
  ASSUME NEW x \in Cell
  PROVE  x \notin {Erased, Zeroed, Junk} =>
           /\ x \in [part : Nat, rev : Rev, value : Values]
           /\ x.rev \in Rev /\ x.value \in Values
  BY DEF Cell

(* The header and the pieces that a save writes are such records. *)
LEMMA WrittenCells ==
  ASSUME NEW r \in Rev, NEW v \in Values
  PROVE  /\ Header(r, v) \in Cell
         /\ Header(r, v) \notin {Erased, Zeroed, Junk}
         /\ \A i \in Nat \ {0} :
              /\ Piece(r, v, i) \in Cell
              /\ Piece(r, v, i) \notin {Erased, Zeroed, Junk}
<1>1. 0 \in Rev
  BY ConstantsOK DEF Rev
<1>2. Header(r, v) \in [part : Nat, rev : Rev, value : Values]
  BY DEF Header
<1>3. \A i \in Nat : Piece(r, v, i) \in [part : Nat, rev : Rev, value : Values]
  BY <1>1 DEF Piece
<1>4. QED
  BY <1>2, <1>3, CellsOK DEF Cell

(* A good file has a revision and contents. *)
LEMMA GoodFile ==
  ASSUME NEW m \in Memory, NEW b \in Bank, GoodIn(m, b)
  PROVE  /\ RevIn(m, b) \in Rev
         /\ m[Base(b)] = Zeroed => RevIn(m, b) = RevMod - 1
         /\ m[Base(b)] # Zeroed =>
              /\ m[Base(b)] \notin {Erased, Zeroed, Junk}
              /\ RevIn(m, b) = m[Base(b)].rev
              /\ FoundIn(m, b) = m[Base(b)].value
              /\ FoundIn(m, b) \in Values
<1>1. m[Base(b)] \in Cell
  BY BankAddresses DEF Memory
<1>2. RevMod - 1 \in Rev
  BY ConstantsOK DEF Rev
<1>3. QED
  BY <1>1, <1>2, CellProps DEF GoodIn, RevIn, FoundIn

(* What a load finds depends on the cells of the banks only. *)
LEMMA SameBankSame ==
  ASSUME NEW m \in Memory, NEW n \in Memory, NEW b \in Bank, SameBank(m, n, b)
  PROVE  /\ n[Base(b)] = m[Base(b)]
         /\ GoodIn(n, b) <=> GoodIn(m, b)
         /\ RevIn(n, b) = RevIn(m, b)
         /\ FoundIn(n, b) = FoundIn(m, b)
<1> DEFINE h == m[Base(b)]
<1>1. BankCells \in Nat \ {0} /\ Base(b) \in Nat /\ Base(b) \in Addr
  BY ConstantsOK, BankAddresses
<1>2. n[Base(b)] = h
  BY <1>1 DEF SameBank
<1>3. \A i \in 1 .. BankCells - 1 : n[Base(b) + i] = m[Base(b) + i]
  BY <1>1, BankAddresses DEF SameBank
<1>4. ASSUME h \notin {Erased, Zeroed, Junk}, Pieces[h.value] <= BankCells - 1,
             NEW i \in 1 .. Pieces[h.value]
      PROVE  i \in 1 .. BankCells - 1
  <2>1. h.value \in Values
    BY <1>1, <1>4, CellProps DEF Memory
  <2>2. Pieces[h.value] \in Int
    BY <2>1, ConstantsOK
  <2> HIDE DEF h
  <2>3. QED
    BY <1>1, <1>4, <2>2
<1>5. GoodIn(n, b) <=> GoodIn(m, b)
  <2> HIDE DEF h
  <2>1. GoodIn(m, b) <=>
          \/ h = Zeroed
          \/ /\ h \notin {Erased, Zeroed, Junk}
             /\ h.part = 0
             /\ Pieces[h.value] <= BankCells - 1
             /\ \A i \in 1 .. Pieces[h.value] :
                  m[Base(b) + i] = Piece(h.rev, h.value, i)
    BY DEF GoodIn, h
  <2>2. GoodIn(n, b) <=>
          \/ h = Zeroed
          \/ /\ h \notin {Erased, Zeroed, Junk}
             /\ h.part = 0
             /\ Pieces[h.value] <= BankCells - 1
             /\ \A i \in 1 .. Pieces[h.value] :
                  n[Base(b) + i] = Piece(h.rev, h.value, i)
    BY <1>2 DEF GoodIn
  <2>3. QED
    BY <1>3, <1>4, <2>1, <2>2
<1>6. QED
  BY <1>2, <1>5 DEF RevIn, FoundIn

(* The bank that a load uses, without the tables. *)
LEMMA FoundIs ==
  ASSUME NEW m \in Memory
  PROVE  Found(m) = IF GoodIn(m, 0) /\ GoodIn(m, 1)
                    THEN IF NotOlder(RevIn(m, 0), RevIn(m, 1))
                         THEN FoundIn(m, 0) ELSE FoundIn(m, 1)
                    ELSE IF GoodIn(m, 1) THEN FoundIn(m, 1)
                    ELSE IF GoodIn(m, 0) THEN FoundIn(m, 0)
                    ELSE NoValue
<1> DEFINE good == [b \in Bank |-> GoodIn(m, b)]
           r == [b \in Bank |-> IF GoodIn(m, b) THEN RevIn(m, b) ELSE 0]
<1>1. /\ good[0] <=> GoodIn(m, 0)
      /\ good[1] <=> GoodIn(m, 1)
      /\ GoodIn(m, 0) => r[0] = RevIn(m, 0)
      /\ GoodIn(m, 1) => r[1] = RevIn(m, 1)
  BY DEF Bank
<1>2. Found(m) = IF UseBank(good, r) = -1 THEN NoValue
                 ELSE FoundIn(m, UseBank(good, r))
  BY DEF Found
<1> HIDE DEF good, r
<1>3. QED
  BY <1>1, <1>2 DEF UseBank

(* If the file in the other bank is not good, a load finds that of bank b. *)
LEMMA FoundOne ==
  ASSUME NEW m \in Memory, NEW b \in Bank, ~GoodIn(m, 1 - b)
  PROVE  Found(m) = FoundIn(m, b)
<1>1. (b = 0 /\ 1 - b = 1) \/ (b = 1 /\ 1 - b = 0)
  BY DEF Bank
<1>2. ~GoodIn(m, b) => FoundIn(m, b) = NoValue
  BY DEF FoundIn
<1>3. QED
  BY <1>1, <1>2, FoundIs

(* Of two good files a load finds the one with the next revision. *)
LEMMA FoundNewer ==
  ASSUME NEW m \in Memory, NEW b \in Bank, GoodIn(m, 0), GoodIn(m, 1),
         RevIn(m, b) = Plus1(RevIn(m, 1 - b))
  PROVE  Found(m) = FoundIn(m, b)
<1>1. (b = 0 /\ 1 - b = 1) \/ (b = 1 /\ 1 - b = 0)
  BY DEF Bank
<1>2. 0 \in Bank /\ 1 \in Bank
  BY DEF Bank
<1>3. RevIn(m, 0) \in Rev /\ RevIn(m, 1) \in Rev
  BY <1>2, GoodFile
<1>4. NotOlder(RevIn(m, 0), RevIn(m, 1)) <=> b = 0
  BY <1>1, <1>3, NotOlderProps
<1>5. QED
  BY <1>1, <1>4, FoundIs

(* In a memory of zeros a load finds nothing, in bank 0. *)
LEMMA FoundNothing ==
  ASSUME NEW m \in Memory, m[Base(0)] = Zeroed
  PROVE  Found(m) \in {NoValue, FoundIn(m, 1)} /\ FoundIn(m, 0) = NoValue
<1>1. FoundIn(m, 0) = NoValue
  BY DEF FoundIn
<1>2. QED
  BY <1>1, FoundIs

(***************************************************************************)
(* Whatever is erased or spoiled in one bank, a load finds what it found   *)
(* before, or the file in the other bank.                                  *)
(***************************************************************************)
LEMMA OneBankChanges ==
  ASSUME NEW m \in Memory, NEW n \in Memory, NEW b \in Bank, BanksOK(m),
         SameBank(m, n, 1 - b), n[Base(b)] \in {m[Base(b)], Erased, Junk},
         GoodIn(n, b) => GoodIn(m, b) /\ n[Base(b)] = m[Base(b)],
         m[Base(0)] = Zeroed => b = 0
  PROVE  BanksOK(n) /\ Found(n) \in {Found(m), FoundIn(m, 1 - b)}
<1>1. (b = 0 /\ 1 - b = 1) \/ (b = 1 /\ 1 - b = 0)
  BY DEF Bank
<1>2. /\ n[Base(1 - b)] = m[Base(1 - b)]
      /\ GoodIn(n, 1 - b) <=> GoodIn(m, 1 - b)
      /\ RevIn(n, 1 - b) = RevIn(m, 1 - b)
      /\ FoundIn(n, 1 - b) = FoundIn(m, 1 - b)
  BY BankAddresses, SameBankSame
<1>3. GoodIn(n, b) => /\ GoodIn(m, b)
                      /\ n[Base(b)] = m[Base(b)]
                      /\ RevIn(n, b) = RevIn(m, b)
                      /\ FoundIn(n, b) = FoundIn(m, b)
  BY DEF RevIn, FoundIn
<1>4. BanksOK(n)
  <2>1. ASSUME NEW x \in Bank, n[Base(x)] \notin {Erased, Zeroed, Junk}
        PROVE  n[Base(x)].rev % 2 = x
    BY <1>1, <1>2, <2>1 DEF BanksOK, Bank
  <2>2. ASSUME n[Base(0)] = Zeroed PROVE n[Base(1)] = Zeroed
    BY <1>1, <1>2, <2>2, CellsOK DEF BanksOK
  <2>3. ASSUME GoodIn(n, 0), GoodIn(n, 1), n[Base(0)] # Zeroed
        PROVE  \/ RevIn(n, 0) = Plus1(RevIn(n, 1))
               \/ RevIn(n, 1) = Plus1(RevIn(n, 0))
    BY <1>1, <1>2, <1>3, <2>3 DEF BanksOK
  <2>4. QED
    BY <2>1, <2>2, <2>3 DEF BanksOK
<1>5. CASE GoodIn(n, b)
  <2>1. Found(n) = Found(m)
    BY <1>1, <1>2, <1>3, <1>5, FoundIs
  <2>2. QED
    BY <1>4, <2>1
<1>6. CASE ~GoodIn(n, b)
  <2>1. 1 - b \in Bank /\ b = 1 - (1 - b)
    BY <1>1 DEF Bank
  <2>2. Found(n) = FoundIn(n, 1 - b)
    BY <1>6, <2>1, FoundOne
  <2>3. QED
    BY <1>2, <1>4, <2>2
<1>7. QED
  BY <1>4, <1>5, <1>6

(***************************************************************************)
(* The header that ends a save makes a load find the contents v, if all    *)
(* pieces are there, or the file in the other bank.                        *)
(***************************************************************************)
LEMMA HeaderWritten ==
  ASSUME NEW m \in Memory, NEW b \in Bank, NEW r \in Rev, NEW v \in Values,
         BanksOK(m), m[Base(b)] = Erased, r % 2 = 1 - b,
         GoodIn(m, 1 - b) => RevIn(m, 1 - b) = r,
         NEW n \in Memory, n[Base(b)] = Header(Plus1(r), v),
         \A c \in Addr : c # Base(b) => n[c] = m[c]
  PROVE  /\ BanksOK(n)
         /\ FoundIn(n, 1 - b) = FoundIn(m, 1 - b)
         /\ GoodIn(n, 1 - b) <=> GoodIn(m, 1 - b)
         /\ RevIn(n, 1 - b) = RevIn(m, 1 - b)
         /\ GoodIn(n, b) => /\ RevIn(n, b) = Plus1(r)
                            /\ FoundIn(n, b) = v
                            /\ Found(n) = v
         /\ ~GoodIn(n, b) => Found(n) = FoundIn(m, 1 - b)
<1> DEFINE h == Header(Plus1(r), v)
<1>0. (b = 0 /\ 1 - b = 1) \/ (b = 1 /\ 1 - b = 0)
  BY DEF Bank
<1>1. Plus1(r) \in Rev /\ Plus1(r) % 2 = b
  <2>1. r \in Int /\ r % 2 = 1 - b
    BY ConstantsOK DEF Rev
  <2>2. QED
    BY <1>0, <2>1, Plus1Props
<1>2. h \notin {Erased, Zeroed, Junk} /\ h.rev = Plus1(r) /\ h.value = v
  BY <1>1, WrittenCells DEF Header
<1>3. n[Base(b)] = h
  OBVIOUS
<1>4. SameBank(m, n, 1 - b)
  <2>1. ASSUME NEW c \in Addr, Base(1 - b) <= c, c < Base(1 - b) + BankCells
        PROVE  c # Base(b)
    <3>1. Base(1 - b) \in Nat /\ Base(b) \in Nat /\ c \in Int
      BY BankAddresses DEF Addr
    <3>2. Base(0) = 0 /\ Base(1) = BankCells /\ BankCells \in Nat \ {0}
      BY ConstantsOK DEF Base
    <3>3. QED
      BY <1>0, <2>1, <3>1, <3>2
  <2>2. QED
    BY <2>1 DEF SameBank, Memory
<1>5. /\ n[Base(1 - b)] = m[Base(1 - b)]
      /\ GoodIn(n, 1 - b) <=> GoodIn(m, 1 - b)
      /\ RevIn(n, 1 - b) = RevIn(m, 1 - b)
      /\ FoundIn(n, 1 - b) = FoundIn(m, 1 - b)
  <2>1. 1 - b \in Bank
    BY BankAddresses
  <2>2. QED
    BY <1>4, <2>1, SameBankSame
<1> HIDE DEF h
<1>6. BanksOK(n)
  <2>1. ASSUME NEW x \in Bank, n[Base(x)] \notin {Erased, Zeroed, Junk}
        PROVE  n[Base(x)].rev % 2 = x
    <3>1. CASE x = b
      BY <1>1, <1>2, <1>3, <3>1
    <3>2. CASE x = 1 - b
      BY <1>5, <2>1, <3>2 DEF BanksOK
    <3>3. QED
      BY <1>0, <3>1, <3>2 DEF Bank
  <2>2. ASSUME n[Base(0)] = Zeroed PROVE n[Base(1)] = Zeroed
    BY <1>0, <1>2, <1>3, <1>5, <2>2, CellsOK DEF BanksOK
  <2>3. ASSUME GoodIn(n, 0), GoodIn(n, 1), n[Base(0)] # Zeroed
        PROVE  \/ RevIn(n, 0) = Plus1(RevIn(n, 1))
               \/ RevIn(n, 1) = Plus1(RevIn(n, 0))
    <3>1. RevIn(n, b) = Plus1(r)
      BY <1>2, <1>3 DEF RevIn
    <3>2. QED
      BY <1>0, <1>5, <2>3, <3>1
  <2>4. QED
    BY <2>1, <2>2, <2>3 DEF BanksOK
<1>7. ASSUME GoodIn(n, b)
      PROVE  RevIn(n, b) = Plus1(r) /\ FoundIn(n, b) = v
  BY <1>2, <1>3, <1>7 DEF RevIn, FoundIn
<1>8. ASSUME GoodIn(n, b) PROVE Found(n) = v
  <2>1. CASE GoodIn(n, 1 - b)
    BY <1>0, <1>5, <1>7, <1>8, <2>1, FoundNewer
  <2>2. CASE ~GoodIn(n, 1 - b)
    BY <1>7, <1>8, <2>2, FoundOne
  <2>3. QED
    BY <2>1, <2>2
<1>9. ASSUME ~GoodIn(n, b) PROVE Found(n) = FoundIn(m, 1 - b)
  <2>1. 1 - b \in Bank /\ b = 1 - (1 - b)
    BY <1>0 DEF Bank
  <2>2. QED
    BY <1>5, <1>9, <2>1, FoundOne
<1>10. QED
  BY <1>5, <1>6, <1>7, <1>8, <1>9

-----------------------------------------------------------------------------
(* What the operations on the flash memory change *)

(* n differs from the memory in bank b only, i cells or more behind its base *)
Touches(n, b, i) ==
  \A c \in Addr : n[c] # mem[c] => /\ Base(b) + i <= c
                                   /\ c < Base(b) + BankCells

(* Whatever changes in one bank leaves the other as it was. *)
LEMMA OtherBankKept ==
  ASSUME NEW n, NEW b \in Bank, NEW i \in Nat, Touches(n, b, i)
  PROVE  SameBank(mem, n, 1 - b)
<1>1. BankCells \in Nat \ {0} /\ Base(0) = 0 /\ Base(1) = BankCells
  BY ConstantsOK DEF Base
<1>2. (b = 0 /\ 1 - b = 1) \/ (b = 1 /\ 1 - b = 0)
  BY DEF Bank
<1>3. \A c \in Addr : c \in Int
  BY DEF Addr
<1>4. QED
  BY <1>1, <1>2, <1>3 DEF SameBank, Touches

(* Behind its base a change leaves the header as it was. *)
LEMMA HeaderKept ==
  ASSUME NEW n, NEW b \in Bank, NEW i \in Nat \ {0}, Touches(n, b, i)
  PROVE  n[Base(b)] = mem[Base(b)]
  BY BankAddresses DEF Touches

(* An erase, complete or not, stays in the bank of the block it begins. *)
LEMMA EraseEffect ==
  ASSUME TypeOK, NEW b \in Bank, NEW i \in 0 .. BankCells - 1,
         StartsBlock(Base(b) + i),
         NEW n \in PartlyErased(Base(b) + i) \cup {AfterErase(Base(b) + i)}
  PROVE  /\ n \in Memory
         /\ Touches(n, b, i)
         /\ \A c \in Addr : n[c] \in {mem[c], Erased, Junk}
<1> DEFINE a == Base(b) + i
<1>1. n \in PartlyErased(a)
  <2>1. CASE n = AfterErase(a)
    <3>1. AfterErase(a) = [c \in Addr |-> IF c \in Block(a) THEN Erased
                                          ELSE IF c \in {} THEN Junk
                                          ELSE mem[c]]
      BY DEF AfterErase
    <3>2. Block(a) \in SUBSET Block(a) /\ {} \in SUBSET Block(a)
      OBVIOUS
    <3> HIDE DEF a
    <3>3. QED
      BY <2>1, <3>1, <3>2 DEF PartlyErased
  <2>2. QED
    BY <2>1
<1>2. PICK gone \in SUBSET Block(a), bad \in SUBSET Block(a) :
        n = [c \in Addr |-> IF c \in gone THEN Erased
                            ELSE IF c \in bad THEN Junk ELSE mem[c]]
  <2> HIDE DEF a
  <2>1. QED
    BY <1>1 DEF PartlyErased
<1>3. \A c \in Block(a) : a <= c /\ c < Base(b) + BankCells
  BY BlockInBank
<1>4. mem \in Memory
  BY DEF TypeOK, Memory
<1>5. n \in Memory
  <2> HIDE DEF a
  <2>1. QED
    BY <1>2, <1>4 DEF Memory, Cell
<1>6. \A c \in Addr : n[c] # mem[c] => c \in Block(a)
  <2> HIDE DEF a
  <2>1. QED
    BY <1>2
<1>7. \A c \in Addr : n[c] \in {mem[c], Erased, Junk}
  BY <1>2
<1>8. QED
  BY <1>3, <1>5, <1>6, <1>7 DEF Touches

(* A write, complete or not, changes one cell. *)
LEMMA WriteEffect ==
  ASSUME TypeOK, NEW a \in Addr, NEW x \in Cell,
         NEW n \in PartlyWritten(a, x) \cup {AfterWrite(a, x)}
  PROVE  /\ n \in Memory
         /\ \A c \in Addr : c # a => n[c] = mem[c]
         /\ n[a] \in {mem[a], Junk, x}
         /\ n = AfterWrite(a, x) /\ (has_erase => mem[a] \in {Erased, x}) =>
              n[a] = x
<1>1. mem \in Memory
  BY DEF TypeOK, Memory
<1>2. Junk \in Cell
  BY DEF Cell
<1>3. CASE n = mem
  BY <1>1, <1>3 DEF AfterWrite, Memory
<1>4. CASE n = [mem EXCEPT ![a] = Junk]
  BY <1>1, <1>2, <1>4 DEF AfterWrite, Memory
<1>5. CASE n = AfterWrite(a, x)
  BY <1>1, <1>2, <1>5 DEF AfterWrite, Memory
<1>6. QED
  BY <1>3, <1>4, <1>5 DEF PartlyWritten

(* The bank of the next save has the parity that the revision has not. *)
LEMMA SaveBankProps ==
  ASSUME TypeOK
  PROVE  /\ SaveBank \in Bank /\ 1 - SaveBank \in Bank
         /\ 1 - (1 - SaveBank) = SaveBank
         /\ rev % 2 = 1 - SaveBank
         /\ Plus1(rev) \in Rev /\ Plus1(rev) % 2 = SaveBank
<1>1. rev \in Rev /\ rev \in Nat
  BY ConstantsOK DEF TypeOK, Rev
<1>2. SaveBank = 1 - (rev % 2) /\ rev % 2 \in {0, 1}
  BY <1>1 DEF SaveBank
<1>3. SaveBank \in Bank /\ 1 - SaveBank \in Bank
      /\ 1 - (1 - SaveBank) = SaveBank /\ rev % 2 = 1 - SaveBank
  BY <1>2 DEF Bank
<1>4. QED
  BY <1>1, <1>2, <1>3, Plus1Props

(* While a save goes on the memory was not all zeros when it began, or the *)
(* save goes to the first bank. *)
LEMMA ZeroedSave ==
  ASSUME IInv, pc # "boot", mem[Base(0)] = Zeroed
  PROVE  SaveBank = 0
<1>1. mem \in Memory
  BY DEF IInv, TypeOK, Memory
<1>2. mem[Base(1)] = Zeroed
  BY DEF IInv, BanksOK
<1>3. SUFFICES ASSUME SaveBank = 1 PROVE FALSE
  BY SaveBankProps DEF IInv, Bank
<1>4. Good(0)
  BY DEF Good, GoodIn
<1>5. RevMod - 1 = rev
  BY <1>3, <1>4 DEF IInv, CallerOK, FileRev, RevIn
<1>6. rev % 2 = 0
  BY <1>3, SaveBankProps DEF IInv
<1>7. QED
  BY <1>5, <1>6, ConstantsOK

(* A memory n that keeps what the invariant says of the banks and of the    *)
(* file that the next save spares.                                          *)
Spares(n) ==
  /\ BanksOK(n)
  /\ Found(n) \in durable
  /\ GoodIn(n, 1 - SaveBank) => RevIn(n, 1 - SaveBank) = rev
  /\ FoundIn(n, 1 - SaveBank) \in durable

(***************************************************************************)
(* A change in the bank of the next save that leaves no good file but the  *)
(* one that was there keeps what the invariant says of the banks.          *)
(***************************************************************************)
LEMMA SaveBankChanges ==
  ASSUME IInv, pc # "boot", NEW n \in Memory, Touches(n, SaveBank, 0),
         n[Base(SaveBank)] \in {mem[Base(SaveBank)], Erased, Junk},
         GoodIn(n, SaveBank) => /\ GoodIn(mem, SaveBank)
                                /\ n[Base(SaveBank)] = mem[Base(SaveBank)]
  PROVE  Spares(n)
<1>1. mem \in Memory /\ SaveBank \in Bank /\ 1 - SaveBank \in Bank
  BY SaveBankProps DEF IInv, TypeOK, Memory
<1>2. SameBank(mem, n, 1 - SaveBank)
  BY <1>1, OtherBankKept
<1>3. BanksOK(n) /\ Found(n) \in {Found(mem), FoundIn(mem, 1 - SaveBank)}
  <2>1. BanksOK(mem) /\ (mem[Base(0)] = Zeroed => SaveBank = 0)
    BY ZeroedSave DEF IInv
  <2>2. QED
    BY <1>1, <1>2, <2>1, OneBankChanges
<1>4. /\ GoodIn(mem, 1 - SaveBank) => RevIn(mem, 1 - SaveBank) = rev
      /\ FoundIn(mem, 1 - SaveBank) \in durable
      /\ Found(mem) \in durable
  BY DEF IInv, CallerOK, Good, FileRev
<1>5. /\ GoodIn(n, 1 - SaveBank) <=> GoodIn(mem, 1 - SaveBank)
      /\ RevIn(n, 1 - SaveBank) = RevIn(mem, 1 - SaveBank)
      /\ FoundIn(n, 1 - SaveBank) = FoundIn(mem, 1 - SaveBank)
  BY <1>1, <1>2, SameBankSame
<1>6. QED
  BY <1>3, <1>4, <1>5 DEF Spares

(* Erasing and spoiling make no file good. *)
LEMMA GoodBefore ==
  ASSUME NEW m \in Memory, NEW n \in Memory, NEW b \in Bank, GoodIn(n, b),
         \A c \in Addr : n[c] \in {m[c], Erased, Junk}
  PROVE  GoodIn(m, b) /\ n[Base(b)] = m[Base(b)]
<1> DEFINE h == n[Base(b)]
<1>1. Base(b) \in Addr /\ h \in Cell
  BY BankAddresses DEF Memory
<1>2. h \notin {Erased, Junk}
  BY CellsOK DEF GoodIn
<1>3. m[Base(b)] = h
  BY <1>1, <1>2
<1>4. CASE h = Zeroed
  BY <1>3, <1>4 DEF GoodIn
<1>5. CASE h # Zeroed
  <2>1. /\ h \notin {Erased, Zeroed, Junk} /\ h.part = 0
        /\ Pieces[h.value] <= BankCells - 1
        /\ \A i \in 1 .. Pieces[h.value] :
             n[Base(b) + i] = Piece(h.rev, h.value, i)
    BY <1>5 DEF GoodIn
  <2>2. h.rev \in Rev /\ h.value \in Values
    BY <1>1, <2>1, CellProps
  <2>3. Pieces[h.value] \in Int /\ BankCells \in Int
    BY <2>2, ConstantsOK
  <2> HIDE DEF h
  <2>4. ASSUME NEW i \in 1 .. Pieces[h.value]
        PROVE  m[Base(b) + i] = Piece(h.rev, h.value, i)
    <3>1. i \in Nat \ {0} /\ i \in 0 .. BankCells - 1
      BY <2>1, <2>3
    <3>2. Base(b) + i \in Addr
      BY <3>1, BankAddresses
    <3>3. n[Base(b) + i] = Piece(h.rev, h.value, i)
          /\ n[Base(b) + i] \notin {Erased, Junk}
      BY <2>1, <2>2, <3>1, WrittenCells
    <3>4. QED
      BY <3>2, <3>3
  <2>5. GoodIn(m, b)
    BY <1>3, <2>1, <2>4 DEF GoodIn
  <2>6. QED
    BY <1>3, <2>5 DEF h
<1>6. QED
  BY <1>3, <1>4, <1>5

(* nk_checked_write_open, complete or not, spares the other bank. *)
LEMMA OpenEffect ==
  ASSUME IInv, pc = "ready",
         NEW n \in IF has_erase
                   THEN PartlyErased(Base(SaveBank)) \cup
                          {AfterErase(Base(SaveBank))}
                   ELSE PartlyWritten(Base(SaveBank), Erased) \cup
                          {AfterWrite(Base(SaveBank), Erased)}
  PROVE  n \in Memory /\ Spares(n)
<1>1. TypeOK /\ SaveBank \in Bank /\ mem \in Memory
  BY SaveBankProps DEF IInv, TypeOK, Memory
<1>2. /\ Base(SaveBank) \in Addr /\ Base(SaveBank) \in Nat
      /\ Base(SaveBank) + 0 = Base(SaveBank)
      /\ BankCells \in Nat \ {0} /\ 0 \in 0 .. BankCells - 1
  BY <1>1, BankAddresses, ConstantsOK
<1>3. /\ n \in Memory
      /\ Touches(n, SaveBank, 0)
      /\ \A c \in Addr : n[c] \in {mem[c], Erased, Junk}
  <2>1. CASE has_erase
    <3>1. StartsBlock(Base(SaveBank) + 0)
      BY <1>1, <1>2, BaseStartsBlock
    <3>2. n \in PartlyErased(Base(SaveBank) + 0) \cup
                  {AfterErase(Base(SaveBank) + 0)}
      BY <1>2, <2>1
    <3>3. QED
      BY <1>1, <1>2, <3>1, <3>2, EraseEffect
  <2>2. CASE ~has_erase
    <3>1. n \in PartlyWritten(Base(SaveBank), Erased) \cup
                  {AfterWrite(Base(SaveBank), Erased)}
          /\ Erased \in Cell
      BY <2>2 DEF Cell
    <3>2. /\ n \in Memory
          /\ \A c \in Addr : c # Base(SaveBank) => n[c] = mem[c]
          /\ n[Base(SaveBank)] \in {mem[Base(SaveBank)], Junk, Erased}
      BY <1>1, <1>2, <3>1, WriteEffect
    <3>3. Touches(n, SaveBank, 0)
      BY <1>2, <3>2 DEF Touches
    <3>4. \A c \in Addr : n[c] \in {mem[c], Erased, Junk}
      BY <3>2
    <3>5. QED
      BY <3>2, <3>3, <3>4
  <2>3. QED
    BY <2>1, <2>2
<1>4. n[Base(SaveBank)] \in {mem[Base(SaveBank)], Erased, Junk}
  BY <1>2, <1>3
<1>5. GoodIn(n, SaveBank) => /\ GoodIn(mem, SaveBank)
                             /\ n[Base(SaveBank)] = mem[Base(SaveBank)]
  BY <1>1, <1>3, GoodBefore
<1>6. QED
  BY <1>1, <1>3, <1>4, <1>5, SaveBankChanges

(* While a save goes on its bank has no header, and no good file. *)
LEMMA PieceEffect ==
  ASSUME IInv, pc \in {"erase", "write"}, NEW n \in Memory,
         NEW i \in Nat \ {0}, Touches(n, SaveBank, i)
  PROVE  Spares(n) /\ n[Base(SaveBank)] = Erased
<1>1. SaveBank \in Bank /\ mem[Base(SaveBank)] = Erased
  BY SaveBankProps DEF IInv, SavingOK
<1>2. n[Base(SaveBank)] = Erased
  BY <1>1, HeaderKept
<1>3. ~GoodIn(n, SaveBank)
  BY <1>2, CellsOK DEF GoodIn
<1>4. Touches(n, SaveBank, 0)
  <2>1. Base(SaveBank) \in Int
    BY <1>1, BankAddresses
  <2>2. \A c \in Addr : c \in Int
    BY DEF Addr
  <2>3. QED
    BY <2>1, <2>2 DEF Touches
<1>5. QED
  BY <1>1, <1>2, <1>3, <1>4, SaveBankChanges

(* The place of the next piece is in the bank of the save. *)
LEMMA HereInBank ==
  ASSUME FilesFit, IInv, pc \in {"erase", "write"}
  PROVE  /\ 1 + size \in 0 .. BankCells - 1 /\ 1 + size \in Nat \ {0}
         /\ Here = Base(SaveBank) + (1 + size)
         /\ Here \in Addr /\ Here \in Nat
<1>1. /\ size \in Nat /\ ram \in Values /\ size < Pieces[ram]
      /\ SaveBank \in Bank
  BY SaveBankProps DEF IInv, TypeOK, SavingOK
<1>2. Pieces[ram] \in Int /\ Pieces[ram] <= BankCells - 1 /\ BankCells \in Nat
  BY <1>1, ConstantsOK DEF FilesFit
<1>3. 1 + size \in 0 .. BankCells - 1 /\ 1 + size \in Nat \ {0}
  BY <1>1, <1>2
<1>4. Base(SaveBank) \in Nat /\ Base(SaveBank) + (1 + size) \in Addr
  BY <1>1, <1>3, BankAddresses
<1>5. Here = Base(SaveBank) + (1 + size)
  BY <1>1, <1>4 DEF Here
<1>6. QED
  BY <1>3, <1>4, <1>5

(* The effect of writing the header, complete or not. *)
LEMMA CloseEffect ==
  ASSUME FilesFit, IInv, pc = "close",
         NEW n \in PartlyWritten(Base(SaveBank), Header(Plus1(rev), ram)) \cup
                   {AfterWrite(Base(SaveBank), Header(Plus1(rev), ram))}
  PROVE  /\ n \in Memory /\ Spares(n)
         /\ n = AfterWrite(Base(SaveBank), Header(Plus1(rev), ram)) /\ ~sta =>
              /\ GoodIn(n, SaveBank) /\ RevIn(n, SaveBank) = Plus1(rev)
              /\ FoundIn(n, SaveBank) = ram /\ Found(n) = ram
<1> DEFINE b == SaveBank
           h == Header(Plus1(rev), ram)
<1>1. /\ TypeOK /\ mem \in Memory /\ rev \in Rev /\ ram \in Values
      /\ SaveBank \in Bank /\ rev % 2 = 1 - SaveBank /\ Plus1(rev) \in Rev
      /\ 1 - (1 - SaveBank) = SaveBank
  BY SaveBankProps DEF IInv, TypeOK, Memory
<1>2. /\ BanksOK(mem) /\ mem[Base(b)] = Erased /\ ram \in durable
      /\ GoodIn(mem, 1 - b) => RevIn(mem, 1 - b) = rev
      /\ FoundIn(mem, 1 - b) \in durable
  BY DEF IInv, SavingOK, CallerOK, Good, FileRev
<1>3. Base(b) \in Addr /\ Base(b) \in Nat /\ BankCells \in Nat \ {0}
  BY <1>1, BankAddresses, ConstantsOK
<1>4. h \in Cell /\ h \notin {Erased, Zeroed, Junk}
  BY <1>1, WrittenCells
<1> HIDE DEF h
<1>5. /\ n \in Memory
      /\ \A c \in Addr : c # Base(b) => n[c] = mem[c]
      /\ n[Base(b)] \in {Erased, Junk, h}
      /\ n = AfterWrite(Base(b), h) => n[Base(b)] = h
  BY <1>1, <1>2, <1>3, <1>4, WriteEffect DEF h
<1>6. CASE n[Base(b)] # h
  <2>1. n[Base(b)] \in {Erased, Junk}
    BY <1>5, <1>6
  <2>2. ~GoodIn(n, b)
    BY <2>1, CellsOK DEF GoodIn
  <2>3. Touches(n, b, 0)
    BY <1>3, <1>5 DEF Touches
  <2>4. QED
    BY <1>5, <1>6, <2>1, <2>2, <2>3, SaveBankChanges DEF h
<1>7. CASE n[Base(b)] = h
  <2>1. /\ BanksOK(n)
        /\ FoundIn(n, 1 - b) = FoundIn(mem, 1 - b)
        /\ GoodIn(n, 1 - b) <=> GoodIn(mem, 1 - b)
        /\ RevIn(n, 1 - b) = RevIn(mem, 1 - b)
        /\ GoodIn(n, b) => /\ RevIn(n, b) = Plus1(rev)
                           /\ FoundIn(n, b) = ram
                           /\ Found(n) = ram
        /\ ~GoodIn(n, b) => Found(n) = FoundIn(mem, 1 - b)
    BY <1>1, <1>2, <1>5, <1>7, HeaderWritten DEF h
  <2>2. Spares(n)
    BY <1>2, <2>1 DEF Spares
  <2>3. ASSUME ~sta PROVE GoodIn(n, b)
    <3>1. /\ size \in Nat /\ size >= Pieces[ram]
          /\ \A i \in 1 .. size : i <= Pieces[ram] =>
               mem[Base(b) + i] = Piece(Plus1(rev), ram, i)
      BY <2>3 DEF IInv, TypeOK, SavingOK
    <3>2. Pieces[ram] \in Int /\ Pieces[ram] <= BankCells - 1
      BY <1>1, ConstantsOK DEF FilesFit
    <3>3. ASSUME NEW i \in 1 .. Pieces[ram]
          PROVE  n[Base(b) + i] = Piece(Plus1(rev), ram, i)
      <4>1. i \in 1 .. size /\ i <= Pieces[ram] /\ i \in 0 .. BankCells - 1
            /\ i \in Nat \ {0}
        BY <1>3, <3>1, <3>2
      <4>2. Base(b) + i \in Addr /\ Base(b) + i # Base(b)
        BY <1>1, <1>3, <4>1, BankAddresses
      <4>3. QED
        BY <1>5, <3>1, <4>1, <4>2
    <3>4. h.part = 0 /\ h.rev = Plus1(rev) /\ h.value = ram
      BY DEF h, Header
    <3>5. QED
      BY <1>4, <1>7, <3>2, <3>3, <3>4 DEF GoodIn
  <2>4. QED
    BY <1>5, <2>1, <2>2, <2>3
<1>8. QED
  BY <1>6, <1>7

-----------------------------------------------------------------------------
(* The invariant, and the step of the abstract store that each step takes *)

(* What the invariant says of banks and caller follows from Spares. *)
LEMMA StaysSpared ==
  ASSUME Spares(mem'), rev' = rev, durable \subseteq durable'
  PROVE  BanksOK(mem)' /\ (Found(mem) \in durable)' /\ CallerOK'
<1>1. SaveBank' = SaveBank
  BY DEF SaveBank
<1>2. /\ GoodIn(mem', 1 - SaveBank) => RevIn(mem', 1 - SaveBank) = rev
      /\ FoundIn(mem', 1 - SaveBank) \in durable'
  BY DEF Spares
<1>3. CallerOK'
  BY <1>1, <1>2 DEF CallerOK, Good, FileRev
<1>4. QED
  BY <1>3 DEF Spares

(* The memory as it is spares the file that the caller may go back to. *)
LEMMA MemSpares ==
  ASSUME IInv, pc # "boot"
  PROVE  Spares(mem)
  BY DEF IInv, CallerOK, Spares, Good, FileRev

LEMMA InitInv == Init => IInv /\ Store!Init
<1> SUFFICES ASSUME Init PROVE IInv /\ Store!Init
  OBVIOUS
<1>1. 0 \in Rev /\ MaxFaults \in Nat /\ MaxReadFaults \in Nat
  BY ConstantsOK DEF Rev
<1>2. mem \in Memory
  BY DEF Init, Memory, Cell
<1>3. TypeOK
  <2>1. faults \in 0 .. MaxFaults /\ readFaults \in 0 .. MaxReadFaults
    BY <1>1 DEF Init
  <2>2. QED
    BY <1>1, <1>2, <2>1 DEF Init, TypeOK, Memory
<1>4. \A b \in Bank : /\ mem[Base(b)] \in {Erased, Zeroed}
                      /\ mem[Base(b)] = mem[Base(0)]
  BY BankAddresses DEF Init, Bank
<1>5. 0 \in Bank /\ 1 \in Bank
  BY DEF Bank
<1>6. BanksOK(mem)
  <2>1. mem[Base(0)] # Zeroed => ~GoodIn(mem, 0)
    BY <1>4, <1>5, CellsOK DEF GoodIn
  <2>2. QED
    BY <1>4, <1>5, <2>1 DEF BanksOK
<1>7. Found(mem) = NoValue
  <2>1. FoundIn(mem, 0) = NoValue /\ FoundIn(mem, 1) = NoValue
    BY <1>4, <1>5, CellsOK DEF FoundIn, GoodIn
  <2>2. QED
    BY <1>2, <2>1, FoundIs
<1>8. CallerOK /\ SavingOK
  BY DEF Init, CallerOK, SavingOK
<1>9. QED
  BY <1>3, <1>6, <1>7, <1>8 DEF IInv, Init, Store!Init

LEMMA EditStep ==
  ASSUME IInv, Edit, UNCHANGED has_erase
  PROVE  IInv' /\ Store!Edit
<1>1. TypeOK'
  BY DEF IInv, TypeOK, Edit
<1>2. Spares(mem') /\ rev' = rev /\ durable' = durable
  BY MemSpares DEF Edit, Spares, SaveBank
<1>3. SavingOK'
  BY DEF Edit, SavingOK
<1>4. Store!Edit
  BY DEF IInv, TypeOK, Edit, Store!Edit
<1>5. QED
  BY <1>1, <1>2, <1>3, <1>4, StaysSpared DEF IInv

(* A save begins with its bank erased, or it fails and leaves the caller *)
(* where it was. *)
LEMMA OpenSaveStep ==
  ASSUME FilesFit, IInv, OpenSave, UNCHANGED has_erase
  PROVE  IInv' /\ (Store!BeginSave \/ Store!NotSaved)
<1> DEFINE b == SaveBank
<1>1. /\ TypeOK /\ pc = "ready" /\ mem \in Memory /\ b \in Bank
      /\ rev' = rev /\ ram' = ram /\ readFaults' = readFaults
      /\ ram \in Values /\ has_erase' = has_erase
  BY SaveBankProps DEF IInv, TypeOK, OpenSave, Memory
<1>2. /\ Base(b) \in Addr /\ Base(b) \in Nat /\ BankCells \in Nat \ {0}
      /\ 1 \in 0 .. BankCells - 1
  <2>1. Pieces[ram] \in 1 .. BankCells + PerBlock - 1
        /\ Pieces[ram] <= BankCells - 1
    BY <1>1, ConstantsOK DEF FilesFit
  <2>2. QED
    BY <1>1, <2>1, BankAddresses, ConstantsOK
<1>3. SaveBank' = b
  BY <1>1 DEF SaveBank
<1>4. CASE /\ nk_checked_write_open(SaveBank, TRUE)
           /\ Continue(0)
           /\ sta' = FALSE
           /\ durable' = durable \cup {ram}
           /\ UNCHANGED rtn
  <2>1. /\ mem' = IF has_erase THEN AfterErase(Base(b))
                  ELSE AfterWrite(Base(b), Erased)
        /\ faults' = faults
    BY <1>4 DEF nk_checked_write_open, flash_erase, flash_write
  <2>2. mem' \in Memory /\ Spares(mem')
    BY <1>1, <2>1, OpenEffect
  <2>3. mem'[Base(b)] = Erased
    BY <1>1, <1>2, <2>1 DEF AfterErase, AfterWrite, Block, Memory
  <2>4. size' = 0 /\ 0 < Pieces[ram]
    BY <1>1, <1>4, ConstantsOK DEF Continue
  <2>5. pc' = IF has_erase /\ StartsBlock(Base(b) + 1) THEN "erase"
              ELSE "write"
    <3>1. Base(b) + 1 + 0 = Base(b) + 1 /\ Pieces[ram] \in Int
      BY <1>1, <1>2, ConstantsOK
    <3>2. QED
      BY <1>4, <2>4, <3>1 DEF Continue
  <2>6. TypeOK'
    BY <1>1, <1>4, <2>1, <2>2, <2>4, <2>5 DEF TypeOK, Memory
  <2>7. Here' = Base(b) + 1
    BY <1>2, <1>3, <2>4 DEF Here
  <2>8. ASSUME pc' = "write", has_erase
        PROVE  \A c \in Block(Base(b) + 1) : mem'[c] = Erased
    <3>1. ~StartsBlock(Base(b) + 1)
      BY <2>5, <2>8
    <3>2. Block(Base(b) + 1) = Block(Base(b))
      BY <1>2, <3>1, NextInBlock DEF Block
    <3>3. mem' = [c \in Addr |-> IF c \in Block(Base(b)) THEN Erased
                                 ELSE mem[c]]
      BY <2>1, <2>8 DEF AfterErase
    <3>4. Block(Base(b)) \subseteq Addr
      BY DEF Block
    <3>5. QED
      BY <3>2, <3>3, <3>4
  <2>9. SavingOK'
    BY <1>1, <1>3, <1>4, <2>3, <2>4, <2>5, <2>7, <2>8 DEF SavingOK
  <2>10. Store!BeginSave
    BY <1>1, <1>4, <2>5 DEF Store!BeginSave
  <2>11. QED
    BY <1>1, <1>4, <2>2, <2>6, <2>9, <2>10, StaysSpared DEF IInv
<1>5. CASE /\ nk_checked_write_open(SaveBank, FALSE)
           /\ rtn' = -1
           /\ UNCHANGED << pc, size, sta, durable >>
  <2>1. /\ mem' \in IF has_erase THEN PartlyErased(Base(b))
                    ELSE PartlyWritten(Base(b), Erased)
        /\ faults > 0 /\ faults' = faults - 1
    BY <1>5 DEF nk_checked_write_open, flash_erase, flash_write
  <2>2. mem' \in Memory /\ Spares(mem')
    BY <1>1, <2>1, OpenEffect
  <2>3. TypeOK'
    BY <1>1, <1>5, <2>1, <2>2, ConstantsOK DEF TypeOK, Memory
  <2>4. SavingOK'
    BY <1>1, <1>5 DEF SavingOK
  <2>5. Store!NotSaved
    BY <1>1, <1>5 DEF Store!NotSaved
  <2>6. QED
    BY <1>1, <1>5, <2>2, <2>3, <2>4, <2>5, StaysSpared DEF IInv
<1>6. QED
  BY <1>4, <1>5 DEF OpenSave

(* The result of a call of nk_checked_write that is counted in full. *)
LEMMA NextFlushProps ==
  ASSUME TypeOK
  PROVE  NextFlush \in Nat
<1>1. size \in Nat /\ PerFlush \in Nat \ {0}
  BY ConstantsOK DEF TypeOK
<1>2. size \div PerFlush \in Int /\ size \div PerFlush >= 0
  BY <1>1
<1>3. QED
  BY <1>1, <1>2 DEF NextFlush

(* The save goes on with the file n pieces long. *)
LEMMA ContinueProps ==
  ASSUME TypeOK, ram' = ram, rev' = rev, has_erase' = has_erase,
         NEW n \in Nat, Continue(n)
  PROVE  /\ size' = n /\ size' \in Nat /\ pc' \in {"erase", "write", "close"}
         /\ pc' = "close" <=> n >= Pieces[ram]
         /\ pc' = "erase" => has_erase /\ StartsBlock(Here')
         /\ pc' = "write" /\ has_erase => ~StartsBlock(Here')
         /\ Here' = Base(SaveBank) + 1 + n
<1>1. SaveBank' = SaveBank
  BY DEF SaveBank
<1>2. size' = n
  BY DEF Continue
<1>3. Here' = Base(SaveBank) + 1 + n
  BY <1>1, <1>2 DEF Here
<1>4. QED
  BY <1>2, <1>3 DEF Continue

LEMMA EraseBlockStep ==
  ASSUME FilesFit, IInv, EraseBlock, UNCHANGED has_erase
  PROVE  IInv' /\ UNCHANGED Store!vars
<1> DEFINE b == SaveBank
<1>1. /\ TypeOK /\ pc = "erase" /\ mem \in Memory /\ b \in Bank
      /\ rev' = rev /\ ram' = ram /\ rtn' = rtn /\ durable' = durable
      /\ readFaults' = readFaults /\ has_erase' = has_erase
  BY SaveBankProps DEF IInv, TypeOK, EraseBlock, Memory
<1>2. /\ 1 + size \in 0 .. BankCells - 1 /\ 1 + size \in Nat \ {0}
      /\ Here = Base(b) + (1 + size) /\ Here \in Addr /\ Here \in Nat
  BY <1>1, HereInBank
<1>3. /\ StartsBlock(Here) /\ ram \in durable /\ size < Pieces[ram]
      /\ has_erase /\ size \in Nat /\ ram \in Values
  BY <1>1 DEF IInv, SavingOK, TypeOK
<1>4. ASSUME NEW n \in PartlyErased(Here) \cup {AfterErase(Here)}
      PROVE  n \in Memory /\ Touches(n, b, 1 + size) /\ Spares(n)
             /\ n[Base(b)] = Erased
  <2>1. n \in Memory /\ Touches(n, b, 1 + size)
    BY <1>1, <1>2, <1>3, <1>4, EraseEffect
  <2>2. QED
    BY <1>1, <1>2, <2>1, PieceEffect
<1>5. SaveBank' = b
  BY <1>1 DEF SaveBank
<1>6. CASE /\ flash_erase(Here, TRUE)
           /\ pc' = "write"
           /\ UNCHANGED << size, sta >>
  <2>1. mem' = AfterErase(Here) /\ faults' = faults
    BY <1>6 DEF flash_erase
  <2>2. mem' \in Memory /\ Touches(mem', b, 1 + size) /\ Spares(mem')
        /\ mem'[Base(b)] = Erased
    BY <1>4, <2>1
  <2>3. TypeOK'
    BY <1>1, <1>6, <2>1, <2>2 DEF TypeOK, Memory
  <2>4. Here' = Here
    BY <1>5, <1>6 DEF Here
  <2>5. ASSUME ~sta, NEW i \in 1 .. size, i <= Pieces[ram]
        PROVE  mem'[Base(b) + i] = Piece(Plus1(rev), ram, i)
    <3>1. mem[Base(b) + i] = Piece(Plus1(rev), ram, i)
      <4>1. \A j \in 1 .. size : j <= Pieces[ram] =>
              mem[Base(b) + j] = Piece(Plus1(rev), ram, j)
        BY <1>1, <2>5 DEF IInv, SavingOK
      <4>2. QED
        BY <2>5, <4>1
    <3>2. i \in 0 .. BankCells - 1 /\ Base(b) \in Int
      BY <1>1, <1>2, <1>3, <2>5, BankAddresses, ConstantsOK
    <3>3. Base(b) + i \in Addr /\ ~(Base(b) + (1 + size) <= Base(b) + i)
      BY <1>1, <1>3, <3>2, BankAddresses
    <3>4. QED
      BY <2>2, <3>1, <3>3 DEF Touches
  <2>6. \A c \in Block(Here) : mem'[c] = Erased
    BY <2>1 DEF AfterErase, Block
  <2>7. SavingOK'
    BY <1>1, <1>3, <1>5, <1>6, <2>2, <2>4, <2>5, <2>6 DEF SavingOK
  <2>8. UNCHANGED Store!vars
    BY <1>1, <1>6 DEF Store!vars
  <2>9. QED
    BY <1>1, <2>2, <2>3, <2>7, <2>8, StaysSpared DEF IInv
<1>7. CASE /\ flash_erase(Here, FALSE)
           /\ sta' = TRUE
           /\ Continue(NextFlush)
  <2>1. mem' \in PartlyErased(Here) /\ faults > 0 /\ faults' = faults - 1
    BY <1>7 DEF flash_erase
  <2>2. mem' \in Memory /\ Spares(mem') /\ mem'[Base(b)] = Erased
    BY <1>4, <2>1
  <2>3. /\ size' \in Nat /\ pc' \in {"erase", "write", "close"}
        /\ pc' = "close" <=> size' >= Pieces[ram]
        /\ pc' = "erase" => has_erase /\ StartsBlock(Here')
    BY <1>1, <1>7, NextFlushProps, ContinueProps
  <2>4. TypeOK'
    BY <1>1, <1>7, <2>1, <2>2, <2>3, ConstantsOK DEF TypeOK, Memory
  <2>5. SavingOK'
    <3>1. pc' # "close" => size' < Pieces[ram]
      BY <1>3, <2>3, ConstantsOK
    <3>2. QED
      BY <1>1, <1>3, <1>5, <1>7, <2>2, <2>3, <3>1 DEF SavingOK
  <2>6. UNCHANGED Store!vars
    BY <1>1, <2>3 DEF Store!vars
  <2>7. QED
    BY <1>1, <2>2, <2>4, <2>5, <2>6, StaysSpared DEF IInv
<1>8. QED
  BY <1>6, <1>7 DEF EraseBlock

LEMMA WritePieceStep ==
  ASSUME FilesFit, IInv, WritePiece, UNCHANGED has_erase
  PROVE  IInv' /\ UNCHANGED Store!vars
<1> DEFINE b == SaveBank
           x == Piece(Plus1(rev), ram, size + 1)
<1>1. /\ TypeOK /\ pc = "write" /\ mem \in Memory /\ b \in Bank
      /\ rev' = rev /\ ram' = ram /\ rtn' = rtn /\ durable' = durable
      /\ readFaults' = readFaults /\ has_erase' = has_erase
      /\ Plus1(rev) \in Rev
  BY SaveBankProps DEF IInv, TypeOK, WritePiece, Memory
<1>2. /\ 1 + size \in 0 .. BankCells - 1 /\ 1 + size \in Nat \ {0}
      /\ Here = Base(b) + (1 + size) /\ Here \in Addr /\ Here \in Nat
      /\ Base(b) \in Nat
  BY <1>1, HereInBank, BankAddresses
<1>3. /\ ram \in durable /\ size < Pieces[ram] /\ size \in Nat
      /\ ram \in Values /\ Pieces[ram] \in Int /\ BankCells \in Nat
  BY <1>1, ConstantsOK DEF IInv, SavingOK, TypeOK
<1>4. x \in Cell /\ size + 1 \in Nat
  BY <1>1, <1>3, WrittenCells
<1>5. SaveBank' = b
  BY <1>1 DEF SaveBank
<1> HIDE DEF x
<1>6. PICK ok \in BOOLEAN : /\ flash_write(Here, x, ok)
                            /\ Continue(IF ok THEN size + 1 ELSE NextFlush)
                            /\ sta' = (sta \/ ~ok)
  BY DEF WritePiece, x
<1>7. /\ mem' \in PartlyWritten(Here, x) \cup {AfterWrite(Here, x)}
      /\ ok => mem' = AfterWrite(Here, x)
      /\ faults' \in 0 .. MaxFaults
  BY <1>1, <1>6, ConstantsOK DEF flash_write, TypeOK
<1>8. /\ mem' \in Memory
      /\ \A c \in Addr : c # Here => mem'[c] = mem[c]
      /\ ok /\ (has_erase => mem[Here] \in {Erased, x}) => mem'[Here] = x
  BY <1>1, <1>2, <1>4, <1>7, WriteEffect
<1>9. Touches(mem', b, 1 + size)
  BY <1>1, <1>2, <1>3, <1>8 DEF Touches
<1>10. Spares(mem') /\ mem'[Base(b)] = Erased
  BY <1>1, <1>2, <1>8, <1>9, PieceEffect
<1>11. /\ size' = IF ok THEN size + 1 ELSE NextFlush
       /\ size' \in Nat /\ pc' \in {"erase", "write", "close"}
       /\ pc' = "close" <=> size' >= Pieces[ram]
       /\ pc' = "erase" => has_erase /\ StartsBlock(Here')
       /\ pc' = "write" /\ has_erase => ~StartsBlock(Here')
       /\ Here' = Base(b) + 1 + size'
  <2>1. (IF ok THEN size + 1 ELSE NextFlush) \in Nat
    BY <1>1, <1>4, NextFlushProps
  <2>2. QED
    BY <1>1, <1>6, <2>1, ContinueProps
<1>12. TypeOK'
  BY <1>1, <1>6, <1>7, <1>8, <1>11 DEF TypeOK, Memory
<1>13. ASSUME ~sta', has_erase
       PROVE  \A c \in Block(Here) : c >= Here => mem[c] = Erased
  BY <1>1, <1>6, <1>13 DEF IInv, SavingOK
<1>14. ASSUME ~sta' PROVE ok /\ mem'[Here] = x
  <2>1. ok
    BY <1>6, <1>14
  <2>2. has_erase => mem[Here] = Erased
    BY <1>2, <1>13, <1>14 DEF Block
  <2>3. QED
    BY <1>8, <2>1, <2>2
<1>15. ASSUME ~sta', NEW i \in 1 .. size', i <= Pieces[ram]
       PROVE  mem'[Base(b) + i] = Piece(Plus1(rev), ram, i)
  <2>1. ok /\ size' = size + 1 /\ i \in 1 .. size + 1
    BY <1>11, <1>14, <1>15
  <2>2. CASE i = size + 1
    <3>1. Base(b) + i = Here
      BY <1>2, <1>3, <2>2
    <3>2. QED
      BY <1>14, <1>15, <2>2, <3>1 DEF x
  <2>3. CASE i # size + 1
    <3>1. i \in 1 .. size /\ i \in 0 .. BankCells - 1
      BY <1>2, <1>3, <2>1, <2>3
    <3>2. \A j \in 1 .. size : j <= Pieces[ram] =>
            mem[Base(b) + j] = Piece(Plus1(rev), ram, j)
      BY <1>1, <1>6, <1>15 DEF IInv, SavingOK
    <3>3. Base(b) + i \in Addr /\ Base(b) + i # Here
      BY <1>1, <1>2, <1>3, <3>1, BankAddresses
    <3>4. QED
      BY <1>8, <1>15, <3>1, <3>2, <3>3
  <2>4. QED
    BY <2>2, <2>3
<1>16. ASSUME ~sta', pc' = "write", has_erase
       PROVE  \A c \in Block(Here') : c >= Here' => mem'[c] = Erased
  <2>1. size' = size + 1 /\ Here' = Here + 1
    BY <1>2, <1>3, <1>11, <1>14, <1>16
  <2>2. ~StartsBlock(Here + 1)
    BY <1>11, <1>16, <2>1
  <2>3. Block(Here + 1) = Block(Here)
    BY <1>2, <2>2, NextInBlock DEF Block
  <2>4. \A c \in Block(Here) : c \in Addr /\ c \in Int
    BY DEF Block, Addr
  <2>5. QED
    BY <1>2, <1>8, <1>13, <1>16, <2>1, <2>3, <2>4
<1>17. SavingOK'
  <2>1. pc' # "close" => size' < Pieces[ram]
    BY <1>3, <1>11
  <2>2. QED
    BY <1>1, <1>3, <1>5, <1>10, <1>11, <1>15, <1>16, <2>1 DEF SavingOK
<1>18. UNCHANGED Store!vars
  BY <1>1, <1>11 DEF Store!vars
<1>19. QED
  BY <1>1, <1>10, <1>12, <1>17, <1>18, StaysSpared DEF IInv

(* A save that succeeds is what loads find from then on. *)
LEMMA CloseSaveStep ==
  ASSUME FilesFit, IInv, CloseSave, UNCHANGED has_erase
  PROVE  IInv' /\ (Store!Saved \/ Store!NotSaved)
<1> DEFINE b == SaveBank
           h == Header(Plus1(rev), ram)
<1>1. /\ TypeOK /\ pc = "close" /\ mem \in Memory /\ b \in Bank
      /\ pc' = "ready" /\ ram' = ram /\ size' = size /\ sta' = sta
      /\ readFaults' = readFaults /\ has_erase' = has_erase
      /\ rev \in Rev /\ Plus1(rev) \in Rev /\ Plus1(rev) % 2 = b
      /\ ram \in Values
  BY SaveBankProps DEF IInv, TypeOK, CloseSave, Memory
<1>2. PICK ok \in BOOLEAN :
        /\ flash_write(Base(b), h, ok)
        /\ \/ /\ ok /\ ~sta
              /\ rev' = Plus1(rev)
              /\ rtn' = 0
              /\ durable' = {ram}
           \/ /\ ~ok \/ sta
              /\ rtn' = -1
              /\ UNCHANGED << rev, durable >>
  BY DEF CloseSave
<1>3. /\ mem' \in PartlyWritten(Base(b), h) \cup {AfterWrite(Base(b), h)}
      /\ ok => mem' = AfterWrite(Base(b), h)
      /\ faults' \in 0 .. MaxFaults
  BY <1>1, <1>2, ConstantsOK DEF flash_write, TypeOK
<1>4. /\ mem' \in Memory /\ Spares(mem')
      /\ ok /\ ~sta => /\ GoodIn(mem', b) /\ RevIn(mem', b) = Plus1(rev)
                       /\ FoundIn(mem', b) = ram /\ Found(mem') = ram
  BY <1>1, <1>3, CloseEffect
<1>5. SavingOK'
  BY <1>1 DEF SavingOK
<1>6. CASE ok /\ ~sta
  <2>1. rev' = Plus1(rev) /\ rtn' = 0 /\ durable' = {ram}
    BY <1>2, <1>6
  <2>2. TypeOK'
    BY <1>1, <1>3, <1>4, <2>1 DEF TypeOK, Memory
  <2>3. SaveBank' = 1 - b
    <3>1. SaveBank' = (Plus1(rev) + 1) % 2 /\ Plus1(rev) \in Int
      BY <1>1, <2>1, ConstantsOK DEF SaveBank, Rev
    <3> HIDE DEF b
    <3>2. QED
      BY <1>1, <3>1 DEF Bank
  <2>4. 1 - (1 - b) = b
    BY <1>1 DEF Bank
  <2>5. BanksOK(mem') /\ Found(mem') \in durable'
    BY <1>4, <1>6, <2>1 DEF Spares
  <2>6. CallerOK'
    BY <1>4, <1>6, <2>1, <2>3, <2>4 DEF CallerOK, Good, FileRev
  <2>7. Store!Saved
    BY <1>1, <2>1 DEF Store!Saved
  <2>8. QED
    BY <1>5, <2>2, <2>5, <2>6, <2>7 DEF IInv
<1>7. CASE ~ok \/ sta
  <2>1. rev' = rev /\ rtn' = -1 /\ durable' = durable
    BY <1>2, <1>7
  <2>2. TypeOK'
    BY <1>1, <1>3, <1>4, <2>1 DEF TypeOK, Memory
  <2>3. Store!NotSaved
    BY <1>1, <2>1 DEF Store!NotSaved
  <2>4. QED
    BY <1>4, <1>5, <2>1, <2>2, <2>3, StaysSpared DEF IInv
<1>8. QED
  BY <1>6, <1>7, <1>1 DEF TypeOK

(***************************************************************************)
(* A load that can read finds no file, or the newer of the good ones.      *)
(***************************************************************************)
LEMMA LoadFinds ==
  ASSUME mem \in Memory, Load(NoFault)
  PROVE  \/ /\ ~GoodIn(mem, 0) /\ ~GoodIn(mem, 1)
            /\ Found(mem) = NoValue
            /\ rev' = rev /\ ram' \in Values /\ rtn' = -1
            /\ durable' = {NoValue}
         \/ \E b \in Bank :
              /\ GoodIn(mem, b)
              /\ Found(mem) = FoundIn(mem, b)
              /\ rev' = RevIn(mem, b)
              /\ \/ /\ mem[Base(b)] # Zeroed
                    /\ ram' = FoundIn(mem, b) /\ rtn' = 0
                    /\ durable' = {ram'}
                 \/ /\ mem[Base(b)] = Zeroed
                    /\ ram' \in Values /\ rtn' = -1
                    /\ durable' = {NoValue}
<1> DEFINE good == [b \in Bank |-> /\ Good(b)
                                   /\ NoFault # [at |-> "verify", bank |-> b]]
           r == [b \in Bank |-> IF NoFault = [at |-> "first", bank |-> b]
                                THEN RevMod - 1
                                ELSE IF good[b] THEN FileRev(b) ELSE 0]
           use == UseBank(good, r)
           parsed == /\ use # -1
                     /\ mem[Base(use)] # Zeroed
                     /\ NoFault.at # "parse"
<1>1. /\ rev' = IF use = -1 THEN rev ELSE r[use]
      /\ \/ /\ parsed
            /\ ram' = mem[Base(use)].value
            /\ rtn' = 0
         \/ /\ ~parsed
            /\ ram' \in Values
            /\ rtn' = -1
      /\ durable' = {IF parsed THEN ram' ELSE NoValue}
  BY DEF Load
<1>2. \A b : /\ NoFault # [at |-> "verify", bank |-> b]
             /\ NoFault # [at |-> "first", bank |-> b]
  <2>1. \A b : /\ [at |-> "verify", bank |-> b].at = "verify"
               /\ [at |-> "first", bank |-> b].at = "first"
    OBVIOUS
  <2>2. NoFault.at = "none"
    BY DEF NoFault
  <2>3. QED
    BY <2>1, <2>2
<1>3. NoFault.at # "parse"
  BY DEF NoFault
<1>4. /\ good[0] <=> GoodIn(mem, 0)
      /\ good[1] <=> GoodIn(mem, 1)
  BY <1>2 DEF Good, Bank
<1>5. /\ GoodIn(mem, 0) => r[0] = RevIn(mem, 0)
      /\ GoodIn(mem, 1) => r[1] = RevIn(mem, 1)
  BY <1>2, <1>4 DEF FileRev, Bank
<1> HIDE DEF good, r
<1>6. \/ use = -1 /\ ~GoodIn(mem, 0) /\ ~GoodIn(mem, 1)
      \/ use = 0 /\ GoodIn(mem, 0) /\ Found(mem) = FoundIn(mem, 0)
      \/ use = 1 /\ GoodIn(mem, 1) /\ Found(mem) = FoundIn(mem, 1)
  BY <1>4, <1>5, FoundIs DEF UseBank
<1>7. parsed <=> use # -1 /\ mem[Base(use)] # Zeroed
  BY <1>3
<1> HIDE DEF use, parsed
<1>8. CASE use = -1
  BY <1>1, <1>6, <1>7, <1>8, FoundIs
<1>9. ASSUME NEW b \in Bank, use = b
      PROVE  /\ GoodIn(mem, b)
             /\ Found(mem) = FoundIn(mem, b)
             /\ rev' = RevIn(mem, b)
             /\ \/ /\ mem[Base(b)] # Zeroed
                   /\ ram' = FoundIn(mem, b) /\ rtn' = 0
                   /\ durable' = {ram'}
                \/ /\ mem[Base(b)] = Zeroed
                   /\ ram' \in Values /\ rtn' = -1
                   /\ durable' = {NoValue}
  <2>1. GoodIn(mem, b) /\ Found(mem) = FoundIn(mem, b) /\ b # -1
    BY <1>6, <1>9 DEF Bank
  <2>2. r[b] = RevIn(mem, b)
    BY <1>5, <2>1 DEF Bank
  <2>3. parsed <=> mem[Base(b)] # Zeroed
    BY <1>7, <1>9, <2>1
  <2>4. mem[Base(b)] # Zeroed => FoundIn(mem, b) = mem[Base(b)].value
    BY <2>1, GoodFile
  <2>5. QED
    BY <1>1, <1>9, <2>1, <2>2, <2>3, <2>4
<1>10. use \in Bank \/ use = -1
  BY <1>6 DEF Bank
<1>11. QED
  BY <1>8, <1>9, <1>10

LEMMA LoadStep ==
  ASSUME NoReadFaults, IInv, nk_dbase_load, UNCHANGED has_erase
  PROVE  IInv' /\ Store!Load
<1>1. /\ TypeOK /\ mem \in Memory /\ BanksOK(mem) /\ Found(mem) \in durable
      /\ rev \in Rev
  BY DEF IInv, TypeOK, Memory
<1>2. /\ pc \in {"boot", "ready"} /\ pc' = "ready" /\ mem' = mem
      /\ size' = size /\ sta' = sta /\ faults' = faults
      /\ has_erase' = has_erase
  BY DEF nk_dbase_load
<1>3. Load(NoFault) /\ readFaults' = readFaults
  BY <1>1 DEF nk_dbase_load, NoReadFaults, TypeOK
<1>4. SavingOK'
  BY <1>2 DEF SavingOK
<1>5. CASE /\ ~GoodIn(mem, 0) /\ ~GoodIn(mem, 1)
           /\ Found(mem) = NoValue
           /\ rev' = rev /\ ram' \in Values /\ rtn' = -1
           /\ durable' = {NoValue}
  <2>1. TypeOK'
    BY <1>1, <1>2, <1>3, <1>5 DEF TypeOK
  <2>2. SaveBank' = SaveBank /\ 1 - SaveBank \in Bank
    BY <1>1, <1>5, SaveBankProps DEF SaveBank
  <2>3. ~GoodIn(mem, 1 - SaveBank)
    BY <1>5, <2>2 DEF Bank
  <2>4. FoundIn(mem, 1 - SaveBank) = NoValue
    BY <2>3 DEF FoundIn
  <2>5. CallerOK'
    BY <1>2, <1>5, <2>2, <2>3, <2>4 DEF CallerOK, Good
  <2>6. Store!Load
    BY <1>1, <1>2, <1>5 DEF Store!Load
  <2>7. QED
    BY <1>1, <1>2, <1>4, <1>5, <2>1, <2>5, <2>6 DEF IInv
<1>6. ASSUME NEW b \in Bank,
             GoodIn(mem, b),
             Found(mem) = FoundIn(mem, b),
             rev' = RevIn(mem, b),
             \/ /\ mem[Base(b)] # Zeroed
                /\ ram' = FoundIn(mem, b) /\ rtn' = 0
                /\ durable' = {ram'}
             \/ /\ mem[Base(b)] = Zeroed
                /\ ram' \in Values /\ rtn' = -1
                /\ durable' = {NoValue}
      PROVE  IInv' /\ Store!Load
  <2>1. /\ rev' \in Rev
        /\ mem[Base(b)] = Zeroed =>
             FoundIn(mem, b) = NoValue /\ rev' = RevMod - 1
        /\ mem[Base(b)] # Zeroed =>
             /\ FoundIn(mem, b) \in Values
             /\ mem[Base(b)] \notin {Erased, Zeroed, Junk}
             /\ rev' = mem[Base(b)].rev
    BY <1>1, <1>6, GoodFile DEF FoundIn
  <2>2. durable' = {Found(mem)} /\ ram' \in Values
    BY <1>6, <2>1
  <2>3. TypeOK'
    <3>1. rtn' \in {0, -1}
      BY <1>6
    <3>2. durable' \subseteq Values \cup {NoValue}
      BY <1>6, <2>1, <2>2
    <3>3. QED
      BY <1>1, <1>2, <1>3, <2>1, <2>2, <3>1, <3>2 DEF TypeOK
  <2>4. SaveBank' = 1 - (rev' % 2) /\ 1 - SaveBank' = rev' % 2
    <3>1. rev' \in Int
      BY <2>1, ConstantsOK DEF Rev
    <3>2. SaveBank' = (rev' + 1) % 2
      BY DEF SaveBank
    <3>3. QED
      BY <3>1, <3>2
  <2>5. CASE mem[Base(b)] # Zeroed
    <3>1. 1 - SaveBank' = b
      BY <1>1, <2>1, <2>4, <2>5 DEF BanksOK
    <3>2. CallerOK'
      BY <1>2, <1>6, <2>2, <3>1 DEF CallerOK, Good, FileRev
    <3>3. Store!Load
      <4>1. FoundIn(mem, b) # NoValue
        BY <2>1, <2>5, ConstantsOK
      <4>2. QED
        BY <1>1, <1>2, <1>6, <2>2, <2>5, <4>1 DEF Store!Load
    <3>4. QED
      BY <1>1, <1>2, <1>4, <2>2, <2>3, <3>2, <3>3 DEF IInv
  <2>6. CASE mem[Base(b)] = Zeroed
    <3>1. 1 - SaveBank' = 1
      BY <2>1, <2>4, <2>6, ConstantsOK
    <3>2. mem[Base(1)] = Zeroed
      BY <1>1, <2>6 DEF BanksOK, Bank
    <3>3. RevIn(mem, 1) = rev' /\ FoundIn(mem, 1) = NoValue
      BY <2>1, <2>6, <3>2 DEF RevIn, FoundIn
    <3>4. CallerOK'
      BY <1>2, <1>6, <2>2, <2>1, <2>6, <3>1, <3>3
      DEF CallerOK, Good, FileRev
    <3>5. Store!Load
      BY <1>1, <1>2, <1>6, <2>1, <2>2, <2>6 DEF Store!Load
    <3>6. QED
      BY <1>1, <1>2, <1>4, <2>2, <2>3, <3>4, <3>5 DEF IInv
  <2>7. QED
    BY <2>5, <2>6
<1>7. QED
  BY <1>1, <1>3, <1>5, <1>6, LoadFinds

(* A reset may cut off the operation that comes next at any point. *)
LEMMA ResetStep ==
  ASSUME FilesFit, IInv, Reset, UNCHANGED has_erase
  PROVE  IInv' /\ Store!Reset
<1> DEFINE b == SaveBank
<1>1. /\ TypeOK /\ mem \in Memory /\ BanksOK(mem) /\ Found(mem) \in durable
      /\ b \in Bank /\ rev \in Rev /\ Plus1(rev) \in Rev /\ ram \in Values
      /\ size \in Nat
  BY SaveBankProps DEF IInv, TypeOK, Memory
<1>2. /\ pc' = "boot" /\ rev' = 0 /\ ram' \in Values /\ size' = 0
      /\ sta' = FALSE /\ rtn' = 0 /\ durable' = durable
      /\ faults' = faults /\ readFaults' = readFaults
      /\ has_erase' = has_erase
  BY DEF Reset
<1>3. mem' \in Memory /\ BanksOK(mem') /\ Found(mem') \in durable
  <2>1. CASE pc = "boot"
    BY <1>1, <2>1 DEF Reset
  <2>2. CASE pc = "ready"
    <3>1. mem' \in IF has_erase THEN PartlyErased(Base(b))
                   ELSE PartlyWritten(Base(b), Erased)
      BY <2>2 DEF Reset
    <3>2. QED
      BY <2>2, <3>1, OpenEffect DEF Spares
  <2>3. CASE pc = "erase"
    <3>1. mem' \in PartlyErased(Here)
      BY <2>3 DEF Reset
    <3>2. /\ 1 + size \in 0 .. BankCells - 1 /\ 1 + size \in Nat \ {0}
          /\ Here = Base(b) + (1 + size) /\ StartsBlock(Here)
      BY <2>3, HereInBank DEF IInv, SavingOK
    <3>3. mem' \in Memory /\ Touches(mem', b, 1 + size)
      BY <1>1, <3>1, <3>2, EraseEffect
    <3>4. QED
      BY <2>3, <3>2, <3>3, PieceEffect DEF Spares
  <2>4. CASE pc = "write"
    <3> DEFINE x == Piece(Plus1(rev), ram, size + 1)
    <3>1. mem' \in PartlyWritten(Here, x)
      BY <2>4 DEF Reset
    <3>2. /\ 1 + size \in 0 .. BankCells - 1 /\ 1 + size \in Nat \ {0}
          /\ Here = Base(b) + (1 + size) /\ Here \in Addr
          /\ Base(b) \in Nat /\ BankCells \in Nat
      BY <1>1, <2>4, HereInBank, BankAddresses, ConstantsOK
    <3>3. x \in Cell
      BY <1>1, WrittenCells
    <3> HIDE DEF x
    <3>4. mem' \in Memory /\ \A c \in Addr : c # Here => mem'[c] = mem[c]
      BY <1>1, <3>1, <3>2, <3>3, WriteEffect
    <3>5. Touches(mem', b, 1 + size)
      BY <1>1, <3>2, <3>4 DEF Touches
    <3>6. QED
      BY <2>4, <3>2, <3>4, <3>5, PieceEffect DEF Spares
  <2>5. CASE pc = "close"
    <3>1. mem' \in PartlyWritten(Base(b), Header(Plus1(rev), ram))
      BY <2>5 DEF Reset
    <3>2. QED
      BY <2>5, <3>1, CloseEffect DEF Spares
  <2>6. QED
    BY <1>1, <2>1, <2>2, <2>3, <2>4, <2>5 DEF TypeOK
<1>4. TypeOK'
  <2>1. 0 \in Rev
    BY ConstantsOK DEF Rev
  <2>2. QED
    BY <1>1, <1>2, <1>3, <2>1 DEF TypeOK, Memory
<1>5. CallerOK' /\ SavingOK'
  BY <1>2 DEF CallerOK, SavingOK
<1>6. Store!Reset
  BY <1>2 DEF Store!Reset
<1>7. QED
  BY <1>2, <1>3, <1>4, <1>5, <1>6 DEF IInv

LEMMA StutterStep ==
  ASSUME IInv, UNCHANGED vars
  PROVE  IInv' /\ UNCHANGED Store!vars
<1>1. TypeOK'
  BY DEF IInv, TypeOK, vars
<1>2. SaveBank' = SaveBank /\ Here' = Here
  BY DEF vars, SaveBank, Here
<1>3. CallerOK'
  BY <1>2 DEF IInv, CallerOK, Good, FileRev, vars
<1>4. SavingOK'
  BY <1>2 DEF IInv, SavingOK, vars
<1>5. QED
  BY <1>1, <1>3, <1>4 DEF IInv, vars, Store!vars

(***************************************************************************)
(* Every step keeps the invariant and is a step of the abstract store or   *)
(* none at all.                                                            *)
(***************************************************************************)
LEMMA EveryStep ==
  ASSUME FilesFit, NoReadFaults, IInv, [Next]_vars
  PROVE  IInv' /\ [Store!Next]_(Store!vars)
<1>1. CASE Edit /\ UNCHANGED has_erase
  BY <1>1, EditStep DEF Store!Next
<1>2. CASE OpenSave /\ UNCHANGED has_erase
  BY <1>2, OpenSaveStep DEF Store!Next
<1>3. CASE EraseBlock /\ UNCHANGED has_erase
  BY <1>3, EraseBlockStep
<1>4. CASE WritePiece /\ UNCHANGED has_erase
  BY <1>4, WritePieceStep
<1>5. CASE CloseSave /\ UNCHANGED has_erase
  BY <1>5, CloseSaveStep DEF Store!Next
<1>6. CASE nk_dbase_load /\ UNCHANGED has_erase
  BY <1>6, LoadStep DEF Store!Next
<1>7. CASE Reset /\ UNCHANGED has_erase
  BY <1>7, ResetStep DEF Store!Next
<1>8. CASE UNCHANGED vars
  BY <1>8, StutterStep
<1>9. QED
  BY <1>1, <1>2, <1>3, <1>4, <1>5, <1>6, <1>7, <1>8 DEF Next, Step

-----------------------------------------------------------------------------
(* Theorems *)

(***************************************************************************)
(* The inductive invariant of a database whose files fit into their banks, *)
(* on a memory that can be read.                                           *)
(***************************************************************************)
THEOREM DatabaseInvariant ==
  ASSUME FilesFit, NoReadFaults
  PROVE  Spec => []IInv
<1>1. Init => IInv
  BY InitInv
<1>2. IInv /\ [Next]_vars => IInv'
  BY EveryStep
<1>3. QED
  BY <1>1, <1>2, PTL DEF Spec

(* The variables of the save and the memory have their types. *)
THEOREM TypeCorrect ==
  ASSUME FilesFit, NoReadFaults
  PROVE  Spec => []TypeOK
<1>1. IInv => TypeOK
  BY DEF IInv
<1>2. QED
  BY <1>1, DatabaseInvariant, PTL

(***************************************************************************)
(* Once a save has succeeded there is always a bank with a good file,      *)
(* whatever fails and wherever the power fails.                            *)
(***************************************************************************)
THEOREM OlderVersionKept ==
  ASSUME FilesFit, NoReadFaults
  PROVE  Spec => []OlderVersionPreserved
<1>1. ASSUME IInv, NoValue \notin durable
      PROVE  \E b \in Bank : Good(b) /\ mem[Base(b)] # Zeroed
  <2>1. Found(mem) # NoValue /\ mem \in Memory
    BY <1>1 DEF IInv, TypeOK, Memory
  <2>2. FoundIn(mem, 0) # NoValue \/ FoundIn(mem, 1) # NoValue
    BY <2>1, FoundIs
  <2>3. QED
    BY <2>2 DEF FoundIn, Good, Bank
<1>2. IInv => OlderVersionPreserved
  BY <1>1 DEF OlderVersionPreserved
<1>3. QED
  BY <1>2, DatabaseInvariant, PTL

(***************************************************************************)
(* The database in flash implements the abstract store: a save takes       *)
(* effect as a whole or not at all, and loads never go back.               *)
(***************************************************************************)
THEOREM DatabaseImplementsStore ==
  ASSUME FilesFit, NoReadFaults
  PROVE  Spec => ImplementsStore
<1>1. Init => Store!Init
  BY InitInv
<1>2. IInv /\ [Next]_vars => [Store!Next]_(Store!vars)
  BY EveryStep
<1>3. QED
  BY <1>1, <1>2, DatabaseInvariant, PTL DEF Spec, Store!Spec, ImplementsStore
=============================================================================
