---------------------------- MODULE NkLcd_proofs ----------------------------
(***************************************************************************)
(* Proofs about the character displays, for both drivers, every number of  *)
(* cells, every text and any number of writes that fail and of resets.     *)
(***************************************************************************)
EXTENDS NkLcd, NkLemmas

-----------------------------------------------------------------------------
(* The displays: what a call writes *)

(* a byte that is sent, and whether it is waited for *)
Item(rs, byte, waits) == [rs |-> rs, byte |-> byte, waits |-> waits]

(* how many writes it takes, and the p-th of them *)
Per(to) == IF to = "aip31068" THEN 1 ELSE 4

WriteOf(to, x, bl, p) ==
  IF to = "aip31068" THEN BusWrite(FALSE, Reg(x.rs, x.byte, bl), x.waits)
  ELSE BusWrite(p \in {1, 3},
                Reg(x.rs, IF p <= 2 THEN x.byte \div 16 ELSE x.byte % 16, bl),
                p = 4 /\ x.waits)

(* the command that a call sends *)
Command(a) ==
  IF a.op = "cls" THEN Item(FALSE, CLS, TRUE)
  ELSE IF a.op = "home" THEN Item(FALSE, HOME, CarefulHome)
  ELSE IF a.op = "pos" THEN Item(FALSE, DDRAM + a.arg, FALSE)
  ELSE Item(FALSE, DISPLAY + (IF a.flag THEN 4 ELSE 0), FALSE)

(* the bytes that an initialisation sends, after the four pulses that an    *)
(* expander begins with                                                     *)
FuncItem(to) == IF to = "aip31068" THEN Item(FALSE, FUNC + FUNC_DL, TRUE)
                ELSE Item(FALSE, FUNC, FALSE)
Funcs(to) ==
  LET x == FuncItem(to)
  IN  IF to = "aip31068"
      THEN Append(Append(Append(<< >>, x), x), x) ELSE Append(<< >>, x)
WithStart(q) ==
  Append(Append(Append(q, Item(FALSE, DISPLAY, FALSE)),
                Item(FALSE, CLS, TRUE)),
         Item(FALSE, DISPLAY_ON, FALSE))
StartItems(to) == WithStart(Funcs(to))

(* the bytes that the call a sends *)
Items(to, a) ==
  IF a.op = "init" THEN StartItems(to)
  ELSE IF a.op = "write"
  THEN [k \in 1 .. Len(a.data) |-> Item(TRUE, a.data[k], FALSE)]
  ELSE IF a.op \in {"cls", "home", "pos", "mode"} THEN << Command(a) >>
  ELSE << >>

(* how many writes are left when the p-th of the k-th of n bytes is next *)
Back(to, n, k, p) == IF to = "aip31068" THEN n - k + 1 ELSE 4 * (n - k) + 5 - p

(* the writes s end with those of the bytes q, or are the last of them *)
Spells(s, to, q, bl) ==
  \A k \in 1 .. Len(q), p \in 1 .. Per(to) :
    Back(to, Len(q), k, p) <= Len(s) =>
      s[Len(s) - Back(to, Len(q), k, p) + 1] = WriteOf(to, q[k], bl, p)

(* the 24 writes of an initialisation of an expander begin with four pulses *)
Pulses(s, bl) ==
  \A m \in 17 .. 24 :
    m <= Len(s) =>
      s[Len(s) - m + 1] =
        BusWrite(m % 2 = 0, Reg(FALSE, IF m <= 18 THEN 2 ELSE 3, bl), m = 23)

-----------------------------------------------------------------------------
(* The displays: the invariant *)

CallType ==
  [op : {"idle", "init", "cls", "home", "pos", "mode", "backlight", "write"},
   arg : 0 .. Cells - 1, flag : BOOLEAN, data : Seq(0 .. 255)]

WriteType ==
  [e : BOOLEAN, rs : BOOLEAN, value : 0 .. 255, light : BOOLEAN,
   waits : BOOLEAN]

DisplayType ==
  [bits8 : BOOLEAN, half : Nibble \cup {None}, addr : 0 .. Cells - 1,
   cgram : BOOLEAN, text : [0 .. Cells - 1 -> 0 .. 255], on : BOOLEAN,
   busy : BOOLEAN]

PinsType ==
  [e : BOOLEAN, rs : BOOLEAN, value : Nibble, light : BOOLEAN]

RegType ==
  [e : {FALSE}, rs : BOOLEAN, value : Nibble, light : BOOLEAN]

(* in 8-bit mode there are no halves *)
Whole(c) == c.bits8 => c.half = None

(* types, and that the I2C version of the chip has no pins *)
LcdTypes ==
  /\ wire \in Wires
  /\ lcd \in DisplayType /\ Whole(lcd)
  /\ pins \in PinsType /\ regval \in RegType
  /\ asked \in CallType /\ (asked.op = "home" => asked.arg = 0)
  /\ todo \in Seq(WriteType)
  /\ rtn \in {0, 1} /\ trusted \in BOOLEAN
  /\ lcdfaults \in 0 .. MaxLcdFaults
  /\ wire = "aip31068" =>
       /\ pins = Low /\ regval = Low /\ lcd.half = None
       /\ asked.op # "backlight" /\ (asked.op = "init" => ~asked.flag)

(* the backlight that a call writes *)
LightOf(a, reg) == IF a.op = "init" THEN a.flag ELSE reg.light

(* what is left of the call a *)
LeftOf(s, to, a, reg) ==
  /\ Spells(s, to, Items(to, a), LightOf(a, reg))
  /\ a.op = "backlight" =>
       /\ Len(s) <= 1
       /\ Len(s) = 1 =>
            s[1] = BusWrite(FALSE, Reg(reg.rs, reg.value, a.flag), FALSE)
  /\ a.op = "init" /\ to = "lcd8574" => Len(s) <= 24 /\ Pulses(s, a.flag)
  /\ a.op # "backlight" /\ ~(a.op = "init" /\ to = "lcd8574") =>
       Len(s) <= Per(to) * Len(Items(to, a))

(* the display c with the pins ps when the p-th write of the byte x is next *)
AtWrite(c, ps, x, p) ==
  /\ ~c.bits8
  /\ c.half = IF p <= 2 THEN None ELSE x.byte \div 16
  /\ ps.e = (p \in {2, 4})
  /\ p = 2 => ps.rs = x.rs /\ ps.value = x.byte \div 16
  /\ p = 4 => ps.rs = x.rs /\ ps.value = x.byte % 16

(* between two bytes *)
AtRest(c, ps) == ~c.bits8 /\ c.half = None /\ ~ps.e

(* when n writes are left of the 24, n more than 16 *)
AtPulse(c, ps, n) ==
  /\ n \in 17 .. 18 => c.bits8
  /\ n \in 19 .. 20 => c.bits8 \/ c.half = 3
  /\ n \in 21 .. 22 => c.bits8 \/ c.half \in {None, 3}
  /\ n \in {17, 19, 21, 23} =>
       ps.e /\ ~ps.rs /\ ps.value = IF n <= 18 THEN 2 ELSE 3

(* what an initialisation has done when n writes are left *)
Blanked(to, a, c, ps, n) ==
  /\ n <= Per(to) => c.text = BlankCells /\ c.addr = 0 /\ ~c.cgram
  /\ n = 0 => c.on /\ ps.light = a.flag

(* the display when n writes of a call are left that has not failed *)
GoodAt(to, a, c, ps, reg, n) ==
  /\ ~c.busy
  /\ IF a.op = "init" THEN Blanked(to, a, c, ps, n) ELSE ~c.cgram
  /\ (a.op = "init" /\ n = 24) \/ ps.light = reg.light
  /\ to = "lcd8574" =>
       /\ n = 0 \/ a.op = "backlight" => AtRest(c, ps)
       /\ \A k \in 1 .. Len(Items(to, a)), p \in 1 .. 4 :
            n = Back(to, Len(Items(to, a)), k, p) =>
              AtWrite(c, ps, Items(to, a)[k], p)
       /\ a.op = "init" => AtPulse(c, ps, n)

(* The inductive invariant. *)
LcdInv ==
  /\ LcdTypes
  /\ LeftOf(todo, wire, asked, regval)
  /\ trusted /\ asked.op = "init" => todo = << >>
  /\ rtn = 0 /\ (trusted \/ asked.op = "init") =>
       GoodAt(wire, asked, lcd, pins, regval, Len(todo))

-----------------------------------------------------------------------------
(* The displays: writes *)

(* f joins the first sequences of seqs, one after the other *)
Joins(f, seqs, n) ==
  f = [i \in 1 .. n |-> IF i = 1 THEN seqs[i] ELSE f[i - 1] \o seqs[i]]

(* Sequences can be joined. *)
LEMMA JoinsExist ==
  ASSUME NEW seqs, NEW n \in Nat
  PROVE  \E f : Joins(f, seqs, n)
<1> DEFINE S == {i \in Nat : \E f : Joins(f, seqs, i)}
<1>1. 0 \in S
  <2> DEFINE f == [k \in 1 .. 0 |-> seqs[k]]
  <2>1. f = [k \in 1 .. 0 |-> IF k = 1 THEN seqs[k] ELSE f[k - 1] \o seqs[k]]
    OBVIOUS
  <2> HIDE DEF f
  <2>2. Joins(f, seqs, 0)
    BY <2>1 DEF Joins
  <2>3. QED
    BY <2>2
<1>2. ASSUME NEW i \in Nat, i \in S PROVE i + 1 \in S
  <2>1. PICK f : Joins(f, seqs, i)
    BY <1>2
  <2> DEFINE h == [k \in 1 .. i + 1 |->
                     IF k = 1 THEN seqs[k]
                     ELSE IF k = i + 1 THEN f[i] \o seqs[k] ELSE f[k]]
  <2>2. ASSUME NEW k \in 1 .. i + 1
        PROVE  h[k] = IF k = 1 THEN seqs[k] ELSE h[k - 1] \o seqs[k]
    <3>1. CASE k = 1
      BY <3>1
    <3>2. CASE k # 1 /\ k = i + 1
      <4>1. h[k] = f[i] \o seqs[k]
        BY <3>2
      <4>2. i \in 1 .. i /\ i \in 1 .. i + 1 /\ i # i + 1 /\ k - 1 = i
        BY <3>2
      <4>3. h[i] = f[i]
        <5>1. CASE i = 1
          <6>1. f[i] = seqs[i]
            BY <2>1, <4>2, <5>1 DEF Joins
          <6>2. QED
            BY <4>2, <5>1, <6>1
        <5>2. CASE i # 1
          BY <4>2, <5>2
        <5>3. QED
          BY <5>1, <5>2
      <4>4. QED
        BY <3>2, <4>1, <4>2, <4>3
    <3>3. CASE k # 1 /\ k # i + 1
      <4>1. k \in 1 .. i /\ k - 1 \in 1 .. i /\ k - 1 \in 1 .. i + 1
            /\ k - 1 # i + 1
        BY <3>3
      <4>2. h[k] = f[k]
        BY <3>3
      <4>3. f[k] = f[k - 1] \o seqs[k]
        BY <2>1, <3>3, <4>1 DEF Joins
      <4>4. h[k - 1] = f[k - 1]
        <5>1. CASE k - 1 = 1
          <6>1. f[k - 1] = seqs[k - 1]
            BY <2>1, <4>1, <5>1 DEF Joins
          <6>2. QED
            BY <4>1, <5>1, <6>1
        <5>2. CASE k - 1 # 1
          BY <4>1, <5>2
        <5>3. QED
          BY <5>1, <5>2
      <4>5. QED
        BY <3>3, <4>2, <4>3, <4>4
    <3>4. QED
      BY <3>1, <3>2, <3>3
  <2>3. h = [k \in 1 .. i + 1 |-> h[k]]
    OBVIOUS
  <2> HIDE DEF h
  <2>4. Joins(h, seqs, i + 1)
    BY <2>2, <2>3 DEF Joins
  <2>5. QED
    BY <2>4
<1> HIDE DEF S
<1>3. Nat \subseteq S
  BY <1>1, <1>2, NatInductive
<1>4. QED
  BY <1>3 DEF S

(* FlattenSeq joins them all. *)
LEMMA FlattenIs ==
  ASSUME NEW seqs, Len(seqs) \in Nat \ {0}
  PROVE  \E f : Joins(f, seqs, Len(seqs)) /\ FlattenSeq(seqs) = f[Len(seqs)]
<1> DEFINE e(h) == [i \in 1 .. Len(seqs) |->
                      IF i = 1 THEN seqs[i] ELSE h[i - 1] \o seqs[i]]
           f == CHOOSE h : h = e(h)
<1>1. \E h : h = e(h)
  BY JoinsExist DEF Joins
<1>2. f = e(f)
  BY <1>1
<1>3. FlattenSeq(seqs) = f[Len(seqs)]
  BY DEF FlattenSeq
<1> HIDE DEF f
<1>4. Joins(f, seqs, Len(seqs))
  BY <1>2 DEF Joins
<1>5. QED
  BY <1>3, <1>4

(* the bytes that are sent, with whether they are waited for *)
ItemType == [rs : BOOLEAN, byte : 0 .. 255, waits : BOOLEAN]

(* The writes of a byte, and their type. *)
LEMMA WriteOfType ==
  ASSUME NEW to \in Wires, NEW x \in ItemType, NEW bl \in BOOLEAN,
         NEW p \in 1 .. Per(to)
  PROVE  /\ WriteOf(to, x, bl, p) \in WriteType
         /\ to = "lcd8574" => WriteOf(to, x, bl, p).value \in Nibble
<1>1. x.byte \in 0 .. 255 /\ x.rs \in BOOLEAN /\ x.waits \in BOOLEAN
  BY DEF ItemType
<1>2. x.byte \div 16 \in 0 .. 15 /\ x.byte % 16 \in 0 .. 15
  BY <1>1
<1> DEFINE v == IF to = "aip31068" THEN x.byte
                ELSE IF p <= 2 THEN x.byte \div 16 ELSE x.byte % 16
           e == IF to = "aip31068" THEN FALSE ELSE p \in {1, 3}
           w == IF to = "aip31068" THEN x.waits ELSE p = 4 /\ x.waits
<1>3. v \in 0 .. 255 /\ (to = "lcd8574" => v \in 0 .. 15)
  BY <1>1, <1>2 DEF Wires
<1>4. e \in BOOLEAN /\ w \in BOOLEAN
  <2>1. (p \in {1, 3}) \in BOOLEAN /\ (p = 4 /\ x.waits) \in BOOLEAN
    OBVIOUS
  <2>2. CASE to = "aip31068"
    BY <1>1, <2>2
  <2>3. CASE to # "aip31068"
    BY <2>1, <2>3
  <2>4. QED
    BY <2>2, <2>3
<1>5. WriteOf(to, x, bl, p) =
        [e |-> e, rs |-> x.rs, value |-> v, light |-> bl, waits |-> w]
  BY DEF WriteOf, BusWrite, Reg
<1> HIDE DEF v, e, w
<1>6. QED
  BY <1>1, <1>3, <1>4, <1>5 DEF WriteType, Nibble

(* Two and two writes are four. *)
LEMMA FourWrites ==
  ASSUME NEW A, NEW a \in A, NEW b \in A, NEW c \in A, NEW d \in A
  PROVE  LET s == << a, b >> \o << c, d >>
         IN  /\ s \in Seq(A) /\ Len(s) = 4
             /\ s[1] = a /\ s[2] = b /\ s[3] = c /\ s[4] = d
<1> DEFINE u == << a, b >>
           v == << c, d >>
           s == u \o v
<1>1. /\ u \in Seq(A) /\ Len(u) = 2 /\ u[1] = a /\ u[2] = b
      /\ v \in Seq(A) /\ Len(v) = 2 /\ v[1] = c /\ v[2] = d
  OBVIOUS
<1> HIDE DEF u, v
<1>2. /\ s \in Seq(A) /\ Len(s) = Len(u) + Len(v)
      /\ \A i \in 1 .. Len(u) : s[i] = u[i]
      /\ \A i \in 1 .. Len(v) : s[Len(u) + i] = v[i]
  <2>1. u \in Seq(A) /\ v \in Seq(A)
    BY <1>1
  <2>2. /\ u \o v \in Seq(A) /\ Len(u \o v) = Len(u) + Len(v)
        /\ \A i \in 1 .. Len(u) : (u \o v)[i] = u[i]
        /\ \A i \in 1 .. Len(v) : (u \o v)[Len(u) + i] = v[i]
    BY ONLY <2>1, ConcatProps
  <2>3. QED
    BY <2>2
<1> HIDE DEF s
<1>3. s[1] = a /\ s[2] = b
  BY <1>1, <1>2
<1>4. s[2 + 1] = c /\ s[2 + 2] = d
  BY <1>1, <1>2
<1>5. QED
  BY <1>1, <1>2, <1>3, <1>4 DEF s, u, v

(* A byte is sent by its writes. *)
LEMMA SendIs ==
  ASSUME NEW to \in Wires, NEW x \in ItemType, NEW bl \in BOOLEAN
  PROVE  LET s == send(to, x.rs, x.byte, bl, x.waits)
         IN  /\ s \in Seq(WriteType) /\ Len(s) = Per(to)
             /\ \A p \in 1 .. Per(to) : s[p] = WriteOf(to, x, bl, p)
<1> DEFINE s == send(to, x.rs, x.byte, bl, x.waits)
           w(p) == WriteOf(to, x, bl, p)
<1>1. CASE to = "aip31068"
  <2>1. Per(to) = 1
    BY <1>1 DEF Per
  <2>2. s = << w(1) >>
    BY <1>1 DEF send, WriteOf
  <2>3. 1 \in 1 .. Per(to)
    BY <2>1
  <2>4. w(1) \in WriteType
    BY <2>3, WriteOfType
  <2> HIDE DEF s, w
  <2>5. << w(1) >> \in Seq(WriteType) /\ Len(<< w(1) >>) = 1
        /\ << w(1) >>[1] = w(1)
    BY <2>4
  <2>6. \A p \in 1 .. Per(to) : p = 1
    BY <2>1
  <2>7. QED
    BY <2>1, <2>2, <2>5, <2>6 DEF s, w
<1>2. CASE to = "lcd8574"
  <2>1. Per(to) = 4 /\ to # "aip31068"
    BY <1>2 DEF Per
  <2>2. /\ w(1) = BusWrite(TRUE, Reg(x.rs, x.byte \div 16, bl), FALSE)
        /\ w(2) = BusWrite(FALSE, Reg(x.rs, x.byte \div 16, bl), FALSE)
        /\ w(3) = BusWrite(TRUE, Reg(x.rs, x.byte % 16, bl), FALSE)
        /\ w(4) = BusWrite(FALSE, Reg(x.rs, x.byte % 16, bl), x.waits)
    <3>1. x.waits \in BOOLEAN
      BY DEF ItemType
    <3>2. /\ (1 \in {1, 3}) = TRUE /\ (2 \in {1, 3}) = FALSE
          /\ (3 \in {1, 3}) = TRUE /\ (4 \in {1, 3}) = FALSE
          /\ 1 <= 2 /\ 2 <= 2 /\ ~ (3 <= 2) /\ ~ (4 <= 2)
      OBVIOUS
    <3>3. /\ (1 = 4 /\ x.waits) = FALSE /\ (2 = 4 /\ x.waits) = FALSE
          /\ (3 = 4 /\ x.waits) = FALSE /\ (4 = 4 /\ x.waits) = x.waits
      BY <3>1
    <3>4. QED
      BY <2>1, <3>2, <3>3, Zenon DEF WriteOf
  <2>3. /\ nk_lcd8574_pulse(Reg(x.rs, x.byte \div 16, bl), FALSE)
             = << w(1), w(2) >>
        /\ nk_lcd8574_pulse(Reg(x.rs, x.byte % 16, bl), x.waits)
             = << w(3), w(4) >>
    BY <2>2 DEF nk_lcd8574_pulse
  <2>4. s = << w(1), w(2) >> \o << w(3), w(4) >>
    BY <2>1, <2>3 DEF send
  <2>5. 1 \in 1 .. Per(to) /\ 2 \in 1 .. Per(to) /\ 3 \in 1 .. Per(to)
        /\ 4 \in 1 .. Per(to)
    BY <2>1
  <2>6. /\ w(1) \in WriteType /\ w(2) \in WriteType
        /\ w(3) \in WriteType /\ w(4) \in WriteType
    BY <2>5, WriteOfType
  <2> HIDE DEF s, w
  <2>7. /\ s \in Seq(WriteType) /\ Len(s) = 4
        /\ s[1] = w(1) /\ s[2] = w(2) /\ s[3] = w(3) /\ s[4] = w(4)
    BY <2>4, <2>6, FourWrites
  <2>8. ASSUME NEW p \in 1 .. Per(to) PROVE s[p] = w(p)
    <3>1. p = 1 \/ p = 2 \/ p = 3 \/ p = 4
      BY <2>1
    <3>2. QED
      BY <2>7, <3>1
  <2>9. QED
    BY <2>1, <2>7, <2>8 DEF s, w
<1>3. QED
  BY <1>1, <1>2 DEF Wires

(* Where a write is among those that are left. *)
LEMMA BackProps ==
  ASSUME NEW to \in Wires, NEW n \in Nat, NEW k \in 1 .. n,
         NEW p \in 1 .. Per(to)
  PROVE  /\ Back(to, n, k, p) \in 1 .. Per(to) * n
         /\ Back(to, n + 1, k, p) = Back(to, n, k, p) + Per(to)
         /\ Back(to, n, n, p) = Per(to) - p + 1
         /\ p < Per(to) => Back(to, n, k, p + 1) = Back(to, n, k, p) - 1
         /\ p = Per(to) => Back(to, n, k + 1, 1) = Back(to, n, k, p) - 1
<1>1. CASE to = "aip31068"
  BY <1>1 DEF Back, Per
<1>2. CASE to = "lcd8574"
  BY <1>2 DEF Back, Per
<1>3. QED
  BY <1>1, <1>2 DEF Wires

(* It has one place only. *)
LEMMA BackOnce ==
  ASSUME NEW to \in Wires, NEW n \in Nat,
         NEW k \in 1 .. n, NEW p \in 1 .. Per(to),
         NEW j \in 1 .. n, NEW q \in 1 .. Per(to),
         Back(to, n, k, p) = Back(to, n, j, q)
  PROVE  k = j /\ p = q
<1>1. CASE to = "aip31068"
  BY <1>1 DEF Back, Per
<1>2. CASE to = "lcd8574"
  BY <1>2 DEF Back, Per
<1>3. QED
  BY <1>1, <1>2 DEF Wires

(* Each of the writes that are left is one of a byte. *)
LEMMA Turn ==
  ASSUME NEW to \in Wires, NEW n \in Nat, NEW m \in 1 .. Per(to) * n
  PROVE  \E k \in 1 .. n, p \in 1 .. Per(to) : Back(to, n, k, p) = m
<1>1. CASE to = "aip31068"
  <2>1. Per(to) = 1
    BY <1>1 DEF Per
  <2>2. n - m + 1 \in 1 .. n /\ n - (n - m + 1) + 1 = m
    BY <2>1
  <2>3. Back(to, n, n - m + 1, 1) = m
    BY <1>1, <2>2 DEF Back
  <2>4. QED
    BY <2>1, <2>2, <2>3
<1>2. CASE to = "lcd8574"
  <2>1. Per(to) = 4
    BY <1>2 DEF Per
  <2> DEFINE k == n - ((m - 1) \div 4)
             p == 4 - ((m - 1) % 4)
  <2>2. k \in 1 .. n /\ p \in 1 .. 4 /\ 4 * (n - k) + 5 - p = m
    BY <2>1
  <2> HIDE DEF k, p
  <2>3. Back(to, n, k, p) = m
    BY <1>2, <2>2 DEF Back
  <2>4. QED
    BY <2>1, <2>2, <2>3
<1>3. QED
  BY <1>1, <1>2 DEF Wires

(* One write less of those that are left. *)
LEMMA SendsLess ==
  ASSUME NEW to \in Wires, NEW s \in Seq(WriteType), s # << >>,
         NEW q, Len(q) \in Nat, NEW bl, Spells(s, to, q, bl)
  PROVE  Spells(Tail(s), to, q, bl)
<1> DEFINE t == Tail(s)
           n == Len(q)
<1>1. /\ Len(s) \in Nat /\ Len(t) = Len(s) - 1
      /\ \A i \in 1 .. Len(t) : t[i] = s[i + 1]
  BY HeadTailProperties, LenProperties
<1> SUFFICES ASSUME NEW k \in 1 .. n, NEW p \in 1 .. Per(to),
                    Back(to, n, k, p) <= Len(t)
             PROVE  t[Len(t) - Back(to, n, k, p) + 1]
                      = WriteOf(to, q[k], bl, p)
  BY DEF Spells
<1> DEFINE b == Back(to, n, k, p)
<1>2. b \in Nat /\ b >= 1 /\ b <= Len(t) /\ b <= Len(s)
  <2>1. b \in 1 .. Per(to) * n /\ Per(to) * n \in Nat
    <3>1. n \in Nat
      OBVIOUS
    <3> HIDE DEF n
    <3>2. Per(to) * n \in Nat
      BY <3>1 DEF Per
    <3>3. QED
      BY <3>1, <3>2, BackProps
  <2> HIDE DEF b, t
  <2>2. b <= Len(t)
    BY DEF b, t
  <2>3. QED
    BY <1>1, <2>1, <2>2
<1>3. s[Len(s) - b + 1] = WriteOf(to, q[k], bl, p)
  BY <1>2 DEF Spells
<1> HIDE DEF t, b, n
<1>4. /\ Len(t) - b + 1 \in 1 .. Len(t)
      /\ (Len(t) - b + 1) + 1 = Len(s) - b + 1
  BY <1>1, <1>2
<1>5. t[Len(t) - b + 1] = s[(Len(t) - b + 1) + 1]
  BY <1>1, <1>4
<1>6. QED
  BY <1>3, <1>4, <1>5 DEF b, t, n

(* The next write. *)
LEMMA NextWrite ==
  ASSUME NEW to, NEW s, Len(s) \in Nat, NEW q, NEW bl, Spells(s, to, q, bl),
         NEW k \in 1 .. Len(q), NEW p \in 1 .. Per(to),
         Back(to, Len(q), k, p) = Len(s)
  PROVE  s[1] = WriteOf(to, q[k], bl, p)
<1>1. Len(s) - Len(s) + 1 = 1 /\ Len(s) <= Len(s)
  OBVIOUS
<1>2. QED
  BY <1>1 DEF Spells

(* t is s and the writes of one byte more *)
Longer(t, s, to, x, bl) == t = s \o send(to, x.rs, x.byte, bl, x.waits)

(* One byte more. *)
LEMMA SendsMore ==
  ASSUME NEW to \in Wires, NEW s \in Seq(WriteType), NEW q \in Seq(ItemType),
         NEW bl \in BOOLEAN, Spells(s, to, q, bl), NEW x \in ItemType, NEW t,
         Longer(t, s, to, x, bl)
  PROVE  /\ t \in Seq(WriteType) /\ Len(t) = Len(s) + Per(to)
         /\ \A i \in 1 .. Len(s) : t[i] = s[i]
         /\ Spells(t, to, Append(q, x), bl)
<1> DEFINE v == send(to, x.rs, x.byte, bl, x.waits)
           r == Append(q, x)
           n == Len(q)
           m == Len(s)
           w == Per(to)
<1>1. /\ v \in Seq(WriteType) /\ Len(v) = w
      /\ \A p \in 1 .. w : v[p] = WriteOf(to, x, bl, p)
  BY SendIs
<1>2. /\ n \in Nat /\ m \in Nat /\ w \in Nat
      /\ Len(r) = n + 1 /\ r[n + 1] = x /\ \A k \in 1 .. n : r[k] = q[k]
  BY AppendProperties, LenProperties DEF Per
<1>3. t = s \o v
  BY DEF Longer
<1> HIDE DEF v, r, w
<1>4. /\ t \in Seq(WriteType) /\ Len(t) = m + w
      /\ \A i \in 1 .. m : t[i] = s[i]
      /\ \A i \in 1 .. w : t[m + i] = v[i]
  <2>1. /\ s \o v \in Seq(WriteType) /\ Len(s \o v) = Len(s) + Len(v)
        /\ \A i \in 1 .. Len(s) : (s \o v)[i] = s[i]
        /\ \A i \in 1 .. Len(v) : (s \o v)[Len(s) + i] = v[i]
    BY ONLY <1>1, s \in Seq(WriteType), ConcatProps
  <2>2. QED
    BY ONLY <1>1, <1>3, <2>1
<1> HIDE DEF n, m
<1>5. ASSUME NEW k \in 1 .. n + 1, NEW p \in 1 .. w,
             Back(to, n + 1, k, p) <= m + w
      PROVE  t[(m + w) - Back(to, n + 1, k, p) + 1] = WriteOf(to, r[k], bl, p)
  <2> DEFINE b == Back(to, n, k, p)
  <2>1. CASE k \in 1 .. n
    <3>1. /\ Back(to, n + 1, k, p) = b + w /\ b \in Nat /\ b >= 1
      <4>1. p \in 1 .. Per(to)
        BY DEF w
      <4>2. b \in 1 .. Per(to) * n /\ Back(to, n + 1, k, p) = b + Per(to)
        BY <1>2, <2>1, <4>1, BackProps
      <4> HIDE DEF b
      <4>3. Per(to) * n \in Nat
        BY <1>2 DEF Per
      <4>4. QED
        BY <4>2, <4>3 DEF w
    <3> HIDE DEF b
    <3>2. b <= m /\ (m + w) - (b + w) + 1 = m - b + 1 /\ m - b + 1 \in 1 .. m
      BY <1>2, <1>5, <3>1
    <3>3. s[m - b + 1] = WriteOf(to, q[k], bl, p)
      BY <2>1, <3>2 DEF Spells, b, n, m, w
    <3>4. t[m - b + 1] = s[m - b + 1] /\ r[k] = q[k]
      BY <1>2, <1>4, <2>1, <3>2
    <3>5. QED
      BY <3>1, <3>2, <3>3, <3>4
  <2>2. CASE k = n + 1
    <3>1. Back(to, n + 1, k, p) = w - p + 1
      <4>1. p \in 1 .. Per(to) /\ n + 1 \in Nat /\ n + 1 \in 1 .. n + 1
        BY <1>2 DEF w
      <4>2. Back(to, n + 1, n + 1, p) = Per(to) - p + 1
        BY <4>1, BackProps
      <4>3. QED
        BY <2>2, <4>2 DEF w
    <3>2. (m + w) - (w - p + 1) + 1 = m + p
      BY <1>2
    <3>3. (m + w) - Back(to, n + 1, k, p) + 1 = m + p
      BY <3>1, <3>2
    <3>4. t[m + p] = v[p] /\ v[p] = WriteOf(to, x, bl, p) /\ r[k] = x
      BY <1>1, <1>2, <1>4, <2>2
    <3>5. QED
      BY <3>3, <3>4
  <2>3. k \in 1 .. n \/ k = n + 1
    BY <1>2
  <2>4. QED
    BY <2>1, <2>2, <2>3
<1>6. Len(r) = n + 1 /\ Len(t) = m + w /\ Per(to) = w
  BY <1>2, <1>4 DEF w
<1> DEFINE N == n + 1
           L == m + w
<1>7. \A k \in 1 .. N, p \in 1 .. w :
        Back(to, N, k, p) <= L =>
          t[L - Back(to, N, k, p) + 1] = WriteOf(to, r[k], bl, p)
  BY <1>5
<1> HIDE DEF N, L
<1>8. Len(r) = N /\ Len(t) = L
  BY <1>6 DEF N, L
<1>9. Spells(t, to, r, bl)
  BY <1>6, <1>7, <1>8, Zenon DEF Spells
<1>10. QED
  BY <1>4, <1>9 DEF r, m, w

(* Nothing is left. *)
LEMMA SendsNone ==
  ASSUME NEW to, NEW s, NEW bl
  PROVE  Spells(s, to, << >>, bl)
  BY DEF Spells

(* what is written of data *)
DataItems(data) == [k \in 1 .. Len(data) |-> Item(TRUE, data[k], FALSE)]

(* The writes of data. *)
LEMMA DataSent ==
  ASSUME NEW to \in Wires, NEW data \in Seq(0 .. 255), data # << >>,
         NEW bl \in BOOLEAN
  PROVE  LET s == send_data(to, data, bl)
         IN  /\ s \in Seq(WriteType) /\ Len(s) = Per(to) * Len(data)
             /\ Spells(s, to, DataItems(data), bl)
<1> DEFINE n == Len(data)
           q == DataItems(data)
           u == [i \in DOMAIN data |-> send(to, TRUE, data[i], bl, FALSE)]
<1>1. n \in Nat \ {0} /\ DOMAIN data = 1 .. n
  BY LenProperties
<1>2. Len(u) = n
  BY <1>1
<1>3. PICK f : Joins(f, u, n) /\ FlattenSeq(u) = f[n]
  <2> HIDE DEF u, n
  <2>1. Len(u) \in Nat \ {0}
    BY <1>1, <1>2
  <2>2. QED
    BY <1>2, <2>1, FlattenIs
<1>4. \A i \in 1 .. n : u[i] = send(to, q[i].rs, q[i].byte, bl, q[i].waits)
                        /\ q[i] \in ItemType
  <2> TAKE i \in 1 .. n
  <2>1. data[i] \in 0 .. 255
    BY <1>1, ElementOfSeq
  <2>2. q[i] = [rs |-> TRUE, byte |-> data[i], waits |-> FALSE]
    BY DEF DataItems, Item
  <2>3. u[i] = send(to, TRUE, data[i], bl, FALSE)
    BY <1>1
  <2> HIDE DEF q, u
  <2>4. q[i].rs = TRUE /\ q[i].byte = data[i] /\ q[i].waits = FALSE
    BY <2>2
  <2>5. q[i] \in ItemType
    BY <2>1, <2>2 DEF ItemType
  <2>6. QED
    BY <2>3, <2>4, <2>5
<1>5. send_data(to, data, bl) = f[n]
  BY <1>3 DEF send_data
<1> DEFINE part(i) == [k \in 1 .. i |-> q[k]]
<1> HIDE DEF u
<1>6. \A i \in 0 .. n : part(i) \in Seq(ItemType) /\ Len(part(i)) = i
  BY <1>1, <1>4
<1>7. \A i \in 0 .. n - 1 : part(i + 1) = Append(part(i), q[i + 1])
  <2> TAKE i \in 0 .. n - 1
  <2>1. part(i) \in Seq(ItemType) /\ Len(part(i)) = i
        /\ part(i + 1) \in Seq(ItemType) /\ Len(part(i + 1)) = i + 1
        /\ q[i + 1] \in ItemType
    BY <1>1, <1>4, <1>6
  <2>2. \A k \in 1 .. i : part(i)[k] = q[k] /\ part(i + 1)[k] = q[k]
    OBVIOUS
  <2>3. part(i + 1)[i + 1] = q[i + 1]
    BY <1>1
  <2> DEFINE a == part(i)
             b == part(i + 1)
             c == Append(a, q[i + 1])
  <2> HIDE DEF part, q
  <2>4. /\ c \in Seq(ItemType) /\ Len(c) = i + 1 /\ c[i + 1] = q[i + 1]
        /\ \A k \in 1 .. i : c[k] = a[k]
    BY <2>1, AppendProperties
  <2> HIDE DEF c
  <2>5. \A k \in 1 .. i + 1 : b[k] = c[k]
    BY <1>1, <2>2, <2>3, <2>4
  <2>6. b = c
    <3>1. b \in Seq(ItemType) /\ Len(b) = Len(c)
      BY <2>1, <2>4
    <3> HIDE DEF b
    <3>2. QED
      BY <2>1, <2>4, <2>5, <3>1, SeqEqual DEF b
  <2>7. QED
    BY <2>6 DEF c
<1> DEFINE Ok(i) == /\ f[i] \in Seq(WriteType) /\ Len(f[i]) = Per(to) * i
                    /\ Spells(f[i], to, part(i), bl)
           S == {i \in Nat : i = 0 \/ i > n \/ Ok(i)}
<1> HIDE DEF q
<1>8. ASSUME NEW i \in Nat, i \in S PROVE i + 1 \in S
  <2>1. CASE i + 1 > n
    BY <1>1, <2>1
  <2>2. CASE i = 0 /\ 1 <= n
    <3>1. f[1] = u[1]
      BY <1>1, <1>3, <2>2 DEF Joins
    <3>2. u[1] = send(to, q[1].rs, q[1].byte, bl, q[1].waits)
          /\ q[1] \in ItemType
      BY <1>1, <1>4, <2>2
    <3> DEFINE e == << >>
    <3>3. e \in Seq(WriteType) /\ Len(e) = 0 /\ e \in Seq(ItemType)
      OBVIOUS
    <3>4. u[1] = e \o u[1]
      <4>1. u[1] \in Seq(WriteType)
        BY <3>2, SendIs
      <4>2. QED
        BY <4>1
    <3>5. Spells(e, to, e, bl)
      BY SendsNone
    <3>6. part(1) = Append(e, q[1])
      <4>1. 0 \in 0 .. n - 1 /\ 0 + 1 = 1
        BY <1>1
      <4>2. part(0) = e
        OBVIOUS
      <4> HIDE DEF part, e
      <4>3. QED
        BY <1>7, <4>1, <4>2
    <3> HIDE DEF e, part
    <3>7. /\ u[1] \in Seq(WriteType) /\ Len(u[1]) = Len(e) + Per(to)
          /\ Spells(u[1], to, Append(e, q[1]), bl)
      <4> DEFINE x == q[1]
                 t == u[1]
      <4>1. Longer(t, e, to, x, bl)
        BY <3>2, <3>4 DEF Longer
      <4>2. x \in ItemType
        BY <3>2
      <4> HIDE DEF x, t
      <4>3. /\ t \in Seq(WriteType) /\ Len(t) = Len(e) + Per(to)
            /\ Spells(t, to, Append(e, x), bl)
        <5>1. e \in Seq(WriteType) /\ e \in Seq(ItemType)
          BY <3>3
        <5>2. QED
          BY ONLY <3>5, <4>1, <4>2, <5>1, SendsMore, to \in Wires,
                  bl \in BOOLEAN
      <4>4. QED
        BY <4>3 DEF x, t
    <3>8. Len(u[1]) = Per(to) * 1
      BY <3>3, <3>7 DEF Per
    <3>9. Ok(1)
      BY <3>1, <3>6, <3>7, <3>8
    <3> HIDE DEF Ok
    <3>10. i + 1 = 1 /\ 1 \in Nat
      BY <2>2
    <3>11. QED
      BY <3>9, <3>10
  <2>3. CASE i > 0 /\ i + 1 <= n
    <3>1. Ok(i)
      BY <1>1, <1>8, <2>3
    <3>2. /\ i \in 1 .. n /\ i + 1 \in 1 .. n /\ i + 1 # 1
          /\ (i + 1) - 1 = i /\ i \in 0 .. n - 1 /\ i \in 0 .. n
      BY <1>1, <2>3
    <3>3. f[i + 1] = f[i] \o u[i + 1]
      BY <1>3, <3>2 DEF Joins
    <3>4. /\ u[i + 1] = send(to, q[i + 1].rs, q[i + 1].byte, bl,
                             q[i + 1].waits)
          /\ q[i + 1] \in ItemType
      BY <1>4, <3>2
    <3>5. part(i) \in Seq(ItemType) /\ part(i + 1) = Append(part(i), q[i + 1])
      BY <1>6, <1>7, <3>2
    <3> HIDE DEF part
    <3> DEFINE x == q[i + 1]
               s == f[i]
               t == f[i + 1]
    <3>6. /\ Longer(t, s, to, x, bl)
          /\ x \in ItemType /\ s \in Seq(WriteType)
          /\ Spells(s, to, part(i), bl)
      BY <3>1, <3>3, <3>4 DEF Longer
    <3> HIDE DEF x, s, t
    <3>7. /\ t \in Seq(WriteType) /\ Len(t) = Len(s) + Per(to)
          /\ Spells(t, to, Append(part(i), x), bl)
      BY <3>5, <3>6, SendsMore
    <3>8. Len(t) = Per(to) * (i + 1)
      <4>1. Len(s) = Per(to) * i
        BY <3>1 DEF s
      <4>2. QED
        BY <3>7, <4>1 DEF Per
    <3>9. Ok(i + 1)
      BY <3>5, <3>7, <3>8 DEF x, t
    <3> HIDE DEF Ok
    <3>10. QED
      BY <3>2, <3>9
  <2>4. QED
    BY <1>1, <2>1, <2>2, <2>3
<1>9. 0 \in S
  OBVIOUS
<1> HIDE DEF S
<1>10. Nat \subseteq S
  BY <1>8, <1>9, NatInductive
<1>11. Ok(n)
  BY <1>1, <1>10 DEF S
<1>12. part(n) = q
  <2>1. q = [k \in 1 .. n |-> q[k]]
    BY DEF q, DataItems
  <2>2. QED
    BY <2>1
<1>13. QED
  BY <1>5, <1>11, <1>12 DEF q

(* t is s and two writes more *)
Pulsed(t, s, a, b) == t = s \o << a, b >>

(* A pulse more. *)
LEMMA TwoMore ==
  ASSUME NEW s \in Seq(WriteType), NEW a \in WriteType,
         NEW b \in WriteType, NEW t, Pulsed(t, s, a, b)
  PROVE  /\ t \in Seq(WriteType) /\ Len(t) = Len(s) + 2
         /\ \A i \in 1 .. Len(s) : t[i] = s[i]
         /\ t[Len(s) + 1] = a /\ t[Len(s) + 2] = b
<1> DEFINE u == << a, b >>
<1>1. u \in Seq(WriteType) /\ Len(u) = 2 /\ u[1] = a /\ u[2] = b
  OBVIOUS
<1>2. t = s \o u
  BY DEF Pulsed
<1> HIDE DEF u
<1>3. /\ s \o u \in Seq(WriteType) /\ Len(s \o u) = Len(s) + Len(u)
      /\ \A i \in 1 .. Len(s) : (s \o u)[i] = s[i]
      /\ \A i \in 1 .. Len(u) : (s \o u)[Len(s) + i] = u[i]
  BY ONLY <1>1, s \in Seq(WriteType), ConcatProps
<1>4. QED
  BY <1>1, <1>2, <1>3

(* A write of four bits has the type of a write. *)
LEMMA PulseType ==
  ASSUME NEW e \in BOOLEAN, NEW v \in Nibble, NEW bl \in BOOLEAN,
         NEW waits \in BOOLEAN
  PROVE  BusWrite(e, Reg(FALSE, v, bl), waits) \in WriteType
  BY DEF BusWrite, Reg, WriteType, Nibble

(* Eight writes, two at a time. *)
LEMMA EightWrites ==
  ASSUME NEW w1 \in WriteType, NEW w2 \in WriteType, NEW w3 \in WriteType,
         NEW w4 \in WriteType, NEW w5 \in WriteType, NEW w6 \in WriteType,
         NEW w7 \in WriteType, NEW w8 \in WriteType
  PROVE  LET d == << w1, w2 >> \o << w3, w4 >> \o << w5, w6 >>
                    \o << w7, w8 >>
         IN  /\ d \in Seq(WriteType) /\ Len(d) = 8
             /\ d[1] = w1 /\ d[2] = w2 /\ d[3] = w3 /\ d[4] = w4
             /\ d[5] = w5 /\ d[6] = w6 /\ d[7] = w7 /\ d[8] = w8
<1> DEFINE f2 == << w1, w2 >>
           f4 == f2 \o << w3, w4 >>
           f6 == f4 \o << w5, w6 >>
           f8 == f6 \o << w7, w8 >>
<1>1. /\ Pulsed(f4, f2, w3, w4) /\ Pulsed(f6, f4, w5, w6)
      /\ Pulsed(f8, f6, w7, w8)
  BY DEF Pulsed
<1>2. f2 \in Seq(WriteType) /\ Len(f2) = 2 /\ f2[1] = w1 /\ f2[2] = w2
  OBVIOUS
<1> HIDE DEF f2, f4, f6, f8
<1>3. /\ f4 \in Seq(WriteType) /\ Len(f4) = 4
      /\ f4[1] = w1 /\ f4[2] = w2 /\ f4[3] = w3 /\ f4[4] = w4
  <2>0. f2 \in Seq(WriteType)
    BY <1>2
  <2>1. /\ f4 \in Seq(WriteType) /\ Len(f4) = Len(f2) + 2
        /\ \A i \in 1 .. Len(f2) : f4[i] = f2[i]
        /\ f4[Len(f2) + 1] = w3 /\ f4[Len(f2) + 2] = w4
    BY <1>1, <2>0, TwoMore
  <2>2. QED
    BY <1>2, <2>1
<1>4. /\ f6 \in Seq(WriteType) /\ Len(f6) = 6
      /\ f6[1] = w1 /\ f6[2] = w2 /\ f6[3] = w3 /\ f6[4] = w4
      /\ f6[5] = w5 /\ f6[6] = w6
  <2>0. f4 \in Seq(WriteType)
    BY <1>3
  <2>1. /\ f6 \in Seq(WriteType) /\ Len(f6) = Len(f4) + 2
        /\ \A i \in 1 .. Len(f4) : f6[i] = f4[i]
        /\ f6[Len(f4) + 1] = w5 /\ f6[Len(f4) + 2] = w6
    BY <1>1, <2>0, TwoMore
  <2>2. QED
    BY <1>3, <2>1
<1>5. /\ f8 \in Seq(WriteType) /\ Len(f8) = 8
      /\ f8[1] = w1 /\ f8[2] = w2 /\ f8[3] = w3 /\ f8[4] = w4
      /\ f8[5] = w5 /\ f8[6] = w6 /\ f8[7] = w7 /\ f8[8] = w8
  <2>0. f6 \in Seq(WriteType)
    BY <1>4
  <2>1. /\ f8 \in Seq(WriteType) /\ Len(f8) = Len(f6) + 2
        /\ \A i \in 1 .. Len(f6) : f8[i] = f6[i]
        /\ f8[Len(f6) + 1] = w7 /\ f8[Len(f6) + 2] = w8
    BY <1>1, <2>0, TwoMore
  <2>2. QED
    BY <1>4, <2>1
<1>6. QED
  BY <1>5 DEF f2, f4, f6, f8

(* the pulses that an expander begins with *)
PulseOf(m, bl) ==
  BusWrite(m % 2 = 0, Reg(FALSE, IF m <= 18 THEN 2 ELSE 3, bl), m = 23)

FourPulses(bl) ==
  nk_lcd8574_pulse(Reg(FALSE, 3, bl), TRUE)
    \o nk_lcd8574_pulse(Reg(FALSE, 3, bl), FALSE)
    \o nk_lcd8574_pulse(Reg(FALSE, 3, bl), FALSE)
    \o nk_lcd8574_pulse(Reg(FALSE, 2, bl), FALSE)

(* They are eight writes. *)
LEMMA PulsesAre ==
  ASSUME NEW bl \in BOOLEAN
  PROVE  /\ FourPulses(bl) \in Seq(WriteType) /\ Len(FourPulses(bl)) = 8
         /\ \A i \in 1 .. 8 : FourPulses(bl)[i] = PulseOf(25 - i, bl)
<1> DEFINE w(i) == PulseOf(25 - i, bl)
<1>1. /\ w(1) = BusWrite(TRUE, Reg(FALSE, 3, bl), FALSE)
      /\ w(2) = BusWrite(FALSE, Reg(FALSE, 3, bl), TRUE)
      /\ w(3) = BusWrite(TRUE, Reg(FALSE, 3, bl), FALSE)
      /\ w(4) = BusWrite(FALSE, Reg(FALSE, 3, bl), FALSE)
      /\ w(5) = BusWrite(TRUE, Reg(FALSE, 3, bl), FALSE)
      /\ w(6) = BusWrite(FALSE, Reg(FALSE, 3, bl), FALSE)
      /\ w(7) = BusWrite(TRUE, Reg(FALSE, 2, bl), FALSE)
      /\ w(8) = BusWrite(FALSE, Reg(FALSE, 2, bl), FALSE)
  <2>1. /\ (24 % 2 = 0) = TRUE /\ (23 % 2 = 0) = FALSE
        /\ (22 % 2 = 0) = TRUE /\ (21 % 2 = 0) = FALSE
        /\ (20 % 2 = 0) = TRUE /\ (19 % 2 = 0) = FALSE
        /\ (18 % 2 = 0) = TRUE /\ (17 % 2 = 0) = FALSE
    OBVIOUS
  <2>2. /\ 25 - 1 = 24 /\ 25 - 2 = 23 /\ 25 - 3 = 22 /\ 25 - 4 = 21
        /\ 25 - 5 = 20 /\ 25 - 6 = 19 /\ 25 - 7 = 18 /\ 25 - 8 = 17
    OBVIOUS
  <2>3. /\ PulseOf(24, bl) = BusWrite(TRUE, Reg(FALSE, 3, bl), FALSE)
        /\ PulseOf(23, bl) = BusWrite(FALSE, Reg(FALSE, 3, bl), TRUE)
        /\ PulseOf(22, bl) = BusWrite(TRUE, Reg(FALSE, 3, bl), FALSE)
        /\ PulseOf(21, bl) = BusWrite(FALSE, Reg(FALSE, 3, bl), FALSE)
        /\ PulseOf(20, bl) = BusWrite(TRUE, Reg(FALSE, 3, bl), FALSE)
        /\ PulseOf(19, bl) = BusWrite(FALSE, Reg(FALSE, 3, bl), FALSE)
        /\ PulseOf(18, bl) = BusWrite(TRUE, Reg(FALSE, 2, bl), FALSE)
        /\ PulseOf(17, bl) = BusWrite(FALSE, Reg(FALSE, 2, bl), FALSE)
    <3>1. /\ ~(24 <= 18) /\ ~(23 <= 18) /\ ~(22 <= 18) /\ ~(21 <= 18)
          /\ ~(20 <= 18) /\ ~(19 <= 18) /\ 18 <= 18 /\ 17 <= 18
          /\ (24 = 23) = FALSE /\ (22 = 23) = FALSE /\ (21 = 23) = FALSE
          /\ (20 = 23) = FALSE /\ (19 = 23) = FALSE /\ (18 = 23) = FALSE
          /\ (17 = 23) = FALSE /\ (23 = 23) = TRUE
      OBVIOUS
    <3>2. QED
      BY <2>1, <3>1, Zenon DEF PulseOf
  <2>4. QED
    BY <2>2, <2>3
<1>2. /\ w(1) \in WriteType /\ w(2) \in WriteType
      /\ w(3) \in WriteType /\ w(4) \in WriteType
      /\ w(5) \in WriteType /\ w(6) \in WriteType
      /\ w(7) \in WriteType /\ w(8) \in WriteType
  <2>1. 2 \in Nibble /\ 3 \in Nibble
    BY DEF Nibble
  <2> HIDE DEF w
  <2>2. QED
    BY <1>1, <2>1, PulseType
<1> HIDE DEF w
<1> DEFINE d == << w(1), w(2) >> \o << w(3), w(4) >> \o << w(5), w(6) >>
                  \o << w(7), w(8) >>
<1>3. FourPulses(bl) = d
  BY <1>1 DEF FourPulses, nk_lcd8574_pulse
<1>7. /\ d \in Seq(WriteType) /\ Len(d) = 8
      /\ d[1] = w(1) /\ d[2] = w(2) /\ d[3] = w(3) /\ d[4] = w(4)
      /\ d[5] = w(5) /\ d[6] = w(6) /\ d[7] = w(7) /\ d[8] = w(8)
  BY <1>2, EightWrites
<1> HIDE DEF d
<1>8. ASSUME NEW i \in 1 .. 8 PROVE d[i] = w(i)
  <2>1. i = 1 \/ i = 2 \/ i = 3 \/ i = 4 \/ i = 5 \/ i = 6 \/ i = 7 \/ i = 8
    OBVIOUS
  <2>2. QED
    BY <1>7, <2>1
<1>9. QED
  BY <1>3, <1>7, <1>8 DEF w

(* the bytes of an initialisation are *)
LEMMA StartItemsType ==
  ASSUME NEW to \in Wires
  PROVE  /\ FuncItem(to) \in ItemType
         /\ Item(FALSE, DISPLAY, FALSE) \in ItemType
         /\ Item(FALSE, CLS, TRUE) \in ItemType
         /\ Item(FALSE, DISPLAY_ON, FALSE) \in ItemType
  BY DEF FuncItem, Item, ItemType, DISPLAY, CLS, DISPLAY_ON, FUNC, FUNC_DL

(* t is r and the writes of the three bytes that an initialisation ends with *)
Started(t, r, to, bl) ==
  t = r \o send_command(to, DISPLAY, bl, FALSE)
        \o send_command(to, CLS, bl, TRUE)
        \o send_command(to, DISPLAY_ON, bl, FALSE)

(* The writes that follow: those of three bytes. *)
LEMMA StartEnds ==
  ASSUME NEW to \in Wires, NEW bl \in BOOLEAN, NEW r \in Seq(WriteType),
         NEW q \in Seq(ItemType), Spells(r, to, q, bl), NEW t,
         Started(t, r, to, bl)
  PROVE  LET z == WithStart(q)
         IN  /\ t \in Seq(WriteType) /\ Len(t) = Len(r) + 3 * Per(to)
             /\ \A i \in 1 .. Len(r) : t[i] = r[i]
             /\ Spells(t, to, z, bl)
             /\ z \in Seq(ItemType) /\ Len(z) = Len(q) + 3
             /\ \A k \in 1 .. Len(q) : z[k] = q[k]
             /\ z[Len(q) + 1] = Item(FALSE, DISPLAY, FALSE)
             /\ z[Len(q) + 2] = Item(FALSE, CLS, TRUE)
             /\ z[Len(q) + 3] = Item(FALSE, DISPLAY_ON, FALSE)
<1> DEFINE x == Item(FALSE, DISPLAY, FALSE)
           y == Item(FALSE, CLS, TRUE)
           v == Item(FALSE, DISPLAY_ON, FALSE)
           a == r \o send_command(to, DISPLAY, bl, FALSE)
           b == a \o send_command(to, CLS, bl, TRUE)
           d == Append(q, x)
           e == Append(d, y)
           z == Append(e, v)
<1>1. x \in ItemType /\ y \in ItemType /\ v \in ItemType
  BY StartItemsType
<1>2. /\ Longer(a, r, to, x, bl) /\ Longer(b, a, to, y, bl)
      /\ Longer(t, b, to, v, bl)
  BY DEF Started, Longer, send_command, Item
<1> HIDE DEF x, y, v, a, b, d
<1>4. /\ a \in Seq(WriteType) /\ Len(a) = Len(r) + Per(to)
      /\ \A i \in 1 .. Len(r) : a[i] = r[i]
      /\ Spells(a, to, d, bl)
  BY <1>1, <1>2, SendsMore DEF d
<1>5. /\ d \in Seq(ItemType) /\ Len(d) = Len(q) + 1
      /\ d[Len(q) + 1] = x /\ \A k \in 1 .. Len(q) : d[k] = q[k]
  BY <1>1, AppendProperties DEF d
<1> HIDE DEF e
<1>6. /\ b \in Seq(WriteType) /\ Len(b) = Len(a) + Per(to)
      /\ \A i \in 1 .. Len(a) : b[i] = a[i]
      /\ Spells(b, to, e, bl)
  BY <1>1, <1>2, <1>4, <1>5, SendsMore DEF e
<1>7. /\ e \in Seq(ItemType) /\ Len(e) = Len(d) + 1
      /\ e[Len(d) + 1] = y /\ \A k \in 1 .. Len(d) : e[k] = d[k]
  BY <1>1, <1>5, AppendProperties DEF e
<1> HIDE DEF z
<1>8. /\ t \in Seq(WriteType) /\ Len(t) = Len(b) + Per(to)
      /\ \A i \in 1 .. Len(b) : t[i] = b[i]
      /\ Spells(t, to, z, bl)
  BY <1>1, <1>2, <1>6, <1>7, SendsMore DEF z
<1>9. /\ z \in Seq(ItemType) /\ Len(z) = Len(e) + 1
      /\ z[Len(e) + 1] = v /\ \A k \in 1 .. Len(e) : z[k] = e[k]
  BY <1>1, <1>7, AppendProperties DEF z
<1>10. Len(r) \in Nat /\ Len(q) \in Nat /\ Per(to) \in Nat
  BY LenProperties DEF Per
<1>11. Len(t) = Len(r) + 3 * Per(to) /\ Len(z) = Len(q) + 3
  <2>1. Len(t) = ((Len(r) + Per(to)) + Per(to)) + Per(to)
    BY <1>4, <1>6, <1>8
  <2>2. Len(z) = ((Len(q) + 1) + 1) + 1
    BY <1>5, <1>7, <1>9
  <2>3. QED
    BY <1>10, <2>1, <2>2
<1>12. \A i \in 1 .. Len(r) : t[i] = r[i]
  <2> TAKE i \in 1 .. Len(r)
  <2>1. i \in 1 .. Len(a) /\ i \in 1 .. Len(b)
    BY <1>4, <1>6, <1>10
  <2>2. QED
    BY <1>4, <1>6, <1>8, <2>1
<1>13. /\ \A k \in 1 .. Len(q) : z[k] = q[k]
       /\ z[Len(q) + 1] = x /\ z[Len(q) + 2] = y /\ z[Len(q) + 3] = v
  <2>1. ASSUME NEW k \in 1 .. Len(q) PROVE z[k] = q[k]
    <3>1. k \in 1 .. Len(d) /\ k \in 1 .. Len(e)
      BY <1>5, <1>7, <1>10
    <3>2. QED
      BY <1>5, <1>7, <1>9, <3>1
  <2>2. Len(q) + 1 \in 1 .. Len(d) /\ Len(q) + 1 \in 1 .. Len(e)
        /\ Len(q) + 2 \in 1 .. Len(e) /\ Len(q) + 2 = Len(d) + 1
        /\ Len(q) + 3 = Len(e) + 1
    BY <1>5, <1>7, <1>10
  <2>3. z[Len(q) + 1] = x
    BY <1>5, <1>7, <1>9, <2>2
  <2>4. z[Len(q) + 2] = y
    BY <1>7, <1>9, <2>2
  <2>5. z[Len(q) + 3] = v
    BY <1>9, <2>2
  <2>6. QED
    BY <2>1, <2>3, <2>4, <2>5
<1>14. QED
  BY <1>8, <1>9, <1>11, <1>12, <1>13 DEF WithStart, x, y, v, d, e, z

(* The function bytes of an initialisation, and the pulses before them. *)
LEMMA FuncsSent ==
  ASSUME NEW to \in Wires, NEW bl \in BOOLEAN
  PROVE  LET r == init_reset(to, bl)
             q == Funcs(to)
         IN  /\ r \in Seq(WriteType) /\ Spells(r, to, q, bl)
             /\ q \in Seq(ItemType)
             /\ to = "aip31068" => Len(r) = 3 /\ Len(q) = 3
             /\ to = "lcd8574" =>
                  /\ Len(r) = 12 /\ Len(q) = 1
                  /\ \A i \in 1 .. 8 : r[i] = PulseOf(25 - i, bl)
             /\ \A k \in 1 .. Len(q) : q[k] = FuncItem(to)
<1> DEFINE x == FuncItem(to)
           none == << >>
<1>1. x \in ItemType
  BY StartItemsType
<1>2. none \in Seq(WriteType) /\ none \in Seq(ItemType) /\ Len(none) = 0
  OBVIOUS
<1>3. Spells(none, to, none, bl)
  BY SendsNone
<1>4. CASE to = "aip31068"
  <2> DEFINE u == send(to, FALSE, FUNC + FUNC_DL, bl, TRUE)
             r2 == u \o u
             r3 == r2 \o u
             q1 == Append(none, x)
             q2 == Append(q1, x)
             q3 == Append(q2, x)
  <2>1. x = Item(FALSE, FUNC + FUNC_DL, TRUE)
    BY <1>4 DEF FuncItem
  <2>2. u = send(to, x.rs, x.byte, bl, x.waits)
    BY <2>1 DEF Item
  <2>3. init_reset(to, bl) = r3
    BY <1>4 DEF init_reset
  <2>4. Per(to) = 1
    BY <1>4 DEF Per
  <2>6. u \in Seq(WriteType)
    BY <1>1, <2>2, SendIs
  <2>7. u = none \o u
    BY <2>6
  <2>8. /\ Longer(u, none, to, x, bl) /\ Longer(r2, u, to, x, bl)
        /\ Longer(r3, r2, to, x, bl)
    <3> HIDE DEF x, none
    <3>1. u = none \o send(to, x.rs, x.byte, bl, x.waits)
      BY <2>2, <2>7
    <3>2. r2 = u \o send(to, x.rs, x.byte, bl, x.waits)
      BY <2>2
    <3>3. r3 = r2 \o send(to, x.rs, x.byte, bl, x.waits)
      BY <2>2
    <3>4. QED
      BY <3>1, <3>2, <3>3 DEF Longer
  <2>9. Funcs(to) = q3
    BY <1>4 DEF Funcs
  <2> HIDE DEF x, none, u, r2, r3, q1, q2, q3
  <2>10. /\ u \in Seq(WriteType) /\ Len(u) = Len(none) + Per(to)
         /\ Spells(u, to, q1, bl)
    <3>1. none \in Seq(WriteType) /\ none \in Seq(ItemType)
      BY <1>2
    <3>2. QED
      BY <1>1, <1>3, <2>8, <3>1, SendsMore DEF q1
  <2>11. q1 \in Seq(ItemType) /\ Len(q1) = 1 /\ q1[1] = x
    BY <1>1, <1>2 DEF q1
  <2>12. /\ r2 \in Seq(WriteType) /\ Len(r2) = Len(u) + Per(to)
         /\ Spells(r2, to, q2, bl)
    <3>1. q1 \in Seq(ItemType)
      BY <2>11
    <3>2. u \in Seq(WriteType) /\ Spells(u, to, q1, bl)
      BY <2>10
    <3>3. QED
      BY <1>1, <2>8, <3>1, <3>2, SendsMore DEF q2
  <2>13. q2 \in Seq(ItemType) /\ Len(q2) = 2 /\ q2[1] = x /\ q2[2] = x
    <3>1. /\ q2 \in Seq(ItemType) /\ Len(q2) = Len(q1) + 1
          /\ q2[Len(q1) + 1] = x /\ \A k \in 1 .. Len(q1) : q2[k] = q1[k]
      <4>1. q1 \in Seq(ItemType)
        BY <2>11
      <4>2. QED
        BY <1>1, <4>1, AppendProperties DEF q2
    <3>2. QED
      BY <2>11, <3>1
  <2>14. /\ r3 \in Seq(WriteType) /\ Len(r3) = Len(r2) + Per(to)
         /\ Spells(r3, to, q3, bl)
    <3>1. q2 \in Seq(ItemType)
      BY <2>13
    <3>2. r2 \in Seq(WriteType) /\ Spells(r2, to, q2, bl)
      BY <2>12
    <3>3. QED
      BY <1>1, <2>8, <3>1, <3>2, SendsMore DEF q3
  <2>15. q3 \in Seq(ItemType) /\ Len(q3) = 3
         /\ q3[1] = x /\ q3[2] = x /\ q3[3] = x
    <3>1. /\ q3 \in Seq(ItemType) /\ Len(q3) = Len(q2) + 1
          /\ q3[Len(q2) + 1] = x /\ \A k \in 1 .. Len(q2) : q3[k] = q2[k]
      <4>1. q2 \in Seq(ItemType)
        BY <2>13
      <4>2. QED
        BY <1>1, <4>1, AppendProperties DEF q3
    <3>2. QED
      BY <2>13, <3>1
  <2>16. Len(r3) = 3
    BY <1>2, <2>4, <2>10, <2>12, <2>14
  <2>17. \A k \in 1 .. Len(q3) : q3[k] = x
    <3> TAKE k \in 1 .. Len(q3)
    <3>1. k = 1 \/ k = 2 \/ k = 3
      BY <2>15
    <3>2. QED
      BY <2>15, <3>1
  <2>18. QED
    BY <1>4, <2>3, <2>9, <2>14, <2>15, <2>16, <2>17 DEF x
<1>5. CASE to = "lcd8574"
  <2> DEFINE p == FourPulses(bl)
             r == p \o send(to, FALSE, FUNC, bl, FALSE)
             q == Append(none, x)
  <2>1. x = Item(FALSE, FUNC, FALSE)
    BY <1>5 DEF FuncItem
  <2>2. Longer(r, p, to, x, bl)
    <3>1. send(to, FALSE, FUNC, bl, FALSE)
            = send(to, x.rs, x.byte, bl, x.waits)
      BY <2>1 DEF Item
    <3> HIDE DEF x, p
    <3>2. QED
      BY <3>1 DEF Longer
  <2>3. init_reset(to, bl) = r
    BY <1>5 DEF init_reset, FourPulses
  <2>4. Per(to) = 4
    BY <1>5 DEF Per
  <2>5. Funcs(to) = q
    BY <1>5 DEF Funcs
  <2>6. /\ p \in Seq(WriteType) /\ Len(p) = 8
        /\ \A i \in 1 .. 8 : p[i] = PulseOf(25 - i, bl)
    BY PulsesAre
  <2>7. q \in Seq(ItemType) /\ Len(q) = 1 /\ q[1] = x
    BY <1>1
  <2>8. Spells(p, to, none, bl)
    BY SendsNone
  <2> HIDE DEF x, none, p, q, r
  <2>9. /\ r \in Seq(WriteType) /\ Len(r) = Len(p) + Per(to)
        /\ \A i \in 1 .. Len(p) : r[i] = p[i]
        /\ Spells(r, to, q, bl)
    <3>1. p \in Seq(WriteType) /\ none \in Seq(ItemType)
      BY <1>2, <2>6
    <3>2. QED
      BY <1>1, <2>2, <2>8, <3>1, SendsMore DEF q
  <2>10. Len(r) = 12
    BY <2>4, <2>6, <2>9
  <2>11. \A i \in 1 .. 8 : r[i] = PulseOf(25 - i, bl)
    BY <2>6, <2>9
  <2>12. \A k \in 1 .. Len(q) : q[k] = x
    BY <2>7
  <2>13. QED
    BY <1>5, <2>3, <2>5, <2>7, <2>9, <2>10, <2>11, <2>12 DEF x
<1>6. QED
  BY <1>4, <1>5 DEF Wires

(* The writes of an initialisation. *)
LEMMA InitSent ==
  ASSUME NEW to \in Wires, NEW bl \in BOOLEAN
  PROVE  LET s == init(to, bl)
             q == StartItems(to)
         IN  /\ s \in Seq(WriteType) /\ Spells(s, to, q, bl)
             /\ q \in Seq(ItemType)
             /\ to = "aip31068" => Len(s) = 6 /\ Len(q) = 6
             /\ to = "lcd8574" =>
                  Len(s) = 24 /\ Len(q) = 4 /\ Pulses(s, bl)
             /\ \A k \in 1 .. Len(q) - 3 : q[k] = FuncItem(to)
             /\ q[Len(q) - 2] = Item(FALSE, DISPLAY, FALSE)
             /\ q[Len(q) - 1] = Item(FALSE, CLS, TRUE)
             /\ q[Len(q)] = Item(FALSE, DISPLAY_ON, FALSE)
<1> DEFINE s == init(to, bl)
           q == StartItems(to)
           r == init_reset(to, bl)
           f == Funcs(to)
<1>1. /\ r \in Seq(WriteType) /\ Spells(r, to, f, bl) /\ f \in Seq(ItemType)
      /\ to = "aip31068" => Len(r) = 3 /\ Len(f) = 3
      /\ to = "lcd8574" =>
           /\ Len(r) = 12 /\ Len(f) = 1
           /\ \A i \in 1 .. 8 : r[i] = PulseOf(25 - i, bl)
      /\ \A k \in 1 .. Len(f) : f[k] = FuncItem(to)
  BY FuncsSent
<1>2. Started(s, r, to, bl)
  BY DEF Started, init
<1>3. q = WithStart(f)
  BY DEF StartItems
<1> HIDE DEF s, q, r, f
<1>4. /\ s \in Seq(WriteType) /\ Len(s) = Len(r) + 3 * Per(to)
      /\ \A i \in 1 .. Len(r) : s[i] = r[i]
      /\ Spells(s, to, q, bl)
      /\ q \in Seq(ItemType) /\ Len(q) = Len(f) + 3
      /\ \A k \in 1 .. Len(f) : q[k] = f[k]
      /\ q[Len(f) + 1] = Item(FALSE, DISPLAY, FALSE)
      /\ q[Len(f) + 2] = Item(FALSE, CLS, TRUE)
      /\ q[Len(f) + 3] = Item(FALSE, DISPLAY_ON, FALSE)
  <2>1. r \in Seq(WriteType) /\ f \in Seq(ItemType) /\ Spells(r, to, f, bl)
    BY <1>1
  <2> DEFINE z == WithStart(f)
  <2>2. /\ s \in Seq(WriteType) /\ Len(s) = Len(r) + 3 * Per(to)
        /\ \A i \in 1 .. Len(r) : s[i] = r[i]
        /\ Spells(s, to, z, bl)
        /\ z \in Seq(ItemType) /\ Len(z) = Len(f) + 3
        /\ \A k \in 1 .. Len(f) : z[k] = f[k]
        /\ z[Len(f) + 1] = Item(FALSE, DISPLAY, FALSE)
        /\ z[Len(f) + 2] = Item(FALSE, CLS, TRUE)
        /\ z[Len(f) + 3] = Item(FALSE, DISPLAY_ON, FALSE)
    BY <1>2, <2>1, StartEnds
  <2>3. QED
    BY <1>3, <2>2
<1>5. Len(f) \in Nat /\ Len(f) = Len(q) - 3 /\ Len(f) + 1 = Len(q) - 2
      /\ Len(f) + 2 = Len(q) - 1 /\ Len(f) + 3 = Len(q)
  <2>1. Len(f) \in Nat /\ Len(q) = Len(f) + 3
    BY <1>1, <1>4, LenProperties
  <2>2. QED
    BY <2>1
<1>6. /\ \A k \in 1 .. Len(q) - 3 : q[k] = FuncItem(to)
      /\ q[Len(q) - 2] = Item(FALSE, DISPLAY, FALSE)
      /\ q[Len(q) - 1] = Item(FALSE, CLS, TRUE)
      /\ q[Len(q)] = Item(FALSE, DISPLAY_ON, FALSE)
  BY <1>1, <1>4, <1>5
<1>7. CASE to = "aip31068"
  <2>1. Per(to) = 1 /\ to # "lcd8574"
    BY <1>7 DEF Per
  <2>2. Len(s) = 6 /\ Len(q) = 6
    <3>1. Len(r) = 3 /\ Len(f) = 3
      BY <1>1, <1>7
    <3>2. Len(s) = Len(r) + 3 * Per(to) /\ Len(q) = Len(f) + 3
      BY <1>4
    <3>3. QED
      BY <2>1, <3>1, <3>2
  <2>3. QED
    BY <1>4, <1>6, <2>1, <2>2 DEF s, q
<1>8. CASE to = "lcd8574"
  <2>1. Per(to) = 4 /\ to # "aip31068"
    BY <1>8 DEF Per
  <2>2. Len(s) = 24 /\ Len(q) = 4
    <3>1. Len(r) = 12 /\ Len(f) = 1
      BY <1>1, <1>8
    <3>2. Len(s) = Len(r) + 3 * Per(to) /\ Len(q) = Len(f) + 3
      BY <1>4
    <3>3. QED
      BY <2>1, <3>1, <3>2
  <2>3. ASSUME NEW m \in 17 .. 24
        PROVE  s[24 - m + 1] = PulseOf(m, bl)
    <3>1. 24 - m + 1 \in 1 .. 8 /\ 25 - (24 - m + 1) = m
          /\ 24 - m + 1 \in 1 .. 12
      OBVIOUS
    <3>2. s[24 - m + 1] = r[24 - m + 1]
      BY <1>1, <1>4, <1>8, <3>1
    <3>3. r[24 - m + 1] = PulseOf(25 - (24 - m + 1), bl)
      BY <1>1, <1>8, <3>1
    <3>4. QED
      BY <3>1, <3>2, <3>3
  <2>4. Pulses(s, bl)
    BY <2>2, <2>3 DEF Pulses, PulseOf
  <2>5. QED
    BY <1>4, <1>6, <2>1, <2>2, <2>4 DEF s, q
<1>9. QED
  BY <1>7, <1>8 DEF Wires

-----------------------------------------------------------------------------
(* The displays: what a call sends *)

(* The cells are numbered. *)
LEMMA CellsOK == Cells \in Nat /\ Cells >= 1 /\ Cells <= 128
  BY LcdConstantsOK

(* A command is a byte. *)
LEMMA CommandType ==
  ASSUME NEW a \in CallType
  PROVE  Command(a) \in ItemType
<1>1. a.arg \in 0 .. Cells - 1 /\ a.flag \in BOOLEAN
  BY DEF CallType
<1>2. CarefulHome \in BOOLEAN
  BY LcdConstantsOK
<1>3. CASE a.op = "cls"
  BY <1>3 DEF Command, Item, ItemType, CLS
<1>4. CASE a.op # "cls" /\ a.op = "home"
  BY <1>2, <1>4 DEF Command, Item, ItemType, HOME
<1>5. CASE a.op # "cls" /\ a.op # "home" /\ a.op = "pos"
  <2>1. DDRAM + a.arg \in 0 .. 255
    BY <1>1, CellsOK DEF DDRAM
  <2>2. QED
    BY <1>5, <2>1 DEF Command, Item, ItemType
<1>6. CASE a.op # "cls" /\ a.op # "home" /\ a.op # "pos"
  <2>1. DISPLAY + (IF a.flag THEN 4 ELSE 0) \in 0 .. 255
    BY <1>1 DEF DISPLAY
  <2>2. QED
    BY <1>6, <2>1 DEF Command, Item, ItemType
<1>7. QED
  BY <1>3, <1>4, <1>5, <1>6

(* Data is bytes. *)
LEMMA DataItemsType ==
  ASSUME NEW data \in Seq(0 .. 255)
  PROVE  /\ DataItems(data) \in Seq(ItemType)
         /\ Len(DataItems(data)) = Len(data)
         /\ \A k \in 1 .. Len(data) :
              DataItems(data)[k] = Item(TRUE, data[k], FALSE)
<1>1. Len(data) \in Nat
  BY LenProperties
<1>2. \A k \in 1 .. Len(data) : Item(TRUE, data[k], FALSE) \in ItemType
  <2> TAKE k \in 1 .. Len(data)
  <2>1. data[k] \in 0 .. 255
    BY ElementOfSeq
  <2>2. QED
    BY <2>1 DEF Item, ItemType
<1> DEFINE d == DataItems(data)
           n == Len(data)
<1>3. /\ d \in [1 .. n -> ItemType]
      /\ \A k \in 1 .. n : d[k] = Item(TRUE, data[k], FALSE)
  BY <1>2 DEF DataItems
<1> HIDE DEF d, n
<1>4. d \in Seq(ItemType) /\ Len(d) = n
  <2>1. n \in Nat
    BY <1>1 DEF n
  <2>2. QED
    BY <1>3, <2>1
<1>5. QED
  BY <1>3, <1>4 DEF d, n

(* What a call sends is bytes. *)
LEMMA ItemsType ==
  ASSUME NEW to \in Wires, NEW a \in CallType
  PROVE  /\ Items(to, a) \in Seq(ItemType)
         /\ a.op = "init" => Items(to, a) = StartItems(to)
         /\ a.op = "write" => Items(to, a) = DataItems(a.data)
         /\ a.op \in {"cls", "home", "pos", "mode"} =>
              /\ Len(Items(to, a)) = 1 /\ Items(to, a)[1] = Command(a)
              /\ Items(to, a) = << Command(a) >>
         /\ a.op \in {"idle", "backlight"} =>
              Items(to, a) = << >> /\ Len(Items(to, a)) = 0
<1>1. a.data \in Seq(0 .. 255)
      /\ a.op \in {"idle", "init", "cls", "home", "pos", "mode", "backlight",
                   "write"}
  BY DEF CallType
<1>2. CASE a.op = "init"
  <2>1. Items(to, a) = StartItems(to)
    BY <1>2 DEF Items
  <2>2. StartItems(to) \in Seq(ItemType)
    BY InitSent
  <2>3. QED
    BY <1>2, <2>1, <2>2
<1>3. CASE a.op = "write"
  <2>1. Items(to, a) = DataItems(a.data)
    BY <1>3 DEF Items, DataItems
  <2>2. DataItems(a.data) \in Seq(ItemType)
    BY <1>1, DataItemsType
  <2>3. QED
    BY <1>3, <2>1, <2>2
<1>4. CASE a.op \in {"cls", "home", "pos", "mode"}
  <2>1. Items(to, a) = << Command(a) >>
    BY <1>4 DEF Items
  <2>2. << Command(a) >> \in Seq(ItemType) /\ Len(<< Command(a) >>) = 1
        /\ << Command(a) >>[1] = Command(a)
    BY CommandType
  <2>3. QED
    BY <1>4, <2>1, <2>2
<1>5. CASE a.op \in {"idle", "backlight"}
  <2>1. Items(to, a) = << >>
    BY <1>5 DEF Items
  <2>2. << >> \in Seq(ItemType) /\ Len(<< >>) = 0
    OBVIOUS
  <2>3. QED
    BY <1>5, <2>1, <2>2
<1>6. QED
  BY <1>1, <1>2, <1>3, <1>4, <1>5

(* How many writes there are of so many bytes. *)
LEMMA PerIs ==
  ASSUME NEW to \in Wires
  PROVE  /\ Per(to) \in 1 .. 4
         /\ to = "aip31068" => Per(to) = 1
         /\ to = "lcd8574" => Per(to) = 4
  BY DEF Per, Wires

(* An initialisation starts. *)
LEMMA InitStarts ==
  ASSUME NEW to \in Wires, NEW a \in CallType, a.op = "init", NEW reg
  PROVE  /\ LeftOf(init(to, a.flag), to, a, reg)
         /\ init(to, a.flag) \in Seq(WriteType)
         /\ to = "lcd8574" => Len(init(to, a.flag)) = 24
         /\ to = "aip31068" => Len(init(to, a.flag)) = 6
<1> DEFINE s == init(to, a.flag)
           q == StartItems(to)
<1>1. a.flag \in BOOLEAN
  BY DEF CallType
<1>2. /\ s \in Seq(WriteType) /\ Spells(s, to, q, a.flag)
      /\ to = "aip31068" => Len(s) = 6 /\ Len(q) = 6
      /\ to = "lcd8574" => Len(s) = 24 /\ Len(q) = 4 /\ Pulses(s, a.flag)
  BY <1>1, InitSent
<1>3. Items(to, a) = q /\ LightOf(a, reg) = a.flag
  BY ItemsType DEF LightOf
<1> HIDE DEF s, q
<1>4. Len(s) \in Nat
  BY <1>2, LenProperties
<1>5. ASSUME to = "lcd8574" PROVE Len(s) <= 24 /\ Pulses(s, a.flag)
  <2>1. Len(s) = 24 /\ Pulses(s, a.flag)
    BY <1>2, <1>5
  <2>2. QED
    BY <2>1
<1>6. ~(to = "lcd8574") => Len(s) <= Per(to) * Len(Items(to, a))
  <2>1. CASE to = "aip31068"
    BY <1>2, <1>3, <2>1, PerIs
  <2>2. QED
    BY <2>1 DEF Wires
<1>7. LeftOf(s, to, a, reg)
  BY <1>2, <1>3, <1>5, <1>6, Zenon DEF LeftOf
<1>8. QED
  BY <1>2, <1>7 DEF s

(* A command starts. *)
LEMMA CommandStarts ==
  ASSUME NEW to \in Wires, NEW a \in CallType,
         a.op \in {"cls", "home", "pos", "mode"},
         NEW reg, reg.light \in BOOLEAN,
         NEW s, s = send(to, Command(a).rs, Command(a).byte, reg.light,
                         Command(a).waits)
  PROVE  /\ LeftOf(s, to, a, reg) /\ s \in Seq(WriteType)
         /\ Len(s) = Per(to)
<1> DEFINE x == Command(a)
           none == << >>
<1>1. x \in ItemType
  BY CommandType
<1>2. /\ s \in Seq(WriteType) /\ Len(s) = Per(to)
      /\ \A p \in 1 .. Per(to) : s[p] = WriteOf(to, x, reg.light, p)
  <2> DEFINE bl == reg.light
  <2>1. bl \in BOOLEAN /\ s = send(to, x.rs, x.byte, bl, x.waits)
    OBVIOUS
  <2> HIDE DEF x, bl
  <2>2. LET t == send(to, x.rs, x.byte, bl, x.waits)
        IN  /\ t \in Seq(WriteType) /\ Len(t) = Per(to)
            /\ \A p \in 1 .. Per(to) : t[p] = WriteOf(to, x, bl, p)
    BY <1>1, <2>1, SendIs
  <2>3. QED
    BY <2>1, <2>2 DEF bl
<1>3. /\ Items(to, a) = << x >> /\ Len(Items(to, a)) = 1
      /\ Items(to, a)[1] = x
  BY ItemsType
<1>4. LightOf(a, reg) = reg.light
  BY DEF LightOf
<1> HIDE DEF x
<1>5. Per(to) \in 1 .. 4
  BY PerIs
<1>6. Spells(s, to, Items(to, a), LightOf(a, reg))
  <2> SUFFICES ASSUME NEW k \in 1 .. 1, NEW p \in 1 .. Per(to)
               PROVE  s[Per(to) - Back(to, 1, k, p) + 1]
                        = WriteOf(to, x, reg.light, p)
    BY <1>2, <1>3, <1>4 DEF Spells
  <2>1. k = 1 /\ 1 \in Nat /\ 1 \in 1 .. 1
    OBVIOUS
  <2>2. Back(to, 1, 1, p) = Per(to) - p + 1
    BY <2>1, BackProps
  <2>3. Per(to) - (Per(to) - p + 1) + 1 = p
    BY <1>5
  <2>4. QED
    BY <1>2, <2>1, <2>2, <2>3
<1>7. Len(s) <= Per(to) * Len(Items(to, a))
  BY <1>2, <1>3, <1>5
<1>8. LeftOf(s, to, a, reg)
  BY <1>6, <1>7 DEF LeftOf
<1>9. QED
  BY <1>2, <1>8

(* Data starts. *)
LEMMA WriteStarts ==
  ASSUME NEW to \in Wires, NEW a \in CallType, a.op = "write",
         a.data # << >>, NEW reg, reg.light \in BOOLEAN
  PROVE  /\ LeftOf(send_data(to, a.data, reg.light), to, a, reg)
         /\ send_data(to, a.data, reg.light) \in Seq(WriteType)
         /\ Len(send_data(to, a.data, reg.light)) = Per(to) * Len(a.data)
<1> DEFINE s == send_data(to, a.data, reg.light)
<1>1. a.data \in Seq(0 .. 255)
  BY DEF CallType
<1>2. /\ s \in Seq(WriteType) /\ Len(s) = Per(to) * Len(a.data)
      /\ Spells(s, to, DataItems(a.data), reg.light)
  <2> DEFINE bl == reg.light
             data == a.data
  <2>1. bl \in BOOLEAN /\ data \in Seq(0 .. 255) /\ data # << >>
    BY <1>1
  <2> HIDE DEF bl, data
  <2>2. LET t == send_data(to, data, bl)
        IN  /\ t \in Seq(WriteType) /\ Len(t) = Per(to) * Len(data)
            /\ Spells(t, to, DataItems(data), bl)
    BY <2>1, DataSent
  <2>3. QED
    BY <2>2 DEF bl, data
<1>3. Items(to, a) = DataItems(a.data) /\ Len(Items(to, a)) = Len(a.data)
  BY <1>1, ItemsType, DataItemsType
<1>4. LightOf(a, reg) = reg.light
  BY DEF LightOf
<1> HIDE DEF s
<1>5. Spells(s, to, Items(to, a), LightOf(a, reg))
  BY <1>2, <1>3, <1>4
<1>6. Len(s) <= Per(to) * Len(Items(to, a))
  <2>1. Len(s) \in Nat
    BY <1>2, LenProperties
  <2>2. Len(s) = Per(to) * Len(Items(to, a))
    BY <1>2, <1>3
  <2> HIDE DEF Items
  <2>3. QED
    BY <2>1, <2>2
<1>7. LeftOf(s, to, a, reg)
  BY <1>5, <1>6 DEF LeftOf
<1>8. QED
  BY <1>2, <1>7 DEF s

(* The backlight starts. *)
LEMMA BacklightStarts ==
  ASSUME NEW to \in Wires, NEW a \in CallType, a.op = "backlight",
         NEW reg \in RegType,
         NEW s, s = << BusWrite(FALSE, Reg(reg.rs, reg.value, a.flag),
                                FALSE) >>
  PROVE  LeftOf(s, to, a, reg) /\ s \in Seq(WriteType) /\ Len(s) = 1
<1> DEFINE w == BusWrite(FALSE, Reg(reg.rs, reg.value, a.flag), FALSE)
<1>1. w \in WriteType
  <2>1. reg.rs \in BOOLEAN /\ reg.value \in 0 .. 15 /\ a.flag \in BOOLEAN
    BY DEF RegType, CallType, Nibble
  <2>2. QED
    BY <2>1 DEF BusWrite, Reg, WriteType
<1>2. Items(to, a) = << >>
  BY ItemsType
<1>3. s \in Seq(WriteType) /\ Len(s) = 1 /\ s[1] = w
  <2> HIDE DEF w
  <2>1. s = << w >>
    BY DEF w
  <2>2. << w >> \in Seq(WriteType) /\ Len(<< w >>) = 1 /\ << w >>[1] = w
    BY <1>1
  <2>3. QED
    BY <2>1, <2>2
<1>4. Spells(s, to, << >>, LightOf(a, reg))
  BY SendsNone
<1>5. LeftOf(s, to, a, reg)
  BY <1>2, <1>3, <1>4 DEF LeftOf
<1>6. QED
  BY <1>3, <1>5

(* Nothing has started. *)
LEMMA NothingStarts ==
  ASSUME NEW to \in Wires, NEW reg
  PROVE  LeftOf(<< >>, to, NoCall, reg) /\ NoCall \in CallType
<1>1. NoCall \in CallType
  <2>1. 0 \in 0 .. Cells - 1
    BY CellsOK
  <2>2. QED
    BY <2>1 DEF NoCall, CallType
<1>2. NoCall.op = "idle"
  BY DEF NoCall
<1>3. Items(to, NoCall) = << >> /\ Len(Items(to, NoCall)) = 0
  BY <1>1, <1>2, ItemsType
<1>4. Spells(<< >>, to, << >>, LightOf(NoCall, reg))
  BY SendsNone
<1>5. Len(<< >>) <= Per(to) * Len(Items(to, NoCall))
  BY <1>3, PerIs
<1>6. QED
  BY <1>1, <1>2, <1>3, <1>4, <1>5 DEF LeftOf

(* the next write is that of the backlight, one of the pulses that an       *)
(* expander begins with, or the p-th of the k-th byte                       *)
LightWrite(w, n, a, reg) ==
  /\ a.op = "backlight" /\ n = 1
  /\ w = BusWrite(FALSE, Reg(reg.rs, reg.value, a.flag), FALSE)
FirstWrite(w, n, to, a) ==
  a.op = "init" /\ to = "lcd8574" /\ n \in 17 .. 24 /\ w = PulseOf(n, a.flag)
ItemWrite(w, n, to, a, reg, k, p) ==
  /\ a.op \notin {"idle", "backlight"}
  /\ n = Back(to, Len(Items(to, a)), k, p)
  /\ w = WriteOf(to, Items(to, a)[k], LightOf(a, reg), p)

(* There is no other. *)
LEMMA NextIs ==
  ASSUME NEW to \in Wires, NEW a \in CallType, NEW reg \in RegType,
         NEW s \in Seq(WriteType), s # << >>, LeftOf(s, to, a, reg)
  PROVE  \/ LightWrite(s[1], Len(s), a, reg)
         \/ FirstWrite(s[1], Len(s), to, a)
         \/ \E k \in 1 .. Len(Items(to, a)), p \in 1 .. Per(to) :
              ItemWrite(s[1], Len(s), to, a, reg, k, p)
<1> DEFINE q == Items(to, a)
           n == Len(q)
           m == Len(s)
<1>1. m \in Nat /\ m >= 1 /\ n \in Nat
  <2>1. q \in Seq(ItemType)
    BY ItemsType
  <2> HIDE DEF q
  <2>2. Len(q) \in Nat /\ Len(s) \in Nat /\ Len(s) # 0
    BY <2>1, LenProperties, EmptySeq
  <2>3. QED
    BY <2>2
<1>2. ASSUME m \in 1 .. Per(to) * n, a.op \notin {"idle", "backlight"}
      PROVE  \E k \in 1 .. n, p \in 1 .. Per(to) :
               ItemWrite(s[1], m, to, a, reg, k, p)
  <2> HIDE DEF q, n, m
  <2>1. PICK k \in 1 .. n, p \in 1 .. Per(to) : Back(to, n, k, p) = m
    BY <1>1, <1>2, Turn
  <2>2. Spells(s, to, q, LightOf(a, reg))
    BY DEF LeftOf, q
  <2>3. s[1] = WriteOf(to, q[k], LightOf(a, reg), p)
    BY <1>1, <2>1, <2>2, NextWrite DEF m, n
  <2>4. ItemWrite(s[1], m, to, a, reg, k, p)
    BY <1>2, <2>1, <2>3 DEF ItemWrite, q, n
  <2>5. QED
    BY <2>4
<1>3. CASE a.op = "backlight"
  <2>1. m <= 1 /\ (m = 1 => s[1] = BusWrite(FALSE, Reg(reg.rs, reg.value,
                                                       a.flag), FALSE))
    BY <1>3 DEF LeftOf
  <2>2. m = 1
    <3> HIDE DEF m, n
    <3>1. QED
      BY <1>1, <2>1
  <2>3. QED
    BY <1>3, <2>1, <2>2 DEF LightWrite
<1>4. CASE a.op = "init" /\ to = "lcd8574"
  <2>1. m <= 24 /\ Pulses(s, a.flag)
    BY <1>4 DEF LeftOf
  <2>2. CASE m >= 17
    <3>1. m \in 17 .. 24 /\ m <= m /\ m - m + 1 = 1
      <4> HIDE DEF m, n
      <4>1. QED
        BY <1>1, <2>1, <2>2
    <3>2. s[1] = PulseOf(m, a.flag)
      <4>1. s[Len(s) - m + 1] = PulseOf(m, a.flag)
        BY <2>1, <3>1, Zenon DEF Pulses, PulseOf
      <4>2. QED
        BY <3>1, <4>1, Zenon
    <3>3. QED
      BY <1>4, <3>1, <3>2 DEF FirstWrite
  <2>3. CASE m < 17
    <3>1. n = 4 /\ Per(to) = 4
      <4>1. q = StartItems(to)
        BY <1>4, ItemsType
      <4>2. Len(StartItems(to)) = 4
        BY <1>4, InitSent
      <4>3. QED
        BY <1>4, <4>1, <4>2, PerIs
    <3>2. m \in 1 .. Per(to) * n
      <4> HIDE DEF m, n
      <4>1. QED
        BY <1>1, <2>3, <3>1
    <3>3. QED
      BY <1>2, <1>4, <3>2
  <2>4. QED
    BY <1>1, <2>2, <2>3
<1>5. CASE a.op # "backlight" /\ ~(a.op = "init" /\ to = "lcd8574")
  <2>1. m <= Per(to) * n
    BY <1>5 DEF LeftOf
  <2>2. Per(to) \in 1 .. 4
    BY PerIs
  <2>3. m \in 1 .. Per(to) * n
    <3> HIDE DEF m, n
    <3>1. Per(to) * n \in Nat
      BY <1>1, <2>2
    <3>2. QED
      BY <1>1, <2>1, <3>1
  <2>4. a.op # "idle"
    <3>1. CASE a.op = "idle"
      <4>1. n = 0
        BY <3>1, ItemsType
      <4>2. QED
        BY <2>2, <2>3, <4>1
    <3>2. QED
      BY <3>1
  <2>5. QED
    BY <1>2, <1>5, <2>3, <2>4
<1>6. QED
  BY <1>3, <1>4, <1>5

(* One write less. *)
LEMMA LeftLess ==
  ASSUME NEW to \in Wires, NEW a \in CallType, NEW reg, NEW reg2,
         NEW s \in Seq(WriteType), s # << >>, LeftOf(s, to, a, reg),
         a.op \notin {"idle", "init", "backlight"} => reg2.light = reg.light
  PROVE  LeftOf(Tail(s), to, a, reg2)
<1> DEFINE q == Items(to, a)
           t == Tail(s)
<1>1. q \in Seq(ItemType) /\ Len(q) \in Nat
  BY ItemsType, LenProperties
<1>2. /\ t \in Seq(WriteType) /\ Len(s) \in Nat /\ Len(t) \in Nat
      /\ Len(t) = Len(s) - 1 /\ \A i \in 1 .. Len(t) : t[i] = s[i + 1]
  BY HeadTailProperties, LenProperties
<1> HIDE DEF q
<1>3. Spells(t, to, q, LightOf(a, reg))
  <2>1. Spells(s, to, q, LightOf(a, reg))
    BY DEF LeftOf, q
  <2>2. QED
    BY <1>1, <2>1, SendsLess
<1> HIDE DEF t
<1>4. Spells(t, to, q, LightOf(a, reg2))
  <2>1. CASE a.op \in {"idle", "backlight"}
    <3>1. q = << >>
      BY <2>1, ItemsType DEF q
    <3>2. QED
      BY <3>1, SendsNone
  <2>2. CASE a.op \notin {"idle", "backlight"}
    <3>1. LightOf(a, reg2) = LightOf(a, reg)
      BY <2>2 DEF LightOf
    <3>2. QED
      BY <1>3, <3>1
  <2>3. QED
    BY <2>1, <2>2
<1>5. ASSUME a.op = "backlight" PROVE Len(t) = 0
  <2>1. Len(s) <= 1
    BY <1>5 DEF LeftOf
  <2>2. QED
    BY <1>2, <2>1
<1>6. ASSUME a.op = "init" /\ to = "lcd8574"
      PROVE  Len(t) <= 24 /\ Pulses(t, a.flag)
  <2>1. Len(s) <= 24 /\ Pulses(s, a.flag)
    BY <1>6 DEF LeftOf
  <2>2. ASSUME NEW m \in 17 .. 24, m <= Len(t)
        PROVE  t[Len(t) - m + 1] = s[Len(s) - m + 1] /\ m <= Len(s)
    <3>1. Len(t) - m + 1 \in 1 .. Len(t)
          /\ (Len(t) - m + 1) + 1 = Len(s) - m + 1 /\ m <= Len(s)
      <4>1. Len(t) \in Nat /\ Len(s) = Len(t) + 1 /\ m <= Len(t)
            /\ m \in 17 .. 24
        BY <1>2, <2>2
      <4>2. QED
        BY ONLY <4>1, SMT
    <3>2. t[Len(t) - m + 1] = s[(Len(t) - m + 1) + 1]
      BY <1>2, <3>1
    <3>3. QED
      BY <3>1, <3>2
  <2>3. Pulses(t, a.flag)
    <3>1. ASSUME NEW m \in 17 .. 24, m <= Len(t)
          PROVE  t[Len(t) - m + 1] = PulseOf(m, a.flag)
      <4>1. t[Len(t) - m + 1] = s[Len(s) - m + 1] /\ m <= Len(s)
        BY <2>2, <3>1, Zenon
      <4>2. s[Len(s) - m + 1] = PulseOf(m, a.flag)
        BY <2>1, <4>1, Zenon DEF Pulses, PulseOf
      <4>3. QED
        BY <4>1, <4>2, Zenon
    <3>2. QED
      BY <3>1, Zenon DEF Pulses, PulseOf
  <2>4. QED
    BY <1>2, <2>1, <2>3
<1>7. ASSUME a.op # "backlight" /\ ~(a.op = "init" /\ to = "lcd8574")
      PROVE  Len(t) <= Per(to) * Len(q)
  <2>1. Len(s) <= Per(to) * Len(q)
    BY <1>7 DEF LeftOf, q
  <2>2. Per(to) * Len(q) \in Nat
    BY <1>1, PerIs
  <2>3. QED
    BY <1>2, <2>1, <2>2
<1>8. LeftOf(t, to, a, reg2)
  <2>1. a.op = "backlight" => Len(t) <= 1 /\ ~(Len(t) = 1)
    BY <1>5
  <2>2. QED
    BY <1>4, <1>6, <1>7, <2>1 DEF LeftOf, q
<1>9. QED
  BY <1>8 DEF t

-----------------------------------------------------------------------------
(* The displays: what a write does *)

(* An address of a cell is the remainder of a number. *)
LEMMA AddrOK ==
  ASSUME NEW x \in Int
  PROVE  x % Cells \in 0 .. Cells - 1
  BY CellsOK, DivMod

(* the display c with one part changed *)
SetBits8(c, b) == [c EXCEPT !.bits8 = b]
SetCgram(c, b) == [c EXCEPT !.cgram = b]
SetOn(c, b) == [c EXCEPT !.on = b]
SetBusy(c, b) == [c EXCEPT !.busy = b]
SetAddr(c, x) == [c EXCEPT !.addr = x]
SetText(c, t) == [c EXCEPT !.text = t]
SetHalf(c, h) == [c EXCEPT !.half = h]

(* d is a display, and has latched the same half as c *)
Kept(c, d) == d \in DisplayType /\ d.half = c.half

(* A display remains one if a part is changed. *)
LEMMA SetKeeps ==
  ASSUME NEW c \in DisplayType
  PROVE  /\ \A b \in BOOLEAN : Kept(c, SetBits8(c, b))
         /\ \A b \in BOOLEAN : Kept(c, SetCgram(c, b))
         /\ \A b \in BOOLEAN : Kept(c, SetOn(c, b))
         /\ \A b \in BOOLEAN : Kept(c, SetBusy(c, b))
         /\ \A x \in 0 .. Cells - 1 : Kept(c, SetAddr(c, x))
         /\ \A t \in [0 .. Cells - 1 -> 0 .. 255] : Kept(c, SetText(c, t))
         /\ \A h \in Nibble \cup {None} :
              SetHalf(c, h) \in DisplayType /\ SetHalf(c, h).half = h
<1> DEFINE H == Nibble \cup {None}
           A == 0 .. Cells - 1
           T == [0 .. Cells - 1 -> 0 .. 255]
<1>1. DisplayType =
        [bits8 : BOOLEAN, half : H, addr : A, cgram : BOOLEAN, text : T,
         on : BOOLEAN, busy : BOOLEAN]
  BY Zenon DEF DisplayType
<1> HIDE DEF H, A, T
<1>2. ASSUME NEW b \in BOOLEAN PROVE Kept(c, SetBits8(c, b))
  BY <1>1 DEF Kept, SetBits8
<1>3. ASSUME NEW b \in BOOLEAN PROVE Kept(c, SetCgram(c, b))
  BY <1>1 DEF Kept, SetCgram
<1>4. ASSUME NEW b \in BOOLEAN PROVE Kept(c, SetOn(c, b))
  BY <1>1 DEF Kept, SetOn
<1>5. ASSUME NEW b \in BOOLEAN PROVE Kept(c, SetBusy(c, b))
  BY <1>1 DEF Kept, SetBusy
<1>6. ASSUME NEW x \in A PROVE Kept(c, SetAddr(c, x))
  BY <1>1 DEF Kept, SetAddr
<1>7. ASSUME NEW t \in T PROVE Kept(c, SetText(c, t))
  BY <1>1 DEF Kept, SetText
<1>8. ASSUME NEW h \in H
      PROVE  SetHalf(c, h) \in DisplayType /\ SetHalf(c, h).half = h
  BY <1>1 DEF SetHalf
<1>9. QED
  BY <1>2, <1>3, <1>4, <1>5, <1>6, <1>7, <1>8, Zenon DEF H, A, T

(* A clear screen, and one that is homed, are displays. *)
LEMMA SetMore ==
  ASSUME NEW c \in DisplayType, NEW x \in 0 .. Cells - 1
  PROVE  /\ Kept(c, SetCgram(SetAddr(c, x), FALSE))
         /\ Kept(c, SetBusy(SetCgram(SetAddr(c, x), FALSE), TRUE))
         /\ \A t \in [0 .. Cells - 1 -> 0 .. 255] :
              /\ Kept(c, SetAddr(SetText(c, t), x))
              /\ Kept(c, SetBusy(SetCgram(SetAddr(SetText(c, t), x), FALSE),
                                 TRUE))
<1>1. FALSE \in BOOLEAN /\ TRUE \in BOOLEAN
  OBVIOUS
<1>2. \A d, e : Kept(c, d) /\ Kept(d, e) => Kept(c, e)
  BY Zenon DEF Kept
<1>3. \A d : Kept(c, d) => d \in DisplayType
  BY Zenon DEF Kept
<1>4. ASSUME NEW d, Kept(c, d)
      PROVE  /\ Kept(c, SetAddr(d, x))
             /\ \A b \in BOOLEAN : Kept(c, SetCgram(d, b))
             /\ \A b \in BOOLEAN : Kept(c, SetBusy(d, b))
  <2>1. d \in DisplayType
    BY <1>3, <1>4
  <2>2. Kept(d, SetAddr(d, x))
    BY <2>1, SetKeeps
  <2>3. ASSUME NEW b \in BOOLEAN
        PROVE  Kept(d, SetCgram(d, b)) /\ Kept(d, SetBusy(d, b))
    BY <2>1, SetKeeps
  <2>4. QED
    BY <1>2, <1>4, <2>2, <2>3, Zenon
<1>5. Kept(c, c)
  BY DEF Kept
<1>6. Kept(c, SetCgram(SetAddr(c, x), FALSE))
  BY <1>1, <1>4, <1>5, Zenon
<1>7. Kept(c, SetBusy(SetCgram(SetAddr(c, x), FALSE), TRUE))
  BY <1>1, <1>4, <1>6, Zenon
<1>8. ASSUME NEW t \in [0 .. Cells - 1 -> 0 .. 255]
      PROVE  /\ Kept(c, SetAddr(SetText(c, t), x))
             /\ Kept(c, SetBusy(SetCgram(SetAddr(SetText(c, t), x), FALSE),
                                TRUE))
  <2>1. Kept(c, SetText(c, t))
    BY SetKeeps
  <2>2. Kept(c, SetAddr(SetText(c, t), x))
    BY <1>4, <2>1
  <2>3. Kept(c, SetCgram(SetAddr(SetText(c, t), x), FALSE))
    BY <1>1, <1>4, <2>2, Zenon
  <2>4. Kept(c, SetBusy(SetCgram(SetAddr(SetText(c, t), x), FALSE), TRUE))
    BY <1>1, <1>4, <2>3, Zenon
  <2>5. QED
    BY <2>2, <2>4
<1>9. QED
  BY <1>6, <1>7, <1>8

(* a byte can be given to the display c *)
Takes(c, rs, byte) ==
  c \in DisplayType /\ rs \in BOOLEAN /\ byte \in 0 .. 255

(* What a byte does to the display: another address, mode or text. *)
LEMMA ExecutedType ==
  ASSUME NEW c, NEW rs, NEW byte, Takes(c, rs, byte)
  PROVE  Kept(c, Executed(c, rs, byte))
<1> DEFINE d == Executed(c, rs, byte)
<1>1. c \in DisplayType /\ rs \in BOOLEAN /\ byte \in 0 .. 255
  BY DEF Takes
<1>2. /\ c.addr \in 0 .. Cells - 1 /\ c.addr \in Int
      /\ c.text \in [0 .. Cells - 1 -> 0 .. 255]
  <2>1. c.addr \in 0 .. Cells - 1
    BY <1>1 DEF DisplayType
  <2>2. c.addr \in Int
    BY <2>1, CellsOK
  <2>3. QED
    BY <1>1, <2>1, <2>2 DEF DisplayType
<1>3. 0 \in 0 .. Cells - 1 /\ TRUE \in BOOLEAN
  BY CellsOK
<1>4. CASE rs /\ c.cgram
  <2>1. d = c
    BY <1>4 DEF Executed
  <2>2. QED
    BY <1>1, <2>1 DEF Kept
<1>5. CASE rs /\ ~c.cgram
  <2> DEFINE x == (c.addr + 1) % Cells
             t == [c.text EXCEPT ![c.addr] = byte]
  <2>1. d = [c EXCEPT !.text[c.addr] = byte, !.addr = (@ + 1) % Cells]
    BY <1>5 DEF Executed
  <2>2. x \in 0 .. Cells - 1
    BY <1>2, AddrOK
  <2>3. t \in [0 .. Cells - 1 -> 0 .. 255]
    BY <1>1, <1>2
  <2>4. d = SetAddr(SetText(c, t), x)
    BY <1>1, <2>1 DEF DisplayType, SetAddr, SetText
  <2> HIDE DEF x, t, d
  <2>5. Kept(c, SetAddr(SetText(c, t), x))
    BY <1>1, <2>2, <2>3, SetMore
  <2>6. QED
    BY <2>4, <2>5 DEF d
<1>6. CASE ~rs /\ byte >= DDRAM
  <2> DEFINE x == (byte - DDRAM) % Cells
  <2>1. d = SetCgram(SetAddr(c, x), FALSE)
    BY <1>6, Zenon DEF Executed, SetCgram, SetAddr
  <2>2. x \in 0 .. Cells - 1
    BY <1>1, AddrOK DEF DDRAM
  <2> HIDE DEF x, d
  <2>3. Kept(c, SetCgram(SetAddr(c, x), FALSE))
    BY <1>1, <2>2, SetMore
  <2>4. QED
    BY <2>1, <2>3 DEF d
<1>7. CASE ~rs /\ ~(byte >= DDRAM) /\ byte >= 64
  <2>1. d = SetCgram(c, TRUE)
    BY <1>7, Zenon DEF Executed, SetCgram
  <2>2. QED
    BY <1>1, <1>3, <2>1, SetKeeps, Zenon
<1>8. CASE ~rs /\ ~(byte >= DDRAM) /\ ~(byte >= 64) /\ byte >= 32
  <2> DEFINE b == (byte \div FUNC_DL) % 2 = 1
  <2>1. d = SetBits8(c, b)
    BY <1>8, Zenon DEF Executed, SetBits8
  <2>2. b \in BOOLEAN
    OBVIOUS
  <2> HIDE DEF b
  <2>3. QED
    BY <1>1, <2>1, <2>2, SetKeeps, Zenon
<1>9. CASE ~rs /\ ~(byte >= DDRAM) /\ ~(byte >= 64) /\ ~(byte >= 32)
           /\ byte >= 16
  <2> DEFINE y == IF byte % 8 >= 4 THEN c.addr + 1 ELSE c.addr - 1
             x == y % Cells
  <2>1. d = SetAddr(c, x)
    BY <1>1, <1>9 DEF Executed, DisplayType, SetAddr
  <2>2. y \in Int
    BY <1>2
  <2>3. x \in 0 .. Cells - 1
    <3> HIDE DEF y
    <3>1. QED
      BY <2>2, AddrOK
  <2> HIDE DEF x, d
  <2>4. Kept(c, SetAddr(c, x))
    BY <1>1, <2>3, SetKeeps
  <2>5. QED
    BY <2>1, <2>4 DEF d
<1>10. CASE ~rs /\ ~(byte >= DDRAM) /\ ~(byte >= 64) /\ ~(byte >= 32)
            /\ ~(byte >= 16)
  <2> DEFINE b == (byte \div 4) % 2 = 1
             t == BlankCells
  <2>1. \/ d = SetOn(c, b)
        \/ d = SetBusy(SetCgram(SetAddr(SetText(c, t), 0), FALSE), TRUE)
        \/ d = SetBusy(SetCgram(SetAddr(c, 0), FALSE), TRUE)
        \/ d = c
    BY <1>10, Zenon
    DEF Executed, SetOn, SetBusy, SetCgram, SetAddr, SetText
  <2>2. t \in [0 .. Cells - 1 -> 0 .. 255] /\ b \in BOOLEAN
    BY DEF BlankCells, BlankCell
  <2> HIDE DEF b, t, d
  <2>3. /\ Kept(c, SetOn(c, b)) /\ Kept(c, c)
        /\ Kept(c, SetBusy(SetCgram(SetAddr(SetText(c, t), 0), FALSE), TRUE))
        /\ Kept(c, SetBusy(SetCgram(SetAddr(c, 0), FALSE), TRUE))
    <3>1. Kept(c, SetOn(c, b))
      BY <1>1, <2>2, SetKeeps
    <3>2. Kept(c, c)
      BY <1>1 DEF Kept
    <3>3. /\ Kept(c, SetBusy(SetCgram(SetAddr(SetText(c, t), 0), FALSE),
                             TRUE))
          /\ Kept(c, SetBusy(SetCgram(SetAddr(c, 0), FALSE), TRUE))
      BY <1>1, <1>3, <2>2, SetMore
    <3>4. QED
      BY <3>1, <3>2, <3>3
  <2>4. QED
    BY <2>1, <2>3 DEF d
<1>11. QED
  BY <1>1, <1>4, <1>5, <1>6, <1>7, <1>8, <1>9, <1>10

(* Four bits. *)
LEMMA LatchedType ==
  ASSUME NEW c \in DisplayType, Whole(c), NEW rs \in BOOLEAN,
         NEW nibble \in Nibble
  PROVE  Latched(c, rs, nibble) \in DisplayType
         /\ Whole(Latched(c, rs, nibble))
<1> DEFINE d == Latched(c, rs, nibble)
<1>1. nibble \in 0 .. 15
  BY DEF Nibble
<1>2. CASE c.busy
  BY <1>2 DEF Latched
<1>3. CASE ~c.busy /\ c.bits8
  <2> DEFINE byte == 16 * nibble + 15
  <2>1. d = Executed(c, rs, byte)
    BY <1>3 DEF Latched
  <2>2. byte \in 0 .. 255
    BY <1>1
  <2>3. c.half = None
    BY <1>3 DEF Whole
  <2> HIDE DEF byte, d
  <2>4. Takes(c, rs, byte)
    BY <2>2 DEF Takes
  <2>5. Kept(c, d)
    BY <2>1, <2>4, ExecutedType
  <2>6. QED
    BY <2>3, <2>5 DEF Whole, Kept, d
<1>4. CASE ~c.busy /\ ~c.bits8 /\ c.half = None
  <2>1. d = SetHalf(c, nibble)
    BY <1>4 DEF Latched, SetHalf
  <2>2. d.bits8 = c.bits8
    BY <2>1 DEF SetHalf, DisplayType
  <2>3. nibble \in Nibble \cup {None}
    OBVIOUS
  <2> HIDE DEF d
  <2>4. d \in DisplayType
    BY <2>1, <2>3, SetKeeps
  <2>5. QED
    BY <1>4, <2>2, <2>4 DEF d, Whole
<1>5. CASE ~c.busy /\ ~c.bits8 /\ c.half # None
  <2> DEFINE e == SetHalf(c, None)
             byte == 16 * c.half + nibble
  <2>1. d = Executed(e, rs, byte)
    BY <1>5 DEF Latched, SetHalf
  <2>2. c.half \in 0 .. 15
    BY <1>5 DEF DisplayType, Nibble
  <2>3. byte \in 0 .. 255
    BY <1>1, <2>2
  <2>4. e \in DisplayType /\ e.half = None
    <3>1. None \in Nibble \cup {None}
      OBVIOUS
    <3>2. QED
      BY <3>1, SetKeeps
  <2> HIDE DEF e, byte, d
  <2>5. Takes(e, rs, byte)
    BY <2>3, <2>4 DEF Takes
  <2>6. Kept(e, d)
    BY <2>1, <2>5, ExecutedType
  <2>7. QED
    BY <2>4, <2>6 DEF Whole, Kept, d
<1>6. QED
  BY <1>2, <1>3, <1>4, <1>5

(* what the write w may do to the display c with the pins ps *)
EffectOf(to, c, ps, w) ==
  IF to = "aip31068"
  THEN {IF c.busy THEN c ELSE Executed(c, w.rs, w.value)}
  ELSE IF ps.e /\ ~w.e
  THEN {Latched(c, r.rs, r.value) : r \in {Expander(w), ps}}
  ELSE {c}

(* A display stays one. *)
LEMMA EffectType ==
  ASSUME NEW to \in Wires, NEW c \in DisplayType, Whole(c),
         NEW ps \in PinsType, NEW w \in WriteType,
         to = "lcd8574" => w.value \in Nibble,
         to = "aip31068" => c.half = None,
         NEW d \in EffectOf(to, c, ps, w)
  PROVE  /\ d \in DisplayType /\ Whole(d)
         /\ to = "aip31068" => d.half = None
<1>1. /\ w.rs \in BOOLEAN /\ w.value \in 0 .. 255
      /\ ps.rs \in BOOLEAN /\ ps.value \in Nibble
  BY DEF WriteType, PinsType
<1>2. CASE to = "aip31068"
  <2>1. d = c \/ d = Executed(c, w.rs, w.value)
    BY <1>2 DEF EffectOf
  <2>2. /\ Executed(c, w.rs, w.value) \in DisplayType
        /\ Executed(c, w.rs, w.value).half = None
    <3> DEFINE rs == w.rs
               byte == w.value
    <3>1. c.half = None
      BY <1>2
    <3>2. Takes(c, rs, byte)
      BY <1>1 DEF Takes
    <3> HIDE DEF rs, byte
    <3>3. Kept(c, Executed(c, rs, byte))
      BY <3>2, ExecutedType
    <3>4. QED
      BY <3>1, <3>3 DEF rs, byte, Kept
  <2>3. QED
    BY <1>2, <2>1, <2>2 DEF Whole
<1>3. CASE to # "aip31068" /\ ps.e /\ ~w.e
  <2>1. d \in {Latched(c, r.rs, r.value) : r \in {Expander(w), ps}}
    BY <1>3, Zenon DEF EffectOf
  <2>2. d = Latched(c, w.rs, w.value) \/ d = Latched(c, ps.rs, ps.value)
    BY <2>1 DEF Expander
  <2>3. w.value \in Nibble
    BY <1>3 DEF Wires
  <2>4. QED
    BY <1>1, <1>3, <2>2, <2>3, LatchedType
<1>4. CASE to # "aip31068" /\ ~(ps.e /\ ~w.e)
  <2>1. d = c
    BY <1>4 DEF EffectOf
  <2>2. QED
    BY <1>4, <2>1
<1>5. QED
  BY <1>2, <1>3, <1>4

(* And when it has been waited for. *)
LEMMA WaitedType ==
  ASSUME NEW w, NEW c \in DisplayType
  PROVE  /\ Waited(w, c) \in DisplayType
         /\ Waited(w, c).half = c.half /\ Waited(w, c).bits8 = c.bits8
         /\ Waited(w, c).addr = c.addr /\ Waited(w, c).text = c.text
         /\ Waited(w, c).on = c.on /\ Waited(w, c).cgram = c.cgram
         /\ w.waits => ~Waited(w, c).busy
         /\ ~w.waits => Waited(w, c) = c
<1>1. CASE w.waits
  <2>1. Waited(w, c) = [c EXCEPT !.busy = FALSE]
    BY <1>1 DEF Waited
  <2> DEFINE d == Waited(w, c)
  <2>2. d \in DisplayType
    BY <2>1 DEF DisplayType
  <2>3. /\ d.half = c.half /\ d.bits8 = c.bits8 /\ d.addr = c.addr
        /\ d.text = c.text /\ d.on = c.on /\ d.cgram = c.cgram /\ ~d.busy
    BY <2>1 DEF DisplayType
  <2>4. QED
    BY <1>1, <2>2, <2>3
<1>2. CASE ~w.waits
  BY <1>2 DEF Waited
<1>3. QED
  BY <1>1, <1>2

(* the display c when the byte x has been sent to it *)
Done(c, x) ==
  LET d == Executed([c EXCEPT !.half = None], x.rs, x.byte)
  IN  IF x.waits THEN [d EXCEPT !.busy = FALSE] ELSE d

(* a display that is ready has this mode, address, text *)
Has(c, bits8, addr, cgram, text, on) ==
  /\ c.bits8 = bits8 /\ c.half = None /\ ~c.busy
  /\ c.addr = addr /\ c.cgram = cgram /\ c.text = text /\ c.on = on

(* two displays show the same, and write their data to the same place *)
Same(c, d) ==
  d.addr = c.addr /\ d.cgram = c.cgram /\ d.text = c.text /\ d.on = c.on

(* When a write is next. *)
LEMMA AtWriteIs ==
  ASSUME NEW c, NEW ps, NEW x, ~c.bits8
  PROVE  /\ c.half = None /\ ps.e = FALSE => AtWrite(c, ps, x, 1)
         /\ c.half = None /\ ps.e = TRUE /\ ps.rs = x.rs
              /\ ps.value = x.byte \div 16 => AtWrite(c, ps, x, 2)
         /\ c.half = x.byte \div 16 /\ ps.e = FALSE => AtWrite(c, ps, x, 3)
         /\ c.half = x.byte \div 16 /\ ps.e = TRUE /\ ps.rs = x.rs
              /\ ps.value = x.byte % 16 => AtWrite(c, ps, x, 4)
<1>1. /\ 1 <= 2 /\ 2 <= 2 /\ ~(3 <= 2) /\ ~(4 <= 2)
      /\ (1 \in {2, 4}) = FALSE /\ (2 \in {2, 4}) = TRUE
      /\ (3 \in {2, 4}) = FALSE /\ (4 \in {2, 4}) = TRUE
      /\ 1 # 2 /\ 1 # 4 /\ 2 # 4 /\ 3 # 2 /\ 3 # 4 /\ 4 # 2
  OBVIOUS
<1>2. QED
  BY <1>1, Zenon DEF AtWrite

(* the p-th write of the byte x is next *)
Ready(to, c, ps, x, p) ==
  /\ ~c.busy
  /\ to = "aip31068" => c.half = None
  /\ to = "lcd8574" => AtWrite(c, ps, x, p)

(* w is the p-th write of the byte x *)
Writes(w, to, x, bl, p) == w = WriteOf(to, x, bl, p)

(* what it does to a display that did c before *)
Turned(to, c, x, bl, p, w, d) ==
  /\ p < Per(to) =>
       /\ to = "lcd8574"
       /\ Has([Waited(w, d) EXCEPT !.half = None], FALSE, c.addr, c.cgram,
              c.text, c.on)
       /\ AtWrite(Waited(w, d), Expander(w), x, p + 1)
  /\ p = Per(to) => Waited(w, d) = Done(c, x)
  /\ to = "lcd8574" =>
       Expander(w).light = bl /\ Expander(w).e = (p \in {1, 3})

(* The next write of a byte: the display shows the same as before, or has   *)
(* done what the byte asks for.                                             *)
LEMMA ByteTurn ==
  ASSUME NEW to \in Wires, NEW c \in DisplayType, NEW ps \in PinsType,
         NEW x \in ItemType, NEW bl \in BOOLEAN, NEW p \in 1 .. Per(to),
         Ready(to, c, ps, x, p), NEW w, Writes(w, to, x, bl, p),
         NEW d \in EffectOf(to, c, ps, w)
  PROVE  Turned(to, c, x, bl, p, w, d)
<1>1. x.byte \in 0 .. 255 /\ x.rs \in BOOLEAN /\ x.waits \in BOOLEAN
  BY DEF ItemType
<1>0. /\ ~c.busy
      /\ to = "aip31068" => c.half = None
      /\ to = "lcd8574" => AtWrite(c, ps, x, p)
  BY DEF Ready
<1>2. CASE to = "aip31068"
  <2>1. w = BusWrite(FALSE, Reg(x.rs, x.byte, bl), x.waits) /\ p = 1
        /\ Per(to) = 1 /\ to # "lcd8574"
    BY <1>2, PerIs DEF Writes, WriteOf
  <2>2. d = Executed(c, w.rs, w.value) /\ w.rs = x.rs /\ w.value = x.byte
        /\ w.waits = x.waits
    BY <1>0, <1>2, <2>1 DEF EffectOf, BusWrite, Reg
  <2>3. [c EXCEPT !.half = None] = c
    BY <1>0, <1>2 DEF DisplayType
  <2>4. Waited(w, d) = Done(c, x)
    BY <2>2, <2>3 DEF Waited, Done
  <2>5. ~(p < Per(to))
    BY <2>1
  <2>6. QED
    BY <2>1, <2>4, <2>5, Zenon DEF Turned
<1>3. CASE to = "lcd8574"
  <2> DEFINE hi == x.byte \div 16
             lo == x.byte % 16
  <2>1. hi \in 0 .. 15 /\ lo \in 0 .. 15 /\ 16 * hi + lo = x.byte
    BY <1>1
  <2> HIDE DEF hi, lo
  <2>2. /\ ~c.bits8
        /\ c.half = (IF p <= 2 THEN None ELSE hi)
        /\ p \in {2, 4} => ps.e
        /\ p \notin {2, 4} => ~ps.e
        /\ p = 2 => ps.rs = x.rs /\ ps.value = hi
        /\ p = 4 => ps.rs = x.rs /\ ps.value = lo
    BY <1>0, <1>3 DEF AtWrite, hi, lo
  <2>3. /\ w.rs = x.rs /\ w.value = (IF p <= 2 THEN hi ELSE lo)
        /\ p \in {1, 3} => w.e
        /\ p \notin {1, 3} => ~w.e
        /\ w.e = (p \in {1, 3})
        /\ w.light = bl
        /\ p # 4 => ~w.waits
        /\ p = 4 => w.waits = x.waits
    <3>1. w = BusWrite(p \in {1, 3}, Reg(x.rs, IF p <= 2 THEN hi ELSE lo, bl),
                       p = 4 /\ x.waits)
      BY <1>3 DEF Writes, WriteOf, hi, lo
    <3>2. /\ w.rs = x.rs /\ w.value = (IF p <= 2 THEN hi ELSE lo)
          /\ w.e = (p \in {1, 3}) /\ w.light = bl
          /\ w.waits = (p = 4 /\ x.waits)
      BY <3>1 DEF BusWrite, Reg
    <3>3. (p = 4) => (p = 4 /\ x.waits) = x.waits
      BY <1>1
    <3>4. QED
      BY <3>2, <3>3
  <2>4. /\ Expander(w).e = w.e /\ Expander(w).rs = w.rs
        /\ Expander(w).value = w.value /\ Expander(w).light = w.light
    BY DEF Expander
  <2>5. Per(to) = 4 /\ to # "aip31068"
        /\ (p = 1 \/ p = 2 \/ p = 3 \/ p = 4)
    BY <1>3, PerIs
  <2>6. Has([c EXCEPT !.half = None], FALSE, c.addr, c.cgram, c.text, c.on)
    BY <1>0, <2>2 DEF Has, DisplayType
  <2>7. CASE p = 1 \/ p = 3
    <3>1. ~ps.e /\ ~w.waits
      BY <2>2, <2>3, <2>7
    <3>2. EffectOf(to, c, ps, w) = {c}
      BY <2>5, <3>1 DEF EffectOf
    <3>3. Waited(w, d) = c
      BY <3>1, <3>2 DEF Waited
    <3>4. AtWrite(c, Expander(w), x, p + 1)
      <4>1. CASE p = 1
        <5>1. /\ p + 1 = 2 /\ w.e = TRUE /\ w.rs = x.rs /\ w.value = hi
              /\ (2 \in {2, 4}) = TRUE
          BY <2>3, <4>1
        <5>2. c.half = None
          BY <2>2, <4>1
        <5>3. AtWrite(c, Expander(w), x, 2)
          BY <2>2, <2>4, <5>1, <5>2, AtWriteIs DEF hi
        <5>4. QED
          BY <5>1, <5>3
      <4>2. CASE p = 3
        <5>1. /\ p + 1 = 4 /\ w.e = TRUE /\ w.rs = x.rs /\ w.value = lo
              /\ (4 \in {2, 4}) = TRUE
          BY <2>3, <4>2
        <5>2. c.half = hi
          BY <2>2, <4>2
        <5>3. AtWrite(c, Expander(w), x, 4)
          BY <2>2, <2>4, <5>1, <5>2, AtWriteIs DEF hi, lo
        <5>4. QED
          BY <5>1, <5>3
      <4>3. QED
        BY <2>7, <4>1, <4>2
    <3>5. p < Per(to) /\ p # Per(to)
      BY <2>5, <2>7
    <3>6. Expander(w).light = bl /\ Expander(w).e = (p \in {1, 3})
      BY <2>3, <2>4
    <3>7. QED
      BY <1>3, <2>6, <3>3, <3>4, <3>5, <3>6 DEF Turned
  <2>8. ASSUME p = 2 \/ p = 4
        PROVE  d = Latched(c, w.rs, w.value)
    <3>1. ps.e /\ ~w.e /\ ps.rs = w.rs /\ ps.value = w.value
      BY <2>2, <2>3, <2>8
    <3>2. d \in {Latched(c, r.rs, r.value) : r \in {Expander(w), ps}}
      BY <2>5, <3>1, Zenon DEF EffectOf
    <3>3. QED
      BY <2>4, <3>1, <3>2
  <2>9. CASE p = 2
    <3>1. d = [c EXCEPT !.half = hi] /\ ~w.waits
      <4>1. d = Latched(c, w.rs, w.value) /\ c.half = None /\ w.value = hi
            /\ ~w.waits
        BY <2>2, <2>3, <2>8, <2>9
      <4>2. QED
        BY <1>0, <2>2, <4>1 DEF Latched
    <3>2. Waited(w, d) = d
      BY <3>1 DEF Waited
    <3>3. [d EXCEPT !.half = None] = [c EXCEPT !.half = None]
      BY <3>1 DEF DisplayType
    <3>4. AtWrite(d, Expander(w), x, p + 1)
      <4>1. p + 1 = 3 /\ w.e = FALSE /\ (3 \in {2, 4}) = FALSE
        BY <2>3, <2>9
      <4>2. ~d.bits8 /\ d.half = hi
        BY <2>2, <3>1 DEF DisplayType
      <4>3. AtWrite(d, Expander(w), x, 3)
        BY <2>4, <4>1, <4>2, AtWriteIs DEF hi
      <4>4. QED
        BY <4>1, <4>3
    <3>5. p < Per(to) /\ p # Per(to)
      BY <2>5, <2>9
    <3>6. Expander(w).light = bl /\ Expander(w).e = (p \in {1, 3})
      BY <2>3, <2>4
    <3>7. QED
      BY <1>3, <2>6, <3>2, <3>3, <3>4, <3>5, <3>6 DEF Turned
  <2>10. CASE p = 4
    <3>1. d = Executed([c EXCEPT !.half = None], x.rs, x.byte)
      <4>1. d = Latched(c, w.rs, w.value) /\ c.half = hi /\ w.value = lo
            /\ w.rs = x.rs
        BY <2>2, <2>3, <2>8, <2>10
      <4>2. c.half # None
        BY <2>1, <4>1 DEF None
      <4>3. d = Executed([c EXCEPT !.half = None], w.rs,
                         16 * c.half + w.value)
        BY <1>0, <2>2, <4>1, <4>2 DEF Latched
      <4>4. QED
        BY <2>1, <4>1, <4>3
    <3>2. w.waits = x.waits
      BY <2>3, <2>10
    <3>3. Waited(w, d) = Done(c, x)
      BY <3>1, <3>2 DEF Waited, Done
    <3>4. ~(p < Per(to))
      BY <2>5, <2>10
    <3>5. Expander(w).light = bl /\ Expander(w).e = (p \in {1, 3})
      BY <2>3, <2>4
    <3>6. QED
      BY <3>3, <3>4, <3>5 DEF Turned
  <2>11. QED
    BY <2>5, <2>7, <2>9, <2>10
<1>4. QED
  BY <1>2, <1>3 DEF Wires

(* What each byte does. *)
LEMMA ByteDoes ==
  ASSUME NEW c \in DisplayType, ~c.busy
  PROVE  /\ \A to \in Wires :
              Has(Done(c, FuncItem(to)), to = "aip31068", c.addr, c.cgram,
                  c.text, c.on)
         /\ \A flag \in BOOLEAN :
              Has(Done(c, Item(FALSE, DISPLAY + (IF flag THEN 4 ELSE 0),
                               FALSE)),
                  c.bits8, c.addr, c.cgram, c.text, flag)
         /\ Has(Done(c, Item(FALSE, DISPLAY_ON, FALSE)), c.bits8, c.addr,
                c.cgram, c.text, TRUE)
         /\ Has(Done(c, Item(FALSE, CLS, TRUE)), c.bits8, 0, FALSE,
                BlankCells, c.on)
         /\ Has(Done(c, Item(FALSE, HOME, TRUE)), c.bits8, 0, FALSE, c.text,
                c.on)
         /\ \A arg \in 0 .. Cells - 1 :
              Has(Done(c, Item(FALSE, DDRAM + arg, FALSE)), c.bits8, arg,
                  FALSE, c.text, c.on)
         /\ ~c.cgram =>
              \A byte \in 0 .. 255 :
                Has(Done(c, Item(TRUE, byte, FALSE)), c.bits8,
                    (c.addr + 1) % Cells, FALSE,
                    [c.text EXCEPT ![c.addr] = byte], c.on)
<1> DEFINE e == [c EXCEPT !.half = None]
<1>1. /\ e.bits8 = c.bits8 /\ e.half = None /\ ~e.busy
      /\ e.addr = c.addr /\ e.cgram = c.cgram /\ e.text = c.text
      /\ e.on = c.on
      /\ e \in DisplayType
  BY DEF DisplayType
<1>2. \A rs, byte :
        /\ Done(c, Item(rs, byte, FALSE)) = Executed(e, rs, byte)
        /\ Done(c, Item(rs, byte, TRUE))
             = [Executed(e, rs, byte) EXCEPT !.busy = FALSE]
  BY DEF Done, Item
<1> HIDE DEF e
<1>3. ASSUME NEW to \in Wires
      PROVE  Has(Done(c, FuncItem(to)), to = "aip31068", c.addr, c.cgram,
                 c.text, c.on)
  <2>1. CASE to = "aip31068"
    <3>1. FuncItem(to) = Item(FALSE, 56, TRUE)
      BY <2>1 DEF FuncItem, FUNC, FUNC_DL
    <3>2. Executed(e, FALSE, 56) = [e EXCEPT !.bits8 = TRUE]
      <4>1. ~(56 >= 128) /\ ~(56 >= 64) /\ 56 >= 32
            /\ ((56 \div 16) % 2 = 1) = TRUE
        OBVIOUS
      <4>2. QED
        BY <4>1 DEF Executed, DDRAM, FUNC_DL
    <3> DEFINE f == [e EXCEPT !.bits8 = TRUE]
               d == [f EXCEPT !.busy = FALSE]
    <3>3. Done(c, FuncItem(to)) = d
      <4> HIDE DEF f
      <4>1. Executed(e, FALSE, 56) = f
        BY <3>2 DEF f
      <4>2. QED
        BY <1>2, <3>1, <4>1, Zenon
    <3>4. f \in DisplayType /\ f.half = None /\ f.bits8 /\ Same(c, f)
      <4>1. f = SetBits8(e, TRUE) /\ TRUE \in BOOLEAN
        BY DEF SetBits8
      <4>2. Kept(e, SetBits8(e, TRUE))
        BY <1>1, <4>1, SetKeeps, Zenon
      <4>3. f.bits8 = TRUE /\ Same(c, f)
        BY <1>1 DEF DisplayType, Same
      <4> HIDE DEF f
      <4>4. QED
        BY <1>1, <4>1, <4>2, <4>3 DEF Kept
    <3> HIDE DEF f
    <3>5. d.half = None /\ d.bits8 = TRUE /\ Same(c, d) /\ ~d.busy
      BY <3>4 DEF DisplayType, Same
    <3>6. QED
      BY <2>1, <3>3, <3>5, Zenon DEF Has, Same
  <2>2. CASE to = "lcd8574"
    <3>1. FuncItem(to) = Item(FALSE, 40, FALSE) /\ to # "aip31068"
      BY <2>2 DEF FuncItem, FUNC
    <3>2. Executed(e, FALSE, 40) = [e EXCEPT !.bits8 = FALSE]
      <4>1. ~(40 >= 128) /\ ~(40 >= 64) /\ 40 >= 32
            /\ ((40 \div 16) % 2 = 1) = FALSE
        OBVIOUS
      <4>2. QED
        BY <4>1 DEF Executed, DDRAM, FUNC_DL
    <3> DEFINE d == [e EXCEPT !.bits8 = FALSE]
    <3>3. Done(c, FuncItem(to)) = d
      BY <1>2, <3>1, <3>2, Zenon
    <3>4. d.half = None /\ d.bits8 = FALSE /\ Same(c, d) /\ ~d.busy
      BY <1>1 DEF DisplayType, Same
    <3>5. QED
      BY <3>1, <3>3, <3>4, Zenon DEF Has, Same
  <2>3. QED
    BY <2>1, <2>2 DEF Wires
<1>4. ASSUME NEW byte \in {8, 12, 15}, NEW flag \in BOOLEAN,
             flag = ((byte \div 4) % 2 = 1)
      PROVE  Has(Done(c, Item(FALSE, byte, FALSE)), c.bits8, c.addr, c.cgram,
                 c.text, flag)
  <2>1. Executed(e, FALSE, byte) = [e EXCEPT !.on = flag]
    <3>1. ~(byte >= 128) /\ ~(byte >= 64) /\ ~(byte >= 32) /\ ~(byte >= 16)
          /\ byte >= 8
      OBVIOUS
    <3>2. QED
      BY <1>4, <3>1 DEF Executed, DDRAM, DISPLAY
  <2>2. Done(c, Item(FALSE, byte, FALSE)) = [e EXCEPT !.on = flag]
    BY <1>2, <2>1, Zenon
  <2> DEFINE d == [e EXCEPT !.on = flag]
  <2>3. /\ d.bits8 = c.bits8 /\ d.half = None /\ d.addr = c.addr /\ ~d.busy
        /\ d.cgram = c.cgram /\ d.text = c.text /\ d.on = flag
    BY <1>1 DEF DisplayType
  <2>4. QED
    BY <2>2, <2>3, Zenon DEF Has
<1>5. ASSUME NEW flag \in BOOLEAN
      PROVE  Has(Done(c, Item(FALSE, DISPLAY + (IF flag THEN 4 ELSE 0),
                              FALSE)),
                 c.bits8, c.addr, c.cgram, c.text, flag)
  <2> DEFINE byte == DISPLAY + (IF flag THEN 4 ELSE 0)
  <2>1. byte \in {8, 12, 15} /\ flag = ((byte \div 4) % 2 = 1)
    <3>1. CASE flag
      <4>1. byte = 12 /\ ((12 \div 4) % 2 = 1) = TRUE
        BY <3>1 DEF DISPLAY
      <4>2. QED
        BY <3>1, <4>1
    <3>2. CASE ~flag
      <4>1. byte = 8 /\ ((8 \div 4) % 2 = 1) = FALSE
        BY <3>2 DEF DISPLAY
      <4>2. QED
        BY <3>2, <4>1
    <3>3. QED
      BY <3>1, <3>2
  <2> HIDE DEF byte
  <2>2. Has(Done(c, Item(FALSE, byte, FALSE)), c.bits8, c.addr, c.cgram,
            c.text, flag)
    BY <1>4, <2>1
  <2>3. QED
    BY <2>2 DEF byte
<1>6. Has(Done(c, Item(FALSE, DISPLAY_ON, FALSE)), c.bits8, c.addr, c.cgram,
          c.text, TRUE)
  <2>1. DISPLAY_ON = 15 /\ 15 \in {8, 12, 15}
        /\ TRUE = ((15 \div 4) % 2 = 1)
    BY DEF DISPLAY_ON
  <2>2. QED
    BY <1>4, <2>1
<1>7. Has(Done(c, Item(FALSE, CLS, TRUE)), c.bits8, 0, FALSE, BlankCells,
          c.on)
  <2> DEFINE f == [e EXCEPT !.text = BlankCells, !.addr = 0, !.cgram = FALSE,
                            !.busy = TRUE]
  <2>1. Executed(e, FALSE, 1) = f
    <3>1. ~(1 >= 128) /\ ~(1 >= 64) /\ ~(1 >= 32) /\ ~(1 >= 16) /\ ~(1 >= 8)
      OBVIOUS
    <3>2. QED
      BY <3>1 DEF Executed, DDRAM, DISPLAY, CLS
  <2> DEFINE d == [f EXCEPT !.busy = FALSE]
  <2>2. Done(c, Item(FALSE, CLS, TRUE)) = d
    <3> HIDE DEF f
    <3>1. Done(c, Item(FALSE, 1, TRUE)) = d
      BY <1>2, <2>1, Zenon
    <3>2. QED
      BY <3>1 DEF CLS
  <2>3. /\ f.bits8 = c.bits8 /\ f.half = None /\ f.addr = 0 /\ f.cgram = FALSE
        /\ f.text = BlankCells /\ f.on = c.on
        /\ f \in [bits8 : {f.bits8}, half : {f.half}, addr : {f.addr},
                  cgram : {f.cgram}, text : {f.text}, on : {f.on},
                  busy : {f.busy}]
    BY <1>1 DEF DisplayType
  <2> HIDE DEF f
  <2>4. /\ d.bits8 = c.bits8 /\ d.half = None /\ d.addr = 0 /\ ~d.busy
        /\ d.cgram = FALSE /\ d.text = BlankCells /\ d.on = c.on
    BY <2>3
  <2> HIDE DEF d
  <2>5. QED
    BY <2>2, <2>4, Zenon DEF Has
<1>8. Has(Done(c, Item(FALSE, HOME, TRUE)), c.bits8, 0, FALSE, c.text, c.on)
  <2> DEFINE f == [e EXCEPT !.addr = 0, !.cgram = FALSE, !.busy = TRUE]
  <2>1. Executed(e, FALSE, 2) = f
    <3>1. ~(2 >= 128) /\ ~(2 >= 64) /\ ~(2 >= 32) /\ ~(2 >= 16) /\ ~(2 >= 8)
          /\ 2 # 1 /\ 2 \in {2, 3}
      OBVIOUS
    <3>2. QED
      BY <3>1 DEF Executed, DDRAM, DISPLAY, CLS, HOME
  <2> DEFINE d == [f EXCEPT !.busy = FALSE]
  <2>2. Done(c, Item(FALSE, HOME, TRUE)) = d
    <3> HIDE DEF f
    <3>1. Done(c, Item(FALSE, 2, TRUE)) = d
      BY <1>2, <2>1, Zenon
    <3>2. QED
      BY <3>1 DEF HOME
  <2>3. /\ f.bits8 = c.bits8 /\ f.half = None /\ f.addr = 0 /\ f.cgram = FALSE
        /\ f.text = c.text /\ f.on = c.on
        /\ f \in [bits8 : {f.bits8}, half : {f.half}, addr : {f.addr},
                  cgram : {f.cgram}, text : {f.text}, on : {f.on},
                  busy : {f.busy}]
    BY <1>1 DEF DisplayType
  <2> HIDE DEF f
  <2>4. /\ d.bits8 = c.bits8 /\ d.half = None /\ d.addr = 0 /\ ~d.busy
        /\ d.cgram = FALSE /\ d.text = c.text /\ d.on = c.on
    BY <2>3
  <2> HIDE DEF d
  <2>5. QED
    BY <2>2, <2>4, Zenon DEF Has
<1>9. ASSUME NEW arg \in 0 .. Cells - 1
      PROVE  Has(Done(c, Item(FALSE, DDRAM + arg, FALSE)), c.bits8, arg,
                 FALSE, c.text, c.on)
  <2>1. (DDRAM + arg) - DDRAM = arg /\ DDRAM + arg >= DDRAM
    BY CellsOK DEF DDRAM
  <2>2. arg % Cells = arg
    BY CellsOK, ModSmall
  <2> DEFINE byte == DDRAM + arg
  <2> HIDE DEF byte
  <2>3. byte >= DDRAM /\ (byte - DDRAM) % Cells = arg
    BY <2>1, <2>2 DEF byte
  <2>4. Executed(e, FALSE, byte) = [e EXCEPT !.addr = arg, !.cgram = FALSE]
    BY <2>3 DEF Executed
  <2>5. Done(c, Item(FALSE, byte, FALSE))
          = [e EXCEPT !.addr = arg, !.cgram = FALSE]
    BY <1>2, <2>4, Zenon
  <2>6. Has(Done(c, Item(FALSE, byte, FALSE)), c.bits8, arg, FALSE, c.text,
            c.on)
    <3> DEFINE d == [e EXCEPT !.addr = arg, !.cgram = FALSE]
    <3>1. /\ d.bits8 = c.bits8 /\ d.half = None /\ d.addr = arg /\ ~d.busy
          /\ d.cgram = FALSE /\ d.text = c.text /\ d.on = c.on
      BY <1>1 DEF DisplayType
    <3>2. QED
      BY <2>5, <3>1, Zenon DEF Has
  <2>7. QED
    BY <2>6 DEF byte
<1>10. ASSUME NEW byte \in 0 .. 255, ~c.cgram
       PROVE  Has(Done(c, Item(TRUE, byte, FALSE)), c.bits8,
                  (c.addr + 1) % Cells, FALSE,
                  [c.text EXCEPT ![c.addr] = byte], c.on)
  <2> DEFINE u == [c.text EXCEPT ![c.addr] = byte]
             x == (c.addr + 1) % Cells
             f == [e EXCEPT !.text[e.addr] = byte, !.addr = (@ + 1) % Cells]
  <2>1. Executed(e, TRUE, byte) = f
    BY <1>1, <1>10 DEF Executed
  <2>2. Done(c, Item(TRUE, byte, FALSE)) = f
    BY <1>2, <2>1, Zenon
  <2>3. /\ f.bits8 = c.bits8 /\ f.half = None /\ f.addr = x
        /\ f.cgram = FALSE /\ f.text = u /\ f.on = c.on /\ ~f.busy
    <3>1. c.cgram = FALSE
      BY <1>10 DEF DisplayType
    <3>2. QED
      BY <1>1, <3>1 DEF DisplayType
  <2> HIDE DEF f
  <2>4. QED
    BY <2>2, <2>3, Zenon DEF Has
<1>11. QED
  BY <1>3, <1>5, <1>6, <1>7, <1>8, <1>9, <1>10

(* the pins and the driver's copy of them after the write w *)
PinsAfter(to, w, ps) == IF to = "lcd8574" THEN Expander(w) ELSE ps
RegAfter(to, w, reg) ==
  IF to = "lcd8574" THEN [Expander(w) EXCEPT !.e = FALSE] ELSE reg

(* They have their types and the light of the write. *)
LEMMA PinsKeep ==
  ASSUME NEW to \in Wires, NEW w \in WriteType, NEW ps \in PinsType,
         NEW reg \in RegType, to = "lcd8574" => w.value \in Nibble
  PROVE  /\ PinsAfter(to, w, ps) \in PinsType
         /\ RegAfter(to, w, reg) \in RegType
         /\ to = "lcd8574" =>
              /\ PinsAfter(to, w, ps) = Expander(w)
              /\ PinsAfter(to, w, ps).light = w.light
              /\ RegAfter(to, w, reg).light = w.light
         /\ to = "aip31068" =>
              PinsAfter(to, w, ps) = ps /\ RegAfter(to, w, reg) = reg
<1>1. w.e \in BOOLEAN /\ w.rs \in BOOLEAN /\ w.light \in BOOLEAN
  BY DEF WriteType
<1>2. CASE to = "lcd8574"
  <2>1. Expander(w) \in PinsType
    BY <1>1, <1>2 DEF Expander, PinsType
  <2>2. [Expander(w) EXCEPT !.e = FALSE] \in RegType
        /\ [Expander(w) EXCEPT !.e = FALSE].light = w.light
    BY <1>1, <1>2 DEF Expander, RegType
  <2>3. Expander(w).light = w.light /\ to # "aip31068"
    BY <1>2 DEF Expander
  <2>4. QED
    BY <1>2, <2>1, <2>2, <2>3 DEF PinsAfter, RegAfter
<1>3. CASE to = "aip31068"
  BY <1>3 DEF PinsAfter, RegAfter
<1>4. QED
  BY <1>2, <1>3 DEF Wires

(* the hypotheses on a display of which n writes are left of the call a *)
Displays(to, a, c, ps, reg) ==
  /\ a \in CallType /\ c \in DisplayType /\ Whole(c)
  /\ ps \in PinsType /\ reg \in RegType
  /\ to = "aip31068" =>
       /\ ps = Low /\ reg = Low /\ c.half = None
       /\ a.op # "backlight" /\ (a.op = "init" => ~a.flag)

(* the p-th write w of the k-th byte of a call did d to the display c *)
ItemTurned(to, a, c, ps, reg, k, p, w, d) ==
  /\ Items(to, a)[k] \in ItemType /\ LightOf(a, reg) \in BOOLEAN
  /\ w \in WriteType /\ (to = "lcd8574" => w.value \in Nibble)
  /\ w.light = LightOf(a, reg)
  /\ p < Per(to) =>
       /\ to = "lcd8574"
       /\ Has([Waited(w, d) EXCEPT !.half = None], FALSE, c.addr,
              c.cgram, c.text, c.on)
       /\ AtWrite(Waited(w, d), Expander(w), Items(to, a)[k], p + 1)
  /\ p = Per(to) => Waited(w, d) = Done(c, Items(to, a)[k])
  /\ to = "lcd8574" =>
       /\ Expander(w).e = (p \in {1, 3})
       /\ AtWrite(c, ps, Items(to, a)[k], p)

(* The next write of a call's bytes. *)
LEMMA ItemTurn ==
  ASSUME NEW to \in Wires, NEW a, NEW c, NEW ps, NEW reg,
         Displays(to, a, c, ps, reg), NEW n, NEW w,
         NEW k \in 1 .. Len(Items(to, a)), NEW p \in 1 .. Per(to),
         ItemWrite(w, n, to, a, reg, k, p), GoodAt(to, a, c, ps, reg, n),
         NEW d \in EffectOf(to, c, ps, w)
  PROVE  ItemTurned(to, a, c, ps, reg, k, p, w, d)
<1> DEFINE x == Items(to, a)[k]
           bl == LightOf(a, reg)
<1>1. a \in CallType /\ c \in DisplayType /\ ps \in PinsType
      /\ reg \in RegType /\ (to = "aip31068" => c.half = None)
  BY DEF Displays
<1>2. x \in ItemType
  <2>1. Items(to, a) \in Seq(ItemType)
    BY <1>1, ItemsType
  <2>2. QED
    BY <2>1, ElementOfSeq
<1>3. bl \in BOOLEAN
  BY <1>1 DEF LightOf, CallType, RegType
<1>4. w = WriteOf(to, x, bl, p) /\ n = Back(to, Len(Items(to, a)), k, p)
  BY DEF ItemWrite
<1>5. ~c.busy
  BY DEF GoodAt
<1>6. ASSUME to = "lcd8574" PROVE AtWrite(c, ps, x, p)
  <2>1. p \in 1 .. 4
    BY <1>6, PerIs
  <2>2. \A i \in 1 .. Len(Items(to, a)), j \in 1 .. 4 :
          n = Back(to, Len(Items(to, a)), i, j) =>
            AtWrite(c, ps, Items(to, a)[i], j)
    BY <1>6, Zenon DEF GoodAt
  <2>3. QED
    BY <1>4, <2>1, <2>2
<1> HIDE DEF x, bl
<1>7. w \in WriteType /\ (to = "lcd8574" => w.value \in Nibble)
  <2>1. WriteOf(to, x, bl, p) \in WriteType
        /\ (to = "lcd8574" => WriteOf(to, x, bl, p).value \in Nibble)
    BY <1>2, <1>3, WriteOfType
  <2>2. QED
    BY <1>4, <2>1
<1>0. Writes(w, to, x, bl, p)
  BY <1>4 DEF Writes
<1>8. w.light = bl
  BY <1>4 DEF WriteOf, BusWrite, Reg
<1>11. Ready(to, c, ps, x, p)
  BY <1>1, <1>5, <1>6 DEF Ready
<1>9. Turned(to, c, x, bl, p, w, d)
  BY <1>0, <1>1, <1>2, <1>3, <1>11, ByteTurn
<1>12. /\ p < Per(to) =>
            /\ to = "lcd8574"
            /\ Has([Waited(w, d) EXCEPT !.half = None], FALSE, c.addr,
                   c.cgram, c.text, c.on)
            /\ AtWrite(Waited(w, d), Expander(w), x, p + 1)
       /\ p = Per(to) => Waited(w, d) = Done(c, x)
       /\ to = "lcd8574" => Expander(w).e = (p \in {1, 3})
  BY <1>9, Zenon DEF Turned
<1>10. QED
  BY <1>2, <1>3, <1>6, <1>7, <1>8, <1>12 DEF x, bl, ItemTurned

(* the display e has done the k-th byte of the call a, and was c before *)
ItemDid(to, a, c, k, e) ==
  /\ a.op = "init" =>
       /\ Len(Items(to, a)) \in {4, 6}
       /\ k <= Len(Items(to, a)) - 3 =>
            Has(e, to = "aip31068", c.addr, c.cgram, c.text, c.on)
       /\ k = Len(Items(to, a)) - 2 =>
            Has(e, c.bits8, c.addr, c.cgram, c.text, FALSE)
       /\ k = Len(Items(to, a)) - 1 =>
            Has(e, c.bits8, 0, FALSE, BlankCells, c.on)
       /\ k = Len(Items(to, a)) =>
            Has(e, c.bits8, c.addr, c.cgram, c.text, TRUE)
  /\ a.op = "cls" => Has(e, c.bits8, 0, FALSE, BlankCells, c.on)
  /\ a.op = "home" => Has(e, c.bits8, 0, FALSE, c.text, c.on)
  /\ a.op = "pos" => Has(e, c.bits8, a.arg, FALSE, c.text, c.on)
  /\ a.op = "mode" =>
       Has(e, c.bits8, c.addr, c.cgram, c.text, a.flag)
  /\ a.op = "write" =>
       Has(e, c.bits8, (c.addr + 1) % Cells, FALSE,
           [c.text EXCEPT ![c.addr] = a.data[k]], c.on)

(* What the bytes of a call do, one after the other. *)
LEMMA ItemDone ==
  ASSUME NEW to \in Wires, NEW a \in CallType, NEW c \in DisplayType,
         ~c.busy, CarefulHome, a.op = "write" => ~c.cgram,
         NEW k \in 1 .. Len(Items(to, a)),
         NEW e, e = Done(c, Items(to, a)[k])
  PROVE  ItemDid(to, a, c, k, e)
<1> DEFINE q == Items(to, a)
           N == Len(q)
<1>1. /\ Has(Done(c, FuncItem(to)), to = "aip31068", c.addr, c.cgram,
             c.text, c.on)
      /\ Has(Done(c, Item(FALSE, DISPLAY_ON, FALSE)), c.bits8, c.addr,
             c.cgram, c.text, TRUE)
      /\ Has(Done(c, Item(FALSE, CLS, TRUE)), c.bits8, 0, FALSE,
             BlankCells, c.on)
      /\ Has(Done(c, Item(FALSE, HOME, TRUE)), c.bits8, 0, FALSE, c.text,
             c.on)
  BY ByteDoes
<1>2. \A flag \in BOOLEAN :
        Has(Done(c, Item(FALSE, DISPLAY + (IF flag THEN 4 ELSE 0), FALSE)),
            c.bits8, c.addr, c.cgram, c.text, flag)
  BY ByteDoes
<1>3. \A arg \in 0 .. Cells - 1 :
        Has(Done(c, Item(FALSE, DDRAM + arg, FALSE)), c.bits8, arg,
            FALSE, c.text, c.on)
  BY ByteDoes
<1>4. /\ a.arg \in 0 .. Cells - 1 /\ a.flag \in BOOLEAN
      /\ a.data \in Seq(0 .. 255)
  BY DEF CallType
<1>5. CASE a.op = "init"
  <2> DEFINE z == StartItems(to)
  <2>1. q = z
    BY <1>5, ItemsType
  <2>2. /\ z \in Seq(ItemType)
        /\ to = "aip31068" => Len(z) = 6
        /\ to = "lcd8574" => Len(z) = 4
        /\ \A i \in 1 .. Len(z) - 3 : z[i] = FuncItem(to)
        /\ z[Len(z) - 2] = Item(FALSE, DISPLAY, FALSE)
        /\ z[Len(z) - 1] = Item(FALSE, CLS, TRUE)
        /\ z[Len(z)] = Item(FALSE, DISPLAY_ON, FALSE)
    <3>1. TRUE \in BOOLEAN
      OBVIOUS
    <3>2. QED
      BY <3>1, InitSent
  <2> HIDE DEF z, q
  <2>3. N \in {4, 6} /\ N = Len(z)
    BY <2>1, <2>2 DEF Wires
  <2> HIDE DEF N
  <2>4. Has(Done(c, Item(FALSE, DISPLAY, FALSE)), c.bits8, c.addr, c.cgram,
            c.text, FALSE)
    <3>1. DISPLAY + (IF FALSE THEN 4 ELSE 0) = DISPLAY
      BY DEF DISPLAY
    <3>2. Has(Done(c, Item(FALSE, DISPLAY + (IF FALSE THEN 4 ELSE 0),
                           FALSE)),
              c.bits8, c.addr, c.cgram, c.text, FALSE)
      BY <1>2, Zenon
    <3>3. QED
      BY <3>1, <3>2, Zenon
  <2>5. e = Done(c, q[k]) /\ k \in 1 .. N
    BY DEF q, N
  <2>6. ASSUME k <= N - 3
        PROVE  Has(e, to = "aip31068", c.addr, c.cgram, c.text, c.on)
    <3>1. k \in 1 .. N - 3
      BY <2>3, <2>5, <2>6
    <3>2. q[k] = FuncItem(to)
      BY <2>1, <2>2, <2>3, <3>1
    <3>3. QED
      BY <1>1, <2>5, <3>2, Zenon
  <2>7. ASSUME k = N - 2
        PROVE  Has(e, c.bits8, c.addr, c.cgram, c.text, FALSE)
    <3>1. q[k] = Item(FALSE, DISPLAY, FALSE)
      BY <2>1, <2>2, <2>3, <2>7
    <3>2. QED
      BY <2>4, <2>5, <3>1, Zenon
  <2>8. ASSUME k = N - 1
        PROVE  Has(e, c.bits8, 0, FALSE, BlankCells, c.on)
    <3>1. q[k] = Item(FALSE, CLS, TRUE)
      BY <2>1, <2>2, <2>3, <2>8
    <3>2. QED
      BY <1>1, <2>5, <3>1, Zenon
  <2>9. ASSUME k = N
        PROVE  Has(e, c.bits8, c.addr, c.cgram, c.text, TRUE)
    <3>1. q[k] = Item(FALSE, DISPLAY_ON, FALSE)
      BY <2>1, <2>2, <2>3, <2>9
    <3>2. QED
      BY <1>1, <2>5, <3>1, Zenon
  <2>10. QED
    BY <1>5, <2>3, <2>6, <2>7, <2>8, <2>9 DEF N, q, ItemDid
<1>6. CASE a.op \in {"cls", "home", "pos", "mode"}
  <2>1. N = 1 /\ q[1] = Command(a)
    BY <1>6, ItemsType
  <2>2. e = Done(c, Command(a))
    <3>1. k = 1
      BY <2>1
    <3>2. QED
      BY <2>1, <3>1
  <2>3. ASSUME a.op = "cls"
        PROVE  Has(e, c.bits8, 0, FALSE, BlankCells, c.on)
    <3>1. Command(a) = Item(FALSE, CLS, TRUE)
      BY <2>3 DEF Command
    <3>2. QED
      BY <1>1, <2>2, <3>1, Zenon
  <2>4. ASSUME a.op = "home"
        PROVE  Has(e, c.bits8, 0, FALSE, c.text, c.on)
    <3>1. CarefulHome = TRUE
      BY LcdConstantsOK
    <3>2. Command(a) = Item(FALSE, HOME, TRUE)
      BY <2>4, <3>1 DEF Command
    <3>3. QED
      BY <1>1, <2>2, <3>2, Zenon
  <2>5. ASSUME a.op = "pos"
        PROVE  Has(e, c.bits8, a.arg, FALSE, c.text, c.on)
    <3>1. Command(a) = Item(FALSE, DDRAM + a.arg, FALSE)
      BY <2>5 DEF Command
    <3>2. QED
      BY <1>3, <1>4, <2>2, <3>1, Zenon
  <2>6. ASSUME a.op = "mode"
        PROVE  Has(e, c.bits8, c.addr, c.cgram, c.text, a.flag)
    <3>1. Command(a) = Item(FALSE, DISPLAY + (IF a.flag THEN 4 ELSE 0),
                            FALSE)
      BY <2>6 DEF Command
    <3>2. QED
      BY <1>2, <1>4, <2>2, <3>1, Zenon
  <2>7. a.op # "init" /\ a.op # "write"
    BY <1>6
  <2>8. QED
    BY <2>3, <2>4, <2>5, <2>6, <2>7, Zenon DEF ItemDid
<1>7. CASE a.op = "write"
  <2>1. q = DataItems(a.data)
    BY <1>7, ItemsType
  <2>2. Len(DataItems(a.data)) = Len(a.data)
        /\ \A i \in 1 .. Len(a.data) :
             DataItems(a.data)[i] = Item(TRUE, a.data[i], FALSE)
    BY <1>4, DataItemsType
  <2>3. k \in 1 .. Len(a.data) /\ q[k] = Item(TRUE, a.data[k], FALSE)
    BY <2>1, <2>2
  <2>4. a.data[k] \in 0 .. 255
    BY <1>4, <2>3, ElementOfSeq
  <2>5. \A byte \in 0 .. 255 :
          Has(Done(c, Item(TRUE, byte, FALSE)), c.bits8,
              (c.addr + 1) % Cells, FALSE,
              [c.text EXCEPT ![c.addr] = byte], c.on)
    <3>1. ~c.cgram
      BY <1>7
    <3>2. QED
      BY <3>1, ByteDoes
  <2>6. Has(e, c.bits8, (c.addr + 1) % Cells, FALSE,
            [c.text EXCEPT ![c.addr] = a.data[k]], c.on)
    BY <2>3, <2>4, <2>5, Zenon
  <2>7. QED
    BY <1>7, <2>6 DEF ItemDid
<1>8. CASE a.op \notin {"init", "cls", "home", "pos", "mode", "write"}
  BY <1>8 DEF ItemDid
<1>9. QED
  BY <1>5, <1>6, <1>7, <1>8

(* What a display that has this mode shows. *)
LEMMA HasOf ==
  ASSUME NEW c \in DisplayType, NEW bits8, NEW addr, NEW cgram, NEW text,
         NEW on, Has([c EXCEPT !.half = None], bits8, addr, cgram, text, on)
  PROVE  /\ c.bits8 = bits8 /\ ~c.busy /\ c.addr = addr
         /\ c.cgram = cgram /\ c.text = text /\ c.on = on
<1> DEFINE d == [c EXCEPT !.half = None]
<1>1. /\ d.bits8 = c.bits8 /\ d.busy = c.busy /\ d.addr = c.addr
      /\ d.cgram = c.cgram /\ d.text = c.text /\ d.on = c.on
  BY DEF DisplayType
<1>2. /\ d.bits8 = bits8 /\ ~d.busy /\ d.addr = addr
      /\ d.cgram = cgram /\ d.text = text /\ d.on = on
  BY Zenon DEF Has
<1> HIDE DEF d
<1>3. QED
  BY <1>1, <1>2

(* the display d after the p-th write of the k-th byte *)
AfterItem(to, a, c, ps2, k, p, d) ==
  /\ d \in DisplayType /\ ~d.busy
  /\ p < Per(to) =>
       /\ to = "lcd8574" /\ Same(c, d)
       /\ AtWrite(d, ps2, Items(to, a)[k], p + 1)
  /\ p = Per(to) =>
       /\ ItemDid(to, a, c, k, d)
       /\ to = "lcd8574" => AtRest(d, ps2)

(* The next write of a byte. *)
LEMMA ItemAfter ==
  ASSUME NEW to \in Wires, NEW a, NEW c, NEW ps, NEW reg, CarefulHome,
         Displays(to, a, c, ps, reg), NEW n, NEW w,
         NEW k \in 1 .. Len(Items(to, a)), NEW p \in 1 .. Per(to),
         ItemWrite(w, n, to, a, reg, k, p), GoodAt(to, a, c, ps, reg, n),
         NEW d \in EffectOf(to, c, ps, w)
  PROVE  /\ AfterItem(to, a, c, PinsAfter(to, w, ps), k, p, Waited(w, d))
         /\ w \in WriteType /\ (to = "lcd8574" => w.value \in Nibble)
         /\ w.light = LightOf(a, reg)
<1> DEFINE e == Waited(w, d)
           ps2 == PinsAfter(to, w, ps)
           x == Items(to, a)[k]
<1>1. a \in CallType /\ c \in DisplayType /\ Whole(c) /\ ps \in PinsType
      /\ reg \in RegType /\ (to = "aip31068" => c.half = None)
  BY DEF Displays
<1>2. ItemTurned(to, a, c, ps, reg, k, p, w, d)
  BY ItemTurn
<1>3. /\ w \in WriteType /\ (to = "lcd8574" => w.value \in Nibble)
      /\ w.light = LightOf(a, reg)
  BY <1>2 DEF ItemTurned
<1>4. d \in DisplayType
  BY <1>1, <1>3, EffectType
<1>5. e \in DisplayType
  BY <1>4, WaitedType
<1>6. ~c.busy /\ (a.op = "write" => ~c.cgram)
  BY DEF GoodAt
<1>7. to = "lcd8574" => ps2 = Expander(w)
  BY DEF PinsAfter
<1>8. CASE p < Per(to)
  <2>1. to = "lcd8574"
        /\ Has([e EXCEPT !.half = None], FALSE, c.addr, c.cgram, c.text, c.on)
        /\ AtWrite(e, Expander(w), x, p + 1)
    BY <1>2, <1>8, Zenon DEF ItemTurned
  <2>2. p # Per(to)
    BY <1>8, PerIs
  <2> HIDE DEF e, ps2, x
  <2>3. ~e.busy /\ Same(c, e)
    <3>1. /\ e.bits8 = FALSE /\ ~e.busy /\ e.addr = c.addr
          /\ e.cgram = c.cgram /\ e.text = c.text /\ e.on = c.on
      BY <1>5, <2>1, HasOf
    <3>2. QED
      BY <3>1 DEF Same
  <2>4. AfterItem(to, a, c, ps2, k, p, e)
    BY <1>5, <1>7, <2>1, <2>2, <2>3, Zenon DEF AfterItem, x
  <2>5. QED
    BY <1>3, <2>4 DEF e, ps2
<1>9. CASE p = Per(to)
  <2>1. e = Done(c, x)
    BY <1>2, <1>9, Zenon DEF ItemTurned
  <2>2. ItemDid(to, a, c, k, e)
    <3> HIDE DEF e
    <3>1. QED
      BY <1>1, <1>6, <2>1, ItemDone
  <2>3. to = "lcd8574" => ~c.bits8
    BY <1>2 DEF ItemTurned, AtWrite
  <2>4. to = "lcd8574" => ~Expander(w).e
    <3> SUFFICES ASSUME to = "lcd8574" PROVE ~Expander(w).e
      OBVIOUS
    <3>1. p = 4
      BY <1>9, PerIs
    <3>2. Expander(w).e = (p \in {1, 3})
      BY <1>2 DEF ItemTurned
    <3>3. (4 \in {1, 3}) = FALSE
      OBVIOUS
    <3>4. Expander(w).e = FALSE
      BY <3>1, <3>2, <3>3, Zenon
    <3>5. QED
      BY <3>4
  <2>5. a.op \in {"init", "cls", "home", "pos", "mode", "write"}
    BY <1>1 DEF ItemWrite, CallType
  <2>6. \A b, ad, g, t, o : Has(e, b, ad, g, t, o) =>
                               ~e.busy /\ e.half = None /\ e.bits8 = b
    BY Zenon DEF Has
  <2>7. /\ ~e.busy /\ e.half = None
        /\ e.bits8 = c.bits8 \/ e.bits8 = (to = "aip31068")
    <3> HIDE DEF e
    <3>1. CASE a.op = "init"
      <4> DEFINE N == Len(Items(to, a))
      <4>1. N \in {4, 6} /\ k \in 1 .. N
        BY <2>2, <3>1 DEF ItemDid
      <4>2. /\ k <= N - 3 =>
                 Has(e, to = "aip31068", c.addr, c.cgram, c.text, c.on)
            /\ k = N - 2 => Has(e, c.bits8, c.addr, c.cgram, c.text, FALSE)
            /\ k = N - 1 => Has(e, c.bits8, 0, FALSE, BlankCells, c.on)
            /\ k = N => Has(e, c.bits8, c.addr, c.cgram, c.text, TRUE)
        BY <2>2, <3>1, Zenon DEF ItemDid
      <4> HIDE DEF N
      <4>3. k <= N - 3 \/ k = N - 2 \/ k = N - 1 \/ k = N
        BY <4>1
      <4>4. QED
        BY <2>6, <4>2, <4>3, Zenon
    <3>2. CASE a.op = "cls"
      BY <2>2, <2>6, <3>2, Zenon DEF ItemDid
    <3>3. CASE a.op = "home"
      BY <2>2, <2>6, <3>3, Zenon DEF ItemDid
    <3>4. CASE a.op = "pos"
      BY <2>2, <2>6, <3>4, Zenon DEF ItemDid
    <3>5. CASE a.op = "mode"
      BY <2>2, <2>6, <3>5, Zenon DEF ItemDid
    <3>6. CASE a.op = "write"
      BY <2>2, <2>6, <3>6, Zenon DEF ItemDid
    <3>7. QED
      BY <2>5, <3>1, <3>2, <3>3, <3>4, <3>5, <3>6
  <2> HIDE DEF e, ps2, x
  <2>8. to = "lcd8574" => AtRest(e, ps2)
    BY <1>7, <2>3, <2>4, <2>7 DEF AtRest
  <2>9. ~(p < Per(to))
    BY <1>9, PerIs
  <2>10. AfterItem(to, a, c, ps2, k, p, e)
    BY <1>5, <2>2, <2>7, <2>8, <2>9, Zenon DEF AfterItem
  <2>11. QED
    BY <1>3, <2>10 DEF e, ps2
<1>10. p < Per(to) \/ p = Per(to)
  BY PerIs
<1>11. QED
  BY <1>8, <1>9, <1>10

(* The pins and their copy agree on the backlight. *)
LEMMA LightsAgree ==
  ASSUME NEW to \in Wires, NEW a, NEW c, NEW ps, NEW reg,
         Displays(to, a, c, ps, reg), NEW w
  PROVE  /\ PinsAfter(to, w, ps).light = RegAfter(to, w, reg).light
         /\ a.op = "init" /\ w.light = a.flag =>
              PinsAfter(to, w, ps).light = a.flag
<1>1. CASE to = "lcd8574"
  <2>1. PinsAfter(to, w, ps).light = w.light
    BY <1>1 DEF PinsAfter, Expander
  <2>2. RegAfter(to, w, reg).light = w.light
    BY <1>1 DEF RegAfter, Expander
  <2>3. QED
    BY <2>1, <2>2
<1>2. CASE to = "aip31068"
  <2>1. PinsAfter(to, w, ps) = Low /\ RegAfter(to, w, reg) = Low
        /\ (a.op = "init" => ~a.flag) /\ a \in CallType
    BY <1>2 DEF PinsAfter, RegAfter, Displays
  <2>2. Low.light = FALSE /\ a.flag \in BOOLEAN
    BY <2>1 DEF Low, CallType
  <2>3. QED
    BY <2>1, <2>2
<1>3. QED
  BY <1>1, <1>2 DEF Wires

(* A write of a byte leaves what an initialisation has done so far. *)
LEMMA ClearedItem ==
  ASSUME NEW to \in Wires, NEW a \in CallType, a.op = "init",
         NEW c \in DisplayType, NEW ps, NEW ps2,
         NEW k \in 1 .. Len(Items(to, a)), NEW p \in 1 .. Per(to),
         NEW n, n = Back(to, Len(Items(to, a)), k, p),
         Blanked(to, a, c, ps, n), NEW d, AfterItem(to, a, c, ps2, k, p, d),
         ps2.light = a.flag
  PROVE  Blanked(to, a, d, ps2, n - 1)
<1> DEFINE N == Len(Items(to, a))
           w == Per(to)
<1>1. N \in {4, 6} /\ N \in Nat
  <2>1. Items(to, a) = StartItems(to)
    BY ItemsType
  <2>2. Len(StartItems(to)) \in {4, 6}
    <3>1. TRUE \in BOOLEAN
      OBVIOUS
    <3>2. /\ to = "aip31068" => Len(StartItems(to)) = 6
          /\ to = "lcd8574" => Len(StartItems(to)) = 4
      BY <3>1, InitSent
    <3>3. QED
      BY <3>2 DEF Wires
  <2>3. QED
    BY <2>1, <2>2
<1>2. w \in 1 .. 4 /\ (to = "aip31068" => w = 1) /\ (to = "lcd8574" => w = 4)
  BY PerIs
<1>3. /\ n <= w => c.text = BlankCells /\ c.addr = 0 /\ ~c.cgram
      /\ n = 0 => c.on /\ ps.light = a.flag
  BY DEF Blanked
<1>4. /\ p < w => Same(c, d)
      /\ p = w => ItemDid(to, a, c, k, d)
  BY DEF AfterItem
<1> HIDE DEF N, w
<1>5. n = w * (N - k) + (w - p + 1) /\ k \in 1 .. N /\ p \in 1 .. w
  <2>1. CASE to = "aip31068"
    <3>1. n = N - k + 1 /\ w = 1
      BY <1>2, <2>1 DEF Back, N
    <3>2. k \in 1 .. N /\ p \in 1 .. w
      BY DEF N, w
    <3>3. QED
      BY <1>1, <3>1, <3>2
  <2>2. CASE to = "lcd8574"
    <3>1. n = 4 * (N - k) + 5 - p /\ w = 4
      BY <1>2, <2>2 DEF Back, N
    <3>2. k \in 1 .. N /\ p \in 1 .. w
      BY DEF N, w
    <3>3. QED
      BY <1>1, <3>1, <3>2
  <2>3. QED
    BY <2>1, <2>2 DEF Wires
<1>6. CASE p < w
  <2>1. Same(c, d)
    BY <1>4, <1>6
  <2>2. n - 1 <= w => n <= w
    <3>1. CASE k = N
      BY <1>1, <1>2, <1>5, <3>1
    <3>2. CASE k # N
      <4>1. N - k >= 1
        BY <1>1, <1>5, <3>2
      <4>2. w * (N - k) >= w
        BY <1>1, <1>2, <1>5, <4>1
      <4>3. w * (N - k) \in Int
        BY <1>1, <1>2, <1>5
      <4>4. QED
        BY <1>2, <1>5, <1>6, <4>2, <4>3
    <3>3. QED
      BY <3>1, <3>2
  <2>3. n - 1 # 0
    <3>1. w * (N - k) \in Nat
      BY <1>1, <1>2, <1>5
    <3>2. QED
      BY <1>2, <1>5, <1>6, <3>1
  <2>4. n - 1 <= w => d.text = BlankCells /\ d.addr = 0 /\ ~d.cgram
    BY <1>3, <2>1, <2>2 DEF Same
  <2>5. QED
    BY <2>3, <2>4 DEF Blanked, w
<1>7. CASE p = w
  <2>1. ItemDid(to, a, c, k, d)
    BY <1>4, <1>7
  <2>2. n = w * (N - k) + 1
    BY <1>1, <1>2, <1>5, <1>7
  <2>3. CASE k <= N - 2
    <3>1. w * (N - k) >= w * 2
      <4>1. N - k >= 2 /\ N - k \in Nat
        BY <1>1, <1>5, <2>3
      <4>2. QED
        BY <1>2, <4>1
    <3>2. w * (N - k) \in Nat
      BY <1>1, <1>2, <1>5
    <3>3. ~(n - 1 <= w) /\ n - 1 # 0
      BY <1>2, <2>2, <3>1, <3>2
    <3>4. QED
      BY <3>3 DEF Blanked, w
  <2>4. CASE k = N - 1
    <3>1. Has(d, c.bits8, 0, FALSE, BlankCells, c.on)
      BY <2>1, <2>4, Zenon DEF ItemDid, N
    <3>2. d.text = BlankCells /\ d.addr = 0 /\ ~d.cgram
      BY <3>1 DEF Has
    <3>3. n - 1 # 0
      BY <1>1, <1>2, <2>2, <2>4
    <3>4. QED
      BY <3>2, <3>3 DEF Blanked
  <2>5. CASE k = N
    <3>1. Has(d, c.bits8, c.addr, c.cgram, c.text, TRUE)
      BY <2>1, <2>5, Zenon DEF ItemDid, N
    <3>2. n = 1
      BY <1>1, <1>2, <2>2, <2>5
    <3>3. c.text = BlankCells /\ c.addr = 0 /\ ~c.cgram
      BY <1>2, <1>3, <3>2
    <3>4. d.text = BlankCells /\ d.addr = 0 /\ ~d.cgram /\ d.on
      BY <3>1, <3>3 DEF Has
    <3>5. QED
      BY <3>4 DEF Blanked
  <2>6. QED
    BY <1>1, <1>5, <2>3, <2>4, <2>5
<1>8. QED
  BY <1>2, <1>5, <1>6, <1>7

(* What is next after a write of a byte over an expander. *)
LEMMA NextItem ==
  ASSUME NEW to \in Wires, to = "lcd8574", NEW a \in CallType, NEW c,
         NEW ps2 \in PinsType, NEW k \in 1 .. Len(Items(to, a)),
         NEW p \in 1 .. Per(to),
         NEW d, AfterItem(to, a, c, ps2, k, p, d),
         NEW n, n = Back(to, Len(Items(to, a)), k, p)
  PROVE  /\ n - 1 = 0 => AtRest(d, ps2)
         /\ \A i \in 1 .. Len(Items(to, a)), j \in 1 .. 4 :
              n - 1 = Back(to, Len(Items(to, a)), i, j) =>
                AtWrite(d, ps2, Items(to, a)[i], j)
         /\ n <= 4 * Len(Items(to, a))
<1> DEFINE q == Items(to, a)
           N == Len(q)
<1>1. N \in Nat
  <2>1. q \in Seq(ItemType)
    BY ItemsType
  <2>2. QED
    BY <2>1, LenProperties
<1>2. Per(to) = 4
  BY PerIs
<1>3. /\ p < 4 => AtWrite(d, ps2, q[k], p + 1)
      /\ p = 4 => AtRest(d, ps2)
  BY <1>2 DEF AfterItem
<1> HIDE DEF q
<1>4. k \in 1 .. N /\ p \in 1 .. 4 /\ n = 4 * (N - k) + 5 - p
  BY <1>2 DEF Back, q
<1> HIDE DEF N
<1>5. n - 1 = 0 => p = 4
  BY <1>1, <1>4
<1>6. ASSUME NEW i \in 1 .. N, NEW j \in 1 .. 4,
             n - 1 = Back(to, N, i, j)
      PROVE  AtWrite(d, ps2, q[i], j)
  <2>1. n - 1 = 4 * (N - i) + 5 - j
    BY <1>6 DEF Back
  <2>2. CASE p < 4
    <3>1. i = k /\ j = p + 1
      BY <1>1, <1>4, <2>1, <2>2
    <3>2. QED
      BY <1>3, <2>2, <3>1
  <2>3. CASE p = 4
    <3>1. j = 1
      BY <1>1, <1>4, <2>1, <2>3
    <3>2. ~d.bits8 /\ d.half = None /\ ~ps2.e
      BY <1>3, <2>3 DEF AtRest
    <3>3. AtWrite(d, ps2, q[i], 1)
      <4>1. ps2.e = FALSE
        BY <3>2 DEF PinsType
      <4>2. QED
        BY <3>2, <4>1, AtWriteIs
    <3>4. QED
      BY <3>1, <3>3
  <2>4. QED
    BY <1>4, <2>2, <2>3
<1>7. n <= 4 * N
  BY <1>1, <1>4
<1>8. QED
  BY <1>3, <1>5, <1>6, <1>7 DEF N, q

(* A write of a byte keeps what is known. *)
LEMMA GoodItem ==
  ASSUME NEW to \in Wires, NEW a, NEW c, NEW ps, NEW reg, CarefulHome,
         Displays(to, a, c, ps, reg), NEW n, NEW w,
         NEW k \in 1 .. Len(Items(to, a)), NEW p \in 1 .. Per(to),
         ItemWrite(w, n, to, a, reg, k, p), GoodAt(to, a, c, ps, reg, n),
         NEW d \in EffectOf(to, c, ps, w)
  PROVE  GoodAt(to, a, Waited(w, d), PinsAfter(to, w, ps),
                RegAfter(to, w, reg), n - 1)
<1> DEFINE e == Waited(w, d)
           ps2 == PinsAfter(to, w, ps)
           reg2 == RegAfter(to, w, reg)
<1>1. a \in CallType /\ c \in DisplayType /\ ps \in PinsType
      /\ reg \in RegType
  BY DEF Displays
<1>2. /\ AfterItem(to, a, c, ps2, k, p, e)
      /\ w \in WriteType /\ (to = "lcd8574" => w.value \in Nibble)
      /\ w.light = LightOf(a, reg)
  BY ItemAfter
<1>3. n = Back(to, Len(Items(to, a)), k, p)
      /\ a.op \notin {"idle", "backlight"}
  BY DEF ItemWrite
<1>4. ps2.light = reg2.light /\ (a.op = "init" => ps2.light = a.flag)
  BY <1>2, LightsAgree DEF LightOf
<1>5. ps2 \in PinsType
  BY <1>1, <1>2, PinsKeep
<1> HIDE DEF e, ps2, reg2
<1>6. ~e.busy
  BY <1>2 DEF AfterItem
<1>7. ASSUME a.op = "init" PROVE Blanked(to, a, e, ps2, n - 1)
  <2>1. Blanked(to, a, c, ps, n)
    BY <1>7 DEF GoodAt
  <2>2. ps2.light = a.flag
    BY <1>4, <1>7
  <2>3. QED
    BY <1>1, <1>2, <1>3, <1>7, <2>1, <2>2, ClearedItem
<1>8. ASSUME a.op # "init" PROVE ~e.cgram
  <2>1. ~c.cgram
    BY <1>8 DEF GoodAt
  <2>2. CASE p < Per(to)
    BY <1>2, <2>1, <2>2 DEF AfterItem, Same
  <2>3. CASE p = Per(to)
    <3>1. ItemDid(to, a, c, k, e)
      BY <1>2, <2>3 DEF AfterItem
    <3>2. a.op \in {"cls", "home", "pos", "mode", "write"}
      BY <1>1, <1>3, <1>8 DEF CallType
    <3>3. \A b, ad, g, t, o : Has(e, b, ad, g, t, o) => e.cgram = g
      BY Zenon DEF Has
    <3>4. CASE a.op = "cls"
      BY <3>1, <3>3, <3>4, Zenon DEF ItemDid
    <3>5. CASE a.op = "home"
      BY <3>1, <3>3, <3>5, Zenon DEF ItemDid
    <3>6. CASE a.op = "pos"
      BY <3>1, <3>3, <3>6, Zenon DEF ItemDid
    <3>7. CASE a.op = "mode"
      <4>1. e.cgram = c.cgram
        BY <3>1, <3>3, <3>7, Zenon DEF ItemDid
      <4>2. QED
        BY <2>1, <4>1
    <3>8. CASE a.op = "write"
      BY <3>1, <3>3, <3>8, Zenon DEF ItemDid
    <3>9. QED
      BY <3>2, <3>4, <3>5, <3>6, <3>7, <3>8
  <2>4. QED
    BY <2>2, <2>3, PerIs
<1>9. ASSUME to = "lcd8574"
      PROVE  /\ n - 1 = 0 \/ a.op = "backlight" => AtRest(e, ps2)
             /\ \A i \in 1 .. Len(Items(to, a)), j \in 1 .. 4 :
                  n - 1 = Back(to, Len(Items(to, a)), i, j) =>
                    AtWrite(e, ps2, Items(to, a)[i], j)
             /\ a.op = "init" => AtPulse(e, ps2, n - 1)
  <2>1. /\ n - 1 = 0 => AtRest(e, ps2)
        /\ \A i \in 1 .. Len(Items(to, a)), j \in 1 .. 4 :
              n - 1 = Back(to, Len(Items(to, a)), i, j) =>
                AtWrite(e, ps2, Items(to, a)[i], j)
        /\ n <= 4 * Len(Items(to, a))
    BY <1>1, <1>2, <1>3, <1>5, <1>9, NextItem
  <2>2. ASSUME a.op = "init" PROVE AtPulse(e, ps2, n - 1)
    <3>1. Len(Items(to, a)) = 4
      <4>1. TRUE \in BOOLEAN
        OBVIOUS
      <4>2. Len(StartItems(to)) = 4
        BY <1>9, <4>1, InitSent
      <4>3. QED
        BY <1>1, <2>2, <4>2, ItemsType
    <3>2. n <= 16 /\ n \in Int
      <4>1. n \in Int
        BY <1>3, <1>9, <3>1, PerIs DEF Back
      <4>2. QED
        BY <2>1, <3>1, <4>1
    <3>3. /\ n - 1 \notin 17 .. 18 /\ n - 1 \notin 19 .. 20
          /\ n - 1 \notin 21 .. 22 /\ n - 1 \notin {17, 19, 21, 23}
      BY <3>2
    <3>4. QED
      BY <3>3, Zenon DEF AtPulse
  <2>3. QED
    BY <1>3, <2>1, <2>2
<1>10. GoodAt(to, a, e, ps2, reg2, n - 1)
  BY <1>4, <1>6, <1>7, <1>8, <1>9, Zenon DEF GoodAt
<1>11. QED
  BY <1>10 DEF e, ps2, reg2

(* what a pulse of 2 or 3 on its data pins makes of the display c *)
Clocked(c, nibble, d) ==
  /\ c.bits8 => d.bits8 = (nibble = 3) /\ d.half = None /\ ~d.busy
  /\ ~c.bits8 /\ c.half = None => d.half = nibble /\ ~d.bits8 /\ ~d.busy
  /\ ~c.bits8 /\ c.half = 3 => d.bits8 /\ d.half = None /\ ~d.busy
  /\ d.bits8 \/ d.half \in {None, nibble}

(* A pulse brings the display to 8-bit mode, or latches half of it. *)
LEMMA PulseLatches ==
  ASSUME NEW c \in DisplayType, Whole(c), ~c.busy, NEW nibble \in {2, 3}
  PROVE  Clocked(c, nibble, Latched(c, FALSE, nibble))
<1> DEFINE d == Latched(c, FALSE, nibble)
<1>1. CASE c.bits8
  <2> DEFINE byte == 16 * nibble + 15
  <2>1. d = Executed(c, FALSE, byte)
    BY <1>1 DEF Latched
  <2>2. /\ ~(byte >= 128) /\ ~(byte >= 64) /\ byte >= 32
        /\ ((byte \div 16) % 2 = 1) = (nibble = 3)
    <3>1. CASE nibble = 2
      <4>1. byte = 47 /\ ((47 \div 16) % 2 = 1) = FALSE
        BY <3>1
      <4>2. QED
        BY <3>1, <4>1
    <3>2. CASE nibble = 3
      <4>1. byte = 63 /\ ((63 \div 16) % 2 = 1) = TRUE
        BY <3>2
      <4>2. QED
        BY <3>2, <4>1
    <3>3. QED
      BY <3>1, <3>2
  <2> HIDE DEF byte, d
  <2>3. d = [c EXCEPT !.bits8 = (nibble = 3)]
    BY <2>1, <2>2 DEF Executed, DDRAM, FUNC_DL
  <2>4. d.bits8 = (nibble = 3) /\ d.half = None /\ ~d.busy
    <3>1. c.half = None
      BY <1>1 DEF Whole
    <3>2. QED
      BY <2>3, <3>1 DEF DisplayType
  <2>5. Clocked(c, nibble, d)
    BY <1>1, <2>4 DEF Clocked
  <2>6. QED
    BY <2>5 DEF d
<1>2. CASE ~c.bits8 /\ c.half = None
  <2>1. d = [c EXCEPT !.half = nibble]
    BY <1>2 DEF Latched
  <2>2. d.half = nibble /\ ~d.bits8 /\ ~d.busy
    BY <1>2, <2>1 DEF DisplayType
  <2> HIDE DEF d
  <2>3. c.half # 3
    BY <1>2 DEF None
  <2>4. Clocked(c, nibble, d)
    BY <1>2, <2>2, <2>3, Zenon DEF Clocked
  <2>5. QED
    BY <2>4 DEF d
<1>3. CASE ~c.bits8 /\ c.half # None
  <2> DEFINE f == [c EXCEPT !.half = None]
             byte == 16 * c.half + nibble
  <2>1. d = Executed(f, FALSE, byte)
    BY <1>3 DEF Latched
  <2>2. c.half \in 0 .. 15
    BY <1>3 DEF DisplayType, Nibble
  <2>3. f \in DisplayType /\ f.half = None /\ ~f.busy
    BY DEF DisplayType
  <2>4. d.half = None
    <3>1. byte \in 0 .. 255
      BY <2>2
    <3> HIDE DEF byte, f, d
    <3>2. FALSE \in BOOLEAN
      OBVIOUS
    <3>3. Takes(f, FALSE, byte)
      BY <2>3, <3>1, <3>2, Zenon DEF Takes
    <3>4. Kept(f, Executed(f, FALSE, byte))
      BY <3>3, ExecutedType
    <3>5. QED
      BY <2>1, <2>3, <3>4, Zenon DEF Kept
  <2>5. ASSUME c.half = 3 PROVE d.bits8 /\ ~d.busy
    <3>1. CASE nibble = 2
      <4>1. byte = 50
        BY <2>5, <3>1
      <4>2. /\ ~(50 >= 128) /\ ~(50 >= 64) /\ 50 >= 32
            /\ ((50 \div 16) % 2 = 1) = TRUE
        OBVIOUS
      <4> HIDE DEF byte, f, d
      <4>3. d = [f EXCEPT !.bits8 = TRUE]
        BY <2>1, <4>1, <4>2 DEF Executed, DDRAM, FUNC_DL
      <4>4. QED
        BY <2>3, <4>3 DEF DisplayType
    <3>2. CASE nibble = 3
      <4>1. byte = 51
        BY <2>5, <3>2
      <4>2. /\ ~(51 >= 128) /\ ~(51 >= 64) /\ 51 >= 32
            /\ ((51 \div 16) % 2 = 1) = TRUE
        OBVIOUS
      <4> HIDE DEF byte, f, d
      <4>3. d = [f EXCEPT !.bits8 = TRUE]
        BY <2>1, <4>1, <4>2 DEF Executed, DDRAM, FUNC_DL
      <4>4. QED
        BY <2>3, <4>3 DEF DisplayType
    <3>3. QED
      BY <3>1, <3>2
  <2> HIDE DEF d
  <2>6. Clocked(c, nibble, d)
    BY <1>3, <2>4, <2>5, Zenon DEF Clocked
  <2>7. QED
    BY <2>6 DEF d
<1>4. QED
  BY <1>1, <1>2, <1>3

(* A pulse of an initialisation brings an expander nearer to 8-bit mode. *)
LEMMA GoodFirst ==
  ASSUME NEW to \in Wires, NEW a, NEW c, NEW ps, NEW reg,
         Displays(to, a, c, ps, reg), NEW n, NEW w,
         FirstWrite(w, n, to, a), GoodAt(to, a, c, ps, reg, n),
         NEW d \in EffectOf(to, c, ps, w)
  PROVE  /\ GoodAt(to, a, Waited(w, d), PinsAfter(to, w, ps),
                   RegAfter(to, w, reg), n - 1)
         /\ w \in WriteType /\ w.value \in Nibble
<1> DEFINE e == Waited(w, d)
           ps2 == PinsAfter(to, w, ps)
           reg2 == RegAfter(to, w, reg)
           v == IF n <= 18 THEN 2 ELSE 3
<1>1. a \in CallType /\ c \in DisplayType /\ Whole(c) /\ ps \in PinsType
      /\ reg \in RegType
  BY DEF Displays
<1>2. to = "lcd8574" /\ to # "aip31068" /\ a.op = "init" /\ n \in 17 .. 24
      /\ w = PulseOf(n, a.flag)
  BY DEF FirstWrite
<1>3. /\ w.e = (n % 2 = 0) /\ w.rs = FALSE /\ w.value = v
      /\ w.light = a.flag /\ w.waits = (n = 23)
      /\ v \in {2, 3} /\ v \in Nibble
  <2>1. v \in {2, 3} /\ v \in Nibble
    BY DEF Nibble
  <2>2. /\ w.e = (n % 2 = 0) /\ w.rs = FALSE /\ w.value = v
        /\ w.light = a.flag /\ w.waits = (n = 23)
    BY <1>2 DEF PulseOf, BusWrite, Reg
  <2>3. QED
    BY <2>1, <2>2
<1>4. w \in WriteType /\ w.value \in Nibble
  <2>1. a.flag \in BOOLEAN
    BY <1>1 DEF CallType
  <2>2. (n % 2 = 0) \in BOOLEAN /\ (n = 23) \in BOOLEAN
    OBVIOUS
  <2> HIDE DEF v
  <2>3. BusWrite(n % 2 = 0, Reg(FALSE, v, a.flag), n = 23) \in WriteType
    BY <1>3, <2>1, <2>2, PulseType
  <2>4. w = BusWrite(n % 2 = 0, Reg(FALSE, v, a.flag), n = 23)
    BY <1>2 DEF PulseOf, v
  <2>5. QED
    BY <1>3, <2>3, <2>4
<1>5. ~c.busy /\ AtPulse(c, ps, n)
  BY <1>2 DEF GoodAt
<1>6. ps2 = Expander(w) /\ ps2 \in PinsType
      /\ ps2.light = reg2.light
  <2>1. ps2 = Expander(w)
    BY <1>2 DEF PinsAfter
  <2>2. ps2 \in PinsType /\ ps2.light = reg2.light
    BY <1>1, <1>4, PinsKeep, LightsAgree
  <2>3. QED
    BY <2>1, <2>2
<1>7. /\ ps2.e = w.e /\ ps2.rs = w.rs /\ ps2.value = w.value
  BY <1>6 DEF Expander
<1>8. d \in DisplayType
  BY <1>1, <1>2, <1>4, EffectType
<1>9. /\ e.half = d.half /\ e.bits8 = d.bits8
      /\ w.waits => ~e.busy
      /\ ~w.waits => e = d
  BY <1>8, WaitedType
<1>10. n = 17 \/ n = 18 \/ n = 19 \/ n = 20 \/ n = 21 \/ n = 22 \/ n = 23
       \/ n = 24
  BY <1>2
<1>11. ASSUME n \in {18, 20, 22, 24}
       PROVE  d = c /\ w.e /\ ~w.waits
  <2>1. n % 2 = 0 /\ n # 23
    BY <1>11
  <2>2. w.e /\ ~w.waits
    BY <1>3, <2>1
  <2>3. EffectOf(to, c, ps, w) = {c}
    BY <1>2, <2>2 DEF EffectOf
  <2>4. QED
    BY <2>2, <2>3
<1>12. ASSUME n \in {17, 19, 21, 23}
       PROVE  d = Latched(c, FALSE, v) /\ ~w.e
  <2>1. ps.e /\ ps.rs = FALSE /\ ps.value = v
    <3>1. ps.e /\ ~ps.rs /\ ps.value = v
      BY <1>5, <1>12 DEF AtPulse
    <3>2. ps.rs = FALSE
      BY <1>1, <3>1 DEF PinsType
    <3>3. QED
      BY <3>1, <3>2
  <2>2. ~w.e
    <3>1. (n % 2 = 0) = FALSE
      BY <1>12
    <3>2. w.e = FALSE
      BY <1>3, <3>1
    <3>3. QED
      BY <3>2
  <2>3. d \in {Latched(c, r.rs, r.value) : r \in {Expander(w), ps}}
    BY <1>2, <2>1, <2>2, Zenon DEF EffectOf
  <2>4. Expander(w).rs = FALSE /\ Expander(w).value = v
    BY <1>3 DEF Expander
  <2> HIDE DEF v
  <2>5. QED
    BY <2>1, <2>2, <2>3, <2>4
<1>13. ASSUME n \in {17, 19, 21, 23} PROVE Clocked(c, v, d)
  <2> HIDE DEF v
  <2>1. d = Latched(c, FALSE, v)
    BY <1>12, <1>13
  <2>2. v \in {2, 3}
    BY <1>3
  <2>3. Clocked(c, v, Latched(c, FALSE, v))
    BY <1>1, <1>5, <2>2, PulseLatches
  <2>4. QED
    BY <2>1, <2>3
<1>14. /\ n = 23 => w.waits /\ v = 3
       /\ n # 23 => ~w.waits
       /\ n <= 18 => v = 2
       /\ n > 18 => v = 3
  <2>1. w.waits = (n = 23)
    BY <1>3
  <2>2. /\ n = 23 => w.waits
        /\ n # 23 => ~w.waits
    BY <2>1
  <2>3. QED
    BY <2>2, <1>2
<1> HIDE DEF e, ps2, reg2
<1>15. ~e.busy /\ AtPulse(e, ps2, n - 1)
       /\ (n = 17 => AtRest(e, ps2))
  <2>1. CASE n = 24
    <3>1. e = c /\ ~e.busy /\ ps2.e /\ ~ps2.rs /\ ps2.value = 3
      BY <1>3, <1>5, <1>7, <1>9, <1>11, <2>1
    <3>2. n - 1 = 23 /\ 23 \notin 17 .. 18 /\ 23 \notin 19 .. 20
          /\ 23 \notin 21 .. 22 /\ ~(23 <= 18) /\ n # 17
      BY <2>1
    <3>3. QED
      BY <3>1, <3>2, Zenon DEF AtPulse
  <2>2. CASE n = 23
    <3>1. ~e.busy /\ (e.bits8 \/ e.half \in {None, 3})
      <4>1. w.waits /\ v = 3
        BY <1>14, <2>2
      <4>2. Clocked(c, 3, d)
        BY <1>13, <2>2, <4>1
      <4>3. QED
        BY <1>9, <4>1, <4>2 DEF Clocked
    <3>2. n - 1 = 22 /\ 22 \notin 17 .. 18 /\ 22 \notin 19 .. 20
          /\ 22 \notin {17, 19, 21, 23} /\ n # 17
      BY <2>2
    <3>3. QED
      BY <3>1, <3>2, Zenon DEF AtPulse
  <2>3. CASE n = 22
    <3>1. e = c /\ ~e.busy /\ ps2.e /\ ~ps2.rs /\ ps2.value = 3
      BY <1>3, <1>5, <1>7, <1>9, <1>11, <2>3
    <3>2. c.bits8 \/ c.half \in {None, 3}
      BY <1>5, <2>3 DEF AtPulse
    <3>3. n - 1 = 21 /\ 21 \notin 17 .. 18 /\ 21 \notin 19 .. 20
          /\ ~(21 <= 18) /\ n # 17
      BY <2>3
    <3>4. QED
      BY <3>1, <3>2, <3>3, Zenon DEF AtPulse
  <2>4. CASE n = 21
    <3>1. c.bits8 \/ c.half \in {None, 3}
      BY <1>5, <2>4 DEF AtPulse
    <3>2. v = 3 /\ e = d
      <4>1. ~w.waits /\ v = 3
        BY <1>14, <2>4
      <4>2. QED
        BY <1>9, <2>4, <4>1
    <3>3. ~e.busy /\ (e.bits8 \/ e.half = 3)
      <4>1. Clocked(c, 3, d)
        BY <1>13, <2>4, <3>2
      <4>2. QED
        BY <3>1, <3>2, <4>1 DEF Clocked
    <3>4. n - 1 = 20 /\ 20 \notin 17 .. 18 /\ 20 \notin 21 .. 22
          /\ 20 \notin {17, 19, 21, 23} /\ n # 17
      BY <2>4
    <3>5. QED
      BY <3>3, <3>4, Zenon DEF AtPulse
  <2>5. CASE n = 20
    <3>1. e = c /\ ~e.busy /\ ps2.e /\ ~ps2.rs /\ ps2.value = 3
      BY <1>3, <1>5, <1>7, <1>9, <1>11, <2>5
    <3>2. c.bits8 \/ c.half = 3
      BY <1>5, <2>5 DEF AtPulse
    <3>3. n - 1 = 19 /\ 19 \notin 17 .. 18 /\ 19 \notin 21 .. 22
          /\ ~(19 <= 18) /\ n # 17
      BY <2>5
    <3>4. QED
      BY <3>1, <3>2, <3>3, Zenon DEF AtPulse
  <2>6. CASE n = 19
    <3>1. c.bits8 \/ c.half = 3
      BY <1>5, <2>6 DEF AtPulse
    <3>2. v = 3 /\ e = d
      <4>1. ~w.waits /\ v = 3
        BY <1>14, <2>6
      <4>2. QED
        BY <1>9, <2>6, <4>1
    <3>3. ~e.busy /\ e.bits8
      <4>1. Clocked(c, 3, d)
        BY <1>13, <2>6, <3>2
      <4>2. QED
        BY <3>1, <3>2, <4>1 DEF Clocked
    <3>4. n - 1 = 18 /\ 18 \notin 19 .. 20 /\ 18 \notin 21 .. 22
          /\ 18 \notin {17, 19, 21, 23} /\ n # 17
      BY <2>6
    <3>5. QED
      BY <3>3, <3>4, Zenon DEF AtPulse
  <2>7. CASE n = 18
    <3>1. e = c /\ ~e.busy /\ ps2.e /\ ~ps2.rs /\ ps2.value = 2
      BY <1>3, <1>5, <1>7, <1>9, <1>11, <2>7
    <3>2. c.bits8
      BY <1>5, <2>7 DEF AtPulse
    <3>3. n - 1 = 17 /\ 17 \notin 19 .. 20 /\ 17 \notin 21 .. 22
          /\ 17 <= 18 /\ n # 17
      BY <2>7
    <3>4. QED
      BY <3>1, <3>2, <3>3, Zenon DEF AtPulse
  <2>8. CASE n = 17
    <3>1. c.bits8
      BY <1>5, <2>8 DEF AtPulse
    <3>2. v = 2 /\ e = d /\ (v = 3) = FALSE
      <4>1. ~w.waits /\ v = 2
        BY <1>14, <2>8
      <4>2. QED
        BY <1>9, <2>8, <4>1
    <3>3. ~e.busy /\ ~e.bits8 /\ e.half = None /\ ~ps2.e
      <4>1. Clocked(c, 2, d) /\ (2 = 3) = FALSE
        BY <1>13, <2>8, <3>2
      <4>2. QED
        BY <1>7, <1>12, <2>8, <3>1, <3>2, <4>1 DEF Clocked
    <3>4. n - 1 = 16 /\ 16 \notin 17 .. 18 /\ 16 \notin 19 .. 20
          /\ 16 \notin 21 .. 22 /\ 16 \notin {17, 19, 21, 23}
      BY <2>8
    <3>5. QED
      BY <3>3, <3>4, Zenon DEF AtPulse, AtRest
  <2>9. QED
    BY <1>10, <2>1, <2>2, <2>3, <2>4, <2>5, <2>6, <2>7, <2>8
<1>16. Blanked(to, a, e, ps2, n - 1)
  <2>1. ~(n - 1 <= Per(to)) /\ n - 1 # 0
    BY <1>2, PerIs
  <2>2. QED
    BY <2>1, Zenon DEF Blanked
<1>17. Len(Items(to, a)) = 4
  <2>1. TRUE \in BOOLEAN
    OBVIOUS
  <2>2. Len(StartItems(to)) = 4
    BY <1>2, <2>1, InitSent
  <2>3. QED
    BY <1>1, <1>2, <2>2, ItemsType
<1>18. ASSUME NEW i \in 1 .. Len(Items(to, a)), NEW j \in 1 .. 4,
              n - 1 = Back(to, Len(Items(to, a)), i, j)
       PROVE  AtWrite(e, ps2, Items(to, a)[i], j)
  <2>1. i \in 1 .. 4 /\ n - 1 = 4 * (4 - i) + 5 - j
    BY <1>2, <1>17, <1>18 DEF Back
  <2>2. n = 17 /\ j = 1
    BY <1>2, <2>1
  <2>3. ~e.bits8 /\ e.half = None /\ ps2.e = FALSE
    BY <1>6, <1>15, <2>2 DEF AtRest, PinsType
  <2>4. QED
    BY <2>2, <2>3, AtWriteIs
<1>19. n - 1 # 0 /\ a.op # "backlight"
  BY <1>2
<1>20. GoodAt(to, a, e, ps2, reg2, n - 1)
  BY <1>2, <1>6, <1>15, <1>16, <1>18, <1>19, Zenon DEF GoodAt
<1>21. QED
  BY <1>4, <1>20 DEF e, ps2, reg2

(* The backlight moves no other pin. *)
LEMMA GoodLight ==
  ASSUME NEW to \in Wires, NEW a, NEW c, NEW ps, NEW reg,
         Displays(to, a, c, ps, reg), NEW n, NEW w,
         LightWrite(w, n, a, reg), GoodAt(to, a, c, ps, reg, n),
         NEW d \in EffectOf(to, c, ps, w)
  PROVE  /\ GoodAt(to, a, Waited(w, d), PinsAfter(to, w, ps),
                   RegAfter(to, w, reg), n - 1)
         /\ Waited(w, d) = c /\ w \in WriteType /\ w.value \in Nibble
         /\ w.light = a.flag /\ to = "lcd8574"
<1> DEFINE e == Waited(w, d)
           ps2 == PinsAfter(to, w, ps)
           reg2 == RegAfter(to, w, reg)
<1>1. a \in CallType /\ c \in DisplayType /\ ps \in PinsType
      /\ reg \in RegType
  BY DEF Displays
<1>2. a.op = "backlight" /\ n = 1
      /\ w = BusWrite(FALSE, Reg(reg.rs, reg.value, a.flag), FALSE)
  BY DEF LightWrite
<1>3. to = "lcd8574" /\ to # "aip31068"
  BY <1>2 DEF Displays, Wires
<1>4. /\ w.e = FALSE /\ w.rs = reg.rs /\ w.value = reg.value
      /\ w.light = a.flag /\ w.waits = FALSE
  BY <1>2 DEF BusWrite, Reg
<1>5. w \in WriteType /\ w.value \in Nibble
  <2>1. reg.rs \in BOOLEAN /\ reg.value \in Nibble /\ reg.value \in 0 .. 255
        /\ a.flag \in BOOLEAN
    BY <1>1 DEF RegType, CallType, Nibble
  <2>2. QED
    BY <1>2, <1>4, <2>1 DEF WriteType, BusWrite, Reg
<1>6. ~c.busy /\ AtRest(c, ps) /\ ~c.cgram
  BY <1>2, <1>3 DEF GoodAt
<1>7. ~ps.e
  BY <1>6 DEF AtRest
<1>8. e = c
  <2>1. EffectOf(to, c, ps, w) = {c}
    BY <1>3, <1>7 DEF EffectOf
  <2>2. d = c /\ ~w.waits
    BY <1>4, <2>1
  <2>3. QED
    BY <2>2 DEF Waited
<1>9. ps2.light = reg2.light /\ ps2.e = FALSE
  <2>1. ps2.light = reg2.light
    BY LightsAgree
  <2>2. ps2 = Expander(w)
    BY <1>3 DEF PinsAfter
  <2>3. QED
    BY <1>4, <2>1, <2>2 DEF Expander
<1>10. Len(Items(to, a)) = 0
  BY <1>1, <1>2, ItemsType
<1> HIDE DEF e, ps2, reg2
<1>11. AtRest(e, ps2)
  BY <1>6, <1>8, <1>9 DEF AtRest
<1>12. \A i \in 1 .. Len(Items(to, a)), j \in 1 .. 4 : FALSE
  BY <1>10
<1>13. ~e.busy /\ ~e.cgram /\ a.op # "init"
  BY <1>2, <1>6, <1>8
<1>14. GoodAt(to, a, e, ps2, reg2, n - 1)
  BY <1>9, <1>11, <1>12, <1>13, Zenon DEF GoodAt
<1>15. QED
  BY <1>3, <1>4, <1>5, <1>8, <1>14 DEF e, ps2, reg2

-----------------------------------------------------------------------------
(* The displays: the invariant holds *)

(* what is left of a call has its type *)
CallSound == LcdTypes /\ LeftOf(todo, wire, asked, regval)

(* The next write has the type of one. *)
LEMMA HeadType ==
  ASSUME NEW to \in Wires, NEW a \in CallType, NEW reg \in RegType,
         NEW s \in Seq(WriteType), s # << >>, LeftOf(s, to, a, reg)
  PROVE  s[1] \in WriteType /\ (to = "lcd8574" => s[1].value \in Nibble)
<1>1. s[1] \in WriteType
  BY ElementOfSeq, LenProperties, EmptySeq
<1>2. ASSUME to = "lcd8574" PROVE s[1].value \in Nibble
  <2>1. CASE LightWrite(s[1], Len(s), a, reg)
    <3>1. s[1].value = reg.value
      BY <2>1 DEF LightWrite, BusWrite, Reg
    <3>2. QED
      BY <3>1 DEF RegType
  <2>2. CASE FirstWrite(s[1], Len(s), to, a)
    BY <2>2 DEF FirstWrite, PulseOf, BusWrite, Reg, Nibble
  <2>3. ASSUME NEW k \in 1 .. Len(Items(to, a)), NEW p \in 1 .. Per(to),
               ItemWrite(s[1], Len(s), to, a, reg, k, p)
        PROVE  s[1].value \in Nibble
    <3> DEFINE x == Items(to, a)[k]
    <3>1. x \in ItemType
      BY ItemsType, ElementOfSeq
    <3>2. x.byte \in 0 .. 255
      BY <3>1 DEF ItemType
    <3> HIDE DEF x
    <3>3. ASSUME NEW b \in 0 .. 255
          PROVE  b \div 16 \in 0 .. 15 /\ b % 16 \in 0 .. 15
      OBVIOUS
    <3>4. s[1] = WriteOf(to, x, LightOf(a, reg), p)
      BY <2>3 DEF ItemWrite, x
    <3>5. s[1].value = x.byte \div 16 \/ s[1].value = x.byte % 16
      BY <1>2, <3>4 DEF WriteOf, BusWrite, Reg
    <3>6. x.byte \div 16 \in Nibble /\ x.byte % 16 \in Nibble
      BY <3>2, <3>3 DEF Nibble
    <3>7. QED
      BY <3>5, <3>6, Zenon
  <2>4. QED
    BY <2>1, <2>2, <2>3, NextIs
<1>3. QED
  BY <1>1, <1>2

(* Nothing has been written yet. *)
LEMMA LcdStarts ==
  ASSUME LcdInit
  PROVE  LcdInv
<1>1. wire \in Wires /\ todo = << >> /\ asked = NoCall /\ rtn = 0
      /\ trusted = FALSE /\ lcdfaults = 0 /\ pins = Low /\ regval = Low
  BY DEF LcdInit
<1>2. lcd \in DisplayType /\ lcd.half = None
  <2>1. BlankCells \in [0 .. Cells - 1 -> 0 .. 255]
    BY DEF BlankCells, BlankCell
  <2>2. 0 \in 0 .. Cells - 1
    BY CellsOK
  <2>3. QED
    BY <2>1, <2>2 DEF LcdInit, DisplayType
<1>3. pins \in PinsType /\ regval \in RegType
  BY <1>1 DEF Low, PinsType, RegType, Nibble
<1>4. asked \in CallType /\ LeftOf(todo, wire, asked, regval)
  BY <1>1, NothingStarts
<1>5. asked.op = "idle"
  BY <1>1 DEF NoCall
<1>6. MaxLcdFaults \in Nat
  BY LcdConstantsOK
<1>7. todo \in Seq(WriteType)
  BY <1>1
<1>8. LcdTypes
  <2>1. rtn \in {0, 1} /\ lcdfaults \in 0 .. MaxLcdFaults
    <3>1. 0 \in {0, 1} /\ 0 \in 0 .. MaxLcdFaults
      BY <1>6
    <3>2. QED
      BY <1>1, <3>1, Zenon
  <2>2. trusted \in BOOLEAN
    BY <1>1, Zenon
  <2>3. asked.op # "backlight" /\ asked.op # "init" /\ Whole(lcd)
    BY <1>2, <1>5 DEF Whole
  <2>4. asked.op # "home"
    BY <1>5
  <2>5. QED
    BY <1>1, <1>2, <1>3, <1>4, <1>7, <2>1, <2>3, <2>2, <2>4, Zenon DEF LcdTypes
<1>9. QED
  BY <1>1, <1>4, <1>5, <1>8 DEF LcdInv

(* A call starts. *)
LEMMA CallTyped ==
  ASSUME CallSound, NEW op, NEW arg, NEW flag, NEW data, NEW writes,
         Calls(op, arg, flag, data, writes),
         [op |-> op, arg |-> arg, flag |-> flag, data |-> data] \in CallType,
         wire = "aip31068" => op # "backlight" /\ (op = "init" => ~flag),
         op = "home" => arg = 0,
         writes \in Seq(WriteType),
         LeftOf(writes, wire,
                [op |-> op, arg |-> arg, flag |-> flag, data |-> data],
                regval),
         lcd' \in {lcd, [lcd EXCEPT !.busy = FALSE]}, trusted' \in BOOLEAN
  PROVE  CallSound'
<1> DEFINE a == [op |-> op, arg |-> arg, flag |-> flag, data |-> data]
<1>1. a.op = op /\ a.flag = flag /\ a.arg = arg
  OBVIOUS
<1> HIDE DEF a
<1>2. todo' = writes /\ asked' = a /\ rtn' = 0 /\ wire' = wire
      /\ pins' = pins /\ regval' = regval /\ lcdfaults' = lcdfaults
  BY DEF Calls, a
<1>3. lcd' \in DisplayType /\ Whole(lcd') /\ lcd'.half = lcd.half
  <2>1. lcd \in DisplayType /\ Whole(lcd) /\ FALSE \in BOOLEAN
    BY DEF CallSound, LcdTypes
  <2>2. lcd' = lcd \/ lcd' = SetBusy(lcd, FALSE)
    BY DEF SetBusy
  <2>3. CASE lcd' = SetBusy(lcd, FALSE)
    <3>1. Kept(lcd, lcd')
      BY <2>1, <2>3, SetKeeps, Zenon
    <3>2. lcd'.bits8 = lcd.bits8
      BY <2>1, <2>3 DEF SetBusy, DisplayType
    <3>3. QED
      BY <2>1, <3>1, <3>2 DEF Kept, Whole
  <2>4. QED
    BY <2>1, <2>2, <2>3
<1>4. a \in CallType /\ LeftOf(writes, wire, a, regval)
  BY DEF a
<1>5. LcdTypes'
  BY <1>1, <1>2, <1>3, <1>4 DEF CallSound, LcdTypes
<1>6. LeftOf(todo', wire', asked', regval')
  BY <1>2, <1>4
<1>7. QED
  BY <1>5, <1>6 DEF CallSound

(* A command is sent. *)
LEMMA CommandTyped ==
  ASSUME CallSound, NEW op \in {"cls", "home", "pos", "mode"},
         NEW arg \in 0 .. Cells - 1, NEW flag \in BOOLEAN, NEW cmd, NEW waits,
         Commands(op, arg, flag, cmd, waits), op = "home" => arg = 0,
         LET x == Command([op |-> op, arg |-> arg, flag |-> flag,
                           data |-> << >>])
         IN  x.rs = FALSE /\ x.byte = cmd /\ x.waits = waits
  PROVE  CallSound' /\ Len(todo') = Per(wire)
<1> DEFINE a == [op |-> op, arg |-> arg, flag |-> flag, data |-> << >>]
           s == send_command(wire, cmd, regval.light, waits)
<1>1. a \in CallType
  <2>1. << >> \in Seq(0 .. 255)
    OBVIOUS
  <2>2. op \in {"idle", "init", "cls", "home", "pos", "mode", "backlight",
                "write"}
    OBVIOUS
  <2>3. QED
    BY <2>1, <2>2 DEF CallType
<1>2. a.op = op
  OBVIOUS
<1>3. wire \in Wires /\ regval.light \in BOOLEAN
  BY DEF CallSound, LcdTypes, RegType
<1>4. Command(a).rs = FALSE /\ Command(a).byte = cmd
      /\ Command(a).waits = waits
  OBVIOUS
<1>5. Calls(op, arg, flag, << >>, s) /\ trusted' = (trusted /\ rtn = 0)
      /\ lcd' = lcd
  BY DEF Commands, Trusts
<1> HIDE DEF a
<1>6. s = send(wire, Command(a).rs, Command(a).byte, regval.light,
               Command(a).waits)
  BY <1>4 DEF send_command
<1> HIDE DEF s
<1>7. LeftOf(s, wire, a, regval) /\ s \in Seq(WriteType)
      /\ Len(s) = Per(wire)
  BY <1>1, <1>2, <1>3, <1>6, CommandStarts
<1>8. trusted' \in BOOLEAN /\ lcd' \in {lcd, [lcd EXCEPT !.busy = FALSE]}
  BY <1>5
<1>9. CallSound'
  BY <1>1, <1>5, <1>7, <1>8, CallTyped DEF a
<1>10. todo' = s
  BY <1>5 DEF Calls
<1>11. QED
  BY <1>7, <1>9, <1>10

(* the call op sends the command cmd *)
IsCommand(op, arg, flag, cmd, waits) ==
  /\ op \in {"cls", "home", "pos", "mode"} /\ (op = "home" => arg = 0)
  /\ arg \in 0 .. Cells - 1 /\ flag \in BOOLEAN
  /\ Commands(op, arg, flag, cmd, waits)
  /\ LET x == Command([op |-> op, arg |-> arg, flag |-> flag,
                       data |-> << >>])
     IN  x.rs = FALSE /\ x.byte = cmd /\ x.waits = waits

(* The four calls that send a command. *)
LEMMA AreCommands ==
  ASSUME nk_hd44780_display_mode \/ nk_hd44780_cls \/ nk_hd44780_home
           \/ nk_hd44780_pos
  PROVE  \E op, arg, flag, cmd, waits :
           IsCommand(op, arg, flag, cmd, waits)
<1>1. 0 \in 0 .. Cells - 1 /\ FALSE \in BOOLEAN
  BY CellsOK
<1>2. ASSUME NEW display_on \in BOOLEAN,
             Commands("mode", 0, display_on,
                      DISPLAY + IF display_on THEN 4 ELSE 0, FALSE)
      PROVE  IsCommand("mode", 0, display_on,
                       DISPLAY + IF display_on THEN 4 ELSE 0, FALSE)
  <2> DEFINE x == Command([op |-> "mode", arg |-> 0, flag |-> display_on,
                           data |-> << >>])
  <2>1. /\ x.rs = FALSE /\ x.waits = FALSE
        /\ x.byte = DISPLAY + IF display_on THEN 4 ELSE 0
    BY DEF Command, Item
  <2>2. /\ "mode" \in {"cls", "home", "pos", "mode"}
        /\ ("mode" = "home" => 0 = 0) /\ 0 \in 0 .. Cells - 1
        /\ display_on \in BOOLEAN
    BY <1>1, Zenon
  <2> HIDE DEF x
  <2>3. QED
    BY <1>2, <2>1, <2>2, Zenon DEF IsCommand, x
<1>3. ASSUME nk_hd44780_cls PROVE IsCommand("cls", 0, FALSE, CLS, TRUE)
  <2> DEFINE x == Command([op |-> "cls", arg |-> 0, flag |-> FALSE,
                           data |-> << >>])
  <2>1. x.rs = FALSE /\ x.byte = CLS /\ x.waits = TRUE
    BY DEF Command, Item
  <2>2. Commands("cls", 0, FALSE, CLS, TRUE)
    BY <1>3 DEF nk_hd44780_cls
  <2>3. QED
    BY <1>1, <2>1, <2>2 DEF IsCommand
<1>4. ASSUME nk_hd44780_home
      PROVE  IsCommand("home", 0, FALSE, HOME, CarefulHome)
  <2> DEFINE x == Command([op |-> "home", arg |-> 0, flag |-> FALSE,
                           data |-> << >>])
  <2>1. x.rs = FALSE /\ x.byte = HOME /\ x.waits = CarefulHome
    BY DEF Command, Item
  <2>2. Commands("home", 0, FALSE, HOME, CarefulHome)
    BY <1>4 DEF nk_hd44780_home
  <2>3. QED
    BY <1>1, <2>1, <2>2 DEF IsCommand
<1>5. ASSUME NEW position \in 0 .. Cells - 1,
             Commands("pos", position, FALSE, DDRAM + position, FALSE)
      PROVE  IsCommand("pos", position, FALSE, DDRAM + position, FALSE)
  <2> DEFINE x == Command([op |-> "pos", arg |-> position, flag |-> FALSE,
                           data |-> << >>])
  <2>1. x.rs = FALSE /\ x.byte = DDRAM + position /\ x.waits = FALSE
    BY DEF Command, Item
  <2>2. /\ "pos" \in {"cls", "home", "pos", "mode"} /\ "pos" # "home"
        /\ FALSE \in BOOLEAN
    BY <1>1, Zenon
  <2> HIDE DEF x
  <2>3. QED
    BY <1>5, <2>1, <2>2, Zenon DEF IsCommand, x
<1>6. CASE nk_hd44780_display_mode
  BY <1>2, <1>6, Zenon DEF nk_hd44780_display_mode
<1>7. CASE nk_hd44780_pos
  BY <1>5, <1>7, Zenon DEF nk_hd44780_pos
<1>8. QED
  BY <1>3, <1>4, <1>6, <1>7, Zenon

(* The other calls, which begin with a known number of writes. *)
LEMMA StartTyped ==
  ASSUME CallSound, LcdStart
  PROVE  /\ CallSound' /\ asked'.op = "init" /\ trusted' = FALSE
         /\ lcd' = [lcd EXCEPT !.busy = FALSE] /\ rtn' = 0
         /\ wire = "lcd8574" => Len(todo') = 24
         /\ wire = "aip31068" => Len(todo') = 6
<1>1. PICK bl \in IF wire = "lcd8574" THEN BOOLEAN ELSE {FALSE} :
        Calls("init", 0, bl, << >>, init(wire, bl))
  BY DEF LcdStart
<1> DEFINE a == [op |-> "init", arg |-> 0, flag |-> bl, data |-> << >>]
<1>2. wire \in Wires /\ bl \in BOOLEAN /\ (wire = "aip31068" => ~bl)
  BY DEF CallSound, LcdTypes
<1>3. a \in CallType /\ a.op = "init" /\ a.flag = bl
  <2>1. 0 \in 0 .. Cells - 1 /\ << >> \in Seq(0 .. 255)
    BY CellsOK
  <2>2. QED
    BY <1>2, <2>1 DEF CallType
<1> HIDE DEF a
<1>4. /\ LeftOf(init(wire, bl), wire, a, regval)
      /\ init(wire, bl) \in Seq(WriteType)
      /\ wire = "lcd8574" => Len(init(wire, bl)) = 24
      /\ wire = "aip31068" => Len(init(wire, bl)) = 6
  BY <1>2, <1>3, InitStarts
<1>5. lcd' = [lcd EXCEPT !.busy = FALSE] /\ trusted' = FALSE
  BY DEF LcdStart
<1>6. lcd' \in {lcd, [lcd EXCEPT !.busy = FALSE]} /\ trusted' \in BOOLEAN
  BY <1>5
<1>7. CallSound'
  BY <1>1, <1>2, <1>3, <1>4, <1>6, CallTyped DEF a
<1>8. todo' = init(wire, bl) /\ asked' = a /\ rtn' = 0
  BY <1>1 DEF Calls, a
<1>9. QED
  BY <1>3, <1>4, <1>5, <1>7, <1>8

(* Data. *)
LEMMA DataTyped ==
  ASSUME CallSound, nk_hd44780_write
  PROVE  /\ CallSound' /\ asked'.op = "write"
         /\ Len(todo') = Per(wire) * Len(asked'.data)
         /\ asked'.data # << >>
         /\ UNCHANGED lcd /\ Trusts /\ rtn' = 0
<1>1. PICK data \in Texts :
        /\ Calls("write", 0, FALSE, data,
                 send_data(wire, data, regval.light))
        /\ Trusts
        /\ UNCHANGED lcd
  BY DEF nk_hd44780_write
<1> DEFINE a == [op |-> "write", arg |-> 0, flag |-> FALSE, data |-> data]
           s == send_data(wire, data, regval.light)
<1>2. data \in Seq(0 .. 255) /\ data # << >>
  BY LcdConstantsOK
<1>3. a \in CallType /\ a.op = "write" /\ a.data = data
  <2>1. 0 \in 0 .. Cells - 1 /\ FALSE \in BOOLEAN
    BY CellsOK
  <2>2. QED
    BY <1>2, <2>1 DEF CallType
<1> HIDE DEF a
<1>4. wire \in Wires /\ regval.light \in BOOLEAN
  BY DEF CallSound, LcdTypes, RegType
<1>5. /\ LeftOf(s, wire, a, regval) /\ s \in Seq(WriteType)
      /\ Len(s) = Per(wire) * Len(data)
  BY <1>2, <1>3, <1>4, WriteStarts
<1>6. trusted' \in BOOLEAN /\ lcd' \in {lcd, [lcd EXCEPT !.busy = FALSE]}
  BY <1>1 DEF Trusts
<1> HIDE DEF s
<1>7. CallSound'
  BY <1>1, <1>3, <1>5, <1>6, CallTyped DEF a, s
<1>8. todo' = s /\ asked' = a /\ rtn' = 0
  BY <1>1 DEF Calls, a, s
<1>9. QED
  BY <1>1, <1>2, <1>3, <1>5, <1>7, <1>8

(* The backlight. *)
LEMMA LightTyped ==
  ASSUME CallSound, nk_lcd8574_backlight
  PROVE  /\ CallSound' /\ asked'.op = "backlight" /\ wire = "lcd8574"
         /\ Len(todo') = 1
         /\ UNCHANGED lcd /\ Trusts /\ rtn' = 0
<1>1. PICK bl \in BOOLEAN :
        /\ wire = "lcd8574"
        /\ Calls("backlight", 0, bl, << >>,
             << BusWrite(FALSE, Reg(regval.rs, regval.value, bl), FALSE) >>)
        /\ Trusts
        /\ UNCHANGED lcd
  BY DEF nk_lcd8574_backlight
<1> DEFINE a == [op |-> "backlight", arg |-> 0, flag |-> bl, data |-> << >>]
           s == << BusWrite(FALSE, Reg(regval.rs, regval.value, bl), FALSE) >>
<1>2. a \in CallType /\ a.op = "backlight" /\ a.flag = bl
  <2>1. 0 \in 0 .. Cells - 1 /\ << >> \in Seq(0 .. 255)
    BY CellsOK
  <2>2. QED
    BY <2>1 DEF CallType
<1> HIDE DEF a
<1>3. wire \in Wires /\ regval \in RegType
  BY DEF CallSound, LcdTypes
<1>4. s = << BusWrite(FALSE, Reg(regval.rs, regval.value, a.flag), FALSE) >>
  BY <1>2
<1> HIDE DEF s
<1>5. LeftOf(s, wire, a, regval) /\ s \in Seq(WriteType) /\ Len(s) = 1
  BY <1>2, <1>3, <1>4, BacklightStarts
<1>6. trusted' \in BOOLEAN /\ lcd' \in {lcd, [lcd EXCEPT !.busy = FALSE]}
  BY <1>1 DEF Trusts
<1>7. wire # "aip31068"
  BY <1>1
<1>8. Calls("backlight", 0, bl, << >>, s)
  BY <1>1 DEF s
<1>9. CallSound'
  BY <1>2, <1>5, <1>6, <1>7, <1>8, CallTyped DEF a
<1>10. todo' = s /\ asked' = a /\ rtn' = 0
  BY <1>8 DEF Calls, a
<1>11. QED
  BY <1>1, <1>2, <1>5, <1>9, <1>10

(* what a write does, whether or not it fails *)
WrittenOut(w) ==
  /\ todo # << >> /\ todo' = Tail(todo) /\ UNCHANGED << wire, asked >>
  /\ regval' = RegAfter(wire, w, regval)
  /\ lcdfaults' <= MaxLcdFaults
  /\ trusted' = (trusted \/ (asked.op = "init" /\ Len(todo) = 1))
  /\ \/ /\ \E d \in EffectOf(wire, lcd, pins, w) : lcd' = Waited(w, d)
        /\ pins' = PinsAfter(wire, w, pins)
        /\ UNCHANGED << rtn, lcdfaults >>
     \/ /\ \/ /\ \E d \in EffectOf(wire, lcd, pins, w) : lcd' = Waited(w, d)
              /\ pins' = PinsAfter(wire, w, pins)
           \/ lcd' = Waited(w, lcd) /\ UNCHANGED pins
        /\ rtn' = 1 /\ lcdfaults' = lcdfaults + 1

(* The next write of the call is its first. *)
LEMMA BusWritten ==
  ASSUME BusWrites
  PROVE  WrittenOut(todo[1])
<1>1. Head(todo) = todo[1]
  BY DEF BusWrites
<1>2. Effect(todo[1]) = EffectOf(wire, lcd, pins, todo[1])
  BY Zenon DEF Effect, EffectOf
<1>3. /\ \/ /\ \E d \in EffectOf(wire, lcd, pins, todo[1]) :
                 lcd' = Waited(todo[1], d)
            /\ pins' = PinsAfter(wire, todo[1], pins)
            /\ UNCHANGED << rtn, lcdfaults >>
         \/ /\ \/ /\ \E d \in EffectOf(wire, lcd, pins, todo[1]) :
                       lcd' = Waited(todo[1], d)
                  /\ pins' = PinsAfter(wire, todo[1], pins)
               \/ lcd' = Waited(todo[1], lcd) /\ UNCHANGED pins
            /\ rtn' = 1 /\ lcdfaults' = lcdfaults + 1
  BY <1>1, <1>2, Zenon DEF BusWrites, pcf8574_write, PinsAfter
<1>4. regval' = RegAfter(wire, todo[1], regval)
  BY <1>1, Zenon DEF BusWrites, RegAfter
<1>5. QED
  BY <1>3, <1>4, Zenon DEF BusWrites, WrittenOut

(* A write, or the failure of one, leaves its types and what is next. *)
LEMMA WriteTyped ==
  ASSUME CallSound, NEW w, w = todo[1], WrittenOut(w)
  PROVE  CallSound'
<1>1. /\ wire \in Wires /\ asked \in CallType /\ regval \in RegType
      /\ pins \in PinsType /\ lcd \in DisplayType /\ Whole(lcd)
      /\ todo \in Seq(WriteType) /\ todo # << >>
      /\ LeftOf(todo, wire, asked, regval)
      /\ (wire = "aip31068" => lcd.half = None)
  BY DEF CallSound, LcdTypes, WrittenOut
<1>2. w \in WriteType /\ (wire = "lcd8574" => w.value \in Nibble)
  BY <1>1, HeadType
<1>3. /\ PinsAfter(wire, w, pins) \in PinsType
      /\ RegAfter(wire, w, regval) \in RegType
      /\ wire = "aip31068" =>
           /\ PinsAfter(wire, w, pins) = pins
           /\ RegAfter(wire, w, regval) = regval
  BY <1>1, <1>2, PinsKeep
<1>4. ASSUME NEW d \in EffectOf(wire, lcd, pins, w)
      PROVE  /\ Waited(w, d) \in DisplayType /\ Whole(Waited(w, d))
             /\ wire = "aip31068" => Waited(w, d).half = None
  <2>1. d \in DisplayType /\ Whole(d) /\ (wire = "aip31068" => d.half = None)
    BY <1>1, <1>2, EffectType
  <2>2. QED
    BY <2>1, WaitedType DEF Whole
<1>5. /\ Waited(w, lcd) \in DisplayType /\ Whole(Waited(w, lcd))
      /\ wire = "aip31068" => Waited(w, lcd).half = None
  BY <1>1, WaitedType DEF Whole
<1>6. /\ lcd' \in DisplayType /\ Whole(lcd')
      /\ wire = "aip31068" => lcd'.half = None
      /\ pins' \in PinsType /\ (wire = "aip31068" => pins' = pins)
      /\ regval' \in RegType /\ (wire = "aip31068" => regval' = regval)
  BY <1>1, <1>3, <1>4, <1>5 DEF WrittenOut
<1>7. rtn' \in {0, 1} /\ lcdfaults' \in 0 .. MaxLcdFaults
      /\ trusted' \in BOOLEAN
  <2>1. rtn \in {0, 1} /\ lcdfaults \in Nat /\ MaxLcdFaults \in Nat
        /\ trusted \in BOOLEAN
    BY LcdConstantsOK DEF CallSound, LcdTypes
  <2>2. rtn' \in {rtn, 1} /\ lcdfaults' \in {lcdfaults, lcdfaults + 1}
        /\ lcdfaults' <= MaxLcdFaults
    BY DEF WrittenOut
  <2>3. trusted' \in BOOLEAN
    BY <2>1 DEF WrittenOut
  <2>4. QED
    BY <2>1, <2>2, <2>3
<1>8. todo' \in Seq(WriteType) /\ wire' = wire /\ asked' = asked
      /\ todo' = Tail(todo)
  BY <1>1 DEF WrittenOut
<1>9. LcdTypes'
  BY <1>1, <1>6, <1>7, <1>8 DEF CallSound, LcdTypes
<1>10. asked.op \notin {"idle", "init", "backlight"} =>
         regval'.light = regval.light
  <2> SUFFICES ASSUME asked.op \notin {"idle", "init", "backlight"}
               PROVE  regval'.light = regval.light
    OBVIOUS
  <2>1. CASE wire = "aip31068"
    BY <1>6, <2>1
  <2>2. CASE wire = "lcd8574"
    <3>1. regval'.light = w.light
      <4>1. RegAfter(wire, w, regval).light = w.light
        BY <1>1, <1>2, <2>2, PinsKeep
      <4>2. regval' = RegAfter(wire, w, regval)
        BY Zenon DEF WrittenOut
      <4>3. QED
        BY <4>1, <4>2, Zenon
    <3>2. PICK k \in 1 .. Len(Items(wire, asked)), p \in 1 .. Per(wire) :
            ItemWrite(w, Len(todo), wire, asked, regval, k, p)
      BY <1>1, NextIs DEF LightWrite, FirstWrite
    <3>3. w.light = LightOf(asked, regval)
      BY <3>2, <2>2 DEF ItemWrite, WriteOf, BusWrite, Reg
    <3>4. QED
      BY <3>1, <3>3 DEF LightOf
  <2>3. QED
    BY <1>1, <2>1, <2>2 DEF Wires
<1>11. LeftOf(Tail(todo), wire, asked, regval')
  BY <1>1, <1>10, LeftLess
<1>12. QED
  BY <1>8, <1>9, <1>11 DEF CallSound

(* The display becomes ready; the processor is reset. *)
LEMMA RestTyped ==
  ASSUME CallSound, LcdReady \/ LcdReset \/ UNCHANGED lcdvars
  PROVE  CallSound'
<1>1. CASE LcdReady
  <2>1. lcd' \in DisplayType /\ Whole(lcd') /\ lcd'.half = lcd.half
    <3>1. lcd \in DisplayType /\ Whole(lcd) /\ FALSE \in BOOLEAN
      BY DEF CallSound, LcdTypes
    <3>2. lcd' = SetBusy(lcd, FALSE)
      BY <1>1 DEF LcdReady, SetBusy
    <3>3. Kept(lcd, lcd')
      BY <3>1, <3>2, SetKeeps, Zenon
    <3>4. lcd'.bits8 = lcd.bits8
      BY <3>1, <3>2 DEF SetBusy, DisplayType
    <3>5. QED
      BY <3>1, <3>3, <3>4 DEF Kept, Whole
  <2>2. UNCHANGED << wire, pins, regval, todo, asked, rtn, trusted,
                     lcdfaults >>
    BY <1>1 DEF LcdReady
  <2>3. LcdTypes'
    BY <2>1, <2>2 DEF CallSound, LcdTypes
  <2>4. LeftOf(todo', wire', asked', regval')
    BY <2>2 DEF CallSound
  <2>5. QED
    BY <2>3, <2>4 DEF CallSound
<1>2. CASE LcdReset
  <2>1. /\ todo' = << >> /\ asked' = NoCall /\ rtn' = 0 /\ trusted' = FALSE
        /\ regval' = Low /\ wire' = wire /\ lcd' = lcd /\ pins' = pins
        /\ lcdfaults' \in 0 .. MaxLcdFaults
    <3>1. lcdfaults \in Nat /\ MaxLcdFaults \in Nat
      BY LcdConstantsOK DEF CallSound, LcdTypes
    <3>2. QED
      BY <1>2, <3>1 DEF LcdReset
  <2>2. LeftOf(<< >>, wire, NoCall, Low) /\ NoCall \in CallType
    BY NothingStarts DEF CallSound, LcdTypes
  <2>3. Low \in RegType /\ NoCall.op = "idle" /\ << >> \in Seq(WriteType)
    BY DEF Low, RegType, Nibble, NoCall
  <2>4. rtn' \in {0, 1} /\ trusted' \in BOOLEAN
    BY <2>1
  <2>5. LcdTypes'
    BY <2>1, <2>2, <2>3, <2>4 DEF CallSound, LcdTypes
  <2>6. LeftOf(todo', wire', asked', regval')
    BY <2>1, <2>2
  <2>7. QED
    BY <2>5, <2>6 DEF CallSound
<1>3. CASE UNCHANGED lcdvars
  BY <1>3 DEF lcdvars, CallSound, LcdTypes
<1>4. QED
  BY <1>1, <1>2, <1>3

(* Every step keeps the types. *)
LEMMA StepTyped ==
  ASSUME CallSound, [LcdNext]_lcdvars
  PROVE  CallSound'
<1>1. CASE nk_hd44780_display_mode \/ nk_hd44780_cls \/ nk_hd44780_home
             \/ nk_hd44780_pos
  <2>1. PICK op, arg, flag, cmd, waits :
          IsCommand(op, arg, flag, cmd, waits)
    BY <1>1, AreCommands
  <2>2. QED
    BY <2>1, CommandTyped DEF IsCommand
<1>2. CASE BusWrites
  BY <1>2, BusWritten, WriteTyped
<1>3. QED
  BY <1>1, <1>2, StartTyped, DataTyped, LightTyped, RestTyped DEF LcdNext

(***************************************************************************)
(* The types, for every number of cells and of faults, and whether or not  *)
(* the callers are careful.                                                *)
(***************************************************************************)
THEOREM LcdTypeCorrect == LcdSpec => []LcdTypeOK
<1>1. LcdInit => CallSound
  BY LcdStarts DEF LcdInv, CallSound
<1>2. CallSound /\ [LcdNext]_lcdvars => CallSound'
  BY StepTyped
<1>3. CallSound => LcdTypeOK
  BY DEF CallSound, LcdTypes, LcdTypeOK, DisplayType, PinsType, RegType,
         CallType
<1>4. QED
  BY <1>1, <1>2, <1>3, PTL DEF LcdSpec

-----------------------------------------------------------------------------
(* The displays: what is known of one *)

(* A call begins between two bytes. *)
LEMMA Begins ==
  ASSUME NEW to \in Wires, NEW a, NEW c \in DisplayType, NEW ps \in PinsType,
         NEW reg, GoodAt(to, a, c, ps, reg, 0), NEW b \in CallType,
         b.op \notin {"idle", "init"}, NEW n \in Nat,
         b.op # "backlight" => n = Per(to) * Len(Items(to, b)),
         NEW d, d = c
  PROVE  GoodAt(to, b, d, ps, reg, n)
<1>1. ~c.busy /\ ps.light = reg.light
  <2>1. ~(a.op = "init" /\ 0 = 24)
    OBVIOUS
  <2>2. QED
    BY <2>1, Zenon DEF GoodAt
<1>2. ~c.cgram
  <2>1. 0 <= Per(to)
    BY PerIs
  <2>2. QED
    BY <2>1, Zenon DEF GoodAt, Blanked
<1>3. to = "lcd8574" => AtRest(c, ps)
  BY Zenon DEF GoodAt
<1>4. ASSUME to = "lcd8574",
             NEW k \in 1 .. Len(Items(to, b)), NEW p \in 1 .. 4,
             n = Back(to, Len(Items(to, b)), k, p)
      PROVE  AtWrite(c, ps, Items(to, b)[k], p)
  <2>1. b.op # "backlight"
    BY ItemsType
  <2>2. Len(Items(to, b)) \in Nat
    BY ItemsType, LenProperties
  <2>3. n = 4 * Len(Items(to, b))
    BY <1>4, <2>1, PerIs
  <2>4. n = 4 * (Len(Items(to, b)) - k) + 5 - p
    BY <1>4 DEF Back
  <2>5. p = 1
    BY <2>2, <2>3, <2>4
  <2>6. ~c.bits8 /\ c.half = None /\ ps.e = FALSE
    BY <1>3, <1>4 DEF AtRest, PinsType
  <2>7. QED
    BY <2>5, <2>6, AtWriteIs
<1>5. b.op # "init"
  OBVIOUS
<1>6. GoodAt(to, b, c, ps, reg, n)
  BY <1>1, <1>2, <1>3, <1>4, <1>5, Zenon DEF GoodAt
<1>7. QED
  BY <1>6

(* An initialisation begins with any display. *)
LEMMA InitBegins ==
  ASSUME NEW to \in Wires, NEW a, NEW c, NEW ps, NEW reg,
         Displays(to, a, c, ps, reg), a.op = "init", ~c.busy, NEW n,
         to = "lcd8574" => n = 24, to = "aip31068" => n = 6
  PROVE  GoodAt(to, a, c, ps, reg, n)
<1>1. a \in CallType
  BY DEF Displays
<1>2. n # 0 /\ ~(n <= Per(to))
  BY PerIs DEF Wires
<1>3. Blanked(to, a, c, ps, n)
  BY <1>2, Zenon DEF Blanked
<1>4. (a.op = "init" /\ n = 24) \/ ps.light = reg.light
  <2>1. to = "aip31068" => ps.light = reg.light
    BY DEF Displays
  <2>2. QED
    BY <2>1 DEF Wires
<1>5. ASSUME to = "lcd8574",
             NEW k \in 1 .. Len(Items(to, a)), NEW p \in 1 .. 4,
             n = Back(to, Len(Items(to, a)), k, p)
      PROVE  FALSE
  <2>1. Len(Items(to, a)) = 4
    <3>1. TRUE \in BOOLEAN
      OBVIOUS
    <3>2. Len(StartItems(to)) = 4
      BY <1>5, <3>1, InitSent
    <3>3. QED
      BY <1>1, <3>2, ItemsType
  <2>2. n = 4 * (4 - k) + 5 - p /\ k \in 1 .. 4
    BY <1>5, <2>1 DEF Back
  <2>3. n = 24
    BY <1>5
  <2>4. QED
    BY <2>2, <2>3
<1>6. to = "lcd8574" => AtPulse(c, ps, n)
  <2>1. /\ 24 \notin 17 .. 18 /\ 24 \notin 19 .. 20
        /\ 24 \notin 21 .. 22 /\ 24 \notin {17, 19, 21, 23}
    OBVIOUS
  <2>2. AtPulse(c, ps, 24)
    BY <2>1, Zenon DEF AtPulse
  <2>3. QED
    BY <2>2
<1>7. a.op # "backlight"
  OBVIOUS
<1>8. QED
  BY <1>2, <1>3, <1>4, <1>5, <1>6, <1>7, Zenon DEF GoodAt

(* What is known after a write that does not fail. *)
LEMMA GoodStep ==
  ASSUME NEW to \in Wires, NEW a, NEW c, NEW ps, NEW reg, CarefulHome,
         Displays(to, a, c, ps, reg), NEW s \in Seq(WriteType), s # << >>,
         LeftOf(s, to, a, reg), GoodAt(to, a, c, ps, reg, Len(s)),
         NEW w, w = s[1], NEW d \in EffectOf(to, c, ps, w)
  PROVE  GoodAt(to, a, Waited(w, d), PinsAfter(to, w, ps),
                RegAfter(to, w, reg), Len(s) - 1)
<1>1. a \in CallType /\ reg \in RegType
  BY DEF Displays
<1>2. \/ LightWrite(w, Len(s), a, reg)
      \/ FirstWrite(w, Len(s), to, a)
      \/ \E k \in 1 .. Len(Items(to, a)), p \in 1 .. Per(to) :
           ItemWrite(w, Len(s), to, a, reg, k, p)
  BY <1>1, NextIs
<1>3. CASE LightWrite(w, Len(s), a, reg)
  BY <1>3, GoodLight
<1>4. CASE FirstWrite(w, Len(s), to, a)
  BY <1>4, GoodFirst
<1>5. ASSUME NEW k \in 1 .. Len(Items(to, a)), NEW p \in 1 .. Per(to),
             ItemWrite(w, Len(s), to, a, reg, k, p)
      PROVE  GoodAt(to, a, Waited(w, d), PinsAfter(to, w, ps),
                    RegAfter(to, w, reg), Len(s) - 1)
  BY <1>5, GoodItem
<1>6. QED
  BY <1>2, <1>3, <1>4, <1>5

(* what is known of the display, and when an initialisation is trusted *)
IsGood ==
  /\ trusted /\ asked.op = "init" => todo = << >>
  /\ rtn = 0 /\ (trusted \/ asked.op = "init") =>
       GoodAt(wire, asked, lcd, pins, regval, Len(todo))

(* Between calls, and as a call starts. *)
LEMMA CallGood ==
  ASSUME LcdInv, CallSound', todo = << >>, Trusts, UNCHANGED lcd,
         UNCHANGED << wire, pins, regval >>,
         asked'.op \notin {"idle", "init"},
         asked'.op # "backlight" =>
           Len(todo') = Per(wire) * Len(Items(wire, asked'))
  PROVE  IsGood'
<1>1. trusted' => trusted /\ rtn = 0
  BY DEF Trusts
<1>2. ASSUME trusted'
      PROVE  GoodAt(wire, asked', lcd', pins, regval, Len(todo'))
  <2>1. GoodAt(wire, asked, lcd, pins, regval, 0)
    <3>1. Len(todo) = 0
      OBVIOUS
    <3>2. QED
      BY <1>1, <1>2, <3>1 DEF LcdInv
  <2>2. wire \in Wires /\ lcd \in DisplayType /\ pins \in PinsType
    BY DEF LcdInv, LcdTypes
  <2>3. asked' \in CallType /\ Len(todo') \in Nat
    BY LenProperties DEF CallSound, LcdTypes
  <2>4. lcd' = lcd
    OBVIOUS
  <2>5. QED
    BY <2>1, <2>2, <2>3, <2>4, Begins
<1>3. ASSUME trusted'
      PROVE  GoodAt(wire', asked', lcd', pins', regval', Len(todo'))
  <2>1. wire' = wire /\ pins' = pins /\ regval' = regval
    OBVIOUS
  <2>2. QED
    BY <1>2, <1>3, <2>1
<1>4. asked'.op # "init"
  OBVIOUS
<1>5. QED
  BY <1>3, <1>4 DEF IsGood

(* A command. *)
LEMMA CommandGood ==
  ASSUME LcdInv, CallSound', NEW op, NEW arg, NEW flag, NEW cmd, NEW waits,
         IsCommand(op, arg, flag, cmd, waits)
  PROVE  IsGood'
<1> DEFINE a == [op |-> op, arg |-> arg, flag |-> flag, data |-> << >>]
<1>1. a.op = op
  OBVIOUS
<1> HIDE DEF a
<1>2. /\ todo = << >> /\ asked' = a /\ Trusts /\ UNCHANGED lcd
      /\ UNCHANGED << wire, pins, regval >>
      /\ op \in {"cls", "home", "pos", "mode"}
  BY DEF IsCommand, Commands, Calls, a
<1>3. Len(todo') = Per(wire)
  <2>1. CallSound
    BY DEF LcdInv, CallSound
  <2>2. QED
    BY <2>1, CommandTyped DEF IsCommand
<1>4. Len(Items(wire, asked')) = 1
  <2>1. wire \in Wires /\ asked' \in CallType
    BY DEF LcdInv, CallSound, LcdTypes
  <2>2. asked'.op \in {"cls", "home", "pos", "mode"}
    BY <1>1, <1>2
  <2>3. QED
    BY <2>1, <2>2, ItemsType
<1>5. Len(todo') = Per(wire) * Len(Items(wire, asked'))
  <2>1. Per(wire) \in 1 .. 4
    BY PerIs DEF LcdInv, LcdTypes
  <2>2. QED
    BY <1>3, <1>4, <2>1
<1>6. asked'.op \notin {"idle", "init"}
  BY <1>1, <1>2
<1>7. QED
  BY <1>2, <1>5, <1>6, CallGood

(* The other calls. *)
LEMMA OthersGood ==
  ASSUME LcdInv, CallSound',
         LcdStart \/ nk_hd44780_write \/ nk_lcd8574_backlight
  PROVE  IsGood'
<1>1. CallSound
  BY DEF LcdInv, CallSound
<1>2. todo = << >> /\ UNCHANGED << wire, pins, regval >>
  BY DEF LcdStart, nk_hd44780_write, nk_lcd8574_backlight, Calls
<1>3. CASE LcdStart
  <2>1. /\ asked'.op = "init" /\ trusted' = FALSE
        /\ lcd' = [lcd EXCEPT !.busy = FALSE]
        /\ wire = "lcd8574" => Len(todo') = 24
        /\ wire = "aip31068" => Len(todo') = 6
    BY <1>1, <1>3, StartTyped
  <2>2. ~lcd'.busy
    BY <2>1 DEF LcdInv, LcdTypes, DisplayType
  <2>3. wire \in Wires /\ wire' = wire
    BY <1>2 DEF LcdInv, LcdTypes
  <2>4. Displays(wire, asked', lcd', pins', regval')
    BY <2>3 DEF CallSound, LcdTypes, Displays
  <2>5. GoodAt(wire, asked', lcd', pins', regval', Len(todo'))
    BY <2>1, <2>2, <2>3, <2>4, InitBegins
  <2>6. QED
    BY <2>1, <2>3, <2>5 DEF IsGood
<1>4. CASE nk_hd44780_write
  <2>1. /\ asked'.op = "write" /\ UNCHANGED lcd /\ Trusts
        /\ Len(todo') = Per(wire) * Len(asked'.data)
    BY <1>1, <1>4, DataTyped
  <2>2. Len(Items(wire, asked')) = Len(asked'.data)
    <3>1. wire \in Wires /\ asked' \in CallType
      BY DEF LcdInv, CallSound, LcdTypes
    <3>2. asked'.data \in Seq(0 .. 255)
      BY <3>1 DEF CallType
    <3>3. QED
      BY <2>1, <3>1, <3>2, ItemsType, DataItemsType
  <2>3. asked'.op \notin {"idle", "init"}
    BY <2>1
  <2>4. QED
    BY <1>2, <2>1, <2>2, <2>3, CallGood
<1>5. CASE nk_lcd8574_backlight
  <2>1. asked'.op = "backlight" /\ UNCHANGED lcd /\ Trusts
    BY <1>1, <1>5, LightTyped
  <2>2. asked'.op \notin {"idle", "init"}
    BY <2>1
  <2>3. QED
    BY <1>2, <2>1, <2>2, CallGood
<1>6. QED
  BY <1>3, <1>4, <1>5

(* A write. *)
LEMMA WriteGood ==
  ASSUME LcdInv, CarefulHome, NEW w, w = todo[1], WrittenOut(w)
  PROVE  IsGood'
<1>1. /\ wire \in Wires /\ todo \in Seq(WriteType) /\ todo # << >>
      /\ LeftOf(todo, wire, asked, regval)
      /\ Displays(wire, asked, lcd, pins, regval)
      /\ rtn \in {0, 1}
  BY DEF LcdInv, LcdTypes, Displays, WrittenOut
<1>2. /\ todo' = Tail(todo) /\ wire' = wire /\ asked' = asked
      /\ regval' = RegAfter(wire, w, regval)
      /\ trusted' = (trusted \/ (asked.op = "init" /\ Len(todo) = 1))
  BY DEF WrittenOut
<1>3. Len(todo') = Len(todo) - 1 /\ (Len(todo) = 1 => todo' = << >>)
  <2>1. Len(Tail(todo)) = Len(todo) - 1 /\ Tail(todo) \in Seq(WriteType)
    BY <1>1
  <2>2. QED
    BY <1>2, <2>1, EmptySeq
<1>4. trusted' /\ asked'.op = "init" => todo' = << >>
  BY <1>1, <1>2, <1>3 DEF LcdInv
<1>5. ASSUME rtn' = 0, trusted' \/ asked'.op = "init"
      PROVE  GoodAt(wire', asked', lcd', pins', regval', Len(todo'))
  <2>1. rtn' # 1
    BY <1>5
  <2>2. /\ rtn = 0 /\ pins' = PinsAfter(wire, w, pins)
        /\ \E d \in EffectOf(wire, lcd, pins, w) : lcd' = Waited(w, d)
    BY <1>5, <2>1 DEF WrittenOut
  <2>3. PICK d \in EffectOf(wire, lcd, pins, w) : lcd' = Waited(w, d)
    BY <2>2
  <2>4. GoodAt(wire, asked, lcd, pins, regval, Len(todo))
    BY <1>2, <1>5, <2>2 DEF LcdInv
  <2>5. GoodAt(wire, asked, Waited(w, d), PinsAfter(wire, w, pins),
               RegAfter(wire, w, regval), Len(todo) - 1)
    BY <1>1, <2>4, GoodStep
  <2>6. QED
    BY <1>2, <1>3, <2>2, <2>3, <2>5
<1>6. QED
  BY <1>4, <1>5 DEF IsGood

(* The other steps. *)
LEMMA RestGood ==
  ASSUME LcdInv, LcdReady \/ LcdReset \/ UNCHANGED lcdvars
  PROVE  IsGood'
<1>1. CASE LcdReady
  <2>1. ~(rtn = 0 /\ (trusted \/ asked.op = "init"))
    <3>1. lcd.busy
      BY <1>1 DEF LcdReady
    <3>2. ~GoodAt(wire, asked, lcd, pins, regval, Len(todo))
      BY <3>1, Zenon DEF GoodAt
    <3>3. QED
      BY <3>2, Zenon DEF LcdInv
  <2>2. rtn' = rtn /\ trusted' = trusted /\ asked' = asked /\ todo' = todo
    BY <1>1 DEF LcdReady
  <2>3. trusted /\ asked.op = "init" => todo = << >>
    BY DEF LcdInv
  <2>4. QED
    BY <2>1, <2>2, <2>3 DEF IsGood
<1>2. CASE LcdReset
  <2>1. trusted' = FALSE /\ asked'.op # "init"
    BY <1>2 DEF LcdReset, NoCall
  <2>2. QED
    BY <2>1 DEF IsGood
<1>3. CASE UNCHANGED lcdvars
  <2>1. IsGood
    BY DEF LcdInv, IsGood
  <2>2. QED
    BY <1>3, <2>1 DEF lcdvars, IsGood
<1>4. QED
  BY <1>1, <1>2, <1>3

(* Every step keeps the invariant. *)
LEMMA LcdNextInv ==
  ASSUME LcdInv, CarefulHome, [LcdNext]_lcdvars
  PROVE  LcdInv'
<1>1. CallSound'
  BY StepTyped DEF LcdInv, CallSound
<1>2. IsGood'
  <2>1. CASE nk_hd44780_display_mode \/ nk_hd44780_cls \/ nk_hd44780_home
               \/ nk_hd44780_pos
    <3>1. PICK op, arg, flag, cmd, waits :
            IsCommand(op, arg, flag, cmd, waits)
      BY <2>1, AreCommands
    <3>2. QED
      BY <1>1, <3>1, CommandGood
  <2>2. CASE BusWrites
    BY <2>2, BusWritten, WriteGood
  <2>3. CASE LcdStart \/ nk_hd44780_write \/ nk_lcd8574_backlight
    BY <1>1, <2>3, OthersGood
  <2>4. CASE LcdReady \/ LcdReset \/ UNCHANGED lcdvars
    BY <2>4, RestGood
  <2>5. QED
    BY <2>1, <2>2, <2>3, <2>4 DEF LcdNext
<1>3. QED
  BY <1>1, <1>2 DEF CallSound, IsGood, LcdInv

(***************************************************************************)
(* The inductive invariant, if the callers of nk_hd44780_home wait.        *)
(***************************************************************************)
THEOREM LcdInvariant == CarefulHome => (LcdSpec => []LcdInv)
<1> SUFFICES ASSUME CarefulHome PROVE LcdSpec => []LcdInv
  OBVIOUS
<1>1. LcdInit => LcdInv
  BY LcdStarts
<1>2. LcdInv /\ [LcdNext]_lcdvars => LcdInv'
  BY LcdNextInv
<1>3. QED
  BY <1>1, <1>2, PTL DEF LcdSpec

-----------------------------------------------------------------------------
(* The displays: they implement the screen *)

(* the characters that are not written when n writes are left of data *)
Rest(to, data, n) ==
  SubSeq(data, Len(data) - (n + Per(to) - 1) \div Per(to) + 1, Len(data))

(* the call of the screen when the writes s are left of the call a *)
PendingOf(to, a, s) ==
  IF s = << >> THEN NoCall
  ELSE [a EXCEPT !.data = IF a.op = "write" THEN Rest(to, a.data, Len(s))
                          ELSE << >>]

(* n writes are left, and one less after the p-th of the k-th of N bytes *)
Counts(to, N, k, p, n) ==
  /\ (n + Per(to) - 1) \div Per(to) = N - k + 1
  /\ n - 1 = 0 => p = Per(to) /\ k = N
  /\ p < Per(to) => n - 1 = Back(to, N, k, p + 1)
  /\ p = Per(to) /\ k < N => n - 1 = Back(to, N, k + 1, 1)
  /\ p = Per(to) /\ k = N => n - 1 = 0
  /\ n \in Nat \ {0}

(* The writes that are left of a byte count as the byte. *)
LEMMA RoundsUp ==
  ASSUME NEW to \in Wires, NEW N \in Nat, NEW k \in 1 .. N,
         NEW p \in 1 .. Per(to), NEW n, n = Back(to, N, k, p)
  PROVE  Counts(to, N, k, p, n)
<1>1. CASE to = "aip31068"
  <2>1. Per(to) = 1 /\ n = N - k + 1
    BY <1>1, PerIs DEF Back
  <2>2. n - 1 = 0 => k = N
    BY <2>1
  <2>3. k < N => n - 1 = Back(to, N, k + 1, 1)
    BY <1>1, <2>1 DEF Back
  <2>4. n \div 1 = n /\ n + 1 - 1 = n /\ n \in Nat \ {0}
    BY <2>1
  <2>5. p = 1
    BY <2>1
  <2>6. QED
    BY <2>1, <2>2, <2>3, <2>4, <2>5 DEF Counts
<1>2. CASE to = "lcd8574"
  <2>1. Per(to) = 4 /\ n = 4 * (N - k) + 5 - p /\ p \in 1 .. 4
    BY <1>2, PerIs DEF Back
  <2> DEFINE r == N - k
  <2>2. r \in Nat
    OBVIOUS
  <2>3. n + 4 - 1 = 4 * (r + 1) + (4 - p) /\ (4 - p) \in 0 .. 3
    BY <2>1
  <2> HIDE DEF r
  <2>4. (4 * (r + 1) + (4 - p)) \div 4 = r + 1
    BY <2>1, <2>2
  <2>5. (n + Per(to) - 1) \div Per(to) = r + 1
    BY <2>1, <2>3, <2>4
  <2>6. n - 1 = 0 => p = 4 /\ k = N
    BY <2>1
  <2>7. p < 4 => n - 1 = Back(to, N, k, p + 1)
    BY <1>2, <2>1 DEF Back
  <2>8. p = 4 /\ k < N => n - 1 = Back(to, N, k + 1, 1)
    BY <1>2, <2>1 DEF Back
  <2>9. n \in Nat \ {0}
    BY <2>1
  <2>10. p = 4 /\ k = N => n - 1 = 0
    BY <2>1
  <2>11. r + 1 = N - k + 1
    BY DEF r
  <2>12. QED
    BY <2>1, <2>5, <2>6, <2>7, <2>8, <2>9, <2>10, <2>11 DEF Counts
<1>3. QED
  BY <1>1, <1>2 DEF Wires

(* What is not written yet begins with the byte that is written. *)
LEMMA RestIs ==
  ASSUME NEW to \in Wires, NEW data \in Seq(0 .. 255),
         NEW k \in 1 .. Len(data), NEW p \in 1 .. Per(to),
         NEW n, n = Back(to, Len(data), k, p)
  PROVE  Rest(to, data, n) = SubSeq(data, k, Len(data))
<1> DEFINE N == Len(data)
<1>1. N \in Nat
  BY LenProperties
<1>2. (n + Per(to) - 1) \div Per(to) = N - k + 1
  <2>1. Counts(to, N, k, p, n)
    BY <1>1, RoundsUp
  <2>2. QED
    BY <2>1 DEF Counts
<1>3. N - (N - k + 1) + 1 = k
  BY <1>1
<1>4. QED
  BY <1>2, <1>3 DEF Rest

(* The rest of a sequence without its head. *)
LEMMA TailOfRest ==
  ASSUME NEW S, NEW q \in Seq(S), NEW k \in 1 .. Len(q)
  PROVE  /\ Head(SubSeq(q, k, Len(q))) = q[k]
         /\ k < Len(q) =>
              /\ Tail(SubSeq(q, k, Len(q))) = SubSeq(q, k + 1, Len(q))
              /\ SubSeq(q, k + 1, Len(q)) # << >>
         /\ k = Len(q) => Tail(SubSeq(q, k, Len(q))) = << >>
<1> DEFINE N == Len(q)
           u == SubSeq(q, k, N)
           v == SubSeq(q, k + 1, N)
<1>1. N \in Nat /\ k \in 1 .. N
  BY LenProperties
<1>2. /\ u \in Seq(S) /\ Len(u) = N - k + 1
      /\ \A i \in 1 .. N - k + 1 : u[i] = q[k + i - 1]
  BY <1>1, SliceProps
<1>3. /\ v \in Seq(S) /\ Len(v) = N - k
      /\ \A i \in 1 .. N - k : v[i] = q[k + i]
  <2>1. k + 1 \in 1 .. N + 1 /\ N \in (k + 1) - 1 .. N
    BY <1>1
  <2>2. /\ v \in Seq(S) /\ Len(v) = N - (k + 1) + 1
        /\ \A i \in 1 .. N - (k + 1) + 1 : v[i] = q[(k + 1) + i - 1]
    BY <2>1, SliceProps
  <2>3. N - (k + 1) + 1 = N - k
        /\ \A i \in 1 .. N - k : (k + 1) + i - 1 = k + i
    BY <1>1
  <2>4. QED
    BY <2>2, <2>3
<1> HIDE DEF N, u, v
<1>4. u # << >>
  BY <1>1, <1>2
<1>5. /\ Tail(u) \in Seq(S) /\ Len(Tail(u)) = N - k
      /\ \A i \in 1 .. N - k : Tail(u)[i] = u[i + 1]
  BY <1>1, <1>2, <1>4
<1>6. ASSUME NEW i \in 1 .. N - k PROVE Tail(u)[i] = v[i]
  <2>1. i + 1 \in 1 .. N - k + 1 /\ k + (i + 1) - 1 = k + i
    BY <1>1
  <2>2. u[i + 1] = q[k + i]
    BY <1>2, <2>1
  <2>3. QED
    BY <1>3, <1>5, <2>2
<1>7. Tail(u) = v
  BY <1>3, <1>5, <1>6, SeqEqual
<1>8. Head(u) = q[k]
  <2>1. Head(u) = u[1] /\ 1 \in 1 .. N - k + 1 /\ k + 1 - 1 = k
    BY <1>1, <1>2, <1>4
  <2>2. QED
    BY <1>2, <2>1
<1>9. k < N => v # << >>
  BY <1>1, <1>3
<1>10. k = N => v = << >>
  BY <1>1, <1>3, EmptySeq
<1>11. QED
  BY <1>7, <1>8, <1>9, <1>10 DEF N, u, v

(* The call of the screen while a byte is written, and after it. *)
LEMMA PendingIs ==
  ASSUME NEW to \in Wires, NEW a \in CallType, NEW s \in Seq(WriteType),
         NEW k \in 1 .. Len(Items(to, a)), NEW p \in 1 .. Per(to),
         Len(s) = Back(to, Len(Items(to, a)), k, p), a.op # "init"
  PROVE  /\ s # << >>
         /\ PendingOf(to, a, s).op = a.op /\ PendingOf(to, a, s).arg = a.arg
         /\ PendingOf(to, a, s).flag = a.flag
         /\ p < Per(to) => PendingOf(to, a, Tail(s)) = PendingOf(to, a, s)
         /\ p = Per(to) /\ a.op # "write" =>
              PendingOf(to, a, Tail(s)) = NoCall
         /\ p = Per(to) /\ a.op = "write" =>
              LET data == PendingOf(to, a, s).data
              IN  /\ Head(data) = a.data[k]
                  /\ PendingOf(to, a, Tail(s)) =
                       IF Tail(data) = << >> THEN NoCall
                       ELSE [PendingOf(to, a, s) EXCEPT !.data = Tail(data)]
<1> DEFINE N == Len(Items(to, a))
           n == Len(s)
<1>1. N \in Nat /\ n \in Nat
  BY ItemsType, LenProperties
<1>2. n = Back(to, N, k, p) /\ k \in 1 .. N
  OBVIOUS
<1> HIDE DEF N, n
<1>3. /\ n - 1 = 0 => p = Per(to) /\ k = N
      /\ p < Per(to) => n - 1 = Back(to, N, k, p + 1)
      /\ p = Per(to) /\ k < N => n - 1 = Back(to, N, k + 1, 1)
      /\ p = Per(to) /\ k = N => n - 1 = 0
      /\ n \in Nat \ {0}
  <2>1. Counts(to, N, k, p, n)
    BY <1>1, <1>2, RoundsUp
  <2>2. QED
    BY <2>1 DEF Counts
<1>4. s # << >> /\ Tail(s) \in Seq(WriteType) /\ Len(Tail(s)) = n - 1
  BY <1>3 DEF n
<1>5. n - 1 = 0 <=> Tail(s) = << >>
  BY <1>4, EmptySeq
<1>6. PendingOf(to, a, s)
        = [a EXCEPT !.data = IF a.op = "write" THEN Rest(to, a.data, n)
                             ELSE << >>]
  BY <1>4 DEF PendingOf, n
<1>7. Tail(s) # << >> =>
        PendingOf(to, a, Tail(s))
          = [a EXCEPT !.data = IF a.op = "write"
                               THEN Rest(to, a.data, n - 1) ELSE << >>]
  BY <1>4 DEF PendingOf
<1>8. Tail(s) = << >> => PendingOf(to, a, Tail(s)) = NoCall
  BY DEF PendingOf
<1>9. PendingOf(to, a, s).op = a.op /\ PendingOf(to, a, s).arg = a.arg
      /\ PendingOf(to, a, s).flag = a.flag
  BY <1>6 DEF CallType
<1>10. CASE a.op = "write"
  <2>1. N = Len(a.data) /\ a.data \in Seq(0 .. 255)
    <3>1. a.data \in Seq(0 .. 255)
      BY DEF CallType
    <3>2. QED
      BY <1>10, <3>1, ItemsType, DataItemsType DEF N
  <2>2. k \in 1 .. Len(a.data) /\ n = Back(to, Len(a.data), k, p)
    BY <2>1 DEF N, n
  <2>3. Rest(to, a.data, n) = SubSeq(a.data, k, Len(a.data))
    BY <2>1, <2>2, RestIs
  <2>4. ASSUME p < Per(to)
        PROVE  PendingOf(to, a, Tail(s)) = PendingOf(to, a, s)
    <3>1. n - 1 = Back(to, Len(a.data), k, p + 1) /\ Tail(s) # << >>
          /\ p + 1 \in 1 .. Per(to)
      <4>1. Per(to) \in 1 .. 4
        BY PerIs
      <4>2. p + 1 \in 1 .. Per(to) /\ p # Per(to)
        BY <2>4, <4>1
      <4>3. n - 1 # 0
        BY <1>3, <4>2, Zenon
      <4>4. QED
        BY <1>3, <1>5, <2>1, <2>4, <4>2, <4>3, Zenon
    <3>2. Rest(to, a.data, n - 1) = SubSeq(a.data, k, Len(a.data))
      BY <2>1, <2>2, <3>1, RestIs
    <3>3. QED
      BY <1>6, <1>7, <2>3, <3>1, <3>2
  <2>5. ASSUME p = Per(to)
        PROVE  LET data == PendingOf(to, a, s).data
               IN  /\ Head(data) = a.data[k]
                   /\ PendingOf(to, a, Tail(s)) =
                        IF Tail(data) = << >> THEN NoCall
                        ELSE [PendingOf(to, a, s) EXCEPT !.data = Tail(data)]
    <3> DEFINE data == PendingOf(to, a, s).data
    <3>1. data = SubSeq(a.data, k, Len(a.data))
      BY <1>6, <1>10, <2>3 DEF CallType
    <3>2. /\ Head(data) = a.data[k]
          /\ k < Len(a.data) =>
               /\ Tail(data) = SubSeq(a.data, k + 1, Len(a.data))
               /\ SubSeq(a.data, k + 1, Len(a.data)) # << >>
          /\ k = Len(a.data) => Tail(data) = << >>
      <4> DEFINE u == SubSeq(a.data, k, Len(a.data))
                 v == SubSeq(a.data, k + 1, Len(a.data))
      <4>1. /\ Head(u) = a.data[k]
            /\ k < Len(a.data) => Tail(u) = v /\ v # << >>
            /\ k = Len(a.data) => Tail(u) = << >>
        BY <2>1, <2>2, TailOfRest
      <4>2. data = u
        BY <3>1
      <4> HIDE DEF u, data
      <4>3. QED
        BY <4>1, <4>2, Zenon DEF v
    <3> HIDE DEF data
    <3>3. CASE k < Len(a.data)
      <4>1. n - 1 = Back(to, Len(a.data), k + 1, 1) /\ Tail(s) # << >>
            /\ k + 1 \in 1 .. Len(a.data) /\ 1 \in 1 .. Per(to)
        BY <1>1, <1>3, <1>5, <2>1, <2>2, <2>5, <3>3, PerIs
      <4>2. Rest(to, a.data, n - 1) = SubSeq(a.data, k + 1, Len(a.data))
        BY <2>1, <4>1, RestIs
      <4>3. PendingOf(to, a, Tail(s)) = [a EXCEPT !.data = Tail(data)]
        BY <1>7, <1>10, <3>2, <3>3, <4>1, <4>2
      <4>4. [PendingOf(to, a, s) EXCEPT !.data = Tail(data)]
              = [a EXCEPT !.data = Tail(data)]
        BY <1>6 DEF CallType
      <4>5. QED
        BY <3>2, <3>3, <4>3, <4>4 DEF data
    <3>4. CASE k = Len(a.data)
      <4>1. Tail(s) = << >>
        BY <1>3, <1>5, <2>1, <2>5, <3>4
      <4>2. QED
        BY <1>8, <3>2, <3>4, <4>1 DEF data
    <3>5. QED
      BY <2>1, <2>2, <3>3, <3>4
  <2>6. QED
    BY <1>4, <1>9, <1>10, <2>4, <2>5
<1>11. CASE a.op # "write"
  <2>1. N = 1 /\ k = 1
    <3>1. a.op \in {"idle", "cls", "home", "pos", "mode", "backlight"}
      BY <1>11 DEF CallType
    <3>2. N \in {0, 1}
      BY <3>1, ItemsType DEF N
    <3>3. k \in 1 .. N
      BY DEF N
    <3>4. QED
      BY <3>2, <3>3
  <2>2. p < Per(to) => PendingOf(to, a, Tail(s)) = PendingOf(to, a, s)
    <3>1. p < Per(to) => n - 1 # 0
      BY <1>3, PerIs
    <3>2. p < Per(to) => Tail(s) # << >>
      BY <1>5, <3>1
    <3>3. QED
      BY <1>6, <1>7, <1>11, <3>2
  <2>3. p = Per(to) => PendingOf(to, a, Tail(s)) = NoCall
    BY <1>3, <1>5, <1>8, <2>1
  <2>4. QED
    BY <1>4, <1>9, <1>11, <2>2, <2>3
<1>12. QED
  BY <1>10, <1>11

(* the call of the screen *)
ShownPending ==
  IF todo = << >> THEN NoCall ELSE [asked EXCEPT !.data = Unwritten]

(* It is what is left of the call of the display. *)
LEMMA ShownPendingIs ==
  /\ wire \in Wires => ShownPending = PendingOf(wire, asked, todo)
  /\ wire' \in Wires => ShownPending' = PendingOf(wire', asked', todo')
<1>1. wire \in Wires => WritesPerCharacter = Per(wire)
  BY DEF WritesPerCharacter, Per, Wires
<1>2. wire' \in Wires => WritesPerCharacter' = Per(wire')
  BY DEF WritesPerCharacter, Per, Wires
<1>3. WritesPerCharacter = Per(wire) =>
        Unwritten = IF asked.op = "write"
                    THEN Rest(wire, asked.data, Len(todo)) ELSE << >>
  BY Zenon DEF Unwritten, Rest
<1>4. WritesPerCharacter' = Per(wire') =>
        Unwritten' = IF asked'.op = "write"
                     THEN Rest(wire', asked'.data, Len(todo')) ELSE << >>
  BY Zenon DEF Unwritten, Rest
<1>5. wire \in Wires => ShownPending = PendingOf(wire, asked, todo)
  BY <1>1, <1>3, Zenon DEF ShownPending, PendingOf
<1>6. wire' \in Wires => ShownPending' = PendingOf(wire', asked', todo')
  BY <1>2, <1>4, Zenon DEF ShownPending, PendingOf
<1>7. QED
  BY <1>5, <1>6

(* Nothing is known at first. *)
LEMMA ScreenStarts ==
  ASSUME LcdInit
  PROVE  Shown!Init
<1>1. ~Known /\ todo = << >> /\ lcdfaults = 0
  BY DEF LcdInit, Known
<1>2. Shown!Empty = BlankCells /\ Shown!Idle = NoCall
  BY DEF Shown!Empty, BlankCells, Shown!Idle, NoCall
<1>3. Known = FALSE
  BY <1>1 DEF Known
<1>4. QED
  BY <1>1, <1>2, <1>3, Zenon DEF Shown!Init

(* A call starts on the screen. *)
LEMMA CallShown ==
  ASSUME LcdInv, CallSound', todo = << >>, Len(todo') # 0,
         asked'.op # "idle", UNCHANGED << wire, pins, lcdfaults >>,
         asked'.op = "init" => ~trusted',
         asked'.op # "init" => UNCHANGED lcd /\ Trusts /\ rtn' = 0
  PROVE  Shown!Next
<1>1. wire \in Wires /\ wire' \in Wires /\ asked' \in CallType
      /\ todo' # << >>
  BY DEF LcdInv, CallSound, LcdTypes
<1>2. ShownPending = NoCall /\ ShownPending' # NoCall
      /\ ShownPending'.op = asked'.op
  <2>1. ShownPending = NoCall
    BY DEF ShownPending
  <2>2. ShownPending' = PendingOf(wire', asked', todo')
    BY <1>1, ShownPendingIs
  <2>3. ShownPending'.op = asked'.op
    BY <1>1, <2>2 DEF PendingOf, CallType
  <2>4. NoCall.op = "idle"
    BY DEF NoCall
  <2>5. QED
    BY <2>1, <2>3, <2>4
<1>3. Shown!Idle = NoCall
  BY DEF Shown!Idle, NoCall
<1>4. lcdfaults' = lcdfaults
  OBVIOUS
<1>5. CASE asked'.op = "init"
  <2>1. ~Known'
    BY <1>5 DEF Known
  <2>2. Shown!Calls
    BY <1>2, <1>3, <1>4, <1>5, <2>1, Zenon DEF Shown!Calls, ShownPending
  <2>3. QED
    BY <2>2 DEF Shown!Next
<1>6. CASE asked'.op # "init"
  <2>1. Known' = Known
    <3>1. trusted' = (trusted /\ rtn = 0) /\ rtn' = 0
      BY <1>6 DEF Trusts
    <3>2. QED
      BY <3>1 DEF Known
  <2>2. lcd' = lcd /\ pins' = pins
    BY <1>6
  <2>3. UNCHANGED << Known, Shown!Screen >>
    BY <2>1, <2>2 DEF Shown!Screen
  <2>4. Shown!Calls
    BY <1>2, <1>3, <1>4, <1>6, <2>3, Zenon DEF Shown!Calls, ShownPending
  <2>5. QED
    BY <2>4 DEF Shown!Next
<1>7. QED
  BY <1>5, <1>6

(* All of them. *)
LEMMA CallsShown ==
  ASSUME LcdInv, CallSound',
         \/ LcdStart
         \/ nk_hd44780_display_mode \/ nk_hd44780_cls \/ nk_hd44780_home
              \/ nk_hd44780_pos
         \/ nk_hd44780_write
         \/ nk_lcd8574_backlight
  PROVE  Shown!Next
<1>1. CallSound /\ wire \in Wires
  BY DEF LcdInv, CallSound, LcdTypes
<1>2. Per(wire) \in 1 .. 4
  BY <1>1, PerIs
<1>3. CASE LcdStart
  <2>1. /\ asked'.op = "init" /\ trusted' = FALSE
        /\ wire = "lcd8574" => Len(todo') = 24
        /\ wire = "aip31068" => Len(todo') = 6
    BY <1>1, <1>3, StartTyped
  <2>2. Len(todo') # 0
    <3>1. 24 # 0 /\ 6 # 0
      OBVIOUS
    <3>2. wire = "lcd8574" \/ wire = "aip31068"
      BY <1>1 DEF Wires
    <3>3. QED
      BY <2>1, <3>1, <3>2, Zenon
  <2>3. todo = << >> /\ UNCHANGED << wire, pins, lcdfaults >>
    BY <1>3 DEF LcdStart, Calls
  <2>4. QED
    BY <2>1, <2>2, <2>3, CallShown
<1>4. CASE nk_hd44780_display_mode \/ nk_hd44780_cls \/ nk_hd44780_home
             \/ nk_hd44780_pos
  <2>1. PICK op, arg, flag, cmd, waits :
          IsCommand(op, arg, flag, cmd, waits)
    BY <1>4, AreCommands
  <2>2. /\ todo = << >> /\ UNCHANGED << wire, pins, lcdfaults >>
        /\ UNCHANGED lcd /\ Trusts /\ rtn' = 0
        /\ asked' = [op |-> op, arg |-> arg, flag |-> flag, data |-> << >>]
        /\ op \in {"cls", "home", "pos", "mode"}
    BY <2>1 DEF IsCommand, Commands, Calls
  <2>3. asked'.op \notin {"idle", "init"}
    BY <2>2
  <2>4. Len(todo') = Per(wire)
    BY <1>1, <2>1, CommandTyped DEF IsCommand
  <2>5. Len(todo') # 0
    BY <1>2, <2>4
  <2>6. QED
    BY <2>2, <2>3, <2>5, CallShown
<1>5. CASE nk_hd44780_write
  <2>1. /\ asked'.op = "write" /\ UNCHANGED lcd /\ Trusts /\ rtn' = 0
        /\ Len(todo') = Per(wire) * Len(asked'.data) /\ asked'.data # << >>
    BY <1>1, <1>5, DataTyped
  <2>2. todo = << >> /\ UNCHANGED << wire, pins, lcdfaults >>
    BY <1>5 DEF nk_hd44780_write, Calls
  <2>3. Len(todo') # 0
    <3>1. asked'.data \in Seq(0 .. 255)
      BY DEF CallSound, LcdTypes, CallType
    <3>2. Len(asked'.data) \in Nat \ {0}
      BY <2>1, <3>1
    <3>3. QED
      BY <1>1, <2>1, <3>2, PerIs DEF Wires
  <2>4. asked'.op \notin {"idle", "init"}
    BY <2>1
  <2>5. QED
    BY <2>1, <2>2, <2>3, <2>4, CallShown
<1>6. CASE nk_lcd8574_backlight
  <2>1. /\ asked'.op = "backlight" /\ UNCHANGED lcd /\ Trusts /\ rtn' = 0
        /\ Len(todo') # 0
    <3>1. 1 # 0
      OBVIOUS
    <3>2. QED
      BY <1>1, <1>6, <3>1, LightTyped, Zenon
  <2>2. todo = << >> /\ UNCHANGED << wire, pins, lcdfaults >>
    BY <1>6 DEF nk_lcd8574_backlight, Calls
  <2>3. asked'.op \notin {"idle", "init"}
    BY <2>1
  <2>4. QED
    BY <2>1, <2>2, <2>3, CallShown
<1>7. QED
  BY <1>3, <1>4, <1>5, <1>6

(* The display becomes ready, the processor is reset, or nothing happens. *)
LEMMA RestShown ==
  ASSUME LcdInv, LcdReady \/ LcdReset \/ UNCHANGED lcdvars
  PROVE  Shown!Next \/ UNCHANGED Shown!vars
<1>1. CASE LcdReady
  <2>1. ~Known
    <3>1. lcd.busy
      BY <1>1 DEF LcdReady
    <3>2. ~GoodAt(wire, asked, lcd, pins, regval, Len(todo))
      BY <3>1, Zenon DEF GoodAt
    <3>3. QED
      BY <3>2, Zenon DEF LcdInv, Known
  <2>2. rtn' = rtn /\ trusted' = trusted /\ lcdfaults' = lcdfaults
    BY <1>1 DEF LcdReady
  <2>3. ~Known'
    BY <2>1, <2>2 DEF Known
  <2>4. Shown!Unknown
    BY <2>1, <2>2, <2>3, Zenon DEF Shown!Unknown
  <2>5. QED
    BY <2>4 DEF Shown!Next
<1>2. CASE LcdReset
  <2>1. ~Known' /\ lcdfaults' = lcdfaults + 1
    BY <1>2 DEF LcdReset, Known
  <2>2. Shown!Fails
    BY <2>1, Zenon DEF Shown!Fails
  <2>3. QED
    BY <2>2 DEF Shown!Next
<1>3. CASE UNCHANGED lcdvars
  <2>1. /\ wire' = wire /\ lcd' = lcd /\ pins' = pins /\ todo' = todo
        /\ asked' = asked /\ rtn' = rtn /\ trusted' = trusted
        /\ lcdfaults' = lcdfaults
    BY <1>3 DEF lcdvars
  <2>2. Known' = Known
    BY <2>1 DEF Known
  <2>3. ShownPending' = ShownPending
    <3>1. wire \in Wires
      BY DEF LcdInv, LcdTypes
    <3>2. QED
      BY <2>1, <3>1, ShownPendingIs
  <2>4. QED
    BY <2>1, <2>2, <2>3 DEF Shown!vars, ShownPending
<1>4. QED
  BY <1>1, <1>2, <1>3

(* The last write of an initialisation: the screen is empty. *)
LEMMA InitShown ==
  ASSUME LcdInv, LcdInv', NEW w, WrittenOut(w), ~trusted, rtn' = 0,
         asked.op = "init", Len(todo) = 1, lcdfaults' = lcdfaults
  PROVE  Shown!Next
<1>1. /\ wire \in Wires /\ todo # << >> /\ asked \in CallType
      /\ todo \in Seq(WriteType)
      /\ asked' = asked /\ todo' = Tail(todo) /\ trusted' = TRUE
  BY DEF LcdInv, LcdTypes, WrittenOut
<1>2. todo' = << >>
  <2>1. Len(Tail(todo)) = Len(todo) - 1 /\ Tail(todo) \in Seq(WriteType)
    BY <1>1
  <2>2. Len(Tail(todo)) = 0
    BY <2>1
  <2>3. QED
    BY <1>1, <2>1, <2>2, EmptySeq
<1>3. ~Known /\ Known' = TRUE
  BY <1>1 DEF Known
<1>4. /\ lcd'.text = BlankCells /\ lcd'.addr = 0 /\ lcd'.on = TRUE
      /\ pins'.light = asked.flag
  <2>1. GoodAt(wire', asked', lcd', pins', regval', Len(todo'))
    BY <1>1 DEF LcdInv
  <2>2. Len(todo') = 0 /\ asked'.op = "init"
    BY <1>1, <1>2
  <2>3. Blanked(wire', asked', lcd', pins', 0)
    BY <2>1, <2>2, Zenon DEF GoodAt
  <2>4. wire' \in Wires
    BY DEF LcdInv, LcdTypes
  <2>5. 0 <= Per(wire')
    BY <2>4, PerIs
  <2>6. lcd'.text = BlankCells /\ lcd'.addr = 0 /\ lcd'.on
        /\ pins'.light = asked'.flag
    BY <2>3, <2>5, Zenon DEF Blanked
  <2>7. lcd'.on \in BOOLEAN
    BY DEF LcdInv, LcdTypes, DisplayType
  <2>8. QED
    BY <1>1, <2>6, <2>7
<1>5. /\ ShownPending.op = "init" /\ ShownPending.flag = asked.flag
      /\ ShownPending' = NoCall
  <2>1. ShownPending = PendingOf(wire, asked, todo)
    BY <1>1, ShownPendingIs
  <2>2. ShownPending.op = asked.op /\ ShownPending.flag = asked.flag
    BY <1>1, <2>1 DEF PendingOf, CallType
  <2>3. ShownPending' = NoCall
    BY <1>2 DEF ShownPending
  <2>4. QED
    BY <2>2, <2>3
<1>6. asked.flag \in BOOLEAN
  BY <1>1 DEF CallType
<1>7. Shown!Empty = BlankCells /\ Shown!Idle = NoCall
  BY DEF Shown!Empty, BlankCells, Shown!Idle, NoCall
<1>8. /\ (IF Known' THEN lcd'.text ELSE BlankCells') = BlankCells
      /\ (IF Known' THEN lcd'.addr ELSE 0) = 0
      /\ (Known' /\ lcd'.on) = TRUE /\ (Known' /\ pins'.light) = asked.flag
  BY <1>3, <1>4, <1>6
<1>9. Shown!Initialised
  BY <1>3, <1>5, <1>7, <1>8, Zenon DEF Shown!Initialised, ShownPending
<1>10. Shown!Works
  BY <1>5, <1>7, <1>9, Zenon DEF Shown!Works, ShownPending
<1>11. QED
  BY <1>10 DEF Shown!Next

(* The screen while it is known, before and after a write. *)
LEMMA KnownShown ==
  ASSUME Known, Known', LcdTypes, LcdTypes'
  PROVE  /\ Known = TRUE /\ Known' = TRUE
         /\ (IF Known THEN lcd.text ELSE BlankCells) = lcd.text
         /\ (IF Known THEN lcd.addr ELSE 0) = lcd.addr
         /\ (Known /\ lcd.on) = lcd.on /\ (Known /\ pins.light) = pins.light
         /\ (IF Known THEN lcd.text ELSE BlankCells)' = lcd'.text
         /\ (IF Known THEN lcd.addr ELSE 0)' = lcd'.addr
         /\ (Known /\ lcd.on)' = lcd'.on
         /\ (Known /\ pins.light)' = pins'.light
<1>1. Known = TRUE /\ Known' = TRUE
  BY DEF Known
<1>2. lcd.on \in BOOLEAN /\ pins.light \in BOOLEAN /\ lcd'.on \in BOOLEAN
      /\ pins'.light \in BOOLEAN
  BY DEF LcdTypes, DisplayType, PinsType
<1>3. QED
  BY <1>1, <1>2

(* the step of the screen that a call which is done makes *)
ScreenDoes(a, c, d, l, l2) ==
  \/ a.op = "cls" /\ d.text = BlankCells /\ d.addr = 0 /\ d.on = c.on
       /\ l2 = l
  \/ a.op \in {"home", "pos"} /\ d.addr = a.arg /\ d.text = c.text
       /\ d.on = c.on /\ l2 = l
  \/ a.op = "mode" /\ d.on = a.flag /\ d.text = c.text /\ d.addr = c.addr
       /\ l2 = l
  \/ a.op = "backlight" /\ l2 = a.flag /\ d.text = c.text
       /\ d.addr = c.addr /\ d.on = c.on

(* A call that is done. *)
LEMMA DoneShown ==
  ASSUME Known, Known', LcdTypes, LcdTypes', lcdfaults' = lcdfaults,
         NEW a, ShownPending.op = a.op, ShownPending.arg = a.arg,
         ShownPending.flag = a.flag, ShownPending' = NoCall,
         ScreenDoes(a, lcd, lcd', pins.light, pins'.light)
  PROVE  Shown!Next
<1> USE KnownShown
<1>1. Shown!Empty = BlankCells /\ Shown!Idle = NoCall
  BY DEF Shown!Empty, BlankCells, Shown!Idle, NoCall
<1>2. CASE a.op = "cls" /\ lcd'.text = BlankCells /\ lcd'.addr = 0
             /\ lcd'.on = lcd.on /\ pins'.light = pins.light
  <2>1. Shown!Clears
    BY <1>1, <1>2, Zenon DEF Shown!Clears, ShownPending
  <2>2. QED
    BY <1>1, <2>1, Zenon DEF Shown!Next, Shown!Works, ShownPending
<1>3. CASE a.op \in {"home", "pos"} /\ lcd'.addr = a.arg
             /\ lcd'.text = lcd.text /\ lcd'.on = lcd.on
             /\ pins'.light = pins.light
  <2>1. Shown!Moves
    BY <1>1, <1>3, Zenon DEF Shown!Moves, ShownPending
  <2>2. QED
    BY <1>1, <2>1, Zenon DEF Shown!Next, Shown!Works, ShownPending
<1>4. CASE a.op = "mode" /\ lcd'.on = a.flag /\ lcd'.text = lcd.text
             /\ lcd'.addr = lcd.addr /\ pins'.light = pins.light
  <2>1. Shown!Switches
    BY <1>1, <1>4, Zenon DEF Shown!Switches, ShownPending
  <2>2. QED
    BY <1>1, <2>1, Zenon DEF Shown!Next, Shown!Works, ShownPending
<1>5. CASE a.op = "backlight" /\ pins'.light = a.flag
             /\ lcd'.text = lcd.text /\ lcd'.addr = lcd.addr
             /\ lcd'.on = lcd.on
  <2>1. Shown!Switches
    BY <1>1, <1>5, Zenon DEF Shown!Switches, ShownPending
  <2>2. QED
    BY <1>1, <2>1, Zenon DEF Shown!Next, Shown!Works, ShownPending
<1>6. QED
  BY <1>2, <1>3, <1>4, <1>5, Zenon DEF ScreenDoes

(* A character is written. *)
LEMMA PutShown ==
  ASSUME Known, Known', LcdTypes, LcdTypes', lcdfaults' = lcdfaults,
         ShownPending.op = "write", NEW byte,
         Head(ShownPending.data) = byte,
         ShownPending' = (IF Tail(ShownPending.data) = << >> THEN NoCall
                          ELSE [ShownPending EXCEPT
                                  !.data = Tail(ShownPending.data)]),
         lcd'.addr = (lcd.addr + 1) % Cells,
         lcd'.text = [lcd.text EXCEPT ![lcd.addr] = byte],
         lcd'.on = lcd.on, pins'.light = pins.light
  PROVE  Shown!Next
<1> USE KnownShown
<1>1. Shown!Idle = NoCall
  BY DEF Shown!Idle, NoCall
<1>2. Shown!Puts
  BY Zenon DEF Shown!Puts, ShownPending
<1>3. ShownPending' = Shown!Left(Tail(ShownPending.data))
  BY <1>1, Zenon DEF Shown!Left, ShownPending
<1>4. Shown!Works
  BY <1>1, <1>2, <1>3, Zenon DEF Shown!Works, ShownPending
<1>5. QED
  BY <1>4 DEF Shown!Next

(* A write of a byte: the screen stutters, or does what the byte asks for. *)
LEMMA ItemShown ==
  ASSUME LcdInv, LcdInv', CarefulHome, NEW w, WrittenOut(w), Known, Known',
         asked.op # "init", lcdfaults' = lcdfaults,
         NEW k \in 1 .. Len(Items(wire, asked)), NEW p \in 1 .. Per(wire),
         ItemWrite(w, Len(todo), wire, asked, regval, k, p),
         NEW d \in EffectOf(wire, lcd, pins, w), lcd' = Waited(w, d),
         pins' = PinsAfter(wire, w, pins)
  PROVE  Shown!Next \/ UNCHANGED Shown!vars
<1>1. /\ wire \in Wires /\ asked \in CallType /\ todo \in Seq(WriteType)
      /\ Displays(wire, asked, lcd, pins, regval)
      /\ asked.op = "home" => asked.arg = 0
      /\ wire' = wire /\ asked' = asked /\ todo' = Tail(todo)
      /\ LcdTypes /\ LcdTypes'
  BY DEF LcdInv, LcdTypes, Displays, WrittenOut
<1>2. GoodAt(wire, asked, lcd, pins, regval, Len(todo))
  BY DEF LcdInv, Known
<1>3. /\ AfterItem(wire, asked, lcd, pins', k, p, lcd')
      /\ w \in WriteType /\ (wire = "lcd8574" => w.value \in Nibble)
      /\ w.light = regval.light
  <2>1. LightOf(asked, regval) = regval.light
    BY DEF LightOf
  <2>2. QED
    BY <1>1, <1>2, <2>1, ItemAfter
<1>4. pins'.light = pins.light
  <2>1. pins.light = regval.light
    BY <1>2, Zenon DEF GoodAt
  <2>2. CASE wire = "lcd8574"
    <3>1. PinsAfter(wire, w, pins).light = w.light
      BY <2>2 DEF PinsAfter, Expander
    <3>2. QED
      BY <1>3, <2>1, <3>1
  <2>3. CASE wire = "aip31068"
    BY <2>3 DEF PinsAfter
  <2>4. QED
    BY <1>1, <2>2, <2>3 DEF Wires
<1>5. /\ ShownPending = PendingOf(wire, asked, todo)
      /\ ShownPending' = PendingOf(wire, asked, Tail(todo))
  BY <1>1, ShownPendingIs
<1>6. Len(todo) = Back(wire, Len(Items(wire, asked)), k, p)
      /\ asked.op \notin {"idle", "init", "backlight"}
  BY DEF ItemWrite
<1>7. /\ PendingOf(wire, asked, todo).op = asked.op
      /\ PendingOf(wire, asked, todo).arg = asked.arg
      /\ PendingOf(wire, asked, todo).flag = asked.flag
      /\ p < Per(wire) =>
           PendingOf(wire, asked, Tail(todo)) = PendingOf(wire, asked, todo)
      /\ p = Per(wire) /\ asked.op # "write" =>
           PendingOf(wire, asked, Tail(todo)) = NoCall
      /\ p = Per(wire) /\ asked.op = "write" =>
           LET data == PendingOf(wire, asked, todo).data
           IN  /\ Head(data) = asked.data[k]
               /\ PendingOf(wire, asked, Tail(todo)) =
                    IF Tail(data) = << >> THEN NoCall
                    ELSE [PendingOf(wire, asked, todo)
                            EXCEPT !.data = Tail(data)]
  BY <1>1, <1>6, PendingIs
<1>8. CASE p < Per(wire)
  <2>1. Same(lcd, lcd')
    BY <1>3, <1>8 DEF AfterItem
  <2>2. lcd'.text = lcd.text /\ lcd'.addr = lcd.addr /\ lcd'.on = lcd.on
    BY <2>1 DEF Same
  <2>3. ShownPending' = ShownPending
    BY <1>5, <1>7, <1>8
  <2>4. UNCHANGED Shown!vars
    BY <1>1, <1>4, <2>2, <2>3, KnownShown, Zenon
    DEF Shown!vars, ShownPending
  <2>5. QED
    BY <2>4
<1>9. CASE p = Per(wire)
  <2>1. ItemDid(wire, asked, lcd, k, lcd')
    BY <1>3, <1>9 DEF AfterItem
  <2>2. CASE asked.op = "write"
    <3>1. Has(lcd', lcd.bits8, (lcd.addr + 1) % Cells, FALSE,
              [lcd.text EXCEPT ![lcd.addr] = asked.data[k]], lcd.on)
      BY <2>1, <2>2, Zenon DEF ItemDid
    <3>2. lcd'.addr = (lcd.addr + 1) % Cells /\ lcd'.on = lcd.on
          /\ lcd'.text = [lcd.text EXCEPT ![lcd.addr] = asked.data[k]]
      BY <3>1, Zenon DEF Has
    <3>3. /\ ShownPending.op = "write"
          /\ Head(ShownPending.data) = asked.data[k]
          /\ ShownPending' = (IF Tail(ShownPending.data) = << >> THEN NoCall
                              ELSE [ShownPending EXCEPT
                                      !.data = Tail(ShownPending.data)])
      BY <1>5, <1>7, <1>9, <2>2, Zenon
    <3>4. Shown!Next
      BY <1>1, <1>4, <3>2, <3>3, PutShown
    <3>5. QED
      BY <3>4
  <2>3. CASE asked.op # "write"
    <3>1. /\ ShownPending.op = asked.op /\ ShownPending.arg = asked.arg
          /\ ShownPending.flag = asked.flag /\ ShownPending' = NoCall
      BY <1>5, <1>7, <1>9, <2>3, Zenon
    <3>2. ScreenDoes(asked, lcd, lcd', pins.light, pins'.light)
      <4>1. asked.op \in {"cls", "home", "pos", "mode"}
        BY <1>1, <1>6, <2>3 DEF CallType
      <4>2. CASE asked.op = "cls"
        <5>1. Has(lcd', lcd.bits8, 0, FALSE, BlankCells, lcd.on)
          BY <2>1, <4>2, Zenon DEF ItemDid
        <5>2. lcd'.addr = 0 /\ lcd'.text = BlankCells /\ lcd'.on = lcd.on
          BY <5>1 DEF Has
        <5>3. QED
          BY <1>4, <4>2, <5>2 DEF ScreenDoes
      <4>3. CASE asked.op = "home"
        <5>1. Has(lcd', lcd.bits8, 0, FALSE, lcd.text, lcd.on)
          BY <2>1, <4>3, Zenon DEF ItemDid
        <5>2. lcd'.addr = 0 /\ lcd'.text = lcd.text /\ lcd'.on = lcd.on
          BY <5>1 DEF Has
        <5>3. QED
          BY <1>1, <1>4, <4>3, <5>2 DEF ScreenDoes
      <4>4. CASE asked.op = "pos"
        <5>1. Has(lcd', lcd.bits8, asked.arg, FALSE, lcd.text, lcd.on)
          BY <2>1, <4>4, Zenon DEF ItemDid
        <5>2. lcd'.addr = asked.arg /\ lcd'.text = lcd.text
              /\ lcd'.on = lcd.on
          BY <5>1 DEF Has
        <5>3. QED
          BY <1>4, <4>4, <5>2 DEF ScreenDoes
      <4>5. CASE asked.op = "mode"
        <5>1. Has(lcd', lcd.bits8, lcd.addr, lcd.cgram, lcd.text, asked.flag)
          BY <2>1, <4>5, Zenon DEF ItemDid
        <5>2. lcd'.addr = lcd.addr /\ lcd'.text = lcd.text
              /\ lcd'.on = asked.flag
          BY <5>1 DEF Has
        <5>3. QED
          BY <1>4, <4>5, <5>2 DEF ScreenDoes
      <4>6. QED
        BY <4>1, <4>2, <4>3, <4>4, <4>5
    <3>3. Shown!Next
      BY <1>1, <3>1, <3>2, DoneShown
    <3>4. QED
      BY <3>3
  <2>4. QED
    BY <2>2, <2>3
<1>10. p < Per(wire) \/ p = Per(wire)
  BY <1>1, PerIs
<1>11. QED
  BY <1>8, <1>9, <1>10

(* The write of the backlight. *)
LEMMA LightShown ==
  ASSUME LcdInv, LcdInv', NEW w, WrittenOut(w), Known, Known',
         lcdfaults' = lcdfaults, LightWrite(w, Len(todo), asked, regval),
         NEW d \in EffectOf(wire, lcd, pins, w), lcd' = Waited(w, d),
         pins' = PinsAfter(wire, w, pins)
  PROVE  Shown!Next
<1>1. /\ wire \in Wires /\ asked \in CallType /\ todo \in Seq(WriteType)
      /\ Displays(wire, asked, lcd, pins, regval) /\ todo # << >>
      /\ asked' = asked /\ todo' = Tail(todo) /\ wire' = wire
      /\ LcdTypes /\ LcdTypes'
  BY DEF LcdInv, LcdTypes, Displays, WrittenOut
<1>2. GoodAt(wire, asked, lcd, pins, regval, Len(todo))
  BY DEF LcdInv, Known
<1>3. lcd' = lcd /\ w.light = asked.flag /\ wire = "lcd8574"
  BY <1>1, <1>2, GoodLight
<1>4. pins'.light = asked.flag
  BY <1>3 DEF PinsAfter, Expander
<1>5. todo' = << >> /\ asked.op = "backlight"
  <2>1. Len(todo) = 1 /\ asked.op = "backlight"
    BY DEF LightWrite
  <2>2. Len(Tail(todo)) = Len(todo) - 1 /\ Tail(todo) \in Seq(WriteType)
    BY <1>1
  <2>3. Len(Tail(todo)) = 0
    BY <2>1, <2>2
  <2>4. QED
    BY <1>1, <2>1, <2>2, <2>3, EmptySeq
<1>6. /\ ShownPending.op = asked.op /\ ShownPending.arg = asked.arg
      /\ ShownPending.flag = asked.flag /\ ShownPending' = NoCall
  <2>1. ShownPending = PendingOf(wire, asked, todo)
    BY <1>1, ShownPendingIs
  <2>2. /\ ShownPending.op = asked.op /\ ShownPending.arg = asked.arg
        /\ ShownPending.flag = asked.flag
    BY <1>1, <2>1 DEF PendingOf, CallType
  <2>3. ShownPending' = NoCall
    BY <1>5 DEF ShownPending
  <2>4. QED
    BY <2>2, <2>3
<1>7. ScreenDoes(asked, lcd, lcd', pins.light, pins'.light)
  BY <1>3, <1>4, <1>5 DEF ScreenDoes
<1>8. QED
  BY <1>1, <1>6, <1>7, DoneShown

(* A write, or the failure of one. *)
LEMMA WriteShown ==
  ASSUME LcdInv, LcdInv', CarefulHome, NEW w, w = todo[1], WrittenOut(w)
  PROVE  Shown!Next \/ UNCHANGED Shown!vars
<1>1. /\ wire \in Wires /\ asked \in CallType /\ todo \in Seq(WriteType)
      /\ regval \in RegType /\ todo # << >>
      /\ LeftOf(todo, wire, asked, regval)
      /\ rtn \in {0, 1} /\ trusted \in BOOLEAN
      /\ trusted' = (trusted \/ (asked.op = "init" /\ Len(todo) = 1))
      /\ trusted /\ asked.op = "init" => todo = << >>
  BY DEF LcdInv, LcdTypes, WrittenOut
<1>2. CASE rtn' = 1 /\ lcdfaults' = lcdfaults + 1
  <2>1. ~Known'
    BY <1>2 DEF Known
  <2>2. Shown!Fails
    BY <1>2, <2>1, Zenon DEF Shown!Fails
  <2>3. QED
    BY <2>2 DEF Shown!Next
<1>3. ASSUME NEW d \in EffectOf(wire, lcd, pins, w), lcd' = Waited(w, d),
             pins' = PinsAfter(wire, w, pins), rtn' = rtn,
             lcdfaults' = lcdfaults
      PROVE  Shown!Next \/ UNCHANGED Shown!vars
  <2>1. CASE ~Known /\ ~Known'
    <3>1. Shown!Unknown
      BY <1>3, <2>1, Zenon DEF Shown!Unknown
    <3>2. QED
      BY <3>1 DEF Shown!Next
  <2>2. CASE ~Known /\ Known'
    <3>1. rtn' = 0 /\ trusted' /\ ~trusted
      BY <1>3, <2>2 DEF Known
    <3>2. asked.op = "init" /\ Len(todo) = 1
      BY <1>1, <3>1
    <3>3. QED
      BY <1>3, <3>1, <3>2, InitShown
  <2>3. CASE Known
    <3>1. Known' /\ asked.op # "init"
      BY <1>1, <1>3, <2>3 DEF Known
    <3>2. CASE LightWrite(w, Len(todo), asked, regval)
      BY <1>3, <2>3, <3>1, <3>2, LightShown
    <3>3. ~FirstWrite(w, Len(todo), wire, asked)
      BY <3>1 DEF FirstWrite
    <3>4. ASSUME NEW k \in 1 .. Len(Items(wire, asked)),
                 NEW p \in 1 .. Per(wire),
                 ItemWrite(w, Len(todo), wire, asked, regval, k, p)
          PROVE  Shown!Next \/ UNCHANGED Shown!vars
      BY <1>3, <2>3, <3>1, <3>4, ItemShown
    <3>5. QED
      BY <1>1, <3>2, <3>3, <3>4, NextIs
  <2>4. QED
    BY <2>1, <2>2, <2>3
<1>4. QED
  BY <1>2, <1>3 DEF WrittenOut

(***************************************************************************)
(* A display that has been initialised shows what the calls since then     *)
(* have asked for: the writes on the bus add up to the steps of a screen.  *)
(* This holds for both drivers, every number of cells, every text and      *)
(* every number of failures and resets, if the callers of nk_hd44780_home  *)
(* wait until it has been done.                                            *)
(***************************************************************************)
THEOREM ScreenImplemented == CarefulHome => (LcdSpec => ImplementsScreen)
<1> SUFFICES ASSUME CarefulHome PROVE LcdSpec => ImplementsScreen
  OBVIOUS
<1>1. LcdInit => Shown!Init
  BY ScreenStarts
<1>2. LcdInv /\ LcdInv' /\ [LcdNext]_lcdvars => [Shown!Next]_Shown!vars
  <2> SUFFICES ASSUME LcdInv, LcdInv', [LcdNext]_lcdvars
               PROVE  Shown!Next \/ UNCHANGED Shown!vars
    OBVIOUS
  <2>1. CallSound'
    BY DEF LcdInv, CallSound
  <2>2. CASE BusWrites
    BY <2>2, BusWritten, WriteShown
  <2>3. CASE LcdReady \/ LcdReset \/ UNCHANGED lcdvars
    BY <2>3, RestShown
  <2>4. CASE LcdNext /\ ~BusWrites /\ ~LcdReady /\ ~LcdReset
    <3>1. \/ LcdStart
          \/ nk_hd44780_display_mode \/ nk_hd44780_cls \/ nk_hd44780_home
               \/ nk_hd44780_pos
          \/ nk_hd44780_write
          \/ nk_lcd8574_backlight
      BY <2>4 DEF LcdNext
    <3>2. QED
      BY <2>1, <3>1, CallsShown
  <2>5. QED
    BY <2>2, <2>3, <2>4
<1>3. QED
  BY <1>1, <1>2, LcdInvariant, PTL
  DEF LcdSpec, ImplementsScreen, Shown!Spec

=============================================================================
