------------------------------ MODULE MCNkData ------------------------------
(* The values of the constants of NkData that a .cfg cannot write: the       *)
(* schemas of MCNkSerialize, the days and dates of the clock, and what the   *)
(* displays show.                                                            *)
EXTENDS NkData, MCNkSerialize

(* 2000-02-29, 2023-02-28 and 2024-12-30, and the days after them *)
DaysOfUse == (11016 .. 11017) \cup (19416 .. 19417) \cup (20087 .. 20089)
Midnights == [day : {19416, 20088}, sec : {86398}]

Date(year, month, day) ==
  [year |-> year, month |-> month, day |-> day,
   hour |-> 9, min |-> 59, sec |-> 59]

(* one that is right, three that are none *)
TypedDates ==
  {Date(2000, 2, 29), Date(2024, 2, 30), Date(2023, 0, 1), Date(2000, 1, 0)}

(* of a digit, which is also the nibble of FUNC with FUNC_DL, and a letter *)
Greeting == {<< 51, 66 >>}

(* of two digits, wired the other way round *)
Glyphs == [glyph \in {"0", "-"} |-> IF glyph = "0" THEN 63 ELSE 64]
Swapped == [x \in 0 .. 1 |-> 1 - x]

Panel(left, right, dp, extra1, extra2) ==
  [digits |-> [x \in 0 .. 1 |-> IF x = 0 THEN left ELSE right],
   dp |-> dp, extra1 |-> extra1, extra2 |-> extra2]

Panels == {Panel("0", "-", {0}, {1}, {}), Panel("-", "-", {}, {}, {0, 1})}
=============================================================================
