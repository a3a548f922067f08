--------------------------- MODULE MCNkSerialize ---------------------------
(* Versions of a program for NkSerialize, and what their memories may hold. *)
EXTENDS NkSerialize

INT == Scalar("tINT")
DOUBLE == Scalar("tDOUBLE")
FLOAT == Scalar("tFLOAT")

(* a structure is extended, reordered, and loses members again *)
Settings == Struct(<< Member("n", INT), Member("s", String(3)) >>)
Reordered ==
  Struct(<< Member("s", String(2)), Member("b", Scalar("tBOOL")),
            Member("n", Scalar("tINT8")) >>)
Deep ==
  Struct(<< Member("b", INT), Member("n", DOUBLE),
            Member("u", Struct(<< Member("x", INT), Member("y", FLOAT) >>)) >>)
Flattened ==
  Struct(<< Member("u", Struct(<< Member("y", DOUBLE) >>)),
            Member("n", FLOAT) >>)

(* lists and tables grow, shrink and change their columns *)
Lists ==
  Struct(<< Member("l", List("tVARRAY", 2, INT)),
            Member("t", List("tTABLE", 2,
              Struct(<< Member("a", INT), Member("s", String(3)) >>))) >>)
Shorter ==
  Struct(<< Member("t", List("tTABLE", 1, Struct(<< Member("s", String(3)),
              Member("c", DOUBLE), Member("a", Scalar("tINT16")) >>))),
            Member("l", List("tARRAY", 1, DOUBLE)) >>)
OneColumn ==
  Struct(<< Member("l", List("tVARRAY", 3, Scalar("tINT16"))),
            Member("t", List("tTABLE", 2,
              Struct(<< Member("a", Scalar("tUINT8")) >>))) >>)

Versions ==
  {Settings, Reordered, Deep, Flattened, Lists, Shorter, OneColumn}

Text == {<< >>, << << "\\x", "0", "1" >>, <<"a">> >>, << Quote, Backslash >>}

RECURSIVE Memories(_), FirstMembers(_, _)
FirstMembers(type, n) ==
  IF n = 0 THEN {<< >>}
  ELSE {(type.members[n].name :> v) @@ m :
          v \in Memories(type.members[n].type),
          m \in FirstMembers(type, n - 1)}

Memories(type) ==
  CASE type.what = "tSTRUCT" -> FirstMembers(type, Len(type.members))
    [] type.what \in {"tARRAY", "tVARRAY", "tTABLE"} ->
         {[len |-> n, items |-> [i \in 1 .. type.size |-> e]] :
            n \in IF type.what = "tARRAY" THEN {type.size}
                  ELSE {0, type.size},
            e \in Memories(type.subtype)}
    [] type.what = "tINT" -> {-1, 100}
    [] type.what \in Integral \ {"tINT"} -> {3, 200}
    [] type.what \in Floating -> {-25, 30}
    [] type.what = "tBOOL" -> BOOLEAN
    [] type.what = "tSTRING" -> {s \in Text : Len(s) < type.size}
=============================================================================
