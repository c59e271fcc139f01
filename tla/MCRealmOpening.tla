--------------------------- MODULE MCRealmOpening ---------------------------
(* Versions of one program: they add, drop and reorder properties, make one *)
(* optional, move or retype the primary key, and forget to raise the       *)
(* version.                                                                *)
EXTENDS RealmOpening, TLC

CONSTANTS p1, p2

MCProcesses == {p1, p2}
MCSymmetry == Permutations(MCProcesses)

Prop(name, type, nullable, indexed) ==
  [name |-> name, type |-> type, nullable |-> nullable, indexed |-> indexed]

A == Prop("a", "int", FALSE, FALSE)
AString == Prop("a", "string", FALSE, FALSE)
B == Prop("b", "int", FALSE, FALSE)
BOptional == Prop("b", "int", TRUE, FALSE)
BString == Prop("b", "string", FALSE, FALSE)
BIndexed == Prop("b", "int", FALSE, TRUE)
CFloat == Prop("c", "float", FALSE, TRUE)
CInt == Prop("c", "int", FALSE, FALSE)

Has(properties, primary) ==
  [properties |-> properties, primary |-> primary, declared |-> TRUE]

Schema(version, first, second) ==
  [version |-> version,
   class |-> [c \in {"C", "D"} |-> IF c = "C" THEN first ELSE second]]

One == Schema(1, Has(<<A, B>>, "a"), NoClass)
OneIndexed == Schema(1, Has(<<A, BIndexed>>, "a"), NoClass)
OneWithD == Schema(1, Has(<<A, B>>, "a"), Has(<<B>>, ""))
OneForgotten == Schema(1, Has(<<A, BString, CInt>>, "a"), NoClass)
TwoOptional == Schema(2, Has(<<BOptional, A>>, "a"), Has(<<B>>, ""))
TwoFloat == Schema(2, Has(<<A, B, CFloat>>, "a"), NoClass)
TwoStringKey == Schema(2, Has(<<AString, B>>, "a"), NoClass)
ThreeKey == Schema(3, Has(<<CInt, BOptional>>, "b"), NoClass)
ThreeShort == Schema(3, Has(<<CInt>>, ""), NoClass)

MCSchemas == {One, OneIndexed, OneWithD, OneForgotten, TwoOptional, TwoFloat, TwoStringKey,
              ThreeKey, ThreeShort}
MCClasses == {"C", "D"}
MCNames == {"a", "b", "c"}
MCTypes == {"int", "string", "float"}
MCIndexable == {"int", "string"}

=============================================================================
