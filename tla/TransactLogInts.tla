--------------------------- MODULE TransactLogInts ---------------------------
(***************************************************************************)
(* TransactLogInts (realm/impl/transact_log.hpp): how the numbers of a     *)
(* transaction log are written and read.  A number is written as one type  *)
(* and may be read as another; the log has no lengths or separators, so    *)
(* where a number ends is part of its encoding.                            *)
(***************************************************************************)
EXTENDS Integers, Sequences, FiniteSetsExt

CONSTANTS
  Types, (* integer types: [signed, digits], digits without the sign       *)
  Values, (* the values that are written                                   *)
  MaxNumbers (* bound: numbers in the log *)

ASSUME TransactLogIntsAssumption ==
  /\ \A T \in Types : T.signed \in BOOLEAN /\ T.digits \in Nat \ {0}
  /\ Values \subseteq Int

(* What n shifts to the left make of 1.                                     *)
Power[n \in Nat] == IF n = 0 THEN 1 ELSE 2 * Power[n - 1]

Highest(T) == Power[T.digits] - 1
Lowest(T) == IF T.signed THEN -Power[T.digits] ELSE 0
InRange(T, v) == Lowest(T) <= v /\ v <= Highest(T)

(* The conversion to T of a value the type may not hold; only an unsigned   *)
(* type ever gets one, and bool is true for everything but 0.               *)
Converted(T, v) ==
  IF T.signed THEN v
  ELSE IF T.digits = 1 THEN (IF v = 0 THEN 0 ELSE 1) ELSE v % Power[T.digits]

max_bytes(T) == (T.digits + 1 + 6) \div 7

-----------------------------------------------------------------------------
(* encode_int: 7 bits a byte, the lowest first, the 8th bit set in all but  *)
(* the last byte, which holds 6 bits and the sign.  rest[i] is what is left  *)
(* of the value after i turns of the loop.                                  *)
WithoutSignRoom(v) == v \div 128 = 0 (* Mutant: 7 bits in the last byte. *)

FitsLastByte(v) == v \div 64 = 0

encode_int(T, v) ==
  LET rest[i \in 0 .. max_bytes(T)] ==
        IF i = 0 THEN (IF v < 0 THEN -(v + 1) ELSE v) ELSE rest[i - 1] \div 128
      last == Min({i \in 0 .. max_bytes(T) : FitsLastByte(rest[i]) \/ i = max_bytes(T)})
  IN [i \in 1 .. last + 1 |->
        IF i <= last THEN 128 + (rest[i - 1] % 128)
        ELSE IF v < 0 THEN 64 + rest[last] ELSE rest[last]]

-----------------------------------------------------------------------------
(* read_int: the value and the place after it, or BadTransactLog.           *)
Bad == [ok |-> FALSE, value |-> 0, next |-> 0]
Read(v, next) == [ok |-> TRUE, value |-> v, next |-> next]

(* int_shift_left_with_overflow_detect                                      *)
ShiftOverflows(T, p, bits) == Highest(T) \div Power[bits] < p

(* -(value) and int_subtract_with_overflow_detect(value, 1): in an unsigned *)
(* type both wrap, and only 0 - 1 is found.                                 *)
Negated(T, v) == Converted(T, -v)
SubtractOverflows(T, v) == ~T.signed /\ v = 0

(* The last byte is the first without the 8th bit.  The log ends before it,  *)
(* or there are too many bytes for the type: BadTransactLog.                *)
read_int(T, bytes, start) ==
  LET part(i) == bytes[start + i]
      ends == {i \in 0 .. max_bytes(T) - 1 : start + i <= Len(bytes) /\ part(i) < 128}
      last == Min(ends)
      low[i \in 0 .. last] ==
        IF i = 0 THEN 0 ELSE low[i - 1] + (part(i - 1) % 128) * Power[7 * (i - 1)]
      p == Converted(T, part(last) % 64)
      value == low[last] + p * Power[7 * last]
  IN IF ends = {} \/ ShiftOverflows(T, p, 7 * last) THEN Bad
     ELSE IF part(last) < 64 THEN Read(value, start + last + 1)
     ELSE IF SubtractOverflows(T, Negated(T, value)) THEN Bad
     ELSE Read(Converted(T, Negated(T, value) - 1), start + last + 1)

-----------------------------------------------------------------------------
(* A log that is written and then read. *)

VARIABLES
  written, (* the numbers of the log, with their types                      *)
  stream, (* its bytes                                                      *)
  inputBegin, (* where the reader is                                        *)
  taken (* what it read                                                     *)

intVars == <<written, stream, inputBegin, taken>>

IntsInit == written = <<>> /\ stream = <<>> /\ inputBegin = 1 /\ taken = <<>>

Write(T, v) ==
  /\ taken = <<>> /\ Len(written) < MaxNumbers
  /\ InRange(T, v)
  /\ written' = Append(written, [type |-> T, value |-> v])
  /\ stream' = stream \o encode_int(T, v)
  /\ UNCHANGED <<inputBegin, taken>>

(* After BadTransactLog nothing is read any more.                           *)
ReadAs(T) ==
  LET one == read_int(T, stream, inputBegin) IN
  /\ Len(taken) < Len(written)
  /\ \A i \in DOMAIN taken : taken[i].ok
  /\ taken' = Append(taken, [type |-> T, ok |-> one.ok, value |-> one.value])
  /\ inputBegin' = one.next
  /\ UNCHANGED <<written, stream>>

IntsNext == (\E T \in Types : (\E v \in Values : Write(T, v)) \/ ReadAs(T))

IntsSpec == IntsInit /\ [][IntsNext]_intVars

-----------------------------------------------------------------------------
(* Properties. *)

(* The reader takes the value that was written, whatever type it reads, as   *)
(* long as that type and those of the numbers before hold their values: it   *)
(* does not fail, and no number is taken for a part of its neighbour.        *)
Holds(i) == InRange(taken[i].type, written[i].value)

ReadsBack ==
  \A i \in DOMAIN taken :
    (\A k \in 1 .. i : Holds(k)) => taken[i].ok /\ taken[i].value = written[i].value

=============================================================================
