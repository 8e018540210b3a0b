------------------------------ MODULE SafeCast ------------------------------
(***************************************************************************)
(* The casts that the template SafeCast.js generates.  A value of a type   *)
(* is the integer it stands for.  Solidity's own casts keep the low bits   *)
(* of it; the library's revert when that would change the integer.         *)
(***************************************************************************)
EXTENDS Integers

Uint(length) == [signed |-> FALSE, length |-> length]
Sint(length) == [signed |-> TRUE, length |-> length]

TypeMin(type) == IF type.signed THEN -(2 ^ (type.length - 1)) ELSE 0
TypeMax(type) == IF type.signed THEN 2 ^ (type.length - 1) - 1 ELSE 2 ^ type.length - 1

\* Solidity's cast: the low bits of value, read as a value of the type.
Cast(type, value) ==
  LET bits == value % 2 ^ type.length
  IN  IF bits > TypeMax(type) THEN bits - 2 ^ type.length ELSE bits

\* toUint8 to toUint248 do not revert.
CanDownCastToUint(length, value) == value <= TypeMax(Uint(length))

\* A fault in toIntN: only the upper end of the type is checked.
CanDownCastToIntBelow(length, value) == value <= TypeMax(Sint(length))

\* toInt8 to toInt248 cast first and compare the result with the argument.
CanDownCastToInt(length, value) == Cast(Sint(length), value) = value

\* toInt256 of an unsigned, toUint256 of a signed integer.
CanCastToInt(length, value) == value <= Cast(Uint(length), TypeMax(Sint(length)))

CanCastToUint(length, value) == value >= 0
=============================================================================
