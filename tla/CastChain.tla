----------------------------- MODULE CastChain -----------------------------
(***************************************************************************)
(* A contract that carries one integer through any chain of SafeCast's     *)
(* functions.  A call that reverts leaves the integer where it was.        *)
(***************************************************************************)
EXTENDS SafeCast

CONSTANTS WordLength,   \* 256: the length of the types that are cast down from
          LengthStep    \* 8: the difference between two lengths

ASSUME LengthAssumption ==
  /\ WordLength \in Nat \ {0}
  /\ LengthStep \in 1 .. WordLength

Lengths == {l \in 1 .. WordLength - 1 : l % LengthStep = 0}

VARIABLES number,    \* what the chain started from
          type,      \* the type of the variable that holds it now
          value,     \* the integer that variable stands for
          asked,     \* the type the last cast was to return
          reverted   \* whether it reverted instead

castVars == <<number, type, value, asked, reverted>>

CastInit ==
  /\ type \in {Uint(WordLength), Sint(WordLength)}
  /\ value \in TypeMin(type) .. TypeMax(type)
  /\ number = value
  /\ asked = type
  /\ reverted = FALSE

-----------------------------------------------------------------------------
\* A call of a function that returns the type target, if its require holds.
Call(target, can) ==
  /\ asked' = target
  /\ reverted' = ~can
  /\ type' = IF can THEN target ELSE type
  /\ value' = IF can THEN Cast(target, value) ELSE value
  /\ UNCHANGED number

ToUintDownCast(length) ==
  /\ type = Uint(WordLength)
  /\ Call(Uint(length), CanDownCastToUint(length, value))

ToIntDownCast(length) ==
  /\ type = Sint(WordLength)
  /\ Call(Sint(length), CanDownCastToInt(length, value))

ToInt ==
  /\ type = Uint(WordLength)
  /\ Call(Sint(WordLength), CanCastToInt(WordLength, value))

ToUint ==
  /\ type = Sint(WordLength)
  /\ Call(Uint(WordLength), CanCastToUint(WordLength, value))

\* Solidity widens to the type of an argument without being asked.
Widen ==
  /\ type.length < WordLength
  /\ type' = [type EXCEPT !.length = WordLength]
  /\ asked' = type'
  /\ reverted' = FALSE
  /\ UNCHANGED <<number, value>>

CastNext ==
  \/ \E length \in Lengths : ToUintDownCast(length) \/ ToIntDownCast(length)
  \/ ToInt \/ ToUint \/ Widen

CastSpec == CastInit /\ [][CastNext]_castVars

-----------------------------------------------------------------------------
IntegersOf(kind) == TypeMin(kind) .. TypeMax(kind)

\* No chain of casts ever changes the integer, those that revert included.
NumberIsKept == value = number

\* A cast reverts for exactly the integers that its target type cannot hold.
OnlyMisfitsRevert == reverted <=> number \notin IntegersOf(asked)

\* A chain of casts refuses exactly the integers that do not fit, and passes
\* all others on unchanged.
CastsAreExact == NumberIsKept /\ OnlyMisfitsRevert
=============================================================================
