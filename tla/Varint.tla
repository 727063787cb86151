------------------------------- MODULE Varint -------------------------------
(***************************************************************************)
(* The variable-length integers of bytearray.cc: writeInt32/64() and       *)
(* writeUint32/64() into a local array, and readInt32/64(),                *)
(* readUint32/64() of what was written.  One step is one byte.  The width  *)
(* of the integer and of a group are parameters, 32 or 64 and 7 in the     *)
(* code: what matters is that the last group is cut by the width.          *)
(***************************************************************************)
EXTENDS Integers, Sequences

CONSTANTS Width, Group,
          Room          \* the size of tmp: 5 for 32 bits, 10 for 64

ASSUME VarintAssumption ==
    /\ Width \in Nat /\ Group \in Nat \ {0} /\ Room \in Nat \ {0}
    /\ Group * (Room - 1) < Width /\ Width <= Group * Room

VARIABLE var        \* [at, signed, input, value, tmp, i, result]

Modulus == 2 ^ Width
Byte == 2 ^ Group       \* 0x80: the bit that says that more bytes follow
Signed == -(Modulus \div 2)..(Modulus \div 2 - 1)

\* Mutant: the most negative value maps to 0.
EncodeZigzagNoWrap(v) == IF v < 0 /\ v # -(Modulus \div 2) THEN (-v) * 2 - 1 ELSE (v * 2) % Modulus

\* -v of the most negative value is itself, as the build wraps it; the product
\* and the difference are unsigned.
EncodeZigzag(v) == IF v < 0 THEN ((((-v) % Modulus) * 2) - 1) % Modulus ELSE (v * 2) % Modulus

\* (v >> 1) ^ -(v & 1), read as a signed integer.
DecodeZigzag(v) == IF v % 2 = 1 THEN -(v \div 2) - 1 ELSE v \div 2

NewInteger(signed, input) ==
    [at |-> "write", signed |-> signed, input |-> input, tmp |-> <<>>, i |-> 0, result |-> 0,
     value |-> IF signed THEN EncodeZigzag(input) ELSE input]

VarintInit ==
    \/ \E input \in Signed : var = NewInteger(TRUE, input)
    \/ \E input \in 0..(Modulus - 1) : var = NewInteger(FALSE, input)

\* while(value >= 0x80)
WriteMore ==
    /\ var.at = "write" /\ var.value >= Byte
    /\ var' = [var EXCEPT !.tmp = Append(@, (var.value % Byte) + Byte), !.value = @ \div Byte]

WriteLast ==
    /\ var.at = "write" /\ var.value < Byte
    /\ var' = [var EXCEPT !.tmp = Append(@, var.value), !.at = "read"]

\* A turn of for(int i = 0; i < 32; i += 7), with readFuint8().
ReadByte ==
    LET b == var.tmp[var.i + 1]
    IN  /\ var.at = "read"
        /\ var' = [var EXCEPT !.result = (@ + (b % Byte) * 2 ^ (Group * var.i)) % Modulus,
                              !.i = @ + 1,
                              !.at = IF b < Byte \/ Group * (var.i + 1) >= Width THEN "done" ELSE @]

VarintNext == WriteMore \/ WriteLast \/ ReadByte

VarintSpec == VarintInit /\ [][VarintNext]_var

-----------------------------------------------------------------------------
(* Properties.                                                             *)

\* What readInt32/64() and readUint32/64() return is what was written, for the
\* most negative integer too, they take all the bytes that were written, and
\* these fit the array tmp.
VarintRoundTrip ==
    /\ Len(var.tmp) <= Room
    /\ var.at = "done" =>
          /\ var.input = IF var.signed THEN DecodeZigzag(var.result) ELSE var.result
          /\ var.i = Len(var.tmp)
=============================================================================
