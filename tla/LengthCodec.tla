----------------------------- MODULE LengthCodec -----------------------------
(***************************************************************************)
(* The four bytes in which the length of a TCP message travels             *)
(* (network_helper.hpp).  An int is shifted arithmetically, which is a     *)
(* division rounding down; int() of the four bytes gives the sign back.    *)
(* The base of the digits is a parameter: 256 in the code.                 *)
(***************************************************************************)
EXTENDS Integers

CONSTANT Base

ASSUME CodecAssumption == Base \in Nat /\ Base > 1 /\ Base % 2 = 0

Ints == -((Base * Base * Base * Base) \div 2) ..
            (Base * Base * Base * Base) \div 2 - 1
Orders == {"LITTLE", "BIG"}

Byte(n, weight) == (n \div weight) % Base

int_to_bytes(n, order) ==
    LET b0 == Byte(n, 1)            b1 == Byte(n, Base)
        b2 == Byte(n, Base * Base)  b3 == Byte(n, Base * Base * Base)
    IN IF order = "LITTLE" THEN <<b0, b1, b2, b3>> ELSE <<b3, b2, b1, b0>>

Signed(v) == IF v >= (Base * Base * Base * Base) \div 2
             THEN v - Base * Base * Base * Base ELSE v

Value(b0, b1, b2, b3) ==
    Signed(b0 + b1 * Base + b2 * Base * Base + b3 * Base * Base * Base)

bytes_to_int(b, order) ==
    IF order = "LITTLE" THEN Value(b[1], b[2], b[3], b[4])
                        ELSE Value(b[4], b[3], b[2], b[1])

(* What one end sends the other end gets back, in either byte order and for *)
(* negative numbers, too (lines 22-61).                                     *)
RoundTrip ==
    \A n \in Ints, order \in Orders :
        bytes_to_int(int_to_bytes(n, order), order) = n
=============================================================================
