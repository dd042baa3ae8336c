------------------------------ MODULE ByteMap ------------------------------
(***************************************************************************)
(* What a range map promises its users: a value for every byte, which a    *)
(* mutation of a range changes byte by byte and nothing else.  "Users must *)
(* not depend on whether a range is coalesced or not."                     *)
(***************************************************************************)
EXTENDS Integers

CONSTANTS
    MapSize,        \* the bytes of the map are 0 .. MapSize - 1
    Datum,          \* the values stored for a byte
    Mutation        \* what its users do to a value: functions on Datum

VARIABLES
    bytes,
    call            \* the latest mutation: where, how far, and what it did

Offset == 0 .. MapSize - 1
Span == {s \in (0 .. MapSize) \X (0 .. MapSize) : s[1] + s[2] <= MapSize}

ByteInit ==
    /\ \E d \in Datum : bytes = [o \in Offset |-> d]
    /\ call = <<>>
(* Every byte of the range goes from its value to its image. *)
Mutate(s, f) ==
    /\ call' = <<s, f>>
    /\ bytes' = [p \in Offset |-> IF p \in s[1] .. s[1] + s[2] - 1 THEN f[bytes[p]] ELSE bytes[p]]
ByteNext == \E s \in Span, f \in Mutation : Mutate(s, f)
ByteSpec == ByteInit /\ [][ByteNext]_<<bytes, call>>
=============================================================================
