-------------------------------- MODULE Totp --------------------------------
(***************************************************************************)
(* The codes of the second factor: base32 in 32-bit integers, and the time *)
(* steps at which a code is accepted.  A byte is its 8 bits, a base32      *)
(* character the 5 bits of its place in the alphabet (no bits when it has  *)
(* none), an integer its 32 bits, so that a left shift loses what it loses *)
(* in the program.                                                         *)
(*                                                                         *)
(* A digest is its 20 bytes as numbers; a code is a number, and a code of  *)
(* six digits one below 1000000.                                           *)
(***************************************************************************)
EXTENDS Integers, Sequences

CONSTANTS
  Hmac(_, _),  \* external: the HMAC-SHA1 digest of a counter under a key
  MaxStep      \* bound: time steps considered

Width == 32
Window == 1

ShiftIn(value, group) == SubSeq(value, Len(group) + 1, Width) \o group

(* The top n of the low-order `bits' bits of a value.                      *)
Take(value, bits, n) == SubSeq(value, Width - bits + 1, Width - bits + n)

Start == [value |-> [i \in 1..Width |-> 0], bits |-> 0, output |-> <<>>]

(* The inner loop emits a character for every 5 bits pending.              *)
EncodeByte(s, byte) ==
  LET value == ShiftIn(s.value, byte)
      bits == s.bits + 8
  IN [value |-> value, bits |-> bits % 5,
      output |-> s.output \o [i \in 1..(bits \div 5) |-> Take(value, bits - 5 * (i - 1), 5)]]

(* The loop over an input, from its first element to its last.             *)
Loop(Step(_, _), input) ==
  LET state[n \in 0..Len(input)] ==
        IF n = 0 THEN Start ELSE Step(state[n - 1], input[n])
  IN state[Len(input)]

Base32Encode(bytes) ==
  LET s == Loop(EncodeByte, bytes)
      padded == ShiftIn(s.value, [i \in 1..(5 - s.bits) |-> 0])
  IN IF s.bits = 0 THEN s.output ELSE Append(s.output, Take(padded, 5, 5))

DecodeChar(s, char) ==
  LET value == ShiftIn(s.value, char)
      bits == s.bits + 5
  IN IF char = <<>> THEN s
     ELSE IF bits >= 8
     THEN [value |-> value, bits |-> bits - 8, output |-> Append(s.output, Take(value, bits, 8))]
     ELSE [value |-> value, bits |-> bits, output |-> s.output]

(* Mutant: the accumulator is reset with every byte it gives up.           *)
BugDecodeReset(input) ==
  LET Step(s, char) ==
        LET next == DecodeChar(s, char)
        IN IF Len(next.output) > Len(s.output) THEN [next EXCEPT !.value = Start.value] ELSE next
  IN Loop(Step, input).output

Base32Decode(input) == Loop(DecodeChar, input).output

Million == 1000 * 1000
SixDigits == 0..(Million - 1)

(* The topmost byte of an integer of 32 bits gives it its sign; `%' keeps  *)
(* the sign of what is on its left.                                        *)
Signed(byte) == IF byte < 128 THEN byte ELSE byte - 256
Remainder(a, b) == IF a < 0 THEN -((-a) % b) ELSE a % b

(* The four bytes at the offset that the last one gives, the topmost cut   *)
(* to a number below `top'.                                                *)
TruncateTo(digest, top) ==
  LET offset == digest[20] % 16
      binary == ((Signed(digest[offset + 1] % top) * 256 + digest[offset + 2]) * 256
                   + digest[offset + 3]) * 256 + digest[offset + 4]
  IN Remainder(binary, Million)

(* Mutant: the sign bit is not masked.                                     *)
BugTruncateSigned(digest) == TruncateTo(digest, 256)

Truncate(digest) == TruncateTo(digest, 128)

Hotp(key, counter) == Truncate(Hmac(key, counter))

GenerateTotp(secret, step) == Hotp(Base32Decode(secret), step)

VerifyTotp(secret, token, step) ==
  /\ token \in SixDigits
  /\ \E i \in -Window..Window : Hotp(Base32Decode(secret), step + i) = token

-----------------------------------------------------------------------------
(* Reference definitions and properties.                                   *)

(* RFC 4648: all the bits in a row, filled up with zeros, cut in fives.    *)
ReferenceEncode(bytes) ==
  LET count == (8 * Len(bytes) + 4) \div 5
      bit == [i \in 1..(5 * count) |->
                IF i > 8 * Len(bytes) THEN 0 ELSE bytes[(i + 7) \div 8][((i - 1) % 8) + 1]]
  IN [c \in 1..count |-> SubSeq(bit, 5 * c - 4, 5 * c)]

(* What a user may type around a character: a space, an '='.               *)
Spaced(chars) == [i \in 1..(2 * Len(chars)) |-> IF i % 2 = 1 THEN chars[(i + 1) \div 2] ELSE <<>>]

(* A stored secret is the RFC's encoding of its key, however many bits the *)
(* 32-bit accumulator of totp.util.ts:19 and :43 has shifted out; and the  *)
(* key comes back from it, also as people type it.                         *)
Base32Correct(key) ==
  /\ Base32Encode(key) = ReferenceEncode(key)
  /\ Base32Decode(Base32Encode(key)) = key
  /\ Base32Decode(Spaced(Base32Encode(key))) = key

(* totp.util.ts:58-70 and :79: whatever the digest, the code that an app   *)
(* makes of the stored secret has six digits, and is accepted in its own   *)
(* step and in the two next to it.  In others it may coincide with theirs. *)
CodesAccepted(key) ==
  LET secret == Base32Encode(key)
  IN \A made, now \in 1..MaxStep :
       now - made \in -1..1 => VerifyTotp(secret, GenerateTotp(secret, made), now)
=============================================================================
