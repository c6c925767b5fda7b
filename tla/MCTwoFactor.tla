---------------------------- MODULE MCTwoFactor ----------------------------
(* A small instance of TwoFactor for TLC.  The algorithms of Totp are      *)
(* checked in its initial states, on one key each.                         *)
EXTENDS TwoFactor, SequencesExt, TLC

CONSTANTS r1, r2, MaxKeyLength, MaxStep, Hmac(_, _)

VARIABLE key  \* the key under test; none after the first step

(* The two extremes, and bits that differ from their neighbours'.          *)
SampleBytes == {[i \in 1..8 |-> 0], [i \in 1..8 |-> 1], <<1, 0, 1, 1, 0, 0, 1, 0>>}

MCInit == Init /\ key \in BoundedSeq(SampleBytes, MaxKeyLength)
MCNext == Next /\ key' = <<>>
MCSpec == MCInit /\ [][MCNext]_<<vars, key>>

(* Stands for HMAC-SHA1: bytes of every size at every offset.              *)
SampleHmac(bytes, counter) == [i \in 1..20 |-> (97 * Len(bytes) + 53 * counter + 61 * i) % 256]

ASSUME HmacAssumption ==
  /\ MaxStep \in Nat
  /\ \A bytes \in BoundedSeq(SampleBytes, MaxKeyLength), counter \in 0..(MaxStep + 1) :
       Hmac(bytes, counter) \in [1..20 -> 0..255]

Algorithms == INSTANCE Totp

(* Totp: the secret made of a key is the base32 of RFC 4648, and the key   *)
(* comes back from it.                                                     *)
Base32Correct == key # <<>> => Algorithms!Base32Correct(key)

(* Totp: a code has six digits and is accepted in its own step and in the  *)
(* two next to it.                                                         *)
CodesAccepted == key # <<>> => Algorithms!CodesAccepted(key)

Symmetry == Permutations(Requests)
=============================================================================
