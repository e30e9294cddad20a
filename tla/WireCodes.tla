------------------------------ MODULE WireCodes ------------------------------
(***************************************************************************)
(* The codes of crates/labrador/src/wire.rs over a stream of bits: fixed   *)
(* width, length prefix, Golomb-Rice, zigzag and signed residues.          *)
(*                                                                         *)
(* A code is the sequence of bits that BitWriter appends.  A reader starts *)
(* after `at' bits of a stream and returns [ok, value, at]; `ok' is false  *)
(* for every WireError.                                                    *)
(***************************************************************************)
EXTENDS WireWords, FiniteSetsExt

CONSTANTS
  LenWidth,   \* the bits that store the bit length of a length; 6 in the code
  UnaryMax    \* the longest unary part that read_gr takes; 2^40 in the code

\* The width of every number shorter than a word can be stored.
ASSUME CodesAssumption ==
  Word \in Nat \ {0} /\ LenWidth \in Nat /\ Word <= 2^LenWidth /\ UnaryMax \in Nat

\* u64 and i64
Unsigned == 0 .. 2^Word - 1
Signed == -(2^(Word - 1)) .. 2^(Word - 1) - 1

Ok(value, at) == [ok |-> TRUE, value |-> value, at |-> at]
Refused(at) == [ok |-> FALSE, value |-> 0, at |-> at]

(***************************************************************************)
(* write_bits and read_bits, as BitQueue has them, on numbers.             *)
(***************************************************************************)
Bits(v, n) == [i \in 1 .. n |-> (v \div 2^(i - 1)) % 2]

ReadBits(s, at, n) ==
  IF at + n > Len(s) THEN Refused(at)
  ELSE Ok(MapThenSumSet(LAMBDA i : s[at + i] * 2^(i - 1), 1 .. n), at + n)

(***************************************************************************)
(* write_len and read_len.                                                 *)
(***************************************************************************)
\* 64 - leading_zeros
BitLength(v) == CHOOSE n \in 0 .. Word : v < 2^n /\ (n > 0 => 2^(n - 1) <= v)

LenCode(len) == Bits(BitLength(len), LenWidth) \o Bits(len, BitLength(len))

ReadLen(s, at) ==
  LET width == ReadBits(s, at, LenWidth)
  IN  IF ~width.ok \/ width.value = 0 THEN width
      ELSE IF width.value > Word THEN Refused(width.at)
      ELSE ReadBits(s, width.at, width.value)

(***************************************************************************)
(* write_gr and read_gr: the quotient in unary, then the remainder.        *)
(***************************************************************************)
Ones(n) == [i \in 1 .. n |-> 1]

RiceCode(v, k) == Ones(v \div 2^k) \o <<0>> \o Bits(v % 2^k, k)

ReadRice(s, at, k) ==
  LET zeros == {i \in at + 1 .. Len(s) : s[i] = 0}
  IN  IF zeros = {} THEN Refused(at)
      ELSE LET end   == Min(zeros)
               quot  == end - at - 1
               rest  == ReadBits(s, end, k)
           IN  IF quot > UnaryMax \/ ~rest.ok THEN Refused(at)
               ELSE Ok(((quot * 2^k) % 2^Word) + rest.value, rest.at)

(***************************************************************************)
(* zigzag_encode and zigzag_decode in two's complement: a word is          *)
(* 0 .. 2^Word - 1, its complement is 2^Word - 1 - w.                      *)
(***************************************************************************)
Complement(w) == 2^Word - 1 - w

\* (x << 1) ^ (x >> 63): the arithmetic shift is all ones for x < 0.
ZigzagEncode(x) ==
  LET doubled == (2 * x) % 2^Word
  IN  IF x < 0 THEN Complement(doubled) ELSE doubled

ZigzagDecode_NoComplement(u) == IF u % 2 = 1 THEN -(u \div 2) ELSE u \div 2

\* (u >> 1) ^ -(u & 1): the complement of u >> 1 is -(u >> 1) - 1.
ZigzagDecode(u) == IF u % 2 = 1 THEN -(u \div 2) - 1 ELSE u \div 2

(***************************************************************************)
(* encode_signed_modq and decode_signed_modq.                              *)
(***************************************************************************)
\* The truncated remainder, moved into 0 .. q - 1.
SignedResidue(x, q) == x % q

SignedOf(u, q) == IF u <= q \div 2 THEN u ELSE u - q

\* ceil_log2: 64 - leading_zeros(q - 1).
CeilLog2(q) == IF q <= 1 THEN 0 ELSE BitLength(q - 1)
=============================================================================
