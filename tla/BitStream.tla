------------------------------ MODULE BitStream ------------------------------
(***************************************************************************)
(* BitWriter and BitReader of crates/labrador/src/wire.rs.                 *)
(*                                                                         *)
(* The writer collects bits in the word cur and flushes it to buf, eight   *)
(* bytes at a time; a value that does not fit is split over two words.     *)
(* The reader goes through buf a byte at a time and gathers the chunks of  *)
(* a value in acc.  A word or a byte is the set of the positions of its    *)
(* ones: OR is union, AND with a mask is a restriction, a shift moves the  *)
(* positions and drops those that leave the word.                          *)
(*                                                                         *)
(* A call is a step of its caller, which leaves its arguments in call, and *)
(* the steps of the code that answers it: one for write_bits, one per turn *)
(* of its loop for read_bits.                                              *)
(***************************************************************************)
EXTENDS WireWords

CONSTANT MaxBits   \* a bound on what is written; the code's Vec has none

ASSUME StreamAssumption ==
  /\ Byte \in Nat \ {0} /\ Word \in Nat \ {0} /\ Word % Byte = 0
  /\ MaxBits \in Nat

VARIABLES
  buf,       \* bytes flushed so far; afterwards the bytes the reader is given
  cur,       \* BitWriter.cur
  curBits,   \* BitWriter.cur_bits
  bytePos,   \* BitReader.byte_pos
  bitPos,    \* BitReader.bit_pos
  call,      \* the call of write_bits or read_bits going on, and its arguments
  acc, got,  \* read_bits's locals out and got
  mode,      \* "writing", "reading", "truncated"
  result     \* what the last read returned

writer == <<buf, cur, curBits>>
reader == <<bytePos, bitPos, acc, got, result>>
streamVars == <<writer, reader, call, mode>>

Words == SUBSET (0 .. Word - 1)
Bytes == SUBSET (0 .. Byte - 1)

Mask(v, n) == v \cap 0 .. n - 1
Shl(v, n) == {i + n : i \in v} \cap 0 .. Word - 1
Shr(v, n) == {i - n : i \in {j \in v : j >= n}}
LeBytes(w) == [j \in 1 .. Word \div Byte |-> Mask(Shr(w, Byte * (j - 1)), Byte)]

Calling(op, v, n) == [op |-> op, value |-> v, width |-> n]
NoCall == Calling("none", {}, 0)

StreamInit ==
  /\ buf = <<>> /\ cur = {} /\ curBits = 0
  /\ bytePos = 0 /\ bitPos = 0
  /\ call = NoCall /\ acc = {} /\ got = 0
  /\ mode = "writing"
  /\ result = {}

(***************************************************************************)
(* BitWriter.                                                              *)
(***************************************************************************)
Written == Byte * Len(buf) + curBits

WriteCall(v, n) ==
  /\ mode = "writing" /\ call = NoCall
  /\ Written + n <= MaxBits
  /\ call' = Calling("write", v, n)
  /\ UNCHANGED <<writer, reader, mode>>

\* write_bits when the value fits in what is left of the word.  Width 0, which
\* the code returns on at once, changes nothing here either.
WriteFits ==
  LET v == call.value
      n == call.width
      filled == cur \cup Shl(Mask(v, n), curBits)
  IN  /\ call.op = "write"
      /\ n <= Word - curBits
      /\ IF curBits + n = Word
         THEN buf' = buf \o LeBytes(filled) /\ cur' = {} /\ curBits' = 0
         ELSE buf' = buf /\ cur' = filled /\ curBits' = curBits + n
      /\ call' = NoCall
      /\ UNCHANGED <<reader, mode>>

WriteSplit_CarryByCurBits ==
  LET v == call.value
      n == call.width
      free == Word - curBits
  IN  /\ call.op = "write"
      /\ n > free
      /\ buf' = buf \o LeBytes(cur \cup Shl(Mask(v, free), curBits))
      /\ cur' = Shr(Mask(v, n), curBits)
      /\ curBits' = n - free
      /\ call' = NoCall
      /\ UNCHANGED <<reader, mode>>

\* write_bits when it does not: the low bits complete the word, the others
\* are carried to the next.
WriteSplit ==
  LET v == call.value
      n == call.width
      free == Word - curBits
  IN  /\ call.op = "write"
      /\ n > free
      /\ buf' = buf \o LeBytes(cur \cup Shl(Mask(v, free), curBits))
      /\ cur' = Shr(Mask(v, n), free)
      /\ curBits' = n - free
      /\ call' = NoCall
      /\ UNCHANGED <<reader, mode>>

\* finish, and BitReader::new on its result.
CloseStream ==
  /\ mode = "writing" /\ call = NoCall
  /\ buf' = buf \o SubSeq(LeBytes(cur), 1, (curBits + Byte - 1) \div Byte)
  /\ cur' = {} /\ curBits' = 0
  /\ mode' = "reading"
  /\ UNCHANGED <<reader, call>>

(***************************************************************************)
(* BitReader.                                                              *)
(***************************************************************************)
ReadCall(n) ==
  /\ mode = "reading" /\ call = NoCall
  /\ call' = Calling("read", {}, n) /\ acc' = {} /\ got' = 0
  /\ UNCHANGED <<writer, bytePos, bitPos, result, mode>>

\* The number of bits that the read going on was asked for.
nbits == IF call.op = "read" THEN call.width ELSE 0

ReadNothing ==
  /\ mode = "reading" /\ call.op = "read" /\ nbits = 0
  /\ result' = {}
  /\ call' = NoCall
  /\ UNCHANGED <<writer, bytePos, bitPos, acc, got, mode>>

Smaller(a, b) == IF a <= b THEN a ELSE b

\* One turn of the loop.
ReadChunk ==
  LET avail == Byte - bitPos
      chunk == Smaller(nbits - got, avail)
      acc1  == acc \cup Shl(Mask(Shr(buf[bytePos + 1], bitPos), chunk), got)
      done  == got + chunk = nbits
  IN  /\ mode = "reading" /\ nbits > 0
      /\ bytePos < Len(buf)
      /\ acc' = acc1 /\ got' = (IF done THEN 0 ELSE got + chunk)
      /\ IF chunk = avail THEN bytePos' = bytePos + 1 /\ bitPos' = 0
                          ELSE bytePos' = bytePos /\ bitPos' = bitPos + chunk
      /\ IF done THEN call' = NoCall /\ result' = acc1
                 ELSE call' = call /\ result' = result
      /\ UNCHANGED <<writer, mode>>

\* The bytes end inside a value: read_bits returns Truncated and the caller
\* gives up on the stream: nothing follows this call.
ReadPastEnd ==
  /\ mode = "reading" /\ nbits > 0
  /\ bytePos >= Len(buf)
  /\ mode' = "truncated"
  /\ UNCHANGED <<writer, reader, call>>

StreamNext ==
  \/ \E n \in 0 .. Word, v \in Words : WriteCall(v, n)
  \/ WriteFits
  \/ WriteSplit
  \/ CloseStream
  \/ \E n \in 0 .. Word : ReadCall(n)
  \/ ReadNothing
  \/ ReadChunk
  \/ ReadPastEnd

StreamSpec == StreamInit /\ [][StreamNext]_streamVars

(***************************************************************************)
(* Properties.                                                             *)
(***************************************************************************)
BitsOf(b) ==
  [i \in 1 .. Byte * Len(b) |->
     IF (i - 1) % Byte \in b[(i - 1) \div Byte + 1] THEN 1 ELSE 0]

\* The words and bytes are a queue of bits.  Each write_bits appends the low
\* bits of the very value it was called with, in the width it was called with,
\* and no others; each read_bits returns, in the width asked for, the next
\* bits in the order they were written, whatever the widths of the writes; the
\* padding is less than a byte of zeros; and Truncated is reported exactly when
\* a call asks for more bits than are left.  The call, with its arguments, is
\* one variable of both specifications.
Queue == INSTANCE BitQueue WITH
  bits   <- BitsOf(buf) \o [i \in 1 .. curBits |-> IF i - 1 \in cur THEN 1 ELSE 0],
  taken  <- Byte * bytePos + bitPos - got

ImplementsQueue == Queue!Spec
=============================================================================
