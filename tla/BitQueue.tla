------------------------------ MODULE BitQueue ------------------------------
(***************************************************************************)
(* What the bit stream of crates/labrador/src/wire.rs promises: a queue of *)
(* bits.  A client asks for a write or a read, with its arguments, and the *)
(* queue answers the call asked for: Put appends the low bits of the value *)
(* written, least significant first; Get takes the next bits off the       *)
(* front, as many as asked for, and GetTooMuch finds that there are fewer. *)
(* Close pads to a whole number of bytes with zeros.  BitStream, with its  *)
(* words, bytes and positions, is shown to implement it.                   *)
(*                                                                         *)
(* A word is the set of the positions at which it has a one.               *)
(***************************************************************************)
EXTENDS Integers, Sequences

CONSTANTS Word, Byte    \* the bits of a u64 and of a u8

VARIABLES
  bits,     \* every bit written
  taken,    \* how many of them were read
  call,     \* the call that waits for its answer
  mode,     \* "writing", "reading", "truncated"
  result    \* what the last read returned

vars == <<bits, taken, call, mode, result>>

Words == SUBSET (0 .. Word - 1)

Low(v, n) == [i \in 1 .. n |-> IF i - 1 \in v THEN 1 ELSE 0]

Calling(op, v, n) == [op |-> op, value |-> v, width |-> n]
NoCall == Calling("none", {}, 0)

Init ==
  /\ bits = <<>>
  /\ taken = 0
  /\ call = NoCall
  /\ mode = "writing"
  /\ result = {}

AskPut(v, n) ==
  /\ mode = "writing" /\ call = NoCall
  /\ call' = Calling("write", v, n)
  /\ UNCHANGED <<bits, taken, mode, result>>

Put ==
  /\ call.op = "write"
  /\ bits' = bits \o Low(call.value, call.width)
  /\ call' = NoCall
  /\ UNCHANGED <<taken, mode, result>>

Close ==
  /\ mode = "writing" /\ call = NoCall
  /\ mode' = "reading"
  /\ \E pad \in 0 .. Byte - 1 :
       /\ (Len(bits) + pad) % Byte = 0
       /\ bits' = bits \o Low({}, pad)
  /\ UNCHANGED <<taken, call, result>>

AskGet(n) ==
  /\ mode = "reading" /\ call = NoCall
  /\ call' = Calling("read", {}, n)
  /\ UNCHANGED <<bits, taken, mode, result>>

Get ==
  /\ mode = "reading" /\ call.op = "read"
  /\ taken + call.width <= Len(bits)
  /\ result' = {i \in 0 .. call.width - 1 : bits[taken + i + 1] = 1}
  /\ taken' = taken + call.width
  /\ call' = NoCall
  /\ UNCHANGED <<bits, mode>>

GetTooMuch ==
  /\ mode = "reading" /\ call.op = "read"
  /\ taken + call.width > Len(bits)
  /\ mode' = "truncated"
  /\ UNCHANGED <<bits, taken, call, result>>

Next ==
  \/ \E n \in 0 .. Word, v \in Words : AskPut(v, n)
  \/ Put
  \/ Close
  \/ \E n \in 0 .. Word : AskGet(n)
  \/ Get
  \/ GetTooMuch

Spec == Init /\ [][Next]_vars
=============================================================================
