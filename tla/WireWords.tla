------------------------------ MODULE WireWords ------------------------------
(***************************************************************************)
(* The machine sizes that crates/labrador/src/wire.rs works with: its bit  *)
(* stream is gathered in words and flushed in bytes.                       *)
(***************************************************************************)
EXTENDS Integers, Sequences

CONSTANTS
  Word,   \* the bits of a u64 and of an i64
  Byte    \* the bits of a u8
=============================================================================
