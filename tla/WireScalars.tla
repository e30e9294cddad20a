----------------------------- MODULE WireScalars -----------------------------
(***************************************************************************)
(* One value through one of the codes of wire.rs and back: written to a    *)
(* stream that holds other bits before and after it, then read from where  *)
(* it starts.                                                              *)
(***************************************************************************)
EXTENDS WireCodes

CONSTANTS Params, Moduli   \* Golomb-Rice parameters and moduli tried

\* A centered coefficient is an i64.
ASSUME ScalarsAssumption == Params \subseteq Nat /\ Moduli \subseteq 1 .. 2^Word - 1

VARIABLES
  kind,     \* which code
  value,    \* what is written
  param,    \* its k, or q
  stream,   \* the bits written
  answer    \* what the reader returned

scalarVars == <<kind, value, param, stream, answer>>

Before == <<1, 0, 1>>
After == <<1, 1>>
Unread == Refused(-1)

ScalarInit ==
  /\ \/ kind = "len" /\ value \in Unsigned /\ param = 0
     \/ kind = "rice" /\ value \in Unsigned /\ param \in Params
     \/ kind = "signed" /\ value \in Signed /\ param \in Params
     \/ kind = "coefficient" /\ param \in Moduli /\ value \in 0 .. param - 1
  /\ stream = <<>>
  /\ answer = Unread

Code ==
  CASE kind = "len"         -> LenCode(value)
    [] kind = "rice"        -> RiceCode(value, param)
    [] kind = "signed"      -> RiceCode(ZigzagEncode(value), param)
    [] kind = "coefficient" -> RiceCode(ZigzagEncode(SignedOf(value, param)), 1)

Write ==
  /\ stream = <<>>
  /\ stream' = Before \o Code \o After
  /\ UNCHANGED <<kind, value, param, answer>>

Through(r, f(_)) == IF r.ok THEN Ok(f(r.value), r.at) ELSE r

Read ==
  /\ stream # <<>> /\ answer = Unread
  /\ answer' =
       LET at == Len(Before)
       IN  CASE kind = "len"    -> ReadLen(stream, at)
             [] kind = "rice"   -> ReadRice(stream, at, param)
             [] kind = "signed" -> Through(ReadRice(stream, at, param), ZigzagDecode)
             [] kind = "coefficient" ->
                  Through(ReadRice(stream, at, 1),
                          LAMBDA u : SignedResidue(ZigzagDecode(u), param))
  /\ UNCHANGED <<kind, value, param, stream>>

ScalarNext == Write \/ Read

ScalarSpec == ScalarInit /\ [][ScalarNext]_scalarVars

Done == answer # Unread
TooLong ==
  CASE kind = "len"         -> FALSE
    [] kind = "rice"        -> value \div 2^param > UnaryMax
    [] kind = "signed"      -> ZigzagEncode(value) \div 2^param > UnaryMax
    [] kind = "coefficient" -> ZigzagEncode(SignedOf(value, param)) \div 2 > UnaryMax
Exact == answer = Ok(value, Len(stream) - Len(After))

(***************************************************************************)
(* Properties.                                                             *)
(***************************************************************************)
\* A length of fewer than 64 bits is read back.  A Golomb-Rice code with any
\* parameter gives back its value, the signed words including the most negative
\* one, whose double leaves the word, and a centered coefficient, whose half of
\* q is on the same side for writer and reader, or is refused because its
\* quotient exceeds read_gr's limit: never another value, and never a reader
\* that stops out of step.
ReadsBack ==
  Done /\ (kind = "len" => value < 2^(Word - 1)) => IF TooLong THEN ~answer.ok ELSE Exact
=============================================================================
