------------------------------ MODULE ProofWire ------------------------------
(***************************************************************************)
(* pack and unpack of crates/labrador/src/wire.rs: an aggregate proof      *)
(* becomes a file of a header and a bit stream, the file is delivered, and *)
(* the reader takes it apart field by field.                               *)
(*                                                                         *)
(* An iteration is the sequence of its fields in the order of Fields: the  *)
(* first five for an intermediate one, all ten for the last one.  Its      *)
(* Golomb-Rice parameters come from Params::for_n of the number of         *)
(* signatures, on both sides; they are kept abstract here.  The header's   *)
(* q_prime and beta_sq are copied and left out.                            *)
(***************************************************************************)
EXTENDS WireCodes, SequencesExt

CONSTANTS
  Q,           \* the modulus q_prime
  D,           \* coefficients of a ring element; 64 in the code
  HeaderLen,   \* bytes of the header; 48 in the code
  ParamsFor,   \* n_sigs |-> for each iteration the parameters of p, z and g
  Proofs       \* the proofs that are packed

Depth(n) == Len(ParamsFor[n])

Fields == <<"u1", "p", "b", "u2", "last", "z0", "z1", "v", "g", "h">>
LastField == 5    \* the index of has_last_msg

(***************************************************************************)
(* What is packed: fields of the types of proof.rs, in the shapes that     *)
(* write_iter asserts, with no quotient over read_gr's limit.              *)
(***************************************************************************)
Element == [1 .. D -> 0 .. Q - 1]

Zero == [i \in 1 .. D |-> 0]

Within(x, k) == ZigzagEncode(x) \div 2^k <= UnaryMax

\* Elements that write_ring_elem_gr writes with parameter k.
RiceElement(k) == {e \in Element : \A i \in 1 .. D : Within(SignedOf(e[i], Q), k)}

IsVector(x, S) == x \in Seq(S) /\ Len(x) < 2^(Word - 1)

\* A square matrix with entries of S on and above the diagonal.
IsTriangular(x, S) ==
  /\ IsVector(x, Seq(Element))
  /\ \A i \in DOMAIN x :
       /\ Len(x[i]) = Len(x)
       /\ \A j \in DOMAIN x : IF j < i THEN x[i][j] = Zero ELSE x[i][j] \in S

FieldFits(f, x, k) ==
  CASE f \in {"u1", "b", "u2"} -> IsVector(x, Element)
    [] f = "p" -> IsVector(x, Signed) /\ \A i \in DOMAIN x : Within(x[i], k.p)
    [] f = "last" -> x \in BOOLEAN
    [] f \in {"z0", "z1"} -> IsVector(x, RiceElement(k.z))
    [] f = "v" -> /\ IsVector(x, Seq(Element))
                  /\ \A i \in DOMAIN x : IsVector(x[i], Element) /\ Len(x[i]) = Len(x[1])
    [] f = "g" -> IsTriangular(x, RiceElement(k.g))
    [] f = "h" -> IsTriangular(x, Element)

ASSUME WireAssumption ==
  /\ Q \in 2 .. 2^Word - 1 /\ D \in Nat /\ Byte \in Nat \ {0} /\ HeaderLen \in Nat
  /\ \A n \in DOMAIN ParamsFor : ParamsFor[n] \in Seq([p : Nat, z : Nat, g : Nat])

IsSequence(s) == Len(s) \in Nat /\ s = [i \in 1 .. Len(s) |-> s[i]]

\* An aggregate proof has a final iteration after the intermediate ones.
ASSUME ProofsAssumption ==
  \A pf \in Proofs :
    /\ pf.n_sigs \in DOMAIN ParamsFor
    /\ IsSequence(pf.iters) /\ pf.iters # <<>> /\ Len(pf.iters) = Depth(pf.n_sigs)
    /\ \A k \in DOMAIN pf.iters :
         LET it   == pf.iters[k]
             last == k = Depth(pf.n_sigs)
         IN  /\ IsSequence(it)
             /\ Len(it) = IF last THEN Len(Fields) ELSE LastField
             /\ it[LastField] = last
             /\ \A i \in DOMAIN it : FieldFits(Fields[i], it[i], ParamsFor[pf.n_sigs][k])

VARIABLES
  proof,      \* the proof packed
  file,       \* [n_sigs, n_inter, len, bytes, payload]; bytes counts the header
  carried,    \* what happened to it: "whole", "longer", "cut", "relabelled"
  parsed,     \* iterations read
  current,    \* fields read of the next one
  at,         \* bits of the payload read
  verdict     \* "packing", "packed", "delivered", "reading", then what unpack
              \* returned, or "panic"

vars == <<proof, file, carried, parsed, current, at, verdict>>

(***************************************************************************)
(* Writing.                                                                *)
(***************************************************************************)
QBits == CeilLog2(Q)

Concat(code(_), s) == FlattenSeq([i \in DOMAIN s |-> code(s[i])])

\* write_ring_elem_packed and write_ring_elem_gr
PackedElem(e) == Concat(LAMBDA c : Bits(c, QBits), e)
RiceElem(e, k) == Concat(LAMBDA c : RiceCode(ZigzagEncode(SignedOf(c, Q)), k), e)

PackedVec(s) == Concat(PackedElem, s)

\* write_gauss_vec: one bit when every element is zero.
GaussVec(s, k) ==
  IF \A i \in DOMAIN s : s[i] = Zero
  THEN <<1>>
  ELSE <<0>> \o Concat(LAMBDA e : RiceElem(e, k), s)

\* i128 to i64
Clamp(x) == LET top == 2^(Word - 1)
            IN  IF x >= top THEN top - 1 ELSE IF x < -top THEN -top ELSE x

\* The entries of a square matrix with j >= i, row by row.
Upper(m) == FlattenSeq([i \in DOMAIN m |-> SubSeq(m[i], i, Len(m))])

FieldCode(f, x, k) ==
  CASE f \in {"u1", "b", "u2"} -> LenCode(Len(x)) \o PackedVec(x)
    [] f = "p" ->
         LenCode(Len(x)) \o Concat(LAMBDA y : RiceCode(ZigzagEncode(Clamp(y)), k.p), x)
    [] f = "last" -> IF x THEN <<1>> ELSE <<0>>
    [] f \in {"z0", "z1"} -> LenCode(Len(x)) \o GaussVec(x, k.z)
    [] f = "v" ->
         LET kappa == IF x = <<>> THEN 0 ELSE Len(x[1])
         IN  LenCode(Len(x)) \o LenCode(kappa) \o Concat(PackedVec, x)
    [] f = "g" -> LenCode(Len(x)) \o GaussVec(Upper(x), k.g)
    [] f = "h" -> LenCode(Len(x)) \o PackedVec(Upper(x))

\* write_iter
IterCode(it, k) == FlattenSeq([i \in DOMAIN it |-> FieldCode(Fields[i], it[i], k)])

Stream(iters, n) == FlattenSeq([k \in DOMAIN iters |-> IterCode(iters[k], ParamsFor[n][k])])

Padding(s) == [i \in 1 .. (-Len(s)) % Byte |-> 0]

Packed(pf) ==
  LET s == Stream(pf.iters, pf.n_sigs)
      payload == s \o Padding(s)
      len == Len(payload) \div Byte
  IN  [n_sigs |-> pf.n_sigs, n_inter |-> Len(pf.iters) - 1, len |-> len,
       bytes |-> HeaderLen + len, payload |-> payload]

NoFile == [n_sigs |-> 0, n_inter |-> 0, len |-> 0, bytes |-> 0, payload |-> <<>>]

Init ==
  /\ proof \in Proofs
  /\ file = NoFile
  /\ carried = "nowhere"
  /\ parsed = <<>> /\ current = <<>> /\ at = 0
  /\ verdict = "packing"

Pack ==
  /\ verdict = "packing"
  /\ file' = Packed(proof)
  /\ verdict' = "packed"
  /\ UNCHANGED <<proof, carried, parsed, current, at>>

(***************************************************************************)
(* Delivery: the file as it is, with bytes after it, without its end, or   *)
(* with the number of signatures of another proof in its header.           *)
(***************************************************************************)
Arrive(how) ==
  /\ verdict = "packed"
  /\ carried' = how
  /\ verdict' = "delivered"
  /\ UNCHANGED <<proof, parsed, current, at>>

Whole == Arrive("whole") /\ file' = file

Longer == Arrive("longer") /\ file' = [file EXCEPT !.bytes = @ + 1]

Cut(bytes) ==
  /\ Arrive("cut")
  /\ file' = [file EXCEPT !.bytes = bytes,
                          !.payload = SubSeq(@, 1, Byte * (bytes - HeaderLen))]

Relabel(n) ==
  /\ Arrive("relabelled")
  /\ n # file.n_sigs
  /\ file' = [file EXCEPT !.n_sigs = n]

(***************************************************************************)
(* Reading.                                                                *)
(***************************************************************************)
\* n values, one after the other.
ReadMany(n, from, read(_)) ==
  FoldLeft(LAMBDA r, i :
             IF ~r.ok THEN r
             ELSE LET x == read(r.at)
                  IN  IF x.ok THEN Ok(Append(r.value, x.value), x.at) ELSE x,
           Ok(<<>>, from), [i \in 1 .. n |-> i])

\* The value read, handed on with what follows it.
Then(r, next(_, _)) == IF r.ok THEN next(r.value, r.at) ELSE r

ReadPacked(s, from) == ReadMany(D, from, LAMBDA a : ReadBits(s, a, QBits))

ReadSigned(s, from, k) == Then(ReadRice(s, from, k), LAMBDA u, a : Ok(ZigzagDecode(u), a))

ReadRiceElem(s, from, k) ==
  ReadMany(D, from, LAMBDA a :
    Then(ReadSigned(s, a, k), LAMBDA x, b : Ok(SignedResidue(x, Q), b)))

ReadGaussVec_NoFlag(s, from, n, k) ==
  ReadMany(n, from, LAMBDA a : ReadRiceElem(s, a, k))

ReadGaussVec(s, from, n, k) ==
  Then(ReadBits(s, from, 1), LAMBDA zeros, a :
    IF zeros = 1 THEN Ok([i \in 1 .. n |-> Zero], a)
    ELSE ReadMany(n, a, LAMBDA b : ReadRiceElem(s, b, k)))

Square_Symmetric(entries, r) ==
  [i \in 1 .. r |-> [j \in 1 .. r |->
     LET lo == IF i <= j THEN i ELSE j
         hi == IF i <= j THEN j ELSE i
     IN  entries[(lo - 1) * r - ((lo - 1) * (lo - 2)) \div 2 + hi - lo + 1]]]

\* The matrix with the given upper triangle and zeros below it; before row i
\* come (i - 1) rows of r, r - 1, ... entries.
Square(entries, r) ==
  [i \in 1 .. r |-> [j \in 1 .. r |->
     IF j < i THEN Zero
     ELSE entries[(i - 1) * r - ((i - 1) * (i - 2)) \div 2 + j - i + 1]]]

Triangle(r) == (r * (r + 1)) \div 2

ReadField(f, s, from, k) ==
  CASE f \in {"u1", "b", "u2"} ->
         Then(ReadLen(s, from), LAMBDA n, a : ReadMany(n, a, LAMBDA b : ReadPacked(s, b)))
    [] f = "p" ->
         Then(ReadLen(s, from), LAMBDA n, a : ReadMany(n, a, LAMBDA b : ReadSigned(s, b, k.p)))
    [] f = "last" ->
         Then(ReadBits(s, from, 1), LAMBDA x, a : Ok(x = 1, a))
    [] f \in {"z0", "z1"} ->
         Then(ReadLen(s, from), LAMBDA n, a : ReadGaussVec(s, a, n, k.z))
    [] f = "v" ->
         Then(ReadLen(s, from), LAMBDA r, a :
           Then(ReadLen(s, a), LAMBDA kappa, b :
             ReadMany(r, b, LAMBDA c : ReadMany(kappa, c, LAMBDA d : ReadPacked(s, d)))))
    [] f = "g" ->
         Then(ReadLen(s, from), LAMBDA r, a :
           Then(ReadGaussVec(s, a, Triangle(r), k.g), LAMBDA x, b : Ok(Square(x, r), b)))
    [] f = "h" ->
         Then(ReadLen(s, from), LAMBDA r, a :
           Then(ReadMany(Triangle(r), a, LAMBDA b : ReadPacked(s, b)),
                LAMBDA x, b : Ok(Square(x, r), b)))

Finish(v) ==
  /\ verdict' = v
  /\ UNCHANGED <<proof, file, carried, parsed, current, at>>

HeaderVerdict_PayloadOnly ==
  CASE file.bytes < HeaderLen -> "Truncated"
    [] file.bytes >= HeaderLen /\ file.bytes < file.len -> "Truncated"
    [] file.bytes >= HeaderLen + file.len /\ Depth(file.n_sigs) # file.n_inter + 1 -> "BadShape"
    [] file.bytes >= HeaderLen + file.len /\ Depth(file.n_sigs) = file.n_inter + 1 -> "reading"
    [] OTHER -> "panic"

\* What unpack says of the header; the slice of the payload is in range when
\* the two length checks have passed.  The header is one that pack wrote, so
\* that HeaderLen + file.len (wire.rs:695) does not wrap.
HeaderVerdict ==
  IF file.bytes < HeaderLen \/ file.bytes < HeaderLen + file.len THEN "Truncated"
  ELSE IF Depth(file.n_sigs) # file.n_inter + 1 THEN "BadShape"
  ELSE "reading"

Header ==
  /\ verdict = "delivered"
  /\ Finish(HeaderVerdict)

(***************************************************************************)
(* The rest of unpack: read_iter, one field at a time.                     *)
(***************************************************************************)
Index == Len(parsed) + 1
NextField == Fields[Len(current) + 1]

IterDone ==
  \/ Len(current) = LastField /\ ~current[LastField]
  \/ Len(current) = Len(Fields)

FieldRead == ReadField(NextField, file.payload, at, ParamsFor[file.n_sigs][Index])

TakeField ==
  /\ verdict = "reading" /\ ~IterDone
  /\ FieldRead.ok
  /\ current' = Append(current, FieldRead.value)
  /\ at' = FieldRead.at
  /\ UNCHANGED <<proof, file, carried, parsed, verdict>>

\* Truncated inside the stream, or a length or a quotient out of range.  After
\* a misread, a length beyond what Vec::with_capacity takes (wire.rs:484 and
\* the others) ends in a panic or an abort and not in a WireError: Refused
\* stands for either.
FieldFails ==
  /\ verdict = "reading" /\ ~IterDone
  /\ ~FieldRead.ok
  /\ Finish("Refused")

\* An iteration is complete.  Only the final one may carry a last message,
\* and it has to.
TakeIter ==
  /\ verdict = "reading" /\ IterDone
  /\ current[LastField] <=> Index = file.n_inter + 1
  /\ parsed' = Append(parsed, current)
  /\ current' = <<>>
  /\ verdict' = IF Index = file.n_inter + 1 THEN "Ok" ELSE "reading"
  /\ UNCHANGED <<proof, file, carried, at>>

IterFails ==
  /\ verdict = "reading" /\ IterDone
  /\ ~(current[LastField] <=> Index = file.n_inter + 1)
  /\ Finish("BadShape")

Next ==
  \/ Pack
  \/ Whole
  \/ Longer
  \/ \E bytes \in 0 .. file.bytes - 1 : Cut(bytes)
  \/ \E n \in DOMAIN ParamsFor : Relabel(n)
  \/ Header
  \/ TakeField
  \/ FieldFails
  \/ TakeIter
  \/ IterFails

Spec == Init /\ [][Next]_vars

(***************************************************************************)
(* Properties.                                                             *)
(***************************************************************************)
Undamaged == carried \in {"whole", "longer"}
Finished == verdict \notin {"packing", "packed", "delivered", "reading"}

\* unpack(pack(p)) == p: an undamaged file is accepted, gives the proof back,
\* and has nothing but padding left of the payload; bytes after the payload
\* change nothing.
Reassembled ==
  Undamaged /\ Finished =>
    /\ verdict = "Ok" /\ parsed = proof.iters
    /\ LET rest == SubSeq(file.payload, at + 1, Len(file.payload))
       IN  Len(rest) < Byte /\ \A i \in DOMAIN rest : rest[i] = 0

\* At every field the reader stands where the writer began it: what it has
\* read, packed again, is what it has passed.
InStep ==
  Undamaged /\ verdict = "reading" =>
    LET again == Stream(Append(parsed, current), file.n_sigs)
    IN  at = Len(again) /\ IsPrefix(again, file.payload)

\* A file that lost its end, wherever, is refused as truncated before its
\* payload is looked at, and the slice of the payload is never out of range;
\* a file under a number of signatures with another depth is refused at its
\* header, before any field is read with the wrong parameters.
DamageRefused ==
  /\ carried = "cut" /\ Finished => verdict = "Truncated"
  /\ carried = "relabelled" /\ verdict # "delivered"
       /\ Depth(file.n_sigs) # Len(proof.iters) => verdict = "BadShape"
=============================================================================
