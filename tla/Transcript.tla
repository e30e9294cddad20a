----------------------------- MODULE Transcript -----------------------------
(***************************************************************************)
(* The Fiat-Shamir transcript of crates/labrador/src/transcript.rs.        *)
(*                                                                         *)
(* The hasher state is modelled by the sequence of labelled updates it has *)
(* received.  SHAKE256 is deterministic, so equal sequences yield equal    *)
(* challenges; idealised as a random oracle, different sequences yield     *)
(* different challenges.  A challenge is therefore identified with the     *)
(* sequence of updates it was squeezed from, its own label included.       *)
(* Feeding the squeezed bytes back ("chal-out:") adds nothing to this      *)
(* state: the bytes are a function of the sequence.                        *)
(***************************************************************************)
EXTENDS Sequences

\* A fresh transcript tagged with a domain.
NewTranscript(domain) == << <<"domain", domain>> >>

Absorb_LabelOnly(t, label, msg) == Append(t, <<"a", label>>)

\* Absorb msg under label.
Absorb(t, label, msg) == Append(t, <<"a", label, msg>>)

\* Bind the label of a squeeze; the result is both the new hasher state and
\* the identity of the challenge that was read from it.
Squeeze(t, label) == Append(t, <<"c", label>>)
=============================================================================
