---------------------------- MODULE MCProofWire ----------------------------
(***************************************************************************)
(* Proofs of depth 1 and 2 over ring elements of two coefficients modulo   *)
(* 5: zero and nonzero vectors, one that is zero in part, empty vectors,   *)
(* projections of both signs, up to the ends of a word of 4 bits, with     *)
(* quotients above zero; 0 to 2 witnesses.                                 *)
(***************************************************************************)
EXTENDS ProofWire

Z == <<0, 0>>
A == <<3, 4>>
B == <<0, 2>>

MCParamsFor ==
  << <<[p |-> 2, z |-> 1, g |-> 0]>>,
     <<[p |-> 1, z |-> 0, g |-> 0], [p |-> 2, z |-> 0, g |-> 1]>>,
     <<[p |-> 0, z |-> 0, g |-> 0], [p |-> 2, z |-> 1, g |-> 0]>> >>

Messages(us, ps, bs) == {<<u, p, b, <<B>>>> : u \in us, p \in ps, b \in bs}

Openings ==
  {<<z0, z1, v, g, h>> :
     z0 \in {<<A, Z>>}, z1 \in {<<Z, Z>>, <<B>>}, v \in {<<>>, <<<<A>>, <<B>>>>},
     g \in {<<<<A>>>>, <<<<A, Z>>, <<Z, B>>>>, <<<<Z, Z>>, <<Z, Z>>>>},
     h \in {<<>>, <<<<A, B>>, <<Z, A>>>>}}

Intermediate == {m \o <<FALSE>> : m \in Messages({<<A>>}, {<<>>, <<-3, 6>>}, {<<>>, <<B>>})}
Final == {m \o <<TRUE>> \o l : m \in Messages({<<A, B>>, <<>>}, {<<0>>, <<7, -8>>}, {<<A>>}),
                               l \in Openings}

MCProofs ==
  {[n_sigs |-> 1, iters |-> <<f>>] : f \in Final}
    \cup {[n_sigs |-> n, iters |-> <<i, f>>] : n \in {2, 3}, i \in Intermediate, f \in Final}
=============================================================================
