-------------------------- MODULE MCFoldedWitness --------------------------
\* Small shapes in which n, the length of e and the numbers of pieces divide
\* each other and do not, and in which either of z and e is the longer.
EXTENDS FoldedWitness

MCShapes == [n : 1..3, r : 1..3, t1 : 1..2, t2 : 1..2, kappa : 1..2, nu : 1..2, mu : {1, 2, 5}]
=============================================================================
