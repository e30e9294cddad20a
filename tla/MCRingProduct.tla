--------------------------- MODULE MCRingProduct ---------------------------
EXTENDS RingProduct

\* A modulus for each path and degree; 1681 is the square of 41, which the
\* trial division of is_prime lets through; there is no prime below 16 that is
\* 1 modulo 8.
MCSearches ==
  {[how |-> "ntt_friendly_below", bound |-> 16, d |-> 4],
   [how |-> "ntt_friendly_below", bound |-> 32, d |-> 4],
   [how |-> "ntt_friendly_below", bound |-> 1690, d |-> 8],
   [how |-> "ntt_friendly_below", bound |-> 64, d |-> 2],
   [how |-> "5mod8_below", bound |-> 32, d |-> 4],
   [how |-> "5mod8", bound |-> 32, d |-> 8],
   [how |-> "5mod8", bound |-> 6, d |-> 2]}
=============================================================================
