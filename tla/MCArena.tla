--------------------------------- MODULE MCArena --------------------------------
(* Instances of Arena: a storage that is not aligned to the largest request, and *)
(* requests on both sides of what fits.                                          *)
EXTENDS Arena

OrdinaryRequests ==
  {[n |-> n, align |-> a] : n \in {0, 1, 5, 13}, a \in {1, 4, 16}}

\* A size that is near the width of size_t, as from a negative length.
HugeRequests == {[n |-> 8, align |-> 4], [n |-> Word - 8, align |-> 1]}

================================================================================
