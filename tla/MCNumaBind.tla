------------------------------- MODULE MCNumaBind ------------------------------
(* Machines for TLC to bind a thread on.                                           *)
EXTENDS NumaBind

\* Two sockets with their CPUs in blocks; two with interleaved numbers; one CPU
\* each; one socket beside a node that has memory only.
MCMachines ==
  { <<0..3, 4..7>>, <<{0, 2}, {1, 3}>>, <<{0}, {1}>>, <<0..1, {}>> }

================================================================================
