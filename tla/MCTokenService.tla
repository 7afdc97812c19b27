--------------------------- MODULE MCTokenService ---------------------------
(***************************************************************************)
(* TokenService on a small instance.  Workers, requests and devices are    *)
(* interchangeable: no definition tells them apart.                        *)
(***************************************************************************)
EXTENDS TokenService, TLC

Symmetry == Permutations(Workers) \cup Permutations(Requests) \cup Permutations(Devices)

=============================================================================
