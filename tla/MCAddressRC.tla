------------------------------ MODULE MCAddressRC ------------------------------
(* Small instances of AddressRC for TLC.                                   *)
EXTENDS AddressRC

CONSTANTS a1, a2, a3, p1, p2

Handlers == Permutations(Handler)
===============================================================================
