------------------------------- MODULE MCVaina -------------------------------
(***************************************************************************)
(* Addresses of two bits, and the prefix lengths 0, a part of the address, *)
(* and one too many, which is cut to the whole address.                    *)
(***************************************************************************)
EXTENDS Vaina

MCLens == {0, 1, AddrBits + 1}
=============================================================================
