----------------------------- MODULE MCDevice ------------------------------
(* A user with a password and one with an Apple ID.                          *)
EXTENDS Device

CONSTANTS ana, clea

MCEmailUsers == {ana}
MCAppleUsers == {clea}
=============================================================================
