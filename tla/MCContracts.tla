------------------------------ MODULE MCContracts ------------------------------
(* Instances of Contracts for TLC.                                         *)
EXTENDS Contracts

CONSTANTS e1, w1, m1

MCGrants == {{}}
===============================================================================
