------------------------------ MODULE MCChannel ------------------------------
(***************************************************************************)
(* A small instance of Channel for TLC.                                    *)
(***************************************************************************)
EXTENDS Channel

CONSTANTS t1, t2

=============================================================================
