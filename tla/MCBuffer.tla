------------------------------ MODULE MCBuffer ------------------------------
(* Buffer for TLC: data of up to three bytes. *)
EXTENDS Buffer
MCData == {<<1>>, <<2, 1>>, <<1, 1, 2>>}
=============================================================================
