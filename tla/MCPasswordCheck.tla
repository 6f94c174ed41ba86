-------------------------- MODULE MCPasswordCheck --------------------------
(* All inputs of up to MaxLines lines and all pairs of secrets. *)
EXTENDS PasswordCheck

MCSecrets == -1..3
=============================================================================
