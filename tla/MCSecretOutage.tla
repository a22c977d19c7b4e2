---------------------------- MODULE MCSecretOutage ----------------------------
(***************************************************************************)
(* Instances of SecretOutage for TLC.                                      *)
(***************************************************************************)
EXTENDS SecretOutage

AddRef == {{"n"}, {"n", "x"}}
AddRefs == AddRef \cup {{"n", "b"}}
==============================================================================
