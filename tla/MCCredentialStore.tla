------------------------- MODULE MCCredentialStore --------------------------
(* CredentialStore with three pairs: the stored one, and two to replace it. *)
EXTENDS CredentialStore

CONSTANTS a, b, c

MCPairs == {a, b, c}
=============================================================================
