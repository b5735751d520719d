--------------------------- MODULE MCProvisioning ---------------------------
(* Provisioning with two pairs of credentials and two addresses.            *)
EXTENDS Provisioning

CONSTANTS home, guest

MCCreds == {home, guest}
MCAddresses == 1..2
=============================================================================
