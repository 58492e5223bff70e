---------------------------- MODULE MCCloudLink ----------------------------
(* One recording goroutine and the flusher, with the CLI and the keychain. *)
EXTENDS CloudLink

CONSTANTS c1, c2
=============================================================================
