---------------------------- MODULE MCLoginIndex ----------------------------
(* The runtime and one CLI process; two logins, one of them OAuth.         *)
EXTENDS LoginIndex

CONSTANTS rt, cli, r1, r2, chatgpt, other
=============================================================================
