----------------------------- MODULE MCSession -----------------------------
(* Instances of Session for TLC.                                           *)
EXTENDS Session

CONSTANTS alice, bob, secret, other

(* Local accounts only, or every mechanism.                                *)
LocalOrAll == {{"local"}, {"connection", "pam", "local"}}

LocalOnly == {{"local"}}

(* A user whom PAM knows by a password of its own.                         *)
PamAlice == {<<alice, secret>>}
=============================================================================
