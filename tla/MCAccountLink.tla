--------------------------- MODULE MCAccountLink ---------------------------
(* Instances of AccountLink for TLC: an account of each of two protocols,  *)
(* with one username, so that they can come to share a server. No symmetry *)
(* is used, ComesBack is checked.                                          *)
EXTENDS AccountLink

MCProtocolOf == [a \in Accounts |-> a]
MCUserOf == [a \in Accounts |-> "user"]
MCHome == [c \in Chats |-> "jabber"]
MCIds == {<<"jabber", 0>>, <<"msn", 0>>}
=============================================================================
