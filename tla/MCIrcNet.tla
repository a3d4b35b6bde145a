------------------------------ MODULE MCIrcNet ------------------------------
(* Instances of IrcNet for TLC: two people on the account of a room, one   *)
(* on another account, all with the same nickname, which is the user's too.*)
EXTENDS IrcNet, TLC

CONSTANTS a, b, alice, bob, carol, room, common, o1, o2

MCAccountOf == alice :> a @@ bob :> a @@ carol :> b
MCRoomAccount == room :> a
MCBaseOf == alice :> common @@ bob :> common @@ carol :> common
MCMyName == <<common, 0>>
MCWanted == {<<common, 1>>}

(* Addresses mean nothing.  Only used where no temporal property is        *)
(* checked.                                                                *)
Symmetry == Permutations(Objs \ {Me})
=============================================================================
