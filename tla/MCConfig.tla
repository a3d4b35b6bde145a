------------------------------ MODULE MCConfig ------------------------------
(* An instance of Config for TLC.                                          *)
EXTENDS Config, TLC

(* A part of what Minbif::Minbif() defines, with two items of one label.   *)
MCSections == {"irc", "daemon", "oper"}
MCParentOf == [s \in MCSections |-> IF s = "irc" THEN "none" ELSE "irc"]
MCTypeOf == "irc" :> "NORMAL" @@ "daemon" :> "OPTIONAL" @@ "oper" :> "MULTIPLE"
MCItemsOf == "irc" :> {"password"} @@ "daemon" :> {"maxcon"}
             @@ "oper" :> {"login", "password"}
MCDefaulted == {<<"irc", "password">>, <<"daemon", "maxcon">>}
MCNameItem == "irc" :> "none" @@ "daemon" :> "none" @@ "oper" :> "login"
=============================================================================
