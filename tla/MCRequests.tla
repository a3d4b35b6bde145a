----------------------------- MODULE MCRequests -----------------------------
(* Instances of Requests for TLC: a line of text, a choice, a file, and    *)
(* two questions with fields, images among them at every place.            *)
EXTENDS Requests, TLC

CONSTANTS line, choice, form, card, file, conn, acct

MCForm == line :> "input" @@ choice :> "choice" @@ form :> "fields" @@ card :> "fields"
            @@ file :> "file"
MCFields == line :> <<>> @@ choice :> <<>> @@ file :> <<>>
              @@ form :> <<"image", "image", "list", "image", "input">>
              @@ card :> <<"input", "image">>
MCHandleOf == line :> conn @@ form :> conn @@ choice :> acct @@ card :> acct @@ file :> acct
=============================================================================
