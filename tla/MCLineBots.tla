---------------------------- MODULE MCLineBots ----------------------------
(***************************************************************************)
(* Two chats of the admin bot, one of the user bot and a worker thread on  *)
(* a pool that two of them empty.  The user sends two messages at once,    *)
(* and one of the chats asks a question that takes two tools.              *)
(***************************************************************************)
EXTENDS LineBots, TLC

CONSTANTS a1, a2, u1, w1

MCMaxMessages == (a1 :> 1) @@ (a2 :> 1) @@ (u1 :> 2)
MCMaxTools == (a1 :> 1) @@ (a2 :> 2)
=============================================================================
