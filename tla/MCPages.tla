------------------------------- MODULE MCPages -------------------------------
(* Module Pages with the constants of TLC's small instance. *)
EXTENDS Pages, TLC

CONSTANTS c1, c2

\* A team and its own bot, each able to steal from the other, one per route.
TeamAndBot == c1 :> 0 @@ c2 :> BotId(0)
BothRoutes == c1 :> "tcp" @@ c2 :> "http"
==============================================================================
