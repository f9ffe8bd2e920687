---------------------------- MODULE MCScoreboard ----------------------------
(* Module Scoreboard with the constants of TLC's small instances. *)
EXTENDS Scoreboard, TLC

CONSTANTS c1, c2

\* Two submissions of team 0, one per route.
OneThief == c1 :> 0 @@ c2 :> 0
BothRoutes == c1 :> "tcp" @@ c2 :> "http"

\* One submission of team 0 at a time.
SoloThief == c1 :> 0
SoloRoute == c1 :> "http"

\* A team and its own bot, each able to steal from the other.
TeamAndBot == c1 :> 0 @@ c2 :> BotId(0)
HttpOnly == c1 :> "http" @@ c2 :> "http"
=============================================================================
