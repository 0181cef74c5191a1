------------------------------- MODULE MCGame -------------------------------
\* The whole life of one game, up to MaxRounds rounds.
EXTENDS Game
=============================================================================
