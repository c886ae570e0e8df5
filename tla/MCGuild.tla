------------------------------- MODULE MCGuild -------------------------------
EXTENDS Guild, TLC

Players == 1..3

\* Guild ids and workers are interchangeable; players are not (they are
\* locked in the order of their uids).
Interchangeable == Permutations(Guild) \cup Permutations(Worker)
=============================================================================
