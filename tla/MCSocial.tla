------------------------------ MODULE MCSocial ------------------------------
EXTENDS Social, TLC

\* Guilds, and the workers that serve the players, are interchangeable; so
\* are the players.
Symmetry == Permutations(Uid) \cup Permutations(Guild) \cup Permutations(Worker)
=============================================================================
