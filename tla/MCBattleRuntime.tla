--------------------------- MODULE MCBattleRuntime ---------------------------
EXTENDS BattleRuntime, TLC

Interchangeable == Permutations(Session) \cup Permutations(Caller)
=============================================================================
