--------------------------- MODULE MCAccountService ---------------------------
EXTENDS AccountService, TLC

Interchangeable ==
    Permutations(Uid) \cup Permutations(Name) \cup Permutations(Worker)
=============================================================================
