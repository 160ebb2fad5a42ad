--------------------------- MODULE MCTransactions ---------------------------
EXTENDS Transactions, TLC

CONSTANTS d1, d2, d3

MCData   == {d1, d2, d3}
Contents == Permutations(MCData)
=============================================================================
