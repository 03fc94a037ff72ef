--------------------------------- MODULE MCMcp ---------------------------------
\* An instance of McpManager for TLC.
EXTENDS McpManager, TLC

Symmetry == Permutations(Threads) \cup Permutations(Transports) \cup Permutations(Clients)
===============================================================================
