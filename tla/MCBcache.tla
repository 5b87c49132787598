------------------------------ MODULE MCBcache -------------------------------
(* Constants for TLC: threads, hands, values and the inner blocks are        *)
(* interchangeable.  A log block is held over a home block.                  *)
EXTENDS Bcache, TLC

CONSTANTS LogBlocks, HomeBlocks

MCBlocks == LogBlocks \cup HomeBlocks
MCNested == LogBlocks \X HomeBlocks

Symmetry == Permutations(Threads) \cup Permutations(Hands) \cup Permutations(LogBlocks)
            \cup Permutations(HomeBlocks) \cup Permutations(Values)
=============================================================================
