------------------------------- MODULE MCInode -------------------------------
(* Constants for TLC: threads, names, inodes and blocks are interchangeable. *)
EXTENDS Inode, TLC

Symmetry == Permutations(Threads) \cup Permutations(Names) \cup Permutations(Inums)
            \cup Permutations(Blocks)
=============================================================================
