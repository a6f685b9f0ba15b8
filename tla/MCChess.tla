------------------------------ MODULE MCChess ------------------------------
(* Positions chosen for the rules a game seldom reaches.                    *)
EXTENDS ChessGame

At(side, rights, rows) == [turn |-> side, rights |-> rights, rows |-> rows]

MCStarts ==
  { \* a capture in passing would open the fifth rank
    At("b", {}, <<"8", "3p4", "8", "K3P2r", "8", "8", "8", "7k">>),
    \* a capture in passing is the only move left
    At("b", {}, <<"7k", "3p4", "4p3", "4P3", "8", "1q6", "8", "K7">>),
    \* all four castlings
    At("w", Rights, <<"r3k2r", "8", "8", "8", "8", "8", "8", "R3K2R">>),
    \* promotions by capture from two files, and by a step
    At("w", {}, <<"1n5k", "P1P5", "8", "8", "8", "8", "p7", "4K3">>),
    \* rooks on one file, queens that share a file and a rank
    At("w", {}, <<"R2Q4", "8", "8", "7k", "R2Q1Q2", "8", "8", "7K">>),
    \* mate on the back rank, a pinned knight
    At("w", {}, <<"6k1", "5ppp", "8", "8", "8", "8", "8", "R3N1K1">>),
    \* stalemate
    At("w", {}, <<"k7", "2K5", "8", "8", "1Q6", "8", "8", "8">>) }
=============================================================================
