---------------------------- MODULE MCClntThread ----------------------------
(* Small instances of ClntThread for TLC. *)
EXTENDS ClntThread, TLC

\* two files, of four and of two chunks: the ring of three banks is reused,
\* and a file ends inside a round
MCTwoFiles == 0 :> 3 @@ 1 :> 1

\* five chunks, the second file a single one: the first two banks are reused,
\* one of them across the end of a file
MCFiveChunks == 0 :> 3 @@ 1 :> 0

\* eleven chunks: more than two rounds of five banks
MCLong == 0 :> 4 @@ 1 :> 5
=============================================================================
