------------------------------ MODULE MCChain ------------------------------
(* Small instances of Chain for TLC. *)
EXTENDS Chain, TLC

\* files of six chunks and of one: a ring of three banks is in its third round, and
\* readdisk() may fill the bank that is to be sent again
MCTwoFiles == 0 :> 5 @@ 1 :> 0

\* seven chunks: a ring of three banks is in its third round
MCLongFile == 0 :> 6

\* files of two chunks, of one and of two
MCShortFiles == 0 :> 1 @@ 1 :> 0 @@ 2 :> 1
=============================================================================
