---------------------------- MODULE MCServThread ----------------------------
(* Small instances of ServThread for TLC. *)
EXTENDS ServThread, TLC

\* two files, of four and of two chunks: the ring of three banks is reused,
\* and a file ends inside a round
MCTwoFiles == 0 :> 3 @@ 1 :> 1

\* fifteen chunks: three rounds of five banks, the second file across two of them
MCLong == 0 :> 6 @@ 1 :> 7

\* a file that ends in its second chunk, and one longer: a client two chunks
\* behind waits for a seqno that the next file has as well
MCShortFile == 0 :> 1 @@ 1 :> 2
=============================================================================
