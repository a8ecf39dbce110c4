----------------------------- MODULE MCStartup -----------------------------
(* Names of files and hosts for the configurations of Startup. *)
EXTENDS Startup

MCNames == {<<>>, <<"gz">>, <<"cpio">>, <<"tar", "gz">>, <<"tar", "Z">>, <<"cpio", "gz">>, <<"gz", "tar">>}
MCAllNames == {<<>>, <<"bz2">>} \cup {<<e>> : e \in {"gz", "Z", "tar", "cpio"}}
              \cup {<<a, z>> : a \in {"tar", "cpio"}, z \in {"gz", "Z", "bz2"}}
MCNoSuffix == {<<>>}
MCPlainNames == {<<>>, <<"gz">>}

\* Names around the limits of push() and of the iterator, and lists around the size a
\* short int of 512 values holds: 140, 255, 266, 524 bytes and fewer
MCNameLength == [server |-> 6, empty |-> 0, short |-> 1, edge |-> 116, fits |-> 127, wide |-> 128,
                 longest |-> 256, over |-> 257]
MCHostLists == {<<"short", "fits">>, <<"fits", "edge">>, <<"fits", "fits">>, <<"longest", "longest">>,
                <<"wide">>, <<"short", "short", "short">>, <<"short", "over">>, <<"empty">>}
\* What the heap may hold: nothing, bytes too many or too few, a carry that is lost
MCGarbage == {0, 3, -9, 512}
MCTwoHosts == {<<"short", "fits">>}

\* 130 names of 255 characters
MCWideLength == [server |-> 6, wide |-> 255]
MCManyHosts == {[i \in 1 .. 130 |-> "wide"]}
=============================================================================
