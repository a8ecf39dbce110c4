----------------------------- MODULE MCCntlPort -----------------------------
(* Transfers for the configurations of CntlPort. *)
EXTENDS CntlPort

MCPlain == {[kinds |-> {"plain"}, anyTime |-> FALSE]}
MCFilesEnd == {[kinds |-> {"plain"}, anyTime |-> TRUE]}
MCFilters == {[kinds |-> {"archive"}, anyTime |-> FALSE]}
MCTransfers == MCPlain \cup {[kinds |-> {"plain", "archive"}, anyTime |-> TRUE]}
=============================================================================
