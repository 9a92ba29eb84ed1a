---------------------------- MODULE MCMappedStream --------------------------
(* Instances of MappedStream for TLC: which side makes which calls.          *)
EXTENDS MappedStream

\* A one-way stream: side 0 writes and side 1 reads.
OneWay == {<<0, "write">>, <<1, "read">>}

=============================================================================
