------------------------------- MODULE HeapMC -------------------------------
(* Requests for the runs of Heap. *)
EXTENDS Heap

MCProducts == {<<0, 8>>, <<3, 8>>}
=============================================================================
