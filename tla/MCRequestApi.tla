---------------------------- MODULE MCRequestApi ----------------------------
(***************************************************************************)
(* Model-checking instance of the request API.  Three concurrent requests  *)
(* let two handlers wait on the shared channel while a third arrives; two  *)
(* block ids give two distinct Block requests besides BestBlock and Index. *)
(***************************************************************************)
EXTENDS RequestApi, TLC

MCIds == {"b1", "b2"}

\* The handlers are interchangeable goroutines.
MCSymmetry == Permutations(Clients)

=============================================================================
