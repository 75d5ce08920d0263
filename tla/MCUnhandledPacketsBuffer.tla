---------------------- MODULE MCUnhandledPacketsBuffer ----------------------
(* The buffer with a small capacity, given in the .cfg files. *)
EXTENDS UnhandledPacketsBuffer

=============================================================================
