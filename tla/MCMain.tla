-------------------------------- MODULE MCMain --------------------------------
(***************************************************************************)
(* Main with two workers. Their threads are numbers and main's is zero     *)
(***************************************************************************)
EXTENDS Main

MCThread == 0..Workers

=============================================================================
