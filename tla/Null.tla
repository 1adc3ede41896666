-------------------------------- MODULE Null --------------------------------
(* What null, undefined and the empty field are in the models of the        *)
(* application's pages and services.                                        *)
CONSTANT Nothing
=============================================================================
