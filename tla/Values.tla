-------------------------------- MODULE Values --------------------------------
(* Two values that are no value of any other kind: an absent one (Option::None) *)
(* and a failed one (Result::Err).                                              *)
CONSTANTS None, Failed
===============================================================================
