--------------------------- MODULE MCConfigStorage ---------------------------
(***************************************************************************)
(* Instances of ConfigStorage: its constants are sets of model values,     *)
(* given in the configurations.                                            *)
(***************************************************************************)
EXTENDS ConfigStorage
==============================================================================
