--------------------------- MODULE MCConfigStore ---------------------------
(* Instance of ConfigStore for TLC: two user names besides the default. *)
EXTENDS ConfigStore
=============================================================================
