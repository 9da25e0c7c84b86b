------------------------ MODULE MCAddInterfaceError -------------------------
(* Instantiation of AddInterfaceError for TLC: three paths, one cause of each source type. *)
EXTENDS AddInterfaceError, TLC

CONSTANTS foo, bar, baz, major_minor, not_found
=============================================================================
