-------------------------- MODULE MCRuntimeAdapter --------------------------
(* Small instances of RuntimeAdapter.                                      *)
EXTENDS RuntimeAdapter
=============================================================================
