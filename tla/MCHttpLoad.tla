------------------------------ MODULE MCHttpLoad ---------------------------
(* A small instance of HttpLoad.                                            *)
EXTENDS HttpLoad

MCProfiles == {"custom", "daily", "capacity"}
=============================================================================
