---------------------------- MODULE MCHTTPServer ----------------------------
(***************************************************************************)
(* The symmetry of the HTTP server for TLC: no request and no writer is    *)
(* told from another.                                                      *)
(***************************************************************************)
EXTENDS HTTPServer, TLC

Symmetry == Permutations(Requests) \cup Permutations(Writers)
=============================================================================
