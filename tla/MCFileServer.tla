---------------------------- MODULE MCFileServer ----------------------------
(* Instances of the server with a snapshot file.  Two requests are enough for *)
(* two saves that overlap, with the ticker and the final save besides.        *)
EXTENDS FileServer, TLC

Symmetry == Permutations(Requests)
=============================================================================
