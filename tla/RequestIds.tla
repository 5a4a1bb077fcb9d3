----------------------------- MODULE RequestIds -----------------------------
(* The requests a server is given, as its parts know them.                    *)

CONSTANTS
    Requests,
    None        \* no request, and no object of a pool

ASSUME NoneAssumption == None \notin Requests
=============================================================================
