--------------------------- MODULE MCStellarDocs ---------------------------
(***************************************************************************)
(* Three pages, one of them an index path, and the timeouts of the         *)
(* authored transport in units of 2 s: 8 s, 12 s and the budget of 24 s    *)
(* are 4, 6 and 12 units.                                                  *)
(***************************************************************************)
EXTENDS StellarDocs

CONSTANTS p1, p2, p3

AuthoredTimeouts == <<4, 6>>
=============================================================================
