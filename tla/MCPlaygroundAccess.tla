-------------------------- MODULE MCPlaygroundAccess --------------------------
(***************************************************************************)
(* Two browsers, an MCP client's consent page and a playground sign-in.    *)
(* Browsers and chats are interchangeable: no property tells them apart.   *)
(***************************************************************************)
EXTENDS PlaygroundAccess, TLC

Symmetry == Permutations(Browsers) \cup Permutations(Chats)
=============================================================================
