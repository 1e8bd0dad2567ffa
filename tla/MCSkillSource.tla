--------------------------- MODULE MCSkillSource ---------------------------
(***************************************************************************)
(* Instances of SkillSource for TLC.  Every pin shares one URL, which is   *)
(* the case the memo key and the re-verification of cache hits exist for:  *)
(* p1 and p2 differ in both digests, p3 has the SHA-256 of p1 and a git    *)
(* blob hash that no body has.  b2 trips the scrub's drift guard in the    *)
(* instance that uses MCDrift.                                             *)
(***************************************************************************)
EXTENDS SkillSource

CONSTANTS p1, p2, p3, u1, b1, b2

MCUrlOf      == [p \in Pins |-> u1]
MCSha256Body == [p \in Pins |-> IF p = p2 THEN b2 ELSE b1]
MCBlobBodies == [p \in Pins |-> CASE p = p1 -> {b1} [] p = p2 -> {b2} [] OTHER -> {}]
MCDrift      == {b2}
=============================================================================
