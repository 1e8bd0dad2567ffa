---------------------------- MODULE MCSkillRead ----------------------------
(***************************************************************************)
(* Three headings: a word that is its own slug, another text with the same *)
(* slug, and a text whose slug is the numbered one of a repeated heading.  *)
(***************************************************************************)
EXTENDS SkillRead

CONSTANTS w, f1, f2

Heading(slug, plain) == [slug |-> slug, plain |-> plain]

MCHeadings == {Heading(<<w>>, TRUE), Heading(<<w>>, FALSE), Heading(<<w, 2>>, TRUE)}
=============================================================================
