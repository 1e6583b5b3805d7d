--------------------------- MODULE MCExperimenTeX ---------------------------
(* Two root classes and four interchangeable names. *)
EXTENDS ExperimenTeX, TLC

CONSTANTS mmfa, tcp

MCRoot == <<mmfa, tcp>>
MCSymmetry == Permutations(TexName)
=============================================================================
