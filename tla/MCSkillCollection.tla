-------------------------- MODULE MCSkillCollection --------------------------
(* A collection whose first generation is an image with the skills a and b,   *)
(* the second an image with b alone, the third a list with the card a, the    *)
(* fourth an image without a skill.                                           *)
EXTENDS SkillCollection, TLC

HoldsSmall == (1 :> {"a", "b"}) @@ (2 :> {"b"}) @@ (4 :> {})
ListedSmall == (3 :> {"a"})
=============================================================================
