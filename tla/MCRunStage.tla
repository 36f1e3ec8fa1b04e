------------------------------ MODULE MCRunStage ------------------------------
(* An intermediate stage whose branch is published, and a last stage under    *)
(* enforcement whose branch is not.                                           *)
EXTENDS RunStage

ConfigsSmall ==
    {[intermediate |-> TRUE, token |-> TRUE, verify |-> TRUE, enforce |-> TRUE, published |-> TRUE],
     [intermediate |-> FALSE, token |-> TRUE, verify |-> TRUE, enforce |-> TRUE, published |-> FALSE]}
ConfigsLast == {c \in ConfigsSmall : ~c.intermediate}
=============================================================================
