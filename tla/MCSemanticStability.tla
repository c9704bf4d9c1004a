------------------------- MODULE MCSemanticStability -------------------------
(* Instances of SemanticStability for TLC: three experts, four outputs.      *)
EXTENDS SemanticStability, TLC

\* Outputs 1 and 2 state the same answer in different objects; 3 and 4 state
\* answers close to each other; 1 and 4 point away from each other.  There are three
\* unit vectors with these cosines (in sixths).
Stated == <<1, 1, 2, 3>>

Close == [c \in {1, 2, 3} |-> [d \in {1, 2, 3} |->
            IF c = d THEN 6 ELSE IF {c, d} = {1, 2} THEN 2
            ELSE IF {c, d} = {1, 3} THEN -2 ELSE 4]]
=============================================================================
