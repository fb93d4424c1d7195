------------------------------- MODULE MCLink -------------------------------
(* The link alone on small instances: radios 66 and 69, a message that     *)
(* fits, one that does not, and call bounds that wrap the header ID.       *)
EXTENDS LinkChannel

PerNode(s, a) == [n \in Node |-> IF n = Shore THEN s ELSE a]

\* The shore goes round the ID space, the AUV talks back.
WrapSends == PerNode(5, 1)

FewSends  == PerNode(3, 1)

\* One restart, of the shore radio.
ShoreResets == PerNode(1, 0)
=============================================================================
