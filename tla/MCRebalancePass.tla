-------------------------- MODULE MCRebalancePass --------------------------
(* Two objects that rank the nodes differently.  In both, shards 0 and 1    *)
(* contest the same node, so that a node that joins or leaves reshuffles    *)
(* the shards of an object.                                                 *)
EXTENDS RebalancePass

CONSTANTS p1, p2

MCIds == <<1, 2>>

MCWeightOf ==
    <<[i \in Idx |-> [n \in Nodes |-> n]],
      [i \in Idx |-> [n \in Nodes |-> IF n = 1 THEN 9 ELSE 5 - n]]>>

SomeScope(objects, moves, dry, ids) ==
    [max_objects |-> objects, max_moves |-> moves, dry_run |-> dry, object_ids |-> ids]

MCScopes == {SomeScope(0, 1, FALSE, <<>>), SomeScope(1, 0, FALSE, <<>>),
             SomeScope(0, 0, TRUE, <<>>), SomeScope(0, 2, FALSE, <<2, 1>>)}
=============================================================================
