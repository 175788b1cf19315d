------------------------------- MODULE MCStore -------------------------------
(* Store and Nodes for TLC.  A behaviour is about one of the two: a long list  *)
(* of chunks, or a node.  Bytes have eight values and digits three; keys and   *)
(* texts are such that one is a prefix of another, and that a text needs both  *)
(* bytes of its length.                                                        *)
EXTENDS Store, Nodes

MCNodeKinds == {<<6>>, <<6, 7>>}
MCKeys      == {<<6>>, <<6, 0>>, <<7>>}
MCTexts     == {<<>>, <<1>>, [k \in 1 .. 8 |-> 1], [k \in 1 .. 9 |-> k % 2]}
MCCtimeKey  == <<6, 0>>
MCSeconds   == {-4, -1, 0, 2, 3}

Alone == added = <<>> /\ root = Open /\ UNCHANGED vars

AllNext ==
  \/ Next /\ props = <<>> /\ bytes = <<>> /\ UNCHANGED nodeVars
  \/ NodesNext /\ Alone

AllInit == Init /\ NodesInit

AllSpec == AllInit /\ [][AllNext]_<<vars, nodeVars>>
=============================================================================
