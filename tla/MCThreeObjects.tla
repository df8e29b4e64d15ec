---------------------------- MODULE MCThreeObjects ----------------------------
(* Instances of ThreeObjects: a viewer with a map is within reach of the    *)
(* object at first. When the object moves there, the viewer is told of its  *)
(* deletion only; when it moves far away, of nothing any more.              *)
EXTENDS ThreeObjects

MCPositions == {"here", "there", "far"}
MCNear == [p \in Positions |-> IF p = "here" THEN Nodes ELSE {Home}]
MCWide == [p \in Positions |-> IF p = "far" THEN {Home} ELSE Nodes]
==============================================================================
