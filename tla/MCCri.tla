--------------------------------- MODULE MCCri ---------------------------------
(* Instances of Cri: two pods that share an image.                          *)
EXTENDS Cri

CONSTANTS p1, p2, c1, c2, img1, img2

MCPodName == [p \in Pods |-> p]
MCImageOf == [x \in Pods \X Names |-> img1]
MCRunnable == {<<p1, c1>>, <<p1, c2>>, <<p2, c1>>} \cap (Pods \X Names)
==============================================================================
