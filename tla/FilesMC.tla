------------------------------ MODULE FilesMC ------------------------------
(* Device trees with every kind of fault on both platforms, without an IOMMU; *)
(* and a complete tree with one.                                              *)
EXTENDS Iommu, TLC

CONSTANTS r1, r2

ProbeOrder == [carfield |-> <<"soc-ctrl", "mboxes", "l3-buffer">>, occamy |-> <<"soc-ctrl", "mboxes">>]
Node(s, r) == [status |-> s, reserved |-> r]
AnyNode(R) == {Node(s, r) : s \in Status, r \in R}

Trees(L) == [x : AnyNode({Zero, r1, "broken"}), y : AnyNode({Zero, r1, r2, "broken"}), z : L]
Two(x, y) == ("soc-ctrl" :> x) @@ ("mboxes" :> y)
Setup(p, i, t) == [platform |-> p, iommu |-> i, tree |-> t]
Carfield(t) == Setup("carfield", "old", Two(t.x, t.y) @@ (L3 :> t.z))
Occamy(t) == Setup("occamy", "old", Two(t.x, t.y))
Complete(i) == Setup("carfield", i, Two(Node("ok", Zero), Node("ok", Zero)) @@ (L3 :> Node("ok", Zero)))

AllSetups == {Carfield(t) : t \in Trees(AnyNode({Zero, r2}))}
             \cup {Occamy(t) : t \in Trees({Node("ok", Zero)})}
             \cup {Complete(i) : i \in {"absent", "present"}}
Symmetric == Permutations(Frame) \cup Permutations(Thread)
====
