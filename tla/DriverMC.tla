------------------------------ MODULE DriverMC ------------------------------
(* A card on its own SoC, with each kind of kernel, one or two in PCIe slots. *)
EXTENDS PcieDts

CONSTANTS c1, c2

Host(p, i, o, s) == [platform |-> p, iommu |-> i, own |-> o, slots |-> s]
AllHosts == {Host("carfield", i, {c1}, {}) : i \in {"old", "absent", "present"}}
            \cup {Host("carfield", i, {}, {c1}) : i \in {"old", "absent", "present"}}
            \cup {Host("occamy", "old", {c1}, {}), Host("occamy", "old", {}, {c1, c2})}
=============================================================================
