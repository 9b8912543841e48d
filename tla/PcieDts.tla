------------------------------ MODULE PcieDts ------------------------------
(***************************************************************************)
(* The driver for cards in PCIe slots, sw/hero-pcie-dts-driver, together   *)
(* with the card's own driver.  Its probe reads the device tree of the card *)
(* from the card, lays it over the host's and creates the devices in it;    *)
(* the card's driver is then probed.  Its remove undoes that, with the      *)
(* card's driver bound or not.  On the card's own SoC it is not loaded.     *)
(***************************************************************************)
EXTENDS CardDriver

VARIABLES pci,        \* where hero_pci_probe or hero_pci_remove is
          blob,       \* cards whose device tree is in memory
          overlay,    \* cards whose ovcs_id is positive, an overlay to remove
          populated   \* cards whose devices were all created

pcieVars == <<pci, blob, overlay, populated>>
allVars == <<vars, pcieVars>>

PcieInit == /\ Init
            /\ pci = [c \in Card |-> "none"]
            /\ blob = {} /\ overlay = {} /\ populated = {}

To(c, from, step) == pci[c] = from /\ pci' = [pci EXCEPT ![c] = step]

\* hero_pci_probe up to bar_read_dtb.  A probe that fails there leaves nothing
\* but, if the magic number is wrong or memory short, a mapping of the BAR.
BarRead(c) == /\ handlers[c] < MaxHandlers
              /\ To(c, "none", "overlay")
              /\ blob' = blob \cup {c}
              /\ UNCHANGED <<overlay, populated, card>>

\* of_overlay_fdt_apply may fail and still leave an overlay to remove.
Apply(c) == /\ To(c, "overlay", "populate")
            /\ overlay' \in {overlay, overlay \cup {c}}
            /\ UNCHANGED <<blob, populated, card>>

\* of_platform_default_populate creates what the overlay has, if it fails only
\* the first devices of it.  The probe succeeds whatever it returned.
Populate(c) == /\ To(c, "populate", "on")
               /\ \/ card' = [card EXCEPT ![c] = "idle"] /\ c \in overlay
                  \/ UNCHANGED card
               /\ populated' \in {populated, populated \cup {c}}
               /\ UNCHANGED <<blob, overlay>>

(* hero_pci_remove: the blob, the devices, the overlay.  Devices that were  *)
(* not all created go when their nodes do.  Mutant: the overlay goes first. *)
FreeBlob(c) == /\ To(c, "on", "depopulate")
               /\ blob' = blob \ {c}
               /\ UNCHANGED <<overlay, populated, card>>

\* A device is gone once its driver has let it go (RemoveStart).
Unplug(c) == card[c] \in {"absent", "idle", "tried"} /\ card' = [card EXCEPT ![c] = "absent"]

DepopulateLast(c) == /\ To(c, "depopulate", "unlay")
                     /\ overlay' = overlay \ {c}
                     /\ UNCHANGED <<blob, populated, card>>
Depopulate(c) == /\ To(c, "depopulate", "unlay")
                 /\ IF c \in populated THEN Unplug(c) ELSE UNCHANGED card
                 /\ UNCHANGED <<blob, overlay, populated>>

RemoveOverlay(c) == /\ To(c, "unlay", "none")
                    /\ overlay' = overlay \ {c} /\ populated' = populated \ {c}
                    /\ IF c \in overlay THEN Unplug(c) ELSE UNCHANGED card
                    /\ UNCHANGED blob

PcieStep == /\ \E c \in slots : \/ BarRead(c) \/ Apply(c)
                               \/ Populate(c) \/ FreeBlob(c) \/ Depopulate(c) \/ RemoveOverlay(c)
            /\ UNCHANGED <<config, module, data, domain, chardev, irq, files, panic, history>>

\* A kernel that panicked stops.
Next == /\ ~panic
        /\ \/ DriverStep /\ UNCHANGED pcieVars
           \/ PcieStep

\* A line that is asserted interrupts.
Fairness == \A c \in Card : WF_allVars(~panic /\ ServeCard(c) /\ KeepForIrq /\ UNCHANGED pcieVars)

Spec == PcieInit /\ [][Next]_allVars /\ Fairness

-----------------------------------------------------------------------------
(* The types of both drivers' state; no handler count passes its bound.     *)
TypeOK == /\ mod \in Going \cup {"class", "spatz", "card", "binding", "live"}
          /\ region \in BOOLEAN /\ class \in BOOLEAN /\ drivers \subseteq {"card", "spatz"}
          /\ card \in [Card -> Probing \cup Removing \cup {"absent", "idle", "tried", "bound", "dead"}]
          /\ data \in [Card -> {"none", "blank", "ready", "freed"}]
          /\ domain \cup stale \cup entered \cup gpio \cup lost \subseteq Card
          /\ cdevs \in Seq(Card) /\ Len(cdevs) <= Cardinality(Card)
          /\ node \in Card \cup {NoCard} /\ result \in BOOLEAN /\ calm \in BOOLEAN
          /\ handlers \in [Card -> 0..MaxHandlers]
          /\ files \in [File -> Card \cup {NoCard}]
          /\ pci \in [Card -> {"none", "overlay", "populate", "on", "depopulate", "unlay"}]
          /\ blob \cup overlay \cup populated \subseteq Card

(* As long as no two probes or removals overlap, a character device, which   *)
(* an open of the node reaches, is of a card whose data are complete, and    *)
(* there is one if there is a node: cdev_add comes last in probe, and every  *)
(* way out of probe and remove takes the device away before the data go.     *)
OpenReachesReady == calm => /\ \A i \in DOMAIN cdevs : data[cdevs[i]] = "ready"
                            /\ node # NoCard => cdevs # <<>>

(* What module init and probe acquired is given back when the module is      *)
(* unloaded, whatever failed in between: its device numbers, class, driver   *)
(* and character devices, and no process has its file; the device node, too, *)
(* unless probes or removals overlapped.  Left are the IOMMU domains of      *)
(* probes that failed after attaching them, on Carfield the Spatz driver and *)
(* the interrupt handlers.                                                   *)
UnloadsClean == mod = "out" => /\ ~region /\ ~class
                               /\ \A f \in File : files[f] = NoCard
                               /\ "card" \notin drivers
                               /\ cdevs = <<>>
                               /\ calm => node = NoCard
                               /\ domain \subseteq lost
                               /\ platform = "occamy" => drivers = {} /\ \A c \in Card : handlers[c] = 0

(* When the PCIe device of a card is gone nothing of it is left: no blob, no *)
(* overlay, no device, whatever failed in its probe.  And devices that were  *)
(* all created have the nodes they came from under them while they exist.    *)
PciGivesBack == \A c \in slots :
                  /\ pci[c] = "none" => c \notin blob \cup overlay /\ card[c] = "absent"
                  /\ c \in populated /\ card[c] # "absent" => c \in overlay

(* An interrupt of the card's GPIO is cleared in the end, although every     *)
(* second call of the handler is ignored and devices of other drivers raise  *)
(* the same line, unless a handler of a card that is gone brings the system  *)
(* down.                                                                     *)
RaisedIsCleared == \A c \in Card : c \in gpio ~> c \notin gpio \/ panic

=============================================================================
