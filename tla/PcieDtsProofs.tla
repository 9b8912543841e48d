--------------------------- MODULE PcieDtsProofs ---------------------------
(***************************************************************************)
(* Theorems about the life cycle of the drivers, for any number of cards,   *)
(* files and hosts.                                                         *)
(***************************************************************************)
EXTENDS PcieDts, FiniteSetTheorems, SequenceTheorems, TLAPS

Places == Probing \cup Removing \cup {"absent", "idle", "tried", "bound", "dead"}
AtRest == {"absent", "idle", "tried"}
Holds == {"create", "check"} \cup {"bound"} \cup Removing

\* The parts of the inductive invariant.
Types == /\ mod \in Going \cup {"class", "spatz", "card", "binding", "live"}
         /\ region \in BOOLEAN /\ class \in BOOLEAN /\ calm \in BOOLEAN /\ result \in BOOLEAN
         /\ drivers \subseteq {"card", "spatz"}
         /\ domain \cup stale \cup entered \cup gpio \cup lost \subseteq Card
         /\ blob \cup overlay \cup populated \subseteq Card
         /\ card \in [Card -> Places]
         /\ data \in [Card -> {"none", "blank", "ready", "freed"}]
         /\ cdevs \in Seq(Card)
         /\ node \in Card \cup {NoCard}
         /\ handlers \in [Card -> Nat]
         /\ files \in [File -> Card \cup {NoCard}]
         /\ pci \in [Card -> {"none", "overlay", "populate", "on", "depopulate", "unlay"}]

\* What the module holds goes with where its init and exit are.
ModuleHolds == /\ region = (mod # "out")
               /\ class = (mod \notin {"out", "class", "unregion"})
               /\ "card" \in drivers <=> mod \in {"binding", "live"}
               /\ platform = "occamy" => drivers \subseteq {"card"} /\ mod \notin {"spatz", "reregister"}

\* Only while the card driver is registered is a card on the way.
Rested == mod \notin {"binding", "live", "detach"} => \A c \in Card : card[c] \in AtRest

\* Every card whose probe came to cdev_add has a character device, and only
\* those have and those that died later.
Holders == {c \in Card : card[c] \in Holds}
MayHold == {c \in Card : card[c] \in Holds \cup {"dead"}}
Counted == Cardinality(Holders) <= Len(cdevs) /\ Len(cdevs) <= Cardinality(MayHold)

FilesClosed == mod \notin {"binding", "live"} => \A f \in File : files[f] = NoCard

Attached == {"cdev", "create", "check", "bound", "domain", "dead"}
DomainsKnown == \A c \in domain \ lost : card[c] \in Attached

NoIrqs == platform = "occamy" => \A c \in Card : handlers[c] = 0 /\ card[c] # "irqs"

\* Without overlaps, one card is busy at most, and the node's card is there.
OneBusy == calm => /\ \A a, b \in Busy : a = b
                   /\ node # NoCard => /\ card[node] \in {"check", "bound", "domain", "destroy", "dead"}
                                       /\ card[node] = "check" => result

\* What is there of a card in a slot, by where its PCIe probe or remove is.
PciState(c) == /\ pci[c] \in {"none", "overlay", "populate"} => card[c] = "absent" /\ c \notin populated
               /\ pci[c] \in {"none", "overlay"} => c \notin overlay
               /\ pci[c] \in {"none", "depopulate", "unlay"} => c \notin blob
               /\ pci[c] = "unlay" /\ c \in populated => card[c] = "absent"
               /\ card[c] # "absent" => c \in overlay
PciHolds == slots \subseteq Card /\ \A c \in slots : PciState(c)

\* There is room for the handler of every probe to come.
HasRoom(c) == handlers[c] < MaxHandlers
Room == \A c \in Card :
          /\ handlers[c] <= MaxHandlers
          /\ card[c] \in {"idle", "alloc", "irqs"} => HasRoom(c)
          /\ card[c] = "tried" /\ mod \in {"class", "spatz", "card"} => HasRoom(c)
          /\ c \in slots /\ pci[c] \in {"overlay", "populate"} => HasRoom(c)

IInv == /\ Types /\ ModuleHolds /\ Rested /\ Counted /\ FilesClosed
        /\ DomainsKnown /\ NoIrqs /\ OneBusy /\ PciHolds /\ Room
-----------------------------------------------------------------------------
(* The initial states satisfy the invariant.                                *)
LEMMA InitTypes == PcieInit => Types
<1> SUFFICES ASSUME PcieInit PROVE Types
  OBVIOUS
<1>1. mod \in Going \cup {"class", "spatz", "card", "binding", "live"}
  BY DEF PcieInit, Init, Going
<1>2. /\ region \in BOOLEAN /\ class \in BOOLEAN /\ calm \in BOOLEAN /\ result \in BOOLEAN /\ drivers \subseteq {"card", "spatz"}
      /\ domain \cup stale \cup entered \cup gpio \cup lost \subseteq Card
      /\ blob \cup overlay \cup populated \subseteq Card
  BY DEF PcieInit, Init
<1>3. card \in [Card -> Places]
  BY DEF PcieInit, Init, Places
<1>4. /\ data \in [Card -> {"none", "blank", "ready", "freed"}] /\ cdevs \in Seq(Card)
      /\ node \in Card \cup {NoCard} /\ handlers \in [Card -> Nat]
      /\ files \in [File -> Card \cup {NoCard}]
  BY DEF PcieInit, Init
<1>5. pci \in [Card -> {"none", "overlay", "populate", "on", "depopulate", "unlay"}]
  BY DEF PcieInit, Init
<1> QED
  BY <1>1, <1>2, <1>3, <1>4, <1>5 DEF Types

LEMMA InitHolds == PcieInit => IInv
<1> SUFFICES ASSUME PcieInit PROVE IInv
  OBVIOUS
<1> USE CardAssumption DEF PcieInit, Init
<1>1. Types
  BY InitTypes
<1>2. ModuleHolds /\ FilesClosed /\ DomainsKnown
  BY DEF ModuleHolds, FilesClosed, DomainsKnown
<1>3. Rested /\ NoIrqs
  BY DEF Rested, NoIrqs, AtRest
<1>4. OneBusy
  BY DEF OneBusy, Busy, Probing, Removing
<1>5. PciHolds
  BY DEF PciHolds, PciState
<1>6. Room
  BY DEF Room, HasRoom
<1>7. Counted
  <2>1. Holders = {} /\ MayHold = {}
    BY DEF Holders, MayHold, Holds, Removing
  <2> QED
    BY <2>1, FS_EmptySet DEF Counted
<1> QED
  BY <1>1, <1>2, <1>3, <1>4, <1>5, <1>6, <1>7 DEF IInv

-----------------------------------------------------------------------------
(* The types are kept.  A step of the driver's is one of the module, of a    *)
(* card's probe or remove, of a file or of an interrupt; the others are of   *)
(* the PCIe driver.                                                          *)
LEMMA ModuleTypes == ASSUME Types, ModuleStep, UNCHANGED pcieVars PROVE Types'
<1> USE DEF Types, config, chardev, history, pcieVars
<1>1. /\ mod' \in Going \cup {"class", "spatz", "card", "binding", "live"}
      /\ region' \in BOOLEAN /\ class' \in BOOLEAN /\ drivers' \subseteq {"card", "spatz"}
      /\ stale' \subseteq Card
  BY DEF ModuleStep, InitRegion, ClassFails, ClassCreate, RegisterSpatz, RegisterCard, InitReturns,
         Cleanup, DetachDone, Reregister, ClassDestroy, Unregion, Going
<1>2. card' \in [Card -> Places]
  BY DEF ModuleStep, InitRegion, ClassFails, ClassCreate, RegisterSpatz, RegisterCard, InitReturns,
         Cleanup, DetachDone, Reregister, ClassDestroy, Unregion, Places
<1> QED
  BY <1>1, <1>2 DEF ModuleStep

\* A step of probe or remove of a card, and what it may change.
CardAct(c) == \/ Bind(c) \/ Alloc(c) \/ RequestIrqs(c) \/ AttachIommu(c)
              \/ SetMask(c) \/ CdevAdd(c) \/ DeviceCreate(c) \/ CreateCheck(c)
              \/ RemoveStart(c) \/ FreeDomain(c) \/ DeviceDestroy(c) \/ RemoveCdev(c)
              \/ Rebind(c)

LEMMA CardFrame ==
  ASSUME NEW c \in Card, CardAct(c)
  PROVE  /\ \E p \in Places : Goto(c, p)
         /\ UNCHANGED data \/ \E v \in {"blank", "ready", "freed"} : Now(c, v)
         /\ UNCHANGED handlers \/ handlers' = [handlers EXCEPT ![c] = @ + 1]
         /\ UNCHANGED cdevs \/ CdevDel \/ cdevs' = <<c>> \o cdevs
         /\ domain' \in {domain, domain \cup {c}, domain \ {c}}
         /\ lost' \in {lost, lost \cup ({c} \cap domain)}
         /\ node' \in {node, c, NoCard} /\ (result \in BOOLEAN => result' \in BOOLEAN)
         /\ calm' \in {calm, calm /\ Busy = {}}
<1> USE DEF CardAct, Bind, Alloc, RequestIrqs, AttachIommu, SetMask, CdevAdd, DeviceCreate, CreateCheck,
           RemoveStart, FreeDomain, DeviceDestroy, RemoveCdev, Rebind,
           Fail, FailLate, history, chardev
<1>1. \E p \in Places : Goto(c, p)
  BY DEF Places, Probing, Removing
<1>2. UNCHANGED data \/ \E v \in {"blank", "ready", "freed"} : Now(c, v)
  OBVIOUS
<1>3. UNCHANGED handlers \/ handlers' = [handlers EXCEPT ![c] = @ + 1]
  OBVIOUS
<1>4. UNCHANGED cdevs \/ CdevDel \/ cdevs' = <<c>> \o cdevs
  OBVIOUS
<1>5. domain' \in {domain, domain \cup {c}, domain \ {c}} /\ node' \in {node, c, NoCard}
  OBVIOUS
<1>6. lost' \in {lost, lost \cup ({c} \cap domain)} /\ calm' \in {calm, calm /\ Busy = {}}
  OBVIOUS
<1>7. result \in BOOLEAN => result' \in BOOLEAN
  BY DEF Forget
<1> QED
  BY <1>1, <1>2, <1>3, <1>4, <1>5, <1>6, <1>7

LEMMA CardOther ==
  ASSUME Types, NEW c \in Card, CardAct(c), NEW x \in Card, x # c
  PROVE  card'[x] = card[x]
<1>1. PICK p \in Places : Goto(c, p)
  BY CardFrame
<1> QED
  BY <1>1 DEF Goto, Types

LEMMA CardTypes ==
  ASSUME Types, NEW c \in Card, CardAct(c), UNCHANGED <<config, module, stale, entered, gpio, files, panic, pcieVars>>
  PROVE  Types'
<1>1. card' \in [Card -> Places]
  <2>1. PICK p \in Places : card' = [card EXCEPT ![c] = p]
    BY CardFrame DEF Goto
  <2>2. card \in [Card -> Places]
    BY DEF Types
  <2> QED
    BY <2>1, <2>2
<1>2. data' \in [Card -> {"none", "blank", "ready", "freed"}]
  BY CardFrame DEF Types, Now
<1>3. handlers' \in [Card -> Nat]
  <2>1. UNCHANGED handlers \/ handlers' = [handlers EXCEPT ![c] = @ + 1]
    BY CardFrame
  <2>2. handlers \in [Card -> Nat]
    BY DEF Types
  <2> QED
    BY <2>1, <2>2
<1>4. cdevs' \in Seq(Card)
  <2>1. CASE cdevs' = <<c>> \o cdevs
    <3>1. <<c>> \in Seq(Card) /\ cdevs \in Seq(Card)
      BY DEF Types
    <3> QED
      BY <2>1, <3>1, ConcatProperties
  <2>2. CASE CdevDel
    BY <2>2 DEF Types, CdevDel
  <2> QED
    BY <2>1, <2>2, CardFrame DEF Types
<1>5. domain' \cup lost' \subseteq Card /\ calm' \in BOOLEAN /\ node' \in Card \cup {NoCard}
      /\ result' \in BOOLEAN
  BY CardFrame, ZenonT(60) DEF Types
<1> QED
  BY <1>1, <1>2, <1>3, <1>4, <1>5 DEF Types, config, module, pcieVars

LEMMA FileTypes == ASSUME Types, FileStep, UNCHANGED pcieVars PROVE Types'
<1>1. PICK f \in File : Open(f) \/ Close(f)
  BY DEF FileStep
<1>2. files' \in [File -> Card \cup {NoCard}]
  <2>1. Open(f) => Head(cdevs) \in Card
    BY DEF Types, Open
  <2> QED
    BY <1>1, <2>1 DEF Types, Open, Close
<1> QED
  BY <1>2 DEF FileStep, Types, config, module, chardev, irq, history, pcieVars

LEMMA IrqTypes == ASSUME Types, NEW c \in Card, IrqStep(c), UNCHANGED pcieVars PROVE Types'
  BY DEF Types, config, module, chardev, history, pcieVars, IrqStep, Raise, ServeCard, ServeOther,
         Deliver, KeepForIrq

PcieAct(c) == \/ BarRead(c) \/ Apply(c) \/ Populate(c)
              \/ FreeBlob(c) \/ Depopulate(c) \/ RemoveOverlay(c)

LEMMA PcieFrame ==
  ASSUME NEW c \in Card, PcieAct(c)
  PROVE  /\ UNCHANGED card \/ (card' = [card EXCEPT ![c] = "idle"] /\ c \in overlay) \/ Unplug(c)
         /\ \E p \in {"none", "overlay", "populate", "on", "depopulate", "unlay"} : pci' = [pci EXCEPT ![c] = p]
         /\ blob' \cup overlay' \cup populated' \subseteq blob \cup overlay \cup populated \cup {c}
<1> USE DEF PcieAct, BarRead, Apply, Populate, FreeBlob, Depopulate, RemoveOverlay, To
<1>1. UNCHANGED card \/ (card' = [card EXCEPT ![c] = "idle"] /\ c \in overlay) \/ Unplug(c)
  OBVIOUS
<1>2. \E p \in {"none", "overlay", "populate", "on", "depopulate", "unlay"} : pci' = [pci EXCEPT ![c] = p]
  OBVIOUS
<1>3. blob' \cup overlay' \cup populated' \subseteq blob \cup overlay \cup populated \cup {c}
  OBVIOUS
<1> QED
  BY <1>1, <1>2, <1>3

LEMMA PcieTypes ==
  ASSUME Types, NEW c \in Card, PcieAct(c),
         UNCHANGED <<config, module, data, domain, chardev, irq, files, panic, history>>
  PROVE  Types'
<1>1. card' \in [Card -> Places]
  <2>1. UNCHANGED card \/ \E p \in {"idle", "absent"} : card' = [card EXCEPT ![c] = p]
    BY PcieFrame DEF Unplug
  <2>2. card \in [Card -> Places] /\ {"idle", "absent"} \subseteq Places
    BY DEF Types, Places
  <2> QED
    BY <2>1, <2>2
<1>2. pci' \in [Card -> {"none", "overlay", "populate", "on", "depopulate", "unlay"}]
  BY PcieFrame DEF Types
<1>3. blob' \cup overlay' \cup populated' \subseteq Card
  BY PcieFrame DEF Types
<1> QED
  BY <1>1, <1>2, <1>3 DEF Types, config, module, chardev, irq, history

-----------------------------------------------------------------------------
(* What the module holds: only its own steps change it.                      *)
LEMMA ModuleKeeps == ASSUME Types, ModuleHolds, ModuleStep PROVE ModuleHolds'
  BY DEF Types, ModuleHolds, ModuleStep, config, InitRegion, ClassFails, ClassCreate, RegisterSpatz,
         RegisterCard, InitReturns, Cleanup, DetachDone, Reregister, ClassDestroy, Unregion, Going

(* A card is at rest unless the card driver is registered: it leaves rest    *)
(* only by Bind, which needs the driver.                                     *)
LEMMA ModuleRests == ASSUME Types, ModuleHolds, Rested, ModuleStep PROVE Rested'
<1>1. CASE RegisterCard
  BY <1>1 DEF RegisterCard, Rested
<1>2. CASE DetachDone
  BY <1>2 DEF DetachDone, Rested, AtRest
<1>3. CASE \/ InitRegion \/ ClassFails \/ ClassCreate \/ RegisterSpatz
           \/ InitReturns \/ Cleanup \/ Reregister \/ ClassDestroy \/ Unregion
  BY <1>3 DEF InitRegion, ClassFails, ClassCreate, RegisterSpatz, InitReturns, Cleanup, Reregister,
              ClassDestroy, Unregion, Rested
<1> QED
  BY <1>1, <1>2, <1>3 DEF ModuleStep

LEMMA CardRests ==
  ASSUME Types, ModuleHolds, Rested, NEW c \in Card, CardAct(c), UNCHANGED module
  PROVE  Rested'
<1> SUFFICES ASSUME mod \notin {"binding", "live", "detach"}, NEW x \in Card PROVE card'[x] \in AtRest
  BY DEF Rested, module
<1>1. card[c] \in AtRest /\ card[x] \in AtRest
  BY DEF Rested
<1>2. Rebind(c)
  BY <1>1 DEF AtRest, ModuleHolds, CardAct, Bind, Alloc, RequestIrqs, AttachIommu, SetMask, CdevAdd,
              DeviceCreate, CreateCheck, RemoveStart, FreeDomain, DeviceDestroy, RemoveCdev
<1> QED
  BY <1>1, <1>2 DEF Rebind, Goto, Types, AtRest

LEMMA PcieRests == ASSUME Types, Rested, NEW c \in Card, PcieAct(c), UNCHANGED module PROVE Rested'
<1>1. UNCHANGED card \/ card' = [card EXCEPT ![c] = "idle"] \/ Unplug(c)
  BY PcieFrame
<1> QED
  BY <1>1 DEF Rested, Types, AtRest, Unplug, module

-----------------------------------------------------------------------------
(* There are as many character devices as cards that hold one, give or take  *)
(* the dead.  A card that moves comes to hold one, or no longer does.        *)
LEMMA Countable == IsFiniteSet(Holders) /\ IsFiniteSet(MayHold)
                   /\ Cardinality(Holders) \in Nat /\ Cardinality(MayHold) \in Nat
<1>1. Holders \subseteq Card /\ MayHold \subseteq Card
  BY DEF Holders, MayHold
<1> QED
  BY <1>1, CardAssumption, FS_Subset, FS_CardinalityType

LEMMA HoldersMove ==
  ASSUME Types, NEW c \in Card, NEW p, Goto(c, p)
  PROVE  /\ Holders' = IF p \in Holds THEN Holders \cup {c} ELSE Holders \ {c}
         /\ MayHold' = IF p \in Holds \cup {"dead"} THEN MayHold \cup {c} ELSE MayHold \ {c}
  BY DEF Types, Goto, Holders, MayHold

LEMMA HoldersStay ==
  ASSUME Counted, UNCHANGED cdevs,
         \A x \in Card : card'[x] = card[x] \/ (card[x] \in AtRest /\ card'[x] \in AtRest)
  PROVE  Counted'
<1>1. Holders' = Holders /\ MayHold' = MayHold
  BY DEF Holders, MayHold, Holds, Removing, AtRest
<1> QED
  BY <1>1 DEF Counted

LEMMA CardCounts == ASSUME Types, Counted, NEW c \in Card, CardAct(c) PROVE Counted'
<1> DEFINE h == Cardinality(Holders)
           m == Cardinality(MayHold)
<1>1. h \in Nat /\ m \in Nat /\ Len(cdevs) \in Nat /\ h <= Len(cdevs) /\ Len(cdevs) <= m
  BY Countable DEF Types, Counted
<1>2. PICK p \in Places : Goto(c, p)
  BY CardFrame
<1>3. CASE p \in Holds /\ card[c] \in Holds /\ UNCHANGED cdevs
  <2>1. c \in Holders /\ c \in MayHold
    BY <1>3 DEF Holders, MayHold
  <2>2. Holders' = Holders /\ MayHold' = MayHold
    BY <1>2, <1>3, <2>1, HoldersMove
  <2> QED
    BY <1>3, <2>2 DEF Counted
<1>4. CASE p \notin Holds \cup {"dead"} /\ card[c] \notin Holds \cup {"dead"} /\ UNCHANGED cdevs
  <2>1. c \notin Holders /\ c \notin MayHold
    BY <1>4 DEF Holders, MayHold
  <2>2. Holders' = Holders /\ MayHold' = MayHold
    BY <1>2, <1>4, <2>1, HoldersMove
  <2> QED
    BY <1>4, <2>2 DEF Counted
<1>5. CASE p \in Holds /\ card[c] \notin Holds \cup {"dead"} /\ cdevs' = <<c>> \o cdevs
  <2>1. c \notin Holders /\ c \notin MayHold
    BY <1>5 DEF Holders, MayHold
  <2>2. Holders' = Holders \cup {c} /\ MayHold' = MayHold \cup {c}
    BY <1>2, <1>5, HoldersMove
  <2>3. Cardinality(Holders') = h + 1 /\ Cardinality(MayHold') = m + 1
    BY <2>1, <2>2, Countable, FS_AddElement
  <2>4. Len(cdevs') = Len(cdevs) + 1
    <3>1. <<c>> \in Seq(Card) /\ Len(<<c>>) = 1 /\ cdevs \in Seq(Card)
      BY DEF Types
    <3> QED
      BY <1>1, <1>5, <3>1, ConcatProperties
  <2> QED
    BY <1>1, <2>3, <2>4 DEF Counted
<1>6. CASE p = "dead" /\ card[c] \notin Holds \cup {"dead"} /\ UNCHANGED cdevs
  <2>1. c \notin Holders /\ c \notin MayHold /\ p \notin Holds
    BY <1>6 DEF Holders, MayHold, Holds, Removing
  <2>2. Holders' = Holders /\ MayHold' = MayHold \cup {c}
    BY <1>2, <1>6, <2>1, HoldersMove
  <2>3. Cardinality(MayHold') = m + 1
    BY <2>1, <2>2, Countable, FS_AddElement
  <2> QED
    BY <1>1, <1>6, <2>2, <2>3 DEF Counted
<1>7. CASE p = "dead" /\ card[c] \in Holds /\ UNCHANGED cdevs
  <2>1. c \in Holders /\ c \in MayHold /\ p \notin Holds
    BY <1>7 DEF Holders, MayHold, Holds, Removing
  <2>2. Holders' = Holders \ {c} /\ MayHold' = MayHold
    BY <1>2, <1>7, <2>1, HoldersMove
  <2>3. Cardinality(Holders') = h - 1
    BY <2>1, <2>2, Countable, FS_RemoveElement
  <2> QED
    BY <1>1, <1>7, <2>2, <2>3 DEF Counted
<1>8. CASE p \notin Holds \cup {"dead"} /\ card[c] \in Holds /\ CdevDel
  <2>1. c \in Holders /\ c \in MayHold
    BY <1>8 DEF Holders, MayHold
  <2>2. Holders' = Holders \ {c} /\ MayHold' = MayHold \ {c}
    BY <1>2, <1>8, HoldersMove
  <2>3. Cardinality(Holders') = h - 1 /\ Cardinality(MayHold') = m - 1
    BY <2>1, <2>2, Countable, FS_RemoveElement
  <2>4. h # 0
    BY <2>1, Countable, FS_EmptySet
  <2>5. cdevs # <<>> /\ cdevs \in Seq(Card)
    BY <1>1, <2>4 DEF Types
  <2>6. cdevs' = Tail(cdevs) /\ Len(cdevs') = Len(cdevs) - 1
    BY <1>8, <2>5, HeadTailProperties DEF CdevDel
  <2> QED
    BY <1>1, <2>3, <2>6 DEF Counted
<1>9. \/ p \in Holds /\ card[c] \in Holds /\ UNCHANGED cdevs
      \/ p \notin Holds \cup {"dead"} /\ card[c] \notin Holds \cup {"dead"} /\ UNCHANGED cdevs
      \/ p \in Holds /\ card[c] \notin Holds \cup {"dead"} /\ cdevs' = <<c>> \o cdevs
      \/ p = "dead" /\ card[c] \notin Holds \cup {"dead"} /\ UNCHANGED cdevs
      \/ p = "dead" /\ card[c] \in Holds /\ UNCHANGED cdevs
      \/ p \notin Holds \cup {"dead"} /\ card[c] \in Holds /\ CdevDel
  <2>1. card'[c] = p
    BY <1>2 DEF Types, Goto
  <2> QED
    BY <2>1 DEF CardAct, Bind, Alloc, RequestIrqs, AttachIommu, SetMask, CdevAdd, DeviceCreate,
                CreateCheck, RemoveStart, FreeDomain, DeviceDestroy, RemoveCdev, Rebind, Fail, FailLate,
                Goto, Types, Holds, Removing, chardev
<1> QED
  BY <1>3, <1>4, <1>5, <1>6, <1>7, <1>8, <1>9

-----------------------------------------------------------------------------
(* Before the card driver is registered and after it is gone there is no     *)
(* character device, and a file cannot be opened.                            *)
LEMMA NoCdevs == ASSUME Types, Rested, Counted, mod \notin {"binding", "live", "detach"} PROVE cdevs = <<>>
<1>1. MayHold = {}
  BY DEF Rested, MayHold, AtRest, Holds, Removing
<1>2. Len(cdevs) = 0
  BY <1>1, Countable, FS_EmptySet DEF Counted, Types
<1> QED
  BY <1>2 DEF Types

LEMMA FilesStayClosed ==
  ASSUME Types, Rested, Counted, FilesClosed, Next
  PROVE  FilesClosed'
<1>1. CASE ModuleStep
  BY <1>1 DEF FilesClosed, ModuleStep, InitRegion, ClassFails, ClassCreate, RegisterSpatz, RegisterCard,
              InitReturns, Cleanup, CanUnload, Unused, DetachDone, Reregister, ClassDestroy, Unregion
<1>2. CASE FileStep
  <2>1. PICK f \in File : Open(f) \/ Close(f)
    BY <1>2 DEF FileStep
  <2>2. CASE Open(f)
    BY <1>2, <2>2, NoCdevs DEF Open, Going, Types, FilesClosed, FileStep, module
  <2>3. CASE Close(f)
    BY <1>2, <2>3 DEF Close, Types, FilesClosed, FileStep, module
  <2> QED
    BY <2>1, <2>2, <2>3
<1>3. CASE UNCHANGED <<module, files>>
  BY <1>3 DEF FilesClosed, module
<1> QED
  BY <1>1, <1>2, <1>3 DEF Next, DriverStep, CardStep, IrqStep, KeepForIrq, PcieStep

(* A domain that is attached is a live card's or is lost.                    *)
LEMMA CardDomains == ASSUME Types, DomainsKnown, NEW c \in Card, CardAct(c) PROVE DomainsKnown'
<1> SUFFICES ASSUME NEW x \in domain' \ lost' PROVE card'[x] \in Attached
  BY DEF DomainsKnown
<1>1. x \in Card /\ (x \in domain => x = c \/ card[x] \in Attached)
  BY CardFrame, ZenonT(60) DEF Types, DomainsKnown
<1>2. CASE x # c
  <2>1. x \in domain \ lost
    <3>1. domain' \in {domain, domain \cup {c}, domain \ {c}} /\ lost' \in {lost, lost \cup ({c} \cap domain)}
      BY CardFrame
    <3> QED
      BY <1>2, <3>1
  <2>2. card'[x] = card[x]
    BY <1>1, <1>2, CardOther
  <2> QED
    BY <2>1, <2>2 DEF DomainsKnown
<1>3. CASE x = c
  BY <1>3 DEF CardAct, Bind, Alloc, RequestIrqs, AttachIommu, SetMask, CdevAdd, DeviceCreate,
              CreateCheck, RemoveStart, FreeDomain, DeviceDestroy, RemoveCdev, Rebind, Fail, FailLate,
              Goto, Types, DomainsKnown, Attached, history
<1> QED
  BY <1>2, <1>3

LEMMA CardNoIrqs == ASSUME Types, NoIrqs, NEW c \in Card, CardAct(c), UNCHANGED config PROVE NoIrqs'
<1> SUFFICES ASSUME platform = "occamy", NEW x \in Card PROVE handlers'[x] = 0 /\ card'[x] # "irqs"
  BY DEF NoIrqs, config
<1>1. ~RequestIrqs(c) /\ UNCHANGED handlers
  BY DEF NoIrqs, CardAct, Bind, Alloc, RequestIrqs, AttachIommu, SetMask, CdevAdd, DeviceCreate,
         CreateCheck, RemoveStart, FreeDomain, DeviceDestroy, RemoveCdev, Rebind
<1>2. \E p \in Places \ {"irqs"} : Goto(c, p)
  BY DEF NoIrqs, CardAct, Bind, Alloc, RequestIrqs, AttachIommu, SetMask, CdevAdd, DeviceCreate,
         CreateCheck, RemoveStart, FreeDomain, DeviceDestroy, RemoveCdev, Rebind, Fail, FailLate,
         Places, Probing, Removing
<1> QED
  BY <1>1, <1>2 DEF NoIrqs, Goto, Types

-----------------------------------------------------------------------------
(* As long as no two probes or removals overlap.                             *)
BusySteps == Probing \cup Removing
AlreadyBusy(c) == card[c] \in BusySteps

LEMMA CardBusy ==
  ASSUME Types, OneBusy, NEW c \in Card, CardAct(c), calm'
  PROVE  \A a, b \in Busy' : a = b
<1>1. calm
  BY CardFrame DEF Types
<1>2. \A a, b \in Busy : a = b
  BY <1>1 DEF OneBusy
<1>3. PICK p \in Places : Goto(c, p)
  BY CardFrame
<1>4. p \in BusySteps => c \in Busy \/ Busy = {}
  <2>1. card'[c] = p
    BY <1>3 DEF Types, Goto
  <2>2. card[c] \in BusySteps => c \in Busy
    BY DEF Busy, BusySteps
  <2>3. CASE Bind(c) \/ RemoveStart(c)
    BY <2>3 DEF Bind, RemoveStart
  <2>4. CASE Rebind(c)
    BY <2>1, <2>4 DEF Rebind, Goto, Types, BusySteps, Probing, Removing
  <2>5. CASE ~(Bind(c) \/ RemoveStart(c) \/ Rebind(c))
    <3>1. card[c] \in BusySteps
      BY <2>5 DEF CardAct, Alloc, RequestIrqs, AttachIommu, SetMask, CdevAdd, DeviceCreate, CreateCheck,
                  FreeDomain, DeviceDestroy, RemoveCdev, BusySteps, Probing, Removing
    <3> QED
      BY <2>2, <3>1
  <2> QED
    BY <2>3, <2>4, <2>5
<1>5. Busy' \subseteq Busy \cup (IF p \in BusySteps THEN {c} ELSE {})
  BY <1>3 DEF Busy, BusySteps, Goto, Types
<1> QED
  BY <1>2, <1>4, <1>5

LEMMA CardNode ==
  ASSUME Types, OneBusy, NEW c \in Card, CardAct(c), calm', node' # NoCard
  PROVE  /\ card'[node'] \in {"check", "bound", "domain", "destroy", "dead"}
         /\ card'[node'] = "check" => result'
<1> USE CardAssumption
<1>1. calm /\ card'[c] # card[c]
  <2>1. calm
    BY CardFrame DEF Types
  <2> QED
    BY <2>1, ZenonT(60) DEF CardAct, Bind, Alloc, RequestIrqs, AttachIommu, SetMask, CdevAdd, DeviceCreate, CreateCheck,
           RemoveStart, FreeDomain, DeviceDestroy, RemoveCdev, Rebind, Fail, FailLate, Goto, Types
<1>2. CASE DeviceCreate(c)
  <2>1. CASE node = NoCard /\ node' = c /\ result'
    BY <1>2, <2>1 DEF DeviceCreate, Goto, Types
  <2>2. CASE node' = node /\ node # NoCard
    <3>1. c \in Busy /\ node \in Card /\ node # c
      BY <1>1, <1>2, <2>2 DEF DeviceCreate, Busy, Probing, OneBusy, Types
    <3>2. node \notin Busy
      BY <1>1, <3>1 DEF OneBusy
    <3>3. card[node] \in {"bound", "dead"}
      BY <1>1, <2>2, <3>1, <3>2 DEF OneBusy, Busy, Probing, Removing
    <3>4. card'[node] = card[node]
      BY <1>2, <3>1 DEF DeviceCreate, Goto, Types
    <3> QED
      BY <2>2, <3>3, <3>4
  <2> QED
    BY <1>2, <2>1, <2>2 DEF DeviceCreate
<1>3. CASE DeviceDestroy(c)
  BY <1>3 DEF DeviceDestroy
<1>4. CASE ~DeviceCreate(c) /\ ~DeviceDestroy(c)
  <2>1. node' = node /\ (result => result')
    BY <1>4 DEF CardAct, Bind, Alloc, RequestIrqs, AttachIommu, SetMask, CdevAdd, CreateCheck,
                RemoveStart, FreeDomain, RemoveCdev, Rebind, Forget, chardev, Types
  <2>2. node \in Card /\ card[node] \in {"check", "bound", "domain", "destroy", "dead"}
        /\ (card[node] = "check" => result)
    BY <1>1, <2>1 DEF OneBusy, Types
  <2>3. CASE node # c
    <3>1. card'[node] = card[node]
      BY <2>2, <2>3, CardOther
    <3> QED
      BY <2>1, <2>2, <3>1
  <2>4. CASE node = c
    <3>1. CreateCheck(c) \/ RemoveStart(c) \/ FreeDomain(c)
      BY <1>4, <2>2, <2>4 DEF CardAct, Bind, Alloc, RequestIrqs, AttachIommu, SetMask, CdevAdd,
                              RemoveCdev, Rebind
    <3> QED
      BY <2>1, <2>2, <2>4, <3>1 DEF CreateCheck, RemoveStart, FreeDomain, Goto, Types
  <2> QED
    BY <2>3, <2>4
<1> QED
  BY <1>2, <1>3, <1>4

LEMMA CardOneBusy == ASSUME Types, OneBusy, NEW c \in Card, CardAct(c) PROVE OneBusy'
  BY CardBusy, CardNode DEF OneBusy

\* Whoever else moves cards moves those at rest.
LEMMA OthersOneBusy ==
  ASSUME Types, OneBusy, UNCHANGED <<chardev, calm>>,
         \A x \in Card : card'[x] = card[x] \/ (card[x] \in AtRest /\ card'[x] \in AtRest)
  PROVE  OneBusy'
<1> USE CardAssumption
<1>1. Busy' = Busy
  BY DEF Busy, Probing, Removing, AtRest
<1> QED
  BY <1>1 DEF OneBusy, Types, AtRest, chardev

-----------------------------------------------------------------------------
(* The PCIe driver's part: a card is there only between its populate and     *)
(* its removal, and the card's driver neither makes one nor takes it away.   *)
LEMMA PcieHolds ==
  ASSUME Types, PciHolds, NEW c \in slots, PcieAct(c), UNCHANGED config
  PROVE  PciHolds'
<1>1. slots \subseteq Card /\ c \in Card
  BY DEF PciHolds
<1> SUFFICES ASSUME NEW x \in slots PROVE PciState(x)'
  BY <1>1 DEF PciHolds, config
<1>2. PciState(x) /\ PciState(c) /\ x \in Card
  BY <1>1 DEF PciHolds
<1>3. CASE x # c
  <2>1. card'[x] = card[x] /\ pci'[x] = pci[x]
    BY <1>1, <1>2, <1>3 DEF Types, PcieAct, BarRead, Apply, Populate, FreeBlob, Depopulate, RemoveOverlay,
                            Unplug, To
  <2>2. (x \in blob' <=> x \in blob) /\ (x \in overlay' <=> x \in overlay)
        /\ (x \in populated' <=> x \in populated)
    BY <1>3 DEF PcieAct, BarRead, Apply, Populate, FreeBlob, Depopulate, RemoveOverlay
  <2> QED
    BY <1>2, <2>1, <2>2 DEF PciState
<1>4. CASE x = c
  BY <1>1, <1>2, <1>4 DEF PciState, Types, PcieAct, BarRead, Apply, Populate, FreeBlob, Depopulate,
                          RemoveOverlay, Unplug, To
<1> QED
  BY <1>3, <1>4

LEMMA DriverPciHolds ==
  ASSUME Types, PciHolds, UNCHANGED <<slots, pcieVars>>,
         \A x \in Card : card'[x] = "absent" <=> card[x] = "absent"
  PROVE  PciHolds'
  BY DEF PciHolds, PciState, pcieVars

LEMMA CardAbsent ==
  ASSUME Types, NEW c \in Card, CardAct(c), NEW x \in Card
  PROVE  card'[x] = "absent" <=> card[x] = "absent"
<1>1. CASE x # c
  BY <1>1, CardOther
<1>2. CASE x = c
  BY <1>2 DEF Types, CardAct, Bind, Alloc, RequestIrqs, AttachIommu, SetMask, CdevAdd, DeviceCreate,
              CreateCheck, RemoveStart, FreeDomain, DeviceDestroy, RemoveCdev, Rebind, Fail, FailLate, Goto
<1> QED
  BY <1>1, <1>2

(* There is room for the handler of a probe to come.                         *)
LEMMA CardRoom ==
  ASSUME Types, Rested, PciHolds, Room, NEW c \in Card, CardAct(c), UNCHANGED <<config, module, pcieVars>>,
         Rested'
  PROVE  Room'
<1> USE CardAssumption
<1> SUFFICES ASSUME NEW x \in Card
             PROVE  /\ handlers'[x] <= MaxHandlers
                    /\ card'[x] \in {"idle", "alloc", "irqs"} => HasRoom(x)'
                    /\ card'[x] = "tried" /\ mod' \in {"class", "spatz", "card"} => HasRoom(x)'
                    /\ x \in slots' /\ pci'[x] \in {"overlay", "populate"} => HasRoom(x)'
  BY DEF Room
<1>1. CASE x # c
  <2>1. card'[x] = card[x] /\ handlers'[x] = handlers[x]
    <3>1. UNCHANGED handlers \/ handlers' = [handlers EXCEPT ![c] = @ + 1]
      BY CardFrame
    <3> QED
      BY <1>1, <3>1, CardOther DEF Types
  <2> QED
    BY <2>1 DEF Room, HasRoom, config, module, pcieVars
<1>2. CASE x = c /\ RequestIrqs(c)
  <2>1. card[c] = "irqs" /\ handlers[c] < MaxHandlers /\ handlers[c] \in Nat
    BY <1>2 DEF RequestIrqs, Room, HasRoom, Types
  <2>2. handlers'[c] \in {handlers[c], handlers[c] + 1} /\ card'[c] \in {"iommu", "dead"}
    BY <1>2 DEF RequestIrqs, Goto, Types
  <2>3. ~(c \in slots /\ pci[c] \in {"overlay", "populate"})
    BY <2>1 DEF PciHolds, PciState
  <2> QED
    BY <1>2, <2>1, <2>2, <2>3 DEF HasRoom, config, pcieVars
<1>3. CASE x = c /\ ~RequestIrqs(c)
  <2>1. UNCHANGED handlers
    BY <1>3 DEF CardAct, Bind, Alloc, AttachIommu, SetMask, CdevAdd, DeviceCreate, CreateCheck,
                RemoveStart, FreeDomain, DeviceDestroy, RemoveCdev, Rebind
  <2>2. card'[c] \in {"idle", "alloc", "irqs"} => HasRoom(c)
    BY <1>3 DEF CardAct, Bind, Alloc, AttachIommu, SetMask, CdevAdd, DeviceCreate, CreateCheck,
                RemoveStart, FreeDomain, DeviceDestroy, RemoveCdev, Rebind, Fail, FailLate, Goto, Types,
                Room, HasRoom
  <2>3. card'[c] # "tried" \/ mod \notin {"class", "spatz", "card"}
    BY <1>3 DEF Rested, AtRest, CardAct, Bind, Alloc, AttachIommu, SetMask, CdevAdd, DeviceCreate,
                CreateCheck, RemoveStart, FreeDomain, DeviceDestroy, RemoveCdev, Rebind, Goto, Types
  <2> QED
    BY <1>3, <2>1, <2>2, <2>3 DEF Room, HasRoom, config, module, pcieVars
<1> QED
  BY <1>1, <1>2, <1>3

LEMMA ModuleRoom ==
  ASSUME Types, Rested, Room, ModuleStep, UNCHANGED pcieVars
  PROVE  Room'
<1>1. UNCHANGED <<slots, handlers, pci>>
  BY DEF ModuleStep, config, pcieVars
<1>2. CASE InitRegion
  BY <1>1, <1>2 DEF InitRegion, Room, HasRoom
<1>3. CASE RegisterCard
  BY <1>1, <1>3 DEF RegisterCard, Room, HasRoom
<1>4. CASE ~InitRegion /\ ~RegisterCard
  <2>1. UNCHANGED card /\ (mod' \in {"class", "spatz", "card"} => mod \in {"class", "spatz", "card"})
    BY <1>4 DEF ModuleStep, ClassFails, ClassCreate, RegisterSpatz, InitReturns, Cleanup, DetachDone,
                Reregister, ClassDestroy, Unregion
  <2> QED
    BY <1>1, <2>1 DEF Room, HasRoom
<1> QED
  BY <1>2, <1>3, <1>4

LEMMA PcieRoom ==
  ASSUME Types, PciHolds, Room, NEW c \in slots, PcieAct(c), UNCHANGED <<config, module, irq>>
  PROVE  Room'
<1>1. slots \subseteq Card /\ c \in Card /\ UNCHANGED <<slots, mod, handlers>>
  BY DEF PciHolds, config, module, irq
<1> SUFFICES ASSUME NEW x \in Card
             PROVE  /\ handlers[x] <= MaxHandlers
                    /\ card'[x] \in {"idle", "alloc", "irqs"} => HasRoom(x)
                    /\ card'[x] = "tried" /\ mod \in {"class", "spatz", "card"} => HasRoom(x)
                    /\ x \in slots /\ pci'[x] \in {"overlay", "populate"} => HasRoom(x)
  BY <1>1 DEF Room, HasRoom
<1>2. CASE x # c
  <2>1. card'[x] = card[x] /\ pci'[x] = pci[x]
    BY <1>1, <1>2 DEF Types, PcieAct, BarRead, Apply, Populate, FreeBlob, Depopulate, RemoveOverlay,
                      Unplug, To
  <2> QED
    BY <2>1 DEF Room
<1>3. CASE x = c
  BY <1>1, <1>3 DEF Types, Room, HasRoom, PcieAct, BarRead, Apply, Populate, FreeBlob, Depopulate,
                    RemoveOverlay, Unplug, To
<1> QED
  BY <1>2, <1>3

-----------------------------------------------------------------------------
(* The invariant is kept.                                                    *)
\* What the driver core and the PCIe driver do to a card at rest.
RestMoves == \A x \in Card : card'[x] = card[x] \/ (card[x] \in AtRest /\ card'[x] \in AtRest)

LEMMA AtRestMoves ==
  ASSUME Types, DomainsKnown, NoIrqs, RestMoves, UNCHANGED <<platform, domain, lost, handlers>>
  PROVE  DomainsKnown' /\ NoIrqs'
  BY DEF Types, RestMoves, DomainsKnown, NoIrqs, Attached, AtRest

LEMMA ModuleHoldsInv ==
  ASSUME IInv, ModuleStep, UNCHANGED pcieVars, FilesClosed'
  PROVE  IInv'
<1> USE DEF IInv
<1>1. RestMoves /\ \A x \in Card : card'[x] = "absent" <=> card[x] = "absent"
  BY DEF RestMoves, Types, AtRest, ModuleStep, InitRegion, ClassFails, ClassCreate, RegisterSpatz,
         RegisterCard, InitReturns, Cleanup, DetachDone, Reregister, ClassDestroy, Unregion
<1>2. UNCHANGED <<slots, platform, domain, lost, handlers, chardev, calm>>
  BY DEF ModuleStep, config, history
<1>3. Types' /\ ModuleHolds' /\ Rested' /\ Room'
  BY ModuleTypes, ModuleKeeps, ModuleRests, ModuleRoom
<1>4. Counted' /\ OneBusy'
  BY <1>1, <1>2, HoldersStay, OthersOneBusy DEF RestMoves, chardev
<1>5. DomainsKnown' /\ NoIrqs' /\ PciHolds'
  BY <1>1, <1>2, AtRestMoves, DriverPciHolds
<1> QED
  BY <1>3, <1>4, <1>5

LEMMA CardHoldsInv ==
  ASSUME IInv, NEW c \in Card, CardAct(c), FilesClosed',
         UNCHANGED <<config, module, stale, entered, gpio, files, panic, pcieVars>>
  PROVE  IInv'
<1> USE DEF IInv
<1>1. Types' /\ Counted' /\ DomainsKnown' /\ OneBusy'
  BY CardTypes, CardCounts, CardDomains, CardOneBusy
<1>2. ModuleHolds'
  BY DEF ModuleHolds, module, config
<1>3. Rested' /\ NoIrqs'
  BY CardRests, CardNoIrqs
<1>4. PciHolds'
  BY CardAbsent, DriverPciHolds DEF config
<1>5. Room'
  BY <1>3, CardRoom
<1> QED
  BY <1>1, <1>2, <1>3, <1>4, <1>5

LEMMA PcieHoldsInv ==
  ASSUME IInv, NEW c \in slots, PcieAct(c), FilesClosed',
         UNCHANGED <<config, module, data, domain, chardev, irq, files, panic, history>>
  PROVE  IInv'
<1> USE DEF IInv
<1>1. c \in Card
  BY DEF PciHolds
<1>2. RestMoves
  <2>1. UNCHANGED card \/ (card' = [card EXCEPT ![c] = "idle"] /\ c \in overlay) \/ Unplug(c)
    BY <1>1, PcieFrame
  <2>2. card' = [card EXCEPT ![c] = "idle"] => card[c] = "absent" \/ UNCHANGED card
    BY <1>1 DEF PciHolds, PciState, Types, PcieAct, BarRead, Apply, Populate, FreeBlob, Depopulate,
                RemoveOverlay, Unplug, To
  <2> QED
    BY <1>1, <2>1, <2>2 DEF RestMoves, Unplug, Types, AtRest
<1>3. Types' /\ Rested' /\ Room' /\ PciHolds'
  BY <1>1, PcieTypes, PcieRests, PcieRoom, PcieHolds
<1>4. ModuleHolds'
  BY DEF ModuleHolds, module, config
<1>5. Counted' /\ OneBusy'
  BY <1>2, HoldersStay, OthersOneBusy DEF RestMoves, chardev, history
<1>6. DomainsKnown' /\ NoIrqs'
  BY <1>2, AtRestMoves DEF config, irq, history
<1> QED
  BY <1>3, <1>4, <1>5, <1>6

\* Files, interrupts and steps of nobody leave all but files alone.
LEMMA RestHoldsInv ==
  ASSUME IInv, Types', FilesClosed',
         UNCHANGED <<config, module, card, data, domain, chardev, handlers, history, pcieVars>>
  PROVE  IInv'
<1> USE DEF IInv
<1>1. ModuleHolds' /\ Rested' /\ DomainsKnown' /\ NoIrqs'
  BY DEF config, module, history, ModuleHolds, Rested, DomainsKnown, NoIrqs
<1>2. Counted' /\ OneBusy'
  BY DEF chardev, history, Counted, Holders, MayHold, OneBusy, Busy
<1>3. PciHolds' /\ Room'
  BY DEF config, module, pcieVars, PciHolds, PciState, Room, HasRoom
<1> QED
  BY <1>1, <1>2, <1>3

LEMMA StepHolds == IInv /\ [Next]_allVars => IInv'
<1> SUFFICES ASSUME IInv, [Next]_allVars PROVE IInv'
  OBVIOUS
<1>0. /\ Types /\ Rested /\ Counted /\ FilesClosed /\ slots \subseteq Card
  BY DEF IInv, PciHolds
<1>1. CASE UNCHANGED allVars
  <2>1. Types' /\ FilesClosed'
    BY <1>0, <1>1 DEF Types, FilesClosed, allVars, vars, config, module, chardev, irq, history, pcieVars
  <2> QED
    BY <1>1, <2>1, RestHoldsInv DEF allVars, vars, irq
<1>2. CASE Next
  <2>0. FilesClosed'
    BY <1>0, <1>2, FilesStayClosed
  <2>1. CASE ModuleStep /\ UNCHANGED pcieVars
    BY <2>0, <2>1, ModuleHoldsInv
  <2>2. CASE CardStep /\ UNCHANGED pcieVars
    <3>1. PICK c \in Card : CardAct(c)
      BY <2>2 DEF CardStep, CardAct
    <3> QED
      BY <2>0, <2>2, <3>1, CardHoldsInv DEF CardStep
  <2>3. CASE FileStep /\ UNCHANGED pcieVars
    BY <1>0, <2>0, <2>3, FileTypes, RestHoldsInv DEF FileStep, irq
  <2>4. CASE (\E c \in Card : IrqStep(c)) /\ UNCHANGED pcieVars
    <3>1. PICK c \in Card : IrqStep(c)
      BY <2>4
    <3>2. UNCHANGED handlers /\ KeepForIrq
      BY <3>1 DEF IrqStep, Raise, ServeCard, ServeOther, Deliver
    <3>3. Types'
      BY <1>0, <2>4, <3>1, IrqTypes
    <3> QED
      BY <2>0, <2>4, <3>2, <3>3, RestHoldsInv DEF KeepForIrq
  <2>5. CASE PcieStep
    <3>1. PICK c \in slots : PcieAct(c)
      BY <2>5 DEF PcieStep, PcieAct
    <3> QED
      BY <2>0, <2>5, <3>1, PcieHoldsInv DEF PcieStep
  <2> QED
    BY <1>2, <2>1, <2>2, <2>3, <2>4, <2>5 DEF Next, DriverStep
<1> QED
  BY <1>1, <1>2

LEMMA Invariant == Spec => []IInv
<1> QED
  BY InitHolds, StepHolds, PTL DEF Spec

-----------------------------------------------------------------------------
(* The types; every card has room for the handlers its probes request, and   *)
(* there are no more character devices than cards.                           *)
THEOREM TypeCorrect == Spec => []TypeOK
<1>1. IInv => TypeOK
  <2> SUFFICES ASSUME IInv PROVE TypeOK
    OBVIOUS
  <2>1. Len(cdevs) <= Cardinality(Card)
    <3>1. MayHold \in SUBSET Card
      BY DEF MayHold
    <3>2. Cardinality(MayHold) <= Cardinality(Card) /\ Cardinality(Card) \in Nat
      BY <3>1, CardAssumption, FS_Subset, FS_CardinalityType
    <3> QED
      BY <3>2, Countable DEF IInv, Counted, Types
  <2>2. handlers \in [Card -> 0..MaxHandlers]
    BY CardAssumption DEF IInv, Types, Room
  <2> QED
    BY <2>1, <2>2 DEF IInv, Types, TypeOK, Places
<1> QED
  BY <1>1, Invariant, PTL

(* card_platform_driver_cleanup and the removals before it give back all     *)
(* that init and probe acquired but what they are known to leave, for any    *)
(* number of cards and files and whatever failed in between.                 *)
THEOREM Unloads == Spec => []UnloadsClean
<1>1. IInv => UnloadsClean
  <2> SUFFICES ASSUME IInv, mod = "out" PROVE UnloadsClean
    BY DEF UnloadsClean
  <2>1. cdevs = <<>>
    BY NoCdevs DEF IInv
  <2>2. \A c \in Card : card[c] \in AtRest
    BY DEF IInv, Rested
  <2>3. calm => node = NoCard
    BY <2>2 DEF IInv, OneBusy, Types, AtRest
  <2>4. domain \subseteq lost
    BY <2>2 DEF IInv, DomainsKnown, Types, AtRest, Attached
  <2>5. ~region /\ ~class /\ "card" \notin drivers /\ \A f \in File : files[f] = NoCard
    BY DEF IInv, ModuleHolds, FilesClosed
  <2>6. platform = "occamy" => drivers = {} /\ \A c \in Card : handlers[c] = 0
    BY <2>5 DEF IInv, ModuleHolds, NoIrqs
  <2> QED
    BY <2>1, <2>3, <2>4, <2>5, <2>6 DEF UnloadsClean
<1> QED
  BY <1>1, Invariant, PTL

(* hero_pci_remove leaves nothing of the card, whatever failed in its probe, *)
(* and takes the devices away before the nodes they came from.               *)
THEOREM PcieGivesBack == Spec => []PciGivesBack
<1>1. IInv => PciGivesBack
  BY DEF IInv, PciHolds, PciState, PciGivesBack
<1> QED
  BY <1>1, Invariant, PTL

-----------------------------------------------------------------------------
(* An open of the device node reaches a card whose data are complete, for   *)
(* any number of cards, as long as probes and removals do not overlap.      *)
Listed(c) == \E i \in DOMAIN cdevs : cdevs[i] = c

\* Which cards have a character device, and which of them the node.
Shape == /\ \A c \in Card : card[c] \in {"bound", "domain", "destroy"} => node = c
         /\ \A c \in Card : card[c] = "del" => node = NoCard /\ Listed(c)
         /\ \A c \in Card : card[c] = "check" /\ result => node = c
         /\ \A c \in Card : card[c] \in {"create", "check"} => cdevs # <<>> /\ cdevs[1] = c
         /\ node # NoCard => Listed(node) /\ data[node] = "ready"
         /\ \A i \in DOMAIN cdevs : card[cdevs[i]] \in Holds \/ cdevs[i] = node
         /\ \A i, j \in DOMAIN cdevs : cdevs[i] = cdevs[j] => i = j

\* The data of a card are complete from cdev_add to the end of its removal.
Complete == \A c \in Card : card[c] \in {"cdev"} \cup Holds => data[c] = "ready"

OInv == (calm => Shape) /\ Complete

-----------------------------------------------------------------------------
LEMMA InitOpen == PcieInit => OInv
  BY CardAssumption DEF PcieInit, Init, OInv, Shape, Complete, Listed, Holds, Removing

LEMMA DataOther ==
  ASSUME Types, NEW c \in Card, CardAct(c), NEW x \in Card, x # c
  PROVE  data'[x] = data[x]
<1>1. UNCHANGED data \/ \E v \in {"blank", "ready", "freed"} : Now(c, v)
  BY CardFrame
<1>2. data \in [Card -> {"none", "blank", "ready", "freed"}]
  BY DEF Types
<1> QED
  BY <1>1, <1>2 DEF Now

LEMMA CardComplete == ASSUME Types, Complete, NEW c \in Card, CardAct(c) PROVE Complete'
<1> SUFFICES ASSUME NEW x \in Card, card'[x] \in {"cdev"} \cup Holds PROVE data'[x] = "ready"
  BY DEF Complete
<1>1. CASE x # c
  <2>1. card'[x] = card[x]
    BY <1>1, CardOther
  <2>2. data'[x] = data[x]
    BY <1>1, DataOther
  <2> QED
    BY <2>1, <2>2 DEF Complete
<1>2. CASE x = c
  BY <1>2 DEF Complete, Holds, Removing, CardAct, Bind, Alloc, RequestIrqs, AttachIommu, SetMask, CdevAdd,
              DeviceCreate, CreateCheck, RemoveStart, FreeDomain, DeviceDestroy, RemoveCdev, Rebind,
              Fail, FailLate, Goto, Now, Types
<1> QED
  BY <1>1, <1>2

\* Steps of probe and remove that leave the character devices and the node alone.
Quietly(c) == \/ Bind(c) \/ Alloc(c) \/ RequestIrqs(c) \/ AttachIommu(c) \/ SetMask(c)
              \/ RemoveStart(c) \/ FreeDomain(c) \/ Rebind(c)

LEMMA QuietShape ==
  ASSUME Types, OneBusy, calm, Shape, NEW c \in Card, Quietly(c)
  PROVE  Shape'
<1>1. UNCHANGED <<cdevs, node, result>>
  BY DEF Quietly, Bind, Alloc, RequestIrqs, AttachIommu, SetMask, RemoveStart, FreeDomain, Rebind, chardev
<1>2. CardAct(c)
  BY DEF Quietly, CardAct
<1>3. \A x \in Card \ {c} : card'[x] = card[x] /\ data'[x] = data[x]
  BY <1>2, CardOther, DataOther
<1>4. CASE card[c] \in {"idle", "alloc", "irqs", "iommu", "mask", "tried"}
  <2>1. c # node
    BY <1>4, CardAssumption DEF OneBusy
  <2>2. \A i \in DOMAIN cdevs : cdevs[i] # c /\ cdevs[i] \in Card
    BY <1>4, <2>1 DEF Shape, Holds, Removing, Types
  <2>3. card'[c] \notin Holds
    BY <1>4 DEF Quietly, Bind, Alloc, RequestIrqs, AttachIommu, SetMask, RemoveStart, FreeDomain, Rebind,
                Fail, Goto, Types, Holds, Removing
  <2>4. node # NoCard => Listed(node)' /\ data'[node] = "ready"
    BY <1>1, <1>3, <2>1 DEF Shape, Listed, Types
  <2>5. \A i \in DOMAIN cdevs : card'[cdevs[i]] \in Holds \/ cdevs[i] = node
    BY <1>3, <2>2 DEF Shape
  <2> QED
    BY <1>1, <1>3, <2>3, <2>4, <2>5 DEF Shape, Listed, Holds, Removing
<1>5. CASE card[c] \in {"bound", "domain"}
  <2>1. node = c /\ UNCHANGED data /\ card'[c] \in {"domain", "destroy", "dead"}
    BY <1>5 DEF Shape, Quietly, Bind, Alloc, RequestIrqs, AttachIommu, SetMask, RemoveStart, FreeDomain,
                Rebind, Goto, Types
  <2>2. \A i \in DOMAIN cdevs : cdevs[i] \in Card
    BY DEF Types
  <2>3. \A i \in DOMAIN cdevs : card'[cdevs[i]] \in Holds \/ cdevs[i] = node
    BY <1>3, <2>1, <2>2 DEF Shape
  <2> QED
    BY <1>1, <1>3, <2>1, <2>3 DEF Shape, Listed
<1> QED
  BY <1>4, <1>5 DEF Quietly, Bind, Alloc, RequestIrqs, AttachIommu, SetMask, RemoveStart, FreeDomain, Rebind

\* Without overlaps the card whose step it is is the busy one.
LEMMA AloneBusy ==
  ASSUME Types, OneBusy, calm, NEW c \in Card, card[c] \in BusySteps,
         NEW x \in Card, x # c
  PROVE  card[x] \notin BusySteps
  BY DEF OneBusy, Busy, BusySteps

LEMMA AddShape ==
  ASSUME Types, OneBusy, calm, Shape, NEW c \in Card, CdevAdd(c)
  PROVE  Shape'
<1>1. card[c] = "cdev" /\ UNCHANGED <<node, result>> /\ CardAct(c)
  BY DEF CdevAdd, CardAct
<1>2. \A x \in Card \ {c} : card'[x] = card[x] /\ data'[x] = data[x] /\ card[x] \notin BusySteps
  BY <1>1, CardOther, DataOther, AloneBusy DEF BusySteps, Probing
<1>3. c # node
  BY <1>1, CardAssumption DEF OneBusy
<1>4. \A i \in DOMAIN cdevs : cdevs[i] # c /\ cdevs[i] \in Card
  BY <1>1, <1>3 DEF Shape, Holds, Removing, Types
<1>5. CASE FailLate(c) /\ UNCHANGED cdevs
  <2>1. card'[c] = "tried"
    BY <1>5 DEF FailLate, Fail, Goto, Types
  <2>2. node # NoCard => Listed(node)' /\ data'[node] = "ready"
    BY <1>1, <1>2, <1>3, <1>5 DEF Shape, Listed, Types
  <2>3. \A i \in DOMAIN cdevs : card'[cdevs[i]] \in Holds \/ cdevs[i] = node
    BY <1>2, <1>4 DEF Shape
  <2>4. UNCHANGED <<node, result, cdevs>> /\ \A i \in DOMAIN cdevs : cdevs[i] # c
    BY <1>1, <1>4, <1>5
  <2> QED
    BY <1>2, <2>1, <2>2, <2>3, <2>4 DEF Shape, Listed
<1>6. CASE cdevs' = <<c>> \o cdevs /\ card' = [card EXCEPT ![c] = "create"] /\ UNCHANGED data
  <2>1. card'[c] = "create"
    BY <1>6 DEF Types
  <2>2. /\ DOMAIN cdevs' = 1..Len(cdevs) + 1 /\ DOMAIN cdevs = 1..Len(cdevs)
        /\ cdevs'[1] = c /\ cdevs' # <<>> /\ Len(cdevs) \in Nat
        /\ \A i \in DOMAIN cdevs' : i # 1 => i - 1 \in DOMAIN cdevs /\ cdevs'[i] = cdevs[i - 1]
        /\ \A i \in DOMAIN cdevs : i + 1 \in DOMAIN cdevs' /\ cdevs'[i + 1] = cdevs[i]
    BY <1>6 DEF Types
  <2>3. \A x \in Card : Listed(x) => Listed(x)'
    BY <2>2 DEF Listed
  <2>4. \A i \in DOMAIN cdevs' : card'[cdevs'[i]] \in Holds \/ cdevs'[i] = node
    BY <1>2, <1>4, <2>1, <2>2 DEF Shape, Holds
  <2>5. \A i, j \in DOMAIN cdevs' : cdevs'[i] = cdevs'[j] => i = j
    <3> SUFFICES ASSUME NEW i \in DOMAIN cdevs', NEW j \in DOMAIN cdevs', cdevs'[i] = cdevs'[j]
                 PROVE  i = j
      OBVIOUS
    <3>1. i = 1 <=> j = 1
      BY <1>4, <2>2
    <3>2. CASE i # 1
      BY <2>2, <3>1, <3>2 DEF Shape
    <3> QED
      BY <3>1, <3>2
  <2>6. \A x \in Card : card'[x] \in {"create", "check"} => x = c
    BY <1>2 DEF BusySteps, Probing
  <2>7. \A x \in Card : card'[x] # "del"
    BY <1>2, <2>1 DEF BusySteps, Removing
  <2>8. \A x \in Card : card'[x] # "check"
    BY <1>2, <2>1 DEF BusySteps, Probing
  <2>9. \A x \in Card : card'[x] \in {"bound", "domain", "destroy"} => node = x
    BY <1>2, <2>1 DEF Shape
  <2>10. node # NoCard => Listed(node)' /\ data[node] = "ready"
    BY <1>1, <1>3, <2>3 DEF Shape, Types
  <2> QED
    BY <1>1, <1>6, <2>2, <2>4, <2>5, <2>6, <2>7, <2>8, <2>9, <2>10 DEF Shape
<1> QED
  BY <1>5, <1>6 DEF CdevAdd, Goto

LEMMA CreateShape ==
  ASSUME Types, OneBusy, calm, Shape, Complete, NEW c \in Card, DeviceCreate(c)
  PROVE  Shape'
<1>1. card[c] = "create" /\ UNCHANGED <<cdevs, data>> /\ CardAct(c) /\ data[c] = "ready"
  BY DEF DeviceCreate, CardAct, Complete, Holds
<1>2. \A x \in Card \ {c} : card'[x] = card[x] /\ card[x] \notin BusySteps
  BY <1>1, CardOther, AloneBusy DEF BusySteps, Probing
<1>3. card'[c] = "check" /\ cdevs # <<>> /\ cdevs[1] = c /\ 1 \in DOMAIN cdevs
  BY <1>1 DEF DeviceCreate, Goto, Types, Shape
<1>4. \A i \in DOMAIN cdevs : cdevs[i] \in Card
  BY DEF Types
<1>5. \A x \in Card : /\ card'[x] \in {"bound", "domain", "destroy"} => node = x
                      /\ card'[x] # "del"
                      /\ card'[x] \in {"create", "check"} => x = c
  BY <1>2, <1>3 DEF Shape, BusySteps, Probing, Removing
<1>6. \A i \in DOMAIN cdevs : card'[cdevs[i]] \in Holds \/ cdevs[i] = node
  BY <1>2, <1>3, <1>4 DEF Shape, Holds
<1>7. CASE node = NoCard /\ node' = c /\ result'
  <2>1. \A x \in Card : card'[x] \notin {"bound", "domain", "destroy"}
    BY <1>5, <1>7, CardAssumption
  <2>2. \A i \in DOMAIN cdevs : card'[cdevs[i]] \in Holds
    BY <1>4, <1>6, <1>7, CardAssumption
  <2> QED
    BY <1>1, <1>3, <1>5, <1>7, <2>1, <2>2 DEF Shape, Listed
<1>8. CASE node' = node /\ ~result'
  BY <1>1, <1>3, <1>5, <1>6, <1>8 DEF Shape, Listed
<1> QED
  BY <1>7, <1>8 DEF DeviceCreate

\* cdev_del takes the first entry away and leaves the others in their order.
LEMMA DelEntries ==
  ASSUME Types, CdevDel, cdevs # <<>>
  PROVE  /\ \A i \in DOMAIN cdevs' : i \in Nat \ {0} /\ i + 1 \in DOMAIN cdevs /\ cdevs'[i] = cdevs[i + 1]
         /\ \A i \in DOMAIN cdevs : i \in Nat /\ (i # 1 => i - 1 \in DOMAIN cdevs' /\ cdevs'[i - 1] = cdevs[i])
  BY DEF Types, CdevDel

LEMMA CheckShape ==
  ASSUME Types, OneBusy, calm, Shape, NEW c \in Card, CreateCheck(c)
  PROVE  Shape'
<1>1. card[c] = "check" /\ UNCHANGED node /\ CardAct(c) /\ cdevs # <<>> /\ cdevs[1] = c
  BY DEF CreateCheck, CardAct, Shape
<1>2. \A x \in Card \ {c} : card'[x] = card[x] /\ data'[x] = data[x] /\ card[x] \notin BusySteps
  BY <1>1, CardOther, DataOther, AloneBusy DEF BusySteps, Probing
<1>3. \A i \in DOMAIN cdevs : cdevs[i] \in Card
  BY DEF Types
<1>4. CASE result /\ Goto(c, "bound") /\ UNCHANGED <<data, cdevs>>
  <2>1. card'[c] = "bound" /\ node = c
    BY <1>1, <1>4 DEF Goto, Types, Shape
  <2>2. \A x \in Card : card'[x] \notin {"create", "check", "del"}
    BY <1>2, <2>1 DEF BusySteps, Probing, Removing
  <2>3. \A i \in DOMAIN cdevs : card'[cdevs[i]] \in Holds \/ cdevs[i] = node
    BY <1>2, <1>3, <2>1 DEF Shape
  <2>4. \A x \in Card : card'[x] \in {"bound", "domain", "destroy"} => node = x
    BY <1>2, <2>1 DEF Shape
  <2> QED
    BY <1>1, <1>4, <2>2, <2>3, <2>4 DEF Shape, Listed
<1>5. CASE ~result /\ FailLate(c) /\ CdevDel
  <2>1. card'[c] = "tried" /\ node # c
    BY <1>1, <1>5, CardAssumption DEF FailLate, Fail, Goto, Types, OneBusy
  <2>2. \A x \in Card : card'[x] \notin {"create", "check", "del"}
    BY <1>2, <2>1 DEF BusySteps, Probing, Removing
  <2>3. \A i \in DOMAIN cdevs' : cdevs'[i] \in Card \ {c}
    BY <1>1, <1>3, <1>5, DelEntries DEF Shape
  <2>4. \A i \in DOMAIN cdevs' : card'[cdevs'[i]] \in Holds \/ cdevs'[i] = node
    BY <1>1, <1>2, <1>5, <2>3, DelEntries DEF Shape
  <2>5. \A i, j \in DOMAIN cdevs' : cdevs'[i] = cdevs'[j] => i = j
    <3> SUFFICES ASSUME NEW i \in DOMAIN cdevs', NEW j \in DOMAIN cdevs', cdevs'[i] = cdevs'[j]
                 PROVE  i = j
      OBVIOUS
    <3>1. i \in Nat /\ j \in Nat /\ i + 1 \in DOMAIN cdevs /\ j + 1 \in DOMAIN cdevs
          /\ cdevs[i + 1] = cdevs[j + 1]
      BY <1>1, <1>5, DelEntries
    <3>2. i + 1 = j + 1
      BY <3>1 DEF Shape
    <3> QED
      BY <3>1, <3>2
  <2>6. node # NoCard => Listed(node)' /\ data'[node] = "ready"
    <3> SUFFICES ASSUME node # NoCard PROVE Listed(node)' /\ data'[node] = "ready"
      OBVIOUS
    <3>1. node \in Card \ {c} /\ data[node] = "ready"
      BY <2>1 DEF Types, Shape
    <3>2. PICK i \in DOMAIN cdevs : cdevs[i] = node
      BY DEF Shape, Listed
    <3>3. i - 1 \in DOMAIN cdevs' /\ cdevs'[i - 1] = node
      BY <1>1, <1>5, <2>1, <3>2, DelEntries
    <3> QED
      BY <1>1, <1>2, <3>1, <3>3 DEF Listed
  <2>7. \A x \in Card : card'[x] \in {"bound", "domain", "destroy"} => node = x
    BY <1>2, <2>1 DEF Shape
  <2> QED
    BY <1>1, <2>2, <2>4, <2>5, <2>6, <2>7 DEF Shape
<1> QED
  BY <1>4, <1>5 DEF CreateCheck

LEMMA DestroyShape ==
  ASSUME Types, OneBusy, calm, Shape, NEW c \in Card, DeviceDestroy(c)
  PROVE  Shape'
<1> USE CardAssumption
<1>1. card[c] = "destroy" /\ UNCHANGED <<cdevs, data, result>> /\ node' = NoCard /\ node = c /\ CardAct(c)
  BY DEF DeviceDestroy, CardAct, Shape
<1>2. \A x \in Card \ {c} : card'[x] = card[x] /\ card[x] \notin BusySteps /\ card[x] # "bound"
  BY <1>1, CardOther, AloneBusy DEF BusySteps, Removing, Shape
<1>3. card'[c] = "del"
  BY <1>1 DEF DeviceDestroy, Goto, Types
<1>4. \A i \in DOMAIN cdevs : cdevs[i] \in Card /\ card'[cdevs[i]] \in Holds
  BY <1>1, <1>2, <1>3 DEF Types, Shape, Holds, Removing
<1>5. Listed(c)'
  BY <1>1 DEF Shape, Listed
<1>6. \A x \in Card : x = c \/ card'[x] \notin {"bound", "domain", "destroy", "del", "create", "check"}
  BY <1>2 DEF BusySteps, Probing, Removing
<1>7. \A x \in Card : card'[x] = "del" => Listed(x)'
  BY <1>5, <1>6
<1>8. \A x \in Card : card'[x] \notin {"bound", "domain", "destroy", "create", "check"}
  BY <1>3, <1>6
<1> QED
  BY <1>1, <1>4, <1>7, <1>8 DEF Shape

LEMMA RemoveShape ==
  ASSUME Types, OneBusy, calm, Shape, NEW c \in Card, RemoveCdev(c)
  PROVE  Shape'
<1> USE CardAssumption
<1>1. card[c] = "del" /\ node = NoCard /\ node' = NoCard /\ CdevDel /\ Listed(c) /\ CardAct(c)
  BY DEF RemoveCdev, CardAct, Shape
<1>2. \A x \in Card \ {c} : card'[x] = card[x] /\ card[x] \notin BusySteps /\ card[x] # "bound"
  BY <1>1, CardOther, AloneBusy DEF BusySteps, Removing, Shape
<1>3. card'[c] = "tried"
  BY DEF RemoveCdev, Fail, Goto, Types
<1>4. \A i \in DOMAIN cdevs : cdevs[i] = c
  BY <1>1, <1>2 DEF Types, Shape, Holds, BusySteps, Probing
<1>5. cdevs' = <<>>
  <2>1. PICK i \in DOMAIN cdevs : cdevs[i] = c
    BY <1>1 DEF Listed
  <2>2. \A j \in DOMAIN cdevs : j = i
    BY <1>4, <2>1 DEF Shape
  <2>3. cdevs \in Seq(Card) /\ Len(cdevs) \in Nat /\ DOMAIN cdevs = 1..Len(cdevs)
    BY DEF Types
  <2>4. Len(cdevs) = 1 /\ i = 1
    <3>1. 1 \in DOMAIN cdevs /\ Len(cdevs) \in DOMAIN cdevs
      BY <2>3
    <3> QED
      BY <2>2, <2>3, <3>1
  <2>5. cdevs' = Tail(cdevs)
    BY <1>1, <2>3, <2>4 DEF CdevDel
  <2>6. cdevs' \in Seq(Card) /\ Len(cdevs') = 0
    BY <2>3, <2>4, <2>5, HeadTailProperties
  <2> QED
    BY <2>6, EmptySeq
<1>6. \A x \in Card : card'[x] \notin {"bound", "domain", "destroy", "del", "create", "check"}
  BY <1>2, <1>3 DEF BusySteps, Probing, Removing
<1> QED
  BY <1>1, <1>5, <1>6 DEF Shape

LEMMA CardShape ==
  ASSUME Types, OneBusy, Complete, calm => Shape, NEW c \in Card, CardAct(c), calm'
  PROVE  Shape'
<1>1. calm
  BY CardFrame DEF Types
<1> QED
  BY <1>1, QuietShape, AddShape, CreateShape, CheckShape, DestroyShape, RemoveShape DEF CardAct, Quietly

\* Whoever else moves cards moves those at rest, which have no character device.
LEMMA OthersOpen ==
  ASSUME Types, OneBusy, OInv, RestMoves, UNCHANGED <<data, chardev, calm>>
  PROVE  OInv'
<1> USE CardAssumption DEF RestMoves, AtRest
<1>1. \A x \in Card : card'[x] \in {"cdev"} \cup Holds <=> card[x] \in {"cdev"} \cup Holds
  BY DEF Holds, Removing
<1>2. \A x \in Card : card[x] \in {"cdev"} \cup Holds => card'[x] = card[x]
  BY DEF Holds, Removing
<1>3. Complete'
  BY <1>1 DEF OInv, Complete
<1>4. ASSUME calm' PROVE Shape'
  <2>1. Shape
    BY <1>4 DEF OInv
  <2>2. \A i \in DOMAIN cdevs : cdevs[i] \in Card
    BY DEF Types
  <2>3. \A i \in DOMAIN cdevs : card'[cdevs[i]] \in Holds \/ cdevs[i] = node
    BY <1>2, <2>1, <2>2 DEF Shape
  <2>4. \A x \in Card : card'[x] \in Holds => card'[x] = card[x]
    BY <1>1, <1>2
  <2>5. \A x \in Card : /\ card'[x] \in {"bound", "domain", "destroy"} => node = x
                        /\ card'[x] = "del" => node = NoCard /\ Listed(x)
                        /\ card'[x] = "check" /\ result => node = x
                        /\ card'[x] \in {"create", "check"} => cdevs # <<>> /\ cdevs[1] = x
    BY <2>1, <2>4 DEF Shape, Holds, Removing
  <2> QED
    BY <2>1, <2>3, <2>5 DEF chardev, Shape, Listed
<1> QED
  BY <1>3, <1>4 DEF OInv

LEMMA StepOpen == IInv /\ OInv /\ [Next]_allVars => OInv'
<1> SUFFICES ASSUME IInv, OInv, [Next]_allVars PROVE OInv'
  OBVIOUS
<1>0. Types /\ OneBusy /\ slots \subseteq Card
  BY DEF IInv, PciHolds
<1>1. CASE CardStep /\ UNCHANGED pcieVars
  <2>1. PICK c \in Card : CardAct(c)
    BY <1>1 DEF CardStep, CardAct
  <2> QED
    BY <1>0, <2>1, CardComplete, CardShape DEF OInv
<1>2. CASE ModuleStep /\ UNCHANGED pcieVars
  <2>1. RestMoves
    BY <1>0, <1>2 DEF RestMoves, Types, AtRest, ModuleStep, InitRegion, ClassFails, ClassCreate, RegisterSpatz,
         RegisterCard, InitReturns, Cleanup, DetachDone, Reregister, ClassDestroy, Unregion
  <2> QED
    BY <1>0, <1>2, <2>1, OthersOpen DEF ModuleStep, history
<1>3. CASE PcieStep
  <2>1. PICK c \in slots : PcieAct(c)
    BY <1>3 DEF PcieStep, PcieAct
  <2>2. c \in Card
    BY <1>0, <2>1
  <2>3. UNCHANGED card \/ (card' = [card EXCEPT ![c] = "idle"] /\ c \in overlay) \/ Unplug(c)
    BY <2>1, <2>2, PcieFrame
  <2>4. card' = [card EXCEPT ![c] = "idle"] => card[c] = "absent" \/ UNCHANGED card
    BY <1>0, <2>1, <2>2 DEF IInv, PciHolds, PciState, Types, PcieAct, BarRead, Apply, Populate, FreeBlob,
       Depopulate, RemoveOverlay, Unplug, To
  <2>5. RestMoves
    BY <1>0, <2>2, <2>3, <2>4 DEF RestMoves, Unplug, Types, AtRest
  <2> QED
    BY <1>0, <1>3, <2>5, OthersOpen DEF PcieStep, history
<1>4. CASE UNCHANGED <<card, data, chardev, calm>>
  BY <1>0, <1>4, OthersOpen DEF RestMoves
<1> QED
  BY <1>1, <1>2, <1>3, <1>4 DEF Next, DriverStep, FileStep, IrqStep, KeepForIrq, history, allVars, vars

-----------------------------------------------------------------------------
(* card_open, through the device node, reaches a card whose data probe has   *)
(* completed and remove not yet freed, for any number of cards, while no two  *)
(* probes or removals overlap.                                               *)
THEOREM OpenCorrect == Spec => []OpenReachesReady
<1>1. IInv /\ OInv => OpenReachesReady
  <2> SUFFICES ASSUME IInv, OInv, calm
               PROVE  /\ \A i \in DOMAIN cdevs : data[cdevs[i]] = "ready"
                      /\ node # NoCard => cdevs # <<>>
    BY DEF OpenReachesReady
  <2>1. Shape /\ Complete /\ \A i \in DOMAIN cdevs : cdevs[i] \in Card
    BY DEF OInv, IInv, Types
  <2>2. \A i \in DOMAIN cdevs : data[cdevs[i]] = "ready"
    BY <2>1, CardAssumption DEF Shape, Complete
  <2>3. node # NoCard => cdevs # <<>>
    BY <2>1 DEF Shape, Listed
  <2> QED
    BY <2>2, <2>3
<1> QED
  BY <1>1, InitOpen, StepOpen, Invariant, PTL DEF Spec

=============================================================================
