----------------------------- MODULE CardDriver -----------------------------
(***************************************************************************)
(* The life cycle of the kernel drivers of the cards,                      *)
(* sw/hero-driver/carfield and sw/hero-driver/occamy: the module is loaded *)
(* and unloaded, probe and remove run for each card, processes open and    *)
(* close the device file, and the GPIO of a card interrupts the host.      *)
(*                                                                         *)
(* The device trees are complete: what probe_node makes of a node that is  *)
(* missing is in CardFiles.  The platform devices come from the device     *)
(* tree and have no id (pdev->id is -1), so all cards have one number and  *)
(* one node, "cardev--1".  An oops kills the thread that runs into it      *)
(* ("dead"), and the whole system in an interrupt handler (panic).         *)
(***************************************************************************)
EXTENDS Integers, Sequences, FiniteSets

CONSTANTS Hosts,       \* the hosts: platform and iommu, as below; own and slots, their cards
          Card,        \* the cards of a host
          NoCard,      \* not a card
          File,        \* the open files processes may have
          MaxHandlers  \* bound: handlers a card's interrupt may collect

ASSUME CardAssumption ==
    /\ NoCard \notin Card /\ IsFiniteSet(Card) /\ MaxHandlers \in Nat \ {0}
    /\ \A h \in Hosts : /\ h.platform \in {"carfield", "occamy"}
                        /\ h.own \cup h.slots \subseteq Card /\ h.own \cap h.slots = {}

VARIABLES platform,  \* "carfield" or "occamy"
          iommu,     \* Carfield: a kernel before 6.5 ("old"), or later without or with an IOMMU
          slots,     \* the cards that may be plugged into the host; the others are its own SoC
          mod,       \* where module init or exit is
          region,    \* the device numbers are allocated
          class,     \* the class is created
          drivers,   \* the drivers registered: "card", "spatz"
          card,      \* where the driver core is with the platform device of each card
          data,      \* its cardev_private_data
          domain,    \* an IOMMU domain is attached to its Spatz device
          cdevs,     \* the character devices registered, the latest first
          node,      \* the card whose probe made the device node
          result,    \* cardrv_data.device_card: whether the last device_create succeeded
          handlers,  \* how many interrupt handlers a card's probes have requested
          stale,     \* some of them were of a module unloaded since
          entered,   \* already_entered of its interrupt line
          gpio,      \* its GPIO asserts the line
          files,     \* the card an open file is served by
          panic,
          calm,      \* history: no two probes or removals have overlapped
          lost       \* history: cards whose probe failed with the domain attached

config == <<platform, iommu, slots>>
module == <<mod, region, class, drivers>>
chardev == <<cdevs, node, result>>
irq == <<handlers, stale, entered, gpio>>
history == <<calm, lost>>
vars == <<config, module, card, data, domain, chardev, irq, files, panic, history>>

Probing == {"alloc", "irqs", "iommu", "mask", "cdev", "create", "check"}
Removing == {"domain", "destroy", "del"}
Busy == {c \in Card : card[c] \in Probing \cup Removing}
Going == {"detach", "reregister", "destroy", "unregion", "out"}  \* try_module_get fails

Init == /\ \E h \in Hosts : platform = h.platform /\ iommu = h.iommu /\ slots = h.slots
                         /\ card = [c \in Card |-> IF c \in h.own THEN "idle" ELSE "absent"]
        /\ mod = "out" /\ region = FALSE /\ class = FALSE /\ drivers = {}
        /\ data = [c \in Card |-> "none"]
        /\ domain = {}
        /\ cdevs = <<>> /\ node = NoCard /\ result = TRUE
        /\ handlers = [c \in Card |-> 0] /\ stale = {} /\ entered = {} /\ gpio = {}
        /\ files = [f \in File |-> NoCard]
        /\ panic = FALSE /\ calm = TRUE /\ lost = {}

-----------------------------------------------------------------------------
(* card_platform_driver_init.  What registering a driver returns is        *)
(* ignored; a second registration of one name changes nothing.  Mutant:    *)
(* the numbers stay allocated when the class fails.                        *)
InitRegion == /\ mod = "out" /\ \A c \in Card : handlers[c] < MaxHandlers
              /\ mod' = "class" /\ region' = TRUE
              /\ UNCHANGED <<class, drivers, card>>

ClassFailsLeaves == mod = "class" /\ mod' = "out" /\ UNCHANGED <<region, class, drivers, card>>
ClassFails == mod = "class" /\ mod' = "out" /\ region' = FALSE /\ UNCHANGED <<class, drivers, card>>

ClassCreate == /\ mod = "class"
               /\ mod' = (IF platform = "carfield" THEN "spatz" ELSE "card")
               /\ class' = TRUE
               /\ UNCHANGED <<region, drivers, card>>

RegisterSpatz == /\ mod = "spatz" /\ mod' = "card"
                 /\ drivers' = drivers \cup {"spatz"}
                 /\ UNCHANGED <<region, class, card>>

\* The driver core then probes every device that matches.
RegisterCard == /\ mod = "card" /\ mod' = "binding"
                /\ drivers' = drivers \cup {"card"}
                /\ card' = [c \in Card |-> IF card[c] = "tried" THEN "idle" ELSE card[c]]
                /\ UNCHANGED <<region, class>>

InitReturns == /\ mod = "binding" /\ \A c \in Card : card[c] \notin Probing \cup {"idle", "dead"}
               /\ mod' = "live"
               /\ UNCHANGED <<region, class, drivers, card>>

(* card_platform_driver_cleanup: only while no file is open, each of which *)
(* counts as a use of its owner, the module.  Mutant: files have no owner. *)
Unused == \A f \in File : files[f] = NoCard
UnusedNoOwner == TRUE
CanUnload == Unused

Cleanup == /\ mod = "live" /\ CanUnload
           /\ mod' = "detach"
           /\ drivers' = drivers \ {"card"}
           /\ UNCHANGED <<region, class, card>>

DetachDone == /\ mod = "detach" /\ \A c \in Card : card[c] \in {"absent", "idle", "tried"}
              /\ mod' = (IF platform = "carfield" THEN "reregister" ELSE "destroy")
              /\ UNCHANGED <<region, class, drivers, card>>

\* The Spatz driver is registered, where it should be unregistered.
Reregister == /\ mod = "reregister" /\ mod' = "destroy"
              /\ drivers' = drivers \cup {"spatz"}
              /\ UNCHANGED <<region, class, card>>

ClassDestroy == mod = "destroy" /\ mod' = "unregion" /\ class' = FALSE
                /\ UNCHANGED <<region, drivers, card>>

Unregion == mod = "unregion" /\ mod' = "out" /\ region' = FALSE /\ UNCHANGED <<class, drivers, card>>

\* The handlers requested stay, with the code gone.
ModuleStep == /\ \/ InitRegion \/ ClassFails \/ ClassCreate \/ RegisterSpatz \/ RegisterCard
                 \/ InitReturns \/ Cleanup \/ DetachDone \/ Reregister \/ ClassDestroy \/ Unregion
              /\ stale' = IF mod' = "out" THEN {c \in Card : handlers[c] > 0} ELSE stale
              /\ UNCHANGED <<config, data, domain, chardev, handlers, entered, gpio,
                             files, panic, history>>

-----------------------------------------------------------------------------
(* card_platform_driver_probe.  A failure returns to the driver core, which *)
(* frees what was allocated for the device (devm) and does not try again    *)
(* by itself.                                                               *)
Goto(c, step) == card' = [card EXCEPT ![c] = step]
Now(c, d) == data' = [data EXCEPT ![c] = d]
Fail(c) == Goto(c, "tried") /\ Now(c, "freed")

Bind(c) == /\ card[c] = "idle" /\ "card" \in drivers
           /\ Goto(c, "alloc")
           /\ calm' = (calm /\ Busy = {})
           /\ UNCHANGED <<data, domain, chardev, handlers, lost>>

\* With the nodes up to the GPIO, or all of Occamy's.
Alloc(c) == /\ card[c] = "alloc"
            /\ \/ Goto(c, "tried") /\ UNCHANGED data
               \/ Goto(c, IF platform = "carfield" THEN "irqs" ELSE "mask") /\ Now(c, "blank")
            /\ UNCHANGED <<domain, chardev, handlers, history>>

\* A request that fails is logged, and the probe goes on without its handler.
\* An interrupt that of_irq_get does not find, as on a PCIe host it may not, is
\* asked for all the same, and its descriptor, NULL, is read.
RequestIrqs(c) == /\ card[c] = "irqs"
                  /\ \/ /\ Goto(c, "iommu")
                        /\ handlers' \in {handlers, [handlers EXCEPT ![c] = @ + 1]}
                     \/ Goto(c, "dead") /\ UNCHANGED handlers
                  /\ UNCHANGED <<data, domain, chardev, history>>

\* Attaching fails at least when the device is attached already.
AttachIommu(c) == /\ card[c] = "iommu"
                  /\ \/ /\ iommu = "present"
                        /\ Fail(c) /\ UNCHANGED domain
                     \/ /\ iommu = "present" /\ c \notin domain
                        /\ domain' = domain \cup {c}
                        /\ Goto(c, "cdev") /\ Now(c, "ready")
                     \/ /\ iommu # "present"
                        /\ Goto(c, "cdev") /\ Now(c, "ready") /\ UNCHANGED domain
                  /\ UNCHANGED <<chardev, handlers, history>>

SetMask(c) == /\ card[c] = "mask"
              /\ \/ Fail(c)
                 \/ Goto(c, "cdev") /\ Now(c, "ready")
              /\ UNCHANGED <<domain, chardev, handlers, history>>

\* Nothing detaches the domain when a later step fails.
FailLate(c) == Fail(c) /\ lost' = lost \cup ({c} \cap domain)

CdevAdd(c) == /\ card[c] = "cdev"
              /\ \/ FailLate(c) /\ UNCHANGED cdevs
                 \/ /\ cdevs' = <<c>> \o cdevs
                    /\ Goto(c, "create") /\ UNCHANGED <<data, lost>>
              /\ UNCHANGED <<domain, node, result, handlers, calm>>

\* It fails at least when the node exists; what it returns is kept in the
\* driver's own data, one for all cards.
DeviceCreate(c) == /\ card[c] = "create"
                   /\ \/ node = NoCard /\ node' = c /\ result' = TRUE
                      \/ node' = node /\ result' = FALSE
                   /\ Goto(c, "check")
                   /\ UNCHANGED <<data, domain, cdevs, handlers, history>>

\* cdev_del: the first entry of that number goes, whoever's it is.
CdevDelForgotten == UNCHANGED cdevs
CdevDel == cdevs' = IF cdevs = <<>> THEN cdevs ELSE Tail(cdevs)

\* A result nobody will look at any more is forgotten.
Forget(c) == result' = (result \/ \A d \in Card \ {c} : card[d] # "check")

\* Mutant: the character device stays when the node cannot be made.
CreateCheckForgets(c) == /\ card[c] = "check"
                         /\ \/ result /\ Goto(c, "bound") /\ UNCHANGED <<data, lost, cdevs>>
                            \/ ~result /\ FailLate(c) /\ CdevDelForgotten
                         /\ Forget(c)
                         /\ UNCHANGED <<domain, node, handlers, calm>>
CreateCheck(c) == /\ card[c] = "check"
                  /\ \/ result /\ Goto(c, "bound") /\ UNCHANGED <<data, lost, cdevs>>
                     \/ ~result /\ FailLate(c) /\ CdevDel
                  /\ Forget(c)
                  /\ UNCHANGED <<domain, node, handlers, calm>>

-----------------------------------------------------------------------------
(* card_platform_driver_remove: the module is unloaded, or the device is    *)
(* unbound through sysfs or goes away, also under an open file.             *)
RemoveStart(c) == /\ card[c] = "bound"
                  /\ Goto(c, "domain")
                  /\ calm' = (calm /\ Busy = {})
                  /\ UNCHANGED <<data, domain, chardev, handlers, lost>>

\* A driver with IOMMU support frees the domain it may not have.
FreeDomain(c) == /\ card[c] = "domain"
                 /\ Goto(c, IF iommu = "absent" THEN "dead" ELSE "destroy")
                 /\ domain' = domain \ {c}
                 /\ UNCHANGED <<data, chardev, handlers, history>>

\* The node of that number, whoever made it.
DeviceDestroy(c) == /\ card[c] = "destroy"
                    /\ Goto(c, "del")
                    /\ node' = NoCard
                    /\ UNCHANGED <<data, domain, cdevs, result, handlers, history>>

\* The driver core then frees the device's data.
RemoveCdev(c) == /\ card[c] = "del"
                 /\ CdevDel
                 /\ Fail(c)
                 /\ UNCHANGED <<domain, node, result, handlers, history>>

\* sysfs, too, can have a device probed again.
Rebind(c) == /\ card[c] = "tried" /\ handlers[c] < MaxHandlers
             /\ Goto(c, "idle")
             /\ UNCHANGED <<data, domain, chardev, handlers, history>>

CardStep == /\ \E c \in Card :
                 \/ Bind(c) \/ Alloc(c) \/ RequestIrqs(c) \/ AttachIommu(c)
                 \/ SetMask(c) \/ CdevAdd(c) \/ DeviceCreate(c) \/ CreateCheck(c)
                 \/ RemoveStart(c) \/ FreeDomain(c) \/ DeviceDestroy(c) \/ RemoveCdev(c)
                 \/ Rebind(c)
            /\ UNCHANGED <<config, module, stale, entered, gpio, files, panic>>

-----------------------------------------------------------------------------
(* Files.  The node's number is looked up among the character devices.      *)
Open(f) == /\ files[f] = NoCard
           /\ node # NoCard /\ cdevs # <<>> /\ mod \notin Going
           /\ files' = [files EXCEPT ![f] = Head(cdevs)]

Close(f) == files[f] # NoCard /\ files' = [files EXCEPT ![f] = NoCard]

FileStep == /\ \E f \in File : Open(f) \/ Close(f)
            /\ UNCHANGED <<config, module, card, data, domain, chardev, irq, panic, history>>

(* Interrupts.  The line is asserted until whoever asserts it is served,    *)
(* the card or, on its own SoC, a device of another driver; each time every  *)
(* handler of the line runs.                                                *)
(* carfield_handle_irq ignores every other call, so that calls calls find   *)
(* already_entered set (entered + calls) \div 2 times.  Mutant: a call that *)
(* is ignored is not remembered.                                            *)
Bit(c) == IF c \in entered THEN 1 ELSE 0
Acts(c) == (Bit(c) + handlers[c]) \div 2 > 0
EntersNever(c) == FALSE
Enters(c) == (Bit(c) + handlers[c]) % 2 = 1
Live(c) == data[c] \in {"blank", "ready"}

Deliver(c) == /\ entered' = IF Enters(c) THEN entered \cup {c} ELSE entered \ {c}
              /\ gpio' = IF Acts(c) THEN gpio \ {c} ELSE gpio
              /\ panic' = (c \in stale \/ (Acts(c) /\ ~Live(c)))
              /\ UNCHANGED <<handlers, stale>>

Raise(c) == /\ handlers[c] > 0 /\ gpio' = gpio \cup {c}
            /\ UNCHANGED <<handlers, stale, entered, panic>>

ServeCard(c) == c \in gpio /\ Deliver(c)
ServeOther(c) == c \notin slots /\ handlers[c] > 0 /\ Deliver(c)

KeepForIrq == UNCHANGED <<config, module, card, data, domain, chardev, files, history>>
IrqStep(c) == (Raise(c) \/ ServeCard(c) \/ ServeOther(c)) /\ KeepForIrq

DriverStep == ModuleStep \/ CardStep \/ FileStep \/ \E c \in Card : IrqStep(c)

=============================================================================
