------------------------------- MODULE Island -------------------------------
(***************************************************************************)
(* The registers with which libhero isolates, resets and starts an         *)
(* accelerator, on its three platforms: hero_dev_init, hero_dev_reset,     *)
(* hero_dev_exe_start and hero_dev_munmap of                               *)
(* sw/libhero/src/carfield/{safety_island,spatz_cluster}.c and             *)
(* sw/libhero/src/occamy/snitch_cluster.c.                                 *)
(*                                                                         *)
(* A call is the sequence of its register accesses, one step each.  A      *)
(* write is posted: it reaches the hardware later, and only writes to one  *)
(* register stay in order until a fence waits for all of them.  The        *)
(* hardware is not part of the repository; it is modelled as the code uses *)
(* it.  Calls are made without end.                                         *)
(***************************************************************************)
EXTENDS Integers, Sequences, SequencesExt

CONSTANTS Platforms,
          MaxPosted   \* the host stalls with this many writes on their way
ASSUME IslandAssumption == /\ Platforms \subseteq {"safety", "spatz", "occamy"}
                           /\ MaxPosted \in Nat \ {0}

VARIABLES platform,
          reg,        \* the registers that keep their value
          isolated,   \* the isolation status register
          core,       \* each core: held until it boots, then running
          busy,       \* the accelerator has transactions in flight
          posted,     \* writes on their way to the hardware
          call,       \* the call in progress
          todo,       \* the accesses it still has to make
          inited,     \* history: hero_dev_init has returned
          due,        \* history: the cores a start has asked for, not booted yet
          clean       \* history: no start or munmap found another start's request left over

host == <<call, todo, inited>>
history == <<due, clean>>
vars == <<platform, reg, isolated, core, busy, posted, host, history>>

\* A register is named with the core it belongs to, 0 if it has none.
Core == IF platform = "safety" THEN {1} ELSE {1, 2}
Shared == {"isolate", "clk", "rst", "fetch", "boot", "ownBoot",
           "h2a", "a2h", "layout", "scratch2", "tlb", "tlbEnable"}
Register == (Shared \X {0}) \cup ({"sndEn", "irq"} \X {1, 2})

R(name) == <<name, 0>>
Val(name) == reg[R(name)]

-----------------------------------------------------------------------------
(* The accesses.  A value is 0 or 1; an address or a table that is set up  *)
(* is 1; the isolation of Occamy has a bit for each of four ports.          *)
Write(name, v) == [do |-> "write", to |-> R(name), val |-> v]
WriteOf(c, name, v) == [do |-> "write", to |-> <<name, c>>, val |-> v]
Fence == [do |-> "fence", to |-> R("isolate"), val |-> 0]
Poll(v) == [do |-> "poll", to |-> R("isolate"), val |-> v]

\* A write, then a fence.
Fenced(name, v) == <<Write(name, v), Fence>>

\* Mutants of CarSetIsolate: it does not wait; it waits for the wrong status.
CarSetIsolateNoWait(v) == Fenced("isolate", v)
CarSetIsolateWrong(v) == Fenced("isolate", v) \o <<Poll(1)>>
CarSetIsolate(v) == Fenced("isolate", v) \o <<Poll(v)>>

IsolateMask == IF platform = "occamy" THEN 15 ELSE 1

\* Mutant of OccamySetIsolation: one port is isolated, the others are not.
OccamySetIsolationPort(v) == Fenced("isolate", v)
OccamySetIsolation(v) == Fenced("isolate", 15 * v)

\* The clock off, the reset pulse, the clock on.
Pulse == Fenced("rst", 1) \o Fenced("rst", 0) \o Fenced("clk", 1)
CarRestart == CarSetIsolate(1) \o Fenced("clk", 0) \o Pulse \o CarSetIsolate(0)

\* hero_dev_init; the Occamy one stores the layout block and the TLB entries too.
CarInit == <<Write("h2a", 1), Write("a2h", 1)>>
OccamyTlb == <<Write("tlb", 1)>>
OccamyInit == <<Write("layout", 1), Write("scratch2", 1)>> \o OccamyTlb \o <<Write("tlbEnable", 1)>>

\* The bits of the accelerator's cores; those of other harts are kept.
ClintSetIrq == <<Write("clint", 1)>>
ClintClearIrq == <<Write("clint", 0)>>

\* hero_dev_reset.  Mutant: fetching is left enabled.
SafetyResetFetching == CarSetIsolate(1) \o Fenced("clk", 0) \o Pulse \o CarSetIsolate(0)
SafetyReset == CarSetIsolate(1) \o Fenced("fetch", 0) \o Fenced("clk", 0) \o Pulse
               \o CarSetIsolate(0)

ClearIrq(c) == <<WriteOf(c, "sndEn", 0), WriteOf(c, "sndClr", 1), WriteOf(c, "rcvClr", 1)>>
SpatzReset == CarSetIsolate(1) \o <<Fence>> \o Fenced("clk", 0)
              \o ClearIrq(1) \o ClearIrq(2) \o Pulse \o CarSetIsolate(0)

\* The reset register is active low.
OccamyReset == OccamySetIsolation(1) \o <<Write("rst", 1)>> \o ClintClearIrq \o <<Fence>>
               \o Fenced("rst", 0) \o OccamySetIsolation(0)

\* hero_dev_exe_start.  Mutants: the boot address is written in isolation;
\* an interrupt is not enabled; the entry point is not fenced.  The bootrom
\* pointer that Occamy passes is always 0 and is left out.
SafetyStartIsolated == CarSetIsolate(1) \o Fenced("clk", 0) \o Pulse
                       \o <<Write("boot", 1), Write("ownBoot", 1), Fence>>
                       \o CarSetIsolate(0) \o <<Write("fetch", 1)>>
SafetyStart == CarRestart \o <<Write("boot", 1), Write("ownBoot", 1), Fence, Write("fetch", 1)>>

RaiseIrqDisabled(c) == <<WriteOf(c, "sndSet", 1)>>
RaiseIrq(c) == <<WriteOf(c, "sndEn", 1), WriteOf(c, "sndSet", 1)>>
SpatzStart == CarRestart \o Fenced("ownBoot", 1) \o RaiseIrq(1) \o RaiseIrq(2)

OccamyStartUnfenced == <<Write("boot", 1)>> \o ClintSetIrq
OccamyStart == Fenced("boot", 1) \o ClintSetIrq

\* hero_dev_munmap touches the registers of Spatz only.
Accesses == [init   |-> [safety |-> CarInit, spatz |-> CarInit, occamy |-> OccamyInit],
             reset  |-> [safety |-> SafetyReset, spatz |-> SpatzReset, occamy |-> OccamyReset],
             start  |-> [safety |-> SafetyStart, spatz |-> SpatzStart, occamy |-> OccamyStart],
             munmap |-> [safety |-> <<>>, spatz |-> CarRestart, occamy |-> <<>>]]

-----------------------------------------------------------------------------
(* The accelerator either comes out of power-on, isolated and in reset, or *)
(* is free and idle.                                                       *)
Init == /\ platform \in Platforms
        /\ \E held \in {0, 1} :
             /\ reg = [r \in Register |-> CASE r = R("isolate") -> held * IsolateMask
                                            [] r = R("rst") -> held
                                            [] r = R("clk") -> 1
                                            [] OTHER -> 0]
             /\ isolated = held
        /\ core = [c \in {1, 2} |-> "held"]
        /\ busy = FALSE
        /\ posted = <<>>
        /\ call = "none" /\ todo = <<>> /\ inited = FALSE
        /\ due = {} /\ clean = TRUE

\* What makes a core of the platform leave its boot loop.
Armed(c) == CASE platform = "safety" -> Val("fetch") = 1
              [] platform = "spatz"  -> reg[<<"irq", c>>] = 1 /\ reg[<<"sndEn", c>>] = 1
              [] platform = "occamy" -> reg[<<"irq", c>>] = 1

\* A request of an earlier start that its reset does not withdraw.
LeftOver == \/ Val("fetch") = 1 \/ \E c \in Core : reg[<<"irq", c>>] = 1
            \/ \E i \in DOMAIN posted : posted[i].to[1] \in {"fetch", "sndSet", "clint"}

-----------------------------------------------------------------------------
(* The host.  It starts the accelerator only after hero_dev_init.          *)
Call(c) == /\ call = "none"
           /\ c = "start" => inited
           /\ c = "munmap" => platform = "spatz"
           /\ call' = c
           /\ todo' = Accesses[c][platform]
           /\ due' = IF c = "start" THEN Core ELSE due
           /\ clean' = (clean /\ (c \in {"start", "munmap"} /\ platform # "occamy" => ~LeftOver))
           /\ UNCHANGED <<platform, reg, isolated, core, busy, posted, inited>>

Post == /\ todo # <<>> /\ Head(todo).do = "write" /\ Len(posted) < MaxPosted
        /\ posted' = Append(posted, Head(todo))
        /\ todo' = Tail(todo)
        /\ UNCHANGED <<platform, reg, isolated, core, busy, call, inited, history>>

PassFence == /\ todo # <<>> /\ Head(todo).do = "fence"
             /\ posted = <<>>
             /\ todo' = Tail(todo)
             /\ UNCHANGED <<platform, reg, isolated, core, busy, posted, call, inited, history>>

\* The loop of car_set_isolate, when it reads the status it waits for.
PassPoll == /\ todo # <<>> /\ Head(todo).do = "poll"
            /\ isolated = Head(todo).val
            /\ todo' = Tail(todo)
            /\ UNCHANGED <<platform, reg, isolated, core, busy, posted, call, inited, history>>

\* One that reads the other status: the host spins.
PollAgain == /\ todo # <<>> /\ Head(todo).do = "poll"
             /\ isolated # Head(todo).val
             /\ UNCHANGED vars

\* A reset withdraws what was asked for.
Return == /\ call # "none" /\ todo = <<>>
          /\ call' = "none"
          /\ inited' = (inited \/ call = "init")
          /\ due' = IF call \in {"reset", "munmap"} THEN {} ELSE due
          /\ clean' = (clean \/ call = "reset")
          /\ UNCHANGED <<platform, reg, isolated, core, busy, posted, todo>>

-----------------------------------------------------------------------------
(* The hardware. *)

\* The registers after write w.  A reset clears the accelerator's own boot
\* register; the mailbox unit's set and clear registers act on one flag; the one
\* of the other direction is not used.
After(w) ==
  CASE w.to = R("rst") /\ w.val = 1 -> [reg EXCEPT ![w.to] = 1, ![R("ownBoot")] = 0]
    [] w.to = R("clint")            -> [r \in Register |-> IF r[1] = "irq" THEN w.val ELSE reg[r]]
    [] w.to[1] = "sndSet"           -> [reg EXCEPT ![<<"irq", w.to[2]>>] = 1]
    [] w.to[1] = "sndClr"           -> [reg EXCEPT ![<<"irq", w.to[2]>>] = 0]
    [] w.to[1] = "rcvClr"           -> reg
    [] OTHER                        -> [reg EXCEPT ![w.to] = w.val]

Land(i) == /\ \A j \in 1 .. i - 1 : posted[j].to # posted[i].to
           /\ reg' = After(posted[i])
           /\ core' = [c \in {1, 2} |-> IF posted[i] = Write("rst", 1) THEN "held" ELSE core[c]]
           /\ posted' = RemoveAt(posted, i)
           /\ UNCHANGED <<platform, isolated, busy, host, history>>

\* Isolation takes effect when nothing is in flight.
Wanted == IF Val("isolate") = 0 THEN 0 ELSE 1

Isolate == /\ isolated # Wanted
           /\ Wanted = 1 => ~busy
           /\ isolated' = Wanted
           /\ UNCHANGED <<platform, reg, core, busy, posted, host, history>>

Boot(c) == /\ core[c] = "held" /\ Armed(c)
           /\ Val("rst") = 0 /\ Val("clk") = 1
           /\ core' = [core EXCEPT ![c] = "running"]
           /\ due' = due \ {c}
           /\ UNCHANGED <<platform, reg, isolated, busy, posted, host, clean>>

\* A running core withdraws the interrupt that woke it.
Acknowledge(c) == /\ core[c] = "running" /\ reg[<<"irq", c>>] = 1
                  /\ reg' = [reg EXCEPT ![<<"irq", c>>] = 0]
                  /\ UNCHANGED <<platform, isolated, core, busy, posted, host, history>>

\* A transaction of a running core, and its end.
Issue(c) == /\ core[c] = "running" /\ ~busy
            /\ Wanted = 0 /\ isolated = 0 /\ Val("clk") = 1
            /\ busy' = TRUE
            /\ UNCHANGED <<platform, reg, isolated, core, posted, host, history>>

Drain == /\ busy
         /\ busy' = FALSE
         /\ UNCHANGED <<platform, reg, isolated, core, posted, host, history>>

-----------------------------------------------------------------------------
HostRun == Post \/ PassFence \/ PassPoll \/ Return
Hardware == (\E i \in DOMAIN posted : Land(i)) \/ Isolate \/ Drain
Next == \/ \E c \in {"init", "reset", "start", "munmap"} : Call(c)
        \/ HostRun \/ PollAgain
        \/ Hardware
        \/ \E c \in Core : Boot(c) \/ Acknowledge(c) \/ Issue(c)

Spec == Init /\ [][Next]_vars

(* The host's calls run, writes arrive, the isolation answers, transactions*)
(* end, and a core that may boot does.                                     *)
FairSpec == /\ Spec
            /\ WF_vars(HostRun)
            /\ WF_vars(\E i \in DOMAIN posted : Land(i))
            /\ WF_vars(Isolate) /\ WF_vars(Drain)
            /\ \A c \in {1, 2} : WF_vars(c \in Core /\ Boot(c))

-----------------------------------------------------------------------------
Values(r) == IF r = R("isolate") THEN {0, IsolateMask} ELSE {0, 1}

TypeOK == /\ platform \in Platforms
          /\ reg \in [Register -> {0, 1, IsolateMask}] /\ \A r \in Register : reg[r] \in Values(r)
          /\ isolated \in {0, 1}
          /\ core \in [{1, 2} -> {"held", "running"}]
          /\ busy \in BOOLEAN /\ inited \in BOOLEAN /\ clean \in BOOLEAN
          /\ call \in {"none", "init", "reset", "start", "munmap"}
          /\ due \subseteq Core
          /\ \A s \in {posted, todo} : \A i \in DOMAIN s : s[i].val \in Values(s[i].to)

(* On Carfield the island is never reset and its clock never stopped with  *)
(* a transaction in flight, which would be lost with half of it done.      *)
NothingCut == platform # "occamy" /\ (Val("rst") = 1 \/ Val("clk") = 0) => ~busy

(* The host writes the accelerator's own boot register only when the write *)
(* can reach it: not isolated, not in reset, with a clock.                 *)
OwnBootReached ==
  [][\A i \in DOMAIN posted :
       posted[i].to = R("ownBoot") /\ Land(i) =>
         isolated = 0 /\ Val("rst") = 0 /\ Val("clk") = 1]_vars

(* Unless an earlier start was left over, a core boots once per start.     *)
BootsOnce == [][\A c \in Core : Boot(c) /\ clean => c \in due]_vars

(* And when it boots, the entry point is in place and so is what           *)
(* hero_dev_init tells the accelerator.                                    *)
BootRegisters == CASE platform = "safety" -> {"boot", "ownBoot"}
                   [] platform = "spatz"  -> {"ownBoot"}
                   [] platform = "occamy" -> {"boot"}
Told == IF platform = "occamy" THEN {"layout", "scratch2", "tlb", "tlbEnable"} ELSE {"h2a", "a2h"}
BootsReady ==
  [][\A c \in Core : Boot(c) /\ clean => \A r \in BootRegisters \cup Told : Val(r) = 1]_vars

(* Every call returns, the waiting loops of car_set_isolate included.      *)
CallReturns == call # "none" ~> call = "none"

(* A core that a start asked for runs in the end, unless another call      *)
(* comes first.  hero_dev_exe_start of Occamy does not lift a reset.       *)
StartRuns ==
  \A c \in {1, 2} :
    call = "none" /\ c \in due /\ Val("rst") = 0 ~> core[c] = "running" \/ call # "none"
=============================================================================
