---------------------------- MODULE IslandProofs ----------------------------
(***************************************************************************)
(* Theorems about Island for any number of posted writes: however late the *)
(* writes of a call reach the hardware, an island of Carfield is not reset *)
(* with a transaction in flight.                                           *)
(*                                                                         *)
(* A call goes through stages, one access after another.  Each stage says  *)
(* what the registers hold and what is still on its way to them.           *)
(***************************************************************************)
EXTENDS Island, TLAPS, SequenceTheorems

USE IslandAssumption

Name == Shared \cup {"sndEn", "sndSet", "sndClr", "rcvClr", "irq", "clint"}
AnyAccess == [do : {"write", "fence", "poll"}, to : Name \X {0, 1, 2}, val : {0, 1, 15}]

(* Those of Carfield.                                                       *)
Access == {x \in AnyAccess : x.val \in {0, 1}}

(* The registers that the stages are about.                                *)
Critical == {R("isolate"), R("rst"), R("clk"), R("ownBoot")}

Idle == {"still", "free"}
Stage == Idle \cup {"telling", "asked", "closing", "shut", "lifting", "lifted",
                    "waking", "awake", "opening", "opened"}

Neutral(x) == x.do = "write" /\ x.to \notin Critical
Fencing == {<<"asked", "closing">>, <<"shut", "still">>, <<"lifting", "lifted">>,
            <<"waking", "awake">>, <<"opening", "opened">>, <<"telling", "free">>,
            <<"still", "still">>}

(* Access x leads from stage a to stage b.                                 *)
Goes(a, x, b) ==
  \/ Neutral(x) /\ b = a
  \/ x = Fence /\ <<a, b>> \in Fencing
  \/ x = Write("isolate", 1) /\ a \in Idle /\ b = "asked"
  \/ x = Poll(1) /\ a = "closing" /\ b = "still"
  \/ x \in {Write("clk", 0), Write("rst", 1)} /\ a = "still" /\ b = "shut"
  \/ x = Write("rst", 0) /\ a = "still" /\ b = "lifting"
  \/ x = Write("clk", 1) /\ a = "lifted" /\ b = "waking"
  \/ x = Write("isolate", 0) /\ a = "awake" /\ b = "opening"
  \/ x = Poll(0) /\ a = "opened" /\ b = "free"
  \/ x = Write("ownBoot", 1) /\ a = "free" /\ b = "telling"

(* The accesses s lead from stage a to stage b.                            *)
Run(s, a, b) == \E f \in [1 .. Len(s) + 1 -> Stage] :
                  /\ f[1] = a /\ f[Len(s) + 1] = b
                  /\ \A i \in 1 .. Len(s) : Goes(f[i], s[i], f[i + 1])

LEMMA RunNothing ==
  ASSUME NEW a, NEW b
  PROVE  /\ Run(<<>>, a, b) => a = b
         /\ a \in Stage => Run(<<>>, a, a)
<1>1. Len(<<>>) = 0
  OBVIOUS
<1>2. Run(<<>>, a, b) => a = b
  BY <1>1 DEF Run
<1>3. ASSUME a \in Stage PROVE Run(<<>>, a, a)
  <2> DEFINE f == [i \in 1 .. 1 |-> a]
  <2>1. f \in [1 .. Len(<<>>) + 1 -> Stage] /\ f[1] = a /\ f[Len(<<>>) + 1] = a
    BY <1>1, <1>3
  <2>2. \A i \in 1 .. Len(<<>>) : Goes(f[i], <<>>[i], f[i + 1])
    BY <1>1
  <2> HIDE DEF f
  <2> QED BY <2>1, <2>2 DEF Run
<1> QED BY <1>2, <1>3

LEMMA RunOne ==
  ASSUME NEW x \in Access, NEW a \in Stage, NEW b \in Stage, Goes(a, x, b)
  PROVE  <<x>> \in Seq(Access) /\ Run(<<x>>, a, b)
<1> DEFINE f == [i \in 1 .. 2 |-> IF i = 1 THEN a ELSE b]
<1>1. f \in [1 .. Len(<<x>>) + 1 -> Stage] /\ f[1] = a /\ f[Len(<<x>>) + 1] = b
  OBVIOUS
<1>2. \A i \in 1 .. Len(<<x>>) : Goes(f[i], <<x>>[i], f[i + 1])
  OBVIOUS
<1> HIDE DEF f
<1>3. Run(<<x>>, a, b)
  BY <1>1, <1>2 DEF Run
<1> QED BY <1>3

LEMMA RunConcat ==
  ASSUME NEW s \in Seq(Access), NEW t \in Seq(Access), NEW a, NEW b, NEW c,
         Run(s, a, b), Run(t, b, c)
  PROVE  s \o t \in Seq(Access) /\ Run(s \o t, a, c)
<1> DEFINE m == Len(s)
           n == Len(t)
           u == s \o t
<1>1. /\ m \in Nat /\ n \in Nat /\ u \in Seq(Access) /\ Len(u) = m + n
      /\ \A i \in 1 .. m : u[i] = s[i]
      /\ \A i \in 1 .. n : u[m + i] = t[i]
  BY ConcatProperties, LenProperties
<1>2. PICK f \in [1 .. m + 1 -> Stage] : /\ f[1] = a /\ f[m + 1] = b
                                         /\ \A i \in 1 .. m : Goes(f[i], s[i], f[i + 1])
  BY DEF Run
<1>3. PICK g \in [1 .. n + 1 -> Stage] : /\ g[1] = b /\ g[n + 1] = c
                                         /\ \A i \in 1 .. n : Goes(g[i], t[i], g[i + 1])
  BY DEF Run
<1> HIDE DEF m, n, u
<1> DEFINE h == [i \in 1 .. m + n + 1 |-> IF i <= m + 1 THEN f[i] ELSE g[i - m]]
<1>4. h \in [1 .. m + n + 1 -> Stage]
  BY <1>1
<1>5. /\ \A i \in 1 .. m + 1 : h[i] = f[i]
      /\ \A i \in 1 .. n + 1 : h[m + i] = g[i]
  BY <1>1, <1>2, <1>3
<1> HIDE DEF h
<1>6. h[1] = a /\ h[m + n + 1] = c
  <2>1. h[1] = f[1] /\ h[m + (n + 1)] = g[n + 1]
    BY <1>1, <1>5
  <2> QED BY <1>1, <1>2, <1>3, <2>1
<1>7. ASSUME NEW i \in 1 .. m + n PROVE Goes(h[i], u[i], h[i + 1])
  <2>1. CASE i <= m
    <3>1. h[i] = f[i] /\ h[i + 1] = f[i + 1] /\ u[i] = s[i] /\ i \in 1 .. m
      BY <1>1, <1>5, <2>1
    <3> QED BY <1>2, <3>1
  <2>2. CASE i > m
    <3> DEFINE j == i - m
    <3>1. j \in 1 .. n /\ i = m + j /\ i + 1 = m + (j + 1)
      BY <1>1, <2>2
    <3> HIDE DEF j
    <3>2. h[i] = g[j] /\ h[i + 1] = g[j + 1] /\ u[i] = t[j]
      BY <1>1, <1>5, <3>1
    <3> QED BY <1>3, <3>1, <3>2
  <2> QED BY <1>1, <2>1, <2>2
<1>8. Run(u, a, c)
  BY <1>1, <1>4, <1>6, <1>7 DEF Run
<1> QED BY <1>1, <1>8 DEF u

LEMMA RunStep ==
  ASSUME NEW s \in Seq(AnyAccess), s # <<>>, NEW a, NEW c, Run(s, a, c)
  PROVE  \E b \in Stage : Goes(a, Head(s), b) /\ Run(Tail(s), b, c)
<1> DEFINE n == Len(s)
           t == Tail(s)
<1>1. /\ n \in Nat \ {0} /\ t \in Seq(AnyAccess) /\ Len(t) = n - 1 /\ Head(s) = s[1]
      /\ \A i \in 1 .. n - 1 : t[i] = s[i + 1]
  BY HeadTailProperties, EmptySeq, LenProperties
<1>2. PICK f \in [1 .. n + 1 -> Stage] : /\ f[1] = a /\ f[n + 1] = c
                                         /\ \A i \in 1 .. n : Goes(f[i], s[i], f[i + 1])
  BY DEF Run
<1> HIDE DEF n, t
<1>3. Goes(a, Head(s), f[2]) /\ f[2] \in Stage
  BY <1>1, <1>2
<1> DEFINE g == [i \in 1 .. n |-> f[i + 1]]
<1>4. g \in [1 .. Len(t) + 1 -> Stage] /\ g[1] = f[2] /\ g[Len(t) + 1] = c
  BY <1>1, <1>2
<1>5. \A i \in 1 .. Len(t) : Goes(g[i], t[i], g[i + 1])
  BY <1>1, <1>2
<1>6. Run(t, f[2], c)
  BY <1>4, <1>5 DEF Run
<1> QED BY <1>3, <1>6 DEF t

-----------------------------------------------------------------------------
LEMMA AccessType ==
  ASSUME NEW name \in Name, NEW v \in {0, 1}, NEW c \in {1, 2}
  PROVE  /\ Write(name, v) \in Access /\ WriteOf(c, name, v) \in Access
         /\ Fence \in Access /\ Poll(v) \in Access
<1>1. <<name, 0>> \in Name \X {0, 1, 2} /\ <<name, c>> \in Name \X {0, 1, 2}
  OBVIOUS
<1>2. <<"isolate", 0>> \in Name \X {0, 1, 2}
  BY DEF Name, Shared
<1>3. Write(name, v) \in Access /\ WriteOf(c, name, v) \in Access
  BY <1>1 DEF Write, WriteOf, Access, AnyAccess, R
<1>4. Fence \in Access /\ Poll(v) \in Access
  BY <1>2 DEF Fence, Poll, Access, AnyAccess, R
<1> QED BY <1>3, <1>4

LEMMA RunTwo ==
  ASSUME NEW x \in Access, NEW y \in Access, NEW a \in Stage, NEW b \in Stage, NEW c \in Stage,
         Goes(a, x, b), Goes(b, y, c)
  PROVE  <<x, y>> \in Seq(Access) /\ Run(<<x, y>>, a, c)
<1> DEFINE s == <<x, y>>
           f == [i \in 1 .. 3 |-> CASE i = 1 -> a [] i = 2 -> b [] i = 3 -> c]
<1>1. /\ s \in Seq(Access) /\ Len(s) = 2 /\ s[1] = x /\ s[2] = y
      /\ f \in [1 .. 3 -> Stage] /\ f[1] = a /\ f[2] = b /\ f[3] = c
  OBVIOUS
<1> HIDE DEF s, f
<1>2. \A i \in 1 .. 2 : Goes(f[i], s[i], f[i + 1])
  BY <1>1
<1>3. Run(s, a, c)
  BY <1>1, <1>2 DEF Run
<1> QED BY <1>1, <1>3 DEF s

LEMMA RunThree ==
  ASSUME NEW x \in Access, NEW y \in Access, NEW z \in Access,
         NEW a \in Stage, NEW b \in Stage, NEW c \in Stage, NEW d \in Stage,
         Goes(a, x, b), Goes(b, y, c), Goes(c, z, d)
  PROVE  <<x, y, z>> \in Seq(Access) /\ Run(<<x, y, z>>, a, d)
<1> DEFINE s == <<x, y, z>>
           f == [i \in 1 .. 4 |-> CASE i = 1 -> a [] i = 2 -> b [] i = 3 -> c [] i = 4 -> d]
<1>1. /\ s \in Seq(Access) /\ Len(s) = 3 /\ s[1] = x /\ s[2] = y /\ s[3] = z
      /\ f \in [1 .. 4 -> Stage] /\ f[1] = a /\ f[2] = b /\ f[3] = c /\ f[4] = d
  OBVIOUS
<1> HIDE DEF s, f
<1>2. \A i \in 1 .. 3 : Goes(f[i], s[i], f[i + 1])
  BY <1>1
<1>3. Run(s, a, d)
  BY <1>1, <1>2 DEF Run
<1> QED BY <1>1, <1>3 DEF s

LEMMA RunFour ==
  ASSUME NEW w \in Access, NEW x \in Access, NEW y \in Access, NEW z \in Access,
         NEW a \in Stage, NEW b \in Stage, NEW c \in Stage, NEW d \in Stage, NEW e \in Stage,
         Goes(a, w, b), Goes(b, x, c), Goes(c, y, d), Goes(d, z, e)
  PROVE  <<w, x, y, z>> \in Seq(Access) /\ Run(<<w, x, y, z>>, a, e)
<1> DEFINE s == <<w, x, y, z>>
           f == [i \in 1 .. 5 |-> CASE i = 1 -> a [] i = 2 -> b [] i = 3 -> c
                                     [] i = 4 -> d [] i = 5 -> e]
<1>1. s \in Seq(Access) /\ Len(s) = 4 /\ s[1] = w /\ s[2] = x /\ s[3] = y /\ s[4] = z
  OBVIOUS
<1>2. f \in [1 .. 5 -> Stage] /\ f[1] = a /\ f[2] = b /\ f[3] = c /\ f[4] = d /\ f[5] = e
  OBVIOUS
<1> HIDE DEF s, f
<1>3. \A i \in 1 .. 4 : Goes(f[i], s[i], f[i + 1])
  BY <1>1, <1>2
<1>4. Run(s, a, e)
  BY <1>1, <1>2, <1>3 DEF Run
<1> QED BY <1>1, <1>4 DEF s

LEMMA FencedRun ==
  ASSUME NEW name \in Name, NEW v \in {0, 1}, NEW a \in Stage, NEW b \in Stage, NEW c \in Stage,
         Goes(a, Write(name, v), b), <<b, c>> \in Fencing
  PROVE  Fenced(name, v) \in Seq(Access) /\ Run(Fenced(name, v), a, c)
<1>1. Goes(b, Fence, c)
  BY DEF Goes
<1> QED BY <1>1, AccessType, RunTwo DEF Fenced

(* What car_set_isolate and the reset pulse do, from stage to stage.        *)
LEMMA IsolateRun ==
  /\ CarSetIsolate(1) \in Seq(Access) /\ CarSetIsolate(0) \in Seq(Access)
  /\ \A a \in Idle : Run(CarSetIsolate(1), a, "still")
  /\ Run(CarSetIsolate(0), "awake", "free")
<1>1. ASSUME NEW a \in Idle
      PROVE  CarSetIsolate(1) \in Seq(Access) /\ Run(CarSetIsolate(1), a, "still")
  <2>1. Goes(a, Write("isolate", 1), "asked") /\ Goes("closing", Poll(1), "still")
    BY DEF Goes
  <2>2. <<"asked", "closing">> \in Fencing /\ a \in Stage /\ "asked" \in Stage /\ "closing" \in Stage /\ "still" \in Stage
    BY DEF Fencing, Stage, Idle
  <2>3. Fenced("isolate", 1) \in Seq(Access) /\ Run(Fenced("isolate", 1), a, "closing")
    BY <2>1, <2>2, FencedRun DEF Name, Shared
  <2>4. <<Poll(1)>> \in Seq(Access) /\ Run(<<Poll(1)>>, "closing", "still")
    BY <2>1, <2>2, AccessType, RunOne DEF Name, Shared
  <2> QED BY <2>3, <2>4, RunConcat DEF CarSetIsolate
<1>2. CarSetIsolate(0) \in Seq(Access) /\ Run(CarSetIsolate(0), "awake", "free")
  <2>1. Goes("awake", Write("isolate", 0), "opening") /\ Goes("opened", Poll(0), "free")
    BY DEF Goes
  <2>2. <<"opening", "opened">> \in Fencing /\ "awake" \in Stage /\ "opening" \in Stage /\ "opened" \in Stage /\ "free" \in Stage
    BY DEF Fencing, Stage, Idle
  <2>3. Fenced("isolate", 0) \in Seq(Access) /\ Run(Fenced("isolate", 0), "awake", "opened")
    BY <2>1, <2>2, FencedRun DEF Name, Shared
  <2>4. <<Poll(0)>> \in Seq(Access) /\ Run(<<Poll(0)>>, "opened", "free")
    BY <2>1, <2>2, AccessType, RunOne DEF Name, Shared
  <2> QED BY <2>3, <2>4, RunConcat DEF CarSetIsolate
<1> QED BY <1>1, <1>2 DEF Idle

LEMMA PulseRun == /\ Fenced("clk", 0) \in Seq(Access) /\ Run(Fenced("clk", 0), "still", "still")
                  /\ Pulse \in Seq(Access) /\ Run(Pulse, "still", "awake")
<1>1. /\ Goes("still", Write("clk", 0), "shut") /\ Goes("still", Write("rst", 1), "shut")
      /\ Goes("still", Write("rst", 0), "lifting") /\ Goes("lifted", Write("clk", 1), "waking")
  BY DEF Goes
<1>2. /\ <<"shut", "still">> \in Fencing /\ <<"lifting", "lifted">> \in Fencing /\ <<"waking", "awake">> \in Fencing
      /\ "still" \in Stage /\ "shut" \in Stage /\ "lifting" \in Stage /\ "lifted" \in Stage /\ "waking" \in Stage /\ "awake" \in Stage
  BY DEF Fencing, Stage, Idle
<1>3. /\ Fenced("clk", 0) \in Seq(Access) /\ Run(Fenced("clk", 0), "still", "still")
      /\ Fenced("rst", 1) \in Seq(Access) /\ Run(Fenced("rst", 1), "still", "still")
  BY <1>1, <1>2, FencedRun DEF Name, Shared
<1>4. /\ Fenced("rst", 0) \in Seq(Access) /\ Run(Fenced("rst", 0), "still", "lifted")
      /\ Fenced("clk", 1) \in Seq(Access) /\ Run(Fenced("clk", 1), "lifted", "awake")
  BY <1>1, <1>2, FencedRun DEF Name, Shared
<1>5. /\ Fenced("rst", 1) \o Fenced("rst", 0) \in Seq(Access)
      /\ Run(Fenced("rst", 1) \o Fenced("rst", 0), "still", "lifted")
  BY <1>3, <1>4, RunConcat
<1> QED BY <1>3, <1>4, <1>5, RunConcat DEF Pulse

LEMMA RestartRun == CarRestart \in Seq(Access) /\ \A a \in Idle : Run(CarRestart, a, "free")
<1> SUFFICES ASSUME NEW a \in Idle PROVE CarRestart \in Seq(Access) /\ Run(CarRestart, a, "free")
  BY DEF Idle
<1> DEFINE s == CarSetIsolate(1) \o Fenced("clk", 0)
<1>1. s \in Seq(Access) /\ Run(s, a, "still")
  BY IsolateRun, PulseRun, RunConcat
<1> HIDE DEF s
<1>2. s \o Pulse \in Seq(Access) /\ Run(s \o Pulse, a, "awake")
  BY <1>1, PulseRun, RunConcat
<1>3. /\ (s \o Pulse) \o CarSetIsolate(0) \in Seq(Access)
      /\ Run((s \o Pulse) \o CarSetIsolate(0), a, "free")
  BY <1>2, IsolateRun, RunConcat
<1> QED BY <1>3 DEF CarRestart, s

(* A write to another register changes no stage.                            *)
LEMMA NeutralGoes ==
  ASSUME NEW a, NEW v \in {0, 1}, NEW c \in {1, 2}, NEW name
  PROVE  /\ name \notin {"isolate", "rst", "clk", "ownBoot"} => Goes(a, Write(name, v), a)
         /\ Goes(a, WriteOf(c, name, v), a)
  BY DEF Goes, Neutral, Critical, Write, WriteOf, R

LEMMA InitRun == CarInit \in Seq(Access) /\ \A a \in Idle : Run(CarInit, a, a)
<1> SUFFICES ASSUME NEW a \in Idle PROVE CarInit \in Seq(Access) /\ Run(CarInit, a, a)
  BY DEF Idle
<1>1. Write("h2a", 1) \in Access /\ Write("a2h", 1) \in Access /\ a \in Stage
  BY AccessType DEF Name, Shared, Stage
<1>2. Goes(a, Write("h2a", 1), a) /\ Goes(a, Write("a2h", 1), a)
  BY NeutralGoes
<1> QED BY <1>1, <1>2, RunTwo DEF CarInit

LEMMA SafetyResetRun == SafetyReset \in Seq(Access) /\ \A a \in Idle : Run(SafetyReset, a, "free")
<1> SUFFICES ASSUME NEW a \in Idle PROVE SafetyReset \in Seq(Access) /\ Run(SafetyReset, a, "free")
  BY DEF Idle
<1> DEFINE s == CarSetIsolate(1) \o Fenced("fetch", 0)
           t == s \o Fenced("clk", 0)
           u == t \o Pulse
<1>1. Fenced("fetch", 0) \in Seq(Access) /\ Run(Fenced("fetch", 0), "still", "still")
  <2>1. Goes("still", Write("fetch", 0), "still")
    BY NeutralGoes
  <2>2. <<"still", "still">> \in Fencing /\ "still" \in Stage
    BY DEF Fencing, Stage, Idle
  <2> QED BY <2>1, <2>2, FencedRun DEF Name, Shared
<1>2. s \in Seq(Access) /\ Run(s, a, "still")
  BY <1>1, IsolateRun, RunConcat
<1> HIDE DEF s
<1>3. t \in Seq(Access) /\ Run(t, a, "still")
  BY <1>2, PulseRun, RunConcat
<1> HIDE DEF t
<1>4. u \in Seq(Access) /\ Run(u, a, "awake")
  BY <1>3, PulseRun, RunConcat
<1> HIDE DEF u
<1>5. u \o CarSetIsolate(0) \in Seq(Access) /\ Run(u \o CarSetIsolate(0), a, "free")
  BY <1>4, IsolateRun, RunConcat
<1> QED BY <1>5 DEF SafetyReset, s, t, u

LEMMA SpatzResetRun == SpatzReset \in Seq(Access) /\ \A a \in Idle : Run(SpatzReset, a, "free")
<1> SUFFICES ASSUME NEW a \in Idle PROVE SpatzReset \in Seq(Access) /\ Run(SpatzReset, a, "free")
  BY DEF Idle
<1> DEFINE s == CarSetIsolate(1) \o <<Fence>>
           t == s \o Fenced("clk", 0)
           u == t \o ClearIrq(1)
           v == u \o ClearIrq(2)
           w == v \o Pulse
<1>1. "still" \in Stage /\ <<"still", "still">> \in Fencing
  BY DEF Fencing, Stage, Idle
<1>2. <<Fence>> \in Seq(Access) /\ Run(<<Fence>>, "still", "still")
  <2>1. Fence \in Access /\ Goes("still", Fence, "still")
    BY <1>1, AccessType DEF Goes, Name, Shared
  <2> QED BY <1>1, <2>1, RunOne
<1>3. ASSUME NEW c \in {1, 2}
      PROVE  ClearIrq(c) \in Seq(Access) /\ Run(ClearIrq(c), "still", "still")
  <2>1. /\ Goes("still", WriteOf(c, "sndEn", 0), "still")
        /\ Goes("still", WriteOf(c, "sndClr", 1), "still")
        /\ Goes("still", WriteOf(c, "rcvClr", 1), "still")
    BY NeutralGoes
  <2>2. /\ WriteOf(c, "sndEn", 0) \in Access /\ WriteOf(c, "sndClr", 1) \in Access
        /\ WriteOf(c, "rcvClr", 1) \in Access
    BY AccessType DEF Name
  <2> QED BY <1>1, <2>1, <2>2, RunThree DEF ClearIrq
<1>4. s \in Seq(Access) /\ Run(s, a, "still")
  BY <1>2, IsolateRun, RunConcat
<1> HIDE DEF s
<1>5. t \in Seq(Access) /\ Run(t, a, "still")
  BY <1>4, PulseRun, RunConcat
<1> HIDE DEF t
<1>6. u \in Seq(Access) /\ Run(u, a, "still")
  BY <1>3, <1>5, RunConcat
<1> HIDE DEF u
<1>7. v \in Seq(Access) /\ Run(v, a, "still")
  BY <1>3, <1>6, RunConcat
<1> HIDE DEF v
<1>8. w \in Seq(Access) /\ Run(w, a, "awake")
  BY <1>7, PulseRun, RunConcat
<1> HIDE DEF w
<1>9. w \o CarSetIsolate(0) \in Seq(Access) /\ Run(w \o CarSetIsolate(0), a, "free")
  BY <1>8, IsolateRun, RunConcat
<1> QED BY <1>9 DEF SpatzReset, s, t, u, v, w

LEMMA SafetyStartRun == SafetyStart \in Seq(Access) /\ \A a \in Idle : Run(SafetyStart, a, "free")
<1> SUFFICES ASSUME NEW a \in Idle PROVE SafetyStart \in Seq(Access) /\ Run(SafetyStart, a, "free")
  BY DEF Idle
<1> DEFINE s == <<Write("boot", 1), Write("ownBoot", 1), Fence, Write("fetch", 1)>>
<1>1. "free" \in Stage /\ "telling" \in Stage /\ <<"telling", "free">> \in Fencing
  BY DEF Fencing, Stage, Idle
<1>2. /\ Write("boot", 1) \in Access /\ Write("ownBoot", 1) \in Access
      /\ Fence \in Access /\ Write("fetch", 1) \in Access
  BY AccessType DEF Name, Shared
<1>3. Goes("free", Write("boot", 1), "free") /\ Goes("free", Write("fetch", 1), "free")
  BY NeutralGoes
<1>4. Goes("free", Write("ownBoot", 1), "telling") /\ Goes("telling", Fence, "free")
  BY <1>1 DEF Goes
<1>5. s \in Seq(Access) /\ Run(s, "free", "free")
  BY <1>1, <1>2, <1>3, <1>4, RunFour
<1> HIDE DEF s
<1>6. CarRestart \o s \in Seq(Access) /\ Run(CarRestart \o s, a, "free")
  BY <1>5, RestartRun, RunConcat
<1> QED BY <1>6 DEF SafetyStart, s

LEMMA SpatzStartRun == SpatzStart \in Seq(Access) /\ \A a \in Idle : Run(SpatzStart, a, "free")
<1> SUFFICES ASSUME NEW a \in Idle PROVE SpatzStart \in Seq(Access) /\ Run(SpatzStart, a, "free")
  BY DEF Idle
<1> DEFINE s == CarRestart \o Fenced("ownBoot", 1)
           t == s \o RaiseIrq(1)
<1>1. "free" \in Stage /\ "telling" \in Stage /\ <<"telling", "free">> \in Fencing
  BY DEF Fencing, Stage, Idle
<1>2. Fenced("ownBoot", 1) \in Seq(Access) /\ Run(Fenced("ownBoot", 1), "free", "free")
  <2>1. Goes("free", Write("ownBoot", 1), "telling")
    BY DEF Goes
  <2> QED BY <1>1, <2>1, FencedRun DEF Name, Shared
<1>3. ASSUME NEW c \in {1, 2}
      PROVE  RaiseIrq(c) \in Seq(Access) /\ Run(RaiseIrq(c), "free", "free")
  <2>1. /\ Goes("free", WriteOf(c, "sndEn", 1), "free")
        /\ Goes("free", WriteOf(c, "sndSet", 1), "free")
    BY NeutralGoes
  <2>2. WriteOf(c, "sndEn", 1) \in Access /\ WriteOf(c, "sndSet", 1) \in Access
    BY AccessType DEF Name
  <2> QED BY <1>1, <2>1, <2>2, RunTwo DEF RaiseIrq
<1>4. s \in Seq(Access) /\ Run(s, a, "free")
  BY <1>2, RestartRun, RunConcat
<1> HIDE DEF s
<1>5. t \in Seq(Access) /\ Run(t, a, "free")
  BY <1>3, <1>4, RunConcat
<1> HIDE DEF t
<1>6. t \o RaiseIrq(2) \in Seq(Access) /\ Run(t \o RaiseIrq(2), a, "free")
  BY <1>3, <1>5, RunConcat
<1> QED BY <1>6 DEF SpatzStart, s, t

(* The calls of Occamy have no stages: none writes the accelerator's own boot *)
(* register.  They write all bits of the isolation, or none.                *)
Plain == {x \in AnyAccess : /\ x.to # R("ownBoot")
                      /\ x.val \in IF x.to = R("isolate") THEN {0, 15} ELSE {0, 1}}
Quiet(s) == \A i \in DOMAIN s : s[i].to # R("ownBoot")

LEMMA Joins == ASSUME NEW s \in Seq(Plain), NEW t \in Seq(Plain) PROVE s \o t \in Seq(Plain)
  BY ConcatProperties

LEMMA PlainQuiet == ASSUME NEW s \in Seq(Plain) PROVE s \in Seq(AnyAccess) /\ Quiet(s)
<1>1. s \in [1 .. Len(s) -> Plain] /\ Len(s) \in Nat
  OBVIOUS
<1>2. \A i \in DOMAIN s : s[i] \in AnyAccess /\ s[i].to # R("ownBoot")
  BY <1>1 DEF Plain
<1>3. s \in [1 .. Len(s) -> AnyAccess]
  BY <1>1, <1>2
<1> QED BY <1>1, <1>2, <1>3 DEF Quiet

LEMMA OccamyType ==
  /\ OccamyInit \in Seq(Plain) /\ OccamyReset \in Seq(Plain) /\ OccamyStart \in Seq(Plain)
<1>1. ASSUME NEW name \in Name \ {"ownBoot"}, NEW v \in IF name = "isolate" THEN {0, 15} ELSE {0, 1}
      PROVE  Write(name, v) \in Plain /\ Fence \in Plain
  <2>1. <<name, 0>> \in Name \X {0, 1, 2} /\ <<"isolate", 0>> \in Name \X {0, 1, 2} /\ v \in {0, 1, 15}
    BY DEF Name, Shared
  <2>2. Write(name, v) \in AnyAccess /\ Fence \in AnyAccess
    BY <2>1 DEF Write, Fence, R, AnyAccess
  <2>3. /\ Write(name, v).to # R("ownBoot") /\ Fence.to # R("ownBoot")
        /\ Write(name, v).to = R("isolate") <=> name = "isolate"
        /\ Write(name, v).val = v /\ Fence.val = 0
    BY DEF Write, Fence, R
  <2>4. Write(name, v) \in Plain
    BY <2>2, <2>3 DEF Plain
  <2>5. Fence \in Plain
    BY <2>2, <2>3 DEF Plain
  <2> QED BY <2>4, <2>5
<1>2. /\ "isolate" \in Name /\ "rst" \in Name /\ "boot" \in Name /\ "clint" \in Name
      /\ "layout" \in Name /\ "scratch2" \in Name /\ "tlb" \in Name /\ "tlbEnable" \in Name
  BY DEF Name, Shared
<1>3. /\ \A name \in Name \ {"ownBoot", "isolate"}, v \in {0, 1} :
           Fenced(name, v) \in Seq(Plain) /\ <<Write(name, v)>> \in Seq(Plain)
      /\ \A v \in {0, 15} : Fenced("isolate", v) \in Seq(Plain)
  <2>1. \A name \in Name \ {"ownBoot", "isolate"}, v \in {0, 1} : Write(name, v) \in Plain /\ Fence \in Plain
    BY <1>1
  <2>2. \A v \in {0, 15} : Write("isolate", v) \in Plain /\ Fence \in Plain
    BY <1>1, <1>2
  <2> QED BY <2>1, <2>2 DEF Fenced
<1>4. <<Fence>> \in Seq(Plain)
  BY <1>1, <1>2
<1>5. ClintSetIrq \in Seq(Plain) /\ ClintClearIrq \in Seq(Plain) /\ OccamyTlb \in Seq(Plain)
  BY <1>2, <1>3 DEF ClintSetIrq, ClintClearIrq, OccamyTlb
<1>6. OccamySetIsolation(1) \in Seq(Plain) /\ OccamySetIsolation(0) \in Seq(Plain)
  <2>1. 15 * 1 = 15 /\ 15 * 0 = 0
    OBVIOUS
  <2> QED BY <1>3, <2>1 DEF OccamySetIsolation
<1>7. OccamyInit \in Seq(Plain)
  <2>1. <<Write("layout", 1), Write("scratch2", 1)>> \in Seq(Plain)
    BY <1>1, <1>2
  <2>2. <<Write("tlbEnable", 1)>> \in Seq(Plain)
    BY <1>2, <1>3
  <2> QED BY <1>5, <2>1, <2>2, Joins DEF OccamyInit
<1>8. OccamyStart \in Seq(Plain)
  BY <1>2, <1>3, <1>5, Joins DEF OccamyStart
<1>9. OccamyReset \in Seq(Plain)
  <2> DEFINE s == OccamySetIsolation(1) \o <<Write("rst", 1)>>
             t == s \o ClintClearIrq
             u == t \o <<Fence>>
             v == u \o Fenced("rst", 0)
  <2>1. s \in Seq(Plain)
    BY <1>2, <1>3, <1>6, Joins
  <2> HIDE DEF s
  <2>2. t \in Seq(Plain)
    BY <1>5, <2>1, Joins
  <2> HIDE DEF t
  <2>3. u \in Seq(Plain)
    BY <1>4, <2>2, Joins
  <2> HIDE DEF u
  <2>4. v \in Seq(Plain)
    BY <1>2, <1>3, <2>3, Joins
  <2> HIDE DEF v
  <2>5. v \o OccamySetIsolation(0) \in Seq(Plain)
    BY <1>6, <2>4, Joins
  <2> QED BY <2>5 DEF OccamyReset, s, t, u, v
<1> QED BY <1>7, <1>8, <1>9

CallName == {"init", "reset", "start", "munmap"}

LEMMA AccessesType ==
  ASSUME NEW c \in CallName, platform \in {"safety", "spatz", "occamy"}
  PROVE  LET s == Accesses[c][platform]
         IN  s \in Seq(AnyAccess) /\ \A i \in DOMAIN s : s[i].val \in Values(s[i].to)
<1> DEFINE s == Accesses[c][platform]
<1>1. CASE platform = "occamy"
  <2>1. s \in Seq(Plain)
    <3>1. s \in {OccamyInit, OccamyReset, OccamyStart, <<>>}
      BY <1>1 DEF Accesses, CallName
    <3>2. <<>> \in Seq(Plain)
      OBVIOUS
    <3> HIDE DEF s
    <3> QED BY <3>1, <3>2, OccamyType
  <2> HIDE DEF s
  <2>2. s \in Seq(AnyAccess)
    BY <2>1, PlainQuiet
  <2>3. \A i \in DOMAIN s : s[i] \in Plain
    BY <2>1
  <2>4. \A x \in Plain : x.val \in Values(x.to)
    BY <1>1 DEF Plain, Values, IsolateMask
  <2>5. \A i \in DOMAIN s : s[i].val \in Values(s[i].to)
    BY <2>3, <2>4
  <2> QED BY <2>2, <2>5 DEF s
<1>2. CASE platform # "occamy"
  <2>1. s \in Seq(Access)
    <3>1. s \in {CarInit, SafetyReset, SpatzReset, SafetyStart, SpatzStart, CarRestart, <<>>}
      BY <1>2 DEF Accesses, CallName
    <3>2. <<>> \in Seq(Access)
      OBVIOUS
    <3> HIDE DEF s
    <3> QED BY <3>1, <3>2, InitRun, SafetyResetRun, SpatzResetRun, SafetyStartRun, SpatzStartRun,
               RestartRun
  <2> HIDE DEF s
  <2>2. s \in [1 .. Len(s) -> Access] /\ Len(s) \in Nat
    BY <2>1
  <2>3. \A i \in DOMAIN s : s[i] \in AnyAccess /\ s[i].val \in {0, 1}
    BY <2>2 DEF Access
  <2>4. s \in [1 .. Len(s) -> AnyAccess]
    BY <2>2, <2>3
  <2>5. \A r : Values(r) = {0, 1}
    BY <1>2 DEF Values, IsolateMask
  <2>6. s \in Seq(AnyAccess)
    BY <2>2, <2>4
  <2> QED BY <2>3, <2>5, <2>6 DEF s
<1> QED BY <1>1, <1>2

LEMMA AccessesQuiet == ASSUME NEW c \in CallName \ {"munmap"} PROVE Quiet(Accesses[c]["occamy"])
  BY OccamyType, PlainQuiet DEF Accesses, CallName

LEMMA AccessesRun ==
  ASSUME NEW c \in CallName, NEW p \in {"safety", "spatz"}, NEW a \in Idle
  PROVE  \E e \in Idle : Run(Accesses[c][p], a, e)
<1>1. Run(<<>>, a, a) /\ "free" \in Idle
  BY RunNothing DEF Stage, Idle
<1> QED BY <1>1, InitRun, SafetyResetRun, SpatzResetRun, SafetyStartRun, SpatzStartRun,
           RestartRun DEF Accesses, CallName

-----------------------------------------------------------------------------
(* No write to register r is on its way; or all that are write v, and once  *)
(* they have arrived r holds v.                                             *)
None(r) == \A i \in DOMAIN posted : posted[i].to # R(r)
Toward(r, v) == /\ \A i \in DOMAIN posted : posted[i].to = R(r) => posted[i].val = v
                /\ None(r) => Val(r) = v
Settled(r, v) == None(r) /\ Val(r) = v

Shut == Settled("isolate", 1) /\ isolated = 1 /\ None("ownBoot")
Clocked == Settled("rst", 0) /\ Settled("clk", 1)
Guarded == Val("rst") = 1 \/ Val("clk") = 0 => Val("isolate") = 1 /\ isolated = 1

(* What each stage says.                                                    *)
Holds(st) ==
  /\ st = "still"   => Shut /\ None("rst") /\ None("clk")
  /\ st = "shut"    => Shut
  /\ st = "lifting" => Shut /\ Toward("rst", 0) /\ None("clk")
  /\ st = "lifted"  => Shut /\ Settled("rst", 0) /\ None("clk")
  /\ st = "waking"  => Shut /\ Settled("rst", 0) /\ Toward("clk", 1)
  /\ st = "awake"   => Shut /\ Clocked
  /\ st = "opening" => Toward("isolate", 0) /\ Clocked /\ None("ownBoot")
  /\ st = "opened"  => Settled("isolate", 0) /\ Clocked /\ None("ownBoot")
  /\ st = "free"    => Settled("isolate", 0) /\ isolated = 0 /\ Clocked /\ None("ownBoot")
  /\ st = "telling" => Settled("isolate", 0) /\ isolated = 0 /\ Clocked
  /\ st = "asked"   => /\ Toward("isolate", 1) /\ Guarded
                       /\ None("rst") /\ None("clk") /\ None("ownBoot")
  /\ st = "closing" => /\ Settled("isolate", 1) /\ Guarded
                       /\ None("rst") /\ None("clk") /\ None("ownBoot")

Phased == platform # "occamy" =>
            \E st \in Stage, e \in Idle : Holds(st) /\ Run(todo, st, e)

IInv == /\ TypeOK
        /\ posted \in Seq(AnyAccess) /\ todo \in Seq(AnyAccess)
        /\ call = "none" => todo = <<>>
        /\ isolated = 1 => ~busy
        /\ Phased
        /\ platform = "occamy" => Quiet(posted) /\ Quiet(todo)

Sure == {"isolate", "rst", "clk"}

LEMMA Posted ==
  ASSUME posted \in Seq(AnyAccess), NEW x \in AnyAccess, posted' = Append(posted, x), reg' = reg,
         NEW r, NEW v
  PROVE  /\ x.to # R(r) => /\ None(r) => None(r)'
                           /\ Settled(r, v) => Settled(r, v)'
                           /\ Toward(r, v) => Toward(r, v)'
         /\ x.to = R(r) /\ x.val = v /\ None(r) => Toward(r, v)'
<1> DEFINE n == Len(posted)
<1>1. /\ n \in Nat /\ DOMAIN posted = 1 .. n /\ DOMAIN posted' = 1 .. n + 1
      /\ \A i \in 1 .. n : posted'[i] = posted[i]
      /\ posted'[n + 1] = x
  BY LenProperties, AppendProperties
<1> HIDE DEF n
<1>2. /\ \A i \in DOMAIN posted' : \/ i \in DOMAIN posted /\ posted'[i] = posted[i]
                                 \/ posted'[i] = x
      /\ \A i \in DOMAIN posted : i \in DOMAIN posted' /\ posted'[i] = posted[i]
      /\ n + 1 \in DOMAIN posted'
  BY <1>1
<1>3. Val(r)' = Val(r)
  BY DEF Val, R
<1>4. R(r)' = R(r)
  BY DEF R
<1>5. x.to # R(r) => /\ None(r) => None(r)'
                     /\ None(r)' => None(r)
  BY <1>2, <1>4 DEF None
<1>6. x.to # R(r) => (Toward(r, v) => Toward(r, v)')
  BY <1>2, <1>3, <1>4, <1>5 DEF Toward
<1>7. x.to = R(r) /\ x.val = v /\ None(r) => Toward(r, v)'
  BY <1>1, <1>2, <1>4 DEF Toward, None
<1> QED BY <1>3, <1>5, <1>6, <1>7 DEF Settled

LEMMA Arrived ==
  ASSUME posted = <<>>, NEW r, NEW v
  PROVE  None(r) /\ (Toward(r, v) => Settled(r, v))
  BY DEF None, Toward, Settled

(* Taking write i out of the posted ones.                                   *)
LEMMA Removed ==
  ASSUME NEW s \in Seq(AnyAccess), NEW i \in DOMAIN s
  PROVE  /\ RemoveAt(s, i) \in Seq(AnyAccess)
         /\ \A j \in DOMAIN RemoveAt(s, i) : \E k \in DOMAIN s : k # i /\ RemoveAt(s, i)[j] = s[k]
         /\ \A k \in DOMAIN s : k # i => \E j \in DOMAIN RemoveAt(s, i) : RemoveAt(s, i)[j] = s[k]
<1> DEFINE n == Len(s)
           a == SubSeq(s, 1, i - 1)
           b == SubSeq(s, i + 1, n)
           t == RemoveAt(s, i)
<1>1. n \in Nat /\ i \in 1 .. n /\ DOMAIN s = 1 .. n /\ \A k \in 1 .. n : s[k] \in AnyAccess
  BY LenProperties, ElementOfSeq
<1>2. a \in Seq(AnyAccess) /\ Len(a) = i - 1 /\ \A j \in 1 .. i - 1 : a[j] = s[j]
  BY <1>1
<1>3. b \in Seq(AnyAccess) /\ Len(b) = n - i /\ \A j \in 1 .. n - i : b[j] = s[i + j]
  BY <1>1, SMTT(30)
<1> HIDE DEF a, b, n
<1>4. t = a \o b
  BY DEF RemoveAt, a, b, n
<1>5. /\ t \in Seq(AnyAccess) /\ Len(t) = n - 1
      /\ \A j \in 1 .. n - 1 : t[j] = IF j < i THEN s[j] ELSE s[j + 1]
  <2>1. /\ a \o b \in Seq(AnyAccess) /\ Len(a \o b) = n - 1
        /\ \A j \in 1 .. n - 1 : (a \o b)[j] = IF j <= i - 1 THEN a[j] ELSE b[j - (i - 1)]
    <3>1. Len(a) + Len(b) = n - 1
      BY <1>1, <1>2, <1>3
    <3>2. a \in Seq(AnyAccess) /\ b \in Seq(AnyAccess)
      BY <1>2, <1>3
    <3>3. /\ a \o b \in Seq(AnyAccess) /\ Len(a \o b) = Len(a) + Len(b)
          /\ \A j \in 1 .. Len(a) + Len(b) :
               (a \o b)[j] = IF j <= Len(a) THEN a[j] ELSE b[j - Len(a)]
      BY <3>2, ConcatProperties
    <3> QED BY <1>2, <3>1, <3>3
  <2>2. \A j \in 1 .. n - 1 : t[j] = IF j < i THEN s[j] ELSE s[j + 1]
    <3> SUFFICES ASSUME NEW j \in 1 .. n - 1 PROVE t[j] = IF j < i THEN s[j] ELSE s[j + 1]
      OBVIOUS
    <3>1. CASE j <= i - 1
      BY <1>1, <1>2, <1>4, <2>1, <3>1
    <3>2. CASE j > i - 1
      <4>1. j - (i - 1) \in 1 .. n - i /\ i + (j - (i - 1)) = j + 1 /\ ~(j <= i - 1) /\ ~(j < i)
        BY <1>1, <3>2
      <4> QED BY <1>3, <1>4, <2>1, <4>1, SMTT(30)
    <3> QED BY <1>1, <3>1, <3>2
  <2> QED BY <1>4, <2>1, <2>2
<1> HIDE DEF t
<1>6. DOMAIN t = 1 .. n - 1
  BY <1>1, <1>5
<1>7. ASSUME NEW j \in DOMAIN t PROVE \E k \in DOMAIN s : k # i /\ t[j] = s[k]
  <2>1. CASE j < i
    <3>1. j \in DOMAIN s /\ j # i /\ t[j] = s[j]
      BY <1>1, <1>5, <1>6, <2>1
    <3> QED BY <3>1
  <2>2. CASE j >= i
    <3>1. j + 1 \in DOMAIN s /\ j + 1 # i /\ t[j] = s[j + 1]
      BY <1>1, <1>5, <1>6, <2>2
    <3> QED BY <3>1
  <2> QED BY <1>1, <1>6, <2>1, <2>2
<1>8. ASSUME NEW k \in DOMAIN s, k # i PROVE \E j \in DOMAIN t : t[j] = s[k]
  <2>1. CASE k < i
    <3>1. k \in DOMAIN t /\ t[k] = s[k]
      BY <1>1, <1>5, <1>6, <2>1
    <3> QED BY <3>1
  <2>2. CASE k > i
    <3>1. k - 1 \in DOMAIN t /\ t[k - 1] = s[k]
      BY <1>1, <1>5, <1>6, <2>2
    <3> QED BY <3>1
  <2> QED BY <1>1, <1>8, <2>1, <2>2
<1> QED BY <1>5, <1>7, <1>8 DEF t

LEMMA LandedValue ==
  ASSUME TypeOK, NEW i \in DOMAIN posted, Land(i), NEW r \in Sure
  PROVE  Val(r)' = IF posted[i].to = R(r) THEN posted[i].val ELSE Val(r)
<1> DEFINE w == posted[i]
<1>a. reg' = After(w) /\ Val(r)' = reg'[R(r)] /\ Val(r) = reg[R(r)]
  BY DEF Land, Val, R
<1>1. R(r) \in Register /\ R(r) # R("ownBoot") /\ R(r)[1] # "irq" /\ reg \in [Register -> {0, 1, IsolateMask}]
  BY DEF Sure, R, Register, Shared, TypeOK
<1>2. /\ R(r) # R("clint") /\ R(r)[1] # "sndSet" /\ R(r)[1] # "sndClr" /\ R(r)[1] # "rcvClr"
      /\ R(r)[2] = 0
  BY DEF Sure, R
<1> HIDE DEF w
<1>3. CASE w.to = R("rst") /\ w.val = 1
  <2>1. reg' = [reg EXCEPT ![R("rst")] = 1, ![R("ownBoot")] = 0]
    <3>1. w.to # R("clint") /\ w.to[1] \notin {"sndSet", "sndClr", "rcvClr"}
      BY <1>3 DEF R
    <3> QED BY <1>a, <1>3, <3>1 DEF After
  <2>2. reg'[R(r)] = IF R(r) = R("rst") THEN 1 ELSE reg[R(r)]
    BY <1>1, <2>1
  <2> QED BY <1>a, <1>3, <2>2 DEF w
<1>4. CASE ~(w.to = R("rst") /\ w.val = 1) /\ w.to = R("clint")
  BY <1>a, <1>1, <1>2, <1>4 DEF After, w
<1>5. CASE w.to # R("rst") /\ w.to # R("clint") /\ w.to[1] \in {"sndSet", "sndClr"}
  <2>1. R(r) # <<"irq", w.to[2]>>
    BY <1>1
  <2> QED BY <1>a, <1>1, <1>2, <1>5, <2>1 DEF After, R, w
<1>7. CASE w.to # R("rst") /\ w.to # R("clint") /\ w.to[1] = "rcvClr"
  BY <1>a, <1>2, <1>7 DEF After, R, w
<1>6. CASE ~(w.to = R("rst") /\ w.val = 1) /\ w.to # R("clint") /\ w.to[1] \notin {"sndSet", "sndClr", "rcvClr"}
  BY <1>a, <1>1, <1>6 DEF After, w
<1> QED BY <1>3, <1>4, <1>5, <1>6, <1>7 DEF R

LEMMA Landed ==
  ASSUME TypeOK, posted \in Seq(AnyAccess), NEW i \in DOMAIN posted, Land(i), NEW r, NEW v
  PROVE  /\ None(r) => None(r)'
         /\ r \in Sure => /\ Settled(r, v) => Settled(r, v)'
                          /\ Toward(r, v) => Toward(r, v)'
<1> DEFINE w == posted[i]
<1>1. /\ \A j \in DOMAIN posted' : \E k \in DOMAIN posted : k # i /\ posted'[j] = posted[k]
      /\ \A k \in DOMAIN posted : k # i => \E j \in DOMAIN posted' : posted'[j] = posted[k]
      /\ reg' = After(w)
  <2>1. posted' = RemoveAt(posted, i) /\ reg' = After(w)
    BY DEF Land
  <2> DEFINE t == RemoveAt(posted, i)
  <2>2. /\ \A j \in DOMAIN t : \E k \in DOMAIN posted : k # i /\ t[j] = posted[k]
        /\ \A k \in DOMAIN posted : k # i => \E j \in DOMAIN t : t[j] = posted[k]
    BY Removed
  <2>3. posted' = t
    BY <2>1
  <2> HIDE DEF w, t
  <2> QED BY <2>1, <2>2, <2>3
<1>2. R(r)' = R(r) /\ Val(r)' = reg'[R(r)] /\ Val(r) = reg[R(r)]
  BY DEF R, Val
<1>3. None(r) => None(r)'
  BY <1>1, <1>2 DEF None
<1>4. r \in Sure => Val(r)' = IF w.to = R(r) THEN w.val ELSE Val(r)
  BY LandedValue
<1>5. ASSUME r \in Sure, Settled(r, v) PROVE Settled(r, v)'
  BY <1>3, <1>4, <1>5 DEF Settled, None
<1>6. ASSUME r \in Sure, Toward(r, v) PROVE Toward(r, v)'
  <2>1. \A j \in DOMAIN posted' : posted'[j].to = R(r) => posted'[j].val = v
    BY <1>1, <1>6 DEF Toward
  <2>2. ASSUME None(r)' PROVE Val(r)' = v
    <3>1. CASE w.to = R(r)
      BY <1>4, <1>6, <3>1 DEF Toward
    <3>2. CASE w.to # R(r)
      <4>1. None(r)
        BY <1>1, <1>2, <2>2, <3>2 DEF None
      <4> QED BY <1>4, <1>6, <3>2, <4>1 DEF Toward
    <3> QED BY <3>1, <3>2
  <2> QED BY <1>2, <2>1, <2>2 DEF Toward
<1> QED BY <1>3, <1>5, <1>6

-----------------------------------------------------------------------------
(* Each access takes what one stage says to what the next one says.         *)
LEMMA PostHolds ==
  ASSUME posted \in Seq(AnyAccess), NEW x \in AnyAccess, x.do = "write",
         posted' = Append(posted, x), UNCHANGED <<reg, isolated>>,
         NEW a, NEW b, Goes(a, x, b), Holds(a)
  PROVE  Holds(b)'
<1>1. \A r \in Sure \cup {"ownBoot"}, v \in {0, 1} :
        /\ x.to # R(r) => /\ None(r) => None(r)'
                          /\ Settled(r, v) => Settled(r, v)'
                          /\ Toward(r, v) => Toward(r, v)'
        /\ x.to = R(r) /\ x.val = v /\ None(r) => Toward(r, v)'
        /\ Val(r)' = Val(r)
  BY Posted DEF Val, R
<1>2. Guarded => Guarded'
  BY <1>1 DEF Guarded, Sure
<1>3. Fence.do = "fence" /\ \A v \in {0, 1} : Poll(v).do = "poll"
  BY DEF Fence, Poll
<1>4. \A name, v : Write(name, v).to = R(name) /\ Write(name, v).val = v
  BY DEF Write
<1>5. \A q, r \in Sure \cup {"ownBoot"} : q # r => R(q) # R(r)
  BY DEF R
<1>6. CASE Neutral(x) /\ b = a
  <2>1. \A r \in Sure \cup {"ownBoot"} : x.to # R(r)
    BY <1>6 DEF Neutral, Critical, Sure
  <2>2. \A r \in Sure \cup {"ownBoot"}, v \in {0, 1} :
          /\ None(r) => None(r)'
          /\ Settled(r, v) => Settled(r, v)'
          /\ Toward(r, v) => Toward(r, v)'
    BY <1>1, <2>1
  <2>3. Shut => Shut'
    BY <2>2 DEF Shut, Sure
  <2>4. Clocked => Clocked'
    BY <2>2 DEF Clocked, Sure
  <2> QED BY <1>2, <1>6, <2>2, <2>3, <2>4 DEF Holds, Sure
<1>7. CASE x = Write("isolate", 1) /\ a \in Idle /\ b = "asked"
  <2>1. /\ None("isolate") /\ None("rst") /\ None("clk") /\ None("ownBoot")
        /\ Guarded
    BY <1>7 DEF Holds, Shut, Clocked, Settled, Guarded, Idle
  <2>2. x.to = R("isolate") /\ x.val = 1
    BY <1>4, <1>7
  <2>3. Toward("isolate", 1)' /\ None("rst")' /\ None("clk")' /\ None("ownBoot")'
    BY <1>1, <1>5, <2>1, <2>2 DEF Sure
  <2> QED BY <1>2, <1>7, <2>1, <2>3 DEF Holds
<1>8. CASE x \in {Write("clk", 0), Write("rst", 1)} /\ a = "still" /\ b = "shut"
  <2>1. x.to = R("clk") \/ x.to = R("rst")
    BY <1>4, <1>8
  <2>2. Settled("isolate", 1) /\ None("ownBoot") /\ isolated = 1
    BY <1>8 DEF Holds, Shut
  <2>3. Settled("isolate", 1)' /\ None("ownBoot")'
    BY <1>1, <1>5, <2>1, <2>2 DEF Sure
  <2> QED BY <1>8, <2>2, <2>3 DEF Holds, Shut
<1>9. CASE x = Write("rst", 0) /\ a = "still" /\ b = "lifting"
  <2>1. x.to = R("rst") /\ x.val = 0
    BY <1>4, <1>9
  <2>2. Settled("isolate", 1) /\ None("ownBoot") /\ isolated = 1 /\ None("rst") /\ None("clk")
    BY <1>9 DEF Holds, Shut
  <2>3. Settled("isolate", 1)' /\ None("ownBoot")' /\ None("clk")' /\ Toward("rst", 0)'
    BY <1>1, <1>5, <2>1, <2>2 DEF Sure
  <2> QED BY <1>9, <2>2, <2>3 DEF Holds, Shut
<1>10. CASE x = Write("clk", 1) /\ a = "lifted" /\ b = "waking"
  <2>1. x.to = R("clk") /\ x.val = 1
    BY <1>4, <1>10
  <2>2. Settled("isolate", 1) /\ None("ownBoot") /\ isolated = 1 /\ Settled("rst", 0) /\ None("clk")
    BY <1>10 DEF Holds, Shut
  <2>3. Settled("isolate", 1)' /\ None("ownBoot")' /\ Settled("rst", 0)' /\ Toward("clk", 1)'
    BY <1>1, <1>5, <2>1, <2>2 DEF Sure
  <2> QED BY <1>10, <2>2, <2>3 DEF Holds, Shut
<1>11. CASE x = Write("isolate", 0) /\ a = "awake" /\ b = "opening"
  <2>1. x.to = R("isolate") /\ x.val = 0
    BY <1>4, <1>11
  <2>2. None("isolate") /\ None("ownBoot") /\ Settled("rst", 0) /\ Settled("clk", 1)
    BY <1>11 DEF Holds, Shut, Clocked, Settled
  <2>3. Toward("isolate", 0)' /\ None("ownBoot")' /\ Settled("rst", 0)' /\ Settled("clk", 1)'
    BY <1>1, <1>5, <2>1, <2>2 DEF Sure
  <2> QED BY <1>11, <2>3 DEF Holds, Clocked
<1>12. CASE x = Write("ownBoot", 1) /\ a = "free" /\ b = "telling"
  <2>1. x.to = R("ownBoot")
    BY <1>4, <1>12
  <2>2. Settled("isolate", 0) /\ isolated = 0 /\ Settled("rst", 0) /\ Settled("clk", 1)
    BY <1>12 DEF Holds, Clocked
  <2>3. Settled("isolate", 0)' /\ Settled("rst", 0)' /\ Settled("clk", 1)'
    BY <1>1, <1>5, <2>1, <2>2 DEF Sure
  <2> QED BY <1>12, <2>2, <2>3 DEF Holds, Clocked
<1> QED BY <1>3, <1>6, <1>7, <1>8, <1>9, <1>10, <1>11, <1>12 DEF Goes

LEMMA FenceHolds ==
  ASSUME posted = <<>>, NEW a, NEW b, Goes(a, Fence, b), Holds(a)
  PROVE  Holds(b)
<1>1. \A r, v : None(r) /\ (Toward(r, v) => Settled(r, v))
  BY Arrived
<1>2. <<a, b>> \in Fencing
  BY DEF Goes, Fence, Poll, Write, Neutral
<1> QED BY <1>1, <1>2 DEF Fencing, Holds, Shut, Clocked

LEMMA PollHolds ==
  ASSUME NEW x \in AnyAccess, x.do = "poll", isolated = x.val,
         NEW a, NEW b, Goes(a, x, b), Holds(a)
  PROVE  Holds(b)
<1>1. \/ x = Poll(1) /\ a = "closing" /\ b = "still"
      \/ x = Poll(0) /\ a = "opened" /\ b = "free"
  BY DEF Goes, Fence, Write, Neutral
<1>2. Poll(0).val = 0 /\ Poll(1).val = 1
  BY DEF Poll
<1> QED BY <1>1, <1>2 DEF Holds, Shut

LEMMA LandHolds ==
  ASSUME TypeOK, posted \in Seq(AnyAccess), NEW i \in DOMAIN posted, Land(i),
         NEW a \in Stage, Holds(a)
  PROVE  Holds(a)'
<1>1. \A r, v : /\ None(r) => None(r)'
                /\ r \in Sure => /\ Settled(r, v) => Settled(r, v)'
                                 /\ Toward(r, v) => Toward(r, v)'
  BY Landed
<1>2. isolated' = isolated
  BY DEF Land
<1>3. Shut => Shut'
  BY <1>1, <1>2 DEF Shut, Sure
<1>4. Clocked => Clocked'
  BY <1>1 DEF Clocked, Sure
<1>5. Guarded /\ Toward("isolate", 1) /\ None("rst") /\ None("clk") => Guarded'
  <2> SUFFICES ASSUME Guarded, Toward("isolate", 1), None("rst"), None("clk") PROVE Guarded'
    OBVIOUS
  <2>1. Val("rst")' = Val("rst") /\ Val("clk")' = Val("clk")
    BY LandedValue DEF None, Sure
  <2>2. Val("isolate") = 1 => Val("isolate")' = 1
    BY LandedValue DEF Toward, Sure
  <2> QED BY <1>2, <2>1, <2>2 DEF Guarded
<1>6. \A r : Settled(r, 1) => Toward(r, 1)
  BY DEF Settled, Toward, None
<1>7. CASE a \in {"asked", "closing"}
  <2>1. Guarded /\ Toward("isolate", 1) /\ None("rst") /\ None("clk") /\ None("ownBoot")
    BY <1>6, <1>7 DEF Holds
  <2> QED BY <1>1, <1>5, <1>7, <2>1 DEF Holds, Sure
<1>8. CASE a \notin {"asked", "closing"}
  BY <1>1, <1>2, <1>3, <1>4, <1>8 DEF Holds, Sure
<1> QED BY <1>7, <1>8

LEMMA IsolateHolds ==
  ASSUME Isolate, NEW a \in Stage, Holds(a) PROVE Holds(a)'
  BY DEF Isolate, Wanted, Holds, Shut, Clocked, Guarded, Settled, Toward, None, Val, R

(* A step that touches none of what the stages speak of.                    *)
LEMMA SameHolds ==
  ASSUME UNCHANGED <<posted, isolated>>, \A r \in Sure : Val(r)' = Val(r),
         NEW a \in Stage, Holds(a)
  PROVE  Holds(a)'
<1>1. \A r, v : /\ None(r)' <=> None(r)
                /\ r \in Sure => /\ Settled(r, v) => Settled(r, v)'
                                 /\ Toward(r, v) => Toward(r, v)'
  BY DEF None, Settled, Toward, R
<1>2. (Shut => Shut') /\ (Clocked => Clocked') /\ (Guarded => Guarded')
  BY <1>1 DEF Shut, Clocked, Guarded, Sure
<1> QED BY <1>1, <1>2 DEF Holds, Sure

-----------------------------------------------------------------------------
LEMMA Typed ==
  ASSUME NEW f, DOMAIN f = Register, f = [r \in DOMAIN f |-> f[r]],
         \A r \in Register : f[r] \in Values(r)
  PROVE  f \in [Register -> {0, 1, IsolateMask}]
<1>1. \A r \in Register : f[r] \in {0, 1, IsolateMask}
  BY DEF Values
<1> QED BY <1>1

LEMMA InitIInv == Init => IInv
<1> SUFFICES ASSUME Init PROVE IInv
  OBVIOUS
<1>1. PICK held \in {0, 1} :
        /\ reg = [r \in Register |-> CASE r = R("isolate") -> held * IsolateMask
                                       [] r = R("rst") -> held
                                       [] r = R("clk") -> 1
                                       [] OTHER -> 0]
        /\ isolated = held
  BY DEF Init
<1>2. /\ posted = <<>> /\ todo = <<>> /\ call = "none" /\ busy = FALSE
      /\ platform \in Platforms /\ due = {} /\ clean = TRUE /\ inited = FALSE
      /\ core = [c \in {1, 2} |-> "held"]
  BY DEF Init
<1>3. TypeOK
  <2>1. held * IsolateMask \in {0, IsolateMask}
    BY DEF IsolateMask
  <2>2. R("rst") # R("isolate") /\ R("clk") # R("isolate") /\ R("clk") # R("rst")
    BY DEF R
  <2>3. \A r \in Register : reg[r] \in Values(r)
    BY <1>1, <2>1, <2>2 DEF Values
  <2>4. reg \in [Register -> {0, 1, IsolateMask}]
    BY <1>1, <2>3, Typed
  <2>5. core \in [{1, 2} -> {"held", "running"}]
    BY <1>2
  <2>6. \A t \in {posted, todo} : \A i \in DOMAIN t : t[i].val \in Values(t[i].to)
    BY <1>2
  <2> QED BY <1>1, <1>2, <2>3, <2>4, <2>5, <2>6 DEF TypeOK
<1>4. /\ platform # "occamy" => Val("isolate") = held
      /\ Val("rst") = held /\ Val("clk") = 1 /\ \A r : None(r)
  <2>1. R("isolate") \in Register /\ R("rst") \in Register /\ R("clk") \in Register
    BY DEF R, Register, Shared
  <2>2. R("rst") # R("isolate") /\ R("clk") # R("isolate") /\ R("clk") # R("rst")
    BY DEF R
  <2>3. platform # "occamy" => held * IsolateMask = held
    BY DEF IsolateMask
  <2> QED BY <1>1, <1>2, <2>1, <2>2, <2>3 DEF Val, None
<1> DEFINE st == IF held = 1 THEN "still" ELSE "free"
<1>5. st \in Idle /\ (platform # "occamy" => Holds(st))
  BY <1>1, <1>4 DEF Idle, Holds, Shut, Clocked, Settled
<1>6. Run(todo, st, st)
  BY <1>2, <1>5, RunNothing DEF Stage
<1>7. Quiet(posted) /\ Quiet(todo)
  BY <1>2 DEF Quiet
<1> QED BY <1>1, <1>2, <1>3, <1>5, <1>6, <1>7 DEF IInv, Phased, Stage

(* The posted writes and the accesses to make keep their type.              *)
LEMMA TypesKept ==
  ASSUME TypeOK, posted \in Seq(AnyAccess), todo \in Seq(AnyAccess), [Next]_vars
  PROVE  posted' \in Seq(AnyAccess) /\ todo' \in Seq(AnyAccess)
<1>1. ASSUME NEW c \in CallName, Call(c) PROVE posted' \in Seq(AnyAccess) /\ todo' \in Seq(AnyAccess)
  <2>1. platform \in {"safety", "spatz", "occamy"}
    BY DEF TypeOK
  <2>2. posted' = posted /\ todo' = Accesses[c][platform]
    BY <1>1 DEF Call
  <2> QED BY <2>1, <2>2, AccessesType
<1>2. ASSUME todo # <<>> PROVE Head(todo) \in AnyAccess /\ Tail(todo) \in Seq(AnyAccess)
  BY <1>2, HeadTailProperties
<1>3. CASE Post
  <2>1. posted' = Append(posted, Head(todo)) /\ todo' = Tail(todo) /\ todo # <<>>
    BY <1>3 DEF Post
  <2> QED BY <1>2, <2>1, AppendProperties
<1>4. CASE PassFence \/ PassPoll
  <2>1. posted' = posted /\ todo' = Tail(todo) /\ todo # <<>>
    BY <1>4 DEF PassFence, PassPoll
  <2> QED BY <1>2, <2>1
<1>5. ASSUME NEW i \in DOMAIN posted, Land(i) PROVE posted' \in Seq(AnyAccess) /\ todo' \in Seq(AnyAccess)
  <2>1. posted' = RemoveAt(posted, i) /\ todo' = todo
    BY <1>5 DEF Land, host
  <2> QED BY <2>1, Removed
<1>6. CASE \/ Return \/ PollAgain \/ Isolate \/ Drain \/ UNCHANGED vars
           \/ \E c \in Core : Boot(c) \/ Acknowledge(c) \/ Issue(c)
  BY <1>6 DEF Return, PollAgain, Isolate, Drain, vars, Boot, Acknowledge, Issue, host
<1> QED BY <1>1, <1>3, <1>4, <1>5, <1>6 DEF Next, HostRun, Hardware, CallName

(* And each was there before, unless a call has just begun.                 *)
LEMMA FromBefore ==
  ASSUME posted \in Seq(AnyAccess), todo \in Seq(AnyAccess), [Next]_vars, \A c \in CallName : ~Call(c)
  PROVE  \A s \in {posted', todo'} : \A i \in DOMAIN s :
            \E t \in {posted, todo} : \E k \in DOMAIN t : s[i] = t[k]
<1> DEFINE Before(s) == \A i \in DOMAIN s : \E t \in {posted, todo} : \E k \in DOMAIN t : s[i] = t[k]
<1>1. Before(posted) /\ Before(todo)
  OBVIOUS
<1>2. ASSUME todo # <<>> PROVE Before(Tail(todo)) /\ 1 \in DOMAIN todo /\ Head(todo) = todo[1]
  <2> DEFINE n == Len(todo)
             u == Tail(todo)
  <2>1. /\ n \in Nat \ {0} /\ DOMAIN todo = 1 .. n /\ Head(todo) = todo[1]
        /\ DOMAIN u = 1 .. n - 1 /\ \A i \in 1 .. n - 1 : u[i] = todo[i + 1]
    BY <1>2, HeadTailProperties, EmptySeq, LenProperties
  <2> HIDE DEF n, u
  <2>2. \A i \in DOMAIN u : i + 1 \in DOMAIN todo /\ u[i] = todo[i + 1]
    BY <2>1
  <2> QED BY <2>1, <2>2 DEF u
<1>3. CASE Post
  <2>1. posted' = Append(posted, Head(todo)) /\ todo' = Tail(todo) /\ todo # <<>>
    BY <1>3 DEF Post
  <2>2. Head(todo) \in AnyAccess
    BY <2>1, HeadTailProperties
  <2> DEFINE n == Len(posted)
  <2>3. /\ n \in Nat /\ DOMAIN posted = 1 .. n /\ DOMAIN posted' = 1 .. n + 1
        /\ \A i \in 1 .. n : posted'[i] = posted[i]
        /\ posted'[n + 1] = Head(todo)
    BY <2>1, <2>2, LenProperties, AppendProperties
  <2> HIDE DEF n, Before
  <2>4. 1 \in DOMAIN todo /\ Head(todo) = todo[1] /\ Before(todo')
    BY <1>2, <2>1
  <2>5. \A i \in DOMAIN posted' : \/ i \in DOMAIN posted /\ posted'[i] = posted[i]
                                \/ posted'[i] = todo[1]
    BY <2>3, <2>4
  <2>6. Before(posted')
    BY <2>4, <2>5 DEF Before
  <2> QED BY <2>4, <2>6 DEF Before
<1>4. CASE PassFence \/ PassPoll
  <2>1. posted' = posted /\ todo' = Tail(todo) /\ todo # <<>>
    BY <1>4 DEF PassFence, PassPoll
  <2> HIDE DEF Before
  <2>2. Before(posted') /\ Before(todo')
    BY <1>1, <1>2, <2>1
  <2> QED BY <2>2 DEF Before
<1>5. ASSUME NEW i \in DOMAIN posted, Land(i) PROVE Before(posted') /\ Before(todo')
  <2>1. posted' = RemoveAt(posted, i) /\ todo' = todo
    BY <1>5 DEF Land, host
  <2>2. \A j \in DOMAIN posted' : \E k \in DOMAIN posted : posted'[j] = posted[k]
    BY <2>1, Removed
  <2> QED BY <1>1, <2>1, <2>2
<1>6. CASE \/ Return \/ PollAgain \/ Isolate \/ Drain \/ UNCHANGED vars
           \/ \E c \in Core : Boot(c) \/ Acknowledge(c) \/ Issue(c)
  <2>1. posted' = posted /\ todo' = todo
    BY <1>6 DEF Return, PollAgain, Isolate, Drain, vars, Boot, Acknowledge, Issue, host
  <2> QED BY <1>1, <2>1
<1> QED BY <1>3, <1>4, <1>5, <1>6 DEF Next, HostRun, Hardware, CallName

LEMMA TypeKept ==
  ASSUME TypeOK, posted \in Seq(AnyAccess), todo \in Seq(AnyAccess), [Next]_vars
  PROVE  TypeOK'
<1>p. platform' = platform /\ platform \in {"safety", "spatz", "occamy"}
  BY DEF Next, vars, Call, HostRun, Post, PassFence, PassPoll, Return, PollAgain,
         Hardware, Land, Isolate, Drain, Boot, Acknowledge, Issue, TypeOK
<1>v. IsolateMask' = IsolateMask /\ \A r : Values(r)' = Values(r)
  BY <1>p DEF IsolateMask, Values, R
<1>f. \A t \in {posted, todo} : \A i \in DOMAIN t : t[i].val \in Values(t[i].to)
  BY DEF TypeOK
<1>1. \A s \in {posted', todo'} : \A i \in DOMAIN s : s[i].val \in Values(s[i].to)'
  <2>1. ASSUME NEW c \in CallName, Call(c)
        PROVE  \A s \in {posted', todo'} : \A i \in DOMAIN s : s[i].val \in Values(s[i].to)
    <3>1. posted' = posted /\ todo' = Accesses[c][platform]
      BY <2>1 DEF Call
    <3>2. \A i \in DOMAIN todo' : todo'[i].val \in Values(todo'[i].to)
      BY <1>p, <3>1, AccessesType
    <3> QED BY <1>f, <3>1, <3>2
  <2>2. ASSUME \A c \in CallName : ~Call(c)
        PROVE  \A s \in {posted', todo'} : \A i \in DOMAIN s : s[i].val \in Values(s[i].to)
    BY <1>f, <2>2, FromBefore
  <2>3. \A s \in {posted', todo'} : \A i \in DOMAIN s : s[i].val \in Values(s[i].to)
    BY <2>1, <2>2
  <2> QED BY <1>v, <2>3
<1>2. Core' = Core
  BY DEF Core, Next, vars, Call, HostRun, Post, PassFence, PassPoll, Return, PollAgain,
         Hardware, Land, Isolate, Drain, Boot, Acknowledge, Issue
<1>t. /\ platform \in Platforms
      /\ reg \in [Register -> {0, 1, IsolateMask}] /\ \A r \in Register : reg[r] \in Values(r)
      /\ isolated \in {0, 1}
      /\ core \in [{1, 2} -> {"held", "running"}]
      /\ busy \in BOOLEAN /\ inited \in BOOLEAN /\ clean \in BOOLEAN
      /\ call \in {"none", "init", "reset", "start", "munmap"}
      /\ due \subseteq Core
  BY DEF TypeOK
<1>3. SUFFICES /\ platform' \in Platforms
               /\ reg' \in [Register -> {0, 1, IsolateMask}] /\ \A r \in Register : reg'[r] \in Values(r)
               /\ isolated' \in {0, 1}
               /\ core' \in [{1, 2} -> {"held", "running"}]
               /\ busy' \in BOOLEAN /\ inited' \in BOOLEAN /\ clean' \in BOOLEAN
               /\ call' \in {"none", "init", "reset", "start", "munmap"}
               /\ due' \subseteq Core'
  BY <1>1, <1>v DEF TypeOK
<1>4. ASSUME NEW c \in CallName, Call(c) PROVE <1>3!1
  <2>1. /\ UNCHANGED <<platform, reg, isolated, core, busy, inited>> /\ call' = c
        /\ due' \subseteq Core
    BY <1>t, <1>4 DEF Call
  <2>2. clean' \in BOOLEAN
    BY <1>4 DEF Call
  <2> QED BY <1>2, <1>t, <2>1, <2>2 DEF CallName
<1>5. CASE Post \/ PassFence \/ PassPoll \/ PollAgain \/ UNCHANGED vars
  <2>1. UNCHANGED <<platform, reg, isolated, core, busy, inited, call, due, clean>>
    BY <1>5 DEF Post, PassFence, PassPoll, PollAgain, vars, host, history
  <2> QED BY <1>2, <1>t, <2>1
<1>6. CASE Return
  <2>1. /\ UNCHANGED <<platform, reg, isolated, core, busy>> /\ call' = "none"
        /\ due' \subseteq Core
    BY <1>t, <1>6 DEF Return
  <2>2. inited' \in BOOLEAN /\ clean' \in BOOLEAN
    BY <1>6 DEF Return
  <2> QED BY <1>2, <1>t, <2>1, <2>2
<1>7. ASSUME NEW i \in DOMAIN posted, Land(i) PROVE <1>3!1
  <2> DEFINE w == posted[i]
  <2>1. w.val \in Values(w.to)
    BY <1>f
  <2>2. UNCHANGED <<platform, isolated, busy, inited, call, due, clean>>
    BY <1>7 DEF Land, host, history
  <2>3. core' \in [{1, 2} -> {"held", "running"}]
    BY <1>t, <1>7 DEF Land
  <2>4. reg' = After(w)
    BY <1>7 DEF Land
  <2> HIDE DEF w
  <2>5. DOMAIN reg' = Register /\ reg' = [r \in DOMAIN reg' |-> reg'[r]] /\ \A r \in Register : reg'[r] \in Values(r)
    <3>b. \A r : r # R("isolate") => Values(r) = {0, 1}
      BY DEF Values
    <3>r. DOMAIN reg = Register /\ \A r \in Register : reg[r] \in Values(r)
      BY <1>t
    <3>1. CASE w.to = R("rst") /\ w.val = 1
      <4>1. w.to # R("clint") /\ w.to[1] \notin {"sndSet", "sndClr", "rcvClr"}
        BY <3>1 DEF R
      <4>2. reg' = [reg EXCEPT ![w.to] = 1, ![R("ownBoot")] = 0]
        BY <2>4, <3>1, <4>1 DEF After
      <4>3. w.to # R("isolate") /\ R("ownBoot") # R("isolate")
        BY <3>1 DEF R
      <4>4. 0 \in Values(R("ownBoot")) /\ 1 \in Values(w.to)
        BY <3>b, <4>3
      <4> HIDE DEF Values
      <4> QED BY <3>r, <4>2, <4>4
    <3>2. CASE ~(w.to = R("rst") /\ w.val = 1) /\ w.to = R("clint")
      <4>1. w.to[1] \notin {"sndSet", "sndClr", "rcvClr"}
        BY <3>2 DEF R
      <4>2. reg' = [r \in Register |-> IF r[1] = "irq" THEN w.val ELSE reg[r]]
        BY <2>4, <3>2, <4>1 DEF After
      <4>3. w.val \in {0, 1} /\ \A r \in Register : r[1] = "irq" => Values(r) = {0, 1}
        BY <2>1, <3>b, <3>2 DEF R
      <4> QED BY <3>r, <4>2, <4>3
    <3>3. CASE w.to # R("rst") /\ w.to # R("clint") /\ w.to[1] \in {"sndSet", "sndClr", "rcvClr"}
      <4>1. \/ reg' = reg
            \/ \E v \in {0, 1} : reg' = [reg EXCEPT ![<<"irq", w.to[2]>>] = v]
        BY <2>4, <3>3 DEF After
      <4>2. Values(<<"irq", w.to[2]>>) = {0, 1}
        BY <3>b DEF R
      <4> QED BY <1>t, <3>r, <4>1, <4>2
    <3>4. CASE /\ ~(w.to = R("rst") /\ w.val = 1) /\ w.to # R("clint")
               /\ w.to[1] \notin {"sndSet", "sndClr", "rcvClr"}
      <4>1. reg' = [reg EXCEPT ![w.to] = w.val]
        BY <2>4, <3>4 DEF After
      <4> QED BY <2>1, <3>r, <4>1
    <3> QED BY <3>1, <3>2, <3>3, <3>4 DEF R
  <2>6. reg' \in [Register -> {0, 1, IsolateMask}]
    BY <2>5, Typed
  <2> QED BY <1>2, <1>t, <1>p, <2>2, <2>3, <2>5, <2>6
<1>8. CASE Isolate \/ Drain
  <2>1. /\ UNCHANGED <<platform, reg, core, inited, call, due, clean>>
        /\ isolated' \in {0, 1} /\ busy' \in BOOLEAN
    BY <1>t, <1>8 DEF Isolate, Drain, Wanted, host, history
  <2> QED BY <1>2, <1>t, <2>1
<1>9. ASSUME NEW c \in Core, Boot(c) \/ Acknowledge(c) \/ Issue(c) PROVE <1>3!1
  <2>1. CASE Boot(c)
    BY <1>2, <1>t, <2>1 DEF Boot, host, history
  <2>2. CASE Acknowledge(c)
    <3>1. reg' = [reg EXCEPT ![<<"irq", c>>] = 0] /\ Values(<<"irq", c>>) = {0, 1}
      BY <2>2 DEF Acknowledge, Values, R
    <3>2. DOMAIN reg' = Register /\ reg' = [r \in DOMAIN reg' |-> reg'[r]]
      BY <1>t, <3>1
    <3>3. \A r \in Register : reg'[r] \in Values(r)
      BY <1>t, <3>1
    <3>4. reg' \in [Register -> {0, 1, IsolateMask}]
      BY <3>2, <3>3, Typed
    <3> QED BY <3>3, <3>4, <1>2, <1>t, <2>2, <3>1 DEF Acknowledge, host, history
  <2>3. CASE Issue(c)
    BY <1>2, <1>t, <2>3 DEF Issue, host, history
  <2> QED BY <1>9, <2>1, <2>2, <2>3
<1> QED BY <1>4, <1>5, <1>6, <1>7, <1>8, <1>9 DEF Next, HostRun, Hardware, CallName

LEMMA QuietKept ==
  ASSUME IInv, [Next]_vars, platform = "occamy"
  PROVE  Quiet(posted') /\ Quiet(todo')
<1>1. posted \in Seq(AnyAccess) /\ todo \in Seq(AnyAccess) /\ Quiet(posted) /\ Quiet(todo)
  BY DEF IInv
<1>2. ASSUME NEW c \in CallName, Call(c) PROVE Quiet(posted') /\ Quiet(todo')
  <2>1. posted' = posted /\ todo' = Accesses[c]["occamy"] /\ c # "munmap"
    BY <1>2 DEF Call
  <2> QED BY <1>1, <2>1, AccessesQuiet
<1>3. ASSUME \A c \in CallName : ~Call(c) PROVE Quiet(posted') /\ Quiet(todo')
  BY <1>1, <1>3, FromBefore DEF Quiet
<1> QED BY <1>2, <1>3

LEMMA PhasedKept == ASSUME IInv, [Next]_vars PROVE Phased'
<1>1. platform' = platform
  BY DEF Next, vars, Call, HostRun, Post, PassFence, PassPoll, Return, PollAgain,
         Hardware, Land, Isolate, Drain, Boot, Acknowledge, Issue
<1> SUFFICES ASSUME platform # "occamy"
             PROVE  \E st \in Stage, e \in Idle : Holds(st)' /\ Run(todo', st, e)
  BY <1>1 DEF Phased, Run, Goes, Neutral, Critical, Write, Fence, Poll, Fencing, R
<1>2. PICK st \in Stage, e \in Idle : Holds(st) /\ Run(todo, st, e)
  BY DEF IInv, Phased
<1>3. TypeOK /\ posted \in Seq(AnyAccess) /\ todo \in Seq(AnyAccess) /\ (call = "none" => todo = <<>>)
  BY DEF IInv
<1>4. ASSUME UNCHANGED <<posted, isolated, todo>>, \A r \in Sure : Val(r)' = Val(r)
      PROVE  Holds(st)' /\ Run(todo', st, e)
  BY <1>2, <1>4, SameHolds
<1>5. ASSUME NEW c \in CallName, Call(c)
      PROVE  \E d \in Idle : Holds(st)' /\ Run(todo', st, d)
  <2>1. /\ todo = <<>> /\ UNCHANGED <<posted, isolated, reg>>
        /\ todo' = Accesses[c][platform] /\ platform \in {"safety", "spatz"}
    BY <1>3, <1>5 DEF Call, TypeOK
  <2>2. st \in Idle
    BY <1>2, <2>1, RunNothing
  <2>3. \A r \in Sure : Val(r)' = Val(r)
    BY <2>1 DEF Val, R
  <2>4. Holds(st)'
    BY <1>2, <2>1, <2>3, SameHolds
  <2>5. \E d \in Idle : Run(Accesses[c][platform], st, d)
    BY <2>1, <2>2, AccessesRun
  <2> QED BY <2>1, <2>4, <2>5
<1>6. ASSUME todo # <<>>
      PROVE  /\ Head(todo) \in AnyAccess
             /\ \E b \in Stage : Goes(st, Head(todo), b) /\ Run(Tail(todo), b, e)
  BY <1>2, <1>3, <1>6, RunStep, HeadTailProperties
<1>7. CASE Post
  <2>1. /\ todo # <<>> /\ Head(todo).do = "write" /\ posted' = Append(posted, Head(todo))
        /\ todo' = Tail(todo) /\ UNCHANGED <<reg, isolated>>
    BY <1>7 DEF Post
  <2>2. PICK b \in Stage : Goes(st, Head(todo), b) /\ Run(todo', b, e)
    BY <1>6, <2>1
  <2>3. Head(todo) \in AnyAccess
    BY <1>6, <2>1
  <2>4. Holds(b)'
    BY <1>2, <1>3, <2>1, <2>2, <2>3, PostHolds
  <2> QED BY <2>2, <2>4
<1>8. CASE PassFence \/ PassPoll
  <2>1. /\ todo # <<>> /\ todo' = Tail(todo) /\ UNCHANGED <<posted, isolated, reg>>
        /\ \/ Head(todo).do = "fence" /\ posted = <<>>
           \/ Head(todo).do = "poll" /\ isolated = Head(todo).val
    BY <1>8 DEF PassFence, PassPoll
  <2>2. PICK b \in Stage : Goes(st, Head(todo), b) /\ Run(todo', b, e)
    BY <1>6, <2>1
  <2>3. Head(todo) \in AnyAccess
    BY <1>6, <2>1
  <2>4. Holds(b)
    <3>1. CASE Head(todo).do = "fence" /\ posted = <<>>
      <4>1. Head(todo) = Fence
        BY <2>2, <3>1 DEF Goes, Neutral, Write, Poll
      <4> QED BY <1>2, <2>2, <3>1, <4>1, FenceHolds
    <3>2. CASE Head(todo).do = "poll" /\ isolated = Head(todo).val
      BY <1>2, <2>2, <2>3, <3>2, PollHolds
    <3> QED BY <2>1, <3>1, <3>2
  <2>5. \A r \in Sure : Val(r)' = Val(r)
    BY <2>1 DEF Val, R
  <2>6. Holds(b)'
    BY <2>1, <2>4, <2>5, SameHolds
  <2> QED BY <2>2, <2>6
<1>9. CASE Return \/ PollAgain \/ Drain \/ UNCHANGED vars \/ \E c \in Core : Boot(c) \/ Issue(c)
  <2>1. UNCHANGED <<posted, isolated, todo, reg>>
    BY <1>9 DEF Return, PollAgain, Drain, vars, Boot, Issue, host
  <2>2. \A r \in Sure : Val(r)' = Val(r)
    BY <2>1 DEF Val, R
  <2> QED BY <1>4, <2>1, <2>2
<1>10. ASSUME NEW c \in Core, Acknowledge(c)
       PROVE  \E d \in Idle : Holds(st)' /\ Run(todo', st, d)
  <2>1. UNCHANGED <<posted, isolated, todo>> /\ reg' = [reg EXCEPT ![<<"irq", c>>] = 0]
    BY <1>10 DEF Acknowledge, host
  <2>2. \A r \in Sure : R(r) # <<"irq", c>> /\ R(r) \in Register
    BY DEF Sure, R, Register, Shared
  <2>3. \A r \in Sure : Val(r)' = Val(r)
    BY <1>3, <2>1, <2>2 DEF Val, R, TypeOK
  <2> QED BY <1>4, <2>1, <2>3
<1>11. ASSUME NEW i \in DOMAIN posted, Land(i)
       PROVE  Holds(st)' /\ Run(todo', st, e)
  <2>1. todo' = todo
    BY <1>11 DEF Land, host
  <2>2. Holds(st)'
    BY <1>2, <1>3, <1>11, LandHolds
  <2> QED BY <1>2, <2>1, <2>2
<1>12. CASE Isolate
  <2>1. todo' = todo
    BY <1>12 DEF Isolate, host
  <2> QED BY <1>2, <1>12, <2>1, IsolateHolds
<1> QED BY <1>5, <1>7, <1>8, <1>9, <1>10, <1>11, <1>12 DEF Next, HostRun, Hardware, CallName

LEMMA NextIInv == IInv /\ [Next]_vars => IInv'
<1> SUFFICES ASSUME IInv, [Next]_vars PROVE IInv'
  OBVIOUS
<1>1. TypeOK' /\ posted' \in Seq(AnyAccess) /\ todo' \in Seq(AnyAccess)
  BY TypeKept, TypesKept DEF IInv
<1>2. (call = "none" => todo = <<>>)'
  BY DEF IInv, CallName, Next, vars, Call, HostRun, Post, PassFence, PassPoll, Return, PollAgain,
         Hardware, Land, Isolate, Drain, Boot, Acknowledge, Issue, host
<1>3. (isolated = 1 => ~busy)'
  <2>1. ASSUME NEW c \in Core, Issue(c) PROVE isolated' = 0
    BY <2>1 DEF Issue
  <2>2. CASE Isolate
    BY <2>2 DEF Isolate
  <2>3. CASE Drain
    BY <2>3 DEF Drain
  <2>4. ASSUME UNCHANGED <<isolated, busy>> PROVE (isolated = 1 => ~busy)'
    BY <2>4 DEF IInv
  <2>5. CASE \/ \E c \in CallName : Call(c)
             \/ HostRun \/ PollAgain \/ UNCHANGED vars
             \/ \E i \in DOMAIN posted : Land(i)
             \/ \E c \in Core : Boot(c) \/ Acknowledge(c)
    <3>1. UNCHANGED <<isolated, busy>>
      BY <2>5 DEF vars, Call, HostRun, Post, PassFence, PassPoll, Return, PollAgain,
                  Land, Boot, Acknowledge
    <3> QED BY <2>4, <3>1
  <2> QED BY <2>1, <2>2, <2>3, <2>5 DEF Next, Hardware, CallName
<1>4. platform' = platform
  BY DEF Next, vars, Call, HostRun, Post, PassFence, PassPoll, Return, PollAgain,
         Hardware, Land, Isolate, Drain, Boot, Acknowledge, Issue
<1>5. platform = "occamy" => Quiet(posted)' /\ Quiet(todo)'
  BY QuietKept DEF Quiet, R
<1> QED BY <1>1, <1>2, <1>3, <1>4, <1>5, PhasedKept DEF IInv

THEOREM Invariance == Spec => []IInv
  BY InitIInv, NextIInv, PTL DEF Spec

(* Every register access of safety_island.c, spatz_cluster.c and             *)
(* snitch_cluster.c, made, on its way or still to be made, carries a value   *)
(* its register has; of the isolation bits all are set, or none.            *)
THEOREM TypeCorrect == Spec => []TypeOK
<1>1. IInv => TypeOK
  BY DEF IInv
<1> QED BY <1>1, Invariance, PTL

(* However many writes are on their way, and however late they arrive, the  *)
(* hero_dev_reset, hero_dev_exe_start and hero_dev_munmap of Carfield reset *)
(* the island or stop its clock only when it has no transaction in flight.  *)
THEOREM NeverCut == Spec => []NothingCut
<1>1. IInv => NothingCut
  <2> SUFFICES ASSUME IInv, platform # "occamy", Val("rst") = 1 \/ Val("clk") = 0 PROVE ~busy
    BY DEF NothingCut
  <2>1. PICK st \in Stage : Holds(st)
    BY DEF IInv, Phased
  <2>2. isolated = 1
    BY <2>1 DEF Stage, Idle, Holds, Shut, Clocked, Guarded, Settled
  <2> QED BY <2>2 DEF IInv
<1> QED BY <1>1, Invariance, PTL

(* A write of hero_dev_exe_start to the accelerator's own boot register     *)
(* arrives when the isolation is lifted, the reset released and the clock on. *)
THEOREM OwnBootArrives == Spec => OwnBootReached
<1> DEFINE A == \A i \in DOMAIN posted : posted[i].to = R("ownBoot") /\ Land(i) =>
                  isolated = 0 /\ Val("rst") = 0 /\ Val("clk") = 1
<1>1. IInv => A
  <2> SUFFICES ASSUME IInv, NEW i \in DOMAIN posted, posted[i].to = R("ownBoot")
               PROVE  isolated = 0 /\ Val("rst") = 0 /\ Val("clk") = 1
    OBVIOUS
  <2>1. ~None("ownBoot") /\ ~Quiet(posted)
    BY DEF None, Quiet
  <2>2. PICK st \in Stage : Holds(st)
    BY <2>1 DEF IInv, Phased
  <2>3. st = "telling"
    BY <2>1, <2>2 DEF Stage, Idle, Holds, Shut
  <2> QED BY <2>2, <2>3 DEF Holds, Clocked, Settled
<1>2. IInv /\ [Next]_vars => [A]_vars
  BY <1>1
<1> QED BY <1>2, Invariance, PTL DEF Spec, OwnBootReached
=============================================================================
