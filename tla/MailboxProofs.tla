--------------------------- MODULE MailboxProofs ---------------------------
(***************************************************************************)
(* Theorems about Mailbox for every capacity, length of answers and set of *)
(* requests.                                                               *)
(***************************************************************************)
EXTENDS Mailbox, TLAPS, SequenceTheorems

(* Concatenation of sequences of words.                                     *)
LEMMA Joined ==
  ASSUME NEW s \in Seq(Word), NEW t \in Seq(Word)
  PROVE  /\ s \o t \in Seq(Word) /\ Len(s \o t) = Len(s) + Len(t)
         /\ \A i \in 1 .. Len(s) + Len(t) :
              (s \o t)[i] = IF i <= Len(s) THEN s[i] ELSE t[i - Len(s)]
  BY ConcatProperties

LEMMA Regrouped ==
  ASSUME NEW s \in Seq(Word), NEW t \in Seq(Word), NEW u \in Seq(Word)
  PROVE  (s \o t) \o u = s \o (t \o u)
  BY ConcatAssociative

(* What follows a prefix s is the rest.                                     *)
LEMMA Rest ==
  ASSUME NEW s \in Seq(Word), NEW t \in Seq(Word)
  PROVE  SubSeq(s \o t, Len(s) + 1, Len(s \o t)) = t
<1> DEFINE w == s \o t
           m == Len(s) + 1
           x == SubSeq(w, m, Len(w))
<1>1. /\ w \in Seq(Word) /\ Len(w) = Len(s) + Len(t) /\ Len(s) \in Nat /\ Len(t) \in Nat
      /\ \A i \in 1 .. Len(t) : w[Len(s) + i] = t[i]
  BY Joined
<1> HIDE DEF w
<1>2. x \in Seq(Word) /\ Len(x) = Len(t) /\ \A i \in 1 .. Len(t) : x[i] = w[Len(s) + i]
  <2>1. \A i \in m .. Len(w) : w[i] \in Word
    BY <1>1
  <2> QED BY <1>1, <2>1
<1>3. x = t
  <2> HIDE DEF x
  <2> QED BY <1>1, <1>2, SeqEqual
<1> QED BY <1>3 DEF w

-----------------------------------------------------------------------------
USE ReplyAssumption, CapacityAssumption, MaxReadAssumption, MaxDueAssumption

(* A request is answered with Reply words.                                 *)
LEMMA AnswerType ==
  ASSUME NEW m \in Request
  PROVE  Answers(<<m>>) \in Seq(Word) /\ Len(Answers(<<m>>)) = Reply
<1>1. Reply * Len(<<m>>) = Reply
  OBVIOUS
<1>2. \A k \in 1 .. Reply : (k - 1) \div Reply = 0 /\ (k - 1) % Reply = k - 1
  OBVIOUS
<1>3. Answers(<<m>>) = [k \in 1 .. Reply |-> <<m, k>>]
  BY <1>1, <1>2 DEF Answers
<1>4. Answers(<<m>>) \in [1 .. Reply -> Word]
  BY <1>3 DEF Word
<1> QED BY <1>4

(* What is being handed over to a mailbox is one message.                  *)
LEMMA SingleOffer ==
  ASSUME NEW S, NEW o \in Seq(S), Len(o) <= 1, o # <<>>
  PROVE  \E m \in S : o = <<m>>
<1>1. Len(o) = 1
  <2> DEFINE n == Len(o)
  <2>1. n \in Nat \ {0} /\ n <= 1
    BY EmptySeq, Zenon
  <2> HIDE DEF n
  <2>2. n = 1
    BY <2>1
  <2> QED BY <2>2 DEF n
<1>2. o[1] \in S
  BY <1>1, ElementOfSeq
<1>3. o = <<o[1]>>
  BY <1>1, LenProperties
<1> QED BY <1>2, <1>3

-----------------------------------------------------------------------------
(* The words requested are somewhere: fetched by the read in progress, on  *)
(* their way, or still to be asked for.  A host that writes is not reading,*)
(* and had no more than MaxDue words outstanding when it began.            *)
Asked == Reply * Len(h2a)
Count == Len(due) = (Len(buffer) - left) + Len(a2h) + Len(a2hOffer) + Len(todo) + Asked

HostState == /\ left <= Len(buffer) /\ Len(buffer) <= MaxRead
             /\ InWrite => buffer = <<>> /\ Len(due) <= MaxDue

IInv == TypeOK /\ Count /\ HostState

LEMMA InitIInv == Init => IInv
  BY DEF Init, IInv, TypeOK, Count, Asked, HostState, InWrite, H2A!FifoInit, A2H!FifoInit

LEMMA NextIInv == IInv /\ [Next]_vars => IInv'
<1> SUFFICES ASSUME IInv, [Next]_vars PROVE IInv'
  OBVIOUS
<1> USE DEF IInv, HostState, InWrite, InRead, h2aVars, a2hVars
<1>0. TypeOK /\ Count
  OBVIOUS
<1>len. /\ Len(h2a) \in Nat /\ Len(a2h) \in Nat /\ Len(h2aOffer) \in Nat
      /\ Len(a2hOffer) \in Nat /\ Len(todo) \in Nat /\ Len(buffer) \in Nat
      /\ Len(due) \in Nat /\ left \in Nat
  BY <1>0, LenProperties DEF TypeOK
<1>asked. Asked \in Nat
  BY <1>len DEF Asked
<1>same. UNCHANGED h2a => UNCHANGED Asked
  BY DEF Asked
<1>1. ASSUME NEW w \in Request, CallWrite(w) PROVE IInv'
  BY <1>0, <1>same, <1>1 DEF CallWrite, H2A!Offer, TypeOK, Count
<1>2. ASSUME NEW n \in 1 .. MaxRead, CallRead(n) PROVE IInv'
  <2>1. /\ buffer = <<>> /\ n <= Len(due) /\ left' = n /\ buffer' = [i \in 1 .. n |-> None]
        /\ UNCHANGED <<h2a, h2aOffer, req, a2h, a2hOffer, last, todo, due>>
        /\ h2aOffer = <<>>
    BY <1>2 DEF CallRead
  <2>2. buffer' \in [1 .. n -> Word \cup {None}] /\ n \in Nat
    BY <2>1
  <2>3. buffer' \in Seq(Word \cup {None}) /\ Len(buffer') = n
    BY <2>2
  <2>4. Len(buffer) - left = 0
    BY <1>0, <1>len, <2>1, EmptySeq DEF TypeOK
  <2>5. TypeOK'
    BY <1>0, <2>1, <2>3 DEF TypeOK
  <2>6. Count'
    BY <1>0, <1>same, <2>1, <2>3, <2>4 DEF Count
  <2> QED BY <2>1, <2>3, <2>5, <2>6
<1>3. CASE FinishWrite
  <2>1. /\ h2aOffer # <<>> /\ Len(h2a) < Capacity /\ h2a' = h2a \o h2aOffer
        /\ h2aOffer' = <<>> /\ due' = due \o Answers(h2aOffer)
        /\ UNCHANGED <<req, a2h, a2hOffer, last, todo, left, buffer>>
    BY <1>3 DEF FinishWrite, H2A!Commit
  <2>2. /\ h2a' \in Seq(Request) /\ Len(h2a') = Len(h2a) + 1
        /\ due' \in Seq(Word) /\ Len(due') = Len(due) + Reply
    <3>1. PICK m \in Request : h2aOffer = <<m>>
      BY <1>0, <2>1, SingleOffer DEF TypeOK
    <3>2. Len(<<m>>) = 1 /\ <<m>> \in Seq(Request)
      OBVIOUS
    <3>3. Answers(<<m>>) \in Seq(Word) /\ Len(Answers(<<m>>)) = Reply
      BY AnswerType
    <3>4. h2a' \in Seq(Request) /\ Len(h2a') = Len(h2a) + 1
      BY <1>0, <2>1, <3>1, <3>2, ConcatProperties DEF TypeOK
    <3>5. due' \in Seq(Word) /\ Len(due') = Len(due) + Reply
      BY <1>0, <2>1, <3>1, <3>3, ConcatProperties, ZenonT(60) DEF TypeOK
    <3> QED BY <3>4, <3>5
  <2>3. Asked' = Asked + Reply
    BY <1>len, <2>2 DEF Asked
  <2>4. TypeOK'
    BY <1>0, <1>len, <2>1, <2>2 DEF TypeOK
  <2>5. Count'
    <3>1. Len(due) + Reply = (Len(buffer) - left) + Len(a2h) + Len(a2hOffer) + Len(todo) + Asked'
      BY <1>0, <1>len, <1>asked, <2>3 DEF Count
    <3> QED BY <2>1, <2>2, <3>1 DEF Count
  <2> QED BY <2>1, <2>4, <2>5
<1>4. CASE ReadWord
  <2>1. /\ buffer # <<>> /\ left > 0 /\ a2h # <<>> /\ left' = left - 1
        /\ last' = Head(a2h) /\ a2h' = Tail(a2h)
        /\ buffer' = [buffer EXCEPT ![left] = last']
        /\ UNCHANGED <<h2a, h2aOffer, req, a2hOffer, todo, due>>
    BY <1>4 DEF ReadWord, A2H!Take
  <2>2. /\ last' \in Word /\ a2h' \in Seq(Word) /\ Len(a2h') = Len(a2h) - 1
    BY <1>0, <2>1, HeadTailProperties DEF TypeOK
  <2>3. buffer' \in Seq(Word \cup {None}) /\ Len(buffer') = Len(buffer)
    BY <1>0, <1>len, <2>1, <2>2, ExceptSeq DEF TypeOK
  <2>4. TypeOK'
    BY <1>0, <1>len, <2>1, <2>2, <2>3 DEF TypeOK
  <2>5. Count'
    BY <1>0, <1>len, <1>asked, <1>same, <2>1, <2>2, <2>3 DEF Count
  <2> QED BY <1>len, <2>1, <2>3, <2>4, <2>5
<1>5. CASE ReturnRead
  <2>1. /\ buffer # <<>> /\ left = 0 /\ due' = SubSeq(due, Len(buffer) + 1, Len(due))
        /\ buffer' = <<>> /\ UNCHANGED <<h2a, h2aOffer, req, a2h, a2hOffer, last, todo, left>>
    BY <1>5 DEF ReturnRead
  <2>3. Len(buffer) <= Len(due)
    BY <1>0, <1>len, <1>asked, <2>1 DEF Count
  <2>4. due' \in Seq(Word) /\ Len(due') = Len(due) - Len(buffer)
    <3>1. \A i \in Len(buffer) + 1 .. Len(due) : due[i] \in Word
      BY <1>0, <1>len, ElementOfSeq DEF TypeOK
    <3> QED BY <1>len, <2>1, <2>3, <3>1, SubSeqProperties
  <2>5. TypeOK'
    BY <1>0, <2>1, <2>4 DEF TypeOK
  <2>6. Count'
    BY <1>0, <1>len, <1>asked, <1>same, <2>1, <2>4, EmptySeq DEF Count
  <2> QED BY <2>1, <2>5, <2>6
<1>6. CASE TakeRequest
  <2>1. /\ todo = <<>> /\ h2a # <<>> /\ req' = Head(h2a) /\ h2a' = Tail(h2a)
        /\ todo' = Answers(<<req'>>)
        /\ UNCHANGED <<h2aOffer, a2h, a2hOffer, last, left, buffer, due>>
    BY <1>6 DEF TakeRequest, H2A!Take
  <2>2. /\ req' \in Request /\ h2a' \in Seq(Request) /\ Len(h2a') = Len(h2a) - 1
    BY <1>0, <2>1, HeadTailProperties DEF TypeOK
  <2>3. todo' \in Seq(Word) /\ Len(todo') = Reply
    BY <2>1, <2>2, AnswerType
  <2>4. Asked' = Asked - Reply
    BY <1>len, <2>2 DEF Asked
  <2>5. TypeOK'
    BY <1>0, <1>len, <2>1, <2>2, <2>3 DEF TypeOK
  <2>6. Count'
    <3>1. Len(todo) = 0 /\ Len(todo') = Reply
      BY <2>1, <2>3, EmptySeq
    <3>2. Len(due) = (Len(buffer) - left) + Len(a2h) + Len(a2hOffer) + 0 + Asked
      BY <1>0, <3>1 DEF Count
    <3>3. Len(due) = (Len(buffer) - left) + Len(a2h) + Len(a2hOffer) + Reply + Asked'
      BY <1>len, <1>asked, <2>4, <3>2
    <3> QED BY <2>1, <3>1, <3>3 DEF Count
  <2> QED BY <2>1, <2>5, <2>6
<1>7. CASE CallAnswer
  <2>1. /\ todo # <<>> /\ a2hOffer = <<>> /\ a2hOffer' = <<Head(todo)>> /\ todo' = Tail(todo)
        /\ UNCHANGED <<h2a, h2aOffer, req, a2h, last, left, buffer, due>>
    BY <1>7 DEF CallAnswer, A2H!Offer
  <2>2. /\ Head(todo) \in Word /\ todo' \in Seq(Word) /\ Len(todo') = Len(todo) - 1
    BY <1>0, <2>1, HeadTailProperties DEF TypeOK
  <2>3. a2hOffer' \in Seq(Word) /\ Len(a2hOffer') = 1 /\ Len(a2hOffer) = 0
    BY <2>1, <2>2
  <2>4. TypeOK'
    BY <1>0, <2>1, <2>2, <2>3 DEF TypeOK
  <2>5. Count'
    BY <1>0, <1>len, <1>asked, <1>same, <2>1, <2>2, <2>3 DEF Count
  <2> QED BY <2>1, <2>4, <2>5
<1>8. CASE FinishAnswer
  <2>1. /\ a2hOffer # <<>> /\ Len(a2h) < Capacity /\ a2h' = a2h \o a2hOffer /\ a2hOffer' = <<>>
        /\ UNCHANGED <<h2a, h2aOffer, req, last, todo, left, buffer, due>>
    BY <1>8 DEF FinishAnswer, A2H!Commit
  <2>2. a2h' \in Seq(Word) /\ Len(a2h') = Len(a2h) + 1 /\ Len(a2hOffer) = 1
    <3>1. PICK m \in Word : a2hOffer = <<m>>
      BY <1>0, <2>1, SingleOffer DEF TypeOK
    <3>2. Len(<<m>>) = 1 /\ <<m>> \in Seq(Word)
      OBVIOUS
    <3> QED BY <1>0, <2>1, <3>1, <3>2, ConcatProperties DEF TypeOK
  <2>3. TypeOK'
    BY <1>0, <1>len, <2>1, <2>2 DEF TypeOK
  <2>4. Count'
    BY <1>0, <1>len, <1>asked, <1>same, <2>1, <2>2, EmptySeq DEF Count
  <2> QED BY <2>1, <2>3, <2>4
<1>9. CASE UNCHANGED vars
  BY <1>0, <1>same, <1>9 DEF vars, TypeOK, Count
<1> QED BY <1>1, <1>2, <1>3, <1>4, <1>5, <1>6, <1>7, <1>8, <1>9 DEF Next, HostRun, Device

LEMMA Invariance == Spec => []IInv
  BY InitIInv, NextIInv, PTL DEF Spec

-----------------------------------------------------------------------------
(* Both mailboxes stay within their capacity and hold words of their type, *)
(* and the buffer of a read is written only in its places.                 *)
THEOREM TypeCorrect == Spec => []TypeOK
<1>1. IInv => TypeOK
  BY DEF IInv
<1> QED BY <1>1, Invariance, PTL

(* The mailboxes cannot deadlock if the application writes no request      *)
(* while more than Capacity * (Reply + 1) words are due.                   *)
THEOREM NoDeadlock ==
  ASSUME MaxDue <= Capacity * (Reply + 1) PROVE Spec => []NoWaitCycle
<1>1. IInv => NoWaitCycle
  <2> SUFFICES ASSUME IInv, InWrite, Len(h2a) = Capacity,
                      a2hOffer # <<>>, Len(a2h) = Capacity
               PROVE  FALSE
    BY DEF NoWaitCycle
  <2>1. Len(due) <= MaxDue /\ Len(buffer) = 0 /\ left = 0
    BY DEF IInv, HostState, TypeOK
  <2>2. Len(a2hOffer) >= 1 /\ Len(todo) >= 0
    BY DEF IInv, TypeOK
  <2>3. Len(due) = Capacity + Len(a2hOffer) + Len(todo) + Reply * Capacity
    BY <2>1 DEF IInv, Count, Asked, TypeOK
  <2>4. Capacity * (Reply + 1) = Reply * Capacity + Capacity
    OBVIOUS
  <2> QED BY <2>1, <2>2, <2>3, <2>4
<1> QED BY <1>1, Invariance, PTL

-----------------------------------------------------------------------------
(* The answers to two runs of requests are those to the first and then     *)
(* those to the second: Answers is a homomorphism.                         *)
LEMMA Quotient ==
  ASSUME NEW a \in Nat, NEW m \in Nat \ {0}
  PROVE  /\ a \div m \in Nat /\ a % m \in 0 .. m - 1
         /\ a = m * (a \div m) + (a % m)
  OBVIOUS

LEMMA QuotientUnique ==
  ASSUME NEW m \in Nat \ {0}, NEW q \in Nat, NEW r \in 0 .. m - 1
  PROVE  (m * q + r) \div m = q /\ (m * q + r) % m = r
  OBVIOUS

LEMMA AnswersType ==
  ASSUME NEW s \in Seq(Request)
  PROVE  /\ Answers(s) \in Seq(Word) /\ Len(Answers(s)) = Reply * Len(s)
         /\ \A q \in 0 .. Len(s) - 1, r \in 0 .. Reply - 1 :
              Answers(s)[Reply * q + r + 1] = <<s[q + 1], r + 1>>
<1> DEFINE n == Len(s)
<1>1. n \in Nat /\ Reply * n \in Nat
  BY LenProperties
<1>2. \A k \in 1 .. Reply * n : /\ (k - 1) \div Reply \in 0 .. n - 1
                               /\ (k - 1) % Reply \in 0 .. Reply - 1
  <2> SUFFICES ASSUME NEW k \in 1 .. Reply * n
               PROVE  (k - 1) \div Reply \in 0 .. n - 1 /\ (k - 1) % Reply \in 0 .. Reply - 1
    OBVIOUS
  <2> DEFINE d == (k - 1) \div Reply
             e == (k - 1) % Reply
  <2>1. d \in Nat /\ e \in 0 .. Reply - 1 /\ k - 1 = Reply * d + e
    <3>1. k - 1 \in Nat
      BY <1>1
    <3> HIDE DEF n
    <3> QED BY <3>1, Quotient
  <2> HIDE DEF d, e, n
  <2>2. d < n
    <3>1. SUFFICES ASSUME d >= n PROVE FALSE
      BY <1>1, <2>1
    <3>2. Reply * d >= Reply * n
      BY <1>1, <2>1, <3>1
    <3> QED BY <1>1, <2>1, <3>2
  <2> QED BY <1>1, <2>1, <2>2 DEF d, e
<1>3. Answers(s) \in [1 .. Reply * n -> Word]
  <2>1. \A k \in 1 .. Reply * n : s[((k - 1) \div Reply) + 1] \in Request
    BY <1>1, <1>2, ElementOfSeq
  <2> QED BY <1>2, <2>1, SMTT(30) DEF Answers, Word
<1>4. ASSUME NEW q \in 0 .. n - 1, NEW r \in 0 .. Reply - 1
      PROVE  Answers(s)[Reply * q + r + 1] = <<s[q + 1], r + 1>>
  <2> DEFINE k == Reply * q + r + 1
  <2>1. k \in 1 .. Reply * n
    <3>1. Reply * q \in Nat /\ Reply * (n - 1) = Reply * n - Reply
      BY <1>1
    <3>2. Reply * q <= Reply * (n - 1)
      BY <1>1
    <3> QED BY <1>1, <3>1, <3>2
  <2>2. (k - 1) \div Reply = q /\ (k - 1) % Reply = r
    <3>1. k - 1 = Reply * q + r
      BY <1>1
    <3> QED BY <1>1, <3>1, QuotientUnique
  <2> QED BY <2>1, <2>2 DEF Answers
<1> QED BY <1>1, <1>3, <1>4, SMTT(30)

LEMMA AnswersConcat ==
  ASSUME NEW s \in Seq(Request), NEW t \in Seq(Request)
  PROVE  Answers(s \o t) = Answers(s) \o Answers(t)
<1> DEFINE m == Len(s)
           n == Len(t)
           u == s \o t
           both == Answers(s) \o Answers(t)
<1>1. m \in Nat /\ n \in Nat /\ Reply * m \in Nat /\ Reply * n \in Nat
  BY LenProperties
<1>2. /\ u \in Seq(Request) /\ Len(u) = m + n
      /\ \A q \in 1 .. m + n : u[q] = IF q <= m THEN s[q] ELSE t[q - m]
  BY ConcatProperties
<1>3. /\ both \in Seq(Word) /\ Len(both) = Reply * m + Reply * n
      /\ \A k \in 1 .. Reply * m + Reply * n :
           both[k] = IF k <= Reply * m THEN Answers(s)[k] ELSE Answers(t)[k - Reply * m]
  <2>1. /\ Answers(s) \in Seq(Word) /\ Len(Answers(s)) = Reply * m
        /\ Answers(t) \in Seq(Word) /\ Len(Answers(t)) = Reply * n
    BY AnswersType
  <2> QED BY <2>1, ConcatProperties, SMTT(30)
<1>4. Answers(u) \in Seq(Word) /\ Len(Answers(u)) = Reply * m + Reply * n
  <2>1. Reply * (m + n) = Reply * m + Reply * n
    BY <1>1
  <2> QED BY <1>2, <2>1, AnswersType
<1>5. ASSUME NEW k \in 1 .. Reply * m + Reply * n PROVE Answers(u)[k] = both[k]
  <2> HIDE DEF u, both
  <2>1. PICK q \in Nat, r \in 0 .. Reply - 1 : k - 1 = Reply * q + r
    <3>1. k - 1 \in Nat
      BY <1>1
    <3> QED BY <3>1, Quotient, ZenonT(60)
  <2>2. k = Reply * q + r + 1
    BY <1>1, <2>1
  <2>3. q < m + n
    <3>1. SUFFICES ASSUME q >= m + n PROVE FALSE
      BY <1>1
    <3>2. Reply * q >= Reply * (m + n) /\ Reply * (m + n) = Reply * m + Reply * n
      BY <1>1, <3>1
    <3> QED BY <1>1, <2>2, <3>2
  <2>4. Answers(u)[k] = <<u[q + 1], r + 1>>
    <3>1. q \in 0 .. Len(u) - 1
      BY <1>1, <1>2, <2>3
    <3> QED BY <1>2, <2>2, <3>1, AnswersType
  <2>5. CASE q < m
    <3>1. Reply * q <= Reply * (m - 1) /\ Reply * (m - 1) = Reply * m - Reply
      BY <1>1, <2>5, SMTT(30)
    <3>2. k <= Reply * m
      BY <1>1, <2>2, <3>1
    <3>3. Answers(s)[k] = <<s[q + 1], r + 1>>
      <4>1. q \in 0 .. Len(s) - 1
        BY <1>1, <2>5
      <4> HIDE DEF m
      <4> QED BY <2>2, <4>1, AnswersType
    <3> QED BY <1>1, <1>2, <1>3, <2>4, <2>5, <3>2, <3>3
  <2>6. CASE q >= m
    <3> DEFINE p == q - m
    <3>1. p \in 0 .. n - 1 /\ q = m + p
      BY <1>1, <2>3, <2>6
    <3>2. Reply * q = Reply * m + Reply * p /\ Reply * p \in Nat
      BY <1>1, <3>1
    <3>3. k - Reply * m = Reply * p + r + 1 /\ k > Reply * m
      BY <1>1, <2>2, <3>2, SMTT(30)
    <3>4. Answers(t)[k - Reply * m] = <<t[p + 1], r + 1>>
      BY <1>1, <3>1, <3>3, AnswersType, ZenonT(60)
    <3>5. u[q + 1] = t[p + 1]
      <4>1. q + 1 \in 1 .. m + n /\ ~ (q + 1 <= m) /\ q + 1 - m = p + 1
        BY <1>1, <2>3, <3>1
      <4>2. u[q + 1] = IF q + 1 <= m THEN s[q + 1] ELSE t[q + 1 - m]
        BY <4>1, ConcatProperties DEF u
      <4> HIDE DEF m, n, p
      <4> QED BY <4>1, <4>2
    <3>6. both[k] = Answers(t)[k - Reply * m]
      BY <1>1, <1>3, <3>3
    <3> QED BY <2>4, <3>4, <3>5, <3>6
  <2> QED BY <1>1, <2>5, <2>6
<1> QED BY <1>1, <1>3, <1>4, <1>5, SeqEqual

-----------------------------------------------------------------------------
(* Where the words due are.  The places of the buffer already filled hold   *)
(* words, from the last place down.                                         *)
Filled == \A i \in left + 1 .. Len(buffer) : buffer[i] \in Word
CInv == IInv /\ Filled /\ Conserved

LEMMA FetchedType ==
  ASSUME IInv, Filled PROVE Fetched \in Seq(Word) /\ Len(Fetched) = Len(buffer) - left
<1> DEFINE n == Len(buffer)
<1>1. n \in Nat /\ left \in 0 .. n
  BY DEF IInv, TypeOK, HostState
<1>2. \A i \in 1 .. n - left : buffer[n + 1 - i] \in Word
  BY <1>1 DEF Filled
<1>3. Fetched \in [1 .. n - left -> Word]
  BY <1>1, <1>2 DEF Fetched
<1> QED BY <1>1, <1>3

(* A sequence that is not empty is its head and its tail.                   *)
LEMMA HeadAndTail ==
  ASSUME NEW S, NEW s \in Seq(S), s # <<>>
  PROVE  s = <<Head(s)>> \o Tail(s) /\ <<Head(s)>> \in Seq(S) /\ Tail(s) \in Seq(S)
<1>1. Head(s) \in S /\ Tail(s) \in Seq(S)
  BY HeadTailProperties
<1>2. Len(<<Head(s)>> \o Tail(s)) = Len(s)
  BY <1>1
<1>3. \A i \in 1 .. Len(s) : (<<Head(s)>> \o Tail(s))[i] = s[i]
  BY <1>1
<1> QED BY <1>1, <1>2, <1>3, SeqEqual

LEMMA InitCInv == Init => CInv
<1> SUFFICES ASSUME Init PROVE Filled /\ Conserved
  BY InitIInv DEF CInv
<1>1. /\ due = <<>> /\ a2h = <<>> /\ a2hOffer = <<>> /\ todo = <<>> /\ h2a = <<>>
      /\ buffer = <<>> /\ left = 0
  BY DEF Init, H2A!FifoInit, A2H!FifoInit
<1>2. Filled
  BY <1>1 DEF Filled
<1>3. Fetched = <<>>
  BY <1>1 DEF Fetched
<1>4. Answers(<<>>) = <<>>
  <2>1. <<>> \in Seq(Request) /\ Len(<<>>) = 0 /\ Reply * 0 = 0
    OBVIOUS
  <2>2. Answers(<<>>) \in Seq(Word) /\ Len(Answers(<<>>)) = 0
    BY <2>1, AnswersType
  <2> QED BY <2>2, EmptySeq
<1> QED BY <1>1, <1>2, <1>3, <1>4 DEF Conserved

LEMMA NextCInv == CInv /\ [Next]_vars => CInv'
<1> SUFFICES ASSUME CInv, [Next]_vars PROVE Filled' /\ Conserved'
  BY NextIInv DEF CInv
<1> HIDE ReplyAssumption, CapacityAssumption, MaxReadAssumption, MaxDueAssumption
<1> USE DEF h2aVars, a2hVars, InRead, InWrite
<1> DEFINE F == Fetched
           A == Answers(h2a)
<1>0. TypeOK /\ Filled /\ due = F \o a2h \o a2hOffer \o todo \o A /\ HostState
  BY DEF CInv, IInv, Conserved
<1>t. /\ F \in Seq(Word) /\ Len(F) = Len(buffer) - left
      /\ a2h \in Seq(Word) /\ a2hOffer \in Seq(Word) /\ todo \in Seq(Word) /\ due \in Seq(Word)
      /\ h2a \in Seq(Request) /\ h2aOffer \in Seq(Request) /\ A \in Seq(Word)
      /\ buffer \in Seq(Word \cup {None}) /\ Len(buffer) \in Nat /\ left \in 0 .. Len(buffer)
  BY FetchedType, AnswersType DEF CInv, IInv, TypeOK, HostState
<1>c. /\ F \o a2h \in Seq(Word) /\ F \o a2h \o a2hOffer \in Seq(Word)
      /\ F \o a2h \o a2hOffer \o todo \in Seq(Word)
  <2>1. F \o a2h \in Seq(Word)
    BY <1>t, Joined
  <2>2. F \o a2h \o a2hOffer \in Seq(Word)
    BY <1>t, <2>1, Joined
  <2> QED BY <1>t, <2>1, <2>2, Joined
<1>f. UNCHANGED <<buffer, left>> => UNCHANGED F /\ Filled'
  BY <1>0 DEF Fetched, Filled
<1> HIDE DEF F, A
<1>1. CASE \E w \in Request : CallWrite(w)
  BY <1>0, <1>1, <1>f DEF F, A, CallWrite, H2A!Offer, Conserved
<1>2. ASSUME NEW n \in 1 .. MaxRead, CallRead(n) PROVE Filled' /\ Conserved'
  <2>1. /\ buffer = <<>> /\ left' = n /\ buffer' = [i \in 1 .. n |-> None]
        /\ UNCHANGED <<h2a, a2h, a2hOffer, todo, due>>
    BY <1>2 DEF CallRead
  <2>2. Len(buffer') = n
    BY <2>1
  <2>3. Filled' /\ F' = <<>>
    BY <2>1, <2>2 DEF Filled, F, Fetched
  <2>4. F = <<>>
    BY <1>t, <2>1, EmptySeq
  <2> QED BY <1>0, <2>1, <2>3, <2>4 DEF F, A, Conserved
<1>3. CASE FinishWrite
  <2>1. /\ due' = due \o Answers(h2aOffer) /\ h2a' = h2a \o h2aOffer
        /\ UNCHANGED <<a2h, a2hOffer, todo, left, buffer>>
    BY <1>3 DEF FinishWrite, H2A!Commit
  <2>2. A' = A \o Answers(h2aOffer) /\ Answers(h2aOffer) \in Seq(Word)
    BY <1>t, <2>1, AnswersConcat, AnswersType DEF A
  <2>3. due' = (F \o a2h \o a2hOffer \o todo) \o (A \o Answers(h2aOffer))
    <3> DEFINE P == F \o a2h \o a2hOffer \o todo
               B == Answers(h2aOffer)
    <3>1. P \in Seq(Word) /\ A \in Seq(Word) /\ B \in Seq(Word)
      BY <1>t, <1>c, <2>2
    <3>2. due' = (P \o A) \o B
      BY <1>0, <2>1
    <3> HIDE DEF P, B
    <3>3. (P \o A) \o B = P \o (A \o B)
      BY <3>1, Regrouped
    <3> QED BY <3>2, <3>3 DEF P, B
  <2> QED BY <1>f, <2>1, <2>2, <2>3 DEF F, A, Conserved
<1>4. CASE ReadWord
  <2>1. /\ buffer # <<>> /\ left > 0 /\ a2h # <<>> /\ left' = left - 1
        /\ last' = Head(a2h) /\ a2h' = Tail(a2h)
        /\ buffer' = [buffer EXCEPT ![left] = last']
        /\ UNCHANGED <<h2a, a2hOffer, todo, due>>
    BY <1>4 DEF ReadWord, A2H!Take
  <2>2. a2h = <<last'>> \o a2h' /\ <<last'>> \in Seq(Word) /\ a2h' \in Seq(Word) /\ last' \in Word
    BY <1>t, <2>1, HeadAndTail, HeadTailProperties
  <2>3. /\ Len(buffer') = Len(buffer)
        /\ \A j \in 1 .. Len(buffer) : buffer'[j] = IF j = left THEN last' ELSE buffer[j]
    BY <1>t, <2>1, <2>2, ExceptSeq
  <2>4. Filled'
    BY <1>0, <1>t, <2>1, <2>2, <2>3 DEF Filled
  <2>5. F' = F \o <<last'>>
    <3> DEFINE n == Len(buffer)
    <3>1. F \o <<last'>> \in Seq(Word) /\ Len(F \o <<last'>>) = n - left + 1
      <4>1. <<last'>> \in Seq(Word) /\ Len(<<last'>>) = 1
        BY <2>2
      <4>2. F \in Seq(Word) /\ Len(F) = n - left
        BY <1>t
      <4> HIDE DEF n
      <4>3. F \o <<last'>> \in Seq(Word) /\ Len(F \o <<last'>>) = Len(F) + Len(<<last'>>)
        BY <4>1, <4>2, Joined
      <4> QED BY <4>1, <4>2, <4>3
    <3>2. F' = [i \in 1 .. n - left + 1 |-> buffer'[n + 1 - i]]
      BY <1>t, <2>1, <2>3 DEF F, Fetched
    <3>3. \A i \in 1 .. n - left + 1 : buffer'[n + 1 - i] \in Word
      <4>1. \A j \in left' + 1 .. Len(buffer') : buffer'[j] \in Word
        BY <2>4 DEF Filled
      <4>2. \A i \in 1 .. n - left + 1 : n + 1 - i \in left' + 1 .. Len(buffer')
        BY <1>t, <2>1, <2>3
      <4> QED BY <4>1, <4>2
    <3>4. F' \in Seq(Word) /\ Len(F') = n - left + 1
      BY <1>t, <3>2, <3>3
    <3>5. ASSUME NEW i \in 1 .. n - left + 1 PROVE F'[i] = (F \o <<last'>>)[i]
      <4>1. F'[i] = buffer'[n + 1 - i]
        BY <3>2
      <4>2. CASE i = n - left + 1
        BY <1>t, <2>1, <2>2, <2>3, <4>1, <4>2, ConcatProperties, SMTT(30)
      <4>3. CASE i <= n - left
        <5>1. F'[i] = buffer[n + 1 - i]
          BY <1>t, <2>1, <2>3, <4>1, <4>3
        <5>2. F[i] = buffer[n + 1 - i]
          BY <1>t, <4>3 DEF F, Fetched
        <5> QED BY <1>t, <2>2, <4>3, <5>1, <5>2, ConcatProperties
      <4> QED BY <1>t, <4>2, <4>3, SMTT(30)
    <3> QED BY <3>1, <3>4, <3>5, SeqEqual
  <2>6. F \o a2h = F' \o a2h'
    <3>1. (F \o <<last'>>) \o a2h' = F \o (<<last'>> \o a2h')
      <4> DEFINE x == <<last'>>
      <4>1. F \in Seq(Word) /\ x \in Seq(Word) /\ a2h' \in Seq(Word)
        BY <1>t, <2>2
      <4> HIDE DEF x
      <4>2. (F \o x) \o a2h' = F \o (x \o a2h')
        BY <4>1, Regrouped
      <4> QED BY <4>2 DEF x
    <3> QED BY <2>2, <2>5, <3>1
  <2> QED BY <1>0, <2>1, <2>4, <2>6 DEF F, A, Conserved
<1>5. CASE ReturnRead
  <2>1. /\ left = 0 /\ due' = SubSeq(due, Len(buffer) + 1, Len(due))
        /\ buffer' = <<>> /\ UNCHANGED <<h2a, a2h, a2hOffer, todo, left>>
    BY <1>5 DEF ReturnRead
  <2> DEFINE R == a2h \o a2hOffer \o todo \o A
  <2>2. R \in Seq(Word) /\ due = F \o R
    <3> DEFINE x == a2h \o a2hOffer
               y == x \o todo
    <3>1. x \in Seq(Word) /\ F \o a2h \o a2hOffer = F \o x
      <4>1. F \in Seq(Word) /\ a2h \in Seq(Word) /\ a2hOffer \in Seq(Word)
        BY <1>t
      <4> QED BY <4>1, Joined, Regrouped
    <3> HIDE DEF x
    <3>2. y \in Seq(Word) /\ (F \o x) \o todo = F \o y
      <4>1. F \in Seq(Word) /\ x \in Seq(Word) /\ todo \in Seq(Word)
        BY <1>t, <3>1
      <4> QED BY <4>1, Joined, Regrouped
    <3> HIDE DEF y
    <3>3. y \o A \in Seq(Word) /\ (F \o y) \o A = F \o (y \o A)
      <4>1. F \in Seq(Word) /\ y \in Seq(Word) /\ A \in Seq(Word)
        BY <1>t, <3>2
      <4> QED BY <4>1, Joined, Regrouped
    <3> QED BY <1>0, <3>1, <3>2, <3>3 DEF x, y
  <2>3. due' = R
    <3> HIDE DEF R
    <3> QED BY <1>t, <2>1, <2>2, Rest, SMTT(30)
  <2>4. F' = <<>> /\ Filled'
    BY <2>1 DEF F, Fetched, Filled
  <2>5. F' \o a2h = a2h
    BY <1>t, <2>4, ConcatEmptySeq
  <2> QED BY <2>1, <2>3, <2>4, <2>5 DEF F, A, Conserved
<1>6. CASE TakeRequest
  <2>1. /\ todo = <<>> /\ h2a # <<>> /\ req' = Head(h2a) /\ h2a' = Tail(h2a)
        /\ todo' = Answers(<<req'>>)
        /\ UNCHANGED <<a2h, a2hOffer, left, buffer, due>>
    BY <1>6 DEF TakeRequest, H2A!Take
  <2>2. h2a = <<req'>> \o h2a' /\ <<req'>> \in Seq(Request) /\ h2a' \in Seq(Request)
    BY <1>t, <2>1, HeadAndTail
  <2>3. A = todo' \o A' /\ todo' \in Seq(Word) /\ A' \in Seq(Word)
    BY <2>1, <2>2, AnswersConcat, AnswersType DEF A
  <2>4. due = (F \o a2h \o a2hOffer) \o A
    BY <1>0, <1>c, <2>1, ConcatEmptySeq
  <2>5. due = (F \o a2h \o a2hOffer) \o todo' \o A'
    BY <1>c, <2>3, <2>4, Regrouped
  <2> QED BY <1>f, <2>1, <2>5 DEF F, A, Conserved
<1>7. CASE CallAnswer
  <2>1. /\ todo # <<>> /\ a2hOffer = <<>> /\ a2hOffer' = <<Head(todo)>> /\ todo' = Tail(todo)
        /\ UNCHANGED <<h2a, a2h, left, buffer, due>>
    BY <1>7 DEF CallAnswer, A2H!Offer
  <2>2. todo = a2hOffer' \o todo' /\ a2hOffer' \in Seq(Word) /\ todo' \in Seq(Word)
    BY <1>t, <2>1, HeadAndTail
  <2>3. F \o a2h \o a2hOffer \o todo = (F \o a2h) \o todo
    BY <1>c, <2>1, ConcatEmptySeq
  <2>4. F \o a2h \o a2hOffer \o todo = F \o a2h \o a2hOffer' \o todo'
    BY <1>c, <2>2, <2>3, Regrouped, ZenonT(60)
  <2> QED BY <1>0, <1>f, <2>1, <2>4 DEF F, A, Conserved
<1>8. CASE FinishAnswer
  <2>1. /\ a2h' = a2h \o a2hOffer /\ a2hOffer' = <<>>
        /\ UNCHANGED <<h2a, todo, left, buffer, due>>
    BY <1>8 DEF FinishAnswer, A2H!Commit
  <2>2. F \o a2h \o a2hOffer = F \o a2h'
    <3>1. (F \o a2h) \o a2hOffer = F \o (a2h \o a2hOffer)
      <4>1. F \in Seq(Word) /\ a2h \in Seq(Word) /\ a2hOffer \in Seq(Word)
        BY <1>t
      <4> QED BY <4>1, Regrouped
    <3> QED BY <2>1, <3>1
  <2>3. F \o a2h' \o a2hOffer' = F \o a2h'
    BY <1>c, <2>1, <2>2, ConcatEmptySeq
  <2> QED BY <1>0, <1>f, <2>1, <2>2, <2>3 DEF F, A, Conserved
<1>9. CASE UNCHANGED vars
  BY <1>0, <1>f, <1>9 DEF F, A, vars, Conserved
<1> QED BY <1>1, <1>2, <1>3, <1>4, <1>5, <1>6, <1>7, <1>8, <1>9 DEF Next, HostRun, Device

LEMMA ConservedInvariance == Spec => []CInv
  BY InitCInv, NextCInv, PTL DEF Spec

(* No word is lost, duplicated or reordered between the call that requests  *)
(* it and the read that returns it, for every capacity and answer length.   *)
THEOREM NothingLost == Spec => []Conserved
<1>1. CInv => Conserved
  BY DEF CInv
<1> QED BY <1>1, ConservedInvariance, PTL

(* A read of n words returns the n oldest words due, the oldest in the last *)
(* place of the buffer.                                                     *)
THEOREM ReadsReversed == Spec => ReadReverses
<1>1. CInv /\ [Next]_vars =>
        [ReturnRead => \A i \in 1 .. Len(buffer) : buffer[i] = due[Len(buffer) + 1 - i]]_vars
  <2> SUFFICES ASSUME CInv, ReturnRead, NEW i \in 1 .. Len(buffer)
               PROVE  buffer[i] = due[Len(buffer) + 1 - i]
    OBVIOUS
  <2> DEFINE F == Fetched
             A == Answers(h2a)
             n == Len(buffer)
             R == a2h \o a2hOffer \o todo \o A
  <2>1. /\ F \in Seq(Word) /\ Len(F) = n /\ n \in Nat /\ left = 0
        /\ a2h \in Seq(Word) /\ a2hOffer \in Seq(Word) /\ todo \in Seq(Word) /\ A \in Seq(Word)
    BY FetchedType, AnswersType DEF CInv, IInv, TypeOK, ReturnRead
  <2>2. F[n + 1 - i] = buffer[i]
    BY <2>1 DEF Fetched
  <2> HIDE DEF F, A
  <2>3. due = F \o a2h \o a2hOffer \o todo \o A
    BY DEF CInv, Conserved, F, A
  <2>4. /\ F \o a2h \in Seq(Word) /\ (F \o a2h) \o a2hOffer \in Seq(Word)
        /\ F \o a2h \o a2hOffer \o todo \in Seq(Word)
    BY <2>1, ConcatProperties
  <2> DEFINE j == n + 1 - i
  <2>5. j \in 1 .. n
    BY <2>1
  <2>6. (F \o a2h)[j] = F[j] /\ j \in 1 .. Len(F \o a2h)
    BY <2>1, <2>5, ConcatProperties
  <2>7. (F \o a2h \o a2hOffer)[j] = F[j] /\ j \in 1 .. Len(F \o a2h \o a2hOffer)
    BY <2>1, <2>4, <2>6, ConcatProperties
  <2>8. (F \o a2h \o a2hOffer \o todo)[j] = F[j] /\ j \in 1 .. Len(F \o a2h \o a2hOffer \o todo)
    BY <2>1, <2>4, <2>7, ConcatProperties
  <2>9. due[j] = F[j]
    BY <2>1, <2>3, <2>4, <2>8, ConcatProperties
  <2> QED BY <2>2, <2>9
<1> QED BY <1>1, ConservedInvariance, PTL DEF Spec, ReadReverses
=============================================================================
