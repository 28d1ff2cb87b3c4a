---------------------------- MODULE StreamProofs ----------------------------
(***************************************************************************)
(* A model call, for every set of frames a provider may send, every way to *)
(* cut them, every capacity and every price: what it is charged, the types *)
(* of its state, the increments its host is shown, and its answer.         *)
(*                                                                         *)
(* The charge: the evidence holds the last valid report among the frames   *)
(* that were read whole, and what the accumulator knows of usage is either *)
(* nothing or the same report, so that it does not matter which of the two *)
(* a call is settled with, nor where its future was dropped.               *)
(*                                                                         *)
(* The increments: while the call may still succeed and its reader stays,  *)
(* what was read, what is on its way and what is still to be sent are, one *)
(* after the other, the text of the answer.                                *)
(*                                                                         *)
(* The answer: while the call may still succeed, it is what the frames     *)
(* read so far say, one after the other.  A frame says it with FoldLeft    *)
(* and FlattenSeq, for which the lemmas before it give a step: what one    *)
(* more element adds comes last.                                           *)
(***************************************************************************)
EXTENDS Stream, FiniteSetTheorems, SequenceTheorems, TLAPS, WellFoundedInduction

\* u is the last valid report of the frames in fs, or None without one.
LastReport(u, fs) ==
    \/ u = None /\ \A i \in 1..Len(fs) : UsageIn(fs[i]) = None
    \/ u # None /\ \E i \in 1..Len(fs) :
          /\ UsageIn(fs[i]) = u
          /\ \A j \in (i + 1)..Len(fs) : UsageIn(fs[j]) = None

Charged == IF evidence.usage = None THEN Unknown ELSE Cost(evidence.usage)

IInv ==
    /\ endpoint \in DOMAIN Names
    /\ received \in Seq(Names[endpoint])
    /\ "usage" \in DOMAIN acc
    /\ acc.usage \in {None, evidence.usage}
    /\ LastReport(evidence.usage, received)
    /\ place = "returned" /\ outcome # "not_dispatched" => bill = Charged

-----------------------------------------------------------------------------
\* A call that has not begun has no evidence and no report.
LEMMA InitInvariant == StreamAssumption /\ Init => IInv
  BY DEF StreamAssumption, Init, IInv, NewAnswer, Nothing, LastReport, UsageIn

\* A chat frame leaves the accumulator's usage alone, or replaces it by what
\* it reports, whether or not the rest of the frame can be read.
LEMMA ChatUsage ==
    ASSUME NEW f, "usage" \in DOMAIN acc
    PROVE  /\ "usage" \in DOMAIN ChatFrame(f).acc
           /\ ChatFrame(f).acc.usage = IF f.usage = "absent" THEN acc.usage
                                                             ELSE ParseUsage(f.usage)
<1> DEFINE counted == [acc EXCEPT !.id    = IF f.id = None THEN @ ELSE f.id,
                                  !.usage = IF f.usage = "absent" THEN @ ELSE ParseUsage(f.usage)]
           tools   == AddFragments(counted.tools, ChatTools(f))
           text    == counted.text \o ChatText(f)
           whole   == [counted EXCEPT !.text = text, !.tools = tools,
                                      !.complete = Finished(ChatFinish(f))]
<1>1. /\ "usage" \in DOMAIN counted
      /\ counted.usage = IF f.usage = "absent" THEN acc.usage ELSE ParseUsage(f.usage)
  OBVIOUS
<1>2. ChatFrame(f).acc \in {counted, whole}
  BY DEF ChatFrame
<1> HIDE DEF counted, tools, text
<1>3. "usage" \in DOMAIN whole /\ whole.usage = counted.usage
  BY <1>1
<1> QED
  BY <1>1, <1>2, <1>3

\* So does a Responses event, of which only the last ones report usage.
LEMMA ResponsesUsage ==
    ASSUME NEW f, "usage" \in DOMAIN acc
    PROVE  /\ "usage" \in DOMAIN ResponsesFrame(f).acc
           /\ ResponsesFrame(f).acc.usage =
                 IF f.type \in {"completed", "incomplete", "failed"} THEN ParseUsage(f.usage)
                                                                      ELSE acc.usage
  BY DEF ResponsesFrame

\* What a frame does to usage is what it says of it.
LEMMA FrameUsage ==
    ASSUME StreamAssumption, IInv, NEW n \in Names[endpoint]
    PROVE  LET read == ReadFrame(Frame[n]).acc
           IN  /\ "usage" \in DOMAIN read
               /\ read.usage = UsageIn(n) \/ (UsageIn(n) = None /\ read.usage = acc.usage)
<1>1. ParseUsage("absent") = None
  BY DEF StreamAssumption, ParseUsage
<1>2. "usage" \in DOMAIN acc /\ endpoint \in {Chat, Responses} /\ Frame[n].error \in BOOLEAN
  BY DEF StreamAssumption, IInv
<1>3. CASE Frame[n].error
  BY <1>2, <1>3 DEF ReadFrame, UsageIn
<1>4. CASE ~Frame[n].error /\ endpoint = Chat
  BY <1>1, <1>2, <1>4, ChatUsage DEF ReadFrame, UsageIn, Chat, Responses
<1>5. CASE ~Frame[n].error /\ endpoint = Responses
  BY <1>2, <1>5, ResponsesUsage DEF ReadFrame, UsageIn, Chat, Responses
<1> QED
  BY <1>2, <1>3, <1>4, <1>5

-----------------------------------------------------------------------------
\* A frame that is taken brings the evidence up to date, whether or not the
\* call goes on after it.
LEMMA TakeFrameInvariant ==
    ASSUME StreamAssumption, IInv, NEW n \in Names[endpoint], TakeFrame(n),
           UNCHANGED given, place = "reading"
    PROVE  IInv'
<1> DEFINE read == ReadFrame(Frame[n]).acc
<1>1. /\ received' = Append(received, n) /\ acc' = read
      /\ evidence' = Record(read.usage, read.id) /\ place' # "returned"
      /\ endpoint' = endpoint
  BY DEF TakeFrame, End, given
<1>2. /\ "usage" \in DOMAIN read
      /\ read.usage = UsageIn(n) \/ (UsageIn(n) = None /\ read.usage = acc.usage)
  BY FrameUsage
<1> HIDE DEF read
<1>3. evidence'.usage = IF read.usage = None THEN evidence.usage ELSE read.usage
  BY <1>1 DEF Record
<1>4. evidence'.usage = IF UsageIn(n) = None THEN evidence.usage ELSE UsageIn(n)
  BY <1>2, <1>3 DEF IInv
<1>5. /\ received \in Seq(Names[endpoint]) /\ Len(received') = Len(received) + 1
      /\ received' \in Seq(Names[endpoint])
      /\ \A i \in 1..Len(received) : received'[i] = received[i]
      /\ received'[Len(received) + 1] = n
  BY <1>1 DEF IInv
<1>6. \A m : UsageIn(m)' = UsageIn(m)
  BY <1>1 DEF UsageIn
<1>7. LastReport(evidence.usage, received)'
  <2>1. CASE UsageIn(n) # None
    BY <1>4, <1>5, <1>6, <2>1 DEF LastReport
  <2>2. CASE UsageIn(n) = None
    <3>1. evidence'.usage = evidence.usage
      BY <1>4, <2>2
    <3>2. \A i \in 1..Len(received) : UsageIn(received[i])' = UsageIn(received[i])
      BY <1>5, <1>6
    <3>3. UsageIn(received[Len(received)])' = None
      BY <1>5, <1>6, <2>2
    <3>4. CASE /\ evidence.usage = None
               /\ \A i \in 1..Len(received) : UsageIn(received[i]) = None
      BY <1>5, <3>1, <3>2, <3>3, <3>4 DEF LastReport
    <3>5. CASE evidence.usage # None
      <4>1. PICK i \in 1..Len(received) :
               /\ UsageIn(received[i]) = evidence.usage
               /\ \A j \in (i + 1)..Len(received) : UsageIn(received[j]) = None
        BY <3>5 DEF IInv, LastReport
      <4>2. i \in 1..Len(received') /\ UsageIn(received[i])' = evidence'.usage
        BY <1>5, <3>1, <3>2, <4>1
      <4>3. ASSUME NEW j \in (i + 1)..Len(received')
            PROVE  UsageIn(received[j])' = None
        <5>1. j \in (i + 1)..Len(received) \/ j = Len(received) + 1
          <6> DEFINE l == Len(received)
          <6>1. l \in Nat /\ i \in Nat /\ j \in (i + 1)..(l + 1)
            BY <1>5
          <6> HIDE DEF l
          <6>2. j \in (i + 1)..l \/ j = l + 1
            BY <6>1
          <6> QED
            BY <6>2 DEF l
        <5> QED
          BY <1>5, <3>2, <3>3, <4>1, <5>1
      <4> QED
        BY <3>1, <3>5, <4>2, <4>3 DEF LastReport
    <3> QED
      BY <3>4, <3>5 DEF IInv, LastReport
  <2> QED
    BY <2>1, <2>2
<1> QED
  BY <1>1, <1>2, <1>3, <1>5, <1>7 DEF IInv

-----------------------------------------------------------------------------
\* Steps that read no frame and settle nothing.
LEMMA QuietInvariant ==
    ASSUME IInv, UNCHANGED <<given, acc, evidence, received>>,
           place' = "returned" => UNCHANGED <<place, outcome, bill>>
    PROVE  IInv'
<1>1. \A m : UsageIn(m)' = UsageIn(m)
  BY DEF UsageIn, given
<1>2. LastReport(evidence.usage, received)'
  BY <1>1 DEF IInv, LastReport
<1>3. Charged' = Charged
  BY DEF Charged
<1> QED
  BY <1>2, <1>3 DEF IInv, given

\* A call is settled with what is charged for its evidence.
LEMMA SettleInvariant ==
    ASSUME IInv, Settle
    PROVE  IInv'
<1>1. Settled(outcome) = evidence.usage
  BY DEF IInv, Settled
<1>2. outcome # "not_dispatched" => bill' = Charged
  BY <1>1 DEF Settle, Charged
<1>3. \A m : UsageIn(m)' = UsageIn(m)
  BY DEF UsageIn, Settle, given
<1>4. LastReport(evidence.usage, received)'
  BY <1>3 DEF IInv, LastReport, Settle
<1>5. Charged' = Charged
  BY DEF Charged, Settle
<1> QED
  BY <1>2, <1>4, <1>5 DEF IInv, Settle, given

\* Every step of the call, the provider and the host preserves the invariant.
LEMMA StepInvariant ==
    ASSUME StreamAssumption, IInv, [Next]_vars
    PROVE  IInv'
<1>1. CASE UNCHANGED vars
  BY <1>1, QuietInvariant DEF vars
<1>2. CASE Dispatch \/ Connect \/ ReadBytes \/ StreamBreaks \/ StreamEnds
  BY <1>2, QuietInvariant DEF Dispatch, Connect, ReadBytes, StreamBreaks, StreamEnds, End
<1>3. CASE SendPart \/ EventTooLarge \/ Interrupt
  BY <1>3, QuietInvariant DEF SendPart, EventTooLarge, Interrupt, End
<1>4. CASE Host
  BY <1>4, QuietInvariant DEF Host, HostReads, HostLeaves, HostCancels, TimeRunsOut
<1>5. CASE Settle
  BY <1>5, SettleInvariant
<1>6. ASSUME NEW l \in Lines, ReadLine(l)
      PROVE  IInv'
  BY <1>6, QuietInvariant DEF ReadLine, End
<1>7. ASSUME NEW l \in Lines, ReadFrameEnd(l)
      PROVE  IInv'
  <2>1. CASE \E n \in Parsed : TakeFrame(n)
    BY <1>7, <2>1, TakeFrameInvariant DEF ReadFrameEnd, Parsed
  <2>2. CASE ~\E n \in Parsed : TakeFrame(n)
    BY <1>7, <2>2, QuietInvariant DEF ReadFrameEnd, End
  <2> QED
    BY <2>1, <2>2
<1> QED
  BY <1>1, <1>2, <1>3, <1>4, <1>5, <1>6, <1>7 DEF Next, Engine, Provider, Reading

\* The invariant holds in every state a call can reach.
THEOREM Inductive == Spec => []IInv
<1>1. Init => IInv
  BY InitInvariant, StreamAssumption
<1>2. IInv /\ [Next]_vars => IInv'
  BY StepInvariant, StreamAssumption
<1> QED
  BY <1>1, <1>2, PTL DEF Spec

\* However a call ends, and wherever its future was dropped, it is charged
\* the last valid report of the frames that were read, or stays unknown.
THEOREM LastReportIsCharged == Spec => []ReceivedIsCharged
<1>1. IInv => ReceivedIsCharged
  <2> SUFFICES ASSUME IInv, place = "returned", outcome # "not_dispatched"
               PROVE  \/ /\ bill = Unknown
                         /\ \A i \in DOMAIN received : UsageIn(received[i]) = None
                      \/ \E i \in DOMAIN received :
                            /\ UsageIn(received[i]) # None
                            /\ \A j \in (i + 1)..Len(received) : UsageIn(received[j]) = None
                            /\ bill = Cost(UsageIn(received[i]))
    BY DEF ReceivedIsCharged
  <2>1. DOMAIN received = 1..Len(received)
    BY DEF IInv
  <2>2. bill = Charged /\ LastReport(evidence.usage, received)
    BY DEF IInv
  <2> QED
    BY <2>1, <2>2 DEF Charged, LastReport
<1> QED
  BY <1>1, Inductive, PTL

-----------------------------------------------------------------------------
(***************************************************************************)
(* Sets of naturals, and induction over them.                              *)
(***************************************************************************)
\* Every non-empty set of naturals has a least member.
LEMMA LeastMember ==
    ASSUME NEW T, T \subseteq Nat, T # {}
    PROVE  \E x \in T : \A y \in T : x <= y
<1> DEFINE Less == OpToRel(<, Nat)
<1>1. IsWellFoundedOn(Less, Nat)
  BY NatLessThanWellFounded, Zenon
<1>2. \A x, y \in Nat : y < x => <<y, x>> \in Less
  BY DEF OpToRel
<1> HIDE DEF Less
<1>3. PICK x \in T : \A y \in T : ~(<<y, x>> \in Less)
  BY <1>1, WFMin, Zenon
<1>4. \A y \in T : ~(y < x)
  BY <1>2, <1>3, Zenon
<1>5. x \in Nat /\ \A y \in T : y \in Nat
  OBVIOUS
<1>6. \A y \in T : x <= y
  BY <1>4, <1>5, SMT
<1> QED
  BY <1>6, Zenon

\* Induction over the naturals, with a set in the place of a predicate.
LEMMA SetInduction ==
    ASSUME NEW S, 0 \in S, \A m \in Nat : m \in S => m + 1 \in S
    PROVE  \A m \in Nat : m \in S
<1> DEFINE Bad == Nat \ S
<1>1. SUFFICES ASSUME Bad # {} PROVE FALSE
  OBVIOUS
<1>2. Bad \subseteq Nat
  OBVIOUS
<1> HIDE DEF Bad
<1>3. PICK x \in Bad : \A y \in Bad : x <= y
  BY <1>1, <1>2, LeastMember, Zenon
<1> USE DEF Bad
<1>4. x \in Nat /\ x # 0
  OBVIOUS
<1>5. x - 1 \in Nat /\ x - 1 \notin Bad
  BY <1>3, <1>4
<1>6. (x - 1) + 1 \in S
  BY <1>5
<1> QED
  BY <1>4, <1>6

-----------------------------------------------------------------------------
(***************************************************************************)
(* FlattenSeq: what one more sequence adds at either end.                  *)
(***************************************************************************)
\* g joins the sequences of s, up to each of them.
Joins(g, s) == g = [i \in 1..Len(s) |-> IF i = 1 THEN s[i] ELSE g[i - 1] \o s[i]]

\* Joins of one sequence and of a longer one that begins with it.
LEMMA JoinsOneMore ==
    ASSUME NEW T, NEW r \in Seq(T), NEW s \in Seq(T), Len(s) = Len(r) + 1,
           \A i \in 1..Len(r) : s[i] = r[i],
           NEW g, Joins(g, r)
    PROVE  \E h : Joins(h, s) /\ \A i \in 1..Len(r) : h[i] = g[i]
<1> DEFINE n == Len(r)
           h == [i \in 1..(n + 1) |-> IF i = n + 1 THEN IF i = 1 THEN s[i] ELSE g[n] \o s[i]
                                                   ELSE g[i]]
<1>1. n \in Nat
  OBVIOUS
<1> HIDE DEF n
<1>2. \A i \in 1..n : h[i] = g[i]
  BY <1>1
<1>3. ASSUME NEW i \in 1..(n + 1)
      PROVE  h[i] = IF i = 1 THEN s[i] ELSE h[i - 1] \o s[i]
  <2>1. CASE i = n + 1
    <3>1. i # 1 => i - 1 = n /\ n \in 1..n
      BY <1>1, <2>1
    <3> QED
      BY <1>1, <1>2, <2>1, <3>1
  <2>2. CASE i \in 1..n
    <3>1. i # 1 => i - 1 \in 1..n
      BY <1>1, <2>2
    <3>2. g[i] = IF i = 1 THEN r[i] ELSE g[i - 1] \o r[i]
      BY <2>2 DEF Joins, n
    <3>3. s[i] = r[i]
      BY <2>2 DEF n
    <3> QED
      BY <1>2, <2>2, <3>1, <3>2, <3>3
  <2> QED
    BY <1>1, <2>1, <2>2
<1>4. Joins(h, s)
  BY <1>3 DEF Joins, n
<1> QED
  BY <1>2, <1>4 DEF n

\* Every sequence has joins.
LEMMA JoinsExist ==
    ASSUME NEW T, NEW s \in Seq(T)
    PROVE  \E g : Joins(g, s)
<1> DEFINE S == {n \in Nat : \A r \in Seq(T) : Len(r) = n => \E g : Joins(g, r)}
<1>1. 0 \in S
  <2> SUFFICES ASSUME NEW r \in Seq(T), Len(r) = 0
               PROVE  Joins([i \in 1..0 |-> 0], r)
    OBVIOUS
  <2> QED
    BY DEF Joins
<1>2. ASSUME NEW n \in Nat, n \in S
      PROVE  n + 1 \in S
  <2> SUFFICES ASSUME NEW r \in Seq(T), Len(r) = n + 1
               PROVE  \E g : Joins(g, r)
    OBVIOUS
  <2> DEFINE q == SubSeq(r, 1, n)
  <2>1. q \in Seq(T) /\ Len(q) = n /\ \A i \in 1..n : q[i] = r[i]
    OBVIOUS
  <2>2. PICK g : Joins(g, q)
    BY <1>2, <2>1
  <2> HIDE DEF q
  <2> QED
    BY <2>1, <2>2, JoinsOneMore
<1> HIDE DEF S
<1>3. Len(s) \in S
  BY <1>1, <1>2, SetInduction
<1> QED
  BY <1>3 DEF S

\* What FlattenSeq returns is the last of the joins.
LEMMA FlattenIsJoin ==
    ASSUME NEW T, NEW s \in Seq(T), s # <<>>
    PROVE  \E g : Joins(g, s) /\ FlattenSeq(s) = g[Len(s)]
<1>1. Len(s) # 0
  BY EmptySeq
<1>2. \E g : g = [i \in 1..Len(s) |-> IF i = 1 THEN s[i] ELSE g[i - 1] \o s[i]]
  BY JoinsExist DEF Joins
<1>3. FlattenSeq(s) = (CHOOSE g : g = [i \in 1..Len(s) |->
                                         IF i = 1 THEN s[i] ELSE g[i - 1] \o s[i]])[Len(s)]
  BY <1>1 DEF FlattenSeq
<1> QED
  BY <1>2, <1>3 DEF Joins

\* Joins of sequences that agree agree.
LEMMA JoinsAgree ==
    ASSUME NEW r, NEW s, Len(r) \in Nat, Len(s) = Len(r) + 1,
           \A i \in 1..Len(r) : s[i] = r[i],
           NEW g, NEW h, Joins(g, r), Joins(h, s)
    PROVE  \A i \in 1..Len(r) : g[i] = h[i]
<1> DEFINE n == Len(r)
<1>0. n \in Nat /\ n = Len(r) /\ n <= Len(s) /\ Len(s) \in Nat /\ \A i \in 1..n : r[i] = s[i]
  OBVIOUS
<1> HIDE DEF n
<1> DEFINE S == {m \in Nat : m \in 1..n => g[m] = h[m]}
<1>1. 0 \in S
  OBVIOUS
<1>2. ASSUME NEW m \in Nat, m \in S
      PROVE  m + 1 \in S
  <2>1. CASE m + 1 <= n
    <3>1. m + 1 \in 1..Len(r) /\ m + 1 \in 1..Len(s) /\ r[m + 1] = s[m + 1] /\ (m + 1) - 1 = m
      BY <1>0, <2>1
    <3>2. /\ g[m + 1] = IF m + 1 = 1 THEN r[m + 1] ELSE g[m] \o r[m + 1]
          /\ h[m + 1] = IF m + 1 = 1 THEN s[m + 1] ELSE h[m] \o s[m + 1]
      BY <3>1 DEF Joins
    <3>3. m + 1 # 1 => g[m] = h[m]
      BY <1>0, <1>2, <2>1
    <3> QED
      BY <3>1, <3>2, <3>3
  <2> QED
    BY <2>1
<1> HIDE DEF S
<1>3. \A m \in Nat : m \in S
  BY <1>1, <1>2, SetInduction
<1> QED
  BY <1>0, <1>3 DEF S

\* One more sequence at the end.
LEMMA FlattenStep ==
    ASSUME NEW T
    PROVE  \A r, s \in Seq(Seq(T)) :
              /\ Len(s) = Len(r) + 1
              /\ \A i \in 1..Len(r) : s[i] = r[i]
              => FlattenSeq(s) = FlattenSeq(r) \o s[Len(s)]
<1>1. ASSUME NEW r, NEW s, r \in Seq(Seq(T)), s \in Seq(Seq(T)), Len(s) = Len(r) + 1,
             \A i \in 1..Len(r) : s[i] = r[i]
      PROVE  FlattenSeq(s) = FlattenSeq(r) \o s[Len(s)]
  <2>1. /\ Len(r) \in Nat /\ Len(s) \in Nat /\ Len(s) \in 1..Len(s)
        /\ s[Len(s)] \in Seq(T) /\ s # <<>>
    BY <1>1, EmptySeq
  <2>2. PICK h : Joins(h, s) /\ FlattenSeq(s) = h[Len(s)]
    BY <1>1, <2>1, FlattenIsJoin
  <2>3. h[Len(s)] = IF Len(s) = 1 THEN s[Len(s)] ELSE h[Len(s) - 1] \o s[Len(s)]
    BY <2>1, <2>2 DEF Joins
  <2>4. CASE r = <<>>
    <3>1. Len(r) = 0 /\ FlattenSeq(r) = <<>>
      BY <2>4 DEF FlattenSeq
    <3> QED
      BY <1>1, <2>1, <2>2, <2>3, <3>1, ConcatEmptySeq
  <2>5. CASE r # <<>>
    <3>1. Len(r) # 0
      BY <1>1, <2>5, EmptySeq
    <3>2. PICK g : Joins(g, r) /\ FlattenSeq(r) = g[Len(r)]
      BY <1>1, <2>5, FlattenIsJoin
    <3>3. Len(r) \in 1..Len(r) /\ Len(s) # 1 /\ Len(s) - 1 = Len(r)
      BY <1>1, <2>1, <3>1
    <3>4. \A i \in 1..Len(r) : g[i] = h[i]
      <4>1. Len(r) \in Nat /\ Len(s) = Len(r) + 1 /\ \A i \in 1..Len(r) : s[i] = r[i]
        BY <1>1, <2>1
      <4> QED
        BY <2>2, <3>2, <4>1, JoinsAgree
    <3>5. h[Len(s)] = h[Len(r)] \o s[Len(s)]
      BY <2>3, <3>3
    <3> QED
      BY <2>2, <3>2, <3>3, <3>4, <3>5
  <2> QED
    BY <2>4, <2>5
<1> QED
  BY <1>1

\* Nothing to flatten.
LEMMA FlattenNothing ==
    ASSUME NEW T, NEW s \in Seq(T), Len(s) = 0
    PROVE  s = <<>> /\ FlattenSeq(s) = <<>>
<1>1. s = <<>>
  BY EmptySeq
<1> QED
  BY <1>1 DEF FlattenSeq

\* A sequence of sequences is flattened to a sequence.
LEMMA FlattenType ==
    ASSUME NEW T, NEW s \in Seq(Seq(T))
    PROVE  FlattenSeq(s) \in Seq(T)
<1> DEFINE S == {n \in Nat : \A r \in Seq(Seq(T)) : Len(r) = n => FlattenSeq(r) \in Seq(T)}
<1>1. 0 \in S
  BY FlattenNothing, EmptySeq
<1>2. ASSUME NEW n \in Nat, n \in S
      PROVE  n + 1 \in S
  <2> SUFFICES ASSUME NEW r \in Seq(Seq(T)), Len(r) = n + 1
               PROVE  FlattenSeq(r) \in Seq(T)
    OBVIOUS
  <2> DEFINE q == SubSeq(r, 1, n)
  <2>1. q \in Seq(Seq(T)) /\ Len(q) = n /\ \A i \in 1..n : q[i] = r[i]
    OBVIOUS
  <2>2. FlattenSeq(q) \in Seq(T)
    BY <1>2, <2>1
  <2>3. n + 1 \in 1..Len(r) /\ r[n + 1] \in Seq(T)
    OBVIOUS
  <2> HIDE DEF q
  <2>4. FlattenSeq(r) = FlattenSeq(q) \o r[n + 1]
    BY <2>1, FlattenStep
  <2> QED
    BY <2>2, <2>3, <2>4, ConcatProperties
<1> HIDE DEF S
<1>3. Len(s) \in S
  BY <1>1, <1>2, SetInduction
<1> QED
  BY <1>3 DEF S

\* A function on 1..m is a sequence.
LEMMA ListOf ==
    ASSUME NEW S, NEW m \in Nat, NEW r \in [1..m -> S]
    PROVE  r \in Seq(S) /\ Len(r) = m
  OBVIOUS

\* What is flattened is what the only sequence with anything in it is.
LEMMA FlattenOne ==
    ASSUME NEW T, NEW i \in Nat
    PROVE  \A s \in Seq(Seq(T)) :
              (\A k \in 1..Len(s) : k # i => s[k] = <<>>)
              => FlattenSeq(s) = IF i \in 1..Len(s) THEN s[i] ELSE <<>>
<1> DEFINE Alone(s) == \A k \in 1..Len(s) : k # i => s[k] = <<>>
           One(s)   == FlattenSeq(s) = IF i \in 1..Len(s) THEN s[i] ELSE <<>>
           S == {n \in Nat : \A s \in Seq(Seq(T)) : Len(s) = n /\ Alone(s) => One(s)}
<1>1. 0 \in S
  <2> SUFFICES ASSUME NEW s \in Seq(Seq(T)), Len(s) = 0
               PROVE  One(s)
    OBVIOUS
  <2>1. s = <<>>
    BY EmptySeq
  <2>2. FlattenSeq(s) = <<>> /\ i \notin 1..Len(s)
    BY <2>1 DEF FlattenSeq
  <2> QED
    BY <2>2
<1>2. ASSUME NEW n \in Nat, n \in S
      PROVE  n + 1 \in S
  <2> SUFFICES ASSUME NEW s \in Seq(Seq(T)), Len(s) = n + 1, Alone(s)
               PROVE  One(s)
    OBVIOUS
  <2> DEFINE q == SubSeq(s, 1, n)
  <2>1. q \in Seq(Seq(T)) /\ Len(q) = n /\ \A k \in 1..n : q[k] = s[k]
    OBVIOUS
  <2> HIDE DEF q
  <2>2. Alone(q)
    BY <2>1
  <2>3. One(q)
    BY <1>2, <2>1, <2>2
  <2>4. FlattenSeq(s) = FlattenSeq(q) \o s[n + 1]
    BY <2>1, FlattenStep
  <2>5. s[n + 1] \in Seq(T) /\ FlattenSeq(q) \in Seq(T)
    BY <2>1, FlattenType
  <2>6. CASE i = n + 1
    <3>1. FlattenSeq(q) = <<>>
      BY <2>1, <2>3, <2>6
    <3> QED
      BY <2>4, <2>5, <2>6, <3>1, ConcatEmptySeq
  <2>7. CASE i # n + 1
    <3>1. s[n + 1] = <<>>
      BY <2>7
    <3>2. FlattenSeq(s) = FlattenSeq(q)
      BY <2>4, <2>5, <3>1, ConcatEmptySeq
    <3> QED
      BY <2>1, <2>3, <2>7, <3>2
  <2> QED
    BY <2>6, <2>7
<1>3. \A s \in Seq(Seq(T)) : Alone(s) => One(s)
  <2> SUFFICES ASSUME NEW s, s \in Seq(Seq(T)), Alone(s)
               PROVE  One(s)
    OBVIOUS
  <2> HIDE DEF S, One, Alone
  <2>1. Len(s) \in Nat
    OBVIOUS
  <2>2. Len(s) \in S
    BY <1>1, <1>2, <2>1, SetInduction
  <2> QED
    BY <2>2 DEF S
<1> QED
  BY <1>3

\* The first sequence and the rest.
LEMMA FlattenHead ==
    ASSUME NEW T
    PROVE  \A s \in Seq(Seq(T)) : s # <<>> => FlattenSeq(s) = Head(s) \o FlattenSeq(Tail(s))
<1>0. \A u, v, w \in Seq(T) : (u \o v) \o w = u \o (v \o w)
  BY ConcatAssociative
<1> DEFINE S == {n \in Nat : \A r \in Seq(Seq(T)) :
                    Len(r) = n /\ r # <<>> => FlattenSeq(r) = Head(r) \o FlattenSeq(Tail(r))}
<1>1. 0 \in S
  BY EmptySeq
<1>2. ASSUME NEW n \in Nat, n \in S
      PROVE  n + 1 \in S
  <2> SUFFICES ASSUME NEW r \in Seq(Seq(T)), Len(r) = n + 1, r # <<>>
               PROVE  FlattenSeq(r) = Head(r) \o FlattenSeq(Tail(r))
    OBVIOUS
  <2> DEFINE q == SubSeq(r, 1, n)
  <2>1. q \in Seq(Seq(T)) /\ Len(q) = n /\ \A i \in 1..n : q[i] = r[i]
    OBVIOUS
  <2>2. /\ n + 1 \in 1..Len(r) /\ r[n + 1] \in Seq(T) /\ Head(r) = r[1]
        /\ Tail(r) \in Seq(Seq(T)) /\ Len(Tail(r)) = n
        /\ \A i \in 1..n : Tail(r)[i] = r[i + 1]
    OBVIOUS
  <2> HIDE DEF q
  <2>3. FlattenSeq(r) = FlattenSeq(q) \o r[n + 1]
    BY <2>1, FlattenStep
  <2>4. CASE n = 0
    <3>1. FlattenSeq(q) = <<>> /\ FlattenSeq(Tail(r)) = <<>>
      BY <2>1, <2>2, <2>4, FlattenNothing
    <3> QED
      BY <2>2, <2>3, <2>4, <3>1, ConcatEmptySeq
  <2>5. CASE n # 0
    <3>1. q # <<>> /\ Head(q) = r[1] /\ Head(q) \in Seq(T) /\ Tail(q) \in Seq(Seq(T))
          /\ Len(Tail(q)) = n - 1 /\ \A i \in 1..(n - 1) : Tail(q)[i] = r[i + 1]
      BY <2>1, <2>5
    <3>2. FlattenSeq(q) = Head(q) \o FlattenSeq(Tail(q))
      BY <1>2, <2>1, <3>1
    <3>3. Len(Tail(r)) = Len(Tail(q)) + 1 /\ \A i \in 1..Len(Tail(q)) : Tail(r)[i] = Tail(q)[i]
      BY <2>2, <3>1
    <3>4. FlattenSeq(Tail(r)) = FlattenSeq(Tail(q)) \o Tail(r)[Len(Tail(r))]
      BY <2>2, <3>1, <3>3, FlattenStep
    <3>5. Tail(r)[Len(Tail(r))] = r[n + 1]
      BY <2>2, <2>5
    <3>6. Head(q) \in Seq(T) /\ FlattenSeq(Tail(q)) \in Seq(T) /\ r[n + 1] \in Seq(T)
      BY <2>2, <3>1, FlattenType
    <3>7. (Head(q) \o FlattenSeq(Tail(q))) \o r[n + 1] = Head(q) \o (FlattenSeq(Tail(q)) \o r[n + 1])
      BY <1>0, <3>6
    <3> QED
      BY <2>2, <2>3, <3>1, <3>2, <3>4, <3>5, <3>7
  <2> QED
    BY <2>4, <2>5
<1> HIDE DEF S
<1>3. \A n \in Nat : n \in S
  BY <1>1, <1>2, SetInduction
<1>4. \A s \in Seq(Seq(T)) : Len(s) \in Nat
  OBVIOUS
<1> QED
  BY <1>3, <1>4 DEF S

-----------------------------------------------------------------------------
(***************************************************************************)
(* FoldLeft of AddFragment: the fragments of a frame, one after the other. *)
(***************************************************************************)
\* What is said of the calls of an answer, by index.
Tools == UNION {[D -> ToolCall] : D \in SUBSET Nat}

\* The arguments of a call, of which there may be nothing yet.
ArgsAt(tools, j) == IF j \in DOMAIN tools THEN tools[j].args ELSE <<>>

\* Concatenation of strings of any kind.
LEMMA Regroup ==
    ASSUME NEW T, NEW u, NEW v, NEW w, u \in Seq(T), v \in Seq(T), w \in Seq(T)
    PROVE  (u \o v) \o w = u \o (v \o w) /\ u \o v \in Seq(T) /\ u \o <<>> = u /\ <<>> \o u = u
BY ConcatAssociative, ConcatProperties, ConcatEmptySeq

\* A set of numbers up to n has a greatest one, below which the others are.
LEMMA Greatest ==
    ASSUME NEW n \in Nat, NEW s, s \subseteq 1..n, s # {}
    PROVE  Max(s) \in s /\ \A y \in s : Max(s) >= y
<1> DEFINE R == {n - x : x \in s}
<1>0. \A x \in s : x \in Nat /\ x <= n
  OBVIOUS
<1>1. R \subseteq Nat /\ R # {}
  <2>1. \A x \in s : n - x \in Nat
    BY <1>0
  <2> QED
    BY <2>1
<1>2. PICK r \in R : \A q \in R : r <= q
  <2> HIDE DEF R
  <2> QED
    BY <1>1, LeastMember
<1>3. PICK x \in s : r = n - x
  BY <1>2
<1>4. \A y \in s : x >= y
  <2> SUFFICES ASSUME NEW y \in s
               PROVE  x >= y
    OBVIOUS
  <2>1. n - y \in R
    OBVIOUS
  <2>2. n - x <= n - y
    BY <1>2, <1>3, <2>1
  <2> QED
    BY <1>0, <2>2
<1> QED
  BY <1>4 DEF Max

\* g folds the members of ts at every set of places, the last one last.
Gathers(g, b, ts, P) ==
    g = [s \in P |-> IF s = {} THEN b ELSE AddFragment(g[s \ {Max(s)}], ts[Max(s)])]

\* The fold exists.
LEMMA GatherExists ==
    ASSUME NEW b, NEW ts, NEW n \in Nat
    PROVE  \E g : Gathers(g, b, ts, SUBSET (1..n))
<1> DEFINE S == {m \in Nat : \E g : Gathers(g, b, ts, SUBSET (1..m))}
<1>1. 0 \in S
  <2>1. \A s \in SUBSET (1..0) : s = {}
    OBVIOUS
  <2>2. Gathers([s \in SUBSET (1..0) |-> b], b, ts, SUBSET (1..0))
    BY <2>1 DEF Gathers
  <2> QED
    BY <2>2
<1>2. ASSUME NEW m \in Nat, m \in S
      PROVE  m + 1 \in S
  <2>1. PICK g : Gathers(g, b, ts, SUBSET (1..m))
    BY <1>2
  <2>2. PICK h : h = [s \in SUBSET (1..(m + 1)) |->
                        IF s = {} THEN b ELSE AddFragment(g[s \ {Max(s)}], ts[Max(s)])]
    OBVIOUS
  <2>3. \A s \in SUBSET (1..m) : s \in SUBSET (1..(m + 1)) /\ s \ {Max(s)} \in SUBSET (1..m)
    <3>1. \A x \in 1..m : x \in 1..(m + 1)
      OBVIOUS
    <3> QED
      BY <3>1
  <2>4. \A s \in SUBSET (1..(m + 1)) : s # {} => s \ {Max(s)} \in SUBSET (1..m)
    <3> SUFFICES ASSUME NEW s \in SUBSET (1..(m + 1)), s # {}, NEW x \in s, x # Max(s)
                 PROVE  x \in 1..m
      OBVIOUS
    <3>1. m + 1 \in Nat /\ s \subseteq 1..(m + 1)
      OBVIOUS
    <3>2. Max(s) \in s /\ \A y \in s : Max(s) >= y
      BY <3>1, Greatest
    <3>3. Max(s) \in 1..(m + 1) /\ x \in 1..(m + 1) /\ Max(s) >= x
      BY <3>1, <3>2
    <3> HIDE DEF S
    <3> QED
      BY <3>3
  <2>5. \A s \in SUBSET (1..m) : h[s] = g[s]
    BY <2>1, <2>2, <2>3 DEF Gathers
  <2>6. [s \in SUBSET (1..(m + 1)) |->
            IF s = {} THEN b ELSE AddFragment(g[s \ {Max(s)}], ts[Max(s)])]
         = [s \in SUBSET (1..(m + 1)) |->
            IF s = {} THEN b ELSE AddFragment(h[s \ {Max(s)}], ts[Max(s)])]
    BY <2>4, <2>5
  <2>7. Gathers(h, b, ts, SUBSET (1..(m + 1)))
    BY <2>2, <2>6 DEF Gathers
  <2> QED
    BY <2>7
<1> HIDE DEF S
<1>3. n \in S
  BY <1>1, <1>2, SetInduction
<1> QED
  BY <1>3 DEF S

\* AddFragments adds one fragment after the other.
LEMMA FoldSteps ==
    ASSUME NEW b, NEW ts, NEW n \in Nat, DOMAIN ts = 1..n
    PROVE  \E h : /\ h[0] = b /\ h[n] = AddFragments(b, ts)
                  /\ \A i \in 1..n : h[i] = AddFragment(h[i - 1], ts[i])
<1>2. \E g : g = [s \in SUBSET (1..n) |->
                    IF s = {} THEN b ELSE AddFragment(g[s \ {Max(s)}], ts[Max(s)])]
  <2>1. PICK g : Gathers(g, b, ts, SUBSET (1..n))
    BY GatherExists
  <2> QED
    BY <2>1 DEF Gathers
<1>3. AddFragments(b, ts) =
        (CHOOSE g : g = [s \in SUBSET (1..n) |->
                    IF s = {} THEN b ELSE AddFragment(g[s \ {Max(s)}], ts[Max(s)])])[1..n]
  BY DEF AddFragments, FoldLeft, MapThenFoldSet
<1>4. PICK g : Gathers(g, b, ts, SUBSET (1..n)) /\ AddFragments(b, ts) = g[1..n]
  BY <1>2, <1>3 DEF Gathers
<1> DEFINE h == [i \in 0..n |-> g[1..i]]
<1>5. h[0] = b
  <2>1. 1..0 = {} /\ {} \in SUBSET (1..n)
    OBVIOUS
  <2>2. g[{}] = b
    BY <1>4, <2>1 DEF Gathers
  <2> QED
    BY <2>1, <2>2
<1>6. h[n] = AddFragments(b, ts)
  BY <1>4
<1>7. ASSUME NEW i \in 1..n
      PROVE  h[i] = AddFragment(h[i - 1], ts[i])
  <2>1. /\ 1..i \in SUBSET (1..n) /\ 1..i # {} /\ i \in 1..i
        /\ i \in Nat /\ i - 1 \in 0..n /\ i \in 0..n
    <3>1. i \in Nat /\ i <= n /\ i >= 1
      OBVIOUS
    <3>2. \A x \in 1..i : x \in 1..n
      BY <3>1
    <3>3. i \in 1..i /\ i - 1 \in 0..n /\ i \in 0..n
      BY <3>1
    <3> QED
      BY <3>1, <3>2, <3>3
  <2>2. Max(1..i) = i
    <3>1. Max(1..i) \in 1..i /\ Max(1..i) >= i
      BY <2>1, Greatest
    <3> QED
      BY <2>1, <3>1
  <2>3. (1..i) \ {i} = 1..(i - 1)
    BY <2>1
  <2>4. g[1..i] = AddFragment(g[(1..i) \ {Max(1..i)}], ts[Max(1..i)])
    BY <1>4, <2>1 DEF Gathers
  <2> QED
    BY <2>1, <2>2, <2>3, <2>4
<1> HIDE DEF h
<1> QED
  BY <1>5, <1>6, <1>7

\* Arguments are strings.
LEMMA ArgsType ==
    ASSUME NEW tools \in Tools, NEW j
    PROVE  ArgsAt(tools, j) \in Seq(STRING)
BY EmptySeq DEF ArgsAt, Tools, ToolCall

\* A fragment is added to the call of its index, and to no other.
LEMMA FragmentAdded ==
    ASSUME NEW tools \in Tools, NEW t \in Fragments, t.index # Unknown
    PROVE  /\ AddFragment(tools, t) \in Tools
           /\ \A j : ArgsAt(AddFragment(tools, t), j)
                       = ArgsAt(tools, j) \o (IF t.index = j THEN t.args ELSE <<>>)
<1> DEFINE old == IF t.index \in DOMAIN tools THEN tools[t.index] ELSE NoCall
           new == [id |-> old.id \o t.id, name |-> old.name \o t.name,
                   args |-> old.args \o t.args]
<1>1. /\ t.index \in Nat /\ t.id \in Seq(STRING) /\ t.name \in Seq(STRING)
      /\ t.args \in Seq(STRING)
  BY DEF Fragments
<1>2. /\ DOMAIN tools \subseteq Nat /\ \A j \in DOMAIN tools : tools[j] \in ToolCall
  BY DEF Tools
<1>3. old \in ToolCall
  BY <1>2 DEF NoCall, ToolCall
<1>4. AddFragment(tools, t) = [j \in DOMAIN tools \cup {t.index} |->
                                 IF j = t.index THEN new ELSE tools[j]]
  BY DEF AddFragment
<1> HIDE DEF old
<1>5. new \in ToolCall
  BY <1>1, <1>3 DEF ToolCall
<1>6. new.args = old.args \o t.args
  OBVIOUS
<1>7. old.args = ArgsAt(tools, t.index)
  BY DEF old, ArgsAt, NoCall
<1> HIDE DEF new
<1>8. AddFragment(tools, t) \in Tools
  <2> DEFINE D == DOMAIN tools \cup {t.index}
  <2>1. D \in SUBSET Nat
    BY <1>1, <1>2
  <2>2. AddFragment(tools, t) \in [D -> ToolCall]
    BY <1>2, <1>4, <1>5
  <2> QED
    BY <2>1, <2>2 DEF Tools
<1>9. ASSUME NEW j
      PROVE  ArgsAt(AddFragment(tools, t), j)
               = ArgsAt(tools, j) \o (IF t.index = j THEN t.args ELSE <<>>)
  <2>1. CASE j = t.index
    BY <1>4, <1>6, <1>7, <2>1 DEF ArgsAt
  <2>2. CASE j # t.index
    <3>1. ArgsAt(AddFragment(tools, t), j) = ArgsAt(tools, j)
      BY <1>4, <2>2 DEF ArgsAt
    <3>2. ArgsAt(tools, j) \in Seq(STRING)
      BY <1>2, EmptySeq DEF ArgsAt, ToolCall
    <3> QED
      BY <2>2, <3>1, <3>2, Regroup
  <2> QED
    BY <2>1, <2>2
<1> QED
  BY <1>8, <1>9

\* The arguments that the fragments in ts bring to the call at j.
Brought(ts, j) == [k \in DOMAIN ts |-> IF ts[k].index = j THEN ts[k].args ELSE <<>>]

\* Folding fragments adds to every call what they bring it, in their order.
LEMMA FragmentsAdded ==
    ASSUME NEW tools \in Tools, NEW ts \in Seq(Fragments),
           \A i \in DOMAIN ts : ts[i].index # Unknown
    PROVE  /\ AddFragments(tools, ts) \in Tools
           /\ \A j : ArgsAt(AddFragments(tools, ts), j)
                       = ArgsAt(tools, j) \o FlattenSeq(Brought(ts, j))
<1> DEFINE n == Len(ts)
<1>1. n \in Nat /\ DOMAIN ts = 1..n /\ \A i \in 1..n : ts[i] \in Fragments
  OBVIOUS
<1> HIDE DEF n
<1>2. PICK h : /\ h[0] = tools /\ h[n] = AddFragments(tools, ts)
               /\ \A i \in 1..n : h[i] = AddFragment(h[i - 1], ts[i])
  <2>1. PICK b, u : b = tools /\ u = ts
    OBVIOUS
  <2>2. DOMAIN u = 1..n /\ \E r : r = AddFragments(b, u)
    BY <1>1, <2>1
  <2>3. PICK h : /\ h[0] = b /\ h[n] = AddFragments(b, u)
                 /\ \A i \in 1..n : h[i] = AddFragment(h[i - 1], u[i])
    BY <1>1, <2>2, FoldSteps
  <2> QED
    BY <2>1, <2>3
<1>3. ASSUME NEW j
      PROVE  Brought(ts, j) \in Seq(Seq(STRING)) /\ Len(Brought(ts, j)) = n
  <2>1. \A k \in 1..n : (IF ts[k].index = j THEN ts[k].args ELSE <<>>) \in Seq(STRING)
    BY <1>1, EmptySeq DEF Fragments
  <2>2. Brought(ts, j) \in [1..n -> Seq(STRING)]
    BY <1>1, <2>1 DEF Brought
  <2> QED
    BY <1>1, <2>2
<1> DEFINE Sum(m, j) == ArgsAt(tools, j) \o FlattenSeq(SubSeq(Brought(ts, j), 1, m))
           S == {m \in Nat : m <= n => h[m] \in Tools /\ \A j : ArgsAt(h[m], j) = Sum(m, j)}
<1>4. ASSUME NEW j
      PROVE  ArgsAt(tools, j) \in Seq(STRING)
  BY ArgsType
<1>5. 0 \in S
  <2> SUFFICES ASSUME NEW j
               PROVE  ArgsAt(tools, j) = Sum(0, j)
    BY <1>2
  <2>1. SubSeq(Brought(ts, j), 1, 0) = <<>>
    BY SubSeqEmpty
  <2>2. FlattenSeq(<<>>) = <<>>
    BY FlattenNothing, EmptySeq
  <2> QED
    BY <1>4, <2>1, <2>2, Regroup
<1>6. ASSUME NEW m \in Nat, m \in S
      PROVE  m + 1 \in S
  <2> SUFFICES ASSUME m + 1 <= n
               PROVE  h[m + 1] \in Tools /\ \A j : ArgsAt(h[m + 1], j) = Sum(m + 1, j)
    OBVIOUS
  <2>1. m + 1 \in 1..n /\ (m + 1) - 1 = m /\ m <= n
    BY <1>1
  <2>2. h[m] \in Tools /\ \A j : ArgsAt(h[m], j) = Sum(m, j)
    BY <1>6, <2>1
  <2>3. h[m + 1] = AddFragment(h[m], ts[m + 1]) /\ ts[m + 1].index # Unknown
        /\ ts[m + 1] \in Fragments
    BY <1>1, <1>2, <2>1
  <2> HIDE DEF S, Sum
  <2>4. /\ h[m + 1] \in Tools
        /\ \A j : ArgsAt(h[m + 1], j) = ArgsAt(h[m], j)
                                          \o (IF ts[m + 1].index = j THEN ts[m + 1].args ELSE <<>>)
    <3>1. h[m] \in Tools /\ ts[m + 1] \in Fragments /\ ts[m + 1].index # Unknown
      BY <2>2, <2>3
    <3>2. PICK u, t : u = h[m] /\ t = ts[m + 1]
      OBVIOUS
    <3>3. u \in Tools /\ t \in Fragments /\ t.index # Unknown
      BY <3>1, <3>2
    <3>4. /\ AddFragment(u, t) \in Tools
          /\ \A j : ArgsAt(AddFragment(u, t), j)
                      = ArgsAt(u, j) \o (IF t.index = j THEN t.args ELSE <<>>)
      BY <3>3, FragmentAdded
    <3> QED
      BY <2>3, <3>2, <3>4
  <2>5. ASSUME NEW j
        PROVE  ArgsAt(h[m + 1], j) = Sum(m + 1, j)
    <3> DEFINE r == SubSeq(Brought(ts, j), 1, m)
               s == SubSeq(Brought(ts, j), 1, m + 1)
               x == IF ts[m + 1].index = j THEN ts[m + 1].args ELSE <<>>
    <3>1. Brought(ts, j)[m + 1] = x
      BY <1>1, <2>1 DEF Brought
    <3>2. /\ r \in Seq(Seq(STRING)) /\ s \in Seq(Seq(STRING)) /\ Len(r) = m /\ Len(s) = m + 1
          /\ \A i \in 1..m : s[i] = r[i]
          /\ s[m + 1] = Brought(ts, j)[m + 1]
      BY <1>1, <1>3, <2>1
    <3> HIDE DEF r, s, x
    <3>3. FlattenSeq(s) = FlattenSeq(r) \o x
      BY <3>1, <3>2, FlattenStep
    <3>4. FlattenSeq(r) \in Seq(STRING)
      BY <3>2, FlattenType
    <3>5. x \in Seq(STRING)
      BY <2>3, EmptySeq DEF x, Fragments
    <3>6. (ArgsAt(tools, j) \o FlattenSeq(r)) \o x = ArgsAt(tools, j) \o (FlattenSeq(r) \o x)
      BY <1>4, <3>4, <3>5, Regroup
    <3>7. ArgsAt(h[m + 1], j) = ArgsAt(h[m], j) \o x
      BY <2>4 DEF x
    <3>8. ArgsAt(h[m], j) = ArgsAt(tools, j) \o FlattenSeq(r)
      BY <2>2 DEF Sum, r
    <3>9. Sum(m + 1, j) = ArgsAt(tools, j) \o FlattenSeq(s)
      BY DEF Sum, s
    <3> QED
      BY <3>3, <3>6, <3>7, <3>8, <3>9
  <2> QED
    BY <2>4, <2>5
<1> HIDE DEF S
<1>7. n \in S
  BY <1>1, <1>5, <1>6, SetInduction
<1>8. h[n] \in Tools /\ \A j : ArgsAt(h[n], j) = Sum(n, j)
  BY <1>1, <1>7 DEF S
<1>9. ASSUME NEW j
      PROVE  SubSeq(Brought(ts, j), 1, n) = Brought(ts, j)
  BY <1>3, SubSeqFull
<1> QED
  BY <1>2, <1>8, <1>9

-----------------------------------------------------------------------------
(***************************************************************************)
(* The types.                                                              *)
(***************************************************************************)
Answer == [text : Seq(STRING), tools : Tools, usage : Usages \cup {None}, id : STRING \cup {None},
           complete : BOOLEAN]

Event == {e \in Seq(STRING) : Len(e) \in 1..PartSize}

TInv ==
    /\ TypeOK
    /\ acc \in Answer
    /\ received \in Seq(Names[endpoint])
    /\ channel \in Seq(Event)
    /\ place = "emitting" => parts # <<>>

\* What the choices of a chat frame say, and that a single content is all of
\* the frame's text.
LEMMA ChatSays ==
    ASSUME StreamAssumption, NEW n \in Names[Chat]
    PROVE  /\ ChatText(Frame[n]) \in Seq(STRING) /\ ChatTools(Frame[n]) \in Seq(Fragments)
           /\ ChatDelta(Frame[n]) \in Seq(STRING)
           /\ ChatFinish(Frame[n]) \in {None, "stop", "tool_calls", "length"}
           /\ (\A j, k \in Speaking(Frame[n]) : j = k)
                 => ChatText(Frame[n]) = ChatDelta(Frame[n])
<1>1. PICK f : f = Frame[n]
  OBVIOUS
<1> DEFINE m == Len(f.choices)
<1>2. /\ m \in Nat /\ DOMAIN f.choices = 1..m
      /\ \A k \in 1..m : f.choices[k] \in ChatChoices
  <2>1. PICK cs : cs = f.choices
    OBVIOUS
  <2>2. cs \in Seq(ChatChoices)
    BY <1>1, <2>1 DEF StreamAssumption
  <2> QED
    BY <2>1, <2>2
<1> HIDE DEF m
<1>3. \A k \in 1..m :
         /\ f.choices[k].text \in Seq(STRING) /\ f.choices[k].tools \in Seq(Fragments)
         /\ f.choices[k].finish \in {None, "stop", "tool_calls", "length"}
         /\ ~f.choices[k].speaks => f.choices[k].text = <<>>
  BY <1>2 DEF ChatChoices
<1>4. /\ Mine(f) \subseteq 1..m /\ Speaking(f) \subseteq 1..m /\ Ending(f) \subseteq 1..m
      /\ Speaking(f) \subseteq Mine(f)
  BY <1>2 DEF Mine, Speaking, Ending
<1>5. \A s : s \subseteq 1..m /\ s # {} => Max(s) \in s
  BY <1>2, Greatest
<1>6. PICK r : r = [k \in DOMAIN f.choices |-> IF k \in Mine(f) THEN f.choices[k].text ELSE <<>>]
  OBVIOUS
<1>7. PICK t : t = [k \in DOMAIN f.choices |-> IF k \in Mine(f) THEN f.choices[k].tools ELSE <<>>]
  OBVIOUS
<1>8. r \in Seq(Seq(STRING)) /\ Len(r) = m
  <2>1. \A k \in 1..m : (IF k \in Mine(f) THEN f.choices[k].text ELSE <<>>) \in Seq(STRING)
    BY <1>3, EmptySeq
  <2>2. r \in [1..m -> Seq(STRING)]
    BY <1>2, <1>6, <2>1
  <2> QED
    BY <1>2, <2>2, ListOf
<1>9. t \in Seq(Seq(Fragments))
  <2>1. \A k \in 1..m : (IF k \in Mine(f) THEN f.choices[k].tools ELSE <<>>) \in Seq(Fragments)
    BY <1>3, EmptySeq
  <2>2. t \in [1..m -> Seq(Fragments)]
    BY <1>2, <1>7, <2>1
  <2> QED
    BY <1>2, <2>2, ListOf
<1>10. ChatText(f) = FlattenSeq(r) /\ ChatText(f) \in Seq(STRING)
  BY <1>6, <1>8, FlattenType DEF ChatText
<1>11. ChatTools(f) \in Seq(Fragments)
  BY <1>7, <1>9, FlattenType DEF ChatTools
<1>12. ChatDelta(f) \in Seq(STRING)
  BY <1>3, <1>4, <1>5, EmptySeq DEF ChatDelta
<1>13. ChatFinish(f) \in {None, "stop", "tool_calls", "length"}
  BY <1>3, <1>4, <1>5 DEF ChatFinish
<1>14. ASSUME \A j, k \in Speaking(f) : j = k
       PROVE  ChatText(f) = ChatDelta(f)
  <2>1. \A k \in 1..m : k \notin Speaking(f) => r[k] = <<>>
    BY <1>2, <1>3, <1>6 DEF Speaking
  <2>2. CASE Speaking(f) = {}
    <3>1. \A k \in 1..Len(r) : k # 0 => r[k] = <<>>
      BY <1>8, <2>1, <2>2
    <3>2. FlattenSeq(r) = IF 0 \in 1..Len(r) THEN r[0] ELSE <<>>
      BY <1>8, <3>1, FlattenOne
    <3>3. 0 \notin 1..Len(r)
      BY <1>2, <1>8
    <3> QED
      BY <1>10, <2>2, <3>2, <3>3 DEF ChatDelta
  <2>3. CASE Speaking(f) # {}
    <3>1. PICK i : i = Max(Speaking(f))
      OBVIOUS
    <3>2. i \in Speaking(f) /\ i \in 1..m /\ i \in Mine(f) /\ i \in Nat
      BY <1>4, <1>5, <2>3, <3>1
    <3>3. \A k \in 1..Len(r) : k # i => r[k] = <<>>
      BY <1>8, <1>14, <2>1, <3>2
    <3>4. FlattenSeq(r) = IF i \in 1..Len(r) THEN r[i] ELSE <<>>
      BY <1>8, <3>2, <3>3, FlattenOne
    <3>5. FlattenSeq(r) = f.choices[i].text
      BY <1>2, <1>6, <1>8, <3>2, <3>4
    <3> QED
      BY <1>10, <2>3, <3>1, <3>5 DEF ChatDelta
  <2> QED
    BY <2>2, <2>3
<1> QED
  BY <1>1, <1>10, <1>11, <1>12, <1>13, <1>14

\* What is read of a chat frame, and what that adds to the answer: of a
\* frame that cannot be read, nothing but identity and usage is kept.
ChatReads(f, read) ==
    /\ read.acc \in Answer /\ read.delta \in Seq(STRING) /\ read.error \in {None, "protocol"}
    /\ read.error = None =>
          /\ read.acc.text = acc.text \o ChatText(f) /\ read.delta = ChatDelta(f)
          /\ read.acc.complete = Finished(ChatFinish(f))
          /\ \A j : ArgsAt(read.acc.tools, j)
                      = ArgsAt(acc.tools, j) \o FlattenSeq(Brought(ChatTools(f), j))

\* A chat frame is read as it says.
LEMMA ChatAnswer ==
    ASSUME StreamAssumption, acc \in Answer, NEW n \in Names[Chat]
    PROVE  ChatReads(Frame[n], ChatFrame(Frame[n]))
<1> DEFINE f       == Frame[n]
           read    == ChatFrame(f)
           counted == [acc EXCEPT !.id    = IF f.id = None THEN @ ELSE f.id,
                                  !.usage = IF f.usage = "absent" THEN @ ELSE ParseUsage(f.usage)]
           tools   == AddFragments(counted.tools, ChatTools(f))
           whole   == [counted EXCEPT !.text = @ \o ChatText(f), !.tools = tools,
                                      !.complete = Finished(ChatFinish(f))]
           unread  == \E i \in DOMAIN ChatTools(f) : ChatTools(f)[i].index = Unknown
<1>1. f.id \in STRING /\ f.usage \in Usages \cup {"absent", "malformed"}
  BY DEF StreamAssumption
<1>2. ParseUsage(f.usage) \in Usages \cup {None}
  BY DEF ParseUsage
<1>3. /\ counted \in Answer /\ counted.text = acc.text /\ counted.tools = acc.tools
      /\ counted.complete = acc.complete
  BY <1>1, <1>2 DEF Answer
<1>4. acc.text \in Seq(STRING) /\ <<>> \in Seq(STRING)
  BY EmptySeq DEF Answer
<1>5. read = IF unread THEN [acc |-> counted, delta |-> <<>>, error |-> "protocol"]
             ELSE [acc |-> whole, delta |-> ChatDelta(f), error |-> None]
  BY DEF ChatFrame
<1>6. /\ ChatText(f) \in Seq(STRING) /\ ChatTools(f) \in Seq(Fragments)
      /\ ChatDelta(f) \in Seq(STRING)
  BY ChatSays
<1> HIDE DEF read, counted, f
<1>7. CASE unread
  <2>1. read.acc = counted /\ read.delta = <<>> /\ read.error = "protocol"
    BY <1>5, <1>7
  <2> QED
    BY <1>3, <1>4, <2>1 DEF ChatReads, None, read, f
<1>8. CASE ~unread
  <2>1. read.acc = whole /\ read.delta = ChatDelta(f) /\ read.error = None
    BY <1>5, <1>8
  <2>3. /\ tools \in Tools
        /\ \A j : ArgsAt(tools, j) = ArgsAt(acc.tools, j) \o FlattenSeq(Brought(ChatTools(f), j))
    <3>1. PICK b, ts : b = counted.tools /\ ts = ChatTools(f)
      OBVIOUS
    <3>2. /\ b \in Tools /\ ts \in Seq(Fragments)
          /\ \A i \in DOMAIN ts : ts[i].index # Unknown
      BY <1>3, <1>6, <1>8, <3>1 DEF Answer
    <3>3. /\ AddFragments(b, ts) \in Tools
          /\ \A j : ArgsAt(AddFragments(b, ts), j)
                      = ArgsAt(b, j) \o FlattenSeq(Brought(ts, j))
      BY <3>2, FragmentsAdded
    <3> QED
      BY <1>3, <3>1, <3>3
  <2>4. Finished(ChatFinish(f)) \in BOOLEAN
    BY Zenon DEF Finished
  <2>5. acc.text \o ChatText(f) \in Seq(STRING)
    BY <1>4, <1>6, Regroup
  <2> HIDE DEF tools
  <2>6. /\ whole.text = acc.text \o ChatText(f) /\ whole.tools = tools
        /\ whole.complete = Finished(ChatFinish(f)) /\ whole \in Answer
    BY <1>3, <2>3, <2>4, <2>5 DEF Answer
  <2> HIDE DEF whole
  <2>7. \A j : ArgsAt(read.acc.tools, j)
                 = ArgsAt(acc.tools, j) \o FlattenSeq(Brought(ChatTools(f), j))
    BY <2>1, <2>3, <2>6
  <2>8. /\ read.delta \in Seq(STRING) /\ read.acc \in Answer
        /\ read.acc.text = acc.text \o ChatText(f)
        /\ read.acc.complete = Finished(ChatFinish(f))
    BY <1>6, <2>1, <2>6
  <2> QED
    BY <2>1, <2>7, <2>8 DEF ChatReads, read, f
<1> QED
  BY <1>7, <1>8 DEF read, f

\* So is the event of a Responses stream; its last ones bring calls.
LastTypes == {"completed", "incomplete", "failed"}
ResponsesReads(n, read) ==
    /\ read.acc \in Answer /\ read.delta \in Seq(STRING) /\ read.error \in {None, "model"}
    /\ read.acc.text = acc.text \o read.delta
    /\ read.error = None =>
          /\ read.delta = IF Frame[n].type = "delta" THEN Frame[n].text ELSE <<>>
          /\ read.acc.complete =>
                IF Frame[n].type \in LastTypes
                THEN Frame[n].type = "completed" /\ Frame[n].status = "completed"
                ELSE acc.complete
          /\ \A i \in DOMAIN read.acc.tools :
                IF i \in DOMAIN CallsIn(n) THEN read.acc.tools[i].args = CallsIn(n)[i].args
                                           ELSE /\ i \in DOMAIN acc.tools
                                                /\ read.acc.tools[i] = acc.tools[i]

LEMMA ResponsesAnswer ==
    ASSUME StreamAssumption, acc \in Answer, NEW n \in Names[Responses]
    PROVE  ResponsesReads(n, ResponsesFrame(Frame[n]))
<1> DEFINE f     == Frame[n]
           read  == ResponsesFrame(f)
           tools == [i \in DOMAIN f.calls \cup DOMAIN acc.tools |->
                       IF i \in DOMAIN f.calls
                       THEN [id |-> f.calls[i].id, name |-> f.calls[i].name,
                             args |-> f.calls[i].args]
                       ELSE acc.tools[i]]
           more  == [acc EXCEPT !.text = @ \o f.text]
           done  == f.type = "completed" /\ f.status = "completed"
           whole == [acc EXCEPT !.complete = done, !.id = f.id, !.usage = ParseUsage(f.usage),
                                !.tools = tools]
<1>1. /\ f.type \in LastTypes \cup {"delta", "error", "other"} /\ f.id \in STRING
      /\ f.text \in Seq(STRING) /\ f.calls \in Seq(Fragments)
  BY DEF StreamAssumption, LastTypes
<1>2. /\ acc.text \in Seq(STRING) /\ <<>> \in Seq(STRING) /\ acc.text \o <<>> = acc.text
      /\ acc.text \o f.text \in Seq(STRING)
  BY <1>1, EmptySeq, Regroup DEF Answer
<1>3. ParseUsage(f.usage) \in Usages \cup {None}
  BY DEF ParseUsage
<1>4. tools \in Tools
  <2> DEFINE D == DOMAIN f.calls \cup DOMAIN acc.tools
  <2>1. /\ DOMAIN acc.tools \subseteq Nat /\ \A i \in DOMAIN acc.tools : acc.tools[i] \in ToolCall
    <3>1. acc.tools \in Tools
      BY DEF Answer
    <3>2. PICK E \in SUBSET Nat : acc.tools \in [E -> ToolCall]
      BY <3>1 DEF Tools
    <3> QED
      BY <3>2
  <2>2. /\ DOMAIN f.calls \subseteq Nat
        /\ \A i \in DOMAIN f.calls : /\ f.calls[i].id \in Seq(STRING)
                                     /\ f.calls[i].name \in Seq(STRING)
                                     /\ f.calls[i].args \in Seq(STRING)
    <3>1. PICK cs : cs = f.calls
      OBVIOUS
    <3>2. cs \in Seq(Fragments)
      BY <1>1, <3>1
    <3>3. DOMAIN cs \subseteq Nat /\ \A i \in DOMAIN cs : cs[i] \in Fragments
      BY <3>2
    <3> QED
      BY <3>1, <3>3 DEF Fragments
  <2> HIDE DEF f
  <2>3. \A i \in D : (IF i \in DOMAIN f.calls
                       THEN [id |-> f.calls[i].id, name |-> f.calls[i].name,
                             args |-> f.calls[i].args]
                       ELSE acc.tools[i]) \in ToolCall
    BY <2>1, <2>2 DEF ToolCall
  <2>4. tools \in [D -> ToolCall] /\ D \in SUBSET Nat
    BY <2>1, <2>2, <2>3
  <2> QED
    BY <2>4 DEF Tools
<1>5. read = IF f.type = "delta" THEN [acc |-> more, delta |-> f.text, error |-> None]
             ELSE IF f.type \in LastTypes THEN [acc |-> whole, delta |-> <<>>, error |-> None]
             ELSE [acc |-> acc, delta |-> <<>>,
                   error |-> IF f.type = "error" THEN "model" ELSE None]
  BY DEF ResponsesFrame, LastTypes
<1> HIDE DEF read, more, whole
<1>6. DOMAIN <<>> = {}
  OBVIOUS
<1>7. CASE f.type = "delta"
  <2>1. read.acc = more /\ read.delta = f.text /\ read.error = None
    BY <1>5, <1>7
  <2>2. /\ more \in Answer /\ more.text = acc.text \o f.text /\ more.tools = acc.tools
        /\ more.complete = acc.complete
    BY <1>2 DEF Answer, more
  <2>3. f.type \notin LastTypes /\ CallsIn(n) = <<>>
    BY <1>7 DEF LastTypes, CallsIn
  <2> QED
    BY <1>1, <1>6, <1>7, <2>1, <2>2, <2>3 DEF ResponsesReads, read
<1>8. CASE f.type \in LastTypes
  <2>1. read.acc = whole /\ read.delta = <<>> /\ read.error = None
    BY <1>5, <1>8 DEF LastTypes
  <2>2. f.type # "delta" /\ CallsIn(n) = f.calls
    BY <1>8 DEF LastTypes, CallsIn
  <2>3. \A i \in DOMAIN tools :
           IF i \in DOMAIN f.calls THEN tools[i].args = f.calls[i].args
                                   ELSE i \in DOMAIN acc.tools /\ tools[i] = acc.tools[i]
    OBVIOUS
  <2>4. done \in BOOLEAN
    OBVIOUS
  <2> HIDE DEF tools, done
  <2>5. /\ whole \in Answer /\ whole.text = acc.text /\ whole.tools = tools
        /\ whole.complete = done
    BY <1>1, <1>3, <1>4, <2>4 DEF Answer, whole
  <2>6. read.acc.complete => f.type = "completed" /\ f.status = "completed"
    BY <2>1, <2>5 DEF done
  <2> QED
    BY <1>2, <1>8, <2>1, <2>2, <2>3, <2>5, <2>6 DEF ResponsesReads, read
<1>9. CASE f.type \in {"error", "other"}
  <2>1. read.acc = acc /\ read.delta = <<>> /\ read.error \in {None, "model"}
    BY <1>5, <1>9 DEF LastTypes
  <2>2. f.type # "delta" /\ f.type \notin LastTypes /\ CallsIn(n) = <<>>
    BY <1>9 DEF LastTypes, CallsIn
  <2> QED
    BY <1>2, <1>6, <2>1, <2>2 DEF ResponsesReads, read
<1> QED
  BY <1>1, <1>7, <1>8, <1>9 DEF read

\* What is read of a frame, in terms of what the frame says.
Reads(n, read) ==
    /\ read.acc \in Answer /\ read.delta \in Seq(STRING)
    /\ read.error \in {None, "protocol", "model"}
    /\ read.error = None =>
          /\ read.acc.text = acc.text \o TextIn(n) /\ read.delta = ShownIn(n)
          /\ read.acc.complete => \/ FinishIn(n) = None /\ acc.complete
                                  \/ FinishIn(n) \in {"stop", "tool_calls"}
          /\ endpoint = Chat =>
                \A j : ArgsAt(read.acc.tools, j) = ArgsAt(acc.tools, j) \o ArgsIn(n, j)
          /\ endpoint = Responses =>
                \A i \in DOMAIN read.acc.tools :
                   IF i \in DOMAIN CallsIn(n) THEN read.acc.tools[i].args = CallsIn(n)[i].args
                                              ELSE /\ i \in DOMAIN acc.tools
                                                   /\ read.acc.tools[i] = acc.tools[i]

\* Frames are read as they say.
LEMMA FrameRead ==
    ASSUME StreamAssumption, acc \in Answer, endpoint \in DOMAIN Names, NEW n \in Names[endpoint]
    PROVE  Reads(n, ReadFrame(Frame[n]))
<1> DEFINE f == Frame[n]
           read == ReadFrame(f)
<1>1. endpoint \in {Chat, Responses} /\ f.error \in BOOLEAN /\ Chat # Responses
  BY DEF StreamAssumption, Chat, Responses
<1>2. CASE f.error
  <2>1. read = [acc |-> acc, delta |-> <<>>, error |-> "model"]
    BY <1>1, <1>2 DEF ReadFrame
  <2>2. <<>> \in Seq(STRING)
    BY EmptySeq
  <2> HIDE DEF read
  <2>3. read.acc = acc /\ read.delta = <<>> /\ read.error = "model"
    BY <2>1
  <2>4. "model" # None
    BY DEF None
  <2> QED
    BY <2>2, <2>3, <2>4 DEF Reads, read
<1>3. CASE ~f.error /\ endpoint = Chat
  <2>1. read = ChatFrame(f)
    BY <1>1, <1>3 DEF ReadFrame
  <2>2. ChatReads(f, read)
    BY <1>3, <2>1, ChatAnswer
  <2>3. /\ TextIn(n) = ChatText(f) /\ ShownIn(n) = ChatDelta(f) /\ FinishIn(n) = ChatFinish(f)
        /\ \A j : ArgsIn(n, j) = FlattenSeq(Brought(ChatTools(f), j))
    BY <1>1, <1>3 DEF TextIn, ShownIn, FinishIn, ArgsIn, Brought
  <2> HIDE DEF read, f
  <2>4. Finished(ChatFinish(f)) => \/ ChatFinish(f) = None /\ acc.complete
                                   \/ ChatFinish(f) \in {"stop", "tool_calls"}
    BY DEF Finished
  <2>5. read.error = None =>
          /\ read.acc.text = acc.text \o TextIn(n) /\ read.delta = ShownIn(n)
          /\ read.acc.complete => \/ FinishIn(n) = None /\ acc.complete
                                  \/ FinishIn(n) \in {"stop", "tool_calls"}
          /\ \A j : ArgsAt(read.acc.tools, j) = ArgsAt(acc.tools, j) \o ArgsIn(n, j)
    BY <2>2, <2>3, <2>4 DEF ChatReads
  <2> QED
    BY <1>1, <1>3, <2>2, <2>5 DEF ChatReads, Reads, read, f
<1>4. CASE ~f.error /\ endpoint = Responses
  <2>1. read = ResponsesFrame(f)
    BY <1>1, <1>4 DEF ReadFrame
  <2>2. ResponsesReads(n, read)
    BY <1>4, <2>1, ResponsesAnswer
  <2> HIDE DEF read
  <2>3. /\ TextIn(n) = IF f.type = "delta" THEN f.text ELSE <<>>
        /\ ShownIn(n) = TextIn(n)
    BY <1>4 DEF TextIn, ShownIn
  <2>4. /\ f.type = "completed" /\ f.status = "completed" => FinishIn(n) = "stop"
        /\ f.type \notin LastTypes => FinishIn(n) = None
    BY <1>4 DEF FinishIn, LastTypes
  <2>5. read.error = None /\ read.acc.complete =>
           (FinishIn(n) = None /\ acc.complete) \/ FinishIn(n) \in {"stop", "tool_calls"}
    BY <2>2, <2>4 DEF ResponsesReads
  <2>6. read.error = None => read.acc.text = acc.text \o TextIn(n) /\ read.delta = ShownIn(n)
    BY <2>2, <2>3 DEF ResponsesReads
  <2> QED
    BY <1>1, <1>4, <2>2, <2>5, <2>6 DEF ResponsesReads, Reads, read
<1> QED
  BY <1>1, <1>2, <1>3, <1>4 DEF read

-----------------------------------------------------------------------------
(***************************************************************************)
(* The types.                                                              *)
(***************************************************************************)
\* A call that has not begun.
LEMMA InitTypes == StreamAssumption /\ Init => TInv
<1> SUFFICES ASSUME StreamAssumption, Init
             PROVE  TInv
  OBVIOUS
<1>1. <<>> \in Seq(STRING) /\ Len(<<>>) = 0 /\ DOMAIN <<>> = {}
  BY EmptySeq
<1>2. <<>> \in Tools
  <2>1. <<>> \in [{} -> ToolCall]
    BY <1>1
  <2> QED
    BY <2>1 DEF Tools
<1>3. NewAnswer \in Answer
  BY <1>1, <1>2 DEF NewAnswer, Answer
<1>4. MaxFrames \in Nat /\ Capacity \in Nat
  BY DEF StreamAssumption
<1>5. acc = NewAnswer /\ \A i \in DOMAIN acc.tools : i \in Nat /\ acc.tools[i] \in ToolCall
  BY <1>1 DEF Init, NewAnswer
<1>6. TypeOK
  BY <1>1, <1>4, <1>5 DEF Init, TypeOK, NewAnswer, Nothing
<1>7. /\ received \in Seq(Names[endpoint]) /\ channel \in Seq(Event)
      /\ place # "emitting"
  BY EmptySeq DEF Init
<1> QED
  BY <1>3, <1>5, <1>6, <1>7 DEF TInv

\* What the conjuncts on the accumulator come to.
LEMMA AnswerTypes ==
    ASSUME NEW a \in Answer
    PROVE  /\ a.text \in Seq(STRING) /\ a.complete \in BOOLEAN /\ a.id \in STRING \cup {None}
           /\ a.usage \in Usages \cup {None} /\ a.tools \in Tools
           /\ \A i \in DOMAIN a.tools : i \in Nat /\ a.tools[i] \in ToolCall
<1>1. a.tools \in Tools
  BY DEF Answer
<1>2. PICK E \in SUBSET Nat : a.tools \in [E -> ToolCall]
  BY <1>1 DEF Tools
<1> QED
  BY <1>1, <1>2 DEF Answer

\* Prices of Nat are kept in range.
LEMMA CostInRange ==
    ASSUME StreamAssumption, NEW usage \in Usages
    PROVE  Cost(usage) \in 0..MaxCost
<1>1. \A x, y \in Nat : x * y \in Nat
  OBVIOUS
<1>2. /\ Tokens[usage].input \in Nat /\ Tokens[usage].output \in Nat
      /\ InputPrice \in Nat /\ OutputPrice \in Nat /\ MaxCost \in Nat
  BY DEF StreamAssumption
<1>3. /\ Tokens[usage].input * InputPrice \in Nat
      /\ Tokens[usage].output * OutputPrice \in Nat
  BY <1>1, <1>2
<1>4. \A k \in Nat : Saturated(k) \in 0..MaxCost
  BY <1>2 DEF Saturated
<1>5. /\ Saturated(Tokens[usage].input * InputPrice) \in 0..MaxCost
      /\ Saturated(Tokens[usage].output * OutputPrice) \in 0..MaxCost
  BY <1>3, <1>4
<1>6. Saturated(Tokens[usage].input * InputPrice) + Saturated(Tokens[usage].output * OutputPrice)
        \in Nat
  BY <1>2, <1>5
<1> QED
  BY <1>4, <1>6 DEF Cost

\* The delta is cut where the part ends.
LEMMA PartCut ==
    ASSUME StreamAssumption, parts \in Seq(STRING), parts # <<>>
    PROVE  LET part == SubSeq(parts, 1, PartLength)
               rest == SubSeq(parts, PartLength + 1, Len(parts))
           IN  /\ part \in Seq(STRING) /\ rest \in Seq(STRING)
               /\ Len(part) \in 1..PartSize
               /\ parts = part \o rest
<1>1. PartSize \in Nat \ {0} /\ Len(parts) \in Nat \ {0}
  BY EmptySeq DEF StreamAssumption
<1>2. PartLength \in 1..Len(parts) /\ PartLength <= PartSize /\ PartLength \in Nat
  BY <1>1 DEF PartLength
<1>3. PICK k : k = PartLength
  OBVIOUS
<1>4. /\ SubSeq(parts, 1, k) \in Seq(STRING) /\ Len(SubSeq(parts, 1, k)) = k
      /\ SubSeq(parts, k + 1, Len(parts)) \in Seq(STRING)
  BY <1>1, <1>2, <1>3
<1>5. SubSeq(parts, 1, k) \o SubSeq(parts, k + 1, Len(parts)) = parts
  <2>1. /\ 1 \in 1..(Len(parts) + 1) /\ k \in (1 - 1)..Len(parts)
        /\ Len(parts) \in k..Len(parts)
    BY <1>1, <1>2, <1>3
  <2>2. SubSeq(parts, 1, k) \o SubSeq(parts, k + 1, Len(parts)) = SubSeq(parts, 1, Len(parts))
    BY <2>1, ConcatAdjacentSubSeq
  <2> QED
    BY <2>2, SubSeqFull
<1> QED
  BY <1>1, <1>2, <1>3, <1>4, <1>5

\* Events are of their size.
LEMMA EventSizes ==
    ASSUME NEW c, c \in Seq(Event)
    PROVE  /\ \A i \in DOMAIN c : Len(c[i]) \in 1..PartSize
           /\ c \in Seq(Seq(STRING))
<1>1. Event \subseteq Seq(STRING)
  BY DEF Event
<1>2. \A i \in DOMAIN c : c[i] \in Event
  OBVIOUS
<1> QED
  BY <1>1, <1>2, SeqMonotonic DEF Event

\* The lines of a stream carry pieces.
LEMMA LineTypes ==
    ASSUME NEW l \in Lines
    PROVE  l[1] = "data" => l[2] \in Pieces
  BY DEF Lines

\* A frame that is taken.
LEMMA FrameTypes ==
    ASSUME StreamAssumption, TInv, NEW n \in Names[endpoint], TakeFrame(n),
           UNCHANGED <<given, channel, host, bill>>, line' = 0, data' = <<>>, place = "reading"
    PROVE  TInv'
<1> DEFINE read == ReadFrame(Frame[n])
<1>1. Reads(n, read)
  BY FrameRead DEF TInv, TypeOK
<1>2. /\ acc' = read.acc /\ evidence' = Record(read.acc.usage, read.acc.id)
      /\ received' = Append(received, n) /\ Len(received) < MaxFrames
      /\ \/ /\ outcome' \in {"protocol", "model"} /\ place' = "settle" /\ UNCHANGED parts
         \/ /\ parts' \in {<<>>, read.delta}
            /\ place' \in {"reading", "emitting"} /\ (place' = "emitting" => parts' # <<>>)
            /\ UNCHANGED outcome
  BY <1>1 DEF TakeFrame, End, Reads
<1> HIDE DEF read
<1>3. acc' \in Answer /\ read.delta \in Seq(STRING)
  BY <1>1, <1>2 DEF Reads
<1>4. /\ evidence'.usage \in Usages \cup {None} /\ evidence'.id \in STRING \cup {None}
  <2>1. acc'.usage \in Usages \cup {None} /\ acc'.id \in STRING \cup {None}
    BY <1>3, AnswerTypes
  <2>2. evidence.usage \in Usages \cup {None} /\ evidence.id \in STRING \cup {None}
    BY DEF TInv, TypeOK
  <2> QED
    BY <1>2, <2>1, <2>2 DEF Record
<1>5. parts' \in Seq(STRING)
  <2>1. parts \in Seq(STRING) /\ <<>> \in Seq(STRING)
    BY EmptySeq DEF TInv, TypeOK
  <2>2. parts' \in {parts, <<>>, read.delta}
    BY <1>2
  <2> QED
    BY <1>3, <2>1, <2>2
<1>6. /\ received' \in Seq(Names[endpoint]) /\ Len(received') <= MaxFrames
  <2>1. MaxFrames \in Nat /\ received \in Seq(Names[endpoint])
    BY DEF StreamAssumption, TInv
  <2> QED
    BY <1>2, <2>1, AppendProperties
<1>7. endpoint' = endpoint /\ Pieces' = Pieces
  BY DEF given, Pieces
<1>8. data' \in Seq(Pieces)
  BY EmptySeq
<1>9. /\ acc'.text \in Seq(STRING) /\ acc'.complete \in BOOLEAN
      /\ acc'.id \in STRING \cup {None} /\ acc'.usage \in Usages \cup {None}
      /\ \A i \in DOMAIN acc'.tools : i \in Nat /\ acc'.tools[i] \in ToolCall
  <2>1. PICK a \in Answer : a = acc'
    BY <1>3
  <2> QED
    BY <2>1, AnswerTypes
<1>10. TypeOK'
  BY <1>2, <1>4, <1>5, <1>6, <1>7, <1>8, <1>9 DEF TInv, TypeOK, given, host, Outcomes
<1>11. place' = "emitting" => parts' # <<>>
  BY <1>2
<1> QED
  BY <1>3, <1>6, <1>7, <1>10, <1>11 DEF TInv

\* Every step keeps the types.
LEMMA StepTypes ==
    ASSUME StreamAssumption, TInv, [Next]_vars
    PROVE  TInv'
<1> USE DEF TInv
<1>1. CASE UNCHANGED vars
  <2>1. UNCHANGED <<endpoint, node, place, line, data, acc, evidence, parts, channel, shown,
                    reader, stopped, received, outcome, bill>>
    BY <1>1 DEF vars, given, wire, host
  <2>2. Pieces' = Pieces
    BY <2>1 DEF Pieces
  <2> QED
    BY <2>1, <2>2 DEF TypeOK
<1>2. CASE Dispatch \/ Connect \/ StreamBreaks \/ EventTooLarge \/ Interrupt
  <2>1. /\ UNCHANGED <<given, wire, acc, evidence, parts, channel, host, received, bill>>
        /\ place' \in {"connect", "reading", "settle"}
        /\ outcome' \in Outcomes \cup {None}
    BY <1>2 DEF Dispatch, Connect, StreamBreaks, EventTooLarge, Interrupt, End, TypeOK, Outcomes
  <2> QED
    BY <2>1 DEF given, wire, host, TypeOK, Pieces
<1>3. CASE StreamEnds
  BY <1>3 DEF StreamEnds, End, FinishKind, given, wire, host, TypeOK, Pieces, Outcomes
<1>4. CASE ReadBytes
  BY <1>4 DEF ReadBytes, End, given, host, TypeOK, Pieces, Outcomes
<1>5. CASE SendPart
  <2> DEFINE part == SubSeq(parts, 1, PartLength)
             rest == SubSeq(parts, PartLength + 1, Len(parts))
  <2>1. parts \in Seq(STRING) /\ parts # <<>> /\ Capacity \in Nat
    BY <1>5 DEF SendPart, TypeOK, StreamAssumption
  <2>2. part \in Seq(STRING) /\ rest \in Seq(STRING) /\ Len(part) \in 1..PartSize
    BY <2>1, PartCut
  <2>3. /\ parts' = rest /\ place' = IF rest = <<>> THEN "reading" ELSE "emitting"
        /\ \/ channel' = channel
           \/ channel' = Append(channel, part) /\ Len(channel) < Capacity
        /\ UNCHANGED <<given, wire, acc, evidence, host, received, outcome, bill>>
    BY <1>5 DEF SendPart
  <2> HIDE DEF part, rest
  <2>4. channel' \in Seq(Event) /\ Len(channel') <= Capacity
    <3>1. part \in Event /\ channel \in Seq(Event) /\ Len(channel) \in Nat
      BY <2>2 DEF Event
    <3>2. Len(channel) <= Capacity
      BY DEF TypeOK
    <3>3. Append(channel, part) \in Seq(Event) /\ Len(Append(channel, part)) = Len(channel) + 1
      BY <3>1, AppendProperties
    <3>4. Len(channel) < Capacity => Len(channel) + 1 <= Capacity
      BY <2>1, <3>1
    <3>5. CASE channel' = channel
      BY <3>1, <3>2, <3>5
    <3>6. CASE channel' = Append(channel, part) /\ Len(channel) < Capacity
      BY <3>3, <3>4, <3>6
    <3> QED
      BY <2>3, <3>5, <3>6
  <2>5. \A i \in DOMAIN channel' : Len(channel'[i]) \in 1..PartSize
    BY <2>4, EventSizes
  <2> QED
    BY <2>1, <2>2, <2>3, <2>4, <2>5 DEF TypeOK, given, wire, host, Pieces
<1>6. CASE Settle
  <2>1. bill' \in {Unknown} \cup 0..MaxCost
    <3>1. Settled(outcome) \in Usages \cup {None} /\ MaxCost \in Nat
      BY DEF Settled, TypeOK, StreamAssumption
    <3>2. CASE outcome = "not_dispatched"
      BY <1>6, <3>1, <3>2 DEF Settle
    <3>3. CASE outcome # "not_dispatched" /\ Settled(outcome) = None
      BY <1>6, <3>3 DEF Settle
    <3>4. CASE outcome # "not_dispatched" /\ Settled(outcome) # None
      <4>1. Cost(Settled(outcome)) \in 0..MaxCost
        BY <3>1, <3>4, CostInRange
      <4> QED
        BY <1>6, <3>4, <4>1 DEF Settle
    <3> QED
      BY <3>2, <3>3, <3>4
  <2> QED
    BY <1>6, <2>1 DEF Settle, given, wire, host, TypeOK, Pieces
<1>7. CASE HostReads
  <2>1. /\ channel \in Seq(Event) /\ channel # <<>> /\ shown \in Seq(STRING)
        /\ Capacity \in Nat /\ Len(channel) <= Capacity
    BY <1>7 DEF HostReads, TypeOK, StreamAssumption
  <2>2. /\ Head(channel) \in Event /\ Tail(channel) \in Seq(Event)
        /\ Len(Tail(channel)) = Len(channel) - 1 /\ Len(channel) \in Nat
    BY <2>1, HeadTailProperties
  <2>3. shown \o Head(channel) \in Seq(STRING)
    BY <2>1, <2>2, Regroup DEF Event
  <2>4. channel' = Tail(channel) /\ Len(channel') <= Capacity
    BY <1>7, <2>1, <2>2 DEF HostReads
  <2>5. \A i \in DOMAIN channel' : Len(channel'[i]) \in 1..PartSize
    <3>1. channel' \in Seq(Event)
      BY <2>2, <2>4
    <3> QED
      BY <3>1, EventSizes
  <2> QED
    BY <1>7, <2>2, <2>3, <2>4, <2>5 DEF HostReads, given, wire, TypeOK, Pieces
<1>8. CASE HostLeaves
  <2>1. <<>> \in Seq(Event) /\ Len(<<>>) = 0 /\ DOMAIN <<>> = {} /\ Capacity \in Nat
    BY EmptySeq DEF StreamAssumption
  <2> QED
    BY <1>8, <2>1 DEF HostLeaves, given, wire, TypeOK, Pieces
<1>9. CASE HostCancels \/ TimeRunsOut
  BY <1>9 DEF HostCancels, TimeRunsOut, given, wire, TypeOK, Pieces
<1>10. ASSUME NEW l \in Lines, ReadLine(l)
       PROVE  TInv'
  <2>1. data' \in Seq(Pieces)
    BY <1>10, LineTypes, AppendProperties DEF ReadLine, TypeOK
  <2> QED
    BY <1>10, <2>1 DEF ReadLine, End, given, host, TypeOK, Pieces, Outcomes
<1>11. ASSUME NEW l \in Lines, ReadFrameEnd(l)
       PROVE  TInv'
  <2>1. /\ place = "reading" /\ line' = 0 /\ data' = <<>>
        /\ UNCHANGED <<given, channel, host, bill>>
    BY <1>11 DEF ReadFrameEnd
  <2>2. CASE \E n \in Parsed : TakeFrame(n)
    BY <2>1, <2>2, FrameTypes DEF Parsed
  <2>3. CASE ~\E n \in Parsed : TakeFrame(n)
    <3>1. /\ outcome' \in {"ok", "protocol"} /\ place' = "settle"
          /\ UNCHANGED <<acc, evidence, parts, received>>
      BY <1>11, <2>3 DEF ReadFrameEnd, End, FinishKind
    <3>2. data' \in Seq(Pieces)
      BY <2>1, EmptySeq
    <3> QED
      BY <2>1, <3>1, <3>2 DEF given, host, TypeOK, Pieces, Outcomes
  <2> QED
    BY <2>2, <2>3
<1> QED
  BY <1>1, <1>2, <1>3, <1>4, <1>5, <1>6, <1>7, <1>8, <1>9, <1>10, <1>11
  DEF Next, Engine, Provider, Reading, Host

\* The types are kept.
THEOREM Types == Spec => []TInv
<1>1. Init => TInv
  BY InitTypes, StreamAssumption
<1>2. TInv /\ [Next]_vars => TInv'
  BY StepTypes, StreamAssumption
<1> QED
  BY <1>1, <1>2, PTL DEF Spec

\* Whatever the provider sends and whoever interrupts, the call's state is of
\* its types: the channel holds no more than its capacity, an event no more
\* than its size, and a charge is unknown or in the range of its counter.
THEOREM TypeCorrect == Spec => []TypeOK
<1>1. TInv => TypeOK
  BY DEF TInv
<1> QED
  BY <1>1, Types, PTL

-----------------------------------------------------------------------------
(***************************************************************************)
(* What the frames say, read one after the other.                          *)
(***************************************************************************)
\* What g says of each of the frames in fs.
Said(g, fs) == [k \in DOMAIN fs |-> g[fs[k]]]

\* What one more frame says comes after what the others say.
LEMMA SaidOneMore ==
    ASSUME NEW S, NEW g \in [S -> Seq(STRING)], NEW fs \in Seq(S), NEW n \in S
    PROVE  FlattenSeq(Said(g, Append(fs, n))) = FlattenSeq(Said(g, fs)) \o g[n]
<1>1. PICK e : e = Append(fs, n)
  OBVIOUS
<1>2. /\ e \in Seq(S) /\ Len(e) = Len(fs) + 1 /\ e[Len(e)] = n /\ Len(e) \in 1..Len(e)
      /\ \A i \in 1..Len(fs) : e[i] = fs[i]
      /\ DOMAIN e = 1..Len(e) /\ DOMAIN fs = 1..Len(fs) /\ Len(fs) \in Nat /\ Len(e) \in Nat
  BY <1>1, AppendProperties
<1>3. PICK r, s : r = Said(g, fs) /\ s = Said(g, e)
  OBVIOUS
<1>4. r = [k \in 1..Len(fs) |-> g[fs[k]]] /\ s = [k \in 1..Len(e) |-> g[e[k]]]
  BY <1>2, <1>3 DEF Said
<1>5. /\ r \in Seq(Seq(STRING)) /\ Len(r) = Len(fs)
      /\ s \in Seq(Seq(STRING)) /\ Len(s) = Len(e)
  <2>1. \A i \in 1..Len(fs) : g[fs[i]] \in Seq(STRING)
    BY <1>2
  <2>2. \A i \in 1..Len(e) : g[e[i]] \in Seq(STRING)
    BY <1>2
  <2>3. r \in Seq(Seq(STRING)) /\ Len(r) = Len(fs)
    <3>1. r \in [1..Len(fs) -> Seq(STRING)]
      BY <1>4, <2>1
    <3> QED
      BY <1>2, <3>1, ListOf
  <2>4. s \in Seq(Seq(STRING)) /\ Len(s) = Len(e)
    <3>1. s \in [1..Len(e) -> Seq(STRING)]
      BY <1>4, <2>2
    <3> QED
      BY <1>2, <3>1, ListOf
  <2> QED
    BY <2>3, <2>4
<1>6. /\ \A i \in 1..Len(fs) : s[i] = r[i]
      /\ s[Len(e)] = g[n]
  BY <1>2, <1>4
<1>7. FlattenSeq(s) = FlattenSeq(r) \o s[Len(s)]
  <2>1. \A a, b \in Seq(Seq(STRING)) :
           Len(b) = Len(a) + 1 /\ (\A i \in 1..Len(a) : b[i] = a[i])
           => FlattenSeq(b) = FlattenSeq(a) \o b[Len(b)]
    BY FlattenStep
  <2> QED
    BY <1>2, <1>5, <1>6, <2>1
<1> QED
  BY <1>1, <1>3, <1>5, <1>6, <1>7

\* What fragments bring is text.
LEMMA BroughtType ==
    ASSUME NEW ts \in Seq(Fragments), NEW j
    PROVE  FlattenSeq(Brought(ts, j)) \in Seq(STRING)
<1> DEFINE n == Len(ts)
<1>1. n \in Nat /\ DOMAIN ts = 1..n /\ \A i \in 1..n : ts[i] \in Fragments
  OBVIOUS
<1> HIDE DEF n
<1>2. \A k \in 1..n : (IF ts[k].index = j THEN ts[k].args ELSE <<>>) \in Seq(STRING)
  BY <1>1, EmptySeq DEF Fragments
<1>3. PICK b : b = Brought(ts, j)
  OBVIOUS
<1>4. b \in [1..n -> Seq(STRING)]
  BY <1>1, <1>2, <1>3 DEF Brought
<1>5. b \in Seq(Seq(STRING))
  BY <1>1, <1>4
<1>6. FlattenSeq(b) \in Seq(STRING)
  BY <1>5, FlattenType
<1> QED
  BY <1>3, <1>6

\* What a frame says is text, and so is what it shows.
LEMMA SaidTypes ==
    ASSUME StreamAssumption, endpoint \in DOMAIN Names, NEW n \in Names[endpoint]
    PROVE  /\ TextIn(n) \in Seq(STRING) /\ ShownIn(n) \in Seq(STRING)
           /\ endpoint = Chat => \A j : ArgsIn(n, j) \in Seq(STRING)
<1>1. endpoint \in {Chat, Responses} /\ Chat # Responses /\ <<>> \in Seq(STRING)
  BY EmptySeq DEF StreamAssumption, Chat, Responses
<1>2. CASE endpoint = Responses
  <2>1. Frame[n].text \in Seq(STRING)
    BY <1>2 DEF StreamAssumption
  <2> QED
    BY <1>1, <1>2, <2>1 DEF TextIn, ShownIn
<1>3. CASE endpoint = Chat
  <2>1. /\ ChatText(Frame[n]) \in Seq(STRING) /\ ChatTools(Frame[n]) \in Seq(Fragments)
        /\ ChatDelta(Frame[n]) \in Seq(STRING)
    BY <1>3, ChatSays
  <2>2. TextIn(n) \in Seq(STRING) /\ ShownIn(n) \in Seq(STRING)
    BY <1>1, <1>3, <2>1 DEF TextIn, ShownIn
  <2>3. \A j : ArgsIn(n, j) = FlattenSeq(Brought(ChatTools(Frame[n]), j))
    BY DEF ArgsIn, Brought
  <2>4. \A j : FlattenSeq(Brought(ChatTools(Frame[n]), j)) \in Seq(STRING)
    BY <2>1, BroughtType
  <2> QED
    BY <2>2, <2>3, <2>4
<1> QED
  BY <1>1, <1>2, <1>3

\* What the frames show is text.
LEMMA ShownType ==
    ASSUME StreamAssumption, TInv
    PROVE  AllShown \in Seq(STRING)
<1>1. /\ endpoint \in DOMAIN Names /\ DOMAIN received = 1..Len(received)
      /\ Len(received) \in Nat /\ \A k \in 1..Len(received) : received[k] \in Names[endpoint]
  BY DEF TInv, TypeOK
<1>2. \A k \in 1..Len(received) : ShownIn(received[k]) \in Seq(STRING)
  BY <1>1, SaidTypes
<1>3. PICK r : r = [k \in DOMAIN received |-> ShownIn(received[k])]
  OBVIOUS
<1>4. PICK m \in Nat : m = Len(received)
  BY <1>1
<1>5. r \in [1..m -> Seq(STRING)]
  BY <1>1, <1>2, <1>3, <1>4
<1>6. r \in Seq(Seq(STRING))
  BY <1>4, <1>5, ListOf
<1>7. FlattenSeq(r) \in Seq(STRING)
  BY <1>6, FlattenType
<1> QED
  BY <1>3, <1>7 DEF AllShown

\* What one more frame shows comes after what the others show.
LEMMA ShownGrows ==
    ASSUME StreamAssumption, TInv, NEW n \in Names[endpoint], endpoint' = endpoint,
           received' = Append(received, n)
    PROVE  AllShown' = AllShown \o ShownIn(n)
<1> DEFINE g == [m \in Names[endpoint] |-> ShownIn(m)]
<1>1. endpoint \in DOMAIN Names /\ received \in Seq(Names[endpoint])
  BY DEF TInv, TypeOK
<1>2. g \in [Names[endpoint] -> Seq(STRING)] /\ g[n] = ShownIn(n)
  BY <1>1, SaidTypes
<1>3. AllShown = FlattenSeq(Said(g, received))
  <2>1. \A k \in DOMAIN received : g[received[k]] = ShownIn(received[k])
    BY <1>1
  <2>2. [k \in DOMAIN received |-> ShownIn(received[k])] = Said(g, received)
    BY <2>1 DEF Said
  <2> QED
    BY <2>2 DEF AllShown
<1>4. AllShown' = FlattenSeq(Said(g, Append(received, n)))
  <2>1. PICK e : e = Append(received, n)
    OBVIOUS
  <2>2. \A k \in DOMAIN e : e[k] \in Names[endpoint]
    BY <1>1, <2>1, AppendProperties
  <2>3. \A k \in DOMAIN e : g[e[k]] = ShownIn(e[k])
    BY <2>2
  <2>4. [k \in DOMAIN e |-> ShownIn(e[k])] = Said(g, e)
    BY <2>3 DEF Said
  <2>5. received' = e
    BY <2>1
  <2>6. AllShown' = FlattenSeq([k \in DOMAIN e |-> ShownIn(e[k])])
    BY <2>5 DEF AllShown, ShownIn, TextIn
  <2> QED
    BY <2>1, <2>4, <2>6
<1> HIDE DEF g
<1>5. FlattenSeq(Said(g, Append(received, n))) = FlattenSeq(Said(g, received)) \o g[n]
  <2>1. PICK h, fs, S : h = g /\ fs = received /\ S = Names[endpoint]
    OBVIOUS
  <2>2. h \in [S -> Seq(STRING)] /\ fs \in Seq(S) /\ n \in S
    BY <1>1, <1>2, <2>1
  <2>3. \A u \in [S -> Seq(STRING)], v \in Seq(S), w \in S :
           FlattenSeq(Said(u, Append(v, w))) = FlattenSeq(Said(u, v)) \o u[w]
    BY SaidOneMore, Zenon
  <2>4. FlattenSeq(Said(h, Append(fs, n))) = FlattenSeq(Said(h, fs)) \o h[n]
    BY <2>2, <2>3
  <2> QED
    BY <2>1, <2>4
<1> QED
  BY <1>2, <1>3, <1>4, <1>5

-----------------------------------------------------------------------------
(***************************************************************************)
(* The increments.                                                         *)
(***************************************************************************)
\* The call may still succeed, or has.
Going   == {"dispatch", "connect", "reading", "emitting"}
Live    == place \in Going \/ outcome = "ok"
Emitted == shown \o FlattenSeq(channel)

TextInv ==
    /\ place \in Going => outcome = None
    /\ Live /\ place # "emitting" => parts = <<>>
    /\ node = "planner" => shown = <<>> /\ channel = <<>> /\ parts = <<>>
    /\ node # "planner" =>
          /\ \E rest \in Seq(STRING) : AllShown = Emitted \o rest
          /\ reader = "reading" /\ Live => Emitted \o parts = AllShown

\* Text is regrouped at will.
LEMMA TextGroups == \A u, v, w \in Seq(STRING) : (u \o v) \o w = u \o (v \o w)
  BY ConcatAssociative

\* Text and text is text.
LEMMA TextJoins == \A u, v \in Seq(STRING) : u \o v \in Seq(STRING)
  BY ConcatProperties

\* No outcome is None, and a call that is dropped does not succeed.
LEMMA NotLive ==
    ASSUME place' = "settle", outcome' \in Outcomes \ {"ok"}
    PROVE  ~Live' /\ place' \notin Going
  BY DEF Live, Going, Outcomes

\* What is on its way is text.
LEMMA EmittedType ==
    ASSUME TInv
    PROVE  /\ Emitted \in Seq(STRING) /\ FlattenSeq(channel) \in Seq(STRING)
           /\ shown \in Seq(STRING) /\ parts \in Seq(STRING)
           /\ channel \in Seq(Seq(STRING))
<1>1. shown \in Seq(STRING) /\ parts \in Seq(STRING)
  BY DEF TInv, TypeOK
<1>2. PICK c : c = channel
  OBVIOUS
<1>3. c \in Seq(Event)
  BY <1>2 DEF TInv
<1>4. c \in Seq(Seq(STRING))
  BY <1>3, EventSizes
<1>5. FlattenSeq(c) \in Seq(STRING)
  BY <1>4, FlattenType
<1>6. FlattenSeq(channel) \in Seq(STRING) /\ channel \in Seq(Seq(STRING))
  BY <1>2, <1>4, <1>5
<1> QED
  BY <1>1, <1>6, Regroup DEF Emitted

\* A call that has not begun.
LEMMA InitText == StreamAssumption /\ Init => TextInv
<1> SUFFICES ASSUME StreamAssumption, Init
             PROVE  TextInv
  OBVIOUS
<1>1. <<>> \in Seq(STRING) /\ <<>> \o <<>> = <<>>
  BY EmptySeq, Regroup
<1>2. FlattenSeq(<<>>) = <<>>
  BY FlattenNothing, EmptySeq
<1>3. Emitted = <<>> /\ parts = <<>>
  BY <1>1, <1>2 DEF Init, Emitted
<1>4. AllShown = <<>>
  <2>1. [k \in DOMAIN received |-> ShownIn(received[k])] = <<>>
    BY DEF Init
  <2> QED
    BY <1>2, <2>1 DEF AllShown
<1>5. AllShown = Emitted \o <<>> /\ Emitted \o parts = AllShown
  BY <1>1, <1>3, <1>4
<1> QED
  BY <1>1, <1>5 DEF Init, TextInv

\* What the frames show is what they are.
LEMMA ShownKept ==
    ASSUME UNCHANGED <<given, received>>
    PROVE  AllShown' = AllShown
  BY DEF given, AllShown, ShownIn, TextIn

\* Steps that neither read a frame nor move text.
LEMMA QuietText ==
    ASSUME TextInv, UNCHANGED <<given, shown, channel, reader, parts, received>>,
           Live' => Live /\ (place' = "emitting" <=> place = "emitting"),
           place' \in Going => outcome' = None
    PROVE  TextInv'
<1>1. Emitted' = Emitted /\ node' = node
  BY DEF Emitted, given
<1>2. AllShown' = AllShown
  BY ShownKept
<1> QED
  BY <1>1, <1>2 DEF TextInv

\* A part is sent: what was to be sent is on its way.
LEMMA SendText ==
    ASSUME StreamAssumption, TInv, TextInv, SendPart
    PROVE  TextInv'
<1> DEFINE part == SubSeq(parts, 1, PartLength)
           rest == SubSeq(parts, PartLength + 1, Len(parts))
<1>1. parts \in Seq(STRING) /\ parts # <<>> /\ place = "emitting"
  BY DEF SendPart, TInv, TypeOK
<1>2. part \in Seq(STRING) /\ rest \in Seq(STRING) /\ parts = part \o rest
  BY <1>1, PartCut
<1>3. /\ parts' = rest /\ place' = IF rest = <<>> THEN "reading" ELSE "emitting"
      /\ \/ reader = "closed" /\ channel' = channel
         \/ reader = "reading" /\ channel' = Append(channel, part)
      /\ UNCHANGED <<given, host, received, outcome>>
  BY DEF SendPart
<1>4. /\ node' = node /\ AllShown' = AllShown /\ shown' = shown /\ reader' = reader
      /\ outcome' = None /\ outcome = None /\ Live
  BY <1>1, <1>3, ShownKept DEF TextInv, given, host, Live, Going
<1>5. node # "planner"
  BY <1>1 DEF TextInv
<1>6. place' # "emitting" => parts' = <<>>
  BY <1>3
<1>7. PICK rest1 \in Seq(STRING) : AllShown = Emitted \o rest1
  BY <1>5 DEF TextInv
<1> HIDE DEF part, rest
<1>8. CASE reader = "closed" /\ channel' = channel
  <2>1. Emitted' = Emitted
    BY <1>4, <1>8 DEF Emitted
  <2> QED
    BY <1>4, <1>5, <1>6, <1>7, <1>8, <2>1 DEF TextInv
<1>9. CASE reader = "reading" /\ channel' = Append(channel, part)
  <2>1. Emitted' = Emitted \o part /\ Emitted \in Seq(STRING)
    <3>1. FlattenSeq(Append(channel, part)) = FlattenSeq(channel) \o part
      <4>1. PICK c : c = channel
        OBVIOUS
      <4>2. c \in Seq(Seq(STRING))
        BY <4>1, EmittedType
      <4>3. PICK d : d = Append(c, part)
        OBVIOUS
      <4>4. /\ d \in Seq(Seq(STRING)) /\ Len(d) = Len(c) + 1
            /\ \A i \in 1..Len(c) : d[i] = c[i]
            /\ d[Len(d)] = part
        BY <1>2, <4>2, <4>3, AppendProperties
      <4>5. FlattenSeq(d) = FlattenSeq(c) \o d[Len(d)]
        <5>1. \A a, b \in Seq(Seq(STRING)) :
                 Len(b) = Len(a) + 1 /\ (\A i \in 1..Len(a) : b[i] = a[i])
                 => FlattenSeq(b) = FlattenSeq(a) \o b[Len(b)]
          BY FlattenStep
        <5> QED
          BY <4>2, <4>4, <5>1
      <4> QED
        BY <4>1, <4>3, <4>4, <4>5
    <3>2. shown \in Seq(STRING) /\ FlattenSeq(channel) \in Seq(STRING) /\ Emitted \in Seq(STRING)
      BY EmittedType
    <3>3. part \in Seq(STRING)
      BY <1>2
    <3>4. (shown \o FlattenSeq(channel)) \o part = shown \o (FlattenSeq(channel) \o part)
      <4>1. PICK a, b, c : a = shown /\ b = FlattenSeq(channel) /\ c = part
        OBVIOUS
      <4>2. a \in Seq(STRING) /\ b \in Seq(STRING) /\ c \in Seq(STRING)
        BY <3>2, <3>3, <4>1
      <4>3. (a \o b) \o c = a \o (b \o c)
        BY <4>2, TextGroups, SMTT(30)
      <4> QED
        BY <4>1, <4>3
    <3> QED
      BY <1>4, <1>9, <3>1, <3>2, <3>4 DEF Emitted
  <2>2. Emitted \o parts = AllShown
    BY <1>4, <1>5, <1>9 DEF TextInv
  <2>3. Emitted \o (part \o rest) = (Emitted \o part) \o rest
    <3>1. part \in Seq(STRING) /\ rest \in Seq(STRING) /\ Emitted \in Seq(STRING)
      BY <1>2, <2>1
    <3>2. PICK a, b, c : a = Emitted /\ b = part /\ c = rest
      OBVIOUS
    <3>3. (a \o b) \o c = a \o (b \o c)
      BY <3>1, <3>2, TextGroups
    <3> QED
      BY <3>2, <3>3
  <2>4. Emitted' \o parts' = AllShown'
    BY <1>2, <1>3, <1>4, <2>1, <2>2, <2>3
  <2>5. AllShown' = Emitted' \o parts' /\ parts' \in Seq(STRING)
    BY <1>2, <1>3, <2>4
  <2> QED
    BY <1>4, <1>5, <1>6, <2>4, <2>5 DEF TextInv
<1> QED
  BY <1>3, <1>8, <1>9

\* The host reads what came first.
LEMMA HostReadsText ==
    ASSUME StreamAssumption, TInv, TextInv, HostReads
    PROVE  TextInv'
<1>1. /\ channel # <<>> /\ shown' = shown \o Head(channel) /\ channel' = Tail(channel)
      /\ UNCHANGED <<given, place, parts, reader, received, outcome>>
  BY DEF HostReads
<1>2. node # "planner" /\ node' = node /\ AllShown' = AllShown
  BY <1>1, ShownKept DEF TextInv, given
<1>3. Emitted' = Emitted
  <2>1. PICK c : c = channel
    OBVIOUS
  <2>2. c \in Seq(Seq(STRING)) /\ c # <<>>
    BY <1>1, <2>1, EmittedType
  <2>3. FlattenSeq(c) = Head(c) \o FlattenSeq(Tail(c))
    BY <2>2, FlattenHead
  <2>4. Head(c) \in Seq(STRING) /\ Tail(c) \in Seq(Seq(STRING))
    BY <2>2, HeadTailProperties
  <2>5. FlattenSeq(Tail(c)) \in Seq(STRING)
    BY <2>4, FlattenType
  <2>6. shown \in Seq(STRING)
    BY EmittedType
  <2>7. (shown \o Head(c)) \o FlattenSeq(Tail(c)) = shown \o (Head(c) \o FlattenSeq(Tail(c)))
    BY <2>4, <2>5, <2>6, TextGroups
  <2> QED
    BY <1>1, <2>1, <2>3, <2>7 DEF Emitted
<1> QED
  BY <1>1, <1>2, <1>3 DEF TextInv, Live

\* What is on its way is lost with its reader.
LEMMA HostLeavesText ==
    ASSUME StreamAssumption, TInv, TextInv, HostLeaves
    PROVE  TextInv'
<1>1. /\ reader' = "closed" /\ channel' = <<>>
      /\ UNCHANGED <<given, place, parts, shown, received, outcome>>
  BY DEF HostLeaves
<1>2. node' = node /\ AllShown' = AllShown
  BY <1>1, ShownKept DEF given
<1>3. FlattenSeq(<<>>) = <<>>
  BY FlattenNothing, EmptySeq
<1>4. /\ shown \in Seq(STRING) /\ FlattenSeq(channel) \in Seq(STRING)
      /\ shown \o <<>> = shown
  BY EmittedType, Regroup
<1>5. Emitted' = shown
  BY <1>1, <1>3, <1>4 DEF Emitted
<1>6. node # "planner" => \E rest \in Seq(STRING) : AllShown = shown \o rest
  <2> SUFFICES ASSUME node # "planner"
               PROVE  \E rest \in Seq(STRING) : AllShown = shown \o rest
    OBVIOUS
  <2>1. PICK r \in Seq(STRING) : AllShown = Emitted \o r
    BY DEF TextInv
  <2>2. PICK c : c = FlattenSeq(channel)
    OBVIOUS
  <2>3. (shown \o c) \o r = shown \o (c \o r)
    BY <1>4, <2>2, TextGroups
  <2>4. c \o r \in Seq(STRING)
    BY <1>4, <2>2, TextJoins
  <2> QED
    BY <2>1, <2>2, <2>3, <2>4 DEF Emitted
<1> QED
  BY <1>1, <1>2, <1>5, <1>6 DEF TextInv, Live

\* A frame adds what it shows, which is to be sent unless it is a planner's.
LEMMA FrameText ==
    ASSUME StreamAssumption, TInv, TextInv, NEW n \in Names[endpoint], TakeFrame(n),
           UNCHANGED <<given, channel, host>>, place = "reading"
    PROVE  TextInv'
<1> DEFINE read == ReadFrame(Frame[n])
<1>1. Reads(n, read) /\ endpoint \in DOMAIN Names
  BY FrameRead DEF TInv, TypeOK
<1>2. \/ outcome' \in {"protocol", "model"} /\ place' = "settle" /\ UNCHANGED parts
      \/ /\ read.error = None
         /\ parts' = IF node = "planner" THEN <<>> ELSE read.delta
         /\ place' = IF parts' = <<>> THEN "reading" ELSE "emitting"
         /\ UNCHANGED outcome
  BY <1>1 DEF TakeFrame, End, Reads
<1> HIDE DEF read
<1>3. AllShown' = AllShown \o ShownIn(n) /\ ShownIn(n) \in Seq(STRING)
  <2>1. endpoint' = endpoint /\ received' = Append(received, n)
    BY DEF given, TakeFrame
  <2> QED
    BY <1>1, <2>1, ShownGrows, SaidTypes
<1>4. node' = node /\ shown' = shown /\ channel' = channel /\ reader' = reader /\ Emitted' = Emitted
  BY DEF given, host, Emitted
<1>5. outcome = None /\ parts = <<>> /\ Live /\ None # "ok"
  BY DEF TextInv, Live, Going, None
<1>6. Emitted \in Seq(STRING)
  BY EmittedType
<1>7. place' \in Going => outcome' = None
  BY <1>2, <1>5 DEF Going
<1>8. Live' /\ place' # "emitting" => parts' = <<>>
  BY <1>2, <1>5 DEF Live
<1>9. node = "planner" => parts' = <<>>
  BY <1>2, <1>5
<1>10. ASSUME node # "planner"
       PROVE  \E rest \in Seq(STRING) : AllShown' = Emitted \o rest
  <2>1. PICK r \in Seq(STRING) : AllShown = Emitted \o r
    BY <1>10 DEF TextInv
  <2>2. PICK d : d = ShownIn(n)
    OBVIOUS
  <2>3. (Emitted \o r) \o d = Emitted \o (r \o d)
    BY <1>3, <1>6, <2>2, TextGroups
  <2>4. r \o d \in Seq(STRING)
    BY <1>3, <2>2, TextJoins
  <2> QED
    BY <1>3, <2>1, <2>2, <2>3, <2>4
<1>11. ASSUME node # "planner", reader = "reading", Live'
       PROVE  Emitted \o parts' = AllShown'
  <2>1. Emitted \o <<>> = AllShown /\ Emitted \o <<>> = Emitted
    BY <1>5, <1>6, <1>11, Regroup DEF TextInv
  <2>2. parts' = read.delta /\ read.error = None
    BY <1>2, <1>5, <1>11 DEF Live, Going
  <2>3. parts' = ShownIn(n)
    BY <1>1, <2>2 DEF Reads
  <2> QED
    BY <1>3, <2>1, <2>3
<1> QED
  BY <1>4, <1>7, <1>8, <1>9, <1>10, <1>11 DEF TextInv

\* Every step keeps the increments in step with the text.
LEMMA StepText ==
    ASSUME StreamAssumption, TInv, TextInv, [Next]_vars
    PROVE  TextInv'
<1>1. CASE UNCHANGED vars
  BY <1>1, QuietText DEF vars, given, host, Live, TextInv
<1>2. CASE Dispatch \/ Connect \/ StreamBreaks \/ EventTooLarge \/ Interrupt
  <2>1. UNCHANGED <<given, shown, channel, reader, parts, received>>
    BY <1>2 DEF Dispatch, Connect, StreamBreaks, EventTooLarge, Interrupt, given, host
  <2>2. place \in Going /\ Live /\ (place = "emitting" => ~Dispatch /\ ~Connect /\ ~StreamBreaks)
    BY <1>2 DEF Dispatch, Connect, StreamBreaks, EventTooLarge, Interrupt, Live, Going
  <2>3. \/ place' = "settle" /\ outcome' \in Outcomes \ {"ok"}
        \/ /\ place' \in {"connect", "reading"} /\ place # "emitting" /\ outcome' = outcome
    BY <1>2 DEF Dispatch, Connect, StreamBreaks, EventTooLarge, Interrupt, End, Outcomes,
                TInv, TypeOK
  <2>4. CASE place' = "settle" /\ outcome' \in Outcomes \ {"ok"}
    BY <2>1, <2>4, NotLive, QuietText
  <2>5. CASE /\ place' \in {"connect", "reading"} /\ place # "emitting" /\ outcome' = outcome
    BY <2>1, <2>2, <2>5, QuietText DEF TextInv
  <2> QED
    BY <2>3, <2>4, <2>5
<1>3. CASE StreamEnds \/ ReadBytes
  <2>1. UNCHANGED <<given, shown, channel, reader, parts, received>>
    BY <1>3 DEF StreamEnds, ReadBytes, given, host
  <2>2. Live /\ place = "reading" /\ place' \in {"reading", "settle"}
    BY <1>3 DEF StreamEnds, ReadBytes, End, Live, Going
  <2>3. place' = "reading" => outcome' = outcome
    BY <1>3 DEF StreamEnds, ReadBytes, End
  <2> QED
    BY <2>1, <2>2, <2>3, QuietText DEF TextInv, Going
<1>4. CASE SendPart
  BY <1>4, SendText
<1>5. CASE Settle
  BY <1>5, QuietText DEF Settle, given, host, Live, Going
<1>6. CASE HostReads
  BY <1>6, HostReadsText
<1>7. CASE HostLeaves
  BY <1>7, HostLeavesText
<1>8. CASE HostCancels \/ TimeRunsOut
  BY <1>8, QuietText DEF HostCancels, TimeRunsOut, given, Live, TextInv
<1>9. ASSUME NEW l \in Lines, ReadLine(l)
      PROVE  TextInv'
  <2>1. UNCHANGED <<given, shown, channel, reader, parts, received>>
    BY <1>9 DEF ReadLine, given, host
  <2>2. Live /\ place = "reading" /\ place' \in {"reading", "settle"}
    BY <1>9 DEF ReadLine, End, Live, Going
  <2>3. place' = "reading" => outcome' = outcome
    BY <1>9 DEF ReadLine, End
  <2> QED
    BY <2>1, <2>2, <2>3, QuietText DEF TextInv, Going
<1>10. ASSUME NEW l \in Lines, ReadFrameEnd(l)
       PROVE  TextInv'
  <2>1. place = "reading" /\ UNCHANGED <<given, channel, host>>
    BY <1>10 DEF ReadFrameEnd
  <2>2. CASE \E n \in Parsed : TakeFrame(n)
    BY <2>1, <2>2, FrameText DEF Parsed
  <2>3. CASE ~\E n \in Parsed : TakeFrame(n)
    <3>1. place' = "settle" /\ UNCHANGED <<received, parts>> /\ Live
      BY <1>10, <2>1, <2>3 DEF ReadFrameEnd, End, Live, Going
    <3> QED
      BY <2>1, <3>1, QuietText DEF given, host, Going
  <2> QED
    BY <2>2, <2>3
<1> QED
  BY <1>1, <1>2, <1>3, <1>4, <1>5, <1>6, <1>7, <1>8, <1>9, <1>10
  DEF Next, Engine, Provider, Reading, Host

\* The increments are kept in step with the text in every state.
THEOREM TextInductive == Spec => []TextInv
<1>1. Init => TextInv
  BY InitText, StreamAssumption
<1>2. TInv /\ TextInv /\ [Next]_vars => TextInv'
  BY StepText, StreamAssumption
<1> QED
  BY <1>1, <1>2, Types, PTL DEF Spec

\* A beginning of a text, as the sequences' library has it.
LEMMA BeginningIsPrefix ==
    ASSUME NEW s, NEW r, s \in Seq(STRING), r \in Seq(STRING)
    PROVE  IsPrefix(s, s \o r)
<1>1. /\ Len(s) \in Nat /\ Len(r) \in Nat /\ s \o r \in Seq(STRING)
      /\ Len(s \o r) = Len(s) + Len(r)
      /\ \A i \in 1..Len(s) : (s \o r)[i] = s[i]
  BY ConcatProperties
<1>2. SubSeq(s \o r, 1, Len(s)) = s
  BY <1>1
<1> QED
  BY <1>1, <1>2 DEF IsPrefix

-----------------------------------------------------------------------------
(***************************************************************************)
(* The answer.                                                             *)
(***************************************************************************)
\* A member of A is in fs, and no member of B after it.
LastIn(fs, A, B) ==
    \E k \in 1..Len(fs) : fs[k] \in A /\ \A m \in (k + 1)..Len(fs) : fs[m] \notin B

\* The frames that name the call at i, and those that give it arguments v.
Naming(i)      == {n \in Names[endpoint] : i \in DOMAIN CallsIn(n)}
Bringing(i, v) == {n \in Naming(i) : CallsIn(n)[i].args = v}

\* The frames that say the answer is complete, and those that say it is not.
Finishing   == {n \in Names[endpoint] : FinishIn(n) \in {"stop", "tool_calls"}}
Unfinishing == {n \in Names[endpoint] : FinishIn(n) \notin {None, "stop", "tool_calls"}}

WholeInv ==
    /\ Live =>
          /\ acc.text = AllText
          /\ endpoint = Chat => \A j : ArgsAt(acc.tools, j) = AllArgs(j)
          /\ endpoint = Responses =>
                \A i \in DOMAIN acc.tools :
                   LastIn(received, Bringing(i, acc.tools[i].args), Naming(i))
          /\ acc.complete => LastIn(received, Finishing, Unfinishing)
    /\ outcome = "ok" => line = 0 /\ data = <<>>

\* One more frame is the last of its kind, or leaves the last one that was.
LEMMA LastOneMore ==
    ASSUME NEW S, NEW fs \in Seq(S), NEW n \in S, NEW A, NEW B,
           n \in A \/ (n \notin B /\ LastIn(fs, A, B))
    PROVE  LastIn(Append(fs, n), A, B)
<1>1. PICK e : e = Append(fs, n)
  OBVIOUS
<1>2. /\ Len(e) = Len(fs) + 1 /\ e[Len(fs) + 1] = n /\ Len(fs) \in Nat
      /\ \A i \in 1..Len(fs) : e[i] = fs[i]
  BY <1>1, AppendProperties
<1>3. CASE n \in A
  <2>1. Len(e) \in 1..Len(e) /\ e[Len(e)] \in A /\ (Len(e) + 1)..Len(e) = {}
    BY <1>2, <1>3
  <2>2. LastIn(e, A, B)
    BY <2>1 DEF LastIn
  <2> QED
    BY <1>1, <2>2
<1>4. CASE n \notin B /\ LastIn(fs, A, B)
  <2>1. PICK k \in 1..Len(fs) : fs[k] \in A /\ \A m \in (k + 1)..Len(fs) : fs[m] \notin B
    BY <1>4 DEF LastIn
  <2>2. k \in 1..Len(e) /\ e[k] \in A
    BY <1>2, <2>1
  <2>3. ASSUME NEW m \in (k + 1)..Len(e)
        PROVE  e[m] \notin B
    <3>1. m \in (k + 1)..Len(fs) \/ m = Len(fs) + 1
      BY <1>2
    <3>2. \A i \in (k + 1)..Len(fs) : e[i] = fs[i]
      BY <1>2
    <3> QED
      BY <1>2, <1>4, <2>1, <3>1, <3>2
  <2>4. LastIn(e, A, B)
    BY <2>2, <2>3 DEF LastIn
  <2> QED
    BY <1>1, <2>4
<1> QED
  BY <1>3, <1>4

\* Another frame is taken: what it says comes last.
LEMMA FrameWhole ==
    ASSUME StreamAssumption, TInv, TextInv, WholeInv, NEW n \in Names[endpoint], TakeFrame(n),
           endpoint' = endpoint, place = "reading", line' = 0, data' = <<>>
    PROVE  WholeInv'
<1> DEFINE read == ReadFrame(Frame[n])
<1>1. Reads(n, read)
  BY FrameRead DEF TInv, TypeOK
<1>2. /\ acc' = read.acc /\ received' = Append(received, n)
      /\ \/ outcome' \in {"protocol", "model"} /\ place' = "settle"
         \/ read.error = None
  BY <1>1 DEF TakeFrame, End, Reads
<1> HIDE DEF read
<1>3. SUFFICES ASSUME Live', read.error = None
               PROVE  WholeInv'
  BY <1>2 DEF WholeInv, Live, Going
<1>4. /\ Live /\ received \in Seq(Names[endpoint])
      /\ endpoint \in DOMAIN Names
  BY DEF Live, Going, TInv, TypeOK
<1>5. /\ acc'.text = acc.text \o TextIn(n)
      /\ acc'.complete => \/ FinishIn(n) = None /\ acc.complete
                          \/ FinishIn(n) \in {"stop", "tool_calls"}
      /\ endpoint = Chat =>
            \A j : ArgsAt(acc'.tools, j) = ArgsAt(acc.tools, j) \o ArgsIn(n, j)
      /\ endpoint = Responses =>
            \A i \in DOMAIN acc'.tools :
               IF i \in DOMAIN CallsIn(n) THEN acc'.tools[i].args = CallsIn(n)[i].args
                                          ELSE /\ i \in DOMAIN acc.tools
                                               /\ acc'.tools[i] = acc.tools[i]
  BY <1>1, <1>2, <1>3 DEF Reads
<1>6. acc'.text = AllText'
  <2> DEFINE g == [m \in Names[endpoint] |-> TextIn(m)]
  <2>1. g \in [Names[endpoint] -> Seq(STRING)] /\ g[n] = TextIn(n)
    BY <1>4, SaidTypes
  <2>2. AllText = FlattenSeq(Said(g, received))
    <3>1. \A k \in DOMAIN received : g[received[k]] = TextIn(received[k])
      BY <1>4
    <3>2. [k \in DOMAIN received |-> TextIn(received[k])] = Said(g, received)
      BY <3>1 DEF Said
    <3> QED
      BY <3>2 DEF AllText
  <2>3. AllText' = FlattenSeq(Said(g, Append(received, n)))
    <3>1. PICK e : e = Append(received, n)
      OBVIOUS
    <3>2. \A k \in DOMAIN e : e[k] \in Names[endpoint]
      BY <1>4, <3>1, AppendProperties
    <3>3. \A k \in DOMAIN e : g[e[k]] = TextIn(e[k])
      BY <3>2
    <3>4. \A m : TextIn(m)' = TextIn(m)
      BY DEF TextIn
    <3>5. [k \in DOMAIN e |-> TextIn(e[k])] = Said(g, e)
      BY <3>3 DEF Said
    <3>6. received' = e
      BY <1>2, <3>1
    <3>7. AllText' = FlattenSeq([k \in DOMAIN e |-> TextIn(e[k])])
      BY <3>4, <3>6 DEF AllText, TextIn
    <3> QED
      BY <3>1, <3>5, <3>7
  <2> HIDE DEF g
  <2>4. FlattenSeq(Said(g, Append(received, n))) = FlattenSeq(Said(g, received)) \o g[n]
    <3>1. PICK h, fs, S : h = g /\ fs = received /\ S = Names[endpoint]
      OBVIOUS
    <3>2. h \in [S -> Seq(STRING)] /\ fs \in Seq(S) /\ n \in S
      BY <1>4, <2>1, <3>1
    <3>3. \A u \in [S -> Seq(STRING)], v \in Seq(S), w \in S :
             FlattenSeq(Said(u, Append(v, w))) = FlattenSeq(Said(u, v)) \o u[w]
      BY SaidOneMore, Zenon
    <3>4. FlattenSeq(Said(h, Append(fs, n))) = FlattenSeq(Said(h, fs)) \o h[n]
      BY <3>2, <3>3
    <3> QED
      BY <3>1, <3>4
  <2>5. acc.text = AllText
    BY <1>4 DEF WholeInv
  <2> QED
    BY <1>5, <2>1, <2>2, <2>3, <2>4, <2>5
<1>7. ASSUME endpoint = Chat, NEW j
      PROVE  ArgsAt(acc'.tools, j) = AllArgs(j)'
  <2> DEFINE g == [m \in Names[endpoint] |-> ArgsIn(m, j)]
  <2>1. g \in [Names[endpoint] -> Seq(STRING)] /\ g[n] = ArgsIn(n, j)
    BY <1>4, <1>7, SaidTypes
  <2>2. AllArgs(j) = FlattenSeq(Said(g, received))
    <3>1. \A k \in DOMAIN received : g[received[k]] = ArgsIn(received[k], j)
      BY <1>4
    <3>2. [k \in DOMAIN received |-> ArgsIn(received[k], j)] = Said(g, received)
      BY <3>1 DEF Said
    <3> QED
      BY <3>2 DEF AllArgs
  <2>3. AllArgs(j)' = FlattenSeq(Said(g, Append(received, n)))
    <3>1. PICK e : e = Append(received, n)
      OBVIOUS
    <3>2. \A k \in DOMAIN e : e[k] \in Names[endpoint]
      BY <1>4, <3>1, AppendProperties
    <3>3. \A k \in DOMAIN e : g[e[k]] = ArgsIn(e[k], j)
      BY <3>2
    <3>4. [k \in DOMAIN e |-> ArgsIn(e[k], j)] = Said(g, e)
      BY <3>3 DEF Said
    <3>5. received' = e
      BY <1>2, <3>1
    <3>6. AllArgs(j)' = FlattenSeq([k \in DOMAIN e |-> ArgsIn(e[k], j)])
      BY <3>5 DEF AllArgs
    <3> QED
      BY <3>1, <3>4, <3>6
  <2> HIDE DEF g
  <2>4. FlattenSeq(Said(g, Append(received, n))) = FlattenSeq(Said(g, received)) \o g[n]
    <3>1. PICK h, fs, S : h = g /\ fs = received /\ S = Names[endpoint]
      OBVIOUS
    <3>2. h \in [S -> Seq(STRING)] /\ fs \in Seq(S) /\ n \in S
      BY <1>4, <2>1, <3>1
    <3>3. \A u \in [S -> Seq(STRING)], v \in Seq(S), w \in S :
             FlattenSeq(Said(u, Append(v, w))) = FlattenSeq(Said(u, v)) \o u[w]
      BY SaidOneMore, Zenon
    <3>4. FlattenSeq(Said(h, Append(fs, n))) = FlattenSeq(Said(h, fs)) \o h[n]
      BY <3>2, <3>3
    <3> QED
      BY <3>1, <3>4
  <2>5. ArgsAt(acc.tools, j) = AllArgs(j)
    BY <1>4, <1>7 DEF WholeInv
  <2>6. ArgsAt(acc'.tools, j) = ArgsAt(acc.tools, j) \o ArgsIn(n, j)
    BY <1>5, <1>7
  <2> QED
    BY <2>1, <2>2, <2>3, <2>4, <2>5, <2>6
<1>8. ASSUME endpoint = Responses, NEW i \in DOMAIN acc'.tools
      PROVE  LastIn(received', Bringing(i, acc'.tools[i].args), Naming(i))
  <2>1. CASE i \in DOMAIN CallsIn(n)
    <3>1. n \in Bringing(i, acc'.tools[i].args)
      BY <1>5, <1>8, <2>1 DEF Bringing, Naming
    <3> QED
      BY <1>2, <1>4, <3>1, LastOneMore
  <2>2. CASE i \notin DOMAIN CallsIn(n)
    <3>1. n \notin Naming(i) /\ i \in DOMAIN acc.tools /\ acc'.tools[i] = acc.tools[i]
      BY <1>5, <1>8, <2>2 DEF Naming
    <3>2. LastIn(received, Bringing(i, acc.tools[i].args), Naming(i))
      BY <1>4, <1>8, <3>1 DEF WholeInv
    <3>3. LastIn(received, Bringing(i, acc'.tools[i].args), Naming(i))
      BY <3>1, <3>2
    <3> QED
      BY <1>2, <1>4, <3>1, <3>3, LastOneMore
  <2> QED
    BY <2>1, <2>2
<1>9. ASSUME acc'.complete
      PROVE  LastIn(received', Finishing, Unfinishing)
  <2>1. n \in Finishing \/ (n \notin Unfinishing /\ LastIn(received, Finishing, Unfinishing))
    BY <1>4, <1>5, <1>9 DEF Finishing, Unfinishing, WholeInv
  <2> QED
    BY <1>2, <1>4, <2>1, LastOneMore
<1>10. /\ \A i, v : Bringing(i, v)' = Bringing(i, v) /\ Naming(i)' = Naming(i)
       /\ Finishing' = Finishing /\ Unfinishing' = Unfinishing
  BY DEF Bringing, Naming, Finishing, Unfinishing, FinishIn
<1> QED
  BY <1>6, <1>7, <1>8, <1>9, <1>10 DEF WholeInv

\* Steps that take no frame.
LEMMA QuietWhole ==
    ASSUME WholeInv, UNCHANGED <<endpoint, acc, received>>, Live' => Live,
           outcome' = "ok" => \/ outcome = "ok" /\ UNCHANGED <<line, data>>
                              \/ line' = 0 /\ data' = <<>>
    PROVE  WholeInv'
<1>1. AllText' = AllText
  BY DEF AllText, TextIn
<1>2. \A j : AllArgs(j)' = AllArgs(j)
  BY DEF AllArgs
<1>3. \A i, v : Bringing(i, v)' = Bringing(i, v) /\ Naming(i)' = Naming(i)
  BY DEF Bringing, Naming
<1>4. Finishing' = Finishing /\ Unfinishing' = Unfinishing
  BY DEF Finishing, Unfinishing, FinishIn
<1>5. outcome' = "ok" => line' = 0 /\ data' = <<>>
  BY DEF WholeInv
<1>6. CASE ~Live'
  BY <1>5, <1>6 DEF WholeInv
<1>7. CASE Live'
  <2>1. /\ acc.text = AllText
        /\ endpoint = Chat => \A j : ArgsAt(acc.tools, j) = AllArgs(j)
        /\ endpoint = Responses =>
              \A i \in DOMAIN acc.tools :
                 LastIn(received, Bringing(i, acc.tools[i].args), Naming(i))
        /\ acc.complete => LastIn(received, Finishing, Unfinishing)
    BY <1>7 DEF WholeInv
  <2> QED
    BY <1>1, <1>2, <1>3, <1>4, <1>5, <2>1 DEF WholeInv
<1> QED
  BY <1>6, <1>7

\* A call that has not begun has an empty answer to no frames.
LEMMA InitWhole == StreamAssumption /\ Init => WholeInv
<1> SUFFICES ASSUME StreamAssumption, Init
             PROVE  WholeInv
  OBVIOUS
<1>1. received = <<>> /\ acc.text = <<>> /\ acc.tools = <<>> /\ acc.complete = FALSE
      /\ outcome = None
  BY DEF Init, NewAnswer
<1>2. DOMAIN <<>> = {} /\ FlattenSeq(<<>>) = <<>>
  <2>1. FlattenSeq(<<>>) = <<>>
    BY FlattenNothing, EmptySeq
  <2> QED
    BY <2>1
<1>3. AllText = <<>>
  <2>1. [k \in DOMAIN received |-> TextIn(received[k])] = <<>>
    BY <1>1
  <2> QED
    BY <1>2, <2>1 DEF AllText
<1>4. ASSUME NEW j
      PROVE  AllArgs(j) = <<>> /\ ArgsAt(acc.tools, j) = <<>>
  <2>1. [k \in DOMAIN received |-> ArgsIn(received[k], j)] = <<>>
    BY <1>1
  <2> QED
    BY <1>1, <1>2, <2>1 DEF AllArgs, ArgsAt
<1> QED
  BY <1>1, <1>2, <1>3, <1>4 DEF WholeInv, None

\* Every step keeps the answer whole.
LEMMA StepWhole ==
    ASSUME StreamAssumption, TInv, TextInv, WholeInv, [Next]_vars
    PROVE  WholeInv'
<1>1. CASE UNCHANGED vars
  BY <1>1, QuietWhole DEF vars, given, wire, Live
<1>2. CASE Dispatch \/ Connect \/ StreamBreaks \/ EventTooLarge \/ Interrupt
  <2>1. UNCHANGED <<endpoint, acc, received, line, data>> /\ Live
    BY <1>2 DEF Dispatch, Connect, StreamBreaks, EventTooLarge, Interrupt, given, wire, Live, Going
  <2>2. outcome' = outcome \/ outcome' # "ok"
    BY <1>2 DEF Dispatch, Connect, StreamBreaks, EventTooLarge, Interrupt, End, TInv, TypeOK
  <2> QED
    BY <2>1, <2>2, QuietWhole
<1>3. CASE StreamEnds
  <2>1. UNCHANGED <<endpoint, acc, received, line, data>> /\ Live
    BY <1>3 DEF StreamEnds, given, wire, Live, Going
  <2>2. outcome' = "ok" => line = 0 /\ data = <<>>
    BY <1>3 DEF StreamEnds, End, Truncated, TInv, TypeOK
  <2> QED
    BY <2>1, <2>2, QuietWhole
<1>4. CASE ReadBytes
  <2>1. UNCHANGED <<endpoint, acc, received>> /\ Live /\ outcome # "ok"
    BY <1>4 DEF ReadBytes, given, Live, Going, TextInv, None
  <2>2. outcome' # "ok"
    BY <1>4, <2>1 DEF ReadBytes, End
  <2> QED
    BY <2>1, <2>2, QuietWhole
<1>5. CASE SendPart
  BY <1>5, QuietWhole DEF SendPart, given, wire, Live, Going
<1>6. CASE Settle \/ HostReads \/ HostLeaves \/ HostCancels \/ TimeRunsOut
  BY <1>6, QuietWhole
  DEF Settle, HostReads, HostLeaves, HostCancels, TimeRunsOut, given, wire, Live, Going
<1>7. ASSUME NEW l \in Lines, ReadLine(l)
      PROVE  WholeInv'
  <2>1. UNCHANGED <<endpoint, acc, received>> /\ Live /\ outcome # "ok"
    BY <1>7 DEF ReadLine, given, Live, Going, TextInv, None
  <2>2. outcome' # "ok"
    BY <1>7, <2>1 DEF ReadLine, End
  <2> QED
    BY <2>1, <2>2, QuietWhole
<1>8. ASSUME NEW l \in Lines, ReadFrameEnd(l)
      PROVE  WholeInv'
  <2>1. place = "reading" /\ line' = 0 /\ data' = <<>> /\ endpoint' = endpoint /\ Live
    BY <1>8 DEF ReadFrameEnd, given, Live, Going
  <2>2. CASE \E n \in Parsed : TakeFrame(n)
    BY <2>1, <2>2, FrameWhole DEF Parsed
  <2>3. CASE ~\E n \in Parsed : TakeFrame(n)
    BY <1>8, <2>1, <2>3, QuietWhole DEF ReadFrameEnd
  <2> QED
    BY <2>2, <2>3
<1> QED
  BY <1>1, <1>2, <1>3, <1>4, <1>5, <1>6, <1>7, <1>8
  DEF Next, Engine, Provider, Reading, Host

\* The answer is whole in every state of a call that may still succeed.
THEOREM WholeInductive == Spec => []WholeInv
<1>1. Init => WholeInv
  BY InitWhole, StreamAssumption
<1>2. TInv /\ TextInv /\ WholeInv /\ [Next]_vars => WholeInv'
  BY StepWhole, StreamAssumption
<1> QED
  BY <1>1, <1>2, Types, TextInductive, PTL DEF Spec

\* The last event that names a call gives its arguments.
LEMMA LastCallGives ==
    ASSUME TInv, NEW i, NEW v, LastIn(received, Bringing(i, v), Naming(i))
    PROVE  LastCall(i).args = v
<1> DEFINE ks == {k \in DOMAIN received : i \in DOMAIN CallsIn(received[k])}
<1>1. /\ DOMAIN received = 1..Len(received) /\ Len(received) \in Nat
      /\ \A k \in 1..Len(received) : received[k] \in Names[endpoint]
  BY DEF TInv
<1>2. PICK k \in 1..Len(received) :
         /\ received[k] \in Bringing(i, v)
         /\ \A m \in (k + 1)..Len(received) : received[m] \notin Naming(i)
  BY DEF LastIn
<1>3. k \in ks /\ CallsIn(received[k])[i].args = v
  BY <1>1, <1>2 DEF Bringing, Naming
<1>4. \A m \in ks : m <= k
  BY <1>1, <1>2 DEF Naming
<1>5. ks \subseteq 1..Len(received) /\ ks # {}
  BY <1>1, <1>3
<1>6. \A s : s \subseteq 1..Len(received) /\ s # {} => Max(s) \in s /\ \A y \in s : Max(s) >= y
  BY <1>1, Greatest
<1>7. Max(ks) \in ks /\ Max(ks) >= k
  BY <1>3, <1>5, <1>6
<1>8. Max(ks) = k
  BY <1>1, <1>4, <1>5, <1>7
<1> QED
  BY <1>3, <1>8 DEF LastCall

\* An answer that succeeds is all of the text and all of the arguments that
\* the provider sent, for any frames and however they are cut; it is complete
\* only if the provider's last word on it was that it is.
THEOREM AnswersAreWhole == Spec => []AnswerIsWhole
<1>1. TInv /\ WholeInv => AnswerIsWhole
  <2> SUFFICES ASSUME TInv, WholeInv, outcome = "ok"
               PROVE  /\ acc.text = AllText
                      /\ \A i \in DOMAIN acc.tools :
                            acc.tools[i].args = IF endpoint = Chat THEN AllArgs(i)
                                                                   ELSE LastCall(i).args
                      /\ acc.complete =>
                            \E i \in DOMAIN received :
                               /\ FinishIn(received[i]) \in {"stop", "tool_calls"}
                               /\ \A j \in (i + 1)..Len(received) :
                                     FinishIn(received[j]) \in {None, "stop", "tool_calls"}
                      /\ line = 0 /\ data = <<>>
    BY DEF AnswerIsWhole
  <2>1. Live /\ endpoint \in {Chat, Responses}
    BY StreamAssumption DEF Live, TInv, TypeOK
  <2>2. acc.text = AllText /\ line = 0 /\ data = <<>>
    BY <2>1 DEF WholeInv
  <2>3. ASSUME NEW i \in DOMAIN acc.tools, endpoint = Chat
        PROVE  acc.tools[i].args = AllArgs(i)
    BY <2>1, <2>3 DEF WholeInv, ArgsAt
  <2>4. ASSUME NEW i \in DOMAIN acc.tools, endpoint # Chat
        PROVE  acc.tools[i].args = LastCall(i).args
    BY <2>1, <2>4, LastCallGives DEF WholeInv
  <2>5. ASSUME acc.complete
        PROVE  \E i \in DOMAIN received :
                  /\ FinishIn(received[i]) \in {"stop", "tool_calls"}
                  /\ \A j \in (i + 1)..Len(received) :
                        FinishIn(received[j]) \in {None, "stop", "tool_calls"}
    <3>1. LastIn(received, Finishing, Unfinishing)
      BY <2>1, <2>5 DEF WholeInv
    <3>2. /\ DOMAIN received = 1..Len(received) /\ Len(received) \in Nat
          /\ \A k \in 1..Len(received) : received[k] \in Names[endpoint]
      BY DEF TInv
    <3>3. PICK k \in 1..Len(received) :
             /\ received[k] \in Finishing
             /\ \A m \in (k + 1)..Len(received) : received[m] \notin Unfinishing
      BY <3>1 DEF LastIn
    <3>4. \A m \in (k + 1)..Len(received) : received[m] \in Names[endpoint]
      BY <3>2
    <3> QED
      BY <3>2, <3>3, <3>4 DEF Finishing, Unfinishing
  <2> QED
    BY <2>2, <2>3, <2>4, <2>5
<1> QED
  BY <1>1, Types, WholeInductive, PTL

\* Frames that show all of their text show all of the text.
LEMMA ShownIsSaid ==
    ASSUME StreamAssumption, TInv, \A k \in DOMAIN received : OneContent(received[k])
    PROVE  AllShown = AllText
<1>1. /\ endpoint \in DOMAIN Names /\ endpoint \in {Chat, Responses}
      /\ \A k \in DOMAIN received : received[k] \in Names[endpoint]
  BY DEF TInv, TypeOK, StreamAssumption
<1>2. ASSUME NEW k \in DOMAIN received
      PROVE  ShownIn(received[k]) = TextIn(received[k])
  <2>1. CASE endpoint = Responses
    BY <2>1 DEF ShownIn
  <2>2. CASE endpoint = Chat
    <3>1. received[k] \in Names[Chat] /\ Chat # Responses
      BY <1>1, <1>2, <2>2 DEF Chat, Responses
    <3>2. \A i, j \in Speaking(Frame[received[k]]) : i = j
      BY <1>2, <2>2 DEF OneContent
    <3>3. ChatText(Frame[received[k]]) = ChatDelta(Frame[received[k]])
      BY <3>1, <3>2, ChatSays
    <3> QED
      BY <2>2, <3>1, <3>3 DEF ShownIn, TextIn
  <2> QED
    BY <1>1, <2>1, <2>2
<1> QED
  BY <1>2 DEF AllShown, AllText

\* A host that stays reads every increment once and in order, all of them if
\* the call succeeds, and a planner's text is never shown: for every size of
\* parts, every capacity of the channel and every frame the provider sends.
\* The increments are the text of the answer if no frame has two contents.
THEOREM IncrementsAreInOrder == Spec => []IncrementsInOrder
<1>1. TInv /\ TextInv /\ WholeInv => IncrementsInOrder
  <2> SUFFICES ASSUME TInv, TextInv, WholeInv
               PROVE  IncrementsInOrder
    OBVIOUS
  <2>1. CASE node = "planner"
    <3>1. shown = <<>> /\ channel = <<>>
      BY <2>1 DEF TextInv
    <3>2. FlattenSeq(<<>>) = <<>> /\ <<>> \o <<>> = <<>>
      BY FlattenNothing, EmptySeq, Regroup
    <3> QED
      BY <2>1, <3>1, <3>2 DEF IncrementsInOrder
  <2>2. CASE node # "planner"
    <3>1. PICK r \in Seq(STRING) : AllShown = Emitted \o r
      BY <2>2 DEF TextInv
    <3>2. IsPrefix(Emitted, AllShown)
      BY <3>1, EmittedType, BeginningIsPrefix
    <3>3. place \in {"reading", "emitting"} \/ outcome = "ok" => Live
      BY DEF Live, Going
    <3>4. reader = "reading" /\ Live => Emitted \o parts = AllShown
      BY <2>2 DEF TextInv
    <3>5. Live /\ (\A k \in DOMAIN received : OneContent(received[k])) => AllShown = acc.text
      BY ShownIsSaid, StreamAssumption DEF WholeInv
    <3> QED
      BY <2>2, <3>2, <3>3, <3>4, <3>5 DEF IncrementsInOrder, Emitted
  <2> QED
    BY <2>1, <2>2
<1> QED
  BY <1>1, Types, TextInductive, WholeInductive, PTL
=============================================================================
