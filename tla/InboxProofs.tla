---------------------------- MODULE InboxProofs ----------------------------
(* Proofs about Inbox, for any number of sockets, messages and endpoints    *)
(* and any limits.                                                          *)
EXTENDS Inbox, FiniteSetTheorems, SequenceTheorems, TLAPS

----------------------------------------------------------------------------
(* Counting the sockets at some of the labels while one of them moves.      *)
Labels == Admitted \cup {"new", "over", "closed"}

(* How the number of sockets at some labels changes when one of them moves. *)
LEMMA Moved ==
    ASSUME pc \in [Sockets -> Labels], NEW s \in Sockets, NEW next, NEW S,
           Goto(s, next)
    PROVE  /\ IsFiniteSet(In(S))
           /\ Cardinality(In(S)) \in Nat /\ Cardinality(In(S)') \in Nat
           /\ pc[s] \in S /\ next \in S => In(S)' = In(S)
           /\ pc[s] \notin S /\ next \notin S => In(S)' = In(S)
           /\ pc[s] \in S /\ next \notin S =>
                /\ In(S)' = In(S) \ {s}
                /\ Cardinality(In(S)') = Cardinality(In(S)) - 1
           /\ pc[s] \notin S /\ next \in S =>
                /\ In(S)' = In(S) \cup {s}
                /\ Cardinality(In(S)') = Cardinality(In(S)) + 1
<1>1. pc' = [pc EXCEPT ![s] = next]
  BY DEF Goto
<1>2. IsFiniteSet(In(S)) /\ IsFiniteSet(In(S)')
  BY InboxSets, FS_Subset DEF In
<1>3. Cardinality(In(S)) \in Nat /\ Cardinality(In(S)') \in Nat
  BY <1>2, FS_CardinalityType
<1>4. ASSUME pc[s] \in S <=> next \in S PROVE In(S)' = In(S)
  BY <1>1, <1>4 DEF In
<1>5. ASSUME pc[s] \in S, next \notin S
      PROVE  In(S)' = In(S) \ {s} /\ Cardinality(In(S)') = Cardinality(In(S)) - 1
  <2>1. In(S)' = In(S) \ {s} /\ s \in In(S)
    BY <1>1, <1>5 DEF In
  <2>2. QED
    BY <2>1, <1>2, FS_RemoveElement
<1>6. ASSUME pc[s] \notin S, next \in S
      PROVE  In(S)' = In(S) \cup {s} /\ Cardinality(In(S)') = Cardinality(In(S)) + 1
  <2>1. In(S)' = In(S) \cup {s} /\ s \notin In(S)
    BY <1>1, <1>6 DEF In
  <2>2. QED
    BY <2>1, <1>2, FS_AddElement
<1>7. QED
  BY <1>2, <1>3, <1>4, <1>5, <1>6

----------------------------------------------------------------------------
(* The elements of the sequences that the model builds.                     *)
LEMMA AppendSet ==
    ASSUME NEW S, NEW q \in Seq(S), NEW m \in S
    PROVE  Append(q, m) \in Seq(S) /\ ToSet(Append(q, m)) = ToSet(q) \cup {m}
<1>1. /\ Append(q, m) \in Seq(S) /\ Len(Append(q, m)) = Len(q) + 1
      /\ DOMAIN Append(q, m) = 1 .. Len(q) + 1 /\ DOMAIN q = 1 .. Len(q)
      /\ Append(q, m)[Len(q) + 1] = m
      /\ \A i \in 1 .. Len(q) : Append(q, m)[i] = q[i]
      /\ Len(q) \in Nat
  BY AppendProperties, LenProperties
<1>2. 1 .. Len(q) + 1 = (1 .. Len(q)) \cup {Len(q) + 1}
  BY <1>1
<1>3. QED
  BY <1>1, <1>2 DEF ToSet

(* The elements of a queue are its head and those of its tail.              *)
LEMMA TailSet ==
    ASSUME NEW S, NEW q \in Seq(S), q # <<>>
    PROVE  Tail(q) \in Seq(S) /\ ToSet(q) = ToSet(Tail(q)) \cup {Head(q)}
<1>1. /\ Tail(q) \in Seq(S) /\ Len(Tail(q)) = Len(q) - 1 /\ Head(q) = q[1]
      /\ \A i \in 1 .. Len(Tail(q)) : Tail(q)[i] = q[i + 1]
      /\ DOMAIN q = 1 .. Len(q) /\ DOMAIN Tail(q) = 1 .. Len(q) - 1
      /\ Len(q) \in Nat \ {0}
  BY HeadTailProperties, LenProperties, EmptySeq
<1>2. ASSUME NEW x \in ToSet(q) PROVE x \in ToSet(Tail(q)) \cup {Head(q)}
  <2>1. PICK i \in 1 .. Len(q) : x = q[i]
    BY <1>1, <1>2 DEF ToSet
  <2>2. CASE i = 1
    BY <1>1, <2>1, <2>2
  <2>3. CASE i # 1
    <3>1. i - 1 \in 1 .. Len(q) - 1 /\ (i - 1) + 1 = i
      BY <1>1, <2>3
    <3>2. Tail(q)[i - 1] = q[i]
      BY <1>1, <3>1
    <3>3. QED
      BY <1>1, <2>1, <3>1, <3>2 DEF ToSet
  <2>4. QED
    BY <2>2, <2>3
<1>3. ASSUME NEW x \in ToSet(Tail(q)) \cup {Head(q)} PROVE x \in ToSet(q)
  BY <1>1, <1>3 DEF ToSet
<1>4. QED
  BY <1>1, <1>2, <1>3

(* A catch-up frame and what was cut from it are the whole inbox.           *)
LEMMA SplitSet ==
    ASSUME NEW S, NEW q \in Seq(S), NEW n \in 0 .. Len(q)
    PROVE  ToSet(SubSeq(q, 1, n)) \cup ToSet(SubSeq(q, n + 1, Len(q))) = ToSet(q)
<1>1. Len(q) \in Nat /\ DOMAIN q = 1 .. Len(q)
  BY LenProperties
<1>2. ASSUME NEW a \in 1 .. Len(q) + 1, NEW b \in 0 .. Len(q)
      PROVE  ToSet(SubSeq(q, a, b)) = {q[i] : i \in a .. b}
  <2>1. /\ SubSeq(q, a, b) \in Seq(S)
        /\ Len(SubSeq(q, a, b)) = IF a <= b THEN b - a + 1 ELSE 0
        /\ \A i \in 1 .. b - a + 1 : SubSeq(q, a, b)[i] = q[a + i - 1]
    BY <1>1, SubSeqProperties
  <2>2. DOMAIN SubSeq(q, a, b) = 1 .. b - a + 1
    BY <1>1, <2>1, LenProperties
  <2>3. ASSUME NEW i \in a .. b PROVE q[i] \in ToSet(SubSeq(q, a, b))
    <3>1. i - a + 1 \in 1 .. b - a + 1 /\ a + (i - a + 1) - 1 = i
      BY <1>1
    <3>2. SubSeq(q, a, b)[i - a + 1] = q[i]
      BY <2>1, <3>1
    <3>3. QED
      BY <2>2, <3>1, <3>2 DEF ToSet
  <2>4. ASSUME NEW x \in ToSet(SubSeq(q, a, b)) PROVE x \in {q[i] : i \in a .. b}
    <3>1. PICK j \in 1 .. b - a + 1 : x = q[a + j - 1]
      BY <2>1, <2>2, <2>4 DEF ToSet
    <3>2. a + j - 1 \in a .. b
      BY <1>1
    <3>3. QED
      BY <3>1, <3>2
  <2>5. QED
    BY <2>3, <2>4
<1>3. /\ ToSet(SubSeq(q, 1, n)) = {q[i] : i \in 1 .. n}
      /\ ToSet(SubSeq(q, n + 1, Len(q))) = {q[i] : i \in n + 1 .. Len(q)}
  BY <1>1, <1>2
<1>4. 1 .. Len(q) = (1 .. n) \cup (n + 1 .. Len(q))
  BY <1>1
<1>5. QED
  BY <1>1, <1>3, <1>4 DEF ToSet

(* The messages of an inbox are distinct.                                   *)
Distinct(q) == \A i, j \in DOMAIN q : q[i] = q[j] => i = j

(* A queue without repetition is as long as it has elements.                *)
LEMMA DistinctCount ==
    ASSUME NEW S, NEW q \in Seq(S), Distinct(q)
    PROVE  Len(q) = Cardinality(ToSet(q))
<1>1. Len(q) \in Nat /\ DOMAIN q = 1 .. Len(q) /\ q \in [1 .. Len(q) -> S]
  BY LenProperties
<1>2. q \in Bijection(1 .. Len(q), ToSet(q))
  <2>1. q \in [1 .. Len(q) -> ToSet(q)]
    BY <1>1 DEF ToSet
  <2>2. \A x \in ToSet(q) : \E i \in 1 .. Len(q) : q[i] = x
    BY <1>1 DEF ToSet
  <2>3. IsInjective(q)
    BY <1>1 DEF IsInjective, Distinct
  <2>4. QED
    BY <2>1, <2>2, <2>3 DEF Bijection, Injection, Surjection
<1>3. ExistsBijection(1 .. Len(q), ToSet(q))
  BY <1>2 DEF ExistsBijection
<1>4. IsFiniteSet(1 .. Len(q)) /\ Cardinality(1 .. Len(q)) = Len(q)
  BY <1>1, FS_Interval
<1>5. QED
  BY <1>3, <1>4, FS_Bijection

(* A new element does not make a repetition.                                *)
LEMMA AppendDistinct ==
    ASSUME NEW S, NEW q \in Seq(S), Distinct(q), NEW m \in S, m \notin ToSet(q)
    PROVE  Distinct(Append(q, m))
<1>1. /\ DOMAIN Append(q, m) = 1 .. Len(q) + 1 /\ DOMAIN q = 1 .. Len(q)
      /\ Append(q, m)[Len(q) + 1] = m /\ Len(q) \in Nat
      /\ \A i \in 1 .. Len(q) : Append(q, m)[i] = q[i]
  BY AppendProperties, LenProperties
<1>2. \A i \in 1 .. Len(q) : q[i] # m
  BY <1>1 DEF ToSet
<1>3. QED
  BY <1>1, <1>2 DEF Distinct

(* Taking an element out of a queue.                                        *)
LEMMA RemoveAtProperties ==
    ASSUME NEW S, NEW q \in Seq(S), NEW k \in DOMAIN q
    PROVE  /\ RemoveAt(q, k) \in Seq(S)
           /\ ToSet(RemoveAt(q, k)) \subseteq ToSet(q)
           /\ Distinct(q) => Distinct(RemoveAt(q, k))
<1>1. Len(q) \in Nat /\ DOMAIN q = 1 .. Len(q) /\ k \in 1 .. Len(q)
  BY LenProperties
<1>2. /\ SubSeq(q, 1, k - 1) \in Seq(S) /\ Len(SubSeq(q, 1, k - 1)) = k - 1
      /\ \A i \in 1 .. k - 1 : SubSeq(q, 1, k - 1)[i] = q[i]
  <2>1. k - 1 \in 0 .. Len(q) /\ 1 \in 1 .. Len(q) + 1
    BY <1>1
  <2>2. /\ SubSeq(q, 1, k - 1) \in Seq(S)
        /\ Len(SubSeq(q, 1, k - 1)) = IF 1 <= k - 1 THEN (k - 1) - 1 + 1 ELSE 0
        /\ \A i \in 1 .. (k - 1) - 1 + 1 : SubSeq(q, 1, k - 1)[i] = q[1 + i - 1]
    BY <2>1, SubSeqProperties
  <2>3. QED
    BY <1>1, <2>2
<1>3. /\ SubSeq(q, k + 1, Len(q)) \in Seq(S)
      /\ Len(SubSeq(q, k + 1, Len(q))) = Len(q) - k
      /\ \A i \in 1 .. Len(q) - k : SubSeq(q, k + 1, Len(q))[i] = q[k + i]
  <2>1. k + 1 \in 1 .. Len(q) + 1 /\ Len(q) \in k .. Len(q)
    BY <1>1
  <2>2. /\ SubSeq(q, k + 1, Len(q)) \in Seq(S)
        /\ Len(SubSeq(q, k + 1, Len(q))) =
             IF k + 1 <= Len(q) THEN Len(q) - (k + 1) + 1 ELSE 0
        /\ \A i \in 1 .. Len(q) - (k + 1) + 1 :
             SubSeq(q, k + 1, Len(q))[i] = q[(k + 1) + i - 1]
    BY <2>1, <1>1, SubSeqProperties
  <2>3. QED
    BY <1>1, <2>2
<1>4. /\ RemoveAt(q, k) \in Seq(S) /\ Len(RemoveAt(q, k)) = Len(q) - 1
      /\ \A i \in 1 .. Len(q) - 1 :
           RemoveAt(q, k)[i] = IF i <= k - 1 THEN q[i] ELSE q[i + 1]
  <2>1. /\ RemoveAt(q, k) \in Seq(S) /\ Len(RemoveAt(q, k)) = (k - 1) + (Len(q) - k)
        /\ \A i \in 1 .. (k - 1) + (Len(q) - k) : RemoveAt(q, k)[i] =
             IF i <= k - 1 THEN SubSeq(q, 1, k - 1)[i]
             ELSE SubSeq(q, k + 1, Len(q))[i - (k - 1)]
    BY <1>2, <1>3, ConcatProperties DEF RemoveAt
  <2>2. (k - 1) + (Len(q) - k) = Len(q) - 1
    BY <1>1
  <2>3. ASSUME NEW i \in 1 .. Len(q) - 1
        PROVE  RemoveAt(q, k)[i] = IF i <= k - 1 THEN q[i] ELSE q[i + 1]
    <3>1. CASE i <= k - 1
      BY <1>1, <1>2, <2>1, <2>2, <3>1
    <3>2. CASE ~(i <= k - 1)
      <4>1. i - (k - 1) \in 1 .. Len(q) - k /\ k + (i - (k - 1)) = i + 1
        BY <1>1, <3>2
      <4>2. QED
        BY <1>3, <2>1, <2>2, <3>2, <4>1
    <3>3. QED
      BY <3>1, <3>2
  <2>4. QED
    BY <2>1, <2>2, <2>3
<1>5. DOMAIN RemoveAt(q, k) = 1 .. Len(q) - 1
  BY <1>4, LenProperties
<1>6. ASSUME NEW i \in 1 .. Len(q) - 1
      PROVE  \E j \in 1 .. Len(q) : /\ j = IF i <= k - 1 THEN i ELSE i + 1
                                   /\ RemoveAt(q, k)[i] = q[j]
  BY <1>1, <1>4
<1>7. ToSet(RemoveAt(q, k)) \subseteq ToSet(q)
  BY <1>1, <1>5, <1>6 DEF ToSet
<1>8. ASSUME Distinct(q), NEW i \in 1 .. Len(q) - 1, NEW j \in 1 .. Len(q) - 1,
             RemoveAt(q, k)[i] = RemoveAt(q, k)[j]
      PROVE  i = j
  <2>1. PICK a \in 1 .. Len(q) : /\ a = IF i <= k - 1 THEN i ELSE i + 1
                                /\ RemoveAt(q, k)[i] = q[a]
    BY <1>6
  <2>2. PICK b \in 1 .. Len(q) : /\ b = IF j <= k - 1 THEN j ELSE j + 1
                                /\ RemoveAt(q, k)[j] = q[b]
    BY <1>6
  <2>3. a = b
    BY <1>1, <1>8, <2>1, <2>2 DEF Distinct
  <2>4. QED
    BY <1>1, <2>1, <2>2, <2>3
<1>9. QED
  BY <1>4, <1>5, <1>7, <1>8 DEF Distinct

----------------------------------------------------------------------------
(* The counter: a socket is counted once at most and uncounted once at      *)
(* most, and what is counted too much has lost its decrement.               *)
Past  == Counted \cup {"failed", "zero", "release", "closed"}
Ended == {"zero", "release", "closed"}

N(S) == Cardinality(In(S))

CountInv == /\ active \in Int /\ leaked \in Nat
            /\ active <= N(Past) /\ 0 <= active + N(Ended)
            /\ active <= N(Counted) + leaked

(* Every step keeps the presence counter between its bounds.                *)
LEMMA CountStep ==
    pc \in [Sockets -> Labels] /\ CountInv /\ [Next]_vars => CountInv'
<1> SUFFICES ASSUME pc \in [Sockets -> Labels], CountInv, [Next]_vars
             PROVE  CountInv'
  OBVIOUS
<1>b. /\ IsFiniteSet(In(Past)) /\ IsFiniteSet(In(Ended)) /\ IsFiniteSet(In(Counted))
      /\ N(Past) \in Nat /\ N(Ended) \in Nat /\ N(Counted) \in Nat
  <2>1. IsFiniteSet(In(Past)) /\ IsFiniteSet(In(Ended)) /\ IsFiniteSet(In(Counted))
    BY InboxSets, FS_Subset DEF In
  <2>2. QED
    BY <2>1, FS_CardinalityType DEF N
(* What a move from one label to another does to the three counts.          *)
<1>c. ASSUME NEW s \in Sockets, NEW next \in Labels, Goto(s, next)
      PROVE  /\ N(Past)' \in Nat /\ N(Ended)' \in Nat /\ N(Counted)' \in Nat
             /\ N(Past)' = N(Past) + (IF next \in Past THEN 1 ELSE 0)
                       - (IF pc[s] \in Past THEN 1 ELSE 0)
             /\ N(Ended)' = N(Ended) + (IF next \in Ended THEN 1 ELSE 0)
                       - (IF pc[s] \in Ended THEN 1 ELSE 0)
             /\ N(Counted)' = N(Counted) + (IF next \in Counted THEN 1 ELSE 0)
                       - (IF pc[s] \in Counted THEN 1 ELSE 0)
  <2>1. ASSUME NEW S
        PROVE  /\ Cardinality(In(S)') \in Nat
               /\ Cardinality(In(S)') = Cardinality(In(S))
                    + (IF next \in S THEN 1 ELSE 0) - (IF pc[s] \in S THEN 1 ELSE 0)
    <3>1. /\ Cardinality(In(S)) \in Nat /\ Cardinality(In(S)') \in Nat
          /\ (pc[s] \in S <=> next \in S) => Cardinality(In(S)') = Cardinality(In(S))
          /\ pc[s] \in S /\ next \notin S =>
               Cardinality(In(S)') = Cardinality(In(S)) - 1
          /\ pc[s] \notin S /\ next \in S =>
               Cardinality(In(S)') = Cardinality(In(S)) + 1
      BY <1>c, Moved
    <3>2. QED
      BY <3>1
  <2>2. QED
    BY <2>1 DEF N
<1> USE <1>b DEF Count, GiveUp, NoCounter, Labels, Admitted, Counted,
                 Serving, Refreshing, Past, Ended, Decrement, limits, online, frames
<1>d. /\ active \in Int /\ leaked \in Nat
      /\ active <= N(Past) /\ 0 <= active + N(Ended) /\ active <= N(Counted) + leaked
  BY DEF CountInv
<1>f. ASSUME pc' = pc PROVE N(Past)' = N(Past) /\ N(Ended)' = N(Ended) /\ N(Counted)' = N(Counted)
  BY <1>f DEF N, In
<1>1. ASSUME NEW s \in Sockets, Reserve(s) \/ RollBack(s) \/ AcceptFails(s)
      PROVE  CountInv'
  <2>1. PICK next \in {"over", "reserved", "closed"} : Goto(s, next)
    BY <1>1 DEF Reserve, RollBack, AcceptFails
  <2>2. pc[s] \in {"new", "over", "reserved"} /\ UNCHANGED <<active, leaked>>
    BY <1>1 DEF Reserve, RollBack, AcceptFails
  <2>3. N(Past)' >= N(Past) /\ N(Ended)' >= N(Ended) /\ N(Counted)' = N(Counted)
    BY <1>c, <2>1, <2>2
  <2>4. N(Past)' \in Nat /\ N(Ended)' \in Nat
    BY <1>c, <2>1
  <2>5. QED
    BY <1>d, <2>2, <2>3, <2>4 DEF CountInv
<1>2. ASSUME NEW s \in Sockets, Incr(s) PROVE CountInv'
  <2>1. PICK next \in {"counted", "timed"} : Goto(s, next)
    BY <1>2 DEF Incr
  <2>2. /\ pc[s] = "reserved" /\ active' \in {active, active + 1}
        /\ leaked' = leaked
    BY <1>2 DEF Incr
  <2>3. N(Past)' = N(Past) + 1 /\ N(Ended)' = N(Ended) /\ N(Counted)' = N(Counted) + 1
    BY <1>c, <2>1, <2>2
  <2>4. QED
    BY <1>d, <2>2, <2>3 DEF CountInv
<1>3. ASSUME NEW s \in Sockets, Expire(s) \/ CatchUp(s) \/ Subscribe(s) \/ Close(s)
      PROVE  CountInv'
  <2>1. PICK next \in {"timed", "listed", "open", "closing", "failed"} :
          Goto(s, next) /\ leaked' = IF next = "failed" THEN leaked + 1 ELSE leaked
    BY <1>3 DEF Expire, CatchUp, Subscribe, Close
  <2>2. pc[s] \in {"counted", "timed", "listed", "open"} /\ active' = active
    BY <1>3 DEF Expire, CatchUp, Subscribe, Close
  <2>3. N(Past)' = N(Past) /\ N(Ended)' = N(Ended) /\ N(Counted)' = IF next = "failed" THEN N(Counted) - 1 ELSE N(Counted)
    BY <1>c, <2>1, <2>2
  <2>4. QED
    BY <1>d, <2>1, <2>2, <2>3 DEF CountInv
<1>4. ASSUME NEW s \in Sockets, Decr(s) PROVE CountInv'
  <2>1. PICK next \in {"zero", "release"} : Goto(s, next)
    BY <1>4 DEF Decr
  <2>2. /\ pc[s] = "closing"
        /\ \/ active' = active - 1 /\ leaked' = leaked
           \/ active' = active /\ leaked' = leaked + 1
    BY <1>4, <1>d DEF Decr
  <2>3. N(Past)' = N(Past) /\ N(Ended)' = N(Ended) + 1 /\ N(Counted)' = N(Counted) - 1
    BY <1>c, <2>1, <2>2
  <2>4. QED
    BY <1>d, <2>2, <2>3 DEF CountInv
<1>5. ASSUME NEW s \in Sockets, DeleteCounter(s) PROVE CountInv'
  <2>1. /\ pc[s] = "zero" /\ Goto(s, "release")
        /\ \/ active' = 0 /\ leaked' = 0
           \/ active' = active /\ leaked' = leaked
    BY <1>5 DEF DeleteCounter
  <2>2. /\ N(Past)' \in Nat /\ N(Ended)' \in Nat /\ N(Counted)' \in Nat
        /\ N(Past)' = N(Past) /\ N(Ended)' = N(Ended) /\ N(Counted)' = N(Counted)
    BY <1>c, <2>1
  <2>3. QED
    BY <1>d, <2>1, <2>2 DEF CountInv
<1>6. ASSUME NEW s \in Sockets, Release(s) PROVE CountInv'
  <2>1. Goto(s, "closed") /\ UNCHANGED <<active, leaked>>
        /\ pc[s] \in {"release", "failed"}
    BY <1>6 DEF Release
  <2>2. N(Past)' = N(Past) /\ N(Ended)' >= N(Ended) /\ N(Counted)' = N(Counted) /\ N(Ended)' \in Nat
    BY <1>c, <2>1
  <2>3. QED
    BY <1>d, <2>1, <2>2 DEF CountInv
<1>7. /\ pc' = pc
      /\ \/ active' = active /\ leaked' = leaked
         \/ active' = 0 /\ leaked' = 0
      => CountInv'
  BY <1>d, <1>f DEF CountInv
<1>8. ASSUME NEW s \in Sockets,
             Ping(s) \/ Read(s) \/ SlotExpires(s) \/ \E m \in Msgs : Ack(s, m)
      PROVE  CountInv'
  <2>1. pc' = pc /\ active' = active /\ leaked' = leaked
    BY <1>8 DEF Ping, Read, SlotExpires, Ack
  <2>2. QED
    BY <1>7, <2>1
<1>9. ASSUME \/ \E m \in Msgs : Insert(m) \/ Publish(m) \/ PublishFails(m)
             \/ \E e \in Web \cup Native : \/ PushSubscribe(e)
                                           \/ PushSubscribeNative(e)
                                           \/ PushUnsubscribe(e)
             \/ CounterExpires \/ CounterLapses \/ AccountDeleted
             \/ UNCHANGED vars
      PROVE  CountInv'
  <2>1. /\ pc' = pc
        /\ \/ active' = active /\ leaked' = leaked
           \/ active' = 0 /\ leaked' = 0
    BY <1>9 DEF Insert, Publish, PublishFails, PushSubscribe, PushSubscribeNative,
                Subscription, PushUnsubscribe, CounterExpires, CounterLapses,
                AccountDeleted, vars
  <2>2. QED
    BY <1>7, <2>1
<1>10. ASSUME Crash PROVE CountInv'
  <2>1. active' = active /\ leaked' = leaked + N(Counted)
    BY <1>10 DEF Crash, N
  <2>2. /\ In(Past) \subseteq In(Past)' /\ In(Ended) \subseteq In(Ended)'
        /\ In(Counted)' = {}
    BY <1>10 DEF Crash, In
  <2>3. IsFiniteSet(In(Past)') /\ IsFiniteSet(In(Ended)')
    BY InboxSets, FS_Subset DEF In
  <2>4. N(Past)' >= N(Past) /\ N(Past)' \in Nat /\ N(Ended)' >= N(Ended) /\ N(Ended)' \in Nat /\ N(Counted)' = 0
    BY <2>2, <2>3, FS_Subset, FS_CardinalityType, FS_EmptySet DEF N
  <2>5. QED
    BY <1>d, <2>1, <2>4 DEF CountInv
<1>11. QED
  BY <1>1, <1>2, <1>3, <1>4, <1>5, <1>6, <1>8, <1>9, <1>10 DEF Next

----------------------------------------------------------------------------
(* What a step may do to each part of the state.                            *)
(* The pending messages: a new one is appended, one is acknowledged, or the *)
(* account is deleted.                                                      *)
LEMMA QueueMoves ==
    [Next]_vars => \/ UNCHANGED <<inbox, sent>>
                   \/ inbox' = <<>> /\ sent' = sent
                   \/ \E m \in Msgs : Insert(m)
                   \/ /\ \E i \in DOMAIN inbox : inbox' = RemoveAt(inbox, i)
                      /\ sent' = sent
BY DEF Next, vars, frames, limits, online, Reserve, RollBack, AcceptFails, Incr,
       Expire, CatchUp, Ping, Subscribe, Read, Close, Decr, DeleteCounter, Release,
       SlotExpires, Ack, PushSubscribe, PushSubscribeNative, Subscription,
       PushUnsubscribe, Crash, CounterExpires, CounterLapses, AccountDeleted,
       Publish, PublishFails

(* What a sender has still to publish: only the publication takes a message *)
(* from it that is not marked as silent.                                    *)
LEMMA PostMoves ==
    ASSUME [Next]_vars
    PROVE  \/ UNCHANGED post
           \/ \E m \in Msgs : Insert(m) \/ Publish(m)
           \/ /\ posting' \subseteq posting /\ sent' = sent
              /\ posting' \cup silent' = posting \cup silent
<1>1. ASSUME NEW m \in Msgs, PublishFails(m)
      PROVE  /\ posting' \subseteq posting /\ sent' = sent
             /\ posting' \cup silent' = posting \cup silent
  BY <1>1 DEF PublishFails
<1>2. ASSUME Crash
      PROVE  /\ posting' \subseteq posting /\ sent' = sent
             /\ posting' \cup silent' = posting \cup silent
  BY <1>2 DEF Crash
<1>3. \/ UNCHANGED post \/ Crash
      \/ \E m \in Msgs : Insert(m) \/ Publish(m) \/ PublishFails(m)
  BY DEF Next, vars, Reserve, RollBack, AcceptFails, Incr, Expire, CatchUp, Ping,
         Subscribe, Read, Close, Decr, DeleteCounter, Release, SlotExpires, Ack,
         PushSubscribe, PushSubscribeNative, Subscription, PushUnsubscribe,
         CounterExpires, CounterLapses, AccountDeleted
<1>4. QED
  BY <1>1, <1>2, <1>3

(* The frames of the sockets: apart from publication, only the socket that   *)
(* moves is touched, and what it hears is pending.                          *)
LEMMA FrameMoves ==
    ASSUME [Next]_vars
    PROVE  \/ UNCHANGED <<pc, events, heard, gap, cut>>
           \/ \E m \in Msgs : Publish(m)
           \/ Crash
           \/ \E s \in Sockets : CatchUp(s) \/ Read(s) \/ Close(s)
           \/ /\ UNCHANGED <<inbox, events, heard, gap, cut>>
              /\ \E s \in Sockets, next \in Labels :
                   /\ Goto(s, next) /\ pc[s] # "open" /\ next # "listed"
                   /\ next = "open" => pc[s] = "listed"
<1>1. ASSUME NEW s \in Sockets, Reserve(s) \/ RollBack(s) \/ AcceptFails(s) \/ Incr(s)
      PROVE  /\ UNCHANGED <<inbox, events, heard, gap, cut>> /\ pc[s] # "open"
             /\ \E next \in Labels \ {"listed", "open"} : Goto(s, next)
  BY <1>1 DEF Reserve, RollBack, AcceptFails, Incr, frames, Labels, Admitted,
              Counted, Serving, Refreshing
<1>2. ASSUME NEW s \in Sockets, Expire(s) \/ Decr(s) \/ DeleteCounter(s) \/ Release(s)
      PROVE  /\ UNCHANGED <<inbox, events, heard, gap, cut>> /\ pc[s] # "open"
             /\ \E next \in Labels \ {"listed", "open"} : Goto(s, next)
  BY <1>2 DEF Expire, Decr, DeleteCounter, Release, frames, Labels, Admitted,
              Counted, Serving, Refreshing
<1>3. ASSUME NEW s \in Sockets, Subscribe(s)
      PROVE  /\ UNCHANGED <<inbox, events, heard, gap, cut>> /\ pc[s] = "listed"
             /\ \E next \in Labels \ {"listed"} : Goto(s, next)
  BY <1>3 DEF Subscribe, GiveUp, frames, Labels, Admitted, Counted, Serving, Refreshing
<1>4. ASSUME NEW s \in Sockets,
             Ping(s) \/ SlotExpires(s) \/ \E m \in Msgs : Ack(s, m)
      PROVE  UNCHANGED <<pc, events, heard, gap, cut>>
  BY <1>4 DEF Ping, SlotExpires, Ack, frames
<1>5. ASSUME \/ \E e \in Web \cup Native : \/ PushSubscribe(e)
                                           \/ PushSubscribeNative(e)
                                           \/ PushUnsubscribe(e)
             \/ CounterExpires \/ CounterLapses \/ AccountDeleted
             \/ \E m \in Msgs : Insert(m) \/ PublishFails(m)
             \/ UNCHANGED vars
      PROVE  UNCHANGED <<pc, events, heard, gap, cut>>
  BY <1>5 DEF PushSubscribe, PushSubscribeNative, Subscription, PushUnsubscribe,
              CounterExpires, CounterLapses, AccountDeleted, Insert, PublishFails,
              vars, frames
<1>6. QED
  BY <1>1, <1>2, <1>3, <1>4, <1>5 DEF Next

(* The rest of the state, whose type no other part is needed for.           *)
LEMMA CounterMoves ==
    ASSUME [Next]_vars, slots \subseteq Sockets, unslotted \subseteq Sockets,
           faults \in 0 .. MaxFaults, key \in {"none", "bare", "dated"},
           key = "none" => active = 0, undated \in BOOLEAN,
           subs \subseteq Web \cup Native
    PROVE  /\ slots' \subseteq Sockets /\ unslotted' \subseteq Sockets
           /\ faults' \in 0 .. MaxFaults /\ key' \in {"none", "bare", "dated"}
           /\ key' = "none" => active' = 0
           /\ undated' \in BOOLEAN /\ subs' \subseteq Web \cup Native
<1>1. ASSUME NEW s \in Sockets, \/ Reserve(s) \/ RollBack(s) \/ AcceptFails(s)
                                \/ Ping(s) \/ SlotExpires(s) \/ Release(s)
      PROVE  /\ slots' \subseteq Sockets /\ unslotted' \subseteq Sockets
             /\ faults' \in {faults, faults + 1} /\ (faults' # faults => faults < MaxFaults)
             /\ UNCHANGED <<active, undated, subs>>
             /\ key' = key \/ key' = Dated
  BY <1>1 DEF Reserve, RollBack, AcceptFails, Ping, SlotExpires, Release, Works,
              Fails, limits, online
<1>2. ASSUME NEW s \in Sockets, \/ Incr(s) \/ Expire(s) \/ CatchUp(s) \/ Subscribe(s)
                                \/ Decr(s) \/ DeleteCounter(s)
      PROVE  /\ UNCHANGED <<slots, unslotted, subs>>
             /\ faults' \in {faults, faults + 1} /\ (faults' # faults => faults < MaxFaults)
             /\ undated' = undated \/ undated' = TRUE
             /\ \/ active' = active /\ key' \in {key, Dated}
                \/ key' = Existing
                \/ active' = 0 /\ key' = "none"
  BY <1>2 DEF Incr, Expire, CatchUp, Subscribe, Decr, DeleteCounter, GiveUp, Count,
              NoCounter, Works, Fails, limits, online
<1>3. ASSUME NEW s \in Sockets, Read(s) \/ Close(s) \/ \E m \in Msgs : Ack(s, m)
      PROVE  /\ UNCHANGED <<slots, unslotted, subs, faults, undated>>
             /\ \/ active' = active /\ key' = key
                \/ active' = 0 /\ key' = "none"
  BY <1>3 DEF Read, Close, Ack, NoCounter, limits, online
<1>4. ASSUME \/ \E m \in Msgs : Insert(m) \/ Publish(m) \/ PublishFails(m)
             \/ CounterExpires \/ CounterLapses \/ AccountDeleted
             \/ UNCHANGED vars
      PROVE  /\ UNCHANGED <<slots, unslotted, undated>>
             /\ faults' \in {faults, faults + 1} /\ (faults' # faults => faults < MaxFaults)
             /\ subs' = subs \/ subs' = {}
             /\ \/ active' = active /\ key' = key
                \/ active' = 0 /\ key' = "none"
  BY <1>4 DEF Insert, Publish, PublishFails, CounterExpires, CounterLapses,
              AccountDeleted, NoCounter, Works, Fails, limits, online, vars
<1>5. ASSUME NEW e \in Web \cup Native, \/ PushSubscribe(e) \/ PushUnsubscribe(e)
                                        \/ PushSubscribeNative(e)
      PROVE  /\ UNCHANGED <<slots, unslotted, faults, undated, active, key>>
             /\ subs' \subseteq Web \cup Native
  BY <1>5 DEF PushSubscribe, PushSubscribeNative, Subscription, PushUnsubscribe,
              limits, online
<1>6. ASSUME Crash
      PROVE  /\ UNCHANGED <<slots, unslotted, subs, active, key>>
             /\ faults' = faults + 1 /\ faults < MaxFaults
             /\ undated' = (undated \/ In({"counted"}) # {})
  BY <1>6 DEF Crash, Fails, limits
<1>7. ASSUME NEW f \in 0 .. MaxFaults, f < MaxFaults PROVE f + 1 \in 0 .. MaxFaults
  BY <1>7, InboxNumbers
<1>8. /\ Dated \in {"none", "bare", "dated"} /\ Existing \in {"none", "bare", "dated"}
      /\ Existing # "none" /\ (Dated = "none" => key = "none")
  BY DEF Dated, Existing
<1>9. /\ slots' \subseteq Sockets /\ unslotted' \subseteq Sockets
      /\ subs' \subseteq Web \cup Native
  BY <1>1, <1>2, <1>3, <1>4, <1>5, <1>6 DEF Next
<1>10. faults' = faults \/ (faults' = faults + 1 /\ faults < MaxFaults)
  BY <1>1, <1>2, <1>3, <1>4, <1>5, <1>6 DEF Next
<1>11. \/ active' = active /\ key' \in {key, Dated}
       \/ key' = Existing
       \/ active' = 0 /\ key' = "none"
  BY <1>1, <1>2, <1>3, <1>4, <1>5, <1>6 DEF Next
<1>12. undated' \in BOOLEAN
  <2>1. \/ undated' = undated \/ undated' = TRUE
        \/ undated' = (undated \/ In({"counted"}) # {})
    BY <1>1, <1>2, <1>3, <1>4, <1>5, <1>6 DEF Next
  <2>2. QED
    BY <2>1
<1>13. key' \in {"none", "bare", "dated"} /\ (key' = "none" => active' = 0)
  BY <1>8, <1>11
<1>14. faults' \in 0 .. MaxFaults
  BY <1>7, <1>10
<1>15. QED
  BY <1>9, <1>12, <1>13, <1>14

----------------------------------------------------------------------------
(* The type invariant.  The bounds of the counter are those of CountInv.    *)
(* What the sockets and their frames look like.                             *)
FrameOK ==
    /\ pc \in [Sockets -> Labels] /\ events \in [Sockets -> Seq(Msgs)]
    /\ \A s \in Sockets : events[s] # <<>> => pc[s] = "open"
    /\ heard \in [Sockets -> SUBSET sent]
    /\ gap \in [Sockets -> SUBSET sent] /\ cut \in [Sockets -> SUBSET sent]
QueueOK ==
    /\ inbox \in Seq(Msgs) /\ sent \subseteq Msgs
    /\ ToSet(inbox) \subseteq sent /\ Distinct(inbox)
    /\ posting \subseteq sent /\ silent \subseteq sent

(* Every step keeps the pending messages a queue without repetition, which  *)
(* only an insertion extends.                                               *)
LEMMA QueueStep ==
    ASSUME QueueOK, [Next]_vars
    PROVE  /\ QueueOK' /\ sent \subseteq sent'
           /\ (\E m \in Msgs : Insert(m)) \/ ToSet(inbox') \subseteq ToSet(inbox)
<1> DEFINE Pending == /\ inbox \in Seq(Msgs) /\ sent \subseteq Msgs
                      /\ ToSet(inbox) \subseteq sent /\ Distinct(inbox)
<1>a. Pending /\ posting \subseteq sent /\ silent \subseteq sent
  BY DEF QueueOK
<1>1. CASE UNCHANGED <<inbox, sent>>
  <2>1. Pending' /\ sent' = sent /\ ToSet(inbox') = ToSet(inbox)
    BY <1>a, <1>1 DEF Distinct
  <2>2. ~ \E m \in Msgs : Insert(m)
    BY <1>a, <1>1 DEF Insert
  <2>3. QED
    BY <1>a, <2>1, <2>2, PostMoves DEF QueueOK, Publish, post
<1>2. CASE inbox' = <<>> /\ sent' = sent
  <2>1. <<>> \in Seq(Msgs) /\ ToSet(<<>>) = {} /\ Distinct(<<>>)
    BY DEF ToSet, Distinct
  <2>2. Pending' /\ sent' = sent /\ ToSet(inbox') \subseteq ToSet(inbox)
    BY <1>a, <1>2, <2>1 DEF Distinct
  <2>3. ~ \E m \in Msgs : Insert(m)
    BY <1>a, <1>2 DEF Insert
  <2>4. QED
    BY <1>a, <2>2, <2>3, PostMoves DEF QueueOK, Publish, post
<1>3. ASSUME NEW m \in Msgs, Insert(m) PROVE QueueOK' /\ sent \subseteq sent'
  <2>1. /\ m \notin sent /\ sent' = sent \cup {m} /\ inbox' = Append(inbox, m)
        /\ posting' = posting \cup {m} /\ silent' = silent
    BY <1>3 DEF Insert
  <2>2. inbox' \in Seq(Msgs) /\ ToSet(inbox') = ToSet(inbox) \cup {m}
    BY <1>a, <2>1, AppendSet
  <2>3. Distinct(inbox')
    BY <1>a, <2>1, AppendDistinct
  <2>4. QED
    BY <1>a, <2>1, <2>2, <2>3 DEF QueueOK
<1>4. ASSUME NEW i \in DOMAIN inbox, inbox' = RemoveAt(inbox, i), sent' = sent
      PROVE  QueueOK' /\ ToSet(inbox') \subseteq ToSet(inbox)
  <2>1. /\ inbox' \in Seq(Msgs) /\ ToSet(inbox') \subseteq ToSet(inbox)
        /\ Distinct(inbox')
    BY <1>a, <1>4, RemoveAtProperties
  <2>2. ~ \E m \in Msgs : Insert(m)
    BY <1>a, <1>4 DEF Insert
  <2>3. QED
    BY <1>a, <1>4, <2>1, <2>2, PostMoves DEF QueueOK, Publish, post
<1>5. QED
  BY <1>1, <1>2, <1>3, <1>4, QueueMoves

(* Every step keeps the events and the frames of the sockets well-formed.   *)
LEMMA FrameStep ==
    ASSUME QueueOK, FrameOK, [Next]_vars
    PROVE  FrameOK'
<1>a. QueueOK' /\ sent \subseteq sent'
  BY QueueStep
<1>b. /\ inbox \in Seq(Msgs) /\ ToSet(inbox) \subseteq sent
      /\ pc \in [Sockets -> Labels] /\ events \in [Sockets -> Seq(Msgs)]
      /\ heard \in [Sockets -> SUBSET sent]
      /\ gap \in [Sockets -> SUBSET sent] /\ cut \in [Sockets -> SUBSET sent]
      /\ \A s \in Sockets : events[s] # <<>> => pc[s] = "open"
  BY DEF QueueOK, FrameOK
<1>1. CASE UNCHANGED <<pc, events, heard, gap, cut>>
  BY <1>1, <1>a, <1>b DEF FrameOK
<1>2. ASSUME NEW m \in Msgs, Publish(m) PROVE FrameOK'
  <2>1. \A s \in Sockets : Append(events[s], m) \in Seq(Msgs)
    BY <1>b, AppendSet
  <2>2. events' \in [Sockets -> Seq(Msgs)] /\ pc' = pc /\ heard' = heard /\ cut' = cut
    BY <1>2, <1>b, <2>1 DEF Publish, Subscribed
  <2>3. \A s \in Sockets : events'[s] # <<>> => pc[s] = "open"
    BY <1>2, <1>b DEF Publish, Subscribed
  <2>4. gap' \in [Sockets -> SUBSET sent']
    BY <1>2, <1>a, <1>b DEF Publish, QueueOK
  <2>5. QED
    BY <1>a, <1>b, <2>2, <2>3, <2>4 DEF FrameOK
<1>3. CASE Crash
  <2>1. /\ pc' \in [Sockets -> Labels] /\ events' \in [Sockets -> Seq(Msgs)]
        /\ \A s \in Sockets : events'[s] = <<>>
        /\ heard' \in [Sockets -> SUBSET sent'] /\ gap' \in [Sockets -> SUBSET sent']
        /\ cut' \in [Sockets -> SUBSET sent']
    BY <1>3, <1>b DEF Crash, Labels
  <2>2. QED
    BY <1>a, <1>b, <2>1 DEF FrameOK
<1>4. ASSUME NEW s \in Sockets, CatchUp(s) PROVE FrameOK'
  <2>1. /\ events' = events /\ gap' = gap /\ pc[s] = "timed"
        /\ \E next \in {"listed", "failed"} : Goto(s, next)
    BY <1>4 DEF CatchUp, GiveUp
  <2>2. /\ pc' \in [Sockets -> Labels] /\ events[s] = <<>>
        /\ \A t \in Sockets : events'[t] # <<>> => pc'[t] = "open"
    BY <1>b, <2>1 DEF Goto, Labels, Admitted, Counted, Serving, Refreshing
  <2>3. CASE UNCHANGED <<heard, cut>>
    BY <1>a, <1>b, <2>1, <2>2, <2>3 DEF FrameOK
  <2>4. ASSUME NEW n \in 0 .. Len(inbox),
               heard' = [heard EXCEPT ![s] = ToSet(SubSeq(inbox, 1, n))],
               cut' = [cut EXCEPT ![s] = ToSet(SubSeq(inbox, n + 1, Len(inbox)))]
        PROVE  FrameOK'
    <3>1. ToSet(SubSeq(inbox, 1, n)) \cup ToSet(SubSeq(inbox, n + 1, Len(inbox)))
            = ToSet(inbox)
      BY <1>b, SplitSet
    <3>2. heard' \in [Sockets -> SUBSET sent'] /\ cut' \in [Sockets -> SUBSET sent']
      BY <1>a, <1>b, <2>4, <3>1
    <3>3. QED
      BY <1>a, <1>b, <2>1, <2>2, <3>2 DEF FrameOK
  <2>5. \/ UNCHANGED <<heard, cut>>
        \/ \E n \in 0 .. Len(inbox) :
             /\ heard' = [heard EXCEPT ![s] = ToSet(SubSeq(inbox, 1, n))]
             /\ cut' = [cut EXCEPT ![s] = ToSet(SubSeq(inbox, n + 1, Len(inbox)))]
    <3>1. Len(inbox) \in Nat
      BY <1>b, LenProperties
    <3>2. (IF Len(inbox) < CatchUpMax THEN Len(inbox) ELSE CatchUpMax) \in 0 .. Len(inbox)
      BY <3>1, InboxNumbers
    <3>3. QED
      BY <1>4, <3>2 DEF CatchUp
  <2>6. QED
    BY <2>3, <2>4, <2>5
<1>5. ASSUME NEW s \in Sockets, Read(s) PROVE FrameOK'
  <2>1. Tail(events[s]) \in Seq(Msgs)
    BY <1>5, <1>b, TailSet DEF Read
  <2>2. /\ events' = [events EXCEPT ![s] = Tail(@)] /\ pc[s] = "open"
        /\ UNCHANGED <<pc, gap, cut>>
        /\ heard' = [heard EXCEPT ![s] = @ \cup ({Head(events[s])} \cap ToSet(inbox))]
    BY <1>5 DEF Read
  <2>3. events' \in [Sockets -> Seq(Msgs)] /\ heard' \in [Sockets -> SUBSET sent']
    BY <1>a, <1>b, <2>1, <2>2
  <2>4. \A t \in Sockets : events'[t] # <<>> => pc'[t] = "open"
    BY <1>b, <2>2
  <2>5. QED
    BY <1>a, <1>b, <2>2, <2>3, <2>4 DEF FrameOK
<1>6. ASSUME NEW s \in Sockets, Close(s) PROVE FrameOK'
  <2>1. /\ events' = [events EXCEPT ![s] = <<>>] /\ Goto(s, "closing")
        /\ heard' = [heard EXCEPT ![s] = {}] /\ gap' = [gap EXCEPT ![s] = {}]
        /\ cut' = [cut EXCEPT ![s] = {}]
    BY <1>6 DEF Close
  <2>2. /\ events' \in [Sockets -> Seq(Msgs)] /\ pc' \in [Sockets -> Labels]
        /\ \A t \in Sockets : events'[t] # <<>> => pc'[t] = "open"
    BY <1>b, <2>1 DEF Goto, Labels, Admitted, Counted
  <2>3. QED
    BY <1>a, <1>b, <2>1, <2>2 DEF FrameOK
<1>7. ASSUME UNCHANGED <<inbox, events, heard, gap, cut>>, NEW s \in Sockets,
             NEW next \in Labels, Goto(s, next), pc[s] # "open"
      PROVE  FrameOK'
  <2>1. /\ pc' \in [Sockets -> Labels] /\ events[s] = <<>>
        /\ \A t \in Sockets : events'[t] # <<>> => pc'[t] = "open"
    BY <1>b, <1>7 DEF Goto
  <2>2. QED
    BY <1>a, <1>b, <1>7, <2>1 DEF FrameOK
<1>8. QED
  BY <1>1, <1>2, <1>3, <1>4, <1>5, <1>6, <1>7, FrameMoves

(* What TypeOK needs to be inductive: that the messages of the inbox are    *)
(* distinct, and the bounds of the counter.                                 *)
TypeInv == TypeOK /\ Distinct(inbox) /\ CountInv

(* The invariant holds at first.                                            *)
LEMMA TypeInvInit == Init => TypeInv
<1> SUFFICES ASSUME Init PROVE TypeInv
  OBVIOUS
<1>1. /\ In(Past) = {} /\ In(Ended) = {} /\ In(Counted) = {}
  BY DEF Init, In, Past, Ended, Counted, Serving, Refreshing
<1>2. N(Past) = 0 /\ N(Ended) = 0 /\ N(Counted) = 0
  BY <1>1, FS_EmptySet DEF N
<1>3. CountInv
  BY <1>2 DEF CountInv, Init
<1>4. <<>> \in Seq(Msgs) /\ ToSet(<<>>) = {} /\ Distinct(<<>>) /\ Len(<<>>) = 0
  BY DEF ToSet, Distinct
<1>5. Cardinality(Sockets) \in Nat /\ Cardinality({}) = 0
  BY InboxSets, FS_CardinalityType, FS_EmptySet
<1>6. TypeOK
  <2>1. pc \in [Sockets -> Admitted \cup {"new", "over", "closed"}]
    BY DEF Init
  <2>2. active \in -Cardinality(Sockets) .. Cardinality(Sockets)
    BY <1>5 DEF Init
  <2>3. faults \in 0 .. MaxFaults /\ leaked \in Nat
    BY InboxNumbers DEF Init
  <2>4. inbox \in Seq(Msgs) /\ ToSet(inbox) \subseteq sent /\ Len(inbox) = Cardinality(ToSet(inbox))
    BY <1>4, <1>5 DEF Init
  <2>5. QED
    BY <1>4, <2>1, <2>2, <2>3, <2>4 DEF Init, TypeOK
<1>7. QED
  BY <1>3, <1>4, <1>6 DEF TypeInv, Init

(* Every step keeps it.                                                     *)
LEMMA TypeStep == TypeInv /\ [Next]_vars => TypeInv'
<1> SUFFICES ASSUME TypeInv, [Next]_vars PROVE TypeInv'
  OBVIOUS
<1>1. QueueOK /\ FrameOK /\ CountInv
  BY DEF TypeInv, TypeOK, QueueOK, FrameOK, Labels
<1>2. QueueOK' /\ FrameOK' /\ CountInv'
  BY <1>1, QueueStep, FrameStep, CountStep DEF FrameOK
<1>3. /\ slots' \subseteq Sockets /\ unslotted' \subseteq Sockets
      /\ faults' \in 0 .. MaxFaults /\ key' \in {"none", "bare", "dated"}
      /\ key' = "none" => active' = 0
      /\ undated' \in BOOLEAN /\ subs' \subseteq Web \cup Native
  <2>1. /\ slots \subseteq Sockets /\ unslotted \subseteq Sockets
        /\ faults \in 0 .. MaxFaults /\ key \in {"none", "bare", "dated"}
        /\ key = "none" => active = 0
        /\ undated \in BOOLEAN /\ subs \subseteq Web \cup Native
    BY DEF TypeInv, TypeOK
  <2>2. QED
    BY <2>1, CounterMoves
<1>4. Len(inbox') = Cardinality(ToSet(inbox'))
  BY <1>2, DistinctCount DEF QueueOK
<1>5. active' \in -Cardinality(Sockets) .. Cardinality(Sockets)
  <2>1. /\ IsFiniteSet(Sockets) /\ In(Past)' \subseteq Sockets
        /\ In(Ended)' \subseteq Sockets
    BY InboxSets DEF In
  <2>2. /\ N(Past)' <= Cardinality(Sockets) /\ N(Ended)' <= Cardinality(Sockets)
        /\ N(Past)' \in Nat /\ N(Ended)' \in Nat /\ Cardinality(Sockets) \in Nat
    BY <2>1, FS_Subset, FS_CardinalityType DEF N
  <2>3. active' \in Int /\ active' <= N(Past)' /\ 0 <= active' + N(Ended)'
    BY <1>2 DEF CountInv
  <2>4. QED
    BY <2>2, <2>3
<1>6. leaked' \in Nat
  BY <1>2 DEF CountInv
<1>7. TypeOK'
  BY <1>2, <1>3, <1>4, <1>5, <1>6 DEF TypeOK, QueueOK, FrameOK, Labels
<1>8. QED
  BY <1>2, <1>7 DEF TypeInv, QueueOK

(* It always holds.                                                         *)
LEMMA TypeInvHolds == Spec => []TypeInv
BY TypeInvInit, TypeStep, PTL DEF Spec

(* The handshake, the counter and the frames of any number of sockets keep  *)
(* their types; in particular the counter stays within the number of        *)
(* sockets, however INCR, DECR, DEL and expiry interleave.                  *)
THEOREM InboxTypeCorrect == Spec => []TypeOK
<1>1. TypeInv => TypeOK
  BY DEF TypeInv
<1>2. QED
  BY <1>1, TypeInvHolds, PTL

(* No push notification is skipped for sockets that closed cleanly: the     *)
(* counter is above zero only for sockets still counted and for those whose *)
(* decrement was lost (inbox.py, the finally block).                        *)
THEOREM OnlineIsEarnedHolds == Spec => []OnlineIsEarned
<1>1. TypeInv => OnlineIsEarned
  BY DEF TypeInv, CountInv, OnlineIsEarned, N
<1>2. QED
  BY <1>1, TypeInvHolds, PTL

----------------------------------------------------------------------------
(* The limit on parallel sockets: whoever got in with a slot and has not    *)
(* lost it still has it, so the reservation that counts the slots counts    *)
(* every such socket.                                                       *)
Seated == In(Admitted) \ unslotted
SlotInv == Seated \subseteq slots /\ SlotCap

(* Steps that let nobody in, and take the slot only from a socket they      *)
(* close.                                                                   *)
LEMMA NobodyEnters ==
    ASSUME SlotInv, Seated' \subseteq Seated, Seated' \subseteq slots'
    PROVE  SlotInv'
<1>1. IsFiniteSet(Seated)
  BY InboxSets, FS_Subset DEF Seated, In
<1>2. /\ Cardinality(Seated') <= Cardinality(Seated) /\ Cardinality(Seated) \in Nat
      /\ Cardinality(Seated') \in Nat
  BY <1>1, FS_Subset, FS_CardinalityType
<1>3. Cardinality(Seated) <= Limit
  BY DEF SlotInv, SlotCap, Seated
<1>4. Cardinality(Seated') <= Limit
  BY <1>2, <1>3, InboxNumbers
<1>5. QED
  BY <1>4 DEF SlotInv, SlotCap, Seated

(* Every step leaves whoever got in with a slot that slot, and no more of   *)
(* them than the limit.                                                     *)
LEMMA SlotStep == TypeInv /\ SlotInv /\ [Next]_vars => SlotInv'
<1> SUFFICES ASSUME TypeInv, SlotInv, [Next]_vars PROVE SlotInv'
  OBVIOUS
<1>a. /\ pc \in [Sockets -> Labels] /\ slots \subseteq Sockets /\ Seated \subseteq slots
      /\ Seated = {s \in Sockets : pc[s] \in Admitted /\ s \notin unslotted}
      /\ Seated' = {s \in Sockets : pc'[s] \in Admitted /\ s \notin unslotted'}
  BY DEF TypeInv, TypeOK, Labels, SlotInv, Seated, In
<1>b. /\ \A l \in {"new", "over", "closed"} : l \notin Admitted
      /\ \A l \in {"reserved", "counted", "timed", "listed", "open", "closing",
                   "failed", "zero", "release"} : l \in Admitted
  BY DEF Admitted, Counted, Serving, Refreshing
<1>1. ASSUME NEW s \in Sockets, Reserve(s) PROVE SlotInv'
  <2>1. CASE slots' = slots \cup {s} /\ unslotted' = unslotted /\ Goto(s, "over")
    <3>1. Seated' \subseteq Seated
      BY <1>a, <1>b, <2>1 DEF Goto
    <3>2. QED
      BY <1>a, <2>1, <3>1, NobodyEnters
  <2>2. CASE /\ slots' = slots \cup {s} /\ unslotted' = unslotted
             /\ Goto(s, "reserved") /\ ~(CountAfter(s) > Limit)
    <3>1. Seated' \subseteq slots'
      BY <1>a, <2>2 DEF Goto
    <3>2. IsFiniteSet(slots')
      BY <1>a, <2>2, InboxSets, FS_Subset
    <3>3. /\ Cardinality(Seated') <= Cardinality(slots')
          /\ Cardinality(Seated') \in Nat /\ Cardinality(slots') \in Nat
      BY <3>1, <3>2, FS_Subset, FS_CardinalityType
    <3>4. ~(Cardinality(slots') > Limit)
      BY <2>2 DEF CountAfter
    <3>5. Cardinality(Seated') <= Limit
      BY <3>3, <3>4, InboxNumbers
    <3>6. QED
      BY <3>1, <3>5 DEF SlotInv, SlotCap, Seated
  <2>3. CASE /\ slots' \in {slots, slots \cup {s}} /\ unslotted' = unslotted \cup {s}
             /\ Goto(s, "reserved")
    <3>1. Seated' \subseteq Seated
      BY <1>a, <2>3 DEF Goto
    <3>2. QED
      BY <1>a, <2>3, <3>1, NobodyEnters
  <2>4. QED
    BY <1>1, <2>1, <2>2, <2>3 DEF Reserve
<1>2. ASSUME NEW s \in Sockets, RollBack(s) \/ AcceptFails(s) \/ Release(s)
      PROVE  SlotInv'
  <2>1. /\ Goto(s, "closed") /\ slots \ {s} \subseteq slots' /\ unslotted' = unslotted
    BY <1>2 DEF RollBack, AcceptFails, Release, limits
  <2>2. Seated' \subseteq Seated \ {s}
    BY <1>a, <1>b, <2>1 DEF Goto
  <2>3. QED
    BY <1>a, <2>1, <2>2, NobodyEnters
<1>3. ASSUME NEW s \in Sockets, \/ Incr(s) \/ Expire(s) \/ CatchUp(s) \/ Subscribe(s)
                                \/ Close(s) \/ Decr(s) \/ DeleteCounter(s)
      PROVE  SlotInv'
  <2>1. /\ slots' = slots /\ unslotted' = unslotted
        /\ pc[s] \in {"reserved", "counted", "timed", "listed", "open", "closing",
                      "failed", "zero", "release"}
        /\ \E next \in Labels : Goto(s, next)
    BY <1>3 DEF Incr, Expire, CatchUp, Subscribe, Close, Decr, DeleteCounter, GiveUp,
                limits, Labels, Admitted, Counted, Serving, Refreshing
  <2>2. Seated' \subseteq Seated
    BY <1>a, <1>b, <2>1 DEF Goto
  <2>3. QED
    BY <1>a, <2>1, <2>2, NobodyEnters
<1>4. ASSUME NEW s \in Sockets, \/ Ping(s) \/ Read(s) \/ SlotExpires(s)
                                \/ \E m \in Msgs : Ack(s, m)
      PROVE  SlotInv'
  <2>1. /\ pc' = pc
        /\ \/ slots \subseteq slots' /\ unslotted' = unslotted
           \/ slots' = slots \ {s} /\ pc[s] = "closed" /\ unslotted' = unslotted
           \/ slots' = slots \ {s} /\ unslotted' = unslotted \cup {s}
    BY <1>4 DEF Ping, Read, SlotExpires, Ack, limits
  <2>2. Seated' \subseteq Seated /\ Seated' \subseteq slots'
    BY <1>a, <1>b, <2>1
  <2>3. QED
    BY <2>2, NobodyEnters
<1>5. ASSUME \/ \E m \in Msgs : Insert(m) \/ Publish(m) \/ PublishFails(m)
             \/ \E e \in Web \cup Native : \/ PushSubscribe(e)
                                           \/ PushSubscribeNative(e)
                                           \/ PushUnsubscribe(e)
             \/ CounterExpires \/ CounterLapses \/ AccountDeleted
             \/ UNCHANGED vars
      PROVE  SlotInv'
  <2>1. pc' = pc /\ slots' = slots /\ unslotted' = unslotted
    BY <1>5 DEF Insert, Publish, PublishFails, PushSubscribe, PushSubscribeNative,
                Subscription, PushUnsubscribe, CounterExpires, CounterLapses,
                AccountDeleted, vars, limits
  <2>2. Seated' = Seated
    BY <1>a, <2>1
  <2>3. QED
    BY <1>a, <2>1, <2>2, NobodyEnters
<1>6. ASSUME Crash PROVE SlotInv'
  <2>1. Seated' = {}
    BY <1>6, <1>a, <1>b DEF Crash, limits
  <2>2. QED
    BY <2>1, NobodyEnters
<1>7. QED
  BY <1>1, <1>2, <1>3, <1>4, <1>5, <1>6 DEF Next

(* At most Limit sockets of a user are served, but for those let in while   *)
(* Redis failed and live ones whose slot expired unrefreshed: ZADD before   *)
(* ZCARD makes racing handshakes count each other.                          *)
THEOREM SlotCapHolds == Spec => []SlotCap
<1>1. Init => SlotInv
  <2> SUFFICES ASSUME Init PROVE SlotInv
    OBVIOUS
  <2>1. Seated = {}
    BY DEF Init, Seated, In, Admitted, Counted, Serving, Refreshing
  <2>2. Cardinality(Seated) = 0
    BY <2>1, FS_EmptySet
  <2>3. Cardinality(Seated) <= Limit
    BY <2>2, InboxNumbers
  <2>4. QED
    BY <2>1, <2>3 DEF SlotInv, SlotCap, Seated
<1>2. SlotInv => SlotCap
  BY DEF SlotInv
<1>3. QED
  BY <1>1, <1>2, SlotStep, TypeInvHolds, PTL DEF Spec

----------------------------------------------------------------------------
(* The frames: from its catch-up frame on, a socket accounts for every      *)
(* pending message.                                                         *)
Accounted(s) ==
    heard[s] \cup ToSet(events[s]) \cup gap[s] \cup cut[s] \cup posting \cup silent
HearInv == \A s \in In({"listed", "open"}) : ToSet(inbox) \subseteq Accounted(s)

(* Every step keeps what an open socket has missed within the named         *)
(* exceptions.                                                              *)
LEMMA HearStep == TypeInv /\ HearInv /\ [Next]_vars => HearInv'
<1> SUFFICES ASSUME TypeInv, HearInv, [Next]_vars,
                    NEW s \in Sockets, pc'[s] \in {"listed", "open"}
             PROVE  ToSet(inbox') \subseteq Accounted(s)'
  BY DEF HearInv, In
<1>a. QueueOK /\ FrameOK
  BY DEF TypeInv, TypeOK, QueueOK, FrameOK, Labels
<1>b. /\ inbox \in Seq(Msgs) /\ pc \in [Sockets -> Labels]
      /\ events \in [Sockets -> Seq(Msgs)]
      /\ heard \in [Sockets -> SUBSET sent]
      /\ gap \in [Sockets -> SUBSET sent] /\ cut \in [Sockets -> SUBSET sent]
  BY <1>a DEF QueueOK, FrameOK
<1>c. (\E m \in Msgs : Insert(m)) \/ ToSet(inbox') \subseteq ToSet(inbox)
  BY <1>a, QueueStep
<1>e. \/ \E m \in Msgs : Publish(m)
      \/ posting \cup silent \subseteq posting' \cup silent'
  BY PostMoves DEF Insert, post
<1>d. pc[s] \in {"listed", "open"} => ToSet(inbox) \subseteq Accounted(s)
  BY DEF HearInv, In
<1>1. ASSUME NEW m \in Msgs, Insert(m) PROVE ToSet(inbox') \subseteq Accounted(s)'
  <2>1. /\ ToSet(inbox') = ToSet(inbox) \cup {m}
        /\ UNCHANGED <<pc, events, heard, gap, cut, silent>>
        /\ posting' = posting \cup {m}
    BY <1>1, <1>b, AppendSet DEF Insert, frames
  <2>2. QED
    BY <1>d, <2>1 DEF Accounted
<1>9. ASSUME NEW m \in Msgs, Publish(m) PROVE ToSet(inbox') \subseteq Accounted(s)'
  <2>1. /\ inbox' = inbox /\ pc' = pc /\ heard' = heard /\ cut' = cut
        /\ posting' = posting \ {m} /\ silent' = silent
    BY <1>9 DEF Publish
  <2>2. CASE pc[s] = "listed"
    BY <1>9, <1>d, <2>1, <2>2 DEF Publish, Accounted, Subscribed
  <2>3. CASE pc[s] = "open"
    <3>1. events'[s] = Append(events[s], m) /\ gap'[s] = gap[s]
      BY <1>9, <2>3 DEF Publish, Subscribed
    <3>2. ToSet(events'[s]) = ToSet(events[s]) \cup {m}
      BY <1>b, <3>1, AppendSet
    <3>3. QED
      BY <1>d, <2>1, <2>3, <3>1, <3>2 DEF Accounted
  <2>4. QED
    BY <2>1, <2>2, <2>3
<1>2. CASE /\ UNCHANGED <<pc, events, heard, gap, cut>>
           /\ ToSet(inbox') \subseteq ToSet(inbox)
           /\ posting \cup silent \subseteq posting' \cup silent'
  BY <1>2, <1>d DEF Accounted
<1>3. CASE Crash
  BY <1>3, <1>b DEF Crash, Admitted, Counted, Serving, Refreshing
<1>4. ASSUME NEW t \in Sockets, CatchUp(t) PROVE ToSet(inbox') \subseteq Accounted(s)'
  <2>1. /\ UNCHANGED <<inbox, events, gap, posting, silent>>
        /\ \A u \in Sockets \ {t} : pc'[u] = pc[u] /\ heard'[u] = heard[u]
                                    /\ cut'[u] = cut[u]
    BY <1>4, <1>b DEF CatchUp, GiveUp, Goto, post
  <2>2. CASE s # t
    BY <1>d, <2>1, <2>2 DEF Accounted
  <2>3. CASE s = t
    <3>1. PICK n \in 0 .. Len(inbox) :
             /\ heard'[s] = ToSet(SubSeq(inbox, 1, n))
             /\ cut'[s] = ToSet(SubSeq(inbox, n + 1, Len(inbox)))
      <4>1. Len(inbox) \in Nat
        BY <1>b, LenProperties
      <4>2. (IF Len(inbox) < CatchUpMax THEN Len(inbox) ELSE CatchUpMax)
              \in 0 .. Len(inbox)
        BY <4>1, InboxNumbers
      <4>3. ~GiveUp(s)
        BY <1>b DEF GiveUp, Goto
      <4>4. QED
        BY <1>4, <1>b, <2>3, <4>2, <4>3 DEF CatchUp
    <3>2. heard'[s] \cup cut'[s] = ToSet(inbox)
      BY <1>b, <3>1, SplitSet
    <3>3. QED
      BY <2>1, <3>2 DEF Accounted
  <2>4. QED
    BY <2>2, <2>3
<1>5. ASSUME NEW t \in Sockets, Read(t) PROVE ToSet(inbox') \subseteq Accounted(s)'
  <2>1. /\ UNCHANGED <<inbox, pc, gap, cut, posting, silent>>
        /\ \A u \in Sockets \ {t} : events'[u] = events[u] /\ heard'[u] = heard[u]
        /\ events'[t] = Tail(events[t]) /\ events[t] # <<>>
        /\ heard'[t] = heard[t] \cup ({Head(events[t])} \cap ToSet(inbox))
    BY <1>5, <1>b DEF Read, post
  <2>2. ToSet(events[t]) = ToSet(Tail(events[t])) \cup {Head(events[t])}
    BY <1>b, <2>1, TailSet
  <2>3. ToSet(inbox) \cap (heard[t] \cup ToSet(events[t]))
          \subseteq heard'[t] \cup ToSet(events'[t])
    BY <2>1, <2>2
  <2>4. CASE s # t
    BY <1>d, <2>1, <2>4 DEF Accounted
  <2>5. CASE s = t
    BY <1>d, <2>1, <2>3, <2>5 DEF Accounted
  <2>6. QED
    BY <2>4, <2>5
<1>6. ASSUME NEW t \in Sockets, Close(t) PROVE ToSet(inbox') \subseteq Accounted(s)'
  <2>1. /\ s # t /\ pc'[s] = pc[s] /\ events'[s] = events[s] /\ heard'[s] = heard[s]
        /\ gap'[s] = gap[s] /\ cut'[s] = cut[s] /\ UNCHANGED <<inbox, posting, silent>>
    BY <1>6, <1>b DEF Close, Goto, post
  <2>2. QED
    BY <1>d, <2>1 DEF Accounted
<1>7. ASSUME UNCHANGED <<inbox, events, heard, gap, cut>>, NEW t \in Sockets,
             posting \cup silent \subseteq posting' \cup silent',
             NEW next \in Labels, Goto(t, next), next # "listed",
             next = "open" => pc[t] = "listed"
      PROVE  ToSet(inbox') \subseteq Accounted(s)'
  <2>1. pc[s] \in {"listed", "open"}
    BY <1>7, <1>b DEF Goto
  <2>2. QED
    BY <1>7, <1>d, <2>1 DEF Accounted
<1>8. QED
  BY <1>1, <1>2, <1>3, <1>4, <1>5, <1>6, <1>7, <1>9, <1>c, <1>e, FrameMoves

(* An open socket misses no pending message that is published, except above *)
(* the limit of the catch-up frame and between that frame and the           *)
(* subscription; one whose sender failed or died before the publication is  *)
(* not told of.                                                             *)
THEOREM OpenSocketHearsHolds == Spec => []OpenSocketHears
<1>1. Init => HearInv
  BY DEF Init, HearInv, In
<1>2. HearInv => OpenSocketHears
  BY DEF HearInv, OpenSocketHears, In, Accounted
<1>3. QED
  BY <1>1, <1>2, HearStep, TypeInvHolds, PTL DEF Spec
=============================================================================
