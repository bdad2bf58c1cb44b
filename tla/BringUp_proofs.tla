--------------------------- MODULE BringUp_proofs ---------------------------
(***************************************************************************)
(* Proofs about the input path from its set-up on, for every capacity of   *)
(* the queue, every number of key presses and every limit of drain_output. *)
(* The safety properties need none of the fairness of FairBootSpec.        *)
(***************************************************************************)
EXTENDS BringUp, SequenceTheorems, TLAPS

-----------------------------------------------------------------------------
(***************************************************************************)
(* The keys between the wire and the shell.                                *)
(***************************************************************************)
Ascending(s) == \A i, j \in 1 .. Len(s) : i < j => s[i] < s[j]

\* s holds the keys of n that are not lost, in order.
Counted(s, lost, n) ==
    /\ s \in Seq(Key) /\ Ascending(s)
    /\ \A i \in 1 .. Len(s) : s[i] <= n
    /\ Len(s) + lost = n

Held(at, key) == IF at = "handle" THEN <<key>> ELSE <<>>
Offer(key) == IF key # None THEN <<key>> ELSE <<>>
Byte(byte) == IF byte \in Key THEN <<byte>> ELSE <<>>

KeyType ==
    /\ pressed \in 0 .. MaxKeys
    /\ handled \in Seq(Key) /\ queue \in Seq(Key)
    /\ pc = "handle" => taken \in Key
    /\ offered \in Key \cup {None}
    /\ output \in 0 .. Reply
    /\ dropped \in Nat /\ discarded \in Nat

KInv == KeyType /\ Counted(OnTheWay, dropped + discarded, pressed)

\* The numbers that stand for keys and other bytes differ.
LEMMA Codes ==
    /\ MaxKeys \in Nat /\ Key \subseteq Nat /\ None \notin Key
    /\ Silent \notin Key /\ Reply \notin Key /\ None # Silent /\ None # Reply /\ Silent # Reply
    /\ {None, Silent, Reply} \subseteq 0 .. Reply /\ Key \subseteq 0 .. Reply
BY BoundsAssumption DEF BoundsAssumption, Key, None, Silent, Reply

\* The parts of OnTheWay are sequences of keys.
LEMMA Parts ==
    ASSUME KeyType
    PROVE  /\ Held(pc, taken) \in Seq(Key) /\ Offer(offered) \in Seq(Key) /\ Byte(output) \in Seq(Key)
           /\ OnTheWay = (((handled \o Held(pc, taken)) \o queue) \o Offer(offered)) \o Byte(output)
           /\ handled \o Held(pc, taken) \in Seq(Key)
           /\ (handled \o Held(pc, taken)) \o queue \in Seq(Key)
           /\ ((handled \o Held(pc, taken)) \o queue) \o Offer(offered) \in Seq(Key)
<1>1. Held(pc, taken) \in Seq(Key) /\ Offer(offered) \in Seq(Key) /\ Byte(output) \in Seq(Key)
  BY DEF KeyType, Held, Offer, Byte
<1>2. OnTheWay = (((handled \o Held(pc, taken)) \o queue) \o Offer(offered)) \o Byte(output)
  BY DEF OnTheWay, Held, Offer, Byte
<1>3. handled \in Seq(Key) /\ queue \in Seq(Key)
  BY DEF KeyType
<1> HIDE DEF OnTheWay
<1> QED BY <1>1, <1>2, <1>3, ConcatProperties

\* The next key press goes behind all others.
LEMMA Pressed ==
    ASSUME NEW s, NEW lost \in Nat, NEW n \in Nat, Counted(s, lost, n), n + 1 \in Key
    PROVE  Counted(s \o <<n + 1>>, lost, n + 1)
<1> DEFINE k == n + 1
           t == s \o <<k>>
<1>1. s \in Seq(Key) /\ <<k>> \in Seq(Key) /\ Len(<<k>>) = 1 /\ <<k>>[1] = k
  BY DEF Counted
<1>2. /\ t \in Seq(Key) /\ Len(t) = Len(s) + 1
      /\ \A i \in 1 .. Len(s) + 1 : t[i] = IF i <= Len(s) THEN s[i] ELSE <<k>>[i - Len(s)]
  BY <1>1, ConcatProperties
<1>3. /\ \A i \in 1 .. Len(s) : t[i] = s[i]
      /\ t[Len(s) + 1] = k /\ Len(s) \in Nat
  BY <1>1, <1>2
<1> HIDE DEF t, k
<1>4. \A i \in 1 .. Len(s) : s[i] <= n /\ s[i] \in Nat
  <2>1. \A i \in 1 .. Len(s) : s[i] \in Key
    BY <1>1
  <2>2. \A i \in 1 .. Len(s) : s[i] <= n
    BY DEF Counted
  <2> QED BY <2>1, <2>2, Codes
<1>5. Ascending(t)
  BY <1>2, <1>3, <1>4 DEF Ascending, Counted, k
<1>6. \A i \in 1 .. Len(t) : t[i] <= k
  BY <1>2, <1>3, <1>4 DEF k
<1>7. Counted(t, lost, k)
  BY <1>2, <1>3, <1>5, <1>6 DEF Counted, k
<1> QED BY <1>7 DEF t, k

\* A key that is lost leaves the others in order and is counted.
LEMMA Lost ==
    ASSUME NEW s \in Seq(Key), NEW k \in Key, NEW u \in Seq(Key), Len(u) <= 1,
           NEW lost \in Nat, NEW n \in Nat, Counted((s \o <<k>>) \o u, lost, n)
    PROVE  Counted(s \o u, lost + 1, n)
<1> DEFINE a == s \o <<k>>
           t == a \o u
           r == s \o u
           skip == [i \in 1 .. Len(s) + Len(u) |-> IF i <= Len(s) THEN i ELSE i + 1]
<1>1. <<k>> \in Seq(Key) /\ Len(<<k>>) = 1 /\ Len(s) \in Nat /\ Len(u) \in Nat
  OBVIOUS
<1>2. /\ a \in Seq(Key) /\ Len(a) = Len(s) + 1
      /\ \A i \in 1 .. Len(s) : a[i] = s[i]
  BY <1>1, ConcatProperties
<1> HIDE DEF a
<1>3. /\ t \in Seq(Key) /\ Len(t) = Len(a) + Len(u)
      /\ \A i \in 1 .. Len(a) + Len(u) : t[i] = IF i <= Len(a) THEN a[i] ELSE u[i - Len(a)]
  BY <1>2, ConcatProperties
<1>4. /\ r \in Seq(Key) /\ Len(r) = Len(s) + Len(u)
      /\ \A i \in 1 .. Len(s) + Len(u) : r[i] = IF i <= Len(s) THEN s[i] ELSE u[i - Len(s)]
  BY ConcatProperties
<1>5. Counted(t, lost, n)
  BY DEF a
<1> HIDE DEF t, r
<1>6. ASSUME NEW i \in 1 .. Len(r) PROVE skip[i] \in 1 .. Len(t) /\ r[i] = t[skip[i]]
  <2>1. CASE i <= Len(s)
    <3>1. skip[i] = i /\ i \in 1 .. Len(s) /\ i \in 1 .. Len(a) + Len(u) /\ i <= Len(a)
      BY <2>1, <1>1, <1>2, <1>4
    <3> QED BY <3>1, <2>1, <1>2, <1>3, <1>4
  <2>2. CASE ~ (i <= Len(s))
    <3>1. skip[i] = i + 1 /\ i + 1 \in 1 .. Len(a) + Len(u) /\ ~ (i + 1 <= Len(a)) /\ (i + 1) - Len(a) = i - Len(s)
      BY <2>2, <1>1, <1>2, <1>4
    <3> QED BY <3>1, <2>2, <1>2, <1>3, <1>4
  <2> QED BY <2>1, <2>2
<1>7. \A i, j \in 1 .. Len(r) : i < j => skip[i] < skip[j]
  BY <1>1, <1>4
<1> HIDE DEF skip
<1>8. Ascending(r)
  BY <1>5, <1>6, <1>7 DEF Ascending, Counted
<1>9. \A i \in 1 .. Len(r) : r[i] <= n
  BY <1>5, <1>6 DEF Counted
<1>10. Len(r) + (lost + 1) = n
  BY <1>1, <1>2, <1>3, <1>4, <1>5 DEF Counted
<1>11. Counted(r, lost + 1, n)
  BY <1>4, <1>8, <1>9, <1>10 DEF Counted
<1> QED BY <1>11 DEF r
\* Where the parts of OnTheWay meet, a key moves from one to the next.
LEMMA Moves ==
    ASSUME NEW a \in Seq(Key), NEW q \in Seq(Key), NEW k \in Key
    PROVE  /\ (a \o <<k>>) \o q = (Append(a, k) \o <<>>) \o q
           /\ q # <<>> => (a \o <<>>) \o q = (a \o <<Head(q)>>) \o Tail(q)
           /\ (a \o q) \o <<k>> = (a \o Append(q, k)) \o <<>>
           /\ (a \o <<>>) \o <<k>> = (a \o <<k>>) \o <<>>
<1>1. /\ Append(a, k) = a \o <<k>> /\ Append(a, k) \in Seq(Key) /\ Append(a, k) \o <<>> = Append(a, k)
  BY AppendIsConcat, AppendProperties, ConcatEmptySeq
<1>2. ASSUME q # <<>> PROVE (a \o <<>>) \o q = (a \o <<Head(q)>>) \o Tail(q)
  <2>1. Head(q) \in Key /\ Tail(q) \in Seq(Key) /\ <<Head(q)>> \in Seq(Key)
    BY <1>2, HeadTailProperties
  <2>2. q = <<Head(q)>> \o Tail(q)
    <3> DEFINE h == Head(q)
               l == Tail(q)
               c == <<h>> \o l
    <3>1. /\ c \in Seq(Key) /\ Len(c) = 1 + Len(l) /\ Len(l) = Len(q) - 1 /\ Len(q) \in Nat
          /\ \A i \in 1 .. 1 + Len(l) : c[i] = IF i <= 1 THEN <<h>>[i] ELSE l[i - 1]
      BY <1>2, <2>1, ConcatProperties, HeadTailProperties, Len(<<h>>) = 1
    <3>2. \A i \in 1 .. Len(l) : l[i] = q[i + 1]
      BY <1>2, HeadTailProperties
    <3>3. h = q[1]
      BY <1>2
    <3> HIDE DEF h, l, c
    <3>4. ASSUME NEW i \in 1 .. Len(q) PROVE c[i] = q[i]
      <4>1. CASE i = 1
        BY <4>1, <3>1, <3>3
      <4>2. CASE i # 1
        <5>1. i - 1 \in 1 .. Len(l) /\ (i - 1) + 1 = i /\ i \in 1 .. 1 + Len(l) /\ ~ (i <= 1)
          BY <4>2, <3>1
        <5> QED BY <5>1, <3>1, <3>2
      <4> QED BY <4>1, <4>2
    <3>5. c = q
      BY <3>1, <3>4, SeqEqual
    <3> QED BY <3>5 DEF c, h, l
  <2>3. a \o (<<Head(q)>> \o Tail(q)) = (a \o <<Head(q)>>) \o Tail(q)
    BY <2>1, ConcatAssociative
  <2> QED BY <2>2, <2>3, ConcatEmptySeq
<1>3. (a \o q) \o <<k>> = (a \o Append(q, k)) \o <<>>
  <2>1. Append(q, k) = q \o <<k>> /\ Append(q, k) \in Seq(Key) /\ <<k>> \in Seq(Key)
    BY AppendIsConcat, AppendProperties
  <2>2. (a \o q) \o <<k>> = a \o (q \o <<k>>)
    BY <2>1, ConcatAssociative
  <2>3. a \o Append(q, k) \in Seq(Key)
    BY <2>1, ConcatProperties
  <2> QED BY <2>1, <2>2, <2>3, ConcatEmptySeq
<1>4. (a \o <<>>) \o <<k>> = (a \o <<k>>) \o <<>>
  <2>1. <<k>> \in Seq(Key) /\ a \o <<k>> \in Seq(Key)
    BY ConcatProperties
  <2> QED BY <2>1, ConcatEmptySeq
<1> QED BY <1>1, <1>2, <1>3, <1>4

\* OnTheWay after a step, in its parts.
LEMMA WayAfter ==
    OnTheWay' = (((handled' \o Held(pc', taken')) \o queue') \o Offer(offered')) \o Byte(output')
BY DEF OnTheWay, Held, Offer, Byte

\* A step that moves no key keeps the invariant.
LEMMA NoKeyMoves ==
    ASSUME KInv, UNCHANGED <<handled, queue, offered, pressed, dropped, discarded>>,
           pc' = "handle" <=> pc = "handle", pc = "handle" => taken' = taken,
           \/ output' = output
           \/ output \notin Key /\ output' \notin Key /\ output' \in 0 .. Reply
    PROVE  KInv'
<1>1. KeyType'
  BY DEF KInv, KeyType, Key, Reply, None
<1>2. Held(pc', taken') = Held(pc, taken) /\ Offer(offered') = Offer(offered) /\ Byte(output') = Byte(output)
  BY DEF Held, Offer, Byte
<1>3. OnTheWay' = OnTheWay
  BY <1>2, WayAfter, Parts DEF KInv
<1>4. Counted(OnTheWay', dropped' + discarded', pressed')
  BY <1>3 DEF KInv
<1> QED BY <1>1, <1>4 DEF KInv, Counted, Ascending, Key

\* The set-up begins with no key pressed.
LEMMA InitKInv == BootInit => KInv
<1> SUFFICES ASSUME BootInit PROVE KInv
  OBVIOUS
<1>1. /\ handled = <<>> /\ queue = <<>> /\ offered = None /\ output \notin Key /\ pressed = 0
      /\ pc # "handle" /\ dropped = 0 /\ discarded = 0 /\ output \in 0 .. Reply
  BY Codes DEF BootInit, Q!Init
<1>2. KeyType
  BY <1>1, Codes DEF KeyType
<1>3. Held(pc, taken) = <<>> /\ Offer(offered) = <<>> /\ Byte(output) = <<>>
  BY <1>1 DEF Held, Offer, Byte
<1>4. OnTheWay = <<>>
  <2>1. OnTheWay = (((<<>> \o <<>>) \o <<>>) \o <<>>) \o <<>>
    BY <1>1, <1>2, <1>3, Parts
  <2>2. <<>> \in Seq(Key) /\ <<>> \o <<>> = <<>>
    BY ConcatEmptySeq
  <2> QED BY <2>1, <2>2
<1>5. Counted(<<>>, 0, 0)
  BY DEF Counted, Ascending
<1> QED BY <1>1, <1>2, <1>4, <1>5 DEF KInv

\* A key arrives at the 8042.
LEMMA KeyArrived ==
    ASSUME KInv, pressed < MaxKeys, pressed' = pressed + 1,
           UNCHANGED <<handled, taken, queue, dropped, discarded, pc>>, output \notin Key,
           \/ output' = pressed + 1 /\ offered' = offered
           \/ offered = None /\ offered' = pressed + 1 /\ output' = None
    PROVE  KInv'
<1> DEFINE k == pressed + 1
           a == (handled \o Held(pc, taken)) \o queue
<1>1. pressed \in Nat /\ k \in Key /\ k \in Nat /\ MaxKeys \in Nat
  BY Codes DEF KInv, KeyType, Key
<1>2. KeyType'
  BY <1>1, Codes DEF KInv, KeyType, Key, Reply, None
<1>3. /\ OnTheWay = (a \o Offer(offered)) \o <<>> /\ a \in Seq(Key) /\ a \o Offer(offered) \in Seq(Key)
  BY Parts DEF KInv, Byte
<1>4. OnTheWay \in Seq(Key) /\ OnTheWay = a \o Offer(offered)
  BY <1>3, ConcatEmptySeq
<1>5. OnTheWay' = OnTheWay \o <<k>>
  <2>1. CASE output' = k /\ offered' = offered
    <3>1. Byte(output') = <<k>>
      BY <2>1, <1>1 DEF Byte
    <3> QED BY <2>1, <3>1, <1>4, WayAfter
  <2>2. CASE offered = None /\ offered' = k /\ output' = None
    <3>1. Byte(output') = <<>> /\ Offer(offered') = <<k>> /\ Offer(offered) = <<>>
      BY <2>2, <1>1, Codes DEF Byte, Offer
    <3>2. OnTheWay' = (a \o <<k>>) \o <<>>
      BY <3>1, WayAfter
    <3> HIDE DEF a, k
    <3>3. (a \o <<k>>) \o <<>> = (a \o <<>>) \o <<k>>
      <4>1. k \in Key /\ a \in Seq(Key)
        BY <1>1, <1>3 DEF k, a
      <4>2. <<k>> \in Seq(Key) /\ a \o <<k>> \in Seq(Key)
        BY <4>1, ConcatProperties
      <4> QED BY <4>1, <4>2, ConcatEmptySeq
    <3> QED BY <3>1, <3>2, <3>3, <1>4
  <2> QED BY <2>1, <2>2
<1>6. Counted(OnTheWay \o <<k>>, dropped + discarded, k)
  BY <1>1, Pressed DEF KInv, KeyType
<1>7. Counted(OnTheWay', dropped' + discarded', pressed')
  BY <1>5, <1>6
<1> QED BY <1>2, <1>7 DEF KInv, Counted, Ascending, Key

\* The set-up reads a key and throws it away.
LEMMA KeyDiscarded ==
    ASSUME KInv, UNCHANGED <<handled, taken, queue, offered, pressed, dropped>>,
           pc' = "handle" <=> pc = "handle",
           output \in Key, output' = None, discarded' = discarded + 1
    PROVE  KInv'
<1> DEFINE b == ((handled \o Held(pc, taken)) \o queue) \o Offer(offered)
<1>1. KeyType'
  BY Codes DEF KInv, KeyType, Key, Reply, None
<1>2. OnTheWay = b \o <<output>> /\ b \in Seq(Key)
  BY Parts DEF KInv, Byte
<1>3. OnTheWay' = b \o <<>>
  <2>1. Held(pc', taken') = Held(pc, taken) /\ Byte(output') = <<>>
    BY Codes DEF Held, Byte
  <2> QED BY <2>1, WayAfter
<1> HIDE DEF b
<1>4. (b \o <<output>>) \o <<>> = b \o <<output>>
  <2>1. <<output>> \in Seq(Key)
    OBVIOUS
  <2>2. b \o <<output>> \in Seq(Key)
    BY <1>2, <2>1, ConcatProperties
  <2> QED BY <2>2, ConcatEmptySeq
<1>5. Counted(b \o <<>>, (dropped + discarded) + 1, pressed)
  <2>1. dropped + discarded \in Nat /\ pressed \in Nat
    BY Codes DEF KInv, KeyType
  <2>2. Counted((b \o <<output>>) \o <<>>, dropped + discarded, pressed)
    BY <1>2, <1>4 DEF KInv
  <2>3. <<>> \in Seq(Key) /\ Len(<<>>) <= 1
    OBVIOUS
  <2> QED BY <1>2, <2>1, <2>2, <2>3, Lost
<1>6. (dropped + discarded) + 1 = dropped' + discarded'
  BY DEF KInv, KeyType
<1>7. Counted(OnTheWay', dropped' + discarded', pressed')
  BY <1>3, <1>5, <1>6
<1> QED BY <1>1, <1>7 DEF KInv, Counted, Ascending, Key

\* The handler takes the key from the 8042.
LEMMA KeyRead ==
    ASSUME KInv, UNCHANGED <<handled, taken, queue, pressed, dropped, discarded, pc>>,
           output \in Key, output' = None, offered = None, offered' = output
    PROVE  KInv'
<1> DEFINE a == (handled \o Held(pc, taken)) \o queue
<1>1. KeyType'
  BY Codes DEF KInv, KeyType, Key, Reply, None
<1>2. OnTheWay = (a \o <<>>) \o <<output>> /\ a \in Seq(Key)
  BY Parts DEF KInv, Byte, Offer
<1>3. OnTheWay' = (a \o <<output>>) \o <<>>
  <2>1. Offer(offered') = <<output>> /\ Byte(output') = <<>>
    BY Codes DEF Offer, Byte
  <2> QED BY <2>1, WayAfter
<1> HIDE DEF a
<1>4. OnTheWay' = OnTheWay
  BY <1>2, <1>3, Moves, Zenon
<1> QED BY <1>1, <1>4 DEF KInv, Counted, Ascending, Key

\* push publishes the key.
LEMMA KeyAccepted ==
    ASSUME KInv, UNCHANGED <<handled, taken, output, pressed, dropped, discarded, pc>>,
           offered # None, offered' = None, queue' = Append(queue, offered)
    PROVE  KInv'
<1> DEFINE c == handled \o Held(pc, taken)
<1>1. offered \in Key /\ queue \in Seq(Key)
  BY DEF KInv, KeyType
<1>2. KeyType'
  BY <1>1, AppendProperties DEF KInv, KeyType, Key, Reply, None
<1>3. OnTheWay = ((c \o queue) \o <<offered>>) \o Byte(output) /\ c \in Seq(Key)
  BY Parts DEF KInv, Offer
<1>4. OnTheWay' = ((c \o Append(queue, offered)) \o <<>>) \o Byte(output)
  BY WayAfter DEF Offer
<1> HIDE DEF c
<1>5. OnTheWay' = OnTheWay
  BY <1>1, <1>3, <1>4, Moves, Zenon
<1> QED BY <1>2, <1>5 DEF KInv, Counted, Ascending, Key

\* push finds the queue full: the key is counted, and the counter does not
\* wrap, since it counts keys that were pressed.
LEMMA KeyDropped ==
    ASSUME KInv, UNCHANGED <<handled, taken, queue, output, pressed, discarded, pc>>,
           offered # None, offered' = None, dropped' = (dropped + 1) % (MaxKeys + 1)
    PROVE  KInv'
<1> DEFINE a == (handled \o Held(pc, taken)) \o queue
           u == Byte(output)
<1>1. offered \in Key /\ pressed \in 0 .. MaxKeys /\ dropped \in Nat /\ discarded \in Nat /\ MaxKeys \in Nat
  BY Codes DEF KInv, KeyType
<1>2. OnTheWay = (a \o <<offered>>) \o u /\ a \in Seq(Key) /\ u \in Seq(Key) /\ Len(u) <= 1
  BY Parts DEF KInv, Offer, Byte
<1>3. OnTheWay' = (a \o <<>>) \o u
  BY WayAfter DEF Offer
<1> HIDE DEF a, u
<1>4. OnTheWay' = a \o u
  BY <1>2, <1>3, ConcatEmptySeq
<1>5. Counted(a \o u, (dropped + discarded) + 1, pressed)
  <2>1. Counted((a \o <<offered>>) \o u, dropped + discarded, pressed)
    BY <1>2 DEF KInv
  <2>2. dropped + discarded \in Nat /\ pressed \in Nat
    BY <1>1
  <2> QED BY <1>1, <1>2, <2>1, <2>2, Lost
<1>6. dropped' = dropped + 1
  <2>1. a \o u \in Seq(Key) /\ Len(a \o u) + ((dropped + discarded) + 1) = pressed
    BY <1>5 DEF Counted
  <2>2. Len(a \o u) \in Nat
    BY <2>1
  <2>3. dropped + 1 \in 0 .. MaxKeys
    BY <2>1, <2>2, <1>1
  <2> QED BY <2>3, <1>1
<1>7. KeyType'
  BY <1>1, <1>6 DEF KInv, KeyType, Key, Reply, None
<1>8. dropped' + discarded' = (dropped + discarded) + 1
  BY <1>1, <1>6
<1>9. Counted(OnTheWay', dropped' + discarded', pressed')
  BY <1>4, <1>5, <1>8
<1> QED BY <1>7, <1>9 DEF KInv, Counted, Ascending, Key

\* next_event hands the oldest key to the loop.
LEMMA KeyTaken ==
    ASSUME KInv, UNCHANGED <<handled, offered, output, pressed, dropped, discarded>>,
           pc # "handle", pc' = "handle", queue # <<>>, taken' = Head(queue), queue' = Tail(queue)
    PROVE  KInv'
<1>1. handled \in Seq(Key) /\ queue \in Seq(Key) /\ Head(queue) \in Key /\ Tail(queue) \in Seq(Key)
  BY HeadTailProperties DEF KInv, KeyType
<1>2. KeyType'
  BY <1>1 DEF KInv, KeyType, Key, Reply, None
<1>3. OnTheWay = (((handled \o <<>>) \o queue) \o Offer(offered)) \o Byte(output)
  BY Parts DEF KInv, Held
<1>4. OnTheWay' = (((handled \o <<Head(queue)>>) \o Tail(queue)) \o Offer(offered)) \o Byte(output)
  BY WayAfter DEF Held
<1>5. (handled \o <<>>) \o queue = (handled \o <<Head(queue)>>) \o Tail(queue)
  BY <1>1, Moves, Zenon
<1>6. OnTheWay' = OnTheWay
  BY <1>3, <1>4, <1>5
<1> QED BY <1>2, <1>6 DEF KInv, Counted, Ascending, Key

\* The loop handles the key it took.
LEMMA KeyHandled ==
    ASSUME KInv, UNCHANGED <<taken, queue, offered, output, pressed, dropped, discarded>>,
           pc = "handle", pc' # "handle", handled' = Append(handled, taken)
    PROVE  KInv'
<1>1. handled \in Seq(Key) /\ queue \in Seq(Key) /\ taken \in Key
  BY DEF KInv, KeyType
<1>2. KeyType'
  BY <1>1, AppendProperties DEF KInv, KeyType, Key, Reply, None
<1>3. OnTheWay = (((handled \o <<taken>>) \o queue) \o Offer(offered)) \o Byte(output)
  BY Parts DEF KInv, Held
<1>4. OnTheWay' = (((Append(handled, taken) \o <<>>) \o queue) \o Offer(offered)) \o Byte(output)
  BY WayAfter DEF Held
<1>5. (handled \o <<taken>>) \o queue = (Append(handled, taken) \o <<>>) \o queue
  BY <1>1, Moves, Zenon
<1>6. OnTheWay' = OnTheWay
  BY <1>3, <1>4, <1>5
<1> QED BY <1>2, <1>6 DEF KInv, Counted, Ascending, Key

\* Every step moves at most one key, and keeps the invariant.
LEMMA NextKInv == KInv /\ [BootNext]_bringUpVars => KInv'
<1> SUFFICES ASSUME KInv, [BootNext]_bringUpVars PROVE KInv'
  OBVIOUS
<1>0. output \in 0 .. Reply /\ pressed \in 0 .. MaxKeys
  BY DEF KInv, KeyType
<1>1. CASE Pit
  BY <1>1, NoKeyMoves DEF Pit, PitFires, Unaffected, processor, fifo
<1>2. CASE ByteArrives
  <2>1. UNCHANGED <<handled, taken, queue, offered, dropped, discarded, pc>> /\ output = None
    BY <1>2 DEF ByteArrives, processor, fifo
  <2>2. CASE pressed < MaxKeys /\ pressed' = pressed + 1 /\ output' = pressed + 1
    BY <2>1, <2>2, KeyArrived, Codes
  <2>3. CASE output' = Silent /\ UNCHANGED pressed
    BY <2>1, <2>3, NoKeyMoves, Codes
  <2> QED BY <1>2, <2>2, <2>3 DEF ByteArrives
<1>3. CASE ControllerTakes
  BY <1>3, NoKeyMoves DEF ControllerTakes, processor, fifo
<1>4. CASE ControllerAnswers
  BY <1>4, NoKeyMoves, Codes DEF ControllerAnswers, processor, fifo
<1>5. ASSUME NEW from, NEW value, NEW to, from # "handle", to # "handle", WriteWhenEmpty(from, value, to)
      PROVE  KInv'
  BY <1>5, NoKeyMoves DEF WriteWhenEmpty, GiveUp, fifo
<1>6. CASE drain_output
  <2>1. UNCHANGED <<handled, taken, queue, offered, pressed, dropped>> /\ pc # "handle" /\ pc' # "handle"
    BY <1>6 DEF drain_output, fifo
  <2>2. CASE UNCHANGED <<output, discarded>>
    BY <2>1, <2>2, NoKeyMoves
  <2>3. CASE Discard
    BY <2>1, <2>3, <1>0, NoKeyMoves, KeyDiscarded, Codes DEF Discard
  <2> QED BY <1>6, <2>2, <2>3 DEF drain_output
<1>7. CASE ReadCommandByte
  <2>1. UNCHANGED <<handled, taken, queue, offered, pressed, dropped>> /\ pc # "handle" /\ pc' # "handle"
    BY <1>7 DEF ReadCommandByte, GiveUp, fifo
  <2>2. CASE UNCHANGED <<output, discarded>>
    BY <2>1, <2>2, NoKeyMoves
  <2>3. CASE Discard
    BY <2>1, <2>3, <1>0, NoKeyMoves, KeyDiscarded, Codes DEF Discard
  <2> QED BY <1>7, <2>2, <2>3 DEF ReadCommandByte
<1>8. CASE pic_initialize
  BY <1>8, NoKeyMoves DEF pic_initialize, fifo
<1>9. CASE timer_initialize
  BY <1>9, NoKeyMoves DEF timer_initialize, fifo
<1>10. CASE EnableInterrupts
  BY <1>10, NoKeyMoves DEF EnableInterrupts, fifo
<1>11. ASSUME NEW line, NEW handler, Interrupt(line, handler), UNCHANGED discarded PROVE KInv'
  BY <1>11, NoKeyMoves DEF Interrupt, fifo
<1>12. CASE Tick
  BY <1>12, NoKeyMoves DEF Tick, timer_interrupt_handler, Unaffected, fifo
<1>13. CASE ReadLateAnswer
  <2>1. UNCHANGED <<handled, taken, queue, dropped, discarded, pc>> /\ output = Reply /\ output' = None
    BY <1>13 DEF ReadLateAnswer, fifo, Q!Offer
  <2>2. CASE pressed < MaxKeys /\ pressed' = pressed + 1 /\ Q!Offer(pressed + 1)
    BY <2>1, <2>2, KeyArrived, Codes DEF Q!Offer
  <2>3. CASE UNCHANGED <<fifo, pressed>>
    BY <2>1, <2>3, NoKeyMoves, Codes DEF fifo
  <2> QED BY <1>13, <2>2, <2>3 DEF ReadLateAnswer
<1>14. CASE ReadScancode /\ Unaffected
  <2>1. UNCHANGED <<handled, pressed, discarded, pc>> /\ output' = None
    BY <1>14 DEF ReadScancode, Unaffected
  <2>2. CASE output \in Key /\ Q!Offer(output)
    BY <2>1, <2>2, KeyRead DEF Q!Offer
  <2>3. CASE output = Silent /\ UNCHANGED fifo
    BY <2>1, <2>3, NoKeyMoves, Codes DEF fifo
  <2> QED BY <1>14, <2>2, <2>3 DEF ReadScancode
<1>15. CASE PushAndReturn /\ Unaffected
  <2>1. UNCHANGED <<handled, output, pressed, discarded, pc>>
    BY <1>15 DEF PushAndReturn, Unaffected
  <2>2. CASE Q!Accept
    BY <2>1, <2>2, KeyAccepted DEF Q!Accept
  <2>3. CASE Q!Drop
    BY <2>1, <2>3, KeyDropped DEF Q!Drop
  <2> QED BY <1>15, <2>2, <2>3 DEF PushAndReturn
<1>16. CASE Poll /\ Unaffected
  <2>1. UNCHANGED <<handled, output, pressed, discarded>> /\ pc = "poll"
    BY <1>16 DEF Poll, Unaffected
  <2>2. CASE Q!Take /\ pc' = "handle"
    BY <2>1, <2>2, KeyTaken DEF Q!Take
  <2>3. CASE Q!FindEmpty /\ pc' = "hlt"
    BY <2>1, <2>3, NoKeyMoves DEF Q!FindEmpty
  <2> QED BY <1>16, <2>2, <2>3 DEF Poll
<1>17. CASE Handle /\ Unaffected
  BY <1>17, KeyHandled DEF Handle, Unaffected, fifo
<1>18. CASE (execute \/ Stop \/ EnableAndHlt) /\ Unaffected
  BY <1>18, NoKeyMoves DEF execute, Stop, EnableAndHlt, Unaffected, fifo
<1>19. CASE UNCHANGED bringUpVars
  BY <1>19, NoKeyMoves DEF bringUpVars, vars, processor, fifo
<1>20. CASE initialize_controller
  BY <1>5, <1>6, <1>7, <1>20 DEF initialize_controller
<1>21. CASE DeliverTimer \/ DeliverKeyboard
  BY <1>11, <1>21 DEF DeliverTimer, DeliverKeyboard, TimerInterrupt, KeyboardInterrupt, Unaffected
<1>22. CASE Shell
  BY <1>16, <1>17, <1>18, <1>22 DEF Shell, Main
<1>23. CASE Scancode
  BY <1>13, <1>14, <1>15, <1>23 DEF Scancode, KeyboardHandler
<1> QED BY <1>1, <1>2, <1>3, <1>4, <1>8, <1>9, <1>10, <1>12, <1>19, <1>20, <1>21, <1>22, <1>23
        DEF BootNext, SetUp

\* Typed keys are where the invariant says at every moment.
THEOREM KeyInvariance == BootSpec => []KInv
<1> QED BY InitKInv, NextKInv, PTL DEF BootSpec

\* No interleaving of the set-up, the interrupts and the shell's loop loses a
\* key that is not counted, doubles one or changes their order.
THEOREM EveryKeyCounted == BootSpec => []KeysAccountedFor
<1>1. KInv => KeysAccountedFor
  <2> SUFFICES ASSUME KInv PROVE KeysAccountedFor
    OBVIOUS
  <2>1. OnTheWay \in Seq(Key) /\ Ascending(OnTheWay) /\ Len(OnTheWay) + (dropped + discarded) = pressed
        /\ dropped \in Nat /\ discarded \in Nat
    BY DEF KInv, KeyType, Counted
  <2> DEFINE n == Len(OnTheWay)
  <2>2. n \in Nat
    BY <2>1
  <2> HIDE DEF n
  <2>3. n + dropped + discarded = pressed
    BY <2>1, <2>2 DEF n
  <2> QED BY <2>1, <2>3 DEF n, KeysAccountedFor, Ascending
<1> QED BY <1>1, KeyInvariance, PTL

-----------------------------------------------------------------------------
(***************************************************************************)
(* The 8042 during and after initialize_controller.                        *)
(***************************************************************************)
Working == [irq |-> TRUE, off |-> FALSE, set1 |-> TRUE]

ControllerType ==
    /\ config \in Config /\ command_byte \in Config
    /\ owes \in BOOLEAN /\ ready \in BOOLEAN /\ misread \in BOOLEAN

\* The command byte is on its way to the 8042 or there when port 1 is about
\* to be enabled, and there for good when the set-up has returned true.
CommandByteArrives ==
    /\ pc = "enable" => input = <<"data", Working>> \/ (input = <<>> /\ config = Working)
    /\ ready => /\ config = Working /\ input \in {<<>>, <<"0xae">>}
                /\ pc \notin {"disable", "drain", "ask", "answer", "announce", "configure", "enable"}

\* Where the answer to 0x20 may be: not asked for yet, on its way, there.
Asked == input = <<"0x20">>
Answered == output = Reply
Outstanding == Asked \/ owes \/ Answered

\* At most one answer is outstanding, none before the question and none once
\* it has been read.
OneAnswer ==
    /\ ~ (Asked /\ owes) /\ ~ (Asked /\ Answered) /\ ~ (owes /\ Answered)
    /\ pc \in {"disable", "drain", "ask"} => ~ Outstanding
    /\ pc \in {"announce", "configure", "enable"} /\ ~ misread => ~ Outstanding
    /\ ready /\ ~ misread => ~ Outstanding

CInv == ControllerType /\ CommandByteArrives /\ OneAnswer

\* The three bits determine the command byte.
LEMMA WorkingBits ==
    ASSUME NEW c \in Config, c.irq = TRUE, c.off = FALSE, c.set1 = TRUE
    PROVE  c = Working
BY SMT DEF Config, Working

\* The configuration that is written turns the port on, whatever was read.
LEMMA ConfiguredWorks ==
    ASSUME command_byte \in Config
    PROVE  Configured = Working
<1>1. Configured \in Config
  BY DEF Config, Configured
<1>2. Configured.irq = TRUE /\ Configured.off = FALSE /\ Configured.set1 = TRUE
  BY DEF Config, Configured
<1> HIDE DEF Configured
<1> QED BY <1>1, <1>2, WorkingBits

\* The set-up begins with nothing asked and nothing answered.
LEMMA InitCInv == BootInit => CInv
<1> SUFFICES ASSUME BootInit PROVE CInv
  OBVIOUS
<1>1. ControllerType
  BY DEF BootInit, ControllerType, Config, Unset
<1>2. pc = "disable" /\ ready = FALSE /\ owes = FALSE /\ misread = FALSE
  BY DEF BootInit
<1>3. output # Reply
  BY Codes DEF BootInit
<1>4. input # <<"0x20">>
  BY DEF BootInit, Absent
<1>5. CommandByteArrives
  BY <1>2 DEF CommandByteArrives
<1>6. OneAnswer
  BY <1>2, <1>3, <1>4 DEF OneAnswer, Outstanding, Asked, Answered
<1> QED BY <1>1, <1>5, <1>6 DEF CInv

\* A step that leaves the 8042 and the set-up alone, and adds no answer,
\* keeps the invariant.
LEMMA QuietStep ==
    ASSUME CInv, UNCHANGED <<controller, ready, command_byte, misread>>,
           output' = Reply => output = Reply,
           pc' = pc \/ pc' \notin {"disable", "drain", "ask", "answer", "announce", "configure", "enable"}
    PROVE  CInv'
BY DEF CInv, ControllerType, CommandByteArrives, OneAnswer, Outstanding, Asked, Answered, controller, Reply

\* Every step of the set-up, the devices, the handlers and the shell keeps
\* the invariant.
LEMMA NextCInv == KInv /\ CInv /\ [BootNext]_bringUpVars => CInv'
<1> SUFFICES ASSUME KInv, CInv, [BootNext]_bringUpVars PROVE CInv'
  OBVIOUS
<1> USE DEF CInv
<1>1. CASE Pit
  BY <1>1, QuietStep DEF Pit, PitFires, Unaffected, processor, setup
<1>2. CASE ByteArrives
  <2>1. output' # Reply
    <3>1. pressed \in 0 .. MaxKeys /\ MaxKeys \in Nat
      BY Codes DEF KInv, KeyType
    <3> QED BY <1>2, <3>1 DEF ByteArrives, Reply, Silent
  <2> QED BY <1>2, <2>1, QuietStep DEF ByteArrives, processor, setup
<1>3. CASE ControllerTakes
  <2>1. /\ UNCHANGED <<pc, output, ready, command_byte, misread>> /\ input' = <<>> /\ ~ owes
    BY <1>3 DEF ControllerTakes, processor, setup
  <2>2. CASE input = <<"0xad">> /\ config' = [config EXCEPT !.off = TRUE] /\ UNCHANGED owes
    <3>1. ~ ready /\ pc # "enable" /\ config' \in Config
      BY <2>2 DEF ControllerType, CommandByteArrives, Config
    <3> QED BY <2>1, <2>2, <3>1 DEF ControllerType, CommandByteArrives, OneAnswer, Outstanding, Asked, Answered, Reply
  <2>3. CASE input = <<"0x20">> /\ owes' = TRUE /\ UNCHANGED config
    <3>1. ~ ready /\ pc # "enable"
      BY <2>3 DEF ControllerType, CommandByteArrives
    <3> QED BY <2>1, <2>3, <3>1 DEF ControllerType, CommandByteArrives, OneAnswer, Outstanding, Asked, Answered, Reply
  <2>4. CASE input = <<"0x60">> /\ UNCHANGED <<config, owes>>
    <3>1. ~ ready /\ pc # "enable"
      BY <2>4 DEF ControllerType, CommandByteArrives
    <3> QED BY <2>1, <2>4, <3>1 DEF ControllerType, CommandByteArrives, OneAnswer, Outstanding, Asked, Answered, Reply
  <2>5. ASSUME NEW bits \in Config, input = <<"data", bits>>, config' = bits, UNCHANGED owes PROVE CInv'
    <3>1. ~ ready /\ (pc = "enable" => bits = Working)
      BY <2>5 DEF ControllerType, CommandByteArrives
    <3> QED BY <2>1, <2>5, <3>1 DEF ControllerType, CommandByteArrives, OneAnswer, Outstanding, Asked, Answered, Reply
  <2>6. CASE input = <<"0xae">> /\ config' = [config EXCEPT !.off = FALSE] /\ UNCHANGED owes
    <3>1. pc # "enable" /\ config' \in Config /\ (config = Working => config' = Working)
      <4>1. config \in Config /\ pc # "enable"
        BY <2>6 DEF ControllerType, CommandByteArrives
      <4>2. config' \in Config
        BY <2>6, <4>1 DEF Config
      <4>3. ASSUME config = Working PROVE config' = Working
        <5>1. config.irq = TRUE /\ config.set1 = TRUE
          BY <4>3 DEF Working
        <5>2. config'.irq = TRUE /\ config'.set1 = TRUE /\ config'.off = FALSE
          BY <2>6, <4>1, <5>1 DEF Config
        <5> QED BY <4>2, <5>2, WorkingBits
      <4> QED BY <4>1, <4>2, <4>3
    <3> QED BY <2>1, <2>6, <3>1 DEF ControllerType, CommandByteArrives, OneAnswer, Outstanding, Asked, Answered, Reply
  <2> QED BY <1>3, <2>2, <2>3, <2>4, <2>5, <2>6 DEF ControllerTakes
<1>4. CASE ControllerAnswers
  BY <1>4 DEF ControllerAnswers, ControllerType, CommandByteArrives, OneAnswer, Outstanding, Asked,
      Answered, Config, Working, processor, setup, Reply
<1>5. CASE initialize_controller
  <2>0. ASSUME UNCHANGED <<input, output, config, owes, command_byte, misread>>, GiveUp PROVE CInv'
    BY <2>0 DEF GiveUp, ControllerType, CommandByteArrives, OneAnswer, Outstanding, Asked, Answered, Reply
  <2>1. CASE WriteWhenEmpty("disable", <<"0xad">>, "drain")
    <3>1. pc = "disable" /\ UNCHANGED <<output, config, owes, command_byte, misread>>
      BY <2>1 DEF WriteWhenEmpty
    <3>2. CASE input = <<>> /\ input' = <<"0xad">> /\ pc' = "drain" /\ ready' = FALSE
      BY <3>1, <3>2 DEF ControllerType, CommandByteArrives, OneAnswer, Outstanding, Asked, Answered, Reply
    <3> QED BY <2>1, <2>0, <3>1, <3>2 DEF WriteWhenEmpty
  <2>2. CASE drain_output
    <3>1. pc = "drain" /\ pc' \in {"drain", "ask"} /\ (output' = output \/ output' = None)
          /\ UNCHANGED <<input, config, owes, command_byte, misread, ready>>
      BY <2>2 DEF drain_output, Discard, controller
    <3> QED BY <3>1, Codes DEF ControllerType, CommandByteArrives, OneAnswer, Outstanding, Asked, Answered
  <2>3. CASE WriteWhenEmpty("ask", <<"0x20">>, "answer")
    <3>1. pc = "ask" /\ UNCHANGED <<output, config, owes, command_byte, misread>>
      BY <2>3 DEF WriteWhenEmpty
    <3>2. CASE input = <<>> /\ input' = <<"0x20">> /\ pc' = "answer" /\ ready' = FALSE
      BY <3>1, <3>2 DEF ControllerType, CommandByteArrives, OneAnswer, Outstanding, Asked, Answered, Reply
    <3> QED BY <2>3, <2>0, <3>1, <3>2 DEF WriteWhenEmpty
  <2>4. CASE ReadCommandByte
    <3>1. pc = "answer" /\ UNCHANGED <<input, config, owes>>
      BY <2>4 DEF ReadCommandByte, controller
    <3>2. CASE output # None /\ Discard /\ pc' = "announce" /\ UNCHANGED ready
               /\ command_byte' \in (IF output = Reply THEN {config} ELSE Config)
               /\ misread' = (output # Reply)
      <4>1. output' = None /\ None # Reply /\ Reply' = Reply /\ command_byte' \in Config
        BY <3>2, Codes DEF Discard, ControllerType, Reply
      <4>2. misread' \in BOOLEAN /\ (~ misread' => output = Reply)
        BY <3>2
      <4> QED BY <3>1, <3>2, <4>1, <4>2 DEF ControllerType, CommandByteArrives, OneAnswer, Outstanding, Asked, Answered
    <3> QED BY <2>4, <2>0, <3>1, <3>2 DEF ReadCommandByte
  <2>5. CASE WriteWhenEmpty("announce", <<"0x60">>, "configure")
    <3>1. pc = "announce" /\ UNCHANGED <<output, config, owes, command_byte, misread>>
      BY <2>5 DEF WriteWhenEmpty
    <3>2. CASE input = <<>> /\ input' = <<"0x60">> /\ pc' = "configure" /\ ready' = FALSE
      BY <3>1, <3>2 DEF ControllerType, CommandByteArrives, OneAnswer, Outstanding, Asked, Answered, Reply
    <3> QED BY <2>5, <2>0, <3>1, <3>2 DEF WriteWhenEmpty
  <2>6. CASE WriteWhenEmpty("configure", <<"data", Configured>>, "enable")
    <3>1. pc = "configure" /\ UNCHANGED <<output, config, owes, command_byte, misread>>
      BY <2>6 DEF WriteWhenEmpty
    <3>2. CASE input = <<>> /\ input' = <<"data", Configured>> /\ pc' = "enable" /\ ready' = FALSE
      BY <3>1, <3>2, ConfiguredWorks DEF ControllerType, CommandByteArrives, OneAnswer, Outstanding, Asked, Answered, Reply
    <3> QED BY <2>6, <2>0, <3>1, <3>2 DEF WriteWhenEmpty
  <2>7. CASE WriteWhenEmpty("enable", <<"0xae">>, "pic")
    <3>1. pc = "enable" /\ UNCHANGED <<output, config, owes, command_byte, misread>>
      BY <2>7 DEF WriteWhenEmpty
    <3>2. CASE input = <<>> /\ input' = <<"0xae">> /\ pc' = "pic" /\ ready' = TRUE
      BY <3>1, <3>2 DEF ControllerType, CommandByteArrives, OneAnswer, Outstanding, Asked, Answered, Reply
    <3> QED BY <2>7, <2>0, <3>1, <3>2 DEF WriteWhenEmpty
  <2> QED BY <1>5, <2>1, <2>2, <2>3, <2>4, <2>5, <2>6, <2>7 DEF initialize_controller
<1>6. CASE pic_initialize
  BY <1>6 DEF pic_initialize, ControllerType, CommandByteArrives, OneAnswer, Outstanding, Asked, Answered,
      controller, Config, Unset, Reply
<1>7. CASE timer_initialize
  BY <1>7, QuietStep DEF timer_initialize
<1>8. CASE EnableInterrupts
  BY <1>8, QuietStep DEF EnableInterrupts, setup
<1>9. CASE DeliverTimer
  BY <1>9, QuietStep DEF DeliverTimer, TimerInterrupt, Interrupt, Unaffected, setup
<1>10. CASE DeliverKeyboard
  BY <1>10, QuietStep DEF DeliverKeyboard, KeyboardInterrupt, Interrupt, Unaffected, setup
<1>11. CASE Tick
  BY <1>11, QuietStep DEF Tick, timer_interrupt_handler, Unaffected, setup
<1>12. CASE ReadLateAnswer
  BY <1>12, QuietStep, Codes DEF ReadLateAnswer, setup
<1>13. CASE ReadScancode /\ Unaffected
  BY <1>13, QuietStep, Codes DEF ReadScancode, Unaffected, setup
<1>14. CASE PushAndReturn /\ Unaffected
  BY <1>14, QuietStep DEF PushAndReturn, Unaffected, setup
<1>15. CASE Shell
  BY <1>15, QuietStep DEF Shell, Main, Poll, Handle, execute, Stop, EnableAndHlt, Unaffected, setup
<1>16. CASE UNCHANGED bringUpVars
  BY <1>16, QuietStep DEF bringUpVars, vars, processor, setup
<1> QED BY <1>1, <1>2, <1>3, <1>4, <1>5, <1>6, <1>7, <1>8, <1>9, <1>10, <1>11, <1>12, <1>13, <1>14,
           <1>15, <1>16 DEF BootNext, SetUp, Scancode, KeyboardHandler

\* What the 8042 and the set-up know of each other holds at every moment.
THEOREM ControllerInvariance == BootSpec => []CInv
<1> QED BY InitCInv, NextCInv, KeyInvariance, PTL DEF BootSpec

\* initialize_controller returns true only with the keyboard's port on and
\* interrupting, whenever the 8042 takes its commands and whatever byte was
\* read in place of its answer.
THEOREM ReadyIsTrue == BootSpec => []ReadyMeansReady
<1>1. CInv => ReadyMeansReady
  BY DEF CInv, CommandByteArrives, ReadyMeansReady, Working
<1> QED BY <1>1, ControllerInvariance, PTL

\* An answer of the 8042 reaches the interrupt handler only behind a set-up
\* that gave up or misread.
THEOREM AnswersAreRead == BootSpec => []AnswerIsNotAKey
<1>1. CInv => AnswerIsNotAKey
  BY DEF CInv, OneAnswer, Outstanding, Answered, AnswerIsNotAKey
<1> QED BY <1>1, ControllerInvariance, PTL

-----------------------------------------------------------------------------
(***************************************************************************)
(* halt and reboot.                                                        *)
(***************************************************************************)

\* A machine that has stopped runs no handler and takes no interrupt.
Stopped == pc = "stopped" => context = "main" /\ IF_flag = FALSE

\* cli comes before the loop that halts for ever, and nothing behind it sets
\* the flag again.
LEMMA NextStopped == Stopped /\ [BootNext]_bringUpVars => Stopped'
<1> SUFFICES ASSUME Stopped, [BootNext]_bringUpVars PROVE Stopped'
  OBVIOUS
<1>1. CASE Pit \/ ByteArrives \/ ControllerTakes \/ ControllerAnswers
  BY <1>1 DEF Stopped, Pit, PitFires, ByteArrives, ControllerTakes, ControllerAnswers, processor
<1>2. ASSUME NEW from, NEW value, NEW to, to # "stopped", WriteWhenEmpty(from, value, to)
      PROVE  Stopped'
  BY <1>2 DEF Stopped, WriteWhenEmpty, GiveUp
<1>3. CASE drain_output \/ ReadCommandByte
  BY <1>3 DEF Stopped, drain_output, ReadCommandByte, GiveUp
<1>4. CASE initialize_controller
  BY <1>2, <1>3, <1>4 DEF initialize_controller
<1>5. CASE pic_initialize \/ timer_initialize \/ EnableInterrupts
  BY <1>5 DEF Stopped, pic_initialize, timer_initialize, EnableInterrupts
<1>6. ASSUME NEW line, NEW handler, Interrupt(line, handler) PROVE Stopped'
  BY <1>6 DEF Stopped, Interrupt
<1>7. CASE DeliverTimer \/ DeliverKeyboard
  BY <1>6, <1>7 DEF DeliverTimer, DeliverKeyboard, TimerInterrupt, KeyboardInterrupt
<1>8. CASE Tick
  BY <1>8 DEF Stopped, Tick, timer_interrupt_handler, Return
<1>9. CASE Scancode
  BY <1>9 DEF Stopped, Scancode, ReadLateAnswer, KeyboardHandler, ReadScancode, PushAndReturn, Return
<1>10. CASE Shell
  BY <1>10 DEF Stopped, Shell, Main, Poll, Handle, execute, Stop, EnableAndHlt
<1>11. CASE UNCHANGED bringUpVars
  BY <1>11 DEF Stopped, bringUpVars, vars, processor
<1> QED BY <1>1, <1>4, <1>5, <1>7, <1>8, <1>9, <1>10, <1>11 DEF BootNext, SetUp

\* After halt and after reboot nothing moves but the devices.
THEOREM StoppedForGood == BootSpec => StoppedStaysStopped
<1>1. BootInit => Stopped
  BY DEF BootInit, Stopped
<1>2. Stopped /\ [BootNext]_bringUpVars
      => [pc = "stopped" => UNCHANGED <<context, pc, ticks, queue, handled>>]_vars
  <2> SUFFICES ASSUME Stopped, [BootNext]_bringUpVars, pc = "stopped"
               PROVE  UNCHANGED <<context, pc, ticks, queue, handled>>
    OBVIOUS
  <2>1. context = "main" /\ IF_flag = FALSE
    BY DEF Stopped
  <2>2. CASE Pit \/ ByteArrives \/ ControllerTakes \/ ControllerAnswers
    BY <2>2 DEF Pit, PitFires, ByteArrives, ControllerTakes, ControllerAnswers, processor, fifo
  <2>3. ~ SetUp
    BY Zenon DEF SetUp, initialize_controller, WriteWhenEmpty, drain_output, ReadCommandByte, pic_initialize,
        timer_initialize, EnableInterrupts
  <2>4. ~ (DeliverTimer \/ DeliverKeyboard)
    BY <2>1, Zenon DEF DeliverTimer, DeliverKeyboard, TimerInterrupt, KeyboardInterrupt, Interrupt
  <2>5. ~ (Tick \/ Scancode)
    BY <2>1 DEF Tick, timer_interrupt_handler, Scancode, ReadLateAnswer, KeyboardHandler, ReadScancode, PushAndReturn
  <2>6. ~ Shell
    BY DEF Shell, Main, Poll, Handle, execute, Stop, EnableAndHlt
  <2>7. CASE UNCHANGED bringUpVars
    BY <2>7 DEF bringUpVars, vars, processor, fifo
  <2> QED BY <2>2, <2>3, <2>4, <2>5, <2>6, <2>7 DEF BootNext
<1> QED BY <1>1, <1>2, NextStopped, PTL DEF BootSpec, StoppedStaysStopped
=============================================================================
