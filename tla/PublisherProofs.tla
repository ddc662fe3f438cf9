--------------------------- MODULE PublisherProofs ---------------------------
(* For any streams, connections, capacities and batch sizes: a batch never   *)
(* waits for a message that is not there, the messages of a stream leave the *)
(* process in order, each in one batch, and the broker takes the batches in  *)
(* the order they were made.                                                 *)
EXTENDS Publisher, SequenceTheorems, FiniteSetTheorems, WellFoundedInduction, TLAPS

\* Only a goroutine that is packing has messages left to receive.
WaitsOnlyPacking ==
    \A s \in Streams : phase[s] # "pack" => missing[s] = 0

BatchInv == PublisherTypeOK /\ NeverShort /\ WaitsOnlyPacking

\* A stream's symbol has a connection (GetMatchResultRabbitMq).
LEMMA ConnInPool ==
  ASSUME NEW s \in Streams
  PROVE  Conn(s) \in Conns
<1>1. s[1] \in Nat
  BY PublisherAssumption
<1> QED
  BY <1>1, PublisherAssumption DEF Conn, Conns

\* What follows the first message is already on the channel.
LEMMA ExtraIsThere ==
  ASSUME NEW s \in Streams, NEW len \in Nat
  PROVE  Extra(s, len) \in Nat /\ Extra(s, len) <= len
<1>1. s[2] \in Kinds
  BY PublisherAssumption
<1>2. CASE s[2] = "results"
  BY <1>2, PublisherAssumption DEF Extra, Least
<1>3. CASE s[2] = "quotes"
  BY <1>3, PublisherAssumption DEF Extra, Least
<1>4. CASE s[2] = "depth"
  BY <1>4, PublisherAssumption DEF Extra, Least
<1> QED
  BY <1>1, <1>2, <1>3, <1>4 DEF Kinds

\* Nothing is waited for at the beginning.
LEMMA BatchInit == Init => BatchInv
<1> SUFFICES ASSUME Init PROVE BatchInv
  OBVIOUS
<1>1. PublisherTypeOK
  BY PublisherAssumption DEF Init, PublisherTypeOK
<1>2. NeverShort /\ WaitsOnlyPacking
  BY DEF Init, NeverShort, WaitsOnlyPacking
<1> QED
  BY <1>1, <1>2 DEF BatchInv

\* A message written makes no batch wait.
LEMMA OfferKeeps ==
  ASSUME BatchInv, NEW s \in Streams, Offer(s)
  PROVE  BatchInv'
<1> USE DEF BatchInv
<1>1. ch[s] \in Seq(Nat) /\ made[s] \in Nat
  BY DEF PublisherTypeOK
<1>2. Append(ch[s], made[s] + 1) \in Seq(Nat)
  BY <1>1
<1>3. PublisherTypeOK'
  BY <1>1, <1>2 DEF PublisherTypeOK, Offer, connections
<1>4. NeverShort'
  <2> SUFFICES ASSUME NEW t \in Streams PROVE missing[t] <= Len(ch'[t])
    BY DEF NeverShort, Offer
  <2>1. CASE t = s
    <3>1. Len(ch'[s]) = Len(ch[s]) + 1
      BY <1>1 DEF Offer, PublisherTypeOK
    <3>2. missing[s] \in Nat /\ Len(ch[s]) \in Nat /\ missing[s] <= Len(ch[s])
      BY <1>1 DEF NeverShort, PublisherTypeOK
    <3> QED
      BY <2>1, <3>1, <3>2
  <2>2. CASE t # s
    BY <2>2 DEF Offer, NeverShort, PublisherTypeOK
  <2> QED
    BY <2>1, <2>2
<1>5. WaitsOnlyPacking'
  BY DEF WaitsOnlyPacking, Offer
<1> QED
  BY <1>3, <1>4, <1>5

\* Nothing is counted yet when the first message is received.
LEMMA FirstKeeps ==
  ASSUME BatchInv, NEW s \in Streams, First(s)
  PROVE  BatchInv'
<1> USE DEF BatchInv
<1>1. ch[s] \in Seq(Nat) /\ ch[s] # <<>>
  BY DEF PublisherTypeOK, First
<1>2. <<Head(ch[s])>> \in Seq(Nat) /\ Tail(ch[s]) \in Seq(Nat)
  BY <1>1
<1>3. PublisherTypeOK'
  BY <1>2 DEF PublisherTypeOK, First, connections
<1>4. NeverShort'
  <2> SUFFICES ASSUME NEW t \in Streams PROVE missing[t] <= Len(ch'[t])
    BY DEF NeverShort, First
  <2>1. CASE t = s
    <3>1. missing[s] = 0
      BY DEF First, WaitsOnlyPacking
    <3>2. ch'[s] = Tail(ch[s])
      BY DEF First, PublisherTypeOK
    <3>3. Len(ch'[s]) \in Nat
      BY <1>2, <3>2
    <3> QED
      BY <2>1, <3>1, <3>3
  <2>2. CASE t # s
    BY <2>2 DEF First, NeverShort, PublisherTypeOK
  <2> QED
    BY <2>1, <2>2
<1>5. WaitsOnlyPacking'
  BY DEF WaitsOnlyPacking, First, PublisherTypeOK
<1> QED
  BY <1>3, <1>4, <1>5

\* What is counted is there.
LEMMA CountKeeps ==
  ASSUME BatchInv, NEW s \in Streams, Count(s)
  PROVE  BatchInv'
<1> USE DEF BatchInv
<1> DEFINE extra == Extra(s, Len(ch[s]))
<1>1. ch[s] \in Seq(Nat)
  BY DEF PublisherTypeOK
<1>2. extra \in Nat /\ extra <= Len(ch[s])
  BY <1>1, ExtraIsThere
<1> HIDE DEF extra
<1>3. /\ missing' = [missing EXCEPT ![s] = extra]
      /\ phase' = [phase EXCEPT ![s] = "pack"]
      /\ UNCHANGED <<made, ch, batch, connections>>
  BY DEF Count, extra
<1>4. PublisherTypeOK'
  BY <1>2, <1>3 DEF PublisherTypeOK, connections
<1>5. NeverShort'
  BY <1>2, <1>3 DEF NeverShort, PublisherTypeOK
<1>6. WaitsOnlyPacking'
  BY <1>3 DEF WaitsOnlyPacking, PublisherTypeOK
<1> QED
  BY <1>4, <1>5, <1>6

\* A message received is one the channel had.
LEMMA PackKeeps ==
  ASSUME BatchInv, NEW s \in Streams, Pack(s)
  PROVE  BatchInv'
<1> USE DEF BatchInv
<1>1. /\ ch[s] \in Seq(Nat) /\ ch[s] # <<>> /\ batch[s] \in Seq(Nat)
      /\ missing[s] \in Nat /\ missing[s] > 0
  BY DEF PublisherTypeOK, Pack
<1>2. Append(batch[s], Head(ch[s])) \in Seq(Nat) /\ Tail(ch[s]) \in Seq(Nat)
  BY <1>1
<1>3. missing[s] - 1 \in Nat
  BY <1>1
<1>4. PublisherTypeOK'
  BY <1>2, <1>3 DEF PublisherTypeOK, Pack, connections
<1>5. NeverShort'
  <2> SUFFICES ASSUME NEW t \in Streams PROVE missing'[t] <= Len(ch'[t])
    BY DEF NeverShort
  <2>1. CASE t = s
    <3>1. missing'[s] = missing[s] - 1 /\ ch'[s] = Tail(ch[s])
      BY DEF Pack, PublisherTypeOK
    <3>2. Len(Tail(ch[s])) = Len(ch[s]) - 1
      BY <1>1
    <3>3. missing[s] <= Len(ch[s]) /\ Len(ch[s]) \in Nat
      BY <1>1 DEF NeverShort
    <3> QED
      BY <2>1, <3>1, <3>2, <3>3, <1>1
  <2>2. CASE t # s
    BY <2>2 DEF Pack, NeverShort, PublisherTypeOK
  <2> QED
    BY <2>1, <2>2
<1>6. WaitsOnlyPacking'
  BY DEF WaitsOnlyPacking, Pack, PublisherTypeOK
<1> QED
  BY <1>4, <1>5, <1>6

\* A batch is handed on when nothing is missing.
LEMMA PublishWithChanKeeps ==
  ASSUME BatchInv, NEW s \in Streams, PublishWithChan(s)
  PROVE  BatchInv'
<1> USE DEF BatchInv
<1> DEFINE c == Conn(s)
           message == [stream |-> s, items |-> batch[s]]
<1>1. c \in Conns
  BY ConnInPool
<1>2. message \in Message
  BY DEF Message, PublisherTypeOK
<1> HIDE DEF c, message
<1>3. publishChan' = [publishChan EXCEPT ![c] = Append(@, message)]
  BY DEF PublishWithChan, c, message
<1>4. publishChan[c] \in Seq(Message)
  BY <1>1 DEF PublisherTypeOK
<1>5. publishChan' \in [Conns -> Seq(Message)]
  BY <1>1, <1>2, <1>3, <1>4 DEF PublisherTypeOK
<1>6. batch' \in [Streams -> Seq(Nat)]
  BY DEF PublisherTypeOK, PublishWithChan
<1>7. PublisherTypeOK'
  BY <1>5, <1>6 DEF PublisherTypeOK, PublishWithChan
<1>8. NeverShort'
  BY DEF NeverShort, PublishWithChan
<1>9. WaitsOnlyPacking'
  BY DEF WaitsOnlyPacking, PublishWithChan, PublisherTypeOK
<1> QED
  BY <1>7, <1>8, <1>9

\* The connection's side touches no stream.
LEMMA ConnectionKeeps ==
  ASSUME BatchInv, NEW c \in Conns,
         Publish(c) \/ Deliver(c) \/ Drop(c) \/ Notice(c)
  PROVE  BatchInv'
<1> USE DEF BatchInv
<1>0. /\ held[c] \in Seq(Message) /\ publishChan[c] \in Seq(Message)
      /\ wire[c] \in Seq(Message) /\ broker[c] \in Seq(Message)
  BY DEF PublisherTypeOK
<1>1. UNCHANGED streams
  BY DEF Publish, Receive, Written, WriteFails, Reconnect, Deliver, Drop, Notice
<1>2. NeverShort' /\ WaitsOnlyPacking'
  BY <1>1 DEF streams, NeverShort, WaitsOnlyPacking
<1>3. PublisherTypeOK'
  <2>1. CASE Receive(c)
    <3>1. publishChan[c] # <<>>
      BY <2>1 DEF Receive
    <3>2. <<Head(publishChan[c])>> \in Seq(Message) /\ Tail(publishChan[c]) \in Seq(Message)
      BY <1>0, <3>1
    <3> QED
      BY <2>1, <3>2 DEF Receive, PublisherTypeOK, streams
  <2>2. CASE Written(c)
    <3>1. wire[c] \o held[c] \in Seq(Message)
      BY <1>0
    <3>2. wire' \in [Conns -> Seq(Message)]
      BY <2>2, <3>1 DEF Written, PublisherTypeOK
    <3>3. held' \in [Conns -> Seq(Message)]
      BY <2>2 DEF Written, PublisherTypeOK
    <3> QED
      BY <2>2, <3>2, <3>3 DEF Written, PublisherTypeOK, streams
  <2>3. CASE WriteFails(c)
    <3>1. broker[c] \o held[c] \in Seq(Message)
      BY <1>0
    <3>2. broker' \in [Conns -> Seq(Message)]
      BY <2>3, <3>1 DEF WriteFails, PublisherTypeOK
    <3> QED
      BY <2>3, <3>2 DEF WriteFails, PublisherTypeOK, streams
  <2>4. CASE Reconnect(c)
    BY <2>4 DEF Reconnect, PublisherTypeOK, streams
  <2>5. CASE Deliver(c)
    <3>1. wire[c] # <<>>
      BY <2>5 DEF Deliver
    <3>2. Append(broker[c], Head(wire[c])) \in Seq(Message) /\ Tail(wire[c]) \in Seq(Message)
      BY <1>0, <3>1
    <3> QED
      BY <2>5, <3>2 DEF Deliver, PublisherTypeOK, streams
  <2>6. CASE Drop(c)
    BY <2>6, PublisherAssumption DEF Drop, PublisherTypeOK, streams
  <2>7. CASE Notice(c)
    BY <2>7 DEF Notice, PublisherTypeOK, streams
  <2> QED
    BY <2>1, <2>2, <2>3, <2>4, <2>5, <2>6, <2>7 DEF Publish
<1> QED
  BY <1>2, <1>3

\* No step makes a batch wait.
LEMMA BatchNext == BatchInv /\ [Next]_vars => BatchInv'
<1> SUFFICES ASSUME BatchInv, [Next]_vars PROVE BatchInv'
  OBVIOUS
<1>1. ASSUME NEW s \in Streams, Offer(s) \/ Batching(s) PROVE BatchInv'
  BY <1>1, OfferKeeps, FirstKeeps, CountKeeps, PackKeeps, PublishWithChanKeeps DEF Batching
<1>2. ASSUME NEW c \in Conns, Publish(c) \/ Deliver(c) \/ Drop(c) \/ Notice(c) PROVE BatchInv'
  BY <1>2, ConnectionKeeps
<1>3. CASE UNCHANGED vars
  BY <1>3 DEF vars, BatchInv, PublisherTypeOK, NeverShort, WaitsOnlyPacking
<1> QED
  BY <1>1, <1>2, <1>3 DEF Next

\* The variables of the publishing goroutines keep their types
\* (PublishResultChan, thread, sendToMQ, PublishWithChan).
THEOREM PublisherTyped == Spec => []PublisherTypeOK
<1>1. BatchInv => PublisherTypeOK
  BY DEF BatchInv
<1> QED
  BY <1>1, BatchInit, BatchNext, PTL DEF Spec

\* The size a goroutine reads from its channel before it fills a batch never
\* exceeds what the channel holds, for any streams, capacities and batch sizes
\* (PublishResultChan, thread, sendToMQ).
THEOREM BatchesNeverWait == Spec => []NeverShort
<1>1. BatchInv => NeverShort
  BY DEF BatchInv
<1> QED
  BY <1>1, BatchInit, BatchNext, PTL DEF Spec

-----------------------------------------------------------------------------
(* Numbers and sequences of sequences *)

\* A set of numbers has a least one.
LEMMA LeastNumber ==
  ASSUME NEW S, S \subseteq Nat, S # {}
  PROVE  \E n \in S : \A k \in S : n <= k
<1> DEFINE T == {0 .. k : k \in S}
           R == StrictSubsetOrdering(Nat)
<1>1. T \subseteq FiniteSubsetsOf(Nat)
  <2>1. \A k \in S : 0 .. k \subseteq Nat /\ IsFiniteSet(0 .. k)
    BY FS_Interval
  <2>2. QED
    BY <2>1 DEF FiniteSubsetsOf
<1>2. IsWellFoundedOn(R, FiniteSubsetsOf(Nat))
  BY FS_StrictSubsetOrderingWellFounded
<1>3. T # {}
  OBVIOUS
<1>4. PICK U \in T : \A V \in T : ~(<<V, U>> \in R)
  <2> HIDE DEF T, R
  <2>1. QED
    BY <1>1, <1>2, <1>3, WFMin
<1>5. PICK n \in S : U = 0 .. n
  OBVIOUS
<1>6. ASSUME NEW k \in S, ~(n <= k)
      PROVE  FALSE
  <2>1. 0 .. k \subseteq 0 .. n /\ n \in 0 .. n /\ n \notin 0 .. k
    BY <1>6
  <2>2. 0 .. k \in SUBSET Nat /\ 0 .. n \in SUBSET Nat
    OBVIOUS
  <2>3. <<0 .. k, U>> \in R
    BY <1>5, <2>1, <2>2 DEF StrictSubsetOrdering
  <2>4. 0 .. k \in T
    OBVIOUS
  <2> HIDE DEF T, R
  <2>5. QED
    BY <1>4, <2>3, <2>4
<1>7. QED
  BY <1>6

\* f[i] is the first i sequences of seqs, one after the other.
Joins(f, seqs, n) ==
  f = [i \in 1 .. n |-> IF i = 1 THEN seqs[i] ELSE f[i - 1] \o seqs[i]]

\* Two such functions agree as far as their sequences do.
LEMMA JoinsUnique ==
  ASSUME NEW f, NEW h, NEW a, NEW b, NEW n \in Nat, NEW m \in Nat,
         Joins(f, a, n), Joins(h, b, m),
         NEW i \in 1 .. n, i \in 1 .. m, \A j \in 1 .. i : a[j] = b[j]
  PROVE  f[i] = h[i]
<1> DEFINE Bad == {j \in 1 .. i : f[j] # h[j]}
<1> SUFFICES ASSUME Bad # {} PROVE FALSE
  BY i \in 1 .. i
<1>1. PICK j \in Bad : \A k \in Bad : j <= k
  <2>1. Bad \subseteq Nat
    OBVIOUS
  <2> HIDE DEF Bad
  <2>2. QED
    BY <2>1, LeastNumber
<1>2. j \in 1 .. n /\ j \in 1 .. m /\ j \in 1 .. i /\ f[j] # h[j] /\ a[j] = b[j]
  OBVIOUS
<1>3. CASE j = 1
  BY <1>2, <1>3 DEF Joins
<1>4. CASE j # 1
  <2>1. j - 1 \in 1 .. i /\ ~(j <= j - 1)
    BY <1>2, <1>4
  <2>2. f[j - 1] = h[j - 1]
    BY <1>1, <2>1
  <2>3. f[j] = f[j - 1] \o a[j] /\ h[j] = h[j - 1] \o b[j]
    BY <1>2, <1>4 DEF Joins
  <2>4. QED
    BY <1>2, <2>2, <2>3
<1>5. QED
  BY <1>3, <1>4

\* There is one of every length.
LEMMA JoinsExists ==
  ASSUME NEW seqs, NEW n \in Nat
  PROVE  \E f : Joins(f, seqs, n)
<1> DEFINE Bad == {k \in Nat : ~\E f : Joins(f, seqs, k)}
<1> SUFFICES ASSUME Bad # {} PROVE FALSE
  OBVIOUS
<1>1. PICK k \in Bad : \A l \in Bad : k <= l
  <2>1. Bad \subseteq Nat
    OBVIOUS
  <2> HIDE DEF Bad
  <2>2. QED
    BY <2>1, LeastNumber
<1>2. k \in Nat /\ ~\E f : Joins(f, seqs, k)
  OBVIOUS
<1>3. k # 0
  <2>1. Joins([i \in 1 .. 0 |-> 0], seqs, 0)
    BY DEF Joins
  <2>2. QED
    BY <1>2, <2>1
<1>4. PICK f : Joins(f, seqs, k - 1)
  <2>1. k - 1 \in Nat /\ ~(k <= k - 1)
    BY <1>2, <1>3
  <2>2. k - 1 \notin Bad
    BY <1>1, <2>1
  <2>3. QED
    BY <2>1, <2>2
<1> DEFINE h == [i \in 1 .. k |-> IF i < k THEN f[i]
                                  ELSE IF i = 1 THEN seqs[i] ELSE f[i - 1] \o seqs[i]]
<1>5. \A i \in 1 .. k : h[i] = IF i = 1 THEN seqs[i] ELSE h[i - 1] \o seqs[i]
  <2> TAKE i \in 1 .. k
  <2>1. CASE i < k
    <3>1. i \in 1 .. k - 1 /\ h[i] = f[i]
      BY <1>2, <2>1
    <3>2. f[i] = IF i = 1 THEN seqs[i] ELSE f[i - 1] \o seqs[i]
      BY <1>4, <3>1 DEF Joins
    <3>3. i # 1 => h[i - 1] = f[i - 1]
      BY <1>2, <2>1
    <3> HIDE DEF h
    <3>4. QED
      BY <3>1, <3>2, <3>3
  <2>2. CASE i = k
    <3>1. h[i] = IF i = 1 THEN seqs[i] ELSE f[i - 1] \o seqs[i]
      BY <2>2
    <3>2. i # 1 => h[i - 1] = f[i - 1]
      BY <1>2, <2>2
    <3> HIDE DEF h
    <3>3. QED
      BY <3>1, <3>2
  <2>3. QED
    BY <1>2, <2>1, <2>2
<1>6. h = [i \in 1 .. k |-> h[i]]
  OBVIOUS
<1> HIDE DEF h
<1>7. Joins(h, seqs, k)
  BY <1>5, <1>6 DEF Joins
<1>8. QED
  BY <1>2, <1>7

\* FlattenSeq is the last value of such a function.
LEMMA FlattenIs ==
  ASSUME NEW seqs \in Seq(Seq(Nat))
  PROVE  /\ seqs = <<>> => FlattenSeq(seqs) = <<>>
         /\ seqs # <<>> => \E f : Joins(f, seqs, Len(seqs)) /\ FlattenSeq(seqs) = f[Len(seqs)]
<1>1. CASE seqs = <<>>
  BY <1>1 DEF FlattenSeq
<1>2. CASE seqs # <<>>
  <2>1. Len(seqs) \in Nat /\ Len(seqs) # 0
    BY <1>2, EmptySeq
  <2>2. \E f : Joins(f, seqs, Len(seqs))
    BY <2>1, JoinsExists
  <2> DEFINE f == CHOOSE h : Joins(h, seqs, Len(seqs))
  <2>3. Joins(f, seqs, Len(seqs))
    <3> HIDE DEF Joins
    <3>1. QED
      BY <2>2
  <2>4. FlattenSeq(seqs) = f[Len(seqs)]
    BY <2>1 DEF FlattenSeq, Joins
  <2> HIDE DEF f
  <2>5. QED
    BY <1>2, <2>3, <2>4
<1>3. QED
  BY <1>1, <1>2

\* The joined sequences are sequences.
LEMMA JoinsTyped ==
  ASSUME NEW seqs \in Seq(Seq(Nat)), NEW f, Joins(f, seqs, Len(seqs)),
         NEW i \in 1 .. Len(seqs)
  PROVE  f[i] \in Seq(Nat)
<1> DEFINE Bad == {j \in 1 .. Len(seqs) : f[j] \notin Seq(Nat)}
<1> SUFFICES ASSUME Bad # {} PROVE FALSE
  OBVIOUS
<1>0. Len(seqs) \in Nat
  OBVIOUS
<1>1. PICK j \in Bad : \A k \in Bad : j <= k
  <2>1. Bad \subseteq Nat
    BY <1>0
  <2> HIDE DEF Bad
  <2>2. QED
    BY <2>1, LeastNumber
<1>2. j \in 1 .. Len(seqs) /\ f[j] \notin Seq(Nat) /\ seqs[j] \in Seq(Nat)
  OBVIOUS
<1>3. CASE j = 1
  BY <1>2, <1>3 DEF Joins
<1>4. CASE j # 1
  <2>1. j - 1 \in 1 .. Len(seqs) /\ ~(j <= j - 1)
    BY <1>0, <1>2, <1>4
  <2>2. f[j - 1] \in Seq(Nat)
    BY <1>1, <2>1
  <2>3. f[j] = f[j - 1] \o seqs[j]
    BY <1>2, <1>4 DEF Joins
  <2>4. QED
    BY <1>2, <2>2, <2>3, ConcatProperties
<1>5. QED
  BY <1>3, <1>4

\* A joined sequence is one of numbers.
LEMMA FlattenTyped ==
  ASSUME NEW seqs \in Seq(Seq(Nat))
  PROVE  FlattenSeq(seqs) \in Seq(Nat)
<1>1. CASE seqs = <<>>
  BY <1>1, FlattenIs, EmptySeq
<1>2. CASE seqs # <<>>
  <2>1. PICK f : Joins(f, seqs, Len(seqs)) /\ FlattenSeq(seqs) = f[Len(seqs)]
    BY <1>2, FlattenIs
  <2>2. Len(seqs) \in 1 .. Len(seqs)
    BY <1>2, EmptySeq
  <2>3. QED
    BY <2>1, <2>2, JoinsTyped
<1>3. QED
  BY <1>1, <1>2

\* A sequence added behind the others is the end of the joined one.
LEMMA FlattenAppend ==
  ASSUME NEW seqs \in Seq(Seq(Nat)), NEW x \in Seq(Nat)
  PROVE  FlattenSeq(Append(seqs, x)) = FlattenSeq(seqs) \o x
<1>a. PICK all : all = Append(seqs, x)
  OBVIOUS
<1>b. PICK n : n = Len(seqs)
  OBVIOUS
<1>1. /\ all \in Seq(Seq(Nat)) /\ all # <<>>
      /\ n \in Nat /\ Len(all) = n + 1
      /\ \A i \in 1 .. n : all[i] = seqs[i]
      /\ all[n + 1] = x
  BY <1>a, <1>b, AppendProperties, LenProperties
<1>2. PICK f : Joins(f, all, n + 1) /\ FlattenSeq(all) = f[n + 1]
  BY <1>1, FlattenIs
<1>3. f[n + 1] = IF n + 1 = 1 THEN x ELSE f[(n + 1) - 1] \o x
  <2>1. n + 1 \in 1 .. n + 1
    BY <1>1
  <2>2. QED
    BY <1>1, <1>2, <2>1 DEF Joins
<1>4. CASE seqs = <<>>
  <2>1. FlattenSeq(seqs) = <<>> /\ n = 0
    BY <1>4, <1>b, FlattenIs
  <2>2. FlattenSeq(all) = x
    BY <1>2, <1>3, <2>1
  <2>3. <<>> \o x = x
    BY ConcatEmptySeq
  <2>4. QED
    BY <1>a, <2>1, <2>2, <2>3
<1>5. CASE seqs # <<>>
  <2>1. PICK h : Joins(h, seqs, n) /\ FlattenSeq(seqs) = h[n]
    BY <1>5, <1>b, FlattenIs
  <2>2. n \in 1 .. n /\ n \in 1 .. n + 1 /\ n + 1 # 1 /\ (n + 1) - 1 = n /\ n + 1 \in Nat
    BY <1>1, <1>5, <1>b, EmptySeq
  <2>3. \A i \in 1 .. n : all[i] = seqs[i]
    BY <1>1
  <2>4. f[n] = h[n]
    BY <1>1, <1>2, <2>1, <2>2, <2>3, JoinsUnique
  <2>5. QED
    BY <1>2, <1>3, <1>a, <2>1, <2>2, <2>4
<1>6. QED
  BY <1>4, <1>5

\* Joining is associative.
LEMMA JoinAssociative ==
  ASSUME NEW u \in Seq(Nat), NEW v \in Seq(Nat), NEW w \in Seq(Nat)
  PROVE  (u \o v) \o w = u \o (v \o w)
  OBVIOUS

\* A sequence put before the others is the beginning of the joined one.
LEMMA FlattenCons ==
  ASSUME NEW seqs \in Seq(Seq(Nat)), NEW x \in Seq(Nat)
  PROVE  FlattenSeq(<<x>> \o seqs) = x \o FlattenSeq(seqs)
<1> DEFINE n == Len(seqs)
           all == <<x>> \o seqs
<1>1. /\ all \in Seq(Seq(Nat)) /\ all # <<>>
      /\ n \in Nat /\ Len(all) = n + 1
      /\ all[1] = x /\ \A i \in 1 .. n : all[i + 1] = seqs[i]
  OBVIOUS
<1> HIDE DEF all
<1>2. PICK f : Joins(f, all, n + 1) /\ FlattenSeq(all) = f[n + 1]
  BY <1>1, FlattenIs
<1>3. f[1] = x /\ \A i \in 1 .. n : f[i + 1] = f[i] \o seqs[i]
  <2>1. f[1] = x
    BY <1>1, <1>2 DEF Joins
  <2>2. ASSUME NEW i \in 1 .. n PROVE f[i + 1] = f[i] \o seqs[i]
    <3>1. i + 1 \in 1 .. n + 1 /\ i + 1 # 1 /\ (i + 1) - 1 = i
      BY <1>1
    <3>2. f[i + 1] = f[(i + 1) - 1] \o all[i + 1]
      BY <1>2, <3>1 DEF Joins
    <3>3. QED
      BY <1>1, <3>1, <3>2
  <2>3. QED
    BY <2>1, <2>2
<1>4. CASE seqs = <<>>
  <2>1. FlattenSeq(seqs) = <<>> /\ n = 0
    BY <1>4, FlattenIs
  <2>2. x \o <<>> = x
    BY ConcatEmptySeq
  <2>3. QED
    BY <1>2, <1>3, <2>1, <2>2 DEF all
<1>5. CASE seqs # <<>>
  <2>1. PICK h : Joins(h, seqs, n) /\ FlattenSeq(seqs) = h[n]
    BY <1>5, FlattenIs
  <2>2. n \in 1 .. n
    BY <1>1, <1>5, EmptySeq
  <2> DEFINE Bad == {i \in 1 .. n : f[i + 1] # x \o h[i]}
  <2>3. Bad = {}
    <3> SUFFICES ASSUME Bad # {} PROVE FALSE
      OBVIOUS
    <3>1. PICK i \in Bad : \A k \in Bad : i <= k
      <4>1. Bad \subseteq Nat
        BY <1>1
      <4> HIDE DEF Bad
      <4>2. QED
        BY <4>1, LeastNumber
    <3>2. i \in 1 .. n /\ f[i + 1] # x \o h[i] /\ f[i + 1] = f[i] \o seqs[i]
      BY <1>3
    <3>3. CASE i = 1
      BY <1>3, <2>1, <3>2, <3>3 DEF Joins
    <3>4. CASE i # 1
      <4>1. i - 1 \in 1 .. n /\ ~(i <= i - 1) /\ (i - 1) + 1 = i
        BY <1>1, <3>2, <3>4
      <4>2. f[i] = x \o h[i - 1]
        BY <3>1, <4>1
      <4>3. h[i] = h[i - 1] \o seqs[i]
        BY <2>1, <3>2, <3>4 DEF Joins
      <4>4. h[i - 1] \in Seq(Nat) /\ seqs[i] \in Seq(Nat)
        <5>1. i - 1 \in 1 .. Len(seqs) /\ i \in 1 .. Len(seqs) /\ Joins(h, seqs, Len(seqs))
          BY <2>1, <3>2, <4>1
        <5>2. seqs[i] \in Seq(Nat)
          BY <5>1, ElementOfSeq
        <5> HIDE DEF n, Bad
        <5>3. QED
          BY <5>1, <5>2, JoinsTyped
      <4>5. (x \o h[i - 1]) \o seqs[i] = x \o (h[i - 1] \o seqs[i])
        BY <4>4, JoinAssociative, Zenon
      <4>6. QED
        BY <3>2, <4>2, <4>3, <4>5
    <3>5. QED
      BY <3>3, <3>4
  <2>4. QED
    BY <1>2, <2>1, <2>2, <2>3 DEF all
<1>6. QED
  BY <1>4, <1>5

-----------------------------------------------------------------------------
(* The messages of one stream in a sequence of batches *)

Own(s, m) == IF m.stream = s THEN m.items ELSE <<>>

\* What ItemsOf joins.
OwnOf(s, messages) ==
  [i \in DOMAIN messages |-> IF messages[i].stream = s THEN messages[i].items ELSE <<>>]

\* The own part of a batch is a sequence of numbers.
LEMMA OwnTyped ==
  ASSUME NEW s, NEW m \in Message
  PROVE  Own(s, m) \in Seq(Nat)
BY EmptySeq DEF Own, Message

\* So are the own parts of many.
LEMMA OwnOfTyped ==
  ASSUME NEW s, NEW messages \in Seq(Message)
  PROVE  /\ OwnOf(s, messages) \in Seq(Seq(Nat))
         /\ Len(OwnOf(s, messages)) = Len(messages)
         /\ \A i \in 1 .. Len(messages) : OwnOf(s, messages)[i] = Own(s, messages[i])
<1>1. Len(messages) \in Nat /\ DOMAIN messages = 1 .. Len(messages)
  OBVIOUS
<1>2. \A i \in 1 .. Len(messages) : OwnOf(s, messages)[i] = Own(s, messages[i])
  BY <1>1 DEF OwnOf, Own
<1>3. \A i \in 1 .. Len(messages) : Own(s, messages[i]) \in Seq(Nat)
  BY OwnTyped
<1>4. OwnOf(s, messages) \in [1 .. Len(messages) -> Seq(Nat)]
  BY <1>1, <1>2, <1>3 DEF OwnOf
<1>5. QED
  BY <1>1, <1>2, <1>4

\* The messages of a stream in batches are their own parts joined.
LEMMA ItemsAreOwn ==
  ASSUME NEW s, NEW messages
  PROVE  ItemsOf(s, messages) = FlattenSeq(OwnOf(s, messages))
BY DEF ItemsOf, OwnOf

\* They are numbers.
LEMMA ItemsTyped ==
  ASSUME NEW s, NEW messages \in Seq(Message)
  PROVE  ItemsOf(s, messages) \in Seq(Nat)
<1>1. OwnOf(s, messages) \in Seq(Seq(Nat))
  BY OwnOfTyped
<1>2. QED
  BY <1>1, FlattenTyped, ItemsAreOwn

\* There are none in no batch.
LEMMA ItemsOfNone ==
  ASSUME NEW s
  PROVE  ItemsOf(s, <<>>) = <<>>
<1>1. <<>> \in Seq(Message) /\ Len(<<>>) = 0
  BY EmptySeq
<1>2. OwnOf(s, <<>>) \in Seq(Seq(Nat)) /\ Len(OwnOf(s, <<>>)) = 0
  BY <1>1, OwnOfTyped
<1>3. OwnOf(s, <<>>) = <<>>
  BY <1>2
<1>4. QED
  BY <1>2, <1>3, FlattenIs DEF ItemsOf, OwnOf

\* A batch behind the others adds its own at the end.
LEMMA ItemsAppend ==
  ASSUME NEW s, NEW messages \in Seq(Message), NEW m \in Message
  PROVE  ItemsOf(s, Append(messages, m)) = ItemsOf(s, messages) \o Own(s, m)
<1>a. PICK n : n = Len(messages)
  OBVIOUS
<1>b. PICK all : all = Append(messages, m)
  OBVIOUS
<1>c. PICK T : T = Seq(Nat)
  OBVIOUS
<1>d. PICK own, others, both :
      /\ own = Own(s, m) /\ others = OwnOf(s, messages)
      /\ both = OwnOf(s, all)
  OBVIOUS
<1>1. /\ all \in Seq(Message) /\ n \in Nat /\ Len(all) = n + 1
      /\ \A i \in 1 .. n : all[i] = messages[i]
      /\ all[n + 1] = m
  BY <1>a, <1>b, AppendProperties, LenProperties
<1>2. /\ both \in Seq(T) /\ Len(both) = n + 1
      /\ \A i \in 1 .. n + 1 : both[i] = Own(s, all[i])
  BY <1>1, <1>c, <1>d, OwnOfTyped
<1>3. /\ others \in Seq(T) /\ Len(others) = n
      /\ \A i \in 1 .. n : others[i] = Own(s, messages[i])
  BY <1>a, <1>c, <1>d, OwnOfTyped
<1>4. own \in T
  BY <1>c, <1>d, OwnTyped
<1>5. /\ Append(others, own) \in Seq(T)
      /\ Len(Append(others, own)) = n + 1
      /\ \A i \in 1 .. n : Append(others, own)[i] = others[i]
      /\ Append(others, own)[n + 1] = own
  BY <1>3, <1>4, AppendProperties
<1>6. both = Append(others, own)
  <2>1. \A i \in 1 .. n + 1 : both[i] = Append(others, own)[i]
    <3>1. \A i \in 1 .. n + 1 : i \in 1 .. n \/ i = n + 1
      BY <1>1
    <3>2. both[n + 1] = own
      <4>1. n + 1 \in 1 .. n + 1
        BY <1>1
      <4>2. QED
        BY <1>1, <1>2, <1>d, <4>1
    <3>3. QED
      BY <1>1, <1>2, <1>3, <1>5, <1>d, <3>1, <3>2
  <2>2. QED
    BY <1>2, <1>5, <2>1, SeqEqual
<1>7. FlattenSeq(both) = FlattenSeq(others) \o own
  BY <1>3, <1>4, <1>6, <1>c, FlattenAppend
<1>8. QED
  BY <1>7, <1>b, <1>d, ItemsAreOwn

\* A batch before the others puts its own at the beginning.
LEMMA ItemsCons ==
  ASSUME NEW s, NEW messages \in Seq(Message), NEW m \in Message
  PROVE  ItemsOf(s, <<m>> \o messages) = Own(s, m) \o ItemsOf(s, messages)
<1>a. PICK n : n = Len(messages)
  OBVIOUS
<1>b. PICK all : all = <<m>> \o messages
  OBVIOUS
<1>c. PICK T : T = Seq(Nat)
  OBVIOUS
<1>d. PICK own, others, both :
      /\ own = Own(s, m) /\ others = OwnOf(s, messages)
      /\ both = OwnOf(s, all)
  OBVIOUS
<1>1. /\ all \in Seq(Message) /\ n \in Nat /\ Len(all) = n + 1
      /\ \A i \in 1 .. n + 1 : all[i] = IF i = 1 THEN m ELSE messages[i - 1]
  <2>1. <<m>> \in Seq(Message) /\ Len(<<m>>) = 1 /\ <<m>>[1] = m /\ n \in Nat
    BY <1>a
  <2>2. QED
    BY <1>a, <1>b, <2>1, ConcatProperties
<1>2. /\ both \in Seq(T) /\ Len(both) = n + 1
      /\ \A i \in 1 .. n + 1 : both[i] = Own(s, all[i])
  <2>1. all \in Seq(Message) /\ Len(all) = n + 1
    BY <1>1
  <2>2. QED
    BY <2>1, <1>c, <1>d, OwnOfTyped
<1>3. /\ others \in Seq(T) /\ Len(others) = n
      /\ \A i \in 1 .. n : others[i] = Own(s, messages[i])
  BY <1>a, <1>c, <1>d, OwnOfTyped
<1>4. own \in T
  BY <1>c, <1>d, OwnTyped
<1>5. /\ <<own>> \o others \in Seq(T)
      /\ Len(<<own>> \o others) = n + 1
      /\ \A i \in 1 .. n + 1 : (<<own>> \o others)[i] = IF i = 1 THEN own ELSE others[i - 1]
  <2>1. <<own>> \in Seq(T) /\ Len(<<own>>) = 1 /\ <<own>>[1] = own
    BY <1>4
  <2>2. QED
    BY <1>1, <1>3, <2>1, ConcatProperties
<1>6. both = <<own>> \o others
  <2>1. ASSUME NEW i \in 1 .. n + 1 PROVE both[i] = (<<own>> \o others)[i]
    <3>1. CASE i = 1
      BY <1>1, <1>2, <1>5, <1>d, <3>1
    <3>2. CASE i # 1
      <4>1. i - 1 \in 1 .. n
        BY <1>1, <3>2
      <4>2. both[i] = Own(s, messages[i - 1])
        BY <1>1, <1>2, <3>2
      <4>3. QED
        BY <1>3, <1>5, <3>2, <4>1, <4>2
    <3>3. QED
      BY <3>1, <3>2
  <2>2. QED
    BY <1>2, <1>5, <2>1, SeqEqual
<1>7. FlattenSeq(both) = own \o FlattenSeq(others)
  BY <1>3, <1>4, <1>6, <1>c, FlattenCons
<1>8. QED
  BY <1>7, <1>b, <1>d, ItemsAreOwn

-----------------------------------------------------------------------------
(* The latest messages *)

\* u holds the numbers up to n, as many as it is long.
Latest(u, n) == u = [i \in 1 .. Len(u) |-> n - Len(u) + i]

\* A new message is the latest.
LEMMA LatestGrows ==
  ASSUME NEW u \in Seq(Nat), NEW n \in Nat, Latest(u, n)
  PROVE  Latest(Append(u, n + 1), n + 1)
<1> PICK v : v = Append(u, n + 1)
  OBVIOUS
<1>1. /\ v \in Seq(Nat) /\ Len(v) = Len(u) + 1 /\ Len(u) \in Nat
      /\ \A i \in 1 .. Len(u) : v[i] = u[i]
      /\ v[Len(u) + 1] = n + 1
  BY AppendProperties, LenProperties
<1>2. \A i \in 1 .. Len(u) : u[i] = n - Len(u) + i
  BY DEF Latest
<1>3. \A i \in 1 .. Len(v) : v[i] = (n + 1) - Len(v) + i
  <2> TAKE i \in 1 .. Len(v)
  <2>1. i \in 1 .. Len(u) \/ i = Len(u) + 1
    BY <1>1
  <2>2. QED
    BY <1>1, <1>2, <2>1
<1>4. v = [i \in 1 .. Len(v) |-> v[i]]
  BY <1>1
<1>5. QED
  BY <1>3, <1>4 DEF Latest

\* What follows is the latest when all is; what goes first ends before it.
LEMMA LatestSplits ==
  ASSUME NEW a \in Seq(Nat), NEW b \in Seq(Nat), NEW n \in Nat, Latest(a \o b, n)
  PROVE  /\ Latest(b, n)
         /\ Len(a \o b) = Len(a) + Len(b)
         /\ a # <<>> => Head(a) = n - Len(a \o b) + 1 /\ Last(a) = n - Len(b)
<1>a. PICK v : v = a \o b
  OBVIOUS
<1>1. /\ v \in Seq(Nat) /\ Len(a) \in Nat /\ Len(b) \in Nat /\ Len(v) = Len(a) + Len(b)
      /\ \A i \in 1 .. Len(a) + Len(b) :
           v[i] = IF i <= Len(a) THEN a[i] ELSE b[i - Len(a)]
  BY <1>a, ConcatProperties, LenProperties
<1>2. \A i \in 1 .. Len(a) + Len(b) : v[i] = n - Len(v) + i
  BY <1>1, <1>a DEF Latest
<1>3. \A i \in 1 .. Len(b) : b[i] = n - Len(b) + i
  <2> TAKE i \in 1 .. Len(b)
  <2>1. /\ Len(a) + i \in 1 .. Len(a) + Len(b) /\ ~(Len(a) + i <= Len(a))
        /\ (Len(a) + i) - Len(a) = i
    BY <1>1
  <2>2. v[Len(a) + i] = b[i]
    BY <1>1, <2>1
  <2>3. v[Len(a) + i] = n - Len(v) + (Len(a) + i)
    BY <1>2, <2>1
  <2>4. QED
    BY <1>1, <2>2, <2>3
<1>4. b = [i \in 1 .. Len(b) |-> b[i]]
  BY <1>1
<1>5. Latest(b, n)
  BY <1>3, <1>4 DEF Latest
<1>6. ASSUME a # <<>>
      PROVE  Head(a) = n - Len(v) + 1 /\ Last(a) = n - Len(b)
  <2>1. /\ 1 \in 1 .. Len(a) + Len(b) /\ 1 <= Len(a)
        /\ Len(a) \in 1 .. Len(a) + Len(b) /\ Len(a) <= Len(a)
    BY <1>1, <1>6, EmptySeq
  <2>2. v[1] = a[1] /\ v[Len(a)] = a[Len(a)]
    BY <1>1, <2>1
  <2>3. v[1] = n - Len(v) + 1 /\ v[Len(a)] = n - Len(v) + Len(a)
    BY <1>2, <2>1
  <2>4. Head(a) = a[1] /\ Last(a) = a[Len(a)]
    BY <1>6 DEF Last
  <2>5. n - Len(v) + Len(a) = n - Len(b)
    BY <1>1
  <2>6. QED
    BY <2>2, <2>3, <2>4, <2>5
<1>7. QED
  BY <1>1, <1>5, <1>6, <1>a

-----------------------------------------------------------------------------
(* What a step does to one stream *)

Sent(c) == broker[c] \o wire[c]

\* What of a stream is behind the batch the connection holds.
Behind(s) == ItemsOf(s, publishChan[Conn(s)]) \o batch[s] \o ch[s]

\* A batch is empty between two batches only, a connection holds one at most,
\* and nothing is on the way over a connection that was lost.
Tidy ==
  /\ \A s \in Streams : phase[s] = "idle" <=> batch[s] = <<>>
  /\ \A c \in Conns :
       /\ held[c] # <<>> => \E m \in Message : held[c] = <<m>> /\ m.items # <<>>
       /\ \A i \in 1 .. Len(publishChan[c]) : publishChan[c][i].items # <<>>
       /\ link[c] # "up" => wire[c] = <<>> /\ drops # 0

\* A message is written.
Grows(s) ==
  /\ made'[s] = made[s] + 1
  /\ Unwritten(s)' = Append(Unwritten(s), made[s] + 1)
  /\ Sent(Conn(s))' = Sent(Conn(s))
  /\ held'[Conn(s)] = held[Conn(s)]
  /\ drops' = drops

\* Batch m leaves the process.
Leaves(s, m) ==
  /\ held[Conn(s)] = <<m>> /\ held'[Conn(s)] = <<>> /\ m.items # <<>>
  /\ made'[s] = made[s]
  /\ Unwritten(s) = Own(s, m) \o Unwritten(s)'
  /\ drops' = drops
  /\ \/ Sent(Conn(s))' = Append(Sent(Conn(s)), m)
     \/ Sent(Conn(s))' = Sent(Conn(s)) /\ drops # 0

\* Batch m reached the broker, and the process does not know.
Repeats(s, m) ==
  /\ held[Conn(s)] = <<m>> /\ held'[Conn(s)] = <<m>> /\ m.items # <<>>
  /\ made'[s] = made[s]
  /\ Unwritten(s) = Own(s, m) \o Behind(s)
  /\ Unwritten(s)' = Unwritten(s)
  /\ drops' = drops /\ drops # 0
  /\ Sent(Conn(s))' = Append(Sent(Conn(s)), m)

\* Nothing of the stream changes hands, but some of it may be lost on the way.
Stays(s) ==
  /\ made'[s] = made[s]
  /\ Unwritten(s)' = Unwritten(s)
  /\ held'[Conn(s)] = held[Conn(s)] \/ held[Conn(s)] = <<>>
  /\ \/ Sent(Conn(s))' = Sent(Conn(s)) /\ (drops' = drops \/ drops' # 0)
     \/ Sent(Conn(s)) = Sent(Conn(s))' \o wire[Conn(s)] /\ drops' # 0

Moves(s) == Grows(s) \/ Stays(s) \/ \E m \in Message : Leaves(s, m) \/ Repeats(s, m)

\* The types a stream's step is about.
LEMMA StreamTypes ==
  ASSUME BatchInv, NEW s \in Streams
  PROVE  /\ Conn(s) \in Conns /\ made[s] \in Nat
         /\ batch[s] \in Seq(Nat) /\ ch[s] \in Seq(Nat)
         /\ held[Conn(s)] \in Seq(Message) /\ publishChan[Conn(s)] \in Seq(Message)
         /\ wire[Conn(s)] \in Seq(Message) /\ broker[Conn(s)] \in Seq(Message)
         /\ Sent(Conn(s)) \in Seq(Message)
         /\ ItemsOf(s, held[Conn(s)] \o publishChan[Conn(s)]) \in Seq(Nat)
         /\ ItemsOf(s, publishChan[Conn(s)]) \in Seq(Nat)
         /\ Behind(s) \in Seq(Nat) /\ Unwritten(s) \in Seq(Nat)
<1>1. /\ Conn(s) \in Conns /\ made[s] \in Nat
      /\ batch[s] \in Seq(Nat) /\ ch[s] \in Seq(Nat)
      /\ held[Conn(s)] \in Seq(Message) /\ publishChan[Conn(s)] \in Seq(Message)
      /\ wire[Conn(s)] \in Seq(Message) /\ broker[Conn(s)] \in Seq(Message)
  BY ConnInPool DEF BatchInv, PublisherTypeOK
<1>2. /\ held[Conn(s)] \o publishChan[Conn(s)] \in Seq(Message)
      /\ broker[Conn(s)] \o wire[Conn(s)] \in Seq(Message)
  BY <1>1
<1>3. /\ ItemsOf(s, held[Conn(s)] \o publishChan[Conn(s)]) \in Seq(Nat)
      /\ ItemsOf(s, publishChan[Conn(s)]) \in Seq(Nat)
  BY <1>1, <1>2, ItemsTyped
<1>4. QED
  BY <1>1, <1>2, <1>3 DEF Sent, Behind, Unwritten

\* The batch a connection holds is the first of what is unwritten.
LEMMA HeldFirst ==
  ASSUME BatchInv, NEW s \in Streams, NEW m \in Message, held[Conn(s)] = <<m>>
  PROVE  Unwritten(s) = Own(s, m) \o Behind(s)
<1>1. /\ ItemsOf(s, publishChan[Conn(s)]) \in Seq(Nat) /\ Own(s, m) \in Seq(Nat)
      /\ batch[s] \in Seq(Nat) /\ ch[s] \in Seq(Nat)
      /\ ItemsOf(s, publishChan[Conn(s)]) \o batch[s] \in Seq(Nat)
  BY StreamTypes, OwnTyped
<1>2. ItemsOf(s, held[Conn(s)] \o publishChan[Conn(s)])
        = Own(s, m) \o ItemsOf(s, publishChan[Conn(s)])
  BY StreamTypes, ItemsCons
<1>3. Unwritten(s) = ((Own(s, m) \o ItemsOf(s, publishChan[Conn(s)])) \o batch[s]) \o ch[s]
  BY <1>2 DEF Unwritten
<1>4. (Own(s, m) \o ItemsOf(s, publishChan[Conn(s)])) \o batch[s]
        = Own(s, m) \o (ItemsOf(s, publishChan[Conn(s)]) \o batch[s])
  BY <1>1, JoinAssociative
<1>5. (Own(s, m) \o (ItemsOf(s, publishChan[Conn(s)]) \o batch[s])) \o ch[s]
        = Own(s, m) \o ((ItemsOf(s, publishChan[Conn(s)]) \o batch[s]) \o ch[s])
  BY <1>1, JoinAssociative
<1>6. QED
  BY <1>3, <1>4, <1>5 DEF Behind

\* The first of what follows may be counted with what precedes.
LEMMA HeadMoves ==
  ASSUME NEW u \in Seq(Nat), NEW b \in Seq(Nat), NEW v \in Seq(Nat), v # <<>>
  PROVE  (u \o b) \o v = (u \o Append(b, Head(v))) \o Tail(v)
<1>a. /\ Head(v) \in Nat /\ Tail(v) \in Seq(Nat) /\ Len(Tail(v)) = Len(v) - 1
      /\ \A i \in 1 .. Len(Tail(v)) : Tail(v)[i] = v[i + 1]
      /\ Head(v) = v[1] /\ Len(v) \in Nat
  OBVIOUS
<1>b. v = <<Head(v)>> \o Tail(v)
  <2>1. /\ <<Head(v)>> \in Seq(Nat) /\ Len(<<Head(v)>>) = 1 /\ <<Head(v)>>[1] = v[1]
    BY <1>a
  <2>2. PICK w : w = <<Head(v)>> \o Tail(v)
    OBVIOUS
  <2>3. /\ w \in Seq(Nat) /\ Len(w) = Len(v)
        /\ \A i \in 1 .. Len(v) : w[i] = IF i <= 1 THEN <<Head(v)>>[i] ELSE Tail(v)[i - 1]
    BY <1>a, <2>1, <2>2, ConcatProperties
  <2>4. \A i \in 1 .. Len(v) : w[i] = v[i]
    BY <1>a, <2>1, <2>3
  <2>5. w = v
    BY <2>3, <2>4, SeqEqual
  <2>6. QED
    BY <2>2, <2>5
<1>c. Append(b, Head(v)) = b \o <<Head(v)>>
  <2>1. \A w \in Seq(Nat) : \A x \in Nat : Append(w, x) = w \o <<x>>
    OBVIOUS
  <2>2. QED
    BY <1>a, <2>1
<1>1. /\ <<Head(v)>> \in Seq(Nat) /\ Tail(v) \in Seq(Nat) /\ u \o b \in Seq(Nat)
      /\ v = <<Head(v)>> \o Tail(v) /\ Append(b, Head(v)) = b \o <<Head(v)>>
  BY <1>a, <1>b, <1>c
<1>2. (u \o b) \o (<<Head(v)>> \o Tail(v)) = ((u \o b) \o <<Head(v)>>) \o Tail(v)
  BY <1>1, JoinAssociative
<1>3. (u \o b) \o <<Head(v)>> = u \o (b \o <<Head(v)>>)
  BY <1>1, JoinAssociative
<1>4. QED
  BY <1>1, <1>2, <1>3

\* The producer and the batching goroutine of stream s, seen by stream t.
LEMMA StreamMoves ==
  ASSUME BatchInv, Tidy, NEW s \in Streams, Offer(s) \/ Batching(s), NEW t \in Streams
  PROVE  Grows(t) \/ Stays(t)
<1>1. /\ Conn(t) \in Conns /\ made[t] \in Nat
      /\ batch[t] \in Seq(Nat) /\ ch[t] \in Seq(Nat)
      /\ held[Conn(t)] \in Seq(Message) /\ publishChan[Conn(t)] \in Seq(Message)
      /\ ItemsOf(t, held[Conn(t)] \o publishChan[Conn(t)]) \in Seq(Nat)
  BY StreamTypes
<1> PICK items : items = ItemsOf(t, held[Conn(t)] \o publishChan[Conn(t)])
  OBVIOUS
<1>2. Unwritten(t) = (items \o batch[t]) \o ch[t]
  BY DEF Unwritten
<1>3. /\ held' = held /\ drops' = drops /\ \A c : Sent(c)' = Sent(c)
  BY DEF Offer, Batching, First, Count, Pack, PublishWithChan, connections, Sent
<1>4. CASE Offer(s)
  <2>1. /\ publishChan' = publishChan /\ batch' = batch
        /\ made' = [made EXCEPT ![s] = @ + 1]
        /\ ch' = [ch EXCEPT ![s] = Append(@, made[s] + 1)]
    BY <1>4 DEF Offer, connections
  <2>2. Unwritten(t)' = (items \o batch[t]) \o ch'[t]
    BY <1>3, <2>1 DEF Unwritten
  <2>3. CASE t = s
    <3>1. made'[t] = made[t] + 1 /\ ch'[t] = Append(ch[t], made[t] + 1)
      BY <2>1, <2>3 DEF BatchInv, PublisherTypeOK
    <3>2. (items \o batch[t]) \o Append(ch[t], made[t] + 1)
            = Append((items \o batch[t]) \o ch[t], made[t] + 1)
      <4>1. \A u, v \in Seq(Nat) : \A x \in Nat : u \o Append(v, x) = Append(u \o v, x)
        OBVIOUS
      <4>2. items \o batch[t] \in Seq(Nat) /\ made[t] + 1 \in Nat
        BY <1>1
      <4>3. QED
        BY <1>1, <4>1, <4>2
    <3>3. QED
      BY <1>2, <1>3, <2>2, <3>1, <3>2 DEF Grows
  <2>4. CASE t # s
    <3>1. made'[t] = made[t] /\ ch'[t] = ch[t]
      BY <2>1, <2>4 DEF BatchInv, PublisherTypeOK
    <3>2. QED
      BY <1>2, <1>3, <2>2, <3>1 DEF Stays
  <2>5. QED
    BY <2>3, <2>4
<1>5. CASE Batching(s)
  <2>1. made' = made
    BY <1>5 DEF Batching, First, Count, Pack, PublishWithChan
  <2>2. ASSUME First(s) \/ Count(s) \/ Pack(s)
        PROVE  Unwritten(t)' = Unwritten(t)
    <3>1. publishChan' = publishChan
      BY <2>2 DEF First, Count, Pack, connections
    <3>2. Unwritten(t)' = (items \o batch'[t]) \o ch'[t]
      BY <1>3, <3>1 DEF Unwritten
    <3>3. \A u, v \in Seq(Nat) :
            v # <<>> => /\ (u \o <<>>) \o v = (u \o <<Head(v)>>) \o Tail(v)
      OBVIOUS
    <3>4. \A u, b, v \in Seq(Nat) :
            v # <<>> => (u \o b) \o v = (u \o Append(b, Head(v))) \o Tail(v)
      BY HeadMoves
    <3>5. CASE First(s) /\ t = s
      <4>1. batch[t] = <<>> /\ ch[t] # <<>> /\ batch'[t] = <<Head(ch[t])>> /\ ch'[t] = Tail(ch[t])
        BY <3>5 DEF First, Tidy, BatchInv, PublisherTypeOK
      <4>2. items \in Seq(Nat) /\ ch[t] \in Seq(Nat)
        BY <1>1
      <4>3. (items \o <<>>) \o ch[t] = (items \o <<Head(ch[t])>>) \o Tail(ch[t])
        BY <3>3, <4>1, <4>2
      <4>4. QED
        BY <1>2, <3>2, <4>1, <4>3
    <3>6. CASE Pack(s) /\ t = s
      <4>1. ch[t] # <<>> /\ batch'[t] = Append(batch[t], Head(ch[t])) /\ ch'[t] = Tail(ch[t])
        BY <3>6 DEF Pack, BatchInv, PublisherTypeOK
      <4>2. items \in Seq(Nat) /\ batch[t] \in Seq(Nat) /\ ch[t] \in Seq(Nat)
        BY <1>1
      <4>3. (items \o batch[t]) \o ch[t]
              = (items \o Append(batch[t], Head(ch[t]))) \o Tail(ch[t])
        BY <3>4, <4>1, <4>2
      <4>4. QED
        BY <1>2, <3>2, <4>1, <4>3
    <3>7. CASE Count(s) \/ t # s
      <4>1. batch'[t] = batch[t] /\ ch'[t] = ch[t]
        BY <2>2, <3>7 DEF First, Count, Pack, BatchInv, PublisherTypeOK
      <4>2. QED
        BY <1>2, <3>2, <4>1
    <3>8. QED
      BY <2>2, <3>5, <3>6, <3>7
  <2>3. ASSUME PublishWithChan(s)
        PROVE  Unwritten(t)' = Unwritten(t)
    <3>a. PICK m : m = [stream |-> s, items |-> batch[s]]
      OBVIOUS
    <3>1. /\ m \in Message /\ m.stream = s /\ m.items = batch[s] /\ Conn(s) \in Conns
      BY <3>a, ConnInPool DEF Message, BatchInv, PublisherTypeOK
    <3>2. /\ publishChan' = [publishChan EXCEPT ![Conn(s)] = Append(@, m)]
          /\ batch' = [batch EXCEPT ![s] = <<>>] /\ ch' = ch
      BY <2>3, <3>a DEF PublishWithChan
    <3>3. CASE Conn(t) = Conn(s)
      <4>1. publishChan'[Conn(t)] = Append(publishChan[Conn(t)], m)
        BY <1>1, <3>1, <3>2, <3>3 DEF BatchInv, PublisherTypeOK
      <4>2. held[Conn(t)] \o Append(publishChan[Conn(t)], m)
              = Append(held[Conn(t)] \o publishChan[Conn(t)], m)
        <5>1. \A u, v \in Seq(Message) : \A x \in Message : u \o Append(v, x) = Append(u \o v, x)
          OBVIOUS
        <5>2. QED
          BY <1>1, <3>1, <5>1
      <4>3. ItemsOf(t, held[Conn(t)] \o publishChan'[Conn(t)]) = items \o Own(t, m)
        <5>1. held[Conn(t)] \o publishChan[Conn(t)] \in Seq(Message)
          BY <1>1
        <5>2. QED
          BY <3>1, <4>1, <4>2, <5>1, ItemsAppend
      <4>4. Unwritten(t)' = ((items \o Own(t, m)) \o batch'[t]) \o ch[t]
        BY <1>3, <3>2, <4>3 DEF Unwritten
      <4>5. (items \o Own(t, m)) \o batch'[t] = items \o batch[t]
        <5>1. \A u, v \in Seq(Nat) : (u \o v) \o <<>> = u \o v /\ (u \o <<>>) \o v = u \o v
          OBVIOUS
        <5>2. CASE t = s
          <6>1. Own(t, m) = batch[t] /\ batch'[t] = <<>>
            BY <3>1, <3>2, <5>2 DEF Own, BatchInv, PublisherTypeOK
          <6>2. QED
            BY <1>1, <5>1, <6>1
        <5>3. CASE t # s
          <6>1. Own(t, m) = <<>> /\ batch'[t] = batch[t]
            BY <3>1, <3>2, <5>3 DEF Own, BatchInv, PublisherTypeOK
          <6>2. QED
            BY <1>1, <5>1, <6>1
        <5>4. QED
          BY <5>2, <5>3
      <4>6. QED
        BY <1>2, <4>4, <4>5
    <3>4. CASE Conn(t) # Conn(s)
      <4>1. publishChan'[Conn(t)] = publishChan[Conn(t)] /\ batch'[t] = batch[t]
        BY <1>1, <3>1, <3>2, <3>4 DEF BatchInv, PublisherTypeOK
      <4>2. QED
        BY <1>3, <3>2, <4>1 DEF Unwritten
    <3>5. QED
      BY <3>3, <3>4
  <2>4. QED
    BY <1>3, <1>5, <2>1, <2>2, <2>3 DEF Stays, Batching
<1>6. QED
  BY <1>4, <1>5

\* The publishing goroutine, the broker and the network on connection c, seen
\* by stream t.
LEMMA ConnectionMoves ==
  ASSUME BatchInv, Tidy, NEW c \in Conns, NEW t \in Streams,
         Publish(c) \/ Deliver(c) \/ Drop(c) \/ Notice(c)
  PROVE  Moves(t)
<1>1. /\ Conn(t) \in Conns
      /\ held[Conn(t)] \in Seq(Message) /\ publishChan[Conn(t)] \in Seq(Message)
      /\ wire[Conn(t)] \in Seq(Message) /\ broker[Conn(t)] \in Seq(Message)
      /\ batch[t] \in Seq(Nat) /\ ch[t] \in Seq(Nat)
      /\ ItemsOf(t, publishChan[Conn(t)]) \in Seq(Nat)
      /\ drops \in Nat
  BY StreamTypes, PublisherAssumption DEF BatchInv, PublisherTypeOK
<1>2. made' = made /\ batch' = batch /\ ch' = ch
  BY DEF Publish, Receive, Written, WriteFails, Reconnect, Deliver, Drop, Notice, streams
<1>3. drops' = drops \/ drops' # 0
  <2>1. CASE Drop(c)
    <3>1. drops' = drops + 1
      BY <2>1 DEF Drop
    <3>2. QED
      BY <1>1, <3>1
  <2>2. CASE Publish(c) \/ Deliver(c) \/ Notice(c)
    BY <2>2 DEF Publish, Receive, Written, WriteFails, Reconnect, Deliver, Notice
  <2>3. QED
    BY <2>1, <2>2
<1>4. CASE Conn(t) # c
  <2>1. /\ held'[Conn(t)] = held[Conn(t)] /\ publishChan'[Conn(t)] = publishChan[Conn(t)]
        /\ wire'[Conn(t)] = wire[Conn(t)] /\ broker'[Conn(t)] = broker[Conn(t)]
    BY <1>1, <1>4 DEF Publish, Receive, Written, WriteFails, Reconnect, Deliver, Drop, Notice,
       BatchInv, PublisherTypeOK
  <2>2. Unwritten(t)' = Unwritten(t) /\ Sent(Conn(t))' = Sent(Conn(t))
    BY <1>2, <2>1 DEF Unwritten, Sent
  <2>3. QED
    BY <1>2, <1>3, <2>1, <2>2 DEF Moves, Stays
<1>5. CASE Conn(t) = c
  <2>1. CASE Receive(c)
    <3>1. /\ held[c] = <<>> /\ publishChan[c] # <<>>
          /\ held'[c] = <<Head(publishChan[c])>> /\ publishChan'[c] = Tail(publishChan[c])
          /\ wire' = wire /\ broker' = broker
      BY <2>1 DEF Receive, BatchInv, PublisherTypeOK
    <3>2. held'[c] \o publishChan'[c] = held[c] \o publishChan[c]
      <4>1. \A v \in Seq(Message) : v # <<>> => <<Head(v)>> \o Tail(v) = <<>> \o v
        OBVIOUS
      <4>2. QED
        BY <1>1, <1>5, <3>1, <4>1
    <3>3. Unwritten(t)' = Unwritten(t) /\ Sent(Conn(t))' = Sent(Conn(t))
      BY <1>2, <1>5, <3>1, <3>2 DEF Unwritten, Sent
    <3>4. QED
      BY <1>2, <1>3, <1>5, <3>1, <3>3 DEF Moves, Stays
  <2>2. CASE Written(c)
    <3>1. PICK m \in Message : held[c] = <<m>> /\ m.items # <<>>
      BY <2>2 DEF Written, Tidy
    <3>2. /\ held'[c] = <<>> /\ publishChan' = publishChan /\ broker' = broker /\ drops' = drops
          /\ \/ wire'[c] = wire[c] \o <<m>>
             \/ wire' = wire /\ link[c] # "up"
      BY <2>2, <3>1 DEF Written, BatchInv, PublisherTypeOK
    <3>3. Unwritten(t)' = Behind(t)
      <4>1. held'[c] \o publishChan'[c] = publishChan[c]
        BY <1>1, <1>5, <3>2, ConcatEmptySeq
      <4>2. QED
        BY <1>2, <1>5, <4>1 DEF Unwritten, Behind
    <3>4. Unwritten(t) = Own(t, m) \o Behind(t)
      BY <1>5, <3>1, HeldFirst
    <3>5. \/ Sent(c)' = Append(Sent(c), m)
          \/ Sent(c)' = Sent(c) /\ drops # 0
      <4>1. \A u, v \in Seq(Message) : u \o (v \o <<m>>) = Append(u \o v, m)
        OBVIOUS
      <4>2. link[c] # "up" => drops # 0
        BY DEF Tidy
      <4>3. QED
        BY <1>1, <1>5, <3>2, <4>1, <4>2 DEF Sent
    <3>6. Leaves(t, m)
      BY <1>2, <1>5, <3>1, <3>2, <3>3, <3>4, <3>5 DEF Leaves
    <3>7. QED
      BY <3>6 DEF Moves
  <2>3. CASE WriteFails(c)
    <3>1. PICK m \in Message : held[c] = <<m>> /\ m.items # <<>>
      BY <2>3 DEF WriteFails, Tidy
    <3>2. /\ held' = held /\ publishChan' = publishChan /\ wire' = wire /\ drops' = drops
          /\ wire[c] = <<>> /\ drops # 0
          /\ broker'[c] = broker[c] \o <<m>> \/ broker' = broker
      BY <2>3, <3>1 DEF WriteFails, BatchInv, PublisherTypeOK, Tidy
    <3>3. Unwritten(t)' = Unwritten(t)
      BY <1>2, <3>2 DEF Unwritten
    <3>4. Unwritten(t) = Own(t, m) \o Behind(t)
      BY <1>5, <3>1, HeldFirst
    <3>5. CASE broker' = broker
      BY <1>2, <1>3, <3>2, <3>3, <3>5 DEF Moves, Stays, Sent
    <3>6. CASE broker'[c] = broker[c] \o <<m>>
      <4>1. \A u \in Seq(Message) : (u \o <<m>>) \o <<>> = Append(u \o <<>>, m)
        OBVIOUS
      <4>2. Sent(c)' = Append(Sent(c), m)
        BY <1>1, <1>5, <3>2, <3>6, <4>1 DEF Sent
      <4>3. Repeats(t, m)
        BY <1>2, <1>5, <3>1, <3>2, <3>3, <3>4, <4>2 DEF Repeats
      <4>4. QED
        BY <4>3 DEF Moves
    <3>7. QED
      BY <3>2, <3>5, <3>6
  <2>4. CASE Reconnect(c) \/ Notice(c)
    <3>1. /\ held' = held /\ publishChan' = publishChan /\ broker' = broker
          /\ wire'[c] = wire[c]
      BY <2>4 DEF Reconnect, Notice, BatchInv, PublisherTypeOK, Tidy
    <3>2. QED
      BY <1>2, <1>3, <1>5, <3>1 DEF Moves, Stays, Unwritten, Sent
  <2>5. CASE Deliver(c)
    <3>1. /\ held' = held /\ publishChan' = publishChan /\ wire[c] # <<>>
          /\ broker'[c] = Append(broker[c], Head(wire[c])) /\ wire'[c] = Tail(wire[c])
      BY <2>5 DEF Deliver, BatchInv, PublisherTypeOK
    <3>2. \A u, v \in Seq(Message) : v # <<>> => Append(u, Head(v)) \o Tail(v) = u \o v
      OBVIOUS
    <3>3. Sent(c)' = Sent(c)
      BY <1>1, <1>5, <3>1, <3>2 DEF Sent
    <3>4. QED
      BY <1>2, <1>3, <1>5, <3>1, <3>3 DEF Moves, Stays, Unwritten
  <2>6. CASE Drop(c)
    <3>1. /\ held' = held /\ publishChan' = publishChan /\ broker' = broker
          /\ wire'[c] = <<>> /\ drops' # 0
      BY <1>1, <2>6 DEF Drop, BatchInv, PublisherTypeOK
    <3>2. Sent(c) = Sent(c)' \o wire[c]
      <4>1. broker[c] \o <<>> = broker[c]
        BY <1>1, <1>5, ConcatEmptySeq
      <4>2. QED
        BY <3>1, <4>1 DEF Sent
    <3>3. QED
      BY <1>2, <1>5, <3>1, <3>2 DEF Moves, Stays, Unwritten
  <2>7. QED
    BY <2>1, <2>2, <2>3, <2>4, <2>5, <2>6 DEF Publish
<1>6. QED
  BY <1>4, <1>5

-----------------------------------------------------------------------------
(* The order of one stream's batches *)

\* What is right about stream s: `sent' are the batches that left the process
\* over its connection and were not lost, u what is unwritten of the stream, h
\* the batch the connection holds, n the messages made, d the connections lost.
\* A batch that was sent lies before what is unwritten, unless it is the one
\* being retried.
Ordered(s, sent, u, h, n, d) ==
  /\ Latest(u, n) /\ Len(u) <= n
  /\ \A i \in 1 .. Len(sent) : sent[i].stream = s =>
       /\ sent[i].items # <<>>
       /\ h = <<sent[i]>> \/ Last(sent[i].items) + Len(u) <= n
  /\ \A i, j \in 1 .. Len(sent) :
       i < j /\ sent[i].stream = s /\ sent[j].stream = s =>
         sent[i] = sent[j] \/ Last(sent[i].items) < Head(sent[j].items)
  /\ d = 0 => ItemsOf(s, sent) \o u = [i \in 1 .. n |-> i]

\* The first and the last message of a batch are numbers.
LEMMA EndsTyped ==
  ASSUME NEW m \in Message, m.items # <<>>
  PROVE  Head(m.items) \in Nat /\ Last(m.items) \in Nat
<1>1. m.items \in Seq(Nat)
  BY DEF Message
<1>2. Len(m.items) \in Nat /\ Len(m.items) # 0
  BY <1>1, EmptySeq
<1>3. Len(m.items) \in 1 .. Len(m.items) /\ 1 \in 1 .. Len(m.items)
  BY <1>2
<1>4. m.items[1] \in Nat /\ m.items[Len(m.items)] \in Nat
  BY <1>1, <1>3, ElementOfSeq
<1>5. QED
  BY <1>1, <1>4 DEF Last

\* A message is written.
LEMMA GrowsKeeps ==
  ASSUME NEW s, NEW sent \in Seq(Message), NEW u \in Seq(Nat), NEW h,
         NEW n \in Nat, NEW d, Ordered(s, sent, u, h, n, d)
  PROVE  Ordered(s, sent, Append(u, n + 1), h, n + 1, d)
<1> PICK v : v = Append(u, n + 1)
  OBVIOUS
<1>1. v \in Seq(Nat) /\ Len(v) = Len(u) + 1 /\ Len(u) \in Nat
  BY AppendProperties, LenProperties
<1>2. Latest(v, n + 1)
  BY LatestGrows DEF Ordered
<1>3. Len(v) <= n + 1
  BY <1>1 DEF Ordered
<1>4. ASSUME NEW i \in 1 .. Len(sent), sent[i].stream = s
      PROVE  /\ sent[i].items # <<>>
             /\ h = <<sent[i]>> \/ Last(sent[i].items) + Len(v) <= n + 1
  <2>1. /\ sent[i].items # <<>>
        /\ h = <<sent[i]>> \/ Last(sent[i].items) + Len(u) <= n
    BY <1>4 DEF Ordered
  <2>2. sent[i] \in Message
    BY ElementOfSeq
  <2>3. Last(sent[i].items) \in Nat
    BY <2>1, <2>2, EndsTyped
  <2>4. QED
    BY <1>1, <2>1, <2>3
<1>5. ASSUME d = 0
      PROVE  ItemsOf(s, sent) \o v = [i \in 1 .. n + 1 |-> i]
  <2>a. PICK w : w = ItemsOf(s, sent) \o u
    OBVIOUS
  <2>1. ItemsOf(s, sent) \in Seq(Nat)
    BY ItemsTyped
  <2>2. \A x, y \in Seq(Nat) : \A z \in Nat : x \o Append(y, z) = Append(x \o y, z)
    OBVIOUS
  <2>3. ItemsOf(s, sent) \o v = Append(w, n + 1)
    BY <2>a, <2>1, <2>2
  <2>4. w = [i \in 1 .. n |-> i]
    BY <1>5, <2>a DEF Ordered
  <2>5. w \in Seq(Nat) /\ Len(w) = n
    BY <2>4
  <2>b. PICK all : all = Append(w, n + 1)
    OBVIOUS
  <2>6. /\ all \in Seq(Nat) /\ Len(all) = n + 1
        /\ \A i \in 1 .. n : all[i] = w[i]
        /\ all[n + 1] = n + 1
    BY <2>5, <2>b, AppendProperties
  <2>7. \A i \in 1 .. n + 1 : all[i] = i
    BY <2>4, <2>6
  <2>8. all = [i \in 1 .. n + 1 |-> all[i]]
    BY <2>6
  <2>9. all = [i \in 1 .. n + 1 |-> i]
    BY <2>7, <2>8
  <2>10. QED
    BY <2>3, <2>9, <2>b
<1>6. QED
  BY <1>2, <1>3, <1>4, <1>5 DEF Ordered

\* Some of what was sent may be lost, and a batch may be taken in hand.
LEMMA StaysKeeps ==
  ASSUME NEW s, NEW sent \in Seq(Message), NEW left \in Seq(Message), NEW lost \in Seq(Message),
         NEW u, NEW h, NEW k, NEW n, NEW d, NEW e,
         Ordered(s, sent, u, h, n, d), k = h \/ h = <<>>,
         \/ left = sent /\ (e = d \/ e # 0)
         \/ sent = left \o lost /\ e # 0
  PROVE  Ordered(s, left, u, k, n, e)
<1>1. \A i \in 1 .. Len(left) : i \in 1 .. Len(sent) /\ left[i] = sent[i]
  <2>1. CASE left = sent
    BY <2>1
  <2>2. CASE sent = left \o lost
    <3>1. PICK all : all = left \o lost
      OBVIOUS
    <3>2. /\ Len(left) \in Nat /\ Len(lost) \in Nat /\ Len(all) = Len(left) + Len(lost)
          /\ \A i \in 1 .. Len(left) + Len(lost) :
               all[i] = IF i <= Len(left) THEN left[i] ELSE lost[i - Len(left)]
      BY <3>1, ConcatProperties, LenProperties
    <3>3. all = sent
      BY <2>2, <3>1
    <3>4. QED
      BY <3>2, <3>3
  <2>3. QED
    BY <2>1, <2>2
<1>2. \A m : <<m>> # <<>>
  OBVIOUS
<1>3. \A i \in 1 .. Len(left) : left[i].stream = s =>
        /\ left[i].items # <<>>
        /\ k = <<left[i]>> \/ Last(left[i].items) + Len(u) <= n
  BY <1>1, <1>2 DEF Ordered
<1>4. \A i, j \in 1 .. Len(left) :
        i < j /\ left[i].stream = s /\ left[j].stream = s =>
          left[i] = left[j] \/ Last(left[i].items) < Head(left[j].items)
  BY <1>1 DEF Ordered
<1>5. e = 0 => ItemsOf(s, left) \o u = [i \in 1 .. n |-> i]
  BY DEF Ordered
<1>6. QED
  BY <1>3, <1>4, <1>5 DEF Ordered

\* A batch sent behind the others, held until then, is in its place.
LEMMA NextInOrder ==
  ASSUME NEW s, NEW sent \in Seq(Message), NEW u \in Seq(Nat), NEW b \in Seq(Nat),
         NEW m \in Message, NEW n \in Nat, NEW d,
         Ordered(s, sent, u, <<m>>, n, d), m.items # <<>>, u = Own(s, m) \o b
  PROVE  /\ Latest(b, n) /\ Len(b) <= Len(u) /\ Len(b) <= n
         /\ m.stream = s => Last(m.items) + Len(b) <= n
         /\ \A i \in 1 .. Len(sent) : sent[i].stream = s /\ m.stream = s =>
              sent[i] = m \/ Last(sent[i].items) < Head(m.items)
         /\ \A i \in 1 .. Len(sent) : sent[i].stream = s =>
              Last(sent[i].items) + Len(b) <= n
<1>1. /\ Latest(b, n) /\ Len(u) = Len(Own(s, m)) + Len(b)
      /\ Own(s, m) # <<>> => /\ Head(Own(s, m)) = n - Len(u) + 1
                             /\ Last(Own(s, m)) = n - Len(b)
  <2>1. Own(s, m) \in Seq(Nat)
    BY OwnTyped
  <2>2. Latest(Own(s, m) \o b, n)
    BY DEF Ordered
  <2>3. QED
    BY <2>1, <2>2, LatestSplits
<1>2. Len(Own(s, m)) \in Nat /\ Len(b) \in Nat /\ Len(u) \in Nat
  BY OwnTyped, LenProperties
<1>3. m.stream = s => Head(m.items) = n - Len(u) + 1 /\ Last(m.items) = n - Len(b)
  BY <1>1 DEF Own
<1>4. ASSUME NEW i \in 1 .. Len(sent), sent[i].stream = s, sent[i] # m
      PROVE  /\ Last(sent[i].items) \in Nat
             /\ Last(sent[i].items) + Len(u) <= n
  <2>1. /\ sent[i].items # <<>>
        /\ <<m>> = <<sent[i]>> \/ Last(sent[i].items) + Len(u) <= n
    BY <1>4 DEF Ordered
  <2>2. sent[i] \in Message
    BY ElementOfSeq
  <2>3. Last(sent[i].items) \in Nat
    BY <2>1, <2>2, EndsTyped
  <2>4. <<m>> # <<sent[i]>>
    BY <1>4
  <2>5. QED
    BY <2>1, <2>3, <2>4
<1>5. Len(u) <= n
  BY DEF Ordered
<1>6. Len(b) <= Len(u) /\ Len(b) <= n
  BY <1>1, <1>2, <1>5
<1>7. m.stream = s => Last(m.items) + Len(b) <= n
  BY <1>2, <1>3
<1>8. ASSUME NEW i \in 1 .. Len(sent), sent[i].stream = s, m.stream = s
      PROVE  sent[i] = m \/ Last(sent[i].items) < Head(m.items)
  BY <1>2, <1>3, <1>4, <1>8
<1>9. ASSUME NEW i \in 1 .. Len(sent), sent[i].stream = s
      PROVE  Last(sent[i].items) + Len(b) <= n
  <2>1. CASE sent[i] = m
    BY <1>7, <1>9, <2>1
  <2>2. CASE sent[i] # m
    BY <1>2, <1>4, <1>6, <1>9, <2>2
  <2>3. QED
    BY <2>1, <2>2
<1>10. QED
  BY <1>1, <1>6, <1>7, <1>8, <1>9

\* The batches with one more behind them.
LEMMA OneMore ==
  ASSUME NEW sent \in Seq(Message), NEW m \in Message, NEW all, all = Append(sent, m)
  PROVE  /\ all \in Seq(Message)
         /\ \A i \in 1 .. Len(all) :
              \/ i \in 1 .. Len(sent) /\ all[i] = sent[i]
              \/ all[i] = m /\ \A j \in 1 .. Len(all) : ~(i < j)
<1>1. /\ all \in Seq(Message) /\ Len(sent) \in Nat /\ Len(all) = Len(sent) + 1
      /\ \A i \in 1 .. Len(sent) : all[i] = sent[i]
      /\ all[Len(sent) + 1] = m
  BY AppendProperties, LenProperties
<1>2. QED
  BY <1>1

\* A batch leaves the process.
LEMMA LeavesKeeps ==
  ASSUME NEW s, NEW sent \in Seq(Message), NEW left \in Seq(Message),
         NEW u \in Seq(Nat), NEW b \in Seq(Nat), NEW m \in Message, NEW n \in Nat, NEW d,
         Ordered(s, sent, u, <<m>>, n, d), m.items # <<>>, u = Own(s, m) \o b,
         \/ left = Append(sent, m)
         \/ left = sent /\ d # 0
  PROVE  Ordered(s, left, b, <<>>, n, d)
<1>1. /\ Latest(b, n) /\ Len(b) <= n
      /\ m.stream = s => Last(m.items) + Len(b) <= n
      /\ \A i \in 1 .. Len(sent) : sent[i].stream = s /\ m.stream = s =>
           sent[i] = m \/ Last(sent[i].items) < Head(m.items)
      /\ \A i \in 1 .. Len(sent) : sent[i].stream = s =>
           Last(sent[i].items) + Len(b) <= n
  BY NextInOrder
<1>2. /\ \A i \in 1 .. Len(sent) : sent[i].stream = s => sent[i].items # <<>>
      /\ \A i, j \in 1 .. Len(sent) :
           i < j /\ sent[i].stream = s /\ sent[j].stream = s =>
             sent[i] = sent[j] \/ Last(sent[i].items) < Head(sent[j].items)
      /\ d = 0 => ItemsOf(s, sent) \o u = [i \in 1 .. n |-> i]
  BY DEF Ordered
<1>3. \A i \in 1 .. Len(left) :
        \/ i \in 1 .. Len(sent) /\ left[i] = sent[i]
        \/ left[i] = m /\ \A j \in 1 .. Len(left) : ~(i < j)
  BY OneMore
<1>4. \A i \in 1 .. Len(left) : left[i].stream = s =>
        left[i].items # <<>> /\ Last(left[i].items) + Len(b) <= n
  BY <1>1, <1>2, <1>3
<1>5. \A i, j \in 1 .. Len(left) :
        i < j /\ left[i].stream = s /\ left[j].stream = s =>
          left[i] = left[j] \/ Last(left[i].items) < Head(left[j].items)
  <2> TAKE i, j \in 1 .. Len(left)
  <2> HAVE i < j /\ left[i].stream = s /\ left[j].stream = s
  <2>1. i \in 1 .. Len(sent) /\ left[i] = sent[i]
    BY <1>3
  <2>2. CASE j \in 1 .. Len(sent) /\ left[j] = sent[j]
    BY <1>2, <2>1, <2>2
  <2>3. CASE left[j] = m
    BY <1>1, <2>1, <2>3
  <2>4. QED
    BY <1>3, <2>2, <2>3
<1>6. ASSUME d = 0
      PROVE  ItemsOf(s, left) \o b = [i \in 1 .. n |-> i]
  <2>1. ItemsOf(s, sent) \in Seq(Nat) /\ Own(s, m) \in Seq(Nat)
    BY ItemsTyped, OwnTyped
  <2>2. ItemsOf(s, left) = ItemsOf(s, sent) \o Own(s, m)
    BY <1>6, ItemsAppend
  <2>3. (ItemsOf(s, sent) \o Own(s, m)) \o b = ItemsOf(s, sent) \o u
    BY <2>1, JoinAssociative
  <2>4. QED
    BY <1>2, <1>6, <2>2, <2>3
<1>7. QED
  BY <1>1, <1>4, <1>5, <1>6 DEF Ordered

\* The batch being retried reached the broker.
LEMMA RepeatsKeeps ==
  ASSUME NEW s, NEW sent \in Seq(Message), NEW left \in Seq(Message),
         NEW u \in Seq(Nat), NEW b \in Seq(Nat), NEW m \in Message, NEW n \in Nat, NEW d,
         Ordered(s, sent, u, <<m>>, n, d), m.items # <<>>, u = Own(s, m) \o b,
         left = Append(sent, m), d # 0
  PROVE  Ordered(s, left, u, <<m>>, n, d)
<1>1. \A i \in 1 .. Len(sent) : sent[i].stream = s /\ m.stream = s =>
        sent[i] = m \/ Last(sent[i].items) < Head(m.items)
  BY NextInOrder
<1>2. /\ Latest(u, n) /\ Len(u) <= n
      /\ \A i \in 1 .. Len(sent) : sent[i].stream = s =>
           /\ sent[i].items # <<>>
           /\ <<m>> = <<sent[i]>> \/ Last(sent[i].items) + Len(u) <= n
      /\ \A i, j \in 1 .. Len(sent) :
           i < j /\ sent[i].stream = s /\ sent[j].stream = s =>
             sent[i] = sent[j] \/ Last(sent[i].items) < Head(sent[j].items)
  BY DEF Ordered
<1>3. \A i \in 1 .. Len(left) :
        \/ i \in 1 .. Len(sent) /\ left[i] = sent[i]
        \/ left[i] = m /\ \A j \in 1 .. Len(left) : ~(i < j)
  BY OneMore
<1>4. \A i \in 1 .. Len(left) : left[i].stream = s =>
        /\ left[i].items # <<>>
        /\ <<m>> = <<left[i]>> \/ Last(left[i].items) + Len(u) <= n
  BY <1>2, <1>3
<1>5. \A i, j \in 1 .. Len(left) :
        i < j /\ left[i].stream = s /\ left[j].stream = s =>
          left[i] = left[j] \/ Last(left[i].items) < Head(left[j].items)
  <2> TAKE i, j \in 1 .. Len(left)
  <2> HAVE i < j /\ left[i].stream = s /\ left[j].stream = s
  <2>1. i \in 1 .. Len(sent) /\ left[i] = sent[i]
    BY <1>3
  <2>2. CASE j \in 1 .. Len(sent) /\ left[j] = sent[j]
    BY <1>2, <2>1, <2>2
  <2>3. CASE left[j] = m
    BY <1>1, <2>1, <2>3
  <2>4. QED
    BY <1>3, <2>2, <2>3
<1>6. QED
  BY <1>2, <1>4, <1>5 DEF Ordered

\* Every stream is in order.
Right(s) == Ordered(s, Sent(Conn(s)), Unwritten(s), held[Conn(s)], made[s], drops)

OrderInv == BatchInv /\ Tidy /\ \A s \in Streams : Right(s)

\* Everything is tidy at the beginning.
LEMMA TidyInit == Init => Tidy
<1> SUFFICES ASSUME Init PROVE Tidy
  OBVIOUS
<1>1. \A s \in Streams : phase[s] = "idle" /\ batch[s] = <<>>
  BY DEF Init
<1>2. \A c \in Conns : held[c] = <<>> /\ publishChan[c] = <<>> /\ link[c] = "up"
  BY DEF Init
<1>3. Len(<<>>) = 0
  BY EmptySeq
<1>4. \A c \in Conns : \A i \in 1 .. Len(publishChan[c]) : publishChan[c][i].items # <<>>
  BY <1>2, <1>3
<1>5. QED
  BY <1>1, <1>2, <1>4 DEF Tidy

\* The batching goroutines keep their part tidy, and hand on no empty batch.
LEMMA StreamTidy ==
  ASSUME BatchInv, Tidy, NEW s \in Streams, Offer(s) \/ Batching(s)
  PROVE  Tidy'
<1>1. /\ ch[s] \in Seq(Nat) /\ batch[s] \in Seq(Nat) /\ Conn(s) \in Conns
  BY StreamTypes
<1>2. held' = held /\ link' = link /\ wire' = wire /\ drops' = drops
  BY DEF Offer, Batching, First, Count, Pack, PublishWithChan, connections
<1>3. \A t \in Streams : phase'[t] = "idle" <=> batch'[t] = <<>>
  <2>1. CASE Offer(s)
    BY <2>1 DEF Offer, Tidy
  <2>2. CASE First(s)
    <3>1. /\ phase' = [phase EXCEPT ![s] = "count"]
          /\ batch' = [batch EXCEPT ![s] = <<Head(ch[s])>>]
      BY <2>2 DEF First
    <3>2. <<Head(ch[s])>> # <<>>
      OBVIOUS
    <3>3. phase'[s] = "count" /\ batch'[s] # <<>>
      BY <3>1, <3>2 DEF BatchInv, PublisherTypeOK
    <3>4. \A t \in Streams : t # s => phase'[t] = phase[t] /\ batch'[t] = batch[t]
      BY <3>1 DEF BatchInv, PublisherTypeOK
    <3>5. QED
      BY <3>3, <3>4 DEF Tidy
  <2>3. CASE Count(s)
    <3>1. phase[s] = "count" /\ phase' = [phase EXCEPT ![s] = "pack"] /\ batch' = batch
      BY <2>3 DEF Count
    <3>2. phase'[s] = "pack" /\ \A t \in Streams : t # s => phase'[t] = phase[t]
      BY <3>1 DEF BatchInv, PublisherTypeOK
    <3>3. QED
      BY <3>1, <3>2 DEF Tidy
  <2>4. CASE Pack(s)
    <3>1. /\ phase[s] = "pack" /\ phase' = phase
          /\ batch' = [batch EXCEPT ![s] = Append(@, Head(ch[s]))] /\ ch[s] # <<>>
      BY <2>4 DEF Pack
    <3>2. Append(batch[s], Head(ch[s])) # <<>>
      <4>1. Head(ch[s]) \in Nat
        BY <1>1, <3>1
      <4>2. \A v \in Seq(Nat) : \A x \in Nat : Append(v, x) # <<>>
        OBVIOUS
      <4>3. QED
        BY <1>1, <4>1, <4>2
    <3>3. /\ batch'[s] # <<>>
          /\ \A t \in Streams : t # s => batch'[t] = batch[t]
      BY <3>1, <3>2 DEF BatchInv, PublisherTypeOK
    <3>4. QED
      BY <3>1, <3>3 DEF Tidy
  <2>5. CASE PublishWithChan(s)
    <3>1. phase' = [phase EXCEPT ![s] = "idle"] /\ batch' = [batch EXCEPT ![s] = <<>>]
      BY <2>5 DEF PublishWithChan
    <3>2. phase'[s] = "idle" /\ batch'[s] = <<>>
      BY <3>1 DEF BatchInv, PublisherTypeOK
    <3>3. \A t \in Streams : t # s => phase'[t] = phase[t] /\ batch'[t] = batch[t]
      BY <3>1 DEF BatchInv, PublisherTypeOK
    <3>4. QED
      BY <3>2, <3>3 DEF Tidy
  <2>6. QED
    BY <2>1, <2>2, <2>3, <2>4, <2>5 DEF Batching
<1>4. \A c \in Conns : \A i \in 1 .. Len(publishChan'[c]) : publishChan'[c][i].items # <<>>
  <2>1. CASE Offer(s) \/ First(s) \/ Count(s) \/ Pack(s)
    <3>1. publishChan' = publishChan
      BY <2>1 DEF Offer, First, Count, Pack, connections
    <3>2. QED
      BY <3>1 DEF Tidy
  <2>2. CASE PublishWithChan(s)
    <3>a. PICK m : m = [stream |-> s, items |-> batch[s]]
      OBVIOUS
    <3>1. m \in Message /\ m.items = batch[s]
      BY <1>1, <3>a DEF Message
    <3>2. publishChan' = [publishChan EXCEPT ![Conn(s)] = Append(@, m)] /\ phase[s] = "pack"
      BY <2>2, <3>a DEF PublishWithChan
    <3>3. m.items # <<>>
      BY <3>1, <3>2 DEF Tidy
    <3> SUFFICES ASSUME NEW c \in Conns, NEW i \in 1 .. Len(publishChan'[c])
                 PROVE  publishChan'[c][i].items # <<>>
      OBVIOUS
    <3>4. CASE c = Conn(s)
      <4>1. publishChan'[c] = Append(publishChan[c], m) /\ publishChan[c] \in Seq(Message)
        BY <1>1, <3>2, <3>4 DEF BatchInv, PublisherTypeOK
      <4>2. \/ i \in 1 .. Len(publishChan[c]) /\ publishChan'[c][i] = publishChan[c][i]
            \/ publishChan'[c][i] = m
        BY <3>1, <4>1, OneMore
      <4>3. QED
        BY <3>3, <4>2 DEF Tidy
    <3>5. CASE c # Conn(s)
      <4>1. publishChan'[c] = publishChan[c]
        BY <1>1, <3>2, <3>5 DEF BatchInv, PublisherTypeOK
      <4>2. QED
        BY <4>1 DEF Tidy
    <3>6. QED
      BY <3>4, <3>5
  <2>3. QED
    BY <2>1, <2>2 DEF Batching
<1>5. QED
  BY <1>2, <1>3, <1>4 DEF Tidy

\* The publishing goroutine holds one batch at most, and what a connection
\* loses is gone.
LEMMA ConnectionTidy ==
  ASSUME BatchInv, Tidy, NEW c \in Conns, Publish(c) \/ Deliver(c) \/ Drop(c) \/ Notice(c)
  PROVE  Tidy'
<1>1. /\ publishChan[c] \in Seq(Message) /\ wire[c] \in Seq(Message) /\ drops \in Nat
  BY PublisherAssumption DEF BatchInv, PublisherTypeOK
<1>2. phase' = phase /\ batch' = batch
  BY DEF Publish, Receive, Written, WriteFails, Reconnect, Deliver, Drop, Notice, streams
<1>3. drops # 0 => drops' # 0
  <2>1. CASE Drop(c)
    <3>1. drops' = drops + 1
      BY <2>1 DEF Drop
    <3>2. QED
      BY <1>1, <3>1
  <2>2. CASE Publish(c) \/ Deliver(c) \/ Notice(c)
    BY <2>2 DEF Publish, Receive, Written, WriteFails, Reconnect, Deliver, Notice
  <2>3. QED
    BY <2>1, <2>2
<1>4. \A d \in Conns : d # c => /\ held'[d] = held[d] /\ publishChan'[d] = publishChan[d]
                                /\ wire'[d] = wire[d] /\ link'[d] = link[d]
  BY DEF Publish, Receive, Written, WriteFails, Reconnect, Deliver, Drop, Notice,
     BatchInv, PublisherTypeOK
<1>5. /\ held'[c] # <<>> => \E m \in Message : held'[c] = <<m>> /\ m.items # <<>>
      /\ \A i \in 1 .. Len(publishChan'[c]) : publishChan'[c][i].items # <<>>
  <2>1. CASE Receive(c)
    <3>1. /\ publishChan[c] # <<>>
          /\ held'[c] = <<Head(publishChan[c])>> /\ publishChan'[c] = Tail(publishChan[c])
      BY <2>1 DEF Receive, BatchInv, PublisherTypeOK
    <3>2. /\ Len(publishChan[c]) \in Nat /\ 1 \in 1 .. Len(publishChan[c])
          /\ Head(publishChan[c]) = publishChan[c][1] /\ Head(publishChan[c]) \in Message
      BY <1>1, <3>1, EmptySeq
    <3>3. \A i \in 1 .. Len(Tail(publishChan[c])) :
            i + 1 \in 1 .. Len(publishChan[c]) /\ Tail(publishChan[c])[i] = publishChan[c][i + 1]
      BY <1>1, <3>1
    <3>4. QED
      BY <3>1, <3>2, <3>3 DEF Tidy
  <2>2. CASE Written(c)
    <3>1. held'[c] = <<>> /\ publishChan' = publishChan
      BY <2>2 DEF Written, BatchInv, PublisherTypeOK
    <3>2. QED
      BY <3>1 DEF Tidy
  <2>3. CASE ~Receive(c) /\ ~Written(c)
    <3>1. held' = held /\ publishChan' = publishChan
      BY <2>3 DEF Publish, WriteFails, Reconnect, Deliver, Drop, Notice
    <3>2. QED
      BY <3>1 DEF Tidy
  <2>4. QED
    BY <2>1, <2>2, <2>3
<1>6. link'[c] # "up" => wire'[c] = <<>> /\ drops' # 0
  <2>1. CASE Receive(c)
    BY <2>1 DEF Receive, Tidy
  <2>2. CASE Written(c)
    BY <2>2 DEF Written, Tidy
  <2>3. CASE WriteFails(c)
    BY <2>3 DEF WriteFails, Tidy
  <2>4. CASE Reconnect(c)
    BY <2>4 DEF Reconnect, BatchInv, PublisherTypeOK
  <2>5. CASE Deliver(c)
    BY <2>5 DEF Deliver
  <2>6. CASE Drop(c)
    <3>1. wire'[c] = <<>> /\ drops' = drops + 1
      BY <2>6 DEF Drop, BatchInv, PublisherTypeOK
    <3>2. QED
      BY <1>1, <3>1
  <2>7. CASE Notice(c)
    BY <2>7 DEF Notice, Tidy
  <2>8. QED
    BY <2>1, <2>2, <2>3, <2>4, <2>5, <2>6, <2>7 DEF Publish
<1>7. \A s \in Streams : phase'[s] = "idle" <=> batch'[s] = <<>>
  BY <1>2 DEF Tidy
<1>8. \A d \in Conns :
        /\ held'[d] # <<>> => \E m \in Message : held'[d] = <<m>> /\ m.items # <<>>
        /\ \A i \in 1 .. Len(publishChan'[d]) : publishChan'[d][i].items # <<>>
        /\ link'[d] # "up" => wire'[d] = <<>> /\ drops' # 0
  <2> TAKE d \in Conns
  <2>1. CASE d = c
    BY <1>5, <1>6, <2>1
  <2>2. CASE d # c
    BY <1>3, <1>4, <2>2 DEF Tidy
  <2>3. QED
    BY <2>1, <2>2
<1>9. QED
  BY <1>7, <1>8 DEF Tidy

\* At the beginning every stream is in order.
LEMMA RightInit == ASSUME Init, NEW s \in Streams PROVE Right(s)
<1>1. BatchInv
  BY BatchInit
<1>2. /\ batch[s] = <<>> /\ ch[s] = <<>> /\ made[s] = 0 /\ Conn(s) \in Conns
      /\ held[Conn(s)] = <<>> /\ publishChan[Conn(s)] = <<>>
      /\ broker[Conn(s)] = <<>> /\ wire[Conn(s)] = <<>>
  BY ConnInPool DEF Init
<1>3. <<>> \o <<>> = <<>>
  OBVIOUS
<1>4. Unwritten(s) = <<>> /\ Sent(Conn(s)) = <<>>
  BY <1>2, <1>3, ItemsOfNone DEF Unwritten, Sent
<1>5. <<>> = [i \in 1 .. 0 |-> i] /\ Len(<<>>) = 0
  OBVIOUS
<1>6. Latest(<<>>, 0)
  BY <1>5 DEF Latest
<1>7. ItemsOf(s, <<>>) \o <<>> = [i \in 1 .. 0 |-> i]
  BY <1>3, <1>5, ItemsOfNone
<1>8. Ordered(s, <<>>, <<>>, <<>>, 0, drops)
  BY <1>5, <1>6, <1>7 DEF Ordered
<1>9. QED
  BY <1>2, <1>4, <1>8 DEF Right

\* A step of any kind leaves a stream in order.
LEMMA MovesKeep ==
  ASSUME BatchInv, BatchInv', NEW s \in Streams, Right(s), Moves(s)
  PROVE  Right(s)'
<1>a. PICK sent, left, u, v, h, k, n, d, e :
        /\ sent = Sent(Conn(s)) /\ u = Unwritten(s) /\ h = held[Conn(s)]
        /\ n = made[s] /\ d = drops
        /\ left = Sent(Conn(s))' /\ v = Unwritten(s)' /\ k = held'[Conn(s)]
        /\ e = drops'
  OBVIOUS
<1>1. /\ sent \in Seq(Message) /\ u \in Seq(Nat) /\ n \in Nat /\ Behind(s) \in Seq(Nat)
      /\ wire[Conn(s)] \in Seq(Message)
  BY <1>a, StreamTypes
<1>2. left \in Seq(Message) /\ v \in Seq(Nat)
  <2>1. BatchInv' => Sent(Conn(s))' \in Seq(Message) /\ Unwritten(s)' \in Seq(Nat)
    <3>1. /\ BatchInv' => /\ batch'[s] \in Seq(Nat) /\ ch'[s] \in Seq(Nat)
                          /\ held'[Conn(s)] \in Seq(Message)
                          /\ publishChan'[Conn(s)] \in Seq(Message)
                          /\ wire'[Conn(s)] \in Seq(Message)
                          /\ broker'[Conn(s)] \in Seq(Message)
      BY ConnInPool DEF BatchInv, PublisherTypeOK
    <3> HIDE DEF BatchInv
    <3>2. BatchInv' => held'[Conn(s)] \o publishChan'[Conn(s)] \in Seq(Message)
      BY <3>1
    <3>3. BatchInv' => ItemsOf(s, held'[Conn(s)] \o publishChan'[Conn(s)]) \in Seq(Nat)
      BY <3>2, ItemsTyped
    <3>4. QED
      BY <3>1, <3>3 DEF Sent, Unwritten
  <2>2. QED
    BY <1>a, <2>1
<1>3. Ordered(s, sent, u, h, n, d)
  BY <1>a DEF Right
<1>4. CASE Grows(s)
  <2>1. made'[s] = n + 1 /\ v = Append(u, n + 1) /\ left = sent /\ k = h /\ e = d
    BY <1>4, <1>a DEF Grows
  <2>2. Ordered(s, sent, Append(u, n + 1), h, n + 1, d)
    BY <1>1, <1>3, GrowsKeeps
  <2>3. Ordered(s, left, v, k, made'[s], e)
    BY <2>1, <2>2
  <2>4. QED
    BY <1>a, <2>3 DEF Right
<1>5. CASE Stays(s)
  <2>1. /\ made'[s] = n /\ v = u /\ (k = h \/ h = <<>>)
        /\ \/ left = sent /\ (e = d \/ e # 0)
           \/ sent = left \o wire[Conn(s)] /\ e # 0
    BY <1>5, <1>a DEF Stays
  <2>2. Ordered(s, left, u, k, n, e)
    BY <1>1, <1>2, <1>3, <2>1, StaysKeeps
  <2>3. Ordered(s, left, v, k, made'[s], e)
    BY <2>1, <2>2
  <2>4. QED
    BY <1>a, <2>3 DEF Right
<1>6. CASE \E m \in Message : Leaves(s, m)
  <2>1. PICK m \in Message : Leaves(s, m)
    BY <1>6
  <2>2. /\ h = <<m>> /\ k = <<>> /\ m.items # <<>> /\ made'[s] = n /\ e = d
        /\ u = Own(s, m) \o v
        /\ \/ left = Append(sent, m)
           \/ left = sent /\ d # 0
    BY <1>a, <2>1 DEF Leaves
  <2>3. Ordered(s, left, v, <<>>, n, d)
    BY <1>1, <1>2, <1>3, <2>2, LeavesKeeps
  <2>4. Ordered(s, left, v, k, made'[s], e)
    BY <2>2, <2>3
  <2>5. QED
    BY <1>a, <2>4 DEF Right
<1>7. CASE \E m \in Message : Repeats(s, m)
  <2>1. PICK m \in Message : Repeats(s, m)
    BY <1>7
  <2>2. /\ h = <<m>> /\ k = <<m>> /\ m.items # <<>> /\ made'[s] = n /\ e = d /\ d # 0
        /\ u = Own(s, m) \o Behind(s) /\ v = u
        /\ left = Append(sent, m)
    BY <1>a, <2>1 DEF Repeats
  <2>3. Ordered(s, left, u, <<m>>, n, d)
    BY <1>1, <1>2, <1>3, <2>2, RepeatsKeeps
  <2>4. Ordered(s, left, v, k, made'[s], e)
    BY <2>2, <2>3
  <2>5. QED
    BY <1>a, <2>4 DEF Right
<1>8. QED
  BY <1>4, <1>5, <1>6, <1>7 DEF Moves

\* The strengthened invariant holds at the beginning.
LEMMA OrderInit == Init => OrderInv
BY BatchInit, TidyInit, RightInit DEF OrderInv

\* It is kept by every step.
LEMMA OrderNext == OrderInv /\ [Next]_vars => OrderInv'
<1> SUFFICES ASSUME OrderInv, [Next]_vars PROVE OrderInv'
  OBVIOUS
<1>1. BatchInv /\ Tidy /\ \A s \in Streams : Right(s)
  BY DEF OrderInv
<1>2. BatchInv'
  BY <1>1, BatchNext
<1>3. CASE Next
  <2>1. Tidy' /\ \A t \in Streams : Moves(t)
    <3>1. ASSUME NEW s \in Streams, Offer(s) \/ Batching(s)
          PROVE  Tidy' /\ \A t \in Streams : Moves(t)
      <4>1. Tidy'
        BY <1>1, <3>1, StreamTidy
      <4>2. \A t \in Streams : Grows(t) \/ Stays(t)
        BY <1>1, <3>1, StreamMoves
      <4>3. QED
        BY <4>1, <4>2 DEF Moves
    <3>2. ASSUME NEW c \in Conns, Publish(c) \/ Deliver(c) \/ Drop(c) \/ Notice(c)
          PROVE  Tidy' /\ \A t \in Streams : Moves(t)
      BY <1>1, <3>2, ConnectionTidy, ConnectionMoves
    <3>3. QED
      BY <1>3, <3>1, <3>2 DEF Next
  <2>2. \A t \in Streams : Right(t)'
    BY <1>1, <1>2, <2>1, MovesKeep
  <2>3. QED
    BY <1>2, <2>1, <2>2 DEF OrderInv
<1>4. CASE UNCHANGED vars
  <2>1. Tidy'
    BY <1>1, <1>4 DEF Tidy, vars
  <2>2. \A s \in Streams : Right(s)'
    BY <1>1, <1>4 DEF Right, Sent, Unwritten, vars
  <2>3. QED
    BY <1>2, <2>1, <2>2 DEF OrderInv
<1>5. QED
  BY <1>3, <1>4

\* The properties follow from it.
LEMMA OrderShows == OrderInv => EachInOneBatch /\ BrokerInOrder
<1> SUFFICES ASSUME OrderInv PROVE EachInOneBatch /\ BrokerInOrder
  OBVIOUS
<1>1. EachInOneBatch
  BY DEF OrderInv, Right, Ordered, Latest, EachInOneBatch
<1>2. ASSUME NEW s \in Streams, NEW sent, sent = broker[Conn(s)] \o wire[Conn(s)]
      PROVE  /\ \A i, j \in DOMAIN sent :
                  i < j /\ sent[i].stream = s /\ sent[j].stream = s =>
                    \/ sent[i] = sent[j]
                    \/ Last(sent[i].items) < Head(sent[j].items)
             /\ drops = 0 => ItemsOf(s, sent) \o Unwritten(s) = [i \in 1 .. made[s] |-> i]
  <2>1. sent = Sent(Conn(s))
    BY <1>2 DEF Sent
  <2>2. DOMAIN sent = 1 .. Len(sent)
    BY <2>1, StreamTypes DEF OrderInv
  <2>3. Ordered(s, sent, Unwritten(s), held[Conn(s)], made[s], drops)
    BY <2>1 DEF OrderInv, Right
  <2>4. QED
    BY <2>2, <2>3 DEF Ordered
<1>3. BrokerInOrder
  BY <1>2 DEF BrokerInOrder
<1>4. QED
  BY <1>1, <1>3

\* Between the producer and the socket the messages of a stream are the latest
\* ones, in order, each in one batch, whatever the connection does, for any
\* streams, connections, capacities and batch sizes (PublishResultChan,
\* BatchMatchResult, thread, sendToMQ, BatchMqPub, PublishWithChan, Publish).
THEOREM EachBatchedOnce == Spec => []EachInOneBatch
BY OrderInit, OrderNext, OrderShows, PTL DEF Spec

\* The broker takes the batches of a stream in the order they were made, a
\* retried one at most again right after itself, and misses none unless a
\* connection was lost (PublishWithChan, Publish, reconnect).
THEOREM DeliveredInOrder == Spec => []BrokerInOrder
BY OrderInit, OrderNext, OrderShows, PTL DEF Spec
=============================================================================
