------------------------------ MODULE Publisher ------------------------------
(* How results, depths and quotations reach the broker                       *)
(* (match/matcher.go PublishResultChan, market/thread.go,                    *)
(* l2quote/rabbitmq_ops.go, rabbitmq/rabbitmq.go).                           *)
(*                                                                           *)
(* A stream is one symbol's messages of one kind.  Its producer writes to    *)
(* the stream's channel; one goroutine per stream packs what has piled up    *)
(* into a batch and hands the batch to the connection of the symbol; one     *)
(* goroutine per connection, shared by the streams of several symbols,       *)
(* publishes batch after batch and reconnects when the connection is lost.   *)
(* There are no publisher confirms: what was written may be lost.            *)
EXTENDS Integers, Sequences, SequencesExt

CONSTANTS
    Streams,     \* pairs <<place of the symbol in the configuration, kind>>
    PoolSize,    \* connections (rabbitmq.conn-num)
    BatchNum,    \* batch_result - 1
    MqBatchSize, \* messages packed after the first one by sendToMQ
    ChCap,       \* capacity of a stream's channel
    PublishCap,  \* capacity of a connection's publishChan (10000)
    MaxMade,     \* bound: messages each producer writes, by stream
    MaxDrops     \* bound: times a connection is lost

Kinds == {"results", "depth", "quotes"}

ASSUME PublisherAssumption ==
    /\ Streams \subseteq Nat \X Kinds
    /\ PoolSize \in Nat \ {0} /\ ChCap \in Nat \ {0} /\ PublishCap \in Nat \ {0}
    /\ BatchNum \in Nat /\ MqBatchSize \in Nat
    /\ MaxMade \in [Streams -> Nat] /\ MaxDrops \in Nat

VARIABLES
    made,        \* messages each producer has written: 1 .. made[s]
    ch,          \* the stream's channel
    phase,       \* where the stream's batching goroutine is
    batch,       \* the batch it is packing
    missing,     \* messages it still has to receive for this batch
    publishChan, \* batches waiting for the connection
    held,        \* the batch inside Publish (at most one)
    link,        \* the connection, as the amqp library knows it
    wire,        \* batches written and not yet read by the broker
    broker,      \* batches the broker has taken
    drops        \* connections lost so far

vars == <<made, ch, phase, batch, missing, publishChan, held, link, wire,
          broker, drops>>

Conns == 0 .. PoolSize - 1

\* GetMatchResultRabbitMq: symbols are dealt to the connections in turn.
Conn(s) == s[1] % PoolSize

Least(a, b) == IF a < b THEN a ELSE b

\* Slip: the batch is always a full one.
ExtraFull(s, len) == BatchNum

\* How many messages follow the first one, when len of them are waiting.
Extra(s, len) ==
    CASE s[2] = "results" -> Least(len, BatchNum)
      [] s[2] = "quotes"  -> Least(len, MqBatchSize)
      [] s[2] = "depth"   -> LET size == Least(BatchNum, len)
                             IN  IF size < 1 THEN 0 ELSE size - 1

Message == [stream : Streams, items : Seq(Nat)]

Init ==
    /\ made = [s \in Streams |-> 0]
    /\ ch = [s \in Streams |-> <<>>]
    /\ phase = [s \in Streams |-> "idle"]
    /\ batch = [s \in Streams |-> <<>>]
    /\ missing = [s \in Streams |-> 0]
    /\ publishChan = [c \in Conns |-> <<>>]
    /\ held = [c \in Conns |-> <<>>]
    /\ link = [c \in Conns |-> "up"]
    /\ wire = [c \in Conns |-> <<>>]
    /\ broker = [c \in Conns |-> <<>>]
    /\ drops = 0

-----------------------------------------------------------------------------
(* The producer and the batching goroutine of a stream. *)

connections == <<publishChan, held, link, wire, broker, drops>>

\* The matcher's loop (or a quotation goroutine) writes; it blocks on a full
\* channel.
Offer(s) ==
    /\ made[s] < MaxMade[s]
    /\ Len(ch[s]) < ChCap
    /\ made' = [made EXCEPT ![s] = @ + 1]
    /\ ch' = [ch EXCEPT ![s] = Append(@, made[s] + 1)]
    /\ UNCHANGED <<phase, batch, missing, connections>>

\* msg := <-ch
First(s) ==
    /\ phase[s] = "idle"
    /\ ch[s] # <<>>
    /\ batch' = [batch EXCEPT ![s] = <<Head(ch[s])>>]
    /\ ch' = [ch EXCEPT ![s] = Tail(@)]
    /\ phase' = [phase EXCEPT ![s] = "count"]
    /\ UNCHANGED <<made, missing, connections>>

\* size := len(ch), cut down to the largest batch
Count(s) ==
    /\ phase[s] = "count"
    /\ missing' = [missing EXCEPT ![s] = Extra(s, Len(ch[s]))]
    /\ phase' = [phase EXCEPT ![s] = "pack"]
    /\ UNCHANGED <<made, ch, batch, connections>>

\* Slip: the message that completes the batch is received and forgotten.
PackForgets(s) ==
    /\ phase[s] = "pack"
    /\ missing[s] > 0
    /\ ch[s] # <<>>
    /\ batch' = [batch EXCEPT ![s] = IF missing[s] = 1 THEN @ ELSE Append(@, Head(ch[s]))]
    /\ ch' = [ch EXCEPT ![s] = Tail(@)]
    /\ missing' = [missing EXCEPT ![s] = @ - 1]
    /\ UNCHANGED <<made, phase, connections>>

\* Slip: the loop runs once too often.
PackOnceMore(s) ==
    /\ phase[s] = "pack"
    /\ ch[s] # <<>>
    /\ batch' = [batch EXCEPT ![s] = Append(@, Head(ch[s]))]
    /\ ch' = [ch EXCEPT ![s] = Tail(@)]
    /\ missing' = [missing EXCEPT ![s] = @ - 1]
    /\ UNCHANGED <<made, phase, connections>>

\* One turn of BatchMatchResult's loop (BatchMqPub, the loop of thread).
Pack(s) ==
    /\ phase[s] = "pack"
    /\ missing[s] > 0
    /\ ch[s] # <<>>
    /\ batch' = [batch EXCEPT ![s] = Append(@, Head(ch[s]))]
    /\ ch' = [ch EXCEPT ![s] = Tail(@)]
    /\ missing' = [missing EXCEPT ![s] = @ - 1]
    /\ UNCHANGED <<made, phase, connections>>

\* PublishWithChan: blocks while the connection's channel is full.
PublishWithChan(s) ==
    /\ phase[s] = "pack"
    /\ missing[s] = 0
    /\ Len(publishChan[Conn(s)]) < PublishCap
    /\ publishChan' = [publishChan EXCEPT ![Conn(s)] =
                          Append(@, [stream |-> s, items |-> batch[s]])]
    /\ batch' = [batch EXCEPT ![s] = <<>>]
    /\ phase' = [phase EXCEPT ![s] = "idle"]
    /\ UNCHANGED <<made, ch, missing, held, link, wire, broker, drops>>

-----------------------------------------------------------------------------
(* The publishing goroutine of a connection. *)

streams == <<made, ch, phase, batch, missing>>

\* publishContent := <-publishChan
Receive(c) ==
    /\ held[c] = <<>>
    /\ publishChan[c] # <<>>
    /\ held' = [held EXCEPT ![c] = <<Head(publishChan[c])>>]
    /\ publishChan' = [publishChan EXCEPT ![c] = Tail(@)]
    /\ UNCHANGED <<streams, link, wire, broker, drops>>

\* amqpChannel.Publish returns nil: on a live connection the batch is on its
\* way; on a broken one that nobody has noticed it is lost.
Written(c) ==
    /\ held[c] # <<>>
    /\ \/ link[c] = "up" /\ wire' = [wire EXCEPT ![c] = @ \o held[c]]
       \/ link[c] = "broken" /\ UNCHANGED wire
    /\ held' = [held EXCEPT ![c] = <<>>]
    /\ UNCHANGED <<streams, publishChan, link, broker, drops>>

\* Slip: a failed batch goes to the end of the queue.
WriteFailsRequeued(c) ==
    /\ held[c] # <<>>
    /\ link[c] = "broken"
    /\ link' = [link EXCEPT ![c] = "closed"]
    /\ publishChan' = [publishChan EXCEPT ![c] = @ \o held[c]]
    /\ held' = [held EXCEPT ![c] = <<>>]
    /\ UNCHANGED <<streams, wire, broker, drops>>

\* The write fails with a network error: the loop sleeps and tries again.  The
\* caller does not know whether the batch went through; the library closes the
\* connection.
WriteFails(c) ==
    /\ held[c] # <<>>
    /\ link[c] = "broken"
    /\ \/ broker' = [broker EXCEPT ![c] = @ \o held[c]]
       \/ UNCHANGED broker
    /\ link' = [link EXCEPT ![c] = "closed"]
    /\ UNCHANGED <<streams, publishChan, held, wire, drops>>

\* Slip: every error is taken for a passing one, and tried on the same channel.
ReconnectNever(c) ==
    /\ held[c] # <<>>
    /\ link[c] = "closed"
    /\ UNCHANGED vars

\* ErrClosed carries amqp.ChannelError: reconnect until it succeeds, then the
\* same batch is tried again.  Attempts that fail change nothing.
Reconnect(c) ==
    /\ held[c] # <<>>
    /\ link[c] = "closed"
    /\ link' = [link EXCEPT ![c] = "up"]
    /\ wire' = [wire EXCEPT ![c] = <<>>]
    /\ UNCHANGED <<streams, publishChan, held, broker, drops>>

-----------------------------------------------------------------------------
(* The broker, the network and the amqp library. *)

Deliver(c) ==
    /\ link[c] = "up"
    /\ wire[c] # <<>>
    /\ broker' = [broker EXCEPT ![c] = Append(@, Head(wire[c]))]
    /\ wire' = [wire EXCEPT ![c] = Tail(@)]
    /\ UNCHANGED <<streams, publishChan, held, link, drops>>

\* The connection is lost, with what was still on its way.
Drop(c) ==
    /\ link[c] = "up"
    /\ drops < MaxDrops
    /\ drops' = drops + 1
    /\ link' = [link EXCEPT ![c] = "broken"]
    /\ wire' = [wire EXCEPT ![c] = <<>>]
    /\ UNCHANGED <<streams, publishChan, held, broker>>

\* The library's reader or its heartbeat finds out.
Notice(c) ==
    /\ link[c] = "broken"
    /\ link' = [link EXCEPT ![c] = "closed"]
    /\ UNCHANGED <<streams, publishChan, held, wire, broker, drops>>

-----------------------------------------------------------------------------
Batching(s) == First(s) \/ Count(s) \/ Pack(s) \/ PublishWithChan(s)

Publish(c) == Receive(c) \/ Written(c) \/ WriteFails(c) \/ Reconnect(c)

Next ==
    \/ \E s \in Streams : Offer(s) \/ Batching(s)
    \/ \E c \in Conns : Publish(c) \/ Deliver(c) \/ Drop(c) \/ Notice(c)

Spec == Init /\ [][Next]_vars

\* Every goroutine runs, the library notices a dead connection, and the broker
\* can be reached again.
FairSpec ==
    /\ Spec
    /\ \A s \in Streams : WF_vars(Batching(s))
    /\ \A c \in Conns : WF_vars(Publish(c)) /\ WF_vars(Deliver(c)) /\ WF_vars(Notice(c))

-----------------------------------------------------------------------------
(* Type invariant. *)

PublisherTypeOK ==
    /\ made \in [Streams -> Nat]
    /\ ch \in [Streams -> Seq(Nat)]
    /\ phase \in [Streams -> {"idle", "count", "pack"}]
    /\ batch \in [Streams -> Seq(Nat)]
    /\ missing \in [Streams -> Nat]
    /\ publishChan \in [Conns -> Seq(Message)]
    /\ held \in [Conns -> Seq(Message)]
    /\ link \in [Conns -> {"up", "broken", "closed"}]
    /\ wire \in [Conns -> Seq(Message)]
    /\ broker \in [Conns -> Seq(Message)]
    /\ drops \in 0 .. MaxDrops

(* Properties. *)

\* The size of a batch is read from a channel another goroutine writes, and the
\* batch is then filled with blocking receives: it never waits for a message
\* that is not there yet, so what was received is published at once
\* (PublishResultChan and BatchMatchResult, thread, sendToMQ and BatchMqPub).
NeverShort == \A s \in Streams : missing[s] <= Len(ch[s])

ItemsOf(s, messages) ==
    FlattenSeq([i \in DOMAIN messages |->
                   IF messages[i].stream = s THEN messages[i].items ELSE <<>>])

\* What the stream's messages are made of between the producer and the socket.
Unwritten(s) == ItemsOf(s, held[Conn(s)] \o publishChan[Conn(s)]) \o batch[s] \o ch[s]

\* Whatever the connection does, the messages that have not left the process
\* are the latest ones, in order, each in one batch: none is skipped, repeated
\* or swapped on the way through the two channels, the batch being packed and
\* the batch being retried.
EachInOneBatch ==
    \A s \in Streams :
        LET u == Unwritten(s)
        IN  u = [i \in 1 .. Len(u) |-> made[s] - Len(u) + i]

\* The broker takes the batches of a stream in the order they were made; a
\* retried batch may come again, right after itself.  Batches are lost only
\* with a connection.
BrokerInOrder ==
    \A s \in Streams :
        LET sent == broker[Conn(s)] \o wire[Conn(s)]
        IN  /\ \A i, j \in DOMAIN sent :
                   i < j /\ sent[i].stream = s /\ sent[j].stream = s =>
                       \/ sent[i] = sent[j]
                       \/ Last(sent[i].items) < Head(sent[j].items)
            /\ drops = 0 => ItemsOf(s, sent) \o Unwritten(s) = [i \in 1 .. made[s] |-> i]

\* Every message a producer wrote leaves the process: the streams that share a
\* connection do not starve each other, and a lost connection holds the batch
\* up only until the broker can be reached again.
AllHanded ==
    \A s \in Streams : \A n \in 1 .. MaxMade[s] :
        (made[s] >= n) ~> (\A i \in DOMAIN Unwritten(s) : Unwritten(s)[i] # n)
=============================================================================
