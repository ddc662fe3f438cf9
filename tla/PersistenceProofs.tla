-------------------------- MODULE PersistenceProofs --------------------------
(***************************************************************************)
(* No result disappears between the matcher and the database: proofs about *)
(* Persistence, for any number of rows, crashes and inserters, any         *)
(* capacities and any size of batches.                                     *)
(***************************************************************************)
EXTENDS Persistence, EventLoopProofs

\* A result of the book that has not reached the end of its way.
Accounted(i) == i \in stored \cup InFlight \cup failed \cup skipped

\* A result the matcher is about to send is that of a row.
ResultOfRow == loop = "result" => book.fromId \in Rows

\* The event loop as before, its results, and the types of their way.
PersistInv == IInv /\ PersistTypeOK /\ ResultOfRow /\ ResultsAccountedFor

-----------------------------------------------------------------------------
(* Where a result can be *)

\* A result in flight is in the channel of results, in a batch that waits, or
\* in one that is being inserted.
LEMMA InFlightPlaces ==
  ASSUME NEW i
  PROVE  i \in InFlight <=>
           \/ i \in Range(perch)
           \/ \E k \in DOMAIN mrBatchChan : i \in Range(mrBatchChan[k])
           \/ \E w \in Inserters : i \in Range(inserting[w])
  BY DEF InFlight

\* What is in flight after a step, by the places where it may be.
LEMMA InFlightPlacesNext ==
  ASSUME NEW i
  PROVE  i \in InFlight' <=>
           \/ i \in Range(perch')
           \/ \E k \in DOMAIN mrBatchChan' : i \in Range(mrBatchChan'[k])
           \/ \E w \in Inserters : i \in Range(inserting'[w])
  BY DEF InFlight

\* A sequence cut in two has its elements in the two parts.
LEMMA CutRange ==
  ASSUME NEW S, NEW s \in Seq(S), NEW n \in 1 .. Len(s)
  PROVE  /\ SubSeq(s, 1, n) \in Seq(S) /\ Len(SubSeq(s, 1, n)) = n
         /\ SubSeq(s, n + 1, Len(s)) \in Seq(S)
         /\ \A x \in Range(s) : x \in Range(SubSeq(s, 1, n))
                                  \/ x \in Range(SubSeq(s, n + 1, Len(s)))
<1> DEFINE a == SubSeq(s, 1, n)
           b == SubSeq(s, n + 1, Len(s))
           m == Len(s)
<1>1. m \in Nat /\ DOMAIN s = 1 .. m /\ n \in Nat /\ n <= m
  BY LenProperties
<1>2. /\ a \in Seq(S) /\ Len(a) = n /\ DOMAIN a = 1 .. n
      /\ \A j \in 1 .. n : a[j] = s[j]
  BY <1>1, LenProperties
<1>3. /\ b \in Seq(S) /\ Len(b) = m - n /\ DOMAIN b = 1 .. m - n
      /\ \A j \in 1 .. m - n : b[j] = s[n + j]
  <2>1. n + 1 \in Int /\ m \in Int /\ \A i \in n + 1 .. m : s[i] \in S
    BY <1>1, ElementOfSeq
  <2>2. /\ b \in Seq(S)
        /\ Len(b) = IF n + 1 <= m THEN m - (n + 1) + 1 ELSE 0
        /\ \A j \in 1 .. m - (n + 1) + 1 : b[j] = s[(n + 1) + j - 1]
    BY <1>1, <2>1, SubSeqProperties
  <2> HIDE DEF b, m
  <2>3. Len(b) = m - n
    BY <1>1, <2>2
  <2>4. \A j \in 1 .. m - n : j \in 1 .. m - (n + 1) + 1 /\ n + j = (n + 1) + j - 1
    BY <1>1
  <2>5. QED
    BY <2>2, <2>3, <2>4, LenProperties
<1> HIDE DEF a, b, m
<1>4. ASSUME NEW x \in Range(s)
      PROVE  x \in Range(a) \/ x \in Range(b)
  <2>1. PICK j \in 1 .. m : x = s[j]
    BY <1>1 DEF Range
  <2>2. CASE j <= n
    <3>1. j \in 1 .. n
      BY <1>1, <2>2
    <3>2. QED
      BY <1>2, <2>1, <3>1 DEF Range
  <2>3. CASE j > n
    <3>1. j - n \in 1 .. m - n /\ n + (j - n) = j
      BY <1>1, <2>3
    <3>2. QED
      BY <1>3, <2>1, <3>1 DEF Range
  <2>4. QED
    BY <1>1, <2>2, <2>3
<1>5. QED
  BY <1>2, <1>3, <1>4 DEF a, b, m
-----------------------------------------------------------------------------
(* The invariant *)

\* The invariant holds at the beginning.
LEMMA PersistInitInv == PersistInit => PersistInv
<1> SUFFICES ASSUME PersistInit
             PROVE  PersistInv
  OBVIOUS
<1>1. IInv
  BY InitInv DEF PersistInit
<1>2. PersistTypeOK
  <2>1. mrBatchChan = <<>> /\ mrBatchChan \in Seq(Seq(Rows)) /\ DOMAIN mrBatchChan = {}
    BY DEF PersistInit
  <2>2. perch \in Seq(Rows) /\ inserting \in [Inserters -> Seq(Rows)]
    BY EmptySeq DEF PersistInit
  <2>3. QED
    BY <2>1, <2>2 DEF PersistInit, PersistTypeOK
<1>3. ResultsAccountedFor
  BY DEF PersistInit, Init, EmptyBook, ResultsAccountedFor, Range
<1>4. ResultOfRow
  BY DEF PersistInit, Init, ResultOfRow
<1>5. QED
  BY <1>1, <1>2, <1>3, <1>4 DEF PersistInv

\* The steps that leave the event loop where it is, or take one of its own.
LEMMA LoopKept ==
  ASSUME IInv, PersistNext
  PROVE  IInv'
<1>1. CASE ValidateFails
  <2>1. Started(EmptyBook, 1) /\ UNCHANGED onDisk /\ alive' = FALSE
    BY <1>1 DEF ValidateFails
  <2>2. EmptyBook \in Book /\ Kept(EmptyBook) /\ EmptyBook.fromId + 1 = 1
    <3>1. \A i \in table : i \in Nat \ {0}
      BY LoopAssumption DEF IInv, TypeOK, Rows
    <3>2. {i \in table : i <= 0} = {}
      BY <3>1
    <3>3. QED
      BY <3>2, EmptySeq, LoopAssumption DEF EmptyBook, Book, Kept, Exact, Increasing, Range
  <2>3. 1 \in 1 .. MaxRow + 1
    BY LoopAssumption
  <2>4. TypeOK'
    BY <2>1, <2>2, <2>3, StartedType DEF IInv
  <2>5. QED
    BY <2>1, <2>2, <2>4, StartedInv DEF onDisk
<1>2. CASE ~ValidateFails
  <2>1. [Next]_vars
    BY <1>2 DEF PersistNext, Elsewhere, SendToPerch, Batch, TakeBatch, Insert, InsertFails,
       Validate, CrashPersist, RestartPersist, Next, Loop
  <2>2. QED
    BY <2>1, StepInv
<1>3. QED
  BY <1>1, <1>2

-----------------------------------------------------------------------------
(* The steps of the results *)

\* What is accounted for stays so while the book is the same.
LEMMA SameBook ==
  ASSUME PersistInv, UNCHANGED <<book, loop>>,
         \A i : Accounted(i) => Accounted(i)'
  PROVE  ResultOfRow' /\ ResultsAccountedFor'
  BY DEF PersistInv, ResultOfRow, ResultsAccountedFor, Accounted

\* A result that is written to perch was the one the matcher had in hand.
LEMMA SendToPerchInv ==
  ASSUME PersistInv, SendToPerch
  PROVE  PersistTypeOK' /\ ResultOfRow' /\ ResultsAccountedFor'
<1> DEFINE p == Append(perch, book.fromId)
<1>1. /\ UNCHANGED <<mrBatchChan, inserting, stored, failed, skipped, checked, refused, book>>
      /\ perch' = p /\ loop = "result" /\ loop' = "select"
  BY DEF SendToPerch, SendResult, outcome
<1>2. book.fromId \in Rows /\ perch \in Seq(Rows)
  BY <1>1 DEF PersistInv, ResultOfRow, PersistTypeOK
<1>3. p \in Seq(Rows) /\ \A x : x \in Range(perch) \/ x = book.fromId => x \in Range(p)
  <2>1. /\ p \in Seq(Rows) /\ Len(p) = Len(perch) + 1 /\ Len(perch) \in Nat
        /\ \A j \in 1 .. Len(perch) : p[j] = perch[j]
        /\ p[Len(perch) + 1] = book.fromId
        /\ DOMAIN perch = 1 .. Len(perch) /\ DOMAIN p = 1 .. Len(perch) + 1
    BY <1>2, AppendProperties, LenProperties
  <2> HIDE DEF p
  <2>2. \A j \in 1 .. Len(perch) : j \in DOMAIN p
    BY <2>1
  <2>3. Len(perch) + 1 \in DOMAIN p
    BY <2>1
  <2>4. QED
    BY <2>1, <2>2, <2>3 DEF Range
<1> HIDE DEF p
<1>4. PersistTypeOK'
  BY <1>1, <1>3 DEF PersistInv, PersistTypeOK
<1>5. \A i : Accounted(i) \/ i = book.fromId => Accounted(i)'
  BY <1>1, <1>3, InFlightPlaces, InFlightPlacesNext DEF Accounted
<1>6. ResultOfRow' /\ ResultsAccountedFor'
  BY <1>1, <1>5 DEF PersistInv, ResultOfRow, ResultsAccountedFor, Accounted
<1>7. QED
  BY <1>4, <1>6

\* A batch takes results out of perch and leaves the others.
LEMMA BatchInvariant ==
  ASSUME PersistInv, Batch
  PROVE  PersistTypeOK' /\ ResultOfRow' /\ ResultsAccountedFor'
<1> DEFINE n == AtMost(Len(perch), BatchSize)
           a == SubSeq(perch, 1, n)
           b == SubSeq(perch, n + 1, Len(perch))
           c == Append(mrBatchChan, a)
           m == Len(mrBatchChan)
<1>1. /\ UNCHANGED <<inserting, stored, failed, skipped, checked, refused, book, loop>>
      /\ mrBatchChan' = c /\ perch' = b /\ perch # <<>>
  BY DEF Batch, outcome, vars
<1>2. /\ perch \in Seq(Rows) /\ mrBatchChan \in Seq(Seq(Rows))
      /\ \A k \in DOMAIN mrBatchChan : Len(mrBatchChan[k]) \in 1 .. BatchSize
  BY DEF PersistInv, PersistTypeOK
<1>3. n \in 1 .. Len(perch) /\ n \in 1 .. BatchSize
  <2>1. Len(perch) \in Nat \ {0}
    BY <1>1, <1>2, EmptySeq, LenProperties
  <2>2. QED
    BY <2>1, PersistAssumption DEF AtMost
<1> HIDE DEF n
<1>4. /\ a \in Seq(Rows) /\ Len(a) = n /\ b \in Seq(Rows)
      /\ \A x \in Range(perch) : x \in Range(a) \/ x \in Range(b)
  BY <1>2, <1>3, CutRange
<1> HIDE DEF a, b
<1>5. /\ c \in Seq(Seq(Rows)) /\ m \in Nat /\ DOMAIN mrBatchChan = 1 .. m
      /\ DOMAIN c = 1 .. m + 1 /\ \A k \in 1 .. m : c[k] = mrBatchChan[k]
      /\ c[m + 1] = a
  BY <1>2, <1>4, AppendProperties, LenProperties
<1> HIDE DEF c, m
<1>6. \A k \in DOMAIN c : Len(c[k]) \in 1 .. BatchSize
  <2> TAKE k \in DOMAIN c
  <2>1. k \in 1 .. m \/ k = m + 1
    BY <1>5
  <2>2. QED
    BY <1>2, <1>3, <1>4, <1>5, <2>1
<1>7. PersistTypeOK'
  BY <1>1, <1>4, <1>5, <1>6 DEF PersistInv, PersistTypeOK
<1>8. \A i : i \in InFlight => i \in InFlight'
  <2> TAKE i
  <2> SUFFICES ASSUME i \in InFlight
               PROVE  i \in InFlight'
    OBVIOUS
  <2>1. CASE i \in Range(perch)
    <3>1. m + 1 \in DOMAIN c
      BY <1>5
    <3>2. i \in Range(c[m + 1]) \/ i \in Range(perch')
      BY <1>1, <1>4, <1>5, <2>1
    <3>3. QED
      BY <1>1, <3>1, <3>2, InFlightPlacesNext
  <2>2. CASE \E k \in DOMAIN mrBatchChan : i \in Range(mrBatchChan[k])
    <3>1. PICK k \in 1 .. m : i \in Range(mrBatchChan[k])
      BY <1>5, <2>2
    <3>2. k \in DOMAIN c /\ i \in Range(c[k])
      BY <1>5, <3>1
    <3>3. QED
      BY <1>1, <3>2, InFlightPlacesNext
  <2>3. CASE \E w \in Inserters : i \in Range(inserting[w])
    BY <1>1, <2>3, InFlightPlacesNext
  <2>4. QED
    BY <2>1, <2>2, <2>3, InFlightPlaces
<1>9. \A i : Accounted(i) => Accounted(i)'
  BY <1>1, <1>8 DEF Accounted
<1>10. QED
  BY <1>1, <1>7, <1>9, SameBook

\* An inserter takes the batch in front.
LEMMA TakeBatchInv ==
  ASSUME PersistInv, NEW w \in Inserters, TakeBatch(w)
  PROVE  PersistTypeOK' /\ ResultOfRow' /\ ResultsAccountedFor'
<1> DEFINE t == Tail(mrBatchChan)
           m == Len(mrBatchChan)
<1>1. /\ UNCHANGED <<perch, stored, failed, skipped, checked, refused, book, loop>>
      /\ inserting[w] = <<>> /\ inserting' = [inserting EXCEPT ![w] = Head(mrBatchChan)]
      /\ mrBatchChan # <<>> /\ mrBatchChan' = t
  BY DEF TakeBatch, outcome, vars
<1>2. /\ mrBatchChan \in Seq(Seq(Rows)) /\ inserting \in [Inserters -> Seq(Rows)]
      /\ \A k \in DOMAIN mrBatchChan : Len(mrBatchChan[k]) \in 1 .. BatchSize
  BY DEF PersistInv, PersistTypeOK
<1>3. /\ m \in Nat \ {0} /\ DOMAIN mrBatchChan = 1 .. m
      /\ Head(mrBatchChan) = mrBatchChan[1] /\ mrBatchChan[1] \in Seq(Rows)
      /\ t \in Seq(Seq(Rows)) /\ DOMAIN t = 1 .. m - 1
      /\ \A k \in 1 .. m - 1 : t[k] = mrBatchChan[k + 1]
  <2>1. Head(mrBatchChan) = mrBatchChan[1]
    OBVIOUS
  <2>2. Len(t) = m - 1 /\ t \in Seq(Seq(Rows)) /\ \A k \in 1 .. Len(t) : t[k] = mrBatchChan[k + 1]
    BY <1>1, <1>2, HeadTailProperties
  <2>3. m \in Nat \ {0} /\ DOMAIN mrBatchChan = 1 .. m
    BY <1>1, <1>2, EmptySeq, LenProperties
  <2>4. mrBatchChan[1] \in Seq(Rows)
    BY <1>2, <2>3, ElementOfSeq
  <2>5. QED
    BY <2>1, <2>2, <2>3, <2>4, LenProperties
<1> HIDE DEF t, m
<1>4. PersistTypeOK'
  <2>1. \A k \in DOMAIN t : Len(t[k]) \in 1 .. BatchSize
    <3> TAKE k \in DOMAIN t
    <3>1. k + 1 \in 1 .. m /\ t[k] = mrBatchChan[k + 1]
      BY <1>3
    <3>2. QED
      BY <1>2, <1>3, <3>1
  <2>2. inserting' \in [Inserters -> Seq(Rows)]
    BY <1>1, <1>2, <1>3
  <2>3. QED
    BY <1>1, <1>3, <2>1, <2>2 DEF PersistInv, PersistTypeOK
<1>5. \A i : i \in InFlight => i \in InFlight'
  <2> TAKE i
  <2> SUFFICES ASSUME i \in InFlight
               PROVE  i \in InFlight'
    OBVIOUS
  <2>1. CASE i \in Range(perch)
    BY <1>1, <2>1, InFlightPlacesNext
  <2>2. CASE \E k \in DOMAIN mrBatchChan : i \in Range(mrBatchChan[k])
    <3>1. PICK k \in 1 .. m : i \in Range(mrBatchChan[k])
      BY <1>3, <2>2
    <3>2. CASE k = 1
      <4>1. inserting'[w] = mrBatchChan[1]
        BY <1>1, <1>2, <1>3
      <4>2. QED
        BY <3>1, <3>2, <4>1, InFlightPlacesNext
    <3>3. CASE k # 1
      <4>1. k - 1 \in 1 .. m - 1 /\ t[k - 1] = mrBatchChan[k]
        BY <1>3, <3>1, <3>3
      <4>2. QED
        BY <1>1, <1>3, <3>1, <4>1, InFlightPlacesNext
    <3>4. QED
      BY <3>2, <3>3
  <2>3. CASE \E v \in Inserters : i \in Range(inserting[v])
    <3>1. PICK v \in Inserters : i \in Range(inserting[v])
      BY <2>3
    <3>2. v # w
      BY <1>1, <3>1 DEF Range
    <3>3. inserting'[v] = inserting[v]
      BY <1>1, <1>2, <3>2
    <3>4. QED
      BY <3>1, <3>3, InFlightPlacesNext
  <2>4. QED
    BY <2>1, <2>2, <2>3, InFlightPlaces
<1>6. \A i : Accounted(i) => Accounted(i)'
  BY <1>1, <1>5 DEF Accounted
<1>7. QED
  BY <1>1, <1>4, <1>6, SameBook

\* A batch is written, or its error is: either accounts for all of it.
LEMMA InsertInv ==
  ASSUME PersistInv, NEW w \in Inserters, Insert(w) \/ InsertFails(w)
  PROVE  PersistTypeOK' /\ ResultOfRow' /\ ResultsAccountedFor'
<1>1. /\ UNCHANGED <<perch, mrBatchChan, skipped, checked, refused, book, loop>>
      /\ inserting' = [inserting EXCEPT ![w] = <<>>]
      /\ \/ stored' = stored \cup Range(inserting[w]) /\ UNCHANGED failed
         \/ failed' = failed \cup Range(inserting[w]) /\ UNCHANGED stored
  BY DEF Insert, InsertFails, vars
<1>2. inserting \in [Inserters -> Seq(Rows)]
  BY DEF PersistInv, PersistTypeOK
<1>3. PersistTypeOK'
  <2>1. inserting' \in [Inserters -> Seq(Rows)]
    BY <1>1, <1>2, EmptySeq
  <2>2. Range(inserting[w]) \subseteq Rows
    BY <1>2, LenProperties, ElementOfSeq DEF Range
  <2>3. stored' \subseteq Rows /\ failed' \subseteq Rows
    BY <1>1, <2>2 DEF PersistInv, PersistTypeOK
  <2>4. QED
    BY <1>1, <2>1, <2>3 DEF PersistInv, PersistTypeOK
<1>4. \A i : i \in InFlight => i \in InFlight' \/ i \in Range(inserting[w])
  <2>1. \A v \in Inserters : v # w => inserting'[v] = inserting[v]
    BY <1>1, <1>2
  <2>2. QED
    BY <1>1, <2>1, InFlightPlaces, InFlightPlacesNext
<1>5. \A i : Accounted(i) => Accounted(i)'
  BY <1>1, <1>4 DEF Accounted
<1>6. QED
  BY <1>1, <1>3, <1>5, SameBook

-----------------------------------------------------------------------------
(* The steps of the event loop, validation, crash and restart *)

\* Matching a row leaves one result that is on none of the ways: the one in hand.
LEMMA MatchElsewhere ==
  ASSUME PersistInv, Match, UNCHANGED <<lane, outcome, checked, refused>>
  PROVE  ResultOfRow' /\ ResultsAccountedFor'
<1>1. /\ book' = [fromId |-> Head(ch), rows |-> Append(book.rows, Head(ch))]
      /\ loop = "select" /\ loop' = "result" /\ ch # <<>>
  BY DEF Match
<1>2. ch \in Seq(Rows) /\ book.rows \in Seq(Rows)
  BY DEF PersistInv, IInv, TypeOK, Book
<1>3. Head(ch) \in Rows
  BY <1>1, <1>2, HeadTailProperties
<1>4. \A i \in Range(book'.rows) : i \in Range(book.rows) \/ i = Head(ch)
  <2> DEFINE q == Append(book.rows, Head(ch))
             n == Len(book.rows)
  <2>1. /\ n \in Nat /\ DOMAIN q = 1 .. n + 1 /\ DOMAIN book.rows = 1 .. n
        /\ \A j \in 1 .. n : q[j] = book.rows[j]
        /\ q[n + 1] = Head(ch)
    BY <1>2, <1>3, AppendProperties, LenProperties
  <2> HIDE DEF q, n
  <2>2. ASSUME NEW i \in Range(q)
        PROVE  i \in Range(book.rows) \/ i = Head(ch)
    <3>1. PICK j \in 1 .. n + 1 : i = q[j]
      BY <2>1 DEF Range
    <3>2. j \in 1 .. n \/ j = n + 1
      BY <2>1
    <3>3. QED
      BY <2>1, <3>1, <3>2 DEF Range
  <2>3. book'.rows = q
    BY <1>1 DEF q
  <2>4. QED
    BY <2>2, <2>3
<1>5. \A i : Accounted(i) => Accounted(i)'
  BY InFlightPlaces, InFlightPlacesNext DEF Accounted, lane, outcome
<1>6. \A i \in Range(book.rows) : Accounted(i)
  BY <1>1 DEF PersistInv, ResultsAccountedFor, Accounted
<1>7. book'.fromId = Head(ch)
  BY <1>1
<1>8. ResultsAccountedFor'
  BY <1>1, <1>4, <1>5, <1>6, <1>7 DEF ResultsAccountedFor, Accounted
<1>9. QED
  BY <1>1, <1>3, <1>7, <1>8 DEF ResultOfRow

\* Steps of the matcher and the snapshots leave the results accounted for.
LEMMA ElsewhereInv ==
  ASSUME PersistInv, Elsewhere
  PROVE  PersistTypeOK' /\ ResultOfRow' /\ ResultsAccountedFor'
<1>1. UNCHANGED <<lane, outcome, checked, refused>>
  BY DEF Elsewhere
<1>2. PersistTypeOK'
  BY <1>1 DEF PersistInv, PersistTypeOK, lane, outcome
<1>3. CASE Match
  BY <1>1, <1>2, <1>3, MatchElsewhere
<1>4. CASE ~Match
  <2>1. UNCHANGED book /\ (UNCHANGED loop \/ (loop # "result" /\ loop' # "result"))
    BY <1>4 DEF Elsewhere, Upstream, PullSome, Pull, SendOrder, SnapshotTick, SendClone,
       SendMarker, Dump, DumpCreate, DumpClose, DumpRename, DumpPrune
  <2>2. \A i : Accounted(i) => Accounted(i)'
    BY <1>1, InFlightPlaces, InFlightPlacesNext DEF Accounted, lane, outcome
  <2>3. QED
    BY <1>2, <2>1, <2>2 DEF PersistInv, ResultOfRow, ResultsAccountedFor, Accounted
<1>5. QED
  BY <1>3, <1>4

\* A process that ends has an empty book and empty channels.
LEMMA EndInv ==
  ASSUME PersistInv, Started(EmptyBook, 1), EmptyLane, UNCHANGED outcome,
         checked' \in BOOLEAN, refused' \in {"no", "early", "lost"}
  PROVE  PersistTypeOK' /\ ResultOfRow' /\ ResultsAccountedFor'
<1>1. PersistTypeOK'
  BY EmptySeq DEF PersistInv, PersistTypeOK, EmptyLane, outcome
<1>2. book' = EmptyBook /\ loop' = "select"
  BY DEF Started
<1>3. QED
  BY <1>1, <1>2 DEF EmptyBook, ResultOfRow, ResultsAccountedFor, Range

\* What the loaded snapshot covers was stored, or is skipped from now on.
LEMMA RestartPersistInv ==
  ASSUME PersistInv, RestartPersist
  PROVE  PersistTypeOK' /\ ResultOfRow' /\ ResultsAccountedFor'
<1>1. /\ UNCHANGED <<lane, stored, failed, refused>> /\ checked' = FALSE
      /\ skipped' = skipped \cup (Range(book'.rows) \ stored)
  BY DEF RestartPersist
<1>2. book' \in Book /\ loop' = "select"
  <2>1. CASE Started(EmptyBook, 1)
    BY <2>1, EmptySeq, LoopAssumption DEF Started, EmptyBook, Book
  <2>2. CASE \E f \in files : Newest(f) /\ RestartWith(f)
    BY <2>2 DEF RestartWith, Started, PersistInv, IInv, TypeOK, File, Book
  <2>3. QED
    BY <2>1, <2>2 DEF RestartPersist, Restart
<1>3. Range(book'.rows) \subseteq Rows
  BY <1>2, LenProperties, ElementOfSeq DEF Book, Range
<1>4. PersistTypeOK'
  BY <1>1, <1>3 DEF PersistInv, PersistTypeOK, lane
<1>5. QED
  BY <1>1, <1>2, <1>4 DEF ResultOfRow, ResultsAccountedFor

\* Every step keeps the invariant.
LEMMA PersistStepInv ==
  ASSUME PersistInv, [PersistNext]_pvars
  PROVE  PersistInv'
<1>1. CASE PersistNext
  <2>1. IInv'
    BY <1>1, LoopKept DEF PersistInv
  <2>2. PersistTypeOK' /\ ResultOfRow' /\ ResultsAccountedFor'
    <3>1. CASE Elsewhere
      BY <3>1, ElsewhereInv
    <3>2. CASE SendToPerch
      BY <3>2, SendToPerchInv
    <3>3. CASE Batch
      BY <3>3, BatchInvariant
    <3>4. CASE \E w \in Inserters : TakeBatch(w) \/ Insert(w) \/ InsertFails(w)
      BY <3>4, TakeBatchInv, InsertInv
    <3>5. CASE Validate
      <4>1. /\ UNCHANGED <<perch, mrBatchChan, inserting, stored, failed, skipped, refused,
                           book, loop>>
            /\ checked' = TRUE
        BY <3>5 DEF Validate, lane, outcome, vars
      <4>2. PersistTypeOK'
        BY <4>1 DEF PersistInv, PersistTypeOK
      <4>3. \A i : Accounted(i) => Accounted(i)'
        BY <4>1, InFlightPlaces, InFlightPlacesNext DEF Accounted
      <4>4. QED
        BY <4>1, <4>2, <4>3, SameBook
    <3>6. CASE ValidateFails
      <4>1. checked' \in BOOLEAN /\ refused' \in {"no", "early", "lost"}
        BY <3>6 DEF ValidateFails, PersistInv, PersistTypeOK
      <4>2. QED
        BY <3>6, <4>1, EndInv DEF ValidateFails
    <3>7. CASE CrashPersist
      BY <3>7, EndInv DEF CrashPersist, Crash, PersistInv, PersistTypeOK
    <3>8. CASE RestartPersist
      BY <3>8, RestartPersistInv
    <3>9. QED
      BY <1>1, <3>1, <3>2, <3>3, <3>4, <3>5, <3>6, <3>7, <3>8 DEF PersistNext
  <2>3. QED
    BY <2>1, <2>2 DEF PersistInv
<1>2. CASE UNCHANGED pvars
  <2>1. IInv'
    BY <1>2, StepInv DEF PersistInv, pvars
  <2>2. PersistTypeOK'
    BY <1>2 DEF PersistInv, PersistTypeOK, pvars, lane, outcome
  <2>3. \A i : Accounted(i) => Accounted(i)'
    BY <1>2, InFlightPlaces, InFlightPlacesNext DEF Accounted, pvars, lane, outcome
  <2>4. QED
    BY <1>2, <2>1, <2>2, <2>3, SameBook DEF PersistInv, pvars, vars
<1>3. QED
  BY <1>1, <1>2

-----------------------------------------------------------------------------
(* Theorems *)

\* The invariant of the composition holds over any number of crashes, failed
\* inserts and refused starts.
THEOREM PersistInvariance == PersistSpec => []PersistInv
<1>1. QED
  BY PersistInitInv, PersistStepInv, PTL DEF PersistSpec

\* Whatever has been matched is stored, on its way, or lost in one of the two
\* ways that have a name: a failed insert, or a snapshot that covers it.
THEOREM NoResultVanishes == PersistSpec => [](PersistTypeOK /\ ResultsAccountedFor)
<1>1. PersistInv => PersistTypeOK /\ ResultsAccountedFor
  BY DEF PersistInv
<1>2. QED
  BY <1>1, PersistInvariance, PTL

\* A refused start is a crash more, which changes nothing of what the event
\* loop promises: the book has each row up to its FromId once.
THEOREM RowsOnceWhenRefused == PersistSpec => []EachRowOnce
<1>1. PersistInv => EachRowOnce
  BY DEF PersistInv, IInv, Kept, EachRowOnce
<1>2. QED
  BY <1>1, PersistInvariance, PTL
=============================================================================
