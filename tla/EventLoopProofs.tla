--------------------------- MODULE EventLoopProofs ---------------------------
(***************************************************************************)
(* What a restart continues from: proofs about EventLoop, for any number   *)
(* of rows and crashes, any page, any capacities and any history.          *)
(***************************************************************************)
EXTENDS EventLoop, SequenceTheorems, FiniteSetTheorems, TLAPS

-----------------------------------------------------------------------------
(* Increasing sequences of rows *)

\* A row above all others goes to the end.
LEMMA AppendIncreasing ==
  ASSUME NEW s \in Seq(Rows), NEW e \in Rows, Increasing(s),
         \A r \in Range(s) : r < e
  PROVE  /\ Append(s, e) \in Seq(Rows)
         /\ Increasing(Append(s, e))
         /\ Range(Append(s, e)) = Range(s) \cup {e}
<1> DEFINE t == Append(s, e)
<1>1. /\ t \in Seq(Rows) /\ Len(t) = Len(s) + 1 /\ Len(s) \in Nat
      /\ \A j \in 1 .. Len(s) : t[j] = s[j]
      /\ t[Len(s) + 1] = e
      /\ DOMAIN s = 1 .. Len(s) /\ DOMAIN t = 1 .. Len(s) + 1
  BY AppendProperties, LenProperties
<1> HIDE DEF t
<1>2. Increasing(t)
  <2> SUFFICES ASSUME NEW j \in DOMAIN t, NEW k \in DOMAIN t, j < k
               PROVE  t[j] < t[k]
    BY DEF Increasing
  <2>1. j \in DOMAIN s /\ t[j] = s[j]
    BY <1>1
  <2>2. CASE k = Len(s) + 1
    BY <1>1, <2>1, <2>2 DEF Range
  <2>3. CASE k # Len(s) + 1
    BY <1>1, <2>1, <2>3 DEF Increasing
  <2>4. QED
    BY <2>2, <2>3
<1>3. Range(t) = Range(s) \cup {e}
  <2>1. ASSUME NEW x \in Range(t)
        PROVE  x \in Range(s) \cup {e}
    <3>1. PICK j \in 1 .. Len(s) + 1 : x = t[j]
      BY <1>1 DEF Range
    <3>2. j \in 1 .. Len(s) \/ j = Len(s) + 1
      BY <1>1
    <3>3. QED
      BY <1>1, <3>1, <3>2 DEF Range
  <2>2. Range(s) \subseteq Range(t)
    BY <1>1 DEF Range
  <2>3. e \in Range(t)
    BY <1>1 DEF Range
  <2>4. QED
    BY <2>1, <2>2, <2>3
<1>4. QED
  BY <1>1, <1>2, <1>3 DEF t

\* The first row is the smallest, and the only one the tail lacks.
LEMMA TailIncreasing ==
  ASSUME NEW s \in Seq(Rows), s # <<>>, Increasing(s)
  PROVE  /\ Head(s) \in Range(s) /\ Tail(s) \in Seq(Rows)
         /\ Increasing(Tail(s))
         /\ Range(Tail(s)) = Range(s) \ {Head(s)}
         /\ \A r \in Range(Tail(s)) : Head(s) < r
<1> DEFINE t == Tail(s)
           n == Len(s)
<1>1. /\ t \in Seq(Rows) /\ n \in Nat \ {0} /\ Head(s) = s[1]
      /\ DOMAIN s = 1 .. n /\ DOMAIN t = 1 .. n - 1
      /\ \A j \in 1 .. n - 1 : t[j] = s[j + 1]
  <2>1. Head(s) = s[1]
    OBVIOUS
  <2>2. Len(t) = n - 1 /\ t \in Seq(Rows) /\ \A j \in 1 .. Len(t) : t[j] = s[j + 1]
    BY HeadTailProperties
  <2>3. QED
    BY <2>1, <2>2, LenProperties, EmptySeq
<1> HIDE DEF t
<1>2. \A j \in DOMAIN s : s[j] \in Int
  BY <1>1, ElementOfSeq, LoopAssumption DEF Rows
<1> HIDE DEF n
<1>3. Increasing(t)
  <2> SUFFICES ASSUME NEW j \in 1 .. n - 1, NEW k \in 1 .. n - 1, j < k
               PROVE  t[j] < t[k]
    BY <1>1 DEF Increasing
  <2>1. /\ j + 1 \in 1 .. n /\ k + 1 \in 1 .. n /\ j + 1 < k + 1
    BY <1>1
  <2>2. s[j + 1] < s[k + 1]
    BY <1>1, <2>1 DEF Increasing
  <2>3. t[j] = s[j + 1] /\ t[k] = s[k + 1]
    BY <1>1
  <2>4. QED
    BY <2>2, <2>3
<1>4. \A j \in 2 .. n : s[j] \in Range(t) /\ s[1] < s[j]
  <2> TAKE j \in 2 .. n
  <2>1. j - 1 \in 1 .. n - 1 /\ t[j - 1] = s[j]
    BY <1>1
  <2>2. QED
    BY <1>1, <2>1 DEF Range, Increasing
<1>5. \A x \in Range(t) : \E j \in 2 .. n : x = s[j]
  <2> TAKE x \in Range(t)
  <2>1. PICK j \in 1 .. n - 1 : x = t[j]
    BY <1>1 DEF Range
  <2>2. j + 1 \in 2 .. n /\ x = s[j + 1]
    BY <1>1, <2>1
  <2>3. QED
    BY <2>2
<1>6. \A x \in Range(s) : x = s[1] \/ \E j \in 2 .. n : x = s[j]
  <2> TAKE x \in Range(s)
  <2>1. PICK j \in 1 .. n : x = s[j]
    BY <1>1 DEF Range
  <2>2. j = 1 \/ j \in 2 .. n
    BY <1>1
  <2>3. QED
    BY <2>1, <2>2
<1>7. s[1] \in Range(s) /\ \A j \in 2 .. n : s[j] \in Range(s)
  BY <1>1 DEF Range
<1>8. \A r \in Range(t) : Head(s) < r
  BY <1>1, <1>4, <1>5
<1>9. Range(t) = Range(s) \ {Head(s)}
  <2>1. \A x \in Range(t) : x \in Range(s) /\ x # s[1]
    <3> TAKE x \in Range(t)
    <3>1. PICK j \in 2 .. n : x = s[j]
      BY <1>5
    <3>2. s[1] < s[j] /\ s[1] \in Int
      BY <1>1, <1>2, <1>4
    <3>3. QED
      BY <1>7, <3>1, <3>2
  <2>2. \A x \in Range(s) \ {s[1]} : x \in Range(t)
    BY <1>4, <1>6
  <2>3. QED
    BY <1>1, <2>1, <2>2
<1>10. QED
  BY <1>1, <1>3, <1>7, <1>8, <1>9 DEF t

\* The last row is one of them, and none is above it.
LEMMA LastIncreasing ==
  ASSUME NEW s \in Seq(Rows), s # <<>>, Increasing(s)
  PROVE  s[Len(s)] \in Range(s) /\ \A r \in Range(s) : r <= s[Len(s)]
<1>1. Len(s) \in Nat \ {0} /\ DOMAIN s = 1 .. Len(s)
  BY LenProperties, EmptySeq
<1>2. \A j \in 1 .. Len(s) : s[j] \in Int
  BY ElementOfSeq, LoopAssumption DEF Rows
<1>3. QED
  BY <1>1, <1>2 DEF Range, Increasing

-----------------------------------------------------------------------------
(* The inductive invariant *)

\* What has been read and not matched is in order, the channel first.
InOrder ==
  /\ Increasing(ch) /\ Increasing(pulled)
  /\ \A i \in Range(ch), j \in Range(pulled) : i < j

\* It is what the table has between the book and the cursor.
Coming ==
  Range(ch) \cup Range(pulled) = {i \in table : book.fromId < i /\ i < cursor}

\* The cursor is ahead of the book and not ahead of the table: a row that is
\* written later has an id the puller has still to ask for.
Frontier == book.fromId < cursor /\ (cursor = 1 \/ cursor - 1 \in table)

\* A book at a position of the table that has all rows up to it.
Kept(b) == Exact(b) /\ (b.fromId = 0 \/ b.fromId \in table)

\* So has everything on the way to a file, and every file is complete.
Copies ==
  /\ \A k \in DOMAIN snapshotChan : Kept(snapshotChan[k])
  /\ dumper \in {"close", "rename"} => Kept(tmp)
  /\ dumper = "rename" => tmp.whole
  /\ \A f \in files : f.whole /\ Kept(f)

IInv == TypeOK /\ InOrder /\ Coming /\ Frontier /\ Kept(book) /\ Copies

-----------------------------------------------------------------------------
(* Types *)

\* A process that starts from a book and a position keeps the types.
LEMMA StartedType ==
  ASSUME TypeOK, NEW b \in Book, NEW c \in 1 .. MaxRow + 1, Started(b, c),
         UNCHANGED onDisk \/ (UNCHANGED <<table, tmp, files>> /\ crashes' \in 0 .. MaxCrash),
         alive' \in BOOLEAN
  PROVE  TypeOK'
<1>1. <<>> \in Seq(Rows) /\ <<>> \in Seq(Book)
  BY EmptySeq
<1>2. QED
  BY <1>1 DEF TypeOK, Started, onDisk

\* Every step keeps the types.
LEMMA StepType ==
  ASSUME TypeOK, [Next]_vars
  PROVE  TypeOK'
<1> USE LoopAssumption
<1>0. \A s \in Seq(Rows) : s # <<>> => Head(s) \in Rows /\ Tail(s) \in Seq(Rows)
  BY HeadTailProperties
<1>1. CASE \E i \in Rows : Upstream(i)
  BY <1>1 DEF Upstream, TypeOK, pulling, dumping
<1>2. CASE PullSome
  <2>n. PICK n \in 1 .. PullLimit : \E s \in [1 .. n -> table] : Selected(s) /\ Pull(s)
    BY <1>2 DEF PullSome
  <2>1. PICK s \in [1 .. n -> table] : Selected(s) /\ Pull(s)
    BY <2>n
  <2>2. s \in Seq(Rows) /\ Len(s) = n
    BY <2>1 DEF TypeOK
  <2>3. s[Len(s)] \in Rows
    BY <2>2 DEF TypeOK
  <2>4. QED
    BY <2>1, <2>2, <2>3 DEF TypeOK, Pull, onDisk, dumping, Rows
<1>3. CASE SendOrder
  <2>1. Head(pulled) \in Rows /\ Tail(pulled) \in Seq(Rows)
    BY <1>0, <1>3 DEF SendOrder, TypeOK
  <2>2. Append(ch, Head(pulled)) \in Seq(Rows)
    BY <2>1, AppendProperties DEF TypeOK
  <2>3. QED
    BY <1>3, <2>1, <2>2 DEF SendOrder, TypeOK, onDisk, dumping
<1>4. CASE Match
  <2>1. Head(ch) \in Rows /\ Tail(ch) \in Seq(Rows)
    BY <1>0, <1>4 DEF Match, TypeOK
  <2>2. Append(book.rows, Head(ch)) \in Seq(Rows)
    BY <2>1, AppendProperties DEF TypeOK, Book
  <2>3. book' \in Book
    BY <1>4, <2>1, <2>2 DEF Match, Book, Rows
  <2>4. QED
    BY <1>4, <2>1, <2>3 DEF Match, TypeOK, onDisk, pulling, dumping
<1>5. CASE SendResult \/ SendMarker \/ SnapshotTick
  BY <1>5 DEF SendResult, SendMarker, SnapshotTick, TypeOK, onDisk, pulling, dumping
<1>6. CASE SendClone
  <2>1. Append(snapshotChan, book) \in Seq(Book)
    BY AppendProperties DEF TypeOK
  <2>2. QED
    BY <1>6, <2>1 DEF SendClone, TypeOK, onDisk, pulling
<1>7. CASE DumpCreate
  <2>1. Head(snapshotChan) \in Book /\ Tail(snapshotChan) \in Seq(Book)
    BY <1>7, HeadTailProperties DEF DumpCreate, TypeOK
  <2>2. tmp' \in File
    BY <1>7, <2>1 DEF DumpCreate, Written, Book, File
  <2>3. QED
    BY <1>7, <2>1, <2>2 DEF DumpCreate, TypeOK, pulling
<1>8. CASE DumpClose
  <2>1. tmp' \in File
    BY <1>8 DEF DumpClose, TypeOK, File
  <2>2. QED
    BY <1>8, <2>1 DEF DumpClose, TypeOK, pulling
<1>9. CASE DumpRename
  <2>1. NoFile \in File
    BY EmptySeq DEF NoFile, File
  <2>2. QED
    BY <1>9, <2>1 DEF DumpRename, TypeOK, pulling
<1>10. CASE DumpPrune
  BY <1>10 DEF DumpPrune, Pruned, TypeOK, pulling
<1>11. CASE Crash
  <2>1. EmptyBook \in Book
    BY EmptySeq DEF EmptyBook, Book
  <2>2. crashes' \in 0 .. MaxCrash /\ alive' \in BOOLEAN /\ 1 \in 1 .. MaxRow + 1
    <3>1. crashes \in 0 .. MaxCrash /\ crashes < MaxCrash /\ crashes' = crashes + 1 /\ alive' = FALSE
      BY <1>11 DEF Crash, TypeOK
    <3>2. MaxCrash \in Nat /\ MaxRow \in Nat
      BY LoopAssumption
    <3>3. crashes' \in 0 .. MaxCrash /\ 1 \in 1 .. MaxRow + 1
      BY <3>1, <3>2, SMT
    <3>4. alive' \in BOOLEAN
      BY <3>1, Zenon
    <3>5. QED
      BY <3>3, <3>4
  <2>3. QED
    BY <1>11, <2>1, <2>2, StartedType DEF Crash
<1>12. CASE Restart
  <2>1. CASE Started(EmptyBook, 1)
    <3>1. EmptyBook \in Book
      BY EmptySeq DEF EmptyBook, Book
    <3>2. QED
      BY <1>12, <2>1, <3>1, StartedType DEF Restart
  <2>2. CASE \E f \in files : Newest(f) /\ RestartWith(f)
    <3>1. PICK f \in files : Newest(f) /\ RestartWith(f)
      BY <2>2
    <3>2. f \in File
      BY DEF TypeOK
    <3>3. [fromId |-> f.fromId, rows |-> f.rows] \in Book /\ f.fromId + 1 \in 1 .. MaxRow + 1
      BY <3>2 DEF File, Book
    <3>4. QED
      BY <1>12, <3>1, <3>3, StartedType DEF Restart, RestartWith
  <2>3. QED
    BY <1>12, <2>1, <2>2 DEF Restart
<1>13. CASE UNCHANGED vars
  BY <1>13 DEF vars, TypeOK
<1>14. QED
  BY <1>1, <1>2, <1>3, <1>4, <1>5, <1>6, <1>7, <1>8, <1>9, <1>10, <1>11, <1>12, <1>13
     DEF Next, Loop, Dump

-----------------------------------------------------------------------------
(* Steps *)

\* The empty table, book and files.
LEMMA InitInv ==
  ASSUME Init
  PROVE  IInv
<1> USE LoopAssumption DEF Init
<1>1. <<>> \in Seq(Rows) /\ <<>> \in Seq(Book) /\ Increasing(<<>>) /\ Range(<<>>) = {}
  BY EmptySeq DEF Increasing, Range
<1>2. EmptyBook \in Book /\ NoFile \in File
  BY <1>1 DEF EmptyBook, NoFile, Book, File
<1>3. TypeOK
  BY <1>1, <1>2 DEF TypeOK
<1>4. InOrder /\ Coming /\ Frontier /\ Kept(book) /\ Copies
  BY <1>1 DEF InOrder, Coming, Frontier, Kept, Exact, EmptyBook, Copies
<1>5. QED
  BY <1>3, <1>4 DEF IInv

\* A new row is behind every book.
LEMMA UpstreamKept ==
  ASSUME NEW i \in Rows, TypeOK, Upstream(i), NEW b, b.fromId \in 0 .. MaxRow, Kept(b)
  PROVE  Kept(b)'
<1>1. b.fromId < i
  BY LoopAssumption DEF Kept, Upstream, Rows
<1>2. {r \in table' : r <= b.fromId} = {r \in table : r <= b.fromId}
  BY <1>1 DEF Upstream, Rows
<1>3. QED
  BY <1>2 DEF Kept, Exact, Upstream

\* A row that becomes visible keeps the invariant.
LEMMA UpstreamInv ==
  ASSUME IInv, NEW i \in Rows, Upstream(i)
  PROVE  IInv'
<1> USE DEF IInv
<1>1. TypeOK'
  BY StepType DEF Next
<1>2. cursor <= i
  BY LoopAssumption DEF Frontier, TypeOK, Upstream, Rows
<1>3. InOrder' /\ Frontier'
  BY DEF InOrder, Frontier, Upstream, pulling
<1>4. Coming'
  <2>1. {r \in table' : book.fromId < r /\ r < cursor} = {r \in table : book.fromId < r /\ r < cursor}
    BY <1>2 DEF Upstream, Rows, TypeOK
  <2>2. QED
    BY <2>1 DEF Coming, Upstream, pulling
<1>5. Kept(book)'
  <2>1. book.fromId \in 0 .. MaxRow
    BY DEF TypeOK, Book
  <2>2. QED
    BY <2>1, UpstreamKept DEF Upstream, Kept, Exact
<1>6. Copies'
  <2>1. \A k \in DOMAIN snapshotChan : snapshotChan[k].fromId \in 0 .. MaxRow
    <3>1. snapshotChan \in Seq(Book)
      BY DEF TypeOK
    <3>2. \A k \in DOMAIN snapshotChan : snapshotChan[k] \in Book
      BY <3>1, LenProperties, ElementOfSeq
    <3>3. QED
      BY <3>2 DEF Book
  <2>2. tmp.fromId \in 0 .. MaxRow /\ \A f \in files : f.fromId \in 0 .. MaxRow
    BY DEF TypeOK, File
  <2>3. \A k \in DOMAIN snapshotChan : Kept(snapshotChan[k])'
    BY <2>1, UpstreamKept DEF Copies, Upstream, dumping, Kept, Exact
  <2>4. dumper \in {"close", "rename"} => Kept(tmp)'
    BY <2>2, UpstreamKept DEF Copies, Upstream, Kept, Exact
  <2>5. \A f \in files : Kept(f)'
    BY <2>2, UpstreamKept DEF Copies, Upstream, Kept, Exact
  <2>6. QED
    BY <2>3, <2>4, <2>5 DEF Copies, Upstream, dumping
<1>7. QED
  BY <1>1, <1>3, <1>4, <1>5, <1>6

\* What a step of the puller or the matcher leaves alone.
LEMMA CopiesUnchanged ==
  ASSUME Copies, UNCHANGED <<table, snapshotChan, dumper, tmp, files>>
  PROVE  Copies'
BY DEF Copies, Kept, Exact

\* So does a batch read from the database.
LEMMA PullInv ==
  ASSUME IInv, PullSome
  PROVE  IInv'
<1> USE DEF IInv
<1>1. TypeOK'
  BY StepType DEF Next
<1>n. PICK n \in 1 .. PullLimit : \E s \in [1 .. n -> table] : Selected(s) /\ Pull(s)
  BY DEF PullSome
<1>2. PICK s \in [1 .. n -> table] : Selected(s) /\ Pull(s)
  BY <1>n
<1>3. s \in Seq(Rows) /\ s # <<>>
  BY <1>2 DEF TypeOK, Pull
<1>4. s[Len(s)] \in Range(s) /\ Increasing(s) /\ Range(s) = {i \in table : cursor <= i /\ i <= s[Len(s)]}
  BY <1>2, <1>3, LastIncreasing DEF Selected
<1> DEFINE l == s[Len(s)]
<1>5. l \in table /\ l \in Int /\ cursor \in Int /\ cursor <= l /\ book.fromId \in Int
  <2>1. table \subseteq Int /\ cursor \in Int /\ book.fromId \in Int
    BY LoopAssumption DEF TypeOK, Rows, Book
  <2>2. l \in table /\ cursor <= l
    BY <1>4
  <2>3. QED
    BY <2>1, <2>2
<1>6. cursor' = l + 1 /\ pulled' = s /\ UNCHANGED <<table, ch, book>> /\ pulled = <<>>
  BY <1>2 DEF Pull, onDisk
<1> HIDE DEF l
<1>7. table \subseteq Int
  BY LoopAssumption DEF TypeOK, Rows
<1>8. Range(pulled) = {}
  BY <1>6 DEF Range
<1>9. Range(s) = {i \in table : cursor <= i /\ i <= l}
  BY <1>4 DEF l
<1>10. InOrder'
  <2>1. \A i \in Range(ch) : i < cursor /\ i \in Int
    BY <1>7 DEF Coming
  <2>2. \A j \in Range(s) : cursor <= j /\ j \in Int
    BY <1>7, <1>9
  <2>3. \A i \in Range(ch), j \in Range(s) : i < j
    BY <1>5, <2>1, <2>2
  <2>4. QED
    BY <1>4, <1>6, <2>3 DEF InOrder
<1>11. Coming'
  <2>1. Range(ch) = {i \in table : book.fromId < i /\ i < cursor}
    BY <1>8 DEF Coming
  <2>2. book.fromId < cursor
    BY DEF Frontier
  <2>3. Range(ch) \cup Range(s) = {i \in table : book.fromId < i /\ i < l + 1}
    <3>1. \A i \in table : \/ book.fromId < i /\ i < cursor
                           \/ cursor <= i /\ i <= l
                           <=> book.fromId < i /\ i < l + 1
      BY <1>5, <1>7, <2>2
    <3>2. QED
      BY <1>9, <2>1, <3>1
  <2>4. QED
    BY <1>6, <2>3 DEF Coming
<1>12. Frontier'
  BY <1>5, <1>6 DEF Frontier
<1>13. Kept(book)' /\ Copies'
  BY <1>2, CopiesUnchanged DEF Pull, onDisk, dumping, Kept, Exact
<1>14. QED
  BY <1>1, <1>10, <1>11, <1>12, <1>13

\* So does an order handed to the event loop.
LEMMA SendOrderInv ==
  ASSUME IInv, SendOrder
  PROVE  IInv'
<1> USE DEF IInv
<1>1. TypeOK'
  BY StepType DEF Next
<1> DEFINE h == Head(pulled)
           q == Tail(pulled)
<1>2. /\ pulled \in Seq(Rows) /\ pulled # <<>> /\ ch \in Seq(Rows)
      /\ ch' = Append(ch, h) /\ pulled' = q /\ UNCHANGED <<cursor, book, table>>
  BY DEF SendOrder, TypeOK, onDisk
<1>3. /\ h \in Range(pulled) /\ Increasing(q) /\ Range(q) = Range(pulled) \ {h}
      /\ \A r \in Range(q) : h < r
  BY <1>2, TailIncreasing DEF InOrder
<1>4. h \in Rows
  BY <1>2, HeadTailProperties
<1>5. Increasing(Append(ch, h)) /\ Range(Append(ch, h)) = Range(ch) \cup {h}
  BY <1>2, <1>3, <1>4, AppendIncreasing DEF InOrder
<1> HIDE DEF h, q
<1>6. InOrder'
  BY <1>2, <1>3, <1>5 DEF InOrder
<1>7. Coming'
  BY <1>2, <1>3, <1>5 DEF Coming
<1>8. Frontier' /\ Kept(book)' /\ Copies'
  BY <1>2, CopiesUnchanged DEF SendOrder, onDisk, dumping, Frontier, Kept, Exact
<1>9. QED
  BY <1>1, <1>6, <1>7, <1>8

\* So does an order matched: the place of the book moves with the book.
LEMMA MatchInv ==
  ASSUME IInv, Match
  PROVE  IInv'
<1> USE DEF IInv
<1>1. TypeOK'
  BY StepType DEF Next, Loop
<1> DEFINE h == Head(ch)
           q == Tail(ch)
<1>2. /\ ch \in Seq(Rows) /\ ch # <<>> /\ book \in Book
      /\ ch' = q /\ UNCHANGED <<cursor, pulled, table>>
      /\ book' = [fromId |-> h, rows |-> Append(book.rows, h)]
  BY DEF Match, TypeOK, onDisk, pulling
<1>3. /\ h \in Range(ch) /\ Increasing(q) /\ Range(q) = Range(ch) \ {h}
      /\ \A r \in Range(q) : h < r
  BY <1>2, TailIncreasing DEF InOrder
<1>4. h \in Rows /\ book.rows \in Seq(Rows) /\ book.fromId \in Int
  BY <1>2, HeadTailProperties, LoopAssumption DEF Book
<1> HIDE DEF h, q
<1>5. table \subseteq Int /\ h \in Int /\ cursor \in Int
  BY <1>4, LoopAssumption DEF TypeOK, Rows
<1>6. h \in table /\ book.fromId < h /\ h < cursor
  BY <1>3 DEF Coming
<1>7. \A i \in Range(ch) \cup Range(pulled) : h <= i
  BY <1>3, <1>5 DEF InOrder, Coming
<1>8. {i \in table : i <= h} = {i \in table : i <= book.fromId} \cup {h}
  <2>1. ASSUME NEW i \in table, book.fromId < i, i <= h
        PROVE  i = h
    <3>1. i \in Range(ch) \cup Range(pulled)
      BY <1>4, <1>5, <1>6, <2>1 DEF Coming
    <3>2. QED
      BY <1>5, <1>7, <2>1, <3>1
  <2>2. \A i \in table : i <= h <=> i <= book.fromId \/ i = h
    <3> TAKE i \in table
    <3>1. i \in Int
      BY <1>5
    <3>2. QED
      BY <1>4, <1>5, <1>6, <2>1, <3>1
  <2>3. QED
    BY <1>6, <2>2
<1>9. Kept(book)'
  <2>1. Increasing(book.rows) /\ Range(book.rows) = {i \in table : i <= book.fromId}
    BY DEF Kept, Exact
  <2>2. \A r \in Range(book.rows) : r < h
    <3> TAKE r \in Range(book.rows)
    <3>1. r \in Int /\ r <= book.fromId
      BY <1>5, <2>1
    <3>2. QED
      BY <1>4, <1>5, <1>6, <3>1
  <2>3. Increasing(Append(book.rows, h)) /\ Range(Append(book.rows, h)) = Range(book.rows) \cup {h}
    BY <1>4, <2>1, <2>2, AppendIncreasing
  <2>4. QED
    BY <1>2, <1>6, <1>8, <2>1, <2>3 DEF Kept, Exact
<1>10. InOrder'
  BY <1>2, <1>3 DEF InOrder
<1>11. Coming'
  <2>1. {i \in table : h < i /\ i < cursor} = {i \in table : book.fromId < i /\ i < cursor} \ {h}
    <3>1. ASSUME NEW i \in table, book.fromId < i, i < cursor, i # h
          PROVE  h < i
      BY <1>5, <1>7, <3>1 DEF Coming
    <3>2. \A i \in table : h < i /\ i < cursor <=> book.fromId < i /\ i < cursor /\ i # h
      <4> TAKE i \in table
      <4>1. i \in Int
        BY <1>5
      <4>2. QED
        BY <1>4, <1>5, <1>6, <3>1, <4>1
    <3>3. QED
      BY <3>2
  <2>2. h \notin Range(pulled)
    BY <1>3, <1>5 DEF InOrder
  <2>3. Range(q) \cup Range(pulled) = (Range(ch) \cup Range(pulled)) \ {h}
    BY <1>3, <2>2
  <2>4. QED
    BY <1>2, <2>1, <2>3 DEF Coming
<1>12. Frontier'
  BY <1>2, <1>6 DEF Frontier
<1>13. Copies'
  BY CopiesUnchanged DEF Match, onDisk, dumping
<1>14. QED
  BY <1>1, <1>9, <1>10, <1>11, <1>12, <1>13

\* A step that leaves the matcher's side alone and copies only what is kept.
LEMMA FlowUnchanged ==
  ASSUME IInv, UNCHANGED <<table, cursor, pulled, ch, book>>
  PROVE  InOrder' /\ Coming' /\ Frontier' /\ Kept(book)'
BY DEF IInv, InOrder, Coming, Frontier, Kept, Exact

\* So does a copy of the book sent to be dumped.
LEMMA SendCloneInv ==
  ASSUME IInv, SendClone
  PROVE  IInv'
<1> USE DEF IInv
<1>1. TypeOK'
  BY StepType DEF Next, Loop
<1>2. InOrder' /\ Coming' /\ Frontier' /\ Kept(book)'
  BY FlowUnchanged DEF SendClone, onDisk, pulling
<1>3. Copies'
  <2> DEFINE t == Append(snapshotChan, book)
             n == Len(snapshotChan)
  <2>1. /\ n \in Nat /\ DOMAIN snapshotChan = 1 .. n /\ DOMAIN t = 1 .. n + 1
        /\ t[n + 1] = book /\ \A k \in 1 .. n : t[k] = snapshotChan[k]
    <3>1. snapshotChan \in Seq(Book) /\ book \in Book
      BY DEF TypeOK
    <3>2. QED
      BY <3>1, AppendProperties, LenProperties
  <2> HIDE DEF t, n
  <2>2. \A k \in DOMAIN t : Kept(t[k])
    <3> TAKE k \in DOMAIN t
    <3>1. k \in 1 .. n \/ k = n + 1
      BY <2>1
    <3>2. QED
      BY <2>1, <3>1 DEF Copies
  <2>3. snapshotChan' = t /\ UNCHANGED <<table, dumper, tmp, files>>
    BY DEF SendClone, onDisk, t
  <2>4. QED
    BY <2>2, <2>3 DEF Copies, Kept, Exact
<1>4. QED
  BY <1>1, <1>2, <1>3

\* So does a step of a dump: what is stored is a book and its place.
LEMMA DumpInv ==
  ASSUME IInv, Dump
  PROVE  IInv'
<1> USE DEF IInv
<1>1. TypeOK'
  BY StepType DEF Next
<1>2. InOrder' /\ Coming' /\ Frontier' /\ Kept(book)'
  BY FlowUnchanged DEF Dump, DumpCreate, DumpClose, DumpRename, DumpPrune, pulling
<1>3. Copies'
  <2>1. CASE DumpCreate
    <3>1. snapshotChan \in Seq(Book) /\ snapshotChan # <<>>
      BY <2>1 DEF DumpCreate, TypeOK
    <3>2. /\ Len(snapshotChan) \in Nat \ {0} /\ DOMAIN snapshotChan = 1 .. Len(snapshotChan)
          /\ Tail(snapshotChan) \in Seq(Book)
          /\ Len(Tail(snapshotChan)) = Len(snapshotChan) - 1
          /\ \A k \in 1 .. Len(Tail(snapshotChan)) : Tail(snapshotChan)[k] = snapshotChan[k + 1]
      BY <3>1, HeadTailProperties, LenProperties, EmptySeq
    <3>3. \A k \in DOMAIN Tail(snapshotChan) : Kept(Tail(snapshotChan)[k])
      BY <3>2, LenProperties DEF Copies
    <3>4. Head(snapshotChan) = snapshotChan[1] /\ Kept(snapshotChan[1])
      BY <3>2 DEF Copies
    <3>5. Kept(tmp') /\ dumper' = "close"
      BY <2>1, <3>4 DEF DumpCreate, Written, Kept, Exact
    <3>6. snapshotChan' = Tail(snapshotChan) /\ UNCHANGED <<table, files>>
      BY <2>1 DEF DumpCreate
    <3>7. QED
      BY <3>3, <3>5, <3>6 DEF Copies, Kept, Exact
  <2>2. CASE DumpClose
    <3>1. tmp'.fromId = tmp.fromId /\ tmp'.rows = tmp.rows /\ tmp'.whole
      BY <2>2 DEF DumpClose, TypeOK, File
    <3>2. QED
      BY <2>2, <3>1 DEF DumpClose, Copies, Kept, Exact
  <2>3. CASE DumpRename
    BY <2>3 DEF DumpRename, Copies, Kept, Exact
  <2>4. CASE DumpPrune
    BY <2>4 DEF DumpPrune, Pruned, Copies, Kept, Exact
  <2>5. QED
    BY <2>1, <2>2, <2>3, <2>4 DEF Dump
<1>4. QED
  BY <1>1, <1>2, <1>3

\* A process that starts from a kept book and asks for the row behind it.
LEMMA StartedInv ==
  ASSUME IInv, NEW b \in Book, Kept(b), Started(b, b.fromId + 1), TypeOK',
         UNCHANGED <<table, tmp, files>>
  PROVE  IInv'
<1> USE DEF IInv
<1>1. Range(<<>>) = {} /\ Increasing(<<>>)
  BY DEF Range, Increasing
<1>2. b.fromId \in Int /\ table \subseteq Int
  BY LoopAssumption DEF Book, TypeOK, Rows
<1>3. /\ book' = b /\ cursor' = b.fromId + 1 /\ pulled' = <<>> /\ ch' = <<>>
      /\ snapshotChan' = <<>> /\ dumper' = "idle"
  BY DEF Started
<1>4. InOrder' /\ Coming'
  <2>1. \A i \in table : ~(b.fromId < i /\ i < b.fromId + 1)
    BY <1>2
  <2>2. {i \in table : b.fromId < i /\ i < b.fromId + 1} = {}
    BY <2>1
  <2>3. Coming'
    BY <1>1, <1>3, <2>2 DEF Coming
  <2>4. InOrder'
    BY <1>1, <1>3 DEF InOrder
  <2>5. QED
    BY <2>3, <2>4
<1>5. Frontier' /\ Kept(book)'
  BY <1>2, <1>3 DEF Frontier, Kept, Exact
<1>6. Copies'
  BY <1>3 DEF Copies, Kept, Exact
<1>7. QED
  BY <1>4, <1>5, <1>6

\* Every step keeps the invariant.
LEMMA StepInv ==
  ASSUME IInv, [Next]_vars
  PROVE  IInv'
<1>1. TypeOK'
  BY StepType DEF IInv
<1>2. EmptyBook \in Book /\ Kept(EmptyBook) /\ EmptyBook.fromId + 1 = 1
  <2>1. {i \in table : i <= 0} = {}
    <3>1. \A i \in table : i \in Nat \ {0}
      BY LoopAssumption DEF IInv, TypeOK, Rows
    <3>2. QED
      BY <3>1
  <2>2. QED
    BY <2>1, EmptySeq, LoopAssumption DEF EmptyBook, Book, Kept, Exact, Increasing, Range
<1>3. CASE SendResult \/ SendMarker \/ SnapshotTick
  BY <1>1, <1>3, FlowUnchanged, CopiesUnchanged
     DEF SendResult, SendMarker, SnapshotTick, onDisk, pulling, dumping, IInv
<1>4. CASE Crash
  BY <1>1, <1>2, <1>4, StartedInv DEF Crash
<1>5. CASE Restart
  <2>1. CASE Started(EmptyBook, 1)
    BY <1>1, <1>2, <1>5, <2>1, StartedInv DEF Restart, onDisk
  <2>2. CASE \E f \in files : Newest(f) /\ RestartWith(f)
    <3>1. PICK f \in files : RestartWith(f)
      BY <2>2
    <3> DEFINE b == [fromId |-> f.fromId, rows |-> f.rows]
    <3>2. b \in Book
      BY DEF IInv, TypeOK, File, Book
    <3>3. Kept(b)
      BY DEF IInv, Copies, Kept, Exact
    <3>4. Started(b, b.fromId + 1)
      BY <3>1 DEF RestartWith
    <3> HIDE DEF b
    <3>5. QED
      BY <1>1, <1>5, <3>2, <3>3, <3>4, StartedInv DEF Restart, onDisk
  <2>3. QED
    BY <1>5, <2>1, <2>2 DEF Restart
<1>6. CASE UNCHANGED vars
  BY <1>1, <1>6, FlowUnchanged, CopiesUnchanged DEF vars, IInv
<1>7. QED
  BY <1>3, <1>4, <1>5, <1>6, UpstreamInv, PullInv, SendOrderInv, MatchInv,
     SendCloneInv, DumpInv DEF Next, Loop

-----------------------------------------------------------------------------
(* Theorems *)

\* The inductive invariant holds over any number of crashes and restarts.
THEOREM Invariance == Spec => []IInv
<1>1. QED
  BY InitInv, StepInv, PTL DEF Spec

\* The variables keep their types.
THEOREM LoopTypeCorrect == Spec => []TypeOK
<1>1. IInv => TypeOK
  BY DEF IInv
<1>2. QED
  BY <1>1, Invariance, PTL

\* The book has every row of the table up to its FromId exactly once.
THEOREM RowsOnce == Spec => []EachRowOnce
<1>1. IInv => EachRowOnce
  BY DEF IInv, Kept, EachRowOnce
<1>2. QED
  BY <1>1, Invariance, PTL

\* So has whatever a restart may load, now or after the newer files are gone.
THEOREM FilesExact == Spec => []SnapshotsExact
<1>1. IInv => SnapshotsExact
  BY DEF IInv, Copies, Kept, SnapshotsExact
<1>2. QED
  BY <1>1, Invariance, PTL

\* However a process ends, the newest snapshot it leaves to the next one can be
\* decoded.
THEOREM FilesLoad == Spec => []NewestLoads
<1>1. IInv => NewestLoads
  BY DEF IInv, Copies, NewestLoads
<1>2. QED
  BY <1>1, Invariance, PTL

\* Pruning and dumping never take the newest snapshot away without a newer one.
THEOREM RestartsForward == Spec => NeverOlder
<1>1. ASSUME TypeOK, [Next]_vars, NEW f \in files, Newest(f)
      PROVE  \E g \in files' : g.fromId >= f.fromId
  <2>1. f.fromId \in Int /\ tmp.fromId \in Int /\ \A g \in files : g.fromId \in Int
    BY <1>1, LoopAssumption DEF TypeOK, File
  <2>2. CASE UNCHANGED files
    BY <2>1, <2>2
  <2>3. CASE DumpRename
    <3>1. CASE f.fromId = tmp.fromId
      BY <2>1, <2>3, <3>1 DEF DumpRename
    <3>2. CASE f.fromId # tmp.fromId
      BY <2>1, <2>3, <3>2 DEF DumpRename
    <3>3. QED
      BY <3>1, <3>2
  <2>4. CASE DumpPrune
    <3>1. {g \in Snapshots : g.fromId > f.fromId} = {}
      BY <1>1, <2>1 DEF Newest, Snapshots
    <3>2. Cardinality({g \in Snapshots : g.fromId > f.fromId}) < History
      BY <3>1, FS_EmptySet, LoopAssumption
    <3>3. f \in files'
      BY <2>4, <3>2 DEF DumpPrune, Pruned
    <3>4. QED
      BY <2>1, <3>3
  <2>5. UNCHANGED files \/ DumpRename \/ DumpPrune
    BY <1>1 DEF Next, Loop, Dump, Upstream, PullSome, Pull, SendOrder, Match, SendResult,
       SnapshotTick, SendClone, SendMarker, DumpCreate, DumpClose, Crash, Restart, onDisk, vars
  <2>6. QED
    BY <2>2, <2>3, <2>4, <2>5
<1>2. TypeOK /\ [Next]_vars =>
        [\A f \in files : Newest(f) => \E g \in files' : g.fromId >= f.fromId]_vars
  BY <1>1
<1>3. QED
  BY <1>2, LoopTypeCorrect, PTL DEF Spec, NeverOlder
=============================================================================
