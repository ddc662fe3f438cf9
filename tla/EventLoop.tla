------------------------------ MODULE EventLoop ------------------------------
(***************************************************************************)
(* One symbol from the sequence table to the snapshot files, over crashes  *)
(* and restarts: the puller (puller/puller.go), the loop of startMatcher   *)
(* (market-match.go) and the dump goroutine (snapshotter/snapshotter.go).  *)
(*                                                                         *)
(* What an order does to the book is Matcher's subject; here a book is the *)
(* sequence of rows matched into it, which determines its contents, and    *)
(* its FromId.  Every goroutine's step is an action; what is in memory is  *)
(* gone when the process ends, the table and the files stay.               *)
(*                                                                         *)
(* A definition whose comment starts with "Slip" is the one after it with  *)
(* a plausible mistake; no specification uses it.                          *)
(***************************************************************************)
EXTENDS Integers, Sequences, FiniteSets, Functions

CONSTANTS
  MaxRow,       \* bound on the ids of the sequence table
  MaxCrash,     \* bound on the number of crashes
  PullLimit,    \* rows of one select
  ChCap,        \* capacity of the puller's channel
  SnapshotCap,  \* capacity of snapshotChan
  History       \* snapshot.n-history

ASSUME LoopAssumption ==
  /\ MaxRow \in Nat /\ MaxCrash \in Nat
  /\ PullLimit \in Nat \ {0} /\ ChCap \in Nat \ {0}
  /\ SnapshotCap \in Nat \ {0} /\ History \in Nat \ {0}

VARIABLES
  table,         \* ids of the rows upstream has written
  crashes,
  alive,         \* the process runs
  cursor,        \* puller: fromId
  pulled,        \* puller: orders of a select not yet sent
  ch,            \* channel to the matcher
  book,
  loop,          \* matcher: in select, or a send of one of its cases
  snapshotChan,  \* channel of clones
  dumper,        \* dump goroutine: the next thing to do
  tmp,           \* the TMP@ file
  files          \* the snapshot files

onDisk == <<table, tmp, files, crashes>>
pulling == <<cursor, pulled>>
dumping == <<snapshotChan, dumper>>
vars == <<table, crashes, alive, cursor, pulled, ch, book, loop, snapshotChan,
          dumper, tmp, files>>

Rows == 1 .. MaxRow
Book == [fromId : 0 .. MaxRow, rows : Seq(Rows)]
EmptyBook == [fromId |-> 0, rows |-> <<>>]
File == [fromId : 0 .. MaxRow, rows : Seq(Rows), whole : BOOLEAN]
NoFile == [fromId |-> 0, rows |-> <<>>, whole |-> FALSE]

Written(b, w) == [fromId |-> b.fromId, rows |-> b.rows, whole |-> w]

Increasing(s) == \A j, k \in DOMAIN s : j < k => s[j] < s[k]

\* Volatile state of a process that starts with book b and asks for rows from c.
Started(b, c) ==
  /\ book' = b
  /\ cursor' = c
  /\ pulled' = <<>> /\ ch' = <<>>
  /\ loop' = "select"
  /\ snapshotChan' = <<>> /\ dumper' = "idle"

Init ==
  /\ table = {} /\ crashes = 0 /\ alive = TRUE
  /\ cursor = 1 /\ pulled = <<>> /\ ch = <<>>
  /\ book = EmptyBook /\ loop = "select"
  /\ snapshotChan = <<>> /\ dumper = "idle"
  /\ tmp = NoFile /\ files = {}

-----------------------------------------------------------------------------
(* Upstream and the puller *)

\* Upstream writes rows with growing ids, not necessarily without gaps.
Upstream(i) ==
  /\ \A r \in table : r < i
  /\ table' = table \cup {i}
  /\ UNCHANGED <<tmp, files, crashes, alive, pulling, ch, book, loop, dumping>>

\* A select yields the first rows from the cursor on, less when the connection
\* fails on the way (results.Err is not looked at).  Every row is scanned: a
\* Scan that fails, whose error is not looked at either, is left out.
Selected(s) ==
  /\ Len(s) <= PullLimit
  /\ Increasing(s)
  /\ Range(s) = {i \in table : cursor <= i /\ i <= s[Len(s)]}

\* Slip: the cursor goes on by a page instead of to the last id.
PullByPage(s) ==
  /\ alive /\ pulled = <<>> /\ s # <<>>
  /\ pulled' = s
  /\ cursor' = cursor + PullLimit
  /\ UNCHANGED <<onDisk, alive, ch, book, loop, dumping>>

Pull(s) ==
  /\ alive /\ pulled = <<>> /\ s # <<>>
  /\ pulled' = s
  /\ cursor' = s[Len(s)] + 1
  /\ UNCHANGED <<onDisk, alive, ch, book, loop, dumping>>

PullSome == \E n \in 1 .. PullLimit : \E s \in [1 .. n -> table] :
  Selected(s) /\ Pull(s)

SendOrder ==
  /\ alive /\ pulled # <<>> /\ Len(ch) < ChCap
  /\ ch' = Append(ch, Head(pulled))
  /\ pulled' = Tail(pulled)
  /\ UNCHANGED <<onDisk, alive, cursor, book, loop, dumping>>

-----------------------------------------------------------------------------
(* The matcher's loop *)

\* Slip: GenMatchResult counts rows instead of taking the row's id.
MatchCounting ==
  /\ alive /\ loop = "select" /\ ch # <<>>
  /\ book' = [fromId |-> book.fromId + 1, rows |-> Append(book.rows, Head(ch))]
  /\ ch' = Tail(ch)
  /\ loop' = "result"
  /\ UNCHANGED <<onDisk, alive, pulling, dumping>>

Match ==
  /\ alive /\ loop = "select" /\ ch # <<>>
  /\ book' = [fromId |-> Head(ch), rows |-> Append(book.rows, Head(ch))]
  /\ ch' = Tail(ch)
  /\ loop' = "result"
  /\ UNCHANGED <<onDisk, alive, pulling, dumping>>

\* The result goes to the consumers, whose channels are not in this module.
SendResult ==
  /\ alive /\ loop = "result"
  /\ loop' = "select"
  /\ UNCHANGED <<onDisk, alive, pulling, ch, book, dumping>>

SnapshotTick ==
  /\ alive /\ loop = "select"
  /\ loop' = "clone"
  /\ UNCHANGED <<onDisk, alive, pulling, ch, book, dumping>>

\* The clone is sent, and nothing is matched while the channel is full.
SendClone ==
  /\ alive /\ loop = "clone" /\ Len(snapshotChan) < SnapshotCap
  /\ snapshotChan' = Append(snapshotChan, book)
  /\ loop' = "marker"
  /\ UNCHANGED <<onDisk, alive, pulling, ch, book, dumper>>

\* The "snapshot!" for the quotes; its channel is not in this module.
SendMarker ==
  /\ alive /\ loop = "marker"
  /\ loop' = "select"
  /\ UNCHANGED <<onDisk, alive, pulling, ch, book, dumping>>

-----------------------------------------------------------------------------
(* The dump goroutine: a clone to a temporary file, then its name *)

\* Slip: the clone is written under its final name.
DumpCreateInPlace ==
  /\ alive /\ dumper = "idle" /\ snapshotChan # <<>>
  /\ tmp' = Written(Head(snapshotChan), FALSE)
  /\ files' = {f \in files : f.fromId # tmp'.fromId} \cup {tmp'}
  /\ dumper' = "close"
  /\ snapshotChan' = Tail(snapshotChan)
  /\ UNCHANGED <<table, crashes, alive, pulling, ch, book, loop>>

DumpCreate ==
  /\ alive /\ dumper = "idle" /\ snapshotChan # <<>>
  /\ tmp' = Written(Head(snapshotChan), FALSE)
  /\ dumper' = "close"
  /\ snapshotChan' = Tail(snapshotChan)
  /\ UNCHANGED <<table, crashes, files, alive, pulling, ch, book, loop>>

\* What Encode has written is in the file for every process of this machine.  Not
\* here: Close returns an error, which is not looked at, or the machine fails,
\* which may lose the file, since it is never synced.
DumpClose ==
  /\ alive /\ dumper = "close"
  /\ tmp' = [tmp EXCEPT !.whole = TRUE]
  /\ dumper' = "rename"
  /\ UNCHANGED <<table, crashes, files, alive, pulling, ch, book, loop, snapshotChan>>

DumpRename ==
  /\ alive /\ dumper = "rename"
  /\ files' = {f \in files : f.fromId # tmp.fromId} \cup {tmp}
  /\ tmp' = NoFile
  /\ dumper' = "prune"
  /\ UNCHANGED <<table, crashes, alive, pulling, ch, book, loop, snapshotChan>>

\* GetSnapshotIds: a file with id 0 only says that the symbol is new.
Snapshots == {f \in files : f.fromId > 0}

\* Slip: the ids are sorted the other way round.
PrunedOldest ==
  {f \in files : f.fromId > 0 =>
     Cardinality({g \in Snapshots : g.fromId < f.fromId}) < History}

\* The newest files are kept.
Pruned ==
  {f \in files : f.fromId > 0 =>
     Cardinality({g \in Snapshots : g.fromId > f.fromId}) < History}

DumpPrune ==
  /\ alive /\ dumper = "prune"
  /\ files' = Pruned
  /\ dumper' = "idle"
  /\ UNCHANGED <<table, crashes, tmp, alive, pulling, ch, book, loop, snapshotChan>>

-----------------------------------------------------------------------------
(* The end of the process and its next start *)

\* Any goroutine may end the process at any time (common.Fatal, a panic); the
\* machine goes on, and what was written to a file is in it.
Crash ==
  /\ alive /\ crashes < MaxCrash
  /\ alive' = FALSE
  /\ crashes' = crashes + 1
  /\ Started(EmptyBook, 1)
  /\ UNCHANGED <<table, tmp, files>>

Newest(f) == f \in Snapshots /\ \A g \in Snapshots : g.fromId <= f.fromId

\* Slip: the puller asks for the row of the snapshot again.
RestartFrom(f) ==
  /\ f.whole
  /\ Started([fromId |-> f.fromId, rows |-> f.rows], f.fromId)

\* startExchange with snapshot f: a file that cannot be decoded is fatal.
RestartWith(f) ==
  /\ f.whole
  /\ Started([fromId |-> f.fromId, rows |-> f.rows], f.fromId + 1)

Restart ==
  /\ ~alive
  /\ alive' = TRUE
  /\ \/ Snapshots = {} /\ Started(EmptyBook, 1)
     \/ \E f \in files : Newest(f) /\ RestartWith(f)
  /\ UNCHANGED onDisk

-----------------------------------------------------------------------------
Dump == DumpCreate \/ DumpClose \/ DumpRename \/ DumpPrune
Loop == Match \/ SendResult \/ SendClone \/ SendMarker

Next ==
  \/ \E i \in Rows : Upstream(i)
  \/ PullSome
  \/ SendOrder
  \/ Loop
  \/ SnapshotTick
  \/ Dump
  \/ Crash
  \/ Restart

Spec == Init /\ [][Next]_vars

\* Goroutines that can go on do, and a dead process is started again.
FairSpec ==
  Spec /\ WF_vars(PullSome) /\ WF_vars(SendOrder) /\ WF_vars(Dump)
       /\ WF_vars(SendResult \/ SendClone \/ SendMarker) /\ SF_vars(Match)
       /\ WF_vars(Restart)

-----------------------------------------------------------------------------
(* Properties *)

\* Every variable has its type.
TypeOK ==
  /\ table \subseteq Rows
  /\ crashes \in 0 .. MaxCrash
  /\ alive \in BOOLEAN
  /\ cursor \in 1 .. MaxRow + 1
  /\ pulled \in Seq(Rows) /\ ch \in Seq(Rows)
  /\ book \in Book
  /\ loop \in {"select", "result", "clone", "marker"}
  /\ snapshotChan \in Seq(Book)
  /\ dumper \in {"idle", "close", "rename", "prune"}
  /\ tmp \in File
  /\ files \subseteq File

\* b is what matching every row up to its id, once and in order, makes.
Exact(b) ==
  /\ Increasing(b.rows)
  /\ Range(b.rows) = {i \in table : i <= b.fromId}

\* Over any number of crashes, restarts and short selects the book holds every
\* row of the table up to FromId exactly once (puller/puller.go:6).
EachRowOnce == Exact(book)

\* The same of everything a restart may find, and a later one may fall back to.
SnapshotsExact == \A f \in files : f.whole => Exact(f)

\* A process that ends in the middle of a dump leaves a newest snapshot that
\* loads.
NewestLoads == \A f \in files : Newest(f) => f.whole

\* What a restart loads never gets older.
NeverOlder ==
  [][\A f \in files : Newest(f) => \E g \in files' : g.fromId >= f.fromId]_vars

\* Whatever is written to the table gets into the book, if crashes end.
RowsMatched == \A i \in Rows : i \in table ~> i \in Range(book.rows)
=============================================================================
