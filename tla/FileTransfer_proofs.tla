------------------------ MODULE FileTransfer_proofs ------------------------
(***************************************************************************)
(* For every bound and every choice of files, in both directions: what is  *)
(* saved or offered is what the other side read, what is shown as          *)
(* completed was sent, nothing is left over and nothing is offered after   *)
(* its abort, each but for the mishaps that the property names.            *)
(*                                                                         *)
(* Each direction has an invariant with a part for each place where a      *)
(* chunk can be.                                                           *)
(*                                                                         *)
(* Up: on the phone (RunInv, WorkerInv, SentInv), of the chunks that were  *)
(* handed out each is in the hands of one coroutine or accepted, until     *)
(* the batch is aborted. On the connection (BegunInv, LinkInv, StartInv),  *)
(* the start of a file comes before everything else about it. At the PC    *)
(* (OrderInv, CloseInv), it has the first chunks of each file in order,    *)
(* the rest of what was accepted is on its way, and so is the end of the   *)
(* file.                                                                   *)
(*                                                                         *)
(* Down: what names a file comes after its announcement (AnnouncedInv),    *)
(* the end of a file comes (KeptInv) and nothing but another abort         *)
(* follows an abort (AbortedInv). The messages come file by file           *)
(* (DownOrderInv), a chunk after the start and the chunks before it        *)
(* (ChunksInv), and what is being received is shown (ShownInv).            *)
(***************************************************************************)
EXTENDS FileTransfer, FiniteSetTheorems, SequenceTheorems, WellFoundedInduction, TLAPS

-----------------------------------------------------------------------------
(* The invariants *)

Files == Batches \X (Nat \ {0})
RunStates == {"none", "sending", "over", "failed"}
Pending == {"waiting", "woken", "encoding", "failed", "stuck"}
WorkerStates == Pending \cup {"done", "loop", "sent"}
Runs == [at : RunStates, files : Seq(Nat), k : Nat, next : Nat, completed : Nat]
Workers == [at : WorkerStates, idx : Nat, tries : Nat]
Messages == [kind : {"file_start", "file_chunk", "file_abort"}, file : Files, idx : Nat,
             last : BOOLEAN]

\* The types, in the parts that the proofs need apart
FlagTypes ==
    /\ status \in {"none", "active", "paused", "completed", "cancelled", "failed"}
    /\ abort \in BOOLEAN /\ paused \in BOOLEAN /\ hide \in BOOLEAN /\ mounted \in BOOLEAN
    /\ up \in BOOLEAN /\ wire \in BOOLEAN
    /\ faults \in Nat /\ mishaps \subseteq Mishaps

PhoneTypes ==
    /\ gen \in 0 .. MaxBatches /\ (gen = 0 => status = "none")
    /\ resume \in Coroutines \cup {Idle}
    /\ run \in [Batches -> Runs] /\ worker \in [Coroutines -> Workers]

QueueTypes == chan \in Seq(Messages) /\ held \in Seq(Messages)

PcTypes ==
    /\ DOMAIN transfers \subseteq Files
    /\ transfers \in [DOMAIN transfers -> Seq(Nat)]
    /\ saved \subseteq [file : Files, chunks : Seq(Nat)]
    /\ accepted \subseteq Files \X Nat

TypeOK == FlagTypes /\ PhoneTypes /\ QueueTypes /\ PcTypes

\* A file whose sending has begun
Begun(f) ==
    /\ f \in Files /\ f[1] <= gen
    /\ f[2] \in DOMAIN run[f[1]].files /\ f[2] <= run[f[1]].k

\* A chunk has a number of its file, and only the last one is the last.
Numbered(m) ==
    m.kind = "file_chunk" /\ Chunks(m.file) > 0 =>
        m.idx < Chunks(m.file) /\ m.last = (m.idx = Chunks(m.file) - 1)

\* Whatever names a file came after its sending began.
BegunInv ==
    /\ \A m \in Range(chan) \cup Range(held) : Begun(m.file) /\ Numbered(m)
    /\ \A f \in DOMAIN transfers : Begun(f)
    /\ \A x \in accepted : Begun(x[1])
    /\ \A s \in saved : Begun(s.file)

\* A batch that has not started is untouched.  One with a file under way is at a file
\* with chunks, of which no more were handed out than there are, and none was accepted
\* that was not handed out.
RunInv ==
    \A r \in Batches :
        /\ r > gen => run[r] = NoRun /\ \A w \in Senders : worker[<<r, w>>] = NoWorker
        /\ r <= gen => run[r].k \in 1 .. Len(run[r].files) + 1 
        /\ Working(r) => /\ run[r].k \in DOMAIN run[r].files
                         /\ Size(r, run[r].k) > 0
                         /\ run[r].next <= Size(r, run[r].k)
        /\ \A i \in Nat : <<File(r), i>> \in accepted => i < run[r].next

\* No two coroutines of a batch have the same chunk, and none has one that was accepted;
\* whom the next resume wakes does wait.
WorkerInv ==
    /\ \A c \in Coroutines :
          worker[c].at \in Pending =>
              /\ worker[c].idx < run[c[1]].next
              /\ <<File(c[1]), worker[c].idx>> \notin accepted
              /\ \A d \in Coroutines :
                    d # c /\ d[1] = c[1] /\ worker[d].at \in Pending =>
                        worker[d].idx # worker[c].idx
    /\ resume # Idle => worker[resume].at = "waiting"

AllSent(f) == \A i \in 0 .. Chunks(f) - 1 : <<f, i>> \in accepted

\* Without an overlap only the last batch has anything under way.
OneBatch == Spared({"overlap"}) => \A r \in Batches : r # gen => ~Working(r)

\* While a file is sent and nothing is aborted: the files before it were sent, each chunk
\* that was handed out was accepted or is in the hands of a coroutine, and a coroutine
\* ends only when all were handed out.  It is what makes the end of all the coroutines
\* the end of the file.
SentInv ==
    Spared({"overlap"}) =>
        \A r \in Batches :
            r = gen /\ run[r].at = "sending" =>
                /\ \A j \in 1 .. run[r].k - 1 : AllSent(<<r, j>>)
                /\ ~abort /\ worker[<<r, 1>>].at = "done" => run[r].next = Size(r, run[r].k)
                /\ ~abort =>
                     \A i \in 0 .. run[r].next - 1 :
                        \/ <<File(r), i>> \in accepted
                        \/ \E w \in Senders : worker[<<r, w>>].at \in Pending
                                              /\ worker[<<r, w>>].idx = i

\* What is on the way is on a connection, and nothing waits while there is one.
LinkInv ==
    /\ wire => up
    /\ ~wire => chan = <<>>
    /\ up => held = <<>>

\* The start of a file is sent once, before everything else about it.
Starts(q, f) == \E m \in Range(q) : m.kind = "file_start" /\ m.file = f
StartsFirst(q) ==
    \A a, b \in DOMAIN q :
        q[a].kind = "file_start" /\ q[b].file = q[a].file /\ a # b => a < b

StartInv ==
    /\ StartsFirst(chan) /\ StartsFirst(held)
    /\ \A f \in DOMAIN transfers : ~Starts(chan, f)
    /\ \A x \in accepted : ~Starts(held, x[1])

\* What the PC has of a file, or is about to have
IsChunk(m, f) == m.kind = "file_chunk" /\ m.file = f
Live(f) == f \in DOMAIN transfers \/ Starts(chan, f)
Got(f) == IF f \in DOMAIN transfers THEN Len(transfers[f]) ELSE 0

\* The mishaps that SavedIsWhole excepts have not happened.
Orderly == Spared({"disorder", "resent", "unread", "overlap"})

\* The chunks of a file were accepted from the first one on.
Gapless == \A x \in accepted : \A j \in 0 .. x[2] - 1 : <<x[1], j>> \in accepted

\* What of the file f is on its way continues what the PC has, up to what was accepted.
InOrder(f) ==
    /\ \A a \in DOMAIN chan : IsChunk(chan[a], f) =>
          /\ chan[a].idx >= Got(f)
          /\ \/ chan[a].idx = Got(f)
             \/ \E b \in 1 .. a - 1 : IsChunk(chan[b], f) /\ chan[b].idx + 1 = chan[a].idx
    /\ \A a, b \in DOMAIN chan :
          a < b /\ IsChunk(chan[a], f) /\ IsChunk(chan[b], f) => chan[a].idx < chan[b].idx
    /\ \A i \in Nat : <<f, i>> \in accepted <=>
          i < Got(f) \/ \E m \in Range(chan) : IsChunk(m, f) /\ m.idx = i

\* As long as it is orderly, the PC has the first chunks of each file in order, and the
\* rest of what was accepted is on its way to it in order.
OrderInv ==
    Orderly =>
        /\ \A f \in DOMAIN transfers :
              \A i \in DOMAIN transfers[f] : transfers[f][i] = i - 1
        /\ Gapless
        /\ wire => \A f \in Files : Live(f) /\ Chunks(f) > 0 => InOrder(f)

\* A message that ends the file is on its way.
Closed(f) ==
    \E m \in Range(chan) :
        m.file = f /\ (m.kind = "file_abort" \/ (m.kind = "file_chunk" /\ m.last))

\* The mishaps that NothingLeftOver excepts have not happened.
Calm == Spared({"empty", "break", "unread", "overlap"})

\* A file that the PC has begun is the one that is being sent, or its end is on the way.
ClosedInTime(f) ==
    /\ Closed(f) \/ (f = File(f[1]) /\ run[f[1]].at = "sending")
    /\ <<f, Chunks(f) - 1>> \in accepted => Closed(f)

\* While it is calm the connection holds, there are no empty files, and every file that
\* the PC has begun is ended in time.
CloseInv ==
    Calm =>
        /\ wire /\ up
        /\ \A r \in Batches : r <= gen => 0 \notin Range(run[r].files)
        /\ \A f \in Files : Live(f) => ClosedInTime(f)

-----------------------------------------------------------------------------
(* The operators *)

\* The constants
LEMMA Bounds ==
    /\ Concurrency \in Nat \ {0} /\ MaxBatches \in Nat /\ MaxEvents \in Nat
    /\ MaxWaiting \in Nat /\ Idle \notin Coroutines
    /\ \A r \in Batches : Selections[r] \subseteq Seq(Nat)
BY FileUploadAssumption DEF Coroutines, Batches, Senders

\* A set of numbers has a least one: it is how a loop is reasoned about here.
LEMMA Least ==
  ASSUME NEW S, S \subseteq Nat, S # {}
  PROVE  \E m \in S : \A n \in S : m <= n
<1>1. PICK x \in S : \A y \in S : ~(<<y, x>> \in OpToRel(<, Nat))
  BY NatLessThanWellFounded, WFMin
<1>2. \A y \in S : ~(y < x)
  BY <1>1 DEF OpToRel
<1> QED
  BY <1>2

\* The size of an interval, as FirstSized counts it
LEMMA IntervalSize ==
  ASSUME NEW a \in Nat, NEW b \in Nat, a <= b
  PROVE  Cardinality(a .. b - 1) = b - a
<1> DEFINE c == b - 1
<1>1. c \in Int
  OBVIOUS
<1> HIDE DEF c
<1>2. Cardinality(a .. c) = IF a > c THEN 0 ELSE c - a + 1
  BY <1>1, FS_Interval
<1> QED
  BY <1>2 DEF c

\* FirstSized skips the empty files and no other.
LEMMA FirstSizedIs ==
  ASSUME NEW files \in Seq(Nat), NEW k \in 1 .. Len(files) + 1
  PROVE  /\ FirstSized(files, k) \in k .. Len(files) + 1
         /\ \A i \in k .. FirstSized(files, k) - 1 : files[i] = 0
         /\ FirstSized(files, k) <= Len(files) => files[FirstSized(files, k)] > 0
<1> DEFINE S == {j \in k .. Len(files) + 1 : j = Len(files) + 1 \/ files[j] # 0}
           T == {j \in k .. Len(files) : \A i \in k .. j : files[i] = 0}
<1>1. S \subseteq Nat /\ Len(files) + 1 \in S
  OBVIOUS
<1>2. PICK m \in S : \A n \in S : m <= n
  BY <1>1, Least
<1>3. /\ m \in k .. Len(files) + 1 /\ \A i \in k .. m - 1 : files[i] = 0
      /\ m <= Len(files) => files[m] > 0
  <2>1. \A i \in k .. m - 1 : i \notin S
    BY <1>2
  <2> QED
    BY <1>2, <2>1
<1>4. T = k .. m - 1
  BY <1>3
<1>5. Cardinality(T) = m - k
  <2>1. k \in Nat /\ m \in Nat /\ k <= m
    BY <1>3
  <2>2. Cardinality(k .. m - 1) = m - k
    BY <2>1, IntervalSize
  <2> QED
    BY <1>4, <2>2
<1>6. FirstSized(files, k) = m
  BY <1>3, <1>5 DEF FirstSized
<1> QED
  BY <1>3, <1>6

\* What a loop over the files sends concerns the files that it passes, and the one that
\* it stops at: first the start of a file, then its only chunk if it is empty.
LEMMA OpeningIs ==
  ASSUME NEW r \in Batches, NEW files \in Seq(Nat), NEW k \in 1 .. Len(files) + 1
  PROVE  LET o == Opening(r, files, k) IN
         /\ o \in Seq(Messages)
         /\ \A i \in DOMAIN o :
              /\ o[i].kind \in {"file_start", "file_chunk"} /\ o[i].file[1] = r
              /\ o[i].file[2] \in k .. FirstSized(files, k)
              /\ o[i].file[2] \in DOMAIN files
              /\ o[i].kind = "file_chunk" => files[o[i].file[2]] = 0
         /\ StartsFirst(o)
<1> DEFINE first == FirstSized(files, k)
           n == 2 * (first - k) + (IF first <= Len(files) THEN 1 ELSE 0)
           e(i) == LET f == <<r, k + (i - 1) \div 2>>
                   IN IF i % 2 = 1 THEN Start(f) ELSE Message("file_chunk", f, 0, TRUE)
           o == Opening(r, files, k)
<1>1. /\ first \in k .. Len(files) + 1
      /\ \A i \in k .. first - 1 : files[i] = 0
  BY FirstSizedIs
<1>2. n \in Nat /\ o = [i \in 1 .. n |-> e(i)]
  BY <1>1 DEF Opening
<1> HIDE DEF o, n, first
<1>3. ASSUME NEW i \in 1 .. n
      PROVE  LET j == k + (i - 1) \div 2 IN
             /\ j \in k .. first /\ j \in 1 .. Len(files)
             /\ i % 2 # 1 => j < first
  BY <1>1, <1>3 DEF n
<1>4. \A i \in 1 .. n : e(i) \in Messages
  BY <1>3 DEF Start, Message, Messages, Files
<1>5. o \in Seq(Messages) /\ DOMAIN o = 1 .. n
  <2> HIDE DEF e
  <2> QED
    BY <1>2, <1>4
<1>6. \A i \in 1 .. n :
         /\ o[i].file = <<r, k + (i - 1) \div 2>>
         /\ o[i].kind = IF i % 2 = 1 THEN "file_start" ELSE "file_chunk"
  BY <1>2 DEF Start, Message
<1>7. ASSUME NEW i \in DOMAIN o
      PROVE  /\ o[i].kind \in {"file_start", "file_chunk"} /\ o[i].file[1] = r
             /\ o[i].file[2] \in k .. first
             /\ o[i].file[2] \in DOMAIN files
             /\ o[i].kind = "file_chunk" => files[o[i].file[2]] = 0
  <2>1. i \in 1 .. n
    BY <1>5
  <2>2. LET j == k + (i - 1) \div 2 IN
          /\ j \in k .. first /\ j \in 1 .. Len(files)
          /\ i % 2 # 1 => j < first
    BY <1>3, <2>1
  <2>3. /\ o[i].file = <<r, k + (i - 1) \div 2>>
        /\ o[i].kind = IF i % 2 = 1 THEN "file_start" ELSE "file_chunk"
    BY <1>6, <2>1
  <2> QED
    BY <1>1, <2>2, <2>3
<1>8. StartsFirst(o)
  <2>1. ASSUME NEW i \in 1 .. n, NEW j \in 1 .. n, i % 2 = 1, i # j,
               k + (i - 1) \div 2 = k + (j - 1) \div 2
        PROVE  i < j
    BY <2>1, <1>2
  <2> QED
    BY <1>5, <1>6, <2>1 DEF StartsFirst
<1> QED
  BY <1>5, <1>7, <1>8 DEF o, first
-----------------------------------------------------------------------------
(* The phone: its coroutines and what they have sent *)

\* No coroutine gets another chunk, and none begins or ends beyond what is aborted.
Eases ==
    /\ UNCHANGED <<gen, accepted>>
    /\ mishaps \subseteq mishaps'
    /\ \A r \in Batches :
          /\ run'[r].files = run[r].files /\ run'[r].k = run[r].k
          /\ run'[r].next = run[r].next
          /\ run'[r].at = run[r].at \/ (run[r].at = "sending" /\ run'[r].at # "sending")
          /\ run[r] = NoRun => run'[r] = NoRun
    /\ \A c \in Coroutines :
          /\ worker[c].at = "done" => worker'[c] = worker[c]
          /\ worker'[c].at \in Pending =>
                worker[c].at \in Pending /\ worker'[c].idx = worker[c].idx
    /\ resume' # Idle => worker'[resume'].at = "waiting"

\* While the batch is neither aborted nor given up, none loses its chunk either.
KeepsChunks ==
    /\ abort => abort'
    /\ status' = "completed" => status = "completed"
    /\ \A c \in Coroutines :
          ~abort' /\ run'[c[1]].at = "sending" =>
              /\ worker[c].at \in Pending =>
                    worker'[c].at \in Pending /\ worker'[c].idx = worker[c].idx
              /\ worker'[c].at = "done" =>
                    worker[c].at = "done" \/ run[c[1]].next = Size(c[1], run[c[1]].k)

PhonePart == PhoneTypes /\ RunInv /\ WorkerInv
SentPart == OneBatch /\ SentInv /\ CompletedMeansSent

\* Such a step keeps what the coroutines hold,
LEMMA EasyWorkers ==
  ASSUME PhonePart, PhoneTypes', Eases
  PROVE  RunInv' /\ WorkerInv'
<1> USE DEF PhonePart, PhoneTypes, Eases
<1>1. RunInv'
  <2> SUFFICES ASSUME NEW r \in Batches
               PROVE  /\ r > gen => /\ run'[r] = NoRun
                                    /\ \A w \in Senders : worker'[<<r, w>>] = NoWorker
                      /\ r <= gen => run'[r].k \in 1 .. Len(run'[r].files) + 1
                      /\ Working(r)' => /\ run'[r].k \in DOMAIN run'[r].files
                                        /\ Size(r, run[r].k)' > 0
                                        /\ run'[r].next <= Size(r, run[r].k)'
                      /\ \A i \in Nat : <<File(r)', i>> \in accepted => i < run'[r].next
    BY DEF RunInv
  <2>1. Size(r, run[r].k)' = Size(r, run[r].k) /\ File(r)' = File(r)
    BY DEF Size, File
  <2>2. ASSUME Working(r)' PROVE Working(r)
    <3>1. \A w \in Senders : <<r, w>> \in Coroutines
      BY DEF Coroutines
    <3> QED
      BY <2>2, <3>1 DEF Working
  <2>3. r > gen => run'[r] = NoRun /\ \A w \in Senders : worker'[<<r, w>>] = NoWorker
    <3>1. \A w \in Senders : <<r, w>> \in Coroutines
      BY DEF Coroutines
    <3> QED
      BY <3>1 DEF RunInv, NoWorker
  <2> QED
    BY <2>1, <2>2, <2>3 DEF RunInv
<1>2. ASSUME NEW c \in Coroutines, worker'[c].at \in Pending
      PROVE  /\ worker'[c].idx < run'[c[1]].next
             /\ <<File(c[1])', worker'[c].idx>> \notin accepted
             /\ \A d \in Coroutines :
                   d # c /\ d[1] = c[1] /\ worker'[d].at \in Pending =>
                       worker'[d].idx # worker'[c].idx
  <2>1. c[1] \in Batches /\ File(c[1])' = File(c[1])
    BY DEF Coroutines, File
  <2> QED
    BY <1>2, <2>1 DEF WorkerInv
<1> QED
  BY <1>1, <1>2 DEF WorkerInv

\* and what was sent.
LEMMA EasySent ==
  ASSUME PhonePart, SentPart, PhoneTypes', Eases, KeepsChunks
  PROVE  SentPart'
<1> USE DEF PhonePart, PhoneTypes, Eases, SentPart
<1>1. OneBatch'
  <2> SUFFICES ASSUME "overlap" \notin mishaps', NEW r \in Batches, r # gen, Working(r)'
               PROVE  FALSE
    BY DEF OneBatch, Spared
  <2>1. \A w \in Senders : <<r, w>> \in Coroutines
    BY DEF Coroutines
  <2>2. Working(r)
    BY <2>1 DEF Working
  <2> QED
    BY <2>2 DEF OneBatch, Spared
<1>2. SentInv'
  <2> SUFFICES ASSUME "overlap" \notin mishaps', NEW r \in Batches, r = gen,
                      run'[r].at = "sending"
               PROVE  /\ \A j \in 1 .. run'[r].k - 1 : AllSent(<<r, j>>)'
                      /\ ~abort' /\ worker'[<<r, 1>>].at = "done" =>
                            run'[r].next = Size(r, run[r].k)'
                      /\ ~abort' =>
                           \A i \in 0 .. run'[r].next - 1 :
                              \/ <<File(r)', i>> \in accepted
                              \/ \E w \in Senders : /\ worker'[<<r, w>>].at \in Pending
                                                    /\ worker'[<<r, w>>].idx = i
    BY DEF SentInv, Spared
  <2>1. /\ Size(r, run[r].k)' = Size(r, run[r].k) /\ File(r)' = File(r)
        /\ run[r].at = "sending" /\ Spared({"overlap"})
        /\ \A j \in Nat : AllSent(<<r, j>>)' = AllSent(<<r, j>>)
    BY DEF Size, File, AllSent, Chunks, Spared
  <2>2. \A w \in Senders : <<r, w>> \in Coroutines /\ <<r, w>>[1] = r
    BY DEF Coroutines
  <2>3. \A j \in 1 .. run'[r].k - 1 : AllSent(<<r, j>>)'
    <3>1. run[r].k \in Nat /\ run'[r].k = run[r].k
      BY DEF Runs
    <3>2. \A j \in 1 .. run[r].k - 1 : AllSent(<<r, j>>)
      BY <2>1 DEF SentInv
    <3> QED
      BY <2>1, <3>1, <3>2
  <2>4. ~abort' /\ worker'[<<r, 1>>].at = "done" => run'[r].next = Size(r, run[r].k)'
    <3>1. 1 \in Senders
      BY Bounds DEF Senders
    <3> QED
      BY <2>1, <2>2, <3>1 DEF SentInv, KeepsChunks
  <2>5. ASSUME ~abort', NEW i \in 0 .. run'[r].next - 1, <<File(r)', i>> \notin accepted
        PROVE  \E w \in Senders : worker'[<<r, w>>].at \in Pending
                                  /\ worker'[<<r, w>>].idx = i
    <3>1. ~abort /\ i \in 0 .. run[r].next - 1 /\ <<File(r), i>> \notin accepted
      BY <2>1, <2>5 DEF KeepsChunks
    <3>2. PICK w \in Senders : worker[<<r, w>>].at \in Pending /\ worker[<<r, w>>].idx = i
      BY <2>1, <3>1 DEF SentInv
    <3> QED
      BY <2>1, <2>2, <2>5, <3>2 DEF KeepsChunks
  <2> QED
    BY <2>3, <2>4, <2>5
<1>3. CompletedMeansSent'
  <2> SUFFICES ASSUME status' = "completed", "overlap" \notin mishaps',
                      NEW k \in DOMAIN run'[gen].files, NEW i \in 0 .. Chunks(<<gen, k>>)' - 1
               PROVE  <<<<gen, k>>, i>> \in accepted
    BY DEF CompletedMeansSent, Spared
  <2>1. status = "completed" /\ Spared({"overlap"})
    BY DEF KeepsChunks, Spared
  <2>2. CASE gen \in Batches
    <3>1. run'[gen].files = run[gen].files
      BY <2>2
    <3> QED
      BY <2>1, <3>1 DEF CompletedMeansSent, Chunks
  <2>3. CASE gen = 0
    BY <2>1, <2>3
  <2> QED
    BY <2>2, <2>3, Bounds DEF Batches
<1> QED
  BY <1>1, <1>2, <1>3

\* A coroutine in another place has its type,
LEMMA Moved ==
  ASSUME NEW f \in [Coroutines -> Workers], NEW c \in Coroutines, NEW s \in WorkerStates
  PROVE  [f EXCEPT ![c].at = s] \in [Coroutines -> Workers]
<1>1. [f[c] EXCEPT !.at = s] \in Workers
  <2>1. f[c] \in Workers
    OBVIOUS
  <2> QED
    BY <2>1 DEF Workers
<1> QED
  BY <1>1

\* and so has a batch with one more chunk.
LEMMA Counted ==
  ASSUME NEW f \in [Batches -> Runs], NEW r \in Batches
  PROVE  /\ [f EXCEPT ![r].completed = @ + 1] \in [Batches -> Runs]
         /\ [f EXCEPT ![r].next = @ + 1] \in [Batches -> Runs]
<1>1. /\ [f[r] EXCEPT !.completed = @ + 1] \in Runs
      /\ [f[r] EXCEPT !.next = @ + 1] \in Runs
  <2>1. f[r] \in Runs /\ f[r].completed + 1 \in Nat /\ f[r].next + 1 \in Nat
    BY DEF Runs
  <2>2. \A u \in Runs : \A n \in Nat :
           [u EXCEPT !.completed = n] \in Runs /\ [u EXCEPT !.next = n] \in Runs
    BY DEF Runs
  <2> QED
    BY <2>1, <2>2
<1> QED
  BY <1>1

\* A coroutine that has not ended works on a file with chunks.
LEMMA Coroutine ==
  ASSUME PhonePart, NEW c \in Coroutines, worker[c].at # "done"
  PROVE  /\ c[1] \in Batches /\ c[1] <= gen /\ Working(c[1]) /\ worker[c] \in Workers
         /\ run[c[1]] \in Runs /\ run[c[1]].k \in DOMAIN run[c[1]].files
         /\ Size(c[1], run[c[1]].k) \in Nat \ {0}
         /\ run[c[1]].next <= Size(c[1], run[c[1]].k)
<1>1. PICK r \in Batches, w \in Senders : c = <<r, w>>
  BY DEF Coroutines
<1>2. Working(r)
  BY <1>1 DEF Working
<1>3. r <= gen
  <2>1. worker[<<r, w>>] # NoWorker
    BY <1>1 DEF NoWorker
  <2> QED
    BY <1>1, <2>1, Bounds DEF PhonePart, PhoneTypes, RunInv, Batches
<1> QED
  BY <1>1, <1>2, <1>3 DEF PhonePart, PhoneTypes, RunInv, Runs, Size

\* The flags and the timer touch no coroutine but the one that waits.
LEMMA UserEases ==
  ASSUME PhonePart, Refuse \/ HideBatch \/ TogglePause \/ Cancel \/ Unmount
  PROVE  PhoneTypes' /\ Eases /\ KeepsChunks
<1> USE DEF PhonePart, PhoneTypes, Eases, KeepsChunks, linkVars, pcVars, phoneVars
<1>1. CASE Refuse \/ HideBatch
  BY <1>1 DEF Refuse, HideBatch, WorkerInv
<1>2. CASE TogglePause \/ Cancel
  <2>1. CASE ResumeIfNeeded
    <3>1. /\ worker' = [c \in Coroutines |->
                    IF c = resume THEN [worker[c] EXCEPT !.at = "woken"] ELSE worker[c]]
          /\ resume' = Idle /\ paused' = FALSE
      BY <2>1 DEF ResumeIfNeeded
    <3>2. worker' \in [Coroutines -> Workers]
      BY <3>1 DEF Workers, WorkerStates, Pending
    <3>3. \A c \in Coroutines :
             /\ worker[c].at = "done" => worker'[c] = worker[c]
             /\ worker'[c].at = "done" => worker[c].at = "done"
             /\ worker[c].at \in Pending <=> worker'[c].at \in Pending
             /\ worker'[c].idx = worker[c].idx
      BY <3>1, Bounds DEF WorkerInv, Workers, Pending
    <3> QED
      BY <1>2, <3>1, <3>2, <3>3 DEF TogglePause, Cancel, Busy
  <2>2. CASE ~ResumeIfNeeded
    BY <1>2, <2>2 DEF TogglePause, Cancel, Busy, WorkerInv
  <2> QED
    BY <2>1, <2>2
<1>3. CASE Unmount
  <2>1. worker' \in [Coroutines -> Workers]
    BY <1>3 DEF Unmount, Workers, WorkerStates, Pending
  <2>2. \A c \in Coroutines :
           /\ worker[c].at = "done" => worker'[c] = worker[c]
           /\ worker'[c].at = "done" => worker[c].at = "done"
           /\ worker[c].at \in Pending <=> worker'[c].at \in Pending
           /\ worker[c].at = "waiting" => worker'[c].at = "waiting"
           /\ worker'[c].idx = worker[c].idx
    BY <1>3 DEF Unmount, Workers, Pending
  <2> QED
    BY <1>3, <2>1, <2>2 DEF Unmount, Mishaps, WorkerInv
<1> QED
  BY <1>1, <1>2, <1>3

\* A coroutine that is resumed, gives up or has sent its chunk
LEMMA CoroutineEases ==
  ASSUME PhonePart, NEW c \in Coroutines,
         \/ Wake(c) \/ ChunkSent(c) \/ ReadFails(c)
         \/ Encoded(c) /\ abort
         \/ Retry(c) /\ (worker[c].tries = MaxRetries \/ abort)
         \/ Take(c) /\ ~(run[c[1]].next < Size(c[1], run[c[1]].k))
  PROVE  PhoneTypes' /\ Eases /\ KeepsChunks
<1> USE DEF PhonePart, PhoneTypes, linkVars, pcVars, phoneVars
<1>1. /\ c[1] \in Batches /\ c[1] <= gen /\ Working(c[1]) /\ worker[c] \in Workers
      /\ run[c[1]] \in Runs /\ Size(c[1], run[c[1]].k) \in Nat \ {0}
      /\ run[c[1]].next <= Size(c[1], run[c[1]].k)
  BY Coroutine DEF Wake, ChunkSent, ReadFails, Encoded, Retry, Take
<1>2. CASE Wake(c)
  <2>1. /\ worker[c].at = "woken" /\ UNCHANGED <<status, abort, gen, run, accepted>>
        /\ mishaps \subseteq mishaps'
        /\ \/ /\ worker' = [worker EXCEPT ![c] =
                              [at |-> "waiting", idx |-> worker[c].idx, tries |-> 0]]
              /\ resume' = c
           \/ /\ worker' = [worker EXCEPT ![c] =
                              [at |-> "encoding", idx |-> worker[c].idx, tries |-> 0]]
              /\ resume' = resume
    BY <1>2 DEF Wake, Proceed
  <2>2. PhoneTypes'
    <3>1. worker' \in [Coroutines -> Workers]
      BY <1>1, <2>1 DEF Workers, WorkerStates, Pending
    <3> QED
      BY <1>2, <2>1, <3>1 DEF Wake, Proceed, Mishaps
  <2>3. \A d \in Coroutines :
           /\ worker[d].at = "done" => worker'[d] = worker[d]
           /\ worker'[d].at = "done" => worker[d].at = "done"
           /\ worker[d].at \in Pending <=> worker'[d].at \in Pending
           /\ worker'[d].idx = worker[d].idx
    BY <2>1 DEF Pending
  <2>4. resume' # Idle => worker'[resume'].at = "waiting"
    BY <2>1 DEF WorkerInv
  <2> QED
    BY <2>1, <2>2, <2>3, <2>4 DEF Eases, KeepsChunks
<1>3. CASE ChunkSent(c)
  <2>1. /\ worker[c].at = "sent" /\ worker' = [worker EXCEPT ![c].at = "loop"]
        /\ run' = [run EXCEPT ![c[1]].completed = @ + 1]
        /\ UNCHANGED <<abort, resume, gen, accepted, mishaps>>
        /\ status' # "completed"
    BY <1>3 DEF ChunkSent, ShowProgress, Show
  <2>2. PhoneTypes'
    <3>1. worker' \in [Coroutines -> Workers]
      BY <2>1, Moved DEF WorkerStates
    <3>2. run' \in [Batches -> Runs]
      BY <1>1, <2>1, Counted
    <3> QED
      BY <1>3, <3>1, <3>2 DEF ChunkSent, ShowProgress, Show
  <2>3. \A d \in Coroutines :
           /\ worker[d].at = "done" => worker'[d] = worker[d]
           /\ worker'[d].at = "done" => worker[d].at = "done"
           /\ worker[d].at \in Pending <=> worker'[d].at \in Pending
           /\ worker'[d].idx = worker[d].idx
           /\ worker[d].at = "waiting" => worker'[d].at = "waiting"
    BY <2>1 DEF Pending
  <2>4. \A r \in Batches :
           /\ run'[r].files = run[r].files /\ run'[r].k = run[r].k
           /\ run'[r].next = run[r].next /\ run'[r].at = run[r].at
    BY <2>1 DEF Runs
  <2>5. ASSUME NEW r \in Batches, run[r] = NoRun PROVE run'[r] = NoRun
    <3>1. r # c[1]
      BY <1>1, <2>5 DEF NoRun, Size, Runs, RunInv
    <3> QED
      BY <2>1, <2>5, <3>1
  <2> QED
    BY <2>1, <2>2, <2>3, <2>4, <2>5 DEF Eases, KeepsChunks, WorkerInv
<1>4. CASE ReadFails(c)
  <2>1. /\ worker[c].at = "encoding" /\ worker' = [worker EXCEPT ![c] = NoWorker]
        /\ run[c[1]].at = "sending" /\ run' = [run EXCEPT ![c[1]].at = "failed"]
        /\ UNCHANGED <<abort, resume, gen, accepted>> /\ mishaps \subseteq mishaps'
        /\ status' # "completed"
    BY <1>4 DEF ReadFails, End, Show
  <2>2. PhoneTypes'
    <3>1. worker' \in [Coroutines -> Workers] /\ run' \in [Batches -> Runs]
      BY <1>1, <2>1 DEF Workers, WorkerStates, NoWorker, Runs, RunStates
    <3> QED
      BY <1>4, <3>1 DEF ReadFails, Show, Mishaps
  <2>3. \A d \in Coroutines :
           /\ worker[d].at = "done" => worker'[d] = worker[d]
           /\ worker'[d].at \in Pending =>
                worker[d].at \in Pending /\ worker'[d].idx = worker[d].idx
           /\ worker[d].at = "waiting" => worker'[d].at = "waiting"
           /\ d # c => worker'[d] = worker[d]
    BY <2>1 DEF Pending, NoWorker
  <2>4. \A r \in Batches :
           /\ run'[r].files = run[r].files /\ run'[r].k = run[r].k
           /\ run'[r].next = run[r].next /\ run[r] = NoRun => run'[r] = NoRun
           /\ IF r = c[1] THEN run[r].at = "sending" /\ run'[r].at = "failed"
              ELSE run'[r] = run[r]
    BY <2>1 DEF Runs, NoRun
  <2> QED
    BY <2>1, <2>2, <2>3, <2>4 DEF Eases, KeepsChunks, WorkerInv
<1>5. CASE \/ Encoded(c) /\ abort
           \/ Retry(c) /\ (worker[c].tries = MaxRetries \/ abort)
           \/ Take(c) /\ ~(run[c[1]].next < Size(c[1], run[c[1]].k))
  <2>1. /\ worker[c].at \in {"encoding", "failed", "loop"}
        /\ worker' = [worker EXCEPT ![c] = NoWorker]
        /\ UNCHANGED <<status, resume, gen, run, accepted, mishaps>>
        /\ abort => abort'
        /\ abort' \/ run[c[1]].next = Size(c[1], run[c[1]].k)
        /\ worker[c].at = "loop" \/ abort'
    <3>1. CASE Encoded(c) /\ abort
      BY <3>1 DEF Encoded, End
    <3>2. CASE Retry(c) /\ (worker[c].tries = MaxRetries \/ abort)
      BY <1>1, <3>2 DEF Retry, End, MaxRetries
    <3>3. CASE Take(c) /\ ~(run[c[1]].next < Size(c[1], run[c[1]].k))
      BY <1>1, <3>3 DEF Take, End, Runs
    <3> QED
      BY <1>5, <3>1, <3>2, <3>3
  <2>2. PhoneTypes'
    <3>1. worker' \in [Coroutines -> Workers]
      BY <2>1 DEF Workers, WorkerStates, NoWorker
    <3> QED
      BY <1>5, <2>1, <3>1 DEF Encoded, Retry, Take
  <2>3. \A d \in Coroutines :
           /\ worker[d].at = "done" => worker'[d] = worker[d]
           /\ worker'[d].at \in Pending =>
                worker[d].at \in Pending /\ worker'[d].idx = worker[d].idx
           /\ worker[d].at = "waiting" => worker'[d].at = "waiting"
           /\ d # c => worker'[d] = worker[d]
    BY <2>1 DEF Pending, NoWorker
  <2>4. "loop" \notin Pending
    BY DEF Pending
  <2>5. Eases
    BY <2>1, <2>3 DEF Eases, WorkerInv
  <2>6. KeepsChunks
    BY <2>1, <2>3, <2>4 DEF KeepsChunks
  <2> QED
    BY <2>2, <2>5, <2>6
<1> QED
  BY <1>2, <1>3, <1>4, <1>5

\* Neither does the end of a batch that is aborted, nor what happens off the phone.
LEMMA OthersEase ==
  ASSUME PhonePart,
         \/ \E r \in Batches : JoinAborted(r)
         \/ Break \/ PhoneNotices \/ Reconnect \/ Receive
  PROVE  PhoneTypes' /\ Eases /\ KeepsChunks
<1> USE DEF PhonePart, PhoneTypes, linkVars, pcVars, phoneVars
<1>1. ASSUME NEW r \in Batches, JoinAborted(r)
      PROVE  PhoneTypes' /\ Eases /\ KeepsChunks
  <2>1. /\ run[r].at = "sending" /\ run' = [run EXCEPT ![r].at = "over"]
        /\ UNCHANGED <<abort, resume, gen, worker, accepted, mishaps>>
        /\ status' # "completed"
    BY <1>1 DEF JoinAborted, Joined, Show
  <2>2. PhoneTypes'
    <3>1. run' \in [Batches -> Runs]
      BY <2>1 DEF Runs, RunStates
    <3> QED
      BY <1>1, <3>1 DEF JoinAborted, Show
  <2>3. \A s \in Batches :
           /\ run'[s].files = run[s].files /\ run'[s].k = run[s].k
           /\ run'[s].next = run[s].next
           /\ run'[s].at = run[s].at \/ (run[s].at = "sending" /\ run'[s].at # "sending")
           /\ run[s] = NoRun => run'[s] = NoRun
    BY SMTT(30), <2>1 DEF Runs, NoRun
  <2> QED
    BY <2>1, <2>2, <2>3 DEF Eases, KeepsChunks, WorkerInv
<1>2. CASE Break \/ PhoneNotices \/ Reconnect \/ Receive
  <2>1. /\ UNCHANGED <<status, abort, resume, gen, run, worker, accepted>>
        /\ mishaps \subseteq mishaps'
    BY <1>2 DEF Break, PhoneNotices, Reconnect, Receive
  <2>2. PhoneTypes'
    BY <1>2, <2>1 DEF Break, PhoneNotices, Reconnect, Receive, Mishaps
  <2> QED
    BY <2>1, <2>2 DEF Eases, KeepsChunks, WorkerInv
<1> QED
  BY <1>1, <1>2

\* Take, when there is another chunk
LEMMA TakeKeeps ==
  ASSUME PhonePart, SentPart, NEW c \in Coroutines, Take(c),
         run[c[1]].next < Size(c[1], run[c[1]].k)
  PROVE  PhoneTypes' /\ RunInv' /\ WorkerInv' /\ SentPart'
<1> DEFINE r == c[1]
           n == run[r].next
<1> USE DEF PhonePart, PhoneTypes
<1>1. /\ r \in Batches /\ r <= gen /\ Working(r) /\ n \in Nat /\ run[r] \in Runs
      /\ Size(r, run[r].k) \in Nat \ {0} /\ run[r].k \in DOMAIN run[r].files
  BY Coroutine DEF Take, Runs
<1>2. /\ worker[c].at = "loop" /\ run' = [run EXCEPT ![r].next = @ + 1]
      /\ UNCHANGED <<status, abort, gen, accepted>> /\ mishaps \subseteq mishaps'
      /\ \/ abort /\ worker' = [worker EXCEPT ![c] = NoWorker] /\ resume' = resume
         \/ /\ worker' = [worker EXCEPT ![c] = [at |-> "waiting", idx |-> n, tries |-> 0]]
            /\ resume' = c
         \/ /\ worker' = [worker EXCEPT ![c] = [at |-> "encoding", idx |-> n, tries |-> 0]]
            /\ resume' = resume
  BY DEF Take, Proceed, End
<1>3. PhoneTypes'
  <2>1. worker' \in [Coroutines -> Workers]
    BY <1>1, <1>2 DEF Workers, WorkerStates, Pending, NoWorker
  <2>2. run' \in [Batches -> Runs]
    BY <1>1, <1>2, Counted
  <2> QED
    BY <1>2, <2>1, <2>2
<1>4. /\ \A s \in Batches : /\ run'[s].files = run[s].files /\ run'[s].k = run[s].k
                            /\ run'[s].at = run[s].at
                            /\ run'[s].next = IF s = r THEN n + 1 ELSE run[s].next
                            /\ s # r => run'[s] = run[s]
      /\ \A s \in Batches : File(s)' = File(s)
      /\ \A d \in Coroutines : d # c => worker'[d] = worker[d]
  BY <1>1, <1>2 DEF Runs, File
<1>5. /\ worker'[c].at \in Pending => worker'[c].idx = n
      /\ worker'[c].at \in Pending \/ (abort /\ worker'[c].at = "done")
      /\ worker[c].at \notin Pending /\ worker[c].at # "done"
  BY <1>2 DEF Pending, NoWorker
<1>6. \A s \in Batches : Working(s)' => Working(s)
  <2>1. \A s \in Batches, w \in Senders : <<s, w>> \in Coroutines
    BY DEF Coroutines
  <2> QED
    BY <1>4, <1>5, <2>1 DEF Working
<1>7. RunInv'
  <2> SUFFICES ASSUME NEW s \in Batches
               PROVE  /\ s > gen => /\ run'[s] = NoRun
                                    /\ \A w \in Senders : worker'[<<s, w>>] = NoWorker
                      /\ s <= gen => run'[s].k \in 1 .. Len(run'[s].files) + 1
                      /\ Working(s)' => /\ run'[s].k \in DOMAIN run'[s].files
                                        /\ Size(s, run[s].k)' > 0
                                        /\ run'[s].next <= Size(s, run[s].k)'
                      /\ \A i \in Nat : <<File(s)', i>> \in accepted => i < run'[s].next
    BY <1>2 DEF RunInv
  <2>1. Size(s, run[s].k)' = Size(s, run[s].k)
    BY <1>4 DEF Size
  <2>2. \A w \in Senders : <<s, w>> \in Coroutines /\ (s # r => <<s, w>> # c)
    BY DEF Coroutines
  <2>3. s > gen => run'[s] = NoRun /\ \A w \in Senders : worker'[<<s, w>>] = NoWorker
    <3>1. s > gen => s # r
      BY <1>1, Bounds DEF Batches
    <3> QED
      BY <1>4, <2>2, <3>1 DEF RunInv
  <2>4. \A i \in Nat : <<File(s)', i>> \in accepted => i < run'[s].next
    <3>1. /\ File(s)' = File(s) /\ run[s].next \in Nat /\ run'[s].next \in Nat
          /\ run[s].next <= run'[s].next
      BY SMTT(30), <1>1, <1>4 DEF Runs
    <3>2. \A i \in Nat : <<File(s), i>> \in accepted => i < run[s].next
      BY DEF RunInv
    <3> QED
      BY <3>1, <3>2
  <2>5. CASE s = r
    BY SMTT(30), <1>1, <1>4, <2>1, <2>3, <2>4, <2>5 DEF RunInv
  <2>6. CASE s # r
    BY <1>4, <1>6, <2>1, <2>3, <2>4, <2>6 DEF RunInv
  <2> QED
    BY <2>5, <2>6
<1>8. WorkerInv'
  <2>1. ASSUME NEW d \in Coroutines, worker'[d].at \in Pending
        PROVE  /\ worker'[d].idx < run'[d[1]].next
               /\ <<File(d[1])', worker'[d].idx>> \notin accepted
               /\ \A e \in Coroutines :
                     e # d /\ e[1] = d[1] /\ worker'[e].at \in Pending =>
                         worker'[e].idx # worker'[d].idx
    <3>1. d[1] \in Batches /\ File(d[1])' = File(d[1])
      BY <1>4 DEF Coroutines
    <3>2. \A e \in Coroutines : e # c /\ worker'[e].at \in Pending =>
             /\ worker'[e].idx \in Nat /\ worker'[e].idx < run[e[1]].next
             /\ run[e[1]].next \in Nat
      BY <1>4 DEF WorkerInv, Workers, Runs, Coroutines
    <3>3. CASE d = c
      BY <1>1, <1>4, <1>5, <2>1, <3>1, <3>2, <3>3 DEF RunInv
    <3>4. CASE d # c
      <4>1. worker'[d] = worker[d] /\ worker'[d].idx < run'[d[1]].next
        BY <1>1, <1>4, <2>1, <3>1, <3>2, <3>4
      <4>2. <<File(d[1])', worker'[d].idx>> \notin accepted
        BY <2>1, <3>1, <4>1 DEF WorkerInv
      <4>3. ASSUME NEW e \in Coroutines, e # d, e[1] = d[1], worker'[e].at \in Pending
            PROVE  worker'[e].idx # worker'[d].idx
        <5>1. CASE e = c
          <6>1. /\ worker'[e].idx = n /\ worker[d].at \in Pending
                /\ worker[d].idx < n /\ worker[d].idx \in Nat /\ n \in Nat
                /\ worker'[d].idx = worker[d].idx
            BY <1>1, <1>4, <1>5, <2>1, <3>4, <4>1, <4>3, <5>1 DEF WorkerInv, Workers
          <6> QED
            BY <6>1
        <5>2. CASE e # c
          <6>1. worker[d].at \in Pending /\ worker'[e] = worker[e] /\ worker'[d] = worker[d]
            BY <1>4, <2>1, <3>4, <5>2
          <6> QED
            BY <4>3, <6>1 DEF WorkerInv
        <5> QED
          BY <5>1, <5>2
      <4> QED
        BY <4>1, <4>2, <4>3
    <3> QED
      BY <3>3, <3>4
  <2>2. resume' # Idle => worker'[resume'].at = "waiting"
    BY <1>2, <1>4, <1>5 DEF WorkerInv
  <2> QED
    BY <1>2, <2>1, <2>2 DEF WorkerInv
<1>9. SentPart'
  <2>1. OneBatch'
    BY <1>2, <1>6 DEF SentPart, OneBatch, Spared
  <2>2. ASSUME "overlap" \notin mishaps', NEW s \in Batches, s = gen, run'[s].at = "sending"
        PROVE  /\ \A j \in 1 .. run'[s].k - 1 : AllSent(<<s, j>>)'
               /\ ~abort' /\ worker'[<<s, 1>>].at = "done" =>
                     run'[s].next = Size(s, run[s].k)'
               /\ ~abort' =>
                    \A i \in 0 .. run'[s].next - 1 :
                       \/ <<File(s)', i>> \in accepted
                       \/ \E w \in Senders : /\ worker'[<<s, w>>].at \in Pending
                                             /\ worker'[<<s, w>>].idx = i
    <3>1. s = r /\ Spared({"overlap"}) /\ run[r].at = "sending"
      BY <1>1, <1>2, <1>4, <2>2 DEF SentPart, OneBatch, Spared
    <3>2. \A j \in 1 .. run[r].k - 1 : AllSent(<<r, j>>)
      BY <1>1, <2>2, <3>1 DEF SentPart, SentInv
    <3>3. \A j \in Nat : AllSent(<<r, j>>)' = AllSent(<<r, j>>)
      BY <1>1, <1>2, <1>4 DEF AllSent, Chunks
    <3>4. \A j \in 1 .. run'[s].k - 1 : AllSent(<<s, j>>)'
      <4>1. run'[s].k = run[r].k /\ run[r].k \in Nat
        BY <1>1, <1>4, <3>1 DEF Runs
      <4> QED
        BY <3>1, <3>2, <3>3, <4>1
    <3>5. ASSUME ~abort', worker'[<<s, 1>>].at = "done" PROVE FALSE
      <4>1. <<r, 1>> \in Coroutines
        BY <1>1, Bounds DEF Coroutines, Senders
      <4>2. <<r, 1>> # c /\ worker[<<r, 1>>].at = "done"
        BY <1>2, <1>4, <1>5, <3>1, <3>5, <4>1
      <4>3. n = Size(r, run[r].k)
        BY <1>2, <2>2, <3>1, <3>5, <4>2, <1>1 DEF SentPart, SentInv
      <4> QED
        BY <1>1, <4>3
    <3>6. ASSUME ~abort', NEW i \in 0 .. run'[s].next - 1, <<File(s)', i>> \notin accepted
          PROVE  \E w \in Senders : /\ worker'[<<s, w>>].at \in Pending
                                    /\ worker'[<<s, w>>].idx = i
      <4>1. i \in 0 .. n
        BY <1>1, <1>4, <3>1
      <4>2. CASE i = n
        <5>1. PICK w \in Senders : c = <<r, w>>
          BY DEF Coroutines
        <5> QED
          BY <1>2, <1>5, <3>1, <3>6, <4>2, <5>1
      <4>3. CASE i \in 0 .. n - 1
        <5>1. <<File(r), i>> \notin accepted
          BY <1>1, <1>4, <3>1, <3>6
        <5>2. PICK w \in Senders :
                 worker[<<r, w>>].at \in Pending /\ worker[<<r, w>>].idx = i
          BY <1>1, <1>2, <2>2, <3>1, <3>6, <4>3, <5>1 DEF SentPart, SentInv
        <5>3. <<r, w>> \in Coroutines /\ <<r, w>> # c
          BY <1>1, <1>5, <5>2 DEF Coroutines
        <5> QED
          BY <1>4, <3>1, <5>2, <5>3
      <4> QED
        BY <1>1, <4>1, <4>2, <4>3
    <3> QED
      BY <3>4, <3>5, <3>6
  <2>3. SentInv'
    BY <1>2, <2>2 DEF SentInv, Spared
  <2>4. CompletedMeansSent'
    <3>1. gen \in Batches
      BY <1>1, Bounds DEF Batches
    <3>2. run'[gen].files = run[gen].files
      BY <1>4, <3>1
    <3> QED
      BY <1>2, <3>1, <3>2 DEF SentPart, CompletedMeansSent, Spared, Chunks
  <2> QED
    BY <2>1, <2>3, <2>4 DEF SentPart
<1> QED
  BY <1>3, <1>7, <1>8, <1>9

\* A chunk is tried: Encoded and Retry, unless the batch is aborted.
Tries(c) ==
    /\ worker[c].at \in {"encoding", "failed"} /\ Attempt(c)
    /\ UNCHANGED <<gen, run, status, abort, resume, up, wire, transfers, saved>>

\* Encoded and Retry try, unless they give up.
LEMMA TriesIs ==
  ASSUME NEW c \in Coroutines,
         \/ Encoded(c) /\ ~abort
         \/ Retry(c) /\ worker[c].tries # MaxRetries /\ ~abort
  PROVE  Tries(c)
BY DEF Tries, Encoded, Retry, phoneVars, pcVars

\* A chunk is accepted once, by the coroutine that has it.
LEMMA TriesKeeps ==
  ASSUME PhonePart, SentPart, NEW c \in Coroutines, Tries(c)
  PROVE  PhoneTypes' /\ RunInv' /\ WorkerInv' /\ SentPart'
<1> DEFINE r == c[1]
           x == <<File(r), worker[c].idx>>
<1> USE DEF PhonePart, PhoneTypes
<1>1. /\ r \in Batches /\ r <= gen /\ Working(r) /\ run[r] \in Runs
      /\ worker[c] \in Workers /\ worker[c].at \in Pending /\ worker[c].at # "waiting"
  BY Coroutine DEF Tries, Pending
<1>2. /\ UNCHANGED <<gen, run, status, abort, resume>> /\ mishaps \subseteq mishaps'
      /\ \/ up /\ accepted' = accepted \cup {x}
         \/ ~up /\ accepted' = accepted
      /\ \A d \in Coroutines : d # c => worker'[d] = worker[d]
      /\ worker'[c].idx = worker[c].idx
      /\ worker'[c].at = IF up THEN "sent" ELSE "failed"
  BY DEF Tries, Attempt
<1>3. PhoneTypes'
  <2>1. worker' \in [Coroutines -> Workers]
    <3>1. worker[c].tries + 1 \in Nat
      BY <1>1 DEF Workers
    <3>2. worker' = [worker EXCEPT ![c] = [at |-> IF up THEN "sent" ELSE "failed",
                                           idx |-> worker[c].idx,
                                           tries |-> worker[c].tries + 1]]
      BY <1>1 DEF Tries, Attempt, Workers
    <3> QED
      BY <1>1, <3>1, <3>2 DEF Workers, WorkerStates, Pending
  <2> QED
    BY <1>2, <2>1
<1>4. /\ \A d \in Coroutines : /\ worker'[d].idx = worker[d].idx
                               /\ worker'[d].at \in Pending => worker[d].at \in Pending
                               /\ worker'[d].at = "done" <=> worker[d].at = "done"
      /\ worker'[c].at \in Pending => accepted' = accepted
      /\ \A s \in Batches : File(s)' = File(s) /\ Size(s, run[s].k)' = Size(s, run[s].k)
      /\ accepted \subseteq accepted'
  BY <1>1, <1>2 DEF Pending, File, Size
<1>5. \A s \in Batches : Working(s)' = Working(s)
  <2>1. \A s \in Batches, w \in Senders : <<s, w>> \in Coroutines
    BY DEF Coroutines
  <2> QED
    BY <1>2, <1>4, <2>1 DEF Working
<1>6. RunInv'
  <2> SUFFICES ASSUME NEW s \in Batches
               PROVE  /\ s > gen => /\ run[s] = NoRun
                                    /\ \A w \in Senders : worker'[<<s, w>>] = NoWorker
                      /\ s <= gen => run[s].k \in 1 .. Len(run[s].files) + 1
                      /\ Working(s)' => /\ run[s].k \in DOMAIN run[s].files
                                        /\ Size(s, run[s].k) > 0
                                        /\ run[s].next <= Size(s, run[s].k)
                      /\ \A i \in Nat : <<File(s), i>> \in accepted' => i < run[s].next
    BY <1>2, <1>4 DEF RunInv
  <2>1. \A w \in Senders : <<s, w>> \in Coroutines /\ (s # r => <<s, w>> # c)
    BY DEF Coroutines
  <2>2. s > gen => run[s] = NoRun /\ \A w \in Senders : worker'[<<s, w>>] = NoWorker
    <3>1. s > gen => s # r
      BY <1>1, Bounds DEF Batches
    <3> QED
      BY <1>2, <2>1, <3>1 DEF RunInv
  <2>3. ASSUME NEW i \in Nat, <<File(s), i>> \in accepted' PROVE i < run[s].next
    <3>1. CASE <<File(s), i>> \in accepted
      BY <3>1 DEF RunInv
    <3>2. CASE <<File(s), i>> = x
      <4>1. s = r /\ i = worker[c].idx
        BY <3>2 DEF File
      <4> QED
        BY <1>1, <4>1 DEF WorkerInv
    <3> QED
      BY <1>2, <2>3, <3>1, <3>2
  <2> QED
    BY <1>5, <2>2, <2>3 DEF RunInv
<1>7. WorkerInv'
  <2>1. ASSUME NEW d \in Coroutines, worker'[d].at \in Pending
        PROVE  /\ worker'[d].idx < run[d[1]].next
               /\ <<File(d[1]), worker'[d].idx>> \notin accepted'
               /\ \A e \in Coroutines :
                     e # d /\ e[1] = d[1] /\ worker'[e].at \in Pending =>
                         worker'[e].idx # worker'[d].idx
    <3>1. worker[d].at \in Pending /\ worker'[d].idx = worker[d].idx
      BY <1>4, <2>1
    <3>2. /\ worker[d].idx < run[d[1]].next
          /\ <<File(d[1]), worker[d].idx>> \notin accepted
          /\ \A e \in Coroutines :
                e # d /\ e[1] = d[1] /\ worker[e].at \in Pending =>
                    worker[e].idx # worker[d].idx
      BY <3>1 DEF WorkerInv
    <3>3. d # c => <<File(d[1]), worker[d].idx>> # x
      BY <1>1, <3>2 DEF File
    <3>4. <<File(d[1]), worker[d].idx>> \notin accepted'
      BY <1>2, <1>4, <2>1, <3>2, <3>3
    <3> QED
      BY <1>4, <3>1, <3>2, <3>4
  <2>2. resume # Idle => worker'[resume].at = "waiting"
    BY <1>1, <1>2 DEF WorkerInv
  <2>3. \A d \in Coroutines : d[1] \in Batches
    BY DEF Coroutines
  <2> QED
    BY <1>2, <1>4, <2>1, <2>2, <2>3 DEF WorkerInv
<1>8. SentPart'
  <2>1. OneBatch'
    BY <1>2, <1>5 DEF SentPart, OneBatch, Spared
  <2>2. ASSUME "overlap" \notin mishaps', NEW s \in Batches, s = gen, run[s].at = "sending"
        PROVE  /\ \A j \in 1 .. run[s].k - 1 : AllSent(<<s, j>>)'
               /\ ~abort /\ worker'[<<s, 1>>].at = "done" =>
                     run[s].next = Size(s, run[s].k)
               /\ ~abort =>
                    \A i \in 0 .. run[s].next - 1 :
                       \/ <<File(s), i>> \in accepted'
                       \/ \E w \in Senders : /\ worker'[<<s, w>>].at \in Pending
                                             /\ worker'[<<s, w>>].idx = i
    <3>1. Spared({"overlap"})
      BY <1>2, <2>2 DEF Spared
    <3>2. \A j : AllSent(<<s, j>>) => AllSent(<<s, j>>)'
      BY <1>2, <1>4 DEF AllSent, Chunks
    <3>3. \A w \in Senders : <<s, w>> \in Coroutines
      BY DEF Coroutines
    <3>4. 1 \in Senders
      BY Bounds DEF Senders
    <3>5. ~abort /\ worker'[<<s, 1>>].at = "done" => run[s].next = Size(s, run[s].k)
      BY <1>4, <2>2, <3>1, <3>3, <3>4 DEF SentPart, SentInv
    <3>6. \A j \in 1 .. run[s].k - 1 : AllSent(<<s, j>>)'
      BY <2>2, <3>1, <3>2 DEF SentPart, SentInv
    <3>7. ASSUME ~abort, NEW i \in 0 .. run[s].next - 1, <<File(s), i>> \notin accepted'
          PROVE  \E w \in Senders : /\ worker'[<<s, w>>].at \in Pending
                                    /\ worker'[<<s, w>>].idx = i
      <4>1. <<File(s), i>> \notin accepted
        BY <1>4, <3>7
      <4>2. PICK w \in Senders : worker[<<s, w>>].at \in Pending /\ worker[<<s, w>>].idx = i
        BY <2>2, <3>1, <3>7, <4>1 DEF SentPart, SentInv
      <4>3. <<s, w>> = c => worker'[c].at \in Pending
        <5>1. <<s, w>> = c => x = <<File(s), i>>
          BY <4>2
        <5> QED
          BY <1>2, <3>7, <5>1 DEF Pending
      <4> QED
        BY <1>2, <1>4, <3>3, <4>2, <4>3
    <3> QED
      BY <3>5, <3>6, <3>7
  <2>3. SentInv'
    BY <1>2, <1>4, <2>2 DEF SentInv, Spared
  <2>4. CompletedMeansSent'
    BY <1>2, <1>4 DEF SentPart, CompletedMeansSent, Spared, Chunks
  <2> QED
    BY <2>1, <2>3, <2>4 DEF SentPart
<1> QED
  BY <1>3, <1>6, <1>7, <1>8

\* The loop over the files goes on: a batch is started, or its next file is due.
Opens(r, files, k) ==
    /\ files \in Seq(Nat) /\ k \in 1 .. Len(files) + 1 /\ GoOn(r, files, k)
    /\ UNCHANGED <<resume, up, wire, transfers, saved, accepted>>
    /\ \/ /\ r = gen + 1 /\ gen' = r /\ k = 1 /\ abort' = FALSE
          /\ mishaps' = mishaps \cup Overlaps \cup Empties(files)
       \/ /\ r <= gen /\ gen' = gen /\ Joined(r) /\ ~abort
          /\ files = run[r].files /\ k = run[r].k + 1
          /\ UNCHANGED <<abort, mishaps>>
    /\ status' = "completed" => FirstSized(files, k) > Len(files)

\* SendFiles and Join go on with a file.
LEMMA OpensIs ==
  ASSUME PhonePart
  PROVE  /\ \A files \in Selections[gen + 1] :
               gen < MaxBatches /\ SendFiles(files) =>
                   gen + 1 \in Batches /\ Opens(gen + 1, files, 1)
         /\ \A r \in Batches : Join(r) => Opens(r, run[r].files, run[r].k + 1)
<1> USE DEF PhonePart, PhoneTypes
<1>1. ASSUME NEW files \in Selections[gen + 1], gen < MaxBatches, SendFiles(files)
      PROVE  gen + 1 \in Batches /\ Opens(gen + 1, files, 1)
  <2>1. gen + 1 \in Batches /\ files \in Seq(Nat)
    BY <1>1, Bounds DEF Batches
  <2>2. 1 \in 1 .. Len(files) + 1
    BY <2>1
  <2>3. FirstSized(files, 1) \in Nat
    BY <2>1, <2>2, FirstSizedIs
  <2>4. status' = "completed" => FirstSized(files, 1) > Len(files)
    BY <1>1 DEF SendFiles
  <2> QED
    BY <1>1, <2>1, <2>2, <2>4 DEF SendFiles, Opens, pcVars
<1>2. ASSUME NEW r \in Batches, Join(r)
      PROVE  Opens(r, run[r].files, run[r].k + 1)
  <2>1. run[r] \in Runs /\ run[r].k \in DOMAIN run[r].files
    BY <1>2 DEF Join, Joined, Working, RunInv
  <2>2. run[r].files \in Seq(Nat) /\ run[r].k + 1 \in 1 .. Len(run[r].files) + 1
    BY <2>1 DEF Runs
  <2>3. r <= gen
    <3>1. run[r] # NoRun
      BY <1>2 DEF Join, Joined, NoRun
    <3> QED
      BY <3>1, Bounds DEF RunInv, Batches
  <2>4. status' = "completed" => FirstSized(run[r].files, run[r].k + 1) > Len(run[r].files)
    BY <1>2 DEF Join, ShowProgress, Show
  <2>5. /\ GoOn(r, run[r].files, run[r].k + 1) /\ Joined(r) /\ ~abort
        /\ UNCHANGED <<gen, abort, mishaps, resume, up, wire, transfers, saved, accepted>>
    BY <1>2 DEF Join, pcVars
  <2> QED
    BY <2>2, <2>3, <2>4, <2>5 DEF Opens
<1> QED
  BY <1>1, <1>2

\* What GoOn makes of the batches and coroutines
LEMMA GoOnIs ==
  ASSUME PhonePart, NEW r \in Batches, NEW files \in Seq(Nat),
         NEW k \in 1 .. Len(files) + 1, GoOn(r, files, k)
  PROVE  LET first == FirstSized(files, k) IN
         /\ run' \in [Batches -> Runs] /\ worker' \in [Coroutines -> Workers]
         /\ run'[r].files = files /\ run'[r].k = first /\ run'[r].next = 0
         /\ run'[r].at = IF first <= Len(files) THEN "sending" ELSE "over"
         /\ \A s \in Batches : s # r => run'[s] = run[s]
         /\ \A c \in Coroutines :
              \/ worker'[c] = worker[c]
              \/ c[1] = r /\ first <= Len(files) /\ worker'[c].at = "loop"
         /\ first <= Len(files) => worker'[<<r, 1>>].at = "loop"
<1> DEFINE first == FirstSized(files, k)
           new == [at |-> IF first <= Len(files) THEN "sending" ELSE "over",
                   files |-> files, k |-> first, next |-> 0, completed |-> 0]
<1>1. /\ first \in k .. Len(files) + 1 /\ first \in Nat
      /\ first <= Len(files) => files[first] > 0 /\ files[first] \in Nat
  BY FirstSizedIs
<1>2. run' = [run EXCEPT ![r] = new]
  BY DEF GoOn
<1>3. new \in Runs
  BY <1>1 DEF Runs, RunStates
<1>4. /\ worker' \in [Coroutines -> Workers]
      /\ \A c \in Coroutines :
              \/ worker'[c] = worker[c]
              \/ c[1] = r /\ first <= Len(files) /\ worker'[c].at = "loop"
      /\ first <= Len(files) => worker'[<<r, 1>>].at = "loop"
  <2>1. CASE first > Len(files)
    BY <1>1, <2>1 DEF GoOn, PhonePart, PhoneTypes
  <2>2. CASE first <= Len(files)
    <3>1. worker' = [c \in Coroutines |-> IF c[1] = r /\ c[2] <= files[first]
                                          THEN [NoWorker EXCEPT !.at = "loop"]
                                          ELSE worker[c]]
      BY <1>1, <2>2 DEF GoOn
    <3>2. <<r, 1>> \in Coroutines /\ 1 <= files[first]
      BY <1>1, <2>2, Bounds DEF Coroutines, Senders
    <3>3. [NoWorker EXCEPT !.at = "loop"] \in Workers
      BY DEF NoWorker, Workers, WorkerStates
    <3> QED
      BY <2>2, <3>1, <3>2, <3>3 DEF PhonePart, PhoneTypes, NoWorker
  <2> QED
    BY <1>1, <2>1, <2>2
<1> HIDE DEF first
<1>5. run' \in [Batches -> Runs]
  BY <1>2, <1>3 DEF PhonePart, PhoneTypes
<1> QED
  BY <1>2, <1>4, <1>5 DEF PhonePart, PhoneTypes, first

\* A batch whose coroutines have all ended, and that is not aborted, has sent its file.
LEMMA JoinSent ==
  ASSUME PhonePart, SentPart, NEW r \in Batches, Joined(r), ~abort, Spared({"overlap"})
  PROVE  r = gen /\ \A j \in 1 .. run[r].k : AllSent(<<r, j>>)
<1> USE DEF PhonePart, PhoneTypes
<1>1. run[r].at = "sending" /\ \A w \in Senders : worker[<<r, w>>].at = "done"
  BY DEF Joined
<1>2. r = gen
  BY <1>1 DEF SentPart, OneBatch, Working
<1>3. /\ run[r].k \in DOMAIN run[r].files /\ Size(r, run[r].k) > 0
      /\ run[r] \in Runs
  BY <1>1 DEF RunInv, Working
<1>4. run[r].next = Size(r, run[r].k)
  <2>1. 1 \in Senders
    BY Bounds DEF Senders
  <2> QED
    BY <1>1, <1>2, <2>1 DEF SentPart, SentInv
<1>5. AllSent(<<r, run[r].k>>)
  <2>1. \A w \in Senders : worker[<<r, w>>].at \notin Pending
    BY <1>1 DEF Pending
  <2>2. \A i \in 0 .. run[r].next - 1 : <<File(r), i>> \in accepted
    BY <1>1, <1>2, <2>1 DEF SentPart, SentInv
  <2> QED
    BY <1>4, <2>2 DEF AllSent, Chunks, File, Size
<1>6. \A j \in 1 .. run[r].k - 1 : AllSent(<<r, j>>)
  BY <1>1, <1>2 DEF SentPart, SentInv
<1>7. run[r].k \in Nat
  BY <1>3 DEF Runs
<1> QED
  BY <1>2, <1>5, <1>6, <1>7

\* The next file begins when all of the last one was sent.
LEMMA OpensKeeps ==
  ASSUME PhonePart, SentPart, \A x \in accepted : Begun(x[1]),
         NEW r \in Batches, NEW files, NEW k, Opens(r, files, k)
  PROVE  PhoneTypes' /\ RunInv' /\ WorkerInv' /\ SentPart'
<1> DEFINE first == FirstSized(files, k)
<1> USE DEF PhonePart, PhoneTypes
<1>1. /\ files \in Seq(Nat) /\ k \in 1 .. Len(files) + 1 /\ k \in Nat /\ Len(files) \in Nat
      /\ first \in k .. Len(files) + 1 /\ first \in Nat
      /\ \A i \in k .. first - 1 : files[i] = 0
      /\ first <= Len(files) => files[first] > 0
  BY FirstSizedIs DEF Opens
<1> HIDE DEF first
<1>2. /\ run' \in [Batches -> Runs] /\ worker' \in [Coroutines -> Workers]
      /\ run'[r].files = files /\ run'[r].k = first /\ run'[r].next = 0
      /\ run'[r].at = IF first <= Len(files) THEN "sending" ELSE "over"
      /\ \A s \in Batches : s # r => run'[s] = run[s]
      /\ \A c \in Coroutines :
              \/ worker'[c] = worker[c]
              \/ c[1] = r /\ first <= Len(files) /\ worker'[c].at = "loop"
      /\ first <= Len(files) => worker'[<<r, 1>>].at = "loop"
  BY GoOnIs DEF Opens, first
<1>3. /\ UNCHANGED <<resume, up, wire, accepted>> /\ mishaps \subseteq mishaps'
      /\ gen' \in Batches /\ r <= gen' /\ \A s \in Batches : s > gen' => s > gen
      /\ \A s \in Batches : s # r => (s <= gen' <=> s <= gen)
      /\ status' = "completed" => first > Len(files)
  BY Bounds DEF Opens, Batches, first
<1>4. \A w \in Senders : <<r, w>> \in Coroutines /\ worker[<<r, w>>].at = "done"
  <2>1. CASE Joined(r)
    BY <2>1 DEF Joined, Coroutines
  <2>2. CASE r = gen + 1
    <3>1. r > gen
      BY <2>2
    <3> QED
      BY <3>1 DEF RunInv, NoWorker, Coroutines
  <2> QED
    BY <2>1, <2>2 DEF Opens
<1>5. PhoneTypes'
  BY <1>2, <1>3, Bounds DEF Batches
<1>6. /\ \A s \in Batches : s # r => (Working(s)' <=> Working(s))
      /\ Working(r)' => first <= Len(files)
  <2>1. \A s \in Batches, w \in Senders : <<s, w>> \in Coroutines /\ <<s, w>>[1] = s
    BY DEF Coroutines
  <2>2. \A s \in Batches : s # r => (Working(s)' <=> Working(s))
    <3>1. \A s \in Batches, w \in Senders : s # r => worker'[<<s, w>>] = worker[<<s, w>>]
      BY <1>2, <2>1
    <3> QED
      BY <1>2, <3>1 DEF Working
  <2>3. ASSUME Working(r)', first > Len(files) PROVE FALSE
    <3>1. \A w \in Senders : worker'[<<r, w>>] = worker[<<r, w>>]
      BY <1>1, <1>2, <2>1, <2>3
    <3>2. run'[r].at = "over"
      BY <1>1, <1>2, <2>3
    <3> QED
      BY <1>4, <2>3, <3>1, <3>2 DEF Working
  <2> QED
    BY <1>1, <2>2, <2>3
<1>7. \A i \in Nat : <<File(r)', i>> \notin accepted
  <2>1. File(r)' = <<r, first>>
    BY <1>2 DEF File
  <2>2. ASSUME NEW i \in Nat, <<<<r, first>>, i>> \in accepted PROVE FALSE
    <3>1. Begun(<<r, first>>)
      BY <2>2
    <3>2. r <= gen /\ first <= run[r].k
      BY <3>1 DEF Begun
    <3>3. run[r].k \in Nat /\ (r = gen + 1 \/ k = run[r].k + 1)
      BY DEF Opens, Runs
    <3> QED
      BY <1>1, <3>2, <3>3
  <2> QED
    BY <2>1, <2>2
<1>8. RunInv'
  <2> SUFFICES ASSUME NEW s \in Batches
               PROVE  /\ s > gen' => /\ run'[s] = NoRun
                                     /\ \A w \in Senders : worker'[<<s, w>>] = NoWorker
                      /\ s <= gen' => run'[s].k \in 1 .. Len(run'[s].files) + 1
                      /\ Working(s)' => /\ run'[s].k \in DOMAIN run'[s].files
                                        /\ Size(s, run[s].k)' > 0
                                        /\ run'[s].next <= Size(s, run[s].k)'
                      /\ \A i \in Nat : <<File(s)', i>> \in accepted => i < run'[s].next
    BY <1>3 DEF RunInv
  <2>1. CASE s = r
    <3>1. ~(s > gen') /\ run'[s].k \in 1 .. Len(run'[s].files) + 1
      BY <1>1, <1>2, <1>3, <2>1 DEF Batches
    <3>2. ASSUME Working(s)'
          PROVE  /\ run'[s].k \in DOMAIN run'[s].files
                 /\ Size(s, run[s].k)' > 0
                 /\ run'[s].next <= Size(s, run[s].k)'
      <4>1. first <= Len(files) /\ Size(s, run[s].k)' = files[first] /\ files[first] > 0
        BY <1>1, <1>2, <1>6, <2>1, <3>2 DEF Size
      <4>2. first \in DOMAIN files /\ files[first] \in Nat
        BY <1>1, <4>1
      <4> QED
        BY <1>2, <2>1, <4>1, <4>2
    <3> QED
      BY <1>7, <2>1, <3>1, <3>2
  <2>2. CASE s # r
    <3>1. run'[s] = run[s] /\ Size(s, run[s].k)' = Size(s, run[s].k) /\ File(s)' = File(s)
      BY <1>2, <2>2 DEF Size, File
    <3>2. \A w \in Senders : worker'[<<s, w>>] = worker[<<s, w>>]
      BY <1>2, <2>2 DEF Coroutines
    <3> QED
      BY <1>3, <1>6, <2>2, <3>1, <3>2 DEF RunInv
  <2> QED
    BY <2>1, <2>2
<1>9. WorkerInv'
  <2>1. \A d \in Coroutines :
           worker'[d].at \in Pending => /\ worker'[d] = worker[d] /\ d[1] # r
                                        /\ d[1] \in Batches /\ run'[d[1]] = run[d[1]]
                                        /\ File(d[1])' = File(d[1])
    <3>1. "done" \notin Pending /\ "loop" \notin Pending
      BY DEF Pending
    <3> QED
      BY <1>2, <1>4, <3>1 DEF File, Coroutines
  <2>2. ASSUME NEW d \in Coroutines, worker'[d].at \in Pending
        PROVE  /\ worker'[d].idx < run'[d[1]].next
               /\ <<File(d[1])', worker'[d].idx>> \notin accepted
               /\ \A e \in Coroutines :
                     e # d /\ e[1] = d[1] /\ worker'[e].at \in Pending =>
                         worker'[e].idx # worker'[d].idx
    BY <2>1, <2>2 DEF WorkerInv
  <2>3. resume # Idle => worker'[resume].at = "waiting"
    <3>1. resume # Idle => resume \in Coroutines /\ worker[resume].at = "waiting"
      BY DEF WorkerInv
    <3>2. resume # Idle => resume[1] # r
      BY <1>4, <3>1 DEF Coroutines
    <3> QED
      BY <1>2, <3>1, <3>2
  <2> QED
    BY <1>3, <2>2, <2>3 DEF WorkerInv
<1>10. ASSUME "overlap" \notin mishaps'
       PROVE  /\ r = gen' /\ \A s \in Batches : s # r => ~Working(s)
              /\ \A j \in 1 .. first - 1 : AllSent(<<r, j>>)'
  <2>1. Spared({"overlap"})
    BY <1>3, <1>10 DEF Spared
  <2>2. \A j \in k .. first - 1 : AllSent(<<r, j>>)'
    BY <1>1, <1>2 DEF AllSent, Chunks
  <2>3. CASE r = gen + 1 /\ gen' = r /\ k = 1 /\ mishaps' = mishaps \cup Overlaps \cup Empties(files)
    <3>1. \A s \in Batches : ~Working(s)
      BY <1>10, <2>3 DEF Overlaps
    <3> QED
      BY <2>2, <2>3, <3>1
  <2>4. CASE Joined(r) /\ gen' = gen /\ ~abort /\ files = run[r].files /\ k = run[r].k + 1
    <3>1. r = gen /\ \A j \in 1 .. run[r].k : AllSent(<<r, j>>)
      BY <2>1, <2>4, JoinSent
    <3>2. \A j \in 1 .. run[r].k : AllSent(<<r, j>>)'
      BY <1>2, <1>3, <2>4, <3>1 DEF AllSent, Chunks
    <3>3. run[r].k \in Nat
      BY DEF Runs
    <3>4. \A j \in 1 .. first - 1 : j \in 1 .. run[r].k \/ j \in k .. first - 1
      BY <1>1, <2>4, <3>3
    <3> QED
      BY <2>1, <2>2, <2>4, <3>1, <3>2, <3>4 DEF SentPart, OneBatch
  <2> QED
    BY <2>3, <2>4 DEF Opens
<1>11. SentPart'
  <2>1. OneBatch'
    BY <1>6, <1>10 DEF OneBatch, Spared
  <2>2. ASSUME "overlap" \notin mishaps', run'[r].at = "sending"
        PROVE  /\ \A j \in 1 .. run'[r].k - 1 : AllSent(<<r, j>>)'
               /\ worker'[<<r, 1>>].at # "done"
               /\ \A i \in 0 .. run'[r].next - 1 : FALSE
    BY <1>2, <1>10, <2>2
  <2>3. SentInv'
    <3> SUFFICES ASSUME "overlap" \notin mishaps', NEW s \in Batches, s = gen',
                        run'[s].at = "sending"
                 PROVE  /\ \A j \in 1 .. run'[s].k - 1 : AllSent(<<s, j>>)'
                        /\ worker'[<<s, 1>>].at # "done"
                        /\ \A i \in 0 .. run'[s].next - 1 : FALSE
      BY DEF SentInv, Spared
    <3> QED
      BY <1>10, <2>2
  <2>4. CompletedMeansSent'
    <3> SUFFICES ASSUME status' = "completed", "overlap" \notin mishaps',
                        NEW j \in DOMAIN run'[gen'].files
                 PROVE  \A i \in 0 .. Chunks(<<gen, j>>)' - 1 : <<<<gen', j>>, i>> \in accepted'
      BY DEF CompletedMeansSent, Spared
    <3>1. first = Len(files) + 1 /\ r = gen'
      BY <1>1, <1>3, <1>10
    <3>2. j \in 1 .. first - 1
      BY <1>1, <1>2, <3>1
    <3> QED
      BY <1>10, <3>1, <3>2 DEF AllSent
  <2> QED
    BY <2>1, <2>3, <2>4 DEF SentPart
<1> QED
  BY <1>5, <1>8, <1>9, <1>11

-----------------------------------------------------------------------------
(* The connection: what is on its way *)

\* The messages of two sequences, one after the other
LEMMA RangeCat ==
  ASSUME NEW S, NEW p \in Seq(S), NEW q \in Seq(S)
  PROVE  /\ p \o q \in Seq(S) /\ Range(p \o q) = Range(p) \cup Range(q)
         /\ DOMAIN (p \o q) = 1 .. Len(p) + Len(q)
         /\ \A i \in DOMAIN p : i \in DOMAIN (p \o q) /\ (p \o q)[i] = p[i]
         /\ \A i \in DOMAIN q : /\ Len(p) + i \in DOMAIN (p \o q)
                                /\ (p \o q)[Len(p) + i] = q[i]
         /\ \A i \in DOMAIN (p \o q) :
               \/ i \in DOMAIN p /\ (p \o q)[i] = p[i]
               \/ i - Len(p) \in DOMAIN q /\ (p \o q)[i] = q[i - Len(p)]
<1> DEFINE r == p \o q
<1>1. r \in Seq(S) /\ DOMAIN r = 1 .. Len(p) + Len(q)
  OBVIOUS
<1>2. /\ \A i \in DOMAIN p : i \in DOMAIN r /\ r[i] = p[i]
      /\ \A i \in DOMAIN q : Len(p) + i \in DOMAIN r /\ r[Len(p) + i] = q[i]
  OBVIOUS
<1>3. \A i \in DOMAIN r : \/ i \in DOMAIN p /\ r[i] = p[i]
                          \/ i - Len(p) \in DOMAIN q /\ r[i] = q[i - Len(p)]
  OBVIOUS
<1> HIDE DEF r
<1>4. Range(r) = Range(p) \cup Range(q)
  BY <1>2, <1>3 DEF Range
<1> QED
  BY <1>1, <1>2, <1>3, <1>4 DEF r

\* The messages of a sequence without its first
LEMMA RangeTail ==
  ASSUME NEW S, NEW p \in Seq(S), p # << >>
  PROVE  /\ Tail(p) \in Seq(S) /\ Head(p) \in S /\ Len(p) \in Nat \ {0}
         /\ DOMAIN Tail(p) = 1 .. Len(p) - 1
         /\ \A i \in DOMAIN Tail(p) : i + 1 \in DOMAIN p /\ Tail(p)[i] = p[i + 1]
         /\ 1 \in DOMAIN p /\ Head(p) = p[1]
         /\ \A i \in DOMAIN p : i # 1 => i - 1 \in DOMAIN Tail(p)
         /\ Range(p) = {Head(p)} \cup Range(Tail(p))
<1> DEFINE t == Tail(p)
<1>1. /\ t \in Seq(S) /\ Head(p) \in S /\ Len(p) \in Nat \ {0}
      /\ DOMAIN t = 1 .. Len(p) - 1 /\ DOMAIN p = 1 .. Len(p)
      /\ \A i \in DOMAIN t : t[i] = p[i + 1]
      /\ Head(p) = p[1]
  OBVIOUS
<1> HIDE DEF t
<1>2. /\ \A i \in DOMAIN t : i + 1 \in DOMAIN p
      /\ 1 \in DOMAIN p /\ \A i \in DOMAIN p : i # 1 => i - 1 \in DOMAIN t
  BY <1>1
<1>3. \A i \in DOMAIN p : i # 1 => p[i] = t[i - 1]
  BY <1>1, <1>2
<1>4. Range(p) = {Head(p)} \cup Range(t)
  BY <1>1, <1>2, <1>3 DEF Range
<1> QED
  BY <1>1, <1>2, <1>4 DEF t

\* The one message of a sequence
LEMMA RangeOne ==
  ASSUME NEW S, NEW m \in S
  PROVE  <<m>> \in Seq(S) /\ Range(<<m>>) = {m} /\ Range(<< >>) = {}
BY DEF Range

\* A start comes first when it comes first in either and what follows starts nothing old.
LEMMA StartsFirstCat ==
  ASSUME NEW p \in Seq(Messages), NEW q \in Seq(Messages), StartsFirst(p), StartsFirst(q),
         \A m \in Range(p), n \in Range(q) : n.kind = "file_start" => m.file # n.file
  PROVE  StartsFirst(p \o q)
<1> DEFINE r == p \o q
<1> SUFFICES ASSUME NEW a \in DOMAIN r, NEW b \in DOMAIN r, r[a].kind = "file_start",
                    r[b].file = r[a].file, a # b
             PROVE  a < b
  BY DEF StartsFirst
<1>1. /\ DOMAIN r = 1 .. Len(p) + Len(q) /\ DOMAIN p = 1 .. Len(p) /\ Len(p) \in Nat
      /\ \A i \in DOMAIN r : \/ i \in DOMAIN p /\ r[i] = p[i]
                             \/ i - Len(p) \in DOMAIN q /\ r[i] = q[i - Len(p)]
  BY RangeCat
<1> HIDE DEF r
<1>2. CASE a \in DOMAIN p /\ r[a] = p[a] /\ b \in DOMAIN p /\ r[b] = p[b]
  BY <1>2 DEF StartsFirst
<1>3. CASE a \in DOMAIN p /\ b \notin DOMAIN p
  BY <1>1, <1>3
<1>4. CASE a - Len(p) \in DOMAIN q /\ r[a] = q[a - Len(p)] /\ b \in DOMAIN p /\ r[b] = p[b]
  BY <1>4 DEF Range
<1>5. CASE /\ a - Len(p) \in DOMAIN q /\ r[a] = q[a - Len(p)]
           /\ b - Len(p) \in DOMAIN q /\ r[b] = q[b - Len(p)]
  <2>1. a - Len(p) # b - Len(p) /\ a \in Nat /\ b \in Nat
    BY <1>1
  <2>2. a - Len(p) < b - Len(p)
    BY <1>5, <2>1 DEF StartsFirst
  <2> QED
    BY <1>1, <2>1, <2>2
<1> QED
  BY <1>1, <1>2, <1>3, <1>4, <1>5

\* One message is in order,
LEMMA StartsFirstOne ==
  ASSUME NEW m PROVE StartsFirst(<<m>>) /\ StartsFirst(<< >>)
BY DEF StartsFirst

\* and so is what remains, in which the first file is not started.
LEMMA StartsFirstTail ==
  ASSUME NEW p \in Seq(Messages), p # << >>, StartsFirst(p)
  PROVE  /\ StartsFirst(Tail(p))
         /\ \A m \in Range(Tail(p)) : m.kind = "file_start" => m.file # Head(p).file
<1> DEFINE t == Tail(p)
<1>1. /\ DOMAIN t = 1 .. Len(p) - 1 /\ Len(p) \in Nat
      /\ \A i \in DOMAIN t : i + 1 \in DOMAIN p /\ t[i] = p[i + 1]
      /\ 1 \in DOMAIN p /\ Head(p) = p[1]
  BY RangeTail
<1> HIDE DEF t
<1>2. StartsFirst(t)
  <2> SUFFICES ASSUME NEW a \in DOMAIN t, NEW b \in DOMAIN t, t[a].kind = "file_start",
                      t[b].file = t[a].file, a # b
               PROVE  a < b
    BY DEF StartsFirst
  <2>1. a \in Nat /\ b \in Nat /\ a + 1 # b + 1
    BY <1>1
  <2>2. a + 1 < b + 1
    BY <1>1, <2>1 DEF StartsFirst
  <2> QED
    BY <2>1, <2>2
<1>3. ASSUME NEW i \in DOMAIN t, t[i].kind = "file_start" PROVE t[i].file # Head(p).file
  <2>1. i \in Nat \ {0} /\ i + 1 # 1
    BY <1>1
  <2>2. p[1].file = p[i + 1].file => i + 1 < 1
    BY <1>1, <1>3, <2>1 DEF StartsFirst
  <2> QED
    BY <1>1, <2>1, <2>2
<1> QED
  BY <1>2, <1>3 DEF t, Range

LinkPart == QueueTypes /\ PcTypes /\ BegunInv /\ LinkInv /\ StartInv

\* The files that were chosen stay, and a batch goes through them in one direction.
Grows ==
    /\ gen \in Nat /\ gen' \in Nat /\ gen <= gen' /\ mishaps \subseteq mishaps'
    /\ \A r \in Batches :
          /\ run'[r].k \in Nat /\ run[r].k \in Nat
          /\ r <= gen => run'[r].files = run[r].files /\ run[r].k <= run'[r].k

\* A file whose sending has begun stays so, with as many chunks,
LEMMA BegunStays ==
  ASSUME Grows, NEW f, Begun(f)
  PROVE  Begun(f)' /\ Chunks(f)' = Chunks(f)
<1>1. f \in Files /\ f[1] \in Batches /\ f[1] <= gen
  BY DEF Begun, Files
<1>2. f[1] \in Nat /\ f[2] \in Nat
  BY <1>1, Bounds DEF Batches, Files
<1>3. f[1] <= gen' /\ run'[f[1]].files = run[f[1]].files /\ f[2] <= run'[f[1]].k
  BY <1>1, <1>2 DEF Begun, Grows
<1> QED
  BY <1>1, <1>3 DEF Begun, Chunks

\* and so do the numbers of its chunks.
LEMMA NumberedStays ==
  ASSUME Grows, NEW m, Begun(m.file), Numbered(m)
  PROVE  Begun(m.file)' /\ Numbered(m)'
<1>1. Begun(m.file)' /\ Chunks(m.file)' = Chunks(m.file)
  BY BegunStays
<1> QED
  BY <1>1 DEF Numbered

\* Commands that may be sent: nothing about a file comes before its start.
Commands(cmds) ==
    /\ cmds \in Seq(Messages) /\ StartsFirst(cmds)
    /\ \A m \in Range(cmds) :
          /\ Begun(m.file)' /\ Numbered(m)'
          /\ m.kind = "file_start" => ~Begun(m.file)

\* Send adds to one of the two queues, or the message is lost.
LEMMA SendIs ==
  ASSUME LinkPart, NEW cmds, Send(cmds)
  PROVE  \/ up /\ wire /\ chan' = chan \o cmds /\ held' = held /\ held = << >>
         \/ up /\ ~wire /\ chan' = chan /\ held' = held /\ held = << >> /\ chan = << >>
         \/ ~up /\ ~wire /\ held' = held \o cmds /\ chan' = chan /\ chan = << >>
BY DEF Send, LinkPart, LinkInv

\* The phone sends: it adds to the channel or to what waits for the reconnection.
SendStep(cmds) ==
    /\ Send(cmds) /\ UNCHANGED <<up, wire, transfers, saved>>
    /\ accepted \subseteq accepted' /\ (~up => accepted' = accepted)
    /\ accepted' \subseteq Files \X Nat /\ \A x \in accepted' : Begun(x[1])'

\* Whoever sends keeps the connection's part.
LEMMA SendKeeps ==
  ASSUME LinkPart, Grows, NEW cmds, Commands(cmds), SendStep(cmds)
  PROVE  LinkPart'
<1>1. \/ up /\ wire /\ chan' = chan \o cmds /\ held' = held /\ held = << >>
      \/ up /\ ~wire /\ chan' = chan /\ held' = held /\ held = << >> /\ chan = << >>
      \/ ~up /\ ~wire /\ held' = held \o cmds /\ chan' = chan /\ chan = << >>
  BY SendIs DEF SendStep
<1>2. /\ UNCHANGED <<up, wire, transfers, saved>> /\ accepted \subseteq accepted'
      /\ ~up => accepted' = accepted
      /\ accepted' \subseteq Files \X Nat /\ \A x \in accepted' : Begun(x[1])'
  BY DEF SendStep
<1>3. /\ chan \in Seq(Messages) /\ held \in Seq(Messages) /\ cmds \in Seq(Messages)
      /\ StartsFirst(cmds) /\ StartsFirst(chan) /\ StartsFirst(held)
  BY DEF LinkPart, QueueTypes, Commands, StartInv
<1>4. \A m \in Range(chan) \cup Range(held) : Begun(m.file) /\ Numbered(m)
  BY DEF LinkPart, BegunInv
<1>5. \A m \in Range(chan) \cup Range(held), n \in Range(cmds) :
         n.kind = "file_start" => m.file # n.file
  BY <1>4 DEF Commands
<1>6. /\ Range(chan') \subseteq Range(chan) \cup Range(cmds)
      /\ Range(held') \subseteq Range(held) \cup Range(cmds)
      /\ chan' \in Seq(Messages) /\ held' \in Seq(Messages)
      /\ StartsFirst(chan') /\ StartsFirst(held')
  <2>1. /\ Range(chan \o cmds) = Range(chan) \cup Range(cmds)
        /\ Range(held \o cmds) = Range(held) \cup Range(cmds)
        /\ chan \o cmds \in Seq(Messages) /\ held \o cmds \in Seq(Messages)
    BY <1>3, RangeCat
  <2>2. StartsFirst(chan \o cmds) /\ StartsFirst(held \o cmds)
    BY <1>3, <1>5, StartsFirstCat
  <2> QED
    BY <1>1, <1>3, <2>1, <2>2
<1>7. QueueTypes' /\ PcTypes'
  BY <1>2, <1>6 DEF LinkPart, QueueTypes, PcTypes
<1>8. BegunInv'
  <2>1. \A m \in Range(chan') \cup Range(held') : Begun(m.file)' /\ Numbered(m)'
    BY <1>4, <1>6, NumberedStays DEF Commands
  <2>2. \A f \in DOMAIN transfers' : Begun(f)'
    BY <1>2, BegunStays DEF LinkPart, BegunInv
  <2>3. \A s \in saved' : Begun(s.file)'
    BY <1>2, BegunStays DEF LinkPart, BegunInv
  <2> QED
    BY <1>2, <2>1, <2>2, <2>3 DEF BegunInv
<1>9. LinkInv'
  BY <1>1, <1>2 DEF LinkPart, LinkInv
<1>10. StartInv'
  <2>1. ASSUME NEW f \in DOMAIN transfers', Starts(chan, f)' PROVE FALSE
    <3>1. PICK m \in Range(chan') : m.kind = "file_start" /\ m.file = f
      BY <2>1 DEF Starts
    <3>2. m \in Range(chan) \/ ~Begun(f)
      BY <1>6, <3>1 DEF Commands
    <3> QED
      BY <1>2, <2>1, <3>1, <3>2 DEF LinkPart, StartInv, BegunInv, Starts
  <2>2. ASSUME NEW x \in accepted', Starts(held, x[1])' PROVE FALSE
    <3>1. ~up /\ accepted' = accepted
      <4>1. held' = << >> => FALSE
        BY <2>2, RangeOne DEF Starts, Range
      <4> QED
        BY <1>1, <1>2, <4>1
    <3>2. PICK m \in Range(held') : m.kind = "file_start" /\ m.file = x[1]
      BY <2>2 DEF Starts
    <3>3. m \in Range(held) \/ ~Begun(x[1])
      BY <1>6, <3>2 DEF Commands
    <3> QED
      BY <2>2, <3>1, <3>2, <3>3 DEF LinkPart, StartInv, BegunInv, Starts
  <2> QED
    BY <1>6, <2>1, <2>2 DEF StartInv
<1> QED
  BY <1>7, <1>8, <1>9, <1>10 DEF LinkPart

\* Nothing goes over the connection.
Stays ==
    /\ UNCHANGED <<gen, up, wire, held, chan, transfers, saved, accepted>>
    /\ \A r \in Batches :
          /\ run'[r].files = run[r].files /\ run'[r].k = run[r].k
          /\ run'[r].at = run[r].at \/ "unread" \in mishaps'

\* So does who sends nothing.
LEMMA StaysKeeps ==
  ASSUME LinkPart, Grows, Stays
  PROVE  LinkPart'
<1>1. \A f : Begun(f) => Begun(f)'
  BY BegunStays
<1>2. \A m \in Range(chan) \cup Range(held) : Begun(m.file)' /\ Numbered(m)'
  BY NumberedStays DEF LinkPart, BegunInv
<1>3. BegunInv'
  BY <1>1, <1>2 DEF LinkPart, BegunInv, Stays
<1>4. StartInv'
  BY DEF LinkPart, StartInv, Starts, Stays
<1> QED
  BY <1>3, <1>4 DEF LinkPart, QueueTypes, PcTypes, LinkInv, Stays

\* Break, PhoneNotices and Reconnect
LEMMA LinkKeeps ==
  ASSUME LinkPart, Grows, Break \/ PhoneNotices \/ Reconnect
  PROVE  LinkPart'
<1>1. /\ UNCHANGED <<run, saved, accepted>>
      /\ transfers' = transfers \/ transfers' = << >>
      /\ held' = held \/ held' = << >>
      /\ chan' \in {chan, held, << >>}
      /\ chan' = held => chan' = chan \/ chan' = << >> \/ transfers' = << >>
  BY DEF Break, PhoneNotices, Reconnect, phoneVars, pcVars
<1>2. /\ chan \in Seq(Messages) /\ held \in Seq(Messages)
      /\ StartsFirst(chan) /\ StartsFirst(held)
      /\ << >> \in Seq(Messages) /\ StartsFirst(<< >>) /\ Range(<< >>) = {}
      /\ DOMAIN << >> = {}
  <2>1. << >> \in Seq(Messages)
    OBVIOUS
  <2>2. StartsFirst(<< >>) /\ Range(<< >>) = {} /\ DOMAIN << >> = {}
    BY DEF StartsFirst, Range
  <2> QED
    BY <2>1, <2>2 DEF LinkPart, QueueTypes, StartInv
<1>3. \A f : Begun(f) => Begun(f)'
  BY BegunStays
<1>4. \A m \in Range(chan) \cup Range(held) : Begun(m.file)' /\ Numbered(m)'
  BY NumberedStays DEF LinkPart, BegunInv
<1>5. QueueTypes'
  BY <1>1, <1>2 DEF QueueTypes
<1>6. PcTypes'
  <2>1. CASE transfers' = transfers
    BY <1>1, <2>1 DEF LinkPart, PcTypes
  <2>2. CASE transfers' = << >>
    BY <1>1, <1>2, <2>2 DEF LinkPart, PcTypes
  <2> QED
    BY <1>1, <2>1, <2>2
<1>7. BegunInv'
  <2>1. \A m \in Range(chan') \cup Range(held') : Begun(m.file)' /\ Numbered(m)'
    BY <1>1, <1>2, <1>4
  <2>2. \A f \in DOMAIN transfers' : Begun(f)'
    BY <1>1, <1>2, <1>3 DEF LinkPart, BegunInv
  <2> QED
    BY <1>1, <1>3, <2>1, <2>2 DEF LinkPart, BegunInv
<1>8. LinkInv'
  <2>1. CASE Break
    BY <2>1 DEF Break, LinkPart, LinkInv
  <2>2. CASE PhoneNotices
    BY <2>2 DEF PhoneNotices, LinkPart, LinkInv
  <2>3. CASE Reconnect
    BY <2>3 DEF Reconnect, LinkPart, LinkInv
  <2> QED
    BY <2>1, <2>2, <2>3
<1>9. StartInv'
  <2>1. StartsFirst(chan') /\ StartsFirst(held')
    BY <1>1, <1>2
  <2>2. \A f \in DOMAIN transfers' : ~Starts(chan, f)'
    <3>1. CASE transfers' = << >>
      BY <1>2, <3>1
    <3>2. CASE transfers' = transfers /\ chan' \in {chan, << >>}
      BY <1>2, <3>2 DEF LinkPart, StartInv, Starts
    <3> QED
      BY <1>1, <3>1, <3>2
  <2>3. \A x \in accepted' : ~Starts(held, x[1])'
    BY <1>1, <1>2 DEF LinkPart, StartInv, Starts
  <2> QED
    BY <2>1, <2>2, <2>3 DEF StartInv
<1> QED
  BY <1>5, <1>6, <1>7, <1>8, <1>9 DEF LinkPart

-----------------------------------------------------------------------------
(* The PC: what it receives *)

\* What Receive makes of the first message
LEMMA ReceiveIs ==
  ASSUME LinkPart, Receive
  PROVE  LET m == Head(chan) f == m.file IN
         /\ chan # << >> /\ chan' = Tail(chan) /\ m \in Messages /\ wire
         /\ UNCHANGED <<gen, run, up, wire, held, accepted, mishaps>>
         /\ \A g \in DOMAIN transfers' : g # f => /\ g \in DOMAIN transfers
                                                  /\ transfers'[g] = transfers[g]
         /\ \/ /\ m.kind = "file_start" /\ f \notin DOMAIN transfers
               /\ f \in DOMAIN transfers' /\ transfers'[f] = << >> /\ saved' = saved
            \/ /\ m.kind = "file_chunk" /\ (f \notin DOMAIN transfers \/ Chunks(f) = 0)
               /\ transfers' = transfers /\ saved' = saved
            \/ /\ m.kind = "file_chunk" /\ m.last /\ f \in DOMAIN transfers /\ Chunks(f) # 0
               /\ f \notin DOMAIN transfers'
               /\ saved' = saved \cup
                             {[file |-> f, chunks |-> Append(transfers[f], m.idx)]}
            \/ /\ m.kind = "file_chunk" /\ ~m.last /\ f \in DOMAIN transfers /\ Chunks(f) # 0
               /\ f \in DOMAIN transfers'
               /\ transfers'[f] = Append(transfers[f], m.idx) /\ saved' = saved
            \/ m.kind = "file_abort" /\ f \notin DOMAIN transfers' /\ saved' = saved
         /\ m.kind \in {"file_start", "file_abort"} \/ f \in DOMAIN transfers =>
               \A g \in DOMAIN transfers : g # f => g \in DOMAIN transfers'
<1> DEFINE m == Head(chan)
           f == m.file
<1>1. /\ chan # << >> /\ chan' = Tail(chan) /\ m \in Messages /\ m \in Range(chan) /\ wire
      /\ UNCHANGED <<gen, run, up, wire, held, accepted, mishaps>>
  BY RangeTail DEF Receive, LinkPart, QueueTypes, LinkInv, phoneVars
<1>2. transfers \in [DOMAIN transfers -> Seq(Nat)]
  BY DEF LinkPart, PcTypes
<1>3. CASE m.kind = "file_start"
  <2>1. /\ transfers' = [g \in DOMAIN transfers \cup {f} |->
                                 IF g = f THEN <<>> ELSE transfers[g]]
        /\ saved' = saved
    BY <1>3 DEF Receive
  <2>2. f \notin DOMAIN transfers
    BY <1>1, <1>3 DEF LinkPart, StartInv, Starts
  <2> QED
    BY <1>1, <1>3, <2>1, <2>2
<1>4. CASE m.kind = "file_chunk"
  <2>1. IF Ignored(m) THEN UNCHANGED pcVars ELSE TakeChunk(m)
    BY <1>4 DEF Receive
  <2>2. CASE Ignored(m)
    BY <1>1, <1>4, <2>1, <2>2 DEF Ignored, Chunks, pcVars
  <2>3. CASE ~Ignored(m)
    <3>1. f \in DOMAIN transfers /\ Chunks(f) # 0
      BY <2>3 DEF Ignored, Chunks
    <3>2. CASE m.last
      <4>1. /\ transfers' = [g \in DOMAIN transfers \ {f} |-> transfers[g]]
            /\ saved' = saved \cup {[file |-> f, chunks |-> Append(transfers[f], m.idx)]}
        BY <2>1, <2>3, <3>2 DEF TakeChunk, Without
      <4> QED
        BY <1>1, <1>4, <3>1, <3>2, <4>1
    <3>3. CASE ~m.last
      <4>1. /\ transfers' = [transfers EXCEPT ![f] = Append(transfers[f], m.idx)]
            /\ saved' = saved
        BY <2>1, <2>3, <3>3 DEF TakeChunk
      <4> QED
        BY <1>1, <1>2, <1>4, <3>1, <3>3, <4>1
    <3> QED
      BY <3>2, <3>3
  <2> QED
    BY <2>2, <2>3
<1>5. CASE m.kind = "file_abort"
  <2>1. transfers' = [g \in DOMAIN transfers \ {f} |-> transfers[g]] /\ saved' = saved
    BY <1>5 DEF Receive, Without
  <2> QED
    BY <1>1, <1>5, <2>1
<1>6. m.kind \in {"file_start", "file_chunk", "file_abort"}
  BY <1>1 DEF Messages
<1> QED
  BY <1>3, <1>4, <1>5, <1>6

\* The PC keeps it too.
LEMMA ReceiveKeeps ==
  ASSUME LinkPart, Receive
  PROVE  LinkPart'
<1> DEFINE m == Head(chan)
           f == m.file
<1>1. /\ chan # << >> /\ chan' = Tail(chan) /\ m \in Messages /\ wire
      /\ UNCHANGED <<gen, run, up, wire, held, accepted, mishaps>>
      /\ \A g \in DOMAIN transfers' : g # f => /\ g \in DOMAIN transfers
                                               /\ transfers'[g] = transfers[g]
  BY ReceiveIs
<1>2. /\ f \in DOMAIN transfers' =>
            \/ m.kind = "file_start" /\ transfers'[f] = << >>
            \/ f \in DOMAIN transfers /\ transfers'[f] = transfers[f]
            \/ f \in DOMAIN transfers /\ transfers'[f] = Append(transfers[f], m.idx)
      /\ \/ saved' = saved
         \/ /\ f \in DOMAIN transfers
            /\ saved' = saved \cup {[file |-> f, chunks |-> Append(transfers[f], m.idx)]}
  BY ReceiveIs
<1>3. chan \in Seq(Messages) /\ held \in Seq(Messages)
  BY DEF LinkPart, QueueTypes
<1>4. /\ chan' \in Seq(Messages) /\ Range(chan) = {m} \cup Range(chan')
  BY <1>1, <1>3, RangeTail
<1>5. /\ StartsFirst(chan')
      /\ \A n \in Range(chan') : n.kind = "file_start" => n.file # f
  BY <1>1, <1>3, StartsFirstTail DEF LinkPart, StartInv
<1>6. Begun(f) /\ Numbered(m) /\ f \in Files /\ m.idx \in Nat
  BY <1>1, <1>4 DEF LinkPart, BegunInv, Messages
<1>7. \A g : Begun(g)' = Begun(g)
  BY <1>1 DEF Begun
<1>8. \A g \in DOMAIN transfers' : g \in DOMAIN transfers \/ g = f
  BY <1>1
<1>9. PcTypes'
  <2>1. transfers \in [DOMAIN transfers -> Seq(Nat)]
    BY DEF LinkPart, PcTypes
  <2>2. \A g \in DOMAIN transfers : Append(transfers[g], m.idx) \in Seq(Nat)
    BY <1>6, <2>1
  <2>3. << >> \in Seq(Nat)
    OBVIOUS
  <2>4. \A g \in DOMAIN transfers' : transfers'[g] \in Seq(Nat)
    BY <1>1, <1>2, <2>1, <2>2, <2>3
  <2>5. transfers' = [g \in DOMAIN transfers' |-> transfers'[g]]
    <3>1. CASE m.kind = "file_start"
      BY <3>1 DEF Receive
    <3>2. CASE m.kind = "file_chunk"
      BY <2>1, <3>2 DEF Receive, TakeChunk, Without, pcVars
    <3>3. CASE m.kind = "file_abort"
      BY <3>3 DEF Receive, Without
    <3> QED
      BY <1>1, <3>1, <3>2, <3>3 DEF Messages
  <2>6. saved' \subseteq [file : Files, chunks : Seq(Nat)]
    <3>1. CASE saved' = saved
      BY <3>1 DEF LinkPart, PcTypes
    <3>2. CASE /\ f \in DOMAIN transfers
               /\ saved' = saved \cup {[file |-> f, chunks |-> Append(transfers[f], m.idx)]}
      <4>1. \A q \in Seq(Nat) : [file |-> f, chunks |-> q] \in [file : Files, chunks : Seq(Nat)]
        BY <1>6
      <4>2. saved \subseteq [file : Files, chunks : Seq(Nat)]
        BY DEF LinkPart, PcTypes
      <4>3. [file |-> f, chunks |-> Append(transfers[f], m.idx)]
              \in [file : Files, chunks : Seq(Nat)]
        BY <2>2, <3>2, <4>1
      <4> QED
        BY <3>2, <4>2, <4>3
    <3> QED
      BY <1>2, <3>1, <3>2
  <2>7. DOMAIN transfers' \subseteq Files /\ accepted' \subseteq Files \X Nat
    BY <1>1, <1>6, <1>8 DEF LinkPart, PcTypes
  <2> QED
    BY <2>4, <2>5, <2>6, <2>7 DEF PcTypes
<1>10. BegunInv'
  <2>1. \A n \in Range(chan') \cup Range(held') : Begun(n.file)' /\ Numbered(n)'
    BY <1>1, <1>4, <1>7 DEF LinkPart, BegunInv, Numbered, Chunks
  <2>2. \A g \in DOMAIN transfers' : Begun(g)'
    BY <1>6, <1>7, <1>8 DEF LinkPart, BegunInv
  <2>3. \A s \in saved' : Begun(s.file)'
    BY <1>2, <1>6, <1>7 DEF LinkPart, BegunInv
  <2> QED
    BY <1>1, <1>7, <2>1, <2>2, <2>3 DEF LinkPart, BegunInv
<1>11. StartInv'
  <2>1. \A g \in DOMAIN transfers' : ~Starts(chan, g)'
    BY <1>4, <1>5, <1>8 DEF LinkPart, StartInv, Starts
  <2> QED
    BY <1>1, <1>5, <2>1 DEF LinkPart, StartInv, Starts
<1> QED
  BY <1>1, <1>3, <1>4, <1>9, <1>10, <1>11 DEF LinkPart, QueueTypes, LinkInv

\* The next message of a file is the next chunk, and the others stay in order.
LEMMA InOrderTail ==
  ASSUME chan \in Seq(Messages), chan # << >>, NEW f, Got(f) \in Nat,
         InOrder(f), chan' = Tail(chan), accepted' = accepted,
         Got(f)' = IF IsChunk(Head(chan), f) THEN Got(f) + 1 ELSE Got(f)
  PROVE  InOrder(f)' /\ (IsChunk(Head(chan), f) => Head(chan).idx = Got(f))
<1> DEFINE t == chan'
           n == Got(f)
           h == IsChunk(Head(chan), f)
<1>1. /\ Len(chan) \in Nat \ {0} /\ DOMAIN chan = 1 .. Len(chan)
      /\ DOMAIN t = 1 .. Len(chan) - 1
      /\ \A i \in DOMAIN t : i + 1 \in DOMAIN chan /\ t[i] = chan[i + 1]
      /\ 1 \in DOMAIN chan /\ Head(chan) = chan[1]
      /\ Range(chan) = {Head(chan)} \cup Range(t)
      /\ \A i \in DOMAIN chan : chan[i].idx \in Nat
  <2>1. \A i \in DOMAIN chan : chan[i] \in Messages
    OBVIOUS
  <2> QED
    BY <2>1, RangeTail DEF Messages
<1>2. h => chan[1].idx = n
  BY <1>1 DEF InOrder
<1> HIDE DEF t, n, h
<1>3. ASSUME NEW a \in DOMAIN t, IsChunk(t[a], f)
      PROVE  /\ t[a].idx >= Got(f)'
             /\ \/ t[a].idx = Got(f)'
                \/ \E b \in 1 .. a - 1 : IsChunk(t[b], f) /\ t[b].idx + 1 = t[a].idx
  <2>1. /\ a \in Nat /\ a + 1 \in DOMAIN chan /\ t[a] = chan[a + 1] /\ t[a].idx \in Nat
    BY <1>1
  <2>2. /\ t[a].idx >= n
        /\ \/ t[a].idx = n
           \/ \E b \in 1 .. a : IsChunk(chan[b], f) /\ chan[b].idx + 1 = t[a].idx
    BY <1>3, <2>1 DEF InOrder, n
  <2>3. h => t[a].idx > n
    BY SMTT(30), <1>1, <1>2, <1>3, <2>1 DEF InOrder, h
  <2>4. n \in Nat /\ Got(f)' = IF h THEN n + 1 ELSE n
    BY DEF n, h
  <2>5. ASSUME NEW b \in 1 .. a, IsChunk(chan[b], f), chan[b].idx + 1 = t[a].idx
        PROVE  \/ t[a].idx = Got(f)'
               \/ \E e \in 1 .. a - 1 : IsChunk(t[e], f) /\ t[e].idx + 1 = t[a].idx
    <3>1. CASE b = 1
      BY <1>1, <1>2, <2>4, <2>5, <3>1 DEF h
    <3>2. CASE b # 1
      <4>1. b - 1 \in 1 .. a - 1 /\ b - 1 \in DOMAIN t /\ t[b - 1] = chan[b]
        BY SMTT(30), <1>1, <2>1, <3>2
      <4> QED
        BY <2>5, <4>1
    <3> QED
      BY <3>1, <3>2
  <2>6. t[a].idx >= Got(f)'
    BY <2>1, <2>2, <2>3, <2>4
  <2> QED
    BY <2>2, <2>3, <2>4, <2>5, <2>6, <2>1
<1>4. ASSUME NEW a \in DOMAIN t, NEW b \in DOMAIN t, a < b, IsChunk(t[a], f), IsChunk(t[b], f)
      PROVE  t[a].idx < t[b].idx
  <2>1. /\ a + 1 \in DOMAIN chan /\ b + 1 \in DOMAIN chan /\ a + 1 < b + 1
        /\ t[a] = chan[a + 1] /\ t[b] = chan[b + 1]
    BY <1>1, <1>4
  <2> QED
    BY <1>4, <2>1 DEF InOrder
<1>5. ASSUME NEW i \in Nat
      PROVE  <<f, i>> \in accepted <=>
                i < Got(f)' \/ \E m \in Range(t) : IsChunk(m, f) /\ m.idx = i
  <2>1. <<f, i>> \in accepted <=>
           i < n \/ \E m \in Range(chan) : IsChunk(m, f) /\ m.idx = i
    BY DEF InOrder, n
  <2>2. CASE h
    <3>1. i < n + 1 <=> (i < n \/ i = n)
      BY DEF n
    <3>2. Got(f)' = n + 1 /\ Head(chan).idx = n /\ IsChunk(Head(chan), f)
      BY <1>1, <1>2, <2>2 DEF h, n
    <3> QED
      BY <1>1, <2>1, <3>1, <3>2
  <2>3. CASE ~h
    BY <1>1, <2>1, <2>3 DEF h, n
  <2> QED
    BY <2>2, <2>3
<1>6. InOrder(f)'
  BY <1>3, <1>4, <1>5 DEF InOrder, t
<1> QED
  BY <1>1, <1>2, <1>6 DEF h, n

\* What is saved has every chunk once, in order.
Whole(s) == s.chunks = [i \in 1 .. Chunks(s.file) |-> i - 1]

WholeInv == Orderly => \A s \in saved : Whole(s)

OrderPart == LinkPart /\ OrderInv /\ WholeInv

\* The number of chunks of a file that has begun
LEMMA ChunksNat ==
  ASSUME PhoneTypes, NEW f, Begun(f)
  PROVE  Chunks(f) \in Nat /\ f \in Files
<1>1. f \in Files /\ f[1] \in Batches /\ f[2] \in DOMAIN run[f[1]].files
  BY DEF Begun, Files
<1>2. run[f[1]].files \in Seq(Nat)
  BY <1>1 DEF PhoneTypes, Runs
<1> QED
  BY <1>1, <1>2 DEF Chunks

\* The PC appends the chunk that continues what it has.
LEMMA ReceiveOrdered ==
  ASSUME PhoneTypes, OrderPart, Receive
  PROVE  OrderInv' /\ WholeInv'
<1> DEFINE m == Head(chan)
           f == m.file
<1>1. /\ chan # << >> /\ chan' = Tail(chan) /\ m \in Messages /\ wire
      /\ UNCHANGED <<gen, run, up, wire, held, accepted, mishaps>>
      /\ \A g \in DOMAIN transfers' : g # f => /\ g \in DOMAIN transfers
                                               /\ transfers'[g] = transfers[g]
  BY ReceiveIs DEF OrderPart
<1>2. \/ /\ m.kind = "file_start" /\ f \notin DOMAIN transfers
         /\ f \in DOMAIN transfers' /\ transfers'[f] = << >> /\ saved' = saved
      \/ /\ m.kind = "file_chunk" /\ (f \notin DOMAIN transfers \/ Chunks(f) = 0)
         /\ transfers' = transfers /\ saved' = saved
      \/ /\ m.kind = "file_chunk" /\ m.last /\ f \in DOMAIN transfers /\ Chunks(f) # 0
         /\ f \notin DOMAIN transfers'
         /\ saved' = saved \cup {[file |-> f, chunks |-> Append(transfers[f], m.idx)]}
      \/ /\ m.kind = "file_chunk" /\ ~m.last /\ f \in DOMAIN transfers /\ Chunks(f) # 0
         /\ f \in DOMAIN transfers'
         /\ transfers'[f] = Append(transfers[f], m.idx) /\ saved' = saved
      \/ m.kind = "file_abort" /\ f \notin DOMAIN transfers' /\ saved' = saved
  BY ReceiveIs DEF OrderPart
<1>3. /\ m.kind \in {"file_start", "file_abort"} \/ f \in DOMAIN transfers =>
           \A g \in DOMAIN transfers : g # f => g \in DOMAIN transfers'
  BY ReceiveIs DEF OrderPart
<1>4. /\ chan \in Seq(Messages) /\ Range(chan) = {m} \cup Range(chan')
      /\ \A n \in Range(chan') : n.kind = "file_start" => n.file # f
  BY <1>1, RangeTail, StartsFirstTail DEF OrderPart, LinkPart, QueueTypes, StartInv
<1>5. /\ Begun(f) /\ Numbered(m) /\ Chunks(f) \in Nat /\ f \in Files /\ m.idx \in Nat
  BY <1>1, <1>4, ChunksNat DEF OrderPart, LinkPart, BegunInv, Messages
<1>6. /\ \A g \in DOMAIN transfers : transfers[g] \in Seq(Nat) /\ Len(transfers[g]) \in Nat
      /\ \A g : Got(g) \in Nat
  <2>1. \A g \in DOMAIN transfers : transfers[g] \in Seq(Nat)
    BY DEF OrderPart, LinkPart, PcTypes
  <2>2. \A q \in Seq(Nat) : Len(q) \in Nat
    OBVIOUS
  <2> QED
    BY <2>1, <2>2 DEF Got
<1>7. /\ \A g : Chunks(g)' = Chunks(g)
      /\ Orderly' = Orderly
  BY <1>1 DEF Chunks, Orderly, Spared
<1>8. SUFFICES ASSUME Orderly
               PROVE  /\ \A g \in DOMAIN transfers' :
                           \A i \in DOMAIN transfers'[g] : transfers'[g][i] = i - 1
                      /\ Gapless'
                      /\ \A g \in Files : Live(g)' /\ Chunks(g) > 0 => InOrder(g)'
                      /\ \A s \in saved' : Whole(s)'
  BY <1>1, <1>7 DEF OrderInv, WholeInv
<1>9. /\ \A g \in DOMAIN transfers : \A i \in DOMAIN transfers[g] : transfers[g][i] = i - 1
      /\ Gapless /\ \A g \in Files : Live(g) /\ Chunks(g) > 0 => InOrder(g)
      /\ \A s \in saved : Whole(s)
  BY <1>1, <1>8 DEF OrderPart, OrderInv, WholeInv
<1>10. ASSUME m.kind = "file_chunk", f \in DOMAIN transfers, Chunks(f) # 0
       PROVE  /\ InOrder(f) /\ m.idx = Len(transfers[f])
              /\ \A i \in DOMAIN Append(transfers[f], m.idx) :
                    Append(transfers[f], m.idx)[i] = i - 1
              /\ Len(Append(transfers[f], m.idx)) = Len(transfers[f]) + 1
  <2>1. InOrder(f)
    BY <1>5, <1>9, <1>10 DEF Live
  <2>2. m.idx = Got(f)
    <3>1. IsChunk(chan[1], f) /\ 1 \in DOMAIN chan /\ m = chan[1]
      BY <1>1, <1>4, <1>10, RangeTail DEF IsChunk
    <3>2. ~\E b \in 1 .. 1 - 1 : TRUE
      OBVIOUS
    <3> QED
      BY <2>1, <3>1, <3>2 DEF InOrder
  <2>3. m.idx = Len(transfers[f])
    BY <1>10, <2>2 DEF Got
  <2>4. ASSUME NEW q \in Seq(Nat), \A i \in DOMAIN q : q[i] = i - 1
        PROVE  /\ \A i \in DOMAIN Append(q, Len(q)) : Append(q, Len(q))[i] = i - 1
               /\ Len(Append(q, Len(q))) = Len(q) + 1
    BY <2>4
  <2> QED
    BY <1>6, <1>9, <1>10, <2>1, <2>3, <2>4
<1>11. \A g \in DOMAIN transfers' : \A i \in DOMAIN transfers'[g] : transfers'[g][i] = i - 1
  <2>1. ASSUME f \in DOMAIN transfers'
        PROVE  \A i \in DOMAIN transfers'[f] : transfers'[f][i] = i - 1
    <3>1. CASE transfers'[f] = << >>
      BY <3>1
    <3>2. CASE transfers' = transfers
      BY <1>9, <2>1, <3>2
    <3>3. CASE /\ m.kind = "file_chunk" /\ f \in DOMAIN transfers /\ Chunks(f) # 0
               /\ transfers'[f] = Append(transfers[f], m.idx)
      BY <1>10, <3>3
    <3> QED
      BY <1>2, <2>1, <3>1, <3>2, <3>3
  <2> QED
    BY <1>1, <1>9, <2>1
<1>12. Gapless'
  BY <1>1, <1>9 DEF Gapless
<1>13. ASSUME NEW g \in Files, Live(g)', Chunks(g) > 0
       PROVE  InOrder(g)'
  <2>1. Live(g)
    <3>1. CASE Starts(chan, g)'
      BY <1>4, <3>1 DEF Live, Starts
    <3>2. CASE g \in DOMAIN transfers' /\ g # f
      BY <1>1, <3>2 DEF Live
    <3>3. CASE g \in DOMAIN transfers' /\ g = f
      BY <1>2, <1>4, <3>3 DEF Live, Starts
    <3> QED
      BY <1>13, <3>1, <3>2, <3>3 DEF Live
  <2>2. InOrder(g)
    BY <1>9, <1>13, <2>1
  <2>3. CASE g # f
    <3>1. ~IsChunk(m, g) /\ Got(g)' = Got(g)
      <4>1. g \in DOMAIN transfers' <=> g \in DOMAIN transfers
        BY <1>1, <1>2, <1>3, <2>3
      <4> QED
        BY <1>1, <2>3, <4>1 DEF Got, IsChunk
    <3> QED
      BY <1>1, <1>4, <1>6, <2>2, <3>1, InOrderTail
  <2>4. CASE g = f
    <3>1. ~Starts(chan, g)'
      BY <1>4, <2>4 DEF Starts
    <3>2. f \in DOMAIN transfers'
      BY <1>13, <2>4, <3>1 DEF Live
    <3>3. CASE m.kind = "file_start"
      <4>1. ~IsChunk(m, g) /\ Got(g) = 0 /\ Got(g)' = 0
        <5>1. transfers'[f] = << >> /\ f \notin DOMAIN transfers
          BY <1>2, <3>3
        <5> QED
          BY <2>4, <3>2, <3>3, <5>1 DEF IsChunk, Got
      <4> QED
        BY <1>1, <1>4, <1>6, <2>2, <2>4, <4>1, InOrderTail
    <3>4. CASE m.kind # "file_start"
      <4>1. /\ m.kind = "file_chunk" /\ f \in DOMAIN transfers
            /\ transfers'[f] = Append(transfers[f], m.idx)
        BY <1>2, <1>13, <2>4, <3>2, <3>4, <1>6
      <4>2. IsChunk(m, g) /\ Got(g)' = Got(g) + 1
        BY <1>10, <1>13, <2>4, <3>2, <4>1 DEF IsChunk, Got
      <4> QED
        BY <1>1, <1>4, <1>6, <2>2, <2>4, <4>2, InOrderTail
    <3> QED
      BY <3>3, <3>4
  <2> QED
    BY <2>3, <2>4
<1>14. ASSUME NEW s \in saved' PROVE Whole(s)'
  <2>1. CASE s \in saved
    BY <1>7, <1>9, <2>1 DEF Whole
  <2>2. CASE /\ m.kind = "file_chunk" /\ m.last /\ f \in DOMAIN transfers /\ Chunks(f) # 0
             /\ s = [file |-> f, chunks |-> Append(transfers[f], m.idx)]
    <3>1. m.idx = Chunks(f) - 1
      BY <1>1, <1>5, <2>2 DEF Numbered, Messages
    <3>2. Len(Append(transfers[f], m.idx)) = Chunks(f)
      BY <1>5, <1>6, <1>10, <2>2, <3>1
    <3>3. Append(transfers[f], m.idx) \in Seq(Nat)
      BY <1>5, <1>6, <2>2
    <3>4. Append(transfers[f], m.idx) = [i \in 1 .. Chunks(f) |-> i - 1]
      <4>1. ASSUME NEW q \in Seq(Nat), NEW n \in Nat, Len(q) = n,
                   \A i \in DOMAIN q : q[i] = i - 1
            PROVE  q = [i \in 1 .. n |-> i - 1]
        BY <4>1
      <4> QED
        BY <1>5, <1>10, <2>2, <3>2, <3>3, <4>1
    <3> QED
      BY <1>7, <2>2, <3>4 DEF Whole
  <2> QED
    BY <1>2, <1>14, <2>1, <2>2
<1> QED
  BY <1>8, <1>11, <1>12, <1>13, <1>14

\* What the PC has or is about to have was begun.
LEMMA LiveBegun ==
  ASSUME LinkPart, NEW f, Live(f)
  PROVE  Begun(f)
BY DEF LinkPart, BegunInv, Live, Starts

\* Other messages do not disturb the order of a file.
LEMMA InOrderMore ==
  ASSUME chan \in Seq(Messages), NEW cmds \in Seq(Messages), chan' = chan \o cmds,
         NEW f, InOrder(f), Got(f)' = Got(f), \A m \in Range(cmds) : ~IsChunk(m, f),
         \A i \in Nat : <<f, i>> \in accepted' <=> <<f, i>> \in accepted
  PROVE  InOrder(f)'
<1>1. /\ Range(chan') = Range(chan) \cup Range(cmds)
      /\ \A i \in DOMAIN chan : i \in DOMAIN chan' /\ chan'[i] = chan[i]
      /\ \A i \in DOMAIN chan' : \/ i \in DOMAIN chan /\ chan'[i] = chan[i]
                                 \/ i - Len(chan) \in DOMAIN cmds
                                    /\ chan'[i] = cmds[i - Len(chan)]
      /\ DOMAIN chan = 1 .. Len(chan) /\ Len(chan) \in Nat
  BY RangeCat
<1>2. \A a \in DOMAIN chan' : IsChunk(chan'[a], f) => a \in DOMAIN chan /\ chan'[a] = chan[a]
  BY <1>1 DEF Range
<1>3. ASSUME NEW a \in DOMAIN chan', IsChunk(chan'[a], f)
      PROVE  /\ chan'[a].idx >= Got(f)'
             /\ \/ chan'[a].idx = Got(f)'
                \/ \E b \in 1 .. a - 1 : IsChunk(chan'[b], f) /\ chan'[b].idx + 1 = chan'[a].idx
  <2>1. a \in DOMAIN chan /\ chan'[a] = chan[a]
    BY <1>2, <1>3
  <2>2. \A b \in 1 .. a - 1 : b \in DOMAIN chan /\ chan'[b] = chan[b]
    BY <1>1, <2>1
  <2>3. /\ chan[a].idx >= Got(f)
        /\ \/ chan[a].idx = Got(f)
           \/ \E b \in 1 .. a - 1 : IsChunk(chan[b], f) /\ chan[b].idx + 1 = chan[a].idx
    BY <1>3, <2>1 DEF InOrder
  <2> QED
    BY <2>1, <2>2, <2>3
<1>4. \A a, b \in DOMAIN chan' :
         a < b /\ IsChunk(chan'[a], f) /\ IsChunk(chan'[b], f) => chan'[a].idx < chan'[b].idx
  BY <1>2 DEF InOrder
<1>5. \A i \in Nat : <<f, i>> \in accepted' <=>
         i < Got(f)' \/ \E m \in Range(chan') : IsChunk(m, f) /\ m.idx = i
  BY <1>1 DEF InOrder
<1> QED
  BY <1>3, <1>4, <1>5 DEF InOrder

\* A sequence with one more message
LEMMA RangeAppend ==
  ASSUME NEW S, NEW p \in Seq(S), NEW m \in S
  PROVE  /\ Range(p \o <<m>>) = Range(p) \cup {m}
         /\ \A i \in DOMAIN p : i \in DOMAIN (p \o <<m>>) /\ (p \o <<m>>)[i] = p[i]
         /\ \A i \in DOMAIN (p \o <<m>>) :
               \/ i \in DOMAIN p /\ (p \o <<m>>)[i] = p[i]
               \/ i = Len(p) + 1 /\ (p \o <<m>>)[i] = m
         /\ DOMAIN p = 1 .. Len(p) /\ Len(p) \in Nat
<1> DEFINE r == p \o <<m>>
<1>1. /\ \A i \in DOMAIN p : i \in DOMAIN r /\ r[i] = p[i]
      /\ Len(p) + 1 \in DOMAIN r /\ r[Len(p) + 1] = m
      /\ DOMAIN p = 1 .. Len(p) /\ Len(p) \in Nat
  OBVIOUS
<1>2. \A i \in DOMAIN r : (i \in DOMAIN p /\ r[i] = p[i]) \/ (i = Len(p) + 1 /\ r[i] = m)
  OBVIOUS
<1> HIDE DEF r
<1>3. Range(r) = Range(p) \cup {m}
  BY <1>1, <1>2 DEF Range
<1> QED
  BY <1>1, <1>2, <1>3 DEF r

\* Nor does its next chunk.
LEMMA InOrderAppend ==
  ASSUME chan \in Seq(Messages), NEW m \in Messages, chan' = chan \o <<m>>,
         NEW f, IsChunk(m, f), InOrder(f), Got(f) \in Nat, Got(f)' = Got(f),
         Gapless, <<f, m.idx>> \notin accepted, accepted' = accepted \cup {<<f, m.idx>>},
         \A j \in 0 .. m.idx - 1 : <<f, j>> \in accepted
  PROVE  InOrder(f)'
<1>1. /\ Range(chan') = Range(chan) \cup {m}
      /\ \A i \in DOMAIN chan : i \in DOMAIN chan' /\ chan'[i] = chan[i]
      /\ \A i \in DOMAIN chan' : \/ i \in DOMAIN chan /\ chan'[i] = chan[i]
                                 \/ i = Len(chan) + 1 /\ chan'[i] = m
      /\ DOMAIN chan = 1 .. Len(chan) /\ Len(chan) \in Nat
  BY RangeAppend
<1>2. m.idx \in Nat /\ \A i \in DOMAIN chan : chan[i].idx \in Nat
  <2>1. \A i \in DOMAIN chan : chan[i] \in Messages
    OBVIOUS
  <2> QED
    BY <2>1 DEF Messages
<1>3. /\ \A i \in DOMAIN chan : IsChunk(chan[i], f) => <<f, chan[i].idx>> \in accepted
      /\ \A i \in Nat : <<f, i>> \in accepted => i < m.idx
  <2>1. \A i \in DOMAIN chan : IsChunk(chan[i], f) => <<f, chan[i].idx>> \in accepted
    BY <1>2 DEF InOrder, Range
  <2>2. ASSUME NEW i \in Nat, <<f, i>> \in accepted, ~(i < m.idx) PROVE FALSE
    <3>1. i # m.idx /\ m.idx \in 0 .. i - 1
      BY SMTT(30), <1>2, <2>2
    <3>2. \A j \in 0 .. i - 1 : <<f, j>> \in accepted
      BY <2>2 DEF Gapless
    <3> QED
      BY <3>1, <3>2
  <2> QED
    BY <2>1, <2>2
<1>4. ASSUME NEW a \in DOMAIN chan', IsChunk(chan'[a], f)
      PROVE  /\ chan'[a].idx >= Got(f)'
             /\ \/ chan'[a].idx = Got(f)'
                \/ \E b \in 1 .. a - 1 : IsChunk(chan'[b], f) /\ chan'[b].idx + 1 = chan'[a].idx
  <2>1. CASE a \in DOMAIN chan /\ chan'[a] = chan[a]
    <3>1. \A b \in 1 .. a - 1 : b \in DOMAIN chan /\ chan'[b] = chan[b]
      BY <1>1, <2>1
    <3>2. /\ chan[a].idx >= Got(f)
          /\ \/ chan[a].idx = Got(f)
             \/ \E b \in 1 .. a - 1 : IsChunk(chan[b], f) /\ chan[b].idx + 1 = chan[a].idx
      BY <1>4, <2>1 DEF InOrder
    <3> QED
      BY <2>1, <3>1, <3>2
  <2>2. CASE a = Len(chan) + 1 /\ chan'[a] = m
    <3>1. m.idx >= Got(f)
      BY <1>2 DEF InOrder
    <3>2. CASE m.idx = Got(f)
      BY <2>2, <3>2, <1>2
    <3>3. CASE m.idx # Got(f)
      <4>1. m.idx - 1 \in Nat /\ m.idx - 1 \in 0 .. m.idx - 1 /\ ~(m.idx - 1 < Got(f))
        BY <1>2, <3>1, <3>3
      <4>2. \E n \in Range(chan) : IsChunk(n, f) /\ n.idx = m.idx - 1
        BY <4>1 DEF InOrder
      <4>3. PICK b \in DOMAIN chan : IsChunk(chan[b], f) /\ chan[b].idx = m.idx - 1
        BY <4>2 DEF Range
      <4>4. b \in 1 .. a - 1 /\ chan'[b] = chan[b] /\ chan'[b].idx + 1 = chan'[a].idx
        BY <1>1, <1>2, <2>2, <4>3
      <4> QED
        BY <1>2, <2>2, <3>1, <4>3, <4>4
    <3> QED
      BY <3>2, <3>3
  <2> QED
    BY <1>1, <2>1, <2>2
<1>5. ASSUME NEW a \in DOMAIN chan', NEW b \in DOMAIN chan', a < b, IsChunk(chan'[a], f),
             IsChunk(chan'[b], f)
      PROVE  chan'[a].idx < chan'[b].idx
  <2>1. CASE /\ a \in DOMAIN chan /\ chan'[a] = chan[a]
             /\ b \in DOMAIN chan /\ chan'[b] = chan[b]
    BY <1>5, <2>1 DEF InOrder
  <2>2. CASE a \in DOMAIN chan /\ chan'[a] = chan[a] /\ chan'[b] = m
    BY <1>2, <1>3, <1>5, <2>2
  <2>3. CASE a = Len(chan) + 1
    BY <1>1, <1>5, <2>3
  <2> QED
    BY <1>1, <2>1, <2>2, <2>3
<1>6. \A i \in Nat : <<f, i>> \in accepted' <=>
         i < Got(f)' \/ \E n \in Range(chan') : IsChunk(n, f) /\ n.idx = i
  <2>1. \A i \in Nat : <<f, i>> \in accepted' <=> <<f, i>> \in accepted \/ i = m.idx
    OBVIOUS
  <2> QED
    BY <1>1, <2>1 DEF InOrder
<1> QED
  BY <1>4, <1>5, <1>6 DEF InOrder

\* What was saved does not change with what follows.
LEMMA WholeStays ==
  ASSUME OrderPart, Grows, saved' = saved, Orderly' => Orderly
  PROVE  WholeInv'
<1>1. \A s \in saved : Chunks(s.file)' = Chunks(s.file)
  BY BegunStays DEF OrderPart, LinkPart, BegunInv
<1> QED
  BY <1>1 DEF OrderPart, WholeInv, Whole

\* Mishaps do not go away.
LEMMA OrderlyStays == ASSUME mishaps \subseteq mishaps' PROVE Orderly' => Orderly
BY DEF Orderly, Spared

\* Who sends nothing keeps the order.
LEMMA StaysOrdered ==
  ASSUME OrderPart, Grows, Stays
  PROVE  OrderInv' /\ WholeInv'
<1>1. UNCHANGED <<up, wire, held, chan, transfers, saved, accepted>>
  BY DEF Stays
<1>2. Orderly' => Orderly
  BY OrderlyStays DEF Grows
<1>3. /\ \A f : Live(f)' = Live(f) /\ InOrder(f)' = InOrder(f)
      /\ Gapless' = Gapless
  BY <1>1 DEF Live, Starts, InOrder, Got, Gapless
<1>4. \A f : Live(f) => Chunks(f)' = Chunks(f)
  BY LiveBegun, BegunStays DEF OrderPart
<1>5. OrderInv'
  BY <1>1, <1>2, <1>3, <1>4 DEF OrderPart, OrderInv
<1> QED
  BY <1>1, <1>2, <1>5, WholeStays

\* The connection keeps it: what breaks is lost, and what is sent again is a mishap.
LEMMA LinkOrdered ==
  ASSUME OrderPart, Grows, Break \/ PhoneNotices \/ Reconnect
  PROVE  OrderInv' /\ WholeInv'
<1>1. UNCHANGED <<saved, accepted>>
  BY DEF Break, PhoneNotices, Reconnect, phoneVars, pcVars
<1>2. Orderly' => Orderly
  BY OrderlyStays DEF Grows
<1>3. Gapless' = Gapless
  BY <1>1 DEF Gapless
<1>4. CASE Break \/ PhoneNotices
  <2>1. ~wire' /\ transfers' = transfers
    BY <1>4 DEF Break, PhoneNotices, pcVars
  <2>2. OrderInv'
    BY <1>2, <1>3, <2>1 DEF OrderPart, OrderInv
  <2> QED
    BY <1>1, <1>2, <2>2, WholeStays
<1>5. CASE Reconnect
  <2>1. /\ transfers' = << >> /\ chan' \in {held, << >>}
        /\ mishaps' = mishaps \cup
             (IF \E i \in DOMAIN chan' : chan'[i].kind = "file_chunk" THEN {"resent"} ELSE {})
    BY <1>5 DEF Reconnect
  <2>2. Orderly' => \A m \in Range(chan') : m.kind # "file_chunk"
    BY <2>1 DEF Orderly, Spared, Range
  <2>3. ASSUME NEW f, Live(f)' PROVE \A i : <<f, i>> \notin accepted
    <3>1. Starts(held, f)
      BY <2>1, <2>3 DEF Live, Starts, Range
    <3> QED
      BY <3>1 DEF OrderPart, LinkPart, StartInv
  <2>4. \A f : Got(f)' = 0
    BY <2>1 DEF Got
  <2>5. ASSUME Orderly', NEW f, Live(f)' PROVE InOrder(f)'
    <3>1. \A a \in DOMAIN chan' : ~IsChunk(chan'[a], f)
      BY <2>2, <2>5 DEF IsChunk, Range
    <3>2. \A m \in Range(chan') : ~IsChunk(m, f)
      BY <2>2, <2>5 DEF IsChunk
    <3>3. \A i \in Nat : <<f, i>> \notin accepted' /\ ~(i < Got(f)')
      BY <1>1, <2>3, <2>4, <2>5
    <3> QED
      BY <3>1, <3>2, <3>3 DEF InOrder
  <2>6. OrderInv'
    BY <1>2, <1>3, <2>1, <2>5 DEF OrderPart, OrderInv
  <2> QED
    BY <1>1, <1>2, <2>6, WholeStays
<1> QED
  BY <1>4, <1>5

\* What is sent but no chunk: starts, aborts and empty files
LEMMA SendOrdered ==
  ASSUME OrderPart, Grows, NEW cmds, Commands(cmds), SendStep(cmds), accepted' = accepted,
         \A m \in Range(cmds) : m.kind = "file_chunk" => Chunks(m.file)' = 0
  PROVE  OrderInv' /\ WholeInv'
<1>1. UNCHANGED <<up, wire, transfers, saved>>
  BY DEF SendStep
<1>2. Orderly' => Orderly
  BY OrderlyStays DEF Grows
<1>3. Gapless' = Gapless
  BY DEF Gapless
<1>4. ASSUME wire PROVE chan' = chan \o cmds
  BY <1>4, SendIs DEF SendStep, OrderPart
<1>5. chan \in Seq(Messages) /\ cmds \in Seq(Messages)
  BY DEF OrderPart, LinkPart, QueueTypes, Commands
<1>6. \A f : Got(f)' = Got(f)
  BY <1>1 DEF Got
<1>7. ASSUME wire, Orderly, NEW f \in Files, Live(f)', Chunks(f)' > 0
      PROVE  InOrder(f)'
  <2>1. \A m \in Range(cmds) : ~IsChunk(m, f)
    BY <1>7 DEF IsChunk
  <2>2. CASE Live(f)
    <3>1. Chunks(f)' = Chunks(f)
      BY <2>2, LiveBegun, BegunStays DEF OrderPart
    <3>2. InOrder(f)
      BY <1>7, <2>2, <3>1 DEF OrderPart, OrderInv
    <3> QED
      BY <1>4, <1>5, <1>6, <1>7, <2>1, <3>2, InOrderMore
  <2>3. CASE ~Live(f)
    <3>1. Range(chan') = Range(chan) \cup Range(cmds)
      <4>1. Range(chan \o cmds) = Range(chan) \cup Range(cmds)
        BY <1>5, RangeCat
      <4> QED
        BY <1>4, <1>7, <4>1
    <3>2. ~Begun(f) /\ f \notin DOMAIN transfers
      BY <1>1, <1>7, <2>3, <3>1 DEF Live, Starts, Commands
    <3>3. \A m \in Range(chan') : ~IsChunk(m, f)
      BY <2>1, <3>1, <3>2 DEF OrderPart, LinkPart, BegunInv, IsChunk
    <3>4. \A i \in Nat : <<f, i>> \notin accepted' /\ ~(i < Got(f)')
      BY <1>6, <3>2 DEF OrderPart, LinkPart, BegunInv, Got
    <3>5. \A a \in DOMAIN chan' : ~IsChunk(chan'[a], f)
      BY <3>3 DEF Range
    <3> QED
      BY <3>3, <3>4, <3>5 DEF InOrder
  <2> QED
    BY <2>2, <2>3
<1>8. OrderInv'
  BY <1>1, <1>2, <1>3, <1>7 DEF OrderPart, OrderInv
<1> QED
  BY <1>1, <1>2, <1>8, WholeStays

-----------------------------------------------------------------------------
(* The steps, as the connection sees them *)

\* One message about a file that has begun
LEMMA OneCommand ==
  ASSUME Grows, NEW m \in Messages, Begun(m.file), Numbered(m), m.kind # "file_start"
  PROVE  Commands(<<m>>) /\ Range(<<m>>) = {m}
<1>1. <<m>> \in Seq(Messages) /\ StartsFirst(<<m>>) /\ Range(<<m>>) = {m}
  BY RangeOne, StartsFirstOne
<1>2. \A n \in Range(<<m>>) : n = m
  BY <1>1
<1>3. \A n \in Range(<<m>>) : Begun(n.file)' /\ Numbered(n)'
  BY <1>2, NumberedStays
<1> QED
  BY <1>1, <1>2, <1>3 DEF Commands

\* The starts that SendFiles and Join send, with the chunks of empty files
LEMMA OpensSends ==
  ASSUME PhonePart, BegunInv, PcTypes, NEW r \in Batches, NEW files, NEW k,
         Opens(r, files, k)
  PROVE  /\ Grows /\ Commands(Opening(r, files, k)) /\ SendStep(Opening(r, files, k))
         /\ accepted' = accepted
         /\ \A m \in Range(Opening(r, files, k)) :
               m.kind = "file_chunk" => Chunks(m.file)' = 0
<1> DEFINE o == Opening(r, files, k)
           first == FirstSized(files, k)
<1>1. /\ files \in Seq(Nat) /\ k \in 1 .. Len(files) + 1 /\ k \in Nat /\ Len(files) \in Nat
      /\ first \in k .. Len(files) + 1 /\ first \in Nat
  BY FirstSizedIs DEF Opens
<1> HIDE DEF first
<1>2. /\ run' \in [Batches -> Runs] /\ worker' \in [Coroutines -> Workers]
      /\ run'[r].files = files /\ run'[r].k = first /\ run'[r].next = 0
      /\ run'[r].at = IF first <= Len(files) THEN "sending" ELSE "over"
      /\ \A s \in Batches : s # r => run'[s] = run[s]
      /\ \A c \in Coroutines :
              \/ worker'[c] = worker[c]
              \/ c[1] = r /\ first <= Len(files) /\ worker'[c].at = "loop"
      /\ first <= Len(files) => worker'[<<r, 1>>].at = "loop"
  <2>1. files \in Seq(Nat) /\ k \in 1 .. Len(files) + 1 /\ GoOn(r, files, k)
    BY DEF Opens
  <2> QED
    BY <2>1, GoOnIs DEF first
<1>3. /\ o \in Seq(Messages) /\ StartsFirst(o)
      /\ \A m \in Range(o) :
            /\ m.kind \in {"file_start", "file_chunk"} /\ m.file[1] = r
            /\ m.file[2] \in k .. first /\ m.file[2] \in DOMAIN files
            /\ m.kind = "file_chunk" => files[m.file[2]] = 0
            /\ m \in Messages
  <2>1. /\ o \in Seq(Messages) /\ StartsFirst(o)
        /\ \A i \in DOMAIN o :
            /\ o[i].kind \in {"file_start", "file_chunk"} /\ o[i].file[1] = r
            /\ o[i].file[2] \in k .. first /\ o[i].file[2] \in DOMAIN files
            /\ o[i].kind = "file_chunk" => files[o[i].file[2]] = 0
    BY <1>1, OpeningIs DEF first
  <2>2. \A i \in DOMAIN o : o[i] \in Messages
    BY <2>1
  <2> QED
    BY <2>1, <2>2 DEF Range
<1> HIDE DEF o
<1>4. /\ gen' \in Batches /\ r <= gen' /\ gen \in Nat /\ gen <= gen'
      /\ mishaps \subseteq mishaps'
      /\ (r <= gen => k = run[r].k + 1 /\ files = run[r].files)
  BY Bounds DEF PhonePart, PhoneTypes, Opens, Batches
<1>5. Grows
  <2>1. \A s \in Batches : run'[s].k \in Nat /\ run[s].k \in Nat
    BY <1>2 DEF PhonePart, PhoneTypes, Runs
  <2>2. ASSUME NEW s \in Batches, s <= gen
        PROVE  run'[s].files = run[s].files /\ run[s].k <= run'[s].k
    <3>1. CASE s = r
      <4>1. k = run[r].k + 1 /\ files = run[r].files /\ first >= k
        BY <1>1, <1>4, <2>2, <3>1
      <4>2. run'[r].files = files /\ run'[r].k = first
        BY <1>2
      <4> QED
        BY <1>1, <2>1, <3>1, <4>1, <4>2
    <3>2. CASE s # r
      <4>1. run'[s] = run[s]
        BY <1>2, <3>2
      <4> QED
        BY <2>1, <4>1
    <3> QED
      BY <3>1, <3>2
  <2> QED
    BY <1>4, <2>1, <2>2, Bounds DEF Grows, Batches
<1>6. ASSUME NEW m \in Range(o)
      PROVE  /\ Begun(m.file)' /\ Numbered(m)'
             /\ m.kind = "file_start" => ~Begun(m.file)
             /\ m.kind = "file_chunk" => Chunks(m.file)' = 0
  <2>1. m.file \in Files
    BY <1>3 DEF Messages
  <2>2. Begun(m.file)'
    BY SMTT(30), <1>1, <1>2, <1>3, <1>4, <2>1 DEF Begun
  <2>3. m.kind = "file_chunk" => Chunks(m.file)' = 0
    BY <1>2, <1>3 DEF Chunks
  <2>4. ~Begun(m.file)
    <3>1. CASE r > gen
      BY <1>3, <1>4, <3>1, Bounds DEF Begun, Batches
    <3>2. CASE r <= gen
      <4>1. run[r].k \in Nat
        BY DEF PhonePart, PhoneTypes, Runs
      <4>2. m.file[1] = r /\ m.file[2] \in k .. first
        BY <1>3
      <4>3. m.file[2] > run[r].k /\ m.file[2] \in Nat
        BY <1>1, <1>4, <3>2, <4>1, <4>2
      <4> QED
        BY <4>1, <4>2, <4>3 DEF Begun
    <3> QED
      BY <1>4, <3>1, <3>2, Bounds DEF Batches
  <2> QED
    BY <2>2, <2>3, <2>4 DEF Numbered
<1>7. SendStep(o)
  <2>1. \A x \in accepted : Begun(x[1])'
    BY <1>5, BegunStays DEF BegunInv
  <2> QED
    BY <2>1 DEF SendStep, Opens, GoOn, PcTypes, o
<1>8. accepted' = accepted
  BY DEF Opens
<1> QED
  BY <1>3, <1>5, <1>6, <1>7, <1>8 DEF Commands, o

\* JoinAborted
LEMMA AbortSends ==
  ASSUME PhonePart, BegunInv, PcTypes, NEW r \in Batches, JoinAborted(r)
  PROVE  /\ Grows /\ Commands(<<Abort(File(r))>>) /\ SendStep(<<Abort(File(r))>>)
         /\ accepted' = accepted /\ r <= gen
         /\ Range(<<Abort(File(r))>>) = {Abort(File(r))}
         /\ run' = [run EXCEPT ![r].at = "over"] /\ UNCHANGED <<gen, mishaps>>
<1> DEFINE m == Abort(File(r))
<1>1. /\ run[r].at = "sending" /\ run' = [run EXCEPT ![r].at = "over"]
      /\ UNCHANGED <<gen, up, wire, transfers, saved, accepted, mishaps>>
      /\ Send(<<m>>)
  BY DEF JoinAborted, Joined, pcVars
<1>2. run[r].k \in DOMAIN run[r].files /\ r <= gen /\ run[r] \in Runs
  <2>1. run[r] # NoRun
    BY <1>1 DEF NoRun
  <2> QED
    BY <1>1, <2>1, Bounds DEF PhonePart, PhoneTypes, RunInv, Working, Batches
<1>3. \A s \in Batches : run'[s].files = run[s].files /\ run'[s].k = run[s].k
                         /\ run[s].k \in Nat
  BY <1>1 DEF PhonePart, PhoneTypes, Runs
<1>4. Grows
  BY <1>1, <1>3, Bounds DEF Grows, PhonePart, PhoneTypes, Batches
<1>5. File(r) \in Files /\ Begun(File(r)) /\ m \in Messages
  <2>1. run[r].k \in Nat \ {0}
    BY <1>2, <1>3 DEF Runs
  <2>2. File(r) \in Files
    BY <2>1 DEF File, Files
  <2> QED
    BY <1>2, <1>3, <2>2 DEF File, Begun, Abort, Message, Messages
<1>6. /\ <<m>> \in Seq(Messages) /\ StartsFirst(<<m>>) /\ Range(<<m>>) = {m}
      /\ m.kind = "file_abort" /\ m.file = File(r)
  <2>1. m.kind = "file_abort" /\ m.file = File(r)
    BY DEF Abort, Message
  <2> HIDE DEF m
  <2> QED
    BY <1>5, <2>1, RangeOne, StartsFirstOne
<1> HIDE DEF m
<1>7. Commands(<<m>>)
  <2>1. Begun(m.file) /\ Numbered(m) /\ m.kind # "file_start" /\ m \in Messages
    BY <1>5, <1>6 DEF Numbered
  <2> QED
    BY <1>4, <2>1, OneCommand
<1>8. SendStep(<<m>>)
  <2>1. \A x \in accepted : Begun(x[1])'
    BY <1>4, BegunStays DEF BegunInv
  <2> QED
    BY <1>1, <2>1 DEF SendStep, PcTypes
<1> QED
  BY <1>1, <1>2, <1>4, <1>6, <1>7, <1>8 DEF m

ChunkOf(c) ==
    Message("file_chunk", File(c[1]), worker[c].idx,
            IsLast(worker[c].idx, Size(c[1], run[c[1]].k)))

\* The chunk that is sent
LEMMA TriesSends ==
  ASSUME PhonePart, BegunInv, PcTypes, NEW c \in Coroutines, Tries(c)
  PROVE  /\ Grows /\ Commands(<<ChunkOf(c)>>) /\ SendStep(<<ChunkOf(c)>>)
         /\ Range(<<ChunkOf(c)>>) = {ChunkOf(c)} /\ ChunkOf(c) \in Messages
         /\ ChunkOf(c).kind = "file_chunk" /\ ChunkOf(c).file = File(c[1])
         /\ ChunkOf(c).idx = worker[c].idx /\ worker[c].idx \in Nat
         /\ Begun(File(c[1])) /\ worker[c].at \in Pending
<1> DEFINE m == ChunkOf(c)
           r == c[1]
           f == File(r)
<1>1. /\ UNCHANGED <<gen, run, up, wire, transfers, saved>> /\ Send(<<m>>)
      /\ accepted' = IF up THEN accepted \cup {<<f, worker[c].idx>>} ELSE accepted
      /\ mishaps \subseteq mishaps' /\ worker[c].at \in Pending
  BY DEF Tries, Attempt, ChunkOf, Pending
<1>2. /\ r \in Batches /\ r <= gen /\ worker[c] \in Workers /\ run[r] \in Runs
      /\ run[r].k \in DOMAIN run[r].files /\ Size(r, run[r].k) \in Nat \ {0}
      /\ run[r].next <= Size(r, run[r].k) /\ worker[c].idx < run[r].next
  BY <1>1, Coroutine DEF Tries, PhonePart, WorkerInv
<1>3. Grows
  BY <1>1, Bounds DEF Grows, PhonePart, PhoneTypes, Batches, Runs
<1>4. /\ f \in Files /\ Begun(f) /\ worker[c].idx \in Nat
      /\ worker[c].idx < Size(r, run[r].k)
  <2>1. run[r].k \in Nat \ {0} /\ worker[c].idx \in Nat /\ run[r].next \in Nat
    BY <1>2 DEF Runs, Workers
  <2>2. f \in Files
    BY <1>2, <2>1 DEF File, Files
  <2> QED
    BY <1>2, <2>1, <2>2 DEF File, Begun
<1>5. /\ m.kind = "file_chunk" /\ m.file = f /\ m.idx = worker[c].idx
      /\ m.last = (m.idx = Chunks(f) - 1) /\ m.idx < Chunks(f)
      /\ m \in Messages
  <2>1. Chunks(f) = Size(r, run[r].k)
    BY DEF Chunks, File, Size
  <2> QED
    BY <1>4, <2>1 DEF ChunkOf, Message, Messages, IsLast
<1> HIDE DEF m
<1>6. <<m>> \in Seq(Messages) /\ StartsFirst(<<m>>) /\ Range(<<m>>) = {m}
  BY <1>5, RangeOne, StartsFirstOne
<1>7. Commands(<<m>>)
  <2>1. Begun(m.file) /\ Numbered(m) /\ m.kind # "file_start" /\ m \in Messages
    BY <1>4, <1>5 DEF Numbered
  <2> QED
    BY <1>3, <2>1, OneCommand
<1>8. SendStep(<<m>>)
  <2>1. \A x \in accepted' : Begun(x[1])
    BY <1>1, <1>4 DEF BegunInv
  <2>2. \A x \in accepted' : Begun(x[1])'
    BY <1>3, <2>1, BegunStays
  <2> QED
    BY <1>1, <1>4, <2>2 DEF SendStep, PcTypes
<1> QED
  BY <1>1, <1>3, <1>4, <1>5, <1>6, <1>7, <1>8 DEF m

\* It is the next one of its file, unless that is a mishap.
LEMMA TriesOrdered ==
  ASSUME PhonePart, OrderPart, NEW c \in Coroutines, Tries(c)
  PROVE  OrderInv' /\ WholeInv'
<1> DEFINE f == File(c[1])
           idx == worker[c].idx
<1>1. /\ Grows /\ Commands(<<ChunkOf(c)>>) /\ SendStep(<<ChunkOf(c)>>)
      /\ Range(<<ChunkOf(c)>>) = {ChunkOf(c)} /\ ChunkOf(c) \in Messages
      /\ ChunkOf(c).kind = "file_chunk" /\ ChunkOf(c).file = f
      /\ ChunkOf(c).idx = idx /\ idx \in Nat /\ Begun(f) /\ worker[c].at \in Pending
  BY TriesSends DEF OrderPart, LinkPart
<1>2. /\ UNCHANGED <<gen, run, up, wire, transfers, saved>>
      /\ accepted' = IF up THEN accepted \cup {<<f, idx>>} ELSE accepted
      /\ mishaps' = mishaps \cup
           (IF \E i \in 0 .. idx - 1 : <<f, i>> \notin accepted THEN {"disorder"} ELSE {})
  BY DEF Tries, Attempt
<1>3. Orderly' => Orderly /\ \A i \in 0 .. idx - 1 : <<f, i>> \in accepted
  BY <1>2 DEF Orderly, Spared
<1>4. <<f, idx>> \notin accepted
  BY <1>1 DEF PhonePart, WorkerInv
<1>5. \A g : Chunks(g)' = Chunks(g) /\ Got(g)' = Got(g)
  BY <1>2 DEF Chunks, Got
<1> HIDE DEF f, idx
<1>6. ASSUME Orderly' PROVE Gapless'
  <2>1. Gapless /\ \A i \in 0 .. idx - 1 : <<f, i>> \in accepted
    BY <1>3, <1>6 DEF OrderPart, OrderInv
  <2>2. \A y \in accepted' : y \in accepted \/ y = <<f, idx>>
    BY <1>2
  <2>3. accepted \subseteq accepted'
    BY <1>2
  <2>4. ASSUME NEW y \in accepted', NEW j \in 0 .. y[2] - 1
        PROVE  <<y[1], j>> \in accepted
    <3>1. CASE y \in accepted
      BY <2>1, <3>1 DEF Gapless
    <3>2. CASE y = <<f, idx>>
      <4>1. y[1] = f /\ y[2] = idx
        BY <3>2
      <4>2. <<f, j>> \in accepted
        BY <2>1, <4>1
      <4> QED
        BY <4>1, <4>2
    <3> QED
      BY <2>2, <3>1, <3>2
  <2> QED
    BY <2>3, <2>4 DEF Gapless
<1>7. ASSUME Orderly', wire, NEW g \in Files, Live(g)', Chunks(g)' > 0
      PROVE  InOrder(g)'
  <2>1. up /\ chan' = chan \o <<ChunkOf(c)>> /\ chan \in Seq(Messages)
    BY <1>7, SendIs DEF Tries, Attempt, ChunkOf, OrderPart, LinkPart, QueueTypes
  <2>2. Range(chan') = Range(chan) \cup {ChunkOf(c)} /\ <<ChunkOf(c)>> \in Seq(Messages)
    BY <1>1, <2>1, RangeAppend, RangeOne
  <2>3. Live(g)
    BY <1>1, <1>2, <1>7, <2>2 DEF Live, Starts
  <2>4. InOrder(g) /\ Gapless
    BY <1>3, <1>5, <1>7, <2>3 DEF OrderPart, OrderInv
  <2>5. CASE g = f
    <3>1. Got(g) \in Nat
      BY DEF Got, OrderPart, LinkPart, PcTypes
    <3>2. IsChunk(ChunkOf(c), g)
      BY <1>1, <2>5 DEF IsChunk
    <3>3. <<g, idx>> \notin accepted /\ accepted' = accepted \cup {<<g, idx>>}
      BY <1>2, <1>4, <2>1, <2>5
    <3>4. \A j \in 0 .. idx - 1 : <<g, j>> \in accepted
      BY <1>3, <1>7, <2>5
    <3>5. Got(g)' = Got(g)
      BY <1>5
    <3> QED
      BY <1>1, <2>1, <2>4, <3>1, <3>2, <3>3, <3>4, <3>5, InOrderAppend
  <2>6. CASE g # f
    <3>1. \A m \in Range(<<ChunkOf(c)>>) : ~IsChunk(m, g)
      BY <1>1, <2>6 DEF IsChunk
    <3>2. \A i \in Nat : <<g, i>> \in accepted' <=> <<g, i>> \in accepted
      BY <1>2, <2>6
    <3>3. Got(g)' = Got(g)
      BY <1>5
    <3> QED
      BY <2>1, <2>2, <2>4, <3>1, <3>2, <3>3, InOrderMore
  <2> QED
    BY <2>5, <2>6
<1>8. OrderInv'
  BY <1>2, <1>3, <1>6, <1>7 DEF OrderPart, OrderInv
<1> QED
  BY <1>1, <1>2, <1>3, <1>8, WholeStays
-----------------------------------------------------------------------------
(* The steps *)

\* What a coroutine does without a new chunk and without sending
Easy(c) ==
    \/ Wake(c) \/ ChunkSent(c) \/ ReadFails(c)
    \/ Encoded(c) /\ abort
    \/ Retry(c) /\ (worker[c].tries = MaxRetries \/ abort)
    \/ Take(c) /\ ~(run[c[1]].next < Size(c[1], run[c[1]].k))

\* Taking the next chunk
TakesNext(c) == Take(c) /\ run[c[1]].next < Size(c[1], run[c[1]].k)

\* Every step is of one of these kinds.
LEMMA StepKinds ==
  ASSUME PhonePart, [Next]_vars
  PROVE  \/ UNCHANGED vars
         \/ Refuse \/ HideBatch \/ TogglePause \/ Cancel \/ Unmount
         \/ \E c \in Coroutines : Easy(c)
         \/ \E c \in Coroutines : TakesNext(c)
         \/ \E c \in Coroutines : Tries(c)
         \/ \E r \in Batches, files \in Seq(Nat), k \in Nat : Opens(r, files, k)
         \/ \E r \in Batches : JoinAborted(r)
         \/ Break \/ PhoneNotices \/ Reconnect
         \/ Receive
<1>1. ASSUME gen < MaxBatches, NEW files \in Selections[gen + 1], SendFiles(files)
      PROVE  \E r \in Batches, q \in Seq(Nat), k \in Nat : Opens(r, q, k)
  <2>1. gen + 1 \in Batches /\ Opens(gen + 1, files, 1)
    BY <1>1, OpensIs
  <2> QED
    BY <2>1 DEF Opens
<1>2. ASSUME NEW r \in Batches, Join(r)
      PROVE  \E s \in Batches, q \in Seq(Nat), k \in Nat : Opens(s, q, k)
  <2>1. Opens(r, run[r].files, run[r].k + 1)
    BY <1>2, OpensIs
  <2>2. run[r].files \in Seq(Nat) /\ run[r].k + 1 \in Nat
    BY DEF PhonePart, PhoneTypes, Runs
  <2> QED
    BY <2>1, <2>2
<1>3. ASSUME NEW c \in Coroutines, Steps(c) \/ ReadFails(c)
      PROVE  Easy(c) \/ TakesNext(c) \/ Tries(c)
  BY <1>3, TriesIs DEF Steps, Easy, TakesNext
<1> QED
  BY <1>1, <1>2, <1>3 DEF Next, User

\* Most steps send nothing.
LEMMA StayingSteps ==
  ASSUME PhonePart,
         \/ UNCHANGED vars
         \/ Refuse \/ HideBatch \/ TogglePause \/ Cancel \/ Unmount
         \/ \E c \in Coroutines : Easy(c)
         \/ \E c \in Coroutines : TakesNext(c)
  PROVE  Stays /\ Grows
<1> USE DEF Stays, linkVars, pcVars, phoneVars
<1>1. /\ gen \in Nat /\ run \in [Batches -> Runs] /\ \A r \in Batches : run[r].k \in Nat
  BY Bounds DEF PhonePart, PhoneTypes, Batches, Runs
<1>2. Stays /\ mishaps \subseteq mishaps'
  <2>1. CASE UNCHANGED vars
    BY <2>1 DEF vars
  <2>2. CASE Refuse \/ HideBatch \/ TogglePause \/ Cancel \/ Unmount
    BY <2>2 DEF Refuse, HideBatch, TogglePause, Cancel, Unmount
  <2>3. ASSUME NEW c \in Coroutines, Easy(c) \/ TakesNext(c)
        PROVE  Stays /\ mishaps \subseteq mishaps'
    <3>1. CASE Wake(c)
      BY <3>1 DEF Wake, Proceed
    <3>2. CASE ChunkSent(c)
      BY <1>1, <3>2 DEF ChunkSent
    <3>3. CASE ReadFails(c)
      BY <1>1, <3>3 DEF ReadFails
    <3>4. CASE Encoded(c) /\ abort
      BY <3>4 DEF Encoded
    <3>5. CASE Retry(c) /\ (worker[c].tries = MaxRetries \/ abort)
      BY <3>5 DEF Retry, MaxRetries
    <3>6. CASE Take(c)
      <4>1. \A r \in Batches : /\ run'[r].files = run[r].files /\ run'[r].k = run[r].k
                               /\ run'[r].at = run[r].at
        <5>1. run' = run \/ run' = [run EXCEPT ![c[1]].next = @ + 1]
          BY <3>6 DEF Take
        <5>2. CASE run' = [run EXCEPT ![c[1]].next = @ + 1]
          BY <1>1, <5>2 DEF Runs
        <5> QED
          BY <5>1, <5>2
      <4> QED
        BY <3>6, <4>1 DEF Take, Proceed
    <3> QED
      BY <2>3, <3>1, <3>2, <3>3, <3>4, <3>5, <3>6 DEF Easy, TakesNext
  <2> QED
    BY <2>1, <2>2, <2>3
<1> QED
  BY <1>1, <1>2 DEF Grows

\* The steps of the connection and the PC leave the batches alone.
LEMMA ReceivingGrows ==
  ASSUME PhonePart, Break \/ PhoneNotices \/ Reconnect \/ Receive
  PROVE  Grows
<1>1. UNCHANGED <<gen, run>> /\ mishaps \subseteq mishaps'
  BY DEF Break, PhoneNotices, Reconnect, Receive
<1>2. gen \in Nat /\ \A r \in Batches : run[r].k \in Nat
  BY Bounds DEF PhonePart, PhoneTypes, Batches, Runs
<1> QED
  BY <1>1, <1>2 DEF Grows

\* Inductive: what a coroutine holds and what was accepted, what was sent and what the PC
\* makes of it.
UploadInv == PhonePart /\ SentPart /\ OrderPart

\* Every step keeps the phone's part,
LEMMA PhoneNext ==
  ASSUME PhonePart, SentPart, \A x \in accepted : Begun(x[1]), [Next]_vars
  PROVE  PhonePart' /\ SentPart'
<1>1. CASE UNCHANGED vars
  <2>1. PhoneTypes' /\ Eases /\ KeepsChunks
    BY <1>1 DEF PhonePart, PhoneTypes, WorkerInv, Eases, KeepsChunks, vars, phoneVars
  <2> QED
    BY <2>1, EasyWorkers, EasySent DEF PhonePart
<1>2. CASE Refuse \/ HideBatch \/ TogglePause \/ Cancel \/ Unmount
  BY <1>2, UserEases, EasyWorkers, EasySent DEF PhonePart
<1>3. CASE \E c \in Coroutines : Easy(c)
  BY <1>3, CoroutineEases, EasyWorkers, EasySent DEF PhonePart, Easy
<1>4. CASE \E c \in Coroutines : TakesNext(c)
  BY <1>4, TakeKeeps DEF PhonePart, TakesNext
<1>5. CASE \E c \in Coroutines : Tries(c)
  BY <1>5, TriesKeeps DEF PhonePart
<1>6. CASE \E r \in Batches, files \in Seq(Nat), k \in Nat : Opens(r, files, k)
  BY <1>6, OpensKeeps DEF PhonePart
<1>7. CASE \/ \E r \in Batches : JoinAborted(r)
           \/ Break \/ PhoneNotices \/ Reconnect \/ Receive
  BY <1>7, OthersEase, EasyWorkers, EasySent DEF PhonePart
<1> QED
  BY <1>1, <1>2, <1>3, <1>4, <1>5, <1>6, <1>7, StepKinds

\* and the connection's and the PC's part.
LEMMA OrderNext ==
  ASSUME PhonePart, OrderPart, [Next]_vars
  PROVE  OrderPart'
<1>1. PhoneTypes /\ LinkPart /\ BegunInv /\ PcTypes
  BY DEF PhonePart, OrderPart, LinkPart
<1>2. CASE \/ UNCHANGED vars
           \/ Refuse \/ HideBatch \/ TogglePause \/ Cancel \/ Unmount
           \/ \E c \in Coroutines : Easy(c)
           \/ \E c \in Coroutines : TakesNext(c)
  <2>1. Stays /\ Grows
    BY <1>2, StayingSteps
  <2> QED
    BY <1>1, <2>1, StaysKeeps, StaysOrdered DEF OrderPart
<1>3. CASE \E c \in Coroutines : Tries(c)
  <2>1. PICK c \in Coroutines : Tries(c)
    BY <1>3
  <2>2. LinkPart'
    BY <1>1, <2>1, TriesSends, SendKeeps
  <2>3. OrderInv' /\ WholeInv'
    BY <2>1, TriesOrdered
  <2> QED
    BY <2>2, <2>3 DEF OrderPart
<1>4. CASE \E r \in Batches, files \in Seq(Nat), k \in Nat : Opens(r, files, k)
  <2>1. PICK r \in Batches, files \in Seq(Nat), k \in Nat : Opens(r, files, k)
    BY <1>4
  <2>2. /\ Grows /\ Commands(Opening(r, files, k)) /\ SendStep(Opening(r, files, k))
        /\ accepted' = accepted
        /\ \A m \in Range(Opening(r, files, k)) :
              m.kind = "file_chunk" => Chunks(m.file)' = 0
    BY <1>1, <2>1, OpensSends
  <2>3. LinkPart'
    BY <1>1, <2>2, SendKeeps
  <2>4. OrderInv' /\ WholeInv'
    BY <2>2, SendOrdered
  <2> QED
    BY <2>3, <2>4 DEF OrderPart
<1>5. CASE \E r \in Batches : JoinAborted(r)
  <2>1. PICK r \in Batches : JoinAborted(r)
    BY <1>5
  <2> DEFINE o == <<Abort(File(r))>>
  <2>2. /\ Grows /\ Commands(o) /\ SendStep(o) /\ accepted' = accepted
        /\ \A m \in Range(o) : m.kind # "file_chunk"
    <3>1. Abort(File(r)).kind = "file_abort"
      BY DEF Abort, Message
    <3> QED
      BY <1>1, <2>1, <3>1, AbortSends
  <2> HIDE DEF o
  <2>3. LinkPart'
    BY <1>1, <2>2, SendKeeps
  <2>4. OrderInv' /\ WholeInv'
    BY <2>2, SendOrdered
  <2> QED
    BY <2>3, <2>4 DEF OrderPart
<1>6. CASE Break \/ PhoneNotices \/ Reconnect
  <2>1. Grows
    BY <1>6, ReceivingGrows
  <2> QED
    BY <1>1, <1>6, <2>1, LinkKeeps, LinkOrdered DEF OrderPart
<1>7. CASE Receive
  BY <1>1, <1>7, ReceiveKeeps, ReceiveOrdered DEF OrderPart
<1> QED
  BY <1>2, <1>3, <1>4, <1>5, <1>6, <1>7, StepKinds

\* It holds at first,
LEMMA UploadInit == ASSUME Init PROVE UploadInv
<1> USE DEF Init, NoRun, NoWorker
<1>1. \A S : <<>> \in Seq(S)
  OBVIOUS
<1>2. PhoneTypes
  <2>1. NoRun \in Runs
    BY <1>1 DEF Runs, RunStates
  <2>2. NoWorker \in Workers
    BY DEF Workers, WorkerStates
  <2> QED
    BY <2>1, <2>2, Bounds DEF PhoneTypes
<1>3. \A r \in Batches, w \in Senders : <<r, w>> \in Coroutines
  BY DEF Coroutines
<1>4. \A r \in Batches : ~Working(r)
  BY <1>3 DEF Working
<1>5. RunInv
  <2>1. \A r \in Batches : r > gen
    BY DEF Batches
  <2> QED
    BY <1>3, <1>4, <2>1 DEF RunInv, Batches
<1>6. WorkerInv
  BY DEF WorkerInv, Pending
<1>7. SentPart
  BY <1>4 DEF SentPart, OneBatch, SentInv, CompletedMeansSent
<1>8. QueueTypes /\ PcTypes /\ DOMAIN transfers = {}
  BY <1>1 DEF QueueTypes, PcTypes
<1>9. Range(chan) = {} /\ Range(held) = {} /\ DOMAIN chan = {} /\ DOMAIN held = {}
  BY DEF Range
<1>10. LinkPart
  BY <1>8, <1>9 DEF LinkPart, BegunInv, LinkInv, StartInv, StartsFirst, Starts
<1>11. OrderInv /\ WholeInv
  BY <1>8, <1>9 DEF OrderInv, Gapless, Live, Starts, WholeInv
<1> QED
  BY <1>2, <1>5, <1>6, <1>7, <1>10, <1>11 DEF UploadInv, PhonePart, OrderPart

\* and every step keeps it.
LEMMA UploadNext == UploadInv /\ [Next]_vars => UploadInv'
<1> SUFFICES ASSUME UploadInv, [Next]_vars PROVE UploadInv'
  OBVIOUS
<1>1. \A x \in accepted : Begun(x[1])
  BY DEF UploadInv, OrderPart, LinkPart, BegunInv
<1> QED
  BY <1>1, PhoneNext, OrderNext DEF UploadInv

\* UploadInv is an invariant of the upload.
THEOREM SpecUpload == Spec => []UploadInv
<1> QED
  BY UploadInit, UploadNext, PTL DEF Spec

\* A batch that FileTransfer.tsx shows as completed was sent: Promise.all over the
\* coroutines of sendFiles returns without an abort only when each chunk of each file was
\* accepted by onSendCommand, for every number of coroutines and whatever is paused,
\* cancelled or tried again in between.
THEOREM SpecCompletedMeansSent == Spec => []CompletedMeansSent
<1>1. UploadInv => CompletedMeansSent
  BY DEF UploadInv, SentPart
<1> QED
  BY <1>1, SpecUpload, PTL

\* A file that HandleReceivedFile saves has every chunk of the file that was read, once and
\* in order, but for the mishaps that SavedIsWhole names: the PC appends whatever comes,
\* and what comes is in order because what was accepted has no gap.
THEOREM SpecSavedIsWhole == Spec => []SavedIsWhole
<1>1. UploadInv => SavedIsWhole
  BY DEF UploadInv, OrderPart, WholeInv, Whole, Orderly, SavedIsWhole
<1> QED
  BY <1>1, SpecUpload, PTL
\* The flags that are on or off, and the counters, which different provers handle
Switches ==
    /\ status \in {"none", "active", "paused", "completed", "cancelled", "failed"}
    /\ abort \in BOOLEAN /\ paused \in BOOLEAN /\ hide \in BOOLEAN /\ mounted \in BOOLEAN
    /\ up \in BOOLEAN /\ wire \in BOOLEAN

Counts == faults \in Nat /\ mishaps \subseteq Mishaps

\* Unmount, ReadFails and Break
LEMMA FaultCounts ==
  ASSUME Counts, faults' = faults + 1,
         \E m \in {"unmount", "unread", "break"} : mishaps' = mishaps \cup {m}
  PROVE  Counts'
<1>1. faults' \in Nat
  BY DEF Counts
<1>2. mishaps' \subseteq Mishaps
  BY DEF Counts, Mishaps
<1> QED
  BY <1>1, <1>2 DEF Counts

\* Every step keeps the types of the flags.
LEMMA FlagsNext ==
  ASSUME FlagTypes, [Next]_vars
  PROVE  FlagTypes'
<1> USE DEF phoneVars, linkVars, pcVars
<1> SUFFICES ASSUME Switches, Counts PROVE Switches' /\ Counts'
  BY DEF FlagTypes, Switches, Counts
<1>1. CASE UNCHANGED vars
  BY <1>1 DEF vars, Switches, Counts
<1>2. CASE Refuse \/ HideBatch \/ TogglePause \/ Cancel \/ Unmount
  <2>1. Switches'
    <3>1. CASE Refuse \/ HideBatch
      BY <3>1, Zenon DEF Switches, Refuse, HideBatch
    <3>2. CASE TogglePause
      BY <3>2, Zenon DEF Switches, TogglePause, ResumeIfNeeded
    <3>3. CASE Cancel
      BY <3>3, Zenon DEF Switches, Cancel, ResumeIfNeeded
    <3>4. CASE Unmount
      BY <3>4, Zenon DEF Switches, Unmount
    <3> QED
      BY <1>2, <3>1, <3>2, <3>3, <3>4
  <2>2. Counts'
    <3>1. CASE Refuse \/ HideBatch
      BY <3>1 DEF Counts, Refuse, HideBatch
    <3>2. CASE TogglePause
      BY <3>2 DEF Counts, TogglePause
    <3>3. CASE Cancel
      BY <3>3 DEF Counts, Cancel
    <3>4. CASE Unmount
      BY <3>4, FaultCounts DEF Unmount
    <3> QED
      BY <1>2, <3>1, <3>2, <3>3, <3>4
  <2> QED
    BY <2>1, <2>2
<1>3. ASSUME NEW c \in Coroutines, Steps(c) \/ ReadFails(c)
      PROVE  Switches' /\ Counts'
  <2>1. CASE Take(c) \/ Wake(c)
    <3>1. Switches'
      BY <2>1, Zenon DEF Switches, Take, Wake
    <3>2. Counts'
      BY <2>1 DEF Counts, Take, Wake, Proceed, Mishaps
    <3> QED
      BY <3>1, <3>2
  <2>2. CASE Encoded(c) \/ Retry(c)
    <3>1. Switches'
      BY <2>2, Zenon DEF Switches, Encoded, Retry, Attempt
    <3>2. Counts'
      BY <2>2 DEF Counts, Encoded, Retry, Attempt, Mishaps
    <3> QED
      BY <3>1, <3>2
  <2>3. CASE ChunkSent(c) \/ ReadFails(c)
    <3>1. Switches'
      <4>1. CASE ChunkSent(c)
        BY <4>1, Zenon DEF Switches, ChunkSent, ShowProgress, Show
      <4>2. CASE ReadFails(c)
        BY <4>2, Zenon DEF Switches, ReadFails, Show
      <4> QED
        BY <2>3, <4>1, <4>2
    <3>2. Counts'
      <4>1. CASE ChunkSent(c)
        BY <4>1 DEF Counts, ChunkSent
      <4>2. CASE ReadFails(c)
        BY <4>2, FaultCounts DEF ReadFails
      <4> QED
        BY <2>3, <4>1, <4>2
    <3> QED
      BY <3>1, <3>2
  <2> QED
    BY <1>3, <2>1, <2>2, <2>3 DEF Steps
<1>4. ASSUME NEW files, SendFiles(files) PROVE Switches' /\ Counts'
  <2>1. Switches'
    <3>1. (FirstSized(files, 1) > Len(files)) \in BOOLEAN
      OBVIOUS
    <3> QED
      BY <1>4, <3>1, Zenon DEF Switches, SendFiles
  <2>2. Counts'
    BY <1>4 DEF Counts, SendFiles, Overlaps, Empties, Mishaps
  <2> QED
    BY <2>1, <2>2
<1>5. ASSUME NEW r \in Batches, Join(r) \/ JoinAborted(r) PROVE Switches' /\ Counts'
  <2>1. Switches'
    BY <1>5, Zenon DEF Switches, Join, JoinAborted, ShowProgress, Show
  <2>2. Counts'
    BY <1>5 DEF Counts, Join, JoinAborted
  <2> QED
    BY <2>1, <2>2
<1>6. CASE Break \/ PhoneNotices \/ Reconnect \/ Receive
  <2>1. Switches'
    <3>1. CASE Break
      BY <3>1, Zenon DEF Switches, Break
    <3>2. CASE PhoneNotices
      BY <3>2, Zenon DEF Switches, PhoneNotices
    <3>3. CASE Reconnect
      BY <3>3, Zenon DEF Switches, Reconnect
    <3>4. CASE Receive
      BY <3>4, Zenon DEF Switches, Receive
    <3> QED
      BY <1>6, <3>1, <3>2, <3>3, <3>4
  <2>2. Counts'
    <3>1. CASE Break
      BY <3>1, FaultCounts DEF Break
    <3>2. CASE PhoneNotices
      BY <3>2 DEF Counts, PhoneNotices
    <3>3. CASE Reconnect
      BY <3>3 DEF Counts, Reconnect, Mishaps
    <3>4. CASE Receive
      BY <3>4 DEF Counts, Receive
    <3> QED
      BY <1>6, <3>1, <3>2, <3>3, <3>4
  <2> QED
    BY <2>1, <2>2
<1> QED
  BY <1>1, <1>2, <1>3, <1>4, <1>5, <1>6 DEF Next, User

\* Every variable has its type: the flags of the phone, its batches and coroutines, the
\* messages on the way and the PC's transfers.
THEOREM SpecTypeOK == Spec => []TypeOK
<1> DEFINE I == UploadInv /\ FlagTypes
<1>1. Init => I
  <2>1. Init => Switches
    BY Zenon DEF Init, Switches
  <2>2. Init => Counts
    BY DEF Init, Counts
  <2> QED
    BY <2>1, <2>2, UploadInit DEF FlagTypes, Switches, Counts
<1>2. I /\ [Next]_vars => I'
  BY UploadNext, FlagsNext
<1>3. I => TypeOK
  BY DEF TypeOK, UploadInv, PhonePart, OrderPart, LinkPart
<1> QED
  BY <1>1, <1>2, <1>3, PTL DEF Spec
-----------------------------------------------------------------------------
(* What the PC receives is ended *)

\* What CloseInv promises of one file, and of the files of one batch
ClosedIfLive(f) == Live(f) => ClosedInTime(f)
NoneEmpty(r) == r <= gen => 0 \notin Range(run[r].files)

\* It was calm before.
LEMMA CalmStays == ASSUME Grows, Calm' PROVE Calm
BY DEF Grows, Calm, Spared

\* CloseInv, taken apart
LEMMA CloseIs ==
  ASSUME CloseInv, Calm
  PROVE  /\ wire /\ up
         /\ \A r \in Batches : NoneEmpty(r)
         /\ \A f \in Files : ClosedIfLive(f)
BY DEF CloseInv, NoneEmpty, ClosedIfLive

\* and put together
LEMMA CloseFrom ==
  ASSUME Calm' => /\ wire' /\ up'
                  /\ \A r \in Batches : NoneEmpty(r)'
                  /\ \A f \in Files : ClosedIfLive(f)'
  PROVE  CloseInv'
BY DEF CloseInv, NoneEmpty, ClosedIfLive

\* Who sends nothing ends no file and starts none.
LEMMA StaysClosed ==
  ASSUME CloseInv, Grows, Stays
  PROVE  CloseInv'
<1> SUFFICES ASSUME Calm'
             PROVE  /\ wire' /\ up'
                    /\ \A r \in Batches : NoneEmpty(r)'
                    /\ \A f \in Files : ClosedIfLive(f)'
  BY CloseFrom
<1>1. /\ wire /\ up
      /\ \A r \in Batches : NoneEmpty(r)
      /\ \A f \in Files : ClosedIfLive(f)
  BY CalmStays, CloseIs
<1>2. /\ UNCHANGED <<gen, up, wire, chan, transfers, accepted>>
      /\ \A r \in Batches : /\ run'[r].files = run[r].files /\ run'[r].k = run[r].k
                            /\ run'[r].at = run[r].at
  BY DEF Stays, Calm, Spared
<1>3. ASSUME NEW f \in Files PROVE ClosedIfLive(f)'
  <2>1. f[1] \in Batches /\ ClosedIfLive(f)
    BY <1>1 DEF Files
  <2>2. /\ Live(f)' = Live(f) /\ Closed(f)' = Closed(f) /\ Chunks(f)' = Chunks(f)
        /\ File(f[1])' = File(f[1]) /\ run'[f[1]].at = run[f[1]].at
    BY <1>2, <2>1 DEF Live, Starts, Closed, Chunks, File
  <2> QED
    BY <1>2, <2>1, <2>2 DEF ClosedIfLive, ClosedInTime
<1>4. \A r \in Batches : NoneEmpty(r)'
  BY <1>1, <1>2 DEF NoneEmpty
<1> QED
  BY <1>1, <1>2, <1>3, <1>4

\* The connection does not break while it is calm.
LEMMA LinkCloses ==
  ASSUME CloseInv, Grows, Break \/ PhoneNotices \/ Reconnect
  PROVE  CloseInv'
<1>1. Calm' => Calm
  BY CalmStays
<1>2. Break => ~Calm'
  BY DEF Break, Calm, Spared
<1> QED
  BY <1>1, <1>2 DEF CloseInv, PhoneNotices, Reconnect

\* What the PC reads last of a file makes it forget the file.
LEMMA ReceiveCloses ==
  ASSUME PhonePart, LinkPart, CloseInv, Receive
  PROVE  CloseInv'
<1> DEFINE m == Head(chan)
           f == m.file
<1>1. /\ chan # << >> /\ chan' = Tail(chan) /\ m \in Messages /\ wire
      /\ UNCHANGED <<gen, run, up, wire, held, accepted, mishaps>>
      /\ \A g \in DOMAIN transfers' : g # f => /\ g \in DOMAIN transfers
                                               /\ transfers'[g] = transfers[g]
  BY ReceiveIs
<1>2. \/ m.kind = "file_start"
      \/ /\ m.kind = "file_chunk" /\ (f \notin DOMAIN transfers \/ Chunks(f) = 0)
         /\ transfers' = transfers
      \/ m.kind = "file_chunk" /\ m.last /\ f \notin DOMAIN transfers'
      \/ m.kind = "file_chunk" /\ ~m.last /\ f \in DOMAIN transfers
      \/ m.kind = "file_abort" /\ f \notin DOMAIN transfers'
  BY ReceiveIs
<1>3. /\ chan \in Seq(Messages) /\ Range(chan) = {m} \cup Range(chan')
      /\ \A n \in Range(chan') : n.kind = "file_start" => n.file # f
  BY <1>1, RangeTail, StartsFirstTail DEF LinkPart, QueueTypes, StartInv
<1> HIDE DEF m
<1> SUFFICES ASSUME Calm
             PROVE  /\ wire' /\ up'
                    /\ \A r \in Batches : NoneEmpty(r)'
                    /\ \A g \in Files : ClosedIfLive(g)'
  BY <1>1, CloseFrom DEF Calm, Spared
<1>4. /\ wire /\ up
      /\ \A r \in Batches : NoneEmpty(r)
      /\ \A g \in Files : ClosedIfLive(g)
  BY CloseIs
<1>5. Chunks(f) > 0
  <2>1. Begun(f)
    BY <1>3 DEF LinkPart, BegunInv
  <2>2. Chunks(f) \in Nat /\ f[1] \in Batches /\ f[1] <= gen
    BY <2>1, ChunksNat DEF PhonePart, Begun, Files
  <2>3. Chunks(f) \in Range(run[f[1]].files)
    BY <2>1 DEF Begun, Chunks, Range
  <2> QED
    BY <1>4, <2>2, <2>3 DEF NoneEmpty
<1>6. ASSUME NEW g \in Files, Live(g)' PROVE ClosedInTime(g)'
  <2>1. g = f => m.kind = "file_start" \/ (m.kind = "file_chunk" /\ ~m.last)
    <3>1. g = f => f \in DOMAIN transfers'
      BY <1>3, <1>6 DEF Live, Starts
    <3> QED
      BY <1>2, <1>5, <3>1
  <2>2. Live(g)
    BY <1>1, <1>2, <1>3, <1>5, <1>6, <2>1 DEF Live, Starts
  <2>3. ClosedInTime(g)
    BY <1>4, <2>2 DEF ClosedIfLive
  <2>4. Closed(g) => Closed(g)'
    BY <1>3, <2>1 DEF Closed
  <2>5. Chunks(g)' = Chunks(g) /\ File(g[1])' = File(g[1])
    BY <1>1 DEF Chunks, File
  <2> QED
    BY <1>1, <2>3, <2>4, <2>5 DEF ClosedInTime
<1> QED
  BY <1>1, <1>4, <1>6 DEF NoneEmpty, ClosedIfLive

\* While the connection holds, what is sent is added to the channel.
LEMMA SendCalm ==
  ASSUME LinkPart, CloseInv, Grows, NEW cmds, Commands(cmds), SendStep(cmds), Calm
  PROVE  /\ UNCHANGED <<up, wire, transfers>> /\ wire /\ up
         /\ Range(chan') = Range(chan) \cup Range(cmds)
         /\ \A f : Closed(f) => Closed(f)'
         /\ \A f : Live(f) <=> (Live(f)' /\ ~Starts(cmds, f))
         /\ \A f : Live(f) => Chunks(f)' = Chunks(f)
<1>1. UNCHANGED <<up, wire, transfers>> /\ wire /\ up
  BY CloseIs DEF SendStep
<1>2. chan' = chan \o cmds
  BY <1>1, SendIs DEF SendStep
<1>3. Range(chan') = Range(chan) \cup Range(cmds)
  BY <1>2, RangeCat DEF LinkPart, QueueTypes, Commands
<1>4. \A f : Closed(f) => Closed(f)'
  BY <1>3 DEF Closed
<1>5. \A f : Live(f) => Begun(f)
  BY LiveBegun
<1>6. \A f : Starts(cmds, f) => ~Begun(f)
  BY DEF Commands, Starts
<1>7. \A f : Live(f)' <=> Live(f) \/ Starts(cmds, f)
  BY <1>1, <1>3 DEF Live, Starts
<1> QED
  BY <1>1, <1>3, <1>4, <1>5, <1>6, <1>7, BegunStays
\* The last chunk that is accepted is on its way.
LEMMA TriesCloses ==
  ASSUME PhonePart, LinkPart, CloseInv, NEW c \in Coroutines, Tries(c)
  PROVE  CloseInv'
<1> DEFINE m == ChunkOf(c)
<1>1. /\ Grows /\ Commands(<<m>>) /\ SendStep(<<m>>) /\ Range(<<m>>) = {m}
      /\ m.kind = "file_chunk" /\ m.file = File(c[1]) /\ m.idx = worker[c].idx
  BY TriesSends DEF LinkPart
<1>2. m.last = (m.idx = Chunks(m.file) - 1)
  BY <1>1 DEF ChunkOf, Message, IsLast, Chunks, File, Size
<1>3. /\ UNCHANGED <<gen, run>>
      /\ accepted' = IF up THEN accepted \cup {<<File(c[1]), worker[c].idx>>} ELSE accepted
  BY DEF Tries, Attempt
<1> HIDE DEF m
<1> SUFFICES ASSUME Calm'
             PROVE  /\ wire' /\ up'
                    /\ \A r \in Batches : NoneEmpty(r)'
                    /\ \A g \in Files : ClosedIfLive(g)'
  BY CloseFrom
<1>4. /\ Calm /\ wire /\ up
      /\ \A r \in Batches : NoneEmpty(r)
      /\ \A g \in Files : ClosedIfLive(g)
  BY <1>1, CalmStays, CloseIs
<1>5. /\ UNCHANGED <<up, wire>> /\ m \in Range(chan')
      /\ \A f : Closed(f) => Closed(f)'
      /\ \A f : Live(f) <=> (Live(f)' /\ ~Starts(<<m>>, f))
  BY <1>1, <1>4, SendCalm
<1>6. ASSUME NEW g \in Files, Live(g)' PROVE ClosedInTime(g)'
  <2>1. Live(g)
    BY <1>1, <1>5, <1>6 DEF Starts
  <2>2. ClosedInTime(g)
    BY <1>4, <2>1 DEF ClosedIfLive
  <2>3. Chunks(g)' = Chunks(g) /\ File(g[1])' = File(g[1])
    BY <1>3 DEF Chunks, File
  <2>4. ASSUME <<g, Chunks(g) - 1>> \in accepted', <<g, Chunks(g) - 1>> \notin accepted
        PROVE  Closed(g)'
    <3>1. g = m.file /\ m.idx = Chunks(g) - 1
      BY <1>1, <1>3, <2>4
    <3>2. m.last
      BY <1>2, <3>1
    <3> QED
      BY <1>1, <1>5, <3>1, <3>2 DEF Closed
  <2> QED
    BY <1>3, <1>5, <2>2, <2>3, <2>4 DEF ClosedInTime
<1> QED
  BY <1>3, <1>4, <1>5, <1>6 DEF NoneEmpty, ClosedIfLive

\* The abort is on its way.
LEMMA AbortCloses ==
  ASSUME PhonePart, LinkPart, CloseInv, NEW r \in Batches, JoinAborted(r)
  PROVE  CloseInv'
<1> DEFINE m == Abort(File(r))
<1>1. /\ Grows /\ Commands(<<m>>) /\ SendStep(<<m>>) /\ Range(<<m>>) = {m}
      /\ accepted' = accepted
      /\ run' = [run EXCEPT ![r].at = "over"] /\ UNCHANGED <<gen, mishaps>>
  BY AbortSends DEF LinkPart
<1>2. m.kind = "file_abort" /\ m.file = File(r)
  BY DEF Abort, Message
<1> HIDE DEF m
<1>3. \A s \in Batches : /\ run'[s].files = run[s].files /\ run'[s].k = run[s].k
                         /\ s # r => run'[s] = run[s]
  BY <1>1 DEF PhonePart, PhoneTypes, Runs
<1> SUFFICES ASSUME Calm'
             PROVE  /\ wire' /\ up'
                    /\ \A s \in Batches : NoneEmpty(s)'
                    /\ \A g \in Files : ClosedIfLive(g)'
  BY CloseFrom
<1>4. /\ Calm /\ wire /\ up
      /\ \A s \in Batches : NoneEmpty(s)
      /\ \A g \in Files : ClosedIfLive(g)
  BY <1>1, CalmStays, CloseIs
<1>5. /\ UNCHANGED <<up, wire>> /\ m \in Range(chan')
      /\ \A f : Closed(f) => Closed(f)'
      /\ \A f : Live(f) <=> (Live(f)' /\ ~Starts(<<m>>, f))
  BY <1>1, <1>4, SendCalm
<1>6. ASSUME NEW g \in Files, Live(g)' PROVE ClosedInTime(g)'
  <2>1. Live(g) /\ g[1] \in Batches
    BY <1>1, <1>2, <1>5, <1>6 DEF Starts, Files
  <2>2. ClosedInTime(g)
    BY <1>4, <2>1 DEF ClosedIfLive
  <2>3. Chunks(g)' = Chunks(g) /\ File(g[1])' = File(g[1])
    BY <1>3, <2>1 DEF Chunks, File
  <2>4. g = File(g[1]) /\ g[1] = r => Closed(g)'
    BY <1>2, <1>5 DEF Closed
  <2>5. g[1] # r => run'[g[1]] = run[g[1]]
    BY <1>3, <2>1
  <2> QED
    BY <1>1, <1>5, <2>2, <2>3, <2>4, <2>5 DEF ClosedInTime
<1>7. \A s \in Batches : NoneEmpty(s)'
  BY <1>1, <1>3, <1>4 DEF NoneEmpty
<1> QED
  BY <1>4, <1>5, <1>6, <1>7 DEF ClosedIfLive

\* The file before was sent to its last chunk, and the next one is under way.
LEMMA OpensCloses ==
  ASSUME PhonePart, SentPart, LinkPart, CloseInv,
         NEW r \in Batches, NEW files, NEW k, Opens(r, files, k)
  PROVE  CloseInv'
<1> DEFINE o == Opening(r, files, k)
           first == FirstSized(files, k)
<1>1. /\ files \in Seq(Nat) /\ k \in 1 .. Len(files) + 1 /\ k \in Nat /\ Len(files) \in Nat
      /\ first \in k .. Len(files) + 1 /\ first \in Nat
      /\ \A i \in k .. first - 1 : files[i] = 0
  BY FirstSizedIs DEF Opens
<1>2. \A i \in DOMAIN o : /\ o[i].file[1] = r /\ o[i].file[2] \in k .. first
                          /\ o[i].file[2] \in DOMAIN files
  BY <1>1, OpeningIs
<1> HIDE DEF first
<1>3. /\ run' \in [Batches -> Runs] /\ worker' \in [Coroutines -> Workers]
      /\ run'[r].files = files /\ run'[r].k = first /\ run'[r].next = 0
      /\ run'[r].at = IF first <= Len(files) THEN "sending" ELSE "over"
      /\ \A s \in Batches : s # r => run'[s] = run[s]
      /\ \A c \in Coroutines :
              \/ worker'[c] = worker[c]
              \/ c[1] = r /\ first <= Len(files) /\ worker'[c].at = "loop"
      /\ first <= Len(files) => worker'[<<r, 1>>].at = "loop"
  <2>1. files \in Seq(Nat) /\ k \in 1 .. Len(files) + 1 /\ GoOn(r, files, k)
    BY DEF Opens
  <2> QED
    BY <2>1, GoOnIs DEF first
<1>4. Grows /\ Commands(o) /\ SendStep(o) /\ accepted' = accepted
  BY OpensSends DEF LinkPart
<1> HIDE DEF o
<1>5. /\ \/ r = gen + 1 /\ gen' = r /\ ("empty" \in mishaps' \/ Empties(files) = {})
         \/ /\ r <= gen /\ gen' = gen /\ Joined(r) /\ ~abort
            /\ files = run[r].files /\ mishaps' = mishaps
  BY DEF Opens, Empties
<1> SUFFICES ASSUME Calm'
             PROVE  /\ wire' /\ up'
                    /\ \A s \in Batches : NoneEmpty(s)'
                    /\ \A g \in Files : ClosedIfLive(g)'
  BY CloseFrom
<1>6. /\ Calm /\ wire /\ up
      /\ \A s \in Batches : NoneEmpty(s)
      /\ \A g \in Files : ClosedIfLive(g)
  BY <1>4, CalmStays, CloseIs
<1>7. /\ UNCHANGED <<up, wire>>
      /\ \A f : Closed(f) => Closed(f)'
      /\ \A f : Live(f) <=> (Live(f)' /\ ~Starts(o, f))
      /\ \A f : Live(f) => Chunks(f)' = Chunks(f)
  BY <1>4, <1>6, SendCalm
<1>8. 0 \notin Range(files)
  <2>1. CASE r = gen + 1 /\ ("empty" \in mishaps' \/ Empties(files) = {})
    BY <2>1 DEF Calm, Spared, Empties
  <2>2. CASE r <= gen /\ files = run[r].files
    BY <1>6, <2>2 DEF NoneEmpty
  <2> QED
    BY <1>5, <2>1, <2>2
<1>9. first = k
  <2>1. \A i \in 1 .. Len(files) : files[i] # 0
    BY <1>1, <1>8 DEF Range
  <2>2. first > k => k \in k .. first - 1 /\ k \in 1 .. Len(files)
    BY <1>1
  <2>3. ~(first > k)
    BY <1>1, <2>1, <2>2
  <2> QED
    BY <1>1, <2>3
<1>10. ASSUME NEW s \in Batches PROVE NoneEmpty(s)'
  <2>1. CASE s = r
    BY <1>3, <1>8, <2>1 DEF NoneEmpty
  <2>2. CASE s # r
    <3>1. s <= gen' => s <= gen
      BY <1>5, <2>2, Bounds DEF PhonePart, PhoneTypes, Batches
    <3> QED
      BY <1>3, <1>6, <2>2, <3>1 DEF NoneEmpty
  <2> QED
    BY <2>1, <2>2
<1>11. ASSUME NEW g \in Files, Starts(o, g) PROVE ClosedInTime(g)'
  <2>1. PICK m \in Range(o) : m.kind = "file_start" /\ m.file = g
    BY <1>11 DEF Starts
  <2>2. g[1] = r /\ g[2] \in k .. first /\ g[2] \in DOMAIN files
    BY <1>2, <2>1 DEF Range
  <2>3. g = <<r, k>> /\ first <= Len(files)
    BY <1>1, <1>9, <2>2 DEF Files
  <2>4. g = File(g[1])' /\ run'[g[1]].at = "sending"
    BY <1>3, <1>9, <2>2, <2>3 DEF File
  <2>5. \A i : <<g, i>> \notin accepted
    <3>1. ~Begun(g)
      BY <1>4, <2>1 DEF Commands
    <3>2. \A x \in accepted : Begun(x[1])
      BY DEF LinkPart, BegunInv
    <3>3. \A i : <<g, i>>[1] = g
      OBVIOUS
    <3> QED
      BY <3>1, <3>2, <3>3
  <2> QED
    BY <1>4, <2>4, <2>5 DEF ClosedInTime
<1>12. ASSUME NEW g \in Files, Live(g) PROVE ClosedInTime(g)'
  <2>1. ClosedInTime(g) /\ Chunks(g)' = Chunks(g) /\ g[1] \in Batches
    BY <1>6, <1>7, <1>12 DEF ClosedIfLive, Files
  <2>2. CASE g[1] # r
    <3>1. run'[g[1]] = run[g[1]]
      BY <1>3, <2>1, <2>2
    <3> QED
      BY <1>4, <1>7, <2>1, <3>1 DEF ClosedInTime, File
  <2>3. CASE g[1] = r
    <3>1. ASSUME g = File(r), run[r].at = "sending" PROVE Closed(g)
      <4>1. Joined(r) /\ ~abort
        <5>1. run[r] # NoRun
          BY <3>1 DEF NoRun
        <5>2. ~(r = gen + 1)
          BY <5>1, Bounds DEF PhonePart, PhoneTypes, RunInv, Batches
        <5> QED
          BY <1>5, <5>2
      <4>2. AllSent(<<r, run[r].k>>) /\ run[r].k \in DOMAIN run[r].files /\ run[r] \in Runs
        <5>1. \A j \in 1 .. run[r].k : AllSent(<<r, j>>)
          BY <1>6, <4>1, JoinSent DEF Calm, Spared
        <5>2. run[r].k \in DOMAIN run[r].files /\ run[r] \in Runs
          BY <3>1 DEF PhonePart, PhoneTypes, RunInv, Working
        <5> QED
          BY <5>1, <5>2 DEF Runs
      <4>3. Chunks(g) > 0 /\ Chunks(g) \in Nat
        BY <3>1, <4>2 DEF Chunks, File, Runs, PhonePart, RunInv, Working, Size
      <4>4. <<g, Chunks(g) - 1>> \in accepted
        BY <3>1, <4>2, <4>3 DEF AllSent, File
      <4> QED
        BY <2>1, <4>4 DEF ClosedInTime
    <3>2. Closed(g)
      BY <2>1, <2>3, <3>1 DEF ClosedInTime
    <3> QED
      BY <1>7, <3>2 DEF ClosedInTime
  <2> QED
    BY <2>2, <2>3
<1> QED
  BY <1>6, <1>7, <1>10, <1>11, <1>12 DEF ClosedIfLive

\* Every step keeps it,
LEMMA CloseNext ==
  ASSUME PhonePart, SentPart, LinkPart, CloseInv, [Next]_vars
  PROVE  CloseInv'
<1>1. CASE \/ UNCHANGED vars
           \/ Refuse \/ HideBatch \/ TogglePause \/ Cancel \/ Unmount
           \/ \E c \in Coroutines : Easy(c)
           \/ \E c \in Coroutines : TakesNext(c)
  <2>1. Stays /\ Grows
    BY <1>1, StayingSteps
  <2> QED
    BY <2>1, StaysClosed
<1>2. CASE \E c \in Coroutines : Tries(c)
  BY <1>2, TriesCloses
<1>3. CASE \E r \in Batches, files \in Seq(Nat), k \in Nat : Opens(r, files, k)
  BY <1>3, OpensCloses
<1>4. CASE \E r \in Batches : JoinAborted(r)
  BY <1>4, AbortCloses
<1>5. CASE Break \/ PhoneNotices \/ Reconnect
  <2>1. Grows
    BY <1>5, ReceivingGrows
  <2> QED
    BY <1>5, <2>1, LinkCloses
<1>6. CASE Receive
  BY <1>6, ReceiveCloses
<1> QED
  BY <1>1, <1>2, <1>3, <1>4, <1>5, <1>6, StepKinds

\* and it holds at first.
LEMMA CloseInit == ASSUME Init PROVE CloseInv
<1>1. DOMAIN transfers = {} /\ Range(chan) = {}
  BY DEF Init, Range
<1>2. \A f : ~Live(f)
  BY <1>1 DEF Live, Starts
<1>3. \A r \in Batches : ~(r <= gen)
  BY DEF Init, Batches
<1> QED
  BY <1>2, <1>3 DEF Init, CloseInv

\* Once the phone has finished, _fileTransfers of the PC is empty, but for the mishaps that
\* NothingLeftOver names: each file_start is followed by a last chunk or a file_abort.
THEOREM SpecNothingLeftOver == Spec => []NothingLeftOver
<1> DEFINE I == UploadInv /\ CloseInv
<1>1. Init => I
  BY UploadInit, CloseInit
<1>2. I /\ [Next]_vars => I'
  BY UploadNext, CloseNext DEF UploadInv, OrderPart
<1>3. I => NothingLeftOver
  <2> SUFFICES ASSUME UploadInv, CloseInv, Quiet, Calm, NEW f \in DOMAIN transfers
               PROVE  FALSE
    BY DEF NothingLeftOver, Calm
  <2>1. f \in Files /\ f[1] \in Batches
    BY DEF UploadInv, OrderPart, LinkPart, PcTypes, Files
  <2>2. ClosedInTime(f)
    BY <2>1, CloseIs DEF ClosedIfLive, Live
  <2>3. ~Closed(f)
    BY DEF Quiet, Closed, Range
  <2> QED
    BY <2>1, <2>2, <2>3 DEF ClosedInTime, Quiet, Working
<1> QED
  BY <1>1, <1>2, <1>3, PTL DEF Spec

-----------------------------------------------------------------------------
(* Downloads: the invariants *)

DownFiles == Down!Batches \X (Nat \ {0})
DownStates == {"none", "next", "read", "waiting", "end", "over", "failed"}
DownRuns == [at : DownStates, files : Seq(Nat), k : Nat, idx : Nat]
DownMessages == [kind : {"file_start", "file_chunk", "file_abort"}, file : DownFiles,
                 idx : Nat, last : BOOLEAN]

DownTypeOK ==
    /\ dRun \in [Down!Batches -> DownRuns] /\ dGen \in 0 .. Len(Offered)
    /\ active \in DownFiles \cup {Down!NoFile}
    /\ cancelled \in BOOLEAN /\ dUp \in BOOLEAN /\ gone \in BOOLEAN
    /\ dChan \in Seq(DownMessages)
    /\ incoming \in [DOMAIN incoming -> SUBSET Nat] /\ DOMAIN incoming \subseteq DownFiles
    /\ aborted \subseteq DownFiles
    /\ downloads \subseteq [file : DownFiles, chunks : SUBSET Nat]

\* A batch that has not started is at no file; one that reads, waits or ends is at one,
\* and has not read all of it before it ends.
DownRunInv ==
    \A b \in Down!Batches :
        /\ dRun[b].k \in 0 .. Len(Down!Files(b))
        /\ b > dGen => dRun[b].at = "none" /\ dRun[b].k = 0
        /\ b <= dGen => dRun[b].at # "none"
        /\ dRun[b].at = "next" => dRun[b].k < Len(Down!Files(b))
        /\ dRun[b].at \in {"read", "waiting", "end"} => dRun[b].k > 0
        /\ dRun[b].at \in {"read", "waiting"} => dRun[b].idx = 0 \/ dRun[b].idx < Down!Size(b)

\* The files that the PC has announced
Announced == {f \in DownFiles : f[1] <= dGen /\ f[2] <= dRun[f[1]].k}

\* Whatever names a file came after its announcement.
AnnouncedInv ==
    /\ \A n \in DOMAIN dChan : dChan[n].file \in Announced
    /\ \A n \in DOMAIN dChan : dChan[n].last => dChan[n].kind = "file_chunk"
    /\ DOMAIN incoming \cup aborted \subseteq Announced
    /\ \A d \in downloads : d.file \in Announced
    /\ active # Down!NoFile => active \in Announced

\* What was on its way when the connection broke is lost, and nothing follows it: when
\* the phone is back, the PC has cancelled what it sent.
DownLinkInv == (gone => ~dUp) /\ (~dUp => dChan = <<>> /\ (gone \/ cancelled))

\* The files that the PC is in the middle of
Open == {f \in DownFiles : dRun[f[1]].at \in {"read", "waiting"} /\ dRun[f[1]].k = f[2]}

\* The files whose reading has failed, and with them those that the PC is in the middle of
Lost == {f \in DownFiles : dRun[f[1]].at = "failed" /\ dRun[f[1]].k = f[2]}
Reached == {f \in DownFiles :
    dRun[f[1]].at \in {"read", "waiting", "failed"} /\ dRun[f[1]].k = f[2]}

\* The end of the file comes, in a message, the n-th or a later one, or from the PC, unless
\* it could not read the file.
EndComes(f, n) ==
    \/ f \in Reached
    \/ \E i \in DOMAIN dChan : /\ i >= n /\ dChan[i].file = f
                               /\ dChan[i].kind = "file_abort" \/ dChan[i].last

KeptInv ==
    dUp => /\ \A f \in DOMAIN incoming : EndComes(f, 1)
           /\ \A n \in DOMAIN dChan : EndComes(dChan[n].file, n)

\* Nothing follows the abort of a file but another one.
AbortedInv ==
    Down!Spared({"late", "overlap"}) =>
        /\ \A i, j \in DOMAIN dChan :
              i < j /\ dChan[i].kind = "file_abort" /\ dChan[j].file = dChan[i].file
              => dChan[j].kind = "file_abort"
        /\ \A j \in DOMAIN dChan : dChan[j].kind # "file_abort" => dChan[j].file \notin aborted
        /\ \A j \in DOMAIN dChan :
              dChan[j].kind = "file_abort" /\ dChan[j].file \in Open => cancelled
        /\ \A f \in aborted : f \in Open => cancelled

Before(f, g) == f[1] < g[1] \/ (f[1] = g[1] /\ f[2] < g[2])

\* One batch at a time: the messages come in the order of the files.
DownOrderInv ==
    Down!Spared({"overlap"}) =>
        /\ \A b \in Down!Batches : b < dGen => dRun[b].at \in {"over", "failed"}
        /\ active # Down!NoFile => active[1] = dGen /\ active[2] = dRun[dGen].k
        /\ \A i, j \in DOMAIN dChan : i < j => ~Before(dChan[j].file, dChan[i].file)
        /\ \A f \in DOMAIN incoming, j \in DOMAIN dChan : ~Before(dChan[j].file, f)

\* Before the n-th message the phone has the start of the file, or the chunk.
HasStart(f, n) ==
    \/ f \in DOMAIN incoming
    \/ \E j \in DOMAIN dChan : j < n /\ dChan[j].kind = "file_start" /\ dChan[j].file = f

HasChunk(f, i, n) ==
    \/ f \in DOMAIN incoming /\ i \in incoming[f]
    \/ \E j \in DOMAIN dChan :
          j < n /\ dChan[j].kind = "file_chunk" /\ dChan[j].file = f /\ dChan[j].idx = i

\* A chunk comes after the start of the file and all the chunks before it, and nothing
\* in between makes the phone forget them.
ChunksInv ==
    Down!Spared({"late", "overlap", "cleanup"}) =>
        /\ \A n \in DOMAIN dChan :
              dChan[n].kind = "file_chunk" =>
                   /\ HasStart(dChan[n].file, n)
                   /\ \A i \in 0 .. dChan[n].idx - 1 : HasChunk(dChan[n].file, i, n)
        /\ \A n \in DOMAIN dChan :
              dChan[n].last => /\ dChan[n].file \notin Open
                               /\ dChan[n].idx + 1 >= Down!Chunks(dChan[n].file)
        /\ \A n, m \in DOMAIN dChan :
              n < m /\ dChan[n].last /\ dChan[m].file = dChan[n].file
              => dChan[m].kind = "file_abort"
        /\ \A n \in DOMAIN dChan :
              dChan[n].kind = "file_start" =>
                   /\ dChan[n].file \notin DOMAIN incoming
                   /\ \A m \in DOMAIN dChan : m < n => dChan[m].file # dChan[n].file
        /\ \A b \in Down!Batches :
              dRun[b].at \in {"read", "waiting"} /\ dUp /\ ~cancelled =>
                   /\ HasStart(Down!File(b), Len(dChan) + 1)
                   /\ \A i \in 0 .. dRun[b].idx - 1 : HasChunk(Down!File(b), i, Len(dChan) + 1)

\* What is being received is shown as such, but for what could not be read.
ShownInv ==
    Down!Spared({"late", "overlap", "cleanup"}) =>
        \A f \in DOMAIN incoming \ Lost :
            /\ batch.status = "active" /\ ~dHide
            /\ f \in DOMAIN batch.files /\ batch.files[f] = "active"

DownInv ==
    /\ DownTypeOK /\ DownRunInv /\ AnnouncedInv /\ DownLinkInv /\ KeptInv /\ AbortedInv
    /\ DownOrderInv /\ ChunksInv /\ ShownInv /\ DownloadsAreWhole
-----------------------------------------------------------------------------
(* Downloads: what the steps do *)

\* Of the batches only b moves, and it keeps its files.
Only(b) ==
    /\ dRun' \in [Down!Batches -> DownRuns] /\ dRun'[b].files = dRun[b].files
    /\ \A c \in Down!Batches : c # b => dRun'[c] = dRun[c]

Keeps == UNCHANGED <<dGen, cancelled, gone, dUp, incoming, batch, dHide, downloads, aborted>>

Posts(kind, f, idx, last) ==
    dUp /\ dChan' = Append(dChan, Down!Message(kind, f, idx, last))

Announces(b) ==
    /\ Only(b) /\ Keeps /\ UNCHANGED dMishaps
    /\ dRun[b].at = "next" /\ dRun'[b].at = "read" /\ dRun'[b].idx = 0
    /\ dRun'[b].k = dRun[b].k + 1 /\ active' = <<b, dRun[b].k + 1>>
    /\ Posts("file_start", <<b, dRun[b].k + 1>>, 0, FALSE)

SendsChunk(b) ==
    /\ Only(b) /\ Keeps /\ UNCHANGED active /\ dMishaps \subseteq dMishaps'
    /\ dRun[b].at \in {"read", "waiting"} /\ dRun'[b].k = dRun[b].k
    /\ dRun'[b].idx = dRun[b].idx + 1
    /\ dRun'[b].at = (IF Down!IsLast(b) THEN "end" ELSE "read")
    /\ cancelled => "late" \in dMishaps'
    /\ Posts("file_chunk", Down!File(b), dRun[b].idx, Down!IsLast(b))

SendsAbort(b) ==
    /\ Only(b) /\ Keeps /\ UNCHANGED <<active, dMishaps>> /\ cancelled
    /\ dRun[b].at = "read" /\ dRun'[b].at = "over" /\ dRun'[b].k = dRun[b].k
    /\ Posts("file_abort", Down!File(b), 0, FALSE)

\* It could not send.
Fails(b) ==
    /\ Only(b) /\ Keeps /\ UNCHANGED dChan /\ dMishaps \subseteq dMishaps' /\ ~dUp
    /\ dRun'[b].at = "over"
    /\ \/ /\ dRun[b].at = "next" /\ dRun'[b].k = dRun[b].k + 1
          /\ active' = <<b, dRun[b].k + 1>>
       \/ /\ dRun[b].at \in {"read", "waiting"} /\ dRun'[b].k = dRun[b].k /\ UNCHANGED active

Waits(b) ==
    /\ Only(b) /\ Keeps /\ UNCHANGED <<active, dChan, dMishaps>>
    /\ dRun[b].at = "read" /\ dRun'[b].at = "waiting"
    /\ dRun'[b].k = dRun[b].k /\ dRun'[b].idx = dRun[b].idx

Ends(b) ==
    /\ Only(b) /\ Keeps /\ UNCHANGED <<dChan, dMishaps>> /\ active' = Down!NoFile
    /\ dRun[b].at = "end" /\ dRun'[b].at \in {"next", "over"} /\ dRun'[b].k = dRun[b].k
    /\ dRun'[b].at = "next" => dRun[b].k < Len(Down!Files(b))

\* The catch: of a file that it has not announced, or of the one that it reads.
Breaks(b) ==
    /\ Only(b) /\ Keeps /\ UNCHANGED <<dChan, dMishaps>> /\ active' = Down!NoFile
    /\ dRun'[b].k = dRun[b].k
    /\ \/ dRun[b].at = "next" /\ dRun'[b].at = "over"
       \/ dRun[b].at = "read" /\ dRun'[b].at = "failed"

Begins(files) ==
    /\ dUp /\ dGen < Len(Offered) /\ dGen' = dGen + 1 /\ files # <<>>
    /\ cancelled' = FALSE /\ dRun' \in [Down!Batches -> DownRuns]
    /\ dRun'[dGen + 1] = [at |-> "next", files |-> files, k |-> 0, idx |-> 0]
    /\ \A c \in Down!Batches : c # dGen + 1 => dRun'[c] = dRun[c]
    /\ active' = Down!NoFile /\ dMishaps \subseteq dMishaps'
    /\ "overlap" \notin dMishaps' => \A c \in Down!Batches : dRun[c].at \in Down!Ended
    /\ UNCHANGED <<dChan, gone, dUp, incoming, batch, dHide, downloads, aborted>>

Cancels ==
    /\ cancelled' = TRUE
    /\ UNCHANGED <<dRun, dGen, active, gone, dUp, incoming, batch, dHide, downloads, aborted,
                   dMishaps>>
    /\ \/ active # Down!NoFile /\ Posts("file_abort", active, 0, FALSE)
       \/ UNCHANGED dChan

Rests ==
    UNCHANGED <<dRun, dGen, cancelled, active, gone, dUp, dChan, incoming, batch, dHide,
                downloads, aborted, dMishaps>>

LEMMA OnlyOneMoves ==
    ASSUME dRun \in [Down!Batches -> DownRuns], NEW b \in Down!Batches, NEW s \in DownStates,
           NEW k \in Nat, NEW i \in Nat,
           dRun' = [dRun EXCEPT ![b] = [at |-> s, files |-> dRun[b].files, k |-> k, idx |-> i]]
    PROVE  Only(b) /\ dRun'[b].at = s /\ dRun'[b].k = k /\ dRun'[b].idx = i
BY DEF Only, DownRuns

LEMMA RunFields ==
    ASSUME NEW b \in Down!Batches, dRun \in [Down!Batches -> DownRuns]
    PROVE  /\ dRun[b] = [at |-> dRun[b].at, files |-> dRun[b].files, k |-> dRun[b].k,
                         idx |-> dRun[b].idx]
           /\ dRun[b].at \in DownStates /\ dRun[b].files \in Seq(Nat)
           /\ dRun[b].k \in Nat /\ dRun[b].idx \in Nat
BY DEF DownRuns

LEMMA StartFileDoes ==
    ASSUME DownTypeOK, NEW b \in Down!Batches, Down!StartFile(b)
    PROVE  Announces(b) \/ Fails(b)
<1>1. dRun \in [Down!Batches -> DownRuns] /\ dRun[b].k + 1 \in Nat /\ 0 \in Nat
  BY RunFields DEF DownTypeOK
<1> DEFINE s == IF dUp THEN "read" ELSE "over"
<1>2. dRun' = [dRun EXCEPT ![b] = [at |-> s, files |-> dRun[b].files, k |-> dRun[b].k + 1,
                                   idx |-> 0]]
  BY <1>1, RunFields DEF Down!StartFile
<1>3. s \in DownStates
  BY DEF DownStates
<1> HIDE DEF s
<1>4. Only(b) /\ dRun'[b].at = s /\ dRun'[b].k = dRun[b].k + 1 /\ dRun'[b].idx = 0
  BY <1>1, <1>2, <1>3, OnlyOneMoves
<1>5. /\ dRun[b].at = "next" /\ active' = <<b, dRun[b].k + 1>> /\ UNCHANGED dMishaps /\ Keeps
      /\ Down!Send(Down!Message("file_start", <<b, dRun[b].k + 1>>, 0, FALSE))
  BY DEF Down!StartFile, Keeps, Down!pcRest, Down!phoneVars
<1> QED
  BY <1>4, <1>5 DEF Down!Send, Posts, Announces, Fails, s

LEMMA SendChunkDoes ==
    ASSUME DownTypeOK, NEW b \in Down!Batches, Down!SendChunk(b), Keeps, UNCHANGED active,
           dRun[b].at \in {"read", "waiting"}, dMishaps \subseteq dMishaps',
           cancelled => "late" \in dMishaps'
    PROVE  SendsChunk(b) \/ Fails(b)
<1>1. /\ dRun \in [Down!Batches -> DownRuns] /\ dRun[b].k \in Nat /\ dRun[b].idx \in Nat
      /\ dRun[b].idx + 1 \in Nat
  BY RunFields DEF DownTypeOK
<1>2. CASE ~dUp
  <2>1. dRun' = [dRun EXCEPT ![b] = [at |-> "over", files |-> dRun[b].files, k |-> dRun[b].k,
                                     idx |-> dRun[b].idx]]
    BY <1>1, <1>2, RunFields DEF Down!SendChunk
  <2>2. Only(b) /\ dRun'[b].at = "over" /\ dRun'[b].k = dRun[b].k
    BY <1>1, <2>1, OnlyOneMoves DEF DownStates
  <2> QED
    BY <1>2, <2>2 DEF Fails, Down!SendChunk, Down!Send
<1>3. CASE dUp
  <2> DEFINE s == IF Down!IsLast(b) THEN "end" ELSE "read"
  <2>1. dRun' = [dRun EXCEPT ![b] = [at |-> s, files |-> dRun[b].files, k |-> dRun[b].k,
                                     idx |-> dRun[b].idx + 1]]
    BY <1>1, <1>3, RunFields DEF Down!SendChunk
  <2>2. s \in DownStates
    BY DEF DownStates
  <2>3. /\ Only(b) /\ dRun'[b].at = s /\ dRun'[b].k = dRun[b].k
        /\ dRun'[b].idx = dRun[b].idx + 1
    <3> HIDE DEF s
    <3> QED
      BY <1>1, <2>1, <2>2, OnlyOneMoves
  <2> QED
    BY <1>3, <2>3 DEF SendsChunk, Down!SendChunk, Down!Send, Posts
<1> QED
  BY <1>2, <1>3

LEMMA ReadDoes ==
    ASSUME DownTypeOK, NEW b \in Down!Batches, Down!Read(b)
    PROVE  SendsChunk(b) \/ SendsAbort(b) \/ Waits(b) \/ Fails(b)
<1>1. dRun \in [Down!Batches -> DownRuns] /\ dRun[b].k \in Nat /\ dRun[b].idx \in Nat
  BY RunFields DEF DownTypeOK
<1>2. Keeps /\ UNCHANGED <<active, dMishaps>> /\ dRun[b].at = "read"
  BY DEF Down!Read, Keeps, Down!pcRest, Down!phoneVars
<1>3. CASE cancelled
  <2>1. dRun' = [dRun EXCEPT ![b] = [at |-> "over", files |-> dRun[b].files, k |-> dRun[b].k,
                                     idx |-> dRun[b].idx]]
    BY <1>1, <1>3, RunFields DEF Down!Read
  <2>2. Only(b) /\ dRun'[b].at = "over" /\ dRun'[b].k = dRun[b].k
    BY <1>1, <2>1, OnlyOneMoves DEF DownStates
  <2>3. Down!Send(Down!Message("file_abort", Down!File(b), 0, FALSE))
    BY <1>3 DEF Down!Read
  <2> QED
    BY <1>2, <1>3, <2>2, <2>3 DEF Down!Send, Posts, SendsAbort, Fails
<1>4. CASE ~cancelled /\ dPaused /\ Down!Size(b) > 0
  <2>1. dRun' = [dRun EXCEPT ![b] = [at |-> "waiting", files |-> dRun[b].files,
                                     k |-> dRun[b].k, idx |-> dRun[b].idx]]
    BY <1>1, <1>4, RunFields DEF Down!Read
  <2>2. /\ Only(b) /\ dRun'[b].at = "waiting" /\ dRun'[b].k = dRun[b].k
        /\ dRun'[b].idx = dRun[b].idx
    BY <1>1, <2>1, OnlyOneMoves DEF DownStates
  <2> QED
    BY <1>2, <1>4, <2>2 DEF Down!Read, Waits
<1>5. CASE ~cancelled /\ ~(dPaused /\ Down!Size(b) > 0)
  <2>1. Down!SendChunk(b)
    BY <1>5 DEF Down!Read
  <2> QED
    BY <1>2, <1>5, <2>1, SendChunkDoes
<1> QED
  BY <1>3, <1>4, <1>5

LEMMA ResumedDoes ==
    ASSUME DownTypeOK, NEW b \in Down!Batches, Down!Resumed(b)
    PROVE  SendsChunk(b) \/ Fails(b)
<1>1. /\ Down!SendChunk(b) /\ Keeps /\ UNCHANGED active /\ dRun[b].at = "waiting"
      /\ dMishaps \subseteq dMishaps' /\ (cancelled => "late" \in dMishaps')
  BY DEF Down!Resumed, Keeps, Down!pcRest, Down!phoneVars
<1> QED
  BY <1>1, SendChunkDoes

LEMMA AtAlone ==
    ASSUME NEW b \in Down!Batches, dRun \in [Down!Batches -> DownRuns], NEW s
    PROVE  [dRun EXCEPT ![b].at = s] =
           [dRun EXCEPT ![b] = [at |-> s, files |-> dRun[b].files, k |-> dRun[b].k,
                                idx |-> dRun[b].idx]]
<1>1. [dRun[b] EXCEPT !.at = s] =
      [at |-> s, files |-> dRun[b].files, k |-> dRun[b].k, idx |-> dRun[b].idx]
  BY DEF DownRuns
<1> QED
  BY <1>1

LEMMA EndFileDoes ==
    ASSUME DownTypeOK, NEW b \in Down!Batches, Down!EndFile(b)
    PROVE  Ends(b)
<1>1. dRun \in [Down!Batches -> DownRuns] /\ dRun[b].k \in Nat /\ dRun[b].idx \in Nat
  BY RunFields DEF DownTypeOK
<1> DEFINE s == IF dRun[b].k < Len(Down!Files(b)) THEN "next" ELSE "over"
<1>2. dRun' = [dRun EXCEPT ![b].at = s]
  BY DEF Down!EndFile
<1>3. s \in DownStates
  BY DEF DownStates
<1>4. Only(b) /\ dRun'[b].at = s /\ dRun'[b].k = dRun[b].k
  <2> HIDE DEF s
  <2>1. dRun' = [dRun EXCEPT ![b] = [at |-> s, files |-> dRun[b].files, k |-> dRun[b].k,
                                     idx |-> dRun[b].idx]]
    BY <1>1, <1>2, AtAlone
  <2> QED
    BY <1>1, <1>3, <2>1, OnlyOneMoves
<1>5. /\ dRun[b].at = "end" /\ Keeps /\ UNCHANGED <<dChan, dMishaps>> /\ active' = Down!NoFile
  BY DEF Down!EndFile, Keeps, Down!pcRest, Down!phoneVars
<1> QED
  BY <1>4, <1>5 DEF Ends

LEMMA ReadFailsDoes ==
    ASSUME DownTypeOK, NEW b \in Down!Batches, Down!ReadFails(b)
    PROVE  Breaks(b)
<1>1. dRun \in [Down!Batches -> DownRuns] /\ dRun[b].k \in Nat /\ dRun[b].idx \in Nat
  BY RunFields DEF DownTypeOK
<1>2. ASSUME NEW s \in {"over", "failed"}, dRun' = [dRun EXCEPT ![b].at = s]
      PROVE  Only(b) /\ dRun'[b].at = s /\ dRun'[b].k = dRun[b].k
  <2>1. dRun' = [dRun EXCEPT ![b] = [at |-> s, files |-> dRun[b].files, k |-> dRun[b].k,
                                     idx |-> dRun[b].idx]]
    BY <1>1, <1>2, AtAlone
  <2>2. s \in DownStates
    BY <1>2 DEF DownStates
  <2> QED
    BY <1>1, <2>1, <2>2, OnlyOneMoves
<1>3. Keeps /\ UNCHANGED <<dChan, dMishaps>> /\ active' = Down!NoFile
  BY DEF Down!ReadFails, Keeps, Down!pcRest, Down!phoneVars
<1>4. CASE dRun[b].at = "next" /\ dRun' = [dRun EXCEPT ![b].at = "over"]
  BY <1>2, <1>3, <1>4 DEF Breaks
<1>5. CASE dRun[b].at = "read" /\ dRun' = [dRun EXCEPT ![b].at = "failed"]
  BY <1>2, <1>3, <1>5 DEF Breaks
<1> QED
  BY <1>4, <1>5 DEF Down!ReadFails

LEMMA SendFilesDoes ==
    ASSUME DownTypeOK, dGen < Len(Offered), NEW files \in Offered[dGen + 1],
           Down!SendFiles(files)
    PROVE  Begins(files)
<1>1. /\ Len(Offered) \in Nat /\ dGen \in Nat /\ dGen + 1 \in Down!Batches
      /\ files \in Seq(Nat)
  <2>1. Len(Offered) \in Nat /\ dGen \in Nat /\ dGen + 1 \in 1 .. Len(Offered)
    BY FileTransferAssumption, LenProperties DEF DownTypeOK
  <2>2. Offered[dGen + 1] \in SUBSET Seq(Nat)
    BY <2>1, FileTransferAssumption, ElementOfSeq
  <2> QED
    BY <2>1, <2>2 DEF Down!Batches
<1>2. dRun' = [dRun EXCEPT ![dGen + 1] = [at |-> "next", files |-> files, k |-> 0, idx |-> 0]]
  BY DEF Down!SendFiles
<1>3. [at |-> "next", files |-> files, k |-> 0, idx |-> 0] \in DownRuns
  BY <1>1 DEF DownRuns, DownStates
<1>4. /\ dRun' \in [Down!Batches -> DownRuns]
      /\ dRun'[dGen + 1] = [at |-> "next", files |-> files, k |-> 0, idx |-> 0]
      /\ \A c \in Down!Batches : c # dGen + 1 => dRun'[c] = dRun[c]
  BY <1>1, <1>2, <1>3 DEF DownTypeOK
<1>5. "overlap" \notin dMishaps' => \A c \in Down!Batches : dRun[c].at \in Down!Ended
  BY DEF Down!SendFiles
<1>6. /\ dUp /\ files # <<>> /\ dGen' = dGen + 1 /\ cancelled' = FALSE
      /\ active' = Down!NoFile
      /\ dMishaps \subseteq dMishaps'
      /\ UNCHANGED <<dChan, gone, dUp, incoming, batch, dHide, downloads, aborted>>
  BY DEF Down!SendFiles, Down!pcRest, Down!phoneVars
<1> QED
  BY <1>4, <1>5, <1>6 DEF Begins

LEMMA CancelDoes == Down!Cancel => Cancels
BY DEF Down!Cancel, Cancels, Down!Send, Posts, Down!pcRest, Down!phoneVars

Gets(kind) ==
    /\ dChan # <<>> /\ dChan[1].kind = kind /\ dChan' = Tail(dChan)
    /\ UNCHANGED <<dRun, dGen, cancelled, active, dUp, gone, dMishaps>>

PcSteps(b) ==
    Announces(b) \/ SendsChunk(b) \/ SendsAbort(b) \/ Fails(b) \/ Waits(b) \/ Ends(b)
    \/ Breaks(b)

DownStep ==
    \/ (\E files \in Seq(Nat) : Begins(files)) \/ (\E b \in Down!Batches : PcSteps(b))
    \/ Cancels \/ Rests \/ Down!Break \/ Down!PcNotices \/ Down!Reconnect
    \/ Down!CleanUp \/ Down!HideBatch
    \/ Gets("file_start") /\ Down!TakeStart(dChan[1])
    \/ Gets("file_chunk") /\ Down!TakeChunk(dChan[1])
    \/ Gets("file_abort") /\ Down!TakeAbort(dChan[1])

LEMMA NextDoes == DownTypeOK /\ [Down!Next]_(Down!vars) => DownStep
<1> SUFFICES ASSUME DownTypeOK, [Down!Next]_(Down!vars) PROVE DownStep
  OBVIOUS
<1>1. ASSUME dGen < Len(Offered), NEW files \in Offered[dGen + 1], Down!SendFiles(files)
      PROVE  DownStep
  <2>1. Offered[dGen + 1] \in SUBSET Seq(Nat)
    <3>1. Len(Offered) \in Nat /\ dGen \in Nat /\ dGen + 1 \in 1 .. Len(Offered)
      BY <1>1, FileTransferAssumption, LenProperties DEF DownTypeOK
    <3> QED
      BY <3>1, FileTransferAssumption, ElementOfSeq
  <2> QED
    BY <1>1, <2>1, SendFilesDoes DEF DownStep
<1>2. ASSUME NEW b \in Down!Batches, Down!Steps(b) PROVE DownStep
  BY <1>2, StartFileDoes, ReadDoes, ResumedDoes, EndFileDoes, ReadFailsDoes
     DEF Down!Steps, PcSteps, DownStep
<1>3. CASE Down!TogglePause
  BY <1>3 DEF Down!TogglePause, DownStep, Rests, Down!pcRest, Down!phoneVars
<1>4. CASE Down!Cancel
  BY <1>4, CancelDoes DEF DownStep
<1>5. CASE Down!Receive
  <2>1. Head(dChan) = dChan[1]
    BY <1>5, HeadTailProperties DEF DownTypeOK, Down!Receive
  <2> QED
    BY <1>5, <2>1 DEF Down!Receive, DownStep, Gets, Down!pcVars
<1>6. CASE UNCHANGED Down!vars
  BY <1>6 DEF Down!vars, Down!pcVars, Down!linkVars, Down!phoneVars, DownStep, Rests
<1>7. CASE Down!Break \/ Down!PcNotices \/ Down!Reconnect
      \/ Down!CleanUp \/ Down!HideBatch
  BY <1>7 DEF DownStep
<1> QED
  BY <1>1, <1>2, <1>3, <1>4, <1>5, <1>6, <1>7 DEF Down!Next, Down!User

LEMMA DefectsAreKept == DownStep => dMishaps \subseteq dMishaps'
<1> SUFFICES ASSUME DownStep PROVE dMishaps \subseteq dMishaps'
  OBVIOUS
<1>1. ASSUME NEW files, Begins(files) PROVE dMishaps \subseteq dMishaps'
  BY <1>1 DEF Begins
<1>2. ASSUME NEW b \in Down!Batches, PcSteps(b) PROVE dMishaps \subseteq dMishaps'
  BY <1>2 DEF PcSteps, Announces, SendsChunk, SendsAbort, Fails, Waits, Ends, Breaks
<1>3. CASE Cancels \/ Rests \/ Down!Break \/ Down!PcNotices \/ Down!Reconnect
      \/ Down!CleanUp \/ Down!HideBatch
  BY <1>3 DEF Cancels, Rests, Down!Break, Down!PcNotices, Down!Reconnect, Down!CleanUp,
              Down!HideBatch
<1>4. ASSUME NEW kind, Gets(kind) PROVE dMishaps \subseteq dMishaps'
  BY <1>4 DEF Gets
<1> QED
  BY <1>1, <1>2, <1>3, <1>4 DEF DownStep

LEMMA ChanPosted ==
    ASSUME dChan \in Seq(DownMessages), NEW m \in DownMessages, dChan' = Append(dChan, m)
    PROVE  /\ Len(dChan) \in Nat /\ DOMAIN dChan = 1 .. Len(dChan)
           /\ dChan' \in Seq(DownMessages) /\ Len(dChan') = Len(dChan) + 1
           /\ DOMAIN dChan' = 1 .. Len(dChan) + 1
           /\ \A i \in 1 .. Len(dChan) : dChan'[i] = dChan[i]
           /\ dChan'[Len(dChan) + 1] = m
BY AppendProperties, LenProperties

LEMMA ChanTaken ==
    ASSUME dChan \in Seq(DownMessages), dChan # <<>>, dChan' = Tail(dChan)
    PROVE  /\ Len(dChan) \in Nat \ {0} /\ DOMAIN dChan = 1 .. Len(dChan)
           /\ dChan' \in Seq(DownMessages) /\ Len(dChan') = Len(dChan) - 1
           /\ DOMAIN dChan' = 1 .. Len(dChan) - 1
           /\ \A i \in 1 .. Len(dChan) - 1 : dChan'[i] = dChan[i + 1]
           /\ dChan[1] \in DownMessages
<1>1. /\ Len(dChan) \in Nat \ {0} /\ dChan' \in Seq(DownMessages)
      /\ Len(dChan') = Len(dChan) - 1
      /\ \A i \in 1 .. Len(dChan) - 1 : dChan'[i] = dChan[i + 1]
  BY HeadTailProperties, LenProperties, EmptySeq
<1>2. dChan[1] \in DownMessages
  BY <1>1, ElementOfSeq
<1> QED
  BY <1>1, <1>2, LenProperties

LEMMA MessageType ==
    ASSUME NEW kind \in {"file_start", "file_chunk", "file_abort"}, NEW f \in DownFiles,
           NEW idx \in Nat, NEW last \in BOOLEAN
    PROVE  /\ Down!Message(kind, f, idx, last) \in DownMessages
           /\ Down!Message(kind, f, idx, last).kind = kind
           /\ Down!Message(kind, f, idx, last).file = f
           /\ Down!Message(kind, f, idx, last).idx = idx
           /\ Down!Message(kind, f, idx, last).last = last
BY DEF Down!Message, DownMessages

LEMMA PutDoes ==
    ASSUME NEW fn, NEW f, NEW v
    PROVE  /\ DOMAIN Down!Put(fn, f, v) = DOMAIN fn \cup {f} /\ Down!Put(fn, f, v)[f] = v
           /\ \A g \in DOMAIN fn : g # f => Down!Put(fn, f, v)[g] = fn[g]
BY DEF Down!Put

LEMMA DropDoes ==
    ASSUME NEW fn, NEW f
    PROVE  /\ DOMAIN Down!Drop(fn, f) = DOMAIN fn \ {f}
           /\ \A g \in DOMAIN fn : g # f => Down!Drop(fn, f)[g] = fn[g]
BY DEF Down!Drop

\* What the PC posts is a message about a file that it has announced.
LEMMA PostsType ==
    ASSUME DownTypeOK, NEW kind \in {"file_start", "file_chunk", "file_abort"},
           NEW f \in DownFiles, NEW idx \in Nat, NEW last \in BOOLEAN,
           Posts(kind, f, idx, last)
    PROVE  dChan' \in Seq(DownMessages)
BY MessageType, ChanPosted DEF DownTypeOK, Posts

LEMMA PostsDoes ==
    ASSUME DownTypeOK, NEW kind \in {"file_start", "file_chunk", "file_abort"},
           NEW f \in DownFiles, NEW idx \in Nat, NEW last \in BOOLEAN,
           Posts(kind, f, idx, last)
    PROVE  /\ Len(dChan) \in Nat /\ DOMAIN dChan = 1 .. Len(dChan)
           /\ Len(dChan') = Len(dChan) + 1 /\ DOMAIN dChan' = 1 .. Len(dChan) + 1
           /\ \A i \in 1 .. Len(dChan) : dChan'[i] = dChan[i]
           /\ dChan'[Len(dChan) + 1].kind = kind /\ dChan'[Len(dChan) + 1].file = f
           /\ dChan'[Len(dChan) + 1].idx = idx /\ dChan'[Len(dChan) + 1].last = last
<1> DEFINE m == Down!Message(kind, f, idx, last)
<1>1. /\ m \in DownMessages /\ m.kind = kind /\ m.file = f /\ m.idx = idx /\ m.last = last
  BY MessageType
<1>2. dChan \in Seq(DownMessages) /\ dChan' = Append(dChan, m)
  BY DEF DownTypeOK, Posts
<1> HIDE DEF m
<1> QED
  BY <1>1, <1>2, ChanPosted

-----------------------------------------------------------------------------
(* Downloads: types, and what came after its announcement *)

LEMMA OpenFile ==
    ASSUME DownTypeOK, DownRunInv, NEW b \in Down!Batches,
           dRun[b].at \in {"read", "waiting", "end"}
    PROVE  /\ Down!File(b) \in DownFiles /\ dRun[b].idx \in Nat /\ Down!IsLast(b) \in BOOLEAN
           /\ dRun[b].k \in 1 .. Len(Down!Files(b)) /\ Down!Size(b) \in Nat
<1>1. dRun[b].files \in Seq(Nat) /\ dRun[b].k \in Nat \ {0} /\ dRun[b].idx \in Nat
      /\ dRun[b].k \in 1 .. Len(Down!Files(b))
  BY RunFields, LenProperties DEF DownTypeOK, DownRunInv, Down!Files
<1>2. Down!Size(b) \in Nat
  BY <1>1, ElementOfSeq DEF Down!Size, Down!Files
<1> QED
  BY <1>1, <1>2 DEF Down!File, DownFiles, Down!IsLast

LEMMA DownTypeStays == DownTypeOK /\ DownRunInv /\ DownStep => DownTypeOK'
<1> SUFFICES ASSUME DownTypeOK, DownRunInv, DownStep PROVE DownTypeOK'
  OBVIOUS
<1>a. /\ dRun \in [Down!Batches -> DownRuns] /\ dGen \in 0 .. Len(Offered)
      /\ dChan \in Seq(DownMessages) /\ active \in DownFiles \cup {Down!NoFile}
      /\ incoming \in [DOMAIN incoming -> SUBSET Nat] /\ DOMAIN incoming \subseteq DownFiles
  BY DEF DownTypeOK
<1>b. Len(Offered) \in Nat
  BY FileTransferAssumption, LenProperties
<1>1. ASSUME NEW files \in Seq(Nat), Begins(files) PROVE DownTypeOK'
  <2>1. dGen' \in 0 .. Len(Offered)
    BY <1>a, <1>b, <1>1 DEF Begins
  <2> QED
    BY <1>a, <1>1, <2>1 DEF Begins, DownTypeOK
<1>2. ASSUME NEW b \in Down!Batches, PcSteps(b) PROVE DownTypeOK'
  <2>0. dRun[b].k \in Nat /\ <<b, dRun[b].k + 1>> \in DownFiles
    BY <1>a, RunFields DEF DownFiles
  <2>1. CASE Announces(b)
    <3> DEFINE f == <<b, dRun[b].k + 1>>
    <3>1. f \in DownFiles /\ Posts("file_start", f, 0, FALSE)
      BY <2>0, <2>1 DEF Announces
    <3> HIDE DEF f
    <3>2. dChan' \in Seq(DownMessages)
      BY <3>1, PostsType
    <3> QED
      BY <2>0, <2>1, <3>2 DEF Announces, DownTypeOK, Only, Keeps
  <2>2. CASE SendsChunk(b)
    <3>1. dChan' \in Seq(DownMessages)
      BY <2>2, OpenFile, PostsType DEF SendsChunk
    <3> QED
      BY <2>2, <3>1 DEF SendsChunk, DownTypeOK, Only, Keeps
  <2>3. CASE SendsAbort(b)
    <3>1. dChan' \in Seq(DownMessages)
      BY <2>3, OpenFile, PostsType DEF SendsAbort
    <3> QED
      BY <2>3, <3>1 DEF SendsAbort, DownTypeOK, Only, Keeps
  <2>4. CASE Fails(b)
    BY <2>0, <2>4 DEF Fails, DownTypeOK, Only, Keeps
  <2>5. CASE Waits(b)
    BY <2>5 DEF Waits, DownTypeOK, Only, Keeps
  <2>6. CASE Ends(b) \/ Breaks(b)
    BY <2>6 DEF Ends, Breaks, DownTypeOK, Only, Keeps
  <2> QED
    BY <1>2, <2>1, <2>2, <2>3, <2>4, <2>5, <2>6 DEF PcSteps
<1>3. CASE Cancels
  <2>1. dChan' \in Seq(DownMessages)
    BY <1>a, <1>3, PostsType DEF Cancels
  <2> QED
    BY <1>3, <2>1 DEF Cancels, DownTypeOK
<1>4. CASE Rests
  BY <1>4, Zenon DEF Rests, DownTypeOK
<1>5. CASE Down!Break
  <2>1. dChan' \in Seq(DownMessages)
    BY <1>5, EmptySeq DEF Down!Break
  <2> QED
    BY <1>5, <2>1 DEF Down!Break, DownTypeOK, Down!pcVars, Down!phoneVars
<1>6. CASE Down!PcNotices
  BY <1>6 DEF Down!PcNotices, DownTypeOK, Down!phoneVars
<1>7. ASSUME Down!Forget
      PROVE incoming' \in [DOMAIN incoming' -> SUBSET Nat] /\ DOMAIN incoming' = {}
  BY <1>7 DEF Down!Forget
<1>8. CASE Down!Reconnect
  BY <1>7, <1>8 DEF Down!Reconnect, DownTypeOK, Down!pcVars
<1>9. CASE Down!CleanUp
  BY <1>7, <1>9 DEF Down!CleanUp, DownTypeOK, Down!pcVars, Down!linkVars
<1>10. CASE Down!HideBatch
  BY <1>10 DEF Down!HideBatch, DownTypeOK, Down!pcVars, Down!linkVars
<1>11. ASSUME NEW kind, Gets(kind)
       PROVE  /\ dChan[1] \in DownMessages /\ dChan[1].file \in DownFiles
              /\ dChan[1].idx \in Nat
              /\ dChan' \in Seq(DownMessages)
  BY <1>a, <1>11, ChanTaken DEF Gets, DownMessages
<1>12. CASE Gets("file_start") /\ Down!TakeStart(dChan[1])
  <2>1. incoming' \in [DOMAIN incoming' -> SUBSET Nat] /\ DOMAIN incoming' \subseteq DownFiles
    BY <1>a, <1>11, <1>12 DEF Down!TakeStart, Down!Put
  <2> QED
    BY <1>11, <1>12, <2>1 DEF Gets, Down!TakeStart, DownTypeOK
<1>13. CASE Gets("file_chunk") /\ Down!TakeChunk(dChan[1])
  <2> DEFINE f == dChan[1].file
             chunks == {dChan[1].idx} \cup (IF f \in DOMAIN incoming THEN incoming[f] ELSE {})
  <2>1. f \in DownFiles /\ chunks \in SUBSET Nat
    BY <1>a, <1>11, <1>13
  <2>2. /\ incoming' \in {Down!Drop(incoming, f), Down!Put(incoming, f, chunks)}
        /\ downloads' \in {downloads, downloads \cup {[file |-> f, chunks |-> chunks]}}
        /\ UNCHANGED aborted
    BY <1>13 DEF Down!TakeChunk
  <2> HIDE DEF f, chunks
  <2>3. incoming' \in [DOMAIN incoming' -> SUBSET Nat] /\ DOMAIN incoming' \subseteq DownFiles
    BY <1>a, <2>1, <2>2 DEF Down!Put, Down!Drop
  <2>4. downloads' \subseteq [file : DownFiles, chunks : SUBSET Nat]
    BY <2>1, <2>2 DEF DownTypeOK
  <2> QED
    BY <1>11, <1>13, <2>2, <2>3, <2>4 DEF Gets, DownTypeOK
<1>14. CASE Gets("file_abort") /\ Down!TakeAbort(dChan[1])
  <2>1. incoming' \in [DOMAIN incoming' -> SUBSET Nat] /\ DOMAIN incoming' \subseteq DownFiles
    BY <1>a, <1>14 DEF Down!TakeAbort, Down!Drop
  <2> QED
    BY <1>11, <1>14, <2>1 DEF Gets, Down!TakeAbort, DownTypeOK
<1> QED
  BY <1>1, <1>2, <1>3, <1>4, <1>5, <1>6, <1>8, <1>9, <1>10, <1>12, <1>13, <1>14
     DEF DownStep

\* Files never change, and what is announced stays so.
LEMMA FilesStay ==
    ASSUME DownTypeOK, DownStep
    PROVE  /\ dGen \in Nat /\ dGen' \in Nat /\ dGen <= dGen'
           /\ \A c \in Down!Batches :
                 c <= dGen => dRun'[c].files = dRun[c].files /\ dRun[c].k <= dRun'[c].k
           /\ \A c \in Down!Batches : dRun[c].k \in Nat
<1>a. /\ dGen \in Nat /\ dRun \in [Down!Batches -> DownRuns]
      /\ \A c \in Down!Batches : dRun[c].k \in Nat
  <2>1. Len(Offered) \in Nat
    BY FileTransferAssumption, LenProperties
  <2> QED
    BY <2>1, RunFields DEF DownTypeOK
<1>b. \A c \in Down!Batches : c \in Nat
  BY DEF Down!Batches
<1>1. ASSUME NEW files \in Seq(Nat), Begins(files)
      PROVE  /\ dGen' \in Nat /\ dGen <= dGen'
             /\ \A c \in Down!Batches :
                   c <= dGen => dRun'[c].files = dRun[c].files /\ dRun[c].k <= dRun'[c].k
  BY <1>a, <1>b, <1>1 DEF Begins
<1>2. ASSUME NEW b \in Down!Batches, PcSteps(b)
      PROVE  /\ dGen' = dGen
             /\ \A c \in Down!Batches :
                   dRun'[c].files = dRun[c].files /\ dRun[c].k <= dRun'[c].k
  <2>1. dGen' = dGen /\ Only(b)
    BY <1>2 DEF PcSteps, Announces, SendsChunk, SendsAbort, Fails, Waits, Ends, Breaks, Keeps
  <2>2. dRun'[b].k \in {dRun[b].k, dRun[b].k + 1}
    BY <1>2 DEF PcSteps, Announces, SendsChunk, SendsAbort, Fails, Waits, Ends, Breaks
  <2> QED
    BY <1>a, <2>1, <2>2 DEF Only
<1>3. CASE Cancels \/ Rests \/ Down!Break \/ Down!PcNotices \/ Down!Reconnect
      \/ Down!CleanUp \/ Down!HideBatch
  <2>1. dRun' = dRun /\ dGen' = dGen
    BY <1>3 DEF Cancels, Rests, Down!Break, Down!PcNotices, Down!Reconnect, Down!CleanUp,
                Down!HideBatch, Down!pcVars
  <2> QED
    BY <1>a, <2>1
<1>4. ASSUME NEW kind, Gets(kind) PROVE dRun' = dRun /\ dGen' = dGen
  BY <1>4 DEF Gets
<1> QED
  BY <1>a, <1>1, <1>2, <1>3, <1>4 DEF DownStep

LEMMA AnnouncedStays ==
    ASSUME DownTypeOK, DownTypeOK', DownStep, NEW f \in Announced
    PROVE  f \in Announced' /\ Down!Chunks(f)' = Down!Chunks(f)
<1>1. f[1] \in Down!Batches /\ f[2] \in Nat \ {0}
  BY DEF DownFiles, Announced
<1>2. f[1] \in Nat
  BY <1>1 DEF Down!Batches
<1>3. dRun'[f[1]].k \in Nat
  <2>1. dRun' \in [Down!Batches -> DownRuns]
    BY DEF DownTypeOK
  <2> QED
    BY <1>1, <2>1 DEF DownRuns
<1> QED
  BY <1>1, <1>2, <1>3, FilesStay DEF Announced, Down!Chunks, Down!Files

LEMMA DownRunStays == DownTypeOK /\ DownRunInv /\ DownStep => DownRunInv'
<1> SUFFICES ASSUME DownTypeOK, DownRunInv, DownStep PROVE DownRunInv'
  OBVIOUS
<1>a. dGen \in Nat /\ dGen' \in Nat /\ dGen <= dGen'
  BY FilesStay
<1>b. \A c \in Down!Batches : c \in Nat
  BY DEF Down!Batches
<1>1. ASSUME NEW files \in Seq(Nat), Begins(files) PROVE DownRunInv'
  <2>1. Len(files) \in Nat \ {0}
    BY <1>1, EmptySeq, LenProperties DEF Begins
  <2> QED
    BY <1>a, <1>b, <1>1, <2>1 DEF Begins, DownRunInv, Down!Files, Down!Size
<1>2. ASSUME NEW b \in Down!Batches, PcSteps(b) PROVE DownRunInv'
  <2>1. dGen' = dGen /\ Only(b)
    BY <1>2 DEF PcSteps, Announces, SendsChunk, SendsAbort, Fails, Waits, Ends, Breaks, Keeps
  <2>2. /\ dRun[b].k \in Nat /\ dRun[b].idx \in Nat /\ Len(dRun[b].files) \in Nat
        /\ b \in Nat
    BY <1>b, RunFields, LenProperties DEF DownTypeOK
  <2>3. dRun[b].at # "none" /\ b <= dGen
    <3>1. dRun[b].at \in {"next", "read", "waiting", "end"}
      BY <1>2, Zenon DEF PcSteps, Announces, SendsChunk, SendsAbort, Fails, Waits, Ends,
                         Breaks
    <3> QED
      BY <1>a, <2>2, <3>1 DEF DownRunInv
  <2>4. dRun[b].at \in {"read", "waiting"} => dRun[b].files[dRun[b].k] \in Nat
    BY OpenFile DEF Down!Size, Down!Files
  <2>5. /\ dRun'[b].k \in 0 .. Len(dRun[b].files) /\ dRun'[b].at # "none"
        /\ dRun'[b].at = "next" => dRun'[b].k < Len(dRun[b].files)
        /\ dRun'[b].at \in {"read", "waiting", "end"} => dRun'[b].k > 0
        /\ dRun'[b].at \in {"read", "waiting"} =>
               dRun'[b].idx = 0 \/ dRun'[b].idx < dRun[b].files[dRun'[b].k]
    <3>1. CASE Announces(b)
      BY <2>2, <3>1 DEF Announces, DownRunInv, Down!Files
    <3>2. CASE SendsChunk(b)
      BY <2>2, <2>4, <3>2 DEF SendsChunk, DownRunInv, Down!Files, Down!Size, Down!IsLast
    <3>3. CASE SendsAbort(b)
      BY <2>2, <3>3 DEF SendsAbort, DownRunInv, Down!Files
    <3>4. CASE Fails(b)
      BY <2>2, <3>4 DEF Fails, DownRunInv, Down!Files
    <3>5. CASE Waits(b)
      BY <2>2, <3>5 DEF Waits, DownRunInv, Down!Files, Down!Size
    <3>6. CASE Ends(b) \/ Breaks(b)
      BY <2>2, <3>6 DEF Ends, Breaks, DownRunInv, Down!Files
    <3> QED
      BY <1>2, <3>1, <3>2, <3>3, <3>4, <3>5, <3>6 DEF PcSteps
  <2> QED
    BY <1>a, <2>1, <2>2, <2>3, <2>5 DEF Only, DownRunInv, Down!Files, Down!Size
<1>3. CASE Cancels \/ Rests \/ Down!Break \/ Down!PcNotices \/ Down!Reconnect
      \/ Down!CleanUp \/ Down!HideBatch
  <2>1. dRun' = dRun /\ dGen' = dGen
    BY <1>3 DEF Cancels, Rests, Down!Break, Down!PcNotices, Down!Reconnect, Down!CleanUp,
                Down!HideBatch, Down!pcVars
  <2> QED
    BY <2>1 DEF DownRunInv, Down!Files, Down!Size
<1>4. ASSUME NEW kind, Gets(kind) PROVE DownRunInv'
  BY <1>4 DEF Gets, DownRunInv, Down!Files, Down!Size
<1> QED
  BY <1>1, <1>2, <1>3, <1>4 DEF DownStep

LEMMA DownLinkStays == DownLinkInv /\ DownStep => DownLinkInv'
<1> SUFFICES ASSUME DownLinkInv, DownStep PROVE DownLinkInv'
  OBVIOUS
<1>1. ASSUME NEW files, Begins(files) PROVE DownLinkInv'
  BY <1>1 DEF Begins, DownLinkInv
<1>2. ASSUME NEW b \in Down!Batches, PcSteps(b) PROVE DownLinkInv'
  <2>1. UNCHANGED <<cancelled, gone, dUp>> /\ (dUp \/ dChan' = dChan)
    BY <1>2, Zenon DEF PcSteps, Announces, SendsChunk, SendsAbort, Fails, Waits, Ends,
                       Breaks, Keeps, Posts
  <2> QED
    BY <2>1, Zenon DEF DownLinkInv
<1>3. CASE Cancels
  <2>1. UNCHANGED <<gone, dUp>> /\ cancelled' = TRUE /\ (dUp \/ dChan' = dChan)
    BY <1>3, Zenon DEF Cancels, Posts
  <2> QED
    BY <2>1, Zenon DEF DownLinkInv
<1>4. CASE Rests
  BY <1>4, Zenon DEF Rests, DownLinkInv
<1>5. CASE Down!Break \/ Down!PcNotices \/ Down!Reconnect
      \/ Down!CleanUp \/ Down!HideBatch
  BY <1>5 DEF Down!Break, Down!PcNotices, Down!Reconnect, Down!CleanUp, Down!HideBatch,
              Down!pcVars, Down!linkVars, DownLinkInv
<1>6. ASSUME NEW kind, Gets(kind) PROVE DownLinkInv'
  BY <1>6 DEF Gets, DownLinkInv
<1> QED
  BY <1>1, <1>2, <1>3, <1>4, <1>5, <1>6 DEF DownStep

\* The file that a batch is at
LEMMA AtFile ==
    ASSUME DownTypeOK, DownRunInv, NEW b \in Down!Batches,
           dRun[b].at \in {"read", "waiting", "end"}
    PROVE  Down!File(b) \in Announced /\ Down!File(b)[1] = b /\ Down!File(b)[2] = dRun[b].k
<1>1. b \in Nat /\ b >= 1 /\ dGen \in Nat
  <2>1. Len(Offered) \in Nat
    BY FileTransferAssumption, LenProperties
  <2> QED
    BY <2>1 DEF Down!Batches, DownTypeOK
<1>2. b <= dGen
  BY <1>1 DEF DownRunInv
<1>3. Down!File(b) \in DownFiles /\ Down!File(b)[1] = b /\ Down!File(b)[2] = dRun[b].k
  BY OpenFile DEF Down!File
<1> QED
  BY <1>2, <1>3, RunFields DEF Announced, DownTypeOK

\* What the PC posts names a file that is announced.
LEMMA PostedAnnounced ==
    ASSUME DownTypeOK, DownTypeOK', AnnouncedInv, DownStep,
           NEW kind \in {"file_start", "file_chunk", "file_abort"},
           NEW f \in DownFiles, NEW idx \in Nat, NEW last \in BOOLEAN,
           Posts(kind, f, idx, last), f \in Announced', last => kind = "file_chunk"
    PROVE  /\ \A n \in DOMAIN dChan' : dChan'[n].file \in Announced'
           /\ \A n \in DOMAIN dChan' : dChan'[n].last => dChan'[n].kind = "file_chunk"
<1>1. ASSUME NEW n \in DOMAIN dChan'
      PROVE  dChan'[n].file \in Announced' /\ (dChan'[n].last => dChan'[n].kind = "file_chunk")
  <2>1. CASE n \in DOMAIN dChan
    <3>1. dChan'[n] = dChan[n] /\ dChan[n].file \in DownFiles
      <4>1. dChan[n] \in DownMessages
        BY <2>1, ElementOfSeq, LenProperties DEF DownTypeOK
      <4> QED
        BY <2>1, <4>1, PostsDoes DEF DownMessages
    <3> QED
      BY <2>1, <3>1, AnnouncedStays DEF AnnouncedInv
  <2>2. CASE n \notin DOMAIN dChan
    <3>1. n = Len(dChan) + 1
      BY <1>1, <2>2, PostsDoes
    <3> QED
      BY <3>1, PostsDoes
  <2> QED
    BY <2>1, <2>2
<1> QED
  BY <1>1

LEMMA AnnouncedKept ==
    DownTypeOK /\ DownTypeOK' /\ DownRunInv /\ AnnouncedInv /\ DownStep => AnnouncedInv'
<1> SUFFICES ASSUME DownTypeOK, DownTypeOK', DownRunInv, AnnouncedInv, DownStep
             PROVE  AnnouncedInv'
  OBVIOUS
<1>a. Announced \subseteq Announced'
  BY AnnouncedStays
<1>b. /\ dChan \in Seq(DownMessages) /\ active \in DownFiles \cup {Down!NoFile}
      /\ DOMAIN incoming \subseteq DownFiles /\ aborted \subseteq DownFiles
      /\ downloads \subseteq [file : DownFiles, chunks : SUBSET Nat]
  BY DEF DownTypeOK
<1>c. \A n \in DOMAIN dChan : dChan[n].file \in DownFiles
  <2>1. ASSUME NEW n \in DOMAIN dChan PROVE dChan[n] \in DownMessages
    BY <1>b, <2>1, ElementOfSeq, LenProperties
  <2> QED
    BY <2>1 DEF DownMessages
<1>d. ASSUME dChan' \in {dChan, <<>>}
      PROVE  /\ \A n \in DOMAIN dChan' : dChan'[n].file \in Announced'
             /\ \A n \in DOMAIN dChan' : dChan'[n].last => dChan'[n].kind = "file_chunk"
  BY <1>a, <1>c, <1>d DEF AnnouncedInv
<1>e. ASSUME incoming' \in {incoming, <<>>}, aborted' = aborted, downloads' = downloads
      PROVE  /\ DOMAIN incoming' \cup aborted' \subseteq Announced'
             /\ \A d \in downloads' : d.file \in Announced'
  BY <1>a, <1>b, <1>e DEF AnnouncedInv
<1>f. ASSUME active' \in {active, Down!NoFile}
      PROVE active' # Down!NoFile => active' \in Announced'
  BY <1>a, <1>b, <1>f DEF AnnouncedInv
<1>1. ASSUME NEW files \in Seq(Nat), Begins(files) PROVE AnnouncedInv'
  <2>1. dChan' = dChan /\ UNCHANGED <<incoming, aborted, downloads>> /\ active' = Down!NoFile
    BY <1>1 DEF Begins
  <2> QED
    BY <1>d, <1>e, <1>f, <2>1 DEF AnnouncedInv
<1>2. ASSUME NEW b \in Down!Batches, PcSteps(b) PROVE AnnouncedInv'
  <2>1. UNCHANGED <<incoming, aborted, downloads>>
    BY <1>2 DEF PcSteps, Announces, SendsChunk, SendsAbort, Fails, Waits, Ends, Breaks, Keeps
  <2>2. ASSUME dRun[b].at = "next", dRun'[b].k = dRun[b].k + 1, dGen' = dGen
        PROVE  <<b, dRun[b].k + 1>> \in DownFiles /\ <<b, dRun[b].k + 1>> \in Announced'
    <3>1. dRun[b].k \in Nat /\ b \in Nat /\ b >= 1 /\ dGen \in Nat
      BY RunFields, FilesStay DEF DownTypeOK, Down!Batches
    <3>2. b <= dGen
      BY <2>2, <3>1 DEF DownRunInv
    <3> QED
      BY <2>2, <3>1, <3>2 DEF DownFiles, Announced
  <2>3. CASE Announces(b)
    <3> DEFINE f == <<b, dRun[b].k + 1>>
    <3>1. f \in DownFiles /\ f \in Announced' /\ active' = f
      BY <2>2, <2>3 DEF Announces, Keeps
    <3>2. Posts("file_start", f, 0, FALSE)
      BY <2>3 DEF Announces
    <3> HIDE DEF f
    <3>3. /\ \A n \in DOMAIN dChan' : dChan'[n].file \in Announced'
          /\ \A n \in DOMAIN dChan' : dChan'[n].last => dChan'[n].kind = "file_chunk"
      BY <3>1, <3>2, PostedAnnounced
    <3> QED
      BY <1>e, <2>1, <3>1, <3>3 DEF AnnouncedInv
  <2>4. ASSUME dRun[b].at \in {"read", "waiting"}, dRun'[b].k = dRun[b].k, dGen' = dGen,
               NEW f, f = Down!File(b)
        PROVE  f \in DownFiles /\ f \in Announced'
    BY <1>a, <2>4, OpenFile, AtFile
  <2>5. CASE SendsChunk(b)
    <3>1. PICK f : f = Down!File(b)
      OBVIOUS
    <3>2. f \in DownFiles /\ f \in Announced' /\ active' = active
      BY <2>4, <2>5, <3>1 DEF SendsChunk, Keeps
    <3>3. /\ dRun[b].idx \in Nat /\ Down!IsLast(b) \in BOOLEAN
          /\ Posts("file_chunk", f, dRun[b].idx, Down!IsLast(b))
      BY <2>5, <3>1, OpenFile DEF SendsChunk
    <3>4. /\ \A n \in DOMAIN dChan' : dChan'[n].file \in Announced'
          /\ \A n \in DOMAIN dChan' : dChan'[n].last => dChan'[n].kind = "file_chunk"
      BY <3>2, <3>3, PostedAnnounced
    <3> QED
      BY <1>e, <1>f, <2>1, <3>2, <3>4 DEF AnnouncedInv
  <2>6. CASE SendsAbort(b)
    <3>1. PICK f : f = Down!File(b)
      OBVIOUS
    <3>2. f \in DownFiles /\ f \in Announced' /\ active' = active
      BY <2>4, <2>6, <3>1 DEF SendsAbort, Keeps
    <3>3. Posts("file_abort", f, 0, FALSE)
      BY <2>6, <3>1 DEF SendsAbort
    <3>4. /\ \A n \in DOMAIN dChan' : dChan'[n].file \in Announced'
          /\ \A n \in DOMAIN dChan' : dChan'[n].last => dChan'[n].kind = "file_chunk"
      BY <3>2, <3>3, PostedAnnounced
    <3> QED
      BY <1>e, <1>f, <2>1, <3>2, <3>4 DEF AnnouncedInv
  <2>7. CASE Fails(b)
    <3>1. PICK f : f = <<b, dRun[b].k + 1>>
      OBVIOUS
    <3>2. active' = active \/ (active' = f /\ f \in Announced')
      BY <2>2, <2>7, <3>1 DEF Fails, Keeps
    <3>3. dChan' = dChan
      BY <2>7 DEF Fails
    <3> QED
      BY <1>d, <1>e, <1>f, <2>1, <3>2, <3>3 DEF AnnouncedInv
  <2>8. CASE Waits(b) \/ Ends(b) \/ Breaks(b)
    <3>1. dChan' = dChan /\ active' \in {active, Down!NoFile}
      BY <2>8 DEF Waits, Ends, Breaks
    <3> QED
      BY <1>d, <1>e, <1>f, <2>1, <3>1 DEF AnnouncedInv
  <2> QED
    BY <1>2, <2>3, <2>5, <2>6, <2>7, <2>8 DEF PcSteps
<1>3. CASE Cancels
  <2>1. UNCHANGED <<incoming, aborted, downloads, active>>
    BY <1>3 DEF Cancels
  <2>2. CASE active # Down!NoFile /\ Posts("file_abort", active, 0, FALSE)
    <3>1. PICK f : f = active
      OBVIOUS
    <3>2. f \in DownFiles /\ f \in Announced' /\ Posts("file_abort", f, 0, FALSE)
      BY <1>a, <1>b, <2>2, <3>1 DEF AnnouncedInv
    <3>3. /\ \A n \in DOMAIN dChan' : dChan'[n].file \in Announced'
          /\ \A n \in DOMAIN dChan' : dChan'[n].last => dChan'[n].kind = "file_chunk"
      BY <3>2, PostedAnnounced
    <3> QED
      BY <1>e, <1>f, <2>1, <3>3 DEF AnnouncedInv
  <2>3. CASE dChan' = dChan
    BY <1>d, <1>e, <1>f, <2>1, <2>3 DEF AnnouncedInv
  <2> QED
    BY <1>3, <2>2, <2>3 DEF Cancels
<1>4. CASE Rests \/ Down!Break \/ Down!PcNotices \/ Down!Reconnect
      \/ Down!CleanUp \/ Down!HideBatch
  <2>1. /\ dChan' \in {dChan, <<>>} /\ incoming' \in {incoming, <<>>}
        /\ active' \in {active, Down!NoFile} /\ UNCHANGED <<aborted, downloads>>
    BY <1>4 DEF Rests, Down!Break, Down!PcNotices, Down!Reconnect, Down!CleanUp,
                Down!HideBatch, Down!Forget, Down!pcVars, Down!linkVars, Down!phoneVars
  <2> QED
    BY <1>d, <1>e, <1>f, <2>1 DEF AnnouncedInv
<1>5. ASSUME NEW kind, Gets(kind)
      PROVE  /\ \A n \in DOMAIN dChan' : dChan'[n].file \in Announced'
             /\ \A n \in DOMAIN dChan' : dChan'[n].last => dChan'[n].kind = "file_chunk"
             /\ 1 \in DOMAIN dChan /\ active' = active
  <2>1. /\ Len(dChan) \in Nat \ {0} /\ DOMAIN dChan = 1 .. Len(dChan)
        /\ DOMAIN dChan' = 1 .. Len(dChan) - 1
        /\ \A i \in 1 .. Len(dChan) - 1 : dChan'[i] = dChan[i + 1]
    BY <1>b, <1>5, ChanTaken DEF Gets
  <2>2. \A n \in DOMAIN dChan' : n + 1 \in DOMAIN dChan /\ dChan'[n] = dChan[n + 1]
    BY <2>1
  <2> QED
    BY <1>5, <1>a, <1>c, <2>1, <2>2 DEF AnnouncedInv, Gets
<1>6. ASSUME NEW kind, Gets(kind), NEW f, f = dChan[1].file,
             DOMAIN incoming' \subseteq DOMAIN incoming \cup {f},
             aborted' \subseteq aborted \cup {f},
             \A d \in downloads' : d \in downloads \/ d.file = f
      PROVE  AnnouncedInv'
  <2>1. f \in DownFiles /\ f \in Announced'
    BY <1>5, <1>6, <1>a, <1>c DEF AnnouncedInv
  <2>2. DOMAIN incoming' \cup aborted' \subseteq Announced'
    BY <1>6, <1>a, <1>b, <2>1 DEF AnnouncedInv
  <2>3. ASSUME NEW d \in downloads' PROVE d.file \in Announced'
    BY <1>6, <1>a, <1>b, <2>1, <2>3 DEF AnnouncedInv
  <2> QED
    BY <1>5, <1>6, <1>f, <2>2, <2>3 DEF AnnouncedInv
<1>7. CASE Gets("file_start") /\ Down!TakeStart(dChan[1])
  BY <1>6, <1>7, PutDoes DEF Down!TakeStart
<1>8. CASE Gets("file_chunk") /\ Down!TakeChunk(dChan[1])
  <2>1. PICK f : f = dChan[1].file
    OBVIOUS
  <2>2. /\ DOMAIN incoming' \subseteq DOMAIN incoming \cup {f} /\ aborted' = aborted
        /\ \A d \in downloads' : d \in downloads \/ d.file = f
    BY <1>8, <2>1 DEF Down!TakeChunk, Down!Put, Down!Drop
  <2> QED
    BY <1>6, <1>8, <2>1, <2>2
<1>9. CASE Gets("file_abort") /\ Down!TakeAbort(dChan[1])
  <2>1. PICK f : f = dChan[1].file
    OBVIOUS
  <2>2. /\ DOMAIN incoming' \subseteq DOMAIN incoming \cup {f}
        /\ aborted' = aborted \cup {f} /\ downloads' = downloads
    BY <1>9, <2>1 DEF Down!TakeAbort, Down!Drop
  <2> QED
    BY <1>6, <1>9, <2>1, <2>2
<1> QED
  BY <1>1, <1>2, <1>3, <1>4, <1>7, <1>8, <1>9 DEF DownStep

-----------------------------------------------------------------------------
(* Downloads: the end of every file comes *)

\* A message is taken: the others move up.
LEMMA GetsDoes ==
    ASSUME DownTypeOK, NEW kind, Gets(kind)
    PROVE  /\ 1 \in DOMAIN dChan /\ dChan[1].file \in DownFiles /\ dChan[1].idx \in Nat
           /\ Len(dChan) \in Nat \ {0} /\ Len(dChan') = Len(dChan) - 1
           /\ DOMAIN dChan = 1 .. Len(dChan)
           /\ \A n \in DOMAIN dChan' : /\ n \in Nat \ {0} /\ n + 1 \in DOMAIN dChan
                                       /\ dChan'[n] = dChan[n + 1]
           /\ \A n \in DOMAIN dChan :
                 n # 1 => n \in Nat /\ n - 1 \in DOMAIN dChan' /\ dChan'[n - 1] = dChan[n]
<1>1. dChan \in Seq(DownMessages) /\ dChan # <<>> /\ dChan' = Tail(dChan)
  BY DEF Gets, DownTypeOK
<1> QED
  BY <1>1, ChanTaken DEF DownMessages

LEMMA OpenIsFile ==
    ASSUME DownTypeOK, NEW f \in Open
    PROVE  /\ f \in DownFiles /\ f[1] \in Down!Batches /\ f = Down!File(f[1])
           /\ dRun[f[1]].at \in {"read", "waiting"}
<1>1. f \in DownFiles /\ dRun[f[1]].at \in {"read", "waiting"} /\ dRun[f[1]].k = f[2]
  BY DEF Open
<1> QED
  BY <1>1 DEF DownFiles, Down!File

LEMMA OpenElsewhere ==
    ASSUME DownTypeOK, NEW b \in Down!Batches, Only(b), NEW f \in DownFiles, f[1] # b
    PROVE  f \in Open' <=> f \in Open
<1>1. dRun'[f[1]] = dRun[f[1]]
  BY DEF Only, DownFiles
<1> QED
  BY <1>1 DEF Open

LEMMA ReachedIsFile ==
    ASSUME DownTypeOK, NEW f \in Reached
    PROVE  /\ f \in DownFiles /\ f[1] \in Down!Batches /\ f = Down!File(f[1])
           /\ dRun[f[1]].at \in {"read", "waiting", "failed"}
<1>1. /\ f \in DownFiles /\ dRun[f[1]].at \in {"read", "waiting", "failed"}
      /\ dRun[f[1]].k = f[2]
  BY DEF Reached
<1> QED
  BY <1>1 DEF DownFiles, Down!File

LEMMA ReachedElsewhere ==
    ASSUME DownTypeOK, NEW b \in Down!Batches, Only(b), NEW f \in DownFiles, f[1] # b
    PROVE  f \in Reached' <=> f \in Reached
<1>1. dRun'[f[1]] = dRun[f[1]]
  BY DEF Only, DownFiles
<1> QED
  BY <1>1 DEF Reached

\* What could not be read stays so: its batch has ended.
LEMMA LostStays ==
    ASSUME DownTypeOK, DownRunInv, DownStep, NEW f \in Lost
    PROVE  f \in Lost'
<1>1. /\ f \in DownFiles /\ f[1] \in Down!Batches /\ dRun[f[1]].at = "failed"
      /\ dRun[f[1]].k = f[2]
  BY DEF Lost, DownFiles
<1>2. SUFFICES dRun'[f[1]] = dRun[f[1]]
  BY <1>1, <1>2 DEF Lost
<1>3. ASSUME NEW files \in Seq(Nat), Begins(files) PROVE dRun'[f[1]] = dRun[f[1]]
  <2>1. f[1] # dGen + 1
    BY <1>1, FilesStay DEF DownRunInv, Down!Batches
  <2> QED
    BY <1>1, <1>3, <2>1 DEF Begins
<1>4. ASSUME NEW b \in Down!Batches, PcSteps(b) PROVE dRun'[f[1]] = dRun[f[1]]
  <2>1. Only(b) /\ dRun[b].at # "failed"
    BY <1>4, Zenon DEF PcSteps, Announces, SendsChunk, SendsAbort, Fails, Waits, Ends,
                       Breaks
  <2> QED
    BY <1>1, <2>1 DEF Only
<1>5. CASE Cancels \/ Rests \/ Down!Break \/ Down!PcNotices \/ Down!Reconnect
      \/ Down!CleanUp \/ Down!HideBatch
  BY <1>5 DEF Cancels, Rests, Down!Break, Down!PcNotices, Down!Reconnect, Down!CleanUp,
              Down!HideBatch, Down!pcVars
<1>6. ASSUME NEW kind, Gets(kind) PROVE dRun'[f[1]] = dRun[f[1]]
  BY <1>6 DEF Gets
<1> QED
  BY <1>3, <1>4, <1>5, <1>6 DEF DownStep

LEMMA KeptStays ==
    DownTypeOK /\ DownRunInv /\ AnnouncedInv /\ DownLinkInv /\ KeptInv /\ DownStep
    => KeptInv'
<1> SUFFICES ASSUME DownTypeOK, DownRunInv, AnnouncedInv, DownLinkInv, KeptInv, DownStep,
                    dUp'
             PROVE  /\ \A f \in DOMAIN incoming' :
                          \/ f \in Reached'
                          \/ \E i \in DOMAIN dChan' :
                                /\ i >= 1 /\ dChan'[i].file = f
                                /\ dChan'[i].kind = "file_abort" \/ dChan'[i].last
                    /\ \A n \in DOMAIN dChan' :
                          \/ dChan'[n].file \in Reached'
                          \/ \E i \in DOMAIN dChan' :
                                /\ i >= n /\ dChan'[i].file = dChan'[n].file
                                /\ dChan'[i].kind = "file_abort" \/ dChan'[i].last
  BY DEF KeptInv, EndComes
<1> DEFINE Ends1(f, n) ==
        \E i \in DOMAIN dChan : /\ i >= n /\ dChan[i].file = f
                                /\ dChan[i].kind = "file_abort" \/ dChan[i].last
           Ends2(f, n) ==
        \E i \in DOMAIN dChan' : /\ i >= n /\ dChan'[i].file = f
                                 /\ dChan'[i].kind = "file_abort" \/ dChan'[i].last
           Goal == /\ \A f \in DOMAIN incoming' : f \in Reached' \/ Ends2(f, 1)
                   /\ \A n \in DOMAIN dChan' :
                         dChan'[n].file \in Reached' \/ Ends2(dChan'[n].file, n)
<1> SUFFICES Goal
  OBVIOUS
<1>a. dUp => /\ \A f \in DOMAIN incoming : f \in Reached \/ Ends1(f, 1)
             /\ \A n \in DOMAIN dChan : dChan[n].file \in Reached \/ Ends1(dChan[n].file, n)
  BY DEF KeptInv, EndComes
\* Nothing is sent or taken, and nothing closes.
<1>b. ASSUME dUp, dChan' \in {dChan, <<>>}, dChan' = dChan \/ dChan = <<>>,
             incoming' \in {incoming, <<>>}, Reached \subseteq Reached'
      PROVE  Goal
  BY <1>a, <1>b
\* A message is sent after which the PC is still at the file, or which ends it.
<1>c. ASSUME NEW kind \in {"file_start", "file_chunk", "file_abort"}, NEW f \in DownFiles,
             NEW idx \in Nat, NEW last \in BOOLEAN, Posts(kind, f, idx, last),
             incoming' = incoming, Reached \ {f} \subseteq Reached',
             kind = "file_abort" \/ last \/ f \in Reached'
      PROVE  Goal
  <2>1. dUp
    BY <1>c DEF Posts
  <2>2. /\ Len(dChan) \in Nat /\ DOMAIN dChan = 1 .. Len(dChan)
        /\ \A i \in DOMAIN dChan : i \in DOMAIN dChan' /\ dChan'[i] = dChan[i]
        /\ \A i \in DOMAIN dChan' : i \in DOMAIN dChan \/ i = Len(dChan) + 1
        /\ Len(dChan) + 1 \in DOMAIN dChan' /\ dChan'[Len(dChan) + 1].file = f
        /\ dChan'[Len(dChan) + 1].kind = kind /\ dChan'[Len(dChan) + 1].last = last
    BY <1>c, PostsDoes
  <2>3. ASSUME NEW g, NEW n \in Nat, g \in Reached \/ Ends1(g, n), n <= Len(dChan) + 1
        PROVE  g \in Reached' \/ Ends2(g, n)
    <3>1. CASE Ends1(g, n)
      <4>1. PICK i \in DOMAIN dChan : /\ i >= n /\ dChan[i].file = g
                                      /\ dChan[i].kind = "file_abort" \/ dChan[i].last
        BY <3>1
      <4> QED
        BY <2>2, <4>1
    <3>2. CASE g \in Reached /\ g # f
      BY <3>2, <1>c
    <3>3. CASE g = f
      <4>1. CASE f \in Reached'
        BY <3>3, <4>1
      <4>2. CASE kind = "file_abort" \/ last
        <5>1. Len(dChan) + 1 >= n
          BY <2>2, <2>3
        <5> QED
          BY <3>3, <2>2, <4>2, <5>1
      <4> QED
        BY <1>c, <4>1, <4>2
    <3> QED
      BY <2>3, <3>1, <3>2, <3>3
  <2> HIDE DEF Ends1, Ends2
  <2>4. ASSUME NEW g \in DOMAIN incoming' PROVE g \in Reached' \/ Ends2(g, 1)
    <3>1. g \in Reached \/ Ends1(g, 1)
      BY <1>a, <1>c, <2>1, <2>4
    <3> QED
      BY <2>2, <2>3, <3>1
  <2>5. ASSUME NEW n \in DOMAIN dChan'
        PROVE  dChan'[n].file \in Reached' \/ Ends2(dChan'[n].file, n)
    <3>1. CASE n \in DOMAIN dChan
      <4>1. /\ dChan[n].file \in Reached \/ Ends1(dChan[n].file, n)
            /\ dChan'[n] = dChan[n] /\ n \in Nat /\ n <= Len(dChan) + 1
        BY <1>a, <2>1, <2>2, <3>1
      <4> QED
        BY <2>3, <4>1
    <3>2. CASE n = Len(dChan) + 1
      <4>1. CASE f \in Reached'
        BY <2>2, <3>2, <4>1
      <4>2. CASE kind = "file_abort" \/ last
        <5>1. n >= n
          BY <2>2, <3>2
        <5> QED
          BY <2>2, <2>5, <3>2, <4>2, <5>1 DEF Ends2
      <4> QED
        BY <1>c, <4>1, <4>2
    <3> QED
      BY <2>2, <2>5, <3>1, <3>2
  <2> QED
    BY <2>4, <2>5
\* A message is taken; if it ends the file, the phone forgets it.
<1>d. ASSUME NEW kind, Gets(kind), NEW f, f = dChan[1].file,
             DOMAIN incoming' \subseteq DOMAIN incoming \cup {f},
             dChan[1].kind = "file_abort" \/ dChan[1].last => f \notin DOMAIN incoming'
      PROVE  Goal
  <2>1. dUp /\ Reached' = Reached
    BY <1>d DEF Gets, Reached
  <2>2. /\ 1 \in DOMAIN dChan
        /\ \A n \in DOMAIN dChan' : /\ n \in Nat \ {0} /\ n + 1 \in DOMAIN dChan
                                    /\ dChan'[n] = dChan[n + 1]
        /\ \A n \in DOMAIN dChan :
              n # 1 => /\ n \in Nat /\ n >= 2 /\ n - 1 \in DOMAIN dChan'
                       /\ dChan'[n - 1] = dChan[n]
    BY <1>d, GetsDoes
  <2>3. ASSUME NEW g, NEW n \in Nat, NEW i \in DOMAIN dChan, i # 1, i >= n + 1,
               dChan[i].file = g, dChan[i].kind = "file_abort" \/ dChan[i].last
        PROVE  Ends2(g, n)
    BY <2>2, <2>3
  <2>4. ASSUME NEW g \in DOMAIN incoming' PROVE g \in Reached' \/ Ends2(g, 1)
    <3>1. g = f => dChan[1].kind # "file_abort" /\ ~dChan[1].last
      BY <1>d, <2>4
    <3>2. \/ g \in Reached
          \/ \E i \in DOMAIN dChan : /\ dChan[i].file = g
                                     /\ dChan[i].kind = "file_abort" \/ dChan[i].last
      <4>1. CASE g \in DOMAIN incoming
        BY <1>a, <2>1, <4>1
      <4>2. CASE g = f
        BY <1>a, <1>d, <2>1, <2>2, <4>2
      <4> QED
        BY <1>d, <2>4, <4>1, <4>2
    <3>3. ASSUME NEW i \in DOMAIN dChan, dChan[i].file = g,
                 dChan[i].kind = "file_abort" \/ dChan[i].last
          PROVE  Ends2(g, 1)
      <4>1. i # 1 /\ i >= 1 + 1
        BY <1>d, <2>2, <3>1, <3>3
      <4> QED
        BY <2>3, <3>3, <4>1
    <3>4. CASE g \in Reached
      BY <2>1, <3>4
    <3>5. CASE g \notin Reached
      <4>1. PICK i \in DOMAIN dChan : /\ dChan[i].file = g
                                      /\ dChan[i].kind = "file_abort" \/ dChan[i].last
        BY <3>2, <3>5
      <4> HIDE DEF Ends2
      <4> QED
        BY <3>3, <4>1
    <3> QED
      BY <3>4, <3>5
  <2>5. ASSUME NEW n \in DOMAIN dChan'
        PROVE  dChan'[n].file \in Reached' \/ Ends2(dChan'[n].file, n)
    <3>1. /\ n \in Nat /\ n + 1 \in DOMAIN dChan /\ dChan'[n] = dChan[n + 1] /\ n >= 1
      BY <2>2, <2>5
    <3>2. \/ dChan'[n].file \in Reached
          \/ \E i \in DOMAIN dChan : /\ i >= n + 1 /\ dChan[i].file = dChan'[n].file
                                     /\ dChan[i].kind = "file_abort" \/ dChan[i].last
      BY <1>a, <2>1, <3>1
    <3>3. ASSUME NEW i \in DOMAIN dChan, i >= n + 1, dChan[i].file = dChan'[n].file,
                 dChan[i].kind = "file_abort" \/ dChan[i].last
          PROVE  Ends2(dChan'[n].file, n)
      <4>1. i # 1
        BY <3>1, <3>3
      <4> QED
        BY <2>3, <3>1, <3>3, <4>1
    <3> HIDE DEF Ends2
    <3> QED
      BY <2>1, <3>2, <3>3
  <2> QED
    BY <2>4, <2>5
<1>1. ASSUME NEW files \in Seq(Nat), Begins(files) PROVE Goal
  <2>1. Reached \subseteq Reached'
    <3>1. ASSUME NEW f \in Reached PROVE f \in Reached'
      <4>1. f[1] \in Down!Batches /\ dRun[f[1]].at \in {"read", "waiting", "failed"} /\ f \in DownFiles
        BY ReachedIsFile
      <4>2. f[1] # dGen + 1
        BY <4>1, FilesStay DEF DownRunInv, Down!Batches
      <4> QED
        BY <1>1, <4>1, <4>2 DEF Begins, Reached
    <3> QED
      BY <3>1
  <2> QED
    BY <1>1, <1>b, <2>1 DEF Begins
<1>2. ASSUME NEW b \in Down!Batches, PcSteps(b) PROVE Goal
  <2>1. /\ Only(b) /\ incoming' = incoming
    BY <1>2, Zenon DEF PcSteps, Announces, SendsChunk, SendsAbort, Fails, Waits, Ends,
                       Breaks, Keeps
  <2>2. ASSUME NEW f \in Reached, f[1] # b PROVE f \in Reached'
    BY <2>1, <2>2, ReachedIsFile, ReachedElsewhere
  <2>3. CASE Announces(b)
    <3>1. PICK f : f = <<b, dRun[b].k + 1>>
      OBVIOUS
    <3>2. f \in DownFiles /\ f[1] = b /\ f[2] = dRun'[b].k
      BY <2>3, <3>1, RunFields DEF Announces, DownFiles, DownTypeOK
    <3>3. f \in Reached'
      BY <2>3, <3>2 DEF Announces, Reached
    <3>4. Reached \subseteq Reached'
      <4>1. ASSUME NEW g \in Reached PROVE g[1] # b
        BY <2>3, <4>1, ReachedIsFile DEF Announces
      <4> QED
        BY <2>2, <4>1
    <3>5. Posts("file_start", f, 0, FALSE)
      BY <2>3, <3>1 DEF Announces
    <3> QED
      BY <1>c, <2>1, <3>2, <3>3, <3>4, <3>5
  <2>4. ASSUME NEW f, f = Down!File(b), NEW g \in Reached, g # f PROVE g \in Reached'
    BY <2>2, <2>4, ReachedIsFile
  <2>5. CASE SendsChunk(b)
    <3>1. PICK f : f = Down!File(b)
      OBVIOUS
    <3>2. /\ f \in DownFiles /\ f[1] = b /\ f[2] = dRun[b].k /\ dRun[b].idx \in Nat
          /\ Down!IsLast(b) \in BOOLEAN
      BY <2>5, <3>1, OpenFile, AtFile DEF SendsChunk
    <3>3. Down!IsLast(b) \/ f \in Reached'
      BY <2>5, <3>2 DEF SendsChunk, Reached
    <3>4. Posts("file_chunk", f, dRun[b].idx, Down!IsLast(b))
      BY <2>5, <3>1 DEF SendsChunk
    <3>5. PICK last : last = Down!IsLast(b)
      OBVIOUS
    <3>6. /\ last \in BOOLEAN /\ Posts("file_chunk", f, dRun[b].idx, last)
          /\ (last \/ f \in Reached')
      BY <3>2, <3>3, <3>4, <3>5
    <3>7. Reached \ {f} \subseteq Reached'
      BY <2>4, <3>1
    <3> QED
      BY <1>c, <2>1, <3>2, <3>6, <3>7
  <2>6. CASE SendsAbort(b)
    <3>1. PICK f : f = Down!File(b)
      OBVIOUS
    <3>2. f \in DownFiles /\ Posts("file_abort", f, 0, FALSE)
      BY <2>6, <3>1, OpenFile DEF SendsAbort
    <3>3. Reached \ {f} \subseteq Reached'
      BY <2>4, <3>1
    <3> QED
      BY <1>c, <2>1, <3>2, <3>3
  <2>7. ~Fails(b)
    BY DEF Fails, Keeps
  <2>8. CASE Waits(b)
    <3>1. ASSUME NEW f \in Reached, f[1] = b PROVE f \in Reached'
      BY <2>8, <3>1 DEF Waits, Reached
    <3> QED
      BY <1>b, <2>1, <2>2, <2>8, <3>1 DEF Waits, Keeps
  <2>9. CASE Ends(b)
    <3>1. ASSUME NEW f \in Reached PROVE f[1] # b
      BY <2>9, <3>1, ReachedIsFile DEF Ends
    <3> QED
      BY <1>b, <2>1, <2>2, <2>9, <3>1 DEF Ends, Keeps
  <2>10. CASE Breaks(b)
    <3>1. ASSUME NEW f \in Reached, f[1] = b PROVE f \in Reached'
      BY <2>10, <3>1 DEF Breaks, Reached
    <3> QED
      BY <1>b, <2>1, <2>2, <2>10, <3>1 DEF Breaks, Keeps
  <2> QED
    BY <1>2, <2>3, <2>5, <2>6, <2>7, <2>8, <2>9, <2>10 DEF PcSteps
<1>3. CASE Cancels
  <2>1. dUp /\ incoming' = incoming /\ Reached' = Reached
    BY <1>3 DEF Cancels, Reached
  <2>2. CASE active # Down!NoFile /\ Posts("file_abort", active, 0, FALSE)
    <3>1. PICK f : f = active
      OBVIOUS
    <3>2. f \in DownFiles /\ Posts("file_abort", f, 0, FALSE)
      BY <2>2, <3>1 DEF DownTypeOK
    <3> QED
      BY <1>c, <2>1, <3>2
  <2>3. CASE dChan' = dChan
    BY <1>b, <2>1, <2>3
  <2> QED
    BY <1>3, <2>2, <2>3 DEF Cancels
<1>4. CASE Rests \/ Down!Break \/ Down!PcNotices \/ Down!CleanUp \/ Down!HideBatch
  <2>1. /\ dUp /\ incoming' \in {incoming, <<>>} /\ dRun' = dRun /\ dChan' = dChan
    BY <1>4 DEF Rests, Down!Break, Down!PcNotices, Down!CleanUp, Down!HideBatch,
                Down!Forget, Down!pcVars, Down!linkVars, Down!phoneVars
  <2>2. Reached' = Reached
    BY <2>1 DEF Reached
  <2> HIDE DEF Goal
  <2> QED
    BY <1>b, <2>1, <2>2
<1>5. CASE Down!Reconnect
  BY <1>5 DEF Down!Reconnect, Down!Forget, DownLinkInv
<1>6. CASE Gets("file_start") /\ Down!TakeStart(dChan[1])
  <2>1. PICK f : f = dChan[1].file
    OBVIOUS
  <2>2. /\ DOMAIN incoming' \subseteq DOMAIN incoming \cup {f}
        /\ dChan[1].kind = "file_start" /\ ~dChan[1].last
    BY <1>6, <2>1, GetsDoes DEF Down!TakeStart, Down!Put, Gets, AnnouncedInv
  <2> QED
    BY <1>6, <1>d, <2>1, <2>2
<1>7. CASE Gets("file_chunk") /\ Down!TakeChunk(dChan[1])
  BY <1>7, <1>d DEF Down!TakeChunk, Down!Put, Down!Drop, Gets
<1>8. CASE Gets("file_abort") /\ Down!TakeAbort(dChan[1])
  BY <1>8, <1>d DEF Down!TakeAbort, Down!Drop
<1> QED
  BY <1>1, <1>2, <1>3, <1>4, <1>5, <1>6, <1>7, <1>8 DEF DownStep

-----------------------------------------------------------------------------
(* Downloads: the messages come in the order of the files *)

\* A batch that moves is the last one, unless two of them overlap.
LEMMA LastMoves ==
    ASSUME DownTypeOK, DownRunInv, DownOrderInv, Down!Spared({"overlap"}),
           NEW b \in Down!Batches,
           dRun[b].at \notin Down!Ended
    PROVE  b = dGen
<1>1. b \in Nat /\ dGen \in Nat
  <2>1. Len(Offered) \in Nat
    BY FileTransferAssumption, LenProperties
  <2> QED
    BY <2>1 DEF Down!Batches, DownTypeOK
<1> QED
  BY <1>1 DEF DownRunInv, DownOrderInv, Down!Ended

\* Nothing that is announced comes after the file that the PC is at.
LEMMA NothingLater ==
    ASSUME DownTypeOK', dGen' \in Down!Batches, NEW f \in DownFiles, f[1] = dGen',
           f[2] = dRun'[dGen'].k, NEW g \in Announced'
    PROVE  ~Before(f, g)
<1>1. g[1] \in Nat /\ g[2] \in Nat /\ g[1] <= dGen' /\ g[2] <= dRun'[g[1]].k /\ dGen' \in Nat
  BY DEF Announced, DownFiles, Down!Batches
<1>2. dRun'[dGen'].k \in Nat
  <2>1. dRun' \in [Down!Batches -> DownRuns]
    BY DEF DownTypeOK
  <2> QED
    BY <2>1 DEF DownRuns
<1> QED
  BY <1>1, <1>2 DEF Before

LEMMA DownOrderStays ==
    /\ DownTypeOK /\ DownTypeOK' /\ DownRunInv /\ AnnouncedInv /\ AnnouncedInv' /\ DownOrderInv
    /\ DownStep
    => DownOrderInv'
<1> SUFFICES ASSUME DownTypeOK, DownTypeOK', DownRunInv, AnnouncedInv, AnnouncedInv',
                    DownOrderInv, DownStep, Down!Spared({"overlap"})'
             PROVE  /\ \A b \in Down!Batches : b < dGen' => dRun'[b].at \in {"over", "failed"}
                    /\ active' # Down!NoFile
                       => active'[1] = dGen' /\ active'[2] = dRun'[dGen'].k
                    /\ \A i, j \in DOMAIN dChan' :
                          i < j => ~Before(dChan'[j].file, dChan'[i].file)
                    /\ \A f \in DOMAIN incoming', j \in DOMAIN dChan' :
                          ~Before(dChan'[j].file, f)
  BY DEF DownOrderInv
<1> DEFINE Done == \A b \in Down!Batches : b < dGen' => dRun'[b].at \in {"over", "failed"}
           At == active' # Down!NoFile => active'[1] = dGen' /\ active'[2] = dRun'[dGen'].k
           Order == /\ \A i, j \in DOMAIN dChan' :
                          i < j => ~Before(dChan'[j].file, dChan'[i].file)
                    /\ \A f \in DOMAIN incoming', j \in DOMAIN dChan' :
                          ~Before(dChan'[j].file, f)
<1> SUFFICES Done /\ At /\ Order
  OBVIOUS
<1>0. Down!Spared({"overlap"}) /\ "overlap" \notin dMishaps'
  BY DefectsAreKept DEF Down!Spared
<1>a. /\ \A b \in Down!Batches : b < dGen => dRun[b].at \in {"over", "failed"}
      /\ active # Down!NoFile => active[1] = dGen /\ active[2] = dRun[dGen].k
      /\ \A i, j \in DOMAIN dChan : i < j => ~Before(dChan[j].file, dChan[i].file)
      /\ \A f \in DOMAIN incoming, j \in DOMAIN dChan : ~Before(dChan[j].file, f)
  BY <1>0 DEF DownOrderInv
<1>b. dGen \in Nat /\ \A b \in Down!Batches : b \in Nat /\ b >= 1
  BY FilesStay DEF Down!Batches
<1>c. ASSUME dChan' \in {dChan, <<>>}, incoming' \in {incoming, <<>>} PROVE Order
  BY <1>a, <1>c
<1>d. ASSUME NEW kind \in {"file_start", "file_chunk", "file_abort"}, NEW f \in DownFiles,
             NEW idx \in Nat, NEW last \in BOOLEAN, Posts(kind, f, idx, last),
             incoming' = incoming, dGen' \in Down!Batches, f[1] = dGen', f[2] = dRun'[dGen'].k
      PROVE  Order
  <2>1. ASSUME NEW g \in Announced' PROVE ~Before(f, g)
    BY <1>d, <2>1, NothingLater
  <2>2. /\ DOMAIN dChan = 1 .. Len(dChan) /\ Len(dChan) \in Nat
        /\ \A i \in DOMAIN dChan : dChan'[i] = dChan[i]
        /\ DOMAIN dChan' = 1 .. Len(dChan) + 1
        /\ dChan'[Len(dChan) + 1].file = f
    BY <1>d, PostsDoes
  <2>3. /\ \A n \in DOMAIN dChan' : dChan'[n].file \in Announced'
        /\ DOMAIN incoming' \subseteq Announced'
    BY DEF AnnouncedInv
  <2>4. ASSUME NEW i \in DOMAIN dChan', NEW j \in DOMAIN dChan', i < j
        PROVE  ~Before(dChan'[j].file, dChan'[i].file)
    <3>1. CASE j \in DOMAIN dChan
      <4>1. i \in DOMAIN dChan /\ dChan'[i] = dChan[i] /\ dChan'[j] = dChan[j]
        BY <2>2, <2>4, <3>1
      <4> QED
        BY <1>a, <2>4, <3>1, <4>1
    <3>2. CASE j = Len(dChan) + 1
      BY <2>1, <2>2, <2>3, <3>2
    <3> QED
      BY <2>2, <2>4, <3>1, <3>2
  <2>5. ASSUME NEW g \in DOMAIN incoming', NEW j \in DOMAIN dChan'
        PROVE  ~Before(dChan'[j].file, g)
    <3>1. CASE j \in DOMAIN dChan
      BY <1>a, <1>d, <2>2, <3>1
    <3>2. CASE j = Len(dChan) + 1
      BY <2>1, <2>2, <2>3, <3>2
    <3> QED
      BY <2>2, <2>5, <3>1, <3>2
  <2> QED
    BY <2>4, <2>5
<1>e. ASSUME NEW kind, Gets(kind), NEW f, f = dChan[1].file,
             DOMAIN incoming' \subseteq DOMAIN incoming \cup {f}
      PROVE  Done /\ At /\ Order
  <2>1. dRun' = dRun /\ dGen' = dGen /\ active' = active
    BY <1>e DEF Gets
  <2>2. /\ 1 \in DOMAIN dChan
        /\ \A n \in DOMAIN dChan' : /\ n \in Nat \ {0} /\ n + 1 \in DOMAIN dChan
                                    /\ dChan'[n] = dChan[n + 1]
    BY <1>e, GetsDoes
  <2>3. ASSUME NEW i \in DOMAIN dChan', NEW j \in DOMAIN dChan', i < j
        PROVE  ~Before(dChan'[j].file, dChan'[i].file)
    <3>1. i + 1 < j + 1
      BY <2>2, <2>3
    <3> QED
      BY <1>a, <2>2, <3>1
  <2>4. ASSUME NEW g \in DOMAIN incoming', NEW j \in DOMAIN dChan'
        PROVE  ~Before(dChan'[j].file, g)
    <3>1. 1 < j + 1
      BY <2>2, <2>4
    <3> QED
      BY <1>a, <1>e, <2>2, <2>4, <3>1
  <2> QED
    BY <1>a, <2>1, <2>3, <2>4
<1>1. ASSUME NEW files \in Seq(Nat), Begins(files) PROVE Done /\ At /\ Order
  <2>1. Done
    <3>1. ASSUME NEW c \in Down!Batches, c < dGen' PROVE dRun'[c].at \in {"over", "failed"}
      <4>1. c <= dGen /\ c # dGen + 1 /\ dRun[c].at \in Down!Ended
        BY <1>0, <1>1, <1>b, <3>1 DEF Begins
      <4> QED
        BY <1>1, <4>1 DEF Begins, DownRunInv, Down!Ended
    <3> QED
      BY <3>1
  <2> QED
    BY <1>1, <1>c, <2>1 DEF Begins
<1>2. ASSUME NEW b \in Down!Batches, PcSteps(b) PROVE Done /\ At /\ Order
  <2>1. /\ Only(b) /\ incoming' = incoming /\ dGen' = dGen
    BY <1>2, Zenon DEF PcSteps, Announces, SendsChunk, SendsAbort, Fails, Waits, Ends,
                       Breaks, Keeps
  <2>2. dRun[b].at \in {"next", "read", "waiting", "end"}
    BY <1>2, Zenon DEF PcSteps, Announces, SendsChunk, SendsAbort, Fails, Waits, Ends,
                       Breaks
  <2>3. b = dGen
    BY <1>0, <2>2, LastMoves DEF Down!Ended
  <2>4. Done
    <3>1. ASSUME NEW c \in Down!Batches, c < dGen' PROVE dRun'[c].at \in {"over", "failed"}
      <4>1. c # b /\ c < dGen
        BY <1>b, <2>1, <2>3, <3>1
      <4> QED
        BY <1>a, <2>1, <4>1 DEF Only
    <3> QED
      BY <3>1
  <2>5. CASE Announces(b)
    <3>1. PICK f : f = <<b, dRun[b].k + 1>>
      OBVIOUS
    <3>2. f \in DownFiles /\ f[1] = b /\ f[2] = dRun'[b].k /\ active' = f
      BY <2>5, <3>1, RunFields DEF Announces, DownFiles, DownTypeOK
    <3>3. Posts("file_start", f, 0, FALSE)
      BY <2>5, <3>1 DEF Announces
    <3> QED
      BY <1>d, <2>1, <2>3, <2>4, <3>2, <3>3
  <2>6. CASE SendsChunk(b)
    <3>1. PICK f : f = Down!File(b)
      OBVIOUS
    <3>2. /\ f \in DownFiles /\ f[1] = b /\ f[2] = dRun'[b].k /\ active' = active
          /\ dRun[b].idx \in Nat /\ Down!IsLast(b) \in BOOLEAN /\ dRun'[b].k = dRun[b].k
      BY <2>6, <3>1, OpenFile, AtFile DEF SendsChunk
    <3>3. PICK last \in BOOLEAN : last = Down!IsLast(b)
      BY <3>2
    <3>4. Posts("file_chunk", f, dRun[b].idx, last)
      BY <2>6, <3>1, <3>3 DEF SendsChunk
    <3>5. At
      BY <1>a, <2>1, <2>3, <3>2
    <3> QED
      BY <1>d, <2>1, <2>3, <2>4, <3>2, <3>4, <3>5
  <2>7. CASE SendsAbort(b)
    <3>1. PICK f : f = Down!File(b)
      OBVIOUS
    <3>2. /\ f \in DownFiles /\ f[1] = b /\ f[2] = dRun'[b].k /\ active' = active
          /\ dRun'[b].k = dRun[b].k
      BY <2>7, <3>1, OpenFile, AtFile DEF SendsAbort
    <3>3. Posts("file_abort", f, 0, FALSE)
      BY <2>7, <3>1 DEF SendsAbort
    <3>4. At
      BY <1>a, <2>1, <2>3, <3>2
    <3> QED
      BY <1>d, <2>1, <2>3, <2>4, <3>2, <3>3, <3>4
  <2>8. CASE Fails(b)
    <3>1. dChan' = dChan
      BY <2>8 DEF Fails
    <3>2. At
      BY <1>a, <2>1, <2>3, <2>8 DEF Fails
    <3> QED
      BY <1>c, <2>1, <2>4, <3>1, <3>2
  <2>9. CASE Waits(b) \/ Ends(b) \/ Breaks(b)
    <3>1. dChan' = dChan
      BY <2>9 DEF Waits, Ends, Breaks
    <3>2. At
      BY <1>a, <2>1, <2>3, <2>9 DEF Waits, Ends, Breaks
    <3> QED
      BY <1>c, <2>1, <2>4, <3>1, <3>2
  <2> QED
    BY <1>2, <2>5, <2>6, <2>7, <2>8, <2>9 DEF PcSteps
<1>3. CASE Cancels
  <2>1. dRun' = dRun /\ dGen' = dGen /\ active' = active /\ incoming' = incoming
    BY <1>3 DEF Cancels
  <2>2. CASE active # Down!NoFile /\ Posts("file_abort", active, 0, FALSE)
    <3>1. PICK f : f = active
      OBVIOUS
    <3>2. /\ f \in DownFiles /\ Posts("file_abort", f, 0, FALSE)
          /\ f[1] = dGen /\ f[2] = dRun[dGen].k /\ dGen \in Down!Batches
      BY <1>a, <2>2, <3>1 DEF DownTypeOK, DownFiles
    <3> QED
      BY <1>a, <1>d, <2>1, <3>2
  <2>3. CASE dChan' = dChan
    BY <1>a, <1>c, <2>1, <2>3
  <2> QED
    BY <1>3, <2>2, <2>3 DEF Cancels
<1>4. CASE Rests \/ Down!Break \/ Down!PcNotices \/ Down!Reconnect
      \/ Down!CleanUp \/ Down!HideBatch
  <2>1. /\ incoming' \in {incoming, <<>>} /\ dRun' = dRun /\ dChan' \in {dChan, <<>>}
        /\ dGen' = dGen /\ active' \in {active, Down!NoFile}
    BY <1>4 DEF Rests, Down!Break, Down!PcNotices, Down!Reconnect, Down!CleanUp,
                Down!HideBatch, Down!Forget, Down!pcVars, Down!linkVars, Down!phoneVars
  <2> QED
    BY <1>a, <1>c, <2>1
<1>5. CASE Gets("file_start") /\ Down!TakeStart(dChan[1])
  BY <1>5, <1>e DEF Down!TakeStart, Down!Put
<1>6. CASE Gets("file_chunk") /\ Down!TakeChunk(dChan[1])
  BY <1>6, <1>e DEF Down!TakeChunk, Down!Put, Down!Drop
<1>7. CASE Gets("file_abort") /\ Down!TakeAbort(dChan[1])
  BY <1>7, <1>e DEF Down!TakeAbort, Down!Drop
<1> QED
  BY <1>1, <1>2, <1>3, <1>4, <1>5, <1>6, <1>7 DEF DownStep

-----------------------------------------------------------------------------
(* Downloads: nothing follows an abort *)

\* No abort of the file has been handled or is on its way.
Unaborted == {f \in DownFiles :
    /\ f \notin aborted
    /\ \A i \in DOMAIN dChan : dChan[i].file = f => dChan[i].kind # "file_abort"}

\* A file that is open is so as long as nothing was cancelled, and a new one is.
LEMMA StillUnaborted ==
    ASSUME AnnouncedInv, AbortedInv, Down!Spared({"late", "overlap"}), NEW f \in DownFiles,
           (f \in Open /\ ~cancelled) \/ f \notin Announced
    PROVE  f \in Unaborted
BY DEF AbortedInv, AnnouncedInv, Unaborted

\* What a step of the coroutine leaves open was so before, or has just been announced.
LEMMA OpenedByStep ==
    ASSUME DownTypeOK, NEW b \in Down!Batches, PcSteps(b), NEW f \in Open'
    PROVE  f \in DownFiles /\ (f \in Open \/ (Announces(b) /\ f = <<b, dRun[b].k + 1>>))
<1>1. /\ Only(b) /\ f \in DownFiles /\ dRun'[f[1]].at \in {"read", "waiting"}
      /\ dRun'[f[1]].k = f[2]
  BY DEF PcSteps, Announces, SendsChunk, SendsAbort, Fails, Waits, Ends, Breaks, Open
<1>2. CASE f[1] # b
  BY <1>1, <1>2, OpenElsewhere
<1>3. CASE f[1] = b
  <2>1. f = <<b, f[2]>>
    BY <1>1, <1>3 DEF DownFiles
  <2>2. CASE Announces(b)
    BY <1>1, <1>3, <2>1, <2>2 DEF Announces
  <2>3. CASE SendsChunk(b) \/ Waits(b)
    BY <1>1, <1>3, <2>3 DEF SendsChunk, Waits, Open
  <2>4. CASE SendsAbort(b) \/ Fails(b) \/ Ends(b) \/ Breaks(b)
    BY <1>1, <1>3, <2>4 DEF SendsAbort, Fails, Ends, Breaks
  <2> QED
    BY <1>1, <2>2, <2>3, <2>4 DEF PcSteps
<1> QED
  BY <1>2, <1>3

\* A new file has not been announced.
LEMMA NewFile ==
    ASSUME DownTypeOK, NEW b \in Down!Batches, NEW f, f = <<b, dRun[b].k + 1>>
    PROVE  f \in DownFiles /\ f \notin Announced
<1>1. dRun[b].k \in Nat
  BY RunFields DEF DownTypeOK
<1> QED
  BY <1>1 DEF Announced, DownFiles

LEMMA AbortedStays ==
    DownTypeOK /\ DownRunInv /\ AnnouncedInv /\ AbortedInv /\ DownStep => AbortedInv'
<1> SUFFICES ASSUME DownTypeOK, DownRunInv, AnnouncedInv, AbortedInv, DownStep,
                    Down!Spared({"late", "overlap"})'
             PROVE  /\ \A i, j \in DOMAIN dChan' :
                          i < j /\ dChan'[i].kind = "file_abort"
                          /\ dChan'[j].file = dChan'[i].file
                          => dChan'[j].kind = "file_abort"
                    /\ \A j \in DOMAIN dChan' :
                          dChan'[j].kind # "file_abort" => dChan'[j].file \notin aborted'
                    /\ \A j \in DOMAIN dChan' :
                          dChan'[j].kind = "file_abort" /\ dChan'[j].file \in Open'
                          => cancelled'
                    /\ \A f \in aborted' : f \in Open' => cancelled'
  BY DEF AbortedInv
<1> DEFINE Follow == \A i, j \in DOMAIN dChan' :
                        i < j /\ dChan'[i].kind = "file_abort"
                        /\ dChan'[j].file = dChan'[i].file
                        => dChan'[j].kind = "file_abort"
           Fresh == \A j \in DOMAIN dChan' :
                        dChan'[j].kind # "file_abort" => dChan'[j].file \notin aborted'
           Shut == /\ \A j \in DOMAIN dChan' :
                        dChan'[j].kind = "file_abort" /\ dChan'[j].file \in Open' => cancelled'
                   /\ \A f \in aborted' : f \in Open' => cancelled'
<1> SUFFICES Follow /\ Fresh /\ Shut
  OBVIOUS
<1>0. /\ Down!Spared({"late", "overlap"})
      /\ "late" \notin dMishaps' /\ "overlap" \notin dMishaps'
  BY DefectsAreKept DEF Down!Spared
<1>a. /\ \A i, j \in DOMAIN dChan :
            i < j /\ dChan[i].kind = "file_abort" /\ dChan[j].file = dChan[i].file
            => dChan[j].kind = "file_abort"
      /\ \A j \in DOMAIN dChan : dChan[j].kind # "file_abort" => dChan[j].file \notin aborted
      /\ \A j \in DOMAIN dChan :
            dChan[j].kind = "file_abort" /\ dChan[j].file \in Open => cancelled
      /\ \A f \in aborted : f \in Open => cancelled
  BY <1>0 DEF AbortedInv
\* Nothing is sent or taken.
<1>b. ASSUME dChan' \in {dChan, <<>>}, aborted' = aborted,
             \A f \in Open' : cancelled' \/ f \in Unaborted
      PROVE  Follow /\ Fresh /\ Shut
  BY <1>a, <1>b DEF Unaborted
\* A message is sent.
<1>c. ASSUME NEW kind \in {"file_start", "file_chunk", "file_abort"}, NEW f \in DownFiles,
             NEW idx \in Nat, NEW last \in BOOLEAN, Posts(kind, f, idx, last),
             aborted' = aborted, \A g \in Open' : cancelled' \/ g \in Unaborted,
             IF kind = "file_abort" THEN cancelled' ELSE f \in Unaborted
      PROVE  Follow /\ Fresh /\ Shut
  <2>1. /\ Len(dChan) \in Nat /\ DOMAIN dChan = 1 .. Len(dChan)
        /\ \A i \in DOMAIN dChan : dChan'[i] = dChan[i] /\ i < Len(dChan) + 1
        /\ \A i \in DOMAIN dChan' : i \in DOMAIN dChan \/ i = Len(dChan) + 1
        /\ dChan'[Len(dChan) + 1].file = f /\ dChan'[Len(dChan) + 1].kind = kind
    BY <1>c, PostsDoes
  <2>2. Follow
    <3>1. ASSUME NEW i \in DOMAIN dChan', NEW j \in DOMAIN dChan', i < j,
                 dChan'[i].kind = "file_abort", dChan'[j].file = dChan'[i].file
          PROVE  dChan'[j].kind = "file_abort"
      <4>1. i \in DOMAIN dChan
        BY <2>1, <3>1
      <4>2. CASE j \in DOMAIN dChan
        BY <1>a, <2>1, <3>1, <4>1, <4>2
      <4>3. CASE j = Len(dChan) + 1
        BY <1>c, <2>1, <3>1, <4>1, <4>3 DEF Unaborted
      <4> QED
        BY <2>1, <4>2, <4>3
    <3> QED
      BY <3>1
  <2>3. Fresh
    BY <1>a, <1>c, <2>1 DEF Unaborted
  <2>4. Shut
    <3>1. CASE cancelled'
      BY <3>1
    <3>2. CASE ~cancelled'
      BY <1>c, <2>1, <3>2 DEF Unaborted
    <3> QED
      BY <3>1, <3>2
  <2> QED
    BY <2>2, <2>3, <2>4
\* A message is taken.
<1>d. ASSUME NEW kind, Gets(kind), NEW f, f = dChan[1].file,
             aborted' = IF kind = "file_abort" THEN aborted \cup {f} ELSE aborted
      PROVE  Follow /\ Fresh /\ Shut
  <2>1. Open' = Open /\ cancelled' = cancelled /\ dChan[1].kind = kind
    BY <1>d DEF Gets, Open
  <2>2. /\ 1 \in DOMAIN dChan
        /\ \A n \in DOMAIN dChan' : /\ n \in Nat \ {0} /\ 1 < n + 1 /\ n + 1 \in DOMAIN dChan
                                    /\ dChan'[n] = dChan[n + 1]
    BY <1>d, GetsDoes
  <2>3. Follow
    <3>1. ASSUME NEW i \in DOMAIN dChan', NEW j \in DOMAIN dChan', i < j
          PROVE  i + 1 < j + 1
      BY <2>2, <3>1
    <3> QED
      BY <1>a, <2>2, <3>1
  <2>4. Fresh
    BY <1>a, <1>d, <2>1, <2>2
  <2>5. Shut
    BY <1>a, <1>d, <2>1, <2>2
  <2> QED
    BY <2>3, <2>4, <2>5
<1>e. ASSUME NEW f \in Open PROVE f \in DownFiles /\ (cancelled \/ f \in Unaborted)
  BY <1>0, <1>e, StillUnaborted, OpenIsFile
<1>1. ASSUME NEW files \in Seq(Nat), Begins(files) PROVE Follow /\ Fresh /\ Shut
  <2>1. \A f \in Open' : FALSE
    <3>1. ASSUME NEW f \in Open' PROVE FALSE
      <4>1. f[1] \in Down!Batches /\ dRun'[f[1]].at \in {"read", "waiting"}
        BY <3>1 DEF Open, DownFiles
      <4>2. dRun[f[1]].at \notin {"read", "waiting"}
        BY <1>0, <1>1, <4>1 DEF Begins, Down!Ended
      <4> QED
        BY <1>1, <4>1, <4>2 DEF Begins
    <3> QED
      BY <3>1
  <2> QED
    BY <1>1, <1>b, <2>1 DEF Begins
<1>2. ASSUME NEW b \in Down!Batches, PcSteps(b) PROVE Follow /\ Fresh /\ Shut
  <2>1. cancelled' = cancelled /\ aborted' = aborted
    BY <1>2, Zenon DEF PcSteps, Announces, SendsChunk, SendsAbort, Fails, Waits, Ends,
                       Breaks, Keeps
  <2>2. ASSUME NEW f \in Open' PROVE cancelled' \/ f \in Unaborted
    <3>1. CASE f \in Open
      BY <1>e, <2>1, <3>1
    <3>2. CASE f = <<b, dRun[b].k + 1>>
      BY <1>0, <3>2, NewFile, StillUnaborted
    <3> QED
      BY <1>2, <2>2, <3>1, <3>2, OpenedByStep
  <2>3. CASE Announces(b)
    <3>1. PICK f : f = <<b, dRun[b].k + 1>>
      OBVIOUS
    <3>2. f \in DownFiles /\ f \in Unaborted
      BY <1>0, <3>1, NewFile, StillUnaborted
    <3>3. Posts("file_start", f, 0, FALSE)
      BY <2>3, <3>1 DEF Announces
    <3> QED
      BY <1>c, <2>1, <2>2, <3>2, <3>3
  <2>4. CASE SendsChunk(b)
    <3>1. PICK f : f = Down!File(b)
      OBVIOUS
    <3>2. /\ f \in DownFiles /\ f[1] = b /\ f[2] = dRun[b].k /\ dRun[b].idx \in Nat
          /\ Down!IsLast(b) \in BOOLEAN /\ dRun[b].at \in {"read", "waiting"}
      BY <2>4, <3>1, OpenFile, AtFile DEF SendsChunk
    <3>3. PICK last \in BOOLEAN : last = Down!IsLast(b)
      BY <3>2
    <3>4. Posts("file_chunk", f, dRun[b].idx, last)
      BY <2>4, <3>1, <3>3 DEF SendsChunk
    <3>5. ~cancelled
      BY <1>0, <2>4 DEF SendsChunk
    <3>6. f \in Unaborted
      BY <1>e, <3>2, <3>5 DEF Open
    <3> QED
      BY <1>c, <2>1, <2>2, <3>2, <3>4, <3>6
  <2>5. CASE SendsAbort(b)
    <3>1. PICK f : f = Down!File(b)
      OBVIOUS
    <3>2. f \in DownFiles /\ Posts("file_abort", f, 0, FALSE) /\ cancelled
      BY <2>5, <3>1, OpenFile DEF SendsAbort
    <3> QED
      BY <1>c, <2>1, <2>2, <3>2
  <2>6. CASE Fails(b) \/ Waits(b) \/ Ends(b) \/ Breaks(b)
    <3>1. dChan' = dChan
      BY <2>6 DEF Fails, Waits, Ends, Breaks
    <3> QED
      BY <1>b, <2>1, <2>2, <3>1
  <2> QED
    BY <1>2, <2>3, <2>4, <2>5, <2>6 DEF PcSteps
<1>3. CASE Cancels
  <2>1. cancelled' = TRUE /\ aborted' = aborted
    BY <1>3 DEF Cancels
  <2>2. CASE active # Down!NoFile /\ Posts("file_abort", active, 0, FALSE)
    <3>1. PICK f : f = active
      OBVIOUS
    <3>2. f \in DownFiles /\ Posts("file_abort", f, 0, FALSE)
      BY <2>2, <3>1 DEF DownTypeOK
    <3> QED
      BY <1>c, <2>1, <3>2
  <2>3. CASE dChan' = dChan
    BY <1>b, <2>1, <2>3
  <2> QED
    BY <1>3, <2>2, <2>3 DEF Cancels
<1>4. CASE Rests \/ Down!Break \/ Down!Reconnect
      \/ Down!CleanUp \/ Down!HideBatch
  <2>1. /\ dRun' = dRun /\ dChan' \in {dChan, <<>>}
        /\ aborted' = aborted /\ cancelled' = cancelled
    BY <1>4 DEF Rests, Down!Break, Down!Reconnect, Down!CleanUp, Down!HideBatch,
                Down!pcVars, Down!linkVars, Down!phoneVars
  <2>2. Open' = Open
    BY <2>1 DEF Open
  <2>3. \A f \in Open' : cancelled' \/ f \in Unaborted
    BY <1>e, <2>1, <2>2
  <2> QED
    BY <1>b, <2>1, <2>3
<1>5. CASE Down!PcNotices
  BY <1>5, <1>b DEF Down!PcNotices, Down!phoneVars
<1>6. CASE Gets("file_start") /\ Down!TakeStart(dChan[1])
  BY <1>6, <1>d DEF Down!TakeStart
<1>7. CASE Gets("file_chunk") /\ Down!TakeChunk(dChan[1])
  BY <1>7, <1>d DEF Down!TakeChunk
<1>8. CASE Gets("file_abort") /\ Down!TakeAbort(dChan[1])
  BY <1>8, <1>d DEF Down!TakeAbort
<1> QED
  BY <1>1, <1>2, <1>3, <1>4, <1>5, <1>6, <1>7, <1>8 DEF DownStep

-----------------------------------------------------------------------------
(* Downloads: every chunk comes after the start of the file and the chunks before it *)

LEMMA ChunksStay ==
    /\ DownTypeOK /\ DownTypeOK' /\ DownRunInv /\ AnnouncedInv /\ DownLinkInv /\ AbortedInv
    /\ DownOrderInv /\ ChunksInv /\ DownStep
    => ChunksInv'
<1> SUFFICES ASSUME DownTypeOK, DownTypeOK', DownRunInv, AnnouncedInv, DownLinkInv, AbortedInv,
                    DownOrderInv, ChunksInv, DownStep,
                    Down!Spared({"late", "overlap", "cleanup"})'
             PROVE  ChunksInv'
  BY DEF ChunksInv
<1> DEFINE Start1(f, n) == \/ f \in DOMAIN incoming
                           \/ \E j \in DOMAIN dChan : /\ j < n /\ dChan[j].kind = "file_start"
                                                      /\ dChan[j].file = f
           Start2(f, n) == \/ f \in DOMAIN incoming'
                           \/ \E j \in DOMAIN dChan' : /\ j < n /\ dChan'[j].kind = "file_start"
                                                       /\ dChan'[j].file = f
           Chunk1(f, i, n) == \/ f \in DOMAIN incoming /\ i \in incoming[f]
                              \/ \E j \in DOMAIN dChan :
                                    /\ j < n /\ dChan[j].kind = "file_chunk"
                                    /\ dChan[j].file = f /\ dChan[j].idx = i
           Chunk2(f, i, n) == \/ f \in DOMAIN incoming' /\ i \in incoming'[f]
                              \/ \E j \in DOMAIN dChan' :
                                    /\ j < n /\ dChan'[j].kind = "file_chunk"
                                    /\ dChan'[j].file = f /\ dChan'[j].idx = i
           Has1(f, i, n) == Start1(f, n) /\ \A c \in 0 .. i - 1 : Chunk1(f, c, n)
           Has2(f, i, n) == Start2(f, n) /\ \A c \in 0 .. i - 1 : Chunk2(f, c, n)
           Size1(f) == dRun[f[1]].files[f[2]]
           Size2(f) == dRun'[f[1]].files[f[2]]
           After == \A n \in DOMAIN dChan' :
                       dChan'[n].kind = "file_chunk" => Has2(dChan'[n].file, dChan'[n].idx, n)
           Last == \A n \in DOMAIN dChan' :
                      dChan'[n].last => /\ dChan'[n].file \notin Open'
                                        /\ dChan'[n].idx + 1 >= Size2(dChan'[n].file)
           NoMore == \A n, m \in DOMAIN dChan' :
                        n < m /\ dChan'[n].last /\ dChan'[m].file = dChan'[n].file
                        => dChan'[m].kind = "file_abort"
           First == \A n \in DOMAIN dChan' :
                       dChan'[n].kind = "file_start" =>
                          /\ dChan'[n].file \notin DOMAIN incoming'
                          /\ \A m \in DOMAIN dChan' : m < n => dChan'[m].file # dChan'[n].file
           Reading == \A b \in Down!Batches :
                         dRun'[b].at \in {"read", "waiting"} /\ dUp' /\ ~cancelled'
                         => Has2(<<b, dRun'[b].k>>, dRun'[b].idx, Len(dChan') + 1)
           Goal == After /\ Last /\ NoMore /\ First /\ Reading
<1>z. SUFFICES Goal
  <2>1. ASSUME After PROVE (\A n \in DOMAIN dChan :
                              dChan[n].kind = "file_chunk" =>
                                   /\ HasStart(dChan[n].file, n)
                                   /\ \A i \in 0 .. dChan[n].idx - 1 :
                                         HasChunk(dChan[n].file, i, n))'
    BY <2>1 DEF HasStart, HasChunk
  <2>2. ASSUME Last PROVE (\A n \in DOMAIN dChan :
                             dChan[n].last => /\ dChan[n].file \notin Open
                                              /\ dChan[n].idx + 1 >= Down!Chunks(dChan[n].file))'
    BY <2>2 DEF Down!Chunks, Down!Files
  <2>3. ASSUME Reading PROVE (\A b \in Down!Batches :
                                dRun[b].at \in {"read", "waiting"} /\ dUp /\ ~cancelled =>
                                     /\ HasStart(Down!File(b), Len(dChan) + 1)
                                     /\ \A i \in 0 .. dRun[b].idx - 1 :
                                           HasChunk(Down!File(b), i, Len(dChan) + 1))'
    <3>1. ASSUME NEW b \in Down!Batches, Has2(<<b, dRun'[b].k>>, dRun'[b].idx, Len(dChan') + 1)
          PROVE  (HasStart(Down!File(b), Len(dChan) + 1))'
      BY <3>1 DEF HasStart, Down!File
    <3>2. ASSUME NEW b \in Down!Batches, Has2(<<b, dRun'[b].k>>, dRun'[b].idx, Len(dChan') + 1)
          PROVE  (\A i \in 0 .. dRun[b].idx - 1 : HasChunk(Down!File(b), i, Len(dChan) + 1))'
      <4>1. PICK f : f = <<b, dRun'[b].k>>
        OBVIOUS
      <4>2. PICK n : n = Len(dChan') + 1
        OBVIOUS
      <4>3. \A i \in 0 .. dRun'[b].idx - 1 : Chunk2(f, i, n)
        BY <3>2, <4>1, <4>2
      <4> QED
        BY <4>1, <4>2, <4>3 DEF HasChunk, Down!File
    <3> HIDE DEF Has2
    <3> QED
      BY <2>3, <3>1, <3>2
  <2> HIDE DEF After, Last, Reading
  <2> QED
    BY <2>1, <2>2, <2>3 DEF ChunksInv
<1>0. /\ Down!Spared({"late", "overlap", "cleanup"}) /\ Down!Spared({"late", "overlap"})
      /\ Down!Spared({"overlap"})
      /\ "late" \notin dMishaps' /\ "overlap" \notin dMishaps' /\ "cleanup" \notin dMishaps'
  BY DefectsAreKept DEF Down!Spared
<1>a. /\ \A n \in DOMAIN dChan :
            dChan[n].kind = "file_chunk" => Has1(dChan[n].file, dChan[n].idx, n)
      /\ \A n \in DOMAIN dChan :
            dChan[n].last => /\ dChan[n].file \notin Open
                             /\ dChan[n].idx + 1 >= Size1(dChan[n].file)
      /\ \A n, m \in DOMAIN dChan :
            n < m /\ dChan[n].last /\ dChan[m].file = dChan[n].file
            => dChan[m].kind = "file_abort"
      /\ \A n \in DOMAIN dChan :
            dChan[n].kind = "file_start" =>
               /\ dChan[n].file \notin DOMAIN incoming
               /\ \A m \in DOMAIN dChan : m < n => dChan[m].file # dChan[n].file
      /\ \A b \in Down!Batches :
            dRun[b].at \in {"read", "waiting"} /\ dUp /\ ~cancelled
            => Has1(<<b, dRun[b].k>>, dRun[b].idx, Len(dChan) + 1)
  <2>1. \A f, n : HasStart(f, n) = Start1(f, n)
    BY DEF HasStart
  <2>2. \A f, i, n : HasChunk(f, i, n) = Chunk1(f, i, n)
    BY DEF HasChunk
  <2>3. \A f : Down!Chunks(f) = Size1(f)
    BY DEF Down!Chunks, Down!Files
  <2> HIDE DEF Start1, Chunk1, Size1
  <2>4. \A n \in DOMAIN dChan :
          dChan[n].kind = "file_chunk" => Has1(dChan[n].file, dChan[n].idx, n)
    BY <1>0, <2>1, <2>2 DEF ChunksInv
  <2>5. \A b \in Down!Batches :
          dRun[b].at \in {"read", "waiting"} /\ dUp /\ ~cancelled
          => Has1(<<b, dRun[b].k>>, dRun[b].idx, Len(dChan) + 1)
    BY <1>0, <2>1, <2>2 DEF ChunksInv, Down!File
  <2> QED
    BY <1>0, <2>3, <2>4, <2>5 DEF ChunksInv
<1>b. /\ DOMAIN dChan = 1 .. Len(dChan) /\ Len(dChan) \in Nat
      /\ \A n \in DOMAIN dChan : /\ dChan[n].file \in Announced /\ dChan[n].idx \in Nat
                                 /\ dChan[n].file \in DownFiles
                                 /\ dChan[n].last => dChan[n].kind = "file_chunk"
  <2>1. ASSUME NEW n \in DOMAIN dChan PROVE dChan[n] \in DownMessages
    BY <2>1, ElementOfSeq, LenProperties DEF DownTypeOK
  <2> QED
    BY <2>1, LenProperties DEF DownMessages, AnnouncedInv, DownTypeOK
<1>c. \A f \in Announced : Size2(f) = Size1(f)
  BY AnnouncedStays DEF Down!Chunks, Down!Files
<1> HIDE DEF Has1, Has2
\* Nothing is sent or taken.
<1>d. ASSUME dChan' = dChan, incoming' = incoming,
             \A f \in Open' : f \in Open \/ f \notin Announced,
             \A b \in Down!Batches : dRun'[b].at \in {"read", "waiting"} /\ dUp' /\ ~cancelled'
                                     => /\ dUp /\ ~cancelled /\ dRun'[b].k = dRun[b].k
                                        /\ dRun'[b].idx = dRun[b].idx
                                        /\ dRun[b].at \in {"read", "waiting"}
      PROVE  Goal
  <2>1. \A f, i, n : Has1(f, i, n) => Has2(f, i, n)
    BY <1>d DEF Has1, Has2
  <2>2. After /\ NoMore /\ First
    BY <1>a, <1>d, <2>1
  <2>3. Last
    BY <1>a, <1>b, <1>c, <1>d
  <2>4. Reading
    BY <1>a, <1>d, <2>1
  <2> QED
    BY <2>2, <2>3, <2>4
\* A message is sent.
<1>e. ASSUME NEW kind \in {"file_start", "file_chunk", "file_abort"}, NEW f \in DownFiles,
             NEW idx \in Nat, NEW last \in BOOLEAN, Posts(kind, f, idx, last),
             incoming' = incoming, \A g \in Open' : g \in Open \/ g \notin Announced
      PROVE  /\ \A g, i : Has1(g, i, Len(dChan) + 1) => Has2(g, i, Len(dChan') + 1)
             /\ (kind = "file_start" => f \notin Announced) => First
             /\ (\/ kind = "file_abort"
                 \/ \A n \in DOMAIN dChan : dChan[n].file = f => ~dChan[n].last) => NoMore
             /\ (last => f \notin Open' /\ idx + 1 >= Size2(f)) => Last
             /\ (kind = "file_chunk" => Has1(f, idx, Len(dChan) + 1)) => After
             /\ kind = "file_start" => Has2(f, 0, Len(dChan') + 1)
             /\ kind = "file_chunk" /\ Has1(f, idx, Len(dChan) + 1)
                => Has2(f, idx + 1, Len(dChan') + 1)
  <2>1. /\ DOMAIN dChan' = 1 .. Len(dChan) + 1 /\ Len(dChan') = Len(dChan) + 1
        /\ \A i \in DOMAIN dChan : /\ dChan'[i] = dChan[i] /\ i < Len(dChan) + 1
                                   /\ i \in DOMAIN dChan'
        /\ \A i \in DOMAIN dChan' : i \in DOMAIN dChan \/ i = Len(dChan) + 1
        /\ Len(dChan) + 1 \in DOMAIN dChan' /\ dChan'[Len(dChan) + 1].file = f
        /\ dChan'[Len(dChan) + 1].kind = kind /\ dChan'[Len(dChan) + 1].idx = idx
        /\ dChan'[Len(dChan) + 1].last = last
    BY <1>b, <1>e, PostsDoes
  <2>2. ASSUME NEW g, NEW i, NEW n \in DOMAIN dChan', Has1(g, i, n) PROVE Has2(g, i, n)
    BY <1>e, <2>1, <2>2 DEF Has1, Has2
  <2>3. ASSUME NEW g, NEW i, Has1(g, i, Len(dChan) + 1) PROVE Has2(g, i, Len(dChan') + 1)
    <3>1. \A j \in DOMAIN dChan :
             dChan'[j] = dChan[j] /\ j \in DOMAIN dChan' /\ j < Len(dChan') + 1
      BY <1>b, <2>1
    <3> QED
      BY <1>e, <2>3, <3>1 DEF Has1, Has2
  <2>4. ASSUME kind = "file_start" => f \notin Announced PROVE First
    <3>1. ASSUME NEW n \in DOMAIN dChan', dChan'[n].kind = "file_start"
          PROVE  /\ dChan'[n].file \notin DOMAIN incoming'
                 /\ \A m \in DOMAIN dChan' : m < n => dChan'[m].file # dChan'[n].file
      <4>1. CASE n \in DOMAIN dChan
        <5>1. \A m \in DOMAIN dChan' : m < n => m \in DOMAIN dChan
          BY <1>b, <2>1, <4>1
        <5> QED
          BY <1>a, <1>e, <2>1, <3>1, <4>1, <5>1
      <4>2. CASE n = Len(dChan) + 1
        <5>1. \A m \in DOMAIN dChan' : m < n => m \in DOMAIN dChan
          BY <1>b, <2>1, <4>2
        <5> QED
          BY <1>b, <1>e, <2>1, <2>4, <3>1, <4>2, <5>1 DEF AnnouncedInv
      <4> QED
        BY <2>1, <4>1, <4>2
    <3> QED
      BY <3>1
  <2>5. ASSUME \/ kind = "file_abort"
               \/ \A n \in DOMAIN dChan : dChan[n].file = f => ~dChan[n].last
        PROVE  NoMore
    <3>1. ASSUME NEW n \in DOMAIN dChan', NEW m \in DOMAIN dChan', n < m, dChan'[n].last,
                 dChan'[m].file = dChan'[n].file
          PROVE  dChan'[m].kind = "file_abort"
      <4>1. n \in DOMAIN dChan
        BY <1>b, <2>1, <3>1
      <4>2. CASE m \in DOMAIN dChan
        BY <1>a, <2>1, <3>1, <4>1, <4>2
      <4>3. CASE m = Len(dChan) + 1
        BY <2>1, <2>5, <3>1, <4>1, <4>3
      <4> QED
        BY <2>1, <4>2, <4>3
    <3> QED
      BY <3>1
  <2>6. ASSUME last => f \notin Open' /\ idx + 1 >= Size2(f) PROVE Last
    <3>1. ASSUME NEW n \in DOMAIN dChan', dChan'[n].last
          PROVE  dChan'[n].file \notin Open' /\ dChan'[n].idx + 1 >= Size2(dChan'[n].file)
      <4>1. CASE n \in DOMAIN dChan
        BY <1>a, <1>b, <1>c, <1>e, <2>1, <3>1, <4>1
      <4>2. CASE n = Len(dChan) + 1
        BY <2>1, <2>6, <3>1, <4>2
      <4> QED
        BY <2>1, <4>1, <4>2
    <3> QED
      BY <3>1
  <2>7. ASSUME kind = "file_chunk" => Has1(f, idx, Len(dChan) + 1) PROVE After
    <3>1. ASSUME NEW n \in DOMAIN dChan', dChan'[n].kind = "file_chunk"
          PROVE  Has2(dChan'[n].file, dChan'[n].idx, n)
      <4>1. CASE n \in DOMAIN dChan
        BY <1>a, <2>1, <2>2, <3>1, <4>1
      <4>2. CASE n = Len(dChan) + 1
        BY <2>1, <2>2, <2>7, <3>1, <4>2
      <4> QED
        BY <2>1, <4>1, <4>2
    <3> QED
      BY <3>1
  <2>8. Len(dChan) + 1 < Len(dChan') + 1
    BY <1>b, <2>1
  <2>9. ASSUME kind = "file_start" PROVE Has2(f, 0, Len(dChan') + 1)
    BY <2>1, <2>8, <2>9 DEF Has2
  <2>10. ASSUME kind = "file_chunk", Has1(f, idx, Len(dChan) + 1)
         PROVE  Has2(f, idx + 1, Len(dChan') + 1)
    <3>1. Has2(f, idx, Len(dChan') + 1)
      BY <2>3, <2>10
    <3>2. Chunk2(f, idx, Len(dChan') + 1)
      BY <2>1, <2>8, <2>10
    <3>3. \A c \in 0 .. idx + 1 - 1 : c \in 0 .. idx - 1 \/ c = idx
      OBVIOUS
    <3> QED
      BY <3>1, <3>2, <3>3 DEF Has2
  <2> QED
    BY <2>3, <2>4, <2>5, <2>6, <2>7, <2>9, <2>10
\* A message is taken.
<1>f. ASSUME NEW kind, Gets(kind), NEW f, f = dChan[1].file,
             DOMAIN incoming' \subseteq DOMAIN incoming \cup {f},
             \A g \in DOMAIN incoming :
                g # f => g \in DOMAIN incoming' /\ incoming'[g] = incoming[g],
             \/ kind = "file_abort" \/ dChan[1].last
             \/ /\ f \in DOMAIN incoming'
                /\ f \in DOMAIN incoming => incoming[f] \subseteq incoming'[f]
                /\ kind = "file_chunk" => dChan[1].idx \in incoming'[f]
      PROVE  Goal
  <2>1. /\ Open' = Open /\ cancelled' = cancelled /\ dUp' = dUp /\ dRun' = dRun
        /\ dChan[1].kind = kind /\ Len(dChan') + 1 = Len(dChan)
    BY <1>b, <1>f, GetsDoes DEF Gets, Open
  <2>2. /\ 1 \in DOMAIN dChan
        /\ \A n \in DOMAIN dChan' : /\ n \in Nat \ {0} /\ 1 < n + 1 /\ n + 1 \in DOMAIN dChan
                                    /\ dChan'[n] = dChan[n + 1]
        /\ \A n \in DOMAIN dChan :
              n # 1 => n \in Nat /\ n - 1 \in DOMAIN dChan' /\ dChan'[n - 1] = dChan[n]
    BY <1>f, GetsDoes
  <2> DEFINE Kept == /\ f \in DOMAIN incoming'
                     /\ f \in DOMAIN incoming => incoming[f] \subseteq incoming'[f]
                     /\ kind = "file_chunk" => dChan[1].idx \in incoming'[f]
  <2>3. ASSUME NEW g, NEW n \in Nat, g # f \/ Kept
        PROVE  /\ Start1(g, n + 1) => Start2(g, n)
               /\ \A i : Chunk1(g, i, n + 1) => Chunk2(g, i, n)
    <3>1. ASSUME NEW j \in DOMAIN dChan, j < n + 1, dChan[j].file = g, g # f \/ j # 1
          PROVE  j - 1 \in DOMAIN dChan' /\ j - 1 < n /\ dChan'[j - 1] = dChan[j]
      BY <1>f, <2>2, <2>3, <3>1
    <3>2. CASE g # f
      BY <1>f, <3>1, <3>2
    <3>3. CASE g = f
      <4>1. Kept
        BY <2>3, <3>3
      <4>2. Start2(g, n)
        BY <3>3, <4>1
      <4>3. ASSUME NEW i, Chunk1(g, i, n + 1) PROVE Chunk2(g, i, n)
        <5>1. CASE f \in DOMAIN incoming /\ i \in incoming[f]
          BY <3>3, <4>1, <5>1
        <5>2. ASSUME NEW j \in DOMAIN dChan, j < n + 1, dChan[j].kind = "file_chunk",
                     dChan[j].file = g, dChan[j].idx = i
              PROVE  Chunk2(g, i, n)
          <6>1. CASE j = 1
            BY <2>1, <3>3, <4>1, <5>2, <6>1
          <6>2. CASE j # 1
            BY <3>1, <5>2, <6>2
          <6> QED
            BY <6>1, <6>2
        <5> QED
          BY <3>3, <4>3, <5>1, <5>2
      <4> QED
        BY <4>2, <4>3
    <3> QED
      BY <3>2, <3>3
  <2> HIDE DEF Kept
  <2>4. ASSUME NEW g, NEW i, NEW n \in Nat, g # f \/ Kept, Has1(g, i, n + 1)
        PROVE  Has2(g, i, n)
    <3> HIDE DEF Start1, Start2, Chunk1, Chunk2
    <3> QED
      BY <2>3, <2>4 DEF Has1, Has2
  <2>5. kind = "file_abort" \/ dChan[1].last \/ Kept
    BY <1>f DEF Kept
  <2>6. After
    <3>1. ASSUME NEW n \in DOMAIN dChan', dChan'[n].kind = "file_chunk"
          PROVE  Has2(dChan'[n].file, dChan'[n].idx, n)
      <4>1. n \in Nat /\ n + 1 \in DOMAIN dChan /\ 1 < n + 1 /\ dChan'[n] = dChan[n + 1]
        BY <2>2, <3>1
      <4>2. Has1(dChan[n + 1].file, dChan[n + 1].idx, n + 1)
        BY <1>a, <3>1, <4>1
      <4>3. kind = "file_abort" => dChan[n + 1].file # f
        BY <1>0, <1>f, <2>1, <2>2, <3>1, <4>1 DEF AbortedInv
      <4>4. dChan[1].last => dChan[n + 1].file # f
        BY <1>a, <1>f, <2>2, <3>1, <4>1
      <4> QED
        BY <2>4, <2>5, <4>1, <4>2, <4>3, <4>4
    <3> QED
      BY <3>1
  <2>7. Last
    BY <1>a, <1>b, <1>c, <2>1, <2>2
  <2>8. NoMore
    <3>1. ASSUME NEW n \in DOMAIN dChan', NEW m \in DOMAIN dChan', n < m
          PROVE  n + 1 < m + 1
      BY <2>2, <3>1
    <3> QED
      BY <1>a, <2>2, <3>1
  <2>9. First
    <3>1. ASSUME NEW n \in DOMAIN dChan', dChan'[n].kind = "file_start"
          PROVE  /\ dChan'[n].file \notin DOMAIN incoming'
                 /\ \A m \in DOMAIN dChan' : m < n => dChan'[m].file # dChan'[n].file
      <4>1. n \in Nat /\ n + 1 \in DOMAIN dChan /\ 1 < n + 1 /\ dChan'[n] = dChan[n + 1]
        BY <2>2, <3>1
      <4>2. dChan'[n].file # f /\ dChan'[n].file \notin DOMAIN incoming
        BY <1>a, <1>f, <2>2, <3>1, <4>1
      <4>3. \A m \in DOMAIN dChan' : m < n => m + 1 < n + 1
        BY <2>2, <4>1
      <4> QED
        BY <1>a, <1>f, <2>2, <3>1, <4>1, <4>2, <4>3
    <3> QED
      BY <3>1
  <2>10. Reading
    <3>1. ASSUME NEW b \in Down!Batches, dRun[b].at \in {"read", "waiting"}, dUp, ~cancelled
          PROVE  Has2(<<b, dRun[b].k>>, dRun[b].idx, Len(dChan') + 1)
      <4>1. PICK g : g = <<b, dRun[b].k>>
        OBVIOUS
      <4>2. g \in DownFiles /\ g \in Open
        BY <3>1, <4>1, OpenFile, AtFile DEF Down!File, Open
      <4>3. Has1(g, dRun[b].idx, Len(dChan) + 1)
        BY <1>a, <3>1, <4>1
      <4>4. dChan[1].last => g # f
        BY <1>a, <1>f, <2>2, <4>2
      <4>5. kind = "file_abort" => g # f
        BY <1>0, <1>f, <2>1, <2>2, <3>1, <4>2 DEF AbortedInv
      <4>6. Len(dChan') + 1 = Len(dChan) /\ Len(dChan) \in Nat
        BY <1>b, <2>1
      <4>7. PICK n : n = Len(dChan') + 1
        OBVIOUS
      <4>8. n \in Nat /\ Has1(g, dRun[b].idx, n + 1)
        BY <4>3, <4>6, <4>7
      <4>9. Has2(g, dRun[b].idx, n)
        BY <2>4, <2>5, <4>4, <4>5, <4>8
      <4> QED
        BY <4>1, <4>7, <4>9
    <3> QED
      BY <2>1, <3>1
  <2> HIDE DEF After, Last, NoMore, First, Reading
  <2> QED
    BY <2>6, <2>7, <2>8, <2>9, <2>10
<1>1. ASSUME NEW files \in Seq(Nat), Begins(files) PROVE Goal
  <2>1. ASSUME NEW c \in Down!Batches PROVE dRun'[c].at \notin {"read", "waiting"}
    <3>1. dRun[c].at \notin {"read", "waiting"}
      BY <1>0, <1>1, <2>1 DEF Begins, Down!Ended
    <3> QED
      BY <1>1, <3>1 DEF Begins
  <2>2. \A f \in Open' : FALSE
    BY <2>1 DEF Open, DownFiles
  <2>3. dChan' = dChan /\ incoming' = incoming
    BY <1>1 DEF Begins
  <2> HIDE DEF Goal
  <2> QED
    BY <1>d, <2>1, <2>2, <2>3
<1>2. ASSUME NEW b \in Down!Batches, PcSteps(b) PROVE Goal
  <2>1. cancelled' = cancelled /\ incoming' = incoming /\ dUp' = dUp /\ Only(b)
    BY <1>2, Zenon DEF PcSteps, Announces, SendsChunk, SendsAbort, Fails, Waits, Ends,
                       Breaks, Keeps
  <2>2. \A f \in Open' : f \in Open \/ f \notin Announced
    BY <1>2, OpenedByStep, NewFile
  <2>3. \A c \in Down!Batches : c # b => dRun'[c] = dRun[c]
    BY <2>1 DEF Only
  <2>4. CASE Announces(b)
    <3>1. PICK f : f = <<b, dRun[b].k + 1>>
      OBVIOUS
    <3>2. f \in DownFiles /\ f \notin Announced /\ f = <<b, dRun'[b].k>> /\ dRun'[b].idx = 0
      BY <2>4, <3>1, NewFile DEF Announces
    <3>3. Posts("file_start", f, 0, FALSE)
      BY <2>4, <3>1 DEF Announces
    <3>4. /\ \A g, i : Has1(g, i, Len(dChan) + 1) => Has2(g, i, Len(dChan') + 1)
          /\ Has2(f, 0, Len(dChan') + 1) /\ First /\ NoMore /\ Last /\ After
      <4>1. \A n \in DOMAIN dChan : dChan[n].file = f => ~dChan[n].last
        BY <1>b, <3>2
      <4>2. f \in DownFiles /\ f \notin Announced /\ 0 \in Nat
        BY <3>2
      <4> HIDE DEF First, NoMore, Last, After
      <4> QED
        BY <1>e, <2>1, <2>2, <3>3, <4>1, <4>2
    <3>5. Reading
      BY <1>a, <2>1, <2>3, <3>2, <3>4 DEF Posts
    <3> QED
      BY <3>4, <3>5
  <2>5. CASE SendsChunk(b)
    <3>1. PICK f : f = Down!File(b)
      OBVIOUS
    <3>2. /\ f \in DownFiles /\ f = <<b, dRun'[b].k>> /\ dRun[b].idx \in Nat
          /\ Down!IsLast(b) \in BOOLEAN /\ dRun[b].at \in {"read", "waiting"}
          /\ f = <<b, dRun[b].k>> /\ f \in Announced /\ f \in Open
          /\ dRun'[b].idx = dRun[b].idx + 1
      BY <2>5, <3>1, OpenFile, AtFile DEF SendsChunk, Down!File, Open
    <3>3. PICK last \in BOOLEAN : last = Down!IsLast(b)
      BY <3>2
    <3>4. Posts("file_chunk", f, dRun[b].idx, last) /\ dUp
      BY <2>5, <3>1, <3>3 DEF SendsChunk, Posts
    <3>5. ~cancelled
      BY <1>0, <2>5 DEF SendsChunk
    <3>6. Has1(f, dRun[b].idx, Len(dChan) + 1)
      BY <1>a, <3>2, <3>4, <3>5
    <3>7. last => f \notin Open' /\ dRun[b].idx + 1 >= Size2(f)
      <4>1. Size2(f) = Down!Size(b)
        BY <1>c, <3>2 DEF Down!Size, Down!Files
      <4> QED
        <5>1. ASSUME last PROVE f \notin Open'
          <6>1. f[1] = b /\ dRun'[b].at = "end"
            BY <2>5, <3>2, <3>3, <5>1 DEF SendsChunk
          <6> QED
            BY <6>1 DEF Open
        <5>2. ASSUME last PROVE dRun[b].idx + 1 >= Size2(f)
          <6> HIDE DEF Size2
          <6> QED
            BY <3>3, <4>1, <5>2 DEF Down!IsLast
        <5> QED
          BY <5>1, <5>2
    <3>8. \A n \in DOMAIN dChan : dChan[n].file = f => ~dChan[n].last
      BY <1>a, <3>2
    <3>9. /\ \A g, i : Has1(g, i, Len(dChan) + 1) => Has2(g, i, Len(dChan') + 1)
          /\ Has2(f, dRun[b].idx + 1, Len(dChan') + 1) /\ First /\ NoMore /\ Last /\ After
      <4> HIDE DEF First, NoMore, Last, After
      <4> QED
        BY <1>e, <2>1, <2>2, <3>2, <3>4, <3>6, <3>7, <3>8
    <3>10. Reading
      BY <1>a, <2>1, <2>3, <3>2, <3>4, <3>9
    <3> QED
      BY <3>9, <3>10
  <2>6. CASE SendsAbort(b)
    <3>1. PICK f : f = Down!File(b)
      OBVIOUS
    <3>2. f \in DownFiles /\ Posts("file_abort", f, 0, FALSE) /\ cancelled'
      BY <2>1, <2>6, <3>1, OpenFile DEF SendsAbort
    <3>3. First /\ NoMore /\ Last /\ After
      <4> HIDE DEF First, NoMore, Last, After
      <4> QED
        BY <1>e, <2>1, <2>2, <3>2
    <3> QED
      BY <3>2, <3>3
  <2>7. CASE Fails(b) \/ Waits(b) \/ Ends(b) \/ Breaks(b)
    <3>1. /\ dChan' = dChan
          /\ dRun'[b].at \in {"read", "waiting"}
             => /\ dRun'[b].k = dRun[b].k /\ dRun'[b].idx = dRun[b].idx
                /\ dRun[b].at \in {"read", "waiting"}
      BY <2>7 DEF Fails, Waits, Ends, Breaks
    <3> HIDE DEF Goal
    <3> QED
      BY <1>d, <2>1, <2>2, <2>3, <3>1
  <2> HIDE DEF Goal
  <2> QED
    BY <1>2, <2>4, <2>5, <2>6, <2>7 DEF PcSteps
<1>3. CASE Cancels
  <2>1. cancelled' = TRUE /\ incoming' = incoming /\ Open' = Open
    BY <1>3 DEF Cancels, Open
  <2>2. CASE active # Down!NoFile /\ Posts("file_abort", active, 0, FALSE)
    <3>1. PICK f : f = active
      OBVIOUS
    <3>2. f \in DownFiles /\ Posts("file_abort", f, 0, FALSE)
      BY <2>2, <3>1 DEF DownTypeOK
    <3>3. First /\ NoMore /\ Last /\ After
      <4> HIDE DEF First, NoMore, Last, After
      <4> QED
        BY <1>e, <2>1, <3>2
    <3> QED
      BY <2>1, <3>3
  <2>3. CASE dChan' = dChan
    <3> HIDE DEF Goal
    <3> QED
      BY <1>d, <2>1, <2>3
  <2> QED
    BY <1>3, <2>2, <2>3 DEF Cancels
<1>4. CASE Rests \/ Down!HideBatch
  <2>1. UNCHANGED <<dRun, dChan, incoming, dUp, cancelled>>
    BY <1>4 DEF Rests, Down!HideBatch, Down!pcVars, Down!linkVars
  <2>2. Open' = Open
    BY <2>1 DEF Open
  <2> HIDE DEF Goal
  <2> QED
    BY <1>d, <2>1, <2>2
<1>5. CASE Down!Break \/ Down!Reconnect
  <2>1. dChan' = <<>> /\ (~dUp' \/ cancelled')
    BY <1>5 DEF Down!Break, Down!Reconnect, DownLinkInv, Down!pcVars
  <2> QED
    BY <2>1
<1>6. CASE Down!PcNotices
  <2>1. /\ UNCHANGED <<dRun, dChan, incoming>> /\ cancelled' = TRUE
    BY <1>6 DEF Down!PcNotices, Down!phoneVars
  <2>2. Open' = Open
    BY <2>1 DEF Open
  <2> HIDE DEF Goal
  <2> QED
    BY <1>d, <2>1, <2>2
<1>7. ~Down!CleanUp
  BY <1>0 DEF Down!CleanUp
<1>8. CASE Gets("file_start") /\ Down!TakeStart(dChan[1])
  <2>1. PICK f : f = dChan[1].file
    OBVIOUS
  <2>2. f \notin DOMAIN incoming
    BY <1>8, <1>a, <2>1, GetsDoes DEF Gets
  <2>3. incoming' = Down!Put(incoming, f, {})
    BY <1>8, <2>1 DEF Down!TakeStart
  <2>4. /\ DOMAIN incoming' = DOMAIN incoming \cup {f}
        /\ \A g \in DOMAIN incoming : g # f => incoming'[g] = incoming[g]
    BY <2>3 DEF Down!Put
  <2> HIDE DEF Goal
  <2> QED
    BY <1>8, <1>f, <2>1, <2>2, <2>4
<1>9. CASE Gets("file_chunk") /\ Down!TakeChunk(dChan[1])
  <2>1. PICK f : f = dChan[1].file
    OBVIOUS
  <2>2. PICK s : s = {dChan[1].idx} \cup (IF f \in DOMAIN incoming THEN incoming[f] ELSE {})
    OBVIOUS
  <2>3. CASE dChan[1].last
    <3>1. /\ DOMAIN incoming' = DOMAIN incoming \ {f}
          /\ \A g \in DOMAIN incoming : g # f => incoming'[g] = incoming[g]
      BY <1>9, <2>1, <2>3 DEF Down!TakeChunk, Down!Drop
    <3> HIDE DEF Goal
    <3> QED
      BY <1>9, <1>f, <2>1, <2>3, <3>1
  <2>4. CASE ~dChan[1].last
    <3>1. incoming' = Down!Put(incoming, f, s)
      BY <1>9, <2>1, <2>2, <2>4 DEF Down!TakeChunk
    <3>2. /\ DOMAIN incoming' = DOMAIN incoming \cup {f} /\ incoming'[f] = s
          /\ \A g \in DOMAIN incoming : g # f => incoming'[g] = incoming[g]
      BY <3>1 DEF Down!Put
    <3>3. dChan[1].idx \in s /\ (f \in DOMAIN incoming => incoming[f] \subseteq s)
      BY <2>2
    <3> HIDE DEF Goal
    <3> QED
      BY <1>9, <1>f, <2>1, <3>2, <3>3
  <2> QED
    BY <2>3, <2>4
<1>10. CASE Gets("file_abort") /\ Down!TakeAbort(dChan[1])
  <2>1. PICK f : f = dChan[1].file
    OBVIOUS
  <2>2. /\ DOMAIN incoming' = DOMAIN incoming \ {f}
        /\ \A g \in DOMAIN incoming : g # f => incoming'[g] = incoming[g]
    BY <1>10, <2>1, DropDoes DEF Down!TakeAbort
  <2> HIDE DEF Goal
  <2> QED
    BY <1>10, <1>f, <2>1, <2>2
<1> HIDE DEF Goal
<1> QED
  BY <1>1, <1>2, <1>3, <1>4, <1>5, <1>6, <1>7, <1>8, <1>9, <1>10 DEF DownStep

-----------------------------------------------------------------------------
(* Downloads: one file at a time *)

\* What the phone is receiving when a message arrives is the file of the message, and
\* what could not be read.
LEMMA OneAtATime ==
    ASSUME DownTypeOK, DownRunInv, AnnouncedInv, DownLinkInv, KeptInv, DownOrderInv,
           Down!Spared({"overlap"}), dChan # <<>>, NEW g \in DOMAIN incoming, g \notin Lost
    PROVE  g = dChan[1].file
<1>1. /\ 1 \in DOMAIN dChan /\ dChan[1].file \in DownFiles /\ g \in DownFiles
      /\ DOMAIN dChan = 1 .. Len(dChan) /\ Len(dChan) \in Nat
  <2>1. Len(dChan) \in Nat /\ Len(dChan) # 0 /\ DOMAIN dChan = 1 .. Len(dChan)
    BY EmptySeq, LenProperties DEF DownTypeOK
  <2>2. dChan[1] \in DownMessages
    BY <2>1, ElementOfSeq DEF DownTypeOK
  <2> QED
    BY <2>1, <2>2 DEF DownMessages, DownTypeOK
<1>2. PICK f : f = dChan[1].file
  OBVIOUS
<1>3. f \in DownFiles /\ f \in Announced /\ ~Before(f, g)
  BY <1>1, <1>2 DEF DownOrderInv, AnnouncedInv
<1>4. SUFFICES ASSUME Before(g, f) PROVE FALSE
  <2>1. /\ f[1] \in Nat /\ f[2] \in Nat /\ g[1] \in Nat /\ g[2] \in Nat
        /\ f = <<f[1], f[2]>> /\ g = <<g[1], g[2]>>
    BY <1>1, <1>3 DEF DownFiles, Down!Batches
  <2>2. Before(g, f) \/ f = g
    BY <1>3, <2>1 DEF Before
  <2> QED
    BY <1>2, <2>2
<1>5. CASE g \in Open
  <2>1. g[1] = dGen /\ dGen \in Nat /\ g[2] = dRun[dGen].k /\ dRun[dGen].k \in Nat
    <3>1. g[1] \in Down!Batches /\ dRun[g[1]].at \in {"read", "waiting"} /\ dRun[g[1]].k = g[2]
      BY <1>1, <1>5, OpenIsFile DEF Open
    <3>2. g[1] = dGen
      BY <3>1, LastMoves DEF Down!Ended
    <3> QED
      BY <3>1, <3>2, RunFields DEF DownTypeOK, Down!Batches
  <2>2. f[1] \in Nat /\ f[2] \in Nat /\ f[1] <= dGen /\ f[2] <= dRun[f[1]].k
    BY <1>3 DEF Announced, DownFiles, Down!Batches
  <2> QED
    BY <1>4, <2>1, <2>2 DEF Before
<1>6. ASSUME NEW i \in DOMAIN dChan, dChan[i].file = g PROVE FALSE
  <2>1. f[1] \in Nat /\ f[2] \in Nat
    BY <1>3 DEF DownFiles, Down!Batches
  <2>2. g # f
    BY <1>4, <2>1 DEF Before
  <2>3. 1 < i
    BY <1>1, <1>2, <1>6, <2>2
  <2> QED
    BY <1>1, <1>2, <1>4, <1>6, <2>3 DEF DownOrderInv
<1>7. EndComes(g, 1)
  BY <1>1 DEF DownLinkInv, KeptInv
<1>8. g \in Reached => g \in Open
  BY DEF Reached, Open, Lost
<1> QED
  BY <1>5, <1>6, <1>7, <1>8 DEF EndComes

LEMMA ShownStays ==
    /\ DownTypeOK /\ DownRunInv /\ AnnouncedInv /\ DownLinkInv /\ KeptInv /\ DownOrderInv
    /\ ChunksInv /\ ShownInv /\ DownStep
    => ShownInv'
<1> SUFFICES ASSUME DownTypeOK, DownRunInv, AnnouncedInv, DownLinkInv, KeptInv, DownOrderInv,
                    ChunksInv, ShownInv, DownStep, Down!Spared({"late", "overlap", "cleanup"})'
             PROVE  \A f \in DOMAIN incoming' \ Lost' :
                        /\ batch'.status = "active" /\ dHide' = FALSE
                        /\ f \in DOMAIN batch'.files /\ batch'.files[f] = "active"
  BY DEF ShownInv
<1> DEFINE Goal == \A f \in DOMAIN incoming' \ Lost' :
                       /\ batch'.status = "active" /\ dHide' = FALSE
                       /\ f \in DOMAIN batch'.files /\ batch'.files[f] = "active"
<1> SUFFICES Goal
  OBVIOUS
<1>0. /\ Down!Spared({"late", "overlap", "cleanup"}) /\ Down!Spared({"overlap"})
  BY DefectsAreKept DEF Down!Spared
<1>a. \A f \in DOMAIN incoming \ Lost :
         /\ batch.status = "active" /\ ~dHide
         /\ f \in DOMAIN batch.files /\ batch.files[f] = "active"
  BY <1>0 DEF ShownInv
<1>l. \A f \in Lost : f \in Lost'
  BY LostStays
<1>h. ASSUME dHide' = dHide, ~dHide PROVE dHide' = FALSE
  BY <1>h
<1>b. ASSUME UNCHANGED <<incoming, batch, dHide>> PROVE Goal
  BY <1>a, <1>b, <1>l
<1>c. ASSUME incoming' = <<>> PROVE Goal
  BY <1>c
<1>d. ASSUME NEW kind, Gets(kind) PROVE \A g \in DOMAIN incoming \ Lost : g = dChan[1].file
  BY <1>0, <1>d, OneAtATime DEF Gets
<1>1. ASSUME NEW files, Begins(files) PROVE Goal
  BY <1>1, <1>b DEF Begins
<1>2. ASSUME NEW b \in Down!Batches, PcSteps(b) PROVE Goal
  <2>1. UNCHANGED <<incoming, batch, dHide>>
    BY <1>2, Zenon DEF PcSteps, Announces, SendsChunk, SendsAbort, Fails, Waits, Ends,
                       Breaks, Keeps
  <2> QED
    BY <1>b, <2>1
<1>3. CASE Cancels \/ Rests \/ Down!Break \/ Down!PcNotices
  <2>1. UNCHANGED <<incoming, batch, dHide>>
    BY <1>3 DEF Cancels, Rests, Down!Break, Down!PcNotices, Down!phoneVars
  <2> QED
    BY <1>b, <2>1
<1>4. CASE Down!Reconnect \/ Down!CleanUp
  BY <1>4, <1>c DEF Down!Reconnect, Down!CleanUp, Down!Forget
<1>5. CASE Down!HideBatch
  BY <1>5, <1>a, <1>l DEF Down!HideBatch
<1>6. CASE Gets("file_start") /\ Down!TakeStart(dChan[1])
  <2>1. PICK f : f = dChan[1].file
    OBVIOUS
  <2>2. PICK files : files = IF batch.status \in {"none", "completed"} THEN <<>>
                             ELSE batch.files
    OBVIOUS
  <2>3. /\ incoming' = Down!Put(incoming, f, {}) /\ dHide' = FALSE
        /\ batch' = [status |-> "active", files |-> Down!Put(files, f, "active")]
    BY <1>6, <2>1, <2>2 DEF Down!TakeStart
  <2>4. DOMAIN incoming' = DOMAIN incoming \cup {f}
    BY <2>3 DEF Down!Put
  <2>5. \A g \in DOMAIN incoming' \ Lost' : g = f
    BY <1>6, <1>d, <1>l, <2>1, <2>4
  <2>6. batch'.status = "active" /\ batch'.files = Down!Put(files, f, "active")
    BY <2>3
  <2>7. f \in DOMAIN batch'.files /\ batch'.files[f] = "active"
    BY <2>6 DEF Down!Put
  <2> QED
    BY <2>3, <2>5, <2>6, <2>7
<1>7. CASE Gets("file_chunk") /\ Down!TakeChunk(dChan[1])
  <2>1. PICK f : f = dChan[1].file
    OBVIOUS
  <2>2. CASE dChan[1].last
    <3>1. incoming' = Down!Drop(incoming, f)
      BY <1>7, <2>1, <2>2 DEF Down!TakeChunk
    <3>2. DOMAIN incoming' = DOMAIN incoming \ {f}
      BY <3>1 DEF Down!Drop
    <3> QED
      BY <1>7, <1>d, <1>l, <2>1, <3>2
  <2>3. CASE ~dChan[1].last /\ f \notin Lost
    <3>1. f \in DOMAIN incoming
      <4>1. /\ 1 \in DOMAIN dChan /\ dChan[1].kind = "file_chunk"
            /\ DOMAIN dChan = 1 .. Len(dChan)
            /\ Len(dChan) \in Nat
        BY <1>7, GetsDoes DEF Gets
      <4>2. HasStart(f, 1)
        BY <1>0, <2>1, <4>1 DEF ChunksInv
      <4> QED
        BY <4>1, <4>2 DEF HasStart
    <3>2. DOMAIN incoming' = DOMAIN incoming /\ dHide' = dHide
      <4>1. PICK s : s = {dChan[1].idx}
                         \cup (IF f \in DOMAIN incoming THEN incoming[f] ELSE {})
        OBVIOUS
      <4>2. incoming' = Down!Put(incoming, f, s) /\ dHide' = dHide
        BY <1>7, <2>1, <2>3, <4>1 DEF Down!TakeChunk
      <4> QED
        BY <3>1, <4>2 DEF Down!Put
    <3>3. batch' = [status |-> IF \A g \in DOMAIN batch.files : batch.files[g] = "completed"
                               THEN "completed" ELSE batch.status,
                    files |-> batch.files]
      <4>1. batch.status # "none" /\ batch' = Down!ShownAfterChunk(dChan[1])
        BY <1>7, <1>a, <2>3, <3>1 DEF Down!TakeChunk
      <4> QED
        BY <2>3, <4>1 DEF Down!ShownAfterChunk
    <3>4. batch'.status = "active" /\ batch'.files = batch.files
      <4>1. /\ batch.status = "active" /\ f \in DOMAIN batch.files
            /\ batch.files[f] = "active"
        BY <1>a, <2>3, <3>1
      <4> QED
        BY <3>3, <4>1
    <3> QED
      BY <1>a, <1>l, <3>2, <3>4
  <2>4. CASE ~dChan[1].last /\ f \in Lost
    <3>1. DOMAIN incoming' = DOMAIN incoming \cup {f}
      BY <1>7, <2>1, <2>4 DEF Down!TakeChunk, Down!Put
    <3>2. \A g \in DOMAIN incoming' \ Lost' : FALSE
      BY <1>7, <1>d, <1>l, <2>1, <2>4, <3>1
    <3> QED
      BY <3>2
  <2> QED
    BY <2>2, <2>3, <2>4
<1>8. CASE Gets("file_abort") /\ Down!TakeAbort(dChan[1])
  <2>1. PICK f : f = dChan[1].file
    OBVIOUS
  <2>2. incoming' = Down!Drop(incoming, f)
    BY <1>8, <2>1 DEF Down!TakeAbort
  <2>3. DOMAIN incoming' = DOMAIN incoming \ {f}
    BY <2>2 DEF Down!Drop
  <2> QED
    BY <1>8, <1>d, <1>l, <2>1, <2>3
<1> QED
  BY <1>1, <1>2, <1>3, <1>4, <1>5, <1>6, <1>7, <1>8 DEF DownStep

-----------------------------------------------------------------------------
(* Downloads: what is offered is whole *)

LEMMA OnlyChunksOffer ==
    ASSUME DownStep, downloads' # downloads
    PROVE  Gets("file_chunk") /\ Down!TakeChunk(dChan[1])
<1>1. ASSUME NEW files, Begins(files) PROVE downloads' = downloads
  BY <1>1 DEF Begins
<1>2. ASSUME NEW b \in Down!Batches, PcSteps(b) PROVE downloads' = downloads
  BY <1>2, Zenon DEF PcSteps, Announces, SendsChunk, SendsAbort, Fails, Waits, Ends, Breaks, Keeps
<1>3. CASE Cancels \/ Rests \/ Down!Break \/ Down!PcNotices \/ Down!Reconnect
      \/ Down!CleanUp \/ Down!HideBatch
  BY <1>3 DEF Cancels, Rests, Down!Break, Down!PcNotices, Down!Reconnect, Down!CleanUp,
              Down!HideBatch, Down!phoneVars
<1>4. CASE Gets("file_start") /\ Down!TakeStart(dChan[1])
  BY <1>4 DEF Down!TakeStart
<1>5. CASE Gets("file_abort") /\ Down!TakeAbort(dChan[1])
  BY <1>5 DEF Down!TakeAbort
<1> QED
  BY <1>1, <1>2, <1>3, <1>4, <1>5 DEF DownStep

LEMMA DownloadsStay ==
    /\ DownTypeOK /\ DownTypeOK' /\ DownRunInv /\ AnnouncedInv /\ ChunksInv
    /\ DownloadsAreWhole /\ DownStep
    => DownloadsAreWhole'
<1> SUFFICES ASSUME DownTypeOK, DownTypeOK', DownRunInv, AnnouncedInv, ChunksInv,
                    DownloadsAreWhole, DownStep, Down!Spared({"late", "overlap", "cleanup"})',
                    NEW d \in downloads',
                    NEW i \in 0 .. dRun'[d.file[1]].files[d.file[2]] - 1
             PROVE  i \in d.chunks
  BY DEF DownloadsAreWhole, Down!DownloadsAreWhole, Down!Chunks, Down!Files
<1>0. Down!Spared({"late", "overlap", "cleanup"})
  BY DefectsAreKept DEF Down!Spared
<1>1. \A f \in Announced : dRun'[f[1]].files[f[2]] = dRun[f[1]].files[f[2]]
  BY AnnouncedStays DEF Down!Chunks, Down!Files
<1>2. CASE d \in downloads
  BY <1>0, <1>1, <1>2 DEF DownloadsAreWhole, Down!DownloadsAreWhole, Down!Chunks,
                          Down!Files, AnnouncedInv
<1>3. CASE d \notin downloads
  <2>1. Gets("file_chunk") /\ Down!TakeChunk(dChan[1])
    BY <1>3, OnlyChunksOffer
  <2>2. PICK f : f = dChan[1].file
    OBVIOUS
  <2>3. PICK s : s = {dChan[1].idx} \cup (IF f \in DOMAIN incoming THEN incoming[f] ELSE {})
    OBVIOUS
  <2>4. dChan[1].last /\ d = [file |-> f, chunks |-> s]
    BY <1>3, <2>1, <2>2, <2>3 DEF Down!TakeChunk
  <2>5. /\ 1 \in DOMAIN dChan /\ dChan[1].idx \in Nat /\ DOMAIN dChan = 1 .. Len(dChan)
        /\ dChan[1].kind = "file_chunk" /\ f \in Announced
    BY <2>1, <2>2, GetsDoes DEF Gets, AnnouncedInv
  <2>6. /\ \A c \in 0 .. dChan[1].idx - 1 : HasChunk(f, c, 1)
        /\ dChan[1].idx + 1 >= Down!Chunks(f)
    BY <1>0, <2>2, <2>4, <2>5 DEF ChunksInv
  <2>7. ASSUME NEW c \in 0 .. dChan[1].idx - 1 PROVE c \in s
    <3>1. HasChunk(f, c, 1)
      BY <2>6
    <3>2. \A j \in DOMAIN dChan : ~(j < 1)
      BY <2>1, GetsDoes
    <3> QED
      BY <2>3, <3>1, <3>2 DEF HasChunk
  <2>8. Down!Chunks(f) \in Nat
    <3>1. /\ f[1] \in Down!Batches /\ f[2] \in Nat \ {0} /\ f[2] <= dRun[f[1]].k
      BY <2>5 DEF Announced, DownFiles
    <3>2. /\ dRun[f[1]].files \in Seq(Nat) /\ dRun[f[1]].k \in Nat
          /\ dRun[f[1]].k <= Len(dRun[f[1]].files)
      BY <3>1, RunFields DEF DownTypeOK, DownRunInv, Down!Files
    <3>3. f[2] \in 1 .. Len(dRun[f[1]].files)
      BY <3>1, <3>2, LenProperties
    <3> QED
      BY <3>2, <3>3, ElementOfSeq DEF Down!Chunks, Down!Files
  <2>9. i \in 0 .. Down!Chunks(f) - 1
    BY <1>1, <2>4, <2>5 DEF Down!Chunks, Down!Files
  <2>10. i \in 0 .. dChan[1].idx - 1 \/ i = dChan[1].idx
    BY <2>5, <2>6, <2>8, <2>9
  <2> QED
    BY <2>3, <2>4, <2>7, <2>10
<1> QED
  BY <1>2, <1>3

-----------------------------------------------------------------------------
(* Downloads: the theorems *)

LEMMA DownStarts == Down!Init => DownInv
<1> SUFFICES ASSUME Down!Init PROVE DownInv
  OBVIOUS
<1>a. /\ dRun = [b \in Down!Batches |-> [at |-> "none", files |-> <<>>, k |-> 0, idx |-> 0]]
      /\ dGen = 0 /\ cancelled = FALSE /\ active = Down!NoFile
      /\ dUp = TRUE /\ gone = FALSE /\ dChan = <<>>
      /\ incoming = <<>> /\ batch = Down!NoBatch /\ dHide = FALSE /\ downloads = {}
      /\ aborted = {} /\ dMishaps = {}
  BY DEF Down!Init
<1>b. /\ Len(Offered) \in Nat /\ DOMAIN dChan = {} /\ DOMAIN incoming = {}
      /\ \A b \in Down!Batches : b \in Nat /\ b >= 1
      /\ Len(<<>>) = 0
  BY <1>a, FileTransferAssumption, LenProperties, EmptySeq DEF Down!Batches
<1>c. dChan \in Seq(DownMessages) /\ <<>> \in Seq(Nat)
  BY <1>a, EmptySeq
<1>d. dRun \in [Down!Batches -> DownRuns]
  <2>1. [at |-> "none", files |-> <<>>, k |-> 0, idx |-> 0] \in DownRuns
    BY <1>c DEF DownRuns, DownStates
  <2> QED
    BY <1>a, <2>1
<1>e. \A b \in Down!Batches : dRun[b].at = "none" /\ dRun[b].k = 0 /\ Len(dRun[b].files) = 0
  BY <1>a, <1>b
<1>1. DownTypeOK
  <2>1. incoming \in [DOMAIN incoming -> SUBSET Nat]
    BY <1>a, <1>b
  <2>2. dGen \in 0 .. Len(Offered)
    BY <1>a, <1>b
  <2> QED
    BY <1>a, <1>b, <1>c, <1>d, <2>1, <2>2 DEF DownTypeOK
<1>2. DownRunInv
  BY <1>a, <1>b, <1>e DEF DownRunInv, Down!Files
<1>3. AnnouncedInv /\ DownLinkInv /\ KeptInv
  BY <1>a, <1>b DEF AnnouncedInv, DownLinkInv, KeptInv
<1>4. AbortedInv
  BY <1>a, <1>b DEF AbortedInv
<1>5. DownOrderInv
  BY <1>a, <1>b DEF DownOrderInv
<1>6. ChunksInv
  BY <1>a, <1>b, <1>e DEF ChunksInv
<1>7. ShownInv /\ DownloadsAreWhole
  BY <1>a, <1>b DEF ShownInv, DownloadsAreWhole, Down!DownloadsAreWhole
<1> QED
  BY <1>1, <1>2, <1>3, <1>4, <1>5, <1>6, <1>7 DEF DownInv

LEMMA DownStays == DownInv /\ [Down!Next]_(Down!vars) => DownInv'
<1> SUFFICES ASSUME DownInv, [Down!Next]_(Down!vars) PROVE DownInv'
  OBVIOUS
<1>1. /\ DownTypeOK /\ DownRunInv /\ AnnouncedInv /\ DownLinkInv /\ KeptInv /\ AbortedInv
      /\ DownOrderInv /\ ChunksInv /\ ShownInv /\ DownloadsAreWhole
  BY DEF DownInv
<1>2. DownStep
  BY <1>1, NextDoes
<1>3. DownTypeOK' /\ DownRunInv'
  BY <1>1, <1>2, DownTypeStays, DownRunStays
<1>4. AnnouncedInv' /\ DownLinkInv'
  BY <1>1, <1>2, <1>3, AnnouncedKept, DownLinkStays
<1>5. KeptInv' /\ AbortedInv'
  BY <1>1, <1>2, KeptStays, AbortedStays
<1>6. DownOrderInv' /\ ChunksInv'
  BY <1>1, <1>2, <1>3, <1>4, DownOrderStays, ChunksStay
<1>7. ShownInv' /\ DownloadsAreWhole'
  BY <1>1, <1>2, <1>3, ShownStays, DownloadsStay
<1> QED
  BY <1>3, <1>4, <1>5, <1>6, <1>7 DEF DownInv

LEMMA DownAlways == Down!Spec => []DownInv
<1>1. Down!Init => DownInv
  BY DownStarts
<1>2. DownInv /\ [Down!Next]_(Down!vars) => DownInv'
  BY DownStays
<1> QED
  BY <1>1, <1>2, PTL DEF Down!Spec

\* Every file that the phone offers for download has all its chunks, whatever the number
\* of batches, files and chunks, of pauses, cancellations and broken connections, but for
\* the mishaps that the property names.
THEOREM SpecDownloadsAreWhole == Down!Spec => []DownloadsAreWhole
<1>1. DownInv => DownloadsAreWhole
  BY DEF DownInv
<1> QED
  BY <1>1, DownAlways, PTL

\* What could not be read is named so by the property.
LEMMA LostIsUnread == Lost \subseteq Down!Unread
<1> SUFFICES ASSUME NEW f \in Lost PROVE f \in Down!Unread
  OBVIOUS
<1>1. /\ f[1] \in Down!Batches /\ dRun[f[1]].at = "failed" /\ f = <<f[1], dRun[f[1]].k>>
  BY DEF Lost, DownFiles
<1> QED
  BY <1>1 DEF Down!Unread, Down!File

\* When the PC has finished and is connected, the phone keeps no part of a file but of one
\* whose reading failed: for every other that was announced a last chunk or an abort came,
\* or a cleanup.
THEOREM SpecNothingKept == Down!Spec => []NothingKept
<1>1. DownInv => NothingKept
  <2> SUFFICES ASSUME DownInv, Down!Quiet, dUp, NEW f \in DOMAIN incoming
               PROVE  f \in Down!Unread
    BY DEF NothingKept, Down!NothingKept
  <2>1. EndComes(f, 1) /\ dChan = <<>>
    BY DEF DownInv, KeptInv, Down!Quiet
  <2>2. f \in Reached
    BY <2>1 DEF EndComes
  <2>3. dRun[f[1]].at = "failed"
    BY <2>2, ReachedIsFile DEF DownInv, Down!Quiet, Down!Ended
  <2> QED
    BY <2>2, <2>3, LostIsUnread DEF Reached, Lost
<1> QED
  BY <1>1, DownAlways, PTL

\* No batch is hidden or shown as completed while the phone receives a file of it, but for
\* the mishaps that the property names and for a file whose reading failed.
THEOREM SpecReceivedIsShown == Down!Spec => []ReceivedIsShown
<1>1. DownInv => ReceivedIsShown
  BY LostIsUnread DEF DownInv, ShownInv, ReceivedIsShown, Down!ReceivedIsShown
<1> QED
  BY <1>1, DownAlways, PTL

\* No step offers a file whose abort the phone has handled, unless a paused coroutine
\* sends on after the cancellation or a new batch takes it back.
THEOREM SpecNoDownloadAfterAbort == Down!Spec => NoDownloadAfterAbort
<1>1. DownInv /\ [Down!Next]_(Down!vars)
      => [Down!Spared({"late", "overlap"}) =>
            \A d \in downloads' \ downloads : d.file \notin aborted]_(Down!vars)
  <2> SUFFICES ASSUME DownInv, [Down!Next]_(Down!vars), Down!Spared({"late", "overlap"}),
                      NEW d \in downloads', d \notin downloads
               PROVE  d.file \notin aborted
    OBVIOUS
  <2>1. DownTypeOK /\ AbortedInv
    BY DEF DownInv
  <2>2. DownStep
    BY <2>1, NextDoes
  <2>3. Gets("file_chunk") /\ Down!TakeChunk(dChan[1])
    BY <2>2, OnlyChunksOffer
  <2>4. d.file = dChan[1].file
    BY <2>3 DEF Down!TakeChunk
  <2>5. 1 \in DOMAIN dChan /\ dChan[1].kind = "file_chunk"
    BY <2>1, <2>3, GetsDoes DEF Gets
  <2> QED
    BY <2>1, <2>4, <2>5 DEF AbortedInv
<1> QED
  BY <1>1, DownAlways, PTL DEF Down!Spec, NoDownloadAfterAbort, Down!NoDownloadAfterAbort

\* The two directions side by side are a FileUpload and a FileDownload: what is proved of
\* either holds of the transfer.
THEOREM TransferIsBoth == TransferSpec => Spec /\ Down!Spec
<1>1. TransferInit => Init /\ Down!Init
  BY DEF TransferInit
<1>2. [TransferNext]_<<direction, vars, downVars>> => [Next]_vars
  BY DEF TransferNext
<1>3. [TransferNext]_<<direction, vars, downVars>> => [Down!Next]_(Down!vars)
  <2>1. UNCHANGED downVars => UNCHANGED Down!vars
    BY DEF downVars, Down!vars, Down!pcVars, Down!linkVars, Down!phoneVars
  <2> QED
    BY <2>1 DEF TransferNext
<1> QED
  BY <1>1, <1>2, <1>3, PTL DEF TransferSpec, Spec, Down!Spec
=============================================================================
