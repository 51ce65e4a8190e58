----------------------- MODULE BoundedMulticastQueue -----------------------
(***************************************************************************)
(* concurrent::queue::BoundedMulticastQueue with its Writer and Readers    *)
(* (queue/bounded_multicast_queue.h): a ring of messages, each under a     *)
(* SeqLock of its own.  The one writer overwrites the oldest message       *)
(* whether or not it was read; a reader tells from the counter of the lock *)
(* whether the message it has copied is the one it expects.                *)
(*                                                                         *)
(* A step is one access to shared memory.  The writer's load of a counter  *)
(* that only it changes, and a spurious failure of its compare-and-        *)
(* exchange, belong to the step that locks.  A message is copied in chunks *)
(* (see SeqLockAtomic); the chunks of the n-th message are all n, and it   *)
(* has MessageSize(n) of them.                                             *)
(***************************************************************************)
EXTENDS Integers

CONSTANTS
  Readers,
  BufferSize,       \* GetBufferSize(), a power of two: x & GetIndexMask() is x % BufferSize
  ChunkCount,       \* the chunks of the largest message
  MessageSize(_),   \* the chunks of the n-th message
  CounterModulus,   \* 2^32: Counter is uint32_t, and expected_seq_ is cut to as many bits
  MaxLag,           \* the most messages the writer is ahead of a reader
  MaxWrites         \* the most messages written

ASSUME SizesAssumption ==
  /\ BufferSize \in Nat /\ BufferSize > 0
  /\ ChunkCount \in Nat /\ ChunkCount > 0 /\ MaxWrites \in Nat
  /\ \A n \in 0 .. MaxWrites - 1 : MessageSize(n) \in 1 .. ChunkCount

(* TryRead returns the distance of two counters as an int32_t.  A reader   *)
(* that is so far behind that the distance reaches 2^31 takes the message  *)
(* of a later lap for an earlier one: nothing in the code excludes that,   *)
(* the bound on the lag is an assumption about the program.                *)
ASSUME CounterAssumption ==
  /\ CounterModulus \in Nat /\ CounterModulus > 0 /\ CounterModulus % 4 = 0
  /\ MaxLag \in Nat /\ MaxLag <= BufferSize * (CounterModulus \div 4)

VARIABLES
  seq_,          \* of each message of the buffer: the counter of its lock
  data_,         \* its chunks
  message_size_, \* its size
  tail_,         \* the writer's index
  wpc,           \* where the writer is in Write
  wnext,         \* the next chunk it stores
  written,       \* history: the number of messages written
  head_,         \* each reader's index
  expected_seq_, \* the counter it expects there
  rpc,           \* where it is in its call
  op,            \* its current or last call
  result,        \* what that call returned
  seq0,          \* the variable seq0 of Load
  size,          \* the message it copies into: its size
  loaded,        \* and its chunks
  rnext,         \* the next chunk it loads
  reads          \* history: the messages it has gone past

svars == <<seq_, data_, message_size_>>
wvars == <<tail_, wpc, wnext, written>>
cvars == <<head_, expected_seq_, reads>>
lvars == <<seq0, size, loaded, rnext>>
vars == <<svars, wvars, cvars, rpc, op, result, lvars>>

Index == 0 .. BufferSize - 1
Chunks == 1 .. ChunkCount
Counter == 0 .. CounterModulus - 1
NoChunk == -1  \* a chunk of the zeroed storage

(* A Message that was constructed and not filled.                          *)
NewMessage == [c \in Chunks |-> NoChunk]

IsLocked(seq) == seq % 2 = 1

(* static_cast<int32_t>.                                                   *)
ToInt32(x) == IF x % CounterModulus < CounterModulus \div 2
                THEN x % CounterModulus
                ELSE (x % CounterModulus) - CounterModulus

(* Mutation: the distance in a type wider than the counter.                *)
DistanceWide(real, expected) == real - expected

(* The value of TryRead.  Its subtraction may overflow, and then wraps as  *)
(* the compiled code does.                                                 *)
Distance(real, expected) == ToInt32(ToInt32(real) - ToInt32(expected))

Init ==
  /\ seq_ = [i \in Index |-> 0]
  /\ data_ = [i \in Index |-> NewMessage]
  /\ message_size_ = [i \in Index |-> 0]
  /\ tail_ = 0 /\ wpc = "idle" /\ wnext = 1 /\ written = 0
  /\ head_ = [r \in Readers |-> 0]
  /\ expected_seq_ = [r \in Readers |-> 2]
  /\ rpc = [r \in Readers |-> "idle"]
  /\ op = [r \in Readers |-> "Read"]
  /\ result = [r \in Readers |-> "none"]
  /\ seq0 = [r \in Readers |-> 0]
  /\ size = [r \in Readers |-> 0]
  /\ loaded = [r \in Readers |-> NewMessage]
  /\ rnext = [r \in Readers |-> 1]
  /\ reads = [r \in Readers |-> 0]

(***************************************************************************)
(* Writer::Write and AtomicMulticastQueueMessage::Store.                   *)
(***************************************************************************)
Write ==
  /\ wpc = "idle"
  /\ written < MaxWrites
  /\ \A r \in Readers : written - reads[r] < MaxLag
  /\ seq_' = [seq_ EXCEPT ![tail_] = (@ + 1) % CounterModulus]
  /\ wpc' = "copy"
  /\ UNCHANGED <<data_, message_size_, tail_, wnext, written, cvars, rpc, op, result, lvars>>

StoreChunk ==
  /\ wpc = "copy"
  /\ data_' = [data_ EXCEPT ![tail_][wnext] = written]
  /\ \/ wnext < MessageSize(written) /\ wnext' = wnext + 1 /\ UNCHANGED wpc
     \/ wnext = MessageSize(written) /\ wnext' = 1 /\ wpc' = "size"
  /\ UNCHANGED <<seq_, message_size_, tail_, written, cvars, rpc, op, result, lvars>>

StoreSize ==
  /\ wpc = "size"
  /\ message_size_' = [message_size_ EXCEPT ![tail_] = MessageSize(written)]
  /\ wpc' = "unlock"
  /\ UNCHANGED <<seq_, data_, tail_, wnext, written, cvars, rpc, op, result, lvars>>

(* Mutation: the counter is taken back to the value it had before Lock.    *)
UnlockSameSeq ==
  /\ wpc = "unlock"
  /\ seq_' = [seq_ EXCEPT ![tail_] = (@ - 1) % CounterModulus]
  /\ tail_' = (tail_ + 1) % BufferSize
  /\ written' = written + 1
  /\ wpc' = "idle"
  /\ UNCHANGED <<data_, message_size_, wnext, cvars, rpc, op, result, lvars>>

(* Unlock stores the counter read by Lock plus two, then Write moves on.   *)
Unlock ==
  /\ wpc = "unlock"
  /\ seq_' = [seq_ EXCEPT ![tail_] = (@ + 1) % CounterModulus]
  /\ tail_' = (tail_ + 1) % BufferSize
  /\ written' = written + 1
  /\ wpc' = "idle"
  /\ UNCHANGED <<data_, message_size_, wnext, cvars, rpc, op, result, lvars>>

(***************************************************************************)
(* Reader::Read, Reader::TryRead and AtomicMulticastQueueMessage::Load.    *)
(***************************************************************************)
(* Of the call and of the message that reader r had nothing is left.       *)
DropMessage(r) ==
  /\ size' = [size EXCEPT ![r] = 0]
  /\ loaded' = [loaded EXCEPT ![r] = NewMessage]

LoadSeq0(r) ==
  /\ seq0' = [seq0 EXCEPT ![r] = seq_[head_[r]]]
  /\ rpc' = [rpc EXCEPT ![r] = "size"]

(* The call makes a Message of its own.                                    *)
Call(r, o) ==
  /\ rpc[r] = "idle"
  /\ op' = [op EXCEPT ![r] = o]
  /\ result' = [result EXCEPT ![r] = "none"]
  /\ DropMessage(r)
  /\ LoadSeq0(r)
  /\ UNCHANGED <<svars, wvars, cvars, rnext>>

(* Mutation: the next round of the loop does not load seq0 again.          *)
RetryStale(r) ==
  /\ rpc[r] = "seq0"
  /\ rpc' = [rpc EXCEPT ![r] = "size"]
  /\ UNCHANGED <<svars, wvars, cvars, op, result, lvars>>

(* The next round of the loop in Load, or of the one in Read.              *)
Retry(r) ==
  /\ rpc[r] = "seq0"
  /\ LoadSeq0(r)
  /\ UNCHANGED <<svars, wvars, cvars, op, result, size, loaded, rnext>>

LoadSize(r) ==
  /\ rpc[r] = "size"
  /\ size' = [size EXCEPT ![r] = message_size_[head_[r]]]
  /\ rpc' = [rpc EXCEPT ![r] = IF message_size_[head_[r]] = 0 THEN "seq1" ELSE "copy"]
  /\ UNCHANGED <<svars, wvars, cvars, op, result, seq0, loaded, rnext>>

LoadChunk(r) ==
  /\ rpc[r] = "copy"
  /\ loaded' = [loaded EXCEPT ![r][rnext[r]] = data_[head_[r]][rnext[r]]]
  /\ \/ rnext[r] < size[r] /\ rnext' = [rnext EXCEPT ![r] = @ + 1] /\ UNCHANGED rpc
     \/ /\ rnext[r] = size[r]
        /\ rnext' = [rnext EXCEPT ![r] = 1]
        /\ rpc' = [rpc EXCEPT ![r] = "seq1"]
  /\ UNCHANGED <<svars, wvars, cvars, op, result, seq0, size>>

(* Mutation: the index runs past the end of the buffer.                    *)
UpdateIndexesUnmasked(r) ==
  /\ head_' = [head_ EXCEPT ![r] = @ + 1]
  /\ expected_seq_' = [expected_seq_ EXCEPT ![r] =
                         (@ + 2 * ((head_[r] + 1) \div BufferSize)) % CounterModulus]
  /\ reads' = [reads EXCEPT ![r] = @ + 1]

(* The shift by GetSeqRightShiftValue() is one at the end of the buffer    *)
(* and zero elsewhere.                                                     *)
UpdateIndexes(r) ==
  /\ head_' = [head_ EXCEPT ![r] = (@ + 1) % BufferSize]
  /\ expected_seq_' = [expected_seq_ EXCEPT ![r] =
                         (@ + 2 * ((head_[r] + 1) \div BufferSize)) % CounterModulus]
  /\ reads' = [reads EXCEPT ![r] = @ + 1]

Copied(r) == ~IsLocked(seq0[r]) /\ seq0[r] = seq_[head_[r]]

LoadSeq1Retry(r) ==
  /\ rpc[r] = "seq1"
  /\ ~Copied(r)
  /\ rpc' = [rpc EXCEPT ![r] = "seq0"]
  /\ UNCHANGED <<svars, wvars, cvars, op, result, lvars>>

(* The call is over and its variables are gone, but for the message if it  *)
(* is the expected one.                                                    *)
Return(r, res) ==
  /\ rpc' = [rpc EXCEPT ![r] = "idle"]
  /\ result' = [result EXCEPT ![r] = res]
  /\ seq0' = [seq0 EXCEPT ![r] = 0]
  /\ UNCHANGED <<svars, wvars, op, rnext>>


LoadSeq1Current(r) ==
  /\ rpc[r] = "seq1"
  /\ Copied(r) /\ Distance(seq0[r], expected_seq_[r]) = 0
  /\ Return(r, "current")
  /\ UNCHANGED <<size, loaded>>
  /\ IF op[r] = "Read" THEN UpdateIndexes(r) ELSE UNCHANGED cvars

LoadSeq1Late(r) ==
  /\ rpc[r] = "seq1"
  /\ Copied(r) /\ Distance(seq0[r], expected_seq_[r]) > 0
  /\ Return(r, "late")
  /\ DropMessage(r)
  /\ UNCHANGED cvars

(* TryRead returns a negative value, Read waits and tries again.           *)
LoadSeq1NotUpdated(r) ==
  /\ rpc[r] = "seq1"
  /\ Copied(r) /\ Distance(seq0[r], expected_seq_[r]) < 0
  /\ IF op[r] = "TryRead"
       THEN Return(r, "not_updated") /\ DropMessage(r)
       ELSE /\ rpc' = [rpc EXCEPT ![r] = "seq0"]
            /\ UNCHANGED <<svars, wvars, op, result, lvars>>
  /\ UNCHANGED cvars

(* The client calls UpdateIndexes after a TryRead that returned 0; the     *)
(* message it has read is its own and forgotten here.                      *)
CallUpdateIndexes(r) ==
  /\ rpc[r] = "idle" /\ op[r] = "TryRead" /\ result[r] = "current"
  /\ UpdateIndexes(r)
  /\ result' = [result EXCEPT ![r] = "none"]
  /\ DropMessage(r)
  /\ UNCHANGED <<svars, wvars, rpc, op, seq0, rnext>>

(* Mutation: the copy begins with the sequence number of the first lap.    *)
CopyReaderReset(r, q) ==
  /\ rpc[r] = "idle" /\ rpc[q] = "idle" /\ r # q
  /\ head_' = [head_ EXCEPT ![r] = head_[q]]
  /\ expected_seq_' = [expected_seq_ EXCEPT ![r] = 2]
  /\ reads' = [reads EXCEPT ![r] = reads[q]]
  /\ result' = [result EXCEPT ![r] = "none"]
  /\ DropMessage(r)
  /\ UNCHANGED <<svars, wvars, rpc, op, seq0, rnext>>

(* Reader(const Reader&), and Reader(Reader&&) if q is not used any more:  *)
(* r is constructed anew from q, a reader between two of its calls.        *)
CopyReader(r, q) ==
  /\ rpc[r] = "idle" /\ rpc[q] = "idle" /\ r # q
  /\ head_' = [head_ EXCEPT ![r] = head_[q]]
  /\ expected_seq_' = [expected_seq_ EXCEPT ![r] = expected_seq_[q]]
  /\ reads' = [reads EXCEPT ![r] = reads[q]]
  /\ result' = [result EXCEPT ![r] = "none"]
  /\ DropMessage(r)
  /\ UNCHANGED <<svars, wvars, rpc, op, seq0, rnext>>

Exchanged(f, r, q) == [f EXCEPT ![r] = f[q], ![q] = f[r]]

SwapReaders(r, q) ==
  /\ rpc[r] = "idle" /\ rpc[q] = "idle" /\ r # q
  /\ head_' = Exchanged(head_, r, q)
  /\ expected_seq_' = Exchanged(expected_seq_, r, q)
  /\ reads' = Exchanged(reads, r, q)
  /\ result' = [result EXCEPT ![r] = "none", ![q] = "none"]
  /\ size' = [size EXCEPT ![r] = 0, ![q] = 0]
  /\ loaded' = [loaded EXCEPT ![r] = NewMessage, ![q] = NewMessage]
  /\ UNCHANGED <<svars, wvars, rpc, op, seq0, rnext>>

WriterStep == StoreChunk \/ StoreSize \/ Unlock

ReaderStep(r) ==
  \/ Retry(r) \/ LoadSize(r) \/ LoadChunk(r) \/ LoadSeq1Retry(r)
  \/ LoadSeq1Current(r) \/ LoadSeq1Late(r) \/ LoadSeq1NotUpdated(r)

Next ==
  \/ Write \/ WriterStep
  \/ \E r \in Readers :
       \/ \E o \in {"Read", "TryRead"} : Call(r, o)
       \/ ReaderStep(r)
       \/ CallUpdateIndexes(r)
       \/ \E q \in Readers : CopyReader(r, q) \/ SwapReaders(r, q)

Spec == Init /\ [][Next]_vars

(* The operating system runs every thread that is inside a call.           *)
Fairness == WF_vars(WriterStep) /\ \A r \in Readers : WF_vars(ReaderStep(r))

FairSpec == Spec /\ Fairness

(***************************************************************************)
(* Properties.                                                             *)
(***************************************************************************)

(* Every variable has its type; no index leaves the buffer and no copy the *)
(* message.                                                                *)
TypeOK ==
  /\ seq_ \in [Index -> Counter]
  /\ data_ \in [Index -> [Chunks -> 0 .. MaxWrites - 1 \cup {NoChunk}]]
  /\ message_size_ \in [Index -> 0 .. ChunkCount]
  /\ tail_ \in Index /\ wpc \in {"idle", "copy", "size", "unlock"} /\ wnext \in Chunks
  /\ written \in 0 .. MaxWrites
  /\ head_ \in [Readers -> Index] /\ expected_seq_ \in [Readers -> Counter]
  /\ rpc \in [Readers -> {"idle", "seq0", "size", "copy", "seq1"}]
  /\ op \in [Readers -> {"Read", "TryRead"}]
  /\ result \in [Readers -> {"none", "current", "late", "not_updated"}]
  /\ seq0 \in [Readers -> Counter] /\ size \in [Readers -> 0 .. ChunkCount]
  /\ loaded \in [Readers -> [Chunks -> 0 .. MaxWrites - 1 \cup {NoChunk}]]
  /\ rnext \in [Readers -> Chunks]
  /\ reads \in [Readers -> 0 .. MaxWrites]

(* How many messages were written to place i of the buffer.                *)
Laps(i) == (written + BufferSize - 1 - i) \div BufferSize

Writing(i) == wpc # "idle" /\ i = tail_

(* The counter of place i, if it did not wrap.                             *)
Count(i) == 2 * Laps(i) + (IF Writing(i) THEN 1 ELSE 0)

(* The counters and the indices tell the same story, however often the     *)
(* counters wrap: a counter is twice the number of messages written to its *)
(* place, one more while the writer is there, and each reader expects the  *)
(* counter its next message will have or had.                              *)
SequenceCountsMessages ==
  /\ tail_ = written % BufferSize
  /\ \A i \in Index : seq_[i] = Count(i) % CounterModulus
  /\ \A r \in Readers :
       /\ head_[r] = reads[r] % BufferSize
       /\ expected_seq_[r] = (2 * (reads[r] \div BufferSize) + 2) % CounterModulus

(***************************************************************************)
(* The parts of the inductive invariant.                                   *)
(***************************************************************************)

(* The copies end within the message, and the rest of a call too.          *)
CopiesInside ==
  /\ wpc # "idle" => written < MaxWrites
  /\ IF wpc = "copy" THEN wnext <= MessageSize(written) ELSE wnext = 1
  /\ \A r \in Readers :
       /\ IF rpc[r] = "copy" THEN rnext[r] <= size[r] ELSE rnext[r] = 1
       /\ rpc[r] # "idle" => result[r] = "none"

(* No reader is past the writer, or further behind than MaxLag.            *)
ReadersInWindow ==
  \A r \in Readers :
    /\ reads[r] <= written
    /\ op[r] = "TryRead" /\ result[r] = "current" => reads[r] < written
    /\ written + (IF wpc = "idle" THEN 0 ELSE 1) <= reads[r] + MaxLag

(* The last message of every place is there, whole, and the one that is    *)
(* being written as far as the writer has come.                            *)
StoredMessages ==
  /\ \A i \in Index : Laps(i) > 0 /\ ~Writing(i) =>
       LET n == i + BufferSize * (Laps(i) - 1)
       IN  /\ message_size_[i] = MessageSize(n)
           /\ \A c \in 1 .. MessageSize(n) : data_[i][c] = n
  /\ wpc = "copy" => \A c \in 1 .. wnext - 1 : data_[tail_][c] = written
  /\ wpc \in {"size", "unlock"} =>
       \A c \in 1 .. MessageSize(written) : data_[tail_][c] = written
  /\ wpc = "unlock" => message_size_[tail_] = MessageSize(written)

(* The counter an attempt began with is one the place had since the        *)
(* message before the reader's; while the place has it still and is not    *)
(* locked, the copy agrees with what is there.                             *)
Attempts ==
  \A r \in Readers : rpc[r] \in {"size", "copy", "seq1"} =>
    /\ \E k \in 2 * (reads[r] \div BufferSize) .. Count(head_[r]) :
         seq0[r] = k % CounterModulus
    /\ Copied(r) =>
         /\ rpc[r] # "size" => size[r] = message_size_[head_[r]]
         /\ \A c \in 1 .. (IF rpc[r] = "seq1" THEN size[r] ELSE rnext[r] - 1) :
              loaded[r][c] = data_[head_[r]][c]

(* The inductive invariant: the writer and the readers agree, through the  *)
(* counters alone, on which message is where and how much of it is there.  *)
IInv ==
  /\ TypeOK /\ SequenceCountsMessages /\ CopiesInside
  /\ ReadersInWindow /\ StoredMessages /\ Attempts

Message(n) == [c \in 1 .. MessageSize(n) |-> n]

ReaderCall ==
  [r \in Readers |->
     [busy |-> rpc[r] # "idle", op |-> op[r],
      result |-> result[r],
      msg |-> IF result[r] = "current" THEN [c \in 1 .. size[r] |-> loaded[r][c]] ELSE << >>]]

Log == INSTANCE MulticastLog WITH
  Window <- BufferSize, log <- written, pos <- reads, call <- ReaderCall

(* The comments in the header on Read and TryRead, and README: every       *)
(* reader gets the messages one by one, in order and whole, is told that   *)
(* it is late only when its message was overwritten, and to wait only when *)
(* its message is not written; each call takes effect at one instant.      *)
ImplementsLog == Log!Spec

(* A reader in Read or TryRead returns once its message is written and the *)
(* writer pauses, however often its copy was spoilt before.                *)
ReadReturns ==
  <>[](wpc = "idle") =>
    \A r \in Readers : rpc[r] # "idle" /\ reads[r] < written ~> rpc[r] = "idle"

=============================================================================
