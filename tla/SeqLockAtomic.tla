--------------------------- MODULE SeqLockAtomic ---------------------------
(***************************************************************************)
(* concurrent::lock::SeqLockAtomic<T> and the SeqLock inside it            *)
(* (lock/seq_lock.h), with the copies of utils/atomic_memcpy.h.  Store     *)
(* makes the counter seq_ odd, copies the value chunk by chunk and makes   *)
(* the counter even again; Load copies the value and repeats the copy      *)
(* until the counter was even before it and the same after it.             *)
(*                                                                         *)
(* A step is one access to shared memory.  atomic_memcpy copies the chunks *)
(* of a value (words of type uintmax_t, then single bytes) in ascending    *)
(* order, each with one relaxed access; the fences around the copies keep  *)
(* them between the accesses to seq_, so the steps are taken in the order  *)
(* of the program.                                                         *)
(***************************************************************************)
EXTENDS Integers

CONSTANTS
  Writers, Readers,  \* the threads that Store and the threads that Load
  ChunkCount,        \* the chunks in which atomic_memcpy copies a T
  Chunk,             \* the values of a chunk
  InitValue,         \* the value given to the constructor
  NoValue,           \* not a value of T
  CounterModulus,    \* 2^32: Counter is uint32_t
  MaxOverlap         \* the most Stores that begin during one attempt of a Load

Chunks == 1 .. ChunkCount
Value == [Chunks -> Chunk]

ASSUME ValueAssumption == ChunkCount \in Nat /\ ChunkCount > 0 /\ InitValue \in Value

(* A counter that comes back to the same value during one attempt of a     *)
(* Load deceives it: nothing in the code excludes that, the bound on the   *)
(* Stores during one attempt is an assumption about the program.           *)
ASSUME CounterAssumption ==
  /\ CounterModulus \in Nat /\ CounterModulus > 1 /\ CounterModulus % 2 = 0
  /\ MaxOverlap \in Nat /\ 2 * MaxOverlap < CounterModulus

VARIABLES
  seq_,     \* the counter of the lock, odd while a writer holds it
  data_,    \* the shared value
  wpc,      \* where each writer is in Store
  desired,  \* the argument of its Store
  wseq,     \* its variable seq
  wnext,    \* the next chunk it stores
  rpc,      \* where each reader is in Load
  seq0,     \* its variable seq0
  loaded,   \* its variable loaded, while idle the value that Load returned
  rnext,    \* the next chunk it loads
  overlap   \* history: the Stores that locked since it loaded seq0

wvars == <<wpc, desired, wseq, wnext>>
rvars == <<rpc, seq0, loaded, rnext>>
vars == <<seq_, data_, wvars, rvars, overlap>>

WriterPlaces == {"idle", "wait", "cas", "copy", "unlock"}
ReaderPlaces == {"idle", "seq0", "copy", "seq1"}

Counter == 0 .. CounterModulus - 1

IsLocked(seq) == seq % 2 = 1

Init ==
  /\ seq_ = 0
  /\ data_ = InitValue
  /\ wpc = [w \in Writers |-> "idle"]
  /\ desired = [w \in Writers |-> InitValue]
  /\ wseq = [w \in Writers |-> 0]
  /\ wnext = [w \in Writers |-> 1]
  /\ rpc = [r \in Readers |-> "idle"]
  /\ seq0 = [r \in Readers |-> 0]
  /\ loaded = [r \in Readers |-> InitValue]
  /\ rnext = [r \in Readers |-> 1]
  /\ overlap = [r \in Readers |-> 0]

(***************************************************************************)
(* Store.                                                                  *)
(***************************************************************************)

(* What SeqLock::Lock does with a value it has read from seq_.             *)
GotSeq(w) ==
  /\ wseq' = [wseq EXCEPT ![w] = seq_]
  /\ wpc' = [wpc EXCEPT ![w] = IF IsLocked(seq_) THEN "wait" ELSE "cas"]

Store(w, v) ==
  /\ wpc[w] = "idle"
  /\ desired' = [desired EXCEPT ![w] = v]
  /\ GotSeq(w)
  /\ UNCHANGED <<seq_, data_, wnext, rvars, overlap>>

(* Mutation: the loop of Lock does not load seq_ again.                    *)
LockWaitStale(w) ==
  /\ wpc[w] = "wait"
  /\ wpc' = [wpc EXCEPT ![w] = IF IsLocked(wseq[w]) THEN "wait" ELSE "cas"]
  /\ UNCHANGED <<seq_, data_, desired, wseq, wnext, rvars, overlap>>

LockWait(w) ==
  /\ wpc[w] = "wait"
  /\ GotSeq(w)
  /\ UNCHANGED <<seq_, data_, desired, wnext, rvars, overlap>>

Attempting(r) == rpc[r] \in {"copy", "seq1"}

(* Mutation: a store in place of the compare-and-exchange.                 *)
LockUncompared(w) ==
  /\ wpc[w] = "cas"
  /\ \A r \in Readers : Attempting(r) => overlap[r] < MaxOverlap
  /\ seq_' = (wseq[w] + 1) % CounterModulus
  /\ wpc' = [wpc EXCEPT ![w] = "copy"]
  /\ overlap' = [r \in Readers |-> IF Attempting(r) THEN overlap[r] + 1 ELSE 0]
  /\ UNCHANGED <<data_, desired, wseq, wnext, rvars>>

LockCompareExchange(w) ==
  /\ wpc[w] = "cas"
  /\ seq_ = wseq[w]
  /\ \A r \in Readers : Attempting(r) => overlap[r] < MaxOverlap
  /\ seq_' = (wseq[w] + 1) % CounterModulus
  /\ wpc' = [wpc EXCEPT ![w] = "copy"]
  /\ overlap' = [r \in Readers |-> IF Attempting(r) THEN overlap[r] + 1 ELSE 0]
  /\ UNCHANGED <<data_, desired, wseq, wnext, rvars>>

(* compare_exchange_weak may fail even if seq_ is wseq.                    *)
LockCompareExchangeFails(w) ==
  /\ wpc[w] = "cas"
  /\ GotSeq(w)
  /\ UNCHANGED <<seq_, data_, desired, wnext, rvars, overlap>>

StoreChunk(w) ==
  /\ wpc[w] = "copy"
  /\ data_' = [data_ EXCEPT ![wnext[w]] = desired[w][wnext[w]]]
  /\ \/ /\ wnext[w] < ChunkCount
        /\ wnext' = [wnext EXCEPT ![w] = @ + 1]
        /\ UNCHANGED wpc
     \/ /\ wnext[w] = ChunkCount
        /\ wnext' = [wnext EXCEPT ![w] = 1]
        /\ wpc' = [wpc EXCEPT ![w] = "unlock"]
  /\ UNCHANGED <<seq_, desired, wseq, rvars, overlap>>

(* Mutation: the counter is taken back to the value it had before Lock.    *)
UnlockSameSeq(w) ==
  /\ wpc[w] = "unlock"
  /\ seq_' = wseq[w]
  /\ wpc' = [wpc EXCEPT ![w] = "idle"]
  /\ desired' = [desired EXCEPT ![w] = InitValue]
  /\ wseq' = [wseq EXCEPT ![w] = 0]
  /\ UNCHANGED <<data_, wnext, rvars, overlap>>

(* The call is over and its variables are gone: they get the values they   *)
(* had at first.  The same goes for seq0 at the end of a round of Load.    *)
Unlock(w) ==
  /\ wpc[w] = "unlock"
  /\ seq_' = (wseq[w] + 2) % CounterModulus
  /\ wpc' = [wpc EXCEPT ![w] = "idle"]
  /\ desired' = [desired EXCEPT ![w] = InitValue]
  /\ wseq' = [wseq EXCEPT ![w] = 0]
  /\ UNCHANGED <<data_, wnext, rvars, overlap>>

(***************************************************************************)
(* Load.                                                                   *)
(***************************************************************************)

(* Mutation: seq0 is loaded before the loop only.                          *)
LoadSeq0Once(r) ==
  /\ rpc[r] \in {"idle", "seq0"}
  /\ seq0' = [seq0 EXCEPT ![r] = IF rpc[r] = "idle" THEN seq_ ELSE @]
  /\ overlap' = [overlap EXCEPT ![r] = 0]
  /\ rpc' = [rpc EXCEPT ![r] = "copy"]
  /\ UNCHANGED <<seq_, data_, wvars, loaded, rnext>>

(* The call, or the next round of the loop.                                *)
LoadSeq0(r) ==
  /\ rpc[r] \in {"idle", "seq0"}
  /\ seq0' = [seq0 EXCEPT ![r] = seq_]
  /\ overlap' = [overlap EXCEPT ![r] = 0]
  /\ rpc' = [rpc EXCEPT ![r] = "copy"]
  /\ UNCHANGED <<seq_, data_, wvars, loaded, rnext>>

(* Mutation: the copy runs one chunk past the end.                         *)
LoadChunkPastEnd(r) ==
  /\ rpc[r] = "copy"
  /\ loaded' = [loaded EXCEPT ![r][rnext[r]] = data_[rnext[r]]]
  /\ rnext' = [rnext EXCEPT ![r] = @ + 1]
  /\ rpc' = [rpc EXCEPT ![r] = IF rnext[r] > ChunkCount THEN "seq1" ELSE "copy"]
  /\ UNCHANGED <<seq_, data_, wvars, seq0, overlap>>

LoadChunk(r) ==
  /\ rpc[r] = "copy"
  /\ loaded' = [loaded EXCEPT ![r][rnext[r]] = data_[rnext[r]]]
  /\ \/ /\ rnext[r] < ChunkCount
        /\ rnext' = [rnext EXCEPT ![r] = @ + 1]
        /\ UNCHANGED rpc
     \/ /\ rnext[r] = ChunkCount
        /\ rnext' = [rnext EXCEPT ![r] = 1]
        /\ rpc' = [rpc EXCEPT ![r] = "seq1"]
  /\ UNCHANGED <<seq_, data_, wvars, seq0, overlap>>

(* Mutation: the loop does not ask whether seq0 was odd.                   *)
LoadSeq1LockedAccepted(r) ==
  /\ rpc[r] = "seq1"
  /\ rpc' = [rpc EXCEPT ![r] = IF seq0[r] # seq_ THEN "seq0" ELSE "idle"]
  /\ seq0' = [seq0 EXCEPT ![r] = 0]
  /\ overlap' = [overlap EXCEPT ![r] = 0]
  /\ UNCHANGED <<seq_, data_, wvars, loaded, rnext>>

LoadSeq1(r) ==
  /\ rpc[r] = "seq1"
  /\ rpc' = [rpc EXCEPT ![r] =
               IF IsLocked(seq0[r]) \/ seq0[r] # seq_ THEN "seq0" ELSE "idle"]
  /\ seq0' = [seq0 EXCEPT ![r] = 0]
  /\ overlap' = [overlap EXCEPT ![r] = 0]
  /\ UNCHANGED <<seq_, data_, wvars, loaded, rnext>>

WriterStep(w) ==
  \/ LockWait(w)
  \/ LockCompareExchange(w)
  \/ LockCompareExchangeFails(w)
  \/ StoreChunk(w)
  \/ Unlock(w)

ReaderStep(r) == (rpc[r] # "idle" /\ LoadSeq0(r)) \/ LoadChunk(r) \/ LoadSeq1(r)

Next ==
  \/ \E w \in Writers : (\E v \in Value : Store(w, v)) \/ WriterStep(w)
  \/ \E r \in Readers : LoadSeq0(r) \/ LoadChunk(r) \/ LoadSeq1(r)

Spec == Init /\ [][Next]_vars

(* The operating system runs every thread that is inside a call.           *)
Fairness ==
  /\ \A w \in Writers : WF_vars(WriterStep(w))
  /\ \A r \in Readers : WF_vars(ReaderStep(r))

FairSpec == Spec /\ Fairness

(***************************************************************************)
(* Properties.                                                             *)
(***************************************************************************)

(* Every variable has its type and every copy stays inside the value.      *)
TypeOK ==
  /\ seq_ \in Counter
  /\ data_ \in Value
  /\ wpc \in [Writers -> WriterPlaces]
  /\ desired \in [Writers -> Value]
  /\ wseq \in [Writers -> Counter]
  /\ wnext \in [Writers -> Chunks]
  /\ rpc \in [Readers -> ReaderPlaces]
  /\ seq0 \in [Readers -> Counter]
  /\ loaded \in [Readers -> Value]
  /\ rnext \in [Readers -> Chunks]
  /\ overlap \in [Readers -> 0 .. MaxOverlap]

Holds(w) == wpc[w] \in {"copy", "unlock"}

(* A writer that holds the lock knows the counter, which is odd; a counter *)
(* that is odd has a writer; and no writer tries to lock from an odd one.  *)
LockState ==
  /\ \A w \in Writers : Holds(w) => seq_ = wseq[w] + 1 /\ ~IsLocked(wseq[w])
  /\ \A w \in Writers : wpc[w] = "cas" => ~IsLocked(wseq[w])
  /\ IsLocked(seq_) <=> \E w \in Writers : Holds(w)

(* At most one writer at a time copies its value, although the counter     *)
(* wraps and Lock compares it with a value it read long ago.               *)
WriterExclusion == \A w, x \in Writers : Holds(w) /\ Holds(x) => w = x

(* How far the writer that holds the lock has come.                        *)
StoredChunks ==
  \A w \in Writers :
    /\ ~(wpc[w] = "copy") => wnext[w] = 1
    /\ wpc[w] = "unlock" => data_ = desired[w]
    /\ wpc[w] = "copy" => \A i \in 1 .. wnext[w] - 1 : data_[i] = desired[w][i]

(* The counter since a reader loaded an even seq0: two more for every      *)
(* Store since, one less while the last of them still holds the lock.      *)
CounterSince ==
  \A r \in Readers : Attempting(r) /\ ~IsLocked(seq0[r]) =>
    seq_ = ((seq0[r] + 2 * overlap[r]) - (IF IsLocked(seq_) THEN 1 ELSE 0)) % CounterModulus

(* A lock that is held now but was free at seq0 was taken in between.      *)
OverlapCounted ==
  \A r \in Readers :
    Attempting(r) /\ ~IsLocked(seq0[r]) /\ IsLocked(seq_) => overlap[r] > 0

(* A reader that loaded an even seq0 and was not overlapped by any Store   *)
(* has copied what data_ still holds.                                      *)
CopiedSince ==
  \A r \in Readers :
    /\ ~(rpc[r] = "copy") => rnext[r] = 1
    /\ Attempting(r) /\ ~IsLocked(seq0[r]) /\ overlap[r] = 0 =>
         \A i \in Chunks : rpc[r] = "seq1" \/ i < rnext[r] => loaded[r][i] = data_[i]

(* The inductive invariant.                                                *)
IInv ==
  /\ TypeOK
  /\ LockState
  /\ WriterExclusion
  /\ StoredChunks
  /\ CounterSince
  /\ OverlapCounted
  /\ CopiedSince

(* A Load that is about to accept its copy (seq0 was even and is what seq1 *)
(* will be) returns one whole value: the one in data_, which no writer is  *)
(* changing.  This is where a torn read would show.                        *)
NoTornRead ==
  \A r \in Readers :
    rpc[r] = "seq1" /\ ~IsLocked(seq0[r]) /\ seq0[r] = seq_ =>
      loaded[r] = data_ /\ \A w \in Writers : ~Holds(w)

(* The register: a Store takes effect when it locks.                       *)
Register ==
  IF \E w \in Writers : Holds(w) THEN desired[CHOOSE w \in Writers : Holds(w)] ELSE data_

WriterCall ==
  [w \in Writers |->
     [at |-> IF wpc[w] = "idle" THEN "idle" ELSE IF Holds(w) THEN "applied" ELSE "called",
      arg |-> desired[w]]]

ReaderCall ==
  [r \in Readers |->
     [busy |-> rpc[r] # "idle", val |-> IF rpc[r] = "idle" THEN loaded[r] ELSE NoValue]]

Atomic == INSTANCE AtomicRegister WITH
  reg <- Register, writer <- WriterCall, reader <- ReaderCall

(* SeqLockAtomic is linearizable: every Store and every Load takes effect  *)
(* at one instant of the call on a register that holds one whole value.    *)
ImplementsRegister == Atomic!Spec

(* Writers do not block each other for ever: while Stores are in progress, *)
(* one after the other unlocks.                                            *)
StoresComplete ==
  []<>(\A w \in Writers : wpc[w] = "idle") \/ []<><<\E w \in Writers : Unlock(w)>>_vars

(* A Load returns once no more Stores come, wherever they had left it.     *)
LoadReturns ==
  <>[](\A w \in Writers : wpc[w] = "idle") => \A r \in Readers : []<>(rpc[r] = "idle")

=============================================================================
