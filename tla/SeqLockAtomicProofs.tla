------------------------ MODULE SeqLockAtomicProofs ------------------------
(***************************************************************************)
(* SeqLockAtomic keeps its writers apart and returns no torn value, for    *)
(* any number of writers, readers and chunks and any even modulus of the   *)
(* counter, as long as no attempt of a Load is overlapped by so many       *)
(* Stores that the counter comes back to its value.                        *)
(***************************************************************************)
EXTENDS SeqLockAtomic, TLAPS

(* From an even counter Lock makes the next odd one, without wrapping, and *)
(* Unlock the next even one, which may wrap.                               *)
LEMMA CounterSteps ==
  ASSUME NEW s \in Counter, ~IsLocked(s)
  PROVE  /\ (s + 1) % CounterModulus = s + 1
         /\ s + 1 \in Counter
         /\ IsLocked(s + 1)
         /\ (s + 2) % CounterModulus = IF s + 2 = CounterModulus THEN 0 ELSE s + 2
         /\ (s + 2) % CounterModulus \in Counter
         /\ ~IsLocked((s + 2) % CounterModulus)
<1>1. s + 2 <= CounterModulus
  BY CounterAssumption DEF IsLocked, Counter
<1>2. (s + 2) % CounterModulus = IF s + 2 = CounterModulus THEN 0 ELSE s + 2
  BY <1>1, CounterAssumption DEF Counter
<1>3. (s + 1) % CounterModulus = s + 1 /\ s + 1 \in Counter
  BY <1>1, CounterAssumption DEF Counter
<1>4. IsLocked(s + 1)
  BY DEF IsLocked, Counter
<1>5. (s + 2) % CounterModulus \in Counter
  BY <1>1, <1>2, CounterAssumption DEF Counter
<1>6. ~IsLocked((s + 2) % CounterModulus)
  BY <1>2 DEF IsLocked, Counter
<1> QED
  BY <1>2, <1>3, <1>4, <1>5, <1>6

(***************************************************************************)
(* The types.                                                              *)
(***************************************************************************)

(* No step leaves the types: the counter wraps inside its width, the copies *)
(* end with the last chunk.                                                *)
LEMMA TypePreserved ==
  ASSUME TypeOK, LockState, [Next]_vars
  PROVE  TypeOK'
<1> USE DEF TypeOK, Chunks, WriterPlaces, ReaderPlaces
<1>1. ASSUME NEW w \in Writers, NEW v \in Value, Store(w, v)
      PROVE  TypeOK'
  BY <1>1 DEF Store, GotSeq, rvars
<1>2. ASSUME NEW w \in Writers, LockWait(w)
      PROVE  TypeOK'
  BY <1>2 DEF LockWait, GotSeq, rvars
<1>3. ASSUME NEW w \in Writers, LockCompareExchange(w)
      PROVE  TypeOK'
  <2>1. seq_' \in Counter
    BY <1>3, CounterSteps DEF LockCompareExchange, LockState
  <2>2. overlap' \in [Readers -> 0 .. MaxOverlap]
    BY <1>3, CounterAssumption DEF LockCompareExchange
  <2> QED
    BY <1>3, <2>1, <2>2 DEF LockCompareExchange, rvars
<1>4. ASSUME NEW w \in Writers, LockCompareExchangeFails(w)
      PROVE  TypeOK'
  BY <1>4 DEF LockCompareExchangeFails, GotSeq, rvars
<1>5. ASSUME NEW w \in Writers, StoreChunk(w)
      PROVE  TypeOK'
  <2>1. data_' \in Value
    <3>1. wnext[w] \in Chunks /\ desired[w] \in [Chunks -> Chunk]
      BY DEF Value
    <3>2. data_' = [data_ EXCEPT ![wnext[w]] = desired[w][wnext[w]]]
      BY <1>5 DEF StoreChunk
    <3> QED
      BY <3>1, <3>2 DEF Value
  <2>2. wnext' \in [Writers -> Chunks] /\ wpc' \in [Writers -> WriterPlaces]
    BY <1>5, ValueAssumption DEF StoreChunk
  <2> QED
    BY <1>5, <2>1, <2>2 DEF StoreChunk, rvars
<1>6. ASSUME NEW w \in Writers, Unlock(w)
      PROVE  TypeOK'
  <2>1. seq_' \in Counter
    BY <1>6, CounterSteps DEF Unlock, LockState, Holds
  <2>2. 0 \in Counter /\ InitValue \in Value
    BY CounterAssumption, ValueAssumption DEF Counter
  <2> QED
    BY <1>6, <2>1, <2>2 DEF Unlock, rvars
<1>7. ASSUME NEW r \in Readers, LoadSeq0(r)
      PROVE  TypeOK'
  BY <1>7, CounterAssumption DEF LoadSeq0, wvars
<1>8. ASSUME NEW r \in Readers, LoadChunk(r)
      PROVE  TypeOK'
  <2>1. loaded' \in [Readers -> Value]
    BY <1>8 DEF LoadChunk, Value
  <2>2. rnext' \in [Readers -> Chunks] /\ rpc' \in [Readers -> ReaderPlaces]
    BY <1>8, ValueAssumption DEF LoadChunk
  <2> QED
    BY <1>8, <2>1, <2>2 DEF LoadChunk, wvars
<1>9. ASSUME NEW r \in Readers, LoadSeq1(r)
      PROVE  TypeOK'
  <2>1. 0 \in Counter /\ 0 \in 0 .. MaxOverlap
    BY CounterAssumption DEF Counter
  <2> QED
    BY <1>9, <2>1 DEF LoadSeq1, wvars
<1>10. CASE UNCHANGED vars
  BY <1>10 DEF vars, wvars, rvars
<1> QED
  BY <1>1, <1>2, <1>3, <1>4, <1>5, <1>6, <1>7, <1>8, <1>9, <1>10 DEF Next, WriterStep

(***************************************************************************)
(* The lock.                                                               *)
(***************************************************************************)
LockInv == LockState /\ WriterExclusion

(* The compare-and-exchange succeeds on an even counter only, so a second  *)
(* writer never enters, and only the holder makes the counter even again.  *)
LEMMA LockPreserved ==
  ASSUME TypeOK, LockInv, [Next]_vars
  PROVE  LockInv'
<1> USE DEF LockInv, LockState, WriterExclusion, Holds, WriterPlaces
<1>0. /\ seq_ \in Counter
      /\ wpc \in [Writers -> WriterPlaces]
      /\ wseq \in [Writers -> Counter]
  BY DEF TypeOK
<1>1. ASSUME NEW w \in Writers, NEW v \in Value, Store(w, v)
      PROVE  LockInv'
  BY <1>0, <1>1 DEF Store, GotSeq
<1>2. ASSUME NEW w \in Writers, LockWait(w)
      PROVE  LockInv'
  BY <1>0, <1>2 DEF LockWait, GotSeq
<1>3. ASSUME NEW w \in Writers, LockCompareExchange(w)
      PROVE  LockInv'
  <2>1. seq_ = wseq[w] /\ ~IsLocked(seq_) /\ \A x \in Writers : ~Holds(x)
    BY <1>0, <1>3 DEF LockCompareExchange
  <2>2. seq_' = wseq[w] + 1 /\ IsLocked(seq_')
    BY <1>0, <1>3, <2>1, CounterSteps DEF LockCompareExchange
  <2> QED
    BY <1>0, <1>3, <2>1, <2>2 DEF LockCompareExchange
<1>4. ASSUME NEW w \in Writers, LockCompareExchangeFails(w)
      PROVE  LockInv'
  BY <1>0, <1>4 DEF LockCompareExchangeFails, GotSeq
<1>5. ASSUME NEW w \in Writers, StoreChunk(w)
      PROVE  LockInv'
  BY <1>0, <1>5 DEF StoreChunk
<1>6. ASSUME NEW w \in Writers, Unlock(w)
      PROVE  LockInv'
  <2>1. ~IsLocked(seq_') /\ \A x \in Writers : Holds(x) => x = w
    BY <1>0, <1>6, CounterSteps DEF Unlock
  <2> QED
    BY <1>0, <1>6, <2>1 DEF Unlock
<1>7. ASSUME NEW r \in Readers, LoadSeq0(r) \/ LoadChunk(r) \/ LoadSeq1(r)
      PROVE  LockInv'
  BY <1>7 DEF LoadSeq0, LoadChunk, LoadSeq1, wvars
<1>8. CASE UNCHANGED vars
  BY <1>8 DEF vars, wvars
<1> QED
  BY <1>1, <1>2, <1>3, <1>4, <1>5, <1>6, <1>7, <1>8 DEF Next, WriterStep

(***************************************************************************)
(* The copies.                                                             *)
(***************************************************************************)

(* A Store later the counter is where the formula of CounterSince says,    *)
(* for an even counter s and the sum y of seq0 and twice the overlap.      *)
LEMMA CounterMoves ==
  ASSUME NEW y \in Int, 0 <= y, y < 2 * CounterModulus, NEW s \in Counter
  PROVE  /\ s = y % CounterModulus /\ s + 1 \in Counter =>
              s + 1 = (y + 1) % CounterModulus
         /\ s = (y - 1) % CounterModulus =>
              (IF s + 1 = CounterModulus THEN 0 ELSE s + 1) = y % CounterModulus
<1>1. /\ y % CounterModulus = IF y < CounterModulus THEN y ELSE y - CounterModulus
      /\ (y - 1) % CounterModulus = IF y = 0 THEN CounterModulus - 1
                                    ELSE IF y - 1 < CounterModulus THEN y - 1
                                    ELSE y - 1 - CounterModulus
  BY CounterAssumption
<1>2. ASSUME s = y % CounterModulus, s + 1 \in Counter
      PROVE  s + 1 = (y + 1) % CounterModulus
  <2>1. y + 1 < 2 * CounterModulus
    BY <1>1, <1>2, CounterAssumption DEF Counter
  <2>2. (y + 1) % CounterModulus = IF y + 1 < CounterModulus THEN y + 1
                                   ELSE y + 1 - CounterModulus
    BY <2>1, CounterAssumption
  <2> QED
    BY <1>1, <1>2, <2>2, CounterAssumption DEF Counter
<1>3. ASSUME s = (y - 1) % CounterModulus
      PROVE  (IF s + 1 = CounterModulus THEN 0 ELSE s + 1) = y % CounterModulus
  BY <1>1, <1>3, CounterAssumption DEF Counter
<1> QED
  BY <1>2, <1>3

(* The formula of CounterSince at the instant seq0 is loaded.              *)
LEMMA CounterStays ==
  ASSUME NEW s \in Counter
  PROVE  s = ((s + 2 * 0) - 0) % CounterModulus
BY CounterAssumption DEF Counter

(* Lock and Unlock move the counter as CounterSince counts them.           *)
LEMMA CounterPreserved ==
  ASSUME TypeOK, LockInv, CounterSince, [Next]_vars
  PROVE  CounterSince'
<1> SUFFICES ASSUME NEW q \in Readers, Attempting(q)', ~IsLocked(seq0'[q])
             PROVE  seq_' = ((seq0'[q] + 2 * overlap'[q])
                               - (IF IsLocked(seq_') THEN 1 ELSE 0)) % CounterModulus
  BY DEF CounterSince
<1>0. /\ seq_ \in Counter /\ wpc \in [Writers -> WriterPlaces] /\ wseq \in [Writers -> Counter]
      /\ rpc \in [Readers -> ReaderPlaces] /\ seq0 \in [Readers -> Counter]
      /\ overlap \in [Readers -> 0 .. MaxOverlap]
  BY DEF TypeOK
<1>1. ASSUME UNCHANGED <<seq_, rpc, seq0, overlap>>
      PROVE  seq_' = ((seq0'[q] + 2 * overlap'[q])
                        - (IF IsLocked(seq_') THEN 1 ELSE 0)) % CounterModulus
  BY <1>1 DEF CounterSince, Attempting
<1>2. ASSUME NEW w \in Writers, LockCompareExchange(w)
      PROVE  seq_' = ((seq0'[q] + 2 * overlap'[q])
                        - (IF IsLocked(seq_') THEN 1 ELSE 0)) % CounterModulus
  <2>1. /\ Attempting(q) /\ seq0' = seq0 /\ overlap[q] < MaxOverlap
        /\ overlap'[q] = overlap[q] + 1
    BY <1>0, <1>2 DEF LockCompareExchange, Attempting, rvars
  <2>2. ~IsLocked(seq_) /\ seq_' = seq_ + 1 /\ IsLocked(seq_')
    BY <1>0, <1>2, CounterSteps DEF LockCompareExchange, LockInv, LockState
  <2>3. seq_ = (seq0[q] + 2 * overlap[q]) % CounterModulus
    <3>1. seq_ = ((seq0[q] + 2 * overlap[q]) - 0) % CounterModulus
      BY <1>0, <2>1, <2>2 DEF CounterSince
    <3>2. (seq0[q] + 2 * overlap[q]) - 0 = seq0[q] + 2 * overlap[q]
      BY <1>0 DEF Counter
    <3> QED
      BY <3>1, <3>2
  <2>4. /\ seq0[q] + 2 * overlap[q] \in Int /\ 0 <= seq0[q] + 2 * overlap[q]
        /\ seq0[q] + 2 * overlap[q] < 2 * CounterModulus
        /\ seq0[q] + 2 * overlap[q] + 1 = (seq0[q] + 2 * overlap'[q]) - 1
    BY <1>0, <2>1, CounterAssumption DEF Counter
  <2>5. seq_ + 1 \in Counter
    BY <1>0, <2>2, CounterSteps
  <2>6. seq_ + 1 = (seq0[q] + 2 * overlap[q] + 1) % CounterModulus
    BY <1>0, <2>3, <2>4, <2>5, CounterMoves
  <2> QED
    BY <2>1, <2>2, <2>4, <2>6
<1>3. ASSUME NEW w \in Writers, Unlock(w)
      PROVE  seq_' = ((seq0'[q] + 2 * overlap'[q])
                        - (IF IsLocked(seq_') THEN 1 ELSE 0)) % CounterModulus
  <2>1. Attempting(q) /\ seq0' = seq0 /\ overlap' = overlap
    BY <1>3 DEF Unlock, Attempting, rvars
  <2>2. /\ ~IsLocked(wseq[w]) /\ seq_ = wseq[w] + 1 /\ IsLocked(seq_) /\ ~IsLocked(seq_')
        /\ seq_' = IF wseq[w] + 2 = CounterModulus THEN 0 ELSE wseq[w] + 2
    BY <1>0, <1>3, CounterSteps DEF Unlock, LockInv, LockState, Holds
  <2>3. seq_ = ((seq0[q] + 2 * overlap[q]) - 1) % CounterModulus
    BY <1>0, <2>1, <2>2 DEF CounterSince
  <2>4. /\ seq0[q] + 2 * overlap[q] \in Int /\ 0 <= seq0[q] + 2 * overlap[q]
        /\ seq0[q] + 2 * overlap[q] < 2 * CounterModulus
        /\ (seq0[q] + 2 * overlap[q]) - 0 = seq0[q] + 2 * overlap[q]
    BY <1>0, CounterAssumption DEF Counter
  <2>5. seq_' = IF seq_ + 1 = CounterModulus THEN 0 ELSE seq_ + 1
    BY <1>0, <2>2 DEF Counter
  <2>6. seq_' = (seq0[q] + 2 * overlap[q]) % CounterModulus
    <3> DEFINE y == seq0[q] + 2 * overlap[q]
    <3>1. y \in Int /\ 0 <= y /\ y < 2 * CounterModulus /\ seq_ = (y - 1) % CounterModulus
      BY <2>3, <2>4
    <3> HIDE DEF y
    <3>2. (IF seq_ + 1 = CounterModulus THEN 0 ELSE seq_ + 1) = y % CounterModulus
      BY <1>0, <3>1, CounterMoves
    <3>3. seq_' = y % CounterModulus
      BY <2>5, <3>2
    <3> QED
      BY <3>3 DEF y
  <2> QED
    BY <2>1, <2>2, <2>4, <2>6
<1>4. ASSUME NEW r \in Readers, LoadSeq0(r)
      PROVE  seq_' = ((seq0'[q] + 2 * overlap'[q])
                        - (IF IsLocked(seq_') THEN 1 ELSE 0)) % CounterModulus
  <2>1. CASE q = r
    <3>1. seq0'[q] = seq_ /\ overlap'[q] = 0 /\ seq_' = seq_
      BY <1>0, <1>4, <2>1 DEF LoadSeq0
    <3>2. ~IsLocked(seq_') /\ seq_' \in Counter
      BY <1>0, <3>1
    <3> QED
      BY <3>1, <3>2, CounterStays
  <2>2. CASE q # r
    BY <1>0, <1>4, <2>2 DEF LoadSeq0, Attempting, CounterSince
  <2> QED
    BY <2>1, <2>2
<1>5. ASSUME NEW r \in Readers, LoadChunk(r)
      PROVE  seq_' = ((seq0'[q] + 2 * overlap'[q])
                        - (IF IsLocked(seq_') THEN 1 ELSE 0)) % CounterModulus
  BY <1>0, <1>5 DEF LoadChunk, Attempting, CounterSince, ReaderPlaces
<1>6. ASSUME NEW r \in Readers, LoadSeq1(r)
      PROVE  seq_' = ((seq0'[q] + 2 * overlap'[q])
                        - (IF IsLocked(seq_') THEN 1 ELSE 0)) % CounterModulus
  <2>1. q # r /\ Attempting(q) /\ seq_' = seq_
    BY <1>0, <1>6 DEF LoadSeq1, Attempting
  <2> QED
    BY <1>0, <1>6, <2>1 DEF LoadSeq1, CounterSince
<1> QED
  <2>1. ASSUME NEW w \in Writers, NEW v \in Value, Store(w, v)
        PROVE  UNCHANGED <<seq_, rpc, seq0, overlap>>
    BY <2>1 DEF Store, rvars
  <2>2. ASSUME NEW w \in Writers,
               LockWait(w) \/ LockCompareExchangeFails(w) \/ StoreChunk(w)
        PROVE  UNCHANGED <<seq_, rpc, seq0, overlap>>
    BY <2>2 DEF LockWait, LockCompareExchangeFails, StoreChunk, rvars
  <2>3. CASE UNCHANGED vars
    BY <1>1, <2>3 DEF vars, rvars
  <2> QED
    BY <1>1, <1>2, <1>3, <1>4, <1>5, <1>6, <2>1, <2>2, <2>3 DEF Next, WriterStep

(* The Lock that makes the counter odd is counted in overlap.              *)
LEMMA OverlapPreserved ==
  ASSUME TypeOK, LockInv, OverlapCounted, [Next]_vars
  PROVE  OverlapCounted'
<1> USE DEF OverlapCounted, Attempting
<1>0. /\ seq_ \in Counter /\ wseq \in [Writers -> Counter]
      /\ rpc \in [Readers -> ReaderPlaces] /\ seq0 \in [Readers -> Counter]
      /\ overlap \in [Readers -> 0 .. MaxOverlap]
  BY DEF TypeOK
<1>1. ASSUME UNCHANGED <<seq_, rpc, seq0, overlap>>
      PROVE  OverlapCounted'
  BY <1>1
<1>2. ASSUME NEW w \in Writers, LockCompareExchange(w)
      PROVE  OverlapCounted'
  BY <1>0, <1>2, CounterAssumption DEF LockCompareExchange, rvars
<1>3. ASSUME NEW w \in Writers, Unlock(w)
      PROVE  OverlapCounted'
  <2>1. ~IsLocked(seq_')
    BY <1>0, <1>3, CounterSteps DEF Unlock, LockInv, LockState, Holds
  <2> QED
    BY <2>1
<1>4. ASSUME NEW r \in Readers, LoadSeq0(r)
      PROVE  OverlapCounted'
  BY <1>0, <1>4 DEF LoadSeq0
<1>5. ASSUME NEW r \in Readers, LoadChunk(r)
      PROVE  OverlapCounted'
  BY <1>0, <1>5 DEF LoadChunk, ReaderPlaces
<1>6. ASSUME NEW r \in Readers, LoadSeq1(r)
      PROVE  OverlapCounted'
  BY <1>0, <1>6 DEF LoadSeq1, ReaderPlaces
<1> QED
  <2>1. ASSUME NEW w \in Writers, NEW v \in Value, Store(w, v)
        PROVE  UNCHANGED <<seq_, rpc, seq0, overlap>>
    BY <2>1 DEF Store, rvars
  <2>2. ASSUME NEW w \in Writers,
               LockWait(w) \/ LockCompareExchangeFails(w) \/ StoreChunk(w)
        PROVE  UNCHANGED <<seq_, rpc, seq0, overlap>>
    BY <2>2 DEF LockWait, LockCompareExchangeFails, StoreChunk, rvars
  <2>3. CASE UNCHANGED vars
    BY <1>1, <2>3 DEF vars, rvars
  <2> QED
    BY <1>1, <1>2, <1>3, <1>4, <1>5, <1>6, <2>1, <2>2, <2>3 DEF Next, WriterStep

(* The one writer that holds the lock stores its chunks one by one.        *)
LEMMA StoredPreserved ==
  ASSUME TypeOK, LockInv, StoredChunks, [Next]_vars
  PROVE  StoredChunks'
<1> USE DEF StoredChunks
<1>0. /\ wpc \in [Writers -> WriterPlaces] /\ wnext \in [Writers -> 1 .. ChunkCount]
      /\ desired \in [Writers -> [1 .. ChunkCount -> Chunk]]
      /\ data_ \in [1 .. ChunkCount -> Chunk]
  BY DEF TypeOK, Value, Chunks
<1>1. ASSUME NEW w \in Writers, NEW v \in Value, Store(w, v)
      PROVE  StoredChunks'
  BY <1>0, <1>1 DEF Store, GotSeq, WriterPlaces
<1>2. ASSUME NEW w \in Writers, LockWait(w)
      PROVE  StoredChunks'
  BY <1>0, <1>2 DEF LockWait, GotSeq, WriterPlaces
<1>3. ASSUME NEW w \in Writers, LockCompareExchange(w)
      PROVE  StoredChunks'
  BY <1>0, <1>3 DEF LockCompareExchange, WriterPlaces
<1>4. ASSUME NEW w \in Writers, LockCompareExchangeFails(w)
      PROVE  StoredChunks'
  BY <1>0, <1>4 DEF LockCompareExchangeFails, GotSeq, WriterPlaces
<1>5. ASSUME NEW w \in Writers, StoreChunk(w)
      PROVE  StoredChunks'
  <2>1. \A x \in Writers : x # w => /\ ~Holds(x)
                                   /\ wpc'[x] = wpc[x] /\ wnext'[x] = wnext[x]
    BY <1>0, <1>5 DEF StoreChunk, LockInv, WriterExclusion, Holds
  <2>a. /\ wpc[w] = "copy" /\ wnext[w] \in 1 .. ChunkCount
        /\ desired[w] \in [1 .. ChunkCount -> Chunk]
        /\ data_' = [data_ EXCEPT ![wnext[w]] = desired[w][wnext[w]]]
        /\ desired' = desired
    BY <1>0, <1>5 DEF StoreChunk
  <2>b. \A i \in 1 .. wnext[w] - 1 : data_[i] = desired[w][i]
    BY <2>a
  <2>2. \A i \in 1 .. ChunkCount : i <= wnext[w] => data_'[i] = desired[w][i]
    BY <1>0, <2>a, <2>b, ValueAssumption
  <2>3. desired' = desired /\ data_' \in [1 .. ChunkCount -> Chunk]
    BY <1>0, <2>a
  <2>4. CASE wnext[w] < ChunkCount
    BY <1>0, <1>5, <2>1, <2>2, <2>3, <2>4, ValueAssumption DEF StoreChunk, Holds
  <2>5. CASE wnext[w] = ChunkCount
    <3>1. data_' = desired[w]
      BY <1>0, <2>2, <2>3, <2>5
    <3> QED
      BY <1>0, <1>5, <2>1, <2>3, <2>5, <3>1, ValueAssumption DEF StoreChunk, Holds
  <2> QED
    BY <1>0, <2>4, <2>5, ValueAssumption
<1>6. ASSUME NEW w \in Writers, Unlock(w)
      PROVE  StoredChunks'
  BY <1>0, <1>6 DEF Unlock, LockInv, WriterExclusion, Holds, WriterPlaces
<1>7. ASSUME NEW r \in Readers, LoadSeq0(r) \/ LoadChunk(r) \/ LoadSeq1(r)
      PROVE  StoredChunks'
  BY <1>7 DEF LoadSeq0, LoadChunk, LoadSeq1, wvars
<1>8. CASE UNCHANGED vars
  BY <1>8 DEF vars, wvars
<1> QED
  BY <1>1, <1>2, <1>3, <1>4, <1>5, <1>6, <1>7, <1>8 DEF Next, WriterStep

(* data_ changes only while the counter is odd, that is in a Store that a  *)
(* reader with an even seq0 has counted.                                   *)
LEMMA CopiedPreserved ==
  ASSUME TypeOK, LockInv, OverlapCounted, CopiedSince, [Next]_vars
  PROVE  CopiedSince'
<1> USE DEF CopiedSince
<1>0. /\ rpc \in [Readers -> ReaderPlaces] /\ rnext \in [Readers -> 1 .. ChunkCount]
      /\ loaded \in [Readers -> [1 .. ChunkCount -> Chunk]]
      /\ data_ \in [1 .. ChunkCount -> Chunk]
      /\ seq0 \in [Readers -> Counter] /\ overlap \in [Readers -> 0 .. MaxOverlap]
      /\ seq_ \in Counter /\ Chunks = 1 .. ChunkCount
  BY DEF TypeOK, Value, Chunks
<1>1. ASSUME UNCHANGED <<data_, rvars, overlap>>
      PROVE  CopiedSince'
  BY <1>1 DEF rvars, Attempting
<1>2. ASSUME NEW w \in Writers, LockCompareExchange(w)
      PROVE  CopiedSince'
  <2>1. \A q \in Readers : Attempting(q) => overlap'[q] # 0
    BY <1>0, <1>2, CounterAssumption DEF LockCompareExchange
  <2> QED
    BY <1>2, <2>1 DEF LockCompareExchange, rvars, Attempting
<1>3. ASSUME NEW w \in Writers, StoreChunk(w)
      PROVE  CopiedSince'
  <2>1. IsLocked(seq_)
    BY <1>3 DEF StoreChunk, LockInv, LockState, Holds
  <2>2. \A q \in Readers : Attempting(q) /\ ~IsLocked(seq0[q]) => overlap[q] # 0
    BY <1>0, <2>1 DEF OverlapCounted
  <2> QED
    BY <1>3, <2>2 DEF StoreChunk, rvars, Attempting
<1>4. ASSUME NEW r \in Readers, LoadSeq0(r)
      PROVE  CopiedSince'
  BY <1>0, <1>4 DEF LoadSeq0, Attempting, ReaderPlaces
<1>5. ASSUME NEW r \in Readers, LoadChunk(r)
      PROVE  CopiedSince'
  BY <1>0, <1>5, ValueAssumption DEF LoadChunk, Attempting, ReaderPlaces
<1>6. ASSUME NEW r \in Readers, LoadSeq1(r)
      PROVE  CopiedSince'
  BY <1>0, <1>6 DEF LoadSeq1, Attempting, ReaderPlaces
<1> QED
  <2>1. ASSUME NEW w \in Writers, NEW v \in Value, Store(w, v)
        PROVE  UNCHANGED <<data_, rvars, overlap>>
    BY <2>1 DEF Store, rvars
  <2>2. ASSUME NEW w \in Writers, LockWait(w) \/ LockCompareExchangeFails(w) \/ Unlock(w)
        PROVE  UNCHANGED <<data_, rvars, overlap>>
    BY <2>2 DEF LockWait, LockCompareExchangeFails, Unlock, rvars
  <2>3. CASE UNCHANGED vars
    BY <1>1, <2>3 DEF vars
  <2> QED
    BY <1>1, <1>2, <1>3, <1>4, <1>5, <1>6, <2>1, <2>2, <2>3 DEF Next, WriterStep

(* No Store can hide behind the counter: if it is what it was at seq0, an  *)
(* even number, then no Store locked in between.                           *)
LEMMA SameCounter ==
  ASSUME NEW s \in Counter, NEW k \in 0 .. MaxOverlap,
         s = ((s + 2 * k) - 0) % CounterModulus
  PROVE  k = 0
<1> DEFINE d == 2 * k
<1>1. d \in Nat /\ d < CounterModulus /\ (d = 0 => k = 0)
  BY CounterAssumption
<1>2. s = (s + d) % CounterModulus
  <2>1. (s + 2 * k) - 0 = s + d
    BY DEF Counter
  <2> QED
    BY <2>1
<1> HIDE DEF d
<1>3. s + d < CounterModulus => (s + d) % CounterModulus = s + d
  BY <1>1, CounterAssumption DEF Counter
<1>4. s + d >= CounterModulus => (s + d) % CounterModulus = (s + d) - CounterModulus
  BY <1>1, CounterAssumption DEF Counter
<1>5. d = 0
  BY <1>1, <1>2, <1>3, <1>4, CounterAssumption DEF Counter
<1> QED
  BY <1>1, <1>5

(***************************************************************************)
(* The theorems.                                                           *)
(***************************************************************************)

(* The counter, the writers and the readers' copies agree after every step *)
(* of every Store and Load: IInv is inductive.                             *)
THEOREM InvariantHolds == Spec => []IInv
<1>1. Init => IInv
  <2> SUFFICES ASSUME Init
               PROVE  IInv
    OBVIOUS
  <2>1. 0 \in Counter /\ ~IsLocked(0) /\ 1 \in Chunks /\ 0 \in 0 .. MaxOverlap
    BY CounterAssumption, ValueAssumption DEF Counter, IsLocked, Chunks
  <2>2. TypeOK
    BY <2>1, ValueAssumption DEF Init, TypeOK, WriterPlaces, ReaderPlaces
  <2>3. LockState /\ WriterExclusion
    BY <2>1 DEF Init, LockState, WriterExclusion, Holds
  <2>4. StoredChunks
    BY DEF Init, StoredChunks
  <2>5. CounterSince /\ OverlapCounted /\ CopiedSince
    BY DEF Init, CounterSince, OverlapCounted, CopiedSince, Attempting
  <2> QED
    BY <2>2, <2>3, <2>4, <2>5 DEF IInv
<1>2. IInv /\ [Next]_vars => IInv'
  <2> SUFFICES ASSUME IInv, [Next]_vars
               PROVE  IInv'
    OBVIOUS
  <2>0. /\ TypeOK /\ LockInv /\ StoredChunks
        /\ CounterSince /\ OverlapCounted /\ CopiedSince
    BY DEF IInv, LockInv
  <2>1. TypeOK'
    BY <2>0, TypePreserved DEF LockInv
  <2>2. LockInv'
    BY <2>0, LockPreserved
  <2>3. StoredChunks'
    BY <2>0, StoredPreserved
  <2>4. CounterSince'
    BY <2>0, CounterPreserved
  <2>5. OverlapCounted'
    BY <2>0, OverlapPreserved
  <2>6. CopiedSince'
    BY <2>0, CopiedPreserved
  <2> QED
    BY <2>1, <2>2, <2>3, <2>4, <2>5, <2>6 DEF IInv, LockInv
<1> QED
  BY <1>1, <1>2, PTL DEF Spec

(* The counter never leaves its 32 bits and no copy of atomic_memcpy runs  *)
(* past the end of the value.                                              *)
THEOREM TypeCorrect == Spec => []TypeOK
<1>1. IInv => TypeOK
  BY DEF IInv
<1> QED
  BY <1>1, InvariantHolds, PTL

(* A Load that accepts its copy was not overlapped by any Store, so it has *)
(* copied the value as it still is.                                        *)
LEMMA AcceptedCopy ==
  ASSUME IInv, NEW r \in Readers,
         rpc[r] = "seq1", ~IsLocked(seq0[r]), seq0[r] = seq_
  PROVE  loaded[r] = data_ /\ \A w \in Writers : ~Holds(w)
<1>0. /\ seq_ \in Counter /\ overlap[r] \in 0 .. MaxOverlap
      /\ loaded[r] \in Value /\ data_ \in Value
  BY DEF IInv, TypeOK
<1>1. ~IsLocked(seq_) /\ Attempting(r)
  BY DEF Attempting
<1>2. \A w \in Writers : ~Holds(w)
  BY <1>1 DEF IInv, LockState
<1>3. seq_ = ((seq_ + 2 * overlap[r]) - 0) % CounterModulus
  BY <1>1 DEF IInv, CounterSince
<1>4. overlap[r] = 0
  BY <1>0, <1>3, SameCounter
<1>5. \A i \in Chunks : loaded[r][i] = data_[i]
  BY <1>1, <1>4 DEF IInv, CopiedSince
<1>6. loaded[r] = data_
  BY <1>0, <1>5 DEF Value
<1> QED
  BY <1>2, <1>6

(* A Load that accepts its copy returns one whole value, although Stores   *)
(* may have run, in part or many times over, while it was copying.         *)
THEOREM LoadsAreNotTorn == Spec => []NoTornRead
<1>1. IInv => NoTornRead
  BY AcceptedCopy DEF NoTornRead
<1> QED
  BY <1>1, InvariantHolds, PTL

(***************************************************************************)
(* The refinement of AtomicRegister.                                       *)
(***************************************************************************)

(* While the lock is held the register is the value being stored, ...      *)
LEMMA HeldRegister ==
  ASSUME NEW w \in Writers
  PROVE  /\ WriterExclusion /\ Holds(w) => Register = desired[w]
         /\ WriterExclusion' /\ Holds(w)' => Register' = desired'[w]
<1>1. ASSUME WriterExclusion, Holds(w)
      PROVE  Register = desired[w]
  <2>1. \A x \in Writers : Holds(x) => x = w
    BY <1>1 DEF WriterExclusion
  <2>2. (CHOOSE x \in Writers : Holds(x)) = w
    BY <1>1, <2>1
  <2> QED
    BY <1>1, <2>2 DEF Register
<1>2. ASSUME WriterExclusion', Holds(w)'
      PROVE  Register' = desired'[w]
  <2>1. \A x \in Writers : Holds(x)' => x = w
    BY <1>2 DEF WriterExclusion
  <2>2. (CHOOSE x \in Writers : Holds(x)') = w
    BY <1>2, <2>1
  <2> QED
    BY <1>2, <2>2 DEF Register
<1> QED
  BY <1>1, <1>2

(* ... and otherwise the shared value.                                     *)
LEMMA FreeRegister ==
  /\ (\A w \in Writers : ~Holds(w)) => Register = data_
  /\ (\A w \in Writers : ~Holds(w)') => Register' = data_'
BY DEF Register

(* A Store takes effect when its compare-and-exchange succeeds: until then *)
(* no step of a writer moves the register, and after it none does, because *)
(* data_ is the argument again by the time the lock is released.           *)
LEMMA StoresRefine ==
  ASSUME IInv, WriterExclusion', NEW w \in Writers,
         (\E v \in Value : Store(w, v)) \/ WriterStep(w)
  PROVE  [Atomic!Next]_(Atomic!vars)
<1>0. /\ wpc \in [Writers -> WriterPlaces] /\ desired \in [Writers -> Value]
      /\ WriterExclusion
  BY DEF IInv, TypeOK
<1>1. ASSUME NEW v \in Value, Store(w, v)
      PROVE  Atomic!CallStore(w, v)
  <2>1. /\ ~Holds(w) /\ ~Holds(w)' /\ wpc[w] = "idle" /\ wpc'[w] # "idle"
        /\ \A x \in Writers : Holds(x)' <=> Holds(x)
        /\ \A x \in Writers : x # w => wpc'[x] = wpc[x] /\ desired'[x] = desired[x]
        /\ desired'[w] = v
    BY <1>0, <1>1 DEF Store, GotSeq, Holds
  <2>2. Register' = Register
    <3>1. CASE \E x \in Writers : Holds(x)
      <4>1. PICK x \in Writers : Holds(x)
        BY <3>1
      <4>2. x # w /\ Holds(x)'
        BY <2>1, <4>1
      <4> QED
        BY <1>0, <2>1, <4>1, <4>2, HeldRegister
    <3>2. CASE \A x \in Writers : ~Holds(x)
      BY <1>1, <2>1, <3>2, FreeRegister DEF Store
    <3> QED
      BY <3>1, <3>2
  <2>3. ReaderCall' = ReaderCall
    BY <1>1 DEF Store, rvars, ReaderCall
  <2>4. WriterCall' = [WriterCall EXCEPT ![w] = [at |-> "called", arg |-> v]]
    BY <2>1 DEF WriterCall
  <2>5. WriterCall[w].at = "idle"
    BY <2>1 DEF WriterCall
  <2> QED
    BY <2>2, <2>3, <2>4, <2>5 DEF Atomic!CallStore
<1>2. CASE LockWait(w) \/ LockCompareExchangeFails(w)
  <2>1. /\ data_' = data_ /\ desired' = desired
        /\ \A x \in Writers : /\ Holds(x)' <=> Holds(x)
                              /\ wpc'[x] = "idle" <=> wpc[x] = "idle"
    BY <1>0, <1>2 DEF LockWait, LockCompareExchangeFails, GotSeq, Holds
  <2>2. Register' = Register /\ WriterCall' = WriterCall
    <3>1. CASE \E x \in Writers : Holds(x)
      <4>1. PICK x \in Writers : Holds(x)
        BY <3>1
      <4> QED
        BY <1>0, <2>1, <4>1, HeldRegister DEF WriterCall
    <3>2. CASE \A x \in Writers : ~Holds(x)
      BY <2>1, <3>2, FreeRegister DEF WriterCall
    <3> QED
      BY <3>1, <3>2
  <2>3. ReaderCall' = ReaderCall
    BY <1>2 DEF LockWait, LockCompareExchangeFails, rvars, ReaderCall
  <2> QED
    BY <2>2, <2>3 DEF Atomic!vars
<1>3. CASE LockCompareExchange(w)
  <2>1. /\ wpc[w] = "cas" /\ wpc' = [wpc EXCEPT ![w] = "copy"] /\ desired' = desired
        /\ UNCHANGED rvars
    BY <1>3 DEF LockCompareExchange
  <2>2. ~Holds(w) /\ Holds(w)' /\ Register' = desired[w]
    BY <1>0, <2>1, HeldRegister DEF Holds
  <2>3. WriterCall[w] = [at |-> "called", arg |-> desired[w]]
    BY <2>1, <2>2 DEF WriterCall
  <2>4. WriterCall' = [WriterCall EXCEPT ![w].at = "applied"]
    <3>1. \A x \in Writers : x # w => wpc'[x] = wpc[x] /\ (Holds(x)' <=> Holds(x))
      BY <1>0, <2>1 DEF Holds
    <3>2. wpc'[w] # "idle"
      BY <1>0, <2>1
    <3> QED
      BY <2>1, <2>2, <2>3, <3>1, <3>2 DEF WriterCall
  <2>5. ReaderCall' = ReaderCall
    BY <2>1 DEF rvars, ReaderCall
  <2>6. Atomic!Store(w)
    BY <2>2, <2>3, <2>4, <2>5 DEF Atomic!Store
  <2> QED
    BY <2>6 DEF Atomic!Next
<1>4. CASE StoreChunk(w)
  <2>1. /\ Holds(w) /\ Holds(w)' /\ desired' = desired /\ UNCHANGED rvars
        /\ wpc[w] # "idle" /\ wpc'[w] # "idle"
        /\ \A x \in Writers : x # w => wpc'[x] = wpc[x]
    BY <1>0, <1>4 DEF StoreChunk, Holds
  <2>2. Register' = Register
    BY <1>0, <2>1, HeldRegister
  <2>3. WriterCall' = WriterCall
    BY <2>1 DEF WriterCall, Holds
  <2>4. ReaderCall' = ReaderCall
    BY <2>1 DEF rvars, ReaderCall
  <2> QED
    BY <2>2, <2>3, <2>4 DEF Atomic!vars
<1>5. CASE Unlock(w)
  <2>1. /\ wpc[w] = "unlock" /\ wpc' = [wpc EXCEPT ![w] = "idle"]
        /\ desired' = [desired EXCEPT ![w] = InitValue]
        /\ data_' = data_ /\ UNCHANGED rvars
    BY <1>5 DEF Unlock
  <2>2. Holds(w) /\ \A x \in Writers : ~Holds(x)'
    BY <1>0, <2>1 DEF Holds, WriterExclusion
  <2>3. data_ = desired[w]
    BY <2>1 DEF IInv, StoredChunks
  <2>4. Register' = Register
    BY <1>0, <2>1, <2>2, <2>3, HeldRegister, FreeRegister
  <2>5. WriterCall[w].at = "applied"
    BY <2>1, <2>2 DEF WriterCall
  <2>6. WriterCall' = [WriterCall EXCEPT ![w] = [at |-> "idle", arg |-> InitValue]]
    <3>1. \A x \in Writers : x # w => /\ wpc'[x] = wpc[x] /\ desired'[x] = desired[x]
                                      /\ ~Holds(x)' /\ ~Holds(x)
      BY <1>0, <2>1, <2>2 DEF WriterExclusion
    <3>2. wpc'[w] = "idle" /\ desired'[w] = InitValue
      BY <1>0, <2>1
    <3> QED
      BY <3>1, <3>2 DEF WriterCall
  <2>7. ReaderCall' = ReaderCall
    BY <2>1 DEF rvars, ReaderCall
  <2>8. Atomic!ReturnStore(w)
    BY <2>4, <2>5, <2>6, <2>7 DEF Atomic!ReturnStore
  <2> QED
    BY <2>8 DEF Atomic!Next
<1> QED
  BY <1>1, <1>2, <1>3, <1>4, <1>5 DEF WriterStep, Atomic!Next

(* A Load takes effect when it accepts its copy.                           *)
LEMMA LoadsRefine ==
  ASSUME IInv, NEW r \in Readers, LoadSeq0(r) \/ LoadChunk(r) \/ LoadSeq1(r)
  PROVE  [Atomic!Next]_(Atomic!vars)
<1>0. rpc \in [Readers -> ReaderPlaces] /\ loaded \in [Readers -> Value]
  BY DEF IInv, TypeOK
<1>1. Register' = Register /\ WriterCall' = WriterCall
  <2>1. wpc' = wpc /\ desired' = desired /\ data_' = data_
    BY DEF LoadSeq0, LoadChunk, LoadSeq1, wvars
  <2> QED
    BY <2>1 DEF Register, WriterCall, Holds
<1>2. CASE LoadSeq0(r)
  <2>1. /\ rpc' = [rpc EXCEPT ![r] = "copy"] /\ loaded' = loaded
        /\ rpc[r] \in {"idle", "seq0"}
    BY <1>2 DEF LoadSeq0
  <2>2. CASE rpc[r] = "idle"
    <3>1. ~ReaderCall[r].busy
      BY <2>2 DEF ReaderCall
    <3>2. ReaderCall' = [ReaderCall EXCEPT ![r] = [busy |-> TRUE, val |-> NoValue]]
      BY <1>0, <2>1 DEF ReaderCall
    <3>3. Atomic!CallLoad(r)
      BY <1>1, <3>1, <3>2 DEF Atomic!CallLoad
    <3> QED
      BY <3>3 DEF Atomic!Next
  <2>3. CASE rpc[r] = "seq0"
    <3>1. ReaderCall' = ReaderCall
      BY <1>0, <2>1, <2>3 DEF ReaderCall
    <3> QED
      BY <1>1, <3>1 DEF Atomic!vars
  <2> QED
    BY <2>1, <2>2, <2>3
<1>3. CASE LoadChunk(r)
  <2>1. /\ rpc[r] # "idle" /\ rpc'[r] # "idle"
        /\ \A x \in Readers : x # r => rpc'[x] = rpc[x] /\ loaded'[x] = loaded[x]
    BY <1>0, <1>3 DEF LoadChunk
  <2>2. ReaderCall' = ReaderCall
    BY <2>1 DEF ReaderCall
  <2> QED
    BY <1>1, <2>2 DEF Atomic!vars
<1>4. CASE LoadSeq1(r)
  <2>1. /\ rpc[r] = "seq1" /\ loaded' = loaded
        /\ rpc' = [rpc EXCEPT ![r] =
                     IF IsLocked(seq0[r]) \/ seq0[r] # seq_ THEN "seq0" ELSE "idle"]
    BY <1>4 DEF LoadSeq1
  <2>2. CASE IsLocked(seq0[r]) \/ seq0[r] # seq_
    <3>1. ReaderCall' = ReaderCall
      BY <1>0, <2>1, <2>2 DEF ReaderCall
    <3> QED
      BY <1>1, <3>1 DEF Atomic!vars
  <2>3. CASE ~IsLocked(seq0[r]) /\ seq0[r] = seq_
    <3>1. loaded[r] = Register
      BY <2>1, <2>3, AcceptedCopy, FreeRegister
    <3>2. ReaderCall[r].busy
      BY <2>1 DEF ReaderCall
    <3>3. ReaderCall' = [ReaderCall EXCEPT ![r] = [busy |-> FALSE, val |-> loaded[r]]]
      <4>1. rpc' = [rpc EXCEPT ![r] = "idle"]
        BY <2>1, <2>3
      <4> QED
        BY <1>0, <2>1, <4>1 DEF ReaderCall
    <3>4. Atomic!Load(r)
      BY <1>1, <3>1, <3>2, <3>3 DEF Atomic!Load
    <3> QED
      BY <3>4 DEF Atomic!Next
  <2> QED
    BY <2>2, <2>3
<1> QED
  BY <1>2, <1>3, <1>4

(* SeqLockAtomic is an atomic register: every Store and every Load takes   *)
(* effect at one instant of the call, for any number of writers, readers   *)
(* and chunks.                                                             *)
THEOREM RegisterImplemented == Spec => ImplementsRegister
<1>1. Init => Atomic!Init
  <2> SUFFICES ASSUME Init
               PROVE  Atomic!Init
    OBVIOUS
  <2>1. Register = InitValue
    BY FreeRegister DEF Init, Holds
  <2> QED
    BY <2>1 DEF Init, WriterCall, ReaderCall, Atomic!Init
<1>2. IInv /\ IInv' /\ [Next]_vars => [Atomic!Next]_(Atomic!vars)
  <2>1. ASSUME UNCHANGED vars
        PROVE  UNCHANGED Atomic!vars
    BY <2>1 DEF vars, wvars, rvars, Register, WriterCall, ReaderCall, Holds, Atomic!vars
  <2> QED
    BY <2>1, StoresRefine, LoadsRefine DEF Next, IInv
<1> QED
  BY <1>1, <1>2, InvariantHolds, PTL DEF Spec, ImplementsRegister, Atomic!Spec
=============================================================================
