------------------------ MODULE TcpConnectionProofs -------------------------
(***************************************************************************)
(* Proofs about what one connection reads and writes.  Of reading, for a   *)
(* ring of any size and any number of chunks: the chunks come out as they  *)
(* went in, and flow control fails in the two races that TcpRead names and *)
(* in no other.  Of cutting the bytes into packets, for any stream, base   *)
(* and widths of numbers: the packets read are the first of those that     *)
(* have arrived, and what was encoded is decoded.  Of writing, for any     *)
(* number of packets: they are handed to the socket in order, and the data *)
(* of a write is freed once.                                               *)
(***************************************************************************)
EXTENDS MCTcpConnection, DataLemmas, SequenceTheorems

(* The place i places on from idx, without the remainder.                  *)
Slot(idx, i) == IF idx + i <= Size THEN idx + i ELSE idx + i - Capacity

LEMMA Remainders ==
  ASSUME NEW n \in Nat, n > 0
  PROVE  /\ \A a \in 0 .. n - 1 : a % n = a
         /\ n % n = 0
<1>1. ASSUME NEW a \in 0 .. n - 1
      PROVE  a % n = a
  BY Z3
<1>2. n % n = 0
  BY Z3
<1> QED
  BY <1>1, <1>2

LEMMA IncrementSlot ==
  /\ \A idx \in 0 .. Size : increment(idx) = (IF idx = Size THEN 0 ELSE idx + 1)
  /\ \A idx \in 0 .. Size : increment(idx) = Slot(idx, 1)
<1> USE TcpReadAssumption
<1>1. Capacity \in Nat /\ Capacity > 0 /\ Capacity = Size + 1
  BY DEF Capacity
<1>2. ASSUME NEW idx \in 0 .. Size
      PROVE  increment(idx) = IF idx = Size THEN 0 ELSE idx + 1
  <2>1. CASE idx = Size
    BY <1>1, <2>1, Remainders DEF increment
  <2>2. CASE idx # Size
    <3>1. idx + 1 \in 0 .. Capacity - 1
      BY <1>1, <2>2
    <3> QED
      BY <1>1, <2>2, <3>1, Remainders DEF increment
  <2> QED
    BY <2>1, <2>2
<1> QED
  BY <1>1, <1>2 DEF Slot

-----------------------------------------------------------------------------
(* The types; a chunk that OnRead has in hand has a number.                *)
InHand == uv_at \in {"write", "publish"} => arrived > 0

(* Every step of the two threads keeps the types                           *)
(* (circularfifo_memory_sequential_consistent.hpp:88-114).                 *)
THEOREM TcpReadTyped == Spec => []TypeOK
<1> USE TcpReadAssumption
<1>1. Init => TypeOK /\ InHand
  BY DEF Init, TypeOK, InHand
<1>2. TypeOK /\ InHand /\ [Next]_vars => TypeOK' /\ InHand'
  <2> SUFFICES ASSUME TypeOK, InHand, [Next]_vars
               PROVE  TypeOK' /\ InHand'
    OBVIOUS
  <2> USE DEF TypeOK, InHand, fifoVars, flowVars, historyVars
  <2>1. CASE OnRead
    BY <2>1 DEF OnRead
  <2>2. CASE WriteItem
    BY <2>2 DEF WriteItem
  <2>3. CASE StoreTail
    <3>1. /\ tail' = increment(tail) /\ pushed' = Append(pushed, arrived)
          /\ uv_at' = "wasFull" /\ arrived \in 1 .. MaxChunks
          /\ UNCHANGED <<head, array, flowVars, main_at, item, got, restarted_full, raced>>
      BY <2>3 DEF StoreTail
    <3>2. tail' \in 0 .. Size
      BY <3>1, IncrementSlot
    <3>3. pushed' \in Seq(1 .. MaxChunks)
      BY ONLY TypeOK, <3>1 DEF TypeOK
    <3> QED
      BY <3>1, <3>2, <3>3
  <2>4. CASE Refused \/ WasFull
    BY <2>4 DEF Refused, WasFull
  <2>5. CASE StopRead \/ DoClose \/ StartRead
    <3>1. CASE StopRead \/ DoClose
      BY <2>5, <3>1 DEF StopRead, DoClose
    <3>2. CASE StartRead
      <4>1. restarted_full' \in BOOLEAN /\ started' \in BOOLEAN /\ reading_' \in BOOLEAN
        BY <3>2, Zenon DEF StartRead, IsFull
      <4>2. read_posted' \in Nat
        BY <3>2 DEF StartRead
      <4> QED
        BY <3>2, <4>1, <4>2 DEF StartRead
    <3> QED
      BY <2>5, <3>1, <3>2
  <2>6. CASE Pop
    BY <2>6 DEF Pop
  <2>7. CASE StoreHead
    <3>1. increment(head) \in 0 .. Size
      <4>1. \A h \in 0 .. Size : (IF h = Size THEN 0 ELSE h + 1) \in 0 .. Size
        OBVIOUS
      <4>2. increment(head) = (IF head = Size THEN 0 ELSE head + 1)
        BY IncrementSlot
      <4> QED
        BY <4>1, <4>2
    <3>2. Append(got, item) \in Seq(0 .. MaxChunks)
      OBVIOUS
    <3> QED
      BY <2>7, <3>1, <3>2 DEF StoreHead
  <2>8. CASE AskToRead
    BY <2>8 DEF AskToRead
  <2>9. CASE UNCHANGED vars
    BY <2>9 DEF vars
  <2> QED
    BY <2>1, <2>2, <2>3, <2>4, <2>5, <2>6, <2>7, <2>8, <2>9 DEF Next
<1> QED
  BY <1>1, <1>2, PTL DEF Spec

-----------------------------------------------------------------------------
(* What ReadInOrder rests on: the ring holds the chunks that were pushed   *)
(* and not read, from head on, and tail is the place after the last; the   *)
(* place push writes to is not among them, and pop has the first in hand.  *)
Held == Len(pushed) - Len(got)

Ring ==
  /\ Held \in 0 .. Size
  /\ tail = Slot(head, Held)
  /\ \A i \in 0 .. Held - 1 : array[Slot(head, i)] = pushed[Len(got) + 1 + i]
  /\ uv_at \in {"write", "publish"} => Held < Size
  /\ uv_at = "publish" => array[tail] = arrived
  /\ main_at = "taken" => Held > 0 /\ item = pushed[Len(got) + 1]
  /\ \A n \in 1 .. Len(got) : got[n] = pushed[n]

(* The two indices are equal when nothing is held, and next to each other  *)
(* when every place is.                                                    *)
LEMMA FullAndEmpty ==
  ASSUME TypeOK, Held \in 0 .. Size, tail = Slot(head, Held)
  PROVE  /\ (head = tail) <=> (Held = 0)
         /\ IsFull <=> (Held = Size)
<1>1. head \in 0 .. Size /\ tail \in 0 .. Size
  BY DEF TypeOK
<1>2. increment(tail) = IF tail = Size THEN 0 ELSE tail + 1
  BY <1>1, IncrementSlot
<1> QED
  BY <1>1, <1>2, TcpReadAssumption DEF IsFull, Slot, Capacity

LEMMA RingHolds == Spec => []Ring
<1> USE TcpReadAssumption
<1>1. Init => Ring
  BY DEF Init, Ring, Held, Slot, Capacity
<1>2. TypeOK /\ TypeOK' /\ Ring /\ [Next]_vars => Ring'
  <2> SUFFICES ASSUME TypeOK, TypeOK', Ring, [Next]_vars
               PROVE  Ring'
    OBVIOUS
  <2>0. /\ head \in 0 .. Size /\ tail \in 0 .. Size
        /\ array \in [0 .. Size -> 0 .. MaxChunks]
        /\ pushed \in Seq(1 .. MaxChunks) /\ got \in Seq(0 .. MaxChunks)
        /\ Len(pushed) \in Nat /\ Len(got) \in Nat /\ Held \in 0 .. Size
        /\ (head = tail) <=> (Held = 0)
        /\ IsFull <=> (Held = Size)
    <3>1. /\ (head = tail) <=> (Held = 0)
          /\ IsFull <=> (Held = Size)
      BY FullAndEmpty DEF Ring
    <3>2. pushed \in Seq(1 .. MaxChunks) /\ got \in Seq(0 .. MaxChunks)
      BY DEF TypeOK
    <3>3. Len(pushed) \in Nat /\ Len(got) \in Nat
      BY <3>2
    <3> QED
      BY <3>1, <3>2, <3>3 DEF TypeOK, Ring
  <2>1. ASSUME UNCHANGED <<fifoVars, pushed, got>>
        PROVE  Held' = Held /\ \A i \in 0 .. Held : Slot(head, i)' = Slot(head, i)
    BY <2>1 DEF Held, Slot, Capacity, fifoVars
  <2>2. CASE OnRead
    BY <2>0, <2>1, <2>2 DEF OnRead, Ring, fifoVars, historyVars, flowVars
  <2>3. CASE WriteItem
    <3>1. /\ UNCHANGED <<tail, head, pushed, got, main_at, item, arrived>>
          /\ array' = [array EXCEPT ![tail] = arrived]
          /\ uv_at = "write" /\ Held < Size /\ Held' = Held
      BY <2>3 DEF WriteItem, Ring, historyVars, flowVars, Held
    <3>2. \A i \in 0 .. Held - 1 :
            Slot(head, i) \in 0 .. Size /\ Slot(head, i) # tail /\ Slot(head, i)' = Slot(head, i)
      BY <2>0, <3>1 DEF Ring, Slot, Capacity
    <3>3. \A i \in 0 .. Held - 1 : array'[Slot(head, i)] = array[Slot(head, i)]
      BY <2>0, <3>1, <3>2
    <3>4. array'[tail] = arrived /\ Slot(head, Held)' = Slot(head, Held)
      BY <2>0, <3>1 DEF Slot, Capacity
    <3> QED
      BY <2>0, <3>1, <3>2, <3>3, <3>4 DEF Ring
  <2>4. CASE StoreTail
    <3>1. /\ UNCHANGED <<head, array, got, main_at, item>>
          /\ pushed' = Append(pushed, arrived) /\ tail' = increment(tail)
          /\ Held < Size /\ array[tail] = arrived /\ uv_at' = "wasFull"
      BY <2>4 DEF StoreTail, Ring
    <3>2. /\ Len(pushed') = Len(pushed) + 1 /\ pushed'[Len(pushed) + 1] = arrived
          /\ \A n \in 1 .. Len(pushed) : pushed'[n] = pushed[n]
          /\ Held' = Held + 1
      BY <2>0, <3>1 DEF Held, TypeOK
    <3>3. tail' = Slot(head, Held + 1)
      BY <2>0, <3>1, IncrementSlot DEF Ring, Slot, Capacity
    <3>4. ASSUME NEW i \in 0 .. Held
          PROVE  array[Slot(head, i)] = pushed'[Len(got) + 1 + i]
      <4>1. CASE i = Held
        <5>1. Len(got) + 1 + i = Len(pushed) + 1
          BY <2>0, <4>1 DEF Held
        <5> QED
          BY <3>1, <3>2, <4>1, <5>1 DEF Ring
      <4>2. CASE i # Held
        <5>1. i \in 0 .. Held - 1 /\ Len(got) + 1 + i \in 1 .. Len(pushed)
          BY <2>0, <4>2 DEF Held
        <5> QED
          BY <3>2, <5>1 DEF Ring
      <4> QED
        BY <4>1, <4>2
    <3>5. /\ Held > 0 => Len(got) + 1 \in 1 .. Len(pushed)
          /\ Len(got) <= Len(pushed)
      BY <2>0 DEF Held
    <3>6. \A i \in 0 .. Held' : Slot(head, i)' = Slot(head, i)
      BY <3>1 DEF Slot, Capacity
    <3>7. \A n \in 1 .. Len(got) : got'[n] = pushed'[n]
      BY <2>0, <3>1, <3>2, <3>5 DEF Ring
    <3>8. main_at' = "taken" => Held' > 0 /\ item' = pushed'[Len(got') + 1]
      BY <2>0, <3>1, <3>2, <3>5 DEF Ring
    <3>9. Held' \in 0 .. Size /\ tail' = Slot(head, Held)'
      BY <2>0, <3>1, <3>2, <3>3, <3>6
    <3>10. \A i \in 0 .. Held' - 1 : array'[Slot(head, i)'] = pushed'[Len(got') + 1 + i]
      <4>1. 0 .. Held' - 1 = 0 .. Held /\ 0 .. Held \subseteq 0 .. Held'
        BY <2>0, <3>2
      <4>2. \A i \in 0 .. Held : array'[Slot(head, i)'] = array[Slot(head, i)]
        BY <3>1, <3>6, <4>1
      <4> QED
        BY <3>1, <3>4, <4>1, <4>2
    <3> QED
      BY <3>1, <3>7, <3>8, <3>9, <3>10 DEF Ring
  <2>5. CASE Refused \/ WasFull \/ StopRead \/ DoClose \/ StartRead \/ AskToRead
    BY <2>0, <2>1, <2>5
       DEF Refused, WasFull, StopRead, DoClose, StartRead, AskToRead, Ring,
           fifoVars, flowVars, historyVars
  <2>6. CASE Pop
    <3>1. Slot(head, 0) = head /\ Held > 0
      BY <2>0, <2>6 DEF Pop, Slot
    <3>2. array[Slot(head, 0)] = pushed[Len(got) + 1 + 0]
      <4>1. 0 \in 0 .. Held - 1
        BY <2>0, <3>1
      <4>2. \A i \in 0 .. Held - 1 : array[Slot(head, i)] = pushed[Len(got) + 1 + i]
        BY DEF Ring
      <4> QED
        BY <4>1, <4>2
    <3>3. item' = pushed[Len(got) + 1]
      BY <2>0, <2>6, <3>1, <3>2 DEF Pop
    <3> QED
      BY <2>0, <2>1, <2>6, <3>1, <3>3 DEF Pop, Ring, fifoVars, historyVars, flowVars
  <2>7. CASE StoreHead
    <3>1. /\ UNCHANGED <<tail, array, pushed, uv_at, arrived>>
          /\ head' = increment(head) /\ got' = Append(got, item)
          /\ Held > 0 /\ item = pushed[Len(got) + 1] /\ main_at' = "popped"
      BY <2>7 DEF StoreHead, Ring, flowVars
    <3>2. /\ Len(got') = Len(got) + 1 /\ got'[Len(got) + 1] = item
          /\ \A n \in 1 .. Len(got) : got'[n] = got[n]
          /\ Held' = Held - 1
      BY <2>0, <3>1 DEF Held, TypeOK
    <3>3. \A i \in 0 .. Held - 1 : Slot(head, i)' = Slot(head, i + 1)
      <4>1. head' = IF head = Size THEN 0 ELSE head + 1
        BY <2>0, <3>1, IncrementSlot
      <4> QED
        BY <2>0, <4>1 DEF Slot, Capacity
    <3>4. Held' \in 0 .. Size /\ tail' = Slot(head, Held)'
      BY <2>0, <3>1, <3>2, <3>3 DEF Ring
    <3>5. ASSUME NEW i \in 0 .. Held' - 1
          PROVE  array'[Slot(head, i)'] = pushed'[Len(got') + 1 + i]
      <4>0. /\ Len(got) \in Nat /\ Held \in Nat
            /\ Len(got') = Len(got) + 1 /\ Held' = Held - 1
        BY <2>0, <3>2
      <4>1. i + 1 \in 0 .. Held - 1 /\ Len(got') + 1 + i = Len(got) + 1 + (i + 1)
        BY <4>0
      <4>2. array[Slot(head, i + 1)] = pushed[Len(got) + 1 + (i + 1)]
        BY <4>1 DEF Ring
      <4>3. Slot(head, i)' = Slot(head, i + 1)
        BY <3>3, <4>1, <2>0
      <4> QED
        BY <3>1, <4>1, <4>2, <4>3
    <3>6. \A n \in 1 .. Len(got') : got'[n] = pushed'[n]
      <4> SUFFICES ASSUME NEW n \in 1 .. Len(got')
                   PROVE  got'[n] = pushed'[n]
        OBVIOUS
      <4>0. Len(got) \in Nat /\ Len(got') = Len(got) + 1
        BY <2>0, <3>2
      <4>1. n \in 1 .. Len(got) \/ n = Len(got) + 1
        BY <4>0
      <4> QED
        BY <3>1, <3>2, <4>1 DEF Ring
    <3>7. /\ uv_at' \in {"write", "publish"} => Held' < Size
          /\ uv_at' = "publish" => array'[tail'] = arrived'
      BY <2>0, <3>1, <3>2 DEF Ring
    <3> QED
      BY ONLY <3>1, <3>4, <3>5, <3>6, <3>7 DEF Ring
  <2>8. CASE UNCHANGED vars
    BY <2>0, <2>1, <2>8 DEF vars, Ring, fifoVars, flowVars, historyVars
  <2> QED
    BY <2>2, <2>3, <2>4, <2>5, <2>6, <2>7, <2>8 DEF Next
<1> QED
  BY <1>1, <1>2, TcpReadTyped, PTL DEF Spec

(* Read returns the chunks that were pushed, in order, each once, though   *)
(* the two threads share the ring without a lock.                          *)
THEOREM ChunksInOrder == Spec => []ReadInOrder
<1>1. TypeOK /\ Ring => ReadInOrder
  <2> SUFFICES ASSUME TypeOK, Ring
               PROVE  ReadInOrder
    OBVIOUS
  <2>1. /\ Len(pushed) \in Nat /\ Len(got) \in Nat /\ DOMAIN got = 1 .. Len(got)
        /\ Held \in 0 .. Size
    BY DEF TypeOK, Ring
  <2> QED
    BY <2>1, TcpReadAssumption DEF ReadInOrder, Ring, Held
<1> QED
  BY <1>1, RingHolds, TcpReadTyped, PTL

-----------------------------------------------------------------------------
(* Flow control.  Only the uv thread fills the ring, and it stops reading  *)
(* when it has, so that it finds it full only after a READ message started *)
(* reading on a full ring.                                                 *)
StoppedWhenFull ==
  /\ RefusedOnlyIfRestartedFull
  /\ uv_at = "loop" /\ started /\ IsFull => restarted_full

(* A chunk is refused only by a ring on which reading was restarted while  *)
(* it was full (tcp_connection.cpp:260-283).                               *)
THEOREM RefusedByRestartOnly == Spec => []RefusedOnlyIfRestartedFull
<1>1. Init => StoppedWhenFull
  <2>1. Init => ~IsFull
    <3>1. 0 \in 0 .. Size /\ Size # 0
      BY TcpReadAssumption
    <3>2. increment(0) # 0
      BY <3>1, IncrementSlot
    <3> QED
      BY <3>2 DEF Init, IsFull
  <2> QED
    BY <2>1 DEF Init, StoppedWhenFull, RefusedOnlyIfRestartedFull
<1>2. TypeOK /\ TypeOK' /\ Ring /\ Ring' /\ StoppedWhenFull /\ [Next]_vars => StoppedWhenFull'
  <2> SUFFICES ASSUME TypeOK, TypeOK', Ring, Ring', StoppedWhenFull, [Next]_vars
               PROVE  StoppedWhenFull'
    OBVIOUS
  <2> USE DEF StoppedWhenFull, RefusedOnlyIfRestartedFull, fifoVars, flowVars, historyVars
  <2>1. ASSUME UNCHANGED <<tail, head>>
        PROVE  IsFull' <=> IsFull
    BY <2>1 DEF IsFull, increment, Capacity
  <2>2. CASE OnRead \/ Refused \/ WasFull \/ StopRead \/ DoClose \/ StartRead
    BY <2>1, <2>2 DEF OnRead, Refused, WasFull, StopRead, DoClose, StartRead
  <2>3. CASE WriteItem \/ StoreTail
    BY <2>3 DEF WriteItem, StoreTail
  <2>4. CASE Pop \/ AskToRead
    BY <2>1, <2>4 DEF Pop, AskToRead, TypeOK
  <2>5. CASE StoreHead
    <3>1. Held' # Size
      BY <2>5, TcpReadAssumption DEF StoreHead, Ring, Held, TypeOK
    <3>2. ~IsFull'
      <4>1. TypeOK /\ Held \in 0 .. Size /\ tail = Slot(head, Held) => (IsFull <=> (Held = Size))
        BY FullAndEmpty
      <4>2. (TypeOK /\ Held \in 0 .. Size /\ tail = Slot(head, Held) => (IsFull <=> (Held = Size)))'
        BY <4>1, FullAndEmpty, PTL
      <4> QED
        BY <3>1, <4>2 DEF Ring
    <3> QED
      BY <2>5, <3>2 DEF StoreHead
  <2>6. CASE UNCHANGED vars
    BY <2>1, <2>6 DEF vars
  <2> QED
    BY <2>2, <2>3, <2>4, <2>5, <2>6 DEF Next
<1>3. StoppedWhenFull => RefusedOnlyIfRestartedFull
  BY DEF StoppedWhenFull
<1> QED
  BY <1>1, <1>2, <1>3, TcpReadTyped, RingHolds, PTL DEF Spec

(* What PausedOnlyIfRaced rests on: from the stop of reading on there is   *)
(* something to read, a Read that has not asked yet, or a READ message,    *)
(* unless a Read asked while reading_ was about to be cleared.             *)
Resumes ==
  /\ uv_at # "loop" => started
  /\ open /\ uv_at = "loop" /\ ~started => ~reading_
  /\ open /\ (uv_at = "stop" \/ (uv_at = "loop" /\ ~started)) =>
       raced \/ read_posted > 0 \/ head # tail \/ main_at # "poll"

(* A connection stops reading for good only by that race.                  *)
THEOREM PausedByRaceOnly == Spec => []PausedOnlyIfRaced
<1>1. Init => Resumes
  BY DEF Init, Resumes
<1>2. TypeOK /\ Ring /\ Resumes /\ [Next]_vars => Resumes'
  <2> SUFFICES ASSUME TypeOK, Ring, Resumes, [Next]_vars
               PROVE  Resumes'
    OBVIOUS
  <2> USE DEF Resumes, TypeOK, fifoVars, flowVars, historyVars
  <2>1. CASE OnRead \/ WriteItem \/ StoreTail \/ Refused
    BY <2>1 DEF OnRead, WriteItem, StoreTail, Refused
  <2>2. CASE WasFull
    <3>1. IsFull => head # tail
      BY FullAndEmpty, TcpReadAssumption DEF Ring
    <3> QED
      BY <2>2, <3>1 DEF WasFull
  <2>3. CASE StopRead \/ DoClose
    BY <2>3 DEF StopRead, DoClose
  <2>7. CASE StartRead
    <3>1. uv_at' = "loop" /\ open' = open /\ started' = open
      BY <2>7 DEF StartRead
    <3> QED
      BY <3>1
  <2>4. CASE Pop \/ StoreHead
    BY <2>4 DEF Pop, StoreHead
  <2>5. CASE AskToRead
    BY <2>5 DEF AskToRead
  <2>6. CASE UNCHANGED vars
    BY <2>6 DEF vars
  <2> QED
    BY <2>1, <2>2, <2>3, <2>4, <2>5, <2>6, <2>7 DEF Next
<1>3. TypeOK /\ Resumes => PausedOnlyIfRaced
  BY DEF Resumes, PausedOnlyIfRaced, Paused, TypeOK
<1> QED
  BY <1>1, <1>2, <1>3, TcpReadTyped, RingHolds, PTL DEF Spec
-----------------------------------------------------------------------------
(* Pieces of sequences.                                                    *)
(* Pieces of a piece, and of what was there before more arrived.           *)
LEMMA Pieces ==
  ASSUME NEW S, NEW s \in Seq(S), NEW m \in Nat, NEW c \in Nat, m <= c, c <= Len(s)
  PROVE  /\ SubSeq(s, m + 1, c) \in Seq(S)
         /\ Len(SubSeq(s, m + 1, c)) = c - m
         /\ \A i, j, k, l \in Nat :
              1 <= i /\ i <= j + 1 /\ j <= c - m /\ k = m + i /\ l = m + j =>
                SubSeq(SubSeq(s, m + 1, c), i, j) = SubSeq(s, k, l)
<1> DEFINE t == SubSeq(s, m + 1, c)
<1>1. t \in Seq(S) /\ Len(t) = c - m /\ \A i \in 1 .. c - m : t[i] = s[m + i]
  OBVIOUS
<1> HIDE DEF t
<1>2. ASSUME NEW i \in Nat, NEW j \in Nat, NEW k \in Nat, NEW l \in Nat,
             1 <= i, i <= j + 1, j <= c - m, k = m + i, l = m + j
      PROVE  SubSeq(t, i, j) = SubSeq(s, k, l)
  <2> DEFINE N == j - i + 1
             a == SubSeq(t, i, j)
             b == SubSeq(s, k, l)
  <2>1. a \in Seq(S) /\ Len(a) = N /\ \A n \in 1 .. N : a[n] = t[i + n - 1]
    BY <1>1, <1>2
  <2>2. b \in Seq(S) /\ Len(b) = N /\ \A n \in 1 .. N : b[n] = s[k + n - 1]
    BY <1>2
  <2>3. \A n \in 1 .. N : i + n - 1 \in 1 .. c - m /\ k + n - 1 = m + (i + n - 1)
    BY <1>2
  <2> HIDE DEF a, b
  <2>4. \A n \in 1 .. N : a[n] = b[n]
    BY <1>1, <2>1, <2>2, <2>3
  <2> QED
    BY <2>1, <2>2, <2>4, SeqEqual DEF a, b
<1> QED
  BY <1>1, <1>2 DEF t

(* What a piece is, from its elements.                                     *)
LEMMA PieceIs ==
  ASSUME NEW S, NEW s \in Seq(S), NEW f \in Nat, NEW g \in Nat, f <= g + 1, g <= Len(s), 1 <= f,
         NEW t \in Seq(S), Len(t) = g - f + 1, \A i \in 1 .. g - f + 1 : s[f + i - 1] = t[i]
  PROVE  SubSeq(s, f, g) = t
<1> DEFINE x == SubSeq(s, f, g)
<1>1. x \in Seq(S) /\ Len(x) = g - f + 1 /\ \A i \in 1 .. g - f + 1 : x[i] = s[f + i - 1]
  OBVIOUS
<1> HIDE DEF x
<1>2. \A i \in 1 .. Len(x) : x[i] = t[i]
  BY <1>1
<1>3. x = t
  BY <1>1, <1>2, SeqEqual
<1> QED
  BY <1>3 DEF x

(* Four sequences one after the other, and where they are found again.     *)
Joins(S, s, a, b, c, d) ==
  /\ a \in Seq(S) /\ b \in Seq(S) /\ c \in Seq(S) /\ d \in Seq(S)
  /\ s = a \o b \o c \o d

FoundIn(S, s, a, b, c, d) ==
  /\ s \in Seq(S)
  /\ Len(s) = Len(a) + Len(b) + Len(c) + Len(d)
  /\ SubSeq(s, 1, Len(a)) = a
  /\ SubSeq(s, Len(a) + 1, Len(a) + Len(b)) = b
  /\ SubSeq(s, Len(a) + Len(b) + 1, Len(a) + Len(b) + Len(c)) = c
  /\ SubSeq(s, Len(a) + Len(b) + Len(c) + 1, Len(s)) = d

LEMMA FourParts ==
  ASSUME NEW S, NEW s, NEW a, NEW b, NEW c, NEW d, Joins(S, s, a, b, c, d)
  PROVE  FoundIn(S, s, a, b, c, d)
<1>0. a \in Seq(S) /\ b \in Seq(S) /\ c \in Seq(S) /\ d \in Seq(S)
  BY DEF Joins
<1> DEFINE k == Len(a)
           l == Len(a) + Len(b)
           m == Len(a) + Len(b) + Len(c)
           n == Len(a) + Len(b) + Len(c) + Len(d)
<1>1. /\ k \in Nat /\ l \in Nat /\ m \in Nat /\ n \in Nat
      /\ Len(a) = k /\ Len(b) = l - k /\ Len(c) = m - l /\ Len(d) = n - m
      /\ k <= l /\ l <= m /\ m <= n
  BY <1>0
<1>2. s \in Seq(S) /\ Len(s) = n
  BY <1>0, ConcatProperties DEF Joins
<1>3. /\ \A i \in 1 .. k - 1 + 1 : s[1 + i - 1] = a[i]
      /\ \A i \in 1 .. l - (k + 1) + 1 : s[(k + 1) + i - 1] = b[i]
      /\ \A i \in 1 .. m - (l + 1) + 1 : s[(l + 1) + i - 1] = c[i]
      /\ \A i \in 1 .. n - (m + 1) + 1 : s[(m + 1) + i - 1] = d[i]
  <2> DEFINE ab == a \o b
             abc == ab \o c
  <2>1. ab \in Seq(S) /\ Len(ab) = l
        /\ \A i \in 1 .. l : ab[i] = IF i <= k THEN a[i] ELSE b[i - k]
    BY <1>0, ConcatProperties
  <2>2. abc \in Seq(S) /\ Len(abc) = m
        /\ \A i \in 1 .. m : abc[i] = IF i <= l THEN ab[i] ELSE c[i - l]
    <3> HIDE DEF ab, k, l, m
    <3> QED
      <4>1. /\ ab \o c \in Seq(S)
            /\ Len(ab \o c) = Len(ab) + Len(c)
            /\ \A i \in 1 .. Len(ab) + Len(c) :
                 (ab \o c)[i] = IF i <= Len(ab) THEN ab[i] ELSE c[i - Len(ab)]
        BY <1>0, <2>1, ConcatProperties
      <4>2. Len(ab) = l /\ Len(c) = m - l /\ l + (m - l) = m
        BY <1>1, <2>1
      <4> QED
        BY <4>1, <4>2
  <2>3. \A i \in 1 .. n : s[i] = IF i <= m THEN abc[i] ELSE d[i - m]
    <3>1. s = abc \o d
      BY DEF Joins
    <3> HIDE DEF abc, m, n
    <3> QED
      BY <1>0, <1>1, <2>2, <3>1, ConcatProperties
  <2> HIDE DEF ab, abc, k, l, m, n
  <2>4. \A i \in 1 .. k : 1 + i - 1 = i /\ i \in 1 .. n /\ i \in 1 .. m /\ i \in 1 .. l
    BY <1>1
  <2>5. \A i \in 1 .. l - (k + 1) + 1 : (k + 1) + i - 1 = k + i /\ (k + i) - k = i /\ ~(k + i <= k)
          /\ k + i \in 1 .. n /\ k + i \in 1 .. m /\ k + i \in 1 .. l
    BY <1>1
  <2>6. \A i \in 1 .. m - (l + 1) + 1 : (l + 1) + i - 1 = l + i /\ (l + i) - l = i /\ ~(l + i <= l)
          /\ l + i \in 1 .. n /\ l + i \in 1 .. m
    BY <1>1
  <2>7. \A i \in 1 .. n - (m + 1) + 1 : (m + 1) + i - 1 = m + i /\ (m + i) - m = i /\ ~(m + i <= m)
          /\ m + i \in 1 .. n
    BY <1>1
  <2>8. \A i \in 1 .. k - 1 + 1 : s[1 + i - 1] = a[i]
    BY <1>1, <2>1, <2>2, <2>3, <2>4
  <2>9. \A i \in 1 .. l - (k + 1) + 1 : s[(k + 1) + i - 1] = b[i]
    <3> TAKE i \in 1 .. l - (k + 1) + 1
    <3> DEFINE j == k + i
    <3>1. /\ j - k = i /\ ~(j <= k) /\ j <= l /\ j <= m /\ (k + 1) + i - 1 = j
          /\ j \in 1 .. n /\ j \in 1 .. m /\ j \in 1 .. l
      BY <1>1, <2>5
    <3> HIDE DEF j
    <3>2. s[j] = abc[j] /\ abc[j] = ab[j] /\ ab[j] = b[j - k]
      BY <2>1, <2>2, <2>3, <3>1
    <3> QED
      BY <3>1, <3>2
  <2>10. \A i \in 1 .. m - (l + 1) + 1 : s[(l + 1) + i - 1] = c[i]
    <3> TAKE i \in 1 .. m - (l + 1) + 1
    <3> DEFINE j == l + i
    <3>1. /\ j - l = i /\ ~(j <= l) /\ j <= m /\ (l + 1) + i - 1 = j
          /\ j \in 1 .. n /\ j \in 1 .. m
      BY <1>1, <2>6
    <3> HIDE DEF j
    <3>2. s[j] = abc[j] /\ abc[j] = c[j - l]
      BY <2>2, <2>3, <3>1
    <3> QED
      BY <3>1, <3>2
  <2>11. \A i \in 1 .. n - (m + 1) + 1 : s[(m + 1) + i - 1] = d[i]
    BY <1>1, <2>3, <2>7
  <2> QED
    BY <2>8, <2>9, <2>10, <2>11
<1> HIDE DEF k, l, m, n
<1>4. SubSeq(s, 1, k) = a
  <2>1. 1 \in Nat /\ 1 <= k + 1 /\ k <= Len(s) /\ Len(a) = k - 1 + 1
    BY <1>1, <1>2
  <2> QED
    BY <1>0, <1>1, <1>2, <1>3, <2>1, PieceIs
<1>5. SubSeq(s, k + 1, l) = b
  <2>1. k + 1 \in Nat /\ k + 1 <= l + 1 /\ l <= Len(s) /\ Len(b) = l - (k + 1) + 1 /\ 1 <= k + 1
    BY <1>1, <1>2
  <2> QED
    BY <1>0, <1>1, <1>2, <1>3, <2>1, PieceIs
<1>6. SubSeq(s, l + 1, m) = c
  <2>1. l + 1 \in Nat /\ l + 1 <= m + 1 /\ m <= Len(s) /\ Len(c) = m - (l + 1) + 1 /\ 1 <= l + 1
    BY <1>1, <1>2
  <2> QED
    BY <1>0, <1>1, <1>2, <1>3, <2>1, PieceIs
<1>7. SubSeq(s, m + 1, n) = d
  <2>1. m + 1 \in Nat /\ m + 1 <= n + 1 /\ n <= Len(s) /\ Len(d) = n - (m + 1) + 1 /\ 1 <= m + 1
    BY <1>1, <1>2
  <2> QED
    BY <1>0, <1>1, <1>2, <1>3, <2>1, PieceIs
<1> QED
  BY <1>2, <1>4, <1>5, <1>6, <1>7 DEF k, l, m, n, FoundIn

-----------------------------------------------------------------------------
(* Numbers and their bytes.                                                *)
(* What is left of a number, byte by byte: the function that defines it,   *)
(* which recursion guarantees to exist.                                    *)
LEMMA LeftIs ==
  ASSUME NEW n \in Nat, NEW width \in Nat
  PROVE  /\ Cut!Left(n, width) \in [0 .. width -> Nat]
         /\ Cut!Left(n, width)[0] = n
         /\ \A i \in 1 .. width : Cut!Left(n, width)[i] = Cut!Left(n, width)[i - 1] \div Base
<1> DEFINE Is(f) == f = [i \in 0 .. width |-> IF i = 0 THEN n ELSE f[i - 1] \div Base]
           step == [i \in 1 .. width |-> [x \in Nat |-> x \div Base]]
           left == CHOOSE f : Is(f)
<1>1. Base \in Nat \ {0}
  BY CutAssumption
<1>2. \A x \in Nat : x \div Base \in Nat
  BY <1>1
<1>3. step \in [1 .. width -> [Nat -> Nat]] /\ \A i \in 1 .. width, x \in Nat : step[i][x] = x \div Base
  BY <1>2
<1>4. PICK f : IsLoop(f, width, Nat, n, step)
  <2> HIDE DEF step
  <2> QED
    BY <1>3, LoopExists
<1>5. Is(f)
  <2> HIDE DEF step
  <2>1. ASSUME NEW i \in 0 .. width
        PROVE  f[i] = IF i = 0 THEN n ELSE f[i - 1] \div Base
    <3>1. CASE i = 0
      BY <1>4, <3>1 DEF IsLoop
    <3>2. CASE i # 0
      <4>1. i \in 1 .. width /\ f[i - 1] \in Nat
        BY <1>4, <3>2 DEF IsLoop
      <4> QED
        BY <1>3, <1>4, <3>2, <4>1 DEF IsLoop
    <3> QED
      BY <3>1, <3>2
  <2> QED
    BY <1>4, <2>1 DEF IsLoop
<1>6. Is(left)
  <2> HIDE DEF Is
  <2> QED
    BY <1>5
<1>7. Cut!Left(n, width) = left
  BY DEF Cut!Left
<1> HIDE DEF left
<1>8. left[0] = n /\ \A i \in 1 .. width : left[i] = left[i - 1] \div Base
  <2>1. left[0] = n
    BY <1>6
  <2>2. ASSUME NEW i \in 1 .. width
        PROVE  left[i] = left[i - 1] \div Base
    <3>1. i \in 0 .. width /\ i # 0
      OBVIOUS
    <3> QED
      BY <1>6, <3>1
  <2> QED
    BY <2>1, <2>2
<1>9. \A i \in 0 .. width : left[i] \in Nat
  <2>1. left[0] \in Nat /\ \A i \in 1 .. width : left[i - 1] \in Nat => left[i] \in Nat
    BY <1>2, <1>8
  <2> HIDE DEF Is
  <2> QED
    BY <2>1, LoopInduction
<1> QED
  BY <1>6, <1>7, <1>8, <1>9

(* The number that bytes stand for, summed up from the last of them.       *)
LEMMA NumberIs ==
  ASSUME NEW bytes \in Seq(Nat)
  PROVE  \E last \in [0 .. Len(bytes) -> Nat] :
           /\ last[0] = 0
           /\ \A i \in 1 .. Len(bytes) : last[i] = bytes[Len(bytes) - i + 1] + Base * last[i - 1]
           /\ Cut!Number(bytes) = last[Len(bytes)]
<1> DEFINE N == Len(bytes)
           Is(f) == f = [i \in 0 .. N |-> IF i = 0 THEN 0 ELSE bytes[N - i + 1] + Base * f[i - 1]]
           step == [i \in 1 .. N |-> [x \in Nat |-> bytes[N - i + 1] + Base * x]]
           last == CHOOSE f : Is(f)
<1>1. Base \in Nat /\ N \in Nat /\ \A i \in 1 .. N : N - i + 1 \in 1 .. N /\ bytes[N - i + 1] \in Nat
  BY CutAssumption
<1>2. \A i \in 1 .. N, x \in Nat : bytes[N - i + 1] + Base * x \in Nat
  BY <1>1
<1>3. step \in [1 .. N -> [Nat -> Nat]]
      /\ \A i \in 1 .. N, x \in Nat : step[i][x] = bytes[N - i + 1] + Base * x
  BY <1>2
<1>4. PICK f : IsLoop(f, N, Nat, 0, step)
  <2> HIDE DEF step, N
  <2> QED
    BY <1>1, <1>3, LoopExists
<1>5. Is(f)
  <2> HIDE DEF step
  <2>1. ASSUME NEW i \in 0 .. N
        PROVE  f[i] = IF i = 0 THEN 0 ELSE bytes[N - i + 1] + Base * f[i - 1]
    <3>1. CASE i = 0
      BY <1>4, <3>1 DEF IsLoop
    <3>2. CASE i # 0
      <4>1. i \in 1 .. N /\ f[i - 1] \in Nat
        BY <1>1, <1>4, <3>2 DEF IsLoop
      <4> QED
        BY <1>3, <1>4, <3>2, <4>1 DEF IsLoop
    <3> QED
      BY <3>1, <3>2
  <2> QED
    BY <1>4, <2>1 DEF IsLoop
<1>6. Is(last)
  <2> HIDE DEF Is
  <2> QED
    BY <1>5
<1>7. Cut!Number(bytes) = last[N]
  BY DEF Cut!Number
<1> HIDE DEF last
<1>8. last[0] = 0 /\ \A i \in 1 .. N : last[i] = bytes[N - i + 1] + Base * last[i - 1]
  <2>1. last[0] = 0
    BY <1>1, <1>6
  <2>2. ASSUME NEW i \in 1 .. N
        PROVE  last[i] = bytes[N - i + 1] + Base * last[i - 1]
    <3>1. i \in 0 .. N /\ i # 0
      BY <1>1
    <3> QED
      BY <1>6, <3>1
  <2> QED
    BY <2>1, <2>2
<1>9. \A i \in 0 .. N : last[i] \in Nat
  <2> HIDE DEF Is
  <2>1. last[0] \in Nat
    BY <1>8
  <2>2. ASSUME NEW i \in 1 .. N, last[i - 1] \in Nat
        PROVE  last[i] \in Nat
    <3>1. bytes[N - i + 1] + Base * last[i - 1] \in Nat
      BY <1>2, <2>2
    <3> QED
      BY <1>8, <3>1
  <2> HIDE DEF N
  <2> QED
    BY <1>1, <2>1, <2>2, LoopInduction
<1>10. last \in [0 .. N -> Nat]
  <2>1. last = [i \in 0 .. N |-> last[i]]
    BY <1>6
  <2> QED
    BY <1>9, <2>1
<1> QED
  BY <1>7, <1>8, <1>10

(* A byte is a number, and so bytes make a number.                         *)
LEMMA BytesAreNat == Cut!Bytes \subseteq Nat /\ \A s \in Seq(Cut!Bytes) : s \in Seq(Nat)
<1>1. Cut!Bytes \subseteq Nat
  BY CutAssumption DEF Cut!Bytes
<1>2. ASSUME NEW s \in Seq(Cut!Bytes)
      PROVE  s \in Seq(Nat)
  <2>1. Len(s) \in Nat /\ s \in [1 .. Len(s) -> Cut!Bytes]
    OBVIOUS
  <2>2. s \in [1 .. Len(s) -> Nat]
    BY <1>1, <2>1
  <2> QED
    BY <2>1, <2>2
<1> QED
  BY <1>1, <1>2

LEMMA NumberInNat ==
  ASSUME NEW bytes \in Seq(Nat)
  PROVE  Cut!Number(bytes) \in Nat
<1>1. Len(bytes) \in 0 .. Len(bytes)
  OBVIOUS
<1> QED
  BY <1>1, NumberIs

(* As many bytes are written as there is room for.                         *)
LEMMA DigitsAre ==
  ASSUME NEW n \in Nat, NEW width \in Nat
  PROVE  Cut!Digits(n, width) \in Seq(Cut!Bytes) /\ Len(Cut!Digits(n, width)) = width
<1>1. \A i \in 1 .. width : Cut!Left(n, width)[i - 1] \in Nat
  BY LeftIs
<1>2. \A x \in Nat : x % Base \in Cut!Bytes
  BY CutAssumption DEF Cut!Bytes
<1>3. Cut!Digits(n, width) \in [1 .. width -> Cut!Bytes]
  BY <1>1, <1>2 DEF Cut!Digits
<1> QED
  BY <1>3

(* What is written is read: the last i bytes are worth what is left of the *)
(* number without the others.                                              *)
LEMMA NumberOfDigits ==
  ASSUME NEW n \in Nat, NEW width \in Nat, Cut!Fits(n, width)
  PROVE  Cut!Number(Cut!Digits(n, width)) = n
<1> DEFINE bytes == Cut!Digits(n, width)
           left == Cut!Left(n, width)
<1>1. bytes \in Seq(Nat) /\ Len(bytes) = width
  BY BytesAreNat, DigitsAre
<1>2. /\ left \in [0 .. width -> Nat] /\ left[0] = n /\ left[width] = 0
      /\ \A i \in 1 .. width : left[i] = left[i - 1] \div Base
      /\ \A i \in 1 .. width : bytes[i] = left[i - 1] % Base
  BY LeftIs DEF Cut!Fits, Cut!Digits
<1> HIDE DEF left, bytes
<1>3. PICK last \in [0 .. width -> Nat] :
        /\ last[0] = 0
        /\ \A i \in 1 .. width : last[i] = bytes[width - i + 1] + Base * last[i - 1]
        /\ Cut!Number(bytes) = last[width]
  BY <1>1, NumberIs
<1>4. ASSUME NEW x \in Nat
      PROVE  (x % Base) + Base * (x \div Base) = x
  BY CutAssumption
<1> DEFINE Same == {i \in Nat : i <= width => last[i] = left[width - i]}
<1>5. 0 \in Same
  BY <1>2, <1>3
<1>6. ASSUME NEW i \in Nat, i \in Same, i + 1 <= width
      PROVE  last[i + 1] = left[width - (i + 1)]
  <2>1. last[i] = left[width - i]
    BY <1>6
  <2>2. last[i + 1] = bytes[width - (i + 1) + 1] + Base * last[(i + 1) - 1]
    BY <1>3, <1>6
  <2>3. width - (i + 1) + 1 = width - i /\ (i + 1) - 1 = i /\ width - i \in 1 .. width
        /\ (width - i) - 1 = width - (i + 1)
    BY <1>6
  <2> DEFINE x == left[width - (i + 1)]
  <2>4. bytes[width - i] = x % Base /\ left[width - i] = x \div Base
    BY <1>2, <2>3
  <2>5. x \in Nat
    BY <1>2, <1>6
  <2> HIDE DEF x
  <2>6. last[i + 1] = (x % Base) + Base * (x \div Base)
    BY <2>1, <2>2, <2>3, <2>4
  <2> QED
    BY <1>4, <2>5, <2>6 DEF x
<1>7. \A i \in Nat : i \in Same => i + 1 \in Same
  BY <1>6
<1>8. width \in Same
  <2> HIDE DEF Same
  <2> QED
    BY <1>5, <1>7, NatSetInduction
<1>9. last[width] = left[0]
  BY <1>8
<1> QED
  BY <1>2, <1>3, <1>9 DEF bytes

-----------------------------------------------------------------------------
(* The four parts of a packet, before they are joined.                     *)
PartsOf(p) ==
  <<Cut!Digits(Cut!HEADERLEN + STRING_LEN + Len(p.body), PACKETLEN),
    Cut!Digits(p.opcode, OPCODELEN), Cut!Digits(Len(p.body), STRING_LEN), p.body>>

LEMMA PartsAre ==
  ASSUME NEW p \in PeerPackets
  PROVE  /\ Cut!Encode(p) = PartsOf(p)[1] \o PartsOf(p)[2] \o PartsOf(p)[3] \o PartsOf(p)[4]
         /\ PartsOf(p)[1] \in Seq(Cut!Bytes) /\ PartsOf(p)[2] \in Seq(Cut!Bytes)
         /\ PartsOf(p)[3] \in Seq(Cut!Bytes) /\ PartsOf(p)[4] \in Seq(Cut!Bytes)
         /\ Len(PartsOf(p)[1]) = PACKETLEN /\ Len(PartsOf(p)[2]) = OPCODELEN
         /\ Len(PartsOf(p)[3]) = STRING_LEN
<1>1. p.opcode \in Nat /\ p.body \in Seq(Cut!Bytes)
  BY CutAssumption DEF Cut!Bytes
<1>2. Len(p.body) \in Nat
  BY <1>1
<1>3. PACKETLEN \in Nat /\ OPCODELEN \in Nat /\ STRING_LEN \in Nat
  BY CutAssumption
<1>4. Cut!HEADERLEN + STRING_LEN + Len(p.body) \in Nat
  <2>1. PICK n \in Nat : n = Len(p.body)
    BY <1>2
  <2>2. PACKETLEN + OPCODELEN + STRING_LEN + n \in Nat
    BY <1>3
  <2> QED
    BY <2>1, <2>2 DEF Cut!HEADERLEN
<1>5. PartsOf(p)[1] \in Seq(Cut!Bytes) /\ Len(PartsOf(p)[1]) = PACKETLEN
  BY <1>3, <1>4, DigitsAre DEF PartsOf
<1>6. PartsOf(p)[2] \in Seq(Cut!Bytes) /\ Len(PartsOf(p)[2]) = OPCODELEN
  BY <1>1, <1>3, DigitsAre DEF PartsOf
<1>7. PartsOf(p)[3] \in Seq(Cut!Bytes) /\ Len(PartsOf(p)[3]) = STRING_LEN
  BY <1>2, <1>3, DigitsAre DEF PartsOf
<1>8. PartsOf(p)[4] \in Seq(Cut!Bytes)
  BY <1>1 DEF PartsOf
<1>9. Cut!Encode(p) = PartsOf(p)[1] \o PartsOf(p)[2] \o PartsOf(p)[3] \o PartsOf(p)[4]
  BY DEF Cut!Encode, PartsOf
<1> QED
  BY <1>5, <1>6, <1>7, <1>8, <1>9

(* A packet that is encoded has these parts in this order.                 *)
LEMMA EncodeIs ==
  ASSUME NEW p \in PeerPackets
  PROVE  LET s == Cut!Encode(p)
             parts == PartsOf(p)
         IN
         /\ s \in Seq(Cut!Bytes)
         /\ Len(s) = PACKETLEN + OPCODELEN + STRING_LEN + Len(parts[4])
         /\ SubSeq(s, 1, PACKETLEN) = parts[1]
         /\ SubSeq(s, PACKETLEN + 1, PACKETLEN + OPCODELEN) = parts[2]
         /\ SubSeq(s, PACKETLEN + OPCODELEN + 1, PACKETLEN + OPCODELEN + STRING_LEN) = parts[3]
         /\ SubSeq(s, PACKETLEN + OPCODELEN + STRING_LEN + 1, Len(s)) = parts[4]
<1> DEFINE a == PartsOf(p)[1]
           b == PartsOf(p)[2]
           c == PartsOf(p)[3]
           d == PartsOf(p)[4]
           s == Cut!Encode(p)
<1>1. /\ Joins(Cut!Bytes, s, a, b, c, d)
      /\ Len(a) = PACKETLEN /\ Len(b) = OPCODELEN /\ Len(c) = STRING_LEN
  BY PartsAre DEF Joins
<1>2. FoundIn(Cut!Bytes, s, a, b, c, d)
  BY <1>1, FourParts
<1>3. /\ s \in Seq(Cut!Bytes)
      /\ Len(s) = PACKETLEN + OPCODELEN + STRING_LEN + Len(d)
      /\ SubSeq(s, 1, PACKETLEN) = a
      /\ SubSeq(s, PACKETLEN + 1, PACKETLEN + OPCODELEN) = b
      /\ SubSeq(s, PACKETLEN + OPCODELEN + 1, PACKETLEN + OPCODELEN + STRING_LEN) = c
      /\ SubSeq(s, PACKETLEN + OPCODELEN + STRING_LEN + 1, Len(s)) = d
  <2> HIDE DEF a, b, c, d, s
  <2> QED
    BY <1>1, <1>2 DEF FoundIn
<1> QED
  BY <1>3

(* What is encoded is decoded, wherever in the stream it stands.           *)
LEMMA DecodeEncode ==
  ASSUME NEW p \in PeerPackets, Cut!Encodable(p)
  PROVE  /\ Cut!Decode(Cut!Encode(p)) = p
         /\ Cut!Number(SubSeq(Cut!Encode(p), 1, PACKETLEN)) = Len(Cut!Encode(p))
         /\ Len(Cut!Encode(p)) \in Nat /\ PACKETLEN <= Len(Cut!Encode(p))
<1> DEFINE s == Cut!Encode(p)
           from == Cut!HEADERLEN + STRING_LEN
           n == Len(p.body)
<1>1. p.opcode \in Nat /\ n \in Nat /\ p = [opcode |-> p.opcode, body |-> p.body]
  BY CutAssumption
<1>2. PACKETLEN \in Nat /\ OPCODELEN \in Nat /\ STRING_LEN \in Nat
  BY CutAssumption
<1>3. /\ Len(s) = PACKETLEN + OPCODELEN + STRING_LEN + n
      /\ SubSeq(s, 1, PACKETLEN) = Cut!Digits(from + n, PACKETLEN)
      /\ SubSeq(s, PACKETLEN + 1, Cut!HEADERLEN) = Cut!Digits(p.opcode, OPCODELEN)
      /\ SubSeq(s, Cut!HEADERLEN + 1, from) = Cut!Digits(n, STRING_LEN)
      /\ SubSeq(s, from + 1, Len(s)) = p.body
  BY EncodeIs DEF PartsOf, Cut!HEADERLEN
<1>4. /\ Cut!HEADERLEN = PACKETLEN + OPCODELEN /\ Cut!HEADERLEN \in Nat
      /\ from \in Nat /\ from = PACKETLEN + OPCODELEN + STRING_LEN
      /\ Len(s) = from + n
  BY <1>1, <1>2, <1>3 DEF Cut!HEADERLEN
<1>5. Cut!Fits(from + n, PACKETLEN) /\ Cut!Fits(p.opcode, OPCODELEN) /\ Cut!Fits(n, STRING_LEN)
  BY DEF Cut!Encodable
<1> HIDE DEF s, n, from
<1>6. from + n \in Nat
  BY <1>1, <1>4
<1>7. /\ Cut!Number(Cut!Digits(from + n, PACKETLEN)) = from + n
      /\ Cut!Number(Cut!Digits(p.opcode, OPCODELEN)) = p.opcode
      /\ Cut!Number(Cut!Digits(n, STRING_LEN)) = n
  BY <1>1, <1>2, <1>5, <1>6, NumberOfDigits
<1>8. Cut!ReadBody(s) = p.body
  <2>1. Cut!Number(SubSeq(s, Cut!HEADERLEN + 1, from)) = n
    BY <1>3, <1>7
  <2>2. ~(from > Len(s)) /\ ~(from + n > Len(s))
    BY <1>1, <1>4
  <2>3. SubSeq(s, from + 1, from + n) = p.body
    BY <1>3, <1>4
  <2> QED
    BY <2>1, <2>2, <2>3 DEF Cut!ReadBody, from
<1>9. Cut!Decode(s) = [opcode |-> p.opcode, body |-> p.body]
  <2>1. ~(Len(s) < Cut!HEADERLEN)
    BY <1>1, <1>2, <1>4
  <2>2. Cut!Number(SubSeq(s, PACKETLEN + 1, Cut!HEADERLEN)) = p.opcode
    BY <1>3, <1>7
  <2> QED
    BY <1>8, <2>1, <2>2 DEF Cut!Decode
<1>10. Len(s) \in Nat /\ PACKETLEN <= Len(s)
  BY <1>1, <1>2, <1>4
<1>11. Cut!Number(SubSeq(s, 1, PACKETLEN)) = Len(s)
  BY <1>3, <1>4, <1>7
<1> QED
  BY <1>1, <1>9, <1>10, <1>11 DEF s

-----------------------------------------------------------------------------
(* Where packets end.                                                      *)
(* The length of the packet that begins after the first m bytes is in the  *)
(* bytes that follow, as soon as those have arrived.                       *)
LengthAt(s, m) == Cut!Number(SubSeq(s, m + 1, m + PACKETLEN))

LEMMA LengthThere ==
  ASSUME NEW s \in Seq(Cut!Bytes), NEW m \in Nat, NEW c \in Nat, m <= c, c <= Len(s)
  PROVE  /\ m + PACKETLEN <= c =>
              LengthAt(s, m) \in Nat /\ Cut!PacketLength(SubSeq(s, m + 1, c)) = LengthAt(s, m)
         /\ Cut!IsDataEnough(SubSeq(s, m + 1, c)) <=>
              m + PACKETLEN <= c /\ m + LengthAt(s, m) <= c
         /\ \A d \in Nat : m + PACKETLEN <= d /\ d <= c => LengthAt(SubSeq(s, 1, d), m) = LengthAt(s, m)
<1> DEFINE t == SubSeq(s, m + 1, c)
<1>1. PACKETLEN \in Nat
  BY CutAssumption
<1>2. Len(t) = c - m
  BY Pieces
<1>3. ASSUME m + PACKETLEN <= c
      PROVE  LengthAt(s, m) \in Nat /\ Cut!PacketLength(t) = LengthAt(s, m)
  <2>1. SubSeq(t, 1, PACKETLEN) = SubSeq(s, m + 1, m + PACKETLEN)
    BY <1>1, <1>3, Pieces
  <2>2. SubSeq(s, m + 1, m + PACKETLEN) \in Seq(Cut!Bytes)
    BY <1>1, <1>3
  <2> HIDE DEF t
  <2>3. LengthAt(s, m) \in Nat
    BY <2>2, BytesAreNat, NumberInNat DEF LengthAt
  <2> QED
    BY <2>1, <2>3 DEF Cut!PacketLength, LengthAt
<1>4. Cut!IsDataEnough(t) <=> m + PACKETLEN <= c /\ m + LengthAt(s, m) <= c
  <2> HIDE DEF t
  <2> QED
    BY <1>1, <1>2, <1>3 DEF Cut!IsDataEnough
<1>5. ASSUME NEW d \in Nat, m + PACKETLEN <= d, d <= c
      PROVE  LengthAt(SubSeq(s, 1, d), m) = LengthAt(s, m)
  <2> DEFINE i == m + 1
             j == m + PACKETLEN
  <2>1. /\ 0 \in Nat /\ d \in Nat /\ 0 <= d /\ d <= Len(s) /\ i \in Nat /\ j \in Nat
        /\ 1 <= i /\ i <= j + 1 /\ j <= d - 0 /\ i = 0 + i /\ j = 0 + j
    BY <1>1, <1>5
  <2> HIDE DEF i, j
  <2>2. SubSeq(SubSeq(s, 0 + 1, d), i, j) = SubSeq(s, i, j)
    BY <2>1, Pieces
  <2>3. 0 + 1 = 1
    OBVIOUS
  <2> QED
    BY <2>2, <2>3 DEF LengthAt, i, j
<1> QED
  BY <1>3, <1>4, <1>5

(* Where the packet ends that begins after the first m bytes.              *)
LEMMA EndAfterIs ==
  ASSUME NEW s \in Seq(Cut!Bytes), NEW m \in 0 .. Len(s)
  PROVE  /\ Cut!EndAfter(s, m) =
              IF m + PACKETLEN <= Len(s) /\ m + LengthAt(s, m) <= Len(s)
              THEN m + LengthAt(s, m) ELSE m
         /\ Cut!EndAfter(s, m) \in 0 .. Len(s)
<1> DEFINE rest == SubSeq(s, m + 1, Len(s))
<1>1. /\ m + PACKETLEN <= Len(s) =>
           LengthAt(s, m) \in Nat /\ Cut!PacketLength(rest) = LengthAt(s, m)
      /\ Cut!IsDataEnough(rest) <=> m + PACKETLEN <= Len(s) /\ m + LengthAt(s, m) <= Len(s)
  BY LengthThere
<1>2. Cut!EndAfter(s, m) = IF Cut!IsDataEnough(rest) THEN m + Cut!PacketLength(rest) ELSE m
  BY DEF Cut!EndAfter
<1> HIDE DEF rest
<1> QED
  BY <1>1, <1>2

(* The ends of the packets, each found from the one before.                *)
LEMMA EndsAre ==
  ASSUME NEW s \in Seq(Cut!Bytes)
  PROVE  /\ Cut!Ends(s) \in [0 .. Len(s) -> 0 .. Len(s)]
         /\ Cut!Ends(s)[0] = 0
         /\ \A n \in 1 .. Len(s) : Cut!Ends(s)[n] = Cut!EndAfter(s, Cut!Ends(s)[n - 1])
<1> DEFINE N == Len(s)
           S == 0 .. N
           Is(f) == f = [n \in 0 .. N |-> IF n = 0 THEN 0 ELSE Cut!EndAfter(s, f[n - 1])]
           step == [n \in 1 .. N |-> [x \in S |-> Cut!EndAfter(s, x)]]
           end == CHOOSE f : Is(f)
<1>1. N \in Nat /\ 0 \in S /\ \A x \in S : Cut!EndAfter(s, x) \in S
  BY EndAfterIs
<1>2. step \in [1 .. N -> [S -> S]] /\ \A n \in 1 .. N, x \in S : step[n][x] = Cut!EndAfter(s, x)
  BY <1>1
<1>3. PICK f : IsLoop(f, N, S, 0, step)
  <2> HIDE DEF step, N, S
  <2> QED
    BY <1>1, <1>2, LoopExists
<1>4. Is(f)
  <2> HIDE DEF step, S
  <2>1. ASSUME NEW n \in 0 .. N
        PROVE  f[n] = IF n = 0 THEN 0 ELSE Cut!EndAfter(s, f[n - 1])
    <3>1. CASE n = 0
      BY <1>3, <3>1 DEF IsLoop
    <3>2. CASE n # 0
      <4>1. n \in 1 .. N /\ f[n - 1] \in S
        BY <1>1, <1>3, <3>2 DEF IsLoop
      <4> QED
        BY <1>2, <1>3, <3>2, <4>1 DEF IsLoop
    <3> QED
      BY <3>1, <3>2
  <2> QED
    BY <1>3, <2>1 DEF IsLoop
<1>5. Is(end)
  <2> HIDE DEF Is
  <2> QED
    BY <1>4
<1>6. Cut!Ends(s) = end
  BY DEF Cut!Ends
<1> HIDE DEF end
<1>7. end[0] = 0 /\ \A n \in 1 .. N : end[n] = Cut!EndAfter(s, end[n - 1])
  <2>1. end[0] = 0
    BY <1>1, <1>5
  <2>2. ASSUME NEW n \in 1 .. N
        PROVE  end[n] = Cut!EndAfter(s, end[n - 1])
    <3>1. n \in 0 .. N /\ n # 0
      BY <1>1
    <3> QED
      BY <1>5, <3>1
  <2> QED
    BY <2>1, <2>2
<1>8. \A n \in 0 .. N : end[n] \in S
  <2>1. end[0] \in S /\ \A n \in 1 .. N : end[n - 1] \in S => end[n] \in S
    BY <1>1, <1>7
  <2> HIDE DEF Is, N, S
  <2> QED
    BY <1>1, <2>1, LoopInduction
<1>9. end \in [0 .. N -> S]
  <2>1. end = [n \in 0 .. N |-> end[n]]
    BY <1>5
  <2> QED
    BY <1>8, <2>1
<1> QED
  BY <1>6, <1>7, <1>9

-----------------------------------------------------------------------------
(* Cutting.  Every packet that was read lies between two marks, and what   *)
(* is after the last mark is in the buffer and then in the queue's chunks, *)
(* wherever those were cut.                                                *)
PacketAt(m, e) ==
  /\ m + PACKETLEN <= received
  /\ e = m + LengthAt(stream, m)
  /\ m < e /\ e <= received

Marked(marks) ==
  /\ marks \in [0 .. Len(packets) -> Nat]
  /\ marks[0] = 0
  /\ \A n \in 1 .. Len(packets) :
       /\ PacketAt(marks[n - 1], marks[n])
       /\ packets[n] = Cut!Decode(SubSeq(stream, marks[n - 1] + 1, marks[n]))

Chunked(from, cuts) ==
  /\ cuts \in [0 .. Len(read_queue_) -> 0 .. received]
  /\ from <= cuts[0] /\ buf_ = SubSeq(stream, from + 1, cuts[0])
  /\ \A n \in 1 .. Len(read_queue_) :
       cuts[n - 1] <= cuts[n] /\ read_queue_[n] = SubSeq(stream, cuts[n - 1] + 1, cuts[n])
  /\ cuts[Len(read_queue_)] = received

Decoded == {Cut!Decode(s) : s \in Seq(Cut!Bytes)}

CutTypeOK ==
  /\ stream \in Seq(Cut!Bytes)
  /\ received \in 0 .. Len(stream)
  /\ read_queue_ \in Seq(Seq(Cut!Bytes))
  /\ packets \in Seq(Decoded)

CutInv ==
  /\ CutTypeOK
  /\ \E marks, cuts : Marked(marks) /\ Chunked(marks[Len(packets)], cuts)

(* Nothing has arrived at first.                                           *)
LEMMA CutInitially == Cut!Init => CutInv
<1> SUFFICES ASSUME Cut!Init PROVE CutInv
  OBVIOUS
<1>1. received = 0 /\ read_queue_ = <<>> /\ buf_ = <<>> /\ packets = <<>>
  BY DEF Cut!Init
<1>2. stream \in Seq(Cut!Bytes)
  <2>1. CASE stream \in [1 .. RawLength -> Cut!Bytes]
    BY <2>1, CutAssumption
  <2>2. ASSUME NEW p \in PeerPackets, NEW q \in PeerPackets, stream = Cut!Encode(p) \o Cut!Encode(q)
        PROVE  stream \in Seq(Cut!Bytes)
    BY <2>2, EncodeIs
  <2> QED
    BY <2>1, <2>2 DEF Cut!Init
<1>3. CutTypeOK
  BY <1>1, <1>2 DEF CutTypeOK
<1> DEFINE marks == [n \in 0 .. 0 |-> 0]
<1>4. Marked(marks) /\ Chunked(marks[Len(packets)], marks)
  BY <1>1, <1>2 DEF Marked, Chunked
<1> QED
  BY <1>3, <1>4 DEF CutInv

(* The packets that were read stay where they are.                         *)
LEMMA MarkedStill ==
  ASSUME NEW marks, Marked(marks), stream' = stream, packets' = packets,
         received \in Int, received' \in Int, received <= received', stream \in Seq(Cut!Bytes)
  PROVE  Marked(marks)'
<1>1. /\ marks \in [0 .. Len(packets') -> Nat] /\ marks[0] = 0
  BY DEF Marked
<1>2. ASSUME NEW n \in 1 .. Len(packets')
      PROVE  /\ PacketAt(marks[n - 1], marks[n])'
             /\ packets'[n] = Cut!Decode(SubSeq(stream', marks[n - 1] + 1, marks[n]))
  <2>1. /\ PacketAt(marks[n - 1], marks[n])
        /\ packets[n] = Cut!Decode(SubSeq(stream, marks[n - 1] + 1, marks[n]))
        /\ n \in Int /\ n - 1 \in 0 .. Len(packets) /\ n \in 0 .. Len(packets)
    BY <1>2 DEF Marked
  <2>2. PACKETLEN \in Nat
    BY CutAssumption
  <2>3. marks[n - 1] \in Nat /\ marks[n] \in Nat
    BY <1>1, <2>1
  <2>4. PacketAt(marks[n - 1], marks[n])'
    BY <2>1, <2>2, <2>3 DEF PacketAt
  <2> QED
    BY <2>1, <2>4
<1> QED
  BY <1>1, <1>2 DEF Marked

(* More that arrives leaves the packets where they are.                    *)
LEMMA CutOnRead ==
  ASSUME CutInv, NEW n \in 1 .. Len(stream), Cut!OnRead(n)
  PROVE  CutInv'
<1> DEFINE chunk == SubSeq(stream, received + 1, received + n)
           N == Len(read_queue_)
<1>1. /\ received + n <= Len(stream) /\ received' = received + n
      /\ read_queue_' = Append(read_queue_, chunk)
      /\ stream' = stream /\ buf_' = buf_ /\ packets' = packets
  BY DEF Cut!OnRead
<1>2. /\ stream \in Seq(Cut!Bytes) /\ received \in 0 .. Len(stream) /\ Len(stream) \in Nat
      /\ read_queue_ \in Seq(Seq(Cut!Bytes)) /\ packets \in Seq(Decoded) /\ N \in Nat
  BY DEF CutInv, CutTypeOK
<1>3. chunk \in Seq(Cut!Bytes)
  BY <1>1, <1>2
<1> HIDE DEF chunk
<1>4. /\ read_queue_' \in Seq(Seq(Cut!Bytes)) /\ Len(read_queue_') = N + 1
      /\ \A i \in 1 .. N : read_queue_'[i] = read_queue_[i]
      /\ read_queue_'[N + 1] = chunk
  BY <1>1, <1>2, <1>3
<1>5. CutTypeOK'
  BY <1>1, <1>2, <1>4 DEF CutTypeOK
<1>6. PICK marks, cuts : Marked(marks) /\ Chunked(marks[Len(packets)], cuts)
  BY DEF CutInv
<1>7. Marked(marks)'
  <2>1. received \in Int /\ received' \in Int /\ received <= received'
    BY <1>1, <1>2
  <2> QED
    BY <1>1, <1>2, <1>6, <2>1, MarkedStill
<1>8. /\ cuts \in [0 .. N -> 0 .. received] /\ cuts[N] = received
      /\ \A i \in 1 .. N :
           cuts[i - 1] <= cuts[i] /\ read_queue_[i] = SubSeq(stream, cuts[i - 1] + 1, cuts[i])
  BY <1>6 DEF Chunked
<1>9. PICK more \in [0 .. N + 1 -> 0 .. received + n] :
        /\ \A i \in 0 .. N : more[i] = cuts[i]
        /\ more[N + 1] = received + n
  <2> DEFINE f == [i \in 0 .. N + 1 |-> IF i = N + 1 THEN received + n ELSE cuts[i]]
  <2>1. /\ f \in [0 .. N + 1 -> 0 .. received + n]
        /\ \A i \in 0 .. N : f[i] = cuts[i]
        /\ f[N + 1] = received + n
    BY <1>2, <1>8
  <2> HIDE DEF f
  <2> QED
    BY <2>1
<1> HIDE DEF N
<1>10. ASSUME NEW i \in 1 .. N + 1
       PROVE  more[i - 1] <= more[i] /\ read_queue_'[i] = SubSeq(stream, more[i - 1] + 1, more[i])
  <2>1. CASE i = N + 1
    <3>1. more[i - 1] = received /\ more[i] = received + n
      BY <1>2, <1>8, <1>9, <2>1
    <3> QED
      BY <1>2, <1>4, <2>1, <3>1 DEF chunk
  <2>2. CASE i # N + 1
    <3>1. i \in 1 .. N /\ i \in 0 .. N /\ i - 1 \in 0 .. N
      BY <1>2, <2>2
    <3> QED
      BY <1>4, <1>8, <1>9, <3>1
  <2> QED
    BY <2>1, <2>2
<1>11. Chunked(marks[Len(packets)], more)'
  <2>1. more[0] = cuts[0]
    BY <1>2, <1>9
  <2> QED
    BY <1>1, <1>4, <1>6, <1>9, <1>10, <2>1 DEF Chunked
<1> QED
  BY <1>1, <1>5, <1>7, <1>11 DEF CutInv

(* A packet is read that is in the stream as a whole.                      *)
LEMMA CutReadPacket ==
  ASSUME CutInv, Cut!ReadPacket
  PROVE  CutInv'
<1> DEFINE K == Len(packets)
           N == Len(read_queue_)
<1>0. PICK L : L = Cut!PacketLength(buf_)
  OBVIOUS
<1>1. /\ Cut!IsDataEnough(buf_) /\ L # 0
      /\ packets' = Append(packets, Cut!Decode(SubSeq(buf_, 1, L)))
      /\ buf_' = SubSeq(buf_, L + 1, Len(buf_))
      /\ stream' = stream /\ received' = received /\ read_queue_' = read_queue_
  BY <1>0 DEF Cut!ReadPacket
<1>2. /\ stream \in Seq(Cut!Bytes) /\ received \in 0 .. Len(stream) /\ Len(stream) \in Nat
      /\ read_queue_ \in Seq(Seq(Cut!Bytes)) /\ packets \in Seq(Decoded) /\ N \in Nat /\ K \in Nat
  BY DEF CutInv, CutTypeOK
<1>3. PICK marks, cuts : Marked(marks) /\ Chunked(marks[K], cuts)
  BY DEF CutInv
<1>4. PICK m : m = marks[K]
  OBVIOUS
<1>5. PICK c : c = cuts[0]
  OBVIOUS
<1>6. /\ m \in Nat /\ c \in Nat /\ m <= c /\ c <= Len(stream) /\ c <= received
      /\ buf_ = SubSeq(stream, m + 1, c)
  BY <1>2, <1>3, <1>4, <1>5 DEF Marked, Chunked
<1>7. /\ L = LengthAt(stream, m) /\ L \in Nat /\ L > 0
      /\ m + PACKETLEN <= c /\ m + L <= c
  <2>1. /\ m + PACKETLEN <= c =>
             LengthAt(stream, m) \in Nat /\ Cut!PacketLength(SubSeq(stream, m + 1, c)) = LengthAt(stream, m)
        /\ Cut!IsDataEnough(SubSeq(stream, m + 1, c)) <=>
             m + PACKETLEN <= c /\ m + LengthAt(stream, m) <= c
    BY <1>2, <1>6, LengthThere
  <2>2. m + PACKETLEN <= c /\ m + LengthAt(stream, m) <= c
    BY <1>1, <1>6, <2>1
  <2>3. L = LengthAt(stream, m) /\ L \in Nat
    BY <1>0, <1>6, <2>1, <2>2
  <2> QED
    BY <1>1, <2>2, <2>3
<1>8. /\ SubSeq(buf_, 1, L) = SubSeq(stream, m + 1, m + L)
      /\ SubSeq(buf_, L + 1, Len(buf_)) = SubSeq(stream, m + L + 1, c)
  <2> DEFINE a == m + 1
             b == m + L
             d == m + L + 1
             e == L + 1
             f == c - m
  <2>1. /\ a \in Nat /\ b \in Nat /\ d \in Nat /\ e \in Nat /\ f \in Nat
        /\ 1 <= L + 1 /\ L <= c - m /\ a = m + 1 /\ b = m + L
        /\ 1 <= e /\ e <= f + 1 /\ f <= c - m /\ d = m + e /\ c = m + f
    BY <1>6, <1>7
  <2>2. Len(buf_) = f
    BY <1>2, <1>6, Pieces
  <2> HIDE DEF a, b, d, e, f
  <2>3. SubSeq(buf_, 1, L) = SubSeq(stream, a, b)
    <3> DEFINE g == 1
    <3>1. /\ g \in Nat /\ L \in Nat /\ a \in Nat /\ b \in Nat
          /\ 1 <= g /\ g <= L + 1 /\ L <= c - m /\ a = m + g /\ b = m + L
      BY <1>7, <2>1
    <3> HIDE DEF g
    <3>2. SubSeq(buf_, g, L) = SubSeq(stream, a, b)
      BY <1>2, <1>6, <3>1, Pieces
    <3> QED
      BY <3>2 DEF g
  <2>4. SubSeq(buf_, e, f) = SubSeq(stream, d, c)
    BY <1>2, <1>6, <1>7, <2>1, Pieces
  <2> QED
    BY <2>2, <2>3, <2>4 DEF a, b, d, e
<1>9. Cut!Decode(SubSeq(stream, m + 1, m + L)) \in Decoded
  <2>1. SubSeq(stream, m + 1, m + L) \in Seq(Cut!Bytes)
    BY <1>2, <1>6, <1>7
  <2> QED
    BY <2>1 DEF Decoded
<1>10. /\ packets' \in Seq(Decoded) /\ Len(packets') = K + 1
       /\ \A n \in 1 .. K : packets'[n] = packets[n]
       /\ packets'[K + 1] = Cut!Decode(SubSeq(stream, m + 1, m + L))
  <2> DEFINE p == Cut!Decode(SubSeq(stream, m + 1, m + L))
  <2>1. packets' = Append(packets, p) /\ p \in Decoded
    BY <1>1, <1>8, <1>9
  <2> HIDE DEF p
  <2>2. /\ packets' \in Seq(Decoded) /\ Len(packets') = K + 1
        /\ \A n \in 1 .. K : packets'[n] = packets[n]
        /\ packets'[K + 1] = p
    BY <1>2, <2>1
  <2> QED
    BY <2>2 DEF p
<1>11. CutTypeOK'
  BY <1>1, <1>2, <1>10 DEF CutTypeOK
<1>12. /\ marks \in [0 .. K -> Nat] /\ marks[0] = 0
       /\ \A n \in 1 .. K :
            /\ PacketAt(marks[n - 1], marks[n])
            /\ packets[n] = Cut!Decode(SubSeq(stream, marks[n - 1] + 1, marks[n]))
  BY <1>3 DEF Marked
<1>13. PICK more \in [0 .. K + 1 -> Nat] :
         (\A n \in 0 .. K : more[n] = marks[n]) /\ more[K + 1] = m + L
  <2> DEFINE f == [n \in 0 .. K + 1 |-> IF n = K + 1 THEN m + L ELSE marks[n]]
  <2>1. f \in [0 .. K + 1 -> Nat] /\ (\A n \in 0 .. K : f[n] = marks[n]) /\ f[K + 1] = m + L
    BY <1>2, <1>6, <1>7, <1>12
  <2> HIDE DEF f
  <2> QED
    BY <2>1
<1> HIDE DEF K, N
<1>14. ASSUME NEW n \in 1 .. K + 1
       PROVE  /\ PacketAt(more[n - 1], more[n])'
              /\ packets'[n] = Cut!Decode(SubSeq(stream', more[n - 1] + 1, more[n]))
  <2>1. CASE n = K + 1
    <3>1. more[n - 1] = m /\ more[n] = m + L
      BY <1>2, <1>4, <1>13, <2>1
    <3>2. PacketAt(m, m + L)'
      <4>1. m + PACKETLEN <= received /\ m + L <= received /\ m < m + L
        <5>1. PACKETLEN \in Nat /\ received \in Nat
          BY <1>2, CutAssumption
        <5> QED
          BY <1>6, <1>7, <5>1
      <4> QED
        BY <1>1, <1>7, <4>1 DEF PacketAt
    <3> QED
      BY <1>1, <1>10, <2>1, <3>1, <3>2
  <2>2. CASE n # K + 1
    <3>1. n \in 1 .. K /\ n \in 0 .. K /\ n - 1 \in 0 .. K
      BY <1>2, <2>2
    <3>2. more[n - 1] = marks[n - 1] /\ more[n] = marks[n]
      BY <1>13, <3>1
    <3>3. PacketAt(marks[n - 1], marks[n])'
      BY <1>1, <1>12, <3>1 DEF PacketAt
    <3> QED
      BY <1>1, <1>10, <1>12, <3>1, <3>2, <3>3
  <2> QED
    BY <2>1, <2>2
<1>15. Marked(more)'
  <2>1. more[0] = 0
    BY <1>2, <1>12, <1>13
  <2> QED
    BY <1>10, <1>13, <1>14, <2>1 DEF Marked
<1>16. Chunked(m + L, cuts)'
  <2>1. /\ cuts \in [0 .. Len(read_queue_) -> 0 .. received]
        /\ \A n \in 1 .. Len(read_queue_) :
             cuts[n - 1] <= cuts[n] /\ read_queue_[n] = SubSeq(stream, cuts[n - 1] + 1, cuts[n])
        /\ cuts[Len(read_queue_)] = received
    BY <1>3 DEF Chunked
  <2>2. m + L <= cuts[0] /\ buf_' = SubSeq(stream', m + L + 1, cuts[0])
    BY <1>1, <1>5, <1>7, <1>8
  <2> QED
    BY <1>1, <2>1, <2>2 DEF Chunked
<1>17. more[Len(packets')] = m + L
  BY <1>10, <1>13
<1> QED
  BY <1>11, <1>15, <1>16, <1>17 DEF CutInv

(* The first chunk continues the buffer.                                   *)
LEMMA CutBufCat ==
  ASSUME CutInv, Cut!BufCat
  PROVE  CutInv'
<1> DEFINE K == Len(packets)
           N == Len(read_queue_)
<1>1. /\ read_queue_ # <<>> /\ buf_' = buf_ \o Head(read_queue_) /\ read_queue_' = Tail(read_queue_)
      /\ stream' = stream /\ received' = received /\ packets' = packets
  BY DEF Cut!BufCat
<1>2. /\ stream \in Seq(Cut!Bytes) /\ received \in 0 .. Len(stream) /\ Len(stream) \in Nat
      /\ read_queue_ \in Seq(Seq(Cut!Bytes)) /\ packets \in Seq(Decoded) /\ N \in Nat /\ K \in Nat
  BY DEF CutInv, CutTypeOK
<1>3. /\ N > 0 /\ Head(read_queue_) = read_queue_[1]
      /\ read_queue_' \in Seq(Seq(Cut!Bytes)) /\ Len(read_queue_') = N - 1
      /\ \A n \in 1 .. N - 1 : read_queue_'[n] = read_queue_[n + 1]
  BY <1>1, <1>2
<1>4. CutTypeOK'
  BY <1>1, <1>2, <1>3 DEF CutTypeOK
<1>5. PICK marks, cuts : Marked(marks) /\ Chunked(marks[K], cuts)
  BY DEF CutInv
<1>6. Marked(marks)'
  <2>1. received \in Int /\ received' \in Int /\ received <= received'
    BY <1>1, <1>2
  <2> QED
    BY <1>1, <1>2, <1>5, <2>1, MarkedStill
<1>7. PICK m : m = marks[K]
  OBVIOUS
<1>8. m \in Nat
  <2>1. K \in 0 .. K /\ marks \in [0 .. K -> Nat]
    BY <1>2, <1>5 DEF Marked
  <2> QED
    BY <1>7, <2>1
<1> HIDE DEF K, N
<1>9. /\ cuts \in [0 .. N -> 0 .. received] /\ cuts[N] = received
      /\ m <= cuts[0] /\ buf_ = SubSeq(stream, m + 1, cuts[0])
      /\ \A n \in 1 .. N :
           cuts[n - 1] <= cuts[n] /\ read_queue_[n] = SubSeq(stream, cuts[n - 1] + 1, cuts[n])
  BY <1>5, <1>7 DEF Chunked, N
<1>10. PICK rest \in [0 .. N - 1 -> 0 .. received] : \A n \in 0 .. N - 1 : rest[n] = cuts[n + 1]
  <2> DEFINE f == [n \in 0 .. N - 1 |-> cuts[n + 1]]
  <2>1. f \in [0 .. N - 1 -> 0 .. received] /\ \A n \in 0 .. N - 1 : f[n] = cuts[n + 1]
    BY <1>2, <1>9
  <2> HIDE DEF f
  <2> QED
    BY <2>1
<1>11. /\ rest[0] = cuts[1] /\ rest[N - 1] = received
       /\ cuts[0] <= cuts[1] /\ read_queue_[1] = SubSeq(stream, cuts[0] + 1, cuts[1])
       /\ cuts[0] \in Nat /\ cuts[1] \in Nat /\ cuts[1] <= Len(stream)
  <2>1. 0 \in 0 .. N - 1 /\ N - 1 \in 0 .. N - 1 /\ 0 + 1 = 1 /\ (N - 1) + 1 = N /\ 1 \in 1 .. N
        /\ 1 - 1 = 0 /\ 1 \in 0 .. N /\ 0 \in 0 .. N
    BY <1>2, <1>3
  <2>2. rest[0] = cuts[1] /\ rest[N - 1] = cuts[N]
    BY <1>10, <2>1
  <2>3. cuts[0] <= cuts[1] /\ read_queue_[1] = SubSeq(stream, cuts[0] + 1, cuts[1])
    BY <1>9, <2>1
  <2>4. cuts[0] \in 0 .. received /\ cuts[1] \in 0 .. received
    BY <1>9, <2>1
  <2> QED
    BY <1>2, <1>9, <2>2, <2>3, <2>4
<1>12. buf_' = SubSeq(stream, m + 1, rest[0])
  <2> DEFINE b == cuts[0]
             d == cuts[1]
  <2>0. m <= b /\ b <= d /\ b \in Nat /\ d \in Nat /\ d <= Len(stream)
    BY <1>9, <1>11
  <2> HIDE DEF b, d
  <2>1. m + 1 \in 1 .. Len(stream) + 1 /\ b \in (m + 1) - 1 .. Len(stream) /\ d \in b .. Len(stream)
    BY <1>2, <1>8, <2>0
  <2>2. SubSeq(stream, m + 1, b) \o SubSeq(stream, b + 1, d) = SubSeq(stream, m + 1, d)
    BY <1>2, <2>1, ConcatAdjacentSubSeq
  <2> QED
    BY <1>1, <1>3, <1>9, <1>11, <2>2 DEF b, d
<1>13. ASSUME NEW n \in 1 .. N - 1
       PROVE  rest[n - 1] <= rest[n] /\ read_queue_'[n] = SubSeq(stream, rest[n - 1] + 1, rest[n])
  <2>1. n + 1 \in 1 .. N /\ (n + 1) - 1 = n /\ n - 1 \in 0 .. N - 1 /\ n \in 0 .. N - 1 /\ (n - 1) + 1 = n
    BY <1>2
  <2>2. rest[n - 1] = cuts[n] /\ rest[n] = cuts[n + 1]
    BY <1>10, <2>1
  <2> QED
    BY <1>3, <1>9, <2>1, <2>2
<1>14. Chunked(m, rest)'
  <2>1. m <= rest[0]
    BY <1>2, <1>8, <1>9, <1>11
  <2> QED
    BY <1>1, <1>3, <1>10, <1>11, <1>12, <1>13, <2>1 DEF Chunked
<1> QED
  BY <1>1, <1>4, <1>6, <1>7, <1>14 DEF CutInv, K

(* The packets between the marks are those of what has arrived.            *)
LEMMA ArrivedPackets ==
  ASSUME CutInv, NEW n \in 1 .. Len(packets)
  PROVE  Cut!HasPacket(Cut!Arrived, n) /\ packets[n] = Cut!PacketOf(Cut!Arrived, n)
<1> DEFINE K == Len(packets)
           s == SubSeq(stream, 1, received)
<1>1. /\ stream \in Seq(Cut!Bytes) /\ received \in Nat /\ received <= Len(stream)
      /\ K \in Nat /\ PACKETLEN \in Nat
  BY CutAssumption DEF CutInv, CutTypeOK
<1>2. s \in Seq(Cut!Bytes) /\ Len(s) = received
  BY <1>1
<1>3. PICK marks : Marked(marks)
  BY DEF CutInv
<1>4. /\ marks \in [0 .. K -> Nat] /\ marks[0] = 0
      /\ \A i \in 1 .. K :
           /\ PacketAt(marks[i - 1], marks[i])
           /\ packets[i] = Cut!Decode(SubSeq(stream, marks[i - 1] + 1, marks[i]))
  BY <1>3 DEF Marked
<1> HIDE DEF K
<1>5. ASSUME NEW i \in 1 .. K
      PROVE  /\ marks[i - 1] \in 0 .. received /\ marks[i] \in 0 .. received
             /\ marks[i - 1] < marks[i]
             /\ Cut!EndAfter(s, marks[i - 1]) = marks[i]
  <2> DEFINE m == marks[i - 1]
             e == marks[i]
  <2>1. m \in Nat /\ e \in Nat
    BY <1>1, <1>4, <1>5
  <2>2. m + PACKETLEN <= received /\ e = m + LengthAt(stream, m) /\ m < e /\ e <= received
    BY <1>4, <1>5 DEF PacketAt
  <2> HIDE DEF m, e, s
  <2>3. m + PACKETLEN <= Len(stream) /\ m <= Len(stream)
    BY <1>1, <2>1, <2>2
  <2>4. LengthAt(s, m) = LengthAt(stream, m)
    <3>1. Len(stream) \in Nat
      BY <1>1
    <3> QED
      BY <1>1, <2>1, <2>2, <2>3, <3>1, LengthThere DEF s
  <2>5. m \in 0 .. Len(s) /\ m + PACKETLEN <= Len(s) /\ m + LengthAt(s, m) <= Len(s)
    BY <1>1, <1>2, <2>1, <2>2, <2>4
  <2>6. Cut!EndAfter(s, m) = m + LengthAt(s, m)
    BY <1>2, <2>5, EndAfterIs
  <2>7. m \in 0 .. received /\ e \in 0 .. received
    BY <1>1, <2>1, <2>2
  <2> QED
    BY <2>2, <2>4, <2>6, <2>7 DEF m, e
<1>6. \A i \in 0 .. K : i <= marks[i]
  <2> DEFINE S == {i \in Nat : i <= K => i <= marks[i]}
  <2>1. 0 \in S
    BY <1>4
  <2>2. ASSUME NEW i \in Nat, i \in S
        PROVE  i + 1 \in S
    <3>1. ASSUME i + 1 <= K
          PROVE  i + 1 <= marks[i + 1]
      <4>1. i + 1 \in 1 .. K /\ (i + 1) - 1 = i /\ i <= K
        BY <1>1, <3>1
      <4>2. marks[i] \in 0 .. received /\ marks[i + 1] \in 0 .. received /\ marks[i] < marks[i + 1]
        BY <1>5, <4>1
      <4>3. i <= marks[i]
        BY <2>2, <4>1
      <4> QED
        BY <4>2, <4>3
    <3> QED
      BY <3>1
  <2>3. Nat \subseteq S
    <3> HIDE DEF S
    <3> QED
      BY <2>1, <2>2, NatSetInduction
  <2> QED
    BY <1>1, <2>3
<1>7. n \in 1 .. K /\ n <= received
  <2>1. n \in 1 .. K /\ n \in 0 .. K
    BY DEF K
  <2>2. n <= marks[n] /\ marks[n] \in 0 .. received
    BY <1>5, <1>6, <2>1
  <2> QED
    BY <1>1, <2>1, <2>2
<1> DEFINE end == Cut!Ends(s)
<1>8. /\ end[0] = 0 /\ \A i \in 1 .. received : end[i] = Cut!EndAfter(s, end[i - 1])
  <2> HIDE DEF s
  <2> QED
    BY <1>2, EndsAre
<1> HIDE DEF end, s
<1>9. \A i \in 0 .. K : end[i] = marks[i]
  <2> DEFINE S == {i \in Nat : i <= K => end[i] = marks[i]}
  <2>1. 0 \in S
    BY <1>4, <1>8
  <2>2. ASSUME NEW i \in Nat, i \in S
        PROVE  i + 1 \in S
    <3>1. ASSUME i + 1 <= K
          PROVE  end[i + 1] = marks[i + 1]
      <4>1. i + 1 \in 1 .. K /\ (i + 1) - 1 = i /\ i <= K /\ i + 1 \in 0 .. K
        BY <1>1, <3>1
      <4>2. i + 1 \in 1 .. received
        <5>1. i + 1 <= marks[i + 1] /\ marks[i + 1] \in 0 .. received
          BY <1>5, <1>6, <4>1
        <5> QED
          BY <1>1, <5>1
      <4>3. end[i + 1] = Cut!EndAfter(s, end[i])
        BY <1>8, <4>1, <4>2
      <4>4. end[i] = marks[i]
        BY <2>2, <4>1
      <4>5. Cut!EndAfter(s, marks[i]) = marks[i + 1]
        BY <1>5, <4>1
      <4> QED
        BY <4>3, <4>4, <4>5
    <3> QED
      BY <3>1
  <2>3. Nat \subseteq S
    <3> HIDE DEF S
    <3> QED
      BY <2>1, <2>2, NatSetInduction
  <2> QED
    BY <1>1, <2>3
<1>10. end[n - 1] = marks[n - 1] /\ end[n] = marks[n]
  <2>1. n - 1 \in 0 .. K /\ n \in 0 .. K
    BY <1>1, <1>7
  <2> QED
    BY <1>9, <2>1
<1>11. SubSeq(s, marks[n - 1] + 1, marks[n]) = SubSeq(stream, marks[n - 1] + 1, marks[n])
  <2> DEFINE m == marks[n - 1]
             e == marks[n]
             i == m + 1
  <2>1. m \in Nat /\ e \in Nat /\ i \in Nat /\ m < e /\ e <= received
    BY <1>1, <1>5, <1>7
  <2>2. 0 \in Nat /\ received \in Nat /\ 0 <= received /\ 1 <= i /\ i <= e + 1 /\ e <= received - 0
        /\ i = 0 + i /\ e = 0 + e
    BY <1>1, <2>1
  <2> HIDE DEF m, e, i
  <2>3. SubSeq(SubSeq(stream, 0 + 1, received), i, e) = SubSeq(stream, i, e)
    BY <1>1, <2>1, <2>2, Pieces
  <2>4. 0 + 1 = 1
    OBVIOUS
  <2> QED
    BY <2>3, <2>4 DEF m, e, i, s
<1>12. Cut!Arrived = s
  BY DEF Cut!Arrived, s
<1>13. end[n - 1] < end[n]
  BY <1>5, <1>7, <1>10
<1> QED
  <2>1. n \in 1 .. Len(s)
    BY <1>1, <1>2, <1>7
  <2>2. Cut!HasPacket(s, n)
    BY <1>13, <2>1 DEF Cut!HasPacket, end
  <2>3. packets[n] = Cut!Decode(SubSeq(stream, marks[n - 1] + 1, marks[n]))
    BY <1>4, <1>7
  <2>4. packets[n] = Cut!PacketOf(s, n)
    BY <1>10, <1>11, <2>3 DEF Cut!PacketOf, end
  <2> QED
    BY <1>12, <2>2, <2>4

(* A packet that was encoded is found where it stands.                     *)
LEMMA EncodedAt ==
  ASSUME NEW s \in Seq(Cut!Bytes), NEW m \in Nat, NEW p \in PeerPackets, Cut!Encodable(p),
         NEW c \in Nat, c = m + Len(Cut!Encode(p)), c <= Len(s),
         SubSeq(s, m + 1, c) = Cut!Encode(p)
  PROVE  /\ m + LengthAt(s, m) = c
         /\ Cut!Decode(SubSeq(s, m + 1, c)) = p
<1> DEFINE e == Cut!Encode(p)
<1>1. /\ Cut!Decode(e) = p /\ Cut!Number(SubSeq(e, 1, PACKETLEN)) = Len(e)
      /\ Len(e) \in Nat /\ PACKETLEN <= Len(e) /\ PACKETLEN \in Nat
  BY DecodeEncode, CutAssumption
<1> HIDE DEF e
<1>2. m <= c /\ m + PACKETLEN <= c
  BY <1>1 DEF e
<1>3. LengthAt(s, m) = Cut!PacketLength(SubSeq(s, m + 1, c))
  BY <1>2, LengthThere
<1>4. LengthAt(s, m) = Len(e)
  BY <1>1, <1>3 DEF Cut!PacketLength, e
<1> QED
  BY <1>1, <1>4 DEF e

(* Of two packets that were encoded, the first are read that arrived.      *)
LEMMA ReadTwo ==
  ASSUME CutInv, NEW p \in PeerPackets, NEW q \in PeerPackets,
         stream = Cut!Encode(p) \o Cut!Encode(q), Cut!Encodable(p), Cut!Encodable(q)
  PROVE  Cut!Begins(packets, <<p, q>>)
<1> DEFINE a == Cut!Encode(p)
           b == Cut!Encode(q)
           K == Len(packets)
<1>1. /\ a \in Seq(Cut!Bytes) /\ b \in Seq(Cut!Bytes) /\ stream = a \o b
      /\ Len(a) \in Nat /\ Len(b) \in Nat
  BY EncodeIs
<1>2. /\ stream \in Seq(Cut!Bytes) /\ received \in Nat /\ received <= Len(stream)
      /\ K \in Nat /\ packets \in Seq(Decoded)
  BY DEF CutInv, CutTypeOK
<1>3. PICK marks : Marked(marks)
  BY DEF CutInv
<1>4. /\ marks \in [0 .. K -> Nat] /\ marks[0] = 0
      /\ \A i \in 1 .. K :
           /\ PacketAt(marks[i - 1], marks[i])
           /\ packets[i] = Cut!Decode(SubSeq(stream, marks[i - 1] + 1, marks[i]))
  BY <1>3 DEF Marked
<1>5. PICK c \in Nat, d \in Nat, z \in Nat : c = z + Len(a) /\ d = c + Len(b) /\ z = 0
  BY <1>1
<1> HIDE DEF a, b, K
<1>6. /\ Len(stream) = d /\ c <= d
      /\ \A i \in 1 .. Len(a) : stream[i] = a[i]
      /\ \A i \in 1 .. Len(b) : stream[c + i] = b[i]
  <2>1. /\ Len(stream) = Len(a) + Len(b)
        /\ \A i \in 1 .. Len(a) + Len(b) : stream[i] = IF i <= Len(a) THEN a[i] ELSE b[i - Len(a)]
    BY <1>1, ConcatProperties
  <2>2. \A i \in 1 .. Len(b) : c + i \in 1 .. Len(a) + Len(b) /\ ~(c + i <= Len(a)) /\ (c + i) - Len(a) = i
    BY <1>1, <1>5
  <2>3. \A i \in 1 .. Len(a) : i \in 1 .. Len(a) + Len(b) /\ i <= Len(a)
    BY <1>1
  <2>4. \A i \in 1 .. Len(b) : stream[c + i] = b[i]
    BY <2>1, <2>2
  <2>5. \A i \in 1 .. Len(a) : stream[i] = a[i]
    BY <2>1, <2>3
  <2> QED
    BY <1>1, <1>5, <2>1, <2>4, <2>5
<1>7. SubSeq(stream, z + 1, c) = a
  <2> DEFINE f == z + 1
  <2>1. f \in Nat /\ f <= c + 1 /\ c <= Len(stream) /\ 1 <= f /\ Len(a) = c - f + 1
    BY <1>1, <1>5, <1>6
  <2>2. \A i \in 1 .. c - f + 1 : i \in 1 .. Len(a) /\ f + i - 1 = i
    BY <1>1, <1>5
  <2> HIDE DEF f
  <2>3. \A i \in 1 .. c - f + 1 : stream[f + i - 1] = a[i]
    BY <1>6, <2>2
  <2>4. SubSeq(stream, f, c) = a
    BY <1>1, <1>2, <2>1, <2>3, PieceIs
  <2> QED
    BY <2>4 DEF f
<1>8. SubSeq(stream, c + 1, d) = b
  <2> DEFINE f == c + 1
  <2>1. f \in Nat /\ f <= d + 1 /\ d <= Len(stream) /\ 1 <= f /\ Len(b) = d - f + 1
    BY <1>1, <1>5, <1>6
  <2>2. \A i \in 1 .. d - f + 1 : i \in 1 .. Len(b) /\ f + i - 1 = c + i
    BY <1>1, <1>5
  <2> HIDE DEF f
  <2>3. \A i \in 1 .. d - f + 1 : stream[f + i - 1] = b[i]
    BY <1>6, <2>2
  <2>4. SubSeq(stream, f, d) = b
    BY <1>1, <1>2, <2>1, <2>3, PieceIs
  <2> QED
    BY <2>4 DEF f
<1>9. z + LengthAt(stream, z) = c /\ Cut!Decode(SubSeq(stream, z + 1, c)) = p
  <2>1. /\ c = z + Len(Cut!Encode(p)) /\ c <= Len(stream) /\ Cut!Encodable(p)
        /\ SubSeq(stream, z + 1, c) = Cut!Encode(p)
    BY <1>1, <1>5, <1>6, <1>7 DEF a
  <2> QED
    BY <1>2, <2>1, EncodedAt
<1>10. c + LengthAt(stream, c) = d /\ Cut!Decode(SubSeq(stream, c + 1, d)) = q
  <2>1. /\ d = c + Len(Cut!Encode(q)) /\ d <= Len(stream) /\ Cut!Encodable(q)
        /\ SubSeq(stream, c + 1, d) = Cut!Encode(q)
    BY <1>1, <1>5, <1>6, <1>8 DEF b
  <2> QED
    BY <1>2, <2>1, EncodedAt
<1>11. ASSUME 1 <= K
       PROVE  marks[1] = c /\ packets[1] = p
  <2>1. 1 \in 1 .. K /\ 1 - 1 = 0
    BY <1>2, <1>11
  <2>2. PacketAt(marks[0], marks[1]) /\ packets[1] = Cut!Decode(SubSeq(stream, marks[0] + 1, marks[1]))
    BY <1>4, <2>1
  <2>3. marks[1] = c
    BY <1>4, <1>5, <1>9, <2>2 DEF PacketAt
  <2> QED
    BY <1>4, <1>5, <1>9, <2>2, <2>3
<1>12. ASSUME 2 <= K
       PROVE  marks[2] = d /\ packets[2] = q
  <2>1. 2 \in 1 .. K /\ 2 - 1 = 1 /\ 1 <= K
    BY <1>2, <1>12
  <2>2. PacketAt(marks[1], marks[2]) /\ packets[2] = Cut!Decode(SubSeq(stream, marks[1] + 1, marks[2]))
    BY <1>4, <2>1
  <2>3. marks[2] = d
    BY <1>10, <1>11, <2>1, <2>2 DEF PacketAt
  <2> QED
    BY <1>10, <1>11, <2>1, <2>2, <2>3
<1>13. K <= 2
  <2> SUFFICES ASSUME 3 <= K PROVE FALSE
    BY <1>2
  <2>1. 3 \in 1 .. K /\ 3 - 1 = 2 /\ 2 <= K /\ 3 \in 0 .. K
    BY <1>2
  <2>2. PacketAt(marks[2], marks[3])
    BY <1>4, <2>1
  <2>3. marks[3] \in Nat /\ marks[2] = d
    BY <1>4, <1>12, <2>1
  <2> QED
    BY <1>2, <1>5, <1>6, <2>2, <2>3 DEF PacketAt
<1>14. SubSeq(<<p, q>>, 1, K) = packets
  <2> DEFINE S == Decoded \cup {p, q}
             t == <<p, q>>
             f == 1
  <2>1. t \in Seq(S) /\ Len(t) = 2 /\ t[1] = p /\ t[2] = q
    OBVIOUS
  <2>2. packets \in Seq(S)
    <3>1. packets \in [1 .. K -> Decoded]
      BY <1>2 DEF K
    <3>2. packets \in [1 .. K -> S]
      BY <3>1
    <3> QED
      BY <1>2, <3>2
  <2>3. f \in Nat /\ f <= K + 1 /\ K <= Len(t) /\ 1 <= f /\ K = K - f + 1
    BY <1>2, <1>13, <2>1
  <2>4. \A i \in 1 .. K - f + 1 : t[f + i - 1] = packets[i]
    <3> TAKE i \in 1 .. K - f + 1
    <3>1. CASE i = 1
      <4>1. 1 <= K /\ f + i - 1 = 1
        BY <1>2, <3>1
      <4> QED
        BY <1>11, <2>1, <3>1, <4>1
    <3>2. CASE i # 1
      <4>1. i = 2 /\ 2 <= K /\ f + i - 1 = 2
        BY <1>2, <1>13, <3>2
      <4> QED
        BY <1>12, <2>1, <4>1
    <3> QED
      BY <3>1, <3>2
  <2> HIDE DEF S, t, f
  <2>5. SubSeq(t, f, K) = packets
    BY <1>2, <2>1, <2>2, <2>3, <2>4, PieceIs DEF K
  <2> QED
    BY <2>5 DEF t, f
<1>15. Len(<<p, q>>) = 2
  OBVIOUS
<1> QED
  BY <1>13, <1>14, <1>15 DEF Cut!Begins, K

(* Which packets are read depends on the bytes only, not on how TCP cut    *)
(* them nor on when the game loop looked, and what was encoded is decoded; *)
(* for any base, widths of numbers and packets that fit them               *)
(* (tcp_connection.cpp:344-421, transcode_protobuf.cpp:16-23,46-60,        *)
(* transcode_packet.cpp:49-57,82-101,138-147).                             *)
THEOREM PacketsAsSent == Cut!Spec => []ReadAsSent
<1>1. Cut!Init => CutInv
  BY CutInitially
<1>2. CutInv /\ [Cut!Next]_(Cut!vars) => CutInv'
  <2> SUFFICES ASSUME CutInv, [Cut!Next]_(Cut!vars)
               PROVE  CutInv'
    OBVIOUS
  <2>1. CASE UNCHANGED Cut!vars
    BY <2>1 DEF Cut!vars, CutInv, CutTypeOK, Marked, PacketAt, Chunked
  <2> QED
    BY <2>1, CutOnRead, CutReadPacket, CutBufCat DEF Cut!Next
<1>3. CutInv => ReadAsSent
  BY ArrivedPackets, ReadTwo DEF ReadAsSent, Cut!ReadAsSent
<1> QED
  BY <1>1, <1>2, <1>3, PTL DEF Cut!Spec

-----------------------------------------------------------------------------
(* Writing.  The packets and the request to close go through the server's  *)
(* Async, of which the game loop is the only user here.                    *)
Posts == Write!Packets \cup {CLOSE}

M == INSTANCE AsyncProofs WITH Producers <- {game}, Items <- Posts

LEMMA PostsAreTold == Nothing \notin [to : {0, 1}, item : Posts]
  BY WriteAssumption DEF Posts, Write!Packets

(* Mail and M are one module, instantiated by the model and here.          *)
LEMMA SameMail ==
  /\ Write!Mail!Init => M!Init
  /\ \A x : Write!Mail!StartPost(game, x) => M!StartPost(game, x)
  /\ Write!Mail!FinishPush(game) => M!FinishPush(game)
  /\ Write!Mail!Send(game) => M!Send(game)
  /\ Write!Mail!StartCallback => M!StartCallback
  /\ \A x : Write!Mail!OnMessage(x) => M!OnMessage(x)
  /\ Write!Mail!EndCallback => M!EndCallback
BY DEF Write!Mail!Init, M!Init, Write!Mail!QueueInit, M!QueueInit, Posts,
       Write!Mail!StartPost, M!StartPost, Write!Mail!BeginPush, M!BeginPush,
       Write!Mail!NextQueueIndex, M!NextQueueIndex,
       Write!Mail!FinishPush, M!FinishPush, Write!Mail!EndPush, M!EndPush,
       Write!Mail!Send, M!Send, Write!Mail!StartCallback, M!StartCallback,
       Write!Mail!Swap, M!Swap, Write!Mail!OnMessage, M!OnMessage, Write!Mail!Pop, M!Pop,
       Write!Mail!Front, M!Front, Write!Mail!EndCallback, M!EndCallback

LEMMA SameRange == \A s : M!Range(s) = Range(s) /\ Write!Range(s) = Range(s)
  BY DEF M!Range, Write!Range, Range

LEMMA MailInvHolds == Write!Spec => []M!AsyncInv
<1> USE PostsAreTold
<1>1. Write!Init => M!AsyncInv
  BY SameMail, M!AsyncInitially DEF Write!Init
<1>2. M!AsyncInv /\ [Write!Next]_Write!vars => M!AsyncInv'
  <2> SUFFICES ASSUME M!AsyncInv, [Write!Next]_Write!vars
               PROVE  M!AsyncInv'
    OBVIOUS
  <2>1. ASSUME NEW x \in Posts, Write!Mail!StartPost(game, x)
        PROVE  M!AsyncInv'
    BY <2>1, SameMail, M!StartPostStep
  <2>2. CASE Write!Write \/ Write!Close
    <3>1. CASE Write!Write
      <4>1. Write!Mail!StartPost(game, written')
        BY <3>1 DEF Write!Write
      <4>2. written' \in Posts
        BY <4>1, SameMail DEF M!StartPost, M!AsyncInv, M!TypeOK
      <4> QED
        BY <2>1, <4>1, <4>2
    <3>2. CASE Write!Close
      BY <2>1, <3>2 DEF Write!Close, Posts
    <3> QED
      BY <2>2, <3>1, <3>2
  <2>3. CASE Write!FinishPost
    BY <2>3, SameMail, M!FinishPushStep, M!SendStep DEF Write!FinishPost
  <2>4. CASE Write!StartCallback
    BY <2>4, SameMail, M!StartCallbackStep DEF Write!StartCallback
  <2>5. CASE Write!EndCallback
    BY <2>5, SameMail, M!EndCallbackStep DEF Write!EndCallback
  <2>6. ASSUME NEW x \in Posts, Write!OnMessage(x)
        PROVE  M!AsyncInv'
    BY <2>6, SameMail, M!OnMessageStep DEF Write!OnMessage
  <2>7. CASE UNCHANGED Write!mailVars
    BY <2>7, M!AsyncStays DEF Write!mailVars, M!vars
  <2>8. CASE Write!OnClosed \/ Write!Delete \/ Write!PeerCloses \/ Write!Answer \/ Write!OnClosedHandle
    BY <2>7, <2>8 DEF Write!OnClosed, Write!Delete, Write!PeerCloses, Write!Answer,
                      Write!OnClosedHandle, Write!DoWrite
  <2>9. CASE UNCHANGED Write!vars
    BY <2>7, <2>9 DEF Write!vars
  <2> QED
    BY <2>2, <2>3, <2>4, <2>5, <2>6, <2>8, <2>9 DEF Write!Next, Posts
<1> QED
  BY <1>1, <1>2, PTL DEF Write!Spec
-----------------------------------------------------------------------------
(* Where the data of a packet are: the server's Async delivers each that   *)
(* was written, and then it waits in write_req_set_, or was dropped, or    *)
(* do_write freed it.                                                      *)
Delivered == (1 .. written) \cap idle
Answered == {handed[i] : i \in 1 .. answered}

WriteTypeOK ==
  /\ written \in 0 .. MaxWrites
  /\ life \in {"open", "closing", "closed", "OnClosed", "deleted"}
  /\ handed \in Seq(Write!Packets)
  /\ answered \in 0 .. Len(handed)
  /\ write_req_set_ \subseteq Write!Packets
  /\ freed \in [Write!Packets -> Nat]
  /\ leaked \subseteq Write!Packets

FreedBy(x) == x \in Answered \/ (life = "deleted" /\ x \in write_req_set_)

Accounted ==
  /\ Write!Packets \ idle \subseteq 1 .. written
  /\ Delivered = write_req_set_ \cup leaked \cup Answered
  /\ leaked \cap (write_req_set_ \cup Answered) = {} /\ write_req_set_ \cap Answered = {}
  /\ IsInjective(handed) /\ Range(handed) \subseteq write_req_set_ \cup Answered
  /\ \A x \in Write!Packets : freed[x] = IF FreedBy(x) THEN 1 ELSE 0
  /\ life = "deleted" => idle = Posts
  /\ life = "open" => Delivered \subseteq Range(handed)

WriteInv == WriteTypeOK /\ Accounted

LEMMA WriteStarts == Write!Init => WriteInv
<1> SUFFICES ASSUME Write!Init
             PROVE  WriteInv
  OBVIOUS
<1>1. /\ written = 0 /\ life = "open" /\ handed = <<>> /\ answered = 0 /\ write_req_set_ = {}
      /\ freed = [x \in Write!Packets |-> 0] /\ leaked = {} /\ idle = Posts
  BY DEF Write!Init, Write!Mail!Init, Posts
<1>2. Range(<<>>) = {} /\ IsInjective(<<>>)
  BY DEF Range, IsInjective
<1>3. Delivered = {} /\ Answered = {}
  BY <1>1 DEF Delivered, Answered
<1>4. WriteTypeOK
  BY <1>1, WriteAssumption DEF WriteTypeOK
<1>5. Accounted
  BY <1>1, <1>2, <1>3 DEF Accounted, FreedBy, Posts
<1> QED
  BY <1>4, <1>5 DEF WriteInv

(* What posts, but delivers nothing, leaves the packets where they are.    *)
LEMMA PostingKeepsInv ==
  ASSUME WriteInv, M!AsyncInv,
         UNCHANGED <<life, handed, answered, write_req_set_, freed, leaked>>,
         \/ /\ written < MaxWrites /\ written' = written + 1 /\ idle' = idle \ {written + 1}
            /\ life # "deleted"
         \/ written' = written /\ idle' = idle \ {CLOSE} /\ life # "deleted"
         \/ UNCHANGED <<written, idle>>
  PROVE  WriteInv'
<1> USE DEF WriteInv
<1>1. written \in Nat /\ written <= MaxWrites /\ MaxWrites \in Nat /\ CLOSE \notin 1 .. MaxWrites
  BY WriteAssumption DEF WriteTypeOK
<1>2. written' \in 0 .. MaxWrites
  BY <1>1
<1>3. WriteTypeOK'
  BY <1>2 DEF WriteTypeOK
<1>4. Delivered' = Delivered
  BY <1>1 DEF Delivered
<1>5. (Write!Packets \ idle)' \subseteq 1 .. written'
  BY <1>1 DEF Accounted, Write!Packets
<1>6. Answered' = Answered
  BY DEF Answered
<1>7. Accounted'
  BY <1>4, <1>5, <1>6 DEF Accounted, FreedBy
<1> QED
  BY <1>3, <1>7

(* OnMessage takes in the data of one packet, or drops them.               *)
LEMMA OnMessageKeepsInv ==
  ASSUME WriteInv, M!AsyncInv, NEW x \in Posts, Write!OnMessage(x)
  PROVE  WriteInv'
<1> USE DEF WriteInv
<1>1. x \notin idle /\ idle' = idle \cup {x} /\ x \in Posts
  BY SameMail, PostsAreTold, M!HeadIsTaken DEF Write!OnMessage
<1>2. /\ written' = written /\ answered' = answered /\ freed' = freed
      /\ written \in Nat /\ written <= MaxWrites /\ MaxWrites \in Nat /\ CLOSE \notin 1 .. MaxWrites
      /\ life # "deleted" /\ answered \in Nat /\ answered <= Len(handed)
  BY <1>1, WriteAssumption DEF WriteTypeOK, Accounted, Write!OnMessage
<1>3. ASSUME x = CLOSE
      PROVE  WriteInv'
  <2>1. UNCHANGED <<handed, write_req_set_, leaked>> /\ life' \in {life, "closing"}
    BY <1>2, <1>3 DEF Write!OnMessage, Write!Packets
  <2>2. Delivered' = Delivered /\ Answered' = Answered
    BY <1>1, <1>2, <1>3, <2>1 DEF Delivered, Answered
  <2>3. WriteTypeOK'
    BY <1>2, <2>1 DEF WriteTypeOK
  <2>4. Accounted'
    BY <1>1, <1>2, <1>3, <2>1, <2>2 DEF Accounted, FreedBy
  <2> QED
    BY <2>3, <2>4
<1>4. ASSUME x # CLOSE
      PROVE  WriteInv'
  <2>1. x \in Write!Packets /\ x \in 1 .. written /\ x \notin Delivered
    BY <1>1, <1>4 DEF Posts, Accounted, Delivered
  <2>2. x \notin write_req_set_ \cup leaked \cup Answered \cup Range(handed)
    BY <2>1 DEF Accounted
  <2>3. Delivered' = Delivered \cup {x}
    BY <1>1, <1>2, <2>1 DEF Delivered
  <2>4. CASE life = "OnClosed"
    <3>1. leaked' = leaked \cup {x} /\ UNCHANGED <<life, handed, write_req_set_>>
      BY <1>4, <2>4 DEF Write!OnMessage
    <3>2. Answered' = Answered
      BY <1>2, <3>1 DEF Answered
    <3>3. WriteTypeOK'
      BY <1>2, <2>1, <3>1 DEF WriteTypeOK
    <3>4. Accounted'
      BY <1>1, <1>2, <2>1, <2>2, <2>3, <2>4, <3>1, <3>2 DEF Accounted, FreedBy
    <3> QED
      BY <3>3, <3>4
  <2>5. CASE life # "OnClosed"
    <3>1. /\ write_req_set_' = write_req_set_ \cup {x} /\ UNCHANGED <<life, leaked>>
          /\ handed' = IF life = "open" THEN Append(handed, x) ELSE handed
      BY <1>4, <2>5 DEF Write!OnMessage
    <3>2. /\ handed' \in Seq(Write!Packets) /\ Len(handed') \in Nat /\ answered <= Len(handed')
          /\ IsInjective(handed')
          /\ Range(handed') = IF life = "open" THEN Range(handed) \cup {x} ELSE Range(handed)
          /\ \A i \in 1 .. answered : handed'[i] = handed[i]
      <4>1. handed \in Seq(Write!Packets) /\ IsInjective(handed) /\ Len(handed) \in Nat
        BY DEF WriteTypeOK, Accounted
      <4>2. CASE life = "open"
        <5>1. handed' = Append(handed, x)
          BY <3>1, <4>2
        <5>2. /\ handed' \in Seq(Write!Packets) /\ IsInjective(handed')
              /\ Range(handed') = Range(handed) \cup {x}
          BY <2>1, <2>2, <4>1, <5>1, AppendElements
        <5>3. Len(handed') = Len(handed) + 1 /\ \A i \in 1 .. Len(handed) : handed'[i] = handed[i]
          BY <4>1, <5>1
        <5> QED
          BY <1>2, <4>1, <4>2, <5>2, <5>3
      <4>3. CASE life # "open"
        BY <1>2, <3>1, <4>1, <4>3
      <4> QED
        BY <4>2, <4>3
    <3>3. Answered' = Answered
      BY <1>2, <3>2 DEF Answered
    <3>4. WriteTypeOK'
      BY <1>2, <2>1, <3>1, <3>2 DEF WriteTypeOK
    <3>5. Accounted'
      BY <1>1, <1>2, <2>1, <2>2, <2>3, <3>1, <3>2, <3>3 DEF Accounted, FreedBy
    <3> QED
      BY <3>4, <3>5
  <2> QED
    BY <2>4, <2>5
<1> QED
  BY <1>3, <1>4

(* do_write frees the data of the next n requests, which nobody freed yet. *)
LEMMA DoWriteKeepsInv ==
  ASSUME WriteInv, NEW n \in 0 .. Write!Waiting, Write!DoWrite(n),
         life \in {"open", "closing"}, life' \in {life, "closing", "closed"}
  PROVE  WriteInv'
<1> USE DEF WriteInv
<1> DEFINE done == {handed[answered + i] : i \in 1 .. n}
<1>1. /\ answered' = answered + n /\ write_req_set_' = write_req_set_ \ done
      /\ freed' = [x \in Write!Packets |-> IF x \in done THEN freed[x] + 1 ELSE freed[x]]
      /\ UNCHANGED <<idle, written, handed, leaked>>
  BY DEF Write!DoWrite, Write!Free, Write!mailVars
<1>2. /\ handed \in Seq(Write!Packets) /\ Len(handed) \in Nat /\ answered \in Nat /\ n \in Nat
      /\ answered + n <= Len(handed) /\ DOMAIN handed = 1 .. Len(handed)
  BY DEF WriteTypeOK, Write!Waiting
<1>3. /\ \A i \in 1 .. n : answered + i \in DOMAIN handed
      /\ 1 .. answered \subseteq DOMAIN handed
  BY <1>2
<1>4. done \subseteq Range(handed)
  BY <1>3 DEF Range
<1>5. done \cap Answered = {}
  <2>1. ASSUME NEW i \in 1 .. n, NEW j \in 1 .. answered, handed[answered + i] = handed[j]
        PROVE  FALSE
    <3>1. answered + i = j
      BY <1>3, <2>1 DEF Accounted, IsInjective
    <3> QED
      BY <1>2, <3>1
  <2> QED
    BY <2>1 DEF Answered
<1>6. Answered' = Answered \cup done
  <2>1. \A i \in 1 .. answered + n : i \in 1 .. answered \/ \E j \in 1 .. n : i = answered + j
    <3>1. ASSUME NEW i \in 1 .. answered + n, i \notin 1 .. answered
          PROVE  i - answered \in 1 .. n /\ i = answered + (i - answered)
      BY <1>2, <3>1
    <3> QED
      BY <3>1
  <2>2. 1 .. answered \subseteq 1 .. answered + n /\ \A j \in 1 .. n : answered + j \in 1 .. answered + n
    BY <1>2
  <2> QED
    BY <1>1, <2>1, <2>2 DEF Answered
<1>7. done \subseteq write_req_set_
  BY <1>4, <1>5 DEF Accounted
<1>8. Delivered' = Delivered
  BY <1>1 DEF Delivered
<1> HIDE DEF done
<1>9. WriteTypeOK'
  <2>1. freed' \in [Write!Packets -> Nat]
    BY <1>1 DEF WriteTypeOK
  <2>2. answered' \in 0 .. Len(handed')
    BY <1>1, <1>2
  <2> QED
    BY <1>1, <2>1, <2>2 DEF WriteTypeOK
<1>10. Accounted'
  <2>1. \A x \in Write!Packets : freed'[x] = IF FreedBy(x)' THEN 1 ELSE 0
    <3>1. ASSUME NEW x \in Write!Packets, x \in done
          PROVE  freed'[x] = 1 /\ FreedBy(x)'
      BY <1>1, <1>5, <1>6, <3>1 DEF Accounted, FreedBy
    <3>2. ASSUME NEW x \in Write!Packets, x \notin done
          PROVE  freed'[x] = freed[x] /\ (FreedBy(x)' <=> FreedBy(x))
      BY <1>1, <1>6, <3>2 DEF FreedBy
    <3> QED
      BY <3>1, <3>2 DEF Accounted
  <2> QED
    BY <1>1, <1>4, <1>6, <1>7, <1>8, <2>1 DEF Accounted
<1> QED
  BY <1>9, <1>10

LEMMA WriteKeepsInv ==
  ASSUME WriteInv, M!AsyncInv, [Write!Next]_Write!vars
  PROVE  WriteInv'
<1>1. CASE Write!Write
  BY <1>1, PostingKeepsInv DEF Write!Write, Write!Mail!StartPost, Write!writeVars
<1>2. CASE Write!Close
  BY <1>2, PostingKeepsInv DEF Write!Close, Write!Mail!StartPost, Write!writeVars
<1>3. CASE Write!FinishPost \/ Write!StartCallback \/ Write!EndCallback
  <2>1. UNCHANGED <<idle, written, life, handed, answered, write_req_set_, freed, leaked>>
    BY <1>3 DEF Write!FinishPost, Write!StartCallback, Write!EndCallback, Write!writeVars,
                Write!Mail!FinishPush, Write!Mail!Send, Write!Mail!StartCallback, Write!Mail!EndCallback
  <2> QED
    BY <2>1, PostingKeepsInv
<1>4. CASE Write!OnClosed \/ Write!PeerCloses
  <2>1. /\ UNCHANGED <<idle, written, handed, answered, write_req_set_, freed, leaked>>
        /\ life # "deleted" /\ life' \in {"OnClosed", "closing"}
    BY <1>4 DEF Write!OnClosed, Write!PeerCloses, Write!writeVars, Write!mailVars
  <2>2. Delivered' = Delivered /\ Answered' = Answered
    BY <2>1 DEF Delivered, Answered
  <2>3. WriteTypeOK'
    BY <2>1 DEF WriteInv, WriteTypeOK
  <2>4. Accounted'
    BY <2>1, <2>2 DEF WriteInv, Accounted, FreedBy
  <2> QED
    BY <2>3, <2>4 DEF WriteInv
<1>5. CASE Write!Delete
  <2>1. /\ UNCHANGED <<idle, written, handed, answered, write_req_set_, leaked>>
        /\ life = "OnClosed" /\ life' = "deleted" /\ idle = Posts
        /\ freed' = [x \in Write!Packets |-> IF x \in write_req_set_ THEN freed[x] + 1 ELSE freed[x]]
    BY <1>5 DEF Write!Delete, Write!Free, Write!mailVars, Posts
  <2>2. Delivered' = Delivered /\ Answered' = Answered
    BY <2>1 DEF Delivered, Answered
  <2>3. WriteTypeOK'
    <3>1. freed' \in [Write!Packets -> Nat]
      BY <2>1 DEF WriteInv, WriteTypeOK
    <3> QED
      BY <2>1, <3>1 DEF WriteInv, WriteTypeOK
  <2>4. \A x \in Write!Packets : freed'[x] = IF FreedBy(x)' THEN 1 ELSE 0
    BY <2>1, <2>2 DEF WriteInv, Accounted, FreedBy
  <2>5. Accounted'
    BY <2>1, <2>2, <2>4 DEF WriteInv, Accounted
  <2> QED
    BY <2>3, <2>5 DEF WriteInv
<1>6. ASSUME NEW x \in Posts, Write!OnMessage(x)
      PROVE  WriteInv'
  BY <1>6, OnMessageKeepsInv
<1>7. Write!Waiting \in Nat
  BY DEF WriteInv, WriteTypeOK, Write!Waiting
<1>8. CASE Write!Answer
  <2>1. 1 \in 0 .. Write!Waiting /\ Write!DoWrite(1) /\ life = "open" /\ life' \in {"open", "closing"}
    BY <1>7, <1>8 DEF Write!Answer
  <2> QED
    BY <2>1, DoWriteKeepsInv
<1>9. CASE Write!OnClosedHandle
  <2>1. /\ Write!Waiting \in 0 .. Write!Waiting /\ Write!DoWrite(Write!Waiting)
        /\ life = "closing" /\ life' = "closed"
    BY <1>7, <1>9 DEF Write!OnClosedHandle
  <2> QED
    BY <2>1, DoWriteKeepsInv
<1>10. CASE UNCHANGED Write!vars
  BY <1>10, PostingKeepsInv DEF Write!vars, Write!mailVars, Write!writeVars
<1> QED
  BY <1>1, <1>2, <1>3, <1>4, <1>5, <1>6, <1>8, <1>9, <1>10 DEF Write!Next, Posts

LEMMA WriteHasInv == Write!Spec => []WriteInv
  BY WriteStarts, WriteKeepsInv, MailInvHolds, PTL DEF Write!Spec

(* The data of each packet are freed once, however the connection ends,    *)
(* but for those that OnMessage drops because closing_ is set, which are   *)
(* never freed.                                                            *)
THEOREM DataFreedOnce == Write!Spec => []WritesFreedOnce
<1>1. WriteInv => WritesFreedOnce
  <2> SUFFICES ASSUME WriteInv
               PROVE  WritesFreedOnce
    OBVIOUS
  <2>1. \A x \in Write!Packets : freed[x] <= 1
    BY DEF WriteInv, Accounted
  <2>2. ASSUME life = "deleted", NEW x \in 1 .. written
        PROVE  freed[x] = IF x \in leaked THEN 0 ELSE 1
    <3>1. x \in Write!Packets
      BY WriteAssumption DEF WriteInv, WriteTypeOK, Write!Packets
    <3>2. x \in Delivered
      BY <2>2, <3>1 DEF WriteInv, Accounted, Delivered, Posts
    <3> QED
      BY <2>2, <3>1, <3>2 DEF WriteInv, Accounted, FreedBy
  <2> QED
    BY <2>1, <2>2 DEF WritesFreedOnce, Write!WritesFreedOnce
<1> QED
  BY <1>1, WriteHasInv, PTL
-----------------------------------------------------------------------------
(* The order in which packets pass through the queue.  Each packet comes   *)
(* after those with smaller numbers, but for what is excused: late, or     *)
(* delivered already.                                                      *)
Earlier == [x \in Posts |-> IF x = CLOSE THEN {} ELSE 1 .. x - 1]
Excused == late \cup Delivered \cup {CLOSE}

InPushOf(p) == IF pushing[p] = Nothing THEN {} ELSE {pushing[p].item}

PushInOrder ==
  pushing[game] # Nothing =>
    \A i \in Earlier[pushing[game].item] \ Excused :
      \/ i \in Range(M!Front)
      \/ pushing[game].to # queue_index_ /\ i \in Range(M!Back)

Sequel ==
  /\ 1 .. written \subseteq idle \cup M!Queued \cup InPushOf(game)
  /\ InOrder(M!Front, {}, Earlier, Excused)
  /\ InOrder(M!Back, Range(M!Front), Earlier, Excused)
  /\ PushInOrder
  /\ \A j \in Delivered : Earlier[j] \subseteq Excused

(* Where only the excuses change, and grow, the order remains.             *)
LEMMA SequelStays ==
  ASSUME Sequel, Excused \subseteq Excused', UNCHANGED <<M!Front, M!Back, M!Queued, InPushOf(game)>>,
         UNCHANGED <<pushing, queue_index_, written>>, Delivered' = Delivered, idle \subseteq idle'
  PROVE  Sequel'
<1>1. Earlier' = Earlier
  BY DEF Earlier
<1>2. /\ InOrder(M!Front, {}, Earlier, Excused')
      /\ InOrder(M!Back, Range(M!Front), Earlier, Excused')
  BY InOrderStill DEF Sequel
<1>3. PushInOrder'
  BY <1>1 DEF Sequel, PushInOrder
<1> QED
  BY <1>1, <1>2, <1>3 DEF Sequel

LEMMA StartPostKeepsSequel ==
  ASSUME WriteInv, M!AsyncInv, Sequel, NEW x \in Posts, M!StartPost(game, x),
         \/ x = written + 1 /\ written < MaxWrites /\ written' = written + 1
         \/ x = CLOSE /\ written' = written
  PROVE  Sequel'
<1>1. written \in Nat /\ MaxWrites \in Nat /\ CLOSE \notin 1 .. MaxWrites /\ written <= MaxWrites
  BY WriteAssumption DEF WriteInv, WriteTypeOK
<1>2. /\ x \in idle /\ idle' = idle \ {x} /\ late' = late
      /\ UNCHANGED <<queue_index_, M!Front, M!Back, M!Queued>>
      /\ pushing[game] = Nothing
  BY DEF M!StartPost, M!BeginPush, M!Front, M!Back, M!Queued
<1>3. /\ pushing'[game].item = x /\ pushing'[game] # Nothing
      /\ pushing'[game].to # queue_index_
  <2>1. pushing'[game] = [to |-> M!NextQueueIndex(queue_index_), item |-> x]
    BY DEF M!StartPost, M!BeginPush, M!AsyncInv, M!TypeOK, M!QueueTypeOK
  <2>2. M!NextQueueIndex(queue_index_) \in {0, 1} \ {queue_index_}
    BY PostsAreTold, M!FrontAndBack DEF M!AsyncInv
  <2>3. [to |-> M!NextQueueIndex(queue_index_), item |-> x] \in [to : {0, 1}, item : Posts]
    BY <2>2
  <2> QED
    BY <2>1, <2>2, <2>3, PostsAreTold
<1>4. Delivered' = Delivered
  BY <1>1, <1>2 DEF Delivered
<1>5. Excused' = Excused /\ Earlier' = Earlier
  BY <1>2, <1>4 DEF Excused, Earlier
<1>6. InPushOf(game)' = {x} /\ InPushOf(game) = {}
  BY <1>2, <1>3 DEF InPushOf
<1>7. (1 .. written)' \subseteq (1 .. written) \cup {x}
  BY <1>1
<1>8. Earlier[x] \subseteq 1 .. written
  BY <1>1 DEF Earlier
<1>9. 1 .. written \subseteq Excused \cup M!Queued
  BY <1>2, <1>6 DEF Sequel, Excused, Delivered
<1>10. M!Queued = Range(M!Front) \cup Range(M!Back)
  BY PostsAreTold, M!FrontAndBack, SameRange DEF M!AsyncInv
<1>11. PushInOrder'
  BY <1>2, <1>3, <1>5, <1>8, <1>9, <1>10 DEF PushInOrder
<1> QED
  BY <1>2, <1>4, <1>5, <1>6, <1>7, <1>11 DEF Sequel

LEMMA FinishPushKeepsSequel ==
  ASSUME WriteInv, M!AsyncInv, Sequel, M!FinishPush(game), written' = written
  PROVE  Sequel'
<1> DEFINE y == pushing[game].item
<1>1. /\ y \in Posts /\ M!Queued' = M!Queued \cup {y}
      /\ pushing[game] # Nothing /\ pushing'[game] = Nothing
      /\ UNCHANGED <<queue_index_, idle>>
      /\ \/ /\ pushing[game].to = queue_index_ /\ late' = late \cup {y}
            /\ M!Front' = Append(M!Front, y) /\ M!Back' = M!Back
         \/ /\ pushing[game].to # queue_index_ /\ late' = late
            /\ M!Front' = M!Front /\ M!Back' = Append(M!Back, y)
  BY PostsAreTold, M!PushEnds
<1>2. InPushOf(game) = {y} /\ InPushOf(game)' = {}
  BY <1>1 DEF InPushOf
<1>3. \A i \in Earlier[y] \ Excused :
        \/ i \in Range(M!Front)
        \/ pushing[game].to # queue_index_ /\ i \in Range(M!Back)
  BY <1>1 DEF Sequel, PushInOrder
<1> HIDE DEF y
<1>4. Delivered' = Delivered /\ Earlier' = Earlier
  BY <1>1 DEF Delivered, Earlier
<1>5. Excused \subseteq Excused'
  BY <1>1, <1>4 DEF Excused
<1>6. M!Front \in Seq(Posts) /\ M!Back \in Seq(Posts)
  BY PostsAreTold, M!FrontAndBack DEF M!AsyncInv
<1>7. PushInOrder'
  BY <1>1 DEF PushInOrder
<1>8. (1 .. written)' \subseteq idle' \cup M!Queued' \cup InPushOf(game)'
  BY <1>1, <1>2 DEF Sequel
<1>9. /\ InOrder(M!Front, {}, Earlier, Excused')
      /\ InOrder(M!Back, Range(M!Front), Earlier, Excused')
  BY <1>5, InOrderStill DEF Sequel
<1>10. CASE /\ pushing[game].to = queue_index_
            /\ M!Front' = Append(M!Front, y) /\ M!Back' = M!Back
  <2>1. InOrder(M!Front', {}, Earlier, Excused')
    <3>1. \A i \in Earlier[y] \ Excused' : i \in {} \/ i \in Range(M!Front)
      BY <1>3, <1>5, <1>10
    <3> QED
      BY <1>1, <1>6, <1>9, <1>10, <3>1, AppendInOrder
  <2>2. Range(M!Front) \subseteq Range(M!Front')
    BY <1>1, <1>6, <1>10, AppendElements
  <2>3. InOrder(M!Back', Range(M!Front'), Earlier, Excused')
    BY <1>9, <1>10, <2>2, InOrderStill
  <2> QED
    BY <1>4, <1>5, <1>7, <1>8, <2>1, <2>3 DEF Sequel
<1>11. CASE /\ pushing[game].to # queue_index_
            /\ M!Front' = M!Front /\ M!Back' = Append(M!Back, y)
  <2>1. InOrder(M!Back', Range(M!Front), Earlier, Excused')
    <3>1. \A i \in Earlier[y] \ Excused' : i \in Range(M!Front) \/ i \in Range(M!Back)
      BY <1>3, <1>5
    <3> QED
      BY <1>1, <1>6, <1>9, <1>11, <3>1, AppendInOrder
  <2> QED
    BY <1>4, <1>5, <1>7, <1>8, <1>9, <1>11, <2>1 DEF Sequel
<1> QED
  BY <1>1, <1>10, <1>11

LEMMA SwapKeepsSequel ==
  ASSUME WriteInv, M!AsyncInv, Sequel, M!StartCallback, written' = written
  PROVE  Sequel'
<1>1. /\ M!Front' = M!Back /\ M!Back' = M!Front /\ M!Queued' = M!Queued
      /\ Range(M!Front) \subseteq late /\ queue_index_' # queue_index_
      /\ UNCHANGED <<pushing, idle, late>>
  BY PostsAreTold, M!SwapTurns, SameRange
<1>2. Delivered' = Delivered /\ Excused' = Excused /\ Earlier' = Earlier /\ InPushOf(game)' = InPushOf(game)
  BY <1>1 DEF Delivered, Excused, Earlier, InPushOf
<1>3. Range(M!Front) \subseteq Excused
  BY <1>1 DEF Excused
<1>4. InOrder(M!Back, {}, Earlier, Excused)
  <2>1. Range(M!Front) \cup Excused \subseteq {} \cup Excused
    BY <1>3
  <2> QED
    BY <2>1, InOrderAnyway DEF Sequel
<1>5. InOrder(M!Front, Range(M!Back), Earlier, Excused)
  BY InOrderStill DEF Sequel
<1>6. PushInOrder'
  BY <1>1, <1>2, <1>3 DEF Sequel, PushInOrder
<1> QED
  BY <1>1, <1>2, <1>4, <1>5, <1>6 DEF Sequel

LEMMA TakeKeepsSequel ==
  ASSUME WriteInv, M!AsyncInv, Sequel, NEW x \in Posts, M!OnMessage(x), written' = written
  PROVE  Sequel'
<1>1. /\ M!Front # <<>> /\ x = Head(M!Front) /\ M!Front' = Tail(M!Front) /\ M!Back' = M!Back
      /\ M!Front \in Seq(Posts) /\ M!Back \in Seq(Posts)
      /\ x \in M!Queued /\ x \notin idle /\ M!Queued' = M!Queued \ {x}
      /\ Range(M!Front') = Range(M!Front) \ {x}
      /\ idle' = idle \cup {x} /\ late' = late \ {x}
      /\ UNCHANGED <<queue_index_, pushing>>
  BY PostsAreTold, M!HeadIsTaken, SameRange
<1>2. x = CLOSE \/ x \in 1 .. written
  BY <1>1 DEF WriteInv, Accounted, Posts
<1>3. /\ Excused \subseteq Excused' /\ x \in Excused'
      /\ Delivered' \subseteq Delivered \cup {x} /\ Earlier' = Earlier
      /\ InPushOf(game)' = InPushOf(game)
  BY <1>1, <1>2 DEF Excused, Delivered, Earlier, InPushOf
<1>4. /\ \A i \in Earlier[x] \ Excused : i \in {}
      /\ InOrder(Tail(M!Front), {} \cup {Head(M!Front)}, Earlier, Excused)
  BY <1>1, TailInOrder DEF Sequel
<1>5. InOrder(M!Front', {}, Earlier, Excused')
  <2>1. ({} \cup {Head(M!Front)}) \cup Excused \subseteq {} \cup Excused'
    BY <1>1, <1>3
  <2> QED
    BY <1>1, <1>4, <2>1, InOrderAnyway
<1>6. InOrder(M!Back', Range(M!Front'), Earlier, Excused')
  <2>1. Range(M!Front) \cup Excused \subseteq Range(M!Front') \cup Excused'
    BY <1>1, <1>3
  <2> QED
    BY <1>1, <2>1, InOrderAnyway DEF Sequel
<1>7. PushInOrder'
  BY <1>1, <1>3 DEF Sequel, PushInOrder
<1>8. \A j \in Delivered' : Earlier[j] \subseteq Excused'
  BY <1>3, <1>4 DEF Sequel
<1> QED
  BY <1>1, <1>3, <1>5, <1>6, <1>7, <1>8 DEF Sequel

LEMMA WriteKeepsSequel ==
  ASSUME WriteInv, M!AsyncInv, Sequel, [Write!Next]_Write!vars
  PROVE  Sequel'
<1>1. CASE Write!Write
  <2>1. Write!Mail!StartPost(game, written') /\ written < MaxWrites /\ written' = written + 1
    BY <1>1 DEF Write!Write
  <2>2. M!StartPost(game, written') /\ written' \in Posts
    BY <2>1, SameMail DEF M!StartPost, M!AsyncInv, M!TypeOK
  <2> QED
    BY <2>1, <2>2, StartPostKeepsSequel
<1>2. CASE Write!Close
  BY <1>2, SameMail, StartPostKeepsSequel DEF Write!Close, Posts
<1>3. ASSUME UNCHANGED <<queue_index_, queues_, pushing, idle, late, written>>
      PROVE  Sequel'
  <2>1. UNCHANGED <<M!Front, M!Back, M!Queued, InPushOf(game)>> /\ Delivered' = Delivered
    BY <1>3 DEF M!Front, M!Back, M!Queued, InPushOf, Delivered
  <2>2. Excused' = Excused
    BY <1>3, <2>1 DEF Excused
  <2> QED
    BY <1>3, <2>1, <2>2, SequelStays
<1>4. CASE Write!FinishPost
  <2>1. CASE Write!Mail!FinishPush(game)
    BY <1>4, <2>1, SameMail, FinishPushKeepsSequel DEF Write!FinishPost
  <2>2. CASE Write!Mail!Send(game)
    BY <1>3, <1>4, <2>2 DEF Write!FinishPost, Write!Mail!Send
  <2> QED
    BY <1>4, <2>1, <2>2 DEF Write!FinishPost
<1>5. CASE Write!StartCallback
  BY <1>5, SameMail, SwapKeepsSequel DEF Write!StartCallback
<1>6. ASSUME NEW x \in Posts, Write!OnMessage(x)
      PROVE  Sequel'
  BY <1>6, SameMail, TakeKeepsSequel DEF Write!OnMessage
<1>7. CASE Write!EndCallback
  BY <1>3, <1>7 DEF Write!EndCallback, Write!Mail!EndCallback
<1>8. CASE Write!OnClosed \/ Write!Delete \/ Write!PeerCloses \/ Write!Answer \/ Write!OnClosedHandle
  BY <1>3, <1>8 DEF Write!OnClosed, Write!Delete, Write!PeerCloses, Write!Answer,
                    Write!OnClosedHandle, Write!DoWrite, Write!mailVars
<1>9. CASE UNCHANGED Write!vars
  BY <1>3, <1>9 DEF Write!vars, Write!mailVars
<1> QED
  BY <1>1, <1>2, <1>4, <1>5, <1>6, <1>7, <1>8, <1>9 DEF Write!Next, Posts

LEMMA WriteStartsInOrder == Write!Init => Sequel
<1> SUFFICES ASSUME Write!Init
             PROVE  Sequel
  OBVIOUS
<1>1. written = 0 /\ pushing[game] = Nothing /\ queue_index_ = 0
  BY DEF Write!Init, Write!Mail!Init, Write!Mail!QueueInit
<1>2. M!Front = <<>> /\ M!Back = <<>>
  BY <1>1 DEF Write!Init, Write!Mail!Init, Write!Mail!QueueInit, M!Front, M!Back, M!NextQueueIndex
<1>3. \A s, ah, lt : InOrder(<<>>, s, ah, lt)
  BY DEF InOrder
<1>4. 1 .. written = {} /\ Delivered = {}
  BY <1>1 DEF Delivered
<1> QED
  BY <1>1, <1>2, <1>3, <1>4 DEF Sequel, PushInOrder

(* Packets are handed to the socket in the order in which they were        *)
(* written, but for those whose push a swap overtook: each after all that  *)
(* were written before it.                                                 *)
THEOREM PacketsInOrder == Write!Spec => []WrittenInOrder
<1>1. WriteInv /\ Sequel => WrittenInOrder
  <2> SUFFICES ASSUME WriteInv, Sequel, life = "open",
                      NEW j \in Range(handed), NEW i \in 1 .. j
               PROVE  i \in Range(handed) \/ i \in late
    BY SameRange DEF WrittenInOrder, Write!WrittenInOrder
  <2>1. Delivered = Range(handed) /\ Delivered \subseteq 1 .. written
    BY DEF WriteInv, Accounted, Delivered
  <2>2. written \in Nat /\ written <= MaxWrites /\ MaxWrites \in Nat /\ CLOSE \notin 1 .. MaxWrites
    BY WriteAssumption DEF WriteInv, WriteTypeOK
  <2>3. j \in 1 .. written /\ j \in 1 .. MaxWrites /\ j # CLOSE /\ i \in 1 .. MaxWrites /\ i # CLOSE
    BY <2>1, <2>2
  <2>4. Earlier[j] = 1 .. j - 1
    BY <2>3 DEF Earlier, Posts, Write!Packets
  <2>5. i = j \/ i \in Earlier[j]
    BY <2>3, <2>4
  <2> QED
    BY <2>1, <2>3, <2>5 DEF Sequel, Excused
<1>2. Sequel /\ WriteInv /\ M!AsyncInv /\ [Write!Next]_Write!vars => Sequel'
  BY WriteKeepsSequel
<1> QED
  BY <1>1, <1>2, WriteStartsInOrder, WriteHasInv, MailInvHolds, PTL DEF Write!Spec
=============================================================================
