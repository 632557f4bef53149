------------------------- MODULE ActionsTableProofs -------------------------
(***************************************************************************)
(* Proofs about ActionsTable for any number of writers and cursors, any    *)
(* ring size and any number of additions.                                  *)
(***************************************************************************)
EXTENDS ActionsTable, TLAPS

-----------------------------------------------------------------------------
(* Slots: the arithmetic of n % Rows.                                      *)

\* A record's slot is a slot of the ring, and no larger than its number.
LEMMA IndexRange ==
  ASSUME NEW k \in Nat
  PROVE  /\ IndexOf(k) \in Slots
         /\ IndexOf(k) <= k
  BY RowsAssumption DEF IndexOf, Slots

\* Before the ring wraps a record's slot is its number.
LEMMA IndexSmall ==
  ASSUME NEW k \in Slots
  PROVE  IndexOf(k) = k
  BY RowsAssumption DEF IndexOf, Slots

LEMMA IndexQuotient ==
  ASSUME NEW k \in Nat
  PROVE  /\ k \div Rows \in Nat
         /\ IndexOf(k) \in 0..(Rows-1)
         /\ k = Rows * (k \div Rows) + IndexOf(k)
  BY RowsAssumption DEF IndexOf

\* Distinct multiples of the ring size are a ring apart.
LEMMA MultipleGap ==
  ASSUME NEW a \in Int, NEW b \in Int, a < b
  PROVE  Rows * b - Rows * a >= Rows
  <1>1. Rows * (b - a) >= Rows
    BY RowsAssumption
  <1> QED
    BY <1>1, RowsAssumption

\* Two records that share a slot are at least a ring apart.
LEMMA SameSlotApart ==
  ASSUME NEW k \in Nat, NEW j \in Nat, k < j, IndexOf(k) = IndexOf(j)
  PROVE  j - k >= Rows
  <1> DEFINE a == k \div Rows
             b == j \div Rows
             r == IndexOf(k)
  <1>1. a \in Nat /\ b \in Nat /\ r \in Nat
    BY IndexQuotient
  <1>2. k = Rows * a + r /\ j = Rows * b + r
    BY IndexQuotient
  <1> HIDE DEF a, b, r
  <1>3. j - k = Rows * b - Rows * a
    BY <1>1, <1>2, RowsAssumption
  <1>4. a < b
    <2>1. CASE a = b
      BY <2>1, <1>3, <1>1, RowsAssumption
    <2>2. CASE b < a
      <3>1. Rows * a - Rows * b >= Rows
        BY <2>2, <1>1, MultipleGap
      <3> QED
        BY <3>1, <1>3, <1>1, RowsAssumption
    <2> QED
      BY <2>1, <2>2, <1>1
  <1> QED
    BY <1>1, <1>3, <1>4, MultipleGap

\* Going back one ring leads to the same slot.
LEMMA SameSlotShift ==
  ASSUME NEW k \in Nat, k >= Rows
  PROVE  IndexOf(k - Rows) = IndexOf(k)
  <1> DEFINE j == k - Rows
             a == j \div Rows
             b == k \div Rows
             r == IndexOf(j)
             t == IndexOf(k)
  <1>0. j \in Nat
    BY RowsAssumption
  <1>1. a \in Nat /\ b \in Nat /\ r \in 0..(Rows-1) /\ t \in 0..(Rows-1)
    BY IndexQuotient, <1>0
  <1>2. j = Rows * a + r /\ k = Rows * b + t
    BY IndexQuotient, <1>0
  <1>3. k = j + Rows
    BY RowsAssumption
  <1>4. SUFFICES r = t
    OBVIOUS
  <1> HIDE DEF a, b, r, t, j
  <1>5. Rows * (a + 1) + r = Rows * b + t
    BY <1>1, <1>2, <1>3, RowsAssumption
  <1>6. CASE a + 1 < b
    <2>1. Rows * b - Rows * (a + 1) >= Rows
      BY <1>6, <1>1, MultipleGap
    <2> QED
      BY <2>1, <1>5, <1>1, RowsAssumption
  <1>7. CASE b < a + 1
    <2>1. Rows * (a + 1) - Rows * b >= Rows
      BY <1>7, <1>1, MultipleGap
    <2> QED
      BY <2>1, <1>5, <1>1, RowsAssumption
  <1>8. CASE a + 1 = b
    BY <1>8, <1>5, <1>1, RowsAssumption
  <1> QED
    BY <1>6, <1>7, <1>8, <1>1

-----------------------------------------------------------------------------
(* The inductive invariant.  The parts that TLC checks as properties say   *)
(* what is wanted; the others say why the next step keeps it so.           *)

\* The lock is held by whoever is inside addProfiler_element, and the slot
\* claimed last is the holder's.
LockInv ==
  \A w \in Writers : wpc[w] # "idle" =>
    /\ lock = w
    /\ profiler_next_available_index > 0
    /\ index[w] = profiler_next_available_index - 1

\* A slot is empty only while the ring has not come that far, and the record
\* in it is the youngest that belongs there.
SlotInv ==
  \A i \in Slots :
    IF profiler_array[i] = Null
    THEN Last <= i
    ELSE /\ IndexOf(profiler_array[i].seq) = i
         /\ profiler_array[i].seq < Last
         /\ Last - Rows <= profiler_array[i].seq

HeapInv == heap = First..(Last-1)

\* What the scan has passed it has returned, unless it is gone or newer than
\* the scan; what it is copying is still in its slot, unless a newer record is.
ScanInv ==
  \A c \in Cursors :
    /\ \A s \in atStart[c] : s < Last
    /\ \A i \in Slots :
         /\ i < m_next_pos[c]
         /\ profiler_array[i] # Null
         /\ profiler_array[i].seq \in atStart[c]
         /\ profiler_array[i].seq \in heap
         => profiler_array[i].seq \in got[c]
    /\ rpc[c] = "copying" =>
         /\ record[c] # Null
         /\ m_pos[c] \in Slots
         /\ m_pos[c] = m_next_pos[c]
         /\ profiler_array[m_pos[c]] # Null
         /\ profiler_array[m_pos[c]].seq \in atStart[c]
            => record[c].seq = profiler_array[m_pos[c]].seq
    /\ record[c] # Null => record[c].seq < Last

\* Until the ring wraps, nothing a cursor has fetched is deleted.
FetchInv ==
  profiler_next_available_index <= Rows =>
    \A c \in Cursors : record[c] # Null => record[c].seq \in heap

IInv ==
  /\ TypeOK
  /\ LockInv
  /\ SlotInv
  /\ HeapInv
  /\ ScanInv
  /\ ScanComplete
  /\ PositionsFilled
  /\ FetchInv
  /\ NoGarbageBeforeWrap

-----------------------------------------------------------------------------
LEMMA InitIInv == Init => IInv
  <1> SUFFICES ASSUME Init PROVE IInv
    OBVIOUS
  <1> USE RowsAssumption, MaxAddsAssumption, NoWriterAssumption DEF Init
  <1>1. TypeOK
    BY DEF TypeOK, Slots
  <1>2. Last = 0 /\ First = 0
    BY DEF Last, First, HolderAt
  <1>3. LockInv
    BY DEF LockInv
  <1>4. SlotInv
    BY <1>2 DEF SlotInv, Slots
  <1>5. HeapInv
    BY <1>2 DEF HeapInv
  <1>6. ScanInv /\ ScanComplete /\ PositionsFilled
    BY DEF ScanInv, ScanComplete, PositionsFilled, Slots
  <1>7. FetchInv /\ NoGarbageBeforeWrap
    BY NullAssumption, GarbageAssumption DEF FetchInv, NoGarbageBeforeWrap
  <1> QED
    BY <1>1, <1>3, <1>4, <1>5, <1>6, <1>7 DEF IInv

\* First and Last are numbers, and a writer inside addProfiler_element adds
\* entry Last.
LEMMA WindowFacts ==
  ASSUME TypeOK, LockInv
  PROVE  /\ Last \in Nat /\ First \in Nat
         /\ Last <= profiler_next_available_index
         /\ lock = NoWriter => Last = profiler_next_available_index
         /\ \A w \in Writers :
              /\ wpc[w] # "idle" => lock = w
              /\ wpc[w] \in {"delete", "store"} =>
                   /\ index[w] = Last
                   /\ profiler_next_available_index = Last + 1
              /\ wpc[w] = "unlock" => profiler_next_available_index = Last
              /\ wpc[w] = "delete" =>
                   First = IF Last >= Rows THEN Last - Rows ELSE 0
              /\ wpc[w] = "store" =>
                   First = IF Last + 1 >= Rows THEN Last + 1 - Rows ELSE 0
  <1> USE RowsAssumption, MaxAddsAssumption, NoWriterAssumption
  <1>1. HolderAt \in {"delete", "store"} => profiler_next_available_index > 0
    BY DEF HolderAt, LockInv, TypeOK
  <1>2. Last \in Nat /\ Last <= profiler_next_available_index
    BY <1>1 DEF Last, TypeOK
  <1>3. First \in Nat
    BY <1>2 DEF First
  <1>4. lock = NoWriter => Last = profiler_next_available_index
    BY DEF Last, HolderAt
  <1>5. ASSUME NEW w \in Writers, wpc[w] # "idle"
        PROVE  lock = w /\ HolderAt = wpc[w]
    BY <1>5 DEF LockInv, HolderAt
  <1>6. ASSUME NEW w \in Writers
        PROVE /\ wpc[w] # "idle" => lock = w
              /\ wpc[w] \in {"delete", "store"} =>
                   /\ index[w] = Last
                   /\ profiler_next_available_index = Last + 1
              /\ wpc[w] = "unlock" => profiler_next_available_index = Last
    BY <1>5, <1>2 DEF Last, LockInv, TypeOK
  <1>7. ASSUME NEW w \in Writers
        PROVE /\ wpc[w] = "delete" =>
                   First = IF Last >= Rows THEN Last - Rows ELSE 0
              /\ wpc[w] = "store" =>
                   First = IF Last + 1 >= Rows THEN Last + 1 - Rows ELSE 0
    <2>1. CASE wpc[w] = "delete"
      BY <2>1, <1>5, <1>2 DEF First
    <2>2. CASE wpc[w] = "store"
      BY <2>2, <1>5, <1>2 DEF First
    <2> QED
      BY <2>1, <2>2
  <1> QED
    BY <1>2, <1>3, <1>4, <1>6, <1>7

\* Every record allocated is where its number says.
LEMMA RecordInItsSlot ==
  ASSUME TypeOK, LockInv, SlotInv, HeapInv, NEW k \in heap
  PROVE  /\ IndexOf(k) \in Slots
         /\ profiler_array[IndexOf(k)] # Null
         /\ profiler_array[IndexOf(k)].seq = k
  <1> DEFINE i == IndexOf(k)
             s == profiler_array[i].seq
  <1>1. k \in Nat /\ First <= k /\ k < Last /\ Last \in Nat /\ Last - Rows <= k
    BY WindowFacts, RowsAssumption DEF HeapInv, First
  <1>2. i \in Slots /\ i <= k
    BY <1>1, IndexRange
  <1>3. profiler_array[i] # Null
    BY <1>1, <1>2, RowsAssumption DEF SlotInv, Slots
  <1>4. s \in Nat /\ IndexOf(s) = i /\ s < Last /\ Last - Rows <= s
    BY <1>2, <1>3 DEF SlotInv, TypeOK, Records
  <1> HIDE DEF s
  <1>5. ~(s < k) /\ ~(k < s)
    BY <1>1, <1>4, SameSlotApart, RowsAssumption
  <1>6. s = k
    BY <1>5, <1>1, <1>4
  <1> QED
    BY <1>2, <1>3, <1>6 DEF s

\* The slot a writer is about to reuse is empty and the ring not yet full, or
\* it holds the oldest entry, which is still allocated.
LEMMA ReusedSlot ==
  ASSUME TypeOK, LockInv, SlotInv, HeapInv, NEW w \in Writers, wpc[w] = "delete"
  PROVE  LET old == profiler_array[IndexOf(index[w])]
         IN  IF old = Null
             THEN Last < Rows
             ELSE /\ Last >= Rows
                  /\ old.seq = Last - Rows
                  /\ old.seq = First
                  /\ old.seq \in heap
  <1> DEFINE i == IndexOf(Last)
             old == profiler_array[i]
  <1>1. index[w] = Last /\ Last \in Nat
    BY WindowFacts
  <1>2. First = IF Last >= Rows THEN Last - Rows ELSE 0
    BY WindowFacts
  <1>3. i \in Slots
    BY <1>1, IndexRange
  <1>4. CASE old = Null
    BY <1>1, <1>3, <1>4, RowsAssumption DEF SlotInv, Slots
  <1>5. CASE old # Null
    <2>1. /\ old.seq \in Nat /\ old.seq < Last /\ Last - Rows <= old.seq
          /\ IndexOf(old.seq) = IndexOf(Last)
      BY <1>3, <1>5 DEF SlotInv, TypeOK, Records
    <2> HIDE DEF old, i
    <2>2. Last - old.seq >= Rows
      BY <2>1, <1>1, SameSlotApart
    <2>3. old.seq = Last - Rows /\ Last >= Rows
      BY <2>1, <2>2, <1>1, RowsAssumption
    <2>4. old.seq = First /\ old.seq \in heap
      BY <2>1, <2>3, <1>1, <1>2, RowsAssumption DEF HeapInv
    <2> QED
      BY <1>1, <1>5, <2>3, <2>4 DEF old, i
  <1> QED
    BY <1>4, <1>5

-----------------------------------------------------------------------------
(* The steps of addProfiler_element keep the invariant.                    *)

LEMMA ClaimKeepsIInv ==
  ASSUME IInv, NEW w \in Writers, Claim(w)
  PROVE  IInv'
  <1> USE RowsAssumption, MaxAddsAssumption, NoWriterAssumption DEF IInv
  <1>1. TypeOK'
    BY DEF TypeOK, Claim, cursorVars
  <1>2. \A v \in Writers : wpc[v] = "idle"
    BY DEF LockInv, Claim
  <1>3. LockInv'
    BY <1>2 DEF LockInv, Claim, TypeOK
  <1>4. Last' = Last /\ First' = First
    <2>1. HolderAt = "idle" /\ HolderAt' = "delete"
      BY DEF HolderAt, Claim, TypeOK
    <2>2. Last' = Last
      BY <2>1 DEF Last, Claim, TypeOK
    <2> QED
      BY <2>1, <2>2 DEF First
  <1>5. SlotInv' /\ HeapInv'
    BY <1>4 DEF SlotInv, HeapInv, Claim
  <1>6. ScanInv' /\ ScanComplete' /\ PositionsFilled'
    BY <1>4 DEF ScanInv, ScanComplete, PositionsFilled, Claim, cursorVars
  <1>7. FetchInv' /\ NoGarbageBeforeWrap'
    BY DEF FetchInv, NoGarbageBeforeWrap, Claim, cursorVars, TypeOK
  <1> QED
    BY <1>1, <1>3, <1>5, <1>6, <1>7

LEMMA DeleteKeepsIInv ==
  ASSUME IInv, NEW w \in Writers, Delete(w)
  PROVE  IInv'
  <1> USE RowsAssumption, MaxAddsAssumption, NoWriterAssumption DEF IInv
  <1> DEFINE old == profiler_array[IndexOf(index[w])]
  <1>1. /\ wpc[w] = "delete" /\ lock = w /\ index[w] = Last
        /\ Last \in Nat /\ profiler_next_available_index = Last + 1
        /\ First = IF Last >= Rows THEN Last - Rows ELSE 0
    BY WindowFacts DEF Delete
  <1>2. /\ old = Null => Last < Rows
        /\ old # Null => Last >= Rows /\ old.seq = First
    BY <1>1, ReusedSlot
  <1>3. heap' = IF old = Null THEN heap ELSE heap \ {old.seq}
    BY DEF Delete
  <1> HIDE DEF old
  <1>4. TypeOK'
    BY <1>3 DEF TypeOK, Delete, cursorVars
  <1>5. LockInv'
    BY <1>1 DEF LockInv, Delete, TypeOK
  <1>6. Last' = Last /\ First' = IF Last + 1 >= Rows THEN Last + 1 - Rows ELSE 0
    <2>1. HolderAt' = "store"
      BY <1>1 DEF HolderAt, Delete, TypeOK
    <2>2. HolderAt = "delete"
      BY <1>1, NoWriterAssumption DEF HolderAt
    <2>3. Last' = Last
      BY <2>1, <2>2 DEF Last, Delete
    <2>4. First' = IF Last' + 1 >= Rows THEN Last' + 1 - Rows ELSE 0
      BY <2>1, <2>3, <1>1 DEF First
    <2> QED
      BY <2>3, <2>4
  <1>7. SlotInv'
    BY <1>6 DEF SlotInv, Delete
  <1>8. HeapInv'
    <2>1. CASE old = Null
      BY <2>1, <1>1, <1>2, <1>3, <1>6 DEF HeapInv
    <2>2. CASE old # Null
      BY <2>2, <1>1, <1>2, <1>3, <1>6 DEF HeapInv
    <2> QED
      BY <2>1, <2>2
  <1>9. heap' \subseteq heap
    BY <1>3
  <1>10. ScanInv' /\ ScanComplete' /\ PositionsFilled'
    <2>1. ScanInv'
      BY <1>6, <1>9 DEF ScanInv, Delete, cursorVars
    <2>2. ScanComplete'
      BY <1>9 DEF ScanComplete, Delete, cursorVars
    <2>3. PositionsFilled'
      BY DEF PositionsFilled, Delete, cursorVars
    <2> QED
      BY <2>1, <2>2, <2>3
  <1>11. FetchInv'
    <2>1. profiler_next_available_index <= Rows => old = Null
      BY <1>1, <1>2
    <2> QED
      BY <2>1, <1>3 DEF FetchInv, Delete, cursorVars
  <1>12. NoGarbageBeforeWrap'
    BY DEF NoGarbageBeforeWrap, Delete, cursorVars
  <1> QED
    BY <1>4, <1>5, <1>7, <1>8, <1>10, <1>11, <1>12

LEMMA StoreKeepsIInv ==
  ASSUME IInv, NEW w \in Writers, NEW a \in Actions, Store(w, a)
  PROVE  IInv'
  <1> USE RowsAssumption, MaxAddsAssumption, NoWriterAssumption DEF IInv
  <1> DEFINE i == IndexOf(Last)
             new == [seq |-> Last, action |-> a]
  <1>1. /\ wpc[w] = "store" /\ lock = w /\ index[w] = Last
        /\ Last \in Nat /\ profiler_next_available_index = Last + 1
        /\ First = IF Last + 1 >= Rows THEN Last + 1 - Rows ELSE 0
    BY WindowFacts DEF Store
  <1>2. /\ profiler_array' = [profiler_array EXCEPT ![i] = new]
        /\ heap' = heap \cup {Last}
    BY <1>1 DEF Store
  <1>3. i \in Slots /\ i <= Last
    BY <1>1, IndexRange
  <1>4. new \in Records /\ new # Null /\ new.seq = Last
    BY <1>1, NullAssumption DEF Records
  <1>5. TypeOK'
    <2>1. profiler_array' \in [Slots -> Records \cup {Null}]
      BY <1>2, <1>4 DEF TypeOK
    <2>2. heap' \in SUBSET (0..(MaxAdds-1))
      BY <1>1, <1>2 DEF TypeOK
    <2> QED
      BY <2>1, <2>2 DEF TypeOK, Store, cursorVars
  <1>6. LockInv'
    BY <1>1 DEF LockInv, Store, TypeOK
  <1>7. Last' = Last + 1 /\ First' = First
    <2>1. HolderAt' = "unlock"
      BY <1>1 DEF HolderAt, Store, TypeOK
    <2>2. Last' = Last + 1
      BY <1>1, <2>1 DEF Last, Store
    <2>3. First' = IF Last' >= Rows THEN Last' - Rows ELSE 0
      BY <2>1 DEF First
    <2> QED
      BY <1>1, <2>2, <2>3
  <1>8. /\ profiler_array'[i] = new
        /\ \A j \in Slots : j # i => profiler_array'[j] = profiler_array[j]
    BY <1>2, <1>3 DEF TypeOK
  <1> HIDE DEF new
  <1>9. SlotInv'
    <2> SUFFICES ASSUME NEW j \in Slots
                 PROVE  IF profiler_array'[j] = Null
                        THEN Last' <= j
                        ELSE /\ IndexOf(profiler_array'[j].seq) = j
                             /\ profiler_array'[j].seq < Last'
                             /\ Last' - Rows <= profiler_array'[j].seq
      BY DEF SlotInv, Slots
    <2>1. CASE j = i
      BY <2>1, <1>1, <1>4, <1>7, <1>8
    <2>2. CASE j # i /\ profiler_array[j] = Null
      <3>1. Last <= j
        BY <2>2 DEF SlotInv
      <3>2. Last # j
        BY <2>2, IndexSmall
      <3> QED
        BY <3>1, <3>2, <2>2, <1>1, <1>7, <1>8 DEF Slots
    <2>3. CASE j # i /\ profiler_array[j] # Null
      <3> DEFINE s == profiler_array[j].seq
      <3>1. /\ s \in Nat /\ IndexOf(s) = j /\ s < Last /\ Last - Rows <= s
            /\ profiler_array'[j] = profiler_array[j]
        BY <2>3, <1>8 DEF SlotInv, TypeOK, Records
      <3>2. s # Last - Rows
        BY <3>1, <2>3, <1>1, SameSlotShift
      <3> QED
        BY <3>1, <3>2, <2>3, <1>1, <1>7
    <2> QED
      BY <2>1, <2>2, <2>3
  <1>10. HeapInv'
    BY <1>1, <1>2, <1>7 DEF HeapInv
  <1>11. ScanInv'
    <2> SUFFICES ASSUME NEW c \in Cursors
                 PROVE
            /\ \A s \in atStart[c] : s < Last'
            /\ \A j \in Slots :
                 /\ j < m_next_pos[c]
                 /\ profiler_array'[j] # Null
                 /\ profiler_array'[j].seq \in atStart[c]
                 /\ profiler_array'[j].seq \in heap'
                 => profiler_array'[j].seq \in got[c]
            /\ rpc[c] = "copying" =>
                 /\ record[c] # Null
                 /\ m_pos[c] \in Slots
                 /\ m_pos[c] = m_next_pos[c]
                 /\ profiler_array'[m_pos[c]] # Null
                 /\ profiler_array'[m_pos[c]].seq \in atStart[c]
                    => record[c].seq = profiler_array'[m_pos[c]].seq
            /\ record[c] # Null => record[c].seq < Last'
      BY DEF ScanInv, Store, cursorVars
    <2>1. \A s \in atStart[c] : s \in Nat /\ s < Last
      BY DEF ScanInv, TypeOK
    <2>2. Last \notin atStart[c]
      BY <2>1, <1>1
    <2>3. \A s \in atStart[c] : s < Last'
      BY <2>1, <1>1, <1>7
    <2>4. ASSUME NEW j \in Slots,
                 j < m_next_pos[c], profiler_array'[j] # Null,
                 profiler_array'[j].seq \in atStart[c],
                 profiler_array'[j].seq \in heap'
          PROVE  profiler_array'[j].seq \in got[c]
      <3>1. j # i
        BY <2>4, <2>2, <1>8, <1>4
      <3>2. profiler_array'[j] = profiler_array[j]
        BY <3>1, <1>8
      <3>3. profiler_array[j].seq \in heap
        BY <2>4, <2>2, <3>2, <1>2
      <3> QED
        BY <2>4, <3>2, <3>3 DEF ScanInv
    <2>5. ASSUME rpc[c] = "copying"
          PROVE  /\ record[c] # Null
                 /\ m_pos[c] \in Slots
                 /\ m_pos[c] = m_next_pos[c]
                 /\ profiler_array'[m_pos[c]] # Null
                 /\ profiler_array'[m_pos[c]].seq \in atStart[c]
                    => record[c].seq = profiler_array'[m_pos[c]].seq
      BY <2>5, <2>2, <1>4, <1>8 DEF ScanInv
    <2>6. record[c] # Null => record[c].seq < Last'
      <3>1. record[c] # Null => record[c].seq \in Nat /\ record[c].seq < Last
        BY DEF ScanInv, TypeOK, Records
      <3> QED
        BY <3>1, <1>1, <1>7
    <2> QED
      BY <2>3, <2>4, <2>5, <2>6
  <1>12. ScanComplete'
    <2>1. \A c \in Cursors : Last \notin atStart[c]
      BY <1>1 DEF ScanInv
    <2> QED
      BY <2>1, <1>2 DEF ScanComplete, Store, cursorVars
  <1>13. PositionsFilled'
    <2>1. \A c \in Cursors : 0..(positions[c]-1) \subseteq Slots
      BY DEF TypeOK, Slots
    <2> QED
      BY <2>1, <1>4, <1>8 DEF PositionsFilled, Store, cursorVars
  <1>14. FetchInv' /\ NoGarbageBeforeWrap'
    BY <1>2 DEF FetchInv, NoGarbageBeforeWrap, Store, cursorVars
  <1> QED
    BY <1>5, <1>6, <1>9, <1>10, <1>11, <1>12, <1>13, <1>14

LEMMA UnlockKeepsIInv ==
  ASSUME IInv, NEW w \in Writers, Unlock(w)
  PROVE  IInv'
  <1> USE RowsAssumption, MaxAddsAssumption, NoWriterAssumption DEF IInv
  <1>1. TypeOK'
    BY DEF TypeOK, Unlock, cursorVars
  <1>2. \A v \in Writers : v # w => wpc[v] = "idle"
    BY DEF LockInv, Unlock
  <1>3. LockInv'
    BY <1>2 DEF LockInv, Unlock, TypeOK
  <1>4. Last' = Last /\ First' = First
    <2>1. HolderAt = "unlock" /\ HolderAt' = "idle"
      BY DEF HolderAt, Unlock, LockInv
    <2>2. Last' = Last
      BY <2>1 DEF Last, Unlock
    <2> QED
      BY <2>1, <2>2 DEF First
  <1>5. SlotInv' /\ HeapInv'
    BY <1>4 DEF SlotInv, HeapInv, Unlock
  <1>6. ScanInv' /\ ScanComplete' /\ PositionsFilled'
    BY <1>4 DEF ScanInv, ScanComplete, PositionsFilled, Unlock, cursorVars
  <1>7. FetchInv' /\ NoGarbageBeforeWrap'
    BY DEF FetchInv, NoGarbageBeforeWrap, Unlock, cursorVars
  <1> QED
    BY <1>1, <1>3, <1>5, <1>6, <1>7

-----------------------------------------------------------------------------
(* The steps of a cursor keep the invariant.                               *)

\* A cursor changes nothing the writers own.
LEMMA CursorLeavesTable ==
  ASSUME IInv, UNCHANGED <<tableVars, writerVars>>
  PROVE  LockInv' /\ SlotInv' /\ HeapInv' /\ Last' = Last
  <1> USE DEF IInv, tableVars, writerVars
  <1>1. Last' = Last /\ First' = First
    BY DEF Last, First, HolderAt
  <1> QED
    BY <1>1 DEF LockInv, SlotInv, HeapInv

LEMMA OpenCloseResetKeepIInv ==
  ASSUME IInv, NEW c \in Cursors, Open(c) \/ Close(c) \/ Reset(c)
  PROVE  IInv'
  <1> USE RowsAssumption DEF IInv, tableVars, writerVars
  <1>1. UNCHANGED <<tableVars, writerVars>>
    BY DEF Open, Close, Reset
  <1>2. LockInv' /\ SlotInv' /\ HeapInv' /\ Last' = Last
    BY <1>1, CursorLeavesTable
  <1>3. CASE Open(c) \/ Reset(c)
    <2>1. TypeOK'
      <3>0. 0 \in 0..Rows
        OBVIOUS
      <3>1. /\ m_pos' \in [Cursors -> 0..Rows]
            /\ m_next_pos' \in [Cursors -> 0..Rows]
        <4>1. /\ m_pos' = [m_pos EXCEPT ![c] = 0]
              /\ m_next_pos' = [m_next_pos EXCEPT ![c] = 0]
          BY <1>3 DEF Open, Reset
        <4> QED
          BY <4>1, <3>0 DEF TypeOK
      <3>2. /\ rpc' \in [Cursors -> {"closed", "open", "copying", "fetching", "eof"}]
            /\ current_row' \in [Cursors -> Actions \cup {Null, Garbage}]
        BY <1>3 DEF TypeOK, Open, Reset
      <3>3. /\ atStart' \in [Cursors -> SUBSET (0..(MaxAdds-1))]
            /\ got' \in [Cursors -> SUBSET (0..(MaxAdds-1))]
        BY <1>3 DEF TypeOK, Open, Reset
      <3> QED
        BY <1>1, <1>3, <3>1, <3>2, <3>3 DEF TypeOK, Open, Reset
    <2>2. ScanInv'
      BY <1>2, <1>3 DEF ScanInv, Open, Reset, TypeOK
    <2>3. ScanComplete' /\ PositionsFilled'
      BY <1>3 DEF ScanComplete, PositionsFilled, Open, Reset, TypeOK
    <2>4. FetchInv' /\ NoGarbageBeforeWrap'
      BY <1>3, GarbageAssumption
         DEF FetchInv, NoGarbageBeforeWrap, Open, Reset, TypeOK
    <2> QED
      BY <1>2, <2>1, <2>2, <2>3, <2>4
  <1>4. CASE Close(c)
    <2>1. TypeOK'
      BY <1>4 DEF TypeOK, Close
    <2>2. ScanInv'
      BY <1>2, <1>4 DEF ScanInv, Close, TypeOK
    <2>3. ScanComplete' /\ PositionsFilled'
      BY <1>4 DEF ScanComplete, PositionsFilled, Close, TypeOK
    <2>4. FetchInv' /\ NoGarbageBeforeWrap'
      BY <1>4 DEF FetchInv, NoGarbageBeforeWrap, Close
    <2> QED
      BY <1>2, <2>1, <2>2, <2>3, <2>4
  <1> QED
    BY <1>3, <1>4

\* Before the ring wraps, what a slot points to is allocated.
LEMMA UnwrappedSlots ==
  ASSUME TypeOK, LockInv, SlotInv, HeapInv,
         profiler_next_available_index <= Rows
  PROVE  \A i \in Slots :
           profiler_array[i] # Null => profiler_array[i].seq \in heap
  <1>1. Last \in Nat /\ Last <= profiler_next_available_index
    BY WindowFacts
  <1>2. HolderAt = "store" => Last + 1 <= Rows
    BY <1>1, RowsAssumption DEF Last, TypeOK
  <1>3. First = 0
    BY <1>1, <1>2, RowsAssumption DEF First, TypeOK
  <1> QED
    BY <1>1, <1>3 DEF SlotInv, HeapInv, TypeOK, Records

LEMMA RndNextKeepsIInv ==
  ASSUME IInv, NEW c \in Cursors, RndNext(c)
  PROVE  IInv'
  <1> USE RowsAssumption DEF IInv, tableVars, writerVars
  <1> DEFINE p == m_next_pos[c]
             found == p \in Slots /\ profiler_array[p] # Null
  <1>1. UNCHANGED <<tableVars, writerVars>>
    BY DEF RndNext
  <1>2. LockInv' /\ SlotInv' /\ HeapInv' /\ Last' = Last
    BY <1>1, CursorLeavesTable
  <1>3. /\ p \in 0..Rows
        /\ rpc[c] = "open"
        /\ m_pos' = [m_pos EXCEPT ![c] = p]
        /\ rpc' = [rpc EXCEPT ![c] = IF found THEN "copying" ELSE "eof"]
        /\ record' = [record EXCEPT ![c] =
                         IF found THEN profiler_array[p] ELSE Null]
        /\ atStart' = [atStart EXCEPT ![c] =
                          IF p = 0 THEN InTable \cap heap ELSE atStart[c]]
        /\ UNCHANGED <<m_next_pos, current_row, positions, got>>
    BY DEF RndNext, TypeOK
  <1>4. p \in Slots => profiler_array[p] \in Records \cup {Null}
    BY DEF TypeOK
  <1>5. \A s \in heap : s \in Nat /\ s < Last
    BY WindowFacts DEF HeapInv
  <1>6. found => profiler_array[p].seq \in Nat /\ profiler_array[p].seq < Last
    BY <1>4 DEF SlotInv, Records
  <1> HIDE DEF p, found
  <1>7. TypeOK'
    <2>1. /\ m_pos' \in [Cursors -> 0..Rows]
          /\ rpc' \in [Cursors -> {"closed", "open", "copying", "fetching", "eof"}]
      BY <1>3 DEF TypeOK
    <2>2. record' \in [Cursors -> Records \cup {Null}]
      BY <1>3, <1>4 DEF TypeOK, found
    <2>3. atStart' \in [Cursors -> SUBSET (0..(MaxAdds-1))]
      BY <1>3 DEF TypeOK
    <2> QED
      BY <2>1, <2>2, <2>3, <1>1, <1>3 DEF TypeOK
  <1>8. ScanInv'
    <2> SUFFICES ASSUME NEW d \in Cursors
                 PROVE
            /\ \A s \in atStart'[d] : s < Last
            /\ \A i \in Slots :
                 /\ i < m_next_pos[d]
                 /\ profiler_array[i] # Null
                 /\ profiler_array[i].seq \in atStart'[d]
                 /\ profiler_array[i].seq \in heap
                 => profiler_array[i].seq \in got[d]
            /\ rpc'[d] = "copying" =>
                 /\ record'[d] # Null
                 /\ m_pos'[d] \in Slots
                 /\ m_pos'[d] = m_next_pos[d]
                 /\ profiler_array[m_pos'[d]] # Null
                 /\ profiler_array[m_pos'[d]].seq \in atStart'[d]
                    => record'[d].seq = profiler_array[m_pos'[d]].seq
            /\ record'[d] # Null => record'[d].seq < Last
      BY <1>1, <1>2, <1>3 DEF ScanInv, Slots
    <2>1. CASE d # c
      <3>1. /\ atStart'[d] = atStart[d] /\ rpc'[d] = rpc[d]
            /\ record'[d] = record[d] /\ m_pos'[d] = m_pos[d]
        BY <2>1, <1>3 DEF TypeOK
      <3> QED
        BY <3>1 DEF ScanInv
    <2>2. CASE d = c
      <3>1. /\ atStart'[d] = IF p = 0 THEN InTable \cap heap ELSE atStart[c]
            /\ rpc'[d] = IF found THEN "copying" ELSE "eof"
            /\ record'[d] = IF found THEN profiler_array[p] ELSE Null
            /\ m_pos'[d] = p
        BY <2>2, <1>3 DEF TypeOK
      <3>2. \A s \in atStart'[d] : s < Last
        BY <3>1, <1>5 DEF ScanInv
      <3>3. CASE p = 0
        BY <3>1, <3>2, <3>3, <2>2, <1>6 DEF p, found, Slots
      <3>4. CASE p # 0
        BY <3>1, <3>2, <3>4, <2>2, <1>6 DEF p, found, ScanInv
      <3> QED
        BY <3>3, <3>4
    <2> QED
      BY <2>1, <2>2
  <1>9. ScanComplete'
    <2> SUFFICES ASSUME NEW d \in Cursors, rpc'[d] = "eof",
                        NEW s \in atStart'[d] \cap heap
                 PROVE  s \in got[d]
      BY <1>1, <1>3 DEF ScanComplete
    <2>1. CASE d # c
      BY <2>1, <1>3 DEF ScanComplete, TypeOK
    <2>2. CASE d = c
      <3>1. ~found
        BY <2>2, <1>3 DEF TypeOK
      <3>2. /\ IndexOf(s) \in Slots /\ IndexOf(s) <= s
            /\ profiler_array[IndexOf(s)] # Null
            /\ profiler_array[IndexOf(s)].seq = s
            /\ s \in Nat /\ s < Last /\ Last \in Nat
        BY RecordInItsSlot, <1>5, IndexRange, WindowFacts
      <3>3. IndexOf(s) < p
        <4>1. CASE p = Rows
          BY <4>1, <3>2 DEF Slots
        <4>2. CASE p # Rows
          <5>1. p \in Slots /\ profiler_array[p] = Null
            BY <4>2, <3>1, <1>3 DEF found, Slots
          <5>2. Last <= p
            BY <5>1 DEF SlotInv
          <5> QED
            BY <5>1, <5>2, <3>2 DEF Slots
        <4> QED
          BY <4>1, <4>2
      <3>4. p # 0
        BY <3>2, <3>3 DEF Slots
      <3>5. s \in atStart[c]
        BY <3>4, <2>2, <1>3 DEF TypeOK
      <3> QED
        BY <3>2, <3>3, <3>5, <2>2 DEF ScanInv, p
    <2> QED
      BY <2>1, <2>2
  <1>10. PositionsFilled'
    BY <1>1, <1>3 DEF PositionsFilled
  <1>11. FetchInv'
    BY <1>1, <1>3, UnwrappedSlots DEF FetchInv, TypeOK, found
  <1>12. NoGarbageBeforeWrap'
    BY <1>1, <1>3 DEF NoGarbageBeforeWrap
  <1> QED
    BY <1>2, <1>7, <1>8, <1>9, <1>10, <1>11, <1>12

\* What a copy through a fetched pointer puts in the row buffer: before the
\* ring wraps, an action.
LEMMA FetchedContents ==
  ASSUME IInv, NEW c \in Cursors, record[c] # Null, NEW row \in Contents(record[c])
  PROVE  /\ row \in Actions \cup {Garbage}
         /\ profiler_next_available_index <= Rows => row # Garbage
  BY GarbageAssumption DEF IInv, TypeOK, Records, Contents, FetchInv

LEMMA CopyNextKeepsIInv ==
  ASSUME IInv, NEW c \in Cursors, CopyNext(c)
  PROVE  IInv'
  <1> USE RowsAssumption DEF IInv, tableVars, writerVars
  <1>1. UNCHANGED <<tableVars, writerVars>>
    BY DEF CopyNext, CopyAndAdvance
  <1>2. LockInv' /\ SlotInv' /\ HeapInv' /\ Last' = Last
    BY <1>1, CursorLeavesTable
  <1> DEFINE p == m_pos[c]
             seq == record[c].seq
  <1>3. PICK row \in Contents(record[c]) :
          current_row' = [current_row EXCEPT ![c] = row]
    BY DEF CopyNext, CopyAndAdvance
  <1>4. /\ rpc[c] = "copying"
        /\ m_next_pos' = [m_next_pos EXCEPT ![c] = p + 1]
        /\ positions' = [positions EXCEPT ![c] = p + 1]
        /\ got' = [got EXCEPT ![c] = got[c] \cup {seq}]
        /\ record' = [record EXCEPT ![c] = Null]
        /\ rpc' = [rpc EXCEPT ![c] = "open"]
        /\ UNCHANGED <<m_pos, atStart>>
    BY DEF CopyNext, CopyAndAdvance
  <1>5. /\ record[c] # Null /\ p \in Slots /\ p = m_next_pos[c]
        /\ profiler_array[p] # Null
        /\ profiler_array[p].seq \in atStart[c] => seq = profiler_array[p].seq
    BY <1>4 DEF ScanInv
  <1>6. seq \in 0..(MaxAdds-1)
    <2>1. seq \in Nat /\ seq < Last
      BY <1>5 DEF ScanInv, TypeOK, Records
    <2>2. Last \in Nat /\ Last <= profiler_next_available_index
      BY WindowFacts
    <2> QED
      BY <2>1, <2>2, MaxAddsAssumption DEF TypeOK
  <1>7. p + 1 \in 0..Rows
    BY <1>5 DEF Slots
  <1> HIDE DEF seq
  <1>8. row \in Actions \cup {Garbage}
        /\ (profiler_next_available_index <= Rows => row # Garbage)
    BY <1>5, FetchedContents
  <1>9. TypeOK'
    <2>1. m_next_pos' \in [Cursors -> 0..Rows] /\ positions' \in [Cursors -> 0..Rows]
      BY <1>4, <1>7 DEF TypeOK
    <2>2. current_row' \in [Cursors -> Actions \cup {Null, Garbage}]
      BY <1>3, <1>8 DEF TypeOK
    <2>3. got' \in [Cursors -> SUBSET (0..(MaxAdds-1))]
      BY <1>4, <1>6 DEF TypeOK
    <2>4. /\ record' \in [Cursors -> Records \cup {Null}]
          /\ rpc' \in [Cursors -> {"closed", "open", "copying", "fetching", "eof"}]
      BY <1>4 DEF TypeOK
    <2> QED
      BY <2>1, <2>2, <2>3, <2>4, <1>1, <1>4 DEF TypeOK
  <1>10. ScanInv'
    <2> SUFFICES ASSUME NEW d \in Cursors
                 PROVE
            /\ \A s \in atStart[d] : s < Last
            /\ \A i \in Slots :
                 /\ i < m_next_pos'[d]
                 /\ profiler_array[i] # Null
                 /\ profiler_array[i].seq \in atStart[d]
                 /\ profiler_array[i].seq \in heap
                 => profiler_array[i].seq \in got'[d]
            /\ rpc'[d] = "copying" =>
                 /\ record'[d] # Null
                 /\ m_pos[d] \in Slots
                 /\ m_pos[d] = m_next_pos'[d]
                 /\ profiler_array[m_pos[d]] # Null
                 /\ profiler_array[m_pos[d]].seq \in atStart[d]
                    => record'[d].seq = profiler_array[m_pos[d]].seq
            /\ record'[d] # Null => record'[d].seq < Last
      BY <1>1, <1>2, <1>4 DEF ScanInv, Slots
    <2>1. CASE d # c
      <3>1. /\ m_next_pos'[d] = m_next_pos[d] /\ rpc'[d] = rpc[d]
            /\ record'[d] = record[d] /\ got'[d] = got[d]
        BY <2>1, <1>4 DEF TypeOK
      <3> QED
        BY <3>1 DEF ScanInv
    <2>2. CASE d = c
      <3>1. /\ m_next_pos'[d] = p + 1 /\ rpc'[d] = "open"
            /\ record'[d] = Null /\ got'[d] = got[d] \cup {seq}
        BY <2>2, <1>4 DEF TypeOK
      <3>2. ASSUME NEW i \in Slots, i < p + 1, profiler_array[i] # Null,
                   profiler_array[i].seq \in atStart[d],
                   profiler_array[i].seq \in heap
            PROVE  profiler_array[i].seq \in got'[d]
        <4>1. CASE i = p
          BY <4>1, <3>1, <3>2, <2>2, <1>5
        <4>2. CASE i # p
          BY <4>2, <3>1, <3>2, <2>2, <1>5 DEF ScanInv, Slots
        <4> QED
          BY <4>1, <4>2
      <3>3. \A s \in atStart[d] : s < Last
        BY DEF ScanInv
      <3> QED
        BY <3>1, <3>2, <3>3
    <2> QED
      BY <2>1, <2>2
  <1>11. ScanComplete'
    BY <1>1, <1>4 DEF ScanComplete, TypeOK
  <1>12. PositionsFilled'
    <2> SUFFICES ASSUME NEW d \in Cursors, NEW i \in 0..(positions'[d]-1)
                 PROVE  profiler_array[i] # Null
      BY <1>1 DEF PositionsFilled
    <2>1. CASE d # c
      BY <2>1, <1>4 DEF PositionsFilled, TypeOK
    <2>2. CASE d = c
      <3>1. i \in Slots /\ i <= p
        BY <2>2, <1>4, <1>5 DEF TypeOK, Slots
      <3>2. Last > p
        <4> DEFINE s == profiler_array[p].seq
        <4>1. s \in Nat /\ IndexOf(s) = p /\ s < Last
          BY <1>5 DEF SlotInv, TypeOK, Records
        <4>2. p <= s
          BY <4>1, IndexRange
        <4> QED
          BY <4>1, <4>2, <1>5, WindowFacts DEF Slots
      <3> QED
        BY <3>1, <3>2, <1>5, WindowFacts DEF SlotInv, Slots
    <2> QED
      BY <2>1, <2>2
  <1>13. FetchInv'
    BY <1>1, <1>4 DEF FetchInv, TypeOK
  <1>14. NoGarbageBeforeWrap'
    BY <1>1, <1>3, <1>8 DEF NoGarbageBeforeWrap, TypeOK
  <1> QED
    BY <1>2, <1>9, <1>10, <1>11, <1>12, <1>13, <1>14

LEMMA FetchKeepsIInv ==
  ASSUME IInv, NEW c \in Cursors, NEW p \in Slots, RndPos(c, p)
  PROVE  IInv'
  <1> USE RowsAssumption DEF IInv, tableVars, writerVars
  <1>1. UNCHANGED <<tableVars, writerVars>>
    BY DEF RndPos
  <1>2. LockInv' /\ SlotInv' /\ HeapInv' /\ Last' = Last
    BY <1>1, CursorLeavesTable
  <1>3. /\ m_pos' = [m_pos EXCEPT ![c] = p]
        /\ record' = [record EXCEPT ![c] = profiler_array[p]]
        /\ rpc[c] = "open"
        /\ rpc' = [rpc EXCEPT ![c] = "fetching"]
        /\ UNCHANGED <<m_next_pos, current_row, positions, atStart, got>>
    BY DEF RndPos
  <1>4. /\ profiler_array[p] \in Records \cup {Null}
        /\ profiler_array[p] # Null => profiler_array[p].seq < Last
    BY DEF TypeOK, SlotInv
  <1>5. TypeOK'
    <2>1. m_pos' \in [Cursors -> 0..Rows]
      BY <1>3 DEF TypeOK, Slots
    <2>2. record' \in [Cursors -> Records \cup {Null}]
      BY <1>3, <1>4 DEF TypeOK
    <2>3. rpc' \in [Cursors -> {"closed", "open", "copying", "fetching", "eof"}]
      BY <1>3 DEF TypeOK
    <2> QED
      BY <1>1, <1>3, <2>1, <2>2, <2>3 DEF TypeOK
  <1>6. ScanInv'
    BY <1>1, <1>2, <1>3, <1>4 DEF ScanInv, TypeOK
  <1>7. ScanComplete' /\ PositionsFilled'
    BY <1>1, <1>3 DEF ScanComplete, PositionsFilled, TypeOK
  <1>8. FetchInv' /\ NoGarbageBeforeWrap'
    BY <1>1, <1>3, UnwrappedSlots DEF FetchInv, NoGarbageBeforeWrap, TypeOK
  <1> QED
    BY <1>2, <1>5, <1>6, <1>7, <1>8

LEMMA CopyPosKeepsIInv ==
  ASSUME IInv, NEW c \in Cursors, CopyPos(c)
  PROVE  IInv'
  <1> USE RowsAssumption DEF IInv, tableVars, writerVars
  <1>1. UNCHANGED <<tableVars, writerVars>>
    BY DEF CopyPos
  <1>2. LockInv' /\ SlotInv' /\ HeapInv' /\ Last' = Last
    BY <1>1, CursorLeavesTable
  <1>3. /\ rpc[c] = "fetching"
        /\ record' = [record EXCEPT ![c] = Null]
        /\ rpc' = [rpc EXCEPT ![c] = "open"]
        /\ UNCHANGED <<m_pos, m_next_pos, positions, atStart, got>>
    BY DEF CopyPos
  <1>4. \/ current_row' = current_row
        \/ \E row \in Actions \cup {Garbage} :
             /\ current_row' = [current_row EXCEPT ![c] = row]
             /\ profiler_next_available_index <= Rows => row # Garbage
    BY FetchedContents DEF CopyPos
  <1>5. TypeOK'
    <2>1. current_row' \in [Cursors -> Actions \cup {Null, Garbage}]
      BY <1>4 DEF TypeOK
    <2>2. /\ record' \in [Cursors -> Records \cup {Null}]
          /\ rpc' \in [Cursors -> {"closed", "open", "copying", "fetching", "eof"}]
      BY <1>3 DEF TypeOK
    <2> QED
      BY <1>1, <1>3, <2>1, <2>2 DEF TypeOK
  <1>6. ScanInv'
    BY <1>1, <1>2, <1>3 DEF ScanInv, TypeOK
  <1>7. ScanComplete' /\ PositionsFilled'
    BY <1>1, <1>3 DEF ScanComplete, PositionsFilled, TypeOK
  <1>8. FetchInv'
    BY <1>1, <1>3 DEF FetchInv, TypeOK
  <1>9. NoGarbageBeforeWrap'
    BY <1>1, <1>4 DEF NoGarbageBeforeWrap, TypeOK
  <1> QED
    BY <1>2, <1>5, <1>6, <1>7, <1>8, <1>9

-----------------------------------------------------------------------------
(* The theorems.                                                           *)

LEMMA NextKeepsIInv == IInv /\ [Next]_vars => IInv'
  <1> SUFFICES ASSUME IInv, [Next]_vars
               PROVE  IInv'
    OBVIOUS
  <1>1. ASSUME NEW w \in Writers, Writer(w)
        PROVE  IInv'
    BY <1>1, ClaimKeepsIInv, DeleteKeepsIInv, StoreKeepsIInv, UnlockKeepsIInv
       DEF Writer
  <1>2. ASSUME NEW c \in Cursors, Cursor(c)
        PROVE  IInv'
    BY <1>2, OpenCloseResetKeepIInv, RndNextKeepsIInv, CopyNextKeepsIInv,
       FetchKeepsIInv, CopyPosKeepsIInv
       DEF Cursor, Fetch
  <1>3. CASE UNCHANGED vars
    <2>1. UNCHANGED <<tableVars, writerVars>>
      BY <1>3 DEF vars
    <2>2. LockInv' /\ SlotInv' /\ HeapInv' /\ Last' = Last
      BY <2>1, CursorLeavesTable
    <2>3. TypeOK'
      BY <1>3 DEF IInv, TypeOK, vars, tableVars, writerVars, cursorVars
    <2>4. ScanInv' /\ ScanComplete' /\ PositionsFilled'
      BY <1>3, <2>2 DEF IInv, ScanInv, ScanComplete, PositionsFilled,
                        vars, tableVars, cursorVars
    <2>5. FetchInv' /\ NoGarbageBeforeWrap'
      BY <1>3 DEF IInv, FetchInv, NoGarbageBeforeWrap, vars, tableVars, cursorVars
    <2> QED
      BY <2>2, <2>3, <2>4, <2>5 DEF IInv
  <1> QED
    BY <1>1, <1>2, <1>3 DEF Next

LEMMA Invariance == Spec => []IInv
  BY InitIInv, NextKeepsIInv, PTL DEF Spec

\* Every variable of the table, its writers and its cursors keeps its type;
\* in particular no cursor leaves the ring.
THEOREM TypeCorrect == Spec => []TypeOK
  <1>1. IInv => TypeOK
    BY DEF IInv
  <1> QED
    BY <1>1, Invariance, PTL

\* addProfiler_element neither leaks nor loses a record: whatever is under
\* way, the records allocated are the latest, each in its slot.
THEOREM HoldsLatest == Spec => []HeapHoldsLatest
  <1>1. IInv => HeapHoldsLatest
    BY RecordInItsSlot DEF IInv, HeapHoldsLatest, HeapInv
  <1> QED
    BY <1>1, Invariance, PTL

\* The record addProfiler_element deletes has not been deleted before.
THEOREM DeletesOnce == Spec => []NoDoubleFree
  <1>1. IInv => NoDoubleFree
    BY ReusedSlot DEF IInv, NoDoubleFree
  <1> QED
    BY <1>1, Invariance, PTL

\* profiler_rnd_next, without a lock, still returns every record that is in
\* the table from the beginning to the end of a scan.
THEOREM ScansAreComplete == Spec => []ScanComplete
  <1>1. IInv => ScanComplete
    BY DEF IInv
  <1> QED
    BY <1>1, Invariance, PTL

\* profiler_rnd_pos always finds a row at a position it is given.
THEOREM PositionsStayFilled == Spec => []PositionsFilled
  <1>1. IInv => PositionsFilled
    BY DEF IInv
  <1> QED
    BY <1>1, Invariance, PTL

\* The unlocked reads copy no deleted record before the ring wraps.
THEOREM SafeBeforeWrap == Spec => []NoGarbageBeforeWrap
  <1>1. IInv => NoGarbageBeforeWrap
    BY DEF IInv
  <1> QED
    BY <1>1, Invariance, PTL

-----------------------------------------------------------------------------
(* What a step may do to a slot, and to the log.                           *)

\* Only Store changes the array, and it puts entry Last into an empty slot or
\* over entry First.
LEMMA StoreEffect ==
  ASSUME IInv, NEW w \in Writers, NEW a \in Actions, Store(w, a)
  PROVE  /\ index[w] = Last /\ Last \in Nat
         /\ IndexOf(Last) \in Slots
         /\ profiler_array' = [profiler_array EXCEPT
                                 ![IndexOf(Last)] = [seq |-> Last, action |-> a]]
         /\ Last' = Last + 1 /\ First' = First
         /\ First = IF Last + 1 >= Rows THEN Last + 1 - Rows ELSE 0
  <1>1. /\ wpc[w] = "store" /\ lock = w /\ index[w] = Last
        /\ Last \in Nat /\ profiler_next_available_index = Last + 1
        /\ First = IF Last + 1 >= Rows THEN Last + 1 - Rows ELSE 0
    BY WindowFacts DEF Store, IInv
  <1>2. HolderAt' = "unlock"
    BY <1>1, NoWriterAssumption DEF HolderAt, Store, IInv, TypeOK
  <1>3. Last' = Last + 1
    BY <1>1, <1>2 DEF Last, Store
  <1>4. First' = IF Last' >= Rows THEN Last' - Rows ELSE 0
    BY <1>2 DEF First
  <1>5. First' = First
    BY <1>1, <1>3, <1>4, RowsAssumption
  <1>6. IndexOf(Last) \in Slots
    BY <1>1, IndexRange
  <1> QED
    BY <1>1, <1>3, <1>5, <1>6 DEF Store

\* A slot, once filled, stays filled and only moves on to newer records.
THEOREM SlotsAdvance == Spec => SlotsOnlyAdvance
  <1> DEFINE Advance ==
        \A i \in Slots : profiler_array[i] # Null =>
          /\ profiler_array'[i] # Null
          /\ profiler_array'[i].seq >= profiler_array[i].seq
  <1>1. IInv /\ [Next]_vars => [Advance]_vars
    <2> SUFFICES ASSUME IInv, Next
                 PROVE  Advance
      BY DEF vars
    <2>1. CASE UNCHANGED profiler_array
      BY <2>1 DEF IInv, TypeOK, Records
    <2>2. ASSUME NEW w \in Writers, NEW a \in Actions, Store(w, a)
          PROVE  Advance
      <3> SUFFICES ASSUME NEW i \in Slots, profiler_array[i] # Null
                   PROVE  /\ profiler_array'[i] # Null
                          /\ profiler_array'[i].seq >= profiler_array[i].seq
        OBVIOUS
      <3>1. profiler_array[i].seq \in Nat /\ profiler_array[i].seq < Last
        BY DEF IInv, SlotInv, TypeOK, Records
      <3>2. CASE i = IndexOf(Last)
        <4>1. profiler_array'[i] = [seq |-> Last, action |-> a]
          BY <3>2, <2>2, StoreEffect DEF IInv, TypeOK
        <4>2. Last \in Nat
          BY <2>2, StoreEffect
        <4> QED
          BY <4>1, <4>2, <3>1, NullAssumption
      <3>3. CASE i # IndexOf(Last)
        BY <3>3, <3>1, <2>2, StoreEffect DEF IInv, TypeOK
      <3> QED
        BY <3>2, <3>3
    <2>3. ASSUME NEW w \in Writers, Writer(w)
          PROVE  Advance
      <3>1. CASE Claim(w) \/ Delete(w) \/ Unlock(w)
        BY <3>1, <2>1 DEF Claim, Delete, Unlock
      <3> QED
        BY <3>1, <2>2, <2>3 DEF Writer
    <2>4. ASSUME NEW c \in Cursors, Cursor(c)
          PROVE  Advance
      BY <2>4, <2>1 DEF Cursor, Open, Close, Reset, RndNext, CopyNext,
                        CopyAndAdvance, Fetch, RndPos, CopyPos, tableVars
    <2> QED
      BY <2>3, <2>4 DEF Next
  <1> QED
    BY <1>1, Invariance, PTL DEF Spec, SlotsOnlyAdvance

LEMMA LogInitially == Init => Log!Init
  <1> SUFFICES ASSUME Init PROVE Log!Init
    OBVIOUS
  <1>1. Last = 0 /\ First = 0
    BY RowsAssumption DEF Init, Last, First, HolderAt
  <1> QED
    BY <1>1 DEF Log!Init, KeptLog

\* A step that leaves the array and the window alone is a stutter of the log.
LEMMA LogStutters ==
  ASSUME UNCHANGED profiler_array, Last' = Last, First' = First
  PROVE  UNCHANGED <<First, Last, KeptLog>>
  BY DEF KeptLog, ActionAt

LEMMA DeleteIsEvict ==
  ASSUME IInv, NEW w \in Writers, Delete(w)
  PROVE  Log!Evict \/ UNCHANGED <<First, Last, KeptLog>>
  <1>1. /\ wpc[w] = "delete" /\ lock = w /\ Last \in Nat /\ First \in Nat
        /\ profiler_next_available_index = Last + 1
        /\ First = IF Last >= Rows THEN Last - Rows ELSE 0
    BY WindowFacts DEF Delete, IInv
  <1>2. HolderAt = "delete" /\ HolderAt' = "store"
    BY <1>1, NoWriterAssumption DEF HolderAt, Delete, IInv, TypeOK
  <1>3. Last' = Last
    BY <1>2 DEF Last, Delete
  <1>4. First' = IF Last + 1 >= Rows THEN Last + 1 - Rows ELSE 0
    BY <1>1, <1>2, <1>3, RowsAssumption DEF First
  <1>5. UNCHANGED profiler_array
    BY DEF Delete
  <1>6. CASE Last < Rows
    BY <1>1, <1>3, <1>4, <1>5, <1>6, LogStutters, RowsAssumption
  <1>7. CASE Last >= Rows
    <2>1. Last - First = Rows /\ First' = First + 1
      BY <1>1, <1>4, <1>7, RowsAssumption
    <2>2. KeptLog' = [k \in First'..(Last-1) |-> KeptLog[k]]
      <3>1. KeptLog' = [k \in First'..(Last-1) |-> ActionAt(k % Rows)]
        BY <1>3, <1>5 DEF KeptLog, ActionAt
      <3>2. \A k \in First'..(Last-1) : KeptLog[k] = ActionAt(k % Rows)
        BY <2>1, <1>1 DEF KeptLog
      <3> QED
        BY <3>1, <3>2
    <2> QED
      BY <2>1, <2>2, <1>3 DEF Log!Evict
  <1> QED
    BY <1>1, <1>6, <1>7, RowsAssumption

LEMMA StoreIsRecord ==
  ASSUME IInv, NEW w \in Writers, NEW a \in Actions, Store(w, a)
  PROVE  Log!Record(a)
  <1> DEFINE new == [seq |-> Last, action |-> a]
  <1>1. /\ Last \in Nat /\ IndexOf(Last) \in Slots
        /\ profiler_array' = [profiler_array EXCEPT ![IndexOf(Last)] = new]
        /\ Last' = Last + 1 /\ First' = First
        /\ First = IF Last + 1 >= Rows THEN Last + 1 - Rows ELSE 0
    BY StoreEffect
  <1>2. First \in Nat /\ Last - First < Rows
    BY <1>1, RowsAssumption
  <1>3. new # Null /\ new.action = a
    BY <1>1, NullAssumption
  <1> HIDE DEF new
  <1>4. ASSUME NEW i \in Slots, i = IndexOf(Last)
        PROVE  ActionAt(i)' = a
    BY <1>1, <1>3, <1>4 DEF ActionAt, IInv, TypeOK
  <1>5. ASSUME NEW k \in First..(Last-1)
        PROVE  /\ ActionAt(k % Rows)' = ActionAt(k % Rows)
               /\ KeptLog[k] = ActionAt(k % Rows)
    <2>1. k \in Nat /\ k < Last /\ Last - k < Rows
      BY <1>1, <1>2, RowsAssumption
    <2>2. IndexOf(k) \in Slots /\ IndexOf(k) # IndexOf(Last)
      BY <2>1, <1>1, SameSlotApart, IndexRange, RowsAssumption
    <2> QED
      BY <2>1, <2>2, <1>1 DEF ActionAt, KeptLog, IndexOf, IInv, TypeOK
  <1>6. KeptLog' = [k \in First..Last |-> IF k = Last THEN a ELSE KeptLog[k]]
    <2>1. KeptLog' = [k \in First..Last |-> ActionAt(k % Rows)']
      BY <1>1 DEF KeptLog, ActionAt
    <2>2. \A k \in First..Last :
            ActionAt(k % Rows)' = IF k = Last THEN a ELSE KeptLog[k]
      <3> SUFFICES ASSUME NEW k \in First..Last
                   PROVE  ActionAt(k % Rows)' = IF k = Last THEN a ELSE KeptLog[k]
        OBVIOUS
      <3>1. CASE k = Last
        BY <3>1, <1>1, <1>4 DEF IndexOf
      <3>2. CASE k # Last
        BY <3>2, <1>1, <1>2, <1>5
      <3> QED
        BY <3>1, <3>2
    <2> QED
      BY <2>1, <2>2
  <1> QED
    BY <1>1, <1>2, <1>6 DEF Log!Record

\* The ring of profiler_pfs.cc is a log of the most recent Rows actions.
THEOREM RingImplementsLog == Spec => ImplementsLog
  <1>1. IInv /\ [Next]_vars => [Log!Next]_(Log!vars)
    <2> SUFFICES ASSUME IInv, [Next]_vars
                 PROVE  Log!Next \/ UNCHANGED <<First, Last, KeptLog>>
      BY DEF Log!vars
    <2>1. ASSUME NEW w \in Writers, Claim(w)
          PROVE  UNCHANGED <<First, Last, KeptLog>>
      <3>1. HolderAt = "idle" /\ HolderAt' = "delete"
        BY <2>1, NoWriterAssumption DEF HolderAt, Claim, IInv, TypeOK
      <3>2. Last' = Last
        BY <2>1, <3>1 DEF Last, Claim, IInv, TypeOK
      <3>3. First' = First
        BY <3>1, <3>2 DEF First
      <3> QED
        BY <2>1, <3>2, <3>3, LogStutters DEF Claim
    <2>2. ASSUME NEW w \in Writers, Delete(w)
          PROVE  Log!Next \/ UNCHANGED <<First, Last, KeptLog>>
      BY <2>2, DeleteIsEvict DEF Log!Next
    <2>3. ASSUME NEW w \in Writers, NEW a \in Actions, Store(w, a)
          PROVE  Log!Next
      BY <2>3, StoreIsRecord DEF Log!Next
    <2>4. ASSUME NEW w \in Writers, Unlock(w)
          PROVE  UNCHANGED <<First, Last, KeptLog>>
      <3>1. HolderAt = "unlock" /\ HolderAt' = "idle"
        BY <2>4, NoWriterAssumption DEF HolderAt, Unlock, LockInv, IInv
      <3>2. Last' = Last
        BY <2>4, <3>1 DEF Last, Unlock
      <3>3. First' = First
        BY <3>1, <3>2 DEF First
      <3> QED
        BY <2>4, <3>2, <3>3, LogStutters DEF Unlock
    <2>5. CASE UNCHANGED <<tableVars, writerVars>>
      <3>1. Last' = Last /\ First' = First
        BY <2>5 DEF Last, First, HolderAt, tableVars, writerVars
      <3> QED
        BY <2>5, <3>1, LogStutters DEF tableVars
    <2>6. ASSUME NEW c \in Cursors, Cursor(c)
          PROVE  UNCHANGED <<tableVars, writerVars>>
      BY <2>6 DEF Cursor, Open, Close, Reset, RndNext, CopyNext,
                  CopyAndAdvance, Fetch, RndPos, CopyPos, tableVars, writerVars
    <2>7. UNCHANGED vars => UNCHANGED <<tableVars, writerVars>>
      BY DEF vars
    <2> QED
      BY <2>1, <2>2, <2>3, <2>4, <2>5, <2>6, <2>7 DEF Next, Writer
  <1> QED
    BY <1>1, LogInitially, Invariance, PTL DEF Spec, ImplementsLog, Log!Spec

=============================================================================
