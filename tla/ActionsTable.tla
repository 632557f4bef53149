---------------------------- MODULE ActionsTable ----------------------------
(***************************************************************************)
(* profiler_pfs.cc: the ring of pointers to records behind the table       *)
(* performance_schema.profiler_actions.                                    *)
(*                                                                         *)
(* Writers are the sessions and timer threads that call                    *)
(* addProfiler_element; they hold LOCK_profiler_data while they do.        *)
(* Cursors are the table handles of the statements that read the table;    *)
(* they take no lock, so each of their calls is split where the code reads *)
(* shared memory: the pointer is fetched from the array in one step, the   *)
(* record behind it is copied in the next.                                 *)
(*                                                                         *)
(* A record is identified by its number, the value                         *)
(* profiler_next_available_index had when its slot was claimed.  The array *)
(* holds pointers: a slot keeps its value when the record it points to is  *)
(* deleted, and heap says which records are still allocated.               *)
(***************************************************************************)
EXTENDS Integers, FiniteSets

CONSTANTS Writers,    \* threads that record actions
          Cursors,    \* open table handles
          Actions,    \* contents of a record
          Rows,       \* PROFILER_MAX_ROWS
          MaxAdds,    \* bound: how many actions are ever recorded
          NoWriter,   \* nobody holds the lock
          Null,       \* a null pointer
          Garbage     \* what a copy from a deleted record may read

ASSUME RowsAssumption == Rows \in Nat \ {0}
ASSUME MaxAddsAssumption == MaxAdds \in Nat
ASSUME NoWriterAssumption == NoWriter \notin Writers
ASSUME NullAssumption == Null \notin [seq : Nat, action : Actions]
ASSUME GarbageAssumption == Garbage \notin Actions \cup {Null} /\ Null \notin Actions

VARIABLES
  \* the ring and its lock
  profiler_array,
  profiler_next_available_index,
  heap,          \* numbers of the records allocated and not deleted
  lock,          \* who holds LOCK_profiler_data
  \* the writers
  wpc,           \* where each writer is in addProfiler_element
  index,         \* the number each writer claimed
  \* the cursors
  rpc,           \* where each cursor is
  m_pos,         \* the row the handle stands on
  m_next_pos,    \* the row the scan visits next
  record,        \* the pointer a cursor's call has fetched
  current_row,   \* the row buffer of the handle
  positions,     \* the server remembers the positions 0 .. positions-1
  \* history of each scan, read by no action
  atStart,       \* records in the table when the scan began
  got            \* records the scan has returned

writerVars == <<wpc, index>>
tableVars  == <<profiler_array, profiler_next_available_index, heap, lock>>
cursorVars == <<rpc, m_pos, m_next_pos, record, current_row, positions,
                atStart, got>>
vars == <<tableVars, writerVars, cursorVars>>

Slots == 0..(Rows-1)

\* Defective variants of IndexOf: the counter advanced before it is used; the
\* last slot forgotten.
IndexOfAfter(n) == (n + 1) % Rows
IndexOfShort(n) == n % (Rows - 1)

\* The slot of record n.  The counter is a size_t; 2^64 additions are out of
\* reach, so it does not wrap here.
IndexOf(n) == n % Rows

Records == [seq : Nat, action : Actions]

-----------------------------------------------------------------------------
(* Initial state: init_profiler_data has run, no table handle is open.     *)

Init ==
  /\ profiler_array = [i \in Slots |-> Null]
  /\ profiler_next_available_index = 0
  /\ heap = {}
  /\ lock = NoWriter
  /\ wpc = [w \in Writers |-> "idle"]
  /\ index = [w \in Writers |-> 0]
  /\ rpc = [c \in Cursors |-> "closed"]
  /\ m_pos = [c \in Cursors |-> 0]
  /\ m_next_pos = [c \in Cursors |-> 0]
  /\ record = [c \in Cursors |-> Null]
  /\ current_row = [c \in Cursors |-> Null]
  /\ positions = [c \in Cursors |-> 0]
  /\ atStart = [c \in Cursors |-> {}]
  /\ got = [c \in Cursors |-> {}]

-----------------------------------------------------------------------------
(* addProfiler_element, in the four steps a cursor can tell apart.         *)

\* A defective Claim: the slot is claimed without the lock, and of two at once
\* one increment may be lost.
ClaimUnlocked(w) ==
  /\ wpc[w] = "idle"
  /\ profiler_next_available_index < MaxAdds
  /\ lock' = w
  /\ \/ /\ index' = [index EXCEPT ![w] = profiler_next_available_index]
        /\ profiler_next_available_index' = profiler_next_available_index + 1
     \/ \E v \in Writers \ {w} :
          /\ wpc[v] = "delete"
          /\ index' = [index EXCEPT ![w] = index[v]]
          /\ UNCHANGED profiler_next_available_index
  /\ wpc' = [wpc EXCEPT ![w] = "delete"]
  /\ UNCHANGED <<profiler_array, heap, cursorVars>>

\* Take the lock and claim the next slot.
Claim(w) ==
  /\ wpc[w] = "idle"
  /\ lock = NoWriter
  /\ profiler_next_available_index < MaxAdds
  /\ lock' = w
  /\ index' = [index EXCEPT ![w] = profiler_next_available_index]
  /\ profiler_next_available_index' = profiler_next_available_index + 1
  /\ wpc' = [wpc EXCEPT ![w] = "delete"]
  /\ UNCHANGED <<profiler_array, heap, cursorVars>>

\* Defective Deletes: the old record is leaked; the slot is cleared with it.
DeleteLeaks(w) ==
  /\ wpc[w] = "delete"
  /\ wpc' = [wpc EXCEPT ![w] = "store"]
  /\ UNCHANGED <<tableVars, index, cursorVars>>

DeleteClears(w) ==
  /\ wpc[w] = "delete"
  /\ LET old == profiler_array[IndexOf(index[w])]
     IN  heap' = IF old = Null THEN heap ELSE heap \ {old.seq}
  /\ profiler_array' = [profiler_array EXCEPT ![IndexOf(index[w])] = Null]
  /\ wpc' = [wpc EXCEPT ![w] = "store"]
  /\ UNCHANGED <<profiler_next_available_index, lock, index, cursorVars>>

\* Delete the record the slot points to; the pointer stays in the slot.
Delete(w) ==
  /\ wpc[w] = "delete"
  /\ LET old == profiler_array[IndexOf(index[w])]
     IN  heap' = IF old = Null THEN heap ELSE heap \ {old.seq}
  /\ wpc' = [wpc EXCEPT ![w] = "store"]
  /\ UNCHANGED <<profiler_array, profiler_next_available_index, lock, index,
                 cursorVars>>

\* Allocate and fill the new record, then point the slot to it.
Store(w, a) ==
  /\ wpc[w] = "store"
  /\ heap' = heap \cup {index[w]}
  /\ profiler_array' = [profiler_array EXCEPT
                          ![IndexOf(index[w])] = [seq |-> index[w], action |-> a]]
  /\ wpc' = [wpc EXCEPT ![w] = "unlock"]
  /\ UNCHANGED <<profiler_next_available_index, lock, index, cursorVars>>

Unlock(w) ==
  /\ wpc[w] = "unlock"
  /\ lock' = NoWriter
  /\ wpc' = [wpc EXCEPT ![w] = "idle"]
  /\ UNCHANGED <<profiler_array, profiler_next_available_index, heap, index,
                 cursorVars>>

-----------------------------------------------------------------------------
(* The cursor of a statement that reads the table.                         *)

\* profiler_open_table: a new handle, positions and row buffer fresh.
Open(c) ==
  /\ rpc[c] = "closed"
  /\ rpc' = [rpc EXCEPT ![c] = "open"]
  /\ m_pos' = [m_pos EXCEPT ![c] = 0]
  /\ m_next_pos' = [m_next_pos EXCEPT ![c] = 0]
  /\ current_row' = [current_row EXCEPT ![c] = Null]
  /\ atStart' = [atStart EXCEPT ![c] = {}]
  /\ got' = [got EXCEPT ![c] = {}]
  /\ UNCHANGED <<tableVars, writerVars, record, positions>>

\* profiler_close_table.  The server may still hold remembered positions.
Close(c) ==
  /\ rpc[c] \in {"open", "eof"}
  /\ rpc' = [rpc EXCEPT ![c] = "closed"]
  /\ UNCHANGED <<tableVars, writerVars, m_pos, m_next_pos, record, current_row,
                 positions, atStart, got>>

\* profiler_reset_position: the server starts the scan over.
Reset(c) ==
  /\ rpc[c] \in {"open", "eof"}
  /\ rpc' = [rpc EXCEPT ![c] = "open"]
  /\ m_pos' = [m_pos EXCEPT ![c] = 0]
  /\ m_next_pos' = [m_next_pos EXCEPT ![c] = 0]
  /\ atStart' = [atStart EXCEPT ![c] = {}]
  /\ got' = [got EXCEPT ![c] = {}]
  /\ UNCHANGED <<tableVars, writerVars, record, current_row, positions>>

InTable == {profiler_array[i].seq : i \in {j \in Slots : profiler_array[j] # Null}}

\* profiler_rnd_next up to the read of the slot: either the scan is over or
\* the pointer of the next row has been fetched.
RndNext(c) ==
  /\ rpc[c] = "open"
  /\ m_pos' = [m_pos EXCEPT ![c] = m_next_pos[c]]
  /\ LET p == m_next_pos[c]
         found == p \in Slots /\ profiler_array[p] # Null
     IN  /\ rpc' = [rpc EXCEPT ![c] = IF found THEN "copying" ELSE "eof"]
         /\ record' = [record EXCEPT ![c] =
                         IF found THEN profiler_array[p] ELSE Null]
         /\ atStart' = [atStart EXCEPT ![c] = IF p = 0 THEN InTable \cap heap ELSE @]
  /\ UNCHANGED <<tableVars, writerVars, m_next_pos, current_row, positions, got>>

\* What copy_record_profiler may read through a pointer.
Contents(r) == IF r.seq \in heap THEN {r.action} ELSE Actions \cup {Garbage}

\* copy_record_profiler for a scan whose next row is after.
CopyAndAdvance(c, after) ==
  /\ rpc[c] = "copying"
  /\ \E row \in Contents(record[c]) :
       current_row' = [current_row EXCEPT ![c] = row]
  /\ m_next_pos' = [m_next_pos EXCEPT ![c] = after]
  /\ positions' = [positions EXCEPT ![c] = after]
  /\ got' = [got EXCEPT ![c] = @ \cup {record[c].seq}]
  /\ record' = [record EXCEPT ![c] = Null]
  /\ rpc' = [rpc EXCEPT ![c] = "open"]
  /\ UNCHANGED <<tableVars, writerVars, m_pos, atStart>>

\* Defective variants of CopyNext: a row is skipped; the position stays.
CopyNextSkips(c) == CopyAndAdvance(c, m_pos[c] + 2)
CopyNextStays(c) == CopyAndAdvance(c, m_pos[c])

\* The rest of profiler_rnd_next: copy the record and advance.
CopyNext(c) == CopyAndAdvance(c, m_pos[c] + 1)

\* profiler_rnd_pos up to the read of the slot, at a remembered position.
RndPos(c, p) ==
  /\ rpc[c] = "open"
  /\ p < positions[c]
  /\ m_pos' = [m_pos EXCEPT ![c] = p]
  /\ record' = [record EXCEPT ![c] = profiler_array[p]]
  /\ rpc' = [rpc EXCEPT ![c] = "fetching"]
  /\ UNCHANGED <<tableVars, writerVars, m_next_pos, current_row, positions,
                 atStart, got>>

\* The rest of profiler_rnd_pos; an empty slot leaves the row buffer alone.
CopyPos(c) ==
  /\ rpc[c] = "fetching"
  /\ IF record[c] = Null
     THEN UNCHANGED current_row
     ELSE \E row \in Contents(record[c]) :
            current_row' = [current_row EXCEPT ![c] = row]
  /\ record' = [record EXCEPT ![c] = Null]
  /\ rpc' = [rpc EXCEPT ![c] = "open"]
  /\ UNCHANGED <<tableVars, writerVars, m_pos, m_next_pos, positions, atStart,
                 got>>

-----------------------------------------------------------------------------
Writer(w) ==
  \/ Claim(w)
  \/ Delete(w)
  \/ \E a \in Actions : Store(w, a)
  \/ Unlock(w)

Fetch(c) == \E p \in Slots : RndPos(c, p)

Cursor(c) ==
  \/ Open(c) \/ Close(c) \/ Reset(c)
  \/ RndNext(c) \/ CopyNext(c)
  \/ Fetch(c) \/ CopyPos(c)

Next ==
  \/ \E w \in Writers : Writer(w)
  \/ \E c \in Cursors : Cursor(c)

Spec == Init /\ [][Next]_vars

\* The thread of a statement keeps running, and a statement that scans keeps
\* asking for the next row.  Nothing is assumed of the writers.
CursorFairness(c) ==
  /\ SF_vars(RndNext(c))
  /\ WF_vars(CopyNext(c) \/ CopyPos(c))

FairSpec == Spec /\ \A c \in Cursors : CursorFairness(c)

-----------------------------------------------------------------------------
(* Properties *)

TypeOK ==
  /\ profiler_array \in [Slots -> Records \cup {Null}]
  /\ profiler_next_available_index \in 0..MaxAdds
  /\ heap \in SUBSET (0..(MaxAdds-1))
  /\ lock \in Writers \cup {NoWriter}
  /\ wpc \in [Writers -> {"idle", "delete", "store", "unlock"}]
  /\ index \in [Writers -> 0..MaxAdds]
  /\ rpc \in [Cursors -> {"closed", "open", "copying", "fetching", "eof"}]
  /\ m_pos \in [Cursors -> 0..Rows]
  /\ m_next_pos \in [Cursors -> 0..Rows]
  /\ record \in [Cursors -> Records \cup {Null}]
  /\ current_row \in [Cursors -> Actions \cup {Null, Garbage}]
  /\ positions \in [Cursors -> 0..Rows]
  /\ atStart \in [Cursors -> SUBSET (0..(MaxAdds-1))]
  /\ got \in [Cursors -> SUBSET (0..(MaxAdds-1))]

\* The entries kept: First .. Last-1.  A call that is between its delete and
\* its store has given up the oldest entry and not yet added the newest.
HolderAt == IF lock = NoWriter THEN "idle" ELSE wpc[lock]
Last ==
  IF HolderAt \in {"delete", "store"} THEN profiler_next_available_index - 1
                                      ELSE profiler_next_available_index
First ==
  LET end == IF HolderAt = "store" THEN Last + 1 ELSE Last
  IN  IF end >= Rows THEN end - Rows ELSE 0

\* No record is lost, leaked or kept too long: at every instant, whatever
\* addProfiler_element calls are under way, the records allocated are the
\* most recent ones, each where its number says it is.
HeapHoldsLatest ==
  /\ heap = First..(Last-1)
  /\ \A k \in heap : /\ profiler_array[IndexOf(k)] # Null
                     /\ profiler_array[IndexOf(k)].seq = k

\* addProfiler_element deletes only a record that is still allocated.  The
\* slot keeps its pointer after the delete, so this rests on the lock and on
\* the store that follows.
NoDoubleFree ==
  \A w \in Writers :
    LET old == profiler_array[IndexOf(index[w])]
    IN  wpc[w] = "delete" /\ old # Null => old.seq \in heap

\* A scan that reached the end returned every record that was in the table
\* when it began and still is, although writers replaced rows under it.
ScanComplete ==
  \A c \in Cursors : rpc[c] = "eof" => atStart[c] \cap heap \subseteq got[c]

\* A position the server remembers from a scan never points to an empty slot,
\* so profiler_rnd_pos, which reports success either way, has a row to copy.
PositionsFilled ==
  \A c \in Cursors : \A p \in 0..(positions[c]-1) : profiler_array[p] # Null

\* Unlocked reads are harmless until the ring has wrapped: only an addition
\* beyond the first Rows can delete a record a cursor is copying.
NoGarbageBeforeWrap ==
  profiler_next_available_index <= Rows =>
    \A c \in Cursors : current_row[c] # Garbage

\* A slot is never emptied and never goes back to an older record, so a
\* position fetched again shows the same row or a later one.
SlotsOnlyAdvance ==
  [][\A i \in Slots : profiler_array[i] # Null =>
       /\ profiler_array'[i] # Null
       /\ profiler_array'[i].seq >= profiler_array[i].seq]_vars

\* A scan ends, whatever the writers do or fail to do (no fairness is assumed
\* of them), if the server does not restart it for ever.
ScanEnds ==
  \A c \in Cursors :
    <>[][~Reset(c)]_vars => (rpc[c] \in {"open", "copying", "fetching"} ~>
                               rpc[c] \in {"eof", "closed"})

\* The table is an ActionLog.
ActionAt(i) == IF profiler_array[i] = Null THEN Null ELSE profiler_array[i].action
KeptLog == [k \in First..(Last-1) |-> ActionAt(k % Rows)]
Log == INSTANCE ActionLog WITH first <- First, next <- Last, log <- KeptLog

\* The ring implements the log of the most recent Rows actions, step by step:
\* Delete gives up the oldest entry of a full log, Store records the newest.
ImplementsLog == Log!Spec

\* profiler_pfs.cc:118: the current row is made from the records of the array.
RowsComeFromRecords == \A c \in Cursors : current_row[c] # Garbage

=============================================================================
