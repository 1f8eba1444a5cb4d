------------------------------- MODULE Bitmap -------------------------------
(***************************************************************************)
(* A bitmap in PERSISTENT mode (bitmap.c, bitmap.h): the bits live in      *)
(* anonymous memory and a map of dirty pages says what a flush has to      *)
(* write.  Bits are set by the one thread that holds the filter's lock;    *)
(* flushes take no lock and run beside it and beside each other.           *)
(*                                                                         *)
(* A page is the number of writes made to it, in memory and in the file.   *)
(* A map of dirty pages is an address, the pages marked in it are a set;   *)
(* address 0 is NULL.  Each access to map->dirty_pages that can race is a  *)
(* step.  An access to a freed map sets ub; nothing is said of what        *)
(* follows.                                                                *)
(***************************************************************************)
EXTENDS Naturals, FiniteSets

CONSTANTS
  max_page,    \* the last page; page 0 holds the header
  PerByte,     \* marks that share a byte of the map of dirty pages
  Flushers,    \* threads that flush without the lock
  Locker,      \* the thread that holds the lock: sets bits, closes
  IOErrors,    \* may pwrite fail
  MaxSets,     \* bound: writes
  MaxMaps      \* bound: maps of dirty pages ever allocated

ASSUME BitmapAssumption ==
  /\ max_page \in Nat /\ PerByte \in Nat \ {0}
  /\ Locker \notin Flushers
  /\ IOErrors \in BOOLEAN
  /\ MaxSets \in Nat /\ MaxMaps \in Nat \ {0}

Pages == 0..max_page
Callers == Flushers \cup {Locker}

VARIABLES
  open,          \* the bitmap is mapped
  mem, file,     \* writes to each page: in memory, in the file
  sets,          \* writes so far
  dirty_pages,   \* of bloom_bitmap: the current map
  maps, freed,   \* the pages marked in each map; maps that were freed
  allocated,     \* maps allocated so far
  spc, page, map, byte,   \* locals of bitmap_setbit
  fpc, old, new, i,       \* locals of flush_dirty_pages
  res,           \* what the last flush of a caller returned is 0
  stray,         \* history: a mark went to a map that was swapped out
  failed,        \* history: a flush failed
  raced,         \* history: a flush replaced a map it had not read
  ub             \* history: a freed map was used or freed again

setter == <<spc, page, map, byte>>
flusher == <<fpc, old, new, i, res>>
heap == <<dirty_pages, maps, freed, allocated>>
vars == <<open, mem, file, sets, heap, setter, flusher, stray, failed, raced, ub>>

(* bitmap_from_file of a file that exists: memory is filled from it and a  *)
(* clean map is allocated.                                                 *)
Init ==
  /\ open = TRUE
  /\ mem = [p \in Pages |-> 0] /\ file = mem /\ sets = 0
  /\ dirty_pages = 1 /\ allocated = 1 /\ freed = {}
  /\ maps = [m \in 1..MaxMaps |-> {}]
  /\ spc = "idle" /\ page = 0 /\ map = 0 /\ byte = {}
  /\ fpc = [f \in Callers |-> "idle"]
  /\ old = [f \in Callers |-> 0] /\ new = [f \in Callers |-> 0]
  /\ i = [f \in Callers |-> 0] /\ res = [f \in Callers |-> TRUE]
  /\ stray = FALSE /\ failed = FALSE /\ raced = FALSE /\ ub = FALSE

-----------------------------------------------------------------------------
(* bitmap_setbit.                                                          *)

SameByte(p) == {q \in Pages : q \div PerByte = p \div PerByte}

SetBit(p) ==
  /\ open /\ ~ub /\ spc = "idle" /\ fpc[Locker] = "idle"
  /\ sets < MaxSets /\ sets' = sets + 1
  /\ mem' = [mem EXCEPT ![p] = @ + 1]
  /\ page' = p
  /\ spc' = "load"
  /\ UNCHANGED <<open, file, heap, map, byte, flusher, stray, failed, raced,
                 ub>>

LoadByte ==
  /\ ~ub /\ spc = "load"
  /\ map' = dirty_pages
  /\ byte' = maps[dirty_pages] \cap SameByte(page)
  /\ spc' = "store"
  /\ UNCHANGED <<open, mem, file, sets, heap, page, flusher, stray, failed, raced,
                 ub>>

(* The compiler may read map->dirty_pages once or again for the store.     *)
StoreByte ==
  /\ ~ub /\ spc = "store"
  /\ \E m \in {map, dirty_pages} :
       /\ maps' = [maps EXCEPT ![m] = (@ \ SameByte(page)) \cup byte \cup {page}]
       /\ ub' = (m \in freed)
       /\ stray' = (stray \/ m # dirty_pages)
  /\ spc' = "idle" /\ page' = 0 /\ map' = 0 /\ byte' = {}
  /\ UNCHANGED <<open, mem, file, sets, dirty_pages, freed, allocated, flusher,
                 failed, raced>>

-----------------------------------------------------------------------------
(* bitmap_flush with flush_dirty_pages and flush_page.                     *)

(* Any thread may flush; the lock's holder does when it closes the bitmap. *)
FlushBegin(f) ==
  /\ open /\ ~ub /\ fpc[f] = "idle" /\ (f = Locker => spc = "idle")
  /\ allocated < MaxMaps
  /\ allocated' = allocated + 1
  /\ new' = [new EXCEPT ![f] = allocated + 1]
  /\ old' = [old EXCEPT ![f] = dirty_pages]
  /\ fpc' = [fpc EXCEPT ![f] = "swap"]
  /\ UNCHANGED <<open, mem, file, sets, dirty_pages, maps, freed, setter, i, res,
                 stray, failed, raced, ub>>

FlushSwap(f) ==
  /\ ~ub /\ fpc[f] = "swap"
  /\ dirty_pages' = new[f]
  /\ raced' = (raced \/ dirty_pages # old[f])
  /\ i' = [i EXCEPT ![f] = 0] /\ new' = [new EXCEPT ![f] = 0]
  /\ fpc' = [fpc EXCEPT ![f] = "scan"]
  /\ UNCHANGED <<open, mem, file, sets, maps, freed, allocated, setter, old, res,
                 stray, failed, ub>>

\* Slip: the last page is left out.
ToScanSlip(f) == i[f] < max_page

ToScan(f) == i[f] <= max_page

(* A page is looked at, and written if it is marked or the first one.      *)
FlushPage(f) ==
  /\ ~ub /\ fpc[f] = "scan" /\ ToScan(f)
  /\ ub' = (old[f] \in freed)
  /\ file' = IF i[f] \in maps[old[f]] \/ i[f] = 0
             THEN [file EXCEPT ![i[f]] = mem[i[f]]] ELSE file
  /\ i' = [i EXCEPT ![f] = @ + 1]
  /\ UNCHANGED <<open, mem, sets, heap, setter, fpc, old, new, res, stray, failed,
                 raced>>

FlushPageFails(f) ==
  /\ ~ub /\ IOErrors /\ fpc[f] = "scan" /\ ToScan(f)
  /\ i[f] \in maps[old[f]] \/ i[f] = 0
  /\ ub' = (old[f] \in freed)
  /\ failed' = TRUE
  /\ fpc' = [fpc EXCEPT ![f] = "leave"]
  /\ UNCHANGED <<open, mem, file, sets, heap, setter, old, new, i, res, stray, raced>>

(* LEAVE: the old map is freed, and after a full scan the file is synced.  *)
FlushLeave(f) ==
  /\ ~ub
  /\ fpc[f] = "leave" \/ (fpc[f] = "scan" /\ ~ToScan(f))
  /\ ub' = (old[f] \in freed)
  /\ freed' = freed \cup {old[f]}
  /\ \E fsync \in {TRUE, ~IOErrors} :
       /\ res' = [res EXCEPT ![f] = (fpc[f] = "scan" /\ fsync)]
       /\ failed' = (failed \/ ~res'[f])
  /\ fpc' = [fpc EXCEPT ![f] = IF f = Locker THEN "close" ELSE "idle"]
  /\ old' = [old EXCEPT ![f] = 0] /\ i' = [i EXCEPT ![f] = 0]
  /\ UNCHANGED <<open, mem, file, sets, dirty_pages, maps, allocated, setter, new,
                 stray, raced>>

\* Slip: the bitmap is unmapped without the flush.
CloseSlip ==
  /\ ~ub /\ open /\ spc = "idle" /\ \A f \in Callers : fpc[f] = "idle"
  /\ open' = FALSE
  /\ ub' = (dirty_pages \in freed)
  /\ freed' = freed \cup {dirty_pages}
  /\ dirty_pages' = 0
  /\ UNCHANGED <<mem, file, sets, maps, allocated, setter, flusher, stray, failed,
                 raced>>

(* bitmap_close after its flush.  A failed flush leaves the bitmap as it   *)
(* is.  (What a close does under a flush without the lock is the subject   *)
(* of BloomFilter; here it waits.)                                         *)
Close ==
  /\ ~ub /\ fpc[Locker] = "close"
  /\ fpc' = [fpc EXCEPT ![Locker] = "idle"]
  /\ \/ /\ ~res[Locker]
        /\ UNCHANGED <<open, dirty_pages, freed, ub>>
     \/ /\ res[Locker] /\ \A f \in Flushers : fpc[f] = "idle"
        /\ open' = FALSE
        /\ ub' = (dirty_pages \in freed)
        /\ freed' = freed \cup {dirty_pages}
        /\ dirty_pages' = 0
  /\ UNCHANGED <<mem, file, sets, maps, allocated, setter, old, new, i, res, stray,
                 failed, raced>>

(* Nobody has to do anything more.                                         *)
Stopped == /\ \/ ~open \/ ub
              \/ spc = "idle" /\ \A f \in Callers : fpc[f] = "idle"
           /\ UNCHANGED vars

Setting == (\E p \in Pages : SetBit(p)) \/ LoadByte \/ StoreByte
Flushing(f) == \/ FlushBegin(f) \/ FlushSwap(f) \/ FlushPage(f)
               \/ FlushPageFails(f) \/ FlushLeave(f)

Next == Setting \/ (\E f \in Callers : Flushing(f)) \/ Close \/ Stopped

Spec == Init /\ [][Next]_vars
-----------------------------------------------------------------------------
(* Properties.                                                             *)

(* A flush that is going to write page p.                                  *)
WillWrite(f, p) == /\ fpc[f] \in {"swap", "scan"}
                   /\ p \in maps[old[f]]
                   /\ fpc[f] = "scan" => i[f] <= p

(* None of the four things happened that lose marks: a mark that went to a *)
(* map after the swap, a failed flush, which frees the marks of the pages  *)
(* it did not reach, two flushes that took the same map, of which one      *)
(* throws away the new map of the other, and the use of a freed map, to    *)
(* which each of them can lead.                                            *)
Orderly == ~stray /\ ~failed /\ ~raced /\ ~ub

(* A page that differs from the file is not forgotten: it is marked in the *)
(* current map, or is about to be, or a running flush will come to it      *)
(* (bitmap_setbit against flush_dirty_pages, flushes against each other).  *)
UnsavedIsMarked ==
  open /\ Orderly =>
    \A p \in Pages : file[p] # mem[p] =>
      \/ p = 0 \/ p \in maps[dirty_pages]
      \/ spc # "idle" /\ page = p
      \/ \E f \in Callers : WillWrite(f, p)

(* bitmap_close leaves every bit in the file, after any number of sets and *)
(* flushes before it and beside it.                                        *)
CloseSavesAll == ~open /\ Orderly => file = mem
=============================================================================
