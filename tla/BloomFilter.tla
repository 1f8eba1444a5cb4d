----------------------------- MODULE BloomFilter -----------------------------
(***************************************************************************)
(* One filter of bloomd: the proxy (filter.c), the scalable filter (sbf.c) *)
(* and the bloom filters in it (bloom.c), over data files and the filter's *)
(* config.ini.  Set, check and unmap hold the filter's lock (Locker); the  *)
(* flush and info commands and the flush thread (Readers) take no lock.    *)
(* The process may crash between any two steps and be started again.       *)
(*                                                                         *)
(* The flush of one bitmap is a step; Bitmap looks inside it.  An access   *)
(* to memory that is freed, not yet filled or past an array sets ub, and   *)
(* nothing is said of what follows.  Filters that live in memory only are  *)
(* left out.                                                               *)
(***************************************************************************)
EXTENDS Naturals, Sequences, FiniteSets, FiniteSetsExt

CONSTANTS
  Keys, k_num, hashes,    \* hashes[key][i] for the partitions 1..k_num
  offset,                 \* bits in a partition of the n-th filter
  initial_capacity,       \* given with the create command
  default_capacity,       \* of the server's configuration
  scale_size,
  Readers, Locker,
  Settings,               \* the settings to look at, see setting
  MaxFilters,             \* bound: data files; they have room for all keys
  MaxAddresses            \* bound: addresses an sbf can have

ASSUME FilterAssumption ==
  /\ hashes \in [Keys -> [1..k_num -> Nat]]
  /\ offset \in [0..(MaxFilters - 1) -> Nat \ {0}]
  /\ {initial_capacity, default_capacity, scale_size} \subseteq Nat \ {0}
  /\ Locker \notin Readers
  /\ MaxFilters \in Nat
  /\ \A s \in Settings : /\ s.use_mmap \in BOOLEAN
                          /\ s.keys \subseteq Keys /\ s.readers \subseteq Readers
                          /\ {s.errors, s.crashes} \subseteq Nat
  /\ MaxAddresses \in Nat \ {0}

Callers == Readers \cup {Locker}

VARIABLES
  files, ini,     \* the data files by number, and config.ini
  setting,        \* use_mmap of the configuration (SHARED or PERSISTENT
                  \* bitmaps); the keys and the readers there are; bounds:
                  \* failing system calls, crashes
  up,             \* the process runs and the filter is registered
  config,         \* f->filter_config
  sbf,            \* f->sbf: an address, 0 for NULL
  live, ready,    \* the sbf allocated; sbf_from_filters has filled it
  num_filters, filters, dirty_filters, capacities,   \* of that sbf
  mem,            \* the bitmaps in memory, by file number
  gen,            \* the last address allocated for an sbf
  pc, op, key,    \* of each caller; the key of the locked call
  ptr, new_size, i,          \* locals of bloomf_flush and sbf_flush
  kept,           \* history: keys that a set has answered for
  snap, promised, \* history: keys kept when a flush began; keys that a flush
                  \* or a close has answered for
  crashes, torn,  \* history: crashes; a restart found no config.ini values,
  stale,          \* or a size there that is not that of the data files
  errors, lost,   \* history: errors; a dirty flag cleared over new keys
  ub              \* history: memory was used that must not be

disk == <<files, ini>>
proxy == <<setting, up, config, sbf, live, ready, gen>>
scalable == <<num_filters, filters, dirty_filters, capacities, mem>>
locals == <<ptr, new_size, i>>
calls == <<kept, snap, promised>>
restarts == <<crashes, torn, stale>>
history == <<calls, restarts, errors, lost>>
vars == <<disk, proxy, scalable, pc, op, key, locals, history, ub>>

-----------------------------------------------------------------------------
(* bloom.c: a key has one bit in each partition of a filter.               *)

Bits(map, k) == {<<p, hashes[k][p] % map.offset>> : p \in 1..k_num}

bf_contains(map, k) == Bits(map, k) \subseteq map.bits

bf_size(map) == map.count

(* sbf.c.                                                                  *)

\* Slip: only the largest filter is searched.
sbf_containsSlip(k) == bf_contains(mem[filters[1]], k)

sbf_contains(k) ==
  \E j \in 1..num_filters : bf_contains(mem[filters[j]], k)

sbf_size == SumFunctionOnSet([j \in 1..num_filters |-> bf_size(mem[filters[j]])],
                             1..num_filters)

sbf_total_capacity == SumFunctionOnSet(capacities, 1..num_filters)

sbf_total_byte_size ==
  SumFunctionOnSet([j \in 1..num_filters |-> k_num * mem[filters[j]].offset],
                   1..num_filters)

(* The capacity of the filter with number n.                               *)
Capacity(n) == config.initial_capacity * scale_size^n

sbf_init_capacities(num) == [j \in 1..num |-> Capacity(num - j)]

(* The sbf behind a pointer can be used.                                   *)
Usable(p) == p = live /\ ready /\ num_filters = Len(filters)

(* A data file that discover_existing_filters accepts.                     *)
Loadable(file) == file.sized /\ file.magic

(* A file right after open with O_CREAT: no size, no header.               *)
NewFile == [sized |-> FALSE, magic |-> FALSE, count |-> 0, bits |-> {},
            offset |-> offset[num_filters]]

-----------------------------------------------------------------------------
(* init_bloom_filter, until the configuration has been read.               *)
Config(c) == [initial_capacity |-> c, capacity |-> c, size |-> 0, bytes |-> 0]

NoIni == Config(0)
Empty == [n \in {} |-> 0]

(* The filter is being created: the fault-in and the flush follow.         *)
Init ==
  /\ files = Empty /\ ini = NoIni
  /\ setting \in Settings
  /\ up = TRUE /\ config = Config(initial_capacity)
  /\ sbf = 0 /\ live = 0 /\ ready = FALSE /\ gen = 0
  /\ num_filters = 0 /\ filters = <<>> /\ dirty_filters = <<>>
  /\ capacities = <<>> /\ mem = Empty
  /\ pc = [c \in Callers |-> IF c = Locker THEN "fault" ELSE "idle"]
  /\ op = [c \in Callers |-> IF c = Locker THEN "create" ELSE "none"]
  /\ key \in setting.keys
  /\ ptr = [c \in Callers |-> 0] /\ new_size = [c \in Callers |-> 0]
  /\ i = [c \in Callers |-> 1]
  /\ kept = {} /\ snap = [c \in Callers |-> {}] /\ promised = {}
  /\ crashes = 0 /\ torn = FALSE /\ stale = FALSE /\ errors = 0
  /\ lost = FALSE /\ ub = FALSE

At(c, label) == up /\ ~ub /\ pc[c] = label
Goto(c, label) == pc' = [pc EXCEPT ![c] = label]
Leave(c) == Goto(c, "idle") /\ op' = [op EXCEPT ![c] = "none"]
Fail == errors < setting.errors /\ errors' = errors + 1

-----------------------------------------------------------------------------
(* The calls under the filter's lock.  A filter is deleted, or closed at   *)
(* exit, when no thread uses it any more (see FilterManager).              *)
Begin(o, k) ==
  /\ At(Locker, "idle")
  /\ o \in {"delete", "exit"} => \A r \in Readers : pc[r] = "idle"
  /\ op' = [op EXCEPT ![Locker] = o]
  /\ key' = IF o \in {"set", "check"} THEN k ELSE key
  /\ Goto(Locker, CASE o \in {"set", "check"} -> IF sbf = 0 THEN "fault" ELSE "op"
                    [] sbf # 0 -> "start"
                    [] OTHER -> "closed")
  /\ UNCHANGED <<disk, proxy, scalable, locals, history, ub>>

(* thread_safe_fault and discover_existing_filters.                        *)

(* create_sbf makes the pointer visible before sbf_from_filters fills what *)
(* it points to.                                                           *)
Publish == /\ gen' = (gen % MaxAddresses) + 1
           /\ sbf' = gen' /\ live' = gen'
           /\ ready' = FALSE
           /\ UNCHANGED <<setting, up, config>>

FaultCreate ==
  /\ At(Locker, "fault") /\ DOMAIN files = {}
  /\ Publish
  /\ Goto(Locker, "none")
  /\ UNCHANGED <<disk, scalable, op, key, locals, history, ub>>

FaultLoad ==
  /\ At(Locker, "fault") /\ DOMAIN files # {}
  /\ \A n \in DOMAIN files : Loadable(files[n])
  /\ mem' = files
  /\ Publish
  /\ Goto(Locker, "load")
  /\ UNCHANGED <<disk, num_filters, filters, dirty_filters, capacities, op, key,
                 locals, history, ub>>

(* A file without a size or a header, or an error of the system.           *)
FaultFails ==
  /\ At(Locker, "fault")
  /\ \/ UNCHANGED errors /\ \E n \in DOMAIN files : ~Loadable(files[n])
     \/ Fail
  /\ Leave(Locker)
  /\ up' = (op[Locker] # "create")
  /\ UNCHANGED <<disk, setting, config, sbf, live, ready, gen, scalable, key, locals,
                 calls, restarts, lost, ub>>

(* sbf_from_filters: the files in the order of their names, largest first. *)
FromFilters ==
  /\ At(Locker, "load")
  /\ LET num == Cardinality(DOMAIN mem)
     IN  /\ num_filters' = num
         /\ filters' = [j \in 1..num |-> num - j]
         /\ dirty_filters' = [j \in 1..num |-> FALSE]
         /\ capacities' = sbf_init_capacities(num)
  /\ ready' = TRUE
  /\ Goto(Locker, "op")
  /\ UNCHANGED <<disk, setting, up, config, sbf, live, gen, mem, op, key, locals, history,
                 ub>>

FromNone ==
  /\ At(Locker, "none")
  /\ num_filters' = 0 /\ filters' = <<>> /\ dirty_filters' = <<>>
  /\ capacities' = <<>>
  /\ ready' = TRUE
  /\ Goto(Locker, "append")
  /\ UNCHANGED <<disk, setting, up, config, sbf, live, gen, mem, op, key, locals, history,
                 ub>>
-----------------------------------------------------------------------------
(* sbf_append_filter with bloomf_sbf_callback and bitmap_from_filename.    *)

(* The last data file is the one being made: its number is the number of   *)
(* data files that were there.                                             *)
Newest == Cardinality(DOMAIN files) - 1

AppendOpen ==
  /\ At(Locker, "append")
  /\ files' = [n \in DOMAIN files \cup {Newest + 1} |->
                 IF n = Newest + 1 THEN NewFile ELSE files[n]]
  /\ Goto(Locker, "truncate")
  /\ UNCHANGED <<ini, proxy, scalable, op, key, locals, history, ub>>

AppendTruncate ==
  /\ At(Locker, "truncate")
  /\ files' = [files EXCEPT ![Newest].sized = TRUE]
  /\ Goto(Locker, "header")
  /\ UNCHANGED <<ini, proxy, scalable, op, key, locals, history, ub>>

(* bf_from_bitmap sets the header of the new bitmap.                       *)
AppendHeader ==
  /\ At(Locker, "header")
  /\ mem' = [n \in DOMAIN mem \cup {Newest} |->
               IF n = Newest THEN [files[n] EXCEPT !.magic = TRUE] ELSE mem[n]]
  /\ Goto(Locker, "sync")
  /\ UNCHANGED <<disk, proxy, num_filters, filters, dirty_filters, capacities, op,
                 key, locals, history, ub>>

\* Slip: the header stays in memory.
AppendSyncSlip ==
  /\ At(Locker, "sync")
  /\ Goto(Locker, "grow")
  /\ UNCHANGED <<disk, proxy, scalable, op, key, locals, history, ub>>

(* ... and flushes it; the result is ignored.                              *)
AppendSync ==
  /\ At(Locker, "sync")
  /\ \/ files' = [files EXCEPT ![Newest] = mem[Newest]] /\ UNCHANGED errors
     \/ Fail /\ UNCHANGED files
  /\ Goto(Locker, "grow")
  /\ UNCHANGED <<ini, proxy, scalable, op, key, locals, calls, restarts, lost,
                 ub>>

(* sbf->num_filters++ comes before the arrays are replaced.                *)
AppendCount ==
  /\ At(Locker, "grow")
  /\ num_filters' = num_filters + 1
  /\ Goto(Locker, "arrays")
  /\ UNCHANGED <<disk, proxy, filters, dirty_filters, capacities, mem, op, key,
                 locals, history, ub>>

(* Then create_sbf is done, or sbf_add goes on with the new filter.        *)
AppendArrays ==
  /\ At(Locker, "arrays")
  /\ filters' = <<Newest>> \o filters
  /\ dirty_filters' = <<FALSE>> \o dirty_filters
  /\ capacities' = <<Capacity(num_filters - 1)>> \o capacities
  /\ Goto(Locker, IF num_filters = 1 THEN "op" ELSE "mark")
  /\ UNCHANGED <<disk, proxy, num_filters, mem, op, key, locals, history, ub>>

(* The file cannot be opened, sized or mapped.  Only the last of these     *)
(* removes it again.  create_sbf frees the sbf; sbf_add leaves it alone.   *)
AppendFails ==
  /\ \E label \in {"append", "truncate", "header"} : At(Locker, label)
  /\ Fail
  /\ files' = IF pc[Locker] = "header"
              THEN [n \in DOMAIN files \ {Newest} |-> files[n]] ELSE files
  /\ IF num_filters = 0 THEN sbf' = 0 /\ live' = 0 ELSE UNCHANGED <<sbf, live>>
  /\ up' = (op[Locker] # "create")
  /\ Leave(Locker)
  /\ UNCHANGED <<ini, setting, config, ready, gen, scalable, key, locals, calls,
                 restarts, lost, ub>>
-----------------------------------------------------------------------------
(* sbf_contains and sbf_add with bf_add.                                   *)

Top == mem[filters[1]]

\* Slip: one key more than the capacity.
FullSlip == bf_size(Top) > capacities[1]

Full == bf_size(Top) >= capacities[1]

(* create goes on with its flush, check is done.  set is done when it      *)
(* finds the key; otherwise it needs a filter with room.                   *)
Operate ==
  /\ At(Locker, "op")
  /\ LET done == op[Locker] = "check" \/ sbf_contains(key)
     IN  /\ IF op[Locker] # "create" /\ done THEN Leave(Locker)
            ELSE /\ Goto(Locker, IF op[Locker] = "create" THEN "start"
                                 ELSE IF Full THEN "append" ELSE "mark")
                 /\ UNCHANGED op
         /\ kept' = IF op[Locker] = "set" /\ done THEN kept \cup {key} ELSE kept
  /\ UNCHANGED <<disk, proxy, scalable, key, locals, snap, promised, restarts,
                 errors, lost, ub>>

\* Slip: the oldest filter is marked.
MarkDirtySlip ==
  /\ At(Locker, "mark")
  /\ dirty_filters' = [dirty_filters EXCEPT ![num_filters] = TRUE]
  /\ Goto(Locker, "bits")
  /\ UNCHANGED <<disk, proxy, num_filters, filters, capacities, mem, op, key,
                 locals, history, ub>>

MarkDirty ==
  /\ At(Locker, "mark")
  /\ dirty_filters' = [dirty_filters EXCEPT ![1] = TRUE]
  /\ Goto(Locker, "bits")
  /\ UNCHANGED <<disk, proxy, num_filters, filters, capacities, mem, op, key,
                 locals, history, ub>>

SetBits ==
  /\ At(Locker, "bits")
  /\ mem' = [mem EXCEPT ![filters[1]].bits = @ \cup Bits(Top, key)]
  /\ Goto(Locker, "count")
  /\ UNCHANGED <<disk, proxy, num_filters, filters, dirty_filters, capacities, op,
                 key, locals, history, ub>>

AddCount ==
  /\ At(Locker, "count")
  /\ mem' = [mem EXCEPT ![filters[1]].count = @ + 1]
  /\ kept' = kept \cup {key}
  /\ Leave(Locker)
  /\ UNCHANGED <<disk, proxy, num_filters, filters, dirty_filters, capacities,
                 key, locals, snap, promised, restarts, errors, lost, ub>>

-----------------------------------------------------------------------------
(* bloomf_flush and the getters, without the lock.                         *)

(* A reader calls flush or info once the filter is registered.             *)
Call(r, o) ==
  /\ At(r, "idle") /\ o \in {"flush", "info"}
  /\ pc[Locker] = "idle" \/ op[Locker] \notin {"create", "delete", "exit"}
  /\ op' = [op EXCEPT ![r] = o]
  /\ snap' = [snap EXCEPT ![r] = kept]
  /\ Goto(r, "start")
  /\ UNCHANGED <<disk, proxy, scalable, key, locals, kept, promised, restarts,
                 errors, lost, ub>>

(* What a flush goes on with.  Of the lock's holder bloomf_close goes on,  *)
(* or sbf_close once the pointer is NULL.                                  *)
After(c) == IF c # Locker \/ op[c] = "create" THEN "idle"
            ELSE IF sbf = 0 THEN "closing" ELSE "detach"

(* Another flush has stored the new size and has not written everything.   *)
Overlapped(c) ==
  \E d \in Callers \ {c} :
    pc[d] \in {"store", "ini", "write", "data", "flush", "clear", "detach",
              "closing"}

(* bloomf_flush returns.                                                   *)
Return(c, ok) ==
  /\ IF After(c) = "idle" THEN Leave(c) ELSE Goto(c, After(c)) /\ UNCHANGED op
  /\ promised' = IF ok /\ op[c] = "flush" /\ ~Overlapped(c)
                 THEN promised \cup snap[c] ELSE promised
  /\ snap' = [snap EXCEPT ![c] = {}]
  /\ ptr' = [ptr EXCEPT ![c] = 0] /\ new_size' = [new_size EXCEPT ![c] = 0]
  /\ i' = [i EXCEPT ![c] = 1]
  /\ up' = (ok \/ op[c] # "create" \/ c # Locker)
  /\ UNCHANGED <<setting, config, sbf, live, ready, gen, key, kept, restarts>>

(* bloomf_size reads the pointer ...                                       *)
FlushStart(c) ==
  /\ At(c, "start")
  /\ \/ /\ sbf = 0 /\ Return(c, TRUE)
     \/ /\ sbf # 0
        /\ ptr' = [ptr EXCEPT ![c] = sbf]
        /\ Goto(c, "size")
        /\ UNCHANGED <<proxy, op, key, new_size, i, calls, restarts>>
  /\ UNCHANGED <<disk, scalable, errors, lost, ub>>

(* ... and sbf_size follows it.                                            *)
FlushSize(c) ==
  /\ At(c, "size")
  /\ ub' = ~Usable(ptr[c])
  /\ new_size' = [new_size EXCEPT ![c] = IF ub' THEN 0 ELSE sbf_size]
  /\ Goto(c, IF op[c] = "info" THEN "got" ELSE "compare")
  /\ UNCHANGED <<disk, proxy, scalable, op, key, ptr, i, history>>

(* The info command is done with the size (the capacity and the bytes are  *)
(* read the same way).                                                     *)
InfoDone(c) ==
  /\ At(c, "got")
  /\ Return(c, TRUE)
  /\ UNCHANGED <<disk, scalable, errors, lost, ub>>

\* Slip: only a filter that has grown is flushed.
UnchangedSizeSlip(c) == new_size[c] <= config.size + 1 /\ config.bytes # 0

UnchangedSize(c) == new_size[c] = config.size /\ config.bytes # 0

FlushSkip(c) ==
  /\ At(c, "compare") /\ UnchangedSize(c)
  /\ Return(c, TRUE)
  /\ UNCHANGED <<disk, scalable, errors, lost, ub>>

StoreSize(c) ==
  /\ At(c, "compare") /\ ~UnchangedSize(c)
  /\ config' = [config EXCEPT !.size = new_size[c]]
  /\ Goto(c, "store")
  /\ UNCHANGED <<disk, setting, up, sbf, live, ready, gen, scalable, op, key, locals,
                 history, ub>>

\* Slip: the capacity is left as it was.
StoreCapacitySlip(c) ==
  /\ At(c, "store")
  /\ ub' = (sbf # 0 /\ ~Usable(sbf))
  /\ config' = IF sbf = 0 \/ ub' THEN config
               ELSE [config EXCEPT !.bytes = sbf_total_byte_size]
  /\ Goto(c, "ini")
  /\ UNCHANGED <<disk, setting, up, sbf, live, ready, gen, scalable, op, key, locals,
                 history>>

(* bloomf_capacity and bloomf_byte_size read the pointer again.            *)
StoreCapacity(c) ==
  /\ At(c, "store")
  /\ ub' = (sbf # 0 /\ ~Usable(sbf))
  /\ config' = IF sbf = 0 \/ ub' THEN config
               ELSE [config EXCEPT !.capacity = sbf_total_capacity,
                                   !.bytes = sbf_total_byte_size]
  /\ Goto(c, "ini")
  /\ UNCHANGED <<disk, setting, up, sbf, live, ready, gen, scalable, op, key, locals,
                 history>>

(* update_filename_from_filter_config: fopen empties the file, fprintf and *)
(* fclose write it.  A failure is logged only.                             *)
TruncateIni(c) ==
  /\ At(c, "ini")
  /\ \/ ini' = NoIni /\ Goto(c, "write") /\ UNCHANGED errors
     \/ Fail /\ Goto(c, "data") /\ UNCHANGED ini
  /\ UNCHANGED <<files, proxy, scalable, op, key, locals, calls, restarts,
                 lost, ub>>

WriteIni(c) ==
  /\ At(c, "write")
  /\ ini' = config
  /\ Goto(c, "data")
  /\ UNCHANGED <<files, proxy, scalable, op, key, locals, history, ub>>
(* sbf_flush is given the pointer read once more; NULL is an error.        *)
LoadSbf(c) ==
  /\ At(c, "data")
  /\ \/ sbf = 0 /\ Return(c, FALSE)
     \/ /\ sbf # 0
        /\ ptr' = [ptr EXCEPT ![c] = sbf] /\ i' = [i EXCEPT ![c] = 1]
        /\ Goto(c, "flush")
        /\ UNCHANGED <<proxy, op, key, new_size, calls, restarts>>
  /\ UNCHANGED <<disk, scalable, errors, lost, ub>>

(* The filter at i is looked at, and flushed if it is dirty.               *)
FlushFilter(c) ==
  /\ At(c, "flush")
  /\ ub' = ~Usable(ptr[c])
  /\ \/ /\ ub' \/ i[c] <= num_filters
        /\ IF ub' \/ ~dirty_filters[i[c]]
           THEN i' = [i EXCEPT ![c] = @ + 1] /\ UNCHANGED <<files, pc>>
           ELSE /\ files' = [files EXCEPT ![filters[i[c]]] = mem[filters[i[c]]]]
                /\ Goto(c, "clear") /\ UNCHANGED i
        /\ UNCHANGED <<proxy, op, key, ptr, new_size, calls, restarts, errors>>
     \/ /\ ~ub' /\ i[c] > num_filters
        /\ Return(c, TRUE) /\ UNCHANGED <<files, errors>>
     \/ /\ ~ub' /\ i[c] <= num_filters /\ dirty_filters[i[c]]
        /\ Fail /\ Return(c, FALSE) /\ UNCHANGED files
  /\ UNCHANGED <<ini, scalable, lost>>

(* The flag is cleared after the flush, by its index.                      *)
ClearDirty(c) ==
  /\ At(c, "clear")
  /\ ub' = ~Usable(ptr[c])
  /\ IF ub' THEN UNCHANGED <<dirty_filters, lost>>
     ELSE /\ dirty_filters' = [dirty_filters EXCEPT ![i[c]] = FALSE]
          /\ lost' = (lost \/ mem[filters[i[c]]] # files[filters[i[c]]]
                           \/ (pc[Locker] \in {"bits", "count"} /\ i[c] = 1))
  /\ i' = [i EXCEPT ![c] = @ + 1]
  /\ Goto(c, "flush")
  /\ UNCHANGED <<disk, proxy, num_filters, filters, capacities, mem, op, key, ptr,
                 new_size, calls, restarts, errors>>

-----------------------------------------------------------------------------
(* bloomf_close after its flush, with sbf_close and bf_close.              *)

Detach ==
  /\ At(Locker, "detach")
  /\ ptr' = [ptr EXCEPT ![Locker] = sbf]
  /\ sbf' = 0
  /\ Goto(Locker, "flush")
  /\ UNCHANGED <<disk, setting, up, config, live, ready, gen, scalable, op, key, new_size, i,
                 history, ub>>

(* One filter is flushed once more, closed and freed.                      *)
CloseFilter ==
  /\ At(Locker, "closing") /\ i[Locker] <= num_filters
  /\ LET n == filters[i[Locker]]
     IN  \/ files' = [files EXCEPT ![n] = mem[n]] /\ UNCHANGED errors
         \/ Fail /\ UNCHANGED files
  /\ live' = 0
  /\ i' = [i EXCEPT ![Locker] = @ + 1]
  /\ UNCHANGED <<ini, setting, up, config, sbf, ready, gen, scalable, pc, op, key, ptr,
                 new_size, calls, restarts, lost, ub>>

CloseDone ==
  /\ At(Locker, "closing") /\ i[Locker] > num_filters
  /\ num_filters' = 0 /\ filters' = <<>> /\ dirty_filters' = <<>>
  /\ capacities' = <<>> /\ mem' = Empty /\ ready' = FALSE
  /\ i' = [i EXCEPT ![Locker] = 1]
  /\ Goto(Locker, "closed")
  /\ UNCHANGED <<disk, setting, up, config, sbf, live, gen, op, key, ptr, new_size, history,
                 ub>>

(* The rest of the call: bloomf_delete removes the files.                  *)
Closed ==
  /\ At(Locker, "closed")
  /\ IF op[Locker] = "delete"
     THEN /\ files' = Empty /\ ini' = NoIni /\ kept' = {} /\ promised' = {}
          /\ Goto(Locker, "idle") /\ UNCHANGED op
     ELSE promised' = kept /\ Leave(Locker) /\ UNCHANGED <<files, ini, kept>>
  /\ up' = (op[Locker] \notin {"delete", "exit"})
  /\ UNCHANGED <<setting, config, sbf, live, ready, gen, scalable, key, locals, snap,
                 restarts, errors, lost, ub>>

-----------------------------------------------------------------------------
(* The process is killed.  What a mapping has shared with the file stays   *)
(* there, what only this memory held is gone.                              *)
Crash ==
  /\ up /\ ~ub /\ crashes < setting.crashes
  /\ up' = FALSE /\ crashes' = crashes + 1
  /\ files' = IF setting.use_mmap THEN [n \in DOMAIN files |->
                                  IF n \in DOMAIN mem THEN mem[n] ELSE files[n]]
              ELSE files
  /\ promised' = IF lost \/ stale THEN {} ELSE promised
  /\ kept' = IF setting.use_mmap THEN kept ELSE promised'
  /\ UNCHANGED <<ini, setting, config, sbf, live, ready, gen, scalable, pc, op,
                 key, locals, snap, torn, stale, errors, lost, ub>>

(* The keys counted in the data files.                                     *)
FileKeys == SumFunctionOnSet([n \in DOMAIN files |-> files[n].count],
                             DOMAIN files)

(* load_existing_filters: init_bloom_filter without a fault-in, so that    *)
(* its flush finds nothing to do.  A file that is missing or empty leaves  *)
(* the defaults.                                                           *)
Restart ==
  /\ ~up /\ ~ub
  /\ op[Locker] # "delete"
  /\ up' = TRUE
  /\ config' = IF ini = NoIni THEN Config(default_capacity) ELSE ini
  /\ torn' = (torn \/ ini = NoIni)
  /\ stale' = (stale \/ (ini # NoIni /\ ini.size # FileKeys))
  /\ sbf' = 0 /\ live' = 0 /\ ready' = FALSE /\ gen' = 0
  /\ num_filters' = 0 /\ filters' = <<>> /\ dirty_filters' = <<>>
  /\ capacities' = <<>> /\ mem' = Empty
  /\ pc' = [c \in Callers |-> "idle"] /\ op' = [c \in Callers |-> "none"]
  /\ ptr' = [c \in Callers |-> 0] /\ new_size' = [c \in Callers |-> 0]
  /\ i' = [c \in Callers |-> 1] /\ snap' = [c \in Callers |-> {}]
  /\ lost' = FALSE
  /\ UNCHANGED <<disk, setting, key, kept, promised, crashes, errors, ub>>

(* The filter is deleted, or the model says no more.                       *)
Stopped == /\ ub \/ (~up /\ op[Locker] = "delete")
           /\ UNCHANGED vars
LockedOps == {"set", "check", "unmap", "delete", "exit"}

Calling == (\E o \in LockedOps, k \in setting.keys : Begin(o, k)) \/ Operate
           \/ MarkDirty \/ SetBits \/ AddCount
Faulting == FaultCreate \/ FaultLoad \/ FaultFails \/ FromFilters \/ FromNone
Appending == \/ AppendOpen \/ AppendTruncate \/ AppendHeader \/ AppendSync
             \/ AppendCount \/ AppendArrays \/ AppendFails
Flushing(c) == \/ FlushStart(c) \/ FlushSize(c) \/ InfoDone(c) \/ FlushSkip(c)
               \/ StoreSize(c) \/ StoreCapacity(c) \/ TruncateIni(c)
               \/ WriteIni(c) \/ LoadSbf(c) \/ FlushFilter(c) \/ ClearDirty(c)
Closing == Detach \/ CloseFilter \/ CloseDone \/ Closed

Next == \/ Calling \/ Faulting \/ Appending \/ Closing
        \/ \E c \in Callers : Flushing(c)
        \/ \E r \in setting.readers, o \in {"flush", "info"} : Call(r, o)
        \/ Crash \/ Restart \/ Stopped

Spec == Init /\ [][Next]_vars
-----------------------------------------------------------------------------
(* Properties.                                                             *)

(* The filters of an sbf that is in use.                                   *)
Loaded == up /\ sbf # 0 /\ Usable(sbf)

(* A key that a set has answered for is found as long as the process lives,*)
(* through growth, unmapping, fault-in and a clean restart; after a crash  *)
(* all of them with mmap, and otherwise those that were flushed or closed  *)
(* (bloomf_add, bloomf_close, discover_existing_filters).                  *)
NoFalseNegatives ==
  errors = 0 /\ ~ub =>
    \A k \in kept :
      \/ Loaded /\ sbf_contains(k)
      \/ /\ ~Loaded
         /\ \/ \E n \in DOMAIN files : bf_contains(files[n], k)
            \/ \E n \in DOMAIN mem : up /\ bf_contains(mem[n], k)

(* Filter n holds up to initial_capacity * scale_size^n keys, also after a *)
(* reload, and a larger one is appended only when all others are full      *)
(* (sbf_add, sbf_append_filter, sbf_init_capacities).  A crash or an error *)
(* may lose counts, and the initial capacity with config.ini.              *)
CapacitiesHold ==
  Loaded /\ ~torn =>
    \A j \in 1..num_filters :
      /\ capacities[j] = initial_capacity * scale_size^(num_filters - j)
      /\ mem[filters[j]].count <= capacities[j]
      /\ j > 1 /\ crashes = 0 /\ errors = 0 => mem[filters[j]].count = capacities[j]

(* What info and list say of a proxied filter is what its files hold       *)
(* (bloomf_flush "Store our properties for a future unmap"), after a       *)
(* restart too.  A flush beside the unmap may store the size it read       *)
(* before; where there are readers nothing is claimed.                     *)
ProxiedSizeIsTrue ==
  (/\ up /\ sbf = 0 /\ pc[Locker] = "idle" /\ crashes = 0 /\ errors = 0
   /\ setting.readers = {}) =>
    LET num == Cardinality(DOMAIN files)
    IN  /\ config.size = FileKeys
        /\ config.capacity = SumFunctionOnSet(sbf_init_capacities(num), 1..num)

(* At most the newest data file cannot be loaded, and without a crash only *)
(* while it is being made (bf_from_bitmap: "force a flush of the headers").*)
OnlyNewestUnloadable ==
  errors = 0 =>
    \A n \in DOMAIN files : ~Loadable(files[n]) =>
      /\ n = Newest
      /\ crashes > 0 \/ pc[Locker] \in {"truncate", "header", "sync"}

(* A filter with keys that its file lacks is marked dirty, unless a flush  *)
(* without the lock cleared the mark over a set that was under way.        *)
DirtyCoversUnsaved ==
  (Loaded /\ errors = 0 /\ ~lost /\ ~ub) =>
    \A j \in 1..num_filters :
      mem[filters[j]] # files[filters[j]] => dirty_filters[j]

(* The keys that a flush or a close answered for are in the data files.    *)
PromisesKept ==
  \A k \in promised : \E n \in DOMAIN files : bf_contains(files[n], k)

(* A key is in a data file once a flush that began after its set, or a     *)
(* close, has returned 0, so that a crash does not lose it.  Not covered:  *)
(* a flush that returns while another one is under way, which has stored   *)
(* the size that tells both whether there is anything to do (filter.c:164);*)
(* a mark lost as in DirtyCoversUnsaved; a size in config.ini that a crash *)
(* has left ahead of the data files; and what follows an error.            *)
FlushIsDurable == (errors = 0 /\ ~lost /\ ~stale /\ ~ub) => PromisesKept
=============================================================================
