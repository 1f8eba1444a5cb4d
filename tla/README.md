# bloomd in TLA+

bloomd is a server that keeps named bloom filters and answers set and check
commands over a text protocol. This directory holds TLA+ models of its parts,
the TLC configurations that check them on small instances, and TLAPS proofs of
the results that matter most. `PROJECT.json` lists components, runs, mutants,
the map from definitions to source lines, findings, hazards and theorems.

Run a check with `tlc -config FilterManagerReclaim.cfg MCFilterManager` and the
proofs of a module with `tlapm ServerProofs.tla`. The proofs are in
`FilterManagerTypes`, `FilterManagerRounds`, `FilterManagerProofs`,
`FilterManagerRegistry`, `ConnectionProofs`, `ThreadBarrierProofs`,
`ServerProofs` and `BitmapProofs`. The proofs of
`FilterManagerRegistry` and `ConnectionProofs` take a quarter of an hour or more each.

## The system

| Part | Source | State | Operations | Talks to |
|---|---|---|---|---|
| Filter manager | `filter_manager.c` | two ART trees, delta list, versions, client list, write lock, wrappers, `pending_deletes` | checkpoint, create, drop, clear, unmap, check/set/flush/info, list, list cold; vacuum rounds; init, destroy | filters, workers, background threads |
| Filter proxy | `filter.c` | `sbf` pointer (NULL: proxied), counters, configuration | add, contains, flush, close, delete, fault in | scalable filter, configuration file |
| Scalable filter | `sbf.c` | list of filters, capacities, dirty flags | add (may append a larger filter), contains, flush, close | bloom filters |
| Bloom filter | `bloom.c` | header (count, sizes), k partitions | add, contains, flush, close, parameter computation | bitmap |
| Bitmap | `bitmap.c` | mapping or buffer, dirty page map | set bit, flush dirty pages, close | files |
| Networking | `networking.c` | connections, circular input and output buffers, worker pipes | accept, read, write, respond, deactivate, shut down | connection handler, barrier |
| Connection handler | `conn_handler.c` | none of its own | one handler for each command, chunked multi commands | filter manager, networking |
| Background threads | `background.c` | tick counters, `cold_interval` | periodic flush, periodic unmap | filter manager |
| Thread barrier | `barrier.c` | count, cycle, mutex, condition | init, wait, destroy | start of the workers |
| Main program | `bloomd.c` | `SHOULD_RUN` | start-up and shutdown order, signals | all |
| Configuration | `config.c` | values | parse, validate, write and read a filter's file | filter proxy |
| Adaptive radix tree | `art.c` | nodes with compressed prefixes, counted leaves | insert, delete, search, iterate, copy | filter manager |

What is hard in this code is the filter manager. Its readers take no lock: they
search a tree, then a list of deltas newer than the tree, while one vacuum
thread merges deltas into the other tree, swaps the trees, waits until every
thread has announced a newer version, merges into the second tree, cuts the list
and frees nodes and filters. A mistake in the order of these steps is memory
freed under a reader, and no test reaches the interleavings. It is the core of
this development. The other hard behaviours are in the hazards of
`PROJECT.json`: dirty pages swapped during a flush, a filter unmapped while
another thread sizes it, crashes between the writes of a filter's files, the wrap-around of the circular buffers, responses
split over direct and buffered writes, chunked commands that fail half way, and
the start and stop of the threads.

## Modules

| Module | What it is |
|---|---|
| `FilterManager` | the registry, all calls that bloomd makes on it, the vacuum thread, shutdown; the properties |
| `Registry` | the abstract life of a name (absent, active, doomed), which `FilterManager` implements and `ConnHandler` builds on |
| `MCFilterManager` | instances for TLC, with the symmetry of threads and wrappers |
| `FilterManagerTypes` | which action changes what; the delta list; type correctness |
| `FilterManagerRounds` | lock, versions and the phases of a vacuum round; what the list says of the wrappers |
| `FilterManagerProofs` | the alternate tree is not shared; reclamation |
| `FilterManagerRegistry` | the trees replay the list; lookups; shutdown; the refinement of `Registry` |
| `AdaptiveRadixTree`, `MCAdaptiveRadixTree` | the two trees of `art.c` with their shared leaves |
| `ConnHandler`, `MCConnHandler` | the command handlers of several connections over a registry |
| `CircularBuffer` | the operations on the circular buffers of `networking.c` |
| `Connection`, `MCConnection`, `ConnectionProofs` | input and output of one connection over two such buffers; theorems about the input |
| `ThreadBarrier`, `ThreadBarrierProofs` | the barrier of `barrier.c`; its theorem |
| `Server`, `ServerProofs` | start-up through the barrier, main loop, workers, pipes, signals, shutdown; its theorems |
| `Bitmap`, `MCBitmap`, `BitmapProofs` | one PERSISTENT bitmap: dirty pages, flushes beside setters and each other; its theorems |
| `BloomFilter`, `MCBloomFilter` | one filter: proxy, scalable filter, bloom filters, files, crashes |

### FilterManager and the code

The state has the names of the C fields: `vsn`, `primary_vsn`, `filter_map`,
`pending_deletes`, `is_active`, `is_hot`, `should_delete`, and for the vacuum
`mgr_vsn`, `min_vsn`. Some C structures have a simpler counterpart:

* the delta list is the sequence `delta` of everything ever linked. A node is its
  version; `trimmed` says up to where the list was cut, `nodes` which nodes are
  allocated. Pointers into the list stay meaningful after a cut, so a reader
  that stands on a freed node is visible as such;
* `trees` are the two ART trees as functions from names to wrappers, and
  `filter_map` says which of them is the primary;
* a wrapper is an address that is allocated once; `heap` are the allocated ones.
  With `wname` a freed wrapper keeps its name in the model, so an access after the
  free is a state that `NoUseAfterFree` rejects, not an error of evaluation;
* of the filter itself only `proxied` (not in memory) is kept, because `clear` and
  the list of cold filters look at it, and of the disk only which folders exist.

A client thread (worker, flush or unmap thread) is a program counter and the
locals of the call. One action makes one access that another thread can race
with: `mgr->filter_map` is read in `LoadTree`, the tree is searched in `Search`,
the operands of `mgr->primary_vsn == mgr->vsn` are read one by one in
`ReadPrimaryVsn` and `CompareVsn`, each node of the walk is a `WalkMatch` or
`WalkOn` and the step to the next a `WalkNext`. A write is `Lock`, the search,
then `AddFilter`, `DropFilter` or `ClearFilter`, then `BumpVsn` (`++mgr->vsn`) and
`LinkDelta` (the node is linked, the lock released). The vacuum is split the same
way: each read of `client_min_vsn` is a step, each merged delta is one, the swap of
the pointers and the store of `primary_vsn` are two, and so are the two writes of
its barrier.

Abstractions, each of which makes the model coarser than the machine:

* memory is sequentially consistent and in program order. The code relies on
  `volatile` and on aligned stores; what a weaker order could do is not modelled;
* a tree is searched or listed in one step, with the flags of its wrappers.
  `AltTreeUnshared` says that the tree does not change meanwhile;
* `WalkOn` reads a wrapper's flag and `primary_vsn` together;
* `client_min_vsn` visits the clients in any order (the code goes along the list);
* `Shutdown` joins all threads at once, when none is in a call, as `main` does;
* a fault-in that fails, a filter that lives in memory only (`unmap` leaves it
  alone) and an `add_filter` that fails are free choices.

`filtmgr_client_leave` and `filtmgr_vacuum` are called by tests only and are not
modelled. The list is taken without a prefix here; what the tree does with one is in
`AdaptiveRadixTree`.

### Registry

`Registry` says what the manager promises about one name: absent, active, doomed (dropped
or cleared, still to be freed), absent again. `ImplementsRegistry` is `Registry!Spec` under
the mapping `StatusOf`, which reads the status of a name off the wrappers that carry it.
The name of a doomed filter is not free: a create that opened its folder would have its
files deleted by the vacuum.

### AdaptiveRadixTree

A tree is a value: nothing, a leaf or a node with a type, a stored prefix, the length of
the whole prefix and a function from bytes to children. The functions keep their C names.
The order of children in the arrays of a node is abstracted; growing, shrinking,
splitting, joining, the part of a prefix beyond `MAX_PREFIX_LEN` and reads of `key[depth]`
behind the end of a key (any byte of `Beyond`) are not. The actions are what the filter
manager does: insert into one tree at start, copy, then merge inserts and deletes into one
tree and later into the other. `map` is a history variable, the plain function that the
calls amount to.

### ConnHandler

Connections run their commands over a registry that is taken by its contract. A line is
the sequence of its words. A handler that calls the filter manager once is one step; multi
and bulk take one for each chunk of `MULTI_OP_SIZE` keys, list and flush of all one for
each filter they visit. Between these other connections create, drop, clear, close and
set, the vacuum frees and the unmap thread unmaps. Replies are the buffers that are sent,
since what a client sees as a line is decided by where a `\n` is put. Floating-point
probabilities are counted in ten-thousandths.

### CircularBuffer and Connection

A byte is its position in the stream, so order, loss and repetition are visible. The
operators of `CircularBuffer` keep the names of the C functions and their unsigned
arithmetic. `Connection` reads any number of bytes that fits, cuts out commands at
terminators (one action for each of the branches of `extract_to_terminator`), answers with
responses of several buffers through `send_client_response`, where a direct write may
be full, short or fail, and drains the output buffer in `HandleWritebuf`. Once
the bug of `output_depleted` has happened (`lapped`), nothing more is said of the
output.

### ThreadBarrier and Server

`ThreadBarrier` is `barrier_wait` with `counter`, `cycle` and the condition variable;
waiting threads may wake for no reason. `Server` extends it: `main` creates the
workers, everybody meets at the barrier twice, the accept callback hands connections
over the workers' pipes round robin, a worker's loop iteration runs its callbacks,
and `shutdown_networking` writes a quit byte to each pipe and joins. A signal clears
`SHOULD_RUN` at any moment.

### Bitmap and BloomFilter

In `Bitmap` a page is the number of writes made to it, in memory and in the file.
The load and the store of a byte of the dirty map are two steps, the swap and each
page of a flush another. `BloomFilter` takes the flush of one bitmap as a step and
adds what surrounds it: fault-in (the `sbf` pointer is visible before what it points
to is filled), growth step by step on disk and in memory, `config.ini` emptied and
then written, the flush that asks the key count first, close and delete. `Locker` is
the thread that holds the filter's lock, `Readers` flush and read sizes without one.
A key is its hash values; its bits are those modulo the partition's size. An access
to freed or unfilled memory sets `ub` and nothing is said of what follows. `Crash`
comes at any step; with `use_mmap` the memory of a mapping survives it in the file. What
a failed flush forgets inside a bitmap is only in `Bitmap`, so the properties of
`BloomFilter` about contents exempt runs with `errors`.

## Runs

Deadlock is checked everywhere: where a system may really end it stutters in an
action of its own (`Terminated`, `Stopped`), any other state without a step is an
error.

| Run | Instance | Shows |
|---|---|---|
| `registry_reclaim` | 2 threads, 1 name, 2 wrappers, look up / create / drop, `MaxVsn` 2 | types; no thread reaches freed memory; no tree changes under a search; no empty delta list is dereferenced; a lookup overlooks nothing but in a round that has swapped the trees |
| `registry_recreate` | 2 threads, create / drop of one name, `MaxVsn` 3 | both trees are the replay of the deltas merged into them; the manager implements `Registry`; shutdown closes every filter once, and a drop is permanent but for the window below |
| `registry_live` | 1 thread, every call, `MaxVsn` 1, fairness | a dropped filter is freed, the vacuum comes to rest, shutdown ends |
| `lookup_misses` | 1 thread, 2 names, 2 wrappers | finding: a lookup that does not see an existing filter |
| `filter_tree` | 9 keys, nodes of 3, 4, 5 and 6 children, 2 bytes of stored prefix | search, insert and delete work as on a map; iteration misses no key; leaves are freed with the last tree that holds them |
| `list_prefix` | the same | finding: iteration by prefix visits keys that do not have it |
| `commands` | 2 connections, 2 filters, chunks of 2 keys, 1 failing call, 3 scripts | each command gets one reply; answers are true at a moment of the command; list and flush of all are honest; configurations are neither leaked nor freed twice |
| `connection` | buffers of 4 growing by 2, 9 bytes in, or 2 in and 9 out, fairness | each command is exactly the next line and none is left; the client gets the responses in order and once, and in the end all; buffered mode is on while something is unsent |
| `output_depleted` | the same | finding: a write that ends at the end of the buffer |
| `server_threads` | 2 workers, the flush thread, 2 connections, fairness | the barrier is used as it should and nobody passes it ahead; a freed connection is out of reach; the manager goes last; start-up and shutdown end; deactivated connections are closed |
| `bitmap_pages` | 3 pages, 2 to a byte, 2 flushes without the lock beside the setter, 2 writes each, 4 maps, failing writes | unsaved pages are marked; a close saves all |
| `filter_files` | 3 keys, capacities 1, 2, 4, one crash, one failing call, mapped files or not; or 2 keys beside one caller without the lock | keys are found, capacities right, sizes of proxied filters true, files loadable; dirty flags cover what is unsaved; what a flush answered for survives a crash |

### Bounds

`MaxVsn` bounds the calls that write: none begins from that version on. The
vacuum adds one version per round, so `vsn` stays below a small multiple of it. Two
writes are a create and a drop, the shortest history in which something is freed
under a reader; three are create, drop, create of one name, or drop, create, drop of one
found on disk, in which the order of merging shows and a folder can be taken over. One
name is enough for the properties that hold, which are proved for any number of them: deltas
about different names meet only in the versions they use up. `lookup_misses` needs two, a
write about another name being what makes the versions differ at the right moment. Two threads are a
reader (or writer) the barrier waits for and one that has passed it. `registry_live` has
one thread and one write with every call, since liveness needs the whole graph; the
thread the vacuum waits for is there. What holds for any number of threads, names and
wrappers is proved below.

The keys of `filter_tree` share a prefix longer than what is stored, differ after it in
more ways than the smallest node types have room for, and split it in its stored part and behind
it; the four sizes stand for 4, 16, 48 and 256 and keep the distances that the
shrinking limits have (`TreeAssumption`). A line of `commands` has up to four keys: two
chunks, a last chunk that is full, and one that an empty word ends. The buffers of a
connection are filled, wrapped and grown within nine bytes, because they begin with
four; `UINT_MAX` is far from every size reached. Two workers and two connections make the
round robin return to a worker. Three pages with two marks to a byte have a neighbour in
the same byte and one in another; four maps are three flushes, of which two overlap. Three
keys fill the first filter and make a second; a crash in its making is among the steps.
`MaxAddresses` lets an address be used again, as `malloc` does. `MaxErrors` and the fields
`errors` and `crashes` of a setting count faults: one each.

### Fairness

Clients, signals, calls, faults and shutdown are never fair.

* `Server`: the steps of every thread are weakly fair, for no thread stops on its own. A
  worker's poll that reports its readable pipe is strongly fair, because libev reports
  every ready descriptor again and again.
* `Connection`: a callback runs to its end, which is weak fairness, and `HandleWritebuf` is
  strongly fair: the client reads what it is sent, so the socket becomes writable again
  and again. A client that stops reading is not owed its responses.
* `FilterManager`: strong fairness of each thread's steps and of its checkpoints. Strong
  fairness is needed for the mutex (`Lock`, `BarrierBump`, `TrimDeltas`): it is free again
  and again, and a thread that waits for it gets it in the end, as the system's mutexes
  provide. Checkpoints come from the periodic timer of each worker (250 ms) and from the
  loops of the background threads (`usleep`), which go on whatever else the thread does;
  that is the strong fairness of `CheckpointRead`.

## Findings

* `lookup_misses`: `find_filter` compares `primary_vsn` and `vsn` after it searched a tree
  it read earlier (`filter_manager.c:638`). With the swap in between it skips the deltas
  which that tree lacks, and the filter "does not exist".
* `output_depleted`: `circbuf_write` leaves `write_cursor` at `buf_size`
  (`networking.c:1141`); when `read_cursor` has wrapped to 0 the sent bytes are taken for
  unsent ones.
* `list_prefix`: `art_iter_prefix` takes a node for a match although only its first leaf
  is one, which needs a common part of names longer than the 10 bytes that are stored,
  and it goes on below a node whose prefix has mismatched after its first byte
  (`art.c:941`).

### Windows that the passing properties name

Some behaviours disagree with what the code seems to want and are exempted by name in a
property that holds otherwise, so that the property says the exemption is the only way.

* `early` (`NoUseAfterFree`): `create_delta_update` raises `mgr->vsn` before it links the
  node. A thread that checkpoints between the two in `version_barrier` announces the
  barrier's version but still walks the nodes the vacuum is about to free
  (`filter_manager.c:876`).
* `Swapped` (`LookupSeesAll`): in a round that has swapped the trees the lookup of
  `lookup_misses` also makes a create register a second wrapper for a name that has one. The
  first is then `Replaced`: when a later delta about its name is about another wrapper.
  `DestroyClosesAllOnce` and `DropIsPermanent` leave such a wrapper out, which
  `destroy_filter_manager` may never close.
* `InPrimary` (`DropIsPermanent`): `filter_map_delete_cb` clears `should_delete` of every
  filter in the tree, dropped ones included (`filter_manager.c:809`), so a filter dropped
  just before shutdown is found again at the next start.
* `Visible` (`LookupSeesAll`, `MissMeansAbsent`): a reader is owed the deltas before the version
  it announced last, not that version itself: `mgr->vsn` is raised before the node is linked.
* `mpc # "ev_run"` (`SignalEnds`): a signal between the test of `should_run` and `ev_run`
  waits for the next event (`networking.c:670`).
* `Orderly` (`UnsavedIsMarked`, `CloseSavesAll`): `bitmap_setbit` and `flush_dirty_pages`
  share the dirty map without a lock. A mark may go to a map that was swapped out
  (`stray`) or freed (`ub`), two flushes may take the same map (`raced`), and a failed page
  write drops the marks of the pages after it (`failed`).
* `ub` of `BloomFilter`: `bloomf_size` and `bloomf_flush` follow `filter->sbf` while an unmap
  frees it or a fault-in has not filled it yet (`filter.c:213`).
* `lost` (`DirtyCoversUnsaved`): a flush without the lock clears the dirty flag over a key
  that was set meanwhile (`sbf.c:125`).
* `FlushIsDurable`: the size is stored before the data is written, so a second flush
  beside the first believes there is nothing to do (`filter.c:164`); it may also store a
  size that is old when an unmap comes between, which is why `ProxiedSizeIsTrue` speaks of
  filters without such readers. After a crash `config.ini` may hold a size that is ahead of
  the data files (`stale`); a filter that then grows to just that size is not flushed.
* `OnlyNewestUnloadable`: a crash between `ftruncate` and the flush of the header leaves
  one file that cannot be loaded, and the filter with it. A failed `ftruncate` leaves an
  empty file with the same effect (`errors`).
* `torn` (`CapacitiesHold`): a crash between `fopen` and `fclose` of `config.ini` loses the
  filter's own capacity.
* `TwoErrors` (`OneReply`): a create with an unknown option and an option out of range
  answers two error lines. The options are read with `sscanf`, whose `EOF` (-1) counts as
  true, so that a word which is the beginning of an option is taken for it.

## Proofs

Proved for every value of the constants that satisfies the named assumption. The sets may
be infinite unless it says otherwise.

| Theorem | Statement | Assumption |
|---|---|---|
| `TypeCorrect` | `Spec => []TypeOK` of `FilterManager` | `ConstantsAssumption` |
| `AltTreeUnsharedAlways` | `Spec => []AltTreeUnshared` | the same |
| `ReclamationIsSafe` | `Spec => []NoUseAfterFree` | the same |
| `DeltaNotNullAlways` | `Spec => []DeltaNotNull` | the same |
| `TreesReplayDeltasAlways` | `Spec => []TreesReplayDeltas` | the same |
| `LookupSeesAllAlways` | `Spec => []LookupSeesAll` | the same |
| `RegistryImplemented` | `Spec => ImplementsRegistry`, a refinement | the same |
| `DestroyClosesAllOnceAlways` | `Spec => []DestroyClosesAllOnce` | the same |
| `DropIsPermanentAlways` | `Spec => DropIsPermanent`, an action property | the same |
| `InputExactAlways` | `Spec => []InputExact` of `Connection` | `BufferAssumption` |
| `CommandIsLineAlways` | `Spec => []CommandIsLine` | the same |
| `NoLineLeftAlways` | `Spec => []NoLineLeft` | the same |
| `BarrierHolds` | `BarrierSpec => []NobodyAhead` | `BarrierAssumption` |
| `ServerUsesBarrier` | `Spec => BarrierIsUsed` of `Server`, a refinement | `ServerAssumption`, `BarrierAssumption` |
| `FreedStaysAway` | `Spec => []FreedIsUnreachable` | the same |
| `ManagerLast` | `Spec => []ManagerOutlivesUsers` | the same |
| `NothingForgotten` | `Spec => []UnsavedIsMarked` of `Bitmap` | `BitmapAssumption` |
| `CloseSaves` | `Spec => []CloseSavesAll` | the same |

The assumptions say that bounds are numbers and that values of different kinds differ;
`BarrierAssumption` that the threads are finitely many and at least one, `ServerAssumption`
that there is a worker, that the threads are `main` (0) and the workers, and that each uses
the barrier twice. TLC checked each inductive invariant on the instances above before it was proved.

### Reclamation in FilterManager

`TypeOK` is not inductive: a client that is about to walk must have a node to
stand on, a wrapper that is merged must have a name. `TypeInv` adds that.

`NoUseAfterFree` is not inductive by far, because why a reader is safe depends on
what the vacuum has planned. `Inv` has these groups, each with a lemma that a step
preserves it:

1. `LockInv`: a call that writes holds the lock to its end, the vacuum while it
   links its barrier.
2. `VsnInv`: `vsn` is the length of the list, one more while a node is being linked;
   no announced version is ahead of it, and the thread that links has announced an
   older one.
3. `PhaseInv`, `PlanInv`: what a round plans to merge is linked. This is where the
   window of (2) matters: the minimum is taken over all threads, the one that is
   linking included.
4. `AltInv`: a thread in the alternate tree entered it before the swap, so it has
   announced less than the barrier's version, and the scan has either not visited
   it yet or has taken its version into the minimum. When the second merge begins
   no such thread is left, which is `AltTreeUnshared`.
5. `HistoryInv`: a delete is the last delta about its wrapper; active wrappers, and
   those a writer is about to link, were not deleted.
6. `MemoryInv`: freed is only what was deleted at a version that is cut off.
7. `TreeInv`: a tree holds nothing deleted up to where it is merged.
8. `ReclaimInv`: a thread outside `early` holds nothing, and can find nothing, that is
   cut off; what the current round is going to cut off is held only by threads the
   barrier still waits for.

### The registry

`FilterManagerRegistry` builds on `Inv` and adds `RegistryInv`, what the list, the trees and the
wrappers say of each other:

1. `EmptyInv`: the list is empty only before the first write, because a round links its barrier
   before it cuts. `DeltaNotNull` follows.
2. `CreatedInv`, `OriginInv`, `LoadedInv`: a wrapper is created once; one that is not active any
   more has its delete in the list or is about to get it; what a tree holds was created up to
   where the tree is merged, or was found on disk and is still in both trees.
3. `TreesReplayDeltas` itself, which needs that a round merges on from where the tree it changes
   was left, also when a thread that joined late has lowered the minimum below that. With it
   `LastInv`: of the deltas about a name one is the last. That is plain, but without induction
   over data it has to be carried along as an invariant.
4. `HeapInv`, `PendingInv`: what was deleted in the part that is cut off is freed, up to where
   `delete_old_versions` has come, and its name is pending from the swap to that moment.
5. `PrimaryInv`, `SearchInv`, `LostInv`: what a search has left behind is not about its name or
   is merged into the primary tree; if it has searched a tree that lacks it, the
   round waits for it. So a miss outside `Swapped` overlooks nothing.
6. `AddInv`, `ClosedInv`: a create adds no filter while one of its name is being deleted;
   what is not closed at the end was `Replaced`.

The refinement goes step by step: `AddFilter` is the create of `Registry`, `DropFilter` and
`ClearFilter` the retire, `Reap` of the last wrapper of a name the reap, `Destroy` the end; every
other step leaves the status of all names alone.

### The input of a connection

`InputExact` speaks of `Contents`, which is a concatenation of two spans when the buffer is
wrapped. `Keeps` says the same with arithmetic: the i-th unread byte is at the i-th address after
`read_cursor`, modulo the size, and there are as many as the cursors say. It also has what the
cursors may be: `write_cursor` stays below `buf_size`, `read_cursor` may stand at it, after a
command that ended with the last byte of the memory. Each branch of `extract_to_terminator` is
shown to hand out the first k unread bytes, the last of them being the first line end; a read and
a growth to keep what is there. The proofs hold for any `INIT_CONN_BUF_SIZE` and
`CONN_BUF_MULTIPLIER` above 1, any `UINT_MAX` above the first size, and any input.

### The barrier

`NobodyAhead` compares how often threads have passed. The invariant `BarrierInv` behind it
names the cycle that is being filled: every thread is before it, waits in it, or has
still to be told that the cycle before is over, and `counter` is the number of threads that
have not entered it. The `cycle` flag tells the last two apart.

### The server

`ServerUsesBarrier` maps each step of the server to a step of `ThreadBarrier` or a stutter, so
`BarrierHolds` holds of the server too. The other two theorems need `Inv`, with

1. `PhaseInv`: where `main` is tells which workers have been created, which may have ended
   and whether the manager is there. `ManagerOutlivesUsers` follows.
2. `PipeInv`: in a pipe each `"a"` is followed by a connection, but for the one that `main`
   is about to write; a connection is sent once, to one worker, and is not open or freed
   while it is in a pipe.
3. `LoopInv`: what an event loop watches, is going to call back or has listed as inactive is
   a connection of its own worker that is open, and the list has nothing twice. Without it
   one could not say that closing the connections of a list frees nothing that another
   worker, or a later callback of the same iteration, still has.

### The bitmap

`UnsavedIsMarked` alone does not survive a step: `PointerInv` says which maps are allocated;
`FreshInv` that the map a flush is going to swap in has no marks and is nobody else's;
`SetterInv` that the byte a setter has read has all the marks it will be stored over;
`CloserInv` that nothing is marked any more once the closing flush has swapped.

### Only model-checked

All liveness (the proof system has no support for fairness). The output of `Connection`:
`OutputInOrder` and `BufferedIffUnsent` speak of the concatenation of the buffers of a response,
which is defined by recursion over them. `BloomFilter` and `ConnHandler`. `AdaptiveRadixTree`
computes with recursion over trees, about which the provers cannot do induction.

## Not modelled

* Start-up that fails: a worker that cannot make its pipe or loop returns before the
  barrier, on which everybody else then waits; failures of `init_networking`, listeners, the
  UDP socket; errors of reading a pipe; failing `malloc`.
* `filtmgr_client_leave` and `filtmgr_vacuum`, which only tests call.
* The overflow of the `int` size in `circbuf_grow_buf`, which needs a buffer of 256 MB.
* ANONYMOUS bitmaps and filters that live in memory only, in `Bitmap` and `BloomFilter`; a
  close of a bitmap beside a flush that still runs (in `Bitmap` it waits for them; in
  `BloomFilter` it sets `ub`); a crash between the pages of one flush, since the two modules
  together are beyond TLC; a deletion interrupted by a crash; hit and miss counters.
* In `art.c` the arrays inside a node, the 8-bit count of children of a full node, destroying
  a tree (where `destroy_node` stops at the number of children of a NODE48, past which
  deletions may have left some), `art_minimum` and `art_maximum`.
* The scaling of `cold_interval` by memory in use, the numbers that info and list print.
* Hashing, the floating-point formulas of filter parameters, the text of INI files, options
  of the command line, logging.
* Orders of memory weaker than program order.
* `spinlock.h` and `type_compat.h`, shims of the platform, and the test programs.
