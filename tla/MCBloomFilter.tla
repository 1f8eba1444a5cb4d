---------------------------- MODULE MCBloomFilter ----------------------------
(***************************************************************************)
(* Instances of BloomFilter for TLC.  In the first filter, with partitions *)
(* of two bits, k1 and k3 share one bit and together they cover k2.        *)
(***************************************************************************)
EXTENDS BloomFilter, TLC

CONSTANTS k1, k2, k3

Hash3 == k1 :> <<0, 0>> @@ k2 :> <<0, 3>> @@ k3 :> <<2, 1>>

(* Three keys under the lock with an error and a crash, with mapped files  *)
(* and without; and two keys beside a flush or info that takes no lock.    *)
Faults == [use_mmap : BOOLEAN, keys : {Keys}, readers : {{}},
           errors : {1}, crashes : {1}]
Shared == [use_mmap : {FALSE}, keys : {{k1, k2}}, readers : {Readers},
           errors : {0}, crashes : {0}]
Both == Faults \cup Shared

Partitions == <<2, 4, 8, 16, 32>>
Offsets == [n \in 0..(MaxFilters - 1) |-> Partitions[n + 1]]
=============================================================================
