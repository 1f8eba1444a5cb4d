------------------------- MODULE AdaptiveRadixTree -------------------------
(***************************************************************************)
(* art.c, as the filter manager uses it: two trees over filter names, the  *)
(* second a copy of the first that shares its leaves.  A key is a sequence *)
(* of bytes that ends with the terminating 0.  A tree is a value: NULL, a  *)
(* leaf or a node.  A node's children are a function from bytes: how the   *)
(* arrays of its type order them is abstracted.  The sizes of the nodes    *)
(* and of the stored prefix are constants.                                 *)
(***************************************************************************)
EXTENDS Integers, FiniteSetsExt, SequencesExt

CONSTANTS
  Bytes,           \* an interval from 0
  Beyond,          \* bytes that may lie behind the end of a key
  Keys,            \* the keys that are inserted
  Probes,          \* keys that are looked up
  Prefixed,        \* prefixes that are listed, without the terminating 0
  ValuesOf,        \* [Keys -> set of values]
  MAX_PREFIX_LEN,
  Capacity,        \* <<4, 16, 48, 256>>
  Shrink,          \* <<1, 3, 12, 37>>: a node with so few children is replaced
  Existing,        \* the keys that may have a folder at start
  NULL

Trees == {1, 2}
NODE4 == 1
NODE16 == 2
NODE48 == 3
NODE256 == 4

ASSUME TreeAssumption ==
  /\ MAX_PREFIX_LEN \in Nat \ {0}
  /\ Existing \subseteq Keys /\ Keys \subseteq Probes /\ Beyond \subseteq Bytes
  /\ \A k \in Probes : /\ k \in Seq(Bytes) /\ k # <<>>
                       /\ \A i \in DOMAIN k : k[i] = 0 <=> i = Len(k)
  /\ \A p \in Prefixed : p \in Seq(Bytes \ {0})
  /\ Capacity[NODE256] = Cardinality(Bytes) /\ Shrink[NODE4] = 1
  /\ \A t \in {NODE16, NODE48, NODE256} : Shrink[t] \in 2..(Capacity[t - 1] - 1)

VARIABLES
  root, size,      \* the trees
  leaves,          \* the heap: [leaf -> [value, ref_count]]
  copied,          \* the second tree has been made
  delta,           \* what was merged into one tree and not yet into the other
  ret,             \* what the last call returned
  map, old         \* history: what the calls so far amount to, for Reference

vars == <<root, size, leaves, copied, delta, ret, map, old>>

-----------------------------------------------------------------------------
(* A leaf is known by its key and the tree it was made for.                *)
make_leaf(key, t) == [key |-> key, tree |-> t]
IS_LEAF(n) == "tree" \in DOMAIN n

(* num_children.                                                           *)
NumChildren(n) == Cardinality(DOMAIN n.children)

Stored(s, len) == SubSeq(s, 1, Min({len, MAX_PREFIX_LEN, Len(s)}))

alloc_node(type, partial_len, partial, children) ==
  [type |-> type, partial_len |-> partial_len, partial |-> partial,
   children |-> children]

find_child(n, c) == IF c \in DOMAIN n.children THEN n.children[c] ELSE NULL

(* key[depth]: past the end of the key lies an arbitrary byte, beyond.     *)
ByteAt(key, depth, beyond) == IF depth < Len(key) THEN key[depth + 1] ELSE beyond

(* The first index below max at which the two differ, or max.              *)
FirstDifference(s, i, t, j, max) ==
  Min({Max({max, 0})} \cup {x \in 0..(max - 1) : s[i + x + 1] # t[j + x + 1]})

check_prefix(n, key, depth) ==
  FirstDifference(n.partial, 0, key, depth,
                  Min({n.partial_len, MAX_PREFIX_LEN, Len(key) - depth}))

leaf_matches(l, key) == l.key = key

(* check_prefix, and that it covers what is stored.                        *)
PrefixFits(n, key, depth) ==
  n.partial_len > 0 =>
    check_prefix(n, key, depth) = Min({MAX_PREFIX_LEN, n.partial_len})

(* The leaf art_search ends at.                                            *)
RECURSIVE SearchFrom(_, _, _, _)
SearchFrom(n, key, depth, beyond) ==
  IF n = NULL THEN NULL
  ELSE IF IS_LEAF(n) THEN IF leaf_matches(n, key) THEN n ELSE NULL
  ELSE IF ~PrefixFits(n, key, depth) THEN NULL
  ELSE SearchFrom(find_child(n, ByteAt(key, depth + n.partial_len, beyond)), key,
                  depth + n.partial_len + 1, beyond)

art_search(t, key, beyond) ==
  LET l == SearchFrom(root[t], key, 0, beyond)
  IN  IF l = NULL THEN NULL ELSE leaves[l].value

RECURSIVE minimum(_)
minimum(n) == IF IS_LEAF(n) THEN n ELSE minimum(n.children[Min(DOMAIN n.children)])

longest_common_prefix(l1, l2, depth) ==
  FirstDifference(l1.key, depth, l2.key, depth,
                  Min({Len(l1.key), Len(l2.key)}) - depth)

-----------------------------------------------------------------------------
(* add_child4 to add_child256: a full node is replaced by the next type.   *)
add_child(n, c, child) ==
  LET full == n.type # NODE256 /\ NumChildren(n) = Capacity[n.type]
  IN  [n EXCEPT !.type = IF full THEN @ + 1 ELSE @,
                !.children = [b \in DOMAIN @ \cup {c} |->
                                IF b = c THEN child ELSE @[b]]]

(* Where the key leaves the prefix of n: beyond what is stored it is       *)
(* compared with a leaf, to the end of that leaf's key.                    *)
prefix_mismatch(n, key, depth) ==
  LET max == Min({MAX_PREFIX_LEN, n.partial_len, Len(key) - depth})
      idx == FirstDifference(n.partial, 0, key, depth, max)
  IN  IF idx < max \/ n.partial_len <= MAX_PREFIX_LEN THEN idx
      ELSE LET l == minimum(n)
           IN  idx + FirstDifference(l.key, depth + idx, key, depth + idx,
                                     Min({Len(l.key), Len(key)}) - depth - idx)

Pair(c, n, d, m) == [b \in {c, d} |-> IF b = c THEN n ELSE m]

(* A leaf with another key becomes a node4 with both.                      *)
SplitLeaf(l, new, depth) ==
  LET longest == longest_common_prefix(l, new, depth)
  IN  alloc_node(NODE4, longest, Stored(SubSeq(new.key, depth + 1, Len(new.key)), longest),
                 Pair(l.key[depth + longest + 1], l, new.key[depth + longest + 1], new))

(* A node whose prefix the key leaves after diff bytes.                    *)
SplitNode(n, new, depth, diff) ==
  LET byte == IF n.partial_len <= MAX_PREFIX_LEN THEN n.partial[diff + 1]
              ELSE minimum(n).key[depth + diff + 1]
      left == n.partial_len - (diff + 1)
      tail == IF n.partial_len <= MAX_PREFIX_LEN
              THEN SubSeq(n.partial, diff + 2, Len(n.partial))
              ELSE SubSeq(minimum(n).key, depth + diff + 2, Len(minimum(n).key))
  IN  alloc_node(NODE4, diff, Stored(n.partial, diff),
                 Pair(byte, [n EXCEPT !.partial_len = left,
                                      !.partial = Stored(tail, left)],
                      new.key[depth + diff + 1], new))

(* The new tree, and the leaf that had the key.                            *)
RECURSIVE recursive_insert(_, _, _)
recursive_insert(n, new, depth) ==
  IF n = NULL THEN [ref |-> new, found |-> NULL]
  ELSE IF IS_LEAF(n)
  THEN IF leaf_matches(n, new.key) THEN [ref |-> n, found |-> n]
       ELSE [ref |-> SplitLeaf(n, new, depth), found |-> NULL]
  ELSE LET diff == prefix_mismatch(n, new.key, depth)
           c    == new.key[depth + n.partial_len + 1]
           sub  == recursive_insert(n.children[c], new, depth + n.partial_len + 1)
       IN  IF diff < n.partial_len
           THEN [ref |-> SplitNode(n, new, depth, diff), found |-> NULL]
           ELSE IF c \in DOMAIN n.children
           THEN [ref |-> [n EXCEPT !.children[c] = sub.ref], found |-> sub.found]
           ELSE [ref |-> add_child(n, c, new), found |-> NULL]

-----------------------------------------------------------------------------
\* Slip: the byte of the edge is not counted in the joined prefix.
JoinSlip(n, c, child) ==
  [child EXCEPT !.partial_len = @ + n.partial_len,
                !.partial = Stored(n.partial \o <<c>> \o @, MAX_PREFIX_LEN)]

(* A node4 with a single child gives its prefix to that child.             *)
Join(n, c, child) ==
  [child EXCEPT !.partial_len = @ + n.partial_len + 1,
                !.partial = Stored(n.partial \o <<c>> \o @, MAX_PREFIX_LEN)]

(* remove_child4 to remove_child256.                                       *)
remove_child(n, c) ==
  LET children == Restrict(n.children, DOMAIN n.children \ {c})
      last     == CHOOSE b \in DOMAIN children : TRUE
      few      == Cardinality(DOMAIN children) = Shrink[n.type]
  IN  IF few /\ n.type = NODE4
      THEN IF IS_LEAF(children[last]) THEN children[last]
           ELSE Join(n, last, children[last])
      ELSE [n EXCEPT !.type = IF few THEN @ - 1 ELSE @, !.children = children]

RECURSIVE recursive_delete(_, _, _, _)
recursive_delete(n, key, depth, beyond) ==
  LET Same == [ref |-> n, found |-> NULL]
  IN  IF n = NULL THEN Same
      ELSE IF IS_LEAF(n)
      THEN IF leaf_matches(n, key) THEN [ref |-> NULL, found |-> n] ELSE Same
      ELSE LET c     == ByteAt(key, depth + n.partial_len, beyond)
               child == find_child(n, c)
               sub   == recursive_delete(child, key, depth + n.partial_len + 1, beyond)
           IN  IF ~PrefixFits(n, key, depth) \/ child = NULL THEN Same
               ELSE IF ~IS_LEAF(child)
               THEN [ref |-> [n EXCEPT !.children[c] = sub.ref], found |-> sub.found]
               ELSE IF leaf_matches(child, key)
               THEN [ref |-> remove_child(n, c), found |-> child]
               ELSE Same

-----------------------------------------------------------------------------
RECURSIVE recursive_iter(_)
recursive_iter(n) ==
  IF n = NULL THEN {}
  ELSE IF IS_LEAF(n) THEN {n}
  ELSE UNION {recursive_iter(n.children[c]) : c \in DOMAIN n.children}

leaf_prefix_matches(l, prefix) ==
  Len(l.key) >= Len(prefix) /\ SubSeq(l.key, 1, Len(prefix)) = prefix

(* The byte after the prefix is its terminating 0.                         *)
PrefixByte(prefix, depth, beyond) ==
  IF depth = Len(prefix) THEN 0 ELSE ByteAt(prefix, depth, beyond)

\* Slip: a prefix that ends inside the prefix of the node is not looked for.
PrefixEndsSlip(n, prefix, depth, matched) ==
  n.partial_len > 0 /\ matched = n.partial_len /\ depth + matched = Len(prefix)

(* The prefix is used up within the prefix of the node.                    *)
PrefixEnds(n, prefix, depth, matched) ==
  n.partial_len > 0 /\ depth + matched = Len(prefix)

(* The leaves art_iter_prefix calls back for.                              *)
RECURSIVE IterPrefixFrom(_, _, _, _)
IterPrefixFrom(n, prefix, depth, beyond) ==
  IF n = NULL THEN {}
  ELSE IF IS_LEAF(n) THEN IF leaf_prefix_matches(n, prefix) THEN {n} ELSE {}
  ELSE IF depth = Len(prefix)
  THEN IF leaf_prefix_matches(minimum(n), prefix) THEN recursive_iter(n) ELSE {}
  ELSE LET matched == prefix_mismatch(n, prefix, depth)
       IN  IF n.partial_len > 0 /\ matched = 0 THEN {}
           ELSE IF PrefixEnds(n, prefix, depth, matched) THEN recursive_iter(n)
           ELSE IterPrefixFrom(
                  find_child(n, PrefixByte(prefix, depth + n.partial_len, beyond)),
                  prefix, depth + n.partial_len + 1, beyond)

art_iter_prefix(t, prefix, beyond) == IterPrefixFrom(root[t], prefix, 0, beyond)

-----------------------------------------------------------------------------
\* Slip: the leaves are shared without being counted.
IncrementSlip(heap, S) == heap

Increment(heap, S) ==
  [l \in DOMAIN heap |->
     IF l \in S THEN [heap[l] EXCEPT !.ref_count = @ + 1] ELSE heap[l]]

(* A leaf is freed when its ref_count hits zero.                           *)
Release(heap, S) ==
  [l \in {x \in DOMAIN heap : x \in S => heap[x].ref_count > 1} |->
     IF l \in S THEN [heap[l] EXCEPT !.ref_count = @ - 1] ELSE heap[l]]

-----------------------------------------------------------------------------
Init ==
  /\ root = [t \in Trees |-> NULL] /\ size = [t \in Trees |-> 0]
  /\ leaves = [l \in {} |-> NULL]
  /\ copied = FALSE /\ delta = NULL /\ ret = NULL
  /\ map = [t \in Trees |-> [k \in {} |-> NULL]] /\ old = NULL

(* art_insert.  A value that both trees share is not overwritten: "It is   *)
(* important that concurrent updates to a given key has no well defined    *)
(* behavior since the leaves are shared."                                  *)
art_insert(t, key, value) ==
  LET new == make_leaf(key, t)
      res == recursive_insert(root[t], new, 0)
  IN  /\ res.found # NULL => leaves[res.found].ref_count = 1
      /\ root' = [root EXCEPT ![t] = res.ref]
      /\ IF res.found = NULL
         THEN /\ size' = [size EXCEPT ![t] = @ + 1]
              /\ leaves' = [l \in DOMAIN leaves \cup {new} |->
                              IF l = new THEN [value |-> value, ref_count |-> 1]
                              ELSE leaves[l]]
              /\ ret' = NULL
         ELSE /\ leaves' = [leaves EXCEPT ![res.found].value = value]
              /\ ret' = leaves[res.found].value
              /\ UNCHANGED size

art_delete(t, key, beyond) ==
  LET res == recursive_delete(root[t], key, 0, beyond)
  IN  /\ root' = [root EXCEPT ![t] = res.ref]
      /\ IF res.found = NULL
         THEN ret' = NULL /\ UNCHANGED <<size, leaves>>
         ELSE /\ size' = [size EXCEPT ![t] = @ - 1]
              /\ ret' = leaves[res.found].value
              /\ leaves' = Release(leaves, {res.found})

(* The same calls on a map.                                                *)
Value(t, key) == IF key \in DOMAIN map[t] THEN map[t][key] ELSE NULL
MapInsert(t, key, value) ==
  /\ map' = [map EXCEPT ![t] = [k \in DOMAIN @ \cup {key} |->
                                  IF k = key THEN value ELSE @[k]]]
  /\ old' = Value(t, key)
MapDelete(t, key) ==
  /\ map' = [map EXCEPT ![t] = Restrict(@, DOMAIN @ \ {key})]
  /\ old' = Value(t, key)

(* load_existing_filters fills the first tree.                             *)
Load(key) ==
  /\ ~copied /\ key \in Existing
  /\ \E v \in ValuesOf[key] : art_insert(1, key, v) /\ MapInsert(1, key, v)
  /\ UNCHANGED <<copied, delta>>

(* recursive_copy.  No child has been removed from the tree it copies, so  *)
(* that the first num_children positions of a node48, which are all that   *)
(* it looks at, are the ones in use.                                       *)
art_copy ==
  /\ ~copied /\ copied' = TRUE
  /\ size' = [size EXCEPT ![2] = size[1]]
  /\ root' = [root EXCEPT ![2] = root[1]]
  /\ leaves' = Increment(leaves, recursive_iter(root[1]))
  /\ map' = [map EXCEPT ![2] = map[1]]
  /\ ret' = NULL /\ old' = NULL /\ UNCHANGED delta

Apply(t, d) ==
  \/ /\ d.type = "CREATE"
     /\ art_insert(t, d.key, d.value) /\ MapInsert(t, d.key, d.value)
  \/ /\ d.type = "DELETE"
     /\ \E beyond \in Beyond : art_delete(t, d.key, beyond)
     /\ MapDelete(t, d.key)

(* merge_old_versions on one tree and, after the swap, on the other.       *)
MergeFirst(t, d) ==
  /\ copied /\ delta = NULL /\ Apply(t, d)
  /\ delta' = [tree |-> 3 - t, change |-> d]
  /\ UNCHANGED copied

MergeSecond ==
  /\ delta # NULL /\ Apply(delta.tree, delta.change)
  /\ delta' = NULL /\ UNCHANGED copied

Changes(key) == [type : {"CREATE"}, key : {key}, value : ValuesOf[key]]
                  \cup [type : {"DELETE"}, key : {key}]

Next ==
  \/ \E k \in Keys : \/ Load(k)
                     \/ \E t \in Trees, d \in Changes(k) : MergeFirst(t, d)
  \/ art_copy \/ MergeSecond

Spec == Init /\ [][Next]_vars

-----------------------------------------------------------------------------
(* The trees are maps, as art.h promises: whatever was inserted, deleted   *)
(* and copied before, through every growth, split, shrinking and joining   *)
(* of nodes, art_search finds the keys that were inserted and not deleted, *)
(* with their last values, and no other, even where it reads past the end  *)
(* of its key; art_insert and art_delete return the old value; and a       *)
(* change to one tree is not seen in the other.                            *)
TreesAreMaps ==
  /\ ret = old
  /\ \A t \in Trees, k \in Probes, b \in Beyond : art_search(t, k, b) = Value(t, k)

(* art_iter reaches every key and size counts them.  Listing by prefix     *)
(* misses no key that has the prefix, wherever in the compressed path of a *)
(* node the prefix ends; that it also calls back for keys that have not is *)
(* PrefixIsExact.                                                          *)
IterMissesNone ==
  \A t \in Trees :
    LET all == recursive_iter(root[t])
    IN  /\ {l.key : l \in all} = DOMAIN map[t] /\ size[t] = Cardinality(all)
        /\ \A p \in Prefixed, b \in Beyond :
             {l \in all : leaf_prefix_matches(l, p)} \subseteq art_iter_prefix(t, p, b)

(* Each leaf is counted once by each tree that holds it and is freed with  *)
(* the last: no tree reaches a leaf that was freed through the other.      *)
LeavesAreCounted ==
  LET held == [t \in Trees |-> recursive_iter(root[t])]
  IN  /\ DOMAIN leaves = UNION {held[t] : t \in Trees}
      /\ \A l \in DOMAIN leaves :
           leaves[l].ref_count = Cardinality({t \in Trees : l \in held[t]})

(* "Iterates through the entries pairs in the map, invoking a callback for *)
(* each that matches a given prefix": art_iter_prefix calls back for       *)
(* nothing else.                                                           *)
PrefixIsExact ==
  \A t \in Trees, p \in Prefixed, b \in Beyond :
    \A l \in art_iter_prefix(t, p, b) : leaf_prefix_matches(l, p)
=============================================================================
