-------------------------- MODULE ConnectionProofs --------------------------
(***************************************************************************)
(* The input side of a connection, for buffers of any size, any growth and *)
(* any input: the input buffer holds exactly the bytes that were read and  *)
(* not handed out, commands are whole lines, and none is left behind.      *)
(***************************************************************************)
EXTENDS Connection, TLAPS, WellFoundedInduction

-----------------------------------------------------------------------------
(***************************************************************************)
(* Sequences, minima and remainders.                                       *)
(***************************************************************************)

\* A nonempty set of numbers has a least one.
LEMMA MinIs ==
  ASSUME NEW T \in SUBSET Nat, T # {}
  PROVE  Min(T) \in T /\ \A y \in T : Min(T) <= y
<1>1. PICK x \in T : \A y \in T : ~(<<y, x>> \in OpToRel(<, Nat))
  BY WFMin, NatLessThanWellFounded, Zenon
<1>2. ASSUME NEW y \in T PROVE x <= y
  <2>1. x \in Nat /\ y \in Nat /\ ~(<<y, x>> \in OpToRel(<, Nat))
    BY <1>1, Zenon
  <2>2. <<y, x>> \in OpToRel(<, Nat) <=> y < x
    BY <2>1, SMTT(120) DEF OpToRel
  <2>3. ~(y < x)
    BY <2>1, <2>2, Zenon
  <2>4. x \in Nat /\ y \in Nat
    BY <2>1, Zenon
  <2> QED BY <2>3, <2>4, SMTT(120)
<1> QED BY <1>1, <1>2, Zenon DEF Min

\* A cursor that passes the end of the memory once.
LEMMA ModOnce ==
  ASSUME NEW b \in Nat \ {0}, NEW a \in Nat, a < 2 * b
  PROVE  a % b = IF a < b THEN a ELSE a - b
OBVIOUS

LEMMA SpanIs ==
  ASSUME NEW a \in Nat, NEW b \in Nat
  PROVE  /\ Span(a, b) \in Seq(Nat)
         /\ Len(Span(a, b)) = IF b > a THEN b - a ELSE 0
         /\ \A i \in 1..Len(Span(a, b)) : Span(a, b)[i] = a + i - 1
BY SMTT(120) DEF Span

\* A span that does not run backwards.
LEMMA SpanFrom ==
  ASSUME NEW a \in Nat, NEW b \in Nat, a <= b
  PROVE  /\ Span(a, b) \in Seq(Nat) /\ Len(Span(a, b)) = b - a
         /\ \A i \in 1..(b - a) : Span(a, b)[i] = a + i - 1
<1>1. Span(a, b) \in Seq(Nat) /\ Len(Span(a, b)) = IF b > a THEN b - a ELSE 0
  BY SpanIs, Zenon
<1>2. Len(Span(a, b)) = b - a
  BY <1>1, SMTT(120)
<1> QED BY <1>1, <1>2, SpanIs, Zenon

LEMMA ConcatIs ==
  ASSUME NEW S, NEW s \in Seq(S), NEW t \in Seq(S)
  PROVE  /\ s \o t \in Seq(S) /\ Len(s \o t) = Len(s) + Len(t)
         /\ \A i \in 1..(Len(s) + Len(t)) :
              (s \o t)[i] = IF i <= Len(s) THEN s[i] ELSE t[i - Len(s)]
BY SMTT(120)

LEMMA PrefixIs ==
  ASSUME NEW S, NEW s \in Seq(S), NEW k \in 0..Len(s)
  PROVE  /\ SubSeq(s, 1, k) \in Seq(S) /\ Len(SubSeq(s, 1, k)) = k
         /\ \A i \in 1..k : SubSeq(s, 1, k)[i] = s[i]
BY SMTT(120)

LEMMA FunctionIsSeq ==
  ASSUME NEW n \in Nat, NEW S, NEW f \in [1..n -> S]
  PROVE  f \in Seq(S) /\ Len(f) = n
OBVIOUS

LEMMA SameSeq ==
  ASSUME NEW S, NEW s \in Seq(S), NEW t \in Seq(S), Len(s) = Len(t),
         \A i \in 1..Len(s) : s[i] = t[i]
  PROVE  s = t
BY SMTT(120)

-----------------------------------------------------------------------------
(***************************************************************************)
(* The circular buffer.  Cursors that come from readv and from             *)
(* extract_to_terminator: only read_cursor may stand at buf_size.          *)
(***************************************************************************)

Memory == UNION {[0..(n - 1) -> Nat] : n \in Nat}

Fits(buf) ==
  /\ buf \in [write_cursor : Nat, read_cursor : Nat, buf_size : Nat, buffer : Memory]
  /\ buf.buf_size > 1
  /\ buf.read_cursor <= buf.buf_size /\ buf.write_cursor < buf.buf_size
  /\ buf.buffer \in [0..(buf.buf_size - 1) -> Nat]

\* The i-th address from cursor r on, around the end of a memory of size s.
At(r, s, i) == IF r + i - 1 < s THEN r + i - 1 ELSE r + i - 1 - s

\* How many addresses there are from r up to w.
Used(r, w, s) == IF w < r THEN s - r + w ELSE w - r

\* The unread bytes of buf are t + 1 .. g.
Keeps(buf, t, g) ==
  /\ Fits(buf) /\ t \in Nat /\ g \in Nat /\ t <= g
  /\ Used(buf.read_cursor, buf.write_cursor, buf.buf_size) = g - t
  /\ \A i \in 1..(g - t) : buf.buffer[At(buf.read_cursor, buf.buf_size, i)] = t + i

\* Two addresses at a distance less than the size are different.
LEMMA AtIs ==
  ASSUME NEW s \in Nat \ {0}, NEW r \in 0..s, NEW i \in 1..s
  PROVE  /\ At(r, s, i) \in 0..(s - 1)
         /\ \A j \in 1..s : At(r, s, i) = At(r, s, j) => i = j
BY SMTT(120) DEF At

\* The unread addresses go from the read cursor round to the write cursor.
LEMMA UnreadIs ==
  ASSUME NEW buf, Fits(buf)
  PROVE  /\ Unread(buf) \in Seq(Nat)
         /\ Len(Unread(buf)) = Used(buf.read_cursor, buf.write_cursor, buf.buf_size)
         /\ \A i \in 1..Len(Unread(buf)) :
              Unread(buf)[i] = At(buf.read_cursor, buf.buf_size, i)
         /\ Used(buf.read_cursor, buf.write_cursor, buf.buf_size) \in 0..(buf.buf_size - 1)
<1> DEFINE r == buf.read_cursor
           w == buf.write_cursor
           s == buf.buf_size
<1>1. r \in Nat /\ w \in Nat /\ s \in Nat /\ r <= s /\ w < s /\ s > 1
  BY SMTT(120) DEF Fits
<1>2. Unread(buf) = IF w < r THEN Span(r, s) \o Span(0, w) ELSE Span(r, w)
  BY Zenon DEF Unread
<1> HIDE DEF r, w, s
<1>3. CASE w < r
  <2>1. /\ Span(r, s) \in Seq(Nat) /\ Len(Span(r, s)) = s - r
        /\ \A i \in 1..(s - r) : Span(r, s)[i] = r + i - 1
    BY <1>1, SpanFrom, Zenon
  <2>2. /\ Span(0, w) \in Seq(Nat) /\ Len(Span(0, w)) = w
        /\ \A i \in 1..w : Span(0, w)[i] = i - 1
    <3>1. 0 \in Nat /\ 0 <= w /\ w - 0 = w /\ \A i \in 1..w : 0 + i - 1 = i - 1
      BY <1>1, SMTT(120)
    <3>2. /\ Span(0, w) \in Seq(Nat) /\ Len(Span(0, w)) = w - 0
          /\ \A i \in 1..(w - 0) : Span(0, w)[i] = 0 + i - 1
      BY <1>1, <3>1, SpanFrom, Zenon
    <3> QED BY <3>1, <3>2, Zenon
  <2>3. /\ Unread(buf) \in Seq(Nat) /\ Len(Unread(buf)) = (s - r) + w
        /\ \A i \in 1..((s - r) + w) :
             Unread(buf)[i] = IF i <= s - r THEN Span(r, s)[i] ELSE Span(0, w)[i - (s - r)]
    <3> DEFINE a == Span(r, s)
               b == Span(0, w)
    <3>1. Unread(buf) = a \o b
      BY <1>2, <1>3, Zenon
    <3>2. a \in Seq(Nat) /\ b \in Seq(Nat) /\ Len(a) = s - r /\ Len(b) = w
      BY <2>1, <2>2, Zenon
    <3> HIDE DEF a, b
    <3>3. /\ a \o b \in Seq(Nat) /\ Len(a \o b) = Len(a) + Len(b)
          /\ \A i \in 1..(Len(a) + Len(b)) :
               (a \o b)[i] = IF i <= Len(a) THEN a[i] ELSE b[i - Len(a)]
      BY <3>2, ConcatIs, Zenon
    <3> QED BY <3>1, <3>2, <3>3, SMTT(120) DEF a, b
  <2>4. \A i \in 1..((s - r) + w) : Unread(buf)[i] = At(r, s, i)
    BY <1>1, <1>3, <2>1, <2>2, <2>3, SMTT(120) DEF At
  <2>5. Used(r, w, s) = (s - r) + w /\ Used(r, w, s) \in 0..(s - 1)
    BY <1>1, <1>3, SMTT(120) DEF Used
  <2> QED BY <2>3, <2>4, <2>5, Zenon DEF r, w, s
<1>4. CASE ~(w < r)
  <2>1. /\ Span(r, w) \in Seq(Nat) /\ Len(Span(r, w)) = w - r
        /\ \A i \in 1..(w - r) : Span(r, w)[i] = r + i - 1
    <3>1. r <= w
      BY <1>1, <1>4, SMTT(120)
    <3> QED BY <1>1, <3>1, SpanFrom, Zenon
  <2>2. \A i \in 1..(w - r) : Span(r, w)[i] = At(r, s, i)
    BY <1>1, <1>4, <2>1, SMTT(120) DEF At
  <2>3. Used(r, w, s) = w - r /\ Used(r, w, s) \in 0..(s - 1)
    BY <1>1, <1>4, SMTT(120) DEF Used
  <2> QED BY <1>2, <1>4, <2>1, <2>2, <2>3, Zenon DEF r, w, s
<1> QED BY <1>3, <1>4, Zenon

\* What the buffer contains.
LEMMA ContentsIs ==
  ASSUME NEW buf, Fits(buf)
  PROVE  /\ Contents(buf) \in Seq(Nat)
         /\ Len(Contents(buf)) = Used(buf.read_cursor, buf.write_cursor, buf.buf_size)
         /\ \A i \in 1..Len(Contents(buf)) :
              Contents(buf)[i] = buf.buffer[At(buf.read_cursor, buf.buf_size, i)]
<1> DEFINE r == buf.read_cursor
           s == buf.buf_size
           n == Len(Unread(buf))
<1>1. /\ n \in 0..(s - 1) /\ \A i \in 1..n : Unread(buf)[i] = At(r, s, i)
      /\ n = Used(r, buf.write_cursor, s)
  BY UnreadIs, Zenon
<1>2. r \in Nat /\ s \in Nat /\ s > 1 /\ r <= s /\ buf.buffer \in [0..(s - 1) -> Nat]
  BY SMTT(120) DEF Fits
<1>3. Contents(buf) = [i \in 1..n |-> buf.buffer[Unread(buf)[i]]]
  BY Zenon DEF Contents, Fetch
<1> HIDE DEF r, s, n
<1>4. \A i \in 1..n : At(r, s, i) \in 0..(s - 1)
  BY <1>1, <1>2, SMTT(120) DEF At
<1>5. \A i \in 1..n : buf.buffer[Unread(buf)[i]] \in Nat
  BY <1>1, <1>2, <1>4, Zenon
<1>6. Contents(buf) \in [1..n -> Nat] /\ n \in Nat
  BY <1>1, <1>2, <1>3, <1>5, SMTT(120)
<1>7. Contents(buf) \in Seq(Nat) /\ Len(Contents(buf)) = n
  BY <1>6, FunctionIsSeq, Zenon
<1>8. \A i \in 1..n : Contents(buf)[i] = buf.buffer[At(r, s, i)]
  BY <1>1, <1>3, Zenon
<1> QED BY <1>1, <1>7, <1>8, Zenon DEF r, s, n

\* A buffer that keeps the bytes t + 1 .. g contains just them.
LEMMA KeepsIsExact ==
  ASSUME NEW buf, NEW t, NEW g, Keeps(buf, t, g)
  PROVE  Contents(buf) = Bytes(t + 1, g)
<1>1. Fits(buf) /\ t \in Nat /\ g \in Nat /\ t <= g
  BY Zenon DEF Keeps
<1>2. /\ Contents(buf) \in Seq(Nat) /\ Len(Contents(buf)) = g - t
      /\ \A i \in 1..(g - t) : Contents(buf)[i] = t + i
  BY <1>1, ContentsIs, Zenon DEF Keeps
<1>3. /\ Span(t + 1, g + 1) \in Seq(Nat) /\ Len(Span(t + 1, g + 1)) = g - t
      /\ \A i \in 1..(g - t) : Span(t + 1, g + 1)[i] = t + i
  <2>1. /\ t + 1 \in Nat /\ g + 1 \in Nat /\ t + 1 <= g + 1 /\ (g + 1) - (t + 1) = g - t
        /\ \A i \in 1..(g - t) : (t + 1) + i - 1 = t + i
    BY <1>1, SMTT(120)
  <2>2. /\ Span(t + 1, g + 1) \in Seq(Nat) /\ Len(Span(t + 1, g + 1)) = (g + 1) - (t + 1)
        /\ \A i \in 1..((g + 1) - (t + 1)) : Span(t + 1, g + 1)[i] = (t + 1) + i - 1
    BY <2>1, SpanFrom, Zenon
  <2> QED BY <2>1, <2>2, Zenon
<1> QED BY <1>2, <1>3, SameSeq, Zenon DEF Bytes

-----------------------------------------------------------------------------
(***************************************************************************)
(* Growth and reading keep what is unread.                                 *)
(***************************************************************************)

LEMMA Larger ==
  ASSUME NEW s \in Nat
  PROVE  s * CONN_BUF_MULTIPLIER \in Nat /\ s * CONN_BUF_MULTIPLIER >= s + s
BY BufferAssumption, SMTT(120)

\* circbuf_grow_buf moves the unread bytes to the start of a larger memory.
LEMMA GrowKeeps ==
  ASSUME NEW buf, NEW t, NEW g, Keeps(buf, t, g)
  PROVE  Keeps(circbuf_grow_buf(buf), t, g)
<1> DEFINE s == buf.buf_size
           N == s * CONN_BUF_MULTIPLIER
           kept == Contents(buf)
           new == circbuf_grow_buf(buf)
           mem == [a \in 0..(N - 1) |-> IF a < Len(kept) THEN kept[a + 1] ELSE NUL]
<1>1. /\ t \in Nat /\ g \in Nat /\ t <= g /\ s \in Nat /\ s > 1
      /\ g - t \in 0..(s - 1)
  <2>1. Fits(buf) /\ Used(buf.read_cursor, buf.write_cursor, buf.buf_size) = g - t
    BY Zenon DEF Keeps
  <2>2. s \in Nat /\ s > 1
    BY <2>1, SMTT(120) DEF Fits
  <2> QED BY <2>1, <2>2, UnreadIs, Zenon DEF Keeps
<1>2. /\ kept \in Seq(Nat) /\ Len(kept) = g - t
      /\ \A i \in 1..(g - t) : kept[i] = t + i
  <2>1. Fits(buf)
    BY Zenon DEF Keeps
  <2> QED BY <2>1, ContentsIs, Zenon DEF Keeps
<1>3. N \in Nat /\ N >= s + s
  BY <1>1, Larger, Zenon
<1>4. new = [write_cursor |-> Len(kept), read_cursor |-> 0, buf_size |-> N, buffer |-> mem]
  BY Zenon DEF circbuf_grow_buf
<1> HIDE DEF s, N, kept, new
<1>5. mem \in [0..(N - 1) -> Nat] /\ \A i \in 1..(g - t) : mem[i - 1] = t + i
  <2>1. \A a \in 0..(N - 1) : a < g - t => kept[a + 1] = t + (a + 1)
    BY <1>1, <1>2, <1>3, SMTT(120)
  <2> QED BY <1>1, <1>2, <1>3, <2>1, SMTT(120) DEF NUL
<1> HIDE DEF mem
<1>6. mem \in Memory
  BY <1>3, <1>5, Zenon DEF Memory
<1>7. /\ new.write_cursor = g - t /\ new.read_cursor = 0 /\ new.buf_size = N /\ new.buffer = mem
      /\ new \in [write_cursor : Nat, read_cursor : Nat, buf_size : Nat, buffer : Memory]
  BY <1>1, <1>2, <1>3, <1>4, <1>6, SMTT(120)
<1>8. Fits(new)
  <2>1. N > 1 /\ 0 <= N /\ g - t < N
    BY <1>1, <1>3, SMTT(120)
  <2> QED BY <1>5, <1>7, <2>1, Zenon DEF Fits
<1>9. Used(0, g - t, N) = g - t
  BY <1>1, SMTT(120) DEF Used
<1>10. \A i \in 1..(g - t) : At(0, N, i) = i - 1
  BY <1>1, <1>3, SMTT(120) DEF At
<1>11. \A i \in 1..(g - t) : mem[At(0, N, i)] = t + i
  BY <1>5, <1>10, Zenon
<1>12. Keeps(new, t, g)
  BY <1>1, <1>7, <1>8, <1>9, <1>11, Zenon DEF Keeps
<1> QED BY <1>12, Zenon DEF new

\* read_client_data grows the buffer when it is half full.
LEMMA RoomyKeeps ==
  ASSUME NEW buf, NEW t, NEW g, Keeps(buf, t, g)
  PROVE  Keeps(Roomy(buf), t, g)
BY GrowKeeps, Zenon DEF Roomy

\* The free addresses go from the write cursor round to one before the read
\* cursor.
LEMMA FreeIs ==
  ASSUME NEW buf, Fits(buf)
  PROVE  LET r == buf.read_cursor
             w == buf.write_cursor
             s == buf.buf_size
             addrs == circbuf_setup_readv_iovec(buf)
         IN  /\ addrs \in Seq(Nat) /\ Len(addrs) = s - 1 - Used(r, w, s)
             /\ \A i \in 1..Len(addrs) : addrs[i] = At(w, s, i)
<1> DEFINE r == buf.read_cursor
           w == buf.write_cursor
           s == buf.buf_size
           addrs == circbuf_setup_readv_iovec(buf)
<1> SUFFICES /\ addrs \in Seq(Nat) /\ Len(addrs) = s - 1 - Used(r, w, s)
             /\ \A i \in 1..Len(addrs) : addrs[i] = At(w, s, i)
  BY Zenon
<1>1. r \in Nat /\ w \in Nat /\ s \in Nat /\ r <= s /\ w < s /\ s > 1
  BY SMTT(120) DEF Fits
<1>2. addrs = IF w < r THEN Span(w, r - 1)
              ELSE IF r > 0 THEN Span(w, s) \o Span(0, r - 1) ELSE Span(w, s - 1)
  BY Zenon DEF circbuf_setup_readv_iovec
<1> HIDE DEF r, w, s, addrs
<1>3. ASSUME NEW b \in Nat, w <= b, b <= s, addrs = Span(w, b), b - w = s - 1 - Used(r, w, s)
      PROVE  /\ addrs \in Seq(Nat) /\ Len(addrs) = s - 1 - Used(r, w, s)
             /\ \A i \in 1..Len(addrs) : addrs[i] = At(w, s, i)
  <2>1. /\ addrs \in Seq(Nat) /\ Len(addrs) = b - w
        /\ \A i \in 1..(b - w) : addrs[i] = w + i - 1
    BY <1>1, <1>3, SpanFrom, Zenon
  <2>2. \A i \in 1..(b - w) : w + i - 1 = At(w, s, i)
    BY <1>1, <1>3, SMTT(120) DEF At
  <2> QED BY <1>3, <2>1, <2>2, Zenon
<1>4. CASE w < r
  <2>1. r - 1 \in Nat /\ w <= r - 1 /\ r - 1 <= s /\ (r - 1) - w = s - 1 - Used(r, w, s)
    BY <1>1, <1>4, SMTT(120) DEF Used
  <2> QED BY <1>2, <1>3, <1>4, <2>1, Zenon
<1>5. CASE ~(w < r) /\ ~(r > 0)
  <2>1. s - 1 \in Nat /\ w <= s - 1 /\ s - 1 <= s /\ (s - 1) - w = s - 1 - Used(r, w, s)
    BY <1>1, <1>5, SMTT(120) DEF Used
  <2> QED BY <1>2, <1>3, <1>5, <2>1, Zenon
<1>6. CASE ~(w < r) /\ r > 0
  <2> DEFINE a == Span(w, s)
             b == Span(0, r - 1)
  <2>1. /\ a \in Seq(Nat) /\ Len(a) = s - w /\ \A i \in 1..(s - w) : a[i] = w + i - 1
    <3>1. w <= s
      BY <1>1, SMTT(120)
    <3> QED BY <1>1, <3>1, SpanFrom, Zenon
  <2>2. /\ b \in Seq(Nat) /\ Len(b) = (r - 1) - 0 /\ \A i \in 1..((r - 1) - 0) : b[i] = 0 + i - 1
    <3>1. 0 \in Nat /\ r - 1 \in Nat /\ 0 <= r - 1
      BY <1>1, <1>6, SMTT(120)
    <3> QED BY <3>1, SpanFrom, Zenon
  <2>3. addrs = a \o b
    BY <1>2, <1>6, Zenon
  <2> HIDE DEF a, b
  <2>4. /\ a \o b \in Seq(Nat) /\ Len(a \o b) = Len(a) + Len(b)
        /\ \A i \in 1..(Len(a) + Len(b)) :
             (a \o b)[i] = IF i <= Len(a) THEN a[i] ELSE b[i - Len(a)]
    BY <2>1, <2>2, ConcatIs, Zenon
  <2>5. Len(a) + Len(b) = s - 1 - Used(r, w, s)
    BY <1>1, <1>6, <2>1, <2>2, SMTT(120) DEF Used
  <2>6. \A i \in 1..(Len(a) + Len(b)) : (a \o b)[i] = At(w, s, i)
    BY <1>1, <1>6, <2>1, <2>2, <2>4, SMTT(120) DEF At
  <2> QED BY <2>3, <2>4, <2>5, <2>6, Zenon
<1> QED BY <1>4, <1>5, <1>6, Zenon

\* new is the memory old with the bytes at their addresses and nothing else
\* changed.
Stored(new, D, old, addrs, bytes) ==
  /\ new \in [D -> Nat]
  /\ \A i \in 1..Len(bytes) : new[addrs[i]] = bytes[i]
  /\ \A a \in D : (\A i \in 1..Len(bytes) : addrs[i] # a) => new[a] = old[a]

\* memcpy writes the bytes to their addresses and nothing else.
LEMMA StoreIs ==
  ASSUME NEW D, NEW mem \in [D -> Nat], NEW addrs, NEW bytes \in Seq(Nat),
         \A i \in 1..Len(bytes) : addrs[i] \in D,
         \A i, j \in 1..Len(bytes) : addrs[i] = addrs[j] => i = j
  PROVE  Stored(Store(mem, addrs, bytes), D, mem, addrs, bytes)
<1> DEFINE Here(a) == \E i \in 1..Len(bytes) : addrs[i] = a
           Which(a) == CHOOSE i \in 1..Len(bytes) : addrs[i] = a
<1>1. DOMAIN mem = D
  BY Zenon
<1>2. Store(mem, addrs, bytes) =
        [a \in D |-> IF Here(a) THEN bytes[Which(a)] ELSE mem[a]]
  BY <1>1, Zenon DEF Store
<1>3. \A a : Here(a) => Which(a) \in 1..Len(bytes) /\ addrs[Which(a)] = a
  BY Zenon
<1>4. \A i \in 1..Len(bytes) : bytes[i] \in Nat
  BY SMTT(120)
<1>5. \A i \in 1..Len(bytes) : Here(addrs[i]) /\ Which(addrs[i]) = i
  <2>1. \A i \in 1..Len(bytes) : Here(addrs[i])
    BY Zenon
  <2> QED BY <1>3, <2>1, Zenon
<1>6. \A a \in D : Here(a) => bytes[Which(a)] \in Nat
  BY <1>3, <1>4, Zenon
<1>7. \A a \in D : mem[a] \in Nat
  BY Zenon
<1> HIDE DEF Here, Which
<1>8. Store(mem, addrs, bytes) \in [D -> Nat]
  BY <1>2, <1>6, <1>7, SMTT(120)
<1>9. \A i \in 1..Len(bytes) : Store(mem, addrs, bytes)[addrs[i]] = bytes[i]
  BY <1>2, <1>5, Zenon
<1>10. \A a \in D : ~Here(a) => Store(mem, addrs, bytes)[a] = mem[a]
  BY <1>2, Zenon
<1> QED BY <1>8, <1>9, <1>10, Zenon DEF Here, Stored

\* The bytes m + 1 .. n of a stream.
LEMMA BytesAre ==
  ASSUME NEW m \in Nat, NEW k \in Nat
  PROVE  /\ Bytes(m + 1, m + k) \in Seq(Nat) /\ Len(Bytes(m + 1, m + k)) = k
         /\ \A i \in 1..k : Bytes(m + 1, m + k)[i] = m + i
<1>1. /\ m + 1 \in Nat /\ (m + k) + 1 \in Nat /\ m + 1 <= (m + k) + 1
      /\ ((m + k) + 1) - (m + 1) = k /\ \A i \in 1..k : (m + 1) + i - 1 = m + i
  BY SMTT(120)
<1>2. /\ Span(m + 1, (m + k) + 1) \in Seq(Nat)
      /\ Len(Span(m + 1, (m + k) + 1)) = ((m + k) + 1) - (m + 1)
      /\ \A i \in 1..(((m + k) + 1) - (m + 1)) : Span(m + 1, (m + k) + 1)[i] = (m + 1) + i - 1
  BY <1>1, SpanFrom, Zenon
<1> QED BY <1>1, <1>2, Zenon DEF Bytes

\* Fewer addresses than the memory has are all different.
LEMMA PlacesDiffer ==
  ASSUME NEW w \in Nat, NEW s \in Nat, NEW n \in Nat, w < s, n <= s - 1
  PROVE  /\ \A i \in 1..n : At(w, s, i) \in 0..(s - 1)
         /\ \A i, j \in 1..n : At(w, s, i) = At(w, s, j) => i = j
<1>1. ASSUME NEW i \in 1..n PROVE At(w, s, i) \in 0..(s - 1)
  BY SMTT(120) DEF At
<1>2. ASSUME NEW i \in 1..n, NEW j \in 1..n, At(w, s, i) = At(w, s, j) PROVE i = j
  BY <1>2, SMTT(120) DEF At
<1> QED BY <1>1, <1>2, Zenon

\* readv adds what it reads behind what is unread, and overwrites none of it.
LEMMA ReadKeeps ==
  ASSUME NEW buf, NEW t, NEW g, Keeps(buf, t, g),
         NEW n \in 1..Len(circbuf_setup_readv_iovec(buf))
  PROVE  Keeps(circbuf_advance_write(
                 [buf EXCEPT !.buffer =
                    Store(@, circbuf_setup_readv_iovec(buf), Bytes(g + 1, g + n))], n),
               t, g + n)
<1> DEFINE r == buf.read_cursor
           w == buf.write_cursor
           s == buf.buf_size
           addrs == circbuf_setup_readv_iovec(buf)
           bytes == Bytes(g + 1, g + n)
           mem == Store(buf.buffer, addrs, bytes)
           mid == [buf EXCEPT !.buffer = mem]
           new == circbuf_advance_write(mid, n)
<1>1. /\ Fits(buf) /\ t \in Nat /\ g \in Nat /\ t <= g /\ Used(r, w, s) = g - t
      /\ \A i \in 1..(g - t) : buf.buffer[At(r, s, i)] = t + i
  BY Zenon DEF Keeps
<1>2. /\ r \in Nat /\ w \in Nat /\ s \in Nat /\ r <= s /\ w < s /\ s > 1
      /\ buf \in [write_cursor : Nat, read_cursor : Nat, buf_size : Nat, buffer : Memory]
      /\ buf.buffer \in [0..(s - 1) -> Nat]
  BY <1>1, SMTT(120) DEF Fits
<1>3. addrs \in Seq(Nat) /\ Len(addrs) = s - 1 - (g - t) /\ \A i \in 1..Len(addrs) : addrs[i] = At(w, s, i)
  BY <1>1, FreeIs, Zenon
<1>4. n \in Nat /\ n >= 1 /\ (g - t) + n <= s - 1
  BY <1>1, <1>2, <1>3, SMTT(120)
<1>5. bytes \in Seq(Nat) /\ Len(bytes) = n /\ \A i \in 1..n : bytes[i] = g + i
  BY <1>1, <1>4, BytesAre, Zenon
<1>6. new = [mid EXCEPT !.write_cursor = (mid.write_cursor + n) % mid.buf_size]
  BY Zenon DEF circbuf_advance_write
<1>7. \A i \in 1..n : addrs[i] = At(w, s, i)
  BY <1>3, <1>4, SMTT(120)
<1> HIDE DEF r, w, s, addrs, bytes, new, mid, mem
<1>8. /\ \A i \in 1..n : At(w, s, i) \in 0..(s - 1)
      /\ \A i, j \in 1..n : At(w, s, i) = At(w, s, j) => i = j
  <2>1. n <= s - 1
    <3>1. t \in Nat /\ g \in Nat /\ t <= g /\ s \in Nat
      BY <1>1, <1>2, Zenon
    <3> QED BY <1>4, <3>1, SMTT(120)
  <2> QED BY <1>2, <1>4, <2>1, PlacesDiffer, Zenon
<1>9. /\ mem \in [0..(s - 1) -> Nat]
      /\ \A i \in 1..n : mem[At(w, s, i)] = g + i
      /\ \A a \in 0..(s - 1) : (\A i \in 1..n : At(w, s, i) # a) => mem[a] = buf.buffer[a]
  <2>1. /\ \A i \in 1..Len(bytes) : addrs[i] \in 0..(s - 1)
        /\ \A i, j \in 1..Len(bytes) : addrs[i] = addrs[j] => i = j
    <3>1. Len(bytes) = n
      BY <1>5, Zenon
    <3>2. /\ \A i \in 1..n : addrs[i] \in 0..(s - 1)
          /\ \A i, j \in 1..n : addrs[i] = addrs[j] => i = j
      BY <1>7, <1>8, SMTT(120)
    <3> QED BY <3>1, <3>2, SMTT(120)
  <2>2. /\ mem \in [0..(s - 1) -> Nat]
        /\ \A i \in 1..Len(bytes) : mem[addrs[i]] = bytes[i]
        /\ \A a \in 0..(s - 1) : (\A i \in 1..Len(bytes) : addrs[i] # a) => mem[a] = buf.buffer[a]
    <3>1. bytes \in Seq(Nat) /\ buf.buffer \in [0..(s - 1) -> Nat]
      BY <1>2, <1>5, Zenon
    <3>2. PICK old, D : old = buf.buffer /\ D = 0..(s - 1)
      OBVIOUS
    <3>3. /\ old \in [D -> Nat] /\ \A i \in 1..Len(bytes) : addrs[i] \in D
          /\ mem = Store(old, addrs, bytes)
      BY <2>1, <3>1, <3>2, Zenon DEF mem
    <3>4. Stored(Store(old, addrs, bytes), D, old, addrs, bytes)
      BY <2>1, <3>1, <3>3, StoreIs, Zenon
    <3> QED BY <3>2, <3>3, <3>4, Zenon DEF Stored
  <2> QED BY <1>5, <1>7, <2>2, ZenonT(60)
<1>10. mem \in Memory
  BY <1>2, <1>9, Zenon DEF Memory
<1>11. /\ mid \in [write_cursor : Nat, read_cursor : Nat, buf_size : Nat, buffer : Memory]
       /\ mid.write_cursor = w /\ mid.read_cursor = r /\ mid.buf_size = s /\ mid.buffer = mem
  BY <1>2, <1>10, SMTT(120) DEF mid, r, w, s
<1>12. PICK x : x = (w + n) % s
  OBVIOUS
<1>13. x = (IF w + n < s THEN w + n ELSE w + n - s) /\ x \in Nat /\ x < s
  <2>1. w + n \in Nat /\ w + n < 2 * s /\ s \in Nat \ {0}
    BY <1>1, <1>2, <1>4, SMTT(120)
  <2>2. x = IF w + n < s THEN w + n ELSE w + n - s
    <3>1. PICK m \in Nat : m = w + n
      BY <2>1, Zenon
    <3>2. x = m % s /\ m < 2 * s
      BY <1>12, <2>1, <3>1, Zenon
    <3>3. m % s = IF m < s THEN m ELSE m - s
      BY <2>1, <3>2, ModOnce, Zenon
    <3>4. x = IF m < s THEN m ELSE m - s
      BY <3>2, <3>3, Zenon
    <3> QED BY <1>2, <1>4, <3>1, <3>4, SMTT(120)
  <2> QED BY <1>2, <1>4, <2>1, <2>2, SMTT(120)
<1>14. /\ new \in [write_cursor : Nat, read_cursor : Nat, buf_size : Nat, buffer : Memory]
       /\ new.write_cursor = x /\ new.read_cursor = r /\ new.buf_size = s /\ new.buffer = mem
  <2>1. new = [mid EXCEPT !.write_cursor = x]
    BY <1>6, <1>11, <1>12, Zenon
  <2> QED BY <1>11, <1>13, <2>1, SMTT(120)
<1>15. Fits(new)
  BY <1>2, <1>9, <1>13, <1>14, Zenon DEF Fits
<1>16. Used(r, x, s) = (g + n) - t
  BY <1>1, <1>2, <1>4, <1>13, SMTT(120) DEF Used
<1>17. ASSUME NEW i \in 1..((g + n) - t) PROVE mem[At(r, s, i)] = t + i
  <2>1. CASE i <= g - t
    <3>1. i \in 1..(g - t) /\ At(r, s, i) \in 0..(s - 1)
      BY <1>1, <1>2, <1>4, <1>17, <2>1, SMTT(120) DEF At
    <3>2. \A j \in 1..n : At(w, s, j) # At(r, s, i)
      BY <1>1, <1>2, <1>4, <1>17, <2>1, SMTT(120) DEF At, Used
    <3> QED BY <1>1, <1>9, <3>1, <3>2, Zenon
  <2>2. CASE i > g - t
    <3>1. PICK j \in 1..n : j = i - (g - t)
      BY <1>1, <1>4, <1>17, <2>2, SMTT(120)
    <3>2. At(r, s, i) = At(w, s, j) /\ g + j = t + i
      BY <1>1, <1>2, <1>4, <1>17, <2>2, <3>1, SMTT(120) DEF At, Used
    <3> QED BY <1>9, <3>1, <3>2, Zenon
  <2> QED BY <1>1, <1>17, <2>1, <2>2, SMTT(120)
<1>18. g + n \in Nat /\ t <= g + n
  BY <1>1, <1>4, SMTT(120)
<1>19. Keeps(new, t, g + n)
  BY <1>1, <1>14, <1>15, <1>16, <1>17, <1>18, Zenon DEF Keeps
<1> QED BY <1>19, Zenon DEF new, mid, mem, addrs, bytes

-----------------------------------------------------------------------------
(***************************************************************************)
(* extract_to_terminator.                                                  *)
(***************************************************************************)

\* The address k of addrs holds the first line end among them.
EndsAt(addrs, k) ==
  /\ k \in 1..Len(addrs) /\ input.buffer[addrs[k]] \in terms
  /\ \A i \in 1..(k - 1) : input.buffer[addrs[i]] \notin terms

\* memchr finds the first line end, or there is none.
LEMMA MemchrIs ==
  ASSUME NEW addrs \in Seq(Nat)
  PROVE  \/ /\ memchr(addrs) = <<>>
            /\ \A i \in 1..Len(addrs) : input.buffer[addrs[i]] \notin terms
         \/ \E k \in 1..Len(addrs) :
              /\ EndsAt(addrs, k) /\ memchr(addrs) # <<>>
              /\ memchr(addrs) \in Seq(Nat) /\ Len(memchr(addrs)) = k
              /\ \A i \in 1..k : memchr(addrs)[i] = addrs[i]
<1> DEFINE found == {i \in 1..Len(addrs) : input.buffer[addrs[i]] \in terms}
<1>1. memchr(addrs) = IF found = {} THEN <<>> ELSE SubSeq(addrs, 1, Min(found))
  BY Zenon DEF memchr
<1>2. CASE found = {}
  <2>1. \A i \in 1..Len(addrs) : input.buffer[addrs[i]] \notin terms
    BY <1>2, Zenon
  <2> QED BY <1>1, <1>2, <2>1, Zenon
<1>3. CASE found # {}
  <2>1. found \in SUBSET Nat
    BY SMTT(120)
  <2>2. Min(found) \in found /\ \A y \in found : Min(found) <= y
    BY <1>3, <2>1, MinIs, Zenon
  <2>3. PICK k \in 1..Len(addrs) : /\ k = Min(found) /\ input.buffer[addrs[k]] \in terms
                                   /\ \A y \in found : k <= y
    BY <2>2, Zenon
  <2>4. \A i \in 1..(k - 1) : input.buffer[addrs[i]] \notin terms
    <3>1. SUFFICES ASSUME NEW i \in 1..(k - 1), input.buffer[addrs[i]] \in terms PROVE FALSE
      BY Zenon
    <3>2. k \in Nat /\ i \in Nat /\ i \in 1..Len(addrs) /\ ~(k <= i)
      BY <2>3, <3>1, SMTT(120)
    <3> QED BY <2>3, <3>1, <3>2, Zenon
  <2>5. memchr(addrs) = SubSeq(addrs, 1, k)
    BY <1>1, <1>3, <2>3, ZenonT(60)
  <2>6. k \in 0..Len(addrs) /\ k # 0 /\ k \in 1..Len(addrs)
    BY <2>3, SMTT(120)
  <2>7. /\ SubSeq(addrs, 1, k) \in Seq(Nat) /\ Len(SubSeq(addrs, 1, k)) = k
        /\ \A i \in 1..k : SubSeq(addrs, 1, k)[i] = addrs[i]
    BY <2>6, PrefixIs, Zenon
  <2>8. Len(<<>>) = 0
    BY SMTT(120)
  <2>9. memchr(addrs) # <<>>
    BY <2>5, <2>6, <2>7, <2>8, Zenon
  <2>10. EndsAt(addrs, k)
    BY <2>3, <2>4, Zenon DEF EndsAt
  <2>11. /\ memchr(addrs) \in Seq(Nat) /\ Len(memchr(addrs)) = k
         /\ \A i \in 1..k : memchr(addrs)[i] = addrs[i]
    BY <2>5, <2>7, Zenon
  <2> QED BY <2>3, <2>9, <2>10, <2>11, Zenon
<1> QED BY <1>2, <1>3, SMTT(120)

\* A buffer with its memory or a cursor replaced.
LEMMA MemoryIs ==
  ASSUME NEW buf \in [write_cursor : Nat, read_cursor : Nat, buf_size : Nat, buffer : Memory],
         NEW x \in Memory
  PROVE  LET new == [buf EXCEPT !.buffer = x] IN
         /\ new \in [write_cursor : Nat, read_cursor : Nat, buf_size : Nat, buffer : Memory]
         /\ new.write_cursor = buf.write_cursor /\ new.read_cursor = buf.read_cursor
         /\ new.buf_size = buf.buf_size /\ new.buffer = x
BY SMTT(120)

LEMMA ReadCursorIs ==
  ASSUME NEW buf \in [write_cursor : Nat, read_cursor : Nat, buf_size : Nat, buffer : Memory],
         NEW x \in Nat
  PROVE  LET new == [buf EXCEPT !.read_cursor = x] IN
         /\ new \in [write_cursor : Nat, read_cursor : Nat, buf_size : Nat, buffer : Memory]
         /\ new.write_cursor = buf.write_cursor /\ new.read_cursor = x
         /\ new.buf_size = buf.buf_size /\ new.buffer = buf.buffer
BY SMTT(120)

LEMMA WriteCursorIs ==
  ASSUME NEW buf \in [write_cursor : Nat, read_cursor : Nat, buf_size : Nat, buffer : Memory],
         NEW x \in Nat
  PROVE  LET new == [buf EXCEPT !.write_cursor = x] IN
         /\ new \in [write_cursor : Nat, read_cursor : Nat, buf_size : Nat, buffer : Memory]
         /\ new.write_cursor = x /\ new.read_cursor = buf.read_cursor
         /\ new.buf_size = buf.buf_size /\ new.buffer = buf.buffer
BY SMTT(120)

\* Both cursors reset.
LEMMA ResetIs ==
  ASSUME NEW buf \in [write_cursor : Nat, read_cursor : Nat, buf_size : Nat, buffer : Memory],
         NEW new, new = [buf EXCEPT !.read_cursor = 0, !.write_cursor = 0]
  PROVE  /\ new \in [write_cursor : Nat, read_cursor : Nat, buf_size : Nat, buffer : Memory]
         /\ new.write_cursor = 0 /\ new.read_cursor = 0
         /\ new.buf_size = buf.buf_size /\ new.buffer = buf.buffer
<1>1. PICK one : one = [buf EXCEPT !.read_cursor = 0]
  BY Zenon
<1>2. /\ one \in [write_cursor : Nat, read_cursor : Nat, buf_size : Nat, buffer : Memory]
      /\ one.write_cursor = buf.write_cursor /\ one.read_cursor = 0
      /\ one.buf_size = buf.buf_size /\ one.buffer = buf.buffer
  BY <1>1, ReadCursorIs, Zenon
<1>3. new = [one EXCEPT !.write_cursor = 0]
  BY <1>1, Zenon
<1> QED BY <1>2, <1>3, WriteCursorIs, Zenon

\* Handing out the first k unread bytes, which end with a line end, moves the
\* read cursor over exactly these, and the command is the line.
LEMMA HandTakes ==
  ASSUME Keeps(input, taken, got), NEW k \in 1..(got - taken),
         NEW addrs \in Seq(Nat), Len(addrs) = k,
         \A i \in 1..k : addrs[i] = At(input.read_cursor, input.buf_size, i),
         taken + k \in terms, \A i \in 1..(k - 1) : taken + i \notin terms,
         NEW r2 \in Nat, r2 <= input.buf_size,
         Used(r2, input.write_cursor, input.buf_size) = (got - taken) - k,
         \A i \in 1..((got - taken) - k) :
            At(r2, input.buf_size, i) = At(input.read_cursor, input.buf_size, k + i),
         NEW reset \in BOOLEAN, Hand(addrs, r2, reset)
  PROVE  Keeps(input, taken, got)' /\ CommandIsLine' /\ pc' # "loop"
<1> DEFINE r == input.read_cursor
           w == input.write_cursor
           s == input.buf_size
           mem == [input.buffer EXCEPT ![addrs[k]] = NUL]
           buf == [input EXCEPT !.buffer = mem, !.read_cursor = r2]
<1>1. /\ Fits(input) /\ taken \in Nat /\ got \in Nat /\ taken <= got /\ Used(r, w, s) = got - taken
      /\ \A i \in 1..(got - taken) : input.buffer[At(r, s, i)] = taken + i
  BY ZenonT(60) DEF Keeps
<1>2. /\ r \in Nat /\ w \in Nat /\ s \in Nat /\ r <= s /\ w < s /\ s > 1
      /\ input \in [write_cursor : Nat, read_cursor : Nat, buf_size : Nat, buffer : Memory]
      /\ input.buffer \in [0..(s - 1) -> Nat]
  BY <1>1, SMTT(120) DEF Fits
<1>3. /\ cmd' = Fetch(buf, addrs) /\ taken' = taken + k
      /\ input' = IF reset /\ r2 = buf.write_cursor
                  THEN [buf EXCEPT !.read_cursor = 0, !.write_cursor = 0] ELSE buf
      /\ pc' = "command" /\ terms' = terms /\ got' = got
  BY SMTT(120) DEF Hand
<1>4. k \in Nat /\ k >= 1 /\ k <= got - taken /\ got - taken <= s - 1 /\ k <= s - 1 /\ k \in 1..k
  BY <1>1, <1>2, SMTT(120) DEF Used
<1>5. addrs[k] = At(r, s, k)
  BY <1>4, Zenon
<1> HIDE DEF r, w, s
<1>6. /\ At(r, s, k) \in 0..(s - 1)
      /\ \A i \in 1..(s - 1) : i # k => At(r, s, i) # At(r, s, k) /\ At(r, s, i) \in 0..(s - 1)
  <2>1. s \in Nat \ {0} /\ r \in 0..s /\ k \in 1..s /\ \A i \in 1..(s - 1) : i \in 1..s
    BY <1>2, <1>4, SMTT(120)
  <2>2. /\ At(r, s, k) \in 0..(s - 1)
        /\ \A j \in 1..s : At(r, s, k) = At(r, s, j) => k = j
    BY <2>1, AtIs, Zenon
  <2>3. \A i \in 1..s : At(r, s, i) \in 0..(s - 1)
    BY <2>1, AtIs, Zenon
  <2> QED BY <2>1, <2>2, <2>3, Zenon
<1>7. mem \in [0..(s - 1) -> Nat] /\ mem[At(r, s, k)] = NUL
      /\ \A i \in 1..(s - 1) : i # k => mem[At(r, s, i)] = input.buffer[At(r, s, i)]
  BY <1>2, <1>5, <1>6, SMTT(120) DEF NUL
<1>8. mem \in Memory
  BY <1>2, <1>7, Zenon DEF Memory
<1> HIDE DEF mem
<1>9. /\ buf \in [write_cursor : Nat, read_cursor : Nat, buf_size : Nat, buffer : Memory]
      /\ buf.write_cursor = w /\ buf.read_cursor = r2 /\ buf.buf_size = s /\ buf.buffer = mem
  <2>1. PICK one : one = [input EXCEPT !.buffer = mem]
    BY Zenon
  <2>2. /\ one \in [write_cursor : Nat, read_cursor : Nat, buf_size : Nat, buffer : Memory]
        /\ one.write_cursor = w /\ one.buf_size = s /\ one.buffer = mem
    BY <1>2, <1>8, <2>1, MemoryIs, Zenon DEF w, s
  <2>3. buf = [one EXCEPT !.read_cursor = r2]
    BY <2>1, Zenon
  <2> QED BY <2>2, <2>3, ReadCursorIs, Zenon
<1> HIDE DEF buf
<1>10. Fits(buf)
  BY <1>2, <1>7, <1>9, Zenon DEF Fits, s
<1>11. \A i \in 1..((got - taken) - k) : mem[At(r2, s, i)] = (taken + k) + i
  <2>1. SUFFICES ASSUME NEW i \in 1..((got - taken) - k) PROVE mem[At(r2, s, i)] = (taken + k) + i
    BY Zenon
  <2>2. /\ k + i \in 1..(s - 1) /\ k + i # k /\ k + i \in 1..(got - taken)
        /\ taken + (k + i) = (taken + k) + i
    BY <1>1, <1>2, <1>4, <2>1, SMTT(120)
  <2>3. At(r2, s, i) = At(r, s, k + i)
    BY <2>1, ZenonT(60) DEF r, s
  <2> QED BY <1>1, <1>7, <2>2, <2>3, Zenon
<1>12. /\ taken + k \in Nat /\ taken + k <= got /\ got - (taken + k) = (got - taken) - k
  BY <1>1, <1>4, SMTT(120)
<1>13. Keeps(buf, taken + k, got)
  <2>1. Used(r2, w, s) = got - (taken + k)
    BY <1>12, Zenon DEF w, s
  <2> QED BY <1>1, <1>9, <1>10, <1>11, <1>12, <2>1, Zenon DEF Keeps
<1>14. ASSUME r2 = w PROVE Keeps([buf EXCEPT !.read_cursor = 0, !.write_cursor = 0], taken + k, got)
  <2> DEFINE new == [buf EXCEPT !.read_cursor = 0, !.write_cursor = 0]
  <2>1. /\ new \in [write_cursor : Nat, read_cursor : Nat, buf_size : Nat, buffer : Memory]
        /\ new.write_cursor = 0 /\ new.read_cursor = 0 /\ new.buf_size = s /\ new.buffer = mem
    BY <1>9, ResetIs, Zenon
  <2> HIDE DEF new
  <2>2. 0 \in Nat /\ 0 <= s /\ 0 < s
    BY <1>2, SMTT(120)
  <2>3. Fits(new)
    BY <1>2, <1>7, <2>1, <2>2, Zenon DEF Fits
  <2>4. Used(r2, w, s) = 0 /\ Used(0, 0, s) = 0
    BY <1>2, <1>14, SMTT(120) DEF Used
  <2>5. got - (taken + k) = 0
    BY <1>12, <2>4, Zenon DEF w, s
  <2>6. \A i : i \notin 1..0
    BY SMTT(120)
  <2>7. Keeps(new, taken + k, got)
    BY <1>1, <1>12, <2>1, <2>3, <2>4, <2>5, <2>6, Zenon DEF Keeps
  <2> QED BY <2>7, Zenon DEF new
<1>15. Keeps(input', taken', got')
  <2>1. CASE reset /\ r2 = buf.write_cursor
    BY <1>3, <1>9, <1>14, <2>1, Zenon
  <2>2. CASE ~(reset /\ r2 = buf.write_cursor)
    BY <1>3, <1>13, <2>2, Zenon
  <2> QED BY <2>1, <2>2, SMTT(120)
<1>16. /\ Len(cmd') = k /\ cmd'[k] = NUL
       /\ \A i \in 1..(k - 1) : cmd'[i] = taken + i
  <2>1. cmd' = [i \in 1..k |-> mem[addrs[i]]]
    BY <1>3, <1>9, Zenon DEF Fetch
  <2>2. Len(cmd') = k
    BY <1>4, <2>1, SMTT(120)
  <2>3. k \in 1..k /\ \A i \in 1..(k - 1) : /\ i \in 1..k /\ i # k /\ i \in 1..(s - 1)
                                            /\ i \in 1..(got - taken)
    BY <1>1, <1>2, <1>4, SMTT(120)
  <2>4. \A i \in 1..k : cmd'[i] = mem[At(r, s, i)]
    BY <2>1, Zenon DEF r, s
  <2> QED BY <1>1, <1>7, <2>2, <2>3, <2>4, Zenon
<1>17. \A i \in 1..(k - 1) : taken' - k + i = taken + i
  BY <1>1, <1>3, <1>4, SMTT(120)
<1>18. CommandIsLine'
  <2>1. taken' \in terms'
    BY <1>3, Zenon
  <2> QED BY <1>3, <1>16, <1>17, <2>1, Zenon DEF CommandIsLine
<1> QED BY <1>3, <1>15, <1>18, Zenon

\* What the cursors say of the input buffer.
LEMMA InputIs ==
  ASSUME Keeps(input, taken, got)
  PROVE  /\ input.read_cursor \in Nat /\ input.write_cursor \in Nat
         /\ input.buf_size \in Nat /\ input.read_cursor <= input.buf_size
         /\ input.write_cursor < input.buf_size
         /\ taken \in Nat /\ got \in Nat
         /\ got - taken = Used(input.read_cursor, input.write_cursor, input.buf_size)
         /\ \A i \in 1..(got - taken) :
              input.buffer[At(input.read_cursor, input.buf_size, i)] = taken + i
<1>1. Fits(input) => /\ input.read_cursor \in Nat /\ input.write_cursor \in Nat
                     /\ input.buf_size \in Nat /\ input.read_cursor <= input.buf_size
                     /\ input.write_cursor < input.buf_size
  BY SMTT(120) DEF Fits
<1> QED BY <1>1, Zenon DEF Keeps

\* The line ends before the end of the memory.
LEMMA ToEndStep ==
  ASSUME Keeps(input, taken, got), ExtractToEnd
  PROVE  Keeps(input, taken, got)' /\ CommandIsLine' /\ pc' # "loop"
<1> DEFINE r == input.read_cursor
           w == input.write_cursor
           s == input.buf_size
           line == memchr(ToEnd)
<1>1. /\ r \in Nat /\ w \in Nat /\ s \in Nat /\ r <= s /\ w < s
      /\ taken \in Nat /\ got \in Nat /\ got - taken = Used(r, w, s)
      /\ \A i \in 1..(got - taken) : input.buffer[At(r, s, i)] = taken + i
  BY InputIs, Zenon
<1>2. w < r /\ line # <<>> /\ Hand(line, r + Len(line), FALSE)
  BY Zenon DEF ExtractToEnd, Wrapped
<1>3. ToEnd \in Seq(Nat) /\ Len(ToEnd) = s - r /\ \A i \in 1..(s - r) : ToEnd[i] = r + i - 1
  BY <1>1, SpanFrom, Zenon DEF ToEnd
<1>4. PICK k \in 1..Len(ToEnd) :
        /\ EndsAt(ToEnd, k) /\ line \in Seq(Nat) /\ Len(line) = k
        /\ \A i \in 1..k : line[i] = ToEnd[i]
  BY <1>2, <1>3, MemchrIs, Zenon
<1> HIDE DEF r, w, s, line
<1>5. got - taken = s - r + w
  BY <1>1, <1>2, Zenon DEF Used
<1>6. /\ k \in 1..(got - taken) /\ k <= s - r /\ k \in 1..(s - r)
      /\ \A i \in 1..k : /\ i \in 1..(s - r) /\ i \in 1..(got - taken)
                         /\ At(r, s, i) = r + i - 1
  BY <1>1, <1>3, <1>4, <1>5, SMTT(120) DEF At
<1>7. \A i \in 1..k : ToEnd[i] = At(r, s, i) /\ input.buffer[ToEnd[i]] = taken + i
  BY <1>1, <1>3, <1>6, Zenon
<1>8. k \in 1..k /\ \A i \in 1..(k - 1) : i \in 1..k
  BY <1>1, <1>6, SMTT(120)
<1>9. taken + k \in terms /\ \A i \in 1..(k - 1) : taken + i \notin terms
  BY <1>4, <1>7, <1>8, Zenon DEF EndsAt
<1>10. r + k \in Nat /\ r + k <= s /\ Used(r + k, w, s) = (got - taken) - k
  BY <1>1, <1>2, <1>5, <1>6, SMTT(120) DEF Used
<1>11. \A i \in 1..((got - taken) - k) : At(r + k, s, i) = At(r, s, k + i)
  BY <1>1, <1>5, <1>6, SMTT(120) DEF At
<1>12. \A i \in 1..k : line[i] = At(r, s, i)
  BY <1>4, <1>7, Zenon
<1>13. Hand(line, r + k, FALSE) /\ FALSE \in BOOLEAN
  BY <1>2, <1>4, Zenon
<1> QED BY <1>4, <1>6, <1>9, <1>10, <1>11, <1>12, <1>13, HandTakes, Zenon DEF r, w, s

\* The buffer is not wrapped.
LEMMA StraightStep ==
  ASSUME Keeps(input, taken, got), ExtractStraight
  PROVE  Keeps(input, taken, got)' /\ CommandIsLine' /\ pc' # "loop"
<1> DEFINE r == input.read_cursor
           w == input.write_cursor
           s == input.buf_size
           line == memchr(UpToWrite)
<1>1. /\ r \in Nat /\ w \in Nat /\ s \in Nat /\ r <= s /\ w < s
      /\ taken \in Nat /\ got \in Nat /\ got - taken = Used(r, w, s)
      /\ \A i \in 1..(got - taken) : input.buffer[At(r, s, i)] = taken + i
  BY InputIs, Zenon
<1>2. ~(w < r) /\ line # <<>> /\ Hand(line, r + Len(line), TRUE)
  BY Zenon DEF ExtractStraight, Wrapped
<1>3. r <= w
  BY <1>1, <1>2, SMTT(120)
<1>4. UpToWrite \in Seq(Nat) /\ Len(UpToWrite) = w - r /\ \A i \in 1..(w - r) : UpToWrite[i] = r + i - 1
  BY <1>1, <1>3, SpanFrom, Zenon DEF UpToWrite
<1>5. PICK k \in 1..Len(UpToWrite) :
        /\ EndsAt(UpToWrite, k) /\ line \in Seq(Nat) /\ Len(line) = k
        /\ \A i \in 1..k : line[i] = UpToWrite[i]
  BY <1>2, <1>4, MemchrIs, Zenon
<1> HIDE DEF r, w, s, line
<1>6. got - taken = w - r
  BY <1>1, <1>2, ZenonT(60) DEF Used
<1>7. /\ k \in 1..(got - taken) /\ k \in 1..(w - r)
      /\ \A i \in 1..k : /\ i \in 1..(w - r) /\ i \in 1..(got - taken)
                         /\ At(r, s, i) = r + i - 1
  BY <1>1, <1>4, <1>5, <1>6, SMTT(120) DEF At
<1>8. \A i \in 1..k : UpToWrite[i] = At(r, s, i) /\ input.buffer[UpToWrite[i]] = taken + i
  BY <1>1, <1>4, <1>7, Zenon
<1>9. k \in 1..k /\ \A i \in 1..(k - 1) : i \in 1..k
  BY <1>1, <1>7, SMTT(120)
<1>10. taken + k \in terms /\ \A i \in 1..(k - 1) : taken + i \notin terms
  BY <1>5, <1>8, <1>9, Zenon DEF EndsAt
<1>11. r + k \in Nat /\ r + k <= s /\ Used(r + k, w, s) = (got - taken) - k
  BY <1>1, <1>3, <1>6, <1>7, SMTT(120) DEF Used
<1>12. \A i \in 1..((got - taken) - k) : At(r + k, s, i) = At(r, s, k + i)
  BY <1>1, <1>6, <1>7, SMTT(120) DEF At
<1>13. \A i \in 1..k : line[i] = At(r, s, i)
  BY <1>5, <1>8, Zenon
<1>14. Hand(line, r + k, TRUE) /\ TRUE \in BOOLEAN
  BY <1>2, <1>5, Zenon
<1> QED BY <1>5, <1>7, <1>10, <1>11, <1>12, <1>13, <1>14, HandTakes, Zenon DEF r, w, s

\* A span from the start of the memory.
LEMMA FromZero ==
  ASSUME NEW w \in Nat
  PROVE  /\ Span(0, w) \in Seq(Nat) /\ Len(Span(0, w)) = w
         /\ \A i \in 1..w : Span(0, w)[i] = i - 1
BY SMTT(120) DEF Span

\* No line end among the addresses: none among the bytes they hold.
LEMMA NoneFound ==
  ASSUME NEW addrs \in Seq(Nat), memchr(addrs) = <<>>
  PROVE  \A i \in 1..Len(addrs) : input.buffer[addrs[i]] \notin terms
BY MemchrIs, Zenon

\* The line goes around the end of the memory, and is copied in two parts.
LEMMA AroundStep ==
  ASSUME Keeps(input, taken, got), ExtractAround
  PROVE  Keeps(input, taken, got)' /\ CommandIsLine' /\ pc' # "loop"
<1> DEFINE r == input.read_cursor
           w == input.write_cursor
           s == input.buf_size
           rest == memchr(FromStart)
           line == ToEnd \o rest
<1>1. /\ r \in Nat /\ w \in Nat /\ s \in Nat /\ r <= s /\ w < s
      /\ taken \in Nat /\ got \in Nat /\ got - taken = Used(r, w, s)
      /\ \A i \in 1..(got - taken) : input.buffer[At(r, s, i)] = taken + i
  BY InputIs, Zenon
<1>2. /\ w < r /\ memchr(ToEnd) = <<>> /\ rest # <<>> /\ Hand(line, Len(rest), TRUE)
  BY Zenon DEF ExtractAround, Wrapped
<1>3. ToEnd \in Seq(Nat) /\ Len(ToEnd) = s - r /\ \A i \in 1..(s - r) : ToEnd[i] = r + i - 1
  BY <1>1, SpanFrom, Zenon DEF ToEnd
<1>4. FromStart \in Seq(Nat) /\ Len(FromStart) = w /\ \A i \in 1..w : FromStart[i] = i - 1
  BY <1>1, FromZero, Zenon DEF FromStart
<1>5. PICK j \in 1..Len(FromStart) :
        /\ EndsAt(FromStart, j) /\ rest \in Seq(Nat) /\ Len(rest) = j
        /\ \A i \in 1..j : rest[i] = FromStart[i]
  BY <1>2, <1>4, MemchrIs, Zenon
<1>6. \A i \in 1..(s - r) : input.buffer[ToEnd[i]] \notin terms
  BY <1>2, <1>3, NoneFound, Zenon
<1>7. /\ line \in Seq(Nat) /\ Len(line) = Len(ToEnd) + Len(rest)
      /\ \A i \in 1..(Len(ToEnd) + Len(rest)) :
           line[i] = IF i <= Len(ToEnd) THEN ToEnd[i] ELSE rest[i - Len(ToEnd)]
  BY <1>3, <1>5, ConcatIs, Zenon
<1> HIDE DEF r, w, s, rest, line
<1>8. got - taken = s - r + w
  BY <1>1, <1>2, Zenon DEF Used
<1>9. PICK k \in Nat : k = s - r + j
  BY <1>1, <1>4, <1>5, SMTT(120)
<1>10. Len(line) = k /\ \A i \in 1..k : line[i] = IF i <= s - r THEN ToEnd[i] ELSE rest[i - (s - r)]
  BY <1>3, <1>5, <1>7, <1>9, Zenon
<1>11. /\ k \in 1..(got - taken) /\ j \in 1..w
       /\ \A i \in 1..k : i \in 1..(got - taken)
       /\ \A i \in 1..k : i <= s - r => i \in 1..(s - r) /\ At(r, s, i) = r + i - 1
       /\ \A i \in 1..k : ~(i <= s - r) =>
            /\ i - (s - r) \in 1..j /\ i - (s - r) \in 1..w
            /\ At(r, s, i) = (i - (s - r)) - 1 /\ (i # k => i - (s - r) \in 1..(j - 1))
       /\ k - (s - r) = j /\ ~(k <= s - r) /\ k \in 1..k /\ \A i \in 1..(k - 1) : i \in 1..k /\ i # k
  BY <1>1, <1>4, <1>5, <1>8, <1>9, SMTT(120) DEF At
<1>12. \A i \in 1..k : line[i] = At(r, s, i)
  <2>1. ASSUME NEW i \in 1..k, i <= s - r PROVE line[i] = At(r, s, i)
    BY <1>3, <1>10, <1>11, <2>1, Zenon
  <2>2. ASSUME NEW i \in 1..k, ~(i <= s - r) PROVE line[i] = At(r, s, i)
    <3>1. line[i] = rest[i - (s - r)]
      BY <1>10, <2>2, Zenon
    <3>2. rest[i - (s - r)] = FromStart[i - (s - r)]
      BY <1>5, <1>11, <2>2, Zenon
    <3>3. FromStart[i - (s - r)] = (i - (s - r)) - 1
      BY <1>4, <1>11, <2>2, Zenon
    <3> QED BY <1>11, <2>2, <3>1, <3>2, <3>3, Zenon
  <2> QED BY <2>1, <2>2, Zenon
<1>13. \A i \in 1..k : input.buffer[At(r, s, i)] = taken + i
  BY <1>1, <1>11, Zenon
<1>14. taken + k \in terms
  <2>1. input.buffer[FromStart[j]] \in terms
    BY <1>5, Zenon DEF EndsAt
  <2>2. At(r, s, k) = j - 1 /\ FromStart[j] = j - 1
    BY <1>4, <1>11, Zenon
  <2> QED BY <1>11, <1>13, <2>1, <2>2, Zenon
<1>15. \A i \in 1..(k - 1) : taken + i \notin terms
  <2>1. SUFFICES ASSUME NEW i \in 1..(k - 1) PROVE input.buffer[At(r, s, i)] \notin terms
    BY <1>11, <1>13, Zenon
  <2>2. CASE i <= s - r
    BY <1>3, <1>6, <1>11, <2>1, <2>2, Zenon
  <2>3. CASE ~(i <= s - r)
    <3>1. /\ i - (s - r) \in 1..(j - 1) /\ i - (s - r) \in 1..w /\ At(r, s, i) = (i - (s - r)) - 1
      BY <1>11, <2>1, <2>3, Zenon
    <3>2. input.buffer[FromStart[i - (s - r)]] \notin terms
      BY <1>5, <3>1, Zenon DEF EndsAt
    <3>3. FromStart[i - (s - r)] = At(r, s, i)
      BY <1>4, <3>1, Zenon
    <3> QED BY <3>2, <3>3, Zenon
  <2> QED BY <2>2, <2>3, SMTT(120)
<1>16. j \in Nat /\ j <= s /\ Used(j, w, s) = (got - taken) - k
  <2>1. j \in Nat /\ j <= w
    BY <1>1, <1>11, SMTT(120)
  <2>2. ~(w < j) /\ j <= s /\ w - j = (s - r + w) - k
    BY <1>1, <1>9, <2>1, SMTT(120)
  <2> QED BY <1>8, <2>1, <2>2, Zenon DEF Used
<1>17. \A i \in 1..((got - taken) - k) : At(j, s, i) = At(r, s, k + i)
  BY <1>1, <1>8, <1>9, <1>11, SMTT(120) DEF At
<1>18. Hand(line, j, TRUE) /\ TRUE \in BOOLEAN
  BY <1>2, <1>5, Zenon
<1> QED BY <1>7, <1>10, <1>11, <1>12, <1>14, <1>15, <1>16, <1>17, <1>18, HandTakes, Zenon DEF r, w, s

\* Nothing extracted: no unread byte is a line end.
LEMMA NoneStep ==
  ASSUME Keeps(input, taken, got), CommandIsLine, ExtractNone
  PROVE  Keeps(input, taken, got)' /\ CommandIsLine' /\ NoLineLeft'
<1> DEFINE r == input.read_cursor
           w == input.write_cursor
           s == input.buf_size
<1>1. /\ r \in Nat /\ w \in Nat /\ s \in Nat /\ r <= s /\ w < s
      /\ taken \in Nat /\ got \in Nat /\ got - taken = Used(r, w, s)
      /\ \A i \in 1..(got - taken) : input.buffer[At(r, s, i)] = taken + i
  BY InputIs, Zenon
<1>2. /\ IF w < r THEN memchr(ToEnd) = <<>> /\ memchr(FromStart) = <<>>
                  ELSE memchr(UpToWrite) = <<>>
      /\ input' = IF r = w THEN [input EXCEPT !.read_cursor = 0, !.write_cursor = 0] ELSE input
      /\ cmd' = cmd /\ terms' = terms /\ taken' = taken /\ got' = got
  BY Zenon DEF ExtractNone, Wrapped, stream
<1>3. \A i \in 1..(got - taken) : input.buffer[At(r, s, i)] \notin terms
  <2>1. CASE w < r
    <3>1. ToEnd \in Seq(Nat) /\ Len(ToEnd) = s - r /\ \A i \in 1..(s - r) : ToEnd[i] = r + i - 1
      BY <1>1, SpanFrom, Zenon DEF ToEnd
    <3>2. FromStart \in Seq(Nat) /\ Len(FromStart) = w /\ \A i \in 1..w : FromStart[i] = i - 1
      BY <1>1, FromZero, Zenon DEF FromStart
    <3>3. /\ \A i \in 1..(s - r) : input.buffer[ToEnd[i]] \notin terms
          /\ \A i \in 1..w : input.buffer[FromStart[i]] \notin terms
      BY <1>2, <2>1, <3>1, <3>2, NoneFound, Zenon
    <3> HIDE DEF r, w, s
    <3>4. got - taken = s - r + w
      BY <1>1, <2>1, Zenon DEF Used
    <3>5. \A i \in 1..(got - taken) :
            /\ i <= s - r => i \in 1..(s - r) /\ At(r, s, i) = r + i - 1
            /\ ~(i <= s - r) => i - (s - r) \in 1..w /\ At(r, s, i) = (i - (s - r)) - 1
      BY <1>1, <3>4, SMTT(120) DEF At
    <3>6. ASSUME NEW i \in 1..(got - taken) PROVE input.buffer[At(r, s, i)] \notin terms
      <4>1. CASE i <= s - r
        BY <3>1, <3>3, <3>5, <4>1, Zenon
      <4>2. CASE ~(i <= s - r)
        <5>1. i - (s - r) \in 1..w /\ At(r, s, i) = (i - (s - r)) - 1
          BY <3>5, <4>2, Zenon
        <5> QED BY <3>2, <3>3, <5>1, Zenon
      <4> QED BY <4>1, <4>2, SMTT(120)
    <3> QED BY <3>6, Zenon
  <2>2. CASE ~(w < r)
    <3>1. r <= w
      BY <1>1, <2>2, SMTT(120)
    <3>2. UpToWrite \in Seq(Nat) /\ Len(UpToWrite) = w - r /\ \A i \in 1..(w - r) : UpToWrite[i] = r + i - 1
      BY <1>1, <3>1, SpanFrom, Zenon DEF UpToWrite
    <3>3. \A i \in 1..(w - r) : input.buffer[UpToWrite[i]] \notin terms
      BY <1>2, <2>2, <3>2, NoneFound, Zenon
    <3> HIDE DEF r, w, s
    <3>4. got - taken = w - r
      BY <1>1, <2>2, Zenon DEF Used
    <3>5. \A i \in 1..(got - taken) : i \in 1..(w - r) /\ At(r, s, i) = r + i - 1
      BY <1>1, <3>4, SMTT(120) DEF At
    <3> QED BY <3>2, <3>3, <3>5, Zenon
  <2> QED BY <2>1, <2>2, SMTT(120)
<1>4. \A b \in (taken + 1)..got : b \notin terms
  <2>1. SUFFICES ASSUME NEW b \in (taken + 1)..got PROVE b \notin terms
    BY Zenon
  <2>2. b - taken \in 1..(got - taken) /\ taken + (b - taken) = b
    BY <1>1, <2>1, SMTT(120)
  <2> QED BY <1>1, <1>3, <2>2, Zenon
<1>5. NoLineLeft'
  BY <1>2, <1>4, Zenon DEF NoLineLeft
<1>6. CommandIsLine'
  BY <1>2, Zenon DEF CommandIsLine
<1>7. Keeps(input', taken', got')
  <2>1. CASE r = w
    <3>1. input \in [write_cursor : Nat, read_cursor : Nat, buf_size : Nat, buffer : Memory]
          /\ s > 1 /\ input.buffer \in [0..(s - 1) -> Nat] /\ taken <= got
      BY Zenon DEF Keeps, Fits
    <3>2. /\ input' \in [write_cursor : Nat, read_cursor : Nat, buf_size : Nat, buffer : Memory]
          /\ input'.write_cursor = 0 /\ input'.read_cursor = 0
          /\ input'.buf_size = s /\ input'.buffer = input.buffer
      BY <1>2, <2>1, <3>1, ResetIs, Zenon
    <3> HIDE DEF r, w, s
    <3>3. 0 \in Nat /\ 0 <= s /\ 0 < s
      BY <1>1, <3>1, SMTT(120)
    <3>4. Fits(input')
      BY <3>1, <3>2, <3>3, Zenon DEF Fits
    <3>5. got - taken = 0 /\ Used(0, 0, s) = 0
      BY <1>1, <2>1, SMTT(120) DEF Used
    <3>6. \A i : i \notin 1..0
      BY SMTT(120)
    <3>7. Keeps(input', taken, got)
      BY <1>1, <3>1, <3>2, <3>4, <3>5, <3>6, Zenon DEF Keeps
    <3> QED BY <1>2, <3>7, Zenon
  <2>2. CASE r # w
    BY <1>2, <2>2, Zenon
  <2> QED BY <2>1, <2>2, SMTT(120)
<1> QED BY <1>5, <1>6, <1>7, Zenon

-----------------------------------------------------------------------------
(***************************************************************************)
(* The input side of a connection.                                         *)
(***************************************************************************)

InputInv == Keeps(input, taken, got) /\ CommandIsLine /\ NoLineLeft

\* A new connection has an empty buffer and no command.
LEMMA InputInit == Init => InputInv
<1> SUFFICES ASSUME Init PROVE InputInv
  OBVIOUS
<1> DEFINE s == INIT_CONN_BUF_SIZE
           mem == [a \in 0..(s - 1) |-> NUL]
<1>1. /\ input = [write_cursor |-> 0, read_cursor |-> 0, buf_size |-> s, buffer |-> mem]
      /\ cmd = <<>> /\ got = 0 /\ taken = 0
  BY Zenon DEF Init, circbuf_init
<1>2. s \in Nat /\ s > 1 /\ 0 \in Nat /\ 0 <= s /\ 0 < s /\ 0 <= 0 /\ 0 - 0 = 0
  BY BufferAssumption, SMTT(120)
<1>3. mem \in [0..(s - 1) -> Nat]
  BY <1>2, Zenon DEF NUL
<1>4. mem \in Memory
  BY <1>2, <1>3, Zenon DEF Memory
<1> HIDE DEF s, mem
<1>5. /\ input \in [write_cursor : Nat, read_cursor : Nat, buf_size : Nat, buffer : Memory]
      /\ input.write_cursor = 0 /\ input.read_cursor = 0 /\ input.buf_size = s /\ input.buffer = mem
  BY <1>1, <1>2, <1>4, SMTT(120)
<1>6. Fits(input)
  BY <1>2, <1>3, <1>5, Zenon DEF Fits
<1>7. Used(0, 0, s) = 0 /\ (\A i : i \notin 1..0) /\ \A i : i \notin (0 + 1)..0
  BY SMTT(120) DEF Used
<1>8. Keeps(input, taken, got)
  BY <1>1, <1>2, <1>5, <1>6, <1>7, Zenon DEF Keeps
<1>9. CommandIsLine /\ NoLineLeft
  BY <1>1, <1>7, Zenon DEF CommandIsLine, NoLineLeft
<1> QED BY <1>8, <1>9, Zenon DEF InputInv

\* Bytes from the socket go behind the unread ones.
LEMMA ReadStep ==
  ASSUME InputInv, ReadData
  PROVE  InputInv'
<1>1. Keeps(Roomy(input), taken, got)
  BY RoomyKeeps, Zenon DEF InputInv
<1>2. PICK n \in 1..Len(circbuf_setup_readv_iovec(Roomy(input))) :
        /\ input' = circbuf_advance_write(
                      [Roomy(input) EXCEPT !.buffer =
                         Store(@, circbuf_setup_readv_iovec(Roomy(input)),
                               Bytes(got + 1, got + n))], n)
        /\ got' = got + n
  BY Zenon DEF ReadData
<1>3. cmd' = cmd /\ terms' = terms /\ taken' = taken /\ pc' = "handle"
  BY Zenon DEF ReadData
<1>4. Keeps(input', taken, got + n)
  BY <1>1, <1>2, ReadKeeps, Zenon
<1>5. CommandIsLine'
  BY <1>3, Zenon DEF InputInv, CommandIsLine
<1>6. "handle" # "loop"
  BY SMTT(120)
<1> QED BY <1>2, <1>3, <1>4, <1>5, <1>6, Zenon DEF InputInv, NoLineLeft

\* A read that brings nothing may still have grown the buffer.
LEMMA EmptyReadStep ==
  ASSUME InputInv, ReadNothing
  PROVE  InputInv'
<1>1. /\ input' = Roomy(input) /\ cmd' = cmd /\ terms' = terms /\ taken' = taken
      /\ got' = got /\ pc' = pc
  BY Zenon DEF ReadNothing, stream
<1>2. Keeps(Roomy(input), taken, got)
  BY RoomyKeeps, Zenon DEF InputInv
<1> QED BY <1>1, <1>2, Zenon DEF InputInv, CommandIsLine, NoLineLeft

\* Every other step leaves the input alone, and does not end the loop over
\* the commands.
LEMMA OtherSteps ==
  ASSUME \/ Respond \/ EndCommand \/ Send \/ HandleWritebuf \/ WritebufFails
         \/ CloseConnection \/ Terminated \/ UNCHANGED vars
  PROVE  /\ input' = input /\ cmd' = cmd /\ terms' = terms /\ taken' = taken
         /\ got' = got /\ (pc' = "loop" => pc = "loop")
<1>0. "handle" # "loop" /\ "send" # "loop" /\ "copy" # "loop" /\ "command" # "loop"
  BY SMTT(120)
<1>1. CASE Respond
  BY <1>0, <1>1, Zenon DEF Respond, conn
<1>2. CASE EndCommand
  BY <1>0, <1>2, Zenon DEF EndCommand, conn, stream
<1>3. CASE SendBuffered
  BY <1>0, <1>3, Zenon DEF SendBuffered, conn, stream
<1>4. CASE SendDirect
  BY <1>4, Zenon DEF SendDirect, conn
<1>5. CASE SendShort
  BY <1>0, <1>5, Zenon DEF SendShort, conn
<1>6. CASE SendFails
  BY <1>6, Zenon DEF SendFails, stream
<1>7. CASE CopyBuffer
  BY <1>0, <1>7, Zenon DEF CopyBuffer, stream
<1>8. CASE SendDone
  BY <1>0, <1>8, Zenon DEF SendDone, conn, stream
<1>9. CASE HandleWritebuf
  BY <1>9, Zenon DEF HandleWritebuf
<1>10. CASE WritebufFails
  BY <1>10, Zenon DEF WritebufFails, stream
<1>11. CASE CloseConnection
  BY <1>11, Zenon DEF CloseConnection, stream
<1>12. CASE UNCHANGED vars
  BY <1>12, Zenon DEF vars, conn, stream
<1> QED BY <1>1, <1>2, <1>3, <1>4, <1>5, <1>6, <1>7, <1>8, <1>9, <1>10, <1>11, <1>12, Zenon
        DEF Send, Terminated

\* Every step keeps the invariant.
LEMMA InputStep == InputInv /\ [Next]_vars => InputInv'
<1> SUFFICES ASSUME InputInv, [Next]_vars PROVE InputInv'
  OBVIOUS
<1>1. CASE ReadData
  BY <1>1, ReadStep, SMTT(120)
<1>2. CASE ReadNothing
  BY <1>2, EmptyReadStep, SMTT(120)
<1>3. CASE ExtractToEnd \/ ExtractAround \/ ExtractStraight
  <2>1. Keeps(input, taken, got)' /\ CommandIsLine' /\ pc' # "loop"
    BY <1>3, ToEndStep, AroundStep, StraightStep, Zenon DEF InputInv
  <2> QED BY <2>1, Zenon DEF InputInv, NoLineLeft
<1>4. CASE ExtractNone
  BY <1>4, NoneStep, Zenon DEF InputInv
<1>5. CASE \/ Respond \/ EndCommand \/ Send \/ HandleWritebuf \/ WritebufFails
           \/ CloseConnection \/ Terminated \/ UNCHANGED vars
  <2>1. /\ input' = input /\ cmd' = cmd /\ terms' = terms /\ taken' = taken
        /\ got' = got /\ (pc' = "loop" => pc = "loop")
    BY <1>5, OtherSteps, Zenon
  <2> QED BY <2>1, Zenon DEF InputInv, CommandIsLine, NoLineLeft
<1> QED BY <1>1, <1>2, <1>3, <1>4, <1>5, Zenon DEF Next, Handler, Extract

LEMMA InputAlways == Spec => []InputInv
BY InputInit, InputStep, PTL DEF Spec

\* InputExact for buffers of any size and growth: whatever mixture of reads,
\* growth, wrap-around and cursor resets, the input buffer holds exactly the
\* bytes read from the socket and not yet handed to a command handler.
THEOREM InputExactAlways == Spec => []InputExact
<1>1. InputInv => InputExact
  BY KeepsIsExact, Zenon DEF InputInv, InputExact
<1> QED BY <1>1, InputAlways, PTL

\* CommandIsLine: what extract_to_terminator hands out is the next line of the
\* stream, whole, wherever the memory ends in it.
THEOREM CommandIsLineAlways == Spec => []CommandIsLine
<1>1. InputInv => CommandIsLine
  BY Zenon DEF InputInv
<1> QED BY <1>1, InputAlways, PTL

\* NoLineLeft: handle_client_connect returns to the event loop only when no
\* whole line is left in the input buffer.
THEOREM NoLineLeftAlways == Spec => []NoLineLeft
<1>1. InputInv => NoLineLeft
  BY Zenon DEF InputInv
<1> QED BY <1>1, InputAlways, PTL

=============================================================================
