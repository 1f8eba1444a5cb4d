--------------------------- MODULE CircularBuffer ---------------------------
(***************************************************************************)
(* The circular buffers of a connection (networking.c).  A buffer is the   *)
(* struct circular_buffer: two cursors, a size and the memory, indexed     *)
(* from 0.  An iovec pair is the sequence of addresses that readv fills,   *)
(* or writev drains, from first to last.                                   *)
(***************************************************************************)
EXTENDS Naturals, Integers, Sequences

CONSTANTS INIT_CONN_BUF_SIZE, CONN_BUF_MULTIPLIER,
          UINT_MAX     \* the largest uint32_t, beyond any size in use

ASSUME BufferAssumption ==
    /\ INIT_CONN_BUF_SIZE \in Nat /\ INIT_CONN_BUF_SIZE > 1
    /\ CONN_BUF_MULTIPLIER \in Nat /\ CONN_BUF_MULTIPLIER > 1
    /\ UINT_MAX \in Nat /\ UINT_MAX > INIT_CONN_BUF_SIZE

(* What malloc leaves in memory, and what a consumed terminator becomes.   *)
NUL == 0

(* Unsigned 32-bit subtraction wraps around.                               *)
Unsigned(n) == IF n < 0 THEN n + UINT_MAX + 1 ELSE n

(* The addresses from a up to, but not including, b.                       *)
Span(a, b) == [i \in 1..(IF b > a THEN b - a ELSE 0) |-> a + i - 1]

(* The addresses of a buffer's unread bytes, in order.                     *)
Unread(buf) ==
    IF buf.write_cursor < buf.read_cursor
    THEN Span(buf.read_cursor, buf.buf_size) \o Span(0, buf.write_cursor)
    ELSE Span(buf.read_cursor, buf.write_cursor)

Fetch(buf, addrs) == [i \in 1..Len(addrs) |-> buf.buffer[addrs[i]]]

Contents(buf) == Fetch(buf, Unread(buf))

(* memcpy of bytes to the given addresses, in order.                       *)
Store(buffer, addrs, bytes) ==
    [a \in DOMAIN buffer |->
        IF \E i \in 1..Len(bytes) : addrs[i] = a
        THEN bytes[CHOOSE i \in 1..Len(bytes) : addrs[i] = a]
        ELSE buffer[a]]

circbuf_init ==
    [write_cursor |-> 0, read_cursor |-> 0, buf_size |-> INIT_CONN_BUF_SIZE,
     buffer |-> [a \in 0..(INIT_CONN_BUF_SIZE - 1) |-> NUL]]

circbuf_avail_buf(buf) ==
    IF buf.write_cursor < buf.read_cursor
    THEN buf.read_cursor - buf.write_cursor - 1
    ELSE Unsigned(buf.buf_size - buf.write_cursor + buf.read_cursor - 1)

(* A larger buffer that starts with the unread bytes.                      *)
circbuf_grow_buf(buf) ==
    LET kept     == Contents(buf)
        new_size == buf.buf_size * CONN_BUF_MULTIPLIER
    IN  [write_cursor |-> Len(kept), read_cursor |-> 0, buf_size |-> new_size,
         buffer |-> [a \in 0..(new_size - 1) |->
                        IF a < Len(kept) THEN kept[a + 1] ELSE NUL]]

\* Slip: a buffer without unread bytes before it is filled to the last byte.
circbuf_setup_readv_iovecSlip(buf) ==
    IF buf.write_cursor < buf.read_cursor
    THEN Span(buf.write_cursor, buf.read_cursor - 1)
    ELSE Span(buf.write_cursor, buf.buf_size) \o Span(0, buf.read_cursor - 1)

(* The free addresses for a readv: all but one.                            *)
circbuf_setup_readv_iovec(buf) ==
    IF buf.write_cursor < buf.read_cursor
    THEN Span(buf.write_cursor, buf.read_cursor - 1)
    ELSE IF buf.read_cursor > 0
         THEN Span(buf.write_cursor, buf.buf_size)
              \o Span(0, buf.read_cursor - 1)
         ELSE Span(buf.write_cursor, buf.buf_size - 1)

circbuf_setup_writev_iovec(buf) == Unread(buf)

circbuf_advance_write(buf, bytes) ==
    [buf EXCEPT !.write_cursor = (@ + bytes) % buf.buf_size]

circbuf_advance_read(buf, bytes) ==
    LET read_cursor == (buf.read_cursor + bytes) % buf.buf_size
    IN  IF read_cursor = buf.write_cursor
        THEN [buf EXCEPT !.read_cursor = 0, !.write_cursor = 0]
        ELSE [buf EXCEPT !.read_cursor = read_cursor]

(* The copy at the end of circbuf_write.  A write that just fits before    *)
(* the end leaves write_cursor at buf_size.                                *)
Put(buf, in) ==
    LET bytes    == Len(in)
        end_size == Unsigned(buf.buf_size - buf.write_cursor)
        straight == buf.write_cursor < buf.read_cursor \/ end_size >= bytes
        addrs    == IF straight
                    THEN Span(buf.write_cursor, buf.write_cursor + bytes)
                    ELSE Span(buf.write_cursor, buf.write_cursor + end_size)
                         \o Span(0, bytes - end_size)
    IN  [buf EXCEPT !.buffer = Store(@, addrs, in),
                    !.write_cursor = IF straight THEN @ + bytes
                                     ELSE bytes - end_size]

(* The loop that makes room runs at most once: no buffer that bloomd sends *)
(* is longer than the circular buffer (see Connection).                    *)
circbuf_write(buf, in) ==
    Put(IF circbuf_avail_buf(buf) < Len(in) THEN circbuf_grow_buf(buf) ELSE buf,
        in)
=============================================================================
