----------------------------- MODULE Connection -----------------------------
(***************************************************************************)
(* One client connection of a worker (networking.c, with the command loop  *)
(* of conn_handler.c): bytes are read into the input buffer, commands are  *)
(* cut out of it, and responses go to the socket directly or, once the     *)
(* socket took less than all, through the output buffer.                   *)
(*                                                                         *)
(* A byte is its position in the stream it belongs to, so a lost, repeated *)
(* or reordered byte shows.  A connection belongs to one thread: callbacks *)
(* do not interleave, the kernel decides how much a readv or writev moves. *)
(* The loops over commands, responses and buffers are steps of their own.  *)
(***************************************************************************)
EXTENDS CircularBuffer, FiniteSets, SequencesExt

CONSTANTS
  IOV_MAX,
  Limits,       \* bounds: bytes the client sends, bytes of all responses
  Responses     \* lengths of the buffers of each possible response

(* The buffers of a response are fixed texts, or a line of list or info;   *)
(* all are shorter than a new circular buffer.                             *)
ASSUME ConnectionAssumption ==
  /\ IOV_MAX \in Nat \ {0} /\ Limits \subseteq [in : Nat, out : Nat]
  /\ \A lens \in Responses :
        /\ lens # <<>>
        /\ \A i \in 1..Len(lens) : lens[i] \in 0..(INIT_CONN_BUF_SIZE - 1)

VARIABLES
  (* struct conn_info *)
  active, use_write_buf, input, output,
  watching,     \* write_client is started
  closed,       \* close_client_connection has run
  (* the callback that runs *)
  pc,           \* "loop": none; "handle", "command", "send", "copy"
  cmd,          \* the buffer that extract_to_terminator returned last
  bufs,         \* buffers of the response not yet sent or copied
  left,         \* how many of them belong to the chunk being copied
  (* the client, and history *)
  limit,        \* how much it sends and is sent, one of Limits
  terms,        \* positions of the line ends in what the client sends
  got,          \* bytes read from the socket
  taken,        \* bytes handed to the command handlers
  produced,     \* bytes of responses given to the connection
  delivered,    \* bytes the socket accepted, in order
  lapped        \* the output was drained with write_cursor at buf_size

conn == <<active, use_write_buf, input, output, watching, closed>>
stream == <<limit, terms, got, taken, produced, delivered, lapped>>
vars == <<conn, pc, cmd, bufs, left, stream>>

(* The bytes m .. n of a stream.                                           *)
Bytes(m, n) == Span(m, n + 1)

(* get_conn.                                                               *)
Init ==
  /\ active = TRUE /\ use_write_buf = FALSE /\ watching = FALSE
  /\ closed = FALSE
  /\ input = circbuf_init /\ output = circbuf_init
  /\ pc = "loop" /\ cmd = <<>> /\ bufs = <<>> /\ left = 0
  /\ limit \in Limits
  /\ terms \in SUBSET (1..limit.in)
  /\ got = 0 /\ taken = 0 /\ produced = 0 /\ delivered = <<>>
  /\ lapped = FALSE

-----------------------------------------------------------------------------
(* Reading: invoke_event_handler and read_client_data.                     *)

Roomy(buf) ==
  IF circbuf_avail_buf(buf) < buf.buf_size \div 2
  THEN circbuf_grow_buf(buf) ELSE buf

ReadData ==
  LET buf   == Roomy(input)
      addrs == circbuf_setup_readv_iovec(buf)
  IN
  /\ pc = "loop" /\ active
  /\ \E n \in 1..Len(addrs) :
        /\ got + n <= limit.in
        /\ input' = circbuf_advance_write(
                      [buf EXCEPT !.buffer =
                          Store(@, addrs, Bytes(got + 1, got + n))], n)
        /\ got' = got + n
  /\ pc' = "handle"
  /\ UNCHANGED <<active, use_write_buf, output, watching, closed, cmd, bufs,
                 left, limit, terms, taken, produced, delivered, lapped>>

(* readv returns 0 or fails, EAGAIN and EINTR included.                    *)
ReadNothing ==
  /\ pc = "loop" /\ active
  /\ input' = Roomy(input)
  /\ active' = FALSE
  /\ UNCHANGED <<use_write_buf, output, watching, closed, pc, cmd, bufs, left,
                 stream>>

-----------------------------------------------------------------------------
(* The loop of handle_client_connect, around extract_to_terminator.        *)

Wrapped == input.write_cursor < input.read_cursor
ToEnd == Span(input.read_cursor, input.buf_size)
FromStart == Span(0, input.write_cursor)
UpToWrite == Span(input.read_cursor, input.write_cursor)

(* memchr: the addresses up to the first line end, empty if there is none. *)
memchr(addrs) ==
  LET found == {i \in 1..Len(addrs) : input.buffer[addrs[i]] \in terms}
  IN  IF found = {} THEN <<>> ELSE SubSeq(addrs, 1, Min(found))

\* Slip: a copied command is copied before its line end is overwritten.
HandSlip(addrs, read_cursor, reset) ==
  LET buf == [input EXCEPT !.read_cursor = read_cursor] IN
  /\ cmd' = Fetch(buf, addrs)
  /\ taken' = taken + Len(addrs)
  /\ input' = IF reset /\ read_cursor = buf.write_cursor
              THEN [buf EXCEPT !.read_cursor = 0, !.write_cursor = 0]
              ELSE buf
  /\ pc' = "command"
  /\ UNCHANGED <<active, use_write_buf, output, watching, closed, bufs, left,
                 limit, terms, got, produced, delivered, lapped>>

(* The bytes at addrs are the command; the line end becomes a NUL.         *)
Hand(addrs, read_cursor, reset) ==
  LET line == Len(addrs)
      buf  == [input EXCEPT !.buffer[addrs[line]] = NUL,
                            !.read_cursor = read_cursor]
  IN
  /\ cmd' = Fetch(buf, addrs)
  /\ taken' = taken + line
  /\ input' = IF reset /\ read_cursor = buf.write_cursor
              THEN [buf EXCEPT !.read_cursor = 0, !.write_cursor = 0]
              ELSE buf
  /\ pc' = "command"
  /\ UNCHANGED <<active, use_write_buf, output, watching, closed, bufs, left,
                 limit, terms, got, produced, delivered, lapped>>

(* The command ends before the end of the memory.  The code returns before *)
(* it compares the cursors.                                                *)
ExtractToEnd ==
  LET line == memchr(ToEnd) IN
  /\ pc = "handle" /\ Wrapped /\ line # <<>>
  /\ Hand(line, input.read_cursor + Len(line), FALSE)

(* The command continues at the start: both parts are copied.              *)
ExtractAround ==
  LET line == memchr(FromStart) IN
  /\ pc = "handle" /\ Wrapped /\ memchr(ToEnd) = <<>> /\ line # <<>>
  /\ Hand(ToEnd \o line, Len(line), TRUE)

ExtractStraight ==
  LET line == memchr(UpToWrite) IN
  /\ pc = "handle" /\ ~Wrapped /\ line # <<>>
  /\ Hand(line, input.read_cursor + Len(line), TRUE)

\* Slip: a wrapped buffer is not scanned from its start.
ExtractNoneSlip ==
  /\ pc = "handle"
  /\ memchr(IF Wrapped THEN ToEnd ELSE UpToWrite) = <<>>
  /\ pc' = "loop"
  /\ UNCHANGED <<conn, cmd, bufs, left, stream>>

ExtractNone ==
  /\ pc = "handle"
  /\ IF Wrapped THEN memchr(ToEnd) = <<>> /\ memchr(FromStart) = <<>>
                ELSE memchr(UpToWrite) = <<>>
  /\ input' = IF input.read_cursor = input.write_cursor
              THEN [input EXCEPT !.read_cursor = 0, !.write_cursor = 0]
              ELSE input
  /\ pc' = "loop"
  /\ UNCHANGED <<active, use_write_buf, output, watching, closed, cmd, bufs,
                 left, stream>>

-----------------------------------------------------------------------------
(* A command handler sends any number of responses (a multi command one    *)
(* for each of its parts), each with send_client_response.                 *)

Respond ==
  /\ pc = "command" /\ active
  /\ \E lens \in Responses :
       LET upto == [i \in 0..Len(lens) |->
                      produced + SumFunctionOnSet(lens, 1..i)]
       IN
       /\ upto[Len(lens)] <= limit.out
       /\ bufs' = [i \in 1..Len(lens) |-> Bytes(upto[i-1] + 1, upto[i])]
       /\ produced' = upto[Len(lens)]
  /\ pc' = "send"
  /\ UNCHANGED <<conn, cmd, left, limit, terms, got, taken, delivered, lapped>>

(* A response to an inactive connection is dropped in silence.             *)
EndCommand ==
  /\ pc = "command"
  /\ pc' = "handle"
  /\ UNCHANGED <<conn, cmd, bufs, left, stream>>

Chunk == SubSeq(bufs, 1, IF Len(bufs) <= IOV_MAX THEN Len(bufs) ELSE IOV_MAX)

SendBuffered ==
  /\ pc = "send" /\ bufs # <<>> /\ use_write_buf
  /\ left' = Len(Chunk)
  /\ pc' = "copy"
  /\ UNCHANGED <<conn, cmd, bufs, stream>>

(* The bytes before buffer i of the chunk, and after it.                   *)
Before(i) == Len(FlattenSeq(SubSeq(Chunk, 1, i - 1)))
Through(i) == Len(FlattenSeq(SubSeq(Chunk, 1, i)))

(* The buffer in which a short write stopped.                              *)
LeftOff(sent) == Min({i \in 1..Len(Chunk) : Through(i) > sent})

\* Slip: the part of that buffer that was sent is sent again.
RemainderSlip(sent) == SubSeq(bufs, LeftOff(sent), Len(bufs))

Remainder(sent) ==
  LET index  == LeftOff(sent)
      offset == IF Before(index) < sent THEN sent - Before(index) ELSE 0
  IN  <<SubSeq(Chunk[index], offset + 1, Len(Chunk[index]))>>
      \o SubSeq(bufs, index + 1, Len(bufs))

(* writev takes everything.                                                *)
SendDirect ==
  /\ pc = "send" /\ bufs # <<>> /\ ~use_write_buf
  /\ delivered' = delivered \o FlattenSeq(Chunk)
  /\ bufs' = SubSeq(bufs, Len(Chunk) + 1, Len(bufs))
  /\ UNCHANGED <<conn, pc, cmd, left, limit, terms, got, taken, produced, lapped>>

(* writev takes less; -1 is EAGAIN or EINTR.                               *)
SendShort ==
  /\ pc = "send" /\ bufs # <<>> /\ ~use_write_buf
  /\ \E sent \in -1..(Through(Len(Chunk)) - 1) :
        /\ delivered' = delivered \o SubSeq(FlattenSeq(Chunk), 1, sent)
        /\ bufs' = Remainder(sent)
        /\ left' = Len(Chunk) - LeftOff(sent) + 1
  /\ pc' = "copy"
  /\ UNCHANGED <<conn, cmd, limit, terms, got, taken, produced, lapped>>

(* writev fails for good: the rest of the response is dropped.             *)
SendFails ==
  /\ pc = "send" /\ bufs # <<>> /\ ~use_write_buf
  /\ active' = FALSE
  /\ bufs' = <<>>
  /\ UNCHANGED <<use_write_buf, input, output, watching, closed, pc, cmd, left,
                 stream>>

(* One buffer of the chunk goes to the output buffer.  After the last one  *)
(* the write watcher is on: SendShort starts it, and under SendBuffered it *)
(* was started before.                                                     *)
CopyBuffer ==
  /\ pc = "copy" /\ left > 0
  /\ output' = circbuf_write(output, Head(bufs))
  /\ bufs' = Tail(bufs)
  /\ left' = left - 1
  /\ IF left = 1
     THEN /\ use_write_buf' = TRUE /\ watching' = TRUE
          /\ pc' = "send"
     ELSE UNCHANGED <<use_write_buf, watching, pc>>
  /\ UNCHANGED <<active, input, closed, cmd, stream>>

SendDone ==
  /\ pc = "send" /\ bufs = <<>>
  /\ pc' = "command"
  /\ UNCHANGED <<conn, cmd, bufs, left, stream>>

-----------------------------------------------------------------------------
(* The write watcher: handle_client_writebuf.  A writev that moves nothing *)
(* and may be retried changes nothing.                                     *)

\* Slip: direct writes are resumed after any write.
HandleWritebufSlip ==
  LET addrs == circbuf_setup_writev_iovec(output) IN
  /\ pc = "loop" /\ watching /\ active
  /\ \E n \in 1..Len(addrs) :
        /\ Len(delivered) + n <= limit.out
        /\ delivered' = delivered \o SubSeq(Contents(output), 1, n)
        /\ output' = circbuf_advance_read(output, n)
  /\ use_write_buf' = FALSE /\ watching' = FALSE
  /\ UNCHANGED <<active, input, closed, pc, cmd, bufs, left, limit, terms, got, taken,
                 produced, lapped>>

\* Slip: the last byte in the buffer is held back.
HandleWritebufShort ==
  /\ pc = "loop" /\ watching /\ active
  /\ \E n \in 1..(Len(Contents(output)) - 1) :
        /\ Len(delivered) + n <= limit.out
        /\ delivered' = delivered \o SubSeq(Contents(output), 1, n)
        /\ output' = circbuf_advance_read(output, n)
  /\ UNCHANGED <<active, use_write_buf, input, watching, closed, pc, cmd, bufs,
                 left, limit, terms, got, taken, produced, lapped>>

HandleWritebuf ==
  LET addrs == circbuf_setup_writev_iovec(output) IN
  /\ pc = "loop" /\ watching /\ active
  /\ \E n \in 1..Len(addrs) :
        /\ Len(delivered) + n <= limit.out
        /\ delivered' = delivered \o SubSeq(Contents(output), 1, n)
        /\ output' = circbuf_advance_read(output, n)
  /\ IF output'.read_cursor = output'.write_cursor
     THEN use_write_buf' = FALSE /\ watching' = FALSE
     ELSE UNCHANGED <<use_write_buf, watching>>
  /\ lapped' = (lapped \/ (output'.read_cursor = 0
                           /\ output'.write_cursor = output'.buf_size))
  /\ UNCHANGED <<active, input, closed, pc, cmd, bufs, left, limit, terms, got, taken,
                 produced>>

WritebufFails ==
  /\ pc = "loop" /\ watching /\ active
  /\ active' = FALSE
  /\ UNCHANGED <<use_write_buf, input, output, watching, closed, pc, cmd, bufs,
                 left, stream>>

(* After the callbacks of an iteration the inactive connections are closed.*)
CloseConnection ==
  /\ pc = "loop" /\ ~active /\ ~closed
  /\ closed' = TRUE /\ watching' = FALSE
  /\ UNCHANGED <<active, use_write_buf, input, output, pc, cmd, bufs, left,
                 stream>>

Terminated == closed /\ UNCHANGED vars

Extract == ExtractToEnd \/ ExtractAround \/ ExtractStraight \/ ExtractNone
Send == \/ SendBuffered \/ SendDirect \/ SendShort \/ SendFails
        \/ CopyBuffer \/ SendDone
Handler == Extract \/ Respond \/ EndCommand \/ Send

Next == \/ ReadData \/ ReadNothing \/ Handler
        \/ HandleWritebuf \/ WritebufFails \/ CloseConnection \/ Terminated

Spec == Init /\ [][Next]_vars

(* A callback runs to its end.  The event loop calls every ready watcher   *)
(* in each iteration, and the client reads what it is sent.                *)
FairSpec == Spec /\ WF_vars(Extract \/ EndCommand \/ Send \/ CloseConnection)
                 /\ SF_vars(HandleWritebuf)
-----------------------------------------------------------------------------
(* Properties.                                                             *)

(* The input buffer holds exactly the bytes that were read and not yet     *)
(* handed out, in order, whatever mixture of reads, growth, wrap-around    *)
(* and cursor resets came before.                                          *)
InputExact == Contents(input) = Bytes(taken + 1, got)

(* What extract_to_terminator returns is the next line and nothing else:   *)
(* consecutive bytes, none of them a line end, then a NUL for the line end.*)
CommandIsLine ==
  cmd # <<>> =>
    LET n == Len(cmd) IN
    /\ cmd[n] = NUL /\ taken \in terms
    /\ \A i \in 1..(n - 1) : cmd[i] = taken - n + i /\ cmd[i] \notin terms

(* handle_client_connect consumes all the input possible: no whole line is *)
(* left behind when the worker goes back to wait for the socket.           *)
NoLineLeft == pc = "loop" => \A b \in (taken + 1)..got : b \notin terms

(* Until the output is drained with write_cursor at buf_size: the client   *)
(* gets the bytes of the responses in order, none twice; and while the     *)
(* connection is active none is lost between socket, output buffer and the *)
(* rest of the response being sent.                                        *)
OutputInOrder ==
  ~lapped =>
    /\ IsPrefix(delivered, Bytes(1, produced))
    /\ active => delivered \o Contents(output) \o FlattenSeq(bufs)
                   = Bytes(1, produced)

(* Between callbacks the connection writes to its output buffer, and waits *)
(* for the socket, exactly while there are bytes in that buffer: a direct  *)
(* write never overtakes them and no watcher spins on an empty buffer.     *)
BufferedIffUnsent ==
  pc = "loop" /\ active /\ ~lapped =>
    /\ use_write_buf <=> Contents(output) # <<>>
    /\ watching <=> use_write_buf

(* "Once the buffer is depleted, we switch use_write_buf back off, and go  *)
(* back to writing directly" (networking.c:100): a connection that has     *)
(* delivered everything is back to direct writes.                          *)
DepletedIsDirect ==
  pc = "loop" /\ active /\ Len(delivered) >= produced => ~use_write_buf

(* Every byte of a response reaches the client unless the connection is    *)
(* given up.                                                               *)
ResponsesDelivered ==
  \A n \in 1..Max({l.out : l \in Limits}) :
    produced >= n ~> Len(delivered) >= n \/ ~active \/ lapped
=============================================================================
