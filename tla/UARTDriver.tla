----------------------------- MODULE UARTDriver -----------------------------
(***************************************************************************)
(* One serial port: PX4UARTDriver of AP_HAL_PX4/UARTDriver.cpp over the    *)
(* serial device of components/drivers/serial/serial.c.                    *)
(*                                                                         *)
(*   receive interrupt -> rx_fifo -> UART thread -> _readbuf -> read()     *)
(*   write() -> _writebuf -> UART thread -> line                           *)
(*                                                                         *)
(* The main thread (76) runs above the UART thread (196), but below it in  *)
(* setup() and after an overrun (246), and the IO thread (198) runs below  *)
(* it: any two of them interleave at any point.  Bytes are numbered in the *)
(* order they arrive on the line or are copied into _writebuf.             *)
(***************************************************************************)
EXTENDS ByteBuffer

CONSTANTS Writers,      \* the threads that call write()
          BufSz,        \* config.bufsz, slots of rx_fifo
          MinRx, MinTx, \* min_rx_buffer, min_tx_buffer
          AskedSizes,   \* the sizes callers pass to begin()
          WriteSizes,   \* lengths of write()
          MaxIn,        \* bytes that arrive
          MaxOut,       \* bytes that are written
          MaxBegins     \* calls of begin()

Main == "main"
NoThread == "none"

ASSUME UARTAssumption ==
    /\ {BufSz, MinRx, MinTx} \subseteq Nat \ {0, 1}
    /\ AskedSizes \subseteq Nat /\ \A n \in AskedSizes : n <= MinRx /\ n <= MinTx
    /\ WriteSizes \subseteq Nat \ {0} /\ Main \in Writers /\ NoThread \notin Writers
    /\ MaxIn \in Nat /\ MaxOut \in Nat /\ MaxBegins \in Nat
    /\ NoByte \notin Nat \ {0}

VARIABLES
    rx_fifo,        \* [buffer, put_index, get_index, is_full]
    _readbuf, _writebuf,
    _initialised, _in_timer, _dev, _nonblocking_writes,
    _uart_owner_pid, \* the thread that called begin()
    tick,           \* the UART thread: [pc, vec, got]
    begin,          \* the main thread in begin(): [pc, rx, tx]
    byte,           \* the byte read() has peeked, NoByte outside read()
    writer,         \* each thread in write(): [pc, left, len, bytewise]
    arrived,        \* bytes that have arrived
    offered,        \* bytes copied into _writebuf
    begins,         \* calls of begin()
    dropped,        \* bytes overwritten in rx_fifo
    received,       \* bytes read() has returned
    sent            \* bytes put on the line

rx == <<rx_fifo, arrived, dropped>>
port == <<_initialised, _dev, _nonblocking_writes, _uart_owner_pid>>
vars == <<rx, port, _readbuf, _writebuf, _in_timer, tick, begin, byte, writer,
          offered, begins, received, sent>>

Asleep == [pc |-> "sleep", vec |-> <<>>, got |-> 0]
NotInBegin == [pc |-> "out", rx |-> 0, tx |-> 0]
NotInWrite == [pc |-> "out", left |-> 0, len |-> 0, bytewise |-> FALSE]

\* getpid() of the port returns rt_thread_self(): each thread has its own.
getpid(thread) == thread

-----------------------------------------------------------------------------
(* The receive interrupt *)

EmptyFifo == [buffer |-> [i \in 0 .. BufSz - 1 |-> NoByte],
              put_index |-> 0, get_index |-> 0, is_full |-> FALSE]

Following(i) == IF i + 1 >= BufSz THEN 0 ELSE i + 1

\* Mutant: a full buffer is not told from an empty one.
Mut_rt_hw_serial_isr ==
    /\ arrived < MaxIn /\ _dev
    /\ arrived' = arrived + 1
    /\ rx_fifo' = [rx_fifo EXCEPT !.buffer[rx_fifo.put_index] = arrived + 1,
                                  !.put_index = Following(@)]
    /\ UNCHANGED <<port, dropped, _readbuf, _writebuf, _in_timer, tick, begin,
                   byte, writer, offered, begins, received, sent>>

\* uart_irqhandler and rt_hw_serial_isr for one character: store it, and if
\* the buffer is full now, give up the oldest.
rt_hw_serial_isr ==
    /\ arrived < MaxIn /\ _dev
    /\ arrived' = arrived + 1
    /\ LET put == Following(rx_fifo.put_index)
           full == put = rx_fifo.get_index
           stored == [rx_fifo.buffer EXCEPT ![rx_fifo.put_index] = arrived + 1]
       IN  /\ rx_fifo' = [buffer |-> stored, put_index |-> put,
                          get_index |-> IF full THEN Following(rx_fifo.get_index)
                                        ELSE rx_fifo.get_index,
                          is_full |-> full \/ rx_fifo.is_full]
           /\ dropped' = IF full THEN dropped \cup {stored[rx_fifo.get_index]}
                         ELSE dropped
    /\ UNCHANGED <<port, _readbuf, _writebuf, _in_timer, tick, begin, byte,
                   writer, offered, begins, received, sent>>

FifoEmpty == rx_fifo.get_index = rx_fifo.put_index /\ ~rx_fifo.is_full

-----------------------------------------------------------------------------
(* _timer_tick, on the UART thread *)

ThreadOnly == <<port, arrived, dropped, begin, byte, writer, offered, begins,
                received>>

\* The test of _initialised ...
tick_test ==
    /\ tick = Asleep /\ _initialised
    /\ tick' = [tick EXCEPT !.pc = "mark"]
    /\ UNCHANGED <<ThreadOnly, rx_fifo, _readbuf, _writebuf, _in_timer, sent>>

\* ... and, in a step of its own, the mark that begin() waits for.
tick_mark ==
    /\ tick.pc = "mark"
    /\ _in_timer' = TRUE
    /\ tick' = [tick EXCEPT !.pc = "peek"]
    /\ UNCHANGED <<ThreadOnly, rx_fifo, _readbuf, _writebuf, sent>>

\* Mutant: a single byte is left for the next tick.
Mut_tick_peek ==
    /\ tick.pc = "peek"
    /\ LET vec == peekiovec(_writebuf, available(_writebuf))
       IN  tick' = [tick EXCEPT !.vec = vec,
                       !.pc = IF available(_writebuf) <= 1 THEN "reserve" ELSE "write"]
    /\ UNCHANGED <<ThreadOnly, rx_fifo, _readbuf, _writebuf, _in_timer, sent>>

\* The pieces of _writebuf to send.
tick_peek ==
    /\ tick.pc = "peek"
    /\ LET vec == peekiovec(_writebuf, available(_writebuf))
       IN  tick' = [tick EXCEPT !.vec = vec,
                                !.pc = IF vec = <<>> THEN "reserve" ELSE "write"]
    /\ UNCHANGED <<ThreadOnly, rx_fifo, _readbuf, _writebuf, _in_timer, sent>>

\* _write_fd: the device polls the line until all bytes are out.
_write_fd ==
    /\ tick.pc = "write"
    /\ sent' = sent \o CopyFrom(_writebuf, Head(tick.vec))
    /\ tick' = [tick EXCEPT !.pc = "advance"]
    /\ UNCHANGED <<ThreadOnly, rx_fifo, _readbuf, _writebuf, _in_timer>>

tick_advance ==
    /\ tick.pc = "advance"
    /\ _writebuf' = advance(_writebuf, Head(tick.vec).len)
    /\ tick' = [tick EXCEPT !.vec = Tail(@),
                            !.pc = IF Tail(tick.vec) = <<>> THEN "reserve" ELSE "write"]
    /\ UNCHANGED <<ThreadOnly, rx_fifo, _readbuf, _in_timer, sent>>

\* The free pieces of _readbuf.
tick_reserve ==
    /\ tick.pc = "reserve"
    /\ LET vec == reserve(_readbuf, space(_readbuf))
       IN  tick' = [pc |-> IF vec = <<>> THEN "done" ELSE "read", vec |-> vec, got |-> 0]
    /\ UNCHANGED <<ThreadOnly, rx_fifo, _readbuf, _writebuf, _in_timer, sent>>

\* _read_fd: _serial_int_rx takes one byte at a time, with interrupts off,
\* until the piece is full or rx_fifo is empty.
_read_fd ==
    /\ tick.pc = "read"
    /\ IF tick.got = Head(tick.vec).len \/ FifoEmpty
       THEN /\ tick' = [tick EXCEPT !.pc = "commit"]
            /\ UNCHANGED <<rx_fifo, _readbuf>>
       ELSE /\ _readbuf' = [_readbuf EXCEPT !.buf[Head(tick.vec).data + tick.got] =
                                rx_fifo.buffer[rx_fifo.get_index]]
            /\ rx_fifo' = [rx_fifo EXCEPT !.get_index = Following(@), !.is_full = FALSE]
            /\ tick' = [tick EXCEPT !.got = @ + 1]
    /\ UNCHANGED <<ThreadOnly, _writebuf, _in_timer, sent>>

\* Mutant: the whole piece is taken for read.
Mut_tick_commit ==
    /\ tick.pc = "commit"
    /\ _readbuf' = commit(_readbuf, Head(tick.vec).len)
    /\ LET more == tick.got = Head(tick.vec).len /\ Tail(tick.vec) # <<>>
       IN  tick' = [pc |-> IF more THEN "read" ELSE "done",
                    vec |-> Tail(tick.vec), got |-> 0]
    /\ UNCHANGED <<ThreadOnly, rx_fifo, _writebuf, _in_timer, sent>>

tick_commit ==
    /\ tick.pc = "commit"
    /\ _readbuf' = commit(_readbuf, tick.got)
    /\ LET more == tick.got = Head(tick.vec).len /\ Tail(tick.vec) # <<>>
       IN  tick' = [pc |-> IF more THEN "read" ELSE "done",
                    vec |-> Tail(tick.vec), got |-> 0]
    /\ UNCHANGED <<ThreadOnly, rx_fifo, _writebuf, _in_timer, sent>>

tick_done ==
    /\ tick.pc = "done"
    /\ _in_timer' = FALSE
    /\ tick' = Asleep
    /\ UNCHANGED <<ThreadOnly, rx_fifo, _readbuf, _writebuf, sent>>

-----------------------------------------------------------------------------
(* begin(), on the main thread *)

BeginOnly == <<rx, _nonblocking_writes, _in_timer, tick, byte, writer, offered,
               begins, received, sent>>

MainIdle == begin = NotInBegin /\ byte = NoByte /\ writer[Main] = NotInWrite

\* Mutant: the sizes asked for are not raised to the least ones.
Mut_begin_call(r, t) ==
    /\ MainIdle /\ begins < MaxBegins
    /\ begins' = begins + 1
    /\ begin' = [pc |-> "rx", rx |-> IF r = 0 THEN MinRx ELSE r,
                              tx |-> IF t = 0 THEN MinTx ELSE t]
    /\ UNCHANGED <<rx, port, _readbuf, _writebuf, _in_timer, tick, byte, writer,
                   offered, received, sent>>

\* begin(b, rxS, txS), called to open the port, to change its speed, or by
\* try_initialise from read(), write(), available() and txspace() of a port
\* that is not initialised (two seconds after the last attempt, not while
\* armed).  Sizes below the least ones are raised.
begin_call(r, t) ==
    /\ MainIdle /\ begins < MaxBegins
    /\ begins' = begins + 1
    /\ begin' = [pc |-> "rx", rx |-> IF r < MinRx THEN MinRx ELSE r,
                              tx |-> IF t < MinTx THEN MinTx ELSE t]
    /\ UNCHANGED <<rx, port, _readbuf, _writebuf, _in_timer, tick, byte, writer,
                   offered, received, sent>>

\* A buffer of the wrong size: the port is closed to the tick, begin() waits
\* for a tick that has begun, ...
begin_rx ==
    /\ begin.pc = "rx"
    /\ IF begin.rx # _readbuf.size
       THEN _initialised' = FALSE /\ begin' = [begin EXCEPT !.pc = "set_rx"]
       ELSE UNCHANGED _initialised /\ begin' = [begin EXCEPT !.pc = "tx"]
    /\ UNCHANGED <<BeginOnly, _dev, _uart_owner_pid, _readbuf, _writebuf>>

\* ... and replaces the buffer; there may be no memory for it.
begin_set_rx ==
    /\ begin.pc = "set_rx" /\ ~_in_timer
    /\ _readbuf' \in {set_size(begin.rx), set_size(0)}
    /\ begin' = [begin EXCEPT !.pc = "tx"]
    /\ UNCHANGED <<BeginOnly, _initialised, _dev, _uart_owner_pid, _writebuf>>

begin_tx ==
    /\ begin.pc = "tx"
    /\ IF begin.tx # _writebuf.size
       THEN _initialised' = FALSE /\ begin' = [begin EXCEPT !.pc = "set_tx"]
       ELSE UNCHANGED _initialised /\ begin' = [begin EXCEPT !.pc = "open"]
    /\ UNCHANGED <<BeginOnly, _dev, _uart_owner_pid, _readbuf, _writebuf>>

begin_set_tx ==
    /\ begin.pc = "set_tx" /\ ~_in_timer
    /\ _writebuf' \in {set_size(begin.tx), set_size(0)}
    /\ begin' = [begin EXCEPT !.pc = "open"]
    /\ UNCHANGED <<BeginOnly, _initialised, _dev, _uart_owner_pid, _readbuf>>

\* The device is looked up and opened, which may fail; with a device and two
\* buffers the port is initialised.
begin_open ==
    /\ begin.pc = "open"
    /\ \/ /\ _dev' = TRUE
          /\ _initialised' = (_initialised \/ (_writebuf.size # 0 /\ _readbuf.size # 0))
          /\ _uart_owner_pid' = getpid(Main)
       \/ /\ ~_dev
          /\ UNCHANGED <<_dev, _initialised, _uart_owner_pid>>
    /\ begin' = NotInBegin
    /\ UNCHANGED <<BeginOnly, _readbuf, _writebuf>>

-----------------------------------------------------------------------------
(* read() and write() *)

\* read(): the first byte is looked at, then dropped from the buffer.
read_peek ==
    /\ MainIdle /\ _uart_owner_pid = getpid(Main) /\ _initialised
    /\ available(_readbuf) > 0
    /\ byte' = peek(_readbuf)
    /\ UNCHANGED <<rx, port, _readbuf, _writebuf, _in_timer, tick, begin, writer,
                   offered, begins, received, sent>>

read_advance ==
    /\ byte # NoByte
    /\ _readbuf' = advance(_readbuf, 1)
    /\ received' = Append(received, byte)
    /\ byte' = NoByte
    /\ UNCHANGED <<rx, port, _writebuf, _in_timer, tick, begin, writer, offered,
                   begins, sent>>

WriteOnly == <<rx, port, _readbuf, _in_timer, tick, begin, byte, begins, received, sent>>

Idle(w) == writer[w] = NotInWrite /\ (w = Main => MainIdle)

\* Mutant: any thread may write.
Mut_write_call(w, n) ==
    /\ Idle(w) /\ _initialised
    /\ offered + n <= MaxOut
    /\ writer' = [writer EXCEPT ![w] = [pc |-> "fill", left |-> n, len |-> 0,
                                        bytewise |-> n = 1 \/ ~_nonblocking_writes]]
    /\ UNCHANGED <<WriteOnly, _writebuf, offered>>

\* write(c), and write(buffer, size), which calls it byte by byte in blocking
\* mode.  For a thread other than the owner it returns 0 and does nothing.
write_call(w, n) ==
    /\ Idle(w) /\ _uart_owner_pid = getpid(w) /\ _initialised
    /\ offered + n <= MaxOut
    /\ writer' = [writer EXCEPT ![w] = [pc |-> "fill", left |-> n, len |-> 0,
                                        bytewise |-> n = 1 \/ ~_nonblocking_writes]]
    /\ UNCHANGED <<WriteOnly, _writebuf, offered>>

\* reserve and memcpy of ByteBuffer::write; write(c) in blocking mode waits, in
\* steps of a millisecond, until there is space.
write_fill(w) ==
    /\ writer[w].pc = "fill"
    /\ writer[w].bytewise => space(_writebuf) > 0
    /\ LET len == Lesser(IF writer[w].bytewise THEN 1 ELSE writer[w].left,
                         space(_writebuf))
       IN  /\ _writebuf' = Fill(_writebuf, [i \in 1 .. len |-> offered + i])
           /\ offered' = offered + len
           /\ writer' = [writer EXCEPT ![w].pc = "commit", ![w].len = len]
    /\ UNCHANGED WriteOnly

\* write(c) returns zero: no space, and not in blocking mode.
write_refused(w) ==
    /\ writer[w].pc = "fill" /\ writer[w].bytewise
    /\ space(_writebuf) = 0 /\ _nonblocking_writes
    /\ writer' = [writer EXCEPT ![w] = NotInWrite]
    /\ UNCHANGED <<WriteOnly, _writebuf, offered>>

\* commit of ByteBuffer::write.
write_commit(w) ==
    /\ writer[w].pc = "commit"
    /\ _writebuf' = commit(_writebuf, writer[w].len)
    /\ writer' = [writer EXCEPT ![w] =
           IF ~writer[w].bytewise \/ writer[w].left = 1 THEN NotInWrite
           ELSE [writer[w] EXCEPT !.pc = "fill", !.left = writer[w].left - 1, !.len = 0]]
    /\ UNCHANGED <<WriteOnly, offered>>

\* set_blocking_writes(false), when setup() is over.
set_blocking_writes ==
    /\ MainIdle /\ ~_nonblocking_writes
    /\ _nonblocking_writes' = TRUE
    /\ UNCHANGED <<rx, _initialised, _dev, _uart_owner_pid, _readbuf, _writebuf,
                   _in_timer, tick, begin, byte, writer, offered, begins, received, sent>>

-----------------------------------------------------------------------------
Init ==
    /\ rx_fifo = EmptyFifo
    /\ _readbuf = set_size(0) /\ _writebuf = set_size(0)
    /\ _initialised = FALSE /\ _in_timer = FALSE /\ _dev = FALSE
    /\ _nonblocking_writes = FALSE /\ _uart_owner_pid = NoThread
    /\ tick = Asleep /\ begin = NotInBegin /\ byte = NoByte
    /\ writer = [w \in Writers |-> NotInWrite]
    /\ arrived = 0 /\ offered = 0 /\ begins = 0
    /\ dropped = {} /\ received = <<>> /\ sent = <<>>

UartThread ==
    \/ tick_test \/ tick_mark \/ tick_peek \/ _write_fd \/ tick_advance
    \/ tick_reserve \/ _read_fd \/ tick_commit \/ tick_done

Begin ==
    \/ \E r, t \in AskedSizes : begin_call(r, t)
    \/ begin_rx \/ begin_set_rx \/ begin_tx \/ begin_set_tx \/ begin_open

Write(w) ==
    \/ \E n \in WriteSizes : write_call(w, n)
    \/ write_fill(w) \/ write_refused(w) \/ write_commit(w)

Next ==
    \/ rt_hw_serial_isr \/ UartThread \/ Begin
    \/ read_peek \/ read_advance \/ set_blocking_writes
    \/ \E w \in Writers : Write(w)

Spec == Init /\ [][Next]_vars

\* The UART thread wakes every millisecond, the threads above it sleep in
\* every loop, and a call that has begun goes on.
FairSpec ==
    /\ Spec
    /\ WF_vars(UartThread)
    /\ \A w \in Writers : WF_vars(write_fill(w) \/ write_refused(w) \/ write_commit(w))
    /\ WF_vars(begin_rx \/ begin_set_rx \/ begin_tx \/ begin_set_tx \/ begin_open)

-----------------------------------------------------------------------------
\* The variables keep their types, the indices of both buffers lie inside
\* them and those of rx_fifo inside its bufsz slots.
TypeOK ==
    /\ rx_fifo.put_index \in 0 .. BufSz - 1 /\ rx_fifo.get_index \in 0 .. BufSz - 1
    /\ _readbuf.size \in {0, MinRx} /\ _writebuf.size \in {0, MinTx}
    /\ \A b \in {_readbuf, _writebuf} :
          b.size > 0 => b.head \in 0 .. b.size - 1 /\ b.tail \in 0 .. b.size - 1
    /\ {_initialised, _in_timer, _dev, _nonblocking_writes} \subseteq BOOLEAN
    /\ tick.pc \in {"sleep", "mark", "peek", "write", "advance", "reserve", "read",
                    "commit", "done"}
    /\ begin.pc \in {"out", "rx", "set_rx", "tx", "set_tx", "open"}
    /\ \A w \in Writers : writer[w].pc \in {"out", "fill", "commit"}

\* The bytes in rx_fifo, and those read from it but not yet committed.
InFifo ==
    [i \in 1 .. (rx_fifo.put_index - rx_fifo.get_index) % BufSz |->
        rx_fifo.buffer[(rx_fifo.get_index + i - 1) % BufSz]]
Uncommitted ==
    IF tick.pc \in {"read", "commit"}
    THEN CopyFrom(_readbuf, IoVec(Head(tick.vec).data, tick.got)) ELSE <<>>

\* Every byte that arrived is, once and in order of arrival, with the reader,
\* in _readbuf, on its way there or in rx_fifo, except those the interrupt
\* gave up for lack of room in rx_fifo: nothing is lost or reordered between
\* the interrupt, the UART thread's pieces and the main thread's read().
ReceivedInOrder ==
    LET all == received \o Contents(_readbuf) \o Uncommitted \o InFifo
    IN  /\ \A i, j \in DOMAIN all : i < j => all[i] < all[j]
        /\ {all[i] : i \in DOMAIN all} = 1 .. arrived \ dropped

\* begin() replaces a buffer only while the UART thread is not between its
\* test of _initialised and the end of its tick, although the tick marks
\* itself only after the test: a port that passed the test has buffers of the
\* least sizes already, and no caller asks for more.
ResizedAlone == begin.pc \in {"set_rx", "set_tx"} => tick = Asleep

\* _writebuf is a bounded queue between write() and the line, and _readbuf one
\* between the UART thread and read().  A byte leaves when its slot is freed.
TakenFromTx ==
    SubSeq(sent, 1, Len(sent) - IF tick.pc = "advance" THEN Head(tick.vec).len ELSE 0)
Tx == INSTANCE ByteQueue WITH Bytes <- 1 .. MaxOut, Capacity <- MinTx - 1,
          queue <- Contents(_writebuf), taken <- TakenFromTx
Rx == INSTANCE ByteQueue WITH Bytes <- 1 .. MaxIn, Capacity <- MinRx - 1,
          queue <- Contents(_readbuf), taken <- received

\* write(), the two-piece sending of the tick and the ring between them
\* implement the bounded queue, although more than one thread calls write():
\* the test of _uart_owner_pid keeps a second one from filling the ring between
\* the reserve and the commit of the first.
TxIsQueue == Tx!Spec

\* So do the tick's receiving and read().
RxIsQueue == Rx!Spec

\* Every byte copied into _writebuf reaches the line in the end, so a tick
\* takes up what is written while another runs; and write() returns, however
\* full the buffer is when it is called in blocking mode.
EverythingSent ==
    /\ \A n \in 1 .. MaxOut : offered = n ~> Len(sent) >= n
    /\ \A w \in Writers : writer[w].pc # "out" ~> writer[w].pc = "out"
=============================================================================
