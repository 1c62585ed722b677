------------------------------- MODULE Console -------------------------------
(***************************************************************************)
(* The kernel console: the two arenas that hold events and their messages  *)
(* until a flush, the list of backends, log calls of several CPUs, and the *)
(* ring buffer between the receive interrupt of the UART and the reader.   *)
(*                                                                         *)
(* A message is a number and a length; mem is the message arena, byte by   *)
(* byte, and an event holds the place of its message, as the code's        *)
(* pointers do.  Both locks make their calls atomic.  A failed assertion   *)
(* stops the console: it is raised with the write lock held, and the panic *)
(* message needs the same lock.                                            *)
(***************************************************************************)
EXTENDS Integers, Sequences, SequencesExt

CONSTANTS Cpus, Backends,
          EventCap,     \* _IO_EVENT_BUFFER_COUNT
          MsgCap,       \* IO_EVENT_MSG_BUFFER_SIZE
          RingCap,      \* CONSOLE_RECV_RING_BUFFER_SIZE
          Lengths,      \* lengths of the messages that are written
          Levels,       \* log levels
          MaxMessages,  \* bound on the number of messages
          MaxChars      \* bound on the number of received characters

ASSUME ConsoleAssumption ==
    /\ EventCap \in Nat \ {0} /\ MsgCap \in Nat \ {0}
    /\ RingCap \in Nat \ {0, 1} /\ Lengths \subseteq Nat

VARIABLES con,      \* [backends, events, used, mem, buffering, out, dead]
          level,    \* dynamic_log_level
          logging,  \* per CPU: between the two halves of a log call
          ring,     \* the receive ring: [buf, head, tail]
          fifo,     \* characters in the UART
          hist,     \* every message accepted, in order
          start,    \* per backend: how many of them precede its first
          sent,     \* characters the ring accepted
          read,     \* characters the reader got
          arrived   \* characters the UART received
consoleVars == <<con, level, logging, ring, fifo, hist, start, sent, read, arrived>>

-----------------------------------------------------------------------------
(* Arenas.                                                                 *)
arena_can_fit(c, len) == MsgCap - c.used >= len /\ EventCap - Len(c.events) >= 1
\* Mutant: the events of the arena stay.
MutReset(c) == [c EXCEPT !.used = 0]
arena_reset(c) == [c EXCEPT !.used = 0, !.events = <<>>]

Body(id, len) == [k \in 1 .. len |-> id]

(* Copy the message, then the event; each allocation is asserted.          *)
write_event(c, id, len) ==
    IF c.dead THEN c
    ELSE IF ~arena_can_fit(c, len) THEN [c EXCEPT !.dead = TRUE]
    ELSE [c EXCEPT !.mem = [p \in DOMAIN @ |->
                              IF p \in c.used .. c.used + len - 1 THEN id ELSE @[p]],
                   !.events = Append(@, [at |-> c.used, len |-> len]),
                   !.used = @ + len]

(* Every event to every backend, in order; what a backend prints is what   *)
(* the arena holds when it is flushed.                                     *)
Printed(c, ev) == [k \in 1 .. ev.len |-> c.mem[ev.at + k - 1]]
finalize_write(c) ==
    LET all == [i \in DOMAIN c.events |-> Printed(c, c.events[i])]
    IN  [c EXCEPT !.out = [b \in Backends |->
            IF \E i \in DOMAIN c.backends: c.backends[i] = b
            THEN @[b] \o all ELSE @[b]]]

_console_flush(c) == IF c.dead THEN c ELSE arena_reset(finalize_write(c))

\* Mutant: a full arena is not flushed first.
MutConsoleWrite(c, id, len) ==
    IF ~c.buffering THEN _console_flush(write_event(c, id, len))
    ELSE write_event(c, id, len)
_console_write(c, id, len) ==
    IF ~c.buffering THEN _console_flush(write_event(c, id, len))
    ELSE write_event(IF arena_can_fit(c, len) THEN c ELSE _console_flush(c), id, len)

(* One critical section with a sequence of lengths: the new messages are   *)
(* numbered after those before them.                                       *)
console_write_multiple(c, lens) ==
    LET after[k \in 0 .. Len(lens)] ==
            IF k = 0 THEN c ELSE _console_write(after[k - 1], Len(hist) + k, lens[k])
    IN  after[Len(lens)]
Accept(lens) ==
    /\ ~con.dead
    /\ Len(hist) + Len(lens) <= MaxMessages
    /\ con' = console_write_multiple(con, lens)
    /\ hist' = hist \o [k \in DOMAIN lens |-> Body(Len(hist) + k, lens[k])]

-----------------------------------------------------------------------------
ConsoleInit ==
    /\ con = [backends |-> <<>>, events |-> <<>>, used |-> 0,
              mem |-> [p \in 0 .. MsgCap - 1 |-> 0], buffering |-> FALSE,
              out |-> [b \in Backends |-> <<>>], dead |-> FALSE]
    /\ level \in Levels
    /\ logging = [c \in Cpus |-> FALSE]
    /\ ring = [buf |-> [p \in 0 .. RingCap - 1 |-> 0], head |-> 0, tail |-> 0]
    /\ fifo = <<>> /\ hist = <<>> /\ start = [b \in Backends |-> 0]
    /\ sent = <<>> /\ read = <<>> /\ arrived = 0

(* A backend joins at the head of the list; buffered messages will reach   *)
(* it too.                                                                 *)
ConsoleRegister(b) ==
    /\ ~con.dead
    /\ ~Contains(con.backends, b)
    /\ con' = [con EXCEPT !.backends = <<b>> \o @, !.out[b] = <<>>]
    /\ start' = [start EXCEPT ![b] = Len(hist) - Len(con.events)]
    /\ UNCHANGED <<level, logging, ring, fifo, hist, sent, read, arrived>>

ConsoleUnregister(b) ==
    /\ ~con.dead
    /\ Contains(con.backends, b)
    /\ con' = [con EXCEPT !.backends =
                  RemoveAt(@, CHOOSE i \in DOMAIN con.backends: con.backends[i] = b)]
    /\ UNCHANGED <<level, logging, ring, fifo, hist, start, sent, read, arrived>>

(* printf, console_write_char and the write operation of standard output:  *)
(* one event.                                                              *)
ConsoleWrite(len) ==
    /\ Accept(<<len>>)
    /\ UNCHANGED <<level, logging, ring, fifo, start, sent, read, arrived>>

(* __log: three events in one critical section, the flush in another.      *)
Log(c, lvl, len) ==
    /\ ~logging[c]
    /\ lvl >= level
    /\ Accept(<<1, 1, len>>)
    /\ logging' = [logging EXCEPT ![c] = ~con'.dead]
    /\ UNCHANGED <<level, ring, fifo, start, sent, read, arrived>>

UserLog(c, len) ==
    /\ ~logging[c]
    /\ Accept(<<1, len>>)
    /\ logging' = [logging EXCEPT ![c] = ~con'.dead]
    /\ UNCHANGED <<level, ring, fifo, start, sent, read, arrived>>

LogFlush(c) ==
    /\ logging[c] /\ ~con.dead
    /\ con' = _console_flush(con)
    /\ logging' = [logging EXCEPT ![c] = FALSE]
    /\ UNCHANGED <<level, ring, fifo, hist, start, sent, read, arrived>>

SetBuffering(on) ==
    /\ ~con.dead /\ con.buffering # on
    /\ con' = [con EXCEPT !.buffering = on]
    /\ UNCHANGED <<level, logging, ring, fifo, hist, start, sent, read, arrived>>

LogSetLevel(l) ==
    /\ level # l
    /\ level' = l
    /\ UNCHANGED <<con, logging, ring, fifo, hist, start, sent, read, arrived>>

-----------------------------------------------------------------------------
(* The UART receives a character and raises its interrupt (external).      *)
UartReceives ==
    /\ arrived < MaxChars
    /\ arrived' = arrived + 1
    /\ fifo' = Append(fifo, arrived + 1)
    /\ UNCHANGED <<con, level, logging, ring, hist, start, sent, read>>

\* Mutant: the index does not wrap.
MutFull(r) == r.head + 1 = r.tail
ringbuffer_full(r) == (r.head + 1) % RingCap = r.tail
ringbuffer_push(r, ch) ==
    IF ringbuffer_full(r) THEN r
    ELSE [r EXCEPT !.buf[r.head] = ch, !.head = (r.head + 1) % RingCap]
ringbuffer_pop(r) == [r EXCEPT !.tail = (r.tail + 1) % RingCap]

(* The receive handler takes one character per interrupt; a full ring      *)
(* drops it.                                                               *)
RecieveIrq ==
    /\ fifo # <<>>
    /\ fifo' = Tail(fifo)
    /\ ring' = ringbuffer_push(ring, Head(fifo))
    /\ sent' = IF ringbuffer_full(ring) THEN sent ELSE Append(sent, Head(fifo))
    /\ UNCHANGED <<con, level, logging, hist, start, read, arrived>>

(* One turn of the loop of std_read_op, which stops at an empty ring.      *)
ConsoleRead ==
    /\ ring.head # ring.tail
    /\ read' = Append(read, ring.buf[ring.tail])
    /\ ring' = ringbuffer_pop(ring)
    /\ UNCHANGED <<con, level, logging, fifo, hist, start, sent, arrived>>

Writing ==
    \/ \E b \in Backends: ConsoleRegister(b) \/ ConsoleUnregister(b)
    \/ \E len \in Lengths: ConsoleWrite(len)
    \/ \E c \in Cpus, len \in Lengths:
          (\E l \in Levels: Log(c, l, len)) \/ UserLog(c, len)
    \/ \E c \in Cpus: LogFlush(c)
    \/ \E on \in BOOLEAN: SetBuffering(on)
    \/ \E l \in Levels: LogSetLevel(l)

Receiving == UartReceives \/ RecieveIrq \/ ConsoleRead

ConsoleNext == Writing \/ Receiving

ConsoleSpec == ConsoleInit /\ [][ConsoleNext]_consoleVars

-----------------------------------------------------------------------------
(* Every backend prints every message accepted since it joined exactly     *)
(* once, unharmed and in order, or the message still waits in the arena:   *)
(* resets, early flushes and backends that come and go lose, repeat or     *)
(* overwrite nothing.                                                      *)
EveryMessageOnce ==
    ~con.dead =>
        \A i \in DOMAIN con.backends:
            LET b == con.backends[i]
            IN  con.out[b] \o [k \in DOMAIN con.events |-> Printed(con, con.events[k])]
                  = SubSeq(hist, start[b] + 1, Len(hist))

(* The assertions of write_event, raised with the write lock held, fail    *)
(* only for a message that does not fit an empty arena, or when buffering  *)
(* was switched off with events pending: the unbuffered path does not look *)
(* for room.  The early flush makes room for every other message.          *)
OnlyLongMessagePanics ==
    con.dead => \/ \E i \in DOMAIN hist: Len(hist[i]) > MsgCap
                \/ ~con.buffering /\ con.events # <<>>

(* The reader gets the characters the ring accepted, in order, and those   *)
(* not yet read are still in it, however often its indices have wrapped.   *)
RingIsQueue ==
    LET held == (ring.head - ring.tail + RingCap) % RingCap
    IN  sent = read \o [k \in 1 .. held |-> ring.buf[(ring.tail + k - 1) % RingCap]]

(* Output and input of the console together.                               *)
ConsoleSound == EveryMessageOnce /\ OnlyLongMessagePanics /\ RingIsQueue
=============================================================================
