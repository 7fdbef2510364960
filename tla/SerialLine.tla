------------------------------ MODULE SerialLine ------------------------------
(***************************************************************************)
(* contiki/core/dev/serial-line.c over lib/ringbuf.c: the interrupt of the *)
(* UART puts bytes into a ring, and a process takes them out, collects a   *)
(* line in its one buffer and broadcasts it by reference.  The interrupt   *)
(* falls between any two steps of the process, also between the test and   *)
(* the take of ringbuf_get.  Of the kernel there is what this needs: the   *)
(* poll flag, the event queue and the call of one process at a time.       *)
(* A character is the line in which it was typed and its place on it.      *)
(***************************************************************************)
EXTENDS Integers, Sequences, FiniteSets

CONSTANTS
  BufSize,      \* BUFSIZE, of the ring and of the line
  QueueSize,    \* PROCESS_CONF_NUMEVENTS
  Others,       \* bound: events of other processes in the queue
  MaxBytes,     \* bound: bytes that come in
  BareErase,    \* is a backspace typed on an empty line
  End, Erase, Nul

ASSUME SerialAssumption ==
  /\ BufSize \in {2, 4, 8, 16, 32, 64, 128} /\ QueueSize \in Nat \ {0}
  /\ Others \in Nat /\ MaxBytes \in Nat /\ BareErase \in BOOLEAN

VARIABLES
  rx, put, get,    \* rxbuf
  overflow,        \* of serial_line_input_byte
  up,              \* serial_line_init was called
  needspoll,       \* of serial_line_process
  events,          \* the event queue
  pt,              \* where the process is
  buf, ptr,        \* its line
  line, len,       \* history: the line being typed, and how many characters it has
  bytes,           \* how many bytes have come in
  heard,           \* history: the last line the shell got
  owed             \* history: terminators taken into the ring less lines the shell got

ring     == <<rx, put, get>>
lines    == <<buf, ptr>>
told     == <<line, len, bytes>>
lineVars == <<ring, overflow, up, needspoll, events, pt, lines, told, heard, owed>>

Index == 0 .. BufSize - 1
Line  == 1 .. MaxBytes + 1
Char  == Line \X Index
Byte  == Char \union {End, Erase, Nul}

ASSUME ByteAssumption ==
  /\ End # Erase /\ End # Nul /\ Erase # Nul
  /\ {End, Erase, Nul} \intersect Char = {}

\* The uart interrupt is on before serial_line_init: the mask of the ring is 0.
LineInit ==
  /\ rx = [i \in Index |-> Nul] /\ put = 0 /\ get = 0
  /\ overflow = FALSE /\ up = FALSE /\ needspoll = FALSE
  /\ events = <<>> /\ pt = "off"
  /\ buf = [i \in Index |-> Nul] /\ ptr = 0
  /\ line = 1 /\ len = 0 /\ bytes = 0
  /\ heard = 0 /\ owed = 0

-----------------------------------------------------------------------------
(* The interrupt. *)

\* There is no place left in the ring.
Full == ~up \/ (put - get) % BufSize = BufSize - 1

\* ringbuf_put, when it takes the byte.
Put(b) ==
  /\ ~Full
  /\ rx' = [rx EXCEPT ![put] = b]
  /\ put' = (put + 1) % BufSize
  /\ owed' = owed + (IF b = End THEN 1 ELSE 0)

Refuse == UNCHANGED <<rx, put, owed>>

\* What the one who types sees: a line no longer than the buffer.
Type(b) ==
  /\ bytes < MaxBytes /\ bytes' = bytes + 1
  /\ b = Erase => len > 0 \/ BareErase
  /\ line' = IF b = End THEN line + 1 ELSE line
  /\ len' = IF b = End THEN 0
            ELSE IF len = BufSize - 1 \/ (b = Erase /\ len = 0) THEN len
            ELSE IF b = Erase THEN len - 1 ELSE len + 1

\* A faulty InputByte: only the byte that does not fit is left out.
InputByteAny(b) ==
  /\ Type(b)
  /\ \/ Put(b) /\ overflow' = FALSE
     \/ Full /\ Refuse /\ overflow' = TRUE
  /\ needspoll' = up
  /\ UNCHANGED <<get, up, events, pt, lines, heard>>

\* serial_line_input_byte: once a byte did not fit, those up to a terminator
\* that does are left out.
InputByte(b) ==
  /\ Type(b)
  /\ IF overflow /\ b # End
     THEN Refuse /\ UNCHANGED overflow
     ELSE \/ Put(b) /\ overflow' = FALSE
          \/ Full /\ Refuse /\ overflow' = TRUE
  /\ needspoll' = up
  /\ UNCHANGED <<get, up, events, pt, lines, heard>>

-----------------------------------------------------------------------------
(* The process. *)

\* serial_line_init.
Boot ==
  /\ pt = "off" /\ pt' = "test"
  /\ up' = TRUE /\ put' = 0 /\ get' = 0 /\ ptr' = 0
  /\ UNCHANGED <<rx, overflow, needspoll, events, buf, told, heard, owed>>

\* ringbuf_get up to its test; there is nothing, and the process yields.
Test ==
  /\ pt = "test"
  /\ pt' = IF put = get THEN "yield" ELSE "take"
  /\ UNCHANGED <<ring, overflow, up, needspoll, events, lines, told, heard, owed>>

\* process_post.
Posted(q, e) == IF Len(q) < QueueSize THEN Append(q, e) ELSE q

\* A faulty Collect: no place is kept for the end of the line.
CollectAll(b) ==
  /\ pt' = "test" /\ UNCHANGED events
  /\ IF b = Erase
     THEN ptr' = ptr - 1 /\ buf' = [i \in Index |-> IF i = ptr - 1 THEN Nul ELSE buf[i]]
     ELSE ptr' = ptr + 1 /\ buf' = [i \in Index |-> IF i = ptr THEN b ELSE buf[i]]

\* A byte of the line.
Collect(b) ==
  /\ pt' = "test" /\ UNCHANGED events
  /\ IF ptr >= BufSize - 1 THEN UNCHANGED lines
     ELSE IF b = Erase
     THEN ptr' = ptr - 1 /\ buf' = [i \in Index |-> IF i = ptr - 1 THEN Nul ELSE buf[i]]
     ELSE ptr' = ptr + 1 /\ buf' = [i \in Index |-> IF i = ptr THEN b ELSE buf[i]]

\* The end of the line: the process waits behind its own event until all have
\* had the line, unless the queue does not take that event.
Terminate ==
  /\ buf' = [buf EXCEPT ![ptr] = Nul] /\ ptr' = 0
  /\ LET q == Posted(events, "line") IN
       /\ events' = Posted(q, "continue")
       /\ pt' = IF Len(q) < QueueSize THEN "wait" ELSE "test"

\* The rest of ringbuf_get, and what the process does with the byte.
Take ==
  /\ pt = "take"
  /\ get' = (get + 1) % BufSize
  /\ IF rx[get] = End THEN Terminate ELSE Collect(rx[get])
  /\ UNCHANGED <<rx, put, overflow, up, needspoll, told, heard, owed>>

-----------------------------------------------------------------------------
(* The kernel, which calls one process at a time. *)

Rests == pt \in {"yield", "wait"}

\* do_poll: a process that waits for its event does not look at a poll.
DoPoll ==
  /\ Rests /\ needspoll /\ needspoll' = FALSE
  /\ pt' = IF pt = "yield" THEN "test" ELSE pt
  /\ UNCHANGED <<ring, overflow, up, events, lines, told, heard, owed>>

\* The line as the shell reads it.
Text == SubSeq([i \in 1 .. BufSize |-> buf[i - 1]], 1,
               CHOOSE n \in Index : buf[n] = Nul /\ \A i \in 0 .. n - 1 : buf[i] # Nul)

\* A faulty DoEvent: behind a line the process waits for the next poll.
DoEventThenYield ==
  /\ Rests /\ events # <<>> /\ events' = Tail(events)
  /\ heard' = IF Head(events) = "line" /\ Text # <<>> THEN Text[1][1] ELSE heard
  /\ owed' = IF Head(events) = "line" THEN owed - 1 ELSE owed
  /\ pt' = IF Head(events) = "continue" THEN "yield" ELSE pt
  /\ UNCHANGED <<ring, overflow, up, needspoll, lines, told>>

\* do_event.  serial_shell_process was started last and is called first.
DoEvent ==
  /\ Rests /\ events # <<>> /\ events' = Tail(events)
  /\ \/ /\ Head(events) = "line"
        /\ heard' = IF Text = <<>> THEN heard ELSE Text[1][1]
        /\ owed' = owed - 1
        /\ pt' = IF pt = "yield" THEN "test" ELSE pt
     \/ /\ Head(events) = "continue" /\ pt' = "test"
        /\ UNCHANGED <<heard, owed>>
     \/ /\ Head(events) = "other"
        /\ UNCHANGED <<pt, heard, owed>>
  /\ UNCHANGED <<ring, overflow, up, needspoll, lines, told>>

\* Another process, the shell among them, posts an event.
PostOther ==
  /\ Rests
  /\ Cardinality({i \in 1 .. Len(events) : events[i] = "other"}) < Others
  /\ events' = Posted(events, "other")
  /\ UNCHANGED <<ring, overflow, up, needspoll, pt, lines, told, heard, owed>>

LineNext ==
  \/ \E b \in {<<line, len>>, Erase, End} : InputByte(b)
  \/ Boot \/ Test \/ Take \/ DoPoll \/ DoEvent \/ PostOther

\* process_run is called for ever, and does the polls and an event each time.
LineSpec ==
  /\ LineInit /\ [][LineNext]_lineVars
  /\ WF_lineVars(Boot) /\ WF_lineVars(Test) /\ WF_lineVars(Take)
  /\ WF_lineVars(DoPoll) /\ WF_lineVars(DoEvent)

-----------------------------------------------------------------------------
LineTypeOK ==
  /\ rx \in [Index -> Byte] /\ put \in Index /\ get \in Index
  /\ overflow \in BOOLEAN /\ up \in BOOLEAN /\ needspoll \in BOOLEAN
  /\ Len(events) <= QueueSize
  /\ \A i \in 1 .. Len(events) : events[i] \in {"line", "continue", "other"}
  /\ pt \in {"off", "test", "take", "yield", "wait"}
  /\ buf \in [Index -> Byte] /\ ptr \in Index
  /\ line \in Line /\ len \in Index /\ bytes \in 0 .. MaxBytes
  /\ heard \in Line \union {0} /\ owed \in 0 .. MaxBytes

\* The line the shell gets is one that was typed, up to the first byte for
\* which there was no room: no characters of two lines, none left out between
\* others, no line twice or after a later one.
LinesIntact ==
  [][(events # <<>> /\ Head(events) = "line" /\ events' = Tail(events)) =>
       \A i \in 1 .. Len(Text) :
         Text[i] = <<Text[1][1], i - 1>> /\ Text[1][1] > heard]_lineVars

\* When no more bytes come in, every terminator that found room has become a
\* line the shell got, and no byte is left in the ring: no poll is missed
\* between the test of the ring and the yield.
Drains == <>[](owed = 0 /\ put = get)
=============================================================================
