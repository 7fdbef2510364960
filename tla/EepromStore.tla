----------------------------- MODULE EepromStore -----------------------------
(***************************************************************************)
(* m24cxx/infoat24xx.c, which keeps records with a checksum in an EEPROM,  *)
(* over m24cxx.c, which writes the EEPROM page by page.  The power may     *)
(* fail between pages and within one.  The device acknowledges nothing the *)
(* driver looks at, so that a page may also get lost on the bus.  A byte   *)
(* is a cell; the two bytes of a checksum are one cell, and the checksum   *)
(* of some data is that data: equal only when the data is.                 *)
(***************************************************************************)
EXTENDS Integers, Sequences, FiniteSets

CONSTANTS
  PageSize, Size,     \* EEPROM_PAGE_SIZE, MAX_EEPROM_SIZE
  AddrWrap,           \* 2^16, the modulus of a u_short
  Record,             \* the four kinds of record
  Base,               \* their addresses: ADDR_BAT_PARAM and so on
  Values, Default,    \* bound: what they are saved with; tgParamFile and so on
  Byte, Blank, Torn,  \* the bytes; one never written; one cut short
  Raw,                \* bound: addresses and data of the writes outside the records
  Losses              \* may pages get lost on the bus, and may they not

Address == 0 .. Size - 1

\* The cells of a record, its checksum and its data.
Area(r) == Base[r] .. Base[r] + Len(Default[r])

Cell == Byte \union {Blank, Torn} \union UNION {Values[r] : r \in Record}

ASSUME EepromAssumption ==
  /\ PageSize \in Nat \ {0} /\ Size \in Nat \ {0} /\ Size % PageSize = 0
  /\ AddrWrap \in Nat /\ Size < AddrWrap
  /\ Blank \notin Byte /\ Torn \notin Byte /\ Losses \subseteq BOOLEAN
  /\ Default \in [Record -> Seq(Byte)]
  /\ \A r \in Record :
       /\ Base[r] \in Address /\ Base[r] % PageSize = 0 /\ Area(r) \subseteq Address
       /\ \A v \in Values[r] \union {Default[r]} : v \in Seq(Byte) /\ Len(v) = Len(Default[r])
       /\ \A s \in Record \ {r} : Area(r) \intersect Area(s) = {}

\* A cell that was never written, or cut short, is the checksum of nothing.
ASSUME ChecksumAssumption ==
  \A r \in Record : {Blank, Torn} \intersect [1 .. Len(Default[r]) -> Cell] = {}

ASSUME RawAssumption ==
  \A w \in Raw :
    /\ w[1] \in Nat /\ w[2] \in Seq(Byte \union {Blank}) /\ Len(w[2]) < AddrWrap
    /\ \A r \in Record : (w[1] .. w[1] + Len(w[2]) - 1) \intersect Area(r) = {}

VARIABLES
  cells,   \* the EEPROM
  pc,      \* the write under way, if there is one
  ret,     \* what at24cxx_write returned, and -1 before it did and after a restart
  past     \* history: what each record had or was to have since an undamaged save

vars == <<cells, pc, ret, past>>

\* No write is under way; pages of the last one, for a record or not, were lost.
None(for, lost) == [at |-> "idle", for |-> for, lost |-> lost]

Idle == None(<<>>, FALSE)

Init ==
  /\ cells = [a \in Address |-> Blank] /\ pc = Idle /\ ret = -1
  /\ past = [r \in Record |-> {Default[r]}]

-----------------------------------------------------------------------------
(* The device. *)

\* The cell that byte i of a page write at address a goes to: the address
\* counter wraps within the page.
Target(a, i) == (a - (a % PageSize)) + ((a + i - 1) % PageSize)

\* What the page leaves, some cells as they were and some torn.
Programmed(a, data, kept, torn) ==
  [c \in Address |->
     LET I == {i \in 1 .. Len(data) : Target(a, i) = c}
     IN  IF I = {} \/ c \in kept THEN cells[c]
         ELSE IF c \in torn THEN Torn
         ELSE data[CHOOSE i \in I : \A j \in I : j <= i]]

-----------------------------------------------------------------------------
(* m24cxx.c *)

\* at24cxx_read, within the memory.
ReadAt(a, n) == [i \in 1 .. n |-> cells[a + i - 1]]

\* A faulty ChunkLen: pages are counted from where the write began.
ChunkLenAny(a, n) == IF n < PageSize THEN n ELSE PageSize

\* How much of n bytes at a goes with the first page.
ChunkLen(a, n) ==
  LET left == PageSize - (a % PageSize) IN IF n < left THEN n ELSE left

\* endAddr of a write, a u_short, cut at the end of the memory.
EndAddr(a, data) ==
  LET end == (a + Len(data)) % AddrWrap IN IF end > Size THEN Size ELSE end

\* A faulty Write: what does not fit is not cut off.
WriteUncut(r, a, data) ==
  IF data = <<>> \/ a >= Size
  THEN ret' = 0 /\ UNCHANGED <<cells, pc>>
  ELSE /\ pc' = [at |-> "write", for |-> r, from |-> a, data |-> data, done |-> 0, lost |-> FALSE]
       /\ ret' = -1 /\ UNCHANGED cells

\* at24cxx_write up to its loop, for a record <<r>> or for none, <<>>: what does not
\* fit is cut off, and all of it when its end is beyond a u_short.
Write(r, a, data) ==
  LET n == EndAddr(a, data) - a
  IN  IF data = <<>> \/ a >= Size \/ n <= 0
      THEN ret' = 0 /\ UNCHANGED <<cells, pc>>
      ELSE /\ pc' = [at |-> "write", for |-> r, from |-> a, data |-> SubSeq(data, 1, n),
                     done |-> 0, lost |-> FALSE]
           /\ ret' = -1 /\ UNCHANGED cells

Addr  == pc.from + pc.done
Chunk == SubSeq(pc.data, pc.done + 1, pc.done + ChunkLen(Addr, Len(pc.data) - pc.done))

\* at24cxx_writepage and the next turn of the loop, or its end.  A page that
\* is lost on the bus counts as written.
WritePage(lost) ==
  /\ pc.at = "write"
  /\ cells' = IF lost THEN cells ELSE Programmed(Addr, Chunk, {}, {})
  /\ LET done == pc.done + Len(Chunk) IN
       IF done < Len(pc.data)
       THEN pc' = [pc EXCEPT !.done = done, !.lost = @ \/ lost] /\ UNCHANGED ret
       ELSE pc' = None(pc.for, pc.lost \/ lost) /\ ret' = done
  /\ past' = [r \in Record |-> IF pc'.at = "idle" /\ pc.for = <<r>> /\ ~pc'.lost
                              THEN {Tail(pc.data)} ELSE past[r]]

\* The power fails, in the middle of a page or with none under way.
PowerFails ==
  /\ pc' = Idle /\ ret' = -1 /\ UNCHANGED past
  /\ IF pc.at = "write"
     THEN LET T == {Target(Addr, i) : i \in 1 .. Len(Chunk)}
          IN  \E kept \in SUBSET T : \E torn \in SUBSET (T \ kept) :
                cells' = Programmed(Addr, Chunk, kept, torn)
     ELSE UNCHANGED cells

\* at24cxx_write and at24cxx_write1byte, called as such.
RawWrite ==
  /\ pc.at = "idle" /\ UNCHANGED past
  /\ \E w \in Raw : Write(<<>>, w[1], w[2])

-----------------------------------------------------------------------------
(* infoat24xx.c: the record lies behind its checksum. *)

CRC16(data) == data

Data(r) == ReadAt(Base[r] + 1, Len(Default[r]))

\* A faulty Stored: the checksum alone is compared.
StoredCrcOnly(r, v) == cells[Base[r]] = CRC16(v)

\* What halSave2AT24cxx and its likes find in the EEPROM is what they would write.
Stored(r, v) == cells[Base[r]] = CRC16(v) /\ Data(r) = v

SaveUnneeded(r, v) ==
  /\ pc.at = "idle" /\ Stored(r, v)
  /\ pc' = Idle /\ past' = [past EXCEPT ![r] = {v}]
  /\ UNCHANGED <<cells, ret>>

Save(r, v) ==
  /\ pc.at = "idle" /\ ~Stored(r, v)
  /\ Write(<<r>>, Base[r], <<CRC16(v)>> \o v)
  /\ past' = [past EXCEPT ![r] = @ \union {v}]

\* halLoadFromAT24cxx and its likes.
Loaded(r) == IF cells[Base[r]] = CRC16(Data(r)) THEN Data(r) ELSE Default[r]

Next ==
  \/ RawWrite
  \/ \E r \in Record : \E v \in Values[r] : Save(r, v) \/ SaveUnneeded(r, v)
  \/ \E lost \in Losses : WritePage(lost)
  \/ PowerFails

Spec == Init /\ [][Next]_vars

-----------------------------------------------------------------------------
TypeOK ==
  /\ cells \in [Address -> Cell]
  /\ ret \in -1 .. Size
  /\ \A r \in Record : past[r] \subseteq Values[r] \union {Default[r]}
  /\ pc.for \in {<<r>> : r \in Record} \union {<<>>} /\ pc.lost \in BOOLEAN
  /\ \/ pc.at = "idle"
     \/ /\ pc.at = "write"
        /\ pc.from \in Address /\ Addr + Len(Chunk) <= Size /\ Chunk # <<>>

\* at24cxx_write changes no cell but those it was asked to write, and when it
\* returns it returns how many these are and, nothing lost, they hold the data:
\* the pages it is cut into neither overlap, leave a gap nor wrap.
WriteExact ==
  [][/\ \A c \in Address : cells'[c] # cells[c] =>
          pc.at = "write" /\ c \in pc.from .. pc.from + Len(pc.data) - 1
     /\ (pc.at = "write" /\ ret' >= 0 /\ pc'.at = "idle") =>
          /\ ret' = Len(pc.data)
          /\ pc'.lost \/ \A i \in 1 .. Len(pc.data) : cells'[pc.from + i - 1] = pc.data[i]]_vars

\* The records behave as ParamStore says, through losses of power, lost pages
\* and writes next to them: what a load of a record gives is its value.
Store == INSTANCE ParamStore WITH
  value  <- [r \in Record |-> Loaded(r)],
  saving <- IF pc.at = "write" /\ pc.for # <<>> THEN <<pc.for[1], Tail(pc.data)>> ELSE <<>>,
  lost   <- pc.for # <<>> /\ pc.lost

ImplementsParamStore == Store!Spec

\* "return 0 failed, 1 suceeds", of halSave2AT24cxx and its likes, which return
\* 1: a save that returned is what the record is then loaded with.
SaveSucceeds ==
  [][(pc.at = "write" /\ pc'.at = "idle" /\ ret' >= 0)
       => \A r \in Record : pc.for = <<r>> => Loaded(r)' = Tail(pc.data)]_vars
=============================================================================
