------------------------------- MODULE NorChip -------------------------------
(***************************************************************************)
(* The SPI NOR flash chip behind the driver, as sfud.c uses it: a status   *)
(* register with a busy bit and a write-enable latch, erase blocks, pages  *)
(* that wrap, and cycles that end by themselves some time later.  While a  *)
(* cycle runs the chip answers RDSR (with WEL still set) and nothing else. *)
(* Each operator below is the chip's reaction to one command.              *)
(***************************************************************************)
EXTENDS Integers, Sequences

CONSTANTS ChipSize,   \* bytes in the chip
          PageSize    \* bytes in a page: 256, scaled down

ASSUME ChipAssumption == ChipSize \in Nat \ {0} /\ PageSize \in Nat \ {0}

VARIABLES mem,        \* mem[a]: the byte at address a
          wel,        \* write-enable latch
          work,       \* what the cycle under way will store, or NoWork
          aai         \* where the next AAI word goes, or NotAai

chip == <<mem, wel, work, aai>>

Cells  == 0 .. ChipSize - 1
Erased == -1          \* an erased byte, 0xFF
Mixed  == -2          \* two different bytes programmed over each other
NotAai == -1
NoWork == [cells |-> {}, value |-> <<>>]
Ready  == work = NoWork

\* Programming clears bits: only an erased byte takes the new value.
And(old, new) == CASE old = Erased -> new
                   [] old = new    -> old
                   [] OTHER        -> Mixed

Begin(w) == work' = w /\ UNCHANGED <<mem, wel>>

WREN == /\ wel' = (wel \/ Ready)
        /\ UNCHANGED <<mem, work, aai>>

WRDI == /\ wel' = (wel /\ ~Ready)
        /\ aai' = IF Ready THEN NotAai ELSE aai
        /\ UNCHANGED <<mem, work>>

Ignored == UNCHANGED chip

Obeys == Ready /\ wel /\ aai = NotAai

\* The block of "size" bytes around address a becomes 0xFF.
EraseBlock(a, size) ==
    IF Obeys
    THEN LET block == {b \in Cells : b \div size = a \div size}
         IN  Begin([cells |-> block, value |-> [b \in block |-> Erased]]) /\ UNCHANGED aai
    ELSE Ignored

\* Programming runs to the end of the page and wraps to its start.
ProgramPage(a, bytes) ==
    IF Obeys
    THEN LET to(k) == (a \div PageSize) * PageSize + ((a + k - 1) % PageSize)
             cells == {to(k) : k \in DOMAIN bytes} \cap Cells
             last(b) == CHOOSE k \in DOMAIN bytes :
                           to(k) = b /\ \A j \in DOMAIN bytes : to(j) = b => j <= k
         IN  Begin([cells |-> cells, value |-> [b \in cells |-> And(mem[b], bytes[last(b)])]])
             /\ UNCHANGED aai
    ELSE Ignored

\* The first AAI command carries an address; the later ones are two bytes, which
\* the chip takes only in AAI mode.
ProgramWord(first, a, bytes) ==
    IF Ready /\ wel /\ (first \/ aai # NotAai)
    THEN LET at == IF aai = NotAai THEN a ELSE aai
             cells == {at, at + 1} \cap Cells
         IN  /\ Begin([cells |-> cells,
                       value |-> [b \in cells |-> And(mem[b], bytes[b - at + 1])]])
             /\ aai' = at + 2
    ELSE Ignored

\* The cycle ends: the bytes are stored, BUSY and WEL clear (WEL stays set in
\* AAI mode until WRDI).
Finish == /\ ~Ready
          /\ mem' = [b \in Cells |-> IF b \in work.cells THEN work.value[b] ELSE mem[b]]
          /\ work' = NoWork
          /\ wel' = (aai # NotAai)
          /\ UNCHANGED aai
=============================================================================
