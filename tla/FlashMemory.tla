----------------------------- MODULE FlashMemory -----------------------------
(***************************************************************************)
(* What sfud.h promises of a flash with a lock: a memory of bytes that     *)
(* threads read, erase and write with calls that each take effect at one   *)
(* instant between call and return; sfud_erase_write has two, its erase    *)
(* and its write.  No bus, no commands, no cycles.                         *)
(***************************************************************************)
EXTENDS Integers, Sequences

CONSTANTS Threads,
          ChipSize,   \* bytes in the memory
          EraseGran,  \* bytes in the smallest block
          Commands    \* the calls: [fn, addr, size, version]

VARIABLES memory,
          phase,      \* "idle", "called", or "erased" half-way in sfud_erase_write
          request,    \* request[t]: t's last call
          answer,     \* answer[t]: what it returned, or "none" so far
          data        \* data[t]: the bytes it has read

flash == <<memory, phase, request, answer, data>>

Cells  == 0 .. ChipSize - 1
Erased == -1
Mixed  == -2          \* two bytes programmed over each other

\* Byte k of the data of call number v.
Byte(v, k) == 100 * v + k

\* Programming clears bits: only an erased byte takes any value.
Programmed(old, new) == IF old \in {Erased, new} THEN new ELSE Mixed

Target(c) == {a \in Cells : c.addr <= a /\ a < c.addr + c.size}

\* The blocks of the smallest eraser that a range touches.
Blocks(c) == {a \in Cells : \E b \in Target(c) : a \div EraseGran = b \div EraseGran}

InBound(c) == c.fn = "chipErase" \/ c.addr + c.size <= ChipSize

AfterErase(c, m) == [a \in Cells |-> IF a \in Blocks(c) THEN Erased ELSE m[a]]
AfterWrite(c, m) == [a \in Cells |-> IF a \in Target(c)
                                     THEN Programmed(m[a], Byte(c.version, a - c.addr)) ELSE m[a]]

\* The memory after call c, if it was m before.
After(c, m) == CASE c.fn = "read"       -> m
                 [] c.fn = "chipErase"  -> [a \in Cells |-> Erased]
                 [] c.fn = "erase"      -> AfterErase(c, m)
                 [] c.fn = "write"      -> AfterWrite(c, m)
                 [] c.fn = "eraseWrite" -> AfterWrite(c, AfterErase(c, m))

Contents(c, m) == [k \in 1 .. c.size |-> m[c.addr + k - 1]]

Init == /\ memory \in [Cells -> Int]
        /\ phase = [t \in Threads |-> "idle"]
        /\ answer = [t \in Threads |-> "none"]
        /\ data = [t \in Threads |-> <<>>]

Call(t) == /\ phase[t] = "idle"
           /\ phase' = [phase EXCEPT ![t] = "called"]
           /\ answer' = [answer EXCEPT ![t] = "none"]
           /\ data' = [data EXCEPT ![t] = <<>>]
           /\ \E c \in Commands : request' = [request EXCEPT ![t] = c]
           /\ UNCHANGED memory

Returns(t, r) == /\ phase' = [phase EXCEPT ![t] = "idle"]
                 /\ answer' = [answer EXCEPT ![t] = r]
                 /\ UNCHANGED request

Refuse(t) == /\ phase[t] = "called"
             /\ ~InBound(request[t])
             /\ Returns(t, "ERR_ADDR_OUT_OF_BOUND")
             /\ UNCHANGED <<memory, data>>

TakeEffect(t) == /\ phase[t] = "called" /\ request[t].fn # "eraseWrite"
                 /\ InBound(request[t])
                 /\ memory' = After(request[t], memory)
                 /\ data' = IF request[t].fn = "read"
                            THEN [data EXCEPT ![t] = Contents(request[t], memory)] ELSE data
                 /\ Returns(t, "SUCCESS")

EraseHalf(t) == /\ phase[t] = "called" /\ request[t].fn = "eraseWrite"
                /\ InBound(request[t])
                /\ memory' = AfterErase(request[t], memory)
                /\ phase' = [phase EXCEPT ![t] = "erased"]
                /\ UNCHANGED <<request, answer, data>>

WriteHalf(t) == /\ phase[t] = "erased"
                /\ memory' = AfterWrite(request[t], memory)
                /\ Returns(t, "SUCCESS")
                /\ UNCHANGED data

Next == \E t \in Threads : Call(t) \/ Refuse(t) \/ TakeEffect(t) \/ EraseHalf(t) \/ WriteHalf(t)

Spec == Init /\ [][Next]_flash
=============================================================================
