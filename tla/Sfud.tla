-------------------------------- MODULE Sfud --------------------------------
(***************************************************************************)
(* The operations of the serial flash driver (3rdparty/sfud/src/sfud.c)    *)
(* on a NorChip: sfud_read, sfud_erase, sfud_chip_erase, sfud_write with   *)
(* its page and AAI forms, sfud_erase_write.  One step per SPI transfer,   *)
(* so that the chip's cycles, lost transfers and other threads come in     *)
(* between.  stack[t] is thread t's C stack: frames of the functions       *)
(* under way, the innermost first, each with the label "at" it has reached *)
(* and the variables it works on.                                          *)
(***************************************************************************)
EXTENDS NorChip, FiniteSetsExt

CONSTANTS Threads,
          Requests,       \* Requests[t]: the calls <<fn, addr, size>> t makes
          MaxCalls,       \* bound: calls made by all threads together
          WriteModes,     \* the values of flash->chip.write_mode
          Erasers,        \* the erasers' sizes, ascending; the first is erase_gran
          SfdpAvailable,  \* flash->sfdp.available
          RetryTimes,     \* flash->retry.times: 10000, scaled down
          Locking,        \* whether the port installs spi->lock and spi->unlock
          Free,           \* the owner of a free lock
          MaxFaults,      \* bound: transfers that go wrong
          Slow,           \* whether a cycle may outlast the retries
          SizeMod         \* size_t wraps at 2^64, scaled down

ASSUME SfudAssumption ==
    /\ WriteModes \subseteq {"page", "aai", "byte", "dual"}
    /\ Erasers \in Seq(Nat \ {0}) /\ Len(Erasers) > 0
    /\ \A t \in Threads : \A r \in Requests[t] :
          /\ r[1] \in {"read", "erase", "chipErase", "write", "eraseWrite"}
          /\ r[2] \in Nat /\ r[3] \in 0 .. SizeMod - 1
    /\ {SfdpAvailable, Locking, Slow} \subseteq BOOLEAN
    /\ {RetryTimes, MaxCalls, MaxFaults} \subseteq Nat
    /\ SizeMod \in Nat /\ SizeMod > ChipSize + 1 /\ Free \notin Threads

VARIABLES write_mode, \* flash->chip.write_mode, which sfud_init has found
          stack,      \* stack[t]: t's frames, innermost first
          cmd_data,   \* the static buffer of page256_or_1_byte_write
          lock_,      \* who holds the port's lock
          call,       \* call[t]: the last call t made and the value it writes
          answer,     \* answer[t]: what it returned, or "none" so far
          got,        \* got[t]: the bytes sfud_read delivered
          before,     \* before[t]: the memory when t's call, or its second half, began
          calls, faults, \* calls made, faults left
          deceived       \* whether spi->wr has hidden a lost transfer

ghost == <<write_mode, call, before, calls>>
port == <<faults, deceived>>
vars == <<chip, stack, cmd_data, lock_, answer, got, ghost, port>>

OldByte == 7
NoAnswer == -3    \* what is read from a chip that does not answer

Top(t) == Head(stack[t])
At(t, fns, l) == stack[t] # <<>> /\ Top(t).fn \in fns /\ Top(t).at = l
Writers == {"page", "aai", "erase", "chipErase"}

Frame(fn, l, addr, size, from, gran) ==
    [fn |-> fn, at |-> l, addr |-> addr, size |-> size, from |-> from, gran |-> gran,
     retry |-> RetryTimes, result |-> "SUCCESS"]

SetTop(t, f) == stack' = [stack EXCEPT ![t] = <<f>> \o Tail(stack[t])]
Goto(t, l) == SetTop(t, [Top(t) EXCEPT !.at = l])
Fail(t, l, r) == SetTop(t, [Top(t) EXCEPT !.at = l, !.result = r])
Push(t, f, l) == stack' = [stack EXCEPT ![t] = <<f, [Top(t) EXCEPT !.at = l]>> \o Tail(stack[t])]

Return(t, r) ==
    IF Len(stack[t]) = 1
    THEN /\ stack' = [stack EXCEPT ![t] = <<>>]
         /\ answer' = [answer EXCEPT ![t] = r]
    ELSE /\ stack' = [stack EXCEPT ![t] = <<[@[2] EXCEPT !.result = r]>> \o Tail(Tail(@))]
         /\ UNCHANGED answer

\* Where a function goes when it gives up: __exit.
Exit(t) == CASE Top(t).fn = "aai" -> "abort" [] Top(t).fn = "read" -> "unlock" [] OTHER -> "wrdi"

\* The outcomes of one spi->wr call.  A lost transfer does not reach the chip
\* and leaves zeros where bytes were read.  The answer tells nothing for sure:
\* the repository's port reports no loss, another one may report a failure
\* after the chip has acted.
Transfers == {x \in [ok : BOOLEAN, lost : BOOLEAN, busy : BOOLEAN, wel : BOOLEAN] :
                 /\ faults = 0 => x.ok /\ ~x.lost
                 /\ x.busy = (~x.lost /\ ~Ready)
                 /\ x.wel = (~x.lost /\ wel)}
Spend(x) == /\ faults' = IF x.ok /\ ~x.lost THEN faults ELSE faults - 1
            /\ deceived' = (deceived \/ (x.ok /\ x.lost))

-----------------------------------------------------------------------------
Init == /\ mem \in {[a \in Cells |-> Erased], [a \in Cells |-> OldByte]}
        /\ wel = FALSE /\ work = NoWork /\ aai = NotAai
        /\ write_mode \in WriteModes
        /\ stack = [t \in Threads |-> <<>>]
        /\ cmd_data = [addr |-> 0, bytes |-> <<>>]
        /\ lock_ = Free
        /\ call = [t \in Threads |-> [fn |-> "read", addr |-> 0, size |-> 0, version |-> 0]]
        /\ answer = [t \in Threads |-> "none"]
        /\ got = [t \in Threads |-> <<>>]
        /\ before = [t \in Threads |-> mem]
        /\ calls = 0 /\ faults = MaxFaults /\ deceived = FALSE

Call(t) ==
    /\ stack[t] = <<>>
    /\ calls < MaxCalls
    /\ \E r \in Requests[t] :
         /\ call' = [call EXCEPT ![t] = [fn |-> r[1], addr |-> r[2], size |-> r[3],
                                         version |-> calls + 1]]
         /\ stack' = [stack EXCEPT ![t] = <<Frame(r[1], "enter", r[2], r[3], 0, PageSize)>>]
    /\ answer' = [answer EXCEPT ![t] = "none"]
    /\ calls' = calls + 1
    /\ UNCHANGED <<write_mode, chip, cmd_data, lock_, got, before, port>>

\* sfud_write picks a form by the write mode; the other modes write nothing.
sfud_write(t) ==
    /\ At(t, {"write"}, "enter")
    /\ IF write_mode \in {"page", "aai"}
       THEN SetTop(t, [Top(t) EXCEPT !.fn = write_mode]) /\ UNCHANGED answer
       ELSE Return(t, "SUCCESS")
    /\ UNCHANGED <<chip, cmd_data, lock_, got, ghost, port>>

sfud_erase_write(t) ==
    /\ \/ /\ At(t, {"eraseWrite"}, "enter")
          /\ Push(t, Frame("erase", "enter", Top(t).addr, Top(t).size, 0, PageSize), "erased")
          /\ UNCHANGED answer
       \/ /\ At(t, {"eraseWrite"}, "erased")
          /\ IF Top(t).result = "SUCCESS"
             THEN SetTop(t, [Top(t) EXCEPT !.fn = "write", !.at = "enter"]) /\ UNCHANGED answer
             ELSE Return(t, Top(t).result)
    /\ UNCHANGED <<chip, cmd_data, lock_, got, ghost, port>>

\* The check of the address bound, whose sum is a size_t, and sfud_erase's turn
\* to sfud_chip_erase.
Enter(t) ==
    /\ At(t, Writers \cup {"read"}, "enter")
    /\ IF (Top(t).addr + Top(t).size) % SizeMod > ChipSize /\ Top(t).fn # "chipErase"
       THEN Return(t, "ERR_ADDR_OUT_OF_BOUND")
       ELSE /\ SetTop(t, [Top(t) EXCEPT !.at = "lock",
                             !.fn = IF @ = "erase" /\ Top(t).addr = 0 /\ Top(t).size = ChipSize
                                    THEN "chipErase" ELSE @])
            /\ UNCHANGED answer
    /\ UNCHANGED <<chip, cmd_data, lock_, got, ghost, port>>

\* Where a function starts once it has the bus.
Start(f) == CASE f.fn = "read" -> "busy"
              [] f.fn = "aai" -> IF f.addr % 2 # 0 THEN "head" ELSE "wren"
              [] f.fn = "chipErase" -> "wren"
              [] OTHER -> IF f.size = 0 THEN "wrdi" ELSE "wren"

\* Mutant of Lock: nobody is excluded.
LockNobody(t) ==
    /\ At(t, Writers \cup {"read"}, "lock")
    /\ Goto(t, Start(Top(t)))
    /\ before' = [before EXCEPT ![t] = mem]
    /\ UNCHANGED <<write_mode, chip, cmd_data, lock_, call, answer, got, calls, port>>

\* An odd byte of aai_write is part of its call.
OddBytePage(t) == Len(stack[t]) = 2 /\ Top(t).fn = "page"

\* spi->lock.
Lock(t) ==
    /\ At(t, Writers \cup {"read"}, "lock")
    /\ IF Locking THEN lock_ = Free /\ lock_' = t ELSE UNCHANGED lock_
    /\ Goto(t, Start(Top(t)))
    /\ before' = IF OddBytePage(t) THEN before ELSE [before EXCEPT ![t] = mem]
    /\ UNCHANGED <<write_mode, chip, cmd_data, call, answer, got, calls, port>>

\* spi->unlock, and the result returned.
Unlock(t) ==
    /\ At(t, Writers \cup {"read"}, "unlock")
    /\ lock_' = IF Locking THEN Free ELSE lock_
    /\ Return(t, Top(t).result)
    /\ UNCHANGED <<chip, cmd_data, got, ghost, port>>

-----------------------------------------------------------------------------
\* set_write_enabled(flash, true): the command, then the status.
WriteEnable(t) ==
    /\ At(t, Writers, "wren")
    /\ \E x \in Transfers :
         /\ Spend(x)
         /\ IF x.lost THEN Ignored ELSE WREN
         /\ IF x.ok THEN Goto(t, "wrenStatus") ELSE Fail(t, Exit(t), "ERR_WRITE")
    /\ UNCHANGED <<cmd_data, lock_, answer, got, ghost>>

WriteEnableStatus(t) ==
    /\ At(t, Writers, "wrenStatus")
    /\ \E x \in Transfers :
         /\ Spend(x)
         /\ CASE ~x.ok -> Fail(t, Exit(t), "ERR_READ")
              [] x.ok /\ ~x.wel -> Fail(t, Exit(t), "ERR_WRITE")
              [] OTHER -> Goto(t, CASE Top(t).fn = "page" -> "fill"
                                    [] Top(t).fn = "aai" /\ Top(t).size < 2 -> "wrdi"
                                    [] OTHER -> "command")
    /\ UNCHANGED <<chip, cmd_data, lock_, answer, got, ghost>>

ToNext(a, n) == n - (a % n)

\* The bytes of this page command: up to the next multiple of write_gran.
Chunk(f) == Min({f.size, ToNext(f.addr, f.gran)})

\* The data of a call are distinct from those of every other.
Data(t, from, n) == [k \in 1 .. n |-> 100 * call[t].version + from + k - 1]

Fill(t) ==
    /\ At(t, {"page"}, "fill")
    /\ cmd_data' = [addr |-> Top(t).addr, bytes |-> Data(t, Top(t).from, Chunk(Top(t)))]
    /\ Goto(t, "command")
    /\ UNCHANGED <<chip, lock_, answer, got, ghost, port>>

\* sfud_sfdp_get_suitable_eraser, or the flash's erase granularity.
EraseSize(f) ==
    IF SfdpAvailable /\ f.addr % Erasers[1] = 0
    THEN LET fit == {i \in DOMAIN Erasers : f.size >= Erasers[i] /\ f.addr % Erasers[i] = 0}
         IN  Erasers[IF fit = {} THEN 1 ELSE CHOOSE i \in fit : \A j \in fit : j <= i]
    ELSE Erasers[1]

Reaction(t) ==
    LET f == Top(t)
    IN  CASE f.fn = "page"      -> ProgramPage(cmd_data.addr, cmd_data.bytes)
          [] f.fn = "aai"       -> ProgramWord(f.from < 2, f.addr, Data(t, f.from, 2))
          [] f.fn = "erase"     -> EraseBlock(f.addr, EraseSize(f))
          [] f.fn = "chipErase" -> EraseBlock(0, ChipSize)

Advance(f, n) == [f EXCEPT !.addr = @ + n, !.from = @ + n, !.size = (@ - n + SizeMod) % SizeMod]

\* How many bytes the cycle that just ended has taken care of.
Done(f) == CASE f.fn = "page" -> Chunk(f)
             [] f.fn = "aai" -> 2
             [] f.fn = "erase" -> ToNext(f.addr, EraseSize(f))
             [] f.fn = "chipErase" -> f.size

AfterCycle(f) ==
    LET g == Advance(f, Min({f.size, Done(f)}))
    IN  CASE f.fn = "read" -> [f EXCEPT !.at = "data"]
          [] f.fn = "aai"  -> [g EXCEPT !.at = IF g.size >= 2 THEN "command" ELSE "wrdi"]
          [] OTHER         -> [g EXCEPT !.at = IF g.size = 0 THEN "wrdi" ELSE "wren"]

\* Mutant of Command: the cycle is not waited for.
CommandNoWait(t) ==
    /\ At(t, Writers, "command")
    /\ Reaction(t)
    /\ SetTop(t, AfterCycle(Top(t)))
    /\ UNCHANGED <<cmd_data, lock_, answer, got, ghost, port>>

\* The erase or program command itself.
Command(t) ==
    /\ At(t, Writers, "command")
    /\ \E x \in Transfers :
         /\ Spend(x)
         /\ IF x.lost THEN Ignored ELSE Reaction(t)
         /\ IF x.ok THEN SetTop(t, [Top(t) EXCEPT !.at = "busy", !.retry = RetryTimes])
                    ELSE Fail(t, Exit(t), "ERR_WRITE")
    /\ UNCHANGED <<cmd_data, lock_, answer, got, ghost>>

\* Mutant of WaitBusy: the retries are not counted.
WaitBusyPatient(t) ==
    /\ At(t, Writers \cup {"read"}, "busy")
    /\ \E x \in Transfers :
         /\ Spend(x)
         /\ SetTop(t, IF x.ok /\ ~x.busy THEN AfterCycle(Top(t)) ELSE Top(t))
    /\ UNCHANGED <<chip, cmd_data, lock_, answer, got, ghost>>

\* Mutant of WaitBusy: the retries are counted below zero.
WaitBusyUnbounded(t) ==
    /\ At(t, Writers \cup {"read"}, "busy")
    /\ \E x \in Transfers :
         /\ Spend(x)
         /\ SetTop(t, IF x.ok /\ ~x.busy THEN AfterCycle(Top(t))
                                         ELSE [Top(t) EXCEPT !.retry = @ - 1])
    /\ UNCHANGED <<chip, cmd_data, lock_, answer, got, ghost>>

\* One turn of wait_busy.  A chip that is not Slow is ready by the last poll.
WaitBusy(t) ==
    /\ At(t, Writers \cup {"read"}, "busy")
    /\ \E x \in Transfers :
         /\ Spend(x)
         /\ CASE x.ok /\ ~x.busy -> SetTop(t, AfterCycle(Top(t)))
              [] (~x.ok \/ x.busy) /\ Top(t).retry > 0 ->
                   SetTop(t, [Top(t) EXCEPT !.retry = @ - 1])
              [] OTHER -> (x.busy => Slow) /\ Fail(t, Exit(t), "ERR_TIMEOUT")
    /\ UNCHANGED <<chip, cmd_data, lock_, answer, got, ghost>>

\* sfud_read's data phase; a chip in a cycle or in AAI mode does not answer.
ReadData(t) ==
    /\ At(t, {"read"}, "data")
    /\ \E x \in Transfers :
         /\ Spend(x)
         /\ got' = [got EXCEPT ![t] =
                       [k \in 1 .. call[t].size |->
                          CASE x.lost -> 0
                            [] ~x.lost /\ (~Ready \/ aai # NotAai) -> NoAnswer
                            [] OTHER -> mem[call[t].addr + k - 1]]]
         /\ IF x.ok THEN Goto(t, "unlock") ELSE Fail(t, "unlock", "ERR_READ")
    /\ UNCHANGED <<chip, cmd_data, lock_, answer, ghost>>

-----------------------------------------------------------------------------

\* set_write_enabled(flash, false) on the way out.  The result counts in
\* aai_write, where it ends the AAI mode, and is dropped elsewhere.
WriteDisable(t) ==
    /\ At(t, Writers, "wrdi")
    /\ \E x \in Transfers :
         /\ Spend(x)
         /\ IF x.lost THEN Ignored ELSE WRDI
         /\ CASE x.ok -> Goto(t, "wrdiStatus")
              [] ~x.ok /\ Top(t).fn = "aai" -> Fail(t, "abort", "ERR_WRITE")
              [] OTHER -> Goto(t, "unlock")
    /\ UNCHANGED <<cmd_data, lock_, answer, got, ghost>>

\* Mutant of WriteDisableStatus: the last odd byte is forgotten.
WriteDisableStatusNoTail(t) ==
    /\ At(t, Writers, "wrdiStatus")
    /\ Goto(t, "unlock")
    /\ UNCHANGED <<chip, cmd_data, lock_, answer, got, ghost, port>>

\* The status that set_write_enabled(flash, false) reads.
WriteDisableStatus(t) ==
    /\ At(t, Writers, "wrdiStatus")
    /\ \E x \in Transfers :
         /\ Spend(x)
         /\ CASE Top(t).fn # "aai" -> Goto(t, "unlock")
              [] Top(t).fn = "aai" /\ ~x.ok -> Fail(t, "abort", "ERR_READ")
              [] Top(t).fn = "aai" /\ x.ok /\ x.wel -> Fail(t, "abort", "ERR_WRITE")
              [] OTHER -> Goto(t, IF Top(t).size = 1 THEN "tail" ELSE "unlock")
    /\ UNCHANGED <<chip, cmd_data, lock_, answer, got, ghost>>

\* aai_write writes the byte before an even address, and the one left at the
\* end, with page256_or_1_byte_write, which takes the lock once more.
OddByte(t) ==
    /\ \/ /\ At(t, {"aai"}, "head") /\ Push(t, Frame("page", "enter", Top(t).addr, 1, Top(t).from, 1), "headDone")
       \/ /\ At(t, {"aai"}, "tail") /\ Push(t, Frame("page", "enter", Top(t).addr, 1, Top(t).from, 1), "tailDone")
    /\ UNCHANGED <<chip, cmd_data, lock_, answer, got, ghost, port>>

\* Mutant of OddByteDone: the size is not reduced.
OddByteDoneKeepsSize(t) ==
    /\ \/ /\ At(t, {"aai"}, "headDone")
          /\ SetTop(t, [Advance(Top(t), 1) EXCEPT !.at = "wren", !.size = Top(t).size])
       \/ At(t, {"aai"}, "tailDone") /\ Goto(t, "unlock")
    /\ UNCHANGED <<chip, cmd_data, lock_, answer, got, ghost, port>>

OddByteDone(t) ==
    /\ \/ /\ At(t, {"aai"}, "headDone") /\ Top(t).result = "SUCCESS"
          /\ SetTop(t, [Advance(Top(t), 1) EXCEPT !.at = "wren"])
       \/ /\ At(t, {"aai"}, "tailDone") /\ Top(t).result = "SUCCESS"
          /\ Goto(t, "unlock")
       \/ /\ At(t, {"aai"}, "headDone") \/ At(t, {"aai"}, "tailDone")
          /\ Top(t).result # "SUCCESS"
          /\ Goto(t, "abort")
    /\ UNCHANGED <<chip, cmd_data, lock_, answer, got, ghost, port>>

\* aai_write's second set_write_enabled(flash, false), after an error: the
\* command, then the status, whatever either says.
Abort(t) ==
    /\ At(t, {"aai"}, "abort") \/ At(t, {"aai"}, "abortStatus")
    /\ \E x \in Transfers :
         /\ Spend(x)
         /\ IF x.lost \/ Top(t).at = "abortStatus" THEN Ignored ELSE WRDI
         /\ Goto(t, IF x.ok /\ Top(t).at = "abort" THEN "abortStatus" ELSE "unlock")
    /\ UNCHANGED <<cmd_data, lock_, answer, got, ghost>>

Driver(t) == \/ sfud_write(t) \/ sfud_erase_write(t) \/ Enter(t) \/ Lock(t) \/ Unlock(t)
             \/ WriteEnable(t) \/ WriteEnableStatus(t) \/ Fill(t) \/ Command(t)
             \/ WaitBusy(t) \/ ReadData(t) \/ WriteDisable(t) \/ WriteDisableStatus(t)
             \/ OddByte(t) \/ OddByteDone(t) \/ Abort(t)

CycleEnds == Finish /\ UNCHANGED <<stack, cmd_data, lock_, answer, got, ghost, port>>

Rest == /\ calls = MaxCalls
        /\ \A t \in Threads : stack[t] = <<>>
        /\ UNCHANGED vars

Next == CycleEnds \/ Rest \/ \E t \in Threads : Call(t) \/ Driver(t)

Spec == Init /\ [][Next]_vars

\* The threads run.  The cycles of a Slow chip need not end.
FairSpec == Spec /\ WF_vars(~Slow /\ CycleEnds) /\ \A t \in Threads : WF_vars(Driver(t))

-----------------------------------------------------------------------------
Results == {"SUCCESS", "ERR_WRITE", "ERR_READ", "ERR_TIMEOUT", "ERR_ADDR_OUT_OF_BOUND"}

\* The type invariant.
TypeOK == /\ \A a \in Cells : mem[a] \in Int
          /\ {wel, Ready} \subseteq BOOLEAN /\ aai \in {NotAai} \cup Nat
          /\ \A t \in Threads :
               /\ Len(stack[t]) <= 2
               /\ \A i \in DOMAIN stack[t] :
                    /\ stack[t][i].size \in 0 .. SizeMod - 1
                    /\ stack[t][i].retry \in 0 .. RetryTimes
                    /\ stack[t][i].result \in Results
               /\ answer[t] \in Results \cup {"none"}
          /\ lock_ \in Threads \cup {Free}
          /\ faults \in 0 .. MaxFaults /\ calls \in 0 .. MaxCalls /\ deceived \in BOOLEAN

\* sfud_erase_write has erased and is on its way to write.
HalfDone(t) == /\ call[t].fn = "eraseWrite"
               /\ \/ OddBytePage(t)
                  \/ /\ Len(stack[t]) = 1 /\ Top(t).result = "SUCCESS"
                     /\ ~(Top(t).fn = "eraseWrite" /\ Top(t).at = "enter")

\* Between its calls of lock and unlock a thread has the memory to itself, and
\* what it does there counts when it unlocks.
HasBus(t) == /\ stack[t] # <<>>
             /\ Top(t).at \notin {"enter", "erased", "lock"} \/ OddBytePage(t)
Settled == LET holders == {t \in Threads : HasBus(t)}
           IN  IF holders = {} THEN mem ELSE before[CHOOSE t \in holders : TRUE]
Phase == [t \in Threads |-> CASE stack[t] = <<>> -> "idle"
                              [] stack[t] # <<>> /\ HalfDone(t) -> "erased"
                              [] OTHER -> "called"]
Delivered == [t \in Threads |->
                 IF stack[t] = <<>> /\ answer[t] = "SUCCESS" /\ call[t].fn = "read"
                 THEN got[t] ELSE <<>>]
Calls == {[fn |-> r[1], addr |-> r[2], size |-> r[3], version |-> v] :
             r \in UNION {Requests[t] : t \in Threads}, v \in 1 .. MaxCalls}

Flash == INSTANCE FlashMemory
    WITH EraseGran <- Erasers[1], Commands <- Calls, memory <- Settled, phase <- Phase,
         request <- call, data <- Delivered

\* Every call takes effect at one instant, on the whole of its range, and
\* sfud_erase_write at two: threads that share a lock and whose calls overlap,
\* or one thread without a lock, see the memory that FlashMemory promises.
Atomic == Flash!Spec

\* What call c may change in the memory.
Footprint(c) == CASE c.fn = "chipErase" -> Cells
                  [] c.fn = "read" \/ ~Flash!InBound(c) -> {}
                  [] c.fn = "write" -> Flash!Target(c)
                  [] OTHER -> Flash!Blocks(c)

Returned(t) == stack[t] = <<>> /\ answer[t] # "none"

\* A call that answers success has done what its name says: erased the blocks,
\* programmed every byte at its address, or both, or read what is there, as
\* long as every transfer that was lost has been reported.
SuccessMeansDone ==
    \A t \in Threads : Returned(t) /\ answer[t] = "SUCCESS" /\ ~deceived =>
       /\ Flash!InBound(call[t])
       /\ mem = Flash!After(call[t], before[t])
       /\ call[t].fn = "read" => got[t] = Flash!Contents(call[t], before[t])

\* A byte changes only inside the footprint of some thread's last call, whether
\* that call succeeds, fails half-way or gives up waiting, and whatever the port
\* says of the transfers that were lost; a refused call changes none.
OutsideUntouched ==
    [][\A a \in Cells : mem'[a] # mem[a] =>
          \E t \in Threads : a \in Footprint(call[t])]_vars

\* After a success nothing is left half-done in the chip: no cycle is under
\* way, and neither the write-enable latch nor the AAI mode is left set, as
\* long as no transfer went wrong.
ChipLeftIdle ==
    faults = MaxFaults /\ (\A t \in Threads : stack[t] = <<>>) /\ (\E t \in Threads : answer[t] = "SUCCESS")
        => Ready /\ ~wel /\ aai = NotAai

\* Every call returns, however slow the chip is and whatever is lost.
CallReturns == \A t \in Threads : stack[t] # <<>> ~> stack[t] = <<>>
=============================================================================
