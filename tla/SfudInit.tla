------------------------------ MODULE SfudInit ------------------------------
(***************************************************************************)
(* How the serial flash driver finds and prepares its chip: sfud_init,     *)
(* sfud_device_init, hardware_init, reset, sfud_write_status and           *)
(* set_4_byte_address_mode of sfud.c, with the reading of the chip's own   *)
(* parameter tables in sfud_sfdp.c.  One step per SPI transfer.  A call    *)
(* may follow a crash of the program that left the chip at work, or an     *)
(* earlier call.  SFUD_FLASH_DEVICE_TABLE (sfud_cfg.h) has one device.     *)
(***************************************************************************)
EXTENDS Integers, Sequences

CONSTANTS Devices,      \* the chips that may be soldered in
          ChipTable,    \* SFUD_FLASH_CHIP_TABLE: id :> what it says of the chip
          FourByteLimit,\* 1L << 24, scaled down: above it addresses take 4 bytes
          Width,        \* bits of sfdp->capacity: 32, scaled down
          RetryTimes,   \* flash->retry.times: 10000, scaled down
          MaxFaults,    \* bound: failed transfers
          MaxInits,     \* bound: calls of sfud_init
          MaxCrashes    \* bound: crashes of the program

ASSUME InitAssumption ==
    {FourByteLimit, Width, RetryTimes, MaxFaults, MaxInits, MaxCrashes} \subseteq Nat

VARIABLES device,   \* the chip on the board
          chip,     \* its state
          flash,    \* the driver's sfud_flash
          pc,       \* what the call under way does next; "idle" outside calls
          retry,    \* retries left in wait_busy
          result,   \* the last call's result, or "none"
          inits, crashes,
          faults,   \* transfers that may still fail
          deceived  \* history: a transfer was reported as done and was not

vars == <<device, chip, flash, pc, retry, result, inits, crashes, faults, deceived>>
port == <<faults, deceived>>

-----------------------------------------------------------------------------
\* The chip, which stays ready for RESET over a status read if it keepsArmed.
\* cycle is what it is busy with; armed: the next command may be
\* RESET; ewsr: the next WRSR is volatile; idle: it was not busy when the call
\* began; reset: it has obeyed RESET since.
PowerOn(d) == [cycle |-> "none", wel |-> FALSE, ewsr |-> FALSE, armed |-> FALSE,
               four |-> FALSE, protected |-> d.protected, idle |-> TRUE, reset |-> FALSE]

Obey(c, cmd) ==
    LET d == [c EXCEPT !.armed = FALSE]
    IN  CASE cmd = "RDSR" -> IF device.keepsArmed THEN c ELSE d
          [] cmd # "RDSR" /\ c.cycle # "none" -> c
          [] OTHER ->
             CASE cmd = "WREN" -> [d EXCEPT !.wel = TRUE]
               [] cmd = "EWSR" -> [d EXCEPT !.ewsr = TRUE]
               [] cmd = "WRSR" /\ c.ewsr -> [d EXCEPT !.ewsr = FALSE, !.protected = FALSE]
               [] cmd = "WRSR" /\ ~c.ewsr /\ c.wel -> [d EXCEPT !.cycle = "status"]
               [] cmd = "EN4B" -> [d EXCEPT !.four = TRUE]
               [] cmd = "RSTEN" -> [d EXCEPT !.armed = TRUE]
               [] cmd = "RST" /\ c.armed -> [d EXCEPT !.wel = FALSE, !.ewsr = FALSE,
                                                     !.four = FALSE, !.reset = TRUE]
               [] OTHER -> d

\* The outcomes of one spi->wr call.  One that fails may be lost on its way to
\* the chip, and it may be reported or, as in the port of the repository, not.
Transfers == {x \in [ok : BOOLEAN, lost : BOOLEAN, busy : BOOLEAN, wel : BOOLEAN] :
                 /\ faults = 0 => x.ok /\ ~x.lost
                 /\ x.busy = (~x.lost /\ chip.cycle # "none")
                 /\ x.wel = (~x.lost /\ chip.wel)}

Wire(cmd, x) == /\ chip' = IF x.lost THEN chip ELSE Obey(chip, cmd)
                /\ faults' = IF x.ok /\ ~x.lost THEN faults ELSE faults - 1
                /\ deceived' = (deceived \/ (x.ok /\ x.lost))

\* The cycle ends; a status cycle has cleared the block protection.
CycleEnds == /\ chip.cycle # "none"
             /\ chip' = [chip EXCEPT !.cycle = "none", !.wel = FALSE,
                                     !.protected = @ /\ chip.cycle # "status"]
             /\ UNCHANGED <<device, flash, pc, retry, result, inits, crashes, port>>

-----------------------------------------------------------------------------
\* A sfud_flash with nothing configured.
NoId == <<0, 0, 0>>
NoFlash == [id |-> NoId, capacity |-> 0, write_mode |-> {}, erase_gran |-> 0,
            erase_gran_cmd |-> 0, available |-> FALSE, eraser |-> <<>>,
            addr_in_4_byte |-> FALSE, init_ok |-> FALSE]

Init == /\ device \in Devices
        /\ chip = PowerOn(device)
        /\ flash = NoFlash
        /\ pc = "idle" /\ retry = 0 /\ result = "none"
        /\ inits = 0 /\ crashes = 0
        /\ faults = MaxFaults /\ deceived = FALSE

Configured(f) == /\ f.capacity # 0 /\ f.write_mode # {}
                 /\ f.erase_gran # 0 /\ f.erase_gran_cmd # 0

ghost == <<device, inits, crashes>>

\* sfud_init: its loop has one device to initialise.  A flash configured by
\* an earlier call is not looked up again.
sfud_init ==
    /\ pc = "idle" /\ inits < MaxInits
    /\ inits' = inits + 1
    /\ chip' = [chip EXCEPT !.reset = FALSE, !.idle = (chip.cycle = "none")]
    /\ pc' = IF Configured(flash) THEN "check" ELSE "jedec"
    /\ result' = "none"
    /\ UNCHANGED <<device, flash, retry, crashes, port>>

\* The end of sfud_device_init.
Return(r) == /\ pc' = "idle" /\ result' = r
             /\ flash' = [flash EXCEPT !.init_ok = (r = "SUCCESS")]

Step(next) == pc' = next /\ UNCHANGED <<flash, result>>

\* A chip at work answers nothing but RDSR.
Answers(x) == ~x.lost /\ ~x.busy

read_jedec_id ==
    /\ pc = "jedec"
    /\ \E x \in Transfers :
         /\ Wire("RDID", x)
         /\ IF x.ok
            THEN /\ flash' = [flash EXCEPT !.id = IF Answers(x) THEN device.id ELSE NoId]
                 /\ pc' = "header" /\ UNCHANGED result
            ELSE Return("ERR_READ")
    /\ UNCHANGED <<retry, ghost>>

\* Whether the chip answers with tables, and the checks of each header.
HasTables(x) == x.ok /\ Answers(x) /\ device.sfdp # <<>>
Sfdp == device.sfdp[1]

\* Mutant of BasicOk: it refuses what is still supported.
BasicOkStrict(t) == t.basicMajor <= 1 /\ t.len > 9

HeaderOk(t) == t.major <= 1
BasicOk(t) == t.basicMajor <= 1 /\ t.len >= 9

read_sfdp_header ==
    /\ pc = "header"
    /\ \E x \in Transfers :
         /\ Wire("SFDP", x)
         /\ pc' = IF HasTables(x) /\ HeaderOk(Sfdp) THEN "basic" ELSE "lookup"
    /\ flash' = [flash EXCEPT !.available = FALSE]
    /\ UNCHANGED <<retry, result, ghost>>

read_basic_header ==
    /\ pc = "basic"
    /\ \E x \in Transfers :
         /\ Wire("SFDP", x)
         /\ Step(IF HasTables(x) /\ BasicOk(Sfdp) THEN "table" ELSE "lookup")
    /\ UNCHANGED <<retry, ghost>>

Capacity(den) == IF den.large THEN (2 ^ (den.value - 3)) % 2 ^ Width ELSE 1 + den.value \div 8

TableOk(t) == /\ t.erase4k \in {1, 3}
              /\ t.addressing # 3
              /\ t.density.large => t.density.value <= Width + 3

WriteMode(t) == IF t.gran = 0 THEN {"byte"} ELSE {"page"}

\* A slot of the table: an erase type in use is kept as <<size, command>>.
Eraser(e) == <<(2 ^ e[1]) % 2 ^ Width, e[2]>>
Keep(s, e) == IF e[1] = 0 THEN s ELSE Append(s, Eraser(e))

\* One step of the exchange sort.
Exchange(s, i, j) == IF j <= Len(s) /\ s[i][1] > s[j][1]
                     THEN [s EXCEPT ![i] = s[j], ![j] = s[i]]
                     ELSE s

Ascending(s) == LET first == Exchange(Exchange(Exchange(s, 1, 2), 1, 3), 1, 4)
                    second == Exchange(Exchange(first, 2, 3), 2, 4)
                IN  Exchange(second, 3, 4)

\* The erase types in use of the SFUD_SFDP_ERASE_TYPE_MAX_NUM slots, sorted.
Erasers(types) ==
    Ascending(Keep(Keep(Keep(Keep(<<>>, types[1]), types[2]), types[3]), types[4]))

\* Which of the erasers hardware_init takes for the granularity, if any.
Smallest(e) == CHOOSE i \in 0 .. Len(e) :
                  IF e = <<>> THEN i = 0
                  ELSE i > 0 /\ \A j \in DOMAIN e : e[i][1] <= e[j][1]

\* read_basic_table, and what hardware_init takes from it.  A table of zeros
\* fails the erase4k check, like a table that was not read.
read_basic_table ==
    /\ pc = "table"
    /\ \E x \in Transfers :
         /\ Wire("SFDP", x)
         /\ IF HasTables(x) /\ TableOk(Sfdp)
            THEN LET e == Erasers(Sfdp.types)
                     small == Smallest(e)
                 IN  /\ flash' = [flash EXCEPT
                           !.available = TRUE, !.eraser = e,
                           !.capacity = Capacity(Sfdp.density),
                           !.write_mode = WriteMode(Sfdp),
                           !.erase_gran = IF small = 0 THEN 0 ELSE e[small][1],
                           !.erase_gran_cmd = IF small = 0 THEN 0 ELSE e[small][2]]
                     /\ pc' = "check"
            ELSE pc' = "lookup" /\ UNCHANGED flash
    /\ UNCHANGED <<retry, result, ghost>>

\* Without SFDP the static table of chips may know this one.
LookUp ==
    /\ pc = "lookup"
    /\ flash' = IF flash.id \in DOMAIN ChipTable
                THEN LET c == ChipTable[flash.id]
                     IN  [flash EXCEPT !.capacity = c.capacity, !.write_mode = c.write_mode,
                                       !.erase_gran = c.erase_gran,
                                       !.erase_gran_cmd = c.erase_gran_cmd]
                ELSE flash
    /\ pc' = "check"
    /\ UNCHANGED <<chip, retry, result, port, ghost>>

Check ==
    /\ pc = "check"
    /\ IF Configured(flash) THEN Step("rsten") ELSE Return("ERR_NOT_FOUND")
    /\ UNCHANGED <<chip, retry, port, ghost>>

-----------------------------------------------------------------------------
\* Which way the block protection is lifted, if at all.
MX25L3206E == <<194, 32, 22>>
Unprotect == CASE "aai" \in flash.write_mode -> "ewsr"
               [] "aai" \notin flash.write_mode /\ flash.id = MX25L3206E -> "wren"
               [] OTHER -> "addressing"

\* Mutant of WaitBusy: the retries are counted below zero.
WaitBusyUnbounded(at, next) ==
    /\ pc = at
    /\ \E x \in Transfers :
         /\ Wire("RDSR", x)
         /\ IF x.ok /\ ~x.busy THEN Step(next) /\ UNCHANGED retry
                              ELSE retry' = retry - 1 /\ UNCHANGED <<flash, pc, result>>
    /\ UNCHANGED ghost

\* wait_busy, on the way to next.
WaitBusy(at, next) ==
    /\ pc = at
    /\ \E x \in Transfers :
         /\ Wire("RDSR", x)
         /\ CASE x.ok /\ ~x.busy -> Step(next) /\ UNCHANGED retry
              [] (~x.ok \/ x.busy) /\ retry > 0 ->
                   retry' = retry - 1 /\ UNCHANGED <<flash, pc, result>>
              [] OTHER -> Return("ERR_TIMEOUT") /\ UNCHANGED retry
    /\ UNCHANGED ghost

\* One command sent on the way to next.
Send(at, cmd, next) ==
    /\ pc = at
    /\ \E x \in Transfers :
         /\ Wire(cmd, x)
         /\ IF x.ok THEN Step(next) ELSE Return("ERR_WRITE")
    /\ UNCHANGED ghost

\* Mutant of reset: its retries never run out.
resetPatient == \/ Send("rsten", "RSTEN", "rstenWait") /\ retry' = RetryTimes
                \/ Send("rst", "RST", "rstWait") /\ retry' = RetryTimes
                \/ /\ pc \in {"rstenWait", "rstWait"} /\ chip.cycle = "none"
                   /\ Step(IF pc = "rstWait" THEN Unprotect ELSE "rst")
                   /\ UNCHANGED <<chip, retry, port, ghost>>

reset == \/ Send("rsten", "RSTEN", "rstenWait") /\ retry' = RetryTimes
         \/ WaitBusy("rstenWait", "rst")
         \/ Send("rst", "RST", "rstWait") /\ retry' = RetryTimes
         \/ WaitBusy("rstWait", Unprotect)

\* The status that set_write_enabled(flash, true) reads.
WriteEnabled(at, next) ==
    /\ pc = at
    /\ \E x \in Transfers :
         /\ Wire("RDSR", x)
         /\ CASE ~x.ok -> Return("ERR_READ")
              [] x.ok /\ ~x.wel -> Return("ERR_WRITE")
              [] OTHER -> Step(next)
    /\ UNCHANGED <<retry, ghost>>

\* Mutant of sfud_write_status: the status is not written.
sfud_write_statusSkipped ==
    /\ pc \in {"ewsr", "wren"} /\ Step("addressing")
    /\ UNCHANGED <<chip, retry, port, ghost>>

\* sfud_write_status(flash, is_volatile, 0x00).
sfud_write_status ==
    \/ Send("ewsr", "EWSR", "wrsr") /\ UNCHANGED retry
    \/ Send("wren", "WREN", "wrenStatus") /\ UNCHANGED retry
    \/ WriteEnabled("wrenStatus", "wrsr")
    \/ Send("wrsr", "WRSR", "addressing") /\ UNCHANGED retry

\* The choice of the addressing, at the end of hardware_init.
Addressing ==
    /\ pc = "addressing"
    /\ IF flash.capacity > FourByteLimit
       THEN Step("fourWren")
       ELSE /\ pc' = "idle" /\ result' = "SUCCESS"
            /\ flash' = [flash EXCEPT !.addr_in_4_byte = FALSE, !.init_ok = TRUE]
    /\ UNCHANGED <<chip, retry, port, ghost>>

\* Mutant of FourByteAddresses: noted before it is known to be so.
FourByteUnchecked ==
    /\ pc = "four"
    /\ \E x \in Transfers : Wire("EN4B", x)
    /\ pc' = "idle" /\ result' = "SUCCESS"
    /\ flash' = [flash EXCEPT !.addr_in_4_byte = TRUE, !.init_ok = TRUE]
    /\ UNCHANGED <<retry, ghost>>

\* The command that set_4_byte_address_mode(flash, true) ends with.
FourByteAddresses ==
    /\ pc = "four"
    /\ \E x \in Transfers :
         /\ Wire("EN4B", x)
         /\ IF x.ok
            THEN /\ pc' = "idle" /\ result' = "SUCCESS"
                 /\ flash' = [flash EXCEPT !.addr_in_4_byte = TRUE, !.init_ok = TRUE]
            ELSE Return("ERR_WRITE")
    /\ UNCHANGED <<retry, ghost>>

set_4_byte_address_mode == \/ Send("fourWren", "WREN", "fourStatus") /\ UNCHANGED retry
                           \/ WriteEnabled("fourStatus", "four")
                           \/ FourByteAddresses

\* The program puts the chip to work, as the operations of Sfud do.
Use == /\ pc = "idle" /\ flash.init_ok /\ chip.cycle = "none" /\ crashes < MaxCrashes
       /\ chip' = [chip EXCEPT !.cycle = "erase", !.wel = TRUE]
       /\ UNCHANGED <<device, flash, pc, retry, result, inits, crashes, port>>

\* The program dies at any moment and is started again; the chip keeps its
\* power.
Crash == /\ crashes < MaxCrashes /\ inits > 0
         /\ crashes' = crashes + 1
         /\ flash' = NoFlash /\ pc' = "idle" /\ retry' = 0 /\ result' = "none"
         /\ UNCHANGED <<device, chip, inits, port>>

Driver == \/ read_jedec_id \/ read_sfdp_header \/ read_basic_header \/ read_basic_table
          \/ LookUp \/ Check \/ reset \/ sfud_write_status \/ Addressing
          \/ set_4_byte_address_mode

Rest == pc = "idle" /\ inits = MaxInits /\ UNCHANGED vars

Next == sfud_init \/ Driver \/ CycleEnds \/ Use \/ Crash \/ Rest

Spec == Init /\ [][Next]_vars

\* The call is executed; nothing is asked of the chip.
FairSpec == Spec /\ WF_vars(Driver)

-----------------------------------------------------------------------------
\* The driver has nothing but the chip's own tables, the static table and the
\* chip's habits to go by.  What must be true of them:
Takes(t) == HeaderOk(t) /\ BasicOk(t) /\ TableOk(t)
InUse(t) == {i \in 1 .. 4 : t.types[i][1] # 0}

\* What JESD216, up to 1.x, says of a table, for a chip of up to 4 GB.
Standard(t) == /\ t.major <= 1 /\ t.basicMajor <= 1 /\ t.len >= 9
               /\ t.erase4k \in {1, 3} /\ t.addressing \in {0, 1, 2}
               /\ t.density.large => t.density.value <= Width + 3

\* Chips are not larger than their size can be told and erase in blocks of
\* different sizes.  None is larger than FourByteLimit that is unprotected by a
\* cycle nobody waits for.
ASSUME ChipsAssumption ==
    \A d \in Devices :
       /\ d.capacity \in 1 .. 2 ^ Width - 1
       /\ d.write_mode \subseteq {"byte", "page", "aai", "dual"}
       /\ d.erasers \subseteq (Nat \ {0}) \X (Nat \ {0})
       /\ \A a, b \in d.erasers : a[1] = b[1] => a = b
       /\ {d.protected, d.valid, d.keepsArmed} \subseteq BOOLEAN
       /\ d.id = MX25L3206E => d.capacity <= FourByteLimit

\* A density given as a power of two is one of a byte at least (the driver would
\* shift by a negative number).  A table that the driver takes is true, and lists
\* each eraser once or none at all; of the chips with one, MX25L3206E alone is
\* protected at first.
ASSUME TablesAssumption ==
    \A d \in Devices : d.sfdp # <<>> =>
       LET t == d.sfdp[1]
       IN  /\ t.density.large => t.density.value >= 3
           /\ Takes(t) =>
                /\ Capacity(t.density) = d.capacity
                /\ WriteMode(t) \subseteq d.write_mode
                /\ InUse(t) # {} => d.erasers = {Eraser(t.types[i]) : i \in InUse(t)}
                /\ \A i, j \in InUse(t) : i # j => Eraser(t.types[i]) # Eraser(t.types[j])
                /\ d.protected => d.id = MX25L3206E
           /\ d.valid => Standard(t) /\ InUse(t) # {}

\* The static table is complete and true, and no chip has the id that is read
\* when none answers.  A chip protected at first is one for AAI, or MX25L3206E.
\* A chip whose own table is taken but lists no eraser is not in the static one:
\* the driver would not look there.
ASSUME ChipTableAssumption ==
    /\ NoId \notin DOMAIN ChipTable
    /\ \A d \in Devices : d.id \in DOMAIN ChipTable =>
          LET c == ChipTable[d.id]
          IN  /\ c.capacity = d.capacity
              /\ c.write_mode # {} /\ c.write_mode \subseteq d.write_mode
              /\ <<c.erase_gran, c.erase_gran_cmd>> \in d.erasers
              /\ d.protected => "aai" \in c.write_mode \/ d.id = MX25L3206E
              /\ d.sfdp # <<>> => (Takes(d.sfdp[1]) => InUse(d.sfdp[1]) # {})

-----------------------------------------------------------------------------
\* The type invariant.
InitTypeOK ==
    /\ device \in Devices
    /\ chip.cycle \in {"none", "erase", "status"}
    /\ {chip.wel, chip.ewsr, chip.armed, chip.four, chip.protected} \subseteq BOOLEAN
    /\ flash.capacity \in 0 .. 2 ^ Width - 1
    /\ flash.write_mode \subseteq {"byte", "page", "aai", "dual"}
    /\ pc \in {"idle", "jedec", "header", "basic", "table", "lookup", "check", "rsten",
               "rstenWait", "rst", "rstWait", "ewsr", "wren", "wrenStatus", "wrsr",
               "addressing", "fourWren", "fourStatus", "four"}
    /\ retry \in 0 .. RetryTimes
    /\ deceived \in BOOLEAN
    /\ result \in {"none", "SUCCESS", "ERR_NOT_FOUND", "ERR_READ", "ERR_WRITE", "ERR_TIMEOUT"}

Succeeded == pc = "idle" /\ result = "SUCCESS"

\* After a success the driver knows the chip it has: its size, a way of
\* writing it takes and its erasers, from the smallest up as
\* sfud_sfdp_get_suitable_eraser needs them, whatever failed or died on the way
\* there; and the width of its addresses, unless a transfer that was reported as
\* done, like any the port of the repository loses, was not.
KnowsTheChip ==
    Succeeded => /\ flash.init_ok
                 /\ flash.capacity = device.capacity
                 /\ flash.write_mode \subseteq device.write_mode
                 /\ <<flash.erase_gran, flash.erase_gran_cmd>> \in device.erasers
                 /\ \A e \in device.erasers : flash.available => flash.erase_gran <= e[1]
                 /\ flash.available =>
                      /\ flash.eraser[1][1] = flash.erase_gran
                      /\ \A i, j \in DOMAIN flash.eraser :
                            i < j => flash.eraser[i][1] < flash.eraser[j][1]
                 /\ ~deceived => flash.addr_in_4_byte = chip.four

\* The chips the driver claims to know: by a readable table of their own or
\* by the static one.
Supported == \/ device.id \in DOMAIN ChipTable
             \/ device.sfdp # <<>> /\ device.valid

\* "Not found or not supported" is answered for no other chip, when the
\* chip was idle as the call began and no transfer has failed.
NotFoundIsTrue == pc = "idle" /\ result = "ERR_NOT_FOUND" /\ faults = MaxFaults /\ chip.idle
                     => ~Supported

\* After a success the chip takes writes, whatever failure was reported and
\* whatever died on the way there: no block is protected, or the cycle that WRSR
\* started, which nobody waits for, is still to lift the protection.  A chip that
\* was idle as the call began (ENABLE_RESET is sent without a wait for that) and
\* stays ready for RESET over the status read in between has gone through one.
ReadyForWrites ==
    Succeeded /\ ~deceived => /\ chip.protected => chip.cycle = "status"
                              /\ chip.idle /\ device.keepsArmed => chip.reset

\* Every call of sfud_init returns, whatever is lost and however long the
\* chip stays busy.
InitReturns == pc # "idle" ~> pc = "idle"
=============================================================================
