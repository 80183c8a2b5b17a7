------------------------------ MODULE SpiDevice ------------------------------
(***************************************************************************)
(* spi.c: handles on a spidev file, one step per system call, and the SFUD *)
(* port (sfud_port.c), which uses one.  Mode, speed and word width belong  *)
(* to the device, not to the handle: two handles share them.  What a call  *)
(* returns shows in goal: Unknown after a failure.                         *)
(*                                                                         *)
(* pc: "open", "rdMode", "wrMode", "wrOrder", "wrSpeed", "wrBits", "query" *)
(* and "message" stand before system calls.                                *)
(***************************************************************************)
EXTENDS Process

CONSTANTS SpiCalls,   \* the calls: [op, bits, rate]
          MaxCalls,   \* bound: calls of spi.c by the program
          ModeBits, OrderBits, LowBits, HighBits \* SPI_CPHA and SPI_CPOL, SPI_LSB_FIRST,
                      \* the other flags in and above the low byte of the mode word

Flags == ModeBits \cup OrderBits \cup LowBits \cup HighBits
Ops   == {"open", "setMode", "setOrder", "setFlags", "setFlags32", "setSpeed", "setBits", "get",
          "transfer"}

ASSUME SpiAssumption == /\ \A c \in SpiCalls : c.op \in Ops /\ c.bits \subseteq Flags
                        /\ ModeBits \cap (OrderBits \cup LowBits \cup HighBits) = {}
                        /\ OrderBits \cap (LowBits \cup HighBits) = {}
                        /\ LowBits \cap HighBits = {}
                        /\ MaxCalls \in Nat

VARIABLES device,     \* the kernel's settings: mode, a set of flags; speed; width
          call,       \* call[o]: the call under way
          data,       \* data[o]: data8 or data32, a set of flags
          goal,       \* what a call that is not disturbed must make of the device
          calls       \* how many of those were made

spi == <<device, call, data, goal, calls>>

NoCall == [op |-> "none", bits |-> {}, rate |-> 0]
Unknown == [mode |-> {}, speed |-> -1, width |-> 0]
Fresh == [mode |-> {}, speed |-> 0, width |-> 0]

SpiInit == /\ device = Fresh
           /\ call = [o \in Objects |-> NoCall]
           /\ data = [o \in Objects |-> {}]
           /\ goal = [o \in Objects |-> Unknown]
           /\ calls = 0

\* An ioctl works on any spidev file behind the number.
Reaches(o) == Behind(o) \in Objects /\ class[Behind(o)] \in {"spi", "flash"}

\* The part of the mode word a call reads, and what it keeps of it.
Narrow == ModeBits \cup OrderBits \cup LowBits
Read(c) == IF c.op = "setFlags32" THEN device.mode ELSE device.mode \cap Narrow

\* Mutant of Kept: set_extra_flags keeps the mode, not the bit order.
KeptMode(c) == IF c.op = "setMode" THEN OrderBits \cup LowBits ELSE ModeBits

Kept(c) == IF c.op = "setMode" THEN OrderBits \cup LowBits ELSE ModeBits \cup OrderBits

\* What each call makes of the settings d when nobody disturbs it.  Those that
\* read and write the low byte of the mode word only drop the flags above it.
Asked(c, d) ==
    CASE c.op = "open"       -> [mode |-> c.bits, speed |-> c.rate, width |-> c.rate]
      [] c.op = "setOrder"   -> [d EXCEPT !.mode = (@ \ OrderBits) \cup c.bits]
      [] c.op \in {"setFlags", "setFlags32"} ->
                                [d EXCEPT !.mode = (@ \ (LowBits \cup HighBits)) \cup c.bits]
      [] c.op = "setMode"    -> [d EXCEPT !.mode = (@ \ (ModeBits \cup HighBits)) \cup c.bits]
      [] c.op = "setSpeed"   -> [d EXCEPT !.speed = c.rate]
      [] c.op = "setBits"    -> [d EXCEPT !.width = c.rate]
      [] c.op \in {"get", "transfer"} -> d

First(c) == CASE c.op = "open" -> "open"
              [] c.op \in {"setMode", "setFlags", "setFlags32"} -> "rdMode"
              [] c.op = "setOrder" -> "wrOrder"
              [] c.op = "setSpeed" -> "wrSpeed"
              [] c.op = "setBits" -> "wrBits"
              [] c.op = "get" -> "query"
              [] c.op = "transfer" -> "message"

\* The call begins.  One with invalid arguments does nothing, not even to a
\* handle that is to be opened, and is left out.
Calls(o, c) ==
    /\ Goto(o, First(c))
    /\ call' = [call EXCEPT ![o] = c]
    /\ data' = [data EXCEPT ![o] = IF c.op = "open" THEN c.bits ELSE {}]
    /\ goal' = [goal EXCEPT ![o] = Asked(c, device)]
    /\ UNCHANGED device

\* The call returns; the locals are gone.
Returns(o) == /\ Goto(o, "ready")
              /\ call' = [call EXCEPT ![o] = NoCall]
              /\ data' = [data EXCEPT ![o] = {}]

Fails(o) == Returns(o) /\ goal' = [goal EXCEPT ![o] = Unknown]

-----------------------------------------------------------------------------
spi_new(o) == /\ class[o] = "spi" /\ pc[o] = "none"
              /\ Goto(o, "ready")
              /\ UNCHANGED <<class, files, fd, faults, blame, spi>>

spi_free(o) == /\ class[o] = "spi" /\ pc[o] = "ready"
               /\ Blame(o, "free")
               /\ fd' = [fd EXCEPT ![o] = NoFile]
               /\ Goto(o, "none")
               /\ goal' = [goal EXCEPT ![o] = Unknown]
               /\ UNCHANGED <<class, files, faults, device, call, data, calls>>

spi_call(o) == /\ class[o] = "spi" /\ pc[o] = "ready"
               /\ calls < MaxCalls /\ calls' = calls + 1
               /\ \E c \in SpiCalls : Calls(o, c)
               /\ UNCHANGED <<class, files, fd, faults, blame>>

\* The whole of sfud_spi_port_init but the system calls of spi_open: a handle
\* for each sfud_init, and none is ever closed.
sfud_spi_port_init(o) ==
    /\ class[o] = "flash" /\ pc[o] \in {"none", "ready"}
    /\ Calls(o, [op |-> "open", bits |-> {}, rate |-> 2])
    /\ Blame(o, "free")
    /\ fd' = [fd EXCEPT ![o] = NoFile]
    /\ UNCHANGED <<class, files, faults, calls>>

\* One transfer; the port drops its result.
spi_write_read(o) == /\ class[o] = "flash" /\ pc[o] = "ready"
                     /\ Calls(o, [op |-> "transfer", bits |-> {}, rate |-> 0])
                     /\ UNCHANGED <<class, files, fd, faults, blame, calls>>

\* A close that fails has freed the number all the same; the handle keeps it.
\* A handle without a file is left alone.
spi_close(o) ==
    /\ class[o] = "spi" /\ pc[o] = "ready" /\ fd[o] # NoFile
    /\ \E ok \in Outcomes(Behind(o) # Nobody) :
         /\ Spend(Behind(o) # Nobody, ok)
         /\ files' = Freed(o)
         /\ fd' = IF ok THEN [fd EXCEPT ![o] = NoFile] ELSE fd
         /\ blame' = IF ok THEN blame ELSE blame \cup {"kept"}
    /\ goal' = [goal EXCEPT ![o] = Unknown]
    /\ UNCHANGED <<class, pc, device, call, data, calls>>

-----------------------------------------------------------------------------
\* spi_open_advanced2 clears the handle and opens the file.
OpenDevice(o) ==
    /\ pc[o] = "open"
    /\ \E ok \in Outcomes(Unused # {}) :
         /\ Opens(o, Unused # {}, ok)
         /\ IF ok THEN Goto(o, "wrMode") /\ UNCHANGED <<call, data, goal>> ELSE Fails(o)
    /\ UNCHANGED <<class, device, calls>>

\* Mutant of Refused: spi_open_advanced2 leaves the file open.
RefusedOpen(o) ==
    /\ Fails(o)
    /\ fd' = IF call[o].op = "open" THEN [fd EXCEPT ![o] = NoFile] ELSE fd
    /\ UNCHANGED files

\* An ioctl failed: a call that was opening the file closes it again.
Refused(o) ==
    /\ Fails(o)
    /\ IF call[o].op = "open"
       THEN files' = Freed(o) /\ fd' = [fd EXCEPT ![o] = NoFile]
       ELSE UNCHANGED <<files, fd>>

\* One ioctl that makes settings d and word w and goes on to l, "ready" at the
\* end.  A write disturbs what the other calls were asked for.
Ioctl(o, at, d, w, l) ==
    /\ pc[o] = at
    /\ \E ok \in Outcomes(Reaches(o)) :
         /\ Spend(Reaches(o), ok)
         /\ IF ok
            THEN /\ device' = d
                 /\ goal' = [u \in Objects |-> IF u = o \/ d = device THEN goal[u] ELSE Unknown]
                 /\ IF l = "ready" THEN Returns(o)
                    ELSE /\ Goto(o, l)
                         /\ data' = [data EXCEPT ![o] = w]
                         /\ UNCHANGED call
                 /\ UNCHANGED <<files, fd>>
            ELSE Refused(o) /\ UNCHANGED device
    /\ UNCHANGED <<class, blame, calls>>

Opening(o) == call[o].op = "open"

ReadMode(o) == Ioctl(o, "rdMode", device, (Read(call[o]) \cap Kept(call[o])) \cup call[o].bits,
                     "wrMode")

\* The kernel takes the word written for the whole of its flags, the low byte
\* of SPI_IOC_WR_MODE too.
WriteMode(o) == Ioctl(o, "wrMode", [device EXCEPT !.mode = data[o]], {},
                      IF Opening(o) THEN "wrSpeed" ELSE "ready")

WriteOrder(o) == Ioctl(o, "wrOrder", [device EXCEPT !.mode = (@ \ OrderBits) \cup call[o].bits], {},
                       "ready")

WriteSpeed(o) == Ioctl(o, "wrSpeed", [device EXCEPT !.speed = call[o].rate], {},
                       IF Opening(o) THEN "wrBits" ELSE "ready")

WriteBits(o) == Ioctl(o, "wrBits", [device EXCEPT !.width = call[o].rate], {}, "ready")

\* A getter; spi_tostring calls five or six of them.
Query(o) == Ioctl(o, "query", device, {}, "ready")

Transfer(o) == Ioctl(o, "message", device, {}, "ready")

SpiStep(o) == \/ spi_new(o) \/ spi_free(o) \/ spi_call(o) \/ spi_close(o)
              \/ sfud_spi_port_init(o) \/ spi_write_read(o)
              \/ OpenDevice(o) \/ ReadMode(o) \/ WriteMode(o) \/ WriteOrder(o)
              \/ WriteSpeed(o) \/ WriteBits(o) \/ Query(o) \/ Transfer(o)

-----------------------------------------------------------------------------
\* Success of a call that nobody disturbed means that the device has what was
\* asked and has kept the rest: open leaves mode, speed and width all as given,
\* a setter its own part, a getter or a transfer nothing.  The setters of the low
\* byte of the mode word lose the flags above it (Asked), and no others do.
SettingsAsAsked ==
    \A o \in Objects : pc[o] = "ready" /\ goal[o] # Unknown => device = goal[o]
=============================================================================
