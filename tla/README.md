# Models of CDraw

TLA+ models of the parts of this repository that keep state: the queue, the UDP
pumps, the serial-flash driver and its port, the objects that own a device file
(SPI, UART, UDP), their parameter files, the DRM display program and the
on-screen display. TLC checks them on small instances. TLAPS proves, for every
instance, all of their safety properties, and that the queue and the
serial-flash driver implement their abstract specifications; what is left to TLC
alone is liveness. Modules are checked with `tlc -config X.cfg M`, proofs with
`tlapm M.tla` for the `*Proofs` modules.

## The system

CDraw is a set of tools for an RK3568-like board. Nothing supervises it: test
programs (`main.cc`, `test_sfud_c.c`, `test-drm-full.cc`, `test_pcie_*.cc`)
create the objects and call them, sometimes from several threads.

| component | source | state | operations | talks to | model |
|---|---|---|---|---|---|
| Queue | `cdrawStruct/queue/CdrawQueue.h` | `data_`, `head_`, `tail_`, `count_`, `mtx_` | enqueue, 4 dequeues, clear, isEmpty, isFull | any thread; the pumps | `CdrawQueue`, `BoundedFifo` |
| UDP send pump | `cdrawTools/net/CdrawNet.*` | `is_work_`, locals of the loop | sendDatesByUdpFromQueue, setIsWork | takes from a queue, calls `sendto` | `CdrawNetSend` |
| UDP receive pump | same | `is_work_`, `rev_data` | revDatesByUdpToQueue, revDataByUdp, setIsWork | calls `recvfrom`, fills a queue | `CdrawNetReceive` |
| UDP end point | same | `net_fd_`, addresses | two constructors, init_by_json, destructor | the process's file table, a parameter file | `CdrawNet`, `Devices` |
| SFUD operations | `3rdparty/sfud/src/sfud.c` | the static page buffer, the flash record; in the chip memory, WEL, busy cycle, AAI mode | read, erase, chip erase, write, erase-write | the chip, through `spi->wr`, `lock`, `unlock` | `FlashMemory`, `NorChip`, `Sfud` |
| SFUD start-up | `sfud.c`, `sfud_sfdp.c` | `sfud_flash`: capacity, write mode, erasers, addressing, init_ok | sfud_init and what it calls | the chip, the static chip table | `SfudInit` |
| SFUD port | `3rdparty/sfud/port/sfud_port.c` | an SPI handle | sfud_spi_port_init, `spi_write_read` | spi.c | `SpiDevice`; constants of the two above |
| SPI device file | `cdrawTools/spi/spi.c` | the handle's `fd`; in the kernel mode, speed and width | new, open, transfer, 6 setters, getters, close, free | spidev, which other handles set too | `SpiDevice`, `Devices` |
| UART | `cdrawTools/uart/*` | `uart_fd_`, `uart_json_` | constructor, init_by_json, openUart, destructor | the file table, a parameter file | `CdrawUart`, `Devices` |
| JSON parameters | `cdrawTools/json/*`, `init_by_json` of three classes | a file per class | test, create, read | the file system | `CdrawJSON` |
| DRM display | `test-drm-full.cc` | `modeset_list`, saved CRTCs | open, prepare, show, draw, cleanup | the kernel by ioctl, the OSD | `Modeset` |
| OSD layer | `COSD_OpenCL.cpp`, `text_render.cl` | slots, layer, picture | create_font_add_array, process_font | FreeType, OpenCL, the display | `OsdImage`, `Osd` |
| OSD shapes | `COSD_OpenCL.cpp` | one buffer per call | draw_cross, draw_box, draw_yaw_rule | the layer | `OsdImage`, `OsdShapes` |
| PCIe, clock, logging, cJSON, test programs | several | none of their own | – | – | not modelled |

What is hard in it: threads inside the queue and around the pumps' flags; a
blocking wait under a mutex; a chip whose cycles end when they like, and which
ignores commands meanwhile; transfers that fail in the middle of a command
sequence; a restart of the program while the chip keeps its power; ioctls that
fail between others that must be undone; file numbers that are given out again
as soon as they are closed; a device's settings shared by several handles; a
file that is created in two steps; buffers used again turn after turn.

What makes each part correct:

- **Queue**: every operation takes effect at one instant, first in first out,
  and only a full queue refuses; the ring never loses or overwrites an item.
- **Send pump**: what goes to `sendto` is what was enqueued, in order, once.
- **Receive pump**: a datagram read is delivered once unless the queue refused it.
- **SFUD operations**: `SFUD_SUCCESS` means that the effect has happened, no
  byte outside the range is touched, the chip is left idle, every call returns;
  behind a lock the driver is an atomic memory for all its threads.
- **SFUD start-up**: a success means the driver's picture of the chip is true
  and the chip takes writes.
- **Device objects**: a file number belongs to the object that opened it and is
  never leaked; a success leaves the device's settings as asked and the rest
  unchanged; parameters come from a complete save.
- **Display**: one connector per CRTC, nothing leaks, the old picture comes back.
- **OSD**: the screen shows what the slots hold now; no store goes outside.

## Modules

**`BoundedFifo`** is what a caller of the queue relies on: a sequence, with each
operation atomic between its call and its return.

**`CdrawQueue`** is the class with every body split at each assignment: `Call`
is the call, `Acquire` the `lock_guard`, `EnqueueTest`/`StoreItem`/
`AdvanceTail`/`CountUp` the body of enqueue, `DequeueTest`/`WakeUp`/`TakeItem`/
`AdvanceHead`/`CountDown` that of the four dequeues, `Release` the end of the
scope; `Query` is isEmpty and isFull, which take no lock. `pc[t]` says where
thread t is. `INSTANCE BoundedFifo` with a refinement mapping (items in hand
followed by unread items) makes `Linearizable` a property of this module. The
template is written with a `std::mutex` member and passed by value to the
pumps, which cannot be instantiated as it stands; the models take the queue to
be the caller's own, as the parameter is meant.

**`CdrawNetSend`** and **`CdrawNetReceive`** EXTEND `CdrawQueue` and run one pump
each against it, step by step, the mutex included; `Look` is a caller's query
beside it. `pump` is the pump's place in
its loop; `setIsWork` is a plain store by another thread, at any moment. The
socket is a bounded kernel buffer; datagrams are numbered as they reach it.
Both calls of `recvfrom` pass the number `sizeof(remote_addr_)` where the place
of a length belongs: the datagram is consumed and copied, the kernel faults on
the length, -1 is returned. The pump does not look at that answer, and enqueues
what it has also when recvfrom fails without a datagram (`MaxFailures`); the
callers of `revDataByUdp` get it as a `REV_SIZE`, which is unsigned (`Failed`,
the largest value; `ReplyMod` stands for 2^32), as they do for a NULL buffer,
where the socket is left alone. `Start` stores the argument isWork, of either
value.

**`NorChip`** is the external chip, as the driver uses it: programming only
clears bits, a page wraps, a cycle starts with a command and ends by itself
(`Finish`), RDSR shows WEL until the cycle ends, other commands are ignored
meanwhile, AAI mode lasts until WRDI. `mem` holds abstract bytes: erased,
"byte k of call v", or mixed.

**`FlashMemory`** is what a caller of sfud.h relies on: a memory whose erase,
write and read take effect at one instant between call and return, and
`sfud_erase_write` at two, its erase and its write. It has no bus and no cycles.

**`Sfud`** EXTENDS `NorChip` and has one step per SPI transfer. `stack[t]` is
the C stack of thread t, with a label per function: `sfud_write` turns into
`page256_or_1_byte_write` or `aai_write`, which pushes the former for an odd
byte; `sfud_erase_write` pushes `sfud_erase`. Each transfer has four outcomes
(`Transfers`): it reaches the chip or is lost, and the port answers success or
failure, whichever it was. The repository's port always answers success; the
history variable `deceived` notes the first loss reported as done. The check of
the address bound adds in size_t, modulo `SizeMod`, while `FlashMemory` knows the
true end of a range. `Locking` says whether the port
installs lock and unlock; `Slow` whether a cycle may outlast the retries.
`before[t]` is the memory as t's call found it, taken when it gets the bus.
`Flash == INSTANCE FlashMemory WITH ...` maps the memory to `Settled`: `mem` when
no thread has the bus (`HasBus`, from where lock is called to where unlock is,
installed or not), else the `before` of the thread that has it, so that a call
counts as done at its unlock. `Phase` tells whether `sfud_erase_write` has erased
(`HalfDone`), `Delivered` what `sfud_read` has returned. `Atomic` is `FlashMemory`'s
specification under that map.

**`SfudInit`** is `sfud_init` to its end, one transfer per step: JEDEC id, SFDP
header and tables, the static table, the choice of erasers, reset, unprotecting,
4-byte addressing. `Crash` restarts the program at any step while the chip keeps
its power; `Use` is an operation that leaves the chip at work. Transfers have the
same four outcomes as in `Sfud`. The device record
is a chip with or without tables, which stays ready for RESET over a status read
or not (`keepsArmed`); sizes are scaled, 16 standing for 16 MB. The
erase types go through the code's compaction (`Keep`) and exchange sort
(`Ascending`), and `Smallest` is hardware_init's search for the granularity.

**`Process`** is a process with its table of open files: `open` and `socket` take
the lowest free number, `close` frees what the number names, whoever opened it,
even when it reports an error. `fd[o]` is the number object o keeps. Four
modules EXTEND it, one step per system call, each of which may fail:

- **`SpiDevice`** is spi.c and the SFUD port. The mode word, the speed and the
  width belong to the kernel's `device`, not to the handle. The setters read the
  word, change it and write it back in two ioctls, with 8 bits or 32. A call is
  a record (operation, flags, rate); `Asked` says what it is to make of the
  device, dropped flags of the 8-bit setters included, and `goal` keeps that
  until another handle or the program disturbs it.
- **`CdrawJSON`** is the parameter file of a class and `init_by_json` of the
  three classes that have one. `CreateFile` stands for fopen, which empties the
  file, `PrintFile` for what follows to fclose; `ReadFile` reads it, once for
  each slot in COSD_OpenCL. What a file holds is a save: who printed it, and where
  its values come from: an object's constructor, a member never given a value
  (`Garbage`), the zeros of a cleared structure. `param` has the save of each slot.
- **`CdrawUart`** is `uart_fd_` from a constructor that leaves it as the memory
  had it to a destructor that closes it twice.
- **`CdrawNet`** is the end point's two constructors and its destructor.

**`Devices`** composes the four: two objects, each in its thread, of every pair
of classes that shares something, and `Crash`, the end of the process at any
step and a new start; the files and the kernel's settings stay. Three history
variables keep known faults of the code apart from new ones: `blame` notes where
the code itself loses, keeps or closes a number wrongly, `disturbed` of which
classes an object looked for the file while another was creating it or a save was
cut between fopen and fclose, `opened` which UARTs have a value in
`uart_fd_`. Everything else must keep the properties, and everything after such a
fault is free, in that class or of that number.

**`Modeset`** is `test-drm-full.cc` from `modeset_open` to `modeset_cleanup`, one
step per request to the kernel, each of which may fail, the releases too; the
two retrievals of encoders in modeset_find_crtc fail independently. The kernel's
objects (framebuffers, dumb buffers, mappings, what each CRTC shows) are the
external part. A framebuffer that is removed turns its CRTC off. Where the code
does not look at an answer, `failed` notes what the request failed for: a CRTC
that was not saved, a buffer, framebuffer or mapping that was not released.

**`Osd`** is the slot array, the merged layer and the kernel `text_render.cl`
over several turns; a pixel of text is (bitmap, index in it), so that a pixel
from the wrong place or from an old bitmap is told apart. A store outside the
slots or the layer ends the behaviour (`noSlot`, `offLayer`): what it overwrites is
C++'s to say. FreeType and OpenCL
are taken to work. **`OsdShapes`** computes the cells that draw_cross, draw_box
and draw_yaw_rule store, by flat index, including those outside. Both EXTEND
**`OsdImage`**, the size of the image they share.

**`MC*`** modules hold the instances: who calls what, on which chips and boards.
**`*Proofs`** hold the theorems about the module they are named after.
`CdrawNetSendProofs` and `CdrawNetReceiveProofs` EXTEND `CdrawQueueProofs`, as the
pumps extend the queue; `OsdProofs` is about `Osd` and `OsdShapes`.

## Runs

`queue_mixed` – three threads, capacity 2, two item values (0 among them, which
is also what an empty dequeue returns). Two threads enqueue and dequeue, the
third drains, waiting or not, and clears; one of them also asks isFull, without
the mutex: a full queue, an empty one, wrap-around and clear in the middle all
happen at capacity 2. `TypeOK`, `MutualExclusion`,
`RingInv`, the refinement `Linearizable`, `Completes` (a non-blocking operation
inside ends), and `SleeperHoldsQueue`, which says what a blocking drain of an
empty queue does: from then on nothing in the queue changes.

`queue_served` (expected violation) – the consequence: the enqueue that would
wake the sleeper waits for the mutex the sleeper holds (CdrawQueue.h:87), so
"出队, 阻塞式" blocks for ever.

`send_all` – one producer of up to 4 items, package sizes 0 to 3, the 8-bit
counter scaled to modulo 4, setIsWork at any moment. `SentOnceInOrder` (no item
goes out twice, and items go out in the order in which the queue accepted them) and
`StopsSoon` (at most one item after a stop) hold always; `AllSent` for an
undisturbed pump and the package sizes the counter can reach: of every
package_size items one is sent, of every item if that is 0 or 1. `QueryTrusted`:
the producer, the only one to add, finds room where it saw room, though isFull
takes no lock.

`send_batch` (expected violation) – with package_size 2 the item counted first
is never sent, though CdrawNet.h:72 says the function sends all data in the queue.

`receive_all` – three datagrams, a queue of two slots so that it may be full, a
kernel buffer of two, one recvfrom that fails without a datagram, setIsWork and
revDataByUdp at any moment. `Conserved` accounts for every datagram read until
recvfrom has so failed; `ReadIsDelivered` holds even after, where the mutex starves
no thread (`NobodyStarves`). `QueryTrusted`: the consumer, the only one to
remove, finds an item where it saw one.

`sfud_all` – one call of any kind at every address and size of a 16-byte chip
with 4-byte pages and erasers of 4 and 8 (a write spans up to three pages, an
erase up to both erasers), page and AAI mode, up to two transfers that go wrong in
any way, a chip that may be slow. `SuccessMeansDone` (until a loss is reported as
done), `ChipLeftIdle` (when nothing went wrong), `OutsideUntouched` and
`CallReturns` (always). RetryTimes 1 gives both ways out of the poll loop. The run
has one call: what a second makes of a chip the first left at work is in the table
below. It leaves out the empty write at an odd address in AAI mode and the sizes
whose sum with the address wraps, in the same table.

`sfud_pair` – two threads, three calls that overlap in the same two blocks and
pages, one of them past the end of the chip, through a lock. `Atomic`: the
driver, the bus and the chip together implement `FlashMemory`, whatever the order
of the transfers. Three calls are enough for one that runs between the two halves
of an erase-write and one that sees the result. A thread that kept the lock
would be a deadlock. The repository's port has no lock: there `Atomic` holds for a
single thread, in AAI mode too, whose odd bytes would wait for themselves behind a
lock. The theorem `Linearized` says so; the run agrees with Threads {t1}, Locking
FALSE, SfdpAvailable TRUE, TwoErasers and WriteModes {"page", "aai"}.

`init_all` – fourteen devices (with good tables of three densities, with six
kinds of bad ones, without tables, protected, unknown, without erasers; two of them
disarmed by a status read), three calls, three transfers that go wrong in any way,
two crashes. `KnowsTheChip` (capacity, a write mode the chip has, the erasers from
the smallest up; the width of addresses until a loss is hidden), `ReadyForWrites`
(no protection left; reset done, if the chip stays armed; until a loss is hidden),
`NotFoundIsTrue`, `InitReturns`.

`devices_all` – ten pairs of classes in both orders, a file table of two numbers
so that it is full with both objects open and leaks are felt, one failing system
call, three calls of spi.c with every flag group and both widths of the mode
word, two slots, one crash. `Owned`, `SettingsAsAsked`, `ReadsOneSave`. Three calls
of spi.c are an open and two setters, or both handles' opens and a setter of
one in between. No liveness: a program owes no call.

`modeset_all` – every combination of two connectors (without screen, without
mode, with one of a frame's size or less), their current CRTCs, one encoder or
both, and what these work with, two failing requests. `OneDevicePerCrtc`;
`NothingLeaks`, but for what the kernel refused to release; `CrashExplained`: the
program crashes on a screen smaller than a frame or at a CRTC whose own saving
failed, and nowhere else; `ScreensRestored` when no request fails.

`shapes_all` – every width and height from -1 to beyond a 24 by 13 image, line
thickness -1 to 2, solid and dashed. `DrawnInside`, `BoxSymmetric`. Each call is
one step and ends the behaviour, hence no deadlock check.

`osd_shown` – a 4 by 3 image, 3 slots and the number after the last, four bitmaps,
one of them wider and higher than the image, made over several turns, overlapping,
replaced, across every edge and outside: `OsdTypeOK`, that only a slot above or
left of the image makes the merging store outside the layer; `ShowsTheSlots`, for
the pictures in which there is none and no bitmap is wider than the image. A store
outside ends the behaviour, hence no deadlock check.

### Fairness

- Queue: a thread inside is scheduled (`WF` of each `Body`); a free mutex some
  thread waits for is taken by somebody (`WF` of the disjunction: `std::mutex`
  promises no more).
- Send pump: the same, and the pump's own thread runs. Producers and setIsWork
  owe nothing.
- Receive pump: both threads run, and so does whoever holds the mutex; a free
  mutex is taken by somebody, as above. That a given thread gets it is not
  promised, as both take it for ever: `ReadIsDelivered` has it as its premise
  (`NobodyStarves`), not as fairness.
- Sfud: the calling thread runs (`WF` of `Driver`), and cycles end (`WF`) only
  where the chip is not `Slow`; `CallReturns` is checked with a slow chip, whose
  cycles need never end.
- SfudInit: the call runs; nothing is asked of the chip.

## Where the code departs from its own words

Besides the two findings, the models show the following, and the properties
above are stated around it. Each can be seen by changing a constant.

| what | source | how to see it |
|---|---|---|
| A call after one that timed out meets a busy chip, which ignores it, and answers success | sfud.c:648 | `sfud_all`, MaxCalls 2: `OutsideUntouched`, `SuccessMeansDone` |
| The repository's port installs no lock; two threads share a static buffer | sfud_port.c:94 | `sfud_pair`, Locking FALSE: `Atomic` |
| The port reports every transfer as done | sfud_port.c:54 | `SuccessMeansDone`, `ReadyForWrites`, `KnowsTheChip` without `deceived` |
| A size so large that its sum with the address wraps passes the check of the bound | sfud.c:417, 533, 636, 719 | `sfud_all` with `<<"write", 3, 63>>` |
| sfud_write answers success and writes nothing on byte-write and dual-buffer chips | sfud.c:802, 806 | `sfud_all`, WriteModes {"byte"} or {"dual"} |
| A write of no bytes at an odd address in AAI mode wraps its size | sfud.c:733 | `sfud_all` with `<<"write", 3, 0>>` |
| aai_write takes the lock it holds | sfud.c:729 | `sfud_all`, Locking TRUE |
| A status poll between ENABLE_RESET and RESET disarms some chips | sfud.c:845 | `ReadyForWrites` without `keepsArmed` |
| WRSR is not waited for: an MX25L3206E is still busy and protected after a success | sfud.c:1046 | `ReadyForWrites` without `chip.cycle = "status"` |
| A density of exactly 4 GB passes the check and wraps to 0 | sfud_sfdp.c:297 | `init_all` with that density |
| A density of fewer than 8 bits shifts by a negative number | sfud_sfdp.c:303 | left out by `ChipsAssumption` |
| A table that can be read but lists no erase type hides the static table, which may know the chip: "not found" | sfud.c:284 | `init_all` with `NoErasers` among the `KnownIds`: `ChipTableAssumption`, and without its last conjunct `NotFoundIsTrue` |
| A chip at work answers no id: "not found" after a restart | sfud.c:275 | `NotFoundIsTrue` without `chip.idle` |
| An unused connector takes the CRTC of a later one in use | test-drm-full.cc:402 | `ScreensRestored` without `UsedFirst` |
| A drmModeGetCrtc that failed is dereferenced at the end | test-drm-full.cc:815 | `CrashExplained` without its second cause |
| A frame of 1920x1080 is copied to any mapping | test-drm-full.cc:767 | `CrashExplained` without its first cause |
| The answers of munmap, drmModeRmFB and DESTROY_DUMB are dropped: what they refuse stays | test-drm-full.cc:526, 531, 828-836 | `NothingLeaks` without `failed` |
| Slots 30 to 36 are used, there are 30 | test-drm-full.cc:752 | `noSlot` in `osd_shown` |
| A yaw rule narrower than 8 columns stores beside its buffer, one narrower than its parts divides by zero | COSD_OpenCL.cpp:359, 350 | `shapes_all` with such a width: `DrawnInside` |
| Negative positions are stored before the layer | COSD_OpenCL.cpp:245 | `offLayer` in `osd_shown` |
| The inside of a frame is what malloc left | COSD_OpenCL.cpp:307 | `Unset` cells in `shapes_all` |
| Items dequeued while is_work_ is false are dropped; the pump overwrites an earlier setIsWork | CdrawNet.cc:97, 93 | `AllSent` without `~Undisturbed`; `Start` |
| A package_size above 255 is never reached | CdrawNet.cc:96 | `AllSent` without its bound |
| A failed recvfrom enqueues the old value; both calls consume a datagram and answer -1, which the callers of revDataByUdp get as 4294967295 | CdrawNet.cc:120, 79 | `Receive`, `revDataByUdp` |
| The destructor closes a number again that another thread may own by then, and any number at all if openUart was never called | CdrawUart.h:93 | `Owned` without "between" in `Blame`; without `opened` |
| A second openUart loses the number of the first, after a failed tcgetattr too | CdrawUart.cc:21 | `Owned` without "lost" |
| "打开串口并设置串口属性" (opens the port and sets its attributes): openUart computes them and never sets them | CdrawUart.h:99 | read in the code |
| The file "created from the class's initial parameters" is printed from a member that never got a value | CdrawUart.h:203 | `Garbage` in `devices_all` |
| With two addresses and a bind that failed the same holds of net_json_ | CdrawNet.cc:29 | the same |
| Parameters read from the file do not reach the socket, which is bound already | CdrawNet.h:116 | order of `Bind` and `ReadFile` |
| A crash between fopen and fclose leaves an empty file, which is read as zeros ever after; two objects that create it at once make it change under a third | CdrawJSON.h:45 | `ReadsOneSave` without `disturbed` |
| The path leaves out id_, so all objects of a class share one file | CdrawJSON.cc:9 | `file` has one entry per class |
| fopen's NULL is not looked at: the program ends there | CdrawJSON.h:48 | `Crash` at `CreateFile` |
| A setter of 8 bits clears the flags above them; two handles lose each other's flags | spi.c:277 | `SettingsAsAsked` without `goal` reset |
| spi_close keeps a number whose close reported an error, though it is free | spi.c:179 | `Owned` without "kept" |
| Each sfud_init opens another SPI handle and forgets the one before | sfud_port.c:102 | `Owned` without "lost" |

## Proofs

Each theorem holds for every value of the constants that the assumption of its
module admits; TLC evaluates the assumptions in each run. The assumptions give
the constants their types, and besides:

- `QueueAssumption`: NoThread is no thread. `SendAssumption`,
  `ReceiveAssumption`: which threads there are, and that they call what the
  pumps and their users call. Capacity may be 0, package sizes and the
  counter's width are arbitrary.
- `ChipAssumption`, `SfudAssumption`: chip, erasers and pages are not empty
  (sfud.c:327 refuses a chip without bytes), there is an eraser, size_t holds more
  than the chip's size, Free is no thread.
- `ProcessAssumption`, `SpiAssumption`, `JsonAssumption`: the names used as
  marks (Nobody, Absent, ...) are no objects, and the four groups of bits in
  the SPI mode word are disjoint, as in spidev.h. FONT_ARRAY_SIZE is above 0,
  as in COSD_OpenCL.h.
- `ImageAssumption`: the image has a size.
- `InitAssumption`, `ChipsAssumption`, `TablesAssumption`, `ChipTableAssumption`:
  what the start-up cannot test. A density given as a power of two is one of a
  byte or more. A chip's size fits in 32 bits, its blocks of
  one size have one command, and an MX25L3206E needs no 4-byte addresses. A table
  that the driver takes is true and lists each eraser of the chip once, or none;
  a valid one is as the standard says (`Standard`) and lists some; the static
  table is true and complete, says that a protected chip is written by AAI, unless
  it is an MX25L3206E, and has no chip whose own table is taken without erasers.
  The all-zero id that is read from a chip that does not answer is nobody's.
- `BoardOK` of `Modeset`: what the kernel promises of a board. Ids of
  connectors are distinct, an encoder in use names a CRTC that works for its
  connector, a CRTC in use has a framebuffer and one connector, a connector
  without a screen has no modes, a framebuffer found has a number of at most 100.

Some theorems need more, which the code needs of its caller and does not test;
each is a hypothesis of the theorem and the table above says what happens
without it. For the flash: `AaiFits` (no empty AAI write at an odd address),
`SumsFit` (no sum of an address and a size wraps), `Serial` (a lock in the port, a
single thread or a single call), `Alone` (a single thread), `Tame` (either nothing
goes wrong with the transfers, no cycle outlasts the retries and the callers take
turns, for any number of calls, or there is one call, whose transfers may go wrong
in any way, on a chip as slow as it likes), `Divides` (the larger erase blocks
consist of smaller ones). For the shapes: `RulesFit` (a yaw rule has 8 columns and
two for each part, or none). All other theorems have no hypotheses; where the code
breaks its promise in a case of its own, that case is in the property (`deceived`,
`keepsArmed`, `failed`, `disturbed`, `blame`, `Placed`).

| module | theorem | what it establishes |
|---|---|---|
| `CdrawQueueProofs` | `TypeCorrect` | `TypeOK`: the cursors index a slot, the count stays within the capacity |
| | `Exclusion` | `MutualExclusion`: whoever is inside owns the mutex |
| | `RingCorrect` | `RingInv`: tail_ is Span slots after head_, no item is overwritten or read where there is none |
| | `SleeperFreezesQueue` | the action property `SleeperHoldsQueue` |
| | `Refinement` | `Linearizable`: every step is a step of `BoundedFifo` or a stutter |
| | `QueryStaysTrue` | `QueryTrusted` |
| `CdrawNetSendProofs` | `QueueBelow` | with pump and producers, the queue still only does its own steps |
| | `OnceInOrder`, `StopsInTime` | `SentOnceInOrder`, `StopsSoon` |
| | `SendTypes`, `LookStaysTrue` | `SendTypeOK`, `QueryTrusted` |
| `CdrawNetReceiveProofs` | `QueueBelow` | the same for the receive pump and its consumer |
| | `DatagramsConserved` | `Conserved` |
| | `ReceiveTypes`, `LookStaysTrue` | `ReceiveTypeOK`, `QueryTrusted` |
| `DevicesProofs` | `NumbersAreOwn` | `Owned`, for any number of objects, files, failures and crashes |
| | `CallsDoWhatIsAsked` | `SettingsAsAsked` |
| | `ParametersAreSaved`, `DevicesTypes` | `ReadsOneSave`, `DevicesTypeOK` |
| `ModesetProofs` | `CrtcsApart`, `NoLeaks` | `OneDevicePerCrtc`, `NothingLeaks` |
| | `ScreensComeBack` | `ScreensRestored` |
| | `CrashHasCause` | `CrashExplained` |
| | `ModesetTypes` | `ModesetTypeOK` |
| `OsdProofs` | `StoresStayInside` | `DrawnInside`, under `RulesFit` |
| | `FramesSymmetric`, `ShapesTypes` | `BoxSymmetric`, `ShapesTypeOK` |
| | `ScreenShowsTheSlots`, `StaysInside` | `ShowsTheSlots`, `OsdTypeOK` |
| `SfudInitProofs` | `InitTypes` | `InitTypeOK` |
| | `NotFoundTrue`, `ChipKnown`, `WritesReady` | `NotFoundIsTrue`, `KnowsTheChip`, `ReadyForWrites` |
| `SfudProofs` | `FlashTypes` | `TypeOK`, with or without a lock, faults and a slow chip |
| | `Untouched` | the action property `OutsideUntouched`, under `AaiFits`, `SumsFit` and `Tame` |
| | `LeftIdle` | `ChipLeftIdle`, under `AaiFits`, `SumsFit` and `Serial`, for a chip that is not slow or one call |
| | `SuccessKept` | `SuccessMeansDone`, under `Alone`, `AaiFits`, `SumsFit`, `Tame`, `Divides` and a write mode that writes |
| | `Linearized` | the refinement `Atomic`, for any number of threads with a lock and for one thread without, under `Serial`, `AaiFits`, `SumsFit`, `Divides`, a write mode that writes, no transfer that goes wrong and a chip that is not slow |

The arguments, module by module:

**Queue.** `IInv == TypeOK /\ MutualExclusion /\ RingInv`; no part is inductive
alone: count_ stays in range because the test that preceded the step still
holds, which needs exclusion, and head_ and tail_ stay in step because at most
one thread is between two of its assignments. The step lemmas go one action at a
time; `OwnerAt`, `RingBefore` and `RingAfter` turn "some thread is at l" into
"the owner is at l" and carry the ring's arithmetic over a step; `ModSucc`
relates the code's `%` to `Wrap`.

**Refinement of `BoundedFifo`.** `QInv` adds which operation can be at which
place (`OpInv`) and what it has to answer there (`RetInv`). `Contents` is the
abstract sequence as a function of the place of the mutex's owner: `Rest` is
what it leaves unread, `Held` what it has in hand. Each action then either
leaves `Contents`, the phase and the answer of every thread alone, or is the
step that ends the body, at which its operation takes effect (`Effects`).
`SeenInv`, for `QueryTrusted`, says that a thread that alone removes
(adds) and saw an item (room) still has it until its own operation takes it.

**Pumps.** `QueueBelow` shows that every step of the composed module is a step of
the queue or a stutter, so all of the queue's invariants and its refinement hold
below the pumps. `SendInv` follows an item through five places: `SendFlow`
says that what was accepted is what the pump took followed by what the queue
holds, `SendWire` that what went out are items at rising positions among those
taken and judged, and `SendEntry` that an item is new until its enqueue takes
effect. `ReceiveInv` lines up what was
delivered, what the consumer has in its hand and the queue (`Line`); until
recvfrom fails (`Clean`), it rises and, with what is pending and refused,
covers what was read.

**Device objects.** `Table` relates the place of each class in its operation to
the number it holds; `TableMoves` says how a step of one object changes the
table of files, and is shown for every action of the four modules. `HoldInv`
says, as long as `blame` is empty, that every object whose number counts
(`Trusted`) has the file it opened and every open file has such an object; that
is what makes a number that was closed and given out again harmless. `Saved`
follows the file of each class that is not `disturbed`: absent until one object
creates it, empty while that object prints it, and that same save ever after
(`SavedIn`); every slot of the parameters in use is of that save, or all are the
constructor's.
`GoalInv` relates, at each place of a setter, what was read from the device to
what the call was asked to make of it.

**Display.** `MInv == Types /\ Apart /\ Accounted`: the devices have CRTCs and
buffers of their own, and the framebuffers, dumb buffers and mappings that exist
are those of the devices, of the one being set up at the places where it
has each, those found at the start and what the kernel refused to release (`failed`). `Restorable` adds, for runs without
failures, that the kernel shows the device's picture on exactly the CRTCs of the
devices on screen (`Displayed`) and the old one on all others, that each saved
CRTC is the one found (`Remembered`), and that the list has one device, on its
own CRTC, for each connector in use that was reached (`Listed`, `Fits`); it
needs `UsedFirst`. `Whole` is for `CrashHasCause`: a device has a screen's size
(`Framed`), and one on screen has its CRTC saved or its saving failed (`Unharmed`).

**OSD shapes.** One step, hence arithmetic of flat indices: a cell's column may be
one too far left or right, and the lemmas say when that is still inside.

**OSD layer.** `OInv`: a slot is no larger than its bitmap, and as high as the bitmap
or the image; each pixel of the layer is blank or one a bitmap has; the merging
leaves the layer only if a slot is above or left of the image; the picture is
untouched until the text is laid on it, and what is shown is what the slots
give now (`Rendered`). `Lands` says which pixel of a bitmap
copyBitmapToImage stores at a place, from the division of the flat index into row
and column; `MergedAt` that the highest slot's is left.

**SFUD start-up.** `IInv` has these parts:

- `Known`: a flash that is configured is true to the chip, whichever call
  configured it. For the erasers, `ErasersRise` follows the four slots through the
  compaction and the six comparisons of the exchange sort: the result has the same
  pairs, once each, in strict order; `SmallestIsFirst` then makes the granularity
  its first element, as `sfud_sfdp_get_suitable_eraser` takes for granted.
- `Tested`: what each place of the control has already tested, so that, for
  one, everything from `reset` on has a configured flash.
- `Learnt`: a call that found the chip idle and lost nothing reads the right id,
  looks in the static table only for want of a good own one (all that `Standard`
  allows are taken: `GoodTablesTaken`), and is not
  configured at the check only if the chip is not supported.
- `Quiet`: nothing is at work when WRSR and EN4B are sent, so that both
  are obeyed, a chip in 4-byte mode is a large one, and after a success the driver
  knows of the mode. After WRSR a
  non-volatile cycle runs on, but only in an MX25L3206E, which has no 4-byte mode to
  enter: that is why the missing wait does no harm there.
- `Lifted`: while a chip is `Locked` the driver has its true id, and the control
  is not past `Unprotect`, which knows by that id, or by the write mode, what
  to do. It survives a crash in the middle, which leaves a protected chip and
  an empty flash.
- `Obeyed`: from RSTEN to RST the chip is armed, after it reset.

`Types`, `Known`, `Tested` and `Learnt` hold whatever the port answers, `Quiet` and
`Lifted` until it hides a loss (`deceived`), and `Obeyed` until then for a chip that
`keepsArmed`. A transfer other than WRSR, EN4B and RST is `Mild`; what it
keeps is shown once (`StaysQuiet`, `StaysLifted`, `StaysObeyed`), as is every way
to fail (`CallFails`). The proof found the condition on tables without erase
types of `ChipTableAssumption`.

**SFUD.** `Types` gives the frames of the C stack their shape: at most two, the
second a caller that is at one of the two places where the text calls
(`Nested`). `Types` needs nothing of the caller: sizes are taken modulo `SizeMod`
as in C, and `CycleAdvances` keeps what is left in that range. That no size does wrap
is part of `Control`, under `SumsFit` and `AaiFits`: the sum in the check of the bound
(`NoWrap`) and, from what that check lets pass (`Checked`), the sizes counted down.

`Ordered` is the inductive invariant for the rest. None of its parts
can be shown without the ones before it:

- `Control`: which frames a call may have, at which places each function is,
  where it may hold an error, how much is left there, and where the frame lies
  in the range of the call (`Main`, `Pair`).
- `Exclusion` and `Solo`: with a lock, exactly its holder is on the bus; with a
  bound of one call one thread has it, and a single thread (`Alone`) always
  does (`OneOnBus`).
- `Sound`: the thread on the bus `Owns` the chip. The latches are what its place
  says (`Latches`), the page buffer holds what its command is to carry
  (`Buffered`), and a cycle under way stores within the footprint of its call. When
  nobody is on the bus, the chip is `Rested`. All of it holds as long as
  nothing went wrong (`Clean`).
- `Alongside`: whatever transfers the one call loses, reported or not, the page
  buffer carries its own bytes (`Loaded`), and the chip's AAI address lies between the
  start of its range and the place aai_write has come to (`Follows`): a lost WRDI
  leaves the chip in AAI mode, a lost word leaves it behind.
- `Left`: the cycle of the one call may still run after its return, in its footprint.
- `Kept`: `Finished`, the memory as it will be once the cycle under way has
  ended, is `Expected`: the call's work done on the first `Part` bytes of its
  range, on top of the memory it began with. `PageLaw`, `WordLaw` and `BlockLaw`
  say what a command makes of `Finished`; `UptoMore` and `EraseWipes` add the
  next portion of a range, the latter by the division of addresses into blocks.

Each step of the thread on the bus either leaves `Finished` and `Part` alone or
moves both by the portion of one command (the `...Owns` lemmas); `SoundStep` puts
the threads together. At the unlock, `Part` is the whole range, so that the memory is
what `FlashMemory` calls `After` (`LeftBehind`). `Told` carries that over the
return, and through `sfud_erase_write` that the blocks are blank for its second half.

**Refinement of `FlashMemory`.** `Ordered` and `Due` are inductive; `Due` says
of each thread that `sfud_erase_write` has its range in bounds when it is to write,
that a refused erase means a range out of bounds, and that `sfud_read` has the
bytes of `before` at its end. A step of one thread shows in no other
(`OthersSeen`). A thread that keeps the bus moves neither `Settled` nor its
phase, whatever it sends (`HolderMaps`), nor does the end of a cycle, which is
always somebody's on the bus (`CycleMaps`), nor the lock, which takes the memory
as it is (`LockMaps`). The visible steps are three: the call (`CallMaps`), the
refusal, from the function itself or from the erase under `sfud_erase_write`
(`EnterMaps`, `EraseWriteMaps`), and the unlock, where the work of the whole call
appears at once (`UnlockMaps`, from `LeftBehind`). Behind a lock `aai_write` waits
for itself at an odd byte, so there the theorem says that it harms nobody's
bytes, not that it ends. A failed transfer leaves half a range
written, which `FlashMemory` has no step for: hence no faults.

Only model-checked: liveness (`Completes`, `AllSent`, `ReadIsDelivered`, `CallReturns`,
`InitReturns`): TLAPS does no reasoning with fairness.

## Not modelled

The PCIe programs call a vendor library in a row; the clock, the logging macros
and `CommonTool.h` keep no state; cJSON and `sjb_struct_api.h` are vendored; the
QSPI path of SFUD is not compiled in; the test programs but `test-drm-full.cc`
call the components in a row.

In modelled parts:

- UART: the bytes read and written and the line's attributes. They are copied
  into a structure that only updateUartAttr hands to the kernel, and no other
  step depends on them.
- UDP end point: sendDateByUdp, one sendto without effect on the object, and the
  contents of the addresses.
- SPI: calls with invalid arguments, which return at once; error texts;
  spi_tostring, a row of getters. Transfers carry no bytes here, they do in `Sfud`.
- JSON: the text of a file. It parses or it is empty.
- OSD: FreeType and OpenCL failures and cl_kernel_init; page flipping and the
  terminal handling of the display program.

## Plan

Proofs: no safety property that a run checks is left. `Atomic` with failed
transfers would need a `FlashMemory` whose calls may stop half-way; for more than
one call it is false of the code, since a call that failed leaves a cycle behind
that outlives its lock and makes the chip ignore the next call (first row of the
table above). So it can be stated for the first failure at most.

Models: the bytes and attributes of the UART, with a reader and a writer.
