# A verification development for libnklabs

libnklabs is a C library for small microcontrollers: a cooperative work-queue
scheduler, a command line over a UART, YMODEM file transfer, power-fail-safe
databases in flash, and drivers.  This directory models its core logic and the
drivers that keep state or wait for a chip in TLA+, model-checks the models
with TLC on small instances, and proves theorems about the scheduler, the console,
the database, file transfers, buffered files, JSON, the two kinds of memory and the
character displays with TLAPS for all values of the constants.

Paths are relative to the repository (`src/` holds the C files, `inc/` the
headers, `doc/` the documentation of each module).

Contents: 1 the system, 2 the modules, 3 how state and actions correspond to
the code, 4 the runs and their bounds, 5 fairness, 6 the proofs, 7 what the
checks showed, 8 what is not modelled, 9 the plan.

## 1. The system

| component | state | operations | how it interacts | what is hard |
|---|---|---|---|---|
| **nksched** `src/nksched.c` | work queue (list of items sorted by due time), free list, `current_tid`, `next_tid`, sleep mode | `nk_sched`, `nk_resched`, `nk_unsched`, `nk_check`, `nk_sched_loop`, `nk_alloc_tid`, sleep mode | calls every other component's callbacks; called by tasks and interrupt handlers | interrupts between any two steps, wrapping time, the full queue, the test-then-sleep window |
| **architecture layer** `src/nkarch_*.c`, `inc/nkarch_*.h` | tick counter | interrupt lock, `nk_irq_unlock_and_wait`, `nk_get_time`, `nk_convert_delay`, `nk_sched_wakeup`, flash read/write/erase | under the scheduler and the flash modules | overflow of the delay conversion, sleeping with a pending interrupt |
| **nkuart** `src/nkuart_*.c` | receive ring buffer, waiting task | `nk_getc`, `nk_set_uart_callback`, `nk_putc`, the receive interrupt | interrupt to scheduler; feeds the command line and YMODEM | interrupt against reader, buffer full, callback registered while data arrives |
| **nkcli, nkreadline** `src/nkcli.c`, `src/nkreadline.c` | line buffer, cursor, history as bytes, escape state, whether the command line is disabled | each key, history up and down, TAB, dispatch of a command, `nk_enable_cli`, `nk_disable_cli` | callback of the UART; a transfer borrows the UART from it | history eviction while a recalled line is edited, a terminal that is never read back, switching off in the middle of a line |
| **nkymodem** `src/nkymodem.c` | receiver: framing mode, sequence numbers, purge and cancel state, timeout task; sender: block number, end-of-file state | packet, timeout and character handlers | UART callback and scheduler timeout share the same state | lost, repeated and damaged packets and answers, late answers, wrapping sequence numbers |
| **nkchecked, nkdbase** `src/nkchecked.c`, `src/nkdbase.c` | two flash banks, revision number | save, load | serializer over buffered output over flash | power loss at any step, failed writes, failed reads, wrapping revision |
| **nkinfile, nkoutfile** `src/nkinfile.c`, `src/nkoutfile.c` | block buffer, position | peek, next, seek, put, write, flush; files in blocks, without a buffer, in memory | under the database, the scanner and the printers; over `nkchecked` and `nkdirect` | block boundaries, write granularity, accesses that fail in the middle of a call |
| **SPI flash** `src/nkspiflash.c` | the chip: contents, busy, write enable latch | read, write by pages, erase by units, busy wait | under the database | status polling, page boundaries, transfers that fail, waits that end |
| **I2C** `src/nki2c_bitbang.c`, `src/nki2c_eeprom.c`, `src/nki2c.c` | the two wires; the EEPROM: address, page, write cycle | byte transfer, page write, acknowledge polling, register calls | under EEPROM databases and the drivers | clock stretching, the last bit of a read, busy EEPROM |
| **typed text** `src/nkserialize.c`, `src/nkscan.c` | the schema of the program, the database in RAM | print, pretty print, load, skip | text of `nkdbase` over buffered files | text of one version of a program loaded by another, padding, quoting |
| **JSON** `src/nk_pjson.c` | nesting stack of each formatter | begin and end objects and arrays, values | over `nkoutfile` | a stack at its limit, two formatters |
| **clocks** `src/nkdatetime.c`, `src/nkrtc.c`, `src/nkdriver_{pcf8523,ds1307,ds3231,rv8803}.c` | the chip: registers that count, flag of lost power | read and set the time, calendar | I2C; the command `rtc` | the chip counts while it is read, power loss, ends of months and years |
| **character displays** `src/nkdriver_hd44780.c`, `src/nkdriver_lcd8574.c`, `src/nkdriver_aip31068.c` | the display: contents, address, half of a byte; backlight | initialise, clear, home, write, blank | I2C | a reset of the processor between the halves of a byte |
| **seven-segment displays** `src/nkdriver_tm1637.c`, `src/nkdriver_tm1638.c` | the chip: where it is in a byte, data mode, memory; two or three wires | initialise, display, brightness, scan the keys | GPIO pins | a reset in the middle of a byte, the chip driving the data wire |
| **formatted numbers** `src/nkprintf.c`, `src/nkscan.c` | none; the position of the file that is scanned | print and scan by a format | over `nkoutfile`, `nkinfile` | width, precision, sign and prefix together; a scan that fails in the middle |
| **other drivers, fonts, crypto, CRC, PNG** | register shadows | register reads and writes | over I2C, SPI, GPIO | sequential register traffic |

There is one thread, the main loop of nksched, and interrupt handlers that
preempt it wherever the interrupt lock is not held.  All waiting is done by
returning to the main loop: a component registers a callback with the UART or
submits a function with a delay.  Concurrency is therefore that of interrupts
against one thread, of two work-queue entries (data and timeout) that share a
component's state, of two machines on a serial line, and of a power failure
against a sequence of flash operations.

What makes each component correct:

* **nksched**: a submitted function runs once, with the function and data of
  its last submission, not before its delay is over and not after one that is
  due later; a cancelled one does not run; no wakeup is lost.
* **nkuart**: what the interrupt accepts is read once, in order; the reader is
  woken whenever there is something to read.
* **nkymodem**: the receiver's file is the sender's file, written front to back
  and closed when complete; a transfer ends at both ends.
* **nkdbase**: a save is atomic and durable across power failures.
* **nkinfile, nkoutfile**: a buffered file behaves like an unbuffered one, and
  a failure is reported and loses or moves nothing else.
* **nkreadline, nkcli**: the line and the history are what the user typed, the
  terminal shows the line, and the command line always answers.
* **flash, EEPROM**: a call that reports success has stored everything it was
  given, in its place, and every call returns.
* **typed text**: what one version of a program saved is loaded by another.
* **JSON**: what is printed is JSON, in whatever order the calls come.
* **clocks**: a time that is returned as good is the time.
* **displays**: the screen shows what was written to it, and an initialisation
  brings the display back from any state.
* **formatted numbers**: what was printed fills its field and is read again as
  the same number; a scan that fails leaves the file where it was.

## 2. The modules

| module | what it is |
|---|---|
| `NkSched` | the work queue, its callers and the interrupts |
| `NkTimers` | abstract: what the scheduler promises, a set of timers |
| `NkUart` | the receive interrupt, `nk_getc`, the callback, the wakeup |
| `NkReadline` | the line editor and the command line, key by key |
| `NkEditor` | abstract: a line with a cursor and a history that is a sequence of lines |
| `NkConsole`, `MCNkConsole` | the two ends of the console, `NkUart` and `NkReadline` |
| `NkDbase`, `MCNkDbase` | saving and loading a database in two banks of flash |
| `NkStore` | abstract: one database that survives resets |
| `NkYline` | the packets, the file and the lossy serial line |
| `NkYsend`, `NkYrecv` | the two ends of a transfer |
| `NkYmodem` | both ends on one line |
| `NkTransfer` | abstract: a file that is written front to back and closed |
| `NkSpiFlash` | the SPI flash driver and its chip |
| `NkI2cBus`, `NkEeprom` | the bit-bang bus pin by pin; the EEPROM and register calls on it |
| `NkMemory` | abstract: a memory without pages and busy times, for both |
| `NkMemories` | the two memories of a board |
| `NkFile` | files in blocks, without a buffer and in memory, on a device that may fail |
| `NkTape` | abstract: a file without blocks and buffers |
| `NkSerialize`, `MCNkSerialize` | typed text from one version of a program to another; the versions |
| `NkJson` | the JSON printer |
| `NkDateTime`, `NkRtc` | the calendar; a clock on the I2C bus and its driver |
| `NkLcd` | the character displays, write by write |
| `NkSegments` | seven-segment displays with keys, pin by pin |
| `NkPrintf` | formatted numbers, printed and scanned |
| `NkScreen` | abstract: the text on a screen |
| `NkData`, `MCNkData` | the parts that keep and convert data, side by side |
| `NkLemmas` | facts about sequences, naturals and remainders used by the proofs |
| `NkSched_proofs` | the theorems about the queue, and that `NkSched` implements `NkTimers` |
| `NkConsole_proofs` | the theorems about the console receiver, the line editor and the command line, and that `NkReadline` implements `NkEditor` |
| `NkDbase_proofs` | the theorems about the database, and that `NkDbase` implements `NkStore` |
| `NkYmodem_proofs` | the theorems about transfers, and that `NkYmodem` implements `NkTransfer` |
| `NkMemories_proofs` | the theorems about the SPI flash and the EEPROM, and that `NkSpiFlash` and `NkEeprom` implement `NkMemory` |
| `NkLcd_proofs` | the theorems about the displays, and that `NkLcd` implements `NkScreen` |
| `NkData_proofs` | the theorems about the JSON printer, and that `NkFile` implements `NkTape` |

Each abstract module is instantiated in the detailed one with a refinement
mapping, and its specification is a property of a run: `ImplementsTimers`,
`ImplementsStore`, `ImplementsTransfer`, `ImplementsEditor`, `ImplementsTape`,
`ImplementsScreen`, and `ImplementsFlash` and `ImplementsEeprom`, both of
`NkMemory`.

`NkConsole`, `NkMemories` and `NkData` put components side by side that share
no state: a variable says which of them a behaviour is about, so that one run
answers for all of them at the cost of their sum.

Definitions whose comment begins with `mutant:` are deliberate errors.  Each
stands before the definition that it changes; nothing uses them, and putting
one in the place of the original must make the property named for it in
`PROJECT.json` fail.  They show that the properties can fail.

## 3. Correspondence to the code

**NkSched** (`src/nksched.c`, `inc/nkarch_stm32.h`, `src/nkarch_stm32.c`).
`queue` is the linked list from `queue->next` on, `free` the length of the free
list.  An interrupt handler can run between any two regions that hold
`sched_lock` but not within one, so each locked region is one action: a call of
the interface (`nk_sched`, `nk_resched`, `nk_unsched`, `nk_check`), the test of
the queue by the main loop up to the release of the lock (`Dispatch`), and the
test that ends in the decision to sleep (`Idle`).  `pc` tells where the thread
is: in a function (`run`), in the loop (`loop`), or asleep with the lock held
(`wait`).  `nk_irq_unlock_and_wait` unmasks the interrupts only while it waits:
`WakeUp` needs a raised interrupt and leads back to the loop, where the handler
may run first.  Time is `now`, a counter modulo `TimeMod`; comparisons are the
sign of the wrapped difference (`Signed`), and `nk_convert_delay` multiplies
modulo `TimeMod` before it divides.  The ghost fields `left` and `ms` of an
item count true ticks and milliseconds; no guard reads them except that
`TickHandler` does not let an item become overdue by more than `MaxLag`, the
assumption that functions return within half of the time range.  The ghost
`order` is the order of submission, for the refinement.

**NkUart** (`src/nkuart_stm32.c`).  The interrupt handler is one action:
nothing preempts it.  The reader's side is split at every access to shared
memory, because `nk_getc` takes no lock: the test, the load of the slot and the
store of `rx_buf_rd` are separate, and neither variable is `volatile`, so the
compiler chooses the order of the last two: `Orders`.  `nk_set_uart_callback`
holds the lock and is one action.  The work queue is the part of `NkSched` that
matters here: functions that are due, one entry per task id, in FIFO order, at
most `NItems`.

**NkDbase** (`src/nkdbase.c`, `src/nkchecked.c`, and `src/nkoutfile.c` for the
size of the writes).  Each flash operation is one action, with three outcomes:
it works, it fails (having done any part of it), or power fails during it
(`Reset`).  A cell of `mem` is what one `flash_write` of a save writes.  The
save goes on after a failed write, as the code does, and the header is written
whatever happened.  The revision is one character that wraps; `NotOlder` is the
sign of the difference.  A load reads only, so it is one action, with at most
one read operation that fails.  `Edit` stands for the program changing its
database in RAM.  The parser, the CRC and the serialized form are abstract: a
file parses if it is exactly what was written.

**NkYsend, NkYrecv** (`src/nkymodem.c`).  The sender's callback answers one
character, the receiver's callback collects a packet; either is one action per
message because nothing preempts a work-queue function.  The receiver's timeout
is another work-queue entry and may run whenever it is due.  The cases of
`ymodem_rcv` are one action each, named for what arrives.  The parts of the
file are numbered, so that order, repetition and padding are visible.
`NkYline` loses or damages messages; a packet without its first character is
read as the control characters in its data.

**NkReadline** (`src/nkreadline.c`, `src/nkcli.c`).  `prompt_task` handles one
key and nothing preempts it: one action per key.  `tty_buf` is the line up to
`tty_len`, `histbuf` the history as the code keeps it, lines ended by NUL in a
byte buffer, with `hist_idx` pointing into it; `hist_del`, `hist_insert` and
the moves up and down work on the bytes.  `screen` is the row of a terminal
that obeys the characters the code sends.  The TAB completion is a loop, one
step for each character it adds (`phase = "tab"`).  A command that is running,
a disabled command line and the tasks that switch it off and on are the other
phases. `NkEditor` knows a line and a sequence of lines only.

**NkConsole.**  The receiver and the editor meet in one call: the editor takes
a character, and registers itself for the next.  What `NkUart` promises (each
character once, in order, and a reader that is woken) is all `NkReadline`
assumes, and any key may come at any time there.

**NkSpiFlash** (`src/nkspiflash.c`).  One action per transfer on the bus; a
transfer may fail before or after the chip has seen it, and the driver keeps
the status and sends the command all the same, as the code does.  The chip has
a write enable latch, ignores everything but the status command while it is
busy, programs by clearing bits, and wraps the address within a page.
Nothing is assumed of the callers: any call may begin when the last one has
returned, also after an erase, which is not waited for, and after a call that
failed and left the chip busy.  `nk_spiflash_busy_wait` is a call like the
others.  `known` is what the callers can tell of the chip from what was returned
to them: `"ready"` when the last write or busy wait returned 0, `"erased"` when
an erase did since, `"failed"` when a write or an erase failed since.  A call is
sure (`FlashSure`) when it begins with `known = "ready"` and takes one erase
command at most.  `ImplementsFlash` says that a call that is sure does what it
reports; any other changes no byte that it was not asked to change, and changes
those to what was asked or leaves them, whatever it returns (`Unsure` of
`NkMemory`).  That is as much as the code gives: a write that begins while the
chip is busy has its enable and its program command ignored, polls until the old
cycle ends, and returns 0 with nothing stored.

**NkI2cBus, NkEeprom** (`src/nki2c_bitbang.c`, `src/nki2c_eeprom.c`,
`src/nki2c.c`).  A transaction is the sequence of pin operations that the code
carries out for it, one operation per step.  The EEPROM sees the edges of the
two wires and nothing else: start, stop, its address, bits, acknowledgements;
it is busy after a page write and may hold SCL.  `late` records that the master
has gone on while SCL was held (`sda_read` gives up after 100 looks, `i2c_stop`
does not look), after which the bus promises nothing.

**NkSerialize** (`src/nkserialize.c`, `src/nkscan.c`).  Save prints the
database under the schema of the running program with either printer and pads
it as `nk_fflush` does; another version of the program starts with its defaults
and loads the text.  The loader and `skip_value` consume tokens from left to
right as the code consumes characters, including where it stops in the middle;
integers are cast to their width, floating point numbers are counted in tenths.

**NkJson** (`src/nk_pjson.c`).  One action per call, on `nk_std_json` or on a
formatter of the program, in any order, also with a full stack.  The file is
the state of a JSON reader that has read what was printed.

**NkDateTime, NkRtc** (`src/nkdatetime.c`, `src/nkrtc.c`,
`src/nkdriver_pcf8523.c`, `src/nkdriver_ds1307.c`, `src/nkdriver_ds3231.c`,
`src/nkdriver_rv8803.c`).  The calendar is a set of functions.  The chip is
external: registers in BCD that count by its own calendar, and a flag that says
the power was lost.  `set_datetime` is one write of all registers of which the
first ones may have arrived when the bus fails; `get_datetime` is a read, for
`rv8803` one during which the chip may count (`ReadAcrossTick`) and which is
repeated at second 59.  The ghost `now` is the true time.

**NkLcd** (`src/nkdriver_hd44780.c`, `src/nkdriver_lcd8574.c`,
`src/nkdriver_aip31068.c`).  A call becomes the list of its writes on the bus
(`todo`), one write per step; a write may fail, with or without effect, and the
processor may be reset between any two.  The display is external, as
`inc/nkdriver_hd44780.h` describes its commands: it latches a half byte when
the enable line falls, and in 4-bit mode takes two of them for a byte.

**NkSegments** (`src/nkdriver_tm1637.c`, `src/nkdriver_tm1638.c`).  A call
becomes the list of its operations on the pins (`pinops`), one per step, and the
processor may be reset between any two, which lets the wires go in any order.
The chip is external and sees the edges of the wires only: on the TM1637 data
that moves while the clock is high begins or ends a transfer, on the TM1638 the
strobe does.  The chip pulls the data wire to acknowledge and to send keys.

**NkPrintf** (`src/nkprintf.c`, `src/nkscan.c`).  `Emits` is the end of
`_nk_vprintf` where a number meets its field; `Matches` is one turn of the loop
of `__nk_vscan`.  A number is the bits of its unsigned value, in `LongBits`
bits; what is scanned is stored in that many or, as `%hd` does, in fewer.

**NkFile** (`src/nkoutfile.c`, `src/nkinfile.c`, `inc/nkoutfile.h`,
`inc/nkinfile.h`, and `nk_checked_read`, `nk_checked_write`, `nk_direct_read`,
`nk_direct_write`).  The records `g` and `f` are `nkoutfile_t` and
`nkinfile_t`; the functions of the interface are operators on them and the
actions of the module are the calls.  As in `nkdbase.c`, reader and writer
share one buffer, whose stale contents stay there when the file is opened.
`fault` says which of the accesses a call makes to the device fails; the
functions pass it on until it is met.  `CarefulPeek` restricts `nk_fpeek_abs`
to where it is right.

## 4. The runs and their bounds

| run | configuration | shows |
|---|---|---|
| `sched` | `NkSched.cfg` | no item lost or duplicated, one per task id, queue in due-time order, wrapped times stand for true ones, nothing early, implements `NkTimers`, no lost wakeup, no starvation |
| `console` | `NkConsole.cfg` | receiver: in order, never lost, always woken; editor: implements `NkEditor`, the terminal shows the line, the command line always answers, completion ends |
| `dbase_flash` | `NkDbase.cfg` | saves are atomic and durable |
| `ymodem_in_time` | `NkYmodemInTime.cfg` | in order, closed when complete, comes over unless the user cancels or the file cannot be opened |
| `ymodem_late` | `NkYmodemLate.cfg` | in order and paired open/close when answers are late |
| `ymodem_truncated` | `NkYmodemTruncated.cfg` | *violation*: closed without its last block |
| `memories` | `NkMemories.cfg` | a flash and an EEPROM behind their drivers implement `NkMemory`; every call returns; the bus is free between calls |
| `spiflash_erase` | `NkSpiFlashErase.cfg` | *violation*: an erase is not waited for, and the write that follows is lost although nothing has failed |
| `data` | `NkData.cfg` | files implement `NkTape`, displays `NkScreen`; a text is loaded by another version; what is printed is JSON; the time is true; seven segments show the picture; numbers are read back |
| `file_peek_abs` | `NkFilePeekAbs.cfg` | *violation*: an absolute peek counts from the position |
| `serialize_extra` | `NkSerializeExtra.cfg` | *violation*: a member that the schema lacks stops the load if it is a string |
| `dbase_padded` | `NkDbasePadded.cfg` | *violation*: a padded database is loaded and the load reports failure |

Why the bounds are large enough:

* *Scheduler.* Time has 8 values and `Scale` 3, so that the conversion has a
  proper quotient, times wrap in the middle of every behaviour, and due times
  lie on both sides of the wrap.  Three task ids compete for two items, so the
  queue is full and a submission is dropped.  Delays are 0 and 1, so that a
  later submission overtakes an earlier one; an item may be overdue by one
  tick.  There is one work value; that a resubmission replaces the old work is
  seen through its delay and place.  Both sleep modes occur, and functions that
  resubmit themselves for ever.
* *Console.* The receive buffer holds two characters, its counters wrap after
  four, and six characters arrive, so that both counters wrap, the buffer
  overflows, and the reader meets each fill level at each step.  Another
  function competes for the two items of the work queue.  A line has up to
  three characters, a letter or a blank, and the history five bytes: one long
  or two short lines, so that to insert one evicts one, or two, or none.  The
  names of the commands begin alike, and one is hidden.
* *Database.* A bank has four cells in two erase blocks.  One value takes one
  piece, the other fills the bank in two flushes, so that files of both lengths
  replace each other.  Revisions are four, which is where the sign of a
  difference can first go wrong.  Two operations fail; power may fail any
  number of times, at every operation, and leaves any part of a block erased or
  spoiled.
* *YMODEM.* The file has four blocks (in time) or five (late), the last one
  shorter, so that the sequence number (four values) wraps in time; eight
  values when answers are late, more than the `MaxFlight` messages that can be
  on the line.  Three messages are lost or damaged in time, two when answers
  are late, which is enough to lose a message and its repetition.  The user
  cancels with up to two Ctrl-X.  Both senders, XMODEM and YMODEM, are initial
  states.
* *Memories.* The flash has three pages of two bytes, units of two and four
  bytes and calls of up to three, so that calls lie in one page, in two, and
  begin in the middle of one; erases are of up to the whole flash; one transfer
  fails, and the busy time is up to the time-out and longer.  Calls follow each
  other without a wait, after an erase and after a failure too.  The EEPROM has bytes of two bits and two pages; a
  call is up to two bytes long and crosses a page or not, and the second call
  begins while the first is being written.  SCL is held once, at any place, for
  less or more than the master waits.
* *Files.* A block has four characters and the granularity is two, so that a
  flush pads and a padded flush can fill a block.  Pieces of two and five
  characters meet every fill level and cross a block; files have up to six
  characters, before padding, and end before, at and behind the end of a block.
  Any access to the device may fail, one for each file.
* *Typed text.* Seven versions of a program, each loaded by each: members that
  are added, dropped, reordered and changed in type and width, in structures,
  arrays and tables, nested once.  Memories hold an integer of each sign, two
  floating point numbers of which one needs its decimal point, and strings that
  are empty, need an escape, or end in one.  A text is padded to a granularity
  of two in `data`, of eight in `dbase_padded`.
* *JSON.* Four levels; the calls come in any order, so that the stack of each
  formatter is filled, overfilled and emptied.
* *Clocks.* Four chips; days around the ends of February in a leap year, in
  another and in 2000, and around an end of year; seconds around the ends of
  minutes and days, where a carry goes through each register.  A call takes up
  to three seconds.
* *Seven segments.* Both chips, two digits that are wired the other way round,
  two pictures with decimal points and extra segments, and two sets of keys; one reset, at any operation on a pin,
  after which the wires rise in three orders.
* *Numbers.* Eight bits, so that `Numbers` has zero, the largest unsigned
  number (which is -1 if it is signed) and the most negative one, which is its own negative.  Every
  combination of flags, widths and precisions that are missing, shorter and
  longer than the number; one number alone, or two side by side; formats that
  fit, that stop early, and that fail before and after a number.
* *Displays.* Two cells and a text of two characters, one of which has the bit
  pattern of a command that leaves 4-bit mode; one failure or reset, at any
  write.

`CHECK_DEADLOCK FALSE` is set for the transfers only: they end when both ends
have finished.

## 5. Fairness

* *Scheduler.* Weak fairness of the main loop and of the return of functions:
  there is no preemption and no function may block (`doc/nksched.md`).  Weak
  fairness of raising the tick.  Strong fairness of taking the tick: the
  interrupts are unmasked again and again, not for ever, and the processor
  takes a pending interrupt as soon as they are.  Nothing is assumed of other
  interrupts or of what functions submit, and `EventuallyCalled` exempts a task
  id that is resubmitted for ever.
* *Console.* Weak fairness of the reader, of the main loop and of the
  completion loop, for the same reason: none of them waits for anything but the
  processor. The peripheral, the user and the other functions owe nothing.
* *Memories.* Weak fairness of the driver: the processor goes on.  The chips
  owe nothing: they may be busy, refuse to answer or hold SCL for ever, and
  `CallsReturn` holds because every loop that waits is bounded.
* *YMODEM.* Weak fairness of each end reading what has come and of the timeout,
  which the scheduler guarantees (`EventuallyCalled`).  The line owes nothing;
  its faults are bounded.

Database, files, typed text, JSON, clocks, displays and numbers have safety
properties only: each of their calls is a sequence of steps that nothing delays.

## 6. The proofs

`NkLemmas` has what the community modules do not prove: what `InsertAt` and
`RemoveAt` do to a sequence, remainders (uniqueness, distance, nested moduli),
and induction over the naturals, see below.

**NkSched_proofs**, for every capacity, time width, set of delays, task ids and
work.  Assumption `ConstantsOK`: time is a counter modulo an even number, and
the longest converted delay plus the longest lag is less than half of it.  No
one of the invariants is inductive: that the queue stays sorted needs each
item's wrapped time to stand for its true due time (otherwise `Signed` compares
something else), and that needs the item to be within half of the time range,
which only the sorted queue and the bounded lag preserve as time passes; that
`deque` leaves no second item of a task id needs uniqueness.  `IInv` is the
conjunction of `TypeOK`, `ItemsConserved`, `OneItemPerTid`, `Sorted` and
`TimesAgree`.  `SignedIsDistance` is the arithmetic core: the signed wrapped
difference of two times that stand for distances in `-MaxLag .. MaxTicks` is
their true difference.  `RemoveGood` and `EnqueGood` say that taking out and
putting in preserve the queue, `NextInv` has one step per action.  Theorems:
`Invariance`, `TypeCorrect`, `NoItemLost`, `UniqueTids`, `QueueSorted`,
`TimesStandForDueTimes`, and `CalledAfterDelay` under `DelaysInRange` (no delay
overflows in the conversion).

The second half of the module proves `ImplementsTimerService`, the refinement,
under `DelaysInRange`, for all the work there may be (the run has one work value).
The abstract timers are those of `View(queue, order)`: in the order of their
submission, each with the work and the milliseconds left of the one item that
has its task id.  What makes it a refinement is the invariant `Kept`: queue and
order have the same task ids, and items that are due at the same time are in
the queue in the order of their submission.  `enque` preserves it because it
goes behind every item that is due at the same time (`SubmitView`), taking out
and the passing of time because they change neither order (`WithdrawView`,
`TickMaps`).  The head of the sorted queue is then the timer that expired
first and, among those, the one submitted first (`DispatchMaps`).  `KInv` adds
that no function is being called while the main loop looks for one; `NextMaps`
has one step per action.

**NkConsole_proofs**, first half: the receiver, for every buffer size, every counter width that the size
divides, and any number of characters.  Assumption `UartConstantsOK`.
`RingInv` is the inductive invariant of the buffer: the two counters are,
modulo `CountMod`, the number of characters taken and accepted; the slots
between them hold what was accepted and not taken; and between its accesses
`nk_getc` has, or is about to load, the next character.  It needs `LoadsFirst`:
with the other order of accesses `LoadRing` fails, because the interrupt may
fill the slot again before it is loaded. `PutRing` is the step that matters: a
character that finds space overwrites nothing unread, because numbers closer
than the size have different slots (`ModDistinct`).  Theorems: `TypeCorrect`
(for either order), `RingCorrect`, `ReadsInOrder`.  `NoLostWakeup` proves
`ReaderReachable` under `EnoughItems`, an item of the work queue for each
function that uses it; its invariant adds that no function is queued twice,
from which the pigeonhole principle gives a free item whenever the reader is
not queued (`ItemForReader`).

Second half: the line editor and the command line, for every alphabet, size of the line buffer and of the
history (which has room for a line), and all commands.  Assumption:
`ReadlineConstantsOK`, whose part about `Nul`, `BS`, `NL` and `Prompt` says that
they are not characters of a line.  `ScreenShowsLine` is not inductive: it says
nothing of the phases in which a command completes or runs, nor of the length of
the row, on which it depends whether a character replaces or lengthens.  `LineInv`
is the conjunction of `FlagsOK` and `BufferOK` (types), `HistoryInv` (the bytes
of the history are lines, each shorter than the line buffer and ended by a Nul,
and `hist_idx` is where one begins; without it a retrieved line might not fit),
`UnchangedIsRetrieved`, and `ScreenOK` (the terminal shows the line and the cursor
while it is edited or completed, and has an empty row otherwise; `Shows`, `Dark`).
What a string does to the terminal is computed by a recursive function over its
characters; `PutsChars`, `PutsBackspaces` and `PutsTriples` say for every length
what it is, by induction: `RunIsPuts` shows that any function that satisfies the
recursion ends where `nk_puts` does, so that it is enough to exhibit one.  From
them follow, one by one, what an insertion, a deletion, a movement and the
erasing of the line leave on the terminal (`ShowsInsert`, `ShowsShorter`,
`ShowsErased`, ...).  `HistInsOK` and `HistDelOK` say that making room, putting in
and taking out leave a history of lines.  `LineInvStep` has one step per group of
keys.  For the refinement the bytes have to be taken for lines: `Holds(h, ls, f)`
says that the history *h* is the lines *ls*, the first *k* of which take *f[k]*
bytes, and `Placed` that `hist_idx` is where line *p* begins.  `InsertHolds`,
`CutHolds` and `DeleteHolds` say that a line is put in, evicted and taken out
with its bytes, `StoredPlaced` that `hist_ins` evicts exactly the lines that
`NkEditor` lets go, and `PlacedLines` that the lines cut from the bytes are then
*ls*.  `EditInv` is `LineInv`, that there are such *ls* and *p*, and `TabInv`: a
listing of commands moves the cursor to the end of the line, so it must not be
followed by a completed character in the same TAB unless the cursor was there;
the count of TABs sees to that.  `EditStep` has a lemma for each kind of key.
Theorems: `LineInvariant`, `LineTypeCorrect`, `TerminalShowsLine`,
`RetrievedIsUnchanged`, `AlwaysListens` and `EditorImplemented`.

**NkDbase_proofs**, for every number of revisions, size of banks, blocks,
buffer and files, any number of operations that fail and any number of power
failures.  Assumptions: `ConstantsOK`, `CellsOK` (the states of a cell are told
apart), and two hypotheses of the theorems.  `FilesFit`: a file fits into its
bank, which is the caller's duty, as the code does not check it.
`NoReadFaults`: reading does not fail; with read faults both versions may be
lost, see below.  `OlderVersionPreserved` is not inductive, because it does not
say which bank the next save spares.  `IInv` adds, in `BanksOK`, that a file in
a bank has a revision of the bank's parity and that two good files are one
revision apart, which is all that lets the wrapping comparison find the newer
one (`NotOlderProps`); in `CallerOK`, that the caller's `*rev` is that of the
file in the bank that the next save spares; and in `SavingOK`, that a save in
progress has no header, its pieces so far unless something failed, and erased
memory before it.  A block that begins in a bank ends in it (`BlockInBank`), so
no erase reaches the other bank; `OneBankChanges` says that whatever is erased
or spoiled in one bank, a load finds what it found before or what is in the
other, and `HeaderWritten` that the last write switches to the new version at
once.  `EveryStep` has one step per action, each with the step of `NkStore`
that it takes.  Theorems: `DatabaseInvariant`, `TypeCorrect`,
`OlderVersionKept` and `DatabaseImplementsStore`.

**NkYmodem_proofs**, for every size of file and block, every number of sequence
numbers from two on, any number of lost and damaged messages and of typed
cancels.  `TypeCorrect` and `AlwaysPaired` hold without further hypotheses, also
with late answers and data that reads as EOT; the invariant behind the second is
`FilePaired`, that `ymodem_file_opened` says whether there is a file to close.
The others are under `InTime`: answers come within the timeout, and no data reads
as an EOT.  (Without it the refinement is false, see `ymodem_truncated`.)  Then
the line holds at most one packet, EOT or answer (`OneInFlight`), because only a
silent line lets the receiver's timeout ask again; so what arrives is what the
sender sends now (`Fresh`), and an ACK that arrives is for the packet that was
sent last (`AcksKnown`).  Therefore the receiver has all blocks that were sent,
but perhaps the last one (`InStep`): a packet has the sequence number that the
receiver waits for exactly if it is one behind, and the number of the last one
otherwise (`DataKnows`), which is why two sequence numbers would do, and it is
never out of step.  When an EOT arrives nothing is missing (`EotKnows`).  These,
with what is known of the file in its four states (`FileKnown`), are the
inductive invariant `Knows`; `NextKnows` has one step per action, each with the
step of `NkTransfer` that it takes.  `PrefixExtends` and `BlockWritten` are the
facts about the file: what is written of block *n* behind the first *n* blocks
makes the first *n + 1* of them.  Theorems: `TypeCorrect`, `AlwaysPaired`,
`KnowsAlways`, `EndsAgree`, `TransferImplemented` and `WrittenInOrder`.  The last
states `ReceivedInOrder` in time only; with late answers it depends on the number
of messages under way (`MaxFlight`) and is model-checked.

**NkMemories_proofs**, first half: the SPI flash, for every size of flash, page and byte, every set of erase
units that are whole pages, every `busy_timeout` and length of call, and any
number of transfers that fail, before or after the chip has seen them.
Assumption: `SpiFlashConstantsOK`; there is none about the callers.  The types (with
`CallOK`: the call fits the flash, and the driver is within it) are inductive but
do not say whether the chip listens.  `MemoryInv` adds, for calls that are sure,
`ChipListens` (when the next transfer is a command or a read the chip is not busy,
and its latch is set if the driver has seen no failure; between calls, that the
chip is not busy if `known` says so) and `DoneSoFar` (an erase is one command; the
bytes of a write up to `fat` are programmed, and those of the page in progress as
well; those of a read are what is stored).  A call that is sure takes steps of
`Advance`, `Succeed` and `Fail` (`SureStep`); of any other, each command that the
chip takes or ignores stays within what was asked (`BurnedWithin`,
`ClearedWithin`), which is a step of `Unsure` (`UnsureStep`).  `PageAddresses` is the fact about addresses: what stays in a
page does not wrap, so that exactly the addresses meant are programmed, each with
its byte.  As programming the same byte twice changes nothing, a page more is the
contents after that much of the whole call (`BurnedIsDone`), and a write that
returns leaves all of it (`DoneAlready`).  `SureStep` has one step per action,
each with the step of `NkMemory` that it takes.  Theorems: `TypeCorrect`,
`MemoryInvariant`, `FlashImplemented` and, for both memories of a board,
`BoardImplementsFlash`.

Second half: the EEPROM and its bus, for every width of a byte from two bits on,
every size of EEPROM and page, every device address, number of looks, timeout,
length of call, and any number of times that SCL is held.  Assumptions:
`I2cConstantsOK` and `EepromConstantsOK`; there is no other hypothesis, as the
refinement promises nothing once the bus is late.  `BusFree` looks at the two wires
between calls and says nothing of the edges by which the EEPROM gets there, so the
invariant has to know where the master and the EEPROM are at every edge.  It does
by taking a transfer for a record *t*: the bytes that are sent, the number of bytes
that are received, how it ends, and the contents and the address of the EEPROM when
it began.  `IsTransaction` says what stands at each place of the sequence of pin
operations of such a transfer (`WriteIs`, `ReadIs`; what `Flat` makes of sequences
of equal length is `FlatIs`), and `BusAt(t)` is a disjunction over its places: before
the start, at SDA or the clock of each bit of each byte in either direction, or at
one of the operations of the end.  Each says what is on the wires, what was read so
far, and, unless the bus is late, what the EEPROM has counted, taken or put on SDA
(`OutLow`, `OutHigh`, `InLow`, `InHigh`).  The values of SCL are those before and
after an edge that may be delayed because the EEPROM holds SCL, which is why a place
of the clock has two.  `BusStep` says that every step of the master, the release of
SCL and the end of a write cycle lead from a place to the same or the next, and that
the contents change with a stop only, from those of the beginning to those with the
page that was sent (`Over`).  Bits are bytes: `HighProps` and `ValueIs` say that the
bits that the master sends and those that it collects are the byte, with `Pow2` for
the weights and `DivUnique` for the quotients.  A page that is sent does not wrap, as
`page_len` stops at its end (`PageLen`).  `EepromInv` adds that the driver is at a
transfer of its call (`Serves`), that what it counts as written is stored and what it
has read is the contents (`KeptBytes`), and that in between two calls the bus is
`Quiet`.  `EveryCall`, `EveryContinue`, `WithinTransfer` and `BetweenCalls` are its
steps, each with the step of `NkMemory` that it takes.  Theorems: `EepromInvariant`,
`EepromBusFree`, `EepromImplemented` and, for a board, `BoardImplementsEeprom` and
`BoardTypeCorrect`.

**NkLcd_proofs**, for both drivers, every number of cells up to
the 128 that the seven address bits of a command reach, every set of texts, and
every number of failed writes and resets.  Assumption: `LcdConstantsOK`.
`LcdTypes` is the types, with what only holds of one driver, and is inductive
together with `LeftOf`: `todo` is an end of the sequence of writes that the call
began with, so that its first write is known from its length (`NextIs`).  This is
so whatever fails, and gives `LcdTypeCorrect`.  The other theorems have the
hypothesis `CarefulHome`, without which the refinement is false, see
`nk_hd44780_home`.  Not every state of the display is good: one that the processor
left between two halves of a byte takes everything for something else.  `LcdInv`
therefore adds `GoodAt`, for a call of a driver that is trusted and for an
initialisation in which nothing has failed: by the number of writes that are left,
which mode the display is in, which half it has latched and what the pins are
(`AtWrite`, and `AtRest` between two bytes).  An initialisation begins with any
display; `AtPulse` says what the four pulses have made of it after each edge.
That is the reason for three of them: after the second the display is in 8-bit
mode or has latched a 3, after the third it is in 8-bit mode.  The refinement
mapping takes the call of the screen to be what is left of it (`PendingOf`): a
character is on the screen with the last of its writes, of which the expander has
four, and every other write is a stutter.  A write that fails, or a reset, ends the trust, and the screen then
promises nothing until the next initialisation.  Theorems: `LcdTypeCorrect`,
`LcdInvariant` and `ScreenImplemented`.

**NkData_proofs**, first half: the JSON printer, for every size of the stack, two
or more.  Assumption: `JsonConstantsOK`.  `WellFormed` is not inductive, because it does not say when
the next item needs a comma.  `Sound` adds to it `FirstIsItem`: after a call the
flag `first` is set exactly if an item came last.  Inside a call that does not
hold, so each lemma says what a part of a call makes of a formatter and its file:
`StartSound` that the outermost object is open, `PrefixReady` that the separator
that is due has been printed, `ReadyFits` that the reader then expects what the
printer takes the level to be, `LevelOpened` and `LevelClosed` that the stack and
the reader's open levels change alike.  `EndsSound` goes by induction over the
number of levels that `nk_fpjson_popto` ends.  `PrintsSound` says that a call
touches one formatter only, which at a full stack may be another than the
caller's.  Theorems: `JsonInvariant`, `JsonTypeCorrect` and `AlwaysWellFormed`.

Second half: the buffered files, for every size of the buffer and granularity of
the device (one divides the other), every size of file, set of lengths that are
written at once, and number of accesses that fail.  Assumption:
`FileConstantsOK`.  What has been written is not all on the device, and what is
read is not all in the buffer, so the invariant `FileInv` says what is where.  Of
a file that is written (`WriterOK`): a buffered device has whole units of the
granularity, so that the next block begins where one may; the file (`Held`) is
what is on the device and then what is in the buffer.  Of one that is read
(`ReaderOK`): the buffer has the characters of the file from `start_offset` on,
and its end is the end of the file, or nothing could be read.  Without the last
part `nk_feof` would stop at the end of a block.  `nk_fwrite` puts characters until
a block begins, then whole blocks, then characters again, each with a fold, and
any access may be the one that fails: `Reached(o, p, s, n)` says that the file *p*
is the file *o* with *n* more characters of *s*, except for those that one failed
access has spoiled, in which case the file says so; `ReachedTwice` composes two of
these, `FoldSteps` as many as a fold has, and `RoundUpProps` is the arithmetic of
padding.  `CameTo` is the same for reading: a seek is at its position or has
failed on the way, at the end of what it could read; `FastSeek` and `SlowSeek` are
its two ways.  There is a lemma for each call, with the step of `NkTape` that it
takes.  `FileImplemented` has the hypothesis `CarefulPeek`: elsewhere the
refinement is false, see `file_peek_abs`.  Theorems: `FileInvariant`,
`FileTypeCorrect` and `FileImplemented`.

*Induction.*  The library's induction theorems take the property as an operator,
which the provers cannot instantiate.  `NatInductive` takes it as a set and is
proved from `NatLeast`, that a set of naturals has a least member, which in turn
follows from the library's theorem that the strict subset order on finite sets is
well-founded.

Only model-checked: all liveness (`EventuallyCalled`, `AllRead`, `TabEnds`,
`CallsReturn`, `FileComesOver`; the provers do not reason about fairness), the
transfers with late answers, and the parts of `NkData` other than the JSON printer,
the buffered files and the character displays: `ReadsBack` and `ShowsPicture`, the
calendar and the clocks.  No prover knows what `2^Width` is, so that the bus has
`Pow2`, a recursive function of which `Powers` proves what is needed.  The typed text is
defined by recursion over types and texts, which is out of the provers' reach
altogether, and with it the type invariant of `NkData`.

## 7. What the checks showed

Disagreements between the code and what its documentation or comments say, each
with a run whose counterexample shows it:

* A file can be closed, and reported complete, without its last block
  (`src/nkymodem.c:664`, against `doc/nkymodem.md:145`).
* `nk_spiflash_erase` does not wait until the erase is complete
  (`src/nkspiflash.c:94`, against `doc/nkspiflash.md:129`): a write that
  follows is ignored by the chip and reported as done.
* A member of a text that the schema does not have stops the load if it is a
  string (`src/nkserialize.c:569`, against `doc/nkserialize.md:83`).
* A database that was padded to the granularity of the flash is loaded, and the
  load returns -1 (`src/nkdbase.c:151`, against `doc/nkdbase.md:15`, `:37` and
  `:55`).
* `nk_fpeek_abs` counts from the position instead of from the start of the
  buffer (`inc/nkinfile.h:168`, against the comment at `:163`).

Limits that the models make explicit, in the scheduler and the console:

* `nk_sched` returns 1, as for success, when the queue is full and nothing was
  queued (`src/nksched.c:113`); a wakeup of the console is then dropped, the
  reader is no longer registered, and nothing revives it.  `NItems` is the
  number of free items; the static array has one more, which heads the list.
* Delays above 4294967 ms overflow in `nk_convert_delay` on STM32 and run
  early.
* `nk_getc` relies on the order in which the compiler makes two plain accesses
  (`src/nkuart_stm32.c:177`).

In the database and the files:

* A database longer than its bank is written over the next bank and reported as
  saved (`src/nkchecked.c:134`).
* If a read fails during the first load after a reset, the caller's revision
  may be such that the next save goes into the only good bank.  The run has no
  read faults; `MaxReadFaults = 1` loses both versions.
* A seek behind the end of a checked file, which the interface forbids, makes
  `nk_checked_read` compute a negative remainder of the file.
* A file in memory of size 0 is written behind its end (`src/nkoutfile.c`); no
  caller opens one.  When a file in memory overflows, its text starts again at
  the beginning and only the results of the calls say so.
* `nk_fcopy` reports success when a read of the source fails.

In the transfers:

* When the ACK of the last EOT is lost, the sender repeats EOT for ever to a
  receiver that takes it for junk (`src/nkymodem.c:669`).
* With late answers, a sender may be done while the receiver's file is not
  closed: `SenderDoneMeansClosed` is checked for answers in time only.
* A packet that loses its first character may be read as EOT; `ymodem_in_time`
  excludes this with `DataHasEot = FALSE`.
* Sequence numbers order blocks only while fewer answers are late than there
  are sequence numbers.
* `ymodem_late` has five blocks and eight sequence numbers, so that they do not
  wrap there; they do in `ymodem_in_time`.  When they wrap with late answers, and
  a damaged block is read as two EOTs (`DataHasEot`), the file is closed early and
  the next block numbered 1 or 0 is taken for the header of another file:
  `ReceivedInOrder` then fails.  With `DataHasEot = FALSE` it holds with 5 numbers
  and 7 blocks as well (`SeqMod = 5`, `FileSize = 13`).

On the buses:

* `nk_spiflash_erase` of more than one unit sends the next command to a busy
  chip, which ignores it, and returns 0: one unit is erased.
* A write or an erase that fails, or whose poll times out, leaves the chip busy.
  The next `nk_spiflash_write` is ignored by the chip and returns 0; so does the
  next erase.  Only a caller that calls `nk_spiflash_busy_wait` after every erase
  and every failure, until it returns 0, is safe.  Nothing in the driver or its
  documentation says so, and `nkdbase` goes on after a failed write without it.
* `NkDbase` assumes that a flash operation is over when it returns, as
  `doc/nkspiflash.md` promises of erase and write; on `nk_spiflash_erase` as it
  is, the save of a database needs flash functions that wait in between.
* `i2c_stop` and `i2c_stopr` do not look at SCL (`src/nki2c_bitbang.c:104`): a
  slave that stretches the clock there sees no stop.
* `nk_i2c_get2_beshort` drops the status of the read that it makes
  (`src/nki2c.c:214`): a failed read returns what was in the buffer.

In typed text and JSON:

* Of a negative number for a `tFLOAT` only the digits `0` are read
  (`src/nkserialize.c:842` has `c <= '0'`): -2.5 stops the load.  `Loadable`,
  the condition of `Migrates`, excludes it, and also tables that have dropped a
  column other than their first.
* When the stack of a JSON formatter is full, the complaint is printed with
  `nk_std_json`, whichever formatter it is about (`src/nk_pjson.c:164`).

In formatted numbers:

* The digits of a field width of a scan are added up: `%12d` takes three
  characters (`src/nkscan.c:302`).  Widths of one digit, as in
  `doc/nkscan.md`, are right.
* The scanner knows neither a plus sign nor `0x`, which the flags `+` and `#`
  print; `ReadsBack` excludes them.
* `%hd` and `%hhx` print all of an int: the size is read and has no effect
  below int (`src/nkprintf.c:169`).

In the clocks and displays:

* `nk_datetime_sanity` sets the minutes to 0 when the seconds are out of range,
  and leaves the seconds (`src/nkdatetime.c:78`); it lets February 30 and years
  before 2000 pass.  `nk_date_string` prints month and day counted from 0
  (`src/nkdatetime.c:67`).
* The command `rtc` reads behind the end of a table for a month that is none,
  before it refuses the date (`src/nkrtc.c:33`).
* The chips know two digits of the year; their calendar is right until 2099.
* A set of `pcf8523` or `ds1307` that fails after the seconds has cleared the
  flag of lost power: the next read is taken as good.
* `nk_hd44780_home` (`src/nkdriver_hd44780.c:46`) does not wait for the 1.53 ms
  that `inc/nkdriver_hd44780.h` gives for it.  With `CarefulHome = FALSE` the
  display ignores what comes next and `ImplementsScreen` fails.
* `nk_tm1637_init` makes no stop that the chip can see if the processor was
  reset while the TM1637 was sending its keys and holds DIO low, although the
  comment at `src/nkdriver_tm1637.c:71` says that it does.  With
  `CarefulReset = FALSE` a call after such a reset may be lost, and
  `ShowsPicture` fails.
* `nk_tm1638_display` keeps ten digits of a common anode display in an array of
  eight (`src/nkdriver_tm1638.c:203`); the model has common cathode only.
* `nk_parlcd_init` sends the switch to 4-bit mode about 1 us after a command
  that takes 39 us (`src/nkdriver_parlcd.c:68`).

## 8. What is not modelled

`PROJECT.json` lists every component with the reason.  In short:

* the console of the other architectures has the same callback protocol over a
  vendor's driver, and their I2C, clocks and flash are calls of vendors' code;
* floating point (`nkprintf_fp`, `nkstrtod`, `nkdectab`) is beyond TLC;
* the remaining device drivers, fonts, buses and pins are register traffic
  without waiting or thin dispatch;
* cryptography and CRC are fixed bit-level functions;
* PNG decoding and the Xilinx flash driver are other projects' code, and more
  than a quarter of the lines of the repository;
* the schema compiler runs on the host, and the attic is not built.

Within the modelled components: transmission, the text mode and the
busy-waiting `nk_uart_read` of the UART; splitting a line into a command and
its arguments; the debug log of YMODEM, batches of files and 1024-character
packets; the listing command of the scheduler; `nk_fcopy` and `nkstdnull`; the
command lines over flash, EEPROM and I2C; the entry mode of the character
display (a shift bit set by stray halves of a byte may survive an
initialisation); write disable and the status register
of the flash; I2C registers of more than a byte; unions, check functions,
hexadecimal numbers and exponents in typed text; the strings of `nkdatetime`;
cursor, font and line bits of the displays; strings, dumps and floating point in
`nkprintf`, and words and identifiers in `nkscan`.

## 9. The plan

Modules, most important behaviour first:

1. `nk_uart_read` and transmission in `NkUart`, where a busy-waiting transfer
   and the receive interrupt share the port.
2. The console of ZynqMP, whose `nk_getc` takes the lock, as a second choice of
   the steps of `NkUart`.
3. Batches of files and 1024-character packets in `NkYmodem`.

Proofs, in this order:

1. `ReceivedInOrder` in `NkYmodem` with late answers, for every `MaxFlight` below
   `SeqMod`.
2. `ShowsPicture` in `NkSegments`, with places of the wires as in the proof about
   the EEPROM.
