# ch582m temperature and humidity node: TLA+ models and proofs

The firmware under `src/src` runs on a CH582M (one RISC-V core, no RTOS): a main loop, a few
interrupt handlers of one priority, a data flash that has to survive power loss, and a Modbus RTU
slave on RS485. This directory holds TLA+ models of it, TLC configurations that check them on small
instances, and theorems that TLAPS proves for every value of the constants.

    tlc -config FrameBus.cfg MCModbusFrame       model-check one run
    tlapm StorageProofs.tla                      check one module of proofs

## 1. Inventory

### Components

| component (source) | state | operations |
|---|---|---|
| storage (`storage.c`) | data flash: header, pages of items; `st_ctx`: page table, `page_active`, `page_erased`, search context | `st_init`, `st_write_item`, `st_read_item`; below them search, deletion, allocation, realign |
| modbus frames (`modbus.c`) | `mb_slave_ctx` (status, tcnt, request buffer, error flag, the library's response), `mb_timer_ref`, TMR0 | `slave_recv` (from the UART2 interrupt), `TMR0_IRQHandler`, `modbus_frame_check`, `modbus_init`, `modbus_reload`, `modbus_run` |
| modbus registers (`modbus/regs.c`, `modbus/iregs.c`) | lists of register segments with callbacks, the safe-access flag of `modbus.c` | check and access callbacks of the library, one per register |
| coils, discrete inputs | empty tables | as above |
| configuration (`configtool.c`) | `cfg` cache over the storage | `cfg_init`, getters, setters |
| sensor (`sensor.c`) | measuring state machine `i2c_sensor_st`, `invtFlag`, `i2c_time_flag`, the measured values, `sensor_ctx` | `sensor_init`, `App_sensor_run` with `app_sensor_thRead` and `app_sensor_dataDeal`, the register callbacks with `sensor_reload_config`, TMR2 and TMR3 interrupts |
| uart, ring buffer (`uart.c`, `utils/ringbuffer.c`) | per port: receive buffer, callback, registers | `uart_init`, `uart_send`, `uart_read`, the UART interrupts |
| main loop (`Main.c`) | none | init of all parts, then for ever: feed the watchdog, refresh the display, `App_sensor_run`, `uart_read` of UART1 for up to 100 ms |
| time (`worktime.c`) | a 64-bit tick counter | SysTick interrupt, `worktime_get`, `worktime_since` |
| gpio, display, oled, log, crc, md5, uid | little or none | pin set-up, output, pure functions |
| vendored | liblightmodbus, the chip's driver library, start-up code | |

### How they interact

Calls: `Main` calls every component. `App_sensor_run` measures and runs `modbus_run`, which closes the
safe-access window and calls `modbus_frame_check`; this calls the library, which calls back into the
register segments, whose callbacks are in `sensor.c`. One of them, when the operation register is
written, runs `sensor_reload_config` in the middle of the request: it saves what the registers hold
through `configtool` in `storage`, and `modbus_reload` takes the new address and baud rate.
Shared state: `mb_slave_ctx` and `mb_timer_ref` between UART2's handler, TMR0's handler and the main
loop; the ring buffer of UART1 between its handler and `uart_read`; two flags of the sensor between
TMR2, TMR3 and the main loop; the tick counter. None of it is under a lock. The handlers have one
priority and do not nest.

### What is hard, and what makes each component correct

- *Storage.* An MCU can lose power between any two flash operations, also within the write of an
  item or the erase of a page. RAM bookkeeping (`bytes_used`, `item_cnt`, `page_erased`, `page_active`) is updated in a
  dozen places and rebuilt only by a restart; a drift makes a later write land on programmed bytes.
  Updates are out of place, so that for a while an item has two copies. Correct means: a call
  touches no other key, a write replaces atomically, nothing but erased cells is programmed, every
  loop ends, and to its callers it is a map.
- *Modbus frames.* The end of a frame is a silence, measured by an interrupt that races with the
  next byte and with the main loop handing the buffer back in four separate stores. Correct means:
  a frame never runs without the timer that ends it, bytes are joined only when they belong
  together, the buffer is not touched while it is parsed, no traffic makes the slave deaf, and a
  request is answered, by its own answer.
- *Registers and configuration.* A request over several registers is checked as a whole and
  applied one by one; the safe-access window closes meanwhile; a reload is several saves, each of
  which may fail. Correct means: registers, cache and flash agree after a reload, and nothing
  protected is written outside the window.
- *Sensor.* Flags set by timers and cleared by the main loop, and a delay that depends on a state the
  main loop has just stored. Correct means: no step of the measurement comes before its rest is
  over, and a sensor that answers is measured, and its values published, again and again.
- *Ring buffer.* `dlen` is written by both sides. Correct means: FIFO, nothing invented, and even
  when an update of `dlen` is lost, nothing is read or written out of bounds.

The hazards are listed line by line in `PROJECT.json`, with the properties that cover them.

## 2. Modules

| module | what it is |
|---|---|
| `Storage` | `storage.c`, detailed, with power loss |
| `KVStore` | what `storage.c` promises: a map; `Storage` is shown to implement it |
| `CutErase` | `Storage` where a power loss can also cut the erase of a page short |
| `MCStorage`, `MCCutErase` | values of the constants for TLC, symmetry |
| `StorageProofs` | theorems about `Storage` and `CutErase`: the page table and the programming of the flash |
| `StorageItemsProofs` | theorems about its items: counted, moved, not lost |
| `StorageMapProofs` | theorems about the map: one copy of a key, and that `Storage` implements `KVStore` |
| `ModbusFrame` | frame reception and answering of `modbus.c`, with interrupts and bus |
| `MCModbusFrame` | its instance for TLC |
| `ModbusFrameProofs` | theorems about `ModbusFrame`: reception, the buffer, silence, well-behaved senders |
| `Registers` | `modbus/regs.c`, the callbacks of `sensor.c`, `modbus_run`, `modbus_reload`, `configtool.c`: what a request does, over a storage whose calls may fail and a device that may be reset |
| `RegistersProofs` | theorems about `Registers` |
| `Sensor` | the measuring machine, TMR2 and TMR3 |
| `UartRing` | `ringbuffer.c` between UART1's interrupt and `uart_read` |
| `MainLoop` | `Main.c`: `Sensor` and `UartRing` taking turns under all their interrupts |
| `MCMainLoop` | its instance for TLC |
| `SensorProofs`, `UartRingProofs`, `MainLoopProofs` | theorems about the two parts, and about the loop |

How they fit together: `Registers` stands on `KVStore`, the abstract storage, in that a call of the
storage has the outcomes `KVStore` allows and may fail besides; `Storage` implements `KVStore`.
`ModbusFrame` ends where a request is handed to the library and begins again where its answer is
sent, `Registers` is what lies between. `MainLoop` extends `Sensor`, whose step `RunModbus` is where
`ModbusFrame` and `Registers` take place, and `UartRing`.

### Storage

Granularity: an action is one flash operation or one step between two of them, so that `PowerLoss`
falls between any two contents the flash can have. `pc` stands for the place in the C functions,
`ret` for the caller of a function that is called from several.

| TLA+ | C |
|---|---|
| `LoadHeader`, `HeaderInit`, `Init{Erased,Used}Page`, `InitFails`, `EraseAll` | `st_init`, `st_load_header`, `st_header_init`, `st_page_init`, `st_page_scan`, `st_page_erase_check`, `st_erase_all` |
| `Find*`, `ReadDone`, `WriteFound` | `st_find_item`, `st_page_find_item`, and the branches of `st_read_item` and `st_write_item` behind them |
| `Delete*` | `st_delete_item_with_loc` |
| `Alloc*`, `CloseActive`, `OpenNew` | `st_get_available_page`, `st_first_page` |
| `Realign*` | `st_page_realign`, `st_realign` |
| `Put`, `PutFails`, `PutFull` | `st_page_write_item`, `st_page_write` |
| `SetStatus`, `ErasePage` | `st_page_status_update`, `st_page_erase` |
| `Reset`, `PowerLoss`, `TornWrite` | a restart of the MCU between two calls, inside one, inside the write of an item |
| `EraseCut` (`CutErase`) | a restart between two blocks of a page erase |

Abstractions. Lengths are counted in units in which a header is one or two and a value one or two;
an item is `[key, len, val]` at an offset of its page. A content whose CRC fails is `NoVal`, an
index that was never programmed `BadKey`. A torn write leaves a whole header with the length it was
to have, either without the index or with it and without a valid content. An item with its header is
assumed to be within `ST_MAX_CONTENT_LEN`, so that the check at the head of `st_get_available_page`
(`storage.c:907`) passes. `st_page_find_item` looks at the status of the page before its first item only (`Entered`):
where the deletion of an earlier copy has just erased the page, the loop goes on at its end. The flash driver's calls succeed and no bit changes by itself. `bytes_available`, which is
only logged, is left out, and so are `st_delete_item` and `st_page_delete_item`, which nothing calls.

*Erases.* In `Storage` the erase of a page is one step, and a power loss leaves the page blank or as it
was. The data flash erases in blocks of 256 bytes, though, and a page is four of them. A power loss
between two blocks leaves a page with an erased status and programmed bytes further on. `st_page_init`
does not put this right. `st_page_erase_check` never advances its address, so it reads the first block
four times (`storage.c:194-210`), and the second erase that would follow is not done, since
`st_page_erase` returns at once for a page whose status is `ERASED` (`storage.c:118-120`). This is why
`InitErasedPage` takes the page for erased without looking at it. `CutErase` adds the cut erases
(`EraseCut`) to `Storage`, with a variable `junk` for the remains. It follows a behaviour up to the first
time an item is programmed over remains (`Overwritten`), or a scan is to read remains as the header of an
item (`Misread`). From there on the contents of single bytes decide, and nothing is claimed. TLC checks
`StorageFaults` with cut erases. The theorems are about `Storage`, where no erase is cut short, but for
`CutInvariance` and `FlashDisciplined`.

### ModbusFrame

Granularity: each interrupt handler runs to its end (same priority) and is one action; the main loop
can be interrupted between any two of its accesses to shared data and is cut there. In particular
`modbus_slave_set_idle` is four actions, in program order. `mb_slave_ctx` is not `volatile`, so a
compiler may reorder these stores; the model takes the order of the source, and the mutant
`IdleStoresReorder` of `IdleStores` shows what breaks when `status` is stored first. Another
assumption of this kind: `modbus_frame_check` reads `status` afresh on each pass, since the compiler
cannot carry it across the calls between two passes.

| TLA+ | C |
|---|---|
| `RecvFirst`, `RecvMore`, `RecvLate`, `RecvDrop` | `slave_recv`, one action per `status` it finds, called by `UART2_IRQHandler` |
| `TickIdle`, `TickRecv`, `TickWait`, `TickEnd` | `TMR0_IRQHandler` |
| `TimerAfterRecv`, `TimerDisable`, `Incremented`, `Decremented` | `modbus_timer_enable`, `modbus_timer_disable`, with the width of `mb_timer_ref` |
| `EnableTimerIrq`, `StopTimer` | `modbus_timer_init`, which `modbus_init` calls after the UART is up |
| `FrameReady`, `NothingReady`, `ParseRequest`, `Answer` | `modbus_frame_check` |
| `SetIdle` | `modbus_slave_set_idle` |
| `Elapse`, `NextByte` | time and the senders on the bus |

A behaviour begins when `uart_init` has returned in `modbus_init`: from there on bytes arrive.
Time is counted in half characters, the period of TMR0, and a pending timer interrupt is served
within one period. A byte is the number of its frame and its place in it, so that the model can
tell which bytes came to be neighbours in the buffer. A frame is for this slave, broadcast, for
another one, or has a wrong CRC; a truncated frame and a mixture of two are taken to fail their
CRC. The vendored library appears only by what `modbus_frame_check` relies on: a request that is
accepted replaces the response (by nothing, for a broadcast), any other leaves the old response.

Senders may do anything. The ghost `polite` says whether they have all kept to the rules: no
silence longer than `MaxGap` inside a frame, at least `MinSilence` before one, and no new request
before this slave is done with the last. `MaxGap` is 1 because every byte's interrupt restarts TMR0 at
0: one period of silence, and a part of the second, is what a frame that is sent without pauses can
show. The ghost `early` says whether a byte came before `modbus_timer_init` was done.
`modbus_reload`, the safe-access window of `modbus_run` and what a request does to the registers are in
`Registers`.

### Registers

Granularity: everything here runs in the main loop, so an action is a step between two of which time
passes or the power fails: one call of the storage, one register of a request, one part of a reload.

| TLA+ | C |
|---|---|
| `InitStorage`, `InitAddr`, `InitUart`, `InitSn` | `cfg_init`, `cfg_load_default`, `cfg_item_init` |
| `MbInit` | `mb_init`, `modbus_init` as far as the registers and the address go |
| `Store`, `Update`, `CacheAfter` | `cfg_save_item` over `st_write_item`; `cfg_update_mb_addr`, `cfg_update_mb_uart`, `cfg_update_sn` |
| `Run` | the window in `modbus_run` |
| `NoFrame`, `Answer` | `modbus_frame_check` without a request for this slave, and where it sends the response |
| `Check`, `Accepts`, `Permitted`, `Allowed` | the checking pass of the library over all registers; `modbus_reg_w_check`, `mb_reg_before_write` |
| `Read`, `Pack` | a request to read; the end of `modbusParseRequestRTU` |
| `WritePlain`, `WriteSafe`, `WriteOpt` | the writing pass: `modbus_reg_callback`, `modbus_reg_write`, `mb_reg_after_write` with `modbus_sa_ctrl` and `mb_opt_handle` |
| `ReloadAddr`, `ReloadUart`, `ReloadSn`, `ReloadModbus` | `sensor_reload_config`, in its order, and `modbus_reload` |
| `Elapse`, `Reset` | a millisecond; a power failure anywhere |

Abstractions. One register stands for the two of the baud rate and one for the eight of the serial
number, so a request that writes half of either is not told from one that writes a refused value.
TEST_1, TEST_2, the WARN registers and the contents of a read are left out: only a master looks at
them. A reset or an upgrade is accepted and never made (`flag_reset` is not read by anything), so it
is an operation without effect. The OTA item is initialised and never used, and left out. A failing
storage call is bounded by `MaxFaults`: a write may have taken effect or not, as a failing
`st_write_item` may; the ghost `last` says which, and `fresh` whether the window was found open in
this pass. Time is read in two halves without a lock; a torn read is off by 2^32 and ends a window
early, which `Run` and `WriteSafe` allow. Where `cfg_flag_init` is not set, getters leave the
caller's locals uninitialised: `JunkAddr` and `JunkRate` are what these may hold.

### Sensor

Granularity: an interrupt is one action; the main loop is cut between every test, store and clearing
of a flag that an interrupt shares.

| TLA+ | C |
|---|---|
| `Tmr2`, `Due`, `CountAfter` | `TMR2_IRQHandler`; the counter has the width of a `UINT8` (`CountMax`) |
| `Tmr3`, `Interval`, `Fires` | `TMR3_IRQHandler` |
| `LedTest`, `LedFlash` | `app_sensor_ledFlash` |
| `ThTest`, `ThInit`, `ThRest`, `ThSendCmd`, `ThJudge`, `ThReadVal`, `ThReadCrc`, `ThClear` | `app_sensor_thRead`, one action per state and outcome; a wrong CRC returns and leaves the flag set |
| `DealTest`, `DealFill`, `DealClear` | `app_sensor_dataDeal`, `app_sensor_modbus_dataFill` |
| `RunModbus` | `modbus_run`, and round again |

The sensor answers as it likes. Of the values only whether there are any and whether they were
published is kept. `MB_REG_ADDR_RECORD_INTV` is in no register segment, so `modbus_reg_get` yields 0 and
the interval is the default one; the model takes any `RecordIntv`, as the code is written to.
The ghosts: `waited`, since the last transaction; `answered`, was the last answer good; `lost`, was
the last tick for the values cleared unseen (it is set between the test of `invtFlag` and its clearing).

### UartRing

| TLA+ | C |
|---|---|
| `RecvFull`, `RecvByte`, `Wrapped`, `Full` | `UART1_IRQHandler`, `uart_cache_write`, `ringbuffer_write` of one byte |
| `ReadCall`, `ReadWait`, `ReadTimeout` | the loop of `uart_read` and its time-out |
| `ReadNothing`, `ReadSome`, `ReadCopy`, `HeadAfter` | `ringbuffer_read` up to its last line |
| `ReadLoad`, `ReadStore` | `rb->dlen -= bytes_read` as a load and a store |

`dlen` is not `volatile`; the build (-Os) may keep one load of it for the tests at the head of
`ringbuffer_read`, and the model takes one. A byte that comes between the load and the store has its
increment overwritten: the ghost `raced` records it, and the drift stays until a reset. Before a race
bytes are numbered and compared; after one they are no longer told apart, and what remains to be
shown is that nothing goes out of bounds. A torn read of the time in `uart_read` ends one wait early,
which is one of the time-outs the model has anyway unless bytes are there; it is not a step of its own.

## 3. Properties and runs

### Storage, passing

| run | instance | shows |
|---|---|---|
| `StorageFaults` | module `CutErase`; 2 keys, 1 value, 3 pages of 8 units in 4 erase blocks, power loss between any two flash operations and between two blocks of an erase, torn writes, 2 restarts | up to the first use of what a cut erase has left: `IInv` (types, shape of the flash, RAM mirrors); `Bookkeeping` (the page table agrees with the flash: programmed bytes and erased pages exactly, items never too many, and exactly in a page that is not full); `FlashDiscipline` (items are programmed right behind the last one, no programmed byte becomes free, status bytes only lose bits); `OtherKeysKept` (no call loses another key, but for two exceptions, below); `Terminates` (every call and every `st_init` ends) |
| `StorageTight` | 2 keys, 2 values of different lengths, 3 pages of 10 units that they fill to the last byte, to the last but one, or to less than a header; power loss, torn writes, 1 restart | `Bookkeeping`, `OtherKeysKept` and `SoleCopyKept` (a call that found one copy keeps the key) where offsets meet the end of the page and pages run out |
| `StorageKV` | 2 keys, 2 values, 7 pages, no power loss, 1 restart | `KVSpec`: `Storage` implements `KVStore`; `OneCopy`; `Bookkeeping`, here with the items of full pages counted exactly |

Why the bounds are enough: three pages are the fewest with an active one, a full one and a reserve,
so that realigns happen at once and the erased pages run out; two items per page make a page with
one live and one erased item; two restarts put a power loss into the recovery from a power loss.
The erase blocks begin at units 2, 3 and 5 of eight, and items take three, so that remains begin inside
an item and at the start of one. TLC reaches both ends of a behaviour with cut erases: remains are
overwritten, and a scan comes to read them. It also leaves them behind the last item of a page until
the next erase, which may be cut short again. The deadlock check of this run is off because the model
ends where remains are used; `Terminates` shows that it stops nowhere else.
The map is promised only with enough erased pages. On seven pages, with two keys and one restart, there
are always enough, and a realign never has an item to move: the full page it chooses is empty. That
this is so in general from four pages more than keys and restarts is proved (section 4). The bound is
sufficient, not sharp: TLC finds `KVSpec` also true on five pages without a restart and on six with one,
and violated on five with one. Realigns that move items and fail for want of a page are what
`StorageTight` and `StorageFaults` exercise. `StorageTight` uses symmetry in keys, `StorageKV` in keys and
values: they have no liveness property.

With fewer pages the map is lost in two ways, both without any power loss. A call can give up half way.
And a realign can overtake a write: `st_write_item` notes where the old copy is, then
`st_get_available_page` runs a realign that may move that very copy, and the deletion of the old copy
(`storage.c:999`) then goes to a place where it is no longer. There are three cases. It finds an empty
page and succeeds, or another item and fails: then the key has two copies, the new one, and the old one in
the page the realign moved it to; two keys and three or four pages are enough, and no restart is needed.
Or the page of the noted place, which the realign has erased, has been opened again, because the page
the items were moved to was full, and the new item is at exactly that place: then the deletion removes
the new item, the call reports success, and the older copy is all that is left. This is what the run
`StorageVisible` finds. `Overtaken` in `StorageMapProofs` names these steps.

The exceptions of `OtherKeysKept`. When `st_init` fails it erases everything (the run
`StorageRestart`). The other one takes a power loss, a restart and a shortage of pages. A torn item
whose index is programmed and whose content is not is passed over by the scan without being counted;
a realign drops it and takes it off `item_cnt` all the same (`storage.c:342`). If that realign cannot
finish, because it finds no page to move to, its page stays, `FULL` and with one item more than it is
counted to. When later the search of another call deletes a second copy from that page, `item_cnt` reaches
0 and the page is erased with what may be the only copy of another key. `Undercounted` names such a
page, and `Bookkeeping` says that without torn writes there is none.

### ModbusFrame, passing

`FrameBus`: two frames of up to three bytes, a buffer of two, a counter `mb_timer_ref` of two bits,
three kinds of frames, any timing. It shows `Timed`, `Balanced` (with a well-behaved bus the timer
runs exactly during a frame, its count of users is 1 then and 0 otherwise), `Unbroken` (the buffer holds
neighbouring bytes of the bus), `SilenceRespected` (what is joined had less than two characters between
it, what ends a frame at least three), `BufferHeld` (no interrupt changes a frame that is being parsed),
`Exact` (with a well-behaved bus what is parsed is one whole frame), `Served` (a request that fits
is answered) and `Recovers` (the slave always becomes ready again).

Why the bounds are enough: two frames make every overlap of a frame with the handling of the one
before; three bytes are one more than the buffer takes; the two-bit counter wraps within the bytes
of a run, as the `int8_t` does in 128; eight half characters are one more than a frame needs to end.
Two deviations from the wording of the Modbus specification follow from the code and are in the
properties as they are: a frame ends after 7 ticks, the first of which may come any time up to one
period after the last byte, so the silence seen is more than three characters (`quiet >= 6`).

### MainLoop, passing

Run `MainLoop`: rests of 0 and 1 ms that differ from state to state, a counter that goes to 2, a
period of 1, a buffer of 2 bytes, reads of 2 bytes for 1 ms, bytes numbered modulo 4. Of the sensor
it shows `Paced` (no step before its rest is over, though the interrupt takes the delay of whatever
state the main loop stored last), `HandedOver` (what the flag hands over, and when), `Held` (the
interrupt leaves the machine alone while a step is made), `Measures` and `Publishes` (a sensor that
answers is measured and its values published, again and again; the one exception, every tick falling
into the window of `lost`, is in the property), `Blinks`. Of the ring buffer: `InBounds` (even when
an update of `dlen` is lost), `Aligned` and `Fifo` (unless one is), `ReadEnds`, `Drains`.

Why the bounds are enough: rests of two lengths, in both orders, are what tells a stale state from a
fresh one; a buffer of two bytes and reads of two meet its end, wrap round it, fill it, and find it
full, and a read takes one round or two. Numbers modulo 4 tell apart more bytes than the buffer holds.

### Registers, passing

Run `Registers`: two addresses and one out of range, two baud rates, one serial number, requests of
up to two registers, one failing call of the storage, a window of 1 ms, any number of resets. It
shows `Protected` (what lets a master reconfigure the device changes only in a request that was
taken up while the window was open, whatever time passes in between), `Answered` (the answer comes
from the address the request was sent to, even when the request changed it, and a positive answer
means that every register holds what was written: the check before the first write is not overtaken
by what the writes do), `Saved` (the configuration in use is the one a restart would find, whatever
failed, until a failing write took effect), `Current` (outside of a reload, address and port are
those configured), `Shown` (the registers tell the truth about the window and the serial number) and
`Closes` (a window is closed).

Why the bounds are enough: two registers in a request are the fewest where the write of one could
disturb the check of the next, and cover the pair that opens the window and writes the operation;
one fault, at any of the calls of a boot or a reload, leaves each item in each of its failed states
while the others are good; with a window of 1 ms a millisecond between check and use closes it.

### Where code and text disagree

Each of these runs checks one property and TLC finds it violated.

| run | text | code |
|---|---|---|
| `CutEraseBlank` | `storage.h:48` "The page is empty(all bytes are 0xff)" | an erase cut short leaves programmed bytes in a page that `st_init` counts as erased: its check reads the first block only, and would not bring about a second erase |
| `StorageVisible` | `storage.c:960` "0-success" | a realign moves the old copy and erases its page, the page is opened again, the new item is written at the place noted for the old one, and `storage.c:999-1005` deletes it |
| `StorageReadKeeps` | `storage.c:1021` "length of data read" | of two copies, in one page or in two, the search deletes both |
| `StorageRestart` | `storage.c:672` a scan erases pages "if status is FULL and all item was marked as erased" | a page filled to within a header of its end makes the scan fail and `st_init` erase everything |
| `StorageZeroCrc` | `storage.h:66` "Non-erased key-value pairs are being moved" | an item whose CRC-8 is 0 is taken for an erased one |
| `FrameStale` | `slave.h:144` the response may be used only after a successful parse | after a CRC error `modbus_frame_check` sends the previous response again |

Seen while modelling, without a run of its own: after a restart the last used page, full or not, is
`page_active` (`storage.c:724`), and the next write can open a second active page, against
`storage.h:53` "No more than one page can be in this state at any given moment." Nothing is lost or
programmed over for it (`OtherKeysKept`, `FlashDiscipline`); a page stays active that no realign
comes back to.

One hazard no text speaks about: `modbus_init` starts the UART before the timer. A byte in between
starts TMR0, `modbus_timer_init` stops it, and since only the first byte of a frame starts it the slave
waits for ever. `Timed`, `Served` and `Recovers` therefore hold only without such a byte (`~early`).

### Fairness

`Storage`: weak fairness of `Step`, the code of the main loop: it is sequential, and runs on while
the MCU has power. Nobody has to call, and restarts are bounded by `MaxRestarts`. `ModbusFrame`:
weak fairness of `Elapse` (time passes), of `Timer` (a pending interrupt is served) and of `Main`
(the main loop comes round). No fairness on the bus: senders may stop in mid-frame for ever.
`MainLoop`: weak fairness of `Main` (one sequential program that never blocks), of `Tmr2Irq`,
`Tmr3Irq` and `SysTick` (periodic timers); none of `UartIrq`, since nobody has to send. `Registers`:
weak fairness of `Main` and of `Elapse`; none of the requests (`NoFrame` is always another way to go
on) nor of `Reset`.

## 4. Proofs

TLAPS proves, for every value of the constants that the assumptions allow (`SizesAssumption`,
`NamesAssumption` in `Storage`, `BlocksAssumption` in `CutErase`; `BusAssumption`, `TimingAssumption`, `BufferAssumption` in `ModbusFrame`;
`SensorAssumption`, `RingAssumption`, `RegistersAssumption`), the theorems below. `TimingAssumption` says
when the code can tell frames apart: well-behaved senders pause for at most one period within a frame
(section 2), and `quiet` counts at least to the silence a frame ends after.
`BufferAssumption` asks for a buffer of more than one byte (the code's has 256): in a buffer of
one, every byte would be the first of a frame. The theorems marked * have the hypothesis `ZeroCrc = {}`: no item
stored has the CRC-8 0. The code does not ensure it, and without it they are false: the run
`StorageZeroCrc` shows a realign dropping such an item, and TLC finds `OtherKeysKept` and (with three
pages and a restart) `SoleCopyKept` violated by the same step.
Those marked ** have the hypothesis `NoFaults`: besides, the power fails between two calls only. Those
marked *** have `Roomy` as well, below. Both hold of the constants of the run `StorageKV`.

| theorem | states |
|---|---|
| `StorageProofs!Invariance`, `CutInvariance` | `Spec => []IInv`, `CutSpec => []IInv` |
| `StorageProofs!FlashDisciplined` | `CutSpec => FlashDiscipline` |
| `StorageItemsProofs!Counted`, `Bookkept` | `Spec => []CountInv`, `Spec => []Bookkeeping` |
| `StorageItemsProofs!Moves`, `RealignMoves` * | `Spec => []MoveInv`, `Spec => RealignMovesAll` |
| `StorageItemsProofs!OthersKept` * | `Spec => OtherKeysKept` |
| `StorageItemsProofs!SoleKept` * | `Spec => []SoleCopyKept` |
| `StorageMapProofs!MapKept`, `OneCopyKept` ** | `Spec /\ [][Undisturbed]_vars => []Known`, `... => []OneCopy` |
| `StorageMapProofs!MapImplemented` ** | `Spec /\ [][Undisturbed]_vars => KVSpec` |
| `StorageMapProofs!RoomEnough` *** | `Spec => [](Known /\ RoomInv) /\ [][Undisturbed]_vars` |
| `StorageMapProofs!RoomyOneCopy`, `RoomyMap` *** | `Spec => []OneCopy`, `Spec => KVSpec` |
| `StorageMapProofs!RoomyPromises` *** | `Spec => []WriteVisible /\ RestartKeepsKeys` |
| `ModbusFrameProofs!Invariance` | `Spec => []IInv` |
| `ModbusFrameProofs!ReceptionTimed` | `Spec => []Timed` |
| `ModbusFrameProofs!UnbrokenStream` | `Spec => []Unbroken` |
| `ModbusFrameProofs!BufferIsHeld` | `Spec => BufferHeld` |
| `ModbusFrameProofs!SilenceKept` | `Spec => SilenceRespected` |
| `ModbusFrameProofs!TimerBalanced` | `Spec => []Balanced` |
| `ModbusFrameProofs!FramesExact` | `Spec => []Exact` |
| `RegistersProofs!WindowProtects` | `Spec => Protected` |
| `RegistersProofs!AnswersTrue` | `Spec => []Answered` |
| `RegistersProofs!ConfigurationSaved` | `Spec => []Saved` |
| `RegistersProofs!ConfigurationCurrent` | `Spec => []Current` |
| `RegistersProofs!RegistersTruthful` | `Spec => []Shown` |
| `RegistersProofs!RegisterTypes` | `Spec => []RegTypeOK` |
| `SensorProofs!SensorTypes`, `HandOver`, `MeasurementsPaced` | `SensorSpec => []SensorTypeOK`, `[]HandedOver`, `[]Paced` |
| `SensorProofs!MachineHeld` | `SensorSpec => Held` |
| `UartRingProofs!RingTypes`, `ReadsInBounds`, `CountAligned` | `UartSpec => []UartTypeOK`, `[]InBounds`, `[]Aligned` |
| `UartRingProofs!BytesInOrder` | `UartSpec => []Fifo` |
| `MainLoopProofs!LoopRunsSensor`, `LoopRunsRing` | `Spec => SensorSpec`, `Spec => UartSpec` |
| `MainLoopProofs!LoopSafe` | `Spec => [](Paced /\ HandedOver /\ InBounds /\ Aligned /\ Fifo) /\ Held` |

*Storage.* `IInv == TypeOK /\ FlashShape /\ Mirrored /\ Arguments`. `FlashDiscipline` needs that an item
goes behind the last programmed byte, which is a fact about the flash, while the code decides by
`bytes_used`, a fact about the RAM. `Mirrored` ties the two, page by page while `st_init` scans;
`FlashShape` says that behind the last programmed byte all is erased; `Arguments` says that every
subroutine finds a page, an offset and a caller it can work with (in particular that the page a write
appends to is open, so that the code's late opening of an erased page is never taken). The proof has
one lemma per action, and `FlashDisciplined` follows from the invariant action by action. Both are
proved of `CutSpec`, with erases cut short at any block: as far as items and status bytes go, a cut erase is
the erase of a page and a restart. What the theorem does not say is that the cells behind the last item
are erased. They are unless the last erase of the page was cut short, and the run `CutEraseBlank` shows that
the code does not find that out.

*Items of the storage* (`StorageItemsProofs`). Three more invariants, each on top of those before.
`CountInv` is what `Bookkeeping` needs: which items can be in a scanned page, that only a `FULL` page may
hold more items than it is counted to (a realign reads from no other), that a realign goes to an
empty page other than its own, and where the search's records point. `MoveInv` is what `OtherKeysKept` and
`RealignMovesAll` need: the live items of a page lie one behind the other (`Laid`, so that a realign
that goes from item to item leaves none out), and while a realign is at work every item it has passed
has a copy on another page. `SoleInv` is what `SoleCopyKept` needs: with one copy counted, the place
recorded last holds it, and from then on the old copy is deleted only when there is another one. Each
invariant was first checked by TLC on larger instances than those of the runs. Stating them
corrected the model (`Entered`) and found the second exception of `OtherKeysKept`: the
first attempt, with counts that are exact after torn writes too, is not inductive, because it is not true.

*The map* (`StorageMapProofs`). That `Storage` implements `KVStore` is proved in two layers.

The first layer is for any sizes and any number of pages, keys and restarts. Its hypothesis is about
the behaviour: no step is `CutShort` (the call or the realign gives up, or `st_init` erases everything) and
none is `Overtaken` (a realign moves the item that is about to be replaced). Both are needed: TLC finds
the map lost by either. The invariant is `Known`: the invariants before it and `MapInv`, which follows a
call from its search to its return. `SeekInv` says what the search has seen: with no copy counted there
is none on the pages it has been through, with one counted its place and its value are those recorded.
`ReplaceInv` says how many copies the key has as the new one is written and the old one deleted.
`UniqueInv` says that every other key has one copy, but for what a realign has moved and not yet erased,
which it has twice with one value. `PhaseInv` and `ScannedInv` tie these to the place of the
main loop. From `Known`, each step of `Storage` is a step of `KVStore` or a stutter: a write takes effect
when its item is programmed (`Put`), a read answers when the search is back at its start, and every
other step leaves `AbsStore` as it is, though the copy its `CHOOSE` picks may be another one.

The second layer discharges the hypothesis from the constants. `Roomy` asks that every item fits on a
page, that what is on a page (`Fills`, the sums of item sizes) always leaves more room than a header
takes, and that `NPages >= Cardinality(Keys) + MaxRestarts + 4`. The first two are what
`storage.c` needs to scan a page again and never to close one early; the code does not check them. In
the third, `MaxRestarts` is there because a restart may leave a page active that no realign ever comes
back to (section 3): the invariant `StaleInv` counts these pages. The device has
about thirty pages (`storage.h:14`) and a handful of items. `RoomInv` then shows that there are two erased
pages whenever the active page can take items, and four after a restart until one is opened; if a
write finds two and no room, the pages that are neither erased nor active are more than the keys, so
one of them holds no item (`HeldFew`, by the pigeonhole principle), `st_realign` chooses such a page
(it takes one with the fewest items), and erases it at once. TLC checked `RoomInv` on seven pages, with two keys
and one restart and with one key and two, before it was proved.

*ModbusFrame.* `IInv == TypeOK /\ Phases /\ Timed`. `Timed` alone is not inductive: that `TickEnd`
may stop the timer depends on the frame being over, and that the first byte starts it on the buffer
being empty whenever a frame may begin, which is a fact about how far `modbus_slave_set_idle` has
come (`Phases`). The count `ref` does not matter, so its overflow does no harm: that is the content
of the theorem. `Unbroken` needs `Latest` as well: while a frame is in reception the last byte in a
buffer that is not full is the last byte on the bus.

*Time in ModbusFrame.* `Measured` ties the count of TMR0 to the silence on the
bus: while a frame is received, `tcnt` and a pending interrupt are together the silence or one more,
because an interrupt that is pending when a byte arrives is served after it. `SilenceRespected`
follows for any sender. `Orderly` says how far the slave is while all senders keep to the rules: in the
middle of a frame it is in `RECV`, the timer runs exactly while it receives and has one user, and the
buffer holds the frame up to the last byte. `Balanced` and `Exact` follow.

*Registers.* Three invariants. `RegInv == CfgInv /\ ReqInv /\ Current /\ Shown`. Its part `CfgInv`
carries `Saved` item by item through `cfg_init`, where the items are loaded one after the other and
until then hold their defaults (`Known`, `Loaded`); `ReqInv` says that a request with guarded
registers has no others and is worked on in a fresh window only, which is why `Protected` holds:
nothing in such a request can close the window it was permitted by. `AnsInv` is what `Answered`
needs: of the request, the writes done so far hold, no register occurs twice (a request names
registers that follow one another in a segment), and every write yet to come passes the check it has
passed before, since the callback that checks again looks at the value alone. `TypeInv` bounds what
the flash and the cache hold, for `RegTypeOK`.

*Sensor.* `SensorInv` is `SensorTypeOK /\ HandedOver`, which is inductive: while the flag is set
nothing is counted, and when it is not, the main loop is elsewhere and the count is no more than the
time waited. That the delay is below the width of the counter (`SensorAssumption`) is needed:
otherwise the count wraps.

*UartRing.* `RingInv == UartTypeOK /\ InBounds /\ Aligned /\ Hungry`. `InBounds` does
not rest on the pointers: a read takes no more than `dlen`, and between its load and its store the
interrupt only adds to `dlen`, so that a race loses counts and makes none up. `Aligned` ties `dlen` to the
pointers while there was no race. `Fifo` is inductive on top of it: the places between `head` and `tail`
are distinct as long as there are at most `Size` of them, so that a byte is stored on none that is
still to be read.

*MainLoop.* Every step of the loop is a step of one part and a stutter of the other, so it implements both
specifications, and what is proved of the parts holds of the loop (`LoopSafe`).

Only model-checked: liveness (`Terminates`, `Served`, `Recovers`, `Measures`, `Publishes`, `Blinks`,
`ReadEnds`, `Drains`, `Closes`), which is beyond TLAPS. Every other property of a
passing run is a theorem: `OneCopy` and `KVSpec` under the hypotheses above, which those of the run satisfy,
`OtherKeysKept` and `SoleCopyKept` under `ZeroCrc = {}`, the others without a hypothesis.

## 5. Plan

Done: storage with its abstract map, frame reception, registers with the configuration, the sensor,
the ring buffer, the main loop over them, and the theorems above. Left, in this order:

1. `ModbusFrame` from the entry of `uart_init`: a byte between the enabling of the interrupt and the
   copy of `recv_cb`.
2. The composition of `ModbusFrame` with `Registers`: the answer sent at a baud rate other than the one of
   its request.
3. The map under power losses: `KVStore` with two copies of a key for a while, and which of them a
   search keeps.

## 6. Not modelled

- Display and OLED: output only, a frame buffer sent over bit-banged I2C. The watchdog and the log of
  what UART1 brought are output as well.
- Logging, CRC, MD5 and the identification: pure functions over bytes, or formatting; a CRC appears by
  whether it fits, and in `Storage` with its collisions that matter (zero).
- gpio: pin set-up, and a table of interrupt handlers the application does not use.
- The waveform of the I2C bus, and the arithmetic of the measured values.
- Coils and discrete inputs: tables without an entry.
- What nothing calls: `st_delete_item`, `ringbuffer_drop`, `modbus_deinit`, `sensor_run`, `uart_rx_flush` and
  others, listed with their component in `PROJECT.json`.
- `an192.c` and `OW/`: sensors that `.cproject` excludes from the build.
- The vendor's drivers, headers and start-up code, and the parts of liblightmodbus that build PDUs.

The last two make up most of the source: the vendor's drivers and headers, the Modbus library with its
tests and examples, and the excluded files are three quarters of all lines, and a part of the rest
is the display with its fonts, checksums and formatting. This is why the share of all lines that the
models translate is small, while of the application's own control flow little is left out.
