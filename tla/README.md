# sdk-arduboy in TLA+

sdk-arduboy runs Arduboy sketches on a Meshbus device: it binds a sketch to the
application thread of a loadable extension, connects it to the ZUI user
interface, paces its frames, latches its input, and keeps its EEPROM in a save
file. This directory specifies the parts of it that keep state between two
calls or share it between two threads, checks them with TLC on small instances
and proves their main properties with TLAPS for all instances.

Paths are relative to the repository; `.../` stands for
`include/meshbus_arduboy/`.

## 1. The system

| part | state | operations | talks to |
| --- | --- | --- | --- |
| EEPROM mirror, `.../eeprom.hpp` | mirror bytes, `dirty_`, `generation_`, `lock_` | init, load, flush, read, write, update, block variants | save store |
| Save store, `.../save_store.hpp` | `writable_`, `status_`; one scratch buffer and its lease per extension | init, load (legacy file, migration), commit | transaction, file system |
| Save transaction, `.../storage.hpp` | the temporary and the committed file | mkdir, open, write, sync, close, rename, unlink | file system |
| Save envelope, `.../save_format.hpp` | none | encode, decode, CRC-32 | |
| Input latch, `.../input.hpp` | held, previous, raw-seen masks, a tap counter per action | press, release, click, consume, reset | the bridge |
| Runtime bridge, `src/runtime.cpp` | three frame buffers, latch, stop flag, exit semaphore, `bridge_lock` | draw, input, enter, exit callbacks; execute, nextFrame, display, delay, exit | user interface and application threads |
| Frame clock, `.../clock.hpp` | start, period, duration, count, rendered flag | set_rate, next, wait_ms, load, set_count | `execute()` |
| Session, `src/runtime.cpp`, `.../llext_game.hpp` | which resources exist, the flush back-off | run_sketch, run, cleanup, teardown | everything above |
| Callback runner, `.../llext_game.hpp` | as the session, with ticks on the user interface thread | event, input, draw, enter, leave | latch, mirror |
| EEPROM C API, `src/eeprom_runtime.cpp`, `avr/eeprom.h` | a global pointer | attach, detach, reads and writes of 1 to 4 bytes (byte by byte) and blocks (at once) | mirror |
| Audio, `src/runtime_audio.hpp` | playback token, 32 notes, enabled flag | play, stop, scores | the buzzer service |
| Resource bundle, `.../resources.hpp` | an open file, a cache of 256 bytes | open, read, close | file system |
| FX data, `.../fx_data.hpp` | a decompressed page, a sticky error | begin, read | resource bundle |
| Graphics and text, `.../compat.hpp`, `Arduboy2.h`, `Sprites.h`, `ArduboyFX.h` | the framebuffer, the text cursor, the sticky FX error | pixels, lines, circles, rectangles, bitmaps, sprites, FX bitmaps, glyphs | the bridge, FX data |
| Buttons and frames of `Arduboy2.h`; Arduino and AVR adapters, `include/*.h` | two copies of a button mask, a frame count | pollButtons, nextFrame | the bridge |
| Tools, `tools/`, `cmake/` | files at build time | convert, pack, install | |

Two threads meet in this code. The **application thread** runs `run_sketch()`,
the sketch, and the flushes of the save. The **user interface thread** of ZUI
calls `draw`, `input`, `enter` and `exit` of the screen while the router is
attached. They share the latch and the submitted frame under `bridge_lock`,
and the stop flag and the exit semaphore without a lock. The mirror has a lock
of its own: in the callback runner the game writes it from the user interface
thread while the application thread flushes it. A third thread belongs to the
host: the worker of its buzzer service reads the notes that the audio adapter
lends it, and a system sound may take the buzzer away at any time.

In the older interface, without `execute()`, the game's `tick()` runs on the
user interface thread too, up to several times for one event of the screen, and
the application thread only waits for the exit and flushes.

What is hard to test: the interleavings of those two threads; power loss and
failing file operations between two steps of a commit; a load that is refused
and what a flush may do afterwards; a tap whose CLICK comes a frame later; a
stop that meets a delay, a wait or the start; a word of which a flush catches
one byte; counters at their limit; a start-up of eight steps any of which may fail; a seek or read that fails in the
middle of a cached read; a broken page that claims bytes behind its end; notes
rewritten while another thread plays them; coordinates beyond an edge of the
screen or at the end of their integer type, turned into the index of a byte
without a check. `PROJECT.json` lists each hazard
at its line with the properties that cover it.

What makes each part correct:

- *save*: a committed save is never lost or mixed; "not dirty" means on the
  disk; a save that was refused is left alone; unsaved bytes get saved.
- *input*: the game sees each accepted tap once, with an up frame after it; a
  held button is one press; an event never costs a queued tap.
- *bridge*: consuming is atomic with respect to events; the driver sees whole
  frames, in their order, and the last one; a stop ends the loop.
- *clock*: frames keep the distance of the period, the executor sleeps exactly
  to the next one, wrap or not.
- *session*: callbacks find what they use; whatever fails, nothing is left; the
  last writes are offered to a flush.
- *resources*: what is open is the file the sketch was compiled with, and every
  read returns its bytes, whatever failed before; packed data comes out as it
  went in, and a broken pack makes no read outside the resource.
- *callback runner*: each tap is one press of one tick; a torn word is on the
  disk only until the next flush, and never after a session that ended well.
- *graphics*: a call changes the pixels of its picture and no others, and no
  byte outside of the framebuffer, wherever the picture lies; the loop of a line
  meets the end of the line.
- *audio*: a score plays whole or not at all, the notes being played stand
  still, and the sketch silences nothing but its own tone.

## 2. The modules

| module | what it is |
| --- | --- |
| `DurableSave` | what a save promises: mirror, saved image, captured image, clean |
| `EepromSave` | mirror, store, lease, transaction and file system, step by step |
| `EepromSaveInv` | its inductive invariant `IInv`, in named parts |
| `EepromSaveRefines` | the refinement mapping onto `DurableSave` |
| `EepromSave_proofs` | theorems about it |
| `InputLatch` | the class, one action per method |
| `InputGestures` | the latch fed by fingers, with history of what they did |
| `CallbackRunner` | the session without an executor, extending `InputGestures` |
| `CallbackRunner_proofs` | theorems about latch, gestures and runner |
| `FrameChannel` | what `display()` promises: drawing, sent, shown |
| `RuntimeBridge` | the two threads, extending `InputLatch` with copies in parts |
| `RuntimeBridge_proofs` | theorems: invariant and both refinements |
| `FrameClock`, `FrameClock_proofs` | the clock in the frame-gated loop |
| `ClockDivision` | the loop of `divide_u64_u32_low()` |
| `SketchSession`, `SketchSession_proofs` | a session from start to return |
| `ResourceBundle` | the verified file and its cache, one step per file operation |
| `FxPack` | the packer of `tools/fx_pack.py`, and so what a pack means |
| `FxData`, `FxData_proofs` | the decoder on the bundle: `EXTENDS` both; theorems about the two |
| `ToneOwner`, `ToneOwner_proofs` | the audio adapter, the sketch and the buzzer service |
| `Canvas` | the framebuffer and the ways a byte of it changes |
| `Blit` | the calls that paint areas, one step per turn of their loops |
| `Strokes` | the loops of lines and circles |
| `Drawing`, `Drawing_proofs` | all drawing calls of a sketch, and theorems |
| `MC*` | the instances TLC checks |

### EepromSave

Three actors: the game (`StartStopGame`, `Write`, `UpdateBlock...`), the owner
thread that loads and flushes (control point `pc`, operation `job`), and another
`EepromFile` of the extension that only matters because it uses the same scratch
buffer (`OtherLease`, `OtherUses`, `OtherRelease`). `PowerLoss` may come at any
step and leaves of a file that was not synced any prefix, or nothing.

| code | actions |
| --- | --- |
| `init_impl` | `InitFile` |
| `write`; `update`, `write_block`, `update_block` | `Write`; `UpdateBlock`, `UpdateBlockCopy`, `UpdateBlockDone` |
| `flush` | `FlushReturns`, `FlushDirty`, `FlushLease`, `SnapshotLock/Copy/Done`, then the commit, `Ack` |
| `commit_snapshot_parts` | `Mkdir`, `Open`, `OpenFails`, `WriteHeader`, `WriteBody(n)` (short writes), `Sync`, `Close`, `Rename`, `Unlink`, `FileOpFails` |
| `SaveStore::load` | `LoadBusy`, `LoadBegin`, then one of `LoadFails/Fresh/Invalid/Current/Refused/MigrateFails/Migrate`; a migration goes on with the commit and ends in `MigrateDone` |

A file is its header as the verdict of `save_format::decode`, its payload byte
by byte, its length and whether it was synced. A CRC is the payload it covers,
so collisions do not exist. A name is one of `dat`, `sav`, `tmp`: two objects
that share a save id are unsupported by the code's own documentation.

The model assumes of the file system what `storage.hpp` requires: `fs_rename`
replaces atomically, and what was synced survives. It does not assume that what
was not synced survives, nor that a short write or a failed unlink cannot happen.

### InputLatch and InputGestures

A 32-bit mask is the set of its actions, the loops over 32 bits are functions
over actions. `InputLatch` allows any event at any time. `InputGestures`
restricts the events to what a finger produces (`FingerDown`, `FingerUp`, then
possibly `Clicked`, or a `Clicked` alone) and records it in `finger` and
`lifted`, which only the properties read. So does `owed`, which counts the taps the
fingers began and no frame has shown: a finger that goes down is one more, up to
the limit at which the latch refuses it; a CLICK before the next frame is none
more, but one that comes after the frame that consumed the press is, because the
latch no longer knows the press then (`input.hpp:19` and `:32`). A frame takes one
of each button it shows going down. `TapsAreOwed` compares it with the counters:
one that wrapped at its limit, dropped a tap or counted a CLICK twice would differ.

### CallbackRunner

Fingers, latch and ticks are those of `InputGestures`; a step of the runner is
a step of it or leaves it alone.

| code | actions |
| --- | --- |
| `run()` up to the wait | `Start`, `SetupReturns`, `Attach` |
| the screen's `input`; `enter` and `leave` | `LatchInput`, `ExitGesture`; `ScreenSwitch` |
| `event` and its loop over the ticks | `TickEvent(n)`, `BeginTick`, `EndTick` |
| `avr/eeprom.h` in the sketch | `StoreBegins`, `StoreByte`; `PutItem` |
| the wait with its 250 ms, `flush_eeprom` | `WaitTimesOut`, `ExitTaken`, `FlushSkipped/Clean/Starts/Fails`, `Commit`, `Acknowledge` |
| the label `out` | `Detach`, `TeardownReturns`, then the forced flush |

A flush is three steps here, because what matters is which bytes of a word are
stored before the snapshot, during the commit and after the acknowledgement;
`EepromSave` has the rest of it. `PowerLoss` comes at any step. A word is not
stored atomically by this code: a power loss after a flush that fell between two
of its bytes leaves a torn word, and the invariants do not deny it. What they
say is that the mirror is marked again, so that the next flush repairs it.
`last` is the item that the sketch stored completely, `cut` says that a session
ended without its last flush; only the properties read them.

### RuntimeBridge

Extends `InputLatch` by the two threads. A `memcpy` of a frame under the lock is
made part by part (`DrawCopy`, `PublishCopy`), `consume()` bit by bit
(`ConsumeBit`), so that a missing lock would show. The other critical sections
are short and are one step, guarded by `LockFree`. The sketch (`Draws`,
`CallsDisplay`, `NextFrameDue`, `CallsExit`, `CallsDelay`, `SketchReturns`) may
do anything in any order. The two abstractions it implements are `InputLatch`
itself (`BridgeSerializes`: the latch as the game sees it, `result` standing for
`previous` while `consume()` is on its way) and `FrameChannel`
(`ImplementsFrameChannel`: a published image counts as sent from the first part
copied, under the lock).

### FrameClock and ClockDivision

`now` wraps at `Wrap` as milliseconds do at 2^32; time goes on in ticks of
`1 / TicksPerSecond`, and `part` is what they are past the last whole millisecond,
as `ticks_to_millis()` cuts it off. `Loop` is one pass of the sketch that calls
`nextFrame()`; `Sleep(d, o)` is the rest of the pass (`d` ticks) and the wait, which
is `wait_ms()` rounded up to ticks by `wait_ticks()` (`WaitTicks`) and late by `o`
ticks. `since` counts the milliseconds since the last frame and is what `Elapsed`,
the wrapping difference, is compared with. `ClockDivision` is the
conversion from ticks: one step per turn of the loop.

### SketchSession

One control point for `run_sketch()`, `run()` and `execute()`, one action per
step of the start-up and of the cleanup, each start-up step succeeding or
failing. A flush is one step here (`EepromSave` has the details): it works, or
fails and backs off. `callback` says that the user interface thread is inside a
callback; that `zui_host_detach_router()` returns only when it is not is what
the host is trusted for, and `Detach` says so.

### ResourceBundle, FxPack and FxData

`ResourceBundle` makes each seek and each read of the file a step that works,
ends early or fails (`Fetched`, `FetchFails`; a read that failed leaves what it
may have overwritten as `Spoilt`). `open()` is `Open`, `OpenHeader`, `OpenScan`
page by page through the same cache, and `OpenEnd`; `read()` is `Read`, then
`ReadMiss`, `ReadFill`, `ReadCopy` for each page, and `ReadEnd`. A file is its
header as one record and its body as cells; a CRC is the cells it was computed
from. What is installed at the path may be missing or be another file, and may
change only between sessions (`Install`).

`FxData` is written over it without a second copy of the bundle: each of its
steps runs from the return of one `resource_read()` to the call of the next,
`pc` belonging to the bundle and `fx` to the decoder. `FxStep` and the steps of
the bundle are the interleaving of one thread. The sketch also reads the
resource directly between calls (`Direct`), so the cache it finds is not
what the decoder left. `FxPack` translates the packer; the decoder is checked
against it, and against packs whose index or pages are broken.

Not in these models: the limit of 16 MiB on a pack, and the path a relocatable
build composes.

### Canvas, Blit, Strokes and Drawing

A byte of the framebuffer is the set of its one bits, so that a shift moves the
members of a set and a mask is an intersection. The memory is larger than the
framebuffer: an index that is computed wrongly lands on a neighbour. A call is a
record in `call`, `page`, `px` and `todo` are its loop counters, and a step is
one turn of its inner loop. The conversions to `int16_t` and `uint8_t` that the
code makes on the way are made (`Int16`, `Uint8`), with ranges that are
constants. `Strokes` keeps the points that the loop of a line or a circle has
visited, on the screen or not; `Drawing` gives them to `draw_pixel()`.

`before` is the memory when the call began; only the properties read it. They
say what each pixel should be now by looking at the picture pixel by pixel
(`PixelNow`), without pages or shifts. The code misses this in one case. The
number of rows that a bitmap lies above the screen is cut to a byte
(`compat.hpp:215` and `:255`), so that a bitmap or sprite 256 rows or more above
the screen, or one whose rows run over the greatest `int16_t`, leaves stray
bytes on the top rows although nothing of it is on the screen. No document or
test speaks of such coordinates. `DrawnSoFar` covers these calls too, with an
exception made pixel by pixel: `Stray` names the pixels a stray byte may have
changed, those in a column of the bitmap and in a row that the cut leaves of a
page that is `OutOfReach`; each other pixel has to be right. The exception is
needed (without it TLC finds such a bitmap at once), and it holds for no bitmap
within reach. `NeighboursUntouched` has no exception.

### ToneOwner

The sketch asks for a tone (`Request`), which first stops the last one
(`SynchronizeNotes`), and its words are read one by one: `Pair`, `ScoreWord`,
`LegacyCommand`, ended by `PairsEnd`, an end mark or the end of the span. Each
word is chosen as it is read and kept in `score`, so that all scores within the
bound are met. In between, the worker of the host reads the notes it borrowed
(`HostReads`) and system sounds come and go (`SystemSound`, `SystemEnds`). The
buzzer service is not in this repository; what it is trusted for is what the
code and its stub in the tests rely on: a token is not reused while it is
known, `stop_owned` stops only the playback of its token and returns when
nobody reads its notes, and a system sound ends a playback of the sketch.

## 3. What the runs check

Passing runs check deadlock too, except `ClockDivision`, whose loop ends.

| run | instance | shows |
| --- | --- | --- |
| `EepromRaw` | raw saves: 2 bytes over 2 values, capacity 3, 2 mutations per flush, files absent, whole, short, long, over-long | `IInv`, `SaveNeverTorn`, `FlushTellsTruth`, `ImplementsDurableSave` |
| `EepromVersioned` | schema 2 with migration, 24 initial directories: every verdict of `decode`, a header no sketch has (schema or size 0, a size over the capacity) among them, with and without a legacy file | `CleanIsDurable`, `RefusedSaveKept` |
| `EepromLive` | 1 byte, another object that uses the scratch buffer, fairness | `EventuallySaved` |
| `CallbackRunner` | 1 button, counters up to 2, a word of 2 bytes with 2 values, up to 2 ticks per event, back-off up to 2, fairness | `RunnerInv`, `TicksSeeEveryTap`, `ReleaseIsSeen`, `TapsAreOwed` (which implies `TapAndClickCoalesce`), `TapsAreTicked` |
| `BridgeInput` | 2 actions (one of them exits), counters up to 2, frames blank | `BridgeSerializes` |
| `BridgeFrames` | 2-part frames, 2 images, no input but the exit gesture, managed stop, fairness | `BridgeInv`, `ImplementsFrameChannel`, `LastFrameIsShown`, `ExitIsNoticed` |
| `FrameClock` | second of 12 ms in 18 ticks, rates 0, 1, 2, 3, 6, wrap at 20 ms, loops up to 6 ticks (4 ms), late by up to 2 ticks | `ClockInv`, `FramesKeepTheirDistance`, `SleepEndsAtTheFrame`, `FramesKeepComing` |
| `ClockDivision` | words of 5 bits, all numerators of two words, all divisors up to half a word (`clock.hpp:12` relies on that) | `DivisionInv` |
| `Session` | the code's back-off of 8, sessions one after the other, fairness | `IInv`, `CallbacksFindTheSession`, `NothingLeft`, `LastWritesAreTried`, `StopEndsSession`, `SavedWhilePlaying` |
| `Resources` | pages of 5, runs of up to 4, a cache of 4 cells, words below 64; packs of one and two pages, broken packs, resources that are no pack, files that are not the resource; fairness | `BundleInv`, `ReadsTellTheResource`, `FxServesTheData`, `SoundPacksAreRead`, `FxInv` (with `DecodingStaysInside`), `CallsReturn` |
| `Tones` | 2 notes, volume bit 4, two durations (one of them 0), legacy scores of up to 4 commands, 3 interchangeable tokens, one or two channels | `ToneInv`, `ScoreInv` (with `ScoresPlayWhole`), `SystemSoundsStand` |
| `Drawing` | a screen of 2 pages of 3 rows and 3 columns, bytes below 12, `int16_t` from -18 to 17; a call begins on a screen of one colour, a sketch uses shapes or text or FX (`Bounded`) | `DrawnSoFar` (for bitmaps that are out of reach, all but the `Stray` pixels), `NeighboursUntouched`, `StrokeInv` |

Each property has a mutant in `PROJECT.json`: a plausible bug in the code it is
about (a lock not taken, a flag not reset, a wrong bound) which the same run
finds. The mutated operators stand in the modules, marked "mutant".

Why the bounds are enough. Two bytes are what a torn image needs, two values
what tells old from new; a third capacity byte makes an over-long file readable.
`EditBound` lets the game mutate the mirror before, between and after the steps
of a flush, more only repeats; `GenMod` makes the generation wrap (the code's
equality test is right as long as fewer than 2^32 mutations fall into one
flush, and `EditBound < GenMod` says that). Tap counters of 2 reach full,
overfull and empty, and a button does not touch the counter of another: one is
enough under the runner. A word of two bytes is caught by a flush before,
between and after its bytes, a back-off of 2 is reset, doubled and at its limit.
Two parts show any mixture of two frames. A wrap at 20 with
periods of 2 to 12 meets every position of a frame to the wrap; 18 ticks to 12
milliseconds make a millisecond one and a half ticks, so that both conversions
round. Pages of three rows give a bitmap three offsets into a page, of
which two reach over to the next; two pages make the lower one the last, below
which nothing may be written; the coordinates lie on the screen, across each of
its edges, a byte and more above it and at both ends of the type, where a bitmap
is out of reach; the areas are
empty, smaller than a page, and larger than the screen. A page of 5
cells and a cache of 4 never share a boundary except where both begin, so that
every offset of a page meets every offset of the cache; literals of up to 4 and
copies of up to 5 cells are the shortest and the longest that the controls can
say. Two notes are the least that have an inner one, which may not be held, and
are filled and overfilled by scores of four words. Three tokens let the sketch
and the system each hold one while a third is given out. Most of these bounds
are lifted by the theorems below.

### Fairness

- The owner flushes again and again: `execute()` calls `flush_eeprom()` every
  250 ms. File operations that are tried again and again succeed some time
  (strong fairness): without that no save can be promised. A thread that waits
  for a semaphore gets it, as `k_sem_give()` of Zephyr hands it to a waiter.
- A flush that finds the scratch buffer in use returns `-EBUSY` and does not wait.
  The other user gives it back (weak fairness of `OtherRelease`: the lease is a
  local object of a function that returns), and a flush that is repeated meets the
  buffer free some time (strong fairness of `FlushDirty` while it is free): the
  code cannot exclude that every flush of a lifetime comes just while it is taken.
  `EventuallySaved` does not exclude the other user.
- Frames: the sketch loops and returns from its callbacks ("the game must return
  from its callback to finish exit", docs/runtime.md). The host draws a screen
  that asked for it. Nothing is assumed of fingers or of the desktop.
- Callback runner: the screen goes on to tick while it is attached, and `tick()`
  goes on with what it stores and returns, as the screen's thread needs it to
  ("event" of `llext_game.hpp` calls it synchronously). Nothing is assumed of
  fingers, of the exit, or of the flushes.
- Session: the thread runs, callbacks return, 250 ms pass, and a flush that is
  repeated works some time.
- Resources: a call is one thread that runs, and each operation on the file
  returns, with whatever result. A sketch need not call.

## 4. What is proved

All constants are arbitrary under the named assumptions of the modules.

| theorem | states | rests on |
| --- | --- | --- |
| `EepromSave_proofs!Invariance` | `Spec => []IInv` | |
| `...!CleanMeansDurable`, `SaveIsNeverTorn`, `RefusedSaveIsKept` | the three save properties | `IInv` |
| `...!FlushIsTruthful` | `FlushTellsTruth` | `IInv` |
| `...!SaveIsDurable` | `Spec => ImplementsDurableSave`, the refinement of `DurableSave` | `IInv`, a mirror invariant of the mapping |
| `CallbackRunner_proofs!GestureInvariance` | `GestureSpec => []GestureInv` | |
| `...!TapsAreEdges`, `TapAndClickAreOne`, `ReleaseIsAlwaysSeen` | the three action properties of the latch under fingers | `GestureInv` |
| `...!EveryTapIsOwed` | `GestureSpec => []TapsAreOwed` | `GestureInv` |
| `...!RunnerImplementsGestures` | `RunnerSpec => GestureSpec` | |
| `...!RunnerInvariance` | `RunnerSpec => []RunnerInv` | |
| `...!TicksSeeTaps`, `RunnerKeepsGestures` | `TicksSeeEveryTap`; the gesture properties of the runner | the invariant, the refinement |
| `RuntimeBridge_proofs!BridgeInvariance` | `BridgeSpec => []BridgeInv` | |
| `...!BridgeImplementsLatch`, `BridgeImplementsChannel` | both refinements | `BridgeInv` |
| `FrameClock_proofs!ClockInvariance`, `FramesAreApart` | the wrapping clock measures time; frames keep their distance | arithmetic of `%` |
| `...!SleepsEndAtTheFrame` | `SleepEndsAtTheFrame` | `Paced` |
| `...!DivisionInvariance` | `DivisionSpec => []DivisionInv`, for words of any width | powers of two by `DivisionAssumption` |
| `SketchSession_proofs!SessionInvariance` | `Spec => []IInv` | |
| `...!CallbacksAreSafe`, `SessionsLeaveNothing`, `SketchesStartComplete`, `SessionsTryToSave` | the four session properties | `IInv` |
| `FxData_proofs!BundleInvariance` | `BundleSpec => []BundleInv` | |
| `...!OpenBundlesAreVerified`, `CacheTellsTheFile`, `ReadsAreTrue` | an open file is the resource, the cache repeats it, reads return it | `BundleInv` |
| `...!FxInvariance` | `Spec => [](BundleInv /\ FxInv)`: the bundle under the decoder | |
| `...!DecodingIsInside`, `FxReadsAreTrue` | `DecodingStaysInside`; `ReadsTellTheResource` under the decoder | `FxInv` |
| `...!PackInvariance` | `Spec => []PackInv`: what each state of the decoder has of a pack | `BundleInv`, `FxInv`, the packer's recursion |
| `...!PackedDataIsServed`, `PacksAreAccepted` | `FxServesTheData`; `SoundPacksAreRead` | `PackInv` |
| `ToneOwner_proofs!ToneInvariance` | `Spec => []ToneInv` | |
| `...!SystemSoundsAreSafe` | `SystemSoundsStand` | `ToneInv` |
| `...!ScoreInvariance` | `Spec => []ScoreInv`, so `ScoresPlayWhole` | `ToneInv` |
| `Drawing_proofs!DrawInvariance` | `DrawSpec => []DrawInv`: types, `NeighboursUntouched`, `StrokeInv` | |
| `...!NeighboursStayUntouched`, `StrokesAreTrue` | the two properties | `DrawInv` |
| `...!PicturesAreDrawn` | `DrawnSoFar` | `DrawInv`, `InPlace` |

*Save.* `CleanIsDurable` is not inductive: that a flush may clear `dirty_`
depends on the scratch buffer still holding the snapshot, which depends on the
lease, and on the temporary file holding the buffer, which depends on every
write before. `IInv` says what is true at each control point: `LockHeld` and
`LeaseHeld` (who holds what), `Snapshot` (the copied part equals the mirror
while the lock is held; afterwards the whole snapshot equals the mirror unless
the generation moved), `Temporary` (the prefix written is the prefix of the
source, and synced after `Sync`), `Committed` (what is on the disk once the
object is clean or the rename is done), `Permission` (what `writable_` may be at
each status). Each action preserves the parts it can disturb.

For the refinement every step is mapped: the rename is the abstract commit
(`SaveStands`: no other step changes what a boot would load), the end of the
copy under `lock_` its capture, a return its settling (`Settles`, which needs
that a clean object vouches for what a boot would load: `CleanIsLoadable`), the
game's lock its write; the other steps stutter. `FlushTellsTruth` needs that the
number of mutations during a flush, not only their parity with the generation,
is what the comparison of generations tells (`AckTellsEdits`).

*Input.* `HeldIsShown`, that a held button is down in the last frame or still
has a tap to show, is what a press that comes before a frame must not break;
`FingerKnown` ties the masks to the fingers, in both directions: that the latch
knows of an unanswered press exactly if a finger was lifted since the last frame
or is down makes `TapsAreOwed` inductive, step by step with `OwedStep`.

*Callback runner.* `BehindIsDirty` is not inductive, because it does not look at
the mirror. `MirrorKept` does: a mirror that is not the save is dirty, and a
flush in progress either holds the mirror as its snapshot or knows that the
generation moved, so that its acknowledgement may clear the flag. `StoreKept`
says that the bytes of an item stored so far are in the mirror, and that outside
a store the mirror is `last`. `ThreadsKept` says what the two threads may do at
once: a callback runs only while the router is attached, and the mirror is given
up only after. `LastKept` carries `last` through sessions without an EEPROM.
That `down` is the latch's `previous` gives `TicksSeeEveryTap`.

*Bridge.* `LockWhereCopying` gives mutual exclusion from the control points;
`CopyInProgress` says that the parts already copied equal their source, and that
what `consume()` has found so far agrees with the latch it has walked. The
refinement mapping reads the latch and the frame as of the start of the critical
section, so that its last step is the abstract one and the others stutter.

*Clock.* `Elapsed(now) = since` as long as the true time is below the wrap is
inductive given that a sleep is shorter than the counter; lemmas give `%` of
numbers less than two turns away. `Paced` bounds what the clock believes has
elapsed at each point of the loop, so that no wait carries it around the
counter; it needs that two loops with their wake-ups fit the counter too. That
a sleep in ticks is long enough is that ticks rounded up and milliseconds
rounded down lose nothing together, whatever `part` was before.

*Division.* The step is exact because the remainder, shifted, is the numerator's
bits so far, and a quotient bit that is set always fits the word: the invariant
says so with `(quotient + 1) * Power[bit + 1] <= Word`. `Power` is a constant
with the recursion of 2^k as its assumption (`DivisionAssumption`), because the
provers do not compute powers; the instance gives it the powers of two.

*Session.* `Owned` says what exists at each line, `Outcome` what a failure can
have left; together they are inductive line by line.

*Resources.* Reads return the resource for three reasons, each a part of
`BundleInv`: the scan of `open()` has compared every cell it has passed
(`Scanned`), so an open file is the resource to its last cell (`Verified`);
the cache repeats the file wherever `cached` says so, which is why a read forgets
it before it seeks (`CacheWithin`, with `CacheIsHonest`); and what a read has
copied is the cells from where it began (`Copied`). The scan reads through the
cache itself, so the second is needed for the first. `BundleSpec` is a bundle
whose caller does anything; under the decoder its steps are the same, with calls
that `FxData` makes, and `FxInvariance` carries `BundleInv` over to it.

`decode()` no longer compares `position` and `end`: that they lie in the resource
and in order is only known from the index `begin()` has checked. `FxInv` keeps
that knowledge (`Indexed`: the entries read so far rise, within the resource)
through every later read, because an index entry read again is the same entry
(`Asked`: a read that returned 0 has delivered what was asked for, and by
`BundleInv` that is the resource's). `Placed` then is what each state of `decode()`
knows of its block and its page, and `DecodingStaysInside` follows from it.

*Packs.* What the packer computes is recursive, and no induction theorem that
takes a predicate can be cited. The induction is made by hand: of the offsets
where a claim fails there is a last one, or of the pages a first (well-foundedness
of the natural numbers), and that one does not fail. So `EncodingIs` and `JoinedIs`
give the packer's functions their equations, for any data. From them: a token is a
run of literals that are the data from its offset on (`LiteralsAre`), or a copy of
at least three cells from behind that equal the data ahead (`CopyIs`); the block of
a page lies where the index says (`PackIs`), and no entry of the index is more than
two pages behind the last, so `begin()` accepts every sound pack. `PackInv` then
follows the decoder: what is left of the block is what the rest of the page is
encoded into (`Remains`), and the cells decoded so far are the data. A copy may
overlap what it writes; that it still repeats the data is `CopyRepeats`, by the
remainder of its offset in the distance. A page in the decoder's cache is the data
of that page, and `read()` copies it. The one assumption of its own is the
packer's: the data are not empty (`fx_pack.py:51`). `PackInv` is no property of a
run: what follows from it is.

*Audio.* That nobody writes a note being played (`Borrowed`) needs that nothing
of the sketch sounds while a request is decoded, which needs that the sketch
owns what it plays (`Owned`): otherwise stopping by token would miss it. From
`Owned` also follows that a stop leaves a system sound alone. The other steps
cannot end one: a request that is refused leaves the host, one that is played
sounds itself.

`ScoresPlayWhole` speaks of a request that has ended; `ScoreInv` adds what is true
at every word before (`DecodedSoFar`). For pairs it is that the notes are those
of the pairs so far. For the legacy format the notes are numbered by the waits:
the note of a wait stands at its rank among them, every rank is taken, and
`channel` is what each channel sounds at the end of what was read. Appending a
command changes neither ranks nor sounds of what is before it (`WaitsNext`,
`SoundingStays`), and the last command of a channel exists because a bounded set
of positions has a last one (`LastOfSet`, from the well-foundedness of the
natural numbers). Then a score that is refused has just that flaw: an odd word,
no end, something behind the end, a word or a command that is not supported.

*Drawing.* Each call is shown to change bits of framebuffer bytes only
(`Changed`): the page of a row on the screen is a page of the framebuffer
(`PageOfRow`), a second byte is written only if there is a next page, a clipped
rectangle is on the screen (`ClippedRect`), and a point outside is dropped. For
a line, `LineWalk` says that `error` is the distance from the line in products
of the walked and the long sides; with the longer axis always moving
(`MajorStep`; the other octants follow by symmetry) the end is met at once on
both axes. For a circle `error` is the midpoint's distance from it (`ArcStep`).

`DrawnSoFar` compares bytes, masks and shifts with a picture that has none. Its
proof has three layers. The first says what each writer does to one pixel:
`PixelOfPoints`, `PixelOfMasked`, `PixelOfOr` and `PixelOfRows`. A pixel is a
byte and a bit (`OneBit`), and where a byte of a bitmap lands, in one page or
split over two or cut above the screen, its bit k is the pixel k rows down
(`Landing`, `LandsWhereSeen`). The second says what an `int16_t` hides: a
coordinate and a size below 256 may wrap, but no wrapped number is on the screen
(`NoAlias`, `OnScreen`), so that a pixel of the picture is written exactly if it
is on the screen. That needs a screen and a `uint8_t` that fit an `int16_t`
together (`Width + ByteRange <= Half`, the same for `Height`; 128, 64, 256 and
32768 in the code), ends of lines that are `int16_t`, and a screen wider than a
glyph. The third follows each loop: a turn paints the pixels that it then has
passed, no others (`AreaTurn`, `FillChunkShows`, `NextRectShows`, `StrokeShows`). A turn at a page of
a bitmap that is out of reach paints none of its pixels, as none is on the
screen: `ApplyMasked` sees it only through `Cut`, as if it lay less than a byte
above, and what it then changes is `Stray` (`StrayByte`, `FarByteShows`).
`DrawnSoFar` does not say where the loops are, so it is not inductive; `InPlace`
adds that: `px` is a column of the picture, a row begun by `drawSlowXYBitmap()`
is on the screen, the rectangles left are the last of those given, a glyph
stands at the cursor, the radius bounds the circle's loop, and between two calls
`before` is the screen. TLC checked `InPlace` on the instance of `Drawing`
before it was proved. The instance bounds where calls begin (`Bounded`); the
theorems do not: every screen, text and FX in any order.

Every safety and action property of the runs, and every refinement, is proved.
Only model-checked is everything under fairness: `EventuallySaved`,
`TapsAreTicked`, `LastFrameIsShown`, `ExitIsNoticed`,
`FramesKeepComing`, `StopEndsSession`, `SavedWhilePlaying`, `CallsReturn`
(liveness is out of the proof system's reach, as is `ENABLED`). What is defined by
recursion is proved about where the claim is one over the natural numbers that can
be argued by hand, as for the packer and the scores; that `Power` holds the powers
of two stays an assumption.

## 5. Not modelled

- The characters of ids and paths, the bytes of headers, the CRC polynomial.
- `RuntimeHooks` that replace the clock: their coherence is the caller's duty.
- The formatting of numbers in `Print.h` and the shapes of the font: data. `draw()`
  of the callback runner and the `write()` of `Arduboy.h` that does nothing.
- `pollButtons()` and `frameCount` of `Arduboy2.h`: copies of a mask and a count
  on one thread. The Arduino and AVR adapters keep no state.
- `EepromFile::reset()` outside of init and load: the runtime never calls it.
- The tools and the build: no state at run time.
- Sizes in bytes of buffers and stacks.
- The status that the audio calls leave for `meshbus_arduboy_audio_status()`, and so
  `meshbus_arduboy_audio_unsupported()`, which sets it and nothing else.

## 6. Plan

Done first, because a lost save cannot be repaired: the save. Then what two
threads share: latch, bridge. Then the clock and the session around it, the
resources a sketch reads, the tones it lends to the host, the older interface
with its ticks on the other thread, and the drawing calls.

Left, in this order:

1. Proofs: what the liveness properties rest on, as steps: a number that goes down
   with each turn of `decode()`, of a stroke and of a flush until it returns.
2. Button edges of Arduboy2 and the legacy adapter over the latch.
3. Path construction and validation, the envelope as bytes.

A new property replaces a shallower one where the runs grow too many: the parts
of an invariant that a theorem states need no run of their own.
