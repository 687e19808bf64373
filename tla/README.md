# A formal model of the Skylanders virtual portal

The plugin (`plugin/source`) runs inside IOS on a Wii. It answers the USB-HID
requests that a game sends to a Skylanders portal, serves up to sixteen figures
from the SD card and saves what the game writes to them. An overlay patched into
the game (`overlay/`) draws a menu that asks for figures to be loaded and
removed. Two simpler storages (E09, E11), a portal without figures for HIDv5 and
the first portal, a module of IOS of its own (`portal-core/`), are in the
repository too. This directory holds TLA+ models of the parts of that program which
carry its concurrency and its data safety, TLC configurations that check them,
and TLAPS proofs of their main properties.

All paths below are relative to the root of the repository.

## The system

| Component | State | Operations | Talks to |
|---|---|---|---|
| HIDv4 sessions and dispatch (`plugin/source/hidv4.h`) | `v4_sessions[16]` (parked read and GETDEVICECHANGE, reply ring), `v4_route`, `v4_queue` | `v4_ioctl_dispatch`, `v4_close_dispatch` (HID thread); `v4_process`, `v4_tick` (worker) | the game by IPC messages, the worker by a message queue, the storage by calls |
| Status packets (`e12_storage.h:39-64`, `hidv4.h`) | per session and slot: `transitions`, `status`, `epoch`, `counter` | `e12_event`, `e12_announce`, `e12_status_packet`, `e12_status_commit` | called by the storage and by the sessions |
| Figure storage (`e12_storage.h:155-273`) | `e12_slots`, `e12_ui`, the pending action, the disk job, retry time, save cursor | `e12_begin`, `e12_restore`, `e09_poll`, `e09_complete`, `e11_mailbox` (HID worker) | the storage worker by a queue and shared buffers, the overlay by the mailbox |
| Storage worker and journals (`e12_storage.h:74-154`) | two journal files per catalogue entry, `e11_job` | `e11_worker`, `e11_load`, `e11_save`, `e11_catalog_load` | the SD card |
| Mailbox (`e12_storage.h:217-255`, `overlay/menu.c:51-100`) | 544 bytes at 0x2c00, written by two processors | `e11_publish`, `e11_mailbox`; `request`, `update_menu` | worker and overlay |
| Overlay menu (`overlay/menu.h`) | `menu_state`, `menu_players` | `menu_input`, `menu_input_players`, `menu_mask` | the game's input and the mailbox |
| Startup (`hidv4.h:374-398`, `e12_storage.h` `e09_start`) | two queues, two threads, a timer | `v4_start` (HID thread), `e09_start` (HID worker) | IOS |
| HIDv5 handlers and patching (`plugin/source/main.c`) | the instructions of IOS, patch results, `portal_resumed`, pending responses | three patchers at start, six installers, one handler per ioctl | the loader, the game, the IOS image in memory |
| E11 storage (`e11_storage.h`) | one figure, a swap, a mailbox | `e11_mailbox`, `e09_poll`, `e09_complete`, `e11_worker` | as E12 |
| E09 storage (`e09_storage.h`) | the one figure selected before the game, a trace | `e09_poll`, `e09_complete`, `e09_worker` | the SD card |
| Portal core (`portal-core/portal_core.c`) | two slots, a ring of answers, the poll | `ioctl_request`, `ioctlv_request`, `poll_one_figure` | the game by IPC, two files that the user replaces |

There are four threads of control: the game and its overlay (PowerPC), the HID
thread of IOS, the HID worker (which owns sessions and slots) and the storage
worker. The HID worker receives three kinds of message through one queue:
requests of the game, ticks of a 2 ms timer and the end of a disk job.

### What is hard

* A figure can be written by the game while its snapshot is being saved, while
  it is asked to leave, and while the card fails.
* A swap takes three stages over hundreds of ticks (save the old figure, let the
  game see it go, load the new one); any of them can fail.
* Power can be lost anywhere; the card can report errors or hold something else
  than what was written.
* A status packet is prepared in one step and delivered in a later one. Between
  them figures move and the game cancels, resets or closes.
* Messages of the game are parked across steps and must be answered exactly once
  whatever ends them; descriptors are reused.
* Sequence numbers, generations, counters and the ring wrap.
* The handlers of HIDv5 are written into IOS one by one while the game already
  sends requests, and each write may be lost.
* The portal core learns of a swapped file only by polling, and the game of a
  swapped figure only by two bits per packet.
* Every call that makes a queue, a thread or a timer may fail.

`PROJECT.json` lists these hazards at the lines where they bite, with the
properties that cover them.

## The modules

### FigureStore and Journal

`FigureStore` is what the card promises about one catalogue entry: the figure of
the last save reported as done (`stored`) is found again by every later load, or
else a figure whose save was attempted after it (`limbo`).

`Journal` models `e11_load` and `e11_save`. A save is four steps (`SaveStart`,
`SaveOpen` which truncates, `SaveWrite`, `SaveDone` after the comparison), with
`SaveFail` and `PowerLoss` possible between any of them. A file is absent, torn
or valid with its sequence and figure. Sequence numbers are modulo
`2 * HalfSeq` and compared by their signed difference, as in the code; module
`SeqNumbers` has them, and the choice of the file by their parity, for all three
storages. `acked` and `ever` are history.

### Storage

The sixteen slots, their sixteen menu positions, the pending action and the disk
job. Actions and code:

| Action | Code |
|---|---|
| `Request` | the overlay posts over whatever is in the mailbox |
| `GameWrite` | the W command, `generation++` |
| `Tick`, `Mailbox`, `PollXxx` | one timer message: `v4_tick`, then `e11_mailbox` on every eighth tick, then `e09_poll`; there is one `Poll` action for each way `e09_poll` returns |
| `WorkerFinish` | `e11_worker` sends the end of its job |
| `CompleteXxx` | `e09_complete`, one action for each job and result |

A timer message is split into steps so that each stays readable; the variable
`pc` keeps every other message of the worker out until it is done, and only the
storage worker and the overlay run in between, as in the program. A figure is
its `generation`; `card` is history and says which generation of the slot's
figure the card has.

### FigureMoves and PortalStatus

`FigureMoves` is the interface of the two: figures enter and leave the slots of
the portal one at a time, only an empty slot gets one, no figure is in two. The
storage is shown to implement it (`MovesOneByOne`), and the status packets take
`Leaves` and `Enters` from it for the moves of the figures, so that they assume
nothing the storage does not keep.

The transition queues are the program's 16-bit numbers, with `q % 4` for
`q & 3` and `q \div 16` for `q >> 4`. `Remove` and `Insert` are the moves of
`FigureMoves` with the call of `e12_event` the storage makes at each; `Rescan`, `GetVersion`, `Activate`, `Shutdown`,
`Close`, `SubmitRead`, `Cancel` and `Deliver` are the other places that touch
this state. `seen` is history: the last packet the game received. A packet
carries the figures that were in the slots when it was built, so that the
properties can tell one figure from another in the same slot. The epochs appear
as one bit of the read in flight: whether anything moved since it was built.
`PortalRescan` adds a history variable that says whether the menu may ask for a
rescan in this behaviour: `DeparturesReported` is about those where it may not.

### HidV4

The IPC side. A message posted by the game is with the HID thread (`hid`), in the
queue, or parked in a session; `out` is the set of messages the game still waits
for. `DispatchSend` and `SetRoute` are two steps since the worker may run in
between. The reply ring holds the number of the command each reply belongs to.
`Open`, `Post` and `DispatchStock` stand for the game and the original driver.

### HidStart

The IOS calls of `v4_start` and `e09_start`, one step each, any of which may fail;
`made` is what exists in IOS, `has` what the program holds. The HID worker that
`v4_start` continues begins with `e09_start`, while the HID thread goes on. A
start that fails is tried again by the next ioctl.

### HidV5

The eleven sites where the plugin overwrites an instruction of IOS (`mem`), the
results the installers keep, and the state of the handlers. `PatchV4` and
`PatchCall` are the patchers that the loader runs; `Discover` and `GetVersion` are
the two messages that run the installers (`Install`), which differ in that the
first stops at an installer that fails and the second ignores it; `Change`,
`Stateless`, `SuspendResume`, `Control` and `Interrupt` are the other handlers.
An instruction is stock, ours, or one the plugin does not know; a step chooses
the writes that are lost, at most `MaxFaults` in all. The order of the stores and
of the cache operations of one write is one step: the HID thread handles one
message at a time and executes the code it patches only between messages.

### OneFigure, EarlyStorage, E11 and E09

`OneFigure` is what both early storages promise: the game writes the figure that
is shown; a save may do anything to the records of that figure but lose the content
that was last kept, that is loaded, or reported as saved; and another figure takes
its place only when all that the game wrote is kept. `EarlyStorage` has the state
the two headers share (live figure, job, result, the two journals of every figure)
and the storage worker; `E11` and `E09` have each its mailbox, its poll (`E11Due`,
`E09Due` are the ladder of early returns) and its completion.

The journals are those of E12 (numbers and files of `SeqNumbers`), with two
differences. A load does not fail when a journal cannot be read: it passes over it
(`LoadedFrom`, for any set of journals that can be read) and brings the other record,
or the dump, with the sequence number of what it found. And the next save follows
that number, so `SaveJob` may empty the journal that was passed over; a save that
failed after its record was written does not advance the number, so the next try
empties that record. `kept` and `writes` are history. The abstract `card` is the set
of contents that some load could bring (`OnCard`).

### PortalCore

One request of the game is one step. A slot is its figure, its state and the bits
that its next packets take (`pend`); `Polled` is `poll_one_figure`, `Shown` is
`build_status`. `view` and `met` are history: the bits the game saw last, and the
figure that was in the slot when it was told of an arrival. `Edit` is the user.

### MCPlugin

A composition for TLC of the parts that share no state with E12: `HidV5`, one of
`E11` and `E09`, and `HidStart`. The program has either storage as a build option
and the HIDv5 handlers in all. Since they share nothing, a behaviour runs one of
them, which shows the same as all orders of their steps.

### Mailbox

The memory between the two processors, one word (or one part of a reply) per
step. `pc` is where `update_menu` is in a frame, `wpc` where `e11_mailbox` is in a
poll. The revision is its parity (`odd`) and whether it moved since the overlay
read it (`moved`), which is all its comparison tells but for 2^31 replies
published during one copy. A reply has three parts: the words that carry the
sequence number, the page and the position; the rows of the page; the name of
the figure at the position. They are the value they were made from, so that
parts of two replies can be told. The worker reads a request in two steps,
number first: the code copies one cache line, so this allows more than the
program does. `blocked` is `e12_action || e09_busy`, set and reset freely.
Operations 2 and 3 are one kind, 5 and 6 have no effect on the mailbox.

### Menu

`menu_input_players` once a frame: `held` is what the players hold, `menu` and
`owner` the state of the code, one operator for each return of `menu_input`
(`Toggle`, `ChordHeld`, `Hidden`, `CloseMenu`, `Wait`, `Open`). The library's size
`count` and whether the last request was answered come from the mailbox and are
free at every frame (`count` keeps the size that a load was asked for in). What `Mailbox` assumes of the menu, that only the chord posts
while a request is pending, is the order of the returns in `Input`. `closing` and
`lone` are history. `ClosingKeySwallowed` is about the player in control only:
there is one `swallow` flag for both controllers, and the empty keys of a new
owner clear it while the other player may still hold the key he closed the menu
with.

### Fault operators

Definitions whose comment starts with "Fault:" are wrong versions of the
definition that follows them, each with one plausible mistake. No action uses
them. Replacing the right definition by the wrong one must break the property
that `PROJECT.json` names under "mutants": they show that each property can
fail.

## What the runs check

| Run | Bounds | What it shows |
|---|---|---|
| `journal` | 3 figures, sequence modulo 4 | `LoadNeverStale`, `SavedStaysReadable`, refinement of `FigureStore` (`JournalStore`) |
| `storage` | 2 slots, 3 entries (two of one figure), generations modulo 3, failing jobs and sends | `FigureHomes`: no entry or figure is in two slots and figures keep theirs; `MenuPlaces`: positions match slots and a load finds room; `SavedIsOnCard`, `PresentIffHeld`, `NoProgressLost`, `JobUndisturbed` |
| `storage_live` | 2 slots, 2 entries, fair | `ActionEnds`, `StartsUp`, `DirtyIsSaved`, refinement of `FigureMoves` (`MovesOneByOne`) |
| `portal` | 1 session, 2 slots, 2 figures, with and without rescans (`RescanSpec`) | `EndsRight`, `PacketTrue`, `ArrivalReported`, `CounterContinuous`; without rescans `DeparturesReported` |
| `portal_live` | 2 sessions, 1 slot, 1 figure, fair | `GameCatchesUp` |
| `portal_finding` | 1 session, 2 slots, 2 figures, rescans | violates `RemoveReported` (see below) |
| `hid` | 2 descriptors, 3 messages, ring and queue of 2, failures | `AckedOnce`, `RepliesInOrder`, `ClosedIsClean` |
| `hid_live` | 1 descriptor, 3 messages of every kind, ring and queue of 1, fair | `EveryIoctlEnds` |
| `plugin` | 2 faults at the sites; 2 figures, 2 writes, any journals of sequence 2 and 3, modulo 4; 3 failures of the start | HIDv5: `PatchesInv`, `StatusAgrees`, `Recovers`; E11 and E09: refinement of `OneFigure` (`OneFigureHeld`), `WritesReachCard`; start: `StartedWhole` |
| `core` | 2 slots, 2 dumps, ring of 2, poll every second read, 5 edits, requests and failures | `CoreInv` (what is settled was announced), `QueriesFit`, `Settles` |
| `menu` | 2 players, libraries of 0, 1 and 3 figures | `MenuInv` (a load names a figure that exists), `ClosingKeySwallowed`, `OpensByChord`, `SafeRemove` |
| `mailbox` | 2 arguments, 3 sequence numbers, 2 requests unanswered, fair | `ReplyWhole`, `LoadTrue`, `AckExact`, `AnsweredInTheEnd` |

### Why the bounds are enough

* Journal: the sequence number wraps after four saves and a save only depends on
  the parity and the neighbourhood of sequence numbers; three figures tell the
  source, the acknowledged and the attempted one apart. The proofs cover every
  width.
* Storage: two slots have all the cases of a slot (the one that leaves, another
  that stays); with two copies of one figure every refusal of `e09_complete` is
  reached. Generations are modulo 3 where a write during a save must be told
  from the snapshot and from the saved one. The waiting times are one tick: the
  code only asks whether they have passed. `MailboxTicks` is 1: a mailbox poll
  at every tick has all the orders of one at every eighth.
* PortalStatus: sessions do not share state except the events, so one is enough
  for safety; two are used for liveness. The longest queue has four transitions
  and all of them are reachable with two figures. A counter modulo 2 tells a gap
  and a repetition from a step. The live run needs no counter.
* HidV4: three messages fill the ring and the queue, and leave one for the
  cancel, reset or close. A ring of two wraps. Descriptors and messages are
  interchangeable (`Symmetry`, used without liveness only).
* HidV5: with two faults every pair of an unknown instruction or a lost write at
  any two sites is tried, which is what it takes to lose one write of a group of
  two and one elsewhere; the proofs cover any number. A counter modulo 2 tells a
  step from none.
* E11, E09: a swap needs two figures; the second write is the one that can come
  during the save of the first. Earlier sessions left any of no record, one record and
  two, of sequence 2 and 3: the first save then follows 3 and wraps, or follows an
  older record, or the dump, when a journal was passed over, and empties either file. The delays are one or two ticks, E09's save after
  an error waits as long as a trace, so that either may come first.
* HidStart: three failures end three attempts, or one of each starter.
* PortalCore: a file is replaced, removed, cut short and put back with four edits,
  and the fifth is an A, a failure or a reload in between; a poll every second
  read comes between packets as one every eighth does.
* Mailbox: the overlay posts over an unanswered request only by the chord, and the
  second such request already replaces the words of the first while it is being
  read; `Ahead` bounds this at two, so that the three sequence numbers, which
  wrap, are never confused (2^32 in the program). Two arguments tell the parts of
  two replies apart.
* Menu: one player has every combination of the chord and B, the other the chord
  and every other key; a half-released chord of the second is that of the first
  with the numbers exchanged. Pages of two rows and a library of three figures
  have a full page, a last page and a selection beyond the end. With two UI
  positions Z turns as C does.

### Deadlock

Deadlock is checked in all runs but three. In `journal` an entry whose only
journal was torn before anything was ever saved cannot be read (see below) and
the system rightly stops. In `plugin` the loader may stop before any handler is
the portal's, and a start that failed for the last time ends. In `core` a game
that never resumed the portal has spent the budget of its other requests.

### Fairness

* Storage: weak fairness of the tick, the mailbox poll and the poll (the timer
  fires every 2 ms and the HID worker serves its queue), and of the end of a
  disk job. Completions need strong fairness since they share the worker with
  ticks that come again and again; the queue is first in, first out, so they
  are served. That a job succeeds infinitely often if it is tried infinitely
  often is an assumption about the card: the code retries for ever, and with a
  card that is broken for good nothing can be saved. `storage_live` has failing
  jobs and no failing sends (`SendMayFail`), with which its fair graph is too large;
  those are in `storage`, and `ActionsAdvance` is proved with them.
* PortalStatus: the timer keeps ticking (`Deliver`). `GameCatchesUp` is
  conditional on a game that keeps reading and does not cancel.
* HidV4: the HID thread, the worker and the timer run.
* Mailbox: the overlay draws frames and the worker polls. `AnsweredInTheEnd` is
  conditional on copies that are not disturbed now and then (a copy takes
  microseconds, replies are 16 ms apart), on polls that find the storage idle now
  and then (`ActionEnds` of Storage), and on a player who stops posting.

* HidV5: `Recovers` is about a game that goes on asking for its devices; with
  `MaxFaults` faults in all, one of its requests loses no write.
* E11, E09: the timer ticks and every job ends; a save that is sent, or done, again
  and again works some time. Completions need strong fairness for the reason given
  for the storage.
* PortalCore: the game goes on reading. `Settles` is conditional on nothing else,
  since the user's edits and the failures are bounded.

## The finding

Operation 6 of the mailbox (the rescan of the menu) clears the status and the
transitions of every slot without a present figure, in every session
(`e12_announce`). A removal that was queued and not yet delivered is lost; when
the next figure takes the same slot, the game sees it arrive where it still sees
the old one. Comments (`plugin/source/e12_storage.h:36` and `:44`) and
`pc-debug/test_e12.c:109` say that a removal is finished before a figure is
inserted again. Operations 2 and 3 are deferred while an action is pending
(`e12_storage.h:241`); operation 6 is not. Without rescans the property holds
(`DeparturesReported` in run `portal`).

### Behaviours no document speaks of

The models have these as the code has them; no property forbids them, and nothing
in the repository says they should not be.

* HIDv5: when one of the two lifecycle writes is lost, every later attempt fails
  the pre-image check of the other, so the portal is never announced
  (`HalfLifecycle`, the exception in `Recovers`).
* Portal core: a figure whose file was replaced can be read by the game before the
  packet that announces it; A overwrites a removal that is still to come with an
  arrival, of zeroes, until the next poll; an answer that finds the ring full is
  dropped although its request was acknowledged.
* Mailbox: the chord's page request replaces a load that was deferred, and nothing
  tells the player.
* E12: when `e09_start` fails, `e09_poll` returns before it ends an action, and the
  mailbox defers every later load.
* Menu: the one `swallow` flag lets the other player's closing key through.
* E11, E09: a load that cannot read the newest journal succeeds with the older record,
  or with the dump, and reports nothing; the next save then overwrites the newer
  record. After a load that fell to the dump, saves count from 1, so that a record of
  an earlier session with a higher number hides them from later loads. A save that was
  reported as failed may have written its record; the next try empties it, and when
  that fails too, a load brings the older record again. The tests
  (`pc-debug/test_e11.c`, `test_e09.c`) ask that a torn or corrupt newest journal be
  passed over, and do not tell it from one that could not be read.

## What is proved

The proofs hold for every number of slots, entries, figures, descriptors, messages
and sessions, every width of the counters, every delay and every number of faults,
under the named assumptions of each module (`JournalAssumption`,
`StorageAssumption`, `PortalAssumption`, `MailboxAssumption`, `HidAssumption` with
`NoMsgAssumption`, `HidV5Assumption`, `EarlyAssumption`, `CoreAssumption`, `MenuAssumption`), which say
that the constants are of the right kind; `HidAssumption` says besides that there
are more command numbers than replies that can wait.

**JournalProofs.** `JournalInv` is inductive: the file of the parity of the
acknowledged sequence holds the acknowledged record (`Kept`), the other file is
its neighbour, before or after (`Neighbour`), and a save in progress works on
that other file (`InJob`). `LoadNeverStale` alone is not inductive since it does
not say which file a save may overwrite. From it follow `TypeOK`,
`LoadNeverStale`, `SavedStaysReadable`, and the refinement of `FigureStore`: each
step maps to a step of the store or to a stutter. The arithmetic is that of
neighbours modulo `2 * HalfSeq`: next to each other, the signed comparison is
right also across the wrap, and the parities differ.

**StorageProofs.** `StorageInv` is inductive. Besides the properties themselves
it says: a pending action remembers the slot its position still has, and a
pending load has no owner yet (`ActInv`); a load job belongs to the pending
action and its old figure is saved; a job exists exactly while `e09_busy`
(`JobInv`); the card has the saved generation, or the snapshot while the
completion of a save is still in the queue (`CardInv`). Proved from it:
`OneOwner`, `UidHome`, `UiMap`, `PresentIffHeld`, `SavedIsOnCard`,
`AutoloadMeansEmpty`, `AlwaysRoom` (by counting: positions and slots are equally
many and the map between positions and slots is injective), their conjunctions
`FigureHomes` and `MenuPlaces`, the action properties `NoProgressLost` and
`JobUndisturbed`, and `MovesOneByOne`: the storage implements `FigureMoves`, with the
figure of a slot that is present for `fig` (a step that changes no such figure is a
stutter, and a completed load enters a slot that was empty by `PresentIffHeld`).

**PortalStatusProofs.** The inductive invariant `PortalInv` of that module says
what every queue of an open or closed session may be and where it ends. Proved from
it: `EndsRight` and `PacketTrue`. What a session is told of a slot from packet to
packet needs more than one state can show, so three invariants relate the queue to
the last packet the game got and to the one in flight. `ArrivalInv`: a packet that is
not stale is the one that would be built now, and the figure of a slot whose arrival
is no longer queued (`Settled`) was shown in both; from it, `ArrivalReported`.
`DepartureInv`, of the behaviours without rescans (`PortalRescan`): where the queue
stands says which figure a packet can still show (`Knows`), and the packet in flight
may follow the last one (`Follows`); from it, `DeparturesReported`. `CounterInv`: the
next packet continues the last one; from it, `CounterContinuous`. What a step does to
one slot in one session is one of a few forms (`Left`, `Entered`, `Rescanned`,
`Restarted`, ...), and each invariant is shown once per form.
`PortalFollowsMoves` shows that the status packets assume nothing of the storage but
`FigureMoves`, which `StorageMovesFigures` shows it to implement, and `FiguresApart`
that nothing which implements `FigureMoves` has a figure in two slots.

**MailboxProofs.** `ReplyInv`: the revision is odd exactly while the reply is being
written, the parts written so far are the worker's, and a copy under way equals
the reply as far as it got unless the revision moved. `ReplyWhole` is its last
conjunct and needs the others to be inductive. `OrderInv`: a sequence number wraps, so
numbers are compared by their age (how many requests ago they were the current one);
along the path from the overlay to the box, the worker, its reply and the copy the
ages do not decrease, and none reaches the width of the number, so that two equal
numbers are the same request. With it, `RequestInv` says of the last request what it is
wherever its words are: in the box when they were written (`PostedInv`), begun only
once and only when consumed (`LoadInv`), and answered by a reply of its own page and
position (`AnswerInv`). From these follow `LoadTrue` and `AckExact`.

**HidV4Proofs.** `HidInv` is inductive. It joins `AckedOnce` and `RepliesInOrder` with
`CloseInv`: a close is the last message of its descriptor in the queue, and a session
whose descriptor is not routed, and whose message is not just being sent, is clean.
The exception is the window of `SetRoute`: the worker may have handled the message
before the route is set. `ClosedIsClean` follows from `CloseInv` and is not inductive
without it. `RepliesInOrder` is shown per session
with `Follow`, which relates a ring, its head and count to the numbers of the
commands, and a lemma for each thing that can happen to a ring: a reply is pushed,
popped into a read, lands or is given up with it, or the session is emptied. The
arithmetic of the wraps is in `StepThenMore`, `MoreThenStep` and `OtherCell`. Proved:
`TypeOK`, `AckedOnce`, `RepliesInOrder`, `ClosedIsClean`.

**PluginProofs** is about the parts that `MCPlugin` runs.
The HIDv5 handlers: `V5Inv` adds to `PatchesInv` and `StatusAgrees` that nothing leads
to a handler before the loader is past the discovery call (`Fresh`), and what the owed
answers will say (`Owed`: when an answer to R is owed and none to A, the portal is not
active).
The storages: `E11Promise` and `E09Promise`, both implement `OneFigure`. The
invariant (`EarlyInv`) says that every record is in the file of its parity
(`InPlace`), that the content last kept is the dump or the record of the sequence in
memory (`Stays`), that a save follows this record and therefore goes to the other
file (`Saving`), and that a load runs only when nothing is dirty (`Loading`).
`OneFigureHeld` is not inductive without the sequence numbers: the abstract card does
not say which file has what. `AcknowledgedContentStays`: what was last loaded or
reported as saved can be loaded as long as the figure is live, whichever saves fail
and journals are passed over, and it is what the memory has when nothing is dirty.
That a load brings it, and not another record, is not promised (see above).
The start: `StartInv` says what a starter has made when it makes its next call
(`MadeSoFar`), and that `e09_start` begins only in a worker that runs, and so once
(`OnceStarted`); without the latter a second start of the HID worker could find parts
of the first. `StartedWhole` follows.

**MenuProofs.** A frame is described once for all returns of `menu_input` (`Effect`,
shown in `InputFacts` from one lemma per group of returns), then `MenuStrength` is
inductive: the menu has the keys of the player in control, a removal is armed only in
an open menu whose opening chord was released (`Disarmed`), and while that player
holds MINUS it is armed only if he holds it alone since he pressed it in the open menu
(`ControlInv`). The last is what a frame with C or Z and a stale `armed` could break:
it does not look at MINUS and PLUS. From it follow `MenuInv`, `ClosingKeySwallowed`,
`OpensByChord` and `SafeRemove`, for any players, any sets of keys and any library.

**PortalCoreProofs.** `CoreStrong`: a slot that is settled, or about to be, has the figure
of the last arrival, and one that is there was there in the last packet. From it
follow `CoreInv` and `QueriesFit`.

### What the liveness properties rest on

The prover has no rule for fairness, so liveness is only model-checked. What the
steps contribute to it is proved of every instance, without fairness:

* `ActionsAdvance` (for `ActionEnds`): a pending action is not replaced, and waits for
  fewer ticks with every tick; its figure, once saved, stays saved, since the game
  cannot write to a figure that has left; a poll that finds the disk idle takes the next
  part, and the end of the load or any failure ends the action.
* `ScanComesRound` (for `DirtyIsSaved`): every save that `e09_poll` starts is that of a
  given unsaved slot, or brings the cursor nearer to it, and nothing else moves the
  cursor.
* `CalmIsProgress` (for `GameCatchesUp`): while no figure moves and no read is
  cancelled, queues only shrink, a packet that is not stale takes a transition of every
  queue, the one after the last transition tells the truth, and no step makes it untrue.
* `IoctlsAdvance` (for `EveryIoctlEnds`): nothing overtakes in the worker's queue, and no
  step lengthens the wait of a parked read.

Only model-checked are `ActionEnds`, `StartsUp`, `DirtyIsSaved`, `GameCatchesUp`,
`EveryIoctlEnds`, `Recovers`, `WritesReachCard`, `Settles` and `AnsweredInTheEnd`: the
liveness properties. Every other property of a passing run is a theorem. `TypeOK` of
the proved modules is a theorem, or part of an invariant that is one, and no run
repeats it.

## What the models leave out

* Journal: a read of a journal that fails for a moment (an error other than
  "absent" makes `e11_load` fail, which changes nothing; a short read counts as
  torn). The hashes are taken to detect every torn record. Before the first
  save was ever completed, one torn journal and no valid one make `e11_load`
  fail with -4 although the source dump is intact: `SavedStaysReadable` states
  what holds, namely after a first save.
* Storage: it begins after `e09_start` has succeeded (its failures are in `HidStart`);
  the heartbeat, the
  magic words and the test for a routed session in `e11_mailbox`, which only
  make it do nothing; requests with an index out of range, which it refuses.
  A figure is written fewer than `GenMod` times between two saves, so that
  generations never lap (2^32 writes in the program).
* PortalStatus: a game that sends A to a portal it had shut down starts again
  without figures; the model resets what it has seen.
* HidV4: messages of the timer in the queue; a send that fails for a close.
  The tick counter does not wrap (it takes 99 days).
* HidV5: the bytes of descriptors and of the snapshot beyond the state they show.
* E11, E09: the calls within a job, which is one step with each outcome its calls
  can leave behind, and loss of power, after which a new session begins with journals
  as earlier ones left them; the bytes of a trace; `selected.cfg` and the dump are
  the same throughout a session. The initial load of E11
  is not tried again by the code when it fails, only by the mailbox.
* PortalCore: the start of the device, descriptors, the `SKY_DIAGNOSTIC` build.
  A figure the game wrote is told apart from the dumps, not from itself as written
  otherwise.

* Mailbox: a game without a routed session, which makes the worker do nothing;
  operations out of range; what is in the memory before the first reply; the
  error and busy words of a reply, which the menu only shows.
* Menu: the drawing and the copies of the pad data that are masked.

### Not modelled

* Probe and diagnostics (`probe/`): console programs that send one request after
  the other and print what the hardware answers. The portal does not depend on
  them.
* PC tools, tests, installer: build scripts, packaging and patching of files on a PC.
* The validation of the catalogue file and of dumps (`e11_catalog_load`): functions
  of one buffer, without state, which unit tests reach. The storage has their
  outcome.
* Drawing of the overlay and the PowerPC trampoline.

## Plan

Done: every component that keeps state is modelled, and every invariant and action
property that a run checks is proved. What is left is proof of the steps that the
remaining liveness properties rest on:

1. `StartsUp` of Storage: what keeps the initial load from beginning is an action, a job
   or the delay after one, and each passes.
2. `AnsweredInTheEnd` of Mailbox: a request that is consumed is published next, and a copy
   that is not disturbed takes it.
3. `Settles` of PortalCore and `WritesReachCard` of E11 and E09: what a poll leaves to be
   announced or saved.
