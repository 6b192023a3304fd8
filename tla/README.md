# A TLA+ development of Comos OS

Comos OS is a bare-metal operating system for x86 in C++ (`src/`), written in a
macro dialect of the language (`schneider_lang.h`: `_15` is `if`, `_39` is
`for`, `_114` is `while`, `_96` is `return`).  Two images are built from it:
OS1, 32-bit, around `kernel.cpp`, and OS2, 64-bit, around `kernel_main.cpp`,
which is linked *with* `kernel.cpp` and lets the first definition of a
duplicated symbol win (`--allow-multiple-definition`, `build.sh`).  The
scheduler, the windows and the disk manager of OS2 are modelled, the disk manager
of OS1, and the drivers both are linked with: SATA, USB sticks, the network, the
readers of foreign disks.

This directory holds TLA+ modules that model parts of it, TLC configurations
that check them on small instances, and theorems about them that TLAPS proves
for every value of the constants.

## The system

| Component | State | Operations | What is hard about it | What makes it correct |
|---|---|---|---|---|
| Task scheduler (`kernel_main.cpp` 121–289, 1637–1800, 3064–3104) | `tasks[4]` with saved stack pointer, `active`, `paused`; `current_task`, `num_tasks`, `system_ticks` | timer interrupt, `create_task`, pause and close buttons, `yield`, `sleep_ms`, `int 0x80`, `load_and_run_bin` | preemption between any two instructions of the main loop; system calls run with interrupts off; slots are reused | nobody runs who is closed or paused, contexts are not mixed up, nobody starves, the processor never halts deaf |
| Speaker (`kernel.cpp` 1205–1250) | port 0x61 / the HDA stream, `sound_muted` | `play_freq`, `play_sound`, mute button | apps and the main loop drive it concurrently | no tone without an owner, silence while muted |
| Disk explorer with CFS (`kernel_main.cpp` 2085–2126, 3160–3970) | directory sector 1002, data sectors, `cfs_files` cache, clipboard RAM, `active_file_lba`, `selected_drive_idx`, mount flags | mount, format, +FILE, PASTE, COPY, OPEN, SAVE, SAVE AS, MKDIR, new folder | one directory, several writers with different layouts; flags that outlive the drive they describe; unchecked reads and writes | entries outlive other people's writes, a file is there with all its sectors or not at all, the list agrees with the disk, every entry can be reached |
| AHCI driver (`cosmos_ahci.cpp` 254–316, 532–601; `kernel_main.cpp` 864–891) | port registers, one command slot per port in memory | read, write, IDENTIFY, reset of a port | a timeout leaves a command in flight while the next is built in its place; polling with and without a timeout; errors stop a port | a success means that the request was carried out; calls return |
| Drive list of OS2 (`kernel_main.cpp` 3150–3160, 3562–3662; `cosmos_ahci.cpp` 532–721) | `drives[8]`, `drive_count`, `selected_drive_idx` | scan, REF, SCAN USB, select, OPEN, SAVE | a selection is an index into a list that is built anew | no disk twice, the index means the drive that was selected, a label is the drive's own |
| OS1 disk manager, notepad, SAVE AS (`kernel.cpp` 2017–2376, 2534–3444, 3847–4086; `cosmos_fs.cpp` 53–275) | `drives`, `file_table[28]`, `active_drive_idx`, `dsk_view`, the directory of each disk, `current_open_file`, the dialog's step | open, format, new file, import, delete, rename, recover, save, save as, new folder, enter, page | five buttons allot entries by rules of their own; rows outlive the disk they were read from; a drive list that loses its labels; transfers nobody checks | an entry owns its sector, living data are kept, a button changes one entry, a row in the root is the entry on the disk |
| TBA stream (`cosmos_tba.cpp`), CFS library (`cosmos_cfs.cpp`) | | | linked, but nothing that runs calls them | – |
| USB sticks (`cosmos_usb.cpp`, `kernel.cpp` 289–385, 478–534) | UHCI frame list, one pair of data toggles, the list of sticks | enumerate, READ(10), READ CAPACITY | toggles and stale answers after a lost packet or a refused command; two sticks that share the toggles | a read that succeeds is true; a stick that nothing disturbs answers |
| Network (`net.cpp`) | e1000 rings of 32 descriptors, RTL8139 buffer of 8 K, addresses, status line | start, poll, send, DHCP DISCOVER, ARP, static address | rings shared with a device that works at any time; a driver started again with an old place in its ring; a sender that never looks whether there is room | frames are handled and sent in order and once; calls return; reception goes on |
| Input (`kernel_main.cpp` 735–770, 1039–1090, 2360–2510) | one-byte key mailbox, mouse packet position, `last_app_key` | poll 8042, keyboard ISR, main-loop consumption | a mailbox with one place; a three-byte protocol that may lose a byte | every key is delivered once |
| Window manager (`kernel_main.cpp` 1024–1030, 1708–1712, 2515–2580) | `windows[14]`, `win_z[14]` | focus, toggle, close, drag, resize | the z order is edited in place, also by buttons served while the painting loop walks over it; one press is seen by the hit test, the desktop and every window | the z order stays a permutation, every visible window is painted once a frame, one click works one button outside the games |
| Heap (`kernel_main.cpp` 500–520), paging (`memory.cpp`) | free list, page tables | allocate, free, clear NX | nothing in OS2 allocates from the heap | blocks are disjoint |
| Readers of foreign disks (`cosmos_partition.cpp`, `cosmos_fat32.cpp`, `cosmos_ahci.cpp` 318–409, `kernel_main.cpp` 1949–1985, 3305–3442) | partition count and starts, the folder shown and its page, the buffers | PART, folders and pages of a FAT32 drive, SCAN of OS1 | a buffer for long names, one table for all ports, 16 bits for a sector, reads that fail | what is shown is what is on the disk |
| HDA (`cosmos_hda.cpp`), graphics, arcade, desktop drawing, CMD texts | device registers, pixels | | pure device I/O, drawing | |

Everything runs on one processor.  The main loop of `main` polls the devices,
handles one input at a time and redraws; it is task 0 of the scheduler.  The
other tasks are the idle task, the worker of `START`, and apps loaded from disk,
which reach the kernel by `int 0x80`.  The only interrupt that the PIC lets
through is the timer (mask 0xFE, `kernel_main.cpp` 739).

## Modules

| Module | Models | Checked by | Proved in |
|---|---|---|---|
| `TaskScheduler` | scheduler, speaker, app loader, system calls | `MCTaskScheduler` | `TaskSchedulerProofs` |
| `RoundRobin` | the same with a history variable | `MCRoundRobin` | `TaskSchedulerProofs` |
| `CpuSharing` | abstract: one processor shared by several tasks | as a property of `RoundRobin` | `TaskSchedulerProofs` |
| `CfsExplorer` | disk manager, CFS directory, notepad's SAVE and SAVE AS, MKDIR | `MCCfsExplorer` | `CfsExplorerProofs` |
| `FileStore` | abstract: what COPY, PASTE and FORMAT promise | as a property of `CfsExplorer` | `CfsExplorerProofs` |
| `WindowManager` | one frame of the main loop: polling, hotkeys, hit test, desktop, painting | `MCWindowManager` | `WindowManagerProofs` |
| `AhciPort` | the SATA driver, and the adapter it drives | `MCDiskDrives` | `DiskDrivesProofs` |
| `DiskDrives` | OS2's drive list, its scans and the calls of its user, on top of `AhciPort` | `MCDiskDrives` | `DiskDrivesProofs` |
| `BlockDevice` | abstract: what an answer of the driver means | as a property of `DiskDrives` | `DiskDrivesProofs` |
| `Os1Disks` | OS1's disks, its drive list, and what OPEN DRIVE makes of their first sectors | `MCOs1Explorer` | `Os1ExplorerProofs` |
| `Os1Explorer` | OS1's disk manager, notepad and SAVE AS dialog, on top of `Os1Disks` | `MCOs1Explorer` | `Os1ExplorerProofs` |
| `E1000` | the two descriptor rings and what driver and adapter do to them | `MCNetwork` | `NetworkProofs` |
| `Network` | the driver of `net.cpp`: start, poll, send, addresses, RTL8139, on top of `E1000` | `MCNetwork` | `NetworkProofs` |
| `FrameQueue` | abstract: a queue of frames, with or without a check for room | twice as a property of `Network` | `NetworkProofs` |
| `UsbStorage` | UHCI transfers, Bulk-Only commands, enumeration, and the sticks | `MCUsbStorage` | `UsbStorageProofs` |
| `DiskReaders` | PART, the FAT32 folders of OS2, SCAN of OS1 | `MCDiskReaders` | `DiskReadersProofs` |

The concrete modules are cut along the state they share.  The disk
manager and the window manager run inside task 0 of the scheduler, so their
handlers may be preempted at any instruction.  Only the scheduler, the app loader
and the speaker share memory with other tasks; the window and explorer state is
touched by task 0 alone, so a handler's memory accesses are atomic for it and
the other modules do not compose with the scheduler.  What is *not* atomic in
the explorer is the disk: sectors reach it one at a time, and the power may fail
in between.  `CfsExplorer` takes the drives below it as steps that work, fail or
are cut short; `DiskDrives` looks below that, at the commands, and leaves the
contents of the directory out; OS1 and OS2 share drivers and disks but never run
together.  Devices run beside the processor: the adapters of `AhciPort` and
`E1000`, and the RTL8139, take steps between any two of the driver's.  Apps run in
the same address space without protection; the models
assume that an app writes to its own memory only.

### TaskScheduler

| TLA+ | Code |
|---|---|
| `active`, `paused`, `saved[s]` | `tasks[s].active`, `.paused`, and the interrupt frame that `tasks[s].rsp` points to |
| `num_tasks`, `current_task` | the variables of that name |
| `cpu` | the context the processor executes: whose it is (`slot`, `serial`), which program, where in it (`pc`), the interrupt flag (`ie`) |
| `serial`, `spawned` | auxiliary: which `create_task` call a slot stems from |
| `request`, `sector`, `ram` | the progress of `START`, `RUNAPP` and `load_and_run_bin`; what lies at 0x01100000 |
| `sleep_left` | ticks until a task's `sleep_ms` target |
| `tone`, `sound_muted` | the speaker gate or HDA stream, and the mute flag |

`Tick` is `pit_isr` with `schedule`: it stores the frame, counts down the
sleepers, visits the slots from the one after `current_task` and loads the frame
found.  It is possible between any two steps while `cpu.ie` is set.
`BootTask0` and `CreateTask` are the end of `main`'s initialisation and
`create_task` (which takes the first inactive slot and ends in `sti`);
`StartCommand`, `RunApp`, `ReadSector`, `ReadSectorFails`, `CheckSignature` are
the commands and the loader, one step per sector; `TogglePause`, `CloseTask`,
`Silence`, `ToggleMute` the task manager's buttons, where the write to the table
and the following `play_freq(0)` are two steps, because a tick may fall between
them; `SleepMs`/`SleepEnds`, `TestBeep`/`BeepEnds` the `hlt` loops.  `Int80`
enters the kernel through an interrupt gate, that is, with interrupts off, and
the `Dispatch...` actions are the four calls that change this state.  System call 0
is the only one that can be preempted: `yield` does `sti; hlt` within the dispatcher,
so the task rests there (`DispatchYield`), the frame `Tick` saves lies inside the call
(`PastHalt`), and the task goes on to the end of the call when it is resumed
(`YieldReturns`).
`AppDerails` stands for undefined behaviour: an app whose code was replaced
under it executes what lies there now, which is a choice over what the processor
can do next.

`RoundRobin` adds `waited`, how often in a row a runnable task was passed over,
and maps the scheduler to `CpuSharing`: `ready` is task 0 and every runnable task,
`owner` is `current_task`.

### CfsExplorer

| TLA+ | Code |
|---|---|
| `boot`, `dir`, `data` | sector 0, sector 1002 and the sectors from 4000 of each drive |
| `pending` | the sectors the running handler has still to write |
| `selected`, `opened`, `is_mounted`, `is_ntfs_drive`, `is_fat32_drive`, `current_folder_id` | `selected_drive_idx`, `dsk_mgr_opened` and the flags of that name |
| `cfs_files`, `buf_dir` | the cache of entries, and the directory buffer at 0x00901000 |
| `clipboard_active`, `clipboard_is_folder`, `buffer` | the clipboard and the memory at 0x09000000, which is also the notepad's text |
| `unread` | history: the running handler writes a directory that it could not read |
| `save_step`, `active_file_lba` | the SAVE AS dialog, and the sector SAVE writes |

Every button is an action that reads at once and queues its writes in the order
of the code; `WriteNext` lets one sector reach the drive, `WriteLost` loses it (a
USB stick, which `disk_write_auto` does not know, or a drive that fails), and
`Reboot` forgets the memory with the queue at any moment.  Where the code ignores
a failed read, the action goes on with what the buffer held.  `MountCfs`,
`MountNtfs`, `MountFat32`, `MountUnknown` are the branches of OPEN in the list of
drives; `Refresh` is the trailing listing several handlers end with.  Sectors have
their numbers in the code: the directory 1002, SAVE's fallback 500, `app.bin` at 10000,
files from 4000 on, PASTE's with a stride of `FileSectors` (10 in the code).
`ForeignStarts` is what the file of a foreign drive has for a sector, any 16 bits: the
number of its MFT record (3366), or the sector of its first cluster, cut off (3400).
SAVE writes that number on the drive selected now, and if it is 1002 the directory
becomes what the text reads as (`TextWrite`).  The directory buffer at 0x00901000 is
memory nobody clears, so it is anything at boot (`RawDirs`).  The texts of names are left
out: an entry is its type, its start and its parent.

`FileStore` is what a user of COPY, PASTE and FORMAT relies on: a slot is empty or
holds what the clipboard held at the one moment it was stored.

### WindowManager

A frame walks through `pc`: *poll* (`handle_input`, mouse packets and key bytes
until the 8042 is empty), *keyboard* (hotkeys), *pointer* (the hit test from the
top down, drag, resize, the title bar), *desktop* (planets and sun) and *paint*,
where `place` walks from the lowest to the topmost window, and painting a window
also serves its buttons.  `win_z`, `open`, `minimized`, `mouse_down`,
`mouse_just_pressed`, `input_cooldown`, `click_consumed`, `is_modal_blocked` and
`z_blocked` are the variables of the code.  Geometry is a choice: which windows
lie under the mouse, which part was hit and whether a button is there.  `shown`,
`painted`, `fired`, `from_below` are history variables for the properties.
`Raised` is `focus_window`.  The games' buttons (`PlayArcade`) ask neither whether their
window is topmost nor, most of them, for the cooldown (`arcade.cpp` 256–289, 366–393):
they obey a press that another window obeys too, and may leave it to others.

### AhciPort and DiskDrives

| TLA+ | Code or device |
|---|---|
| `slot[p]` | the command header, table and PRDT of port *p* in memory while CI is set |
| `fetched[p]`, `halted`, `tfes`, `engine` | the command the adapter works on; ports stopped by an error; PxIS.TFES; PxCMD.ST |
| `disk`, `mem` | sectors and buffers: sector 0, and the sector SAVE writes |
| `pc`, `port`, `cur`, `answer` | where the driver is, and with which request |
| `trusted`, `carried` | history: ports that owe no given-up command; the present request was carried out |
| `drives`, `drive_count`, `selected_drive_idx`, `drives_scanned`, `usb_scanned` | the variables of these names |
| `caller`, `unmounted`, `looked_at` | which function waits for the driver, and how far its loop is |
| `chosen`, `seen`, `same` | history: the entry that was clicked, the disks listed then, whether later scans found the same |

`Begin` writes the table (a fetch of an older command meanwhile sees it half
written: `Torn`), `Issue` sets CI, `Done` and `GiveUp` leave the polling loop,
`Waited` the loop of `ahci_identify`, which has no timeout.  `Fetch`, `Transfer`
and `Fail` are the adapter's.  `MountPort` and `ListPort` are one turn of
`ahci_mount_drive`, `ReadBoot` and `LabelDrive` one of `ahci_read_mbr`.  The map of
owed requests to `BlockDevice` is what the adapter has fetched, what lies in the
slot while CI is set, and the request in hand.

### Os1Disks and Os1Explorer

`disk[u]` is a SATA disk or a stick: its kind, its directory (sectors 1002 ff.) and
its data sectors.  The first sectors are abstracted to the kind; `LookAround`,
`HasPartition`, `MftAfter` say what the analysers conclude from one, `OpenedTable`
which rows OPEN DRIVE puts into `file_table`.  A name is where it came from: typed,
given by the program, fixed, or garbled bytes.  At boot the table has the two rows of
`fs_init` (`FirstRows`); they are memory only, and no disk's.  `Outcomes` lets a transfer fail
(`MaxFails` times); the buttons go on, as in the code.  Each button of windows 4, 2,
0 and 10 that reads or writes a disk, a row or the drive list is one action; their
names are those of the buttons.  `shown` is a history variable: the disk whose
directory filled the rows.

### E1000 and Network

A ring is `slot`, the adapter's `head`, the driver's `tail` and its place `cur`.
`Arrived`, `Transmitted` are the adapter's steps, `Handled`, `GivenBack`,
`HandedOver` the driver's; a poll is `Poll`, one `HandleFrame` per frame, and
`PollEnds`, which writes RDT once.  `NetRaw` hands a frame over and waits in
`SendReturns` or `SendTimesOut`.  The RTL8139 is `rtl`: the driver's `idx` and the
chip's `read` and `write` offsets into the buffer `at`; `Past` is the sum that finds
the next header.  `online` and `ip` are the status line, as far as PING reads it, and
`ip_address`.

### UsbStorage

`stick[p]` is a stick with its address, its own toggles and the packets it will
send; `toggleOut` and `toggleIn` are the driver's one pair.  A call is the stages
`command`, `data`, `status` of `pc`.  `Fault` loses a packet or makes the stick
refuse a command.  `whole` says whether one packet holds a sector, as an emulator
does, or 64 bytes of it.  `ScanUsb` is OS2, which lists the controller under its I/O
base; `OwnRead` and `Sweep` are OS1's second, unused-port reader.

### DiskReaders

A directory is a sequence of entries (end, deleted, label, part of a long name,
file, folder); `Listing` and `Spelling` are recursive functions over its places, whose
values are the local variables of the two loops after that many entries.  What they are
compared with, `Shows`, has no loop and no buffer.  `Refresh` reads a sector and lists it;
`StartLba` cuts the sector number to 16 bits, as `FileEntry.start_lba` does.  `MountFat32`
ignores, as the code does, whether the boot sector was read: `fat32_init` then computes
its addresses from what the buffer holds, another drive's perhaps (`StaleStart`).
`ScanPartitions` is one port of PART.  A read of a port that is stopped or empty answers
"yes" and transfers nothing, and a late transfer may fill the buffer with an older
request's sector: `live` are the ports that transfer, `late` says that an old transfer
may yet come, `sector` whose sector is in the shared buffer, `sure` the ports that were
live and asked while nothing was late.  `Spelled` reads what SCAN reads: the comparison
with 0xE5 is of a signed `char` (`cosmos_ahci.cpp` 346) and never true, so a deleted
entry is listed like a living one, or taken for a part of a long name.

## Runs

Bounds are constants of the modules; each is named in the `.cfg`.

| Run | Bounds | Question |
|---|---|---|
| `sched_safety` | 4 slots, 2 sectors, sleeps of 2 ticks, 4 spawns, all system calls, reload allowed | Is a paused or closed task ever run, a context mixed up, a slot missing, a tone left behind? |
| `sched_fair` | 3 slots, 1 sector, 1 tick, 3 spawns, calls that do not sleep, no reload | Is the number of passes bounded; is `CpuSharing` implemented, fairness included; do the main loop and a yield inside a system call return? |
| `sched_syscall_sound` | as `sched_fair` with 2 spawns and system call 6 | `HaltWakesUp` is violated |
| `cfs_paste` | a CFS and an NTFS drive, 3 entries, 2 sectors a file; COPY, PASTE, FORMAT | Is `FileStore` implemented, with a power failure between any two sectors? |
| `cfs_folders` | a CFS and a blank drive, 2 entries; NEW FOLDER and SAVE AS | Do list and directory agree; is everything stored reachable? |
| `cfs_foreign` | a CFS drive and a FAT32 stick, both of which fail now and then, a foreign file that "starts" at sector 1002, 2 entries; + FILE, MKDIR, SAVE | Which handlers change or remove an entry of the CFS drive? |
| `windows` | launcher, Pong, notepad, SAVE AS; cooldown 2, one packet or key a poll | Is the z order a permutation, is each visible window painted once, can a closed window be marked minimised, does one click work one button outside the games, does every visible window keep being painted? |
| `disk_drives` | 2 ports, 2 sectors, 2 buffers, a list of 2, 3 clicks | What does an answer of the driver mean, what does the index mean, whose is a label, do scans and OPEN return? |
| `os1_explorer` | 2 SATA disks and a stick, 2 slots, 1 failed transfer, 6 clicks, of which OPEN of a CFS disk may be the last | Do files share sectors; which entries and data can a click destroy; are the rows the disk's? |
| `net` | rings of 3, an RTL8139 buffer of 20 bytes, frames of 2 lengths and 3 kinds | Are both rings queues; does the RTL8139's driver find its frames; do calls return; does reception go on? |
| `usb` | 2 ports with or without a stick, 2 sectors, whole and split packets, 3 faults | Is what a read returns true; does an undisturbed stick answer? |
| `disk_readers` | every root of 3 entries, folders of 4, one beyond sector 65535, 2 ports that may transfer nothing, reads that fail | Is what is listed on the disk, and on which? |

`SlotsAreSound`, `TonesBelong`, `DirectoriesAreTrees`, `ListIsSound`, `DirectoriesAreSound`,
`DriverIsSound`, `TransfersAreSound` and `TablesAreSound` are conjunctions of the type
invariant or of the properties named in their definitions.  The properties that no run
lists, `TypeOK` of `TaskScheduler`, `WindowManager` and `CfsExplorer` and `OrderIsKept`
of `WindowManager`, are proved for every value of the constants.

### What the violation shows

`sched_syscall_sound`: system call 6 reaches `play_sound`, which sleeps on
`hlt`; the interrupt gate has cleared IF, so nothing wakes the processor.  The
comment in `sleep_ms` (`kernel_main.cpp` 2162–2163) says the PIT does.

### Why the bounds are enough

*Scheduler.*  Three slots are the least with which a task can be passed over by
another than task 0; four, the size in the code, let a closed slot lie between two
live ones and be reused.  With four spawns a slot is taken, closed and taken again
while the others are full.  Two sectors let a tick, and a failure, fall
between reads.  The safety theorems hold for every value.

*Explorer.*  Two entries show every relation between a file and a folder or
between two files except a cycle of two with a third outside; three are used where
slot numbers are multiplied into addresses.  Of the sectors a foreign file may start at,
three kinds matter: the directory's, one among the files and any other.  Two sectors a file are enough to
tear one.  Two drives are enough for a flag or a folder of one to be used on the
other.  Handlers are sequential and the directory is the only unbounded state, so
larger directories repeat these cases, and the theorems hold for every size.
MKDIR looks at one entry of two, as the code does at 8 of 28.  Each run offers the
buttons its question needs: some buttons break some
properties (see below), and the run then says for which ones they hold.

*Windows.*  The set is chosen so that each kind of window occurs: one that opens
others, one with a dialog, and a game.  The disk manager, whose USB scan may open the
debug window, and the browser, which listens like the launcher, are left out of the
run (the theorems hold for all fourteen).  A cooldown of 2 distinguishes "just
clicked", "cooling" and "ready".

*Disk drives.*  Two ports are enough for a command of one to be late while the other
is asked, and for an index to mean the other disk.  A list of two places is filled by
one disk and the stick.  Three clicks are a scan or a selection, REF, and one use of
what is left; what is in flight on a port depends on its last two requests only.

*OS1's disk manager.*  Two slots: an entry beside a free one, and two files.  Two disks and a
stick, so that the index can shift in the list by the stick that REF moves to the front,
and the stick's address is also a port.  Six clicks are open, a change, back or
REF, another drive, open, another change.  One failed transfer; the properties
that fail with the first one say so.

*Network.*  A ring of three holds two frames, so it can be empty, half full and full, and
its driver wraps around.  The buffer of 20 bytes is filled by frames of 12 bytes or
of 8 whose lengths need padding or not.  Starting again and the arrival of frames are
unbounded.

*USB.*  A sector is sent in three parts when packets are small: no call gets past the
third.  Three faults are one per stage of a call.

*Readers.*  Three entries hold a long name of two parts and its file, or a part
orphaned by a deletion and a file, or a deleted part, a label and a file.  Two ports are
enough for one's table to stand in the buffer while the other is asked.  Pages step by 2 through folders of 4.

Deadlock is checked wherever the system cannot stop.  It is switched off in
`sched_safety` and the scheduler violation, where the processor may halt deaf
or derail, in the explorers' runs, where the user may have nothing left to do or no
clicks left, and in `disk_drives`, where OPEN may wait for ever.

## Fairness

*Scheduler.*  `SF(Tick)`: the PIC keeps a timer interrupt pending while
interrupts are off, so one that is enabled again and again is taken.  Weak
fairness would not do, since system calls switch interrupts off over and over.  Strong
fairness of each task's own steps: a tick lasts many thousand instructions, so a
task given the processor again and again executes some of its own.  The user is
never obliged to press, close or resume anything.

*Windows.*  Weak fairness of `Next`: the main loop never waits for anything, every
phase ends and the next frame begins.  Nothing is assumed of the user; in
particular the clicks that make the walk skip a window may go on, and
`KeepsBeingPainted` says what holds all the same.

*Disk drives.*  Weak fairness of the processor's steps: it polls, gives up and
returns.  Nothing is assumed of the adapter for the scan.  OPEN waits without a
timeout, and `OpenReturns` (the second half of `DesktopGoesOn`) is stated under the
adapter's fairness, as an implication, and only for ports that owe nothing.

*Network.*  Weak fairness of the driver's steps within a call, strong fairness of
`Poll`: the main loop polls in every turn, but a send may be on its way whenever one
looks.  Nothing is assumed of the adapter or the cable.

## Proofs

Every theorem holds for every value of the constants under the named assumptions of
its module: at least two task slots, a ring of at least two descriptors, `Windows` a
nonempty subset of 0..13, SATA ports among 0..31, an RTL8139 buffer that is a
multiple of 4 and twice the longest frame, disks of OS1 whose files own their sectors
when it starts, and so on.  Theorems about the explorer have further hypotheses,
which are explained below, each with the behaviour of the code that makes it necessary.

*`TaskSchedulerProofs`.*  `TypeCorrect`, `NeverRunsPausedTask`,
`ContextsNeverMixed`, `PausedStaysFrozen`.  The inductive
invariant `SchedulerInv` adds three facts to the properties: slots from
`num_tasks` on were never taken (`SlotsDense`; without it the loop of `schedule`
could pick garbage), task 0 is the kernel and can be neither paused nor closed
once booted (`KernelIsTask0`; this is why the fall-through of `schedule` to the
running task is harmless), and the others are not at the kernel's places
(`TasksOutsideKernel`).  A frame may lie inside a system call that yields: nothing in the
invariant says otherwise.  `SpawnedTasksFindASlot` adds that only task 0
creates tasks, so nobody takes the slot between the question and the call.
`TonesHaveOwners` adds where a tone is on its way: a button that has closed or paused
an app stands before its `play_freq(0)`, a beep before its end.

Of `RoundRobin`, in the same module: `BypassIsBounded` rests on a ranking: a waiting task *s* has
at most `RoundFrom(s) - s` visits of the round left in which it can be passed
over, and each tick uses up at least one.  `num_tasks` only grows while task 0
runs, which is why a newcomer never makes a waiting task wait longer than the
bound.  `SharesTheProcessor` is the refinement, safety part: each step of
`RRNext` is a step of `CpuSharing` or a stutter.

*`CfsExplorerProofs`.*  `ExplorerIsTyped` and `EntriesAreKept` have no hypothesis.  The
invariants are about what is queued for sector 1002, since between a click and its last
write the truth is on the drive in part:

| Theorem | Hypothesis, and what breaks without it | Invariant |
|---|---|---|
| `EntriesAreKept` | none; the exceptions are in the property: FORMAT, a handler that could not read the directory, SAVE into sector 1002 | the queue holds the empty directory or one that extends the drive's (`KeepInv`); a text goes to sector 1002 alone (`SavesText`) |
| `ListingsAreTrue` | drives that answer and are no sticks; no FAT32 drive, because `is_fat32_drive` outlives its drive; no + FILE, which leaves `parent_idx`; no SAVE, which may write sector 1002 | `cfs_files` agrees with the directory that the queue will leave (`DriveInv`, `CacheInv`, `Settled`) |
| `DirectoriesStayTrees` | the same, no foreign drive, whose bytes FORMAT leaves when the power fails; no + FILE and MKDIR, which store into the folder of slot 0; no SAVE | every directory, settled or not, is a tree; `current_folder_id` is a folder of it or the root (`TreeInv`) |
| `ExplorerImplementsFileStore` | PASTE, COPY, FORMAT; CFS drives that can be written answer; FORMAT goes to CFS drives (the store has no other system) | slot *s*'s file starts at 4000 + *s* `FileSectors` (`LayInv`); the queue is nothing, a FORMAT, or a folder's entry, or the file's sectors for a free slot with the directory last (`StoreInv`) |

That a success message is true, that files do not overlap and that foreign drives are
left alone are *not* among the theorems: the code does not keep any of the three (see
*Behaviour met*).

The refinement maps `FileStore`'s files to the entries with their sectors.  A PASTE is
many steps: the writes of sectors of a free slot stutter, and the write of
sector 1002 is the abstract step, at which all sectors are there.  A reboot at any
point drops the queue and stutters too, which is what makes PASTE atomic.

*`WindowManagerProofs`.*  `TypeCorrect`, `ZOrderIsPermutation`,
`PlanetsFindTheirWindow`, `RaisingKeepsOrder` rest on one fact: every step leaves
`win_z` alone or raises one window (`NextRaises`).  `FramePaintsOnce` rests on
`PaintInv`: until the walk reaches the last place only the launcher can raise a
window, for every other button asks its window to be topmost; so what is painted
below `place` is final, and a change at the last place ends the walk.
`ClicksPressOneButton` is about the windows other than the games and rests on the
cooldown: whoever of them obeys starts it, and nothing in the same frame ends it, a game
included (`ClickInv`).

*`DiskDrivesProofs`.*  `ListStaysSound` and `IndexKeepsItsDrive` follow the loops of
`ahci_mount_drive` and `ahci_read_mbr`: what is in the list is what the ports below the
loop's have shown, in their order, so that a scan that finds the disks of the first
builds the same list.  `NamesComeFromTheirDisks` ties the scan's buffer to the drive the
loop is at.  `DriverImplementsBlockDevice` is the refinement: at a trusted port nothing
is in flight but the request in hand, once, in the slot or with the adapter; so CI can
only be clear because it was carried out, and a late completion is the abstract step
that carries out something owed.

*`Os1ExplorerProofs`.*  `EntriesOwnTheirSectors` shows that the five rules by which
OS1 allots sectors agree on the disk (`Sector(i)` for slot *i*), whatever the rows
hold.  `ButtonsChangeOneEntry` and `NewTextSparesFiles` go through the buttons; the
second needs the first, for a free entry's sector may be written only because no other
file has it.  `RowsShowTheirDisk` relates rows and directory until `shown` is given up.

*`NetworkProofs`.*  `ReceivingIsAQueue` and `SendingIsAQueue` are refinements by
arithmetic modulo the ring's size: head, tail and the driver's place cut the ring into
what is free, what the adapter filled and what the driver works on.  `DriverStaysSound`
adds the byte offsets of the RTL8139: in its first lap header follows header, each
behind the padded frame before it, and the driver's place is one of them or where the
next will be (`RtlInv`).  Nothing is claimed of the RTL8139 after that lap, nor of either
adapter after a start that finds the driver at another place than 0 (`inStep`): there
the code is wrong (see *Behaviour met*).

*`UsbStorageProofs`.*  `ReadsAreTrue` rests on what a stick can have left to send: after
the command nothing, a refusal or the whole answer; after the data either these were
right, or nothing left can be taken for a status (`CallInv`).  So a stale answer never
ends a read as a success, although no call looks whether the answer is its own.
`LoneSticksAnswer`: the toggles of a stick alone stay the driver's, from the mount on
(`LoneInv`).

*`DiskReadersProofs`.*  The induction over a directory's length is an induction over
a set of numbers (`SetInduction`): that recursive functions exist at all
(`ListingRecurs`), and that after *n* entries the loop's variables say what the first
*n* entries say (`Follows`, `Spells`).  The list holds the names of the live entries so
far, less those skipped, up to the room (`UpTo`); the buffer for long names is empty
unless a part of a long name stands just before.  The assumptions are that directories
are ones a system may have written (`WrittenAssumption`), that junk that is read as a
directory names folders that exist, and that no two folders begin in one cluster.
`Inv` adds that the list is `ListDir` of the folder that was asked for, and that its
sector is that folder's if it fits 16 bits and the boot sector was read.  `NamesAreOwn` says
what SCAN writes entry by entry: living files have their own names, also behind deleted
files, which are listed too; behind a deleted part of a long name a file is listed
without one.  `PartInv` is the loop
over the ports: the lines of each port below `port` stand in one row, and those of a
`sure` port are that port's; what stands under the others may be anybody's.

*Only model-checked.*  Liveness and whatever needs it (`MainLoopReturns`,
`YieldingCallReturns`, the fairness of `CpuSharing`, `KeepsBeingPainted`, `DesktopGoesOn`, `CallsReturn`,
`ReceptionGoesOn`) is out of TLAPS's reach here.  Every invariant that a passing
run checks is proved.

*What the proofs changed in the models.*  `ReachableFromRoot`, a recursion, became
`IsTree`: any set of entries has one that lies in the root or in a folder outside the
set.  OS1's model lacked the list's limit of eight, left `shown` standing where
FORMAT and the rename keyboard use other disks, and had rows with impossible
sectors.  The folds of `DiskReaders` became recursive functions.  Assumptions that
were tacit are named: an RTL8139 frame fits twice into the buffer, a "reply" is among
the frames, the AHCI ports are 32, `Formattable` are drives.

## Behaviour met while modelling that no run is about

* + FILE and MKDIR leave `parent_idx` at 0, the folder of slot 0; BACK is not drawn
  in a folder of a CFS drive (3296), so it cannot be left.
* A directory read that fails is ignored by several handlers, which then write
  back a directory of one entry (3242).
* PASTE's message says that it works on CFS only (3283), its guard asks only for
  `is_ntfs_drive` (3237): a FAT32 or unknown drive gets sectors from 4000 on and a
  sector 1002.
* A file of an NTFS drive has its MFT record's number for a sector (3366).  Opened, and
  a CFS drive selected, SAVE writes there: record 1002 is the CFS directory (3822).
* Success messages do not look at the drive: a stick's write is reported as done (396),
  so is a failed PASTE (3276) or FORMAT (3634); MKDIR without a drive works on what the
  memory at 0x00901000 holds and may print HDD WRITE OK (2092–2117).
* SAVE between COPY and PASTE replaces the clipboard, whose flag stays set (3816).
* `is_fat32_drive` survives the change to a CFS drive (3668); `active_file_lba` belongs
  to no drive (3823).
* A power failure inside FORMAT leaves bytes of the old system as entries (3625).
* A note has up to 2000 characters, SAVE writes 512 (3895).
* The SAVE AS dialog is modal only for the launcher and the browser (2808–2822).
* The launcher's buttons do not ask to be on top (3122–3138), and a frame in which
  they are clicked through another window leaves one unpainted.
* A planet's press is also served by a button under it (2799); a minimised planet
  is restored without being raised.
* The games test `win_z[12]`, the second place since OS2 has 14 windows
  (`arcade.cpp` 302, 405).  Their buttons ask neither for the top nor, most of them, for
  the cooldown (256–289, 366–393): one press works a game's button and another window's.
* `yield` opens the interrupt gate within a system call (124–127), so an app is
  preempted inside the dispatcher.
* A press may be taken back, and a key overwritten, within one poll (577, 1086);
  keys go to the window on top even if it is hidden (2393); `last_app_key` is
  never written.
* `load_and_run_bin` clears 0x01100000 for a second app while the first executes
  there; the buffer its comment calls indestructible (1634) is never used.
* SAVE AS tests `is_mounted`, which OPEN sets for every drive, and so writes a text
  sector and sector 1002 of an NTFS drive (3854).  It gives slot *s* the sector
  4000 + *s* and a length of ten sectors, PASTE 4000 + 10 *s*, + FILE every file the
  sector 10000: their files overlap (3893).

SATA and the drive list:

* After a timeout, the completion of the old command clears the CI bit of the new
  one, and the call reports success; a port whose link is down does so at once.
* OPEN asks `ahci_identify`, which has no timeout: it freezes on a drive that
  stopped at an error or still works on a command that was given up.
* When a disk answers at one scan and not at the next, the index means another
  disk, and SAVE writes there; SAVE writes its sector to the drive selected last
  (3823).

OS1's disk manager (`kernel.cpp`):

* FORMAT is to refuse disks with a file system ("MIT SCHUTZ", 2934) by looking at
  the label; opening the manager or REF rebuilds the list without labels (2019),
  after which NTFS, FAT32 and exFAT disks are formatted.
* REF moves the sticks to the front, so that the index means another drive; a
  stick's `base_port`, its USB address, is used as a SATA port by SAVE, SAVE AS and
  the rename keyboard.  An index of -1 reads before the list.
* Rows made inside a folder exist in memory only; DELETE on one erases another
  entry made by CREATE.  DELETE on a folder opens the deleted row too; + FILE keeps
  the parent of an old row.
* OPEN of a drive with an MBR-NTFS or unknown system leaves the rows of the drive
  before; rows of ext and NTFS disks keep old sectors; `is_ntfs` is never taken back.
* IMPORT takes port 0 for "none"; SAVE writes to the drive that is selected now;
  SAVE AS writes sector 1002 of any drive.
* Four sectors are read into buffers of 512 bytes on the stack (2155, 2705, 2905).  Built
  as `build.sh` builds it (g++ 12.2, `-m32 -O2`), `cfs_buf` lies at the top of
  `kernel_main`'s frame: the other three sectors run over the saved registers and the
  return address, past `stack_top`, and onto `kernel_32.o`'s .bss: the key, the mouse
  button, `sound_muted`, the address of the screen, the browser's tabs.  None of them is a
  variable of `Os1Explorer`, and the loop that makes the rows reads all four sectors, which
  is what `CfsRows` says; but the picture is lost and the system may be dead.
  `ClicksAfterOpen` therefore lets OPEN of such a disk be the last click.

Network:

* A driver that is started again while `rx_cur_intel` is at the last place never
  receives again, though it says READY & LISTENING (`net.cpp` 581); at other places
  it handles frames out of order.  It is started by the PCI scan at boot (`pci.cpp` 1128;
  OS2 2332, OS1 1721), by OS1's INSTALL (3843) and by its SCAN while its lists are empty
  (4125).  OS2's branch of NET that would do so (2011) is never reached: 1995 takes NET.
* When as many frames as the ring has places are held up, all are lost.
* `ip_address` becomes the address of the host that answered an ARP request; an
  OFFER is never answered by a REQUEST (700); mask and gateway may come from
  another answer; PING sends nothing; "TX SUCCESS" is never shown.
* After the first lap of its buffer the RTL8139's driver starts at 0 instead of
  going on behind the end, and may find no header there.

USB:

* OS2 takes the controller's I/O base for a device address: its reads of sticks
  always fail.  One descriptor is to carry 512 bytes, which no full-speed stick sends.
* After a lost packet or a refused command a stick stays unusable; of two sticks the
  second stays without a size.  READ CAPACITY ignores the status, `fs_read_sectors`
  ignores the result.

Readers:

* A folder beyond sector 65535, and the entry `..` of a folder in the root, lead to
  another sector.  NEXT skips 10 of up to 28 files shown.  The label TARGET shows the
  name that stands in the new list at the old folder's number.
* A GPT disk whose header cannot be read is listed by its protective MBR.
* PART's buffer is never cleared (`cosmos_partition.cpp` 13, 39), and a read of an empty
  or stopped port succeeds without a transfer (`cosmos_ahci.cpp` 274–281): the table of
  one port is listed under another.
* SCAN never recognises a deleted entry, since it compares a signed `char` with 0xE5
  (`cosmos_ahci.cpp` 346): deleted files are listed, one may take the long name that
  stands before it, and a file behind a deleted part of a name is listed without its own.  A label takes the flag of a long name but not its text (383).
* OPEN of a FAT32 drive ignores whether the boot sector was read (3773) and may compute
  the folder's address from another drive's.

## Not modelled

`PROJECT.json` lists every component with the reason.  In short:

*Device I/O without state of its own*: HDA, PCI scan, xHCI probe, drawing, boot, paging.

*Code that nothing that runs calls.*  In `cosmos_cfs.cpp`, `cosmos_tba.cpp`,
`cosmos_bytes.cpp`: all of it, in effect (`cfs_format_drive`, `cfs_read_file`,
`cfs_finalize_file`, `tba_master_stream`).  In `cosmos_fs.cpp`: `fs_create_folder`,
`fs_save`, `fs_save_file`, `fs_format_drive`, the block functions.  In
`cosmos_ahci.cpp`: `ahci_read_multi`, `ahci_port_rebase`, `ahci_read_cdrom`, the
ISO 9660 loader, the panzer scan, `fat32_load_file`.  In
`cosmos_usb.cpp` and `pci.cpp`: the xHCI rings, their enumeration and bulk
transfers.  In `net.cpp`: `send_udp`, `send_cosmos_block`, `net_ipv6`,
`net_handle_cosmos_packet`, `send_tcp_ack`, `run_network_configurator`,
`e1000_base_reset`.  `upgrade.cpp` and `cosmos_kernel.cpp` are not built.

*Code that runs and is left out*: the bytes of the 8042, the OS2 heap (nothing
allocates), OS1's windows (their code was copied to OS2), its CMD texts, its WAV
player and AC97, BOOT KERNEL, its INSTALL window, and the games' physics.  In modules
that are listed as *partly* modelled, the component's note says what is missing.

## Plan

1. *Done.*  `TaskScheduler`, `CpuSharing`, `RoundRobin`, with their proofs.
2. *Done.*  `CfsExplorer`, `FileStore`, with their proofs.
3. *Done.*  `WindowManager`, with its proofs.  Left: the bytes of the 8042 with
   packets that lose one.
4. *Done.*  `AhciPort`, `DiskDrives`, `BlockDevice`, with their proofs.
5. *Done.*  `Os1Disks`, `Os1Explorer`, with their proofs.
6. *Done.*  `E1000`, `Network`, `FrameQueue`, with their proofs.
7. *Done.*  `UsbStorage`, with its proofs.
8. *Done.*  `DiskReaders`, with its proofs.
