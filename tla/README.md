# SkullOS in TLA+

SkullOS is a small 32-bit x86 kernel in C: one address space, one processor, no processes. What runs at any
moment is either the foreground (the boot, then the shell and what it calls) or one of two interrupt handlers,
timer and keyboard. This directory holds TLA+ modules translated from that code, TLC configurations that check
them on small instances, and TLAPS proofs for every value of the constants. The modules say what the C code does,
not what it should do; where the two differ, a run shows it (see "Where code and comments part").

The kernel is built without optimisation (CFLAGS in the Makefile), so stores happen in the order they are written and globals are read
where the text reads them. The statement-by-statement models below rest on that.

## 1. Inventory

| Component | Code (under `src/`) | State it keeps | Operations |
|---|---|---|---|
| Kernel heap | `kernel/memory.c` | one linked list of headers in 64 KB at 1 MB | `memory_init`, `kmalloc`, `kfree`, `get_free_memory`, `get_used_memory` |
| Keyboard driver | `drivers/keyboard/keyboard.c` | ring of 128 scancodes, modifier bits | `keyboard_handler`, `keyboard_getchar`, `keyboard_get_scancode`, `keyboard_init` |
| SkullFS | `fs/src/skullfs.c`, `fs/src/fs.c`, `fs/src/path.c` | tree of heap nodes, file buffers | create, delete, read, write, list, path lookup |
| File commands | `kernel/fs.c` | `fs_root`; a minimal file system as fallback | `mkdir`, `touch`, `rm`, `write`, `ls` |
| Interrupts | `kernel/idt.c`, `kernel/pic.c`, `kernel/interrupts.asm` | descriptor table, masks | `idt_init`, `pic_init`, `pic_send_eoi`, stubs |
| Timer | `kernel/timer.c` | tick count | `timer_init`, `timer_handler` |
| Battery clock | `drivers/rtc/rtc.c` | index port of the chip | `rtc_get_time` |
| ATA driver | `drivers/ata/ata.c` | the drive's registers | identify, read and write one sector |
| Boot order | `kernel/kernel.c` | none of its own | `kernel_main` |
| Shell | `kernel/shell.c` | command line, current directory | line editor, argument parser, about 30 commands, `cd` and `cat` among them |
| Screen | `kernel/vga_manager.c`, `kernel/vga.c` | two panes with a cursor each | putchar, clear, scroll, change of context |
| GUI | `gui/gui.c` | none | draws uptime, clock and memory lines, from the timer handler |
| System calls | `kernel/syscall.c` | none | ten calls behind int 0x80, issued by nothing |
| Initial ramdisk | `fs/src/initrd.c`, `tools/geninitrd.c` | headers and files in memory | mount, read, list |
| Setup utility, games | `bios/bios.c`, `games/games.c`, `games/snake/snake.c` | selected item, two settings | menus that poll the keyboard; save the settings in a file |
| CPU detection, C library, helpers | `kernel/cpu.c`, `libc/`, `kernel/util.c` | none | pure functions |
| Boot loader, animation | `boot/boot.asm`, `kernel/boot_anim.h` | none | straight-line code before interrupts are on |

How they interact:

- **Timer handler and foreground.** About once a second the handler redraws the GUI: it walks the heap list and
  reads the battery clock, wherever the foreground is: inside `kmalloc`, inside `kfree`, inside `date`. Nothing in
  the kernel masks interrupts around these.
- **Keyboard handler and foreground.** The handler fills the ring, the shell empties it one scancode at a time and
  halts the processor when there is none.
- **Shell, file system, heap.** A file command is a sequence of `kmalloc`s, any of which may be refused, and of
  changes to the tree that have to be undone then.
- **Shell and screen.** The line being edited exists twice, in `command_buffer` and as characters on the screen.
- **Shell and current directory.** `cd` keeps a text, and looks its names up again each time; the commands in between
  may remove or replace what they name.
- **Shell, menus, keyboard.** `bios` and `games` run inside a command. They take keys from the same ring, but poll it, and
  obey a key only when a later poll finds the ring empty. They draw over the prompt.
- **Boot and everything.** `kernel_main` turns interrupts on three times, first before the timer has a handler,
  and talks to hardware that talks back at its own time: the keyboard controller answers a question and delivers
  keys on the same port. Its last act before the shell is to write sector 0 of the disk.

What makes each component correct, and hard:

| Component | Correct when | Hard because |
|---|---|---|
| Heap | blocks tile the heap; blocks in use are those callers hold; no two callers share a byte | damage shows several calls after its cause; the walk may run between any two stores |
| Ring | each key queued is taken once, in order; dropped only when the ring is full; a waiting key is taken | two writers of one ring; the emptiness test and the `hlt` are two instructions |
| File system | the nodes are a tree; a command changes what is at one path or nothing; no block leaks | partial failure at every allocation; `.`, `..`, empty names and files in every place of a path |
| Current directory | its text names the directory that `cd` has led to | text against a tree that changes; `..`, and a buffer of 256 bytes |
| Menus | a user who waits gets what the keys ask for; all keys are taken | a key is held between two polls, through menus that open and close |
| Shell and screen | a command gets the line that was typed; all its words; the screen shows it | wrap, scroll, full buffer and backspace in any order |
| Boot | reaches the shell through every interrupt it lets in | order of initialisation against three `sti` |
| Clocks | `sleep n` lasts more than n - 1 seconds, and ends unless N is more than the tick count can show; `date` reads each register for what it is, and shows a time that is near | wrap-around, shared ports, a clock that runs on between reads |

`PROJECT.json` lists each hazard at its line, and what covers it.

## 2. Modules

| Module | What it is |
|---|---|
| `Allocator` | what an allocator promises: disjoint regions, large enough, that stay put until freed |
| `KHeap` | `kmalloc` and `kfree` as atomic steps on the list of headers |
| `KHeapSteps` | the same, store by store, with the timer's walk in between |
| `FiniteSums` | induction over numbers and finite sets, sums over them, blocks that tile an interval |
| `KHeapProofs` | theorems about `KHeap`: its invariants, and that it implements `Allocator` |
| `KHeapStepsProofs` | theorems about `KHeapSteps`: what the walk meets between any two stores, and that the stores implement `KHeap` |
| `BoundedFifo` | a bounded queue |
| `Keyboard` | the ring, the modifiers, the handler, both takers, the user's keys |
| `KeyboardProofs` | theorems about `Keyboard`: its invariants, and that it implements `BoundedFifo` |
| `FileTree` | what a file system promises: a tree named by paths |
| `SkullFS` | nodes, entries, blocks; `mkdir`, `touch`, `rm`, `write` |
| `WorkingDir` | on `SkullFS`: `current_dir` and `cd`, the save of the settings, what `cat` and `ls` show |
| `SkullFSProofs` | theorems about the nodes under every command of the shell: a tree, its blocks, its buffers, what is shown, the current directory, and that the shell's commands implement `FileTree` |
| `LineEditor` | what a command line promises its user |
| `Console` | the shell's command buffer and argument parser on a pane of the screen |
| `Menus` | the setup utility, its configuration page, the list of games and the game, polling the ring |
| `Session` | composes `Console` and `Menus`: the user at the shell |
| `SessionProofs` | theorems about `Session`: the menus obey a patient user |
| `ConsoleProofs` | theorems about `Session` and the pane: the line, the bytes that hold it, the screen, and the arguments made of a command |
| `Interrupts` | interrupt flag, descriptor table, requests, acknowledgement |
| `Clock` | tick count, `sleep`, index and data port of the battery clock, `date` |
| `Machine` | boot, shell, reset: composes `Interrupts` and `Clock` with the keyboard controller and the disk |
| `MachineProofs` | theorems about `Machine`: the order of the boot, `sleep`, `date` |
| `MC*` | constants for TLC |

**KHeap.** `blocks` maps the offset of each header to its `size`, `next` and `free`; `asked` (history) maps each
pointer a caller holds to the size asked for. `Kmalloc` is first fit: take the lowest block that fits, split it when
more than a header is left (`TakeSplit`), else hand it out whole (`TakeWhole`). `Kfree` merges with the next block
only (`MergeNext`). `RoundUp8` keeps the width of `size_t`, so that a request near 2^32 wraps as it does in the code.
Callers free only what they hold, and once; the code could not tell. One path in the repository breaks this, `rm d/.` and then
`rm d`, which frees one node twice: the heap's theorems do not speak of it, and `SkullFS` stops after the first of the two.

**KHeapSteps.** One action per store, in the code's order: `SplitSize`, `SplitNext`, `SplitFree`, `CutSize`,
`CutNext`, `Take`; `KfreeCall`, `MergeSize`, `MergeLink`. A store replaces one field (`WithSize`, `WithNext`, `WithFree`) of the
header that is read back there (`At`). The search advances one block at a time. A field that has
not been written since its bytes were payload reads as `Junk`; a merge leaves the absorbed header in memory, where
a later split may find it again. `TimerRedraw` walks the list as `get_free_memory` does, from any of these states.
`Undone` is the refinement mapping to `KHeap`: the list with the call in progress undone.

**Keyboard.** `wire` holds scancodes sent and not read; `KeyInterrupt` is the whole handler: modifiers, the drop of
releases, the store to the ring if it has room. The taker is taken apart into `Test`, `Halt`, `Fetch` and `Advance`,
between any two of which both interrupts may run. `keyboard_get_scancode` differs from `keyboard_getchar` in that it
does not halt. `Init` is the state `keyboard_init` leaves; what it does to keys typed before is in `Machine`. Conversion to ASCII is left out: it changes no state.
Right Ctrl and AltGr send the left keys' codes behind a byte 0xE0, which the handler takes for the release of no key: they share the left keys' bits.
The shift codes that a keyboard adds around its grey keys are left out.

**SkullFS.** `node` maps the address of each live node to its contents, `blocks` counts what the file system has
from the heap and not returned. Each command is one action with one disjunct per outcome, refusals of each of its
allocations included. A path is the sequence of names between slashes, with the empty ones, so that leading, doubled
and trailing slashes are what the code sees. Once a command has left a pointer to a freed node, what follows is
undefined in C and the model stops (`Defined`).

**WorkingDir.** `current_dir` is the text, a sequence of characters; `NamesOf` splits it as `resolve_path` does, `Cut` is what
`strncpy` and `strncat` leave of a text that does not fit. `here` (history) is the directory that the `cd` commands led to,
followed from one node to the next as the user means them; it is forgotten when a directory that the text passes through
is removed (`cd d`, `cd ..`, `rm d` leaves `/d/../`, which names nothing any more) and when a path was cut. A step that would
copy `current_dir` without its end, or write past it, is left out: what follows is undefined. `SaveConfig` is
`bios_save_config`, a `write` that reports nothing. `Cat` and `Listing` are the loops of `cat` and `ls`, as functions of the nodes.

**Console.** `command_buffer` and `command_length` are the shell's; `pane` is the cells and the cursor of the kernel's
pane. `PutChar` is `vga_manager_putchar`: the character, then the wrap, then the scroll. `Enter` runs the parser and
any command: it prints nothing, prints one of `Outputs`, or clears. The other pane belongs to the GUI. Its
redraw uses the fullscreen cursor and the cells of its own half, so that a timer interrupt in the middle of an output
leaves the shell's pane as it is.

**Menus.** `shows` is the stack of menus on the screen, each with its `selected_item`, and the two settings; `keys` is what was
typed and no poll has found, `last_key` the variable of that name, one for all the loops because a loop that calls another
menu has obeyed its key and resets it on return. `FindKey` is a poll that finds a key, `ObeyKey` one that finds none and has
one to obey; a key may be typed between any two (`TypeKey`). `ideal` (history) is where obeying every key at once would
lead, and `NULL` once the user has not waited for the menu to come to rest.

**Session.** A command line is edited and run (`Edit`, the actions of `Console`), or opens a menu (`OpenMenu`); then the menu
has the keys (`Type`, `Poll`), until the poll that closes the last menu hands the pane back and lets `shell_run` reset its line
(`Done`).

**Clock, date.** `SelectRegister` and `ReadRegister` are the two port accesses of each of the three reads of `rtc_get_time`;
`now` is the battery clock, which may go on by a second between any two of them (`SecondPasses`). Its registers change all at once, as those
of QEMU do; what a chip answers in the middle of an update, which the code does not look for, is left out, and `DateNotBehind` with it.
`sleep` is called with any positive int (`SleepCall`): the parser stores into an `int` and checks only that it is positive.

**Machine.** `pc` is the step of `kernel_main` (`Order`), then the command of the shell. Interrupts come between any
two steps when the flag and the table let them. A request without a gate is a fault without a handler, which resets the
machine. `out` is the keyboard controller's output: keys and the answer to "what is your configuration byte" share it.
The drive is a disk, or anything else that may be at those ports. A reset starts the kernel with its static data as they
are in the image: the loader reads 64 sectors, the kernel and the zeros behind it (the kernel has to fit in these 32 KB).

`KHeapSteps` implements `KHeap`, which implements `Allocator`, both by TLC and by proof.
`Machine` extends `Interrupts` and `Clock`; that the redraw finds a heap is stated there, and what it finds in it in
`KHeapSteps`. `SkullFS` uses the allocator through what it promises, an address not in use, or a refusal.

## 3. Runs

Six runs pass; six show a disagreement between what a comment in the code says and what the code does.

| Run | What it shows |
|---|---|
| `kheap` | The blocks tile the heap after any sequence of calls (`Tiling`), what callers hold is what is in use (`Held`), every caller has room (`EnoughRoom`), sizes and headers add up (`Accounting`), and the heap implements `Allocator` (`KeepsPromise`). |
| `kheap_steps` | The timer's walk ends and meets only complete headers, wherever it interrupts (`WalkSafe`); the used figure is exact at each instant (`UsedExact`); no byte is counted twice but in one window (`NoByteTwice`); the stores together are `KHeap`'s atomic operations (`StepsImplementAtomic`); calls return (`CallsReturn`). |
| `keyboard` | The handler leaves alone the slot the taker works on (`FetchStable`), the ring is a FIFO (`KeysInOrder`), a key is dropped only when 127 wait (`DropsOnlyWhenFull`), modifier bits follow the keys (`ModifiersFollowKeys`), and a waiting key is taken, although a key may slip in between test and `hlt` (`KeysAreTaken`). |
| `skullfs` | The nodes stay a tree (`Tree`), refused allocations leak nothing (`NoLeak`), a file's length and data agree and fit its buffer (`FileFits`), `cat` and `ls` show all that is there and nothing else (`ShowsTree`), `current_dir` names the directory that `cd` led to through any commands in between (`CwdIsHere`), and each command changes what is at one path, or nothing (`KeepsTree`, the refinement of `FileTree`). |
| `console` | A command is given the line that was typed (`GivesLine`) and every word of it (`NoWordLost`); the screen stays in step with the buffer through wrap and scroll, and again after a menu (`EchoKeepsStep`); keys typed into a menu get into no line; a user who waits for the menus gets what the keys ask for (`PatientUserObeyed`), and a menu takes all keys and comes to rest unless keys come for ever (`MenusComeToRest`); nothing is left behind the cursor (`NothingPastCursor`). |
| `machine` | `date`, undisturbed by a redraw, shows a time of the call, or a later one if a minute ended meanwhile, never an earlier one (`DateNotBehind`); the redraw never comes before the heap (`RedrawFindsHeap`); the only fatal interrupt is a tick before `timer_init` (`FaultsOnlyBeforeTimer`); with a disk the boot reaches the shell (`BootReachesShell`); `sleep n` lasts more than n - 1 seconds unless the tick count wraps meanwhile (`SleepsLongEnough`), and ends, whenever it begins and for any int, but for one that the seconds cannot reach when it begins in the first of them (`SleepEnds`). |

### Bounds

- `kheap`: 88 bytes of heap hold up to seven headers. Requests of 0, 5, 13 and 24 bytes split, fit exactly, leave a
  remainder too small to split and are refused; two free neighbours stay unmerged when the lower is freed first. The
  proofs cover every other size. `SIZE_MOD` is 256 there, and no request wraps; a request that wraps is outside
  `EnoughRoom` (see `NoWrap` below).
- `kheap_steps`: 76 bytes hold four blocks, enough to split, merge, and split again over the header a merge left.
- `keyboard`: a ring of three slots fills, wraps and drops. One unread byte on the wire is enough: the handler reads
  bytes in order, so a burst of two is press, interrupt, press, interrupt with no step of the taker in between. Three
  modifier keys: two that share a bit, one alone.
- `skullfs`: root, a default directory and two more nodes: a directory in a directory, a file in either, a directory
  with two entries. Fifteen paths put `.`, `..`, an empty name, a file and a missing name in each position. Texts of one
  and of three characters fit the buffer, fit after growth, and need a larger buffer. Node addresses other than the
  root are interchangeable, hence the symmetry. `current_dir` has seven bytes: a step down and one up, or two down, fit, and
  one more is cut or left out. `cat` reads two bytes at a time, so that a text of three takes two reads, the second short.
- `console`: a pane of two rows by four columns, a prompt of one character, lines of up to five: a line wraps within and
  at the end of a row and scrolls; two arguments, so that a third word has no entry of its own. One letter and the blank
  are enough, because the code treats all printable characters but the blank alike. The words
  "aa" and "aaa" open the menus. Two keys wait at most: a burst of three and more arises as polls take keys while others
  come. The menus have all their items, and the game.
- `machine`: words of three bits and seconds of three ticks, so that the count wraps within a second and within a sleep, and the greatest int, 3, is
  more than the last second the count shows, 2, as 2147483647 is more than 238609294; minutes of two seconds, hours of
  two minutes and days of two hours, with `date` called at the seconds before which a minute, an hour and the day end; two keys, one of which, taken
  for a configuration byte, disables the keyboard; one key waiting; power on and one reset. With that bound, `BootReachesShell`
  says that one fault is survived; a machine that met a tick in the same window in each boot would go on rebooting.

A machine without a disk, or with an overwritten boot sector, stops: `CHECK_DEADLOCK FALSE` in the runs of `Machine`. The
run `skullfs_rm` stops where what the code does is no longer defined. All other runs check for deadlock.

### Fairness

- `KHeapSteps`: weak fairness of a call that has begun (`Continue`). A handler always returns to the code it interrupted.
  That calls are begun is not assumed.
- `Keyboard`: weak fairness of the taker, of the timer interrupt and of a pending keyboard interrupt. The timer ticks
  whatever happens, and wakes a halted processor. Nobody has to type.
- `Session`: weak fairness of a menu's poll; a menu does nothing else. Nobody has to type or to leave a menu.
- `Machine`: weak fairness of the tick, of taking a timer request and of both handlers, which have no loop that waits.
  Strong fairness of the boot's steps and of the loop of `sleep`: handlers end long before the next tick, 55 ms later,
  so that the foreground runs between any two interrupts; enabled again and again, it is not kept from its step.
  No fairness for faults, keys, commands or resets.

### Where code and comments part

| Run | What the code does | What the source says of it |
|---|---|---|
| `kheap_steps_free` | `kfree` adds the next block's size (`memory.c:71`) before it unlinks that block (`:72`); a redraw in between counts it twice and can show more free bytes than there are. | `memory.c:76`, `:91` |
| `keyboard_shift` | Letting go of one shift key clears the shift state though the other is held (`keyboard.c:84-87`). | `keyboard.c:7`, `:79` |
| `skullfs_rm` | A directory counts as empty with up to two entries (`skullfs.c:339`), since `.` and `..`, which that allows for, are never stored. What it held is lost. | `skullfs.c:336` |
| `machine_reboot` | The driver test of the boot overwrites sector 0 of the disk the machine boots from (`kernel.c:114-116`); after `reboot` there is no loader. | `shell.c:470` |
| `machine_keys` | A key that waits in the controller is read as its configuration byte and written back (`keyboard.c:203`, `:210`). | `keyboard.c:201` |
| `machine_date` | A redraw between `rtc.c:14` and `:15` leaves the hour selected; `date` reads it for another register. | `rtc.c:12` |

Known, and the passing runs are stated around it: a tick between the first `sti` and `timer_init` finds no gate and resets
the machine; the boot waits for ever without a disk (`ata.c:19`); a backspace on a line that has just wrapped leaves its
character on the screen (`vga_manager.c:79`); `rm` of `.` or `..` frees a node its parent points to; a request of
0xFFFFFFF9 bytes or more wraps when it is rounded up (`memory.c:30`).

Also known: `cd` past 255 characters goes where the cut path leads, or overruns `current_dir` (`shell.c:330`, `:340`); a
`..` in `current_dir` that passes through a removed directory names nothing; an arrow with an Enter close behind is
lost to the debounce of the menus (`bios.c:165`); `sleep n` counts from the start of the second it
begins in, so that it may be up to a second short, and returns early if the tick count wraps (`shell.c:365`);
one for more than 238609294 seconds, the last that a 32-bit tick count divided by 18 shows, never ends if it begins in the first second: any positive int is let through (`shell.c:355-363`); `date` may be a minute or an hour late at the end of a minute (`rtc.c:14`),
and shows a time of the day that is over at midnight; nothing calls `bios_init`, so that what the setup utility saves is never loaded.

Read in the code, not modelled: `gui_init` draws the memory line before there is a heap (`kernel.c:50`); `sys_sleep` waits
for ticks with interrupts off (`syscall.c:139`); the ramdisk counts its headers twice when it reads (`initrd.c:32`).

## 4. Proofs

All theorems are for every value of the constants that the named assumptions allow.

**Numbers and sets** (`FiniteSums`). The library's induction theorems take an operator as a parameter and cannot be used; what
is to be shown of each number, or each finite set, is given as a set instead (`Inductive`, `FiniteInductive`). From these: sums
over finite sets (`SumFirst`, `SumSame`, `SumParts`), blocks that do not overlap add up to no more than the interval they are in
(`Packed`), and blocks that tile it add up to just that (`Tiled`).

**Heap** (`KHeapProofs`, from `HeapAssumption`: the heap is larger than one header, requests are numbers of a `size_t`).
The inductive invariant is `IInv == TypeOK /\ Tiling /\ Held`. `Tiling` alone is not inductive: a merge takes a block off
the list, and only `Held` says that no caller still points to it. `Held` in turn needs `Tiling`, or two headers could
give the same payload pointer. One lemma per effect on the list (`SplitStep`, `WholeStep`, `JustFreeStep`, `MergeStep`)
proves each part of `IInv` separately; `HeapInvariant` puts them together, and `HeapTypeOK`, `HeapTiling` and `HeapHeld`
follow. `HeapAccounting` follows from `Tiling` alone, by `Tiled`: the block of the greatest address ends at the top of the heap, and
without it the others tile what is below it.

**Heap implements Allocator** (`KHeapProofs`). Given also `NoWrap`, that no request wraps when rounded up,
`HeapEnoughRoom` shows that each caller has the bytes it asked for, and `HeapKeepsPromise` that each `kmalloc` is an
abstract `Malloc` of a region apart from all others, each `kfree` a `Free`, and neither touches another caller's region.
`NoWrap` is a hypothesis of the theorems and not of the module because the code does not check it. The shell and the
file system never ask for so much.

**Heap, store by store** (`KHeapStepsProofs`, from `StepsAssumption`, the same as `HeapAssumption`). `StepsInv` speaks of the set L
of blocks that a walk started now would meet: L is a chain upwards along `next` that leaves none of its blocks out (`Chain`); each block ends where
the next one begins, once the stores that the call in progress has done and not completed are allowed for (`Whole`); callers
hold what is in use (`HeldBy`); and the registers and the header under construction are what the label says (`Call`: the
search has passed no block that fits; the new block's fields are complete before it is linked; a merge has the absorbed
block's size added before it unlinks it). Each store keeps this for the same L, for L with the new block, or for L without the
absorbed one. The walk is a recursive function; that it ends, and has met all of L, is `WalkMeets`. From `StepsSafe`:
`StepsTypeOK`, `StepsWalkSafe`, `StepsUsedExact`, `StepsNoByteTwice` (by `Packed`), and `StepsRefineHeap`: of the stores of a call exactly one, the last, is
the step of `KHeap`, and all others leave `Undone` as it is.

**Ring** (`KeyboardProofs`, from `KeyboardAssumption`: at least two slots). `IInv == TypeOK /\ FetchStable`: the FIFO order
needs that the taker, once past its test, holds the oldest key, whatever the handler does in between. From it,
`KeyboardKeysInOrder` (the ring implements `BoundedFifo` with one slot less than the ring has) and
`KeyboardDropsOnlyWhenFull`. The arithmetic is in lemmas of its own on `After`, `Slot` and `Count`.
`KeyboardModifiersFollowKeys` has an invariant of its own: the modifiers are those of the keys as they were before the bytes that
are still on the wire.

**Menus** (`SessionProofs`, from no assumption). `PatientUserObeyed` speaks of menus at rest only; `PatientInv` adds what
is on its way: a patient user has at most one key waiting in the ring or found and not obeyed, and obeying it leads to
`ideal`; and outside a menu nothing is on its way, so that the next menu starts clean. One lemma per action. What a menu
does with a key is never expanded: the theorem holds for any menus that poll like these.

**Line and screen** (`ConsoleProofs`, from `ConsoleAssumption`: what commands print are glyphs, line ends and backspaces, and
`NUL` is none of the characters). `SessionInv` has the line free of `NUL` below `command_length` (`LineInv`), the menus in their ranges
(`MenusInv`) and nothing but blanks past the cursor (`CleanPane`), the last for any text printed, by induction over it. From it
`SessionTypeCorrect`, `SessionNothingPastCursor`, and `SessionGivesLine`: the bytes of `command_buffer` implement `LineEditor`, through the
`NUL` that Enter stores and the `CString` the parser reads. `SessionEchoKeepsStep` has the hypothesis `LineFits`, that prompt and
line fit the pane above its last row: 9 + 79 characters of 40 by 24 in the code. (The instance of the run is smaller than that, so that lines scroll
while they are typed; both agree.)

`SessionNoWordLost` is about the parser alone (`Parsed`: `argv` is `Arguments` of the command given last). Words are counted by the places
where they start (`StartedUp`, `StartIs`); the rest of a line from the start of its k-th word on has the words from the k-th on, in their
places (`RestStarts`, `RestStarted`, `RestWords`), and a word alone is one word (`WordAlone`). So every argument but the last gives one
word, the last one all that are left, and `FlattenParts`, an induction over the arguments, puts them together.

**Machine** (`MachineProofs`, from `ClockAssumption` and `MachineAssumption`). `BootInv` is the order of the boot: while interrupts may
come, what the steps before `pc` have set up is there, so that `MachineRedrawFindsHeap` and `MachineFaultsOnlyBeforeTimer` hold of any ticks between any
two steps. `ClockInv` relates `sleep` and `date` to what has passed: `uptime_ticks` is a tick of the second `sleep` was
called in, plus the ticks since (`SleepInv`); each answer `date` has is a reading of `began` or of the second after it, in the
order of the reads (`DateInv`). `MachineSleepsLongEnough` and `MachineDateNotBehind` are then arithmetic, for every number of ticks in a second, of
seconds in a minute, and so on. `MachineTypeCorrect` needs that the port holds at most the controller's answer on top of what the
user typed (`PortInv`).

**Files** (`SkullFSProofs`, from `SkullFSAssumption` and `WorkingDirAssumption`: the nodes are taken from finitely many addresses, the
default directories have different names, neither `.` nor `..`, no argument of a command is empty, and `PATH` has room for `/` and
its end). `FSInv` has two
parts. `Well(node)`: the root is a directory without a parent; each directory counts its entries, gives each another name, and is
the parent of the directories among them; no node is two entries; and a set of nodes that has the root, and with each directory its
entries, has all nodes (`Reached`). `Tree` alone is not inductive: it does not say that a file's buffer and data belong together, and
`Located` is a set of paths, where `Reached` says without paths that nothing is cut off. The other part: `blocks` is the sum, over
all nodes, of the blocks each has. Three lemmas on an arbitrary function from addresses to nodes say that an entry in front
(`GrowsWell`), an entry taken out with its node (`ShrinksWell`), and new contents of a file (`WritesWell`) keep `Well`, three more what
they do to the sum; each command is one of the three, or was refused memory and gave back what it had. From `FSInv`: `SkullFSTypeCorrect`,
`SkullFSTree`, `SkullFSNoLeak` (with `AllLocated`: as long as there are nodes not yet located, paths with one name more find another)
`SkullFSFileFits` (with `GrownFits`: doubling reaches any size) and `SkullFSShowsTree` (after n reads `cat` has printed a prefix of at
least n characters, and the last one is all; what `ls` shows is `.`, `..` and a bijection onto the names, `ReaddirGives`). All are of
`ShellSpec`, whose `rm` is `Careful`.

`SkullFSCwdIsHere` adds `CwdInv`: `current_dir` ends with a slash, and while `here` is known, its names lead from the root to it, and
it is a directory. Texts and paths are folds, over sequences of any length: `RunExists`, `AfterIs` and `AfterSteps` show that a fold is
what is left after its elements one by one, and `AfterParts` that it may stop in between, so that the names of a text with a
slash at its end and another text behind it are those of the one and then of the other (`NamesJoin`). A relative `cd` therefore
goes on where `here` is, the slash that is added and an empty name change nothing, and an argument that was cut off gives `here`
up (`CdFits`). The other commands leave `current_dir` alone, and every one of them leaves the nodes that stay as they were, with
the entries of the nodes that stay (`Kept`): a text whose every directory stays leads where it led (`FileCommandFits`).

`SkullFSKeepsTree` is the refinement of `FileTree`, from the default directories on and one command after another. A tree of the promise is a function from paths, and
`Tree` alone gives no path to a node; with `FSInv` goes `PlacedInv`: some function from the nodes gives the root the empty path, each
entry the path of its directory and its name, and no two nodes the same. It exists at first (`InitPlaced`), and a command carries
it on, extending it by the node made or leaving the node removed out. Under it `Located` is its graph (`LocatedIs`) and the tree
what each node holds at its path (`TreeIs`). What a command does is said in terms of nodes alone, and proved command by command
with `FSInv` (`Does`): it makes one node below a directory (`Grow`), removes one that has no entries (`Shrink`), gives a file
other data (`Change`), or, refused memory or not, leaves every node as it was. `GrowPromised`, `ShrinkPromised` and
`ChangePromised` show each to be a step of the promise; the last case is a stutter. `Kept` follows from the same (`DoesKeep`).

**Only model-checked.** All liveness (`CallsReturn`, `KeysAreTaken`, `MenusComeToRest`, `SleepEnds`, `BootReachesShell`): fairness
and what it enables are out of the prover's reach. Every other property of a passing run is a theorem.

## 5. Not modelled

- **Minimal file system** of `kernel/fs.c`: the fallback when SkullFS cannot be set up on an empty heap at boot.
- **Initial ramdisk**: the loader's sector address reaches it with a floppy's geometry only; on the hard disk
  that `make run` starts, SkullFS is the root. It is read-only, and its one hard question, the offsets, is answered above.
- **System calls**: nothing issues int 0x80. Their gate is in `Machine`.
- **bios_init, bios_check_key**: never called.
- **Conversion to ASCII** with the modifiers at the moment a scancode is taken: the tables change no state.
- **Drawing, colours, formatting**: no state another part reads.
- **CPU detection, C library, boot loader, animation**: pure, or before anything runs concurrently.

## 6. Plan

Done: heap (atomic and stepwise), keyboard, console with the menus, machine with the running clock, SkullFS, the
current directory, all with proofs.

Every safety property, action property and refinement that a passing run checks is a theorem; liveness stays with TLC.
Left: *extend the model.* Conversion to ASCII with the modifiers at the moment of taking (`Keyboard`); the ramdisk and its
generator as a pair of encoder and decoder; `sys_sleep` behind its gate (`Machine`), should anything come to call it.

## Running

    tlc -config MCKHeap.cfg MCKHeap      # and the other cfg files with the MC module of their name
    tlapm FiniteSums.tla                 # KHeapProofs.tla, KHeapStepsProofs.tla, KeyboardProofs.tla,
                                         # SessionProofs.tla, ConsoleProofs.tla, MachineProofs.tla,
                                         # SkullFSProofs.tla
