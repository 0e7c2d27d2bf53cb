# A verification development of the ECE391-TSF kernel

TLA+ models of the kernel's own logic, TLC runs that check them on small
instances, and TLAPS proofs about the model of its core for every value of the
constants. `PROJECT.json` is the index: it names the source lines each
definition stands for, what each run checks, the broken variants that show a
property notices a bug, the findings, the hazards and the theorems.

## The system

A small x86 teaching kernel: three text terminals, at most six user programs,
a read-only filesystem in memory, one CPU, no preemption (the PIT is masked and
the scheduler is never called). What makes it hard is that a *terminal switch*
(Alt+F1..F3) is a context switch done inside the keyboard interrupt, that the
interrupt gates of the keyboard and of the RTC leave interrupts enabled, and
that the state that says who is running is kept in many places.

| component | state | operations | what must be true of it |
|---|---|---|---|
| process life cycle (`syscall.c`, `pcb.c`) | `prog_count`, `memoryspace`, `pcb_loc`, the PCBs, `tss.esp0`, CR3, one kernel stack per program number | `execute`, `halt` | the program that runs is the one all of these name; a halt goes back to the caller |
| terminal switch (`keyboard.c:411`) | `current_terminal`, `curr_esp`/`curr_pd` of the PCBs | Alt+Fn; starting and restarting a shell per terminal | a background program can be gone back to; a switch moves no program |
| line discipline (`keyboard.c`) | line buffer, index, modifier flags, `enter_flag`, `read_flag` per terminal | one handler run per scancode; `terminal_read` | a read gets the line typed on its terminal |
| file descriptors (`syscall.c`) and filesystem (`filesys.c`) | the descriptor array of the PCB; the image, which is constant | `open`, `read`, `close`; `read_data`, `dir_read`, dentry lookup | reads deliver the file, in order, to its end and not beyond |
| RTC (`rtc.c`) and interrupt controllers (`i8259.c`) | `int_flag`, registers A, B, C; in-service bits | `rtc_open`, `rtc_read`, `rtc_write`, the handler; `send_eoi` | a read waits for a tick and then returns; the clock never falls silent |
| exceptions, gates (`idt.c`, `handlers.S`, `wrapper.S`) | the IDT, set up once | one handler per exception, all spin | |
| paging (`paging.c`) | page directories and tables, filled at every `execute`; the programs' memory | `paging_init`, `prog1_init` .. `prog6_init` | programs reach no memory but their own; a terminal switch finds its buffers |
| console (`lib.c`, and its users in `keyboard.c`) | screen coordinates and background buffer per terminal, video memory | `putc`, `term_putc`, `scroll`, `clear`, the redrawing of the typed line, `terminal_write`, the copies of a terminal switch | the screen shows what was printed and typed on its terminal |
| arguments (`syscall.c`) | the argument in the PCB | `execute`'s parsing of the command, `getargs` | a program gets the argument of its own command |
| dead or trivial code | `sched.c` (never called), `pit.c` (IRQ 0 stays masked), `set_handler`, `sigreturn` | | |

How they interact: every system call finds the PCB of the caller through
`pcb_loc[current_terminal]`, so the files, the devices and `halt` all rely on
`current_terminal` being the terminal of the program that executes, which only
`terminal_switch`, in an interrupt, changes. `terminal_read` and `rtc_read`
spin with interrupts enabled on flags the handlers raise; a switch in that
moment leaves them where they are until their terminal is shown again.

## Modules

* `Tasks` - the process life cycle and the terminal switch. Control transfers
  in this kernel are jumps to a saved (esp, ebp) pair, so the model keeps, for
  each kernel stack, the frames somebody intends to come back to (`kstack`); a
  saved context is a stack and a depth. Entering the kernel from ring 3 starts
  at the top of the stack in `esp0`, over what was there; a jump to a context
  whose frame is no longer there makes the phase `wild`, after which nothing is
  claimed. `execute`, `halt`, the wait of a driver's read, the two halves of
  `terminal_switch` (before and after its EOI), the launching loops and the
  exceptions are one action each. `execute` is split where it can be entered
  (`Execute` from ring 3, `Launch` from a loop in the kernel), and `halt` and
  the second half of the switch by whether the frame is still there.
* `Launch` - `Tasks` with the one `execute` that runs with interrupts enabled,
  the first shell of a terminal, taken apart at its writes (`LaunchBegin` to
  `LaunchEnd`), and an Alt+Fn (`LaunchSwitchOut`) between any two of them. How
  far each unfinished `execute` got is `stage`; the unfinished call itself is a
  frame on the stack it runs on. All other steps are those of `Tasks`.
* `AddressSpaces` - `Tasks` with what `execute` and `vidmap` do in memory: the
  page directories and whose image was last copied into each 4MB frame. `Load`
  is the part of `execute` that fills a directory and copies the program
  through it; every other step changes neither.
* `ProcessStacks` - what `Tasks` promises: one stack of programs per terminal.
  A program starts on top of the stack of the terminal shown, exits from there,
  and a switch moves nothing. `Tasks` is checked to implement it under the
  mapping `StackOf`, which reads each stack off the parent pointers.
* `TasksProofs`, `FrameProofs`, `LaunchProofs`, `AddressSpacesProofs`,
  `FilesProofs`, `TerminalProofs`, `ConsoleProofs`, `RtcProofs` - theorems about
  `Tasks` (the first two), `Launch`, `AddressSpaces`, `Files`, `Terminal`,
  `Console` and `Rtc`.
* `Terminal` - the keyboard handler, one step per scancode (its EOI comes
  last), against `terminal_read`, one step per access to what they share: each
  byte it copies, the second look at that byte, and each cell it clears are
  steps of their own, and a key may come between any two of them. The line
  buffers are one block of memory, as in C, so a write past a row is a write
  into the next one. `held`, `line` and `sent` are history: the keys that are
  down, what was typed, and the first line ended since the buffer was cleared.
  So are `raced` and `dragged`, which name the terminals where a key came at a
  moment the driver does not handle (see "Known facts").
* `Files` - one program's descriptor array over the filesystem, with
  `read_data`'s arithmetic in `uint32_t` (`WORD`). A byte is named by its place
  in the image. `opened` and `got` are history: what each descriptor was opened
  for and what came out of it. The uninitialised variable of `open` is a choice
  between the values that matter. `execute`'s way through the command string
  (name, spaces, argument, up to `BUFFASIZE` characters, also behind its end)
  and `getargs` are here too, since they live in the same PCB. The empty name,
  of a command that starts with a space, is that of the first unused directory
  entry; the header check of a file shorter than a header reads bytes of the
  stack, and may pass or fail (`HeaderUnread`). A negative size makes `getargs`
  fault, and the kernel stops: no action. `MCFiles` gives a small image and the
  commands.
* `Console` - video memory, coordinates, background buffers, and everything
  that draws: keys, Backspace, Enter, Ctrl+L, `terminal_write`, the switch. A
  handler run or a system call is one step: system calls run with interrupts
  off, and the handler sends its EOI after it has drawn. The exception is the
  switch that can start no shell, which clears the screen and prints the text
  of `keyboard_helper` after its EOI: `HelperClear` and, for each character,
  `HelperPrint` (`helping` counts what is left), with keys in between. `paper`
  (what was printed since the last clear), `top` (rows scrolled off) and
  `spoiled` are history; the properties compare the screen with `paper` and the line. Output while a line is typed, Backspace, Ctrl+L
  and lines of more than two rows can spoil the screen (see "Known facts", and
  the comment of `ScreenIsText`); `spoiled` counts the steps since.
* `Rtc` - the clock, with the register selected at its index port (`index`), the
  two controllers' in-service bits, the handler in four steps, `rtc_read` in
  two, of one program per terminal. The handler selects register C in one step
  and reads whichever register is selected in the next; `rtc_open` and
  `rtc_write`, system calls with interrupts off, are one step each and leave
  register B selected. `ticked` (an interrupt came since the program's last
  read), `asked` (the frequency last set) and `crossed` (the clock was set up
  while a handler stood between the two accesses) are history.

A definition named `X_Bug` is a broken variant of `X`; no specification uses
it. `PROJECT.json` ("mutants") pairs it with the property that notices it.

## Runs

| run | what it asks | result |
|---|---|---|
| `Tasks_switching` | everything about switching and address spaces, 4 program numbers, no Alt+Fn inside `terminal_switch` (root `AddressSpaces`) | holds, 97,482 states |
| `Tasks_nested` | 3 numbers, Alt+Fn inside `terminal_switch` and inside the `execute` of a first shell (root `Launch`) | holds without `ResumeFrames`, 360,637 states |
| `Tasks_halt_return` | does `halt` always return to the `execute` that started the program? | no |
| `Tasks_nested_resume` | does a nested switch leave background terminals resumable? | no |
| `Terminal_lines` | does a read get its line, clearing leave nothing behind and Enter end the read, with keys at any point of it? | holds, 991,872 states |
| `Terminal_overflow` | does a full line stay in its buffer? | no: Enter |
| `Terminal_lost_enter` | is Enter always answered? | no |
| `Files_reads` | do reads deliver files and directories in order and to their end, and do programs get the argument of their command? | holds, 142,668 states |
| `Files_past_end` | and not beyond? | no: one byte |
| `Console_screen` | does the screen show what was printed and typed, on the right terminal? | holds, 897,089 states |
| `Rtc_reads` | interrupt protocol, rate, one read per tick, reads return | holds, 20,403 states |
| `Rtc_suspended` | does a read return with a handler suspended elsewhere? | no |

What the failing runs show:

* **A shell's halt returns nowhere** (`HaltReturnsToCaller`). The first shell
  of TERM_2 or TERM_3 is executed inside the keyboard interrupt, so the frame
  it is to return to lies on the kernel stack of the interrupted program. As
  soon as that program is shown again and makes a system call or is
  interrupted, the frame is overwritten. `ReturnFrames` says that this is the
  only case: every other program's frame stays until it halts.
* **A switch inside a switch loses a context** (`ResumeFrames`). After the EOI
  and before the new esp is loaded, `current_terminal` already names the new
  terminal; a second Alt+Fn saves the old one's stack in the new one's PCB.
* **Enter on a full line** (`OnlyOwnRow` with `LINE_ROOM` one larger than the
  buffer) writes into the next row.
* **Enter released too early** (`EnterAnswered`): the release clears
  `enter_flag` before `terminal_read` looks at it again. Reachable when the
  release is handled right after Enter, before the loop runs again.
  `EnterAnsweredUnlessReleased` says that no other key at any point of the read,
  and nothing on another terminal, keeps it from returning.
* **One byte past the end** (`NothingPastEnd`): reading to the end of a file
  from a position other than 0. `ReadsInOrder` shows that the bytes before it
  are right, `TypeOK` that it is at most one, and `ReadFitsBuffer` that the read
  still copies no more than it was asked for.
* **A suspended RTC handler** (`ReadReturns`): Alt+Fn during `rtc_handler`
  leaves IRQ 8 in service. `ReadReturnsUnlessSuspended` says that a read hangs in
  this way and one other only, which `LineIsAnswered` names: an Alt+Fn between
  `rtc.c:39` and `rtc.c:40` and an `rtc_open` or `rtc_write` on the other terminal
  leave another register selected; the resumed handler reads that one, its end
  of interrupt goes out with the line still up, and the clock, whose interrupt
  the controllers take by its edge, is silent from then on.

### Bounds

* `MAX_PROCESSES` is 4 (3 in the nested runs) instead of 6. Four reaches every
  limit: three terminals with a shell and one child, all numbers in use with an
  empty terminal left, reuse of numbers after halts; the theorems hold for any
  value. `NESTING` bounds how many frames of unfinished switches may lie under
  a nested one; with 1 all the effects of nesting appear. `Tasks_switching`
  with 5 numbers (3.9 million states) was checked once and holds too. In
  `Launch` an unfinished `execute` may be suspended while its stack holds at
  most `NESTING` + 1 frames.
* `Terminal`: two terminals, one character key, Alt; the program of TERM_2 reads
  (`READERS`), that of TERM_1 does not: its line takes the way of a terminal
  without a reader, and two readers share nothing but the keyboard. (In
  `Terminal_overflow` it is TERM_1's that reads: its row has one behind it.)
  `Terminal_lines` has lines of three cells, newline included, and reads of two, so
  that lines shorter than, as long as and longer than the read occur. (With lines
  of two and reads of 0 to 3, of none, part, all and more than the row, the
  properties hold too: 207,808 states.)
  `LINE_ROOM` is as large as the buffer except in `Terminal_overflow`: larger
  lines run into the next row.
* `Files`: two descriptors to open, blocks of two bytes, files of two and three
  bytes, sizes 0, 1, 4 and the largest `uint32_t` with `WORD = 16`: an exactly
  full last block, a half full one, sums that wrap, a read that asks for
  nothing. Commands are six cells long, a file name is one cell of them, a header
  two bytes, of which the empty file has none.
* `Console`: two terminals, a screen of 3 by 3, a line of at most six
  characters, so that it wraps and reaches the last row; one key, two texts to
  write, one of which wraps. `SAVED_CELLS` is more than the screen and less than
  the row behind it, as `VID_MEM_SIZE` is. `PAPER` bounds how much is printed
  (seven characters on one terminal, two on the other, enough to scroll) and
  `SPOILED` how many steps follow once the screen is spoiled. `Blank` stands for
  a space, a 0 and what was in memory before boot. No text written is longer
  than `BUFFERSIZE`.
* `Rtc`: three terminals; rates at and around the limits of the checks.

### Fairness

* `Terminal`: weak fairness of `terminal_read`'s steps. There is one CPU and it
  executes the code of the terminal shown; an interrupt handler always returns.
* `Rtc`: weak fairness of the tick, of the delivery of a deliverable request
  and of the handler; strong fairness of `rtc_read`'s steps, since interrupts
  stop the program again and again, but at 1024 Hz at most leave it time.
* `Tasks` has none: a program may run for ever, and users may never type.

`Tasks` never deadlocks: the machine that stopped (`panic`) or went astray
(`wild`) has a stuttering action `Hang`.

## Proofs

`TasksProofs` proves, of `Tasks`, for every `MAX_PROCESSES` and every `NESTING`:

* `TypeCorrect` - `TypeOK`: counts never go below zero, and what `halt` and
  `terminal_switch` load into esp0, CR3 and esp was written before.
* `RunsAsItself` - `CurrentIsRunning`.
* `CountsExact` - `Accounting`.
* `StrandsOnlyWhenFull` - `StrandedOnlyWhenFull`.

None of these is inductive: what `halt` loads depends on what `execute` put in
a PCB long before, and on that PCB not having been reused. The inductive
invariant `IInv` adds that the PCB of a program in use is complete and that a
child was started from its parent's stack and page directory (`PcbsOK`); that
the frame it returns to, *if still there*, goes on as the right code
(`CallerOK`); that the programs of a terminal form one chain of parents from
the foreground program up (`ChainOK`, a level function from programs to their
depth); that the frames of unfinished switches lie on the stack of the program
they interrupted (`FramesOK`); and who may execute on an empty terminal
(`EmptyOK`). It has no clause saying that frames *are* still there, so it
covers the wild returns too. The only assumptions are those of `Tasks` on its
constants. Each action has a lemma; `ExecuteStep` and `HaltStep` carry the
argument that starting and ending a program keep the chains. TLC agreed with
`IInv` before it was proved.

`FrameProofs` goes on from `IInv`, and proves of `Tasks`:

* `CallersStay` - `ReturnFrames`, for every `NESTING`.
* `ContextsStay` - `ResumeFrames`, with `NESTING = 0`: `Tasks_nested_resume`
  shows that it is false otherwise.
* `StacksImplemented` - `RefinesStacks`: `Tasks` implements `ProcessStacks`.

The first two are about frames that are the *oldest* ones of their stacks, so
the argument is about the bottoms of the stacks: a push keeps every bottom but
that of a stack it starts anew (`PushBottom`), a return every one but that it
returns through (`PopBottom`), an entry from ring 3 every one but that of
`esp0`'s stack (`EntryBottom`). `FInv` says that a caller's frame is at the
bottom of its parent's stack, or of the boot stack (`CallersOK`); that stack is
not `esp0`'s while the child lives, because the parent is in the middle of a
chain and only the end of one executes (`NoCallerOnForeground`). It also says
what lies below a nested switch (`SwitchesOK`) and when TERM_1 is empty
(`FirstOK`), without which a return could take the bottom with it. `BInv` adds
that the context of a background terminal is the oldest frame of its foreground
program's own stack (`BackgroundOK`); a stranded program breaks that, and so
does nesting.

The refinement maps each terminal to a sequence that a recursive function reads
off the parent pointers. `StackFound` shows, from the levels of `ChainOK`, that
this sequence has as many programs as `prog_count` says, all in use, each the
parent of the next, the last the foreground one; `SameChain` that no other
sequence has; so for a step it is enough to show that the appended or shortened
sequence is such a chain (`ExecuteStarts`, `HaltExits`, `SwitchShows`). The
halt that jumps to a frame that is gone pops the top one as well: by
`CallersOK` it can only be the last program of its terminal.

`LaunchProofs` proves, of `Launch`, for every `MAX_PROCESSES` and `NESTING`:

* `LaunchTypesCorrect` - `LaunchTypeOK`; `LaunchRunsAsItself` -
  `CurrentIsRunning`; `CountsExactMidway` - `AccountingMidway`;
  `StartedCallersStay` - `StartedReturn`; `NoOtherDirectory` -
  `LoadsOwnDirectory`.
* `SuspendedLaunchImplements` - `RefinesStacks`.

The invariants of `Tasks` do not hold of `Launch` as they stand: the PCB of a
program whose `execute` is suspended is stale or half written, but the program
is counted and in the foreground already. They do hold of `View`, the PCBs as
they would be had every unfinished `execute` got to its end. `LaunchProofs`
therefore instantiates `FrameProofs` with `pcb <- View` (and one frame more of
nesting, since an Alt+Fn may also come inside an `execute`): every step but the
five by which an `execute` goes on is a step of `Tasks` under the View, so its
lemmas are cited, not repeated, and those five change nothing of the View that
chains and frames depend on (`WrittenView`). What `LInv` adds is what makes that
so: an unfinished program is in use and the only one of its terminal, and never
the one that runs user code (`UnfinishedOK`); what of a PCB is written at which
stage (`WrittenOK`); the `execute` that goes on is the foreground program's, on
its own stack and directory once they are loaded (`LaunchingOK`); the context of
a program leads back to its own code when it is done and to its own `execute`
when it is not (`NestedOK`, `ContextsOK`); and the very first shell is not
suspended before it has an address space (`BootOK`), because Alt+Fn then page
faults.

For the refinement, an unfinished program is the only one of its terminal, so
that no parent pointer of it is ever followed: the stacks read off the PCBs are
those read off the View (`SameStacks`) as long as control is not lost, and the
one step that loses it and moves a program, a halt, leaves its terminal empty.

`AddressSpacesProofs` proves, of `AddressSpaces`, for every `NESTING` and as many
programs as fit below the background buffers (`FramesAssumption`):

* `ProgramsApart` - `MemoryApart`.
* `RunsOwnImage` - `OwnImage`.
* `SwitchFindsBuffers` - `SwitchIsMapped`.

Every step of `AddressSpaces` is a step of `Tasks` (`StepsOfTasks`), so `IInv`
holds there as well, and `SpaceInv` needs only two clauses more: a program in
use still has the directory and the image `execute` gave it (`LoadedOK`), and
user code, a wait and a terminal switch run under a directory that was filled
(`FilledOK`). The first needs that `execute` takes a free number (`FreeNumber`,
from the accounts of `IInv`) and that frames do not overlap (`OwnFrame`); the
second, that a halt to user code loads the directory of a parent still in use
(`HaltLoads`, from the chains of `IInv`).

`FilesProofs` proves, of `Files`, for every filesystem image that satisfies its
assumptions, every width of `uint32_t`, block size and number of descriptors:

* `TypeCorrect` - `TypeOK`, with its bound on positions; `ReadsFit` -
  `ReadFitsBuffer`; `OwnFiles` -
  `OnlyOwnFiles`; `InOrder` - `ReadsInOrder`; `OpenKeepsOthers` -
  `OpenTakesAFreeOne`; `OwnArgument` - `ArgumentIsTheCommands`.
* `ZeroIsTheEnd` - `ZeroMeansEnd`, for images as the tools that write them leave
  them: each file's blocks are in the image (`FilesInside`), and the named
  directory entries come first (`DirectoryDense`). A block number out of range
  or a gap in the directory makes a read return 0 early. `MCFiles` assumes both
  of its image, so TLC evaluates them.

The inductive invariant `IInv` states for each descriptor separately what it
means (`DescOK`: what was read through it is exactly what lies before its
position) and that the argument in the PCB is a fixed point of what `execute`
stores for the command (`ArgsOK`). The work is in `read_data`: that with
wrapping sums the loop still stops at most one byte past the end, and that what
it appends starts where the last read stopped. The assumptions on constants are
what the code relies on: a length plus one does not wrap (`WordAssumption`), a
file's block table reaches past its last byte (`ImageAssumption`), a directory
entry names an inode that `read_dentry_by_index` accepts.

`TerminalProofs` proves, of `Terminal`, for any number of terminals:

* `TypeCorrect` (`TypeOK`) and `AltFollows` (`AltFollowsKey`), of `Terminal` as it
  is.
* `OwnRow` (`OnlyOwnRow`), `EmptyTail` (`TailIsEmpty`) and `LineRead`
  (`ReadGetsTheLine`), for lines that do not outgrow the buffer
  (`LINE_ROOM <= BUFFERSIZE`). `Terminal_overflow` shows the one that Enter lets
  outgrow it.

Keys may come between any two accesses of `terminal_read` in all of them. Two
inductive invariants carry the last two. `TailOK` says what is empty: the cells
from the index on, or, while the reader clears, those it has cleared already,
except where a character was dragged in. `LineOK` says what the cells hold: what
was typed since the buffer was last cleared; once a line was ended, that line
and what was typed behind it; and that the bytes copied so far are the beginning
of that line, the next one the byte the loop looks at. A step of one terminal
keeps both for the others by `OwnRow`'s argument.

`RtcProofs` proves, of `Rtc`, for any number of terminals and any frequencies:

* `TypeCorrect`, `EoiExact` (`InServiceWhileHandled`), `LineAnswered`
  (`LineIsAnswered`), `OneTickOneRead` (`OneReadPerTick`).
* `RateLastSet` - `RateIsLastSet`, for frequencies below 256 or with a low byte
  of 0, like the powers of two that may be asked for: `rtc_write` looks at one
  byte.

They are inductive together, with two clauses more: a raised `int_flag` is an
interrupt that no terminal has read since (`FlagIsTick`), and the rate is that of
the byte last accepted (`RateIsByte`). `LineIsAnswered` needs no more than that a
handler between its two accesses finds the register it selected unless the clock
was set up meanwhile. That clause (`crossed`) is not an assumption: it is in the
property, and without it TLC finds the property false.

`ConsoleProofs` proves, of `Console`, for every number of terminals, every size
of the screen (of at least two rows, and with rows no longer than the line
buffer, as 80 is no more than 128), and whatever programs write:

* `TypeCorrect` - `TypeOK`.
* `CursorOnScreen` - `CursorStaysOnScreen`.
* `SeparateScreens` - `ScreensApart`.
* `ScreensAreText` - `ScreenIsText`.

Text is drawn character by character, by folds over a sequence. What a fold
computes for every text is an induction over data; what is needed here, that it
ends in a set its steps do not leave, is proved without one: the function of
index sets that a fold is defined by exists (`FoldExists`, from a least index
at which it would not), the fold is a run of steps (`FoldRuns`), and a run stays
where its steps keep it (`RunStays`). Each drawing routine then has one lemma,
for any set of columns it cannot leave (`Columns`); with all columns up to the
end of the line buffer these give `TypeOK`, with those of the screen they give
`CursorStaysOnScreen`. `IInv` adds to `TypeOK` that neither the cursor nor
`writeindex` passes the end of the line buffer, since Ctrl+L prints `writebuffer`
up to `writeindex`; both may be negative. For a Ctrl+L that fits in one row the
cursor is bounded at every character from both sides (`PutCsFit`).

`ScreenIsText` rests on `SInv`, which TLC checked first: a terminal that is not
spoiled is `Good`: the row behind the screen is blank (`Tidy`), the text ends
and the line starts at the cursor, the line takes at most two rows, all on the
screen, `writeindex` is not left of its column, and every cell is the `Ink` of
the paper from row `top` on (`Sound`). Without the bounds on the line, a key
could scroll it apart; without the blank row, `scroll` could bring anything in.

The argument: memory and paper are compared by rows (`Cell`, `Ink`), where the
paper has nothing printed ahead of its head (`Papers`). `Matches(d, r, T)` says
that display `d` shows paper `r` from row `T`. One character keeps it
(`TermPutCMatches`: `TermPutC` beside `OnPaper`), and a whole text does because
both folds are runs that can be followed as one run of pairs (`PrintkMatches`,
`WriteMatches`). A line being typed is given cell by cell (`OnLine`): the paper
has it in this form (`LinePrinted`), and so does what the keyboard's own routines
draw, whatever order they draw it in. Then there is a lemma for each step
(`KeySound`, `BackspaceSound`, `EnterSound`, `ResetSound`, `DrawnGood`).

The proof of `ResetSound` failed for an instance outside the run's bounds, and
showed a condition that `ScreenIsText` had lacked: a Ctrl+L with as many newlines
in `writebuffer` as the screen has rows does not scroll, but goes back to the top
row. It is among the known facts below.

Every invariant and action property of the passing runs is proved. Liveness
(`EnterAnsweredUnlessReleased`, `ReadReturnsUnlessSuspended`) is out of the
prover's reach and stays with TLC.

## Not modelled

* `sched.c` and `pit.c`, which never run; of boot, everything but the loop that
  starts the first shell; the string and memory functions of `lib.c`,
  sequential code without state, and `printf`, which no modelled code calls.
* The `-1` returns of `terminal_read` and `terminal_write`, null buffers, names
  longer than a dentry holds, a damaged image. The status a program halts with.
* The kernel's own messages on the screen ("Relaunching Shell"), and colours.
* `terminal_write` of more than 128 characters, which runs over `writebuffer`:
  what is hit behind the last row is up to the linker.

Known facts without a run:

* Shift and Ctrl released on another terminal stay on in the old one.
* Keys inside a read (`raced`, `dragged`). An Enter between `enter_flag = OFF` and
  `read_flag = ON` wakes the reader on a line that was dropped. A Backspace after
  Enter takes the newline back, and the read copies on behind it. What is typed
  between Enter and the end of the clearing is lost; a character that comes
  while the cells are cleared stays behind the next line's index. A line ended
  after the clearing but before `read_flag = OFF` stays in the buffer in front of
  the next one.
* Two programs may go on one tick: `int_flag` is lowered after it was looked at.
* `terminal_read` clears the line of `current_terminal` (keyboard.c:348), which is
  not the reader's own for a program stranded on an empty terminal. The stranded
  reader is not in `Terminal`.
* Alt+Fn while the first shell of a terminal is being started leaves that shell
  without `curr_pd`: switching back loads 0 into CR3 (`ResumeUnready`). Alt+Fn at
  boot page faults (`SwitchFault`, `LaunchSwitchFault`). If the launch goes on
  under a terminal without programs, `execute` follows a null `pcb_loc`.
* Backspace on an empty line, after two writes or after a long one, moves the
  cursor to `writeindex`, which need not be where the text ends. Ctrl+L prints one
  character more than the line and moves the cursor to a negative column for a
  line that does not fit its row. The third row of a long line overwrites the
  second. `scroll` takes in the row behind the screen.
* Ctrl+L prints with `putc`, which takes the row modulo `NUM_ROWS` where
  `terminal_putc` scrolls. Text with as many newlines as the screen has rows
  starts over at the top. The run's three rows and shorter writes do not reach
  this; with `NUM_COLS = 4`, `NUM_ROWS = 2` and a write of two newlines, TLC does.
* `terminal_write` returns one more than it was asked to write.
* `open` with all descriptors used may return 8; a zero-byte directory read
  skips a name.
* For a command without argument `execute` starts to store one behind the end of
  the string. That is harmless if the caller filled its buffer with zeros
  (`ZeroBehind`); otherwise what is there becomes the argument, and `getargs`
  returns it, although "if no argument, return -1" (syscall.c:461). The kernel
  itself executes the constant "shell" so. `getargs`
  refuses an argument that starts with `%`, and copies as many bytes as it is
  asked for.
* `vidmap` accepts addresses up to 4MB past the program's page, and page faults.
* `rtc_open` sets the rate of all programs; `rtc_write` cannot set more than
  64 Hz (the frequency is one signed char, so that 258 is taken for 2);
  `rtc_read` may return at once on an interrupt handled before the call.

## Plan

1. Done: `Tasks`, `ProcessStacks`, `TasksProofs`, `Terminal`, `Files`, `Rtc`;
   then `Launch`, `Console`, `AddressSpaces`, `AddressSpacesProofs`, zero-byte
   reads, writes and commands in `Files`.
2. Done: `Terminal` with keys at every access of `terminal_read`; the register
   index of the clock in `Rtc`; the header check and the empty name in `Files`.
3. Done: the proofs of `Tasks` (`ReturnFrames`, `ResumeFrames`, the refinement
   of `ProcessStacks`), `Launch`, `Files`, `Terminal`, `Rtc` and `Console`.
