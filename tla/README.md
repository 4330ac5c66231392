# neo-armcpu in TLA+

The repository holds a MIPS32 computer on an FPGA: a pipelined CPU in Verilog
(`armcpu/`), a port of the teaching kernel ucore with its user programs
(`ucore/`), and a compiler for the language decaf (`decaf/`). This directory
models what can be checked of it: the kernel's processes, memory, file system
and drivers, three programs that talk to the machine or to the host, and the
processor.

## Inventory

Paths are relative to `src/`; `kern/` stands for `src/ucore/kern/`.

| part | state | operations | interacts through | hard behaviour |
|---|---|---|---|---|
| scheduler `kern/schedule` | run queue, time slices, `current`, delta list of timers | `wakeup_proc`, `schedule`, `add_timer`, `del_timer`, `run_timer_list` | called by processes and by the clock handler | wake-up before `schedule()`, slices at 0, lists changed by interrupts |
| processes `kern/process/proc.c` | state, flags, wait state, family tree, pids | fork, exit, wait, kill, yield, sleep, exec, `init_main`, `cpu_idle` | scheduler, wait queues, memory, files | orphans, zombies, kill racing a wake-up, end of the system |
| traps `kern/trap` | trap frames, enabled interrupts | `mips_trap`, `interrupt_handler`, TLB refill | all interrupts and calls | checks on the way back to user code |
| stdin, wait queues `kern/fs/devs/dev_stdin.c`, `kern/sync/wait.c` | ring, queue of readers | `dev_stdin_write` (interrupt), `dev_stdin_read` | scheduler, kill | several readers, ring full, killed reader |
| semaphores `kern/sync/sem.c` | value, queue | `up`, `down`, `try_down` | wait queues | hand-over without counting |
| physical memory `kern/mm/pmm.c`, `buddy_pmm.c`; slabs `kmalloc.c` | free lists, slabs, reference counts, page tables | alloc, free, insert, remove, copy | traps, fork, exit | merging of buddies, a cache that needs another, requests that fail half way |
| virtual memory `kern/mm/vmm.c`, `thumips_tlb.c` | areas of an address space, `find_vma` cache, TLB | map, unmap, duplicate, page fault, copy to and from users | fork, exec, exit | stale TLB entries, failure half way |
| files `kern/fs` (file table, VFS, devices) | descriptors, reference counts, current and boot directory | open, close, dup, read, write, seek, lookup, chdir | processes, SFS | references on error paths, positions that go stale |
| SFS `kern/fs/sfs` | inode cache, block maps, free map | load, reclaim, map, truncate, read, write, sync | VFS, disk, semaphores | allocation failing half way, the end of the disk |
| disk `kern/fs/devs/dev_disk0.c`, `iobuf.c`, `kern/driver/ide.c`, `ramdisk.c` | buffer, sectors | `disk0_io`, `sfs_rbuf`, `sfs_wbuf` | SFS | pieces of blocks, last shorter piece |
| console `kern/driver/console.c`, `ours/vga.c` | ring, screen and what was drawn | `cons_intr`, `cons_putc`, `render_char` | serial port, keyboard, stdin | ring that wraps, cells skipped |
| fetchrun `kern/fetchrun`, host scripts | transfer in progress | request, size, checksum, data | serial line, shared with the console | two ends in turn on a lossy line |
| USB keyboard `ucore/user/sl811.c` | controller registers, toggles, last report | control and interrupt transfers | SL811, stdin | late answers, damaged packets, retries |
| snake `ucore/ours/snake` | ring of coordinates, map, picture | a turn of the game | screen, keyboard | ring and map in step |
| kernel library `kern/libs` | | red-black tree, strings, formatted output, `readline` | everybody | boundaries |
| user library and shell `ucore/user` | | system calls, `umain`, shell | traps | |
| CPU `armcpu/src` | pipeline registers, register file, CP0, TLB | one clock edge | memory controller, peripherals | forwarding, stalls, exceptions in a delay slot, interrupts |
| memory controller, serial port, VGA, SL811 `armcpu/src`, `armcpu/project_1` | FSM, latches | one clock edge | CPU, chips | back-to-back writes, byte lost at acknowledgement |
| mksfs `ucore/tools/mksfs.c` | image under construction | `create_img` | SFS reads the image | hard links, empty files |
| decaf `decaf/` | | compile | | |
| ROM, board designs, reports, IP cores | | | | none that a model would show |

What makes each part correct:

* scheduler: nobody is on the run queue twice or missing from it; a queued
  process runs; a timer expires after the ticks it was set for.
* processes: the tree has no dangling pointer; every zombie is reaped once and
  by its parent; nobody sleeps with nobody left to wake it; a killed process
  ends; the system ends when the last user process has.
* traps: a pending kill or a used-up slice is seen on the way to user code.
* stdin: no reader sleeps on unread characters; a dead one is not on the queue.
* semaphores: units are conserved, waiters served in order, `down` returns.
* memory: every page is free or has one owner, at every failure; blocks are
  merged; the TLB shows the page tables; a copy has every page.
* files: the counts of an inode are those of its holders; a block belongs to
  one file; what is read is what was written last.
* devices: nothing is lost, doubled or reordered, except where the code says so.
* hardware: the pipeline computes what the instruction sequence says; each
  write reaches the chip once; no stall lasts.

The hazards these properties are for are listed, each at its line, in
`PROJECT.json`, also those that no property covers, with the reason.

## Plan

Done:

1. `Sched`, `Stdin`, `Process`, `Lifecycle`, with `ProcessProofs`; `PidAlloc` with `PidAllocProofs`;
   `Links` and `Tree`, with `LinksProofs`.
2. `WaitQueue`, `Sem`, with `SemProofs`.
3. `Buddy`, `Slab`, `KmemCache`, with `SlabProofs`; `Vmm`, with `VmmProofs`.
4. `Mksfs`, `Sfs`, `Vfs`, `Files`, `FileStore`; `Disk`.
5. `Arch`, `Isa`, `Cpu`.
6. `Console`, `Fetchrun`, `Usb`; `Snake`, with `SnakeProofs`; `RbTree`, `Strings`, `Printfmt`.

Left, in this order:

* proofs for `Disk`, whose loops must first be written as recursive functions, as
  those of `Buddy` are;
* `Stdin` with the characters in order, so that the character a full ring drops
  can be told from the others;
* the shell of `user/sh.c` on `Files`.

## Modules

Every module but the instances (`MC...`) stands for one part of the code.

| module | stands for | used by |
|---|---|---|
| `Sched`, `Stdin` | `sched.c`, `default_sched.c`; `dev_stdin.c`, `wait.c` | `Process` |
| `Process`, `Lifecycle` | `proc.c`, `trap.c`; the state diagram at the head of `proc.c` | `MCProcess`, `ProcessProofs` |
| `PidAlloc` | `get_pid` | `MCDevices`, `PidAllocProofs` |
| `Links`, `Tree` | the pointers of the family; the tree they stand for | `MCSlab`, `LinksProofs` |
| `WaitQueue`, `Sem` | `list.h`, `wait.c`; `sem.c` as `sfs_lock.c` and `dev_disk0.c` use it | `MCDevices`, `SemProofs` |
| `Buddy`, `Slab`, `KmemCache` | `buddy_pmm.c`; `kmalloc.c`; the sizes `init_kmem_cache` computes | `MCSlab`, `SlabProofs` |
| `Vmm` | `pmm.c`, `vmm.c`, the TLB, and memory in fork, exec and exit | `MCVmm`, `VmmProofs` |
| `Mksfs`, `Sfs`, `Vfs`, `Files` | `mksfs.c`; `fs/sfs`; `fs/vfs`, `fs/devs`; `file.c`, `sysfile.c`, `fs.c` | `MCFiles` |
| `FileStore` | what the file system promises: words at positions | `Files` implements it |
| `Disk` | `sfs_io.c`, `bitmap.c`, `dev_disk0.c`, `iobuf.c`, `ide.c`, `ramdisk.c` | `MCDevices` |
| `Console`, `Fetchrun` | `console.c`, `vga.c`, the receiver of `serial_port.v`; `fetchrun.c` and the host | `MCDevices` |
| `Usb`, `Snake` | `user/sl811.c`; `ours/snake` | `MCDevices`, `SnakeProofs` |
| `RbTree`, `Strings`, `Printfmt` | `kern/libs` | `MCLibs`, in `MCDevices` |
| `Arch`, `Isa`, `Cpu` | translation and CP0; the instructions as a program sees them; the pipeline | `MCCpu` |

### Processes

`Sched` has the functions of `sched.c` and `default_sched.c` as actions on their
variables, `Stdin` (EXTENDS `Sched`) those of `dev_stdin.c` and `wait.c`.
Neither has a next-state relation of its own: the functions run on behalf of
whoever calls them, and `Process` (EXTENDS `Stdin`) calls them where `proc.c` and
`trap.c` do. `Lifecycle` is the abstract specification: the state diagram at
the head of `proc.c`. `MCProcess` instantiates `Process` for TLC.

**Control.** The kernel runs on one CPU and never preempts itself, so what a
process does in the kernel is a few steps between labels. `pc[p]` is the label
of process `p`; `current` is the process that has the CPU. A trap clears the
interrupt enable bit, so interrupts arrive only in user code, in `cpu_idle`, and
in the kernel threads `init_main` and `user_main`; `Interruptible` says so. An
interrupt puts what its handlers have to do into `irq`, and no process moves
until that is empty. A function that runs with interrupts off and has no loop is
one action; a loop is one action an iteration (`add_timer`, `run_timer_list`,
`wakeup_queue`, the reparenting loop of `do_exit`).

**Data.** A process is a slot of `Proc` rather than a pid and a pointer;
`PROC_FREE` is a slot that is not allocated, and `PROC_UNINIT` is never seen
between two steps. The child list is the sequence that `cptr` and `optr` spell,
the youngest first. The ring of stdin is the number of unread characters. A
timer is on the stack of the process it wakes, so the list holds processes.
Memory and files do not appear in `Process`: a fork that fails, an exec that works
and a call on a file are `SysOther`, which changes nothing there, and a fatal page
fault or a failed exec is `SysExit`; what they do is in `Vmm` and `Files`.

| code | model |
|---|---|
| `proc->state`, `wait_state`, `need_resched`, `time_slice` | the functions of the same names |
| `rq->run_list`, `timer_list`, `timer->expires` | the same |
| `proc->flags & PF_EXITING` | `exiting` |
| `cptr` and the `optr` chain, `parent` | `children`, `parent` |
| argument of `do_wait` | `wait_pid` (`idleproc`, pid 0, is any child) |
| `wait_queue`, `wait->wakeup_flags`, `p_wpos - p_rpos`, `len - ret` | `wait_queue`, `wakeup_flags`, `unread`, `len` |
| a failed `assert`, `panic("initproc exit")` | `panic` |
| `do_fork`, `do_yield`, `do_kill`, `do_sleep` | `SysFork`, `SysYield`, `SysKill`, `SysSleep` `AddTimerPass` `AddTimerLink` `SleepDone` |
| `do_wait` | `SysWait`, then `WaitReap`, `WaitSleep` and `Waited`, or `WaitNone` |
| `do_exit` | `SysExit`, `Exit`, `Reparent`; `InitExit` for initproc |
| `dev_stdin_read` | `SysRead`, `ReadDone`, `ReadWait`, `ReadWoken` |
| `dev_stdin_write` | `StdinWrite`, `WakeReader`, `WakeReaderDone` |
| `clock_int_handler` | `ClockTick`, `ExpireTimer`, `ProcTick` |
| `mips_trap` | `TrapReturn`, and the label `preempt` |
| every `schedule()` | `Schedule`, with the label it returns to in `After` |
| `init_main`, `user_main`, `cpu_idle` | `InitMain`, `InitEnd`, `UserMain`, `Schedule` |

Two parts of `proc.c` have modules of their own, since nothing else depends on how
they work. `PidAlloc` is `get_pid`: the list it scans, newest first, its two static
variables, and one action an iteration; `Fork` and `Unlink` are the calls that
change the list in between. `Links` has the pointers that `set_links`,
`remove_links` and `do_exit` write. Its `Walk` follows them as `do_wait` does, and
`ImplementsTree` says that with each `children[q]` read off by such a walk, every
step is one of `Tree`: a birth, an adoption, a departure, as `Process` performs
them on sequences.

When `init_main` finds no child left it asserts that no process is left, and then that
as many pages are free, and as much of the kernel's heap in use, as before the first
user process (`proc.c:976-977`). The first kind is decided by the state of `Process`:
`panic = "assertion"` if it fails, and `NoAssertionFails` says that it never does. The
second is not, and it need not hold: `vfs_open` keeps a reference of its
own when O_EXCL finds the file (`vfsfile.c:44-45`), `fs_cleanup` does not give it back,
and the inode's object stays allocated. So `InitEnd` may end in `"memory assertion"`
as well as in the designed `"initproc exit"`, whatever the state. What is known of
memory is elsewhere: `FramesExact` (frames of processes), `PagesExact`, and
`RefsExact`, which counts the leak.

### Memory

`Buddy` and `Slab` are functions from the allocator's state to the next, as the
code's are from the global variables to theirs; a call is one action, since no
handler allocates and the kernel is not preempted. `PagesExact` and `SlabsExact`
speak of blocks and objects the callers hold (`blocks`, `objs`), which is history.
A loop of `Buddy` is a turn (`Cut`, `Merge`, `Grow`) and the number of turns it takes
at most; a turn behind the end of the loop changes nothing. `MAX_CUTS` is that number
for the loops that cut blocks off a range: each turn uses up a page or an order.
`Slab` takes for granted that nobody asks for more than the largest block
(`Sizes` in `SlabAssumption`), because `getorder` panics then.
`KmemCache` computes the real caches, 2^5 to 2^17 bytes; its assumptions are
evaluated in the run `structures`, whose instance has two small caches of the same shape.

`Vmm` has addresses in pages, and the user's half of them only; a store through the
unmapped segments kseg0 and kseg1, which `mmu.v` lets user code make, is
`kseg_store`. The record `mem` is the machine's memory: free frames,
reference counts, what a page holds (`zero`, `stale`, the text of a file, a user's
store), the objects of `kmalloc` by kind, the TLB. Every function takes and returns
it with `err`, and `kleft` and `rleft` make the k-th `kmalloc` or the r-th read of
the program file fail. `page_insert`, `unmap_range` and the rest are called where
`fork`, `execve`, `exit`, the TLB miss and `copy_to_user` call them.

### Files

`Mksfs` makes the image that the run starts from. `Sfs` has the functions of
`fs/sfs` on the kernel's state `s`, with `s.err`; `Then(s, Op)` is the code behind
`if (ret != 0) goto out`. `Vfs` adds devices, names, and the operations an inode
has by its kind, where a missing one is an assertion (`__vop_op`). `Files` adds
descriptors and the system calls, each one action over both. The words of a block
are few (`BLKSIZE`), and so are the direct blocks, so that a file of seven words
uses its indirect block; a name is a number. `ImplementsStore` hides blocks, inodes
and caches: what is left are files that are sequences of words. `Disk` continues
below, where a block becomes sectors and pieces of `disk0_buffer` (as the code can: its
callers ask for one block at a time).

`Init` is not an arbitrary state: `Booted` is what `init_main` does, `Forked` the
process it makes, `WithStdin` and `Umain` the two `open` of `umain.c`.

### Semaphores and devices

`WaitQueue` works on the pointers of `list.h`. The keyboard's `wakeup_queue` is one
action a turn (`waking` is where it has got to), and no process moves before it is
done, since it runs in an interrupt. `Sem` has the processes that take the
semaphores in the file system's order. No path of this kernel sleeps while it holds
one (the ram disk answers at once), so in the kernel as it is `down` never waits;
the module lets a process be descheduled between any two calls, which is what
the semaphores are for and a superset of what happens.

`Console` has the devices' side of a character: the receiver's one byte, the ring,
the marked output, the screen and the record of what has been drawn on it.
`Fetchrun` EXTENDS it, as the code shares the line: the host is a thread that reads
and one that types. `Usb` has the driver's control and interrupt transfers over a
bus that damages packets and answers late. `Snake` plays one turn an action.

`RbTree`, `Strings` and `Printfmt` are pure: an action is one call with arguments
from a small set, and the property compares what the loops compute with a
definition that has none.

### Processor

`Cpu` has one operator per `always` block, from the registers before the edge to
those after it, and two actions, `PosEdge` and `NegEdge`. `Isa` is the machine a
program sees, one instruction a step. `Machine` in `Cpu` is the refinement mapping:
it takes the oldest instruction that has not had its effect from the pipeline, and
the state it will start from; `ImplementsIsa` says that every edge executes one
instruction, takes one exception or interrupt, or changes nothing a program sees. An interrupt
is decided when an instruction is fetched, and IE and EXL change when an older one reaches
the memory stage: `window` is how many instructions may still get one that is on its
way after interrupts are disabled. `Isa` has two specifications. In `Spec` an
exception in a delay slot goes back to the branch, as `armcpu/note` asks; `LosingSpec`
also has `LoseBranch`, what the pipeline does when the exception comes from the fetch of the slot.
Both modules use `Arch` for translation and CP0.

## Runs

With two workers, each takes between a second and four minutes.

| run | instance | question | states |
|---|---|---|---|
| `family` | 3 user processes, everybody can be killed, initproc too, reads of 1 character, a ring of 1 | Do the run queue, the tree, the wait conditions and the lists agree at every step, and do states change as `Lifecycle` allows? | 1.70 M, with symmetry |
| `sleepers` | 2 user processes, sleeps of 1 or 2 ticks, reads, kill; fairness | Does the delta list keep exact time, does no assertion fail, does everybody queued run, does every sleep end, does a killed sleeper exit, does initproc go on reaping, and does the system end? | 36 k |
| `structures` | one job a behaviour: 7 pages, a cache with slabs of one page and one of two pages whose control parts are objects of the first, 4 held; initproc and 4 slots for user processes | Is every page and object accounted for, and is NULL returned only when there is no room? Do the pointers of the family stand for the tree, at every step of the loop in `do_exit`? | 176 k |
| `spaces` | 2 processes, 16 frames, 8 pages each in two tables, a TLB of 2, two programs; every `kmalloc` and read fails in turn; stores through kseg0 | Do fork, exec, fault and exit keep frames, tables and TLB right, also when they fail, and who can write a page of a process that does not run? | 40 k, with symmetry |
| `files` | 2 processes, 4 descriptors, 21 blocks of which 3 are free, 2 direct blocks of 3 words, 5 calls that change something | Are the counts and the free map exact, and do the calls implement files of words? | 70 k |
| `cpu` | programs of 3 instructions out of 16, 4 words of RAM, 2 devices, one TLB entry, one interrupt | Does the pipeline do what the instructions say, but for a branch lost in its delay slot, and does every stall end? | 764 k |
| `devices` | one job a behaviour: 6 pids and 5 processes; 3 processes and 2 semaphores; 8 blocks and 2 operations; a ring of 3 and a screen of 2 by 2; a transfer with a key that the checksum may not see; 3 reports and 2 faults; a board of 4 by 2; a tree of 8 nodes; strings, formats and lines | Do the leaves of the system keep their promises: pids unique, units conserved, blocks and characters neither lost nor doubled, pictures as they should be, and `get_pid` and `down` that return? | 446 k |
| `killed` | 2 user processes, reads, kill; fairness | Does every killed process exit, as `proc.c` says? It does not. | violated |
| `asserts` | as `files` | Does the assertion on the block index in `sfs_inode.c` hold? It does not. | violated |
| `precise` | as `cpu`, with MFC0 in the programs | Are exceptions precise, as `accum_syscall.s` tests? They are not right behind MFC0. | violated |
| `slot` | as `cpu` | Does an interrupted delay slot keep its branch, as `armcpu/note` asks? It does not. | violated |
| `kseg0` | as `spaces` | Does only the kernel reach kseg0 and kseg1, as the map in `armcpu/note` says? It does not. | violated |

### Bounds

**Processes.** `MaxSleep` is the longest sleep, `MaxRead` the most characters a read
or a write to descriptor 0 has; `KillTargets` limits whom processes kill. Three
user processes are a parent, a child and a grandchild, or two siblings and
somebody who kills: the tree operations, orphans handed over with their zombies,
and three entries in a list, enough to insert and delete at its head, middle and
end. Expiries 1 and 2 give equal and different neighbours. A slice of 1 makes
every tick a preemption; with a ring of 1 the second character finds it full,
and since the ring is a count, more slots add nothing but more characters. With
two processes for the temporal properties there is still one to wait for and one
to interfere, and an orphan when the first has exited. `devices` takes the smallest
`MAX_PID` that the static assertion allows, so with all but two pids taken a scan
starts over as often as it ever must; `structures` has lists of up to four children, so
a child with a neighbour on both sides, and orphans behind and in front of others.

**Memory.** Seven pages is not a power of two, so the zone begins with a block of
four, one of two and one of one, and blocks of order 2 can merge only in places;
four held objects fill slabs of both caches. In `spaces`, `NFRAME` = 16 is enough
for two address spaces with a page of their own to fault in; every step that takes a
`kmalloc`, a read or a frame fails in turn by `MAX_STEPS` and by what is left. `TOUCHES` is one page
of each kind (code, read and written; data; the stack page that is not there yet;
one in no area), and `STRAYS` the kernel and the last frame. Two programs are one that loads and one whose
segments overlap; `MAX_STEPS` = 6 is the number of the last `kmalloc` of a call. A
TLB of two entries makes every third page evict.

**Files.** `MAX_CALLS` bounds the calls that change something; reading, failing and
repeating are not counted. Five calls open a file twice, move one of its positions,
write into the indirect block, and truncate. Three free blocks are one less than
the largest file needs. `KFAILS` = {0, 1} fails the first `kmalloc` of a
call; that a later one of the same call fails is not tried.

**Processor.** With three instructions the first is in the memory stage while the
third is fetched: the longest distance over which a result is forwarded, a branch
with its delay slot and what follows it, and an exception with two instructions
to cancel. Addresses 6 and 8 reach a page that must not be written and one that is
missing, which `r4` points to, so that a jump there makes the fetch miss. The device of
`WriteTicks` 5 keeps the controller busy longer than the pipeline. Two constraints end
the comparison with `Isa`, each where the code goes wrong (below): `OwnFaults`, where
a fetch faults while an older store waits, and `AfterProduct`, where MTHI comes
before the product is there.

**Devices.** `MaxOps` bounds the operations on the disk, `Limits` what is printed,
typed and fetched, `MaxReports`, `MaxFaults` and `MaxTimeouts` the USB traffic,
`MaxApples` the apples (5 in the code). The ring of the console is 3 so that it
wraps and fills; eight tree nodes take rb_delete through all of its cases.

Deadlock is checked in the runs of `Process`, `Links` with `Slab`, and `Cpu`.
It is not where a bound stops the system (`files`, `devices`) and where a panic does
(`spaces`). In `Process` a panic ends in `Monitor`, which stutters, as the kernel's
monitor runs for ever.

### Fairness

A handler that has begun ends (weak fairness of `Handler`): nothing blocks in one.
The process in the kernel goes on (strong fairness of `KernelStep`): `init_main` and
`cpu_idle` can be interrupted over and over, so weak fairness would say nothing, but
the clock comes every 1 250 000 cycles (`clock.c`) and a handler is far shorter, so
the code gets its turn between. The clock interrupt is taken (strong fairness of
`ClockInterrupt`), for CP0 latches it until it is. Nothing is assumed of user code,
which may loop, nor of the keyboard.

In `Sem`, `SemFair` is that a process which runs, or which has been woken, goes on
and gives back what it holds: the scheduler is round-robin, and no critical section
of the kernel loops. One process at a time can be in that position, since the nesting
begins with the same semaphore. An interrupt stops it, but only until its handler
has walked the queue (weak fairness of `wakeup_queue`), so its fairness is
strong. Nobody has to take a semaphore in the first place. In `Cpu`
the clock does not stop. `PidFair` is that `do_fork`, which runs with interrupts
off, goes on.

### What the runs show

`NoSpuriousWakeup` and `NoLostWakeup` are the two halves of a correct sleep: whoever
sleeps has a zombie child, an armed timer or a character still ahead, and whoever
gets up has seen it or was killed. `TimersExact` says of the delta list what it is
for: a timer's sum of differences falls by one with each tick, whatever is linked
or unlinked around it. `ImplementsLifecycle` is the refinement: each step of
`Process` is a step of `Lifecycle` or changes neither `state` nor `current`.

`FramesExact`, `PagesExact`, `RefsExact` and `BlocksExact` are of one kind: the sum
of what is free and what somebody can still reach is all there is, on every path
out of every call. `RefsExact` counts the one exception there is (below).
`ImplementsStore` and `ImplementsIsa` are the two refinements that hide a mechanism
from its user altogether.

### Findings

**A killed process can sleep on** (`killed`). `KilledExits` is the path that the comment
in `proc.c` (59-60) draws for SYS_kill: flag, wake-up, `do_exit`. TLC finds a process
that is never caught. `mips_trap` looks at `PF_EXITING` before its own `schedule()`
and not after it. A process killed while it is preempted there goes back to user
code, calls `read`, and sleeps with the flag set; a second kill returns `-E_KILLED`
without waking it. It stays until somebody types, and what holds instead is
`KilledSleeperExits`: a process killed in `do_wait` or `do_sleep` ends.

**A user program can stop the kernel at an assertion** (`asserts`). A descriptor keeps
its position when another open truncates its file; a write there asks
`sfs_bmap_load_nolock` for a block behind the next one, which it asserts not to
happen (`sfs_inode.c:289`).

**Exceptions behind MFC0 are not precise** (`precise`). The memory stage keeps what it
wrote back last, and for MFC0 that is the result of the ALU, the number of the CP0
register, and not the value it has just read. When the next instruction traps, the
register file writes this number over the value. Interrupts come
anywhere: `intr_disable` (`kern/driver/intr.c:22`) reads Status while they are
enabled, and would write the number 12 back to it.

**An interrupt in a delay slot loses the branch** (`slot`). `armcpu/note:79-80` has EPC
of CP0 with the words "take care for exception in delay slot". For an exception that the instruction
itself causes the pipeline does: EPC is the branch, and ERET executes it again. But what the
fetch decides, an interrupt or a TLB miss of the fetch, carries the fetch's own address
(`stage_id.v:337-342`). ERET comes back to the slot, then to what follows it, and a taken
branch has not been taken. The counterexample is a BNE with an interrupt in its slot.

**User code reaches the kernel's memory** (`kseg0`). `armcpu/note:126` gives kseg0 to the
kernel; `mmu.v` maps it and kseg1 straight to memory whatever the mode is (line 115: "TODO:
check user/kernel permission"). A store there changes a page of any process.
`Isolation` is what is left: only such a store, or the running process itself, can.

That each orphan is reaped some day does not hold either: `do_wait` takes the first
zombie on the list, the youngest, and a stream of new orphans can keep an old one
waiting. No text promises more, and `InitKeepsReaping` states what does hold.

## Proofs

`ProcessProofs` proves for every set of processes, every slice, ring and bound:

* `TypeCorrect`: `Spec => []TypeOK`
* `RunQueueIsExact`: `Spec => []RunQueueExact`
* `KinshipHolds`: `Spec => []Kinship`
* `NothingDangles`: `Spec => []NoDanglingProc`

and in its second part, on who sleeps and who wakes:

* `AssertionsHold`: `Spec => []NoAssertionFails`
* `NobodySleepsOn`: `Spec => []NoLostWakeup`
* `WokenForCause`: `Spec => NoSpuriousWakeup`
* `FreedByItsParent`: `Spec => ReapedByParent`
* `KernelImplementsLifecycle`: `Spec => ImplementsLifecycle`
* `TimersKeepTime`: `Spec => TimersExact`

`AssertionsHold` is about the assertions of the scheduler, the timers and `do_wait`, and
those of `init_main` on processes; its two on memory are outside (see Processes).

All of them are proved from `ProcAssumption` (idleproc and initproc are two different
processes), `MaxTimeSliceAssumption` and `StdinAssumption` (a slice, a slot) and
`BoundAssumption` (the bounds are naturals). `Proc` need not be finite.

`PidAllocProofs` proves for every `MAX_PID` greater than `MAX_PROCESS`, the
static assertion of `get_pid` (`PidAssumption`):

* `PidsAreUnique`: `Spec => []UniquePids`
* `CacheIsSafe`: `Spec => []CacheSafe`

`LinksProofs` proves for any finite set of processes (`LinksAssumption`):

* `NeighboursAgree`: `Spec => []PointersAgree`
* `ProcessesCounted`: `Spec => []Counted`
* `WalksAgree`: `Spec => []LinksAgree`
* `LinksImplementTree`: `Spec => ImplementsTree`

`SemProofs` proves `SemCorrect`, `SemSpec => []SemExact`, for any processes and
queues (`ElementsAssumption`: they are different things) and any order of the
semaphores (`OrderAssumption`: each is named once, and the keyboard's queue is none).

`SnakeProofs` proves `SnakeCorrect`, `SnakeSpec => []SnakeExact`, for every board at
least 4 wide, which is what `init_snake` needs for its first four squares
(`SnakeAssumption`).

`SlabProofs` proves for a zone of any number of pages, blocks of any order
(`BuddyAssumption`), and any caches, any number of objects and pages to a slab:

* `PagesCorrect`: `Spec => []PagesExact`
* `SlabsCorrect`: `Spec => []SlabsExact`
* `NullCorrect`: `Spec => NullOnlyWhenNoRun`

`SlabAssumption` takes two things from the configuration: control parts lie in a cache that
keeps its own in the slab, as the sizes of `KmemCache` have it, and requests for pages are
between one page and the largest block. How many blocks and objects are held
(`MAX_HELD`) is left open.

`VmmProofs` proves for any finite set of processes, memory of any size, TLB of any
length, and page tables and kernel stacks of any number of pages:

* `FramesCorrect`: `Spec => []FramesExact`
* `TlbCorrect`: `Spec => []TlbCoherent`
* `IsolationCorrect`: `Spec => Isolation`

`VmmAssumption` is what it takes from the configuration: user space is a whole
number of page tables, the stack area fits the last of them (the code has 256 pages
of stack and 1024 to a table), a table maps an even number of pages, so entry pairs do not
cross tables, and a program's segments are ranges of user pages, since `mm_map`
refuses others. How many segments there are, where, whether they overlap, what
their flags are, which kmalloc or read fails, which pages are touched and where the
stray stores go is left open. `IsolationCorrect` is about stores to user space and the
kernel's own work, under any stray stores through kseg0 and kseg1; that those reach
other processes is the finding above.

`PointersAgree` of `LinksProofs` says of single pointers what makes
a walk along `optr` come out right: the child without a younger sibling is the one `cptr`
points at and the other way round (`FirstChild`), `optr` and `yptr` undo each other
(`Siblings`), nobody in use is without a parent that can reap it (`Lives`,
`Parented`), and every set of processes has a member whose younger sibling is outside
(`Uncircled`), so no list bites its tail. The first two fail for one pointer during
`do_exit`'s loop, which leaves the `yptr` of the next child as it was. The step that
needs `Uncircled` is the end of that loop: an empty `cptr` means no child at all
(`ExitDoneKeeps`), or a child would keep a dead parent.

`LinksAgree` and the refinement speak of the list itself, which a recursive function
computes (`Walk`). `Listed` is the second invariant: for each process there is a list
without duplicates of exactly its children, whose first is `cptr` and whose neighbours are joined
by `optr`. `WalkExists` shows that the function is what its equation says, and
`WalkAlong` that the walk is that list, both by the least step at which they would
fail (`LeastNatural`). So a step has only to be followed on lists: `set_links` puts
one in front (`Grows`), `remove_links` takes one out where it stands (`Shrinks`),
and both leave the others alone (`Kept`).

A wait queue is stated without a walk: `Ring` says of the queue's head and
the waiters, in order of arrival, that `next` leads from each to the next one and
`prev` back. `Lines` of `SemProofs` adds that a process stands
in one line at most and that whoever is in none points at itself, which is what
`wait_queue_add` asserts and `wait_current_del` asks. `SemInv` needs besides:
`Nested`, a process holds the first few semaphores of `Order`, so what it takes
next it does not hold; `InLine` and `Sleepers`, whoever stands in a semaphore's line
sleeps for it and whoever was woken in `__down` has the flags that `down` asserts,
while one on the keyboard's line may be awake, after a kill or a wake-up that did
not delete it; `Units`, a semaphore is at 0 exactly if a process holds it or has been
handed it, and then one process only. So a unit can neither be lost nor doubled
between `__up` and the return from `schedule()`.

`SnakeExact` counts: the squares of the body are as many as the snake is long. The
invariant says so by indices, no two of which name the same square (except the
last, when the game is over because it bit), and `Room` bounds the length by counting
squares: a body of different squares fits on the board, and the ring has one cell more than the
board, so the head that is written ahead of the body never lands on the
tail (`HeadMoves`, `Grows`, `Shrinks`).

The invariant of `PidAllocProofs` adds what a scan knows half way: no process it has passed has the
candidate's pid or one between the candidate and `next_safe`. That survives a step
of the candidate only because the interval shrinks at both ends.

None of the first four of `ProcessProofs` is inductive. Take `NoDanglingProc` and the step in which
`do_wait` frees a child: that the child is not on the timer list has to come from
the child's past, not from the step. `IInv` says it in the present: `Labels` ties
what a process has left on the lists to where it is in its code. A process on the
timer list is at `sleep_sched` or `slept`, one on the stdin queue at `read_sched`
or `read_woken`, a zombie at `reparent` or `zombie`, a free slot at `free`, and
`add_timer`'s loop belongs to the process at the CPU. `Family` adds to `Kinship`
that only live processes have children and that idleproc is its own (NULL) parent.
`Invariance` is `Spec => []IInv`, by `InitIInv` and `NextIInv`.

The six of the second part need `WInv`, which adds to `IInv`:

* `Sleeping`: a wait state says that the process sleeps, and at which label; the
  process at the CPU is runnable until it blocks, and only it is in do_exit's loop.
  So nobody wakes a zombie, and `do_wait` finds no process at `reparent`.
* `Ticks`, `IrqShape`: the head of the timer list has ticks left unless
  `run_timer_list` is at it, and so has a timer that `add_timer` may still put in
  front; only the handler in progress is past its first step. `del_timer` keeps this
  because the entry behind the removed one gets its ticks (`DelTimerHead`), and
  without it the next clock interrupt fails `run_timer_list`'s assertion.
* `ChildAlarm`, `TimerAlarm`, `KbdAlarm` (the conjuncts of `NoLostWakeup`) and
  `RingWoken`: the loop that wakes the readers has a character for them. A zombie has
  one parent, so `do_exit` need not look for anybody else who waits (`ExitKeeps`),
  and only initproc gets children it has not forked (`ReparentKeeps`).
* `Rooted`: every set of user processes has a member whose parent is outside. It
  says without recursion that lines of parents end at initproc, and it is what the
  end of `init_main` rests on: when initproc has no child left, the set of all user
  processes is empty (`NobodyLeft`).

Most steps wake at most, or move a process that is awake; `SteadyKeeps`,
`WakingKeeps` and `BlockingKeeps` do those once. The action properties and the
refinement then follow from what each kind of step does to the states
(`StepKinds` and the lemmas behind it), with `Lifecycle`'s variables mapped to those
of the same names.

`TimersExact` is about sums: a timer's ticks left are the `expires` of all
entries up to it (`SumTo`). `SumSteps` shows that this recursive function is what its
equation says, and `SumIs` that no other function is, again by the least index at which
it would fail. Then one lemma per change of the list says what becomes of every other sum: `del_timer` hands
the removed entry's ticks to the next one (`SumWithout`), `add_timer` takes from the
next entry what it has added in front of it (`SumWithBefore`, `SumWithAfter`), and
one tick off the head is one tick off every sum (`SumTicks`). `TimerKinds` sorts the
steps: those that leave the list alone (`Untimed`) and six that do not, with one
lemma each. That a timer leaves early only by a kill needs `Alarmed`, which `AlarmedKeeps`
proves invariant: who is on the list sleeps for its timer, or has been killed and
has yet to run `del_timer` itself.

`SlabInv` of `SlabProofs` has a part for each layer. `MemOK` is about the buddy
allocator alone: its lists are, as sets, the pages marked with their order
(`ListsExact`), and free blocks are aligned and in the zone (`Placed`), disjoint
(`Apart`) and not free together with their buddy (`Merged`). The rest
is what each function does to the set of free pages. `Taken` is the state between taking a block
and putting it back: no page of it is free, and `MemOK` holds of the others. A turn
of the merge loop takes the buddy off its list and goes on with the two as one block
of the next order (`MergeBlock`); when it ends, the buddy is not free in one piece, so
`push` keeps `Merged` (`FreeSub`). `Freeing` is what the two loops of `buddy_free_pages`
keep: the pages before the cursor are free and the cursor is aligned for the order the loop is at;
`Filling` is the same for `buddy_init_memmap`, where no block finds its buddy free because
the loop leaves less than a block of the next order. `FreeRun` is the reason for
`NullOnlyWhenNoRun`: where no buddies are free together, an aligned run of free pages
lies in one free block, so a list of that order or a higher one is not empty.

The slabs' part, `KmemOK`, has the pages held outside as a parameter, so `kmalloc` with a
control part elsewhere is two uses of one lemma, the inner with the outer slab's pages
as held (`AllocOff`), and giving them back when the control part is not to be had
is the reverse. `CtlOK` says that objects in use are those handed out and
the control parts, each once, and, what makes it inductive, that a control part is of the cache
`slab_cachep` names: so freeing it never frees a slab whose control part is elsewhere, and
`kmem_cache_free`, which frees one object and then the control part, ends there (`KmemFree`).

`VmmInv` of `VmmProofs` has three parts. `Exact` says whose every frame is: the frames
are those that are free, with count 0, and those the processes hold (kernel stack, page directory,
page tables, pages), no frame twice; a mapped frame has count 1; and the kernel
objects are the sum of what the processes need. `Coherent` says that each TLB entry is
a pair of the current page table. The third is that the current process is live.
The functions of `pmm.c` and `vmm.c` work on one address space, which may be half built, so each
is proved once about `Sound(s, others)`: every frame is free, or in the address space
worked on, or one of the `others`, which the function leaves alone (`Kept`, `Left`).
The loops over pages, areas and segments go by `Turns` and `LoopExists`, from the
least turn at which the claim would fail. `Replace` then puts the one process that has
changed back among the rest.

Three things make it inductive. An area that is not the stack has all its pages
(`Filled`): where a page table is absent `copy_range` goes on a whole PTSIZE ahead of
an address in the middle of the table, and only because a program's area never lacks
a table are there no pages that it steps over (`Skippable`). A page lies in an area (`Placed`),
and areas do not overlap (`Separate`), so the two loops of `exit_mmap`
find every page and every table, and `dup_mmap` copies no page twice. And `do_fork`'s three
cleanup labels are `fork_cleanup` of what `Forking` says has been taken so far.
`Isolation` follows from the same lemmas: a step writes only pages in its own
address space and frames that were free, and what `copy_range` has copied stays while the
rest is copied.

The proof of `IInv` has a lemma for the effect of each function of `Sched` on types and run
queue (`WakeupEffect`, `ScheduleEffect`, `DelTimerEffect`), frame lemmas for the
parts of the invariant a step does not touch (`FamilyFrame`, `LabelsFrame`), and
one lemma per action. `SeqLemmas` says what appending, removing and inserting do
to the elements of a sequence and to its having no duplicates.

Only model-checked so far: the properties of `Files`, `Disk`, `Console`, `Usb` and the kernel library, whose operations are
loops over data. The prover takes no induction rule whose parameter is an operator, so
each loop needs its own argument by the least counterexample, as `Walk` has.
`Fetchrun` and `Cpu` use the bitwise operators, which are recursive and out of the prover's reach.
Only model-checkable: the temporal properties, `DownReturns` and `GetPidReturns`
among them, since the proof system does not reason about fairness and ENABLED.

## What the code does differently from what one would think

Seen while the modules were written. The models do what the code does, and the
properties are stated with these exceptions in view; where an instance keeps off a
case it is said so.

File system.
* `vfs_open` keeps the reference of the lookup when O_CREAT and O_EXCL find the file
  (`vfsfile.c:44-45`); `exists` counts these. Creating a missing file is an assertion,
  since no directory has `vop_create`; reading entries of a file is one too, though
  `inode.h:120` speaks of ENOTDIR.
* When a file in its indirect block cannot grow as far as it should, the inode is
  left clean with the blocks it got (`sfs_inode.c:297`, `790`). `BlocksExact` leaves
  the number of blocks on the disk out for that reason. The next call with the same
  length fails the assertion at 780.
* Line 228 uses a variable that nothing has set, for files past the indirect block;
  the shipped image is too small for one.

Kernel.
* `unlock_mm` clears `locked_by` after `up()` (`vmm.h:103-104`). `sys_fetchrun` has no
  return statement (`syscall.c:168-173`). `ide_read_secs` returns 0 for a device that
  is not valid.
* `printfmt`: the flag `-` pads numbers with dashes on the left, though the comment says
  "flag to pad on the right" (`printfmt.c:156`). Errors 7, 11 and 12 have no message,
  though `error.h:4` asks for the list to be kept in step. `Expected` of `Printfmt` says
  what the comments say, and `TextExact` leaves these two out (`Divergent`). The sign is not counted in the width;
  the 0 of a precision `.0` is read as the flag.
* Console: a byte that arrives between two turns of the loop in `cons_intr` leaves a
  character in the ring until the next interrupt; a ring that fills reads as empty.

fetchrun.
* The checksum is an exclusive or, which the order of the bytes does not change. A key typed
  during a transfer is a byte among the file's; if it is the byte that falls off the end,
  as with the file "ab" and the key "b", the board stores "ba" and both sides call it a
  success. `FetchExact` says no more than that for a transfer with a key in it.
* For a file the host does not have, `utils/send_file.py` sends the size 0, and the board
  returns -2 (`fetchrun.c:86`); the older `ucore/send_file.py` returns without a word, and the
  board would wait for ever with interrupts off. After an empty
  file the board returns without sending the checksum, and the host takes the next
  byte of the console for it. A key typed into the size word can make the size one
  that `kmalloc` refuses, which is not looked at.

USB driver.
* `sl811_read_buf` writes one byte more than it is asked for. The status of a SETUP is ignored
  (`sl811.c:262-273`), and an IN token that is not answered makes `in_packet` return -1, which
  `usb_set_address` ignores: the set-up goes on without an address. `KeysExact` asks for
  address and configuration only if neither has happened (`count.skipped`); an error status is tried again for ever; a key that
  is still down is in the next report and written again.

Processor.
* A store, MTC0 or TLBWI that is still in WAIT_MMU when the fetch of a younger instruction misses the
  TLB takes this fault for its own (`stage_mem.v:214-218`; `mmu.v:81-83` has gone back to the
  fetch). It has had its effect, against `mmu.v:35-37`, "if it happens, no actual operation
  would be performed", and is executed twice. The run `cpu` does not look beyond (`OwnFaults`).
* An interrupt, or a fault of the fetch, in the delay slot of a taken branch leaves the slot's
  own address in EPC (`stage_id.v:337-342`, run `slot`).
* Neither the MMU nor the decoder looks at the mode (`is_user_mode` of `stage_mem.v:77` has no
  reader): user code can reach kseg0 (run `kseg0`) and execute MTC0, TLBWI and ERET.
* An exception or interrupt right behind MFC0 writes the number of the CP0 register
  over the value read (`stage_mem.v:204-212`, run `precise`). The run `cpu` has MFC0
  in the handler only, where no exception can follow it.
* MTLO and MTHI behind a multiplication are overwritten by it: the run does not look beyond
  (`AfterProduct`); the kernel reads both registers before it writes them. MTLO, which is
  MTHI on the other half, is not among the programs. A write that clears IE takes effect when it reaches
  the memory stage, so that an instruction fetched before may still get an interrupt (`window`).
* The serial port drops a byte that arrives while its interrupt is pending
  (`serial_port.v:46`). This is the fault that `Console` and `Fetchrun` live with.

Shell (not modelled): the pipe of `|` is never made, since the call is commented out;
`cd` changes the name the shell prints in the child only; redirections stay for the
commands behind `;`.

## Not modelled, and why

* **Exit codes and `code_store`, `runs`, `proc_num`, names, messages**: no decision depends
  on them. The exceptions that panic end the system from states the modelled code is
  not meant to reach.
* **`page_init`, `boot_map_segment`, self-tests**: run once at start.
* **`check_slab`, destruction of caches, `mm_unmap` beyond exit, shared memory**: nothing
  calls them, or they do not exist.
* **link, unlink, rename, mkdir, pipe**: answer E_UNIMP.
* **The semaphores inside the file system**: `Files` is without them, since nothing sleeps
  while it holds one; `Sem` has them with the interleavings this leaves out.
* **The kernel's SL811 driver** (`kern/driver/sl811.c`): its initialisation and its handler
  are commented out (`init.c:71`, `trap.c:118`).
* **The shell and the test programs**: users of the calls, in any order, which `Files`,
  `Process` and `Vmm` allow already.
* **decaf**: a compiler on the host, deterministic and sequential; the machine sees no more
  of it than the code it emits.
* **Count and Compare, chip selection beyond RAM and two devices, VGA timing**: in the
  processor's part; the clock interrupt of `Cpu` is the environment's.
* **Bootloader, ROM, board libraries, demonstrations, IP cores, reports, slides,
  archive**: straight-line, generated, or no code.

What the instances leave out of a module is said under Bounds. Further: strings have
cells of three values in a memory of four; numbers are below 2^31; red-black nodes
that are not linked, and cells of the snake's ring outside its queue, are reset, so
that states differ only in what can be read; the transmitter of the console is
always ready in the end; a polling loop of `fetchrun` takes a byte before the next
arrives, which at 115200 baud takes a thousand instructions; USB has one driver process, whose writes to a register
are atomic, and a controller that was just powered on; an acknowledgement the
keyboard has sent is not lost. Branches in programs of `cpu` go forward, and never
to the instruction right behind their delay slot, which is the same as not branching.
