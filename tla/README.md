# Verification of the SaaKM scheduling policies

This directory holds TLA+ models of the scheduling policies of this repository,
the TLC configurations that check them on small instances, and TLAPS proofs of
their main invariants for every instance.

## The system

The repository holds *policies*: kernel modules that SaaKM (the Ipanema
scheduling class, which is kernel code outside the repository) calls when
something happens to a thread or to a core. Several are written in the same
style, from simple to elaborate.

| Part | Source | State | Operations | Hard behaviour |
|---|---|---|---|---|
| SaaKM framework | external | thread state, `task_cpu`, runqueues, current of each CPU | `change_state`, `ipanema_first_task`, two-phase placement, core locks | two handlers of one event are separated by a lock change; threads are moved while queued (OUSTED) |
| Per-CPU FIFO | `modules/fifo_benchs/fifo.c` (= `modules/saakm_central/fifo.c`) | `struct fifo_process`, `struct fifo_core`, `online_cores` | 17 handlers in `fifo_routines` | placement against hotplug and migration, quantum counted at ticks, stale `_current` |
| Older per-CPU FIFO | `modules/fifo/fifo.c` | the same | the same | does not compile (line 108 lost its text) |
| Global FIFO | `modules/global_fifo/global_fifo.c` | one locked runqueue plus one per core, masks of idle and online cores | the same handlers, plus pulling from the global runqueue in `newly_idle` and `balancing_select` | a thread is in no runqueue while it is pulled; the handler runs without its core lock |
| FIFO with one queue | `modules/fifo_one_queue/fifo_one_queue.c` | global runqueue and local ones, idle mask | as global FIFO, with idle CPU selection | lock order, uninitialised CPU in `select_cpu` |
| Central | `modules/saakm_central/saakm_central.c` | `struct central_entity`, `struct central_cpu`, slices, masks of idle CPUs and idle cores | handlers; `select_cpu` always returns CPU 0 | each handler finds the runqueue its own way; idle masks shared without a lock; a NULL followed on CPU 0 |
| Rusty | `modules/rusty_saakm/rusty_saakm.c` | domains, idle masks, tuner thread | handlers, `pick_idle_cpu`, `tuner_step` | masks shared without a lock, retry loops, load arithmetic |
| Module life cycle | the `init`/`exit` functions of the five policies, the tuner thread of Rusty, the timer of Central | policy registration, proc entry, kernel thread, timer | load, unload, failing allocations and registrations | a policy is in use before its init returns; error paths that leave things behind; modules that share a name in `/proc` |
| sched_ext examples | `scx_scheds/fifo`, `modules/rusty_saakm/scx_simple*` | a shared dispatch queue, vtime | `enqueue`, `dispatch`, `running`, `stopping` | weighted virtual time |
| Userland tools | `code/set_sched`, `code/schedstart`, `code/sched-api`, `code/stress_*` | none | parse arguments, one system call | none |
| Test modules | `modules/cpumasks`, `modules/discover_topology`, `modules/test_oh_lock` | none | print topology, time a lock | none |
| Benchmark scripts, papers | `code/benchs`, `code/run-benchmarks`, `docs`, `papiers` | none | plots, text | none |

A policy and SaaKM interact only by calls: SaaKM calls the handlers with the
lock of the thread (`*_prepare`) or of the core (all others) held, the policy
calls `change_state` back.

## Components and their properties

What makes each part correct, in more detail; *modelled* names the property
that says it.

| Part | What must hold | Modelled |
|---|---|---|
| Per-CPU FIFO | a thread is queued once on its own CPU, or running there, or nowhere | `Placement` |
| | what `struct fifo_process` records is what the kernel knows, and no queued or running thread has a freed struct | `MetadataAgrees` |
| | no tick leaves a thread on the CPU with its quantum used; none takes it off earlier (the second is not true, see Findings) | `QuantumNeverOverrun` |
| | nothing is left on a CPU that went down | `NothingOnDeadCpu` |
| | runqueues are first-in first-out, and nobody starves | `ServesInOrder`, `NoStarvation` |
| Global FIFO | the pull, which drops the lock half-way, neither loses nor duplicates a thread, and leaves it on the CPU it is queued on | `NoThreadLost`, `LocalThreadsAreLocal` |
| | what was read under the global lock still holds when it is used | `HeldHeadStaysQueued`, `TerminatedStaysOut` (violated) |
| | as for the per-CPU policy: order, hotplug, starvation | `ServesInOrder`, `NothingOnDeadCpu`, `NoStarvation` |
| FIFO with one queue | a thread is in one place whatever terminates or moves it between the two steps of `newly_idle` | `InOnePlace` |
| | a local runqueue holds at most the thread its core goes to run | `LocalHoldsOne` |
| | a freed struct is not reachable from a runqueue | `FreedIsNotScheduled` |
| | all cores are served from one line, and nobody starves | `ServesSharedLine`, `NoStarvation` |
| Central | a thread is queued once on its own CPU, or running there, or nowhere, although enqueue, tick and schedule name three different CPUs | `Placement` |
| | what `struct central_entity` records is what the kernel knows | `MetadataAgrees` |
| | the current entity of a CPU is never another thread | `EntityIsNoOther` |
| | nothing is left on a CPU that went down; runqueues are first-in first-out; nobody starves | `NothingOnDeadCpu`, `ServesInOrder`, `NoStarvation` |
| | a core is taken for idle only when all its CPUs are | `SmtMeansCoreIdle` (violated) |
| Rusty | a CPU that a wake-up claims as idle runs nothing | `DirectIsIdle` (violated) |
| | without SMT, of the cores that have been idle once since the load, the mask that answers wake-ups holds only idle ones | `OfferedIsIdle` |
| | a search always has a CPU of its domain to end with, though the affinity has changed since the domain was chosen | `SearchHasDomain` |
| | a wake-up goes back to a busy CPU only when its domain has no idle one on offer | `FallsBackWhenBooked` |
| | a core that stays idle can be found again | `IdleIsFound` (violated with SMT) |
| | runqueues are first-in first-out | `ServesInOrder` |
| Module life cycle | a registered policy is allocated, mapped and initialised, from before its init returns until after its exit has begun | `RegisteredIsWhole` |
| | no init fails once threads may have joined | `UsedIsRegistered` |
| | the policy is freed once, whichever of init and exit does it | `ExitFreesOnce` |
| | only a refused registration leaves an entry, a timer or a thread behind | `OnlyRefusedLeak` |
| | a module removes its own proc entry only | `EntryGoesWithItsModule` |
| | unloading ends although it waits for the tuner | `UnloadEnds` |

## The modules

| Module | Role |
|---|---|
| `SaakmCore` | what a policy sees of SaaKM and the kernel (external): thread states, `task_cpu`, FIFO runqueues, `change_state`, two-phase placement, CPU masks |
| `FifoLines` | abstract specification: one FIFO line per server |
| `PerCpuFifo` | `fifo_benchs/fifo.c`, refines `FifoLines` |
| `TieredLines` | abstract specification: one shared FIFO line and one for each server, fed from the shared one through its hand, in two steps |
| `GlobalFifo` | `global_fifo/global_fifo.c`, refines `TieredLines` |
| `SharedLine` | abstract specification: one FIFO line for all the servers, which may reserve its head before they serve it |
| `FifoOneQueue` | `fifo_one_queue/fifo_one_queue.c`, refines `SharedLine` |
| `Rusty` | `rusty_saakm/rusty_saakm.c` without its tuner, refines `FifoLines` |
| `Central` | `saakm_central/saakm_central.c`, refines `FifoLines` |
| `ModuleLifecycle` | the init and exit functions of the five policies, loaded together |
| `MC*` | the threads `t1 t2 t3`, pids, topologies, views and symmetry sets for TLC |
| `SaakmCoreProofs` | lemmas about runqueues and `change_state`, and about the placement of threads in any policy with one runqueue per CPU |
| `PerCpuFifoProofs` | the invariants of `PerCpuFifo`, and that it implements `FifoLines` |
| `CentralProofs` | the same for `Central` |
| `GlobalFifoProofs` | the safety properties of `GlobalFifo`, whichever threads leave while READY, and that it implements `TieredLines` |
| `FifoOneQueueProofs` | the invariants of `FifoOneQueue`, and that it implements `SharedLine` |
| `RustyProofs` | the invariants of `Rusty`, that a thread keeps to its affinity and its search to the domain it was given, how searches end, what SMT does to them, and that it implements `FifoLines` |
| `ModuleLifecycleProofs` | the safety properties of `ModuleLifecycle`, for any number of modules loaded at a time |

The five policy modules extend `SaakmCore` and keep the names of the C fields
and handlers: `fp` is `policy_metadata`, `fcur` is `_current`, `cstate` is
`fc->state`, `NewPrepare` is `fifo_new_prepare`, and so on; `map` in
PROJECT.json gives the lines of each definition. A definition introduced by a
`mutant:` comment is a wrong variant of the one that follows; no specification
uses it, and the properties are known to reject it.

**Atomicity.** SaaKM delivers an event with the lock of the core (or of the
thread, for `*_prepare`) held. In `PerCpuFifo` a handler is therefore one
action, and what interleaves is handlers: the two phases of a placement, ticks
and schedules of several CPUs, migrations, hotplug. The two FIFO policies with a
shared runqueue also have a lock of their own. A handler that holds it from its first access to its
last is one action, enabled while the lock is free. `fifo_newly_idle` is not:
in `GlobalFifo` it is `PullFirst` (lock, read the head), `PullRemove` (remove,
unlock), `PullReadCpu` (read `task_cpu`) and `PullMove` (queue), because that
policy drops the lock before it uses what it read; in `FifoOneQueue` it is one
action when the head belongs to the core, and `NewlyIdleMigrate` then
`NewlyIdleQueue` when it does not, since two local locks are taken in turn.
In `Rusty` the idle masks are shared and no lock protects them: handlers of
cores and runqueues are one action, and `rusty_select_cpu` is one action for
each access to a mask. `sel[t]` says which statement it is at (`stage`) and
where in `pick_idle_cpu` and `test_and_clear_cpu_idle` (`pc`). Operations on one
bit are atomic, `cpumask_andnot` is a read (`Andnot`) and a write (`Store`).
In `Central` a handler is one action, but for `entry_idle` and `exit_idle`: the
two idle masks belong to all the cores and each core holds its own lock only. A
step there (`pc[c]`) is one bit, the test of the siblings, or the read or the
write of a word (`cpumask_or`, `cpumask_andnot`).

`ModuleLifecycle` has another shape: each init and exit function is a program, a
sequence of named steps (`FifoInit`, `CentralExit`...), and an action is one step
of one module: one call that the kernel or another module can see, with the
tests the code makes of its result. `objects` is what a module has left in the
kernel's hands; an object is stale once the module that made it is unmapped.

**The kernel's side, as assumed.** None of this is code of the repository; it
is taken from how the policies use it and from the documents beside them.

- `change_state` does what it is asked: the thread leaves the runqueue or the
  CPU it is on, goes to the tail of the runqueue given, becomes current if the
  new state is RUNNING. READY_TICK is READY plus a request to reschedule.
- A `*_prepare` event returns a CPU; the kernel replaces it by an active one
  when it is not active (`AllowedTargets`), sets `task_cpu`, then delivers
  `*_place`. Any other handler may run in between.
- A thread moved by an affinity change or by hotplug gets `block`, then
  `unblock_place` on its new CPU (OUSTED, `papiers/nca2025/saakm.tex`); the CPU
  argument of `change_state` is the migration target for MIGRATING only.
- A CPU that goes down gets `core_exit`, is emptied, and only then leaves the
  online mask.
- `newly_idle` is called after `schedule` found nothing; `enter_idle` when the
  CPU stays without a thread, `exit_idle` before it runs one again;
  `balancing_select` periodically.
- In `Rusty`, `enter_idle` is delivered whenever a CPU finds nothing to run, as
  `schedule` of the kernel does when it stays idle, and `exit_idle` before the
  CPU runs a thread again. The affinity of a thread may change at any moment
  but during a wake-up (`SetAffinity`; a wake-up holds the lock that
  `sched_setaffinity` takes), the policy is not told, and a thread that waits or
  runs where it no longer may is moved (`Oust`). An affinity always contains a
  CPU that does not go down (the kernel widens it otherwise); the kernel replaces
  a CPU that is not active or not allowed (`Accepted`).
- In `Central`, a CPU enters idle after a `schedule` that found nothing and
  returned, so never CPU 0, on which such a `schedule` stops the kernel
  (`oops`); a thread about to run there gets the CPU out of idle first.
- In `ModuleLifecycle`: when init fails the kernel unmaps the module, `rmmod` is
  refused while a thread is in the policy, threads may join from the moment the
  policy is registered, several policies may be loaded at once
  (`papiers/nca2025/saakm.tex`), `proc_create_single` returns NULL for a name
  that is taken. `saakm_remove_policy` succeeds: four of the five exits ignore its
  result (`fifo.c` 497), and if it could fail they would free a policy that SaaKM
  still has. `RegisteredIsWhole` and `ExitFreesOnce` hold under this assumption.
- A failed `kzalloc` in `new_prepare` changes nothing: no step.
- The tick of a CPU cannot interrupt the part of `newly_idle` in which that CPU
  holds the global lock. The code takes the lock without masking interrupts;
  if SaaKM does not mask them either, the CPU waits for itself for ever. The
  hazard is listed; no property can decide it without the kernel's code.

## The runs

| Run | Instance | What it shows |
|---|---|---|
| `percpu` | 2 threads, 2 CPUs, both may go down; quantum 3, a tick may be one unit late | the safety properties of `PerCpuFifo`, that it refines `FifoLines`, and that no READY thread waits for ever |
| `global_safety` | 3 threads, one of which may leave or be moved while READY, 2 CPUs, both may go down; counters modulo 16 | the safety properties of `GlobalFifo`, and that it refines `TieredLines` |
| `global_live` | 2 threads, 2 CPUs | no READY thread waits for ever, if balancing is periodic |
| `global_terminated` | 2 threads, one may leave the class while READY | finding: a thread that left is made READY by the core that pulls it |
| `oneq_safety` | 3 threads up to symmetry, 2 CPUs, both may go down; quantum 2 | the safety properties of `FifoOneQueue`, and that it refines `SharedLine` |
| `oneq_live` | 2 threads, 2 CPUs | no READY thread waits for ever |
| `rusty_safety` | 2 threads up to symmetry, whose affinity is both CPUs or CPU 0 and changes, 2 CPUs in two domains, with SMT, or without and then one may go down; slice 2 | what the mask of `Rusty` offers to wake-ups, how their searches end, and that it refines `FifoLines` |
| `rusty_busy` | 2 threads, 2 CPUs of one domain; slice 1 | finding: a CPU that has been busy since the load is claimed as idle |
| `rusty_smt` | 1 thread, 2 CPUs of one domain that are siblings when SMT is on | finding: with SMT, a core claimed once is never found idle again |
| `central` | 2 threads, 2 CPUs, either may go down | the safety properties of `Central`, that it refines `FifoLines`, and that no READY thread waits for ever unless the kernel has stopped |
| `central_smt` | 3 CPUs, two of them siblings | finding: a core with a busy CPU stays in the mask of idle cores |
| `lifecycle` | the five modules, two loaded at a time | the properties of `ModuleLifecycle`, with every allocation and registration that may fail |

**Bounds.** Two CPUs give every pair of roles (the CPU that pulls and the one
that owns the thread, the one that goes down and the one that stays).
Where the CPUs share a runqueue and pull from it (`global_safety`,
`oneq_safety`), three threads let one run on each CPU while a third is queued,
placed or pulled, and a line of three distinguishes head, middle and tail. The
other runs have two: one that runs and one that waits, is placed or moved, which
is all that meets in the runqueue of one CPU; the theorems cover any number.
Both CPUs may go down, in turn, any number of times, so that pids modulo the
number of online CPUs name every wrong CPU. For liveness two threads are one that
waits and one that runs before it again and again. `Quantum` is small, but
larger than `MaxTickGap` where it matters, so that a tick may or may not use it
up. `Word` (16) exceeds `Quantum + MaxTickGap`, which is what the wrap needs.
In `GlobalFifo` the constant `Leavers` names the threads that may leave the
class, or be moved to another CPU, while READY, so also while a core carries
them; the others, the *steady* ones (`Steady`), do so only while RUNNING or
BLOCKED. A core that carries a thread that left makes it READY again, which is
the finding of `global_terminated`, and `fifo_terminate` takes such a thread out
of the global runqueue without its lock. The safety properties say what survives
that. Of every thread: it runs on one CPU at most, it is in one runqueue at
most, and when READY it is somewhere (`NoThreadLost`). Of the steady ones, that
no such step of another thread spoils anything (the rest of `NoThreadLost`,
`LocalThreadsAreLocal`, `HeldHeadStaysQueued`). `global_safety` has one thread
that leaves beside two steady ones; `global_live` has none.

In `rusty_safety` two threads are enough for two searches at once, each step of
one between any two of the other and of the idle transitions of both CPUs;
their domains differ so that `task_pick_domain`, whose last domain wins, leaves a
thread that has run in one domain with the CPUs of the other, and both the
searches from inside and from outside the domain take place. The affinity is both
CPUs or CPU 0 alone, and changes between wake-ups, so that a search may look in a
domain chosen for the other affinity. Without SMT, CPU 1, which may be
the CPU found or the one searched from, goes down and comes back at any step of
them; with SMT it stays up, because `OfferedIsIdle` says nothing of SMT, and the
two together are more states than are worth it. The proofs bound neither.
`rusty_busy` and `rusty_smt` are counterexamples, and have what these need;
`rusty_smt`
makes two CPUs siblings: that is where one bit and the mask of siblings differ.

In `central` CPU 0 and another one are the two roles a CPU has, and both may go
down: then the kernel places threads on the other one, which select_cpu never
does. `central_smt` has a third CPU because CPU 0 never enters idle: the two
siblings are the others. In `lifecycle` two modules are loaded at a time: they
meet only through the name in `/proc`, where a pair has one that is first and
one that is second; all five are there because each has its own programs, and
what a module leaves behind stays when others are loaded.

**Deadlock.** `central`, `central_smt` and `lifecycle` turn the deadlock check off because the
system does stop: nothing runs after an oops. Every other run checks it.

**Views.** `global_safety` identifies states that differ only in fields nothing
reads to decide anything (`MCGlobalFifo.SchedulingView`: the recorded state of
threads and cores, `_current`, the masks of cores). They are read only to choose
what to write to these same fields (`fifo_terminate`) or to be delivered the
event that changes them (`enter_idle`), and no property of the run mentions
them except for its type, so each behaviour of one state is, but for these
fields, a behaviour of the other. The view of `rusty_safety`
likewise leaves out the slice of a thread that does not run and the cpumask of
one that left, both set before they are read again, and the history `settled`
with SMT or of a CPU out of the mask, which only `EnterIdle` puts there again,
recording it. The runs with
temporal properties under fairness use no view.

**Fairness.** `FairSpec` assumes of the kernel only that it goes on calling: a
CPU with a running thread gets timer ticks, a CPU without one calls `schedule`
(and `newly_idle`), a placement begun is completed, and what has taken a
spinlock returns it. In `GlobalFifo` and `FifoOneQueue` ticks, schedules and
placements get strong fairness, because they wait for a queued spinlock others
take and release in between; such a lock serves its waiters in order.
`GlobalFifo` also needs `PullFirst` to be fair: a core with a runqueue of its
own never looks at the global one otherwise, and it is the periodic
`balancing_select` that makes it. In `Rusty` the idle transitions are delivered
and a search goes on; that it ends is not assumed. In `Central`, as in the
policies with a shared lock, ticks, schedules and placements wait for the lock
of a core in an idle transition, and get strong fairness. In `ModuleLifecycle`
the process that loads or unloads a module runs, and so does the tuner; no
thread has to leave a policy. Nothing is assumed of the threads: none has to
yield, block or end.

## What is proved

TLAPS checks the theorems for every set of threads, number of CPUs, assignment
of pids, topology, quantum, slice and tick gap; the only assumptions are the
named ASSUMEs of `SaakmCore` and of the policy's module, which TLC evaluates in every run.

- `PerCpuFifoProofs`: `TypeCorrect`, `PlacementHolds`, `MetadataHolds`,
  `QuantumHolds`, `HotplugHolds`. None of these invariants is inductive by
  itself. A tick requeues on `task_cpu`, which is the CPU that ticks only
  because a RUNNING thread is current of its own CPU (`Placement`);
  `MetadataAgrees` needs to know in which runqueue the thread is; the thread
  elected has a fresh counter while no other CPU still counts on it only
  because it is nobody's current; and a CPU going offline is empty because what
  is queued there is READY there. `IInv` is their conjunction, and it is
  inductive: `InitIInv`, then one lemma per action, under which each conjunct
  is a step. What `change_state` does to the first three is one lemma,
  `ChangeStatePlacement`, over what it does to runqueues
  (`SaakmCoreProofs!ChangeStateQueues`).
  `ImplementsFifoLines` is proved from it: each handler is a step of
  `FifoLines` or a stutter, given `IInv`: a thread that becomes READY is
  appended to the line of its CPU and was in no other, `schedule` takes the head.
- `CentralProofs`: `TypeCorrect`, `PlacementHolds`, `MetadataHolds`,
  `EntityHolds`, `HotplugHolds`. The argument is the same and its
  common part is stated once, in `SaakmCoreProofs`: `Placed` (what both
  policies call `Placement`) is kept by any `change_state` that queues a thread
  on its own CPU or runs it on its own free CPU (`ChangeStatePlacement`), and it
  gives what the handlers rely on (`CurrentIsUnique`, `HeadIsReady`). What is
  new is `EntityIsNoOther`, kept because the entity of a CPU is only ever
  cleared, or set with its current.
  `ImplementsFifoLines` is proved over the lemmas of
  `SaakmCoreProofs` that say what a `change_state` does to the lines
  (`AppendToLine`, `RemoveFromLine`, `ServeHead`...) and to the CPUs.
- `GlobalFifoProofs`: `TypeCorrect`, `NoThreadLostHolds`, `LocalHolds`,
  `HeadHolds`, `HotplugHolds`, `TerminatedHolds`, and the refinement
  `ImplementsTieredLines`, for any set `Leavers`. The pull is what makes these hard: a thread in no runqueue that is
  nevertheless READY is *carried* by one core. `IInv` says that a steady thread
  carried is carried by exactly one core, which is the only one that can place
  or move it; that the core at `PullRemove` holds the global lock, so that the
  head it has read is still the head; and that a steady thread which is carried
  between `PullReadCpu` and `PullMove` is moved under the CPU that was read. Of
  a thread that may leave while carried none of this holds, and `IInv` says of
  it only that a READY one is queued or carried by someone, a queued one READY
  and queued once, and one that runs the current of one CPU: what
  `change_state` re-establishes whatever the state it finds (`MovePlaces`).
  The two meet at the head of the global runqueue: taking a thread that leaves
  out of the middle keeps the head that another core holds (`MoveKeepsHead`).
  In the refinement the thread a core carries is in its hand (`Hand`): the
  removal is `Take` when the head that was read is steady, since `IInv` says
  that it is still the head, and `TakeGone` when it may have left; `PullMove` is
  `Put` or `PutGone` likewise. A thread is not asked to be where the pull
  believes it is, only not to spoil the place of another. `TerminatedHolds` is the part of
  `TerminatedStaysOut`, which is violated, that is true: the steady threads.
- `FifoOneQueueProofs`: `TypeCorrect`, `InOnePlaceHolds`, `LocalHolds`,
  `FreedHolds`, and the refinement `ImplementsSharedLine`. `IInv` relates four
  views of a thread (its state, its runqueue, the core it is migrating to, the
  global lock): a MIGRATING thread is that of one core, its own, which holds the
  lock; a core that runs or pulls a thread has an empty runqueue; the others
  have one thread at most. What `SharedLine` calls reserved is then a function
  of the state (`Slot`): the thread migrating to the core, or the one in its
  runqueue. A pull is `Reserve` at its first step and nothing at its second.
- `RustyProofs`: `TypeCorrect`, `OfferedHolds`, `SearchDomainHolds`,
  `FallsBackHolds`, and the
  refinement `ImplementsFifoLines`. A search does one of two things to what it
  shares (`SearchGoesOn`, `SearchEnds`), and only takes bits out of the mask that
  answers; a core in that mask which has been idle once stays idle because
  `schedule` runs a thread on the core whose state it has looked at, which is
  where `Placed` comes in again. A core that has not been idle since the load
  (`settled`) may be in the mask and busy, which is the finding of `rusty_busy`;
  `ClaimedHolds` is what is left of the claim that run refutes. A core that went
  down idle may also be in the mask, since `core_exit` comes before its last
  `enter_idle`: `OfferedHolds` does not say that an offered core is online, and
  it is not so. A search ends without a claim only in the step that has just
  found the domain's part of the mask empty (`SearchStep`). The proof needs one
  assumption the other policies do not: NULL is not a search
  (`SelectionAssumption`). `ClaimedForGoodHolds` is the reason of the finding of
  `rusty_smt`, for every topology: with SMT no step fills the mask that answers.
  The affinity of a thread may change between any two wake-ups. What the policy
  does by itself is `SearchDomainHolds`: the round of
  `task_pick_domain` comes by every domain whichever it starts after
  (`RoundRobinReaches`), so it finds one with an allowed CPU, the last one it
  finds exists (`MaxIsIn`), and nothing empties `rp->cpumask` later
  (`HasDomain`). That the CPUs in it are allowed is not invariant, and the CPU
  claimed may be one the thread may not run on. What the kernel makes of it is
  `AffinityHolds`: a thread waits or runs only on an online CPU, and is queued
  where its affinity of that moment allows. `StaysOnline` takes the CPU to the
  place: the kernel refuses one that has gone down or is not allowed
  (`Accepted`), no affinity changes during a placement, and a CPU leaves the
  online mask only when nothing is on its way to it (`Drained`).
- `ModuleLifecycleProofs`: `TypeCorrect`, `RegisteredHolds`, `UsedHolds`,
  `FreesOnceHolds`, and the action properties `OnlyRefusedLeakHolds`
  and `EntryHolds`, for any subset of the five modules and any `MaxLoaded`. The
  ten programs enter the proof through three lemmas only (`InitPrograms`,
  `InitPrecedence`, `ExitPrograms`), which say at which step each initialises,
  allocates, registers, makes, unregisters, frees and drops. `IInv` says what a
  module holds as a function of that position and of `res`: before it registers,
  no policy; after, one, allocated, unless it was refused; and an entry, a timer
  or a thread only between the step that makes it and the one that drops it
  (`Held`), or stale. What other modules do is dealt with once, by `StepIInv`: a step
  leaves to the others what is theirs (`OthersKeep`).

Each of the five policies also has `ServedInTurn`: what its refinement means to
a thread that waits. Nobody gets before it in its runqueue (`InTurn`, over
`Before`), and a CPU that gets a thread gets the first of a runqueue. It is the
safety half of `NoStarvation`, and what makes it so: the place of a thread in a
line only gets better. It follows from the step refinement and `IInv` (a thread
that runs, or is in a hand, is in no runqueue) by one lemma on sequences,
`TurnKept`, and one on the three policies with a runqueue per CPU, `LinesInTurn`.
In `GlobalFifo` it is said of the steady threads; in `Rusty` nothing bounds how
often a search is tried again, but the runqueues are as in the others.

Model-checked only: liveness, since TLAPS has no rules for fairness here
(`NoStarvation` of four policies, `UnloadEnds`), and the four violations.

## Findings

Four claims of the comments do not hold of the code and have a run that shows
it (PROJECT.json quotes them). In `global_fifo.c`, `newly_idle` reschedules a
thread that left. In `rusty_saakm.c` with SMT, `enter_idle` sets a bit of
`idle_masks.smt` only, and `test_and_clear_cpu_idle` answers from
`idle_masks.cpu`, which nothing but the initialization fills. Without SMT, the
same initialization puts every CPU in `idle_masks.cpu`, busy or not, and a CPU
that has been busy since then gets no `exit_idle`: the first wake-up that meets
it claims it as idle. In
`saakm_central.c`, a CPU that tests that its siblings are idle and then puts
the core in the mask of idle cores may do so after a sibling has left idle and
cleared it.

Others were met on the way and have no run:

- `fifo_benchs/fifo.c`: the tick (226) adds the whole time since the thread was
  scheduled at every tick, so the counter grows with the square of the time and
  the quantum of line 35 is never run in full (the model has this arithmetic);
  `_current` outlives the struct it points to, since only a tick and a block
  clear it.
- `fifo_one_queue.c`: `select_cpu` returns a variable it has not initialised
  (245) when no core is idle, where line 238 says the previous CPU. The model
  returns any CPU.
- `fifo.c` lines 10-13 say how the CPU is chosen; `select_cpu` (128-134) uses
  the pid only, and counts the online CPUs without looking which they are.
- `fifo_block` clears `_current` even when the thread was only queued.
- `global_fifo.c` line 37 says the lock is taken whenever the runqueue changes;
  `fifo_terminate` does not take it. `_current` is never cleared, the struct is
  never freed, and `newly_idle` takes the core lock in one branch only.
- `global_fifo.c` line 228 swaps the operands of the subtraction: the unsigned
  counter wraps at the first tick, and the thread is requeued (the model has the
  wrap). Line 20 says 30 ms, line 21 defines 20.
- `fifo_one_queue.c`: `QUANTUM_NS` expands without parentheses, so that the
  modulo of `fifo_tick` is of 20; a core that `select_cpu` chose stays out of
  `idle_cores` if another core takes the thread.
- `rusty_saakm.c`: the greedy searches (510-576) look at a node mask that is
  allocated and never filled, and find nothing, against the comment that
  describes them. The note of 542-547 says one try of `PICK_IDLE_CORE` is
  enough; `pick_idle_cpu` retries, and ignores the flag without SMT. The "whole
  physical core" of 474 is one bit. `core_exit` clears the bit `c->idle`, a
  time, of `all_cpumask`. `sched_terminate` does not free the cpumask.
- `rusty_saakm.c`, `core_exit` (279-283) takes a core out of the masks before the
  core is empty, so that the `enter_idle` that follows puts it back: an idle core
  that goes down stays offered to wake-ups, and only the kernel refuses it. The
  bit is lost then, and `core_entry` clears it too.
- `rusty_saakm.c` computes `rp->cpumask` once, at the creation (664). After
  `sched_setaffinity` searches look at the CPUs of the old affinity: they claim
  CPUs that only the kernel refuses, whose idle bit is lost until they next go
  idle, and do not see the new ones.
- The tuner of `rusty_saakm.c`: `dom_util` and the masks are never reset, the
  statistics of one CPU are read for another (160), and an unsigned difference
  is tested for being negative; the load is an integer quotient, 1 at most before
  `max` makes it 1 at least.

- `saakm_central.c`: `schedule` on CPU 0 with an empty runqueue goes on with
  NULL (311-316; `oops`). The tick adds `now - current_slice_ns` to
  `current_slice_ns`, which makes it the time of day: every tick ends the slice.
  `ms_to_ktime(1000)` is "1 ms". The header says the central CPU dispatches to
  the others; nothing does. `enqueue` clears the current entity of CPU 0 whatever
  CPU ticked. `core_exit` records the core as active, and clears its own bit of
  the SMT mask only.
- Life cycle: a refused registration is reported only after the proc entry, the
  timer or the tuner has been started, and they outlive the module. The
  `idle_cores` of `global_fifo.c` and `fifo_one_queue.c` are never freed; the
  allocations of `rusty_saakm.c` are not tested, nor the `kthread_run` whose
  ERR_PTR goes to `kthread_stop`; `tuner_step` leaks a cpumask every 100 ms.
  The second FIFO module to be loaded has no debug file; `global_fifo.c` and
  `fifo_one_queue.c` register under the same policy name.

- The sched_ext programs: `scx_scheds/fifo/scx_simple.bpf.c` has an empty
  `dispatch` (139), and the copy in `modules/rusty_saakm` has none, so that in
  the default mode, which line 5 calls a global weighted vtime scheduler, nothing
  takes threads out of `SHARED_DSQ`; the first never creates it either.
  `select_cpu` is the pid modulo 8, or 20, whatever the number of CPUs.

## The plan

The components are modelled in the order of the modules above, and every
property of a passing run that is not a liveness property has its theorem. What
a next step would add, in this order:

1. *Bounds on waiting*: with `ServedInTurn`, the number of ticks a thread waits
   is bounded by its place in the line times the quantum; a counter of ticks
   would make it an invariant of `PerCpuFifo`.
2. *The tuner of Rusty*, if the node masks it serves are ever filled.


## What is not modelled

Statistics counters, debug files and messages; the C-level layout of structs;
the older `modules/fifo/fifo.c`, which does not compile and whose successor is
modelled; the sched_ext programs, whose queue lives in the kernel; the userland
tools, test modules, scripts and papers, which keep no state.
`modules/saakm_central/fifo.c` is the file of `fifo_benchs`, byte for byte. The
two sched_ext programs are a sample of the kernel with its `select_cpu` and
`dispatch` changed; what they do to a queue is one call of the kernel. Of Rusty, the arithmetic of
the tuner and the greedy masks, which decide nothing in the code as it is: the
searches that read those masks find nothing.
