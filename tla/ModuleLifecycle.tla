--------------------------- MODULE ModuleLifecycle -------------------------
(***************************************************************************)
(* Loading and unloading the policy modules, together, in any order, with  *)
(* allocations and registrations that fail: the module_init and            *)
(* module_exit functions, the tuner thread of rusty_saakm.c and the timer  *)
(* of saakm_central.c.                                                     *)
(*                                                                         *)
(* Each function is a program, a sequence of steps; a step is one call     *)
(* that other modules or the kernel can see, with the tests the code makes *)
(* of its result.  The kernel's part is external: a module whose           *)
(* module_init fails is unmapped, one with a thread in its policy is not   *)
(* unloaded, and the policies may be loaded at the same time.              *)
(***************************************************************************)
EXTENDS Naturals, Sequences, FiniteSets

CONSTANTS
  Modules,   \* the modules loaded, among PolicyModules
  MaxLoaded, \* bound: the modules that are loaded at a time
  Null

PolicyModules ==
  {"fifo_benchs", "global_fifo", "fifo_one_queue", "saakm_central", "rusty_saakm"}

ASSUME ModulesAssumption == Modules \subseteq PolicyModules /\ MaxLoaded \in Nat

ASSUME NoModuleAssumption == Null \notin PolicyModules

VARIABLES
  phase,     \* [Modules -> Phase]
  step,      \* [Modules -> Nat], the step its init or exit function is at
  res,       \* [Modules -> {"ok", "error"}], what init is going to return
  ready,     \* the modules whose runqueues are initialised
  policy,    \* [Modules -> PolicyState], what their policy pointer designates
  entry,     \* the modules whose proc_entry is not NULL
  thread,    \* rusty's tuner_thread: "none", "task" or "error" (an ERR_PTR)
  tunerAt,   \* where the tuner of a loaded rusty is in its loop, or "none"
  objects,   \* what the modules have left in the kernel's hands
  users,     \* the modules whose policy has threads
  oops       \* the module that has used a bad pointer, or Null

own == <<res, ready, policy, entry, thread, tunerAt>>
vars == <<phase, step, own, objects, users, oops>>

Phase == {"unloaded", "init", "live", "exit"}
PolicyState == {"none", "allocated", "freed"}

(* A registered policy, an entry of /proc, an armed timer, a kernel thread.*)
(* It is stale once the module that made it, whose code and data it uses,  *)
(* is unmapped.                                                            *)
Kinds == [fifo_benchs |-> {"policy", "proc"}, global_fifo |-> {"policy", "proc"},
          fifo_one_queue |-> {"policy", "proc"}, saakm_central |-> {"policy", "timer"},
          rusty_saakm |-> {"policy", "tuner"}]

Object(kind, m) == [kind |-> kind, of |-> m, stale |-> FALSE]

-----------------------------------------------------------------------------
(* The programs.                                                           *)

FifoInit == <<"runqueues", "policy", "register", "proc">>
GlobalInit == <<"idle_cores", "runqueues", "policy", "register", "proc">>
OneQueueInit == <<"idle_cores", "runqueues", "policy", "register", "proc">>
\* mutant: registers before the runqueues are initialised
RegistersFirst == <<"policy", "register", "runqueues", "timer">>
\* mutant: creates the entry of fifo.c
CreatesEntryToo == <<"runqueues", "policy", "register", "timer", "proc">>
CentralInit == <<"runqueues", "policy", "register", "timer">>
RustyInit == <<"masks", "runqueues", "topology", "tuner", "policy", "register">>

\* mutant: the entry is not removed
ForgetsEntry == <<"remove_policy", "kfree">>
FifoExit == <<"remove_policy", "kfree", "proc_remove">>
GlobalExit == <<"remove_policy", "kfree", "proc_remove">>
OneQueueExit == <<"remove_policy", "kfree", "proc_remove">>
CentralExit == <<"hrtimer_cancel", "remove_policy", "kfree">>
RustyExit == <<"kthread_stop", "remove_policy", "kfree">>

InitOf == [fifo_benchs |-> FifoInit, global_fifo |-> GlobalInit,
           fifo_one_queue |-> OneQueueInit, saakm_central |-> CentralInit,
           rusty_saakm |-> RustyInit]
ExitOf == [fifo_benchs |-> FifoExit, global_fifo |-> GlobalExit,
           fifo_one_queue |-> OneQueueExit, saakm_central |-> CentralExit,
           rusty_saakm |-> RustyExit]

Program(m) == IF phase[m] = "init" THEN InitOf[m] ELSE ExitOf[m]

At(m, what) ==
  /\ oops = Null
  /\ phase[m] \in {"init", "exit"}
  /\ step[m] <= Len(Program(m))
  /\ Program(m)[step[m]] = what

Done(m) == oops = Null /\ step[m] > Len(Program(m))

Advance(m) == step' = [step EXCEPT ![m] = @ + 1] /\ UNCHANGED <<phase, users>>

Oops(m) ==
  /\ oops' = m
  /\ UNCHANGED <<phase, step, own, objects, users>>

(* The memory of module m, its code and its variables, is given back.      *)
Unmapped(m) ==
  /\ phase' = [phase EXCEPT ![m] = "unloaded"]
  /\ step' = [step EXCEPT ![m] = 1]
  /\ res' = [res EXCEPT ![m] = "ok"]
  /\ ready' = ready \ {m}
  /\ policy' = [policy EXCEPT ![m] = "none"]
  /\ entry' = entry \ {m}
  /\ IF m = "rusty_saakm" THEN thread' = "none" /\ tunerAt' = "none"
                          ELSE UNCHANGED <<thread, tunerAt>>
  /\ objects' = {IF o.of = m THEN [o EXCEPT !.stale = TRUE] ELSE o : o \in objects}
  /\ UNCHANGED <<users, oops>>

Init ==
  /\ phase = [m \in Modules |-> "unloaded"]
  /\ step = [m \in Modules |-> 1]
  /\ res = [m \in Modules |-> "ok"]
  /\ ready = {}
  /\ policy = [m \in Modules |-> "none"]
  /\ entry = {}
  /\ thread = "none" /\ tunerAt = "none"
  /\ objects = {}
  /\ users = {}
  /\ oops = Null

-----------------------------------------------------------------------------
(* The kernel and the user.                                                *)

Begin(m, from, to) ==
  /\ oops = Null
  /\ phase[m] = from
  /\ phase' = [phase EXCEPT ![m] = to]
  /\ step' = [step EXCEPT ![m] = 1]
  /\ UNCHANGED <<own, objects, users, oops>>

Load(m) ==
  /\ Cardinality({n \in Modules : phase[n] # "unloaded"}) < MaxLoaded
  /\ Begin(m, "unloaded", "init")

Unload(m) == m \notin users /\ Begin(m, "live", "exit")

(* init returns res.                                                       *)
InitReturns(m) ==
  /\ phase[m] = "init" /\ Done(m)
  /\ IF res[m] = "ok"
     THEN /\ phase' = [phase EXCEPT ![m] = "live"]
          /\ UNCHANGED <<step, own, objects, users, oops>>
     ELSE Unmapped(m)

ExitReturns(m) == phase[m] = "exit" /\ Done(m) /\ Unmapped(m)

(* A thread joins a registered policy, from the moment it is registered,   *)
(* or leaves it.                                                           *)
Attach(m) ==
  /\ oops = Null
  /\ Object("policy", m) \in objects
  /\ phase[m] \in {"init", "live"}
  /\ users' = users \cup {m}
  /\ UNCHANGED <<phase, step, own, objects, oops>>

Detach(m) ==
  /\ oops = Null
  /\ m \in users
  /\ users' = users \ {m}
  /\ UNCHANGED <<phase, step, own, objects, oops>>

(* The entry is read, the timer expires or the thread goes on, in code     *)
(* that is not there any more.                                             *)
UseStale(o) == oops = Null /\ o.stale /\ Oops(o.of)

-----------------------------------------------------------------------------
(* Steps of module_init.                                                   *)

InitRunqueues(m) ==
  /\ At(m, "runqueues")
  /\ Advance(m)
  /\ ready' = ready \cup {m}
  /\ UNCHANGED <<res, policy, entry, thread, tunerAt, objects, oops>>

(* kzalloc(), whose result is tested and may be NULL: return -ENOMEM.      *)
CheckedFails(m) == Unmapped(m)

AllocateIdleCores(m) ==
  /\ At(m, "idle_cores")
  /\ \/ Advance(m) /\ UNCHANGED <<own, objects, oops>>
     \/ CheckedFails(m)

AllocatePolicy(m) ==
  /\ At(m, "policy")
  /\ \/ /\ Advance(m)
        /\ policy' = [policy EXCEPT ![m] = "allocated"]
        /\ UNCHANGED <<res, ready, entry, thread, tunerAt, objects, oops>>
     \/ m # "rusty_saakm" /\ CheckedFails(m)
     \/ m = "rusty_saakm" /\ Oops(m)

(* If add_policy fails the policy is freed, and init goes on.              *)
\* mutant: init returns 0 all the same
RefusedUnnoticed(m) ==
  /\ policy' = [policy EXCEPT ![m] = "freed"]
  /\ UNCHANGED res
Refused(m) ==
  /\ policy' = [policy EXCEPT ![m] = "freed"]
  /\ res' = [res EXCEPT ![m] = "error"]

Register(m) ==
  /\ At(m, "register")
  /\ Advance(m)
  /\ \/ objects' = objects \cup {Object("policy", m)} /\ UNCHANGED <<res, policy>>
     \/ Refused(m) /\ UNCHANGED objects
  /\ UNCHANGED <<ready, entry, thread, tunerAt, oops>>

(* proc_create_single("fifo_debug"): NULL when there is one of that name.  *)
\* mutant: init fails without its entry
EntryRequired(m) == Unmapped(m)
NoEntry(m) ==
  /\ Advance(m)
  /\ UNCHANGED <<own, objects, oops>>

CreateEntry(m) ==
  /\ At(m, "proc")
  /\ IF \E o \in objects : o.kind = "proc"
     THEN NoEntry(m)
     ELSE /\ Advance(m)
          /\ entry' = entry \cup {m}
          /\ objects' = objects \cup {Object("proc", m)}
          /\ UNCHANGED <<res, ready, policy, thread, tunerAt, oops>>

StartTimer(m) ==
  /\ At(m, "timer")
  /\ Advance(m)
  /\ objects' = objects \cup {Object("timer", m)}
  /\ UNCHANGED <<own, oops>>

(* Four kzalloc() whose results are used without a test.                   *)
AllocateMasks(m) ==
  /\ At(m, "masks")
  /\ \/ Advance(m) /\ UNCHANGED <<own, objects, oops>>
     \/ Oops(m)

(* A CPU without topology: return -ENOENT.  The domains are allocated      *)
(* without a test.                                                         *)
ReadTopology(m) ==
  /\ At(m, "topology")
  /\ \/ Advance(m) /\ UNCHANGED <<own, objects, oops>>
     \/ Unmapped(m)
     \/ Oops(m)

StartTuner(m) ==
  /\ At(m, "tuner")
  /\ Advance(m)
  /\ \/ /\ thread' = "task" /\ tunerAt' = "check"
        /\ objects' = objects \cup {Object("tuner", m)}
     \/ thread' = "error" /\ UNCHANGED <<tunerAt, objects>>
  /\ UNCHANGED <<res, ready, policy, entry, oops>>

-----------------------------------------------------------------------------
(* Steps of module_exit.                                                   *)

RemovePolicy(m) ==
  /\ At(m, "remove_policy")
  /\ Advance(m)
  /\ objects' = objects \ {Object("policy", m)}
  /\ UNCHANGED <<own, oops>>

FreePolicy(m) ==
  /\ At(m, "kfree")
  /\ Advance(m)
  /\ policy' = [policy EXCEPT ![m] = "freed"]
  /\ UNCHANGED <<res, ready, entry, thread, tunerAt, objects, oops>>

(* proc_remove(proc_entry), which accepts NULL.                            *)
\* mutant: the entry of that name, whoever has made it
RemovedByName(m) == {o \in objects : o.kind = "proc"}
RemovedEntry(m) == IF m \in entry THEN {Object("proc", m)} ELSE {}

RemoveEntry(m) ==
  /\ At(m, "proc_remove")
  /\ Advance(m)
  /\ objects' = objects \ RemovedEntry(m)
  /\ UNCHANGED <<own, oops>>

CancelTimer(m) ==
  /\ At(m, "hrtimer_cancel")
  /\ Advance(m)
  /\ objects' = objects \ {Object("timer", m)}
  /\ UNCHANGED <<own, oops>>

(* kthread_stop() waits for the thread to return, and takes an ERR_PTR for *)
(* a pointer.                                                              *)
StopTuner(m) ==
  /\ At(m, "kthread_stop")
  /\ \/ /\ thread = "task" /\ Object("tuner", m) \notin objects
        /\ Advance(m)
        /\ UNCHANGED <<own, objects, oops>>
     \/ thread = "error" /\ Oops(m)

-----------------------------------------------------------------------------
(* The tuner, while rusty is loaded.                                       *)

notTuner == <<phase, step, res, ready, policy, entry, thread, users>>

\* mutant: the loop does not ask whether it should stop
NeverStops(m) == FALSE
ShouldStop(m) == At(m, "kthread_stop")

TunerCheck(m) ==
  /\ tunerAt = "check"
  /\ IF ShouldStop(m)
     THEN tunerAt' = "none" /\ objects' = objects \ {Object("tuner", m)}
     ELSE tunerAt' = "step" /\ UNCHANGED objects
  /\ UNCHANGED <<notTuner, oops>>

(* tuner_step: the greedy masks it fills decide nothing; the mask it needs *)
(* is allocated without a test.                                            *)
TunerStep(m) ==
  /\ tunerAt = "step"
  /\ \/ tunerAt' = "sleep" /\ UNCHANGED <<objects, notTuner, oops>>
     \/ Oops(m)

TunerSleep(m) ==
  /\ tunerAt = "sleep"
  /\ tunerAt' = "check"
  /\ UNCHANGED <<objects, notTuner, oops>>

Tuner(m) ==
  /\ m = "rusty_saakm" /\ oops = Null
  /\ TunerCheck(m) \/ TunerStep(m) \/ TunerSleep(m)

(* The timer of central: on CPU 0 it is armed again, which changes nothing.*)
TimerCallback(m) ==
  /\ oops = Null
  /\ Object("timer", m) \in objects
  /\ objects' = objects \ {Object("timer", m)}
  /\ UNCHANGED <<phase, step, own, users, oops>>

-----------------------------------------------------------------------------
InitStep(m) ==
  \/ InitRunqueues(m)
  \/ AllocateIdleCores(m)
  \/ AllocateMasks(m)
  \/ ReadTopology(m)
  \/ StartTuner(m)
  \/ AllocatePolicy(m)
  \/ Register(m)
  \/ CreateEntry(m)
  \/ StartTimer(m)
  \/ InitReturns(m)

ExitStep(m) ==
  \/ RemovePolicy(m)
  \/ FreePolicy(m)
  \/ RemoveEntry(m)
  \/ CancelTimer(m)
  \/ StopTuner(m)
  \/ ExitReturns(m)

ModuleNext(m) ==
  \/ Load(m)
  \/ Unload(m)
  \/ InitStep(m)
  \/ ExitStep(m)
  \/ Tuner(m)
  \/ TimerCallback(m)
  \/ Attach(m)
  \/ Detach(m)

Next ==
  \/ \E m \in Modules : ModuleNext(m)
  \/ \E o \in objects : UseStale(o)

Spec == Init /\ [][Next]_vars

(* The processes that load and unload modules run, and so does the tuner.  *)
Fairness == \A m \in Modules : WF_vars(InitStep(m) \/ ExitStep(m)) /\ WF_vars(Tuner(m))

FairSpec == Spec /\ Fairness

-----------------------------------------------------------------------------
TypeOK ==
  /\ phase \in [Modules -> Phase]
  /\ step \in [Modules -> 1..7]
  /\ res \in [Modules -> {"ok", "error"}]
  /\ ready \subseteq Modules
  /\ policy \in [Modules -> PolicyState]
  /\ entry \subseteq Modules
  /\ thread \in {"none", "task", "error"}
  /\ tunerAt \in {"none", "check", "step", "sleep"}
  /\ \A o \in objects : o.of \in Modules /\ o.kind \in Kinds[o.of] /\ o.stale \in BOOLEAN
  /\ users \subseteq Modules
  /\ oops \in Modules \cup {Null}

-----------------------------------------------------------------------------
(* From the moment SaaKM knows a policy until it has forgotten it, the     *)
(* struct is allocated, the module is mapped and its runqueues are         *)
(* initialised: "Policies are required to initialize their runqueues       *)
(* before registering themselves" (docs of SaaKM, saakm.tex).              *)
RegisteredIsWhole ==
  \A o \in objects : o.kind = "policy" =>
    ~ o.stale /\ policy[o.of] = "allocated" /\ o.of \in ready

(* A thread may join a policy before the init function that registered it  *)
(* has returned: nothing that init does afterwards may make it fail, and   *)
(* exit does not begin while the thread is there.                          *)
UsedIsRegistered == \A m \in users : Object("policy", m) \in objects

(* exit unregisters and frees a policy that is allocated: it was not freed *)
(* by the error path of an init that succeeded all the same, and is freed  *)
(* once.                                                                   *)
ExitFreesOnce ==
  \A m \in Modules :
    At(m, "remove_policy") \/ At(m, "kfree") => policy[m] = "allocated"

(* A proc entry, a timer or a thread outlives the module that made it only *)
(* when SaaKM has refused to register it: init frees the policy, but makes *)
(* them all the same, and returns the error.                               *)
OnlyRefusedLeak ==
  [][\A o \in objects' \ objects :
       o.stale => phase[o.of] = "init" /\ res[o.of] = "error"]_vars

(* Three modules use the same name in /proc, and the one that did not get  *)
(* it removes nothing: an entry goes away in the exit of its module.       *)
EntryGoesWithItsModule ==
  [][\A m \in Modules :
       Object("proc", m) \in objects /\ Object("proc", m) \notin objects'
         => phase[m] \in {"init", "exit"}]_vars

(* rmmod returns, once begun: the tuner sees that it should stop.          *)
UnloadEnds ==
  \A m \in Modules : (phase[m] = "exit") ~> (phase[m] = "unloaded" \/ oops # Null)
=============================================================================
