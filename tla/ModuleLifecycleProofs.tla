------------------------ MODULE ModuleLifecycleProofs -----------------------
(***************************************************************************)
(* Theorems about ModuleLifecycle, for any modules loaded at a time.       *)
(*                                                                         *)
(* What a module has allocated, registered and left in the kernel's hands  *)
(* is bounded by the step its program is at and by whether its policy was  *)
(* refused.  The programs differ; the proofs know of them only at which    *)
(* step each does what the invariant is about.                             *)
(***************************************************************************)
EXTENDS ModuleLifecycle, TLAPS

(* The steps of init that initialise the runqueues, allocate the policy,   *)
(* register it, and make what is not the policy: entry, timer or thread.   *)
RunqueuesAt ==
  [fifo_benchs |-> 1, global_fifo |-> 2, fifo_one_queue |-> 2,
   saakm_central |-> 1, rusty_saakm |-> 2]
PolicyAt ==
  [fifo_benchs |-> 2, global_fifo |-> 3, fifo_one_queue |-> 3,
   saakm_central |-> 2, rusty_saakm |-> 5]
RegisterAt ==
  [fifo_benchs |-> 3, global_fifo |-> 4, fifo_one_queue |-> 4,
   saakm_central |-> 3, rusty_saakm |-> 6]
MakesAt ==
  [fifo_benchs |-> 4, global_fifo |-> 5, fifo_one_queue |-> 5,
   saakm_central |-> 4, rusty_saakm |-> 4]

(* The steps of exit that unregister the policy, which is then freed, and  *)
(* undo what MakesAt has made.                                             *)
UnregisterAt ==
  [fifo_benchs |-> 1, global_fifo |-> 1, fifo_one_queue |-> 1,
   saakm_central |-> 2, rusty_saakm |-> 2]
DropsAt ==
  [fifo_benchs |-> 3, global_fifo |-> 3, fifo_one_queue |-> 3,
   saakm_central |-> 1, rusty_saakm |-> 1]

Making == {"proc", "timer", "tuner"}
Dropping == {"proc_remove", "hrtimer_cancel", "kthread_stop"}
ExitSteps == {"remove_policy", "kfree"} \cup Dropping

-----------------------------------------------------------------------------
(* The programs.                                                           *)

LEMMA InitPrograms ==
  ASSUME NEW m \in PolicyModules
  PROVE  /\ Len(InitOf[m]) \in 4..6
         /\ RunqueuesAt[m] \in 1..(PolicyAt[m] - 1)
         /\ PolicyAt[m] \in 2..(RegisterAt[m] - 1)
         /\ RegisterAt[m] \in 3..Len(InitOf[m])
         /\ MakesAt[m] \in 4..Len(InitOf[m])
         /\ \A k \in 1..Len(InitOf[m]) :
              /\ InitOf[m][k] = "runqueues" <=> k = RunqueuesAt[m]
              /\ InitOf[m][k] = "policy" <=> k = PolicyAt[m]
              /\ InitOf[m][k] = "register" <=> k = RegisterAt[m]
              /\ InitOf[m][k] \in Making <=> k = MakesAt[m]
              /\ InitOf[m][k] \notin ExitSteps
<1> USE DEF PolicyModules, InitOf, RunqueuesAt, PolicyAt, RegisterAt, MakesAt, Making,
            ExitSteps, Dropping
<1>1. CASE m = "fifo_benchs"
  BY <1>1 DEF FifoInit
<1>2. CASE m = "global_fifo"
  BY <1>2 DEF GlobalInit
<1>3. CASE m = "fifo_one_queue"
  BY <1>3 DEF OneQueueInit
<1>4. CASE m = "saakm_central"
  BY <1>4 DEF CentralInit
<1>5. CASE m = "rusty_saakm"
  BY <1>5 DEF RustyInit
<1> QED BY <1>1, <1>2, <1>3, <1>4, <1>5

(* What is made is of the module's kind; a step that may fail comes before,*)
(* and before the registration, but for the allocations of rusty that are  *)
(* not tested.                                                             *)
LEMMA InitPrecedence ==
  ASSUME NEW m \in PolicyModules, NEW k \in 1..Len(InitOf[m])
  PROVE  /\ InitOf[m][k] \in Making => Kinds[m] = {"policy", InitOf[m][k]}
         /\ InitOf[m][k] \in {"idle_cores", "topology"} => k < MakesAt[m] /\ k < RegisterAt[m]
         /\ m # "rusty_saakm" => PolicyAt[m] < MakesAt[m]
         /\ InitOf[m][k] \in {"masks", "topology"} => m = "rusty_saakm"
<1> USE DEF PolicyModules, InitOf, PolicyAt, RegisterAt, MakesAt, Making, Kinds
<1>1. CASE m = "fifo_benchs"
  BY <1>1 DEF FifoInit
<1>2. CASE m = "global_fifo"
  BY <1>2 DEF GlobalInit
<1>3. CASE m = "fifo_one_queue"
  BY <1>3 DEF OneQueueInit
<1>4. CASE m = "saakm_central"
  BY <1>4 DEF CentralInit
<1>5. CASE m = "rusty_saakm"
  BY <1>5 DEF RustyInit
<1> QED BY <1>1, <1>2, <1>3, <1>4, <1>5

LEMMA ExitPrograms ==
  ASSUME NEW m \in PolicyModules
  PROVE  /\ Len(ExitOf[m]) = 3
         /\ UnregisterAt[m] \in 1..2
         /\ DropsAt[m] \in 1..3
         /\ \A k \in 1..3 :
              /\ ExitOf[m][k] = "remove_policy" <=> k = UnregisterAt[m]
              /\ ExitOf[m][k] = "kfree" <=> k = UnregisterAt[m] + 1
              /\ ExitOf[m][k] \in Dropping <=> k = DropsAt[m]
              /\ ExitOf[m][k] \in ExitSteps
              /\ ExitOf[m][k] = "proc_remove" => Kinds[m] = {"policy", "proc"}
              /\ ExitOf[m][k] = "hrtimer_cancel" => Kinds[m] = {"policy", "timer"}
              /\ ExitOf[m][k] = "kthread_stop" => Kinds[m] = {"policy", "tuner"} /\ m = "rusty_saakm"
<1> USE DEF PolicyModules, ExitOf, UnregisterAt, DropsAt, ExitSteps, Dropping, Kinds
<1>1. CASE m = "fifo_benchs"
  BY <1>1 DEF FifoExit
<1>2. CASE m = "global_fifo"
  BY <1>2 DEF GlobalExit
<1>3. CASE m = "fifo_one_queue"
  BY <1>3 DEF OneQueueExit
<1>4. CASE m = "saakm_central"
  BY <1>4 DEF CentralExit
<1>5. CASE m = "rusty_saakm"
  BY <1>5 DEF RustyExit
<1> QED BY <1>1, <1>2, <1>3, <1>4, <1>5

-----------------------------------------------------------------------------
Registered(m) == Object("policy", m) \in objects

WhileInit(m) ==
  /\ step[m] \in 1..(Len(InitOf[m]) + 1)
  /\ step[m] > RunqueuesAt[m] => m \in ready
  /\ step[m] \in (PolicyAt[m] + 1)..RegisterAt[m] => policy[m] = "allocated"
  /\ step[m] <= RegisterAt[m] => ~ Registered(m) /\ res[m] = "ok"
  /\ step[m] > RegisterAt[m] /\ res[m] = "ok" => Registered(m) /\ policy[m] = "allocated"
  /\ res[m] # "ok" => ~ Registered(m)

WhileExit(m) ==
  /\ step[m] \in 1..4
  /\ m \in ready /\ m \notin users
  /\ step[m] <= UnregisterAt[m] <=> Registered(m)
  /\ step[m] <= UnregisterAt[m] + 1 => policy[m] = "allocated"

ModuleInv(m) ==
  /\ phase[m] = "unloaded" => ~ Registered(m) /\ res[m] = "ok"
  /\ phase[m] = "init" => WhileInit(m)
  /\ phase[m] = "live" => Registered(m) /\ policy[m] = "allocated" /\ m \in ready
  /\ phase[m] = "exit" => WhileExit(m)
  /\ m \in users => Registered(m)

ObjectType == [kind : {"policy"} \cup Making, of : Modules, stale : BOOLEAN]

(* An entry, a timer or a thread is stale, or its module has made it and   *)
(* not yet dropped it.                                                     *)
Held(o) ==
  LET m == o.of IN
  /\ phase[m] # "unloaded"
  /\ phase[m] = "init" => step[m] > MakesAt[m]
  /\ phase[m] = "exit" => step[m] <= DropsAt[m]
  /\ o.kind = "proc" => m \in entry

ObjectInv ==
  /\ objects \subseteq ObjectType
  /\ \A o \in objects : IF o.kind = "policy" THEN ~ o.stale ELSE o.stale \/ Held(o)

IInv ==
  /\ TypeOK
  /\ ObjectInv
  /\ \A m \in Modules : ModuleInv(m)

-----------------------------------------------------------------------------
(* Before anything is loaded.                                              *)
THEOREM InitIInv == Init => IInv
<1> SUFFICES ASSUME Init PROVE IInv
  OBVIOUS
<1> USE DEF Init
<1>1. TypeOK
  BY DEF TypeOK, Phase, PolicyState
<1>2. ObjectInv
  BY DEF ObjectInv
<1>3. \A m \in Modules : ModuleInv(m)
  BY DEF ModuleInv, Registered
<1> QED BY <1>1, <1>2, <1>3 DEF IInv

LEMMA Known == ASSUME NEW m \in Modules PROVE m \in PolicyModules /\ m # Null
BY ModulesAssumption, NoModuleAssumption

LEMMA Positions ==
  ASSUME NEW m \in Modules
  PROVE  /\ Len(InitOf[m]) \in 4..6
         /\ RunqueuesAt[m] \in 1..6 /\ PolicyAt[m] \in 1..6
         /\ RegisterAt[m] \in 3..6 /\ MakesAt[m] \in 4..6
         /\ RunqueuesAt[m] < PolicyAt[m] /\ PolicyAt[m] < RegisterAt[m]
         /\ RegisterAt[m] <= Len(InitOf[m]) /\ MakesAt[m] <= Len(InitOf[m])
<1> DEFINE L == Len(InitOf[m])
<1>1. /\ L \in 4..6 /\ RunqueuesAt[m] \in 1..(PolicyAt[m] - 1)
      /\ PolicyAt[m] \in 2..(RegisterAt[m] - 1) /\ RegisterAt[m] \in 3..L
      /\ MakesAt[m] \in 4..L
  BY Known, InitPrograms
<1> HIDE DEF L
<1>2. /\ L \in 4..6 /\ RunqueuesAt[m] \in 1..6 /\ PolicyAt[m] \in 1..6
      /\ RegisterAt[m] \in 3..6 /\ MakesAt[m] \in 4..6
      /\ RunqueuesAt[m] < PolicyAt[m] /\ PolicyAt[m] < RegisterAt[m]
      /\ RegisterAt[m] <= L /\ MakesAt[m] <= L
  BY <1>1
<1> QED BY <1>2 DEF L

(* Where a module is when its program is at a step.                        *)
LEMMA AtInit ==
  ASSUME IInv, NEW m \in Modules, NEW what, At(m, what), what \notin ExitSteps
  PROVE  /\ phase[m] = "init" /\ WhileInit(m) /\ oops = Null
         /\ step[m] \in 1..6 /\ step[m] \in 1..Len(InitOf[m])
         /\ InitOf[m][step[m]] = what
<1>1. phase[m] # "exit"
  <2> SUFFICES ASSUME phase[m] = "exit" PROVE FALSE
    OBVIOUS
  <2>1. step[m] \in 1..3 /\ ExitOf[m][step[m]] = what
    BY Known, ExitPrograms DEF At, Program, IInv, ModuleInv, WhileExit
  <2> QED BY <2>1, Known, ExitPrograms
<1>2. phase[m] = "init" /\ WhileInit(m) /\ oops = Null
  BY <1>1 DEF At, IInv, ModuleInv
<1>3. step[m] <= Len(InitOf[m]) /\ InitOf[m][step[m]] = what
  BY <1>2 DEF At, Program
<1>4. Len(InitOf[m]) \in 4..6
  BY Known, InitPrograms
<1> QED BY <1>2, <1>3, <1>4 DEF WhileInit

LEMMA AtExit ==
  ASSUME IInv, NEW m \in Modules, NEW what \in ExitSteps, At(m, what)
  PROVE  /\ phase[m] = "exit" /\ WhileExit(m) /\ oops = Null
         /\ step[m] \in 1..3 /\ ExitOf[m][step[m]] = what
<1>1. phase[m] # "init"
  <2> SUFFICES ASSUME phase[m] = "init" PROVE FALSE
    OBVIOUS
  <2>1. Len(InitOf[m]) \in 4..6
    BY Known, InitPrograms
  <2>2. step[m] \in 1..Len(InitOf[m]) /\ InitOf[m][step[m]] = what
    BY <2>1 DEF At, Program, IInv, ModuleInv, WhileInit
  <2> QED BY <2>2, Known, InitPrograms
<1>2. phase[m] = "exit" /\ WhileExit(m) /\ oops = Null
  BY <1>1 DEF At, IInv, ModuleInv
<1>3. step[m] <= 3 /\ ExitOf[m][step[m]] = what
  BY <1>2, Known, ExitPrograms DEF At, Program
<1> QED BY <1>2, <1>3 DEF WhileExit

(* A step of module m leaves to the others what is theirs.                 *)
OthersKeep(m) ==
  /\ \A n \in Modules \ {m} :
       /\ phase'[n] = phase[n] /\ step'[n] = step[n]
       /\ res'[n] = res[n] /\ policy'[n] = policy[n]
       /\ n \in ready' <=> n \in ready
       /\ n \in users' <=> n \in users
       /\ n \in entry' <=> n \in entry
  /\ \A o : o \in objects' /\ o.of # m <=> o \in objects /\ o.of # m

LEMMA StepIInv ==
  ASSUME IInv, NEW m \in Modules, OthersKeep(m),
         phase' \in [Modules -> Phase], step' \in [Modules -> 1..7],
         res' \in [Modules -> {"ok", "error"}], policy' \in [Modules -> PolicyState],
         ready' \subseteq Modules, entry' \subseteq Modules, users' \subseteq Modules,
         thread' \in {"none", "task", "error"},
         tunerAt' \in {"none", "check", "step", "sleep"},
         oops' \in Modules \cup {Null},
         ModuleInv(m)',
         objects' \subseteq ObjectType,
         \A o \in objects' : o.of = m =>
           /\ o.kind \in Kinds[m]
           /\ IF o.kind = "policy" THEN ~ o.stale ELSE o.stale \/ Held(o)'
  PROVE  IInv'
<1>1. \A o \in objects' : o.of # m => o \in objects
  BY DEF OthersKeep
<1>2. TypeOK'
  <2>1. \A o \in objects' : o.of \in Modules /\ o.stale \in BOOLEAN
    BY DEF ObjectType
  <2>2. \A o \in objects' : o.kind \in Kinds[o.of]
    BY <1>1 DEF IInv, TypeOK
  <2> QED BY <2>1, <2>2 DEF TypeOK
<1>3. ObjectInv'
  <2> SUFFICES ASSUME NEW o \in objects', o.of # m
               PROVE  IF o.kind = "policy" THEN ~ o.stale ELSE o.stale \/ Held(o)'
    BY DEF ObjectInv
  <2>1. o \in objects /\ o.of \in Modules \ {m}
    BY <1>1 DEF ObjectType
  <2> QED BY <2>1 DEF IInv, ObjectInv, Held, OthersKeep
<1>4. ASSUME NEW n \in Modules \ {m} PROVE ModuleInv(n)'
  <2>1. Registered(n)' <=> Registered(n)
    <3>1. Object("policy", n).of # m
      BY DEF Object
    <3> QED BY <3>1 DEF Registered, OthersKeep
  <2>2. ModuleInv(n)
    BY DEF IInv
  <2> QED BY <2>1, <2>2 DEF ModuleInv, WhileInit, WhileExit, OthersKeep
<1> QED BY <1>2, <1>3, <1>4 DEF IInv

(* A policy that is in the kernel's hands is the one that was registered.  *)
LEMMA PolicyObject ==
  ASSUME IInv, NEW o \in objects, o.kind = "policy"
  PROVE  o = Object("policy", o.of) /\ Registered(o.of)
<1>1. o \in ObjectType /\ o.stale = FALSE
  BY DEF IInv, ObjectInv, ObjectType
<1>2. o = Object("policy", o.of)
  BY <1>1 DEF ObjectType, Object
<1> QED BY <1>2 DEF Registered

LEMMA ObjectOf ==
  ASSUME NEW m \in Modules, NEW kind \in {"policy"} \cup Making
  PROVE  /\ Object(kind, m) \in ObjectType
         /\ Object(kind, m).kind = kind
         /\ Object(kind, m).of = m
         /\ Object(kind, m).stale = FALSE
BY DEF Object, ObjectType

(* The module is given back, without a policy in the kernel's hands; what  *)
(* else it has left there becomes stale.                                   *)
LEMMA UnmappedIInv ==
  ASSUME IInv, NEW m \in Modules, Unmapped(m), ~ Registered(m), oops = Null
  PROVE  IInv'
<1> DEFINE Staled(o) == IF o.of = m THEN [o EXCEPT !.stale = TRUE] ELSE o
<1>1. objects' = {Staled(o) : o \in objects}
  BY DEF Unmapped
<1>2. objects \subseteq ObjectType
  BY DEF IInv, ObjectInv
<1>3. \A o \in objects :
        /\ Staled(o) \in ObjectType
        /\ Staled(o).of = o.of /\ Staled(o).kind = o.kind
        /\ o.of = m => Staled(o).stale = TRUE
        /\ o.of # m => Staled(o) = o
  BY <1>2 DEF ObjectType
<1> HIDE DEF Staled
<1>4. \A o \in objects : o.of = m => o.kind # "policy"
  BY PolicyObject
<1>5. OthersKeep(m)
  <2>1. \A o : o \in objects' /\ o.of # m <=> o \in objects /\ o.of # m
    BY <1>1, <1>3
  <2> QED BY <2>1 DEF OthersKeep, Unmapped, IInv, TypeOK
<1>6. \A o \in objects' : o.of = m => o.kind \in Kinds[m] /\ o.kind # "policy" /\ o.stale
  BY <1>1, <1>3, <1>4 DEF IInv, TypeOK
<1>7. ModuleInv(m)'
  <2>1. ~ Registered(m)'
    BY <1>6, ObjectOf DEF Registered
  <2>2. m \notin users'
    BY DEF Unmapped, IInv, ModuleInv
  <2> QED BY <2>1, <2>2 DEF ModuleInv, Unmapped, IInv, TypeOK
<1>8. /\ phase' \in [Modules -> Phase] /\ step' \in [Modules -> 1..7]
      /\ res' \in [Modules -> {"ok", "error"}] /\ policy' \in [Modules -> PolicyState]
      /\ ready' \subseteq Modules /\ entry' \subseteq Modules /\ users' \subseteq Modules
      /\ thread' \in {"none", "task", "error"}
      /\ tunerAt' \in {"none", "check", "step", "sleep"}
      /\ oops' \in Modules \cup {Null}
  BY DEF Unmapped, IInv, TypeOK, Phase, PolicyState
<1>9. objects' \subseteq ObjectType
  BY <1>1, <1>3
<1> QED BY <1>5, <1>6, <1>7, <1>8, <1>9, StepIInv

-----------------------------------------------------------------------------
(* The kernel and the user.                                                *)

LEMMA BeginIInv ==
  ASSUME IInv, NEW m \in Modules, Load(m) \/ Unload(m)
  PROVE  IInv'
<1>1. /\ oops = Null /\ step' = [step EXCEPT ![m] = 1]
      /\ UNCHANGED <<own, objects, users, oops>>
      /\ \/ phase[m] = "unloaded" /\ phase' = [phase EXCEPT ![m] = "init"]
         \/ phase[m] = "live" /\ m \notin users /\ phase' = [phase EXCEPT ![m] = "exit"]
  BY DEF Load, Unload, Begin
<1>2. OthersKeep(m)
  BY <1>1 DEF OthersKeep, own, IInv, TypeOK
<1>3. ModuleInv(m)'
  <2>1. Len(InitOf[m]) \in 4..6 /\ RunqueuesAt[m] \in Nat /\ PolicyAt[m] \in Nat
        /\ RegisterAt[m] \in 3..6 /\ RunqueuesAt[m] >= 1 /\ PolicyAt[m] >= 1
    BY Positions
  <2>2. UnregisterAt[m] \in 1..2
    BY Known, ExitPrograms
  <2>3. /\ Registered(m)' <=> Registered(m)
        /\ step'[m] = 1 /\ res'[m] = res[m] /\ policy'[m] = policy[m]
        /\ ready' = ready /\ users' = users
    BY <1>1 DEF Registered, own, IInv, TypeOK
  <2>4. CASE phase[m] = "unloaded" /\ phase'[m] = "init"
    <3>1. WhileInit(m)'
      BY <2>1, <2>3, <2>4 DEF WhileInit, IInv, ModuleInv
    <3> QED BY <2>3, <2>4, <3>1 DEF ModuleInv, IInv
  <2>5. CASE phase[m] = "live" /\ m \notin users /\ phase'[m] = "exit"
    <3>1. WhileExit(m)'
      BY <2>2, <2>3, <2>5 DEF WhileExit, IInv, ModuleInv
    <3> QED BY <2>3, <2>5, <3>1 DEF ModuleInv, IInv
  <2> QED BY <1>1, <2>4, <2>5 DEF IInv, TypeOK
<1>4. \A o \in objects' : o.of = m =>
        /\ o.kind \in Kinds[m]
        /\ IF o.kind = "policy" THEN ~ o.stale ELSE o.stale \/ Held(o)'
  <2> SUFFICES ASSUME NEW o \in objects, o.of = m, o.kind # "policy", ~ o.stale
               PROVE  Held(o)'
    BY <1>1 DEF IInv, TypeOK, ObjectInv
  <2>1. Held(o)
    BY DEF IInv, ObjectInv
  <2>2. DropsAt[m] \in 1..3
    BY Known, ExitPrograms
  <2> QED BY <1>1, <2>1, <2>2 DEF Held, own, IInv, TypeOK
<1>5. phase' \in [Modules -> Phase] /\ step' \in [Modules -> 1..7]
  BY <1>1 DEF IInv, TypeOK, Phase
<1>6. objects' \subseteq ObjectType
  BY <1>1 DEF IInv, ObjectInv
<1> QED BY <1>1, <1>2, <1>3, <1>4, <1>5, <1>6, StepIInv DEF own, IInv, TypeOK

(* init returns 0, or an error; exit returns.                              *)
LEMMA ReturnsIInv ==
  ASSUME IInv, NEW m \in Modules, InitReturns(m) \/ ExitReturns(m)
  PROVE  IInv'
<1>1. CASE ExitReturns(m)
  <2>1. Unmapped(m) /\ oops = Null /\ phase[m] = "exit" /\ step[m] > Len(ExitOf[m])
    BY <1>1 DEF ExitReturns, Done, Program
  <2>2. ~ Registered(m)
    BY <2>1, Known, ExitPrograms DEF IInv, ModuleInv, WhileExit
  <2> QED BY <2>1, <2>2, UnmappedIInv
<1>2. CASE InitReturns(m)
  <2>1. oops = Null /\ phase[m] = "init" /\ step[m] > Len(InitOf[m]) /\ WhileInit(m)
    BY <1>2 DEF InitReturns, Done, Program, IInv, ModuleInv
  <2>2. CASE res[m] # "ok"
    <3>1. Unmapped(m) /\ ~ Registered(m)
      BY <1>2, <2>1, <2>2 DEF InitReturns, WhileInit
    <3> QED BY <2>1, <3>1, UnmappedIInv
  <2>3. CASE res[m] = "ok"
    <3>1. /\ phase' = [phase EXCEPT ![m] = "live"]
          /\ UNCHANGED <<step, own, objects, users, oops>>
      BY <1>2, <2>3 DEF InitReturns
    <3>2. step[m] > RegisterAt[m] /\ step[m] > RunqueuesAt[m]
      BY <2>1, Positions DEF IInv, TypeOK
    <3>3. Registered(m) /\ policy[m] = "allocated" /\ m \in ready
      BY <2>1, <2>3, <3>2 DEF WhileInit
    <3>4. OthersKeep(m)
      BY <3>1 DEF OthersKeep, own, IInv, TypeOK
    <3>5. ModuleInv(m)'
      BY <3>1, <3>3 DEF ModuleInv, Registered, own, IInv, TypeOK
    <3>6. \A o \in objects' : o.of = m =>
            /\ o.kind \in Kinds[m]
            /\ IF o.kind = "policy" THEN ~ o.stale ELSE o.stale \/ Held(o)'
      BY <3>1 DEF IInv, TypeOK, ObjectInv, Held, own
    <3>7. phase' \in [Modules -> Phase]
      BY <3>1 DEF IInv, TypeOK, Phase
    <3>8. objects' \subseteq ObjectType
      BY <3>1 DEF IInv, ObjectInv
    <3> QED BY <3>1, <3>4, <3>5, <3>6, <3>7, <3>8, StepIInv DEF own, IInv, TypeOK
  <2> QED BY <2>2, <2>3
<1> QED BY <1>1, <1>2

LEMMA UsersIInv ==
  ASSUME IInv, NEW m \in Modules, Attach(m) \/ Detach(m)
  PROVE  IInv'
<1>1. /\ oops = Null /\ UNCHANGED <<phase, step, own, objects, oops>>
      /\ \/ /\ Registered(m) /\ phase[m] \in {"init", "live"}
            /\ users' = users \cup {m}
         \/ users' = users \ {m}
  BY DEF Attach, Detach, Registered
<1>2. OthersKeep(m)
  BY <1>1 DEF OthersKeep, own
<1>3. ModuleInv(m)'
  <2>1. Registered(m)' <=> Registered(m)
    BY <1>1 DEF Registered
  <2> QED BY <1>1, <2>1 DEF ModuleInv, WhileInit, WhileExit, own, IInv
<1>4. \A o \in objects' : o.of = m =>
        /\ o.kind \in Kinds[m]
        /\ IF o.kind = "policy" THEN ~ o.stale ELSE o.stale \/ Held(o)'
  BY <1>1 DEF IInv, TypeOK, ObjectInv, Held, own
<1>5. objects' \subseteq ObjectType /\ users' \subseteq Modules
  BY <1>1 DEF IInv, ObjectInv, TypeOK
<1> QED BY <1>1, <1>2, <1>3, <1>4, <1>5, StepIInv DEF own, IInv, TypeOK

(* A module that uses a bad pointer stops everything.                      *)
LEMMA OopsIInv ==
  ASSUME IInv, NEW m \in Modules, Oops(m)
  PROVE  IInv'
<1>1. OthersKeep(m) /\ UNCHANGED <<phase, step, own, objects, users>> /\ oops' = m
  BY DEF Oops, OthersKeep, own
<1>2. ModuleInv(m)'
  BY <1>1 DEF ModuleInv, WhileInit, WhileExit, Registered, own, IInv
<1>3. \A o \in objects' : o.of = m =>
        /\ o.kind \in Kinds[m]
        /\ IF o.kind = "policy" THEN ~ o.stale ELSE o.stale \/ Held(o)'
  BY <1>1 DEF IInv, TypeOK, ObjectInv, Held, own
<1>4. objects' \subseteq ObjectType
  BY <1>1 DEF IInv, ObjectInv
<1> QED BY <1>1, <1>2, <1>3, <1>4, StepIInv DEF own, IInv, TypeOK

-----------------------------------------------------------------------------
(* The steps of init.                                                      *)

LEMMA InitAdvances ==
  ASSUME IInv, NEW m \in Modules, phase[m] = "init", step[m] \in 1..6,
         oops = Null, oops' = Null, Advance(m), OthersKeep(m), WhileInit(m)',
         res' \in [Modules -> {"ok", "error"}], policy' \in [Modules -> PolicyState],
         ready' \subseteq Modules, entry \subseteq entry', entry' \subseteq Modules,
         thread' \in {"none", "task", "error"},
         tunerAt' \in {"none", "check", "step", "sleep"},
         m \in users => Registered(m)',
         \A o \in objects' :
           \/ o \in objects
           \/ o = Object("policy", m)
           \/ /\ step[m] = MakesAt[m]
              /\ o = Object(InitOf[m][step[m]], m)
              /\ o.kind = "proc" => m \in entry'
  PROVE  IInv'
<1>1. MakesAt[m] \in 4..6
  BY Positions
<1>2. /\ phase' = phase /\ users' = users
      /\ step' \in [Modules -> 1..7] /\ step'[m] = step[m] + 1
  BY <1>1 DEF Advance, IInv, TypeOK
<1>3. ModuleInv(m)'
  BY <1>2 DEF ModuleInv
<1>4. step[m] = MakesAt[m] =>
        InitOf[m][step[m]] \in Making /\ Kinds[m] = {"policy", InitOf[m][step[m]]}
  BY Known, InitPrograms, InitPrecedence
<1>5. "policy" \in Kinds[m]
  BY Known DEF Kinds, PolicyModules
<1>6. objects' \subseteq ObjectType
  <2> SUFFICES ASSUME NEW o \in objects' PROVE o \in ObjectType
    OBVIOUS
  <2>1. Object("policy", m) \in ObjectType
    BY ObjectOf
  <2>2. step[m] = MakesAt[m] => Object(InitOf[m][step[m]], m) \in ObjectType
    BY <1>4, ObjectOf
  <2>3. objects \subseteq ObjectType
    BY DEF IInv, ObjectInv
  <2> QED BY <2>1, <2>2, <2>3
<1>7. \A o \in objects' : o.of = m =>
        /\ o.kind \in Kinds[m]
        /\ IF o.kind = "policy" THEN ~ o.stale ELSE o.stale \/ Held(o)'
  <2> TAKE o \in objects'
  <2>1. CASE o \in objects
    <3>1. o.of = m /\ Held(o) => Held(o)'
      BY <1>1, <1>2 DEF Held
    <3> QED BY <2>1, <3>1 DEF IInv, ObjectInv, TypeOK
  <2>2. CASE o = Object("policy", m)
    <3>1. o.kind = "policy" /\ o.stale = FALSE
      BY <2>2 DEF Object
    <3> QED BY <1>5, <3>1
  <2>3. CASE step[m] = MakesAt[m] /\ o = Object(InitOf[m][step[m]], m)
             /\ (o.kind = "proc" => m \in entry')
    <3>1. o.of = m /\ o.kind = InitOf[m][step[m]] /\ o.kind # "policy"
      BY <1>4, <2>3, ObjectOf DEF Making
    <3>2. Held(o)'
      BY <1>1, <1>2, <2>3, <3>1 DEF Held
    <3> QED BY <1>4, <2>3, <3>1, <3>2
  <2> QED BY <2>1, <2>2, <2>3
<1> QED BY <1>2, <1>3, <1>6, <1>7, StepIInv DEF IInv, TypeOK

(* A step that does nothing to the runqueues or to the policy.             *)
LEMMA OtherSteps ==
  ASSUME IInv, NEW m \in Modules, WhileInit(m), Advance(m),
         step[m] \in 1..Len(InitOf[m]),
         step[m] \notin {RunqueuesAt[m], PolicyAt[m], RegisterAt[m]},
         ready' = ready, res' = res, policy' = policy, Registered(m)' <=> Registered(m)
  PROVE  WhileInit(m)'
<1>1. /\ Len(InitOf[m]) \in 4..6 /\ RunqueuesAt[m] \in 1..6
      /\ PolicyAt[m] \in 1..6 /\ RegisterAt[m] \in 1..6
  BY Positions
<1>2. step'[m] = step[m] + 1
  BY DEF Advance, IInv, TypeOK
<1> QED BY <1>1, <1>2 DEF WhileInit

LEMMA InitRunqueuesIInv ==
  ASSUME IInv, NEW m \in Modules, InitRunqueues(m)
  PROVE  IInv'
<1>1. /\ At(m, "runqueues") /\ Advance(m) /\ ready' = ready \cup {m}
      /\ UNCHANGED <<res, policy, entry, thread, tunerAt, objects, oops>>
  BY DEF InitRunqueues
<1>2. /\ phase[m] = "init" /\ WhileInit(m) /\ oops = Null
      /\ step[m] \in 1..6 /\ step[m] \in 1..Len(InitOf[m])
      /\ InitOf[m][step[m]] = "runqueues"
  BY <1>1, AtInit DEF ExitSteps, Dropping
<1>3. step[m] = RunqueuesAt[m]
  BY <1>2, Known, InitPrograms
<1>4. OthersKeep(m)
  BY <1>1 DEF OthersKeep, Advance, IInv, TypeOK
<1>5. WhileInit(m)'
  <2>1. /\ Len(InitOf[m]) \in 4..6 /\ RunqueuesAt[m] \in 1..6
        /\ PolicyAt[m] \in 1..6 /\ RegisterAt[m] \in 3..6
        /\ RunqueuesAt[m] < PolicyAt[m] /\ PolicyAt[m] < RegisterAt[m]
    BY Positions
  <2>2. /\ step'[m] = step[m] + 1 /\ (Registered(m)' <=> Registered(m))
        /\ m \in ready' /\ res'[m] = res[m]
    BY <1>1 DEF Advance, Registered, IInv, TypeOK
  <2>3. step'[m] \in 1..(Len(InitOf[m]) + 1) /\ step'[m] <= PolicyAt[m]
    BY <1>2, <1>3, <2>1, <2>2
  <2> QED BY <1>2, <2>1, <2>2, <2>3 DEF WhileInit
<1>6. m \in users => Registered(m)'
  BY <1>1 DEF IInv, ModuleInv, Registered
<1> QED BY <1>1, <1>2, <1>4, <1>5, <1>6, InitAdvances DEF IInv, TypeOK

(* A failure before the registration leaves no policy behind.              *)
LEMMA EarlyFailure ==
  ASSUME IInv, NEW m \in Modules, WhileInit(m), step[m] \in 1..6,
         step[m] <= RegisterAt[m], oops = Null, Unmapped(m)
  PROVE  IInv'
BY UnmappedIInv DEF WhileInit

(* Steps that may fail or oops, and otherwise change nothing but step.     *)
LEMMA PlainIInv ==
  ASSUME IInv, NEW m \in Modules,
         AllocateIdleCores(m) \/ AllocateMasks(m) \/ ReadTopology(m)
  PROVE  IInv'
<1>1. PICK what \in {"idle_cores", "masks", "topology"} :
        /\ At(m, what)
        /\ \/ Advance(m) /\ UNCHANGED <<own, objects, oops>>
           \/ what # "masks" /\ Unmapped(m)
           \/ what # "idle_cores" /\ Oops(m)
  BY DEF AllocateIdleCores, AllocateMasks, ReadTopology, CheckedFails
<1>2. /\ phase[m] = "init" /\ WhileInit(m) /\ oops = Null
      /\ step[m] \in 1..6 /\ step[m] \in 1..Len(InitOf[m])
      /\ InitOf[m][step[m]] = what
  BY <1>1, AtInit DEF ExitSteps, Dropping
<1>3. CASE Advance(m) /\ UNCHANGED <<own, objects, oops>>
  <2>1. step[m] \notin {RunqueuesAt[m], PolicyAt[m], RegisterAt[m]}
    BY <1>2, Known, InitPrograms
  <2>2. ready' = ready /\ res' = res /\ policy' = policy /\ (Registered(m)' <=> Registered(m))
    BY <1>3 DEF own, Registered
  <2>3. WhileInit(m)'
    BY <1>2, <1>3, <2>1, <2>2, OtherSteps
  <2>4. OthersKeep(m)
    BY <1>3 DEF OthersKeep, Advance, own, IInv, TypeOK
  <2>5. m \in users => Registered(m)'
    BY <2>2 DEF IInv, ModuleInv
  <2> QED BY <1>2, <1>3, <2>3, <2>4, <2>5, InitAdvances DEF IInv, TypeOK, own
<1>4. CASE what # "masks" /\ Unmapped(m)
  <2>1. step[m] < RegisterAt[m]
    BY <1>2, <1>4, Known, InitPrecedence
  <2>2. step[m] <= RegisterAt[m]
    BY <1>2, <2>1, Positions
  <2> QED BY <1>2, <1>4, <2>2, EarlyFailure
<1>5. CASE what # "idle_cores" /\ Oops(m)
  <2>1. m = "rusty_saakm"
    BY <1>2, <1>5, Known, InitPrecedence
  <2> QED BY <1>5, <2>1, OopsIInv
<1> QED BY <1>1, <1>3, <1>4, <1>5

LEMMA AllocatePolicyIInv ==
  ASSUME IInv, NEW m \in Modules, AllocatePolicy(m)
  PROVE  IInv'
<1>1. At(m, "policy")
  BY DEF AllocatePolicy
<1>2. /\ phase[m] = "init" /\ WhileInit(m) /\ oops = Null
      /\ step[m] \in 1..6 /\ step[m] \in 1..Len(InitOf[m])
      /\ InitOf[m][step[m]] = "policy"
  BY <1>1, AtInit DEF ExitSteps, Dropping
<1>3. step[m] = PolicyAt[m]
  BY <1>2, Known, InitPrograms
<1>4. CASE /\ Advance(m)
           /\ policy' = [policy EXCEPT ![m] = "allocated"]
           /\ UNCHANGED <<res, ready, entry, thread, tunerAt, objects, oops>>
  <2>1. OthersKeep(m)
    BY <1>4 DEF OthersKeep, Advance, IInv, TypeOK
  <2>2. /\ step'[m] = step[m] + 1 /\ (Registered(m)' <=> Registered(m))
        /\ ready' = ready /\ res' = res /\ policy'[m] = "allocated"
    BY <1>4 DEF Advance, Registered, IInv, TypeOK
  <2>3. step'[m] \in 1..(Len(InitOf[m]) + 1) /\ step'[m] <= RegisterAt[m]
        /\ step[m] > RunqueuesAt[m] /\ step[m] <= RegisterAt[m]
    BY <1>2, <1>3, <2>2, Positions
  <2>4. WhileInit(m)'
    BY <1>2, <2>2, <2>3, Positions DEF WhileInit
  <2>5. m \in users => Registered(m)'
    BY <2>2 DEF IInv, ModuleInv
  <2>6. policy' \in [Modules -> PolicyState]
    BY <1>4 DEF IInv, TypeOK, PolicyState
  <2> QED BY <1>2, <1>4, <2>1, <2>4, <2>5, <2>6, InitAdvances DEF IInv, TypeOK
<1>5. CASE Unmapped(m)
  <2>1. step[m] <= RegisterAt[m]
    BY <1>3, Positions
  <2> QED BY <1>2, <1>5, <2>1, EarlyFailure
<1>6. CASE m = "rusty_saakm" /\ Oops(m)
  BY <1>6, OopsIInv
<1> QED BY <1>4, <1>5, <1>6 DEF AllocatePolicy, CheckedFails

(* The policy is registered, or freed and init is to return an error.      *)
LEMMA RegisterIInv ==
  ASSUME IInv, NEW m \in Modules, Register(m)
  PROVE  IInv'
<1>1. /\ At(m, "register") /\ Advance(m)
      /\ UNCHANGED <<ready, entry, thread, tunerAt, oops>>
      /\ \/ objects' = objects \cup {Object("policy", m)} /\ UNCHANGED <<res, policy>>
         \/ /\ policy' = [policy EXCEPT ![m] = "freed"]
            /\ res' = [res EXCEPT ![m] = "error"]
            /\ objects' = objects
  BY DEF Register, Refused
<1>2. /\ phase[m] = "init" /\ WhileInit(m) /\ oops = Null
      /\ step[m] \in 1..6 /\ step[m] \in 1..Len(InitOf[m])
      /\ InitOf[m][step[m]] = "register"
  BY <1>1, AtInit DEF ExitSteps, Dropping
<1>3. step[m] = RegisterAt[m]
  BY <1>2, Known, InitPrograms
<1>4. OthersKeep(m)
  <2>1. Object("policy", m).of = m
    BY DEF Object
  <2>2. \A o : o \in objects' /\ o.of # m <=> o \in objects /\ o.of # m
    BY <1>1, <2>1
  <2> QED BY <1>1, <2>2 DEF OthersKeep, Advance, IInv, TypeOK
<1>5. /\ step'[m] = step[m] + 1 /\ ready' = ready
      /\ step'[m] \in 1..(Len(InitOf[m]) + 1) /\ step'[m] > RegisterAt[m]
      /\ step[m] > RunqueuesAt[m] /\ step[m] \in (PolicyAt[m] + 1)..RegisterAt[m]
  <2>1. step'[m] = step[m] + 1 /\ ready' = ready
    BY <1>1 DEF Advance, IInv, TypeOK
  <2> QED BY <1>2, <1>3, <2>1, Positions
<1>6. m \in ready /\ policy[m] = "allocated" /\ ~ Registered(m) /\ res[m] = "ok"
  BY <1>2, <1>3, <1>5, Positions DEF WhileInit
<1>7. \/ Registered(m)' /\ res'[m] = "ok" /\ policy'[m] = "allocated"
      \/ ~ Registered(m)' /\ res'[m] = "error"
  BY <1>1, <1>6 DEF Registered, IInv, TypeOK
<1>8. WhileInit(m)'
  BY <1>5, <1>6, <1>7, Positions DEF WhileInit
<1>9. m \notin users
  BY <1>6 DEF IInv, ModuleInv
<1>10. res' \in [Modules -> {"ok", "error"}] /\ policy' \in [Modules -> PolicyState]
  BY <1>1 DEF IInv, TypeOK, PolicyState
<1> QED BY <1>1, <1>2, <1>4, <1>8, <1>9, <1>10, InitAdvances DEF IInv, TypeOK

(* The entry, the timer or the thread is made, or is not.                  *)
LEMMA MakeIInv ==
  ASSUME IInv, NEW m \in Modules, CreateEntry(m) \/ StartTimer(m) \/ StartTuner(m)
  PROVE  IInv'
<1>1. PICK what \in Making :
        /\ At(m, what) /\ Advance(m)
        /\ UNCHANGED <<res, ready, policy, oops>>
        /\ entry' \in {entry, entry \cup {m}}
        /\ thread' \in {thread, "task", "error"}
        /\ tunerAt' \in {tunerAt, "check"}
        /\ \/ objects' = objects
           \/ /\ objects' = objects \cup {Object(what, m)}
              /\ what = "proc" => m \in entry'
  <2>1. CASE StartTimer(m)
    BY <2>1 DEF StartTimer, own, Making
  <2>2. CASE StartTuner(m)
    BY <2>2 DEF StartTuner, Making
  <2>3. CASE CreateEntry(m)
    BY <2>3 DEF CreateEntry, NoEntry, own, Making
  <2> QED BY <2>1, <2>2, <2>3
<1>2. what \notin ExitSteps /\ what # "policy"
  BY DEF Making, ExitSteps, Dropping
<1>3. /\ phase[m] = "init" /\ WhileInit(m) /\ oops = Null
      /\ step[m] \in 1..6 /\ step[m] \in 1..Len(InitOf[m])
      /\ InitOf[m][step[m]] = what
  BY <1>1, <1>2, AtInit
<1>4. /\ step[m] = MakesAt[m]
      /\ step[m] \notin {RunqueuesAt[m], PolicyAt[m], RegisterAt[m]}
  BY <1>3, Known, InitPrograms DEF Making
<1>5. Object(what, m).of = m /\ Object(what, m).kind = what
  BY DEF Object
<1>6. OthersKeep(m)
  <2>1. \A o : o \in objects' /\ o.of # m <=> o \in objects /\ o.of # m
    BY <1>1, <1>5
  <2> QED BY <1>1, <2>1 DEF OthersKeep, Advance, IInv, TypeOK
<1>7. Registered(m)' <=> Registered(m)
  <2>1. Object("policy", m) # Object(what, m)
    BY <1>2 DEF Object
  <2> QED BY <1>1, <2>1 DEF Registered
<1>8. WhileInit(m)'
  BY <1>1, <1>3, <1>4, <1>7, OtherSteps
<1>9. m \in users => Registered(m)'
  BY <1>7 DEF IInv, ModuleInv
<1>10. \A o \in objects' :
         \/ o \in objects
         \/ /\ step[m] = MakesAt[m]
            /\ o = Object(InitOf[m][step[m]], m)
            /\ o.kind = "proc" => m \in entry'
  BY <1>1, <1>3, <1>4, <1>5
<1>11. /\ thread' \in {"none", "task", "error"}
       /\ tunerAt' \in {"none", "check", "step", "sleep"}
       /\ entry \subseteq entry' /\ entry' \subseteq Modules
  BY <1>1 DEF IInv, TypeOK
<1> QED BY <1>1, <1>3, <1>6, <1>8, <1>9, <1>10, <1>11, InitAdvances DEF IInv, TypeOK

-----------------------------------------------------------------------------
(* The steps of exit.                                                      *)

LEMMA ExitAdvances ==
  ASSUME IInv, NEW m \in Modules, phase[m] = "exit", step[m] \in 1..3,
         oops = Null, oops' = Null, Advance(m), OthersKeep(m), WhileExit(m)',
         policy' \in [Modules -> PolicyState],
         UNCHANGED <<res, ready, entry, thread, tunerAt>>,
         objects' \subseteq objects,
         step[m] = DropsAt[m] =>
           \A o \in objects' : o.of = m /\ o.kind # "policy" => o.stale
  PROVE  IInv'
<1>1. DropsAt[m] \in 1..3
  BY Known, ExitPrograms
<1>2. /\ phase' = phase /\ users' = users
      /\ step' \in [Modules -> 1..7] /\ step'[m] = step[m] + 1
  BY DEF Advance, IInv, TypeOK
<1>3. ModuleInv(m)'
  BY <1>2 DEF ModuleInv, WhileExit
<1>4. \A o \in objects' : o.of = m =>
        /\ o.kind \in Kinds[m]
        /\ IF o.kind = "policy" THEN ~ o.stale ELSE o.stale \/ Held(o)'
  <2> SUFFICES ASSUME NEW o \in objects', o.of = m, o.kind # "policy", ~ o.stale
               PROVE  Held(o)'
    BY DEF IInv, ObjectInv, TypeOK
  <2>1. Held(o) /\ step[m] # DropsAt[m]
    BY DEF IInv, ObjectInv
  <2> QED BY <1>1, <1>2, <2>1 DEF Held
<1>5. objects' \subseteq ObjectType
  BY DEF IInv, ObjectInv
<1> QED BY <1>2, <1>3, <1>4, <1>5, StepIInv DEF IInv, TypeOK

(* What remove_policy takes away is what was registered.                   *)
LEMMA RemovePolicyIInv ==
  ASSUME IInv, NEW m \in Modules, RemovePolicy(m)
  PROVE  IInv'
<1>1. /\ At(m, "remove_policy") /\ Advance(m) /\ UNCHANGED <<own, oops>>
      /\ objects' = objects \ {Object("policy", m)}
  BY DEF RemovePolicy
<1>2. /\ phase[m] = "exit" /\ WhileExit(m) /\ oops = Null
      /\ step[m] \in 1..3 /\ ExitOf[m][step[m]] = "remove_policy"
  BY <1>1, AtExit DEF ExitSteps
<1>3. step[m] = UnregisterAt[m] /\ UnregisterAt[m] \in 1..2
  BY <1>2, Known, ExitPrograms
<1>4. OthersKeep(m)
  <2>1. \A o : o \in objects' /\ o.of # m <=> o \in objects /\ o.of # m
    BY <1>1 DEF Object
  <2> QED BY <1>1, <2>1 DEF OthersKeep, Advance, own, IInv, TypeOK
<1>5. WhileExit(m)'
  <2>1. ~ Registered(m)'
    BY <1>1 DEF Registered
  <2>2. step'[m] = step[m] + 1 /\ ready' = ready /\ users' = users /\ policy' = policy
    BY <1>1 DEF Advance, own, IInv, TypeOK
  <2> QED BY <1>2, <1>3, <2>1, <2>2 DEF WhileExit
<1>6. step[m] = DropsAt[m] =>
        \A o \in objects' : o.of = m /\ o.kind # "policy" => o.stale
  <2>1. step[m] # DropsAt[m]
    BY <1>2, Known, ExitPrograms DEF Dropping
  <2> QED BY <2>1
<1> QED BY <1>1, <1>2, <1>4, <1>5, <1>6, ExitAdvances DEF IInv, TypeOK, own

LEMMA FreePolicyIInv ==
  ASSUME IInv, NEW m \in Modules, FreePolicy(m)
  PROVE  IInv'
<1>1. /\ At(m, "kfree") /\ Advance(m)
      /\ policy' = [policy EXCEPT ![m] = "freed"]
      /\ UNCHANGED <<res, ready, entry, thread, tunerAt, objects, oops>>
  BY DEF FreePolicy
<1>2. /\ phase[m] = "exit" /\ WhileExit(m) /\ oops = Null
      /\ step[m] \in 1..3 /\ ExitOf[m][step[m]] = "kfree"
  BY <1>1, AtExit DEF ExitSteps
<1>3. step[m] = UnregisterAt[m] + 1 /\ UnregisterAt[m] \in 1..2
  BY <1>2, Known, ExitPrograms
<1>4. OthersKeep(m)
  BY <1>1 DEF OthersKeep, Advance, IInv, TypeOK
<1>5. WhileExit(m)'
  <2>1. /\ step'[m] = step[m] + 1 /\ ready' = ready /\ users' = users
        /\ Registered(m)' <=> Registered(m)
    BY <1>1 DEF Advance, Registered, IInv, TypeOK
  <2> QED BY <1>2, <1>3, <2>1 DEF WhileExit
<1>6. step[m] # DropsAt[m]
  BY <1>2, Known, ExitPrograms DEF Dropping
<1>7. policy' \in [Modules -> PolicyState]
  BY <1>1 DEF IInv, TypeOK, PolicyState
<1> QED BY <1>1, <1>2, <1>4, <1>5, <1>6, <1>7, ExitAdvances

(* What was made is dropped: the entry if the module has it, the timer, or *)
(* the thread, which has returned.                                         *)
LEMMA DropIInv ==
  ASSUME IInv, NEW m \in Modules, RemoveEntry(m) \/ CancelTimer(m) \/ StopTuner(m)
  PROVE  IInv'
<1>1. CASE StopTuner(m) /\ Oops(m)
  <2>1. At(m, "kthread_stop")
    BY <1>1 DEF StopTuner
  <2>2. step[m] \in 1..3 /\ ExitOf[m][step[m]] = "kthread_stop"
    BY <2>1, AtExit DEF ExitSteps, Dropping
  <2>3. m = "rusty_saakm"
    BY <2>2, Known, ExitPrograms
  <2> QED BY <1>1, <2>3, OopsIInv
<1>2. CASE ~ (StopTuner(m) /\ Oops(m))
  <2>1. PICK what \in Dropping, kind \in Making :
          /\ At(m, what) /\ Advance(m) /\ UNCHANGED <<own, oops>>
          /\ <<what, kind>> \in {<<"proc_remove", "proc">>, <<"hrtimer_cancel", "timer">>,
                                 <<"kthread_stop", "tuner">>}
          /\ objects' \subseteq objects
          /\ objects \ objects' \subseteq {Object(kind, m)}
          /\ Object(kind, m) \in objects' => kind = "proc" /\ m \notin entry
    <3>1. CASE RemoveEntry(m)
      BY <3>1 DEF RemoveEntry, RemovedEntry, Dropping, Making
    <3>2. CASE CancelTimer(m)
      BY <3>2 DEF CancelTimer, Dropping, Making
    <3>3. CASE StopTuner(m)
      BY <1>2, <3>3 DEF StopTuner, Dropping, Making
    <3> QED BY <3>1, <3>2, <3>3
  <2>2. /\ phase[m] = "exit" /\ WhileExit(m) /\ oops = Null
        /\ step[m] \in 1..3 /\ ExitOf[m][step[m]] = what
    BY <2>1, AtExit DEF ExitSteps
  <2>3. Kinds[m] = {"policy", kind} /\ DropsAt[m] = step[m]
    BY <2>1, <2>2, Known, ExitPrograms
  <2>4. Object(kind, m).of = m /\ Object("policy", m) # Object(kind, m)
    BY DEF Object, Making
  <2>5. OthersKeep(m)
    <3>1. \A o : o \in objects' /\ o.of # m <=> o \in objects /\ o.of # m
      BY <2>1, <2>4
    <3> QED BY <2>1, <3>1 DEF OthersKeep, Advance, own, IInv, TypeOK
  <2>6. WhileExit(m)'
    <3>1. Registered(m)' <=> Registered(m)
      BY <2>1, <2>4 DEF Registered
    <3>2. step'[m] = step[m] + 1 /\ ready' = ready /\ users' = users /\ policy' = policy
      BY <2>1 DEF Advance, own, IInv, TypeOK
    <3>3. UnregisterAt[m] \in 1..2 /\ step[m] # UnregisterAt[m]
          /\ step[m] # UnregisterAt[m] + 1
      BY <2>1, <2>2, Known, ExitPrograms DEF Dropping
    <3> QED BY <2>2, <3>1, <3>2, <3>3 DEF WhileExit
  <2>7. \A o \in objects' : o.of = m /\ o.kind # "policy" => o.stale
    <3> SUFFICES ASSUME NEW o \in objects', o.of = m, o.kind # "policy", ~ o.stale
                 PROVE  FALSE
      OBVIOUS
    <3>1. o \in objects /\ o \in ObjectType /\ Held(o)
      BY <2>1 DEF IInv, ObjectInv
    <3>2. o.kind = kind
      BY <2>3, <3>1 DEF IInv, TypeOK
    <3>3. o = Object(kind, m)
      BY <3>1, <3>2 DEF ObjectType, Object
    <3>4. kind = "proc" => m \in entry
      BY <3>1, <3>2 DEF Held
    <3> QED BY <2>1, <3>3, <3>4
  <2> QED BY <2>1, <2>2, <2>5, <2>6, <2>7, ExitAdvances DEF IInv, TypeOK, own
<1> QED BY <1>1, <1>2

-----------------------------------------------------------------------------
(* The tuner and the timer give up what they are, and nothing else.        *)
LEMMA BackgroundIInv ==
  ASSUME IInv, NEW m \in Modules, Tuner(m) \/ TimerCallback(m)
  PROVE  IInv'
<1>1. CASE Tuner(m) /\ Oops(m)
  BY <1>1, OopsIInv DEF Tuner
<1>2. CASE ~ (Tuner(m) /\ Oops(m))
  <2>1. /\ UNCHANGED <<phase, step, res, ready, policy, entry, thread, users, oops>>
        /\ oops = Null
        /\ tunerAt' \in {tunerAt, "none", "check", "step", "sleep"}
        /\ \/ objects' = objects
           \/ \E kind \in Making : objects' = objects \ {Object(kind, m)}
    BY <1>2 DEF Tuner, TunerCheck, TunerStep, TunerSleep, TimerCallback, notTuner, own,
                Making
  <2>2. objects' \subseteq objects
    BY <2>1
  <2>3. \A kind \in Making : Object(kind, m).of = m /\ Object(kind, m) # Object("policy", m)
    BY DEF Object, Making
  <2>4. OthersKeep(m)
    <3>1. \A o : o \in objects' /\ o.of # m <=> o \in objects /\ o.of # m
      BY <2>1, <2>3
    <3> QED BY <2>1, <3>1 DEF OthersKeep
  <2>5. ModuleInv(m)'
    <3>1. Registered(m)' <=> Registered(m)
      BY <2>1, <2>3 DEF Registered
    <3> QED BY <2>1, <3>1 DEF ModuleInv, WhileInit, WhileExit, IInv
  <2>6. \A o \in objects' : o.of = m =>
          /\ o.kind \in Kinds[m]
          /\ IF o.kind = "policy" THEN ~ o.stale ELSE o.stale \/ Held(o)'
    BY <2>1, <2>2 DEF IInv, TypeOK, ObjectInv, Held
  <2>7. objects' \subseteq ObjectType
    BY <2>2 DEF IInv, ObjectInv
  <2> QED BY <2>1, <2>4, <2>5, <2>6, <2>7, StepIInv DEF IInv, TypeOK
<1> QED BY <1>1, <1>2

-----------------------------------------------------------------------------
THEOREM NextIInv == IInv /\ [Next]_vars => IInv'
<1> SUFFICES ASSUME IInv, [Next]_vars PROVE IInv'
  OBVIOUS
<1>1. ASSUME NEW m \in Modules, ModuleNext(m) PROVE IInv'
  <2>1. CASE Load(m) \/ Unload(m)
    BY <2>1, BeginIInv
  <2>2. CASE InitReturns(m) \/ ExitReturns(m)
    BY <2>2, ReturnsIInv
  <2>3. CASE InitRunqueues(m)
    BY <2>3, InitRunqueuesIInv
  <2>4. CASE AllocateIdleCores(m) \/ AllocateMasks(m) \/ ReadTopology(m)
    BY <2>4, PlainIInv
  <2>5. CASE AllocatePolicy(m)
    BY <2>5, AllocatePolicyIInv
  <2>6. CASE Register(m)
    BY <2>6, RegisterIInv
  <2>7. CASE CreateEntry(m) \/ StartTimer(m) \/ StartTuner(m)
    BY <2>7, MakeIInv
  <2>8. CASE RemovePolicy(m)
    BY <2>8, RemovePolicyIInv
  <2>9. CASE FreePolicy(m)
    BY <2>9, FreePolicyIInv
  <2>10. CASE RemoveEntry(m) \/ CancelTimer(m) \/ StopTuner(m)
    BY <2>10, DropIInv
  <2>11. CASE Tuner(m) \/ TimerCallback(m)
    BY <2>11, BackgroundIInv
  <2>12. CASE Attach(m) \/ Detach(m)
    BY <2>12, UsersIInv
  <2> QED BY <1>1, <2>1, <2>2, <2>3, <2>4, <2>5, <2>6, <2>7, <2>8, <2>9, <2>10, <2>11,
             <2>12 DEF ModuleNext, InitStep, ExitStep
<1>2. ASSUME NEW o \in objects, UseStale(o) PROVE IInv'
  <2>1. o.of \in Modules /\ o.stale /\ Oops(o.of)
    BY <1>2 DEF UseStale, IInv, TypeOK
  <2> QED BY <2>1, OopsIInv
<1>3. CASE UNCHANGED vars
  BY <1>3 DEF vars, own, IInv, TypeOK, ObjectInv, ObjectType, Held, ModuleInv, WhileInit,
              WhileExit, Registered
<1> QED BY <1>1, <1>2, <1>3 DEF Next

THEOREM AlwaysIInv == Spec => []IInv
BY InitIInv, NextIInv, PTL DEF Spec

-----------------------------------------------------------------------------
(* Every variable keeps its type.                                          *)
THEOREM TypeCorrect == Spec => []TypeOK
<1>1. IInv => TypeOK
  BY DEF IInv
<1> QED BY <1>1, AlwaysIInv, PTL

(* SaaKM is never left with a policy that is freed, whose module is        *)
(* unmapped, or whose runqueues are not initialised, whatever fails.       *)
THEOREM RegisteredHolds == Spec => []RegisteredIsWhole
<1>1. IInv => RegisteredIsWhole
  <2> SUFFICES ASSUME IInv, NEW o \in objects, o.kind = "policy"
               PROVE  ~ o.stale /\ policy[o.of] = "allocated" /\ o.of \in ready
    BY DEF RegisteredIsWhole
  <2> DEFINE m == o.of
  <2>1. ~ o.stale /\ m \in Modules
    BY DEF IInv, ObjectInv, TypeOK
  <2>2. Registered(m) /\ ModuleInv(m) /\ phase[m] \in Phase
    BY <2>1, PolicyObject DEF IInv, TypeOK
  <2>3. CASE phase[m] = "init"
    <3>1. WhileInit(m)
      BY <2>2, <2>3 DEF ModuleInv
    <3>2. step[m] \in 1..7 /\ step[m] > RegisterAt[m] /\ res[m] = "ok"
      BY <2>1, <2>2, <3>1, Positions DEF WhileInit, IInv, TypeOK
    <3>3. step[m] > RunqueuesAt[m]
      BY <2>1, <3>2, Positions
    <3> QED BY <2>1, <3>1, <3>2, <3>3 DEF WhileInit
  <2>4. CASE phase[m] = "live"
    BY <2>1, <2>2, <2>4 DEF ModuleInv
  <2>5. CASE phase[m] = "exit"
    <3>1. WhileExit(m)
      BY <2>2, <2>5 DEF ModuleInv
    <3>2. UnregisterAt[m] \in 1..2
      BY <2>1, Known, ExitPrograms
    <3> QED BY <2>1, <2>2, <3>1, <3>2 DEF WhileExit
  <2> QED BY <2>2, <2>3, <2>4, <2>5 DEF ModuleInv, Phase
<1> QED BY <1>1, AlwaysIInv, PTL

(* A thread is never in a policy that SaaKM does not know.                 *)
THEOREM UsedHolds == Spec => []UsedIsRegistered
<1>1. IInv => UsedIsRegistered
  BY DEF IInv, UsedIsRegistered, ModuleInv, Registered, TypeOK
<1> QED BY <1>1, AlwaysIInv, PTL

(* exit frees the policy of its module once.                               *)
THEOREM FreesOnceHolds == Spec => []ExitFreesOnce
<1>1. IInv => ExitFreesOnce
  <2> SUFFICES ASSUME IInv, NEW m \in Modules, NEW what \in {"remove_policy", "kfree"},
                      At(m, what)
               PROVE  policy[m] = "allocated"
    BY DEF ExitFreesOnce
  <2>1. /\ WhileExit(m) /\ step[m] \in 1..3 /\ ExitOf[m][step[m]] = what
    BY AtExit DEF ExitSteps
  <2>2. UnregisterAt[m] \in 1..2 /\ step[m] \in {UnregisterAt[m], UnregisterAt[m] + 1}
    BY <2>1, Known, ExitPrograms
  <2> QED BY <2>1, <2>2 DEF WhileExit
<1> QED BY <1>1, AlwaysIInv, PTL

-----------------------------------------------------------------------------
(* A module that is given back holds nothing, unless it was refused.       *)
LEMMA UnmappedClean ==
  ASSUME IInv, NEW m \in Modules, Unmapped(m), ~ Registered(m),
         \/ phase[m] = "init" /\ step[m] <= MakesAt[m]
         \/ phase[m] = "exit" /\ step[m] > DropsAt[m]
  PROVE  \A o \in objects : o.of = m => o.stale
<1> SUFFICES ASSUME NEW o \in objects, o.of = m, ~ o.stale PROVE FALSE
  OBVIOUS
<1>1. o.kind # "policy"
  BY PolicyObject
<1>2. Held(o)
  BY <1>1 DEF IInv, ObjectInv
<1>3. step[m] \in 1..7 /\ MakesAt[m] \in 4..6 /\ DropsAt[m] \in 1..3
  BY Positions, Known, ExitPrograms DEF IInv, TypeOK
<1> QED BY <1>2, <1>3 DEF Held

(* How a step of a module changes what is in the kernel's hands.           *)
Adds == objects \subseteq objects' /\ \A o \in objects' \ objects : ~ o.stale
Drops(kind, m) ==
  /\ objects' \subseteq objects
  /\ objects \ objects' \subseteq {Object(kind, m)}
GivesBack(m) ==
  /\ Unmapped(m)
  /\ phase[m] \in {"init", "exit"}
  /\ (phase[m] = "init" /\ res[m] = "error") \/ \A o \in objects : o.of = m => o.stale

LEMMA ObjectsChange ==
  ASSUME IInv, NEW m \in Modules, ModuleNext(m)
  PROVE  \/ Adds
         \/ \E kind \in {"policy", "timer", "tuner"} : Drops(kind, m)
         \/ Drops("proc", m) /\ phase[m] = "exit"
         \/ GivesBack(m)
<1>1. CASE Unmapped(m) /\ ExitReturns(m)
  <2>1. phase[m] = "exit" /\ step[m] > Len(ExitOf[m]) /\ WhileExit(m)
    BY <1>1 DEF ExitReturns, Done, Program, IInv, ModuleInv
  <2>2. step[m] = 4 /\ UnregisterAt[m] \in 1..2 /\ DropsAt[m] \in 1..3
    BY <2>1, Known, ExitPrograms DEF WhileExit
  <2>3. ~ Registered(m) /\ step[m] > DropsAt[m]
    BY <2>1, <2>2 DEF WhileExit
  <2> QED BY <1>1, <2>1, <2>3, UnmappedClean DEF GivesBack
<1>2. CASE Unmapped(m) /\ InitReturns(m)
  <2>1. phase[m] = "init"
    BY <1>2 DEF InitReturns
  <2>2. res[m] # "ok"
    <3>1. phase'[m] = "unloaded"
      BY <1>2 DEF Unmapped, IInv, TypeOK
    <3> QED BY <1>2, <3>1 DEF InitReturns, IInv, TypeOK
  <2> QED BY <1>2, <2>1, <2>2 DEF GivesBack, IInv, TypeOK
<1>3. CASE Unmapped(m) /\ (AllocateIdleCores(m) \/ ReadTopology(m) \/ AllocatePolicy(m))
  <2>1. PICK what \in {"idle_cores", "topology", "policy"} :
          /\ At(m, what)
          /\ what = "policy" => AllocatePolicy(m)
    BY <1>3 DEF AllocateIdleCores, ReadTopology, AllocatePolicy
  <2>2. /\ phase[m] = "init" /\ WhileInit(m)
        /\ step[m] \in 1..6 /\ step[m] \in 1..Len(InitOf[m])
        /\ InitOf[m][step[m]] = what
    BY <2>1, AtInit DEF ExitSteps, Dropping
  <2>3. step[m] < MakesAt[m] /\ step[m] < RegisterAt[m]
    <3>1. CASE what = "policy"
      <4>1. m # "rusty_saakm"
        <5>1. phase'[m] = "unloaded"
          BY <1>3 DEF Unmapped, IInv, TypeOK
        <5>2. phase'[m] = phase[m] \/ m # "rusty_saakm"
          BY <2>1, <3>1 DEF AllocatePolicy, Advance, Oops
        <5> QED BY <2>2, <5>1, <5>2
      <4>2. step[m] = PolicyAt[m]
        BY <2>2, <3>1, Known, InitPrograms
      <4>3. PolicyAt[m] < MakesAt[m]
        BY <2>2, <4>1, Known, InitPrecedence
      <4> QED BY <4>2, <4>3, Positions
    <3>2. CASE what # "policy"
      BY <2>1, <2>2, <3>2, Known, InitPrecedence
    <3> QED BY <3>1, <3>2
  <2>4. step[m] <= MakesAt[m] /\ step[m] <= RegisterAt[m]
    BY <2>2, <2>3, Positions
  <2>5. ~ Registered(m)
    BY <2>2, <2>4 DEF WhileInit
  <2> QED BY <1>3, <2>2, <2>4, <2>5, UnmappedClean DEF GivesBack
<1>4. CASE objects' = objects
  BY <1>4 DEF Adds
<1>5. CASE Register(m) \/ CreateEntry(m) \/ StartTimer(m) \/ StartTuner(m)
  <2>1. PICK kind \in {"policy"} \cup Making :
          objects' = objects \/ objects' = objects \cup {Object(kind, m)}
    BY <1>5 DEF Register, CreateEntry, NoEntry, StartTimer, StartTuner, Making, own
  <2>2. Object(kind, m).stale = FALSE
    BY DEF Object
  <2> QED BY <2>1, <2>2 DEF Adds
<1>6. CASE RemovePolicy(m) \/ CancelTimer(m) \/ TimerCallback(m)
  BY <1>6 DEF RemovePolicy, CancelTimer, TimerCallback, Drops
<1>7. CASE Tuner(m)
  BY <1>4, <1>7 DEF Tuner, TunerCheck, TunerStep, TunerSleep, Oops, Drops
<1>8. CASE RemoveEntry(m)
  <2>1. phase[m] = "exit"
    BY <1>8, AtExit DEF RemoveEntry, ExitSteps, Dropping
  <2>2. Drops("proc", m)
    BY <1>8 DEF RemoveEntry, RemovedEntry, Drops
  <2> QED BY <2>1, <2>2
<1>9. \/ objects' = objects
      \/ Unmapped(m) /\ ExitReturns(m)
      \/ Unmapped(m) /\ InitReturns(m)
      \/ Unmapped(m) /\ (AllocateIdleCores(m) \/ ReadTopology(m) \/ AllocatePolicy(m))
      \/ Register(m) \/ CreateEntry(m) \/ StartTimer(m) \/ StartTuner(m)
      \/ RemovePolicy(m) \/ CancelTimer(m) \/ TimerCallback(m)
      \/ Tuner(m)
      \/ RemoveEntry(m)
  <2>1. CASE InitStep(m)
    BY <2>1 DEF InitStep, InitRunqueues, AllocateIdleCores, AllocateMasks, ReadTopology,
                AllocatePolicy, InitReturns, CheckedFails, Oops
  <2>2. CASE ExitStep(m)
    BY <2>2 DEF ExitStep, FreePolicy, StopTuner, ExitReturns, Oops
  <2>3. CASE Load(m) \/ Unload(m) \/ Attach(m) \/ Detach(m)
    BY <2>3 DEF Load, Unload, Begin, Attach, Detach
  <2> QED BY <2>1, <2>2, <2>3 DEF ModuleNext
<1> QED BY <1>1, <1>2, <1>3, <1>4, <1>5, <1>6, <1>7, <1>8, <1>9

(* What outlives its module was left by an init that has returned the      *)
(* error of its registration.                                              *)
THEOREM OnlyRefusedLeakHolds == Spec => OnlyRefusedLeak
<1>1. ASSUME IInv, [Next]_vars, NEW o \in objects' \ objects, o.stale
      PROVE  phase[o.of] = "init" /\ res[o.of] = "error"
  <2>1. CASE UNCHANGED vars
    BY <1>1, <2>1 DEF vars
  <2>2. CASE \E p \in objects : UseStale(p)
    BY <1>1, <2>2 DEF UseStale, Oops
  <2>3. ASSUME NEW m \in Modules, ModuleNext(m)
        PROVE  phase[o.of] = "init" /\ res[o.of] = "error"
    <3>1. GivesBack(m)
      BY <1>1, <2>3, ObjectsChange DEF Adds, Drops
    <3>2. objects \subseteq ObjectType
      BY <1>1 DEF IInv, ObjectInv
    <3>3. PICK p \in objects : o = IF p.of = m THEN [p EXCEPT !.stale = TRUE] ELSE p
      BY <1>1, <3>1 DEF GivesBack, Unmapped
    <3>4. p.of = m /\ o.of = m /\ ~ p.stale
      BY <1>1, <3>2, <3>3 DEF ObjectType
    <3> QED BY <3>1, <3>4 DEF GivesBack
  <2> QED BY <1>1, <2>1, <2>2, <2>3 DEF Next
<1>2. IInv /\ [Next]_vars =>
        [\A o \in objects' \ objects :
           o.stale => phase[o.of] = "init" /\ res[o.of] = "error"]_vars
  BY <1>1
<1> QED BY <1>2, AlwaysIInv, PTL DEF Spec, OnlyRefusedLeak

(* No module takes away the entry of another.                              *)
THEOREM EntryHolds == Spec => EntryGoesWithItsModule
<1>1. ASSUME IInv, [Next]_vars, NEW m \in Modules,
             Object("proc", m) \in objects, Object("proc", m) \notin objects'
      PROVE  phase[m] \in {"init", "exit"}
  <2>1. CASE UNCHANGED vars
    BY <1>1, <2>1 DEF vars
  <2>2. CASE \E p \in objects : UseStale(p)
    BY <1>1, <2>2 DEF UseStale, Oops
  <2>3. ASSUME NEW n \in Modules, ModuleNext(n) PROVE phase[m] \in {"init", "exit"}
    <3>1. ~ Adds
      BY <1>1 DEF Adds
    <3>2. ASSUME NEW kind \in {"policy", "timer", "tuner"} PROVE ~ Drops(kind, n)
      BY <1>1 DEF Drops, Object
    <3>3. CASE Drops("proc", n) /\ phase[n] = "exit"
      BY <1>1, <3>3 DEF Drops, Object
    <3>4. CASE GivesBack(n)
      <4>1. m = n
        BY <1>1, <3>4 DEF GivesBack, Unmapped, Object
      <4> QED BY <3>4, <4>1 DEF GivesBack
    <3> QED BY <1>1, <2>3, <3>1, <3>2, <3>3, <3>4, ObjectsChange
  <2> QED BY <1>1, <2>1, <2>2, <2>3 DEF Next
<1>2. IInv /\ [Next]_vars =>
        [\A m \in Modules :
           Object("proc", m) \in objects /\ Object("proc", m) \notin objects'
             => phase[m] \in {"init", "exit"}]_vars
  BY <1>1
<1> QED BY <1>2, AlwaysIInv, PTL DEF Spec, EntryGoesWithItsModule
=============================================================================
