----------------------------- MODULE ProcessThread -----------------------------
(* ProcessThreadImpl (utility/source/process_thread_impl.cc): one thread that *)
(* calls Process of the registered modules when they are due, or when they    *)
(* ask for it, and runs the tasks posted to it.  The controller thread starts *)
(* and stops it and registers modules; any thread may wake a module up, post  *)
(* a task or deregister a module.  A step is one hold of lock_, one operation *)
(* on the event wake_up_, or one module or task; the process thread holds     *)
(* lock_ through the loop over the modules, Process calls included.           *)
EXTENDS Integers, Sequences, Functions

CONSTANTS Modules,
          Callers,        \* the other threads
          Tasks           \* the task objects; one that has been run may be posted anew

NoTask == "none"

\* next_callback: 0, kCallProcessImmediately, a time to come, a time that has come.
CallbackTimes == {"unset", "immediately", "later", "due"}

VARIABLES
  modules_, queue_, stop_,
  thread_,           \* thread_ # nullptr
  wake_up_,          \* the event
  attached,          \* the modules whose last ProcessThreadAttached had a thread
  process, it, task, \* the process thread: where it is, in the list, and its task
  app, app_module,   \* the controller thread, and the module it registers
  caller,            \* where the other threads are
  woken              \* history: WakeUp was called by another and Process not since

processVars == <<process, it, task>>
appVars == <<app, app_module>>
vars == <<modules_, queue_, stop_, thread_, wake_up_, attached, processVars, appVars, caller,
          woken>>

Registered(m) == \E i \in DOMAIN modules_ : modules_[i].module = m

TypeOK ==
  /\ modules_ \in Seq([module : Modules, next_callback : CallbackTimes])
  /\ queue_ \in Seq(Tasks)
  /\ stop_ \in BOOLEAN /\ thread_ \in BOOLEAN /\ wake_up_ \in BOOLEAN
  /\ attached \subseteq Modules /\ woken \subseteq Modules
  /\ process \in {"none", "top", "modules", "calls", "asks", "erased", "tasks", "task", "waits",
                  "exited", "crashed"}
  /\ it \in Nat \ {0} /\ task \in Tasks \union {NoTask}
  /\ app \in {"idle", "starts", "stops", "joins", "resets", "registers", "sets"}
  /\ app_module \in Modules
  /\ caller \in [Callers -> {"idle", "sets"}]

Init ==
  /\ modules_ = <<>> /\ queue_ = <<>>
  /\ stop_ = FALSE /\ thread_ = FALSE /\ wake_up_ = FALSE
  /\ attached = {} /\ woken = {}
  /\ process = "none" /\ it = 1 /\ task = NoTask
  /\ app = "idle" /\ app_module \in Modules
  /\ caller = [c \in Callers |-> "idle"]

\* lock_ is not held by the process thread; every other hold is a single step.
LockFree == process \notin {"modules", "calls", "asks", "erased", "tasks"}

-----------------------------------------------------------------------------
\* The controller thread.  Start attaches the modules, ...
Start ==
  /\ app = "idle" /\ ~thread_ /\ LockFree
  /\ attached' = attached \union {m \in Modules : Registered(m)}
  /\ app' = "starts"
  /\ UNCHANGED <<modules_, queue_, stop_, thread_, wake_up_, processVars, app_module, caller,
                 woken>>

\* ... and creates the thread without the lock.
CreateThread ==
  /\ app = "starts"
  /\ thread_' = TRUE /\ process' = "top"
  /\ app' = "idle"
  /\ UNCHANGED <<modules_, queue_, stop_, wake_up_, attached, it, task, app_module, caller,
                 woken>>

\* Stop asks the thread to stop, ...
Stop ==
  /\ app = "idle" /\ thread_ /\ LockFree
  /\ stop_' = TRUE
  /\ app' = "stops"
  /\ UNCHANGED <<modules_, queue_, thread_, wake_up_, attached, processVars, app_module,
                 caller, woken>>

\* ... wakes it, ...
StopWakes ==
  /\ app = "stops"
  /\ wake_up_' = TRUE
  /\ app' = "joins"
  /\ UNCHANGED <<modules_, queue_, stop_, thread_, attached, processVars, app_module, caller,
                 woken>>

\* Faulty variant: Stop also waits until the tasks have been run.
JoinDrained ==
  /\ app = "joins" /\ process = "exited" /\ queue_ = <<>>
  /\ stop_' = FALSE /\ process' = "none"
  /\ app' = "resets"
  /\ UNCHANGED <<modules_, queue_, thread_, wake_up_, attached, it, task, app_module, caller,
                 woken>>

\* ... waits for it, ...
JoinThread ==
  /\ app = "joins" /\ process = "exited"
  /\ stop_' = FALSE /\ process' = "none"
  /\ app' = "resets"
  /\ UNCHANGED <<modules_, queue_, thread_, wake_up_, attached, it, task, app_module, caller,
                 woken>>

\* ... and detaches the modules.
ResetThread ==
  /\ app = "resets"
  /\ thread_' = FALSE
  /\ attached' = attached \ {m \in Modules : Registered(m)}
  /\ app' = "idle"
  /\ UNCHANGED <<modules_, queue_, stop_, wake_up_, processVars, app_module, caller, woken>>

\* RegisterModule attaches the module while the thread exists, ...
RegisterModule(m) ==
  /\ app = "idle" /\ ~Registered(m)
  /\ attached' = IF thread_ THEN attached \union {m} ELSE attached
  /\ app' = "registers" /\ app_module' = m
  /\ UNCHANGED <<modules_, queue_, stop_, thread_, wake_up_, processVars, caller, woken>>

\* Faulty variant: the thread is not woken to ask the new module.
PushSilently ==
  /\ app = "registers" /\ LockFree
  /\ modules_' = Append(modules_, [module |-> app_module, next_callback |-> "unset"])
  /\ app' = "idle"
  /\ UNCHANGED <<queue_, stop_, thread_, wake_up_, attached, processVars, app_module, caller,
                 woken>>

\* ... adds it to the list, ...
PushModule ==
  /\ app = "registers" /\ LockFree
  /\ modules_' = Append(modules_, [module |-> app_module, next_callback |-> "unset"])
  /\ app' = "sets"
  /\ UNCHANGED <<queue_, stop_, thread_, wake_up_, attached, processVars, app_module, caller,
                 woken>>

\* ... and wakes the thread.
RegisterWakes ==
  /\ app = "sets"
  /\ wake_up_' = TRUE
  /\ app' = "idle"
  /\ UNCHANGED <<modules_, queue_, stop_, thread_, attached, processVars, app_module, caller,
                 woken>>

-----------------------------------------------------------------------------
\* The other threads.  What WakeUp does to the list.
CallImmediately(m) ==
  [i \in DOMAIN modules_ |-> IF modules_[i].module = m
                             THEN [modules_[i] EXCEPT !.next_callback = "immediately"]
                             ELSE modules_[i]]

\* Faulty variant: WakeUp wakes the thread but does not mark the module.
WakeUpUnmarked(c, m) ==
  /\ caller[c] = "idle" /\ LockFree
  /\ caller' = [caller EXCEPT ![c] = "sets"]
  /\ woken' = IF Registered(m) THEN woken \union {m} ELSE woken
  /\ UNCHANGED <<modules_, queue_, stop_, thread_, wake_up_, attached, processVars, appVars>>

\* WakeUp, up to Set.
WakeUp(c, m) ==
  /\ caller[c] = "idle" /\ LockFree
  /\ modules_' = CallImmediately(m)
  /\ caller' = [caller EXCEPT ![c] = "sets"]
  /\ woken' = IF Registered(m) THEN woken \union {m} ELSE woken
  /\ UNCHANGED <<queue_, stop_, thread_, wake_up_, attached, processVars, appVars>>

\* A task belongs to whoever posts it, and to the process thread until it has been run.
CanPost(t) == t # task /\ t \notin Range(queue_)

\* PostTask, up to Set.
PostTask(c, t) ==
  /\ caller[c] = "idle" /\ LockFree /\ CanPost(t)
  /\ queue_' = Append(queue_, t)
  /\ caller' = [caller EXCEPT ![c] = "sets"]
  /\ UNCHANGED <<modules_, stop_, thread_, wake_up_, attached, processVars, appVars, woken>>

\* wake_up_->Set() at the end of both.
CallerWakes(c) ==
  /\ caller[c] = "sets"
  /\ caller' = [caller EXCEPT ![c] = "idle"]
  /\ wake_up_' = TRUE
  /\ UNCHANGED <<modules_, queue_, stop_, thread_, attached, processVars, appVars, woken>>

\* remove_if: RegisterModule sees to it that a module is in the list once.
RemoveAt(i) == SubSeq(modules_, 1, i - 1) \o SubSeq(modules_, i + 1, Len(modules_))

\* DeRegisterModule, of a module that was registered.
DeRegisterModule(m) ==
  /\ LockFree
  /\ \E i \in DOMAIN modules_ : modules_[i].module = m /\ modules_' = RemoveAt(i)
  /\ attached' = IF thread_ THEN attached \ {m} ELSE attached
  /\ woken' = woken \ {m}
  /\ UNCHANGED <<queue_, stop_, thread_, wake_up_, processVars, appVars, caller>>

-----------------------------------------------------------------------------
\* Process.  It leaves the thread's loop when stop_ is set, and else takes the lock.
BeginPass ==
  /\ process = "top"
  /\ IF stop_ THEN process' = "exited" ELSE process' = "modules"
  /\ it' = 1
  /\ UNCHANGED <<modules_, queue_, stop_, thread_, wake_up_, attached, task, appVars, caller,
                 woken>>

\* A module registered since the last pass is asked when it wants to be called.  One
\* that is due, or has been woken up, is called.
VisitModule ==
  /\ process = "modules" /\ it <= Len(modules_)
  /\ \E next \in IF modules_[it].next_callback = "unset" THEN {"later", "due"}
                 ELSE {modules_[it].next_callback} :
       /\ modules_' = [modules_ EXCEPT ![it].next_callback = next]
       /\ IF next \in {"due", "immediately"}
          THEN process' = "calls" /\ it' = it /\ woken' = woken \ {modules_[it].module}
          ELSE process' = "modules" /\ it' = it + 1 /\ woken' = woken
  /\ UNCHANGED <<queue_, stop_, thread_, wake_up_, attached, task, appVars, caller>>

\* What the module does in Process, besides its own work: nothing, post a task, wake a
\* module up, or deregister one (lock_ is recursive); of these, one thing in a call.
NoRequest == UNCHANGED <<modules_, queue_, wake_up_, attached, woken, it>> /\ process' = "asks"
RequestTask(t) ==
  /\ CanPost(t)
  /\ queue_' = Append(queue_, t) /\ wake_up_' = TRUE /\ process' = "asks"
  /\ UNCHANGED <<modules_, attached, woken, it>>
RequestWakeUp(m) ==
  /\ modules_' = CallImmediately(m) /\ wake_up_' = TRUE /\ process' = "asks"
  /\ woken' = IF Registered(m) /\ m # modules_[it].module THEN woken \union {m} ELSE woken
  /\ UNCHANGED <<queue_, attached, it>>
\* The loop's place moves with its node; a module that deregisters itself erases it.
RequestDeRegister(i) ==
  /\ modules_' = RemoveAt(i)
  /\ attached' = IF thread_ THEN attached \ {modules_[i].module} ELSE attached
  /\ woken' = woken \ {modules_[i].module}
  /\ it' = IF i < it THEN it - 1 ELSE it
  /\ process' = IF i = it THEN "erased" ELSE "asks"
  /\ UNCHANGED <<queue_, wake_up_>>

CallModule ==
  /\ process = "calls"
  /\ \/ NoRequest
     \/ \E t \in Tasks : RequestTask(t)
     \/ \E m \in Modules : RequestWakeUp(m)
     \/ \E i \in DOMAIN modules_ : RequestDeRegister(i)
  /\ UNCHANGED <<stop_, thread_, task, appVars, caller>>

\* The module is asked again, whatever it requested.
AskModule ==
  /\ process = "asks"
  /\ \E next \in {"later", "due"} : modules_' = [modules_ EXCEPT ![it].next_callback = next]
  /\ process' = "modules" /\ it' = it + 1
  /\ UNCHANGED <<queue_, stop_, thread_, wake_up_, attached, task, appVars, caller, woken>>

\* The node is freed memory, which the loop reads and writes: it still holds what it
\* held, and the loop goes on behind it with nothing kept of the answer, or it does
\* not, and the program is gone.
AskErased ==
  /\ process = "erased"
  /\ process' \in {"modules", "crashed"}
  /\ UNCHANGED <<modules_, queue_, stop_, thread_, wake_up_, attached, it, task, appVars,
                 caller, woken>>

\* Faulty variant: a wake-up that is already there is served before the tasks.
EndModulesUnlessWoken ==
  /\ process = "modules" /\ it > Len(modules_)
  /\ process' = IF wake_up_ THEN "top" ELSE "tasks"
  /\ UNCHANGED <<modules_, queue_, stop_, thread_, wake_up_, attached, it, task, appVars,
                 caller, woken>>

EndModules ==
  /\ process = "modules" /\ it > Len(modules_)
  /\ process' = "tasks"
  /\ UNCHANGED <<modules_, queue_, stop_, thread_, wake_up_, attached, it, task, appVars,
                 caller, woken>>

\* A task is taken with the lock and run without it.
TakeTask ==
  /\ process = "tasks" /\ queue_ # <<>>
  /\ task' = Head(queue_) /\ queue_' = Tail(queue_)
  /\ process' = "task"
  /\ UNCHANGED <<modules_, stop_, thread_, wake_up_, attached, it, appVars, caller, woken>>

RunTask ==
  /\ process = "task"
  /\ task' = NoTask
  /\ process' = "tasks"
  /\ UNCHANGED <<modules_, queue_, stop_, thread_, wake_up_, attached, it, appVars, caller,
                 woken>>

EndTasks ==
  /\ process = "tasks" /\ queue_ = <<>>
  /\ process' = "waits"
  /\ UNCHANGED <<modules_, queue_, stop_, thread_, wake_up_, attached, it, task, appVars,
                 caller, woken>>

\* wake_up_->Wait: the event resets itself.
Signaled ==
  /\ process = "waits" /\ wake_up_
  /\ wake_up_' = FALSE
  /\ process' = "top"
  /\ UNCHANGED <<modules_, queue_, stop_, thread_, attached, it, task, appVars, caller, woken>>

\* The next checkpoint, at most a minute away, has come.
TimedOut ==
  /\ process = "waits"
  /\ process' = "top"
  /\ UNCHANGED <<modules_, queue_, stop_, thread_, wake_up_, attached, it, task, appVars,
                 caller, woken>>

\* The clock.  Process reads it when a pass begins and when it ends.
BecomesDue(i) ==
  /\ process \in {"none", "top", "waits", "exited"}
  /\ i \in DOMAIN modules_ /\ modules_[i].next_callback = "later"
  /\ modules_' = [modules_ EXCEPT ![i].next_callback = "due"]
  /\ UNCHANGED <<queue_, stop_, thread_, wake_up_, attached, processVars, appVars, caller,
                 woken>>

-----------------------------------------------------------------------------
Running == process # "crashed"
ProcessStep == \/ BeginPass \/ VisitModule \/ CallModule \/ AskModule \/ AskErased \/ EndModules
               \/ TakeTask \/ RunTask \/ EndTasks \/ Signaled
AppContinues == Running /\ (\/ CreateThread \/ StopWakes \/ JoinThread \/ ResetThread
                            \/ PushModule \/ RegisterWakes)
AppBegins == Running /\ (Start \/ Stop \/ \E m \in Modules : RegisterModule(m))
CallerBegins == Running /\ (\/ \E c \in Callers, m \in Modules : WakeUp(c, m)
                            \/ \E c \in Callers, t \in Tasks : PostTask(c, t)
                            \/ \E m \in Modules : DeRegisterModule(m))
CallerContinues(c) == Running /\ CallerWakes(c)
Next == \/ ProcessStep \/ AppContinues \/ AppBegins \/ CallerBegins
        \/ \E c \in Callers : CallerContinues(c)
        \/ TimedOut \/ \E i \in DOMAIN modules_ : BecomesDue(i)

Spec == Init /\ [][Next]_vars

\* Threads that can go on do so, modules and tasks return.  Nothing is assumed of
\* the clock: no work waits for a timeout.
FairSpec == /\ Spec
            /\ WF_vars(ProcessStep) /\ WF_vars(AppContinues)
            /\ \A c \in Callers : WF_vars(CallerContinues(c))

-----------------------------------------------------------------------------
\* What would keep the process thread from waiting, had it seen it.
Work == \/ queue_ # <<>> \/ stop_
        \/ \E i \in DOMAIN modules_ : modules_[i].next_callback \in {"unset", "immediately"}

\* The process thread never waits for its next checkpoint while there is work to
\* do: the event is set, or a thread that brought the work is about to set it,
\* although the work is added with the lock and the event set without it, and the
\* lock is left while tasks run (process_thread_impl.cc:127, 224).
NoLostWakeUp ==
  process = "waits" /\ Work =>
    wake_up_ \/ app \in {"stops", "sets"} \/ \E c \in Callers : caller[c] = "sets"

Serving == thread_ /\ ~stop_ /\ Running

\* Tasks are posted for ever.  They may be posted faster than they are run, and then
\* the loop over the tasks (process_thread_impl.cc:221), which looks neither at stop_
\* nor at the modules, does not end.
PostsForEver == []<><<Len(queue_') > Len(queue_)>>_vars

\* A posted task is run while the thread is not stopped, without a timeout.
TaskRuns == \A t \in Tasks : t \in Range(queue_) ~> (t \notin Range(queue_) \/ ~Serving)

\* Process is called of a module that another thread, or another module in Process,
\* has woken up, without a timeout, unless the module is deregistered, the thread
\* stopped or tasks posted for ever.  (What a module asks for itself in Process is
\* overwritten when it has returned, process_thread_impl.cc:214.)
WakeUpHeard ==
  PostsForEver \/ \A m \in Modules : m \in woken ~> (m \notin woken \/ ~Serving)

\* Stop returns, without a timeout, unless tasks are posted for ever.
StopReturns == PostsForEver \/ (app = "joins" ~> (app = "idle" \/ ~Running))
=============================================================================
