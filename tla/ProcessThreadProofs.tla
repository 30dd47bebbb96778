--------------------------- MODULE ProcessThreadProofs ---------------------------
(* Work is either ahead of the process thread in its present pass, or someone *)
(* has set, or is about to set, the event that ends its next wait.            *)
EXTENDS ProcessThread, SequenceTheorems, TLAPS

\* Someone has woken the thread, or is about to.
Covered == wake_up_ \/ app \in {"stops", "sets"} \/ \E c \in Callers : caller[c] = "sets"

InPass == process \in {"modules", "calls", "asks", "erased", "tasks", "task", "waits"}
Asks(i) == modules_[i].next_callback \in {"unset", "immediately"}

StopCovered == stop_ /\ InPass => Covered
QueueCovered == process = "waits" /\ queue_ # <<>> => Covered
BehindCovered == process \in {"modules", "calls", "asks", "erased"} =>
                   \A i \in DOMAIN modules_ : i < it /\ Asks(i) => Covered
ModulesCovered == process \in {"tasks", "task", "waits"} =>
                    \A i \in DOMAIN modules_ : Asks(i) => Covered
\* The loop's place, unless the node there has been erased.
AtModule == process \in {"calls", "asks"} => it \in DOMAIN modules_

IInv == /\ TypeOK /\ StopCovered /\ QueueCovered /\ BehindCovered /\ ModulesCovered
        /\ AtModule

\* What the steps of the other threads preserve.
Entry == [module : Modules, next_callback : CallbackTimes]

\* CallImmediately keeps the modules where they are.
LEMMA CallImmediatelyIs ==
  ASSUME TypeOK, NEW m \in Modules
  PROVE  /\ CallImmediately(m) \in Seq(Entry)
         /\ DOMAIN CallImmediately(m) = DOMAIN modules_
         /\ \A i \in DOMAIN modules_ : CallImmediately(m)[i].module = modules_[i].module
<1>1. modules_ \in Seq(Entry) /\ DOMAIN modules_ = 1..Len(modules_) /\ Len(modules_) \in Nat
  BY DEF TypeOK, Entry
<1>2. \A i \in DOMAIN modules_ : modules_[i] \in Entry
  BY <1>1
<1>3. \A i \in DOMAIN modules_ : /\ CallImmediately(m)[i] \in Entry
                                 /\ CallImmediately(m)[i].module = modules_[i].module
  BY <1>2 DEF CallImmediately, Entry, CallbackTimes
<1>4. DOMAIN CallImmediately(m) = 1..Len(modules_)
  BY <1>1 DEF CallImmediately
<1>5. CallImmediately(m) = [i \in 1..Len(modules_) |-> CallImmediately(m)[i]]
  BY <1>1 DEF CallImmediately
<1>6. CallImmediately(m) \in [1..Len(modules_) -> Entry]
  BY <1>1, <1>3, <1>5
<1> QED BY <1>1, <1>3, <1>4, <1>6

\* A list without one of its elements: those behind it move up.
LEMMA RemoveAtIs ==
  ASSUME TypeOK, NEW i \in DOMAIN modules_
  PROVE  /\ RemoveAt(i) \in Seq(Entry) /\ DOMAIN RemoveAt(i) = 1..(Len(modules_) - 1)
         /\ \A j \in 1..(Len(modules_) - 1) :
              RemoveAt(i)[j] = IF j < i THEN modules_[j] ELSE modules_[j + 1]
<1>1. modules_ \in Seq(Entry)
  BY DEF TypeOK, Entry
<1>2. Len(modules_) \in Nat /\ DOMAIN modules_ = 1..Len(modules_) /\ i \in 1..Len(modules_)
  BY <1>1
<1> DEFINE a == SubSeq(modules_, 1, i - 1)
           b == SubSeq(modules_, i + 1, Len(modules_))
<1>3. a \in Seq(Entry) /\ Len(a) = i - 1 /\ \A j \in 1..(i - 1) : a[j] = modules_[j]
  BY <1>1, <1>2
<1>4. /\ b \in Seq(Entry) /\ Len(b) = Len(modules_) - i
      /\ \A j \in 1..(Len(modules_) - i) : b[j] = modules_[i + j]
  BY <1>1, <1>2
<1> HIDE DEF a, b
<1>5. /\ a \o b \in Seq(Entry) /\ Len(a \o b) = Len(a) + Len(b)
      /\ \A j \in 1..(Len(a) + Len(b)) : (a \o b)[j] = IF j <= Len(a) THEN a[j] ELSE b[j - Len(a)]
  BY <1>3, <1>4, ConcatProperties
<1> DEFINE c == a \o b
<1>6. RemoveAt(i) = c
  BY DEF RemoveAt, a, b
<1> HIDE DEF c
<1>7. c \in Seq(Entry) /\ DOMAIN c = 1..(Len(modules_) - 1)
  <2>1. c \in Seq(Entry) /\ Len(c) = Len(a) + Len(b)
    BY <1>5, Zenon DEF c
  <2> QED BY <1>2, <1>3, <1>4, <2>1
<1>8. \A j \in 1..(Len(modules_) - 1) : c[j] = IF j <= i - 1 THEN a[j] ELSE b[j - (i - 1)]
  <2>1. Len(a) + Len(b) = Len(modules_) - 1
    BY <1>2, <1>3, <1>4
  <2> QED BY <1>3, <1>5, <2>1 DEF c
<1>9. ASSUME NEW j \in 1..(Len(modules_) - 1)
      PROVE  c[j] = IF j < i THEN modules_[j] ELSE modules_[j + 1]
  <2>1. CASE j <= i - 1
    <3>1. c[j] = modules_[j] /\ j < i
      BY <1>2, <1>3, <1>8, <2>1
    <3> QED BY <3>1
  <2>2. CASE ~(j <= i - 1)
    <3>1. c[j] = b[j - (i - 1)] /\ j - (i - 1) \in 1..(Len(modules_) - i) /\ ~(j < i)
      BY <1>2, <1>8, <2>2
    <3>2. b[j - (i - 1)] = modules_[i + (j - (i - 1))] /\ i + (j - (i - 1)) = j + 1
      BY <1>2, <1>4, <3>1
    <3> QED BY <3>1, <3>2
  <2> QED BY <2>1, <2>2
<1> QED BY <1>6, <1>7, <1>9

\* The list with the time of one entry changed.
SetTime(i, t) == [modules_ EXCEPT ![i].next_callback = t]

\* It is a list of the same modules in the same places.
LEMMA SetTimeIs ==
  ASSUME TypeOK, NEW i \in DOMAIN modules_, NEW t \in CallbackTimes
  PROVE  /\ SetTime(i, t) \in Seq(Entry) /\ DOMAIN SetTime(i, t) = DOMAIN modules_
         /\ SetTime(i, t)[i].next_callback = t /\ SetTime(i, t)[i].module = modules_[i].module
         /\ \A j \in DOMAIN modules_ : j # i => SetTime(i, t)[j] = modules_[j]
<1> DEFINE s == SetTime(i, t)
<1>1. modules_ \in Seq(Entry) /\ DOMAIN modules_ = 1..Len(modules_)
  BY DEF TypeOK, Entry
<1>2. modules_[i] \in Entry
  BY <1>1
<1>3. [modules_[i] EXCEPT !.next_callback = t] \in Entry
  BY <1>2 DEF Entry
<1>4. s = [modules_ EXCEPT ![i] = [modules_[i] EXCEPT !.next_callback = t]]
  BY <1>1 DEF SetTime
<1> HIDE DEF s
<1>5. DOMAIN s = DOMAIN modules_ /\ s[i] = [modules_[i] EXCEPT !.next_callback = t]
  BY <1>4
<1>6. /\ s \in Seq(Entry) /\ s[i].next_callback = t /\ s[i].module = modules_[i].module
      /\ \A j \in DOMAIN modules_ : j # i => s[j] = modules_[j]
  BY <1>1, <1>2, <1>3, <1>4, <1>5 DEF Entry
<1> QED BY <1>5, <1>6 DEF s

-----------------------------------------------------------------------------
\* The initial state.
LEMMA InitOk == Init => IInv
<1> SUFFICES ASSUME Init PROVE IInv
  OBVIOUS
<1>0. <<>> \in Seq([module : Modules, next_callback : CallbackTimes]) /\ <<>> \in Seq(Tasks)
  OBVIOUS
<1>1. TypeOK
  <2>1. caller \in [Callers -> {"idle", "sets"}] /\ app_module \in Modules
    BY DEF Init
  <2>2. modules_ \in Seq([module : Modules, next_callback : CallbackTimes]) /\ queue_ \in Seq(Tasks)
    BY <1>0 DEF Init
  <2>3. it \in Nat \ {0}
    BY DEF Init
  <2> QED BY <2>1, <2>2, <2>3 DEF Init, TypeOK
<1> QED BY <1>1 DEF Init, IInv, StopCovered, QueueCovered, BehindCovered, ModulesCovered, InPass,
       AtModule

\* The controller thread, apart from the list: it only adds reasons to wake the
\* thread, and leaves the last one when it sets the event.
LEMMA AppOk ==
  ASSUME IInv, \/ Start \/ CreateThread \/ Stop \/ StopWakes \/ JoinThread \/ ResetThread
               \/ RegisterWakes \/ \E m \in Modules : RegisterModule(m)
  PROVE  IInv'
<1>1. modules_' = modules_ /\ queue_' = queue_ /\ caller' = caller /\ it' = it
  BY DEF Start, CreateThread, Stop, StopWakes, JoinThread, ResetThread, RegisterWakes, RegisterModule,
     processVars, appVars
<1>2. TypeOK'
  <2>1. CASE Start
    BY <2>1 DEF IInv, TypeOK, Start, processVars, appVars
  <2>2. CASE CreateThread
    BY <2>2 DEF IInv, TypeOK, CreateThread, processVars, appVars
  <2>3. CASE Stop
    BY <2>3 DEF IInv, TypeOK, Stop, processVars, appVars
  <2>4. CASE StopWakes
    BY <2>4 DEF IInv, TypeOK, StopWakes, processVars, appVars
  <2>5. CASE JoinThread
    BY <2>5 DEF IInv, TypeOK, JoinThread, processVars, appVars
  <2>6. CASE ResetThread
    BY <2>6 DEF IInv, TypeOK, ResetThread, processVars, appVars
  <2>7. CASE RegisterWakes
    BY <2>7 DEF IInv, TypeOK, RegisterWakes, processVars, appVars
  <2>8. ASSUME NEW m \in Modules, RegisterModule(m)
        PROVE  TypeOK'
    BY <2>8 DEF IInv, TypeOK, RegisterModule, processVars, appVars
  <2> QED
    BY <2>1, <2>2, <2>3, <2>4, <2>5, <2>6, <2>7, <2>8, Zenon
<1>3. Covered => Covered'
  BY <1>1 DEF Covered, Start, CreateThread, Stop, StopWakes, JoinThread, ResetThread, RegisterWakes,
     RegisterModule, processVars, appVars
<1>4. process' = process \/ process' \in {"top", "none"}
  BY DEF Start, CreateThread, Stop, StopWakes, JoinThread, ResetThread, RegisterWakes, RegisterModule,
     processVars, appVars
<1>5. stop_' => stop_ \/ Covered'
  BY DEF Covered, Start, CreateThread, Stop, StopWakes, JoinThread, ResetThread, RegisterWakes,
     RegisterModule, processVars, appVars
<1>6. StopCovered'
  BY <1>3, <1>4, <1>5 DEF IInv, StopCovered, InPass
<1>7. QueueCovered' /\ BehindCovered' /\ ModulesCovered' /\ AtModule'
  BY <1>1, <1>3, <1>4 DEF IInv, QueueCovered, BehindCovered, ModulesCovered, AtModule,
     Asks
<1> QED BY <1>2, <1>6, <1>7 DEF IInv

\* Threads that bring work are about to set the event, and have then set it.
LEMMA CallerOk ==
  ASSUME IInv,
         \/ PushModule
         \/ \E c \in Callers : \/ CallerWakes(c)
                               \/ \E t \in Tasks : PostTask(c, t)
                               \/ \E m \in Modules : WakeUp(c, m)
  PROVE  IInv'
<1>1. Covered' /\ UNCHANGED <<stop_, processVars>>
  BY DEF IInv, TypeOK, Covered, PushModule, WakeUp, PostTask, CallerWakes
<1>2. modules_' \in Seq(Entry) /\ queue_' \in Seq(Tasks)
  <2>1. modules_ \in Seq(Entry) /\ queue_ \in Seq(Tasks)
    BY DEF IInv, TypeOK, Entry
  <2>2. CASE PushModule
    BY <2>1, <2>2 DEF PushModule, IInv, TypeOK, Entry, CallbackTimes
  <2>3. CASE \E c \in Callers, m \in Modules : WakeUp(c, m)
    BY <2>1, <2>3, CallImmediatelyIs DEF WakeUp, IInv
  <2>4. CASE \E c \in Callers, t \in Tasks : PostTask(c, t)
    BY <2>1, <2>4 DEF PostTask
  <2>5. CASE \E c \in Callers : CallerWakes(c)
    BY <2>1, <2>5 DEF CallerWakes
  <2> QED BY <2>2, <2>3, <2>4, <2>5
<1>3. TypeOK'
  <2>1. /\ app' \in {"idle", "starts", "stops", "joins", "resets", "registers", "sets"}
        /\ app_module' \in Modules /\ thread_' \in BOOLEAN /\ wake_up_' \in BOOLEAN
        /\ attached' \subseteq Modules /\ woken' \subseteq Modules
        /\ caller' \in [Callers -> {"idle", "sets"}]
    BY DEF IInv, TypeOK, PushModule, WakeUp, PostTask, CallerWakes, appVars
  <2> QED BY <1>1, <1>2, <2>1 DEF IInv, TypeOK, processVars, Entry
<1>4. AtModule'
  <2>1. CASE LockFree
    BY <1>1, <2>1 DEF LockFree, AtModule, processVars
  <2>2. CASE ~LockFree
    <3>1. modules_' = modules_
      BY <2>2 DEF PushModule, WakeUp, PostTask, CallerWakes
    <3> QED BY <1>1, <3>1 DEF IInv, AtModule, processVars
  <2> QED BY <2>1, <2>2
<1> QED BY <1>1, <1>3, <1>4 DEF IInv, StopCovered, QueueCovered, BehindCovered, ModulesCovered

\* Deregistering a module takes place between passes or while a task runs, and
\* removes work only.
LEMMA DeRegisterOk == ASSUME IInv, NEW m \in Modules, DeRegisterModule(m) PROVE IInv'
<1>1. PICK i \in DOMAIN modules_ : modules_' = RemoveAt(i)
  BY DEF DeRegisterModule
<1>2. /\ modules_' \in Seq(Entry)
      /\ \A j \in DOMAIN modules_' : \E k \in DOMAIN modules_ : modules_'[j] = modules_[k]
  <2>1. /\ modules_' \in Seq(Entry) /\ DOMAIN modules_' = 1..(Len(modules_) - 1)
        /\ \A j \in 1..(Len(modules_) - 1) :
             modules_'[j] = IF j < i THEN modules_[j] ELSE modules_[j + 1]
    BY <1>1, RemoveAtIs DEF IInv
  <2>2. DOMAIN modules_ = 1..Len(modules_) /\ Len(modules_) \in Nat
    BY DEF IInv, TypeOK
  <2>3. \A j \in 1..(Len(modules_) - 1) : j \in 1..Len(modules_) /\ j + 1 \in 1..Len(modules_)
    BY <2>2
  <2> QED BY <2>1, <2>2, <2>3
<1>3. TypeOK'
  BY <1>2 DEF IInv, TypeOK, DeRegisterModule, processVars, appVars, Entry
<1>4. /\ Covered' <=> Covered
      /\ process \notin {"modules", "calls", "asks", "erased"}
      /\ UNCHANGED <<queue_, stop_, process>>
  BY DEF Covered, DeRegisterModule, processVars, appVars, LockFree
<1> QED BY <1>2, <1>3, <1>4 DEF IInv, StopCovered, QueueCovered, BehindCovered, ModulesCovered, InPass,
       Asks, AtModule

\* A time that comes is no work for the event.
LEMMA BecomesDueOk == ASSUME IInv, NEW i \in DOMAIN modules_, BecomesDue(i) PROVE IInv'
<1>1. /\ modules_' \in Seq(Entry) /\ DOMAIN modules_' = DOMAIN modules_
      /\ modules_'[i].next_callback = "due"
      /\ \A j \in DOMAIN modules_ : j # i => modules_'[j] = modules_[j]
  <2>1. modules_' = SetTime(i, "due")
    BY DEF BecomesDue, SetTime
  <2> QED BY <2>1, SetTimeIs DEF IInv, CallbackTimes
<1>2. TypeOK'
  BY <1>1 DEF IInv, TypeOK, BecomesDue, processVars, appVars, Entry
<1>3. /\ Covered' <=> Covered
      /\ process \notin {"modules", "calls", "asks", "erased"}
      /\ UNCHANGED <<queue_, stop_, process>>
  BY DEF Covered, BecomesDue, processVars, appVars
<1>4. \A j \in DOMAIN modules_' : Asks(j)' => Asks(j)
  BY <1>1 DEF Asks
<1> QED BY <1>1, <1>2, <1>3, <1>4 DEF IInv, StopCovered, QueueCovered, BehindCovered, ModulesCovered,
       InPass, AtModule

-----------------------------------------------------------------------------
\* The process thread.  A pass begins only when the thread is not to stop.
LEMMA BeginPassOk == ASSUME IInv, BeginPass PROVE IInv'
<1>1. TypeOK'
  BY DEF IInv, TypeOK, BeginPass, appVars
<1>2. process' \in {"exited", "modules"} /\ (process' = "modules" => ~stop_') /\ it' = 1
      /\ modules_' = modules_
  BY DEF BeginPass
<1>3. \A i \in DOMAIN modules_ : ~(i < 1)
  BY DEF IInv, TypeOK
<1> QED BY <1>1, <1>2, <1>3 DEF IInv, StopCovered, QueueCovered, BehindCovered, ModulesCovered, InPass,
       AtModule

\* A module is left behind once it has said when to be called.
LEMMA VisitModuleOk == ASSUME IInv, VisitModule PROVE IInv'
<1>1. PICK next \in {"later", "due", "immediately"} :
        /\ modules_' = [modules_ EXCEPT ![it].next_callback = next]
        /\ next = "later" => process' = "modules" /\ it' = it + 1
        /\ next # "later" => process' = "calls" /\ it' = it
  <2>1. modules_ \in Seq(Entry) /\ it \in 1..Len(modules_)
    BY DEF IInv, TypeOK, VisitModule, Entry
  <2>0. modules_[it] \in Entry
    BY <2>1
  <2>2. modules_[it].next_callback \in CallbackTimes
    BY <2>0 DEF Entry
  <2>3. PICK next \in IF modules_[it].next_callback = "unset" THEN {"later", "due"}
                      ELSE {modules_[it].next_callback} :
          /\ modules_' = [modules_ EXCEPT ![it].next_callback = next]
          /\ IF next \in {"due", "immediately"}
             THEN process' = "calls" /\ it' = it
             ELSE process' = "modules" /\ it' = it + 1
    BY DEF VisitModule
  <2>4. next \in {"later", "due", "immediately"}
    BY <2>2, <2>3 DEF CallbackTimes
  <2> QED BY <2>3, <2>4
<1>2. it \in DOMAIN modules_ /\ it \in Nat /\ DOMAIN modules_ \subseteq Nat
  BY DEF IInv, TypeOK, VisitModule
<1>3. /\ modules_' \in Seq(Entry) /\ DOMAIN modules_' = DOMAIN modules_
      /\ modules_'[it].next_callback = next /\ modules_'[it].module = modules_[it].module
      /\ \A j \in DOMAIN modules_ : j # it => modules_'[j] = modules_[j]
  <2>1. next \in CallbackTimes /\ TypeOK
    BY DEF CallbackTimes, IInv
  <2>2. PICK i \in DOMAIN modules_ : i = it
    BY <1>2
  <2>3. modules_' = SetTime(i, next)
    BY <1>1, <2>2 DEF SetTime
  <2>4. /\ modules_' \in Seq(Entry) /\ DOMAIN modules_' = DOMAIN modules_
        /\ modules_'[i].next_callback = next /\ modules_'[i].module = modules_[i].module
        /\ \A j \in DOMAIN modules_ : j # i => modules_'[j] = modules_[j]
    BY <2>1, <2>3, SetTimeIs
  <2> QED BY <2>2, <2>4
<1>4. modules_[it].module \in Modules /\ it' \in Nat \ {0} /\ woken' \subseteq Modules
      /\ process' \in {"modules", "calls"}
  <2>0. modules_ \in Seq(Entry)
    BY DEF IInv, TypeOK, Entry
  <2>1. modules_[it] \in Entry
    BY <1>2, <2>0
  <2>2. modules_[it].module \in Modules
    BY <2>1 DEF Entry
  <2>3. woken' \subseteq Modules
    BY DEF IInv, TypeOK, VisitModule
  <2> QED BY <1>1, <1>2, <2>2, <2>3 DEF IInv, TypeOK
<1>5. TypeOK'
  BY <1>3, <1>4 DEF IInv, TypeOK, VisitModule, appVars, Entry
<1>6. (Covered' <=> Covered) /\ stop_' = stop_ /\ process = "modules"
  BY DEF VisitModule, Covered, appVars
<1>7. BehindCovered'
  <2> SUFFICES ASSUME NEW j \in DOMAIN modules_', j < it', Asks(j)' PROVE Covered'
    BY DEF BehindCovered
  <2>1. j # it
    BY <1>1, <1>2, <1>3 DEF Asks
  <2>2. j < it /\ Asks(j) /\ j \in DOMAIN modules_
    BY <1>1, <1>2, <1>3, <2>1 DEF Asks
  <2> QED BY <1>6, <2>2 DEF IInv, BehindCovered
<1>8. AtModule'
  BY <1>1, <1>2, <1>3, <1>4 DEF AtModule
<1> QED BY <1>4, <1>5, <1>6, <1>7, <1>8 DEF IInv, StopCovered, QueueCovered, ModulesCovered, InPass

\* What a module requests in Process comes with the event set, unless it is to
\* forget a module; the loop then stays where it is.
LEMMA CallModuleOk == ASSUME IInv, CallModule PROVE IInv'
<1>0. /\ modules_ \in Seq(Entry) /\ queue_ \in Seq(Tasks) /\ wake_up_ \in BOOLEAN
      /\ woken \subseteq Modules /\ attached \subseteq Modules /\ it \in Nat \ {0}
      /\ process = "calls" /\ it \in DOMAIN modules_
      /\ DOMAIN modules_ = 1..Len(modules_) /\ Len(modules_) \in Nat
  BY DEF IInv, TypeOK, Entry, CallModule, AtModule
<1> DEFINE Kept ==
      /\ modules_' \in Seq(Entry) /\ queue_' \in Seq(Tasks) /\ wake_up_' \in BOOLEAN
      /\ woken' \subseteq Modules /\ attached' \subseteq Modules /\ it' \in Nat \ {0}
      /\ process' \in {"asks", "erased"} /\ (process' = "asks" => it' \in DOMAIN modules_')
      /\ wake_up_ => wake_up_'
      /\ \A j \in DOMAIN modules_' : j < it' /\ Asks(j)' =>
           wake_up_' \/ \E k \in DOMAIN modules_ : k < it /\ Asks(k)
<1>1. ASSUME NoRequest PROVE Kept
  BY <1>0, <1>1 DEF NoRequest, Asks
<1>2. ASSUME NEW t \in Tasks, RequestTask(t) PROVE Kept
  BY <1>0, <1>2 DEF RequestTask
<1>3. ASSUME NEW m \in Modules, RequestWakeUp(m) PROVE Kept
  <2>1. /\ CallImmediately(m) \in Seq(Entry) /\ DOMAIN CallImmediately(m) = DOMAIN modules_
    BY CallImmediatelyIs DEF IInv
  <2> QED BY <1>0, <1>3, <2>1 DEF RequestWakeUp
<1>4. ASSUME NEW i \in DOMAIN modules_, RequestDeRegister(i) PROVE Kept
  <2>1. /\ modules_' \in Seq(Entry) /\ DOMAIN modules_' = 1..(Len(modules_) - 1)
        /\ \A j \in 1..(Len(modules_) - 1) :
             modules_'[j] = IF j < i THEN modules_[j] ELSE modules_[j + 1]
    BY <1>4, RemoveAtIs DEF IInv, RequestDeRegister
  <2>2. /\ it' = IF i < it THEN it - 1 ELSE it
        /\ process' = IF i = it THEN "erased" ELSE "asks"
        /\ wake_up_' = wake_up_ /\ queue_' = queue_
        /\ woken' \subseteq Modules /\ attached' \subseteq Modules
    BY <1>0, <1>4 DEF RequestDeRegister
  <2>3. i \in 1..Len(modules_) /\ it \in 1..Len(modules_)
    BY <1>0
  <2>4. it' \in Nat \ {0} /\ (process' = "asks" => it' \in 1..(Len(modules_) - 1))
    <3>1. CASE i < it
      BY <1>0, <2>2, <2>3, <3>1
    <3>2. CASE i = it
      BY <1>0, <2>2, <2>3, <3>2
    <3>3. CASE i > it
      BY <1>0, <2>2, <2>3, <3>3
    <3> QED BY <2>3, <3>1, <3>2, <3>3
  <2>5. ASSUME NEW j \in DOMAIN modules_', j < it', Asks(j)'
        PROVE  \E k \in DOMAIN modules_ : k < it /\ Asks(k)
    <3>1. j \in 1..(Len(modules_) - 1)
      BY <2>1, <2>5
    <3>2. CASE j < i
      <4>1. j \in DOMAIN modules_ /\ j < it /\ modules_'[j] = modules_[j]
        BY <1>0, <2>1, <2>2, <2>3, <2>5, <3>1, <3>2
      <4> QED BY <2>5, <4>1 DEF Asks
    <3>3. CASE ~(j < i)
      <4>1. j + 1 \in DOMAIN modules_ /\ j + 1 < it /\ modules_'[j] = modules_[j + 1]
        BY <1>0, <2>1, <2>2, <2>3, <2>5, <3>1, <3>3
      <4> QED BY <2>5, <4>1 DEF Asks
    <3> QED BY <3>2, <3>3
  <2> QED BY <1>0, <2>1, <2>2, <2>4, <2>5
<1>5. Kept
  <2> HIDE DEF Kept
  <2> QED BY <1>1, <1>2, <1>3, <1>4, Zenon DEF CallModule
<1>6. UNCHANGED <<stop_, thread_, task, appVars, caller>>
  BY DEF CallModule
<1>7. TypeOK'
  BY <1>5, <1>6 DEF IInv, TypeOK, appVars, Entry
<1>8. Covered => Covered'
  BY <1>5, <1>6 DEF Covered, appVars
<1>9. BehindCovered'
  <2> SUFFICES ASSUME NEW j \in DOMAIN modules_', j < it', Asks(j)' PROVE Covered'
    BY DEF BehindCovered
  <2>1. wake_up_' \/ \E k \in DOMAIN modules_ : k < it /\ Asks(k)
    BY <1>5
  <2>2. CASE wake_up_'
    BY <2>2 DEF Covered
  <2>3. CASE \E k \in DOMAIN modules_ : k < it /\ Asks(k)
    BY <1>0, <1>8, <2>3 DEF IInv, BehindCovered
  <2> QED BY <2>1, <2>2, <2>3
<1> QED BY <1>0, <1>5, <1>6, <1>7, <1>8, <1>9 DEF IInv, StopCovered, QueueCovered, ModulesCovered, InPass,
       AtModule

\* The module that was called has said when to be called again.
LEMMA AskModuleOk == ASSUME IInv, AskModule PROVE IInv'
<1>1. PICK next \in {"later", "due"} : modules_' = [modules_ EXCEPT ![it].next_callback = next]
  BY DEF AskModule
<1>2. it \in DOMAIN modules_ /\ it \in Nat /\ DOMAIN modules_ \subseteq Nat
  BY DEF IInv, TypeOK, AskModule, AtModule
<1>3. /\ modules_' \in Seq(Entry) /\ DOMAIN modules_' = DOMAIN modules_
      /\ modules_'[it].next_callback = next
      /\ \A j \in DOMAIN modules_ : j # it => modules_'[j] = modules_[j]
  <2>1. next \in CallbackTimes /\ TypeOK
    BY DEF CallbackTimes, IInv
  <2>2. PICK i \in DOMAIN modules_ : i = it
    BY <1>2
  <2>3. modules_' = SetTime(i, next)
    BY <1>1, <2>2 DEF SetTime
  <2>4. /\ modules_' \in Seq(Entry) /\ DOMAIN modules_' = DOMAIN modules_
        /\ modules_'[i].next_callback = next /\ modules_'[i].module = modules_[i].module
        /\ \A j \in DOMAIN modules_ : j # i => modules_'[j] = modules_[j]
    BY <2>1, <2>3, SetTimeIs
  <2> QED BY <2>2, <2>4
<1>4. TypeOK'
  BY <1>2, <1>3 DEF IInv, TypeOK, AskModule, appVars, Entry
<1>5. /\ Covered' <=> Covered
      /\ process = "asks" /\ process' = "modules" /\ it' = it + 1 /\ stop_' = stop_
  BY DEF AskModule, Covered, appVars
<1>6. BehindCovered'
  <2> SUFFICES ASSUME NEW j \in DOMAIN modules_', j < it', Asks(j)' PROVE Covered'
    BY DEF BehindCovered
  <2>1. j # it
    BY <1>1, <1>3 DEF Asks
  <2>2. j < it /\ Asks(j) /\ j \in DOMAIN modules_
    BY <1>2, <1>3, <1>5, <2>1 DEF Asks
  <2> QED BY <1>5, <2>2 DEF IInv, BehindCovered
<1> QED BY <1>4, <1>5, <1>6 DEF IInv, StopCovered, QueueCovered, ModulesCovered, InPass,
       AtModule

\* Behind a node that was erased nothing has changed.
LEMMA AskErasedOk == ASSUME IInv, AskErased PROVE IInv'
<1>1. /\ process = "erased" /\ process' \in {"modules", "crashed"}
      /\ UNCHANGED <<modules_, queue_, stop_, thread_, wake_up_, attached, it, task, appVars, caller,
                     woken>>
  BY DEF AskErased
<1>2. TypeOK'
  BY <1>1 DEF IInv, TypeOK, appVars
<1>3. Covered' <=> Covered
  BY <1>1 DEF Covered, appVars
<1>4. BehindCovered'
  BY <1>1, <1>3 DEF IInv, BehindCovered, Asks
<1> QED BY <1>1, <1>2, <1>3, <1>4 DEF IInv, StopCovered, QueueCovered, ModulesCovered, InPass, AtModule

\* At the end of the list all modules are behind; tasks and waits leave them alone.
LEMMA TasksOk ==
  ASSUME IInv, EndModules \/ TakeTask \/ RunTask \/ EndTasks \/ Signaled \/ TimedOut
  PROVE  IInv'
<1>1. TypeOK'
  <2>1. queue_ \in Seq(Tasks) /\ (queue_ # <<>> => Head(queue_) \in Tasks /\ Tail(queue_) \in Seq(Tasks))
    BY DEF IInv, TypeOK
  <2> QED BY <2>1 DEF IInv, TypeOK, EndModules, TakeTask, RunTask, EndTasks, Signaled, TimedOut, appVars
<1>2. CASE EndModules
  <2>1. \A i \in DOMAIN modules_ : i < it
    BY <1>2 DEF IInv, TypeOK, EndModules
  <2> QED BY <1>1, <1>2, <2>1 DEF IInv, EndModules, StopCovered, QueueCovered, BehindCovered,
         ModulesCovered, InPass, Asks, Covered, AtModule, appVars
<1>3. CASE TakeTask \/ RunTask \/ EndTasks
  BY <1>1, <1>3 DEF IInv, TakeTask, RunTask, EndTasks, StopCovered, QueueCovered, BehindCovered,
     ModulesCovered, InPass, Asks, Covered, AtModule, appVars
<1>4. CASE Signaled \/ TimedOut
  BY <1>1, <1>4 DEF IInv, Signaled, TimedOut, StopCovered, QueueCovered, BehindCovered,
     ModulesCovered, InPass, AtModule
<1> QED BY <1>2, <1>3, <1>4

-----------------------------------------------------------------------------
\* The invariant is inductive.
LEMMA Inductive == IInv /\ [Next]_vars => IInv'
<1> SUFFICES ASSUME IInv, [Next]_vars PROVE IInv'
  OBVIOUS
<1>1. CASE UNCHANGED vars
  BY <1>1 DEF vars, processVars, appVars, IInv, TypeOK, StopCovered, QueueCovered, BehindCovered,
     ModulesCovered, InPass, Asks, Covered, AtModule
<1>2. CASE ProcessStep \/ TimedOut
  BY <1>2, BeginPassOk, VisitModuleOk, CallModuleOk, AskModuleOk, AskErasedOk, TasksOk
  DEF ProcessStep
<1>3. CASE AppContinues \/ AppBegins
  BY <1>3, AppOk, CallerOk DEF AppContinues, AppBegins
<1>4. CASE CallerBegins \/ \E c \in Callers : CallerContinues(c)
  BY <1>4, CallerOk, DeRegisterOk DEF CallerBegins, CallerContinues
<1>5. CASE \E i \in DOMAIN modules_ : BecomesDue(i)
  BY <1>5, BecomesDueOk
<1> QED BY <1>1, <1>2, <1>3, <1>4, <1>5 DEF Next

\* No wake-up is lost, whatever the modules, the tasks and the threads that bring
\* them: whoever adds work sets the event afterwards, and the thread looks at the
\* work after it has taken the event.
THEOREM NoWakeUpLost == Spec => []NoLostWakeUp
<1>1. IInv => NoLostWakeUp
  BY DEF IInv, NoLostWakeUp, Work, StopCovered, QueueCovered, ModulesCovered, InPass, Asks, Covered
<1> QED BY <1>1, InitOk, Inductive, PTL DEF Spec
=============================================================================
