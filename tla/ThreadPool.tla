------------------------------ MODULE ThreadPool ------------------------------
(***************************************************************************)
(* CThreadPool: the list of functions, the bFree flag and the WaitHandle   *)
(* (a manual-reset event) of each thread, Run, _ThreadProc and Destroy.    *)
(* A critical section of m_cs is one step. A pool is created once, by its  *)
(* constructor or later: Create adds thread after thread, and may fail at  *)
(* any of them. Function pointers and run objects are both "jobs": the     *)
(* first are wrapped in a UserPoolData, the second released by a call.     *)
(* Destroy before Create does nothing that Create does not undo.           *)
(***************************************************************************)
EXTENDS Naturals, FiniteSets, Sequences, SequencesExt

CONSTANTS
    PoolSize,   \* the largest m_nPoolSize
    Clients,    \* threads that call Run
    Jobs,       \* the calls of Run
    Objects,    \* those of the Run that takes an IRunObject
    NoJob

ASSUME PoolAssumption == PoolSize \in Nat \ {0} /\ NoJob \notin Jobs /\ Objects \subseteq Jobs

\* The threads, in the order of their ids, which is that of m_threads.
Threads == 1..PoolSize

VARIABLES
    m_nPoolSize,
    create,       \* Create: no, constructor (runs in it), loop, done, failed, thrown
    functionList, \* m_functionList
    created,      \* number of threads in m_threads
    free,         \* bFree
    event,        \* WaitHandle is signalled
    pc, job,      \* of a pool thread: place in _ThreadProc, function in hand
    submit,       \* job a client is in the middle of Run with
    destroy,      \* progress of Destroy
    isDestroying, \* m_bPoolIsDestroying
    starts,       \* number of times a job was started
    unheard,      \* history: jobs whose Run found nobody it could wake
    eventless,    \* threads whose WaitHandle could not be made
    deleted,      \* jobs whose data Destroy deleted
    disposed,     \* jobs whose data or object a thread deleted or released
    late          \* history: threads past CheckThreadStop when Destroy began

threadVars == <<pc, job>>
poolVars == <<functionList, free, event>>
createVars == <<m_nPoolSize, create, created, unheard, eventless>>
destroyVars == <<destroy, isDestroying, deleted, late>>
vars == <<threadVars, poolVars, createVars, submit, destroyVars, starts, disposed>>

\* The constructor; with bCreateNow Create runs before anybody has the pool.
Init ==
    /\ m_nPoolSize \in 1..PoolSize
    /\ create \in {"no", "constructor"}
    /\ functionList = <<>>
    /\ free = [t \in Threads |-> TRUE]
    /\ event = [t \in Threads |-> FALSE]
    /\ pc = [t \in Threads |-> "none"]
    /\ job = [t \in Threads |-> NoJob]
    /\ submit = [c \in Clients |-> NoJob]
    /\ destroy = "no" /\ isDestroying = FALSE
    /\ starts = [j \in Jobs |-> 0]
    /\ deleted = {} /\ disposed = {} /\ late = {}
    /\ created = 0 /\ unheard = {} /\ eventless = {}

Goto(t, p) == pc' = [pc EXCEPT ![t] = p]

Given == {j \in Jobs : starts[j] > 0} \cup deleted
         \cup {functionList[i] : i \in DOMAIN functionList}
         \cup {job[t] : t \in Threads} \cup {submit[c] : c \in Clients}

-----------------------------------------------------------------------------
(* Create, and Run: two critical sections, the list and then the search    *)
(* for a thread.                                                           *)

\* Create after the constructor; when the event of the shutdown cannot be made it
\* has done nothing, and may be called again.
Create ==
    /\ create = "no" /\ destroy = "no"
    /\ create' = "loop"
    /\ UNCHANGED <<m_nPoolSize, created, unheard, eventless, threadVars, poolVars, submit,
                   destroyVars, starts, disposed>>

\* Only the loop of Create reads what SetPoolSize sets, and it reads it each time.
SetPoolSize(n) ==
    /\ create \in {"no", "loop"} /\ destroy = "no" /\ m_nPoolSize' = n
    /\ UNCHANGED <<create, created, unheard, eventless, threadVars, poolVars, submit,
                   destroyVars, starts, disposed>>

Creating == create \in {"constructor", "loop"} /\ destroy = "no"

\* One round of the loop: the entry of the map, without m_cs, then ResumeThread. The
\* result of CreateEvent is not tested: the entry may have no event.
CreateThread ==
    /\ Creating /\ created < m_nPoolSize
    /\ created' = created + 1
    /\ eventless' \in {eventless, eventless \cup {created + 1}}
    /\ Goto(created + 1, "start")
    /\ UNCHANGED <<m_nPoolSize, create, job, poolVars, submit, destroyVars, starts, unheard,
                   disposed>>

\* The loop is over, or a thread could not be made: the constructor throws,
\* there is no pool any more, and its threads are not followed further.
CreateReturns ==
    /\ Creating
    /\ \/ created >= m_nPoolSize /\ create' = "done"
       \/ created < m_nPoolSize /\ create' = (IF create = "loop" THEN "failed" ELSE "thrown")
    /\ UNCHANGED <<m_nPoolSize, created, unheard, eventless, threadVars, poolVars, submit,
                   destroyVars, starts, disposed>>

Lists(c, j) ==
    /\ submit[c] = NoJob /\ j \notin Given
    /\ destroy = "no" /\ create \notin {"constructor", "thrown"}
    /\ \E list \in {Append(functionList, j), <<j>> \o functionList} :
          functionList' = list
    /\ submit' = [submit EXCEPT ![c] = j]
    /\ UNCHANGED <<threadVars, free, event, createVars, destroyVars, starts, disposed>>

\* A pool that is destroyed is not given functions.
Run(c, j) == j \notin Objects /\ Lists(c, j)
RunObject(c, j) == j \in Objects /\ Lists(c, j)

FreeThreads == {t \in 1..created : free[t]}
FirstFree(t) == t \in FreeThreads /\ \A u \in FreeThreads : t <= u

\* The map holds no thread that can be woken, or Run finds one first that cannot be.
NobodyHears ==
    \/ 1..created \subseteq eventless
    \/ \E t \in eventless : FirstFree(t)

WakeThread_ForgetsEvent(c) ==
    /\ submit[c] # NoJob
    /\ \/ FreeThreads = {} /\ UNCHANGED free
       \/ \E t \in Threads : FirstFree(t) /\ free' = [free EXCEPT ![t] = FALSE]
    /\ unheard' = IF NobodyHears THEN unheard \cup {submit[c]} ELSE unheard
    /\ submit' = [submit EXCEPT ![c] = NoJob]
    /\ UNCHANGED <<functionList, event, m_nPoolSize, create, created, eventless, threadVars,
                   destroyVars, starts, disposed>>

\* The first free thread of the map is marked and its event set, if it has one.
MarkFirstFree ==
    \/ FreeThreads = {} /\ UNCHANGED <<free, event>>
    \/ \E t \in Threads :
          /\ FirstFree(t)
          /\ free' = [free EXCEPT ![t] = FALSE]
          /\ event' = IF t \in eventless THEN event ELSE [event EXCEPT ![t] = TRUE]

\* Before Create the map is empty; nobody looks for the function later.
WakeThread(c) ==
    /\ submit[c] # NoJob
    /\ MarkFirstFree
    /\ unheard' = IF NobodyHears THEN unheard \cup {submit[c]} ELSE unheard
    /\ submit' = [submit EXCEPT ![c] = NoJob]
    /\ UNCHANGED <<functionList, m_nPoolSize, create, created, eventless, threadVars,
                   destroyVars, starts, disposed>>

-----------------------------------------------------------------------------
(* _ThreadProc. *)

\* The handles of the wait are open.
Handles == destroy \notin {"closed", "freed", "done"}

\* Of GetWaitHandle and GetShutdownHandle; without an entry or an event, or with the
\* handles closed, the wait fails at once.
GetHandles(t) ==
    /\ pc[t] = "start" /\ create # "thrown"
    /\ Goto(t, IF destroy = "done" \/ t \in eventless THEN "exited" ELSE "wait")
    /\ UNCHANGED <<createVars, job, poolVars, submit, destroyVars, starts, disposed>>

\* WaitForMultipleObjects: the thread's own event comes first.
Wake(t) ==
    /\ pc[t] = "wait" /\ Handles /\ event[t]
    /\ Goto(t, "check")
    /\ UNCHANGED <<createVars, job, poolVars, submit, destroyVars, starts, disposed>>

\* The shutdown event, or a handle that Destroy closed.
WakeToExit(t) ==
    /\ pc[t] = "wait"
    /\ ~Handles \/ (destroy # "no" /\ ~event[t])
    /\ Goto(t, "exited")
    /\ UNCHANGED <<createVars, job, poolVars, submit, destroyVars, starts, disposed>>

CheckThreadStop(t) ==
    /\ pc[t] = "check"
    /\ Goto(t, IF isDestroying THEN "exited" ELSE "fetch")
    /\ UNCHANGED <<createVars, job, poolVars, submit, destroyVars, starts, disposed>>

GetThreadProc(t) ==
    /\ pc[t] = "fetch"
    /\ IF functionList = <<>>
       THEN Goto(t, "finish") /\ UNCHANGED <<job, functionList>>
       ELSE /\ job' = [job EXCEPT ![t] = Head(functionList)]
            /\ functionList' = Tail(functionList)
            /\ Goto(t, "busy")
    /\ UNCHANGED <<createVars, free, event, submit, destroyVars, starts, disposed>>

\* BusyNotify, then the call of the function. Once Destroy has emptied
\* m_threads the thread is in no map, and nothing is marked.
BusyNotify(t) ==
    /\ pc[t] = "busy"
    /\ free' = IF destroy = "done" THEN free ELSE [free EXCEPT ![t] = FALSE]
    /\ starts' = [starts EXCEPT ![job[t]] = @ + 1]
    /\ Goto(t, "run")
    /\ UNCHANGED <<createVars, job, functionList, event, submit, destroyVars, disposed>>

\* The function returns, and its UserPoolData is deleted or its object released.
\* DeleteData has left NULL in their place: a function runs with NULL, which is
\* deleted without effect, and the call of an object through NULL never returns.
Return(t) ==
    /\ pc[t] = "run" /\ job[t] \notin Objects \cap deleted
    /\ disposed' = disposed \cup ({job[t]} \ deleted)
    /\ job' = [job EXCEPT ![t] = NoJob]
    /\ Goto(t, "wait")
    /\ UNCHANGED <<createVars, poolVars, submit, destroyVars, starts>>

FinishNotify_AlwaysResets(t) ==
    /\ pc[t] = "finish"
    /\ free' = [free EXCEPT ![t] = TRUE]
    /\ event' = [event EXCEPT ![t] = FALSE]
    /\ Goto(t, "wait")
    /\ UNCHANGED <<createVars, functionList, job, submit, destroyVars, starts, disposed>>

\* bFree again; back to sleep only if the list is still empty.
FinishNotify(t) ==
    /\ pc[t] = "finish"
    /\ IF destroy = "done"
       THEN UNCHANGED <<free, event>>
       ELSE /\ free' = [free EXCEPT ![t] = TRUE]
            /\ event' = [event EXCEPT ![t] = functionList # <<>>]
    /\ Goto(t, "wait")
    /\ UNCHANGED <<createVars, functionList, job, submit, destroyVars, starts, disposed>>

-----------------------------------------------------------------------------
(* Destroy: none of its steps takes m_cs. When a thread is marked working  *)
(* it sleeps for m_nWaitForThreadsToDieMS, and goes on whether the threads *)
(* are done or not.                                                        *)

GetWorkingThreadCount == Cardinality({t \in 1..created : ~free[t]})

BeginDestroy ==
    /\ destroy = "no" /\ \A c \in Clients : submit[c] = NoJob
    /\ create \in {"done", "failed"}
    /\ isDestroying' = TRUE /\ late' = {t \in Threads : pc[t] = "fetch"}
    /\ destroy' = IF GetWorkingThreadCount > 0 THEN "sleeping" ELSE "notified"
    /\ UNCHANGED <<createVars, threadVars, poolVars, submit, deleted, starts, disposed>>

Sleep ==
    /\ destroy = "sleeping"
    /\ destroy' = "notified"
    /\ UNCHANGED <<createVars, threadVars, poolVars, submit, isDestroying, deleted, late, starts,
                   disposed>>

CloseHandles ==
    /\ destroy = "notified"
    /\ destroy' = "closed"
    /\ UNCHANGED <<createVars, threadVars, poolVars, submit, isDestroying, deleted, late, starts,
                   disposed>>

\* Each pData is deleted and set to NULL; the entries stay in the list.
DeleteData ==
    /\ destroy = "closed"
    /\ deleted' = {functionList[i] : i \in DOMAIN functionList}
    /\ destroy' = "freed"
    /\ UNCHANGED <<createVars, threadVars, poolVars, submit, isDestroying, late, starts, disposed>>

ClearLists ==
    /\ destroy = "freed"
    /\ functionList' = <<>>
    /\ destroy' = "done"
    /\ UNCHANGED <<createVars, threadVars, free, event, submit, isDestroying, deleted, late, starts,
                   disposed>>

Destroy == BeginDestroy \/ Sleep \/ CloseHandles \/ DeleteData \/ ClearLists

-----------------------------------------------------------------------------
\* A thread goes on, except for the return of the function it runs.
Continue(t) ==
    \/ GetHandles(t) \/ Wake(t) \/ WakeToExit(t) \/ CheckThreadStop(t) \/ GetThreadProc(t)
    \/ BusyNotify(t) \/ FinishNotify(t)

\* Nobody is in the middle of an operation: threads sleep, run a function or
\* are gone, and nobody has to call Run or Destroy.
AtRest ==
    /\ \A t \in Threads : pc[t] \in {"none", "wait", "run", "exited"}
    /\ \A c \in Clients : submit[c] = NoJob
    /\ UNCHANGED vars

Next ==
    \/ \E c \in Clients : WakeThread(c) \/ \E j \in Jobs : Run(c, j) \/ RunObject(c, j)
    \/ \E t \in Threads : Continue(t) \/ Return(t)
    \/ Create \/ CreateThread \/ CreateReturns \/ Destroy \/ AtRest
    \/ \E n \in 1..PoolSize : SetPoolSize(n)

Spec == Init /\ [][Next]_vars

\* Threads of the pool and callers of Run are scheduled, and functions return;
\* nobody has to call Create, Run or Destroy.
Fairness ==
    /\ \A t \in Threads : WF_vars(Continue(t)) /\ WF_vars(Return(t))
    /\ \A c \in Clients : WF_vars(WakeThread(c))

FairSpec == Spec /\ Fairness

-----------------------------------------------------------------------------
(* Properties. *)

\* The state has the declared types, and a thread has a job in hand exactly
\* between GetThreadProc and the deletion of the job's data.
TypeOK ==
    /\ functionList \in Seq(Jobs)
    /\ free \in [Threads -> BOOLEAN] /\ event \in [Threads -> BOOLEAN]
    /\ pc \in [Threads -> {"none", "start", "wait", "check", "fetch", "busy", "run",
                           "finish", "exited"}]
    /\ job \in [Threads -> Jobs \cup {NoJob}]
    /\ \A t \in Threads : job[t] # NoJob <=> pc[t] \in {"busy", "run"}
    /\ submit \in [Clients -> Jobs \cup {NoJob}]
    /\ created \in 0..PoolSize /\ unheard \subseteq Jobs /\ eventless \subseteq Threads
    /\ \A t \in Threads : pc[t] = "none" <=> t > created
    /\ destroy \in {"no", "sleeping", "notified", "closed", "freed", "done"}
    /\ isDestroying \in BOOLEAN
    /\ starts \in [Jobs -> Nat] /\ deleted \subseteq Jobs /\ disposed \subseteq Jobs
    /\ m_nPoolSize \in 1..PoolSize /\ late \subseteq Threads
    /\ create \in {"no", "constructor", "loop", "done", "failed", "thrown"}

Queued(j) == Contains(functionList, j)
InHand(j) == {t \in Threads : job[t] = j}

\* However many threads wake for one job and however Destroy interferes, a
\* job is in one place: listed once, in the hands of one thread, or started
\* and never started again.
StartedOnce ==
    \A j \in Jobs :
        /\ starts[j] <= 1
        /\ Cardinality({i \in DOMAIN functionList : functionList[i] = j})
               + Cardinality(InHand(j)) <= 1
        /\ Queued(j) => starts[j] = 0

\* No wake-up is lost, also while Create is adding threads: for each function in the
\* list some thread will look at the list, or the Run that listed it is still to
\* wake one, or everything is being destroyed. Only a function given when no thread
\* could be woken may be left behind.
NoLostWakeup ==
    destroy = "no" =>
        \A i \in DOMAIN functionList :
            \/ functionList[i] \in unheard
            \/ \E t \in Threads : event[t]
            \/ \E c \in Clients : submit[c] = functionList[i]

\* A thread that sleeps is marked free, so that Run can find it: no thread
\* is lost to the pool, until Destroy drops the whole map.
SleepersAreFree ==
    destroy # "done" => \A t \in Threads : pc[t] = "wait" /\ ~event[t] => free[t]

\* With functions that return, there comes a time when every job has been started but
\* those whose Run could wake nobody, and these are started with the next one, as a
\* thread that woke goes on until the list is empty; or the pool is destroyed.
Waiting == {j \in Jobs : starts[j] = 0 /\ (Queued(j) \/ InHand(j) # {})}
AllStarted ==
    /\ Waiting # {} ~> Waiting \subseteq unheard \/ isDestroying
    /\ Waiting # {} /\ (\E t \in Threads : event[t]) ~> Waiting = {} \/ isDestroying

\* Destroy does not wait for its threads: a function whose data it deleted is run all
\* the same, with NULL, only by a thread that was past CheckThreadStop when Destroy
\* began, by each of them at most one.
DeletedAreRare ==
    /\ \A t \in Threads : job[t] \in deleted => t \in late
    /\ Cardinality({j \in deleted : starts[j] > 0}) <= Cardinality(late)

\* What a thread took it disposes of, once it returned from it, and only that, unless
\* Destroy did: nothing is deleted twice. What is in the list when everybody is gone
\* was deleted by Destroy.
DisposedAfterRun ==
    /\ \A j \in disposed : starts[j] = 1 /\ InHand(j) = {} /\ j \notin deleted
    /\ \A j \in Jobs : starts[j] = 1 => j \in disposed \cup deleted \/ InHand(j) # {}
    /\ destroy = "done" => functionList = <<>>

\* A Create that succeeded made as many threads as were asked for, though the
\* number may change while it runs; a constructor that runs it lets nobody in
\* before there is a thread.
CreatedEnough ==
    /\ create = "done" => created >= m_nPoolSize
    /\ create \in {"constructor", "thrown"} => functionList = <<>> /\ unheard = {}

\* The pool: functions are taken once, and no thread that could take one sleeps.
PoolIsSound ==
    /\ TypeOK /\ StartedOnce /\ NoLostWakeup /\ SleepersAreFree
    /\ DeletedAreRare /\ DisposedAfterRun /\ CreatedEnough

=============================================================================
