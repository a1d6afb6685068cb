--------------------------- MODULE MCWorkers_proofs ---------------------------
(***************************************************************************)
(* Proofs about the modules of MCWorkers, for every value of the           *)
(* constants. ThreadPool: PoolIsSound, whatever the size of the pool, the  *)
(* clients and the jobs. PtTable: TableIsSound and the refinement of       *)
(* FiniteMap, whatever the chains, GUIDs and contexts. MarketServer:       *)
(* MarketIsSound, whatever the connections, quotes and losses.             *)
(***************************************************************************)
EXTENDS MCWorkers, FiniteSetTheorems, TLAPS

-----------------------------------------------------------------------------
(* ThreadPool.                                                             *)

-----------------------------------------------------------------------------
(* The inductive invariant.                                                *)

Elements(s) == {s[i] : i \in DOMAIN s}
NoDuplicates(s) == \A i, k \in DOMAIN s : s[i] = s[k] => i = k
Listed == Elements(functionList)

\* A listed function is nobody's and was never started; one in a thread's hand is
\* no other thread's, and is started when the thread is past BusyNotify.
JobsArePlaced ==
    /\ NoDuplicates(functionList)
    /\ \A j \in Listed : starts[j] = 0
    /\ \A t \in Threads : job[t] # NoJob =>
          /\ job[t] \notin Listed /\ job[t] \notin disposed
          /\ starts[job[t]] = (IF pc[t] = "busy" THEN 0 ELSE 1)
          /\ \A u \in Threads : job[u] = job[t] => u = t
    /\ \A j \in Jobs : starts[j] \in {0, 1}
    /\ \A j \in disposed : starts[j] = 1 /\ j \notin deleted
    /\ \A j \in Jobs :
          starts[j] = 1 => j \in disposed \cup deleted \/ \E t \in Threads : job[t] = j

\* A thread at work still has the event that woke it, and so has one that is not
\* marked free, unless it never had one: then it is gone at once.
AwakeHaveEvent ==
    \A t \in Threads :
        /\ pc[t] \in {"check", "fetch", "busy", "run", "finish"} => event[t]
        /\ ~free[t] => event[t] \/ t \in eventless
        /\ t \in eventless => ~event[t] /\ pc[t] \in {"start", "exited"}
        /\ pc[t] = "none" => ~event[t]

\* Destroy: who is past CheckThreadStop, and what it deleted.
Destroying ==
    /\ isDestroying <=> destroy # "no"
    /\ destroy # "no" => \A t \in Threads : pc[t] = "fetch" => t \in late
    /\ destroy = "no" => late = {}
    /\ destroy \notin {"freed", "done"} => deleted = {}
    /\ destroy = "freed" => Listed \subseteq deleted
    /\ destroy = "done" => functionList = <<>>
    /\ \A t \in Threads : job[t] \in deleted => t \in late

\* The deleted functions that were started, and the late threads that may still
\* start one.
StartedDeleted == {j \in deleted : starts[j] = 1}
MayStart == {t \in late : pc[t] \in {"fetch", "busy"}}
LateOnes ==
    /\ IsFiniteSet(StartedDeleted)
    /\ Cardinality(StartedDeleted) + Cardinality(MayStart) <= Cardinality(late)

\* Nobody has a pool whose constructor runs or threw.
Unborn ==
    create \in {"constructor", "thrown"} => \A c \in Clients : submit[c] = NoJob

PoolInv ==
    /\ TypeOK /\ JobsArePlaced /\ AwakeHaveEvent /\ NoLostWakeup
    /\ Destroying /\ LateOnes /\ CreatedEnough /\ Unborn

-----------------------------------------------------------------------------
(* The steps keep it.                                                     *)

\* Run adds a function at either end of the list.
LEMMA AddedToList ==
    ASSUME NEW S, NEW s \in Seq(S), NEW j \in S,
           NEW r, r = Append(s, j) \/ r = <<j>> \o s
    PROVE  /\ r \in Seq(S) /\ r # <<>> /\ Elements(r) = Elements(s) \cup {j}
           /\ NoDuplicates(s) /\ j \notin Elements(s) => NoDuplicates(r)
<1>1. CASE r = Append(s, j)
  <2>1. /\ Len(r) = Len(s) + 1 /\ r \in Seq(S) /\ r[Len(s) + 1] = j
        /\ \A i \in 1..Len(s) : r[i] = s[i]
    BY <1>1
  <2> QED  BY <2>1 DEF Elements, NoDuplicates
<1>2. CASE r = <<j>> \o s
  <2>1. /\ Len(r) = Len(s) + 1 /\ r \in Seq(S) /\ r[1] = j
        /\ \A i \in 1..Len(s) : r[i + 1] = s[i]
    BY <1>2
  <2>2. \A i \in 2..Len(r) : i - 1 \in 1..Len(s) /\ r[i] = s[i - 1]
    BY <2>1
  <2>3. DOMAIN r = 1..Len(r) /\ DOMAIN s = 1..Len(s) /\ Len(s) \in Nat
    BY <2>1
  <2>4. \A i \in DOMAIN r : i = 1 \/ i \in 2..Len(r)
    BY <2>1, <2>3
  <2>5. \A i \in DOMAIN s : i + 1 \in DOMAIN r /\ r[i + 1] = s[i]
    BY <2>1, <2>3
  <2>6. 1 \in DOMAIN r
    BY <2>1, <2>3
  <2>7. Elements(r) \subseteq Elements(s) \cup {j}
    <3>1. ASSUME NEW i \in DOMAIN r PROVE r[i] \in Elements(s) \cup {j}
      <4>1. CASE i = 1  BY <2>1, <4>1
      <4>2. CASE i \in 2..Len(r)  BY <2>2, <2>3, <4>2 DEF Elements
      <4> QED  BY <2>4, <4>1, <4>2
    <3> QED  BY <3>1 DEF Elements
  <2>8. Elements(s) \cup {j} \subseteq Elements(r)
    BY <2>1, <2>5, <2>6 DEF Elements
  <2>9. ASSUME NoDuplicates(s), j \notin Elements(s),
               NEW i \in DOMAIN r, NEW k \in DOMAIN r, r[i] = r[k]
        PROVE  i = k
    <3>1. CASE i = 1 /\ k = 1  BY <3>1
    <3>2. CASE i = 1 /\ k \in 2..Len(r)
      BY <2>1, <2>2, <2>3, <2>9, <3>2 DEF Elements
    <3>3. CASE i \in 2..Len(r) /\ k = 1
      BY <2>1, <2>2, <2>3, <2>9, <3>3 DEF Elements
    <3>4. CASE i \in 2..Len(r) /\ k \in 2..Len(r)
      <4>1. i - 1 = k - 1  BY <2>2, <2>3, <2>9, <3>4 DEF NoDuplicates
      <4> QED  BY <4>1
    <3> QED  BY <2>4, <3>1, <3>2, <3>3, <3>4
  <2> QED  BY <2>1, <2>7, <2>8, <2>9 DEF NoDuplicates
<1> QED  BY <1>1, <1>2

\* GetThreadProc takes the first function of the list.
LEMMA TakenFromList ==
    ASSUME NEW S, NEW s \in Seq(S), s # <<>>
    PROVE  /\ Head(s) \in S /\ Head(s) \in Elements(s)
           /\ Tail(s) \in Seq(S) /\ Elements(Tail(s)) \subseteq Elements(s)
           /\ NoDuplicates(s) => /\ NoDuplicates(Tail(s))
                                 /\ Elements(Tail(s)) = Elements(s) \ {Head(s)}
<1>1. /\ Len(s) \in Nat \ {0} /\ Head(s) = s[1] /\ Head(s) \in S
      /\ Tail(s) \in Seq(S) /\ Len(Tail(s)) = Len(s) - 1
      /\ \A i \in 1..(Len(s) - 1) : Tail(s)[i] = s[i + 1]
  OBVIOUS
<1>2. \A i \in 2..Len(s) : i - 1 \in DOMAIN Tail(s) /\ s[i] = Tail(s)[i - 1]
  BY <1>1
<1>3. /\ DOMAIN s = 1..Len(s) /\ DOMAIN Tail(s) = 1..(Len(s) - 1) /\ 1 \in DOMAIN s
      /\ \A i \in DOMAIN Tail(s) : i + 1 \in DOMAIN s /\ Tail(s)[i] = s[i + 1]
  BY <1>1
<1>4. \A i \in DOMAIN s : i = 1 \/ i \in 2..Len(s)
  BY <1>1, <1>3
<1>5. Head(s) \in Elements(s) /\ Elements(Tail(s)) \subseteq Elements(s)
  BY <1>1, <1>3 DEF Elements
<1>6. Elements(s) \ {Head(s)} \subseteq Elements(Tail(s))
  <2>1. ASSUME NEW i \in DOMAIN s, s[i] # Head(s) PROVE s[i] \in Elements(Tail(s))
    <3>1. i \in 2..Len(s)  BY <1>1, <1>4, <2>1
    <3> QED  BY <1>2, <3>1 DEF Elements
  <2> QED  BY <2>1 DEF Elements
<1>7. ASSUME NoDuplicates(s) PROVE NoDuplicates(Tail(s)) /\ Head(s) \notin Elements(Tail(s))
  <2>1. ASSUME NEW i \in DOMAIN Tail(s), NEW k \in DOMAIN Tail(s), Tail(s)[i] = Tail(s)[k]
        PROVE  i = k
    <3>1. i + 1 = k + 1  BY <1>3, <1>7, <2>1 DEF NoDuplicates
    <3> QED  BY <1>3, <3>1
  <2>2. ASSUME NEW i \in DOMAIN Tail(s), Tail(s)[i] = Head(s) PROVE FALSE
    <3>1. i + 1 = 1  BY <1>1, <1>3, <1>7, <2>2 DEF NoDuplicates
    <3> QED  BY <1>3, <3>1
  <2> QED  BY <2>1, <2>2 DEF NoDuplicates, Elements
<1> QED  BY <1>1, <1>5, <1>6, <1>7

\* The set of the listed functions changes with the list only.
LEMMA SameList == functionList' = functionList => Listed' = Listed
BY DEF Listed

\* What Run and GetThreadProc do to the list.
LEMMA ListGrows ==
    ASSUME TypeOK, NEW c \in Clients, NEW j \in Jobs, Lists(c, j)
    PROVE  /\ Listed' = Listed \cup {j} /\ j \notin Listed /\ functionList' # <<>>
           /\ NoDuplicates(functionList) => NoDuplicates(functionList')
<1>1. functionList \in Seq(Jobs) /\ j \notin Listed
  BY DEF TypeOK, Lists, Given, Listed, Elements
<1>2. functionList' = Append(functionList, j) \/ functionList' = <<j>> \o functionList
  BY DEF Lists
<1>3. /\ functionList' # <<>>
      /\ Elements(functionList') = Elements(functionList) \cup {j}
      /\ NoDuplicates(functionList) /\ j \notin Elements(functionList)
             => NoDuplicates(functionList')
  BY <1>1, <1>2, AddedToList
<1> QED  BY <1>1, <1>3 DEF Listed

\* Removing a function from the list leaves the others in their order.
LEMMA ListShrinks ==
    ASSUME TypeOK, NEW t \in Threads, GetThreadProc(t), functionList # <<>>
    PROVE  /\ functionList' \in Seq(Jobs) /\ job'[t] \in Listed /\ Listed' \subseteq Listed
           /\ job' = [job EXCEPT ![t] = job'[t]]
           /\ NoDuplicates(functionList) => /\ NoDuplicates(functionList')
                                            /\ job'[t] \notin Listed'
<1>1. functionList \in Seq(Jobs) /\ job \in [Threads -> Jobs \cup {NoJob}]
  BY DEF TypeOK
<1>2. functionList' = Tail(functionList) /\ job' = [job EXCEPT ![t] = Head(functionList)]
  BY DEF GetThreadProc
<1>3. job'[t] = Head(functionList)
  BY <1>1, <1>2
<1>4. /\ Head(functionList) \in Elements(functionList)
      /\ functionList' \in Seq(Jobs)
      /\ Elements(functionList') \subseteq Elements(functionList)
      /\ NoDuplicates(functionList) =>
            /\ NoDuplicates(functionList')
            /\ Elements(functionList') = Elements(functionList) \ {Head(functionList)}
  BY <1>1, <1>2, TakenFromList
<1> QED  BY <1>2, <1>3, <1>4 DEF Listed

\* The steps of the pool.
LEMMA PoolCases ==
    [Next]_vars =>
        \/ \E c \in Clients : WakeThread(c)
        \/ \E c \in Clients, j \in Jobs : Lists(c, j)
        \/ \E t \in Threads : GetHandles(t)
        \/ \E t \in Threads : Wake(t)
        \/ \E t \in Threads : WakeToExit(t)
        \/ \E t \in Threads : CheckThreadStop(t)
        \/ \E t \in Threads : GetThreadProc(t)
        \/ \E t \in Threads : BusyNotify(t)
        \/ \E t \in Threads : FinishNotify(t)
        \/ \E t \in Threads : Return(t)
        \/ Create
        \/ CreateThread
        \/ CreateReturns
        \/ BeginDestroy
        \/ Sleep
        \/ CloseHandles
        \/ DeleteData
        \/ ClearLists
        \/ \E n \in 1..PoolSize : SetPoolSize(n)
        \/ UNCHANGED vars
BY DEF Next, Continue, Destroy, AtRest, Run, RunObject

\* Types.
LEMMA TypeStep ==
    TypeOK /\ [Next]_vars
        => TypeOK'
<1> SUFFICES ASSUME TypeOK, [Next]_vars
             PROVE  TypeOK'
  OBVIOUS
<1> USE PoolAssumption DEF TypeOK, Threads, threadVars, poolVars, createVars, destroyVars
<1>1. ASSUME NEW c \in Clients, WakeThread(c) PROVE TypeOK'
  BY <1>1 DEF WakeThread, MarkFirstFree, FirstFree, FreeThreads
<1>2. ASSUME NEW c \in Clients, NEW j \in Jobs, Lists(c, j) PROVE TypeOK'
  <2>1. functionList' \in Seq(Jobs)
    BY <1>2, AddedToList DEF Lists
  <2> QED  BY <1>2, <2>1 DEF Lists
<1>3. ASSUME NEW t \in Threads, GetHandles(t) PROVE TypeOK'
  BY <1>3 DEF GetHandles, Goto
<1>4. ASSUME NEW t \in Threads, Wake(t) PROVE TypeOK'
  BY <1>4 DEF Wake, Goto
<1>5. ASSUME NEW t \in Threads, WakeToExit(t) PROVE TypeOK'
  BY <1>5 DEF WakeToExit, Goto
<1>6. ASSUME NEW t \in Threads, CheckThreadStop(t) PROVE TypeOK'
  BY <1>6 DEF CheckThreadStop, Goto
<1>7. ASSUME NEW t \in Threads, GetThreadProc(t) PROVE TypeOK'
  <2>1. CASE functionList = <<>>  BY <1>7, <2>1 DEF GetThreadProc, Goto
  <2>2. CASE functionList # <<>>
    <3>1. Head(functionList) \in Jobs /\ Tail(functionList) \in Seq(Jobs)
      BY <2>2, TakenFromList
    <3>2. /\ pc[t] = "fetch" /\ pc' = [pc EXCEPT ![t] = "busy"]
          /\ job' = [job EXCEPT ![t] = Head(functionList)]
          /\ functionList' = Tail(functionList)
          /\ UNCHANGED <<createVars, free, event, submit, destroyVars, starts, disposed>>
      BY <1>7, <2>2 DEF GetThreadProc, Goto
    <3> QED  BY <3>1, <3>2
  <2> QED  BY <2>1, <2>2
<1>8. ASSUME NEW t \in Threads, BusyNotify(t) PROVE TypeOK'
  BY <1>8 DEF BusyNotify, Goto
<1>9. ASSUME NEW t \in Threads, FinishNotify(t) PROVE TypeOK'
  BY <1>9 DEF FinishNotify, Goto
<1>10. ASSUME NEW t \in Threads, Return(t) PROVE TypeOK'
  BY <1>10 DEF Return, Goto
<1>11. CASE Create
  BY <1>11 DEF Create
<1>12. CASE CreateThread
  BY <1>12 DEF CreateThread, Creating, Goto
<1>13. CASE CreateReturns
  BY <1>13 DEF CreateReturns, Creating
<1>14. CASE BeginDestroy
  BY <1>14 DEF BeginDestroy
<1>15. CASE Sleep
  BY <1>15 DEF Sleep
<1>16. CASE CloseHandles
  BY <1>16 DEF CloseHandles
<1>17. CASE DeleteData
  BY <1>17 DEF DeleteData
<1>18. CASE ClearLists
  BY <1>18 DEF ClearLists
<1>19. ASSUME NEW n \in 1..PoolSize, SetPoolSize(n) PROVE TypeOK'
  BY <1>19 DEF SetPoolSize
<1>20. CASE UNCHANGED vars
  BY <1>20 DEF vars, threadVars, poolVars, createVars, destroyVars
<1> QED
  BY <1>1, <1>2, <1>3, <1>4, <1>5, <1>6, <1>7, <1>8, <1>9, <1>10, <1>11, <1>12, <1>13,
     <1>14, <1>15, <1>16, <1>17, <1>18, <1>19, <1>20, PoolCases

\* No thread at work, or marked as working, loses its event.
LEMMA AwakeStep ==
    TypeOK /\ AwakeHaveEvent /\ [Next]_vars
        => AwakeHaveEvent'
<1> SUFFICES ASSUME TypeOK /\ AwakeHaveEvent, [Next]_vars
             PROVE  AwakeHaveEvent'
  OBVIOUS
<1> USE PoolAssumption DEF TypeOK, Threads, threadVars, poolVars, createVars, destroyVars,
        AwakeHaveEvent
<1>1. ASSUME NEW c \in Clients, WakeThread(c) PROVE AwakeHaveEvent'
  <2>1. CASE UNCHANGED <<free, event>>
    BY <1>1, <2>1 DEF WakeThread
  <2>2. ASSUME NEW t \in Threads, t <= created, free' = [free EXCEPT ![t] = FALSE],
               event' = IF t \in eventless THEN event ELSE [event EXCEPT ![t] = TRUE]
        PROVE  AwakeHaveEvent'
    <3>1. UNCHANGED <<pc, eventless>>
      BY <1>1 DEF WakeThread
    <3>2. CASE t \in eventless
      BY <2>2, <3>1, <3>2
    <3>3. CASE t \notin eventless
      BY <2>2, <3>1, <3>3
    <3> QED  BY <3>2, <3>3
  <2> QED  BY <1>1, <2>1, <2>2 DEF WakeThread, MarkFirstFree, FirstFree, FreeThreads
<1>2. ASSUME NEW c \in Clients, NEW j \in Jobs, Lists(c, j) PROVE AwakeHaveEvent'
  BY <1>2 DEF Lists, Given
<1>3. ASSUME NEW t \in Threads, GetHandles(t) PROVE AwakeHaveEvent'
  BY <1>3 DEF GetHandles, Goto
<1>4. ASSUME NEW t \in Threads, Wake(t) PROVE AwakeHaveEvent'
  BY <1>4 DEF Wake, Goto
<1>5. ASSUME NEW t \in Threads, WakeToExit(t) PROVE AwakeHaveEvent'
  BY <1>5 DEF WakeToExit, Goto
<1>6. ASSUME NEW t \in Threads, CheckThreadStop(t) PROVE AwakeHaveEvent'
  BY <1>6 DEF CheckThreadStop, Goto
<1>7. ASSUME NEW t \in Threads, GetThreadProc(t) PROVE AwakeHaveEvent'
  BY <1>7 DEF GetThreadProc, Goto
<1>8. ASSUME NEW t \in Threads, BusyNotify(t) PROVE AwakeHaveEvent'
  BY <1>8 DEF BusyNotify, Goto
<1>9. ASSUME NEW t \in Threads, FinishNotify(t) PROVE AwakeHaveEvent'
  BY <1>9 DEF FinishNotify, Goto
<1>10. ASSUME NEW t \in Threads, Return(t) PROVE AwakeHaveEvent'
  BY <1>10 DEF Return, Goto
<1>11. CASE Create
  BY <1>11 DEF Create
<1>12. CASE CreateThread
  <2>1. /\ created + 1 \in Threads /\ pc[created + 1] = "none"
        /\ pc' = [pc EXCEPT ![created + 1] = "start"]
        /\ eventless' \subseteq eventless \cup {created + 1} /\ eventless \subseteq eventless'
    BY <1>12 DEF CreateThread, Creating, Goto
  <2>2. UNCHANGED <<free, event>>
    BY <1>12 DEF CreateThread
  <2>3. ~event[created + 1]
    BY <2>1
  <2> QED  BY <2>1, <2>2, <2>3
<1>13. CASE CreateReturns
  BY <1>13 DEF CreateReturns, Creating
<1>14. CASE BeginDestroy
  BY <1>14 DEF BeginDestroy
<1>15. CASE Sleep
  BY <1>15 DEF Sleep
<1>16. CASE CloseHandles
  BY <1>16 DEF CloseHandles
<1>17. CASE DeleteData
  BY <1>17 DEF DeleteData
<1>18. CASE ClearLists
  BY <1>18 DEF ClearLists
<1>19. ASSUME NEW n \in 1..PoolSize, SetPoolSize(n) PROVE AwakeHaveEvent'
  BY <1>19 DEF SetPoolSize
<1>20. CASE UNCHANGED vars
  BY <1>20 DEF vars, threadVars, poolVars, createVars, destroyVars
<1> QED
  BY <1>1, <1>2, <1>3, <1>4, <1>5, <1>6, <1>7, <1>8, <1>9, <1>10, <1>11, <1>12, <1>13,
     <1>14, <1>15, <1>16, <1>17, <1>18, <1>19, <1>20, PoolCases

\* Create makes enough threads, and nobody uses a pool too soon.
LEMMA UnbornStep ==
    TypeOK /\ CreatedEnough /\ Unborn /\ [Next]_vars
        => (CreatedEnough /\ Unborn)'
<1> SUFFICES ASSUME TypeOK /\ CreatedEnough /\ Unborn, [Next]_vars
             PROVE  (CreatedEnough /\ Unborn)'
  OBVIOUS
<1> USE PoolAssumption DEF TypeOK, Threads, threadVars, poolVars, createVars, destroyVars,
        CreatedEnough, Unborn
<1>1. ASSUME NEW c \in Clients, WakeThread(c) PROVE (CreatedEnough /\ Unborn)'
  BY <1>1 DEF WakeThread, MarkFirstFree, FirstFree, FreeThreads
<1>2. ASSUME NEW c \in Clients, NEW j \in Jobs, Lists(c, j) PROVE (CreatedEnough /\ Unborn)'
  BY <1>2 DEF Lists, Given
<1>3. ASSUME NEW t \in Threads, GetHandles(t) PROVE (CreatedEnough /\ Unborn)'
  BY <1>3 DEF GetHandles, Goto
<1>4. ASSUME NEW t \in Threads, Wake(t) PROVE (CreatedEnough /\ Unborn)'
  BY <1>4 DEF Wake, Goto
<1>5. ASSUME NEW t \in Threads, WakeToExit(t) PROVE (CreatedEnough /\ Unborn)'
  BY <1>5 DEF WakeToExit, Goto
<1>6. ASSUME NEW t \in Threads, CheckThreadStop(t) PROVE (CreatedEnough /\ Unborn)'
  BY <1>6 DEF CheckThreadStop, Goto
<1>7. ASSUME NEW t \in Threads, GetThreadProc(t) PROVE (CreatedEnough /\ Unborn)'
  BY <1>7 DEF GetThreadProc, Goto
<1>8. ASSUME NEW t \in Threads, BusyNotify(t) PROVE (CreatedEnough /\ Unborn)'
  BY <1>8 DEF BusyNotify, Goto
<1>9. ASSUME NEW t \in Threads, FinishNotify(t) PROVE (CreatedEnough /\ Unborn)'
  BY <1>9 DEF FinishNotify, Goto
<1>10. ASSUME NEW t \in Threads, Return(t) PROVE (CreatedEnough /\ Unborn)'
  BY <1>10 DEF Return, Goto
<1>11. CASE Create
  BY <1>11 DEF Create
<1>12. CASE CreateThread
  BY <1>12 DEF CreateThread, Creating, Goto
<1>13. CASE CreateReturns
  BY <1>13 DEF CreateReturns, Creating
<1>14. CASE BeginDestroy
  BY <1>14 DEF BeginDestroy
<1>15. CASE Sleep
  BY <1>15 DEF Sleep
<1>16. CASE CloseHandles
  BY <1>16 DEF CloseHandles
<1>17. CASE DeleteData
  BY <1>17 DEF DeleteData
<1>18. CASE ClearLists
  BY <1>18 DEF ClearLists
<1>19. ASSUME NEW n \in 1..PoolSize, SetPoolSize(n) PROVE (CreatedEnough /\ Unborn)'
  BY <1>19 DEF SetPoolSize
<1>20. CASE UNCHANGED vars
  BY <1>20 DEF vars, threadVars, poolVars, createVars, destroyVars
<1> QED
  BY <1>1, <1>2, <1>3, <1>4, <1>5, <1>6, <1>7, <1>8, <1>9, <1>10, <1>11, <1>12, <1>13,
     <1>14, <1>15, <1>16, <1>17, <1>18, <1>19, <1>20, PoolCases

\* Destroy goes on among the threads.
LEMMA DestroyingStep ==
    TypeOK /\ JobsArePlaced /\ Destroying /\ [Next]_vars
        => Destroying'
<1> SUFFICES ASSUME TypeOK /\ JobsArePlaced /\ Destroying, [Next]_vars
             PROVE  Destroying'
  OBVIOUS
<1> USE PoolAssumption DEF threadVars, poolVars, createVars, destroyVars, Destroying
<1>f. /\ pc \in [Threads -> {"none", "start", "wait", "check", "fetch", "busy", "run",
                            "finish", "exited"}]
      /\ job \in [Threads -> Jobs \cup {NoJob}] /\ deleted \subseteq Jobs
      /\ NoJob \notin Jobs /\ Listed \subseteq Jobs
  BY PoolAssumption DEF TypeOK, Listed, Elements
<1>1. ASSUME NEW c \in Clients, WakeThread(c) PROVE Destroying'
  BY <1>1, <1>f, SameList DEF WakeThread, MarkFirstFree, FirstFree, FreeThreads
<1>2. ASSUME NEW c \in Clients, NEW j \in Jobs, Lists(c, j) PROVE Destroying'
  BY <1>2, <1>f DEF Lists, Given
<1>3. ASSUME NEW t \in Threads, GetHandles(t) PROVE Destroying'
  BY <1>3, <1>f, SameList DEF GetHandles, Goto
<1>4. ASSUME NEW t \in Threads, Wake(t) PROVE Destroying'
  BY <1>4, <1>f, SameList DEF Wake, Goto
<1>5. ASSUME NEW t \in Threads, WakeToExit(t) PROVE Destroying'
  BY <1>5, <1>f, SameList DEF WakeToExit, Goto
<1>6. ASSUME NEW t \in Threads, CheckThreadStop(t) PROVE Destroying'
  BY <1>6, <1>f, SameList DEF CheckThreadStop, Goto
<1>7. ASSUME NEW t \in Threads, GetThreadProc(t) PROVE Destroying'
  <2>1. CASE functionList = <<>>
    BY <1>7, <1>f, <2>1, SameList DEF GetThreadProc, Goto
  <2>2. CASE functionList # <<>>
    <3>2. /\ job'[t] \in Listed /\ Listed' \subseteq Listed
          /\ job' = [job EXCEPT ![t] = job'[t]]
      BY <1>7, <2>2, ListShrinks
    <3> QED  BY <1>7, <1>f, <2>2, <3>2 DEF GetThreadProc, Goto
  <2> QED  BY <2>1, <2>2
<1>8. ASSUME NEW t \in Threads, BusyNotify(t) PROVE Destroying'
  BY <1>8, <1>f, SameList DEF BusyNotify, Goto
<1>9. ASSUME NEW t \in Threads, FinishNotify(t) PROVE Destroying'
  BY <1>9, <1>f, SameList DEF FinishNotify, Goto
<1>10. ASSUME NEW t \in Threads, Return(t) PROVE Destroying'
  BY <1>10, <1>f, SameList DEF Return, Goto
<1>11. CASE Create
  BY <1>11, <1>f, SameList DEF Create
<1>12. CASE CreateThread
  BY <1>12, <1>f, SameList DEF CreateThread, Creating, Goto
<1>13. CASE CreateReturns
  BY <1>13, <1>f, SameList DEF CreateReturns, Creating
<1>14. CASE BeginDestroy
  BY <1>14, <1>f, SameList DEF BeginDestroy
<1>15. CASE Sleep
  BY <1>15, <1>f, SameList DEF Sleep
<1>16. CASE CloseHandles
  BY <1>16, <1>f, SameList DEF CloseHandles
<1>17. CASE DeleteData
  <2>1. deleted' = Listed /\ Listed' = Listed
    BY <1>17 DEF DeleteData, Listed, Elements
  <2>2. \A t \in Threads : job[t] \notin Listed
    BY <1>f DEF JobsArePlaced
  <2> QED  BY <1>17, <1>f, <2>1, <2>2 DEF DeleteData
<1>18. CASE ClearLists
  <2>1. Listed' = {}
    BY <1>18 DEF ClearLists, Listed, Elements
  <2> QED  BY <1>18, <1>f, <2>1 DEF ClearLists
<1>19. ASSUME NEW n \in 1..PoolSize, SetPoolSize(n) PROVE Destroying'
  BY <1>19, <1>f, SameList DEF SetPoolSize
<1>20. CASE UNCHANGED vars
  BY <1>20, <1>f, SameList DEF vars, threadVars, poolVars, createVars, destroyVars
<1> QED
  BY <1>1, <1>2, <1>3, <1>4, <1>5, <1>6, <1>7, <1>8, <1>9, <1>10, <1>11, <1>12, <1>13,
     <1>14, <1>15, <1>16, <1>17, <1>18, <1>19, <1>20, PoolCases

\* Every function stays in one place.
LEMMA JobsStep ==
    TypeOK /\ JobsArePlaced /\ Destroying /\ [Next]_vars
        => JobsArePlaced'
<1> SUFFICES ASSUME TypeOK /\ JobsArePlaced /\ Destroying, [Next]_vars
             PROVE  JobsArePlaced'
  OBVIOUS
<1> USE PoolAssumption DEF threadVars, poolVars, createVars, destroyVars, JobsArePlaced
<1>f. /\ pc \in [Threads -> {"none", "start", "wait", "check", "fetch", "busy", "run",
                            "finish", "exited"}]
      /\ job \in [Threads -> Jobs \cup {NoJob}] /\ disposed \subseteq Jobs
      /\ starts \in [Jobs -> Nat]
      /\ \A t \in Threads : job[t] # NoJob <=> pc[t] \in {"busy", "run"}
      /\ NoJob \notin Jobs /\ Listed \subseteq Jobs
  BY PoolAssumption DEF TypeOK, Listed, Elements
<1>1. ASSUME NEW c \in Clients, WakeThread(c) PROVE JobsArePlaced'
  BY <1>1, <1>f, SameList DEF WakeThread, MarkFirstFree, FirstFree, FreeThreads
<1>2. ASSUME NEW c \in Clients, NEW j \in Jobs, Lists(c, j) PROVE JobsArePlaced'
  <2>1. /\ Listed' = Listed \cup {j} /\ NoDuplicates(functionList')
    BY <1>2, ListGrows
  <2>2. starts[j] = 0 /\ \A t \in Threads : job[t] # j
    BY <1>2, <1>f DEF Lists, Given
  <2>3. UNCHANGED <<pc, job, starts, disposed, deleted>>
    BY <1>2 DEF Lists
  <2> QED  BY <1>f, <2>1, <2>2, <2>3
<1>3. ASSUME NEW t \in Threads, GetHandles(t) PROVE JobsArePlaced'
  BY <1>3, <1>f, SameList DEF GetHandles, Goto
<1>4. ASSUME NEW t \in Threads, Wake(t) PROVE JobsArePlaced'
  BY <1>4, <1>f, SameList DEF Wake, Goto
<1>5. ASSUME NEW t \in Threads, WakeToExit(t) PROVE JobsArePlaced'
  BY <1>5, <1>f, SameList DEF WakeToExit, Goto
<1>6. ASSUME NEW t \in Threads, CheckThreadStop(t) PROVE JobsArePlaced'
  BY <1>6, <1>f, SameList DEF CheckThreadStop, Goto
<1>7. ASSUME NEW t \in Threads, GetThreadProc(t) PROVE JobsArePlaced'
  <2>1. CASE functionList = <<>>
    BY <1>7, <1>f, <2>1, SameList DEF GetThreadProc, Goto
  <2>2. CASE functionList # <<>>
    <3>1. /\ job'[t] \in Listed /\ Listed' \subseteq Listed /\ job'[t] \notin Listed'
          /\ job' = [job EXCEPT ![t] = job'[t]] /\ NoDuplicates(functionList')
      BY <1>7, <2>2, ListShrinks
    <3>2. pc[t] = "fetch" /\ pc' = [pc EXCEPT ![t] = "busy"] /\ UNCHANGED <<starts, disposed, deleted>>
      BY <1>7, <2>2 DEF GetThreadProc, Goto
    <3> QED  BY <1>f, <3>1, <3>2
  <2> QED  BY <2>1, <2>2
<1>8. ASSUME NEW t \in Threads, BusyNotify(t) PROVE JobsArePlaced'
  BY <1>8, <1>f, SameList DEF BusyNotify, Goto
<1>9. ASSUME NEW t \in Threads, FinishNotify(t) PROVE JobsArePlaced'
  BY <1>9, <1>f, SameList DEF FinishNotify, Goto
<1>10. ASSUME NEW t \in Threads, Return(t) PROVE JobsArePlaced'
  BY <1>10, <1>f, SameList DEF Return, Goto
<1>11. CASE Create
  BY <1>11, <1>f, SameList DEF Create
<1>12. CASE CreateThread
  <2>1. /\ created + 1 \in Threads /\ pc[created + 1] = "none"
        /\ pc' = [pc EXCEPT ![created + 1] = "start"]
    BY <1>12, PoolAssumption DEF CreateThread, Creating, Goto, TypeOK, Threads
  <2>2. UNCHANGED <<functionList, job, starts, disposed, deleted>>
    BY <1>12 DEF CreateThread
  <2> QED  BY <1>f, <2>1, <2>2, SameList
<1>13. CASE CreateReturns
  BY <1>13, <1>f, SameList DEF CreateReturns, Creating
<1>14. CASE BeginDestroy
  BY <1>14, <1>f, SameList DEF BeginDestroy
<1>15. CASE Sleep
  BY <1>15, <1>f, SameList DEF Sleep
<1>16. CASE CloseHandles
  BY <1>16, <1>f, SameList DEF CloseHandles
<1>17. CASE DeleteData
  <2>1. deleted' = Listed /\ Listed' = Listed /\ UNCHANGED <<functionList, job, pc, starts, disposed>>
    BY <1>17 DEF DeleteData, Listed, Elements
  <2>2. deleted = {}
    BY <1>17 DEF DeleteData, Destroying
  <2> QED  BY <1>f, <2>1, <2>2
<1>18. CASE ClearLists
  <2>1. Listed' = {} /\ NoDuplicates(functionList')
    BY <1>18 DEF ClearLists, Listed, Elements, NoDuplicates
  <2> QED  BY <1>18, <1>f, <2>1 DEF ClearLists
<1>19. ASSUME NEW n \in 1..PoolSize, SetPoolSize(n) PROVE JobsArePlaced'
  BY <1>19, <1>f, SameList DEF SetPoolSize
<1>20. CASE UNCHANGED vars
  BY <1>20, <1>f, SameList DEF vars, threadVars, poolVars, createVars, destroyVars
<1> QED
  BY <1>1, <1>2, <1>3, <1>4, <1>5, <1>6, <1>7, <1>8, <1>9, <1>10, <1>11, <1>12, <1>13,
     <1>14, <1>15, <1>16, <1>17, <1>18, <1>19, <1>20, PoolCases

\* While something is listed somebody is awake.
LEMMA WakeupStep ==
    TypeOK /\ AwakeHaveEvent /\ NoLostWakeup /\ [Next]_vars
        => NoLostWakeup'
<1> SUFFICES ASSUME TypeOK /\ AwakeHaveEvent /\ NoLostWakeup, [Next]_vars
             PROVE  NoLostWakeup'
  OBVIOUS
<1> USE PoolAssumption DEF TypeOK, Threads, threadVars, poolVars, createVars, destroyVars,
        NoLostWakeup
<1>1. ASSUME NEW c \in Clients, WakeThread(c) PROVE NoLostWakeup'
  <2>1. UNCHANGED <<functionList, destroy, created>> /\ submit' = [submit EXCEPT ![c] = NoJob]
    BY <1>1 DEF WakeThread
  <2>2. \A t \in Threads : event[t] => event'[t]
    BY <1>1 DEF WakeThread, MarkFirstFree
  <2>3. CASE NobodyHears
    <3>1. unheard' = unheard \cup {submit[c]}
      BY <1>1, <2>3 DEF WakeThread
    <3> QED  BY <2>1, <2>2, <3>1
  <2>4. CASE ~NobodyHears
    <3>1. \E t \in Threads : event'[t]
      <4>1. CASE FreeThreads = {}
        <5>1. PICK t \in 1..created : t \notin eventless
          BY <2>4 DEF NobodyHears
        <5>2. ~free[t]
          BY <4>1, <5>1 DEF FreeThreads
        <5>3. t \in Threads
          BY <5>1
        <5>4. event[t]
          BY <5>1, <5>2, <5>3 DEF AwakeHaveEvent
        <5> QED  BY <2>2, <5>3, <5>4
      <4>2. CASE FreeThreads # {}
        <5>1. PICK t \in Threads :
                 /\ FirstFree(t)
                 /\ event' = IF t \in eventless THEN event ELSE [event EXCEPT ![t] = TRUE]
          BY <1>1, <4>2 DEF WakeThread, MarkFirstFree
        <5>2. t \notin eventless
          BY <2>4, <5>1 DEF NobodyHears
        <5> QED  BY <5>1, <5>2
      <4> QED  BY <4>1, <4>2
    <3> QED  BY <3>1
  <2> QED  BY <2>3, <2>4
<1>2. ASSUME NEW c \in Clients, NEW j \in Jobs, Lists(c, j) PROVE NoLostWakeup'
  <2>1. ASSUME NEW i \in DOMAIN functionList'
        PROVE  functionList'[i] = j \/ \E k \in DOMAIN functionList : functionList[k] = functionList'[i]
    <3>1. Listed' = Listed \cup {j}
      BY <1>2, ListGrows
    <3>2. functionList'[i] \in Listed'
      BY <2>1 DEF Listed, Elements
    <3>3. functionList'[i] = j \/ functionList'[i] \in Listed
      BY <3>1, <3>2
    <3>4. functionList'[i] \in Listed =>
             \E k \in DOMAIN functionList : functionList[k] = functionList'[i]
      BY ZenonT(20) DEF Listed, Elements
    <3> QED  BY <3>3, <3>4
  <2>2. submit'[c] = j /\ \A d \in Clients : submit[d] # NoJob => submit'[d] = submit[d]
    BY <1>2 DEF Lists
  <2>3. \A k \in DOMAIN functionList : functionList[k] \in Jobs
    OBVIOUS
  <2> QED  BY <1>2, <2>1, <2>2, <2>3 DEF Lists
<1>3. ASSUME NEW t \in Threads, GetHandles(t) PROVE NoLostWakeup'
  BY <1>3 DEF GetHandles, Goto
<1>4. ASSUME NEW t \in Threads, Wake(t) PROVE NoLostWakeup'
  BY <1>4 DEF Wake, Goto
<1>5. ASSUME NEW t \in Threads, WakeToExit(t) PROVE NoLostWakeup'
  BY <1>5 DEF WakeToExit, Goto
<1>6. ASSUME NEW t \in Threads, CheckThreadStop(t) PROVE NoLostWakeup'
  BY <1>6 DEF CheckThreadStop, Goto
<1>7. ASSUME NEW t \in Threads, GetThreadProc(t) PROVE NoLostWakeup'
  <2>1. event'[t]
    BY <1>7 DEF GetThreadProc, AwakeHaveEvent
  <2> QED  BY <2>1
<1>8. ASSUME NEW t \in Threads, BusyNotify(t) PROVE NoLostWakeup'
  BY <1>8 DEF BusyNotify, Goto
<1>9. ASSUME NEW t \in Threads, FinishNotify(t) PROVE NoLostWakeup'
  <2>1. functionList' = functionList /\ destroy' = destroy /\ submit' = submit
        /\ unheard' = unheard
    BY <1>9 DEF FinishNotify
  <2>2. CASE functionList = <<>>
    BY <2>1, <2>2
  <2>3. CASE functionList # <<>>
    <3>1. event[t]
      BY <1>9 DEF FinishNotify, AwakeHaveEvent
    <3>2. event'[t]
      BY <1>9, <2>3, <3>1 DEF FinishNotify
    <3> QED  BY <3>2
  <2> QED  BY <2>2, <2>3
<1>10. ASSUME NEW t \in Threads, Return(t) PROVE NoLostWakeup'
  BY <1>10 DEF Return, Goto
<1>11. CASE Create
  BY <1>11 DEF Create
<1>12. CASE CreateThread
  BY <1>12 DEF CreateThread, Creating, Goto
<1>13. CASE CreateReturns
  BY <1>13 DEF CreateReturns, Creating
<1>14. CASE BeginDestroy
  BY <1>14 DEF BeginDestroy
<1>15. CASE Sleep
  BY <1>15 DEF Sleep
<1>16. CASE CloseHandles
  BY <1>16 DEF CloseHandles
<1>17. CASE DeleteData
  BY <1>17 DEF DeleteData
<1>18. CASE ClearLists
  BY <1>18 DEF ClearLists
<1>19. ASSUME NEW n \in 1..PoolSize, SetPoolSize(n) PROVE NoLostWakeup'
  BY <1>19 DEF SetPoolSize
<1>20. CASE UNCHANGED vars
  BY <1>20 DEF vars, threadVars, poolVars, createVars, destroyVars
<1> QED
  BY <1>1, <1>2, <1>3, <1>4, <1>5, <1>6, <1>7, <1>8, <1>9, <1>10, <1>11, <1>12, <1>13,
     <1>14, <1>15, <1>16, <1>17, <1>18, <1>19, <1>20, PoolCases

\* The late threads are finitely many, and they can only stop being able to start
\* something.
LEMMA LateFacts ==
    ASSUME TypeOK
    PROVE  /\ IsFiniteSet(late) /\ IsFiniteSet(MayStart) /\ MayStart \subseteq late
           /\ Cardinality(MayStart) \in Nat /\ Cardinality(late) \in Nat
           /\ Cardinality(MayStart) <= Cardinality(late)
<1>1. IsFiniteSet(Threads)
  BY PoolAssumption, FS_Interval DEF Threads
<1>2. IsFiniteSet(late) /\ MayStart \subseteq late
  BY <1>1, FS_Subset DEF TypeOK, MayStart
<1> QED  BY <1>2, FS_Subset, FS_CardinalityType

\* A thread that leaves its loop is one fewer that can start a deleted function.
LEMMA FewerMayStart ==
    ASSUME TypeOK, LateOnes, UNCHANGED late, StartedDeleted' = StartedDeleted,
           MayStart' \subseteq MayStart
    PROVE  LateOnes'
<1>1. IsFiniteSet(MayStart) /\ Cardinality(late) \in Nat
  BY LateFacts
<1>2. /\ Cardinality(MayStart') <= Cardinality(MayStart)
      /\ Cardinality(MayStart') \in Nat /\ Cardinality(MayStart) \in Nat
  BY <1>1, FS_Subset, FS_CardinalityType
<1>3. IsFiniteSet(StartedDeleted) /\ Cardinality(StartedDeleted) \in Nat
  BY FS_CardinalityType DEF LateOnes
<1> QED  BY <1>1, <1>2, <1>3 DEF LateOnes

\* A step that starts nothing leaves the functions where they are.
LEMMA NothingStarted ==
    ASSUME TypeOK', StartedDeleted' = {}
    PROVE  LateOnes'
<1>a. IsFiniteSet(Threads)
  BY PoolAssumption, FS_Interval DEF Threads
<1>b. late' \subseteq Threads /\ MayStart' \subseteq late'
  BY DEF TypeOK, MayStart, Threads
<1>c. IsFiniteSet(late') /\ IsFiniteSet(MayStart')
  BY <1>a, <1>b, FS_Subset
<1>1. /\ Cardinality(MayStart') \in Nat /\ Cardinality(late') \in Nat
      /\ Cardinality(MayStart') <= Cardinality(late')
  BY <1>b, <1>c, FS_Subset, FS_CardinalityType
<1>2. IsFiniteSet(StartedDeleted') /\ Cardinality(StartedDeleted') = 0
  BY FS_EmptySet
<1> QED  BY <1>1, <1>2 DEF LateOnes

\* Late threads start one deleted function each.
LEMMA LateStep ==
    TypeOK /\ JobsArePlaced /\ Destroying /\ LateOnes /\ [Next]_vars
        => LateOnes'
<1> SUFFICES ASSUME TypeOK /\ JobsArePlaced /\ Destroying /\ LateOnes, [Next]_vars
             PROVE  LateOnes'
  OBVIOUS
<1> USE PoolAssumption DEF threadVars, poolVars, createVars, destroyVars
<1>t. TypeOK'
  BY TypeStep
<1>f. /\ pc \in [Threads -> {"none", "start", "wait", "check", "fetch", "busy", "run",
                            "finish", "exited"}]
      /\ job \in [Threads -> Jobs \cup {NoJob}] /\ late \subseteq Threads
      /\ \A t \in Threads : job[t] # NoJob <=> pc[t] \in {"busy", "run"}
      /\ starts \in [Jobs -> Nat] /\ NoJob \notin Jobs /\ deleted \subseteq Jobs
  BY PoolAssumption DEF TypeOK
<1>1. ASSUME NEW c \in Clients, WakeThread(c) PROVE LateOnes'
  <2>1. /\ UNCHANGED late /\ StartedDeleted' = StartedDeleted
        /\ MayStart' \subseteq MayStart
    BY <1>1, <1>f DEF WakeThread, StartedDeleted, MayStart
  <2> QED  BY <2>1, FewerMayStart
<1>2. ASSUME NEW c \in Clients, NEW j \in Jobs, Lists(c, j) PROVE LateOnes'
  <2>1. /\ UNCHANGED late /\ StartedDeleted' = StartedDeleted
        /\ MayStart' \subseteq MayStart
    BY <1>2, <1>f DEF Lists, StartedDeleted, MayStart
  <2> QED  BY <2>1, FewerMayStart
<1>3. ASSUME NEW t \in Threads, GetHandles(t) PROVE LateOnes'
  <2>1. /\ UNCHANGED late /\ StartedDeleted' = StartedDeleted
        /\ MayStart' \subseteq MayStart
    BY <1>3, <1>f DEF GetHandles, Goto, StartedDeleted, MayStart
  <2> QED  BY <2>1, FewerMayStart
<1>4. ASSUME NEW t \in Threads, Wake(t) PROVE LateOnes'
  <2>1. /\ UNCHANGED late /\ StartedDeleted' = StartedDeleted
        /\ MayStart' \subseteq MayStart
    BY <1>4, <1>f DEF Wake, Goto, StartedDeleted, MayStart
  <2> QED  BY <2>1, FewerMayStart
<1>5. ASSUME NEW t \in Threads, WakeToExit(t) PROVE LateOnes'
  <2>1. /\ UNCHANGED late /\ StartedDeleted' = StartedDeleted
        /\ MayStart' \subseteq MayStart
    BY <1>5, <1>f DEF WakeToExit, Goto, StartedDeleted, MayStart
  <2> QED  BY <2>1, FewerMayStart
<1>6. ASSUME NEW t \in Threads, CheckThreadStop(t) PROVE LateOnes'
  <2>1. CASE isDestroying
    <3>1. /\ UNCHANGED late /\ StartedDeleted' = StartedDeleted
          /\ MayStart' \subseteq MayStart
      BY <1>6, <1>f, <2>1 DEF CheckThreadStop, Goto, StartedDeleted, MayStart
    <3> QED  BY <3>1, FewerMayStart
  <2>2. CASE ~isDestroying
    <3>1. StartedDeleted' = {}
      BY <1>6, <2>2 DEF CheckThreadStop, StartedDeleted, Destroying
    <3> QED  BY <1>t, <3>1, NothingStarted
  <2> QED  BY <2>1, <2>2
<1>7. ASSUME NEW t \in Threads, GetThreadProc(t) PROVE LateOnes'
  <2>1. /\ UNCHANGED late /\ StartedDeleted' = StartedDeleted
        /\ MayStart' \subseteq MayStart
    BY <1>7, <1>f DEF GetThreadProc, Goto, StartedDeleted, MayStart
  <2> QED  BY <2>1, FewerMayStart
<1>8. ASSUME NEW t \in Threads, BusyNotify(t) PROVE LateOnes'
  <2>1. /\ pc[t] = "busy" /\ pc' = [pc EXCEPT ![t] = "run"]
        /\ job[t] \in Jobs /\ starts[job[t]] = 0
        /\ starts' = [starts EXCEPT ![job[t]] = 1] /\ UNCHANGED <<late, deleted>>
    <3>1. pc[t] = "busy" /\ pc' = [pc EXCEPT ![t] = "run"] /\ UNCHANGED <<late, deleted>>
      BY <1>8 DEF BusyNotify, Goto
    <3>2. job[t] \in Jobs /\ job[t] # NoJob
      BY <1>f, <3>1
    <3>3. starts[job[t]] = 0
      BY <3>1, <3>2 DEF JobsArePlaced
    <3>4. starts' = [starts EXCEPT ![job[t]] = starts[job[t]] + 1]
      BY <1>8 DEF BusyNotify
    <3> QED  BY <3>1, <3>2, <3>3, <3>4
  <2>2. CASE job[t] \notin deleted
    <3>1. StartedDeleted' = StartedDeleted /\ MayStart' \subseteq MayStart
      BY <1>f, <2>1, <2>2 DEF StartedDeleted, MayStart
    <3> QED  BY <2>1, <3>1, FewerMayStart
  <2>3. CASE job[t] \in deleted
    <3>1. t \in MayStart
      BY <2>1, <2>3 DEF Destroying, MayStart
    <3>2. /\ StartedDeleted' = StartedDeleted \cup {job[t]} /\ job[t] \notin StartedDeleted
          /\ MayStart' = MayStart \ {t}
      BY <1>f, <2>1, <2>3 DEF StartedDeleted, MayStart
    <3>3. /\ IsFiniteSet(StartedDeleted') /\ Cardinality(StartedDeleted) \in Nat
          /\ Cardinality(StartedDeleted') = Cardinality(StartedDeleted) + 1
      BY <3>2, FS_AddElement, FS_CardinalityType DEF LateOnes
    <3>4. Cardinality(MayStart) \in Nat /\ Cardinality(MayStart') = Cardinality(MayStart) - 1
      BY <3>1, <3>2, LateFacts, FS_RemoveElement
    <3>5. Cardinality(late) \in Nat
      BY LateFacts
    <3> QED  BY <2>1, <3>3, <3>4, <3>5 DEF LateOnes
  <2> QED  BY <2>2, <2>3
<1>9. ASSUME NEW t \in Threads, FinishNotify(t) PROVE LateOnes'
  <2>1. /\ UNCHANGED late /\ StartedDeleted' = StartedDeleted
        /\ MayStart' \subseteq MayStart
    BY <1>9, <1>f DEF FinishNotify, Goto, StartedDeleted, MayStart
  <2> QED  BY <2>1, FewerMayStart
<1>10. ASSUME NEW t \in Threads, Return(t) PROVE LateOnes'
  <2>1. /\ UNCHANGED late /\ StartedDeleted' = StartedDeleted
        /\ MayStart' \subseteq MayStart
    BY <1>10, <1>f DEF Return, Goto, StartedDeleted, MayStart
  <2> QED  BY <2>1, FewerMayStart
<1>11. CASE Create
  <2>1. /\ UNCHANGED late /\ StartedDeleted' = StartedDeleted
        /\ MayStart' \subseteq MayStart
    BY <1>11, <1>f DEF Create, StartedDeleted, MayStart
  <2> QED  BY <2>1, FewerMayStart
<1>12. CASE CreateThread
  <2>1. /\ UNCHANGED late /\ StartedDeleted' = StartedDeleted
        /\ MayStart' \subseteq MayStart
    BY <1>12, <1>f DEF CreateThread, Creating, Goto, StartedDeleted, MayStart
  <2> QED  BY <2>1, FewerMayStart
<1>13. CASE CreateReturns
  <2>1. /\ UNCHANGED late /\ StartedDeleted' = StartedDeleted
        /\ MayStart' \subseteq MayStart
    BY <1>13, <1>f DEF CreateReturns, StartedDeleted, MayStart
  <2> QED  BY <2>1, FewerMayStart
<1>14. CASE BeginDestroy
  <2>1. StartedDeleted' = {}
    BY <1>14 DEF BeginDestroy, StartedDeleted, Destroying
  <2> QED  BY <1>t, <2>1, NothingStarted
<1>15. CASE Sleep
  <2>1. /\ UNCHANGED late /\ StartedDeleted' = StartedDeleted
        /\ MayStart' \subseteq MayStart
    BY <1>15, <1>f DEF Sleep, StartedDeleted, MayStart
  <2> QED  BY <2>1, FewerMayStart
<1>16. CASE CloseHandles
  <2>1. /\ UNCHANGED late /\ StartedDeleted' = StartedDeleted
        /\ MayStart' \subseteq MayStart
    BY <1>16, <1>f DEF CloseHandles, StartedDeleted, MayStart
  <2> QED  BY <2>1, FewerMayStart
<1>17. CASE DeleteData
  <2>1. StartedDeleted' = {}
    BY <1>17 DEF DeleteData, StartedDeleted, JobsArePlaced, Listed, Elements
  <2> QED  BY <1>t, <2>1, NothingStarted
<1>18. CASE ClearLists
  <2>1. /\ UNCHANGED late /\ StartedDeleted' = StartedDeleted
        /\ MayStart' \subseteq MayStart
    BY <1>18, <1>f DEF ClearLists, StartedDeleted, MayStart
  <2> QED  BY <2>1, FewerMayStart
<1>19. ASSUME NEW n \in 1..PoolSize, SetPoolSize(n) PROVE LateOnes'
  <2>1. /\ UNCHANGED late /\ StartedDeleted' = StartedDeleted
        /\ MayStart' \subseteq MayStart
    BY <1>19, <1>f DEF SetPoolSize, StartedDeleted, MayStart
  <2> QED  BY <2>1, FewerMayStart
<1>20. CASE UNCHANGED vars
  <2>1. /\ UNCHANGED late /\ StartedDeleted' = StartedDeleted
        /\ MayStart' \subseteq MayStart
    BY <1>20, <1>f DEF vars, threadVars, createVars, destroyVars, StartedDeleted, MayStart
  <2> QED  BY <2>1, FewerMayStart
<1> QED
  BY <1>1, <1>2, <1>3, <1>4, <1>5, <1>6, <1>7, <1>8, <1>9, <1>10, <1>11, <1>12, <1>13,
     <1>14, <1>15, <1>16, <1>17, <1>18, <1>19, <1>20, PoolCases

-----------------------------------------------------------------------------
(* The invariant holds and implies PoolIsSound.                            *)

\* The constructor establishes the invariant.
LEMMA PoolInit == Init => PoolInv
<1> SUFFICES ASSUME Init PROVE PoolInv
  OBVIOUS
<1>1. TypeOK /\ NoLostWakeup /\ CreatedEnough /\ Unborn /\ AwakeHaveEvent
  <2>1. TypeOK
    <3>1. functionList \in Seq(Jobs)
      BY DEF Init
    <3>2. /\ m_nPoolSize \in 1..PoolSize /\ created \in 0..PoolSize
          /\ \A t \in Threads : t > created
      BY PoolAssumption DEF Init, Threads
    <3>3. /\ free \in [Threads -> BOOLEAN] /\ event \in [Threads -> BOOLEAN]
          /\ isDestroying \in BOOLEAN /\ starts \in [Jobs -> Nat]
      BY DEF Init
    <3> QED  BY <3>1, <3>2, <3>3, PoolAssumption DEF Init, TypeOK
  <2>2. DOMAIN functionList = {}
    BY DEF Init
  <2>3. NoLostWakeup
    BY <2>2 DEF NoLostWakeup
  <2> QED  BY <2>1, <2>3 DEF Init, CreatedEnough, Unborn, AwakeHaveEvent
<1>2. Listed = {} /\ NoDuplicates(functionList)
  BY DEF Init, Listed, Elements, NoDuplicates
<1>3. JobsArePlaced /\ Destroying
  BY <1>2, PoolAssumption DEF Init, JobsArePlaced, Destroying
<1>4. late = {} /\ StartedDeleted = {} /\ MayStart = {}
  BY DEF Init, StartedDeleted, MayStart
<1>5. LateOnes
  BY <1>4, FS_EmptySet DEF LateOnes
<1> QED  BY <1>1, <1>3, <1>5 DEF PoolInv

\* Every step keeps it.
LEMMA PoolStep == PoolInv /\ [Next]_vars => PoolInv'
BY TypeStep, JobsStep, AwakeStep, WakeupStep, DestroyingStep, LateStep,
   UnbornStep DEF PoolInv

\* A set none of whose elements differ has at most one.
LEMMA AtMostOne ==
    ASSUME NEW S, \A x, y \in S : x = y
    PROVE  IsFiniteSet(S) /\ Cardinality(S) \in {0, 1}
<1>1. CASE S = {}
  BY <1>1, FS_EmptySet
<1>2. CASE S # {}
  <2>1. PICK x : x \in S
    BY <1>2
  <2>2. S = {x}
    BY <2>1
  <2> QED  BY <2>2, FS_Singleton
<1> QED  BY <1>1, <1>2

\* A function is listed once or in one hand.
LEMMA OnePlace ==
    ASSUME TypeOK, JobsArePlaced, NEW j \in Jobs
    PROVE  Cardinality({i \in DOMAIN functionList : functionList[i] = j})
               + Cardinality(InHand(j)) <= 1
<1> DEFINE L == {i \in DOMAIN functionList : functionList[i] = j}
<1>1. Cardinality(L) \in {0, 1}
  BY AtMostOne DEF JobsArePlaced, NoDuplicates
<1>2. Cardinality(InHand(j)) \in {0, 1}
  <2>1. \A t, u \in InHand(j) : t = u
    BY PoolAssumption DEF InHand, JobsArePlaced
  <2> HIDE DEF JobsArePlaced
  <2> QED  BY <2>1, AtMostOne
<1>3. L = {} \/ InHand(j) = {}
  BY PoolAssumption DEF InHand, JobsArePlaced, Listed, Elements
<1>4. L = {} => Cardinality(L) = 0
  BY FS_EmptySet
<1>5. InHand(j) = {} => Cardinality(InHand(j)) = 0
  BY FS_EmptySet
<1> QED  BY <1>1, <1>2, <1>3, <1>4, <1>5

\* The invariant implies the property.
LEMMA PoolSound == PoolInv => PoolIsSound
<1> SUFFICES ASSUME PoolInv PROVE PoolIsSound
  OBVIOUS
<1> USE DEF PoolInv
<1>1. StartedOnce
  <2>1. ASSUME NEW j \in Jobs PROVE starts[j] <= 1 /\ (Queued(j) => starts[j] = 0)
    BY DEF JobsArePlaced, Queued, Contains, Listed, Elements
  <2> QED  BY <2>1, OnePlace DEF StartedOnce
<1>2. SleepersAreFree
  BY DEF AwakeHaveEvent, SleepersAreFree
<1>3. DeletedAreRare
  <2>1. {j \in deleted : starts[j] > 0} = StartedDeleted
    BY DEF JobsArePlaced, StartedDeleted, TypeOK
  <2>2. Cardinality(StartedDeleted) \in Nat
    BY FS_CardinalityType DEF LateOnes
  <2>3. Cardinality(MayStart) \in Nat /\ Cardinality(late) \in Nat
    BY LateFacts
  <2>4. Cardinality(StartedDeleted) <= Cardinality(late)
    BY <2>2, <2>3 DEF LateOnes
  <2>5. \A t \in Threads : job[t] \in deleted => t \in late
    BY DEF Destroying
  <2> QED  BY <2>1, <2>4, <2>5 DEF DeletedAreRare
<1>4. DisposedAfterRun
  <2>1. ASSUME NEW j \in disposed PROVE starts[j] = 1 /\ InHand(j) = {} /\ j \notin deleted
    BY PoolAssumption DEF JobsArePlaced, InHand, TypeOK
  <2>2. ASSUME NEW j \in Jobs, starts[j] = 1 PROVE j \in disposed \cup deleted \/ InHand(j) # {}
    BY <2>2 DEF JobsArePlaced, InHand
  <2>3. destroy = "done" => functionList = <<>>
    BY DEF Destroying
  <2> QED  BY <2>1, <2>2, <2>3 DEF DisposedAfterRun
<1> QED  BY <1>1, <1>2, <1>3, <1>4 DEF PoolIsSound

\* Whatever the size of the pool and however many clients call Run: a function is
\* taken once, no thread that could take one sleeps on, and what Destroy deletes
\* under a thread is bounded by the threads it overtook.
THEOREM PoolHolds == Spec => []PoolIsSound
<1>1. Init => PoolInv
  BY PoolInit
<1>2. PoolInv /\ [Next]_vars => PoolInv'
  BY PoolStep
<1>3. PoolInv => PoolIsSound
  BY PoolSound
<1> QED  BY <1>1, <1>2, <1>3, PTL DEF Spec

-----------------------------------------------------------------------------
(* PtTable.                                                                *)

-----------------------------------------------------------------------------
(* One chain.                                                              *)

Nodes == [id : Ids, ptr : Ptrs]

\* No GUID is twice in the chain.
Distinct(chain) == \A j, k \in DOMAIN chain : chain[j].id = chain[k].id => j = k

PairsOf(chain) == {<<chain[j].id, chain[j].ptr>> : j \in DOMAIN chain}

\* The ids of the chain from the node with the id x to the end.
From(chain, x) ==
    {chain[m].id : m \in {i \in DOMAIN chain :
                              \E k \in DOMAIN chain : k <= i /\ chain[k].id = x}}

\* A node is linked.
LEMMA LinkedChain ==
    ASSUME NEW chain \in Seq(Nodes), Distinct(chain), NEW id \in Ids, NEW ptr \in Ptrs,
           id \notin Table!IdsOf(chain)
    PROVE  LET new == Table!Linked(chain, Table!pt_table_node_new(id, ptr))
           IN  /\ new \in Seq(Nodes) /\ Distinct(new)
               /\ Table!IdsOf(new) = Table!IdsOf(chain) \cup {id}
               /\ PairsOf(new) = PairsOf(chain) \cup {<<id, ptr>>}
<1> DEFINE node == [id |-> id, ptr |-> ptr]
           new == Append(chain, node)
<1>1. node \in Nodes /\ node.id = id /\ node.ptr = ptr
  BY DEF Nodes
<1> HIDE DEF node
<1>2. /\ new \in Seq(Nodes) /\ Len(chain) \in Nat /\ DOMAIN new = 1..(Len(chain) + 1)
      /\ new[Len(chain) + 1] = node /\ DOMAIN chain = 1..Len(chain)
      /\ \A k \in 1..Len(chain) : new[k] = chain[k]
  BY <1>1
<1> HIDE DEF new
<1>3. Distinct(new)
  BY <1>1, <1>2 DEF Distinct, Table!IdsOf
<1>4. Table!IdsOf(new) = Table!IdsOf(chain) \cup {id}
  <2>1. ASSUME NEW x \in Table!IdsOf(chain) PROVE x \in Table!IdsOf(new)
    BY <1>2 DEF Table!IdsOf
  <2>2. id \in Table!IdsOf(new)
    BY <1>1, <1>2 DEF Table!IdsOf
  <2>3. ASSUME NEW x \in Table!IdsOf(new) PROVE x \in Table!IdsOf(chain) \/ x = id
    BY <1>1, <1>2 DEF Table!IdsOf
  <2> QED  BY <2>1, <2>2, <2>3
<1>5. PairsOf(new) = PairsOf(chain) \cup {<<id, ptr>>}
  <2>1. ASSUME NEW x \in PairsOf(chain) PROVE x \in PairsOf(new)
    BY <1>2 DEF PairsOf
  <2>2. <<id, ptr>> \in PairsOf(new)
    BY <1>1, <1>2 DEF PairsOf
  <2>3. ASSUME NEW x \in PairsOf(new) PROVE x \in PairsOf(chain) \/ x = <<id, ptr>>
    BY <1>1, <1>2 DEF PairsOf
  <2> QED  BY <2>1, <2>2, <2>3
<1> QED  BY <1>2, <1>3, <1>4, <1>5 DEF Table!Linked, Table!pt_table_node_new, new, node

\* A chain has as many nodes as positions.
LEMMA ChainShape ==
    ASSUME NEW chain \in Seq(Nodes)
    PROVE  /\ Len(chain) \in Nat /\ DOMAIN chain = 1..Len(chain)
           /\ \A j \in 1..Len(chain) :
                  chain[j] \in Nodes /\ chain[j].id \in Ids /\ chain[j].ptr \in Ptrs
<1>1. Len(chain) \in Nat /\ DOMAIN chain = 1..Len(chain)
  OBVIOUS
<1>2. \A j \in 1..Len(chain) : chain[j] \in Nodes
  OBVIOUS
<1>3. \A node \in Nodes : node.id \in Ids /\ node.ptr \in Ptrs
  BY DEF Nodes
<1> QED  BY <1>1, <1>2, <1>3

\* A function on 1..n is a sequence.
LEMMA FunctionIsSequence ==
    ASSUME NEW S, NEW n \in Nat, NEW f, f \in [1..n -> S]
    PROVE  f \in Seq(S) /\ Len(f) = n
OBVIOUS

\* A node is unlinked.
LEMMA UnlinkedChain ==
    ASSUME NEW chain \in Seq(Nodes), Distinct(chain), NEW j \in DOMAIN chain
    PROVE  LET new == Table!Unlinked(chain, j)
           IN  /\ new \in Seq(Nodes) /\ Distinct(new)
               /\ Table!IdsOf(new) = Table!IdsOf(chain) \ {chain[j].id}
               /\ PairsOf(new) = PairsOf(chain) \ {<<chain[j].id, chain[j].ptr>>}
               /\ \A x : x # chain[j].id => From(new, x) = From(chain, x) \ {chain[j].id}
<1> DEFINE new == Table!Unlinked(chain, j)
           old(k) == IF k < j THEN k ELSE k + 1
           place(m) == IF m < j THEN m ELSE m - 1
           n == Len(chain)
<1>1. /\ n \in Nat /\ DOMAIN chain = 1..n /\ n - 1 \in Nat /\ j \in 1..n
      /\ \A i \in 1..n : chain[i] \in Nodes
  BY ChainShape
<1>2. new \in [1..(n - 1) -> Nodes] /\ \A k \in 1..(n - 1) : new[k] = chain[old(k)]
  BY <1>1 DEF Table!Unlinked
<1> HIDE DEF new
<1>3. new \in Seq(Nodes) /\ DOMAIN new = 1..(n - 1)
  BY <1>1, <1>2, FunctionIsSequence
<1>4. \A k \in 1..(n - 1) : old(k) \in 1..n /\ old(k) # j
  BY <1>1
<1>5. \A m \in 1..n : m # j =>
          place(m) \in 1..(n - 1) /\ old(place(m)) = m /\ new[place(m)] = chain[m]
  BY <1>1, <1>2
<1>6. \A k, l \in 1..(n - 1) : (k <= l <=> old(k) <= old(l)) /\ (old(k) = old(l) => k = l)
  BY <1>1
<1>7. \A k, l \in 1..n : k # j /\ l # j /\ k <= l => place(k) <= place(l)
  BY <1>1
<1> HIDE DEF old, place, n
<1>8. Distinct(new)
  BY <1>1, <1>2, <1>3, <1>4, <1>6 DEF Distinct
<1>9. Table!IdsOf(new) = Table!IdsOf(chain) \ {chain[j].id}
  <2>1. ASSUME NEW x \in Table!IdsOf(new) PROVE x \in Table!IdsOf(chain) \ {chain[j].id}
    BY <1>1, <1>2, <1>3, <1>4 DEF Table!IdsOf, Distinct
  <2>2. ASSUME NEW x \in Table!IdsOf(chain) \ {chain[j].id} PROVE x \in Table!IdsOf(new)
    <3>1. PICK m \in 1..n : chain[m].id = x
      BY <1>1 DEF Table!IdsOf
    <3>2. m # j
      BY <3>1
    <3>3. place(m) \in 1..(n - 1) /\ new[place(m)].id = x
      BY <1>5, <3>1, <3>2
    <3> QED  BY <1>3, <3>3 DEF Table!IdsOf
  <2> QED  BY <2>1, <2>2
<1>10. PairsOf(new) = PairsOf(chain) \ {<<chain[j].id, chain[j].ptr>>}
  <2>1. ASSUME NEW x \in PairsOf(new)
        PROVE  x \in PairsOf(chain) \ {<<chain[j].id, chain[j].ptr>>}
    <3>1. PICK k \in 1..(n - 1) : x = <<new[k].id, new[k].ptr>>
      BY <1>3 DEF PairsOf
    <3>2. x = <<chain[old(k)].id, chain[old(k)].ptr>> /\ old(k) \in 1..n /\ old(k) # j
      BY <1>2, <1>4, <3>1
    <3>3. chain[old(k)].id # chain[j].id
      BY <1>1, <3>2 DEF Distinct
    <3> QED  BY <1>1, <3>2, <3>3 DEF PairsOf
  <2>2. ASSUME NEW x \in PairsOf(chain) \ {<<chain[j].id, chain[j].ptr>>}
        PROVE  x \in PairsOf(new)
    <3>1. PICK m \in 1..n : x = <<chain[m].id, chain[m].ptr>>
      BY <1>1 DEF PairsOf
    <3>2. m # j
      BY <3>1
    <3>3. place(m) \in 1..(n - 1) /\ new[place(m)] = chain[m]
      BY <1>5, <3>1, <3>2
    <3> QED  BY <1>3, <3>1, <3>3 DEF PairsOf
  <2> QED  BY <2>1, <2>2
<1>11. ASSUME NEW x, x # chain[j].id PROVE From(new, x) = From(chain, x) \ {chain[j].id}
  <2>1. ASSUME NEW y \in From(new, x) PROVE y \in From(chain, x) \ {chain[j].id}
    <3>1. PICK m \in 1..(n - 1), k \in 1..(n - 1) :
              y = new[m].id /\ k <= m /\ new[k].id = x
      BY <1>3 DEF From
    <3>2. /\ y = chain[old(m)].id /\ chain[old(k)].id = x /\ old(k) <= old(m)
          /\ old(m) \in 1..n /\ old(k) \in 1..n /\ old(m) # j
      BY <1>2, <1>4, <1>6, <3>1
    <3>3. y # chain[j].id
      BY <1>1, <3>2 DEF Distinct
    <3> QED  BY <1>1, <3>2, <3>3 DEF From
  <2>2. ASSUME NEW y \in From(chain, x) \ {chain[j].id} PROVE y \in From(new, x)
    <3>1. PICK m \in 1..n, k \in 1..n : y = chain[m].id /\ k <= m /\ chain[k].id = x
      BY <1>1 DEF From
    <3>2. m # j /\ k # j
      BY <3>1, <1>11
    <3>3. /\ place(m) \in 1..(n - 1) /\ place(k) \in 1..(n - 1) /\ place(k) <= place(m)
          /\ new[place(m)].id = y /\ new[place(k)].id = x
      BY <1>5, <1>7, <3>1, <3>2
    <3> QED  BY <1>3, <3>3 DEF From
  <2> QED  BY <2>1, <2>2
<1> QED  BY <1>3, <1>8, <1>9, <1>10, <1>11 DEF new

\* The cursor at the beginning and at the end of a chain.
LEMMA CursorEnds ==
    ASSUME NEW chain \in Seq(Nodes), Ids \subseteq Nat
    PROVE  /\ From(chain, Table!End) = {}
           /\ chain = <<>> => Table!IdsOf(chain) = {}
           /\ chain # <<>> => /\ chain[1].id \in Table!IdsOf(chain)
                              /\ From(chain, chain[1].id) = Table!IdsOf(chain)
<1>1. /\ Len(chain) \in Nat /\ DOMAIN chain = 1..Len(chain)
      /\ \A j \in 1..Len(chain) : chain[j].id \in Ids
  BY ChainShape
<1>2. From(chain, Table!End) = {}
  BY <1>1 DEF From, Table!End
<1>3. chain = <<>> => Table!IdsOf(chain) = {}
  BY DEF Table!IdsOf
<1>4. ASSUME chain # <<>>
      PROVE  chain[1].id \in Table!IdsOf(chain) /\ From(chain, chain[1].id) = Table!IdsOf(chain)
  <2>1. 1 \in DOMAIN chain /\ \A m \in DOMAIN chain : 1 <= m
    BY <1>4
  <2>2. ASSUME NEW x \in Table!IdsOf(chain) PROVE x \in From(chain, chain[1].id)
    BY <2>1 DEF From, Table!IdsOf
  <2>3. ASSUME NEW x \in From(chain, chain[1].id) PROVE x \in Table!IdsOf(chain)
    BY DEF From, Table!IdsOf
  <2> QED  BY <2>1, <2>2, <2>3 DEF Table!IdsOf
<1> QED  BY <1>2, <1>3, <1>4

\* The cursor moves to the next node.
LEMMA CursorMoves ==
    ASSUME NEW chain \in Seq(Nodes), Distinct(chain), Ids \subseteq Nat,
           NEW x \in Table!IdsOf(chain)
    PROVE  LET y == Table!NextOf(chain, x)
           IN  /\ y = Table!End \/ (y \in Table!IdsOf(chain) /\ y # x)
               /\ From(chain, y) = From(chain, x) \ {x}
               /\ x \in From(chain, x)
<1> DEFINE y == Table!NextOf(chain, x)
           n == Len(chain)
<1>1. n \in Nat /\ DOMAIN chain = 1..n /\ \A j \in 1..n : chain[j].id \in Ids
  BY ChainShape
<1> HIDE DEF n, y
<1>2. PICK k \in 1..n : chain[k].id = x
  BY <1>1 DEF Table!IdsOf
<1>3. \A j \in 1..n : chain[j].id = x => j = k
  BY <1>1, <1>2 DEF Distinct
<1>4. x \in From(chain, x)
  BY <1>1, <1>2 DEF From
<1>5. CASE k = n
  <2>1. y = Table!End
    <3>1. \A j \in 1..n : j > 1 => j - 1 \in 1..n /\ j - 1 # k
      BY <1>1, <1>5
    <3>2. {j \in DOMAIN chain : j > 1 /\ chain[j - 1].id = x} = {}
      BY <1>1, <1>3, <3>1
    <3> QED  BY <3>2 DEF Table!NextOf, y
  <2>2. From(chain, x) \ {x} = {}
    <3>1. ASSUME NEW z \in From(chain, x) PROVE z = x
      <4>1. PICK m \in 1..n, i \in 1..n : z = chain[m].id /\ i <= m /\ chain[i].id = x
        BY <1>1 DEF From
      <4>2. m = n
        BY <1>1, <1>3, <1>5, <4>1
      <4> QED  BY <1>2, <1>5, <4>1, <4>2
    <3> QED  BY <3>1
  <2> QED  BY <1>4, <2>1, <2>2, CursorEnds DEF y
<1>6. CASE k # n
  <2>1. k + 1 \in 1..n /\ k + 1 > 1 /\ (k + 1) - 1 = k
    BY <1>1, <1>6
  <2>2. {j \in DOMAIN chain : j > 1 /\ chain[j - 1].id = x} = {k + 1}
    <3>1. ASSUME NEW j \in 1..n, j > 1, chain[j - 1].id = x PROVE j = k + 1
      <4>1. j - 1 \in 1..n
        BY <1>1, <3>1
      <4>2. j - 1 = k
        BY <1>3, <3>1, <4>1
      <4> QED  BY <4>2
    <3> QED  BY <1>1, <1>2, <2>1, <3>1
  <2>3. y = chain[k + 1].id
    BY <2>2 DEF Table!NextOf, y
  <2>4. y \in Table!IdsOf(chain) /\ y # x
    BY <1>1, <1>3, <2>1, <2>3 DEF Table!IdsOf
  <2>5. \A j \in 1..n : chain[j].id = y => j = k + 1
    BY <1>1, <2>1, <2>3 DEF Distinct
  <2>6. ASSUME NEW z \in From(chain, y) PROVE z \in From(chain, x) \ {x}
    <3>1. PICK m \in 1..n, i \in 1..n : z = chain[m].id /\ i <= m /\ chain[i].id = y
      BY <1>1 DEF From
    <3>2. i = k + 1 /\ k <= m /\ m # k
      BY <1>1, <2>5, <3>1
    <3>3. z # x
      BY <1>3, <3>1, <3>2
    <3> QED  BY <1>1, <1>2, <3>1, <3>2, <3>3 DEF From
  <2>7. ASSUME NEW z \in From(chain, x) \ {x} PROVE z \in From(chain, y)
    <3>1. PICK m \in 1..n, i \in 1..n : z = chain[m].id /\ i <= m /\ chain[i].id = x
      BY <1>1 DEF From
    <3>2. i = k /\ m # k
      BY <1>2, <1>3, <3>1, <2>7
    <3>3. k + 1 <= m
      BY <1>1, <3>1, <3>2
    <3> QED  BY <1>1, <2>1, <2>3, <3>1, <3>3 DEF From
  <2> QED  BY <1>4, <2>4, <2>6, <2>7 DEF y
<1> QED  BY <1>5, <1>6

-----------------------------------------------------------------------------
(* The whole table.                                                        *)

\* Every chain has the nodes of its index, and no GUID twice.
Chains ==
    /\ head \in [Table!Buckets -> Seq(Nodes)]
    /\ \A i \in Table!Buckets : Distinct(head[i])
    /\ \A i \in Table!Buckets : \A id \in Table!IdsOf(head[i]) : Table!Index(id) = i

\* size counts the contexts.
Counted == IsFiniteSet(Table!Pairs) /\ size = Cardinality(Table!Pairs)

\* What pt_table_enum has still to call the callback for.
Ahead ==
    From(head[cursor.bucket], cursor.node)
        \cup UNION {Table!IdsOf(head[i]) : i \in {k \in Table!Buckets : k > cursor.bucket}}

\* The cursor is on a node of its chain, and what was in the table when the
\* enumeration began was visited or is ahead.
CursorSound ==
    \/ cursor = Table!NoEnum
    \/ /\ cursor \in [bucket : Table!Buckets, node : Ids \cup {Table!End}]
       /\ cursor.node = Table!End \/ cursor.node \in Table!IdsOf(head[cursor.bucket])
       /\ expected = visited \cup Ahead

\* The inductive invariant.
TableInv == Chains /\ Counted /\ CursorSound /\ visited \subseteq Ids /\ expected \subseteq Ids

\* A GUID has a chain.
LEMMA IndexIsBucket ==
    ASSUME Granularity \in Nat \ {0}, Ids \subseteq Nat
    PROVE  \A id \in Ids : Table!Index(id) \in Table!Buckets
BY DEF Table!Index, Table!Buckets

\* The table is made of its chains.
LEMMA Parts ==
    /\ \A x : x \in Table!Pairs <=> \E i \in Table!Buckets : x \in PairsOf(head[i])
    /\ \A x : x \in Table!Contents <=> \E i \in Table!Buckets : x \in Table!IdsOf(head[i])
<1>1. Table!Pairs = UNION {PairsOf(head[i]) : i \in Table!Buckets}
  BY DEF Table!Pairs, PairsOf
<1> QED  BY <1>1 DEF Table!Contents

\* The first of a pair is its GUID.
LEMMA PairFirst ==
    ASSUME NEW chain
    PROVE  /\ \A x \in PairsOf(chain) : x[1] \in Table!IdsOf(chain)
           /\ \A id \in Table!IdsOf(chain) : \E x \in PairsOf(chain) : x[1] = id
<1>1. \A a, c : <<a, c>>[1] = a
  OBVIOUS
<1>2. ASSUME NEW x \in PairsOf(chain) PROVE x[1] \in Table!IdsOf(chain)
  <2>1. PICK j \in DOMAIN chain : x = <<chain[j].id, chain[j].ptr>>
    BY DEF PairsOf
  <2> QED  BY <1>1, <2>1 DEF Table!IdsOf
<1>3. ASSUME NEW id \in Table!IdsOf(chain) PROVE \E x \in PairsOf(chain) : x[1] = id
  <2>1. PICK j \in DOMAIN chain : id = chain[j].id
    BY DEF Table!IdsOf
  <2>2. <<chain[j].id, chain[j].ptr>> \in PairsOf(chain)
    BY DEF PairsOf
  <2> QED  BY <1>1, <2>1, <2>2
<1> QED  BY <1>2, <1>3

\* The GUIDs of the pairs are those of the table.
LEMMA KeysAreContents == \A id : id \in Table!Contents <=> \E x \in Table!Pairs : x[1] = id
BY Parts, PairFirst

\* pt_table_insert of a new GUID.
LEMMA Inserted ==
    ASSUME Granularity \in Nat \ {0}, Ids \subseteq Nat, Chains, Counted,
           NEW id \in Ids, NEW ptr \in Ptrs, id \notin Table!Contents,
           Table!pt_table_insert(id, ptr)
    PROVE  Chains' /\ Counted' /\ Table!Pairs' = Table!Pairs \cup {<<id, ptr>>}
<1> DEFINE b == Table!Index(id)
           chain == head[b]
           new == Table!Linked(chain, Table!pt_table_node_new(id, ptr))
<1>1. b \in Table!Buckets
  BY IndexIsBucket
<1>2. chain \in Seq(Nodes) /\ Distinct(chain) /\ id \notin Table!IdsOf(chain)
  BY <1>1, Parts DEF Chains
<1>3. /\ new \in Seq(Nodes) /\ Distinct(new) /\ Table!IdsOf(new) = Table!IdsOf(chain) \cup {id}
      /\ PairsOf(new) = PairsOf(chain) \cup {<<id, ptr>>}
  BY <1>2, LinkedChain
<1>4. /\ head' = [head EXCEPT ![b] = new] /\ size' = size + 1
      /\ head \in [Table!Buckets -> Seq(Nodes)]
  BY DEF Table!pt_table_insert, Chains
<1>5. \A i \in Table!Buckets : IF i = b THEN head'[i] = new ELSE head'[i] = head[i]
  BY <1>4
<1> HIDE DEF new
<1>6. Chains'
  <2>1. head' \in [Table!Buckets -> Seq(Nodes)]
    BY <1>3, <1>4
  <2>2. \A i \in Table!Buckets : Distinct(head'[i])
    BY <1>3, <1>5 DEF Chains
  <2>3. \A i \in Table!Buckets : \A x \in Table!IdsOf(head'[i]) : Table!Index(x) = i
    BY <1>1, <1>3, <1>5 DEF Chains
  <2> QED  BY <2>1, <2>2, <2>3 DEF Chains
<1>7. Table!Pairs' = Table!Pairs \cup {<<id, ptr>>}
  <2>1. \A x : x \in Table!Pairs' <=> \E i \in Table!Buckets : x \in PairsOf(head'[i])
    <3>1. (\A x : x \in Table!Pairs <=> \E i \in Table!Buckets : x \in PairsOf(head[i]))'
      BY Parts, PTL
    <3> QED  BY <3>1 DEF PairsOf, Table!Buckets
  <2>2. ASSUME NEW x PROVE x \in Table!Pairs' <=> x \in Table!Pairs \/ x = <<id, ptr>>
    BY <1>1, <1>3, <1>5, <2>1, Parts
  <2> QED  BY <2>2
<1>8. <<id, ptr>> \notin Table!Pairs
  <2>1. <<id, ptr>>[1] = id
    OBVIOUS
  <2> QED  BY <2>1, KeysAreContents
<1>9. Counted'
  BY <1>4, <1>7, <1>8, FS_AddElement DEF Counted
<1> QED  BY <1>6, <1>7, <1>9

\* pt_table_erase.
LEMMA Erased ==
    ASSUME Granularity \in Nat \ {0}, Ids \subseteq Nat, Chains, Counted,
           NEW id \in Ids, Table!pt_table_erase(id)
    PROVE  /\ Chains' /\ Counted' /\ Table!Pairs' = {pair \in Table!Pairs : pair[1] # id}
           /\ \A i \in Table!Buckets : Table!IdsOf(head'[i]) = Table!IdsOf(head[i]) \ {id}
           /\ \A i \in Table!Buckets : \A x :
                  x # id => From(head'[i], x) = From(head[i], x) \ {id}
<1> DEFINE b == Table!Index(id)
           chain == head[b]
<1>1. b \in Table!Buckets
  BY IndexIsBucket
<1>2. chain \in Seq(Nodes) /\ Distinct(chain)
  BY <1>1 DEF Chains
<1>3. \A i \in Table!Buckets : i # b => id \notin Table!IdsOf(head[i])
  BY DEF Chains
<1>4. CASE id \notin Table!IdsOf(chain)
  <2>1. UNCHANGED Table!table
    BY <1>4 DEF Table!pt_table_erase
  <2>2. \A i \in Table!Buckets : id \notin Table!IdsOf(head[i])
    BY <1>3, <1>4
  <2>3. Table!Pairs' = Table!Pairs /\ \A x \in Table!Pairs : x[1] # id
    BY <2>1, <2>2, Parts, PairFirst DEF Table!table, Table!Pairs
  <2>4. Chains' /\ Counted'
    BY <2>1, <2>3 DEF Table!table, Chains, Counted
  <2>5. \A i \in Table!Buckets : \A x : id \notin From(head[i], x)
    BY <2>2 DEF From, Table!IdsOf
  <2>6. head' = head
    BY <2>1 DEF Table!table
  <2> QED  BY <2>2, <2>3, <2>4, <2>5, <2>6
<1>5. CASE id \in Table!IdsOf(chain)
  <2>1. PICK j \in DOMAIN chain :
            chain[j].id = id /\ head' = [head EXCEPT ![b] = Table!Unlinked(chain, j)]
    BY <1>5 DEF Table!pt_table_erase
  <2>2. size' = size - 1
    BY <1>5 DEF Table!pt_table_erase
  <2> DEFINE new == Table!Unlinked(chain, j)
             pair == <<id, chain[j].ptr>>
  <2>3. /\ new \in Seq(Nodes) /\ Distinct(new) /\ Table!IdsOf(new) = Table!IdsOf(chain) \ {id}
        /\ PairsOf(new) = PairsOf(chain) \ {pair}
        /\ \A x : x # id => From(new, x) = From(chain, x) \ {id}
    BY <1>2, <2>1, UnlinkedChain
  <2>4. \A i \in Table!Buckets : IF i = b THEN head'[i] = new ELSE head'[i] = head[i]
    BY <2>1 DEF Chains
  <2>5. head' \in [Table!Buckets -> Seq(Nodes)]
    BY <2>1, <2>3 DEF Chains
  <2>6. pair \in PairsOf(chain) /\ pair[1] = id /\ \A x \in PairsOf(chain) : x[1] = id => x = pair
    <3>1. ASSUME NEW k \in DOMAIN chain, chain[k].id = id PROVE k = j
      BY <1>2, <2>1, <3>1 DEF Distinct
    <3> QED  BY <2>1, <3>1 DEF PairsOf
  <2> HIDE DEF new, pair
  <2>7. \A i \in Table!Buckets : Table!IdsOf(head'[i]) = Table!IdsOf(head[i]) \ {id}
    BY <1>3, <2>3, <2>4
  <2>8. Chains'
    <3>1. \A i \in Table!Buckets : Distinct(head'[i])
      BY <2>3, <2>4 DEF Chains
    <3>2. \A i \in Table!Buckets : \A x \in Table!IdsOf(head'[i]) : Table!Index(x) = i
      BY <2>7 DEF Chains
    <3> QED  BY <2>5, <3>1, <3>2 DEF Chains
  <2>9. \A i \in Table!Buckets : \A x : x # id => From(head'[i], x) = From(head[i], x) \ {id}
    <3>1. \A i \in Table!Buckets : i # b => \A x : id \notin From(head[i], x)
      BY <1>3 DEF From, Table!IdsOf
    <3>2. ASSUME NEW i \in Table!Buckets, i # b, NEW x
          PROVE  From(head'[i], x) = From(head[i], x) \ {id}
      <4>1. head'[i] = head[i]
        BY <2>4, <3>2
      <4>2. id \notin From(head[i], x)
        BY <3>1, <3>2
      <4> QED  BY <4>1, <4>2
    <3>3. ASSUME NEW x, x # id PROVE From(head'[b], x) = From(head[b], x) \ {id}
      BY <1>1, <2>3, <2>4, <3>3
    <3> QED  BY <3>2, <3>3
  <2>10. \A x : x \in Table!Pairs' <=> \E i \in Table!Buckets : x \in PairsOf(head'[i])
    <3>1. (\A x : x \in Table!Pairs <=> \E i \in Table!Buckets : x \in PairsOf(head[i]))'
      BY Parts, PTL
    <3> QED  BY <3>1 DEF PairsOf, Table!Buckets
  <2>11. \A i \in Table!Buckets : i # b => \A x \in PairsOf(head[i]) : x[1] # id
    BY <1>3, PairFirst
  <2>12. Table!Pairs' = Table!Pairs \ {pair}
    <3>1. ASSUME NEW x PROVE x \in Table!Pairs' <=> x \in Table!Pairs /\ x # pair
      BY <1>1, <2>3, <2>4, <2>6, <2>10, <2>11, Parts
    <3> QED  BY <3>1
  <2>13. \A x \in Table!Pairs : x[1] = id <=> x = pair
    BY <2>6, <2>11, Parts
  <2>14. pair \in Table!Pairs
    BY <1>1, <2>6, Parts
  <2>15. Counted'
    BY <2>2, <2>12, <2>14, FS_RemoveElement DEF Counted
  <2>16. Table!Pairs' = {p \in Table!Pairs : p[1] # id}
    BY <2>12, <2>13
  <2> QED  BY <2>7, <2>8, <2>9, <2>15, <2>16
<1> QED  BY <1>4, <1>5

\* pt_table_clear.
LEMMA Cleared ==
    ASSUME Chains, Table!pt_table_clear
    PROVE  Chains' /\ Counted' /\ Table!Pairs' = {}
<1>1. head' = [i \in Table!Buckets |-> <<>>] /\ size' = 0
  BY DEF Table!pt_table_clear, Table!pt_table_free_node
<1>2. Distinct(<<>>) /\ Table!IdsOf(<<>>) = {} /\ PairsOf(<<>>) = {} /\ <<>> \in Seq(Nodes)
  BY DEF Distinct, Table!IdsOf, PairsOf
<1>3. \A i \in Table!Buckets : head'[i] = <<>>
  BY <1>1
<1>4. Chains'
  BY <1>1, <1>2, <1>3 DEF Chains
<1>5. Table!Pairs' = {}
  <2>1. (\A x : x \in Table!Pairs <=> \E i \in Table!Buckets : x \in PairsOf(head[i]))'
    BY Parts, PTL
  <2>2. \A x : x \in Table!Pairs' <=> \E i \in Table!Buckets : x \in PairsOf(head'[i])
    BY <2>1 DEF PairsOf, Table!Buckets
  <2> QED  BY <1>2, <1>3, <2>2
<1> QED  BY <1>1, <1>4, <1>5, FS_EmptySet DEF Counted

-----------------------------------------------------------------------------
(* The steps of the table and of its enumeration.                          *)

\* The constructor.
LEMMA TableInit == Granularity \in Nat \ {0} /\ Table!Init => TableInv
<1> SUFFICES ASSUME Table!Init PROVE TableInv
  OBVIOUS
<1>1. /\ head = [i \in Table!Buckets |-> <<>>] /\ size = 0 /\ cursor = Table!NoEnum
      /\ visited = {} /\ expected = {}
  BY DEF Table!Init
<1>2. Distinct(<<>>) /\ Table!IdsOf(<<>>) = {} /\ PairsOf(<<>>) = {} /\ <<>> \in Seq(Nodes)
  BY DEF Distinct, Table!IdsOf, PairsOf
<1>3. \A i \in Table!Buckets : head[i] = <<>>
  BY <1>1
<1>4. Chains
  BY <1>1, <1>2, <1>3 DEF Chains
<1>5. Table!Pairs = {}
  BY <1>2, <1>3, Parts
<1>6. Counted
  BY <1>1, <1>5, FS_EmptySet DEF Counted
<1>7. CursorSound
  BY <1>1 DEF CursorSound
<1> QED  BY <1>1, <1>4, <1>6, <1>7 DEF TableInv

\* A call under m_ContextLock finds no enumeration and begins none.
LEMMA LockedCalls ==
    ASSUME Granularity \in Nat \ {0}, Ids \subseteq Nat, TableInv,
           \/ \E id \in Ids : Table!DeleteContext(id) \/ \E p \in Ptrs : Table!AddContext(id, p)
           \/ Table!ClearAll
    PROVE  TableInv' /\ [Table!Map!Next]_Table!Pairs
<1>1. Chains /\ Counted
  BY DEF TableInv
<1>2. (Chains' /\ Counted' /\ UNCHANGED <<cursor, visited, expected>> /\ cursor = Table!NoEnum)
          => TableInv'
  BY DEF TableInv, CursorSound, Table!NoEnum, Table!End
<1>3. ASSUME NEW id \in Ids, Table!DeleteContext(id) PROVE TableInv' /\ Table!Map!Next
  <2>1. /\ cursor = Table!NoEnum /\ UNCHANGED <<cursor, visited, expected>> /\ Table!pt_table_erase(id)
    BY <1>3 DEF Table!DeleteContext, Table!Locked
  <2>2. Chains' /\ Counted' /\ Table!Pairs' = {pair \in Table!Pairs : pair[1] # id}
    BY <1>1, <2>1, Erased
  <2>3. Table!Map!Next
    BY <2>2 DEF Table!Map!Next, Table!Map!Remove
  <2> QED  BY <1>2, <2>1, <2>2, <2>3
<1>4. ASSUME NEW id \in Ids, NEW p \in Ptrs, Table!AddContext(id, p) PROVE TableInv' /\ Table!Map!Next
  <2>1. /\ cursor = Table!NoEnum /\ UNCHANGED <<cursor, visited, expected>>
        /\ Table!pt_table_insert(id, p) /\ id \notin Table!Contents
    BY <1>4 DEF Table!AddContext, Table!Locked
  <2>2. Chains' /\ Counted' /\ Table!Pairs' = Table!Pairs \cup {<<id, p>>}
    BY <1>1, <2>1, Inserted
  <2>3. id \notin Table!Map!Keys
    BY <2>1, KeysAreContents DEF Table!Map!Keys
  <2>4. Table!Map!Next
    BY <2>2, <2>3 DEF Table!Map!Next, Table!Map!Put
  <2> QED  BY <1>2, <2>1, <2>2, <2>4
<1>5. ASSUME Table!ClearAll PROVE TableInv' /\ Table!Map!Next
  <2>1. cursor = Table!NoEnum /\ UNCHANGED <<cursor, visited, expected>> /\ Table!pt_table_clear
    BY <1>5 DEF Table!ClearAll, Table!Locked
  <2>2. Chains' /\ Counted' /\ Table!Pairs' = {}
    BY <1>1, <2>1, Cleared
  <2> QED  BY <1>2, <2>1, <2>2 DEF Table!Map!Next
<1> QED  BY <1>3, <1>4, <1>5

\* Nothing but the cursor moves.
LEMMA TableRests ==
    ASSUME UNCHANGED Table!table
    PROVE  /\ head' = head /\ Table!Pairs' = Table!Pairs
           /\ Chains <=> Chains'
           /\ Counted <=> Counted'
BY DEF Table!table, Table!Pairs, Chains, Counted

\* The enumeration enters a chain.
LEMMA ChainEntered ==
    ASSUME Ids \subseteq Nat, Chains, NEW i \in Table!Buckets
    PROVE  /\ From(head[i], Table!FirstOf(i)) = Table!IdsOf(head[i])
           /\ Table!FirstOf(i) \in Ids \cup {Table!End}
           /\ Table!FirstOf(i) = Table!End \/ Table!FirstOf(i) \in Table!IdsOf(head[i])
<1>1. head[i] \in Seq(Nodes)
  BY DEF Chains
<1>2. \A x \in Table!IdsOf(head[i]) : x \in Ids
  BY <1>1, ChainShape DEF Table!IdsOf
<1> QED  BY <1>1, <1>2, CursorEnds DEF Table!FirstOf

\* pt_table_enum begins.
LEMMA Begins ==
    ASSUME Granularity \in Nat \ {0}, Ids \subseteq Nat, TableInv, Table!EnumBegin
    PROVE  TableInv' /\ Table!Pairs' = Table!Pairs
<1>1. /\ cursor' = [bucket |-> 0, node |-> Table!FirstOf(0)] /\ visited' = {}
      /\ expected' = Table!Contents /\ UNCHANGED Table!table
  BY DEF Table!EnumBegin
<1>2. Chains /\ Counted /\ 0 \in Table!Buckets
  BY DEF TableInv, Table!Buckets
<1>3. Chains' /\ Counted' /\ head' = head /\ Table!Pairs' = Table!Pairs
  BY <1>1, <1>2, TableRests
<1>4. /\ From(head[0], Table!FirstOf(0)) = Table!IdsOf(head[0]) /\ Table!FirstOf(0) \in Ids \cup {Table!End}
      /\ Table!FirstOf(0) = Table!End \/ Table!FirstOf(0) \in Table!IdsOf(head[0])
  BY <1>2, ChainEntered
<1>5. cursor'.bucket = 0 /\ cursor'.node = Table!FirstOf(0)
  BY <1>1
<1>6. Ahead' = Table!Contents
  <2> DEFINE rest == UNION {Table!IdsOf(head[i]) : i \in {k \in Table!Buckets : k > 0}}
  <2>1. Ahead' = Table!IdsOf(head[0]) \cup rest
    <3>1. Ahead' = From(head'[cursor'.bucket], cursor'.node)
              \cup UNION {Table!IdsOf(head'[i]) : i \in {k \in Table!Buckets : k > cursor'.bucket}}
      BY DEF Ahead, From, Table!IdsOf, Table!Buckets
    <3> QED  BY <1>3, <1>4, <1>5, <3>1
  <2>2. \A k \in Table!Buckets : k = 0 \/ k > 0
    BY DEF Table!Buckets
  <2> QED  BY <1>2, <2>1, <2>2 DEF Table!Contents
<1>7. \A x \in Table!Contents : x \in Ids
  <2>1. \A i \in Table!Buckets : \A x \in Table!IdsOf(head[i]) : x \in Ids
    BY <1>2, ChainShape DEF Table!IdsOf, Chains
  <2> QED  BY <2>1, Parts
<1>8. cursor' \in [bucket : Table!Buckets, node : Ids \cup {Table!End}]
  BY <1>1, <1>2, <1>4
<1>9. CursorSound'
  <2>1. cursor'.node = Table!End \/ cursor'.node \in Table!IdsOf(head'[cursor'.bucket])
    BY <1>3, <1>4, <1>5
  <2>2. expected' = visited' \cup Ahead'
    BY <1>1, <1>6
  <2> QED  BY <1>8, <2>1, <2>2 DEF CursorSound, Table!IdsOf, Table!Buckets
<1> QED  BY <1>1, <1>3, <1>7, <1>9 DEF TableInv

\* pt_table_enum goes to the next chain.
LEMMA GoesOn ==
    ASSUME Granularity \in Nat \ {0}, Ids \subseteq Nat, TableInv, Table!EnumNext
    PROVE  TableInv' /\ Table!Pairs' = Table!Pairs
<1> DEFINE b == cursor.bucket
<1>1. /\ cursor # Table!NoEnum /\ cursor.node = Table!End /\ b < Granularity - 1
      /\ cursor' = [bucket |-> b + 1, node |-> Table!FirstOf(b + 1)]
      /\ UNCHANGED <<Table!table, visited, expected>>
  BY DEF Table!EnumNext
<1>2. Chains /\ Counted
  BY DEF TableInv
<1>3. /\ cursor \in [bucket : Table!Buckets, node : Ids \cup {Table!End}]
      /\ expected = visited \cup Ahead
  BY <1>1 DEF TableInv, CursorSound
<1>4. b \in Table!Buckets /\ b + 1 \in Table!Buckets
  BY <1>1, <1>3 DEF Table!Buckets
<1>5. Chains' /\ Counted' /\ head' = head /\ Table!Pairs' = Table!Pairs
  BY <1>1, <1>2, TableRests
<1>6. /\ From(head[b + 1], Table!FirstOf(b + 1)) = Table!IdsOf(head[b + 1])
      /\ Table!FirstOf(b + 1) \in Ids \cup {Table!End}
      /\ Table!FirstOf(b + 1) = Table!End \/ Table!FirstOf(b + 1) \in Table!IdsOf(head[b + 1])
  BY <1>2, <1>4, ChainEntered
<1>7. cursor'.bucket = b + 1 /\ cursor'.node = Table!FirstOf(b + 1)
  BY <1>1
<1>8. From(head[b], cursor.node) = {}
  BY <1>1, <1>2, <1>4, CursorEnds DEF Chains
<1> HIDE DEF b
<1>9. Ahead' = Ahead
  <2>1. Ahead' = Table!IdsOf(head[b + 1])
                     \cup UNION {Table!IdsOf(head[i]) : i \in {k \in Table!Buckets : k > b + 1}}
    BY <1>5, <1>6, <1>7 DEF Ahead, From, Table!IdsOf, Table!Buckets
  <2>2. Ahead = UNION {Table!IdsOf(head[i]) : i \in {k \in Table!Buckets : k > b}}
    BY <1>8 DEF Ahead, b
  <2>3. \A k \in Table!Buckets : k > b <=> k = b + 1 \/ k > b + 1
    BY <1>4 DEF Table!Buckets
  <2> QED  BY <1>4, <2>1, <2>2, <2>3
<1>10. CursorSound'
  <2>1. cursor' \in [bucket : Table!Buckets, node : Ids \cup {Table!End}]
    BY <1>1, <1>4, <1>6 DEF b
  <2>2. cursor'.node = Table!End \/ cursor'.node \in Table!IdsOf(head'[cursor'.bucket])
    BY <1>5, <1>6, <1>7
  <2>3. expected' = visited' \cup Ahead'
    BY <1>1, <1>3, <1>9
  <2> QED  BY <2>1, <2>2, <2>3 DEF CursorSound, Table!IdsOf, Table!Buckets
<1> QED  BY <1>1, <1>5, <1>10 DEF TableInv

\* pt_table_enum calls the callback, which may erase the node.
LEMMA Visits ==
    ASSUME Granularity \in Nat \ {0}, Ids \subseteq Nat, TableInv, Table!EnumVisit
    PROVE  TableInv' /\ [Table!Map!Next]_Table!Pairs
<1> DEFINE b == cursor.bucket
           x == cursor.node
           y == Table!NextOf(head[b], x)
<1>1. /\ x # Table!End /\ visited' = visited \cup {x} /\ cursor' = [cursor EXCEPT !.node = y]
      /\ UNCHANGED Table!table \/ Table!pt_table_erase(x)
      /\ UNCHANGED expected
  BY DEF Table!EnumVisit
<1>2. Chains /\ Counted
  BY DEF TableInv
<1>3. /\ cursor \in [bucket : Table!Buckets, node : Ids \cup {Table!End}]
      /\ x \in Table!IdsOf(head[b]) /\ expected = visited \cup Ahead
  BY <1>1 DEF TableInv, CursorSound, Table!NoEnum
<1>4. b \in Table!Buckets /\ x \in Ids /\ head[b] \in Seq(Nodes) /\ Distinct(head[b])
  BY <1>1, <1>2, <1>3 DEF Chains
<1>5. /\ y = Table!End \/ (y \in Table!IdsOf(head[b]) /\ y # x)
      /\ From(head[b], y) = From(head[b], x) \ {x}
      /\ x \in From(head[b], x)
  BY <1>3, <1>4, CursorMoves
<1>6. y \in Ids \cup {Table!End} /\ y # x
  <2>1. \A z \in Table!IdsOf(head[b]) : z \in Ids
    BY <1>4, ChainShape DEF Table!IdsOf
  <2> QED  BY <1>1, <1>5, <2>1
<1>7. cursor'.bucket = b /\ cursor'.node = y
      /\ cursor' \in [bucket : Table!Buckets, node : Ids \cup {Table!End}]
  BY <1>1, <1>3, <1>6
<1>8. \A k \in Table!Buckets : k > b => x \notin Table!IdsOf(head[k])
  <2>1. \A k \in Table!Buckets : k > b => k # b
    BY <1>4 DEF Table!Buckets
  <2> QED  BY <1>2, <1>3, <1>4, <2>1 DEF Chains
<1>9. /\ Chains' /\ Counted' /\ [Table!Map!Next]_Table!Pairs
      /\ From(head'[b], y) = From(head[b], x) \ {x}
      /\ y = Table!End \/ y \in Table!IdsOf(head'[b])
      /\ \A k \in Table!Buckets : k > b => Table!IdsOf(head'[k]) = Table!IdsOf(head[k])
  <2>1. CASE UNCHANGED Table!table
    BY <1>2, <1>5, <2>1, TableRests
  <2>2. CASE Table!pt_table_erase(x)
    <3>1. /\ Chains' /\ Counted' /\ Table!Pairs' = {pair \in Table!Pairs : pair[1] # x}
          /\ \A i \in Table!Buckets : Table!IdsOf(head'[i]) = Table!IdsOf(head[i]) \ {x}
          /\ \A i \in Table!Buckets : \A z : z # x => From(head'[i], z) = From(head[i], z) \ {x}
      BY <1>2, <1>4, <2>2, Erased
    <3>2. Table!Map!Next
      BY <1>4, <3>1 DEF Table!Map!Next, Table!Map!Remove
    <3>3. From(head'[b], y) = From(head[b], x) \ {x}
      <4>1. From(head'[b], y) = From(head[b], y) \ {x}
        BY <1>4, <1>6, <3>1
      <4> HIDE DEF b, x, y
      <4> QED  BY <1>5, <4>1
    <3>4. y = Table!End \/ y \in Table!IdsOf(head'[b])
      <4>1. Table!IdsOf(head'[b]) = Table!IdsOf(head[b]) \ {x}
        BY <1>4, <3>1
      <4> HIDE DEF b, x, y
      <4> QED  BY <1>5, <4>1
    <3>5. \A k \in Table!Buckets : k > b => Table!IdsOf(head'[k]) = Table!IdsOf(head[k])
      BY <1>8, <3>1
    <3> QED  BY <3>1, <3>2, <3>3, <3>4, <3>5
  <2> QED  BY <1>1, <2>1, <2>2
<1> HIDE DEF b, x, y
<1>10. expected' = visited' \cup Ahead'
  <2>1. Ahead' = (From(head[b], x) \ {x})
                     \cup UNION {Table!IdsOf(head'[i]) : i \in {k \in Table!Buckets : k > b}}
    BY <1>7, <1>9 DEF Ahead, From, Table!IdsOf, Table!Buckets
  <2>2. UNION {Table!IdsOf(head'[i]) : i \in {k \in Table!Buckets : k > b}}
            = UNION {Table!IdsOf(head[i]) : i \in {k \in Table!Buckets : k > b}}
    BY <1>9
  <2>3. Ahead = From(head[b], x) \cup UNION {Table!IdsOf(head[i]) : i \in {k \in Table!Buckets : k > b}}
    BY DEF Ahead, b, x
  <2> QED  BY <1>1, <1>3, <1>5, <2>1, <2>2, <2>3
<1>11. CursorSound'
  BY <1>7, <1>9, <1>10 DEF CursorSound, Table!IdsOf, Table!Buckets
<1>12. visited' \subseteq Ids /\ expected' \subseteq Ids
  BY <1>1, <1>4 DEF TableInv
<1> QED  BY <1>9, <1>11, <1>12 DEF TableInv

\* pt_table_enum returns.
LEMMA Ends == ASSUME TableInv, Table!EnumEnd PROVE TableInv' /\ Table!Pairs' = Table!Pairs
<1>1. cursor' = Table!NoEnum /\ UNCHANGED <<Table!table, visited, expected>>
  BY DEF Table!EnumEnd
<1> QED  BY <1>1, TableRests DEF TableInv, CursorSound

\* Every step keeps the invariant, and is a step of FiniteMap or none.
LEMMA TableStep ==
    ASSUME Granularity \in Nat \ {0}, Ids \subseteq Nat, TableInv, [Table!Next]_Table!vars
    PROVE  TableInv' /\ [Table!Map!Next]_Table!Pairs
<1>1. CASE \/ \E id \in Ids : Table!DeleteContext(id) \/ \E p \in Ptrs : Table!AddContext(id, p)
           \/ Table!ClearAll
  BY <1>1, LockedCalls
<1>2. CASE Table!EnumBegin
  BY <1>2, Begins
<1>3. CASE Table!EnumVisit
  BY <1>3, Visits
<1>4. CASE Table!EnumNext
  BY <1>4, GoesOn
<1>5. CASE Table!EnumEnd
  BY <1>5, Ends
<1>6. CASE UNCHANGED Table!vars
  <2>1. UNCHANGED Table!table /\ UNCHANGED <<cursor, visited, expected>>
    BY <1>6 DEF Table!vars
  <2>2. head' = head /\ Table!Pairs' = Table!Pairs /\ Chains' /\ Counted'
    BY <2>1, TableRests DEF TableInv
  <2>3. CursorSound'
    BY <2>1, <2>2 DEF TableInv, CursorSound, Ahead
  <2> QED  BY <2>1, <2>2, <2>3 DEF TableInv
<1> QED  BY <1>1, <1>2, <1>3, <1>4, <1>5, <1>6 DEF Table!Next

\* GetContext finds the pointer of the only node that has the GUID.
LEMMA Found ==
    ASSUME Granularity \in Nat \ {0}, Ids \subseteq Nat, Chains
    PROVE  Table!FindIsLookup
<1> SUFFICES ASSUME NEW id \in Ids
             PROVE  Table!pt_table_find(id) = {pair[2] : pair \in {p \in Table!Pairs : p[1] = id}}
  BY DEF Table!FindIsLookup, Table!GetContext
<1> DEFINE b == Table!Index(id)
           chain == head[b]
           hits == {j \in DOMAIN chain : chain[j].id = id}
           here == {pair[2] : pair \in {p \in Table!Pairs : p[1] = id}}
<1>1. b \in Table!Buckets
  BY IndexIsBucket
<1>2. Distinct(chain) /\ chain \in Seq(Nodes)
  BY <1>1 DEF Chains
<1>3. \A i \in Table!Buckets : i # b => id \notin Table!IdsOf(head[i])
  BY DEF Chains
<1>4. \A j, k \in hits : j = k
  BY <1>2 DEF Distinct
<1>5. \A j \in hits : j <= j
  BY <1>2, ChainShape
<1>6. Table!pt_table_find(id) = {chain[j].ptr : j \in hits}
  <2>1. {k \in hits : \A m \in hits : k <= m} = hits
    BY <1>4, <1>5
  <2> QED  BY <2>1 DEF Table!pt_table_find
<1>7. \A a, c : <<a, c>>[1] = a /\ <<a, c>>[2] = c
  OBVIOUS
<1>8. ASSUME NEW j \in hits PROVE chain[j].ptr \in here
  <2>1. <<id, chain[j].ptr>> \in PairsOf(chain)
    BY DEF PairsOf
  <2>2. <<id, chain[j].ptr>> \in Table!Pairs
    BY <1>1, <2>1, Parts
  <2> QED  BY <1>7, <2>2
<1>9. ASSUME NEW q \in here PROVE q \in {chain[j].ptr : j \in hits}
  <2>1. PICK pair \in Table!Pairs : pair[1] = id /\ q = pair[2]
    OBVIOUS
  <2>2. PICK i \in Table!Buckets : pair \in PairsOf(head[i])
    BY Parts
  <2>3. i = b
    BY <1>3, <2>1, <2>2, PairFirst
  <2>4. PICK j \in DOMAIN chain : pair = <<chain[j].id, chain[j].ptr>>
    BY <2>2, <2>3 DEF PairsOf
  <2> QED  BY <1>7, <2>1, <2>4
<1> QED  BY <1>6, <1>8, <1>9

\* PtTable counts with the Cardinality of everybody.
LEMMA SameCardinality == \A S : Table!Cardinality(S) = Cardinality(S)
BY DEF Table!Cardinality, Cardinality

\* The invariant has the properties in it.
LEMMA TableSound ==
    ASSUME Granularity \in Nat \ {0}, Ids \subseteq Nat, TableInv
    PROVE  Table!TableIsSound
<1>1. Chains /\ Counted /\ CursorSound
  BY DEF TableInv
<1>2. \A i \in Table!Buckets : \A j \in DOMAIN head[i] : Table!Index(head[i][j].id) = i
  BY <1>1 DEF Chains, Table!IdsOf
<1>3. size \in Nat
  BY <1>1, FS_CardinalityType DEF Counted
<1>4. cursor \in [bucket : Table!Buckets \cup {Table!End}, node : Ids \cup {Table!End}]
  BY <1>1 DEF CursorSound, Table!NoEnum
<1>5. Table!TypeOK
  BY <1>1, <1>2, <1>3, <1>4 DEF Table!TypeOK, TableInv, Chains, Nodes
<1>6. Table!SizeIsExact
  BY <1>1, SameCardinality DEF Table!SizeIsExact, Counted, Chains, Distinct
<1>7. Table!EnumVisitsAll
  <2>1. CASE cursor = Table!NoEnum
    BY <2>1 DEF Table!EnumVisitsAll, Table!NoEnum, Table!End
  <2>2. CASE cursor # Table!NoEnum
    <3>1. /\ cursor \in [bucket : Table!Buckets, node : Ids \cup {Table!End}]
          /\ cursor.node = Table!End \/ cursor.node \in Table!IdsOf(head[cursor.bucket])
          /\ expected = visited \cup Ahead
      BY <1>1, <2>2 DEF CursorSound
    <3>2. ASSUME cursor.node = Table!End, cursor.bucket = Granularity - 1
          PROVE  visited = expected
      <4>1. From(head[cursor.bucket], Table!End) = {}
        BY <1>1, <3>1, CursorEnds DEF Chains
      <4>2. \A k \in Table!Buckets : ~(k > cursor.bucket)
        BY <3>2 DEF Table!Buckets
      <4>3. Ahead = {}
        BY <3>2, <4>1, <4>2 DEF Ahead
      <4> QED  BY <3>1, <4>3
    <3> QED  BY <3>1, <3>2 DEF Table!EnumVisitsAll
  <2> QED  BY <2>1, <2>2
<1>8. Table!FindIsLookup
  BY <1>1, Found
<1> QED  BY <1>5, <1>6, <1>7, <1>8 DEF Table!TableIsSound

\* Whatever the number of chains, GUIDs and contexts: size is the number of
\* contexts, no GUID is in the table twice, GetContext finds what was inserted, and
\* an enumeration whose callback erases its node visits everything.
THEOREM TableHolds ==
    ASSUME Granularity \in Nat \ {0}, Ids \subseteq Nat
    PROVE  Table!Spec => []TableIsSound
<1>1. Table!Init => TableInv
  BY TableInit
<1>2. TableInv /\ [Table!Next]_Table!vars => TableInv'
  BY TableStep
<1>3. TableInv => TableIsSound
  BY TableSound DEF TableIsSound
<1> QED  BY <1>1, <1>2, <1>3, PTL DEF Table!Spec

\* The chained hash table implements a finite map from GUIDs to contexts.
THEOREM TableIsMap ==
    ASSUME Granularity \in Nat \ {0}, Ids \subseteq Nat
    PROVE  Table!Spec => ImplementsMap
<1>1. Table!Init => TableInv /\ Table!Map!Init
  <2>1. Table!Init => \A i \in Table!Buckets : PairsOf(head[i]) = {}
    BY DEF Table!Init, PairsOf
  <2>2. Table!Init => Table!Pairs = {}
    BY <2>1, Parts
  <2> QED  BY <2>2, TableInit DEF Table!Map!Init
<1>2. TableInv /\ [Table!Next]_Table!vars => TableInv' /\ [Table!Map!Next]_Table!Pairs
  BY TableStep
<1> QED  BY <1>1, <1>2, PTL DEF Table!Spec, ImplementsMap, Table!ImplementsMap,
                               Table!Map!Spec

-----------------------------------------------------------------------------
(* MarketServer.                                                           *)

-----------------------------------------------------------------------------
(* The queue of actions.                                                   *)

Kinds == {"SUBSCRIBE", "UNSUBSCRIBE", "MESSAGE"}
Actions == Kinds \X Conns
Sub(c) == <<"SUBSCRIBE", c>>
Unsub(c) == <<"UNSUBSCRIBE", c>>
Holds(q, x) == \E i \in DOMAIN q : q[i] = x

\* What the queue q and the action a that was taken say about a connection c in the
\* state o, when m are the registered connections.
Story(c, o, m, q, a) ==
    /\ o = "new" => /\ c \notin m /\ ~Holds(q, Sub(c)) /\ ~Holds(q, Unsub(c))
                    /\ a # Sub(c) /\ a # Unsub(c)
    /\ o = "open" => /\ ~Holds(q, Unsub(c)) /\ a # Unsub(c)
                     /\ c \in m \/ Holds(q, Sub(c)) \/ a = Sub(c)
    /\ o = "closed" /\ (c \in m \/ Holds(q, Sub(c)) \/ a = Sub(c))
           => Holds(q, Unsub(c)) \/ a = Unsub(c)
    /\ a = Unsub(c) => ~Holds(q, Sub(c))
    /\ \A i, j \in DOMAIN q : q[i] = Sub(c) /\ q[j] = Unsub(c) => i < j

Stories ==
    /\ m_actions \in Seq(Actions) /\ action \in Actions \cup {Market!Nothing}
    /\ \A c \in Conns : Story(c, open[c], m_connections, m_actions, action)

\* The quotes that wait are ordered and were published.
QuotesFit ==
    /\ published \in Nat /\ quotes \in Seq(Nat) /\ Market!NewestFirst
    /\ \A i \in DOMAIN quotes : quotes[i] \in 1..published

\* TypeOK but for the quotes.
ServerFits ==
    /\ open \in [Conns -> {"new", "open", "closed"}]
    /\ m_connections \subseteq {c \in Conns : open[c] # "new"}
    /\ next \subseteq m_connections /\ (quote = 0 => next = {})

LinkFits ==
    /\ subscriptions \in {0, 2} /\ (subscriptions = 2 <=> redis = "subscribed")
    /\ timer => redis = "failed"

MarketInv == Stories /\ QuotesFit /\ ServerFits /\ LinkFits

\* Actions are told apart by kind and connection.
LEMMA ActionsDiffer ==
    /\ \A c, d : Sub(c) # Unsub(d) /\ (Sub(c) = Sub(d) => c = d)
                 /\ (Unsub(c) = Unsub(d) => c = d)
                 /\ Sub(c) # <<"MESSAGE", d>> /\ Unsub(c) # <<"MESSAGE", d>>
    /\ \A c : Sub(c) # Market!Nothing /\ Unsub(c) # Market!Nothing
    /\ \A c \in Conns : Sub(c) \in Actions /\ Unsub(c) \in Actions
                        /\ <<"MESSAGE", c>> \in Actions
<1>1. \A x, y, c, d : <<x, c>> = <<y, d>> <=> x = y /\ c = d
  OBVIOUS
<1>2. \A x, c, y : <<x, c>> # <<y>>
  <2> TAKE x, c, y
  <2>1. Len(<<x, c>>) = 2 /\ Len(<<y>>) = 1
    OBVIOUS
  <2> QED  BY <2>1
<1> QED  BY <1>1, <1>2 DEF Sub, Unsub, Market!Nothing, Actions, Kinds

\* One more in the queue.
LEMMA ActionQueued ==
    ASSUME NEW S, NEW q \in Seq(S), NEW x \in S
    PROVE  /\ Append(q, x) \in Seq(S) /\ Append(q, x) # <<>>
           /\ \A y : Holds(Append(q, x), y) <=> Holds(q, y) \/ y = x
           /\ \A i \in DOMAIN Append(q, x) :
                  \/ i \in DOMAIN q /\ Append(q, x)[i] = q[i] /\ i < Len(q) + 1
                  \/ i = Len(q) + 1 /\ Append(q, x)[i] = x
<1> DEFINE n == Len(q)
           p == Append(q, x)
<1>1. /\ n \in Nat /\ DOMAIN q = 1..n /\ p \in Seq(S) /\ Len(p) = n + 1
      /\ DOMAIN p = 1..(n + 1) /\ p[n + 1] = x /\ \A i \in 1..n : p[i] = q[i]
  OBVIOUS
<1>2. p # <<>>
  BY <1>1
<1> HIDE DEF n, p
<1>3. \A y : Holds(p, y) <=> Holds(q, y) \/ y = x
  <2> TAKE y
  <2>1. ASSUME Holds(p, y) PROVE Holds(q, y) \/ y = x
    <3>1. PICK i \in 1..(n + 1) : p[i] = y
      BY <1>1, <2>1 DEF Holds
    <3>2. i \in 1..n \/ i = n + 1
      BY <1>1
    <3> QED  BY <1>1, <3>1, <3>2 DEF Holds
  <2>2. ASSUME Holds(q, y) PROVE Holds(p, y)
    <3>1. PICK i \in 1..n : q[i] = y
      BY <1>1, <2>2 DEF Holds
    <3>2. i \in 1..(n + 1)
      BY <1>1
    <3> QED  BY <1>1, <3>1, <3>2 DEF Holds
  <2>3. Holds(p, x)
    <3>1. n + 1 \in 1..(n + 1)
      BY <1>1
    <3> QED  BY <1>1, <3>1 DEF Holds
  <2> QED  BY <2>1, <2>2, <2>3
<1>4. ASSUME NEW i \in DOMAIN p
      PROVE  \/ i \in DOMAIN q /\ p[i] = q[i] /\ i < n + 1
             \/ i = n + 1 /\ p[i] = x
  <2>1. (i \in 1..n /\ i < n + 1) \/ i = n + 1
    BY <1>1
  <2> QED  BY <1>1, <2>1
<1> QED  BY <1>1, <1>2, <1>3, <1>4 DEF n, p

\* The first of the queue is taken.
LEMMA Taken ==
    ASSUME NEW S, NEW q \in Seq(S), q # <<>>
    PROVE  /\ Head(q) \in S /\ Tail(q) \in Seq(S)
           /\ \A y : Holds(q, y) <=> y = Head(q) \/ Holds(Tail(q), y)
           /\ \A i \in DOMAIN Tail(q) : /\ i + 1 \in DOMAIN q /\ Tail(q)[i] = q[i + 1]
                                        /\ i \in Nat
           /\ 1 \in DOMAIN q /\ q[1] = Head(q)
<1> DEFINE n == Len(q)
           p == Tail(q)
<1>1. /\ n \in Nat /\ DOMAIN q = 1..n /\ n >= 1 /\ p \in Seq(S) /\ Len(p) = n - 1
      /\ DOMAIN p = 1..(n - 1) /\ \A i \in 1..(n - 1) : p[i] = q[i + 1]
  OBVIOUS
<1>2. Head(q) = q[1] /\ Head(q) \in S
  BY <1>1
<1> HIDE DEF n, p
<1>3. \A y : Holds(q, y) <=> y = Head(q) \/ Holds(p, y)
  <2> TAKE y
  <2>1. ASSUME Holds(q, y), y # Head(q) PROVE Holds(p, y)
    <3>1. PICK i \in 1..n : q[i] = y
      BY <1>1, <2>1 DEF Holds
    <3>2. i # 1
      BY <1>2, <2>1, <3>1
    <3>3. i - 1 \in 1..(n - 1) /\ (i - 1) + 1 = i
      BY <1>1, <3>2
    <3>4. p[i - 1] = y
      BY <1>1, <3>1, <3>3
    <3> QED  BY <1>1, <3>3, <3>4 DEF Holds
  <2>2. ASSUME Holds(p, y) PROVE Holds(q, y)
    <3>1. PICK i \in 1..(n - 1) : p[i] = y
      BY <1>1, <2>2 DEF Holds
    <3>2. i + 1 \in 1..n
      BY <1>1
    <3> QED  BY <1>1, <3>1, <3>2 DEF Holds
  <2>3. Holds(q, Head(q))
    <3>1. 1 \in 1..n
      BY <1>1
    <3> QED  BY <1>1, <1>2, <3>1 DEF Holds
  <2> QED  BY <2>1, <2>2, <2>3
<1>4. \A i \in DOMAIN p : i + 1 \in DOMAIN q /\ p[i] = q[i + 1] /\ i \in Nat
  BY <1>1
<1>5. 1 \in DOMAIN q
  BY <1>1
<1> QED  BY <1>1, <1>2, <1>3, <1>4, <1>5 DEF p

-----------------------------------------------------------------------------
(* The stories of the connections.                                         *)

\* An action of another connection, or a message, is queued.
LEMMA StoryQueued ==
    ASSUME NEW c, NEW o, NEW m, NEW q \in Seq(Actions), NEW a, NEW x \in Actions,
           Story(c, o, m, q, a), x # Sub(c), x # Unsub(c)
    PROVE  Story(c, o, m, Append(q, x), a)
<1> DEFINE p == Append(q, x)
<1>1. /\ \A y : Holds(p, y) <=> Holds(q, y) \/ y = x
      /\ \A i \in DOMAIN p : (i \in DOMAIN q /\ p[i] = q[i]) \/ p[i] = x
  BY ActionQueued
<1> HIDE DEF p
<1>2. \A i, j \in DOMAIN p : p[i] = Sub(c) /\ p[j] = Unsub(c) => i < j
  BY <1>1 DEF Story
<1> QED  BY <1>1, <1>2 DEF Story, p

\* SUBSCRIBE is queued by on_open.
LEMMA StoryOpens ==
    ASSUME NEW c, NEW m, NEW q \in Seq(Actions), NEW a, Sub(c) \in Actions,
           Story(c, "new", m, q, a)
    PROVE  Story(c, "open", m, Append(q, Sub(c)), a)
<1> DEFINE p == Append(q, Sub(c))
<1>1. \A y : Holds(p, y) <=> Holds(q, y) \/ y = Sub(c)
  BY ActionQueued
<1> HIDE DEF p
<1>2. ~Holds(p, Unsub(c)) /\ Holds(p, Sub(c)) /\ a # Unsub(c)
  BY <1>1, ActionsDiffer DEF Story
<1>3. \A i, j \in DOMAIN p : p[i] = Sub(c) /\ p[j] = Unsub(c) => i < j
  BY <1>2 DEF Holds
<1> QED  BY <1>2, <1>3 DEF Story, p

\* UNSUBSCRIBE is queued by on_close.
LEMMA StoryCloses ==
    ASSUME NEW c, NEW m, NEW q \in Seq(Actions), NEW a, Unsub(c) \in Actions,
           Story(c, "open", m, q, a)
    PROVE  Story(c, "closed", m, Append(q, Unsub(c)), a)
<1> DEFINE p == Append(q, Unsub(c))
<1>1. /\ \A y : Holds(p, y) <=> Holds(q, y) \/ y = Unsub(c)
      /\ \A i \in DOMAIN p :
             \/ i \in DOMAIN q /\ p[i] = q[i] /\ i < Len(q) + 1
             \/ i = Len(q) + 1 /\ p[i] = Unsub(c)
  BY ActionQueued
<1> HIDE DEF p
<1>2. Holds(p, Unsub(c)) /\ ~Holds(q, Unsub(c)) /\ a # Unsub(c)
  BY <1>1 DEF Story
<1>3. ASSUME NEW i \in DOMAIN p, NEW j \in DOMAIN p, p[i] = Sub(c), p[j] = Unsub(c)
      PROVE  i < j
  <2>1. i < Len(q) + 1
    BY <1>1, <1>3, ActionsDiffer
  <2>2. j = Len(q) + 1
    BY <1>1, <1>2, <1>3 DEF Holds
  <2> QED  BY <2>1, <2>2
<1> QED  BY <1>2, <1>3 DEF Story, p

\* process_messages takes the first action.
LEMMA StoryTakes ==
    ASSUME NEW c, NEW o, NEW m, NEW q \in Seq(Actions), q # <<>>,
           Story(c, o, m, q, Market!Nothing)
    PROVE  Story(c, o, m, Tail(q), Head(q))
<1> DEFINE p == Tail(q)
           a == Head(q)
<1>1. /\ \A y : Holds(q, y) <=> y = a \/ Holds(p, y)
      /\ \A i \in DOMAIN p : i + 1 \in DOMAIN q /\ p[i] = q[i + 1] /\ i \in Nat
      /\ 1 \in DOMAIN q /\ q[1] = a
  BY Taken
<1> HIDE DEF p, a
<1>2. ASSUME NEW i \in DOMAIN p, NEW j \in DOMAIN p, p[i] = Sub(c), p[j] = Unsub(c)
      PROVE  i < j
  <2>1. i + 1 < j + 1 /\ i \in Nat /\ j \in Nat
    BY <1>1, <1>2 DEF Story
  <2> QED  BY <2>1
<1>3. ASSUME a = Unsub(c) PROVE ~Holds(p, Sub(c))
  <2> SUFFICES ASSUME NEW i \in DOMAIN p, p[i] = Sub(c) PROVE FALSE
    BY DEF Holds
  <2>1. i + 1 < 1 /\ i \in Nat
    BY <1>1, <1>3 DEF Story
  <2> QED  BY <2>1
<1>4. a = Sub(c) => a # Unsub(c)
  BY ActionsDiffer
<1> QED  BY <1>1, <1>2, <1>3, <1>4, ActionsDiffer DEF Story, p, a

\* process_messages applies the action.
LEMMA StoryApplies ==
    ASSUME NEW c, NEW o \in {"new", "open", "closed"}, NEW m, NEW n, NEW q, NEW a,
           Story(c, o, m, q, a),
           \/ a = Sub(c) /\ c \in n
           \/ a = Unsub(c) /\ c \notin n
           \/ a # Sub(c) /\ a # Unsub(c) /\ (c \in n <=> c \in m)
    PROVE  Story(c, o, n, q, Market!Nothing)
<1>1. Sub(c) # Market!Nothing /\ Unsub(c) # Market!Nothing /\ Sub(c) # Unsub(c)
  BY ActionsDiffer
<1> QED  BY <1>1 DEF Story

\* A closed connection is erased by the quote thread.
LEMMA StoryErased ==
    ASSUME NEW c, NEW o, NEW m, NEW n, NEW q, NEW a, Story(c, o, m, q, a),
           (c \in n <=> c \in m) \/ (c \notin n /\ o = "closed")
    PROVE  Story(c, o, n, q, a)
BY DEF Story

-----------------------------------------------------------------------------
(* The steps.                                                              *)

\* Every step but those of the actions and the quotes leaves them alone.
LEMMA StoriesRest ==
    ASSUME Stories, UNCHANGED <<open, m_connections, m_actions, action>>
    PROVE  Stories'
BY DEF Stories, Story, Holds

\* on_open.
LEMMA Opens ==
    ASSUME MarketInv, NEW c \in Conns, Market!on_open(c)
    PROVE  MarketInv'
<1>1. /\ open[c] = "new" /\ open' = [open EXCEPT ![c] = "open"]
      /\ m_actions' = Append(m_actions, Sub(c))
      /\ UNCHANGED <<action, m_connections, quotes, Market!sending, Market!link, published>>
  BY DEF Market!on_open, Market!Queue, Sub
<1>2. /\ m_actions \in Seq(Actions) /\ action \in Actions \cup {Market!Nothing}
      /\ open \in [Conns -> {"new", "open", "closed"}] /\ Sub(c) \in Actions
  BY ActionsDiffer DEF MarketInv, Stories, ServerFits
<1>3. ASSUME NEW d \in Conns PROVE Story(d, open'[d], m_connections, m_actions', action)
  <2>1. Story(d, open[d], m_connections, m_actions, action)
    BY DEF MarketInv, Stories
  <2>2. CASE d = c
    BY <1>1, <1>2, <2>1, <2>2, StoryOpens
  <2>3. CASE d # c
    <3>1. open'[d] = open[d] /\ Sub(c) # Sub(d) /\ Sub(c) # Unsub(d)
      BY <1>1, <1>2, <2>3, ActionsDiffer
    <3> QED  BY <1>1, <1>2, <2>1, <3>1, StoryQueued
  <2> QED  BY <2>2, <2>3
<1>4. m_actions' \in Seq(Actions)
  BY <1>1, <1>2, ActionQueued
<1>5. Stories'
  BY <1>1, <1>2, <1>3, <1>4 DEF Stories, Story, Holds
<1>6. ServerFits'
  BY <1>1, <1>2 DEF MarketInv, ServerFits, Market!sending
<1> QED  BY <1>1, <1>5, <1>6 DEF MarketInv, QuotesFit, Market!NewestFirst, LinkFits, Market!link, Market!sending

\* on_close.
LEMMA Closes ==
    ASSUME MarketInv, NEW c \in Conns, Market!on_close(c)
    PROVE  MarketInv'
<1>1. /\ open[c] = "open" /\ open' = [open EXCEPT ![c] = "closed"]
      /\ m_actions' = Append(m_actions, Unsub(c))
      /\ UNCHANGED <<action, m_connections, quotes, Market!sending, Market!link, published>>
  BY DEF Market!on_close, Market!Queue, Unsub
<1>2. /\ m_actions \in Seq(Actions) /\ action \in Actions \cup {Market!Nothing}
      /\ open \in [Conns -> {"new", "open", "closed"}] /\ Unsub(c) \in Actions
  BY ActionsDiffer DEF MarketInv, Stories, ServerFits
<1>3. ASSUME NEW d \in Conns PROVE Story(d, open'[d], m_connections, m_actions', action)
  <2>1. Story(d, open[d], m_connections, m_actions, action)
    BY DEF MarketInv, Stories
  <2>2. CASE d = c
    BY <1>1, <1>2, <2>1, <2>2, StoryCloses
  <2>3. CASE d # c
    <3>1. open'[d] = open[d] /\ Unsub(c) # Sub(d) /\ Unsub(c) # Unsub(d)
      BY <1>1, <1>2, <2>3, ActionsDiffer
    <3> QED  BY <1>1, <1>2, <2>1, <3>1, StoryQueued
  <2> QED  BY <2>2, <2>3
<1>4. m_actions' \in Seq(Actions)
  BY <1>1, <1>2, ActionQueued
<1>5. Stories'
  BY <1>1, <1>2, <1>3, <1>4 DEF Stories, Story, Holds
<1>6. ServerFits'
  BY <1>1, <1>2 DEF MarketInv, ServerFits, Market!sending
<1> QED  BY <1>1, <1>5, <1>6 DEF MarketInv, QuotesFit, Market!NewestFirst, LinkFits, Market!link, Market!sending

\* on_message.
LEMMA Messages ==
    ASSUME MarketInv, NEW c \in Conns, Market!on_message(c)
    PROVE  MarketInv'
<1>1. /\ m_actions' = Append(m_actions, <<"MESSAGE", c>>)
      /\ UNCHANGED <<open, action, m_connections, quotes, Market!sending, Market!link, published>>
  BY DEF Market!on_message, Market!Queue
<1>2. /\ m_actions \in Seq(Actions) /\ action \in Actions \cup {Market!Nothing}
      /\ <<"MESSAGE", c>> \in Actions
  BY ActionsDiffer DEF MarketInv, Stories
<1>3. ASSUME NEW d \in Conns PROVE Story(d, open[d], m_connections, m_actions', action)
  <2>1. Story(d, open[d], m_connections, m_actions, action)
    BY DEF MarketInv, Stories
  <2>2. <<"MESSAGE", c>> # Sub(d) /\ <<"MESSAGE", c>> # Unsub(d)
    BY ActionsDiffer
  <2> QED  BY <1>1, <1>2, <2>1, <2>2, StoryQueued
<1>4. m_actions' \in Seq(Actions)
  BY <1>1, <1>2, ActionQueued
<1>5. Stories'
  BY <1>1, <1>2, <1>3, <1>4 DEF Stories, Story, Holds
<1> QED  BY <1>1, <1>5 DEF MarketInv, QuotesFit, Market!NewestFirst, ServerFits, LinkFits, Market!link, Market!sending

\* process_messages takes an action.
LEMMA Takes == ASSUME MarketInv, Market!TakeAction PROVE MarketInv'
<1>1. /\ action = Market!Nothing /\ m_actions # <<>>
      /\ action' = Head(m_actions) /\ m_actions' = Tail(m_actions)
      /\ UNCHANGED <<open, m_connections, quotes, Market!sending, Market!link, published>>
  BY DEF Market!TakeAction
<1>2. m_actions \in Seq(Actions)
  BY DEF MarketInv, Stories
<1>3. ASSUME NEW d \in Conns PROVE Story(d, open[d], m_connections, m_actions', action')
  BY <1>1, <1>2, StoryTakes DEF MarketInv, Stories
<1>4. m_actions' \in Seq(Actions) /\ action' \in Actions
  BY <1>1, <1>2, Taken
<1>5. Stories'
  BY <1>1, <1>3, <1>4 DEF Stories, Story, Holds
<1> QED  BY <1>1, <1>5 DEF MarketInv, QuotesFit, Market!NewestFirst, ServerFits, LinkFits, Market!link, Market!sending

\* process_messages applies an action.
LEMMA Applies == ASSUME MarketInv, Market!ApplyAction PROVE MarketInv'
<1>1. action' = Market!Nothing /\ UNCHANGED <<open, m_actions, quotes, Market!sending, Market!link, published>>
  BY DEF Market!ApplyAction
<1>2. /\ m_actions \in Seq(Actions) /\ action \in Actions \cup {Market!Nothing}
      /\ open \in [Conns -> {"new", "open", "closed"}]
  BY DEF MarketInv, Stories, ServerFits
<1>3. PICK c : /\ c \in Conns /\ action \in {<<"MESSAGE", c>>, Sub(c), Unsub(c)}
               /\ action[2] = c
               /\ action[1] = "MESSAGE" <=> action = <<"MESSAGE", c>>
               /\ action[1] = "SUBSCRIBE" <=> action = Sub(c)
               /\ action[1] = "UNSUBSCRIBE" <=> action = Unsub(c)
  <2>1. action \in Actions
    BY <1>2 DEF Market!ApplyAction
  <2>2. PICK k \in Kinds, c \in Conns : action = <<k, c>>
    BY <2>1 DEF Actions
  <2> QED  BY <2>2 DEF Kinds, Sub, Unsub
<1>4. \/ action = <<"MESSAGE", c>> /\ UNCHANGED m_connections
      \/ action = Sub(c) /\ m_connections' = m_connections \cup {c} /\ quote = 0
      \/ action = Unsub(c) /\ m_connections' = m_connections \ {c} /\ quote = 0
  BY <1>3 DEF Market!ApplyAction
<1>5. ASSUME NEW d \in Conns PROVE Story(d, open[d], m_connections', m_actions, Market!Nothing)
  <2>1. Story(d, open[d], m_connections, m_actions, action)
    BY DEF MarketInv, Stories
  <2>2. \/ action = Sub(d) /\ d \in m_connections'
        \/ action = Unsub(d) /\ d \notin m_connections'
        \/ /\ action # Sub(d) /\ action # Unsub(d)
           /\ d \in m_connections' <=> d \in m_connections
    BY <1>4, ActionsDiffer
  <2> QED  BY <1>2, <2>1, <2>2, StoryApplies
<1>6. Stories'
  BY <1>1, <1>2, <1>5 DEF Stories, Story, Holds
<1>7. ServerFits'
  <2>1. action = Sub(c) => open[c] # "new"
    BY <1>3 DEF MarketInv, Stories, Story
  <2> QED  BY <1>1, <1>3, <1>4, <2>1 DEF MarketInv, ServerFits, Market!sending
<1> QED  BY <1>1, <1>6, <1>7 DEF MarketInv, QuotesFit, Market!NewestFirst, LinkFits, Market!link, Market!sending

\* The same value several times, in front of a sequence.
LEMMA InFront ==
    ASSUME NEW s \in Seq(Nat), NEW k \in Nat, NEW q \in Nat
    PROVE  LET t == [i \in 1..k |-> q] \o s
           IN  /\ t \in Seq(Nat)
               /\ \A i \in DOMAIN t : \/ i <= k /\ t[i] = q
                                      \/ i > k /\ i - k \in DOMAIN s /\ t[i] = s[i - k]
               /\ \A i \in DOMAIN t : i \in Nat
<1> DEFINE f == [i \in 1..k |-> q]
           t == f \o s
<1>1. f \in Seq(Nat) /\ Len(f) = k /\ \A i \in 1..k : f[i] = q
  <2>1. f \in [1..k -> Nat]
    OBVIOUS
  <2> QED  BY <2>1
<1> HIDE DEF f
<1>2. /\ t \in Seq(Nat) /\ DOMAIN t = 1..(k + Len(s)) /\ Len(s) \in Nat
      /\ DOMAIN s = 1..Len(s)
      /\ \A i \in 1..(k + Len(s)) : t[i] = IF i <= k THEN f[i] ELSE s[i - k]
  BY <1>1
<1> HIDE DEF t
<1>3. ASSUME NEW i \in DOMAIN t
      PROVE  \/ i <= k /\ t[i] = q
             \/ i > k /\ i - k \in DOMAIN s /\ t[i] = s[i - k]
  <2>1. i \in 1..(k + Len(s)) /\ t[i] = IF i <= k THEN f[i] ELSE s[i - k]
    BY <1>2
  <2>2. CASE i <= k
    <3>1. i \in 1..k
      BY <1>2, <2>1, <2>2
    <3>2. f[i] = q
      BY <1>1, <3>1
    <3>3. t[i] = f[i]
      BY <2>1, <2>2
    <3> QED  BY <2>2, <3>2, <3>3
  <2>3. CASE i > k
    <3>1. i - k \in 1..Len(s)
      BY <1>2, <2>1, <2>3
    <3> QED  BY <1>2, <2>1, <2>3, <3>1
  <2> QED  BY <1>2, <2>1, <2>2, <2>3
<1>4. \A i \in DOMAIN t : i \in Nat
  BY <1>2
<1> QED  BY <1>2, <1>3, <1>4 DEF f, t

\* A quote is published.
LEMMA Publishes == ASSUME MarketInv, Market!Publish PROVE MarketInv'
<1> DEFINE q == published + 1
<1>1. /\ published' = q /\ quotes' = [i \in 1..subscriptions |-> q] \o quotes
      /\ UNCHANGED <<Market!server, Market!sending, Market!link>>
  BY DEF Market!Publish, Market!Message
<1>2. /\ published \in Nat /\ q \in Nat /\ q > published /\ quotes \in Seq(Nat)
      /\ subscriptions \in Nat /\ Market!NewestFirst
      /\ \A i \in DOMAIN quotes : quotes[i] \in 1..published
  BY DEF MarketInv, QuotesFit, LinkFits
<1> HIDE DEF q
<1>3. /\ quotes' \in Seq(Nat) /\ \A i \in DOMAIN quotes' : i \in Nat
      /\ \A i \in DOMAIN quotes' :
             \/ i <= subscriptions /\ quotes'[i] = q
             \/ /\ i > subscriptions /\ i - subscriptions \in DOMAIN quotes
                /\ quotes'[i] = quotes[i - subscriptions]
  BY <1>1, <1>2, InFront
<1>4. \A i \in DOMAIN quotes' : quotes'[i] \in 1..q
  <2> TAKE i \in DOMAIN quotes'
  <2>1. CASE quotes'[i] = q
    BY <1>2, <2>1
  <2>2. CASE i - subscriptions \in DOMAIN quotes /\ quotes'[i] = quotes[i - subscriptions]
    BY <1>2, <2>2
  <2> QED  BY <1>3, <2>1, <2>2
<1>5. ASSUME NEW i \in DOMAIN quotes', NEW j \in DOMAIN quotes', i < j
      PROVE  quotes'[i] >= quotes'[j]
  <2>1. quotes'[j] \in 1..q /\ quotes'[i] \in 1..q /\ i \in Nat /\ j \in Nat
    BY <1>3, <1>4
  <2>2. CASE quotes'[i] = q
    BY <1>2, <2>1, <2>2
  <2>3. CASE i > subscriptions
    <3>1. /\ i - subscriptions \in DOMAIN quotes /\ quotes'[i] = quotes[i - subscriptions]
          /\ j - subscriptions \in DOMAIN quotes /\ quotes'[j] = quotes[j - subscriptions]
          /\ i - subscriptions < j - subscriptions
      BY <1>2, <1>3, <1>5, <2>1, <2>3
    <3> QED  BY <1>2, <3>1 DEF Market!NewestFirst
  <2> QED  BY <1>3, <2>2, <2>3
<1>6. QuotesFit'
  BY <1>1, <1>2, <1>3, <1>4, <1>5 DEF QuotesFit, Market!NewestFirst
<1>7. Stories' /\ ServerFits' /\ LinkFits'
  BY <1>1, StoriesRest DEF MarketInv, ServerFits, LinkFits, Market!server, Market!sending, Market!link
<1> QED  BY <1>6, <1>7 DEF MarketInv

\* The quote thread takes a quote.
LEMMA TakesQuote == ASSUME MarketInv, Market!TakeQuote PROVE MarketInv'
<1>1. /\ quote = 0 /\ quotes # <<>> /\ quote' = Head(quotes) /\ quotes' = Tail(quotes)
      /\ next' = m_connections /\ UNCHANGED <<Market!server, received, Market!link, published>>
  BY DEF Market!TakeQuote
<1>2. /\ quotes \in Seq(Nat) /\ Market!NewestFirst /\ published \in Nat
      /\ \A i \in DOMAIN quotes : quotes[i] \in 1..published
  BY DEF MarketInv, QuotesFit
<1>3. /\ quotes' \in Seq(Nat) /\ 1 \in DOMAIN quotes /\ quotes[1] = Head(quotes)
      /\ \A i \in DOMAIN quotes' :
             i + 1 \in DOMAIN quotes /\ quotes'[i] = quotes[i + 1] /\ i \in Nat
  BY <1>1, <1>2, Taken
<1>4. quote' # 0
  BY <1>1, <1>2, <1>3
<1>5. QuotesFit'
  <2>1. ASSUME NEW i \in DOMAIN quotes', NEW j \in DOMAIN quotes', i < j
        PROVE  quotes'[i] >= quotes'[j]
    <3>1. i + 1 < j + 1
      BY <1>3, <2>1
    <3> QED  BY <1>2, <1>3, <3>1 DEF Market!NewestFirst
  <2>2. published' = published
    BY <1>1
  <2>3. \A i \in DOMAIN quotes' : quotes'[i] \in 1..published
    BY <1>2, <1>3
  <2> QED  BY <1>2, <1>3, <2>1, <2>2, <2>3 DEF QuotesFit, Market!NewestFirst
<1>6. Stories' /\ ServerFits' /\ LinkFits'
  BY <1>1, <1>4, StoriesRest DEF MarketInv, ServerFits, LinkFits, Market!server, Market!link
<1> QED  BY <1>5, <1>6 DEF MarketInv

\* The quote thread sends, or erases a connection that is closed.
LEMMA Sends == ASSUME MarketInv, NEW c \in Conns, Market!SendQuote(c) PROVE MarketInv'
<1>1. /\ quote # 0 /\ c \in next /\ next' = next \ {c}
      /\ UNCHANGED <<open, m_actions, action, quotes, quote, Market!link, published>>
      /\ IF open[c] = "open" THEN m_connections' = m_connections
         ELSE m_connections' = m_connections \ {c}
  BY DEF Market!SendQuote
<1>2. open[c] \in {"open", "closed"}
  BY <1>1 DEF MarketInv, ServerFits
<1>3. ASSUME NEW d \in Conns PROVE Story(d, open[d], m_connections', m_actions, action)
  <2>1. Story(d, open[d], m_connections, m_actions, action)
    BY DEF MarketInv, Stories
  <2>2. \/ d \in m_connections' <=> d \in m_connections
        \/ d \notin m_connections' /\ open[d] = "closed"
    BY <1>1, <1>2
  <2> QED  BY <2>1, <2>2, StoryErased
<1>4. Stories'
  BY <1>1, <1>3 DEF MarketInv, Stories, Story, Holds
<1>5. ServerFits'
  BY <1>1 DEF MarketInv, ServerFits
<1> QED  BY <1>1, <1>4, <1>5 DEF MarketInv, QuotesFit, Market!NewestFirst, LinkFits, Market!link

\* The round ends.
LEMMA RoundEnds == ASSUME MarketInv, Market!EndRound PROVE MarketInv'
<1>1. /\ next = {} /\ quote' = 0
      /\ UNCHANGED <<Market!server, quotes, next, received, Market!link, published>>
  BY DEF Market!EndRound
<1>2. Stories' /\ ServerFits'
  BY <1>1, StoriesRest DEF MarketInv, ServerFits, Market!server
<1> QED  BY <1>1, <1>2 DEF MarketInv, QuotesFit, Market!NewestFirst, LinkFits, Market!link

\* The redis client, whose timer runs only after a failed attempt.
LEMMA LinkSteps ==
    ASSUME MarketInv, \/ Market!start_accept \/ Market!onSubscriberConnected \/ Market!ConnectFails \/ Market!Timer
                \/ Market!ConnectionLost
    PROVE  MarketInv'
<1>1. UNCHANGED <<Market!server, quotes, Market!sending, published>>
  BY DEF Market!start_accept, Market!onSubscriberConnected, Market!ConnectFails, Market!Timer, Market!ConnectionLost
<1>2. LinkFits'
  <2>1. CASE Market!start_accept
    BY <2>1 DEF Market!start_accept, Market!connectSubscriber, MarketInv, LinkFits
  <2>2. CASE Market!onSubscriberConnected
    BY <2>2 DEF Market!onSubscriberConnected, Market!Subscribed, MarketInv, LinkFits
  <2>3. CASE Market!ConnectFails
    BY <2>3 DEF Market!ConnectFails, MarketInv, LinkFits
  <2>4. CASE Market!Timer
    BY <2>4 DEF Market!Timer, Market!connectSubscriber, MarketInv, LinkFits
  <2>5. CASE Market!ConnectionLost
    BY <2>5 DEF Market!ConnectionLost, Market!connectSubscriber, MarketInv, LinkFits
  <2> QED  BY <2>1, <2>2, <2>3, <2>4, <2>5
<1>3. Stories' /\ ServerFits' /\ QuotesFit'
  BY <1>1, StoriesRest DEF MarketInv, ServerFits, QuotesFit, Market!NewestFirst, Market!server, Market!sending
<1> QED  BY <1>2, <1>3 DEF MarketInv

\* The constructor.
LEMMA MarketInit == Market!Init => MarketInv
<1> SUFFICES ASSUME Market!Init PROVE MarketInv
  OBVIOUS
<1>1. /\ open = [c \in Conns |-> "new"] /\ m_actions = <<>> /\ action = Market!Nothing
      /\ m_connections = {} /\ quotes = <<>> /\ quote = 0 /\ next = {}
      /\ redis = "unconnected" /\ subscriptions = 0 /\ ~timer /\ published = 0
  BY DEF Market!Init
<1>2. m_actions \in Seq(Actions) /\ \A x : ~Holds(m_actions, x)
  <2>1. <<>> \in Seq(Actions) /\ DOMAIN <<>> = {}
    OBVIOUS
  <2> QED  BY <1>1, <2>1 DEF Holds
<1>3. Stories
  <2>1. ASSUME NEW c \in Conns PROVE Story(c, open[c], m_connections, m_actions, action)
    BY <1>1, <1>2, ActionsDiffer DEF Story, Holds
  <2> QED  BY <1>1, <1>2, <2>1 DEF Stories
<1>4. QuotesFit
  BY <1>1 DEF QuotesFit, Market!NewestFirst
<1>5. ServerFits /\ LinkFits
  BY <1>1 DEF ServerFits, LinkFits
<1> QED  BY <1>3, <1>4, <1>5 DEF MarketInv

\* A step of anything.
LEMMA MarketStep == ASSUME MarketInv, [Market!Next]_Market!vars PROVE MarketInv'
<1>1. CASE \E c \in Conns : Market!on_open(c) \/ Market!on_close(c) \/ Market!on_message(c) \/ Market!SendQuote(c)
  BY <1>1, Opens, Closes, Messages, Sends
<1>2. CASE Market!TakeAction \/ Market!ApplyAction \/ Market!Publish \/ Market!TakeQuote \/ Market!EndRound
  BY <1>2, Takes, Applies, Publishes, TakesQuote, RoundEnds
<1>3. CASE \/ Market!start_accept \/ Market!onSubscriberConnected \/ Market!ConnectFails \/ Market!Timer
           \/ Market!ConnectionLost
  BY <1>3, LinkSteps
<1>4. CASE UNCHANGED Market!vars
  <2>1. UNCHANGED <<Market!server, quotes, Market!sending, Market!link, published>>
    BY <1>4 DEF Market!vars
  <2> QED  BY <2>1, StoriesRest
           DEF MarketInv, QuotesFit, Market!NewestFirst, ServerFits, LinkFits, Market!server, Market!sending, Market!link
<1> QED  BY <1>1, <1>2, <1>3, <1>4 DEF Market!Next

\* The invariant implies the property.
LEMMA MarketSound == MarketInv => MarketIsSound
<1> SUFFICES ASSUME MarketInv PROVE Market!MarketIsSound
  BY DEF MarketIsSound
<1>1. Market!TypeOK
  BY DEF MarketInv, Market!TypeOK, QuotesFit, ServerFits, LinkFits
<1>2. Market!ConnectionsAreExact
  <2> SUFFICES ASSUME m_actions = <<>>, action = Market!Nothing, NEW c \in Conns
               PROVE  c \in m_connections <=> open[c] = "open"
    BY DEF Market!ConnectionsAreExact, MarketInv, ServerFits
  <2>1. \A x : ~Holds(m_actions, x)
    BY DEF Holds
  <2>2. Market!Nothing # Sub(c) /\ Market!Nothing # Unsub(c)
    BY ActionsDiffer
  <2> QED  BY <2>1, <2>2 DEF MarketInv, Stories, Story, ServerFits
<1>3. Market!NewestFirst
  BY DEF MarketInv, QuotesFit
<1> QED  BY <1>1, <1>2, <1>3 DEF Market!MarketIsSound

\* Whatever the connections, quotes and losses of redis: when no action waits, the
\* registered connections are the open ones; the quotes that wait are ordered.
THEOREM MarketHolds == Market!Spec => []MarketIsSound
<1>1. MarketInv /\ [Market!Next]_Market!vars => MarketInv'
  BY MarketStep
<1> QED  BY <1>1, MarketSound, MarketInit, PTL DEF Market!Spec

-----------------------------------------------------------------------------
(* The specification of the run.                                            *)

\* A step of it is a step of each module, or leaves that module alone.
LEMMA WorkerSteps ==
    ASSUME [MCNext]_MCVars
    PROVE  [Next]_vars /\ [Table!Next]_(Table!vars) /\ [Market!Next]_(Market!vars)
<1>1. UNCHANGED tableVars => UNCHANGED Table!vars
  BY DEF tableVars, Table!vars, Table!table
<1>2. UNCHANGED marketVars => UNCHANGED Market!vars
  BY DEF marketVars, Market!vars, Market!server, Market!sending, Market!link
<1>3. Next \/ UNCHANGED vars
  BY DEF MCNext, MCVars
<1>4. Table!Next \/ UNCHANGED tableVars
  BY DEF MCNext, MCVars
<1>5. Market!Next \/ UNCHANGED marketVars
  BY DEF MCNext, MCVars
<1> QED BY <1>1, <1>2, <1>3, <1>4, <1>5

\* What the run checks of the pool, the table and the market server, for every value
\* of the constants and whichever of them a behaviour is about.
THEOREM WorkersHold ==
    ASSUME Granularity \in Nat \ {0}, Ids \subseteq Nat
    PROVE  MCSpec => [](PoolIsSound /\ TableIsSound /\ MarketIsSound) /\ ImplementsMap
<1>1. MCInit => PoolInv /\ MarketInv /\ Table!Init
  BY PoolInit, MarketInit DEF MCInit
<1>2. PoolInv /\ [MCNext]_MCVars => PoolInv'
  BY WorkerSteps, PoolStep
<1>3. MarketInv /\ [MCNext]_MCVars => MarketInv'
  BY WorkerSteps, MarketStep
<1>4. [MCNext]_MCVars => [Table!Next]_(Table!vars)
  BY WorkerSteps
<1>5. MCSpec => [](PoolInv /\ MarketInv) /\ Table!Spec
  BY <1>1, <1>2, <1>3, <1>4, PTL DEF MCSpec, Table!Spec
<1>6. Table!Spec => []TableIsSound /\ ImplementsMap
  BY TableHolds, TableIsMap, PTL
<1>7. PoolInv /\ MarketInv => PoolIsSound /\ MarketIsSound
  BY PoolSound, MarketSound
<1> QED BY <1>5, <1>6, <1>7, PTL

===============================================================================
