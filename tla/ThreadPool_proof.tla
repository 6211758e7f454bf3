-------------------------- MODULE ThreadPool_proof --------------------------
(***************************************************************************)
(* Proofs about ThreadPool, for any number of workers, clients and tasks.  *)
(* TasksRunOnce and JoinIsComplete limit how the pool is used, and the     *)
(* program keeps to it: its pools are unbounded.  Without that limit add() *)
(* may push after the workers have left (the run pool_late_add).           *)
(***************************************************************************)
EXTENDS ThreadPool, SequenceTheorems, FiniteSetTheorems, TLAPS

-----------------------------------------------------------------------------
(* Queues.                                                                 *)

Elems(s) == {s[i] : i \in 1..Len(s)}
Distinct(s) == \A i, j \in 1..Len(s) : s[i] = s[j] => i = j

\* What push does to the elements of a queue (ThreadPool::add).
LEMMA PushElems ==
    ASSUME NEW T, NEW s \in Seq(T), NEW t \in T
    PROVE  /\ Append(s, t) \in Seq(T)
           /\ Append(s, t) # <<>>
           /\ Elems(Append(s, t)) = Elems(s) \cup {t}
           /\ Distinct(s) /\ t \notin Elems(s) => Distinct(Append(s, t))
<1> DEFINE a == Append(s, t)
<1>1. /\ a \in Seq(T) /\ Len(a) = Len(s) + 1 /\ Len(s) \in Nat
      /\ \A i \in 1..Len(s) : a[i] = s[i]
      /\ a[Len(s) + 1] = t
  BY AppendProperties
<1> HIDE DEF a
<1>2. a # <<>>
  BY <1>1
<1>3. Elems(a) = Elems(s) \cup {t}
  <2>1. 1..Len(a) = 1..Len(s) \cup {Len(s) + 1}
    BY <1>1
  <2>2. QED
    BY <1>1, <2>1 DEF Elems
<1>4. ASSUME Distinct(s), t \notin Elems(s), NEW i \in 1..Len(a), NEW j \in 1..Len(a), a[i] = a[j]
      PROVE  i = j
  <2>1. CASE i \in 1..Len(s) /\ j \in 1..Len(s)
    BY <1>1, <1>4, <2>1 DEF Distinct
  <2>2. CASE i = Len(s) + 1 /\ j = Len(s) + 1
    BY <2>2
  <2>3. CASE i \in 1..Len(s) /\ j = Len(s) + 1
    BY <1>1, <1>4, <2>3 DEF Elems
  <2>4. CASE i = Len(s) + 1 /\ j \in 1..Len(s)
    BY <1>1, <1>4, <2>4 DEF Elems
  <2>5. QED
    BY <1>1, <2>1, <2>2, <2>3, <2>4
<1>5. QED
  BY <1>1, <1>2, <1>3, <1>4 DEF a, Distinct

\* What pop does to them (ThreadPool::work).
LEMMA PopElems ==
    ASSUME NEW T, NEW s \in Seq(T), s # <<>>
    PROVE  /\ Head(s) \in T /\ Tail(s) \in Seq(T)
           /\ Elems(s) = Elems(Tail(s)) \cup {Head(s)}
           /\ Distinct(s) => Distinct(Tail(s)) /\ Head(s) \notin Elems(Tail(s))
<1> DEFINE r == Tail(s)
<1>1. /\ r \in Seq(T) /\ Len(s) \in Nat \ {0} /\ Len(r) = Len(s) - 1
      /\ \A i \in 1..Len(r) : r[i] = s[i + 1]
      /\ Head(s) = s[1] /\ s[1] \in T
  BY HeadTailProperties, ElementOfSeq, EmptySeq
<1> HIDE DEF r
<1>2. Elems(s) = Elems(r) \cup {Head(s)}
  <2>1. ASSUME NEW x \in Elems(s) PROVE x \in Elems(r) \cup {Head(s)}
    <3>1. PICK i \in 1..Len(s) : x = s[i]
      BY <2>1 DEF Elems
    <3>2. CASE i = 1
      BY <1>1, <3>1, <3>2
    <3>3. CASE i # 1
      <4>1. i - 1 \in 1..Len(r) /\ r[i - 1] = s[(i - 1) + 1] /\ (i - 1) + 1 = i
        BY <1>1, <3>1, <3>3
      <4>2. QED
        BY <3>1, <4>1 DEF Elems
    <3>4. QED
      BY <3>2, <3>3
  <2>2. ASSUME NEW x \in Elems(r) PROVE x \in Elems(s)
    <3>1. PICK i \in 1..Len(r) : x = r[i]
      BY <2>2 DEF Elems
    <3>2. i + 1 \in 1..Len(s) /\ x = s[i + 1]
      BY <1>1, <3>1
    <3>3. QED
      BY <3>2 DEF Elems
  <2>3. Head(s) \in Elems(s)
    <3>1. 1 \in 1..Len(s)
      BY <1>1
    <3>2. QED
      BY <1>1, <3>1 DEF Elems
  <2>4. QED
    BY <2>1, <2>2, <2>3
<1>3. ASSUME Distinct(s) PROVE Distinct(r)
  <2>1. ASSUME NEW i \in 1..Len(r), NEW j \in 1..Len(r), r[i] = r[j] PROVE i = j
    <3>1. i + 1 \in 1..Len(s) /\ j + 1 \in 1..Len(s) /\ s[i + 1] = s[j + 1]
      BY <1>1, <2>1
    <3>2. i + 1 = j + 1
      BY <1>3, <3>1 DEF Distinct
    <3>3. QED
      BY <1>1, <3>2
  <2>2. QED
    BY <2>1 DEF Distinct
<1>4. ASSUME Distinct(s), Head(s) \in Elems(r) PROVE FALSE
  <2>1. PICK i \in 1..Len(r) : s[1] = r[i]
    BY <1>1, <1>4 DEF Elems
  <2>2. i + 1 \in 1..Len(s) /\ 1 \in 1..Len(s) /\ s[1] = s[i + 1]
    BY <1>1, <2>1
  <2>3. i + 1 = 1
    BY <1>4, <2>2 DEF Distinct
  <2>4. QED
    BY <1>1, <2>3
<1>5. QED
  BY <1>1, <1>2, <1>3, <1>4 DEF r

-----------------------------------------------------------------------------
(* The inductive invariant.                                                *)

WorkerPlaces == {"test", "asleep", "run", "gone"}
ClientPlaces == {"ready", "adderAsleep", "adderWoken", "joining", "awaitAsleep", "awaitWoken"}

Adder(c) == cpc[c] \in {"adderAsleep", "adderWoken"}

\* A worker that runs has a task; a client in the middle of add() has one
\* that is not accepted and that nobody else adds.
HandsOK == \A w \in InHand : held[w] \in Tasks
AddersOK == \A c \in Clients : Adder(c) =>
    /\ adding[c] \in Tasks \ accepted
    /\ \A d \in Clients : Adder(d) /\ adding[d] = adding[c] => d = c

Local == TypeOK /\ HandsOK /\ AddersOK /\ OutstandingCounts

\* EachTaskOnce, with the queue's elements named.
Once ==
    /\ accepted = Elems(tasks) \cup {held[w] : w \in InHand} \cup Done
    /\ Distinct(tasks)
    /\ \A t \in Tasks : ran[t] <= 1
    /\ \A w \in InHand : ran[held[w]] = 0 /\ held[w] \notin Elems(tasks)
    /\ \A t \in Elems(tasks) : ran[t] = 0
    /\ \A v, w \in InHand : held[v] = held[w] => v = w

\* No worker leaves a running pool, and all have left when join() is over.
PhaseOK ==
    /\ cpc[Owner] = "joining" => ~running
    /\ running => \A w \in Workers : wpc[w] # "gone"
    /\ ~running /\ cpc[Owner] # "joining" => Gone

\* To a bounded queue only the owner adds.
SafeUse == ~SharedBounded

\* Used so, the pool has no task left when a worker leaves.
NoLateAdd ==
    /\ \A c \in Clients : Adder(c) => c = Owner /\ running
    /\ \A w \in Workers : wpc[w] = "gone" => tasks = <<>>

\* What holds of every pool, and what SafeUse adds.
IInv     == Local /\ PhaseOK /\ ErrorsReachOwner /\ NoLostWakeup
SafeIInv == IInv /\ NoLateAdd /\ Once

-----------------------------------------------------------------------------
(* What wakeups leave alone.                                               *)

\* notify_all on m_produceCv moves a sleeping client, and no other.
LEMMA ClientsWoken ==
    ASSUME TypeOK, cpc' = WakeClients
    PROVE  /\ cpc' \in [Clients -> ClientPlaces]
           /\ \A c \in Clients : Adder(c)' <=> Adder(c)
           /\ \A c \in Clients : cpc'[c] = "joining" <=> cpc[c] = "joining"
BY DEF TypeOK, WakeClients, Adder, ClientPlaces

\* notify_all on m_consumeCv leaves no worker asleep.
LEMMA WorkersWokenUp ==
    ASSUME TypeOK, wpc' = WakeWorkers
    PROVE  /\ wpc' \in [Workers -> WorkerPlaces]
           /\ \A w \in Workers : wpc'[w] = "run" <=> wpc[w] = "run"
           /\ \A w \in Workers : wpc'[w] = "gone" <=> wpc[w] = "gone"
           /\ \A w \in Workers : wpc'[w] # "asleep"
           /\ InHand' = InHand
BY DEF TypeOK, WakeWorkers, WorkerPlaces, InHand

\* The workers that run a task are finitely many.
LEMMA HandsFinite == IsFiniteSet(InHand) /\ Cardinality(InHand) \in Nat
BY PoolAssumption, FS_Subset, FS_CardinalityType DEF InHand

\* A worker that takes a task is one more (ThreadPool::work).
LEMMA HandsTake ==
    ASSUME TypeOK, NEW w \in Workers, wpc[w] = "test", wpc' = [wpc EXCEPT ![w] = "run"]
    PROVE  /\ InHand' = InHand \cup {w} /\ w \notin InHand
           /\ Cardinality(InHand') = Cardinality(InHand) + 1
<1>1. InHand' = InHand \cup {w} /\ w \notin InHand
  BY DEF TypeOK, InHand
<1>2. QED
  BY <1>1, HandsFinite, FS_AddElement

\* A worker whose task has ended is one less (ThreadPool::work).
LEMMA HandsDone ==
    ASSUME TypeOK, NEW w \in Workers, wpc[w] = "run", wpc' = [wpc EXCEPT ![w] = "test"]
    PROVE  /\ InHand' = InHand \ {w} /\ w \in InHand
           /\ Cardinality(InHand') = Cardinality(InHand) - 1
           /\ Cardinality(InHand) - 1 \in Nat
<1>1. InHand' = InHand \ {w} /\ w \in InHand
  BY DEF TypeOK, InHand
<1>2. Cardinality(InHand \ {w}) = Cardinality(InHand) - 1 /\ Cardinality(InHand \ {w}) \in Nat
  BY <1>1, HandsFinite, FS_RemoveElement, FS_Subset, FS_CardinalityType
<1>3. QED
  BY <1>1, <1>2

-----------------------------------------------------------------------------
(* Who has left, and when.                                                 *)

LEMMA PhaseInit == Init => PhaseOK
BY PoolAssumption DEF Init, PhaseOK

LEMMA PhaseStep == TypeOK /\ PhaseOK /\ [Next]_vars => PhaseOK'
<1> SUFFICES ASSUME TypeOK, PhaseOK, [Next]_vars PROVE PhaseOK'
  OBVIOUS
<1>1. Owner \in Clients
  BY PoolAssumption
<1>2. ASSUME NEW c \in Clients, NEW t, Push(c, t), cpc[c] # "joining"
      PROVE  PhaseOK'
  <2>1. wpc' = WakeWorkers /\ running' = running /\ cpc' = [cpc EXCEPT ![c] = "ready"]
    BY <1>2 DEF Push
  <2>2. \A w \in Workers : wpc'[w] = "gone" <=> wpc[w] = "gone"
    BY <2>1, WorkersWokenUp
  <2>3. cpc'[Owner] = "joining" <=> cpc[Owner] = "joining"
    BY <1>1, <1>2, <2>1 DEF TypeOK
  <2>4. QED
    BY <2>1, <2>2, <2>3 DEF PhaseOK, Gone
<1>3. ASSUME NEW c \in Clients, ClientStep(c)
      PROVE  PhaseOK'
  <2>1. CASE \E t : Push(c, t)
    <3>1. cpc[c] # "joining"
      BY <1>3 DEF ClientStep, Add, AddWoken
    <3>2. QED
      BY <1>2, <2>1, <3>1
  <2>2. CASE ~\E t : Push(c, t)
    <3>1. /\ cpc[c] # "joining" /\ cpc' = [cpc EXCEPT ![c] = "adderAsleep"]
          /\ wpc' = wpc /\ running' = running
      BY <1>3, <2>2 DEF ClientStep, Add, AddWoken, poolVars
    <3>2. cpc'[Owner] = "joining" <=> cpc[Owner] = "joining"
      BY <1>1, <3>1 DEF TypeOK
    <3>3. QED
      BY <3>1, <3>2 DEF PhaseOK, Gone
  <2>3. QED
    BY <2>1, <2>2
<1>4. ASSUME NEW w \in Workers, TakeTask(w) \/ RunTask(w)
      PROVE  PhaseOK'
  <2>1. /\ wpc[w] \in {"test", "run"} /\ \E v \in {"test", "run"} : wpc' = [wpc EXCEPT ![w] = v]
        /\ cpc' = WakeClients /\ running' = running
    BY <1>4 DEF TakeTask, RunTask
  <2>2. \A v \in Workers : wpc'[v] = "gone" <=> wpc[v] = "gone"
    BY <2>1 DEF TypeOK
  <2>3. QED
    BY <1>1, <2>1, <2>2, ClientsWoken DEF PhaseOK, Gone
<1>5. ASSUME NEW w \in Workers, NoWork(w)
      PROVE  PhaseOK'
  <2>1. /\ wpc[w] = "test"
        /\ wpc' = [wpc EXCEPT ![w] = IF running THEN "asleep" ELSE "gone"]
        /\ cpc' = cpc /\ running' = running
    BY <1>5 DEF NoWork, poolVars
  <2>2. QED
    BY <2>1 DEF PhaseOK, Gone, TypeOK
<1>6. CASE JoinBegin
  BY <1>1, <1>6 DEF JoinBegin, PhaseOK, TypeOK
<1>7. CASE JoinEnd
  BY <1>1, <1>7 DEF JoinEnd, PhaseOK, TypeOK, Gone
<1>8. CASE Go
  BY <1>1, <1>8 DEF Go, PhaseOK
<1>9. CASE Await
  BY <1>1, <1>9 DEF Await, PhaseOK, TypeOK, Gone, poolVars
<1>10. CASE ClearErrors \/ UNCHANGED vars
  BY <1>10 DEF ClearErrors, PhaseOK, Gone, vars
<1>11. QED
  BY <1>3, <1>4, <1>5, <1>6, <1>7, <1>8, <1>9, <1>10
     DEF Next, WorkerStep, OwnerStep, Finished

-----------------------------------------------------------------------------
(* Types, adders and the count of running tasks.                           *)

LEMMA LocalInit == Init => Local
<1> SUFFICES ASSUME Init PROVE Local
  OBVIOUS
<1>1. TypeOK
  BY PoolAssumption DEF Init, TypeOK
<1>2. InHand = {}
  BY DEF Init, InHand
<1>3. HandsOK /\ OutstandingCounts
  BY <1>2, FS_EmptySet DEF Init, HandsOK, OutstandingCounts
<1>4. AddersOK
  BY DEF Init, AddersOK, Adder
<1>5. QED
  BY <1>1, <1>3, <1>4 DEF Local

\* A push, by a client that was not in add() before or that slept in it.
LEMMA PushLocal ==
    ASSUME Local, NEW c \in Clients, NEW t \in Tasks, Push(c, t),
           \A d \in Clients \ {c} : Adder(d) => adding[d] # t
    PROVE  Local'
<1>1. /\ tasks' = Append(tasks, t) /\ accepted' = accepted \cup {t}
      /\ wpc' = WakeWorkers
      /\ cpc' = [cpc EXCEPT ![c] = "ready"] /\ adding' = [adding EXCEPT ![c] = NoTask]
      /\ UNCHANGED <<running, outstanding, errors, held, restarts, ran, threw, reported>>
  BY DEF Push
<1>2. TypeOK'
  <2>1. tasks' \in Seq(Tasks)
    BY <1>1, PushElems DEF Local, TypeOK
  <2>2. wpc' \in [Workers -> {"test", "asleep", "run", "gone"}]
    BY <1>1, WorkersWokenUp DEF Local, WorkerPlaces
  <2>3. QED
    BY <1>1, <2>1, <2>2 DEF Local, TypeOK
<1>3. HandsOK' /\ OutstandingCounts'
  <2>1. InHand' = InHand
    BY <1>1, WorkersWokenUp DEF Local
  <2>2. QED
    BY <1>1, <2>1 DEF Local, HandsOK, OutstandingCounts
<1>4. AddersOK'
  <2>1. /\ ~Adder(c)'
        /\ \A d \in Clients \ {c} : adding'[d] = adding[d] /\ (Adder(d)' <=> Adder(d))
    BY <1>1 DEF Local, TypeOK, Adder
  <2>2. QED
    BY <1>1, <2>1 DEF Local, AddersOK
<1>5. QED
  BY <1>2, <1>3, <1>4 DEF Local

\* A step that leaves the clients and the tasks alone keeps AddersOK.
LEMMA AddersUnchanged ==
    ASSUME AddersOK, UNCHANGED <<adding, accepted>>,
           \A c \in Clients : Adder(c)' <=> Adder(c)
    PROVE  AddersOK'
BY DEF AddersOK

LEMMA LocalStep == Local /\ PhaseOK /\ [Next]_vars => Local'
<1> SUFFICES ASSUME Local, PhaseOK, [Next]_vars PROVE Local'
  OBVIOUS
<1>1. TypeOK /\ HandsOK /\ AddersOK /\ OutstandingCounts
  BY DEF Local
<1>2. ASSUME NEW c \in Clients, NEW t \in Tasks, Add(c, t)
      PROVE  Local'
  <2>1. CASE Push(c, t)
    BY <1>2, <2>1, PushLocal DEF Add
  <2>2. CASE ~Push(c, t)
    <3>1. /\ cpc' = [cpc EXCEPT ![c] = "adderAsleep"] /\ adding' = [adding EXCEPT ![c] = t]
          /\ UNCHANGED <<poolVars, wpc, held, restarts, accepted, ran, threw, reported>>
          /\ t \notin accepted /\ \A d \in Clients : adding[d] # t
      BY <1>2, <2>2 DEF Add
    <3>2. TypeOK'
      BY <1>1, <3>1 DEF TypeOK, poolVars
    <3>3. HandsOK' /\ OutstandingCounts'
      BY <1>1, <3>1 DEF HandsOK, OutstandingCounts, InHand, poolVars
    <3>4. AddersOK'
      BY <1>1, <3>1 DEF AddersOK, Adder, TypeOK
    <3>5. QED
      BY <3>2, <3>3, <3>4 DEF Local
  <2>3. QED
    BY <2>1, <2>2
<1>3. ASSUME NEW c \in Clients, AddWoken(c)
      PROVE  Local'
  <2>1. Adder(c) /\ adding[c] \in Tasks
    BY <1>1, <1>3 DEF AddWoken, Adder, AddersOK
  <2>2. CASE Push(c, adding[c])
    BY <1>1, <2>1, <2>2, PushLocal DEF AddersOK
  <2>3. CASE ~Push(c, adding[c])
    <3>1. /\ cpc' = [cpc EXCEPT ![c] = "adderAsleep"]
          /\ UNCHANGED <<poolVars, wpc, held, adding, restarts, accepted, ran, threw, reported>>
      BY <1>3, <2>3 DEF AddWoken
    <3>2. TypeOK' /\ HandsOK' /\ OutstandingCounts'
      BY <1>1, <3>1 DEF TypeOK, HandsOK, OutstandingCounts, InHand, poolVars
    <3>3. \A d \in Clients : Adder(d)' <=> Adder(d)
      BY <1>1, <2>1, <3>1 DEF Adder, TypeOK
    <3>4. AddersOK'
      BY <1>1, <3>1, <3>3, AddersUnchanged
    <3>5. QED
      BY <3>2, <3>4 DEF Local
  <2>4. QED
    BY <2>2, <2>3
<1>4. ASSUME NEW w \in Workers, TakeTask(w)
      PROVE  Local'
  <2>1. /\ wpc[w] = "test" /\ tasks # <<>>
        /\ held' = [held EXCEPT ![w] = Head(tasks)] /\ tasks' = Tail(tasks)
        /\ outstanding' = outstanding + 1
        /\ wpc' = [wpc EXCEPT ![w] = "run"] /\ cpc' = WakeClients
        /\ UNCHANGED <<running, errors, adding, restarts, accepted, ran, threw, reported>>
    BY <1>4 DEF TakeTask
  <2>2. Head(tasks) \in Tasks /\ Tail(tasks) \in Seq(Tasks)
    BY <1>1, <2>1, PopElems DEF TypeOK
  <2>3. TypeOK'
    BY <1>1, <2>1, <2>2, ClientsWoken DEF TypeOK, ClientPlaces
  <2>4. InHand' = InHand \cup {w} /\ Cardinality(InHand') = Cardinality(InHand) + 1
    BY <1>1, <2>1, HandsTake
  <2>5. HandsOK'
    BY <1>1, <2>1, <2>2, <2>4 DEF HandsOK, TypeOK, InHand
  <2>6. OutstandingCounts'
    BY <1>1, <2>1, <2>4 DEF OutstandingCounts
  <2>7. AddersOK'
    BY <1>1, <2>1, ClientsWoken, AddersUnchanged
  <2>8. QED
    BY <2>3, <2>5, <2>6, <2>7 DEF Local
<1>5. ASSUME NEW w \in Workers, RunTask(w)
      PROVE  Local'
  <2>1. /\ wpc[w] = "run" /\ ran' = [ran EXCEPT ![held[w]] = @ + 1]
        /\ \/ errors' = errors \cup {held[w]} /\ threw' = threw \cup {held[w]}
           \/ UNCHANGED <<errors, threw>>
        /\ outstanding' = outstanding - 1
        /\ held' = [held EXCEPT ![w] = NoTask]
        /\ wpc' = [wpc EXCEPT ![w] = "test"] /\ cpc' = WakeClients
        /\ UNCHANGED <<tasks, running, adding, restarts, accepted, reported>>
    BY <1>5 DEF RunTask
  <2>2. /\ InHand' = InHand \ {w} /\ w \in InHand
        /\ Cardinality(InHand') = Cardinality(InHand) - 1
        /\ Cardinality(InHand) - 1 \in Nat
    BY <1>1, <2>1, HandsDone
  <2>3. held[w] \in Tasks
    BY <1>1, <2>2 DEF HandsOK
  <2>4. TypeOK'
    <3>1. outstanding' \in Nat
      BY <1>1, <2>1, <2>2 DEF OutstandingCounts
    <3>2. ran' \in [Tasks -> Nat]
      BY <1>1, <2>1, <2>3 DEF TypeOK
    <3>3. errors' \subseteq Tasks /\ threw' \subseteq Tasks
      BY <1>1, <2>1, <2>3 DEF TypeOK
    <3>4. cpc' \in [Clients -> ClientPlaces]
      BY <1>1, <2>1, ClientsWoken
    <3>5. QED
      BY <1>1, <2>1, <3>1, <3>2, <3>3, <3>4 DEF TypeOK, ClientPlaces
  <2>5. HandsOK'
    BY <1>1, <2>1, <2>2 DEF HandsOK, TypeOK, InHand
  <2>6. OutstandingCounts'
    BY <1>1, <2>1, <2>2 DEF OutstandingCounts
  <2>7. AddersOK'
    BY <1>1, <2>1, ClientsWoken, AddersUnchanged
  <2>8. QED
    BY <2>4, <2>5, <2>6, <2>7 DEF Local
<1>6. ASSUME NEW w \in Workers, NoWork(w)
      PROVE  Local'
  <2>1. /\ wpc[w] = "test"
        /\ wpc' = [wpc EXCEPT ![w] = IF running THEN "asleep" ELSE "gone"]
        /\ UNCHANGED <<poolVars, held, cpc, adding, restarts, accepted, ran, threw, reported>>
    BY <1>6 DEF NoWork
  <2>2. InHand' = InHand
    BY <1>1, <2>1 DEF InHand, TypeOK
  <2>3. TypeOK'
    BY <1>1, <2>1 DEF TypeOK, poolVars
  <2>4. HandsOK' /\ OutstandingCounts' /\ AddersOK'
    BY <1>1, <2>1, <2>2 DEF HandsOK, OutstandingCounts, AddersOK, Adder, poolVars
  <2>5. QED
    BY <2>3, <2>4 DEF Local
<1>7. CASE JoinBegin
  <2>1. /\ cpc[Owner] = "ready" /\ running' = FALSE /\ wpc' = WakeWorkers
        /\ cpc' = [cpc EXCEPT ![Owner] = "joining"]
        /\ UNCHANGED <<tasks, outstanding, errors, held, adding, restarts, accepted, ran,
                       threw, reported>>
    BY <1>7 DEF JoinBegin
  <2>2. InHand' = InHand /\ wpc' \in [Workers -> WorkerPlaces]
    BY <1>1, <2>1, WorkersWokenUp
  <2>3. TypeOK'
    BY <1>1, <2>1, <2>2 DEF TypeOK, WorkerPlaces
  <2>4. \A c \in Clients : Adder(c)' <=> Adder(c)
    BY <1>1, <2>1 DEF Adder, TypeOK
  <2>5. HandsOK' /\ OutstandingCounts' /\ AddersOK'
    BY <1>1, <2>1, <2>2, <2>4, AddersUnchanged DEF HandsOK, OutstandingCounts
  <2>6. QED
    BY <2>3, <2>5 DEF Local
<1>8. CASE JoinEnd
  <2>1. /\ cpc[Owner] = "joining" /\ cpc' = [cpc EXCEPT ![Owner] = "ready"]
        /\ tasks' \in {tasks, <<>>}
        /\ UNCHANGED <<running, outstanding, errors, wpc, held, adding, restarts, accepted,
                       ran, threw, reported>>
    BY <1>8 DEF JoinEnd
  <2>2. tasks' \in Seq(Tasks)
    BY <1>1, <2>1, EmptySeq DEF TypeOK
  <2>3. TypeOK'
    BY <1>1, <2>1, <2>2 DEF TypeOK
  <2>4. \A c \in Clients : Adder(c)' <=> Adder(c)
    BY <1>1, <2>1 DEF Adder, TypeOK
  <2>5. HandsOK' /\ OutstandingCounts' /\ AddersOK'
    BY <1>1, <2>1, <2>4, AddersUnchanged DEF HandsOK, OutstandingCounts, InHand
  <2>6. QED
    BY <2>3, <2>5 DEF Local
<1>9. CASE Go
  <2>1. /\ wpc' = [w \in Workers |-> "test"] /\ restarts' = restarts + 1 /\ running' = TRUE
        /\ UNCHANGED <<tasks, outstanding, errors, held, cpc, adding, accepted, ran, threw,
                       reported>>
        /\ cpc[Owner] = "ready" /\ ~running
    BY <1>9 DEF Go
  <2>2. InHand = {} /\ InHand' = {}
    BY <2>1 DEF PhaseOK, Gone, InHand
  <2>3. TypeOK'
    BY <1>1, <2>1 DEF TypeOK
  <2>4. HandsOK' /\ OutstandingCounts' /\ AddersOK'
    BY <1>1, <2>1, <2>2 DEF HandsOK, OutstandingCounts, AddersOK, Adder
  <2>5. QED
    BY <2>3, <2>4 DEF Local
<1>10. CASE Await
  <2>1. /\ \E v \in {"ready", "awaitAsleep"} : cpc' = [cpc EXCEPT ![Owner] = v]
        /\ cpc[Owner] \in {"ready", "awaitWoken"}
        /\ UNCHANGED <<poolVars, wpc, held, adding, restarts, accepted, ran, threw, reported>>
    BY <1>10 DEF Await
  <2>2. TypeOK' /\ \A c \in Clients : Adder(c)' <=> Adder(c)
    BY <1>1, <2>1 DEF TypeOK, Adder, poolVars
  <2>3. HandsOK' /\ OutstandingCounts' /\ AddersOK'
    BY <1>1, <2>1, <2>2, AddersUnchanged DEF HandsOK, OutstandingCounts, InHand, poolVars
  <2>4. QED
    BY <2>2, <2>3 DEF Local
<1>11. CASE ClearErrors
  <2>1. TypeOK'
    BY <1>1, <1>11 DEF ClearErrors, TypeOK
  <2>2. HandsOK' /\ OutstandingCounts' /\ AddersOK'
    BY <1>1, <1>11 DEF ClearErrors, HandsOK, OutstandingCounts, InHand, AddersOK, Adder
  <2>3. QED
    BY <2>1, <2>2 DEF Local
<1>12. CASE UNCHANGED vars
  BY <1>1, <1>12 DEF vars, Local, TypeOK, HandsOK, OutstandingCounts, InHand, AddersOK, Adder
<1>13. QED
  BY <1>2, <1>3, <1>4, <1>5, <1>6, <1>7, <1>8, <1>9, <1>10, <1>11, <1>12
     DEF Next, ClientStep, WorkerStep, OwnerStep, Finished

-----------------------------------------------------------------------------
(* No add() is late when the pool is used safely.                          *)

LEMMA LateInit == Init => NoLateAdd
BY DEF Init, NoLateAdd, Adder

LEMMA LateStep ==
    ASSUME SafeUse, TypeOK, PhaseOK, NoLateAdd, [Next]_vars
    PROVE  NoLateAdd'
<1>1. Owner \in Clients
  BY PoolAssumption
<1>2. ASSUME NEW c \in Clients, ClientStep(c)
      PROVE  NoLateAdd'
  <2>1. running
    BY <1>2 DEF ClientStep, Add, AddWoken, NoLateAdd, Adder
  <2>2. running' = running
    BY <1>2 DEF ClientStep, Add, AddWoken, Push, poolVars
  <2>3. \A w \in Workers : wpc'[w] # "gone"
    BY <1>2, <2>1, WorkersWokenUp DEF ClientStep, Add, AddWoken, Push, PhaseOK
  <2>4. ASSUME NEW d \in Clients, Adder(d)'
        PROVE  d = Owner
    <3>1. CASE \E t : Push(c, t)
      <4>1. cpc' = [cpc EXCEPT ![c] = "ready"]
        BY <3>1 DEF Push
      <4>2. Adder(d)
        BY <2>4, <4>1 DEF Adder, TypeOK
      <4>3. QED
        BY <4>2 DEF NoLateAdd
    <3>2. CASE ~\E t : Push(c, t)
      <4>1. cpc' = [cpc EXCEPT ![c] = "adderAsleep"] /\ c = Owner
        <5>1. CASE AddWoken(c)
          BY <3>2, <5>1 DEF AddWoken, NoLateAdd, Adder
        <5>2. CASE \E t \in Tasks : Add(c, t)
          BY <3>2, <5>2 DEF Add, Room, SafeUse
        <5>3. QED
          BY <1>2, <5>1, <5>2 DEF ClientStep
      <4>2. d = c \/ Adder(d)
        BY <2>4, <4>1 DEF Adder, TypeOK
      <4>3. QED
        BY <4>1, <4>2 DEF NoLateAdd
    <3>3. QED
      BY <3>1, <3>2
  <2>5. QED
    BY <2>1, <2>2, <2>3, <2>4 DEF NoLateAdd
<1>3. ASSUME NEW w \in Workers, TakeTask(w) \/ RunTask(w)
      PROVE  NoLateAdd'
  <2>1. /\ wpc[w] \in {"test", "run"} /\ \E v \in {"test", "run"} : wpc' = [wpc EXCEPT ![w] = v]
        /\ tasks # <<>> \/ tasks' = tasks
        /\ cpc' = WakeClients /\ running' = running
    BY <1>3 DEF TakeTask, RunTask
  <2>2. \A v \in Workers : wpc'[v] = "gone" => wpc[v] = "gone"
    BY <2>1 DEF TypeOK
  <2>3. QED
    BY <2>1, <2>2, ClientsWoken DEF NoLateAdd
<1>4. ASSUME NEW w \in Workers, NoWork(w)
      PROVE  NoLateAdd'
  BY <1>4 DEF NoWork, NoLateAdd, Adder, poolVars
<1>5. CASE JoinBegin
  <2>1. /\ cpc[Owner] = "ready" /\ wpc' = WakeWorkers
        /\ cpc' = [cpc EXCEPT ![Owner] = "joining"] /\ tasks' = tasks
    BY <1>5 DEF JoinBegin
  <2>2. \A c \in Clients : ~Adder(c)'
    BY <1>1, <2>1 DEF NoLateAdd, Adder, TypeOK
  <2>3. QED
    BY <2>1, <2>2, WorkersWokenUp DEF NoLateAdd
<1>6. CASE JoinEnd \/ Await
  <2>1. /\ \E v \in {"ready", "awaitAsleep"} : cpc' = [cpc EXCEPT ![Owner] = v]
        /\ tasks' \in {tasks, <<>>} /\ UNCHANGED <<wpc, running>>
    BY <1>6 DEF JoinEnd, Await, poolVars
  <2>2. \A c \in Clients : Adder(c)' => Adder(c)
    BY <1>1, <2>1 DEF Adder, TypeOK
  <2>3. QED
    BY <2>1, <2>2 DEF NoLateAdd
<1>7. CASE Go
  BY <1>7 DEF Go, NoLateAdd, Adder
<1>8. CASE ClearErrors \/ UNCHANGED vars
  BY <1>8 DEF ClearErrors, vars, NoLateAdd, Adder
<1>9. QED
  BY <1>2, <1>3, <1>4, <1>5, <1>6, <1>7, <1>8
     DEF Next, WorkerStep, OwnerStep, Finished

-----------------------------------------------------------------------------
(* Each accepted task is in one place.                                     *)

LEMMA OnceInit == Init => Once
<1> SUFFICES ASSUME Init PROVE Once
  OBVIOUS
<1>1. Elems(tasks) = {} /\ Distinct(tasks) /\ InHand = {} /\ Done = {}
  BY DEF Init, Elems, Distinct, InHand, Done
<1>2. \A t \in Tasks : ran[t] = 0
  BY DEF Init
<1>3. QED
  BY <1>1, <1>2 DEF Init, Once

\* A step that moves no task.
LEMMA OnceUnchanged ==
    ASSUME Once, UNCHANGED <<tasks, held, accepted, ran>>, InHand' = InHand
    PROVE  Once'
BY DEF Once, Done

\* A task that is not accepted is nowhere; a push puts it on the queue.
LEMMA PushOnce ==
    ASSUME Local, Once, NEW c \in Clients, NEW t \in Tasks \ accepted, Push(c, t)
    PROVE  Once'
<1>1. /\ tasks' = Append(tasks, t) /\ accepted' = accepted \cup {t} /\ wpc' = WakeWorkers
      /\ UNCHANGED <<held, ran>>
  BY DEF Push
<1>2. InHand' = InHand /\ Done' = Done
  BY <1>1, WorkersWokenUp DEF Local, Done
<1>3. t \notin Elems(tasks) /\ t \notin Done /\ \A w \in InHand : held[w] # t
  BY DEF Once
<1>4. Elems(tasks') = Elems(tasks) \cup {t} /\ Distinct(tasks')
  BY <1>1, <1>3, PushElems DEF Local, TypeOK, Once
<1>5. ran[t] = 0
  BY <1>3 DEF Local, TypeOK, Done
<1>6. accepted' = Elems(tasks') \cup {held'[w] : w \in InHand'} \cup Done'
  BY <1>1, <1>2, <1>4 DEF Once
<1>7. QED
  BY <1>1, <1>2, <1>3, <1>4, <1>5, <1>6 DEF Once

LEMMA OnceStep == Local /\ Once /\ PhaseOK /\ NoLateAdd /\ [Next]_vars => Once'
<1> SUFFICES ASSUME Local, Once, PhaseOK, NoLateAdd, [Next]_vars PROVE Once'
  OBVIOUS
<1>1. TypeOK /\ HandsOK /\ AddersOK
  BY DEF Local
<1>2. ASSUME NEW c \in Clients, ClientStep(c)
      PROVE  Once'
  <2>1. CASE \E t \in Tasks \ accepted : Push(c, t)
    BY <2>1, PushOnce
  <2>2. CASE ~\E t \in Tasks \ accepted : Push(c, t)
    <3>1. UNCHANGED <<poolVars, wpc, held, accepted, ran>>
      BY <1>1, <1>2, <2>2 DEF ClientStep, Add, AddWoken, AddersOK, Adder
    <3>2. QED
      BY <3>1, OnceUnchanged DEF poolVars, InHand
  <2>3. QED
    BY <2>1, <2>2
<1>3. ASSUME NEW w \in Workers, TakeTask(w)
      PROVE  Once'
  <2> DEFINE h == Head(tasks)
  <2>1. /\ wpc[w] = "test" /\ tasks # <<>>
        /\ held' = [held EXCEPT ![w] = h] /\ tasks' = Tail(tasks)
        /\ wpc' = [wpc EXCEPT ![w] = "run"]
        /\ UNCHANGED <<accepted, ran>>
    BY <1>3 DEF TakeTask
  <2>2. InHand' = InHand \cup {w} /\ w \notin InHand /\ Done' = Done
    BY <1>1, <2>1, HandsTake DEF Done
  <2>3. /\ h \in Tasks /\ Elems(tasks) = Elems(tasks') \cup {h}
        /\ Distinct(tasks') /\ h \notin Elems(tasks')
    BY <1>1, <2>1, PopElems DEF TypeOK, Once
  <2>4. held'[w] = h /\ \A v \in InHand : held'[v] = held[v]
    BY <1>1, <2>1, <2>2 DEF TypeOK, InHand
  <2> HIDE DEF h
  <2>5. ran[h] = 0 /\ \A v \in InHand : held[v] # h
    BY <2>3 DEF Once
  <2>6. {held'[v] : v \in InHand'} = {held[v] : v \in InHand} \cup {h}
    BY <2>2, <2>4
  <2>7. accepted' = Elems(tasks') \cup {held'[v] : v \in InHand'} \cup Done'
    BY <2>1, <2>2, <2>3, <2>6 DEF Once
  <2>8. \A v \in InHand' : ran'[held'[v]] = 0 /\ held'[v] \notin Elems(tasks')
    BY <2>1, <2>2, <2>3, <2>4, <2>5 DEF Once
  <2>9. \A u, v \in InHand' : held'[u] = held'[v] => u = v
    BY <2>2, <2>4, <2>5 DEF Once
  <2>10. QED
    BY <2>1, <2>3, <2>7, <2>8, <2>9 DEF Once
<1>4. ASSUME NEW w \in Workers, RunTask(w)
      PROVE  Once'
  <2> DEFINE h == held[w]
  <2>1. /\ wpc[w] = "run" /\ ran' = [ran EXCEPT ![h] = @ + 1]
        /\ held' = [held EXCEPT ![w] = NoTask]
        /\ wpc' = [wpc EXCEPT ![w] = "test"]
        /\ UNCHANGED <<tasks, accepted>>
    BY <1>4 DEF RunTask
  <2>2. InHand' = InHand \ {w} /\ w \in InHand
    BY <1>1, <2>1, HandsDone
  <2>3. h \in Tasks /\ ran[h] = 0 /\ h \notin Elems(tasks)
    BY <1>1, <2>2 DEF HandsOK, Once
  <2>4. /\ ran'[h] = 1
        /\ \A t \in Tasks \ {h} : ran'[t] = ran[t]
    BY <1>1, <2>1, <2>3 DEF TypeOK
  <2>5. Done' = Done \cup {h}
    BY <2>3, <2>4 DEF Done
  <2>6. \A v \in InHand' : held'[v] = held[v] /\ held[v] # h
    BY <1>1, <2>1, <2>2 DEF TypeOK, Once
  <2> HIDE DEF h
  <2>7. {held[v] : v \in InHand} = {held'[v] : v \in InHand'} \cup {h}
    BY <2>2, <2>6 DEF h
  <2>8. accepted' = Elems(tasks') \cup {held'[v] : v \in InHand'} \cup Done'
    BY <2>1, <2>5, <2>7 DEF Once
  <2>9. \A t \in Elems(tasks) : t \in Tasks /\ t # h
    BY <1>1, <2>3, ElementOfSeq DEF TypeOK, Elems
  <2>10. \A t \in Tasks : ran'[t] <= 1
    BY <2>4 DEF Once
  <2>11. \A v \in InHand' : ran'[held'[v]] = 0 /\ held'[v] \notin Elems(tasks')
    <3>1. \A v \in InHand' : v \in InHand /\ held[v] \in Tasks \ {h}
      BY <1>1, <2>2, <2>6 DEF HandsOK
    <3>2. QED
      BY <2>1, <2>4, <2>6, <3>1 DEF Once
  <2>12. \A t \in Elems(tasks') : ran'[t] = 0
    BY <2>1, <2>4, <2>9 DEF Once
  <2>13. \A u, v \in InHand' : held'[u] = held'[v] => u = v
    BY <2>2, <2>6 DEF Once
  <2>14. QED
    BY <2>1, <2>8, <2>10, <2>11, <2>12, <2>13 DEF Once
<1>5. ASSUME NEW w \in Workers, NoWork(w)
      PROVE  Once'
  <2>1. InHand' = InHand
    BY <1>1, <1>5 DEF NoWork, InHand, TypeOK
  <2>2. QED
    BY <1>5, <2>1, OnceUnchanged DEF NoWork, poolVars
<1>6. CASE JoinBegin
  BY <1>1, <1>6, WorkersWokenUp, OnceUnchanged DEF JoinBegin
<1>7. CASE JoinEnd
  <2>1. /\ tasks' \in {tasks, <<>>} /\ Gone
        /\ UNCHANGED <<wpc, held, accepted, ran>>
    BY <1>7 DEF JoinEnd
  <2>2. tasks' = tasks
    BY <2>1, PoolAssumption DEF NoLateAdd, Gone
  <2>3. QED
    BY <2>1, <2>2, OnceUnchanged DEF InHand
<1>8. CASE Go
  <2>1. InHand = {} /\ InHand' = {}
    BY <1>8 DEF Go, PhaseOK, Gone, InHand
  <2>2. QED
    BY <1>8, <2>1, OnceUnchanged DEF Go
<1>9. CASE Await \/ ClearErrors \/ UNCHANGED vars
  BY <1>9, OnceUnchanged DEF Await, ClearErrors, vars, poolVars, InHand
<1>10. QED
  BY <1>2, <1>3, <1>4, <1>5, <1>6, <1>7, <1>8, <1>9
     DEF Next, WorkerStep, OwnerStep, Finished

-----------------------------------------------------------------------------
(* Errors and wakeups.                                                     *)

LEMMA ErrorsStep == ErrorsReachOwner /\ [Next]_vars => ErrorsReachOwner'
<1> SUFFICES ASSUME ErrorsReachOwner, [Next]_vars PROVE ErrorsReachOwner'
  OBVIOUS
<1>1. ASSUME NEW w \in Workers, RunTask(w)
      PROVE  ErrorsReachOwner'
  BY <1>1 DEF RunTask, ErrorsReachOwner
<1>2. CASE ClearErrors
  BY <1>2 DEF ClearErrors, ErrorsReachOwner
<1>3. ASSUME NEW c \in Clients, ClientStep(c)
      PROVE  ErrorsReachOwner'
  BY <1>3 DEF ClientStep, Add, AddWoken, Push, ErrorsReachOwner, poolVars
<1>4. ASSUME NEW w \in Workers, TakeTask(w) \/ NoWork(w)
      PROVE  ErrorsReachOwner'
  BY <1>4 DEF TakeTask, NoWork, ErrorsReachOwner, poolVars
<1>5. CASE JoinBegin \/ JoinEnd \/ Go \/ Await \/ UNCHANGED vars
  BY <1>5 DEF JoinBegin, JoinEnd, Go, Await, vars, poolVars, ErrorsReachOwner
<1>6. QED
  BY <1>1, <1>2, <1>3, <1>4, <1>5 DEF Next, WorkerStep, OwnerStep, Finished

LEMMA WakeupStep == TypeOK /\ PhaseOK /\ NoLostWakeup /\ [Next]_vars => NoLostWakeup'
<1> SUFFICES ASSUME TypeOK, PhaseOK, NoLostWakeup, [Next]_vars PROVE NoLostWakeup'
  OBVIOUS
<1>1. ASSUME NEW c \in Clients, ClientStep(c)
      PROVE  NoLostWakeup'
  <2>1. CASE \E t : Push(c, t)
    <3>1. wpc' = WakeWorkers /\ running' = running
      BY <2>1 DEF Push
    <3>2. running => \A w \in Workers : wpc'[w] \in {"test", "run"}
      BY <3>1, WorkersWokenUp DEF PhaseOK, WorkerPlaces
    <3>3. QED
      BY <3>1, <3>2, PoolAssumption DEF NoLostWakeup
  <2>2. CASE ~\E t : Push(c, t)
    BY <1>1, <2>2 DEF ClientStep, Add, AddWoken, NoLostWakeup, poolVars
  <2>3. QED
    BY <2>1, <2>2
<1>2. ASSUME NEW w \in Workers, TakeTask(w) \/ RunTask(w)
      PROVE  NoLostWakeup'
  <2>1. wpc'[w] \in {"test", "run"}
    BY <1>2 DEF TakeTask, RunTask, TypeOK
  <2>2. QED
    BY <2>1 DEF NoLostWakeup
<1>3. CASE \E w \in Workers : NoWork(w)
  BY <1>3 DEF NoWork, NoLostWakeup, poolVars
<1>4. CASE JoinBegin
  BY <1>4 DEF JoinBegin, NoLostWakeup
<1>5. CASE JoinEnd
  BY <1>5 DEF JoinEnd, PhaseOK, NoLostWakeup
<1>6. CASE Go
  BY <1>6, PoolAssumption DEF Go, NoLostWakeup
<1>7. CASE Await \/ ClearErrors \/ UNCHANGED vars
  BY <1>7 DEF Await, ClearErrors, vars, poolVars, NoLostWakeup
<1>8. QED
  BY <1>1, <1>2, <1>3, <1>4, <1>5, <1>6, <1>7
     DEF Next, WorkerStep, OwnerStep, Finished

-----------------------------------------------------------------------------
(* Theorems.                                                               *)

LEMMA Invariant == Spec => []IInv
<1>1. Init => IInv
  BY LocalInit, PhaseInit DEF Init, IInv, ErrorsReachOwner, NoLostWakeup
<1>2. IInv /\ [Next]_vars => IInv'
  BY LocalStep, PhaseStep, ErrorsStep, WakeupStep DEF IInv, Local
<1>3. QED
  BY <1>1, <1>2, PTL DEF Spec

LEMMA SafeInvariant ==
    ASSUME SafeUse
    PROVE  Spec => []SafeIInv
<1>1. Init => NoLateAdd /\ Once
  BY LateInit, OnceInit
<1>2. IInv /\ NoLateAdd /\ Once /\ [Next]_vars => (NoLateAdd /\ Once)'
  BY LateStep, OnceStep DEF IInv, Local
<1>3. QED
  BY <1>1, <1>2, Invariant, PTL DEF Spec, SafeIInv

\* The pool's state always has its type; in particular m_outstanding, an
\* unsigned count, never goes below zero (ThreadPool::work).
THEOREM PoolTypeCorrect == Spec => []TypeOK
BY Invariant, PTL DEF IInv, Local

\* m_outstanding is the number of tasks that are being run, so that await(),
\* which tests it, returns neither early nor late (ThreadPool::await).
THEOREM CountIsExact == Spec => []OutstandingCounts
BY Invariant, PTL DEF IInv, Local

\* The exception of a task is in the error list until clearErrors() hands it
\* out, whoever else throws in the meantime (ThreadPool::work, clearErrors).
THEOREM ErrorsKept == Spec => []ErrorsReachOwner
BY Invariant, PTL DEF IInv

\* While tasks wait in a running pool some worker is about to look at the
\* queue: no notify of add(), go() or work() is lost.
THEOREM WorkersWoken == Spec => []NoLostWakeup
BY Invariant, PTL DEF IInv

\* Every task that add() accepted is on the queue, with one worker, or has
\* been run once, through any number of joins and restarts.
THEOREM TasksRunOnce ==
    ASSUME SafeUse
    PROVE  Spec => []EachTaskOnce
<1>1. Once => EachTaskOnce
  BY DEF Once, EachTaskOnce, Queued, Elems, Distinct
<1>2. QED
  BY <1>1, SafeInvariant, PTL DEF SafeIInv

\* When join() or stop() has returned every accepted task has been run.
THEOREM JoinIsComplete ==
    ASSUME SafeUse
    PROVE  Spec => []JoinRunsAll
<1>1. ASSUME SafeIInv, ~running, cpc[Owner] # "joining"
      PROVE  accepted = Done /\ outstanding = 0
  <2>1. Gone
    BY <1>1 DEF SafeIInv, IInv, PhaseOK
  <2>2. tasks = <<>> /\ InHand = {}
    BY <1>1, <2>1, PoolAssumption DEF SafeIInv, NoLateAdd, Gone, InHand
  <2>3. Elems(tasks) = {}
    BY <2>2 DEF Elems
  <2>4. accepted = Done
    BY <1>1, <2>2, <2>3 DEF SafeIInv, Once
  <2>5. outstanding = 0
    BY <1>1, <2>2, FS_EmptySet DEF SafeIInv, IInv, Local, OutstandingCounts
  <2>6. QED
    BY <2>4, <2>5
<1>2. SafeIInv => JoinRunsAll
  BY <1>1 DEF JoinRunsAll
<1>3. QED
  BY <1>2, SafeInvariant, PTL
=============================================================================
