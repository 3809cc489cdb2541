--------------------------- MODULE EventLoopProofs ---------------------------
(***************************************************************************)
(* What one step of the loop does to each task slot: the lemmas the proofs   *)
(* about the modules that extend EventLoop rest on.                          *)
(***************************************************************************)
EXTENDS EventLoop, FiniteSetTheorems, SequenceTheorems, TLAPS

(* A step creates two tasks at most.  When as many slots are idle, Slots     *)
(* finds a different one for each.                                           *)
LEMMA SlotsAreIdle ==
    ASSUME NEW n \in 0..2, n <= Cardinality(Idle)
    PROVE  /\ Slots(n) \in [1..n -> Idle]
           /\ \A i, j \in 1..n : i # j => Slots(n)[i] # Slots(n)[j]
  <1> DEFINE Good(f) == f \in [1..n -> Idle] /\ \A i, j \in 1..n : i # j => f[i] # f[j]
  <1>1. IsFiniteSet(Idle) /\ Cardinality(Idle) \in Nat
    BY LoopAssumption, FS_Subset, FS_CardinalityType DEF Idle
  <1>2. \E f : Good(f)
    <2>1. CASE n = 0
      <3>1. Good([i \in 1..n |-> NoTask])
        BY <2>1
      <3> QED
        BY <3>1
    <2>2. CASE n = 1
      <3>1. PICK t : t \in Idle
        BY <2>2, <1>1, FS_EmptySet
      <3>2. Good([i \in 1..n |-> t])
        BY <2>2, <3>1
      <3> QED
        BY <3>2
    <2>3. CASE n = 2
      <3>1. PICK t : t \in Idle
        BY <2>3, <1>1, FS_EmptySet
      <3>2. IsFiniteSet(Idle \ {t}) /\ Cardinality(Idle \ {t}) = Cardinality(Idle) - 1
        BY <1>1, <3>1, FS_RemoveElement
      <3>3. Cardinality(Idle \ {t}) # 0
        BY <1>1, <2>3, <3>2
      <3>4. PICK u : u \in Idle \ {t}
        BY <3>2, <3>3, FS_EmptySet
      <3>5. Good([i \in 1..n |-> IF i = 1 THEN t ELSE u])
        BY <2>3, <3>1, <3>4
      <3> QED
        BY <3>5
    <2> QED
      BY <2>1, <2>2, <2>3
  <1>3. Slots(n) = CHOOSE f : Good(f)
    BY DEF Slots
  <1> QED
    BY <1>2, <1>3

(* The fate of a slot in a step of the loop: another task, which may be      *)
(* cancelled or dropped from its group; the task that ran; a new task.       *)
Untouched(u, t, dead, lost, untracked) ==
    /\ u # t /\ job'[u] = job[u] /\ pc'[u] = pc[u]
    /\ group'[u] = IF u \in untracked THEN NoAccount ELSE group[u]
    /\ cancel'[u] = IF u \in lost THEN "lost" ELSE IF u \in dead THEN "yes" ELSE cancel[u]

Resumed(u, t, point, untracked) ==
    /\ u = t /\ pc'[u] = point /\ cancel'[u] = "no"
    /\ job'[u] = IF point = "idle" THEN NoJob ELSE job[u]
    /\ group'[u] = IF point = "idle" \/ u \in untracked THEN NoAccount ELSE group[u]

Created(u, j, dead, lost) ==
    /\ pc[u] = "idle" /\ pc'[u] = "new"
    /\ job'[u] = j /\ group'[u] = j.account
    /\ cancel'[u] = IF u \in lost THEN "lost" ELSE IF u \in dead THEN "yes" ELSE cancel[u]

(* A step in which t runs up to point and creates the tasks of new.          *)
Stepped(t, point, dead, lost, untracked, new) ==
    /\ \A u \in Tasks : \/ Untouched(u, t, dead, lost, untracked)
                        \/ Resumed(u, t, point, untracked)
                        \/ (\E j \in new : Created(u, j, dead, lost))
    /\ \A j \in new : \E u \in Tasks : u # t /\ Created(u, j, dead, lost)
    /\ job' = [u \in Tasks |-> job'[u]] /\ pc' = [u \in Tasks |-> pc'[u]]
    /\ group' = [u \in Tasks |-> group'[u]] /\ cancel' = [u \in Tasks |-> cancel'[u]]

LEMMA TurnEffect ==
    ASSUME NEW t \in Tasks, NEW point, NEW dead, NEW lost, NEW untracked, NEW J, NEW jobs \in Seq(J),
           NEW created, \A i \in 1..Len(jobs) : jobs[i] \in created,
           \A j \in created : \E i \in 1..Len(jobs) : jobs[i] = j, Len(jobs) \in 0..2, jobs # <<>> => pc[t] # "idle",
           TurnDropping(t, point, dead, lost, untracked, jobs)
    PROVE  Stepped(t, point, dead, lost, untracked, created)
  <1> DEFINE n == Len(jobs)
             new == Slots(n)
             made == {new[i] : i \in DOMAIN new}
             nth(u) == CHOOSE i \in DOMAIN new : new[i] = u
  <1>1. n \in 0..2 /\ n <= Cardinality(Idle)
    <2>1. n \in 0..2
      OBVIOUS
    <2>2. n <= Cardinality(Idle)
      BY Zenon DEF TurnDropping
    <2> QED
      BY <2>1, <2>2
  <1>2. new \in [1..n -> Idle] /\ \A i, j \in 1..n : i # j => new[i] # new[j]
    BY <1>1, SlotsAreIdle
  <1>3. /\ DOMAIN new = 1..n /\ DOMAIN jobs = 1..n /\ made \subseteq Idle
        /\ \A i \in 1..n : jobs[i] \in created
        /\ \A j \in created : \E i \in 1..n : jobs[i] = j
    BY <1>2
  <1>4. \A i \in 1..n : nth(new[i]) = i
    BY <1>2, <1>3
  <1>5. t \notin made
    <2>1. CASE jobs = <<>>
      BY <2>1, <1>3
    <2>2. CASE jobs # <<>>
      BY <2>2, <1>3 DEF Idle, Live
    <2> QED
      BY <2>1, <2>2
  <1>6. /\ job' = [u \in Tasks |-> IF u \in made THEN jobs[nth(u)]
                                   ELSE IF u = t /\ point = "idle" THEN NoJob ELSE job[u]]
        /\ group' = [u \in Tasks |-> IF u \in made THEN jobs[nth(u)].account
                                     ELSE IF u \in untracked \/ (u = t /\ point = "idle")
                                     THEN NoAccount ELSE group[u]]
        /\ pc' = [u \in Tasks |-> IF u \in made THEN "new" ELSE IF u = t THEN point ELSE pc[u]]
        /\ cancel' = [u \in Tasks |-> IF u = t THEN "no"
                                      ELSE IF u \in lost THEN "lost"
                                      ELSE IF u \in dead THEN "yes" ELSE cancel[u]]
    BY DEF TurnDropping
  <1>7. \A i \in 1..n : /\ new[i] \in made /\ new[i] \in Tasks /\ new[i] # t
                        /\ pc[new[i]] = "idle" /\ nth(new[i]) = i
    BY <1>2, <1>3, <1>4, <1>5 DEF Idle, Live
  <1>8. \A u \in made : \E i \in 1..n : u = new[i]
    BY <1>3
  <1> HIDE DEF n, new, made, nth
  <1>9. \A i \in 1..n : Created(new[i], jobs[i], dead, lost)
    BY <1>6, <1>7 DEF Created
  <1>10. ASSUME NEW u \in Tasks
         PROVE  \/ Untouched(u, t, dead, lost, untracked)
                \/ Resumed(u, t, point, untracked)
                \/ (\E j \in created : Created(u, j, dead, lost))
    <2>1. CASE u \in made
      BY <2>1, <1>3, <1>8, <1>9
    <2>2. CASE u \notin made /\ u = t
      BY <2>2, <1>6 DEF Resumed
    <2>3. CASE u \notin made /\ u # t
      BY <2>3, <1>6 DEF Untouched
    <2> QED
      BY <2>1, <2>2, <2>3
  <1> QED
    BY <1>3, <1>6, <1>7, <1>9, <1>10 DEF Stepped

(* The same for the steps the modules take: no new task, one, or two.        *)
LEMMA RunEffect ==
    ASSUME NEW t \in Tasks, NEW point, Run(t, point)
    PROVE  Stepped(t, point, {}, {}, {}, {})
  <1> DEFINE jobs == <<>>
  <1>1. /\ jobs \in Seq({}) /\ Len(jobs) \in 0..2
        /\ \A i \in 1..Len(jobs) : jobs[i] \in {}
        /\ \A x \in {} : \E i \in 1..Len(jobs) : jobs[i] = x
    OBVIOUS
  <1>2. TurnDropping(t, point, {}, {}, {}, jobs) /\ jobs = <<>>
    BY DEF Run, Turn
  <1> HIDE DEF jobs
  <1> QED
    BY <1>1, <1>2, TurnEffect

LEMMA TurnOneEffect ==
    ASSUME NEW t \in Tasks, NEW point, NEW dead, NEW lost, NEW j, pc[t] # "idle",
           Turn(t, point, dead, lost, <<j>>)
    PROVE  Stepped(t, point, dead, lost, {}, {j})
  <1> DEFINE jobs == <<j>>
  <1>1. /\ jobs \in Seq({j}) /\ Len(jobs) \in 0..2
        /\ \A i \in 1..Len(jobs) : jobs[i] \in {j}
        /\ \A x \in {j} : \E i \in 1..Len(jobs) : jobs[i] = x
    OBVIOUS
  <1>2. TurnDropping(t, point, dead, lost, {}, jobs)
    BY DEF Run, Turn
  <1> HIDE DEF jobs
  <1> QED
    BY <1>1, <1>2, TurnEffect

LEMMA TurnTwoEffect ==
    ASSUME NEW t \in Tasks, NEW point, NEW dead, NEW lost, NEW j, NEW k, pc[t] # "idle",
           Turn(t, point, dead, lost, <<j, k>>)
    PROVE  Stepped(t, point, dead, lost, {}, {j, k})
  <1> DEFINE jobs == <<j, k>>
  <1>1. /\ jobs \in Seq({j, k}) /\ Len(jobs) \in 0..2
        /\ \A i \in 1..Len(jobs) : jobs[i] \in {j, k}
        /\ \A x \in {j, k} : \E i \in 1..Len(jobs) : jobs[i] = x
    OBVIOUS
  <1>2. TurnDropping(t, point, dead, lost, {}, jobs)
    BY DEF Run, Turn
  <1> HIDE DEF jobs
  <1> QED
    BY <1>1, <1>2, TurnEffect

(* The one new task is in the slot Slots chose.                              *)
LEMMA TurnOneSlot ==
    ASSUME NEW t \in Tasks, NEW point, NEW dead, NEW lost, NEW j, pc[t] # "idle",
           Turn(t, point, dead, lost, <<j>>)
    PROVE  /\ Slots(1)[1] \in Tasks \ {t} /\ Created(Slots(1)[1], j, dead, lost)
           /\ \A u \in Tasks \ {Slots(1)[1]} :
                 Untouched(u, t, dead, lost, {}) \/ Resumed(u, t, point, {})
  <1> DEFINE jobs == <<j>>
             new == Slots(1)
             made == {new[i] : i \in DOMAIN new}
             nth(u) == CHOOSE i \in DOMAIN new : new[i] = u
  <1>1. jobs \in Seq({j}) /\ Len(jobs) = 1 /\ jobs[1] = j
    OBVIOUS
  <1>2. TurnDropping(t, point, dead, lost, {}, jobs)
    BY DEF Turn
  <1> HIDE DEF jobs
  <1>3. 1 <= Cardinality(Idle)
    BY <1>1, <1>2 DEF TurnDropping
  <1>4. new \in [1..1 -> Idle]
    BY <1>3, SlotsAreIdle
  <1>5. DOMAIN new = {1} /\ made = {new[1]} /\ new[1] \in Tasks /\ pc[new[1]] = "idle" /\ new[1] # t
    BY <1>4 DEF Idle, Live
  <1>6. nth(new[1]) = 1
    BY <1>5
  <1>7. /\ job' = [u \in Tasks |-> IF u \in made THEN jobs[nth(u)]
                                   ELSE IF u = t /\ point = "idle" THEN NoJob ELSE job[u]]
        /\ group' = [u \in Tasks |-> IF u \in made THEN jobs[nth(u)].account
                                     ELSE IF u \in {} \/ (u = t /\ point = "idle")
                                     THEN NoAccount ELSE group[u]]
        /\ pc' = [u \in Tasks |-> IF u \in made THEN "new" ELSE IF u = t THEN point ELSE pc[u]]
        /\ cancel' = [u \in Tasks |-> IF u = t THEN "no"
                                      ELSE IF u \in lost THEN "lost"
                                      ELSE IF u \in dead THEN "yes" ELSE cancel[u]]
    BY <1>1, <1>2 DEF TurnDropping
  <1> HIDE DEF new, made, nth
  <1>8. Created(new[1], j, dead, lost)
    BY <1>1, <1>5, <1>6, <1>7 DEF Created
  <1>9. \A u \in Tasks \ {new[1]} : Untouched(u, t, dead, lost, {}) \/ Resumed(u, t, point, {})
    BY <1>5, <1>7 DEF Untouched, Resumed
  <1> QED
    BY <1>5, <1>8, <1>9 DEF new

(* A button's callback creates one task and changes no other.                *)
LEMMA CreateEffect ==
    ASSUME NEW j, CreateTask(j)
    PROVE  \E t \in Tasks :
              /\ pc[t] = "idle"
              /\ job' = [job EXCEPT ![t] = j] /\ group' = [group EXCEPT ![t] = j.account]
              /\ pc' = [pc EXCEPT ![t] = "new"] /\ UNCHANGED cancel
  <1>1. IsFiniteSet(Idle) /\ Cardinality(Idle) \in Nat /\ Cardinality(Idle) # 0
    BY LoopAssumption, FS_Subset, FS_CardinalityType, FS_EmptySet DEF Idle, CreateTask
  <1>2. Slots(1)[1] \in Idle
    BY <1>1, SlotsAreIdle
  <1> QED
    BY <1>2 DEF CreateTask, Idle, Live

-----------------------------------------------------------------------------
(* The queue.                                                               *)

LEMMA AsSeqIsSeq ==
    ASSUME NEW S \in SUBSET Tasks
    PROVE  AsSeq(S) \in Seq(Tasks)
  <1> DEFINE n == Cardinality(S)
             Good(f) == f \in [1..n -> S] /\ \A i, j \in 1..n : i # j => f[i] # f[j]
  <1>1. n \in Nat /\ ExistsBijection(1..n, S)
    BY LoopAssumption, FS_Subset, FS_CardinalityType
  <1>2. PICK f : f \in Bijection(1..n, S)
    BY <1>1 DEF ExistsBijection
  <1>3. f \in [1..n -> S] /\ \A i, j \in 1..n : i # j => f[i] # f[j]
    BY <1>2 DEF Bijection, Injection, IsInjective
  <1>4. Good(f)
    BY <1>3
  <1>5. AsSeq(S) = CHOOSE g : Good(g)
    BY DEF AsSeq
  <1>6. AsSeq(S) \in [1..n -> S]
    BY <1>4, <1>5
  <1> HIDE DEF n
  <1> QED
    BY <1>1, <1>6

(* A step takes its task off the queue and leaves the others on it.           *)
LEMMA TurnQueue ==
    ASSUME NEW t \in Tasks, NEW point, NEW dead \in SUBSET Tasks, NEW lost, NEW untracked,
           NEW J, NEW jobs \in Seq(J), Len(jobs) \in 0..2,
           ready \in Seq(Tasks), ready # <<>>, Head(ready) = t,
           TurnDropping(t, point, dead, lost, untracked, jobs)
    PROVE  ready' \in Seq(Tasks) /\ \A u \in Tasks \ {t} : Queued(u) => Queued(u)'
  <1> DEFINE n == Len(jobs)
             new == Slots(n)
             woken == AsSeq({u \in dead : Suspended(u)})
             made == [i \in DOMAIN jobs |-> new[i]]
  <1>1. ready' = Tail(ready) \o woken \o made /\ n <= Cardinality(Idle)
    BY Zenon DEF TurnDropping
  <1>2. woken \in Seq(Tasks)
    BY AsSeqIsSeq
  <1>3. new \in [1..n -> Idle]
    BY <1>1, SlotsAreIdle
  <1>4. DOMAIN jobs = 1..n /\ n \in Nat /\ Idle \subseteq Tasks
    BY DEF Idle
  <1> HIDE DEF n, new, woken
  <1>5. made \in [1..n -> Tasks]
    BY <1>3, <1>4
  <1>6. made \in Seq(Tasks)
    BY <1>4, <1>5
  <1> HIDE DEF made
  <1>7. /\ Tail(ready) \in Seq(Tasks) /\ Len(Tail(ready)) = Len(ready) - 1
        /\ \A i \in 1..Len(Tail(ready)) : Tail(ready)[i] = ready[i + 1]
    BY HeadTailProperties
  <1>8. /\ Tail(ready) \o woken \in Seq(Tasks)
        /\ Len(Tail(ready) \o woken) = Len(Tail(ready)) + Len(woken)
        /\ \A i \in 1..Len(Tail(ready)) : (Tail(ready) \o woken)[i] = Tail(ready)[i]
    BY <1>2, <1>7, ConcatProperties
  <1>9. /\ ready' \in Seq(Tasks)
        /\ Len(ready') = Len(Tail(ready)) + Len(woken) + Len(made)
        /\ \A i \in 1..Len(Tail(ready)) : ready'[i] = Tail(ready)[i]
    BY <1>1, <1>2, <1>6, <1>7, <1>8, ConcatProperties
  <1>10. ASSUME NEW u \in Tasks \ {t}, Queued(u) PROVE Queued(u)'
    <2>1. PICK i \in 1..Len(ready) : ready[i] = u
      BY <1>10 DEF Queued
    <2>2. i # 1
      BY <2>1
    <2>3. i - 1 \in 1..Len(Tail(ready)) /\ ready'[i - 1] = u
      BY <1>7, <1>9, <2>1, <2>2
    <2>4. i - 1 \in DOMAIN ready'
      BY <1>2, <1>6, <1>7, <1>9, <2>3
    <2> QED
      BY <2>3, <2>4 DEF Queued
  <1> QED
    BY <1>9, <1>10

AtHead(t) == ready # <<>> /\ Head(ready) = t

LEMMA FewJobsQueue ==
    ASSUME ready \in Seq(Tasks), NEW t \in Tasks, AtHead(t), NEW point, NEW dead \in SUBSET Tasks
    PROVE  /\ Run(t, point) => ready' \in Seq(Tasks)
           /\ \A j : Turn(t, point, dead, {}, <<j>>) => ready' \in Seq(Tasks)
           /\ \A j, k : Turn(t, point, dead, {}, <<j, k>>) => ready' \in Seq(Tasks)
  <1>1. ASSUME NEW S \in SUBSET Tasks, NEW J, NEW jobs \in Seq(J), Len(jobs) \in 0..2,
               TurnDropping(t, point, S, {}, {}, jobs)
        PROVE  ready' \in Seq(Tasks)
    BY <1>1, TurnQueue DEF AtHead
  <1>2. ASSUME Run(t, point) PROVE ready' \in Seq(Tasks)
    <2> DEFINE jobs == <<>>
    <2>1. jobs \in Seq({}) /\ Len(jobs) \in 0..2 /\ TurnDropping(t, point, {}, {}, {}, jobs)
      BY <1>2 DEF Run, Turn
    <2> HIDE DEF jobs
    <2> QED
      BY <1>1, <2>1
  <1>3. ASSUME NEW j, Turn(t, point, dead, {}, <<j>>) PROVE ready' \in Seq(Tasks)
    <2> DEFINE jobs == <<j>>
    <2>1. jobs \in Seq({j}) /\ Len(jobs) \in 0..2 /\ TurnDropping(t, point, dead, {}, {}, jobs)
      BY <1>3 DEF Turn
    <2> HIDE DEF jobs
    <2> QED
      BY <1>1, <2>1
  <1>4. ASSUME NEW j, NEW k, Turn(t, point, dead, {}, <<j, k>>) PROVE ready' \in Seq(Tasks)
    <2> DEFINE jobs == <<j, k>>
    <2>1. jobs \in Seq({j, k}) /\ Len(jobs) \in 0..2 /\ TurnDropping(t, point, dead, {}, {}, jobs)
      BY <1>4 DEF Turn
    <2> HIDE DEF jobs
    <2> QED
      BY <1>1, <2>1
  <1> QED
    BY <1>2, <1>3, <1>4

(* So does a new task, or one that what it awaited wakes, which join it.      *)
LEMMA AppendQueue ==
    ASSUME ready \in Seq(Tasks), NEW t \in Tasks, ready' = Append(ready, t)
    PROVE  ready' \in Seq(Tasks) /\ Queued(t)' /\ \A u \in Tasks : Queued(u) => Queued(u)'
  <1>1. /\ ready' \in Seq(Tasks) /\ Len(ready') = Len(ready) + 1 /\ ready'[Len(ready) + 1] = t
        /\ \A i \in 1..Len(ready) : ready'[i] = ready[i]
    BY AppendProperties
  <1> QED
    BY <1>1 DEF Queued

LEMMA CreateQueue ==
    ASSUME ready \in Seq(Tasks), NEW j, CreateTask(j)
    PROVE  ready' \in Seq(Tasks) /\ \A u \in Tasks : Queued(u) => Queued(u)'
  <1>1. IsFiniteSet(Idle) /\ Cardinality(Idle) \in Nat /\ Cardinality(Idle) # 0
    BY LoopAssumption, FS_Subset, FS_CardinalityType, FS_EmptySet DEF Idle, CreateTask
  <1>2. Slots(1)[1] \in Tasks
    BY <1>1, SlotsAreIdle DEF Idle
  <1> QED
    BY <1>2, AppendQueue DEF CreateTask

-----------------------------------------------------------------------------
(* The order of the queue.                                                  *)

\* The queue holds tasks that have not ended, each of them once.
QueueIsOrder ==
    /\ ready \in Seq(Tasks)
    /\ \A i, j \in 1..Len(ready) : ready[i] = ready[j] => i = j
    /\ \A i \in 1..Len(ready) : Live(ready[i])

LEMMA QueuedByPlace ==
    ASSUME ready \in Seq(Tasks), NEW u
    PROVE  Queued(u) <=> \E i \in 1..Len(ready) : ready[i] = u
  BY DEF Queued

LEMMA AsSeqLists ==
    ASSUME NEW S \in SUBSET Tasks
    PROVE  /\ Cardinality(S) \in Nat /\ AsSeq(S) \in [1..Cardinality(S) -> S]
           /\ \A i, j \in 1..Cardinality(S) : AsSeq(S)[i] = AsSeq(S)[j] => i = j
           /\ \A u \in S : \E i \in 1..Cardinality(S) : AsSeq(S)[i] = u
  <1> DEFINE n == Cardinality(S)
             Good(f) == f \in [1..n -> S] /\ \A i, j \in 1..n : i # j => f[i] # f[j]
  <1>1. n \in Nat /\ IsFiniteSet(S) /\ ExistsBijection(1..n, S)
    BY LoopAssumption, FS_Subset, FS_CardinalityType
  <1>2. PICK f : f \in Bijection(1..n, S)
    BY <1>1 DEF ExistsBijection
  <1>3. Good(f)
    BY <1>2 DEF Bijection, Injection, IsInjective
  <1>4. AsSeq(S) = CHOOSE g : Good(g)
    BY DEF AsSeq
  <1>5. Good(AsSeq(S))
    BY <1>3, <1>4
  <1>6. AsSeq(S) \in Injection(1..n, S)
    BY <1>5 DEF Injection, IsInjective
  <1>7. Cardinality(1..n) = n
    BY <1>1, FS_Interval
  <1>8. AsSeq(S) \in Surjection(1..n, S)
    BY <1>1, <1>6, <1>7, FS_Injection
  <1> QED
    BY <1>1, <1>5, <1>8 DEF Surjection

\* After t has run: the others in their order, then the suspended tasks of dead and
\* the new ones, of which the last comes last.
Requeued(t, dead, made) ==
    /\ ready' \in Seq(Tasks) /\ Len(ready') >= Len(ready) - 1
    /\ \A i, j \in 1..Len(ready') : ready'[i] = ready'[j] => i = j
    /\ \A i \in 1..(Len(ready) - 1) : ready'[i] = ready[i + 1]
    /\ \A i \in 1..Len(ready') : i >= Len(ready) =>
          ready'[i] \in made \/ (ready'[i] \in dead /\ Suspended(ready'[i]))
    /\ \A u \in Tasks : u \in dead /\ Suspended(u) => \E i \in 1..Len(ready') : ready'[i] = u

LEMMA TurnRequeues ==
    ASSUME QueueIsOrder, NEW t \in Tasks, AtHead(t), NEW point, NEW dead, NEW lost, NEW untracked,
           NEW J, NEW jobs \in Seq(J), Len(jobs) \in 0..2,
           TurnDropping(t, point, dead, lost, untracked, jobs), dead \subseteq Tasks,
           NEW made, \A i \in 1..Len(jobs) : Slots(Len(jobs))[i] \in made
    PROVE  /\ Requeued(t, dead, made)
           /\ jobs # <<>> => Len(ready') > 0 /\ ready'[Len(ready')] = Slots(Len(jobs))[Len(jobs)]
  <1> DEFINE n == Len(jobs)
             new == Slots(n)
             S == {u \in dead : Suspended(u)}
             woken == AsSeq(S)
             tail == [i \in DOMAIN jobs |-> new[i]]
             k == Len(ready) - 1
             m == Cardinality(S)
  <1>1. ready' = Tail(ready) \o woken \o tail /\ n <= Cardinality(Idle)
    BY Zenon DEF TurnDropping
  <1>2. S \in SUBSET Tasks
    OBVIOUS
  <1>3. /\ m \in Nat /\ woken \in [1..m -> S]
        /\ \A i, j \in 1..m : woken[i] = woken[j] => i = j
        /\ \A u \in S : \E i \in 1..m : woken[i] = u
    BY <1>2, AsSeqLists
  <1>4. new \in [1..n -> Idle] /\ \A i, j \in 1..n : i # j => new[i] # new[j]
    BY <1>1, SlotsAreIdle
  <1>5. DOMAIN jobs = 1..n /\ n \in Nat /\ Idle \subseteq Tasks /\ (jobs # <<>> => n > 0)
    BY DEF Idle
  <1>6. \A u \in S : Live(u) /\ ~Queued(u)
    BY DEF Suspended
  <1>7. \A u \in Idle : ~Live(u)
    BY DEF Idle
  <1>8. \A i \in 1..Len(ready) : Live(ready[i]) /\ Queued(ready[i])
    BY DEF QueueIsOrder, Queued
  <1>9. ready \in Seq(Tasks) /\ Len(ready) \in Nat /\ Len(ready) > 0 /\ k \in Nat /\ ready # <<>>
        /\ \A i, j \in 1..Len(ready) : ready[i] = ready[j] => i = j
    BY DEF QueueIsOrder, AtHead
  <1>10. S \subseteq dead /\ \A u \in S : Suspended(u)
    OBVIOUS
  <1>11. \A u \in Tasks : u \in dead /\ Suspended(u) => u \in S
    OBVIOUS
  <1>12. \A i \in 1..n : new[i] \in made
    OBVIOUS
  <1> HIDE DEF new, woken, m, S
  <1>13. tail \in [1..n -> Idle] /\ \A i \in 1..n : tail[i] = new[i]
    BY <1>4, <1>5
  <1>14. tail \in Seq(Tasks) /\ Len(tail) = n
    BY <1>5, <1>13
  <1>15. woken \in Seq(Tasks) /\ Len(woken) = m
    BY <1>2, <1>3
  <1> HIDE DEF tail, n
  <1>16. /\ Tail(ready) \in Seq(Tasks) /\ Len(Tail(ready)) = k
         /\ \A i \in 1..k : Tail(ready)[i] = ready[i + 1]
    BY <1>9, HeadTailProperties
  <1> HIDE DEF k
  <1> DEFINE front == Tail(ready) \o woken
  <1>17. /\ front \in Seq(Tasks) /\ Len(front) = k + m /\ ready' = front \o tail
         /\ \A i \in 1..(k + m) : front[i] = IF i <= k THEN Tail(ready)[i] ELSE woken[i - k]
    BY <1>1, <1>15, <1>16, ConcatProperties
  <1> HIDE DEF front
  <1>18. /\ ready' \in Seq(Tasks) /\ Len(ready') = k + m + n
         /\ \A i \in 1..(k + m + n) : ready'[i] = IF i <= k + m THEN front[i] ELSE tail[i - (k + m)]
    <2>1. front \in Seq(Tasks) /\ Len(front) = k + m /\ ready' = front \o tail
      BY <1>17
    <2>2. /\ front \o tail \in Seq(Tasks) /\ Len(front \o tail) = Len(front) + Len(tail)
          /\ \A i \in 1..(Len(front) + Len(tail)) :
               (front \o tail)[i] = IF i <= Len(front) THEN front[i] ELSE tail[i - Len(front)]
      BY <1>14, <2>1, ConcatProperties
    <2> QED
      BY <1>14, <2>1, <2>2
  <1>19. k \in Nat /\ k + 1 = Len(ready)
    BY <1>9 DEF k
  <1>20. \A i \in 1..k : ready'[i] = ready[i + 1] /\ i + 1 \in 1..Len(ready)
    BY <1>3, <1>5, <1>16, <1>17, <1>18, <1>19
  <1>21. \A i \in (k + 1)..(k + m) : ready'[i] = woken[i - k] /\ i - k \in 1..m /\ ready'[i] \in S
    <2> SUFFICES ASSUME NEW i \in (k + 1)..(k + m)
                 PROVE  ready'[i] = woken[i - k] /\ i - k \in 1..m /\ ready'[i] \in S
      OBVIOUS
    <2>1. i - k \in 1..m /\ i \in 1..(k + m) /\ i \in 1..(k + m + n) /\ ~(i <= k) /\ i <= k + m
      BY <1>3, <1>5, <1>19
    <2>2. ready'[i] = woken[i - k]
      BY <1>17, <1>18, <2>1
    <2> QED
      BY <1>3, <2>1, <2>2
  <1>22. \A i \in (k + m + 1)..(k + m + n) :
            /\ i - (k + m) \in 1..n /\ ready'[i] = new[i - (k + m)] /\ ready'[i] \in Idle
    BY <1>3, <1>5, <1>13, <1>18, <1>19
  <1>23. \A i, j \in 1..Len(ready') : ready'[i] = ready'[j] => i = j
    <2> SUFFICES ASSUME NEW i \in 1..Len(ready'), NEW j \in 1..Len(ready'), ready'[i] = ready'[j] PROVE i = j
      OBVIOUS
    <2>1. /\ i \in 1..k \/ i \in (k + 1)..(k + m) \/ i \in (k + m + 1)..(k + m + n)
          /\ j \in 1..k \/ j \in (k + 1)..(k + m) \/ j \in (k + m + 1)..(k + m + n)
      BY <1>3, <1>5, <1>18, <1>19
    <2>2. CASE i \in 1..k /\ j \in 1..k
      BY <2>2, <1>9, <1>19, <1>20
    <2>3. CASE i \in (k + 1)..(k + m) /\ j \in (k + 1)..(k + m)
      BY <2>3, <1>3, <1>19, <1>21
    <2>4. CASE i \in (k + m + 1)..(k + m + n) /\ j \in (k + m + 1)..(k + m + n)
      BY <2>4, <1>3, <1>4, <1>5, <1>19, <1>22
    <2>5. CASE i \in 1..k /\ j \notin 1..k
      BY <2>1, <2>5, <1>6, <1>7, <1>8, <1>20, <1>21, <1>22
    <2>6. CASE j \in 1..k /\ i \notin 1..k
      BY <2>1, <2>6, <1>6, <1>7, <1>8, <1>20, <1>21, <1>22
    <2>7. CASE i \in (k + 1)..(k + m) /\ j \in (k + m + 1)..(k + m + n)
      BY <2>7, <1>6, <1>7, <1>21, <1>22
    <2>8. CASE j \in (k + 1)..(k + m) /\ i \in (k + m + 1)..(k + m + n)
      BY <2>8, <1>6, <1>7, <1>21, <1>22
    <2> QED
      BY <2>1, <2>2, <2>3, <2>4, <2>5, <2>6, <2>7, <2>8
  <1>24. \A i \in 1..Len(ready') : i >= Len(ready) =>
            ready'[i] \in made \/ ready'[i] \in S
    <2> SUFFICES ASSUME NEW i \in 1..Len(ready'), i >= Len(ready)
                 PROVE  ready'[i] \in made \/ ready'[i] \in S
      OBVIOUS
    <2>1. i \in (k + 1)..(k + m) \/ i \in (k + m + 1)..(k + m + n)
      BY <1>3, <1>5, <1>18, <1>19
    <2> QED
      BY <2>1, <1>21, <1>22, <1>12
  <1>25. \A u \in S : \E i \in 1..Len(ready') : ready'[i] = u
    <2> SUFFICES ASSUME NEW u \in S PROVE \E i \in 1..Len(ready') : ready'[i] = u
      OBVIOUS
    <2>1. PICK x \in 1..m : woken[x] = u
      BY <1>3
    <2>2. k + x \in (k + 1)..(k + m) /\ k + x \in 1..Len(ready') /\ (k + x) - k = x
      BY <1>3, <1>5, <1>18, <1>19
    <2> QED
      BY <1>21, <2>1, <2>2
  <1>26. Requeued(t, dead, made)
    <2>1. ready' \in Seq(Tasks) /\ Len(ready') >= Len(ready) - 1 /\ k = Len(ready) - 1
      BY <1>3, <1>5, <1>9, <1>18, <1>19
    <2>2. \A i \in 1..Len(ready') : i >= Len(ready) =>
             ready'[i] \in made \/ (ready'[i] \in dead /\ Suspended(ready'[i]))
      BY <1>10, <1>24
    <2>3. \A u \in Tasks : u \in dead /\ Suspended(u) => \E i \in 1..Len(ready') : ready'[i] = u
      BY <1>11, <1>25
    <2> QED
      BY <1>20, <1>23, <2>1, <2>2, <2>3 DEF Requeued
  <1>27. jobs # <<>> => Len(ready') > 0 /\ ready'[Len(ready')] = new[n]
    <2> SUFFICES ASSUME jobs # <<>> PROVE Len(ready') > 0 /\ ready'[Len(ready')] = new[n]
      OBVIOUS
    <2>1. /\ Len(ready') \in (k + m + 1)..(k + m + n) /\ Len(ready') - (k + m) = n /\ Len(ready') > 0
      BY <1>3, <1>5, <1>18, <1>19
    <2> QED
      BY <2>1, <1>22
  <1> QED
    BY <1>26, <1>27 DEF n, new

LEMMA DropRequeues ==
    ASSUME QueueIsOrder, NEW t \in Tasks, AtHead(t), NEW point, NEW dead, NEW lost, NEW untracked,
           TurnDropping(t, point, dead, lost, untracked, <<>>), dead \subseteq Tasks
    PROVE  Requeued(t, dead, {})
  <1> DEFINE jobs == <<>>
  <1>1. jobs \in Seq({}) /\ Len(jobs) = 0 /\ Len(jobs) \in 0..2
    OBVIOUS
  <1>2. TurnDropping(t, point, dead, lost, untracked, jobs)
    OBVIOUS
  <1> HIDE DEF jobs
  <1>3. \A i \in 1..Len(jobs) : Slots(Len(jobs))[i] \in {}
    BY <1>1
  <1> QED
    BY <1>1, <1>2, <1>3, TurnRequeues

LEMMA OneRequeues ==
    ASSUME QueueIsOrder, NEW t \in Tasks, AtHead(t), NEW point, NEW dead, NEW lost, NEW j,
           Turn(t, point, dead, lost, <<j>>), dead \subseteq Tasks
    PROVE  /\ Requeued(t, dead, {Slots(1)[1]})
           /\ Len(ready') > 0 /\ ready'[Len(ready')] = Slots(1)[1]
  <1> DEFINE jobs == <<j>>
             made == {Slots(1)[1]}
  <1>1. jobs \in Seq({j}) /\ Len(jobs) = 1 /\ Len(jobs) \in 0..2 /\ jobs # <<>>
    OBVIOUS
  <1>2. TurnDropping(t, point, dead, lost, {}, jobs)
    BY DEF Turn
  <1>3. Slots(1)[1] \in made
    OBVIOUS
  <1> HIDE DEF jobs, made
  <1>4. \A i \in 1..Len(jobs) : Slots(Len(jobs))[i] \in made
    BY <1>1, <1>3
  <1>5. /\ Requeued(t, dead, made)
        /\ jobs # <<>> => Len(ready') > 0 /\ ready'[Len(ready')] = Slots(Len(jobs))[Len(jobs)]
    BY <1>1, <1>2, <1>4, TurnRequeues
  <1> QED
    BY <1>1, <1>5 DEF made

LEMMA AppendRequeues ==
    ASSUME QueueIsOrder, NEW t \in Tasks, ~Queued(t), ready' = Append(ready, t)
    PROVE  /\ ready' \in Seq(Tasks) /\ Len(ready') = Len(ready) + 1 /\ ready'[Len(ready')] = t
           /\ \A i \in 1..Len(ready) : ready'[i] = ready[i]
           /\ \A i, j \in 1..Len(ready') : ready'[i] = ready'[j] => i = j
  <1>1. /\ ready' \in Seq(Tasks) /\ Len(ready') = Len(ready) + 1 /\ ready'[Len(ready) + 1] = t
        /\ \A i \in 1..Len(ready) : ready'[i] = ready[i]
    BY AppendProperties DEF QueueIsOrder
  <1>2. \A i \in 1..Len(ready) : ready[i] # t
    BY DEF QueueIsOrder, Queued
  <1>3. Len(ready) \in Nat /\ \A i, j \in 1..Len(ready) : ready[i] = ready[j] => i = j
    BY DEF QueueIsOrder
  <1> QED
    BY <1>1, <1>2, <1>3
=============================================================================
