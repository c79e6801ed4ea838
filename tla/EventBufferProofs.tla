-------------------------- MODULE EventBufferProofs --------------------------
(***************************************************************************)
(* The safety of the event buffer for any number of producers, closers,    *)
(* workers and events, any capacity and any number of calls of Push.       *)
(***************************************************************************)
EXTENDS EventBuffer, SequenceTheorems, FiniteSetTheorems, TLAPS

(* The frame of every step: which variables travel together.               *)
USE DEF Goto, chan, count, mutex, hist

-----------------------------------------------------------------------------
(* The capacity the channel is made with is positive, whatever the caller  *)
(* asked for (buffer.go:24-26): an empty open buffer accepts an event.     *)
LEMMA SlotsPositive == Slots \in Nat \ {0}
BY CapacityAssumption DEF Slots

(* Every variable keeps its type; the actions are taken one by one.        *)
LEMMA TypeStep == TypeOK /\ RolesInv /\ DataInv /\ [Next]_vars => TypeOK'
<1> SUFFICES ASSUME TypeOK, RolesInv, DataInv, [Next]_vars PROVE TypeOK'
  OBVIOUS
<1> USE BoundAssumption DEF TypeOK, Goroutines
<1>1. ASSUME NEW p \in Producers, PushCall(p) PROVE TypeOK'
  BY <1>1 DEF PushCall
<1>2. ASSUME NEW p \in Producers, PushStep(p) PROVE TypeOK'
  <2>1. CASE ReadLock(p)      BY <2>1 DEF ReadLock
  <2>2. CASE CheckClosed(p)   BY <2>2 DEF CheckClosed
  <2>3. CASE SendEvent(p)
    <3>1. arg[p] \in Events  BY <2>3 DEF SendEvent, DataInv
    <3> QED  BY <2>3, <3>1 DEF SendEvent
  <2>4. CASE DropEvent(p)     BY <2>4 DEF DropEvent
  <2>5. CASE CountIngested(p) BY <2>5 DEF CountIngested
  <2>6. CASE CountDropped(p)  BY <2>6 DEF CountDropped
  <2>7. CASE ReadUnlock(p)    BY <2>7 DEF ReadUnlock
  <2> QED  BY <1>2, <2>1, <2>2, <2>3, <2>4, <2>5, <2>6, <2>7 DEF PushStep
<1>3. ASSUME NEW c \in Closers, CloseCall(c) \/ CloseStep(c) PROVE TypeOK'
  <2>1. CASE CloseFirst(c)        BY <2>1 DEF CloseFirst
  <2>2. CASE CloseAgain(c)        BY <2>2 DEF CloseAgain
  <2>3. CASE WriteLockAnnounce(c) BY <2>3 DEF WriteLockAnnounce
  <2>4. CASE WriteLock(c)         BY <2>4 DEF WriteLock
  <2>5. CASE SetClosed(c)         BY <2>5 DEF SetClosed
  <2>6. CASE CloseChannel(c)      BY <2>6 DEF CloseChannel
  <2>7. CASE WriteUnlock(c)       BY <2>7 DEF WriteUnlock
  <2> QED  BY <1>3, <2>1, <2>2, <2>3, <2>4, <2>5, <2>6, <2>7 DEF CloseCall, CloseStep
<1>4. ASSUME NEW w \in Workers, WorkStep(w) PROVE TypeOK'
  <2>1. CASE Receive(w)
    <3>1. Head(channel) \in Events /\ Tail(channel) \in Seq(Events)
      BY <2>1 DEF Receive
    <3> QED  BY <2>1, <3>1 DEF Receive
  <2>2. CASE FinishBody(w)  BY <2>2 DEF FinishBody
  <2>3. CASE EndOfRange(w)  BY <2>3 DEF EndOfRange
  <2> QED  BY <1>4, <2>1, <2>2, <2>3 DEF WorkStep
<1>5. CASE UNCHANGED vars  BY <1>5 DEF vars
<1> QED  BY <1>1, <1>2, <1>3, <1>4, <1>5 DEF Next, Stopped

-----------------------------------------------------------------------------
(* Who is where: the goroutines of one kind never wander into the code of  *)
(* another, and the mutex and sync.Once exclude what they should.          *)
LEMMA LockStep ==
    TypeOK /\ IInv /\ [Next]_vars => (RolesInv /\ MutexInv /\ OnceInv /\ ClosingInv /\ NoPanic)'
<1> DEFINE Locks == RolesInv /\ MutexInv /\ OnceInv /\ ClosingInv /\ NoPanic
<1> SUFFICES ASSUME TypeOK, IInv, [Next]_vars PROVE Locks'
  OBVIOUS
<1> USE RolesAssumption, NoOneAssumption
        DEF TypeOK, Goroutines, IInv, RolesInv, MutexInv, OnceInv, ClosingInv, NoPanic,
            ReadSection, CloseBody, Locked
<1>1. ASSUME NEW p \in Producers, PushCall(p) PROVE Locks'
  BY <1>1 DEF PushCall
<1>2. ASSUME NEW p \in Producers, PushStep(p) PROVE Locks'
  <2>1. CASE ReadLock(p)      BY <2>1 DEF ReadLock
  <2>2. CASE CheckClosed(p)   BY <2>2 DEF CheckClosed
  <2>3. CASE SendEvent(p)     BY <2>3 DEF SendEvent
  <2>4. CASE DropEvent(p)     BY <2>4 DEF DropEvent
  <2>5. CASE CountIngested(p) BY <2>5 DEF CountIngested
  <2>6. CASE CountDropped(p)  BY <2>6 DEF CountDropped
  <2>7. CASE ReadUnlock(p)    BY <2>7 DEF ReadUnlock
  <2> QED  BY <1>2, <2>1, <2>2, <2>3, <2>4, <2>5, <2>6, <2>7 DEF PushStep
<1>3. ASSUME NEW c \in Closers, CloseCall(c) \/ CloseStep(c) PROVE Locks'
  <2>1. CASE CloseFirst(c)        BY <2>1 DEF CloseFirst
  <2>2. CASE CloseAgain(c)        BY <2>2 DEF CloseAgain
  <2>3. CASE WriteLockAnnounce(c) BY <2>3 DEF WriteLockAnnounce
  <2>4. CASE WriteLock(c)         BY <2>4 DEF WriteLock
  <2>5. CASE SetClosed(c)         BY <2>5 DEF SetClosed
  <2>6. CASE CloseChannel(c)      BY <2>6 DEF CloseChannel
  <2>7. CASE WriteUnlock(c)       BY <2>7 DEF WriteUnlock
  <2> QED  BY <1>3, <2>1, <2>2, <2>3, <2>4, <2>5, <2>6, <2>7 DEF CloseCall, CloseStep
<1>4. ASSUME NEW w \in Workers, WorkStep(w) PROVE Locks'
  <2>1. CASE Receive(w)     BY <2>1 DEF Receive
  <2>2. CASE FinishBody(w)  BY <2>2 DEF FinishBody
  <2>3. CASE EndOfRange(w)  BY <2>3 DEF EndOfRange
  <2> QED  BY <1>4, <2>1, <2>2, <2>3 DEF WorkStep
<1>5. CASE UNCHANGED vars  BY <1>5 DEF vars
<1> QED  BY <1>1, <1>2, <1>3, <1>4, <1>5 DEF Next, Stopped

-----------------------------------------------------------------------------
(* The data: what was accepted is what was taken and what is queued.  Only *)
(* a send and a receive move events; closing moves none.                   *)
LEMMA DataStep == TypeOK /\ IInv /\ [Next]_vars => DataInv'
<1> SUFFICES ASSUME TypeOK, IInv, [Next]_vars PROVE DataInv'
  OBVIOUS
<1> USE RolesAssumption, NilAssumption
        DEF TypeOK, Goroutines, IInv, DataInv, AcceptedIsTakenThenQueued
<1>1. ASSUME NEW p \in Producers, PushCall(p) PROVE DataInv'
  BY <1>1 DEF PushCall, Slots
<1>2. ASSUME NEW p \in Producers, PushStep(p) PROVE DataInv'
  <2>1. CASE ReadLock(p)      BY <2>1 DEF ReadLock, Slots
  <2>2. CASE CheckClosed(p)   BY <2>2 DEF CheckClosed, Slots
  <2>3. CASE SendEvent(p)
    <3>1. ~chanClosed /\ Len(channel) < Slots /\ arg[p] \in Events
      BY <2>3 DEF SendEvent, ClosingInv
    <3>2. Len(channel') <= Slots
      BY <2>3, <3>1, SlotsPositive DEF SendEvent, Slots
    <3>3. accepted' = taken' \o channel'
      <4>1. Append(taken \o channel, arg[p]) = taken \o Append(channel, arg[p])
        <5>1. taken \in Seq(Events) /\ channel \in Seq(Events)  OBVIOUS
        <5>2. arg[p] \in Events  BY <3>1
        <5> QED  BY ONLY <5>1, <5>2
      <4> QED  BY <2>3, <4>1 DEF SendEvent
    <3> QED  BY <2>3, <3>1, <3>2, <3>3 DEF SendEvent, Slots
  <2>4. CASE DropEvent(p)     BY <2>4 DEF DropEvent, Slots
  <2>5. CASE CountIngested(p) BY <2>5 DEF CountIngested, Slots
  <2>6. CASE CountDropped(p)  BY <2>6 DEF CountDropped, Slots
  <2>7. CASE ReadUnlock(p)    BY <2>7 DEF ReadUnlock, Slots
  <2> QED  BY <1>2, <2>1, <2>2, <2>3, <2>4, <2>5, <2>6, <2>7 DEF PushStep
<1>3. ASSUME NEW c \in Closers, CloseCall(c) \/ CloseStep(c) PROVE DataInv'
  <2>1. CASE CloseFirst(c)        BY <2>1 DEF CloseFirst, Slots
  <2>2. CASE CloseAgain(c)        BY <2>2 DEF CloseAgain, Slots
  <2>3. CASE WriteLockAnnounce(c) BY <2>3 DEF WriteLockAnnounce, Slots
  <2>4. CASE WriteLock(c)         BY <2>4 DEF WriteLock, Slots
  <2>5. CASE SetClosed(c)         BY <2>5 DEF SetClosed, Slots
  <2>6. CASE CloseChannel(c)      BY <2>6 DEF CloseChannel, Slots
  <2>7. CASE WriteUnlock(c)       BY <2>7 DEF WriteUnlock, Slots
  <2> QED  BY <1>3, <2>1, <2>2, <2>3, <2>4, <2>5, <2>6, <2>7 DEF CloseCall, CloseStep
<1>4. ASSUME NEW w \in Workers, WorkStep(w) PROVE DataInv'
  <2>1. CASE Receive(w)
    <3>1. Len(channel') <= Slots
      BY <2>1, SlotsPositive, HeadTailProperties DEF Receive, Slots
    <3>2. accepted' = taken' \o channel'
      BY <2>1, AppendProperties, ConcatProperties, HeadTailProperties, SMTT(20) DEF Receive
    <3> QED  BY <2>1, <3>1, <3>2 DEF Receive, Slots
  <2>2. CASE FinishBody(w)  BY <2>2 DEF FinishBody, Slots
  <2>3. CASE EndOfRange(w)  BY <2>3 DEF EndOfRange, Slots
  <2> QED  BY <1>4, <2>1, <2>2, <2>3 DEF WorkStep
<1>5. CASE UNCHANGED vars  BY <1>5 DEF vars, Slots
<1> QED  BY <1>1, <1>2, <1>3, <1>4, <1>5 DEF Next, Stopped

-----------------------------------------------------------------------------
LEMMA InitInv == Init => TypeOK /\ IInv
<1> SUFFICES ASSUME Init PROVE TypeOK /\ IInv
  OBVIOUS
<1> USE RolesAssumption, NoOneAssumption, NilAssumption, BoundAssumption
        DEF Init, Goroutines
<1>1. TypeOK
  <2>1. /\ channel \in Seq(Events) /\ accepted \in Seq(Events) /\ taken \in Seq(Events)
        /\ pushes \in 0..MaxPushes
    OBVIOUS
  <2>2. pc \in [Goroutines -> {"idle", "range"}]
    OBVIOUS
  <2> QED  BY <2>1, <2>2 DEF TypeOK
<1>2. RolesInv /\ MutexInv /\ OnceInv /\ ClosingInv /\ NoPanic
  BY DEF RolesInv, MutexInv, OnceInv, ClosingInv, NoPanic, ReadSection, CloseBody, Locked
<1>3. DataInv
  BY SlotsPositive DEF DataInv, AcceptedIsTakenThenQueued, Slots
<1> QED  BY <1>1, <1>2, <1>3 DEF IInv

LEMMA InvariantHolds == Spec => [](TypeOK /\ IInv)
<1>1. TypeOK /\ IInv /\ [Next]_vars => (TypeOK /\ IInv)'
  BY TypeStep, LockStep, DataStep DEF IInv
<1> QED  BY InitInv, <1>1, PTL DEF Spec

(* Every variable of the buffer keeps to its type.                         *)
THEOREM TypeCorrect == Spec => []TypeOK
BY InvariantHolds, PTL

(* No interleaving of Push and Close sends on a closed channel or closes   *)
(* it twice: the agent cannot die in buffer.go.                            *)
THEOREM PanicFree == Spec => []NoPanic
<1>1. IInv => NoPanic  BY DEF IInv
<1> QED  BY <1>1, InvariantHolds, PTL

(* Every event Push accepted has reached a worker or waits in the channel, *)
(* in the order in which it was accepted, once.                            *)
THEOREM NothingAcceptedIsLost == Spec => []AcceptedIsTakenThenQueued
<1>1. IInv => AcceptedIsTakenThenQueued  BY DEF IInv, DataInv
<1> QED  BY <1>1, InvariantHolds, PTL

(* Whoever called Close finds the channel closed when the call returns.    *)
THEOREM CloseIsFinal == Spec => []ClosedOnReturn
<1>1. IInv => ClosedOnReturn  BY DEF IInv, ClosingInv, ClosedOnReturn
<1> QED  BY <1>1, InvariantHolds, PTL

(* A worker that left has left nothing behind.                             *)
THEOREM DrainedBeforeExit == Spec => []WorkerLeavesEmptyBuffer
<1>1. TypeOK /\ IInv => WorkerLeavesEmptyBuffer
  BY ConcatEmptySeq DEF TypeOK, IInv, DataInv, AcceptedIsTakenThenQueued, WorkerLeavesEmptyBuffer
<1> QED  BY <1>1, InvariantHolds, PTL

-----------------------------------------------------------------------------
(* The abstraction: the events that wait, and the producers that have lost *)
(* one and not yet counted it.                                             *)
Losers == {p \in Producers : pc[p] = "dropped"}

LEMMA PendingIsChannel ==
    ASSUME TypeOK, DataInv PROVE Queue!Pending = Len(channel) /\ Len(channel) \in Nat
<1>1. Len(accepted) = Len(taken) + Len(channel)
  BY ConcatProperties DEF TypeOK, DataInv, AcceptedIsTakenThenQueued
<1>2. Len(taken) \in Nat /\ Len(channel) \in Nat
  BY LenProperties DEF TypeOK
<1> QED  BY <1>1, <1>2 DEF Queue!Pending

LEMMA LosersAreFinite == IsFiniteSet(Losers) /\ Cardinality(Losers) \in Nat
<1>1. Losers \in SUBSET Producers  BY DEF Losers
<1>2. IsFiniteSet(Losers)  BY <1>1, ProducersAssumption, FS_Subset
<1> QED  BY <1>2, FS_CardinalityType

Lost == dropped + Cardinality(Losers)

(* Who has just found the queue full is one loser more; counting takes a   *)
(* loser away and changes nothing that a caller can see.                   *)
LEMMA LosersMove ==
    ASSUME TypeOK, NEW p \in Producers
    PROVE  /\ DropEvent(p) => Lost' = Lost + 1
           /\ CountDropped(p) => Lost' = Lost
<1> USE LosersAreFinite DEF TypeOK, Goroutines
<1>1. ASSUME DropEvent(p) PROVE Lost' = Lost + 1
  <2>1. Losers' = Losers \cup {p} /\ p \notin Losers /\ dropped' = dropped
    BY <1>1 DEF DropEvent, Losers
  <2>2. Cardinality(Losers') = Cardinality(Losers) + 1
    BY <2>1, FS_AddElement
  <2> QED  BY <2>1, <2>2 DEF Lost
<1>2. ASSUME CountDropped(p) PROVE Lost' = Lost
  <2>1. Losers' = Losers \ {p} /\ p \in Losers /\ dropped' = dropped + 1
    BY <1>2, RolesAssumption DEF CountDropped, Losers
  <2>2. Cardinality(Losers') = Cardinality(Losers) - 1
    BY <2>1, FS_RemoveElement
  <2> QED  BY <2>1, <2>2 DEF Lost
<1> QED  BY <1>1, <1>2

(* Every other step keeps the losers.                                      *)
Same == UNCHANGED <<accepted, taken, chanClosed>> /\ Lost' = Lost

LEMMA QueueStep == ASSUME TypeOK, IInv, [Next]_vars PROVE [Queue!Next]_(Queue!vars)
<1> USE RolesAssumption DEF TypeOK, Goroutines
<1>0. ASSUME Same PROVE [Queue!Next]_(Queue!vars)
  BY <1>0 DEF Same, Lost, Losers, Queue!vars
<1>1. ASSUME NEW p \in Producers, PushCall(p) PROVE Same
  <2>1. \A q \in Producers : pc'[q] = "dropped" <=> pc[q] = "dropped"
    BY <1>1 DEF PushCall
  <2>2. Losers' = Losers  BY <2>1 DEF Losers
  <2> QED  BY <1>1, <2>2 DEF PushCall, Same, Lost
<1>2. ASSUME NEW p \in Producers, PushStep(p) PROVE [Queue!Next]_(Queue!vars)
  <2>1. CASE SendEvent(p)
    <3>1. ~chanClosed /\ Len(channel) < Slots /\ arg[p] \in Events
      BY <2>1 DEF SendEvent, IInv, ClosingInv, DataInv
    <3>2. Queue!Pending < Slots
      BY <3>1, PendingIsChannel DEF IInv
    <3>3. Losers' = Losers /\ dropped' = dropped
      BY <2>1 DEF SendEvent, Losers
    <3>4. Queue!Accept
      BY <2>1, <3>1, <3>2, <3>3 DEF SendEvent, Queue!Accept, Losers
    <3> QED  BY <3>4 DEF Queue!Next
  <2>2. CASE DropEvent(p)
    <3>1. Queue!Pending = Slots
      BY <2>2, PendingIsChannel, SlotsPositive DEF DropEvent, IInv, DataInv
    <3>2. Lost' = Lost + 1  BY <2>2, LosersMove
    <3>3. Queue!Lose
      BY <2>2, <3>1, <3>2 DEF DropEvent, Queue!Lose, Lost, Losers
    <3> QED  BY <3>3 DEF Queue!Next
  <2>3. CASE CountDropped(p)
    <3>1. Same  BY <2>3, LosersMove DEF CountDropped, Same
    <3> QED  BY <1>0, <3>1
  <2>4. CASE ReadLock(p) \/ CheckClosed(p) \/ CountIngested(p) \/ ReadUnlock(p)
    <3>1. \A q \in Producers : pc'[q] = "dropped" <=> pc[q] = "dropped"
      BY <2>4 DEF ReadLock, CheckClosed, CountIngested, ReadUnlock
    <3>2. Losers' = Losers  BY <3>1 DEF Losers
    <3>3. Same
      BY <2>4, <3>2 DEF ReadLock, CheckClosed, CountIngested, ReadUnlock, Same, Lost
    <3> QED  BY <1>0, <3>3
  <2> QED  BY <1>2, <2>1, <2>2, <2>3, <2>4 DEF PushStep
<1>3. ASSUME NEW c \in Closers, CloseCall(c) \/ CloseStep(c) PROVE [Queue!Next]_(Queue!vars)
  <2>1. Lost' = Lost
    <3>1. Losers' = Losers
      BY <1>3 DEF CloseCall, CloseStep, CloseFirst, CloseAgain, WriteLockAnnounce, WriteLock,
                  SetClosed, CloseChannel, WriteUnlock, Losers
    <3>2. dropped' = dropped
      BY <1>3 DEF CloseCall, CloseStep, CloseFirst, CloseAgain, WriteLockAnnounce, WriteLock,
                  SetClosed, CloseChannel, WriteUnlock
    <3> QED  BY <3>1, <3>2 DEF Lost
  <2>2. CASE CloseChannel(c)
    <3>1. Queue!Close
      BY <2>1, <2>2 DEF CloseChannel, IInv, ClosingInv, Queue!Close, Lost, Losers
    <3> QED  BY <3>1 DEF Queue!Next
  <2>3. CASE ~CloseChannel(c)
    <3>1. Same
      BY <1>3, <2>1, <2>3 DEF CloseCall, CloseStep, CloseFirst, CloseAgain, WriteLockAnnounce,
                              WriteLock, SetClosed, WriteUnlock, Same
    <3> QED  BY <1>0, <3>1
  <2> QED  BY <2>2, <2>3
<1>4. ASSUME NEW w \in Workers, WorkStep(w) PROVE [Queue!Next]_(Queue!vars)
  <2>1. Lost' = Lost
    <3>1. Losers' = Losers
      BY <1>4 DEF WorkStep, Receive, FinishBody, EndOfRange, Losers
    <3>2. dropped' = dropped
      BY <1>4 DEF WorkStep, Receive, FinishBody, EndOfRange
    <3> QED  BY <3>1, <3>2 DEF Lost
  <2>2. CASE Receive(w)
    <3>1. Queue!Pending > 0
      BY <2>2, PendingIsChannel, EmptySeq, LenProperties DEF Receive, IInv
    <3>2. Head(channel) = accepted[Len(taken) + 1]
      <4>1. channel \in Seq(Events) /\ channel # <<>> /\ taken \in Seq(Events)
            /\ accepted = taken \o channel
        BY <2>2 DEF Receive, IInv, DataInv, AcceptedIsTakenThenQueued
      <4> QED  BY ONLY <4>1, HeadTailProperties, ConcatProperties, LenProperties, EmptySeq
    <3>3. Queue!Take
      BY <2>1, <2>2, <3>1, <3>2 DEF Receive, Queue!Take, Lost, Losers
    <3> QED  BY <3>3 DEF Queue!Next
  <2>3. CASE FinishBody(w) \/ EndOfRange(w)
    <3>1. Same  BY <2>1, <2>3 DEF FinishBody, EndOfRange, Same
    <3> QED  BY <1>0, <3>1
  <2> QED  BY <1>4, <2>2, <2>3 DEF WorkStep
<1>5. CASE UNCHANGED vars
  <2>1. Same  BY <1>5 DEF vars, Same, Lost, Losers
  <2> QED  BY <1>0, <2>1
<1>6. ASSUME NEW p \in Producers, PushCall(p) PROVE [Queue!Next]_(Queue!vars)
  BY <1>0, <1>1, <1>6
<1> QED  BY <1>2, <1>3, <1>4, <1>5, <1>6 DEF Next, Stopped

(* The buffer with its lock, its sync.Once and its channel is the bounded  *)
(* queue its callers take it for: each of its steps accepts, loses or      *)
(* hands out an event as a queue does, closes it, or is not seen.          *)
THEOREM ImplementsQueue == Spec => Queue!Safety
<1>1. Init => Queue!Init
  <2> SUFFICES ASSUME Init PROVE Queue!Init
    OBVIOUS
  <2>1. Losers = {}
    BY RolesAssumption DEF Init, Losers, Goroutines
  <2>2. Lost = 0
    BY <2>1, FS_EmptySet DEF Init, Lost
  <2> QED  BY <2>2 DEF Init, Queue!Init, Lost, Losers
<1>2. TypeOK /\ IInv /\ [Next]_vars => [Queue!Next]_(Queue!vars)
  BY QueueStep
<1> QED  BY <1>1, <1>2, InvariantHolds, PTL DEF Spec, Queue!Safety

-----------------------------------------------------------------------------
(* Who keeps whom from going on: the lock that a closer has announced, the *)
(* readers it waits for.  Whoever is neither kept nor between calls can go *)
(* on, also at the select, one of whose branches is always ready; the      *)
(* prover does not see ENABLED, so this restates the guards of the steps.  *)
Keeps(h, g) == \/ pc[g] \in {"rlock", "lock"} /\ writer = h
               \/ pc[g] = "wait" /\ h \in readers

CanGoOn(g) == /\ pc[g] \in {"rlock", "lock", "wait"} \cup ReadSection \cup Locked
              /\ pc[g] \in {"rlock", "lock"} => writer = NoOne
              /\ pc[g] = "wait" => readers = {}

UnderWay(g) == pc[g] \notin {"idle", "closed"}

(* A wait for the lock is a wait for somebody who can go on, or who waits  *)
(* for somebody who can; and a second call of Close waits for a first one  *)
(* that is under way.                                                      *)
WaitsEnd ==
    /\ \A g \in Producers \cup Closers : UnderWay(g) =>
          \/ CanGoOn(g)
          \/ \E h \in Producers \cup Closers :
                /\ Keeps(h, g)
                /\ CanGoOn(h) \/ \E k \in Producers : Keeps(k, h) /\ CanGoOn(k)
    /\ once = "running" => \E c \in Closers : pc[c] \in CloseBody

(* The lock and the Once belong to somebody who is in the body of Close.   *)
OwnerInv ==
    /\ writer # NoOne => writer \in Closers /\ pc[writer] \in CloseBody \ {"lock"}
    /\ once = "running" => \E c \in Closers : pc[c] \in CloseBody

LEMMA OwnerStep == ASSUME TypeOK, IInv, OwnerInv, [Next]_vars PROVE OwnerInv'
<1> USE RolesAssumption, NoOneAssumption DEF TypeOK, Goroutines, CloseBody
<1>1. ASSUME UNCHANGED <<writer, once>>, \A c \in Closers : pc'[c] = pc[c] PROVE OwnerInv'
  BY <1>1 DEF OwnerInv
<1>2. ASSUME NEW p \in Producers, PushCall(p) \/ PushStep(p) PROVE OwnerInv'
  BY <1>1, <1>2 DEF PushCall, PushStep, ReadLock, CheckClosed, SendEvent, DropEvent, CountIngested,
                    CountDropped, ReadUnlock
<1>3. ASSUME NEW w \in Workers, WorkStep(w) PROVE OwnerInv'
  BY <1>1, <1>3 DEF WorkStep, Receive, FinishBody, EndOfRange
<1>4. CASE UNCHANGED vars
  BY <1>1, <1>4 DEF vars
<1>5. ASSUME NEW c \in Closers, CloseFirst(c) PROVE OwnerInv'
  BY <1>5 DEF CloseFirst, OwnerInv, IInv, OnceInv
<1>6. ASSUME NEW c \in Closers, CloseAgain(c) PROVE OwnerInv'
  BY <1>6 DEF CloseAgain, OwnerInv
<1>7. ASSUME NEW c \in Closers, WriteLockAnnounce(c) PROVE OwnerInv'
  BY <1>7 DEF WriteLockAnnounce, OwnerInv
<1>8. ASSUME NEW c \in Closers, WriteLock(c) \/ SetClosed(c) PROVE OwnerInv'
  BY <1>8 DEF WriteLock, SetClosed, OwnerInv
<1>9. ASSUME NEW c \in Closers, CloseChannel(c) PROVE OwnerInv'
  <2>1. ~chanClosed
    BY <1>9 DEF CloseChannel, IInv, ClosingInv
  <2> QED  BY <1>9, <2>1 DEF CloseChannel, OwnerInv
<1>10. ASSUME NEW c \in Closers, WriteUnlock(c) PROVE OwnerInv'
  BY <1>10 DEF WriteUnlock, OwnerInv
<1> QED
  BY <1>2, <1>3, <1>4, <1>5, <1>6, <1>7, <1>8, <1>9, <1>10 DEF Next, Stopped, CloseCall, CloseStep

(* However many goroutines push and close, the lock of the buffer keeps    *)
(* none of them for good: nobody blocks who holds it, and nobody waits in  *)
(* a circle (buffer.go:31-62, 91-98).                                      *)
THEOREM NobodyWaitsInACircle == Spec => []WaitsEnd
<1>1. Init => OwnerInv
  BY DEF Init, OwnerInv
<1>2. TypeOK /\ IInv /\ OwnerInv /\ [Next]_vars => OwnerInv'
  BY OwnerStep
<1>3. TypeOK /\ IInv /\ OwnerInv => WaitsEnd
  <2> SUFFICES ASSUME TypeOK, IInv, OwnerInv, NEW g \in Producers \cup Closers, UnderWay(g), ~CanGoOn(g)
               PROVE  \E h \in Producers \cup Closers :
                         /\ Keeps(h, g)
                         /\ CanGoOn(h) \/ \E k \in Producers : Keeps(k, h) /\ CanGoOn(k)
    BY DEF WaitsEnd, OwnerInv
  <2>1. /\ pc[g] \in {"rlock", "lock", "wait"} \cup ReadSection \cup Locked
        /\ \A p \in readers : p \in Producers /\ CanGoOn(p)
    BY DEF UnderWay, IInv, RolesInv, MutexInv, CloseBody, Locked, CanGoOn, ReadSection, TypeOK
  <2>2. CASE pc[g] = "wait"
    <3>1. PICK p : p \in readers
      BY <2>2 DEF CanGoOn
    <3> QED  BY <2>1, <2>2, <3>1 DEF Keeps
  <2>3. CASE pc[g] # "wait"
    <3>1. pc[g] \in {"rlock", "lock"} /\ writer # NoOne
      BY <2>1, <2>3 DEF CanGoOn
    <3>2. writer \in Closers /\ Keeps(writer, g) /\ pc[writer] \in Locked \cup {"wait"}
      BY <3>1 DEF Keeps, OwnerInv, CloseBody, Locked
    <3>3. CASE CanGoOn(writer)
      BY <3>2, <3>3
    <3>4. CASE ~CanGoOn(writer)
      <4>1. pc[writer] = "wait" /\ readers # {}
        BY <3>2, <3>4 DEF CanGoOn, Locked
      <4>2. PICK k : k \in readers
        BY <4>1
      <4> QED  BY <2>1, <3>2, <4>1, <4>2 DEF Keeps
    <3> QED  BY <3>3, <3>4
  <2> QED  BY <2>2, <2>3
<1> QED  BY <1>1, <1>2, <1>3, InvariantHolds, PTL DEF Spec
=============================================================================
