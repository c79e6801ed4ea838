----------------------------- MODULE EventBuffer -----------------------------
(***************************************************************************)
(* The in-memory event buffer of the agent, src/pkg/collector/buffer.go,   *)
(* and the goroutines that meet in it: producers calling Push, goroutines  *)
(* calling Close, and workers ranging over Events().                       *)
(*                                                                         *)
(* A step is what a goroutine does between two points where another one    *)
(* can be scheduled: each acquisition and release of the RWMutex, the test *)
(* of isClosed, the non-blocking send, each counter, the two statements    *)
(* of Close.  The RWMutex is Go's: a writer that is waiting keeps new      *)
(* readers out.                                                            *)
(*                                                                         *)
(* What the properties cannot tell apart is left out: the contents of an   *)
(* event, and the warning logged on every hundredth drop.                  *)
(***************************************************************************)
EXTENDS Integers, Sequences, FiniteSets

CONSTANTS Producers,        \* goroutines that call Push
          Closers,          \* goroutines that call Close
          Workers,          \* goroutines that range over Events()
          Events,           \* events a producer may push
          NilEvent,         \* the nil *SecurityEvent
          NoOne,            \* nobody holds the write lock
          Capacity,         \* the capacity NewEventBuffer is called with
          DefaultCapacity,  \* what replaces it when it is not positive
          MaxPushes         \* bound: calls of Push in a behaviour

ASSUME CapacityAssumption == Capacity \in Int /\ DefaultCapacity \in Nat \ {0}
ASSUME NilAssumption == NilEvent \notin Events
ASSUME ProducersAssumption == IsFiniteSet(Producers)
ASSUME NoOneAssumption == NoOne \notin Closers
ASSUME BoundAssumption == MaxPushes \in Nat
ASSUME RolesAssumption == /\ Producers \cap Closers = {}
                          /\ Producers \cap Workers = {}
                          /\ Closers \cap Workers = {}

VARIABLES channel,    \* b.events: what the channel holds, oldest first
          chanClosed, \* close(b.events) has run
          isClosed,   \* b.isClosed
          dropped,    \* b.dropped
          ingested,   \* the EventsIngestedTotal metric
          readers,    \* producers inside b.mu.RLock
          writer,     \* the closer that asked for b.mu.Lock, or NoOne
          once,       \* b.closeOnce: "new", "running" or "done"
          pc,         \* where each goroutine is
          arg,        \* the argument of each producer's Push
          held,       \* the event each worker is processing
          pushes,     \* calls of Push so far
          accepted,   \* history: events sent on the channel, in order
          taken,      \* history: events received from it, in order
          panicked    \* a send on a closed channel, or a second close

mutex == <<readers, writer, once>>
chan  == <<channel, chanClosed>>
count == <<dropped, ingested>>
hist  == <<accepted, taken>>
vars  == <<channel, chanClosed, isClosed, dropped, ingested, readers, writer,
           once, pc, arg, held, pushes, accepted, taken, panicked>>

Slots == IF Capacity <= 0 THEN DefaultCapacity ELSE Capacity

Goroutines == Producers \cup Closers \cup Workers

Init == /\ channel = <<>> /\ chanClosed = FALSE
        /\ isClosed = FALSE
        /\ dropped = 0 /\ ingested = 0
        /\ readers = {} /\ writer = NoOne /\ once = "new"
        /\ pc = [g \in Goroutines |-> IF g \in Workers THEN "range" ELSE "idle"]
        /\ arg = [p \in Producers |-> NilEvent]
        /\ held = [w \in Workers |-> NilEvent]
        /\ pushes = 0
        /\ accepted = <<>> /\ taken = <<>>
        /\ panicked = FALSE

Goto(g, from, to) == pc[g] = from /\ pc' = [pc EXCEPT ![g] = to]

-----------------------------------------------------------------------------
(* Push.  A name with an underscore is a plausible slip in the definition  *)
(* that follows it; the properties are tried on it, and must notice.       *)

PushCall_NilAccepted(p) ==
    /\ pushes < MaxPushes
    /\ \E e \in Events \cup {NilEvent} :
          /\ Goto(p, "idle", "rlock")
          /\ arg' = [arg EXCEPT ![p] = e]
    /\ pushes' = pushes + 1
    /\ UNCHANGED <<chan, isClosed, count, mutex, held, hist, panicked>>

PushCall(p) ==
    /\ pushes < MaxPushes
    /\ \E e \in Events \cup {NilEvent} :
          /\ Goto(p, "idle", IF e = NilEvent THEN "idle" ELSE "rlock")
          /\ arg' = [arg EXCEPT ![p] = e]
    /\ pushes' = pushes + 1
    /\ UNCHANGED <<chan, isClosed, count, mutex, held, hist, panicked>>

ReadLock_IgnoresWriter(p) ==
    /\ Goto(p, "rlock", "check")
    /\ readers' = readers \cup {p}
    /\ UNCHANGED <<chan, isClosed, count, writer, once, arg, held, pushes, hist,
                   panicked>>

ReadLock(p) ==
    /\ writer = NoOne
    /\ Goto(p, "rlock", "check")
    /\ readers' = readers \cup {p}
    /\ UNCHANGED <<chan, isClosed, count, writer, once, arg, held, pushes, hist,
                   panicked>>

CheckClosed(p) ==
    /\ Goto(p, "check", IF isClosed THEN "runlock" ELSE "select")
    /\ UNCHANGED <<chan, isClosed, count, mutex, arg, held, pushes, hist, panicked>>

(* A send on a closed channel is always ready, and panics. *)
SendEvent(p) ==
    /\ chanClosed \/ Len(channel) < Slots
    /\ Goto(p, "select", IF chanClosed THEN "crashed" ELSE "ingested")
    /\ panicked' = (panicked \/ chanClosed)
    /\ channel' = Append(channel, arg[p])
    /\ accepted' = Append(accepted, arg[p])
    /\ UNCHANGED <<chanClosed, isClosed, count, mutex, arg, held, pushes, taken>>

DropEvent_OneSlotEarly(p) ==
    /\ ~chanClosed /\ Len(channel) >= Slots - 1
    /\ Goto(p, "select", "dropped")
    /\ UNCHANGED <<chan, isClosed, count, mutex, arg, held, pushes, hist, panicked>>

DropEvent(p) ==
    /\ ~chanClosed /\ Len(channel) >= Slots
    /\ Goto(p, "select", "dropped")
    /\ UNCHANGED <<chan, isClosed, count, mutex, arg, held, pushes, hist, panicked>>

CountIngested(p) ==
    /\ Goto(p, "ingested", "runlock")
    /\ ingested' = ingested + 1
    /\ UNCHANGED <<chan, isClosed, dropped, mutex, arg, held, pushes, hist, panicked>>

CountDropped(p) ==
    /\ Goto(p, "dropped", "runlock")
    /\ dropped' = dropped + 1
    /\ UNCHANGED <<chan, isClosed, ingested, mutex, arg, held, pushes, hist, panicked>>

ReadUnlock_SkippedWhenFull(p) ==
    /\ Goto(p, "runlock", "idle")
    /\ readers' = IF Len(channel) = Slots THEN readers ELSE readers \ {p}
    /\ UNCHANGED <<chan, isClosed, count, writer, once, arg, held, pushes, hist,
                   panicked>>

ReadUnlock(p) ==
    /\ Goto(p, "runlock", "idle")
    /\ readers' = readers \ {p}
    /\ UNCHANGED <<chan, isClosed, count, writer, once, arg, held, pushes, hist,
                   panicked>>

PushStep(p) == \/ ReadLock(p) \/ CheckClosed(p) \/ SendEvent(p) \/ DropEvent(p)
               \/ CountIngested(p) \/ CountDropped(p) \/ ReadUnlock(p)

-----------------------------------------------------------------------------
(* Close.  sync.Once lets one caller run the body; the others wait for it. *)

CloseFirst(c) ==
    /\ once = "new" /\ once' = "running"
    /\ Goto(c, "idle", "lock")
    /\ UNCHANGED <<chan, isClosed, count, readers, writer, arg, held, pushes, hist,
                   panicked>>

CloseAgain_DoesNotWait(c) ==
    /\ once # "new"
    /\ Goto(c, "idle", "closed")
    /\ UNCHANGED <<chan, isClosed, count, mutex, arg, held, pushes, hist, panicked>>

CloseAgain(c) ==
    /\ once = "done"
    /\ Goto(c, "idle", "closed")
    /\ UNCHANGED <<chan, isClosed, count, mutex, arg, held, pushes, hist, panicked>>

WriteLockAnnounce(c) ==
    /\ writer = NoOne /\ writer' = c
    /\ Goto(c, "lock", "wait")
    /\ UNCHANGED <<chan, isClosed, count, readers, once, arg, held, pushes, hist,
                   panicked>>

WriteLock(c) ==
    /\ readers = {}
    /\ Goto(c, "wait", "setClosed")
    /\ UNCHANGED <<chan, isClosed, count, mutex, arg, held, pushes, hist, panicked>>

SetClosed(c) ==
    /\ Goto(c, "setClosed", "closeChan")
    /\ isClosed' = TRUE
    /\ UNCHANGED <<chan, count, mutex, arg, held, pushes, hist, panicked>>

CloseChannel_Discards(c) ==
    /\ Goto(c, "closeChan", IF chanClosed THEN "crashed" ELSE "unlock")
    /\ panicked' = (panicked \/ chanClosed)
    /\ chanClosed' = TRUE /\ channel' = <<>>
    /\ UNCHANGED <<isClosed, count, mutex, arg, held, pushes, hist>>

CloseChannel(c) ==
    /\ Goto(c, "closeChan", IF chanClosed THEN "crashed" ELSE "unlock")
    /\ panicked' = (panicked \/ chanClosed)
    /\ chanClosed' = TRUE
    /\ UNCHANGED <<channel, isClosed, count, mutex, arg, held, pushes, hist>>

WriteUnlock(c) ==
    /\ Goto(c, "unlock", "closed")
    /\ writer' = NoOne /\ once' = "done"
    /\ UNCHANGED <<chan, isClosed, count, readers, arg, held, pushes, hist, panicked>>

CloseCall(c) == CloseFirst(c) \/ CloseAgain(c)
CloseStep(c) == \/ WriteLockAnnounce(c) \/ WriteLock(c) \/ SetClosed(c)
                \/ CloseChannel(c) \/ WriteUnlock(c)

-----------------------------------------------------------------------------
(* A worker: for event := range Events() { ... } *)

Receive(w) ==
    /\ channel # <<>>
    /\ Goto(w, "range", "body")
    /\ held' = [held EXCEPT ![w] = Head(channel)]
    /\ channel' = Tail(channel)
    /\ taken' = Append(taken, Head(channel))
    /\ UNCHANGED <<chanClosed, isClosed, count, mutex, arg, pushes, accepted, panicked>>

FinishBody_Returns(w) ==
    /\ Goto(w, "body", "crashed")
    /\ held' = [held EXCEPT ![w] = NilEvent]
    /\ UNCHANGED <<chan, isClosed, count, mutex, arg, pushes, hist, panicked>>

FinishBody(w) ==
    /\ Goto(w, "body", "range")
    /\ held' = [held EXCEPT ![w] = NilEvent]
    /\ UNCHANGED <<chan, isClosed, count, mutex, arg, pushes, hist, panicked>>

EndOfRange_OnFlag(w) ==
    /\ isClosed
    /\ Goto(w, "range", "exited")
    /\ UNCHANGED <<chan, isClosed, count, mutex, arg, held, pushes, hist, panicked>>

EndOfRange(w) ==
    /\ channel = <<>> /\ chanClosed
    /\ Goto(w, "range", "exited")
    /\ UNCHANGED <<chan, isClosed, count, mutex, arg, held, pushes, hist, panicked>>

WorkStep(w) == Receive(w) \/ FinishBody(w) \/ EndOfRange(w)

-----------------------------------------------------------------------------
(* The program stops once its workers have left and no call is under way.  *)
Stopped ==
    /\ \A w \in Workers : pc[w] = "exited"
    /\ \A c \in Closers : pc[c] = "closed"
    /\ \A p \in Producers : pc[p] = "idle"
    /\ pushes = MaxPushes
    /\ UNCHANGED vars

Next == \/ \E p \in Producers : PushCall(p) \/ PushStep(p)
        \/ \E c \in Closers : CloseCall(c) \/ CloseStep(c)
        \/ \E w \in Workers : WorkStep(w)
        \/ Stopped

Spec == Init /\ [][Next]_vars

(* The Go scheduler runs every goroutine that can run: a Push or a Close   *)
(* that has begun goes on, and so does a worker.  Nobody need call either. *)
Fairness == /\ \A p \in Producers : WF_vars(PushStep(p))
            /\ \A c \in Closers : WF_vars(CloseStep(c))
            /\ \A w \in Workers : WF_vars(WorkStep(w))

FairSpec == Spec /\ Fairness

-----------------------------------------------------------------------------
(* Every variable keeps to its type; only a real event is ever queued.     *)
TypeOK ==
    /\ channel \in Seq(Events) /\ accepted \in Seq(Events) /\ taken \in Seq(Events)
    /\ chanClosed \in BOOLEAN /\ isClosed \in BOOLEAN /\ panicked \in BOOLEAN
    /\ dropped \in Nat /\ ingested \in Nat /\ pushes \in 0..MaxPushes
    /\ readers \in SUBSET Producers
    /\ writer \in Closers \cup {NoOne}
    /\ once \in {"new", "running", "done"}
    /\ pc \in [Goroutines -> {"idle", "rlock", "check", "select", "ingested",
                             "dropped", "runlock", "lock", "wait", "setClosed",
                             "closeChan", "unlock", "closed", "range", "body",
                             "exited", "crashed"}]
    /\ arg \in [Producers -> Events \cup {NilEvent}]
    /\ held \in [Workers -> Events \cup {NilEvent}]

(* A Push that races Close never sends on the closed channel, and the      *)
(* channel is never closed twice: either would panic and take the agent    *)
(* down (buffer.go:42-50 and 91-98).                                       *)
NoPanic == ~panicked

(* What Push has accepted is what the workers received followed by what    *)
(* still waits: no accepted event is lost, duplicated or overtaken, Close  *)
(* included (buffer.go:49-52, 91-98).                                      *)
AcceptedIsTakenThenQueued == accepted = taken \o channel

(* When any call of Close has returned, the second caller's included, the  *)
(* channel is closed and no Push can be accepted (buffer.go:92-97).        *)
ClosedOnReturn == \A c \in Closers : pc[c] = "closed" => chanClosed

(* A worker leaves its loop only when nothing accepted is left and nothing *)
(* can be accepted any more (main.go:354, buffer.go:68-70).                *)
WorkerLeavesEmptyBuffer ==
    \A w \in Workers : pc[w] = "exited" => chanClosed /\ taken = accepted

(* A call of Close returns whatever the producers do (buffer.go:91-98).    *)
CloseReturns == \A c \in Closers : pc[c] = "lock" ~> pc[c] = "closed"

(* Once the channel is closed every worker finishes its event, takes what  *)
(* is left and exits, which main's wg.Wait relies on (main.go:513-514).    *)
DrainAfterClose == chanClosed ~> \A w \in Workers : pc[w] = "exited"

(* The inductive invariant behind the safety properties.  ReadSection is   *)
(* the code under RLock; CloseBody is the body of closeOnce.Do, which one  *)
(* goroutine at most is in, with the write lock from Locked on.            *)
ReadSection == {"check", "select", "ingested", "dropped", "runlock"}
CloseBody   == {"lock", "wait", "setClosed", "closeChan", "unlock"}
Locked      == {"setClosed", "closeChan", "unlock"}

RolesInv ==
    /\ \A p \in Producers : pc[p] \in {"idle", "rlock"} \cup ReadSection
    /\ \A c \in Closers : pc[c] \in {"idle", "closed"} \cup CloseBody
    /\ \A w \in Workers : pc[w] \in {"range", "body", "exited"}

MutexInv ==
    /\ \A p \in Producers : p \in readers <=> pc[p] \in ReadSection
    /\ \A c \in Closers : pc[c] \in CloseBody \ {"lock"} => writer = c
    /\ \A c \in Closers : pc[c] \in Locked => readers = {}

OnceInv ==
    /\ once = "new" => \A c \in Closers : pc[c] = "idle"
    /\ \A c \in Closers : pc[c] \in CloseBody => once = "running"
    /\ \A c, d \in Closers : pc[c] \in CloseBody /\ pc[d] \in CloseBody => c = d

ClosingInv ==
    /\ once = "new" => ~isClosed
    /\ once = "done" => chanClosed
    /\ chanClosed => isClosed
    /\ \A c \in Closers : pc[c] \in {"lock", "wait", "setClosed"} => ~isClosed
    /\ \A c \in Closers : pc[c] = "closeChan" => isClosed /\ ~chanClosed
    /\ \A c \in Closers : pc[c] \in {"unlock", "closed"} => chanClosed
    /\ \A p \in Producers : pc[p] = "select" => ~isClosed

DataInv ==
    /\ Len(channel) <= Slots
    /\ AcceptedIsTakenThenQueued
    /\ \A p \in Producers : pc[p] \notin {"idle"} => arg[p] \in Events
    /\ \A w \in Workers : pc[w] = "exited" => chanClosed /\ channel = <<>>

IInv == RolesInv /\ MutexInv /\ OnceInv /\ ClosingInv /\ DataInv /\ NoPanic

(* The buffer behaves as the bounded queue it promises.  A producer that   *)
(* found the queue full has lost its event before it counts it.            *)
Queue == INSTANCE EventQueue WITH
             closed <- chanClosed,
             lost   <- dropped + Cardinality({p \in Producers : pc[p] = "dropped"})

RefinesQueue == Queue!Spec
=============================================================================
