----------------------------- MODULE AlertDelivery -----------------------------
(***************************************************************************)
(* The way of a message from Tetragon's stream to the alert sinks: the     *)
(* collector client receives and parses it and pushes the event into the   *)
(* buffer, a worker takes it and dispatches an alert about it to every     *)
(* sink.  The connection may fail at any moment and is opened again, sinks *)
(* may fail or panic, and main may stop the client (main.go:210-216,       *)
(* 488-516, of src/cmd/ztre-agent).                                        *)
(*                                                                         *)
(* The buffer takes part as the EventQueue it implements; which events the *)
(* policy wants an alert about is fixed (Alerting), and what the workers   *)
(* do besides is the subject of AgentPipeline.                             *)
(***************************************************************************)
EXTENDS Integers, Sequences, FiniteSets

CONSTANTS Workers, Slots, Sinks,
          Stdout,      \* the sink that is always registered
          Alerting,    \* the events that get an alert
          Messages, NoMessage, NoProcess, NilEvent,
          ReconnectInterval, MaxReconnectBackoff, DefaultInterval, DefaultMaxBackoff,
          MaxFailures, \* bound: failures in a row that the history counts
          MaxMessages  \* bound: messages Tetragon sends

VARIABLES at, backoff, long, message, cancelled, failures, \* the client
          accepted, taken, lost, closed,                   \* the buffer
          sinks, alert, running, wg, sent,                 \* the dispatcher
          serving,  \* main has started the goroutines
          exited,   \* the workers that have left their loop
          messages, \* how many messages were received
          parsed    \* history: the events they carried, in order

client     == <<at, backoff, long, message, cancelled, failures>>
buffer     == <<accepted, taken, lost, closed>>
dispatcher == <<sinks, alert, running, wg, sent>>
history    == <<messages, parsed>>

NoAlert == 0

Client == INSTANCE TetragonClient
Parse  == INSTANCE Parser
Events == {Parse!Parse(m) : m \in Messages} \ {NilEvent}
Buffer == INSTANCE EventQueue
Dispatch == INSTANCE Dispatcher WITH Callers <- Workers, Alerts <- 1..MaxMessages

ASSUME SlotsAssumption == Slots \in Nat \ {0}
ASSUME NothingAssumption == NoMessage \notin Messages
ASSUME SinksAssumption == IsFiniteSet(Sinks) /\ Stdout \in Sinks
ASSUME IntervalsAssumption ==
    /\ ReconnectInterval \in Int /\ MaxReconnectBackoff \in Int
    /\ DefaultInterval \in Nat \ {0} /\ DefaultMaxBackoff \in Nat \ {0}
ASSUME BoundsAssumption == MaxFailures \in Nat \ {0} /\ MaxMessages \in Nat
ASSUME HistoryAssumption ==
    \A b \in Client!Waits : Client!IsWait(MaxFailures, b) => b = Client!MaxBackoff

vars == <<at, backoff, long, message, cancelled, failures, accepted, taken, lost,
          closed, sinks, alert, running, wg, sent, serving, exited, messages, parsed>>

Init == /\ Client!Init /\ Buffer!Init /\ Dispatch!Init({Stdout})
        /\ serving = FALSE /\ exited = {}
        /\ messages = 0 /\ parsed = <<>>

-----------------------------------------------------------------------------
(* main *)

Register == /\ ~serving
            /\ \E s \in Sinks : Dispatch!RegisterSink(s)
            /\ UNCHANGED <<client, buffer, serving, exited, history>>

Serve == /\ ~serving /\ serving' = TRUE
         /\ UNCHANGED <<client, buffer, dispatcher, exited, history>>

Stop == /\ serving
        /\ Client!Cancel
        /\ UNCHANGED <<buffer, dispatcher, serving, exited, history>>

Close == /\ at = "returned"
         /\ Buffer!Close
         /\ UNCHANGED <<client, dispatcher, serving, exited, history>>

-----------------------------------------------------------------------------
(* The client.  A name with an underscore is a plausible slip in the       *)
(* definition that follows it; the properties are tried on it.             *)

Connection == /\ serving
              /\ Client!Reconnect \/ Client!Open \/ Client!OpenFails
              /\ UNCHANGED <<buffer, dispatcher, serving, exited, history>>

(* Nobody waits for the stream to end or an attempt to last.               *)
Weather == /\ Client!StreamEnds \/ Client!Elapse
           /\ UNCHANGED <<buffer, dispatcher, serving, exited, history>>

Carried == Parse!Parse(message)

Receive == /\ messages < MaxMessages
           /\ Client!Recv
           /\ messages' = messages + 1
           /\ parsed' = IF Parse!Parse(message') = NilEvent THEN parsed
                        ELSE Append(parsed, Parse!Parse(message'))
           /\ UNCHANGED <<buffer, dispatcher, serving, exited>>

(* What carries no event is skipped; a full buffer loses what is pushed.   *)
Push_AgainWhenFull ==
    /\ at = "received"
    /\ \/ Carried = NilEvent /\ Client!Proceed /\ UNCHANGED buffer
       \/ /\ Carried # NilEvent
          /\ \/ Client!Proceed /\ Buffer!Accept /\ accepted' = Append(accepted, Carried)
             \/ lost < MaxMessages /\ Buffer!Lose /\ UNCHANGED client
    /\ UNCHANGED <<dispatcher, serving, exited, history>>

Push == /\ Client!Proceed
        /\ \/ Carried = NilEvent /\ UNCHANGED buffer
           \/ /\ Carried # NilEvent
              /\ \/ Buffer!Accept /\ accepted' = Append(accepted, Carried)
                 \/ Buffer!Lose
        /\ UNCHANGED <<dispatcher, serving, exited, history>>

-----------------------------------------------------------------------------
(* A worker: an alert is known by the place of its event in the queue.     *)

Free(w) == w \notin exited /\ alert[w] = NoAlert

Take(w) == /\ serving /\ Free(w)
           /\ Buffer!Take
           /\ IF taken'[Len(taken')] \in Alerting
              THEN Dispatch!Begin(w, Len(taken'))
              ELSE UNCHANGED dispatcher
           /\ UNCHANGED <<client, serving, exited, history>>

SinkAnswers(w, s) == /\ Dispatch!Send(w, s) \/ Dispatch!Panic(w, s)
                     /\ UNCHANGED <<client, buffer, serving, exited, history>>

DispatchReturn(w) ==
    /\ Dispatch!Return(w)
    /\ UNCHANGED <<client, buffer, serving, exited, history>>

EndOfRange(w) ==
    /\ Free(w)
    /\ closed /\ Buffer!Pending = 0
    /\ exited' = exited \cup {w}
    /\ UNCHANGED <<client, buffer, dispatcher, serving, history>>

Work(w) == \/ Take(w) \/ DispatchReturn(w) \/ EndOfRange(w)
           \/ \E s \in Sinks : SinkAnswers(w, s)

(* Nothing need happen once the buffer is closed; that the workers leave   *)
(* all the same is what StopsWhenCancelled says.                           *)
AtRest == closed /\ UNCHANGED vars

Next == \/ Register \/ Serve \/ Stop \/ Close
        \/ Connection \/ Weather \/ Receive \/ Push
        \/ \E w \in Workers : Work(w)
        \/ AtRest

Spec == Init /\ [][Next]_vars

(* Goroutines that can run do.  An attempt to open the stream succeeds or  *)
(* fails, and a cancelled context ends it, for Tetragon's messages are     *)
(* finitely many; Send returns, by its timeout at the latest; the waits    *)
(* between two attempts end.  Nobody has to stop the agent, and Tetragon   *)
(* need neither send anything nor close its stream.                        *)
Fairness == /\ WF_vars(Connection \/ Push) /\ WF_vars(Close)
            /\ WF_vars(cancelled /\ Weather /\ at' = "ended")
            /\ \A w \in Workers : WF_vars(Work(w))

FairSpec == Spec /\ Fairness

-----------------------------------------------------------------------------
(* Every variable keeps to its type, and the WaitGroup of a Dispatch       *)
(* counts the goroutines that still send.                                  *)
TypeOK ==
    /\ Client!ClientTypeOK
    /\ accepted \in Seq(Events) /\ taken \in Seq(Events) /\ lost \in Nat
    /\ closed \in BOOLEAN /\ serving \in BOOLEAN
    /\ sinks \subseteq Sinks /\ exited \subseteq Workers
    /\ alert \in [Workers -> 0..MaxMessages]
    /\ running \in [Workers -> SUBSET Sinks]
    /\ wg \in [Workers -> Nat]
    /\ sent \in [1..MaxMessages -> [Sinks -> Nat]]
    /\ messages \in 0..MaxMessages /\ parsed \in Seq(Events)

(* What the client is still holding. *)
InFlight == IF at = "received" /\ Carried # NilEvent THEN 1 ELSE 0

(* Every event Tetragon's messages carried, over all connections, was      *)
(* accepted by the buffer or counted as lost on a full one: none is        *)
(* forgotten when a stream breaks or the agent stops, none is pushed       *)
(* twice, and none overtakes another (client.go:119-140).                  *)
ReceivedOnceInOrder ==
    /\ Len(parsed) = Len(accepted) + lost + InFlight
    /\ \E place \in [DOMAIN accepted -> DOMAIN parsed] :
          \A i \in DOMAIN accepted :
              /\ accepted[i] = parsed[place[i]]
              /\ \A j \in DOMAIN accepted : i < j => place[i] < place[j]

(* After the n-th failure in a row the client waits for the interval       *)
(* doubled n - 1 times, never more than the maximum; an attempt that       *)
(* lasted starts the count afresh (client.go:56, 82-95).                   *)
WaitFollowsFailures ==
    at = "waiting" => failures > 0 /\ Client!IsWait(failures, backoff)

(* An alert is sent to a sink at most once, and when its Dispatch has      *)
(* returned every registered sink was sent it, whatever the others did     *)
(* (dispatcher.go:150-180).                                                *)
SentOnceToEverySink ==
    /\ \A i \in 1..MaxMessages, s \in Sinks : sent[i][s] <= 1
    /\ \A i \in DOMAIN taken : (taken[i] \in Alerting /\ \A w \in Workers : alert[w] # i)
          => \A s \in sinks : sent[i][s] = 1

(* The inductive invariant behind these.  What is in flight is the last    *)
(* event that was parsed, and those before it are where they belong.       *)
FlowInv ==
    /\ Len(parsed) = Len(accepted) + lost + InFlight /\ Len(parsed) <= messages
    /\ InFlight = 1 => parsed[Len(parsed)] = Carried
    /\ \E place \in [DOMAIN accepted -> 1..(Len(parsed) - InFlight)] :
          \A i \in DOMAIN accepted :
              /\ accepted[i] = parsed[place[i]]
              /\ \A j \in DOMAIN accepted : i < j => place[i] < place[j]
    /\ Len(taken) <= Len(accepted)

(* A Dispatch is about one event that was taken, and counts the sinks that *)
(* it still sends to; nothing is taken while sinks are registered.         *)
DispatchInv ==
    /\ ~serving => taken = <<>>
    /\ \A w \in Workers :
          /\ running[w] \subseteq sinks /\ wg[w] = Cardinality(running[w])
          /\ alert[w] = NoAlert => running[w] = {}
          /\ alert[w] # NoAlert => alert[w] \in DOMAIN taken /\ taken[alert[w]] \in Alerting
          /\ \A v \in Workers \ {w} : alert[w] # NoAlert => alert[w] # alert[v]

(* Whom each alert has been sent.                                          *)
SentInv == \A i \in 1..MaxMessages, s \in Sinks :
    sent[i][s] = IF /\ i \in DOMAIN taken /\ taken[i] \in Alerting /\ s \in sinks
                    /\ \A w \in Workers : alert[w] = i => s \notin running[w]
                 THEN 1 ELSE 0

(* While an attempt is made the backoff already is the wait that follows   *)
(* it, unless the attempt lasts.                                           *)
BackoffInv ==
    /\ WaitFollowsFailures
    /\ at \notin {"waiting", "returned"} =>
          IF failures = 0 THEN backoff = Client!Interval
          ELSE \E b \in Client!Waits : /\ Client!IsWait(failures, b)
                                       /\ backoff = Client!Least(2 * b, Client!MaxBackoff)

IInv == TypeOK /\ FlowInv /\ DispatchInv /\ SentInv /\ BackoffInv

(* The alert about an accepted event reaches every registered sink, even   *)
(* while other sinks fail and panic and the connection comes and goes.     *)
AlertsReachSinks ==
    \A i \in 1..MaxMessages :
        Len(accepted) >= i /\ accepted[i] \in Alerting
            ~> \A s \in sinks : sent[i][s] = 1

(* A lost connection is opened again, unless the client was told to stop.  *)
Reconnects == at \in {"ended", "waiting"} ~> at = "opening" \/ cancelled

(* Once told to stop, the client returns and the workers leave: no Dispatch *)
(* keeps one of them for ever, though a sink panics.                       *)
StopsWhenCancelled == cancelled ~> exited = Workers
=============================================================================
