------------------------- MODULE AlertDeliveryProofs -------------------------
(***************************************************************************)
(* The safety of the way from Tetragon's stream to the sinks, for any      *)
(* number of messages, workers and sinks and any capacity of the buffer,   *)
(* however connection and sinks behave.                                    *)
(***************************************************************************)
EXTENDS AlertDelivery, SequenceTheorems, FiniteSetTheorems, TLAPS

(* The frame of every step: which variables travel together.               *)
USE DEF client, buffer, dispatcher, history, Client!Goto, NoAlert
USE BoundsAssumption

-----------------------------------------------------------------------------
(* Kinds of steps: those of the connection, which see no event; the others *)
(* of main; the worker's, of which Take and the answers move something.    *)
Aside == \/ Serve \/ Stop \/ Connection \/ Weather \/ UNCHANGED vars
         \/ \E w \in Workers : EndOfRange(w)

Answers(w, s) == Dispatch!Send(w, s) \/ Dispatch!Panic(w, s)

LEMMA StepKinds ==
    ASSUME [Next]_vars
    PROVE  \/ Register \/ Close \/ Receive \/ Push \/ Aside
           \/ \E w \in Workers : Take(w) \/ DispatchReturn(w) \/ \E s \in Sinks : SinkAnswers(w, s)
  BY DEF Next, Work, AtRest, Aside

LEMMA AnswerMeans ==
    ASSUME NEW w, NEW s, SinkAnswers(w, s)
    PROVE  /\ s \in running[w]
           /\ sent' = [sent EXCEPT ![alert[w]][s] = @ + 1]
           /\ running' = [running EXCEPT ![w] = @ \ {s}]
           /\ wg' = [wg EXCEPT ![w] = @ - 1]
           /\ UNCHANGED <<client, accepted, taken, lost, closed, sinks, alert, serving, exited, history>>
  BY DEF SinkAnswers, Dispatch!Send, Dispatch!Panic, Dispatch!Done

LEMMA BeginMeans ==
    ASSUME NEW w, NEW n, Dispatch!Begin(w, n)
    PROVE  /\ alert' = [alert EXCEPT ![w] = n] /\ running' = [running EXCEPT ![w] = sinks]
           /\ wg' = [wg EXCEPT ![w] = Cardinality(sinks)]
  BY DEF Dispatch!Begin, Dispatch!Cardinality, Cardinality

(* A worker takes the event after the last one taken, and begins to        *)
(* dispatch if it deserves an alert.                                       *)
LEMMA TakeMeans ==
    ASSUME TypeOK, FlowInv, NEW w \in Workers, Take(w)
    PROVE  LET n == Len(taken) + 1 IN
           /\ serving /\ alert[w] = NoAlert
           /\ n <= Len(accepted) /\ n \in 1..MaxMessages /\ accepted[n] \in Events
           /\ taken' = Append(taken, accepted[n]) /\ taken' \in Seq(Events)
           /\ Len(taken') = n /\ taken'[n] = accepted[n]
           /\ \A i \in DOMAIN taken : taken'[i] = taken[i]
           /\ UNCHANGED <<client, accepted, lost, closed, sinks, sent, serving, exited, history>>
           /\ \/ accepted[n] \in Alerting /\ Dispatch!Begin(w, n)
              \/ accepted[n] \notin Alerting /\ UNCHANGED <<alert, running, wg>>
<1> DEFINE n == Len(taken) + 1
<1>1. /\ serving /\ alert[w] = NoAlert /\ Buffer!Pending > 0
      /\ taken' = Append(taken, accepted[n])
      /\ IF taken'[Len(taken')] \in Alerting
         THEN Dispatch!Begin(w, Len(taken')) ELSE UNCHANGED dispatcher
      /\ UNCHANGED <<client, accepted, lost, closed, serving, exited, history>>
  BY DEF Take, Free, Buffer!Take
<1>2. Len(taken) \in Nat /\ Len(accepted) \in Nat /\ Len(parsed) \in Nat
  BY LenProperties DEF TypeOK
<1>3. InFlight \in {0, 1}
  BY DEF InFlight
<1>4. n <= Len(accepted) /\ n \in 1..MaxMessages
  BY <1>1, <1>2, <1>3 DEF Buffer!Pending, FlowInv, TypeOK
<1>5. accepted[n] \in Events
  BY <1>2, <1>4, ElementOfSeq DEF TypeOK
<1>6. /\ Len(taken') = n /\ taken'[n] = accepted[n]
      /\ taken' \in Seq(Events) /\ \A i \in DOMAIN taken : taken'[i] = taken[i]
  BY <1>1, <1>5, AppendProperties, LenProperties DEF TypeOK
<1>7. UNCHANGED <<sinks, sent>>
  BY <1>1 DEF Dispatch!Begin
<1> QED  BY <1>1, <1>4, <1>5, <1>6, <1>7

-----------------------------------------------------------------------------
(* The client keeps its types: the wait is positive, and it holds a        *)
(* message exactly when it is dealing with one.                            *)
LEMMA Waits == /\ Client!Interval \in Nat \ {0} /\ Client!MaxBackoff \in Nat \ {0}
               /\ \A m, n \in Nat \ {0} : Client!Least(m, n) \in Nat \ {0}
               /\ \A n \in 0..MaxFailures : Client!Least(n + 1, MaxFailures) \in 0..MaxFailures
  BY IntervalsAssumption DEF Client!Interval, Client!MaxBackoff, Client!Least

LEMMA ClientStep ==
    ASSUME Client!ClientTypeOK,
           \/ Client!Cancel \/ Client!Reconnect \/ Client!Open \/ Client!OpenFails
           \/ Client!StreamEnds \/ Client!Elapse \/ Client!Recv \/ Client!Proceed
           \/ UNCHANGED client
    PROVE  Client!ClientTypeOK'
<1> USE NothingAssumption DEF Client!ClientTypeOK
<1>1. CASE Client!Reconnect
  <2>1. CASE Client!Attempt        BY <2>1 DEF Client!Attempt
  <2>2. CASE Client!AttemptOver
    <3>1. backoff' \in Nat \ {0}  BY <2>2, Waits DEF Client!AttemptOver
    <3>2. failures' \in 0..MaxFailures  BY <2>2, Waits DEF Client!AttemptOver
    <3> QED  BY <2>2, <3>1, <3>2 DEF Client!AttemptOver
  <2>3. CASE Client!WaitOver
    <3>1. 2 * backoff \in Nat \ {0}  OBVIOUS
    <3>2. backoff' \in Nat \ {0}  BY <2>3, <3>1, Waits DEF Client!WaitOver
    <3> QED  BY <2>3, <3>2 DEF Client!WaitOver
  <2>4. CASE Client!WaitCancelled  BY <2>4 DEF Client!WaitCancelled
  <2> QED  BY <1>1, <2>1, <2>2, <2>3, <2>4 DEF Client!Reconnect
<1>2. CASE Client!Cancel \/ Client!Open \/ Client!OpenFails \/ Client!StreamEnds \/ Client!Elapse
  BY <1>2 DEF Client!Cancel, Client!Open, Client!OpenFails, Client!StreamEnds, Client!Elapse
<1>3. CASE Client!Recv \/ Client!Proceed
  BY <1>3 DEF Client!Recv, Client!Proceed
<1>4. CASE UNCHANGED client
  BY <1>4
<1> QED  BY <1>1, <1>2, <1>3, <1>4

-----------------------------------------------------------------------------
(* Every variable keeps to its type.                                       *)
LEMMA TypeStep == ASSUME TypeOK, FlowInv, DispatchInv, [Next]_vars PROVE TypeOK'
<1>0. Client!ClientTypeOK'
  <2>1. \/ Client!Cancel \/ Client!Reconnect \/ Client!Open \/ Client!OpenFails
        \/ Client!StreamEnds \/ Client!Elapse \/ Client!Recv \/ Client!Proceed
        \/ UNCHANGED client
    BY DEF Next, Register, Serve, Stop, Close, Connection, Weather, Receive, Push, Work, Take,
           SinkAnswers, DispatchReturn, EndOfRange, AtRest, vars
  <2> QED  BY <2>1, ClientStep DEF TypeOK
<1> USE DEF TypeOK
<1>1. CASE Register
  BY <1>0, <1>1 DEF Register, Dispatch!RegisterSink
<1>2. CASE Close
  BY <1>0, <1>2 DEF Close, Buffer!Close
<1>3. CASE Receive
  <2>1. message' \in Messages /\ messages' \in 0..MaxMessages
    BY <1>3 DEF Receive, Client!Recv
  <2>2. parsed' \in Seq(Events)
    <3>1. Parse!Parse(message') # NilEvent => Parse!Parse(message') \in Events
      BY <2>1 DEF Events
    <3> QED  BY <1>3, <3>1 DEF Receive
  <2> QED  BY <1>0, <1>3, <2>1, <2>2 DEF Receive
<1>4. CASE Push
  <2>1. /\ UNCHANGED <<taken, closed, dispatcher, serving, exited, history>>
        /\ message \in Messages
    BY <1>4 DEF Push, Client!Proceed, Client!ClientTypeOK, Buffer!Accept, Buffer!Lose
  <2>2. Carried # NilEvent => Carried \in Events
    BY <2>1 DEF Carried, Events
  <2>3. CASE UNCHANGED <<accepted, lost>>
    BY <1>0, <2>1, <2>3
  <2>4. CASE Carried # NilEvent /\ accepted' = Append(accepted, Carried) /\ UNCHANGED lost
    <3>1. accepted' \in Seq(Events)  BY <2>2, <2>4, AppendProperties
    <3> QED  BY <1>0, <2>1, <2>4, <3>1
  <2>5. CASE lost' = lost + 1 /\ UNCHANGED accepted
    BY <1>0, <2>1, <2>5
  <2> QED  BY <1>4, <2>3, <2>4, <2>5 DEF Push, Buffer!Accept, Buffer!Lose
<1>5. ASSUME NEW w \in Workers, Take(w) PROVE TypeOK'
  <2> DEFINE n == Len(taken) + 1
  <2>1. /\ n \in 1..MaxMessages /\ taken' \in Seq(Events)
        /\ UNCHANGED <<client, accepted, lost, closed, sinks, sent, serving, exited, history>>
        /\ \/ Dispatch!Begin(w, n) \/ UNCHANGED <<alert, running, wg>>
    BY <1>5, TakeMeans
  <2>2. Cardinality(sinks) \in Nat
    BY SinksAssumption, FS_Subset, FS_CardinalityType
  <2> HIDE DEF n
  <2>3. CASE UNCHANGED <<alert, running, wg>>
    BY <1>0, <2>1, <2>3
  <2>4. CASE Dispatch!Begin(w, n)
    <3>1. /\ alert' = [alert EXCEPT ![w] = n] /\ running' = [running EXCEPT ![w] = sinks]
          /\ wg' = [wg EXCEPT ![w] = Cardinality(sinks)]
      BY <2>4, BeginMeans
    <3>2. alert' \in [Workers -> 0..MaxMessages]
      BY <2>1, <3>1
    <3>3. running' \in [Workers -> SUBSET Sinks] /\ wg' \in [Workers -> Nat]
      BY <2>2, <3>1
    <3> QED  BY <1>0, <2>1, <3>2, <3>3
  <2> QED  BY <2>1, <2>3, <2>4
<1>6. ASSUME NEW w \in Workers, DispatchReturn(w) PROVE TypeOK'
  BY <1>0, <1>6 DEF DispatchReturn, Dispatch!Return
<1>7. ASSUME NEW w \in Workers, NEW s \in Sinks, SinkAnswers(w, s) PROVE TypeOK'
  <2>1. /\ s \in running[w] /\ running' = [running EXCEPT ![w] = @ \ {s}]
        /\ wg' = [wg EXCEPT ![w] = @ - 1] /\ sent' = [sent EXCEPT ![alert[w]][s] = @ + 1]
        /\ UNCHANGED <<client, accepted, taken, lost, closed, sinks, alert, serving, exited, history>>
    BY <1>7, AnswerMeans
  <2>2. wg[w] = Cardinality(running[w]) /\ alert[w] # 0
    BY <2>1 DEF DispatchInv
  <2>3. wg[w] - 1 \in Nat
    <3>1. IsFiniteSet(running[w])  BY SinksAssumption, FS_Subset
    <3>2. wg[w] # 0  BY <2>1, <2>2, <3>1, FS_EmptySet
    <3> QED  BY <3>2
  <2>4. sent' \in [1..MaxMessages -> [Sinks -> Nat]]
    <3>1. alert[w] \in 1..MaxMessages  BY <2>2
    <3>2. [sent[alert[w]] EXCEPT ![s] = @ + 1] \in [Sinks -> Nat]  BY <3>1
    <3> QED  BY <2>1, <3>1, <3>2
  <2> QED  BY <1>0, <2>1, <2>3, <2>4
<1>8. CASE Aside
  BY <1>0, <1>8 DEF Aside, Serve, Stop, Connection, Weather, EndOfRange, vars
<1> QED  BY <1>1, <1>2, <1>3, <1>4, <1>5, <1>6, <1>7, <1>8, StepKinds

-----------------------------------------------------------------------------
(* Events keep their order, and none is forgotten.                         *)
Flow == <<parsed, accepted, lost, taken, messages>>

LEMMA FlowSame == ASSUME FlowInv, UNCHANGED Flow, InFlight' = InFlight, Carried' = Carried \/ InFlight = 0
                  PROVE  FlowInv'
  BY DEF FlowInv, Flow

LEMMA FlowStep == ASSUME TypeOK, FlowInv, [Next]_vars PROVE FlowInv'
<1>0. /\ Len(parsed) \in Nat /\ Len(accepted) \in Nat /\ Len(taken) \in Nat /\ InFlight \in {0, 1}
      /\ parsed \in Seq(Events) /\ accepted \in Seq(Events) /\ lost \in Nat /\ messages \in Nat
  BY LenProperties DEF TypeOK, InFlight
<1>1. CASE Receive
  <2>1. /\ at = "streaming" /\ at' = "received" /\ messages' = messages + 1
        /\ UNCHANGED <<accepted, taken, lost>>
    BY <1>1 DEF Receive, Client!Recv
  <2>2. InFlight = 0
    BY <2>1 DEF InFlight
  <2>3. CASE Carried' = NilEvent
    <3>1. InFlight' = 0 /\ parsed' = parsed
      BY <1>1, <2>3 DEF Receive, InFlight, Carried
    <3> QED  BY <1>0, <2>1, <2>2, <3>1 DEF FlowInv
  <2>4. CASE Carried' # NilEvent
    <3>1. /\ InFlight' = 1 /\ parsed' = Append(parsed, Carried')
      BY <1>1, <2>1, <2>4 DEF Receive, InFlight, Carried
    <3>2. /\ Len(parsed') = Len(parsed) + 1 /\ parsed'[Len(parsed')] = Carried'
          /\ \A i \in 1..Len(parsed) : parsed'[i] = parsed[i]
      BY <1>0, <3>1, AppendProperties
    <3>3. Len(parsed') - InFlight' = Len(parsed) - InFlight
      BY <1>0, <2>2, <3>1, <3>2
    <3> QED  BY <1>0, <2>1, <2>2, <3>1, <3>2, <3>3, SMTT(20) DEF FlowInv
  <2> QED  BY <2>3, <2>4
<1>2. CASE Push
  <2>1. at = "received" /\ at' = "streaming" /\ UNCHANGED <<taken, messages, parsed>>
    BY <1>2 DEF Push, Client!Proceed, Buffer!Accept, Buffer!Lose
  <2>2. InFlight' = 0
    BY <2>1 DEF InFlight
  <2>3. CASE Carried = NilEvent
    <3>1. InFlight = 0 /\ UNCHANGED <<accepted, lost>>
      BY <1>2, <2>3 DEF Push, InFlight
    <3> QED  BY <1>0, <2>1, <2>2, <3>1, SMTT(20) DEF FlowInv
  <2>4. CASE Carried # NilEvent /\ lost' = lost + 1 /\ UNCHANGED accepted
    <3>1. InFlight = 1
      BY <2>1, <2>4 DEF InFlight
    <3>2. PICK place \in [DOMAIN accepted -> 1..(Len(parsed) - InFlight)] :
              \A i \in DOMAIN accepted :
                  /\ accepted[i] = parsed[place[i]]
                  /\ \A j \in DOMAIN accepted : i < j => place[i] < place[j]
      BY DEF FlowInv
    <3>3. place \in [DOMAIN accepted' -> 1..(Len(parsed') - InFlight')]
      BY <1>0, <2>1, <2>2, <2>4, <3>1, <3>2
    <3>4. Len(parsed') = Len(accepted') + lost' + InFlight'
      BY <1>0, <2>1, <2>2, <2>4, <3>1 DEF FlowInv
    <3>5. Len(parsed') <= messages' /\ Len(taken') <= Len(accepted')
      BY <2>1, <2>4 DEF FlowInv
    <3>6. \E f \in [DOMAIN accepted' -> 1..(Len(parsed') - InFlight')] :
              \A i \in DOMAIN accepted' :
                  /\ accepted'[i] = parsed'[f[i]]
                  /\ \A j \in DOMAIN accepted' : i < j => f[i] < f[j]
      <4>1. accepted' = accepted /\ parsed' = parsed  BY <2>1, <2>4
      <4> QED  BY <3>2, <3>3, <4>1
    <3>7. InFlight' = 1 => parsed'[Len(parsed')] = Carried'
      BY <2>2
    <3> QED  BY <3>4, <3>5, <3>6, <3>7, Zenon DEF FlowInv
  <2>5. CASE Carried # NilEvent /\ accepted' = Append(accepted, Carried) /\ UNCHANGED lost
    <3>1. InFlight = 1 /\ parsed[Len(parsed)] = Carried /\ Len(parsed) = Len(accepted) + lost + 1
      BY <2>1, <2>5 DEF InFlight, FlowInv
    <3>2. /\ Len(accepted') = Len(accepted) + 1 /\ accepted'[Len(accepted')] = Carried
          /\ \A i \in 1..Len(accepted) : accepted'[i] = accepted[i]
          /\ DOMAIN accepted = 1..Len(accepted) /\ DOMAIN accepted' = 1..(Len(accepted) + 1)
      <4>1. Carried \in Events
        <5>1. message \in Messages  BY <2>1 DEF TypeOK, Client!ClientTypeOK
        <5> QED  BY <2>5, <5>1 DEF Carried, Events
      <4> QED  BY <1>0, <2>5, <4>1, AppendProperties, LenProperties
    <3>3. PICK place \in [DOMAIN accepted -> 1..(Len(parsed) - InFlight)] :
              \A i \in DOMAIN accepted :
                  /\ accepted[i] = parsed[place[i]]
                  /\ \A j \in DOMAIN accepted : i < j => place[i] < place[j]
      BY DEF FlowInv
    <3> DEFINE further == [i \in 1..(Len(accepted) + 1) |->
                              IF i = Len(accepted) + 1 THEN Len(parsed) ELSE place[i]]
    <3>4. \A i \in 1..Len(accepted) : place[i] \in 1..(Len(parsed) - 1)
      BY <1>0, <3>1, <3>2, <3>3
    <3>5. further \in [DOMAIN accepted' -> 1..(Len(parsed') - InFlight')]
      BY <1>0, <2>1, <2>2, <3>1, <3>2, <3>4
    <3>6. \A i \in DOMAIN accepted' :
              /\ accepted'[i] = parsed'[further[i]]
              /\ \A j \in DOMAIN accepted' : i < j => further[i] < further[j]
      <4>1. \A i \in DOMAIN accepted' : accepted'[i] = parsed'[further[i]]
        BY <1>0, <2>1, <3>1, <3>2, <3>3
      <4>2. ASSUME NEW i \in DOMAIN accepted', NEW j \in DOMAIN accepted', i < j
            PROVE  further[i] < further[j]
        BY <1>0, <3>2, <3>3, <3>4, <4>2
      <4> QED  BY <4>1, <4>2
    <3>7. \E f \in [DOMAIN accepted' -> 1..(Len(parsed') - InFlight')] :
              \A i \in DOMAIN accepted' :
                  /\ accepted'[i] = parsed'[f[i]]
                  /\ \A j \in DOMAIN accepted' : i < j => f[i] < f[j]
      BY <3>5, <3>6
    <3>8. Len(parsed') = Len(accepted') + lost' + InFlight'
      BY <1>0, <2>1, <2>2, <2>5, <3>1, <3>2
    <3>9. Len(parsed') <= messages' /\ Len(taken') <= Len(accepted')
      BY <1>0, <2>1, <3>2 DEF FlowInv
    <3>10. InFlight' = 1 => parsed'[Len(parsed')] = Carried'
      BY <2>2
    <3> QED  BY <3>7, <3>8, <3>9, <3>10, Zenon DEF FlowInv
  <2> QED  BY <1>2, <2>3, <2>4, <2>5 DEF Push, Buffer!Accept, Buffer!Lose
<1>3. ASSUME NEW w \in Workers, Take(w) PROVE FlowInv'
  <2>1. /\ Len(taken') = Len(taken) + 1 /\ Len(taken) + 1 <= Len(accepted)
        /\ UNCHANGED <<client, accepted, lost, history>>
    BY <1>3, TakeMeans
  <2>2. UNCHANGED <<InFlight, Carried>>
    BY <2>1 DEF InFlight, Carried
  <2> QED  BY <1>0, <2>1, <2>2 DEF FlowInv
<1>4. CASE Connection \/ Weather
  <2>1. /\ at # "received" /\ at' # "received" /\ UNCHANGED Flow
    BY <1>4 DEF Connection, Weather, Client!Reconnect, Client!Attempt, Client!AttemptOver,
                Client!WaitOver, Client!WaitCancelled, Client!Open, Client!OpenFails,
                Client!StreamEnds, Client!Elapse, Flow
  <2> QED  BY <2>1, FlowSame DEF InFlight
<1>5. ASSUME UNCHANGED <<Flow, at, message>> PROVE FlowInv'
  BY <1>5, FlowSame DEF InFlight, Carried
<1>6. CASE Register \/ Close \/ Serve \/ Stop \/ UNCHANGED vars
  <2>1. UNCHANGED <<Flow, at, message>>
    BY <1>6 DEF Register, Close, Serve, Stop, Client!Cancel, Buffer!Close, vars, Flow
  <2> QED  BY <1>5, <2>1
<1>7. ASSUME NEW w \in Workers, DispatchReturn(w) \/ EndOfRange(w) \/ \E s \in Sinks : SinkAnswers(w, s)
      PROVE  FlowInv'
  <2>1. UNCHANGED <<Flow, at, message>>
    BY <1>7 DEF DispatchReturn, EndOfRange, SinkAnswers, Flow
  <2> QED  BY <1>5, <2>1
<1> QED  BY <1>1, <1>2, <1>3, <1>4, <1>6, <1>7, StepKinds DEF Aside

-----------------------------------------------------------------------------
(* The dispatcher's books are right.                                       *)
Dispatching == <<serving, taken, sinks, alert, running, wg, sent>>

LEMMA DispatchStep == ASSUME TypeOK, FlowInv, DispatchInv, [Next]_vars PROVE DispatchInv'
<1>1. CASE Register
  BY <1>1 DEF Register, Dispatch!RegisterSink, DispatchInv
<1>2. ASSUME NEW w \in Workers, Take(w) PROVE DispatchInv'
  <2> DEFINE n == Len(taken) + 1
  <2>1. /\ serving /\ serving' = serving /\ alert[w] = 0 /\ sinks' = sinks
        /\ n \in DOMAIN taken' /\ taken'[n] = accepted[n] /\ n \notin DOMAIN taken /\ n # 0
        /\ \A i \in DOMAIN taken : i \in DOMAIN taken' /\ taken'[i] = taken[i]
        /\ \/ accepted[n] \in Alerting /\ Dispatch!Begin(w, n)
           \/ UNCHANGED <<alert, running, wg>>
    <3>1. /\ Len(taken) \in Nat /\ DOMAIN taken = 1..Len(taken)
          /\ taken' \in Seq(Events) /\ Len(taken') = n
      BY <1>2, TakeMeans, LenProperties DEF TypeOK
    <3>2. DOMAIN taken' = 1..n
      BY <3>1, LenProperties
    <3> QED  BY <1>2, <3>1, <3>2, TakeMeans
  <2> HIDE DEF n
  <2>2. CASE UNCHANGED <<alert, running, wg>>
    BY <2>1, <2>2 DEF DispatchInv
  <2>3. CASE accepted[n] \in Alerting /\ Dispatch!Begin(w, n)
    <3>1. /\ alert' = [alert EXCEPT ![w] = n] /\ running' = [running EXCEPT ![w] = sinks]
          /\ wg' = [wg EXCEPT ![w] = Cardinality(sinks)]
      BY <2>3, BeginMeans
    <3>2. /\ alert'[w] = n /\ running'[w] = sinks /\ wg'[w] = Cardinality(sinks)
          /\ \A v \in Workers \ {w} :
                alert'[v] = alert[v] /\ running'[v] = running[v] /\ wg'[v] = wg[v]
      BY <3>1 DEF TypeOK
    <3>3. \A v \in Workers : alert[v] # n
      BY <2>1 DEF DispatchInv
    <3>4. ASSUME NEW v \in Workers
          PROVE  /\ running'[v] \subseteq sinks' /\ wg'[v] = Cardinality(running'[v])
                 /\ alert'[v] = 0 => running'[v] = {}
                 /\ alert'[v] # 0 => alert'[v] \in DOMAIN taken' /\ taken'[alert'[v]] \in Alerting
                 /\ \A u \in Workers \ {v} : alert'[v] # 0 => alert'[v] # alert'[u]
      <4>1. CASE v = w   BY <2>1, <2>3, <3>2, <3>3, <4>1
      <4>2. CASE v # w   BY <2>1, <3>2, <3>3, <4>2 DEF DispatchInv
      <4> QED  BY <4>1, <4>2
    <3> QED  BY <2>1, <3>4 DEF DispatchInv
  <2> QED  BY <2>1, <2>2, <2>3
<1>3. ASSUME NEW w \in Workers, NEW s \in Sinks, SinkAnswers(w, s) PROVE DispatchInv'
  <2>1. /\ s \in running[w] /\ UNCHANGED <<serving, taken, sinks, alert>>
        /\ running' = [running EXCEPT ![w] = @ \ {s}] /\ wg' = [wg EXCEPT ![w] = @ - 1]
    BY <1>3, AnswerMeans
  <2>2. Cardinality(running[w] \ {s}) = wg[w] - 1
    <3>1. IsFiniteSet(running[w])  BY SinksAssumption, FS_Subset DEF TypeOK
    <3>2. Cardinality(running[w] \ {s}) = Cardinality(running[w]) - 1
      BY <2>1, <3>1, FS_RemoveElement
    <3> QED  BY <3>2 DEF DispatchInv
  <2>3. /\ running'[w] = running[w] \ {s} /\ wg'[w] = wg[w] - 1
        /\ \A v \in Workers \ {w} : running'[v] = running[v] /\ wg'[v] = wg[v]
    BY <2>1 DEF TypeOK
  <2>4. \A v \in Workers : /\ running'[v] \subseteq running[v] /\ wg'[v] = Cardinality(running'[v])
    BY <2>2, <2>3 DEF DispatchInv
  <2> QED  BY <2>1, <2>4 DEF DispatchInv
<1>4. ASSUME NEW w \in Workers, DispatchReturn(w) PROVE DispatchInv'
  <2>1. /\ wg[w] = 0 /\ alert' = [alert EXCEPT ![w] = 0]
        /\ UNCHANGED <<serving, taken, sinks, running, wg>>
    BY <1>4 DEF DispatchReturn, Dispatch!Return
  <2>2. running[w] = {}
    <3>1. IsFiniteSet(running[w])  BY SinksAssumption, FS_Subset DEF TypeOK
    <3> QED  BY <2>1, <3>1, FS_EmptySet DEF DispatchInv
  <2>3. alert'[w] = 0 /\ \A v \in Workers \ {w} : alert'[v] = alert[v]
    BY <2>1 DEF TypeOK
  <2> QED  BY <2>1, <2>2, <2>3 DEF DispatchInv
<1>5. CASE Close \/ Receive \/ Push \/ Aside
  <2>1. taken' = taken /\ (serving' = serving \/ serving') /\ UNCHANGED <<sinks, alert, running, wg>>
    BY <1>5 DEF Close, Buffer!Close, Receive, Push, Buffer!Accept, Buffer!Lose, Aside, Serve, Stop,
                Connection, Weather, EndOfRange, vars
  <2> QED  BY <2>1 DEF DispatchInv
<1> QED  BY <1>1, <1>2, <1>3, <1>4, <1>5, StepKinds

-----------------------------------------------------------------------------
(* An alert has been sent to the sinks whose goroutines are done.          *)
LEMMA SentStep == ASSUME TypeOK, FlowInv, DispatchInv, SentInv, [Next]_vars PROVE SentInv'
<1> DEFINE Due(i, s) == /\ i \in DOMAIN taken /\ taken[i] \in Alerting /\ s \in sinks
                        /\ \A w \in Workers : alert[w] = i => s \notin running[w]
<1>0. \A i \in 1..MaxMessages, s \in Sinks : sent[i][s] = IF Due(i, s) THEN 1 ELSE 0
  BY DEF SentInv
<1>1. CASE Register
  <2>1. taken = <<>> /\ UNCHANGED <<taken, sent>>
    BY <1>1 DEF Register, Dispatch!RegisterSink, DispatchInv
  <2> QED  BY <2>1 DEF SentInv
<1>2. ASSUME NEW w \in Workers, Take(w) PROVE SentInv'
  <2> DEFINE n == Len(taken) + 1
  <2>1. /\ alert[w] = 0 /\ UNCHANGED <<sinks, sent>> /\ running[w] = {} /\ n # 0
        /\ DOMAIN taken' = DOMAIN taken \cup {n} /\ taken'[n] = accepted[n] /\ n \notin DOMAIN taken
        /\ \A i \in DOMAIN taken : taken'[i] = taken[i]
        /\ \/ accepted[n] \in Alerting /\ Dispatch!Begin(w, n)
           \/ accepted[n] \notin Alerting /\ UNCHANGED <<alert, running, wg>>
    <3>1. /\ Len(taken) \in Nat /\ DOMAIN taken = 1..Len(taken)
          /\ taken' \in Seq(Events) /\ Len(taken') = n
      BY <1>2, TakeMeans, LenProperties DEF TypeOK
    <3>2. DOMAIN taken' = 1..n
      BY <3>1, LenProperties
    <3> QED  BY <1>2, <3>1, <3>2, TakeMeans DEF DispatchInv
  <2>0. \A v \in Workers : alert[v] # n
    BY <2>1 DEF DispatchInv
  <2> HIDE DEF n
  <2>2. ASSUME NEW i \in 1..MaxMessages, NEW s \in Sinks PROVE Due(i, s)' <=> Due(i, s)
    <3>1. CASE i = n
      <4>1. ~Due(n, s)
        BY <2>1
      <4>2. CASE accepted[n] \in Alerting /\ Dispatch!Begin(w, n)
        <5>1. alert'[w] = n /\ running'[w] = sinks
          BY <4>2, BeginMeans DEF TypeOK
        <5> QED  BY <2>1, <3>1, <4>1, <5>1
      <4>3. CASE accepted[n] \notin Alerting
        BY <2>1, <3>1, <4>1, <4>3
      <4> QED  BY <2>1, <4>2, <4>3
    <3>2. CASE i # n
      <4>1. (i \in DOMAIN taken' <=> i \in DOMAIN taken) /\ (i \in DOMAIN taken => taken'[i] = taken[i])
        BY <2>1, <3>2
      <4>2. \A v \in Workers : /\ alert'[v] = i <=> alert[v] = i
                               /\ alert[v] = i => running'[v] = running[v]
        <5>1. CASE UNCHANGED <<alert, running>>  BY <5>1
        <5>2. CASE Dispatch!Begin(w, n)
          <6>1. /\ alert'[w] = n /\ \A v \in Workers \ {w} :
                                        alert'[v] = alert[v] /\ running'[v] = running[v]
            BY <5>2, BeginMeans DEF TypeOK
          <6> QED  BY <2>1, <3>2, <6>1
        <5> QED  BY <2>1, <5>1, <5>2
      <4> QED  BY <2>1, <4>1, <4>2
    <3> QED  BY <3>1, <3>2
  <2> QED  BY <1>0, <2>1, <2>2 DEF SentInv
<1>3. ASSUME NEW w \in Workers, NEW s \in Sinks, SinkAnswers(w, s) PROVE SentInv'
  <2>1. /\ s \in running[w] /\ sent' = [sent EXCEPT ![alert[w]][s] = @ + 1]
        /\ running' = [running EXCEPT ![w] = @ \ {s}] /\ UNCHANGED <<taken, sinks, alert>>
    BY <1>3, AnswerMeans
  <2>2. /\ alert[w] # 0 /\ alert[w] \in 1..MaxMessages /\ alert[w] \in DOMAIN taken
        /\ taken[alert[w]] \in Alerting /\ s \in sinks
        /\ \A v \in Workers \ {w} : alert[v] # alert[w]
    BY <2>1 DEF DispatchInv, TypeOK
  <2>3. /\ running'[w] = running[w] \ {s}
        /\ \A v \in Workers \ {w} : running'[v] = running[v]
    BY <2>1 DEF TypeOK
  <2>4. ASSUME NEW i \in 1..MaxMessages, NEW t \in Sinks
        PROVE  sent'[i][t] = IF Due(i, t)' THEN 1 ELSE 0
    <3>1. CASE i = alert[w] /\ t = s
      <4>1. sent[i][t] = 0
        BY <1>0, <2>1, <3>1
      <4>2. sent'[i][t] = sent[i][t] + 1
        BY <2>1, <3>1 DEF TypeOK
      <4>3. Due(i, t)'
        BY <2>1, <2>2, <2>3, <3>1
      <4> QED  BY <4>1, <4>2, <4>3
    <3>2. CASE ~(i = alert[w] /\ t = s)
      <4>1. sent'[i][t] = sent[i][t]
        BY <2>1, <2>2, <3>2 DEF TypeOK
      <4>2. Due(i, t)' <=> Due(i, t)
        BY <2>1, <2>3, <3>2
      <4> QED  BY <1>0, <4>1, <4>2
    <3> QED  BY <3>1, <3>2
  <2> QED  BY <2>4 DEF SentInv
<1>4. ASSUME NEW w \in Workers, DispatchReturn(w) PROVE SentInv'
  <2>1. /\ wg[w] = 0 /\ alert' = [alert EXCEPT ![w] = 0]
        /\ UNCHANGED <<taken, sinks, running, sent>>
    BY <1>4 DEF DispatchReturn, Dispatch!Return
  <2>2. running[w] = {}
    <3>1. IsFiniteSet(running[w])  BY SinksAssumption, FS_Subset DEF TypeOK
    <3> QED  BY <2>1, <3>1, FS_EmptySet DEF DispatchInv
  <2>3. alert'[w] = 0 /\ \A v \in Workers \ {w} : alert'[v] = alert[v]
    BY <2>1 DEF TypeOK
  <2>4. \A i \in 1..MaxMessages, s \in Sinks : Due(i, s)' <=> Due(i, s)
    BY <2>1, <2>2, <2>3
  <2> QED  BY <1>0, <2>1, <2>4 DEF SentInv
<1>5. CASE Close \/ Receive \/ Push \/ Aside
  <2>1. UNCHANGED <<taken, sinks, alert, running, sent>>
    BY <1>5 DEF Close, Buffer!Close, Receive, Push, Buffer!Accept, Buffer!Lose, Aside, Serve, Stop,
                Connection, Weather, EndOfRange, vars
  <2> QED  BY <2>1 DEF SentInv
<1> QED  BY <1>1, <1>2, <1>3, <1>4, <1>5, StepKinds

-----------------------------------------------------------------------------
(* The waits, one after the other.                                         *)
Doubled(b) == Client!Least(2 * b, Client!MaxBackoff)

LEMMA FirstWait == Client!IsWait(1, Client!Interval)
<1> DEFINE wait == [i \in 1..1 |-> Client!Interval]
<1>1. wait \in [1..1 -> Client!Waits] /\ wait[1] = Client!Interval
  BY DEF Client!Waits
<1>2. \A i \in 1..(1 - 1) : wait[i + 1] = Client!Least(2 * wait[i], Client!MaxBackoff)
  OBVIOUS
<1> QED  BY <1>1, <1>2 DEF Client!IsWait

LEMMA NextWait ==
    ASSUME NEW n \in Nat \ {0}, NEW b \in Client!Waits, Client!IsWait(n, b)
    PROVE  Client!IsWait(n + 1, Doubled(b)) /\ Doubled(b) \in Client!Waits
<1>1. PICK wait \in [1..n -> Client!Waits] :
          /\ wait[1] = Client!Interval /\ wait[n] = b
          /\ \A i \in 1..(n - 1) : wait[i + 1] = Client!Least(2 * wait[i], Client!MaxBackoff)
  BY DEF Client!IsWait
<1>2. Doubled(b) \in Client!Waits
  BY Waits DEF Doubled, Client!Waits, Client!Least
<1> DEFINE longer == [i \in 1..(n + 1) |-> IF i = n + 1 THEN Doubled(b) ELSE wait[i]]
<1>3. longer \in [1..(n + 1) -> Client!Waits]
  BY <1>1, <1>2
<1>4. longer[1] = Client!Interval /\ longer[n + 1] = Doubled(b)
  BY <1>1
<1>5. ASSUME NEW i \in 1..((n + 1) - 1)
      PROVE  longer[i + 1] = Client!Least(2 * longer[i], Client!MaxBackoff)
  <2>1. CASE i = n
    BY <1>1, <2>1 DEF Doubled
  <2>2. CASE i # n
    <3>1. i \in 1..(n - 1) /\ i + 1 \in 1..n  BY <2>2
    <3>2. longer[i] = wait[i] /\ longer[i + 1] = wait[i + 1]  BY <3>1
    <3> QED  BY <1>1, <3>1, <3>2
  <2> QED  BY <2>1, <2>2
<1> HIDE DEF longer
<1> QED  BY <1>2, <1>3, <1>4, <1>5 DEF Client!IsWait

(* Where the history stops counting the wait has reached the maximum, and  *)
(* the next is that again.                                                 *)
LEMMA CountedWait ==
    ASSUME NEW n \in 1..MaxFailures, NEW b \in Client!Waits, Client!IsWait(n, b)
    PROVE  Client!IsWait(Client!Least(n + 1, MaxFailures), Doubled(b))
<1>1. CASE n < MaxFailures
  <2>1. Client!Least(n + 1, MaxFailures) = n + 1  BY <1>1 DEF Client!Least
  <2> QED  BY <2>1, NextWait
<1>2. CASE n = MaxFailures
  <2>1. b = Client!MaxBackoff  BY <1>2, HistoryAssumption
  <2>2. Doubled(b) = b  BY <2>1, Waits DEF Doubled, Client!Least
  <2>3. Client!Least(n + 1, MaxFailures) = n  BY <1>2 DEF Client!Least
  <2> QED  BY <2>2, <2>3
<1> QED  BY <1>1, <1>2

LEMMA BackoffStep == ASSUME TypeOK, BackoffInv, [Next]_vars PROVE BackoffInv'
<1>0. failures \in 0..MaxFailures /\ backoff \in Nat \ {0} /\ Client!Interval \in Client!Waits
  BY DEF TypeOK, Client!ClientTypeOK, Client!Waits
<1>1. CASE Client!AttemptOver
  <2>1. at = "ended" /\ UNCHANGED <<message, cancelled>>
    BY <1>1 DEF Client!AttemptOver
  <2>2. CASE at' = "returned"
    BY <2>2 DEF BackoffInv, WaitFollowsFailures
  <2>3. CASE at' = "waiting" /\ long
    <3>1. failures' = 1 /\ backoff' = Client!Interval
      BY <1>1, <2>3 DEF Client!AttemptOver
    <3> QED  BY <2>3, <3>1, FirstWait DEF BackoffInv, WaitFollowsFailures
  <2>4. CASE at' = "waiting" /\ ~long
    <3>1. failures' = Client!Least(failures + 1, MaxFailures) /\ backoff' = backoff
      BY <1>1, <2>4 DEF Client!AttemptOver
    <3>2. CASE failures = 0
      <4>1. failures' = 1
        BY <3>1, <3>2 DEF Client!Least
      <4>2. backoff = Client!Interval
        BY <2>1, <3>2 DEF BackoffInv
      <4> QED  BY <2>4, <3>1, <4>1, <4>2, FirstWait DEF BackoffInv, WaitFollowsFailures
    <3>3. CASE failures # 0
      <4>1. PICK b \in Client!Waits : Client!IsWait(failures, b) /\ backoff = Doubled(b)
        BY <2>1, <3>3 DEF BackoffInv, Doubled
      <4>2. Client!IsWait(failures', backoff')
        BY <1>0, <3>1, <3>3, <4>1, CountedWait
      <4>3. failures' > 0
        BY <1>0, <3>1 DEF Client!Least
      <4> QED  BY <2>4, <4>2, <4>3 DEF BackoffInv, WaitFollowsFailures
    <3> QED  BY <3>2, <3>3
  <2> QED  BY <1>1, <2>2, <2>3, <2>4, Zenon DEF Client!AttemptOver
<1>2. CASE Client!WaitOver
  <2>1. /\ at = "waiting" /\ at' = "top" /\ failures' = failures
        /\ backoff' = Doubled(backoff)
    BY <1>2 DEF Client!WaitOver, Doubled
  <2>2. failures > 0 /\ Client!IsWait(failures, backoff)
    BY <2>1 DEF BackoffInv, WaitFollowsFailures
  <2>3. backoff \in Client!Waits
    BY <1>0, <2>2 DEF Client!IsWait
  <2> QED  BY <1>0, <2>1, <2>2, <2>3 DEF BackoffInv, WaitFollowsFailures, Doubled
<1>3. CASE UNCHANGED <<backoff, failures>> /\ (at' = at \/ (at # "waiting" /\ at' # "waiting" /\ at # "returned"))
  BY <1>3 DEF BackoffInv, WaitFollowsFailures
<1>4. CASE Client!WaitCancelled
  BY <1>4 DEF Client!WaitCancelled, BackoffInv, WaitFollowsFailures
<1>5. \/ Client!AttemptOver \/ Client!WaitOver \/ Client!WaitCancelled
      \/ UNCHANGED <<backoff, failures>> /\ (at' = at \/ (at # "waiting" /\ at' # "waiting" /\ at # "returned"))
  BY DEF Next, Register, Serve, Stop, Close, Connection, Weather, Receive, Push, Work, Take,
         SinkAnswers, DispatchReturn, EndOfRange, AtRest, vars, Client!Reconnect, Client!Attempt,
         Client!Cancel, Client!Open, Client!OpenFails, Client!StreamEnds, Client!Elapse,
         Client!Recv, Client!Proceed
<1> QED  BY <1>1, <1>2, <1>3, <1>4, <1>5

-----------------------------------------------------------------------------
LEMMA InitInv == ASSUME Init PROVE IInv
<1> USE DEF Init, Client!Init, Buffer!Init, Dispatch!Init
<1>1. TypeOK
  <2>1. Client!ClientTypeOK
    <3>1. backoff \in Nat \ {0}
      <4>1. backoff = Client!Interval  OBVIOUS
      <4> QED  BY <4>1, Waits
    <3>2. at = "top" /\ message = NoMessage /\ long = FALSE /\ cancelled = FALSE /\ failures = 0
      OBVIOUS
    <3> HIDE DEF Init, Client!Init
    <3>3. long \in BOOLEAN /\ cancelled \in BOOLEAN
      BY <3>2, Zenon
    <3>4. failures \in 0..MaxFailures
      <4>1. failures = 0  BY <3>2, Zenon
      <4> QED  BY <4>1
    <3>5. at # "received" /\ message \notin Messages /\ message \in Messages \cup {NoMessage}
      BY <3>2, NothingAssumption
    <3>6. at \in {"top", "opening", "streaming", "received", "ended", "waiting", "returned"}
      BY <3>2
    <3> QED  BY <3>1, <3>3, <3>4, <3>5, <3>6, Zenon DEF Client!ClientTypeOK
  <2>2. /\ alert \in [Workers -> 0..MaxMessages] /\ running \in [Workers -> SUBSET Sinks]
        /\ wg \in [Workers -> Nat] /\ sent \in [1..MaxMessages -> [Sinks -> Nat]]
    OBVIOUS
  <2>3. sinks \subseteq Sinks /\ messages \in 0..MaxMessages
    BY SinksAssumption
  <2>4. accepted \in Seq(Events) /\ taken \in Seq(Events) /\ parsed \in Seq(Events) /\ lost \in Nat
    OBVIOUS
  <2> QED  BY <2>1, <2>2, <2>3, <2>4 DEF TypeOK
<1>2. FlowInv
  <2>1. InFlight = 0 /\ parsed = <<>> /\ accepted = <<>> /\ taken = <<>> /\ lost = 0 /\ messages = 0
    BY DEF InFlight
  <2>2. \E place \in [DOMAIN accepted -> 1..(Len(parsed) - InFlight)] :
            \A i \in DOMAIN accepted :
                /\ accepted[i] = parsed[place[i]]
                /\ \A j \in DOMAIN accepted : i < j => place[i] < place[j]
    <3>1. DOMAIN accepted = {}  BY <2>1
    <3>2. [i \in {} |-> 0] \in [DOMAIN accepted -> 1..(Len(parsed) - InFlight)]  BY <3>1
    <3> QED  BY <3>1, <3>2
  <2>3. Len(parsed) = Len(accepted) + lost + InFlight /\ Len(parsed) <= messages
    BY <2>1
  <2>4. Len(taken) <= Len(accepted) /\ (InFlight = 1 => parsed[Len(parsed)] = Carried)
    BY <2>1
  <2> QED  BY <2>2, <2>3, <2>4, Zenon DEF FlowInv
<1>3. DispatchInv
  BY FS_EmptySet DEF DispatchInv
<1>4. SentInv
  BY DEF SentInv
<1>5. BackoffInv
  BY DEF BackoffInv, WaitFollowsFailures
<1> QED  BY <1>1, <1>2, <1>3, <1>4, <1>5 DEF IInv

THEOREM InvariantHolds == Spec => []IInv
<1>1. IInv /\ [Next]_vars => IInv'
  BY TypeStep, FlowStep, DispatchStep, SentStep, BackoffStep DEF IInv
<1> QED  BY InitInv, <1>1, PTL DEF Spec

(* Every variable keeps to its type, and the WaitGroup never falls below   *)
(* zero, where Go would panic.                                             *)
THEOREM TypeCorrect == Spec => []TypeOK
<1>1. IInv => TypeOK
  BY DEF IInv
<1> QED  BY <1>1, InvariantHolds, PTL

(* No event is forgotten, pushed twice or overtaken between Tetragon's     *)
(* stream and the buffer, over any number of connections                   *)
(* (client.go:119-140).                                                    *)
THEOREM OnceInOrder == Spec => []ReceivedOnceInOrder
<1>1. ASSUME IInv PROVE ReceivedOnceInOrder
  <2>1. Len(parsed) \in Nat /\ DOMAIN parsed = 1..Len(parsed) /\ InFlight \in {0, 1}
    BY <1>1, LenProperties DEF IInv, TypeOK, InFlight
  <2>2. 1..(Len(parsed) - InFlight) \subseteq DOMAIN parsed
    BY <2>1
  <2>3. PICK place \in [DOMAIN accepted -> 1..(Len(parsed) - InFlight)] :
            \A i \in DOMAIN accepted :
                /\ accepted[i] = parsed[place[i]]
                /\ \A j \in DOMAIN accepted : i < j => place[i] < place[j]
    BY <1>1 DEF IInv, FlowInv
  <2>4. place \in [DOMAIN accepted -> DOMAIN parsed]
    BY <2>2, <2>3
  <2> QED  BY <1>1, <2>3, <2>4 DEF IInv, FlowInv, ReceivedOnceInOrder
<1> QED  BY <1>1, InvariantHolds, PTL

(* Whatever sinks fail or panic, an alert is sent to a sink at most once,  *)
(* and to all of them when its Dispatch has returned                       *)
(* (dispatcher.go:150-180).                                                *)
THEOREM SentOnce == Spec => []SentOnceToEverySink
<1>1. ASSUME IInv PROVE SentOnceToEverySink
  <2>1. \A i \in 1..MaxMessages, s \in Sinks : sent[i][s] <= 1
    BY <1>1 DEF IInv, SentInv
  <2>2. ASSUME NEW i \in DOMAIN taken, taken[i] \in Alerting,
               \A w \in Workers : alert[w] # i, NEW s \in sinks
        PROVE  sent[i][s] = 1
    <3>1. i \in 1..MaxMessages /\ s \in Sinks
      <4>1. /\ Len(taken) \in Nat /\ Len(accepted) \in Nat /\ Len(parsed) \in Nat
            /\ DOMAIN taken = 1..Len(taken) /\ InFlight \in {0, 1}
        BY <1>1, LenProperties DEF IInv, TypeOK, InFlight
      <4>2. Len(taken) <= MaxMessages
        BY <1>1, <4>1 DEF IInv, FlowInv, TypeOK
      <4> QED  BY <1>1, <2>2, <4>1, <4>2 DEF IInv, TypeOK
    <3> QED  BY <1>1, <2>2, <3>1 DEF IInv, SentInv
  <2> QED  BY <2>1, <2>2 DEF SentOnceToEverySink
<1> QED  BY <1>1, InvariantHolds, PTL

(* The client never waits longer nor shorter than its failures in a row    *)
(* ask for, whatever the interval and the maximum (client.go:56, 82-95).   *)
THEOREM WaitsAsFailed == Spec => []WaitFollowsFailures
<1>1. IInv => WaitFollowsFailures
  BY DEF IInv, BackoffInv
<1> QED  BY <1>1, InvariantHolds, PTL
=============================================================================
