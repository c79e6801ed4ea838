------------------------------ MODULE Dispatcher ------------------------------
(***************************************************************************)
(* The alert dispatcher, src/pkg/decision/dispatcher.go: a call of         *)
(* Dispatch starts one goroutine for every registered sink and returns     *)
(* when each of them is done.  A sink accepts the alert, answers with an   *)
(* error (a timeout and a status that is not 2xx are errors) or panics;    *)
(* the goroutine recovers, and its WaitGroup is told in every case.        *)
(*                                                                         *)
(* The lock of the list of sinks is held for the copying only, so a        *)
(* registration and the beginning of a Dispatch are one step each.         *)
(***************************************************************************)
EXTENDS Integers, FiniteSets

CONSTANTS Callers, \* goroutines that call Dispatch
          Sinks,   \* what may be registered
          Alerts,  \* what may be dispatched
          NoAlert  \* the caller dispatches nothing

VARIABLES sinks,   \* d.sinks: who is registered
          alert,   \* the argument of each caller's Dispatch
          running, \* the sinks each caller's goroutines are sending to
          wg,      \* the counter of its WaitGroup
          sent     \* history: calls of Send, by alert and sink

(* NewDispatcher registers the sinks it is given. *)
Init(initial) == /\ sinks = initial
                 /\ alert = [c \in Callers |-> NoAlert]
                 /\ running = [c \in Callers |-> {}]
                 /\ wg = [c \in Callers |-> 0]
                 /\ sent = [a \in Alerts |-> [s \in Sinks |-> 0]]

RegisterSink(s) == /\ s \in Sinks \ sinks
                   /\ sinks' = sinks \cup {s}
                   /\ UNCHANGED <<alert, running, wg, sent>>

(* A name with an underscore is a plausible slip in the definition that    *)
(* follows it; the properties are tried on it.                             *)
Begin_CountsOne(c, a) ==
    /\ alert' = [alert EXCEPT ![c] = a]
    /\ running' = [running EXCEPT ![c] = sinks]
    /\ wg' = [wg EXCEPT ![c] = 1]
    /\ UNCHANGED <<sinks, sent>>

Begin(c, a) == /\ alert' = [alert EXCEPT ![c] = a]
               /\ running' = [running EXCEPT ![c] = sinks]
               /\ wg' = [wg EXCEPT ![c] = Cardinality(sinks)]
               /\ UNCHANGED <<sinks, sent>>

Done(c, s) == /\ running' = [running EXCEPT ![c] = @ \ {s}]
              /\ wg' = [wg EXCEPT ![c] = @ - 1]

(* Send returns, with or without an error; it is tried once. *)
Send_RetriesOnError(c, s) ==
    /\ s \in running[c]
    /\ sent' = [sent EXCEPT ![alert[c]][s] = @ + 1]
    /\ Done(c, s) \/ (sent[alert[c]][s] = 0 /\ UNCHANGED <<running, wg>>)
    /\ UNCHANGED <<sinks, alert>>

Send(c, s) == /\ s \in running[c]
              /\ sent' = [sent EXCEPT ![alert[c]][s] = @ + 1]
              /\ Done(c, s)
              /\ UNCHANGED <<sinks, alert>>

(* Send panics: the deferred functions recover, then call wg.Done. *)
Panic_SkipsDone(c, s) ==
    /\ s \in running[c]
    /\ sent' = [sent EXCEPT ![alert[c]][s] = @ + 1]
    /\ running' = [running EXCEPT ![c] = @ \ {s}]
    /\ UNCHANGED <<sinks, alert, wg>>

Panic_EndsDispatch(c, s) ==
    /\ s \in running[c]
    /\ sent' = [sent EXCEPT ![alert[c]][s] = @ + 1]
    /\ running' = [running EXCEPT ![c] = {}]
    /\ wg' = [wg EXCEPT ![c] = 0]
    /\ UNCHANGED <<sinks, alert>>

Panic(c, s) == /\ s \in running[c]
               /\ sent' = [sent EXCEPT ![alert[c]][s] = @ + 1]
               /\ Done(c, s)
               /\ UNCHANGED <<sinks, alert>>

(* wg.Wait returns. *)
Return(c) == /\ alert[c] # NoAlert /\ wg[c] = 0
             /\ alert' = [alert EXCEPT ![c] = NoAlert]
             /\ UNCHANGED <<sinks, running, wg, sent>>
=============================================================================
