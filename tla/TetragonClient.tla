---------------------------- MODULE TetragonClient ----------------------------
(***************************************************************************)
(* The goroutine that reads Tetragon's event stream,                       *)
(* src/pkg/collector/client.go: Start with its reconnect loop, and         *)
(* streamEvents.  What becomes of a message is not said here: the client   *)
(* holds the one it received until it is ready for the next.               *)
(*                                                                         *)
(* Durations are whole seconds.  The length of an attempt matters only as  *)
(* to whether it lasted long enough for the backoff to start afresh.       *)
(***************************************************************************)
EXTENDS Integers

CONSTANTS ReconnectInterval,   \* as configured; 1 in main
          MaxReconnectBackoff, \* as configured; 10 in main
          DefaultInterval,     \* what NewClient puts for one that is not positive
          DefaultMaxBackoff,
          Messages,            \* what Tetragon may send
          NoMessage,           \* nothing received yet, or done with it
          MaxFailures          \* the history counts no further

VARIABLES at,        \* where the goroutine is
          backoff,   \* the local of Start
          long,      \* five seconds have passed since the attempt began
          message,   \* what the last Recv returned
          cancelled, \* the context Start was called with is cancelled
          failures   \* history: attempts in a row that ended early, the last included

Interval   == IF ReconnectInterval <= 0 THEN DefaultInterval ELSE ReconnectInterval
MaxBackoff == IF MaxReconnectBackoff <= 0 THEN DefaultMaxBackoff ELSE MaxReconnectBackoff

Least(m, n) == IF m <= n THEN m ELSE n

(* b is the n-th of the waits between attempts that end early, of which    *)
(* the first is the interval and each of the others twice the one before,  *)
(* but never more than the maximum.                                        *)
Waits == {Interval} \cup 1..MaxBackoff
IsWait(n, b) == \E wait \in [1..n -> Waits] :
    /\ wait[1] = Interval /\ wait[n] = b
    /\ \A i \in 1..(n - 1) : wait[i + 1] = Least(2 * wait[i], MaxBackoff)

Init == /\ at = "top" /\ backoff = Interval /\ long = FALSE
        /\ message = NoMessage /\ cancelled = FALSE /\ failures = 0

Goto(from, to) == at = from /\ at' = to

(* main cancels the context. *)
Cancel == /\ ~cancelled /\ cancelled' = TRUE
          /\ UNCHANGED <<at, backoff, long, message, failures>>

-----------------------------------------------------------------------------
(* The loop of Start.  A name with an underscore is a plausible slip in    *)
(* the definition that follows it; the properties are tried on it.         *)

Attempt == /\ Goto("top", IF cancelled THEN "returned" ELSE "opening")
           /\ long' = FALSE
           /\ UNCHANGED <<backoff, message, cancelled, failures>>

(* streamEvents has returned. *)
AttemptOver_NeverReset ==
    /\ Goto("ended", IF cancelled THEN "returned" ELSE "waiting")
    /\ failures' = IF long THEN 1 ELSE Least(failures + 1, MaxFailures)
    /\ UNCHANGED <<backoff, long, message, cancelled>>

AttemptOver_GivesUp ==
    /\ Goto("ended", IF cancelled \/ failures = MaxFailures THEN "returned" ELSE "waiting")
    /\ backoff' = IF long /\ ~cancelled THEN Interval ELSE backoff
    /\ failures' = IF long THEN 1 ELSE Least(failures + 1, MaxFailures)
    /\ UNCHANGED <<long, message, cancelled>>

AttemptOver ==
    /\ Goto("ended", IF cancelled THEN "returned" ELSE "waiting")
    /\ backoff' = IF long /\ ~cancelled THEN Interval ELSE backoff
    /\ failures' = IF long THEN 1 ELSE Least(failures + 1, MaxFailures)
    /\ UNCHANGED <<long, message, cancelled>>

(* The timer may win even when the context is cancelled: select chooses    *)
(* either.                                                                 *)
WaitOver == /\ Goto("waiting", "top")
            /\ backoff' = Least(2 * backoff, MaxBackoff)
            /\ UNCHANGED <<long, message, cancelled, failures>>

WaitCancelled == /\ cancelled
                 /\ Goto("waiting", "returned")
                 /\ UNCHANGED <<backoff, long, message, cancelled, failures>>

-----------------------------------------------------------------------------
(* streamEvents *)

Open == /\ Goto("opening", "streaming")
        /\ UNCHANGED <<backoff, long, message, cancelled, failures>>

(* The stream cannot be opened: no socket, refused, cancelled. *)
OpenFails == /\ Goto("opening", "ended")
             /\ UNCHANGED <<backoff, long, message, cancelled, failures>>

(* Recv returns a message, for what it buffered even after cancellation.   *)
Recv == /\ Goto("streaming", "received")
        /\ message' \in Messages
        /\ UNCHANGED <<backoff, long, cancelled, failures>>

(* Recv returns io.EOF or an error. *)
StreamEnds == /\ Goto("streaming", "ended")
              /\ UNCHANGED <<backoff, long, message, cancelled, failures>>

(* What was received has been skipped or pushed. *)
Proceed == /\ Goto("received", "streaming")
           /\ message' = NoMessage
           /\ UNCHANGED <<backoff, long, cancelled, failures>>

(* Five seconds have passed, whether the stream was open or being opened.  *)
Elapse == /\ at \in {"opening", "streaming"} /\ ~long
          /\ long' = TRUE
          /\ UNCHANGED <<at, backoff, message, cancelled, failures>>

Reconnect == \/ Attempt \/ AttemptOver \/ WaitOver \/ WaitCancelled

-----------------------------------------------------------------------------
ClientTypeOK ==
    /\ at \in {"top", "opening", "streaming", "received", "ended", "waiting", "returned"}
    /\ backoff \in Nat \ {0} /\ failures \in 0..MaxFailures
    /\ long \in BOOLEAN /\ cancelled \in BOOLEAN
    /\ message \in Messages \cup {NoMessage}
    /\ (at = "received") <=> (message \in Messages)
=============================================================================
