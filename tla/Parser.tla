-------------------------------- MODULE Parser --------------------------------
(***************************************************************************)
(* What the agent makes of a message of Tetragon's event stream,           *)
(* src/pkg/collector/parser.go: a security event, or nothing.              *)
(*                                                                         *)
(* A message is a record [kind, process, parent, strings]: the member of   *)
(* the oneof that is set, its process [namespace, pod, workload, binary,   *)
(* args] or NoProcess, the binary of the parent, and the string arguments  *)
(* of a kprobe.  A process outside Kubernetes has the empty namespace.     *)
(* Arguments are the set of markers the risk engine looks for.             *)
(***************************************************************************)
CONSTANTS NoProcess, \* the message names no process
          NilEvent   \* Parse returned nil

TypeOf == [process_exec   |-> "execve",
           process_exit   |-> "exit",
           process_kprobe |-> "kprobe"]

(* Throttling and loader messages, empty ones and processes of the host    *)
(* itself are skipped.                                                     *)
Relevant(m) == /\ m.kind \in DOMAIN TypeOf
               /\ m.process # NoProcess
               /\ m.process.namespace # ""

Arguments(m) == m.process.args \cup (IF m.kind = "process_kprobe" THEN m.strings ELSE {})

Parse(m) ==
    IF ~Relevant(m) THEN NilEvent
    ELSE [type |-> TypeOf[m.kind], namespace |-> m.process.namespace,
          pod |-> m.process.pod, workload |-> m.process.workload,
          parent |-> m.parent, child |-> m.process.binary, args |-> Arguments(m)]
=============================================================================
