---------------------------- MODULE MCAlertDelivery ----------------------------
(* A small instance of AlertDelivery: a process of a pod that deserves an  *)
(* alert, one that does not, a process of the host and a message without   *)
(* one.  The backoff doubles from 2 to a maximum of 5, which it overshoots.   *)
EXTENDS AlertDelivery

Process(namespace, binary) == [namespace |-> namespace, pod |-> "web", workload |-> "web",
                               binary |-> binary, args |-> {}]

Message(kind, process, strings) == [kind |-> kind, process |-> process,
                                    parent |-> "nginx", strings |-> strings]

Shell     == Message("process_exec", Process("api", "sh"), {})
Passwd    == Message("process_kprobe", Process("api", "cat"), {"/etc/"})
Host      == Message("process_exec", Process("", "sh"), {})
Throttle  == Message("process_throttle", NoProcess, {})

MCMessages == {Shell, Passwd, Host, Throttle}
MCAlerting == {Parse!Parse(Shell)}
=============================================================================
