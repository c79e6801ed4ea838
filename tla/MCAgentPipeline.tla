--------------------------- MODULE MCAgentPipeline ---------------------------
(* Small instances of AgentPipeline.  An agent that decides meets one      *)
(* event of each kind the workers tell apart, two of them about the same   *)
(* pod; one that only learns meets lineages over time, not in order.       *)
EXTENDS AgentPipeline, TLC

Event(ns, pod, type, parent, child, time, class, action) ==
    [namespace |-> ns, pod |-> pod, workload |-> pod, type |-> type, parent |-> parent,
     child |-> child, time |-> time, class |-> class, action |-> action]

Exempt     == Event("kube-system", "dns", "execve", "init", "dns", 0, "ANOMALOUS", "AUTO_CONTAINMENT")
Monitoring == Event("monitoring", "scraper", "execve", "init", "sh", 0, "ANOMALOUS", "AUTO_CONTAINMENT")
Normal     == Event("api", "web", "execve", "nginx", "worker", 0, "NORMAL", "AUTO_CONTAINMENT")
Exit       == Event("api", "web", "exit", "nginx", "sh", 1, "ANOMALOUS", "AUTO_CONTAINMENT")
Yellow     == Event("api", "db", "execve", "postgres", "cp", 0, "SUSPICIOUS", "LOG_AND_ALERT")
Red        == Event("api", "web", "execve", "nginx", "sh", 0, "ANOMALOUS", "AUTO_CONTAINMENT")
RedAgain   == Event("api", "web", "kprobe", "nginx", "worker", 2, "NORMAL", "AUTO_CONTAINMENT")
Green      == Event("api", "db", "kprobe", "postgres", "cp", 1, "SUSPICIOUS", "ALLOW_AND_LOG")

Later      == Event("api", "web", "execve", "nginx", "worker", 2, "NORMAL", "AUTO_CONTAINMENT")
Elsewhere  == Event("api", "db", "execve", "nginx", "worker", 0, "NORMAL", "AUTO_CONTAINMENT")
Orphan     == Event("api", "web", "execve", ".", "sh", 0, "SUSPICIOUS", "LOG_AND_ALERT")

Deciding == {Exempt, Monitoring, Normal, Exit, Yellow, Red, RedAgain, Green}

MCEvents == Deciding \cup {Later, Elsewhere, Orphan}

File(asked, auto) == [mode |-> asked, exclude |-> {"monitoring"}, autoGenerate |-> auto]

(* A first run knows nothing; an earlier one may have left a lineage seen  *)
(* once, one it would have trusted, and one seen often in a short time.    *)
New == [total |-> 0, patterns |-> [key \in {} |-> 0]]

Seen(count, first, last) == [count |-> count, first |-> first, last |-> last]

Earlier == [total |-> 6, patterns |-> Discovery!Key(Later)  :> Seen(1, -1, -1) @@
                                      Discovery!Key(Yellow) :> Seen(2, -4, -2) @@
                                      Discovery!Key(Red)    :> Seen(2, 0, 1)]

Launch(file, flag, baseline) == [file |-> file, flag |-> flag, baseline |-> baseline]

Sends(events, count, losses) == [events |-> events, count |-> count, losses |-> losses]

MCTraffic ==
    Launch(File("", TRUE), "", New)     :> Sends({Normal, Later, Red, Elsewhere}, 3, 0) @@
    Launch(File("", TRUE), "", Earlier) :> Sends({Normal, Later, Red, Elsewhere}, 2, 0) @@
    Launch(File("enforcement", FALSE), "discovery", New) :> Sends({Monitoring, Red, Orphan}, 1, 1) @@
    Launch(File("enforce", TRUE), "shadow", Earlier) :> Sends({Monitoring, Orphan, Later, Exit}, 2, 0) @@
    Launch(File("discovery", TRUE), "enforcement", Earlier) :> Sends(Deciding, 2, 1) @@
    Launch(NotLoading, "enforcement", New) :> Sends({Exempt, Monitoring, Red}, 2, 0)

MCLaunches == DOMAIN MCTraffic

(* The mode of the file is misspelt, and the flag asks for enforcement.    *)
MisspeltTraffic ==
    Launch(File("enforce", TRUE), "enforcement", New) :> Sends({Monitoring, Red}, 1, 0)

MisspeltLaunches == DOMAIN MisspeltTraffic

MCLevels == [always |-> 4, mostly |-> 3, often |-> 2, some |-> 1]
=============================================================================
