---------------------------- MODULE MCPolicyReload ----------------------------
(* Small instances of PolicyReload: the risk policy of the repository, two *)
(* spellings of one binary and of one parent, a whitelist that names a     *)
(* parent twice, and overrides for a parent of the whitelist and for one   *)
(* that is not in it.  A write to /etc scores 70.0 from an unknown lineage *)
(* member, red for one configuration and green for another; a scan scores  *)
(* 62.5, green up to 62.                                                   *)
EXTENDS PolicyReload, TLC

CONSTANT w1

OneWorker == {w1}

BaseNames == ("nginx" :> "nginx") @@ ("/usr/sbin/nginx" :> "nginx") @@ ("java" :> "java")
             @@ ("/bin/tee" :> "tee") @@ ("/usr/bin/tee" :> "tee") @@ ("nmap" :> "nmap")

Tier(names, points) == [namespaces |-> names, score |-> points]

RiskPolicy == \* config/risk_scoring_policy.yaml
    [weights  |-> [severity |-> 50, context |-> 30, asset |-> 20],
     severity |-> ("reverse_shell" :> 100) @@ ("chmod_suid" :> 90) @@ ("curl_download" :> 80)
                  @@ ("bash_spawn" :> 70) @@ ("file_write_etc" :> 60) @@ ("nmap_scan" :> 85)
                  @@ ("default" :> 20),
     context  |-> ("NORMAL" :> 0) @@ ("SUSPICIOUS" :> 50) @@ ("ANOMALOUS" :> 100),
     tiers    |-> <<Tier({"database", "secrets", "auth"}, 100), Tier({"api", "messaging"}, 75),
                    Tier({"backend"}, 50), Tier({"frontend", "static"}, 25)>>,
     defaultAsset |-> 50]

Write == [parent |-> "nginx", child |-> "/bin/tee", matches |-> {"file_write_etc"}, type |-> "kprobe",
          namespace |-> "shop"]
Scan  == [parent |-> "java", child |-> "nmap", matches |-> {"nmap_scan"}, type |-> "execve",
          namespace |-> "frontend"]

SomeEvents == {Write, Scan}

Entry(p, cs) == [parent |-> p, children |-> cs]

Plain     == <<Entry("nginx", {"nmap"})>>
Twice     == <<Entry("nginx", {"/bin/tee"}), Entry("/usr/sbin/nginx", {"nmap"})>>
Overrides == <<Entry("nginx", {"/usr/bin/tee"}), Entry("java", {"nmap"})>>

SomeAutoFiles   == {Plain, Twice, Missing, Corrupt}
SomeManualFiles == {Overrides, Missing, Corrupt}
FewAutoFiles    == {Plain, Missing}
FewManualFiles  == {Overrides, Missing}

Limits(g, y) == [green |-> g, yellow |-> y]

SomeConfigs == {Limits(39, 69), Limits(70, 90), Limits(62, 50), Limits(0, 0), Corrupt}
FewConfigs  == {Limits(39, 69), Limits(50, 80), Limits(70, 60)}
=============================================================================
