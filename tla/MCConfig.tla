------------------------------- MODULE MCConfig -------------------------------
(* Two pods, two clients, three scans and two registries for the model checker. *)
EXTENDS ConfigStore, TLC

CONSTANTS p1, p2, c1, c2, uiScan, harborScan, garbledScan

TwoPods    == {p1, p2}
TwoClients == {c1, c2}
ThreeScans == {uiScan, harborScan, garbledScan}

TwoProxies    == {"direct", "proxy"}
TwoRegistries == {"quay", "ghcr"}
AllSecrets    == {"first", "second", "changed", "mounted", "from ui", "from harbor"}
Changed       == {"changed"}

MountedSecret == "ghcr" :> [named |-> FALSE, password |-> "", auth |-> "mounted"]

Stored(authority, password) ==
    [authority |-> authority, password |-> password, source |-> "ui"]

\* One authority twice, as a client may store it.
Earlier == [proxy |-> "direct", auths |-> <<Stored("quay", "first"), Stored("quay", "second")>>]

SomeEdits ==
    {[change |-> "nothing"]}
    \union {[change |-> "proxy", to |-> proxy] : proxy \in TwoProxies}
    \union {[change |-> "add", of |-> "ghcr", to |-> "changed"],
            [change |-> "password", entry |-> 1, to |-> "changed"],
            [change |-> "rename", entry |-> 2, to |-> "ghcr"],
            [change |-> "remove", entry |-> 2]}

Requests ==
    uiScan :> [from |-> "ui", auth |-> [authority |-> "quay", secret |-> "from ui"]]
 @@ harborScan :> [from |-> "harbor", host |-> "ghcr",
               header |-> [scheme |-> "Basic", decodes |-> TRUE, secret |-> "from harbor"]]
 @@ garbledScan :> [from |-> "harbor", host |-> "quay",
                header |-> [scheme |-> "Basic", decodes |-> FALSE, secret |-> ""]]

Symmetric == Permutations(TwoPods) \union Permutations(TwoClients)
=============================================================================
