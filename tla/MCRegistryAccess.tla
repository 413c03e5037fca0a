-------------------------- MODULE MCRegistryAccess --------------------------
(* Three registries: one nobody knows, one with a handler, Docker's.       *)
EXTENDS RegistryAccess, TLC

MCHosts        == {"acme", "ghcr", "index.docker.io"}
MCHubAliases   == <<"docker.io", "https://index.docker.io/v1/">>
MCWithScheme   == [r \in MCHosts |-> "https://" \o r]
MCKnown        == ("ghcr" :> "github") @@ ("index.docker.io" :> "")
MCDefaultScope == ("github" :> "packages")
MCDefaultFiles == <<"config", "runtime">>

None   == <<>>   \* a file without entries, or none
Nobody == [a \in {"scafctl", "cldctl"} |-> None]
Base ==
    [registries |-> Nobody, config |-> Nobody, docker |-> {},
     auths |-> [f \in {"own", "config", "runtime"} |-> None]]
Entry(name, file, username) == (name :> [file |-> file, username |-> username])
Mapped(name, handler, username) == (name :> [handler |-> handler, username |-> username])

(* The store in each place and under each name; docker; the host's map.    *)
MCDisks ==
    {Base,
     [Base EXCEPT !.registries["scafctl"] = Entry("acme", "own", "u"),
                  !.auths["own"] = ("acme" :> "usable"),
                  !.auths["config"] = ("https://index.docker.io/v1/" :> "usable")],
     [Base EXCEPT !.registries["scafctl"] = Entry("ghcr", "config", "u"),
                  !.registries["cldctl"] = Entry("acme", "own", "u"),
                  !.auths["own"] = ("https://acme" :> "usable"),
                  !.auths["config"] = ("ghcr" :> "undecodable") @@ ("https://ghcr" :> "usable"),
                  !.docker = {"ghcr"}],
     [Base EXCEPT !.registries["cldctl"] = Entry("docker.io", "own", "")
                                           @@ Entry("acme-oauth", "", "u"),
                  !.auths["own"] = ("docker.io" :> "usable"),
                  !.auths["runtime"] = ("ghcr" :> "usable"),
                  !.config["scafctl"] = Mapped("acme", "acme-quay", "robot"),
                  !.config["cldctl"] = Mapped("acme", "acme-oauth", ""),
                  !.docker = {"index.docker.io"}]}

MCSettings ==
    {None,
     [registry |-> "acme", username |-> "u", password |-> "acme", scope |-> "s"],
     [registry |-> "docker.io", username |-> "u", password |-> "docker.io",
      authHandler |-> "acme-quay", insecure |-> TRUE]}

Number(kind, n) == [kind |-> kind, n |-> n, whole |-> TRUE]
Map(a, b, m) == [kind |-> "map", attempts |-> a, backoff |-> b, maxBackoff |-> m]
Other == [kind |-> "other"]
(* The limits of an int, what overflows them, and what is no number.       *)
MCRetries ==
    {[kind |-> "bool", b |-> b] : b \in BOOLEAN}
    \cup {Number(k, n) : k \in {"int", "float", "text"}, n \in {-8, -1, 0, 1, 4, 7, 8, 9}}
    \cup {[kind |-> "float", n |-> 1, whole |-> FALSE], Other, [kind |-> "duration", ns |-> 1]}
    \cup {Map(a, b, m) : a \in {Absent, Number("int", 4), Number("float", 8), Other},
                         b \in {Absent, [kind |-> "duration", ns |-> 1],
                                Number("int", 3), Number("int", 4), Number("float", 4), Other},
                         m \in {Absent, Number("int", 2), Number("text", 2)}}

Once == Number("int", 1)
MCInputs ==
    [ref : MCHosts, retry : {Once}, identity : {"key"}]
    \cup [ref : {"ghcr"}, retry : {Once}, identity : {"ambient", "handler"}]
    \cup [ref : {"acme"}, retry : MCRetries, identity : {"key"}]

(* The retry inputs are told apart where nothing else varies.              *)
RetriesAlone ==
    in.retry = Once \/ (disk = Base /\ configurations = 0)
(* An identity depends on the settings, not on the credential files.       *)
IdentitiesAlone == in.identity = "key" \/ disk = Base
=============================================================================
