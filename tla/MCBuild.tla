------------------------------ MODULE MCBuild ------------------------------
(* base, ext, the tests and what the crypto option stands for.             *)
EXTENDS Bootstrap

Dep(m) == [tag |-> "dep", value |-> m]
MCModules == {"base", "ext", "third/openssl", "test"}
MCLines ==
  "base" :> <<>> @@ "ext" :> <<Dep("base")>> @@ "third/openssl" :> <<Dep("ext"), Dep("base")>> @@
  "test" :> <<[tag |-> "exec", value |-> "main"], [tag |-> "option", value |-> "crypto"],
              [tag |-> "option", value |-> "ext"], [tag |-> "option", value |-> "base"]>>
MCSources ==
  "base" :> {"b"} @@ "ext" :> {"e1", "e2"} @@ "third/openssl" :> {"o"} @@ "test" :> {"main"}
MCOptionSources ==
  "base" :> <<>> @@ "ext" :> <<>> @@ "third/openssl" :> <<>> @@ "test" :> ("ext" :> {"t"})
MCHeaders == "base" :> {} @@ "ext" :> {"eh"} @@ "third/openssl" :> {} @@ "test" :> {}
MCMember == [f \in {"b", "e1", "e2", "o", "main", "t", "eh"} |-> f]

ASSUME MCAssumption == SameSources
=============================================================================
