---------------------------- MODULE MCSecretSync ----------------------------
(***************************************************************************)
(* Small instances of SecretSync: the gateway lives in "apps", the Secrets *)
(* it may refer to in "vault" or in its own namespace.                     *)
(***************************************************************************)
EXTENDS SecretSync

MainRef  == [ns |-> "vault", name |-> "main"]
SpareRef == [ns |-> "vault", name |-> "spare"]
LocalRef == [ns |-> "", name |-> "local"]

From(namespace) == {[group |-> "batch.llm-d.ai", kind |-> "LLMBatchGateway",
                     namespace |-> namespace]}
Secrets(name)   == {[group |-> "", kind |-> "Secret", name |-> name]}

\* Any Secret of "vault"; only "main"; only "main", but for another namespace;
\* and one of the gateway's own namespace, where no grant is looked for.
AnySecret    == [ns |-> "vault", from |-> From("apps"), to |-> Secrets("*")]
OnlyMain     == [ns |-> "vault", from |-> From("apps"), to |-> Secrets("main")]
OtherGateway == [ns |-> "vault", from |-> From("labs"), to |-> Secrets("main")]
OwnNamespace == [ns |-> "apps", from |-> From("apps"), to |-> Secrets("*")]

OneRef    == {MainRef}
TwoRefs   == {MainRef, SpareRef}
MixedRefs == {MainRef, LocalRef}
AllRefs   == {MainRef, SpareRef, LocalRef}
AnyGrant  == {AnySecret}
Narrow    == {OnlyMain, OtherGateway}
AllGrants == {AnySecret, OnlyMain, OtherGateway, OwnNamespace}
=============================================================================
