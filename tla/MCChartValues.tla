---------------------------- MODULE MCChartValues ----------------------------
(***************************************************************************)
(* The gateways to start from: one that writes only what is required and   *)
(* one that writes everything, each with either storage and transport.     *)
(***************************************************************************)
EXTENDS ChartValues

Redis == Async \o <<"redis">>
SQL   == Async \o <<"sql">>
S3    == <<"fileStorage", "s3">>
FS    == <<"fileStorage", "fs">>

\* Storage, transport and certificate are alternatives.
Without(ps) == {p \in Sections : \A q \in ps : ~IsPrefix(q, p)}

Minimal(storage, transport) ==
  [p \in Workloads \cup {<< >>, <<"fileStorage">>, storage, transport}
     |-> EmptySection(p)]

Full(without) ==
  [p \in Without(without) |->
     [f \in DOMAIN Fields[p] |->
        IF p = <<"tls">> /\ f = "secretName"
           /\ <<"tls", "certManager">> \notin without THEN "absent"
        ELSE IF Fields[p][f] = "json" THEN "text" ELSE "set"]]

Repo(name) == <<"quay.io", "/", name>>
Port(name) == <<"registry", ":", "5000", "/", name>>

\* With a tag, with a digest, with both, and without either.
Images(Form(_)) == [apiserver |-> Form("api"), processor |-> Form("proc"),
                    gc |-> Form("gc"), async |-> Form("async")]
TagForm(name)    == Repo(name) \o <<":", "v1">>
DigestForm(name) == Port(name) \o <<"@", "sha256", ":", "abc">>
BothForm(name)   == Port(name) \o <<":", "v1", "@", "sha256", ":", "abc">>
BareForm(name)   == Port(name)

AllStarts ==
  {[manifest |-> Minimal(S3, Redis), images |-> Images(TagForm),
    profile |-> "", secret |-> "own", maxEdits |-> 2],
   [manifest |-> Minimal(FS, SQL), images |-> Images(DigestForm),
    profile |-> "modern", secret |-> "copy", maxEdits |-> 2],
   [manifest |-> Full({FS, SQL, Append(Redis, "queuesConfig")}),
    images |-> Images(BothForm), profile |-> "modern", secret |-> "copy", maxEdits |-> 2],
   [manifest |-> Full({S3, Redis, <<"tls", "certManager">>}),
    images |-> Images(BareForm), profile |-> "", secret |-> "own", maxEdits |-> 1]}
===============================================================================
