---------------------------- MODULE ExpandUnits_MC ----------------------------
(* A KRC (argo), an SRC (decl), a provider (kc) and a consumer (app) of one   *)
(* capability.  The platform repository selects any of them, named with and   *)
(* without {{.Env}}; up to two environment repositories, one more generic     *)
(* repository and a service repository go with it, alone or on top of a base. *)
(* A realm and a job selected together depend on each other.                  *)
EXTENDS ExpandUnits

NoFn == [x \in {} |-> x]
Res(script, deps) == [script |-> script, deps |-> deps]
Package(role, res, deps) ==
  [role |-> role, res |-> res, deps |-> deps, defaults |-> {}, provides |-> NoFn, requires |-> NoFn,
   intents |-> {}, runsScripts |-> role = "src",
   managed |-> [there |-> role = "krc", deps |-> {<<"install", <<"argo">>>>}]]

MCCatalog ==
  [p \in {"argo", "decl", "kc", "app"} |->
     CASE p = "argo" -> Package("krc", [t \in {<<"managed-repo">>} |-> Res(FALSE, {})], {})
       [] p = "decl" -> [Package("src", NoFn, {<<"install", <<"argo">>>>}) EXCEPT !.intents = {<<"realm">>}]
       [] p = "kc"   -> [Package("workload",
                           [t \in {<<"realm">>, <<"client">>} |->
                              Res(FALSE, {<<"install", <<"kc">>>>} \cup
                                         (IF t = <<"realm">> THEN {<<"resources", <<"app">>, <<"job">>>>}
                                                             ELSE {}))], {})
                         EXCEPT !.provides = [c \in {"oidc"} |-> <<"client">>],
                                !.defaults = {<<<<"realm">>, <<"main">>>>}]
       [] p = "app"  -> [Package("workload",
                           [t \in {<<"login">>, <<"job">>} |->
                              Res(t = <<"job">>, {<<"install", <<"app">>>>, <<"resources", <<"kc">>, <<"realm">>>>})],
                           {<<"install", <<"nobody">>>>})
                         EXCEPT !.requires = [c \in {"oidc"} |-> <<"login">>]]]

MCSubst == [n \in {"plat", "plat-{{.Env}}", "apps", "e1", "e2", "svc"} |->
              IF n = "plat-{{.Env}}" THEN <<"plat", "dev">> ELSE <<n>>]

MCBindings == [b \in {<<"b1">>, <<"b2">>} |->
                 [cap |-> "oidc", inst |-> <<"kc">>,
                  repo |-> IF b = <<"b1">> THEN "plat" ELSE "plat-{{.Env}}"]]

Sel(pkg, res, bind) == [pkg |-> pkg, inst |-> <<pkg>>, role |-> "", res |-> res, bind |-> bind]
Opt(s) == {<<>>, <<s>>}
Decl(name, kind, ref, pkgs) == [name |-> name, kind |-> kind, ref |-> ref, pkgs |-> pkgs]

SetsOn(plat, b) ==
  {[repos |-> <<Decl(plat, "generic", "", <<Sel("argo", {}, {})>> \o decl \o kc \o app)>>
              \o apps \o e1 \o e2 \o svc,
    krc |-> krc, src |-> src] :
     decl \in Opt(Sel("decl", {}, {})),
     kc \in Opt(Sel("kc", {}, {})),
     app \in Opt(Sel("app", {}, {})) \cup Opt(Sel("app", {}, {b})),
     apps \in Opt(Decl("apps", "generic", "", <<[Sel("app", {}, {b}) EXCEPT !.inst = <<"app", "two">>]>>)),
     e1 \in {<<>>} \cup {<<Decl("e1", "env", plat, pkgs)>> : pkgs \in
               {<<>>, <<Sel("kc", {<<<<"client">>, <<"b1", "e1">>>>}, {})>>,
                <<Sel("app", {<<<<"job">>, <<"j">>>>}, {})>>,
                <<Sel("app", {<<<<"job">>, <<"j">>>>}, {}), Sel("kc", {}, {})>>}},
     e2 \in Opt(Decl("e2", "env", plat, <<Sel("app", {<<<<"login">>, <<"l">>>>}, {})>>)),
     svc \in Opt(Decl("svc", "service", plat, <<>>)),
     krc \in {<<>>, <<plat, <<"argo">>>>},
     src \in {<<>>, <<plat, <<"decl">>>>}}

AllSets == SetsOn("plat", <<"b1">>) \cup SetsOn("plat-{{.Env}}", <<"b2">>)

Extended == [repos |-> <<Decl("plat", "generic", "", <<Sel("argo", {}, {}), Sel("kc", {}, {})>>)>>,
             krc |-> <<"plat", <<"argo">>>>, src |-> <<>>]

MCPackageSets == {NoSet, Extended} \X AllSets
===============================================================================
