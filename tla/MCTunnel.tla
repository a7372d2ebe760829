------------------------------ MODULE MCTunnel ------------------------------
(***************************************************************************)
(* Names, settings and desktop configurations for Tunnel: a host for each  *)
(* way through front_for, two groups of the four, and a configuration      *)
(* whose groups, passthrough and extra domains overlap.                    *)
(***************************************************************************)
EXTENDS Tunnel

LowerCase ==
    [l \in {"", "www", "google", "com", "bank", "dns", "instagram", "extra", "org",
            "localhost", "127", "0", "1"} |-> l] @@
    ("Google" :> "google") @@ ("WWW" :> "www") @@ ("Extra" :> "extra") @@ ("Bank" :> "bank")

Google == <<"google", "com">>

GroupDomains ==
    [google |-> {Google}, meta |-> {<<"instagram", "com">>}, fastly |-> {},
     dns |-> {<<"dns", "google">>}]

Empty == [field \in {} |-> ""]

\* Nothing saved; a choice, with extra domains written as people write them and a name
\* cleared; one the proxy refuses.
SomeSettings ==
    {Empty,
     [enabled |-> {"meta", "fastly"}, sniMeta |-> "",
      extraDomains |-> {<<"", "Extra", "org">>, <<"localhost">>}],
     [socks5Port |-> 8080]}

\* A file with groups of its own that overlap, and one that leaves everything out.
SomeFiles ==
    {[groups |-> <<[sni |-> "first", connectIp |-> "own", domains |-> {<<"www">> \o Google}],
                   [sni |-> "second", domains |-> {Google}]>>,
      passthrough |-> {<<"Bank">> \o Google},
      extraDomains |-> {Google, <<"extra", "org">>}],
     Empty}

AllHosts ==
    {<<"www">> \o Google, <<"WWW", "Google", "com", "">>, <<"bank">> \o Google,
     <<"dns", "google">>, <<"instagram", "com">>, <<"www", "extra", "org">>, <<"localhost">>}

\* One configuration, a fronted host and a direct one.
OneSetting == {[enabled |-> {"google"}]}
NoFiles    == {}
TwoHosts   == {Google, <<"localhost">>}

=============================================================================
