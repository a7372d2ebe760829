------------------------------- MODULE Routing -------------------------------
(***************************************************************************)
(* Which leg a host takes: MmdfConfig::front_for, validate and what they   *)
(* call (config.rs), over the configurations that ConfigStore makes of the *)
(* settings it saved and those that the desktop program reads from files.  *)
(* Both fill in what is missing; a file that is missing, or was torn when  *)
(* the app was killed in the middle of save, says nothing.                 *)
(*                                                                         *)
(* A name is the sequence of its labels, split at each dot: the empty name *)
(* is <<"">>, and a dot at the end leaves an empty label there.            *)
(* ends_with(".d") is then a proper suffix.  Which characters make up a    *)
(* label does not matter, its spelling in capitals does.                   *)
(***************************************************************************)
EXTENDS Naturals, Integers, Sequences, SequencesExt

CONSTANTS
    Lower,     \* to_ascii_lowercase, on the labels of the instance
    DomainsOf  \* what the app's four groups are for: a set of names for each

GroupNames == {"google", "meta", "fastly", "dns"}
Labels     == DOMAIN Lower
Names      == Seq(Labels)

ASSUME LowerAssumption ==
    /\ Lower \in [Labels -> Labels] /\ {"", "localhost", "127", "0", "1"} \subseteq Labels
    /\ \A l \in Labels : Lower[Lower[l]] = Lower[l] /\ (Lower[l] = "" <=> l = "")
ASSUME DomainsAssumption == DomainsOf \in [GroupNames -> SUBSET Names]

LowerName(name) == [n \in DOMAIN name |-> Lower[name[n]]]

-----------------------------------------------------------------------------
(* The Rust side: a configuration cfg, as far as routing depends on it.     *)

\* trim_end_matches('.')
TrimEnd(name) ==
    LET last == SelectLastInSeq(name, LAMBDA l : l # "") IN
    IF last = 0 THEN <<"">> ELSE SubSeq(name, 1, last)

\* Mutant: the host is not trimmed.
CoversUntrimmed(domain, host) == IsSuffix(LowerName(domain), LowerName(host))

\* host is domain or lies below it; the domain is taken as it was written.
Covers(domain, host) == IsSuffix(LowerName(domain), LowerName(TrimEnd(host)))

Matches(group, host)     == \E d \in group.domains : Covers(d, host)
IsPassthrough(cfg, host) == \E d \in cfg.passthrough : Covers(d, host)

Leg(sni, ip) == [sni |-> sni, ip |-> ip]

\* Mutant: passthrough is asked when no group matches.
FrontForGroupsFirst(cfg, host) ==
    LET first == SelectInSeq(cfg.groups, LAMBDA g : Matches(g, host)) IN
    IF first # 0 THEN {Leg(cfg.groups[first].sni, cfg.connectIp)}
    ELSE IF IsPassthrough(cfg, host) THEN {}
    ELSE {Leg(cfg.frontDomain, cfg.connectIp) : d \in
             {d \in cfg.extraDomains : Covers(d, host)}}

\* The fronted leg for a host, or none.
FrontFor(cfg, host) ==
    LET first == SelectInSeq(cfg.groups, LAMBDA g : Matches(g, host))
        group == cfg.groups[first]
    IN  IF IsPassthrough(cfg, host) THEN {}
        ELSE IF first # 0 THEN
            {Leg(group.sni, IF group.connectIp = "" THEN cfg.connectIp
                            ELSE group.connectIp)}
        ELSE {Leg(cfg.frontDomain, cfg.connectIp) : d \in
                 {d \in cfg.extraDomains : Covers(d, host)}}

\* parse_mixed: ports are u16; and validate.
Accepted(cfg) ==
    /\ cfg.listenPort \in 1..65535 /\ cfg.socks5Port \in 1..65535
    /\ cfg.listenPort # cfg.socks5Port
    /\ cfg.connectIp # "" /\ cfg.frontDomain # ""

-----------------------------------------------------------------------------
(* The Android side: the settings ui.                                       *)

SniOf(ui, name) ==
    CASE name = "google"          -> ui.frontDomain
      [] name \in {"meta", "dns"} -> ui.sniMeta
      [] name = "fastly"          -> ui.sniFastly

\* grp(...): the group's own address is left empty.
Group(ui, name) == [sni |-> SniOf(ui, name), connectIp |-> "", domains |-> DomainsOf[name]]

Enabled(ui, name) == IF name \in ui.enabled THEN <<Group(ui, name)>> ELSE <<>>

\* What is between the separators, without leading dots, in lower case; and only what
\* then still has a dot in it.
TrimStart(name) ==
    LET first == SelectInSeq(name, LAMBDA l : l # "") IN
    IF first = 0 THEN <<"">> ELSE SubSeq(name, first, Len(name))

ExtraDomains(ui) ==
    {name \in {LowerName(TrimStart(entry)) : entry \in ui.extraDomains} : Len(name) > 1}

\* Mutant: one checkbox decides for two groups.
ToRustJsonCopied(ui) ==
    [listenPort   |-> ui.listenPort,
     socks5Port   |-> ui.socks5Port,
     connectIp    |-> ui.connectIp,
     frontDomain  |-> ui.frontDomain,
     groups       |-> Enabled(ui, "google") \o Enabled(ui, "meta") \o
                      Enabled(ui, "fastly") \o
                      (IF "meta" \in ui.enabled THEN <<Group(ui, "dns")>> ELSE <<>>),
     passthrough  |-> {<<"localhost">>, <<"127", "0", "0", "1">>},
     extraDomains |-> ExtraDomains(ui)]

\* ConfigStore.toRustJson
ToRustJson(ui) ==
    [listenPort   |-> ui.listenPort,
     socks5Port   |-> ui.socks5Port,
     connectIp    |-> ui.connectIp,
     frontDomain  |-> ui.frontDomain,
     groups       |-> Enabled(ui, "google") \o Enabled(ui, "meta") \o
                      Enabled(ui, "fastly") \o Enabled(ui, "dns"),
     passthrough  |-> {<<"localhost">>, <<"127", "0", "0", "1">>},
     extraDomains |-> ExtraDomains(ui)]

\* MmdfUiConfig(), and ConfigStore.load of what was saved.
UiDefaults ==
    [frontDomain |-> "www.google.com", connectIp |-> "142.251.36.68",
     sniMeta |-> "www.microsoft.com", sniFastly |-> "github.githubassets.com",
     listenPort |-> 8080, socks5Port |-> 1081,
     enabled |-> GroupNames, extraDomains |-> {}]

Load(saved) == saved @@ UiDefaults

-----------------------------------------------------------------------------
(* Files of the desktop program.                                            *)

\* The serde defaults.  d_groups has the app's groups, under the names the app begins
\* with; a file that does not list passthrough has none.
FileDefaults == [ToRustJson(UiDefaults) EXCEPT !.passthrough = {}]

\* parse_mixed: JSON or TOML, whichever it is.
ParseMixed(file) ==
    LET cfg == file @@ FileDefaults IN
    [cfg EXCEPT !.groups = [n \in DOMAIN @ |-> @[n] @@ [connectIp |-> ""]]]

-----------------------------------------------------------------------------
(* What configurations and settings consist of: serde and ConfigStore.load  *)
(* give nothing else.  A group without an address of its own has "".        *)

Configurations ==
    [listenPort : Nat, socks5Port : Nat, connectIp : STRING, frontDomain : STRING,
     groups : Seq([sni : STRING, connectIp : {""} \cup STRING, domains : SUBSET Names]),
     passthrough : SUBSET Names, extraDomains : SUBSET Names]

UiSettings ==
    [listenPort : Nat, socks5Port : Nat, connectIp : STRING, frontDomain : STRING,
     sniMeta : STRING, sniFastly : STRING,
     enabled : SUBSET GroupNames, extraDomains : SUBSET Names]

-----------------------------------------------------------------------------
(* What is said about hosts: two that differ in capitals and dots at their  *)
(* ends, and the domains a user chose, by the checkbox of a group or as an  *)
(* extra domain (ConfigStore.kt:87-106, HomeScreen.kt).                     *)

Label(name, n) == IF n \in DOMAIN name THEN Lower[name[n]] ELSE ""
SameHost(g, h) == \A n \in DOMAIN g \cup DOMAIN h : Label(g, n) = Label(h, n)
Chosen(ui)     == (UNION {DomainsOf[name] : name \in ui.enabled}) \cup ExtraDomains(ui)

=============================================================================
