---------------------------- MODULE RoutingProofs ----------------------------
(***************************************************************************)
(* What front_for depends on, for every configuration and every name: a    *)
(* passthrough domain comes first, spelling does not matter, and on the    *)
(* phone nothing but what was chosen leads to a leg.                       *)
(***************************************************************************)
EXTENDS Routing, SequenceTheorems, WellFoundedInduction, TLAPS

\* front_for begins with is_passthrough: such a host has no fronted leg, whatever
\* groups and extra domains say.
LEMMA PassthroughFirst ==
    ASSUME NEW cfg, NEW h, IsPassthrough(cfg, h)
    PROVE  FrontFor(cfg, h) = {}
  BY DEF FrontFor

\* A name depends on its host only through what is left of it when it is trimmed and in
\* lower case.
LEMMA SameLeg ==
    ASSUME NEW cfg, NEW g, NEW h, LowerName(TrimEnd(g)) = LowerName(TrimEnd(h))
    PROVE  FrontFor(cfg, g) = FrontFor(cfg, h)
<1>1. \A d : Covers(d, g) = Covers(d, h)
  BY DEF Covers
<1>2. IsPassthrough(cfg, g) = IsPassthrough(cfg, h)
  BY <1>1 DEF IsPassthrough
<1>3. \A grp : Matches(grp, g) = Matches(grp, h)
  BY <1>1 DEF Matches
<1>4. SelectInSeq(cfg.groups, LAMBDA grp : Matches(grp, g))
        = SelectInSeq(cfg.groups, LAMBDA grp : Matches(grp, h))
  BY <1>3 DEF SelectInSeq
<1>5. {d \in cfg.extraDomains : Covers(d, g)} = {d \in cfg.extraDomains : Covers(d, h)}
  BY <1>1
<1> QED
  BY <1>2, <1>4, <1>5 DEF FrontFor

-----------------------------------------------------------------------------
(* The first and the last of a finite set of positions.                     *)

LEMMA LeastNatural ==
    ASSUME NEW T, T \subseteq Nat, T # {}
    PROVE  \E m \in T : \A n \in T : m <= n
<1> DEFINE R == OpToRel(<, Nat)
<1>1. IsWellFoundedOn(R, Nat)
  BY NatLessThanWellFounded
<1>2. \A m, n \in Nat : <<m, n>> \in R <=> m < n
  BY DEF OpToRel
<1> HIDE DEF R
<1>3. PICK m \in T : \A n \in T : <<n, m>> \notin R
  BY <1>1, WFMin
<1>4. \A n \in T : ~(n < m)
  BY <1>2, <1>3
<1> QED
  BY <1>4

LEMMA LastOfSet ==
    ASSUME NEW n \in Nat, NEW T, T \subseteq 1..n, T # {}
    PROVE  Max(T) \in T
<1> DEFINE Bounds == {m \in Nat : \A i \in T : i <= m}
<1>1. n \in Bounds
  OBVIOUS
<1>2. PICK m \in Bounds : \A b \in Bounds : m <= b
  BY <1>1, LeastNatural
<1>3. m \in T
  <2>1. SUFFICES ASSUME m \notin T PROVE FALSE
    OBVIOUS
  <2>2. \A i \in T : i <= m - 1 /\ i >= 1
    BY <2>1
  <2>3. m - 1 \in Nat
    <3>1. PICK i \in T : i <= m - 1 /\ i >= 1
      BY <2>2
    <3>2. i \in Nat /\ m \in Nat
      OBVIOUS
    <3> QED
      BY <3>1, <3>2
  <2>4. m - 1 \in Bounds
    BY <2>2, <2>3
  <2> QED
    BY <1>2, <2>3, <2>4
<1>4. \E x \in T : \A y \in T : x >= y
  BY <1>2, <1>3
<1> QED
  BY <1>4 DEF Max

LEMMA FirstOfSet ==
    ASSUME NEW T, T \subseteq Nat, T # {}
    PROVE  Min(T) \in T
  BY LeastNatural DEF Min

-----------------------------------------------------------------------------

\* Trimmed and in lower case, hosts that differ in capitals and dots at their ends are
\* the same.
LEMMA SameTrimmed ==
    ASSUME NEW g \in Names, NEW h \in Names, SameHost(g, h)
    PROVE  LowerName(TrimEnd(g)) = LowerName(TrimEnd(h))
<1> DEFINE Full(name) == {i \in 1..Len(name) : name[i] # ""}
           last       == Max(Full(g))
<1>1. /\ DOMAIN g = 1..Len(g) /\ Len(g) \in Nat /\ DOMAIN h = 1..Len(h) /\ Len(h) \in Nat
      /\ \A i \in 1..Len(g) : g[i] \in Labels
      /\ \A i \in 1..Len(h) : h[i] \in Labels
  BY LenProperties, ElementOfSeq DEF Names
<1>2. \A l \in Labels : Lower[l] = "" <=> l = ""
  BY LowerAssumption DEF LowerAssumption
<1>3. \A i \in 1..Len(g) : g[i] # "" => i \in 1..Len(h) /\ h[i] # "" /\ Lower[h[i]] = Lower[g[i]]
  BY <1>1, <1>2 DEF SameHost, Label
<1>4. \A i \in 1..Len(h) : h[i] # "" => i \in 1..Len(g) /\ g[i] # "" /\ Lower[h[i]] = Lower[g[i]]
  BY <1>1, <1>2 DEF SameHost, Label
<1>5. Full(g) = Full(h)
  BY <1>3, <1>4
<1>6. \A name : TrimEnd(name) = IF Full(name) = {} THEN <<"">>
                                ELSE IF Max(Full(name)) = 0 THEN <<"">>
                                ELSE SubSeq(name, 1, Max(Full(name)))
  BY DEF TrimEnd, SelectLastInSeq
<1>7. CASE Full(g) = {}
  BY <1>5, <1>6, <1>7
<1>8. CASE Full(g) # {}
  <2>1. last \in 1..Len(g) /\ last \in 1..Len(h)
    BY <1>1, <1>3, <1>8, LastOfSet
  <2> HIDE DEF Full, last
  <2>2. last # 0 /\ \A i \in 1..last : i \in 1..Len(g) /\ i \in 1..Len(h)
    BY <1>1, <2>1
  <2>3. \A i \in 1..last : Lower[g[i]] = Lower[h[i]]
    <3>1. \A i \in 1..last : Label(g, i) = Label(h, i)
      BY <1>1, <2>2 DEF SameHost
    <3> QED
      BY <1>1, <2>2, <3>1 DEF Label
  <2>5. TrimEnd(g) = SubSeq(g, 1, last)
    BY <1>6, <1>8, <2>2 DEF last
  <2>6. TrimEnd(h) = SubSeq(h, 1, last)
    BY <1>5, <1>6, <1>8, <2>2 DEF last
  <2>4. /\ DOMAIN SubSeq(g, 1, last) = 1..last /\ DOMAIN SubSeq(h, 1, last) = 1..last
        /\ \A i \in 1..last : SubSeq(g, 1, last)[i] = g[i] /\ SubSeq(h, 1, last)[i] = h[i]
    BY <1>1, <2>1
  <2> QED
    BY <2>3, <2>4, <2>5, <2>6 DEF LowerName
<1> QED
  BY <1>7, <1>8

\* config.rs:25, 176, 199: capitals and dots at the end do not matter, whatever the
\* configuration.
LEMMA SpellingOfHosts ==
    ASSUME NEW cfg, NEW g \in Names, NEW h \in Names, SameHost(g, h)
    PROVE  FrontFor(cfg, g) = FrontFor(cfg, h)
  BY SameTrimmed, SameLeg

-----------------------------------------------------------------------------
(* The app's configurations.                                                *)

\* Each group of the app's configuration is there because its box is checked.
LEMMA GroupsAreEnabled ==
    ASSUME NEW ui, NEW n \in 1..Len(ToRustJson(ui).groups)
    PROVE  \E name \in ui.enabled \cap GroupNames : ToRustJson(ui).groups[n] = Group(ui, name)
<1> DEFINE S == {Group(ui, name) : name \in ui.enabled \cap GroupNames}
<1>1. \A name \in GroupNames : Enabled(ui, name) \in Seq(S)
  <2> SUFFICES ASSUME NEW name \in GroupNames PROVE Enabled(ui, name) \in Seq(S)
    OBVIOUS
  <2>1. CASE name \in ui.enabled
    <3>1. Group(ui, name) \in S
      BY <2>1
    <3> HIDE DEF S
    <3>2. <<Group(ui, name)>> \in Seq(S)
      BY <3>1
    <3> QED
      BY <2>1, <3>2 DEF Enabled
  <2>2. CASE name \notin ui.enabled
    BY <2>2 DEF Enabled
  <2> QED
    BY <2>1, <2>2
<1>2. /\ Enabled(ui, "google") \in Seq(S) /\ Enabled(ui, "meta") \in Seq(S)
      /\ Enabled(ui, "fastly") \in Seq(S) /\ Enabled(ui, "dns") \in Seq(S)
  BY <1>1 DEF GroupNames
<1> HIDE DEF S
<1>3. Enabled(ui, "google") \o Enabled(ui, "meta") \in Seq(S)
  BY <1>2, ConcatProperties
<1>4. Enabled(ui, "google") \o Enabled(ui, "meta") \o Enabled(ui, "fastly") \in Seq(S)
  BY <1>2, <1>3, ConcatProperties
<1>5. ToRustJson(ui).groups \in Seq(S)
  BY <1>2, <1>4, ConcatProperties DEF ToRustJson
<1>6. ToRustJson(ui).groups[n] \in S
  BY <1>5, ElementOfSeq
<1> QED
  BY <1>6 DEF S

\* ConfigStore.kt:87-106: a host of the app's has a leg only if it lies below a domain
\* that was chosen.
LEMMA LegsAreChosen ==
    ASSUME NEW ui, NEW h, FrontFor(ToRustJson(ui), h) # {}
    PROVE  \E d \in Chosen(ui) : Covers(d, h)
<1> DEFINE cfg   == ToRustJson(ui)
           hits  == {n \in 1..Len(cfg.groups) : Matches(cfg.groups[n], h)}
<1>1. cfg.extraDomains = ExtraDomains(ui)
  BY DEF ToRustJson
<1>2. SelectInSeq(cfg.groups, LAMBDA g : Matches(g, h)) = IF hits # {} THEN Min(hits) ELSE 0
  BY DEF SelectInSeq
<1>3. hits # {} \/ \E d \in cfg.extraDomains : Covers(d, h)
  BY <1>2 DEF FrontFor
<1>4. CASE hits # {}
  <2>1. PICK n \in 1..Len(cfg.groups) : Matches(cfg.groups[n], h)
    BY <1>4
  <2>2. PICK name \in ui.enabled : cfg.groups[n] = Group(ui, name)
    BY GroupsAreEnabled
  <2>3. cfg.groups[n].domains = DomainsOf[name]
    <3>1. Group(ui, name).domains = DomainsOf[name]
      BY DEF Group
    <3> QED
      BY <2>2, <3>1, Zenon
  <2>4. PICK d \in DomainsOf[name] : Covers(d, h)
    BY <2>1, <2>3 DEF Matches
  <2> QED
    BY <2>4 DEF Chosen
<1>5. CASE \E d \in cfg.extraDomains : Covers(d, h)
  BY <1>1, <1>5 DEF Chosen
<1> QED
  BY <1>3, <1>4, <1>5

-----------------------------------------------------------------------------
(* Types.                                                                   *)

LEMMA KnownLabels ==
    "" \in Labels /\ "localhost" \in Labels /\ "127" \in Labels /\ "0" \in Labels
    /\ "1" \in Labels
  BY LowerAssumption DEF LowerAssumption

LEMMA TupleInSeq ==
    ASSUME NEW S, NEW a \in S, NEW b \in S, NEW c \in S
    PROVE  <<a>> \in Seq(S) /\ <<a, b, b, c>> \in Seq(S)
  OBVIOUS

LEMMA NameParts ==
    ASSUME NEW name \in Names
    PROVE  LowerName(name) \in Names /\ TrimStart(name) \in Names
<1>1. /\ Len(name) \in Nat /\ DOMAIN name = 1..Len(name)
      /\ \A n \in 1..Len(name) : name[n] \in Labels
  BY LenProperties, ElementOfSeq DEF Names
<1>2. LowerName(name) \in [1..Len(name) -> Labels]
  BY <1>1, LowerAssumption DEF LowerName, LowerAssumption
<1>3. LowerName(name) \in Names
  BY <1>1, <1>2, SeqDef DEF Names
<1> DEFINE hits == {n \in 1..Len(name) : name[n] # ""}
<1>4. TrimStart(name) = IF hits = {} THEN <<"">>
                        ELSE IF Min(hits) = 0 THEN <<"">>
                        ELSE SubSeq(name, Min(hits), Len(name))
  BY DEF TrimStart, SelectInSeq
<1>5. <<"">> \in Names
  BY KnownLabels, TupleInSeq, Zenon DEF Names
<1>6. CASE hits # {}
  <2>1. hits \subseteq Nat /\ hits \subseteq 1..Len(name)
    <3>1. hits \subseteq 1..Len(name)
      BY Zenon
    <3> HIDE DEF hits
    <3> QED
      BY <1>1, <3>1
  <2> HIDE DEF hits
  <2>2. Min(hits) \in 1..Len(name)
    BY <1>6, <2>1, FirstOfSet
  <2>3. \A n \in Min(hits)..Len(name) : name[n] \in Labels
    <3> DEFINE k == Min(hits)
    <3>1. k \in 1..Len(name)
      BY <2>2
    <3> HIDE DEF k
    <3>2. \A n \in k..Len(name) : name[n] \in Labels
      BY <1>1, <3>1
    <3> QED
      BY <3>2 DEF k
  <2>4. SubSeq(name, Min(hits), Len(name)) \in Names
    BY <1>1, <2>2, <2>3, SubSeqProperties DEF Names
  <2> QED
    BY <1>3, <1>4, <1>5, <2>4
<1> QED
  BY <1>3, <1>4, <1>5, <1>6

LEMMA GroupRecord ==
    ASSUME NEW S, NEW T, NEW U, NEW a \in S, NEW b \in T, NEW d \in U
    PROVE  [sni |-> a, connectIp |-> b, domains |-> d] \in [sni : S, connectIp : T, domains : U]
  OBVIOUS

LEMMA ConfigTyped ==
    ASSUME NEW ui \in UiSettings
    PROVE  ToRustJson(ui) \in Configurations
<1> DEFINE Groups == [sni : STRING, connectIp : {""} \cup STRING, domains : SUBSET Names]
<1>1. \A name \in GroupNames : Group(ui, name) \in Groups
  <2> SUFFICES ASSUME NEW name \in GroupNames PROVE Group(ui, name) \in Groups
    OBVIOUS
  <2>1. DomainsOf[name] \subseteq Names
    BY DomainsAssumption DEF DomainsAssumption
  <2>2. /\ ui.frontDomain \in STRING /\ ui.sniMeta \in STRING /\ ui.sniFastly \in STRING
    BY DEF UiSettings
  <2>3. SniOf(ui, name) \in STRING
    <3>1. SniOf(ui, "google") = ui.frontDomain /\ SniOf(ui, "meta") = ui.sniMeta
      BY DEF SniOf
    <3>2. SniOf(ui, "fastly") = ui.sniFastly /\ SniOf(ui, "dns") = ui.sniMeta
      BY DEF SniOf
    <3> QED
      BY <2>2, <3>1, <3>2 DEF GroupNames
  <2> DEFINE sni == SniOf(ui, name)
             domains == DomainsOf[name]
  <2>4. sni \in STRING /\ domains \in SUBSET Names
    BY <2>1, <2>3
  <2> HIDE DEF sni, domains
  <2>5. [sni |-> sni, connectIp |-> "", domains |-> domains] \in Groups
    <3>1. "" \in {""} \cup STRING
      OBVIOUS
    <3> QED
      BY <2>4, <3>1, GroupRecord, Zenon
  <2> QED
    BY <2>5, Zenon DEF Group, sni, domains
<1>2. ToRustJson(ui).groups \in Seq(Groups)
  <2>1. \A name \in GroupNames : Enabled(ui, name) \in Seq(Groups)
    <3> SUFFICES ASSUME NEW name \in GroupNames PROVE Enabled(ui, name) \in Seq(Groups)
      OBVIOUS
    <3>1. Group(ui, name) \in Groups
      BY <1>1
    <3> HIDE DEF Groups
    <3>2. <<Group(ui, name)>> \in Seq(Groups) /\ <<>> \in Seq(Groups)
      BY <3>1
    <3> QED
      BY <3>2 DEF Enabled
  <2>2. /\ Enabled(ui, "google") \in Seq(Groups) /\ Enabled(ui, "meta") \in Seq(Groups)
        /\ Enabled(ui, "fastly") \in Seq(Groups) /\ Enabled(ui, "dns") \in Seq(Groups)
    BY <2>1 DEF GroupNames
  <2> HIDE DEF Groups
  <2>3. Enabled(ui, "google") \o Enabled(ui, "meta") \in Seq(Groups)
    BY <2>2, ConcatProperties
  <2>4. Enabled(ui, "google") \o Enabled(ui, "meta") \o Enabled(ui, "fastly") \in Seq(Groups)
    BY <2>2, <2>3, ConcatProperties
  <2> QED
    BY <2>2, <2>4, ConcatProperties DEF ToRustJson
<1>3. ExtraDomains(ui) \subseteq Names
  BY NameParts DEF ExtraDomains, UiSettings
<1>4. {<<"localhost">>, <<"127", "0", "0", "1">>} \subseteq Names
  <2>1. <<"localhost">> \in Names
    BY KnownLabels, TupleInSeq, Zenon DEF Names
  <2>2. <<"127", "0", "0", "1">> \in Names
    BY KnownLabels, TupleInSeq, Zenon DEF Names
  <2> QED
    BY <2>1, <2>2
<1> QED
  BY <1>2, <1>3, <1>4 DEF ToRustJson, Configurations, UiSettings

LEMMA LegTyped ==
    ASSUME NEW cfg \in Configurations, NEW h
    PROVE  \A leg \in FrontFor(cfg, h) : leg \in [sni : STRING, ip : STRING]
<1> DEFINE hits  == {n \in 1..Len(cfg.groups) : Matches(cfg.groups[n], h)}
           first == IF hits # {} THEN Min(hits) ELSE 0
<1>1. SelectInSeq(cfg.groups, LAMBDA g : Matches(g, h)) = first
  BY DEF SelectInSeq
<1>2. cfg.connectIp \in STRING /\ cfg.frontDomain \in STRING
  BY DEF Configurations
<1>3. CASE hits # {}
  <2>1. hits \subseteq Nat /\ hits \subseteq 1..Len(cfg.groups)
    OBVIOUS
  <2> HIDE DEF hits
  <2>2. first \in 1..Len(cfg.groups)
    BY <1>3, <2>1, FirstOfSet
  <2> HIDE DEF first
  <2>3. cfg.groups[first] \in [sni : STRING, connectIp : {""} \cup STRING, domains : SUBSET Names]
    BY <2>2, ElementOfSeq DEF Configurations
  <2>4. /\ cfg.groups[first].sni \in STRING
        /\ cfg.groups[first].connectIp \in {""} \cup STRING
    BY <2>3
  <2>5. ASSUME NEW leg \in FrontFor(cfg, h)
        PROVE  \/ leg = Leg(cfg.groups[first].sni, cfg.connectIp)
               \/ /\ leg = Leg(cfg.groups[first].sni, cfg.groups[first].connectIp)
                  /\ cfg.groups[first].connectIp # ""
               \/ leg = Leg(cfg.frontDomain, cfg.connectIp)
    BY <1>1, <2>5 DEF FrontFor
  <2>6. ASSUME NEW sni \in STRING, NEW ip \in STRING
        PROVE  Leg(sni, ip) \in [sni : STRING, ip : STRING]
    BY DEF Leg
  <2>7. cfg.groups[first].connectIp # "" => cfg.groups[first].connectIp \in STRING
    BY <2>4
  <2> QED
    BY <1>2, <2>4, <2>5, <2>6, <2>7, Zenon
<1>4. CASE hits = {}
  <2>1. ASSUME NEW leg \in FrontFor(cfg, h)
        PROVE  leg = Leg(cfg.frontDomain, cfg.connectIp)
    BY <1>1, <1>4, <2>1 DEF FrontFor
  <2> QED
    BY <1>2, <2>1 DEF Leg
<1> QED
  BY <1>3, <1>4

=============================================================================
