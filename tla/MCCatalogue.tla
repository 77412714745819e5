----------------------------- MODULE MCCatalogue -----------------------------
(* The pure rules, each over its own inputs: a scenario is compiled and        *)
(* played, an outbound request made, a card typed, a body validated, the        *)
(* configuration read.  They                                                   *)
(* share no state; `part` is the one a behaviour is about, and the others rest *)
(* at one fixed input.                                                         *)
EXTENDS ScenarioRun, OutboundRequest, TestCards, RequestRules, Configuration

VARIABLE part
catalogueVars == <<part, runVars, outboundVars, cardVars, ruleVars, configVars>>

-----------------------------------------------------------------------------
(* Scenarios of three steps. *)

Names == {"a", "b"}
CustomSteps ==
  {Transition(id, after, to) :
     id \in Names, after \in {Immediately, Seeded}, to \in {"pending", "succeeded", "expired"}}
  \cup {Webhook(id, after, snapshot) :
     id \in Names, after \in {Soon, Seeded}, snapshot \in {"current", "a"}}
  \cup {Snapshot(id, Immediately, "failed") : id \in Names}
  \cup {TimelineStep(id, after, action, "none", "a") :
     id \in Names, after \in {Soon, Garbled, Seeded},
     action \in {"webhook.repeat", "webhook.corrupt_hmac", "webhook.mutate_payload"}}
ThirdSteps ==
  {Repeat("c", Soon, "a"), Repeat("c", Soon, "b"), Repeat("c", Immediately, "b"),
   Redirect("c", Seeded, "success"), Transition("c", Soon, "succeeded")}
CustomScenarios ==
  {[Scenario("custom", <<x, y, z>>) EXCEPT !.range = range] :
     x \in CustomSteps, y \in CustomSteps, z \in ThirdSteps, range \in {<<0, 2>>, <<2, 0>>}}
OneInstant ==
  [Scenario("custom", <<Transition("a", Seeded, "pending"), Webhook("b", Seeded, "current")>>)
     EXCEPT !.range = <<2, 2>>]
Inputs == BuiltInScenarios \cup CustomScenarios \cup {OneInstant}

-----------------------------------------------------------------------------
(* Outbound requests. *)

CanonicalName == [h \in {"shop", "SHOP.", "other"} |-> IF h = "other" THEN h ELSE "shop"]

Ends4 == {IPv4(<<127, 0, 0, 1>>), IPv4(<<10, 0, 0, 0>>), IPv4(<<172, 15, 255, 255>>),
          IPv4(<<172, 16, 0, 0>>), IPv4(<<172, 31, 255, 255>>), IPv4(<<172, 32, 0, 0>>),
          IPv4(<<100, 63, 255, 255>>), IPv4(<<100, 64, 0, 0>>), IPv4(<<100, 127, 255, 255>>),
          IPv4(<<100, 128, 0, 0>>), IPv4(<<169, 254, 169, 254>>), IPv4(<<223, 255, 255, 255>>),
          IPv4(<<224, 0, 0, 0>>), IPv4(<<239, 255, 255, 255>>), IPv4(<<240, 0, 0, 0>>),
          IPv4(<<8, 8, 8, 8>>), IPv4(<<8, 8, 8, 9>>), IPv4(<<203, 0, 113, 7>>), IPv4(<<0, 0, 0, 0>>)}
V6(first, last) == IPv6(first \o Zeros(16 - Len(first) - Len(last)) \o last)
Ends6 == {V6(<< >>, <<1>>), V6(<<254, 128>>, <<1>>), V6(<<252, 0>>, <<1>>), V6(<<38, 6, 40>>, <<1>>)}

RawPort(host, port) == RawEntry(host, FALSE, None, port)
RawBlock(a, prefix) == RawEntry(Literal(a), FALSE, prefix, None)
Mapped(bytes) == IPv6(Zeros(10) \o <<255, 255>> \o bytes)
OtherSpellings == {Spelt(V6(<<252, 0>>, <<1>>), "long"), Spelt(Mapped(<<169, 1, 2, 3>>), "dotted")}
RawEntries ==
  {RawPort(Named(h), port) : h \in {"shop", "SHOP.", "other"}, port \in {None, 80, 0}}
  \cup {RawPort(Literal(a), port) :
          a \in {IPv4(<<10, 0, 0, 0>>), IPv4(<<8, 8, 8, 9>>)}, port \in {None, 443}}
  \cup {RawBlock(a, prefix) : a \in {IPv4(<<8, 8, 8, 9>>), IPv4(<<172, 16, 0, 0>>)},
                              prefix \in {0, 1, 9, 12, 31, 32, 33}}
  \cup {RawBlock(a, prefix) : a \in Ends6, prefix \in {0, 7, 128}}
  \cup {RawEntry(Spelt(V6(<<252, 0>>, <<1>>), text), TRUE, None, port) :
          text \in {"canonical", "long"}, port \in {None, 80}}
  \cup {RawEntry(host, FALSE, prefix, None) : host \in OtherSpellings, prefix \in {None, 7, 96, 112}}
  \cup {RawEntry(Named("shop"), TRUE, None, None), RawEntry(Named("shop"), FALSE, 8, None)}

Ask(url, allowlist, allowPrivate, v4, v6, wire) ==
  [url |-> url, allowlist |-> allowlist, allowPrivate |-> allowPrivate,
   v4 |-> v4, v6 |-> v6, wire |-> wire]
Hosts == {Named("shop"), Named("SHOP."), Literal(IPv4(<<8, 8, 8, 8>>)),
          Literal(IPv4(<<8, 8, 8, 9>>)), Literal(IPv4(<<172, 31, 255, 255>>)),
          Literal(V6(<<252, 0>>, <<1>>)), Literal(Mapped(<<169, 1, 2, 3>>)),
          Literal(IPv6(Zeros(12) \o <<255, 255, 1, 105>>))}
PolicyAsked ==
  {Ask(Url(form, host, port), {raw}, TRUE, <<IPv4(<<8, 8, 8, 8>>)>>, << >>, "response") :
     form \in {"http", "https", "userinfo"}, host \in Hosts, port \in {None, 0, 80},
     raw \in RawEntries}
Answers == {<<a>> : a \in Ends4} \cup {<<a, b>> : a \in Ends4, b \in Ends4}
ResolvedAsked ==
  {Ask(Url("http", Named("shop"), None), {RawPort(Named("shop"), None)}, allowPrivate, v4, v6, wire) :
     allowPrivate \in BOOLEAN, v4 \in Answers \cup {<< >>}, v6 \in {<< >>} \cup {<<a>> : a \in Ends6},
     wire \in {"response", "transport_error"}}
AskedHere == PolicyAsked \cup ResolvedAsked

-----------------------------------------------------------------------------
(* Cards and names. *)

OneDigitChanged(pan) ==
  {[pan EXCEPT ![i] = d] : i \in DOMAIN pan, d \in 0 .. 9}
TypedHere == UNION {OneDigitChanged(card[1]) : card \in BuiltInCards} \cup {<<9, 9>>, << >>}
Typing(command, rest) == [command |-> command, rest |-> rest]
NamesHere ==
  {Typing("SIM", alias) : alias \in DOMAIN NamedAliases \cup {"unknown"}}
  \cup {Typing("SIM:", id) : id \in {"none", "three-ds-success", "nonsense"}}
  \cup {Typing("other", "none")}

-----------------------------------------------------------------------------
(* Bodies. *)

Item(amount, quantity) == [amount |-> amount, quantity |-> quantity]
Bodies ==
  {[f \in Fields |->
      CASE f = "amount" -> amount
        [] f = "currency" -> Given("EGP")
        [] f = "payment_methods" -> methods
        [] f = "items" -> items
        [] f = "billing_data" -> person
        [] f = "customer" -> person
        [] f = "notification_url" -> notification
        [] f = "redirection_url" -> redirection
        [] f = "expiration" -> expiration
        [] OTHER -> Absent] :
     amount \in {Absent, Malformed, Given(2), Given(4)},
     methods \in {Absent, Malformed, Given(<< >>), Given(<<1>>), Given(<<1, 1>>), Given(<<9>>)},
     items \in {Absent, Null} \cup {Given(<< >>), Given(<<Item(1, 2)>>), Given(<<Item(2, 1), Item(2, 1)>>),
                Given(<<Item(2, 1), Item(3, 1)>>), Given(<<Item(3, 2)>>), Given(<<Item(0, 9), Item(4, 1)>>)},
     person \in {Absent, Null, Given("partial"), Given("complete")},
     notification \in {Absent, Null, Malformed, Given(Url("http", Named("shop"), None)),
                       Given(Url("http", Named("other"), None))},
     redirection \in {Absent, Given(Url("https", Named("shop"), 443)),
                      Given(Url("http", Named("shop"), 443))},
     expiration \in {Absent, Malformed}}
HookList == {RawPort(Named("shop"), None)}
ShopOrigin == {Url("https", Named("shop"), None)}

-----------------------------------------------------------------------------
(* What operators set up.  For each leaf, nothing or one of some values. *)

Settings(leaves, written) ==
  UNION {[some -> written] : some \in SUBSET leaves}
Port == <<"server", "port">>
Secret == <<"credentials", "hmacSecret">>
Hook == <<"defaults", "notificationUrl">>
File(sections, leaves, garbled) == [sections |-> sections, leaves |-> leaves, garbled |-> garbled]
Files ==
  {File({leaf[1] : leaf \in DOMAIN leaves} \cup empty, leaves, FALSE) :
     leaves \in Settings({Port, Secret, Hook}, {"two"}), empty \in {{}, {"server", "credentials"}}}
  \cup {File({}, << >>, TRUE), File({"server"}, Port :> "bad", FALSE)}
OperatorsHere ==
  [rows : Settings({Port, Secret, Hook}, {"one", "bad"}), file : Files,
   env : Settings({Port, Secret, <<"features", "enableLegacy">>}, {"one", "bad"})]

-----------------------------------------------------------------------------
(* The parts side by side. *)

ScenarioRests ==
  /\ scenario = Scenario("none", << >>) /\ draws = <<0, 0>> /\ plan = << >> /\ phase = "rejected"
  /\ played = << >> /\ state = "processing" /\ snaps = {} /\ log = << >>
OutboundRests ==
  /\ asked = Ask(Url("http", Named("shop"), None), {}, FALSE, << >>, << >>, "response")
  /\ did = NotYet
CardRests == typed = [pan |-> << >>, name |-> Typing("other", "none")] /\ chosen = Selected("none", "none")
ConfigRests == setup = [rows |-> << >>, file |-> File({}, << >>, FALSE), env |-> << >>] /\ loaded = Outcome("unread", << >>)
RulesRest == body = [f \in Fields |-> Absent] /\ verdicts = [mode \in Modes |-> 0]

CatalogueInit ==
  \/ part = "scenario" /\ RunInit /\ OutboundRests /\ CardRests /\ RulesRest /\ ConfigRests
  \/ part = "outbound" /\ ScenarioRests /\ OutboundInit /\ CardRests /\ RulesRest /\ ConfigRests
  \/ part = "card" /\ ScenarioRests /\ OutboundRests /\ CardInit /\ RulesRest /\ ConfigRests
  \/ part = "request" /\ ScenarioRests /\ OutboundRests /\ CardRests /\ RulesInit /\ ConfigRests
  \/ part = "config" /\ ScenarioRests /\ OutboundRests /\ CardRests /\ RulesRest /\ ConfigInit

CatalogueNext ==
  /\ UNCHANGED part
  /\ \/ part = "scenario" /\ RunNext /\ UNCHANGED <<outboundVars, cardVars, ruleVars, configVars>>
     \/ part = "outbound" /\ OutboundNext /\ UNCHANGED <<runVars, cardVars, ruleVars, configVars>>
     \/ part = "card" /\ SubmitCard /\ UNCHANGED <<runVars, outboundVars, ruleVars, configVars>>
     \/ part = "request" /\ Validate /\ UNCHANGED <<runVars, outboundVars, cardVars, configVars>>
     \/ part = "config" /\ ReadConfig /\ UNCHANGED <<runVars, outboundVars, cardVars, ruleVars>>

CatalogueSpec == CatalogueInit /\ [][CatalogueNext]_catalogueVars
=============================================================================
