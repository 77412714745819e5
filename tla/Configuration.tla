---------------------------- MODULE Configuration ----------------------------
(* The layers of the configuration and who may edit a leaf: config/loader.ts,  *)
(* config/schema.ts, config/env.ts, control-plane/settings-routes.ts.          *)
(*                                                                             *)
(* A leaf is <<section, name>>.  Values are "default", what an operator wrote  *)
(* ("one", "two"), or "bad", which the schema of the leaf refuses.             *)

CONSTANT Operators   \* what an operator may have set up: rows, file, env
ASSUME OperatorsAssumption ==
  \A s \in Operators :
    /\ s = [rows |-> s.rows, file |-> s.file, env |-> s.env]
    /\ s.file = [sections |-> s.file.sections, leaves |-> s.file.leaves, garbled |-> s.file.garbled]

VARIABLES
  setup,    \* the settings table, the mounted file, the environment
  loaded    \* what the settings page shows of what loadConfig made of them

configVars == <<setup, loaded>>

-----------------------------------------------------------------------------
(* The schema. *)

ConfigFileSchema ==
  [version      |-> {"version"},
   server       |-> {"publicUrl", "port"},
   credentials  |-> {"secretKey", "publicKey", "apiKey", "hmacSecret"},
   defaults     |-> {"currency", "scenario", "notificationUrl", "redirectionUrl",
                     "redirectMode", "validationMode"},
   integrations |-> {"integrations"},
   delivery     |-> {"requestTimeout", "retryOnTransportError", "retryOnStatuses",
                     "retryIntervals", "maxAttempts"},
   browser      |-> {"allowedFrameAncestors", "allowedRedirectOrigins"},
   security     |-> {"allowedWebhookHosts", "allowPrivateNetworks", "adminToken"},
   clock        |-> {"mode", "manualStart"},
   features     |-> {"enableLegacy", "enablePixelShim", "acceptPaymobSandboxCards"}]
Leaves == UNION {{<<section, name>> : name \in ConfigFileSchema[section]} :
                   section \in DOMAIN ConfigFileSchema}
(* Leaves the schema gives no default.                                         *)
Optional == {<<"defaults", "notificationUrl">>, <<"defaults", "redirectionUrl">>,
             <<"clock", "manualStart">>}
Switches == {<<"features", "enableLegacy">>, <<"features", "enablePixelShim">>}

(* The variables of the environment, by the leaf they set.  A number or a mode *)
(* may be refused later, a switch is off unless it says 1 or true, and any     *)
(* other text is a value.                                                      *)
EnvLeaves ==
  {<<"server", "port">>, <<"server", "publicUrl">>,
   <<"security", "adminToken">>, <<"security", "allowedWebhookHosts">>,
   <<"defaults", "notificationUrl">>, <<"defaults", "redirectionUrl">>,
   <<"defaults", "validationMode">>, <<"clock", "mode">>,
   <<"browser", "allowedRedirectOrigins">>, <<"browser", "allowedFrameAncestors">>}
  \cup {<<"credentials", name>> : name \in ConfigFileSchema["credentials"]}
  \cup Switches
ReadEnvOverlay(env) ==
  [leaf \in DOMAIN env \cap EnvLeaves |->
     IF env[leaf] # "bad" THEN env[leaf]
     ELSE IF leaf \in Switches THEN "off"
     ELSE IF leaf \in {<<"server", "port">>, <<"defaults", "validationMode">>, <<"clock", "mode">>}
          THEN "bad" ELSE "text"]

(* A mounted section is parsed with its defaults filled in, a section the file *)
(* does not have stays away.                                                   *)
FileOverlay(file) ==
  [leaf \in DOMAIN file.leaves
            \cup {leaf \in Leaves \ Optional : leaf[1] \in file.sections} |->
     IF leaf \in DOMAIN file.leaves THEN file.leaves[leaf] ELSE "default"]
FileRefused(file) ==
  file.garbled \/ \E leaf \in DOMAIN file.leaves : file.leaves[leaf] = "bad"

-----------------------------------------------------------------------------
(* The layers. *)

Entry(value, source, locked) == [value |-> value, source |-> source, locked |-> locked]
DefaultConfig ==
  [leaf \in Leaves \ Optional |-> Entry("default", "default", FALSE)]

(* Mutant of Layered: the lock is the section's.                               *)
LayeredSection(config, layer, source, locked) ==
  [leaf \in DOMAIN layer \cup DOMAIN config |->
     IF leaf \in DOMAIN layer THEN Entry(layer[leaf], source, locked)
     ELSE [config[leaf] EXCEPT !.locked = @ \/ (locked /\ \E l \in DOMAIN layer : l[1] = leaf[1])]]
Layered(config, layer, source, locked) ==
  [leaf \in DOMAIN layer \cup DOMAIN config |->
     IF leaf \in DOMAIN layer THEN Entry(layer[leaf], source, locked) ELSE config[leaf]]

Outcome(is, leaves) == [is |-> is, leaves |-> leaves]
SchemaRefuses(config) == \E leaf \in DOMAIN config : config[leaf].value = "bad"

LoadConfig(s) ==
  LET saved  == Layered(DefaultConfig, s.rows, "database", FALSE)
      filed  == Layered(saved, FileOverlay(s.file), "file", TRUE)
      merged == Layered(filed, ReadEnvOverlay(s.env), "env", TRUE)
  IN  IF FileRefused(s.file) \/ SchemaRefuses(merged) THEN Outcome("error", << >>)
      ELSE Outcome("read", merged)

(* What the settings page lists; a secret is masked.                           *)
SecretLeafPaths ==
  {<<"credentials", name>> : name \in {"secretKey", "apiKey", "hmacSecret"}}
  \cup {<<"security", "adminToken">>}
FlattenWithSources(config) ==
  [leaf \in DOMAIN config |->
     IF leaf \in SecretLeafPaths THEN [config[leaf] EXCEPT !.value = "masked"] ELSE config[leaf]]

ConfigInit == setup \in Operators /\ loaded = Outcome("unread", << >>)
ReadConfig ==
  /\ loaded = Outcome("unread", << >>)
  /\ loaded' = [LoadConfig(setup) EXCEPT !.leaves = FlattenWithSources(@)]
  /\ UNCHANGED setup
ConfigSpec == ConfigInit /\ [][ReadConfig]_configVars

-----------------------------------------------------------------------------
(* Properties. *)

OutOf(leaves, f) == [leaf \in DOMAIN f \ leaves |-> f[leaf]]
Section(section) == {leaf \in Leaves : leaf[1] = section}
WithFile(sections, leaves) ==
  [setup EXCEPT !.file = [sections |-> sections, leaves |-> leaves, garbled |-> setup.file.garbled]]
Unwritten(leaf) == WithFile(setup.file.sections, OutOf({leaf}, setup.file.leaves))
Unmounted(section) ==
  WithFile(setup.file.sections \ {section}, OutOf(Section(section), setup.file.leaves))

(* With another set-up every leaf but `mine` has the value, the source and the *)
(* lock it has with this one.                                                  *)
SameBeside(mine, other) ==
  LoadConfig(other).is = "read" =>
    OutOf(mine, LoadConfig(setup).leaves) = OutOf(mine, LoadConfig(other).leaves)

(* What takes a row, a variable, a line or a section of the file away changes  *)
(* nothing beside it.  The file has its sections whole: the leaves of one it   *)
(* names are its own, also those it does not mention.                          *)
LayersTouchTheirOwn ==
  loaded.is = "read" =>
    /\ \A leaf \in DOMAIN setup.rows :
         SameBeside({leaf}, [setup EXCEPT !.rows = OutOf({leaf}, @)])
    /\ \A leaf \in DOMAIN setup.env :
         SameBeside({leaf}, [setup EXCEPT !.env = OutOf({leaf}, @)])
    /\ \A leaf \in DOMAIN setup.file.leaves : SameBeside({leaf}, Unwritten(leaf))
    /\ \A section \in setup.file.sections : SameBeside(Section(section), Unmounted(section))

(* What the page shows as locked does not depend on the settings table, the    *)
(* only layer a dashboard could write: with an empty table the leaf has the    *)
(* same value.                                                                 *)
LockedIgnoresDatabase ==
  \A leaf \in DOMAIN loaded.leaves :
    loaded.leaves[leaf].locked =>
      LET other == LoadConfig([setup EXCEPT !.rows = << >>]).leaves
      IN  leaf \in DOMAIN other /\ other[leaf].value = LoadConfig(setup).leaves[leaf].value

(* loader.ts: a row and a variable decide the one leaf they name, the mounted  *)
(* file the sections it names, each nothing beside them; and a locked leaf is  *)
(* decided by nothing a dashboard could save.                                  *)
LayersApart == LayersTouchTheirOwn /\ LockedIgnoresDatabase
=============================================================================
