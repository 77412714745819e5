------------------------------- MODULE StartUp -------------------------------
(* What a start makes of the database it finds: index.ts, database/connect.ts, *)
(* database/migrate.ts, core/id-allocator.ts, core/credentials.ts,             *)
(* database/integrations-repository.ts, core/scenario-registry.ts.             *)
(*                                                                             *)
(* Every statement of a start is a commit of its own, so a start that is       *)
(* killed leaves a part of its rows behind, and the next one, perhaps of       *)
(* another image or with another configuration, goes on from there.            *)
EXTENDS Integers, Sequences, FiniteSets

CONSTANTS
  CounterKeys,      \* keys of ID_COUNTER_BASES
  Kinds,            \* CredentialKind
  Secrets,          \* values of credentials
  Integrations,     \* ids of integrations
  BuiltIns,         \* ids of built-in scenarios
  Images,           \* releases of the simulator, each with its definitions
  MaxIds,           \* bound on identifiers ever allocated
  MaxStarts         \* bound on starts

ASSUME StartUpAssumption == MaxIds \in Nat /\ MaxStarts \in Nat

VARIABLES
  step,         \* where main stands; "down" when there is no process
  boot,         \* what this start was given: credentials, integrations, image
  starts,       \* how many there were
  counters,     \* table id_counters: key -> next value less its base
  credentials,  \* table credential_versions
  integrations, \* table integrations: id -> the name it was configured with
  definitions,  \* table scenario_definitions: id -> the image it comes from
  issued,       \* identifiers handed out: key and number
  recorded      \* secrets that signed something: version and value

startVars == <<step, boot, starts, counters, credentials, integrations, definitions, issued, recorded>>

CredentialRow == [kind : Kinds, version : Nat \ {0}, value : Secrets, active : BOOLEAN]
(* Names of configured integrations are the images' here, to tell an old row   *)
(* from a refreshed one.                                                       *)
Boots == [credentials : [Kinds -> Secrets], integrations : SUBSET Integrations, image : Images]

StartInit ==
  /\ step = "down" /\ boot = (CHOOSE given \in Boots : TRUE) /\ starts = 0
  /\ counters = << >> /\ credentials = {} /\ integrations = << >> /\ definitions = << >>
  /\ issued = << >> /\ recorded = {}

-----------------------------------------------------------------------------
(* main, step after step. *)

Launch(given) ==
  /\ step = "down" /\ starts < MaxStarts
  /\ step' = "counters" /\ boot' = given /\ starts' = starts + 1
  /\ UNCHANGED <<counters, credentials, integrations, definitions, issued, recorded>>

Sets(table, key, value) ==
  [k \in DOMAIN table \cup {key} |-> IF k = key THEN value ELSE table[k]]

(* Mutant of EnsureIdCounters: a conflict updates the row. *)
EnsureIdCountersReset(key) ==
  /\ step = "counters" /\ (key \in DOMAIN counters => counters[key] # 0)
  /\ counters' = Sets(counters, key, 0)
  /\ UNCHANGED <<step, boot, starts, credentials, integrations, definitions, issued, recorded>>

EnsureIdCounters(key) ==
  /\ step = "counters" /\ key \notin DOMAIN counters
  /\ counters' = Sets(counters, key, 0)
  /\ UNCHANGED <<step, boot, starts, credentials, integrations, definitions, issued, recorded>>

ActiveOf(kind) == {row \in credentials : row.kind = kind /\ row.active}

Unseeded == {kind \in Kinds : ActiveOf(kind) = {}}

EnsureCredentialsSeeded(kind) ==
  /\ step = "credentials" /\ kind \in Unseeded
  /\ credentials' = credentials \cup
       {[kind |-> kind, version |-> 1, value |-> boot.credentials[kind], active |-> TRUE]}
  /\ UNCHANGED <<step, boot, starts, counters, integrations, definitions, issued, recorded>>

Stale(table, ids) ==
  {x \in ids : x \notin DOMAIN table \/ table[x] # boot.image}

SyncIntegration(id) ==
  /\ step = "integrations" /\ id \in Stale(integrations, boot.integrations)
  /\ integrations' = Sets(integrations, id, boot.image)
  /\ UNCHANGED <<step, boot, starts, counters, credentials, definitions, issued, recorded>>

SyncBuiltInScenario(id) ==
  /\ step = "scenarios" /\ id \in Stale(definitions, BuiltIns)
  /\ definitions' = Sets(definitions, id, boot.image)
  /\ UNCHANGED <<step, boot, starts, counters, credentials, integrations, issued, recorded>>

NextStep ==
  /\ \/ step = "counters" /\ CounterKeys \subseteq DOMAIN counters /\ step' = "credentials"
     \/ step = "credentials" /\ Unseeded = {} /\ step' = "integrations"
     \/ step = "integrations" /\ Stale(integrations, boot.integrations) = {} /\ step' = "scenarios"
     \/ step = "scenarios" /\ Stale(definitions, BuiltIns) = {} /\ step' = "up"
  /\ UNCHANGED <<boot, starts, counters, credentials, integrations, definitions, issued, recorded>>

Kill ==
  /\ step # "down"
  /\ step' = "down"
  /\ UNCHANGED <<boot, starts, counters, credentials, integrations, definitions, issued, recorded>>

-----------------------------------------------------------------------------
(* While it is up. *)

AllocateId(key) ==
  /\ step = "up" /\ Len(issued) < MaxIds
  /\ issued' = Append(issued, <<key, counters[key]>>)
  /\ counters' = [counters EXCEPT ![key] = @ + 1]
  /\ UNCHANGED <<step, boot, starts, credentials, integrations, definitions, recorded>>

GetActiveCredential(kind) == CHOOSE row \in credentials : row.kind = kind /\ row.active
GetCredentialByVersion(kind, version) ==
  {row.value : row \in {r \in credentials : r.kind = kind /\ r.version = version}}
VerifyActiveCredential(kind, provided) ==
  ActiveOf(kind) # {} /\ GetActiveCredential(kind).value = provided

(* A checkout or a request that leaves behind the version it was made with.    *)
Record(kind, provided) ==
  /\ step = "up" /\ VerifyActiveCredential(kind, provided)
  /\ recorded' = recorded \cup {<<kind, GetActiveCredential(kind).version, provided>>}
  /\ UNCHANGED <<step, boot, starts, counters, credentials, integrations, definitions, issued>>

StartNext ==
  \/ \E given \in Boots : Launch(given)
  \/ \E key \in CounterKeys : EnsureIdCounters(key) \/ AllocateId(key)
  \/ \E kind \in Kinds : EnsureCredentialsSeeded(kind)
  \/ \E kind \in Kinds, provided \in Secrets : Record(kind, provided)
  \/ \E id \in Integrations : SyncIntegration(id)
  \/ \E id \in BuiltIns : SyncBuiltInScenario(id)
  \/ NextStep
  \/ Kill

StartSpec == StartInit /\ [][StartNext]_startVars

-----------------------------------------------------------------------------
(* Properties. *)

(* id-allocator.ts: no identifier is handed out twice, however many starts,    *)
(* finished or not, lie between the two.                                       *)
IdsNeverReused == \A i, j \in DOMAIN issued : i # j => issued[i] # issued[j]

(* index.ts: an instance that listens has what its routes take for granted,    *)
(* whatever was left by the starts before it: counters, exactly one active     *)
(* credential of each kind, every configured integration as configured and     *)
(* every built-in scenario of the image.                                       *)
UpIsComplete ==
  step = "up" =>
    /\ CounterKeys \subseteq DOMAIN counters
    /\ \A kind \in Kinds : Cardinality(ActiveOf(kind)) = 1
    /\ Stale(integrations, boot.integrations) = {}
    /\ Stale(definitions, BuiltIns) = {}

(* credentials.ts: the version a scenario run recorded names the secret it was *)
(* recorded with, after any number of restarts with other configurations: a    *)
(* callback that is due after a restart is signed as it was meant to be.       *)
RecordedSecretStays ==
  \A r \in recorded : GetCredentialByVersion(r[1], r[2]) = {r[3]}

(* index.ts: a start, finished or killed, of whatever image and configuration, *)
(* completes what the earlier ones left and takes nothing of it back.          *)
StartsSound == UpIsComplete /\ IdsNeverReused /\ RecordedSecretStays
=============================================================================
